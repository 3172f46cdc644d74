SPECIFICATION ChannelSpec
CONSTANTS
    a = a
    b = b
    Nobody = Nobody
    Roster <- MCRoster
    UserMentions <- MCUserMentions
    MaxDepth = 1
    MaxMessages = 8
    MaxPosts = 2
    MaxCommands = 1
    MaxFailures = 1
    MaxEvents = 3
CHECK_DEADLOCK FALSE
INVARIANTS
    StopReachesTurn
    
    
PROPERTY ChannelFallsIdle
