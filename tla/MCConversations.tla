-------------------------- MODULE MCConversations --------------------------
\* A team of two: intake and reviewer.
EXTENDS Conversations

CONSTANTS a, b

MCRoster == <<a, b>>
MCUserMentions == {Nobody, b, "everyone"}
============================================================================
