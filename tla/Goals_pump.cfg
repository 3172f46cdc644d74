SPECIFICATION GoalsSpec
CONSTANTS
    g1 = g1
    NoGoal = NoGoal
    Goals <- MCGoals
    MaxSteps = 2
    PlannerAttempts = 2
    MaxReviewCycles = 2
    OtherLoops = TRUE
    MaxTasks = 9
    MaxOps = 1
    MaxFaults = 1
CHECK_DEADLOCK FALSE

    
PROPERTY GoalEnds
