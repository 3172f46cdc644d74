SPECIFICATION AutomationSpec
CONSTANTS
    r1 = r1
    t1 = t1
    t2 = t2
    None = None
    Routines <- MCRoutines
    Triggers <- MCTriggers
    Period = 1
    Quiet = 1
    MaxFires = 1
    Window = 1
    HistoryLimit = 3
    MaxTime = 3
    MaxJobs = 2
    MaxOps = 3
    MaxStops = 1
SYMMETRY MCSymmetry
CHECK_DEADLOCK FALSE
INVARIANTS
    NoMissedRunStorm
    StormBound
    LiveJobsAccounted
