SPECIFICATION Spec
CONSTANTS
    j1 = j1
    None = None
    Jobs <- MCJobs
    MaxAttempts = 2
    MaxReconnects = 2
    MaxRequests = 3
    MaxLocals = 3
    MaxOps = 2
    MaxFaults = 1
    MaxLosses = 2
CHECK_DEADLOCK FALSE
INVARIANTS
    WorkingIsPumped
    CompletedMeansDone
    
    
PROPERTY PumpIsFreed
