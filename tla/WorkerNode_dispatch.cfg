SPECIFICATION NodeSpec
CONSTANTS
    q1 = q1
    q2 = q2
    c1 = c1
    c2 = c2
    b1 = b1
    b2 = b2
    None = None
    Requests <- MCRequests
    Calls <- MCCalls
    Bodies <- MCBodies
    MaxConcurrency = 1
    MaxTasks = 2
    FaultKinds = {"restart", "create", "loop"}
    MaxFaults = 1
SYMMETRY Symmetry
CHECK_DEADLOCK FALSE
INVARIANTS
    OneTaskPerRequest
    LedgerTruthful
    ConfirmedIsOver
