SPECIFICATION Spec
CONSTANTS
    o1 = o1
    o2 = o2
    None = None
    Operators <- MCOperator
    MaxCalls = 3
    MaxSessions = 2
    MaxOps = 1
    MaxFaults = 1
CHECK_DEADLOCK FALSE
INVARIANTS
    CallsWereAuthorised
    
