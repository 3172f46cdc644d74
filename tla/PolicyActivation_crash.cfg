SPECIFICATION Spec
CONSTANTS
    p1 = p1
    p2 = p2
    p3 = p3
    short = short
    long = long
    Policies <- MCPolicies
    Repeat <- MCRepeat
    MaxVersions = 3
    MaxTx = 3
    MaxDecisions = 2
    MaxFaults = 3
\* A refused start waits for an operator, and the bounds may be used up.
CHECK_DEADLOCK FALSE
INVARIANTS
    AuthorityAgrees
    RestartLoadsCommitted
    DecisionsFollowActivation
