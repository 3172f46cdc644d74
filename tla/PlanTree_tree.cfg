SPECIFICATION Spec
CONSTANTS
    Plan = Plan
    n1 = n1
    n2 = n2
    None = None
    Nodes <- MCNodes
    Calls = {c1}
    Cancels = {k1}
    Cascades = {TRUE, FALSE}
    MaxRetries = 1
SYMMETRY MCSymmetry
\* A plan with all its tasks ended and nothing left to ask is a legal end.
CHECK_DEADLOCK FALSE
INVARIANTS
    CascadeHolds
    
