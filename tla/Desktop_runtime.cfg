SPECIFICATION Spec
CONSTANTS
    c1 = c1
    c2 = c2
    Coworkers <- MCCoworkers
    Pack <- MCPack
    Bindings <- MCBindings
    MaxEdits = 2
    MaxFaults = 1
\* The application may be down with a policy that no longer lets it start.
CHECK_DEADLOCK FALSE
INVARIANTS
    AgentsAreAllowed
    OneRuntimeServes
    ChangesReachRoster
