SPECIFICATION Spec
CONSTANTS
    a1 = a1
    a2 = a2
    Agents <- MCAgents
    MaxFailures = 3
    MaxWrites = 3
SYMMETRY Symmetry
INVARIANTS
    ProfileKept
    EvidenceKept
    BackupConsistent
    RestoreKeepsState
    
CHECK_DEADLOCK FALSE
