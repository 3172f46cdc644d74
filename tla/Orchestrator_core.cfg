SPECIFICATION FairSpec
CONSTANTS
    t1 = t1
    t2 = t2
    a1 = a1
    a2 = a2
    r1 = r1
    r2 = r2
    None = None
    Tasks <- MCTasks
    Agents <- MCAgents
    Runs <- MCRuns
    Reviews = {v1}
    Deps <- MCDeps
    Eligible <- MCEligible
    Reviewed <- MCReviewed
    Reviewers <- MCAgents
    BoundTasks <- MCBoundTasks
    MaxConcurrency = 1
    MaxAttempt = 1
    MaxFaults = 1
\* Every task may end completed: the runs then have nothing to pick.
CHECK_DEADLOCK FALSE
INVARIANTS
    DependencyOrder
    PublicationGate
    ReviewGate
    ControllerOwned
PROPERTIES
    ImplementsLifecycle
    
