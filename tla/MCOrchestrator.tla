-------------------------- MODULE MCOrchestrator --------------------------
\* Two tasks, the second depending on the first and held by a review gate; two
\* agents that can both run and review; the first task may also be a bound one.
EXTENDS Orchestrator, TLC

CONSTANTS t1, t2, a1, a2, r1, r2

MCTasks == {t1, t2}
MCAgents == {a1, a2}
MCRuns == {r1, r2}
MCDeps == (t1 :> {}) @@ (t2 :> {t1})
MCEligible == [t \in MCTasks |-> MCAgents]
MCReviewed == {t2}
MCBoundTasks == {t1}
===========================================================================
