---------------------------- MODULE MCPlanTree ----------------------------
\* A plan with two tasks that may be delegated under it or under each other.
EXTENDS PlanTree, TLC

CONSTANTS n1, n2

MCNodes == {n1, n2}

MCSymmetry == Permutations(MCNodes)
===========================================================================
