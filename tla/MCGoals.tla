------------------------------ MODULE MCGoals ------------------------------
\* One goal.
EXTENDS Goals

CONSTANT g1

MCGoals == {g1}
=============================================================================
