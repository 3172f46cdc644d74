---------------------------- MODULE MCAutomation ----------------------------
\* One routine and two triggers.
EXTENDS Automation, TLC

CONSTANTS r1, t1, t2

MCRoutines == {r1}
MCTriggers == {t1, t2}
MCSymmetry == Permutations(MCTriggers)
=============================================================================
