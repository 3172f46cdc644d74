---------------------------- MODULE MCTeachOnce ----------------------------
\* Two sessions of one coworker.
EXTENDS TeachOnce, TLC

CONSTANTS s1, s2

MCSessions == {s1, s2}
Symmetry == Permutations(MCSessions)
============================================================================
