-------------------------- MODULE MCStateTransfer --------------------------
(* Instance of StateTransfer, with the doctor, for TLC. *)
EXTENDS Doctor, TLC

CONSTANTS a1, a2

MCAgents == {a1, a2}
Symmetry == Permutations(MCAgents)
============================================================================
