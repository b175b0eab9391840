-------------------------- MODULE MCSessionContext --------------------------
(* SessionContext for TLC.                                                 *)
EXTENDS SessionContext, TLC

Symmetry == Permutations(Slots)
=============================================================================
