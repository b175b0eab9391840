---------------------------- MODULE MCAlertIngest ----------------------------
(* AlertIngest for TLC.                                                    *)
EXTENDS AlertIngest, TLC

Symmetry == Permutations(Ids) \cup Permutations(Cards)
=============================================================================
