--------------------------- MODULE MCNoticeLimiter ---------------------------
(* Instances of NoticeLimiter for TLC.                                     *)
EXTENDS NoticeLimiter, TLC

Symmetry == Permutations(Workers) \cup Permutations(Channels)
=============================================================================
