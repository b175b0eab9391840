--------------------------- MODULE MCAIJobWorker ---------------------------
(* Model values and symmetry for AIJobWorker.                              *)
EXTENDS AIJobWorker, TLC

CONSTANTS w1, w2

Symmetry == Permutations(Workers)
=============================================================================
