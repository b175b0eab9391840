--------------------------- MODULE MCAIJobSession ---------------------------
(* Instances of AIJobSession for TLC.                                      *)
EXTENDS AIJobSession, TLC

CONSTANTS i1

OneIncident == [j \in Jobs |-> i1]

Symmetry == Permutations(Jobs) \cup Permutations(Instances) \cup Permutations(Clients)
=============================================================================
