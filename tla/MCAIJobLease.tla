---------------------------- MODULE MCAIJobLease ----------------------------
(* Instances of AIJobLease for TLC.                                        *)
EXTENDS AIJobLease, TLC

CONSTANTS i1

\* Every job id is created for the one incident: jobs of different incidents
\* share no row but the signal.
OneIncident == [j \in Jobs |-> i1]

Symmetry ==
  Permutations(Jobs) \cup Permutations(Instances) \cup Permutations(Keys)
    \cup Permutations(Submitters) \cup Permutations(Clients \ Submitters)
=============================================================================
