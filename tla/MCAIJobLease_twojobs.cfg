\* Two Run requests of one incident at the same time.
SPECIFICATION Spec
CONSTANTS
  Jobs = {j1, j2}
  Incidents = {i1}
  i1 = i1
  IncidentOf <- OneIncident
  Instances = {w1}
  Keys = {}
  Seqs = {}
  Clients = {c1, c2}
  Submitters = {c1, c2}
  None = None
  LeaseTTL = 1
  ReclaimScan = 1
  MaxTime = 1
  MaxVersion = 1
SYMMETRY Symmetry
\* The clock and the versions are bounded, so a run of the model may stop.
CHECK_DEADLOCK FALSE
INVARIANTS OneActiveJob
