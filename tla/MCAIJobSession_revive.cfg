\* The save of a session races the end of the job.
SPECIFICATION SessionSpec
CONSTANTS
  Jobs = {j1}
  Incidents = {i1}
  i1 = i1
  IncidentOf <- OneIncident
  Instances = {w1}
  Keys = {}
  Seqs = {1}
  Clients = {c1, c2}
  Submitters = {c1, c2}
  None = None
  LeaseTTL = 1
  ReclaimScan = 1
  MaxTime = 3
  MaxVersion = 2
SYMMETRY Symmetry
\* The clock and the versions are bounded, so a run of the model may stop.
CHECK_DEADLOCK FALSE
PROPERTIES TerminalIsFinal
