\* Successive jobs of one incident, whose Run requests come one at a time; two instances
\* and two concurrent requests of any kind.
SPECIFICATION Spec
CONSTANTS
  Jobs = {j1, j2}
  Incidents = {i1}
  i1 = i1
  IncidentOf <- OneIncident
  Instances = {w1, w2}
  Keys = {}
  Seqs = {1}
  Clients = {c1, c2}
  Submitters = {c1}
  None = None
  LeaseTTL = 0
  ReclaimScan = 1
  MaxTime = 2
  MaxVersion = 2
SYMMETRY Symmetry
\* The clock and the versions are bounded, so a run of the model may stop.
CHECK_DEADLOCK FALSE
INVARIANTS TypeOK LeaseIffRunning OneActiveJob IncidentShowsActiveJob DiagnosisFromSuccess
PROPERTIES LeaseNotStolen QueuedIsSignalled TerminalIsFinal DiagnosisKept ImplementsQueue
