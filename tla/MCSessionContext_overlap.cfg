\* Two requests of any kind at a time.
SPECIFICATION Spec
CONSTANTS
  None = None
  Slots = {c1, c2}
  Assignees = {o1}
  Reviews = {"confirmed"}
  Jobs = {j1, j2}
  Notes = {n1}
  Evidence = {e1}
  DueWindow = 1
  EscalationWindow = 2
  MaxTime = 4
  MaxRequests = 4
SYMMETRY Symmetry
\* The clock and the requests are bounded, so a run of the model may stop.
CHECK_DEADLOCK FALSE
INVARIANTS TypeOK EscalationIsDue AssignedHasDeadline CleanIsConsistent
PROPERTIES LostOnlyByOverlap
