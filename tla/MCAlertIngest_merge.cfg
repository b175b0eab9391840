\* Two requests at a time on one fingerprint.
SPECIFICATION Spec
CONSTANTS
  None = None
  Fps = {f1}
  Ids = {i1, i2}
  Cards = {a1}
  Keys = {k1}
  Clients = {c1, c2}
  Staff = {c2}
SYMMETRY Symmetry
\* The ids of incidents and alerts run out, but requests never do.
INVARIANTS TypeOK OneOpenIncident
PROPERTIES OnlyOverlapUndoes AlertsReachOpenIncidents OncePerKey
