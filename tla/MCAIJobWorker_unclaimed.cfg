\* Two workers list the same job.
SPECIFICATION Spec
CONSTANTS
  w1 = w1
  w2 = w2
  Workers = {w1, w2}
  None = None
  LeaseTTL = 4
  Heartbeat = 1
  MaxAttempts = 2
  MaxWait = 1
  RetryDelay = 1
  MaxFaults = 0
  MaxLate = 1
SYMMETRY Symmetry
PROPERTIES WorksOnlyIfClaimed
