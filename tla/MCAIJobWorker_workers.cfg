\* Two workers on one job; one request fails, or one worker dies.
SPECIFICATION Spec
CONSTANTS
  w1 = w1
  w2 = w2
  Workers = {w1, w2}
  None = None
  LeaseTTL = 4
  Heartbeat = 1
  MaxAttempts = 2
  MaxWait = 1
  RetryDelay = 1
  MaxFaults = 1
  MaxLate = 1
SYMMETRY Symmetry
INVARIANTS PromptWorkerKeepsLease SuccessIsReal
PROPERTIES SplitBrainIsBounded
