\* Workers slower than the lock timeout, a crash or failed call, announced ids, two operators.
SPECIFICATION Spec
CONSTANTS
  None = None
  MaxDeliveries = 1
  Workers = {w1, w2}
  Operators = {o1, o2}
  LockTimeout = 1
  BatchSize = 2
  MaxAttempts = 3
  BaseBackoff = 1
  CapBackoff = 2
  Jitter = 0
  Streams = TRUE
  MaxLag = 1
  MaxSend = 2
  MaxFaults = 1
SYMMETRY WorkersAndOperators
INVARIANTS TypeOK AttemptLeft SucceededIsAccepted AcceptedOnceUnlessDoubtful
PROPERTIES LockNotStolen SettledUnreadIsFinal ImplementsOutbox
