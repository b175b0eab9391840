\* Batches that may outlast the lock timeout; one process or call fails.
SPECIFICATION LiveSpec
CONSTANTS
  None = None
  MaxDeliveries = 2
  Workers = {w1, w2}
  Operators = {}
  LockTimeout = 2
  BatchSize = 2
  MaxAttempts = 3
  BaseBackoff = 1
  CapBackoff = 2
  Jitter = 0
  Streams = FALSE
  MaxLag = 1
  MaxSend = 1
  MaxFaults = 1
PROPERTIES EventuallyDone
