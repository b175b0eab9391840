SPECIFICATION LiveSpec
CONSTANTS
  w1 = w1
  w2 = w2
  j1 = j1
  Waiters = {w1, w2}
  Jobs = {j1}
  None = None
  WaitTicks = 7
  PollInterval = 2
  MaxInterval = 4
  CacheTTL = 2
  MaxPollers = 4
  Window = 2
  MinSamples = 2
  MaxRead = 1
  MaxVersion = 2
INVARIANTS TypeOK OneQueryAtATime PollersSeeInTime
PROPERTIES ProtectionIsSticky EventuallyTaken
