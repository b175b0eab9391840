\* Three workers and two channels; two calls are lost or processes die.
SPECIFICATION Spec
CONSTANTS
  Workers = {w1, w2, w3}
  Channels = {c1, c2}
  GlobalQPS = 3
  PerChannelQPS = 2
  PerChannelConcurrency = 2
  WindowTTL = 2
  ConcurrencyTTL = 3
  FailOpen = TRUE
  MaxLag = 1
  MaxSend = 2
  MaxFaults = 2
SYMMETRY Symmetry
INVARIANTS SendsBounded QuotaExact
