SPECIFICATION LimiterSpec
CONSTANTS
  Addresses = {a1, a2, a3}
  Window = 2
  Threshold = 2
  BasePenalty = 1
  MaxPenalty = 5
  MaxFailures = 5
  MaxAddresses = 2
  EvictBatch = 1
  MaxTime = 6
  MaxCalls = 8
SYMMETRY Symmetry
CHECK_DEADLOCK FALSE
INVARIANT BlockedAsDeserved
PROPERTY BlocksGoLast
