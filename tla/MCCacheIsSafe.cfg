SPECIFICATION Spec
CONSTANTS
  k1 = k1
  k2 = k2
  Connections <- OneConnection
  Sizes <- Small
  MaxReplayEvents = 3
  MaxReplayBytes = 4
  MaxOutbound = 2
  MaxPublished = 3
  MaxRebirths = 1
INVARIANTS
  CacheIsSafe
CHECK_DEADLOCK FALSE
