SPECIFICATION Spec
CONSTANTS
  k1 = k1
  k2 = k2
  Connections <- OneConnection
  Sizes <- Small
  MaxReplayEvents = 4
  MaxReplayBytes = 4
  MaxOutbound = 2
  MaxPublished = 4
  MaxRebirths = 0
PROPERTIES
  ReplayFits
CHECK_DEADLOCK FALSE
