SPECIFICATION Spec
CONSTANTS
  k1 = k1
  k2 = k2
  Connections <- TwoConnections
  Sizes <- SmallAndLarge
  MaxReplayEvents = 3
  MaxReplayBytes = 4
  MaxOutbound = 2
  MaxPublished = 5
  MaxRebirths = 1
SYMMETRY ConnectionSymmetry
INVARIANTS
  TypeOK
  WindowContiguous
  WindowWeight
  StreamInOrder
  CaughtUp
CHECK_DEADLOCK FALSE
