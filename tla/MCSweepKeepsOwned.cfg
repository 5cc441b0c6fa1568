SPECIFICATION Spec
CONSTANTS
  minted = minted
  chosen = chosen
  o1 = o1
  o2 = o2
  c1 = c1
  c2 = c2
  NoObject = NoObject
  NoId = NoId
  Ids <- BothIds
  AppManaged <- MintedOnly
  Objects <- TwoObjects
  Callers <- OneCaller
  MaxRestarts = 0
INVARIANTS
  WorkspaceKept
CHECK_DEADLOCK FALSE
