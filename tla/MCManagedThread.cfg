SPECIFICATION Spec
CONSTANTS
  r1 = r1
  r2 = r2
  r3 = r3
  m1 = m1
  m2 = m2
  a1 = a1
  a2 = a2
  v1 = v1
  v2 = v2
  NoTurn = NoTurn
  Turns <- TwoTurns
  Messages <- OneMessage
  Approvals <- OneApproval
  Settings <- ModelOnly
  Values <- OneValue
  FirstValue = v1
  MaxSteeringMessages = 1
  MaxSettingChanges = 1
  MaxSaveFailures = 1
SYMMETRY TurnSymmetry
INVARIANTS
  TypeOK
  OneActiveTurn
  StopIsHonoured
  SteersSettled
  PendingApprovalIsLive
  DiskSettles
  LastWordIsOutcome
PROPERTIES
  NoLateApproval
CHECK_DEADLOCK FALSE
