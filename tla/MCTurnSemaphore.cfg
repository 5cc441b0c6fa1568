SPECIFICATION FairSpec
CONSTANTS
  t1 = t1
  t2 = t2
  t3 = t3
  t4 = t4
  Threads <- MCThreads
  Limit = 2
INVARIANTS
  TypeOK
  PermitAccounting
  NoIdlePermit
PROPERTIES
  FirstComeFirstServed
  QueueDrains
  ImplementsPool
