CONSTANTS
  t1 = t1
  t2 = t2
  t3 = t3
  Threads = {t1, t2, t3}
  Destroyers = {t3}
  None = None
  MaxDepth = 3
SPECIFICATION FairSpec
CHECK_DEADLOCK FALSE
INVARIANTS
  TypeOK
  MutualExclusion
  RacyTestIsSound
  CountExact
  FreeOnlyWhenUnheld
PROPERTIES
  IsRecursiveMutex
  SomeWaiterGetsIn
