SPECIFICATION FairSpec
CONSTANTS
  Threads = {t1, t2, t3, t4}
  Null = Null
  SpinLimit = 1
  MaxLocks = 1
INVARIANTS
  MutualExclusion
  NodesAlive
  
  NoLostWakeup
PROPERTIES
  ImplementsLock
  AllReturn
CHECK_DEADLOCK FALSE
