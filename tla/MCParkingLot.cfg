SPECIFICATION Spec
CONSTANTS
  Threads = {t1, t2, t3}
  k1 = k1
  k2 = k2
  Keys = {k1, k2}
  Null = Null
  LOAD_FACTOR = 1
  HashWidth = 2
  HashValue <- Apart
  Parkers = {t1, t2, t3}
  MayCall <- AnyCall
  MaxBits = 2
  MaxCalls = 3
SYMMETRY Symmetry
INVARIANTS
  QueuesHoldWaiters
  ThreadDataAlive
  TimedOutInQueue
  LockOrder
  TableLargeEnough
  
PROPERTIES
  ImplementsQueues
CHECK_DEADLOCK FALSE
