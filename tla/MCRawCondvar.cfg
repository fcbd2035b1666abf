SPECIFICATION FairSpec
CONSTANTS
  Threads = {t1, t2, t3}
  Mutexes = {m1, m2}
  Null = null
  Waits <- TwoWaits
INVARIANTS
  OneOwner
  StateIsMutexInUse
  NotificationNotLost
PROPERTIES
  ParkedIsWoken
CHECK_DEADLOCK FALSE
