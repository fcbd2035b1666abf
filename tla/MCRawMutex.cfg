SPECIFICATION Spec
CONSTANTS
  Threads = {t1, t2, t3}
  Null = Null
  SpinLimit = 1
  Timeouts = {TRUE, FALSE}
  Fairness = {TRUE, FALSE}
SYMMETRY Symmetry
INVARIANTS
  MutualExclusion
  ParkedBitCoversQueue
  NoLostWakeup
  ParkedBitIsWanted
  NoThreadLost
PROPERTIES
  ImplementsLock
