SPECIFICATION Spec
CONSTANTS
  Threads = {t1, t2, t3}
  MaxReaders = 5
  MaxShared = 2
  Ops <- Operations
  Timeouts = {TRUE, FALSE}
SYMMETRY Symmetry
INVARIANTS
  WordCountsHolders
  PendingWriterIsWoken
  NoLostWakeup
  RecursiveReadNeverSleeps
PROPERTIES
  ImplementsRwLock
