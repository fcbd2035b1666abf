SPECIFICATION FairSpec
CONSTANTS
  Threads = {t1, t2, t3}
  MaxReaders = 2
  MaxShared = 1
  Ops <- LiveOps
  Timeouts = {FALSE}
INVARIANTS
  WordCountsHolders
PROPERTIES
  ParkedIsWoken
  PendingWriterGetsLock
