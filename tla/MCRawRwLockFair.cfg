SPECIFICATION FairSpec
CONSTANTS
  Threads = {t1, t2}
  MaxReaders = 4
  MaxShared = 1
  Ops <- Operations
  Timeouts = {FALSE}
PROPERTIES
  FairUnlockHandsOver
