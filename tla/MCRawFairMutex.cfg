SPECIFICATION FairSpec
CONSTANTS
  Threads = {t1, t2, t3}
  Null = Null
  SpinLimit = 0
  Timeouts = {TRUE, FALSE}
  Fairness = {TRUE}
PROPERTIES
  ParkedGetsMutex
