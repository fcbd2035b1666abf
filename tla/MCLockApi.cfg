CONSTANTS
  Threads    = {t1, t2}
  MaxGuards  = 2
  MaxTotal   = 3
  MaxDepth   = 2
  MaxHandles = 1
  None       = None

SPECIFICATION Spec
SYMMETRY Symmetry
CHECK_DEADLOCK FALSE
INVARIANTS
  GuardsExclude
  RawMatchesGuards
  LockOutlivesGuards
