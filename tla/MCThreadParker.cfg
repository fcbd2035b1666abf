SPECIFICATION FairSpec
CONSTANTS
  Unparkers = {u1, u2, u3}
  Parker = parker
  Null = null
INVARIANTS
  UnparkIsExact
PROPERTIES
  EveryoneReturns
