CONSTANTS
  Caches = {c1, c2, c3}
  Requests = 5
  numTarget = 2
  LateWrites = FALSE
  None = None
SPECIFICATION FairSpec
INVARIANTS
  CoherenceInv
  CopiesCurrent
PROPERTIES
  ReadsForward
  EveryRequestAnswered
CHECK_DEADLOCK FALSE
