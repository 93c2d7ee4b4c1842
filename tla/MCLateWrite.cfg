SPECIFICATION Spec
CONSTANTS
  Caches = {c1, c2}
  Requests = 4
  numTarget = 4
  LateWrites = TRUE
  None = None
INVARIANT
  ReadersInvalidate
CHECK_DEADLOCK FALSE
