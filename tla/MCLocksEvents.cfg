SPECIFICATION LocksEventsSpec
CONSTANTS
  Contexts = {1, 2}
  Addrs = {0, 1, 2}
  Values = {0, 1}
  GranuleSize = 2
  Blocks = {x, y, z}
  assoc = 2
  None = None
  e1 = e1
  e2 = e2
  e3 = e3
  e4 = e4
  Events = {e1, e2, e3, e4}
  NULL = NULL
  Priority <- TwoPriorities
  AutoSerialize = {e1, e2}
  LastTick = 1
SYMMETRY BlockSymmetry
INVARIANTS
  CacheInv
  QueueInv
PROPERTIES
  ImplementsLLSC
  CacheSuccessIsAtomic
  ImplementsEventList
CHECK_DEADLOCK FALSE
