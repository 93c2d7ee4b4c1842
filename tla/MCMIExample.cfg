SPECIFICATION FairSpec
CONSTANTS
    c1 = c1
    c2 = c2
    c3 = c3
    d1 = d1
    d2 = d2
    None = None
    Caches = {c1, c2, c3}
    Dmas = {d1, d2}
    Words = {1, 2}
    Values = {0, 1}
    Systems <- SmallSystems
INVARIANTS
  ProtocolInv
  LatestKept
  NoInvalidTransition
PROPERTIES
  DmaReadsLatest
  EveryRequestDone
CHECK_DEADLOCK FALSE
