SPECIFICATION FairSpec
CONSTANTS
  BLOCK_SIZE = 2
  MAX_QUEUE_SIZE = 1
  MAX_PHYS_MEM_ADDR = 5
  MAX_DEGREE = 1
  prefetcher_size = 1
  Candidates <- Up
  numSets = 1
  assoc = 1
  mshrs = 2
  numTarget = 2
  write_buffers = 1
  prefetchOnAccess = FALSE
  WritebackRaces = FALSE
INVARIANTS
  NoAbort
PROPERTIES
  DirtyDataPreserved
  RefusedRequestRetried
  EveryMissAnswered
