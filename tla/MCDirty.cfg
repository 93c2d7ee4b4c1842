SPECIFICATION Spec
CONSTANTS
  BLOCK_SIZE = 2
  MAX_QUEUE_SIZE = 2
  MAX_PHYS_MEM_ADDR = 5
  MAX_DEGREE = 2
  prefetcher_size = 2
  Candidates <- Up
  numSets = 1
  assoc = 1
  mshrs = 2
  numTarget = 2
  write_buffers = 1
  prefetchOnAccess = TRUE
  WritebackRaces = TRUE
PROPERTIES
  DirtyDataPreserved
CHECK_DEADLOCK FALSE
