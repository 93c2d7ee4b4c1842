SPECIFICATION BothSpec
CONSTANTS
  NUM_DELTAS = 4
  DELTA_BITS = 3
  ADDR_MOD = 64
  INT_MOD = 16
  TABLE_SIZE = 2
  PC = {0, 1, 2}
  Addr = {1, 2, 3, 4, 8}
  MaxAccesses = 5
INVARIANTS
  TableInv
  RingIsRecentHistory
  ConstantStridePredicted
  SequentialInv
  OnlyFirstMiss
CHECK_DEADLOCK FALSE
