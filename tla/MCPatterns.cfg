CONSTANTS
  NUM_DELTAS = 6
  DELTA_BITS = 3
  ADDR_MOD = 64
  INT_MOD = 16
  TABLE_SIZE = 1
  PC = {1}
  Addr = {0, 1, 3}
  MaxAccesses = 7
SPECIFICATION MCSpec
INVARIANTS PeriodicPatternPredicted
CHECK_DEADLOCK FALSE
