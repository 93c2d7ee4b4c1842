SPECIFICATION MCSpec
CONSTANTS
  p1 = p1
  p2 = p2
  p3 = p3
  p4 = p4
  a1 = a1
  a2 = a2
  a3 = a3
  b1 = b1
  None = None
  Ports = {p1, p2, p3, p4}
  Packets = 2
  Restored = FALSE
  Interfaces = {p1, p2, p3}
  MaxAddr = 7
  Offers <- Moving
INVARIANT ConflictsAreFatal
CHECK_DEADLOCK FALSE
