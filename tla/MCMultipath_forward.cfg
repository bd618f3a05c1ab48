CONSTANTS
  Leaves = {3, 4, 5}
  NhAdjs = {3, 4, 5}
  RibAdjs = {3, 4, 5}
  MpIds = {b1, b2, b3}
  b1 = b1
  b2 = b2
  b3 = b3
  p1 = p1
  p2 = p2
  IpPrefixes = {p1, p2}
  Weights = {1, 2}
  MaxOps = 4
  MaxHeapOps = 0
  AdjNil = 99
SYMMETRY Sym
SPECIFICATION Spec
INVARIANT ForwardsAsIntended
CHECK_DEADLOCK FALSE
