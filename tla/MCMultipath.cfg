CONSTANTS
  Leaves = {3, 4, 5}
  NhAdjs = {3, 4, 5}
  RibAdjs = {1, 3, 4, 5}
  MpIds = {b1, b2, b3}
  b1 = b1
  b2 = b2
  b3 = b3
  p1 = p1
  p2 = p2
  IpPrefixes = {p1, p2}
  Weights = {1, 2}
  MaxOps = 3
  MaxHeapOps = 2
  AdjNil = 99
SYMMETRY Sym
SPECIFICATION Spec
INVARIANT TypeOK
INVARIANT RefCountsMatch
INVARIANT HashConsistent
INVARIANT HooksMatchHeap
INVARIANT NormalizeWithinTolerance
CHECK_DEADLOCK FALSE
