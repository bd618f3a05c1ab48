CONSTANTS
  Threads = {0}
  Errs = {0, 1, 2}
  n1 = n1
  n2 = n2
  Nodes <- MCNodes
  NodeErrs <- MCNodeErrs
  IfNodes <- MCIfNodes
  MaxBatch = 8
  MaxBatches = 2
  MaxRefs = 12
  CountErrorThread = 0
  MaxCountErrors = 1
  MaxDrops = 1
  MaxClears = 1
SPECIFICATION Spec
INVARIANT TypeOK
INVARIANT CountsMatchNaive
INVARIANT CountsInShard
INVARIANT ErrorsAttributed
INVARIANT TxDownDropsCounted
CHECK_DEADLOCK FALSE
