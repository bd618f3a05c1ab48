\* Two pollers: thread 1 runs interface output and calls CountError on
\* shard 0 while thread 0 runs the error node on the same shard.
CONSTANTS
  Threads = {0, 1}
  Errs = {0, 1, 2}
  n1 = n1
  n2 = n2
  Nodes <- MCNodes
  NodeErrs <- MCNodeErrs
  IfNodes <- MCIfNodes
  MaxBatch = 2
  MaxBatches = 1
  MaxRefs = 12
  CountErrorThread = 1
  MaxCountErrors = 1
  MaxDrops = 1
  MaxClears = 0
SPECIFICATION Spec
INVARIANT CountsMatchNaive
CHECK_DEADLOCK FALSE
