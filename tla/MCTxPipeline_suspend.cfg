\* The bounds of MCTxPipeline.cfg: capacity and suspend threshold 4,
\* resume 2, vectors of up to 2 refs.
CONSTANTS
  MaxOutstandingTxRefs = 4
  MaxVectorLen = 2
  MaxPackets = 4
  MaxUpDown = 3
SPECIFICATION Spec
INVARIANT EmptyFreeNeverBlocks
CHECK_DEADLOCK FALSE
