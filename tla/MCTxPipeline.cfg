\* Channels of 4 vectors with a suspend threshold of 4 refs and a resume
\* level of 2, vectors of up to 2 refs: the resume level is at least a
\* vector, as in the code (8 * MaxVectorLen against MaxVectorLen).
CONSTANTS
  MaxOutstandingTxRefs = 4
  MaxVectorLen = 2
  MaxPackets = 4
  MaxUpDown = 3
SPECIFICATION Spec
INVARIANT TypeOK
INVARIANT RoundTripConservation
INVARIANT PackingIsGreedy
INVARIANT PanicOnlyOnTooLargePacket
 
\* The dispatch thread may block for good in ifOutput's free of an empty
\* vector (MCTxPipeline_suspend.cfg), so a state with no step is a real
\* outcome.
CHECK_DEADLOCK FALSE
