----------------------------- MODULE MCTxPipeline -----------------------------
(***************************************************************************)
(* Model-checking harness for TxPipeline: what the transmit path promises  *)
(* the loop's suspend/resume and the hardware, checked over small channels.*)
(***************************************************************************)
EXTENDS TxPipeline, FiniteSets

-----------------------------------------------------------------------------
(* The packing of ifOutput/slowPath, checked over wider vectors than the   *)
(* pipeline uses: with 4 refs a vector, the four-at-a-time loop both       *)
(* succeeds and falls back to slowPath, and 8-packet inputs reach a second *)
(* round that overflows a non-empty vector.  Packets go up to one buffer   *)
(* longer than a vector.                                                   *)

PackVectorLen == 4
Wide == INSTANCE TxPacking WITH MaxVectorLen <- PackVectorLen

PackInputs ==
  UNION {[1..n -> 1..(PackVectorLen + 1)] : n \in 1..5}
  \cup [1..8 -> {1, 2, PackVectorLen + 1}]

\* The two facts below are constant (TLC evaluates them once); the
\* invariants after them state them of every state in which the dispatch
\* thread may enter ifOutput.
\* The vectors ifOutput sends hold the input's buffers whole packets at a
\* time and in order, each as full as the next packet allows (the greedy
\* packing), however the four-at-a-time loop, its undo of a round and
\* slowPath's carry-over interleave; each vector's nPackets is the number
\* of packets in it, and IfTxCounter gets the bytes of every buffer.
PacksGreedily ==
  \A in \in PackInputs : Wide!Fits(in) =>
    LET r == Wide!IfOutputPack(in)
    IN  /\ r.panic = ""
        /\ [i \in DOMAIN r.sent |-> r.sent[i].refs] = Wide!Greedy(in)
        /\ \A i \in DOMAIN r.sent :
             r.sent[i].nPackets = Cardinality({ref[1] : ref \in ToSet(r.sent[i].refs)})
        /\ r.bytes = Wide!Buffers(in)

\* ifOutput panics exactly when a packet has more buffers than a vector
\* ("packet too large" in slowPath), and never with its final "overflow".
PanicsOnlyOnTooLarge ==
  \A in \in PackInputs :
    Wide!IfOutputPack(in).panic = IF Wide!Fits(in) THEN "" ELSE "packet too large"

\* Whenever the dispatch thread may call ifOutput, any input vector it is
\* handed is packed greedily into whole packets, with true nPackets and
\* byte counts (PacksGreedily).
PackingIsGreedy == dpc = "idle" => PacksGreedily

\* Whenever the dispatch thread may call ifOutput, it panics on an input
\* exactly when a packet is longer than a vector (PanicsOnlyOnTooLarge).
PanicOnlyOnTooLargePacket == dpc = "idle" => PanicsOnlyOnTooLarge

-----------------------------------------------------------------------------

\* Round-trip conservation: every ref ifOutput counted into the node's
\* suspend activity (send) is in exactly one place until FreeTxRefIn takes
\* it out again: on a tx_chan (the current one or one closed by a down),
\* held by an ifOutputThread goroutine, queued on ToInterrupt, or in the
\* interrupt's current vector; and InterruptAdvance never accounts for more
\* refs than were handed to the hardware, wherever its n splits vectors.
RoundTripConservation ==
  /\ activity = InFlight
  /\ hwPending + nLeft = Sum(toInt) + rn

\* ifOutput's return of an unused vector (freeTxRefVecIn at the end of
\* ifOutput) never finds freeChan full.  Only allocTxRefVecIn, on this same
\* dispatch thread, takes vectors off freeChan, so a dispatch callback
\* blocked there is blocked for good.  allocTxRefVecIn makes a new vector
\* whenever freeChan is empty, and freeChan holds MaxOutstandingTxRefs.
EmptyFreeNeverBlocks ==
  dpc = "free" => freeQ < MaxOutstandingTxRefs

=============================================================================
