----------------------------- MODULE TxPipeline -----------------------------
(***************************************************************************)
(* The transmit pipeline of an interface node (src/interface_node.go).     *)
(* Four actors share bounded channels:                                     *)
(*  - the dispatch thread runs ifOutput: while the node is down (tx_chan   *)
(*    nil) it drops the vector, else it fills TxRefVecIns taken from       *)
(*    freeChan (or new ones) and sends each on tx_chan, counting its refs  *)
(*    as suspend activity; a vector left empty is put back on freeChan;    *)
(*  - an ifOutputThread goroutine per tx_chan ranges over it and calls the *)
(*    driver's InterfaceOutput, which queues the vector on the TxDmaRing's *)
(*    ToInterrupt channel and gives its refs to the hardware;              *)
(*  - the TX interrupt runs TxDmaRing.InterruptAdvance(n) for n completed  *)
(*    refs, freeing each finished vector (FreeTxRefIn: activity -= len,    *)
(*    then freeChan <- vector);                                            *)
(*  - txNodeUpDown makes tx_chan and starts a goroutine on up, closes it   *)
(*    and sets it to nil on down; it runs between dispatch callbacks.      *)
(* All three channels have capacity MaxOutstandingTxRefs, the suspend      *)
(* threshold of suspendLimits; Resume is half of it.  The vectors one      *)
(* ifOutput sends are those TxPacking packs its input into.  A vector is   *)
(* its number of refs; channel ids are the up transitions.                 *)
(***************************************************************************)
EXTENDS Naturals, FiniteSets, Sequences, SequencesExt

CONSTANTS
  MaxOutstandingTxRefs, \* channel capacity and suspend threshold
  MaxVectorLen,         \* most refs in one TxRefVecIn
  MaxPackets,           \* most packets in one input vector ri
  MaxUpDown             \* txNodeUpDown calls

Resume == MaxOutstandingTxRefs \div 2
VecLens == 1..MaxVectorLen

Pack == INSTANCE TxPacking

\* Input vectors ri: up to MaxPackets packets of up to MaxVectorLen buffers
\* each (a longer packet panics the dispatch thread; see TxPacking).
Inputs == UNION {[1..n -> VecLens] : n \in 1..MaxPackets}

\* What ifOutput makes of each input: the sizes of the vectors it sends, in
\* order, and whether it ends by freeing an empty vector.
Outcomes ==
  {LET r == Pack!IfOutputPack(in)
   IN  [vs |-> [i \in DOMAIN r.sent |-> Len(r.sent[i].refs)],
        trailing |-> r.trailing] :
     in \in {i \in Inputs : Pack!IfOutputPack(i).panic = ""}}

VARIABLES
  chans,      \* chans[c]: [q, closed] of the c-th tx_chan made
  tx_chan,    \* index of the current tx_chan in chans, 0 for nil
  held,       \* held[c]: refs of the vector c's goroutine holds, 0 none,
              \* -1 when it has returned
  toInt,      \* TxDmaRing.ToInterrupt
  hwPending,  \* refs given to the hardware and not yet reported done
  nLeft,      \* InterruptAdvance's n still to account for
  rn,         \* TxDmaRing.n: refs of r.o not yet done
  ro,         \* refs of r.o while it is not freed, else 0
  freeing,    \* InterruptAdvance is blocked in freeChan <- r.o
  freeQ,      \* vectors in freeChan
  nVecs,      \* TxRefVecIns allocated so far
  activity,   \* suspend activity of the node's RefIn: refs outstanding
  suspended,  \* the loop has suspended the node
  dpc,        \* dispatch: "idle", or in ifOutput at a "send", suspended in
              \* send before its channel send ("chan"), or at a "free"
  toSend,     \* vectors the current ifOutput still sends
  trailing,   \* the current ifOutput ends with an empty vector to free
  upDowns,    \* txNodeUpDown calls made
  dropped     \* ghost: a vector was dropped as "tx down drops"

vars == <<chans, tx_chan, held, toInt, hwPending, nLeft, rn, ro, freeing,
          freeQ, nVecs, activity, suspended, dpc, toSend, trailing, upDowns,
          dropped>>

Sum(s) == FoldSeq(LAMBDA x, acc : x + acc, 0, s)

-----------------------------------------------------------------------------
(* Helpers.                                                                *)

\* allocTxRefVecIn: recycle a vector from freeChan, else make a new one.
AllocFree == IF freeQ > 0 THEN freeQ - 1 ELSE freeQ
AllocNew  == IF freeQ > 0 THEN nVecs ELSE nVecs + 1

\* loop.AddSuspendActivity(in, a, &suspendLimits): suspend at the
\* threshold, resume once drained to Resume.
SuspendAfter(a) ==
  IF a >= MaxOutstandingTxRefs THEN TRUE
  ELSE IF a <= Resume THEN FALSE ELSE suspended

-----------------------------------------------------------------------------

Init ==
  /\ chans = <<>>
  /\ tx_chan = 0
  /\ held = <<>>
  /\ toInt = <<>>
  /\ hwPending = 0
  /\ nLeft = 0 /\ rn = 0 /\ ro = 0 /\ freeing = FALSE
  /\ freeQ = 0 /\ nVecs = 0
  /\ activity = 0 /\ suspended = FALSE
  /\ dpc = "idle" /\ toSend = <<>> /\ trailing = FALSE
  /\ upDowns = 0
  /\ dropped = FALSE

\* ifOutput while tx_chan is nil: CountError and FreeRefs.
IfOutputDown ==
  /\ dpc = "idle" /\ ~suspended
  /\ tx_chan = 0
  /\ dropped' = TRUE
  /\ UNCHANGED <<chans, tx_chan, held, toInt, hwPending, nLeft, rn, ro, freeing,
                 freeQ, nVecs, activity, suspended, dpc, toSend, trailing, upDowns>>

\* ifOutput while up: allocate the first vector and pack the input into
\* vectors (TxPacking); slowPath sends each full one in turn and ifOutput
\* the last, or frees it when it is left empty.
IfOutput ==
  /\ dpc = "idle" /\ ~suspended
  /\ tx_chan # 0
  /\ \E o \in Outcomes :
       /\ toSend' = o.vs
       /\ trailing' = o.trailing
  /\ freeQ' = AllocFree
  /\ nVecs' = AllocNew
  /\ dpc' = "send"
  /\ UNCHANGED <<chans, tx_chan, held, toInt, hwPending, nLeft, rn, ro, freeing,
                 activity, suspended, upDowns, dropped>>

\* interfaceNode.send, first half: AddSuspendActivity(+l) for the vector
\* of l refs slowPath (or ifOutput) hands it.  At the threshold the loop
\* suspends the node inside this call, before the channel send.
Send ==
  /\ dpc = "send"
  /\ LET l == Head(toSend)
     IN  /\ activity' = activity + l
         /\ suspended' = SuspendAfter(activity + l)
  /\ dpc' = "chan"
  /\ UNCHANGED <<chans, tx_chan, held, toInt, hwPending, nLeft, rn, ro, freeing,
                 freeQ, nVecs, toSend, trailing, upDowns, dropped>>

\* send, second half, once the node runs again: tx_chan <- vector (blocks
\* while full).  Then slowPath allocates the next vector (newTxRefVecIn)
\* when refs or a trailing free remain.
SendChan ==
  /\ dpc = "chan" /\ ~suspended
  /\ Len(chans[tx_chan].q) < MaxOutstandingTxRefs
  /\ LET more == Len(toSend) > 1 \/ trailing
     IN  /\ chans' = [chans EXCEPT ![tx_chan].q = Append(@, Head(toSend))]
         /\ toSend' = Tail(toSend)
         /\ freeQ' = IF more THEN AllocFree ELSE freeQ
         /\ nVecs' = IF more THEN AllocNew ELSE nVecs
         /\ dpc' = IF Len(toSend) > 1 THEN "send"
                   ELSE IF trailing THEN "free" ELSE "idle"
  /\ UNCHANGED <<tx_chan, held, toInt, hwPending, nLeft, rn, ro, freeing,
                 activity, suspended, trailing, upDowns, dropped>>

\* ifOutput's end with nothing in the last vector: freeTxRefVecIn on the
\* dispatch thread (blocks while freeChan is full).
FreeEmpty ==
  /\ dpc = "free"
  /\ freeQ < MaxOutstandingTxRefs
  /\ freeQ' = freeQ + 1
  /\ dpc' = "idle"
  /\ trailing' = FALSE
  /\ UNCHANGED <<chans, tx_chan, held, toInt, hwPending, nLeft, rn, ro, freeing,
                 nVecs, activity, suspended, toSend, upDowns, dropped>>

\* txNodeUpDown between dispatch callbacks: up makes a channel and starts
\* its goroutine; down closes tx_chan and sets it to nil.
TxNodeUpDown ==
  /\ dpc = "idle"
  /\ upDowns < MaxUpDown
  /\ IF tx_chan = 0
     THEN /\ chans' = Append(chans, [q |-> <<>>, closed |-> FALSE])
          /\ held' = Append(held, 0)
          /\ tx_chan' = Len(chans) + 1
     ELSE /\ chans' = [chans EXCEPT ![tx_chan].closed = TRUE]
          /\ tx_chan' = 0
          /\ UNCHANGED held
  /\ upDowns' = upDowns + 1
  /\ UNCHANGED <<toInt, hwPending, nLeft, rn, ro, freeing, freeQ, nVecs,
                 activity, suspended, dpc, toSend, trailing, dropped>>

WorkerRecv(c) ==
  /\ held[c] = 0
  /\ IF chans[c].q # <<>>
     THEN /\ held' = [held EXCEPT ![c] = Head(chans[c].q)]
          /\ chans' = [chans EXCEPT ![c].q = Tail(@)]
     ELSE /\ chans[c].closed
          /\ held' = [held EXCEPT ![c] = -1]
          /\ UNCHANGED chans
  /\ UNCHANGED <<tx_chan, toInt, hwPending, nLeft, rn, ro, freeing, freeQ,
                 nVecs, activity, suspended, dpc, toSend, trailing, upDowns,
                 dropped>>

\* n.tx.InterfaceOutput(x): the driver queues x on ToInterrupt (blocks
\* while full) and hands its refs to the hardware.
WorkerOutput(c) ==
  /\ held[c] > 0
  /\ Len(toInt) < MaxOutstandingTxRefs
  /\ toInt' = Append(toInt, held[c])
  /\ hwPending' = hwPending + held[c]
  /\ held' = [held EXCEPT ![c] = 0]
  /\ UNCHANGED <<chans, tx_chan, nLeft, rn, ro, freeing, freeQ, nVecs,
                 activity, suspended, dpc, toSend, trailing, upDowns, dropped>>

\* The hardware reports n more refs done: InterruptAdvance(n) starts.
Complete ==
  /\ nLeft = 0 /\ ~freeing
  /\ hwPending > 0
  /\ \E n \in 1..hwPending :
       /\ nLeft' = n
       /\ hwPending' = hwPending - n
  /\ UNCHANGED <<chans, tx_chan, held, toInt, rn, ro, freeing, freeQ, nVecs,
                 activity, suspended, dpc, toSend, trailing, upDowns, dropped>>

\* InterruptAdvance: r.n == 0, so r.o = <-r.ToInterrupt (blocks while empty).
AdvanceRecv ==
  /\ nLeft > 0 /\ rn = 0 /\ ~freeing
  /\ toInt # <<>>
  /\ ro' = Head(toInt)
  /\ rn' = Head(toInt)
  /\ toInt' = Tail(toInt)
  /\ UNCHANGED <<chans, tx_chan, held, hwPending, nLeft, freeing, freeQ, nVecs,
                 activity, suspended, dpc, toSend, trailing, upDowns, dropped>>

\* InterruptAdvance: n < r.n ends inside r.o; else r.o is done and freed:
\* FreeTxRefIn subtracts its refs from the activity and then blocks in
\* freeChan <- r.o (AdvanceFree).
\* Mutant: "n <= r.n" ends inside r.o also when n exactly finishes it.
AdvanceConsumeLe ==
  /\ nLeft > 0 /\ rn > 0 /\ ~freeing
  /\ IF nLeft <= rn
     THEN /\ rn' = rn - nLeft
          /\ nLeft' = 0
          /\ UNCHANGED <<ro, activity, suspended, freeing>>
     ELSE /\ nLeft' = nLeft - rn
          /\ rn' = 0
          /\ activity' = activity - ro
          /\ suspended' = SuspendAfter(activity - ro)
          /\ ro' = 0
          /\ freeing' = TRUE
  /\ UNCHANGED <<chans, tx_chan, held, toInt, hwPending, freeQ, nVecs, dpc,
                 toSend, trailing, upDowns, dropped>>

AdvanceConsume ==
  /\ nLeft > 0 /\ rn > 0 /\ ~freeing
  /\ IF nLeft < rn
     THEN /\ rn' = rn - nLeft
          /\ nLeft' = 0
          /\ UNCHANGED <<ro, activity, suspended, freeing>>
     ELSE /\ nLeft' = nLeft - rn
          /\ rn' = 0
          /\ activity' = activity - ro
          /\ suspended' = SuspendAfter(activity - ro)
          /\ ro' = 0
          /\ freeing' = TRUE
  /\ UNCHANGED <<chans, tx_chan, held, toInt, hwPending, freeQ, nVecs, dpc,
                 toSend, trailing, upDowns, dropped>>

AdvanceFree ==
  /\ freeing
  /\ freeQ < MaxOutstandingTxRefs
  /\ freeQ' = freeQ + 1
  /\ freeing' = FALSE
  /\ UNCHANGED <<chans, tx_chan, held, toInt, hwPending, nLeft, rn, ro, nVecs,
                 activity, suspended, dpc, toSend, trailing, upDowns, dropped>>

Next ==
  \/ IfOutputDown \/ IfOutput \/ Send \/ SendChan \/ FreeEmpty
  \/ TxNodeUpDown
  \/ \E c \in DOMAIN held : WorkerRecv(c)
  \/ \E c \in DOMAIN held : WorkerOutput(c)
  \/ Complete \/ AdvanceRecv \/ AdvanceConsume \/ AdvanceFree

\* Every thread that can go on eventually does: the loop keeps dispatching,
\* Go schedules each goroutine, the hardware finishes what it was given.
Fairness ==
  /\ WF_vars(Send) /\ WF_vars(SendChan) /\ WF_vars(FreeEmpty)
  /\ \A c \in 1..MaxUpDown : WF_vars(c \in DOMAIN held /\ WorkerRecv(c))
  /\ \A c \in 1..MaxUpDown : WF_vars(c \in DOMAIN held /\ WorkerOutput(c))
  /\ WF_vars(Complete) /\ WF_vars(AdvanceRecv) /\ WF_vars(AdvanceConsume)
  /\ WF_vars(AdvanceFree)

Spec == Init /\ [][Next]_vars /\ Fairness

-----------------------------------------------------------------------------

\* Refs sent and not yet freed: in the vector send holds while the node is
\* suspended, in a channel, held by a goroutine, queued for the interrupt,
\* or the interrupt's current vector.
InFlight ==
  (IF dpc = "chan" THEN Head(toSend) ELSE 0)
  + Sum([c \in DOMAIN chans |-> Sum(chans[c].q)])
  + Sum([c \in DOMAIN held |-> IF held[c] > 0 THEN held[c] ELSE 0])
  + Sum(toInt) + ro

TypeOK ==
  /\ tx_chan \in 0..Len(chans)
  /\ \A c \in DOMAIN chans :
       chans[c].q \in Seq(VecLens) /\ Len(chans[c].q) <= MaxOutstandingTxRefs
       /\ chans[c].closed \in BOOLEAN
  /\ held \in Seq(-1..MaxVectorLen) /\ Len(held) = Len(chans)
  /\ toInt \in Seq(VecLens) /\ Len(toInt) <= MaxOutstandingTxRefs
  /\ freeQ <= MaxOutstandingTxRefs
  /\ {hwPending, nLeft, rn, ro, freeQ, nVecs, activity} \subseteq Nat
  /\ freeing \in BOOLEAN /\ suspended \in BOOLEAN
  /\ dpc \in {"idle", "send", "chan", "free"} /\ toSend \in Seq(VecLens)
=============================================================================
