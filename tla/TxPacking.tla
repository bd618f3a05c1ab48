------------------------------ MODULE TxPacking ------------------------------
(***************************************************************************)
(* How interfaceNode.ifOutput (src/interface_node.go) packs the packets of *)
(* one input vector ri into TxRefVecIns: a loop copying four packet heads  *)
(* at a time, then one at a time; whenever a head has a chained buffer     *)
(* (NextValid) or the vector would overflow MaxVectorLen, the count of the *)
(* round is undone and slowPath copies each packet whole, sending the      *)
(* vector when it is full and carrying an overflowing packet over to the   *)
(* next one.  The packing is a pure function of the input and is written   *)
(* as recursive operators over a packing state.                            *)
(*                                                                         *)
(* An input is a sequence in: in[p] is the number of buffers chained in    *)
(* packet p.  The k-th buffer of packet p is the ref <<p, k>>; every       *)
(* buffer's DataLen is one byte.                                           *)
(***************************************************************************)
EXTENDS Naturals, Sequences, SequencesExt

CONSTANT MaxVectorLen

\* The buffers of packet p, head first (RefHeader.NextRef chain).
Chain(in, p) == [k \in 1..in[p] |-> <<p, k>>]

\* The heads of packets p .. p+n-1.
Heads(p, n) == [k \in 1..n |-> <<p + k - 1, 1>>]

\* RefFlag4 / RefFlag1 (NextValid): one of the n heads has a next buffer.
Chained(in, p, n) == \E q \in p..(p + n - 1) : in[q] > 1

\* The state of ifOutput's locals: the vectors sent so far (their refs and
\* nPackets), rv[:iv], n_packets_rvi, n_bytes_in and a panic, if any.
Start == [sent |-> <<>>, rv |-> <<>>, np |-> 0, bytes |-> 0, panic |-> ""]

\* rvi.Refs = refs; rvi.nPackets = np; n.send(ri, rvi).
Emit(st, refs, np) == Append(st.sent, [refs |-> refs, nPackets |-> np])

\* Mutant: the overflowing vector is sent whole, rv[:iv] for rv[:ivʹ].
SlowPathNoTruncate(st, in, p) ==
  LET rv    == st.rv \o Chain(in, p)
      np    == st.np + 1
      bytes == st.bytes + (in[p] - 1)
  IN  IF st.panic # "" THEN st
      ELSE IF Len(rv) < MaxVectorLen
      THEN [st EXCEPT !.rv = rv, !.np = np, !.bytes = bytes]
      ELSE IF Len(rv) = MaxVectorLen
      THEN [st EXCEPT !.sent = Emit(st, rv, np), !.rv = <<>>, !.np = 0,
                      !.bytes = bytes]
      ELSE IF Len(rv) - Len(st.rv) > MaxVectorLen
      THEN [st EXCEPT !.panic = "packet too large"]
      ELSE [st EXCEPT !.sent = Emit(st, rv, np - 1), !.rv = Chain(in, p),
                      !.np = 1, !.bytes = bytes]

\* Mutant: "packet too large" already at n_save >= MaxVectorLen.
SlowPathSaveLimit(st, in, p) ==
  LET rv    == st.rv \o Chain(in, p)
      np    == st.np + 1
      bytes == st.bytes + (in[p] - 1)
  IN  IF st.panic # "" THEN st
      ELSE IF Len(rv) < MaxVectorLen
      THEN [st EXCEPT !.rv = rv, !.np = np, !.bytes = bytes]
      ELSE IF Len(rv) = MaxVectorLen
      THEN [st EXCEPT !.sent = Emit(st, rv, np), !.rv = <<>>, !.np = 0,
                      !.bytes = bytes]
      ELSE IF Len(rv) - Len(st.rv) >= MaxVectorLen
      THEN [st EXCEPT !.panic = "packet too large"]
      ELSE [st EXCEPT !.sent = Emit(st, st.rv, np - 1), !.rv = Chain(in, p),
                      !.np = 1, !.bytes = bytes]

(***************************************************************************)
(* slowPath for packet p: count it, copy its whole chain (adding the      *)
(* tails' bytes; the head's were added by the caller).  At iv >= Max the   *)
(* vector is sent: when the packet overflowed it, the packet is saved and  *)
(* begins the next vector (panic if it alone is longer than a vector),    *)
(* otherwise it fits exactly and the next vector starts empty.            *)
(***************************************************************************)
SlowPath(st, in, p) ==
  LET rv    == st.rv \o Chain(in, p)
      np    == st.np + 1
      bytes == st.bytes + (in[p] - 1)
      nSave == Len(rv) - Len(st.rv)
  IN  IF st.panic # "" THEN st
      ELSE IF Len(rv) < MaxVectorLen
      THEN [st EXCEPT !.rv = rv, !.np = np, !.bytes = bytes]
      ELSE IF Len(rv) = MaxVectorLen
      THEN [st EXCEPT !.sent = Emit(st, rv, np), !.rv = <<>>, !.np = 0,
                      !.bytes = bytes]
      ELSE IF nSave > MaxVectorLen
      THEN [st EXCEPT !.panic = "packet too large"]
      ELSE [st EXCEPT !.sent = Emit(st, st.rv, np - 1), !.rv = Chain(in, p),
                      !.np = 1, !.bytes = bytes]

\* slowPath on packets p .. p+n-1 in order.
RECURSIVE SlowPaths(_, _, _, _)
SlowPaths(st, in, p, n) ==
  IF n = 0 THEN st ELSE SlowPaths(SlowPath(st, in, p), in, p + 1, n - 1)

\* Mutant: the packet count of a round is not undone before slowPath.
RoundNoUndo(st, in, p, n) ==
  LET st1 == [st EXCEPT !.bytes = @ + n]
  IN  IF st.panic # "" THEN st
      ELSE IF Chained(in, p, n) \/ Len(st.rv) + n > MaxVectorLen
      THEN SlowPaths([st1 EXCEPT !.np = @ + n], in, p, n)
      ELSE [st1 EXCEPT !.rv = @ \o Heads(p, n), !.np = @ + n]

\* One round of the four-at-a-time loop (n = 4) or of the single loop
\* (n = 1): copy n heads and add their bytes; on a chained head or iv past
\* MaxVectorLen undo iv and the packet count (not the bytes) and run
\* slowPath on each of the n packets.
Round(st, in, p, n) ==
  LET st1 == [st EXCEPT !.bytes = @ + n]
  IN  IF st.panic # "" THEN st
      ELSE IF Chained(in, p, n) \/ Len(st.rv) + n > MaxVectorLen
      THEN SlowPaths(st1, in, p, n)
      ELSE [st1 EXCEPT !.rv = @ \o Heads(p, n), !.np = @ + n]

\* for n_ref_left >= 4 { ... }, then for n_ref_left > 0 { ... }.
RECURSIVE Loop(_, _, _)
Loop(st, in, p) ==
  IF Len(in) - p + 1 >= 4 THEN Loop(Round(st, in, p, 4), in, p + 4)
  ELSE IF p <= Len(in) THEN Loop(Round(st, in, p, 1), in, p + 1)
  ELSE st

\* The whole of ifOutput's packing: the loops, the final overflow panic,
\* and the last vector sent when non-empty, else freed (trailing).
IfOutputPack(in) ==
  LET st == Loop(Start, in, 1)
  IN  IF st.panic # "" THEN [st EXCEPT !.rv = <<>>] @@ [trailing |-> FALSE]
      ELSE IF Len(st.rv) > MaxVectorLen
      THEN [st EXCEPT !.panic = "overflow"] @@ [trailing |-> FALSE]
      ELSE IF Len(st.rv) > 0
      THEN [st EXCEPT !.sent = Emit(st, st.rv, st.np), !.rv = <<>>]
             @@ [trailing |-> FALSE]
      ELSE st @@ [trailing |-> TRUE]

-----------------------------------------------------------------------------
(* A reference packing: whole packets in order, each vector taking the     *)
(* next packet while it fits.                                              *)

RECURSIVE GreedyFrom(_, _, _, _)
GreedyFrom(in, p, cur, out) ==
  IF p > Len(in) THEN IF cur = <<>> THEN out ELSE Append(out, cur)
  ELSE IF Len(cur) + in[p] <= MaxVectorLen
  THEN GreedyFrom(in, p + 1, cur \o Chain(in, p), out)
  ELSE GreedyFrom(in, p + 1, Chain(in, p), Append(out, cur))

Greedy(in) == GreedyFrom(in, 1, <<>>, <<>>)

\* The buffers of the input, every one counted by IfTxCounter.
Buffers(in) == Len(FlattenSeq([p \in DOMAIN in |-> Chain(in, p)]))

\* No packet is longer than a vector.
Fits(in) == \A p \in DOMAIN in : in[p] <= MaxVectorLen
=============================================================================
