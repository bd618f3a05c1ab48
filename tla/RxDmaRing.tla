------------------------------ MODULE RxDmaRing ------------------------------
(***************************************************************************)
(* The receive DMA ring of src/rx_dma_ring.go.  A driver polls its         *)
(* hardware ring and, for the descriptors completed since the last poll,   *)
(* calls Rx4Descriptors (four consecutive slots) or Rx1Descriptor; when    *)
(* its index wraps it calls WrapRefill, and at the end of its NodeInput it *)
(* calls Flush, after which the graph loop takes the output vectors.       *)
(*                                                                         *)
(* The ring keeps 2*RingLen refs: for sequence parity p, refs[2i+p] is the *)
(* buffer the hardware filled for descriptor i and refs[2i+1-p] the one    *)
(* the driver gives descriptor i to fill next time.  The fast path assumes *)
(* a descriptor has the flags of the last packet (desc_flags) and stores   *)
(* it at Outs[g.Next].Refs[n_next]; anything else goes through slow_path,  *)
(* which chains fragments, looks up the next of the packet's flags and     *)
(* switches the cached next only after 4 slow-path misses to one next.     *)
(*                                                                         *)
(* Data is abstracted: a buffer is a number, a ref in an output vector is  *)
(* the packet's buffers plus (ghost) the flag state of its EOP descriptor; *)
(* byte counts, advance and RefOpaque are not modelled.                    *)
(***************************************************************************)
EXTENDS Naturals, Sequences

CONSTANTS
  Nexts,      \* next indices of the input node
  States,     \* what GetRefState distinguishes in the descriptor flags
  RefNext,    \* RefNext[s]: GetRefState(flags).Next
  FlagSet,    \* flags the hardware may report: [eop : {0,1}, st : States]
  InitFlags,  \* flags given to RxDmaRingInit
  RingLen,    \* ring_len
  MaxWraps,   \* WrapRefill calls
  NoRef       \* an output slot not written this round

ASSUME RefNext \in [States -> Nexts]
ASSUME FlagSet \subseteq [eop : {0, 1}, st : States] /\ InitFlags \in FlagSet
ASSUME RingLen \in Nat /\ RingLen >= 4

\* Output slots: a round sees at most every descriptor of every wrap.
Cap == RingLen * (MaxWraps + 1)
Slots == 0..(Cap - 1)
Bufs == 0..(2 * RingLen + RingLen * MaxWraps - 1)
Packet == [bufs : Seq(Bufs), st : States]

VARIABLES
  g,          \* rxDmaRingState, RxDmaRefState.Next and the RefOut written
  sequence,   \* sequence & 1
  refs,       \* refs[j]: buffer of ring ref j
  nextBuf,    \* the pool's next fresh buffer
  hw,         \* hw[i]: buffer hardware descriptor i fills (driver side)
  head,       \* descriptors of this sequence the driver has handed over
  wraps,      \* WrapRefill calls made
  phase,      \* "rx" inside the driver's NodeInput, "flushed" after Flush
  delivered,  \* ghost: buffers the ring has handed to packets
  desc        \* ghost: [buf, eop] of the descriptors of the last step

vars == <<g, sequence, refs, nextBuf, hw, head, wraps, phase, delivered, desc>>

-----------------------------------------------------------------------------
(* The ring's operations on g.                                             *)

\* Mutant: switch the cached next without flushing the old cached run.
MissNoFlush(u, next, n_next, next0, l0) ==
  IF next0 # u.last_miss_next
  THEN [u EXCEPT !.last_miss_next = next0, !.n_last_miss_next = 1]
  ELSE IF u.n_last_miss_next + 1 < 4
  THEN [u EXCEPT !.n_last_miss_next = @ + 1]
  ELSE [u EXCEPT !.n_last_miss_next = @ + 1, !.Next = next0, !.n_next = l0]

\* slow_path's cache-miss branch after the packet was appended to next0 at
\* length l0: count the miss and, on the 4th in a row to next0, flush the
\* cached run of g.Next and cache next0.
Miss(u, next, n_next, next0, l0) ==
  IF next0 # u.last_miss_next
  THEN [u EXCEPT !.last_miss_next = next0, !.n_last_miss_next = 1]
  ELSE IF u.n_last_miss_next + 1 < 4
  THEN [u EXCEPT !.n_last_miss_next = @ + 1]
  ELSE LET v == IF n_next > 0
                THEN [u EXCEPT !.len[next] = n_next,
                               !.max_n_next = IF n_next > @ THEN n_next ELSE @]
                ELSE u
       IN  [v EXCEPT !.n_last_miss_next = @ + 1, !.Next = next0, !.n_next = l0]

\* Mutant: the miss branch does not raise max_n_next.
SlowPathNoMax(s, b, f) ==
  LET c == Append(s.chain, b)
  IN  IF f.eop = 0 THEN [s EXCEPT !.chain = c]
      ELSE
        LET next0 == RefNext[f.st]
            pkt == [bufs |-> c, st |-> f.st]
            next == IF s.n_next = 0 THEN next0 ELSE s.Next
            t == [s EXCEPT !.chain = <<>>, !.desc_flags = f]
            l0 == t.len[next0] + 1
        IN  IF next0 = next
            THEN [t EXCEPT !.n_last_miss_next = 0, !.out[next0][s.n_next] = pkt,
                           !.Next = next, !.n_next = s.n_next + 1]
            ELSE Miss([t EXCEPT !.len[next0] = l0, !.out[next0][l0 - 1] = pkt],
                      s.Next, s.n_next, next0, l0)

\* slow_path(r0, f0) for the descriptor with buffer b and flags f.
SlowPath(s, b, f) ==
  LET c == Append(s.chain, b)
  IN  IF f.eop = 0 THEN [s EXCEPT !.chain = c]
      ELSE
        LET next0 == RefNext[f.st]
            pkt == [bufs |-> c, st |-> f.st]
            next == IF s.n_next = 0 THEN next0 ELSE s.Next
            t == [s EXCEPT !.chain = <<>>, !.desc_flags = f]
            l0 == t.len[next0] + 1
        IN  IF next0 = next
            THEN [t EXCEPT !.n_last_miss_next = 0, !.out[next0][s.n_next] = pkt,
                           !.Next = next, !.n_next = s.n_next + 1]
            ELSE Miss([t EXCEPT !.len[next0] = l0, !.out[next0][l0 - 1] = pkt,
                                !.max_n_next = IF l0 > @ THEN l0 ELSE @],
                      s.Next, s.n_next, next0, l0)

\* Speculative store of buffers bs with flags fs at the cached next.
Speculate(s, bs, fs) ==
  [s EXCEPT !.out[s.Next] = [i \in Slots |->
                               IF i - s.n_next \in 0..(Len(bs) - 1)
                               THEN [bufs |-> <<bs[i - s.n_next + 1]>>,
                                     st |-> fs[i - s.n_next + 1].st]
                               ELSE @[i]],
            !.n_next = @ + Len(bs),
            !.is_sop = fs[Len(fs)].eop]

\* Rx1Descriptor and Rx4Descriptors: keep the speculation when the ring was
\* at a packet start and every descriptor has desc_flags, else take it back
\* and run slow_path on each descriptor in order.
RECURSIVE SlowPaths(_, _, _, _)
SlowPaths(s, bs, fs, k) ==
  IF k > Len(bs) THEN s ELSE SlowPaths(SlowPath(s, bs[k], fs[k]), bs, fs, k + 1)

\* Mutant: the slow path runs without taking back the speculative
\* g.n_next += k (the g.n_next -= 4 / -= 1 before slow_path dropped).
RxDescriptorsNoUndo(s, bs, fs) ==
  LET t == Speculate(s, bs, fs)
  IN  IF s.is_sop = 1 /\ \A k \in 1..Len(fs) : fs[k] = s.desc_flags
      THEN t
      ELSE SlowPaths(t, bs, fs, 1)

RxDescriptors(s, bs, fs) ==
  LET t == Speculate(s, bs, fs)
  IN  IF s.is_sop = 1 /\ \A k \in 1..Len(fs) : fs[k] = s.desc_flags
      THEN t
      ELSE SlowPaths([t EXCEPT !.n_next = @ - Len(bs)], bs, fs, 1)

\* Flush: make the cached run visible and reset max_n_next.
Flush(s) ==
  LET t == IF s.n_next > 0
           THEN [s EXCEPT !.len[s.Next] = s.n_next, !.n_next = 0]
           ELSE s
  IN  [t EXCEPT !.max_n_next = 0]

\* MaxNext: the longest output vector the driver must leave room for.
MaxNext(s) == IF s.max_n_next > s.n_next THEN s.max_n_next ELSE s.n_next

\* RingIndex(i) and RefillRef's index (ri ^ 1).
RingIndex(i) == 2 * i + sequence
RefillIndex(i) == 2 * i + (1 - sequence)

-----------------------------------------------------------------------------
(* Actions.                                                                *)

\* RxDmaRingInit: at a packet start, cached state of InitFlags, all refs
\* allocated; the driver gives hardware descriptor i the rx ref of slot i.
Init ==
  /\ g = [Next |-> RefNext[InitFlags.st], n_next |-> 0, max_n_next |-> 0,
          is_sop |-> 1, chain |-> <<>>, last_miss_next |-> 0,
          n_last_miss_next |-> 0, desc_flags |-> InitFlags,
          out |-> [x \in Nexts |-> [i \in Slots |-> NoRef]],
          len |-> [x \in Nexts |-> 0]]
  /\ sequence = 0
  /\ refs = [j \in 0..(2 * RingLen - 1) |-> j]
  /\ nextBuf = 2 * RingLen
  /\ hw = [i \in 0..(RingLen - 1) |-> 2 * i]
  /\ head = 0
  /\ wraps = 0
  /\ phase = "rx"
  /\ delivered = {}
  /\ desc = <<>>

\* The driver hands k completed descriptors, starting at head, to the ring
\* and gives each hardware descriptor its refill buffer.
RxK(k) ==
  /\ phase = "rx"
  /\ head + k <= RingLen
  /\ \E fs \in [1..k -> FlagSet] :
       LET bs == [j \in 1..k |-> refs[RingIndex(head + j - 1)]]
       IN  /\ g' = RxDescriptors(g, bs, fs)
           /\ delivered' = delivered \cup {bs[j] : j \in 1..k}
           /\ desc' = [j \in 1..k |-> [buf |-> bs[j], eop |-> fs[j].eop]]
  /\ hw' = [i \in DOMAIN hw |-> IF i - head \in 0..(k - 1)
                               THEN refs[RefillIndex(i)] ELSE hw[i]]
  /\ head' = head + k
  /\ UNCHANGED <<sequence, refs, nextBuf, wraps, phase>>

Rx1 == RxK(1)
Rx4 == RxK(4)

\* Mutant: refill the refs of the new parity instead of the old one.
WrapRefillSameHalf ==
  /\ head = RingLen
  /\ wraps < MaxWraps
  /\ refs' = [j \in DOMAIN refs |-> IF j % 2 # sequence
                                    THEN nextBuf + j \div 2 ELSE refs[j]]
  /\ sequence' = 1 - sequence
  /\ nextBuf' = nextBuf + RingLen
  /\ head' = 0
  /\ wraps' = wraps + 1
  /\ desc' = <<>>
  /\ UNCHANGED <<g, hw, phase, delivered>>

\* WrapRefill when the driver's index wraps: fresh buffers for the refs of
\* the old parity, then the parity flips.
WrapRefill ==
  /\ head = RingLen
  /\ wraps < MaxWraps
  /\ refs' = [j \in DOMAIN refs |-> IF j % 2 = sequence
                                    THEN nextBuf + j \div 2 ELSE refs[j]]
  /\ sequence' = 1 - sequence
  /\ nextBuf' = nextBuf + RingLen
  /\ head' = 0
  /\ wraps' = wraps + 1
  /\ desc' = <<>>
  /\ UNCHANGED <<g, hw, phase, delivered>>

FlushRing ==
  /\ phase = "rx"
  /\ g' = Flush(g)
  /\ phase' = "flushed"
  /\ desc' = <<>>
  /\ UNCHANGED <<sequence, refs, nextBuf, hw, head, wraps, delivered>>

\* The graph loop takes the output vectors (their lengths go back to 0).
Take ==
  /\ phase = "flushed"
  /\ g' = [g EXCEPT !.out = [x \in Nexts |-> [i \in Slots |-> NoRef]],
                    !.len = [x \in Nexts |-> 0]]
  /\ phase' = "rx"
  /\ desc' = <<>>
  /\ UNCHANGED <<sequence, refs, nextBuf, hw, head, wraps, delivered>>

Next == Rx1 \/ Rx4 \/ WrapRefill \/ FlushRing \/ Take

Spec == Init /\ [][Next]_vars

-----------------------------------------------------------------------------
(* Views used by the properties.                                           *)

\* Refs of output vector x as far as the ring is concerned.
EffLen(x) == IF x = g.Next /\ g.n_next > g.len[x] THEN g.n_next ELSE g.len[x]

OutPackets(x) == [k \in 1..EffLen(x) |-> g.out[x][k - 1]]

TypeOK ==
  /\ g.Next \in Nexts /\ g.n_next \in 0..Cap /\ g.max_n_next \in 0..Cap
  /\ g.is_sop \in {0, 1} /\ g.chain \in Seq(Bufs)
  /\ g.last_miss_next \in Nexts /\ g.n_last_miss_next \in Nat
  /\ g.desc_flags \in FlagSet
  /\ g.out \in [Nexts -> [Slots -> Packet \cup {NoRef}]]
  /\ g.len \in [Nexts -> 0..Cap]
  /\ sequence \in {0, 1} /\ head \in 0..RingLen /\ wraps \in 0..MaxWraps
  /\ refs \in [0..(2 * RingLen - 1) -> Bufs] /\ hw \in [0..(RingLen - 1) -> Bufs]
  /\ phase \in {"rx", "flushed"} /\ delivered \subseteq Bufs
=============================================================================
