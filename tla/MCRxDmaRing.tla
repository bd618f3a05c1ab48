----------------------------- MODULE MCRxDmaRing -----------------------------
(***************************************************************************)
(* Model-checking instance of RxDmaRing.  Flag states 0, 1 and 2 map to    *)
(* nexts 0, 1 and 1, so a run of packets to next 1 can reach the slow path *)
(* again and again (alternating states 1 and 2) and switch the cache; one  *)
(* non-EOP flag value stands for every middle fragment.                    *)
(***************************************************************************)
EXTENDS RxDmaRing, TLC

MCStates == {0, 1, 2}
MCRefNext == (0 :> 0) @@ (1 :> 1) @@ (2 :> 1)
MCInitFlags == [eop |-> 1, st |-> 0]
\* Every flag value: packet ends in each state, and a middle fragment.
MCFlagSet == {[eop |-> 1, st |-> s] : s \in MCStates} \cup {[eop |-> 0, st |-> 0]}

\* The ring as its node sees it: descriptors completing, each finished
\* packet appended once, in order, to some output vector.
Abs == INSTANCE RxDmaRingSpec
         WITH chain <- g.chain,
              out <- [x \in Nexts |-> [k \in 1..EffLen(x) |-> OutPackets(x)[k].bufs]],
              desc <- desc

\* Rx1Descriptor/Rx4Descriptors with slow_path, Flush and the loop's take
\* implement RxDmaRingSpec: no packet is lost, duplicated or reordered in
\* its output vector, and fragments are chained in completion order, across
\* speculation, cache misses, cache switches and ring wraps.
AbsSpec == Abs!Spec

\* While the driver is receiving, MaxNext() is at least the length of every
\* output vector: the driver sizes the next poll by it, so a vector the
\* slow path grew past it would be overrun.
MaxNextBounds ==
  phase = "rx" => \A x \in Nexts : EffLen(x) <= MaxNext(g)

\* Across WrapRefill parity flips, the rx ref of every descriptor still to
\* be handed over is the buffer the hardware filled for it, and no buffer
\* the hardware holds is one the ring already handed to a packet.
RingBuffersConsistent ==
  /\ \A i \in head..(RingLen - 1) : refs[RingIndex(i)] = hw[i]
  /\ \A i \in DOMAIN hw : hw[i] \notin delivered

\* Every packet in output vector x has flags whose GetRefState().Next is x:
\* the fast path stores a packet at g.Next when its flags equal desc_flags.
PacketsRoutedByFlags ==
  \A x \in Nexts : \A k \in 1..EffLen(x) : RefNext[OutPackets(x)[k].st] = x
=============================================================================
