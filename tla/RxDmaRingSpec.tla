---------------------------- MODULE RxDmaRingSpec ----------------------------
(***************************************************************************)
(* What the receive DMA ring promises its node (src/rx_dma_ring.go), with  *)
(* the choice of output next left open: the hardware completes            *)
(* descriptors, each naming the buffer it filled and whether it ends a     *)
(* packet; the buffers of one packet are chained in completion order, and  *)
(* each finished packet is appended, exactly once, to the output vector of *)
(* some next.  At the end of a round the loop takes the output vectors.    *)
(***************************************************************************)
EXTENDS Naturals, Sequences

CONSTANTS
  Nexts,    \* next indices of the input node
  Bufs      \* buffer ids

VARIABLES
  chain,    \* buffers of the packet being received
  out,      \* out[x]: packets (sequences of buffers) in output vector x
  desc      \* the descriptors completed by the last step: [buf, eop]

vars == <<chain, out, desc>>

Desc == [buf : Bufs, eop : {0, 1}]

\* Process descriptors d[k..] given where each finished packet goes.
RECURSIVE Deliver(_, _, _, _, _)
Deliver(d, k, dest, c, o) ==
  IF k > Len(d) THEN [chain |-> c, out |-> o]
  ELSE LET c1 == Append(c, d[k].buf)
       IN  IF d[k].eop = 1
           THEN Deliver(d, k + 1, dest, <<>>,
                        [o EXCEPT ![dest[k]] = Append(@, c1)])
           ELSE Deliver(d, k + 1, dest, c1, o)

Init ==
  /\ chain = <<>>
  /\ out = [x \in Nexts |-> <<>>]
  /\ desc = <<>>

\* One or more descriptors complete.
Receive ==
  /\ Len(desc') \in 1..4
  /\ \A k \in 1..Len(desc') : desc'[k] \in Desc
  /\ \E dest \in [1..Len(desc') -> Nexts] :
       LET r == Deliver(desc', 1, dest, chain, out)
       IN  chain' = r.chain /\ out' = r.out

\* The ring's state changes without a descriptor completing.
Internal ==
  /\ desc' = <<>>
  /\ UNCHANGED <<chain, out>>

\* End of round: the loop takes the output vectors.
Take ==
  /\ desc' = <<>>
  /\ out' = [x \in Nexts |-> <<>>]
  /\ UNCHANGED chain

Next == Receive \/ Internal \/ Take

Spec == Init /\ [][Next]_vars
=============================================================================
