----------------------------- MODULE EnqueueSpec -----------------------------
(***************************************************************************)
(* What the enqueue/redirect engine of an input-output node promises       *)
(* (src/node.go): during one dispatch round the node hands its input refs  *)
(* to the engine in input order, a few at a time, and each ref lands at    *)
(* the end of the output vector of the next it was given, exactly once.    *)
(* This is the "one ref at a time" reading of Put1/Put2/Put4: no caches,   *)
(* no speculation.  A round may end early in LoopInputOutput's recover:   *)
(* then each output keeps a prefix of what it was given, and a round       *)
(* whose enqueue was nil hands nothing on.                                 *)
(***************************************************************************)
EXTENDS Naturals, Sequences

LOCAL INSTANCE SequencesExt

CONSTANTS
  Nexts,    \* next indices of the node (indices into RefOut.Outs)
  MaxLen    \* largest input vector of a round

VARIABLES
  phase,    \* "idle" between rounds, "run" inside LoopInputOutput,
            \* "recovered" after a round its recover ended
  inNext,   \* inNext[i]: the next chosen by the node for input ref i
  pos,      \* number of input refs already handed to the engine
  out       \* out[x]: the refs of output vector x, in order

vars == <<phase, inNext, pos, out>>

\* The refs among input positions lo..hi whose chosen next is x, in order.
Chunk(lo, hi, x) == SelectSeq([i \in 1..(hi - lo + 1) |-> lo + i - 1],
                              LAMBDA r : inNext[r] = x)

Init ==
  /\ phase = "idle"
  /\ inNext = <<>>
  /\ pos = 0
  /\ out = [x \in Nexts |-> <<>>]

StartRound ==
  /\ phase \in {"idle", "recovered"}
  /\ \E L \in 1..MaxLen : \E f \in [1..L -> Nexts] : inNext' = f
  /\ phase' = "run"
  /\ pos' = 0
  /\ out' = [x \in Nexts |-> <<>>]

\* The node hands the next k input refs to the engine.
Enqueue ==
  /\ phase = "run"
  /\ \E k \in 1..4 :
       /\ pos + k <= Len(inNext)
       /\ pos' = pos + k
       /\ out' = [x \in Nexts |-> out[x] \o Chunk(pos + 1, pos + k, x)]
  /\ UNCHANGED <<phase, inNext>>

\* The whole input goes to one next in one step.
RedirectAll ==
  /\ phase = "run"
  /\ pos = 0
  /\ \E next \in Nexts :
       /\ \A i \in DOMAIN inNext : inNext[i] = next
       /\ out' = [x \in Nexts |-> IF x = next
                                  THEN [i \in 1..Len(inNext) |-> i]
                                  ELSE <<>>]
  /\ pos' = Len(inNext)
  /\ UNCHANGED <<phase, inNext>>

FinishRound ==
  /\ phase = "run"
  /\ pos = Len(inNext)
  /\ phase' = "idle"
  /\ UNCHANGED <<inNext, pos, out>>

\* A round that never reaches NodeInput: the input is dropped and no ref
\* is given a next.
DropRound ==
  /\ phase \in {"idle", "recovered"}
  /\ inNext' = <<>>
  /\ phase' = "recovered"
  /\ pos' = 0
  /\ out' = [x \in Nexts |-> <<>>]

\* A round cut short: each output keeps a prefix of its refs.
Abort ==
  /\ phase = "run"
  /\ phase' = "recovered"
  /\ DOMAIN out' = Nexts
  /\ \A x \in Nexts : IsPrefix(out'[x], out[x])
  /\ UNCHANGED <<inNext, pos>>

Next == StartRound \/ Enqueue \/ RedirectAll \/ FinishRound \/ DropRound \/ Abort

Spec == Init /\ [][Next]_vars
=============================================================================
