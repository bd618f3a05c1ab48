------------------------------- MODULE Enqueue -------------------------------
(***************************************************************************)
(* The enqueue engine of an input-output node (src/node.go, enqueue and    *)
(* InOutNode.LoopInputOutput).  One round: the loop hands the node an      *)
(* input vector and empty output vectors, the node's NodeInput hands its   *)
(* refs to Put1/Put2/Put4 (or sends the whole vector with Redirect), then  *)
(* LoopInputOutput syncs the cached run and validates the lengths.         *)
(* A round may also end in LoopInputOutput's recover: when GetEnqueue      *)
(* returns nil (a freed poller, or a recovered panic of qs.Validate) the   *)
(* assignment to q.n panics before NodeInput runs, and a panic inside      *)
(* NodeInput skips q.sync and q.validate.                                  *)
(*                                                                         *)
(* The engine keeps one cached next q.x with a count q.n of refs already   *)
(* stored in Outs[q.x].Refs but not yet in its length; Put2 and Put4 write *)
(* speculatively at the cached next and undo the count when the guess was  *)
(* wrong.  Refs are identified by their input position; NoRef stands for  *)
(* whatever stale content a slot holds from before the round.              *)
(***************************************************************************)
EXTENDS Naturals, Sequences

CONSTANTS
  Nexts,    \* next indices 0..N-1 of the node
  MaxLen,   \* largest input vector of a round (the Refs capacity)
  NoRef     \* content of a slot not written this round

ASSUME Nexts \subseteq Nat /\ 0 \in Nexts
ASSUME MaxLen \in Nat \ {0}

Slots == 0..(MaxLen - 1)
Refs  == 1..MaxLen

VARIABLES
  phase,    \* "idle" after a round that returned normally, "run" inside
            \* LoopInputOutput, "recovered" after one its recover ended
  inNext,   \* the next NodeInput chooses for each input ref
  pos,      \* input refs already handed to the engine
  q         \* the enqueue: cached next x, cached count n, and the RefOut
            \* q.o.Outs it writes: refs[x][i] = Outs[x].Refs[i], len[x]

vars == <<phase, inNext, pos, q>>

-----------------------------------------------------------------------------
(* The engine's operations, as functions of the enqueue record.            *)

\* enqueue.sync: make the cached count visible in the cached next's length.
Sync(s) ==
  IF s.n > s.len[s.x] THEN [s EXCEPT !.len[s.x] = s.n] ELSE s

\* enqueue.put: append r0 at the current length of Outs[x0].
PutSlow(s, r0, x0) ==
  [s EXCEPT !.refs[x0][s.len[x0]] = r0, !.len[x0] = @ + 1]

\* enqueue.Put1: store at the cached next; if x0 is another next, take the
\* count back and append to x0 instead (the stored copy stays as garbage).
Put1(s, r0, x0) ==
  LET t == [s EXCEPT !.refs[s.x][s.n] = r0]
  IN  IF x0 = s.x THEN [t EXCEPT !.n = @ + 1] ELSE PutSlow(t, r0, x0)

\* enqueue.setCachedNext: sync the old run, cache x0 at its current length.
SetCachedNext(s, x0) ==
  LET t == Sync(s) IN [t EXCEPT !.x = x0, !.n = t.len[x0]]

\* Mutant: keep the speculative writes whenever both refs share a next,
\* without checking that it is the cached next.
Put2NoCacheCheck(s, r0, r1, x0, x1) ==
  LET t == [s EXCEPT !.refs[s.x][s.n] = r0, !.refs[s.x][s.n + 1] = r1]
      u == Put1(Put1(t, r0, x0), r1, x1)
  IN  IF x0 = x1 THEN [t EXCEPT !.n = s.n + 2]
      ELSE u

\* enqueue.Put2: write both at the cached next; keep them if both go there,
\* else redo them with Put1 and switch the cache when both go to one next.
Put2(s, r0, r1, x0, x1) ==
  LET t == [s EXCEPT !.refs[s.x][s.n] = r0, !.refs[s.x][s.n + 1] = r1]
      u == Put1(Put1(t, r0, x0), r1, x1)
  IN  IF x0 = x1 /\ x0 = s.x THEN [t EXCEPT !.n = s.n + 2]
      ELSE IF x0 = x1 THEN SetCachedNext(u, x0) ELSE u

\* Mutant: accept the speculation when the four nexts agree, without
\* checking that they agree with the cached next.
Put4NoCacheCheck(s, r0, r1, r2, r3, x0, x1, x2, x3) ==
  LET t == [s EXCEPT !.refs[s.x][s.n] = r0, !.refs[s.x][s.n + 1] = r1,
                     !.refs[s.x][s.n + 2] = r2, !.refs[s.x][s.n + 3] = r3]
      u == Put1(Put1(Put1(Put1(t, r0, x0), r1, x1), r2, x2), r3, x3)
  IN  IF x0 = x1 /\ x2 = x3 /\ x0 = x2 THEN [t EXCEPT !.n = s.n + 4]
      ELSE IF x2 # s.x /\ x2 = x3 THEN SetCachedNext(u, x2) ELSE u

\* enqueue.Put4: as Put2 for four refs; the cache moves to x2 when the
\* last two refs share a next other than the cached one.
Put4(s, r0, r1, r2, r3, x0, x1, x2, x3) ==
  LET t == [s EXCEPT !.refs[s.x][s.n] = r0, !.refs[s.x][s.n + 1] = r1,
                     !.refs[s.x][s.n + 2] = r2, !.refs[s.x][s.n + 3] = r3]
      u == Put1(Put1(Put1(Put1(t, r0, x0), r1, x1), r2, x2), r3, x3)
  IN  IF x0 = s.x /\ x0 = x1 /\ x2 = x3 /\ x0 = x2 THEN [t EXCEPT !.n = s.n + 4]
      ELSE IF x2 # s.x /\ x2 = x3 THEN SetCachedNext(u, x2) ELSE u

\* Mutant: copy input ref i to slot i as ref i (off by one).
RedirectOffByOne(s, next) ==
  [s EXCEPT !.refs[next] = [i \in Slots |-> IF i < Len(inNext) THEN i
                                            ELSE @[i]],
            !.len[next] = Len(inNext)]

\* Node.Redirect: copy the whole input to Outs[next] and set its length.
Redirect(s, next) ==
  [s EXCEPT !.refs[next] = [i \in Slots |-> IF i < Len(inNext) THEN i + 1
                                            ELSE @[i]],
            !.len[next] = Len(inNext)]

-----------------------------------------------------------------------------
(* Actions.                                                                *)

Init ==
  /\ phase = "idle"
  /\ inNext = <<>>
  /\ pos = 0
  /\ q = [x |-> 0, n |-> 0,
          refs |-> [x \in Nexts |-> [i \in Slots |-> NoRef]],
          len |-> [x \in Nexts |-> 0]]

\* LoopInputOutput entry: a fresh input and empty outputs; q.n = 0, the
\* cached next q.x is kept from the previous round.
StartRound ==
  /\ phase \in {"idle", "recovered"}
  /\ \E L \in 1..MaxLen : \E f \in [1..L -> Nexts] : inNext' = f
  /\ phase' = "run"
  /\ pos' = 0
  /\ q' = [q EXCEPT !.n = 0,
                    !.refs = [x \in Nexts |-> [i \in Slots |-> NoRef]],
                    !.len = [x \in Nexts |-> 0]]

NodePut1 ==
  /\ phase = "run"
  /\ pos + 1 <= Len(inNext)
  /\ q' = Put1(q, pos + 1, inNext[pos + 1])
  /\ pos' = pos + 1
  /\ UNCHANGED <<phase, inNext>>

NodePut2 ==
  /\ phase = "run"
  /\ pos + 2 <= Len(inNext)
  /\ q' = Put2(q, pos + 1, pos + 2, inNext[pos + 1], inNext[pos + 2])
  /\ pos' = pos + 2
  /\ UNCHANGED <<phase, inNext>>

NodePut4 ==
  /\ phase = "run"
  /\ pos + 4 <= Len(inNext)
  /\ q' = Put4(q, pos + 1, pos + 2, pos + 3, pos + 4,
               inNext[pos + 1], inNext[pos + 2], inNext[pos + 3], inNext[pos + 4])
  /\ pos' = pos + 4
  /\ UNCHANGED <<phase, inNext>>

NodeRedirect ==
  /\ phase = "run"
  /\ pos = 0
  /\ \E next \in Nexts :
       /\ \A i \in DOMAIN inNext : inNext[i] = next
       /\ q' = Redirect(q, next)
  /\ pos' = Len(inNext)
  /\ UNCHANGED <<phase, inNext>>

\* LoopInputOutput entry when GetEnqueue returns nil: in.ThreadId() is ^0
\* (the poller was freed), or qs.Validate panicked and GetEnqueue's recover
\* returned the nil result.  q.n, q.i, q.o = 0, in, out then panics and
\* LoopInputOutput's recover returns: the fresh outputs stay empty, the
\* thread's enqueue keeps its x and n, and the input refs go nowhere.
\* NodeInput never runs, so no input ref is given a next: inNext is empty.
GetEnqueueNil ==
  /\ phase \in {"idle", "recovered"}
  /\ inNext' = <<>>
  /\ phase' = "recovered"
  /\ pos' = 0
  /\ q' = [q EXCEPT !.refs = [x \in Nexts |-> [i \in Slots |-> NoRef]],
                    !.len = [x \in Nexts |-> 0]]

\* A panic inside NodeInput (an interface removed while a round is in
\* flight), caught by LoopInputOutput's deferred recover: q.sync() and
\* q.validate() are skipped and the round ends with the outputs as they are.
NodeInputPanic ==
  /\ phase = "run"
  /\ phase' = "recovered"
  /\ UNCHANGED <<inNext, pos, q>>

\* Mutant: LoopInputOutput returns without q.sync().
FinishRoundNoSync ==
  /\ phase = "run"
  /\ pos = Len(inNext)
  /\ phase' = "idle"
  /\ UNCHANGED <<inNext, pos, q>>

\* LoopInputOutput after NodeInput returns: q.sync(); q.validate().
FinishRound ==
  /\ phase = "run"
  /\ pos = Len(inNext)
  /\ q' = Sync(q)
  /\ phase' = "idle"
  /\ UNCHANGED <<inNext, pos>>

Next ==
  \/ StartRound \/ GetEnqueueNil
  \/ NodePut1 \/ NodePut2 \/ NodePut4 \/ NodeRedirect
  \/ FinishRound \/ NodeInputPanic

Spec == Init /\ [][Next]_vars

-----------------------------------------------------------------------------
(* Views used by the properties.                                           *)

\* The refs output vector x holds as far as the engine is concerned: its
\* length, or, while the round runs, the cached count for the cached next
\* when that is larger (once the round is over only the length counts).
EffLen(x) == IF phase = "run" /\ x = q.x /\ q.n > q.len[x] THEN q.n ELSE q.len[x]

OutSeq(x, l) == [i \in 1..l |-> q.refs[x][i - 1]]

\* The refs the loop sees in Outs[x] after the round.
Visible(x) == OutSeq(x, q.len[x])

Wanted(x) == SelectSeq([i \in 1..Len(inNext) |-> i], LAMBDA r : inNext[r] = x)

TypeOK ==
  /\ phase \in {"idle", "run", "recovered"}
  /\ inNext \in Seq(Nexts) /\ Len(inNext) <= MaxLen
  /\ pos \in 0..Len(inNext)
  /\ q.x \in Nexts /\ q.n \in 0..MaxLen
  /\ q.refs \in [Nexts -> [Slots -> Refs \cup {NoRef}]]
  /\ q.len \in [Nexts -> 0..MaxLen]
=============================================================================
