------------------------------ MODULE MCEnqueue ------------------------------
(***************************************************************************)
(* Model-checking harness for Enqueue: the properties of the engine and    *)
(* the refinement of EnqueueSpec.                                          *)
(***************************************************************************)
EXTENDS Enqueue

LOCAL INSTANCE SequencesExt

\* After every round, each output vector holds exactly the input refs the
\* node sent to that next, in input order, however NodeInput mixed Put1,
\* Put2 and Put4 and wherever the cached next and its speculative writes
\* went (enqueue.Put1/Put2/Put4, setCachedNext, sync in LoopInputOutput).
OutputsInInputOrder ==
  phase = "idle" => \A x \in Nexts : Visible(x) = Wanted(x)

\* A round that LoopInputOutput's recover ended (a panic in NodeInput, or a
\* nil enqueue from GetEnqueue) leaves on each output a prefix of the refs
\* the node sent to that next: refs are missing, but none is at the wrong
\* next, repeated, or a stale slot, wherever Put2/Put4 had speculated and
\* whether or not the cache had switched (sync runs only on a normal end).
RecoveredRoundShowsPrefix ==
  phase = "recovered" => \A x \in Nexts : IsPrefix(Visible(x), Wanted(x))

\* Refinement: reading the cached next's output up to q.n, every step of the
\* engine is a step of the one-ref-at-a-time engine of EnqueueSpec; so the
\* speculate-then-correct paths of Put2/Put4 are indistinguishable from
\* calling Put1 once per ref, at every point of the round.
Abs == INSTANCE EnqueueSpec WITH out <- [x \in Nexts |-> OutSeq(x, EffLen(x))]

AbsSpec == Abs!Spec
=============================================================================
