--------------------------- MODULE MCErrorCounters ---------------------------
(***************************************************************************)
(* Model-checking harness for ErrorCounters.                               *)
(***************************************************************************)
EXTENDS ErrorCounters

CONSTANTS n1, n2
MCNodes == {n1, n2}
\* n1 is an interface node with two driver errors and the "tx down drops"
\* the helper appends; n2 a plain node that declares no errors.
MCNodeErrs == (n1 :> 2) @@ (n2 :> 0)
MCIfNodes == {n1}

\* getThread keeps every shard long enough for what is counted on it: each
\* count(e, n) NodeOutput still has to make, and every non-zero count,
\* indexes below len(t.counts), whatever nodes registered (NewError)
\* between one vector and the next.
CountsInShard ==
  \A t \in Threads :
    /\ \A k \in DOMAIN ops[t] : ops[t][k].e < lens[t]
    /\ \A e \in Errs : counts[t][e] > 0 => e < lens[t]

\* Every error "show errors" prints is attributed to the node and error
\* string that counted it: the ErrorRef NewError gave node n's i-th error
\* names <<n, i>> in ErrorNode.errs, and between NodeOutput calls the
\* shards together hold exactly the refs n marked with SetError(i) and its
\* CountError(i) calls.
ErrorsAttributed ==
  (\A t \in Threads : pc[t] = "idle") =>
    \A ne \in NodeError :
      LET e == errorRefs[ne[1]][ne[2]]
      IN  /\ e + 1 \in DOMAIN errs /\ errs[e + 1] = ne
          /\ MapThenSumSet(LAMBDA t : counts[t][e], Threads) = tally[ne[1]][ne[2]]

\* Every packet an interface node dropped while down (ifOutput's
\* CountError(txDownDropError, l)) shows in "show errors" under that node's
\* "tx down drops" error, the one registerInterfaceNodeHelper appended
\* before RegisterNode gave the node's errors their ErrorRefs: the node
\* has an ErrorRef for each of its NErrors(n) strings, and between
\* NodeOutput calls the shards hold exactly its drops on the last one.
TxDownDropsCounted ==
  (\A t \in Threads : pc[t] = "idle") =>
    \A n \in registered \cap IfNodes :
      LET d == errorRefs[n]
      IN  /\ Len(d) = NErrors(n)
          /\ errs[d[Len(d)] + 1] = <<n, NErrors(n)>>
          /\ MapThenSumSet(LAMBDA t : counts[t][d[Len(d)]], Threads) = downs[n]

\* Whenever a thread is between two NodeOutput calls, its shard holds
\* exactly one count per ref it was handed (plus the CountError calls on
\* shard 0): the 4-wide cached loop of errorNode.NodeOutput, with its cache
\* carried from one vector to the next and re-armed mid-vector, loses and
\* invents nothing, and no other thread's increment is lost.
CountsMatchNaive ==
  \A t \in Threads :
    pc[t] = "idle" => \A e \in Errs : counts[t][e] = fed[t][e]
=============================================================================
