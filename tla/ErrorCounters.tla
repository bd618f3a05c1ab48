---------------------------- MODULE ErrorCounters ----------------------------
(***************************************************************************)
(* The error counter fabric (src/error.go).  Every poller thread t owns a  *)
(* shard ErrorNode.threads[t] with counts, countsLastClear and a one-slot  *)
(* cache.  The error node's NodeOutput, run by thread t on a vector of     *)
(* refs whose Aux holds an ErrorRef, counts them on shard t, 4 at a time   *)
(* with the cache; Node.CountError adds atomically to shard 0 from         *)
(* whichever thread runs it (interface output calls it for "tx down"       *)
(* drops); the CLI's "clear errors" copies each shard's counts to its      *)
(* last-clear snapshot and "show errors" reports counts - countsLastClear. *)
(*                                                                         *)
(* t.counts[e] += n in errorThread.count is a plain load and store, so it  *)
(* is two steps here; the atomic add of CountError is one.                 *)
(***************************************************************************)
EXTENDS Naturals, Sequences, SequencesExt

CONSTANTS
  Threads,          \* poller thread ids; shard 0 is the one CountError uses
  Nodes,            \* nodes that register with vnet.RegisterNode
  NodeErrs,         \* NodeErrs[n]: len(n.Errors) the driver gives, non-empty
  IfNodes,          \* nodes registered as (output) interface nodes
  Errs,             \* the ErrorRefs they get, 0..N-1
  MaxBatch,         \* longest vector handed to the error node
  MaxBatches,       \* vectors each thread hands to the error node
  MaxRefs,          \* refs, in all, each thread hands to the error node
  CountErrorThread, \* the thread that runs interface output (CountError)
  MaxCountErrors,   \* CountError calls
  MaxDrops,         \* most refs one CountError counts (ri.InLen())
  MaxClears         \* "clear errors" commands

ASSUME 0 \in Threads /\ CountErrorThread \in Threads
ASSUME Errs = 0..(Cardinality(Errs) - 1) /\ Errs # {}
ASSUME NodeErrs \in [Nodes -> Nat]
ASSUME IfNodes \subseteq Nodes

\* len(n.Errors) at RegisterNode: registerInterfaceNodeHelper has appended
\* "tx down drops" to an interface node's errors.
NErrors(n) == NodeErrs[n] + (IF n \in IfNodes THEN 1 ELSE 0)

ASSUME Cardinality(Errs) = MapThenSumSet(LAMBDA n : NErrors(n), Nodes)

VARIABLES
  counts,      \* counts[t][e]: ErrorNode.threads[t].counts[e]
  lastClear,   \* lastClear[t][e]: ErrorNode.threads[t].countsLastClear[e]
  cache,       \* cache[t]: ErrorNode.threads[t].cache
  pc,          \* pc[t]: "idle", or at the "load"/"store" of the next count
  ops,         \* ops[t]: the count(e, n) calls NodeOutput still has to make
  tmp,         \* tmp[t]: the value loaded by the count in progress
  newCache,    \* newCache[t]: the cache NodeOutput stores when it returns
  batches,     \* vectors handed to the error node per thread
  nRefs,       \* refs handed to the error node per thread
  nCountError, \* CountError calls made
  clearing,    \* shards "clear errors" still has to copy
  nClears,     \* "clear errors" commands started
  fed,         \* fed[t][e]: ghost, the naive count of e handed to shard t
  errs,        \* ErrorNode.errs: <<node, i>> for the i-th error of node
  errorRefs,   \* errorRefs[n]: Node.errorRefs of n, <<>> until registered
  registered,  \* nodes vnet.RegisterNode has run for
  lens,        \* lens[t]: len(ErrorNode.threads[t].counts)
  tally,       \* tally[n][i]: ghost, refs and CountErrors node n gave error i
  txDownDropError, \* txDownDropError[n]: interfaceNode.txDownDropError
  downs        \* downs[n]: ghost, packets ifOutput of n dropped while down

vars == <<counts, lastClear, cache, pc, ops, tmp, newCache, batches, nRefs,
          nCountError, clearing, nClears, fed, errs, errorRefs, registered,
          lens, tally, txDownDropError, downs>>

regVars == <<errs, errorRefs, registered, txDownDropError>>

\* The driver errors of registered nodes, as (node, index) pairs: what
\* SetError may name.  (Nothing marks a ref with "tx down drops"; only
\* ifOutput's CountError counts it.)
NodeError == UNION {{<<n, i>> : i \in 1..NodeErrs[n]} : n \in registered}

\* Mutant: getThread validates one entry short (Validate(len(errs) - 2)).
GetThreadShort(t) == [lens EXCEPT ![t] = IF Len(errs) > 1 /\ @ < Len(errs) - 1
                                         THEN Len(errs) - 1 ELSE @]

\* errorNode.getThread(t): counts.Validate(len(errs) - 1) when errs is
\* non-empty, so the shard covers every registered ErrorRef.
GetThread(t) == [lens EXCEPT ![t] = IF Len(errs) > 0 /\ @ < Len(errs)
                                    THEN Len(errs) ELSE @]

-----------------------------------------------------------------------------
(* NodeOutput's counting loop as the sequence of count(e, n) calls it       *)
(* makes on vector b when the shard's cache holds c.  Quads handles the    *)
(* 4-wide loop: a quad all equal to the cache only bumps cacheCount; any   *)
(* other quad counts its four codes one by one and, when they are all one  *)
(* code, commits the pending cacheCount and re-arms the cache on it.       *)

Count(e, n) == [e |-> e, n |-> n]

\* Mutant: re-arm the cache without committing the pending cacheCount.
RECURSIVE QuadsNoCommit(_, _, _, _, _)
QuadsNoCommit(b, i, c, cc, calls) ==
  IF i + 4 > Len(b) THEN [i |-> i, cache |-> c, cc |-> cc, calls |-> calls]
  ELSE
    LET e0 == b[i + 1]  e1 == b[i + 2]  e2 == b[i + 3]  e3 == b[i + 4]
        four == calls \o <<Count(e0, 1), Count(e1, 1), Count(e2, 1), Count(e3, 1)>>
    IN  IF e0 = c /\ e1 = c /\ e2 = c /\ e3 = c
        THEN QuadsNoCommit(b, i + 4, c, cc + 4, calls)
        ELSE IF e0 = e1 /\ e2 = e3 /\ e0 = e2
             THEN QuadsNoCommit(b, i + 4, e0, 0, four)
             ELSE QuadsNoCommit(b, i + 4, c, cc, four)

RECURSIVE Quads(_, _, _, _, _)
Quads(b, i, c, cc, calls) ==
  IF i + 4 > Len(b) THEN [i |-> i, cache |-> c, cc |-> cc, calls |-> calls]
  ELSE
    LET e0 == b[i + 1]  e1 == b[i + 2]  e2 == b[i + 3]  e3 == b[i + 4]
        four == calls \o <<Count(e0, 1), Count(e1, 1), Count(e2, 1), Count(e3, 1)>>
    IN  IF e0 = c /\ e1 = c /\ e2 = c /\ e3 = c
        THEN Quads(b, i + 4, c, cc + 4, calls)
        ELSE IF e0 = e1 /\ e2 = e3 /\ e0 = e2
             THEN Quads(b, i + 4, e0, 0, four \o <<Count(c, cc)>>)
             ELSE Quads(b, i + 4, c, cc, four)

\* Mutant: commit the pending cacheCount less one.
NodeOutputCallsOffByOne(b, c) ==
  LET r == Quads(b, 0, c, 0, <<>>)
      rest == [k \in 1..(Len(b) - r.i) |-> Count(b[r.i + k], 1)]
  IN  [calls |-> r.calls \o rest \o <<Count(r.cache, r.cc - 1)>>, cache |-> r.cache]

\* The whole of NodeOutput: the quads, the scalar remainder, then the
\* pending cacheCount committed to the cache.
NodeOutputCalls(b, c) ==
  LET r == Quads(b, 0, c, 0, <<>>)
      rest == [k \in 1..(Len(b) - r.i) |-> Count(b[r.i + k], 1)]
  IN  [calls |-> r.calls \o rest \o <<Count(r.cache, r.cc)>>, cache |-> r.cache]

\* The reference: one increment per ref.
Naive(b, e) == Cardinality({k \in DOMAIN b : b[k] = e})

-----------------------------------------------------------------------------

Init ==
  /\ counts = [t \in Threads |-> [e \in Errs |-> 0]]
  /\ lastClear = [t \in Threads |-> [e \in Errs |-> 0]]
  /\ cache = [t \in Threads |-> 0]
  /\ pc = [t \in Threads |-> "idle"]
  /\ ops = [t \in Threads |-> <<>>]
  /\ tmp = [t \in Threads |-> 0]
  /\ newCache = [t \in Threads |-> 0]
  /\ batches = [t \in Threads |-> 0]
  /\ nRefs = [t \in Threads |-> 0]
  /\ nCountError = 0
  /\ clearing = {}
  /\ nClears = 0
  /\ fed = [t \in Threads |-> [e \in Errs |-> 0]]
  /\ errs = <<>>
  /\ errorRefs = [n \in Nodes |-> <<>>]
  /\ registered = {}
  /\ lens = [t \in Threads |-> 0]
  /\ tally = [n \in Nodes |-> [i \in 1..NErrors(n) |-> 0]]
  /\ txDownDropError = [n \in Nodes |-> 0]
  /\ downs = [n \in Nodes |-> 0]

\* Node.NewError for each error string of n, in order: r = len(errs), then
\* errs = append(errs, err{n, s}).
NewErrorsLate(n, k) == [i \in 1..k |-> Len(errs) + i]

NewErrors(n, k) == [i \in 1..k |-> Len(errs) + i - 1]

\* vnet.RegisterNode(n) with k error strings: the loop registers n, then
\* errorRefs gets one NewError per error string.
RegisterErrors(n, k) ==
  /\ n \notin registered
  /\ registered' = registered \cup {n}
  /\ errorRefs' = [errorRefs EXCEPT ![n] = NewErrors(n, k)]
  /\ errs' = errs \o [i \in 1..k |-> <<n, i>>]
  /\ UNCHANGED <<counts, lastClear, cache, pc, ops, tmp, newCache, batches,
                 nRefs,
                 nCountError, clearing, nClears, fed, lens, tally, downs>>

\* RegisterNode / RegisterOutputNode / RegisterInOutNode of a node that is
\* not an interface node.
RegisterNode(n) ==
  /\ n \notin IfNodes
  /\ RegisterErrors(n, NodeErrs[n])
  /\ UNCHANGED txDownDropError

\* Mutant: RegisterNode before the helper, so "tx down drops" is appended
\* after errorRefs was made and gets no ErrorRef.
RegisterOutputInterfaceNodeSwapped(n) ==
  /\ n \in IfNodes
  /\ RegisterErrors(n, NodeErrs[n])
  /\ txDownDropError' = [txDownDropError EXCEPT ![n] = NodeErrs[n]]

\* RegisterOutputInterfaceNode / RegisterInterfaceNode: the helper saves
\* txDownDropError = len(Errors) and appends "tx down drops", then
\* RegisterNode gives every error, that one included, an ErrorRef.
RegisterOutputInterfaceNode(n) ==
  /\ n \in IfNodes
  /\ txDownDropError' = [txDownDropError EXCEPT ![n] = NodeErrs[n]]
  /\ RegisterErrors(n, NErrors(n))

\* errorNode.NodeOutput entry on thread t: getThread(t), read the cache and
\* run the counting loop over a vector whose refs nodes marked with
\* SetError (Aux = errorRefs[n][i]).
NodeOutput(t) ==
  /\ pc[t] = "idle"
  /\ batches[t] < MaxBatches
  /\ \E src \in BoundedSeq(NodeError, MaxBatch) \ {<<>>} :
       LET b == [k \in DOMAIN src |-> errorRefs[src[k][1]][src[k][2]]]
           r == NodeOutputCalls(b, cache[t])
       IN  /\ nRefs[t] + Len(src) <= MaxRefs
           /\ nRefs' = [nRefs EXCEPT ![t] = @ + Len(src)]
           /\ ops' = [ops EXCEPT ![t] = r.calls]
           /\ newCache' = [newCache EXCEPT ![t] = r.cache]
           /\ fed' = [fed EXCEPT ![t] = [e \in Errs |-> @[e] + Naive(b, e)]]
           /\ tally' = [n \in Nodes |-> [i \in 1..NErrors(n) |->
                          tally[n][i] + Naive(src, <<n, i>>)]]
  /\ lens' = GetThread(t)
  /\ pc' = [pc EXCEPT ![t] = "load"]
  /\ batches' = [batches EXCEPT ![t] = @ + 1]
  /\ UNCHANGED <<counts, lastClear, cache, tmp, nCountError, clearing, nClears,
                 regVars, downs>>

\* errorThread.count, first half: load t.counts[e].
CountLoad(t) ==
  /\ pc[t] = "load"
  /\ tmp' = [tmp EXCEPT ![t] = counts[t][Head(ops[t]).e]]
  /\ pc' = [pc EXCEPT ![t] = "store"]
  /\ UNCHANGED <<counts, lastClear, cache, ops, newCache, batches, nRefs,
                 nCountError, clearing, nClears, fed, regVars, lens, tally,
                 downs>>

\* errorThread.count, second half: store the loaded value plus n; after the
\* last call NodeOutput saves the cache and frees the refs.
CountStore(t) ==
  /\ pc[t] = "store"
  /\ counts' = [counts EXCEPT ![t][Head(ops[t]).e] = tmp[t] + Head(ops[t]).n]
  /\ ops' = [ops EXCEPT ![t] = Tail(@)]
  /\ IF Len(ops[t]) = 1
     THEN /\ pc' = [pc EXCEPT ![t] = "idle"]
          /\ cache' = [cache EXCEPT ![t] = newCache[t]]
     ELSE /\ pc' = [pc EXCEPT ![t] = "load"]
          /\ UNCHANGED cache
  /\ UNCHANGED <<lastClear, tmp, newCache, batches, nRefs, nCountError,
                 clearing,
                 nClears, fed, regVars, lens, tally, downs>>

\* Node.CountError(i, l) by node n, run by CountErrorThread: getThread(0),
\* then an atomic add of l to n.errorRefs[i] on shard 0.
CountErrorOf(n, i, l) ==
  /\ pc[CountErrorThread] = "idle"
  /\ nCountError < MaxCountErrors
  /\ LET e == errorRefs[n][i]
     IN  /\ counts' = [counts EXCEPT ![0][e] = @ + l]
         /\ fed' = [fed EXCEPT ![0][e] = @ + l]
         /\ tally' = [tally EXCEPT ![n][i] = @ + l]
  /\ lens' = GetThread(0)
  /\ nCountError' = nCountError + 1
  /\ UNCHANGED <<lastClear, cache, pc, ops, tmp, newCache, batches, nRefs,
                 clearing, nClears, regVars>>

\* A driver's call of the exported Node.CountError on one of its errors.
CountError ==
  /\ \E ne \in NodeError, l \in 1..MaxDrops : CountErrorOf(ne[1], ne[2], l)
  /\ UNCHANGED downs

\* ifOutput of interface node n while it is down (tx_chan nil):
\* n.CountError(n.txDownDropError, l) for the l refs of the vector, whose
\* refs are then freed.
IfOutputDown ==
  \E n \in registered \cap IfNodes, l \in 1..MaxDrops :
    /\ CountErrorOf(n, txDownDropError[n] + 1, l)
    /\ downs' = [downs EXCEPT ![n] = @ + l]

\* errorCliClear: start a "clear errors" command.
ClearStart ==
  /\ clearing = {}
  /\ nClears < MaxClears
  /\ clearing' = Threads
  /\ nClears' = nClears + 1
  /\ UNCHANGED <<counts, lastClear, cache, pc, ops, tmp, newCache, batches,
                 nRefs,
                 nCountError, fed, regVars, lens, tally, downs>>

\* errorCliClear: copy(t.countsLastClear, t.counts) for one shard.
ClearShard ==
  /\ \E t \in clearing :
       /\ lastClear' = [lastClear EXCEPT ![t] = counts[t]]
       /\ clearing' = clearing \ {t}
  /\ UNCHANGED <<counts, cache, pc, ops, tmp, newCache, batches, nRefs,
                 nCountError, nClears, fed, regVars, lens, tally, downs>>

Next ==
  \/ \E t \in Threads : NodeOutput(t) \/ CountLoad(t) \/ CountStore(t)
  \/ CountError \/ IfOutputDown
  \/ \E n \in Nodes : RegisterNode(n) \/ RegisterOutputInterfaceNode(n)
  \/ ClearStart \/ ClearShard

Spec == Init /\ [][Next]_vars

-----------------------------------------------------------------------------

\* errorCliShow: the count reported for e is the uint64 sum over the shards
\* of counts - countsLastClear; as an integer it is this sum, and the
\* command prints it wrapped modulo 2^64 when the sum is negative.
SinceClear(e) == MapThenSumSet(LAMBDA t : counts[t][e] - lastClear[t][e], Threads)

TypeOK ==
  /\ counts \in [Threads -> [Errs -> Nat]]
  /\ lastClear \in [Threads -> [Errs -> Nat]]
  /\ cache \in [Threads -> Errs]
  /\ pc \in [Threads -> {"idle", "load", "store"}]
  /\ ops \in [Threads -> Seq([e : Errs, n : Nat])]
  /\ batches \in [Threads -> 0..MaxBatches]
  /\ nRefs \in [Threads -> 0..MaxRefs]
  /\ nCountError \in 0..MaxCountErrors
  /\ clearing \subseteq Threads
  /\ nClears \in 0..MaxClears
  /\ errs \in Seq(Nodes \X Nat)
  /\ errorRefs \in [Nodes -> Seq(Errs)]
  /\ registered \subseteq Nodes
  /\ lens \in [Threads -> 0..Cardinality(Errs)]
  /\ txDownDropError \in [Nodes -> Nat]
  /\ downs \in [Nodes -> Nat]
=============================================================================
