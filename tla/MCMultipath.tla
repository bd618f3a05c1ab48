----------------------------- MODULE MCMultipath -----------------------------
(***************************************************************************)
(* Model-checking harness for Multipath: the sharing of multipath blocks  *)
(* between routes, their reference counts and the next hop hash.          *)
(***************************************************************************)
EXTENDS Multipath, TLC

CONSTANTS p1, p2, b1, b2, b3

\* The routes are interchangeable, and so are the free indices a block can
\* get: no next hop names a block (the next hops are leaves), so nothing
\* orders them.
Sym == {f @@ g : f \in Permutations({p1, p2}), g \in Permutations({b1, b2, b3})}

Live == {a \in MpIds : mp[a].valid}

\* Reference counting across shared blocks: each live multipath block
\* counts exactly the routes that point to it (createMpAdj hands one block
\* to every next hop list with the same key, addDelHelper moves a
\* reference from the old block to the new one and frees at zero,
\* DelNextHopsAdj drops one), so no route points to a freed block and no
\* block outlives its last route.
RefCountsMatch ==
  /\ \A p \in IpPrefixes : route[p] # AdjNil => route[p] \in Live
  /\ \A a \in Live : mp[a].refCount = Cardinality({p \in IpPrefixes : route[p] = a})
                     /\ mp[a].refCount > 0

\* The next hop hash holds exactly one entry per live block, under the
\* block's resolved next hops: createMpAdj's lookup finds every live block
\* and free's Unset removes a freed one, whatever order routes come and go.
HashConsistent ==
  hash = {[key |-> mp[a].resolved, adj |-> a] : a \in Live}

\* The adjacency hooks hear of every adjacency exactly as long as it is
\* live: once for the specials, each leaf the FIB added and each live
\* multipath block, never for a free index, across adjacencyInit, createMpAdj
\* (new block or hash hit), free, DelAdj and the reuse of freed indices.
HooksMatchHeap ==
  \A a \in Heap : hooks[a] = IF a \in used /\ (a \in MpIds => mp[a].valid) THEN 1 ELSE 0


-----------------------------------------------------------------------------
(* normalizePow2 checked against its promise over wider weights than the  *)
(* route calls use: every list of one to three distinct leaf next hops     *)
(* with weights 0..4, as resolve hands it over.  With sums of at most 12   *)
(* no rounding is an exact half under a sum that is not a power of two,    *)
(* and no error is exactly 1/100, so the exact arithmetic of NextHops      *)
(* agrees with the code's floating point (README).                         *)
NormWeights == 0..4

NormInputs ==
  UNION {{g \in [1..k -> [adj : NhAdjs, weight : NormWeights]] :
            IsInjective([i \in 1..k |-> g[i].adj])} : k \in 1..3}

\* The weight normalizePow2 is asked to honour for g[i]: its own, or 1 for
\* every next hop when all are given as 0.
Share(g, i) == IF SumWeights(g) = 0 THEN 1 ELSE g[i].weight

\* The adjacencies of a normalized block that go to adjacency a.
Cnt(norm, a) == MapThenSumSet(LAMBDA k : norm[k].weight, {k \in DOMAIN norm : norm[k].adj = a})

\* For every input: the block size is a power of two, the normalized next
\* hops fill it, each once and with a positive count, only given next hops
\* appear, and the traffic each given next hop receives is within the 1%
\* tolerance of its share of the given weights (sum |W/S - c/nAdj| < 1/100).
NormalizeFacts ==
  \A g \in NormInputs :
    LET r == NormalizePow2(g)
        tot == MapThenSumSet(LAMBDA i : Share(g, i), DOMAIN g)
        err == MapThenSumSet(LAMBDA i : AbsDiff(Share(g, i) * r.nAdj,
                                                 Cnt(r.norm, g[i].adj) * tot), DOMAIN g)
    IN  /\ r.nAdj = MaxPow2(r.nAdj)
        /\ SumWeights(r.norm) = r.nAdj
        /\ \A k \in DOMAIN r.norm : r.norm[k].weight > 0
        /\ IsInjective([k \in DOMAIN r.norm |-> r.norm[k].adj])
        /\ Adjs(r.norm) \subseteq Adjs(g)
        /\ 100 * err < tot * r.nAdj

\* Whenever a route call may still come, whatever next hop list it hands
\* normalizePow2 (the n = 1 and n = 2 special cases, the sort, the search
\* over block sizes, the leftover and the truncation at the first zero
\* count) yields a full block that splits traffic within the 1% tolerance
\* createMpAdj relies on (NormalizeFacts; constant, evaluated once).
NormalizeWithinTolerance == ops < MaxOps => NormalizeFacts

-----------------------------------------------------------------------------
\* The traffic split of normalized next hops a and b is the same: the same
\* adjacencies, each with the same share of its block.
SameSplit(a, b) ==
  /\ Adjs(a) = Adjs(b)
  /\ \A i \in DOMAIN a, j \in DOMAIN b :
       a[i].adj = b[j].adj => a[i].weight * SumWeights(b) = b[j].weight * SumWeights(a)

\* Every route forwards as its RIB entry asks: the next hops the FIB finds
\* for p's adjacency (NextHopsForAdj) split traffic as the normalization
\* of p's own connected next hops would, however AddDelNextHop, ReplaceNextHop and
\* the calls on routes that share or shared its block went (the given next hops "record exactly what the
\* RIB told it", adjacency.go).
ForwardsAsIntended ==
  \A p \in IpPrefixes :
    route[p] # AdjNil =>
      SameSplit(NextHopsForAdj(S, route[p]),
                NormalizePow2(Resolve(S, SelectSeq(intent[p], LAMBDA x : ConnectedRoute(S, x.adj)))).norm)
=============================================================================
