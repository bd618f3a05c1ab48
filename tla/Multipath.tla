----------------------------- MODULE Multipath -----------------------------
(***************************************************************************)
(* Multipath adjacencies (src/ip/adjacency.go).  A route's next hops are   *)
(* kept as a multipath adjacency: a power-of-two block of adjacencies      *)
(* with its given next hops (what the RIB said), its resolved and          *)
(* normalized next hops (the hash key), and a reference count of the       *)
(* prefixes pointing to it.  createMpAdj shares one block between all      *)
(* next hop lists that normalize to the same key.                          *)
(*                                                                         *)
(* The callers (the FIB, outside the repository) are the route actions:    *)
(* a prefix p holds route[p], the adjacency returned by the last call, and *)
(* the ghost intent[p], the next hops its RIB entry asked for.  Each call  *)
(* runs to completion on the control-plane thread.  The multipath table is *)
(* the record s = [mp, hash, cache]; each Go function is an operator on s. *)
(* cache is cachedNextHopVec[0], the scratch vector AddDelNextHop builds   *)
(* its new next hops in: elib's Validate(i) only ever grows it (with zero  *)
(* next hops), so it keeps what earlier calls wrote.                       *)
(***************************************************************************)
EXTENDS NextHops, FiniteSets

CONSTANTS
  Leaves,   \* single rewrite adjacencies usable as next hops
  MpIds,    \* adjacency indices available for multipath blocks
  NhAdjs,   \* next hop adjacencies the callers use
  RibAdjs,  \* next hop adjacencies a whole list given to AddNextHopsAdj may name
  IpPrefixes, \* routes
  Weights,  \* next hop weights the callers use
  MaxOps,   \* route calls
  MaxHeapOps, \* leaf adds and deletes, forwards and counter clears
  AdjNil    \* AdjNil, also the nil *multipathAdjacency

AdjMiss == 0
AdjDrop == 1
AdjPunt == 2
Specials == {AdjMiss, AdjDrop, AdjPunt}

\* The adjacency heap: the special, leaf and multipath indices.  The heap
\* hands out one index range; the model keeps leaves and blocks apart.
Heap == Specials \cup Leaves \cup MpIds

\* The LookupNext of an adjacency; "poison" is what PoisonAdj leaves.
Kinds == {"miss", "drop", "punt", "rewrite", "poison"}

VARIABLES
  mp,      \* mp[a]: the multipathAdjacency of block a
  hash,    \* nextHopHash: set of [key |-> normalized next hops, adj |-> a]
  route,   \* route[p]: the adjacency prefix p forwards with
  intent,  \* intent[p]: ghost, the next hops the RIB gave for p
  ops,     \* route calls made
  cache,   \* mm.cachedNextHopVec[0]
  used,    \* the adjacency heap's allocated indices
  kind,    \* kind[a]: adjacencyHeap.elts[a].LookupNextIndex
  hooks,   \* hooks[a]: add hook calls minus delete hook calls for a
  counter, \* counter[a]: the threads' counters of a, summed
  hops     \* heap calls made

vars == <<mp, hash, route, intent, ops, cache, used, kind, hooks, counter, hops>>

NoMp == [valid |-> FALSE, given |-> <<>>, resolved |-> <<>>, nAdj |-> 0, refCount |-> 0]

\* mpAdjForAdj(a, false) # nil: a rewrite whose Index names a pool entry,
\* which only createMpAdj's mpAdjForAdj(ai, true) sets (NewAdj resets
\* Index to ^0, a freed block is poisoned).
MpAdjFor(s, a) == a \in MpIds /\ s.kind[a] = "rewrite"

\* IsMpAdj: mpAdjForAdj(a, false) is a valid (nAdj # 0) multipath block.
IsMp(s, a) == MpAdjFor(s, a) /\ s.mp[a].valid

\* getAsSingle and IsConnectedRoute: an allocated single adjacency, not a
\* multipath block, that rewrites.
ConnectedRoute(s, a) == a \in s.used /\ ~IsMp(s, a) /\ s.kind[a] = "rewrite"

\* NewAdj(1) = NewAdjWithTemplate(1, nil): adjacencyHeap.Get, then
\* validateCounter and clearCounter.  With a nil template the adjacency keeps
\* whatever the heap held there, its LookupNextIndex included.
NewAdj(s, a) == [s EXCEPT !.used = @ \cup {a}, !.counter[a] = 0]

\* callAdjAddDelHooks: every registered hook is told of a.
CallAdjHooks(s, a, isDel) == [s EXCEPT !.hooks[a] = @ + (IF isDel THEN -1 ELSE 1)]

\* PoisonAdj overwrites the adjacency; its LookupNextIndex is no rewrite.
PoisonAdj(s, a) == [s EXCEPT !.kind[a] = "poison"]

\* FreeAdj: adjacencyHeap.Put unless a is already free; returns true.
FreeAdj(s, a) == [s EXCEPT !.used = @ \ {a}]

\* NextHopsForAdj: the resolved next hops of a live block, else a itself.
NextHopsForAdj(s, a) == IF IsMp(s, a) THEN s.mp[a].resolved ELSE <<NextHop(a, 1)>>

\* nextHopVec.find: the 1-based index of adj a, Len(nhs) + 1 if absent.
Find(nhs, a) ==
  LET is == {i \in DOMAIN nhs : nhs[i].adj = a}
  IN  IF is = {} THEN Len(nhs) + 1 ELSE Min(is)

\* The zero next hop elib's Validate fills a grown vector with.
ZeroNh == NextHop(AdjMiss, 0)

\* Element k of the scratch vector after Validate(k - 1).
CacheAt(c, k) == IF k <= Len(c) THEN c[k] ELSE ZeroNh

\* The scratch vector after newNhs was written over its start.
Overwrite(c, newNhs) ==
  [i \in 1..(IF Len(c) > Len(newNhs) THEN Len(c) ELSE Len(newNhs)) |->
     IF i <= Len(newNhs) THEN newNhs[i] ELSE c[i]]

Scale(s, w) == [i \in DOMAIN s |-> NextHop(s[i].adj, s[i].weight * w)]

\* resolve's loop over given: a next hop that is itself a multipath
\* adjacency is replaced by its resolved given next hops, a direct one is
\* appended; either way what was appended is then multiplied by the given
\* weight, so a direct next hop's weight is squared.
RECURSIVE Flatten(_, _)
Flatten(s, given) ==
  IF given = <<>> THEN <<>>
  ELSE LET g == Head(given)
           r == IF IsMp(s, g.adj) THEN Flatten(s, s.mp[g.adj].given)
                ELSE <<g>>
       IN  Scale(r, g.weight) \o Flatten(s, Tail(given))

\* nextHopVec.resolve at level 0: flatten, sort, sum_duplicates.
Resolve(s, given) == SumDuplicates(SortNhs(Flatten(s, given)))

FreeKeepHash(s, a) ==
  [FreeAdj(PoisonAdj(CallAdjHooks(s, a, TRUE), a), a) EXCEPT !.mp[a] = NoMp]

FreeNoDelHooks(s, a) ==
  [FreeAdj(PoisonAdj(s, a), a) EXCEPT !.hash = {e \in @ : ~NhVecEqual(e.key, s.mp[a].resolved)},
                                      !.mp[a] = NoMp]

\* multipathAdjacency.free: delete hooks, nextHopHash.Unset of the
\* resolved key, poison and free the block, invalidate, back to the pool.
Free(s, a) ==
  [FreeAdj(PoisonAdj(CallAdjHooks(s, a, TRUE), a), a) EXCEPT
     !.hash = {e \in @ : ~NhVecEqual(e.key, s.mp[a].resolved)},
     !.mp[a] = NoMp]

\* DelAdj: a multipath block is freed with free (when valid); any other
\* adjacency is poisoned and freed, and only then are the delete hooks told.
DelAdj(s, a) ==
  IF MpAdjFor(s, a) THEN IF s.mp[a].valid THEN Free(s, a) ELSE s
  ELSE CallAdjHooks(FreeAdj(PoisonAdj(s, a), a), a, TRUE)

\* createMpAdj(given): reuse the block hashed under the normalized key nz.
\* Else NewAdj a block m and copy the normalized next hops' adjacencies
\* into it from its start (the copy index is the one nextHopHash.Get
\* returned on the miss, taken here as 0).  mpAdjForAdj(m, true) finds no
\* rewrite at m's start when the first (heaviest) next hop is none, and
\* createMpAdj returns nil there, leaving m allocated; otherwise m is
\* filled in (referenceCount 0), hashed and told to the add hooks.
CreateMpAdjNorm(s, given, m, nz) ==
  LET hit == {e \in s.hash : NhVecEqual(e.key, nz.norm)}
      s1 == [NewAdj(s, m) EXCEPT !.kind[m] = s.kind[nz.norm[1].adj]]
  IN  CASE hit # {} ->
             LET ai == (CHOOSE e \in hit : TRUE).adj
             IN  [s |-> s, adj |-> IF IsMp(s, ai) THEN ai ELSE AdjNil]
        [] s1.kind[m] # "rewrite" -> [s |-> s1, adj |-> AdjNil]
        [] OTHER ->
             [s |-> CallAdjHooks([s1 EXCEPT
                      !.mp[m] = [valid |-> TRUE, given |-> given, resolved |-> nz.norm,
                                 nAdj |-> nz.nAdj, refCount |-> 0],
                      !.hash = @ \cup {[key |-> nz.norm, adj |-> m]}], m, FALSE),
              adj |-> m]

CreateMpAdj(s, given, m) == CreateMpAdjNorm(s, given, m, NormalizePow2(Resolve(s, given)))

\* AddDelNextHop's early return when the next hop to delete is not there.
NotFoundOk(s) == [s |-> s, newAdj |-> AdjMiss, ok |-> TRUE]

NotFound(s) == [s |-> s, newAdj |-> AdjMiss, ok |-> FALSE]

AddRef(s, a, d) == IF a = AdjNil THEN s ELSE [s EXCEPT !.mp[a].refCount = @ + d]

\* addDelHelper after createMpAdj returned c: move the reference from old
\* to c's block when they differ, free old when nothing refers to it.
MoveRef(c, old) ==
  IF c.adj # old THEN AddRef(AddRef(c.s, old, -1), c.adj, 1) ELSE c.s

FreeUnused(s2, old, new) ==
  [s |-> IF old # AdjNil /\ s2.mp[old].refCount = 0 THEN Free(s2, old) ELSE s2,
   adj |-> new]

AddDelHelperWith(c, old) == FreeUnused(MoveRef(c, old), old, c.adj)

\* addDelHelper(newNhs, old): create the new block, then move the reference.
AddDelHelper(s, newNhs, old, m) ==
  AddDelHelperWith(IF Len(newNhs) > 0 THEN CreateMpAdj(s, newNhs, m)
                   ELSE [s |-> s, adj |-> AdjNil], old)

\* The result of AddDelNextHop when addDelHelper ran and returned h.
Helped(h, ok) == [s |-> h.s, newAdj |-> h.adj, ok |-> ok \/ h.adj # AdjNil]

\* AddDelNextHop(oldAdj, nhAdj, w, isDel): edit old's given next hops.
AddDelNextHop(s, oldAdj, nh, w, isDel, m) ==
  LET old == IF oldAdj \notin {AdjNil, AdjMiss} /\ IsMp(s, oldAdj) THEN oldAdj ELSE AdjNil
      nhs == IF old # AdjNil THEN s.mp[old].given ELSE <<>>
      nnh == Len(nhs)
      f0 == Find(nhs, nh)
      viaMp == old # AdjNil /\ f0 > nnh /\ IsMp(s, nh) /\ isDel
               /\ Len(s.mp[nh].resolved) = 1
      nhi == IF viaMp THEN Find(nhs, s.mp[nh].resolved[1].adj) ELSE f0
      ok == nhi <= nnh
      \* newNhs[:nnh+1] of the scratch vector with the old next hops copied
      \* in: a changed weight leaves element nnh as earlier calls left it.
      newNhs == IF isDel THEN RemoveAt(nhs, nhi)
                ELSE IF ok THEN Append([nhs EXCEPT ![nhi].weight = w], CacheAt(s.cache, nnh + 1))
                ELSE Append(nhs, NextHop(nh, w))
  IN  CASE old # AdjNil /\ isDel /\ ~ok /\ oldAdj = nh ->
             [s |-> AddRef(s, old, -1), newAdj |-> AdjNil, ok |-> TRUE]
        [] isDel /\ ~ok -> NotFound(s)
        [] ~isDel /\ ok /\ nhs[nhi].weight = w -> [s |-> s, newAdj |-> oldAdj, ok |-> TRUE]
        [] OTHER -> Helped(AddDelHelper([s EXCEPT !.cache = Overwrite(@, newNhs)],
                                        newNhs, old, m), ok)

\* ReplaceNextHop(ai, from, to): rewrite from to to in ai's given next hops
\* (in the heap block itself) and rebuild with addDelHelper; err stays nil
\* (to is a rewrite, and the self-protection paths return nil).
ReplaceNextHop(s, ai, from, to, m) ==
  LET given == s.mp[ai].given
      i == Find(given, from)
      given2 == [given EXCEPT ![i].adj = to]
  IN  IF from = to \/ ~IsMp(s, ai) \/ i > Len(given) THEN [s |-> s, newAdj |-> ai, ok |-> TRUE]
      ELSE LET h == AddDelHelper([s EXCEPT !.mp[ai].given = given2], given2, ai, m)
           IN  [s |-> h.s, newAdj |-> h.adj, ok |-> TRUE]

\* AddNextHopsAdj(nhs) after createMpAdj returned c for the connected
\* next hops newNhs: the new block gets one reference.
AddNextHopsAdjWith(s, nhs, newNhs, c) ==
  CASE nhs = <<>> -> [s |-> s, newAdj |-> AdjNil, ok |-> FALSE]
    [] newNhs = <<>> -> [s |-> s, newAdj |-> AdjNil, ok |-> TRUE]
    [] c.adj = AdjNil -> [s |-> c.s, newAdj |-> AdjNil, ok |-> FALSE]
    [] OTHER -> [s |-> AddRef(c.s, c.adj, 1), newAdj |-> c.adj, ok |-> TRUE]

\* AddNextHopsAdj(nhs): a block for the connected (single rewrite) next hops.
AddNextHopsAdj(s, nhs, m) ==
  LET newNhs == SelectSeq(nhs, LAMBDA x : ConnectedRoute(s, x.adj))
  IN  AddNextHopsAdjWith(s, nhs, newNhs,
                         IF newNhs = <<>> THEN [s |-> s, adj |-> AdjNil]
                         ELSE CreateMpAdj(s, newNhs, m))

DelNextHopsAdjFreeAlways(s, oldAdj) ==
  IF ~IsMp(s, oldAdj) THEN s ELSE Free(AddRef(s, oldAdj, -1), oldAdj)

\* DelNextHopsAdj(oldAdj): drop one reference, free at zero.
DelNextHopsAdj(s, oldAdj) ==
  LET s1 == AddRef(s, oldAdj, -1)
  IN  IF ~IsMp(s, oldAdj) THEN s
      ELSE IF s1.mp[oldAdj].refCount = 0 THEN Free(s1, oldAdj) ELSE s1
-----------------------------------------------------------------------------
(* The route calls.  A call that has to make a block takes a free block   *)
(* index m (the adjacency heap and the pool are outside the repository).  *)

S == [mp |-> mp, hash |-> hash, cache |-> cache, used |-> used, kind |-> kind,
      hooks |-> hooks, counter |-> counter]
FreeIds == MpIds \ used
Adjs(nhs) == {nhs[i].adj : i \in DOMAIN nhs}

\* The RIB's view of p after setting nh's weight to w, or deleting nh.
SetNh(nhs, nh, w) ==
  IF nh \in Adjs(nhs) THEN [nhs EXCEPT ![Find(nhs, nh)].weight = w]
  ELSE Append(nhs, NextHop(nh, w))

\* The heap after a call returned s; a freed or new index starts a new life.
SetHeap(s) ==
  /\ mp' = s.mp
  /\ hash' = s.hash
  /\ cache' = s.cache
  /\ used' = s.used
  /\ kind' = s.kind
  /\ hooks' = s.hooks
  /\ counter' = s.counter

Apply(r, p, in) ==
  /\ SetHeap(r.s)
  /\ route' = [route EXCEPT ![p] = IF r.ok THEN r.newAdj ELSE @]
  /\ intent' = [intent EXCEPT ![p] = IF r.ok THEN in ELSE @]
  /\ ops' = ops + 1
  /\ UNCHANGED hops

\* adjacencyInit: the heap's first three adjacencies are miss, drop and
\* punt, each told to the add hooks.  Unallocated heap memory is zero, a
\* miss.
SpecialKind == (AdjMiss :> "miss") @@ (AdjDrop :> "drop") @@ (AdjPunt :> "punt")

AdjacencyInit ==
  [mp |-> [a \in MpIds |-> NoMp], hash |-> {}, cache |-> <<>>, used |-> Specials,
   kind |-> [a \in Heap |-> IF a \in Specials THEN SpecialKind[a] ELSE "miss"],
   hooks |-> [a \in Heap |-> IF a \in Specials THEN 1 ELSE 0],
   counter |-> [a \in Heap |-> 0]]

\* The FIB's adding of leaf a: NewAdj, a rewrite, the add hooks.
AddLeaf(s, a) == CallAdjHooks([NewAdj(s, a) EXCEPT !.kind[a] = "rewrite"], a, FALSE)

\* After adjacencyInit the FIB has added every leaf.
Init ==
  LET s == FoldSet(LAMBDA a, acc : AddLeaf(acc, a), AdjacencyInit, Leaves)
  IN  /\ mp = s.mp
      /\ hash = s.hash
      /\ cache = s.cache
      /\ used = s.used
      /\ kind = s.kind
      /\ hooks = s.hooks
      /\ counter = s.counter
      /\ route = [p \in IpPrefixes |-> AdjNil]
      /\ intent = [p \in IpPrefixes |-> <<>>]
      /\ ops = 0
      /\ hops = 0

\* The FIB adds a next hop to p, or changes its weight.
RouteAddNextHop(p) ==
  /\ ops < MaxOps
  /\ \E nh \in NhAdjs \cap used, w \in Weights, m \in FreeIds :
       Apply(AddDelNextHop(S, route[p], nh, w, FALSE, m), p, SetNh(intent[p], nh, w))

\* The FIB deletes one of p's next hops.
RouteDelNextHop(p) ==
  /\ ops < MaxOps
  /\ \E nh \in Adjs(intent[p]), m \in FreeIds :
       Apply(AddDelNextHop(S, route[p], nh, 1, TRUE, m), p,
             RemoveAt(intent[p], Find(intent[p], nh)))

\* The FIB moves p from next hop from to next hop to.
RouteReplaceNextHop(p) ==
  /\ ops < MaxOps
  /\ route[p] # AdjNil
  /\ \E from \in Adjs(intent[p]), to \in (NhAdjs \cap used) \ Adjs(intent[p]), m \in FreeIds :
       Apply(ReplaceNextHop(S, route[p], from, to, m), p,
                 [intent[p] EXCEPT ![Find(intent[p], from)].adj = to])

\* The FIB installs p with a list of next hops, some of them perhaps
\* deleted leaves or, when RibAdjs has it, the drop adjacency.
RouteAddNextHops(p) ==
  /\ ops < MaxOps
  /\ route[p] = AdjNil
  /\ \E a \in RibAdjs, b \in RibAdjs, w \in Weights, m \in FreeIds :
       LET nhs == IF a = b THEN <<NextHop(a, w)>> ELSE <<NextHop(a, w), NextHop(b, 1)>>
       IN  Apply(AddNextHopsAdj(S, nhs, m), p, nhs)

\* The FIB deletes p.
RouteDelete(p) ==
  /\ ops < MaxOps
  /\ route[p] # AdjNil
  /\ Apply([s |-> DelNextHopsAdj(S, route[p]), newAdj |-> AdjNil, ok |-> TRUE], p, <<>>)

\* The FIB adds the adjacency of a neighbour it learnt: leaf a.
LeafAdd(a) ==
  /\ hops < MaxHeapOps
  /\ a \notin used
  /\ SetHeap(AddLeaf(S, a))
  /\ hops' = hops + 1
  /\ UNCHANGED <<route, intent, ops>>

\* The FIB deletes leaf a (DelAdj) once no route's RIB entry names it.
LeafDel(a) ==
  /\ hops < MaxHeapOps
  /\ a \in used
  /\ \A p \in IpPrefixes : a \notin Adjs(intent[p])
  /\ SetHeap(DelAdj(S, a))
  /\ hops' = hops + 1
  /\ UNCHANGED <<route, intent, ops>>

\* A packet is forwarded through adjacency a: its counter counts it.
Forward(a) ==
  /\ hops < MaxHeapOps
  /\ a \in used
  /\ counter' = [counter EXCEPT ![a] = @ + 1]
  /\ hops' = hops + 1
  /\ UNCHANGED <<mp, hash, route, intent, ops, cache, used, kind, hooks>>

\* ClearAdjCounters: every thread's counters are cleared.
ClearAdjCounters ==
  /\ hops < MaxHeapOps
  /\ counter' = [a \in Heap |-> 0]
  /\ hops' = hops + 1
  /\ UNCHANGED <<mp, hash, route, intent, ops, cache, used, kind, hooks>>

Next ==
  \/ \E p \in IpPrefixes :
       \/ RouteAddNextHop(p) \/ RouteDelNextHop(p) \/ RouteReplaceNextHop(p)
       \/ RouteAddNextHops(p) \/ RouteDelete(p)
  \/ \E a \in Leaves : LeafAdd(a) \/ LeafDel(a)
  \/ \E a \in Leaves \cup MpIds : Forward(a)
  \/ ClearAdjCounters

Spec == Init /\ [][Next]_vars

TypeOK ==
  /\ \A a \in MpIds : mp[a].refCount \in Nat /\ mp[a].nAdj \in Nat
                      /\ mp[a].valid \in BOOLEAN
  /\ route \in [IpPrefixes -> MpIds \cup {AdjNil}]
  /\ cache \in Seq([adj : NhAdjs \cup {AdjMiss}, weight : Weights \cup {0}])
  /\ ops \in 0..MaxOps
  /\ used \subseteq Heap /\ kind \in [Heap -> Kinds] /\ hooks \in [Heap -> Int]
  /\ counter \in [Heap -> Nat] /\ hops \in 0..MaxHeapOps
=============================================================================
