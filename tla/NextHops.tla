------------------------------ MODULE NextHops ------------------------------
(***************************************************************************)
(* The pure next hop algorithms of src/ip/adjacency.go: the order of next  *)
(* hops (nextHop.compare, nextHopVec.sort), sum_duplicates, and            *)
(* normalizePow2, which turns weights into a power-of-two block of         *)
(* adjacencies within the multipath error tolerance.                       *)
(*                                                                         *)
(* A next hop is [adj, weight].  normalizePow2 computes in float64; here   *)
(* the rounding uint(nf + .5) and the test error < .01 are done on exact   *)
(* rationals.  The two agree unless nAdj * W / S is an exact half with S   *)
(* not a power of two, or the error equals .01 exactly; neither happens    *)
(* for the weights the models use (see README).                            *)
(***************************************************************************)
EXTENDS Naturals, Integers, Sequences, SequencesExt

NextHop(a, w) == [adj |-> a, weight |-> w]

\* nextHop.compare: heavier first, then lower adjacency index.
Compare(a, b) ==
  IF b.weight # a.weight THEN b.weight - a.weight ELSE a.adj - b.adj

\* nextHopVec.Equal, which HashKeyEqual applies to the key a nextHopHash
\* probe lands on: the same length and compare() zero at every position.
NhVecEqual(a, b) ==
  Len(a) = Len(b) /\ \A i \in 1..Len(a) : Compare(a[i], b[i]) = 0

\* nextHopVec.sort (sort.Slice with compare(...) < 0).
SortNhs(s) == SortSeq(s, LAMBDA a, b : Compare(a, b) < 0)

\* sum_duplicates: merge each run of adjacent entries with one adj.
RECURSIVE SumDuplicates(_)
SumDuplicates(s) ==
  IF Len(s) <= 1 THEN s
  ELSE LET r == SumDuplicates(Tail(s))
       IN  IF r[1].adj = s[1].adj
           THEN <<NextHop(s[1].adj, s[1].weight + r[1].weight)>> \o Tail(r)
           ELSE <<s[1]>> \o r

SumWeights(s) == FoldSeq(LAMBDA x, acc : x.weight + acc, 0, s)

\* elib Word.MaxPow2: the least power of two not below n.
RECURSIVE Pow2AtLeast(_, _)
Pow2AtLeast(n, p) == IF p >= n THEN p ELSE Pow2AtLeast(n, 2 * p)
MaxPow2(n) == Pow2AtLeast(n, 1)

\* The inner loop of normalizePow2 for block size nAdj: round each saved
\* weight to nAdj * W / S, capped at what is left; then the leftover goes
\* to the first (heaviest) next hop.
RECURSIVE Apportion(_, _, _, _, _)
Apportion(save, i, nAdj, S, nLeft) ==
  IF i > Len(save) THEN <<nLeft>>
  ELSE LET r == (2 * nAdj * save[i].weight + S) \div (2 * S)
           k == IF r > nLeft THEN nLeft ELSE r
       IN  <<k>> \o Apportion(save, i + 1, nAdj, S, nLeft - k)

AbsDiff(x, y) == IF x >= y THEN x - y ELSE y - x

\* Accept block size nAdj with counts t when sum |W/S - t/nAdj| < 1/100,
\* the normalized next hops stopping at the first zero count; else try
\* twice the size.
RECURSIVE TryPow2(_, _, _)
AcceptPow2(save, S, nAdj, t) ==
  LET n == Len(save)
      err == FoldSeq(LAMBDA d, acc : d + acc, 0,
                     [i \in 1..n |-> AbsDiff(save[i].weight * nAdj, t[i] * S)])
      zeros == {i \in 1..n : t[i] = 0}
      iZero == IF zeros = {} THEN n + 1 ELSE Min(zeros)
  IN  IF 100 * err < S * nAdj
      THEN [nAdj |-> nAdj,
            norm |-> [i \in 1..(iZero - 1) |-> NextHop(save[i].adj, t[i])]]
      ELSE TryPow2(save, S, 2 * nAdj)

\* The counts apportioned for nAdj, the leftover added to the first.
WithLeftover(a) ==
  [i \in 1..(Len(a) - 1) |-> IF i = 1 THEN a[1] + a[Len(a)] ELSE a[i]]

TryPow2(save, S, nAdj) ==
  AcceptPow2(save, S, nAdj, WithLeftover(Apportion(save, 1, nAdj, S, nAdj)))

\* The general case of normalizePow2 on next hops t in block order.
NormalizeSorted(t) ==
  LET n == Len(t)
      save == IF SumWeights(t) = 0 THEN [i \in 1..n |-> NextHop(t[i].adj, 1)] ELSE t
  IN  TryPow2(save, SumWeights(save), MaxPow2(n))

\* Mutant: the n = 2 case keeps the given order (t[0], t[1] = given[0],
\* given[1]) instead of putting the heavier next hop first.
NormalizePow2NoSwap(given) ==
  LET n == Len(given)
  IN  CASE n = 0 -> [nAdj |-> 0, norm |-> <<>>]
        [] n = 1 -> [nAdj |-> 1, norm |-> <<NextHop(given[1].adj, 1)>>]
        [] n = 2 /\ given[1].weight = given[2].weight ->
             [nAdj |-> 2, norm |-> <<NextHop(given[1].adj, 1), NextHop(given[2].adj, 1)>>]
        [] n = 2 -> NormalizeSorted(given)
        [] OTHER -> NormalizeSorted(SortNhs(given))

\* nextHopVec.normalizePow2: the block size and the normalized next hops.
NormalizePow2(given) ==
  LET n == Len(given)
      two == IF n = 2 /\ Compare(given[1], given[2]) > 0
             THEN <<given[2], given[1]>> ELSE given
  IN  CASE n = 0 -> [nAdj |-> 0, norm |-> <<>>]
        [] n = 1 -> [nAdj |-> 1, norm |-> <<NextHop(given[1].adj, 1)>>]
        [] n = 2 /\ two[1].weight = two[2].weight ->
             [nAdj |-> 2, norm |-> <<NextHop(two[1].adj, 1), NextHop(two[2].adj, 1)>>]
        [] n = 2 -> NormalizeSorted(two)
        [] OTHER -> NormalizeSorted(SortNhs(given))
=============================================================================
