------------------------------ MODULE MCVnetRun ------------------------------
(***************************************************************************)
(* Model-checking harness for VnetRun: the order in which the packages'   *)
(* Init and Exit run, and whether vnet.Run returns once the process is    *)
(* told to stop.                                                           *)
(***************************************************************************)
EXTENDS VnetRun

CONSTANTS pa, pb, pc

\* Package a must be initialized before package b, by what the init
\* functions declared: b.DependsOn(a) or a.DependedOnBy(b).
MustPrecede(a, b) ==
  \/ [typ |-> Forward, name |-> a] \in depMap[b]
  \/ [typ |-> Anti, name |-> b] \in depMap[a]

\* InitPackages calls Init of a package only after the Init of everything
\* it was declared to depend on, and of nothing declared to depend on it:
\* the resolution loop must turn each DependsOn into a Deps edge and each
\* DependedOnBy into an AntiDeps edge, the right way round.
InitRespectsDeps ==
  \A i, j \in DOMAIN inited : i < j => ~MustPrecede(inited[j], inited[i])

\* ExitPackages tears the packages down in dependency order: no package's
\* Exit runs before the Exit of a package declared to depend on it
\* (b.DependsOn(a) or a.DependedOnBy(b): b exits first).  It holds only if
\* the declarations became the right edges, elib ordered by them, and
\* ExitPackages walks that order with IndexReverse.
ExitRespectsDeps ==
  \A i, j \in DOMAIN exited : i < j => ~MustPrecede(exited[i], exited[j])

\* Once StopCh is closed (a signal, or a call of Quit), Run returns or the
\* process panics: the loop ends, ExitPackages runs, and every goroutine
\* that did WG.Add(1) sees StopCh and calls WG.Done, so Run's deferred
\* WG.Wait returns.
StopReturns ==
  stopClosed ~> (returned \/ ~Alive)

\* Once ExitPackages has returned, Run returns unless a panic ends the
\* process first (vnet.Run: the loop ended, ExitPackages ran, and WG.Wait
\* waits only for goroutines that will end).
RunReturnsAfterExit ==
  (phase = "done") ~> (returned \/ crashed)
=============================================================================
