------------------------------- MODULE VnetRun -------------------------------
(***************************************************************************)
(* The process life cycle around the package registry (src/vnet.go): Init *)
(* starts the signal goroutine, Run drives the packages through           *)
(* InitPackages, the loop and ExitPackages and then waits on WG, and Quit  *)
(* closes StopCh and quits the loop.  Goroutines follow the convention of *)
(* vnet.go's comments: WG.Add(1) and defer WG.Done() inside the goroutine, *)
(* return once StopCh is closed.  Besides the signal goroutine the model  *)
(* has goevents (src/devices/vnetxeth/event.go), which the xeth package's *)
(* Init starts.                                                            *)
(*                                                                         *)
(* The loop is elib's: it ends when loop.Quit was called or, with "vnet    *)
(* quit" configured, when QuitAfterDuration expires; a Quit before the    *)
(* loop runs is taken to be remembered.  A signal is delivered only once   *)
(* signal.Notify is set up; Quit is also exported to callers outside the   *)
(* repository.  A panic (close of a closed channel, Packages' "panic")     *)
(* ends the process.                                                       *)
(***************************************************************************)
EXTENDS Packages

CONSTANTS
  XethPkg,      \* the package whose Init starts goevents
  QuitCfgs,     \* the values "vnet quit" in the configuration may give
  MaxSignals,   \* SIGTERM/SIGINT deliveries
  MaxApiQuits   \* calls of the exported Quit

VARIABLES
  sig,          \* Init's signal goroutine: "spawned", "running", "exited"
  evt,          \* goevents: "none", "spawned", "running", "exited"
  wg,           \* the WaitGroup counter
  stopClosed,   \* vnet.stopch closed
  loopQuit,     \* loop.Quit called
  quitAfter,    \* Config.QuitAfterDuration set by "vnet quit"
  signals,      \* signals delivered
  apiQuits,     \* exported Quit calls made
  returned,     \* Run returned
  crashed       \* the process panicked outside Packages

life == <<sig, evt, wg, stopClosed, loopQuit, quitAfter, signals, apiQuits,
          returned, crashed>>
allVars == <<vars, life>>

\* Quit: close(vnet.stopch), then vnet.loop.Quit().  A second close panics.
Quit ==
  IF stopClosed
  THEN /\ crashed' = TRUE
       /\ UNCHANGED <<stopClosed, loopQuit>>
  ELSE /\ stopClosed' = TRUE
       /\ loopQuit' = TRUE
       /\ UNCHANGED crashed

\* The goroutine of Init, first statement: WG.Add(1).
SigAdd ==
  /\ sig = "spawned"
  /\ sig' = "running"
  /\ wg' = wg + 1
  /\ UNCHANGED <<evt, stopClosed, loopQuit, quitAfter, signals, apiQuits,
                 returned, crashed>>
  /\ UNCHANGED vars

\* Its select takes <-StopCh: return, WG.Done().
SigStop ==
  /\ sig = "running"
  /\ stopClosed
  /\ sig' = "exited"
  /\ wg' = wg - 1
  /\ UNCHANGED <<evt, stopClosed, loopQuit, quitAfter, signals, apiQuits,
                 returned, crashed>>
  /\ UNCHANGED vars

\* Its select takes <-sigch: Quit(), return, WG.Done().
SigTerm ==
  /\ sig = "running"
  /\ signals < MaxSignals
  /\ signals' = signals + 1
  /\ Quit
  /\ sig' = "exited"
  /\ wg' = wg - 1
  /\ UNCHANGED <<evt, quitAfter, apiQuits, returned>>
  /\ UNCHANGED vars

\* goevents, first statement: vnet.WG.Add(1).
EvtAdd ==
  /\ evt = "spawned"
  /\ evt' = "running"
  /\ wg' = wg + 1
  /\ UNCHANGED <<sig, stopClosed, loopQuit, quitAfter, signals, apiQuits,
                 returned, crashed>>
  /\ UNCHANGED vars

\* Mutant: goevents never leaves its loop on StopCh.
EvtStopIgnored == FALSE

\* Mutant: goevents' deferred WG.Done reached on a path that skipped its
\* WG.Add(1) (the goroutine sees StopCh closed before it registers).
EvtStopBeforeAdd ==
  /\ evt \in {"spawned", "running"}
  /\ stopClosed
  /\ evt' = "exited"
  /\ wg' = wg - 1
  /\ UNCHANGED <<sig, stopClosed, loopQuit, quitAfter, signals, apiQuits,
                 returned, crashed>>
  /\ UNCHANGED vars

\* goevents' select takes <-vnet.StopCh (xeth closes RxCh on the same
\* channel, the other way out): return, vnet.WG.Done().
EvtStop ==
  /\ evt = "running"
  /\ stopClosed
  /\ evt' = "exited"
  /\ wg' = wg - 1
  /\ UNCHANGED <<sig, stopClosed, loopQuit, quitAfter, signals, apiQuits,
                 returned, crashed>>
  /\ UNCHANGED vars

\* A caller outside the repository calls the exported Quit.
ApiQuit ==
  /\ apiQuits < MaxApiQuits
  /\ apiQuits' = apiQuits + 1
  /\ Quit
  /\ UNCHANGED <<sig, evt, wg, quitAfter, signals, returned>>
  /\ UNCHANGED vars

(***************************************************************************)
(* ConfigurePackages: the configuration's package sections go to each     *)
(* package's Configure (a panic there is recovered into an error), "vnet" *)
(* sections to Configure, where "quit" sets QuitAfterDuration; anything   *)
(* else is a parse error.  The parsing is abstracted to its outcome:      *)
(* whether "vnet quit" was given, or an error.                             *)
(***************************************************************************)
ConfigurePackages(ok) ==
  IF ok THEN \E q \in QuitCfgs : quitAfter' = q
        ELSE UNCHANGED quitAfter

\* The loop's init hook: vnetConfigure runs ConfigurePackages, then, if it
\* succeeded, InitPackages' resolution; an error panics the hook.
RunConfigure ==
  /\ phase = "register"
  /\ \E ok \in BOOLEAN :
       /\ ConfigurePackages(ok)
       /\ IF ok THEN InitPackages
               ELSE /\ phase' = "panic"
                    /\ UNCHANGED <<packages, depMap, decls, edges, order,
                                   inited, exited>>
  /\ UNCHANGED <<sig, evt, wg, stopClosed, loopQuit, signals, apiQuits,
                 returned, crashed>>

\* One Init call; the xeth package's successful Init ends with go goevents().
RunInitNext ==
  /\ InitNext
  /\ evt' = IF Len(inited') > Len(inited) /\ Last(inited') = XethPkg
            THEN "spawned" ELSE evt
  /\ UNCHANGED <<sig, wg, stopClosed, loopQuit, quitAfter, signals, apiQuits,
                 returned, crashed>>

\* vnet.loop.Run() returns: after loop.Quit, or when QuitAfterDuration
\* expires.
RunLoopEnd ==
  /\ loopQuit \/ quitAfter
  /\ LoopRun
  /\ UNCHANGED life

RunExitNext ==
  /\ ExitNext
  /\ UNCHANGED life

RunExitDone ==
  /\ ExitDone
  /\ UNCHANGED life

\* Run's deferred WG.Wait() returns once the counter is zero.
RunReturn ==
  /\ phase = "done"
  /\ ~returned
  /\ wg = 0
  /\ returned' = TRUE
  /\ UNCHANGED <<sig, evt, wg, stopClosed, loopQuit, quitAfter, signals,
                 apiQuits, crashed>>
  /\ UNCHANGED vars

RunRegister ==
  /\ \/ \E n \in Names : AddPackage(n)
     \/ \E n, d \in Names : DependsOn(n, d) \/ DependedOnBy(n, d)
  /\ UNCHANGED life

VInit ==
  /\ Init
  /\ sig = "spawned"
  /\ evt = "none"
  /\ wg = 0
  /\ stopClosed = FALSE
  /\ loopQuit = FALSE
  /\ quitAfter = FALSE
  /\ signals = 0
  /\ apiQuits = 0
  /\ returned = FALSE
  /\ crashed = FALSE

\* The process is alive: no panic has ended it.
Alive == ~crashed /\ phase # "panic"

VNext ==
  /\ Alive
  /\ \/ SigAdd \/ SigStop \/ SigTerm \/ EvtAdd \/ EvtStop \/ ApiQuit
     \/ RunRegister \/ RunConfigure \/ RunInitNext \/ RunLoopEnd
     \/ RunExitNext \/ RunExitDone \/ RunReturn

\* The Go scheduler runs every runnable goroutine, and the loop and Run
\* keep going; registrations, signals and outside Quit calls may never
\* come, so they are not fair.
Fairness ==
  /\ WF_allVars(Alive /\ SigAdd) /\ WF_allVars(Alive /\ SigStop)
  /\ WF_allVars(Alive /\ EvtAdd) /\ WF_allVars(Alive /\ EvtStop)
  /\ WF_allVars(Alive /\ RunConfigure) /\ WF_allVars(Alive /\ RunInitNext)
  /\ WF_allVars(Alive /\ RunLoopEnd) /\ WF_allVars(Alive /\ RunExitNext)
  /\ WF_allVars(Alive /\ RunExitDone) /\ WF_allVars(Alive /\ RunReturn)

VSpec == VInit /\ [][VNext]_allVars /\ Fairness

VTypeOK ==
  /\ TypeOK
  /\ sig \in {"spawned", "running", "exited"}
  /\ evt \in {"none", "spawned", "running", "exited"}
  /\ wg \in 0..2
  /\ {stopClosed, loopQuit, quitAfter, returned, crashed} \subseteq BOOLEAN
  /\ signals \in 0..MaxSignals
  /\ apiQuits \in 0..MaxApiQuits
=============================================================================
