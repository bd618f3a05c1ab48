------------------------------ MODULE XethEvents ------------------------------
(***************************************************************************)
(* The xeth message batcher (src/devices/vnetxeth/event.go).  goevents     *)
(* takes buffers from xeth's RxCh and appends them to the event it holds;  *)
(* a full event, or any non-empty one (or an empty one after `wakeup`) on *)
(* a ticker period, is handed to the vnet loop by signal(), which also    *)
(* takes a fresh event from the sync.Pool.  The loop later runs           *)
(* EventAction: under rxmsg's lock it gives every buffer to every hook     *)
(* and puts the event back in the pool.  AddRxMsgHook appends a hook under *)
(* the same lock.                                                          *)
(*                                                                         *)
(* Buffers are numbered 1..MaxMsgs in the order xeth sends them; events   *)
(* are the pooled objects EventIds.  The loop's event queue is FIFO.      *)
(***************************************************************************)
EXTENDS Naturals, Sequences, SequencesExt, FiniteSets

CONSTANTS
  MaxMsgs,      \* buffers xeth sends on RxCh
  Cap,          \* cap(event.bufs) (1024 in the code)
  WakeupTicks,  \* wakeup / period (20s / 100ms in the code)
  EventIds,     \* the *event objects sync.Pool can hand out
  Hooks         \* callers of AddRxMsgHook

VARIABLES
  sent,         \* buffers xeth has put on RxCh
  rxClosed,     \* xeth closed RxCh
  stopClosed,   \* vnet.StopCh closed
  running,      \* goevents has not returned
  cur,          \* the event goevents holds
  bufs,         \* event -> its bufs
  pool,         \* the events in eventPool
  queue,        \* events signalled to the loop, not yet run
  idle,         \* goevents' idle, in ticker periods
  handled,      \* buffers EventAction has given to the hooks, in order
  hooks,        \* this.rxmsg.hooks, as the set registered
  regAt,        \* hook -> Len(handled) when it was registered
  seen          \* hook -> the buffers it was called with

vars == <<sent, rxClosed, stopClosed, running, cur, bufs, pool, queue, idle,
          handled, hooks, regAt, seen>>

\* The buffers of the events queued for the loop, in queue order.
Queued == FlattenSeq([i \in 1..Len(queue) |-> bufs[queue[i]]])

\* The stream xeth has sent so far.
Stream == [i \in 1..sent |-> i]

(***************************************************************************)
(* event.signal(): vnet.SignalEvent(event), then newEvent() — Get from    *)
(* the pool (an object put back, or a New one) and reset.  The result is   *)
(* the event goevents holds next.                                          *)
(***************************************************************************)
SignalKeepsEvent(b) ==
  /\ queue' = Append(queue, cur)
  /\ bufs' = b
  /\ UNCHANGED <<cur, pool>>

Signal(b) ==
  /\ queue' = Append(queue, cur)
  /\ \E e \in pool :
       /\ cur' = e
       /\ pool' = pool \ {e}
       /\ bufs' = [b EXCEPT ![e] = <<>>]

\* case buf, ok := <-RxCh with ok: append; signal when the event is full.
Recv ==
  /\ running /\ ~rxClosed
  /\ sent < MaxMsgs
  /\ sent' = sent + 1
  /\ LET b == [bufs EXCEPT ![cur] = Append(@, sent + 1)]
     IN IF Len(b[cur]) = Cap
        THEN Signal(b) /\ idle' = 0
        ELSE bufs' = b /\ UNCHANGED <<cur, pool, queue, idle>>
  /\ UNCHANGED <<rxClosed, stopClosed, running, handled, hooks, regAt, seen>>

\* Mutant: the ticker case only counts idle periods.
TickNeverSignals ==
  /\ running
  /\ idle' = IF idle + 1 > WakeupTicks THEN 0 ELSE idle + 1
  /\ UNCHANGED <<cur, pool, queue, bufs, sent, rxClosed, stopClosed, running,
                 handled, hooks, regAt, seen>>

\* Mutant: idle is not reset when the ticker signals.
TickNoReset ==
  /\ running
  /\ IF Len(bufs[cur]) > 0 \/ idle + 1 > WakeupTicks
     THEN Signal(bufs) /\ idle' = idle + 1
     ELSE idle' = idle + 1 /\ UNCHANGED <<cur, pool, queue, bufs>>
  /\ UNCHANGED <<sent, rxClosed, stopClosed, running, handled, hooks, regAt,
                 seen>>

\* case <-ticker.C: idle += period; signal a non-empty event, or an empty
\* one after wakeup.
Tick ==
  /\ running
  /\ IF Len(bufs[cur]) > 0 \/ idle + 1 > WakeupTicks
     THEN Signal(bufs) /\ idle' = 0
     ELSE idle' = idle + 1 /\ UNCHANGED <<cur, pool, queue, bufs>>
  /\ UNCHANGED <<sent, rxClosed, stopClosed, running, handled, hooks, regAt,
                 seen>>

\* case <-vnet.StopCh, or RxCh closed (!ok): return.  The held event and
\* its bufs are dropped.
Return ==
  /\ running
  /\ stopClosed \/ rxClosed
  /\ running' = FALSE
  /\ UNCHANGED <<sent, rxClosed, stopClosed, cur, bufs, pool, queue, idle,
                 handled, hooks, regAt, seen>>

\* vnet.Quit closes StopCh; xeth closes RxCh when its task ends.
CloseStop ==
  /\ ~stopClosed
  /\ stopClosed' = TRUE
  /\ UNCHANGED <<sent, rxClosed, running, cur, bufs, pool, queue, idle,
                 handled, hooks, regAt, seen>>

CloseRx ==
  /\ ~rxClosed
  /\ rxClosed' = TRUE
  /\ UNCHANGED <<sent, stopClosed, running, cur, bufs, pool, queue, idle,
                 handled, hooks, regAt, seen>>

(***************************************************************************)
(* The loop runs the oldest event: EventAction, holding rxmsg's lock,    *)
(* calls every hook with every buffer (the eventActions statistic is left *)
(* out), then event.pool() resets the event and puts it back.             *)
(***************************************************************************)
EventAction ==
  /\ queue # <<>>
  /\ LET e == Head(queue) IN
       /\ handled' = handled \o bufs[e]
       /\ seen' = [h \in Hooks |-> IF h \in hooks THEN seen[h] \o bufs[e]
                                                  ELSE seen[h]]
       /\ bufs' = [bufs EXCEPT ![e] = <<>>]
       /\ pool' = pool \cup {e}
       /\ queue' = Tail(queue)
  /\ UNCHANGED <<sent, rxClosed, stopClosed, running, cur, idle, hooks,
                 regAt>>

\* AddRxMsgHook, under the lock EventAction holds.
AddRxMsgHook(h) ==
  /\ h \notin hooks
  /\ hooks' = hooks \cup {h}
  /\ regAt' = [regAt EXCEPT ![h] = Len(handled)]
  /\ UNCHANGED <<sent, rxClosed, stopClosed, running, cur, bufs, pool, queue,
                 idle, handled, seen>>

\* goevents starts holding newEvent(); every other object is the pool's.
Init ==
  /\ sent = 0 /\ rxClosed = FALSE /\ stopClosed = FALSE /\ running = TRUE
  /\ cur \in EventIds
  /\ pool = EventIds \ {cur}
  /\ bufs = [e \in EventIds |-> <<>>]
  /\ queue = <<>>
  /\ idle = 0
  /\ handled = <<>>
  /\ hooks = {}
  /\ regAt = [h \in Hooks |-> 0]
  /\ seen = [h \in Hooks |-> <<>>]

Next ==
  \/ Recv \/ Tick \/ Return \/ CloseStop \/ CloseRx \/ EventAction
  \/ \E h \in Hooks : AddRxMsgHook(h)

\* The ticker fires while goevents waits, and the loop runs queued events.
\* xeth's sends, Quit and hook registrations are the environment's.
Spec == Init /\ [][Next]_vars /\ WF_vars(Tick) /\ WF_vars(EventAction)

TypeOK ==
  /\ sent \in 0..MaxMsgs
  /\ {rxClosed, stopClosed, running} \subseteq BOOLEAN
  /\ cur \in EventIds
  /\ bufs \in [EventIds -> Seq(1..MaxMsgs)]
  /\ pool \subseteq EventIds
  /\ queue \in Seq(EventIds)
  /\ idle \in 0..WakeupTicks
  /\ handled \in Seq(1..MaxMsgs)
  /\ hooks \subseteq Hooks
  /\ regAt \in [Hooks -> 0..MaxMsgs]
  /\ seen \in [Hooks -> Seq(1..MaxMsgs)]
=============================================================================
