---------------------------- MODULE MCXethEvents ----------------------------
EXTENDS XethEvents, TLC

CONSTANTS e1, e2, e3, e4, h1, h2

MCEventIds == {e1, e2, e3, e4}
MCHooks == {h1, h2}

(***************************************************************************)
(* No buffer is lost, duplicated or reordered between RxCh and the hooks   *)
(* while goevents runs: what EventAction has handled, then the events      *)
(* queued for the loop, then the event goevents holds, is exactly the      *)
(* stream xeth sent — the pooled *event objects signal() hands over and    *)
(* EventAction recycles are never shared.  After goevents returns, only a *)
(* tail of the stream (its held event) may be missing.  Every hook has    *)
(* been called with exactly the buffers handled since AddRxMsgHook.        *)
(***************************************************************************)
StreamConserved ==
  /\ running => handled \o Queued \o bufs[cur] = Stream
  /\ IsPrefix(handled \o Queued, Stream)
  /\ \A h \in hooks :
       seen[h] = SubSeq(handled, regAt[h] + 1, Len(handled))

(***************************************************************************)
(* Every buffer goevents took from RxCh reaches the hooks even when no    *)
(* more traffic fills its event: the ticker flushes a partial batch within *)
(* one period.  Only a StopCh or RxCh close may strand it.                *)
(***************************************************************************)
RxDelivered ==
  \A m \in 1..MaxMsgs :
    (sent >= m) ~> (m \in ToSet(handled) \/ ~running)
=============================================================================
