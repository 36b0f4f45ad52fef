-------------------------- MODULE RadioEventBridge --------------------------
(***************************************************************************)
(* RadioEventBridge: an observer of radios and transports that queues an   *)
(* event for each notification.  What a notification lends is valid during *)
(* the callback only, so an event's members are copies made in its         *)
(* constructor; they are const, so an event does not change once queued.   *)
(*                                                                         *)
(* The notifications are made by the modules that extend this one, which   *)
(* call Observe.  The registration behind a handle and the dispatch of     *)
(* queued events belong to other libraries; a source is subscribed to once *)
(* until Shutdown.                                                         *)
(***************************************************************************)
EXTENDS Naturals, Sequences

CONSTANT Source   \* the radios and transports there are

VARIABLES handles,   \* _handles: the sources subscribed to
          queued,    \* history: the events queued, in order
          failed     \* history: notifications for which no event could be made

bridgeVars == <<handles, queued, failed>>

BridgeInit ==
    /\ handles = {}
    /\ queued = <<>>
    /\ failed = 0

\* Subscribe, where it returns TRUE; if not, nothing has changed.
Subscribe(source) ==
    /\ source \notin handles
    /\ handles' = handles \union {source}
    /\ UNCHANGED <<queued, failed>>

Shutdown ==
    /\ handles' = {}
    /\ UNCHANGED <<queued, failed>>

\* What becomes of a notification by source: the callback for it makes an event
\* and queues it, or there is no memory for it and Notify... takes the
\* exception, or the bridge is not subscribed.
Observe(source, event) ==
    /\ IF source \in handles
       THEN \/ queued' = Append(queued, event) /\ UNCHANGED failed
            \/ failed' = failed + 1 /\ UNCHANGED queued
       ELSE UNCHANGED <<queued, failed>>
    /\ UNCHANGED handles
=============================================================================
