---------------------------- MODULE RadioDelivery ----------------------------
(***************************************************************************)
(* RadioReassembly takes ProcessInboundPacket as one step.  Here it is the *)
(* steps of the worker's thread: the slot is found, checked, written and   *)
(* counted one access after another, and a complete message is lent to the *)
(* receiver, then to the observers, before its slot is reset.  Between two *)
(* steps the receiver may call Stop or throw, and an application's thread  *)
(* may subscribe the event bridge, shut it down, or call Stop.             *)
(*                                                                         *)
(* Of Stop only what it does to the slots is here: whom it notifies is in  *)
(* RadioTopology.                                                          *)
(*                                                                         *)
(* SerialSpec keeps the application's Stop out of a pass, ConcurrentSpec   *)
(* does not.  What is checked of the first includes that its passes are    *)
(* the steps of RadioReassembly.                                           *)
(***************************************************************************)
EXTENDS RadioReassembly, RadioEventBridge

CONSTANTS LocalNode,      \* _localNode
          BroadcastNode,  \* RadioTransport::BroadcastNode
          NoFrame,        \* no packet is being processed
          Transport       \* the transport, of which the bridge is an observer

ASSUME DeliveryAssumption ==
    /\ Node = {LocalNode}
    /\ NoNode # LocalNode
    /\ BroadcastNode \notin {LocalNode, NoNode}
    /\ Transport \in Source
    /\ NoFrame \notin Frame

VARIABLES worker,    \* where the worker's thread is, with its locals and, for history, the
                     \* slots and the touch counter its pass began with
          passed,    \* what was given to the receiver or forwarded, in order
          thrown,    \* history: receivers that threw
          unheard    \* history: those of passed that were not notified to the bridge

deliveryVars == <<vars, bridgeVars, worker, passed, thrown, unheard>>

tables == <<recent, recentCursor, completed>>
told   == <<bridgeVars, passed, thrown, unheard>>

NoView  == MessageOf(FreeSlot)
Idle    == [pc |-> "idle", frame |-> NoFrame, at |-> 0, view |-> NoView,
            slots |-> [s \in Slot |-> FreeSlot], touch |-> 0]

DeliveryInit ==
    /\ Init
    /\ BridgeInit
    /\ worker = Idle
    /\ passed = <<>>
    /\ thrown = 0
    /\ unheard = {}

At(pc)   == worker.pc = pc
Goto(pc) == worker' = [worker EXCEPT !.pc = pc]
Return   == worker' = Idle

here        == slots[LocalNode][worker.at]
Write(slot) == slots' = [slots EXCEPT ![LocalNode][worker.at] = slot]

-----------------------------------------------------------------------------
(* ProcessInboundPacket.                                                   *)

Accept(h) ==
    /\ At("idle")
    /\ Takes(LocalNode, h)
    /\ TouchOf(LocalNode, h) <= MaxTouch /\ Len(completed[LocalNode]) < MaxCompletions
    /\ worker' = [Idle EXCEPT !.pc = "find", !.frame = h,
                              !.slots = slots[LocalNode], !.touch = touchCounter[LocalNode]]
    /\ UNCHANGED <<vars, told>>

\* FindOrCreateReassembly sets the fields of a slot that is free or was just
\* reset, but not ReceivedCount and LastPayloadBytes: Reset is to have done it.
Opened(slot, h, touch) ==
    [OpenSlot(h, touch) EXCEPT !.received = slot.received, !.last = slot.last]

FindHeld ==
    /\ At("find")
    /\ Holding(LocalNode, worker.frame.key) # {}
    /\ worker' = [worker EXCEPT !.pc = "check", !.at = SlotFor(LocalNode, worker.frame.key)]
    /\ UNCHANGED <<vars, told>>

\* The slot FindOrCreateReassembly takes: a free one, or one it resets.
Candidate == LET slot == slots[LocalNode][SlotFor(LocalNode, worker.frame.key)]
             IN  IF FreeSlots(LocalNode) # {} THEN slot ELSE FreeSlot

Create ==
    /\ At("find")
    /\ Holding(LocalNode, worker.frame.key) = {}
    /\ LET s     == SlotFor(LocalNode, worker.frame.key)
           touch == NextTouch(touchCounter[LocalNode])
       IN  IF TooLarge(LocalNode, worker.frame)
           THEN /\ slots' = [slots EXCEPT ![LocalNode][s] = Candidate]
                /\ UNCHANGED touchCounter
                /\ Return
           ELSE /\ slots' = [slots EXCEPT ![LocalNode][s] = Opened(Candidate, worker.frame, touch)]
                /\ touchCounter' = [touchCounter EXCEPT ![LocalNode] = touch]
                /\ worker' = [worker EXCEPT !.pc = "check", !.at = s]
    /\ UNCHANGED <<tables, told>>

Check ==
    /\ At("check")
    /\ IF here.cnt # worker.frame.cnt \/ here.chunk # worker.frame.chunk
       THEN Write(FreeSlot) /\ Return
       ELSE UNCHANGED slots /\ Goto("touch")
    /\ UNCHANGED <<touchCounter, tables, told>>

\* The slot is touched, then the fragment held against the buffer's size,
\* which is 0 once the slot was reset.
Touch ==
    LET touch == NextTouch(touchCounter[LocalNode])
        h     == worker.frame
    IN  /\ At("touch")
        /\ touchCounter' = [touchCounter EXCEPT ![LocalNode] = touch]
        /\ IF h.idx * h.chunk + h.bytes > Allocation(here.cnt, here.chunk)
           THEN Write(FreeSlot) /\ Return
           ELSE Write([here EXCEPT !.touch = touch]) /\ Goto("store")
        /\ UNCHANGED <<tables, told>>

\* Received is read, and written if the fragment is new.  If the slot was
\* reset the read is past the vector's end and may find either.
Store ==
    LET h      == worker.frame
        inside == h.idx \in DOMAIN here.parts
    IN  /\ At("store")
        /\ \E new \in IF inside THEN {here.parts[h.idx] = NoData} ELSE BOOLEAN :
              /\ Goto(IF new THEN "count" ELSE "finish")
              /\ IF new /\ inside THEN Write([here EXCEPT !.parts[h.idx] = h.data])
                 ELSE UNCHANGED slots
        /\ UNCHANGED <<touchCounter, tables, told>>

Count ==
    /\ At("count")
    /\ Write([here EXCEPT !.received = @ + 1])
    /\ Goto("finish")
    /\ UNCHANGED <<touchCounter, tables, told>>

-----------------------------------------------------------------------------
(* Complete, called when every fragment has been counted.                  *)

Kind(view) == IF view.key.dst \in {LocalNode, BroadcastNode} THEN "received" ELSE "forwarded"

\* Where Complete goes on with the view it has made.
Branch(view) ==
    IF Kind(view) = "received" THEN "receive" ELSE IF view.hop > 0 THEN "forward" ELSE "reset"

\* Broken variant of Complete: the message is remembered when it is dealt with.
CompleteUnremembered(slot) ==
    /\ Write(slot)
    /\ UNCHANGED <<recent, recentCursor>>
    /\ completed' = [completed EXCEPT ![LocalNode] = Append(@, MessageOf(slot))]
    /\ worker' = [worker EXCEPT !.pc = Branch(MessageOf(slot)), !.view = MessageOf(slot)]

\* Up to the branch.  The key of a slot that was reset is all zeros, which the
\* ring may hold from another such slot.
Complete(slot) ==
    \E known \in IF slot.used THEN {IsRecent(LocalNode, slot.key)} ELSE BOOLEAN :
        IF known
        THEN Write(FreeSlot) /\ Return /\ UNCHANGED tables
        ELSE /\ Write(slot)
             /\ Remember(LocalNode, slot.key)
             /\ completed' = [completed EXCEPT ![LocalNode] = Append(@, MessageOf(slot))]
             /\ worker' = [worker EXCEPT !.pc = Branch(MessageOf(slot)), !.view = MessageOf(slot)]

Finish ==
    LET h    == worker.frame
        slot == IF h.idx = h.cnt - 1 THEN [here EXCEPT !.last = h.bytes] ELSE here
    IN  /\ At("finish")
        /\ IF slot.received = slot.cnt THEN Complete(slot)
           ELSE Write(slot) /\ Return /\ UNCHANGED tables
        /\ UNCHANGED <<touchCounter, told>>

PassOn(pc) ==
    /\ passed' = Append(passed, [kind |-> Kind(worker.view), message |-> worker.view])
    /\ Goto(pc)
    /\ UNCHANGED <<vars, bridgeVars, thrown, unheard>>

\* The receiver is called, and has the view until it returns or throws.  Where
\* none is set (:335) it is as if one had returned at once: the message counts
\* as passed on, and the observers are told of it.
Receive == At("receive") /\ PassOn("lent")

\* SendFramed reads the view's bytes for the fragments it sends.
Forward == At("forward") /\ PassOn("notify")

ReceiverReturns ==
    /\ At("lent")
    /\ Goto("notify")
    /\ UNCHANGED <<vars, told>>

\* The exception leaves ProcessInboundPacket and the worker's pass; the thread
\* is taken to go on.
ReceiverThrows ==
    /\ At("lent")
    /\ Return
    /\ thrown' = thrown + 1
    /\ unheard' = unheard \union {Len(passed)}
    /\ UNCHANGED <<vars, bridgeVars, passed>>

\* The receiver calls Stop.
ReceiverStops ==
    /\ At("lent")
    /\ Stop(LocalNode)
    /\ UNCHANGED <<told, worker>>

\* Broken variant of Snapshot: the bytes are taken from the slot.
SnapshotOfSlot(view) == [kind |-> Kind(view), message |-> MessageOf(here)]

\* The event the bridge makes of a notification: a copy of what the view shows.
Snapshot(view) == [kind |-> Kind(view), message |-> view]

Notify ==
    /\ At("notify")
    /\ Observe(Transport, Snapshot(worker.view))
    /\ unheard' = IF Transport \in handles THEN unheard ELSE unheard \union {Len(passed)}
    /\ Goto("reset")
    /\ UNCHANGED <<vars, passed, thrown>>

\* Broken variant of ResetSlot: what was forwarded keeps its slot.
ResetIfReceived ==
    /\ At("reset")
    /\ IF Kind(worker.view) = "received" THEN Write(FreeSlot) ELSE UNCHANGED slots
    /\ Return
    /\ UNCHANGED <<touchCounter, tables, told>>

\* Broken variant of ResetSlot: ReceivedCount stays.
ResetKeepingCount ==
    /\ At("reset")
    /\ Write([FreeSlot EXCEPT !.received = here.received])
    /\ Return
    /\ UNCHANGED <<touchCounter, tables, told>>

ResetSlot ==
    /\ At("reset")
    /\ Write(FreeSlot)
    /\ Return
    /\ UNCHANGED <<touchCounter, tables, told>>

Pass ==
    \/ \E h \in Frame : Accept(h)
    \/ FindHeld \/ Create \/ Check \/ Touch \/ Store \/ Count \/ Finish
    \/ Receive \/ ReceiverReturns \/ ReceiverThrows \/ ReceiverStops
    \/ Forward \/ Notify \/ ResetSlot

-----------------------------------------------------------------------------
\* The application's threads.
Subscriptions ==
    /\ Shutdown \/ \E source \in Source : Subscribe(source)
    /\ UNCHANGED <<vars, worker, passed, thrown, unheard>>

ApplicationStops ==
    /\ Stop(LocalNode)
    /\ UNCHANGED <<told, worker>>

SerialNext     == Pass \/ Subscriptions \/ (At("idle") /\ ApplicationStops)
ConcurrentNext == Pass \/ Subscriptions \/ ApplicationStops

SerialSpec     == DeliveryInit /\ [][SerialNext]_deliveryVars
ConcurrentSpec == DeliveryInit /\ [][ConcurrentNext]_deliveryVars

-----------------------------------------------------------------------------
Steps == {"idle", "find", "check", "touch", "store", "count", "finish",
          "receive", "lent", "forward", "notify", "reset"}

Told == [kind : {"received", "forwarded"}, message : Message]

DeliveryTypeOK ==
    /\ worker.pc \in Steps /\ worker.frame \in Frame \union {NoFrame} /\ worker.at \in Slot
    /\ worker.view \in Message \union {NoView}
    /\ passed \in Seq(Told) /\ queued \in Seq(Told) /\ handles \subseteq Source
    /\ thrown \in Nat /\ failed \in Nat /\ unheard \subseteq DOMAIN passed

\* m was cut into the packets it was put together from.
Whole(m) ==
    \E f \in Frame : /\ f.key = m.key /\ f.idx = f.cnt - 1
                     /\ m.data = {f.data}
                     /\ m.total = CompletedBytes(f.cnt, f.chunk, f.bytes)

\* What the receiver is given, or another node is sent, is a complete message,
\* none of its fragments missing: what ReceivedCount counts is in the slot.
PassedOnWhole == \A i \in DOMAIN passed : Whole(passed[i].message)

\* The i-th smallest of the numbers S.
Nth(S, i) == CHOOSE x \in S : Cardinality({y \in S : y < x}) = i - 1

\* The events tell what was passed on, in that order and with the contents it
\* had then, although the slot they were in is gone.  None is missing but for
\* want of memory, a subscription or the receiver's return; with no receiver
\* set, the messages it would have been given count as passed on.
EventsTellPassed ==
    At("idle") =>
        \E heard \in SUBSET (DOMAIN passed \ unheard) :
            /\ Cardinality(heard) + failed = Cardinality(DOMAIN passed \ unheard)
            /\ queued = [i \in 1 .. Cardinality(heard) |-> passed[Nth(heard, i)]]

Leaked == {s \in Slot : slots[LocalNode][s].used /\ slots[LocalNode][s].received >= slots[LocalNode][s].cnt}

\* Between passes a slot holds a complete message only where the receiver threw:
\* every other way out of Complete frees it, a Stop on the way included.
OnlyThrowsLeak == At("idle") => Cardinality(Leaked) <= thrown

\* RadioReassembly's view of a pass: nothing has happened until the fragment is
\* in its slot, or the message complete and its slot free again.
Entering == At("find") \/ At("check") \/ At("touch") \/ At("store") \/ At("count") \/ At("finish")

MappedSlots ==
    [n \in Node |-> IF At("idle") THEN slots[n]
                    ELSE IF Entering THEN worker.slots
                    ELSE [slots[n] EXCEPT ![worker.at] = FreeSlot]]

MappedTouch == [n \in Node |-> IF Entering THEN worker.touch ELSE touchCounter[n]]

Reassembly == INSTANCE RadioReassembly WITH slots <- MappedSlots, touchCounter <- MappedTouch

\* A pass is a step of RadioReassembly, so what holds there holds here until a
\* receiver throws, which leaves a slot as no step there does; the passes after
\* that are its steps again.  A receiver that calls Stop gives the step Stop.
StepsOfReassembly ==
    /\ Reassembly!Init
    /\ [][thrown' # thrown \/ Reassembly!Next]_(Reassembly!vars)
=============================================================================
