---------------------------- MODULE RadioWorker -----------------------------
(***************************************************************************)
(* RadioWorker between its radios and RadioTransport.  The application's   *)
(* thread runs AddInterface, Configure and the destructor; the worker's    *)
(* thread runs Iterate; a radio's driver fills the radio's bounded queue   *)
(* and signals.  They take no common lock, so every store of AddInterface  *)
(* and every step of a pass is a step of its own.                          *)
(*                                                                         *)
(* External, from how this code uses them: the scheduler (PrecisionThread: *)
(* Bump and the period make an iteration due, Shutdown waits for the one   *)
(* under way) and the radio's queue.  A packet is a number, in the order   *)
(* of arrival; what the transport does with it is in RadioReassembly.      *)
(***************************************************************************)
EXTENDS Naturals, FiniteSets, Sequences, SequencesExt

CONSTANTS Radio,          \* the radios
          NoRadio,        \* a null IRadio*
          MaxInterfaces,  \* ESPRESSIO_RADIO_MAX_INTERFACES, of worker and transport
          QueueLimit,     \* packets a radio's queue holds
          MaxPackets      \* bound: packets that arrive

ASSUME WorkerAssumption ==
    /\ NoRadio \notin Radio
    /\ MaxInterfaces \in Nat \ {0}
    /\ QueueLimit \in Nat \ {0}
    /\ MaxPackets \in Nat

Index == 1 .. MaxInterfaces

VARIABLES radios,       \* _radios
          interfaces,   \* the radios RadioTransport has a record of
          receiver,     \* the radios whose receiver is the worker
          signal,       \* the radios whose work signal is the worker
          started,      \* the radios that are started
          queue,        \* the packets in each radio's queue
          arrivals,     \* packets that have arrived
          adding,       \* what AddInterface is doing
          worker,       \* what the worker's thread is doing
          due,          \* an iteration is due
          life,         \* of the worker object
          transported,  \* packets given to the transport: <<radio, packet>>
          observed,     \* packets given to the radio's observers, each with how
                        \* many the transport had had by then
          thrown        \* history: the places in transported of the packets on
                        \* which the transport's receiver threw

tables == <<radios, interfaces>>
wiring == <<receiver, signal>>
links  == <<started, queue, arrivals>>
logs   == <<transported, observed, thrown>>
vars   == <<tables, wiring, links, adding, worker, due, life, logs>>

Ready  == [pc |-> "ready", radio |-> NoRadio]
Asleep == [pc |-> "asleep", at |-> 1, radio |-> NoRadio, left |-> 0, packet |-> 0]

Init ==
    /\ radios = [i \in Index |-> NoRadio] /\ interfaces = {}
    /\ receiver = {} /\ signal = {}
    /\ started = {} /\ queue = [r \in Radio |-> <<>>] /\ arrivals = 0
    /\ adding = Ready
    /\ worker = Asleep
    /\ due = FALSE
    /\ life = "running"
    /\ transported = <<>> /\ observed = <<>> /\ thrown = {}

-----------------------------------------------------------------------------
(* The application's thread.                                               *)

SlotsOf(r) == {i \in Index : radios[i] = r}

First(S) == CHOOSE i \in S : \A j \in S : i <= j

\* Broken variant of TransportTakes: a record more than there is room for.
TransportTakesMore(r) == r \in interfaces \/ Cardinality(interfaces) <= MaxInterfaces

\* RadioTransport::AddInterface has, or makes, a record of r.
TransportTakes(r) == r \in interfaces \/ Cardinality(interfaces) < MaxInterfaces

\* A radio that goes to the transport only: the worker does not serve it.
AddToTransport(r) ==
    /\ adding = Ready
    /\ life = "running"
    /\ TransportTakes(r)
    /\ interfaces' = interfaces \union {r}
    /\ UNCHANGED <<radios, wiring, links, adding, worker, due, life, logs>>

\* Broken variant of AddInterface: a radio that has a slot takes another.
AddInterfaceAgain(r) ==
    /\ adding = Ready
    /\ life = "running"
    /\ SlotsOf(NoRadio) # {}
    /\ TransportTakes(r)
    /\ interfaces' = interfaces \union {r}
    /\ adding' = [pc |-> "slot", radio |-> r]
    /\ UNCHANGED <<radios, wiring, links, worker, due, life, logs>>

\* AddInterface up to the transport's answer.  Nothing is done if it refuses,
\* or if the worker has no slot.
AddInterface(r) ==
    /\ adding = Ready
    /\ life = "running"
    /\ SlotsOf(r) \union SlotsOf(NoRadio) # {}
    /\ TransportTakes(r)
    /\ interfaces' = interfaces \union {r}
    /\ adding' = [pc |-> IF SlotsOf(r) # {} THEN "receiver" ELSE "slot", radio |-> r]
    /\ UNCHANGED <<radios, wiring, links, worker, due, life, logs>>

TakeSlot ==
    /\ adding.pc = "slot"
    /\ radios' = [radios EXCEPT ![First(SlotsOf(NoRadio))] = adding.radio]
    /\ adding' = [adding EXCEPT !.pc = "receiver"]
    /\ UNCHANGED <<interfaces, wiring, links, worker, due, life, logs>>

SetReceiver ==
    /\ adding.pc = "receiver"
    /\ receiver' = receiver \union {adding.radio}
    /\ adding' = [adding EXCEPT !.pc = "signal"]
    /\ UNCHANGED <<tables, signal, links, worker, due, life, logs>>

SetWorkSignal ==
    /\ adding.pc = "signal"
    /\ signal' = signal \union {adding.radio}
    /\ adding' = Ready
    /\ UNCHANGED <<tables, receiver, links, worker, due, life, logs>>

\* A new cadence takes effect with an iteration at once.
Configure ==
    /\ life = "running"
    /\ due' = TRUE
    /\ UNCHANGED <<tables, wiring, links, adding, worker, life, logs>>

\* The destructor: Shutdown, which waits for the worker, then the radios.
Shutdown ==
    /\ adding = Ready
    /\ life = "running"
    /\ worker = Asleep
    /\ life' = "detaching"
    /\ UNCHANGED <<tables, wiring, links, adding, worker, due, logs>>

\* Broken variant of Detach: stopped radios are passed over.
DetachStarted ==
    /\ life = "detaching"
    /\ LET mine == (ToSet(radios) \ {NoRadio}) \intersect started
       IN  receiver' = receiver \ mine /\ signal' = signal \ mine
    /\ life' = "gone"
    /\ UNCHANGED <<tables, links, adding, worker, due, logs>>

Detach ==
    /\ life = "detaching"
    /\ LET mine == ToSet(radios) \ {NoRadio}
       IN  receiver' = receiver \ mine /\ signal' = signal \ mine
    /\ life' = "gone"
    /\ UNCHANGED <<tables, links, adding, worker, due, logs>>

-----------------------------------------------------------------------------
(* The radios.                                                             *)

StartStop(r) ==
    /\ started' = IF r \in started THEN started \ {r} ELSE started \union {r}
    /\ UNCHANGED <<tables, wiring, queue, arrivals, adding, worker, due, life, logs>>

\* OnRadioWorkAvailable: a Bump that throws is lost.
OnRadioWorkAvailable(r) == due' \in IF r \in signal THEN {TRUE, due} ELSE {due}

\* A packet for which there is no room is lost.
Arrive(r) ==
    /\ r \in started
    /\ arrivals < MaxPackets
    /\ arrivals' = arrivals + 1
    /\ queue' = [queue EXCEPT ![r] = IF Len(@) < QueueLimit THEN Append(@, arrivals') ELSE @]
    /\ OnRadioWorkAvailable(r)
    /\ UNCHANGED <<tables, wiring, started, adding, worker, life, logs>>

-----------------------------------------------------------------------------
(* The worker's thread.                                                    *)

Period ==
    /\ life = "running"
    /\ ~due
    /\ due' = TRUE
    /\ UNCHANGED <<tables, wiring, links, adding, worker, life, logs>>

Wake ==
    /\ worker = Asleep
    /\ life = "running"
    /\ due
    /\ due' = FALSE
    /\ worker' = [Asleep EXCEPT !.pc = "scan"]
    /\ UNCHANGED <<tables, wiring, links, adding, life, logs>>

\* Broken variant of Iterate: the pass ends at a radio that is stopped.
IterateToFirstStopped ==
    /\ worker.pc = "scan"
    /\ worker.at <= MaxInterfaces
    /\ LET r == radios[worker.at]
       IN  worker' = IF r # NoRadio /\ r \in started
                     THEN [worker EXCEPT !.pc = "drain", !.radio = r, !.left = Len(queue[r])]
                     ELSE [worker EXCEPT !.at = MaxInterfaces + 1]
    /\ UNCHANGED <<tables, wiring, links, adding, due, life, logs>>

\* The next entry, which is skipped if there is no radio or it is stopped.
Iterate ==
    /\ worker.pc = "scan"
    /\ worker.at <= MaxInterfaces
    /\ LET r == radios[worker.at]
       IN  worker' = IF r # NoRadio /\ r \in started
                     THEN [worker EXCEPT !.pc = "drain", !.radio = r, !.left = Len(queue[r])]
                     ELSE [worker EXCEPT !.at = @ + 1]
    /\ UNCHANGED <<tables, wiring, links, adding, due, life, logs>>

EndPass ==
    /\ worker.pc = "scan"
    /\ worker.at > MaxInterfaces
    /\ worker' = Asleep
    /\ UNCHANGED <<tables, wiring, links, adding, due, life, logs>>

\* DrainInbound.  Without a receiver the packet is lost.
DrainPacket ==
    LET r == worker.radio
        One(n) == IF n = 0 THEN 0 ELSE n - 1
    IN  /\ worker.pc = "drain"
        /\ queue[r] # <<>>
        /\ queue' = [queue EXCEPT ![r] = Tail(@)]
        /\ worker' = [worker EXCEPT !.pc     = IF r \in receiver THEN "process" ELSE "drain",
                                    !.left   = One(@),
                                    !.packet = Head(queue[r])]
        /\ UNCHANGED <<tables, wiring, started, arrivals, adding, due, life, logs>>

\* It has delivered at least what was there when it was called, or it leaves
\* it for want of a receiver.
DrainEnd ==
    /\ worker.pc = "drain"
    /\ worker.left = 0 \/ worker.radio \notin receiver
    /\ worker' = [Asleep EXCEPT !.pc = "scan", !.at = worker.at + 1]
    /\ UNCHANGED <<tables, wiring, links, adding, due, life, logs>>

Packet == <<worker.radio, worker.packet>>

Give == transported' = Append(transported, Packet)
Show == observed' = Append(observed, [packet |-> Packet, after |-> Len(transported)])

\* Broken variant of OnRadioPacket: the observers before the transport.
ObserversFirst ==
    /\ worker.pc = "process"
    /\ Show
    /\ worker' = [worker EXCEPT !.pc = "notify"]
    /\ UNCHANGED <<tables, wiring, links, adding, due, life, transported, thrown>>

\* OnRadioPacket, in two steps: the transport, then the observers.
OnRadioPacket ==
    /\ worker.pc = "process"
    /\ Give
    /\ worker' = [worker EXCEPT !.pc = "notify"]
    /\ UNCHANGED <<tables, wiring, links, adding, due, life, observed, thrown>>

\* The transport's receiver throws.  The exception leaves OnRadioPacket before
\* the observers are told, then DrainInbound and Iterate: what is left in the
\* queue, and the radios after this one, wait for another pass.  That there is
\* one is up to PrecisionThread.
ReceiverThrows ==
    /\ worker.pc = "process"
    /\ Give
    /\ thrown' = thrown \union {Len(transported')}
    /\ worker' = Asleep
    /\ UNCHANGED <<tables, wiring, links, adding, due, life, observed>>

NotifyPacketReceived ==
    /\ worker.pc = "notify"
    /\ Show
    /\ worker' = [worker EXCEPT !.pc = "drain"]
    /\ UNCHANGED <<tables, wiring, links, adding, due, life, transported, thrown>>

WorkerSteps ==
    \/ Wake \/ Iterate \/ EndPass \/ DrainPacket \/ DrainEnd
    \/ OnRadioPacket \/ ReceiverThrows \/ NotifyPacketReceived

Next ==
    \/ \E r \in Radio : AddToTransport(r) \/ AddInterface(r) \/ StartStop(r) \/ Arrive(r)
    \/ TakeSlot \/ SetReceiver \/ SetWorkSignal \/ Configure \/ Shutdown \/ Detach
    \/ Period \/ WorkerSteps

\* The worker's thread is scheduled and its period passes.  A DrainInbound
\* ends, since what arrives is bounded; nothing is assumed of Bump.
Fairness == WF_vars(WorkerSteps) /\ WF_vars(Period)

Spec == Init /\ [][Next]_vars /\ Fairness

-----------------------------------------------------------------------------
Packets == Radio \X (1 .. MaxPackets)

TypeOK ==
    /\ radios \in [Index -> Radio \union {NoRadio}]
    /\ receiver \subseteq Radio /\ signal \subseteq Radio /\ started \subseteq Radio
    /\ interfaces \subseteq Radio /\ Cardinality(interfaces) <= MaxInterfaces
    /\ \A r \in Radio : queue[r] \in Seq(1 .. MaxPackets) /\ Len(queue[r]) <= QueueLimit
    /\ arrivals \in 0 .. MaxPackets
    /\ adding \in [pc : {"ready", "slot", "receiver", "signal"}, radio : Radio \union {NoRadio}]
    /\ worker \in [pc : {"asleep", "scan", "drain", "process", "notify"},
                   at : 1 .. MaxInterfaces + 1, radio : Radio \union {NoRadio},
                   left : 0 .. QueueLimit, packet : 0 .. MaxPackets]
    /\ due \in BOOLEAN
    /\ life \in {"running", "detaching", "gone"}
    /\ transported \in Seq(Packets)
    /\ observed \in Seq([packet : Packets, after : Nat])
    /\ thrown \subseteq DOMAIN transported

\* A radio that delivers to the worker is one the worker drains, once in a
\* pass, and one the transport can answer on.
WorkerOwnsInbound ==
    \A r \in receiver \union signal :
        r \in interfaces /\ (life # "gone" => Cardinality(SlotsOf(r)) = 1)

\* A radio outlives the worker without a pointer to it.
NothingDangles == life = "gone" => receiver = {} /\ signal = {}

\* The observers see what the transport has had: each packet after it, once
\* and in its order, and every packet but those on which the receiver threw -
\* these they never see - and the one that the worker has in hand.
ObserversFollow ==
    /\ \A i \in DOMAIN observed :
          /\ observed[i].after \in DOMAIN transported
          /\ observed[i].packet = transported[observed[i].after]
    /\ \A i, j \in DOMAIN observed : i < j => observed[i].after < observed[j].after
    /\ {observed[i].after : i \in DOMAIN observed} =
          DOMAIN transported \ (thrown \union IF worker.pc = "notify" THEN {Len(transported)} ELSE {})

\* The radios in whose queue p is.
Queued(p) == {r \in Radio : p \in ToSet(queue[r])}

\* A packet in the queue of a radio that delivers to the worker reaches the
\* transport, while radio and worker stay up, although its signal may be lost.
Serviced ==
    \A p \in 1 .. MaxPackets :
        Queued(p) \intersect receiver # {}
            ~> \/ \E r \in Radio : <<r, p>> \in ToSet(transported)
               \/ Queued(p) \ started # {}
               \/ life # "running"
=============================================================================
