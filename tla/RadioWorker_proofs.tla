------------------------- MODULE RadioWorker_proofs -------------------------
(***************************************************************************)
(* Proofs about RadioWorker, for every set of radios, every size of the    *)
(* tables and of the radios' queues, and any number of packets: whom the   *)
(* worker serves, what its end leaves behind, and what its observers see.  *)
(***************************************************************************)
EXTENDS RadioWorker, TLAPS, FiniteSetTheorems, SequenceTheorems, NumberLemmas

\* The application's side: what AddInterface has done so far of what it has to
\* do, and that the end of the worker finds no AddInterface under way.
Enlisted == ToSet(radios) \ {NoRadio}

ApplicationOK ==
    /\ radios \in [Index -> Radio \union {NoRadio}]
    /\ receiver \subseteq Radio /\ signal \subseteq Radio
    /\ interfaces \subseteq Radio
    /\ IsFiniteSet(interfaces) /\ Cardinality(interfaces) <= MaxInterfaces
    /\ adding = Ready \/ adding \in [pc : {"slot", "receiver", "signal"}, radio : Radio]
    /\ life \in {"running", "detaching", "gone"}

\* A radio has at most one slot, is known to the transport before it has, and
\* is wired only when it has.
SlotFirst ==
    /\ \A i, j \in Index : radios[i] = radios[j] /\ radios[i] # NoRadio => i = j
    /\ Enlisted \subseteq interfaces
    /\ receiver \union signal \subseteq Enlisted
    /\ adding # Ready => life = "running" /\ adding.radio \in interfaces
    /\ adding.pc = "slot" => adding.radio \notin Enlisted /\ SlotsOf(NoRadio) # {}
    /\ adding.pc \in {"receiver", "signal"} => adding.radio \in Enlisted

ApplicationInv == ApplicationOK /\ SlotFirst /\ NothingDangles

\* The worker's side: what a pass has in its hands is of a radio it is at, and
\* is what the transport was given last, without throwing.
WorkerState ==
    [pc : {"asleep", "scan", "drain", "process", "notify"},
     at : 1 .. MaxInterfaces + 1, radio : Radio \union {NoRadio},
     left : 0 .. QueueLimit, packet : 0 .. MaxPackets]

Sights == [packet : Packets, after : Nat]

PassOK ==
    /\ started \subseteq Radio
    /\ queue \in [Radio -> Seq(1 .. MaxPackets)]
    /\ \A r \in Radio : Len(queue[r]) <= QueueLimit
    /\ arrivals \in 0 .. MaxPackets
    /\ worker \in WorkerState
    /\ worker.pc \in {"drain", "process", "notify"} => worker.at \in Index /\ worker.radio \in Radio
    /\ worker.pc \in {"process", "notify"} => worker.packet \in 1 .. MaxPackets
    /\ due \in BOOLEAN
    /\ transported \in Seq(Packets)
    /\ observed \in Seq(Sights)
    /\ thrown \subseteq DOMAIN transported

Following ==
    /\ ObserversFollow
    /\ worker.pc = "notify" => /\ Len(transported) \in DOMAIN transported \ thrown
                               /\ transported[Len(transported)] = Packet

PassInv == PassOK /\ Following

WorkerInv == ApplicationInv /\ PassInv

LEMMA WorkerInit == Init => WorkerInv
<1> SUFFICES ASSUME Init PROVE WorkerInv
  OBVIOUS
<1>1. Enlisted = {}
  BY DEF Init, Enlisted, ToSet
<1>2. ApplicationOK
  <2>1. IsFiniteSet(interfaces) /\ Cardinality(interfaces) <= MaxInterfaces
    BY FS_EmptySet, WorkerAssumption DEF Init
  <2> QED
    BY <2>1 DEF Init, ApplicationOK
<1>3. SlotFirst /\ NothingDangles
  BY <1>1 DEF Init, SlotFirst, NothingDangles, Ready
<1>4. PassOK
  <2>1. /\ <<>> \in Seq(1 .. MaxPackets) /\ Len(<<>>) = 0
        /\ transported \in Seq(Packets) /\ observed \in Seq(Sights)
        /\ thrown = {} /\ DOMAIN transported = {} /\ DOMAIN observed = {}
    BY EmptySeq DEF Init
  <2>2. worker \in WorkerState /\ worker.pc = "asleep"
    BY WorkerAssumption DEF Init, Asleep, WorkerState
  <2>3. queue \in [Radio -> Seq(1 .. MaxPackets)] /\ \A r \in Radio : Len(queue[r]) <= QueueLimit
    BY <2>1, WorkerAssumption DEF Init
  <2>4. started \subseteq Radio /\ due \in BOOLEAN
    BY Zenon DEF Init
  <2>5. arrivals \in 0 .. MaxPackets
    BY WorkerAssumption DEF Init
  <2>6. /\ worker.pc \in {"drain", "process", "notify"} => worker.at \in Index /\ worker.radio \in Radio
        /\ worker.pc \in {"process", "notify"} => worker.packet \in 1 .. MaxPackets
    BY <2>2
  <2> QED
    BY <2>1, <2>2, <2>3, <2>4, <2>5, <2>6 DEF PassOK
<1>5. Following
  <2>1. thrown = {} /\ DOMAIN transported = {} /\ DOMAIN observed = {} /\ worker.pc = "asleep"
    BY EmptySeq DEF Init, Asleep
  <2> QED
    BY <2>1 DEF Following, ObserversFollow
<1> QED
  BY <1>2, <1>3, <1>4, <1>5 DEF WorkerInv, ApplicationInv, PassInv

-----------------------------------------------------------------------------
(* The application's side.                                                 *)

LEMMA EnlistedIs ==
    ASSUME radios \in [Index -> Radio \union {NoRadio}]
    PROVE  /\ \A r : r \in Enlisted <=> r # NoRadio /\ \E i \in Index : radios[i] = r
           /\ \A r : r # NoRadio => (r \in Enlisted <=> SlotsOf(r) # {})
<1>1. DOMAIN radios = Index
  OBVIOUS
<1> QED
  BY <1>1 DEF Enlisted, ToSet, SlotsOf

\* The transport makes a record when there is room for it.
LEMMA TransportRecords ==
    ASSUME ApplicationOK, NEW r \in Radio, TransportTakes(r)
    PROVE  LET more == interfaces \union {r}
           IN  more \subseteq Radio /\ IsFiniteSet(more) /\ Cardinality(more) <= MaxInterfaces
<1>1. IsFiniteSet(interfaces) /\ Cardinality(interfaces) \in Nat
  BY FS_CardinalityType DEF ApplicationOK
<1>2. /\ IsFiniteSet(interfaces \union {r})
      /\ Cardinality(interfaces \union {r}) =
            IF r \in interfaces THEN Cardinality(interfaces) ELSE Cardinality(interfaces) + 1
  BY <1>1, FS_AddElement
<1> QED
  BY <1>1, <1>2, WorkerAssumption DEF ApplicationOK, TransportTakes

LEMMA AddInterfaceStep ==
    ASSUME ApplicationInv, NEW r \in Radio, AddToTransport(r) \/ AddInterface(r)
    PROVE  ApplicationInv'
<1>1. ApplicationOK /\ SlotFirst /\ NothingDangles
  BY DEF ApplicationInv
<1>2. /\ adding = Ready /\ life = "running" /\ TransportTakes(r)
      /\ interfaces' = interfaces \union {r}
      /\ UNCHANGED <<radios, receiver, signal, life>>
  BY DEF AddToTransport, AddInterface, wiring
<1>3. \/ adding' = Ready
      \/ adding' = [pc |-> "receiver", radio |-> r] /\ SlotsOf(r) # {}
      \/ adding' = [pc |-> "slot", radio |-> r] /\ SlotsOf(r) = {} /\ SlotsOf(NoRadio) # {}
  BY <1>2 DEF AddToTransport, AddInterface
<1>4. ApplicationOK'
  BY <1>1, <1>2, <1>3, TransportRecords DEF ApplicationOK
<1>5. Enlisted' = Enlisted /\ (r \in Enlisted <=> SlotsOf(r) # {}) /\ SlotsOf(NoRadio)' = SlotsOf(NoRadio)
  BY <1>1, <1>2, EnlistedIs, WorkerAssumption DEF Enlisted, ApplicationOK, SlotsOf
<1>6. SlotFirst'
  <2>1. \A i, j \in Index : radios'[i] = radios'[j] /\ radios'[i] # NoRadio => i = j
    BY <1>1, <1>2 DEF SlotFirst
  <2>2. Enlisted' \subseteq interfaces' /\ receiver' \union signal' \subseteq Enlisted'
    BY <1>1, <1>2, <1>5 DEF SlotFirst
  <2>3. /\ adding' # Ready => life' = "running" /\ adding'.radio \in interfaces'
        /\ adding'.pc = "slot" => adding'.radio \notin Enlisted' /\ SlotsOf(NoRadio)' # {}
        /\ adding'.pc \in {"receiver", "signal"} => adding'.radio \in Enlisted'
    BY <1>2, <1>3, <1>5 DEF Ready
  <2> QED
    BY <2>1, <2>2, <2>3 DEF SlotFirst
<1> QED
  BY <1>1, <1>2, <1>4, <1>6 DEF ApplicationInv, NothingDangles

LEMMA TakeSlotStep ==
    ASSUME ApplicationInv, TakeSlot
    PROVE  ApplicationInv'
<1> DEFINE s == First(SlotsOf(NoRadio))
           r == adding.radio
<1>1. ApplicationOK /\ SlotFirst /\ NothingDangles
  BY DEF ApplicationInv
<1>2. /\ adding.pc = "slot" /\ adding # Ready
      /\ radios' = [radios EXCEPT ![s] = r]
      /\ adding' = [adding EXCEPT !.pc = "receiver"]
      /\ UNCHANGED <<interfaces, receiver, signal, life>>
  BY DEF TakeSlot, Ready, wiring
<1>3. /\ r \in Radio /\ r # NoRadio /\ r \notin Enlisted
      /\ adding' = [pc |-> "receiver", radio |-> r]
      /\ SlotsOf(NoRadio) # {} /\ life = "running" /\ r \in interfaces
  <2>1. adding \in [pc : {"slot", "receiver", "signal"}, radio : Radio]
    BY <1>1, <1>2 DEF ApplicationOK
  <2> QED
    BY <1>1, <1>2, <2>1, WorkerAssumption DEF SlotFirst
<1>4. s \in Index /\ radios[s] = NoRadio
  <2>1. SlotsOf(NoRadio) \in SUBSET Nat
    BY DEF SlotsOf, Index
  <2>2. s \in SlotsOf(NoRadio)
    BY <1>3, <2>1, HasLeast DEF First
  <2> QED
    BY <2>2 DEF SlotsOf
<1> HIDE DEF s, r
<1>5. ApplicationOK'
  BY <1>1, <1>2, <1>3, <1>4 DEF ApplicationOK
<1>6. \A i \in Index : radios'[i] = IF i = s THEN r ELSE radios[i]
  BY <1>1, <1>2 DEF ApplicationOK
<1>7. Enlisted' = Enlisted \union {r}
  <2>1. ASSUME NEW e PROVE e \in Enlisted' <=> e # NoRadio /\ \E i \in Index : radios'[i] = e
    <3>1. DOMAIN radios' = Index
      BY <1>5 DEF ApplicationOK
    <3> QED
      BY <3>1 DEF Enlisted, ToSet
  <2>2. ASSUME NEW e PROVE e \in Enlisted <=> e # NoRadio /\ \E i \in Index : radios[i] = e
    BY <1>1, EnlistedIs DEF ApplicationOK
  <2>3. ASSUME NEW e PROVE e \in Enlisted' <=> e \in Enlisted \/ e = r
    BY <1>3, <1>4, <1>6, <2>1, <2>2
  <2> QED
    BY <2>3
<1>8. \A i, j \in Index : radios'[i] = radios'[j] /\ radios'[i] # NoRadio => i = j
  <2>1. \A i \in Index : radios[i] # r
    BY <1>1, <1>3, EnlistedIs DEF ApplicationOK
  <2> QED
    BY <1>1, <1>6, <2>1 DEF SlotFirst
<1>9. SlotFirst'
  <2>1. Enlisted' \subseteq interfaces' /\ receiver' \union signal' \subseteq Enlisted'
    BY <1>1, <1>2, <1>3, <1>7 DEF SlotFirst
  <2>2. adding'.pc = "receiver" /\ adding'.radio = r /\ life' = "running" /\ r \in interfaces' /\ r \in Enlisted'
    BY <1>2, <1>3, <1>7
  <2> QED
    BY <1>8, <2>1, <2>2 DEF SlotFirst
<1> QED
  BY <1>1, <1>2, <1>5, <1>9 DEF ApplicationInv, NothingDangles

LEMMA WireStep ==
    ASSUME ApplicationInv, SetReceiver \/ SetWorkSignal
    PROVE  ApplicationInv'
<1> DEFINE r == adding.radio
<1>1. ApplicationOK /\ SlotFirst /\ NothingDangles
  BY DEF ApplicationInv
<1>2. /\ adding.pc \in {"receiver", "signal"} /\ adding # Ready
      /\ receiver' \in {receiver, receiver \union {r}} /\ signal' \in {signal, signal \union {r}}
      /\ adding' = Ready \/ adding' = [adding EXCEPT !.pc = "signal"]
      /\ UNCHANGED <<radios, interfaces, life>>
  BY DEF SetReceiver, SetWorkSignal, tables, Ready
<1>3. r \in Radio /\ r \in Enlisted /\ life = "running" /\ r \in interfaces
      /\ (adding' = Ready \/ adding' = [pc |-> "signal", radio |-> r])
  <2>1. adding \in [pc : {"slot", "receiver", "signal"}, radio : Radio]
    BY <1>1, <1>2 DEF ApplicationOK
  <2> QED
    BY <1>1, <1>2, <2>1 DEF SlotFirst
<1> HIDE DEF r
<1>4. ApplicationOK'
  BY <1>1, <1>2, <1>3 DEF ApplicationOK
<1>5. Enlisted' = Enlisted /\ SlotsOf(NoRadio)' = SlotsOf(NoRadio)
  BY <1>2 DEF Enlisted, SlotsOf
<1>6. SlotFirst'
  <2>1. receiver' \union signal' \subseteq Enlisted'
    BY <1>1, <1>2, <1>3, <1>5 DEF SlotFirst
  <2>2. /\ \A i, j \in Index : radios'[i] = radios'[j] /\ radios'[i] # NoRadio => i = j
        /\ Enlisted' \subseteq interfaces'
    BY <1>1, <1>2, <1>5 DEF SlotFirst
  <2>3. /\ adding' # Ready => life' = "running" /\ adding'.radio \in interfaces'
        /\ adding'.pc # "slot"
        /\ adding'.pc \in {"receiver", "signal"} => adding'.radio \in Enlisted'
    BY <1>2, <1>3, <1>5 DEF Ready
  <2> QED
    BY <2>1, <2>2, <2>3 DEF SlotFirst
<1> QED
  BY <1>1, <1>2, <1>3, <1>4, <1>6 DEF ApplicationInv, NothingDangles

\* The destructor: all that is wired is enlisted, so Detach unwires it.
LEMMA EndStep ==
    ASSUME ApplicationInv, Shutdown \/ Detach
    PROVE  ApplicationInv'
<1>1. ApplicationOK /\ SlotFirst /\ NothingDangles
  BY DEF ApplicationInv
<1>2. UNCHANGED <<radios, interfaces, adding>> /\ adding = Ready /\ adding.pc = "ready"
  <2>1. adding # Ready => life = "running"
    BY <1>1 DEF SlotFirst
  <2> QED
    BY <2>1 DEF Shutdown, Detach, tables, Ready
<1>3. Enlisted' = Enlisted
  BY <1>2 DEF Enlisted
<1>4. CASE Shutdown
  <2>1. life' = "detaching" /\ UNCHANGED <<receiver, signal>>
    BY <1>4 DEF Shutdown, wiring
  <2> QED
    BY <1>1, <1>2, <1>3, <2>1 DEF ApplicationInv, ApplicationOK, SlotFirst, NothingDangles
<1>5. CASE Detach
  <2>1. life' = "gone" /\ receiver' = receiver \ Enlisted /\ signal' = signal \ Enlisted
    BY <1>5 DEF Detach, Enlisted
  <2>2. receiver' = {} /\ signal' = {}
    BY <1>1, <2>1 DEF SlotFirst
  <2> QED
    BY <1>1, <1>2, <1>3, <2>1, <2>2 DEF ApplicationInv, ApplicationOK, SlotFirst, NothingDangles
<1> QED
  BY <1>4, <1>5

LEMMA ApplicationKept ==
    ASSUME ApplicationInv, UNCHANGED <<tables, wiring, adding, life>>
    PROVE  ApplicationInv'
<1>1. UNCHANGED <<radios, interfaces, receiver, signal, adding, life>>
  BY DEF tables, wiring
<1>2. Enlisted' = Enlisted /\ SlotsOf(NoRadio)' = SlotsOf(NoRadio)
  BY <1>1 DEF Enlisted, SlotsOf
<1> QED
  BY <1>1, <1>2 DEF ApplicationInv, ApplicationOK, SlotFirst, NothingDangles

LEMMA ApplicationStep == ApplicationInv /\ [Next]_vars => ApplicationInv'
<1> SUFFICES ASSUME ApplicationInv, [Next]_vars PROVE ApplicationInv'
  OBVIOUS
<1>1. ASSUME NEW r \in Radio, StartStop(r) \/ Arrive(r) PROVE ApplicationInv'
  BY <1>1, ApplicationKept DEF StartStop, Arrive
<1>2. CASE Configure \/ Period
  BY <1>2, ApplicationKept DEF Configure, Period
<1>3. CASE WorkerSteps
  BY <1>3, ApplicationKept DEF WorkerSteps, Wake, Iterate, EndPass, DrainPacket, DrainEnd,
                              OnRadioPacket, ReceiverThrows, NotifyPacketReceived
<1>4. CASE UNCHANGED vars
  BY <1>4, ApplicationKept DEF vars
<1> QED
  BY <1>1, <1>2, <1>3, <1>4, AddInterfaceStep, TakeSlotStep, WireStep, EndStep DEF Next

-----------------------------------------------------------------------------
(* The radios and the worker's side.                                       *)

LEMMA FollowingKept ==
    ASSUME Following, UNCHANGED logs,
           worker' = worker \/ (worker.pc # "notify" /\ worker'.pc # "notify")
    PROVE  Following'
<1>1. UNCHANGED <<transported, observed, thrown>>
  BY DEF logs
<1> QED
  BY <1>1 DEF Following, ObserversFollow, Packet

LEMMA ArriveStep ==
    ASSUME PassInv, NEW r \in Radio, StartStop(r) \/ Arrive(r)
    PROVE  PassInv'
<1>1. PassOK /\ Following
  BY DEF PassInv
<1>2. UNCHANGED <<worker, transported, observed, thrown>>
  BY DEF StartStop, Arrive, logs
<1>0. Following'
  BY <1>1, <1>2, FollowingKept DEF logs
<1>3. CASE StartStop(r)
  <2>1. started' \subseteq Radio /\ UNCHANGED <<queue, arrivals, due>>
    BY <1>1, <1>3 DEF StartStop, PassOK
  <2> QED
    BY <1>0, <1>1, <1>2, <2>1 DEF PassInv, PassOK
<1>4. CASE Arrive(r)
  <2>1. /\ UNCHANGED started /\ due' \in BOOLEAN
        /\ arrivals' = arrivals + 1 /\ arrivals < MaxPackets
    BY <1>1, <1>4 DEF Arrive, OnRadioWorkAvailable, PassOK
  <2>2. arrivals' \in 0 .. MaxPackets /\ arrivals' \in 1 .. MaxPackets
    BY <1>1, <2>1, WorkerAssumption DEF PassOK
  <2>3. queue[r] \in Seq(1 .. MaxPackets) /\ Len(queue[r]) \in Nat /\ Len(queue[r]) <= QueueLimit
    BY <1>1, LenProperties DEF PassOK
  <2> DEFINE q == IF Len(queue[r]) < QueueLimit THEN Append(queue[r], arrivals') ELSE queue[r]
  <2>4. q \in Seq(1 .. MaxPackets) /\ Len(q) <= QueueLimit
    <3>1. CASE Len(queue[r]) < QueueLimit
      <4>1. q \in Seq(1 .. MaxPackets) /\ Len(q) = Len(queue[r]) + 1
        BY <2>2, <2>3, <3>1, AppendProperties
      <4> QED
        BY <2>3, <3>1, <4>1, WorkerAssumption
    <3> QED
      BY <2>3, <3>1
  <2>5. queue' = [queue EXCEPT ![r] = q]
    BY <1>4 DEF Arrive
  <2> HIDE DEF q
  <2>6. queue' \in [Radio -> Seq(1 .. MaxPackets)] /\ \A s \in Radio : Len(queue'[s]) <= QueueLimit
    BY <1>1, <2>4, <2>5 DEF PassOK
  <2> QED
    BY <1>0, <1>1, <1>2, <2>1, <2>2, <2>6 DEF PassInv, PassOK
<1> QED
  BY <1>3, <1>4

\* The thread wakes, goes from entry to entry and ends its pass.
LEMMA ScanStep ==
    ASSUME PassInv, radios \in [Index -> Radio \union {NoRadio}],
           Wake \/ Iterate \/ EndPass \/ DrainEnd
    PROVE  PassInv'
<1>1. PassOK /\ Following
  BY DEF PassInv
<1>2. UNCHANGED <<started, queue, arrivals, transported, observed, thrown>> /\ due' \in BOOLEAN
      /\ worker.pc # "notify"
  <2>1. /\ due' = FALSE \/ due' = due
        /\ UNCHANGED <<queue, arrivals, transported, observed, thrown, started>>
    BY DEF Wake, Iterate, EndPass, DrainEnd, links, logs
  <2>2. worker.pc # "notify"
    BY DEF Wake, Iterate, EndPass, DrainEnd, Asleep
  <2> QED
    BY <1>1, <2>1, <2>2 DEF PassOK
<1>3. /\ worker' \in WorkerState
      /\ worker'.pc \in {"asleep", "scan", "drain"}
      /\ worker'.pc = "drain" => worker'.at \in Index /\ worker'.radio \in Radio
  <2>1. CASE Wake
    BY <2>1, WorkerAssumption DEF Wake, Asleep, WorkerState
  <2>2. CASE EndPass
    BY <2>2, WorkerAssumption DEF EndPass, Asleep, WorkerState
  <2>3. CASE DrainEnd
    <3>1. worker.at + 1 \in 1 .. MaxInterfaces + 1
      BY <1>1, <2>3, WorkerAssumption DEF PassOK, DrainEnd, Index, WorkerState
    <3> QED
      <4>1. worker' = [pc |-> "scan", at |-> worker.at + 1, radio |-> NoRadio, left |-> 0, packet |-> 0]
        BY <2>3 DEF DrainEnd, Asleep
      <4> QED
        BY <3>1, <4>1, WorkerAssumption DEF WorkerState
  <2>4. CASE Iterate
    <3>1. worker.at \in Index /\ worker.at + 1 \in 1 .. MaxInterfaces + 1
      BY <1>1, <2>4, WorkerAssumption DEF PassOK, Iterate, Index, WorkerState
    <3> DEFINE r == radios[worker.at]
    <3>2. CASE r # NoRadio /\ r \in started
      <4>1. r \in Radio
        BY <1>1, <3>2 DEF PassOK
      <4>2. Len(queue[r]) \in 0 .. QueueLimit
        BY <1>1, <4>1, LenProperties, WorkerAssumption DEF PassOK
      <4>3. worker' = [worker EXCEPT !.pc = "drain", !.radio = r, !.left = Len(queue[r])]
        BY <2>4, <3>2 DEF Iterate
      <4> HIDE DEF r
      <4> QED
        BY <1>1, <3>1, <4>1, <4>2, <4>3 DEF PassOK, WorkerState
    <3>3. CASE ~(r # NoRadio /\ r \in started)
      <4>1. worker' = [worker EXCEPT !.at = worker.at + 1] /\ worker.pc = "scan"
        BY <2>4, <3>3 DEF Iterate
      <4> QED
        BY <1>1, <3>1, <4>1 DEF PassOK, WorkerState
    <3> QED
      BY <3>2, <3>3
  <2> QED
    BY <2>1, <2>2, <2>3, <2>4
<1>4. PassOK'
  BY <1>1, <1>2, <1>3 DEF PassOK
<1>5. Following'
  BY <1>1, <1>2, <1>3, FollowingKept DEF logs
<1> QED
  BY <1>4, <1>5 DEF PassInv

LEMMA DrainPacketStep ==
    ASSUME PassInv, DrainPacket
    PROVE  PassInv'
<1> DEFINE r == worker.radio
           q == queue[r]
<1>1. PassOK /\ Following
  BY DEF PassInv
<1>2. /\ worker.pc = "drain" /\ q # <<>>
      /\ queue' = [queue EXCEPT ![r] = Tail(q)]
      /\ UNCHANGED <<started, arrivals, due, transported, observed, thrown>>
  BY DEF DrainPacket, logs
<1>3. r \in Radio /\ q \in Seq(1 .. MaxPackets) /\ Len(q) <= QueueLimit
  BY <1>1, <1>2 DEF PassOK
<1>4. /\ Head(q) \in 1 .. MaxPackets /\ Tail(q) \in Seq(1 .. MaxPackets)
      /\ Len(Tail(q)) = Len(q) - 1 /\ Len(q) \in Nat
  BY <1>2, <1>3, HeadTailProperties, LenProperties
<1>5. worker' = [worker EXCEPT !.pc     = IF r \in receiver THEN "process" ELSE "drain",
                               !.left   = IF @ = 0 THEN 0 ELSE @ - 1,
                               !.packet = Head(q)]
  BY DEF DrainPacket
<1> HIDE DEF q, r
<1>6. queue' \in [Radio -> Seq(1 .. MaxPackets)] /\ \A s \in Radio : Len(queue'[s]) <= QueueLimit
  BY <1>1, <1>2, <1>3, <1>4, WorkerAssumption DEF PassOK
<1>7. /\ worker' \in WorkerState
      /\ worker'.pc \in {"drain", "process"}
      /\ worker'.at \in Index /\ worker'.radio \in Radio /\ worker'.packet \in 1 .. MaxPackets
  <2> DEFINE left == IF worker.left = 0 THEN 0 ELSE worker.left - 1
             pc   == IF worker.radio \in receiver THEN "process" ELSE "drain"
  <2>1. left \in 0 .. QueueLimit /\ pc \in {"drain", "process"}
    BY <1>1, WorkerAssumption DEF PassOK, WorkerState
  <2>2. worker' = [worker EXCEPT !.pc = pc, !.left = left, !.packet = Head(q)]
    BY <1>5 DEF r
  <2> HIDE DEF left, pc
  <2>3. worker.at \in Index /\ worker.radio \in Radio
    BY <1>1, <1>2 DEF PassOK
  <2>4. worker \in WorkerState /\ Head(q) \in 1 .. MaxPackets /\ Head(q) \in 0 .. MaxPackets
    BY <1>1, <1>4, WorkerAssumption DEF PassOK
  <2> QED
    BY <2>1, <2>2, <2>3, <2>4 DEF WorkerState
<1>8. PassOK'
  BY <1>1, <1>2, <1>6, <1>7 DEF PassOK
<1>9. Following'
  BY <1>1, <1>2, <1>7, FollowingKept DEF logs
<1> QED
  BY <1>8, <1>9 DEF PassInv

\* The packet goes to the transport.
LEMMA Given ==
    ASSUME PassInv, worker.pc = "process", Give, UNCHANGED observed
    PROVE  LET L == Len(transported)
           IN  /\ L \in Nat /\ transported' \in Seq(Packets)
               /\ DOMAIN transported = 1 .. L /\ Len(transported') = L + 1
               /\ DOMAIN transported' = 1 .. L + 1 /\ transported'[L + 1] = Packet
               /\ \A i \in 1 .. L : transported'[i] = transported[i]
               /\ \A i \in DOMAIN observed' :
                     /\ observed'[i].after \in 1 .. L
                     /\ observed'[i].packet = transported'[observed'[i].after]
               /\ {observed'[i].after : i \in DOMAIN observed'} = (1 .. L) \ thrown
               /\ thrown \subseteq 1 .. L
<1> DEFINE L == Len(transported)
<1>1. PassOK /\ ObserversFollow
  BY DEF PassInv, Following
<1>2. Packet \in Packets
  BY <1>1 DEF PassOK, Packets, Packet
<1>3. L \in Nat /\ DOMAIN transported = 1 .. L /\ transported \in Seq(Packets)
  BY <1>1, LenProperties DEF PassOK
<1>4. /\ transported' \in Seq(Packets) /\ Len(transported') = L + 1
      /\ DOMAIN transported' = 1 .. L + 1 /\ transported'[L + 1] = Packet
      /\ \A i \in 1 .. L : transported'[i] = transported[i]
  <2>1. transported' = Append(transported, Packet)
    BY DEF Give
  <2> HIDE DEF L
  <2>2. /\ transported' \in Seq(Packets) /\ Len(transported') = L + 1
        /\ transported'[L + 1] = Packet /\ \A i \in 1 .. L : transported'[i] = transported[i]
    BY <1>2, <1>3, <2>1, AppendProperties DEF L
  <2>3. DOMAIN transported' = 1 .. L + 1
    BY <2>2, LenProperties
  <2> QED
    BY <2>2, <2>3
<1>5. thrown \subseteq 1 .. L
  BY <1>1, <1>3 DEF PassOK
<1>6. /\ \A i \in DOMAIN observed : /\ observed[i].after \in 1 .. L
                                    /\ observed[i].packet = transported[observed[i].after]
      /\ {observed[i].after : i \in DOMAIN observed} = (1 .. L) \ thrown
  BY <1>1, <1>3 DEF ObserversFollow
<1> HIDE DEF L
<1>7. \A i \in DOMAIN observed : /\ observed'[i].after \in 1 .. L
                                 /\ observed'[i].packet = transported'[observed'[i].after]
  BY <1>4, <1>6
<1> QED
  BY <1>3, <1>4, <1>5, <1>6, <1>7 DEF L

LEMMA GivenStep ==
    ASSUME PassInv, OnRadioPacket \/ ReceiverThrows
    PROVE  PassInv'
<1> DEFINE L == Len(transported)
<1>1. PassOK /\ Following
  BY DEF PassInv
<1>2. /\ UNCHANGED <<started, queue, arrivals, due, observed>>
      /\ worker.pc = "process" /\ Give
  BY DEF OnRadioPacket, ReceiverThrows, links
<1>3. /\ L \in Nat /\ transported' \in Seq(Packets) /\ Len(transported') = L + 1
      /\ DOMAIN transported' = 1 .. L + 1 /\ transported'[L + 1] = Packet
      /\ \A i \in DOMAIN observed' :
            /\ observed'[i].after \in 1 .. L
            /\ observed'[i].packet = transported'[observed'[i].after]
      /\ {observed'[i].after : i \in DOMAIN observed'} = (1 .. L) \ thrown
      /\ thrown \subseteq 1 .. L
  BY <1>2, Given
<1>4. \A i, j \in DOMAIN observed' : i < j => observed'[i].after < observed'[j].after
  BY <1>1, <1>2 DEF Following, ObserversFollow
<1>5. /\ worker' \in WorkerState
      /\ worker'.pc = "notify" => worker'.at \in Index /\ worker'.radio \in Radio
                                 /\ worker'.packet \in 1 .. MaxPackets
      /\ worker'.pc \in {"asleep", "notify"}
  <2>1. Asleep \in WorkerState
    BY WorkerAssumption DEF Asleep, WorkerState
  <2>2. worker' = Asleep \/ worker' = [worker EXCEPT !.pc = "notify"]
    BY DEF OnRadioPacket, ReceiverThrows
  <2>3. CASE worker' = Asleep
    BY <2>1, <2>3 DEF Asleep
  <2>4. CASE worker' = [worker EXCEPT !.pc = "notify"]
    BY <1>1, <1>2, <2>4 DEF PassOK, WorkerState
  <2> QED
    BY <2>2, <2>3, <2>4
<1> HIDE DEF L
<1>6. CASE OnRadioPacket
  <2>1. worker'.pc = "notify" /\ thrown' = thrown /\ Packet' = Packet
    BY <1>1, <1>6 DEF OnRadioPacket, PassOK, WorkerState, Packet
  <2>2. PassOK'
    BY <1>1, <1>2, <1>3, <1>5, <2>1 DEF PassOK
  <2>3. /\ {observed'[i].after : i \in DOMAIN observed'} = DOMAIN transported' \ (thrown' \union {Len(transported')})
        /\ Len(transported') \in DOMAIN transported' \ thrown'
    BY <1>3, <2>1
  <2> QED
    BY <1>3, <1>4, <2>1, <2>2, <2>3 DEF PassInv, Following, ObserversFollow
<1>7. CASE ReceiverThrows
  <2>1. worker'.pc = "asleep" /\ thrown' = thrown \union {Len(transported')}
    BY <1>7 DEF ReceiverThrows, Asleep
  <2>2. PassOK'
    BY <1>1, <1>2, <1>3, <1>5, <2>1 DEF PassOK
  <2>3. {observed'[i].after : i \in DOMAIN observed'} = DOMAIN transported' \ (thrown' \union {})
    BY <1>3, <2>1
  <2> QED
    BY <1>3, <1>4, <2>1, <2>2, <2>3 DEF PassInv, Following, ObserversFollow
<1> QED
  BY <1>6, <1>7

\* Then it goes to the observers.
LEMMA ShownStep ==
    ASSUME PassInv, NotifyPacketReceived
    PROVE  PassInv'
<1> DEFINE L == Len(transported)
           N == Len(observed)
           sight == [packet |-> Packet, after |-> L]
<1>1. PassOK /\ Following
  BY DEF PassInv
<1>2. /\ UNCHANGED <<started, queue, arrivals, due, transported, thrown>>
      /\ worker.pc = "notify" /\ worker' = [worker EXCEPT !.pc = "drain"]
      /\ observed' = Append(observed, sight)
  BY DEF NotifyPacketReceived, Show, links
<1>3. /\ Packet \in Packets /\ worker.radio \in Radio /\ worker.at \in Index
      /\ worker' \in WorkerState
      /\ worker'.pc = "drain" /\ worker'.at = worker.at /\ worker'.radio = worker.radio
  BY <1>1, <1>2 DEF PassOK, Packets, Packet, WorkerState
<1>4. /\ L \in Nat /\ DOMAIN transported = 1 .. L /\ L \in (1 .. L) \ thrown
      /\ transported[L] = Packet
  BY <1>1, <1>2, LenProperties DEF PassOK, Following
<1>5. /\ \A i \in DOMAIN observed : /\ observed[i].after \in 1 .. L
                                    /\ observed[i].packet = transported[observed[i].after]
      /\ \A i, j \in DOMAIN observed : i < j => observed[i].after < observed[j].after
      /\ {observed[i].after : i \in DOMAIN observed} = (1 .. L) \ (thrown \union {L})
  BY <1>1, <1>2, <1>4 DEF Following, ObserversFollow
<1>6. sight \in Sights /\ sight.after = L /\ sight.packet = Packet
  BY <1>3, <1>4 DEF Sights
<1> HIDE DEF L, sight
<1>7. /\ N \in Nat /\ DOMAIN observed = 1 .. N /\ DOMAIN observed' = 1 .. N + 1
      /\ observed' \in Seq(Sights)
      /\ observed'[N + 1] = sight /\ \A i \in 1 .. N : observed'[i] = observed[i]
  <2>1. observed \in Seq(Sights)
    BY <1>1 DEF PassOK
  <2>2. observed' \in Seq(Sights) /\ Len(observed') = N + 1
        /\ observed'[N + 1] = sight /\ \A i \in 1 .. N : observed'[i] = observed[i]
    BY <1>2, <1>6, <2>1, AppendProperties
  <2> QED
    BY <2>1, <2>2, LenProperties
<1> HIDE DEF N
<1>8. \A i \in 1 .. N : observed[i].after < L
  <2> SUFFICES ASSUME NEW i \in 1 .. N PROVE observed[i].after < L
    OBVIOUS
  <2>1. observed[i].after \in {observed[k].after : k \in DOMAIN observed}
    BY <1>7
  <2>2. observed[i].after \in 1 .. L /\ observed[i].after # L
    BY <1>5, <2>1
  <2> QED
    BY <1>4, <2>2
<1>9. ObserversFollow'
  <2>1. \A i \in DOMAIN observed' : /\ observed'[i].after \in DOMAIN transported'
                                    /\ observed'[i].packet = transported'[observed'[i].after]
    <3> SUFFICES ASSUME NEW i \in 1 .. N + 1
                 PROVE  /\ observed'[i].after \in DOMAIN transported
                        /\ observed'[i].packet = transported[observed'[i].after]
      BY <1>2, <1>7
    <3>1. CASE i \in 1 .. N
      BY <1>4, <1>5, <1>7, <3>1
    <3>2. CASE i = N + 1
      BY <1>4, <1>6, <1>7, <3>2
    <3> QED
      BY <1>7, <3>1, <3>2
  <2>2. \A i, j \in DOMAIN observed' : i < j => observed'[i].after < observed'[j].after
    <3> SUFFICES ASSUME NEW i \in 1 .. N + 1, NEW j \in 1 .. N + 1, i < j
                 PROVE  observed'[i].after < observed'[j].after
      BY <1>7
    <3>1. i \in 1 .. N
      BY <1>7
    <3>2. CASE j \in 1 .. N
      BY <1>5, <1>7, <3>1, <3>2
    <3>3. CASE j = N + 1
      BY <1>6, <1>7, <1>8, <3>1, <3>3
    <3> QED
      BY <1>7, <3>2, <3>3
  <2>3. {observed'[i].after : i \in DOMAIN observed'} = {observed[i].after : i \in DOMAIN observed} \union {L}
    <3>1. ASSUME NEW a PROVE (\E i \in 1 .. N + 1 : observed'[i].after = a)
                             <=> (\E i \in 1 .. N : observed[i].after = a) \/ a = L
      <4>1. N + 1 \in 1 .. N + 1 /\ \A i \in 1 .. N + 1 : i = N + 1 \/ i \in 1 .. N
        BY <1>7
      <4>2. 1 .. N \subseteq 1 .. N + 1
        BY <1>7
      <4> QED
        BY <1>6, <1>7, <4>1, <4>2
    <3> QED
      BY <1>7, <3>1
  <2>4. {observed'[i].after : i \in DOMAIN observed'} = DOMAIN transported' \ (thrown' \union {})
    BY <1>2, <1>4, <1>5, <2>3
  <2> QED
    BY <1>3, <2>1, <2>2, <2>4 DEF ObserversFollow
<1>10. PassOK'
  BY <1>1, <1>2, <1>3, <1>7 DEF PassOK
<1> QED
  BY <1>3, <1>9, <1>10 DEF PassInv, Following

LEMMA PassStep == ApplicationOK /\ PassInv /\ [Next]_vars => PassInv'
<1> SUFFICES ASSUME ApplicationOK, PassInv, [Next]_vars PROVE PassInv'
  OBVIOUS
<1>0. radios \in [Index -> Radio \union {NoRadio}]
  BY DEF ApplicationOK
<1>1. ASSUME UNCHANGED <<links, worker, logs>>, due' \in BOOLEAN PROVE PassInv'
  <2>1. UNCHANGED <<started, queue, arrivals, worker, transported, observed, thrown>>
    BY <1>1 DEF links, logs
  <2>2. Following'
    BY <1>1, FollowingKept DEF PassInv
  <2> QED
    BY <1>1, <2>1, <2>2 DEF PassInv, PassOK
<1>2. due \in BOOLEAN
  BY DEF PassInv, PassOK
<1>3. ASSUME NEW r \in Radio, AddToTransport(r) \/ AddInterface(r) PROVE PassInv'
  BY <1>1, <1>2, <1>3 DEF AddToTransport, AddInterface
<1>4. CASE TakeSlot \/ SetReceiver \/ SetWorkSignal \/ Configure \/ Shutdown \/ Detach \/ Period
  BY <1>1, <1>2, <1>4 DEF TakeSlot, SetReceiver, SetWorkSignal, Configure, Shutdown, Detach, Period
<1>5. CASE UNCHANGED vars
  BY <1>1, <1>2, <1>5 DEF vars
<1>6. CASE WorkerSteps
  BY <1>0, <1>6, ScanStep, DrainPacketStep, GivenStep, ShownStep DEF WorkerSteps
<1> QED
  BY <1>3, <1>4, <1>5, <1>6, ArriveStep DEF Next

LEMMA WorkerInvariant == Spec => []WorkerInv
<1>1. WorkerInv /\ [Next]_vars => WorkerInv'
  BY ApplicationStep, PassStep DEF WorkerInv, ApplicationInv
<1> QED
  BY <1>1, WorkerInit, PTL DEF Spec

-----------------------------------------------------------------------------
\* Every variable keeps its type, the two tables and the queues their size.
THEOREM TypeCorrect == Spec => []TypeOK
<1>1. WorkerInv => TypeOK
  <2> SUFFICES ASSUME WorkerInv PROVE TypeOK
    OBVIOUS
  <2>1. ApplicationOK /\ PassOK
    BY DEF WorkerInv, ApplicationInv, PassInv
  <2>2. adding \in [pc : {"ready", "slot", "receiver", "signal"}, radio : Radio \union {NoRadio}]
    BY <2>1 DEF ApplicationOK, Ready
  <2> QED
    BY <2>1, <2>2 DEF TypeOK, ApplicationOK, PassOK, WorkerState, Sights
<1> QED
  BY <1>1, WorkerInvariant, PTL

\* A radio whose packets or signals come to the worker is in one slot, so that
\* a pass drains it once, and the transport can answer on it: although
\* AddInterface takes the slot and wires the radio in three steps, between
\* which the worker and the radios run.
THEOREM OwnsInbound == Spec => []WorkerOwnsInbound
<1>1. WorkerInv => WorkerOwnsInbound
  <2> SUFFICES ASSUME WorkerInv, NEW r \in receiver \union signal
               PROVE  r \in interfaces /\ Cardinality(SlotsOf(r)) = 1
    BY DEF WorkerOwnsInbound
  <2>1. ApplicationOK /\ SlotFirst
    BY DEF WorkerInv, ApplicationInv
  <2>2. r \in Enlisted /\ r \in interfaces
    BY <2>1 DEF SlotFirst
  <2>3. PICK i \in Index : radios[i] = r /\ r # NoRadio
    BY <2>1, <2>2, EnlistedIs DEF ApplicationOK
  <2>4. SlotsOf(r) = {i}
    BY <2>1, <2>3 DEF SlotFirst, SlotsOf
  <2> QED
    BY <2>2, <2>4, FS_Singleton
<1> QED
  BY <1>1, WorkerInvariant, PTL

\* When the worker is gone no radio delivers to it or signals it, also those
\* that were stopped when it went.
THEOREM NoneDangles == Spec => []NothingDangles
<1>1. WorkerInv => NothingDangles
  BY DEF WorkerInv, ApplicationInv
<1> QED
  BY <1>1, WorkerInvariant, PTL

\* Of the packets the transport has had, and after it, the observers have had
\* each once, in that order, but those on which the receiver threw and the one
\* being processed.
THEOREM InOrder == Spec => []ObserversFollow
<1>1. WorkerInv => ObserversFollow
  BY DEF WorkerInv, PassInv, Following
<1> QED
  BY <1>1, WorkerInvariant, PTL
=============================================================================
