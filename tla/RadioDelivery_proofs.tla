------------------------ MODULE RadioDelivery_proofs -------------------------
(***************************************************************************)
(* Proofs about the worker's pass under SerialSpec, for any packets and    *)
(* sizes of the tables and whatever the receiver does: calls Stop, throws, *)
(* or returns.                                                             *)
(***************************************************************************)
EXTENDS RadioDelivery, RadioReassembly_proofs

Storing == At("count") \/ At("finish")
Found   == At("check") \/ At("touch") \/ At("store") \/ Storing

Counted(slot, received, last) == [slot EXCEPT !.received = received, !.last = last]

LastLength(slot, h) == IF h.idx = h.cnt - 1 THEN h.bytes ELSE slot.last

\* A slot as it will be when the pass has made the stores it has yet to make:
\* the count of the fragment, and the length of the last one.
Settled(slot) ==
    IF ~Storing THEN slot
    ELSE Counted(slot, IF At("count") THEN slot.received + 1 ELSE slot.received,
                 LastLength(slot, worker.frame))

SlotAt(s) == IF s = worker.at THEN Settled(slots[LocalNode][s]) ELSE slots[LocalNode][s]

\* What is in a slot in use, also in one that a throw left behind; any other is
\* as Reset leaves it.
Kept(slot) ==
    IF slot.used
    THEN /\ slot.key \in Key /\ slot.cnt # 0
         /\ slot.received = Cardinality(Filled(slot))
         /\ Allocation(slot.cnt, slot.chunk) <= MaxMessageBytes
    ELSE slot = FreeSlot

SlotsKept == \A s \in Slot : Kept(SlotAt(s))

\* Where the pass is, and what it has in its hands.
PassOK ==
    /\ worker.pc \in Steps /\ worker.frame \in Frame \union {NoFrame} /\ worker.at \in Slot
    /\ worker.view \in Message \union {NoView}
    /\ Entering => worker.frame \in Frame /\ Takes(LocalNode, worker.frame)
    /\ Found => here.used /\ here.key = worker.frame.key
    /\ Found /\ ~At("check") => here.cnt = worker.frame.cnt /\ here.chunk = worker.frame.chunk
    /\ ~At("idle") /\ ~Entering => worker.view \in Message

\* What was last passed on is in the pass's hands until it has been notified.
LastPassed ==
    At("lent") \/ At("notify") =>
        /\ passed # <<>> /\ Len(passed) \notin unheard
        /\ passed[Len(passed)] = [kind |-> Kind(worker.view), message |-> worker.view]

ToldOK ==
    /\ passed \in Seq(Told) /\ queued \in Seq(Told) /\ handles \subseteq Source
    /\ thrown \in Nat /\ failed \in Nat /\ unheard \subseteq DOMAIN passed

\* The fields of worker.
WorkerFields == worker = [pc |-> worker.pc, frame |-> worker.frame, at |-> worker.at,
                          view |-> worker.view, slots |-> worker.slots, touch |-> worker.touch]

DeliveryInv == WorkerFields /\ TypeOK /\ SlotsKept /\ PassOK /\ LastPassed /\ ToldOK

\* With one content for each key: slots keep to their own fragments, and what
\* is, or was, passed on is whole.
Pure ==
    /\ \A s \in Slot : SlotAt(s).used => PureIn(SlotAt(s), Frame)
    /\ ~At("idle") /\ ~Entering => WholeIn(worker.view, Frame)
    /\ \A i \in DOMAIN passed : WholeIn(passed[i].message, Frame)

\* Slots with a complete message that the pass is not at.
Strays == IF At("idle") \/ At("find") THEN Leaked ELSE Leaked \ {worker.at}

StraysThrown == Cardinality(Strays) <= thrown

\* x has i - 1 numbers of S below it.
Ranked(S, i, x) == x \in S /\ Cardinality({y \in S : y < x}) = i - 1

\* What the bridge has been told of, the message that is about to be notified
\* not being due yet.
Due == (DOMAIN passed \ unheard) \ IF At("lent") \/ At("notify") THEN {Len(passed)} ELSE {}

HeardAre(heard) ==
    /\ Cardinality(heard) + failed = Cardinality(Due)
    /\ \A i \in 1 .. Cardinality(heard) : Ranked(heard, i, Nth(heard, i))
    /\ queued = [i \in 1 .. Cardinality(heard) |-> passed[Nth(heard, i)]]

Heard == \E heard \in SUBSET Due : HeardAre(heard)

\* FindOrCreateReassembly in a table T of slots.
HoldingIn(T, k) == {s \in Slot : T[s].used /\ T[s].key = k}

SlotIn(T, k) ==
    LET free   == {s \in Slot : ~T[s].used}
        oldest == {s \in Slot : \A t \in Slot : T[s].touch <= T[t].touch}
    IN  First(IF HoldingIn(T, k) # {} THEN HoldingIn(T, k) ELSE IF free # {} THEN free ELSE oldest)

\* The slot of the pass's message, and the touch counter, before the fragment.
Fresh      == HoldingIn(worker.slots, worker.frame.key) = {}
Begun      == IF Fresh THEN OpenSlot(worker.frame, NextTouch(worker.touch))
              ELSE worker.slots[SlotIn(worker.slots, worker.frame.key)]
BegunTouch == IF Fresh THEN NextTouch(worker.touch) ELSE worker.touch
LastTouch  == NextTouch(BegunTouch)

\* How far the pass has come with the slots and the counter it began with.
Underway ==
    LET h     == worker.frame
        count == touchCounter[LocalNode]
    IN  /\ Entering => /\ worker.slots \in [Slot -> SlotRecord]
                       /\ \A s \in Slot : SlotTyped(worker.slots[s])
                       /\ worker.touch \in 0 .. TouchModulus - 1 /\ LastTouch <= MaxTouch
                       /\ Len(completed[LocalNode]) < MaxCompletions
        /\ At("find") => slots[LocalNode] = worker.slots /\ count = worker.touch
        /\ Found => /\ worker.at = SlotIn(worker.slots, h.key)
                    /\ Fresh => Allocation(h.cnt, h.chunk) <= MaxMessageBytes
                    /\ \A s \in Slot : s # worker.at => slots[LocalNode][s] = worker.slots[s]
        /\ At("check") \/ At("touch") => here = Begun /\ count = BegunTouch
        /\ Found /\ ~At("check") => Begun.cnt = h.cnt /\ Begun.chunk = h.chunk
        /\ At("store") \/ Storing => count = LastTouch
        /\ At("store") => here = [Begun EXCEPT !.touch = LastTouch]
        /\ Storing => Settled(here) = StoreIn(Begun, h, LastTouch)

-----------------------------------------------------------------------------
(* Slots.                                                                  *)

LEMMA OneNode == LocalNode \in Node /\ \A n \in Node : n = LocalNode
BY DeliveryAssumption

LEMMA SlotTypes ==
    ASSUME TypeOK, NEW s \in Slot
    PROVE  SlotTyped(slots[LocalNode][s])
BY OneNode DEF TypeOK, SlotTyped

\* What is settled is the slot but for what Settled says.
LEMMA SettledFields ==
    ASSUME NEW slot, SlotTyped(slot)
    PROVE  /\ Settled(slot).used = slot.used /\ Settled(slot).key = slot.key
           /\ Settled(slot).cnt = slot.cnt /\ Settled(slot).chunk = slot.chunk
           /\ Settled(slot).hop = slot.hop /\ Settled(slot).parts = slot.parts
           /\ Settled(slot).touch = slot.touch
           /\ Filled(Settled(slot)) = Filled(slot)
           /\ Settled(slot).received = IF At("count") THEN slot.received + 1 ELSE slot.received
           /\ ~Storing => Settled(slot) = slot
<1>1. CASE ~Storing
  BY <1>1 DEF Settled, Storing
<1>2. CASE Storing
  BY <1>2 DEF Settled, Counted, SlotTyped, SlotRecord, Filled
<1> QED
  BY <1>1, <1>2

LEMMA SettledTyped ==
    ASSUME NEW slot, SlotTyped(slot), Kept(Settled(slot)), Storing => worker.frame \in Frame
    PROVE  SlotTyped(Settled(slot))
<1>1. CASE ~Storing
  BY <1>1 DEF Settled
<1>2. CASE Storing
  <2> DEFINE received == IF At("count") THEN slot.received + 1 ELSE slot.received
             last == IF worker.frame.idx = worker.frame.cnt - 1 THEN worker.frame.bytes ELSE slot.last
             r == Settled(slot)
  <2>1. r = [slot EXCEPT !.received = received, !.last = last]
    BY <1>2 DEF Settled, Counted, LastLength
  <2>2. /\ r.used = slot.used /\ r.cnt = slot.cnt /\ r.parts = slot.parts
        /\ r.received = received
    BY SettledFields
  <2>3. last \in 0 .. MaxByte
    BY <1>2, FrameTyped DEF SlotTyped, SlotRecord
  <2>4. received \in 0 .. MaxByte
    <3>1. slot.cnt \in 0 .. MaxByte /\ MaxByte \in Nat /\ slot.cnt \in Nat
      BY FramingAssumption DEF SlotTyped, SlotRecord
    <3>2. CASE slot.used
      <4>1. r.received = Cardinality(Filled(r))
        BY <2>2, <3>2 DEF Kept
      <4>2. r.received \in Nat /\ r.received <= slot.cnt
        BY <2>2, <3>1, <4>1, FilledBounded
      <4> HIDE DEF received
      <4> QED
        BY <2>2, <3>1, <4>2
    <3>3. CASE ~slot.used
      <4>1. r = FreeSlot
        BY <2>2, <3>3 DEF Kept
      <4> QED
        BY <2>2, <3>1, <4>1 DEF FreeSlot
    <3> QED
      BY <3>2, <3>3
  <2> HIDE DEF received, last
  <2>5. r \in SlotRecord
    BY <2>1, <2>3, <2>4 DEF SlotTyped, SlotRecord
  <2> QED
    BY <2>2, <2>5 DEF SlotTyped
<1> QED
  BY <1>1, <1>2

LEMMA SlotAtTyped ==
    ASSUME TypeOK, SlotsKept, PassOK, NEW s \in Slot
    PROVE  SlotTyped(SlotAt(s)) /\ Kept(SlotAt(s))
<1>1. SlotTyped(slots[LocalNode][s]) /\ Kept(SlotAt(s))
  BY SlotTypes DEF SlotsKept
<1>2. Storing => worker.frame \in Frame
  BY DEF PassOK, Entering, Storing
<1> QED
  BY <1>1, <1>2, SettledTyped DEF SlotAt

LEMMA FreeKept == Kept(FreeSlot) /\ SlotTyped(FreeSlot)
BY FreeSlotTyped DEF Kept

\* What a step may do to a slot, all that is pending counted as done.
SlotStep(s) ==
    \/ SlotAt(s)' = SlotAt(s)
    \/ SlotAt(s)' = FreeSlot
    \/ \E h \in Frame, touch \in 0 .. TouchModulus - 1 :
          /\ DecodeHeader(h) /\ Allocation(h.cnt, h.chunk) <= MaxMessageBytes
          /\ SlotAt(s)' = OpenSlot(h, touch)
    \/ SlotAt(s).used /\ \E touch \in 0 .. TouchModulus - 1 :
          SlotAt(s)' = [SlotAt(s) EXCEPT !.touch = touch]
    \/ \E h \in Frame :
          /\ DecodeHeader(h)
          /\ SlotAt(s).used /\ SlotAt(s).key = h.key
          /\ SlotAt(s).cnt = h.cnt /\ SlotAt(s).chunk = h.chunk
          /\ SlotAt(s)' = StoreIn(SlotAt(s), h, SlotAt(s).touch)

\* A slot after such a step.
LEMMA TouchedFields ==
    ASSUME NEW slot, SlotTyped(slot), NEW touch \in 0 .. TouchModulus - 1
    PROVE  LET r == [slot EXCEPT !.touch = touch]
           IN  /\ SlotTyped(r) /\ Filled(r) = Filled(slot)
               /\ r.used = slot.used /\ r.key = slot.key /\ r.cnt = slot.cnt /\ r.chunk = slot.chunk
               /\ r.received = slot.received /\ r.parts = slot.parts /\ r.last = slot.last
               /\ r.hop = slot.hop
<1> DEFINE r == [slot EXCEPT !.touch = touch]
<1>1. /\ r.used = slot.used /\ r.key = slot.key /\ r.cnt = slot.cnt /\ r.chunk = slot.chunk
      /\ r.received = slot.received /\ r.parts = slot.parts /\ r.last = slot.last
      /\ r.hop = slot.hop /\ r \in SlotRecord
  BY DEF SlotTyped, SlotRecord
<1> QED
  BY <1>1 DEF SlotTyped, Filled

LEMMA StepKeeps ==
    ASSUME TypeOK, SlotsKept, PassOK, \A s \in Slot : SlotStep(s)
    PROVE  SlotsKept'
<1> SUFFICES ASSUME NEW s \in Slot PROVE Kept(SlotAt(s)')
  BY DEF SlotsKept, Kept, Filled
<1> DEFINE b == SlotAt(s)
           r == SlotAt(s)'
<1>1. SlotTyped(b) /\ Kept(b) /\ SlotStep(s)
  BY SlotAtTyped
<1>2. CASE r = b \/ r = FreeSlot
  BY <1>1, <1>2, FreeKept
<1>3. ASSUME NEW h \in Frame, NEW touch \in 0 .. TouchModulus - 1, DecodeHeader(h),
             Allocation(h.cnt, h.chunk) <= MaxMessageBytes, r = OpenSlot(h, touch)
      PROVE  Kept(r)
  BY <1>3, OpenFits, FrameTyped, FS_EmptySet DEF Kept, DecodeHeader
<1>4. ASSUME b.used, NEW touch \in 0 .. TouchModulus - 1, r = [b EXCEPT !.touch = touch]
      PROVE  Kept(r)
  BY <1>1, <1>4, TouchedFields DEF Kept
<1>5. ASSUME NEW h \in Frame, DecodeHeader(h), b.used, b.key = h.key, b.cnt = h.cnt, b.chunk = h.chunk,
             r = StoreIn(b, h, b.touch)
      PROVE  Kept(r)
  <2>1. b.touch \in 0 .. TouchModulus - 1 /\ h.idx < h.cnt
    BY <1>1, <1>5 DEF SlotTyped, SlotRecord, DecodeHeader
  <2>2. b.received = Cardinality(Filled(b))
    BY <1>1, <1>5 DEF Kept
  <2> HIDE DEF b, r
  <2>3. /\ r.used = b.used /\ r.key = b.key /\ r.cnt = b.cnt /\ r.chunk = b.chunk
        /\ r.received = Cardinality(Filled(r))
    BY <1>1, <1>5, <2>1, <2>2, StoreInFits
  <2> QED
    BY <1>1, <1>5, <2>3 DEF Kept
<1> QED
  BY <1>1, <1>2, <1>3, <1>4, <1>5 DEF SlotStep

LEMMA StepPure ==
    ASSUME OneContentIn(Frame), TypeOK, SlotsKept, PassOK, Pure, \A s \in Slot : SlotStep(s)
    PROVE  \A s \in Slot : SlotAt(s)'.used => PureIn(SlotAt(s)', Frame)
<1> SUFFICES ASSUME NEW s \in Slot, SlotAt(s)'.used PROVE PureIn(SlotAt(s)', Frame)
  OBVIOUS
<1> DEFINE b == SlotAt(s)
           r == SlotAt(s)'
<1>1. SlotTyped(b) /\ SlotStep(s) /\ (b.used => PureIn(b, Frame))
  BY SlotAtTyped DEF Pure
<1>2. CASE r = b \/ r = FreeSlot
  BY <1>1, <1>2, FreeSlotTyped
<1>3. ASSUME NEW h \in Frame, NEW touch \in 0 .. TouchModulus - 1, DecodeHeader(h), r = OpenSlot(h, touch)
      PROVE  PureIn(r, Frame)
  BY <1>3, OpenFits DEF PureIn
<1>4. ASSUME b.used, NEW touch \in 0 .. TouchModulus - 1, r = [b EXCEPT !.touch = touch]
      PROVE  PureIn(r, Frame)
  BY <1>1, <1>4, TouchedFields DEF PureIn, From
<1>5. ASSUME NEW h \in Frame, DecodeHeader(h), b.used, b.key = h.key, b.cnt = h.cnt, b.chunk = h.chunk,
             r = StoreIn(b, h, b.touch)
      PROVE  PureIn(r, Frame)
  <2> HIDE DEF b, r
  <2> QED
    BY <1>1, <1>5, StoreInPure
<1> QED
  BY <1>1, <1>2, <1>3, <1>4, <1>5 DEF SlotStep

-----------------------------------------------------------------------------
(* What the steps have in common.                                          *)

LEMMA GotoFields ==
    ASSUME WorkerFields, NEW pc, Goto(pc)
    PROVE  /\ WorkerFields' /\ worker'.pc = pc
           /\ worker'.frame = worker.frame /\ worker'.at = worker.at /\ worker'.view = worker.view
           /\ worker'.slots = worker.slots /\ worker'.touch = worker.touch
BY DEF Goto, WorkerFields

LEMMA ReturnFields ==
    ASSUME Return
    PROVE  WorkerFields' /\ PassOK' /\ LastPassed' /\ worker'.pc = "idle" /\ ~Storing'
<1>1. /\ worker' = Idle /\ worker'.pc = "idle" /\ worker'.frame = NoFrame /\ worker'.at = 0
      /\ worker'.view = NoView
  BY DEF Return, Idle
<1>2. WorkerFields'
  BY <1>1 DEF WorkerFields, Idle
<1>3. 0 \in Slot
  BY ReassemblyAssumption DEF Slot
<1>4. PassOK'
  BY <1>1, <1>3 DEF PassOK, Steps, Entering, Found, Storing, At
<1> QED
  BY <1>1, <1>2, <1>4 DEF LastPassed, Storing, At

LEMMA TakesKept ==
    ASSUME Takes(LocalNode, worker.frame), UNCHANGED recent, worker'.frame = worker.frame
    PROVE  Takes(LocalNode, worker.frame)'
BY DEF Takes, IsRecent

LEMMA ToldKept == ASSUME ToldOK, UNCHANGED told PROVE ToldOK'
BY DEF ToldOK, told, bridgeVars

LEMMA TypesKept ==
    ASSUME TypeOK,
           slots' \in [Node -> [Slot -> SlotRecord]],
           \A m \in Node, t \in Slot : DOMAIN slots'[m][t].parts = 0 .. slots'[m][t].cnt - 1,
           touchCounter' \in [Node -> 0 .. TouchModulus - 1], UNCHANGED tables
    PROVE  TypeOK'
BY DEF TypeOK, tables

LEMMA TypesUnchanged == ASSUME TypeOK, UNCHANGED vars PROVE TypeOK'
BY DEF TypeOK, vars

LEMMA TouchTyped ==
    ASSUME TypeOK
    PROVE  /\ touchCounter[LocalNode] \in 0 .. TouchModulus - 1
           /\ NextTouch(touchCounter[LocalNode]) \in 0 .. TouchModulus - 1
           /\ [touchCounter EXCEPT ![LocalNode] = NextTouch(touchCounter[LocalNode])]
                 \in [Node -> 0 .. TouchModulus - 1]
<1>1. touchCounter[LocalNode] \in 0 .. TouchModulus - 1
  BY OneNode DEF TypeOK
<1>2. NextTouch(touchCounter[LocalNode]) \in 0 .. TouchModulus - 1
  BY <1>1, NextTouchTyped
<1> QED
  BY <1>1, <1>2 DEF TypeOK

\* A step that neither makes a store nor leaves one pending.
LEMMA QuietSlots ==
    ASSUME UNCHANGED slots, ~Storing, ~Storing'
    PROVE  \A s \in Slot : SlotStep(s)
<1>1. \A s \in Slot : SlotAt(s)' = SlotAt(s)
  BY DEF SlotAt, Settled
<1> QED
  BY <1>1 DEF SlotStep

\* A step that writes one slot, its own if stores to it were pending.
LEMMA WriteEffect ==
    ASSUME TypeOK, NEW x \in Slot, NEW new, SlotTyped(new),
           slots' = [slots EXCEPT ![LocalNode][x] = new],
           Storing => x = worker.at, ~Storing'
    PROVE  /\ slots' \in [Node -> [Slot -> SlotRecord]]
           /\ \A m \in Node, t \in Slot : DOMAIN slots'[m][t].parts = 0 .. slots'[m][t].cnt - 1
           /\ \A s \in Slot : slots'[LocalNode][s] = IF s = x THEN new ELSE slots[LocalNode][s]
           /\ \A s \in Slot : SlotAt(s)' = IF s = x THEN new ELSE SlotAt(s)
<1>1. /\ slots' \in [Node -> [Slot -> SlotRecord]]
      /\ \A m \in Node, t \in Slot : DOMAIN slots'[m][t].parts = 0 .. slots'[m][t].cnt - 1
      /\ \A m \in Node, t \in Slot :
            slots'[m][t] = IF m = LocalNode /\ t = x THEN new ELSE slots[m][t]
  BY OneNode, SlotWritten
<1>2. \A s \in Slot : slots'[LocalNode][s] = IF s = x THEN new ELSE slots[LocalNode][s]
  BY <1>1, OneNode
<1>3. \A s \in Slot : SlotAt(s)' = slots'[LocalNode][s]
  BY DEF SlotAt, Settled
<1>4. \A s \in Slot : s # x => SlotAt(s) = slots[LocalNode][s]
  BY DEF SlotAt, Settled
<1> QED
  BY <1>1, <1>2, <1>3, <1>4

\* What is kept, and how a step gets there.
Steady == /\ (WorkerFields /\ TypeOK /\ PassOK /\ LastPassed /\ ToldOK)'
          /\ \A s \in Slot : SlotStep(s)

\* The pass ends with a slot freed, whatever else it does to it.
LEMMA FreedAtReturn ==
    ASSUME DeliveryInv, NEW x \in Slot, slots' = [slots EXCEPT ![LocalNode][x] = FreeSlot],
           Storing => x = worker.at, Return,
           touchCounter' \in [Node -> 0 .. TouchModulus - 1], UNCHANGED <<tables, told>>
    PROVE  Steady
<1>1. TypeOK /\ ToldOK
  BY DEF DeliveryInv
<1>2. WorkerFields' /\ PassOK' /\ LastPassed' /\ ~Storing'
  BY ReturnFields
<1>3. /\ slots' \in [Node -> [Slot -> SlotRecord]]
      /\ \A m \in Node, t \in Slot : DOMAIN slots'[m][t].parts = 0 .. slots'[m][t].cnt - 1
      /\ \A s \in Slot : SlotAt(s)' = IF s = x THEN FreeSlot ELSE SlotAt(s)
  BY <1>1, <1>2, FreeSlotTyped, WriteEffect
<1>4. \A s \in Slot : SlotStep(s)
  BY <1>3 DEF SlotStep
<1> QED
  BY <1>1, <1>2, <1>3, <1>4, TypesKept, ToldKept DEF Steady

-----------------------------------------------------------------------------
(* The steps of a pass.                                                    *)

LEMMA AcceptKeeps ==
    ASSUME DeliveryInv, NEW h \in Frame, Accept(h)
    PROVE  Steady
<1>1. TypeOK /\ ToldOK /\ At("idle")
  BY DEF DeliveryInv, Accept
<1>2. /\ worker' = [Idle EXCEPT !.pc = "find", !.frame = h,
                                !.slots = slots[LocalNode], !.touch = touchCounter[LocalNode]]
      /\ Takes(LocalNode, h) /\ UNCHANGED vars /\ UNCHANGED told /\ UNCHANGED slots /\ UNCHANGED recent
  BY DEF Accept, vars
<1>3. worker'.pc = "find" /\ worker'.frame = h /\ worker'.at = 0 /\ worker'.view = NoView /\ WorkerFields'
  BY <1>2 DEF Idle, WorkerFields
<1>4. 0 \in Slot
  BY ReassemblyAssumption DEF Slot
<1>5. Takes(LocalNode, worker.frame)'
  BY <1>2, <1>3 DEF Takes, IsRecent
<1>6. PassOK' /\ LastPassed' /\ ~Storing'
  BY <1>3, <1>4, <1>5 DEF PassOK, LastPassed, Steps, Entering, Found, Storing, At
<1>7. ~Storing
  BY <1>1 DEF Storing, At
<1> QED
  BY <1>1, <1>2, <1>3, <1>6, <1>7, QuietSlots, TypesUnchanged, ToldKept DEF Steady

LEMMA FindHeldKeeps == ASSUME DeliveryInv, FindHeld PROVE Steady
<1> DEFINE s == SlotFor(LocalNode, worker.frame.key)
<1>1. TypeOK /\ ToldOK /\ PassOK /\ WorkerFields /\ worker.pc = "find"
  BY DEF DeliveryInv, FindHeld, At
<1>2. /\ Holding(LocalNode, worker.frame.key) # {} /\ UNCHANGED vars /\ UNCHANGED told
      /\ UNCHANGED slots /\ UNCHANGED recent /\ worker' = [worker EXCEPT !.pc = "check", !.at = s]
  BY DEF FindHeld, vars
<1>3. s \in Slot /\ s \in Holding(LocalNode, worker.frame.key)
  BY <1>1, <1>2, OneNode, SlotForIsSlot
<1> HIDE DEF s
<1>4. /\ worker'.pc = "check" /\ worker'.at = s /\ WorkerFields'
      /\ worker'.frame = worker.frame /\ worker'.view = worker.view
  BY <1>1, <1>2 DEF WorkerFields
<1>5. worker.frame \in Frame /\ Takes(LocalNode, worker.frame)'
  BY <1>1, <1>2, <1>4, TakesKept DEF PassOK, Entering, At
<1>6. here'.used /\ here'.key = worker'.frame.key
  BY <1>2, <1>3, <1>4 DEF here, Holding
<1>7. PassOK' /\ LastPassed' /\ ~Storing' /\ ~Storing
  BY <1>1, <1>3, <1>4, <1>5, <1>6 DEF PassOK, LastPassed, Steps, Entering, Found, Storing, At
<1> QED
  BY <1>1, <1>2, <1>4, <1>7, QuietSlots, TypesUnchanged, ToldKept DEF Steady

\* The slot that is taken for a new message is free by then.
LEMMA CandidateIsFree ==
    ASSUME DeliveryInv, At("find"), Holding(LocalNode, worker.frame.key) = {}
    PROVE  SlotFor(LocalNode, worker.frame.key) \in Slot /\ Candidate = FreeSlot
<1> DEFINE s == SlotFor(LocalNode, worker.frame.key)
<1>1. TypeOK /\ SlotsKept /\ s \in Slot
  BY OneNode, SlotForIsSlot DEF DeliveryInv
<1>2. CASE FreeSlots(LocalNode) # {}
  <2>1. s = First(FreeSlots(LocalNode)) /\ FreeSlots(LocalNode) \in SUBSET Nat
    BY <1>2 DEF SlotFor, FreeSlots, Slot
  <2>2. s \in FreeSlots(LocalNode)
    BY <1>2, <2>1, FirstIsLeast
  <2>3. ~slots[LocalNode][s].used /\ SlotAt(s) = slots[LocalNode][s] /\ Kept(SlotAt(s))
    BY <1>1, <2>2 DEF FreeSlots, SlotAt, Settled, Storing, At, SlotsKept
  <2> QED
    BY <1>1, <1>2, <2>3 DEF Kept, Candidate
<1>3. CASE FreeSlots(LocalNode) = {}
  BY <1>1, <1>3 DEF Candidate
<1> QED
  BY <1>2, <1>3

LEMMA OpenedFree ==
    ASSUME NEW h \in Frame, NEW touch \in 0 .. TouchModulus - 1, DecodeHeader(h)
    PROVE  Opened(FreeSlot, h, touch) = OpenSlot(h, touch)
<1> DEFINE b == OpenSlot(h, touch)
<1>1. FreeSlot.received = 0 /\ FreeSlot.last = 0
  BY DEF FreeSlot
<1>2. b \in SlotRecord /\ b.received = 0
  BY OpenFits DEF SlotTyped
<1>3. b.last = 0
  BY DEF OpenSlot
<1> HIDE DEF b
<1>4. [b EXCEPT !.received = 0, !.last = 0] = b
  BY <1>2, <1>3 DEF SlotRecord
<1> QED
  BY <1>1, <1>4 DEF Opened, b

LEMMA CreateKeeps == ASSUME DeliveryInv, Create PROVE Steady
<1> DEFINE s == SlotFor(LocalNode, worker.frame.key)
           h == worker.frame
           touch == NextTouch(touchCounter[LocalNode])
<1>1. TypeOK /\ ToldOK /\ PassOK /\ WorkerFields /\ worker.pc = "find" /\ At("find") /\ ~Storing
  BY DEF DeliveryInv, Create, At, Storing
<1>2. Holding(LocalNode, h.key) = {} /\ UNCHANGED <<tables, told>> /\ UNCHANGED recent
  BY DEF Create, tables
<1>3. s \in Slot /\ Candidate = FreeSlot /\ h \in Frame /\ Takes(LocalNode, h)
  BY <1>1, <1>2, CandidateIsFree DEF PassOK, Entering
<1>4. CASE TooLarge(LocalNode, h)
  <2>1. slots' = [slots EXCEPT ![LocalNode][s] = FreeSlot] /\ UNCHANGED touchCounter /\ Return
    BY <1>3, <1>4 DEF Create
  <2>2. touchCounter' \in [Node -> 0 .. TouchModulus - 1]
    BY <1>1, <2>1 DEF TypeOK
  <2> HIDE DEF s
  <2> QED
    BY <1>1, <1>2, <1>3, <2>1, <2>2, FreedAtReturn
<1>5. CASE ~TooLarge(LocalNode, h)
  <2>1. /\ slots' = [slots EXCEPT ![LocalNode][s] = OpenSlot(h, touch)]
        /\ touchCounter' = [touchCounter EXCEPT ![LocalNode] = touch]
        /\ worker' = [worker EXCEPT !.pc = "check", !.at = s]
    <3>1. touch \in 0 .. TouchModulus - 1 /\ DecodeHeader(h)
      BY <1>1, <1>3, TouchTyped DEF Takes
    <3>2. Opened(FreeSlot, h, touch) = OpenSlot(h, touch)
      BY <1>3, <3>1, OpenedFree
    <3> QED
      BY <1>3, <1>5, <3>2 DEF Create
  <2>2. touch \in 0 .. TouchModulus - 1 /\ touchCounter' \in [Node -> 0 .. TouchModulus - 1]
    BY <1>1, <2>1, TouchTyped
  <2>3. DecodeHeader(h) /\ Allocation(h.cnt, h.chunk) <= MaxMessageBytes
    <3>1. h.cnt \in Nat /\ h.chunk \in Nat /\ MaxMessageBytes \in Nat
      BY <1>3, FrameTyped, FramingAssumption
    <3>2. h.cnt * h.chunk \in Nat
      BY <3>1
    <3>3. Allocation(h.cnt, h.chunk) = h.cnt * h.chunk
      BY DEF Allocation
    <3> QED
      BY <1>2, <1>3, <1>5, <3>1, <3>2, <3>3 DEF TooLarge, Takes
  <2> HIDE DEF s, touch
  <2>4. /\ worker'.pc = "check" /\ worker'.at = s /\ WorkerFields'
        /\ worker'.frame = worker.frame /\ worker'.view = worker.view
    BY <1>1, <2>1 DEF WorkerFields
  <2>5. OpenSlot(h, touch).used /\ OpenSlot(h, touch).key = h.key /\ SlotTyped(OpenSlot(h, touch))
    BY <1>3, <2>2, <2>3, OpenFits
  <2>6. ~Storing'
    BY <2>4 DEF Storing, At
  <2>7. /\ slots' \in [Node -> [Slot -> SlotRecord]]
        /\ \A m \in Node, t \in Slot : DOMAIN slots'[m][t].parts = 0 .. slots'[m][t].cnt - 1
        /\ slots'[LocalNode][s] = OpenSlot(h, touch)
        /\ \A t \in Slot : SlotAt(t)' = IF t = s THEN OpenSlot(h, touch) ELSE SlotAt(t)
    <3>1. PICK new : new = OpenSlot(h, touch)
      OBVIOUS
    <3>2. TypeOK /\ s \in Slot /\ SlotTyped(new) /\ ~Storing'
      BY <1>1, <1>3, <2>5, <2>6, <3>1
    <3>3. slots' = [slots EXCEPT ![LocalNode][s] = new] /\ (Storing => s = worker.at)
      BY <1>1, <2>1, <3>1
    <3>4. /\ slots' \in [Node -> [Slot -> SlotRecord]]
          /\ \A m \in Node, t \in Slot : DOMAIN slots'[m][t].parts = 0 .. slots'[m][t].cnt - 1
          /\ \A t \in Slot : slots'[LocalNode][t] = IF t = s THEN new ELSE slots[LocalNode][t]
          /\ \A t \in Slot : SlotAt(t)' = IF t = s THEN new ELSE SlotAt(t)
      BY <3>2, <3>3, WriteEffect
    <3> QED
      BY <1>3, <3>1, <3>4
  <2>8. \A t \in Slot : SlotStep(t)
    BY <1>3, <2>2, <2>3, <2>7 DEF SlotStep
  <2>9. TypeOK' /\ ToldOK'
    BY <1>1, <1>2, <2>2, <2>7, TypesKept, ToldKept
  <2>10. Takes(LocalNode, worker.frame)'
    BY <1>2, <1>3, <2>4, TakesKept
  <2>11. here'.used /\ here'.key = worker'.frame.key
    BY <2>4, <2>5, <2>7 DEF here
  <2>12. PassOK' /\ LastPassed'
    BY <1>1, <1>3, <2>4, <2>10, <2>11 DEF PassOK, LastPassed, Steps, Entering, Found, Storing, At
  <2> QED
    BY <2>4, <2>8, <2>9, <2>12 DEF Steady
<1> QED
  BY <1>4, <1>5

-----------------------------------------------------------------------------
(* The slot a pass has found.                                              *)

LEMMA HereTyped ==
    ASSUME DeliveryInv
    PROVE  /\ worker.at \in Slot /\ SlotTyped(here) /\ SlotAt(worker.at) = Settled(here)
           /\ SlotTyped(Settled(here)) /\ Kept(Settled(here))
<1>1. TypeOK /\ SlotsKept /\ PassOK /\ worker.at \in Slot
  BY DEF DeliveryInv, PassOK
<1>2. SlotTyped(here)
  BY <1>1, SlotTypes DEF here
<1>3. SlotTyped(SlotAt(worker.at)) /\ Kept(SlotAt(worker.at))
  BY <1>1, SlotAtTyped
<1>4. SlotAt(worker.at) = Settled(here)
  BY DEF SlotAt, here
<1> QED
  BY <1>1, <1>2, <1>3, <1>4

\* Reset of the slot, and the end of the pass.
LEMMA ResetsKeep ==
    ASSUME DeliveryInv, Write(FreeSlot), Return,
           touchCounter' \in [Node -> 0 .. TouchModulus - 1], UNCHANGED <<tables, told>>
    PROVE  Steady
<1> DEFINE x == worker.at
<1>1. x \in Slot
  BY HereTyped
<1>2. slots' = [slots EXCEPT ![LocalNode][x] = FreeSlot] /\ (Storing => x = worker.at)
  BY DEF Write
<1> HIDE DEF x
<1> QED
  BY <1>1, <1>2, FreedAtReturn

\* The pass goes on with the slot it has found.
LEMMA GoesOn ==
    ASSUME DeliveryInv, NEW pc \in {"touch", "store", "count", "finish"}, Found, Goto(pc),
           UNCHANGED <<tables, told>>,
           here'.used = here.used, here'.key = here.key, here'.cnt = here.cnt, here'.chunk = here.chunk,
           At("check") => here.cnt = worker.frame.cnt /\ here.chunk = worker.frame.chunk
    PROVE  (WorkerFields /\ PassOK /\ LastPassed /\ ToldOK)'
<1>1. WorkerFields /\ PassOK /\ ToldOK
  BY DEF DeliveryInv
<1>2. /\ WorkerFields' /\ worker'.pc = pc
      /\ worker'.frame = worker.frame /\ worker'.at = worker.at /\ worker'.view = worker.view
  BY <1>1, GotoFields
<1>3. /\ worker.frame \in Frame /\ Takes(LocalNode, worker.frame)
      /\ here.used /\ here.key = worker.frame.key
      /\ here.cnt = worker.frame.cnt /\ here.chunk = worker.frame.chunk
  BY <1>1 DEF PassOK, Found, Entering, Storing
<1>4. Takes(LocalNode, worker.frame)' /\ ToldOK'
  BY <1>1, <1>2, <1>3, TakesKept, ToldKept DEF tables
<1>5. PassOK'
  <2>1. here'.used /\ here'.key = worker'.frame.key /\ here'.cnt = worker'.frame.cnt
        /\ here'.chunk = worker'.frame.chunk
    BY <1>2, <1>3
  <2>2. worker'.frame \in Frame /\ worker'.at \in Slot /\ worker'.view \in Message \union {NoView}
        /\ worker'.pc \in Steps
    BY <1>1, <1>2, <1>3 DEF PassOK, Steps
  <2>3. (At("idle") \/ Entering)'
    BY <1>2 DEF At, Entering
  <2> QED
    BY <1>4, <2>1, <2>2, <2>3 DEF PassOK, Found, Storing, At
<1>6. LastPassed'
  BY <1>2 DEF LastPassed, At
<1> QED
  BY <1>2, <1>4, <1>5, <1>6

\* Its slot is written on the way.
LEMMA WrittenHere ==
    ASSUME TypeOK, worker.at \in Slot, NEW new, SlotTyped(new), Write(new), worker'.at = worker.at
    PROVE  /\ slots' \in [Node -> [Slot -> SlotRecord]]
           /\ \A m \in Node, t \in Slot : DOMAIN slots'[m][t].parts = 0 .. slots'[m][t].cnt - 1
           /\ here' = new
           /\ \A s \in Slot : slots'[LocalNode][s] = IF s = worker.at THEN new ELSE slots[LocalNode][s]
           /\ \A s \in Slot : s # worker.at => SlotAt(s)' = SlotAt(s)
           /\ SlotAt(worker.at)' = Settled(here)'
<1> DEFINE x == worker.at
<1>1. slots' = [slots EXCEPT ![LocalNode][x] = new] /\ x \in Slot /\ LocalNode \in Node
  BY OneNode DEF Write
<1>2. /\ slots' \in [Node -> [Slot -> SlotRecord]]
      /\ \A m \in Node, t \in Slot : DOMAIN slots'[m][t].parts = 0 .. slots'[m][t].cnt - 1
      /\ \A m \in Node, t \in Slot :
            slots'[m][t] = IF m = LocalNode /\ t = x THEN new ELSE slots[m][t]
  <2> HIDE DEF x
  <2> QED
    BY <1>1, SlotWritten
<1>3. \A s \in Slot : slots'[LocalNode][s] = IF s = worker.at THEN new ELSE slots[LocalNode][s]
  BY <1>1, <1>2
<1>4. here' = new
  BY <1>1, <1>3 DEF here
<1>5. \A s \in Slot : s # worker.at => SlotAt(s)' = SlotAt(s)
  BY <1>3 DEF SlotAt
<1>6. SlotAt(worker.at)' = Settled(here)'
  BY DEF SlotAt, here
<1> QED
  BY <1>2, <1>3, <1>4, <1>5, <1>6

LEMMA CheckKeeps == ASSUME DeliveryInv, Check PROVE Steady
<1>1. TypeOK /\ At("check") /\ UNCHANGED touchCounter /\ UNCHANGED <<tables, told>>
  BY DEF DeliveryInv, Check
<1>2. touchCounter' \in [Node -> 0 .. TouchModulus - 1]
  BY <1>1 DEF TypeOK
<1>3. CASE here.cnt # worker.frame.cnt \/ here.chunk # worker.frame.chunk
  <2>1. Write(FreeSlot) /\ Return
    BY <1>3 DEF Check
  <2> QED
    BY <1>1, <1>2, <2>1, ResetsKeep
<1>4. CASE here.cnt = worker.frame.cnt /\ here.chunk = worker.frame.chunk
  <2>1. UNCHANGED slots /\ Goto("touch") /\ Found /\ ~Storing
    BY <1>1, <1>4 DEF Check, Found, Storing, At
  <2>2. WorkerFields
    BY DEF DeliveryInv
  <2>3. worker'.pc = "touch" /\ worker'.at = worker.at
    BY <2>1, <2>2, GotoFields
  <2>4. here' = here /\ ~Storing'
    BY <2>1, <2>3 DEF here, Storing, At
  <2>5. (WorkerFields /\ PassOK /\ LastPassed /\ ToldOK)'
    BY <1>1, <1>4, <2>1, <2>4, GoesOn
  <2>6. UNCHANGED vars
    BY <1>1, <2>1 DEF vars, tables
  <2> QED
    BY <1>1, <2>1, <2>4, <2>5, <2>6, QuietSlots, TypesUnchanged DEF Steady
<1> QED
  BY <1>3, <1>4

\* Storing a fragment, one store after another.
LEMMA StoredInSteps ==
    ASSUME NEW b, SlotTyped(b), NEW h \in Frame, b.cnt = h.cnt, h.idx < h.cnt, NEW c, SlotTyped(c),
           c.used = b.used, c.key = b.key, c.cnt = b.cnt, c.chunk = b.chunk, c.hop = b.hop,
           c.last = b.last, c.received = b.received,
           c.parts = IF b.parts[h.idx] = NoData THEN [b.parts EXCEPT ![h.idx] = h.data] ELSE b.parts
    PROVE  Counted(c, IF b.parts[h.idx] = NoData THEN c.received + 1 ELSE c.received, LastLength(c, h))
              = StoreIn(b, h, c.touch)
<1> DEFINE received == IF b.parts[h.idx] = NoData THEN b.received + 1 ELSE b.received
           last == IF h.idx = h.cnt - 1 THEN h.bytes ELSE b.last
           parts == IF b.parts[h.idx] = NoData THEN [b.parts EXCEPT ![h.idx] = h.data] ELSE b.parts
           touch == c.touch
<1>1. received \in Nat /\ last \in 0 .. MaxByte /\ touch \in 0 .. TouchModulus - 1 /\ c.parts = parts
  BY FrameTyped DEF SlotTyped, SlotRecord
<1>2. StoreIn(b, h, touch) = [b EXCEPT !.touch = touch, !.parts = parts, !.received = received, !.last = last]
  BY DEF StoreIn
<1>3. Counted(c, IF b.parts[h.idx] = NoData THEN c.received + 1 ELSE c.received, LastLength(c, h))
        = [c EXCEPT !.received = received, !.last = last]
  BY DEF Counted, LastLength
<1> HIDE DEF received, last, parts, touch
<1>4. c.touch = touch
  BY DEF touch
<1> DEFINE S == [used : {b.used}, key : {b.key}, cnt : {b.cnt}, chunk : {b.chunk}, hop : {b.hop},
                 last : {last}, received : {received}, touch : {touch}, parts : {parts}]
<1>5. [b EXCEPT !.touch = touch, !.parts = parts, !.received = received, !.last = last] \in S
  BY DEF SlotTyped, SlotRecord
<1>6. [c EXCEPT !.received = received, !.last = last] \in S
  BY <1>1, <1>4 DEF SlotTyped, SlotRecord
<1>7. \A d, e \in S : d = e
  OBVIOUS
<1> HIDE DEF S
<1> QED
  BY <1>2, <1>3, <1>5, <1>6, <1>7 DEF touch

LEMMA TouchKeeps == ASSUME DeliveryInv, Touch PROVE Steady
<1> DEFINE touch == NextTouch(touchCounter[LocalNode])
           h == worker.frame
<1>1. TypeOK /\ At("touch") /\ UNCHANGED <<tables, told>>
  BY DEF DeliveryInv, Touch
<1>2. touch \in 0 .. TouchModulus - 1 /\ touchCounter' \in [Node -> 0 .. TouchModulus - 1]
  BY <1>1, TouchTyped DEF Touch
<1>3. CASE h.idx * h.chunk + h.bytes > Allocation(here.cnt, here.chunk)
  <2>1. Write(FreeSlot) /\ Return
    BY <1>3 DEF Touch
  <2> QED
    BY <1>1, <1>2, <2>1, ResetsKeep
<1>4. CASE ~(h.idx * h.chunk + h.bytes > Allocation(here.cnt, here.chunk))
  <2> DEFINE new == [here EXCEPT !.touch = touch]
  <2>1. Write(new) /\ Goto("store") /\ Found /\ ~Storing
    BY <1>1, <1>4 DEF Touch, Found, Storing, At
  <2>2. WorkerFields /\ worker.at \in Slot /\ SlotTyped(here) /\ here.used
    BY <2>1, HereTyped DEF DeliveryInv, PassOK
  <2>3. worker'.pc = "store" /\ worker'.at = worker.at
    BY <2>1, <2>2, GotoFields
  <2> HIDE DEF touch
  <2>4. /\ SlotTyped(new) /\ new.used = here.used /\ new.key = here.key
        /\ new.cnt = here.cnt /\ new.chunk = here.chunk
    BY <1>2, <2>2, TouchedFields
  <2> HIDE DEF new
  <2>5. /\ slots' \in [Node -> [Slot -> SlotRecord]]
        /\ \A m \in Node, t \in Slot : DOMAIN slots'[m][t].parts = 0 .. slots'[m][t].cnt - 1
        /\ here' = new
        /\ \A s \in Slot : s # worker.at => SlotAt(s)' = SlotAt(s)
        /\ SlotAt(worker.at)' = Settled(here)'
    BY <1>1, <2>1, <2>2, <2>3, <2>4, WrittenHere
  <2>6. (WorkerFields /\ PassOK /\ LastPassed /\ ToldOK)'
    <3>1. here'.used = here.used /\ here'.key = here.key /\ here'.cnt = here.cnt /\ here'.chunk = here.chunk
      BY <2>4, <2>5
    <3>2. ~At("check")
      BY <1>1 DEF At
    <3> QED
      BY <1>1, <2>1, <3>1, <3>2, GoesOn
  <2>7. TypeOK'
    BY <1>1, <1>2, <2>5, TypesKept
  <2>8. \A s \in Slot : SlotStep(s)
    <3>1. Settled(here)' = new /\ Settled(here) = here
      BY <2>1, <2>3, <2>5 DEF Settled, Storing, At
    <3>2. SlotAt(worker.at)' = [SlotAt(worker.at) EXCEPT !.touch = touch] /\ SlotAt(worker.at).used
      BY <2>2, <2>5, <3>1, HereTyped DEF new
    <3>3. SlotStep(worker.at)
      BY <1>2, <3>2 DEF SlotStep
    <3>4. \A s \in Slot : s # worker.at => SlotStep(s)
      BY <2>5 DEF SlotStep
    <3> QED
      BY <3>3, <3>4
  <2> QED
    BY <2>6, <2>7, <2>8 DEF Steady
<1> QED
  BY <1>3, <1>4

LEMMA PartStored ==
    ASSUME NEW b, SlotTyped(b), NEW h \in Frame, b.cnt = h.cnt, h.idx < h.cnt
    PROVE  LET c == [b EXCEPT !.parts[h.idx] = h.data]
           IN  /\ SlotTyped(c) /\ c.used = b.used /\ c.key = b.key /\ c.cnt = b.cnt /\ c.chunk = b.chunk
               /\ c.hop = b.hop /\ c.last = b.last /\ c.received = b.received /\ c.touch = b.touch
               /\ c.parts = [b.parts EXCEPT ![h.idx] = h.data]
<1> DEFINE parts == [b.parts EXCEPT ![h.idx] = h.data]
           c == [b EXCEPT !.parts = parts]
<1>1. b.parts \in [0 .. h.cnt - 1 -> Data \union {NoData}] /\ h.cnt \in 0 .. MaxByte
  BY FrameTyped DEF SlotTyped, SlotRecord
<1>2. parts \in [0 .. h.cnt - 1 -> Data \union {NoData}]
  BY <1>1, FrameTyped
<1>3. /\ parts \in UNION {[0 .. k - 1 -> Data \union {NoData}] : k \in 0 .. MaxByte}
      /\ DOMAIN parts = 0 .. h.cnt - 1
  BY <1>1, <1>2
<1> HIDE DEF parts
<1>4. /\ c \in SlotRecord /\ c.used = b.used /\ c.key = b.key /\ c.cnt = b.cnt /\ c.chunk = b.chunk
      /\ c.hop = b.hop /\ c.last = b.last /\ c.received = b.received /\ c.touch = b.touch
      /\ c.parts = parts
  BY <1>3 DEF SlotTyped, SlotRecord
<1> HIDE DEF c
<1>5. SlotTyped(c)
  BY <1>3, <1>4 DEF SlotTyped
<1>6. c = [b EXCEPT !.parts[h.idx] = h.data]
  BY DEF c, parts
<1> QED
  BY <1>4, <1>5, <1>6 DEF parts

\* The slot once its two stores, or none, are made: the fragment is in it.
LEMMA StoreEffect ==
    ASSUME DeliveryInv, Store
    PROVE  /\ WorkerFields' /\ TypeOK' /\ PassOK' /\ LastPassed' /\ ToldOK'
           /\ worker'.at = worker.at /\ worker'.frame = worker.frame
           /\ worker.frame \in Frame /\ DecodeHeader(worker.frame)
           /\ here.cnt = worker.frame.cnt /\ Storing'
           /\ Settled(here)' = StoreIn(here, worker.frame, here.touch)
           /\ \A s \in Slot : s # worker.at => /\ SlotAt(s)' = SlotAt(s)
                                              /\ slots'[LocalNode][s] = slots[LocalNode][s]
<1> DEFINE h == worker.frame
           new == here.parts[h.idx] = NoData
<1>1. /\ TypeOK /\ WorkerFields /\ At("store") /\ UNCHANGED touchCounter /\ UNCHANGED <<tables, told>>
      /\ Found /\ ~At("check")
  BY DEF DeliveryInv, Store, Found, At
<1>2. /\ worker.at \in Slot /\ SlotTyped(here) /\ h \in Frame /\ DecodeHeader(h)
      /\ here.cnt = h.cnt
  BY <1>1, HereTyped DEF DeliveryInv, PassOK, Entering, Takes, At
<1>3. h.idx < h.cnt /\ h.idx \in DOMAIN here.parts
  BY <1>2, FrameTyped DEF DecodeHeader, SlotTyped
<1>4. /\ Goto(IF new THEN "count" ELSE "finish")
      /\ IF new THEN Write([here EXCEPT !.parts[h.idx] = h.data]) ELSE UNCHANGED slots
  BY <1>3 DEF Store
<1>5. /\ worker'.pc = IF new THEN "count" ELSE "finish"
      /\ worker'.at = worker.at /\ worker'.frame = worker.frame
  BY <1>1, <1>4, GotoFields
<1>6. /\ slots' \in [Node -> [Slot -> SlotRecord]]
      /\ \A m \in Node, t \in Slot : DOMAIN slots'[m][t].parts = 0 .. slots'[m][t].cnt - 1
      /\ \A s \in Slot : s # worker.at => SlotAt(s)' = SlotAt(s) /\ slots'[LocalNode][s] = slots[LocalNode][s]
      /\ SlotTyped(here)' /\ here'.used = here.used /\ here'.key = here.key
      /\ here'.cnt = here.cnt /\ here'.chunk = here.chunk /\ here'.hop = here.hop
      /\ here'.last = here.last /\ here'.received = here.received /\ here'.touch = here.touch
      /\ here'.parts = IF new THEN [here.parts EXCEPT ![h.idx] = h.data] ELSE here.parts
  <2>1. CASE new
    <3> DEFINE c == [here EXCEPT !.parts[h.idx] = h.data]
    <3>1. /\ SlotTyped(c) /\ c.used = here.used /\ c.key = here.key /\ c.cnt = here.cnt
          /\ c.chunk = here.chunk /\ c.hop = here.hop /\ c.last = here.last
          /\ c.received = here.received /\ c.touch = here.touch
          /\ c.parts = [here.parts EXCEPT ![h.idx] = h.data]
      BY <1>2, <1>3, PartStored
    <3>2. Write(c)
      BY <1>4, <2>1
    <3> HIDE DEF c
    <3>3. /\ slots' \in [Node -> [Slot -> SlotRecord]]
          /\ \A m \in Node, t \in Slot : DOMAIN slots'[m][t].parts = 0 .. slots'[m][t].cnt - 1
          /\ here' = c
          /\ \A s \in Slot : slots'[LocalNode][s] = IF s = worker.at THEN c ELSE slots[LocalNode][s]
          /\ \A s \in Slot : s # worker.at => SlotAt(s)' = SlotAt(s)
      BY <1>1, <1>2, <1>5, <3>1, <3>2, WrittenHere
    <3>4. SlotTyped(here)'
      BY <3>1, <3>3 DEF SlotTyped
    <3> QED
      BY <2>1, <3>1, <3>3, <3>4
  <2>2. CASE ~new
    <3>1. UNCHANGED slots
      BY <1>4, <2>2
    <3>2. here' = here
      BY <1>5, <3>1 DEF here
    <3>3. \A s \in Slot : s # worker.at => SlotAt(s)' = SlotAt(s) /\ slots'[LocalNode][s] = slots[LocalNode][s]
      BY <1>5, <3>1 DEF SlotAt
    <3>4. SlotTyped(here)'
      BY <1>2, <3>2 DEF SlotTyped
    <3> QED
      BY <1>1, <2>2, <3>1, <3>2, <3>3, <3>4 DEF TypeOK
  <2> QED
    BY <2>1, <2>2
<1>7. Storing' /\ (At("count")' <=> new)
  BY <1>5 DEF Storing, At
<1>8. Settled(here)' = Counted(here', IF new THEN here'.received + 1 ELSE here'.received,
                               LastLength(here', h))
  BY <1>5, <1>7 DEF Settled
<1>9. Settled(here)' = StoreIn(here, h, here.touch)
  <2>1. PICK b, c : b = here /\ c = here'
    OBVIOUS
  <2>2. SlotTyped(b) /\ SlotTyped(c)
    BY <1>2, <1>6, <2>1 DEF SlotTyped
  <2>3. /\ b.cnt = h.cnt /\ h.idx < h.cnt /\ c.used = b.used /\ c.key = b.key /\ c.cnt = b.cnt
        /\ c.chunk = b.chunk /\ c.hop = b.hop /\ c.last = b.last /\ c.received = b.received
        /\ c.parts = IF b.parts[h.idx] = NoData THEN [b.parts EXCEPT ![h.idx] = h.data] ELSE b.parts
    BY <1>2, <1>3, <1>6, <2>1
  <2>4. Counted(c, IF b.parts[h.idx] = NoData THEN c.received + 1 ELSE c.received, LastLength(c, h))
           = StoreIn(b, h, c.touch)
    BY <1>2, <2>2, <2>3, StoredInSteps
  <2> QED
    BY <1>6, <1>8, <2>1, <2>4
<1>10. (WorkerFields /\ PassOK /\ LastPassed /\ ToldOK)'
  <2>1. PICK pc \in {"touch", "store", "count", "finish"} : Goto(pc)
    BY <1>4
  <2> QED
    BY <1>1, <1>6, <2>1, GoesOn
<1>11. TypeOK'
  BY <1>1, <1>6, TypesKept DEF TypeOK
<1> QED
  BY <1>2, <1>5, <1>6, <1>7, <1>9, <1>10, <1>11

LEMMA StoreKeeps == ASSUME DeliveryInv, Store PROVE Steady
<1>1. /\ WorkerFields' /\ TypeOK' /\ PassOK' /\ LastPassed' /\ ToldOK' /\ worker'.at = worker.at
      /\ worker.frame \in Frame /\ DecodeHeader(worker.frame)
      /\ Settled(here)' = StoreIn(here, worker.frame, here.touch)
      /\ \A s \in Slot : s # worker.at => SlotAt(s)' = SlotAt(s)
  BY StoreEffect
<1>2. SlotAt(worker.at)' = Settled(here)' /\ SlotAt(worker.at) = here
  BY DEF SlotAt, here, Settled, Store, Storing, At
<1>3. /\ here.used /\ here.key = worker.frame.key
      /\ here.cnt = worker.frame.cnt /\ here.chunk = worker.frame.chunk
  BY DEF DeliveryInv, PassOK, Store, Found, At
<1>4. SlotStep(worker.at)
  <2>1. SlotAt(worker.at)' = StoreIn(SlotAt(worker.at), worker.frame, SlotAt(worker.at).touch)
    BY <1>1, <1>2
  <2> QED
    BY <1>1, <1>2, <1>3, <2>1 DEF SlotStep
<1>5. \A s \in Slot : s # worker.at => SlotStep(s)
  BY <1>1 DEF SlotStep
<1> QED
  BY <1>1, <1>4, <1>5 DEF Steady

LEMMA SameCounted ==
    ASSUME NEW b, NEW c, SlotTyped(b), SlotTyped(c), NEW received, NEW last,
           c.used = b.used, c.key = b.key, c.cnt = b.cnt, c.chunk = b.chunk, c.hop = b.hop,
           c.touch = b.touch, c.parts = b.parts
    PROVE  /\ Counted(b, received, last) = Counted(c, received, last)
           /\ Counted(c, c.received, c.last) = c
<1> DEFINE S == [used : {b.used}, key : {b.key}, cnt : {b.cnt}, chunk : {b.chunk}, hop : {b.hop},
                 last : {last}, received : {received}, touch : {b.touch}, parts : {b.parts}]
<1>1. Counted(b, received, last) \in S
  BY DEF SlotTyped, SlotRecord, Counted
<1>2. Counted(c, received, last) \in S
  BY DEF SlotTyped, SlotRecord, Counted
<1>3. \A d, e \in S : d = e
  OBVIOUS
<1>4. Counted(c, c.received, c.last) = c
  BY DEF SlotTyped, SlotRecord, Counted
<1> HIDE DEF S
<1> QED
  BY <1>1, <1>2, <1>3, <1>4

\* What Finish holds is the slot as it was to be.
Finished == IF worker.frame.idx = worker.frame.cnt - 1
            THEN [here EXCEPT !.last = worker.frame.bytes] ELSE here

LEMMA FinishedIsSettled ==
    ASSUME DeliveryInv, At("finish")
    PROVE  /\ Finished = Settled(here) /\ SlotTyped(Finished) /\ Kept(Finished)
           /\ Finished.used /\ Finished.key = worker.frame.key
           /\ Finished.cnt = worker.frame.cnt /\ Finished.chunk = worker.frame.chunk
<1> DEFINE h == worker.frame
           b == here
           c == Finished
<1>1. /\ SlotTyped(b) /\ SlotTyped(Settled(b)) /\ Kept(Settled(b)) /\ h \in Frame
      /\ b.used /\ b.key = h.key /\ b.cnt = h.cnt /\ b.chunk = h.chunk
  BY HereTyped DEF DeliveryInv, PassOK, Entering, Found, Storing, At
<1>2. Settled(b) = Counted(b, b.received, LastLength(b, h))
  BY DEF Settled, Storing, At
<1>3. /\ c.used = b.used /\ c.key = b.key /\ c.cnt = b.cnt /\ c.chunk = b.chunk /\ c.hop = b.hop
      /\ c.touch = b.touch /\ c.parts = b.parts /\ c.received = b.received
      /\ c.last = LastLength(b, h) /\ c \in SlotRecord
  BY <1>1, FrameTyped DEF Finished, LastLength, SlotTyped, SlotRecord
<1>4. SlotTyped(c)
  BY <1>1, <1>3 DEF SlotTyped
<1> HIDE DEF b, c, h
<1>5. c = Counted(b, b.received, LastLength(b, h))
  <2>1. Counted(c, c.received, c.last) = c
    BY <1>4, SameCounted
  <2>2. SlotTyped(b) /\ SlotTyped(c)
    BY <1>1, <1>4
  <2>3. /\ c.used = b.used /\ c.key = b.key /\ c.cnt = b.cnt /\ c.chunk = b.chunk /\ c.hop = b.hop
        /\ c.touch = b.touch /\ c.parts = b.parts
    BY <1>3
  <2>4. Counted(b, c.received, c.last) = Counted(c, c.received, c.last)
    BY <2>2, <2>3, SameCounted
  <2> QED
    BY <1>3, <2>1, <2>4
<1> QED
  BY <1>1, <1>2, <1>3, <1>4, <1>5 DEF b, c, h

\* Counting leaves the slot what it was to be.
LEMMA CountEffect ==
    ASSUME DeliveryInv, Count
    PROVE  /\ WorkerFields' /\ TypeOK' /\ PassOK' /\ LastPassed' /\ ToldOK'
           /\ worker'.at = worker.at
           /\ Settled(here)' = Settled(here)
           /\ \A s \in Slot : SlotAt(s)' = SlotAt(s)
           /\ \A s \in Slot : s # worker.at => slots'[LocalNode][s] = slots[LocalNode][s]
<1> DEFINE c == [here EXCEPT !.received = @ + 1]
<1>1. /\ TypeOK /\ WorkerFields /\ At("count") /\ UNCHANGED touchCounter /\ UNCHANGED <<tables, told>>
      /\ Found /\ ~At("check") /\ Storing /\ Write(c) /\ Goto("finish")
  BY DEF DeliveryInv, Count, Found, Storing, At
<1>2. /\ worker.at \in Slot /\ SlotTyped(here) /\ SlotTyped(Settled(here))
      /\ SlotAt(worker.at) = Settled(here)
      /\ Settled(here) = Counted(here, here.received + 1, LastLength(here, worker.frame))
      /\ Settled(here).received = here.received + 1
  BY <1>1, HereTyped, SettledFields DEF Settled
<1>3. here.received + 1 \in 0 .. MaxByte
  BY <1>2 DEF SlotTyped, SlotRecord
<1>4. /\ c \in SlotRecord /\ c.used = here.used /\ c.key = here.key /\ c.cnt = here.cnt /\ c.chunk = here.chunk
      /\ c.hop = here.hop /\ c.touch = here.touch /\ c.parts = here.parts /\ c.last = here.last
      /\ c.received = here.received + 1
  BY <1>2, <1>3 DEF SlotTyped, SlotRecord
<1> HIDE DEF c
<1>5. SlotTyped(c)
  BY <1>2, <1>4 DEF SlotTyped
<1>6. worker'.pc = "finish" /\ worker'.at = worker.at /\ worker'.frame = worker.frame
  BY <1>1, GotoFields
<1>7. /\ slots' \in [Node -> [Slot -> SlotRecord]]
      /\ \A m \in Node, t \in Slot : DOMAIN slots'[m][t].parts = 0 .. slots'[m][t].cnt - 1
      /\ here' = c
      /\ \A s \in Slot : slots'[LocalNode][s] = IF s = worker.at THEN c ELSE slots[LocalNode][s]
      /\ \A s \in Slot : s # worker.at => SlotAt(s)' = SlotAt(s)
      /\ SlotAt(worker.at)' = Settled(here)'
  BY <1>1, <1>2, <1>5, <1>6, WrittenHere
<1>8. Settled(here)' = Counted(c, c.received, LastLength(c, worker.frame))
  BY <1>6, <1>7 DEF Settled, Storing, At
<1>9. Settled(here)' = Settled(here)
  <2>1. LastLength(c, worker.frame) = LastLength(here, worker.frame)
    BY <1>4 DEF LastLength
  <2>2. PICK b : b = here
    OBVIOUS
  <2>3. Counted(b, b.received + 1, LastLength(b, worker.frame)) = Counted(c, b.received + 1, LastLength(b, worker.frame))
    BY <1>2, <1>4, <1>5, <2>2, SameCounted
  <2> QED
    BY <1>2, <1>4, <1>8, <2>1, <2>2, <2>3
<1>10. \A s \in Slot : SlotAt(s)' = SlotAt(s)
  BY <1>2, <1>6, <1>7, <1>9
<1>11. (WorkerFields /\ PassOK /\ LastPassed /\ ToldOK)'
  <2>1. here'.used = here.used /\ here'.key = here.key /\ here'.cnt = here.cnt /\ here'.chunk = here.chunk
    BY <1>4, <1>7
  <2> QED
    BY <1>1, <2>1, GoesOn
<1>12. TypeOK'
  BY <1>1, <1>7, TypesKept DEF TypeOK
<1>13. \A s \in Slot : s # worker.at => slots'[LocalNode][s] = slots[LocalNode][s]
  BY <1>7
<1> QED
  BY <1>6, <1>9, <1>10, <1>11, <1>12, <1>13

LEMMA CountKeeps == ASSUME DeliveryInv, Count PROVE Steady
BY CountEffect DEF Steady, SlotStep

-----------------------------------------------------------------------------
(* Complete, and what follows it.                                          *)

\* Finish, Takes having ruled out that the message is recent.
LEMMA FinishEffect ==
    ASSUME DeliveryInv, Finish
    PROVE  /\ Write(Finished) /\ UNCHANGED touchCounter /\ UNCHANGED told
           /\ \/ Finished.received # Finished.cnt /\ Return /\ UNCHANGED tables
              \/ /\ Finished.received = Finished.cnt
                 /\ Remember(LocalNode, Finished.key)
                 /\ completed' = [completed EXCEPT ![LocalNode] = Append(@, MessageOf(Finished))]
                 /\ worker' = [worker EXCEPT !.pc = Branch(MessageOf(Finished)),
                                             !.view = MessageOf(Finished)]
<1>1. At("finish") /\ UNCHANGED touchCounter /\ UNCHANGED told
  BY DEF Finish
<1>2. IF Finished.received = Finished.cnt THEN Complete(Finished)
      ELSE Write(Finished) /\ Return /\ UNCHANGED tables
  BY DEF Finish, Finished
<1>3. Finished.used /\ ~IsRecent(LocalNode, Finished.key)
  BY <1>1, FinishedIsSettled DEF DeliveryInv, PassOK, Entering, Takes
<1>4. CASE Finished.received = Finished.cnt
  BY <1>1, <1>2, <1>3, <1>4 DEF Complete
<1> QED
  BY <1>1, <1>2, <1>4

LEMMA FinishKeeps == ASSUME DeliveryInv, Finish PROVE Steady
<1>1. /\ TypeOK /\ PassOK /\ WorkerFields /\ ToldOK /\ At("finish")
      /\ worker.at \in Slot /\ SlotAt(worker.at) = Settled(here)
  BY HereTyped DEF DeliveryInv, Finish
<1>2. /\ Finished = Settled(here) /\ SlotTyped(Finished) /\ Kept(Finished)
      /\ Finished.used /\ Finished.key = worker.frame.key /\ worker.frame \in Frame
  BY <1>1, FinishedIsSettled DEF PassOK, Entering
<1>3. Write(Finished) /\ UNCHANGED touchCounter /\ UNCHANGED told
  BY FinishEffect
<1>4. ToldOK' /\ touchCounter' \in [Node -> 0 .. TouchModulus - 1]
  BY <1>1, <1>3, ToldKept DEF TypeOK
<1>5. ASSUME ~Storing'
      PROVE  /\ slots' \in [Node -> [Slot -> SlotRecord]]
             /\ \A m \in Node, t \in Slot : DOMAIN slots'[m][t].parts = 0 .. slots'[m][t].cnt - 1
             /\ \A s \in Slot : SlotStep(s)
  <2>1. PICK new : new = Finished
    OBVIOUS
  <2>2. PICK x \in Slot : x = worker.at
    BY <1>1
  <2>3. slots' = [slots EXCEPT ![LocalNode][x] = new] /\ SlotTyped(new)
    BY <1>2, <1>3, <2>1, <2>2 DEF Write
  <2>4. TypeOK /\ (Storing => x = worker.at) /\ ~Storing'
    BY <1>1, <1>5, <2>2
  <2>5. /\ slots' \in [Node -> [Slot -> SlotRecord]]
        /\ \A m \in Node, t \in Slot : DOMAIN slots'[m][t].parts = 0 .. slots'[m][t].cnt - 1
        /\ \A s \in Slot : SlotAt(s)' = IF s = x THEN new ELSE SlotAt(s)
    BY <2>3, <2>4, WriteEffect
  <2>6. \A s \in Slot : SlotAt(s)' = SlotAt(s)
    BY <1>1, <1>2, <2>1, <2>2, <2>5
  <2> QED
    BY <2>5, <2>6 DEF SlotStep
<1>6. CASE Return /\ UNCHANGED tables
  <2>1. WorkerFields' /\ PassOK' /\ LastPassed' /\ ~Storing'
    BY <1>6, ReturnFields
  <2>2. TypeOK'
    BY <1>1, <1>4, <1>5, <1>6, <2>1, TypesKept
  <2> QED
    BY <1>4, <1>5, <2>1, <2>2 DEF Steady
<1>7. CASE /\ Finished.received = Finished.cnt
           /\ Remember(LocalNode, Finished.key)
           /\ completed' = [completed EXCEPT ![LocalNode] = Append(@, MessageOf(Finished))]
           /\ worker' = [worker EXCEPT !.pc = Branch(MessageOf(Finished)), !.view = MessageOf(Finished)]
  <2>1. MessageOf(Finished) \in Message /\ Finished.key \in Key
    BY <1>2, <1>7, MessageTyped DEF Kept
  <2>2. /\ worker'.pc \in {"receive", "forward", "reset"} /\ worker'.view \in Message /\ WorkerFields'
        /\ worker'.frame = worker.frame /\ worker'.at = worker.at
    BY <1>1, <1>7, <2>1 DEF WorkerFields, Branch
  <2>3. ~Storing' /\ PassOK' /\ LastPassed'
    BY <1>1, <1>2, <2>2 DEF PassOK, LastPassed, Steps, Entering, Found, Storing, At
  <2>4. PICK m \in Message : m = MessageOf(Finished)
    BY <2>1
  <2>5. PICK k \in Key : k = Finished.key
    BY <2>1
  <2>6. Remember(LocalNode, k) /\ completed' = [completed EXCEPT ![LocalNode] = Append(@, m)]
    BY <1>7, <2>4, <2>5
  <2>7. /\ recent' \in [Node -> [Ring -> Key \union {NoKey}]]
        /\ recentCursor' \in [Node -> Ring] /\ completed' \in [Node -> Seq(Message)]
    BY <1>1, <2>6, OneNode, RememberTyped
  <2>8. TypeOK'
    BY <1>4, <1>5, <2>3, <2>7 DEF TypeOK
  <2> QED
    BY <1>4, <1>5, <2>2, <2>3, <2>8 DEF Steady
<1> QED
  BY <1>6, <1>7, FinishEffect

\* Steps with the message in hand that leave the slots alone.
LEMMA InHand ==
    ASSUME DeliveryInv, NEW pc \in {"lent", "notify", "reset"}, Goto(pc), UNCHANGED vars,
           ~At("idle"), ~Entering
    PROVE  /\ WorkerFields' /\ TypeOK' /\ PassOK' /\ worker'.pc = pc
           /\ worker'.view = worker.view /\ \A s \in Slot : SlotStep(s)
<1>1. TypeOK /\ PassOK /\ WorkerFields /\ UNCHANGED slots
  BY DEF DeliveryInv, vars
<1>2. /\ WorkerFields' /\ worker'.pc = pc /\ worker'.frame = worker.frame /\ worker'.at = worker.at
      /\ worker'.view = worker.view
  BY <1>1, GotoFields
<1>3. ~Storing /\ ~Storing'
  BY <1>2 DEF Storing, Entering, At
<1>4. PassOK'
  BY <1>1, <1>2 DEF PassOK, Steps, Entering, Found, Storing, At
<1> QED
  BY <1>1, <1>2, <1>3, <1>4, QuietSlots, TypesUnchanged

LEMMA PassOnKeeps ==
    ASSUME DeliveryInv, NEW pc \in {"lent", "notify"}, PassOn(pc), ~At("idle"), ~Entering
    PROVE  Steady
<1>1. /\ ToldOK /\ PassOK /\ Goto(pc) /\ UNCHANGED vars /\ UNCHANGED <<bridgeVars, thrown, unheard>>
      /\ passed' = Append(passed, [kind |-> Kind(worker.view), message |-> worker.view])
  BY DEF DeliveryInv, PassOn
<1>2. /\ WorkerFields' /\ TypeOK' /\ PassOK' /\ worker'.pc = pc
      /\ worker'.view = worker.view /\ \A s \in Slot : SlotStep(s)
  BY <1>1, InHand
<1>3. worker.view \in Message
  BY <1>1 DEF PassOK
<1> DEFINE new == [kind |-> Kind(worker.view), message |-> worker.view]
<1>4. new \in Told
  BY <1>3 DEF Told, Kind
<1>5. new' = new
  BY <1>2 DEF Kind
<1>6. passed \in Seq(Told) /\ passed' = Append(passed, new)
  BY <1>1 DEF ToldOK
<1>7. unheard' \subseteq DOMAIN passed /\ Len(passed) \in Nat /\ DOMAIN passed = 1 .. Len(passed)
  BY <1>1, <1>6, LenProperties DEF ToldOK
<1> HIDE DEF new
<1>8. /\ passed' \in Seq(Told) /\ passed' # <<>> /\ Len(passed') = Len(passed) + 1
      /\ DOMAIN passed' = 1 .. Len(passed) + 1 /\ passed'[Len(passed')] = new
  BY <1>4, <1>6, <1>7, AppendProperties, EmptySeq, LenProperties
<1>9. ToldOK'
  BY <1>1, <1>7, <1>8 DEF ToldOK, bridgeVars
<1>10. LastPassed'
  <2>1. Len(passed') \notin unheard'
    BY <1>7, <1>8
  <2>2. passed'[Len(passed')] = [kind |-> Kind(worker.view), message |-> worker.view]'
    BY <1>5, <1>8 DEF new
  <2> QED
    BY <1>8, <2>1, <2>2 DEF LastPassed
<1> QED
  BY <1>2, <1>9, <1>10 DEF Steady

LEMMA ReceiveKeeps == ASSUME DeliveryInv, Receive \/ Forward PROVE Steady
BY PassOnKeeps DEF Receive, Forward, Entering, At

LEMMA ReceiverReturnsKeeps == ASSUME DeliveryInv, ReceiverReturns PROVE Steady
<1>1. At("lent") /\ Goto("notify") /\ UNCHANGED vars /\ UNCHANGED told /\ ~At("idle") /\ ~Entering
  BY DEF ReceiverReturns, Entering, At
<1>2. /\ WorkerFields' /\ TypeOK' /\ PassOK' /\ worker'.view = worker.view
      /\ \A s \in Slot : SlotStep(s)
  BY <1>1, InHand
<1>3. LastPassed' /\ ToldOK'
  BY <1>1, <1>2, ToldKept DEF DeliveryInv, LastPassed, told, Kind
<1> QED
  BY <1>2, <1>3 DEF Steady

LEMMA ReceiverThrowsKeeps == ASSUME DeliveryInv, ReceiverThrows PROVE Steady
<1>1. /\ TypeOK /\ ToldOK /\ At("lent") /\ Return /\ UNCHANGED vars /\ UNCHANGED slots
      /\ thrown' = thrown + 1 /\ unheard' = unheard \union {Len(passed)}
      /\ UNCHANGED <<bridgeVars, passed>>
  BY DEF DeliveryInv, ReceiverThrows, vars
<1>2. WorkerFields' /\ PassOK' /\ LastPassed' /\ ~Storing' /\ ~Storing
  BY <1>1, ReturnFields DEF Storing, At
<1>3. passed # <<>> /\ passed \in Seq(Told)
  BY <1>1 DEF DeliveryInv, LastPassed, ToldOK
<1>4. Len(passed) \in DOMAIN passed
  BY <1>3, EmptySeq, LenProperties
<1>5. ToldOK'
  BY <1>1, <1>4 DEF ToldOK, bridgeVars
<1> QED
  BY <1>1, <1>2, <1>5, QuietSlots, TypesUnchanged DEF Steady

LEMMA StopKeeps ==
    ASSUME DeliveryInv, Stop(LocalNode), UNCHANGED <<told, worker>>, At("idle") \/ At("lent")
    PROVE  Steady
<1>1. TypeOK /\ PassOK /\ LastPassed /\ ToldOK /\ WorkerFields
  BY DEF DeliveryInv
<1>2. /\ TypeOK' /\ \A s \in Slot : slots'[LocalNode][s] = FreeSlot
  BY <1>1, OneNode, StopEffect
<1>3. ToldOK' /\ WorkerFields' /\ LastPassed'
  BY <1>1, ToldKept DEF WorkerFields, LastPassed, told, At, Kind
<1>4. PassOK' /\ ~Storing'
  BY <1>1 DEF PassOK, Entering, Found, Storing, At
<1>5. \A s \in Slot : SlotAt(s)' = FreeSlot
  BY <1>2, <1>4 DEF SlotAt, Settled
<1> QED
  BY <1>2, <1>3, <1>4, <1>5 DEF Steady, SlotStep

\* What Notify does with the event, or without it.
LEMMA NotifyKeeps == ASSUME DeliveryInv, Notify PROVE Steady
<1> DEFINE event == Snapshot(worker.view)
<1>1. /\ ToldOK /\ PassOK /\ At("notify") /\ Goto("reset") /\ UNCHANGED vars /\ ~At("idle") /\ ~Entering
      /\ passed # <<>> /\ UNCHANGED <<passed, thrown>> /\ Observe(Transport, event)
      /\ unheard' \subseteq unheard \union {Len(passed)}
  BY DEF DeliveryInv, LastPassed, Notify, Entering, At
<1>2. /\ WorkerFields' /\ TypeOK' /\ PassOK' /\ worker'.pc = "reset"
      /\ \A s \in Slot : SlotStep(s)
  BY <1>1, InHand
<1>3. LastPassed'
  BY <1>2 DEF LastPassed, At
<1>4. event \in Told
  BY <1>1 DEF PassOK, Snapshot, Told, Kind
<1> HIDE DEF event
<1>5. queued \in Seq(Told) /\ failed \in Nat /\ passed \in Seq(Told)
  BY <1>1 DEF ToldOK
<1>6. queued' \in Seq(Told) /\ failed' \in Nat /\ handles' = handles
  <2>1. Append(queued, event) \in Seq(Told)
    BY <1>4, <1>5, AppendProperties
  <2>2. /\ handles' = handles
        /\ \/ queued' = Append(queued, event) /\ failed' = failed
           \/ queued' = queued /\ (failed' = failed + 1 \/ failed' = failed)
    BY <1>1 DEF Observe
  <2> QED
    BY <1>5, <2>1, <2>2
<1>7. Len(passed) \in DOMAIN passed
  BY <1>1, <1>5, EmptySeq, LenProperties
<1>8. ToldOK'
  BY <1>1, <1>6, <1>7 DEF ToldOK
<1> QED
  BY <1>2, <1>3, <1>8 DEF Steady

LEMMA ResetSlotKeeps == ASSUME DeliveryInv, ResetSlot PROVE Steady
<1>1. Write(FreeSlot) /\ Return /\ UNCHANGED touchCounter /\ UNCHANGED <<tables, told>> /\ TypeOK
  BY DEF DeliveryInv, ResetSlot
<1>2. touchCounter' \in [Node -> 0 .. TouchModulus - 1]
  BY <1>1 DEF TypeOK
<1> QED
  BY <1>1, <1>2, ResetsKeep

\* Steps that leave the transport and its worker alone.
LEMMA ElsewhereKeeps ==
    ASSUME DeliveryInv, UNCHANGED <<vars, worker, passed, thrown, unheard>>,
           handles' \subseteq Source, UNCHANGED <<queued, failed>>
    PROVE  Steady
<1>1. WorkerFields' /\ PassOK' /\ LastPassed' /\ ToldOK' /\ TypeOK'
  BY TypesUnchanged DEF DeliveryInv, WorkerFields, PassOK, LastPassed, ToldOK, vars, Entering, Found,
     Storing, At, Takes, IsRecent, here, Kind
<1>2. \A s \in Slot : SlotAt(s)' = SlotAt(s)
  BY DEF SlotAt, Settled, Storing, At, vars
<1> QED
  BY <1>1, <1>2 DEF Steady, SlotStep

LEMMA SubscriptionsKeep == ASSUME DeliveryInv, Subscriptions PROVE Steady
<1>1. /\ handles' \subseteq Source /\ UNCHANGED <<queued, failed>>
      /\ UNCHANGED <<vars, worker, passed, thrown, unheard>>
  BY DEF DeliveryInv, ToldOK, Subscriptions, Shutdown, Subscribe
<1> QED
  BY <1>1, ElsewhereKeeps

-----------------------------------------------------------------------------
(* The invariant.                                                          *)

LEMMA DeliveryStart == DeliveryInit => DeliveryInv /\ thrown = 0 /\ passed = <<>>
<1> SUFFICES ASSUME DeliveryInit PROVE DeliveryInv /\ thrown = 0 /\ passed = <<>>
  OBVIOUS
<1>1. TypeOK /\ \A s \in Slot : slots[LocalNode][s] = FreeSlot
  BY TypeInit, OneNode DEF DeliveryInit, TypeInv, Init
<1>2. /\ worker.pc = "idle" /\ worker.frame = NoFrame /\ worker.at = 0 /\ worker.view = NoView
      /\ WorkerFields
  BY DEF DeliveryInit, Idle, WorkerFields
<1>3. ~Storing /\ 0 \in Slot
  BY <1>2, ReassemblyAssumption DEF Storing, At, Slot
<1>4. SlotsKept
  BY <1>1, <1>3, FreeKept DEF SlotsKept, SlotAt, Settled
<1>5. PassOK /\ LastPassed
  BY <1>2, <1>3 DEF PassOK, LastPassed, Steps, Entering, Found, Storing, At
<1>6. ToldOK
  BY EmptySeq, LenProperties DEF DeliveryInit, BridgeInit, ToldOK
<1> QED
  BY <1>1, <1>2, <1>4, <1>5, <1>6 DEF DeliveryInv, DeliveryInit

LEMMA StepsAreSteady == DeliveryInv /\ [SerialNext]_deliveryVars => Steady
<1> SUFFICES ASSUME DeliveryInv, [SerialNext]_deliveryVars PROVE Steady
  OBVIOUS
<1>1. CASE \E h \in Frame : Accept(h)
  BY <1>1, AcceptKeeps
<1>2. CASE FindHeld \/ Create \/ Check \/ Touch \/ Store \/ Count \/ Finish
  BY <1>2, FindHeldKeeps, CreateKeeps, CheckKeeps, TouchKeeps, StoreKeeps, CountKeeps, FinishKeeps
<1>3. CASE Receive \/ Forward
  BY <1>3, ReceiveKeeps
<1>4. CASE ReceiverReturns \/ ReceiverThrows \/ Notify \/ ResetSlot
  BY <1>4, ReceiverReturnsKeeps, ReceiverThrowsKeeps, NotifyKeeps, ResetSlotKeeps
<1>5. CASE ReceiverStops \/ (At("idle") /\ ApplicationStops)
  BY <1>5, StopKeeps DEF ReceiverStops, ApplicationStops
<1>6. CASE Subscriptions
  BY <1>6, SubscriptionsKeep
<1>7. CASE UNCHANGED deliveryVars
  <2>1. handles' \subseteq Source /\ UNCHANGED <<queued, failed>>
    BY <1>7 DEF DeliveryInv, ToldOK, deliveryVars, bridgeVars
  <2> QED
    BY <1>7, <2>1, ElsewhereKeeps DEF deliveryVars
<1> QED
  BY <1>1, <1>2, <1>3, <1>4, <1>5, <1>6, <1>7 DEF SerialNext, Pass

LEMMA DeliveryStep == DeliveryInv /\ [SerialNext]_deliveryVars => DeliveryInv'
<1> SUFFICES ASSUME DeliveryInv, [SerialNext]_deliveryVars PROVE DeliveryInv'
  OBVIOUS
<1>1. Steady
  BY StepsAreSteady
<1>2. SlotsKept'
  BY <1>1, StepKeeps DEF Steady, DeliveryInv
<1> QED
  BY <1>1, <1>2 DEF Steady, DeliveryInv

LEMMA DeliveryInvariant == SerialSpec => []DeliveryInv
BY DeliveryStart, DeliveryStep, PTL DEF SerialSpec

\* Whatever the packets and the receiver, the pass, what was passed on and what
\* was queued of it keep their types.
THEOREM DeliveryTypeCorrect == SerialSpec => []DeliveryTypeOK
<1>1. DeliveryInv => DeliveryTypeOK
  BY DEF DeliveryInv, PassOK, ToldOK, DeliveryTypeOK
<1> QED
  BY <1>1, DeliveryInvariant, PTL

-----------------------------------------------------------------------------
(* What is passed on is whole.                                             *)

\* All but Finish take the view as it is, or have none, and all but Receive and
\* Forward pass nothing on.
LEMMA HandSteps ==
    ASSUME DeliveryInv, [SerialNext]_deliveryVars
    PROVE  \/ Finish
           \/ Receive \/ Forward
           \/ /\ passed' = passed
              /\ \/ (At("idle") \/ Entering)'
                 \/ ~At("idle") /\ ~Entering /\ worker'.view = worker.view
<1> DEFINE Goal == /\ passed' = passed
                   /\ \/ (At("idle") \/ Entering)'
                      \/ ~At("idle") /\ ~Entering /\ worker'.view = worker.view
<1>1. WorkerFields /\ \A pc : Goto(pc) => worker'.pc = pc /\ worker'.view = worker.view
  BY GotoFields DEF DeliveryInv
<1>2. Return => At("idle")'
  BY ReturnFields DEF At
<1>3. ASSUME NEW h \in Frame, Accept(h) PROVE Goal
  BY <1>3 DEF Accept, Idle, told, At, Entering
<1>4. CASE FindHeld
  BY <1>1, <1>4 DEF FindHeld, told, At, Entering, WorkerFields
<1>5. CASE Create
  <2>1. passed' = passed /\ (Return \/ worker' = [worker EXCEPT !.pc = "check", !.at = SlotFor(LocalNode, worker.frame.key)])
    BY <1>5 DEF Create, told
  <2>2. (At("idle") \/ Entering)'
    BY <1>1, <1>2, <2>1 DEF At, Entering, WorkerFields
  <2> QED
    BY <2>1, <2>2
<1>6. CASE Check \/ Touch
  <2>1. passed' = passed /\ (Return \/ Goto("touch") \/ Goto("store"))
    BY <1>6 DEF Check, Touch, told
  <2>2. (At("idle") \/ Entering)'
    BY <1>1, <1>2, <2>1 DEF At, Entering
  <2> QED
    BY <2>1, <2>2
<1>7. CASE Store \/ Count
  <2>1. passed' = passed /\ (Goto("count") \/ Goto("finish"))
    BY <1>7 DEF Store, Count, told
  <2>2. (At("idle") \/ Entering)'
    BY <1>1, <2>1 DEF At, Entering
  <2> QED
    BY <2>1, <2>2
<1>8. CASE ReceiverReturns
  BY <1>1, <1>8 DEF ReceiverReturns, told, At, Entering
<1>9. CASE ReceiverThrows \/ ResetSlot
  BY <1>2, <1>9 DEF ReceiverThrows, ResetSlot, told
<1>10. CASE Notify
  BY <1>1, <1>10 DEF Notify, At, Entering
<1>11. CASE ReceiverStops \/ Subscriptions \/ (At("idle") /\ ApplicationStops) \/ UNCHANGED deliveryVars
  <2>1. passed' = passed /\ worker' = worker
    BY <1>11 DEF ReceiverStops, Subscriptions, ApplicationStops, told, deliveryVars
  <2> QED
    BY <2>1 DEF At, Entering
<1> QED
  BY <1>3, <1>4, <1>5, <1>6, <1>7, <1>8, <1>9, <1>10, <1>11 DEF SerialNext, Pass

LEMMA FinishedIsWhole ==
    ASSUME OneContentIn(Frame), DeliveryInv, Pure, At("finish"), Finished.received = Finished.cnt
    PROVE  WholeIn(MessageOf(Finished), Frame)
<1>1. /\ Finished = Settled(here) /\ SlotTyped(Finished) /\ Kept(Finished) /\ Finished.used
  BY FinishedIsSettled
<1>2. PureIn(Finished, Frame)
  BY <1>1, HereTyped DEF Pure
<1>3. Finished.cnt # 0 /\ Finished.received = Cardinality(Filled(Finished))
  BY <1>1 DEF Kept
<1> HIDE DEF Finished
<1> QED
  BY <1>1, <1>2, <1>3, SlotIsWhole

LEMMA PureStep ==
    ASSUME OneContentIn(Frame), DeliveryInv, Pure, [SerialNext]_deliveryVars
    PROVE  Pure'
<1>1. /\ TypeOK /\ SlotsKept /\ PassOK /\ WorkerFields /\ \A s \in Slot : SlotStep(s)
      /\ passed \in Seq(Told)
  BY StepsAreSteady DEF DeliveryInv, ToldOK, Steady
<1>2. \A s \in Slot : SlotAt(s)'.used => PureIn(SlotAt(s)', Frame)
  BY <1>1, StepPure
<1>3. (~At("idle") /\ ~Entering => WholeIn(worker.view, Frame)) /\ \A i \in DOMAIN passed : WholeIn(passed[i].message, Frame)
  BY DEF Pure
<1>4. /\ (~At("idle") /\ ~Entering)' => WholeIn(worker'.view, Frame)
      /\ \A i \in DOMAIN passed' : WholeIn(passed'[i].message, Frame)
  <2>1. CASE Finish
    <3>1. At("finish") /\ passed' = passed
      BY <2>1 DEF Finish, told
    <3>2. CASE Return
      BY <1>3, <3>1, <3>2, ReturnFields DEF At
    <3>3. CASE ~Return
      <4>1. /\ Finished.received = Finished.cnt
            /\ worker' = [worker EXCEPT !.pc = Branch(MessageOf(Finished)), !.view = MessageOf(Finished)]
        BY <2>1, <3>3, FinishEffect
      <4>2. worker'.view = MessageOf(Finished)
        BY <1>1, <4>1 DEF WorkerFields
      <4> QED
        BY <1>3, <3>1, <4>1, <4>2, FinishedIsWhole
    <3> QED
      BY <3>2, <3>3
  <2>2. CASE Receive \/ Forward
    <3>1. /\ passed' = Append(passed, [kind |-> Kind(worker.view), message |-> worker.view])
          /\ ~At("idle") /\ ~Entering /\ \E pc : Goto(pc)
      BY <2>2 DEF Receive, Forward, PassOn, Entering, At
    <3>2. worker'.view = worker.view /\ WholeIn(worker.view, Frame)
      BY <1>1, <1>3, <3>1, GotoFields
    <3>3. PICK new : new = [kind |-> Kind(worker.view), message |-> worker.view]
      OBVIOUS
    <3>4. new.message = worker.view /\ new \in Told
      BY <1>1, <3>1, <3>3 DEF PassOK, Told, Kind
    <3>5. /\ DOMAIN passed' = 1 .. Len(passed) + 1 /\ Len(passed) \in Nat
          /\ passed'[Len(passed) + 1] = new /\ \A i \in 1 .. Len(passed) : passed'[i] = passed[i]
      BY <1>1, <3>1, <3>3, <3>4, AppendProperties, LenProperties
    <3>6. DOMAIN passed = 1 .. Len(passed)
      BY <1>1, LenProperties
    <3>7. ASSUME NEW i \in DOMAIN passed' PROVE WholeIn(passed'[i].message, Frame)
      <4>1. i \in DOMAIN passed \/ i = Len(passed) + 1
        BY <3>5, <3>6
      <4> QED
        BY <1>3, <3>2, <3>4, <3>5, <3>6, <4>1
    <3> QED
      BY <3>2, <3>7
  <2>3. CASE /\ passed' = passed
             /\ \/ (At("idle") \/ Entering)'
                \/ ~At("idle") /\ ~Entering /\ worker'.view = worker.view
    BY <1>3, <2>3
  <2> QED
    BY <2>1, <2>2, <2>3, HandSteps
<1> QED
  BY <1>2, <1>4 DEF Pure, PureIn, From, Filled, WholeIn

\* If no two messages share an identity, what the receiver is given and what is
\* forwarded is a complete message, whatever the receiver does between two
\* passes or in one, a slot that it left behind by throwing included.
THEOREM PassedOnIsWhole ==
    ASSUME OneContentPerKey
    PROVE  SerialSpec => []PassedOnWhole
<1>1. OneContentIn(Frame)
  BY DEF OneContentIn, OneContentPerKey
<1>2. DeliveryInit => DeliveryInv /\ Pure
  <2> SUFFICES ASSUME DeliveryInit PROVE DeliveryInv /\ Pure
    OBVIOUS
  <2>1. DeliveryInv /\ passed = <<>> /\ At("idle") /\ ~Storing
    BY DeliveryStart DEF DeliveryInit, Idle, At, Storing
  <2>2. \A s \in Slot : ~SlotAt(s).used
    BY <2>1, OneNode, FreeSlotTyped DEF DeliveryInit, Init, SlotAt, Settled
  <2>3. DOMAIN passed = {}
    BY <2>1
  <2> QED
    BY <2>1, <2>2, <2>3 DEF Pure
<1>3. DeliveryInv /\ Pure /\ [SerialNext]_deliveryVars => (DeliveryInv /\ Pure)'
  BY <1>1, DeliveryStep, PureStep
<1>4. Pure => PassedOnWhole
  BY DEF Pure, PassedOnWhole, Whole, WholeIn
<1> QED
  BY <1>2, <1>3, <1>4, PTL DEF SerialSpec

-----------------------------------------------------------------------------
(* Slots that are not given back.                                          *)

Full(slot) == slot.used /\ slot.received >= slot.cnt

LEMMA WriteOthers ==
    ASSUME TypeOK, worker.at \in Slot, NEW new, Write(new)
    PROVE  \A s \in Slot : slots'[LocalNode][s] = IF s = worker.at THEN new ELSE slots[LocalNode][s]
BY OneNode DEF TypeOK, Write

\* Only a receiver that throws leaves a slot behind.
LEMMA StraysStep ==
    ASSUME DeliveryInv, [SerialNext]_deliveryVars
    PROVE  ReceiverThrows \/ (thrown' = thrown /\ Strays' \subseteq Strays)
<1>1. /\ TypeOK /\ WorkerFields /\ worker.at \in Slot
      /\ \A pc : Goto(pc) => worker'.pc = pc /\ worker'.at = worker.at
  BY GotoFields DEF DeliveryInv, PassOK
<1>2. /\ Leaked = {s \in Slot : Full(slots[LocalNode][s])}
      /\ Leaked' = {s \in Slot : Full(slots'[LocalNode][s])}
  BY DEF Leaked, Full
<1>3. ~Full(FreeSlot)
  BY FreeSlotTyped DEF Full
<1>4. ASSUME ~At("idle"), ~At("find"),
             \A s \in Slot : s # worker.at => slots'[LocalNode][s] = slots[LocalNode][s],
             \/ ~Full(slots'[LocalNode][worker.at])
             \/ worker'.at = worker.at /\ ~(At("idle") \/ At("find"))'
      PROVE  Strays' \subseteq Strays
  BY <1>2, <1>4 DEF Strays
<1>5. ASSUME \A s \in Slot : Full(slots'[LocalNode][s]) => Full(slots[LocalNode][s]),
             At("idle") \/ At("find") \/ UNCHANGED worker
      PROVE  Strays' \subseteq Strays
  BY <1>2, <1>5 DEF Strays, At
<1>6. CASE (\E h \in Frame : Accept(h)) \/ FindHeld
  BY <1>5, <1>6 DEF Accept, FindHeld, vars, told
<1>7. CASE Create
  <2> DEFINE s == SlotFor(LocalNode, worker.frame.key)
  <2>1. thrown' = thrown /\ At("find") /\ s \in Slot /\ Candidate = FreeSlot
    BY <1>7, CandidateIsFree DEF Create, told
  <2>2. PICK new : slots' = [slots EXCEPT ![LocalNode][s] = new]
    BY <1>7 DEF Create
  <2>3. \A t \in Slot : slots'[LocalNode][t] = IF t = s THEN new ELSE slots[LocalNode][t]
    BY <1>1, <2>1, <2>2, OneNode DEF TypeOK
  <2>4. CASE TooLarge(LocalNode, worker.frame)
    <3>1. slots' = [slots EXCEPT ![LocalNode][s] = FreeSlot]
      BY <1>7, <2>1, <2>4 DEF Create
    <3>2. \A t \in Slot : slots'[LocalNode][t] = IF t = s THEN FreeSlot ELSE slots[LocalNode][t]
      BY <1>1, <2>1, <3>1, OneNode DEF TypeOK
    <3> QED
      BY <1>3, <1>5, <2>1, <3>2
  <2>5. CASE ~TooLarge(LocalNode, worker.frame)
    <3>1. worker' = [worker EXCEPT !.pc = "check", !.at = s]
      BY <1>7, <2>5 DEF Create
    <3>2. worker'.at = s /\ ~(At("idle") \/ At("find"))'
      BY <1>1, <3>1 DEF WorkerFields, At
    <3> QED
      BY <1>2, <2>1, <2>3, <3>2 DEF Strays
  <2> QED
    BY <2>4, <2>5
<1>8. CASE Check \/ Touch \/ ResetSlot
  <2>1. thrown' = thrown /\ ~At("idle") /\ ~At("find")
    BY <1>8 DEF Check, Touch, ResetSlot, told, At
  <2>2. CASE Write(FreeSlot)
    BY <1>1, <1>3, <1>4, <2>1, <2>2, WriteOthers
  <2>3. CASE ~Write(FreeSlot)
    <3>1. (UNCHANGED slots \/ \E new : Write(new)) /\ \E pc \in {"touch", "store"} : Goto(pc)
      BY <1>8, <2>3 DEF Check, Touch, ResetSlot
    <3>2. worker'.at = worker.at /\ ~(At("idle") \/ At("find"))'
      BY <1>1, <3>1 DEF At
    <3>3. \A s \in Slot : s # worker.at => slots'[LocalNode][s] = slots[LocalNode][s]
      BY <1>1, <3>1, WriteOthers
    <3> QED
      BY <1>4, <2>1, <3>2, <3>3
  <2> QED
    BY <2>2, <2>3
<1>9. CASE Store \/ Count
  <2>1. /\ thrown' = thrown /\ ~At("idle") /\ ~At("find")
        /\ (UNCHANGED slots \/ \E new : Write(new)) /\ \E pc \in {"count", "finish"} : Goto(pc)
    BY <1>9 DEF Store, Count, told, At
  <2>2. worker'.at = worker.at /\ ~(At("idle") \/ At("find"))'
    BY <1>1, <2>1 DEF At
  <2>3. \A s \in Slot : s # worker.at => slots'[LocalNode][s] = slots[LocalNode][s]
    BY <1>1, <2>1, WriteOthers
  <2> QED
    BY <1>4, <2>1, <2>2, <2>3
<1>10. CASE Finish
  <2>1. At("finish") /\ thrown' = thrown /\ ~At("idle") /\ ~At("find") /\ Write(Finished)
    BY <1>10, FinishEffect DEF Finish, told, At
  <2>2. \A s \in Slot : slots'[LocalNode][s] = IF s = worker.at THEN Finished ELSE slots[LocalNode][s]
    BY <1>1, <2>1, WriteOthers
  <2>3. SlotTyped(Finished) /\ Kept(Finished) /\ Finished.used
    BY <2>1, FinishedIsSettled
  <2>4. CASE Finished.received # Finished.cnt
    <3>1. Finished.cnt \in Nat /\ Finished.received = Cardinality(Filled(Finished))
      BY <2>3, FramingAssumption DEF SlotTyped, SlotRecord, Kept
    <3>2. ~Full(Finished)
      <4>1. Finished.received \in Nat /\ Finished.received <= Finished.cnt
        BY <3>1, FilledBounded
      <4> QED
        BY <2>4, <3>1, <4>1 DEF Full
    <3> QED
      BY <1>1, <1>4, <2>1, <2>2, <3>2
  <2>5. CASE Finished.received = Finished.cnt
    <3>1. worker' = [worker EXCEPT !.pc = Branch(MessageOf(Finished)), !.view = MessageOf(Finished)]
      BY <1>10, <2>5, FinishEffect
    <3>2. worker'.at = worker.at /\ worker'.pc \in {"receive", "forward", "reset"}
      BY <1>1, <3>1 DEF WorkerFields, Branch
    <3> QED
      BY <1>4, <2>1, <2>2, <3>2 DEF At
  <2> QED
    BY <2>4, <2>5
<1>11. CASE Receive \/ Forward \/ ReceiverReturns \/ Notify
  <2>1. /\ thrown' = thrown /\ UNCHANGED slots /\ ~At("idle") /\ ~At("find")
        /\ \E pc \in {"lent", "notify", "reset"} : Goto(pc)
    BY <1>11 DEF Receive, Forward, PassOn, ReceiverReturns, Notify, vars, told, At
  <2>2. worker'.at = worker.at /\ ~(At("idle") \/ At("find"))'
    BY <1>1, <2>1 DEF At
  <2> QED
    BY <1>4, <2>1, <2>2
<1>12. CASE ReceiverStops \/ (At("idle") /\ ApplicationStops)
  <2>1. UNCHANGED worker /\ thrown' = thrown /\ Stop(LocalNode)
    BY <1>12 DEF ReceiverStops, ApplicationStops, told
  <2>2. \A s \in Slot : slots'[LocalNode][s] = FreeSlot
    BY <1>1, <2>1, OneNode, StopEffect
  <2> QED
    BY <1>3, <1>5, <2>1, <2>2
<1>13. CASE Subscriptions \/ UNCHANGED deliveryVars
  BY <1>5, <1>13 DEF Subscriptions, deliveryVars, vars
<1> QED
  BY <1>6, <1>7, <1>8, <1>9, <1>10, <1>11, <1>12, <1>13 DEF SerialNext, Pass

LEMMA StraysThrownStep ==
    ASSUME DeliveryInv, StraysThrown, [SerialNext]_deliveryVars
    PROVE  StraysThrown'
<1>1. /\ thrown \in Nat /\ IsFiniteSet(Slot) /\ \A S \in SUBSET Slot : IsFiniteSet(S)
  <2>1. IsFiniteSet(0 .. MaxReassemblies - 1)
    BY ReassemblyAssumption, FS_Interval
  <2> QED
    BY <2>1, FS_Subset DEF Slot, DeliveryInv, ToldOK
<1>2. Strays \in SUBSET Slot /\ Strays' \in SUBSET Slot /\ Cardinality(Strays) \in Nat /\ Cardinality(Strays') \in Nat
  BY <1>1, FS_CardinalityType DEF Strays, Leaked
<1>3. CASE thrown' = thrown /\ Strays' \subseteq Strays
  <2>1. Cardinality(Strays') <= Cardinality(Strays)
    BY <1>1, <1>2, <1>3, FS_Subset
  <2> QED
    BY <1>1, <1>2, <1>3, <2>1 DEF StraysThrown
<1>4. CASE ReceiverThrows
  <2>1. thrown' = thrown + 1 /\ Strays' \subseteq Strays \union {worker.at}
    BY <1>4 DEF ReceiverThrows, Strays, Leaked, vars, At
  <2>2. IsFiniteSet(Strays \union {worker.at}) /\ Cardinality(Strays \union {worker.at}) <= Cardinality(Strays) + 1
    <3>1. IsFiniteSet(Strays) /\ Cardinality(Strays) \in Nat
      BY <1>1, <1>2
    <3>2. CASE worker.at \in Strays
      <4>1. Strays \union {worker.at} = Strays
        BY <3>2
      <4> QED
        BY <3>1, <4>1
    <3>3. CASE worker.at \notin Strays
      <4>1. IsFiniteSet(Strays \union {worker.at})
        BY <3>1, FS_AddElement
      <4>2. Cardinality(Strays \union {worker.at}) = Cardinality(Strays) + 1
        BY <3>1, <3>3, FS_AddElement
      <4> QED
        BY <3>1, <4>1, <4>2
    <3> QED
      BY <3>2, <3>3
  <2>3. Cardinality(Strays') <= Cardinality(Strays \union {worker.at}) /\ Cardinality(Strays \union {worker.at}) \in Nat
    BY <2>1, <2>2, FS_Subset, FS_CardinalityType
  <2> QED
    BY <1>1, <1>2, <2>1, <2>2, <2>3 DEF StraysThrown
<1> QED
  BY <1>3, <1>4, StraysStep

\* Between passes no more slots hold a complete message than receivers have
\* thrown: Complete gives its slot back however it goes on, and a Stop on the
\* way, or an eviction, takes from their number only.
THEOREM OnlyThrowsLeave == SerialSpec => []OnlyThrowsLeak
<1>1. DeliveryInit => DeliveryInv /\ StraysThrown
  <2> SUFFICES ASSUME DeliveryInit PROVE DeliveryInv /\ StraysThrown
    OBVIOUS
  <2>1. DeliveryInv /\ thrown = 0
    BY DeliveryStart
  <2>2. Strays = {}
    BY OneNode, FreeSlotTyped DEF DeliveryInit, Init, Strays, Leaked
  <2> QED
    BY <2>1, <2>2, FS_EmptySet DEF StraysThrown
<1>2. DeliveryInv /\ StraysThrown /\ [SerialNext]_deliveryVars => (DeliveryInv /\ StraysThrown)'
  BY DeliveryStep, StraysThrownStep
<1>3. StraysThrown => OnlyThrowsLeak
  BY DEF StraysThrown, OnlyThrowsLeak, Strays
<1> QED
  BY <1>1, <1>2, <1>3, PTL DEF SerialSpec

-----------------------------------------------------------------------------
(* The events.                                                             *)

\* An element's rank among numbers is its own.
LEMMA NthIs ==
    ASSUME NEW S \in SUBSET Nat, IsFiniteSet(S), NEW i \in Nat, NEW x, Ranked(S, i, x)
    PROVE  Nth(S, i) = x
<1> DEFINE Below(y) == {z \in S : z < y}
           n == Nth(S, i)
<1>1. n \in S /\ Cardinality(Below(n)) = i - 1 /\ x \in S /\ Cardinality(Below(x)) = i - 1
  BY DEF Nth, Ranked
<1>2. ASSUME NEW y \in S, NEW z \in S, y < z
      PROVE  Cardinality(Below(y)) # Cardinality(Below(z))
  <2>1. IsFiniteSet(Below(y)) /\ IsFiniteSet(Below(z))
    BY FS_Subset
  <2>2. Below(y) \subseteq Below(z) \ {y} /\ y \in Below(z)
    <3>1. y \in Nat /\ z \in Nat /\ \A w \in S : w \in Nat
      OBVIOUS
    <3>2. \A w \in S : w < y => w < z /\ w # y
      BY <1>2, <3>1
    <3> QED
      BY <1>2, <3>2
  <2> HIDE DEF Below
  <2>3. IsFiniteSet(Below(z) \ {y}) /\ Cardinality(Below(z) \ {y}) = Cardinality(Below(z)) - 1
    BY <2>1, <2>2, FS_RemoveElement
  <2>4. Cardinality(Below(y)) <= Cardinality(Below(z) \ {y})
    BY <2>2, <2>3, FS_Subset
  <2>5. Cardinality(Below(y)) \in Nat /\ Cardinality(Below(z)) \in Nat
    BY <2>1, FS_CardinalityType
  <2> QED
    BY <2>3, <2>4, <2>5
<1> HIDE DEF Below, n
<1>3. n \in Nat /\ x \in Nat /\ ~(n < x) /\ ~(x < n)
  BY <1>1, <1>2
<1> QED
  BY <1>3 DEF n

\* A number above all others comes last and leaves the others their ranks.
LEMMA NthOfMore ==
    ASSUME NEW S \in SUBSET Nat, IsFiniteSet(S), NEW n \in Nat, \A x \in S : x < n,
           \A i \in 1 .. Cardinality(S) : Ranked(S, i, Nth(S, i))
    PROVE  LET T == S \union {n}
           IN  /\ Cardinality(T) = Cardinality(S) + 1
               /\ \A i \in 1 .. Cardinality(T) : Ranked(T, i, Nth(T, i))
               /\ \A i \in 1 .. Cardinality(S) : Nth(T, i) = Nth(S, i)
               /\ Nth(T, Cardinality(S) + 1) = n
<1> DEFINE T == S \union {n}
<1>1. n \notin S /\ T \in SUBSET Nat /\ Cardinality(S) \in Nat
  BY FS_CardinalityType
<1>2. IsFiniteSet(T) /\ Cardinality(T) = Cardinality(S) + 1
  BY <1>1, FS_AddElement
<1>3. \A x \in S : {y \in T : y < x} = {y \in S : y < x}
  <2>1. \A x \in S : x \in Nat /\ ~(n < x)
    OBVIOUS
  <2> QED
    BY <2>1
<1>4. {y \in T : y < n} = S
  <2>1. ~(n < n)
    OBVIOUS
  <2> QED
    BY <2>1
<1> HIDE DEF T
<1>5. ASSUME NEW i \in 1 .. Cardinality(S)
      PROVE  Nth(T, i) = Nth(S, i) /\ Ranked(T, i, Nth(T, i))
  <2>1. Ranked(T, i, Nth(S, i))
    BY <1>3 DEF Ranked, T
  <2>2. Nth(T, i) = Nth(S, i)
    BY <1>1, <1>2, <2>1, NthIs
  <2> QED
    BY <2>1, <2>2
<1>6. Nth(T, Cardinality(S) + 1) = n /\ Ranked(T, Cardinality(S) + 1, Nth(T, Cardinality(S) + 1))
  <2>1. Ranked(T, Cardinality(S) + 1, n)
    BY <1>1, <1>4 DEF Ranked, T
  <2>2. Nth(T, Cardinality(S) + 1) = n
    BY <1>1, <1>2, <2>1, NthIs
  <2> QED
    BY <2>1, <2>2
<1>7. \A i \in 1 .. Cardinality(T) : Ranked(T, i, Nth(T, i))
  <2>1. \A i \in 1 .. Cardinality(S) + 1 : i \in 1 .. Cardinality(S) \/ i = Cardinality(S) + 1
    BY <1>1
  <2> QED
    BY <1>2, <1>5, <1>6, <2>1
<1> QED
  BY <1>2, <1>5, <1>6, <1>7 DEF T

\* Only these steps have to do with what is told.
LEMMA TellingSteps ==
    ASSUME DeliveryInv, [SerialNext]_deliveryVars
    PROVE  \/ Receive \/ Forward
           \/ ReceiverThrows
           \/ Notify
           \/ /\ UNCHANGED <<passed, queued, failed, unheard>>
              /\ (At("lent") \/ At("notify"))' <=> At("lent") \/ At("notify")
<1> DEFINE Goal == /\ UNCHANGED <<passed, queued, failed, unheard>>
                   /\ (At("lent") \/ At("notify"))' <=> At("lent") \/ At("notify")
<1>1. WorkerFields /\ \A pc : Goto(pc) => worker'.pc = pc
  BY GotoFields DEF DeliveryInv
<1>2. Return => worker'.pc = "idle"
  BY ReturnFields
<1>3. (\E h \in Frame : Accept(h)) => Goal
  BY DEF Accept, Idle, told, bridgeVars, At
<1>4. CASE FindHeld
  BY <1>1, <1>4 DEF FindHeld, told, bridgeVars, At, WorkerFields
<1>5. CASE Create
  <2>1. /\ UNCHANGED <<passed, queued, failed, unheard>> /\ At("find")
        /\ \/ Return
           \/ worker' = [worker EXCEPT !.pc = "check", !.at = SlotFor(LocalNode, worker.frame.key)]
    BY <1>5 DEF Create, told, bridgeVars
  <2>2. worker'.pc \in {"idle", "check"}
    BY <1>1, <1>2, <2>1 DEF WorkerFields
  <2> QED
    BY <2>1, <2>2 DEF At
<1>6. CASE Check \/ Touch \/ Store \/ Count \/ ResetSlot
  <2>1. /\ UNCHANGED <<passed, queued, failed, unheard>> /\ ~At("lent") /\ ~At("notify")
        /\ Return \/ \E pc \in {"touch", "store", "count", "finish"} : Goto(pc)
    BY <1>6 DEF Check, Touch, Store, Count, ResetSlot, told, bridgeVars, At
  <2>2. worker'.pc \in {"idle", "touch", "store", "count", "finish"}
    BY <1>1, <1>2, <2>1
  <2> QED
    BY <2>1, <2>2 DEF At
<1>7. CASE Finish
  <2>1. /\ UNCHANGED told /\ At("finish")
        /\ \/ Return
           \/ worker' = [worker EXCEPT !.pc = Branch(MessageOf(Finished)), !.view = MessageOf(Finished)]
    BY <1>7, FinishEffect DEF Finish
  <2>2. worker'.pc \in {"idle", "receive", "forward", "reset"}
    BY <1>1, <1>2, <2>1 DEF WorkerFields, Branch
  <2> QED
    BY <2>1, <2>2 DEF At, told, bridgeVars
<1>8. CASE ReceiverReturns
  BY <1>1, <1>8 DEF ReceiverReturns, told, bridgeVars, At
<1>9. CASE ReceiverStops \/ Subscriptions \/ (At("idle") /\ ApplicationStops) \/ UNCHANGED deliveryVars
  <2>1. UNCHANGED <<passed, queued, failed, unheard, worker>>
    BY <1>9 DEF ReceiverStops, Subscriptions, Shutdown, Subscribe, ApplicationStops, told, deliveryVars, bridgeVars
  <2> QED
    BY <2>1 DEF At
<1> QED
  BY <1>3, <1>4, <1>5, <1>6, <1>7, <1>8, <1>9 DEF SerialNext, Pass

LEMMA HeardStep ==
    ASSUME DeliveryInv, Heard, [SerialNext]_deliveryVars
    PROVE  Heard'
<1>1. /\ passed \in Seq(Told) /\ DOMAIN passed = 1 .. Len(passed) /\ Len(passed) \in Nat
      /\ unheard \subseteq DOMAIN passed /\ failed \in Nat /\ WorkerFields /\ LastPassed
  BY LenProperties DEF DeliveryInv, ToldOK
<1>2. PICK heard \in SUBSET Due : HeardAre(heard)
  BY DEF Heard
<1>3. heard \in SUBSET DOMAIN passed /\ heard \in SUBSET Nat
  BY <1>1, <1>2 DEF Due
<1>4. IsFiniteSet(DOMAIN passed) /\ IsFiniteSet(heard) /\ IsFiniteSet(Due)
      /\ Cardinality(heard) \in Nat /\ Cardinality(Due) \in Nat
  <2>1. IsFiniteSet(DOMAIN passed)
    BY <1>1, FS_Interval
  <2>2. IsFiniteSet(heard) /\ IsFiniteSet(Due)
    BY <1>3, <2>1, FS_Subset DEF Due
  <2> QED
    BY <2>1, <2>2, FS_CardinalityType
\* What is told stays told.
<1>5. ASSUME Due' = Due, queued' = queued, failed' = failed, \A i \in DOMAIN passed : passed'[i] = passed[i]
      PROVE  Heard'
  <2>1. \A i \in 1 .. Cardinality(heard) : passed'[Nth(heard, i)] = passed[Nth(heard, i)]
    BY <1>2, <1>3, <1>5 DEF HeardAre, Ranked
  <2>2. queued' = [i \in 1 .. Cardinality(heard) |-> passed'[Nth(heard, i)]]
    BY <1>2, <1>5, <2>1 DEF HeardAre
  <2>3. HeardAre(heard)'
    BY <1>2, <1>5, <2>2 DEF HeardAre
  <2> QED
    BY <1>2, <1>5, <2>3 DEF Heard
<1>6. CASE Receive \/ Forward
  <2>1. /\ passed' = Append(passed, [kind |-> Kind(worker.view), message |-> worker.view])
        /\ UNCHANGED <<queued, failed, unheard>> /\ ~At("lent") /\ ~At("notify")
        /\ \E pc \in {"lent", "notify"} : Goto(pc)
    BY <1>6 DEF Receive, Forward, PassOn, bridgeVars, At
  <2>2. PICK new \in Told : new = [kind |-> Kind(worker.view), message |-> worker.view]
    <3>1. worker.view \in Message
      BY <1>6 DEF DeliveryInv, PassOK, Receive, Forward, Entering, At
    <3>2. [kind |-> Kind(worker.view), message |-> worker.view] \in Told
      BY <3>1 DEF Told, Kind
    <3> QED
      BY <3>2
  <2>3. /\ DOMAIN passed' = 1 .. Len(passed) + 1 /\ Len(passed') = Len(passed) + 1
        /\ \A i \in DOMAIN passed : passed'[i] = passed[i]
    BY <1>1, <2>1, <2>2, AppendProperties, LenProperties
  <2>4. (At("lent") \/ At("notify"))'
    BY <1>1, <2>1, GotoFields DEF At
  <2>5. Due' = (DOMAIN passed' \ unheard) \ {Len(passed) + 1} /\ Due = DOMAIN passed \ unheard
    BY <2>1, <2>3, <2>4 DEF Due
  <2>6. Due' = Due
    <3>1. 1 .. Len(passed) + 1 = (1 .. Len(passed)) \union {Len(passed) + 1}
          /\ Len(passed) + 1 \notin 1 .. Len(passed)
      BY <1>1
    <3> QED
      BY <1>1, <2>3, <2>5, <3>1
  <2> QED
    BY <1>5, <2>1, <2>3, <2>6
<1>7. CASE ReceiverThrows
  <2>1. /\ UNCHANGED <<queued, failed, passed>> /\ At("lent") /\ worker'.pc = "idle"
        /\ unheard' = unheard \union {Len(passed)}
    BY <1>7, ReturnFields DEF ReceiverThrows, bridgeVars
  <2>2. Due' = Due
    BY <2>1 DEF Due, At
  <2> QED
    BY <1>5, <2>1, <2>2
<1>8. CASE Notify
  <2>1. /\ UNCHANGED passed /\ At("notify") /\ worker'.pc = "reset"
        /\ Observe(Transport, Snapshot(worker.view))
        /\ unheard' = IF Transport \in handles THEN unheard ELSE unheard \union {Len(passed)}
    BY <1>1, <1>8, GotoFields DEF Notify
  <2>2. Due' = DOMAIN passed \ unheard' /\ Due = (DOMAIN passed \ unheard) \ {Len(passed)}
    BY <2>1 DEF Due, At
  <2>3. passed # <<>> /\ Len(passed) \notin unheard /\ passed[Len(passed)] = Snapshot(worker.view)
    BY <1>1, <2>1 DEF LastPassed, Snapshot
  <2>4. Len(passed) \in DOMAIN passed
    BY <1>1, <2>3, EmptySeq
  <2>5. CASE Transport \notin handles
    <3>1. queued' = queued /\ failed' = failed /\ unheard' = unheard \union {Len(passed)}
      BY <2>1, <2>5 DEF Observe
    <3> QED
      BY <1>5, <2>1, <2>2, <3>1
  <2>6. CASE Transport \in handles
    <3> DEFINE n == Len(passed)
               more == heard \union {n}
    <3>1. Due' = Due \union {n} /\ n \notin Due
      BY <2>1, <2>2, <2>3, <2>4, <2>6
    <3>2. Cardinality(Due') = Cardinality(Due) + 1
      BY <1>4, <3>1, FS_AddElement
    <3>3. /\ \/ queued' = Append(queued, passed[n]) /\ failed' = failed
             \/ queued' = queued /\ failed' = failed + 1
      BY <2>1, <2>3, <2>6 DEF Observe
    <3>4. CASE queued' = queued /\ failed' = failed + 1
      <4>1. HeardAre(heard)'
        BY <1>1, <1>2, <1>4, <2>1, <3>2, <3>4 DEF HeardAre
      <4> QED
        BY <1>2, <3>1, <4>1 DEF Heard
    <3>5. CASE queued' = Append(queued, passed[n]) /\ failed' = failed
      <4>1. \A x \in heard : x < n
        <5>1. \A x \in heard : x \in 1 .. n /\ x # n
          BY <1>1, <1>2, <1>3, <3>1
        <5> QED
          BY <1>1, <5>1
      <4>2. \A i \in 1 .. Cardinality(heard) : Ranked(heard, i, Nth(heard, i))
        BY <1>2 DEF HeardAre
      <4>3. /\ Cardinality(more) = Cardinality(heard) + 1
            /\ \A i \in 1 .. Cardinality(more) : Ranked(more, i, Nth(more, i))
            /\ \A i \in 1 .. Cardinality(heard) : Nth(more, i) = Nth(heard, i)
            /\ Nth(more, Cardinality(heard) + 1) = n
        <5> HIDE DEF n
        <5>1. n \in Nat
          BY <1>1 DEF n
        <5> QED
          BY <1>3, <1>4, <4>1, <4>2, <5>1, NthOfMore
      <4>4. queued' = [i \in 1 .. Cardinality(more) |-> passed[Nth(more, i)]]
        <5> DEFINE k == Cardinality(heard)
                   f == [i \in 1 .. Cardinality(more) |-> passed[Nth(more, i)]]
        <5>1. queued = [i \in 1 .. k |-> passed[Nth(heard, i)]] /\ queued \in Seq(Told) /\ k \in Nat
          BY <1>2, <1>4 DEF HeardAre, DeliveryInv, ToldOK
        <5>2. Len(queued) = k /\ passed[n] \in Told
          BY <1>1, <2>4, <5>1, LenProperties, ElementOfSeq
        <5>3. /\ queued' \in Seq(Told) /\ DOMAIN queued' = 1 .. k + 1 /\ queued'[k + 1] = passed[n]
              /\ \A i \in 1 .. k : queued'[i] = queued[i]
          BY <3>5, <5>1, <5>2, AppendProperties, LenProperties
        <5>4. DOMAIN f = 1 .. k + 1 /\ f[k + 1] = passed[n] /\ \A i \in 1 .. k : f[i] = queued[i]
          <6>1. DOMAIN f = 1 .. k + 1 /\ \A i \in 1 .. k + 1 : f[i] = passed[Nth(more, i)]
            BY <4>3
          <6>2. k + 1 \in 1 .. k + 1 /\ \A i \in 1 .. k : i \in 1 .. k + 1
            BY <5>1
          <6>3. \A i \in 1 .. k : queued[i] = passed[Nth(heard, i)] /\ Nth(more, i) = Nth(heard, i)
            BY <4>3, <5>1
          <6>4. Nth(more, k + 1) = n
            BY <4>3
          <6> HIDE DEF f, k
          <6> QED
            BY <6>1, <6>2, <6>3, <6>4
        <5>5. \A i \in 1 .. k + 1 : queued'[i] = f[i]
          <6>1. \A i \in 1 .. k + 1 : i \in 1 .. k \/ i = k + 1
            BY <5>1
          <6> QED
            BY <5>3, <5>4, <6>1
        <5>6. queued' = [i \in DOMAIN queued' |-> queued'[i]] /\ f = [i \in DOMAIN f |-> f[i]]
          BY <5>3
        <5> HIDE DEF f
        <5>7. queued' = f
          BY <5>3, <5>4, <5>5, <5>6
        <5> QED
          BY <5>7 DEF f
      <4>5. Cardinality(more) + failed' = Cardinality(Due')
        BY <1>1, <1>2, <1>4, <3>2, <3>5, <4>3 DEF HeardAre
      <4>6. more \in SUBSET Due'
        BY <1>2, <3>1
      <4> HIDE DEF more
      <4>7. PICK T : T = more
        OBVIOUS
      <4>8. HeardAre(T)'
        BY <2>1, <4>3, <4>4, <4>5, <4>7 DEF HeardAre
      <4> QED
        BY <4>6, <4>7, <4>8 DEF Heard
    <3> QED
      BY <3>3, <3>4, <3>5
  <2> QED
    BY <2>5, <2>6
<1>9. CASE /\ UNCHANGED <<passed, queued, failed, unheard>>
           /\ (At("lent") \/ At("notify"))' <=> At("lent") \/ At("notify")
  BY <1>5, <1>9 DEF Due
<1> QED
  BY <1>6, <1>7, <1>8, <1>9, TellingSteps

\* Between passes the events tell what was passed on, in its order and with the
\* contents it had then, though its slot is long free.  One is missing only for
\* want of memory, a subscription or the receiver's return.
THEOREM EventsTell == SerialSpec => []EventsTellPassed
<1>1. DeliveryInit => DeliveryInv /\ Heard
  <2> SUFFICES ASSUME DeliveryInit PROVE DeliveryInv /\ Heard
    OBVIOUS
  <2>1. DeliveryInv /\ passed = <<>> /\ failed = 0 /\ queued = <<>>
    BY DeliveryStart DEF DeliveryInit, BridgeInit
  <2>2. Due = {} /\ Cardinality({}) = 0
    BY <2>1, FS_EmptySet DEF Due
  <2>3. 1 .. Cardinality({}) = {} /\ queued = [i \in 1 .. Cardinality({}) |-> passed[Nth({}, i)]]
    BY <2>1, <2>2
  <2>4. HeardAre({})
    BY <2>1, <2>2, <2>3 DEF HeardAre
  <2> QED
    BY <2>1, <2>2, <2>4 DEF Heard
<1>2. DeliveryInv /\ Heard /\ [SerialNext]_deliveryVars => (DeliveryInv /\ Heard)'
  BY DeliveryStep, HeardStep
<1>3. Heard => EventsTellPassed
  BY DEF Heard, HeardAre, EventsTellPassed, Due, At
<1> QED
  BY <1>1, <1>2, <1>3, PTL DEF SerialSpec

-----------------------------------------------------------------------------
(* A pass as one step.                                                     *)

LEMMA SlotForIn ==
    ASSUME NEW n \in Node, NEW k
    PROVE  Holding(n, k) = HoldingIn(slots[n], k) /\ SlotFor(n, k) = SlotIn(slots[n], k)
<1>1. Holding(n, k) = HoldingIn(slots[n], k)
  BY DEF Holding, HoldingIn
<1>2. SlotFor(n, k) = SlotIn(slots[n], k)
  BY <1>1 DEF SlotFor, SlotIn, FreeSlots, Oldest
<1> QED
  BY <1>1, <1>2

LEMMA SlotInIsSlot ==
    ASSUME NEW T \in [Slot -> SlotRecord], NEW k
    PROVE  SlotIn(T, k) \in Slot /\ (HoldingIn(T, k) # {} => SlotIn(T, k) \in HoldingIn(T, k))
<1>1. \A S \in SUBSET Slot : S # {} => First(S) \in S
  BY FirstIsLeast DEF Slot
<1> DEFINE oldest == {s \in Slot : \A t \in Slot : T[s].touch <= T[t].touch}
<1>2. oldest # {}
  <2> DEFINE U == {T[s].touch : s \in Slot}
  <2>1. U \in SUBSET Nat /\ U # {}
    <3>1. \A s \in Slot : T[s].touch \in 0 .. TouchModulus - 1
      BY DEF SlotRecord
    <3>2. 0 \in Slot
      BY ReassemblyAssumption DEF Slot
    <3> QED
      BY <3>1, <3>2, ReassemblyAssumption
  <2>2. PICK u \in U : \A v \in U : u <= v
    BY <2>1, FirstIsLeast
  <2> QED
    BY <2>2
<1> QED
  BY <1>1, <1>2 DEF SlotIn, HoldingIn

\* What a pass began with does not change on the way.
LEMMA BegunKept ==
    ASSUME worker'.frame = worker.frame, worker'.slots = worker.slots, worker'.touch = worker.touch
    PROVE  /\ Fresh' = Fresh /\ Begun' = Begun /\ BegunTouch' = BegunTouch /\ LastTouch' = LastTouch
           /\ Fresh' <=> Fresh
BY DEF Fresh, Begun, BegunTouch, LastTouch

LEMMA BegunTyped ==
    ASSUME DeliveryInv, Underway, Entering
    PROVE  /\ SlotTyped(Begun) /\ Begun.used /\ Begun.key = worker.frame.key
           /\ SlotIn(worker.slots, worker.frame.key) \in Slot
           /\ worker.frame \in Frame /\ DecodeHeader(worker.frame)
           /\ Fresh => Begun.cnt = worker.frame.cnt /\ Begun.chunk = worker.frame.chunk
<1> DEFINE h == worker.frame
<1>1. /\ h \in Frame /\ Takes(LocalNode, h) /\ DecodeHeader(h)
      /\ worker.slots \in [Slot -> SlotRecord] /\ \A s \in Slot : SlotTyped(worker.slots[s])
  BY DEF DeliveryInv, PassOK, Underway, Takes
<1>2. SlotIn(worker.slots, h.key) \in Slot
  BY <1>1, SlotInIsSlot
<1>3. CASE ~Fresh
  <2>1. SlotIn(worker.slots, h.key) \in HoldingIn(worker.slots, h.key)
    BY <1>1, <1>3, SlotInIsSlot DEF Fresh
  <2>2. Begun = worker.slots[SlotIn(worker.slots, h.key)]
    BY <1>3 DEF Begun
  <2> QED
    BY <1>1, <1>2, <1>3, <2>1, <2>2 DEF HoldingIn
<1>4. CASE Fresh
  <2>1. Begun = OpenSlot(h, NextTouch(worker.touch))
    BY <1>4 DEF Begun
  <2>2. NextTouch(worker.touch) \in 0 .. TouchModulus - 1
    BY NextTouchTyped DEF Underway
  <2> QED
    BY <1>1, <1>2, <2>1, <2>2, OpenFits
<1> QED
  BY <1>3, <1>4

LEMMA UnderwayOut == ASSUME ~Entering' PROVE Underway'
BY DEF Underway, Entering, Found, Storing, At

LEMMA AcceptUnder == ASSUME DeliveryInv, NEW h \in Frame, Accept(h) PROVE Underway'
<1>1. /\ worker' = [Idle EXCEPT !.pc = "find", !.frame = h,
                                !.slots = slots[LocalNode], !.touch = touchCounter[LocalNode]]
      /\ UNCHANGED vars /\ TouchOf(LocalNode, h) <= MaxTouch /\ Len(completed[LocalNode]) < MaxCompletions
      /\ TypeOK
  BY DEF Accept, DeliveryInv
<1>2. /\ worker'.pc = "find" /\ worker'.frame = h /\ worker'.slots = slots[LocalNode]
      /\ worker'.touch = touchCounter[LocalNode]
  BY <1>1 DEF Idle
<1>3. Fresh' <=> Holding(LocalNode, h.key) = {}
  BY <1>2, OneNode, SlotForIn DEF Fresh
<1>4. LastTouch' = TouchOf(LocalNode, h)
  BY <1>2, <1>3 DEF LastTouch, BegunTouch, TouchOf
<1>5. /\ slots[LocalNode] \in [Slot -> SlotRecord] /\ \A s \in Slot : SlotTyped(slots[LocalNode][s])
      /\ touchCounter[LocalNode] \in 0 .. TouchModulus - 1
  BY <1>1, OneNode, SlotTypes DEF TypeOK
<1>6. UNCHANGED slots /\ UNCHANGED touchCounter /\ UNCHANGED completed
  BY <1>1 DEF vars
<1>7. Entering' /\ At("find")' /\ ~Found' /\ ~(At("check") \/ At("touch") \/ At("store") \/ Storing)'
  BY <1>2 DEF Entering, Found, Storing, At
<1>8. \A s \in Slot : SlotTyped(worker'.slots[s])
  BY <1>2, <1>5
<1> QED
  BY <1>1, <1>2, <1>4, <1>5, <1>6, <1>7, <1>8 DEF Underway, SlotTyped

LEMMA FindHeldUnder == ASSUME DeliveryInv, Underway, FindHeld PROVE Underway'
<1> DEFINE k == worker.frame.key
           s == SlotFor(LocalNode, k)
<1>1. TypeOK /\ WorkerFields /\ At("find") /\ ~At("check")
  BY DEF DeliveryInv, FindHeld, At
<1>2. /\ Holding(LocalNode, k) # {} /\ UNCHANGED vars
      /\ worker' = [worker EXCEPT !.pc = "check", !.at = s]
  BY DEF FindHeld
<1>3. /\ slots[LocalNode] = worker.slots /\ touchCounter[LocalNode] = worker.touch /\ Entering
  BY <1>1 DEF Underway, Entering
<1>4. s \in Slot /\ s = SlotIn(worker.slots, k) /\ ~Fresh
  BY <1>1, <1>2, <1>3, OneNode, SlotForIn, SlotForIsSlot DEF Fresh
<1> HIDE DEF s
<1>5. /\ worker'.pc = "check" /\ worker'.at = s /\ worker'.frame = worker.frame
      /\ worker'.slots = worker.slots /\ worker'.touch = worker.touch
  BY <1>1, <1>2 DEF WorkerFields
<1>6. UNCHANGED slots /\ UNCHANGED touchCounter /\ UNCHANGED completed
  BY <1>2 DEF vars
<1>7. /\ Fresh' = Fresh /\ Begun' = Begun /\ BegunTouch' = BegunTouch /\ LastTouch' = LastTouch
  BY <1>5, BegunKept
<1>8. here' = Begun /\ BegunTouch = worker.touch
  BY <1>3, <1>4, <1>5, <1>6 DEF here, Begun, BegunTouch
<1>9. Entering' /\ At("check")' /\ Found' /\ ~(At("find") \/ At("store") \/ Storing)'
  BY <1>5 DEF Entering, Found, Storing, At
<1>10. /\ worker.slots \in [Slot -> SlotRecord] /\ (\A t \in Slot : SlotTyped(worker.slots[t]))
       /\ worker.touch \in 0 .. TouchModulus - 1 /\ LastTouch <= MaxTouch
       /\ Len(completed[LocalNode]) < MaxCompletions
  BY <1>3 DEF Underway
<1> QED
  BY <1>3, <1>4, <1>5, <1>6, <1>7, <1>8, <1>9, <1>10 DEF Underway, SlotTyped

LEMMA CreateUnder ==
    ASSUME DeliveryInv, Underway, Create, ~TooLarge(LocalNode, worker.frame)
    PROVE  Underway'
<1> DEFINE h == worker.frame
           s == SlotFor(LocalNode, h.key)
           touch == NextTouch(touchCounter[LocalNode])
<1>1. /\ TypeOK /\ WorkerFields /\ At("find") /\ PassOK /\ Holding(LocalNode, h.key) = {}
      /\ UNCHANGED tables
  BY DEF DeliveryInv, Create
<1>2. s \in Slot /\ Candidate = FreeSlot
  BY <1>1, CandidateIsFree
<1>3. /\ slots[LocalNode] = worker.slots /\ touchCounter[LocalNode] = worker.touch /\ Entering
      /\ h \in Frame /\ DecodeHeader(h)
  BY <1>1 DEF Underway, Entering, PassOK, Takes
<1>4. s = SlotIn(worker.slots, h.key) /\ Fresh
  BY <1>1, <1>3, OneNode, SlotForIn DEF Fresh
<1>5. Begun = OpenSlot(h, touch) /\ BegunTouch = touch
  BY <1>3, <1>4 DEF Begun, BegunTouch
<1>6. touch \in 0 .. TouchModulus - 1
  BY <1>1, TouchTyped
<1>7. /\ slots' = [slots EXCEPT ![LocalNode][s] = Begun]
      /\ touchCounter' = [touchCounter EXCEPT ![LocalNode] = touch]
      /\ worker' = [worker EXCEPT !.pc = "check", !.at = s]
  <2>1. Opened(FreeSlot, h, touch) = OpenSlot(h, touch)
    BY <1>3, <1>6, OpenedFree
  <2> QED
    BY <1>2, <1>5, <2>1 DEF Create
<1> HIDE DEF s, touch
<1>8. /\ worker'.pc = "check" /\ worker'.at = s /\ worker'.frame = worker.frame
      /\ worker'.slots = worker.slots /\ worker'.touch = worker.touch
  BY <1>1, <1>7 DEF WorkerFields
<1>9. \A t \in Slot : slots'[LocalNode][t] = IF t = s THEN Begun ELSE worker.slots[t]
  BY <1>1, <1>2, <1>3, <1>7, OneNode DEF TypeOK
<1>10. touchCounter'[LocalNode] = BegunTouch /\ completed' = completed
  BY <1>1, <1>5, <1>7, OneNode DEF TypeOK, tables
<1>11. /\ Fresh' = Fresh /\ Begun' = Begun /\ BegunTouch' = BegunTouch /\ LastTouch' = LastTouch
  BY <1>8, BegunKept
<1>12. here' = Begun /\ \A t \in Slot : t # s => slots'[LocalNode][t] = worker.slots[t]
  BY <1>2, <1>8, <1>9 DEF here
<1>13. Entering' /\ At("check")' /\ Found' /\ ~(At("find") \/ At("store") \/ Storing)'
  BY <1>8 DEF Entering, Found, Storing, At
<1>14. /\ worker.slots \in [Slot -> SlotRecord] /\ (\A t \in Slot : SlotTyped(worker.slots[t]))
       /\ worker.touch \in 0 .. TouchModulus - 1 /\ LastTouch <= MaxTouch
       /\ Len(completed[LocalNode]) < MaxCompletions
  BY <1>3 DEF Underway
<1>15. Allocation(h.cnt, h.chunk) <= MaxMessageBytes
  <2>1. h.cnt \in Nat /\ h.chunk \in Nat /\ MaxMessageBytes \in Nat
    BY <1>3, FrameTyped, FramingAssumption
  <2>2. h.cnt * h.chunk \in Nat
    BY <2>1
  <2>3. Allocation(h.cnt, h.chunk) = h.cnt * h.chunk
    BY DEF Allocation
  <2> QED
    BY <1>1, <2>1, <2>2, <2>3 DEF TooLarge
<1> QED
  BY <1>4, <1>8, <1>10, <1>11, <1>12, <1>13, <1>14, <1>15 DEF Underway, SlotTyped

LEMMA UnderwayOn ==
    ASSUME DeliveryInv, Underway, Found, NEW pc \in {"touch", "store", "count", "finish"}, Goto(pc),
           UNCHANGED completed,
           \A s \in Slot : s # worker.at => slots'[LocalNode][s] = slots[LocalNode][s],
           Begun.cnt = worker.frame.cnt, Begun.chunk = worker.frame.chunk,
           touchCounter'[LocalNode] = IF pc = "touch" THEN BegunTouch ELSE LastTouch,
           pc = "touch" => here' = Begun,
           pc = "store" => here' = [Begun EXCEPT !.touch = LastTouch],
           pc \in {"count", "finish"} => Settled(here)' = StoreIn(Begun, worker.frame, LastTouch)
    PROVE  Underway'
<1>1. WorkerFields
  BY DEF DeliveryInv
<1>2. /\ worker'.pc = pc /\ worker'.at = worker.at /\ worker'.frame = worker.frame
      /\ worker'.slots = worker.slots /\ worker'.touch = worker.touch
  BY <1>1, GotoFields
<1>3. /\ Fresh' = Fresh /\ Begun' = Begun /\ BegunTouch' = BegunTouch /\ LastTouch' = LastTouch
  BY <1>2, BegunKept
<1>4. /\ Entering' /\ Found' /\ ~At("find")' /\ ~At("check")' /\ (At("touch")' <=> pc = "touch")
      /\ (At("store")' <=> pc = "store") /\ (Storing' <=> pc \in {"count", "finish"})
  BY <1>2 DEF Entering, Found, Storing, At
<1>5. Entering
  BY DEF Found, Storing, Entering
<1>6. /\ worker.slots \in [Slot -> SlotRecord] /\ (\A t \in Slot : SlotTyped(worker.slots[t]))
      /\ worker.touch \in 0 .. TouchModulus - 1 /\ LastTouch <= MaxTouch
      /\ Len(completed[LocalNode]) < MaxCompletions
  BY <1>5 DEF Underway
<1>7. /\ worker.at = SlotIn(worker.slots, worker.frame.key)
      /\ Fresh => Allocation(worker.frame.cnt, worker.frame.chunk) <= MaxMessageBytes
      /\ \A s \in Slot : s # worker.at => slots'[LocalNode][s] = worker.slots[s]
  BY DEF Underway
<1>8. /\ At("check")' \/ At("touch")' => here' = Begun /\ touchCounter'[LocalNode] = BegunTouch
      /\ At("store")' \/ Storing' => touchCounter'[LocalNode] = LastTouch
      /\ At("store")' => here' = [Begun EXCEPT !.touch = LastTouch]
  BY <1>4
<1>9. Storing' => Settled(here)' = StoreIn(Begun, worker.frame, LastTouch)
  BY <1>4
<1> QED
  BY <1>2, <1>3, <1>4, <1>6, <1>7, <1>8, <1>9 DEF Underway, SlotTyped

\* A fragment that agrees with its slot lies in the buffer.
LEMMA OffsetFits ==
    ASSUME NEW idx \in Nat, NEW cnt \in Nat, NEW chunk \in Nat, NEW bytes \in Nat, idx < cnt, bytes <= chunk
    PROVE  ~(idx * chunk + bytes > cnt * chunk)
<1>1. PICK d \in Nat : cnt = idx + 1 + d
  <2>1. cnt - idx - 1 \in Nat /\ cnt = idx + 1 + (cnt - idx - 1)
    OBVIOUS
  <2> QED
    BY <2>1
<1>2. cnt * chunk = idx * chunk + chunk + d * chunk
  BY <1>1
<1>3. idx * chunk \in Nat /\ d * chunk \in Nat
  OBVIOUS
<1> QED
  BY <1>2, <1>3

LEMMA FitsBegun ==
    ASSUME DeliveryInv, Underway, Entering, Begun.cnt = worker.frame.cnt, Begun.chunk = worker.frame.chunk
    PROVE  LET h == worker.frame
           IN  ~(h.idx * h.chunk + h.bytes > Allocation(Begun.cnt, Begun.chunk))
<1> DEFINE h == worker.frame
<1>1. h \in Frame /\ DecodeHeader(h)
  BY BegunTyped
<1>2. h.idx \in Nat /\ h.cnt \in Nat /\ h.chunk \in Nat /\ h.bytes \in Nat
  BY <1>1, FrameTyped, FramingAssumption
<1>3. h.idx < h.cnt /\ h.bytes <= h.chunk
  BY <1>1 DEF DecodeHeader
<1>4. ~(h.idx * h.chunk + h.bytes > h.cnt * h.chunk)
  BY <1>2, <1>3, OffsetFits
<1> QED
  BY <1>4 DEF Allocation

LEMMA CheckUnder == ASSUME DeliveryInv, Underway, Check, ~Return PROVE Underway'
<1>1. /\ UNCHANGED slots /\ Goto("touch") /\ UNCHANGED <<touchCounter, tables>> /\ At("check") /\ Found
      /\ here.cnt = worker.frame.cnt /\ here.chunk = worker.frame.chunk
  BY DEF Check, Found
<1>2. WorkerFields /\ here = Begun /\ touchCounter[LocalNode] = BegunTouch
  BY <1>1 DEF DeliveryInv, Underway
<1>3. here' = here
  BY <1>1, <1>2, GotoFields DEF here
<1>4. Begun.cnt = worker.frame.cnt /\ Begun.chunk = worker.frame.chunk /\ UNCHANGED completed
  BY <1>1, <1>2 DEF tables
<1> QED
  BY <1>1, <1>2, <1>3, <1>4, UnderwayOn

\* Touch does not fail.
LEMMA TouchGoesOn ==
    ASSUME DeliveryInv, Underway, Touch
    PROVE  /\ Write([Begun EXCEPT !.touch = LastTouch]) /\ Goto("store") /\ At("touch") /\ UNCHANGED tables
           /\ touchCounter' = [touchCounter EXCEPT ![LocalNode] = LastTouch]
           /\ Begun.cnt = worker.frame.cnt /\ Begun.chunk = worker.frame.chunk
<1> DEFINE h == worker.frame
<1>1. At("touch") /\ Entering /\ Found /\ ~At("check") /\ UNCHANGED tables
  BY DEF Touch, Entering, Found, At
<1>2. /\ here = Begun /\ touchCounter[LocalNode] = BegunTouch
      /\ Begun.cnt = worker.frame.cnt /\ Begun.chunk = worker.frame.chunk
  BY <1>1 DEF Underway
<1>3. NextTouch(touchCounter[LocalNode]) = LastTouch
  BY <1>2 DEF LastTouch
<1>4. ~(h.idx * h.chunk + h.bytes > Allocation(here.cnt, here.chunk))
  BY <1>1, <1>2, FitsBegun
<1> QED
  BY <1>1, <1>2, <1>3, <1>4 DEF Touch

LEMMA TouchUnder == ASSUME DeliveryInv, Underway, Touch PROVE Underway'
<1>1. /\ Write([Begun EXCEPT !.touch = LastTouch]) /\ Goto("store") /\ At("touch") /\ UNCHANGED tables
      /\ touchCounter' = [touchCounter EXCEPT ![LocalNode] = LastTouch]
      /\ Begun.cnt = worker.frame.cnt /\ Begun.chunk = worker.frame.chunk
  BY TouchGoesOn
<1>2. TypeOK /\ WorkerFields /\ worker.at \in Slot /\ Found
  BY <1>1 DEF DeliveryInv, PassOK, Found
<1>3. worker'.at = worker.at
  BY <1>1, <1>2, GotoFields
<1>4. \A s \in Slot : slots'[LocalNode][s] = IF s = worker.at THEN [Begun EXCEPT !.touch = LastTouch]
                                             ELSE slots[LocalNode][s]
  <2>1. PICK new : new = [Begun EXCEPT !.touch = LastTouch]
    OBVIOUS
  <2> QED
    BY <1>1, <1>2, <2>1, WriteOthers
<1>5. here' = [Begun EXCEPT !.touch = LastTouch]
  BY <1>2, <1>3, <1>4 DEF here
<1>6. touchCounter'[LocalNode] = LastTouch /\ UNCHANGED completed
  BY <1>1, <1>2, OneNode DEF TypeOK, tables
<1>7. \A s \in Slot : s # worker.at => slots'[LocalNode][s] = slots[LocalNode][s]
  BY <1>4
<1> QED
  BY <1>1, <1>2, <1>5, <1>6, <1>7, UnderwayOn

LEMMA StoreOfTouched ==
    ASSUME NEW b, SlotTyped(b), NEW h, NEW touch \in 0 .. TouchModulus - 1
    PROVE  StoreIn([b EXCEPT !.touch = touch], h, touch) = StoreIn(b, h, touch)
<1> DEFINE c == [b EXCEPT !.touch = touch]
           new == b.parts[h.idx] = NoData
           S == [used : {b.used}, key : {b.key}, cnt : {b.cnt}, chunk : {b.chunk}, hop : {b.hop},
                 last : {IF h.idx = h.cnt - 1 THEN h.bytes ELSE b.last},
                 received : {IF new THEN b.received + 1 ELSE b.received}, touch : {touch},
                 parts : {IF new THEN [b.parts EXCEPT ![h.idx] = h.data] ELSE b.parts}]
<1>1. /\ c.used = b.used /\ c.key = b.key /\ c.cnt = b.cnt /\ c.chunk = b.chunk /\ c.hop = b.hop
      /\ c.parts = b.parts /\ c.received = b.received /\ c.last = b.last /\ c \in SlotRecord
  BY DEF SlotTyped, SlotRecord
<1>2. StoreIn(b, h, touch) \in S
  BY DEF StoreIn, SlotTyped, SlotRecord
<1> HIDE DEF c
<1>3. StoreIn(c, h, touch) \in S
  BY <1>1 DEF StoreIn, SlotRecord
<1>4. \A d, e \in S : d = e
  OBVIOUS
<1> HIDE DEF S
<1>5. StoreIn(c, h, touch) = StoreIn(b, h, touch)
  BY <1>2, <1>3, <1>4
<1> QED
  BY <1>5 DEF c

LEMMA StoreUnder == ASSUME DeliveryInv, Underway, Store PROVE Underway'
<1> DEFINE h == worker.frame
<1>1. At("store") /\ ~At("check") /\ Found /\ Entering /\ UNCHANGED <<touchCounter, tables>>
  BY DEF Store, Found, Entering, At
<1>2. PICK pc \in {"count", "finish"} : Goto(pc)
  BY DEF Store
<1>3. /\ Settled(here)' = StoreIn(here, h, here.touch)
      /\ \A s \in Slot : s # worker.at => slots'[LocalNode][s] = slots[LocalNode][s]
  BY StoreEffect
<1>4. /\ here = [Begun EXCEPT !.touch = LastTouch] /\ touchCounter[LocalNode] = LastTouch
      /\ Begun.cnt = h.cnt /\ Begun.chunk = h.chunk
  BY <1>1 DEF Underway
<1>5. /\ SlotTyped(Begun) /\ LastTouch \in 0 .. TouchModulus - 1
  <2>1. touchCounter[LocalNode] \in 0 .. TouchModulus - 1
    BY TouchTyped DEF DeliveryInv
  <2> QED
    BY <1>1, <1>4, <2>1, BegunTyped
<1>6. Settled(here)' = StoreIn(Begun, h, LastTouch)
  <2>1. PICK b : b = Begun
    OBVIOUS
  <2>2. StoreIn([b EXCEPT !.touch = LastTouch], h, LastTouch) = StoreIn(b, h, LastTouch)
    BY <1>5, <2>1, StoreOfTouched
  <2>3. here.touch = LastTouch
    BY <1>4, <1>5 DEF SlotTyped, SlotRecord
  <2> QED
    BY <1>3, <1>4, <2>1, <2>2, <2>3
<1>7. UNCHANGED completed /\ touchCounter'[LocalNode] = LastTouch
  BY <1>1, <1>4 DEF tables
<1> QED
  BY <1>1, <1>2, <1>3, <1>4, <1>6, <1>7, UnderwayOn

LEMMA CountUnder == ASSUME DeliveryInv, Underway, Count PROVE Underway'
<1>1. /\ At("count") /\ ~At("check") /\ Found /\ Storing /\ Goto("finish")
      /\ UNCHANGED <<touchCounter, tables>>
  BY DEF Count, Found, Storing, At
<1>2. /\ Settled(here)' = Settled(here)
      /\ \A s \in Slot : s # worker.at => slots'[LocalNode][s] = slots[LocalNode][s]
  BY CountEffect
<1>3. /\ Settled(here) = StoreIn(Begun, worker.frame, LastTouch) /\ touchCounter[LocalNode] = LastTouch
      /\ Begun.cnt = worker.frame.cnt /\ Begun.chunk = worker.frame.chunk
  BY <1>1 DEF Underway
<1>4. UNCHANGED completed /\ touchCounter'[LocalNode] = LastTouch
  BY <1>1, <1>3 DEF tables
<1> QED
  BY <1>1, <1>2, <1>3, <1>4, UnderwayOn

\* The rest of the steps leave nothing underway, or all as it is.
LEMMA UnderwayStep ==
    ASSUME DeliveryInv, Underway, [SerialNext]_deliveryVars
    PROVE  Underway'
<1>1. WorkerFields /\ \A pc : Goto(pc) => worker'.pc = pc
  BY GotoFields DEF DeliveryInv
<1>2. Return => ~Entering'
  BY ReturnFields DEF Entering, At
<1>3. CASE Create
  <2>1. CASE TooLarge(LocalNode, worker.frame)
    BY <1>2, <1>3, <2>1, UnderwayOut DEF Create
  <2> QED
    BY <1>3, <2>1, CreateUnder
<1>4. CASE Check
  BY <1>2, <1>4, CheckUnder, UnderwayOut
<1>5. CASE Finish
  <2>1. CASE Return
    BY <1>2, <2>1, UnderwayOut
  <2>2. CASE ~Return
    <3>1. worker' = [worker EXCEPT !.pc = Branch(MessageOf(Finished)), !.view = MessageOf(Finished)]
      BY <1>5, <2>2, FinishEffect
    <3>2. worker'.pc \in {"receive", "forward", "reset"}
      BY <1>1, <3>1 DEF WorkerFields, Branch
    <3> QED
      BY <3>2, UnderwayOut DEF Entering, At
  <2> QED
    BY <2>1, <2>2
<1>6. CASE Receive \/ Forward \/ ReceiverReturns \/ Notify
  <2>1. \E pc \in {"lent", "notify", "reset"} : Goto(pc)
    BY <1>6 DEF Receive, Forward, PassOn, ReceiverReturns, Notify
  <2> QED
    BY <1>1, <2>1, UnderwayOut DEF Entering, At
<1>7. CASE ReceiverThrows \/ ResetSlot
  BY <1>2, <1>7, UnderwayOut DEF ReceiverThrows, ResetSlot
<1>8. CASE ReceiverStops \/ (At("idle") /\ ApplicationStops)
  <2>1. ~Entering /\ UNCHANGED worker
    BY <1>8 DEF ReceiverStops, ApplicationStops, Entering, At
  <2> QED
    BY <2>1, UnderwayOut DEF Entering, At
<1>9. CASE Subscriptions \/ UNCHANGED deliveryVars
  <2>1. UNCHANGED <<vars, worker>>
    BY <1>9 DEF Subscriptions, deliveryVars
  <2>2. UNCHANGED <<slots, touchCounter, completed>>
    BY <2>1 DEF vars
  <2>3. /\ Fresh' = Fresh /\ Begun' = Begun /\ BegunTouch' = BegunTouch /\ LastTouch' = LastTouch
        /\ here' = here /\ Settled(here)' = Settled(here)
    BY <2>1, <2>2, BegunKept DEF here, Settled, Storing, At
  <2>4. /\ (Entering' <=> Entering) /\ (Found' <=> Found) /\ (Storing' <=> Storing)
        /\ \A pc : At(pc)' <=> At(pc)
    BY <2>1 DEF Entering, Found, Storing, At
  <2> QED
    BY <2>1, <2>2, <2>3, <2>4 DEF Underway, SlotTyped
<1> QED
  BY <1>3, <1>4, <1>5, <1>6, <1>7, <1>8, <1>9, AcceptUnder, FindHeldUnder, TouchUnder, StoreUnder, CountUnder
     DEF SerialNext, Pass

-----------------------------------------------------------------------------
(* The refinement.                                                         *)

\* The definitions of RadioReassembly that read no slots or touches.
LEMMA SameOperators ==
    /\ Reassembly!Slot = Slot /\ Reassembly!FreeSlot = FreeSlot /\ Reassembly!Ring = Ring
    /\ \A S : Reassembly!First(S) = First(S)
    /\ \A c : Reassembly!NextTouch(c) = NextTouch(c)
    /\ \A h, c : Reassembly!OpenSlot(h, c) = OpenSlot(h, c)
    /\ \A b, h, c : Reassembly!StoreIn(b, h, c) = StoreIn(b, h, c)
    /\ \A b : Reassembly!MessageOf(b) = MessageOf(b)
    /\ \A h : Reassembly!Takes(LocalNode, h) <=> Takes(LocalNode, h)
    /\ \A k : Reassembly!IsRecent(LocalNode, k) <=> IsRecent(LocalNode, k)
    /\ \A m, c : Reassembly!Allocation(m, c) = Allocation(m, c)
<1>1. Reassembly!Slot = Slot /\ Reassembly!Ring = Ring
  BY DEF Reassembly!Slot, Slot, Reassembly!Ring, Ring
<1>2. Reassembly!FreeSlot = FreeSlot
  BY DEF Reassembly!FreeSlot, FreeSlot, Reassembly!NoKey, NoKey
<1>3. \A S : Reassembly!First(S) = First(S)
  BY DEF Reassembly!First, First
<1>4. \A c : Reassembly!NextTouch(c) = NextTouch(c)
  BY DEF Reassembly!NextTouch, NextTouch
<1>5. \A h, c : Reassembly!OpenSlot(h, c) = OpenSlot(h, c)
  BY DEF Reassembly!OpenSlot, OpenSlot
<1>6. \A b, h, c : Reassembly!StoreIn(b, h, c) = StoreIn(b, h, c)
  BY DEF Reassembly!StoreIn, StoreIn
<1>7. \A b : Reassembly!MessageOf(b) = MessageOf(b)
  BY DEF Reassembly!MessageOf, MessageOf, Reassembly!CompletedBytes, CompletedBytes
<1>8. \A k : Reassembly!IsRecent(LocalNode, k) <=> IsRecent(LocalNode, k)
  BY <1>1 DEF Reassembly!IsRecent, IsRecent
<1>9. \A h : Reassembly!Takes(LocalNode, h) <=> Takes(LocalNode, h)
  BY <1>8 DEF Reassembly!Takes, Takes, Reassembly!DecodeHeader, DecodeHeader
<1>10. \A m, c : Reassembly!Allocation(m, c) = Allocation(m, c)
  BY DEF Reassembly!Allocation, Allocation
<1> QED
  BY <1>1, <1>2, <1>3, <1>4, <1>5, <1>6, <1>7, <1>8, <1>9, <1>10

\* There is one node.
Lone(x) == [n \in Node |-> x]

LEMMA LoneIs ==
    /\ \A x : Lone(x)[LocalNode] = x
    /\ \A x, y : [Lone(x) EXCEPT ![LocalNode] = y] = Lone(y)
BY DeliveryAssumption DEF Lone

LEMMA StateIsLone ==
    ASSUME TypeOK
    PROVE  slots = Lone(slots[LocalNode]) /\ touchCounter = Lone(touchCounter[LocalNode])
BY DeliveryAssumption DEF TypeOK, Lone

\* RadioReassembly's table and touch counter of the one node.
Table   == IF At("idle") THEN slots[LocalNode]
           ELSE IF Entering THEN worker.slots
           ELSE [slots[LocalNode] EXCEPT ![worker.at] = FreeSlot]
Counter == IF Entering THEN worker.touch ELSE touchCounter[LocalNode]

LEMMA MappedIs ==
    /\ MappedSlots = Lone(Table) /\ MappedTouch = Lone(Counter)
    /\ MappedSlots' = Lone(Table') /\ MappedTouch' = Lone(Counter')
BY DeliveryAssumption DEF MappedSlots, MappedTouch, Lone, Table, Counter

\* RadioReassembly's definitions in the state a pass began in.
LEMMA MappedOperators ==
    ASSUME Entering
    PROVE  LET h == worker.frame
               s == SlotIn(worker.slots, h.key)
           IN  /\ Reassembly!Holding(LocalNode, h.key) = HoldingIn(worker.slots, h.key)
               /\ Reassembly!SlotFor(LocalNode, h.key) = s
               /\ MappedSlots = Lone(worker.slots) /\ MappedTouch = Lone(worker.touch)
               /\ MappedSlots[LocalNode] = worker.slots /\ MappedTouch[LocalNode] = worker.touch
<1> DEFINE T == worker.slots
           k == worker.frame.key
<1>1. /\ MappedSlots = Lone(T) /\ MappedTouch = Lone(worker.touch)
      /\ MappedSlots[LocalNode] = T /\ MappedTouch[LocalNode] = worker.touch
  BY MappedIs, LoneIs DEF Entering, At, Table, Counter
<1>2. Reassembly!Holding(LocalNode, k) = HoldingIn(T, k)
  BY <1>1, SameOperators DEF Reassembly!Holding, HoldingIn
<1>3. Reassembly!FreeSlots(LocalNode) = {s \in Slot : ~T[s].used}
  BY <1>1, SameOperators DEF Reassembly!FreeSlots
<1>4. Reassembly!Oldest(LocalNode) = First({s \in Slot : \A t \in Slot : T[s].touch <= T[t].touch})
  BY <1>1, SameOperators DEF Reassembly!Oldest
<1>5. Reassembly!SlotFor(LocalNode, k) = SlotIn(T, k)
  BY <1>2, <1>3, <1>4, SameOperators DEF Reassembly!SlotFor, SlotIn
<1> QED
  BY <1>1, <1>2, <1>5

LEMMA MappedStores ==
    ASSUME Entering
    PROVE  LET h == worker.frame
           IN  /\ Reassembly!TouchOf(LocalNode, h) = LastTouch
               /\ Reassembly!SlotWith(LocalNode, h) = StoreIn(Begun, h, LastTouch)
               /\ Reassembly!TooLarge(LocalNode, h) <=>
                     Fresh /\ Allocation(h.cnt, h.chunk) > MaxMessageBytes
               /\ Reassembly!Disagrees(LocalNode, h) <=>
                     ~Fresh /\ \/ Begun.cnt # h.cnt
                               \/ Begun.chunk # h.chunk
                               \/ h.idx * h.chunk + h.bytes > Allocation(Begun.cnt, Begun.chunk)
<1> DEFINE h == worker.frame
           s == SlotIn(worker.slots, h.key)
<1>1. /\ Reassembly!Holding(LocalNode, h.key) = HoldingIn(worker.slots, h.key)
      /\ Reassembly!SlotFor(LocalNode, h.key) = s
      /\ MappedSlots[LocalNode][s] = worker.slots[s] /\ MappedTouch[LocalNode] = worker.touch
  BY MappedOperators
<1>2. Reassembly!Holding(LocalNode, h.key) = {} <=> Fresh
  BY <1>1 DEF Fresh
<1>3. Reassembly!TouchOf(LocalNode, h) = LastTouch
  BY <1>1, <1>2, SameOperators DEF Reassembly!TouchOf, LastTouch, BegunTouch
<1>4. Reassembly!SlotWith(LocalNode, h) = StoreIn(Begun, h, LastTouch)
  BY <1>1, <1>2, <1>3, SameOperators DEF Reassembly!SlotWith, Begun
<1>5. Reassembly!TooLarge(LocalNode, h) <=> Fresh /\ Allocation(h.cnt, h.chunk) > MaxMessageBytes
  BY <1>2, SameOperators DEF Reassembly!TooLarge
<1>6. ~Fresh => Begun = worker.slots[s]
  BY DEF Begun
<1>7. Reassembly!Disagrees(LocalNode, h) <=>
         ~Fresh /\ \/ Begun.cnt # h.cnt
                   \/ Begun.chunk # h.chunk
                   \/ h.idx * h.chunk + h.bytes > Allocation(Begun.cnt, Begun.chunk)
  BY <1>1, <1>2, <1>6, SameOperators DEF Reassembly!Disagrees
<1> QED
  BY <1>3, <1>4, <1>5, <1>7

\* A write to one slot of the one node.
LEMMA LoneWrite ==
    ASSUME NEW T, NEW s, NEW new
    PROVE  [Lone(T) EXCEPT ![LocalNode][s] = new] = Lone([T EXCEPT ![s] = new])
BY LoneIs

LEMMA MappedWrite ==
    ASSUME Entering, NEW s, NEW new, Table' = [worker.slots EXCEPT ![s] = new]
    PROVE  MappedSlots' = [MappedSlots EXCEPT ![LocalNode][s] = new]
<1>1. PICK T : T = worker.slots
  OBVIOUS
<1>2. MappedSlots = Lone(T)
  BY <1>1, MappedOperators
<1>3. Table' = [T EXCEPT ![s] = new]
  BY <1>1
<1>4. MappedSlots' = Lone([T EXCEPT ![s] = new])
  BY <1>3, MappedIs
<1>5. [Lone(T) EXCEPT ![LocalNode][s] = new] = Lone([T EXCEPT ![s] = new])
  BY LoneWrite
<1> QED
  BY <1>2, <1>4, <1>5

LEMMA NextOf ==
    ASSUME NEW h \in Frame, Reassembly!ProcessInboundPacket(LocalNode, h)
    PROVE  Reassembly!Next
BY OneNode DEF Reassembly!Next

LEMMA StopOf == ASSUME Reassembly!Stop(LocalNode) PROVE Reassembly!Next
BY OneNode DEF Reassembly!Next

\* A pass that ends without the fragment in a slot.
LEMMA AbstractReset ==
    ASSUME DeliveryInv, Entering,
           Table' = [worker.slots EXCEPT ![SlotIn(worker.slots, worker.frame.key)] = FreeSlot],
           Counter' = worker.touch, UNCHANGED tables,
           \/ Fresh /\ Allocation(worker.frame.cnt, worker.frame.chunk) > MaxMessageBytes
           \/ ~Fresh /\ (Begun.cnt # worker.frame.cnt \/ Begun.chunk # worker.frame.chunk)
    PROVE  Reassembly!Next
<1> DEFINE h == worker.frame
           s == SlotIn(worker.slots, h.key)
<1>1. h \in Frame /\ Reassembly!Takes(LocalNode, h)
  BY SameOperators DEF DeliveryInv, PassOK
<1>2. Reassembly!TooLarge(LocalNode, h) \/ Reassembly!Disagrees(LocalNode, h)
  BY MappedStores
<1>3. MappedSlots' = [MappedSlots EXCEPT ![LocalNode][s] = FreeSlot]
  BY MappedWrite
<1>4. MappedTouch' = MappedTouch
  BY MappedIs, MappedOperators
<1>5. Reassembly!SlotFor(LocalNode, h.key) = s /\ Reassembly!FreeSlot = FreeSlot
  BY MappedOperators, SameOperators
<1>6. Reassembly!RejectOversized(LocalNode, h) \/ Reassembly!ResetMismatched(LocalNode, h)
  BY <1>1, <1>2, <1>3, <1>4, <1>5 DEF Reassembly!RejectOversized, Reassembly!ResetMismatched, tables
<1> QED
  BY <1>1, <1>6, NextOf DEF Reassembly!ProcessInboundPacket

\* A pass that stored the fragment.
LEMMA AbstractStores ==
    ASSUME DeliveryInv, Underway, Storing
    PROVE  LET h == worker.frame
           IN  /\ h \in Frame /\ Reassembly!Stores(LocalNode, h)
               /\ Len(completed[LocalNode]) < MaxCompletions
<1> DEFINE h == worker.frame
<1>1. Entering /\ Found /\ ~At("check")
  BY DEF Storing, Entering, Found, At
<1>2. h \in Frame /\ Reassembly!Takes(LocalNode, h)
  BY <1>1, SameOperators DEF DeliveryInv, PassOK
<1>3. /\ Begun.cnt = h.cnt /\ Begun.chunk = h.chunk /\ LastTouch <= MaxTouch
      /\ Fresh => Allocation(h.cnt, h.chunk) <= MaxMessageBytes
      /\ Len(completed[LocalNode]) < MaxCompletions
  BY <1>1 DEF Underway
<1>4. Allocation(h.cnt, h.chunk) \in Int /\ MaxMessageBytes \in Int
  <2>1. h.cnt \in Nat /\ h.chunk \in Nat
    BY <1>2, FrameTyped, FramingAssumption
  <2> QED
    BY <2>1, FramingAssumption DEF Allocation
<1>5. ~Reassembly!TooLarge(LocalNode, h)
  BY <1>1, <1>3, <1>4, MappedStores
<1>6. ~Reassembly!Disagrees(LocalNode, h)
  BY <1>1, <1>3, FitsBegun, MappedStores
<1>7. Reassembly!TouchOf(LocalNode, h) <= MaxTouch
  BY <1>1, <1>3, MappedStores
<1> QED
  BY <1>2, <1>3, <1>5, <1>6, <1>7 DEF Reassembly!Stores

\* What the pass writes to its slot, seen from the slots it began with.
LEMMA TableWritten ==
    ASSUME DeliveryInv, Underway, Found, NEW new, Write(new)
    PROVE  /\ slots'[LocalNode] = [worker.slots EXCEPT ![worker.at] = new]
           /\ [slots'[LocalNode] EXCEPT ![worker.at] = FreeSlot] = [worker.slots EXCEPT ![worker.at] = FreeSlot]
<1> DEFINE T == worker.slots
           U == slots[LocalNode]
           at == worker.at
<1>1. U \in [Slot -> SlotRecord] /\ at \in Slot
  BY OneNode DEF DeliveryInv, TypeOK, PassOK
<1>2. T \in [Slot -> SlotRecord] /\ \A s \in Slot : s # at => U[s] = T[s]
  BY DEF Underway, Found, Storing, Entering
<1>3. slots'[LocalNode] = [U EXCEPT ![at] = new]
  BY OneNode DEF Write, DeliveryInv, TypeOK
<1> HIDE DEF T, U, at
<1>4. \A x : [U EXCEPT ![at] = x] = [T EXCEPT ![at] = x]
  BY <1>1, <1>2
<1>5. \A x, y : [[T EXCEPT ![at] = x] EXCEPT ![at] = y] = [T EXCEPT ![at] = y]
  BY <1>1, <1>2
<1> QED
  BY <1>3, <1>4, <1>5 DEF T, at

\* A step that RadioReassembly does not see.
LEMMA Unseen ==
    ASSUME Table' = Table, Counter' = Counter, UNCHANGED tables
    PROVE  UNCHANGED Reassembly!vars
BY MappedIs DEF Reassembly!vars, tables

LEMMA FinishIsStep == ASSUME DeliveryInv, Underway, Finish PROVE Reassembly!Next
<1> DEFINE h == worker.frame
           s == SlotIn(worker.slots, h.key)
           L == LocalNode
<1>1. At("finish") /\ Storing /\ Found /\ Entering /\ ~At("check") /\ WorkerFields
  BY DEF Finish, Storing, Found, Entering, At, DeliveryInv
<1>2. /\ h \in Frame /\ Reassembly!Stores(L, h) /\ Len(completed[L]) < MaxCompletions
      /\ worker.at = s /\ touchCounter[L] = LastTouch
  BY <1>1, AbstractStores DEF Underway
<1>3. /\ Finished = StoreIn(Begun, h, LastTouch) /\ Finished.key = h.key
      /\ Reassembly!SlotWith(L, h) = Finished
  BY <1>1, FinishedIsSettled, MappedStores DEF Underway
<1>4. Write(Finished) /\ touchCounter' = touchCounter
  BY FinishEffect
<1>5. /\ slots'[L] = [worker.slots EXCEPT ![s] = Finished]
      /\ [slots'[L] EXCEPT ![s] = FreeSlot] = [worker.slots EXCEPT ![s] = FreeSlot]
  <2>1. PICK new : new = Finished
    OBVIOUS
  <2>2. Write(new)
    BY <1>4, <2>1
  <2> QED
    BY <1>1, <1>2, <2>1, <2>2, TableWritten
<1>6. ASSUME ~Entering' PROVE MappedTouch' = [MappedTouch EXCEPT ![L] = Reassembly!TouchOf(L, h)]
  <2>1. Counter' = LastTouch
    BY <1>2, <1>4, <1>6 DEF Counter
  <2> QED
    BY <1>1, <2>1, MappedIs, MappedOperators, MappedStores, LoneIs
<1>7. MappedSlots = Lone(worker.slots) /\ Reassembly!SlotFor(L, h.key) = s
  BY <1>1, MappedOperators
<1>8. CASE Finished.received # Finished.cnt
  <2>1. Return /\ UNCHANGED tables
    BY <1>8, FinishEffect
  <2>2. At("idle")' /\ ~Entering'
    BY <2>1, ReturnFields DEF At, Entering
  <2>3. Table' = [worker.slots EXCEPT ![s] = Finished]
    BY <1>5, <2>2 DEF Table
  <2>4. MappedSlots' = [MappedSlots EXCEPT ![L][s] = Finished]
    <3>1. PICK x, new : x = s /\ new = Finished
      OBVIOUS
    <3>2. Table' = [worker.slots EXCEPT ![x] = new]
      BY <2>3, <3>1
    <3>3. MappedSlots' = [MappedSlots EXCEPT ![LocalNode][x] = new]
      BY <1>1, <3>2, MappedWrite
    <3> QED
      BY <3>1, <3>3
  <2>5. Reassembly!StoreFragment(L, h)
    BY <1>2, <1>3, <1>6, <1>7, <1>8, <2>1, <2>2, <2>4 DEF Reassembly!StoreFragment, tables
  <2> QED
    BY <1>2, <2>5, NextOf DEF Reassembly!ProcessInboundPacket
<1>9. CASE Finished.received = Finished.cnt
  <2>1. /\ Remember(L, Finished.key)
        /\ completed' = [completed EXCEPT ![L] = Append(@, MessageOf(Finished))]
        /\ worker' = [worker EXCEPT !.pc = Branch(MessageOf(Finished)), !.view = MessageOf(Finished)]
    BY <1>9, FinishEffect
  <2>2. worker'.pc \in {"receive", "forward", "reset"} /\ worker'.at = worker.at
    BY <1>1, <2>1 DEF WorkerFields, Branch
  <2>3. ~At("idle")' /\ ~Entering'
    BY <2>2 DEF At, Entering
  <2>4. Table' = [worker.slots EXCEPT ![s] = FreeSlot]
    BY <1>2, <1>5, <2>2, <2>3 DEF Table
  <2>5. MappedSlots' = [MappedSlots EXCEPT ![L][s] = FreeSlot]
    BY <1>1, <2>4, MappedWrite
  <2>6. ~Reassembly!IsRecent(L, Finished.key)
    BY <1>1, <1>3, SameOperators DEF DeliveryInv, PassOK, Takes
  <2>7. Reassembly!Remember(L, Finished.key)
    BY <2>1 DEF Remember, Reassembly!Remember
  <2>8. completed' = [completed EXCEPT ![L] = Append(@, Reassembly!MessageOf(Finished))]
    BY <2>1, SameOperators
  <2>9. Reassembly!CompleteMessage(L, h)
    BY <1>2, <1>3, <1>6, <1>7, <1>9, <2>3, <2>5, <2>6, <2>7, <2>8, SameOperators DEF Reassembly!CompleteMessage
  <2> QED
    BY <1>2, <2>9, NextOf DEF Reassembly!ProcessInboundPacket
<1> QED
  BY <1>8, <1>9

\* While the pass goes on RadioReassembly sees nothing of it.
LEMMA UnseenPass ==
    ASSUME Entering, Entering', worker'.slots = worker.slots, worker'.touch = worker.touch, UNCHANGED tables
    PROVE  UNCHANGED Reassembly!vars
BY Unseen DEF Table, Counter, Entering, At

LEMMA CreateIsStep ==
    ASSUME DeliveryInv, Underway, Create
    PROVE  Reassembly!Next \/ UNCHANGED Reassembly!vars
<1> DEFINE h == worker.frame
           s == SlotIn(worker.slots, h.key)
<1>1. /\ At("find") /\ Entering /\ WorkerFields /\ TypeOK /\ UNCHANGED tables
      /\ Holding(LocalNode, h.key) = {}
  BY DEF Create, Entering, At, DeliveryInv
<1>2. slots[LocalNode] = worker.slots /\ touchCounter[LocalNode] = worker.touch
  BY <1>1 DEF Underway
<1>3. SlotFor(LocalNode, h.key) = s /\ Fresh /\ Candidate = FreeSlot
  BY <1>1, <1>2, OneNode, SlotForIn, CandidateIsFree DEF Fresh
<1>4. CASE TooLarge(LocalNode, h)
  <2>1. slots' = [slots EXCEPT ![LocalNode][s] = FreeSlot] /\ UNCHANGED touchCounter /\ Return
    BY <1>3, <1>4 DEF Create
  <2>2. At("idle")' /\ ~Entering'
    BY <2>1, ReturnFields DEF At, Entering
  <2>3. slots'[LocalNode] = [worker.slots EXCEPT ![s] = FreeSlot]
    BY <1>1, <1>2, <2>1, OneNode DEF TypeOK
  <2>4. Table' = [worker.slots EXCEPT ![s] = FreeSlot] /\ Counter' = worker.touch
    BY <1>2, <2>1, <2>2, <2>3 DEF Table, Counter
  <2>5. Allocation(h.cnt, h.chunk) > MaxMessageBytes
    BY <1>4 DEF TooLarge
  <2> QED
    BY <1>1, <1>3, <2>4, <2>5, AbstractReset
<1>5. CASE ~TooLarge(LocalNode, h)
  <2>1. worker' = [worker EXCEPT !.pc = "check", !.at = SlotFor(LocalNode, h.key)]
    BY <1>5 DEF Create
  <2>2. worker'.pc = "check" /\ worker'.slots = worker.slots /\ worker'.touch = worker.touch
    BY <1>1, <2>1 DEF WorkerFields
  <2> QED
    BY <1>1, <2>2, UnseenPass DEF Entering, At
<1> QED
  BY <1>4, <1>5

LEMMA CheckIsStep ==
    ASSUME DeliveryInv, Underway, Check
    PROVE  Reassembly!Next \/ UNCHANGED Reassembly!vars
<1> DEFINE h == worker.frame
           s == SlotIn(worker.slots, h.key)
<1>1. /\ At("check") /\ Entering /\ Found /\ WorkerFields /\ UNCHANGED tables /\ UNCHANGED touchCounter
      /\ here = Begun /\ touchCounter[LocalNode] = BegunTouch /\ worker.at = s
  BY DEF Check, Entering, Found, At, DeliveryInv, Underway
<1>2. CASE here.cnt # h.cnt \/ here.chunk # h.chunk
  <2>1. Write(FreeSlot) /\ Return
    BY <1>2 DEF Check
  <2>2. ~Fresh /\ (Begun.cnt # h.cnt \/ Begun.chunk # h.chunk)
    BY <1>1, <1>2, BegunTyped
  <2>3. At("idle")' /\ ~Entering'
    BY <2>1, ReturnFields DEF At, Entering
  <2>4. slots'[LocalNode] = [worker.slots EXCEPT ![s] = FreeSlot]
    BY <1>1, <2>1, TableWritten
  <2>5. Counter' = worker.touch
    BY <1>1, <2>2, <2>3 DEF Counter, BegunTouch
  <2>6. Table' = [worker.slots EXCEPT ![s] = FreeSlot]
    BY <2>3, <2>4 DEF Table
  <2> QED
    BY <1>1, <2>2, <2>5, <2>6, AbstractReset
<1>3. CASE ~(here.cnt # h.cnt \/ here.chunk # h.chunk)
  <2>1. Goto("touch")
    BY <1>3 DEF Check
  <2> QED
    BY <1>1, <2>1, GotoFields, UnseenPass DEF Entering, At
<1> QED
  BY <1>2, <1>3

LEMMA StopIsStep ==
    ASSUME DeliveryInv, ~Entering, Stop(LocalNode), UNCHANGED worker
    PROVE  Reassembly!Next
<1> DEFINE freed == [s \in Slot |-> FreeSlot]
<1>1. /\ slots' = [slots EXCEPT ![LocalNode] = freed]
      /\ UNCHANGED <<touchCounter, recent, recentCursor, completed>>
  BY DEF Stop
<1>2. slots'[LocalNode] = freed
  BY <1>1, OneNode DEF DeliveryInv, TypeOK
<1>3. [freed EXCEPT ![worker.at] = FreeSlot] = freed
  OBVIOUS
<1>4. /\ (At("idle")' <=> At("idle")) /\ ~Entering' /\ worker'.at = worker.at
  BY DEF At, Entering
<1> HIDE DEF freed
<1>5. Table' = freed /\ Counter' = Counter
  BY <1>1, <1>2, <1>3, <1>4 DEF Table, Counter
<1>6. MappedSlots' = [MappedSlots EXCEPT ![LocalNode] = freed] /\ MappedTouch' = MappedTouch
  BY <1>5, MappedIs, LoneIs
<1>7. Reassembly!Stop(LocalNode)
  BY <1>1, <1>6, SameOperators DEF Reassembly!Stop, freed
<1> QED
  BY <1>7, StopOf

\* Every step is one of RadioReassembly, or none it sees, or a receiver throws.
LEMMA EveryStep ==
    ASSUME DeliveryInv, Underway, [SerialNext]_deliveryVars
    PROVE  thrown' # thrown \/ Reassembly!Next \/ UNCHANGED Reassembly!vars
<1>1. WorkerFields /\ TypeOK /\ thrown \in Nat /\ worker.at \in Slot
  BY DEF DeliveryInv, ToldOK, PassOK
<1>2. \A pc : Goto(pc) => /\ worker'.pc = pc /\ worker'.at = worker.at
                          /\ worker'.slots = worker.slots /\ worker'.touch = worker.touch
  BY <1>1, GotoFields
<1>3. ASSUME NEW h \in Frame, Accept(h) PROVE UNCHANGED Reassembly!vars
  <2>1. /\ At("idle") /\ ~Entering /\ UNCHANGED tables /\ UNCHANGED <<slots, touchCounter>>
        /\ worker' = [Idle EXCEPT !.pc = "find", !.frame = h,
                                  !.slots = slots[LocalNode], !.touch = touchCounter[LocalNode]]
    BY <1>3 DEF Accept, Entering, At, vars, tables
  <2>2. worker'.pc = "find" /\ worker'.slots = slots[LocalNode] /\ worker'.touch = touchCounter[LocalNode]
    BY <2>1 DEF Idle
  <2>3. Entering' /\ ~At("idle")'
    BY <2>2 DEF Entering, At
  <2>4. Table' = Table /\ Counter' = Counter
    BY <2>1, <2>2, <2>3 DEF Table, Counter
  <2> QED
    BY <2>1, <2>4, Unseen
<1>4. CASE FindHeld
  <2>1. /\ Entering /\ UNCHANGED tables
        /\ worker' = [worker EXCEPT !.pc = "check", !.at = SlotFor(LocalNode, worker.frame.key)]
    BY <1>4 DEF FindHeld, Entering, At, vars, tables
  <2>2. worker'.pc = "check" /\ worker'.slots = worker.slots /\ worker'.touch = worker.touch
    BY <1>1, <2>1 DEF WorkerFields
  <2> QED
    BY <2>1, <2>2, UnseenPass DEF Entering, At
<1>5. CASE Touch \/ Store \/ Count
  <2>1. Entering /\ UNCHANGED tables
    BY <1>5 DEF Touch, Store, Count, Entering, At
  <2>2. PICK pc \in {"store", "count", "finish"} : Goto(pc)
    BY <1>5, TouchGoesOn DEF Store, Count
  <2>3. Entering'
    BY <1>2, <2>2 DEF Entering, At
  <2> QED
    BY <1>2, <2>1, <2>2, <2>3, UnseenPass
<1>6. CASE Receive \/ Forward \/ ReceiverReturns \/ Notify
  <2>1. /\ ~At("idle") /\ ~Entering /\ UNCHANGED vars
        /\ \E pc \in {"lent", "notify", "reset"} : Goto(pc)
    BY <1>6 DEF Receive, Forward, PassOn, ReceiverReturns, Notify, Entering, At
  <2>2. ~At("idle")' /\ ~Entering' /\ worker'.at = worker.at
    BY <1>2, <2>1 DEF Entering, At
  <2>3. UNCHANGED tables /\ UNCHANGED <<slots, touchCounter>>
    BY <2>1 DEF vars, tables
  <2>4. Table' = Table /\ Counter' = Counter
    BY <2>1, <2>2, <2>3 DEF Table, Counter
  <2> QED
    BY <2>3, <2>4, Unseen
<1>7. CASE ResetSlot
  <2>1. /\ ~At("idle") /\ ~Entering /\ UNCHANGED tables /\ UNCHANGED touchCounter
        /\ Write(FreeSlot) /\ Return
    BY <1>7 DEF ResetSlot, Entering, At
  <2>2. At("idle")' /\ ~Entering'
    BY <2>1, ReturnFields DEF At, Entering
  <2>3. slots'[LocalNode] = [slots[LocalNode] EXCEPT ![worker.at] = FreeSlot]
    BY <1>1, <2>1, OneNode DEF Write, TypeOK
  <2>4. Table' = Table /\ Counter' = Counter
    BY <2>1, <2>2, <2>3 DEF Table, Counter
  <2> QED
    BY <2>1, <2>4, Unseen
<1>8. CASE ReceiverThrows
  BY <1>1, <1>8 DEF ReceiverThrows
<1>9. CASE ReceiverStops \/ (At("idle") /\ ApplicationStops)
  <2>1. ~Entering /\ Stop(LocalNode) /\ UNCHANGED worker
    BY <1>9 DEF ReceiverStops, ApplicationStops, Entering, At
  <2> QED
    BY <2>1, StopIsStep
<1>10. CASE Subscriptions \/ UNCHANGED deliveryVars
  <2>1. UNCHANGED <<vars, worker>>
    BY <1>10 DEF Subscriptions, deliveryVars
  <2>2. UNCHANGED tables /\ UNCHANGED <<slots, touchCounter, worker>>
    BY <2>1 DEF vars, tables
  <2>3. Table' = Table /\ Counter' = Counter
    BY <2>2 DEF Table, Counter, Entering, At
  <2> QED
    BY <2>2, <2>3, Unseen
<1> QED
  BY <1>3, <1>4, <1>5, <1>6, <1>7, <1>8, <1>9, <1>10, CreateIsStep, CheckIsStep, FinishIsStep
     DEF SerialNext, Pass

LEMMA MappedStart == DeliveryInit => Underway /\ Reassembly!Init
<1> SUFFICES ASSUME DeliveryInit PROVE Underway /\ Reassembly!Init
  OBVIOUS
<1>1. Init /\ worker.pc = "idle"
  BY DEF DeliveryInit, Idle
<1>2. At("idle") /\ ~Entering
  BY <1>1 DEF At, Entering
<1>3. Underway
  BY <1>2 DEF Underway, Entering, Found, Storing, At
<1>4. MappedSlots = slots /\ MappedTouch = touchCounter
  BY <1>1, <1>2 DEF MappedSlots, MappedTouch, Init
<1>5. Reassembly!Init
  BY <1>1, <1>4, SameOperators DEF Init, Reassembly!Init, NoKey, Reassembly!NoKey
<1> QED
  BY <1>3, <1>5

\* What the worker's thread does in many steps is what ProcessInboundPacket does
\* in one, for any packets: until a receiver throws the pass implements
\* RadioReassembly, and after it too, but for the slot the throw leaves behind.
THEOREM PassIsOneStep == SerialSpec => StepsOfReassembly
<1>1. DeliveryInit => DeliveryInv /\ Underway /\ Reassembly!Init
  BY DeliveryStart, MappedStart
<1>2. DeliveryInv /\ Underway /\ [SerialNext]_deliveryVars => (DeliveryInv /\ Underway)'
  BY DeliveryStep, UnderwayStep
<1>3. DeliveryInv /\ Underway /\ [SerialNext]_deliveryVars
         => [thrown' # thrown \/ Reassembly!Next]_(Reassembly!vars)
  BY EveryStep
<1> QED
  BY <1>1, <1>2, <1>3, PTL DEF SerialSpec, StepsOfReassembly
=============================================================================
