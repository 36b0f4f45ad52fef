----------------------- MODULE RadioReassembly_proofs -----------------------
(***************************************************************************)
(* Invariance proofs for RadioReassembly, for every set of nodes and of    *)
(* packets and all sizes of the slot table and of the ring; at the end,    *)
(* with the history of RadioEviction, what the choice of a slot is for.    *)
(***************************************************************************)
EXTENDS RadioEviction, TLAPS, FiniteSetTheorems, SequenceTheorems, NumberLemmas

\* A non-empty set of naturals has a least element, which First returns.
LEMMA FirstIsLeast ==
    ASSUME NEW S \in SUBSET Nat, S # {}
    PROVE  First(S) \in S /\ \A t \in S : First(S) <= t
BY HasLeast DEF First

\* No slot was touched longer ago than Oldest.
LEMMA OldestIsLeast ==
    ASSUME TypeOK, NEW n \in Node
    PROVE  Oldest(n) \in Slot /\ \A t \in Slot : slots[n][Oldest(n)].touch <= slots[n][t].touch
<1> DEFINE T == {slots[n][s].touch : s \in Slot}
           L == {s \in Slot : \A t \in Slot : slots[n][s].touch <= slots[n][t].touch}
<1>1. T \in SUBSET Nat /\ T # {}
  <2>1. \A s \in Slot : slots[n][s].touch \in 0 .. TouchModulus - 1
    BY DEF TypeOK, SlotRecord
  <2>2. 0 \in Slot
    BY ReassemblyAssumption DEF Slot
  <2> QED
    BY <2>1, <2>2, ReassemblyAssumption
<1>2. PICK u \in T : \A v \in T : u <= v
  BY <1>1, FirstIsLeast
<1>3. L # {} /\ L \in SUBSET Nat
  BY <1>2 DEF Slot
<1>4. First(L) \in L
  BY <1>3, FirstIsLeast
<1> QED
  BY <1>4 DEF Oldest

\* SlotFor names a slot, and the message's own slot when it has one.
LEMMA SlotForIsSlot ==
    ASSUME TypeOK, NEW n \in Node, NEW k
    PROVE  /\ SlotFor(n, k) \in Slot
           /\ Holding(n, k) # {} => SlotFor(n, k) \in Holding(n, k)
<1>1. \A S \in SUBSET Slot : S # {} => First(S) \in S
  BY FirstIsLeast DEF Slot
<1> QED
  BY <1>1, OldestIsLeast DEF SlotFor, Holding, FreeSlots

-----------------------------------------------------------------------------
(***************************************************************************)
(* Types and the accounts of a slot.  TypeOK alone is not inductive: that  *)
(* ReceivedCount stays a byte needs that it counts fragments.              *)
(***************************************************************************)
SlotTyped(slot) ==
    /\ slot \in SlotRecord
    /\ DOMAIN slot.parts = 0 .. slot.cnt - 1

SlotCounted(slot) ==
    /\ slot.received = Cardinality(Filled(slot))
    /\ slot.received < slot.cnt
    /\ Allocation(slot.cnt, slot.chunk) <= MaxMessageBytes

\* The slot SlotWith stores a fragment in, before it does.
Base(n, h) ==
    IF Holding(n, h.key) = {} THEN OpenSlot(h, NextTouch(touchCounter[n]))
    ELSE slots[n][SlotFor(n, h.key)]

LEMMA FrameTyped ==
    ASSUME NEW h \in Frame
    PROVE  /\ h.idx \in 0 .. MaxByte /\ h.cnt \in 0 .. MaxByte /\ h.chunk \in 0 .. MaxByte
           /\ h.bytes \in 0 .. MaxByte /\ h.hop \in 0 .. MaxByte /\ h.size \in Nat
           /\ h.key \in Key /\ h.data \in Data /\ h.data # NoData
BY ReassemblyAssumption DEF Key, Data

LEMMA NextTouchTyped ==
    ASSUME NEW c \in 0 .. TouchModulus - 1
    PROVE  NextTouch(c) \in 0 .. TouchModulus - 1
BY ReassemblyAssumption DEF NextTouch

LEMMA FreeSlotTyped == SlotTyped(FreeSlot) /\ ~FreeSlot.used
<1>1. 0 \in 0 .. MaxByte /\ 0 \in 0 .. TouchModulus - 1
  BY FramingAssumption, ReassemblyAssumption
<1>2. FreeSlot.parts \in [0 .. 0 - 1 -> Data \union {NoData}]
  BY DEF FreeSlot
<1>3. FreeSlot.parts \in UNION {[0 .. k - 1 -> Data \union {NoData}] : k \in 0 .. MaxByte}
  BY <1>1, <1>2
<1> QED
  BY <1>1, <1>2, <1>3 DEF FreeSlot, SlotTyped, SlotRecord

\* What is in the slot before the fragment: h's message, short of a fragment.
\* A slot that was just opened is empty.
LEMMA OpenFits ==
    ASSUME NEW h \in Frame, NEW touch \in 0 .. TouchModulus - 1, DecodeHeader(h)
    PROVE  /\ OpenSlot(h, touch).used /\ OpenSlot(h, touch).key = h.key
           /\ OpenSlot(h, touch).cnt = h.cnt /\ OpenSlot(h, touch).chunk = h.chunk
           /\ SlotTyped(OpenSlot(h, touch))
           /\ Filled(OpenSlot(h, touch)) = {} /\ OpenSlot(h, touch).received = 0
<1> DEFINE b == OpenSlot(h, touch)
<1>1. /\ b.used /\ b.key = h.key /\ b.cnt = h.cnt /\ b.chunk = h.chunk
      /\ b.received = 0 /\ b.parts = [i \in 0 .. h.cnt - 1 |-> NoData]
  BY DEF OpenSlot
<1>2. h.cnt \in 1 .. MaxByte
  BY FrameTyped DEF DecodeHeader
<1>3. b.parts \in [0 .. h.cnt - 1 -> Data \union {NoData}]
  BY <1>1
<1>4. b.parts \in UNION {[0 .. k - 1 -> Data \union {NoData}] : k \in 0 .. MaxByte}
  BY <1>2, <1>3
<1>5. SlotTyped(b)
  BY <1>1, <1>4, FrameTyped, FramingAssumption DEF OpenSlot, SlotTyped, SlotRecord
<1>6. Filled(b) = {}
  BY <1>1 DEF Filled
<1> QED
  BY <1>1, <1>5, <1>6

LEMMA BaseFits ==
    ASSUME TypeOK, SlotAccounts, NEW n \in Node, NEW h \in Frame, Stores(n, h)
    PROVE  /\ Base(n, h).used /\ Base(n, h).key = h.key
           /\ Base(n, h).cnt = h.cnt /\ Base(n, h).chunk = h.chunk
           /\ SlotTyped(Base(n, h)) /\ SlotCounted(Base(n, h))
<1>1. CASE Holding(n, h.key) = {}
  <2> DEFINE t == NextTouch(touchCounter[n])
             b == OpenSlot(h, t)
  <2>1. Base(n, h) = b
    BY <1>1 DEF Base
  <2>2. t \in 0 .. TouchModulus - 1
    <3>1. touchCounter[n] \in 0 .. TouchModulus - 1
      BY DEF TypeOK
    <3> QED
      BY <3>1, NextTouchTyped
  <2>3. DecodeHeader(h) /\ h.cnt \in 1 .. MaxByte
    BY FrameTyped DEF Stores, Takes, DecodeHeader
  <2> HIDE DEF t
  <2>4. /\ b.used /\ b.key = h.key /\ b.cnt = h.cnt /\ b.chunk = h.chunk
        /\ SlotTyped(b) /\ Filled(b) = {} /\ b.received = 0
    BY <2>2, <2>3, OpenFits
  <2>5. Allocation(h.cnt, h.chunk) <= MaxMessageBytes
    BY <1>1, FrameTyped, FramingAssumption DEF Stores, TooLarge, Allocation
  <2> HIDE DEF b
  <2>6. SlotCounted(b)
    BY <2>3, <2>4, <2>5, FS_EmptySet DEF SlotCounted
  <2> QED
    BY <2>1, <2>4, <2>6
<1>2. CASE Holding(n, h.key) # {}
  <2> DEFINE s == SlotFor(n, h.key)
  <2>1. s \in Holding(n, h.key) /\ Base(n, h) = slots[n][s]
    BY <1>2, SlotForIsSlot DEF Base
  <2>2. s \in Slot /\ slots[n][s].used /\ slots[n][s].key = h.key
    BY <2>1 DEF Holding
  <2>3. slots[n][s].cnt = h.cnt /\ slots[n][s].chunk = h.chunk
    BY <1>2 DEF Stores, Disagrees
  <2>4. SlotTyped(slots[n][s]) /\ SlotCounted(slots[n][s])
    BY <2>2 DEF TypeOK, SlotAccounts, SlotTyped, SlotCounted
  <2> HIDE DEF s
  <2> QED
    BY <2>1, <2>2, <2>3, <2>4
<1> QED
  BY <1>1, <1>2

\* The fragments in a slot are no more than the message has.
LEMMA FilledBounded ==
    ASSUME NEW b, b.cnt \in Nat
    PROVE  /\ IsFiniteSet(Filled(b)) /\ Cardinality(Filled(b)) \in Nat
           /\ Cardinality(Filled(b)) <= b.cnt
           /\ Cardinality(Filled(b)) = b.cnt => Filled(b) = 0 .. b.cnt - 1
<1>1. IsFiniteSet(0 .. b.cnt - 1) /\ Cardinality(0 .. b.cnt - 1) = b.cnt
  <2>1. CASE b.cnt = 0
    <3>1. 0 .. b.cnt - 1 = {}
      BY <2>1
    <3> QED
      BY <2>1, <3>1, FS_EmptySet
  <2>2. CASE b.cnt # 0
    <3>1. 0 \in Int /\ b.cnt - 1 \in Int /\ ~(0 > b.cnt - 1) /\ (b.cnt - 1) - 0 + 1 = b.cnt
      BY <2>2
    <3> QED
      BY <3>1, FS_Interval
  <2> QED
    BY <2>1, <2>2
<1>2. Filled(b) \in SUBSET (0 .. b.cnt - 1)
  BY DEF Filled
<1> QED
  BY <1>1, <1>2, FS_Subset, FS_CardinalityType

\* Storing a fragment keeps the types and the count of a slot.
LEMMA StoreInFits ==
    ASSUME NEW b, NEW h \in Frame, NEW touch \in 0 .. TouchModulus - 1,
           SlotTyped(b), b.cnt = h.cnt, b.received = Cardinality(Filled(b)), h.idx < h.cnt
    PROVE  /\ StoreIn(b, h, touch).used = b.used /\ StoreIn(b, h, touch).key = b.key
           /\ StoreIn(b, h, touch).cnt = b.cnt /\ StoreIn(b, h, touch).chunk = b.chunk
           /\ StoreIn(b, h, touch).hop = b.hop
           /\ SlotTyped(StoreIn(b, h, touch))
           /\ StoreIn(b, h, touch).received = Cardinality(Filled(StoreIn(b, h, touch)))
           /\ StoreIn(b, h, touch).received <= h.cnt
<1> DEFINE r == StoreIn(b, h, touch)
           new == b.parts[h.idx] = NoData
           parts == IF new THEN [b.parts EXCEPT ![h.idx] = h.data] ELSE b.parts
           received == IF new THEN b.received + 1 ELSE b.received
           last == IF h.idx = h.cnt - 1 THEN h.bytes ELSE b.last
<1>1. r = [b EXCEPT !.touch = touch, !.parts = parts, !.received = received, !.last = last]
  BY DEF StoreIn
<1>2. h.idx \in 0 .. h.cnt - 1 /\ h.cnt \in 0 .. MaxByte /\ h.cnt \in Nat
  BY FrameTyped, FramingAssumption
<1>3. b.parts \in [0 .. h.cnt - 1 -> Data \union {NoData}]
  BY DEF SlotTyped, SlotRecord
<1>4. /\ r.used = b.used /\ r.key = b.key /\ r.cnt = b.cnt /\ r.chunk = b.chunk /\ r.hop = b.hop
      /\ r.touch = touch /\ r.parts = parts /\ r.received = received /\ r.last = last
  BY <1>1 DEF SlotTyped, SlotRecord
<1>5. parts \in [0 .. h.cnt - 1 -> Data \union {NoData}]
  BY <1>2, <1>3, FrameTyped
<1>6. received = Cardinality(Filled(r))
  <2>1. CASE new
    <3>1. Filled(r) = Filled(b) \union {h.idx} /\ h.idx \notin Filled(b)
      BY <1>2, <1>3, <1>4, <2>1, FrameTyped DEF Filled
    <3>2. Cardinality(Filled(r)) = Cardinality(Filled(b)) + 1
      BY <1>2, <3>1, FilledBounded, FS_AddElement
    <3> QED
      BY <2>1, <3>2
  <2>2. CASE ~new
    <3>1. Filled(r) = Filled(b)
      BY <1>4, <2>2 DEF Filled
    <3> QED
      BY <2>2, <3>1
  <2> QED
    BY <2>1, <2>2
<1>7. received \in 0 .. MaxByte /\ received <= h.cnt
  <2>1. received \in Nat /\ received <= h.cnt
    BY <1>2, <1>4, <1>6, FilledBounded
  <2> HIDE DEF received
  <2> QED
    BY <1>2, <2>1, FramingAssumption
<1>8. SlotTyped(r)
  <2>1. parts \in UNION {[0 .. k - 1 -> Data \union {NoData}] : k \in 0 .. MaxByte}
    BY <1>2, <1>5
  <2>2. last \in 0 .. MaxByte
    BY FrameTyped DEF SlotTyped, SlotRecord
  <2>3. DOMAIN parts = 0 .. h.cnt - 1
    BY <1>5
  <2> HIDE DEF parts, received, last, new
  <2>4. r \in SlotRecord
    BY <1>1, <1>7, <2>1, <2>2 DEF SlotTyped, SlotRecord
  <2> QED
    BY <1>4, <2>3, <2>4 DEF SlotTyped
<1> HIDE DEF received, parts, last, new
<1> QED
  BY <1>4, <1>6, <1>7, <1>8

LEMMA SlotWithFits ==
    ASSUME TypeOK, SlotAccounts, NEW n \in Node, NEW h \in Frame, Stores(n, h)
    PROVE  /\ SlotWith(n, h).used /\ SlotWith(n, h).key = h.key
           /\ SlotWith(n, h).cnt = h.cnt /\ SlotWith(n, h).chunk = h.chunk
           /\ SlotTyped(SlotWith(n, h))
           /\ SlotWith(n, h).received = Cardinality(Filled(SlotWith(n, h)))
           /\ SlotWith(n, h).received <= SlotWith(n, h).cnt
           /\ Allocation(h.cnt, h.chunk) <= MaxMessageBytes
<1> DEFINE b == Base(n, h)
<1>1. SlotWith(n, h) = StoreIn(b, h, TouchOf(n, h))
  BY DEF SlotWith, Base
<1>2. /\ b.used /\ b.key = h.key /\ b.cnt = h.cnt /\ b.chunk = h.chunk
      /\ SlotTyped(b) /\ SlotCounted(b)
  BY BaseFits
<1>3. TouchOf(n, h) \in 0 .. TouchModulus - 1
  <2>1. touchCounter[n] \in 0 .. TouchModulus - 1
    BY DEF TypeOK
  <2> QED
    BY <2>1, NextTouchTyped DEF TouchOf
<1>4. h.idx < h.cnt
  BY DEF Stores, Takes, DecodeHeader
<1>5. b.received = Cardinality(Filled(b)) /\ Allocation(h.cnt, h.chunk) <= MaxMessageBytes
  BY <1>2 DEF SlotCounted
<1> HIDE DEF b
<1> QED
  BY <1>1, <1>2, <1>3, <1>4, <1>5, StoreInFits

\* The effect of writing one slot, which all but Stop do.
LEMMA SlotWritten ==
    ASSUME TypeOK, NEW n \in Node, NEW s \in Slot, NEW new, SlotTyped(new),
           slots' = [slots EXCEPT ![n][s] = new]
    PROVE  /\ slots' \in [Node -> [Slot -> SlotRecord]]
           /\ \A m \in Node, t \in Slot : DOMAIN slots'[m][t].parts = 0 .. slots'[m][t].cnt - 1
           /\ \A m \in Node, t \in Slot :
                 slots'[m][t] = IF m = n /\ t = s THEN new ELSE slots[m][t]
<1>1. \A m \in Node, t \in Slot :
          slots'[m][t] = IF m = n /\ t = s THEN new ELSE slots[m][t]
  BY DEF TypeOK
<1>2. slots' \in [Node -> [Slot -> SlotRecord]]
  BY DEF TypeOK, SlotTyped
<1> QED
  BY <1>1, <1>2 DEF TypeOK, SlotTyped

\* A slot that has all its fragments makes a message.
LEMMA MessageTyped ==
    ASSUME NEW r, SlotTyped(r), r.key \in Key, r.received = Cardinality(Filled(r)), r.received = r.cnt
    PROVE  MessageOf(r) \in Message
<1>1. /\ r.parts \in [0 .. r.cnt - 1 -> Data \union {NoData}]
      /\ r.cnt \in Nat /\ r.chunk \in Nat /\ r.last \in Nat /\ r.hop \in 0 .. MaxByte
  BY FramingAssumption DEF SlotTyped, SlotRecord
<1>2. \A i \in 0 .. r.cnt - 1 : r.parts[i] # NoData
  BY <1>1, FilledBounded DEF Filled
<1>3. {r.parts[i] : i \in DOMAIN r.parts} \in SUBSET Data
  BY <1>1, <1>2
<1>4. CompletedBytes(r.cnt, r.chunk, r.last) \in Nat
  <2>1. CASE r.cnt = 0
    BY <2>1 DEF CompletedBytes
  <2>2. CASE r.cnt # 0
    <3>1. (r.cnt - 1) \in Nat
      BY <1>1, <2>2
    <3>2. (r.cnt - 1) * r.chunk \in Nat
      BY <1>1, <3>1
    <3> QED
      BY <1>1, <2>2, <3>2 DEF CompletedBytes
  <2> QED
    BY <2>1, <2>2
<1> QED
  BY <1>1, <1>3, <1>4 DEF MessageOf, Message

\* What CompleteMessage does, Takes having ruled out that the message is
\* recent: the branch of Complete that drops it is never taken.
LEMMA CompleteMessageEffect ==
    ASSUME TypeOK, SlotAccounts, NEW n \in Node, NEW h \in Frame, CompleteMessage(n, h)
    PROVE  /\ SlotFor(n, h.key) \in Slot
           /\ ~IsRecent(n, h.key) /\ h.key \in Key /\ h.key # NoKey
           /\ slots' = [slots EXCEPT ![n][SlotFor(n, h.key)] = FreeSlot]
           /\ recent' = [recent EXCEPT ![n][recentCursor[n]] = h.key]
           /\ recentCursor' = [recentCursor EXCEPT ![n] = (@ + 1) % MaxRecent]
           /\ completed' = [completed EXCEPT ![n] = Append(@, MessageOf(SlotWith(n, h)))]
           /\ MessageOf(SlotWith(n, h)) \in Message
           /\ MessageOf(SlotWith(n, h)).key = h.key
<1> DEFINE r == SlotWith(n, h)
<1>1. Stores(n, h)
  BY DEF CompleteMessage
<1>2. r.key = h.key /\ r.cnt = h.cnt /\ r.chunk = h.chunk /\ SlotTyped(r)
      /\ r.received = Cardinality(Filled(r))
  BY <1>1, SlotWithFits
<1>3. ~IsRecent(n, h.key) /\ h.key # NoKey
  BY <1>1 DEF Stores, Takes, NoKey
<1>4. MessageOf(r).key = h.key
  BY <1>2 DEF MessageOf
<1>7. r.received = r.cnt /\ r.key \in Key
  BY <1>2, FrameTyped DEF CompleteMessage
<1>8. MessageOf(r) \in Message
  BY <1>2, <1>7, MessageTyped
<1> HIDE DEF r
<1> QED
  BY <1>2, <1>3, <1>4, <1>8, FrameTyped, SlotForIsSlot DEF CompleteMessage, Remember, r

\* What Remember and a completion leave in the tables.
LEMMA RememberTyped ==
    ASSUME TypeOK, NEW n \in Node, NEW k \in Key, NEW m \in Message, Remember(n, k),
           completed' = [completed EXCEPT ![n] = Append(@, m)]
    PROVE  /\ recent' \in [Node -> [Ring -> Key \union {NoKey}]]
           /\ recentCursor' \in [Node -> Ring]
           /\ completed' \in [Node -> Seq(Message)]
<1>1. recent' \in [Node -> [Ring -> Key \union {NoKey}]]
  BY DEF TypeOK, Remember
<1>2. recentCursor' \in [Node -> Ring]
  <2>1. recentCursor[n] \in Nat
    BY ReassemblyAssumption DEF TypeOK, Ring
  <2>2. (recentCursor[n] + 1) % MaxRecent \in Ring
    BY <2>1, ReassemblyAssumption DEF Ring
  <2> QED
    BY <2>2 DEF TypeOK, Remember
<1>3. completed' \in [Node -> Seq(Message)]
  <2>1. Append(completed[n], m) \in Seq(Message)
    BY AppendProperties DEF TypeOK
  <2> QED
    BY <2>1 DEF TypeOK
<1> QED
  BY <1>1, <1>2, <1>3

LEMMA StopEffect ==
    ASSUME TypeOK, NEW n \in Node, Stop(n)
    PROVE  /\ TypeOK'
           /\ \A m \in Node, s \in Slot : slots'[m][s] = IF m = n THEN FreeSlot ELSE slots[m][s]
<1>1. \A m \in Node, s \in Slot : slots'[m][s] = IF m = n THEN FreeSlot ELSE slots[m][s]
  BY DEF Stop, TypeOK
<1>2. slots' \in [Node -> [Slot -> SlotRecord]]
  BY FreeSlotTyped DEF Stop, TypeOK, SlotTyped
<1>3. TypeOK'
  BY <1>1, <1>2, FreeSlotTyped DEF Stop, TypeOK, SlotTyped
<1> QED
  BY <1>1, <1>3

TypeInv == TypeOK /\ SlotAccounts

LEMMA TypeInit == Init => TypeInv
<1> SUFFICES ASSUME Init PROVE TypeInv
  OBVIOUS
<1>1. \A n \in Node, s \in Slot : slots[n][s] = FreeSlot
  BY DEF Init
<1>2. slots \in [Node -> [Slot -> SlotRecord]]
  BY FreeSlotTyped DEF Init, SlotTyped
<1>3. 0 \in 0 .. TouchModulus - 1 /\ 0 \in Ring
  BY ReassemblyAssumption DEF Ring
<1>4. /\ touchCounter \in [Node -> 0 .. TouchModulus - 1]
      /\ recent \in [Node -> [Ring -> Key \union {NoKey}]]
      /\ recentCursor \in [Node -> Ring]
      /\ completed \in [Node -> Seq(Message)]
  BY <1>3 DEF Init
<1> QED
  BY <1>1, <1>2, <1>4, FreeSlotTyped DEF TypeInv, TypeOK, SlotAccounts, SlotTyped

LEMMA TypeStep == TypeInv /\ [Next]_vars => TypeInv'
<1> SUFFICES ASSUME TypeInv, [Next]_vars PROVE TypeInv'
  OBVIOUS
<1> USE DEF TypeInv
\* An action that writes one slot with something typed keeps the invariant.
<1>1. ASSUME NEW n \in Node, NEW s \in Slot, NEW new,
             slots' = [slots EXCEPT ![n][s] = new],
             SlotTyped(new), new.used => SlotCounted(new),
             touchCounter' \in [Node -> 0 .. TouchModulus - 1],
             recent' \in [Node -> [Ring -> Key \union {NoKey}]],
             recentCursor' \in [Node -> Ring],
             completed' \in [Node -> Seq(Message)]
      PROVE  TypeInv'
  <2>1. /\ slots' \in [Node -> [Slot -> SlotRecord]]
        /\ \A m \in Node, t \in Slot : DOMAIN slots'[m][t].parts = 0 .. slots'[m][t].cnt - 1
        /\ \A m \in Node, t \in Slot :
              slots'[m][t] = IF m = n /\ t = s THEN new ELSE slots[m][t]
    BY <1>1, SlotWritten
  <2>2. TypeOK'
    BY <1>1, <2>1 DEF TypeOK
  <2>3. ASSUME NEW m \in Node, NEW t \in Slot, slots'[m][t].used
        PROVE  SlotCounted(slots'[m][t])
    BY <1>1, <2>1, <2>3 DEF SlotAccounts, SlotCounted
  <2>4. SlotAccounts'
    BY <2>3 DEF SlotAccounts, SlotCounted, Filled
  <2> QED
    BY <2>2, <2>4
<1>2. ASSUME NEW n \in Node, NEW h \in Frame, RejectOversized(n, h) \/ ResetMismatched(n, h)
      PROVE  TypeInv'
  <2>1. SlotFor(n, h.key) \in Slot /\ SlotTyped(FreeSlot) /\ ~FreeSlot.used
    BY SlotForIsSlot, FreeSlotTyped
  <2>2. /\ slots' = [slots EXCEPT ![n][SlotFor(n, h.key)] = FreeSlot]
        /\ UNCHANGED <<touchCounter, recent, recentCursor, completed>>
    BY <1>2 DEF RejectOversized, ResetMismatched
  <2> QED
    BY <1>1, <2>1, <2>2 DEF TypeOK
<1>3. ASSUME NEW n \in Node, NEW h \in Frame, Stores(n, h)
      PROVE  [touchCounter EXCEPT ![n] = TouchOf(n, h)] \in [Node -> 0 .. TouchModulus - 1]
  <2>1. touchCounter \in [Node -> 0 .. TouchModulus - 1]
    BY DEF TypeOK
  <2>2. TouchOf(n, h) \in 0 .. TouchModulus - 1
    BY <2>1, NextTouchTyped DEF TouchOf
  <2> QED
    BY <2>1, <2>2
<1>4. ASSUME NEW n \in Node, NEW h \in Frame, StoreFragment(n, h)
      PROVE  TypeInv'
  <2> DEFINE r == SlotWith(n, h)
  <2>1. Stores(n, h) /\ r.received # r.cnt
    BY <1>4 DEF StoreFragment
  <2>2. SlotTyped(r) /\ r.received = Cardinality(Filled(r)) /\ r.received <= r.cnt
        /\ r.cnt = h.cnt /\ r.chunk = h.chunk /\ Allocation(h.cnt, h.chunk) <= MaxMessageBytes
    BY <2>1, SlotWithFits
  <2>3. r.received \in Nat /\ r.cnt \in Nat
    BY <2>2, FramingAssumption DEF SlotTyped, SlotRecord
  <2>4. SlotCounted(r)
    BY <2>1, <2>2, <2>3 DEF SlotCounted
  <2>5. SlotFor(n, h.key) \in Slot
    BY SlotForIsSlot
  <2>6. /\ slots' = [slots EXCEPT ![n][SlotFor(n, h.key)] = r]
        /\ touchCounter' = [touchCounter EXCEPT ![n] = TouchOf(n, h)]
        /\ UNCHANGED <<recent, recentCursor, completed>>
    BY <1>4 DEF StoreFragment
  <2> HIDE DEF r
  <2> QED
    BY <1>1, <1>3, <2>1, <2>2, <2>4, <2>5, <2>6 DEF TypeOK
<1>5. ASSUME NEW n \in Node, NEW h \in Frame, CompleteMessage(n, h)
      PROVE  TypeInv'
  <2> DEFINE m == MessageOf(SlotWith(n, h))
  <2>1. /\ SlotFor(n, h.key) \in Slot
        /\ h.key \in Key
        /\ slots' = [slots EXCEPT ![n][SlotFor(n, h.key)] = FreeSlot]
        /\ recent' = [recent EXCEPT ![n][recentCursor[n]] = h.key]
        /\ recentCursor' = [recentCursor EXCEPT ![n] = (@ + 1) % MaxRecent]
        /\ completed' = [completed EXCEPT ![n] = Append(@, m)]
        /\ m \in Message
    BY <1>5, CompleteMessageEffect
  <2>2. SlotTyped(FreeSlot) /\ ~FreeSlot.used
    BY FreeSlotTyped
  <2>3. Stores(n, h) /\ touchCounter' = [touchCounter EXCEPT ![n] = TouchOf(n, h)]
    BY <1>5 DEF CompleteMessage
  <2>4. touchCounter' \in [Node -> 0 .. TouchModulus - 1]
    BY <1>3, <2>3
  <2> HIDE DEF m
  <2>5. Remember(n, h.key)
    BY <2>1 DEF Remember
  <2>6. /\ recent' \in [Node -> [Ring -> Key \union {NoKey}]]
        /\ recentCursor' \in [Node -> Ring]
        /\ completed' \in [Node -> Seq(Message)]
    BY <2>1, <2>5, RememberTyped
  <2> QED
    BY <1>1, <2>1, <2>2, <2>4, <2>6
<1>6. ASSUME NEW n \in Node, Stop(n)
      PROVE  TypeInv'
  <2>1. /\ TypeOK'
        /\ \A m \in Node, s \in Slot : slots'[m][s] = IF m = n THEN FreeSlot ELSE slots[m][s]
    BY <1>6, StopEffect
  <2>2. SlotAccounts'
    BY <2>1, FreeSlotTyped DEF SlotAccounts, Filled
  <2> QED
    BY <2>1, <2>2
<1>7. CASE UNCHANGED vars
  BY <1>7 DEF vars, TypeOK, SlotAccounts, Filled
<1> QED
  BY <1>2, <1>4, <1>5, <1>6, <1>7 DEF Next, ProcessInboundPacket

LEMMA TypeInvariant == Spec => []TypeInv
BY TypeInit, TypeStep, PTL DEF Spec

\* Every variable keeps its type, whatever packets arrive.
THEOREM TypeCorrect == Spec => []TypeOK
<1>1. TypeInv => TypeOK
  BY DEF TypeInv
<1> QED
  BY <1>1, TypeInvariant, PTL

\* A slot in use holds exactly the fragments it counts, is short of at least
\* one, and is within the message limit.
THEOREM SlotsAccounted == Spec => []SlotAccounts
<1>1. TypeInv => SlotAccounts
  BY DEF TypeInv
<1> QED
  BY <1>1, TypeInvariant, PTL

-----------------------------------------------------------------------------
(***************************************************************************)
(* Duplicate suppression.  NoRepeatInWindow is not inductive by itself:    *)
(* that a key missing from the ring is not among the last MaxRecent        *)
(* completed needs RingIsTail, and that completing one message leaves no   *)
(* slot behind for it needs OneSlotPerMessage.                             *)
(***************************************************************************)
KeyInv == OneSlotPerMessage /\ NoSlotForRecent /\ RingIsTail /\ NoRepeatInWindow

LEMMA KeyInit == Init => KeyInv
<1> SUFFICES ASSUME Init PROVE KeyInv
  OBVIOUS
<1>1. \A n \in Node, s \in Slot : ~slots[n][s].used
  BY FreeSlotTyped DEF Init
<1>2. \A n \in Node : completed[n] = <<>> /\ Len(completed[n]) = 0
  BY DEF Init
<1>3. \A n \in Node, p \in Ring : Age(n, p) > 0
  BY ReassemblyAssumption DEF Init, Age, Ring
<1>4. \A n \in Node, p \in Ring : ~(Age(n, p) <= 0) /\ recent[n][p] = NoKey
  BY <1>3, ReassemblyAssumption DEF Init, Age, Ring
<1>5. NoRepeatInWindow
  BY <1>2 DEF NoRepeatInWindow
<1> QED
  BY <1>1, <1>2, <1>4, <1>5 DEF KeyInv, OneSlotPerMessage, NoSlotForRecent, RingIsTail

\* Only CompleteMessage moves the ring; what else keeps the slots' keys apart
\* and off the ring keeps the invariant.
LEMMA KeyInvWithoutCompletion ==
    ASSUME KeyInv, UNCHANGED <<recent, recentCursor, completed>>,
           OneSlotPerMessage', NoSlotForRecent'
    PROVE  KeyInv'
BY DEF KeyInv, RingIsTail, Age, NoRepeatInWindow

LEMMA KeyStepFree ==
    ASSUME TypeInv, KeyInv, NEW n \in Node, NEW s \in Slot,
           slots' = [slots EXCEPT ![n][s] = FreeSlot]
    PROVE  /\ OneSlotPerMessage'
           /\ UNCHANGED recent => NoSlotForRecent'
<1>1. \A m \in Node, t \in Slot :
          slots'[m][t] = IF m = n /\ t = s THEN FreeSlot ELSE slots[m][t]
  BY FreeSlotTyped, SlotWritten DEF TypeInv
<1>2. OneSlotPerMessage'
  BY <1>1, FreeSlotTyped DEF KeyInv, OneSlotPerMessage
<1>3. UNCHANGED recent => NoSlotForRecent'
  BY <1>1, FreeSlotTyped DEF KeyInv, NoSlotForRecent, IsRecent
<1> QED
  BY <1>2, <1>3

LEMMA KeyStepStore ==
    ASSUME TypeInv, KeyInv, NEW n \in Node, NEW h \in Frame, StoreFragment(n, h)
    PROVE  KeyInv'
<1> DEFINE r == SlotWith(n, h)
           s == SlotFor(n, h.key)
<1>1. Stores(n, h) /\ UNCHANGED <<recent, recentCursor, completed>>
      /\ slots' = [slots EXCEPT ![n][s] = r]
  BY DEF StoreFragment
<1>2. r.used /\ r.key = h.key /\ SlotTyped(r)
  BY <1>1, SlotWithFits DEF TypeInv
<1>3. s \in Slot /\ (Holding(n, h.key) # {} => s \in Holding(n, h.key))
  BY SlotForIsSlot DEF TypeInv
<1> HIDE DEF r, s
<1>4. \A m \in Node, t \in Slot :
          slots'[m][t] = IF m = n /\ t = s THEN r ELSE slots[m][t]
  BY <1>1, <1>2, <1>3, SlotWritten DEF TypeInv
\* A slot that already had this key is the one that is written.
<1>5. \A t \in Slot : slots[n][t].used /\ slots[n][t].key = h.key => t = s
  BY <1>3 DEF Holding, KeyInv, OneSlotPerMessage
<1>6. OneSlotPerMessage'
  BY <1>2, <1>4, <1>5 DEF KeyInv, OneSlotPerMessage
<1>7. ~IsRecent(n, h.key)
  BY <1>1 DEF Stores, Takes
<1>8. NoSlotForRecent'
  BY <1>1, <1>2, <1>4, <1>7 DEF KeyInv, NoSlotForRecent, IsRecent
<1> QED
  BY <1>1, <1>6, <1>8, KeyInvWithoutCompletion

\* The ring after a completion: one entry newer, the others one older.
LEMMA KeyStepComplete ==
    ASSUME TypeInv, KeyInv, NEW n \in Node, NEW h \in Frame, CompleteMessage(n, h)
    PROVE  KeyInv'
<1> DEFINE m == MessageOf(SlotWith(n, h))
           s == SlotFor(n, h.key)
           c == recentCursor[n]
           L == Len(completed[n])
<1>1. /\ s \in Slot
      /\ ~IsRecent(n, h.key) /\ h.key \in Key /\ h.key # NoKey
      /\ slots' = [slots EXCEPT ![n][s] = FreeSlot]
      /\ recent' = [recent EXCEPT ![n][c] = h.key]
      /\ recentCursor' = [recentCursor EXCEPT ![n] = (c + 1) % MaxRecent]
      /\ completed' = [completed EXCEPT ![n] = Append(@, m)]
      /\ m \in Message /\ m.key = h.key
  BY CompleteMessageEffect DEF TypeInv
<1>2. c \in Ring /\ c \in Nat /\ c < MaxRecent /\ MaxRecent \in Nat
  BY ReassemblyAssumption DEF TypeInv, TypeOK, Ring
<1>3. (c + 1) % MaxRecent = IF c + 1 = MaxRecent THEN 0 ELSE c + 1
  BY <1>2
<1>4. completed[n] \in Seq(Message) /\ L \in Nat
  BY DEF TypeInv, TypeOK
<1> HIDE DEF m
<1>5. /\ Len(completed'[n]) = L + 1
      /\ \A i \in 1 .. L : completed'[n][i] = completed[n][i]
      /\ completed'[n][L + 1] = m
  <2>1. completed'[n] = Append(completed[n], m)
    BY <1>1 DEF TypeInv, TypeOK
  <2> QED
    BY <2>1, <1>1, <1>4, AppendProperties
<1>6. \A o \in Node : o # n => completed'[o] = completed[o] /\ recent'[o] = recent[o]
                              /\ recentCursor'[o] = recentCursor[o]
  BY <1>1 DEF TypeInv, TypeOK
<1>7. /\ recentCursor'[n] = IF c + 1 = MaxRecent THEN 0 ELSE c + 1
      /\ \A p \in Ring : recent'[n][p] = IF p = c THEN h.key ELSE recent[n][p]
  BY <1>1, <1>2, <1>3 DEF TypeInv, TypeOK
<1>8. OneSlotPerMessage'
  BY <1>1, KeyStepFree
<1>9. NoSlotForRecent'
  <2>1. \A o \in Node, t \in Slot :
            slots'[o][t] = IF o = n /\ t = s THEN FreeSlot ELSE slots[o][t]
    BY <1>1, FreeSlotTyped, SlotWritten DEF TypeInv
  \* The slot of h, if it had one, was s, which is free now.
  <2>2. \A t \in Slot : slots'[n][t].used => slots'[n][t].key # h.key
    <3>1. \A t \in Slot : slots[n][t].used /\ slots[n][t].key = h.key => t = s
      BY SlotForIsSlot DEF TypeInv, Holding, KeyInv, OneSlotPerMessage
    <3> QED
      BY <2>1, <3>1, FreeSlotTyped
  <2>3. ASSUME NEW t \in Slot, slots'[n][t].used, NEW p \in Ring
        PROVE  recent'[n][p] # slots'[n][t].key
    BY <2>1, <2>2, <2>3, <1>7, FreeSlotTyped DEF KeyInv, NoSlotForRecent, IsRecent
  <2>4. ASSUME NEW o \in Node, o # n, NEW t \in Slot, slots'[o][t].used, NEW p \in Ring
        PROVE  recent'[o][p] # slots'[o][t].key
    BY <2>1, <2>4, <1>6 DEF KeyInv, NoSlotForRecent, IsRecent
  <2> QED
    BY <2>3, <2>4 DEF NoSlotForRecent, IsRecent
<1>10. \A p \in Ring : /\ p \in Nat /\ p < MaxRecent
                      /\ Age(n, p) \in 1 .. MaxRecent
                      /\ Age(n, p)' = IF p = c THEN 1 ELSE Age(n, p) + 1
  <2>1. \A p \in Ring : p \in Nat /\ p < MaxRecent
    BY <1>2 DEF Ring
  <2>2. \A p \in Ring : Age(n, p) \in 1 .. MaxRecent
    BY <2>1, <1>2 DEF Age
  <2>3. \A p \in Ring : Age(n, p)' = IF p = c THEN 1 ELSE Age(n, p) + 1
    BY <2>1, <1>2, <1>7 DEF Age
  <2> QED
    BY <2>1, <2>2, <2>3
<1>11. RingIsTail'
  <2>1. ASSUME NEW p \in Ring
        PROVE  recent'[n][p] = IF Age(n, p)' <= L + 1
                               THEN completed'[n][(L + 1) - Age(n, p)' + 1].key ELSE NoKey
    <3>1. CASE p = c
      <4>1. Age(n, p)' = 1 /\ 1 <= L + 1 /\ (L + 1) - 1 + 1 = L + 1
        BY <3>1, <1>4, <1>10
      <4> QED
        BY <4>1, <3>1, <1>1, <1>5, <1>7
    <3>2. CASE p # c
      <4> DEFINE a == Age(n, p)
      <4>1. a \in Nat /\ a >= 1 /\ Age(n, p)' = a + 1
        BY <3>2, <1>2, <1>10
      <4>2. recent[n][p] = IF a <= L THEN completed[n][L - a + 1].key ELSE NoKey
        BY DEF KeyInv, RingIsTail
      <4> HIDE DEF a
      <4>3. /\ a + 1 <= L + 1 <=> a <= L
            /\ (L + 1) - (a + 1) + 1 = L - a + 1
            /\ a <= L => L - a + 1 \in 1 .. L
        BY <4>1, <1>4
      <4>4. recent'[n][p] = recent[n][p]
        BY <3>2, <1>7
      <4>5. a <= L => completed'[n][L - a + 1] = completed[n][L - a + 1]
        BY <4>3, <1>5
      <4>6. recent'[n][p] = IF a + 1 <= L + 1
                            THEN completed'[n][(L + 1) - (a + 1) + 1].key ELSE NoKey
        BY <4>2, <4>3, <4>4, <4>5
      <4> QED
        BY <4>1, <4>6
    <3> QED
      BY <3>1, <3>2
  <2>2. ASSUME NEW o \in Node, o # n, NEW p \in Ring
        PROVE  /\ recent'[o][p] = recent[o][p] /\ completed'[o] = completed[o]
               /\ Age(o, p)' = Age(o, p)
    BY <2>2, <1>6 DEF Age
  <2>3. ASSUME NEW o \in Node, NEW p \in Ring
        PROVE  recent'[o][p] = IF Age(o, p)' <= Len(completed'[o])
                               THEN completed'[o][Len(completed'[o]) - Age(o, p)' + 1].key
                               ELSE NoKey
    <3>1. CASE o = n
      BY <3>1, <2>1, <1>5
    <3>2. CASE o # n
      <4>1. recent[o][p] = IF Age(o, p) <= Len(completed[o])
                           THEN completed[o][Len(completed[o]) - Age(o, p) + 1].key
                           ELSE NoKey
        BY DEF KeyInv, RingIsTail
      <4> QED
        BY <3>2, <4>1, <2>2
    <3> QED
      BY <3>1, <3>2
  <2> QED
    BY <2>3 DEF RingIsTail
\* A key among the last MaxRecent completed is on the ring.
<1>12. ASSUME NEW i \in 1 .. L, completed[n][i].key = h.key
       PROVE  (L + 1) - i > MaxRecent
  <2> SUFFICES ASSUME ~((L + 1) - i > MaxRecent) PROVE FALSE
    OBVIOUS
  <2> DEFINE a == (L + 1) - i
             p == IF a <= c THEN c - a ELSE c + MaxRecent - a
  <2>1. a \in Nat /\ a >= 1 /\ a <= MaxRecent /\ a <= L /\ L - a + 1 = i
    BY <1>2, <1>4
  <2> HIDE DEF a
  <2>2. p \in Ring /\ Age(n, p) = a
    BY <2>1, <1>2 DEF Age, Ring
  <2>3. recent[n][p] = completed[n][i].key
    BY <2>1, <2>2 DEF KeyInv, RingIsTail
  <2> QED
    BY <2>2, <2>3, <1>1, <1>12 DEF IsRecent
<1>13. NoRepeatInWindow'
  <2>1. DOMAIN completed'[n] = 1 .. L + 1 /\ DOMAIN completed[n] = 1 .. L
    <3>1. completed'[n] \in Seq(Message)
      BY <1>1, <1>4, AppendProperties DEF TypeInv, TypeOK
    <3> QED
      BY <3>1, <1>4, <1>5, LenProperties
  <2>2. ASSUME NEW i \in 1 .. L + 1, NEW j \in 1 .. L + 1, i < j,
               completed'[n][i].key = completed'[n][j].key
        PROVE  j - i > MaxRecent
    <3>1. i \in 1 .. L
      BY <2>2, <1>4
    <3>2. CASE j = L + 1
      BY <2>2, <3>1, <3>2, <1>1, <1>5, <1>12
    <3>3. CASE j # L + 1
      <4>1. j \in 1 .. L
        BY <3>3, <1>4
      <4> QED
        BY <2>1, <2>2, <3>1, <4>1, <1>5 DEF KeyInv, NoRepeatInWindow
    <3> QED
      BY <3>2, <3>3
  <2>3. ASSUME NEW o \in Node, NEW i \in DOMAIN completed'[o], NEW j \in DOMAIN completed'[o],
               i < j, completed'[o][i].key = completed'[o][j].key
        PROVE  j - i > MaxRecent
    <3>1. CASE o = n
      BY <2>1, <2>2, <2>3, <3>1
    <3>2. CASE o # n
      BY <2>3, <3>2, <1>6 DEF KeyInv, NoRepeatInWindow
    <3> QED
      BY <3>1, <3>2
  <2> QED
    BY <2>3 DEF NoRepeatInWindow
<1> QED
  BY <1>8, <1>9, <1>11, <1>13 DEF KeyInv

LEMMA KeyStep == TypeInv /\ KeyInv /\ [Next]_vars => KeyInv'
<1> SUFFICES ASSUME TypeInv, KeyInv, [Next]_vars PROVE KeyInv'
  OBVIOUS
<1>1. ASSUME NEW n \in Node, NEW h \in Frame, RejectOversized(n, h) \/ ResetMismatched(n, h)
      PROVE  KeyInv'
  <2>1. /\ slots' = [slots EXCEPT ![n][SlotFor(n, h.key)] = FreeSlot]
        /\ UNCHANGED <<recent, recentCursor, completed>>
        /\ SlotFor(n, h.key) \in Slot
    BY <1>1, SlotForIsSlot DEF RejectOversized, ResetMismatched, TypeInv
  <2> QED
    BY <2>1, KeyStepFree, KeyInvWithoutCompletion
<1>2. ASSUME NEW n \in Node, Stop(n)
      PROVE  KeyInv'
  <2>1. \A m \in Node, s \in Slot : slots'[m][s] = IF m = n THEN FreeSlot ELSE slots[m][s]
    BY <1>2 DEF Stop, TypeInv, TypeOK
  <2>2. OneSlotPerMessage' /\ NoSlotForRecent'
    BY <1>2, <2>1, FreeSlotTyped DEF Stop, KeyInv, OneSlotPerMessage, NoSlotForRecent, IsRecent
  <2> QED
    BY <1>2, <2>2, KeyInvWithoutCompletion DEF Stop
<1>3. CASE UNCHANGED vars
  BY <1>3 DEF vars, KeyInv, OneSlotPerMessage, NoSlotForRecent, IsRecent, RingIsTail, Age,
              NoRepeatInWindow
<1> QED
  BY <1>1, <1>2, <1>3, KeyStepStore, KeyStepComplete DEF Next, ProcessInboundPacket

\* However packets are lost, repeated and reordered, and whenever Stop drops
\* the slots, a node passes a message on again only after MaxRecent others.
THEOREM DuplicatesSuppressed == Spec => []NoRepeatInWindow
<1>1. TypeInv /\ KeyInv /\ [Next]_vars => (TypeInv /\ KeyInv)'
  BY TypeStep, KeyStep
<1>2. KeyInv => NoRepeatInWindow
  BY DEF KeyInv
<1> QED
  BY <1>1, <1>2, TypeInit, KeyInit, PTL DEF Spec

-----------------------------------------------------------------------------
(***************************************************************************)
(* What is passed on is whole, of whatever set F the packets come from in  *)
(* which a key is of one content.  It needs of the slots that they hold    *)
(* only fragments of their own message.                                    *)
(***************************************************************************)
OneContentIn(F) ==
    \A f, g \in F : f.key = g.key =>
        /\ f.data = g.data
        /\ f.cnt = g.cnt /\ f.chunk = g.chunk /\ f.idx = g.idx => f.bytes = g.bytes

PureIn(slot, F) == \A i \in Filled(slot) : \E f \in F : From(slot, i, f)

\* What MessagesAreWhole says of one completed message.
WholeIn(m, F) ==
    \E f \in F : /\ DecodeHeader(f)
                 /\ f.key = m.key
                 /\ f.idx = f.cnt - 1
                 /\ m.data = {f.data}
                 /\ m.total = CompletedBytes(f.cnt, f.chunk, f.bytes)

SlotsPureIn(F)      == \A n \in Node, s \in Slot : slots[n][s].used => PureIn(slots[n][s], F)
CompletedWholeIn(F) == \A n \in Node : \A i \in DOMAIN completed[n] : WholeIn(completed[n][i], F)

\* A slot keeps to its own fragments when one of them is stored, again or not.
LEMMA StoreInPure ==
    ASSUME NEW F \in SUBSET Frame, OneContentIn(F), NEW b, NEW h \in F, NEW touch,
           SlotTyped(b), PureIn(b, F), b.key = h.key, b.cnt = h.cnt, b.chunk = h.chunk,
           DecodeHeader(h)
    PROVE  PureIn(StoreIn(b, h, touch), F)
<1> DEFINE r == StoreIn(b, h, touch)
           new == b.parts[h.idx] = NoData
           parts == IF new THEN [b.parts EXCEPT ![h.idx] = h.data] ELSE b.parts
           last == IF h.idx = h.cnt - 1 THEN h.bytes ELSE b.last
<1>2. /\ r.key = h.key /\ r.cnt = h.cnt /\ r.chunk = h.chunk
      /\ r.parts = parts /\ r.last = last
  <2>1. r = [b EXCEPT !.touch = touch, !.parts = parts,
                      !.received = IF new THEN @ + 1 ELSE @, !.last = last]
    BY DEF StoreIn
  <2> QED
    BY <2>1 DEF SlotTyped, SlotRecord
<1>4. h.idx \in 0 .. h.cnt - 1
  BY FrameTyped DEF DecodeHeader
<1>5. b.parts \in [0 .. h.cnt - 1 -> Data \union {NoData}]
  BY DEF SlotTyped, SlotRecord
<1>6. ASSUME NEW i \in Filled(r), i # h.idx PROVE \E f \in F : From(r, i, f)
  <2>1. i \in Filled(b) /\ r.parts[i] = b.parts[i]
    BY <1>2, <1>4, <1>5, <1>6 DEF Filled
  <2>2. PICK f \in F : From(b, i, f)
    BY <2>1 DEF PureIn
  <2>3. f.idx = f.cnt - 1 => last = b.last
    BY <2>2, <1>6 DEF From
  <2> HIDE DEF parts, last
  <2>4. From(r, i, f)
    BY <2>1, <2>2, <2>3, <1>2 DEF From
  <2> QED
    BY <2>4
<1>7. h.idx \in Filled(r) => \E f \in F : From(r, h.idx, f)
  <2>1. CASE new
    <3>1. r.parts[h.idx] = h.data /\ (h.idx = h.cnt - 1 => r.last = h.bytes)
      BY <2>1, <1>2, <1>4, <1>5
    <3>2. From(r, h.idx, h)
      BY <3>1, <1>2, <1>4 DEF From
    <3> QED
      BY <3>2
  <2>2. CASE ~new
    \* A repetition: h is as long as the fragment that came first.
    <3>1. h.idx \in Filled(b) /\ r.parts[h.idx] = b.parts[h.idx]
      BY <2>2, <1>2, <1>4 DEF Filled
    <3>2. PICK f \in F : From(b, h.idx, f)
      BY <3>1 DEF PureIn
    <3>3. f.bytes = h.bytes
      BY <3>2 DEF From, OneContentIn
    <3>4. f.idx = f.cnt - 1 => last = f.bytes
      BY <3>2, <3>3 DEF From
    <3> HIDE DEF parts, last
    <3>5. From(r, h.idx, f)
      BY <3>1, <3>2, <3>4, <1>2 DEF From
    <3> QED
      BY <3>5
  <2> QED
    BY <2>1, <2>2
<1> QED
  BY <1>6, <1>7 DEF PureIn

LEMMA SlotWithPure ==
    ASSUME NEW F \in SUBSET Frame, OneContentIn(F), TypeInv, SlotsPureIn(F),
           NEW n \in Node, NEW h \in F, Stores(n, h)
    PROVE  PureIn(SlotWith(n, h), F)
<1> DEFINE b == Base(n, h)
<1>1. /\ b.used /\ b.key = h.key /\ b.cnt = h.cnt /\ b.chunk = h.chunk /\ SlotTyped(b)
  BY BaseFits DEF TypeInv
<1>2. SlotWith(n, h) = StoreIn(b, h, TouchOf(n, h))
  BY DEF SlotWith, Base
<1>3. PureIn(b, F)
  <2>1. CASE Holding(n, h.key) = {}
    <3>1. b.cnt = h.cnt /\ b.parts = [i \in 0 .. h.cnt - 1 |-> NoData]
      BY <2>1 DEF Base, OpenSlot
    <3>2. Filled(b) = {}
      BY <3>1 DEF Filled
    <3> QED
      BY <3>2 DEF PureIn
  <2>2. CASE Holding(n, h.key) # {}
    <3>1. b = slots[n][SlotFor(n, h.key)] /\ SlotFor(n, h.key) \in Slot
      BY <2>2, SlotForIsSlot DEF Base, TypeInv
    <3> QED
      BY <3>1, <1>1 DEF SlotsPureIn
  <2> QED
    BY <2>1, <2>2
<1>4. DecodeHeader(h)
  BY DEF Stores, Takes
<1> HIDE DEF b
<1> QED
  BY <1>1, <1>2, <1>3, <1>4, StoreInPure

\* A slot of its own fragments that has them all makes a whole message.
LEMMA SlotIsWhole ==
    ASSUME NEW F \in SUBSET Frame, OneContentIn(F), NEW r, SlotTyped(r), PureIn(r, F), r.cnt # 0,
           r.received = Cardinality(Filled(r)), r.received = r.cnt
    PROVE  WholeIn(MessageOf(r), F)
<1>2. r.cnt \in Nat
  BY FramingAssumption DEF SlotTyped, SlotRecord
<1>4. DOMAIN r.parts = 0 .. r.cnt - 1 /\ r.cnt - 1 \in 0 .. r.cnt - 1
  BY <1>2 DEF SlotTyped
<1>5. Filled(r) = 0 .. r.cnt - 1
  BY <1>2, FilledBounded
<1>6. PICK f \in F : From(r, r.cnt - 1, f)
  BY <1>4, <1>5 DEF PureIn
<1>7. \A i \in 0 .. r.cnt - 1 : r.parts[i] = f.data
  <2>1. ASSUME NEW i \in 0 .. r.cnt - 1 PROVE r.parts[i] = f.data
    <3>1. PICK g \in F : From(r, i, g)
      BY <1>5 DEF PureIn
    <3> QED
      BY <3>1, <1>6 DEF From, OneContentIn
  <2> QED
    BY <2>1
<1>8. {r.parts[i] : i \in DOMAIN r.parts} = {f.data}
  BY <1>4, <1>7
<1>9. /\ DecodeHeader(f) /\ f.key = r.key /\ f.idx = f.cnt - 1
      /\ r.cnt = f.cnt /\ r.chunk = f.chunk /\ r.last = f.bytes
  BY <1>6 DEF From
<1>10. /\ MessageOf(r).key = r.key
       /\ MessageOf(r).data = {f.data}
       /\ MessageOf(r).total = CompletedBytes(f.cnt, f.chunk, f.bytes)
  BY <1>8, <1>9 DEF MessageOf
<1> QED
  BY <1>9, <1>10 DEF WholeIn

LEMMA CompletedIsWhole ==
    ASSUME NEW F \in SUBSET Frame, OneContentIn(F), TypeInv, SlotsPureIn(F),
           NEW n \in Node, NEW h \in F, CompleteMessage(n, h)
    PROVE  WholeIn(MessageOf(SlotWith(n, h)), F)
<1>1. Stores(n, h) /\ SlotWith(n, h).received = SlotWith(n, h).cnt
  BY DEF CompleteMessage
<1>2. SlotWith(n, h).cnt # 0
  BY <1>1, SlotWithFits DEF TypeInv, Stores, Takes, DecodeHeader
<1> QED
  BY <1>1, <1>2, SlotWithFits, SlotWithPure, SlotIsWhole DEF TypeInv

\* Writing a slot that holds its own fragments, or none, keeps the others'.
LEMMA OwnKept ==
    ASSUME NEW F, TypeInv, SlotsPureIn(F), NEW n \in Node, NEW s \in Slot, NEW new,
           SlotTyped(new), new.used => PureIn(new, F),
           slots' = [slots EXCEPT ![n][s] = new]
    PROVE  SlotsPureIn(F)'
<1>1. \A m \in Node, q \in Slot :
          slots'[m][q] = IF m = n /\ q = s THEN new ELSE slots[m][q]
  BY SlotWritten DEF TypeInv
<1>2. \A m \in Node, q \in Slot : slots[m][q].used => PureIn(slots[m][q], F)
  BY DEF SlotsPureIn
<1>3. \A m \in Node, q \in Slot : slots'[m][q].used => PureIn(slots'[m][q], F)
  BY <1>1, <1>2
<1> QED
  BY <1>3 DEF SlotsPureIn, PureIn, From, Filled

LEMMA WholeStep ==
    ASSUME NEW F \in SUBSET Frame, OneContentIn(F), TypeInv, SlotsPureIn(F), CompletedWholeIn(F),
           NEW n \in Node, NEW h \in F, ProcessInboundPacket(n, h)
    PROVE  SlotsPureIn(F)' /\ CompletedWholeIn(F)'
<1>1. CASE RejectOversized(n, h) \/ ResetMismatched(n, h)
  <2>1. /\ slots' = [slots EXCEPT ![n][SlotFor(n, h.key)] = FreeSlot]
        /\ UNCHANGED completed
        /\ SlotFor(n, h.key) \in Slot
    BY <1>1, SlotForIsSlot DEF RejectOversized, ResetMismatched, TypeInv
  <2>2. SlotsPureIn(F)'
    BY <2>1, OwnKept, FreeSlotTyped
  <2> QED
    BY <2>1, <2>2 DEF CompletedWholeIn
<1>2. CASE StoreFragment(n, h)
  <2>1. /\ slots' = [slots EXCEPT ![n][SlotFor(n, h.key)] = SlotWith(n, h)]
        /\ UNCHANGED completed
        /\ SlotFor(n, h.key) \in Slot
        /\ Stores(n, h)
    BY <1>2, SlotForIsSlot DEF StoreFragment, TypeInv
  <2>2. SlotTyped(SlotWith(n, h)) /\ PureIn(SlotWith(n, h), F)
    BY <2>1, SlotWithFits, SlotWithPure DEF TypeInv
  <2>3. SlotsPureIn(F)'
    BY <2>1, <2>2, OwnKept
  <2> QED
    BY <2>1, <2>3 DEF CompletedWholeIn
<1>3. CASE CompleteMessage(n, h)
  <2> DEFINE m == MessageOf(SlotWith(n, h))
  <2>1. /\ slots' = [slots EXCEPT ![n][SlotFor(n, h.key)] = FreeSlot]
        /\ completed' = [completed EXCEPT ![n] = Append(@, m)]
        /\ SlotFor(n, h.key) \in Slot
        /\ m \in Message
    BY <1>3, CompleteMessageEffect DEF TypeInv
  <2>2. WholeIn(m, F)
    BY <1>3, CompletedIsWhole
  <2> HIDE DEF m
  <2>3. SlotsPureIn(F)'
    BY <2>1, OwnKept, FreeSlotTyped
  <2>4. completed[n] \in Seq(Message)
    BY DEF TypeInv, TypeOK
  <2>5. completed'[n] = Append(completed[n], m) /\ (\A o \in Node \ {n} : completed'[o] = completed[o])
    BY <2>1 DEF TypeInv, TypeOK
  <2>6. \A i \in DOMAIN completed'[n] :
            completed'[n][i] = m \/ (i \in DOMAIN completed[n] /\ completed'[n][i] = completed[n][i])
    BY <2>1, <2>4, <2>5, AppendProperties, LenProperties
  <2>7. \A o \in Node : \A i \in DOMAIN completed'[o] : WholeIn(completed'[o][i], F)
    BY <2>2, <2>5, <2>6 DEF CompletedWholeIn
  <2> QED
    BY <2>3, <2>7 DEF CompletedWholeIn, WholeIn
<1> QED
  BY <1>1, <1>2, <1>3 DEF ProcessInboundPacket

LEMMA WholeAtStop ==
    ASSUME NEW F, TypeInv, SlotsPureIn(F), CompletedWholeIn(F), NEW n \in Node, Stop(n)
    PROVE  SlotsPureIn(F)' /\ CompletedWholeIn(F)'
<1>1. \A m \in Node, s \in Slot : slots'[m][s] = IF m = n THEN FreeSlot ELSE slots[m][s]
  BY DEF Stop, TypeInv, TypeOK
<1>2. SlotsPureIn(F)'
  BY <1>1, FreeSlotTyped DEF SlotsPureIn, PureIn, From, Filled
<1> QED
  BY <1>2 DEF Stop, CompletedWholeIn

WholeInv == SlotsHoldTheirOwn /\ MessagesAreWhole

LEMMA WholeInvIs == WholeInv <=> SlotsPureIn(Frame) /\ CompletedWholeIn(Frame)
BY DEF WholeInv, SlotsHoldTheirOwn, MessagesAreWhole, SlotsPureIn, CompletedWholeIn, SlotPure, PureIn, WholeIn

LEMMA WholeInit ==
    ASSUME NEW F
    PROVE  Init => SlotsPureIn(F) /\ CompletedWholeIn(F)
<1> SUFFICES ASSUME Init PROVE SlotsPureIn(F) /\ CompletedWholeIn(F)
  OBVIOUS
<1>1. \A n \in Node, s \in Slot : ~slots[n][s].used
  BY FreeSlotTyped DEF Init
<1>2. \A n \in Node : DOMAIN completed[n] = {}
  BY DEF Init
<1> QED
  BY <1>1, <1>2 DEF SlotsPureIn, CompletedWholeIn

LEMMA WholeNext ==
    ASSUME OneContentPerKey
    PROVE  TypeInv /\ WholeInv /\ [Next]_vars => WholeInv'
<1> SUFFICES ASSUME TypeInv, WholeInv, [Next]_vars PROVE WholeInv'
  OBVIOUS
<1>1. OneContentIn(Frame) /\ SlotsPureIn(Frame) /\ CompletedWholeIn(Frame)
  BY WholeInvIs DEF OneContentIn, OneContentPerKey
<1>2. CASE UNCHANGED vars
  BY <1>2 DEF vars, WholeInv, SlotsHoldTheirOwn, SlotPure, From, Filled, MessagesAreWhole
<1>3. CASE Next
  <2>1. SlotsPureIn(Frame)' /\ CompletedWholeIn(Frame)'
    BY <1>1, <1>3, WholeStep, WholeAtStop DEF Next
  <2> QED
    BY <2>1 DEF WholeInv, SlotsHoldTheirOwn, MessagesAreWhole, SlotsPureIn, CompletedWholeIn,
                SlotPure, PureIn, WholeIn, From, Filled
<1> QED
  BY <1>2, <1>3

\* If no two messages share an identity, every message a node passes on is
\* made of that message's own fragments, all of them, and has its size -
\* although paths of different MTU cut it differently.
THEOREM MessagesWhole ==
    ASSUME OneContentPerKey
    PROVE  Spec => []MessagesAreWhole
<1>1. Init => TypeInv /\ WholeInv
  BY TypeInit, WholeInit, WholeInvIs
<1>2. TypeInv /\ WholeInv /\ [Next]_vars => (TypeInv /\ WholeInv)'
  BY TypeStep, WholeNext
<1>3. TypeInv /\ WholeInv => MessagesAreWhole
  BY DEF WholeInv
<1> QED
  BY <1>1, <1>2, <1>3, PTL DEF Spec

\* Under the same assumption the tables agree: at most one slot for a message,
\* none while the ring names it, the ring the tail of what was completed, and
\* in every slot fragments of its own message only.
THEOREM TablesConsistent ==
    ASSUME OneContentPerKey
    PROVE  Spec => []TablesAgree
<1>1. Init => TypeInv /\ KeyInv /\ WholeInv
  BY TypeInit, KeyInit, WholeInit, WholeInvIs
<1>2. TypeInv /\ KeyInv /\ WholeInv /\ [Next]_vars => (TypeInv /\ KeyInv /\ WholeInv)'
  BY TypeStep, KeyStep, WholeNext
<1>3. KeyInv /\ WholeInv => TablesAgree
  BY DEF KeyInv, WholeInv, TablesAgree
<1> QED
  BY <1>1, <1>2, <1>3, PTL DEF Spec

-----------------------------------------------------------------------------
(***************************************************************************)
(* Eviction.  While the touch counter has not wrapped, touches tell the    *)
(* order in which the messages in slots last had a fragment, so that the   *)
(* slot given up is the one that has waited longest.                       *)
(***************************************************************************)
HistoryTyped ==
    /\ DOMAIN others = Node /\ wrapped \in [Node -> BOOLEAN]
    /\ \A n \in Node : \A k \in DOMAIN others[n] : IsFiniteSet(others[n][k])

\* Slots have been touched at different times, and since a message's last
\* fragment have come those of every message touched after it.
Orderly(n) ==
    \A s, t \in Slot : slots[n][s].used /\ slots[n][t].used =>
        /\ slots[n][s].touch <= touchCounter[n]
        /\ s # t => slots[n][s].touch # slots[n][t].touch
        /\ slots[n][s].touch > slots[n][t].touch /\ slots[n][t].key \in DOMAIN others[n] =>
              slots[n][s].key \in others[n][slots[n][t].key]

KeptAt(n) == \A k \in DOMAIN others[n] : UnderLittlePressure(n, k) => Holding(n, k) # {}

EvictionInv ==
    /\ HistoryTyped
    /\ \A n \in Node : IF wrapped[n] THEN others[n] = NoneBegun ELSE Orderly(n) /\ KeptAt(n)

\* A counter that has not wrapped has grown.
LEMMA TouchGrows ==
    ASSUME TouchModulus > 2, NEW c \in 0 .. TouchModulus - 1
    PROVE  /\ NextTouch(c) >= c => NextTouch(c) > c
           /\ NextTouch(NextTouch(c)) >= c => NextTouch(NextTouch(c)) > c
<1>1. \A e \in 0 .. TouchModulus - 1 : NextTouch(e) = IF e = TouchModulus - 1 THEN 0 ELSE e + 1
  <2> SUFFICES ASSUME NEW e \in 0 .. TouchModulus - 1
               PROVE  NextTouch(e) = IF e = TouchModulus - 1 THEN 0 ELSE e + 1
    OBVIOUS
  <2>1. CASE e = TouchModulus - 1
    BY <2>1, ReassemblyAssumption DEF NextTouch
  <2>2. CASE e # TouchModulus - 1
    BY <2>2, ReassemblyAssumption DEF NextTouch
  <2> QED
    BY <2>1, <2>2
<1>2. NextTouch(c) \in 0 .. TouchModulus - 1
  BY NextTouchTyped
<1> QED
  BY <1>1, <1>2, ReassemblyAssumption

\* What a fragment does to the slots and the counter of its node.
LEMMA FragmentEffect ==
    ASSUME TypeInv, NEW n \in Node, NEW h \in Frame, ProcessInboundPacket(n, h)
    PROVE  /\ touchCounter' = touchCounter
              \/ touchCounter' = [touchCounter EXCEPT ![n] = TouchOf(n, h)]
           /\ \E new : /\ slots' = [slots EXCEPT ![n][SlotFor(n, h.key)] = new] /\ SlotTyped(new)
                       /\ \/ ~new.used /\ ~StoreFragment(n, h)
                          \/ /\ new.used /\ new.key = h.key /\ new.touch = TouchOf(n, h)
                             /\ touchCounter' = [touchCounter EXCEPT ![n] = TouchOf(n, h)]
<1> DEFINE s == SlotFor(n, h.key)
           r == SlotWith(n, h)
<1>1. CASE StoreFragment(n, h)
  <2>1. /\ r.used /\ r.key = h.key /\ SlotTyped(r)
    BY <1>1, SlotWithFits DEF StoreFragment, TypeInv
  <2>2. r.touch = TouchOf(n, h)
    <3>1. Base(n, h) \in SlotRecord
      BY <1>1, BaseFits DEF StoreFragment, TypeInv, SlotTyped
    <3>2. r = StoreIn(Base(n, h), h, TouchOf(n, h))
      BY DEF SlotWith, Base
    <3> QED
      BY <3>1, <3>2 DEF StoreIn, SlotRecord
  <2> QED
    BY <1>1, <2>1, <2>2 DEF StoreFragment
<1>2. CASE ~StoreFragment(n, h)
  <2>1. slots' = [slots EXCEPT ![n][s] = FreeSlot]
    BY <1>2 DEF ProcessInboundPacket, RejectOversized, ResetMismatched, CompleteMessage
  <2>2. touchCounter' = touchCounter \/ touchCounter' = [touchCounter EXCEPT ![n] = TouchOf(n, h)]
    BY <1>2 DEF ProcessInboundPacket, RejectOversized, ResetMismatched, CompleteMessage
  <2> QED
    BY <1>2, <2>1, <2>2, FreeSlotTyped
<1> QED
  BY <1>1, <1>2

\* The slot that is given up: as many other messages have had a fragment since
\* its message's last one as there are slots.
LEMMA GivenUpUnderPressure ==
    ASSUME TypeInv, KeyInv, NEW n \in Node, Orderly(n), NEW k, NEW j,
           Holding(n, k) = {}, FreeSlots(n) = {},
           slots[n][Oldest(n)].key = j, j \in DOMAIN others[n],
           NEW S, IsFiniteSet(S), S = others[n][j] \union {k}
    PROVE  Cardinality(S) >= MaxReassemblies
<1> DEFINE x == Oldest(n)
           f == [u \in Slot |-> IF u = x THEN k ELSE slots[n][u].key]
<1>1. x \in Slot /\ \A u \in Slot : slots[n][x].touch <= slots[n][u].touch
  BY OldestIsLeast DEF TypeInv
<1>2. \A u \in Slot : slots[n][u].used /\ slots[n][u].key # k
  BY DEF FreeSlots, Holding
<1>3. \A u, v \in Slot : slots[n][u].key = slots[n][v].key => u = v
  BY <1>2 DEF KeyInv, OneSlotPerMessage
<1>4. ASSUME NEW u \in Slot, u # x PROVE slots[n][u].key \in others[n][j]
  <2>1. slots[n][u].touch \in Int /\ slots[n][x].touch \in Int
    BY <1>1 DEF TypeInv, TypeOK, SlotRecord
  <2>2. slots[n][u].touch # slots[n][x].touch
    BY <1>1, <1>2, <1>4 DEF Orderly
  <2>3. slots[n][u].touch > slots[n][x].touch
    BY <1>1, <2>1, <2>2
  <2> QED
    BY <1>1, <1>2, <2>3 DEF Orderly
<1>5. f \in [Slot -> S]
  BY <1>4
<1>6. \A u, v \in DOMAIN f : f[u] = f[v] => u = v
  BY <1>2, <1>3
<1> HIDE DEF f
<1>7. f \in Injection(Slot, S)
  BY <1>5, <1>6 DEF Injection, IsInjective
<1>8. Cardinality(Slot) <= Cardinality(S)
  BY <1>7, FS_Injection
<1>9. Cardinality(Slot) = MaxReassemblies
  <2>1. Cardinality(0 .. MaxReassemblies - 1) = MaxReassemblies - 1 - 0 + 1
    BY FS_Interval, ReassemblyAssumption
  <2> QED
    BY <2>1, ReassemblyAssumption DEF Slot
<1>10. Cardinality(S) \in Nat
  BY FS_CardinalityType
<1> QED
  BY <1>8, <1>9, <1>10, ReassemblyAssumption

\* The history after a fragment.
LEMMA FollowEffect ==
    ASSUME HistoryTyped, NEW n \in Node, NEW k, NEW begun, Follow(n, k, begun),
           begun \subseteq DOMAIN others[n] \union {k}
    PROVE  /\ HistoryTyped'
           /\ \A m \in Node : m # n => others'[m] = others[m] /\ wrapped'[m] = wrapped[m]
           /\ wrapped'[n] = Wraps(n)
           /\ Wraps(n) => others'[n] = NoneBegun
           /\ ~Wraps(n) => /\ DOMAIN others'[n] = begun
                           /\ \A j \in begun : others'[n][j] = IF j = k THEN {} ELSE others[n][j] \union {k}
<1> DEFINE new == [j \in begun |-> IF j = k THEN {} ELSE others[n][j] \union {k}]
<1>1. Wraps(n) \in BOOLEAN
  BY DEF Wraps, HistoryTyped
<1>2. /\ \A m \in Node : m # n => others'[m] = others[m] /\ wrapped'[m] = wrapped[m]
      /\ wrapped'[n] = Wraps(n) /\ DOMAIN others' = Node /\ wrapped' \in [Node -> BOOLEAN]
      /\ others'[n] = IF Wraps(n) THEN NoneBegun ELSE new
  BY <1>1 DEF Follow, HistoryTyped
<1>3. \A j \in begun : IsFiniteSet(new[j])
  <2> SUFFICES ASSUME NEW j \in begun PROVE IsFiniteSet(new[j])
    OBVIOUS
  <2>1. CASE j = k
    BY <2>1, FS_EmptySet
  <2>2. CASE j # k
    <3>1. IsFiniteSet(others[n][j])
      BY <2>2 DEF HistoryTyped
    <3> QED
      BY <2>2, <3>1, FS_AddElement
  <2> QED
    BY <2>1, <2>2
<1>4. \A m \in Node : \A j \in DOMAIN others'[m] : IsFiniteSet(others'[m][j])
  <2> SUFFICES ASSUME NEW m \in Node, NEW j \in DOMAIN others'[m] PROVE IsFiniteSet(others'[m][j])
    OBVIOUS
  <2>1. CASE m # n
    BY <1>2, <2>1 DEF HistoryTyped
  <2>2. CASE m = n /\ Wraps(n)
    BY <1>2, <2>2 DEF NoneBegun
  <2>3. CASE m = n /\ ~Wraps(n)
    BY <1>2, <1>3, <2>3
  <2> QED
    BY <2>1, <2>2, <2>3
<1>5. HistoryTyped'
  BY <1>2, <1>4 DEF HistoryTyped
<1> QED
  BY <1>2, <1>5

LEMMA EvictionPacket ==
    ASSUME TouchModulus > 2, TypeInv, KeyInv, EvictionInv, NEW n \in Node, NEW h \in Frame,
           ProcessInboundPacket(n, h), OneSlotPerMessage', NEW begun, Follow(n, h.key, begun),
           begun \subseteq DOMAIN others[n] \union {h.key}, ~StoreFragment(n, h) => h.key \notin begun
    PROVE  EvictionInv'
<1> DEFINE k == h.key
           x == SlotFor(n, k)
<1>1. HistoryTyped /\ TypeOK /\ x \in Slot /\ (Holding(n, k) # {} => x \in Holding(n, k))
  BY SlotForIsSlot DEF EvictionInv, TypeInv
<1>2. /\ HistoryTyped'
      /\ \A m \in Node : m # n => others'[m] = others[m] /\ wrapped'[m] = wrapped[m]
      /\ wrapped'[n] = Wraps(n)
      /\ Wraps(n) => others'[n] = NoneBegun
      /\ ~Wraps(n) => /\ DOMAIN others'[n] = begun
                      /\ \A j \in begun : others'[n][j] = IF j = k THEN {} ELSE others[n][j] \union {k}
  BY <1>1, FollowEffect
<1>3. PICK new : /\ slots' = [slots EXCEPT ![n][x] = new] /\ SlotTyped(new)
                 /\ \/ ~new.used /\ ~StoreFragment(n, h)
                    \/ /\ new.used /\ new.key = k /\ new.touch = TouchOf(n, h)
                       /\ touchCounter' = [touchCounter EXCEPT ![n] = TouchOf(n, h)]
  BY FragmentEffect
<1>4. touchCounter' = touchCounter \/ touchCounter' = [touchCounter EXCEPT ![n] = TouchOf(n, h)]
  BY FragmentEffect
<1> HIDE DEF x
<1>5. \A m \in Node, t \in Slot : slots'[m][t] = IF m = n /\ t = x THEN new ELSE slots[m][t]
  BY <1>1, <1>3, SlotWritten
<1>6. /\ \A m \in Node : m # n => touchCounter'[m] = touchCounter[m]
      /\ touchCounter'[n] = touchCounter[n] \/ touchCounter'[n] = TouchOf(n, h)
      /\ new.used => touchCounter'[n] = TouchOf(n, h) /\ new.key = k /\ new.touch = touchCounter'[n]
  BY <1>1, <1>3, <1>4 DEF TypeOK
<1>7. ASSUME NEW m \in Node, m # n
      PROVE  IF wrapped'[m] THEN others'[m] = NoneBegun ELSE Orderly(m)' /\ KeptAt(m)'
  BY <1>2, <1>5, <1>6, <1>7 DEF EvictionInv, Orderly, KeptAt, Holding, UnderLittlePressure
<1>8. CASE Wraps(n)
  BY <1>2, <1>7, <1>8 DEF EvictionInv
<1>9. CASE ~Wraps(n)
  <2>1. ~wrapped[n] /\ ~wrapped'[n] /\ Orderly(n) /\ KeptAt(n) /\ ~(touchCounter'[n] < touchCounter[n])
    BY <1>2, <1>9 DEF Wraps, EvictionInv
  <2>2. /\ touchCounter[n] \in 0 .. TouchModulus - 1 /\ touchCounter'[n] \in 0 .. TouchModulus - 1
        /\ touchCounter'[n] = TouchOf(n, h) => touchCounter'[n] > touchCounter[n]
    <3>1. touchCounter[n] \in 0 .. TouchModulus - 1
      BY <1>1 DEF TypeOK
    <3>2. TouchOf(n, h) \in 0 .. TouchModulus - 1
      BY <3>1, NextTouchTyped DEF TouchOf
    <3>3. TouchOf(n, h) >= touchCounter[n] => TouchOf(n, h) > touchCounter[n]
      BY <3>1, TouchGrows DEF TouchOf
    <3> QED
      BY <1>6, <2>1, <3>1, <3>2, <3>3, ReassemblyAssumption
  <2>3. \A u \in Slot : slots[n][u].touch \in 0 .. TouchModulus - 1
    BY <1>1 DEF TypeOK, SlotRecord
  <2>4. \A u \in Slot : slots[n][u].used /\ slots[n][u].key = k => u = x
    BY <1>1 DEF Holding, KeyInv, OneSlotPerMessage
  <2>5. Orderly(n)'
    <3> SUFFICES ASSUME NEW s \in Slot, NEW t \in Slot, slots'[n][s].used, slots'[n][t].used
                 PROVE  /\ slots'[n][s].touch <= touchCounter'[n]
                        /\ s # t => slots'[n][s].touch # slots'[n][t].touch
                        /\ slots'[n][s].touch > slots'[n][t].touch /\ slots'[n][t].key \in DOMAIN others'[n] =>
                              slots'[n][s].key \in others'[n][slots'[n][t].key]
      BY DEF Orderly
    <3>1. \A u \in Slot : u # x /\ slots'[n][u].used =>
             /\ slots[n][u].used /\ slots[n][u].touch <= touchCounter'[n]
             /\ new.used => slots[n][u].touch < touchCounter'[n]
      BY <1>5, <1>6, <2>1, <2>2, <2>3 DEF Orderly
    <3>2. CASE s = x /\ t = x
      BY <1>5, <1>6, <2>2, <3>2
    <3>3. CASE s = x /\ t # x
      <4>1. new.used /\ slots'[n][s] = new /\ slots'[n][t] = slots[n][t] /\ slots[n][t].used
        BY <1>5, <3>1, <3>3
      <4>2. slots[n][t].key # k
        BY <2>4, <3>3, <4>1
      <4>3. new.touch = touchCounter'[n] /\ slots[n][t].touch < touchCounter'[n] /\ new.key = k
        BY <1>6, <3>1, <3>3, <4>1
      <4>4. slots[n][t].key \in begun => k \in others'[n][slots[n][t].key]
        BY <1>2, <1>9, <4>2
      <4> QED
        BY <1>2, <1>9, <2>2, <2>3, <4>1, <4>3, <4>4
    <3>4. CASE s # x /\ t = x
      <4>1. new.used /\ slots'[n][t] = new /\ slots'[n][s] = slots[n][s]
        BY <1>5, <3>4
      <4>2. new.touch = touchCounter'[n] /\ slots[n][s].touch < touchCounter'[n]
        BY <1>6, <3>1, <3>4, <4>1
      <4> QED
        BY <2>2, <2>3, <4>1, <4>2
    <3>5. CASE s # x /\ t # x
      <4>1. /\ slots'[n][s] = slots[n][s] /\ slots'[n][t] = slots[n][t]
            /\ slots[n][s].used /\ slots[n][t].used /\ slots[n][s].touch <= touchCounter'[n]
        BY <1>5, <3>1, <3>5
      <4>2. slots[n][t].key # k
        BY <2>4, <3>5, <4>1
      <4>3. slots[n][t].key \in begun =>
              /\ slots[n][t].key \in DOMAIN others[n]
              /\ others'[n][slots[n][t].key] = others[n][slots[n][t].key] \union {k}
        BY <1>2, <1>9, <4>2
      <4> QED
        BY <1>2, <1>9, <2>1, <4>1, <4>3 DEF Orderly
    <3> QED
      BY <3>2, <3>3, <3>4, <3>5
  <2>6. KeptAt(n)'
    <3> SUFFICES ASSUME NEW j \in begun, Cardinality(others'[n][j]) < MaxReassemblies
                 PROVE  Holding(n, j)' # {}
      BY <1>2, <1>9 DEF KeptAt, UnderLittlePressure
    <3>1. CASE j = k
      <4>1. new.used /\ new.key = k
        BY <1>3, <3>1
      <4>2. slots'[n][x] = new
        BY <1>1, <1>5
      <4> QED
        BY <1>1, <3>1, <4>1, <4>2 DEF Holding
    <3>2. CASE j # k
      <4>1. /\ j \in DOMAIN others[n] /\ others'[n][j] = others[n][j] \union {k}
            /\ IsFiniteSet(others[n][j])
        BY <1>1, <1>2, <1>9, <3>2 DEF HistoryTyped
      <4>2. PICK S : S = others[n][j] \union {k}
        OBVIOUS
      <4>3. /\ IsFiniteSet(S) /\ others[n][j] \in SUBSET S
        BY <4>1, <4>2, FS_AddElement
      <4>4. /\ Cardinality(S) \in Nat /\ Cardinality(others[n][j]) \in Nat
            /\ Cardinality(others[n][j]) <= Cardinality(S)
        BY <4>1, <4>3, FS_CardinalityType, FS_Subset
      <4>5. Cardinality(S) < MaxReassemblies
        BY <4>1, <4>2
      <4>6. UnderLittlePressure(n, j)
        BY <4>4, <4>5, ReassemblyAssumption DEF UnderLittlePressure
      <4>7. PICK t \in Slot : slots[n][t].used /\ slots[n][t].key = j
        BY <2>1, <4>1, <4>6 DEF KeptAt, Holding
      <4>8. CASE t # x
        <5>1. slots'[n][t] = slots[n][t]
          BY <1>5, <4>8
        <5> QED
          BY <4>7, <5>1 DEF Holding
      <4>9. CASE t = x
        <5>1. Holding(n, k) = {}
          BY <1>1, <3>2, <4>7, <4>9 DEF Holding
        <5>2. FreeSlots(n) = {}
          <6>1. FreeSlots(n) # {} => First(FreeSlots(n)) \in FreeSlots(n)
            BY FirstIsLeast DEF FreeSlots, Slot
          <6> QED
            BY <4>7, <4>9, <5>1, <6>1 DEF x, SlotFor, FreeSlots
        <5>3. x = Oldest(n)
          BY <5>1, <5>2 DEF x, SlotFor
        <5>4. Cardinality(S) >= MaxReassemblies
          BY <2>1, <4>1, <4>2, <4>3, <4>7, <4>9, <5>1, <5>2, <5>3, GivenUpUnderPressure
        <5> QED
          BY <4>4, <4>5, <5>4, ReassemblyAssumption
      <4> QED
        BY <4>8, <4>9
    <3> QED
      BY <3>1, <3>2
  <2> QED
    BY <1>2, <1>7, <2>1, <2>5, <2>6 DEF EvictionInv
<1> QED
  BY <1>8, <1>9

LEMMA EvictionStop ==
    ASSUME TypeInv, EvictionInv, NEW n \in Node, Stop(n),
           others' = [others EXCEPT ![n] = NoneBegun], wrapped' = [wrapped EXCEPT ![n] = FALSE]
    PROVE  EvictionInv'
<1>1. HistoryTyped /\ UNCHANGED touchCounter
  BY DEF EvictionInv, Stop
<1>2. \A m \in Node, s \in Slot : slots'[m][s] = IF m = n THEN FreeSlot ELSE slots[m][s]
  BY StopEffect DEF TypeInv
<1>3. /\ DOMAIN others' = Node /\ wrapped' \in [Node -> BOOLEAN]
      /\ \A m \in Node : others'[m] = IF m = n THEN NoneBegun ELSE others[m]
      /\ \A m \in Node : wrapped'[m] = IF m = n THEN FALSE ELSE wrapped[m]
  BY <1>1 DEF HistoryTyped
<1>4. HistoryTyped'
  BY <1>1, <1>3 DEF HistoryTyped, NoneBegun
<1>5. Orderly(n)' /\ KeptAt(n)'
  BY <1>2, <1>3, FreeSlotTyped DEF Orderly, KeptAt, NoneBegun
<1>6. ASSUME NEW m \in Node, m # n
      PROVE  IF wrapped'[m] THEN others'[m] = NoneBegun ELSE Orderly(m)' /\ KeptAt(m)'
  BY <1>1, <1>2, <1>3, <1>6 DEF EvictionInv, Orderly, KeptAt, Holding, UnderLittlePressure
<1> QED
  BY <1>3, <1>4, <1>5, <1>6 DEF EvictionInv

LEMMA EvictionStart == EvictionInit => EvictionInv
<1> SUFFICES ASSUME EvictionInit PROVE EvictionInv
  OBVIOUS
<1>1. \A n \in Node : others[n] = NoneBegun /\ ~wrapped[n]
  BY DEF EvictionInit
<1>2. \A n \in Node, s \in Slot : ~slots[n][s].used
  BY FreeSlotTyped DEF EvictionInit, Init
<1>3. HistoryTyped
  BY <1>1 DEF EvictionInit, HistoryTyped, NoneBegun
<1> QED
  BY <1>1, <1>2, <1>3 DEF EvictionInv, Orderly, KeptAt, NoneBegun

LEMMA EvictionStep ==
    ASSUME TouchModulus > 2, TypeInv, KeyInv, EvictionInv, [EvictionNext]_evictionVars
    PROVE  [Next]_vars /\ EvictionInv'
<1>1. CASE UNCHANGED evictionVars
  BY <1>1 DEF evictionVars, vars, EvictionInv, HistoryTyped, Orderly, KeptAt, Holding, UnderLittlePressure
<1>2. ASSUME NEW n \in Node, NEW h \in Frame,
             \/ StoreFragment(n, h) /\ Begin(n, h.key)
             \/ RejectOversized(n, h) /\ End(n, h.key)
             \/ ResetMismatched(n, h) /\ End(n, h.key)
             \/ CompleteMessage(n, h) /\ End(n, h.key)
      PROVE  [Next]_vars /\ EvictionInv'
  <2>1. ProcessInboundPacket(n, h) /\ [Next]_vars
    BY <1>2 DEF ProcessInboundPacket, Next
  <2>2. OneSlotPerMessage'
    BY <2>1, KeyStep DEF KeyInv
  <2>3. CASE StoreFragment(n, h) /\ Begin(n, h.key)
    <3>1. PICK begun : begun = DOMAIN others[n] \union {h.key}
      OBVIOUS
    <3>2. Follow(n, h.key, begun)
      BY <2>3, <3>1 DEF Begin
    <3> QED
      BY <2>1, <2>2, <2>3, <3>1, <3>2, EvictionPacket
  <2>4. CASE End(n, h.key)
    <3>1. PICK begun : begun = DOMAIN others[n] \ {h.key}
      OBVIOUS
    <3>2. Follow(n, h.key, begun)
      BY <2>4, <3>1 DEF End
    <3>3. begun \subseteq DOMAIN others[n] \union {h.key} /\ h.key \notin begun
      BY <3>1
    <3> QED
      BY <2>1, <2>2, <3>2, <3>3, EvictionPacket
  <2> QED
    BY <1>2, <2>3, <2>4
<1>3. ASSUME NEW n \in Node, Stop(n),
             others' = [others EXCEPT ![n] = NoneBegun], wrapped' = [wrapped EXCEPT ![n] = FALSE]
      PROVE  [Next]_vars /\ EvictionInv'
  BY <1>3, EvictionStop DEF Next
<1> QED
  BY <1>1, <1>2, <1>3 DEF EvictionNext

\* The slot that FindOrCreateReassembly gives up is the right one: until fragments
\* of as many other messages have come as there are slots, a message that has
\* been begun keeps its slot, unless the touch counter wraps.  A new slot is
\* touched twice, so that with a modulus of 2 a wrap would go unseen.
THEOREM LostToPressureOnly ==
    ASSUME TouchModulus > 2
    PROVE  EvictionSpec => []KeptUnderPressure
<1>1. EvictionInit => TypeInv /\ KeyInv /\ EvictionInv
  BY TypeInit, KeyInit, EvictionStart DEF EvictionInit
<1>2. TypeInv /\ KeyInv /\ EvictionInv /\ [EvictionNext]_evictionVars => (TypeInv /\ KeyInv /\ EvictionInv)'
  BY EvictionStep, TypeStep, KeyStep
<1>3. EvictionInv => KeptUnderPressure
  BY DEF EvictionInv, KeptUnderPressure, KeptAt, NoneBegun
<1> QED
  BY <1>1, <1>2, <1>3, PTL DEF EvictionSpec
=============================================================================
