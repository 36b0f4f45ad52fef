-------------------------- MODULE RadioReassembly ---------------------------
(***************************************************************************)
(* The receiving half of RadioTransport on every node of a network:        *)
(* ProcessInboundPacket with the reassembly slots, the ring of recently    *)
(* completed messages, and the log of completed messages.  Packets come    *)
(* from the set Frame in any order and any number of times, which is what  *)
(* a radio medium that loses, repeats and reorders them delivers.          *)
(*                                                                         *)
(* A frame is a decoded packet                                             *)
(*   [key, idx, cnt, chunk, bytes, hop, size, data]                        *)
(* whose key [src, dst, chan, id] identifies its message, and whose data   *)
(* stands for the bytes: two fragments have the same data exactly when     *)
(* they were cut from the same message.                                    *)
(***************************************************************************)
EXTENDS RadioFraming, FiniteSets, Sequences

CONSTANTS Node,             \* the nodes
          NoNode,           \* RadioNodeId 0, which names no node
          Frame,            \* the packets that may arrive
          NoData,           \* content of a fragment not yet received
          MaxReassemblies,  \* ESPRESSIO_RADIO_MAX_REASSEMBLIES
          MaxRecent,        \* ESPRESSIO_RADIO_MAX_RECENT_MESSAGES
          TouchModulus,     \* 2^32, the modulus of _touchCounter
          MaxTouch,         \* bound: touches of a node's slots
          MaxCompletions    \* bound: messages a node completes

Key  == {f.key : f \in Frame}
Data == {f.data : f \in Frame}

ASSUME ReassemblyAssumption ==
    /\ MaxReassemblies \in Nat \ {0}
    /\ MaxRecent \in Nat \ {0}
    /\ TouchModulus \in Nat \ {0}
    /\ MaxTouch \in Nat
    /\ MaxCompletions \in Nat
    /\ NoData \notin Data
    /\ \A f \in Frame : /\ f.idx \in 0 .. MaxByte /\ f.cnt \in 0 .. MaxByte
                        /\ f.chunk \in 0 .. MaxByte /\ f.bytes \in 0 .. MaxByte
                        /\ f.hop \in 0 .. MaxByte /\ f.size \in Nat

Slot == 0 .. MaxReassemblies - 1
Ring == 0 .. MaxRecent - 1

NoKey == [src |-> NoNode, dst |-> NoNode, chan |-> 0, id |-> 0]

\* ReassemblyRecord after Reset.
FreeSlot == [used |-> FALSE, key |-> NoKey, cnt |-> 0, chunk |-> 0, hop |-> 0,
             last |-> 0, received |-> 0, touch |-> 0, parts |-> [i \in {} |-> NoData]]

VARIABLES slots,         \* _reassemblies
          touchCounter,  \* _touchCounter
          recent,        \* _recent; NoKey in an unused entry
          recentCursor,  \* _recentCursor, of which only % MaxRecent is used
          completed      \* the messages Complete has passed on, oldest first

vars == <<slots, touchCounter, recent, recentCursor, completed>>

Init ==
    /\ slots = [n \in Node |-> [s \in Slot |-> FreeSlot]]
    /\ touchCounter = [n \in Node |-> 0]
    /\ recent = [n \in Node |-> [p \in Ring |-> NoKey]]
    /\ recentCursor = [n \in Node |-> 0]
    /\ completed = [n \in Node |-> <<>>]

-----------------------------------------------------------------------------
\* Broken variant of IsRecent: the loop misses the first entry.
IsRecentButFirst(n, k) == \E p \in Ring \ {0} : recent[n][p] = k

IsRecent(n, k) == \E p \in Ring : recent[n][p] = k

\* Broken variant of Holding: the loop misses the first slot.
HoldingButFirst(n, k) == {s \in Slot \ {0} : slots[n][s].used /\ slots[n][s].key = k}

Holding(n, k) == {s \in Slot : slots[n][s].used /\ slots[n][s].key = k}

FreeSlots(n) == {s \in Slot : ~slots[n][s].used}

First(S) == CHOOSE s \in S : \A t \in S : s <= t

\* Broken variant of Oldest: the comparison of touches reversed.
Newest(n) == First({s \in Slot : \A t \in Slot : slots[n][s].touch >= slots[n][t].touch})

\* The first of the slots that were touched longest ago.
Oldest(n) == First({s \in Slot : \A t \in Slot : slots[n][s].touch <= slots[n][t].touch})

\* The slot FindOrCreateReassembly returns, or takes if it must make one.
SlotFor(n, k) ==
    IF Holding(n, k) # {} THEN First(Holding(n, k))
    ELSE IF FreeSlots(n) # {} THEN First(FreeSlots(n))
    ELSE Oldest(n)

NextTouch(c) == (c + 1) % TouchModulus

\* A slot just made for h.
OpenSlot(h, touch) ==
    [used |-> TRUE, key |-> h.key, cnt |-> h.cnt, chunk |-> h.chunk, hop |-> h.hop,
     last |-> 0, received |-> 0, touch |-> touch,
     parts |-> [i \in 0 .. h.cnt - 1 |-> NoData]]

\* Broken variants of StoreIn: a repeated fragment is counted; every fragment
\* sets the length of the last.
StoreInCountingRepeats(slot, h, touch) ==
    [slot EXCEPT !.touch    = touch,
                 !.parts    = [@ EXCEPT ![h.idx] = h.data],
                 !.received = @ + 1,
                 !.last     = IF h.idx = h.cnt - 1 THEN h.bytes ELSE @]
StoreInAnyLast(slot, h, touch) ==
    LET new == slot.parts[h.idx] = NoData
    IN  [slot EXCEPT !.touch    = touch,
                     !.parts    = IF new THEN [@ EXCEPT ![h.idx] = h.data] ELSE @,
                     !.received = IF new THEN @ + 1 ELSE @,
                     !.last     = h.bytes]

\* The slot after the fragment h is stored in it.
StoreIn(slot, h, touch) ==
    LET new == slot.parts[h.idx] = NoData
    IN  [slot EXCEPT !.touch    = touch,
                     !.parts    = IF new THEN [@ EXCEPT ![h.idx] = h.data] ELSE @,
                     !.received = IF new THEN @ + 1 ELSE @,
                     !.last     = IF h.idx = h.cnt - 1 THEN h.bytes ELSE @]

\* What Complete passes on: the message, the contents it was put together
\* from, its size and the hop limit it arrived with.
MessageOf(slot) ==
    [key   |-> slot.key,
     data  |-> {slot.parts[i] : i \in DOMAIN slot.parts},
     total |-> CompletedBytes(slot.cnt, slot.chunk, slot.last),
     hop   |-> slot.hop]

-----------------------------------------------------------------------------
\* Broken variant of Takes: recent messages are looked for on completion only.
TakesRecent(n, h) ==
    DecodeHeader(h) /\ h.key.src \notin {NoNode, n} /\ h.key.dst # NoNode

\* ProcessInboundPacket takes h up to FindOrCreateReassembly.
Takes(n, h) ==
    /\ DecodeHeader(h)
    /\ h.key.src \notin {NoNode, n}
    /\ h.key.dst # NoNode
    /\ ~IsRecent(n, h.key)

TooLarge(n, h) == Holding(n, h.key) = {} /\ Allocation(h.cnt, h.chunk) > MaxMessageBytes

\* Broken variant of Disagrees: the size of the fragments is not compared.
DisagreesInCount(n, h) ==
    Holding(n, h.key) # {} /\ slots[n][SlotFor(n, h.key)].cnt # h.cnt

\* The slot found for h disagrees with h, or h does not fit its buffer, which
\* it does if they agree.
Disagrees(n, h) ==
    LET slot == slots[n][SlotFor(n, h.key)]
    IN  /\ Holding(n, h.key) # {}
        /\ \/ slot.cnt # h.cnt
           \/ slot.chunk # h.chunk
           \/ h.idx * h.chunk + h.bytes > Allocation(slot.cnt, slot.chunk)

\* FindOrCreateReassembly frees the slot it would take before it finds that
\* the message does not fit: the message that was there is lost.
RejectOversized(n, h) ==
    /\ Takes(n, h)
    /\ TooLarge(n, h)
    /\ slots' = [slots EXCEPT ![n][SlotFor(n, h.key)] = FreeSlot]
    /\ UNCHANGED <<touchCounter, recent, recentCursor, completed>>

ResetMismatched(n, h) ==
    /\ Takes(n, h)
    /\ Disagrees(n, h)
    /\ slots' = [slots EXCEPT ![n][SlotFor(n, h.key)] = FreeSlot]
    /\ UNCHANGED <<touchCounter, recent, recentCursor, completed>>

\* The touch h leaves in its slot: making the slot touched it once already.
TouchOf(n, h) ==
    IF Holding(n, h.key) = {} THEN NextTouch(NextTouch(touchCounter[n]))
    ELSE NextTouch(touchCounter[n])

\* The slot for h with h stored in it.
SlotWith(n, h) ==
    LET s == SlotFor(n, h.key)
    IN  StoreIn(IF Holding(n, h.key) = {} THEN OpenSlot(h, NextTouch(touchCounter[n]))
                ELSE slots[n][s], h, TouchOf(n, h))

Stores(n, h) ==
    /\ Takes(n, h)
    /\ ~TooLarge(n, h)
    /\ ~Disagrees(n, h)
    /\ TouchOf(n, h) <= MaxTouch

\* The fragment is stored and others are still missing.
StoreFragment(n, h) ==
    /\ Stores(n, h)
    /\ SlotWith(n, h).received # SlotWith(n, h).cnt
    /\ slots' = [slots EXCEPT ![n][SlotFor(n, h.key)] = SlotWith(n, h)]
    /\ touchCounter' = [touchCounter EXCEPT ![n] = TouchOf(n, h)]
    /\ UNCHANGED <<recent, recentCursor, completed>>

\* Broken variants of Remember: the cursor stays; it is not wrapped.
RememberInPlace(n, k) ==
    recent' = [recent EXCEPT ![n][recentCursor[n]] = k] /\ UNCHANGED recentCursor
RememberUnwrapped(n, k) ==
    /\ recent' = [recent EXCEPT ![n][recentCursor[n]] = k]
    /\ recentCursor' = [recentCursor EXCEPT ![n] = @ + 1]

\* The key replaces the oldest of the ring.
Remember(n, k) ==
    /\ recent' = [recent EXCEPT ![n][recentCursor[n]] = k]
    /\ recentCursor' = [recentCursor EXCEPT ![n] = (@ + 1) % MaxRecent]

\* The fragment is the last one missing: Complete.  It asks IsRecent again.
CompleteMessage(n, h) ==
    /\ Stores(n, h)
    /\ Len(completed[n]) < MaxCompletions
    /\ SlotWith(n, h).received = SlotWith(n, h).cnt
    /\ slots' = [slots EXCEPT ![n][SlotFor(n, h.key)] = FreeSlot]
    /\ touchCounter' = [touchCounter EXCEPT ![n] = TouchOf(n, h)]
    /\ IF IsRecent(n, SlotWith(n, h).key)
       THEN UNCHANGED <<recent, recentCursor, completed>>
       ELSE /\ Remember(n, SlotWith(n, h).key)
            /\ completed' = [completed EXCEPT ![n] = Append(@, MessageOf(SlotWith(n, h)))]

\* A packet not taken changes nothing.
ProcessInboundPacket(n, h) ==
    \/ RejectOversized(n, h)
    \/ ResetMismatched(n, h)
    \/ StoreFragment(n, h)
    \/ CompleteMessage(n, h)

\* Stop: every reassembly is dropped, the recent messages are not.
Stop(n) ==
    /\ slots' = [slots EXCEPT ![n] = [s \in Slot |-> FreeSlot]]
    /\ UNCHANGED <<touchCounter, recent, recentCursor, completed>>

Next ==
    \E n \in Node :
        \/ \E h \in Frame : ProcessInboundPacket(n, h)
        \/ Stop(n)

Spec == Init /\ [][Next]_vars

-----------------------------------------------------------------------------
Message == [key : Key, data : SUBSET Data, total : Nat, hop : 0 .. MaxByte]

SlotRecord ==
    [used : BOOLEAN, key : Key \union {NoKey},
     cnt : 0 .. MaxByte, chunk : 0 .. MaxByte, hop : 0 .. MaxByte, last : 0 .. MaxByte,
     received : 0 .. MaxByte, touch : 0 .. TouchModulus - 1,
     parts : UNION {[0 .. k - 1 -> Data \union {NoData}] : k \in 0 .. MaxByte}]

TypeOK ==
    /\ slots \in [Node -> [Slot -> SlotRecord]]
    /\ \A n \in Node, s \in Slot : DOMAIN slots[n][s].parts = 0 .. slots[n][s].cnt - 1
    /\ touchCounter \in [Node -> 0 .. TouchModulus - 1]
    /\ recent \in [Node -> [Ring -> Key \union {NoKey}]]
    /\ recentCursor \in [Node -> Ring]
    /\ completed \in [Node -> Seq(Message)]

\* A message is put together in one slot: otherwise its fragments could be
\* split between two, and neither would ever complete.
OneSlotPerMessage ==
    \A n \in Node : \A s, t \in Slot :
        slots[n][s].used /\ slots[n][t].used /\ slots[n][s].key = slots[n][t].key => s = t

\* No slot is spent on a message the node remembers having completed: its
\* fragments would be dropped on arrival and the slot held until evicted.
NoSlotForRecent ==
    \A n \in Node, s \in Slot : slots[n][s].used => ~IsRecent(n, slots[n][s].key)

\* The fragments of a slot that have been received.
Filled(slot) == {i \in 0 .. slot.cnt - 1 : slot.parts[i] # NoData}

\* ReceivedCount is the number of fragments that are there, whatever was
\* repeated, and a buffer never exceeds the limit on messages.
SlotAccounts ==
    \A n \in Node, s \in Slot :
        LET slot == slots[n][s]
        IN  slot.used =>
              /\ slot.received = Cardinality(Filled(slot))
              /\ slot.received < slot.cnt
              /\ Allocation(slot.cnt, slot.chunk) <= MaxMessageBytes

\* How many messages ago the ring's entry p was written, if it was.
Age(n, p) ==
    IF p < recentCursor[n] THEN recentCursor[n] - p ELSE recentCursor[n] + MaxRecent - p

\* The ring names the last MaxRecent messages completed and no others: the
\* wrapped cursor overwrites the oldest entry.
RingIsTail ==
    \A n \in Node, p \in Ring :
        recent[n][p] = IF Age(n, p) <= Len(completed[n])
                       THEN completed[n][Len(completed[n]) - Age(n, p) + 1].key
                       ELSE NoKey

\* Duplicate suppression: a message is passed on again only after MaxRecent
\* others, however its fragments are repeated and interleaved.
NoRepeatInWindow ==
    \A n \in Node : \A i, j \in DOMAIN completed[n] :
        i < j /\ completed[n][i].key = completed[n][j].key => j - i > MaxRecent

\* Fragments of a message that reach a node by paths of different MTU differ
\* in chunk and count, but all are cut from one content of one size.
OneContentPerKey ==
    \A f, g \in Frame : f.key = g.key =>
        /\ f.data = g.data
        /\ f.cnt = g.cnt /\ f.chunk = g.chunk /\ f.idx = g.idx => f.bytes = g.bytes

\* Fragment i of the slot came in the packet f.
From(slot, i, f) ==
    /\ DecodeHeader(f)
    /\ f.key = slot.key
    /\ f.cnt = slot.cnt /\ f.chunk = slot.chunk
    /\ f.idx = i /\ f.data = slot.parts[i]
    /\ f.idx = f.cnt - 1 => slot.last = f.bytes

SlotPure(slot) == \A i \in Filled(slot) : \E f \in Frame : From(slot, i, f)

\* A fragment in a slot came in a packet of the slot's message, cut the way
\* the slot was made for; the last one gave the slot its last length.
SlotsHoldTheirOwn ==
    \A n \in Node, s \in Slot : slots[n][s].used => SlotPure(slots[n][s])

\* The tables agree with each other and with what was received: ProcessInbound-
\* Packet relies on each part when it looks a message up by its key alone.
TablesAgree == OneSlotPerMessage /\ NoSlotForRecent /\ RingIsTail /\ SlotsHoldTheirOwn

\* A message that is passed on is whole: made from its own fragments only,
\* and of the size they were cut from.
MessagesAreWhole ==
    \A n \in Node : \A i \in DOMAIN completed[n] :
        LET m == completed[n][i]
        IN  \E f \in Frame : /\ DecodeHeader(f)
                             /\ f.key = m.key
                             /\ f.idx = f.cnt - 1
                             /\ m.data = {f.data}
                             /\ m.total = CompletedBytes(f.cnt, f.chunk, f.bytes)
=============================================================================
