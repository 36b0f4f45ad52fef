------------------------ MODULE RadioNetwork_proofs -------------------------
(***************************************************************************)
(* Proofs about a network of RadioTransports, for every topology, all      *)
(* routes and any messages.  On a medium that loses, repeats and reorders: *)
(* each node is a RadioReassembly whose packets are those the others sent, *)
(* what it completes is what was sent, and the routes lead there.  On one  *)
(* that brings every packet, once: everything arrives where routes lead.   *)
(* No node is restarted and none sends as many messages as there are ids.  *)
(***************************************************************************)
EXTENDS RadioNetwork, RadioReassembly_proofs

KeyOf(m, id) == [src |-> Sender[m], dst |-> Dest[m], chan |-> 0, id |-> id]

\* The packet p was cut from m, sent with this id, on some interface.
CutFrom(p, m, id) ==
    \E n \in Node, hop \in 0 .. DefaultHopLimit : \E i \in DOMAIN Interfaces[n] :
        p \in SendVia(Interfaces[n][i], Node, KeyOf(m, id), m, Bytes[m], hop)

\* The messages that an id was taken for, those of one node and how many.
Launched    == {m \in Msg \ unsent : Dest[m] \notin {NoNode, Sender[m]}}
Numbered(n) == {m \in Launched : Sender[m] = n}
IdsUsed(n)  == Cardinality(Numbered(n))

\* Each node has used the ids up to its next one, and ids is how.
Ids == [Msg -> 1 .. IdModulus - 1]

IdsInOrder ==
    \A n \in Node : nextMessageId[n] = IF IdsUsed(n) = IdModulus - 1 THEN 1 ELSE IdsUsed(n) + 1

IdsGiven(ids) ==
    /\ \A m \in Launched : ids[m] \in 1 .. IdsUsed(Sender[m])
    /\ \A m, k \in Launched : Sender[m] = Sender[k] /\ ids[m] = ids[k] => m = k

\* The packets that were cut from the messages sent, whether they have been on
\* the air or not, and what they carry.
Packets(ids)    == {p \in [to : Node, frame : Frame] : \E m \in Launched : CutFrom(p, m, ids[m])}
SentFrames(ids) == {p.frame : p \in Packets(ids)}

\* A slot keeps the hop limit of a packet that was sent.
HopsInv == \A n \in Node, s \in Slot : slots[n][s].used => slots[n][s].hop <= DefaultHopLimit

NetTypes == nextMessageId \in [Node -> 1 .. IdModulus - 1]

\* Every packet was cut from a message that was sent, with an id of its own.
NetInv(ids) ==
    /\ NetTypes
    /\ unsent \subseteq Msg
    /\ IdsInOrder
    /\ IdsGiven(ids)
    /\ air \subseteq Packets(ids)
    /\ HopsInv
    /\ SlotsPureIn(SentFrames(ids))
    /\ CompletedWholeIn(SentFrames(ids))

\* A medium that brings a packet once, or again, or never.
MediumNext == LossyNext \/ CleanNext

-----------------------------------------------------------------------------
(* What is cut from a message.                                             *)

\* The receiver computes the size of what the sender cut, from the last
\* fragment, whatever it was cut into.
LEMMA SizeRestored ==
    ASSUME NEW s \in Nat, NEW c \in Nat \ {0}
    PROVE  CompletedBytes(FragmentCount(s, c), c, FragmentBytes(s, c, FragmentCount(s, c) - 1)) = s
<1> DEFINE k == FragmentCount(s, c)
           offset == (k - 1) * c
<1>1. CASE s = 0
  <2>1. k = 1 /\ (1 - 1) * c = 0 /\ FragmentBytes(0, c, 0) = 0
    BY <1>1 DEF FragmentCount, FragmentBytes, Least
  <2> QED
    BY <1>1, <2>1 DEF CompletedBytes
<1>2. CASE s # 0
  <2>1. k = (s + c - 1) \div c
    BY <1>2 DEF FragmentCount
  <2>2. k \in Nat \ {0} /\ s <= k * c /\ offset < s
    BY <1>2, <2>1, PiecesBounds
  <2> HIDE DEF k
  <2>3. offset \in Nat /\ k * c = offset + c
    BY <2>2
  <2>4. FragmentBytes(s, c, k - 1) = s - offset
    BY <2>2, <2>3 DEF FragmentBytes, Least
  <2> QED
    BY <2>2, <2>3, <2>4 DEF CompletedBytes, k
<1> QED
  BY <1>1, <1>2

LEMMA CountIsSome ==
    ASSUME NEW s \in Nat, NEW c \in Nat \ {0}
    PROVE  FragmentCount(s, c) \in Nat \ {0} /\ s <= FragmentCount(s, c) * c
<1>1. CASE s = 0
  BY <1>1 DEF FragmentCount
<1>2. CASE s # 0
  BY <1>2, PiecesBounds DEF FragmentCount
<1> QED
  BY <1>1, <1>2

LEMMA ChunkIsByte ==
    ASSUME NEW mtu \in Nat
    PROVE  FragmentPayloadBytes(mtu) \in 0 .. MaxByte
BY FramingAssumption DEF FragmentPayloadBytes, Least

LEMMA InterfaceTyped ==
    ASSUME NEW n \in Node, NEW i \in DOMAIN Interfaces[n]
    PROVE  Interfaces[n][i].mtu \in Nat /\ Interfaces[n][i].peers \subseteq Node
<1>1. Interfaces[n][i] \in [mtu : Nat, peers : SUBSET Node, broadcast : BOOLEAN, fallback : BOOLEAN]
  BY NetworkAssumption
<1> QED
  BY <1>1

\* The frame f is a piece of m.
PieceOf(f, m) ==
    /\ f.data = m
    /\ \E chunk \in Nat \ {0} : /\ f.cnt = FragmentCount(Bytes[m], chunk)
                                /\ f.chunk = chunk
                                /\ f.bytes = FragmentBytes(Bytes[m], chunk, f.idx)

LEMMA CutFacts ==
    ASSUME NEW p, NEW m \in Msg, NEW id \in 1 .. IdModulus - 1, CutFrom(p, m, id)
    PROVE  /\ p \in [to : Node, frame : Frame]
           /\ p.frame.key = KeyOf(m, id)
           /\ p.frame.hop \in 0 .. DefaultHopLimit
           /\ PieceOf(p.frame, m)
<1>1. PICK n \in Node, hop \in 0 .. DefaultHopLimit :
        \E i \in DOMAIN Interfaces[n] :
            p \in SendVia(Interfaces[n][i], Node, KeyOf(m, id), m, Bytes[m], hop)
  BY DEF CutFrom
<1>2. PICK i \in DOMAIN Interfaces[n] :
        p \in SendVia(Interfaces[n][i], Node, KeyOf(m, id), m, Bytes[m], hop)
  BY <1>1
<1> DEFINE chunk == FragmentPayloadBytes(Interfaces[n][i].mtu)
<1>3. chunk \in Nat
  BY InterfaceTyped, ChunkIsByte, FramingAssumption
<1>4. chunk # 0 /\ p \in [to : Node, frame : Fragments(KeyOf(m, id), m, Bytes[m], chunk, hop)]
  BY <1>2 DEF SendVia
<1>5. p \in [to : Node, frame : Frame]
  BY <1>2, FrameAssumption DEF KeyOf
<1> HIDE DEF chunk
<1>6. PICK j \in 0 .. FragmentCount(Bytes[m], chunk) - 1 :
        p.frame = Fragment(KeyOf(m, id), m, Bytes[m], chunk, hop, j)
  BY <1>4 DEF Fragments
<1>7. /\ p.frame.key = KeyOf(m, id) /\ p.frame.hop = hop /\ p.frame.data = m
      /\ p.frame.cnt = FragmentCount(Bytes[m], chunk) /\ p.frame.chunk = chunk
      /\ p.frame.bytes = FragmentBytes(Bytes[m], chunk, p.frame.idx)
  BY <1>6 DEF Fragment
<1> QED
  BY <1>3, <1>4, <1>5, <1>7 DEF PieceOf

\* Whatever interface SendFramed chooses, by its kind, a route or as fallback,
\* what it sends is cut from the message.
LEMMA SendFramedCuts ==
    ASSUME NEW n \in Node, NEW m \in Msg, NEW id, NEW hop \in 0 .. DefaultHopLimit,
           NEW p \in SendFramed(n, KeyOf(m, id), m, Bytes[m], hop)
    PROVE  CutFrom(p, m, id)
<1>1. ASSUME NEW i \in DOMAIN Interfaces[n], NEW peers \in SUBSET Node,
             p \in SendVia(Interfaces[n][i], peers, KeyOf(m, id), m, Bytes[m], hop)
      PROVE  CutFrom(p, m, id)
  <2>1. p \in SendVia(Interfaces[n][i], Node, KeyOf(m, id), m, Bytes[m], hop)
    BY <1>1 DEF SendVia
  <2> QED
    BY <2>1 DEF CutFrom
<1>2. CASE Dest[m] = BroadcastNode
  <2>1. PICK i \in {j \in DOMAIN Interfaces[n] : Interfaces[n][j].broadcast} :
          p \in SendVia(Interfaces[n][i], Interfaces[n][i].peers, KeyOf(m, id), m, Bytes[m], hop)
    BY <1>2 DEF SendFramed, KeyOf
  <2> QED
    BY <1>1, <2>1, InterfaceTyped
<1>3. CASE Dest[m] # BroadcastNode /\ Dest[m] \in DOMAIN Routes[n]
  <2> DEFINE route == Routes[n][Dest[m]]
  <2>1. p \in SendVia(Interfaces[n][route.interface], {route.nextHop}, KeyOf(m, id), m, Bytes[m], hop)
    BY <1>3 DEF SendFramed, KeyOf
  <2>2. route.interface \in DOMAIN Interfaces[n] /\ {route.nextHop} \in SUBSET Node
    BY <1>3, NetworkAssumption
  <2> QED
    BY <1>1, <2>1, <2>2
<1>4. CASE Dest[m] # BroadcastNode /\ Dest[m] \notin DOMAIN Routes[n]
  <2> DEFINE fallback == {i \in DOMAIN Interfaces[n] : Interfaces[n][i].fallback}
  <2>1. /\ fallback # {}
        /\ p \in SendVia(Interfaces[n][First(fallback)], Interfaces[n][First(fallback)].peers,
                         KeyOf(m, id), m, Bytes[m], hop)
    BY <1>4 DEF SendFramed, KeyOf
  <2>2. fallback \in SUBSET Nat
    BY NetworkAssumption
  <2>3. First(fallback) \in DOMAIN Interfaces[n]
    BY <2>1, <2>2, FirstIsLeast
  <2> QED
    BY <1>1, <2>1, <2>3, InterfaceTyped
<1> QED
  BY <1>2, <1>3, <1>4

-----------------------------------------------------------------------------
(* What has been sent.                                                     *)

\* A node has not used all ids but the last.
LEMMA IdsBounded ==
    ASSUME IdsSuffice, NEW n \in Node
    PROVE  /\ IsFiniteSet(Numbered(n)) /\ IdsUsed(n) \in Nat /\ IdsUsed(n) <= IdModulus - 1
           /\ IdModulus \in Nat
<1> DEFINE own == {m \in Msg : Sender[m] = n}
<1>1. IsFiniteSet(own) /\ Cardinality(own) < IdModulus /\ IdModulus \in Nat
  BY NetworkAssumption DEF IdsSuffice
<1>2. Numbered(n) \in SUBSET own
  BY DEF Numbered, Launched
<1> HIDE DEF own
<1>3. IsFiniteSet(Numbered(n)) /\ Cardinality(Numbered(n)) <= Cardinality(own)
  BY <1>1, <1>2, FS_Subset
<1>4. Cardinality(Numbered(n)) \in Nat /\ Cardinality(own) \in Nat
  BY <1>1, <1>3, FS_CardinalityType
<1> QED
  BY <1>1, <1>3, <1>4 DEF IdsUsed

LEMMA PacketFacts ==
    ASSUME NEW ids \in Ids, NEW p \in Packets(ids)
    PROVE  /\ p \in [to : Node, frame : Frame]
           /\ p.frame.hop \in 0 .. DefaultHopLimit
           /\ \E m \in Launched : /\ CutFrom(p, m, ids[m])
                                  /\ p.frame.key = KeyOf(m, ids[m])
                                  /\ PieceOf(p.frame, m)
<1>1. PICK m \in Launched : CutFrom(p, m, ids[m])
  BY DEF Packets
<1>2. m \in Msg /\ ids[m] \in 1 .. IdModulus - 1
  BY DEF Launched, Ids
<1> QED
  BY <1>1, <1>2, CutFacts

\* A packet tells which message it was cut from.
LEMMA KeyIsOfOne ==
    ASSUME NEW ids, IdsGiven(ids), NEW m \in Launched, NEW k \in Launched,
           KeyOf(m, ids[m]) = KeyOf(k, ids[k])
    PROVE  m = k
<1>1. Sender[m] = Sender[k] /\ ids[m] = ids[k]
  BY DEF KeyOf
<1> QED
  BY <1>1 DEF IdsGiven

LEMMA FramesSent ==
    ASSUME NEW ids \in Ids, IdsGiven(ids)
    PROVE  SentFrames(ids) \in SUBSET Frame /\ OneContentIn(SentFrames(ids))
<1>1. SentFrames(ids) \in SUBSET Frame
  BY PacketFacts DEF SentFrames
<1>2. ASSUME NEW p \in Packets(ids), NEW q \in Packets(ids), p.frame.key = q.frame.key
      PROVE  /\ p.frame.data = q.frame.data
             /\ /\ p.frame.cnt = q.frame.cnt /\ p.frame.chunk = q.frame.chunk
                /\ p.frame.idx = q.frame.idx
                => p.frame.bytes = q.frame.bytes
  <2>1. PICK m \in Launched : p.frame.key = KeyOf(m, ids[m]) /\ PieceOf(p.frame, m)
    BY PacketFacts
  <2>2. PICK k \in Launched : q.frame.key = KeyOf(k, ids[k]) /\ PieceOf(q.frame, k)
    BY PacketFacts
  <2>3. m = k
    BY <1>2, <2>1, <2>2, KeyIsOfOne
  <2> QED
    BY <2>1, <2>2, <2>3 DEF PieceOf
<1> QED
  BY <1>1, <1>2 DEF OneContentIn, SentFrames

-----------------------------------------------------------------------------
(* The steps.                                                              *)

\* A packet that comes in is processed, or not taken and then not sent on.
LEMMA ReceiveEffect ==
    ASSUME NEW p, Receive(p) \/ ReceiveOnce(p)
    PROVE  /\ p \in air
           /\ \/ ProcessInboundPacket(p.to, p.frame)
              \/ ~Takes(p.to, p.frame) /\ UNCHANGED vars
           /\ air' \subseteq air \union Forwards(p.to, p.frame)
           /\ UNCHANGED <<nextMessageId, unsent>>
BY DEF Receive, ReceiveOnce

LEMMA NotTakenNotSentOn ==
    ASSUME NEW n, NEW h, ~Takes(n, h)
    PROVE  Forwards(n, h) = {}
BY DEF Forwards, Completes, Stores

\* A step of the network is one of RadioReassembly, or none.
LEMMA NetworkStep ==
    ASSUME NEW ids \in Ids, air \subseteq Packets(ids), [MediumNext]_netVars
    PROVE  [Next]_vars
<1>1. CASE \E m \in Msg : Send(m)
  BY <1>1 DEF Send
<1>2. CASE \E p \in air : Receive(p) \/ ReceiveOnce(p)
  <2>1. PICK p \in air : ProcessInboundPacket(p.to, p.frame) \/ UNCHANGED vars
    BY <1>2, ReceiveEffect
  <2>2. p.to \in Node /\ p.frame \in Frame
    BY PacketFacts
  <2> QED
    BY <2>1, <2>2 DEF Next
<1>3. CASE \E n \in Node : StopReassembly(n)
  BY <1>3 DEF StopReassembly, Next
<1>4. CASE UNCHANGED netVars
  BY <1>4 DEF netVars
<1> QED
  BY <1>1, <1>2, <1>3, <1>4 DEF MediumNext, LossyNext, CleanNext

\* What was pure or whole of the frames sent is so of more of them.
LEMMA SentGrows ==
    ASSUME NEW new, NEW F, F \subseteq SentFrames(new)', SlotsPureIn(F)', CompletedWholeIn(F)'
    PROVE  SlotsPureIn(SentFrames(new))' /\ CompletedWholeIn(SentFrames(new))'
BY DEF SlotsPureIn, CompletedWholeIn, PureIn, WholeIn

\* The id that Send takes is on no packet that was ever cut.
LEMMA IdIsFresh ==
    ASSUME IdsSuffice, NEW ids \in Ids, IdsInOrder, IdsGiven(ids),
           NEW m \in unsent, m \in Msg, Dest[m] \notin {NoNode, Sender[m]}
    PROVE  /\ nextMessageId[Sender[m]] = IdsUsed(Sender[m]) + 1
           /\ nextMessageId[Sender[m]] \in 1 .. IdModulus - 1
           /\ \A k \in Launched : KeyOf(k, ids[k]) # KeyOf(m, nextMessageId[Sender[m]])
<1> DEFINE n == Sender[m]
           own == {k \in Msg : Sender[k] = n}
<1>1. n \in Node
  BY NetworkAssumption
<1>2. IsFiniteSet(Numbered(n)) /\ IdsUsed(n) \in Nat /\ IdModulus \in Nat
  BY <1>1, IdsBounded
<1>3. IdsUsed(n) + 1 <= IdModulus - 1
  <2>1. IsFiniteSet(own) /\ Cardinality(own) < IdModulus
    BY <1>1 DEF IdsSuffice
  <2>2. Numbered(n) \union {m} \in SUBSET own /\ m \notin Numbered(n)
    BY DEF Numbered, Launched
  <2> HIDE DEF own
  <2>3. Cardinality(Numbered(n) \union {m}) <= Cardinality(own) /\ Cardinality(own) \in Nat
    BY <2>1, <2>2, FS_Subset, FS_CardinalityType
  <2>4. Cardinality(Numbered(n) \union {m}) = Cardinality(Numbered(n)) + 1
    BY <1>2, <2>2, FS_AddElement
  <2> QED
    BY <1>2, <2>1, <2>3, <2>4 DEF IdsUsed
<1>4. nextMessageId[n] = IdsUsed(n) + 1
  BY <1>1, <1>2, <1>3 DEF IdsInOrder
<1>5. ASSUME NEW k \in Launched PROVE KeyOf(k, ids[k]) # KeyOf(m, nextMessageId[n])
  <2>1. CASE Sender[k] = n
    <3>1. ids[k] \in 1 .. IdsUsed(n)
      BY <2>1 DEF IdsGiven
    <3>2. ids[k] # nextMessageId[n]
      BY <1>2, <1>4, <3>1
    <3> QED
      BY <3>2 DEF KeyOf
  <2>2. CASE Sender[k] # n
    BY <2>2 DEF KeyOf
  <2> QED
    BY <2>1, <2>2
<1> QED
  BY <1>2, <1>3, <1>4, <1>5

\* The ids after the message m is sent.
IdsWith(ids, m) == [ids EXCEPT ![m] = nextMessageId[Sender[m]]]

\* Send takes an id of its own for the message.
LEMMA SendKeeps ==
    ASSUME IdsSuffice, TypeInv, NEW ids \in Ids, NetInv(ids), NEW m \in Msg, Send(m),
           NEW new, new = IdsWith(ids, m)
    PROVE  /\ new \in Ids /\ NetInv(new)'
           /\ Launched \subseteq Launched' /\ (\A k \in Launched : new[k] = ids[k])
           /\ Launched' \subseteq Launched \union {m}
<1> DEFINE n == Sender[m]
           id == nextMessageId[n]
<1>1. /\ NetTypes /\ unsent \subseteq Msg /\ IdsInOrder /\ IdsGiven(ids) /\ air \subseteq Packets(ids)
      /\ HopsInv /\ SlotsPureIn(SentFrames(ids)) /\ CompletedWholeIn(SentFrames(ids))
  BY DEF NetInv
<1>2. m \in unsent /\ unsent' = unsent \ {m} /\ UNCHANGED <<slots, completed>>
  BY DEF Send, vars
<1>3. n \in Node /\ id \in 1 .. IdModulus - 1
  BY <1>1, NetworkAssumption DEF NetTypes
<1>4. new \in Ids /\ new[m] = id /\ \A k \in Launched : new[k] = ids[k]
  BY <1>2, <1>3 DEF Ids, IdsWith, Launched
<1>5. Launched' = IF Dest[m] \in {NoNode, n} THEN Launched ELSE Launched \union {m}
  BY <1>2 DEF Launched
<1>6. Packets(ids) \subseteq Packets(new)'
  BY <1>4, <1>5 DEF Packets, CutFrom
<1>7. SlotsPureIn(SentFrames(new))' /\ CompletedWholeIn(SentFrames(new))'
  <2>1. PICK F : F = SentFrames(ids)
    OBVIOUS
  <2>2. F \subseteq SentFrames(new)'
    BY <1>6, <2>1 DEF SentFrames
  <2>3. SlotsPureIn(F)' /\ CompletedWholeIn(F)'
    BY <1>1, <1>2, <2>1 DEF SlotsPureIn, CompletedWholeIn, PureIn, From, Filled
  <2> QED
    BY <2>2, <2>3, SentGrows
<1>8. HopsInv' /\ unsent' \subseteq Msg
  BY <1>1, <1>2 DEF HopsInv
<1>9. CASE Dest[m] \in {NoNode, n}
  <2>1. UNCHANGED <<nextMessageId, air>>
    BY <1>9 DEF Send
  <2>2. Launched' = Launched /\ \A o : IdsUsed(o)' = IdsUsed(o)
    BY <1>5, <1>9 DEF Numbered, IdsUsed
  <2>3. IdsInOrder' /\ IdsGiven(new)' /\ NetTypes'
    BY <1>1, <1>4, <2>1, <2>2 DEF IdsInOrder, IdsGiven, NetTypes
  <2>4. air' \subseteq Packets(new)'
    BY <1>1, <1>6, <2>1
  <2> QED
    BY <1>4, <1>5, <1>7, <1>8, <2>3, <2>4 DEF NetInv
<1>10. CASE Dest[m] \notin {NoNode, n}
  <2>1. /\ nextMessageId' = [nextMessageId EXCEPT ![n] = NextId(@)]
        /\ air' = air \union SendFramed(n, KeyOf(m, id), m, Bytes[m], DefaultHopLimit)
    BY <1>10 DEF Send, KeyOf
  <2>2. \A o \in Node : o # n => Numbered(o)' = Numbered(o) /\ IdsUsed(o)' = IdsUsed(o)
    BY <1>5, <1>10 DEF Numbered, IdsUsed
  <2>3. IdsUsed(n)' = IdsUsed(n) + 1 /\ IdsUsed(n) \in Nat /\ IdModulus \in Nat
    <3>1. Numbered(n)' = Numbered(n) \union {m} /\ m \notin Numbered(n)
      BY <1>2, <1>5, <1>10 DEF Numbered, Launched
    <3>2. IsFiniteSet(Numbered(n)) /\ IdsUsed(n) \in Nat /\ IdModulus \in Nat
      BY <1>3, IdsBounded
    <3> QED
      BY <3>1, <3>2, FS_AddElement DEF IdsUsed
  <2>4. /\ id = IdsUsed(n) + 1
        /\ \A k \in Launched : KeyOf(k, ids[k]) # KeyOf(m, id)
    BY <1>1, <1>2, <1>10, IdIsFresh
  <2>5. IdsInOrder' /\ NetTypes'
    <3>1. nextMessageId'[n] = NextId(id) /\ \A o \in Node : o # n => nextMessageId'[o] = nextMessageId[o]
      BY <1>1, <1>3, <2>1 DEF NetTypes
    <3>2. NextId(id) = IF id = IdModulus - 1 THEN 1 ELSE id + 1
      <4>1. (id + 1) % IdModulus = IF id = IdModulus - 1 THEN 0 ELSE id + 1
        BY <1>3, <2>3
      <4> QED
        BY <1>3, <2>3, <4>1 DEF NextId
    <3>3. nextMessageId'[n] = IF IdsUsed(n)' = IdModulus - 1 THEN 1 ELSE IdsUsed(n)' + 1
      BY <2>3, <2>4, <3>1, <3>2
    <3>4. IdsInOrder'
      BY <1>1, <2>2, <3>1, <3>3 DEF IdsInOrder
    <3>5. NextId(id) \in 1 .. IdModulus - 1
      BY <1>3, <2>3, <3>2
    <3>6. NetTypes'
      BY <1>1, <1>3, <2>1, <3>5 DEF NetTypes
    <3> QED
      BY <3>4, <3>6
  <2>6. IdsGiven(new)'
    <3>1. ASSUME NEW k \in Launched' PROVE new[k] \in 1 .. IdsUsed(Sender[k])'
      <4>1. CASE k = m
        BY <1>4, <2>3, <2>4, <4>1
      <4>2. CASE k # m
        <5>1. k \in Launched /\ new[k] = ids[k] /\ ids[k] \in 1 .. IdsUsed(Sender[k]) /\ Sender[k] \in Node
          BY <1>1, <1>4, <1>5, <4>2, NetworkAssumption DEF IdsGiven, Launched
        <5>2. CASE Sender[k] = n
          BY <2>3, <5>1, <5>2
        <5>3. CASE Sender[k] # n
          BY <2>2, <5>1, <5>3
        <5> QED
          BY <5>2, <5>3
      <4> QED
        BY <4>1, <4>2
    <3>2. ASSUME NEW k \in Launched', NEW j \in Launched', Sender[k] = Sender[j], new[k] = new[j]
          PROVE  k = j
      <4>1. \A l \in Launched' : l # m => l \in Launched /\ new[l] = ids[l]
        BY <1>4, <1>5
      <4>2. \A l \in Launched' : l # m /\ Sender[l] = n => new[l] # id
        BY <2>4, <4>1, <1>1, <2>3 DEF IdsGiven
      <4>3. CASE k = m \/ j = m
        BY <1>4, <3>2, <4>2, <4>3
      <4>4. CASE k # m /\ j # m
        BY <1>1, <3>2, <4>1, <4>4 DEF IdsGiven
      <4> QED
        BY <4>3, <4>4
    <3> QED
      BY <3>1, <3>2 DEF IdsGiven
  <2>7. ASSUME NEW p \in SendFramed(n, KeyOf(m, id), m, Bytes[m], DefaultHopLimit)
        PROVE  p \in Packets(new)'
    <3>1. DefaultHopLimit \in 0 .. DefaultHopLimit
      BY NetworkAssumption
    <3>2. CutFrom(p, m, id)
      BY <1>3, <3>1, SendFramedCuts
    <3>3. p \in [to : Node, frame : Frame]
      BY <1>3, <3>2, CutFacts
    <3>4. m \in Launched'
      BY <1>5, <1>10
    <3> QED
      BY <1>4, <3>2, <3>3, <3>4 DEF Packets, CutFrom
  <2>8. air' \subseteq Packets(new)'
    BY <1>1, <1>6, <2>1, <2>7
  <2> QED
    BY <1>4, <1>5, <1>7, <1>8, <2>5, <2>6, <2>8 DEF NetInv
<1> QED
  BY <1>9, <1>10

\* A packet that is stored leaves the slot the hop limit it was opened with.
LEMMA HopOfFirst ==
    ASSUME TypeInv, NEW n \in Node, NEW h \in Frame, Stores(n, h)
    PROVE  SlotWith(n, h).hop = Base(n, h).hop
<1> DEFINE b == Base(n, h)
           new == b.parts[h.idx] = NoData
<1>1. SlotTyped(b)
  BY BaseFits DEF TypeInv
<1>2. SlotWith(n, h) = [b EXCEPT !.touch    = TouchOf(n, h),
                                 !.parts    = IF new THEN [@ EXCEPT ![h.idx] = h.data] ELSE @,
                                 !.received = IF new THEN @ + 1 ELSE @,
                                 !.last     = IF h.idx = h.cnt - 1 THEN h.bytes ELSE @]
  BY DEF SlotWith, StoreIn, Base
<1> QED
  BY <1>1, <1>2 DEF SlotTyped, SlotRecord

\* The hop limit of the slot that h is stored in, whether it was made for h.
LEMMA HopStored ==
    ASSUME TypeInv, HopsInv, NEW n \in Node, NEW h \in Frame, Stores(n, h), h.hop <= DefaultHopLimit
    PROVE  SlotWith(n, h).hop \in 0 .. MaxByte /\ SlotWith(n, h).hop <= DefaultHopLimit
<1> DEFINE b == Base(n, h)
<1>1. SlotTyped(b) /\ b.used /\ SlotTyped(SlotWith(n, h))
  BY BaseFits, SlotWithFits DEF TypeInv
<1>2. SlotWith(n, h).hop = b.hop
  BY HopOfFirst
<1>3. b.hop <= DefaultHopLimit
  <2>1. CASE Holding(n, h.key) = {}
    BY <2>1 DEF Base, OpenSlot
  <2>2. CASE Holding(n, h.key) # {}
    <3>1. b = slots[n][SlotFor(n, h.key)] /\ SlotFor(n, h.key) \in Slot
      BY <2>2, SlotForIsSlot DEF Base, TypeInv
    <3> QED
      BY <1>1, <3>1 DEF HopsInv
  <2> QED
    BY <2>1, <2>2
<1> QED
  BY <1>1, <1>2, <1>3 DEF SlotTyped, SlotRecord

\* A packet that is processed changes the slot for its message, and leaves it
\* free or with the packet stored in it.
LEMMA SlotAfter ==
    ASSUME TypeInv, NEW n \in Node, NEW h \in Frame, ProcessInboundPacket(n, h)
    PROVE  \E new : /\ new.used => StoreFragment(n, h) /\ new = SlotWith(n, h)
                    /\ \A m \in Node, t \in Slot :
                          slots'[m][t] = IF m = n /\ t = SlotFor(n, h.key) THEN new ELSE slots[m][t]
<1> DEFINE s == SlotFor(n, h.key)
<1>1. s \in Slot
  BY SlotForIsSlot DEF TypeInv
<1>2. PICK new : /\ SlotTyped(new) /\ (new.used => StoreFragment(n, h) /\ new = SlotWith(n, h))
                 /\ slots' = [slots EXCEPT ![n][s] = new]
  <2>1. CASE RejectOversized(n, h) \/ ResetMismatched(n, h) \/ CompleteMessage(n, h)
    BY <2>1, FreeSlotTyped DEF RejectOversized, ResetMismatched, CompleteMessage
  <2>2. CASE StoreFragment(n, h)
    <3>1. Stores(n, h) /\ slots' = [slots EXCEPT ![n][s] = SlotWith(n, h)]
      BY <2>2 DEF StoreFragment
    <3> QED
      BY <2>2, <3>1, SlotWithFits DEF TypeInv
  <2> QED
    BY <2>1, <2>2 DEF ProcessInboundPacket
<1> HIDE DEF s
<1>3. \A m \in Node, t \in Slot : slots'[m][t] = IF m = n /\ t = s THEN new ELSE slots[m][t]
  BY <1>1, <1>2, SlotWritten DEF TypeInv
<1> QED
  BY <1>2, <1>3 DEF s

LEMMA HopsKept ==
    ASSUME TypeInv, HopsInv, NEW n \in Node, NEW h \in Frame, h.hop <= DefaultHopLimit,
           ProcessInboundPacket(n, h)
    PROVE  HopsInv'
<1>1. PICK new : /\ new.used => StoreFragment(n, h) /\ new = SlotWith(n, h)
                 /\ \A m \in Node, t \in Slot :
                       slots'[m][t] = IF m = n /\ t = SlotFor(n, h.key) THEN new ELSE slots[m][t]
  BY SlotAfter
<1>2. new.used => new.hop <= DefaultHopLimit
  BY <1>1, HopStored DEF StoreFragment
<1> QED
  BY <1>1, <1>2 DEF HopsInv

\* The packet that completes a message at a node completes it whole: what the
\* node has put together is one of the messages, as it was sent.
LEMMA CompletesOne ==
    ASSUME TypeInv, NEW ids \in Ids, NetInv(ids), NEW p \in air, ProcessInboundPacket(p.to, p.frame),
           Stores(p.to, p.frame), SlotWith(p.to, p.frame).received = SlotWith(p.to, p.frame).cnt,
           NEW m \in Launched, p.frame.key = KeyOf(m, ids[m]),
           NEW c, c = MessageOf(SlotWith(p.to, p.frame))
    PROVE  /\ CompleteMessage(p.to, p.frame)
           /\ c.key = KeyOf(m, ids[m]) /\ ContentOf(c) = m /\ c.total = Bytes[m]
           /\ c.hop = SlotWith(p.to, p.frame).hop
           /\ c.hop \in 0 .. MaxByte /\ c.hop <= DefaultHopLimit
<1> DEFINE n == p.to
           h == p.frame
<1>1. /\ IdsGiven(ids) /\ air \subseteq Packets(ids) /\ HopsInv /\ SlotsPureIn(SentFrames(ids))
  BY DEF NetInv
<1>2. n \in Node /\ h \in Frame /\ h.hop <= DefaultHopLimit /\ h \in SentFrames(ids)
  <2>1. p \in [to : Node, frame : Frame] /\ p.frame.hop \in 0 .. DefaultHopLimit /\ p \in Packets(ids)
    BY <1>1, PacketFacts
  <2>2. DefaultHopLimit \in Nat
    BY NetworkAssumption, FramingAssumption
  <2> QED
    BY <2>1, <2>2 DEF SentFrames
<1>3. CompleteMessage(n, h)
  BY DEF ProcessInboundPacket, RejectOversized, ResetMismatched, StoreFragment, Stores
<1>4. WholeIn(c, SentFrames(ids))
  BY <1>1, <1>2, <1>3, FramesSent, CompletedIsWhole
<1>5. c.hop = SlotWith(n, h).hop /\ c.key = SlotWith(n, h).key
  BY DEF MessageOf
<1>6. c.hop \in 0 .. MaxByte /\ c.hop <= DefaultHopLimit
  BY <1>1, <1>2, <1>5, HopStored
<1>7. c.key = KeyOf(m, ids[m])
  BY <1>2, <1>5, SlotWithFits DEF TypeInv
<1>8. PICK r \in Packets(ids) : /\ r.frame.key = c.key /\ r.frame.idx = r.frame.cnt - 1
                                /\ c.data = {r.frame.data}
                                /\ c.total = CompletedBytes(r.frame.cnt, r.frame.chunk, r.frame.bytes)
  BY <1>4 DEF WholeIn, SentFrames
<1>9. PICK k \in Launched : r.frame.key = KeyOf(k, ids[k]) /\ PieceOf(r.frame, k)
  BY PacketFacts
<1>10. k = m
  <2>1. KeyOf(k, ids[k]) = KeyOf(m, ids[m])
    BY <1>7, <1>8, <1>9
  <2> QED
    BY <1>1, <2>1, KeyIsOfOne
<1>11. c.total = Bytes[m]
  <2>1. Bytes[m] \in Nat
    BY NetworkAssumption DEF Launched
  <2> QED
    BY <1>8, <1>9, <1>10, <2>1, SizeRestored DEF PieceOf
<1>12. ContentOf(c) = m
  BY <1>8, <1>9, <1>10 DEF ContentOf, PieceOf
<1> QED
  BY <1>3, <1>5, <1>6, <1>7, <1>11, <1>12

\* What is sent on of a packet was cut from the message that the node has put
\* together: its content, its size and its key are those it was sent with.
LEMMA ForwardsAre ==
    ASSUME TypeInv, NEW ids \in Ids, NetInv(ids), NEW p \in air, ProcessInboundPacket(p.to, p.frame),
           NEW q \in Forwards(p.to, p.frame),
           NEW m \in Launched, p.frame.key = KeyOf(m, ids[m])
    PROVE  LET hop == SlotWith(p.to, p.frame).hop
           IN  /\ CompleteMessage(p.to, p.frame)
               /\ Dest[m] \notin {p.to, BroadcastNode}
               /\ hop # 0 /\ hop \in Nat /\ hop - 1 \in 0 .. DefaultHopLimit
               /\ q \in SendFramed(p.to, KeyOf(m, ids[m]), m, Bytes[m], hop - 1)
<1> DEFINE n == p.to
           h == p.frame
           c == MessageOf(SlotWith(n, h))
<1>1. Stores(n, h) /\ SlotWith(n, h).received = SlotWith(n, h).cnt /\ q \in Forwarded(n, c)
  BY DEF Forwards, Completes
<1>2. PICK d : d = c
  OBVIOUS
<1>3. /\ CompleteMessage(n, h)
      /\ d.key = KeyOf(m, ids[m]) /\ ContentOf(d) = m /\ d.total = Bytes[m]
      /\ d.hop = SlotWith(n, h).hop
      /\ d.hop \in 0 .. MaxByte /\ d.hop <= DefaultHopLimit
  BY <1>1, <1>2, CompletesOne
<1>4. /\ Dest[m] \notin {n, BroadcastNode} /\ d.hop # 0
      /\ q \in SendFramed(n, KeyOf(m, ids[m]), m, Bytes[m], d.hop - 1)
  <2>1. d.key.dst = Dest[m]
    BY <1>3 DEF KeyOf
  <2>2. q \in Forwarded(n, d)
    BY <1>1, <1>2
  <2> HIDE DEF c, n
  <2> QED
    BY <1>3, <2>1, <2>2 DEF Forwarded
<1>5. MaxByte \in Nat /\ DefaultHopLimit \in Nat
  BY NetworkAssumption, FramingAssumption
<1>6. d.hop \in Nat /\ d.hop - 1 \in 0 .. DefaultHopLimit
  BY <1>3, <1>4, <1>5
<1> QED
  BY <1>3, <1>4, <1>6

LEMMA ForwardsCut ==
    ASSUME TypeInv, NEW ids \in Ids, NetInv(ids), NEW p \in air, ProcessInboundPacket(p.to, p.frame),
           NEW q \in Forwards(p.to, p.frame)
    PROVE  q \in Packets(ids)
<1>1. p \in Packets(ids)
  BY DEF NetInv
<1>2. PICK m \in Launched : p.frame.key = KeyOf(m, ids[m])
  BY <1>1, PacketFacts
<1>3. PICK hop \in 0 .. DefaultHopLimit : q \in SendFramed(p.to, KeyOf(m, ids[m]), m, Bytes[m], hop)
  BY <1>2, ForwardsAre
<1>4. p.to \in Node /\ m \in Msg /\ ids[m] \in 1 .. IdModulus - 1
  BY <1>1, PacketFacts DEF Launched, Ids
<1>5. CutFrom(q, m, ids[m])
  BY <1>3, <1>4, SendFramedCuts
<1>6. q \in [to : Node, frame : Frame]
  BY <1>4, <1>5, CutFacts
<1> QED
  BY <1>5, <1>6 DEF Packets

LEMMA ReceiveKeeps ==
    ASSUME TypeInv, NEW ids \in Ids, NetInv(ids), NEW p \in air, Receive(p) \/ ReceiveOnce(p)
    PROVE  NetInv(ids)' /\ Launched' = Launched
<1>1. /\ NetTypes /\ unsent \subseteq Msg /\ IdsInOrder /\ IdsGiven(ids) /\ air \subseteq Packets(ids)
      /\ HopsInv /\ SlotsPureIn(SentFrames(ids)) /\ CompletedWholeIn(SentFrames(ids))
  BY DEF NetInv
<1>2. /\ ProcessInboundPacket(p.to, p.frame) \/ (~Takes(p.to, p.frame) /\ UNCHANGED vars)
      /\ air' \subseteq air \union Forwards(p.to, p.frame)
      /\ UNCHANGED <<nextMessageId, unsent>>
  BY ReceiveEffect
<1>3. p.to \in Node /\ p.frame \in SentFrames(ids) /\ p.frame \in Frame /\ p.frame.hop <= DefaultHopLimit
  <2>1. p \in [to : Node, frame : Frame] /\ p.frame.hop \in 0 .. DefaultHopLimit /\ p \in Packets(ids)
    BY <1>1, PacketFacts
  <2>2. DefaultHopLimit \in Nat
    BY NetworkAssumption, FramingAssumption
  <2> QED
    BY <2>1, <2>2 DEF SentFrames
<1>4. Launched' = Launched /\ Packets(ids)' = Packets(ids) /\ SentFrames(ids)' = SentFrames(ids)
  BY <1>2 DEF Launched, Packets, SentFrames, CutFrom
<1>5. SlotsPureIn(SentFrames(ids))' /\ CompletedWholeIn(SentFrames(ids))' /\ HopsInv'
  <2>1. PICK F : F = SentFrames(ids)
    OBVIOUS
  <2>2. F \subseteq SentFrames(ids)'
    BY <1>4, <2>1
  <2>3. F \in SUBSET Frame /\ OneContentIn(F) /\ SlotsPureIn(F) /\ CompletedWholeIn(F) /\ p.frame \in F
    BY <1>1, <1>3, <2>1, FramesSent
  <2>4. SlotsPureIn(F)' /\ CompletedWholeIn(F)' /\ HopsInv'
    <3>1. CASE ProcessInboundPacket(p.to, p.frame)
      BY <1>1, <1>3, <2>3, <3>1, WholeStep, HopsKept
    <3>2. CASE UNCHANGED vars
      BY <1>1, <2>3, <3>2 DEF vars, SlotsPureIn, CompletedWholeIn, PureIn, WholeIn, From, Filled, HopsInv
    <3> QED
      BY <1>2, <3>1, <3>2
  <2> QED
    BY <2>2, <2>4, SentGrows
<1>6. \A o : IdsUsed(o)' = IdsUsed(o)
  BY <1>4 DEF IdsUsed, Numbered
<1>7. IdsInOrder' /\ IdsGiven(ids)' /\ NetTypes' /\ unsent' \subseteq Msg
  BY <1>1, <1>2, <1>4, <1>6 DEF NetTypes, IdsInOrder, IdsGiven
<1>8. air' \subseteq Packets(ids)'
  <2>1. Forwards(p.to, p.frame) \subseteq Packets(ids)
    BY <1>2, ForwardsCut, NotTakenNotSentOn
  <2> QED
    BY <1>1, <1>2, <1>4, <2>1
<1> QED
  BY <1>4, <1>5, <1>7, <1>8 DEF NetInv

\* Nothing of the network's changes, and nothing was sent that was not before.
LEMMA RestKept ==
    ASSUME NEW ids, NetInv(ids), UNCHANGED <<nextMessageId, unsent, air>>,
           HopsInv', SlotsPureIn(SentFrames(ids))', CompletedWholeIn(SentFrames(ids))'
    PROVE  NetInv(ids)'
<1>1. Launched' = Launched /\ Packets(ids)' = Packets(ids)
  BY DEF Launched, Packets, CutFrom
<1>2. \A o : IdsUsed(o)' = IdsUsed(o)
  BY <1>1 DEF IdsUsed, Numbered
<1> QED
  BY <1>1, <1>2 DEF NetInv, NetTypes, IdsInOrder, IdsGiven

LEMMA StopKeeps ==
    ASSUME TypeInv, NEW ids, NetInv(ids), NEW n \in Node, StopReassembly(n)
    PROVE  NetInv(ids)'
<1>1. Stop(n) /\ UNCHANGED <<nextMessageId, unsent, air>>
  BY DEF StopReassembly
<1>2. SlotsPureIn(SentFrames(ids))' /\ CompletedWholeIn(SentFrames(ids))'
  <2>1. PICK F : F = SentFrames(ids)
    OBVIOUS
  <2>2. F \subseteq SentFrames(ids)'
    BY <1>1, <2>1 DEF SentFrames, Packets, CutFrom, Launched
  <2>3. SlotsPureIn(F)' /\ CompletedWholeIn(F)'
    BY <1>1, <2>1, WholeAtStop DEF NetInv
  <2> QED
    BY <2>2, <2>3, SentGrows
<1>3. HopsInv'
  <2>1. \A m \in Node, s \in Slot : slots'[m][s] = IF m = n THEN FreeSlot ELSE slots[m][s]
    BY <1>1 DEF Stop, TypeInv, TypeOK
  <2> QED
    BY <2>1, FreeSlotTyped DEF NetInv, HopsInv
<1> QED
  BY <1>1, <1>2, <1>3, RestKept

-----------------------------------------------------------------------------
(* The invariants and what follows from them.                              *)

Invariants == TypeInv /\ KeyInv /\ \E ids \in Ids : NetInv(ids)

LEMMA NetStart == NetInit => TypeInv /\ KeyInv /\ \A ids \in Ids : NetInv(ids)
<1> SUFFICES ASSUME NetInit PROVE TypeInv /\ KeyInv /\ \A ids \in Ids : NetInv(ids)
  OBVIOUS
<1>1. Init /\ air = {} /\ unsent = Msg /\ nextMessageId = [n \in Node |-> 1]
  BY DEF NetInit
<1>2. TypeInv /\ KeyInv /\ \A F : SlotsPureIn(F) /\ CompletedWholeIn(F)
  BY <1>1, TypeInit, KeyInit, WholeInit
<1>3. HopsInv
  BY <1>1, FreeSlotTyped DEF Init, HopsInv
<1>4. Launched = {} /\ \A n \in Node : IdsUsed(n) = 0
  <2>1. Launched = {} /\ \A n \in Node : Numbered(n) = {}
    BY <1>1 DEF Numbered, Launched
  <2> QED
    BY <2>1, FS_EmptySet DEF IdsUsed
<1>5. IdModulus \in Nat /\ IdModulus - 1 # 0 /\ 1 \in 1 .. IdModulus - 1
  BY NetworkAssumption
<1>6. IdsInOrder /\ NetTypes /\ unsent \subseteq Msg /\ \A ids \in Ids : IdsGiven(ids) /\ air \subseteq Packets(ids)
  BY <1>1, <1>4, <1>5 DEF IdsInOrder, NetTypes, IdsGiven
<1> QED
  BY <1>2, <1>3, <1>6 DEF NetInv

\* With no id given twice, no step of RadioReassembly but Next's is taken.
LEMMA TablesStep ==
    ASSUME TypeInv, KeyInv, NEW ids \in Ids, NetInv(ids), [MediumNext]_netVars
    PROVE  TypeInv' /\ KeyInv' /\ [Next]_vars
<1>1. [Next]_vars
  BY NetworkStep DEF NetInv
<1> QED
  BY <1>1, TypeStep, KeyStep

LEMMA NetUnchanged ==
    ASSUME NEW ids, NetInv(ids), UNCHANGED netVars
    PROVE  NetInv(ids)'
<1>1. UNCHANGED <<slots, completed, nextMessageId, unsent, air>>
  BY DEF netVars, vars
<1>2. HopsInv' /\ SlotsPureIn(SentFrames(ids))' /\ CompletedWholeIn(SentFrames(ids))'
  BY <1>1 DEF NetInv, HopsInv, SlotsPureIn, PureIn, From, Filled, CompletedWholeIn, WholeIn,
              SentFrames, Packets, CutFrom, Launched
<1> QED
  BY <1>1, <1>2, RestKept

LEMMA SomeIds == Ids # {}
<1>1. [m \in Msg |-> 1] \in Ids
  BY NetworkAssumption DEF Ids
<1> QED
  BY <1>1

LEMMA NetStep ==
    ASSUME IdsSuffice
    PROVE  Invariants /\ [MediumNext]_netVars => Invariants' /\ [Next]_vars
<1> SUFFICES ASSUME Invariants, [MediumNext]_netVars PROVE Invariants' /\ [Next]_vars
  OBVIOUS
<1>1. PICK ids \in Ids : NetInv(ids)
  BY DEF Invariants
<1>2. TypeInv' /\ KeyInv' /\ [Next]_vars /\ TypeInv
  BY <1>1, TablesStep DEF Invariants
<1>3. CASE \E m \in Msg : Send(m)
  <2>1. PICK m \in Msg : Send(m)
    BY <1>3
  <2>2. PICK new : new = IdsWith(ids, m)
    OBVIOUS
  <2>3. new \in Ids /\ NetInv(new)'
    BY <1>1, <1>2, <2>1, <2>2, SendKeeps
  <2>4. \E is \in Ids : NetInv(is)'
    BY <2>3
  <2> QED
    BY <1>2, <2>4 DEF Invariants, Ids
<1>4. CASE ~\E m \in Msg : Send(m)
  <2>1. NetInv(ids)'
    <3>1. CASE \E p \in air : Receive(p) \/ ReceiveOnce(p)
      BY <1>1, <1>2, <3>1, ReceiveKeeps
    <3>2. CASE \E n \in Node : StopReassembly(n)
      BY <1>1, <1>2, <3>2, StopKeeps
    <3>3. CASE UNCHANGED netVars
      BY <1>1, <3>3, NetUnchanged
    <3> QED
      BY <1>4, <3>1, <3>2, <3>3 DEF MediumNext, LossyNext, CleanNext
  <2> QED
    BY <1>1, <1>2, <2>1 DEF Invariants, Ids
<1> QED
  BY <1>3, <1>4

LEMMA NetInvariant ==
    ASSUME IdsSuffice
    PROVE  /\ LossySpec => []Invariants /\ [][MediumNext]_netVars
           /\ CleanSpec => []Invariants /\ [][MediumNext]_netVars
<1>1. Invariants /\ [MediumNext]_netVars => Invariants'
  BY NetStep
<1>2. NetInit => Invariants
  BY SomeIds, NetStart DEF Invariants
<1>3. [LossyNext]_netVars => [MediumNext]_netVars
  BY DEF MediumNext
<1>4. [CleanNext]_netVars => [MediumNext]_netVars
  BY DEF MediumNext
<1> QED
  BY <1>1, <1>2, <1>3, <1>4, PTL DEF LossySpec, CleanSpec

\* Every node of the network is a RadioReassembly: what the others send it is
\* well formed, and it may come in any order, again, or once.
THEOREM NodesReassemble == ASSUME IdsSuffice PROVE (LossySpec => Spec) /\ (CleanSpec => Spec)
<1>1. NetInit => Init
  BY DEF NetInit
<1>2. Invariants /\ [MediumNext]_netVars => [Next]_vars
  BY NetStep
<1> QED
  BY <1>1, <1>2, NetInvariant, PTL DEF LossySpec, CleanSpec, Spec

\* The ids, the messages and the packets are what their types say: nothing but
\* packets cut from the messages is ever on the air.
THEOREM NetTypeCorrect ==
    ASSUME IdsSuffice
    PROVE  (LossySpec => []NetTypeOK) /\ (CleanSpec => []NetTypeOK)
<1>1. Invariants => NetTypeOK
  <2> SUFFICES ASSUME Invariants PROVE NetTypeOK
    OBVIOUS
  <2>1. PICK ids \in Ids : NetTypes /\ unsent \subseteq Msg /\ air \subseteq Packets(ids)
    BY DEF Invariants, NetInv
  <2>2. TypeOK
    BY DEF Invariants, TypeInv
  <2>3. air \subseteq [to : Node, frame : Frame]
    BY <2>1, PacketFacts
  <2> QED
    BY <2>1, <2>2, <2>3 DEF NetTypeOK, NetTypes
<1> QED
  BY <1>1, NetInvariant, PTL

\* What a node has completed is a message that was sent, and tells which.
LEMMA CompletedIsSent ==
    ASSUME NEW ids \in Ids, NetInv(ids), NEW n \in Node, NEW i \in DOMAIN completed[n]
    PROVE  \E m \in Launched : /\ completed[n][i].data = {m}
                               /\ completed[n][i].total = Bytes[m]
                               /\ completed[n][i].key = KeyOf(m, ids[m])
<1> DEFINE c == completed[n][i]
<1>1. WholeIn(c, SentFrames(ids))
  BY DEF NetInv, CompletedWholeIn
<1>2. PICK r \in Packets(ids) : /\ r.frame.key = c.key /\ r.frame.idx = r.frame.cnt - 1
                                /\ c.data = {r.frame.data}
                                /\ c.total = CompletedBytes(r.frame.cnt, r.frame.chunk, r.frame.bytes)
  BY <1>1 DEF WholeIn, SentFrames
<1>3. PICK m \in Launched : r.frame.key = KeyOf(m, ids[m]) /\ PieceOf(r.frame, m)
  BY PacketFacts
<1>4. c.total = Bytes[m]
  <2>1. Bytes[m] \in Nat
    BY NetworkAssumption DEF Launched
  <2> QED
    BY <1>2, <1>3, <2>1, SizeRestored DEF PieceOf
<1> QED
  BY <1>2, <1>3, <1>4 DEF PieceOf

\* Over any number of hops, cut anew on every link and put together at every
\* node, by whatever paths: what a node completes is one message that was sent,
\* with its content, its size, its source and its destination.
THEOREM Intact ==
    ASSUME IdsSuffice
    PROVE  (LossySpec => []IntactEndToEnd) /\ (CleanSpec => []IntactEndToEnd)
<1>1. Invariants => IntactEndToEnd
  <2> SUFFICES ASSUME Invariants, NEW n \in Node, NEW i \in DOMAIN completed[n]
               PROVE  \E m \in Msg \ unsent : /\ completed[n][i].data = {m}
                                              /\ completed[n][i].total = Bytes[m]
                                              /\ completed[n][i].key.src = Sender[m]
                                              /\ completed[n][i].key.dst = Dest[m]
    BY DEF IntactEndToEnd
  <2>1. PICK ids \in Ids : NetInv(ids)
    BY DEF Invariants
  <2>2. PICK m \in Launched : /\ completed[n][i].data = {m}
                              /\ completed[n][i].total = Bytes[m]
                              /\ completed[n][i].key = KeyOf(m, ids[m])
    BY <2>1, CompletedIsSent
  <2>3. m \in Msg \ unsent /\ completed[n][i].key.src = Sender[m] /\ completed[n][i].key.dst = Dest[m]
    BY <2>2 DEF KeyOf, Launched
  <2> QED
    BY <2>2, <2>3
<1> QED
  BY <1>1, NetInvariant, PTL

\* The key of an entry of the ring in use is that of a completed message.
LEMMA RecentIsCompleted ==
    ASSUME TypeInv, KeyInv, NEW n \in Node, NEW k, k # NoKey, IsRecent(n, k)
    PROVE  \E i \in DOMAIN completed[n] : completed[n][i].key = k
<1> DEFINE done == completed[n]
           L == Len(done)
<1>1. RingIsTail /\ TypeOK
  BY DEF KeyInv, TypeInv
<1>2. PICK e \in Ring : recent[n][e] = k
  BY DEF IsRecent
<1>3. Age(n, e) <= L /\ done[L - Age(n, e) + 1].key = k
  BY <1>1, <1>2 DEF RingIsTail
<1>4. done \in Seq(Message) /\ L \in Nat /\ DOMAIN done = 1 .. L
  BY <1>1, LenProperties DEF TypeOK
<1>5. Age(n, e) \in Nat /\ Age(n, e) >= 1
  <2>1. recentCursor[n] \in 0 .. MaxRecent - 1 /\ e \in 0 .. MaxRecent - 1 /\ MaxRecent \in Nat
    BY <1>1, <1>2, ReassemblyAssumption DEF TypeOK, Ring
  <2> QED
    BY <2>1 DEF Age
<1> HIDE DEF L
<1> QED
  BY <1>3, <1>4, <1>5

LEMMA KeyIsSomeone ==
    ASSUME NEW m \in Launched, NEW id
    PROVE  KeyOf(m, id) # NoKey
<1>1. Sender[m] # NoNode
  BY NetworkAssumption DEF Launched
<1> QED
  BY <1>1 DEF KeyOf, NoKey

\* A packet is dropped as recent only at a node that has completed what it is a
\* part of: an entry of the ring that is not unused is of a message whole.
THEOREM DuplicatesOnly ==
    ASSUME IdsSuffice
    PROVE  (LossySpec => []OnlyDuplicatesAreDropped) /\ (CleanSpec => []OnlyDuplicatesAreDropped)
<1>1. Invariants => OnlyDuplicatesAreDropped
  <2> SUFFICES ASSUME Invariants, NEW p \in air, IsRecent(p.to, p.frame.key)
               PROVE  p.frame.data \in CompletedAt(p.to)
    BY DEF OnlyDuplicatesAreDropped
  <2> DEFINE n == p.to
  <2>1. PICK ids \in Ids : NetInv(ids)
    BY DEF Invariants
  <2>2. IdsGiven(ids) /\ p \in Packets(ids)
    BY <2>1 DEF NetInv
  <2>3. PICK m \in Launched : p.frame.key = KeyOf(m, ids[m]) /\ PieceOf(p.frame, m)
    BY <2>2, PacketFacts
  <2>4. n \in Node /\ p.frame.key # NoKey
    BY <2>2, <2>3, PacketFacts, KeyIsSomeone
  <2>5. PICK i \in DOMAIN completed[n] : completed[n][i].key = p.frame.key
    BY <2>4, RecentIsCompleted DEF Invariants
  <2>6. PICK k \in Launched : completed[n][i].data = {k} /\ completed[n][i].key = KeyOf(k, ids[k])
    BY <2>1, <2>4, CompletedIsSent
  <2>7. k = m
    BY <2>2, <2>3, <2>5, <2>6, KeyIsOfOne
  <2>8. ContentOf(completed[n][i]) = p.frame.data
    BY <2>3, <2>6, <2>7 DEF ContentOf, PieceOf
  <2> QED
    BY <2>8 DEF CompletedAt
<1> QED
  BY <1>1, NetInvariant, PTL

-----------------------------------------------------------------------------
(* A hop for every link: where a packet or a slot's message has come is as *)
(* many links from its source as hops were spent, and one.                 *)

Spent(hop) == DefaultHopLimit - hop + 1

PaidInv ==
    /\ \A p \in air : p.to \in Within[p.frame.key.src][Spent(p.frame.hop)]
    /\ \A n \in Node, s \in Slot :
          slots[n][s].used => n \in Within[slots[n][s].key.src][Spent(slots[n][s].hop)]

LEMMA LimitIsNat == DefaultHopLimit \in Nat
BY NetworkAssumption, FramingAssumption

LEMMA LinkKinds ==
    ASSUME NEW n, NEW d
    PROVE  d \in SendsTo(n) <=> \/ \E i \in DOMAIN Interfaces[n] : d \in Interfaces[n][i].peers
                                \/ \E e \in DOMAIN Routes[n] : d = Routes[n][e].nextHop
BY Zenon DEF SendsTo

\* SendFramed sends over one link, with the hop limit and key it is given.
LEMMA SendFramedLinks ==
    ASSUME NEW n \in Node, NEW key, NEW data, NEW size, NEW hop, NEW p \in SendFramed(n, key, data, size, hop)
    PROVE  p.to \in SendsTo(n) /\ p.frame.hop = hop /\ p.frame.key = key
<1>1. ASSUME NEW i, NEW peers, p \in SendVia(Interfaces[n][i], peers, key, data, size, hop)
      PROVE  p.to \in peers /\ p.frame.hop = hop /\ p.frame.key = key
  <2>1. p \in [to : peers, frame : Fragments(key, data, size, FragmentPayloadBytes(Interfaces[n][i].mtu), hop)]
    BY <1>1 DEF SendVia
  <2> QED
    BY <2>1 DEF Fragments, Fragment
<1>2. CASE key.dst = BroadcastNode
  <2>1. PICK i \in {j \in DOMAIN Interfaces[n] : Interfaces[n][j].broadcast} :
          p \in SendVia(Interfaces[n][i], Interfaces[n][i].peers, key, data, size, hop)
    BY <1>2 DEF SendFramed
  <2>2. p.to \in Interfaces[n][i].peers /\ p.frame.hop = hop /\ p.frame.key = key
    BY <1>1, <2>1
  <2> QED
    BY <2>2 DEF SendsTo
<1>3. CASE key.dst # BroadcastNode /\ key.dst \in DOMAIN Routes[n]
  <2> DEFINE route == Routes[n][key.dst]
  <2>1. p \in SendVia(Interfaces[n][route.interface], {route.nextHop}, key, data, size, hop)
    BY <1>3 DEF SendFramed
  <2>2. p.to \in {route.nextHop} /\ p.frame.hop = hop /\ p.frame.key = key
    <3> HIDE DEF route
    <3> QED
      BY <1>1, <2>1
  <2> QED
    BY <1>3, <2>2, LinkKinds
<1>4. CASE key.dst # BroadcastNode /\ key.dst \notin DOMAIN Routes[n]
  <2> DEFINE fallback == {i \in DOMAIN Interfaces[n] : Interfaces[n][i].fallback}
  <2>1. /\ fallback # {}
        /\ p \in SendVia(Interfaces[n][First(fallback)], Interfaces[n][First(fallback)].peers,
                         key, data, size, hop)
    BY <1>4 DEF SendFramed
  <2>2. fallback \in SUBSET Nat
    BY NetworkAssumption
  <2>3. First(fallback) \in DOMAIN Interfaces[n]
    BY <2>1, <2>2, FirstIsLeast
  <2>4. p.to \in Interfaces[n][First(fallback)].peers /\ p.frame.hop = hop /\ p.frame.key = key
    BY <1>1, <2>1
  <2> QED
    BY <2>3, <2>4 DEF SendsTo
<1> QED
  BY <1>2, <1>3, <1>4

LEMMA SendsToNodes == ASSUME NEW n \in Node PROVE SendsTo(n) \subseteq Node
<1>1. \A i \in DOMAIN Interfaces[n] : Interfaces[n][i].peers \subseteq Node
  BY InterfaceTyped
<1>2. \A d \in DOMAIN Routes[n] : Routes[n][d].nextHop \in Node
  BY NetworkAssumption
<1> QED
  BY <1>1, <1>2, LinkKinds

\* One link is a way, and a way goes on by a link.
LEMMA OneLink ==
    ASSUME NEW n \in Node, NEW d \in SendsTo(n)
    PROVE  d \in Within[n][1]
<1> DEFINE path == [i \in 0 .. 1 |-> IF i = 0 THEN n ELSE d]
<1>1. d \in Node
  BY SendsToNodes
<1>2. path \in [0 .. 1 -> Node] /\ path[0] = n /\ path[1] = d
  BY <1>1
<1> HIDE DEF path
<1>3. \A i \in 1 .. 1 : path[i] \in SendsTo(path[i - 1])
  <2> SUFFICES ASSUME NEW i \in 1 .. 1 PROVE path[i] \in SendsTo(path[i - 1])
    OBVIOUS
  <2>1. i = 1 /\ i - 1 = 0
    OBVIOUS
  <2> QED
    BY <1>2, <2>1
<1>4. 1 \in 1 .. DefaultHopLimit + 1
  BY LimitIsNat
<1> QED
  BY <1>1, <1>2, <1>3, <1>4 DEF Within

LEMMA LinkMore ==
    ASSUME NEW n \in Node, NEW k \in Nat \ {0}, k <= DefaultHopLimit, NEW d \in Within[n][k], NEW e \in SendsTo(d)
    PROVE  e \in Within[n][k + 1]
<1>1. k \in 1 .. DefaultHopLimit + 1 /\ k + 1 \in 1 .. DefaultHopLimit + 1
  BY LimitIsNat
<1>2. d \in {m \in Node : \E path \in [0 .. k -> Node] :
                /\ path[0] = n /\ path[k] = m /\ \A i \in 1 .. k : path[i] \in SendsTo(path[i - 1])}
  BY <1>1 DEF Within
<1>3. PICK path \in [0 .. k -> Node] :
        path[0] = n /\ path[k] = d /\ \A i \in 1 .. k : path[i] \in SendsTo(path[i - 1])
  BY <1>2
<1> DEFINE longer == [i \in 0 .. k + 1 |-> IF i = k + 1 THEN e ELSE path[i]]
<1>4. e \in Node
  BY <1>2, SendsToNodes
<1>5. \A i \in 0 .. k + 1 : i # k + 1 => i \in 0 .. k
  OBVIOUS
<1>6. /\ longer \in [0 .. k + 1 -> Node]
      /\ longer[k + 1] = e /\ \A i \in 0 .. k : longer[i] = path[i]
  BY <1>4, <1>5
<1> HIDE DEF longer
<1>7. ASSUME NEW i \in 1 .. k + 1 PROVE longer[i] \in SendsTo(longer[i - 1])
  <2>1. CASE i = k + 1
    <3>1. i - 1 = k /\ k \in 0 .. k
      BY <2>1
    <3> QED
      BY <1>3, <1>6, <2>1, <3>1
  <2>2. CASE i # k + 1
    <3>1. i \in 1 .. k /\ i \in 0 .. k /\ i - 1 \in 0 .. k
      BY <2>2
    <3> QED
      BY <1>3, <1>6, <3>1
  <2> QED
    BY <2>1, <2>2
<1>8. longer[0] = n
  BY <1>3, <1>6
<1> QED
  BY <1>1, <1>4, <1>6, <1>7, <1>8 DEF Within

\* The slot that p is stored in has come as far as its hops say.
LEMMA WayStored ==
    ASSUME TypeInv, PaidInv, NEW p \in air, p.to \in Node, p.frame \in Frame, Stores(p.to, p.frame)
    PROVE  p.to \in Within[p.frame.key.src][Spent(SlotWith(p.to, p.frame).hop)]
<1> DEFINE n == p.to
           h == p.frame
           b == Base(n, h)
<1>1. SlotWith(n, h).hop = b.hop
  BY HopOfFirst
<1>2. CASE Holding(n, h.key) = {}
  <2>1. b.hop = h.hop
    BY <1>2 DEF Base, OpenSlot
  <2> QED
    BY <1>1, <2>1 DEF PaidInv
<1>3. CASE Holding(n, h.key) # {}
  <2>1. b = slots[n][SlotFor(n, h.key)] /\ SlotFor(n, h.key) \in Slot
    BY <1>3, SlotForIsSlot DEF Base, TypeInv
  <2>2. b.used /\ b.key = h.key
    BY BaseFits DEF TypeInv
  <2> QED
    BY <1>1, <2>1, <2>2 DEF PaidInv
<1> QED
  BY <1>2, <1>3

\* What a node sends on goes one link further, for one hop more.
LEMMA WayForwarded ==
    ASSUME TypeInv, NEW ids \in Ids, NetInv(ids), PaidInv, NEW p \in air,
           ProcessInboundPacket(p.to, p.frame), NEW q \in Forwards(p.to, p.frame)
    PROVE  q.to \in Within[q.frame.key.src][Spent(q.frame.hop)]
<1> DEFINE n == p.to
           h == p.frame
           hop == SlotWith(n, h).hop
<1>1. p \in Packets(ids)
  BY DEF NetInv
<1>2. PICK m \in Launched : h.key = KeyOf(m, ids[m])
  BY <1>1, PacketFacts
<1>3. n \in Node /\ h \in Frame /\ h.key.src \in Node
  BY <1>1, <1>2, PacketFacts, NetworkAssumption DEF KeyOf, Launched
<1>4. /\ CompleteMessage(n, h)
      /\ hop # 0 /\ hop \in Nat /\ hop - 1 \in 0 .. DefaultHopLimit
      /\ q \in SendFramed(n, KeyOf(m, ids[m]), m, Bytes[m], hop - 1)
  BY <1>2, ForwardsAre
<1>5. n \in Within[h.key.src][Spent(hop)]
  BY <1>3, <1>4, WayStored DEF CompleteMessage
<1> HIDE DEF n, h, hop
<1>6. q.to \in SendsTo(n) /\ q.frame.hop = hop - 1 /\ q.frame.key = h.key
  BY <1>2, <1>3, <1>4, SendFramedLinks
<1>7. DefaultHopLimit \in Nat /\ hop <= DefaultHopLimit
  <2>1. DefaultHopLimit \in Nat
    BY LimitIsNat
  <2>2. hop - 1 \in 0 .. DefaultHopLimit /\ SlotWith(n, h).hop = hop
    BY <1>4 DEF n, h, hop
  <2>3. hop <= DefaultHopLimit
    <3>1. p.frame.hop \in 0 .. DefaultHopLimit /\ HopsInv
      BY <1>1, PacketFacts DEF NetInv
    <3>2. h.hop <= DefaultHopLimit
      BY <2>1, <3>1 DEF h
    <3> QED
      BY <1>3, <1>4, <2>2, <3>1, <3>2, HopStored DEF CompleteMessage
  <2> QED
    BY <2>1, <2>3
<1>8. /\ Spent(hop) \in Nat \ {0} /\ Spent(hop) <= DefaultHopLimit
      /\ Spent(hop - 1) = Spent(hop) + 1
  BY <1>4, <1>7 DEF Spent
<1>9. q.to \in Within[h.key.src][Spent(hop) + 1]
  BY <1>3, <1>5, <1>6, <1>8, LinkMore
<1> QED
  BY <1>6, <1>8, <1>9

LEMMA PaidStep ==
    ASSUME IdsSuffice
    PROVE  Invariants /\ PaidInv /\ [MediumNext]_netVars => PaidInv'
<1> SUFFICES ASSUME Invariants, PaidInv, [MediumNext]_netVars PROVE PaidInv'
  OBVIOUS
<1>1. PICK ids \in Ids : TypeInv /\ NetInv(ids)
  BY DEF Invariants
<1>2. ASSUME NEW m \in Msg, Send(m) PROVE PaidInv'
  <2> DEFINE n == Sender[m]
             key == [src |-> n, dst |-> Dest[m], chan |-> 0, id |-> nextMessageId[n]]
  <2>1. UNCHANGED slots
    BY <1>2 DEF Send, vars
  <2>2. air' = air \/ air' = air \union SendFramed(n, key, m, Bytes[m], DefaultHopLimit)
    BY <1>2 DEF Send
  <2>3. ASSUME NEW p \in SendFramed(n, key, m, Bytes[m], DefaultHopLimit)
        PROVE  p.to \in Within[p.frame.key.src][Spent(p.frame.hop)]
    <3>1. n \in Node /\ key.src = n
      BY NetworkAssumption
    <3> HIDE DEF n, key
    <3>2. p.to \in SendsTo(n) /\ p.frame.hop = DefaultHopLimit /\ p.frame.key = key
      BY <3>1, SendFramedLinks
    <3>3. Spent(DefaultHopLimit) = 1
      BY LimitIsNat DEF Spent
    <3> QED
      BY <3>1, <3>2, <3>3, OneLink
  <2> HIDE DEF n, key
  <2>4. ASSUME NEW p \in air' PROVE p.to \in Within[p.frame.key.src][Spent(p.frame.hop)]
    BY <2>2, <2>3 DEF PaidInv
  <2> QED
    BY <2>1, <2>4 DEF PaidInv
<1>3. ASSUME NEW p \in air, Receive(p) \/ ReceiveOnce(p) PROVE PaidInv'
  <2> DEFINE n == p.to
             h == p.frame
             s == SlotFor(n, h.key)
  <2>1. /\ ProcessInboundPacket(n, h) \/ (~Takes(n, h) /\ UNCHANGED vars)
        /\ air' \subseteq air \union Forwards(n, h)
    BY <1>3, ReceiveEffect
  <2>2. n \in Node /\ h \in Frame
    BY <1>1, PacketFacts DEF NetInv
  <2>3. CASE ProcessInboundPacket(n, h)
    <3>1. PICK new : /\ new.used => StoreFragment(n, h) /\ new = SlotWith(n, h)
                     /\ \A m \in Node, t \in Slot :
                           slots'[m][t] = IF m = n /\ t = s THEN new ELSE slots[m][t]
      BY <1>1, <2>2, <2>3, SlotAfter
    <3>2. new.used => new.key = h.key /\ n \in Within[h.key.src][Spent(new.hop)]
      <4> SUFFICES ASSUME new.used PROVE new.key = h.key /\ n \in Within[h.key.src][Spent(new.hop)]
        OBVIOUS
      <4>1. Stores(n, h) /\ new = SlotWith(n, h)
        BY <3>1 DEF StoreFragment
      <4> QED
        BY <1>1, <2>2, <4>1, SlotWithFits, WayStored DEF TypeInv
    <3>3. ASSUME NEW q \in air' PROVE q.to \in Within[q.frame.key.src][Spent(q.frame.hop)]
      BY <1>1, <2>1, <2>3, WayForwarded DEF PaidInv
    <3> HIDE DEF s
    <3>4. ASSUME NEW m \in Node, NEW t \in Slot, slots'[m][t].used
          PROVE  m \in Within[slots'[m][t].key.src][Spent(slots'[m][t].hop)]
      BY <3>1, <3>2, <3>4 DEF PaidInv
    <3> QED
      BY <3>3, <3>4 DEF PaidInv
  <2>4. CASE ~Takes(n, h) /\ UNCHANGED vars
    <3>1. air' \subseteq air
      BY <2>1, <2>4, NotTakenNotSentOn
    <3> QED
      BY <2>4, <3>1 DEF PaidInv, vars
  <2> QED
    BY <2>1, <2>3, <2>4
<1>4. ASSUME NEW n \in Node, StopReassembly(n) PROVE PaidInv'
  <2>1. Stop(n) /\ UNCHANGED air
    BY <1>4 DEF StopReassembly
  <2>2. \A m \in Node, s \in Slot : slots'[m][s] = IF m = n THEN FreeSlot ELSE slots[m][s]
    BY <1>1, <2>1 DEF Stop, TypeInv, TypeOK
  <2> QED
    BY <2>1, <2>2, FreeSlotTyped DEF PaidInv
<1>5. CASE UNCHANGED netVars
  BY <1>5 DEF netVars, vars, PaidInv
<1> QED
  BY <1>2, <1>3, <1>4, <1>5 DEF MediumNext, LossyNext, CleanNext

\* A packet has spent a hop for every link beyond the first on its way: each
\* forwarding takes one off the limit, in loops too, and a node that puts a
\* message together from packets that came on ways of different lengths sends
\* on with the limit of the one that opened its slot.
THEOREM HopsPaid ==
    ASSUME IdsSuffice
    PROVE  (LossySpec => []HopsArePaid) /\ (CleanSpec => []HopsArePaid)
<1>1. NetInit => PaidInv
  <2> SUFFICES ASSUME NetInit PROVE PaidInv
    OBVIOUS
  <2> QED
    BY FreeSlotTyped DEF NetInit, Init, PaidInv
<1>2. Invariants /\ PaidInv /\ [MediumNext]_netVars => PaidInv'
  BY PaidStep
<1>3. Invariants /\ PaidInv => HopsArePaid
  <2> SUFFICES ASSUME Invariants, PaidInv, NEW p \in air
               PROVE  /\ p.frame.hop <= DefaultHopLimit
                      /\ p.to \in Within[p.frame.key.src][DefaultHopLimit - p.frame.hop + 1]
    BY DEF HopsArePaid
  <2>1. p.frame.hop \in 0 .. DefaultHopLimit
    BY PacketFacts DEF Invariants, NetInv
  <2>2. p.frame.hop <= DefaultHopLimit
    BY <2>1, LimitIsNat
  <2> QED
    BY <2>2 DEF PaidInv, Spent
<1> QED
  BY <1>1, <1>2, <1>3, NetInvariant, PTL DEF LossySpec, CleanSpec

-----------------------------------------------------------------------------
(***************************************************************************)
(* Where messages get to.  Part one, for every medium: a node completes    *)
(* only what the routes lead to it, over links that it gets over.          *)
(***************************************************************************)

LEMMA LinkTyped ==
    ASSUME NEW n \in Node, NEW m, NEW i, NEW d, Link(n, m, i, d)
    PROVE  i \in DOMAIN Interfaces[n] /\ d \in Node /\ Chunk(n, i) \in 0 .. MaxByte
<1>1. i \in DOMAIN Interfaces[n]
  BY DEF Link
<1>2. d \in Node
  BY <1>1, InterfaceTyped, NetworkAssumption DEF Link
<1> QED
  BY <1>1, <1>2, InterfaceTyped, ChunkIsByte DEF Chunk

LEMMA FallbackTyped ==
    ASSUME NEW n \in Node, FallbackOf(n) # {}
    PROVE  First(FallbackOf(n)) \in DOMAIN Interfaces[n]
<1>1. FallbackOf(n) \in SUBSET Nat
  BY NetworkAssumption DEF FallbackOf
<1>2. First(FallbackOf(n)) \in FallbackOf(n)
  BY <1>1, FirstIsLeast
<1> QED
  BY <1>2 DEF FallbackOf

\* The packets SendFramed makes are those SendVia makes for each link.
LEMMA SendFramedIs ==
    ASSUME NEW n \in Node, NEW m \in Msg, NEW id, NEW hop, NEW p
    PROVE  p \in SendFramed(n, KeyOf(m, id), m, Bytes[m], hop) <=>
              \E i, d : /\ Link(n, m, i, d)
                        /\ p \in SendVia(Interfaces[n][i], {d}, KeyOf(m, id), m, Bytes[m], hop)
<1> DEFINE Via(i, peers) == SendVia(Interfaces[n][i], peers, KeyOf(m, id), m, Bytes[m], hop)
<1>1. KeyOf(m, id).dst = Dest[m]
  BY DEF KeyOf
<1>2. ASSUME NEW i, NEW peers PROVE p \in Via(i, peers) <=> \E d \in peers : p \in Via(i, {d})
  <2> DEFINE F == Fragments(KeyOf(m, id), m, Bytes[m], FragmentPayloadBytes(Interfaces[n][i].mtu), hop)
  <2>1. p \in [to : peers, frame : F] <=> \E d \in peers : p \in [to : {d}, frame : F]
    OBVIOUS
  <2> HIDE DEF F
  <2> QED
    BY <2>1 DEF SendVia, F
<1>3. CASE Dest[m] = BroadcastNode
  <2>1. p \in SendFramed(n, KeyOf(m, id), m, Bytes[m], hop) <=>
          \E i \in {j \in DOMAIN Interfaces[n] : Interfaces[n][j].broadcast} : p \in Via(i, Interfaces[n][i].peers)
    BY <1>1, <1>3 DEF SendFramed
  <2> HIDE DEF Via
  <2>2. \A i, d : Link(n, m, i, d) <=>
                     i \in DOMAIN Interfaces[n] /\ Interfaces[n][i].broadcast /\ d \in Interfaces[n][i].peers
    BY <1>3 DEF Link
  <2>3. p \in SendFramed(n, KeyOf(m, id), m, Bytes[m], hop) <=> \E i, d : Link(n, m, i, d) /\ p \in Via(i, {d})
    BY <1>2, <2>1, <2>2, Zenon
  <2> QED
    BY <2>3 DEF Via
<1>4. CASE Dest[m] # BroadcastNode /\ Dest[m] \in DOMAIN Routes[n]
  <2>1. Routes[n][Dest[m]].interface \in DOMAIN Interfaces[n]
    BY <1>4, NetworkAssumption
  <2>2. p \in SendFramed(n, KeyOf(m, id), m, Bytes[m], hop) <=>
          p \in Via(Routes[n][Dest[m]].interface, {Routes[n][Dest[m]].nextHop})
    BY <1>1, <1>4 DEF SendFramed
  <2> HIDE DEF Via
  <2>3. p \in SendFramed(n, KeyOf(m, id), m, Bytes[m], hop) <=> \E i, d : Link(n, m, i, d) /\ p \in Via(i, {d})
    BY <1>4, <2>1, <2>2 DEF Link
  <2> QED
    BY <2>3 DEF Via
<1>5. CASE Dest[m] # BroadcastNode /\ Dest[m] \notin DOMAIN Routes[n]
  <2>1. p \in SendFramed(n, KeyOf(m, id), m, Bytes[m], hop) <=>
          /\ FallbackOf(n) # {}
          /\ p \in Via(First(FallbackOf(n)), Interfaces[n][First(FallbackOf(n))].peers)
    BY <1>1, <1>5 DEF SendFramed, FallbackOf
  <2> HIDE DEF Via
  <2>2. \A i, d : Link(n, m, i, d) <=>
                     FallbackOf(n) # {} /\ i = First(FallbackOf(n)) /\ d \in Interfaces[n][i].peers
    BY <1>5, FallbackTyped DEF Link
  <2>3. p \in SendFramed(n, KeyOf(m, id), m, Bytes[m], hop) <=> \E i, d : Link(n, m, i, d) /\ p \in Via(i, {d})
    BY <1>2, <2>1, <2>2, Zenon
  <2> QED
    BY <2>3 DEF Via
<1> QED
  BY <1>3, <1>4, <1>5

\* Fragment j of m for d, cut for chunk bytes, and all of them.
Piece(d, m, id, chunk, hop, j) == [to |-> d, frame |-> Fragment(KeyOf(m, id), m, Bytes[m], chunk, hop, j)]
Pieces(d, m, id, chunk, hop) ==
    {Piece(d, m, id, chunk, hop, j) : j \in 0 .. FragmentCount(Bytes[m], chunk) - 1}

\* What SendVia sends: all fragments, unless the radio carries nothing or the
\* message is too large or would take too many.
Carries(n, i, m) ==
    Chunk(n, i) # 0 /\ Bytes[m] <= MaxMessageBytes /\ FragmentCount(Bytes[m], Chunk(n, i)) <= MaxByte

LEMMA SentTo ==
    ASSUME NEW d, NEW F
    PROVE  [to : {d}, frame : F] = {[to |-> d, frame |-> f] : f \in F}
<1>1. ASSUME NEW q \in [to : {d}, frame : F] PROVE q \in {[to |-> d, frame |-> f] : f \in F}
  <2>1. q = [to |-> d, frame |-> q.frame] /\ q.frame \in F
    OBVIOUS
  <2> QED
    BY <2>1
<1>2. ASSUME NEW f \in F PROVE [to |-> d, frame |-> f] \in [to : {d}, frame : F]
  OBVIOUS
<1> QED
  BY <1>1, <1>2

LEMMA SendViaIs ==
    ASSUME NEW n \in Node, NEW i \in DOMAIN Interfaces[n], NEW d, NEW m \in Msg, NEW id, NEW hop
    PROVE  SendVia(Interfaces[n][i], {d}, KeyOf(m, id), m, Bytes[m], hop) =
              IF Carries(n, i, m) THEN Pieces(d, m, id, Chunk(n, i), hop) ELSE {}
<1> DEFINE K == Chunk(n, i)
           F == Fragments(KeyOf(m, id), m, Bytes[m], K, hop)
<1>1. SendVia(Interfaces[n][i], {d}, KeyOf(m, id), m, Bytes[m], hop) =
        IF K = 0 \/ Bytes[m] > MaxMessageBytes \/ FragmentCount(Bytes[m], K) > MaxByte
        THEN {} ELSE [to : {d}, frame : F]
  BY DEF SendVia, Chunk
<1>2. Carries(n, i, m) <=> ~(K = 0 \/ Bytes[m] > MaxMessageBytes \/ FragmentCount(Bytes[m], K) > MaxByte)
  <2>1. K \in Nat /\ Bytes[m] \in Nat /\ MaxMessageBytes \in Nat /\ MaxByte \in Nat
    BY InterfaceTyped, ChunkIsByte, NetworkAssumption, FramingAssumption DEF Chunk
  <2>2. K # 0 => FragmentCount(Bytes[m], K) \in Nat
    BY <2>1, CountIsSome
  <2> HIDE DEF K
  <2> QED
    BY <2>1, <2>2 DEF Carries, K
<1> HIDE DEF K
<1>3. {[to |-> d, frame |-> f] : f \in F} = Pieces(d, m, id, K, hop)
  BY DEF Fragments, Pieces, Piece
<1> HIDE DEF F
<1> QED
  BY <1>1, <1>2, <1>3, SentTo DEF K

LEMMA PieceFields ==
    ASSUME NEW d, NEW m, NEW id, NEW chunk, NEW hop, NEW j
    PROVE  LET f == Piece(d, m, id, chunk, hop, j).frame
           IN  /\ Piece(d, m, id, chunk, hop, j).to = d
               /\ f.key = KeyOf(m, id) /\ f.idx = j /\ f.cnt = FragmentCount(Bytes[m], chunk)
               /\ f.chunk = chunk /\ f.bytes = FragmentBytes(Bytes[m], chunk, j) /\ f.hop = hop
               /\ f.size = WireHeaderBytes + FragmentBytes(Bytes[m], chunk, j) /\ f.data = m
BY DEF Piece, Fragment

\* What is sent of m from n goes over a link of n, with the chunk of it.
LEMMA SentOver ==
    ASSUME NEW n \in Node, NEW m \in Msg, NEW id, NEW hop,
           NEW p \in SendFramed(n, KeyOf(m, id), m, Bytes[m], hop)
    PROVE  \E i : /\ Link(n, m, i, p.to) /\ Carries(n, i, m)
                  /\ p \in Pieces(p.to, m, id, Chunk(n, i), hop)
                  /\ p.frame.key = KeyOf(m, id) /\ p.frame.hop = hop /\ p.frame.chunk = Chunk(n, i)
<1>1. PICK i, d : /\ Link(n, m, i, d)
                  /\ p \in SendVia(Interfaces[n][i], {d}, KeyOf(m, id), m, Bytes[m], hop)
  BY SendFramedIs
<1>2. Carries(n, i, m) /\ p \in Pieces(d, m, id, Chunk(n, i), hop)
  <2>1. i \in DOMAIN Interfaces[n]
    BY <1>1 DEF Link
  <2>2. SendVia(Interfaces[n][i], {d}, KeyOf(m, id), m, Bytes[m], hop) =
          IF Carries(n, i, m) THEN Pieces(d, m, id, Chunk(n, i), hop) ELSE {}
    BY <2>1, SendViaIs
  <2> QED
    BY <1>1, <2>2
<1>3. PICK j : p = Piece(d, m, id, Chunk(n, i), hop, j)
  BY <1>2 DEF Pieces
<1> QED
  BY <1>1, <1>2, <1>3, PieceFields

\* The nodes that a unicast gets to from n.
LEMMA NextHopsAre ==
    ASSUME NEW n \in Node, NEW m \in Msg, Dest[m] # BroadcastNode, NEW d
    PROVE  d \in NextHops(n, Dest[m], Bytes[m]) <=>
              \E i : Link(n, m, i, d) /\ Fits(Interfaces[n][i], Bytes[m])
<1>1. CASE Dest[m] \in DOMAIN Routes[n]
  <2>1. Routes[n][Dest[m]].interface \in DOMAIN Interfaces[n]
    BY <1>1, NetworkAssumption
  <2>2. d \in NextHops(n, Dest[m], Bytes[m]) <=>
          /\ Fits(Interfaces[n][Routes[n][Dest[m]].interface], Bytes[m])
          /\ d = Routes[n][Dest[m]].nextHop
    BY <1>1 DEF NextHops
  <2> QED
    BY <1>1, <2>1, <2>2 DEF Link
<1>2. CASE Dest[m] \notin DOMAIN Routes[n]
  <2>1. d \in NextHops(n, Dest[m], Bytes[m]) <=>
          /\ FallbackOf(n) # {}
          /\ Fits(Interfaces[n][First(FallbackOf(n))], Bytes[m])
          /\ d \in Interfaces[n][First(FallbackOf(n))].peers
    BY <1>2 DEF NextHops, FallbackOf
  <2> QED
    BY <1>2, <2>1, FallbackTyped DEF Link
<1> QED
  BY <1>1, <1>2

LEMMA NeighboursAre ==
    ASSUME NEW m \in Msg, Dest[m] = BroadcastNode, NEW d
    PROVE  d \in Neighbours(m) <=>
              \E i : Link(Sender[m], m, i, d) /\ Fits(Interfaces[Sender[m]][i], Bytes[m])
<1> DEFINE of == Interfaces[Sender[m]]
           all == {j \in DOMAIN of : of[j].broadcast /\ Fits(of[j], Bytes[m])}
<1>1. d \in Neighbours(m) <=> \E i \in all : d \in of[i].peers
  BY DEF Neighbours
<1> QED
  BY <1>1 DEF Link

\* The links that m gets over lead to d with the k-th.
Leads(m, k, d) ==
    \E path \in [0 .. k -> Node] :
        /\ path[0] = Sender[m] /\ path[k] = d
        /\ \A i \in 1 .. k : path[i] \in NextHops(path[i - 1], Dest[m], Bytes[m])

LEMMA LeadsFromSender ==
    ASSUME NEW m \in Msg
    PROVE  Leads(m, 0, Sender[m])
<1> DEFINE path == [i \in 0 .. 0 |-> Sender[m]]
<1>1. path \in [0 .. 0 -> Node] /\ path[0] = Sender[m]
  BY NetworkAssumption
<1>2. \A i \in 1 .. 0 : path[i] \in NextHops(path[i - 1], Dest[m], Bytes[m])
  OBVIOUS
<1> HIDE DEF path
<1> QED
  BY <1>1, <1>2 DEF Leads

LEMMA LeadsOn ==
    ASSUME NEW m \in Msg, NEW k \in Nat, NEW o, Leads(m, k, o), NEW d \in Node,
           d \in NextHops(o, Dest[m], Bytes[m])
    PROVE  Leads(m, k + 1, d)
<1>1. PICK path \in [0 .. k -> Node] :
        /\ path[0] = Sender[m] /\ path[k] = o
        /\ \A i \in 1 .. k : path[i] \in NextHops(path[i - 1], Dest[m], Bytes[m])
  BY DEF Leads
<1> DEFINE longer == [i \in 0 .. k + 1 |-> IF i = k + 1 THEN d ELSE path[i]]
<1>2. \A i \in 0 .. k + 1 : i # k + 1 => i \in 0 .. k
  OBVIOUS
<1>3. /\ longer \in [0 .. k + 1 -> Node]
      /\ longer[k + 1] = d /\ \A i \in 0 .. k : longer[i] = path[i]
  BY <1>2
<1> HIDE DEF longer
<1>4. ASSUME NEW i \in 1 .. k + 1 PROVE longer[i] \in NextHops(longer[i - 1], Dest[m], Bytes[m])
  <2>1. CASE i = k + 1
    <3>1. i - 1 = k /\ k \in 0 .. k
      BY <2>1
    <3> QED
      BY <1>1, <1>3, <2>1, <3>1
  <2>2. CASE i # k + 1
    <3>1. i \in 1 .. k /\ i \in 0 .. k /\ i - 1 \in 0 .. k
      BY <2>2
    <3> QED
      BY <1>1, <1>3, <3>1
  <2> QED
    BY <2>1, <2>2
<1> QED
  BY <1>1, <1>3, <1>4 DEF Leads

\* Fragments of m, with this hop limit and cut for chunk bytes, come to n from
\* where the routes lead m with the hops that are spent.
CameFor(n, m, hop, chunk) ==
    \E o \in Node : \E i :
        /\ Link(o, m, i, n) /\ chunk = Chunk(o, i)
        /\ IF Dest[m] = BroadcastNode THEN o = Sender[m] ELSE Leads(m, DefaultHopLimit - hop, o)

\* Where m may be completed.
Reached(n, m) ==
    IF Dest[m] = BroadcastNode THEN n \in Neighbours(m)
    ELSE \E k \in 1 .. DefaultHopLimit + 1 : Leads(m, k, n)

RoutedInv(ids) ==
    /\ \A p \in air, m \in Launched :
          p.frame.key = KeyOf(m, ids[m]) => CameFor(p.to, m, p.frame.hop, p.frame.chunk)
    /\ \A n \in Node, s \in Slot, m \in Launched :
          slots[n][s].used /\ slots[n][s].key = KeyOf(m, ids[m]) =>
              CameFor(n, m, slots[n][s].hop, slots[n][s].chunk)
    /\ \A n \in Node : \A m \in CompletedAt(n) : Reached(n, m)

\* All fragments of m have come over a link: it is one that m gets over.
LEMMA CameOver ==
    ASSUME NEW n \in Node, NEW m \in Msg, NEW hop \in Nat, hop <= DefaultHopLimit,
           NEW chunk \in Nat \ {0}, CameFor(n, m, hop, chunk),
           FragmentCount(Bytes[m], chunk) <= MaxByte,
           Allocation(FragmentCount(Bytes[m], chunk), chunk) <= MaxMessageBytes
    PROVE  /\ Reached(n, m)
           /\ Dest[m] # BroadcastNode => Leads(m, DefaultHopLimit - hop + 1, n)
<1>1. PICK o \in Node : \E i :
        /\ Link(o, m, i, n) /\ chunk = Chunk(o, i)
        /\ IF Dest[m] = BroadcastNode THEN o = Sender[m] ELSE Leads(m, DefaultHopLimit - hop, o)
  BY DEF CameFor
<1>2. PICK i : /\ Link(o, m, i, n) /\ chunk = Chunk(o, i)
               /\ IF Dest[m] = BroadcastNode THEN o = Sender[m] ELSE Leads(m, DefaultHopLimit - hop, o)
  BY <1>1
<1>3. Fits(Interfaces[o][i], Bytes[m])
  BY <1>2 DEF Fits, Chunk
<1>4. CASE Dest[m] = BroadcastNode
  BY <1>2, <1>3, <1>4, NeighboursAre DEF Reached
<1>5. CASE Dest[m] # BroadcastNode
  <2>1. n \in NextHops(o, Dest[m], Bytes[m])
    BY <1>2, <1>3, <1>5, NextHopsAre
  <2>2. DefaultHopLimit - hop \in Nat /\ DefaultHopLimit - hop + 1 \in 1 .. DefaultHopLimit + 1
    BY LimitIsNat
  <2>3. Leads(m, DefaultHopLimit - hop + 1, n)
    BY <1>2, <1>5, <2>1, <2>2, LeadsOn
  <2> QED
    BY <1>5, <2>2, <2>3 DEF Reached
<1> QED
  BY <1>4, <1>5

\* What a packet that is stored changes of what the slot holds.
LEMMA PartsStored ==
    ASSUME TypeInv, NEW n \in Node, NEW h \in Frame, Stores(n, h)
    PROVE  /\ h.idx \in 0 .. h.cnt - 1
           /\ \A i \in 0 .. h.cnt - 1 :
                 SlotWith(n, h).parts[i] = NoData <=> Base(n, h).parts[i] = NoData /\ i # h.idx
<1> DEFINE b == Base(n, h)
           new == b.parts[h.idx] = NoData
           parts == IF new THEN [b.parts EXCEPT ![h.idx] = h.data] ELSE b.parts
<1>1. SlotTyped(b) /\ b.cnt = h.cnt
  BY BaseFits DEF TypeInv
<1>2. SlotWith(n, h) = [b EXCEPT !.touch    = TouchOf(n, h),
                                 !.parts    = parts,
                                 !.received = IF new THEN @ + 1 ELSE @,
                                 !.last     = IF h.idx = h.cnt - 1 THEN h.bytes ELSE @]
  BY DEF SlotWith, StoreIn, Base
<1>3. SlotWith(n, h).parts = parts
  <2> HIDE DEF parts, new
  <2> QED
    BY <1>1, <1>2 DEF SlotTyped, SlotRecord
<1>4. h.idx \in 0 .. h.cnt - 1
  BY FrameTyped, FramingAssumption DEF Stores, Takes, DecodeHeader
<1>5. b.parts \in [0 .. h.cnt - 1 -> Data \union {NoData}]
  BY <1>1 DEF SlotTyped, SlotRecord
<1> HIDE DEF b
<1>6. h.data # NoData
  BY FrameTyped
<1>7. \A i \in 0 .. h.cnt - 1 : parts[i] = NoData <=> b.parts[i] = NoData /\ i # h.idx
  BY <1>4, <1>5, <1>6
<1> QED
  BY <1>3, <1>4, <1>7 DEF b

\* No slot is held for nothing: one in use has a fragment.
SlotsFilled == \A n \in Node, s \in Slot : slots[n][s].used => Filled(slots[n][s]) # {}

LEMMA FilledStep ==
    ASSUME TypeInv, SlotsFilled, [Next]_vars
    PROVE  SlotsFilled'
<1>1. ASSUME NEW n \in Node, NEW h \in Frame, ProcessInboundPacket(n, h) PROVE SlotsFilled'
  <2>1. PICK new : /\ new.used => StoreFragment(n, h) /\ new = SlotWith(n, h)
                   /\ \A m \in Node, t \in Slot :
                         slots'[m][t] = IF m = n /\ t = SlotFor(n, h.key) THEN new ELSE slots[m][t]
    BY <1>1, SlotAfter
  <2>2. new.used => Filled(new) # {}
    <3> SUFFICES ASSUME new.used PROVE h.idx \in Filled(new)
      OBVIOUS
    <3>1. Stores(n, h) /\ new = SlotWith(n, h)
      BY <2>1 DEF StoreFragment
    <3>2. SlotWith(n, h).cnt = h.cnt
      BY <3>1, SlotWithFits DEF TypeInv
    <3> QED
      BY <3>1, <3>2, PartsStored DEF Filled
  <2>3. ASSUME NEW m \in Node, NEW t \in Slot, slots'[m][t].used PROVE Filled(slots'[m][t]) # {}
    BY <2>1, <2>2, <2>3 DEF SlotsFilled
  <2> QED
    BY <2>3 DEF SlotsFilled, Filled
<1>2. ASSUME NEW n \in Node, Stop(n) PROVE SlotsFilled'
  <2>1. \A m \in Node, s \in Slot : slots'[m][s] = IF m = n THEN FreeSlot ELSE slots[m][s]
    BY <1>2, StopEffect DEF TypeInv
  <2> QED
    BY <2>1, FreeSlotTyped DEF SlotsFilled, Filled
<1>3. CASE UNCHANGED vars
  BY <1>3 DEF vars, SlotsFilled, Filled
<1> QED
  BY <1>1, <1>2, <1>3 DEF Next

\* What a slot gets of the packet stored in it.
LEMMA StoredCame ==
    ASSUME TypeInv, NEW ids \in Ids, RoutedInv(ids), NEW p \in air, p.to \in Node, p.frame \in Frame,
           Stores(p.to, p.frame), NEW m \in Launched, p.frame.key = KeyOf(m, ids[m])
    PROVE  CameFor(p.to, m, SlotWith(p.to, p.frame).hop, SlotWith(p.to, p.frame).chunk)
<1> DEFINE n == p.to
           h == p.frame
           b == Base(n, h)
<1>1. SlotWith(n, h).hop = b.hop
  BY HopOfFirst
<1>2. SlotWith(n, h).chunk = h.chunk /\ b.chunk = h.chunk /\ b.used /\ b.key = h.key
  BY SlotWithFits, BaseFits DEF TypeInv
<1>3. CASE Holding(n, h.key) = {}
  <2>1. b.hop = h.hop
    BY <1>3 DEF Base, OpenSlot
  <2> QED
    BY <1>1, <1>2, <2>1 DEF RoutedInv
<1>4. CASE Holding(n, h.key) # {}
  <2>1. b = slots[n][SlotFor(n, h.key)] /\ SlotFor(n, h.key) \in Slot
    BY <1>4, SlotForIsSlot DEF Base, TypeInv
  <2>2. CameFor(n, m, b.hop, b.chunk)
    BY <1>2, <2>1 DEF RoutedInv
  <2> QED
    BY <1>1, <1>2, <2>2
<1> QED
  BY <1>3, <1>4

\* The messages a node has completed after a packet is processed.
LEMMA CompletedAfter ==
    ASSUME TypeInv, NEW n \in Node, NEW h \in Frame, ProcessInboundPacket(n, h),
           NEW c, c = MessageOf(SlotWith(n, h))
    PROVE  /\ CompleteMessage(n, h) => CompletedAt(n)' = CompletedAt(n) \union {ContentOf(c)}
           /\ ~CompleteMessage(n, h) => UNCHANGED completed
           /\ \A o \in Node : o # n => CompletedAt(o)' = CompletedAt(o)
<1>1. CASE CompleteMessage(n, h)
  <2>1. completed' = [completed EXCEPT ![n] = Append(@, c)] /\ c \in Message
    BY <1>1, CompleteMessageEffect DEF TypeInv
  <2>2. completed \in [Node -> Seq(Message)]
    BY DEF TypeInv, TypeOK
  <2>3. completed'[n] = Append(completed[n], c) /\ \A o \in Node : o # n => completed'[o] = completed[o]
    BY <2>1, <2>2
  <2>4. PICK done : done = completed[n]
    OBVIOUS
  <2>5. done \in Seq(Message) /\ completed'[n] = Append(done, c)
    BY <2>2, <2>3, <2>4
  <2>6. /\ Len(done) \in Nat /\ DOMAIN done = 1 .. Len(done)
        /\ DOMAIN Append(done, c) = 1 .. Len(done) + 1
        /\ \A i \in 1 .. Len(done) : Append(done, c)[i] = done[i]
        /\ Append(done, c)[Len(done) + 1] = c
    BY <2>1, <2>5, AppendProperties, LenProperties
  <2>7. {ContentOf(Append(done, c)[i]) : i \in 1 .. Len(done) + 1}
          = {ContentOf(done[i]) : i \in 1 .. Len(done)} \union {ContentOf(c)}
    <3>1. \A i \in 1 .. Len(done) + 1 : i \in 1 .. Len(done) \/ i = Len(done) + 1
      BY <2>6
    <3>2. \A i \in 1 .. Len(done) : i \in 1 .. Len(done) + 1
      BY <2>6
    <3>3. Len(done) + 1 \in 1 .. Len(done) + 1
      BY <2>6
    <3>4. PICK more : more = Append(done, c)
      OBVIOUS
    <3>5. PICK l \in Nat : l = Len(done)
      BY <2>6
    <3>6. (\A i \in 1 .. l : more[i] = done[i]) /\ more[l + 1] = c
      BY <2>6, <3>4, <3>5
    <3> HIDE DEF ContentOf
    <3>7. {ContentOf(more[i]) : i \in 1 .. l + 1} = {ContentOf(done[i]) : i \in 1 .. l} \union {ContentOf(c)}
      BY <3>1, <3>2, <3>3, <3>5, <3>6
    <3> QED
      BY <3>4, <3>5, <3>7
  <2>8. CompletedAt(n)' = CompletedAt(n) \union {ContentOf(c)}
    <3>1. CompletedAt(n) = {ContentOf(done[i]) : i \in DOMAIN done}
      BY <2>4 DEF CompletedAt
    <3>2. PICK more : more = Append(done, c)
      OBVIOUS
    <3>3. CompletedAt(n)' = {ContentOf(more[i]) : i \in DOMAIN more}
      BY <2>5, <3>2 DEF CompletedAt
    <3>4. DOMAIN done = 1 .. Len(done) /\ DOMAIN more = 1 .. Len(done) + 1
      BY <2>6, <3>2
    <3>5. {ContentOf(more[i]) : i \in 1 .. Len(done) + 1}
            = {ContentOf(done[i]) : i \in 1 .. Len(done)} \union {ContentOf(c)}
      BY <2>7, <3>2
    <3> HIDE DEF ContentOf
    <3> QED
      BY <3>1, <3>3, <3>4, <3>5
  <2>9. \A o \in Node : o # n => CompletedAt(o)' = CompletedAt(o)
    BY <2>3 DEF CompletedAt
  <2> QED
    BY <1>1, <2>8, <2>9
<1>2. CASE ~CompleteMessage(n, h)
  <2>1. UNCHANGED completed
    BY <1>2 DEF ProcessInboundPacket, RejectOversized, ResetMismatched, StoreFragment
  <2> QED
    BY <1>2, <2>1 DEF CompletedAt
<1> QED
  BY <1>1, <1>2

\* The message that p completes at its node is one of those that get there.
LEMMA CompletedReached ==
    ASSUME TypeInv, NEW ids \in Ids, NetInv(ids), RoutedInv(ids), NEW p \in air,
           CompleteMessage(p.to, p.frame), NEW m \in Launched, p.frame.key = KeyOf(m, ids[m])
    PROVE  LET hop == SlotWith(p.to, p.frame).hop
           IN  /\ Reached(p.to, m)
               /\ Dest[m] # BroadcastNode => Leads(m, DefaultHopLimit - hop + 1, p.to)
<1> DEFINE n == p.to
           h == p.frame
           r == SlotWith(n, h)
<1>1. p \in Packets(ids) /\ IdsGiven(ids) /\ HopsInv
  BY DEF NetInv
<1>2. n \in Node /\ h \in Frame /\ h.hop <= DefaultHopLimit /\ Stores(n, h)
  <2>1. p \in [to : Node, frame : Frame] /\ p.frame.hop \in 0 .. DefaultHopLimit
    BY <1>1, PacketFacts
  <2> QED
    BY <2>1, LimitIsNat DEF CompleteMessage
<1>3. PieceOf(h, m)
  BY <1>1, PacketFacts, KeyIsOfOne
<1>4. h.chunk \in Nat \ {0} /\ h.cnt = FragmentCount(Bytes[m], h.chunk)
  BY <1>3 DEF PieceOf
<1>5. h.cnt <= MaxByte /\ Allocation(h.cnt, h.chunk) <= MaxMessageBytes
  BY <1>2, SlotWithFits, FrameTyped, FramingAssumption DEF TypeInv
<1>6. r.chunk = h.chunk /\ CameFor(n, m, r.hop, r.chunk)
  BY <1>2, StoredCame, SlotWithFits DEF TypeInv
<1>7. r.hop \in Nat /\ r.hop <= DefaultHopLimit
  <2>1. r.hop \in 0 .. MaxByte /\ r.hop <= DefaultHopLimit
    BY <1>1, <1>2, HopStored
  <2> HIDE DEF r
  <2> QED
    BY <2>1, FramingAssumption
<1>8. m \in Msg
  BY DEF Launched
<1> HIDE DEF r, n, h
<1>9. Reached(n, m) /\ (Dest[m] # BroadcastNode => Leads(m, DefaultHopLimit - r.hop + 1, n))
  BY <1>2, <1>4, <1>5, <1>6, <1>7, <1>8, CameOver
<1> QED
  BY <1>9 DEF n, h, r

\* A slot in use holds a fragment, which came in a packet of its message.
LEMMA UsedIsSent ==
    ASSUME TypeInv, NEW ids \in Ids, SlotsPureIn(SentFrames(ids)), SlotsFilled,
           NEW n \in Node, NEW s \in Slot, slots[n][s].used
    PROVE  \E m \in Launched : slots[n][s].key = KeyOf(m, ids[m])
<1>1. PICK i \in Filled(slots[n][s]) : TRUE
  BY DEF SlotsFilled
<1>2. PICK p \in Packets(ids) : p.frame.key = slots[n][s].key
  BY <1>1 DEF SlotsPureIn, PureIn, SentFrames, From
<1> QED
  BY <1>2, PacketFacts

LEMMA RoutedSend ==
    ASSUME IdsSuffice, TypeInv, SlotsFilled, NEW ids \in Ids, NetInv(ids), RoutedInv(ids), NEW m \in Msg, Send(m),
           NEW new \in Ids, new = IdsWith(ids, m), NetInv(new)',
           Launched' \subseteq Launched \union {m}, \A k \in Launched : new[k] = ids[k]
    PROVE  RoutedInv(new)'
<1> DEFINE n == Sender[m]
           id == nextMessageId[n]
<1>1. IdsInOrder /\ IdsGiven(ids) /\ air \subseteq Packets(ids) /\ SlotsPureIn(SentFrames(ids)) /\ NetTypes
  BY DEF NetInv
<1>2. m \in unsent /\ UNCHANGED <<slots, completed>>
  BY DEF Send, vars
<1>3. n \in Node /\ new[m] = id /\ m \notin Launched
  BY <1>1, <1>2, NetworkAssumption DEF IdsWith, Launched, Ids, NetTypes
<1>4. \A o : CompletedAt(o)' = CompletedAt(o)
  BY <1>2 DEF CompletedAt
<1>5. ASSUME NEW k \in Launched', k # m PROVE k \in Launched /\ new[k] = ids[k]
  BY <1>5
<1>6. m \in Launched' => \A k \in Launched : KeyOf(k, ids[k]) # KeyOf(m, id)
  <2>1. m \in Launched' => Dest[m] \notin {NoNode, n}
    BY DEF Launched
  <2> QED
    BY <1>1, <1>2, <2>1, IdIsFresh
<1>7. ASSUME NEW p \in air', NEW k \in Launched', p.frame.key = KeyOf(k, new[k])
      PROVE  CameFor(p.to, k, p.frame.hop, p.frame.chunk)
  <2>1. CASE p \in air
    <3>1. PICK j \in Launched : p.frame.key = KeyOf(j, ids[j])
      BY <1>1, <2>1, PacketFacts
    <3>2. k # m
      BY <1>3, <1>6, <1>7, <3>1
    <3> QED
      BY <1>5, <1>7, <2>1, <3>2 DEF RoutedInv
  <2>2. CASE p \notin air
    <3>1. /\ Dest[m] \notin {NoNode, n}
          /\ p \in SendFramed(n, KeyOf(m, id), m, Bytes[m], DefaultHopLimit)
      BY <2>2 DEF Send, KeyOf
    <3>2. PICK i : /\ Link(n, m, i, p.to)
                   /\ p.frame.key = KeyOf(m, id) /\ p.frame.hop = DefaultHopLimit
                   /\ p.frame.chunk = Chunk(n, i)
      <4>1. n \in Node /\ p \in SendFramed(n, KeyOf(m, id), m, Bytes[m], DefaultHopLimit)
        BY <1>3, <3>1
      <4> HIDE DEF n, id
      <4> QED
        BY <4>1, SentOver
    <3>3. k = m
      <4>1. CASE k # m
        <5>1. k \in Launched /\ p.frame.key = KeyOf(k, ids[k])
          BY <1>5, <1>7, <4>1
        <5>2. KeyOf(k, ids[k]) # KeyOf(m, id)
          BY <1>1, <1>2, <3>1, <5>1, IdIsFresh
        <5> QED
          BY <3>2, <5>1, <5>2
      <4> QED
        BY <4>1
    <3>4. Leads(m, DefaultHopLimit - DefaultHopLimit, n)
      <4>1. DefaultHopLimit - DefaultHopLimit = 0
        BY LimitIsNat
      <4> QED
        BY <4>1, LeadsFromSender
    <3> QED
      BY <1>3, <3>2, <3>3, <3>4 DEF CameFor
  <2> QED
    BY <2>1, <2>2
<1>8. ASSUME NEW o \in Node, NEW s \in Slot, NEW k \in Launched', slots[o][s].used, slots[o][s].key = KeyOf(k, new[k])
      PROVE  CameFor(o, k, slots[o][s].hop, slots[o][s].chunk)
  <2>1. \E j \in Launched : slots[o][s].key = KeyOf(j, ids[j])
    BY <1>1, <1>8, UsedIsSent
  <2>2. k # m
    BY <1>3, <1>6, <1>8, <2>1
  <2> QED
    BY <1>5, <1>8, <2>2 DEF RoutedInv
<1> QED
  BY <1>2, <1>4, <1>7, <1>8 DEF RoutedInv

LEMMA RoutedReceive ==
    ASSUME TypeInv, NEW ids \in Ids, NetInv(ids), RoutedInv(ids), NEW p \in air, Receive(p) \/ ReceiveOnce(p)
    PROVE  RoutedInv(ids)'
<1> DEFINE n == p.to
           h == p.frame
<1>1. /\ ProcessInboundPacket(n, h) \/ (~Takes(n, h) /\ UNCHANGED vars)
      /\ air' \subseteq air \union Forwards(n, h) /\ Launched' = Launched
  BY ReceiveEffect DEF Launched
<1>2. p \in Packets(ids) /\ IdsGiven(ids)
  BY DEF NetInv
<1>3. PICK m \in Launched : h.key = KeyOf(m, ids[m])
  BY <1>2, PacketFacts
<1>4. n \in Node /\ h \in Frame
  BY <1>2, PacketFacts
<1>5. CASE ProcessInboundPacket(n, h)
  <2>1. ASSUME NEW q \in Forwards(n, h), NEW k \in Launched, q.frame.key = KeyOf(k, ids[k])
        PROVE  CameFor(q.to, k, q.frame.hop, q.frame.chunk)
    <3> DEFINE hop == SlotWith(n, h).hop
    <3>1. /\ CompleteMessage(n, h) /\ Dest[m] # BroadcastNode
          /\ hop # 0 /\ hop \in Nat /\ hop - 1 \in 0 .. DefaultHopLimit
          /\ q \in SendFramed(n, KeyOf(m, ids[m]), m, Bytes[m], hop - 1)
      BY <1>3, <1>5, ForwardsAre
    <3>2. Leads(m, DefaultHopLimit - hop + 1, n)
      BY <1>3, <3>1, CompletedReached
    <3> HIDE DEF hop
    <3>3. m \in Msg
      BY DEF Launched
    <3> HIDE DEF n
    <3>4. PICK i : /\ Link(n, m, i, q.to)
                   /\ q.frame.key = KeyOf(m, ids[m]) /\ q.frame.hop = hop - 1
                   /\ q.frame.chunk = Chunk(n, i)
      <4>1. n \in Node /\ q \in SendFramed(n, KeyOf(m, ids[m]), m, Bytes[m], hop - 1)
        BY <1>4, <3>1
      <4> QED
        BY <3>3, <4>1, SentOver
    <3>5. k = m
      BY <1>2, <2>1, <3>4, KeyIsOfOne
    <3>6. DefaultHopLimit - (hop - 1) = DefaultHopLimit - hop + 1
      BY <3>1, LimitIsNat
    <3> QED
      BY <1>4, <3>1, <3>2, <3>4, <3>5, <3>6 DEF CameFor
  <2>2. ASSUME NEW q \in air', NEW k \in Launched, q.frame.key = KeyOf(k, ids[k])
        PROVE  CameFor(q.to, k, q.frame.hop, q.frame.chunk)
    BY <1>1, <2>1, <2>2 DEF RoutedInv
  <2>3. PICK new : /\ new.used => StoreFragment(n, h) /\ new = SlotWith(n, h)
                   /\ \A o \in Node, t \in Slot :
                         slots'[o][t] = IF o = n /\ t = SlotFor(n, h.key) THEN new ELSE slots[o][t]
    BY <1>4, <1>5, SlotAfter
  <2>4. new.used => new.key = h.key /\ CameFor(n, m, new.hop, new.chunk)
    <3> SUFFICES ASSUME new.used PROVE new.key = h.key /\ CameFor(n, m, new.hop, new.chunk)
      OBVIOUS
    <3>1. Stores(n, h) /\ new = SlotWith(n, h)
      BY <2>3 DEF StoreFragment
    <3> QED
      BY <1>3, <1>4, <3>1, SlotWithFits, StoredCame DEF TypeInv
  <2>5. ASSUME NEW o \in Node, NEW t \in Slot, NEW k \in Launched,
               slots'[o][t].used, slots'[o][t].key = KeyOf(k, ids[k])
        PROVE  CameFor(o, k, slots'[o][t].hop, slots'[o][t].chunk)
    <3>1. CASE o = n /\ t = SlotFor(n, h.key)
      <4>1. slots'[o][t] = new
        BY <1>4, <2>3, <3>1
      <4>2. k = m
        BY <1>2, <1>3, <2>4, <2>5, <4>1, KeyIsOfOne
      <4> QED
        BY <2>4, <2>5, <3>1, <4>1, <4>2
    <3>2. CASE ~(o = n /\ t = SlotFor(n, h.key))
      BY <2>3, <2>5, <3>2 DEF RoutedInv
    <3> QED
      BY <3>1, <3>2
  <2>6. ASSUME NEW o \in Node, NEW k \in CompletedAt(o)' PROVE Reached(o, k)
    <3>1. CASE k \in CompletedAt(o)
      BY <3>1 DEF RoutedInv
    <3>2. CASE k \notin CompletedAt(o)
      <4>1. PICK c : c = MessageOf(SlotWith(n, h))
        OBVIOUS
      <4>2. /\ CompleteMessage(n, h) => CompletedAt(n)' = CompletedAt(n) \union {ContentOf(c)}
            /\ ~CompleteMessage(n, h) => UNCHANGED completed
            /\ \A u \in Node : u # n => CompletedAt(u)' = CompletedAt(u)
        BY <1>4, <1>5, <4>1, CompletedAfter
      <4>3. UNCHANGED completed => CompletedAt(o)' = CompletedAt(o)
        BY DEF CompletedAt
      <4> HIDE DEF n, h
      <4>4. CompleteMessage(n, h) /\ o = n /\ k = ContentOf(c)
        BY <2>6, <3>2, <4>2, <4>3
      <4> USE DEF n, h
      <4>5. Stores(n, h) /\ SlotWith(n, h).received = SlotWith(n, h).cnt
        BY <4>4 DEF CompleteMessage
      <4>6. ContentOf(c) = m
        BY <1>3, <1>5, <4>1, <4>5, CompletesOne
      <4> QED
        BY <1>3, <4>4, <4>6, CompletedReached
    <3> QED
      BY <3>1, <3>2
  <2> QED
    BY <1>1, <2>2, <2>5, <2>6 DEF RoutedInv
<1>6. CASE ~Takes(n, h) /\ UNCHANGED vars
  <2>1. air' \subseteq air
    BY <1>1, <1>6, NotTakenNotSentOn
  <2> QED
    BY <1>1, <1>6, <2>1 DEF RoutedInv, vars, CompletedAt
<1> QED
  BY <1>1, <1>5, <1>6

\* A transport that is stopped keeps what it has completed, and no slots.
LEMMA RoutedStop ==
    ASSUME TypeInv, NEW ids \in Ids, RoutedInv(ids), NEW n \in Node, StopReassembly(n)
    PROVE  RoutedInv(ids)'
<1>1. Stop(n) /\ UNCHANGED <<unsent, air, completed>>
  BY DEF StopReassembly, Stop
<1>2. \A m \in Node, s \in Slot : slots'[m][s] = IF m = n THEN FreeSlot ELSE slots[m][s]
  BY <1>1, StopEffect DEF TypeInv
<1>3. Launched' = Launched /\ \A o \in Node : CompletedAt(o)' = CompletedAt(o)
  BY <1>1 DEF Launched, CompletedAt
<1>4. \A o \in Node, s \in Slot : slots'[o][s].used => slots'[o][s] = slots[o][s]
  BY <1>2, FreeSlotTyped
<1> QED
  BY <1>1, <1>3, <1>4 DEF RoutedInv

LEMMA RoutedUnchanged ==
    ASSUME NEW ids, RoutedInv(ids), UNCHANGED netVars
    PROVE  RoutedInv(ids)'
<1>1. UNCHANGED <<slots, completed, unsent, air>>
  BY DEF netVars, vars
<1>2. Launched' = Launched /\ \A o \in Node : CompletedAt(o)' = CompletedAt(o)
  BY <1>1 DEF Launched, CompletedAt
<1> QED
  BY <1>1, <1>2 DEF RoutedInv

RouteInvariants == TypeInv /\ KeyInv /\ SlotsFilled /\ \E ids \in Ids : NetInv(ids) /\ RoutedInv(ids)

LEMMA RoutedStart == NetInit => SlotsFilled /\ \A ids \in Ids : RoutedInv(ids)
<1> SUFFICES ASSUME NetInit PROVE SlotsFilled /\ \A ids \in Ids : RoutedInv(ids)
  OBVIOUS
<1>1. /\ air = {} /\ completed = [n \in Node |-> <<>>]
      /\ \A n \in Node, s \in Slot : slots[n][s] = FreeSlot
  BY DEF NetInit, Init
<1>2. \A n \in Node : CompletedAt(n) = {}
  BY <1>1 DEF CompletedAt
<1> QED
  BY <1>1, <1>2, FreeSlotTyped DEF RoutedInv, SlotsFilled

LEMMA RoutedStep ==
    ASSUME IdsSuffice
    PROVE  RouteInvariants /\ [MediumNext]_netVars => RouteInvariants'
<1> SUFFICES ASSUME RouteInvariants, [MediumNext]_netVars PROVE RouteInvariants'
  OBVIOUS
<1>1. PICK ids \in Ids : NetInv(ids) /\ RoutedInv(ids)
  BY DEF RouteInvariants
<1>2. TypeInv /\ KeyInv /\ SlotsFilled
  BY DEF RouteInvariants
<1>3. TypeInv' /\ KeyInv' /\ [Next]_vars
  BY <1>1, <1>2, TablesStep
<1>4. SlotsFilled'
  BY <1>2, <1>3, FilledStep
<1>5. CASE \E m \in Msg : Send(m)
  <2>1. PICK m \in Msg : Send(m)
    BY <1>5
  <2>2. PICK new : new = IdsWith(ids, m)
    OBVIOUS
  <2>3. /\ new \in Ids /\ NetInv(new)'
        /\ (\A k \in Launched : new[k] = ids[k]) /\ Launched' \subseteq Launched \union {m}
    BY <1>1, <1>2, <2>1, <2>2, SendKeeps
  <2>4. RoutedInv(new)'
    BY <1>1, <1>2, <2>1, <2>2, <2>3, RoutedSend
  <2>5. \E is \in Ids : NetInv(is)' /\ RoutedInv(is)'
    BY <2>3, <2>4
  <2> QED
    BY <1>3, <1>4, <2>5 DEF RouteInvariants, Ids
<1>6. CASE ~\E m \in Msg : Send(m)
  <2>1. NetInv(ids)' /\ RoutedInv(ids)'
    <3>1. CASE \E p \in air : Receive(p) \/ ReceiveOnce(p)
      BY <1>1, <1>2, <3>1, ReceiveKeeps, RoutedReceive
    <3>2. CASE \E n \in Node : StopReassembly(n)
      BY <1>1, <1>2, <3>2, StopKeeps, RoutedStop
    <3>3. CASE UNCHANGED netVars
      BY <1>1, <3>3, NetUnchanged, RoutedUnchanged
    <3> QED
      BY <1>6, <3>1, <3>2, <3>3 DEF MediumNext, LossyNext, CleanNext
  <2> QED
    BY <1>1, <1>3, <1>4, <2>1 DEF RouteInvariants, Ids
<1> QED
  BY <1>5, <1>6

\* Nothing is completed where the routes do not lead.
OnlyWhereRouted ==
    \A n \in Node : \A m \in CompletedAt(n) : Reached(n, m)

\* Whatever is lost, repeated or out of order, and however the routes go round:
\* a node completes a message only if the routes lead there from its sender,
\* over at most as many links as the hop limit allows, each of which carries
\* the message whole - for a broadcast, only if it is a neighbour over such a
\* link.
THEOREM CompletesOnlyWhereRouted ==
    ASSUME IdsSuffice
    PROVE  (LossySpec => []OnlyWhereRouted) /\ (CleanSpec => []OnlyWhereRouted)
<1>1. NetInit => RouteInvariants
  BY SomeIds, NetStart, RoutedStart DEF RouteInvariants
<1>2. RouteInvariants /\ [MediumNext]_netVars => RouteInvariants'
  BY RoutedStep
<1>3. RouteInvariants => OnlyWhereRouted
  BY DEF RouteInvariants, RoutedInv, OnlyWhereRouted
<1> QED
  BY <1>1, <1>2, <1>3, NetInvariant, PTL DEF LossySpec, CleanSpec

-----------------------------------------------------------------------------
(***************************************************************************)
(* Part two, for the medium that brings every packet, once: where the      *)
(* routes lead, a message is completed.  Until it is, the fragments that   *)
(* its next node has and those that are on the air to it make it up.       *)
(***************************************************************************)

\* What n keeps of the message with key k is as it was, and n has not
\* completed it.
Untouched(n, k) ==
    /\ Holding(n, k)' = Holding(n, k)
    /\ \A s \in Holding(n, k) : slots'[n][s] = slots[n][s]
    /\ IsRecent(n, k)' => IsRecent(n, k)

\* A packet of one message touches no other while there is a free slot.
LEMMA OthersUntouched ==
    ASSUME TypeInv, NEW n \in Node, NEW h \in Frame, ProcessInboundPacket(n, h),
           NEW o \in Node, NEW k, o # n \/ (k # h.key /\ FreeSlots(n) # {})
    PROVE  Untouched(o, k)
<1> DEFINE s == SlotFor(n, h.key)
<1>1. PICK new : /\ new.used => StoreFragment(n, h) /\ new = SlotWith(n, h)
                 /\ \A m \in Node, t \in Slot :
                       slots'[m][t] = IF m = n /\ t = s THEN new ELSE slots[m][t]
  BY SlotAfter
<1>2. new.used => new.key = h.key
  BY <1>1, SlotWithFits DEF StoreFragment, TypeInv
<1>3. IsRecent(o, k)' => IsRecent(o, k)
  <2>1. CASE CompleteMessage(n, h)
    <3>1. recent' = [recent EXCEPT ![n][recentCursor[n]] = h.key]
      BY <2>1, CompleteMessageEffect DEF TypeInv
    <3>2. recent \in [Node -> [Ring -> Key \union {NoKey}]]
      BY DEF TypeInv, TypeOK
    <3>3. \A e \in Ring : recent'[o][e] = recent[o][e] \/ (o = n /\ recent'[o][e] = h.key)
      BY <3>1, <3>2
    <3> QED
      BY <3>3 DEF IsRecent
  <2>2. CASE ~CompleteMessage(n, h)
    BY <2>2 DEF ProcessInboundPacket, RejectOversized, ResetMismatched, StoreFragment, IsRecent
  <2> QED
    BY <2>1, <2>2
<1>4. ASSUME o = n PROVE s \notin Holding(n, k)
  <2>1. CASE Holding(n, h.key) # {}
    <3>1. s \in Holding(n, h.key)
      BY <2>1, SlotForIsSlot DEF TypeInv
    <3> HIDE DEF s
    <3> QED
      BY <1>4, <3>1 DEF Holding
  <2>2. CASE Holding(n, h.key) = {}
    <3>1. s = First(FreeSlots(n)) /\ FreeSlots(n) # {}
      BY <1>4, <2>2 DEF SlotFor
    <3>2. FreeSlots(n) \in SUBSET Nat
      BY DEF FreeSlots, Slot
    <3>3. s \in FreeSlots(n)
      BY <3>1, <3>2, FirstIsLeast
    <3> HIDE DEF s
    <3> QED
      BY <3>3 DEF FreeSlots, Holding
  <2> QED
    BY <2>1, <2>2
<1> HIDE DEF s
<1>5. \A t \in Holding(o, k) : t \in Slot /\ slots'[o][t] = slots[o][t]
  BY <1>1, <1>4 DEF Holding
<1>6. \A t \in Slot : slots'[o][t].used /\ slots'[o][t].key = k => t \in Holding(o, k)
  <2> SUFFICES ASSUME NEW t \in Slot, slots'[o][t].used, slots'[o][t].key = k PROVE t \in Holding(o, k)
    OBVIOUS
  <2>1. CASE o = n /\ t = s
    BY <1>1, <1>2, <2>1
  <2>2. CASE ~(o = n /\ t = s)
    BY <1>1, <2>2 DEF Holding
  <2> QED
    BY <2>1, <2>2
<1>7. Holding(o, k)' = Holding(o, k)
  BY <1>5, <1>6 DEF Holding
<1> QED
  BY <1>3, <1>5, <1>7 DEF Untouched

\* A slot in use is for a message that comes in pieces: it has some, not all.
LEMMA SlotHasPieces ==
    ASSUME TypeInv, SlotsFilled, NEW ids \in Ids, NetInv(ids), RoutedInv(ids),
           NEW n \in Node, NEW s \in Slot, slots[n][s].used
    PROVE  \E m \in InPieces(n) : slots[n][s].key = KeyOf(m, ids[m])
<1> DEFINE slot == slots[n][s]
<1>1. SlotsPureIn(SentFrames(ids)) /\ IdsGiven(ids)
  BY DEF NetInv
<1>2. PICK m \in Launched : slot.key = KeyOf(m, ids[m])
  BY <1>1, UsedIsSent
<1>3. CameFor(n, m, slot.hop, slot.chunk)
  BY <1>2 DEF RoutedInv
<1>4. PICK o \in Node : \E i : Link(o, m, i, n) /\ slot.chunk = Chunk(o, i)
  BY <1>3 DEF CameFor
<1>5. PICK i : Link(o, m, i, n) /\ slot.chunk = Chunk(o, i)
  BY <1>4
<1>6. PICK j \in Filled(slot) : TRUE
  BY DEF SlotsFilled
<1>7. PICK p \in Packets(ids) : /\ p.frame.key = slot.key
                                /\ p.frame.cnt = slot.cnt /\ p.frame.chunk = slot.chunk
  BY <1>1, <1>6 DEF SlotsPureIn, PureIn, SentFrames, From
<1>8. PICK k \in Launched : p.frame.key = KeyOf(k, ids[k]) /\ PieceOf(p.frame, k)
  BY PacketFacts
<1>9. k = m
  BY <1>1, <1>2, <1>7, <1>8, KeyIsOfOne
<1>10. slot.chunk # 0 /\ slot.cnt = FragmentCount(Bytes[m], slot.chunk)
  BY <1>7, <1>8, <1>9 DEF PieceOf
<1>11. slot.cnt > 1
  <2>1. slot.received = Cardinality(Filled(slot)) /\ slot.received < slot.cnt /\ slot.cnt \in Nat
    BY FramingAssumption DEF TypeInv, TypeOK, SlotAccounts, SlotRecord
  <2> HIDE DEF slot
  <2>2. IsFiniteSet(Filled(slot)) /\ Cardinality(Filled(slot)) \in Nat
    BY <2>1, FilledBounded
  <2>3. Cardinality(Filled(slot)) # 0
    BY <1>6, <2>2, FS_EmptySet
  <2> QED
    BY <2>1, <2>2, <2>3
<1>12. m \in Msg /\ i \in DOMAIN Interfaces[o]
  BY <1>5 DEF Launched, Link
<1> HIDE DEF slot
<1>13. m \in InPieces(n)
  BY <1>5, <1>10, <1>11, <1>12 DEF InPieces
<1> QED
  BY <1>2, <1>13 DEF slot

\* With a slot for every message that comes in pieces, and one, one is free.
LEMMA SlotLeft ==
    ASSUME SlotsSuffice, TypeInv, KeyInv, SlotsFilled, NEW ids \in Ids, NetInv(ids), RoutedInv(ids),
           NEW n \in Node
    PROVE  FreeSlots(n) # {}
<1> SUFFICES ASSUME FreeSlots(n) = {} PROVE FALSE
  OBVIOUS
<1> DEFINE Of(s) == CHOOSE m \in InPieces(n) : slots[n][s].key = KeyOf(m, ids[m])
           of == [s \in Slot |-> Of(s)]
<1>1. \A s \in Slot : slots[n][s].used
  BY DEF FreeSlots
<1>2. \A s \in Slot : Of(s) \in InPieces(n) /\ slots[n][s].key = KeyOf(Of(s), ids[Of(s)])
  <2> SUFFICES ASSUME NEW s \in Slot PROVE Of(s) \in InPieces(n) /\ slots[n][s].key = KeyOf(Of(s), ids[Of(s)])
    OBVIOUS
  <2>1. \E m \in InPieces(n) : slots[n][s].key = KeyOf(m, ids[m])
    BY <1>1, SlotHasPieces
  <2> QED
    BY <2>1
<1> HIDE DEF Of
<1>3. of \in [Slot -> InPieces(n)]
  BY <1>2
<1>4. IsFiniteSet(Slot) /\ Cardinality(Slot) = MaxReassemblies
  <2>1. 0 \in Int /\ MaxReassemblies - 1 \in Int /\ ~(0 > MaxReassemblies - 1)
        /\ (MaxReassemblies - 1) - 0 + 1 = MaxReassemblies
    BY ReassemblyAssumption
  <2> QED
    BY <2>1, FS_Interval DEF Slot
<1>5. IsFiniteSet(InPieces(n)) /\ Cardinality(InPieces(n)) < Cardinality(Slot)
  BY <1>4 DEF SlotsSuffice
<1>6. \E s, t \in Slot : s # t /\ of[s] = of[t]
  <2> HIDE DEF of
  <2> QED
    BY <1>3, <1>4, <1>5, FS_PigeonHole
<1>7. PICK s \in Slot, t \in Slot : s # t /\ Of(s) = Of(t)
  BY <1>6
<1> QED
  BY <1>1, <1>2, <1>7 DEF KeyInv, OneSlotPerMessage

\* The message m gets over a link, cut for chunk bytes.
Passes(m, chunk) ==
    /\ chunk \in Nat \ {0}
    /\ FragmentCount(Bytes[m], chunk) <= MaxByte
    /\ Allocation(FragmentCount(Bytes[m], chunk), chunk) <= MaxMessageBytes

LEMMA FitsPasses ==
    ASSUME NEW n \in Node, NEW m \in Msg, NEW i \in DOMAIN Interfaces[n], Fits(Interfaces[n][i], Bytes[m])
    PROVE  Passes(m, Chunk(n, i)) /\ Carries(n, i, m)
<1> DEFINE K == Chunk(n, i)
<1>1. K \in Nat /\ Bytes[m] \in Nat /\ MaxMessageBytes \in Nat
  BY InterfaceTyped, ChunkIsByte, NetworkAssumption, FramingAssumption DEF Chunk
<1>2. K # 0 /\ FragmentCount(Bytes[m], K) <= MaxByte /\ Allocation(FragmentCount(Bytes[m], K), K) <= MaxMessageBytes
  BY DEF Fits, Chunk
<1> HIDE DEF K
<1>3. FragmentCount(Bytes[m], K) \in Nat /\ Bytes[m] <= FragmentCount(Bytes[m], K) * K
  BY <1>1, <1>2, CountIsSome
<1>4. PICK all : all = FragmentCount(Bytes[m], K) * K
  OBVIOUS
<1>5. all \in Nat /\ all <= MaxMessageBytes /\ Bytes[m] <= all
  BY <1>1, <1>2, <1>3, <1>4 DEF Allocation
<1>6. Bytes[m] <= MaxMessageBytes
  BY <1>1, <1>5
<1> QED
  BY <1>1, <1>2, <1>6 DEF Passes, Carries, K

\* A piece is well formed and within what the receiver reserves.
LEMMA PieceWithin ==
    ASSUME NEW s \in Nat, NEW c \in Nat \ {0}, NEW j \in 0 .. FragmentCount(s, c) - 1
    PROVE  /\ FragmentBytes(s, c, j) \in Nat /\ FragmentBytes(s, c, j) <= c
           /\ j * c + FragmentBytes(s, c, j) <= Allocation(FragmentCount(s, c), c)
<1> DEFINE k == FragmentCount(s, c)
           rest == k - (j + 1)
<1>1. k \in Nat /\ j \in Nat
  BY CountIsSome
<1> HIDE DEF k
<1>2. rest \in Nat /\ k = j + 1 + rest
  BY <1>1 DEF k
<1> HIDE DEF rest
<1>3. j * c \in Nat /\ rest * c \in Nat /\ k * c = j * c + c + rest * c
  BY <1>1, <1>2
<1>4. PICK jc : jc = j * c
  OBVIOUS
<1>5. jc \in Nat
  BY <1>3, <1>4
<1>6. FragmentBytes(s, c, j) = IF c <= (IF s > jc THEN s - jc ELSE 0) THEN c ELSE (IF s > jc THEN s - jc ELSE 0)
  BY <1>4 DEF FragmentBytes, Least
<1>7. FragmentBytes(s, c, j) \in Nat /\ FragmentBytes(s, c, j) <= c
  BY <1>5, <1>6
<1> QED
  BY <1>3, <1>7 DEF Allocation, k

\* What is on the air for n of the message with key k, and what of its cnt
\* fragments n does not have.
ToCome(n, k) == {p \in air : p.to = n /\ p.frame.key = k}
Lacks(n, k, cnt) == {j \in 0 .. cnt - 1 : \A s \in Holding(n, k) : slots[n][s].parts[j] = NoData}

\* All of m is coming to n, cut for chunk bytes: what n lacks is on the air.
Coming(n, m, id, chunk, hop) ==
    LET k   == KeyOf(m, id)
        cnt == FragmentCount(Bytes[m], chunk)
    IN  /\ ~IsRecent(n, k)
        /\ \A s \in Holding(n, k) :
              slots[n][s].cnt = cnt /\ slots[n][s].chunk = chunk /\ slots[n][s].hop = hop
        /\ ToCome(n, k) = {Piece(n, m, id, chunk, hop, j) : j \in Lacks(n, k, cnt)}

\* A message that is coming is not all there: some of it is on the air.
LEMMA ComingIsOnAir ==
    ASSUME TypeInv, KeyInv, NEW n \in Node, NEW m \in Msg, NEW id, NEW chunk, NEW hop, Passes(m, chunk),
           Coming(n, m, id, chunk, hop)
    PROVE  air # {}
<1> DEFINE k   == KeyOf(m, id)
           cnt == FragmentCount(Bytes[m], chunk)
<1> SUFFICES ASSUME air = {} PROVE FALSE
  OBVIOUS
<1>1. cnt \in Nat \ {0}
  BY CountIsSome, NetworkAssumption DEF Passes
<1>2. Lacks(n, k, cnt) = {}
  BY DEF Coming, ToCome
<1>3. \A s \in Holding(n, k) : slots[n][s].cnt = cnt
  BY DEF Coming
<1> HIDE DEF cnt, k
<1>4. 0 \in 0 .. cnt - 1
  BY <1>1
<1>5. PICK s \in Holding(n, k) : TRUE
  BY <1>2, <1>4 DEF Lacks
<1>6. \A t \in Holding(n, k) : t = s
  BY <1>5 DEF Holding, KeyInv, OneSlotPerMessage
<1>7. s \in Slot /\ slots[n][s].used /\ slots[n][s].cnt = cnt
  BY <1>3, <1>5 DEF Holding
<1>8. Filled(slots[n][s]) = 0 .. cnt - 1
  <2>1. \A j \in 0 .. cnt - 1 : slots[n][s].parts[j] # NoData
    BY <1>2, <1>6 DEF Lacks
  <2> QED
    BY <1>7, <2>1 DEF Filled
<1>9. slots[n][s].received = Cardinality(Filled(slots[n][s])) /\ slots[n][s].received < cnt
  BY <1>7 DEF TypeInv, SlotAccounts
<1>10. Cardinality(0 .. cnt - 1) = cnt
  <2>1. 0 \in Int /\ cnt - 1 \in Int /\ ~(0 > cnt - 1) /\ (cnt - 1) - 0 + 1 = cnt
    BY <1>1
  <2> QED
    BY <2>1, FS_Interval
<1> QED
  BY <1>1, <1>8, <1>9, <1>10

LEMMA ComingKept ==
    ASSUME NEW n, NEW m, NEW id, NEW chunk, NEW hop, Coming(n, m, id, chunk, hop),
           Untouched(n, KeyOf(m, id)), ToCome(n, KeyOf(m, id))' = ToCome(n, KeyOf(m, id))
    PROVE  Coming(n, m, id, chunk, hop)'
<1> DEFINE k   == KeyOf(m, id)
           cnt == FragmentCount(Bytes[m], chunk)
<1>1. /\ Holding(n, k)' = Holding(n, k) /\ (\A s \in Holding(n, k) : slots'[n][s] = slots[n][s])
      /\ (IsRecent(n, k)' => IsRecent(n, k))
  BY DEF Untouched
<1>2. /\ ~IsRecent(n, k)
      /\ \A s \in Holding(n, k) :
            slots[n][s].cnt = cnt /\ slots[n][s].chunk = chunk /\ slots[n][s].hop = hop
      /\ ToCome(n, k) = {Piece(n, m, id, chunk, hop, j) : j \in Lacks(n, k, cnt)}
  BY DEF Coming
<1>3. Lacks(n, k, cnt)' = Lacks(n, k, cnt)
  BY <1>1 DEF Lacks
<1>4. ToCome(n, k)' = ToCome(n, k)
  OBVIOUS
<1> QED
  BY <1>1, <1>2, <1>3, <1>4 DEF Coming

\* A piece of what is coming to n is taken, and what the slot for it, if there
\* is one, was made for is what the piece is cut for.
LEMMA ComingTaken ==
    ASSUME TypeInv, NEW n \in Node, NEW m \in Launched, n # Sender[m], NEW id, NEW chunk, NEW hop,
           Passes(m, chunk), Coming(n, m, id, chunk, hop), NEW p \in ToCome(n, KeyOf(m, id))
    PROVE  LET h   == p.frame
               cnt == FragmentCount(Bytes[m], chunk)
           IN  /\ h.key = KeyOf(m, id) /\ h.hop = hop /\ h.cnt = cnt
               /\ p = Piece(n, m, id, chunk, hop, h.idx) /\ h.idx \in Lacks(n, h.key, cnt)
               /\ Takes(n, h) /\ ~TooLarge(n, h) /\ ~Disagrees(n, h)
<1> DEFINE h   == p.frame
           k   == KeyOf(m, id)
           cnt == FragmentCount(Bytes[m], chunk)
<1>1. /\ ~IsRecent(n, k)
      /\ \A s \in Holding(n, k) : slots[n][s].cnt = cnt /\ slots[n][s].chunk = chunk
      /\ p \in {Piece(n, m, id, chunk, hop, j) : j \in Lacks(n, k, cnt)}
  BY DEF Coming
<1>2. PICK j \in Lacks(n, k, cnt) : p = Piece(n, m, id, chunk, hop, j)
  BY <1>1
<1>3. /\ h.key = k /\ h.idx = j /\ h.cnt = cnt /\ h.chunk = chunk /\ h.hop = hop
      /\ h.bytes = FragmentBytes(Bytes[m], chunk, j)
      /\ h.size = WireHeaderBytes + FragmentBytes(Bytes[m], chunk, j)
  BY <1>2, PieceFields
<1>4. m \in Msg /\ Dest[m] # NoNode /\ Sender[m] \in Node /\ Bytes[m] \in Nat
  BY NetworkAssumption DEF Launched
<1>5. chunk \in Nat \ {0} /\ cnt \in Nat \ {0} /\ Allocation(cnt, chunk) <= MaxMessageBytes
  BY <1>4, CountIsSome DEF Passes
<1>6. j \in 0 .. cnt - 1
  BY <1>2 DEF Lacks
<1>7. /\ h.bytes \in Nat /\ h.bytes <= chunk
      /\ j * chunk + h.bytes <= Allocation(cnt, chunk)
  BY <1>3, <1>4, <1>5, <1>6, PieceWithin
<1>8. k.src = Sender[m] /\ k.dst = Dest[m]
  BY DEF KeyOf
<1> HIDE DEF h, k, cnt
<1>9. DecodeHeader(h)
  <2>1. h.size \in Nat /\ h.size = WireHeaderBytes + h.bytes /\ WireHeaderBytes \in Nat
    BY <1>3, <1>7, FramingAssumption
  <2>2. h.size >= WireHeaderBytes
    BY <1>7, <2>1
  <2>3. h.idx < h.cnt /\ h.cnt # 0 /\ h.chunk # 0 /\ h.bytes <= h.chunk
    BY <1>3, <1>5, <1>6, <1>7
  <2> QED
    BY <2>1, <2>2, <2>3 DEF DecodeHeader
<1>10. Takes(n, h)
  BY <1>1, <1>3, <1>4, <1>8, <1>9, NetworkAssumption DEF Takes
<1>11. ~TooLarge(n, h)
  <2>1. PICK all : all = Allocation(cnt, chunk)
    OBVIOUS
  <2>2. all \in Nat
    BY <1>5, <2>1 DEF Allocation
  <2>3. ~(all > MaxMessageBytes)
    BY <1>5, <2>1, <2>2, FramingAssumption
  <2> QED
    BY <1>3, <2>1, <2>3 DEF TooLarge
<1>12. ~Disagrees(n, h)
  <2> SUFFICES ASSUME Holding(n, k) # {} PROVE ~Disagrees(n, h)
    BY <1>3 DEF Disagrees
  <2>1. SlotFor(n, k) \in Holding(n, k)
    BY SlotForIsSlot DEF TypeInv
  <2>2. slots[n][SlotFor(n, k)].cnt = cnt /\ slots[n][SlotFor(n, k)].chunk = chunk
    BY <1>1, <2>1
  <2>3. PICK at : at = j * chunk
    OBVIOUS
  <2>4. PICK all : all = Allocation(cnt, chunk)
    OBVIOUS
  <2>5. at \in Nat /\ all \in Nat
    BY <1>5, <1>6, <2>3, <2>4 DEF Allocation
  <2>6. ~(at + h.bytes > all)
    BY <1>7, <2>3, <2>4, <2>5
  <2> QED
    BY <1>3, <2>2, <2>3, <2>4, <2>6 DEF Disagrees
<1> QED
  BY <1>2, <1>3, <1>10, <1>11, <1>12 DEF h, k, cnt

\* What the slot that a coming piece is stored in lacks then.
LEMMA LacksStored ==
    ASSUME TypeInv, KeyInv, NEW n \in Node, NEW h \in Frame, Stores(n, h)
    PROVE  /\ SlotFor(n, h.key) \in Slot
           /\ \A s \in Slot : slots[n][s].used /\ slots[n][s].key = h.key => s = SlotFor(n, h.key)
           /\ {j \in 0 .. h.cnt - 1 : SlotWith(n, h).parts[j] = NoData}
                = Lacks(n, h.key, h.cnt) \ {h.idx}
<1> DEFINE s == SlotFor(n, h.key)
           b == Base(n, h)
<1>1. s \in Slot /\ (Holding(n, h.key) # {} => s \in Holding(n, h.key))
  BY SlotForIsSlot DEF TypeInv
<1> HIDE DEF s
<1>2. \A t \in Holding(n, h.key) : t = s
  BY <1>1 DEF Holding, KeyInv, OneSlotPerMessage
<1>3. \A j \in 0 .. h.cnt - 1 : b.parts[j] = NoData <=> j \in Lacks(n, h.key, h.cnt)
  <2>1. CASE Holding(n, h.key) = {}
    BY <2>1 DEF Base, OpenSlot, Lacks
  <2>2. CASE Holding(n, h.key) # {}
    <3>1. b = slots[n][s]
      BY <2>2 DEF Base, s
    <3> QED
      BY <1>1, <1>2, <2>2, <3>1 DEF Lacks
  <2> QED
    BY <2>1, <2>2
<1> HIDE DEF b
<1>4. \A j \in 0 .. h.cnt - 1 : SlotWith(n, h).parts[j] = NoData <=> b.parts[j] = NoData /\ j # h.idx
  BY PartsStored DEF b
<1>5. Lacks(n, h.key, h.cnt) \subseteq 0 .. h.cnt - 1
  BY DEF Lacks
<1>6. {j \in 0 .. h.cnt - 1 : SlotWith(n, h).parts[j] = NoData} = Lacks(n, h.key, h.cnt) \ {h.idx}
  BY <1>3, <1>4, <1>5
<1>7. \A t \in Slot : slots[n][t].used /\ slots[n][t].key = h.key => t = s
  BY <1>2 DEF Holding
<1> QED
  BY <1>1, <1>6, <1>7 DEF s

LEMMA HopOfAll ==
    ASSUME TypeInv, NEW n \in Node, NEW h \in Frame, Stores(n, h), NEW hop, h.hop = hop,
           \A s \in Holding(n, h.key) : slots[n][s].hop = hop
    PROVE  SlotWith(n, h).hop = hop
<1>1. SlotWith(n, h).hop = Base(n, h).hop
  BY HopOfFirst
<1>2. CASE Holding(n, h.key) = {}
  BY <1>1, <1>2 DEF Base, OpenSlot
<1>3. CASE Holding(n, h.key) # {}
  <2>1. SlotFor(n, h.key) \in Holding(n, h.key)
    BY <1>3, SlotForIsSlot DEF TypeInv
  <2> QED
    BY <1>1, <1>3, <2>1 DEF Base
<1> QED
  BY <1>2, <1>3

\* A piece that is stored while others are missing: the rest is still coming.
LEMMA ComingStored ==
    ASSUME TypeInv, KeyInv, NEW n \in Node, NEW m \in Launched, n # Sender[m], NEW id, NEW chunk, NEW hop,
           Passes(m, chunk), Coming(n, m, id, chunk, hop),
           NEW p \in ToCome(n, KeyOf(m, id)), p.frame \in Frame,
           StoreFragment(n, p.frame), air' = air \ {p}
    PROVE  Coming(n, m, id, chunk, hop)'
<1> DEFINE h   == p.frame
           k   == KeyOf(m, id)
           cnt == FragmentCount(Bytes[m], chunk)
           s   == SlotFor(n, k)
           r   == SlotWith(n, h)
<1>1. /\ h.key = k /\ h.hop = hop /\ h.cnt = cnt
      /\ p = Piece(n, m, id, chunk, hop, h.idx) /\ h.idx \in Lacks(n, k, cnt)
  BY ComingTaken
<1>2. /\ ~IsRecent(n, k)
      /\ \A t \in Holding(n, k) :
            slots[n][t].cnt = cnt /\ slots[n][t].chunk = chunk /\ slots[n][t].hop = hop
      /\ ToCome(n, k) = {Piece(n, m, id, chunk, hop, j) : j \in Lacks(n, k, cnt)}
  BY DEF Coming
<1>3. Stores(n, h) /\ slots' = [slots EXCEPT ![n][SlotFor(n, h.key)] = r] /\ UNCHANGED recent
  BY DEF StoreFragment
<1>4. /\ r.used /\ r.key = h.key /\ r.cnt = h.cnt /\ r.chunk = h.chunk /\ SlotTyped(r)
  BY <1>3, SlotWithFits DEF TypeInv
<1>5. r.hop = hop
  BY <1>1, <1>2, <1>3, HopOfAll
<1>6. h.chunk = chunk
  BY <1>1, PieceFields
<1>7. /\ s \in Slot
      /\ \A t \in Slot : slots[n][t].used /\ slots[n][t].key = k => t = s
      /\ {j \in 0 .. cnt - 1 : r.parts[j] = NoData} = Lacks(n, k, cnt) \ {h.idx}
  BY <1>1, <1>3, LacksStored
<1> HIDE DEF h, k, cnt, s, r
<1>8. \A t \in Slot : slots'[n][t] = IF t = s THEN r ELSE slots[n][t]
  <2>1. slots' = [slots EXCEPT ![n][s] = r]
    BY <1>1, <1>3 DEF s
  <2> QED
    BY <1>4, <1>7, <2>1, SlotWritten DEF TypeInv
<1>9. Holding(n, k)' = {s}
  BY <1>1, <1>4, <1>7, <1>8 DEF Holding
<1>10. Lacks(n, k, cnt)' = Lacks(n, k, cnt) \ {h.idx}
  <2>1. Lacks(n, k, cnt)' = {j \in 0 .. cnt - 1 : \A t \in Holding(n, k)' : slots'[n][t].parts[j] = NoData}
    BY DEF Lacks
  <2>2. Lacks(n, k, cnt)' = {j \in 0 .. cnt - 1 : r.parts[j] = NoData}
    BY <1>7, <1>8, <1>9, <2>1
  <2> QED
    BY <1>7, <2>2
<1>11. ToCome(n, k)' = {Piece(n, m, id, chunk, hop, j) : j \in Lacks(n, k, cnt)'}
  <2>1. ToCome(n, k)' = ToCome(n, k) \ {p}
    BY DEF ToCome
  <2>2. \A j : j # h.idx => Piece(n, m, id, chunk, hop, j) # p
    <3>1. \A j : Piece(n, m, id, chunk, hop, j).frame.idx = j
      BY PieceFields
    <3> QED
      BY <1>1, <3>1
  <2> QED
    BY <1>1, <1>2, <1>10, <2>1, <2>2
<1>12. ~IsRecent(n, k)'
  BY <1>2, <1>3 DEF IsRecent
<1>13. \A t \in Holding(n, k)' :
          slots'[n][t].cnt = cnt /\ slots'[n][t].chunk = chunk /\ slots'[n][t].hop = hop
  BY <1>1, <1>4, <1>5, <1>6, <1>7, <1>8, <1>9
<1> QED
  BY <1>11, <1>12, <1>13 DEF Coming, k, cnt

\* A piece that is the last one missing: no other is on the air to n.
LEMMA ComingCompleted ==
    ASSUME TypeInv, KeyInv, NEW n \in Node, NEW m \in Launched, n # Sender[m], NEW id, NEW chunk, NEW hop,
           Passes(m, chunk), Coming(n, m, id, chunk, hop),
           NEW p \in ToCome(n, KeyOf(m, id)), p.frame \in Frame, CompleteMessage(n, p.frame)
    PROVE  ToCome(n, KeyOf(m, id)) = {p} /\ SlotWith(n, p.frame).hop = hop
<1> DEFINE h   == p.frame
           k   == KeyOf(m, id)
           cnt == FragmentCount(Bytes[m], chunk)
           r   == SlotWith(n, h)
<1>1. /\ h.key = k /\ h.hop = hop /\ h.cnt = cnt
      /\ p = Piece(n, m, id, chunk, hop, h.idx) /\ h.idx \in Lacks(n, k, cnt)
  BY ComingTaken
<1>2. /\ \A t \in Holding(n, k) : slots[n][t].hop = hop
      /\ ToCome(n, k) = {Piece(n, m, id, chunk, hop, j) : j \in Lacks(n, k, cnt)}
  BY DEF Coming
<1>3. Stores(n, h) /\ r.received = r.cnt
  BY DEF CompleteMessage
<1>4. r.cnt = cnt /\ r.received = Cardinality(Filled(r)) /\ cnt \in Nat
  BY <1>1, <1>3, SlotWithFits, FrameTyped, FramingAssumption DEF TypeInv
<1>5. r.hop = hop
  BY <1>1, <1>2, <1>3, HopOfAll
<1>6. {j \in 0 .. cnt - 1 : r.parts[j] = NoData} = Lacks(n, k, cnt) \ {h.idx}
  BY <1>1, <1>3, LacksStored
<1> HIDE DEF h, k, cnt, r
<1>7. Filled(r) = 0 .. cnt - 1
  BY <1>3, <1>4, FilledBounded
<1>8. Lacks(n, k, cnt) \subseteq {h.idx}
  <2>1. {j \in 0 .. cnt - 1 : r.parts[j] = NoData} = {}
    BY <1>4, <1>7 DEF Filled
  <2> QED
    BY <1>6, <2>1
<1>9. ToCome(n, k) = {p}
  BY <1>1, <1>2, <1>8
<1> QED
  BY <1>5, <1>9 DEF h, k, r

\* Where nothing of m has come yet, all that is sent to there is coming.
LEMMA ComingStarts ==
    ASSUME NEW n, NEW m, NEW id, NEW chunk, NEW hop,
           Holding(n, KeyOf(m, id))' = {}, ~IsRecent(n, KeyOf(m, id))',
           ToCome(n, KeyOf(m, id))' = Pieces(n, m, id, chunk, hop)
    PROVE  Coming(n, m, id, chunk, hop)'
<1> DEFINE k   == KeyOf(m, id)
           cnt == FragmentCount(Bytes[m], chunk)
<1>1. Holding(n, k)' = {} /\ ~IsRecent(n, k)' /\ ToCome(n, k)' = Pieces(n, m, id, chunk, hop)
  OBVIOUS
<1>2. Lacks(n, k, cnt)' = 0 .. cnt - 1
  BY <1>1 DEF Lacks
<1>3. ToCome(n, k)' = {Piece(n, m, id, chunk, hop, j) : j \in Lacks(n, k, cnt)'}
  BY <1>1, <1>2 DEF Pieces
<1> QED
  BY <1>1, <1>3 DEF Coming

\* What is sent over a link that m gets over is all its pieces.
LEMMA SentOverLink ==
    ASSUME NEW n \in Node, NEW m \in Msg, NEW id, NEW hop, NEW i, NEW d, Link(n, m, i, d),
           Fits(Interfaces[n][i], Bytes[m])
    PROVE  Pieces(d, m, id, Chunk(n, i), hop) \subseteq SendFramed(n, KeyOf(m, id), m, Bytes[m], hop)
<1>1. i \in DOMAIN Interfaces[n]
  BY DEF Link
<1>2. Carries(n, i, m)
  BY <1>1, FitsPasses
<1>3. SendVia(Interfaces[n][i], {d}, KeyOf(m, id), m, Bytes[m], hop) = Pieces(d, m, id, Chunk(n, i), hop)
  BY <1>1, <1>2, SendViaIs
<1> QED
  BY <1>3, SendFramedIs

LEMMA PiecesGoTo ==
    ASSUME NEW d, NEW m, NEW id, NEW chunk, NEW hop, NEW q \in Pieces(d, m, id, chunk, hop)
    PROVE  q.to = d /\ q.frame.key = KeyOf(m, id)
<1>1. PICK j : q = Piece(d, m, id, chunk, hop, j)
  BY DEF Pieces
<1> QED
  BY <1>1, PieceFields

\* A message for a node goes to one node from here.
LEMMA SentOneWay ==
    ASSUME OneWay, NEW n \in Node, NEW m \in Msg, Dest[m] # BroadcastNode, NEW id, NEW hop,
           NEW d \in NextHops(n, Dest[m], Bytes[m])
    PROVE  \E i : /\ Link(n, m, i, d) /\ Fits(Interfaces[n][i], Bytes[m])
                  /\ SendFramed(n, KeyOf(m, id), m, Bytes[m], hop) = Pieces(d, m, id, Chunk(n, i), hop)
<1>1. PICK i : Link(n, m, i, d) /\ Fits(Interfaces[n][i], Bytes[m])
  BY NextHopsAre
<1>2. Pieces(d, m, id, Chunk(n, i), hop) \subseteq SendFramed(n, KeyOf(m, id), m, Bytes[m], hop)
  BY <1>1, SentOverLink
<1>3. ASSUME NEW q \in SendFramed(n, KeyOf(m, id), m, Bytes[m], hop)
      PROVE  q \in Pieces(d, m, id, Chunk(n, i), hop)
  <2>1. PICK j : Link(n, m, j, q.to) /\ q \in Pieces(q.to, m, id, Chunk(n, j), hop)
    BY SentOver
  <2>2. j = i
    BY <1>1, <2>1 DEF Link
  <2>3. q.to \in NextHops(n, Dest[m], Bytes[m])
    BY <1>1, <2>1, <2>2, NextHopsAre
  <2>4. q.to = d
    BY <2>3 DEF OneWay
  <2> QED
    BY <2>1, <2>2, <2>4
<1>4. SendFramed(n, KeyOf(m, id), m, Bytes[m], hop) = Pieces(d, m, id, Chunk(n, i), hop)
  BY <1>2, <1>3
<1> QED
  BY <1>1, <1>4

\* A broadcast comes to a neighbour over one link.
LEMMA SentToNeighbour ==
    ASSUME BroadcastOnce, NEW n \in Node, NEW m \in Msg, Dest[m] = BroadcastNode, NEW id, NEW hop,
           NEW i, NEW d, Link(n, m, i, d), Fits(Interfaces[n][i], Bytes[m])
    PROVE  {q \in SendFramed(n, KeyOf(m, id), m, Bytes[m], hop) : q.to = d} = Pieces(d, m, id, Chunk(n, i), hop)
<1>1. Pieces(d, m, id, Chunk(n, i), hop) \subseteq SendFramed(n, KeyOf(m, id), m, Bytes[m], hop)
  BY SentOverLink
<1>2. \A q \in Pieces(d, m, id, Chunk(n, i), hop) : q.to = d
  BY PiecesGoTo
<1>3. ASSUME NEW q \in SendFramed(n, KeyOf(m, id), m, Bytes[m], hop), q.to = d
      PROVE  q \in Pieces(d, m, id, Chunk(n, i), hop)
  <2>1. PICK j : Link(n, m, j, q.to) /\ q \in Pieces(q.to, m, id, Chunk(n, j), hop)
    BY SentOver
  <2>2. j = i
    BY <1>3, <2>1 DEF Link, BroadcastOnce
  <2> QED
    BY <1>3, <2>1, <2>2
<1> QED
  BY <1>1, <1>2, <1>3

\* What is sent on of a message that was put together is sent like the first
\* time, with a hop less.
LEMMA ForwardsAll ==
    ASSUME TypeInv, NEW ids \in Ids, NetInv(ids), NEW p \in air, CompleteMessage(p.to, p.frame),
           NEW m \in Launched, p.frame.key = KeyOf(m, ids[m]), Dest[m] \notin {p.to, BroadcastNode},
           NEW hop, SlotWith(p.to, p.frame).hop = hop, hop # 0
    PROVE  Forwards(p.to, p.frame) = SendFramed(p.to, KeyOf(m, ids[m]), m, Bytes[m], hop - 1)
<1> DEFINE n == p.to
           h == p.frame
<1>1. PICK c : c = MessageOf(SlotWith(n, h))
  OBVIOUS
<1>2. Stores(n, h) /\ SlotWith(n, h).received = SlotWith(n, h).cnt /\ ProcessInboundPacket(n, h)
  BY DEF CompleteMessage, ProcessInboundPacket
<1>3. c.key = KeyOf(m, ids[m]) /\ ContentOf(c) = m /\ c.total = Bytes[m] /\ c.hop = hop
  BY <1>1, <1>2, CompletesOne
<1>4. Forwards(n, h) = Forwarded(n, c)
  BY <1>1, <1>2 DEF Forwards, Completes
<1>5. c.key.dst = Dest[m]
  BY <1>3 DEF KeyOf
<1> QED
  BY <1>3, <1>4, <1>5 DEF Forwarded

\* A way for m: k links that it gets over, from its sender to its destination,
\* by different nodes.
Way(m, w, k) ==
    /\ w \in [0 .. k -> Node]
    /\ w[0] = Sender[m] /\ w[k] = Dest[m]
    /\ \A i \in 1 .. k : w[i] \in NextHops(w[i - 1], Dest[m], Bytes[m])
    /\ \A i, j \in 0 .. k : w[i] = w[j] => i = j

OnAir(k) == {p \in air : p.frame.key = k}

\* Nothing of m has come to the nodes of its way from the j-th on.
Ahead(m, id, w, k, j) ==
    \A t \in j .. k : Holding(w[t], KeyOf(m, id)) = {} /\ ~IsRecent(w[t], KeyOf(m, id))

\* m is on its way: all of it is coming to the j-th node.
At(m, id, w, k, j) ==
    /\ \E i : /\ Link(w[j - 1], m, i, w[j]) /\ Fits(Interfaces[w[j - 1]][i], Bytes[m])
              /\ Coming(w[j], m, id, Chunk(w[j - 1], i), DefaultHopLimit - j + 1)
    /\ \A p \in OnAir(KeyOf(m, id)) : p.to = w[j]
    /\ Ahead(m, id, w, k, j + 1)

\* m has been completed where its ways lead, or is on its way there.
Arrives(m, id) ==
    IF Dest[m] = BroadcastNode
    THEN \A n \in Node : \A i : Link(Sender[m], m, i, n) /\ Fits(Interfaces[Sender[m]][i], Bytes[m]) =>
            m \in CompletedAt(n) \/ Coming(n, m, id, Chunk(Sender[m], i), DefaultHopLimit)
    ELSE \A k \in 1 .. DefaultHopLimit + 1 : \A w : Way(m, w, k) =>
            m \in CompletedAt(Dest[m]) \/ \E j \in 1 .. k : At(m, id, w, k, j)

LEMMA WayTyped ==
    ASSUME NEW m \in Msg, NEW k \in Nat, NEW w, Way(m, w, k), NEW j \in 1 .. k
    PROVE  /\ j \in 0 .. k /\ j - 1 \in 0 .. k
           /\ w[j] \in Node /\ w[j - 1] \in Node /\ w[j] \in NextHops(w[j - 1], Dest[m], Bytes[m])
           /\ w[j] # Sender[m] /\ Dest[m] \in Node /\ Dest[m] # BroadcastNode
<1>1. j \in 0 .. k /\ j - 1 \in 0 .. k /\ 0 \in 0 .. k /\ k \in 0 .. k /\ j # 0
  OBVIOUS
<1>2. w \in [0 .. k -> Node]
  BY DEF Way
<1>3. w[j] \in Node /\ w[j - 1] \in Node /\ w[k] \in Node
  BY <1>1, <1>2
<1>4. w[j] # Sender[m] /\ Dest[m] \in Node
  BY <1>1, <1>3 DEF Way
<1>5. Dest[m] # BroadcastNode
  BY <1>4, NetworkAssumption
<1> QED
  BY <1>1, <1>3, <1>4, <1>5 DEF Way

\* What is sent to the next node of the way, where nothing of m has come yet,
\* is on its way.
LEMMA StageStarts ==
    ASSUME OneWay, NEW m \in Msg, NEW id, NEW k \in Nat, NEW w, Way(m, w, k), NEW j \in 1 .. k,
           OnAir(KeyOf(m, id))' = SendFramed(w[j - 1], KeyOf(m, id), m, Bytes[m], DefaultHopLimit - j + 1),
           Ahead(m, id, w, k, j)'
    PROVE  At(m, id, w, k, j)'
<1> DEFINE key == KeyOf(m, id)
           hop == DefaultHopLimit - j + 1
<1>1. /\ w[j] \in Node /\ w[j - 1] \in Node /\ w[j] \in NextHops(w[j - 1], Dest[m], Bytes[m])
      /\ Dest[m] # BroadcastNode
  BY WayTyped
<1> HIDE DEF hop
<1>2. PICK i : /\ Link(w[j - 1], m, i, w[j]) /\ Fits(Interfaces[w[j - 1]][i], Bytes[m])
               /\ SendFramed(w[j - 1], key, m, Bytes[m], hop) = Pieces(w[j], m, id, Chunk(w[j - 1], i), hop)
  <2>1. PICK o \in Node, d \in Node : o = w[j - 1] /\ d = w[j]
    BY <1>1
  <2>2. \E i : /\ Link(o, m, i, d) /\ Fits(Interfaces[o][i], Bytes[m])
               /\ SendFramed(o, key, m, Bytes[m], hop) = Pieces(d, m, id, Chunk(o, i), hop)
    BY <1>1, <2>1, SentOneWay
  <2> QED
    BY <2>1, <2>2
<1>3. OnAir(key)' = Pieces(w[j], m, id, Chunk(w[j - 1], i), hop)
  BY <1>2 DEF hop
<1>4. \A q \in Pieces(w[j], m, id, Chunk(w[j - 1], i), hop) : q.to = w[j]
  BY PiecesGoTo
<1>5. ToCome(w[j], key)' = Pieces(w[j], m, id, Chunk(w[j - 1], i), hop)
  <2>1. ToCome(w[j], key)' = {q \in OnAir(key)' : q.to = w[j]}
    BY DEF ToCome, OnAir
  <2> QED
    BY <1>3, <1>4, <2>1
<1>6. Holding(w[j], key)' = {} /\ ~IsRecent(w[j], key)'
  <2>1. j \in j .. k
    OBVIOUS
  <2> QED
    BY <2>1 DEF Ahead
<1>7. Coming(w[j], m, id, Chunk(w[j - 1], i), hop)'
  BY <1>5, <1>6, ComingStarts
<1>8. Ahead(m, id, w, k, j + 1)'
  <2>1. \A t \in j + 1 .. k : t \in j .. k
    OBVIOUS
  <2> QED
    BY <2>1 DEF Ahead
<1>9. \A q \in OnAir(key)' : q.to = w[j]
  BY <1>3, <1>4
<1> HIDE DEF key
<1> QED
  BY <1>2, <1>7, <1>8, <1>9 DEF At, hop, key

\* What does not touch m leaves it where it is.
LEMMA ArrivesUntouched ==
    ASSUME NEW m \in Msg, NEW id, Arrives(m, id),
           \A o \in Node : Untouched(o, KeyOf(m, id)), OnAir(KeyOf(m, id))' = OnAir(KeyOf(m, id)),
           \A o \in Node : CompletedAt(o) \subseteq CompletedAt(o)'
    PROVE  Arrives(m, id)'
<1> DEFINE key == KeyOf(m, id)
<1>1. \A o : ToCome(o, key)' = ToCome(o, key)
  BY DEF ToCome, OnAir
<1>2. ASSUME NEW n \in Node, NEW chunk, NEW hop, Coming(n, m, id, chunk, hop)
      PROVE  Coming(n, m, id, chunk, hop)'
  BY <1>1, <1>2, ComingKept
<1>3. CASE Dest[m] = BroadcastNode
  <2>1. ASSUME NEW n \in Node, NEW i, Link(Sender[m], m, i, n), Fits(Interfaces[Sender[m]][i], Bytes[m])
        PROVE  m \in CompletedAt(n)' \/ Coming(n, m, id, Chunk(Sender[m], i), DefaultHopLimit)'
    <3>1. m \in CompletedAt(n) \/ Coming(n, m, id, Chunk(Sender[m], i), DefaultHopLimit)
      BY <1>3, <2>1 DEF Arrives
    <3> QED
      BY <1>2, <3>1
  <2> QED
    BY <1>3, <2>1 DEF Arrives
<1>4. CASE Dest[m] # BroadcastNode
  <2>1. ASSUME NEW k \in 1 .. DefaultHopLimit + 1, NEW w, Way(m, w, k)
        PROVE  m \in CompletedAt(Dest[m])' \/ \E j \in 1 .. k : At(m, id, w, k, j)'
    <3>1. k \in Nat /\ k \in 1 .. k
      OBVIOUS
    <3>2. CASE m \in CompletedAt(Dest[m])
      BY <2>1, <3>1, <3>2, WayTyped
    <3>3. CASE m \notin CompletedAt(Dest[m])
      <4>1. PICK j \in 1 .. k : At(m, id, w, k, j)
        BY <1>4, <2>1, <3>3 DEF Arrives
      <4>2. w[j] \in Node
        BY <2>1, <3>1, WayTyped
      <4>3. PICK i : /\ Link(w[j - 1], m, i, w[j]) /\ Fits(Interfaces[w[j - 1]][i], Bytes[m])
                     /\ Coming(w[j], m, id, Chunk(w[j - 1], i), DefaultHopLimit - j + 1)
        BY <4>1 DEF At
      <4>4. Coming(w[j], m, id, Chunk(w[j - 1], i), DefaultHopLimit - j + 1)'
        BY <1>2, <4>2, <4>3
      <4>5. \A q \in OnAir(key)' : q.to = w[j]
        BY <4>1 DEF At
      <4>6. Ahead(m, id, w, k, j + 1)'
        <5>1. \A t \in j + 1 .. k : w[t] \in Node
          BY <2>1, <3>1 DEF Way
        <5> QED
          BY <4>1, <5>1 DEF At, Ahead, Untouched
      <4> HIDE DEF key
      <4>7. At(m, id, w, k, j)'
        BY <4>3, <4>4, <4>5, <4>6 DEF At, key
      <4> QED
        BY <4>7
    <3> QED
      BY <3>2, <3>3
  <2> QED
    BY <1>4, <2>1 DEF Arrives
<1> QED
  BY <1>3, <1>4

\* What receiving a packet does not touch.
LEMMA ReceiveUntouched ==
    ASSUME TypeInv, NEW ids \in Ids, NetInv(ids), NEW p \in air, ReceiveOnce(p), FreeSlots(p.to) # {}
    PROVE  /\ \A o \in Node : \A k : o # p.to \/ k # p.frame.key => Untouched(o, k)
           /\ \A k : k # p.frame.key => OnAir(k)' = OnAir(k)
           /\ \A o \in Node : CompletedAt(o) \subseteq CompletedAt(o)'
<1> DEFINE n == p.to
           h == p.frame
<1>1. n \in Node /\ h \in Frame
  BY PacketFacts DEF NetInv
<1>2. /\ ProcessInboundPacket(n, h) \/ (~Takes(n, h) /\ UNCHANGED vars)
      /\ air' = (air \ {p}) \union Forwards(n, h)
  BY DEF ReceiveOnce
<1>3. CASE ProcessInboundPacket(n, h)
  <2>1. ASSUME NEW o \in Node, NEW k, o # n \/ k # h.key PROVE Untouched(o, k)
    BY <1>1, <1>3, <2>1, OthersUntouched
  <2>2. ASSUME NEW q \in Forwards(n, h) PROVE q.frame.key = h.key
    <3>1. PICK m \in Launched : h.key = KeyOf(m, ids[m])
      BY PacketFacts DEF NetInv
    <3>2. PICK hop : q \in SendFramed(n, KeyOf(m, ids[m]), m, Bytes[m], hop)
      BY <1>3, <3>1, ForwardsAre
    <3> QED
      BY <1>1, <3>1, <3>2, SendFramedLinks
  <2>3. ASSUME NEW k, k # h.key PROVE OnAir(k)' = OnAir(k)
    BY <1>2, <2>2, <2>3 DEF OnAir
  <2>4. PICK c : c = MessageOf(SlotWith(n, h))
    OBVIOUS
  <2>5. ASSUME NEW o \in Node PROVE CompletedAt(o) \subseteq CompletedAt(o)'
    <3>1. CASE CompleteMessage(n, h)
      BY <1>1, <1>3, <2>4, <3>1, CompletedAfter
    <3>2. CASE ~CompleteMessage(n, h)
      <4>1. UNCHANGED completed
        BY <1>1, <1>3, <2>4, <3>2, CompletedAfter
      <4> QED
        BY <4>1 DEF CompletedAt
    <3> QED
      BY <3>1, <3>2
  <2> QED
    BY <2>1, <2>3, <2>5
<1>4. CASE ~Takes(n, h) /\ UNCHANGED vars
  <2>1. air' = air \ {p}
    BY <1>2, <1>4, NotTakenNotSentOn
  <2>2. \A k : k # h.key => OnAir(k)' = OnAir(k)
    BY <2>1 DEF OnAir
  <2>3. \A o, k : Untouched(o, k)
    BY <1>4 DEF vars, Untouched, Holding, IsRecent
  <2>4. \A o : CompletedAt(o)' = CompletedAt(o)
    BY <1>4 DEF vars, CompletedAt
  <2> QED
    BY <2>2, <2>3, <2>4
<1> QED
  BY <1>2, <1>3, <1>4

\* A piece of m that is received where m is coming: the rest is still coming,
\* or it was the last and m is completed, and sent on if it is to be.
LEMMA ComingReceived ==
    ASSUME TypeInv, KeyInv, NEW ids \in Ids, NetInv(ids), NEW p \in air, ReceiveOnce(p),
           NEW m \in Launched, p.frame.key = KeyOf(m, ids[m]), p.to # Sender[m], NEW chunk, NEW hop,
           Passes(m, chunk), Coming(p.to, m, ids[m], chunk, hop)
    PROVE  \/ Coming(p.to, m, ids[m], chunk, hop)' /\ air' = air \ {p}
           \/ /\ CompleteMessage(p.to, p.frame) /\ SlotWith(p.to, p.frame).hop = hop
              /\ ToCome(p.to, p.frame.key) = {p} /\ m \in CompletedAt(p.to)'
              /\ air' = (air \ {p}) \union Forwards(p.to, p.frame)
<1> DEFINE n == p.to
           h == p.frame
           key == KeyOf(m, ids[m])
<1>1. n \in Node /\ h \in Frame
  BY PacketFacts DEF NetInv
<1>2. /\ ProcessInboundPacket(n, h) \/ (~Takes(n, h) /\ UNCHANGED vars)
      /\ air' = (air \ {p}) \union Forwards(n, h)
  BY DEF ReceiveOnce
<1>3. p \in ToCome(n, key)
  BY DEF ToCome
<1>4. Takes(n, h) /\ ~TooLarge(n, h) /\ ~Disagrees(n, h)
  BY <1>1, <1>3, ComingTaken
<1>5. StoreFragment(n, h) \/ CompleteMessage(n, h)
  BY <1>2, <1>4 DEF ProcessInboundPacket, RejectOversized, ResetMismatched
<1>6. CASE StoreFragment(n, h)
  <2>1. Forwards(n, h) = {}
    BY <1>6 DEF Forwards, Completes, StoreFragment
  <2>2. air' = air \ {p}
    BY <1>2, <2>1
  <2> QED
    BY <1>1, <1>3, <1>6, <2>2, ComingStored
<1>7. CASE CompleteMessage(n, h)
  <2>1. ToCome(n, key) = {p} /\ SlotWith(n, h).hop = hop
    BY <1>1, <1>3, <1>7, ComingCompleted
  <2>2. PICK c : c = MessageOf(SlotWith(n, h))
    OBVIOUS
  <2>3. Stores(n, h) /\ SlotWith(n, h).received = SlotWith(n, h).cnt /\ ProcessInboundPacket(n, h)
    BY <1>7 DEF CompleteMessage, ProcessInboundPacket
  <2>4. ContentOf(c) = m
    BY <2>2, <2>3, CompletesOne
  <2>5. CompletedAt(n)' = CompletedAt(n) \union {ContentOf(c)}
    BY <1>1, <1>7, <2>2, <2>3, CompletedAfter
  <2> QED
    BY <1>2, <1>7, <2>1, <2>4, <2>5
<1> QED
  BY <1>5, <1>6, <1>7

\* A packet of m that is received where m is: m stays there, or has come to
\* the end of its way, or goes one node on.
LEMMA AtReceived ==
    ASSUME OneWay, TypeInv, KeyInv, NEW ids \in Ids, NetInv(ids),
           NEW p \in air, ReceiveOnce(p), FreeSlots(p.to) # {},
           NEW m \in Launched, p.frame.key = KeyOf(m, ids[m]),
           NEW k \in 1 .. DefaultHopLimit + 1, NEW w, Way(m, w, k),
           NEW j \in 1 .. k, At(m, ids[m], w, k, j)
    PROVE  m \in CompletedAt(Dest[m])' \/ \E t \in 1 .. k : At(m, ids[m], w, k, t)'
<1> DEFINE n   == p.to
           h   == p.frame
           id  == ids[m]
           key == KeyOf(m, id)
           hop == DefaultHopLimit - j + 1
<1>1. /\ w[j] \in Node /\ w[j - 1] \in Node /\ w[j] # Sender[m]
      /\ Dest[m] # BroadcastNode /\ m \in Msg /\ k \in Nat /\ j \in 0 .. k /\ k \in 0 .. k
  <2>1. m \in Msg /\ k \in Nat /\ j \in 0 .. k /\ k \in 0 .. k
    BY LimitIsNat DEF Launched
  <2> QED
    BY <2>1, WayTyped
<1>2. /\ \A q \in OnAir(key) : q.to = w[j]
      /\ Ahead(m, id, w, k, j + 1)
  BY DEF At
<1>3. n = w[j] /\ p \in OnAir(key)
  BY <1>2 DEF OnAir
<1>4. PICK i : /\ Link(w[j - 1], m, i, w[j]) /\ Fits(Interfaces[w[j - 1]][i], Bytes[m])
               /\ Coming(w[j], m, id, Chunk(w[j - 1], i), hop)
  BY DEF At
<1>5. Passes(m, Chunk(w[j - 1], i))
  <2>1. i \in DOMAIN Interfaces[w[j - 1]]
    BY <1>4 DEF Link
  <2> QED
    BY <1>1, <1>4, <2>1, FitsPasses
<1>6. PICK chunk : chunk = Chunk(w[j - 1], i)
  OBVIOUS
<1>7. Ahead(m, id, w, k, j + 1)'
  <2>1. ASSUME NEW t \in j + 1 .. k PROVE w[t] \in Node /\ w[t] # w[j]
    <3>1. t \in 0 .. k /\ t # j
      OBVIOUS
    <3> QED
      BY <1>1, <3>1 DEF Way
  <2>2. \A t \in j + 1 .. k : Untouched(w[t], key)
    BY <1>3, <2>1, ReceiveUntouched
  <2>3. \A t \in j + 1 .. k : Holding(w[t], key) = {} /\ ~IsRecent(w[t], key)
    BY <1>2 DEF Ahead
  <2> HIDE DEF key
  <2>4. \A t \in j + 1 .. k : Holding(w[t], key)' = {} /\ ~IsRecent(w[t], key)'
    BY <2>2, <2>3 DEF Untouched
  <2> QED
    BY <2>4 DEF Ahead, key
<1>8. \/ Coming(n, m, id, chunk, hop)' /\ air' = air \ {p}
      \/ /\ CompleteMessage(n, h) /\ SlotWith(n, h).hop = hop
         /\ ToCome(n, h.key) = {p} /\ m \in CompletedAt(n)'
         /\ air' = (air \ {p}) \union Forwards(n, h)
  <2>1. Passes(m, chunk) /\ Coming(p.to, m, ids[m], chunk, hop) /\ p.to # Sender[m]
    BY <1>1, <1>3, <1>4, <1>5, <1>6
  <2> HIDE DEF hop
  <2> QED
    BY <2>1, ComingReceived
<1>9. CASE Coming(n, m, id, chunk, hop)' /\ air' = air \ {p}
  <2>1. \A q \in OnAir(key)' : q.to = w[j]
    BY <1>2, <1>9 DEF OnAir
  <2>2. Coming(w[j], m, id, Chunk(w[j - 1], i), hop)'
    BY <1>3, <1>6, <1>9
  <2> HIDE DEF key
  <2>3. At(m, id, w, k, j)'
    BY <1>4, <1>7, <2>1, <2>2 DEF At, key
  <2> QED
    BY <2>3
<1>10. CASE /\ CompleteMessage(n, h) /\ SlotWith(n, h).hop = hop
            /\ ToCome(n, h.key) = {p} /\ m \in CompletedAt(n)'
            /\ air' = (air \ {p}) \union Forwards(n, h)
  <2>1. CASE j = k
    BY <1>3, <1>10, <2>1 DEF Way
  <2>2. CASE j # k
    <3>1. hop # 0 /\ hop - 1 = DefaultHopLimit - (j + 1) + 1 /\ j + 1 \in 1 .. k /\ j + 1 - 1 = j
      BY <2>2, LimitIsNat
    <3>2. Dest[m] \notin {n, BroadcastNode}
      BY <1>1, <1>3, <2>2 DEF Way
    <3> HIDE DEF hop
    <3>3. Forwards(n, h) = SendFramed(n, key, m, Bytes[m], hop - 1)
      BY <1>10, <3>1, <3>2, ForwardsAll
    <3>4. \A q \in Forwards(n, h) : q.frame.key = key
      BY <1>1, <1>3, <3>3, SendFramedLinks
    <3>5. OnAir(key)' = Forwards(n, h)
      <4>1. OnAir(key) \subseteq {p}
        BY <1>2, <1>3, <1>10 DEF OnAir, ToCome
      <4>2. OnAir(key)' = {q \in (air \ {p}) \union Forwards(n, h) : q.frame.key = key}
        BY <1>10 DEF OnAir
      <4> QED
        BY <3>4, <4>1, <4>2 DEF OnAir
    <3>6. PICK t : t = j + 1
      OBVIOUS
    <3>7. At(m, id, w, k, t)'
      <4>1. t \in 1 .. k /\ t - 1 = j /\ DefaultHopLimit - t + 1 = hop - 1
        BY <3>1, <3>6
      <4>2. OnAir(KeyOf(m, id))' = SendFramed(w[t - 1], KeyOf(m, id), m, Bytes[m], DefaultHopLimit - t + 1)
        BY <1>3, <3>3, <3>5, <4>1
      <4>3. Ahead(m, id, w, k, t)'
        BY <1>7, <3>6
      <4> HIDE DEF key, id
      <4> QED
        BY <1>1, <4>1, <4>2, <4>3, StageStarts
    <3> QED
      BY <3>1, <3>6, <3>7
  <2> QED
    BY <2>1, <2>2
<1> QED
  BY <1>8, <1>9, <1>10

\* A packet of a broadcast that is received: it stays on its way to the others.
LEMMA BroadcastReceived ==
    ASSUME BroadcastOnce, TypeInv, KeyInv, NEW ids \in Ids, NetInv(ids),
           NEW p \in air, ReceiveOnce(p), FreeSlots(p.to) # {},
           NEW m \in Launched, p.frame.key = KeyOf(m, ids[m]), Dest[m] = BroadcastNode,
           NEW n \in Node, NEW i, Link(Sender[m], m, i, n), Fits(Interfaces[Sender[m]][i], Bytes[m]),
           Coming(n, m, ids[m], Chunk(Sender[m], i), DefaultHopLimit)
    PROVE  m \in CompletedAt(n)' \/ Coming(n, m, ids[m], Chunk(Sender[m], i), DefaultHopLimit)'
<1> DEFINE key   == KeyOf(m, ids[m])
           chunk == Chunk(Sender[m], i)
<1>1. Sender[m] \in Node /\ m \in Msg /\ i \in DOMAIN Interfaces[Sender[m]] /\ n # Sender[m]
  <2>1. m \in Msg /\ Sender[m] \in Node
    BY NetworkAssumption DEF Launched
  <2>2. /\ i \in DOMAIN Interfaces[Sender[m]] /\ Interfaces[Sender[m]][i].broadcast
        /\ n \in Interfaces[Sender[m]][i].peers
    BY DEF Link
  <2> QED
    BY <2>1, <2>2 DEF BroadcastOnce
<1>2. Passes(m, chunk)
  BY <1>1, FitsPasses
<1> HIDE DEF chunk
<1>3. Coming(n, m, ids[m], chunk, DefaultHopLimit)
  BY DEF chunk
<1>4. CASE p.to = n
  <2>1. Coming(p.to, m, ids[m], chunk, DefaultHopLimit) /\ p.to # Sender[m]
    BY <1>1, <1>3, <1>4
  <2>2. \/ Coming(p.to, m, ids[m], chunk, DefaultHopLimit)'
        \/ m \in CompletedAt(p.to)'
    BY <1>2, <2>1, ComingReceived
  <2> QED
    BY <1>4, <2>2 DEF chunk
<1>5. CASE p.to # n
  <2>1. Untouched(n, key)
    BY <1>5, ReceiveUntouched
  <2>2. Forwards(p.to, p.frame) = {}
    <3>1. CASE ProcessInboundPacket(p.to, p.frame)
      BY <3>1, ForwardsAre
    <3>2. CASE ~Takes(p.to, p.frame)
      BY <3>2, NotTakenNotSentOn
    <3> QED
      BY <3>1, <3>2 DEF ReceiveOnce
  <2>3. ToCome(n, key)' = ToCome(n, key)
    BY <1>5, <2>2 DEF ToCome, ReceiveOnce
  <2>4. Coming(n, m, ids[m], chunk, DefaultHopLimit)'
    BY <1>3, <2>1, <2>3, ComingKept
  <2> QED
    BY <2>4 DEF chunk
<1> QED
  BY <1>4, <1>5

LEMMA ArrivesReceived ==
    ASSUME OneWay, BroadcastOnce, TypeInv, KeyInv, NEW ids \in Ids, NetInv(ids),
           NEW p \in air, ReceiveOnce(p), FreeSlots(p.to) # {},
           NEW m \in Launched, Arrives(m, ids[m])
    PROVE  Arrives(m, ids[m])'
<1>1. \A o \in Node : CompletedAt(o) \subseteq CompletedAt(o)'
  BY ReceiveUntouched
<1>2. CASE p.frame.key # KeyOf(m, ids[m])
  <2>1. /\ \A o \in Node : Untouched(o, KeyOf(m, ids[m]))
        /\ OnAir(KeyOf(m, ids[m]))' = OnAir(KeyOf(m, ids[m]))
    BY <1>2, ReceiveUntouched
  <2>2. m \in Msg
    BY DEF Launched
  <2> QED
    BY <1>1, <2>1, <2>2, ArrivesUntouched
<1>3. CASE p.frame.key = KeyOf(m, ids[m]) /\ Dest[m] = BroadcastNode
  <2>1. ASSUME NEW n \in Node, NEW i, Link(Sender[m], m, i, n), Fits(Interfaces[Sender[m]][i], Bytes[m])
        PROVE  m \in CompletedAt(n)' \/ Coming(n, m, ids[m], Chunk(Sender[m], i), DefaultHopLimit)'
    <3>1. m \in CompletedAt(n) \/ Coming(n, m, ids[m], Chunk(Sender[m], i), DefaultHopLimit)
      BY <1>3, <2>1 DEF Arrives
    <3>2. CASE m \in CompletedAt(n)
      BY <1>1, <3>2
    <3>3. CASE Coming(n, m, ids[m], Chunk(Sender[m], i), DefaultHopLimit)
      BY <1>3, <2>1, <3>3, BroadcastReceived
    <3> QED
      BY <3>1, <3>2, <3>3
  <2> QED
    BY <1>3, <2>1 DEF Arrives
<1>4. CASE p.frame.key = KeyOf(m, ids[m]) /\ Dest[m] # BroadcastNode
  <2>1. ASSUME NEW k \in 1 .. DefaultHopLimit + 1, NEW w, Way(m, w, k)
        PROVE  m \in CompletedAt(Dest[m])' \/ \E j \in 1 .. k : At(m, ids[m], w, k, j)'
    <3>1. CASE m \in CompletedAt(Dest[m])
      <4>1. m \in Msg /\ k \in Nat /\ k \in 1 .. k
        BY LimitIsNat DEF Launched
      <4>2. Dest[m] \in Node
        BY <2>1, <4>1, WayTyped
      <4> QED
        BY <1>1, <3>1, <4>2
    <3>2. CASE m \notin CompletedAt(Dest[m])
      <4>1. PICK j \in 1 .. k : At(m, ids[m], w, k, j)
        BY <1>4, <2>1, <3>2 DEF Arrives
      <4> QED
        BY <1>4, <2>1, <4>1, AtReceived
    <3> QED
      BY <3>1, <3>2
  <2> QED
    BY <1>4, <2>1 DEF Arrives
<1> QED
  BY <1>2, <1>3, <1>4

\* Nothing with the id that Send takes is anywhere.
LEMMA NothingYet ==
    ASSUME IdsSuffice, TypeInv, KeyInv, SlotsFilled, NEW ids \in Ids, NetInv(ids),
           NEW m \in Msg, m \in unsent, Dest[m] \notin {NoNode, Sender[m]},
           NEW id, id = nextMessageId[Sender[m]]
    PROVE  /\ OnAir(KeyOf(m, id)) = {}
           /\ \A n \in Node : Holding(n, KeyOf(m, id)) = {} /\ ~IsRecent(n, KeyOf(m, id))
<1> DEFINE key == KeyOf(m, id)
<1>1. IdsInOrder /\ IdsGiven(ids) /\ air \subseteq Packets(ids) /\ SlotsPureIn(SentFrames(ids))
  BY DEF NetInv
<1>2. \A k \in Launched : KeyOf(k, ids[k]) # key
  BY <1>1, IdIsFresh
<1> HIDE DEF key
<1>3. OnAir(key) = {}
  BY <1>1, <1>2, PacketFacts DEF OnAir
<1>4. ASSUME NEW n \in Node PROVE Holding(n, key) = {}
  <2>1. \A s \in Slot : slots[n][s].used => slots[n][s].key # key
    BY <1>1, <1>2, UsedIsSent
  <2> QED
    BY <2>1 DEF Holding
<1>5. ASSUME NEW n \in Node, IsRecent(n, key) PROVE FALSE
  <2>1. key # NoKey
    <3>1. Sender[m] # NoNode
      BY NetworkAssumption
    <3> QED
      BY <3>1 DEF key, KeyOf, NoKey
  <2>2. PICK i \in DOMAIN completed[n] : completed[n][i].key = key
    BY <1>5, <2>1, RecentIsCompleted
  <2>3. \E k \in Launched : completed[n][i].key = KeyOf(k, ids[k])
    BY <2>2, CompletedIsSent
  <2> QED
    BY <1>2, <2>2, <2>3
<1> QED
  BY <1>3, <1>4, <1>5 DEF key

\* What Send puts on the air is on its way.
LEMMA ArrivesSent ==
    ASSUME IdsSuffice, OneWay, BroadcastOnce, TypeInv, KeyInv, SlotsFilled, NEW ids \in Ids, NetInv(ids),
           NEW m \in Msg, Send(m), Dest[m] \notin {NoNode, Sender[m]},
           NEW id, id = nextMessageId[Sender[m]]
    PROVE  Arrives(m, id)'
<1> DEFINE key  == KeyOf(m, id)
           sent == SendFramed(Sender[m], key, m, Bytes[m], DefaultHopLimit)
<1>1. m \in unsent /\ air' = air \union sent /\ UNCHANGED <<slots, recent>>
  BY DEF Send, KeyOf, vars
<1>2. Sender[m] \in Node
  BY NetworkAssumption
<1>3. OnAir(key) = {} /\ \A n \in Node : Holding(n, key) = {} /\ ~IsRecent(n, key)
  BY <1>1, NothingYet
<1>4. \A n \in Node : Holding(n, key)' = {} /\ ~IsRecent(n, key)'
  BY <1>1, <1>3 DEF Holding, IsRecent
<1>5. \A q \in sent : q.frame.key = key
  BY <1>2, SendFramedLinks
<1> HIDE DEF sent
<1>6. OnAir(key)' = sent
  BY <1>1, <1>3, <1>5 DEF OnAir
<1>7. CASE Dest[m] = BroadcastNode
  <2>1. ASSUME NEW n \in Node, NEW i, Link(Sender[m], m, i, n), Fits(Interfaces[Sender[m]][i], Bytes[m])
        PROVE  Coming(n, m, id, Chunk(Sender[m], i), DefaultHopLimit)'
    <3>1. ToCome(n, key)' = {q \in sent : q.to = n}
      BY <1>6 DEF ToCome, OnAir
    <3>2. {q \in sent : q.to = n} = Pieces(n, m, id, Chunk(Sender[m], i), DefaultHopLimit)
      BY <1>2, <1>7, <2>1, SentToNeighbour DEF sent
    <3>3. ToCome(n, key)' = Pieces(n, m, id, Chunk(Sender[m], i), DefaultHopLimit)
      BY <3>1, <3>2
    <3> QED
      BY <1>4, <3>3, ComingStarts
  <2> QED
    BY <1>7, <2>1 DEF Arrives
<1>8. CASE Dest[m] # BroadcastNode
  <2>1. ASSUME NEW k \in 1 .. DefaultHopLimit + 1, NEW w, Way(m, w, k)
        PROVE  At(m, id, w, k, 1)'
    <3>1. k \in Nat /\ 1 \in 1 .. k /\ 1 - 1 = 0 /\ DefaultHopLimit - 1 + 1 = DefaultHopLimit
      BY LimitIsNat
    <3>2. \A t \in 1 .. k : w[t] \in Node
      BY <2>1 DEF Way
    <3>3. Ahead(m, id, w, k, 1)'
      BY <1>4, <3>2 DEF Ahead
    <3>4. w[0] = Sender[m]
      BY <2>1 DEF Way
    <3>5. PICK one : one = 1
      OBVIOUS
    <3>6. OnAir(KeyOf(m, id))' = SendFramed(w[one - 1], KeyOf(m, id), m, Bytes[m], DefaultHopLimit - one + 1)
      BY <1>6, <3>1, <3>4, <3>5 DEF sent
    <3>7. one \in 1 .. k /\ Ahead(m, id, w, k, one)'
      BY <3>1, <3>3, <3>5
    <3> HIDE DEF key
    <3>8. At(m, id, w, k, one)'
      BY <2>1, <3>1, <3>6, <3>7, StageStarts
    <3> QED
      BY <3>5, <3>8
  <2>2. \A k \in 1 .. DefaultHopLimit + 1 : 1 \in 1 .. k
    OBVIOUS
  <2> QED
    BY <1>8, <2>1, <2>2 DEF Arrives
<1> QED
  BY <1>7, <1>8

\* Sending another message leaves m where it is.
LEMMA OthersSent ==
    ASSUME IdsSuffice, NEW ids \in Ids, NetInv(ids), NEW o \in Msg, Send(o),
           NEW m \in Launched, Arrives(m, ids[m])
    PROVE  Arrives(m, ids[m])'
<1> DEFINE key == KeyOf(m, ids[m])
<1>1. o \in unsent /\ UNCHANGED vars
  BY DEF Send
<1>2. \A n \in Node : Untouched(n, key) /\ CompletedAt(n)' = CompletedAt(n)
  BY <1>1 DEF vars, Untouched, Holding, IsRecent, CompletedAt
<1>3. OnAir(key)' = OnAir(key)
  <2>1. CASE Dest[o] \in {NoNode, Sender[o]}
    BY <2>1 DEF Send, OnAir
  <2>2. CASE Dest[o] \notin {NoNode, Sender[o]}
    <3>1. IdsInOrder /\ IdsGiven(ids)
      BY DEF NetInv
    <3>2. KeyOf(o, nextMessageId[Sender[o]]) # key
      BY <1>1, <2>2, <3>1, IdIsFresh
    <3>3. air' = air \union SendFramed(Sender[o], KeyOf(o, nextMessageId[Sender[o]]), o, Bytes[o], DefaultHopLimit)
      BY <2>2 DEF Send, KeyOf
    <3>4. Sender[o] \in Node
      BY NetworkAssumption
    <3>5. \A q \in air' : q \in air \/ q.frame.key = KeyOf(o, nextMessageId[Sender[o]])
      BY <3>3, <3>4, SendFramedLinks
    <3> HIDE DEF key
    <3> QED
      BY <3>2, <3>3, <3>5 DEF OnAir
  <2> QED
    BY <2>1, <2>2
<1>4. m \in Msg
  BY DEF Launched
<1> QED
  BY <1>2, <1>3, <1>4, ArrivesUntouched

-----------------------------------------------------------------------------
(* The invariant.                                                          *)

ArrivalInv(ids) == \A m \in Launched : Arrives(m, ids[m])

CleanInvariants ==
    /\ TypeInv /\ KeyInv /\ SlotsFilled
    /\ \E ids \in Ids : NetInv(ids) /\ RoutedInv(ids) /\ ArrivalInv(ids)

LEMMA ArrivalSend ==
    ASSUME IdsSuffice, OneWay, BroadcastOnce, TypeInv, KeyInv, SlotsFilled, NEW ids \in Ids, NetInv(ids), ArrivalInv(ids),
           NEW m \in Msg, Send(m), NEW new \in Ids, new = IdsWith(ids, m),
           Launched' \subseteq Launched \union {m}, \A k \in Launched : new[k] = ids[k]
    PROVE  ArrivalInv(new)'
<1>1. ASSUME NEW k \in Launched PROVE Arrives(k, new[k])'
  <2>1. Arrives(k, ids[k])'
    BY OthersSent DEF ArrivalInv
  <2>2. new[k] = ids[k]
    OBVIOUS
  <2> QED
    BY <2>1, <2>2
<1>2. m \in Launched' => Arrives(m, new[m])'
  <2> SUFFICES ASSUME m \in Launched' PROVE Arrives(m, new[m])'
    OBVIOUS
  <2>1. Dest[m] \notin {NoNode, Sender[m]}
    BY DEF Launched
  <2>2. PICK id : id = new[m]
    OBVIOUS
  <2>3. id = nextMessageId[Sender[m]]
    BY <2>2 DEF IdsWith, Ids
  <2>4. Arrives(m, id)'
    BY <2>1, <2>3, ArrivesSent
  <2> QED
    BY <2>2, <2>4
<1> QED
  BY <1>1, <1>2 DEF ArrivalInv

LEMMA ArrivalReceive ==
    ASSUME SlotsSuffice, OneWay, BroadcastOnce, TypeInv, KeyInv, SlotsFilled,
           NEW ids \in Ids, NetInv(ids), RoutedInv(ids), ArrivalInv(ids), NEW p \in air, ReceiveOnce(p)
    PROVE  ArrivalInv(ids)'
<1>1. p.to \in Node
  BY PacketFacts DEF NetInv
<1>2. FreeSlots(p.to) # {}
  BY <1>1, SlotLeft
<1>3. Launched' = Launched
  BY DEF ReceiveOnce, Launched
<1>4. \A m \in Launched : Arrives(m, ids[m])'
  BY <1>2, ArrivesReceived DEF ArrivalInv
<1> QED
  BY <1>3, <1>4 DEF ArrivalInv

LEMMA ArrivalUnchanged ==
    ASSUME NEW ids, ArrivalInv(ids), UNCHANGED netVars
    PROVE  ArrivalInv(ids)'
<1>1. UNCHANGED <<slots, recent, completed, unsent, air>>
  BY DEF netVars, vars
<1>2. Launched' = Launched
  BY <1>1 DEF Launched
<1>3. \A m \in Launched : Arrives(m, ids[m])'
  <2> SUFFICES ASSUME NEW m \in Launched PROVE Arrives(m, ids[m])'
    OBVIOUS
  <2>1. /\ \A n \in Node : Untouched(n, KeyOf(m, ids[m])) /\ CompletedAt(n)' = CompletedAt(n)
        /\ OnAir(KeyOf(m, ids[m]))' = OnAir(KeyOf(m, ids[m]))
    BY <1>1 DEF Untouched, Holding, IsRecent, CompletedAt, OnAir
  <2>2. m \in Msg /\ Arrives(m, ids[m])
    BY DEF Launched, ArrivalInv
  <2> QED
    BY <2>1, <2>2, ArrivesUntouched
<1> QED
  BY <1>2, <1>3 DEF ArrivalInv

LEMMA CleanStart == NetInit => CleanInvariants
<1> SUFFICES ASSUME NetInit PROVE CleanInvariants
  OBVIOUS
<1>1. PICK ids \in Ids : TRUE
  BY SomeIds
<1>2. TypeInv /\ KeyInv /\ SlotsFilled /\ NetInv(ids) /\ RoutedInv(ids)
  BY NetStart, RoutedStart
<1>3. ArrivalInv(ids)
  BY DEF NetInit, Launched, ArrivalInv
<1> QED
  BY <1>2, <1>3 DEF CleanInvariants

LEMMA CleanStep ==
    ASSUME IdsSuffice, SlotsSuffice, OneWay, BroadcastOnce
    PROVE  CleanInvariants /\ [CleanNext]_netVars => CleanInvariants'
<1> SUFFICES ASSUME CleanInvariants, [CleanNext]_netVars PROVE CleanInvariants'
  OBVIOUS
<1>1. PICK ids \in Ids : NetInv(ids) /\ RoutedInv(ids) /\ ArrivalInv(ids)
  BY DEF CleanInvariants
<1>2. TypeInv /\ KeyInv /\ SlotsFilled
  BY DEF CleanInvariants
<1>3. TypeInv' /\ KeyInv' /\ [Next]_vars
  BY <1>1, <1>2, TablesStep DEF MediumNext
<1>4. SlotsFilled'
  BY <1>2, <1>3, FilledStep
<1>5. CASE \E m \in Msg : Send(m)
  <2>1. PICK m \in Msg : Send(m)
    BY <1>5
  <2>2. PICK new : new = IdsWith(ids, m)
    OBVIOUS
  <2>3. /\ new \in Ids /\ NetInv(new)'
        /\ (\A k \in Launched : new[k] = ids[k]) /\ Launched' \subseteq Launched \union {m}
    BY <1>1, <1>2, <2>1, <2>2, SendKeeps
  <2>4. RoutedInv(new)'
    BY <1>1, <1>2, <2>1, <2>2, <2>3, RoutedSend
  <2>5. ArrivalInv(new)'
    BY <1>1, <1>2, <2>1, <2>2, <2>3, ArrivalSend
  <2>6. \E is \in Ids : NetInv(is)' /\ RoutedInv(is)' /\ ArrivalInv(is)'
    BY <2>3, <2>4, <2>5
  <2> QED
    BY <1>3, <1>4, <2>6 DEF CleanInvariants, Ids
<1>6. CASE ~\E m \in Msg : Send(m)
  <2>1. NetInv(ids)' /\ RoutedInv(ids)' /\ ArrivalInv(ids)'
    <3>1. CASE \E p \in air : ReceiveOnce(p)
      BY <1>1, <1>2, <3>1, ReceiveKeeps, RoutedReceive, ArrivalReceive
    <3>2. CASE UNCHANGED netVars
      BY <1>1, <3>2, NetUnchanged, RoutedUnchanged, ArrivalUnchanged
    <3> QED
      BY <1>6, <3>1, <3>2 DEF CleanNext
  <2> QED
    BY <1>1, <1>3, <1>4, <2>1 DEF CleanInvariants, Ids
<1> QED
  BY <1>5, <1>6

-----------------------------------------------------------------------------
(* What has arrived when the air is empty.                                 *)

\* Where the routes lead at all they lead without coming twice to a node: a
\* shortest path does not.
LEMMA SimpleWay ==
    ASSUME NEW m \in Msg, Sender[m] # Dest[m], Routed(m)
    PROVE  \E k \in 1 .. DefaultHopLimit + 1 : \E w : Way(m, w, k)
<1> DEFINE lengths == {k \in 1 .. DefaultHopLimit + 1 : Leads(m, k, Dest[m])}
<1>1. lengths \in SUBSET Nat /\ lengths # {}
  BY LimitIsNat DEF Routed, Leads
<1>2. PICK k \in lengths : \A l \in lengths : k <= l
  BY <1>1, FirstIsLeast
<1>3. k \in 1 .. DefaultHopLimit + 1 /\ DefaultHopLimit \in Nat
  BY <1>2, LimitIsNat
<1>4. PICK w \in [0 .. k -> Node] :
        /\ w[0] = Sender[m] /\ w[k] = Dest[m]
        /\ \A i \in 1 .. k : w[i] \in NextHops(w[i - 1], Dest[m], Bytes[m])
  BY <1>2 DEF Leads
<1> DEFINE On(x, y) == y \in NextHops(x, Dest[m], Bytes[m])
<1>5. \A i \in 1 .. k : On(w[i - 1], w[i])
  BY <1>4
<1> HIDE DEF On
<1>6. ASSUME NEW a \in 0 .. k, NEW b \in 0 .. k, w[a] = w[b], a < b PROVE FALSE
  <2> DEFINE d == b - a
             l == k - d
             v == [t \in 0 .. l |-> IF t <= a THEN w[t] ELSE w[t + d]]
  <2>0. k \in Nat /\ a \in Nat /\ b \in Nat /\ a < b /\ b <= k
    BY <1>3, <1>6
  <2>1. /\ d \in Nat /\ l \in Nat /\ a \in Nat /\ k \in Nat
        /\ l < k /\ k = l + d /\ b = a + d /\ a <= l
    BY <2>0
  <2> HIDE DEF d, l
  <2>2. \A t \in 0 .. l : t \in 0 .. k /\ t + d \in 0 .. k
    BY <2>1
  <2>3. v \in [0 .. l -> Node]
    BY <1>4, <2>2
  <2>4. \A t \in 0 .. l : v[t] = IF t <= a THEN w[t] ELSE w[t + d]
    OBVIOUS
  <2> HIDE DEF v
  <2>5. v[0] = Sender[m]
    <3>1. 0 \in 0 .. l /\ 0 <= a
      BY <2>1
    <3> QED
      BY <1>4, <2>4, <3>1
  <2>6. v[l] = Dest[m]
    <3>1. l \in 0 .. l /\ (l <= a => l = a /\ b = k)
      BY <2>1
    <3>2. v[l] = w[k]
      BY <1>6, <2>1, <2>4, <3>1
    <3> QED
      BY <1>4, <3>2
  <2>7. ASSUME NEW i \in 1 .. l PROVE On(v[i - 1], v[i])
    <3>1. i \in 0 .. l /\ i - 1 \in 0 .. l /\ i \in 1 .. k
      BY <2>1
    <3>2. PICK t \in 1 .. k : t = i + d
      BY <2>1
    <3>3. CASE i <= a
      <4>1. i - 1 <= a
        BY <2>1, <3>3
      <4>2. v[i] = w[i] /\ v[i - 1] = w[i - 1]
        BY <2>4, <3>1, <3>3, <4>1
      <4> QED
        BY <1>5, <3>1, <4>2
    <3>4. CASE i = a + 1
      <4>1. i - 1 = a /\ t - 1 = b /\ ~(i <= a) /\ i - 1 <= a
        BY <2>1, <3>2, <3>4
      <4>2. v[i] = w[t] /\ v[i - 1] = w[t - 1]
        BY <1>6, <2>4, <3>1, <3>2, <4>1
      <4> QED
        BY <1>5, <4>2
    <3>5. CASE i > a + 1
      <4>1. ~(i <= a) /\ ~(i - 1 <= a) /\ i - 1 + d = t - 1
        BY <2>1, <3>2, <3>5
      <4>2. v[i] = w[t] /\ v[i - 1] = w[t - 1]
        BY <2>4, <3>1, <3>2, <4>1
      <4> QED
        BY <1>5, <4>2
    <3> QED
      BY <2>1, <3>3, <3>4, <3>5
  <2>8. Leads(m, l, Dest[m])
    BY <2>3, <2>5, <2>6, <2>7 DEF Leads, On
  <2>9. l # 0
    BY <2>5, <2>6
  <2>10. l \in 1 .. DefaultHopLimit + 1
    BY <1>3, <2>1, <2>9
  <2> HIDE DEF lengths
  <2>11. k <= l
    BY <1>2, <2>8, <2>10 DEF lengths
  <2> QED
    BY <1>3, <2>1, <2>11
<1>7. \A a, b \in 0 .. k : w[a] = w[b] => a = b
  <2> SUFFICES ASSUME NEW a \in 0 .. k, NEW b \in 0 .. k, w[a] = w[b], a # b PROVE FALSE
    OBVIOUS
  <2>1. a < b \/ b < a
    OBVIOUS
  <2> QED
    BY <1>6, <2>1
<1>8. Way(m, w, k)
  BY <1>4, <1>7 DEF Way
<1> QED
  BY <1>3, <1>8

\* With nothing on the air nothing is on its way.
LEMMA NothingComing ==
    ASSUME TypeInv, KeyInv, air = {}, NEW o \in Node, NEW n \in Node, NEW m \in Msg, NEW i,
           Link(o, m, i, n), Fits(Interfaces[o][i], Bytes[m]), NEW id, NEW hop,
           Coming(n, m, id, Chunk(o, i), hop)
    PROVE  FALSE
<1>1. i \in DOMAIN Interfaces[o]
  BY DEF Link
<1>2. Passes(m, Chunk(o, i))
  BY <1>1, FitsPasses
<1> QED
  BY <1>2, ComingIsOnAir

LEMMA AllArrived ==
    ASSUME CleanInvariants
    PROVE  Delivered
<1> SUFFICES ASSUME air = {}, NEW m \in Msg \ unsent
             PROVE  IF Dest[m] = BroadcastNode
                    THEN \A n \in Node : m \in CompletedAt(n) <=> n \in Neighbours(m)
                    ELSE Dest[m] \in Node \ {Sender[m]} => (m \in CompletedAt(Dest[m]) <=> Routed(m))
  BY DEF Delivered
<1>1. PICK ids \in Ids : RoutedInv(ids) /\ ArrivalInv(ids)
  BY DEF CleanInvariants
<1>2. TypeInv /\ KeyInv
  BY DEF CleanInvariants
<1>3. Sender[m] \in Node /\ BroadcastNode \notin Node \union {NoNode} /\ NoNode \notin Node
  BY NetworkAssumption
<1>4. CASE Dest[m] = BroadcastNode
  <2>1. m \in Launched
    BY <1>3, <1>4 DEF Launched
  <2>2. ASSUME NEW n \in Node, m \in CompletedAt(n) PROVE n \in Neighbours(m)
    BY <1>1, <1>4, <2>2 DEF RoutedInv, Reached
  <2>3. ASSUME NEW n \in Node, n \in Neighbours(m) PROVE m \in CompletedAt(n)
    <3>1. PICK i : Link(Sender[m], m, i, n) /\ Fits(Interfaces[Sender[m]][i], Bytes[m])
      BY <1>4, <2>3, NeighboursAre
    <3>2. m \in CompletedAt(n) \/ Coming(n, m, ids[m], Chunk(Sender[m], i), DefaultHopLimit)
      BY <1>1, <1>4, <2>1, <3>1 DEF ArrivalInv, Arrives
    <3>3. ~Coming(n, m, ids[m], Chunk(Sender[m], i), DefaultHopLimit)
      BY <1>2, <1>3, <3>1, NothingComing
    <3> QED
      BY <3>2, <3>3
  <2> QED
    BY <1>4, <2>2, <2>3
<1>5. CASE Dest[m] \in Node \ {Sender[m]}
  <2>1. m \in Launched /\ Dest[m] # BroadcastNode
    BY <1>3, <1>5 DEF Launched
  <2>2. ASSUME m \in CompletedAt(Dest[m]) PROVE Routed(m)
    <3>1. Reached(Dest[m], m)
      BY <1>1, <1>5, <2>2 DEF RoutedInv
    <3> QED
      BY <2>1, <3>1 DEF Reached, Leads, Routed
  <2>3. ASSUME Routed(m), m \notin CompletedAt(Dest[m]) PROVE FALSE
    <3>1. PICK k \in 1 .. DefaultHopLimit + 1 : \E w : Way(m, w, k)
      BY <1>5, <2>3, SimpleWay
    <3>2. PICK w : Way(m, w, k)
      BY <3>1
    <3>3. PICK j \in 1 .. k : At(m, ids[m], w, k, j)
      BY <1>1, <2>1, <2>3, <3>2 DEF ArrivalInv, Arrives
    <3>4. k \in Nat
      BY LimitIsNat
    <3>5. w[j] \in Node /\ w[j - 1] \in Node
      BY <3>2, <3>4, WayTyped
    <3>6. PICK i : /\ Link(w[j - 1], m, i, w[j]) /\ Fits(Interfaces[w[j - 1]][i], Bytes[m])
                   /\ Coming(w[j], m, ids[m], Chunk(w[j - 1], i), DefaultHopLimit - j + 1)
      BY <3>3 DEF At
    <3> QED
      BY <1>2, <3>5, <3>6, NothingComing
  <2> QED
    BY <2>1, <2>2, <2>3
<1> QED
  BY <1>4, <1>5

\* On a medium that brings every packet once, in whatever order: when nothing
\* is left on the air, a broadcast has been completed by exactly the neighbours
\* that it gets to, and a message for a node by that node exactly if the routes
\* lead there - whatever else has gone round.  Duplicate suppression, the slots
\* and the hop limit keep nothing from arriving.
THEOREM DeliveredWhereRouted ==
    ASSUME IdsSuffice, SlotsSuffice, OneWay, BroadcastOnce
    PROVE  CleanSpec => []Delivered
<1>1. CleanInvariants /\ [CleanNext]_netVars => CleanInvariants'
  BY CleanStep
<1> QED
  BY <1>1, CleanStart, AllArrived, PTL DEF CleanSpec
=============================================================================
