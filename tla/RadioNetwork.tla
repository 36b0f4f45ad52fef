---------------------------- MODULE RadioNetwork ----------------------------
(***************************************************************************)
(* A network of RadioTransports: Send with its allocation of message ids,  *)
(* SendFramed's choice of interface, the medium, ProcessInboundPacket with *)
(* the delivery or the forwarding that Complete ends in, and the restart   *)
(* of a node, which keeps nothing.  Interfaces, routes and the radios'     *)
(* MTUs are configured before and do not change here.                      *)
(*                                                                         *)
(* A message m of Msg stands for one call of Send and for its payload.     *)
(***************************************************************************)
EXTENDS RadioReassembly

CONSTANTS BroadcastNode,    \* RadioNodeId 0xFFFF
          Garbled,          \* content put together from several messages
          Msg,              \* the messages the nodes may send
          Sender, Dest,     \* [Msg -> Node], [Msg -> Node \union {BroadcastNode, NoNode}]
          Bytes,            \* [Msg -> Nat], the size of the payload
          Interfaces,       \* [Node -> Seq of [mtu, peers, broadcast, fallback]]
          Routes,           \* [Node -> [destinations -> [interface, nextHop]]]
          DefaultHopLimit,  \* _defaultHopLimit
          IdModulus         \* 2^16, the modulus of RadioMessageId

ASSUME NetworkAssumption ==
    /\ Sender \in [Msg -> Node]
    /\ Dest \in [Msg -> Node \union {BroadcastNode, NoNode}]
    /\ Bytes \in [Msg -> Nat]
    /\ DefaultHopLimit \in 0 .. MaxByte
    /\ IdModulus \in Nat \ {0, 1}
    /\ NoNode \notin Node
    /\ BroadcastNode \notin Node \union {NoNode}
    /\ DOMAIN Interfaces = Node
    /\ DOMAIN Routes = Node
    /\ \A n \in Node :
          /\ DOMAIN Interfaces[n] \subseteq Nat
          /\ \A i \in DOMAIN Interfaces[n] :
                Interfaces[n][i] \in [mtu : Nat, peers : SUBSET Node,
                                     broadcast : BOOLEAN, fallback : BOOLEAN]
          /\ \A d \in DOMAIN Routes[n] :
                Routes[n][d].interface \in DOMAIN Interfaces[n] /\ Routes[n][d].nextHop \in Node

VARIABLES nextMessageId,  \* _nextMessageId
          unsent,         \* the messages Send has not been called for
          air             \* packets on the medium: [to, frame]

netVars == <<vars, nextMessageId, unsent, air>>

NetInit ==
    /\ Init
    /\ nextMessageId = [n \in Node |-> 1]
    /\ unsent = Msg
    /\ air = {}

-----------------------------------------------------------------------------
\* SendVia on an interface of n, to the peers its link address names.
SendVia(interface, peers, key, data, size, hop) ==
    LET chunk == FragmentPayloadBytes(interface.mtu)
    IN  IF chunk = 0 \/ size > MaxMessageBytes \/ FragmentCount(size, chunk) > MaxByte
        THEN {}
        ELSE [to : peers, frame : Fragments(key, data, size, chunk, hop)]

\* Frame has every packet that the messages of Msg can be cut into on an
\* interface of the network, with whatever id and hop limit.
ASSUME FrameAssumption ==
    \A m \in Msg, n \in Node, id \in 1 .. IdModulus - 1, hop \in 0 .. DefaultHopLimit :
        \A i \in DOMAIN Interfaces[n] :
            SendVia(Interfaces[n][i], Node, [src |-> Sender[m], dst |-> Dest[m], chan |-> 0, id |-> id],
                    m, Bytes[m], hop)
            \subseteq [to : Node, frame : Frame]

\* The packets SendFramed hands to the radios of n.
SendFramed(n, key, data, size, hop) ==
    LET all      == DOMAIN Interfaces[n]
        Via(i, peers) == SendVia(Interfaces[n][i], peers, key, data, size, hop)
        fallback == {i \in all : Interfaces[n][i].fallback}
    IN  IF key.dst = BroadcastNode
        THEN UNION {Via(i, Interfaces[n][i].peers) : i \in {j \in all : Interfaces[n][j].broadcast}}
        ELSE IF key.dst \in DOMAIN Routes[n]
        THEN LET route == Routes[n][key.dst] IN Via(route.interface, {route.nextHop})
        ELSE IF fallback # {}
        THEN LET i == First(fallback) IN Via(i, Interfaces[n][i].peers)
        ELSE {}

\* Broken variants of NextId: 0 is not skipped; the id stays.
NextIdWithZero(id) == (id + 1) % IdModulus
SameId(id) == id

\* The id after this one; 0 is never used.
NextId(id) == IF (id + 1) % IdModulus = 0 THEN 1 ELSE (id + 1) % IdModulus

\* Send takes an id even when no packet of the message leaves the node.  Left
\* out is the refusal of a null payload of some size (:402), which takes no id
\* and sends nothing.
Send(m) ==
    LET n   == Sender[m]
        key == [src |-> n, dst |-> Dest[m], chan |-> 0, id |-> nextMessageId[n]]
    IN  /\ m \in unsent
        /\ unsent' = unsent \ {m}
        /\ IF Dest[m] \in {NoNode, n}
           THEN UNCHANGED <<nextMessageId, air>>
           ELSE /\ nextMessageId' = [nextMessageId EXCEPT ![n] = NextId(@)]
                /\ air' = air \union SendFramed(n, key, m, Bytes[m], DefaultHopLimit)
        /\ UNCHANGED vars

\* The content of a completed message.
ContentOf(m) == IF \E d \in m.data : m.data = {d} THEN CHOOSE d \in m.data : TRUE ELSE Garbled

\* Broken variants of Forwarded: no hop is spent; the last hop is not used;
\* a byte too many is sent on.
ForwardedFree(n, m) ==
    IF m.key.dst \in {n, BroadcastNode} \/ m.hop = 0 THEN {}
    ELSE SendFramed(n, m.key, ContentOf(m), m.total, m.hop)
ForwardedShort(n, m) ==
    IF m.key.dst \in {n, BroadcastNode} \/ m.hop <= 1 THEN {}
    ELSE SendFramed(n, m.key, ContentOf(m), m.total, m.hop - 1)
ForwardedLonger(n, m) ==
    IF m.key.dst \in {n, BroadcastNode} \/ m.hop = 0 THEN {}
    ELSE SendFramed(n, m.key, ContentOf(m), m.total + 1, m.hop - 1)

\* What Complete sends on of the message m at n: nothing if it is for n, or
\* for all, or has no hop left.
Forwarded(n, m) ==
    IF m.key.dst \in {n, BroadcastNode} \/ m.hop = 0 THEN {}
    ELSE SendFramed(n, m.key, ContentOf(m), m.total, m.hop - 1)

\* The message that the packet h completes at n, if it does.
Completes(n, h) ==
    IF Stores(n, h) /\ SlotWith(n, h).received = SlotWith(n, h).cnt
    THEN {MessageOf(SlotWith(n, h))}
    ELSE {}

\* What is sent on when the packet h comes to n.
Forwards(n, h) == UNION {Forwarded(n, m) : m \in Completes(n, h)}

\* The worker of p.to drains the packet p, which may be on the air again, or
\* still, afterwards.
Receive(p) ==
    /\ p \in air
    /\ ProcessInboundPacket(p.to, p.frame)
    /\ air' = air \union Forwards(p.to, p.frame)
    /\ UNCHANGED <<nextMessageId, unsent>>

\* The same packet, on a medium that repeats nothing.
ReceiveOnce(p) ==
    /\ p \in air
    /\ \/ ProcessInboundPacket(p.to, p.frame)
       \/ ~Takes(p.to, p.frame) /\ UNCHANGED vars
    /\ air' = (air \ {p}) \union Forwards(p.to, p.frame)
    /\ UNCHANGED <<nextMessageId, unsent>>

\* The node is reset and constructs its RadioTransport anew.
Restart(n) ==
    /\ slots' = [slots EXCEPT ![n] = [s \in Slot |-> FreeSlot]]
    /\ touchCounter' = [touchCounter EXCEPT ![n] = 0]
    /\ recent' = [recent EXCEPT ![n] = [p \in Ring |-> NoKey]]
    /\ recentCursor' = [recentCursor EXCEPT ![n] = 0]
    /\ nextMessageId' = [nextMessageId EXCEPT ![n] = 1]
    /\ UNCHANGED <<completed, unsent, air>>

-----------------------------------------------------------------------------
\* Radios that are stopped send and receive nothing: the medium loses it.
StopReassembly(n) == Stop(n) /\ UNCHANGED <<nextMessageId, unsent, air>>

\* A medium that loses (a packet may never be received), repeats and reorders.
LossyNext ==
    \/ \E m \in Msg : Send(m)
    \/ \E p \in air : Receive(p)
    \/ \E n \in Node : StopReassembly(n)

RestartNext == LossyNext \/ \E n \in Node : Restart(n)

\* A medium that brings every packet, once.
CleanNext ==
    \/ \E m \in Msg : Send(m)
    \/ \E p \in air : ReceiveOnce(p)

LossySpec   == NetInit /\ [][LossyNext]_netVars
RestartSpec == NetInit /\ [][RestartNext]_netVars
\* The worker drains what has arrived (RadioWorker::Iterate, each period).
CleanSpec   == NetInit /\ [][CleanNext]_netVars /\ WF_netVars(\E p \in air : ReceiveOnce(p))

-----------------------------------------------------------------------------
NetTypeOK ==
    /\ TypeOK
    /\ nextMessageId \in [Node -> 1 .. IdModulus - 1]
    /\ unsent \subseteq Msg
    /\ air \subseteq [to : Node, frame : Frame]

\* The messages n has completed, by what is in them.
CompletedAt(n) == {ContentOf(completed[n][i]) : i \in DOMAIN completed[n]}

\* What a node completes is one message that was sent, whole: its content,
\* its size, and the source and destination it was sent with.
IntactEndToEnd ==
    \A n \in Node : \A i \in DOMAIN completed[n] :
        LET c == completed[n][i]
        IN  \E m \in Msg \ unsent : /\ c.data = {m}
                                    /\ c.total = Bytes[m]
                                    /\ c.key.src = Sender[m]
                                    /\ c.key.dst = Dest[m]

\* Duplicate suppression drops duplicates only: a packet is dropped as recent
\* at a node that has completed the message the packet is a part of.
OnlyDuplicatesAreDropped ==
    \A p \in air : IsRecent(p.to, p.frame.key) => p.frame.data \in CompletedAt(p.to)

\* Where packets of n go to, on whatever interface.
SendsTo(n) ==
    (UNION {Interfaces[n][i].peers : i \in DOMAIN Interfaces[n]})
    \union {Routes[n][d].nextHop : d \in DOMAIN Routes[n]}

\* Where packets from n may get to over k links.
Within ==
    [n \in Node |-> [k \in 1 .. DefaultHopLimit + 1 |->
        {d \in Node : \E path \in [0 .. k -> Node] :
                         /\ path[0] = n /\ path[k] = d
                         /\ \A i \in 1 .. k : path[i] \in SendsTo(path[i - 1])}]]

\* A packet has spent a hop for every link beyond the first on its way.
HopsArePaid ==
    \A p \in air :
        /\ p.frame.hop <= DefaultHopLimit
        /\ p.to \in Within[p.frame.key.src][DefaultHopLimit - p.frame.hop + 1]

\* Whatever the routes, loops included, the traffic of finitely many messages
\* dies out.
TrafficDiesOut == <>[](air = {})

\* A payload of this size gets over the link of this interface: it is cut into
\* no more fragments than a byte counts, and the receiver has room for them.
Fits(interface, size) ==
    LET chunk == FragmentPayloadBytes(interface.mtu)
        count == FragmentCount(size, chunk)
    IN  /\ chunk # 0
        /\ count <= MaxByte
        /\ Allocation(count, chunk) <= MaxMessageBytes

\* Where a message of this size for d gets to from n.
NextHops(n, d, size) ==
    LET Over(i, peers) == IF Fits(Interfaces[n][i], size) THEN peers ELSE {}
        fallback == {i \in DOMAIN Interfaces[n] : Interfaces[n][i].fallback}
    IN  IF d \in DOMAIN Routes[n] THEN Over(Routes[n][d].interface, {Routes[n][d].nextHop})
        ELSE IF fallback # {} THEN Over(First(fallback), Interfaces[n][First(fallback)].peers)
        ELSE {}

\* Whether the routes lead from m's sender to its destination, over as many
\* links as a message may be forwarded on and the first one, all of which m
\* gets over.
Routed(m) ==
    \E k \in 1 .. DefaultHopLimit + 1 : \E path \in [0 .. k -> Node] :
        /\ path[0] = Sender[m] /\ path[k] = Dest[m]
        /\ \A i \in 1 .. k : path[i] \in NextHops(path[i - 1], Dest[m], Bytes[m])

\* The nodes a broadcast reaches: it goes one link far.
Neighbours(m) ==
    LET of == Interfaces[Sender[m]]
    IN  UNION {of[i].peers : i \in {j \in DOMAIN of : of[j].broadcast /\ Fits(of[j], Bytes[m])}}

\* On a medium that loses nothing, with a slot for each message under way, a
\* message has reached exactly where the routes lead it when no packet is left
\* on the air, whatever else went round in loops - nowhere if a link on its way
\* is too small for it, and this keeps nothing else from arriving.
Delivered ==
    air = {} => \A m \in Msg \ unsent :
        IF Dest[m] = BroadcastNode
        THEN \A n \in Node : m \in CompletedAt(n) <=> n \in Neighbours(m)
        ELSE Dest[m] \in Node \ {Sender[m]} => (m \in CompletedAt(Dest[m]) <=> Routed(m))

-----------------------------------------------------------------------------
(* What Delivered, which does not hold of every network, is proved from.   *)

\* No node comes round to an id it has used.
IdsSuffice ==
    \A n \in Node : LET own == {m \in Msg : Sender[m] = n}
                    IN  IsFiniteSet(own) /\ Cardinality(own) < IdModulus

\* A message for a node goes one way: no fallback link has several peers.
OneWay ==
    \A m \in Msg, n \in Node : Dest[m] # BroadcastNode =>
        \A d, e \in NextHops(n, Dest[m], Bytes[m]) : d = e

\* A broadcast comes to each node from one radio, and not back to its sender.
BroadcastOnce ==
    \A n \in Node : \A i \in DOMAIN Interfaces[n] : Interfaces[n][i].broadcast =>
        /\ n \notin Interfaces[n][i].peers
        /\ \A j \in DOMAIN Interfaces[n] : Interfaces[n][j].broadcast =>
              i = j \/ Interfaces[n][i].peers \intersect Interfaces[n][j].peers = {}

Chunk(n, i) == FragmentPayloadBytes(Interfaces[n][i].mtu)

FallbackOf(n) == {i \in DOMAIN Interfaces[n] : Interfaces[n][i].fallback}

\* What n sends of m goes over its interface i to d.
Link(n, m, i, d) ==
    /\ i \in DOMAIN Interfaces[n]
    /\ IF Dest[m] = BroadcastNode
       THEN Interfaces[n][i].broadcast /\ d \in Interfaces[n][i].peers
       ELSE IF Dest[m] \in DOMAIN Routes[n]
       THEN i = Routes[n][Dest[m]].interface /\ d = Routes[n][Dest[m]].nextHop
       ELSE FallbackOf(n) # {} /\ i = First(FallbackOf(n)) /\ d \in Interfaces[n][i].peers

\* The messages that can come to n in more fragments than one.
InPieces(n) ==
    {m \in Msg : \E o \in Node : \E i \in DOMAIN Interfaces[o] :
        Link(o, m, i, n) /\ Chunk(o, i) # 0 /\ FragmentCount(Bytes[m], Chunk(o, i)) > 1}

\* Each node has a slot for every message it may have to put together, and one.
SlotsSuffice ==
    \A n \in Node : IsFiniteSet(InPieces(n)) /\ Cardinality(InPieces(n)) < MaxReassemblies
=============================================================================
