--------------------------- MODULE RadioTopology ----------------------------
(***************************************************************************)
(* The configuration and the life of one RadioTransport: its interface and *)
(* route tables, Start and Stop with radios that may fail to start, and    *)
(* what a subscribed observer is told of all this.  What Stop does to the  *)
(* reassemblies is in RadioReassembly.                                     *)
(***************************************************************************)
EXTENDS Naturals, FiniteSets, Sequences

CONSTANTS Radio,          \* the radios
          NoRadio,        \* a null IRadio*
          Destination,    \* the nodes named in routes, BroadcastNode among them
          BroadcastNode,
          NoNode,         \* the destination of an unused route
          Address,        \* link addresses
          NoAddress,      \* an address that IsValid refuses
          MaxInterfaces,  \* ESPRESSIO_RADIO_MAX_INTERFACES
          MaxRoutes,      \* ESPRESSIO_RADIO_MAX_ROUTES
          MaxNotices      \* bound: lifecycle notifications

ASSUME TopologyAssumption ==
    /\ MaxInterfaces \in Nat \ {0}
    /\ MaxRoutes \in Nat \ {0}
    /\ MaxNotices \in Nat
    /\ NoRadio \notin Radio
    /\ NoNode \notin Destination
    /\ NoAddress \notin Address

InterfaceSlot == 1 .. MaxInterfaces
RouteSlot     == 1 .. MaxRoutes

Nowhere  == [radio |-> NoRadio, fallback |-> FALSE]
NoRoute == [destination |-> NoNode, radio |-> NoRadio, nextHop |-> NoAddress]

VARIABLES interfaces,  \* _interfaces
          routes,      \* _routes; NoRoute in an unused entry
          started,     \* _started
          running,     \* the radios that are started
          told,        \* what the observer knows of interfaces and routes
          lifecycle    \* the lifecycle notifications, in order

vars == <<interfaces, routes, started, running, told, lifecycle>>

Init ==
    /\ interfaces = [i \in InterfaceSlot |-> Nowhere]
    /\ routes = [i \in RouteSlot |-> NoRoute]
    /\ started = FALSE
    /\ running = {}
    /\ told = [interfaces |-> [r \in {} |-> FALSE], routes |-> [d \in {} |-> NoRoute]]
    /\ lifecycle = <<>>

-----------------------------------------------------------------------------
First(S) == CHOOSE i \in S : \A j \in S : i <= j

With(f, x, y) == [e \in DOMAIN f \union {x} |-> IF e = x THEN y ELSE f[e]]
Without(f, x) == [e \in DOMAIN f \ {x} |-> f[e]]

\* FindInterface and FindRoute: the entries of a radio, of a destination.
InterfacesOf(r) == {i \in InterfaceSlot : interfaces[i].radio = r}
RoutesTo(d)     == {i \in RouteSlot : routes[i].destination = d}

Attached == {interfaces[i].radio : i \in InterfaceSlot} \ {NoRadio}

\* What a subscribed observer keeps of each notification.  It is called before
\* the operation returns, and what it throws goes no further.
NotifyInterfaceConfigured(r, fallback) ==
    told' = [told EXCEPT !.interfaces = With(@, r, fallback)]
NotifyRouteConfigured(d, route) == told' = [told EXCEPT !.routes = With(@, d, route)]
NotifyRouteRemoved(d) == told' = [told EXCEPT !.routes = Without(@, d)]
NotifyStarted == lifecycle' = Append(lifecycle, "Started")
NotifyStopped == lifecycle' = Append(lifecycle, "Stopped")

\* Broken variant of AddInterface: a radio that is there takes a slot again.
AddInterfaceAgain(r, fallback) ==
    LET slots == InterfacesOf(NoRadio)
    IN  /\ slots # {}
        /\ interfaces' = [interfaces EXCEPT ![First(slots)] = [radio |-> r, fallback |-> fallback]]
        /\ NotifyInterfaceConfigured(r, fallback)
        /\ UNCHANGED <<routes, started, running, lifecycle>>

\* A radio that is there has its flag changed; a new one takes a free slot.
AddInterface(r, fallback) ==
    LET slots == IF InterfacesOf(r) # {} THEN InterfacesOf(r) ELSE InterfacesOf(NoRadio)
    IN  /\ slots # {}
        /\ interfaces' = [interfaces EXCEPT ![First(slots)] = [radio |-> r, fallback |-> fallback]]
        /\ NotifyInterfaceConfigured(r, fallback)
        /\ UNCHANGED <<routes, started, running, lifecycle>>

\* Broken variant of SetRoute: a full table gives up its first route.
SetRouteEvicting(d, r, nextHop) ==
    LET slots == CASE RoutesTo(d) # {}      -> RoutesTo(d)
                   [] RoutesTo(NoNode) # {} -> RoutesTo(NoNode)
                   [] OTHER                 -> RouteSlot
        route == [destination |-> d, radio |-> r, nextHop |-> nextHop]
    IN  /\ d # BroadcastNode
        /\ nextHop # NoAddress
        /\ InterfacesOf(r) # {}
        /\ routes' = [routes EXCEPT ![First(slots)] = route]
        /\ NotifyRouteConfigured(d, route)
        /\ UNCHANGED <<interfaces, started, running, lifecycle>>

SetRoute(d, r, nextHop) ==
    LET slots == IF RoutesTo(d) # {} THEN RoutesTo(d) ELSE RoutesTo(NoNode)
        route == [destination |-> d, radio |-> r, nextHop |-> nextHop]
    IN  /\ d # BroadcastNode
        /\ nextHop # NoAddress
        /\ InterfacesOf(r) # {}
        /\ slots # {}
        /\ routes' = [routes EXCEPT ![First(slots)] = route]
        /\ NotifyRouteConfigured(d, route)
        /\ UNCHANGED <<interfaces, started, running, lifecycle>>

\* Broken variants of RemoveRoute: without the notice; the radio stays.
RemoveRouteSilently(d) ==
    /\ RoutesTo(d) # {}
    /\ routes' = [routes EXCEPT ![First(RoutesTo(d))] = NoRoute]
    /\ UNCHANGED <<interfaces, started, running, told, lifecycle>>
RemoveRouteInPart(d) ==
    /\ RoutesTo(d) # {}
    /\ routes' = [routes EXCEPT ![First(RoutesTo(d))].destination = NoNode]
    /\ NotifyRouteRemoved(d)
    /\ UNCHANGED <<interfaces, started, running, lifecycle>>

RemoveRoute(d) ==
    /\ RoutesTo(d) # {}
    /\ routes' = [routes EXCEPT ![First(RoutesTo(d))] = NoRoute]
    /\ NotifyRouteRemoved(d)
    /\ UNCHANGED <<interfaces, started, running, lifecycle>>

\* Every radio is started, also after one has failed to.
Start ==
    /\ Len(lifecycle) < MaxNotices
    /\ \E up \in SUBSET Attached :
          /\ running' = (running \ Attached) \union up
          /\ started' = (up = Attached)
          /\ IF up = Attached THEN NotifyStarted ELSE UNCHANGED lifecycle
    /\ UNCHANGED <<interfaces, routes, told>>

\* Broken variant of Stop: the notice is sent of any call.
StopAlwaysTold ==
    /\ Len(lifecycle) < MaxNotices
    /\ started' = FALSE
    /\ running' = running \ Attached
    /\ NotifyStopped
    /\ UNCHANGED <<interfaces, routes, told>>

Stop ==
    /\ Len(lifecycle) < MaxNotices
    /\ started' = FALSE
    /\ running' = running \ Attached
    /\ IF started THEN NotifyStopped ELSE UNCHANGED lifecycle
    /\ UNCHANGED <<interfaces, routes, told>>

Next ==
    \/ \E r \in Radio, fallback \in BOOLEAN : AddInterface(r, fallback)
    \/ \E d \in Destination, r \in Radio, a \in Address \union {NoAddress} : SetRoute(d, r, a)
    \/ \E d \in Destination : RemoveRoute(d)
    \/ Start
    \/ Stop

Spec == Init /\ [][Next]_vars

-----------------------------------------------------------------------------
RouteRecord == [destination : Destination, radio : Radio, nextHop : Address]

TypeOK ==
    /\ interfaces \in [InterfaceSlot -> [radio : Radio \union {NoRadio}, fallback : BOOLEAN]]
    /\ routes \in [RouteSlot -> RouteRecord \union {NoRoute}]
    /\ started \in BOOLEAN
    /\ running \subseteq Radio
    /\ lifecycle \in Seq({"Started", "Stopped"})

\* A radio has one interface record and a destination one route: the tables
\* have holes, and a second record would survive a change or a removal.
NoDoubles ==
    /\ \A r \in Radio : Cardinality(InterfacesOf(r)) <= 1
    /\ \A d \in Destination : Cardinality(RoutesTo(d)) <= 1

\* An observer that has followed the notifications knows the interfaces and
\* the routes that SendFramed would find.
ObserverKnowsTopology ==
    /\ DOMAIN told.interfaces = Attached
    /\ \A r \in Attached : told.interfaces[r] = interfaces[First(InterfacesOf(r))].fallback
    /\ DOMAIN told.routes = {routes[i].destination : i \in RouteSlot} \ {NoNode}
    /\ \A d \in DOMAIN told.routes : told.routes[d] = routes[First(RoutesTo(d))]

\* The observer is told of every start, and of a stop only after a start.
StartsAreTold ==
    /\ started => lifecycle # <<>> /\ lifecycle[Len(lifecycle)] = "Started"
    /\ \A i \in DOMAIN lifecycle :
          lifecycle[i] = "Stopped" => i > 1 /\ lifecycle[i - 1] = "Started"

\* An observer that was told of a start is told when it has ended.
StopsAreTold ==
    ~started /\ lifecycle # <<>> => lifecycle[Len(lifecycle)] = "Stopped"

-----------------------------------------------------------------------------
\* The table implements a partial function from destinations to routes.
RouteTable ==
    [d \in {routes[i].destination : i \in RouteSlot} \ {NoNode} |->
        LET route == routes[First(RoutesTo(d))]
        IN  [radio |-> route.radio, nextHop |-> route.nextHop]]

Routing == INSTANCE RadioRouting WITH
    Route   <- [radio : Radio, nextHop : Address],
    routeTo <- RouteTable

RoutingSpec == Routing!Spec
=============================================================================
