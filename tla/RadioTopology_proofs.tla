------------------------ MODULE RadioTopology_proofs ------------------------
(***************************************************************************)
(* Proofs about RadioTopology, for every set of radios and of destinations *)
(* and all sizes of the two tables: what an observer knows, what it is     *)
(* told of the transport's life, and that the table of routes implements   *)
(* RadioRouting.                                                           *)
(***************************************************************************)
EXTENDS RadioTopology, TLAPS, FiniteSetTheorems, SequenceTheorems, NumberLemmas

\* The search for a free entry finds the first one.
LEMMA FirstIsThere ==
    ASSUME NEW S \in SUBSET Nat, S # {}
    PROVE  First(S) \in S
BY HasLeast DEF First

LEMMA FirstOfOne ==
    ASSUME NEW i \in Nat
    PROVE  First({i}) = i
BY DEF First

\* NoDoubles, said of the entries: no two name the same radio or destination.
SingleEntries ==
    /\ \A i, j \in InterfaceSlot :
          interfaces[i].radio = interfaces[j].radio /\ interfaces[i].radio # NoRadio => i = j
    /\ \A i, j \in RouteSlot :
          routes[i].destination = routes[j].destination /\ routes[i].destination # NoNode => i = j

Destined == {routes[i].destination : i \in RouteSlot} \ {NoNode}

\* What FindInterface and FindRoute would find for each radio and destination.
KnownInterfaces == [r \in Attached |-> interfaces[First(InterfacesOf(r))].fallback]
KnownRoutes     == [d \in Destined |-> routes[First(RoutesTo(d))]]

\* ObserverKnowsTopology, said of the record the observer keeps.
ToldIsTrue == told = [interfaces |-> KnownInterfaces, routes |-> KnownRoutes]

\* None of the parts is inductive alone: what becomes of an entry that the
\* search does not find is in SingleEntries.
TopologyInv == TypeOK /\ SingleEntries /\ ToldIsTrue

LEMMA TopologyInit == Init => TopologyInv
<1> SUFFICES ASSUME Init PROVE TopologyInv
  OBVIOUS
<1>1. TypeOK
  <2>1. interfaces \in [InterfaceSlot -> [radio : Radio \union {NoRadio}, fallback : BOOLEAN]]
    BY DEF Init, Nowhere
  <2>2. routes \in [RouteSlot -> RouteRecord \union {NoRoute}]
    BY DEF Init
  <2>3. started \in BOOLEAN /\ running \subseteq Radio
    BY DEF Init
  <2>4. lifecycle \in Seq({"Started", "Stopped"})
    BY EmptySeq DEF Init
  <2> QED
    BY <2>1, <2>2, <2>3, <2>4 DEF TypeOK
<1>2. SingleEntries
  BY DEF Init, SingleEntries, Nowhere, NoRoute
<1>3. Attached = {} /\ Destined = {}
  <2>1. \A i \in InterfaceSlot : interfaces[i].radio = NoRadio
    BY DEF Init, Nowhere
  <2>2. \A i \in RouteSlot : routes[i].destination = NoNode
    BY DEF Init, NoRoute
  <2> QED
    BY <2>1, <2>2 DEF Attached, Destined
<1>4. ToldIsTrue
  BY <1>3 DEF Init, ToldIsTrue, KnownInterfaces, KnownRoutes
<1> QED
  BY <1>1, <1>2, <1>4 DEF TopologyInv

-----------------------------------------------------------------------------
\* A radio's only entry is the one the search finds.
LEMMA InterfaceFound ==
    ASSUME SingleEntries, NEW r, r # NoRadio, NEW i \in InterfaceSlot, interfaces[i].radio = r
    PROVE  InterfacesOf(r) = {i} /\ First(InterfacesOf(r)) = i
<1>1. InterfacesOf(r) = {i}
  BY DEF SingleEntries, InterfacesOf
<1> QED
  BY <1>1, FirstOfOne DEF InterfaceSlot

LEMMA RouteFound ==
    ASSUME SingleEntries, NEW d, d # NoNode, NEW i \in RouteSlot, routes[i].destination = d
    PROVE  RoutesTo(d) = {i} /\ First(RoutesTo(d)) = i
<1>1. RoutesTo(d) = {i}
  BY DEF SingleEntries, RoutesTo
<1> QED
  BY <1>1, FirstOfOne DEF RouteSlot

\* What AddInterface does to the table: one entry changes, and it was the
\* radio's or free.
LEMMA InterfaceAdded ==
    ASSUME TopologyInv, NEW r \in Radio, NEW fallback \in BOOLEAN, AddInterface(r, fallback)
    PROVE  \E s \in InterfaceSlot :
              /\ interfaces' = [interfaces EXCEPT ![s] = [radio |-> r, fallback |-> fallback]]
              /\ interfaces[s].radio \in {r, NoRadio}
              /\ \A i \in InterfaceSlot : interfaces[i].radio = r => i = s
<1> DEFINE S == IF InterfacesOf(r) # {} THEN InterfacesOf(r) ELSE InterfacesOf(NoRadio)
           s == First(S)
<1>1. S # {} /\ interfaces' = [interfaces EXCEPT ![s] = [radio |-> r, fallback |-> fallback]]
  BY DEF AddInterface
<1>2. S \in SUBSET Nat /\ S \in SUBSET InterfaceSlot
  BY DEF InterfacesOf, InterfaceSlot
<1>3. s \in S
  BY <1>1, <1>2, FirstIsThere
<1>4. interfaces[s].radio \in {r, NoRadio} /\ (InterfacesOf(r) # {} => interfaces[s].radio = r)
  BY <1>3 DEF InterfacesOf
<1>5. s \in InterfaceSlot
  BY <1>2, <1>3
<1> HIDE DEF S, s
<1>6. ASSUME NEW i \in InterfaceSlot, interfaces[i].radio = r PROVE i = s
  <2>1. InterfacesOf(r) # {} /\ r # NoRadio
    BY <1>6, TopologyAssumption DEF InterfacesOf
  <2> QED
    BY <1>4, <1>5, <1>6, <2>1 DEF TopologyInv, SingleEntries
<1> QED
  BY <1>1, <1>4, <1>5, <1>6

LEMMA AddInterfaceStep ==
    ASSUME TopologyInv, NEW r \in Radio, NEW fallback \in BOOLEAN, AddInterface(r, fallback)
    PROVE  TopologyInv'
<1>1. PICK s \in InterfaceSlot :
          /\ interfaces' = [interfaces EXCEPT ![s] = [radio |-> r, fallback |-> fallback]]
          /\ interfaces[s].radio \in {r, NoRadio}
          /\ \A i \in InterfaceSlot : interfaces[i].radio = r => i = s
  BY InterfaceAdded
<1>2. /\ told' = [told EXCEPT !.interfaces = With(@, r, fallback)]
      /\ UNCHANGED <<routes, started, running, lifecycle>>
  BY DEF AddInterface, NotifyInterfaceConfigured
<1>3. r # NoRadio
  BY TopologyAssumption
<1>4. \A i \in InterfaceSlot :
          interfaces'[i] = IF i = s THEN [radio |-> r, fallback |-> fallback] ELSE interfaces[i]
  BY <1>1 DEF TopologyInv, TypeOK
<1>5. TypeOK'
  BY <1>1, <1>2 DEF TopologyInv, TypeOK
<1>6. SingleEntries'
  BY <1>1, <1>2, <1>4 DEF TopologyInv, SingleEntries
<1>7. Attached' = Attached \union {r}
  <2>1. ASSUME NEW q \in Attached PROVE q \in Attached'
    <3>1. PICK i \in InterfaceSlot : interfaces[i].radio = q /\ q # NoRadio
      BY DEF Attached
    <3>2. interfaces'[i].radio = q
      BY <1>1, <1>4, <3>1
    <3> QED
      BY <3>1, <3>2 DEF Attached
  <2>2. r \in Attached'
    BY <1>3, <1>4 DEF Attached
  <2>3. ASSUME NEW q \in Attached' PROVE q \in Attached \union {r}
    BY <1>4 DEF Attached
  <2> QED
    BY <2>1, <2>2, <2>3
<1>8. ASSUME NEW q \in Attached'
      PROVE  interfaces'[First(InterfacesOf(q)')].fallback
               = IF q = r THEN fallback ELSE interfaces[First(InterfacesOf(q))].fallback
  <2>1. PICK i \in InterfaceSlot : interfaces'[i].radio = q /\ q # NoRadio
    BY DEF Attached
  <2>2. InterfacesOf(q)' = {i}
    BY <1>6, <2>1 DEF SingleEntries, InterfacesOf
  <2>3. First(InterfacesOf(q)') = i
    BY <2>2, FirstOfOne DEF InterfaceSlot
  <2>4. CASE q = r
    BY <1>1, <1>4, <2>1, <2>3, <2>4
  <2>5. CASE q # r
    <3>1. i # s /\ interfaces[i].radio = q /\ interfaces'[i] = interfaces[i]
      BY <1>4, <2>1, <2>5
    <3>2. First(InterfacesOf(q)) = i
      BY <2>1, <3>1, InterfaceFound DEF TopologyInv
    <3> QED
      BY <2>3, <2>5, <3>1, <3>2
  <2> QED
    BY <2>4, <2>5
<1>9. KnownInterfaces' = With(KnownInterfaces, r, fallback)
  BY <1>7, <1>8 DEF KnownInterfaces, With
<1>10. KnownRoutes' = KnownRoutes
  BY <1>2 DEF KnownRoutes, Destined, RoutesTo
<1>11. ToldIsTrue'
  BY <1>2, <1>9, <1>10 DEF TopologyInv, ToldIsTrue
<1> QED
  BY <1>5, <1>6, <1>11 DEF TopologyInv

-----------------------------------------------------------------------------
\* What SetRoute does to the table: one entry changes, and it was d's or free.
LEMMA RouteSet ==
    ASSUME TopologyInv, NEW d \in Destination, NEW r \in Radio,
           NEW nextHop \in Address \union {NoAddress}, SetRoute(d, r, nextHop)
    PROVE  \E s \in RouteSlot :
              /\ routes' = [routes EXCEPT ![s] = [destination |-> d, radio |-> r, nextHop |-> nextHop]]
              /\ routes[s].destination \in {d, NoNode}
              /\ \A i \in RouteSlot : routes[i].destination = d => i = s
<1> DEFINE S == IF RoutesTo(d) # {} THEN RoutesTo(d) ELSE RoutesTo(NoNode)
           s == First(S)
<1>1. /\ S # {}
      /\ routes' = [routes EXCEPT ![s] = [destination |-> d, radio |-> r, nextHop |-> nextHop]]
  BY DEF SetRoute
<1>2. S \in SUBSET Nat /\ S \in SUBSET RouteSlot
  BY DEF RoutesTo, RouteSlot
<1>3. s \in S
  BY <1>1, <1>2, FirstIsThere
<1>4. routes[s].destination \in {d, NoNode} /\ (RoutesTo(d) # {} => routes[s].destination = d)
  BY <1>3 DEF RoutesTo
<1>5. s \in RouteSlot
  BY <1>2, <1>3
<1> HIDE DEF S, s
<1>6. ASSUME NEW i \in RouteSlot, routes[i].destination = d PROVE i = s
  <2>1. RoutesTo(d) # {} /\ d # NoNode
    BY <1>6, TopologyAssumption DEF RoutesTo
  <2> QED
    BY <1>4, <1>5, <1>6, <2>1 DEF TopologyInv, SingleEntries
<1> QED
  BY <1>1, <1>4, <1>5, <1>6

\* The routes after d's entry s, or a free one, has been given to d or freed.
LEMMA RouteWritten ==
    ASSUME TopologyInv, UNCHANGED interfaces,
           NEW d \in Destination, NEW s \in RouteSlot,
           NEW route \in RouteRecord \union {NoRoute}, route.destination \in {d, NoNode},
           routes' = [routes EXCEPT ![s] = route],
           routes[s].destination \in {d, NoNode},
           \A i \in RouteSlot : routes[i].destination = d => i = s
    PROVE  /\ SingleEntries'
           /\ Destined' = IF route.destination = d THEN Destined \union {d} ELSE Destined \ {d}
           /\ KnownRoutes' = IF route.destination = d THEN With(KnownRoutes, d, route)
                             ELSE Without(KnownRoutes, d)
<1>1. d # NoNode
  BY TopologyAssumption
<1>2. \A i \in RouteSlot : routes'[i] = IF i = s THEN route ELSE routes[i]
  BY DEF TopologyInv, TypeOK
<1>3. SingleEntries'
  BY <1>2 DEF TopologyInv, SingleEntries
<1>4. Destined' = IF route.destination = d THEN Destined \union {d} ELSE Destined \ {d}
  <2>1. ASSUME NEW e, e # d PROVE e \in Destined' <=> e \in Destined
    <3>1. ASSUME NEW i \in RouteSlot, e # NoNode
          PROVE  routes'[i].destination = e <=> routes[i].destination = e
      BY <1>2, <2>1, <3>1
    <3> QED
      BY <3>1 DEF Destined
  <2>2. d \in Destined' <=> route.destination = d
    BY <1>1, <1>2 DEF Destined
  <2> QED
    BY <2>1, <2>2
<1>5. ASSUME NEW e \in Destined'
      PROVE  /\ e = d => routes'[First(RoutesTo(e)')] = route
             /\ e # d => routes'[First(RoutesTo(e)')] = routes[First(RoutesTo(e))]
  <2>1. PICK i \in RouteSlot : routes'[i].destination = e /\ e # NoNode
    BY DEF Destined
  <2>2. RoutesTo(e)' = {i}
    BY <1>3, <2>1 DEF SingleEntries, RoutesTo
  <2>3. First(RoutesTo(e)') = i
    BY <2>2, FirstOfOne DEF RouteSlot
  <2>4. CASE e = d
    BY <1>2, <2>1, <2>3, <2>4
  <2>5. CASE e # d
    <3>1. i # s /\ routes[i].destination = e /\ routes'[i] = routes[i]
      BY <1>2, <2>1, <2>5
    <3>2. First(RoutesTo(e)) = i
      BY <2>1, <3>1, RouteFound DEF TopologyInv
    <3> QED
      BY <2>3, <2>5, <3>1, <3>2
  <2> QED
    BY <2>4, <2>5
<1>6. CASE route.destination = d
  BY <1>3, <1>4, <1>5, <1>6 DEF KnownRoutes, With
<1>7. CASE route.destination # d
  <2>1. Destined' = Destined \ {d}
    BY <1>4, <1>7
  <2>2. KnownRoutes' = Without(KnownRoutes, d)
    BY <1>5, <2>1 DEF KnownRoutes, Without
  <2> QED
    BY <1>3, <1>7, <2>1, <2>2
<1> QED
  BY <1>6, <1>7

LEMMA SetRouteEffect ==
    ASSUME TopologyInv, NEW d \in Destination, NEW r \in Radio,
           NEW nextHop \in Address \union {NoAddress}, SetRoute(d, r, nextHop)
    PROVE  LET route == [destination |-> d, radio |-> r, nextHop |-> nextHop]
           IN  /\ TopologyInv'
               /\ nextHop \in Address
               /\ Destined' = Destined \union {d}
               /\ KnownRoutes' = With(KnownRoutes, d, route)
<1> DEFINE route == [destination |-> d, radio |-> r, nextHop |-> nextHop]
<1>1. PICK s \in RouteSlot : /\ routes' = [routes EXCEPT ![s] = route]
                             /\ routes[s].destination \in {d, NoNode}
                             /\ \A i \in RouteSlot : routes[i].destination = d => i = s
  BY RouteSet
<1>2. /\ told' = [told EXCEPT !.routes = With(@, d, route)]
      /\ UNCHANGED <<interfaces, started, running, lifecycle>>
      /\ nextHop \in Address
  BY DEF SetRoute, NotifyRouteConfigured
<1>3. route.destination = d /\ route \in RouteRecord
  BY <1>2 DEF RouteRecord
<1> HIDE DEF route
<1>4. /\ SingleEntries'
      /\ Destined' = Destined \union {d}
      /\ KnownRoutes' = With(KnownRoutes, d, route)
  <2>1. UNCHANGED interfaces /\ route.destination \in {d, NoNode} /\ route \in RouteRecord \union {NoRoute}
    BY <1>2, <1>3
  <2> QED
    BY <1>1, <1>3, <2>1, RouteWritten
<1>5. TypeOK'
  BY <1>1, <1>2, <1>3 DEF TopologyInv, TypeOK, Attached
<1>6. KnownInterfaces' = KnownInterfaces
  BY <1>2 DEF KnownInterfaces, Attached, InterfacesOf
<1>7. ToldIsTrue'
  BY <1>2, <1>4, <1>6 DEF TopologyInv, ToldIsTrue
<1> QED
  BY <1>2, <1>4, <1>5, <1>7 DEF TopologyInv, route

LEMMA RemoveRouteEffect ==
    ASSUME TopologyInv, NEW d \in Destination, RemoveRoute(d)
    PROVE  /\ TopologyInv'
           /\ d \in Destined
           /\ Destined' = Destined \ {d}
           /\ KnownRoutes' = Without(KnownRoutes, d)
<1>1. PICK s \in RouteSlot : routes[s].destination = d
  BY DEF RemoveRoute, RoutesTo
<1>2. d # NoNode
  BY TopologyAssumption
<1>3. First(RoutesTo(d)) = s /\ \A i \in RouteSlot : routes[i].destination = d => i = s
  BY <1>1, <1>2, RouteFound DEF TopologyInv, SingleEntries
<1>4. /\ routes' = [routes EXCEPT ![s] = NoRoute]
      /\ told' = [told EXCEPT !.routes = Without(@, d)]
      /\ UNCHANGED <<interfaces, started, running, lifecycle>>
  BY <1>3 DEF RemoveRoute, NotifyRouteRemoved
<1>5. NoRoute.destination = NoNode
  BY DEF NoRoute
<1>6. /\ SingleEntries'
      /\ Destined' = Destined \ {d}
      /\ KnownRoutes' = Without(KnownRoutes, d)
  <2>1. /\ UNCHANGED interfaces
        /\ NoRoute.destination \in {d, NoNode} /\ NoRoute \in RouteRecord \union {NoRoute}
    BY <1>4, <1>5
  <2> QED
    BY <1>1, <1>2, <1>3, <1>4, <1>5, <2>1, RouteWritten
<1>7. TypeOK'
  BY <1>4 DEF TopologyInv, TypeOK, Attached
<1>8. KnownInterfaces' = KnownInterfaces
  BY <1>4 DEF KnownInterfaces, Attached, InterfacesOf
<1>9. ToldIsTrue'
  BY <1>4, <1>6, <1>8 DEF TopologyInv, ToldIsTrue
<1> QED
  BY <1>1, <1>2, <1>6, <1>7, <1>9 DEF TopologyInv, Destined

\* Start and Stop, and steps that change nothing, leave the tables alone.
LEMMA TablesKept ==
    ASSUME TopologyInv, UNCHANGED <<interfaces, routes, told>>, TypeOK'
    PROVE  TopologyInv' /\ Destined' = Destined /\ KnownRoutes' = KnownRoutes
<1>1. SingleEntries'
  BY DEF TopologyInv, SingleEntries
<1>2. KnownInterfaces' = KnownInterfaces /\ KnownRoutes' = KnownRoutes /\ Destined' = Destined
  BY DEF KnownInterfaces, KnownRoutes, Attached, Destined, InterfacesOf, RoutesTo
<1> QED
  BY <1>1, <1>2 DEF TopologyInv, ToldIsTrue

LEMMA StartStopEffect ==
    ASSUME TopologyInv, Start \/ Stop
    PROVE  TopologyInv' /\ KnownRoutes' = KnownRoutes
<1>1. UNCHANGED <<interfaces, routes, told>> /\ Attached \subseteq Radio
  BY DEF Start, Stop, TopologyInv, TypeOK, Attached
<1>2. lifecycle' \in Seq({"Started", "Stopped"})
  BY AppendProperties DEF Start, Stop, TopologyInv, TypeOK, NotifyStarted, NotifyStopped
<1>3. started' \in BOOLEAN /\ running' \subseteq Radio
  BY <1>1 DEF Start, Stop, TopologyInv, TypeOK
<1>4. TypeOK'
  BY <1>1, <1>2, <1>3 DEF TopologyInv, TypeOK
<1> QED
  BY <1>1, <1>4, TablesKept

LEMMA TopologyStep == TopologyInv /\ [Next]_vars => TopologyInv'
<1> SUFFICES ASSUME TopologyInv, [Next]_vars PROVE TopologyInv'
  OBVIOUS
<1>1. CASE UNCHANGED vars
  <2>1. UNCHANGED <<interfaces, routes, told>> /\ TypeOK'
    BY <1>1 DEF vars, TopologyInv, TypeOK
  <2> QED
    BY <2>1, TablesKept
<1> QED
  BY <1>1, AddInterfaceStep, SetRouteEffect, RemoveRouteEffect, StartStopEffect DEF Next

LEMMA TopologyInvariant == Spec => []TopologyInv
BY TopologyInit, TopologyStep, PTL DEF Spec

\* Every variable keeps its type: the tables hold whole records only, and no
\* entry of another kind than one that was configured or is unused.
THEOREM TypeCorrect == Spec => []TypeOK
<1>1. TopologyInv => TypeOK
  BY DEF TopologyInv
<1> QED
  BY <1>1, TopologyInvariant, PTL

\* A radio has at most one interface record and a destination at most one
\* route, in tables that fill up and get holes: what AddInterface and SetRoute
\* change and RemoveRoute removes is all there is.
THEOREM NothingTwice == Spec => []NoDoubles
<1>1. ASSUME NEW S, NEW x \in S, \A y \in S : y = x PROVE Cardinality(S) = 1
  <2>1. S = {x}
    BY <1>1
  <2> QED
    BY <2>1, FS_Singleton
<1>2. ASSUME NEW S, S = {} PROVE Cardinality(S) = 0
  BY <1>2, FS_EmptySet
<1>3. TopologyInv => NoDoubles
  <2> SUFFICES ASSUME TopologyInv PROVE NoDoubles
    OBVIOUS
  <2>1. ASSUME NEW r \in Radio PROVE Cardinality(InterfacesOf(r)) <= 1
    <3>1. \A i, j \in InterfacesOf(r) : i = j
      BY TopologyAssumption DEF TopologyInv, SingleEntries, InterfacesOf
    <3> QED
      BY <1>1, <1>2, <3>1
  <2>2. ASSUME NEW d \in Destination PROVE Cardinality(RoutesTo(d)) <= 1
    <3>1. \A i, j \in RoutesTo(d) : i = j
      BY TopologyAssumption DEF TopologyInv, SingleEntries, RoutesTo
    <3> QED
      BY <1>1, <1>2, <3>1
  <2> QED
    BY <2>1, <2>2 DEF NoDoubles
<1> QED
  BY <1>3, TopologyInvariant, PTL

\* An observer that has followed the notifications of AddInterface, SetRoute
\* and RemoveRoute knows what FindInterface and FindRoute would find.
THEOREM ObserverKnows == Spec => []ObserverKnowsTopology
<1>1. TopologyInv => ObserverKnowsTopology
  <2> SUFFICES ASSUME TopologyInv PROVE ObserverKnowsTopology
    OBVIOUS
  <2>1. told.interfaces = KnownInterfaces /\ told.routes = KnownRoutes
    BY DEF TopologyInv, ToldIsTrue
  <2> QED
    BY <2>1 DEF ObserverKnowsTopology, KnownInterfaces, KnownRoutes, Destined
<1> QED
  BY <1>1, TopologyInvariant, PTL

-----------------------------------------------------------------------------
\* Whatever radios fail to start, and however often Start and Stop are called:
\* a transport that is started said so last, and said Stopped only after
\* Started.
THEOREM StartsTold == Spec => []StartsAreTold
<1>1. Init => StartsAreTold
  BY DEF Init, StartsAreTold
<1>2. TypeOK /\ StartsAreTold /\ [Next]_vars => StartsAreTold'
  <2> SUFFICES ASSUME TypeOK, StartsAreTold, [Next]_vars PROVE StartsAreTold'
    OBVIOUS
  <2> DEFINE Event == {"Started", "Stopped"}
             L == Len(lifecycle)
  <2>1. lifecycle \in Seq(Event) /\ L \in Nat /\ DOMAIN lifecycle = 1 .. L /\ (L = 0 <=> lifecycle = <<>>)
    BY LenProperties, EmptySeq DEF TypeOK
  <2>2. ASSUME NEW e \in Event, lifecycle' = Append(lifecycle, e),
               e = "Stopped" => started, started' => e = "Started"
        PROVE  StartsAreTold'
    <3>1. /\ lifecycle' \in Seq(Event) /\ lifecycle' # <<>> /\ Len(lifecycle') = L + 1
          /\ DOMAIN lifecycle' = 1 .. L + 1
          /\ lifecycle'[L + 1] = e
          /\ \A i \in 1 .. L : lifecycle'[i] = lifecycle[i]
      BY <2>1, <2>2, AppendProperties, LenProperties
    <3>2. ASSUME NEW i \in 1 .. L + 1, lifecycle'[i] = "Stopped"
          PROVE  i > 1 /\ lifecycle'[i - 1] = "Started"
      <4>1. CASE i = L + 1
        <5>1. started
          BY <2>2, <3>1, <3>2, <4>1
        <5>2. L # 0 /\ lifecycle[L] = "Started"
          BY <2>1, <5>1 DEF StartsAreTold
        <5> QED
          BY <2>1, <3>1, <4>1, <5>2
      <4>2. CASE i # L + 1
        <5>1. i \in 1 .. L /\ lifecycle[i] = "Stopped"
          BY <2>1, <3>1, <3>2, <4>2
        <5>2. i > 1 /\ lifecycle[i - 1] = "Started"
          BY <2>1, <5>1 DEF StartsAreTold
        <5> QED
          BY <2>1, <3>1, <5>1, <5>2
      <4> QED
        BY <4>1, <4>2
    <3> QED
      BY <2>2, <3>1, <3>2 DEF StartsAreTold
  <2>3. ASSUME UNCHANGED lifecycle, started' => started PROVE StartsAreTold'
    BY <2>3 DEF StartsAreTold
  <2>4. CASE Start
    BY <2>2, <2>3, <2>4 DEF Start, NotifyStarted
  <2>5. CASE Stop
    BY <2>2, <2>3, <2>5 DEF Stop, NotifyStopped
  <2>6. ASSUME NEW r \in Radio, NEW fallback \in BOOLEAN, AddInterface(r, fallback)
        PROVE  StartsAreTold'
    BY <2>3, <2>6 DEF AddInterface
  <2>7. ASSUME NEW d \in Destination, NEW r \in Radio, NEW a \in Address \union {NoAddress},
               SetRoute(d, r, a)
        PROVE  StartsAreTold'
    BY <2>3, <2>7 DEF SetRoute
  <2>8. ASSUME NEW d \in Destination, RemoveRoute(d) PROVE StartsAreTold'
    BY <2>3, <2>8 DEF RemoveRoute
  <2>9. CASE UNCHANGED vars
    BY <2>3, <2>9 DEF vars
  <2> QED
    BY <2>4, <2>5, <2>6, <2>7, <2>8, <2>9 DEF Next
<1> QED
  BY <1>1, <1>2, TypeCorrect, PTL DEF Spec

-----------------------------------------------------------------------------
(***************************************************************************)
(* Refinement.  Each step of the table is a step of the partial function,  *)
(* or none.                                                                *)
(***************************************************************************)

\* The partial function forgets in which entry a route is.
LEMMA RouteTableIs ==
    RouteTable = [d \in Destined |-> [radio |-> KnownRoutes[d].radio, nextHop |-> KnownRoutes[d].nextHop]]
BY DEF RouteTable, Destined, KnownRoutes

\* A table with an unused entry has fewer destinations than entries.
LEMMA UnusedLeavesRoom ==
    ASSUME RoutesTo(NoNode) # {}
    PROVE  Cardinality(Destined) < MaxRoutes
<1> DEFINE Used == RouteSlot \ RoutesTo(NoNode)
           f == [i \in Used |-> routes[i].destination]
<1>1. IsFiniteSet(RouteSlot) /\ Cardinality(RouteSlot) = MaxRoutes
  <2>1. 1 \in Int /\ MaxRoutes \in Int /\ ~(1 > MaxRoutes) /\ MaxRoutes - 1 + 1 = MaxRoutes
    BY TopologyAssumption
  <2> QED
    BY <2>1, FS_Interval DEF RouteSlot
<1>2. Used \subseteq RouteSlot /\ Used # RouteSlot
  BY DEF RoutesTo
<1>3. IsFiniteSet(Used) /\ Cardinality(Used) \in Nat /\ Cardinality(Used) < Cardinality(RouteSlot)
  <2>1. IsFiniteSet(Used) /\ Cardinality(Used) <= Cardinality(RouteSlot)
        /\ (Cardinality(Used) = Cardinality(RouteSlot) => Used = RouteSlot)
    BY <1>1, <1>2, FS_Subset
  <2>2. Cardinality(Used) \in Nat /\ Cardinality(RouteSlot) \in Nat
    BY <1>1, <2>1, FS_CardinalityType
  <2> QED
    BY <1>2, <2>1, <2>2
<1>4. Destined = {routes[i].destination : i \in Used}
  BY DEF Destined, RoutesTo
<1>5. f \in Surjection(Used, Destined)
  BY <1>4 DEF Surjection
<1>6. IsFiniteSet(Destined) /\ Cardinality(Destined) <= Cardinality(Used)
  BY <1>3, <1>5, FS_Surjection
<1>7. Cardinality(Destined) \in Nat
  BY <1>6, FS_CardinalityType
<1> QED
  BY <1>1, <1>3, <1>6, <1>7, TopologyAssumption

LEMMA RouteTableWritten ==
    ASSUME NEW d, NEW route, Destined' = Destined \union {d}, KnownRoutes' = With(KnownRoutes, d, route)
    PROVE  RouteTable' = [e \in DOMAIN RouteTable \union {d} |->
                             IF e = d THEN [radio |-> route.radio, nextHop |-> route.nextHop]
                             ELSE RouteTable[e]]
<1>1. DOMAIN RouteTable = Destined /\ DOMAIN KnownRoutes = Destined
  BY RouteTableIs DEF KnownRoutes
<1>2. RouteTable' = [e \in Destined' |-> [radio |-> KnownRoutes'[e].radio,
                                         nextHop |-> KnownRoutes'[e].nextHop]]
  BY DEF RouteTable, Destined, KnownRoutes
<1>3. \A e \in Destined' : KnownRoutes'[e] = IF e = d THEN route ELSE KnownRoutes[e]
  BY <1>1 DEF With
<1>4. \A e \in Destined : RouteTable[e] = [radio |-> KnownRoutes[e].radio, nextHop |-> KnownRoutes[e].nextHop]
  BY RouteTableIs
<1> QED
  BY <1>1, <1>2, <1>3, <1>4

LEMMA RouteTableCut ==
    ASSUME NEW d, Destined' = Destined \ {d}, KnownRoutes' = Without(KnownRoutes, d)
    PROVE  RouteTable' = [e \in DOMAIN RouteTable \ {d} |-> RouteTable[e]]
<1>1. DOMAIN RouteTable = Destined /\ DOMAIN KnownRoutes = Destined
  BY RouteTableIs DEF KnownRoutes
<1>2. RouteTable' = [e \in Destined' |-> [radio |-> KnownRoutes'[e].radio,
                                         nextHop |-> KnownRoutes'[e].nextHop]]
  BY DEF RouteTable, Destined, KnownRoutes
<1>3. \A e \in Destined' : KnownRoutes'[e] = KnownRoutes[e]
  BY <1>1 DEF Without
<1>4. \A e \in Destined : RouteTable[e] = [radio |-> KnownRoutes[e].radio, nextHop |-> KnownRoutes[e].nextHop]
  BY RouteTableIs
<1> QED
  BY <1>1, <1>2, <1>3, <1>4

LEMMA RoutingCounts == \A S : Routing!Cardinality(S) = Cardinality(S)
BY DEF Routing!Cardinality, Cardinality

\* A table of MaxRoutes entries with holes is, to those who look routes up,
\* a partial function of at most MaxRoutes destinations: SetRoute writes it at
\* one point and is refused only a new destination too many, RemoveRoute cuts
\* it at one point, and no other operation touches it.
THEOREM ImplementsRouting == Spec => RoutingSpec
<1>1. Init => Routing!Init
  <2> SUFFICES ASSUME Init PROVE Routing!Init
    OBVIOUS
  <2>1. \A i \in RouteSlot : routes[i].destination = NoNode
    BY DEF Init, NoRoute
  <2>2. Destined = {}
    BY <2>1 DEF Destined
  <2> QED
    BY <2>2, RouteTableIs DEF Routing!Init
<1>2. TopologyInv /\ [Next]_vars => [Routing!Next]_RouteTable
  <2> SUFFICES ASSUME TopologyInv, [Next]_vars PROVE [Routing!Next]_RouteTable
    OBVIOUS
  <2>0. DOMAIN RouteTable = Destined
    BY RouteTableIs
  <2>1. ASSUME NEW d \in Destination, NEW r \in Radio, NEW a \in Address \union {NoAddress},
               SetRoute(d, r, a)
        PROVE  Routing!Next
    <3> DEFINE entry == [destination |-> d, radio |-> r, nextHop |-> a]
               route == [radio |-> r, nextHop |-> a]
    <3>1. a \in Address /\ Destined' = Destined \union {d} /\ KnownRoutes' = With(KnownRoutes, d, entry)
      BY <2>1, SetRouteEffect
    <3>2. d # BroadcastNode /\ route \in [radio : Radio, nextHop : Address]
      BY <2>1, <3>1 DEF SetRoute
    <3>3. d \in Destined \/ Cardinality(Destined) < MaxRoutes
      <4>1. CASE RoutesTo(d) # {}
        BY <4>1, TopologyAssumption DEF Destined, RoutesTo
      <4>2. CASE RoutesTo(d) = {}
        BY <2>1, <4>2, UnusedLeavesRoom DEF SetRoute
      <4> QED
        BY <4>1, <4>2
    <3>4. RouteTable' = [e \in DOMAIN RouteTable \union {d} |-> IF e = d THEN route ELSE RouteTable[e]]
      BY <3>1, RouteTableWritten
    <3>5. Routing!Set(d, route)
      BY <2>0, <3>2, <3>3, <3>4, RoutingCounts DEF Routing!Set
    <3> QED
      BY <3>2, <3>5 DEF Routing!Next
  <2>2. ASSUME NEW d \in Destination, RemoveRoute(d) PROVE Routing!Next
    <3>1. d \in Destined /\ Destined' = Destined \ {d} /\ KnownRoutes' = Without(KnownRoutes, d)
      BY <2>2, RemoveRouteEffect
    <3>2. RouteTable' = [e \in DOMAIN RouteTable \ {d} |-> RouteTable[e]]
      BY <3>1, RouteTableCut
    <3> QED
      BY <2>0, <3>1, <3>2 DEF Routing!Next, Routing!Remove
  <2>3. ASSUME UNCHANGED routes PROVE UNCHANGED RouteTable
    BY <2>3 DEF RouteTable, RoutesTo
  <2>4. ASSUME NEW r \in Radio, NEW fallback \in BOOLEAN, AddInterface(r, fallback)
        PROVE  UNCHANGED RouteTable
    BY <2>3, <2>4 DEF AddInterface
  <2>5. CASE Start \/ Stop \/ UNCHANGED vars
    BY <2>3, <2>5 DEF Start, Stop, vars
  <2> QED
    BY <2>1, <2>2, <2>4, <2>5 DEF Next
<1> QED
  BY <1>1, <1>2, TopologyInvariant, PTL DEF Spec, RoutingSpec, Routing!Spec
=============================================================================
