---------------------------- MODULE RadioRouting ----------------------------
(***************************************************************************)
(* What SetRoute, RemoveRoute and FindRoute promise, of whatever table: a  *)
(* partial function from destinations to routes, with room for so many.    *)
(***************************************************************************)
EXTENDS Naturals, FiniteSets

CONSTANTS Destination,  \* the nodes a route may lead to
          Route,        \* what a route may say: [radio, nextHop]
          MaxRoutes     \* ESPRESSIO_RADIO_MAX_ROUTES

VARIABLE routeTo

Init == routeTo = [d \in {} |-> CHOOSE r \in Route : TRUE]

\* A route that exists can always be changed, a new one needs room.
Set(d, r) ==
    /\ d \in DOMAIN routeTo \/ Cardinality(DOMAIN routeTo) < MaxRoutes
    /\ routeTo' = [e \in DOMAIN routeTo \union {d} |-> IF e = d THEN r ELSE routeTo[e]]

Remove(d) ==
    /\ d \in DOMAIN routeTo
    /\ routeTo' = [e \in DOMAIN routeTo \ {d} |-> routeTo[e]]

Next == \E d \in Destination : Remove(d) \/ \E r \in Route : Set(d, r)

Spec == Init /\ [][Next]_routeTo
=============================================================================
