--------------------------- MODULE MCRadioNetwork ---------------------------
(* Small networks for RadioNetwork.  With a header of one byte, an MTU of 4  *)
(* takes three bytes of payload and an MTU of 5 takes four.                  *)
EXTENDS RadioNetwork

CONSTANTS n1, n2, n3, n4      \* nodes
CONSTANTS m1, m2, m3, m4, m5   \* messages

Radio(mtu, peers) == [mtu |-> mtu, peers |-> peers, broadcast |-> TRUE, fallback |-> TRUE]

Via(nextHop) == [interface |-> 1, nextHop |-> nextHop]

NoRoutes == [d \in {} |-> Via(n1)]

(* One link, n1 - n2, and two messages of the same shape. *)
PairNode       == {n1, n2}
PairInterfaces == [n \in PairNode |-> <<Radio(4, PairNode \ {n})>>]
PairRoutes     == [n \in PairNode |-> NoRoutes]
PairSender     == [m \in {m1, m2} |-> n1]
PairDest       == [m \in {m1, m2} |-> n2]
PairBytes      == [m \in {m1, m2} |-> IF m = m1 THEN 5 ELSE 6]

(* Two paths from n1 to n4 with different MTUs: by n2 and by n3. *)
DiamondNode       == {n1, n2, n3, n4}
DiamondInterfaces == [n \in DiamondNode |->
    CASE n = n1 -> <<Radio(5, {n2, n3})>>
      [] n = n2 -> <<Radio(4, {n1, n4})>>
      [] n = n3 -> <<Radio(5, {n1, n4})>>
      [] n = n4 -> <<Radio(4, {n2}), Radio(5, {n3})>>]
DiamondRoutes     == [n \in DiamondNode |->
    IF n \in {n2, n3} THEN [d \in {n4} |-> Via(n4)] ELSE NoRoutes]
DiamondSender     == [m \in {m1, m2} |-> n1]
DiamondDest       == [m \in {m1, m2} |-> n4]
DiamondBytes      == [m \in {m1, m2} |-> IF m = m1 THEN 5 ELSE 2]

(* A line n1 - n2 - n3 - n4 of different MTUs, that from n2 to n1 so small  *)
(* that m5, and the broadcast m4, would take too many fragments on it.  n2   *)
(* and n3 each believe n4 to be behind the other: m1 and m2, for n4, come    *)
(* back to n2 with their last hop.  m3, from n4 to n1, takes as many.        *)
LineNode       == {n1, n2, n3, n4}
LineInterfaces == [n \in LineNode |->
    CASE n = n1 -> <<Radio(4, {n2})>>
      [] n = n2 -> <<Radio(2, {n1}), Radio(5, {n3})>>
      [] n = n3 -> <<Radio(5, {n2}), Radio(5, {n4})>>
      [] n = n4 -> <<Radio(4, {n3})>>]
LineRoutes     == [n \in LineNode |->
    CASE n \in {n1, n4} -> NoRoutes
      [] n = n2 -> [d \in {n3, n4} |-> [interface |-> 2, nextHop |-> n3]]
      [] n = n3 -> [d \in {n4} |-> Via(n2)]]
LineMsg        == {m1, m2, m3, m4, m5}
LineSender     == [m \in LineMsg |->
    CASE m \in {m1, m2} -> n1 [] m = m3 -> n4 [] m \in {m4, m5} -> n2]
LineDest       == [m \in LineMsg |->
    CASE m \in {m1, m2} -> n4 [] m \in {m3, m5} -> n1 [] m = m4 -> BroadcastNode]
LineBytes      == [m \in LineMsg |-> IF m \in {m4, m5} THEN 8 ELSE 1]

(* The line has what the theorem about Delivered assumes. *)
ASSUME LineFulfils ==
    Msg = LineMsg => IdsSuffice /\ OneWay /\ BroadcastOnce /\ SlotsSuffice

(* Every packet these messages can be cut into. *)
Cuts(m) == {chunk \in {1, 3, 4, 5} : FragmentCount(Bytes[m], chunk) <= MaxByte}

MCFrame ==
    UNION {UNION {Fragments([src |-> Sender[m], dst |-> Dest[m], chan |-> 0, id |-> id],
                            m, Bytes[m], chunk, hop) : chunk \in Cuts(m)} :
             m \in Msg, id \in 1 .. IdModulus - 1, hop \in 0 .. DefaultHopLimit}
=============================================================================
