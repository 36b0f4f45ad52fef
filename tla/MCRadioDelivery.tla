--------------------------- MODULE MCRadioDelivery ---------------------------
(* One node and two slots: a message for it, one that is broadcast, one for  *)
(* another node in two hops, the same with no hop left, a packet cut for      *)
(* another MTU, and one of a message that is too large.                       *)
EXTENDS RadioDelivery

CONSTANTS a, b, c, d, big   \* contents
CONSTANTS n1, n2, n3, all   \* this node, the sender, another, and all

MCNode == {n1}

KeyTo(node, id) == [src |-> n2, dst |-> node, chan |-> 0, id |-> id]

Mine      == Fragments(KeyTo(n1, 1), a, 3, 2, 0)
OtherCut  == {Fragment(KeyTo(n1, 1), a, 3, 1, 0, 0)}
ToAll     == Fragments(KeyTo(all, 2), b, 3, 2, 0)
Onward    == Fragments(KeyTo(n3, 3), c, 1, 2, 1)
Spent     == Fragments(KeyTo(n3, 4), d, 1, 2, 0)
Oversized == {Fragment(KeyTo(n1, 5), big, 9, 3, 0, 0)}

MCFrame == Mine \union OtherCut \union ToAll \union Onward \union Spent \union Oversized
=============================================================================
