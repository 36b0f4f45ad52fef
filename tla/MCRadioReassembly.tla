------------------------- MODULE MCRadioReassembly --------------------------
(* One node and messages of one to three fragments, one of them reaching it  *)
(* by paths of two different MTUs, with the history of RadioEviction.         *)
EXTENDS RadioEviction

CONSTANTS a, b, c, d, big   \* contents
CONSTANTS n1, n2            \* the node, and where the messages come from

MCNode == {n1}

KeyOf(id) == [src |-> n2, dst |-> n1, chan |-> 0, id |-> id]

TwoPaths  == Fragments(KeyOf(1), a, 5, 3, 0) \union Fragments(KeyOf(1), a, 5, 4, 1)
Three     == Fragments(KeyOf(2), b, 3, 1, 0)
One       == Fragments(KeyOf(3), c, 2, 4, 0)
Empty     == Fragments(KeyOf(4), d, 0, 4, 0)
Oversized == Fragments(KeyOf(5), big, 9, 3, 0)
Own       == {[f EXCEPT !.key.src = n1] : f \in One}
Malformed == {[f EXCEPT !.cnt = 0] : f \in One} \union {[f EXCEPT !.size = @ - 1] : f \in One}

MCFrame == TwoPaths \union Three \union One \union Empty \union Oversized \union Own \union Malformed
=============================================================================
