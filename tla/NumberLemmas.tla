---------------------------- MODULE NumberLemmas ----------------------------
(***************************************************************************)
(* Facts about naturals that the proofs share: what a search from the      *)
(* front of a table finds, and how many pieces a payload is cut into.      *)
(***************************************************************************)
EXTENDS Naturals, TLAPS, FiniteSetTheorems, WellFoundedInduction

\* A non-empty set of naturals has a least element: the search of a table
\* from its front, where it finds anything, finds one entry.
THEOREM HasLeast ==
    ASSUME NEW S \in SUBSET Nat, S # {}
    PROVE  \E x \in S : \A y \in S : x <= y
<1> DEFINE Below(x) == {y \in S : y < x}
           T == {Below(x) : x \in S}
<1>1. ASSUME NEW x \in S PROVE IsFiniteSet(Below(x))
  <2>1. \A y \in Below(x) : y \in Nat /\ y < x
    OBVIOUS
  <2>2. x \in Nat
    OBVIOUS
  <2>3. \A y \in Below(x) : y \in 0 .. x - 1
    BY <2>1, <2>2
  <2>4. IsFiniteSet(0 .. x - 1)
    BY FS_Interval
  <2> QED
    BY <2>3, <2>4, FS_Subset
<1>2. T \subseteq FiniteSubsetsOf(S) /\ T # {}
  BY <1>1 DEF FiniteSubsetsOf
<1>3. PICK D \in T : \A E \in T : ~(<<E, D>> \in StrictSubsetOrdering(S))
  BY <1>2, FS_StrictSubsetOrderingWellFounded, WFMin
<1>4. PICK x \in S : D = Below(x)
  BY <1>3
<1>5. ASSUME NEW y \in S, y < x PROVE FALSE
  <2>1. Below(y) \subseteq Below(x) /\ Below(y) # Below(x)
    <3>1. y \in Below(x) /\ y \notin Below(y)
      BY <1>5
    <3>2. ASSUME NEW z \in Below(y) PROVE z \in Below(x)
      <4>1. x \in Nat /\ y \in Nat /\ z \in Nat /\ z \in S /\ z < y
        OBVIOUS
      <4> QED
        BY <4>1, <1>5
    <3> QED
      BY <3>1, <3>2, Zenon
  <2>2. <<Below(y), Below(x)>> \in StrictSubsetOrdering(S)
    BY <2>1 DEF StrictSubsetOrdering
  <2> QED
    BY <2>2, <1>3, <1>4
<1>6. \A y \in S : x <= y
  BY <1>5
<1> QED
  BY <1>6

\* The defining property of the quotient, for a positive divisor.
LEMMA DivBounds ==
    ASSUME NEW a \in Nat, NEW c \in Nat \ {0}
    PROVE  /\ a \div c \in Nat
           /\ (a \div c) * c <= a
           /\ a < (a \div c) * c + c
OBVIOUS

\* Pieces of c for something of size s: enough, and not one more.
LEMMA PiecesBounds ==
    ASSUME NEW s \in Nat \ {0}, NEW c \in Nat \ {0}
    PROVE  /\ (s + c - 1) \div c \in Nat \ {0}
           /\ s <= ((s + c - 1) \div c) * c
           /\ ((s + c - 1) \div c - 1) * c < s
<1> DEFINE q == (s + c - 1) \div c
<1>1. s + c - 1 \in Nat
  OBVIOUS
<1>2. q \in Nat /\ q * c <= s + c - 1 /\ s + c - 1 < q * c + c
  BY <1>1, DivBounds
<1> HIDE DEF q
<1>3. q * c \in Nat /\ (q - 1) * c = q * c - c
  BY <1>2
<1>4. q # 0
  BY <1>2
<1>5. q \in Nat \ {0} /\ s <= q * c /\ (q - 1) * c < s
  BY <1>2, <1>3, <1>4
<1> QED
  BY <1>5 DEF q
=============================================================================
