---------------------------- MODULE BoundedSets -----------------------------
(***************************************************************************)
(* Least and greatest elements of sets of integers.  Max stands for the    *)
(* downward scans of the event loop: the search for the next registered    *)
(* descriptor and the walk along the list of timers.                       *)
(***************************************************************************)
EXTENDS Integers, FiniteSetsExt, TLAPS, WellFoundedInduction

\* A non-empty set of natural numbers has a least element: the searches for
\* the nearest timer, the highest and the lowest free descriptor rest on it,
\* and arguments along the queue of a connection.
LEMMA LeastNat ==
    ASSUME NEW S, S \subseteq Nat, S # {}
    PROVE  \E x \in S : \A y \in S : x <= y
<1> DEFINE R == OpToRel(<, Nat)
<1>1. PICK x \in S : \A y \in S : ~ (<<y, x>> \in R)
  <2>1. IsWellFoundedOn(R, Nat)
    BY NatLessThanWellFounded DEF R
  <2> HIDE DEF R
  <2> QED  BY <2>1, WFMin
<1>2. \A y \in S : ~ (y < x)
  BY <1>1 DEF OpToRel
<1> QED  BY <1>2

\* A non-empty set of integers below n has a maximum, and Max returns it:
\* what the downward scan of aeDeleteFileEvent relies on to end.
LEMMA MaxOfBounded ==
    ASSUME NEW n \in Nat, NEW S, S \subseteq -1 .. n - 1, S # {}
    PROVE  Max(S) \in S /\ \A y \in S : Max(S) >= y
<1> DEFINE T == {k \in Nat : n - k \in S}
<1>1. T \subseteq Nat /\ T # {}
  <2>1. PICK x \in S : TRUE
    OBVIOUS
  <2>2. n - x \in Nat /\ n - (n - x) = x
    OBVIOUS
  <2> QED  BY <2>1, <2>2
<1>2. PICK k \in T : \A j \in T : k <= j
  <2> HIDE DEF T
  <2> QED  BY <1>1, LeastNat
<1>3. n - k \in S /\ \A y \in S : n - k >= y
  <2>1. ASSUME NEW y \in S PROVE n - k >= y
    <3>1. n - y \in T
      OBVIOUS
    <3>2. k <= n - y
      BY <1>2, <3>1
    <3> QED  BY <3>2
  <2> QED  BY <2>1
<1> HIDE DEF T
<1>4. \E x \in S : \A y \in S : x >= y
  BY <1>3
<1> QED  BY <1>4 DEF Max

\* Max is the only upper bound that is a member.
LEMMA MaxIs ==
    ASSUME NEW n \in Nat, NEW S, S \subseteq -1 .. n - 1,
           NEW x \in S, \A y \in S : x >= y
    PROVE  Max(S) = x
<1>1. S # {}
  OBVIOUS
<1>2. Max(S) \in S /\ \A y \in S : Max(S) >= y
  BY <1>1, MaxOfBounded
<1> DEFINE m == Max(S)
<1> HIDE DEF m
<1>3. m \in S /\ m >= x /\ x >= m
  BY <1>2 DEF m
<1>4. m = x
  BY <1>3
<1> QED  BY <1>4 DEF m

\* The step of a downward walk: the largest member of S below x, or -1.  No
\* member lies between the two.
LEMMA LargestBelow ==
    ASSUME NEW n \in Nat, NEW S, S \subseteq 0 .. n - 1, NEW x \in Int
    PROVE  LET y == Max({j \in S : j < x} \cup {-1})
           IN  /\ y \in S \cup {-1}
               /\ y \in Int
               /\ \A j \in S : j < x => j <= y
<1> DEFINE B == {j \in S : j < x} \cup {-1}
           y == Max(B)
<1>0. \A j \in S : j \in -1 .. n - 1
  OBVIOUS
<1>1. B \subseteq -1 .. n - 1 /\ B # {}
  <2>1. B \subseteq S \cup {-1} /\ -1 \in B
    OBVIOUS
  <2>2. -1 \in -1 .. n - 1
    OBVIOUS
  <2> HIDE DEF B
  <2> QED  BY <1>0, <2>1, <2>2
<1>2. y \in B /\ \A j \in B : y >= j
  <2> HIDE DEF B
  <2> QED  BY <1>1, MaxOfBounded
<1>3. y \in S \cup {-1} /\ y \in Int
  <2> HIDE DEF y
  <2> QED  BY <1>1, <1>2
<1>4. ASSUME NEW j \in S, j < x PROVE j <= y
  <2>1. j \in B /\ j \in Int
    BY <1>4
  <2> HIDE DEF y, B
  <2> QED  BY <1>2, <1>3, <2>1
<1> QED  BY <1>3, <1>4

\* The start of a downward walk: the largest member of S, or -1.
LEMMA LargestOf ==
    ASSUME NEW n \in Nat, NEW S, S \subseteq 0 .. n - 1
    PROVE  LET y == Max(S \cup {-1})
           IN  /\ y \in S \cup {-1}
               /\ y \in Int
               /\ \A j \in S : j <= y
<1> DEFINE B == S \cup {-1}
           y == Max(B)
<1>1. B \subseteq -1 .. n - 1 /\ B # {}
  OBVIOUS
<1>2. y \in B /\ \A j \in B : y >= j
  <2> HIDE DEF B
  <2> QED  BY <1>1, MaxOfBounded
<1> HIDE DEF y
<1>3. y \in Int /\ \A j \in S : j <= y
  BY <1>1, <1>2
<1> QED  BY <1>2, <1>3 DEF y
=============================================================================
