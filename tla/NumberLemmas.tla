---------------------------- MODULE NumberLemmas -----------------------------
(***************************************************************************)
(* Some of the first n numbers have a smallest and a greatest one, which   *)
(* is what several components choose next.                                 *)
(***************************************************************************)
EXTENDS Naturals, FiniteSets, FiniteSetTheorems, WellFoundedInduction, TLAPS

\* Some numbers up to n have a smallest one: the library has it for the natural
\* numbers with an operator for a parameter only, so it is derived from finite
\* sets, of what lies below each of them.
LEMMA SmallestOfSome ==
  ASSUME NEW n \in Nat, NEW T \in SUBSET (1 .. n), T # {}
  PROVE  \E k \in T : \A l \in T : k <= l
<1> DEFINE below(k) == {l \in T : l < k}
           rests == {below(k) : k \in T}
<1>1. IsFiniteSet(1 .. n)
  BY FS_Interval
<1>2. IsWellFoundedOn(StrictSubsetOrdering(1 .. n), FiniteSubsetsOf(1 .. n))
  BY FS_StrictSubsetOrderingWellFounded
<1>3. rests \subseteq FiniteSubsetsOf(1 .. n) /\ rests # {}
  <2>1. FiniteSubsetsOf(1 .. n) = SUBSET (1 .. n)
    BY <1>1, FS_FiniteSubsetsOfFinite
  <2>2. rests \subseteq SUBSET (1 .. n)
    OBVIOUS
  <2>3. PICK k \in T : TRUE
    OBVIOUS
  <2>4. below(k) \in rests
    OBVIOUS
  <2> QED  BY <2>1, <2>2, <2>4
<1>4. PICK least \in rests : \A other \in rests : <<other, least>> \notin StrictSubsetOrdering(1 .. n)
  <2> HIDE DEF rests
  <2> QED  BY <1>2, <1>3, WFMin
<1>5. PICK k \in T : least = below(k)
  BY <1>4
<1>6. ASSUME NEW l \in T, l < k  PROVE FALSE
  <2>1. \A m \in T : m \in Int
    OBVIOUS
  <2>2. below(l) \in rests /\ below(l) \subseteq below(k)
    <3>1. below(l) \in rests
      OBVIOUS
    <3>2. \A m \in T : m < l => m < k
      BY <1>6, <2>1
    <3> QED  BY <3>1, <3>2
  <2>3. l \in below(k) /\ l \notin below(l)
    BY <1>6, <2>1
  <2>4. below(l) \in SUBSET (1 .. n) /\ below(k) \in SUBSET (1 .. n)
    OBVIOUS
  <2> HIDE DEF below, rests
  <2>5. <<below(l), below(k)>> \in StrictSubsetOrdering(1 .. n)
    BY <2>2, <2>3, <2>4 DEF StrictSubsetOrdering
  <2> QED  BY <1>4, <1>5, <2>2, <2>5
<1>7. \A l \in T : l \in Int /\ k \in Int
  OBVIOUS
<1> QED  BY <1>6, <1>7

\* And a greatest one.
LEMMA GreatestOfSome ==
  ASSUME NEW n \in Nat, NEW T \in SUBSET (1 .. n), T # {}
  PROVE  \E k \in T : \A l \in T : l <= k
<1> DEFINE mirror == {n + 1 - k : k \in T}
<1>1. \A k \in T : k \in 1 .. n
  OBVIOUS
<1>2. mirror \in SUBSET (1 .. n) /\ mirror # {}
  <2>1. \A k \in T : n + 1 - k \in 1 .. n
    BY <1>1
  <2>2. PICK k \in T : TRUE
    OBVIOUS
  <2>3. n + 1 - k \in mirror
    OBVIOUS
  <2> QED  BY <2>1, <2>3
<1>3. PICK m \in mirror : \A o \in mirror : m <= o
  <2> HIDE DEF mirror
  <2> QED  BY <1>2, SmallestOfSome
<1>4. PICK k \in T : m = n + 1 - k
  BY <1>3
<1>5. ASSUME NEW l \in T PROVE l <= k
  <2>1. n + 1 - l \in mirror
    OBVIOUS
  <2>2. m <= n + 1 - l
    BY <1>3, <2>1
  <2> QED  BY <1>1, <1>4, <2>2
<1> QED  BY <1>5
=============================================================================
