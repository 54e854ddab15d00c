---------------------------- MODULE SearchLemmas ----------------------------
(***************************************************************************)
(* What the searches of the kernel rest on: the first hit of a search is    *)
(* the least of its hits, and one turn around a table of n entries.         *)
(***************************************************************************)
EXTENDS Integers, FiniteSetsExt, WellFoundedInduction, TLAPS

\* A set of numbers that is not empty has a least element: Min is well defined
\* in the searches of alloc_proc, schedule(), msg_alloc and pmm_alloc.
LEMMA MinIsLeast ==
    ASSUME NEW S \in SUBSET Nat, S # {}
    PROVE  Min(S) \in S /\ \A y \in S : Min(S) <= y
<1> DEFINE R == {ss \in Nat \X Nat : ss[1] < ss[2]}
<1>1. OpToRel(<, Nat) = R
  BY Zenon DEF OpToRel
<1>2. IsWellFoundedOn(R, Nat)
  BY <1>1, NatLessThanWellFounded, Zenon
<1>3. PICK n \in S : \A m \in S : ~(<<m, n>> \in R)
  <2> HIDE DEF R
  <2> QED BY <1>2, WFMin
<1>4. \A a, b \in Nat : a < b => <<a, b>> \in R
  OBVIOUS
<1>5. ASSUME NEW m \in S PROVE n <= m
  <2> SUFFICES ASSUME ~(n <= m) PROVE FALSE
    OBVIOUS
  <2>1. m \in Nat /\ n \in Nat /\ m < n
    OBVIOUS
  <2>2. <<m, n>> \in R
    <3> HIDE DEF R
    <3> QED BY <2>1, <1>4
  <2> HIDE DEF R
  <2> QED BY <2>2, <1>3
<1> QED BY <1>5 DEF Min

\* One turn of a table: % either leaves an index alone or takes the size off.
LEMMA OneTurn ==
    ASSUME NEW n \in Nat \ {0}
    PROVE  \A a \in 0 .. (2 * n - 1) : a % n = IF a < n THEN a ELSE a - n
  OBVIOUS

\* Induction along the entries of a table, for a set of entries: what holds of
\* entry 0, and of each entry after one it holds of, holds of all of them.
LEMMA EntryInduction ==
    ASSUME NEW n \in Nat, NEW S, 0 \in S, \A i \in 0 .. (n - 1) : i \in S => i + 1 \in S
    PROVE  \A i \in 0 .. n : i \in S
<1> DEFINE Missed == {i \in 0 .. n : i \notin S}
<1> SUFFICES ASSUME Missed # {} PROVE FALSE
  OBVIOUS
<1>1. Missed \in SUBSET Nat
  OBVIOUS
<1>2. Min(Missed) \in Missed /\ \A y \in Missed : Min(Missed) <= y
  <2> HIDE DEF Missed
  <2> QED BY <1>1, MinIsLeast
<1>3. PICK k \in Missed : \A y \in Missed : k <= y
  BY <1>2
<1>4. k \in 1 .. n /\ k - 1 \in 0 .. (n - 1) /\ k - 1 \notin Missed /\ k \notin S
  BY <1>3
<1>5. k - 1 \in S
  BY <1>4
<1>6. (k - 1) + 1 \in S
  BY <1>4, <1>5
<1> QED BY <1>4, <1>6

\* A set of entries of a table that is not empty has a greatest element, which is
\* what the search of kmalloc, from the youngest block on, returns.
LEMMA MaxIsGreatest ==
    ASSUME NEW n \in Nat, NEW S \in SUBSET (0 .. n), S # {}
    PROVE  Max(S) \in S /\ \A y \in S : Max(S) >= y
<1> DEFINE T == {n - x : x \in S}
<1>1. T \in SUBSET Nat /\ T # {}
  <2>1. \A x \in S : n - x \in Nat
    OBVIOUS
  <2> QED BY <2>1
<1>2. PICK t \in T : \A y \in T : t <= y
  <2> HIDE DEF T
  <2> QED BY <1>1, MinIsLeast
<1>3. PICK x \in S : t = n - x
  OBVIOUS
<1>4. \A y \in S : x >= y
  <2> SUFFICES ASSUME NEW y \in S PROVE x >= y
    OBVIOUS
  <2>1. n - y \in T /\ n - x <= n - y
    BY <1>2, <1>3
  <2> QED BY <2>1
<1> QED BY <1>4 DEF Max
=============================================================================
