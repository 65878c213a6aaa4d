------------------------------ MODULE Induction ------------------------------
(***************************************************************************)
(* Induction in a form the provers can use: over sets instead of           *)
(* predicates.  A property is the set of its counterexamples; a non-empty  *)
(* set of numbers has a least element, a non-empty family of subsets of a  *)
(* finite set has a minimal one, and that one contradicts the step.        *)
(***************************************************************************)
EXTENDS Integers, FiniteSets, FiniteSetTheorems, TLAPS

\* Among subsets of a finite set there is one that contains no other.
LEMMA MinimalSubset ==
    ASSUME NEW S, IsFiniteSet(S), NEW F, F \subseteq SUBSET S, F # {}
    PROVE  \E x \in F : \A y \in F : y \subseteq x => y = x
<1>1. IsWellFoundedOn(StrictSubsetOrdering(S), SUBSET S)
  BY FS_StrictSubsetOrderingWellFounded, FS_FiniteSubsetsOfFinite, Zenon
<1>2. PICK x \in F : \A y \in F : ~ (<<y, x>> \in StrictSubsetOrdering(S))
  BY <1>1, WFMin, Zenon
<1>3. ASSUME NEW y \in F, y \subseteq x
      PROVE  y = x
  <2>1. <<y, x>> \notin StrictSubsetOrdering(S)
    BY <1>2, <1>3
  <2> QED
    BY <1>3, <2>1 DEF StrictSubsetOrdering
<1> QED
  BY <1>3

\* Among natural numbers up to a bound there is a least one.
LEMMA LeastBelow ==
    ASSUME NEW n \in Nat, NEW T, T \subseteq 0 .. n, T # {}
    PROVE  \E m \in T : \A k \in T : m <= k
<1> DEFINE F == {0 .. k : k \in T}
           D == 0 .. n
<1>1. \A k \in T : 0 .. k \in SUBSET D
  OBVIOUS
<1>2. IsFiniteSet(D)
  BY FS_Interval
<1> HIDE DEF D
<1>3. F \subseteq SUBSET D
  BY <1>1, Zenon
<1>4. F # {}
  BY Zenon
<1>5. \A x \in F : \E k \in T : x = 0 .. k
  BY Zenon
<1>6. \A k \in T : 0 .. k \in F
  BY Zenon
<1> HIDE DEF F
<1>7. PICK x \in F : \A y \in F : y \subseteq x => y = x
  BY <1>2, <1>3, <1>4, MinimalSubset
<1>8. PICK m \in T : x = 0 .. m
  BY <1>5, Zenon
<1>9. ASSUME NEW k \in T, k < m
      PROVE  FALSE
  <2>1. 0 .. k \in F /\ 0 .. k \subseteq 0 .. m
    BY <1>6, <1>9
  <2>2. 0 .. k = 0 .. m
    BY <1>7, <1>8, <2>1, Zenon
  <2>3. m \in 0 .. m /\ m \notin 0 .. k
    BY <1>9
  <2> QED
    BY <2>2, <2>3, Zenon
<1> QED
  BY <1>9

\* What holds of zero, and of a number whenever it holds of the one before it,
\* holds of all numbers up to a bound.
LEMMA UpTo ==
    ASSUME NEW n \in Nat, NEW P, 0 \in P,
           \A k \in 0 .. (n - 1) : k \in P => k + 1 \in P
    PROVE  \A k \in 0 .. n : k \in P
<1> DEFINE T == {k \in 0 .. n : k \notin P}
<1>1. SUFFICES ASSUME T # {} PROVE FALSE
  OBVIOUS
<1>2. PICK m \in T : \A k \in T : m <= k
  BY <1>1, LeastBelow
<1>3. m # 0 /\ m - 1 \in 0 .. (n - 1)
  BY <1>2
<1>4. m - 1 \in P
  BY <1>2, <1>3
<1> QED
  BY <1>2, <1>3, <1>4
=============================================================================
