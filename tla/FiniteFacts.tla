---------------------------- MODULE FiniteFacts -----------------------------
(***************************************************************************)
(* What the proofs about the libraries need of finite sets and of numbers. *)
(* The induction theorems of the library take an operator; what they are   *)
(* needed for is shown here, and below, from an element that is minimal    *)
(* among the counterexamples.                                              *)
(***************************************************************************)
EXTENDS Naturals, FiniteSetTheorems, TLAPS

(* Every non-empty set of finite sets has one none of the others is        *)
(* within: induction over finite sets, in the form that needs no operator. *)
LEMMA SmallestSet ==
  ASSUME NEW T, \A s \in T : IsFiniteSet(s), T # {}
  PROVE  \E s \in T : \A t \in T : t \subseteq s => t = s
<1> DEFINE S == UNION T
<1>1. IsWellFoundedOn(StrictSubsetOrdering(S), FiniteSubsetsOf(S))
  BY FS_StrictSubsetOrderingWellFounded
<1>2. T \subseteq FiniteSubsetsOf(S)
  BY DEF FiniteSubsetsOf
<1>3. PICK s \in T : \A t \in T : ~(<<t, s>> \in StrictSubsetOrdering(S))
  <2> HIDE DEF StrictSubsetOrdering, FiniteSubsetsOf
  <2> QED BY ONLY <1>1, <1>2, T # {}, WFMin
<1> QED
  BY <1>3 DEF StrictSubsetOrdering

(* Every set of numbers that is not empty has a least.                     *)
LEMMA Least ==
  ASSUME NEW S \in SUBSET Nat, S # {}
  PROVE  \E m \in S : \A n \in S : m <= n
<1> DEFINE T == {0..n : n \in S}
<1>1. T # {} /\ \A s \in T : IsFiniteSet(s)
  <2>1. \A n \in S : IsFiniteSet(0..n)
    BY FS_Interval
  <2> QED
    BY <2>1
<1>2. PICK s \in T : \A t \in T : t \subseteq s => t = s
  <2> HIDE DEF T
  <2> QED
    BY <1>1, SmallestSet
<1>3. PICK m \in S : s = 0..m
  OBVIOUS
<1>4. ASSUME NEW n \in S, n < m PROVE FALSE
  <2>1. 0..n \subseteq 0..m /\ 0..n \in T
    BY <1>4
  <2>2. 0..n = 0..m
    BY <1>2, <1>3, <2>1
  <2> QED
    BY <1>4, <2>2
<1> QED
  BY <1>4

(* A finite set of numbers that is not empty has a greatest.               *)
LEMMA Greatest ==
  ASSUME NEW S \in SUBSET Nat, IsFiniteSet(S), S # {}
  PROVE  \E m \in S : \A n \in S : n <= m
<1> DEFINE Above(m) == {n \in S : n > m}
<1> DEFINE T == {Above(m) : m \in S}
<1>1. T # {} /\ \A s \in T : IsFiniteSet(s)
  <2>1. \A m \in S : IsFiniteSet(Above(m))
    BY FS_Subset
  <2> QED
    BY <2>1
<1>3. PICK s \in T : \A t \in T : t \subseteq s => t = s
  <2> HIDE DEF T
  <2> QED BY <1>1, SmallestSet
<1>4. PICK m \in S : s = Above(m)
  OBVIOUS
<1>5. ASSUME NEW n \in S, n > m PROVE FALSE
  <2>1. Above(n) \subseteq Above(m) /\ Above(n) \in T
    <3>1. \A x \in S : x > n => x > m
      BY <1>5
    <3> QED BY <3>1
  <2>2. Above(n) = Above(m)
    BY <2>1, <1>3, <1>4
  <2>3. n \in Above(m) /\ n \notin Above(n)
    BY <1>5
  <2> QED BY <2>2, <2>3
<1> QED BY <1>5

(* A function of a finite set takes finitely many values.                  *)
LEMMA FiniteImage ==
  ASSUME NEW S, IsFiniteSet(S), NEW f, DOMAIN f = S, f = [x \in S |-> f[x]]
  PROVE  IsFiniteSet({f[x] : x \in S})
<1> DEFINE T == {f[x] : x \in S}
<1>1. f \in Surjection(S, T)
  BY DEF Surjection
<1> QED
  BY <1>1, FS_Surjection
=============================================================================
