------------------------------ MODULE Counting ------------------------------
(***************************************************************************)
(* Facts about finite sets that the proofs need to find a free number.     *)
(***************************************************************************)
EXTENDS Naturals, FiniteSets, FiniteSetTheorems, WellFoundedInduction, TLAPS

\* Less than n numbers leave one of 1..n out, and there is a first one.
LEMMA FirstFree ==
    ASSUME NEW n \in Nat, NEW H, IsFiniteSet(H), Cardinality(H) < n
    PROVE  \E o \in 1..n : o \notin H /\ \A p \in 1..(o - 1) : p \in H
<1> DEFINE free == (1..n) \ H
           ups  == {1..o : o \in free}
<1>1. free # {}
  <2> SUFFICES ASSUME 1..n \subseteq H PROVE FALSE
    OBVIOUS
  <2>1. Cardinality(1..n) = n
    BY FS_Interval
  <2>2. Cardinality(1..n) <= Cardinality(H)
    BY FS_Subset
  <2>3. Cardinality(H) \in Nat
    BY FS_CardinalityType
  <2> QED BY <2>1, <2>2, <2>3
<1>2. /\ IsFiniteSet(1..n)
      /\ FiniteSubsetsOf(1..n) = SUBSET (1..n)
      /\ ups \subseteq SUBSET (1..n) /\ ups # {}
  BY <1>1, FS_Interval, FS_FiniteSubsetsOfFinite
<1>3. PICK up \in ups :
         \A u \in ups : <<u, up>> \notin StrictSubsetOrdering(1..n)
  <2>1. IsWellFoundedOn(StrictSubsetOrdering(1..n), FiniteSubsetsOf(1..n))
    BY FS_StrictSubsetOrderingWellFounded
  <2> HIDE DEF ups
  <2> QED BY <1>2, <2>1, WFMin
<1>4. PICK o \in free : up = 1..o
  OBVIOUS
<1>5. ASSUME NEW p \in 1..(o - 1), p \notin H
      PROVE  FALSE
  <2>1. p \in free /\ 1..p \in ups
    BY <1>5
  <2>2. 1..p \subseteq 1..o /\ o \notin 1..p /\ o \in 1..o
    BY <1>5
  <2>3. <<1..p, up>> \in StrictSubsetOrdering(1..n)
    BY <1>2, <1>4, <2>1, <2>2 DEF StrictSubsetOrdering
  <2> QED BY <1>3, <2>1, <2>3
<1> QED BY <1>5

\* As many values as arguments, at the most.
LEMMA FewValues ==
    ASSUME NEW S, IsFiniteSet(S), NEW f, DOMAIN f = S,
           f = [x \in S |-> f[x]]
    PROVE  /\ IsFiniteSet({f[x] : x \in S})
           /\ Cardinality({f[x] : x \in S}) \in Nat
           /\ Cardinality({f[x] : x \in S}) <= Cardinality(S)
<1> DEFINE T == {f[x] : x \in S}
<1>1. f \in Surjection(S, T)
  BY DEF Surjection
<1> QED BY <1>1, FS_Surjection, FS_CardinalityType

\* The union of finite sets has at most as many elements as they have.
LEMMA FewTogether ==
    ASSUME NEW S, IsFiniteSet(S), NEW T, IsFiniteSet(T)
    PROVE  /\ IsFiniteSet(S \cup T)
           /\ Cardinality(S) \in Nat /\ Cardinality(T) \in Nat
           /\ Cardinality(S \cup T) \in Nat
           /\ Cardinality(S \cup T) <= Cardinality(S) + Cardinality(T)
<1>1. IsFiniteSet(S \cap T)
  BY FS_Subset
<1> QED BY <1>1, FS_Union, FS_CardinalityType
=============================================================================
