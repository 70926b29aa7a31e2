--------------------------- MODULE DepGraphProofs ---------------------------
(***************************************************************************)
(* Facts about the graph that the proofs of its users share.               *)
(***************************************************************************)
EXTENDS DepGraph, FiniteSetTheorems, TLAPS

\* What the proofs use of ng_verify().
LEMMA GraphFacts ==
  /\ N \in Nat \ {0}
  /\ Rdep \in [Svc -> SUBSET Svc]
  /\ \A i \in Svc : \A d \in Rdep[i] : i < d
  BY GraphAssumption DEF ng_verify

-----------------------------------------------------------------------------
(* Finite sets of services. *)

\* There are finitely many services.
LEMMA SvcFinite == IsFiniteSet(Svc)
  BY GraphFacts, FS_Interval DEF Svc

\* A set of services has a cardinality.
LEMMA SubFinite ==
  ASSUME NEW S, S \subseteq Svc
  PROVE  IsFiniteSet(S) /\ Cardinality(S) \in Nat
  BY SvcFinite, FS_Subset, FS_CardinalityType

\* The prerequisites of a service are services.
LEMMA PrereqsIn ==
  ASSUME NEW d \in Svc
  PROVE  Prereqs(d) \subseteq Svc
  BY DEF Prereqs

\* The count of two disjoint sets of services is the sum of their counts.
LEMMA SplitCount ==
  ASSUME NEW A, NEW B, A \subseteq Svc, B \subseteq Svc, A \cap B = {}
  PROVE  Cardinality(A \cup B) = Cardinality(A) + Cardinality(B)
  <1>1. IsFiniteSet(A) /\ IsFiniteSet(B) /\ Cardinality(A) \in Nat /\ Cardinality(B) \in Nat
    BY SubFinite
  <1>2. Cardinality(A \cup B) = Cardinality(A) + Cardinality(B) - Cardinality(A \cap B)
    BY <1>1, FS_Union
  <1>3. Cardinality(A \cap B) = 0
    BY FS_EmptySet
  <1> QED  BY <1>1, <1>2, <1>3

-----------------------------------------------------------------------------
(* What the worklists reach. *)

\* The closure holds the set it starts from, and services only.
LEMMA ReachHolds ==
  ASSUME NEW S, NEW R, S \subseteq Svc
  PROVE  S \subseteq Reach(S, R) /\ Reach(S, R) \subseteq Svc
  BY DEF Reach

\* The closure is within every closed set that holds the set it starts from.
LEMMA ReachWithin ==
  ASSUME NEW S, NEW R, NEW T \in SUBSET Svc, S \subseteq T, \A j \in T : R[j] \subseteq T
  PROVE  Reach(S, R) \subseteq T
  BY DEF Reach

\* The closure is closed.
LEMMA ReachClosed ==
  ASSUME NEW S, NEW R, NEW j \in Reach(S, R), NEW d \in R[j], d \in Svc
  PROVE  d \in Reach(S, R)
  BY DEF Reach

\* Whatever is reached and was not there from the start is reached from something.
LEMMA ReachFrom ==
  ASSUME NEW S, NEW R, S \subseteq Svc, \A j \in Svc : R[j] \subseteq Svc,
         NEW d \in Reach(S, R), d \notin S
  PROVE  \E j \in Reach(S, R) : d \in R[j]
  <1> DEFINE T == {k \in Reach(S, R) : k \in S \/ \E j \in Reach(S, R) : k \in R[j]}
  <1>1. S \subseteq Reach(S, R) /\ Reach(S, R) \subseteq Svc
    BY ReachHolds
  <1>2. T \in SUBSET Svc /\ S \subseteq T
    BY <1>1
  <1>3. ASSUME NEW j \in T, NEW k \in R[j]
        PROVE  k \in T
    <2>1. j \in Reach(S, R) /\ k \in Svc
      BY <1>1, <1>3
    <2>2. k \in Reach(S, R)
      BY <2>1, <1>3, ReachClosed
    <2> QED  BY <2>1, <2>2
  <1>4. \A j \in T : R[j] \subseteq T
    BY <1>3
  <1> HIDE DEF T
  <1>5. Reach(S, R) \subseteq T
    BY <1>2, <1>4, ReachWithin
  <1> QED  BY <1>5 DEF T
=============================================================================
