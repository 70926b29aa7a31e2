-------------------------- MODULE StopOrderedProofs --------------------------
(***************************************************************************)
(* Proofs about StopOrdered.tla, for every graph ng_verify() accepts.      *)
(***************************************************************************)
EXTENDS StopOrdered, DepGraphProofs

\* What DependentsFirst rests on, one edge at a time: a service that was signalled or
\* settled has settled dependents only, and what is settled is gone.
Edges ==
  /\ \A i \in Svc : st[i] # 0 => \A d \in Rdep[i] : st[d] = 2
  /\ \A i \in Svc : st[i] = 2 => i \notin alive

\* Before stop_ordered()'s loop nothing was signalled.
Fresh == pc = "begin" => \A i \in Svc : st[i] = 0

IInv == TypeOK /\ CountsExact /\ Edges /\ Fresh

-----------------------------------------------------------------------------

\* Dependents are services.
LEMMA RdepIn ==
  ASSUME NEW p \in Svc
  PROVE  Rdep[p] \subseteq Svc
  BY GraphFacts

\* A service whose turn it is has settled dependents only.
LEMMA FreeSettled ==
  ASSUME IInv, pc \in InOrder, NEW i \in Svc, Free(i)
  PROVE  \A d \in Rdep[i] : st[d] = 2
  <1> DEFINE A == {d \in Rdep[i] : st[d] # 2}
  <1>1. A \subseteq Svc
    BY RdepIn
  <1>2. Cardinality(A) = 0
    BY DEF IInv, CountsExact, Free
  <1>3. A = {}
    BY <1>1, <1>2, SubFinite, FS_EmptySet
  <1> QED  BY <1>3

\* A set that loses some of its members is smaller by their number.
LEMMA LessCount ==
  ASSUME NEW A, NEW B, A \subseteq Svc, B \subseteq A
  PROVE  /\ Cardinality(A \ B) = Cardinality(A) - Cardinality(B)
         /\ Cardinality(B) <= Cardinality(A)
  <1>1. (A \ B) \cup B = A /\ A \ B \subseteq Svc /\ B \subseteq Svc /\ (A \ B) \cap B = {}
    OBVIOUS
  <1>2. Cardinality(A) = Cardinality(A \ B) + Cardinality(B)
    BY <1>1, SplitCount, Zenon
  <1>3. Cardinality(A) \in Nat /\ Cardinality(B) \in Nat /\ Cardinality(A \ B) \in Nat
    BY SubFinite
  <1> QED  BY <1>2, <1>3

LEMMA InitIInv == Init => IInv
  BY DEF Init, IInv, TypeOK, CountsExact, InOrder, Edges, Fresh

\* The start of the loop: nothing is settled yet.
LEMMA BeginStep == IInv /\ begin => IInv'
  <1> SUFFICES ASSUME IInv, begin PROVE IInv'
    OBVIOUS
  <1>1. /\ alive' = alive /\ others' = others /\ st' = st /\ pc = "begin" /\ pc' = "signal"
        /\ left' = N /\ waitc' = [i \in Svc |-> Cardinality(Rdep[i])]
    BY DEF begin
  <1>2. \A i \in Svc : st[i] = 0
    BY <1>1 DEF IInv, Fresh
  <1>3. TypeOK'
    <2>1. waitc' \in [Svc -> Nat]
      BY <1>1, RdepIn, SubFinite
    <2> QED  BY <1>1, <2>1, GraphFacts DEF IInv, TypeOK, InOrder
  <1>4. CountsExact'
    <2>1. {i \in Svc : st'[i] # 2} = Svc
      BY <1>1, <1>2
    <2>2. Cardinality(Svc) = N
      BY GraphFacts, FS_Interval DEF Svc
    <2>3. ASSUME NEW i \in Svc
          PROVE  waitc'[i] = Cardinality({d \in Rdep[i] : st'[d] # 2})
      <3>1. {d \in Rdep[i] : st'[d] # 2} = Rdep[i]
        BY <1>1, <1>2, RdepIn
      <3> QED  BY <1>1, <3>1
    <2> QED  BY <1>1, <2>1, <2>2, <2>3 DEF CountsExact
  <1>5. Edges' /\ Fresh'
    BY <1>1 DEF IInv, Edges, Fresh
  <1> QED  BY <1>3, <1>4, <1>5 DEF IInv

\* The first loop of a pass signals only services whose dependents are settled.
LEMMA SignalStep ==
  ASSUME IInv, NEW K, signal_loop(K)
  PROVE  IInv'
  <1>1. /\ alive' = alive /\ others' = others /\ waitc' = waitc /\ left' = left
        /\ pc = "signal" /\ pc' = "reap"
        /\ K \subseteq {i \in Svc : Free(i) /\ st[i] = 1}
        /\ st' = [i \in Svc |-> IF Free(i) /\ st[i] = 0 /\ i \in alive THEN 1
                                ELSE IF i \in K THEN 3 ELSE st[i]]
    BY DEF signal_loop
  <1>2. st \in [Svc -> 0..3]
    BY DEF IInv, TypeOK
  <1>3. ASSUME NEW i \in Svc
        PROVE  /\ st'[i] \in 0..3
               /\ (st'[i] = 2) <=> (st[i] = 2)
               /\ st'[i] # 0 => st[i] # 0 \/ Free(i)
    BY <1>1, <1>2
  <1>4. st' \in [Svc -> 0..3]
    BY <1>1, <1>3
  <1>5. TypeOK'
    BY <1>1, <1>4 DEF IInv, TypeOK, InOrder
  <1>6. CountsExact'
    <2>1. {i \in Svc : st'[i] # 2} = {i \in Svc : st[i] # 2}
      BY <1>3
    <2>2. ASSUME NEW i \in Svc
          PROVE  {d \in Rdep[i] : st'[d] # 2} = {d \in Rdep[i] : st[d] # 2}
      BY <1>3, RdepIn
    <2>3. pc \in InOrder
      BY <1>1 DEF InOrder
    <2> QED  BY <1>1, <2>1, <2>2, <2>3 DEF IInv, CountsExact
  <1>7. ASSUME NEW i \in Svc, st'[i] # 0, NEW d \in Rdep[i]
        PROVE  st'[d] = 2
    <2>1. st[d] = 2
      BY <1>1, <1>3, <1>7, FreeSettled DEF IInv, Edges, InOrder
    <2> QED  BY <1>3, <2>1, RdepIn
  <1>8. ASSUME NEW i \in Svc, st'[i] = 2
        PROVE  i \notin alive'
    BY <1>1, <1>3, <1>8 DEF IInv, Edges
  <1> QED  BY <1>1, <1>5, <1>6, <1>7, <1>8 DEF IInv, Edges, Fresh

\* The second loop of a pass settles what is gone and tells the prerequisites.
LEMMA SettleStep == IInv /\ settle_loop => IInv'
  <1> SUFFICES ASSUME IInv, settle_loop PROVE IInv'
    OBVIOUS
  <1>1. /\ alive' = alive /\ others' = others /\ pc = "reap"
        /\ pc' = (IF left' = 0 THEN "term" ELSE "check")
        /\ st' = [i \in Svc |-> IF i \in Gone THEN 2 ELSE st[i]]
        /\ left' = left - Cardinality(Gone)
        /\ told(Gone)
    BY DEF settle_loop
  <1>2. pc \in InOrder /\ st \in [Svc -> 0..3]
    BY <1>1 DEF InOrder, IInv, TypeOK
  <1>3. /\ Gone \subseteq {i \in Svc : st[i] # 2}
        /\ \A i \in Gone : Free(i) /\ i \notin alive
    BY DEF Gone, Free
  <1>4. ASSUME NEW i \in Svc
        PROVE  st'[i] \in 0..3 /\ (st'[i] = 2 <=> st[i] = 2 \/ i \in Gone)
    BY <1>1, <1>2
  <1>5. left' = Cardinality({i \in Svc : st'[i] # 2})
    <2> DEFINE A == {i \in Svc : st[i] # 2}
    <2>1. left = Cardinality(A)
      BY <1>2 DEF IInv, CountsExact
    <2>2. {i \in Svc : st'[i] # 2} = A \ Gone
      BY <1>4
    <2>3. A \subseteq Svc /\ Gone \subseteq A
      BY <1>3
    <2> HIDE DEF A
    <2> QED  BY <1>1, <2>1, <2>2, <2>3, LessCount
  <1>6. ASSUME NEW p \in Svc
        PROVE  waitc'[p] = Cardinality({d \in Rdep[p] : st'[d] # 2})
    <2> DEFINE A == {d \in Rdep[p] : st[d] # 2}
               B == Rdep[p] \cap Gone
               n == Cardinality(B)
    <2>1. waitc[p] = Cardinality(A)
      BY <1>2 DEF IInv, CountsExact
    <2>2. A \subseteq Svc /\ B \subseteq A
      BY <1>3, RdepIn
    <2>3. {d \in Rdep[p] : st'[d] # 2} = A \ B
      BY <1>4, RdepIn
    <2>4. waitc'[p] = IF waitc[p] > n THEN waitc[p] - n ELSE 0
      BY <1>1 DEF told
    <2> HIDE DEF A, B
    <2>5. Cardinality(A) \in Nat /\ n \in Nat
      BY <2>2, SubFinite
    <2>6. Cardinality(A \ B) = Cardinality(A) - n /\ n <= Cardinality(A)
      BY <2>2, LessCount
    <2> HIDE DEF n
    <2>7. waitc'[p] = Cardinality(A \ B)
      BY <2>1, <2>4, <2>5, <2>6
    <2> QED  BY <2>3, <2>7, Zenon
  <1>7. TypeOK'
    <2>1. left' \in Nat
      BY <1>5, SubFinite
    <2>2. \A p \in Svc : waitc'[p] \in Nat
      <3> TAKE p \in Svc
      <3>1. {d \in Rdep[p] : st'[d] # 2} \subseteq Svc
        BY RdepIn
      <3> QED  BY <1>6, <3>1, SubFinite
    <2>3. waitc' \in [Svc -> Nat]
      BY <1>1, <2>2 DEF told
    <2>4. st' \in [Svc -> 0..3]
      BY <1>1, <1>4
    <2> QED  BY <1>1, <2>1, <2>3, <2>4 DEF IInv, TypeOK, InOrder
  <1>8. CountsExact'
    BY <1>5, <1>6 DEF CountsExact
  <1>9. ASSUME NEW i \in Svc, st'[i] # 0, NEW d \in Rdep[i]
        PROVE  st'[d] = 2
    <2>1. st[i] # 0 \/ i \in Gone
      BY <1>1, <1>9
    <2>2. st[d] = 2
      BY <1>2, <1>3, <2>1, FreeSettled DEF IInv, Edges
    <2> QED  BY <1>4, <2>2, RdepIn
  <1>10. ASSUME NEW i \in Svc, st'[i] = 2
         PROVE  i \notin alive'
    BY <1>1, <1>3, <1>4, <1>10 DEF IInv, Edges
  <1> QED  BY <1>1, <1>7, <1>8, <1>9, <1>10 DEF IInv, Edges, Fresh

\* The steps that leave the bookkeeping alone.
LEMMA OtherStep ==
  ASSUME IInv,
         \/ begin_at_once \/ deadline \/ next_pass \/ term_waited \/ kill_waited \/ go_down
         \/ (\E i \in Svc : Exit(i)) \/ OthersExit \/ UNCHANGED vars
  PROVE  IInv'
  <1>1. /\ st' = st /\ waitc' = waitc /\ left' = left
        /\ alive' \subseteq alive /\ others' \in BOOLEAN
        /\ pc' \in {"begin", "term", "kill", "sync", "down"} \cup InOrder
        /\ pc' \in InOrder => pc \in InOrder
        /\ pc' = "begin" => pc = "begin"
    BY DEF begin_at_once, deadline, next_pass, term_waited, kill_waited, go_down, Exit,
           OthersExit, vars, IInv, TypeOK, InOrder
  <1>2. TypeOK' /\ Edges' /\ Fresh'
    BY <1>1 DEF IInv, TypeOK, Edges, Fresh
  <1>3. CountsExact'
    BY <1>1 DEF IInv, CountsExact
  <1> QED  BY <1>2, <1>3 DEF IInv

LEMMA NextIInv == IInv /\ [Next]_vars => IInv'
  BY BeginStep, SignalStep, SettleStep, OtherStep DEF Next, shutdown_system

LEMMA AlwaysIInv == Spec => []IInv
  BY InitIInv, NextIInv, PTL DEF Spec

-----------------------------------------------------------------------------

\* The variables keep their types: the unsigned waitc and left never wrap.
THEOREM StopTypes == Spec => []TypeOK
  BY AlwaysIInv, PTL DEF IInv

\* waitc and left of stop_ordered() are exact throughout its loop.
THEOREM StopCounts == Spec => []CountsExact
  BY AlwaysIInv, PTL DEF IInv

\* Whatever is signalled or settled, everything that depends on it through any chain
\* is settled and gone: the closed set of the induction is the service itself and
\* what is settled.
THEOREM StopsDependentsFirst == Spec => []DependentsFirst
  <1>1. IInv => DependentsFirst
    <2> SUFFICES ASSUME IInv, NEW i \in Svc, st[i] # 0
                 PROVE  (Reach({i}, Rdep) \ {i}) \cap alive = {}
      BY DEF DependentsFirst
    <2> DEFINE T == {i} \cup {j \in Svc : st[j] = 2}
    <2>1. T \in SUBSET Svc /\ {i} \subseteq T
      OBVIOUS
    <2>2. \A j \in T : Rdep[j] \subseteq T
      BY RdepIn DEF IInv, Edges
    <2> HIDE DEF T
    <2>3. Reach({i}, Rdep) \subseteq T
      BY <2>1, <2>2, ReachWithin
    <2> QED  BY <2>3 DEF T, IInv, Edges
  <1> QED  BY <1>1, AlwaysIInv, PTL

\* When the last service settles, none has a process: stop_ordered() never ends early
\* with something alive, except by its deadline.
THEOREM StopDone == Spec => DoneIsGone
  <1>1. IInv /\ IInv' /\ [Next]_vars => [pc = "reap" /\ pc' = "term" => alive = {}]_vars
    <2> SUFFICES ASSUME IInv, IInv', Next, pc = "reap", pc' = "term"
                 PROVE  alive = {}
      OBVIOUS
    <2>1. settle_loop
      BY DEF Next, shutdown_system, begin, begin_at_once, signal_loop, deadline, next_pass,
             term_waited, kill_waited, go_down, Exit, OthersExit
    <2>2. left' = 0 /\ alive' = alive
      BY <2>1 DEF settle_loop
    <2>3. left' = Cardinality({i \in Svc : st'[i] # 2})
      <3> DEFINE A == {i \in Svc : st[i] # 2}
      <3>1. left = Cardinality(A) /\ A \subseteq Svc /\ Gone \subseteq A
        BY DEF IInv, CountsExact, InOrder, Gone, Free
      <3>2. {i \in Svc : st'[i] # 2} = A \ Gone
        BY <2>1 DEF settle_loop, IInv, TypeOK
      <3>3. left' = left - Cardinality(Gone)
        BY <2>1 DEF settle_loop
      <3> HIDE DEF A
      <3> QED  BY <3>1, <3>2, <3>3, LessCount
    <2>4. {i \in Svc : st'[i] # 2} = {}
      BY <2>2, <2>3, SubFinite, FS_EmptySet
    <2> QED  BY <2>2, <2>4 DEF IInv, Edges, TypeOK
  <1> QED  BY <1>1, AlwaysIInv, PTL DEF Spec, DoneIsGone
=============================================================================
