---------------------------- MODULE PidMapProofs ----------------------------
(***************************************************************************)
(* Finding the service of a process, for any services, any numbers the     *)
(* kernel gives, any table with room for one entry more than the services  *)
(* and any hash function: the table and the walk over the live list always *)
(* give the same, right answer.                                            *)
(*                                                                         *)
(* The table is a ring.  The proofs speak of the slots of a stretch of it  *)
(* by comparing them, and meet the remainder in two lemmas only.           *)
(***************************************************************************)
EXTENDS PidMap, FiniteSetTheorems, WellFoundedInduction, TLAPS

-----------------------------------------------------------------------------
(* The ring of slots *)

\* The probing from slot a passes slot m before it comes to slot b.
Before(a, m, b) == IF a <= b THEN a <= m /\ m < b ELSE a <= m \/ m < b

\* Slot s is behind i, up to j: what the loop of pid_del() has gone over.
Behind(i, s, j) == IF i <= j THEN i < s /\ s <= j ELSE i < s \/ s <= j

NextSlot(j) == IF j = Size - 1 THEN 0 ELSE j + 1

LEMMA SizeFacts == Size \in Nat /\ Size > 0 /\ N \in Nat /\ N > 0 /\ Size > N
  BY TableAssumption, FS_CardinalityType, FS_EmptySet DEF N

LEMMA Wraps == \A a, k \in Slot : (a + k) % Size = IF a + k < Size THEN a + k ELSE a + k - Size
  BY SizeFacts DEF Slot

LEMMA NextIs == \A j \in Slot : (j + 1) % Size = NextSlot(j) /\ NextSlot(j) \in Slot
  BY SizeFacts DEF Slot, NextSlot

\* The k-th slot of the probing that begins at a.
Turn(a, k) == IF a + k < Size THEN a + k ELSE a + k - Size

LEMMA TurnSlot == \A a, k \in Slot : Turn(a, k) \in Slot
  BY SizeFacts DEF Slot, Turn

\* Every slot is met, and those before it are the ones of the earlier turns.
LEMMA TurnsAll == \A a, s \in Slot : \E k \in Slot : Turn(a, k) = s
  <1> TAKE a, s \in Slot
  <1>1. CASE a <= s
    <2>1. s - a \in Slot /\ Turn(a, s - a) = s
      BY <1>1, SizeFacts DEF Slot, Turn
    <2> QED  BY <2>1
  <1>2. CASE ~(a <= s)
    <2>1. s - a + Size \in Slot /\ Turn(a, s - a + Size) = s
      BY <1>2, SizeFacts DEF Slot, Turn
    <2> QED  BY <2>1
  <1> QED  BY <1>1, <1>2

LEMMA TurnsBefore ==
  \A a, k, m \in Slot : Before(a, m, Turn(a, k)) => \E e \in 0..(k - 1) : Turn(a, e) = m /\ e \in Slot
  <1> SUFFICES ASSUME NEW a \in Slot, NEW k \in Slot, NEW m \in Slot, Before(a, m, Turn(a, k))
               PROVE  \E e \in 0..(k - 1) : Turn(a, e) = m /\ e \in Slot
    OBVIOUS
  <1>1. CASE a <= m
    <2>1. m - a \in 0..(k - 1) /\ Turn(a, m - a) = m /\ m - a \in Slot
      BY <1>1, SizeFacts DEF Slot, Turn, Before
    <2> QED  BY <2>1
  <1>2. CASE ~(a <= m)
    <2>1. m - a + Size \in 0..(k - 1) /\ Turn(a, m - a + Size) = m /\ m - a + Size \in Slot
      BY <1>2, SizeFacts DEF Slot, Turn, Before
    <2> QED  BY <2>1
  <1> QED  BY <1>1, <1>2

\* Of two slots that differ, the probing meets one first.
LEMMA OneFirst == \A a, s, t \in Slot : s = t \/ Before(a, s, t) \/ Before(a, t, s)
  BY SizeFacts DEF Slot, Before

LEMMA LeastOne ==
  ASSUME NEW T, T \subseteq Nat, T # {}
  PROVE  \E x \in T : \A y \in T : x <= y
  <1> DEFINE R == {ss \in Nat \X Nat : ss[1] < ss[2]}
  <1>1. R = OpToRel(<, Nat)
    BY Zenon DEF OpToRel
  <1>2. IsWellFoundedOn(R, Nat)
    BY <1>1, NatLessThanWellFounded, Zenon
  <1>3. \A x, y \in Nat : y < x => <<y, x>> \in R
    OBVIOUS
  <1> HIDE DEF R
  <1>4. PICK x \in T : \A y \in T : ~(<<y, x>> \in R)
    BY <1>2, WFMin
  <1>5. \A y \in T : x \in Nat /\ y \in Nat /\ ~(y < x)
    BY <1>3, <1>4
  <1> QED  BY <1>5

-----------------------------------------------------------------------------
(* The probing *)

\* Where there is a slot to stop at, the probing stops at the first.
LEMMA ProbeIs ==
  ASSUME TypeOK, NEW p \in Pid, \E s \in Slot : pid_key[s] \in {p, None}
  PROVE  /\ Probe(p) \in Slot /\ pid_key[Probe(p)] \in {p, None}
         /\ \A m \in Slot : Before(hash[p], m, Probe(p)) => pid_key[m] \notin {p, None}
  <1> DEFINE a == hash[p]
             Stops(k) == pid_key[Turn(a, k)] \in {p, None}
             First(k) == Stops(k) /\ \A m \in 0..(k - 1) : ~Stops(m)
  <1>1. a \in Slot
    BY DEF TypeOK
  <1>2. PICK x \in Slot : First(x)
    <2>1. {k \in Slot : Stops(k)} # {}
      BY <1>1, TurnsAll
    <2>2. PICK x \in {k \in Slot : Stops(k)} : \A y \in {k \in Slot : Stops(k)} : x <= y
      <3>1. {k \in Slot : Stops(k)} \subseteq Nat
        BY SizeFacts DEF Slot
      <3> HIDE DEF Stops
      <3> QED  BY <2>1, <3>1, LeastOne
    <2>3. ASSUME NEW m \in 0..(x - 1) PROVE ~Stops(m)
      <3>1. m \in Slot /\ ~(x <= m)
        BY SizeFacts DEF Slot
      <3> QED  BY <2>2, <3>1
    <2> QED  BY <2>2, <2>3
  <1>3. \A k \in Slot : (hash[p] + k) % Size = Turn(a, k)
    BY <1>1, Wraps DEF Turn
  <1>4. \A k \in Slot : \A m \in 0..(k - 1) : (hash[p] + m) % Size = Turn(a, m)
    <2>1. \A k \in Slot : \A m \in 0..(k - 1) : m \in Slot
      BY SizeFacts DEF Slot
    <2> QED  BY <1>3, <2>1
  <1> DEFINE n == CHOOSE k \in Slot :
                    /\ pid_key[(hash[p] + k) % Size] \in {p, None}
                    /\ \A m \in 0..(k - 1) : pid_key[(hash[p] + m) % Size] \notin {p, None}
  <1>5. n \in Slot /\ First(n)
    <2>1. \E k \in Slot :
                    /\ pid_key[(hash[p] + k) % Size] \in {p, None}
                    /\ \A m \in 0..(k - 1) : pid_key[(hash[p] + m) % Size] \notin {p, None}
      BY <1>2, <1>3, <1>4
    <2>2. /\ n \in Slot /\ pid_key[(hash[p] + n) % Size] \in {p, None}
          /\ \A m \in 0..(n - 1) : pid_key[(hash[p] + m) % Size] \notin {p, None}
      BY <2>1
    <2> HIDE DEF n
    <2> QED  BY <1>3, <1>4, <2>2
  <1>6. Probe(p) = Turn(a, n)
    <2>1. Probe(p) = (hash[p] + n) % Size
      BY DEF Probe
    <2> HIDE DEF n
    <2> QED  BY <1>3, <1>5, <2>1
  <1> HIDE DEF n
  <1> QED  BY <1>1, <1>5, <1>6, TurnSlot, TurnsBefore

-----------------------------------------------------------------------------
(* The invariant *)

Has(i, p) == pid[i] = p \/ stale_pid[i] = p

\* A service that has abandoned a process gets no other, and a number is one child's.
OneEach ==
  /\ \A i \in Svc : pid[i] = None \/ stale_pid[i] = None
  /\ \A i, k \in Svc : \A p \in Pid : Has(i, p) /\ Has(k, p) => i = k

\* The entries of the table are the numbers of the services, each of them once.
Entries ==
  /\ \A s \in Slot : pid_key[s] # None => pid_val[s] \in Svc /\ Has(pid_val[s], pid_key[s])
  /\ \A s, t \in Slot : pid_key[s] = pid_key[t] /\ pid_key[s] # None => s = t
  /\ \A i \in Svc : \A p \in Pid : Has(i, p) => \E s \in Slot : pid_key[s] = p

\* No empty slot lies before an entry on the way to it, but for the hole of a deletion.
Reach ==
  \A s, m \in Slot :
    pid_key[s] # None /\ Before(hash[pid_key[s]], m, s) =>
      pid_key[m] # None \/ (del.on /\ m = del.i)

\* The slots pid_del() has gone over are full, and the way to none of them has the hole.
Hole ==
  del.on =>
    /\ pid_key[del.i] = None
    /\ \A s \in Slot : Behind(del.i, s, del.j) =>
         pid_key[s] # None /\ ~Before(hash[pid_key[s]], del.i, s)

\* Who is in the live list knows its place.
Listed == \A k \in 0..(n_live - 1) : live[k] \in Svc /\ live_pos[live[k]] = k

\* A service with a process is in it.
ProcLive == \A i \in Svc : pid[i] # None \/ stale_pid[i] # None => live_has(i)

IInv == TypeOK /\ OneEach /\ Entries /\ Reach /\ Hole /\ Listed /\ ProcLive

\* There are fewer entries than slots: each is a service's, and no two are the same one's.
LEMMA NotFull == ASSUME IInv PROVE \E s \in Slot : pid_key[s] = None
  <1> SUFFICES ASSUME \A s \in Slot : pid_key[s] # None PROVE FALSE
    OBVIOUS
  <1>1. pid_val \in [Slot -> Svc]
    BY DEF IInv, TypeOK, Entries
  <1>2. ASSUME NEW s \in Slot, NEW t \in Slot, pid_val[s] = pid_val[t] PROVE s = t
    <2>1. Has(pid_val[s], pid_key[s]) /\ Has(pid_val[s], pid_key[t])
      BY <1>2 DEF IInv, Entries
    <2>2. pid[pid_val[s]] = None \/ stale_pid[pid_val[s]] = None
      BY <1>1 DEF IInv, OneEach
    <2>3. pid_key[s] = pid_key[t]
      BY <2>1, <2>2 DEF Has
    <2> QED  BY <2>3 DEF IInv, Entries
  <1>3. pid_val \in Injection(Slot, Svc)
    BY <1>1, <1>2 DEF Injection, IsInjective
  <1>4. Cardinality(Slot) <= N
    BY <1>3, FS_Injection, TableAssumption DEF N
  <1>5. Cardinality(Slot) = Size
    BY FS_Interval, SizeFacts DEF Slot
  <1> QED  BY <1>4, <1>5, SizeFacts

LEMMA ProbeStops ==
  ASSUME IInv, NEW p \in Pid
  PROVE  /\ Probe(p) \in Slot /\ pid_key[Probe(p)] \in {p, None}
         /\ \A m \in Slot : Before(hash[p], m, Probe(p)) => pid_key[m] \notin {p, None}
  BY NotFull, ProbeIs DEF IInv

\* Between two deletions the probing finds what is there.
LEMMA ProbeFinds ==
  ASSUME IInv, ~del.on, NEW p \in Pid, NEW t \in Slot, pid_key[t] = p
  PROVE  Probe(p) = t
  <1> DEFINE s == Probe(p)
  <1>1. /\ s \in Slot /\ pid_key[s] \in {p, None}
        /\ \A m \in Slot : Before(hash[p], m, s) => pid_key[m] \notin {p, None}
    BY ProbeStops
  <1>2. hash[p] \in Slot /\ p # None
    BY TableAssumption DEF IInv, TypeOK
  <1> HIDE DEF s
  <1>3. CASE Before(hash[p], s, t)
    <2>1. pid_key[s] # None
      BY <1>1, <1>2, <1>3 DEF IInv, Reach
    <2> QED  BY <1>1, <1>2, <2>1 DEF IInv, Entries, s
  <1>4. CASE Before(hash[p], t, s)
    BY <1>1, <1>4
  <1> QED  BY <1>1, <1>2, <1>3, <1>4, OneFirst DEF s

\* What is there is what the services have.
LEMMA HasSlot ==
  ASSUME IInv, NEW p \in Pid
  PROVE  (\E i \in Svc : Has(i, p)) <=> \E s \in Slot : pid_key[s] = p
  <1>1. p # None
    BY TableAssumption
  <1> QED  BY <1>1 DEF IInv, Entries

-----------------------------------------------------------------------------
(* The table: pid_put(), and pid_del() and its loop *)

LEMMA PutKeeps ==
  ASSUME IInv, ~del.on, NEW i \in Svc, NEW p \in Pid,
         pid[i] = None, stale_pid[i] = None, \A k \in Svc : ~Has(k, p),
         pid' = [pid EXCEPT ![i] = p], stale_pid' = stale_pid, pid_put(p, i)
  PROVE  Entries' /\ Reach' /\ Hole'
  <1> DEFINE u == Probe(p)
  <1>1. \A s \in Slot : pid_key[s] # p
    BY HasSlot
  <1>2. p # None /\ hash[p] \in Slot
    BY TableAssumption DEF IInv, TypeOK
  <1>3. /\ u \in Slot /\ pid_key[u] = None
        /\ \A m \in Slot : Before(hash[p], m, u) => pid_key[m] # None
    <2>1. /\ u \in Slot /\ pid_key[u] \in {p, None}
          /\ \A m \in Slot : Before(hash[p], m, u) => pid_key[m] \notin {p, None}
      BY ProbeStops
    <2> HIDE DEF u
    <2> QED  BY <1>1, <2>1
  <1>4. /\ pid_key' = [pid_key EXCEPT ![u] = p] /\ pid_val' = [pid_val EXCEPT ![u] = i]
        /\ hash' = hash /\ del' = del
    BY DEF pid_put
  <1> HIDE DEF u
  <1>5. /\ pid_key'[u] = p /\ pid_val'[u] = i
        /\ \A s \in Slot : s # u => pid_key'[s] = pid_key[s] /\ pid_val'[s] = pid_val[s]
    BY <1>3, <1>4 DEF IInv, TypeOK
  <1>6. /\ pid'[i] = p /\ stale_pid'[i] = None
        /\ \A k \in Svc : k # i => pid'[k] = pid[k] /\ stale_pid'[k] = stale_pid[k]
    BY DEF IInv, TypeOK
  <1>7. Entries'
    <2>1. ASSUME NEW s \in Slot, pid_key'[s] # None
          PROVE  pid_val'[s] \in Svc /\ Has(pid_val[s], pid_key[s])'
      <3>1. CASE s = u
        BY <1>5, <1>6, <3>1 DEF Has
      <3>2. CASE s # u
        <4>1. pid_val[s] \in Svc /\ Has(pid_val[s], pid_key[s]) /\ pid_key[s] # None
          BY <1>5, <2>1, <3>2 DEF IInv, Entries
        <4>2. pid_val[s] # i
          BY <4>1 DEF Has
        <4> QED  BY <1>5, <1>6, <3>2, <4>1, <4>2 DEF Has
      <3> QED  BY <3>1, <3>2
    <2>2. ASSUME NEW s \in Slot, NEW t \in Slot, pid_key'[s] = pid_key'[t], pid_key'[s] # None
          PROVE  s = t
      BY <1>1, <1>5, <2>2 DEF IInv, Entries
    <2>3. ASSUME NEW k \in Svc, NEW q \in Pid, Has(k, q)' PROVE \E s \in Slot : pid_key'[s] = q
      <3>1. CASE q = p
        BY <1>3, <1>5, <3>1
      <3>2. CASE q # p
        <4>1. Has(k, q)
          <5>1. q # None
            BY TableAssumption
          <5> QED  BY <1>6, <2>3, <3>2, <5>1 DEF Has
        <4>2. PICK s \in Slot : pid_key[s] = q
          BY <4>1, HasSlot
        <4>3. q # None
          BY TableAssumption
        <4> QED  BY <1>3, <1>5, <4>2, <4>3
      <3> QED  BY <3>1, <3>2
    <2> QED  BY <2>1, <2>2, <2>3 DEF Entries
  <1>8. Reach'
    <2> SUFFICES ASSUME NEW s \in Slot, NEW m \in Slot, pid_key'[s] # None,
                        Before(hash[pid_key'[s]], m, s)
                 PROVE  pid_key'[m] # None
      BY <1>4 DEF Reach
    <2>1. CASE m = u
      BY <1>2, <1>5, <2>1
    <2>2. CASE m # u /\ s = u
      BY <1>3, <1>5, <2>2
    <2>3. CASE m # u /\ s # u
      BY <1>5, <2>3 DEF IInv, Reach
    <2> QED  BY <2>1, <2>2, <2>3
  <1>9. Hole'
    BY <1>4 DEF Hole
  <1> QED  BY <1>7, <1>8, <1>9

\* Which child it was: the entry is cleared, and its service has no process any more.
LEMMA ReapDoes ==
  ASSUME IInv, NEW p \in Pid, reap(p)
  PROVE  \E t \in Slot : \E o \in Svc :
           /\ pid_key[t] = p /\ pid_val[t] = o /\ Has(o, p)
           /\ pid_key' = [pid_key EXCEPT ![t] = None] /\ pid_val' = [pid_val EXCEPT ![t] = None]
           /\ del' = [on |-> TRUE, i |-> t, j |-> t] /\ hash' = hash
           /\ pid' \in [Svc -> Pid \cup {None}] /\ stale_pid' \in [Svc -> Pid \cup {None}]
           /\ pid'[o] = None /\ stale_pid'[o] = None
           /\ \A k \in Svc : k # o => pid'[k] = pid[k] /\ stale_pid'[k] = stale_pid[k]
  <1> DEFINE t == Probe(p)
             o == pid_val[t]
  <1>1. t \in Slot /\ pid_key[t] \in {p, None} /\ p # None
    BY ProbeStops, TableAssumption
  <1>2. pid_key[t] # None /\ find_pid(p) = [svc |-> o, stale |-> pid[o] # p]
    BY DEF reap, find_pid
  <1>3. o \in Svc /\ Has(o, p) /\ pid_key[t] = p
    BY <1>1, <1>2 DEF IInv, Entries
  <1>4. /\ pid_key' = [pid_key EXCEPT ![t] = None] /\ pid_val' = [pid_val EXCEPT ![t] = None]
        /\ del' = [on |-> TRUE, i |-> t, j |-> t] /\ hash' = hash
    BY <1>2 DEF reap, pid_del
  <1> HIDE DEF t, o
  <1>5. pid[o] = None \/ stale_pid[o] = None
    BY <1>3 DEF IInv, OneEach
  <1>6. CASE pid[o] # p
    <2>1. stale_pid' = [stale_pid EXCEPT ![o] = IF @ = p THEN None ELSE @] /\ pid' = pid
      <3>1. find_pid(p).svc = o
        BY <1>2
      <3>2. find_pid(p).stale = (pid[o] # p)
        BY <1>2
      <3> QED  BY <1>6, <3>1, <3>2 DEF reap
    <2>2. stale_pid[o] = p /\ pid[o] = None
      BY <1>1, <1>3, <1>5, <1>6 DEF Has
    <2>3. /\ pid' \in [Svc -> Pid \cup {None}] /\ stale_pid' \in [Svc -> Pid \cup {None}]
          /\ pid'[o] = None /\ stale_pid'[o] = None
          /\ \A k \in Svc : k # o => pid'[k] = pid[k] /\ stale_pid'[k] = stale_pid[k]
      BY <1>3, <2>1, <2>2 DEF IInv, TypeOK
    <2> QED  BY <1>1, <1>3, <1>4, <2>3 DEF o
  <1>7. CASE pid[o] = p
    <2>1. pid' = [pid EXCEPT ![o] = None] /\ stale_pid' = stale_pid
      <3>1. find_pid(p).svc = o
        BY <1>2
      <3>2. find_pid(p).stale = (pid[o] # p)
        BY <1>2
      <3> QED  BY <1>7, <3>1, <3>2 DEF reap
    <2>2. stale_pid[o] = None
      BY <1>1, <1>5, <1>7
    <2>3. /\ pid' \in [Svc -> Pid \cup {None}] /\ stale_pid' \in [Svc -> Pid \cup {None}]
          /\ pid'[o] = None /\ stale_pid'[o] = None
          /\ \A k \in Svc : k # o => pid'[k] = pid[k] /\ stale_pid'[k] = stale_pid[k]
      BY <1>3, <2>1, <2>2 DEF IInv, TypeOK
    <2> QED  BY <1>1, <1>3, <1>4, <2>3 DEF o
  <1> QED  BY <1>6, <1>7

LEMMA ReapKeeps == ASSUME IInv, NEW p \in Pid, reap(p) PROVE IInv'
  <1>1. PICK t \in Slot, o \in Svc :
           /\ pid_key[t] = p /\ pid_val[t] = o /\ Has(o, p)
           /\ pid_key' = [pid_key EXCEPT ![t] = None] /\ pid_val' = [pid_val EXCEPT ![t] = None]
           /\ del' = [on |-> TRUE, i |-> t, j |-> t] /\ hash' = hash
           /\ pid' \in [Svc -> Pid \cup {None}] /\ stale_pid' \in [Svc -> Pid \cup {None}]
           /\ pid'[o] = None /\ stale_pid'[o] = None
           /\ \A k \in Svc : k # o => pid'[k] = pid[k] /\ stale_pid'[k] = stale_pid[k]
    BY ReapDoes
  <1>2. p # None
    BY TableAssumption
  <1>3. /\ pid_key'[t] = None
        /\ \A s \in Slot : s # t => pid_key'[s] = pid_key[s] /\ pid_val'[s] = pid_val[s]
    BY <1>1 DEF IInv, TypeOK
  <1>4. live' = live /\ n_live' = n_live /\ live_pos' = live_pos /\ ~del.on
    BY DEF reap, list
  <1>5. \A k \in Svc : \A q \in Pid : Has(k, q)' <=> (k # o /\ Has(k, q))
    BY <1>1, TableAssumption DEF Has
  <1>6. TypeOK'
    BY <1>1, <1>4 DEF IInv, TypeOK
  <1>7. OneEach'
    <2>1. \A i \in Svc : pid'[i] = None \/ stale_pid'[i] = None
      BY <1>1 DEF IInv, OneEach
    <2>2. \A i, k \in Svc : \A q \in Pid : Has(i, q)' /\ Has(k, q)' => i = k
      BY <1>5 DEF IInv, OneEach
    <2> QED  BY <2>1, <2>2 DEF OneEach
  <1>8. Entries'
    <2>1. ASSUME NEW s \in Slot, pid_key'[s] # None
          PROVE  pid_val'[s] \in Svc /\ Has(pid_val[s], pid_key[s])'
      <3>1. s # t /\ pid_key[s] # None /\ pid_key'[s] = pid_key[s] /\ pid_val'[s] = pid_val[s]
        BY <1>3, <2>1
      <3>2. pid_val[s] \in Svc /\ Has(pid_val[s], pid_key[s])
        BY <3>1 DEF IInv, Entries
      <3>3. pid_val[s] # o
        <4>1. pid_key[s] # p
          BY <1>1, <1>2, <3>1 DEF IInv, Entries
        <4>2. pid[o] = None \/ stale_pid[o] = None
          BY DEF IInv, OneEach
        <4> QED  BY <1>1, <1>2, <3>1, <3>2, <4>1, <4>2 DEF Has
      <3> QED  BY <1>1, <3>1, <3>2, <3>3 DEF Has
    <2>2. ASSUME NEW s \in Slot, NEW u \in Slot, pid_key'[s] = pid_key'[u], pid_key'[s] # None
          PROVE  s = u
      BY <1>3, <2>2 DEF IInv, Entries
    <2>3. ASSUME NEW k \in Svc, NEW q \in Pid, Has(k, q)' PROVE \E s \in Slot : pid_key'[s] = q
      <3>1. k # o /\ Has(k, q)
        BY <1>5, <2>3
      <3>2. q # p
        BY <1>1, <3>1 DEF IInv, OneEach
      <3>3. PICK s \in Slot : pid_key[s] = q
        BY <3>1, HasSlot
      <3> QED  BY <1>1, <1>3, <3>2, <3>3
    <2> QED  BY <2>1, <2>2, <2>3 DEF Entries
  <1>9. Reach'
    <2> SUFFICES ASSUME NEW s \in Slot, NEW m \in Slot, pid_key'[s] # None,
                        Before(hash[pid_key'[s]], m, s), m # t
                 PROVE  pid_key'[m] # None
      BY <1>1 DEF Reach
    <2> QED  BY <1>3, <1>4 DEF IInv, Reach
  <1>10. Hole'
    <2>1. \A s \in Slot : ~Behind(t, s, t)
      BY SizeFacts DEF Behind, Slot
    <2> QED  BY <1>1, <1>3, <2>1 DEF Hole
  <1>11. Listed' /\ ProcLive'
    BY <1>1, <1>4 DEF IInv, Listed, ProcLive, live_has
  <1> QED  BY <1>6, <1>7, <1>8, <1>9, <1>10, <1>11 DEF IInv

\* Facts of the ring, for the round of the loop that looks at the slot behind j.
LEMMA LoopRing ==
  ASSUME NEW i \in Slot, NEW j \in Slot
  PROVE  LET n == NextSlot(j) IN
         /\ n # i => \A s \in Slot : Behind(i, s, n) <=> Behind(i, s, j) \/ s = n
         /\ n = i => \A s \in Slot : Behind(i, s, j) \/ s = i
         /\ n # i => \A s, h \in Slot :
              Before(h, i, s) /\ ~Behind(i, s, j) /\ s # n => Before(h, n, s)
         /\ n # i => \A k \in Slot : MovesBack(i, n, k) <=> Before(k, i, n)
         /\ \A k, m \in Slot : Before(k, i, n) /\ Before(k, m, i) => Before(k, m, n)
  <1> DEFINE n == NextSlot(j)
  <1>0. i \in Int /\ j \in Int /\ 0 <= i /\ i < Size /\ 0 <= j /\ j < Size /\ Size \in Int
    BY SizeFacts DEF Slot
  <1>1. \A s \in Slot : s \in Int /\ 0 <= s /\ s < Size
    BY SizeFacts DEF Slot
  <1>2. n \in Int /\ (j = Size - 1 => n = 0) /\ (j # Size - 1 => n = j + 1)
    BY <1>0, SizeFacts DEF NextSlot
  <1> HIDE DEF n
  <1>3. n # i => \A s \in Slot : Behind(i, s, n) <=> Behind(i, s, j) \/ s = n
    BY <1>0, <1>1, <1>2 DEF Behind
  <1>4. n = i => \A s \in Slot : Behind(i, s, j) \/ s = i
    BY <1>0, <1>1, <1>2 DEF Behind
  <1>5. n # i => \A s, h \in Slot :
              Before(h, i, s) /\ ~Behind(i, s, j) /\ s # n => Before(h, n, s)
    BY <1>0, <1>1, <1>2 DEF Behind, Before
  <1>6. n # i => \A k \in Slot : MovesBack(i, n, k) <=> Before(k, i, n)
    BY <1>0, <1>1, <1>2 DEF Before, MovesBack
  <1>7. \A k, m \in Slot : Before(k, i, n) /\ Before(k, m, i) => Before(k, m, n)
    BY <1>0, <1>1, <1>2 DEF Before
  <1> QED  BY <1>3, <1>4, <1>5, <1>6, <1>7 DEF n

LEMMA LoopKeeps == ASSUME IInv, pid_del_loop PROVE IInv'
  <1> DEFINE i == del.i
             n == NextSlot(del.j)
             h == hash[pid_key[n]]
  <1>1. /\ del.on /\ i \in Slot /\ del.j \in Slot /\ n \in Slot /\ (del.j + 1) % Size = n
        /\ pid_key[i] = None
    BY NextIs DEF IInv, TypeOK, Hole, pid_del_loop
  <1>2. /\ hash' = hash /\ pid' = pid /\ stale_pid' = stale_pid
        /\ live' = live /\ n_live' = n_live /\ live_pos' = live_pos
    BY DEF pid_del_loop, list
  <1>3. OneEach' /\ Listed' /\ ProcLive'
    BY <1>2 DEF IInv, OneEach, Listed, ProcLive, Has, live_has
  <1>4. pid_key[n] # None => n # i /\ h \in Slot
    BY <1>1 DEF IInv, TypeOK
  <1>5. CASE pid_key[n] = None
    <2>1. pid_key' = pid_key /\ pid_val' = pid_val /\ del' = [on |-> FALSE, i |-> 0, j |-> 0]
      BY <1>1, <1>5 DEF pid_del_loop
    <2>2. TypeOK'
      <3>1. 0 \in Slot
        BY SizeFacts DEF Slot
      <3> QED  BY <1>2, <2>1, <3>1 DEF IInv, TypeOK
    <2>3. Entries'
      BY <1>2, <2>1 DEF IInv, Entries, Has
    <2>4. Reach'
      <3> SUFFICES ASSUME NEW s \in Slot, NEW m \in Slot, pid_key[s] # None,
                          Before(hash[pid_key[s]], m, s)
                   PROVE  pid_key[m] # None
        BY <1>2, <2>1 DEF Reach
      <3>1. CASE m # i
        BY <3>1 DEF IInv, Reach
      <3>2. CASE m = i
        <4>1. ~Behind(i, s, del.j)
          BY <1>1, <3>2 DEF IInv, Hole
        <4>2. s # i /\ s # n /\ hash[pid_key[s]] \in Slot
          BY <1>1, <1>5 DEF IInv, TypeOK
        <4> HIDE DEF i, n
        <4>3. n # i
          BY <1>1, <4>1, <4>2, LoopRing DEF n
        <4>4. Before(hash[pid_key[s]], n, s)
          BY <1>1, <3>2, <4>1, <4>2, <4>3, LoopRing DEF n
        <4>5. pid_key[n] # None
          BY <1>1, <4>3, <4>4 DEF IInv, Reach, i
        <4> QED  BY <1>5, <4>5 DEF n
      <3> QED  BY <3>1, <3>2
    <2>5. Hole'
      BY <2>1 DEF Hole
    <2> QED  BY <1>3, <2>2, <2>3, <2>4, <2>5 DEF IInv
  <1>6. CASE pid_key[n] # None /\ MovesBack(i, n, h)
    <2>1. /\ pid_key' = [pid_key EXCEPT ![i] = pid_key[n], ![n] = None]
          /\ pid_val' = [pid_val EXCEPT ![i] = pid_val[n], ![n] = None]
          /\ del' = [del EXCEPT !.i = n, !.j = n]
      <3> DEFINE jj == (del.j + 1) % Size
      <3>1. /\ pid_key' = [pid_key EXCEPT ![del.i] = pid_key[jj], ![jj] = None]
            /\ pid_val' = [pid_val EXCEPT ![del.i] = pid_val[jj], ![jj] = None]
            /\ del' = [del EXCEPT !.i = jj, !.j = jj]
        <4>1. pid_key[jj] # None /\ MovesBack(del.i, jj, hash[pid_key[jj]])
          BY <1>1, <1>6
        <4> QED  BY <4>1, Zenon DEF pid_del_loop
      <3>2. jj = n
        BY <1>1
      <3> HIDE DEF jj
      <3> QED  BY <3>1, <3>2
    <2>2. n # i /\ h \in Slot /\ Before(h, i, n)
      BY <1>1, <1>4, <1>6, LoopRing
    <2> HIDE DEF i, n
    <2>3. /\ pid_key'[i] = pid_key[n] /\ pid_val'[i] = pid_val[n] /\ pid_key'[n] = None
          /\ \A s \in Slot : s \notin {i, n} => pid_key'[s] = pid_key[s] /\ pid_val'[s] = pid_val[s]
          /\ del'.on /\ del'.i = n /\ del'.j = n
      BY <1>1, <2>1, <2>2 DEF IInv, TypeOK
    <2>4. TypeOK'
      <3>1. pid_key' \in [Slot -> Pid \cup {None}]
        BY <1>1, <2>1 DEF IInv, TypeOK
      <3>2. pid_val' \in [Slot -> Svc \cup {None}]
        BY <1>1, <2>1 DEF IInv, TypeOK
      <3>3. del' \in [on : BOOLEAN, i : Slot, j : Slot]
        BY <1>1, <2>1 DEF IInv, TypeOK
      <3> QED  BY <1>2, <3>1, <3>2, <3>3 DEF IInv, TypeOK
    <2>5. Entries'
      <3>1. ASSUME NEW s \in Slot, pid_key'[s] # None
            PROVE  pid_val'[s] \in Svc /\ Has(pid_val[s], pid_key[s])'
        <4>1. CASE s = i
          BY <1>1, <1>2, <1>6, <2>3, <4>1 DEF IInv, Entries, Has
        <4>2. CASE s # i
          BY <1>1, <1>2, <2>3, <3>1, <4>2 DEF IInv, Entries, Has
        <4> QED  BY <4>1, <4>2
      <3>2. ASSUME NEW s \in Slot, NEW t \in Slot, pid_key'[s] = pid_key'[t], pid_key'[s] # None
            PROVE  s = t
        BY <1>1, <2>2, <2>3, <3>2 DEF IInv, Entries
      <3>3. ASSUME NEW k \in Svc, NEW q \in Pid, Has(k, q)' PROVE \E s \in Slot : pid_key'[s] = q
        <4>1. Has(k, q) /\ q # None
          BY <1>2, <3>3, TableAssumption DEF Has
        <4>2. PICK s \in Slot : pid_key[s] = q
          BY <4>1, HasSlot
        <4>3. CASE s = n
          BY <1>1, <2>3, <4>2, <4>3
        <4>4. CASE s # n
          BY <1>1, <2>3, <4>1, <4>2, <4>4
        <4> QED  BY <4>3, <4>4
      <3> QED  BY <3>1, <3>2, <3>3 DEF Entries
    <2>6. Reach'
      <3> SUFFICES ASSUME NEW s \in Slot, NEW m \in Slot, pid_key'[s] # None,
                          Before(hash[pid_key'[s]], m, s), m # n
                   PROVE  pid_key'[m] # None
        BY <1>2, <2>3 DEF Reach
      <3>1. CASE m = i
        BY <1>6, <2>3, <3>1 DEF n
      <3>2. CASE m # i /\ s = i
        <4>1. Before(h, m, n)
          BY <1>1, <2>2, <2>3, <3>2, LoopRing DEF n
        <4>2. pid_key[m] # None
          BY <1>1, <1>6, <3>2, <4>1 DEF IInv, Reach, i, n
        <4> QED  BY <2>3, <3>2, <4>2
      <3>3. CASE m # i /\ s # i
        <4>1. pid_key'[s] = pid_key[s]
          BY <2>3, <3>3
        <4>2. pid_key[m] # None
          BY <3>3, <4>1 DEF IInv, Reach, i
        <4> QED  BY <2>3, <3>3, <4>2
      <3> QED  BY <3>1, <3>2, <3>3
    <2>7. Hole'
      <3>1. \A s \in Slot : ~Behind(n, s, n)
        BY <1>1, SizeFacts DEF Behind, Slot
      <3> QED  BY <2>3, <3>1 DEF Hole
    <2> QED  BY <1>3, <2>4, <2>5, <2>6, <2>7 DEF IInv
  <1>7. CASE pid_key[n] # None /\ ~MovesBack(i, n, h)
    <2>1. pid_key' = pid_key /\ pid_val' = pid_val /\ del' = [del EXCEPT !.j = n]
      BY <1>1, <1>7 DEF pid_del_loop
    <2>2. del'.on = del.on /\ del'.i = i /\ del'.j = n
      BY <2>1 DEF IInv, TypeOK
    <2>3. TypeOK'
      BY <1>1, <1>2, <2>1 DEF IInv, TypeOK
    <2>4. Entries'
      BY <1>2, <2>1 DEF IInv, Entries, Has
    <2>5. Reach'
      BY <1>2, <2>1, <2>2 DEF IInv, Reach
    <2>6. Hole'
      <3>1. n # i /\ ~Before(h, i, n)
        BY <1>1, <1>4, <1>7, LoopRing
      <3>2. ASSUME NEW s \in Slot, Behind(i, s, n)
            PROVE  pid_key[s] # None /\ ~Before(hash[pid_key[s]], i, s)
        <4>1. Behind(i, s, del.j) \/ s = n
          BY <1>1, <3>1, <3>2, LoopRing
        <4>2. CASE s = n
          BY <1>7, <3>1, <4>2
        <4>3. CASE Behind(i, s, del.j)
          BY <1>1, <4>3 DEF IInv, Hole
        <4> QED  BY <4>1, <4>2, <4>3
      <3> QED  BY <1>1, <1>2, <2>1, <2>2, <3>2 DEF Hole
    <2> QED  BY <1>3, <2>3, <2>4, <2>5, <2>6 DEF IInv
  <1> QED  BY <1>5, <1>6, <1>7

-----------------------------------------------------------------------------
(* The live list *)

LEMMA HasPlace ==
  ASSUME IInv, NEW i \in Svc
  PROVE  live_has(i) <=> \E k \in 0..(n_live - 1) : live[k] = i
  <1>1. n_live \in Int /\ live_pos[i] \in Int /\ 0 <= live_pos[i]
    BY SizeFacts DEF IInv, TypeOK
  <1>2. ASSUME live_has(i) PROVE \E k \in 0..(n_live - 1) : live[k] = i
    <2>1. live_pos[i] \in 0..(n_live - 1) /\ live[live_pos[i]] = i
      BY <1>1, <1>2 DEF live_has
    <2> QED  BY <2>1
  <1>3. ASSUME NEW k \in 0..(n_live - 1), live[k] = i PROVE live_has(i)
    <2>1. live_pos[i] = k /\ k < n_live
      BY <1>1, <1>3 DEF IInv, Listed
    <2> QED  BY <1>3, <2>1 DEF live_has
  <1> QED  BY <1>2, <1>3

\* While some service is not in it, the list has a free place.
LEMMA HasRoom ==
  ASSUME IInv, NEW i \in Svc, ~live_has(i)
  PROVE  n_live \in 0..(N - 1)
  <1> DEFINE f == [k \in 0..(n_live - 1) |-> live[k]]
  <1>1. n_live \in 0..N /\ N \in Nat
    BY SizeFacts DEF IInv, TypeOK
  <1>2. f \in [0..(n_live - 1) -> Svc \ {i}]
    <2>1. \A k \in 0..(n_live - 1) : live[k] \in Svc \ {i}
      BY HasPlace DEF IInv, Listed
    <2> QED  BY <2>1
  <1>3. \A k, m \in 0..(n_live - 1) : f[k] = f[m] => k = m
    BY DEF IInv, Listed
  <1>4. f \in Injection(0..(n_live - 1), Svc \ {i})
    BY <1>2, <1>3 DEF Injection, IsInjective
  <1>5. IsFiniteSet(Svc \ {i}) /\ Cardinality(Svc \ {i}) = N - 1
    BY FS_RemoveElement, TableAssumption DEF N
  <1> HIDE DEF f
  <1>6. Cardinality(0..(n_live - 1)) <= N - 1
    BY <1>4, <1>5, FS_Injection
  <1>7. Cardinality(0..(n_live - 1)) = n_live
    <2>1. n_live - 1 \in Int /\ 0 \in Int /\ (0 > n_live - 1 => n_live = 0)
      BY <1>1
    <2> QED  BY <1>1, <2>1, FS_Interval
  <1> QED  BY <1>1, <1>6, <1>7

LEMMA AddLists ==
  ASSUME IInv, NEW i \in Svc, ~live_has(i), live_add(i)
  PROVE  /\ live' \in [0..(N - 1) -> Svc \cup {None}] /\ n_live' \in 0..N
         /\ live_pos' \in [Svc -> 0..(N - 1)]
         /\ Listed' /\ live_has(i)' /\ \A k \in Svc : live_has(k) => live_has(k)'
  <1>1. n_live \in 0..(N - 1) /\ N \in Nat
    BY HasRoom, SizeFacts
  <1>2. /\ live' = [live EXCEPT ![n_live] = i] /\ live_pos' = [live_pos EXCEPT ![i] = n_live]
        /\ n_live' = n_live + 1
    BY DEF live_add
  <1>3. /\ live' \in [0..(N - 1) -> Svc \cup {None}] /\ n_live' \in 0..N
        /\ live_pos' \in [Svc -> 0..(N - 1)]
    BY <1>1, <1>2 DEF IInv, TypeOK
  <1>4. /\ live'[n_live] = i /\ \A k \in 0..(n_live - 1) : live'[k] = live[k]
        /\ live_pos'[i] = n_live /\ \A k \in Svc : k # i => live_pos'[k] = live_pos[k]
    BY <1>1, <1>2 DEF IInv, TypeOK
  <1>5. \A k \in 0..(n_live - 1) : live[k] \in Svc \ {i} /\ live_pos[live[k]] = k
    BY HasPlace DEF IInv, Listed
  <1>6. ASSUME NEW k \in 0..(n_live' - 1) PROVE live'[k] \in Svc /\ live_pos'[live'[k]] = k
    <2>1. CASE k = n_live
      BY <1>4, <2>1
    <2>2. CASE k # n_live
      <3>1. k \in 0..(n_live - 1)
        BY <1>1, <1>2, <2>2
      <3> QED  BY <1>4, <1>5, <3>1
    <2> QED  BY <2>1, <2>2
  <1>7. ASSUME NEW k \in Svc, live_has(k) PROVE live_has(k)'
    <2>1. k # i /\ live_pos[k] \in 0..(n_live - 1) /\ live[live_pos[k]] = k
      BY <1>1, <1>7 DEF live_has, IInv, TypeOK
    <2> QED  BY <1>1, <1>2, <1>4, <2>1 DEF live_has
  <1>8. live_has(i)'
    BY <1>1, <1>2, <1>4 DEF live_has
  <1> QED  BY <1>3, <1>6, <1>7, <1>8 DEF Listed

LEMMA DelLists ==
  ASSUME IInv, NEW i \in Svc, live_has(i), live_del(i)
  PROVE  /\ live' \in [0..(N - 1) -> Svc \cup {None}] /\ n_live' \in 0..N
         /\ live_pos' \in [Svc -> 0..(N - 1)]
         /\ Listed' /\ \A k \in Svc : k # i /\ live_has(k) => live_has(k)'
  <1> DEFINE last == live[n_live - 1]
             at == live_pos[i]
  <1>1. N \in Nat /\ n_live \in 0..N /\ at \in 0..(N - 1) /\ at < n_live /\ live[at] = i
    BY SizeFacts DEF IInv, TypeOK, live_has
  <1>2. last \in Svc /\ live_pos[last] = n_live - 1
    <2>1. n_live - 1 \in 0..(n_live - 1)
      BY <1>1
    <2> QED  BY <2>1 DEF IInv, Listed
  <1>3. /\ live' = [live EXCEPT ![at] = last] /\ live_pos' = [live_pos EXCEPT ![last] = at]
        /\ n_live' = n_live - 1
    BY DEF live_del
  <1> HIDE DEF last, at
  <1>4. /\ live' \in [0..(N - 1) -> Svc \cup {None}] /\ n_live' \in 0..N
        /\ live_pos' \in [Svc -> 0..(N - 1)]
    BY <1>1, <1>2, <1>3 DEF IInv, TypeOK
  <1>5. /\ live'[at] = last /\ \A k \in 0..(n_live - 1) : k # at => live'[k] = live[k]
        /\ live_pos'[last] = at /\ \A k \in Svc : k # last => live_pos'[k] = live_pos[k]
    BY <1>1, <1>2, <1>3 DEF IInv, TypeOK
  <1>6. ASSUME NEW k \in 0..(n_live' - 1) PROVE live'[k] \in Svc /\ live_pos'[live'[k]] = k
    <2>1. CASE k = at
      BY <1>2, <1>5, <2>1
    <2>2. CASE k # at
      <3>1. k \in 0..(n_live - 1) /\ k # n_live - 1
        BY <1>1, <1>3
      <3>2. live[k] \in Svc /\ live_pos[live[k]] = k
        BY <3>1 DEF IInv, Listed
      <3>3. live[k] # last
        BY <1>2, <3>1, <3>2
      <3> QED  BY <1>5, <2>2, <3>1, <3>2, <3>3
    <2> QED  BY <2>1, <2>2
  <1>7. ASSUME NEW k \in Svc, k # i, live_has(k) PROVE live_has(k)'
    <2>1. live_pos[k] \in 0..(n_live - 1) /\ live[live_pos[k]] = k
      BY <1>1, <1>7 DEF live_has, IInv, TypeOK
    <2>2. CASE k = last
      <3>1. at # n_live - 1
        BY <1>1, <1>7, <2>2 DEF last
      <3>2. at < n_live - 1
        BY <1>1, <3>1
      <3> QED  BY <1>3, <1>5, <2>2, <3>2 DEF live_has
    <2>3. CASE k # last
      <3>1. live_pos[k] # n_live - 1 /\ live_pos[k] # at
        BY <1>1, <1>7, <2>1, <2>3 DEF last
      <3>2. live_pos[k] < n_live - 1
        BY <1>1, <2>1, <3>1
      <3> QED  BY <1>3, <1>5, <2>1, <2>3, <3>1, <3>2 DEF live_has
    <2> QED  BY <2>2, <2>3
  <1> QED  BY <1>4, <1>6, <1>7 DEF Listed

-----------------------------------------------------------------------------
(* The callers *)

LEMMA LaunchKeeps ==
  ASSUME IInv, NEW i \in Svc, NEW p \in Pid, launch(i, p) PROVE IInv'
  <1>1. /\ ~del.on /\ pid[i] = None /\ stale_pid[i] = None /\ \A k \in Svc : ~Has(k, p)
        /\ pid' = [pid EXCEPT ![i] = p] /\ stale_pid' = stale_pid /\ pid_put(p, i)
    BY DEF launch, Has
  <1>2. Entries' /\ Reach' /\ Hole'
    BY <1>1, PutKeeps
  <1>3. /\ live' \in [0..(N - 1) -> Svc \cup {None}] /\ n_live' \in 0..N
        /\ live_pos' \in [Svc -> 0..(N - 1)]
        /\ Listed' /\ live_has(i)' /\ \A k \in Svc : live_has(k) => live_has(k)'
    <2>1. CASE live_has(i)
      <3>1. live' = live /\ n_live' = n_live /\ live_pos' = live_pos
        BY <2>1 DEF launch, list
      <3> QED  BY <2>1, <3>1 DEF IInv, TypeOK, Listed, live_has
    <2>2. CASE ~live_has(i)
      BY <2>2, AddLists DEF launch
    <2> QED  BY <2>1, <2>2
  <1>4. TypeOK'
    <2>1. /\ pid_key' \in [Slot -> Pid \cup {None}] /\ pid_val' \in [Slot -> Svc \cup {None}]
          /\ hash' = hash /\ del' = del
      BY <1>1 DEF pid_put, IInv, TypeOK
    <2> QED  BY <1>1, <1>3, <2>1 DEF IInv, TypeOK
  <1>5. /\ pid'[i] = p /\ stale_pid'[i] = None
        /\ \A k \in Svc : k # i => pid'[k] = pid[k] /\ stale_pid'[k] = stale_pid[k]
    BY <1>1 DEF IInv, TypeOK
  <1>6. OneEach'
    <2>1. \A k \in Svc : pid'[k] = None \/ stale_pid'[k] = None
      BY <1>5 DEF IInv, OneEach
    <2>2. ASSUME NEW k \in Svc, NEW m \in Svc, NEW q \in Pid, Has(k, q)', Has(m, q)' PROVE k = m
      <3>1. q # None
        BY TableAssumption
      <3>2. (k # i => Has(k, q)) /\ (m # i => Has(m, q)) /\ (k = i \/ m = i => q = p)
        BY <1>5, <2>2, <3>1 DEF Has
      <3> QED  BY <1>1, <3>2 DEF IInv, OneEach
    <2> QED  BY <2>1, <2>2 DEF OneEach
  <1>7. ProcLive'
    BY <1>3, <1>5 DEF IInv, ProcLive
  <1> QED  BY <1>2, <1>3, <1>4, <1>6, <1>7 DEF IInv

LEMMA AbandonKeeps == ASSUME IInv, NEW i \in Svc, svc_abandon(i) PROVE IInv'
  <1>1. /\ pid[i] # None /\ pid' = [pid EXCEPT ![i] = None]
        /\ stale_pid' = [stale_pid EXCEPT ![i] = pid[i]]
        /\ pid_key' = pid_key /\ pid_val' = pid_val /\ hash' = hash /\ del' = del
        /\ live' = live /\ n_live' = n_live /\ live_pos' = live_pos
    BY DEF svc_abandon, table, list
  <1>2. stale_pid[i] = None
    BY <1>1 DEF IInv, OneEach
  <1>3. /\ pid'[i] = None /\ stale_pid'[i] = pid[i]
        /\ \A k \in Svc : k # i => pid'[k] = pid[k] /\ stale_pid'[k] = stale_pid[k]
    BY <1>1 DEF IInv, TypeOK
  <1>4. \A k \in Svc : \A q : q # None => (Has(k, q)' <=> Has(k, q))
    BY <1>2, <1>3 DEF Has
  <1>5. TypeOK'
    BY <1>1 DEF IInv, TypeOK
  <1>6. OneEach'
    <2>1. \A k \in Svc : pid'[k] = None \/ stale_pid'[k] = None
      BY <1>3 DEF IInv, OneEach
    <2>2. \A k, m \in Svc : \A q \in Pid : Has(k, q)' /\ Has(m, q)' => k = m
      BY <1>4, TableAssumption DEF IInv, OneEach
    <2> QED  BY <2>1, <2>2 DEF OneEach
  <1>7. Entries'
    <2>1. \A s \in Slot : pid_key[s] # None =>
            pid_val[s] \in Svc /\ Has(pid_val[s], pid_key[s])'
      BY <1>1, <1>4 DEF IInv, Entries, Has
    <2>2. \A k \in Svc : \A q \in Pid : Has(k, q)' => \E s \in Slot : pid_key[s] = q
      BY <1>4, HasSlot, TableAssumption
    <2>3. \A s, t \in Slot : pid_key[s] = pid_key[t] /\ pid_key[s] # None => s = t
      BY DEF IInv, Entries
    <2> QED  BY <1>1, <2>1, <2>2, <2>3 DEF Entries
  <1>8. Reach' /\ Hole' /\ Listed'
    BY <1>1 DEF IInv, Reach, Hole, Listed
  <1>9. ProcLive'
    BY <1>1, <1>3 DEF IInv, ProcLive, live_has
  <1> QED  BY <1>5, <1>6, <1>7, <1>8, <1>9 DEF IInv

LEMMA ListKeeps == ASSUME IInv, NEW i \in Svc, join(i) \/ leave(i) PROVE IInv'
  <1>1. /\ pid_key' = pid_key /\ pid_val' = pid_val /\ hash' = hash /\ del' = del
        /\ pid' = pid /\ stale_pid' = stale_pid
    BY DEF join, leave, table
  <1>2. /\ live' \in [0..(N - 1) -> Svc \cup {None}] /\ n_live' \in 0..N
        /\ live_pos' \in [Svc -> 0..(N - 1)] /\ Listed'
        /\ \A k \in Svc : live_has(k) /\ (pid[k] # None \/ stale_pid[k] # None) => live_has(k)'
    <2>1. CASE join(i)
      BY <2>1, AddLists DEF join
    <2>2. CASE leave(i)
      BY <2>2, DelLists DEF leave
    <2> QED  BY <2>1, <2>2
  <1>3. TypeOK'
    BY <1>1, <1>2 DEF IInv, TypeOK
  <1>4. OneEach' /\ Entries' /\ Reach' /\ Hole'
    BY <1>1 DEF IInv, OneEach, Entries, Reach, Hole, Has
  <1>5. ProcLive'
    BY <1>1, <1>2 DEF IInv, ProcLive
  <1> QED  BY <1>2, <1>3, <1>4, <1>5 DEF IInv

-----------------------------------------------------------------------------
(* Theorems *)

LEMMA MapInit == Init => IInv
  <1> SUFFICES ASSUME Init PROVE IInv
    OBVIOUS
  <1>1. 0 \in Slot /\ 0 \in 0..N /\ 0 \in 0..(N - 1)
    BY SizeFacts DEF Slot
  <1>2. TypeOK
    BY <1>1 DEF Init, TypeOK
  <1>3. \A i \in Svc : \A p \in Pid : ~Has(i, p)
    BY TableAssumption DEF Init, Has
  <1>4. OneEach /\ Entries /\ Reach /\ Hole
    BY <1>3 DEF Init, OneEach, Entries, Reach, Hole
  <1>5. Listed /\ ProcLive
    BY DEF Init, Listed, ProcLive
  <1> QED  BY <1>2, <1>4, <1>5 DEF IInv

LEMMA MapStep == IInv /\ [Next]_vars => IInv'
  <1> SUFFICES ASSUME IInv, [Next]_vars PROVE IInv'
    OBVIOUS
  <1>1. CASE UNCHANGED vars
    BY <1>1 DEF vars, table, list, IInv, TypeOK, OneEach, Entries, Reach, Hole, Listed, ProcLive,
                Has, live_has
  <1> QED  BY <1>1, LaunchKeeps, AbandonKeeps, ListKeeps, ReapKeeps, LoopKeeps DEF Next

LEMMA AlwaysMap == Spec => []IInv
  BY MapInit, MapStep, PTL DEF Spec

\* However services are launched, abandoned, reaped, added to the live list and freed: the
\* live list never outgrows its array, and the places in it are places of the array.
THEOREM PidTypes == Spec => []TypeOK
  <1>1. IInv => TypeOK
    BY DEF IInv
  <1> QED  BY <1>1, AlwaysMap, PTL

\* For any number of services: live_has(), which reads a place that may be out of date, tells
\* exactly who is in the live list, and live_del() leaves nobody in it twice.
THEOREM ListIsExact == Spec => []LiveExact
  <1>1. IInv => LiveExact
    <2> SUFFICES ASSUME IInv PROVE LiveExact
      OBVIOUS
    <2>1. \A k, m \in 0..(n_live - 1) : live[k] = live[m] => k = m
      BY DEF IInv, Listed
    <2> QED  BY <2>1, HasPlace DEF LiveExact
  <1> QED  BY <1>1, AlwaysMap, PTL

\* The service that has p is the only one.
LEMMA OwnerIs ==
  ASSUME IInv, NEW p \in Pid
  PROVE  /\ (\A i \in Svc : ~Has(i, p)) => Owner(p) = Nobody
         /\ \A i \in Svc : Has(i, p) => Owner(p) = [svc |-> i, stale |-> pid[i] # p]
  <1> DEFINE own == {i \in Svc : p \in {pid[i], stale_pid[i]}}
  <1>1. (\A i \in Svc : ~Has(i, p)) => own = {}
    BY DEF Has
  <1>2. \A i \in Svc : Has(i, p) => own = {i}
    BY DEF Has, IInv, OneEach
  <1>3. Owner(p) = IF own = {} THEN Nobody
                   ELSE [svc |-> CHOOSE k \in own : TRUE, stale |-> pid[CHOOSE k \in own : TRUE] # p]
    BY DEF Owner
  <1> HIDE DEF own
  <1>4. ASSUME NEW i \in Svc, Has(i, p) PROVE Owner(p) = [svc |-> i, stale |-> pid[i] # p]
    <2>1. own = {i}
      BY <1>2, <1>4
    <2>2. (CHOOSE k \in own : TRUE) = i
      BY <2>1
    <2> QED  BY <1>3, <2>1, <2>2
  <1> QED  BY <1>1, <1>3, <1>4

LEMMA TableAnswers ==
  ASSUME IInv, ~del.on, NEW p \in Pid PROVE find_pid(p) = Owner(p)
  <1>1. p # None
    BY TableAssumption
  <1>2. CASE \A i \in Svc : ~Has(i, p)
    <2>1. pid_key[Probe(p)] = None
      BY <1>1, <1>2, ProbeStops, HasSlot
    <2> QED  BY <1>2, <2>1, OwnerIs DEF find_pid
  <1>3. CASE \E i \in Svc : Has(i, p)
    <2>1. PICK t \in Slot : pid_key[t] = p
      BY <1>3, HasSlot
    <2>2. Probe(p) = t
      BY <2>1, ProbeFinds
    <2>3. pid_val[t] \in Svc /\ Has(pid_val[t], p)
      BY <1>1, <2>1 DEF IInv, Entries
    <2>4. find_pid(p) = [svc |-> pid_val[t], stale |-> pid[pid_val[t]] # p]
      BY <1>1, <2>1, <2>2 DEF find_pid
    <2> QED  BY <2>3, <2>4, OwnerIs
  <1> QED  BY <1>2, <1>3

LEMMA ListAnswers == ASSUME IInv, NEW p \in Pid PROVE scan_pid(p) = Owner(p)
  <1> DEFINE hits == {k \in 0..(n_live - 1) : p \in {pid[live[k]], stale_pid[live[k]]}}
             c == CHOOSE k \in hits : \A m \in hits : k <= m
  <1>1. p # None
    BY TableAssumption
  <1>2. \A k \in 0..(n_live - 1) : live[k] \in Svc /\ live_pos[live[k]] = k /\ k \in Int
    BY DEF IInv, Listed
  <1>3. scan_pid(p) = IF hits = {} THEN Nobody ELSE [svc |-> live[c], stale |-> pid[live[c]] # p]
    BY DEF scan_pid
  <1>4. CASE \A i \in Svc : ~Has(i, p)
    <2>1. hits = {}
      BY <1>2, <1>4 DEF Has
    <2> QED  BY <1>3, <1>4, <2>1, OwnerIs
  <1>5. ASSUME NEW i \in Svc, Has(i, p) PROVE scan_pid(p) = Owner(p)
    <2>1. live_has(i)
      BY <1>1, <1>5 DEF IInv, ProcLive, Has
    <2>2. PICK x \in 0..(n_live - 1) : live[x] = i
      BY <2>1, HasPlace
    <2>3. hits = {x}
      <3>1. x \in hits
        BY <1>5, <2>2 DEF Has
      <3>2. ASSUME NEW k \in hits PROVE k = x
        <4>1. Has(live[k], p) /\ live[k] \in Svc
          BY <1>2, <3>2 DEF Has
        <4>2. live[k] = i
          BY <1>5, <4>1 DEF IInv, OneEach
        <4> QED  BY <1>2, <2>2, <4>2
      <3> QED  BY <3>1, <3>2
    <2>4. c = x
      <3> HIDE DEF hits
      <3>1. \E k \in hits : \A m \in hits : k <= m
        BY <1>2, <2>3
      <3> QED  BY <2>3, <3>1
    <2> HIDE DEF hits, c
    <2> QED  BY <1>3, <1>5, <2>2, <2>3, <2>4, OwnerIs
  <1> QED  BY <1>4, <1>5

\* For any number of services and children, any size of the table and any hash function:
\* the probing of find_pid() gives for each child the service that has it or abandoned it,
\* and nobody for any other number, after any deletions by moving entries back; and so does
\* the walk over the live list that takes its place.
THEOREM OwnerIsFound == Spec => []FindsOwner
  <1>1. IInv => FindsOwner
    BY TableAnswers, ListAnswers DEF FindsOwner
  <1> QED  BY <1>1, AlwaysMap, PTL
=============================================================================
