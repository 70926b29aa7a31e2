-------------------------- MODULE SupervisorProofs --------------------------
(***************************************************************************)
(* Proofs about Supervisor.tla, for every graph ng_verify() accepts:       *)
(* starts and releases are in order, each run fits its state and the live  *)
(* list, the counters are exact, targets follow their prerequisites and no *)
(* restart is forgotten.                                                   *)
(***************************************************************************)
EXTENDS Supervisor, DepGraphProofs

\* What goes down with i was released and is not order-only; i is among it if it
\* is such a service itself.
LEMMA ReclaimedFacts ==
  ASSUME NEW i \in Svc
  PROVE  /\ Reclaimed(i) \subseteq {k \in Svc : released[k] /\ k \notin OrderOnly}
         /\ released[i] /\ i \notin OrderOnly => i \in Reclaimed(i)
  <1> DEFINE T == {k \in Svc : released[k] /\ k \notin OrderOnly}
             R == [j \in Svc |-> {d \in Rdep[j] : /\ Type[d] = "target"
                                                  /\ released[d]
                                                  /\ d \notin OrderOnly}]
  <1>1. CASE ~(released[i] /\ i \notin OrderOnly)
    BY <1>1 DEF Reclaimed
  <1>2. CASE released[i] /\ i \notin OrderOnly
    <2>1. Reclaimed(i) = Reach({i}, R)
      BY <1>2 DEF Reclaimed
    <2>2. {i} \subseteq T
      BY <1>2
    <2>3. \A j \in T : R[j] \subseteq T
      BY GraphFacts
    <2>4. T \in SUBSET Svc
      OBVIOUS
    <2> HIDE DEF T, R
    <2>5. Reach({i}, R) \subseteq T
      BY <2>2, <2>3, <2>4, ReachWithin
    <2>6. i \in Reach({i}, R)
      BY ReachHolds
    <2> QED  BY <2>1, <2>5, <2>6 DEF T
  <1> QED  BY <1>1, <1>2

-----------------------------------------------------------------------------
(* The dependency side of a step.  um and po stand for the counts of unmet      *)
(* prerequisites and of queued releases a handler works with: unmet and pend, or *)
(* what is left of them once a release is delivered.                             *)

\* The counts um and po are exact for the services released now.
Exact(um, po) ==
  /\ um \in [Svc -> Nat] /\ po \in [Svc -> Nat]
  /\ \A d \in Svc : um[d] = Cardinality({p \in Prereqs(d) : ~released[p]}) + po[d]

\* The step leaves the dependency side sound, if it leaves po as the queue.
DepNext(po) ==
  /\ up' \in [Svc -> BOOLEAN] /\ released' \in [Svc -> BOOLEAN] /\ n_up' \in Int
  /\ UpIsReleased'
  /\ unmet' \in [Svc -> Nat] /\ po \in [Svc -> Nat]
  /\ \A d \in Svc : unmet'[d] = Cardinality({p \in Prereqs(d) : ~released'[p]}) + po[d]

\* Going down raises the count of each dependent by the prerequisites it loses.
LEMMA GoDownSound ==
  ASSUME TypeOK, UpIsReleased, NEW um, NEW po, Exact(um, po), NEW i \in Svc, go_down(i, um)
  PROVE  DepNext(po)
  <1> DEFINE R == Reclaimed(i)
  <1>1. /\ R \subseteq {k \in Svc : released[k] /\ k \notin OrderOnly}
        /\ released[i] /\ i \notin OrderOnly => i \in R
    BY ReclaimedFacts
  <1>2. /\ up' = [k \in Svc |-> up[k] /\ k # i /\ k \notin R]
        /\ released' = [k \in Svc |-> released[k] /\ k \notin R]
        /\ unmet' = [d \in Svc |-> um[d] + Cardinality(Prereqs(d) \cap R)]
        /\ n_up' = n_up - Cardinality({k \in R \cup {i} : up[k]})
    BY DEF go_down
  <1> HIDE DEF R
  <1>3. up' \in [Svc -> BOOLEAN] /\ released' \in [Svc -> BOOLEAN]
    BY <1>2 DEF TypeOK
  <1>4. n_up' \in Int
    <2>1. {k \in R \cup {i} : up[k]} \subseteq Svc
      BY <1>1
    <2>2. Cardinality({k \in R \cup {i} : up[k]}) \in Nat
      BY <2>1, SubFinite
    <2> QED  BY <1>2, <2>2 DEF TypeOK
  <1>5. UpIsReleased'
    BY <1>1, <1>2 DEF UpIsReleased, TypeOK
  <1>6. ASSUME NEW d \in Svc
        PROVE  /\ Cardinality(Prereqs(d) \cap R) \in Nat
               /\ unmet'[d] = Cardinality({p \in Prereqs(d) : ~released'[p]}) + po[d]
    <2> DEFINE A == {p \in Prereqs(d) : ~released[p]}
               B == Prereqs(d) \cap R
               C == {p \in Prereqs(d) : ~released'[p]}
    <2>1. A \subseteq Svc /\ B \subseteq Svc
      BY PrereqsIn
    <2>2. A \cap B = {}
      BY <1>1
    <2>3. C = A \cup B
      BY <1>1, <1>2, <2>1, PrereqsIn
    <2>4. unmet'[d] = um[d] + Cardinality(B)
      BY <1>2
    <2>5. um[d] = Cardinality(A) + po[d] /\ po[d] \in Nat
      BY DEF Exact
    <2> HIDE DEF A, B, C
    <2>6. Cardinality(A) \in Nat /\ Cardinality(B) \in Nat
      BY <2>1, SubFinite
    <2>7. Cardinality(C) = Cardinality(A) + Cardinality(B)
      BY <2>1, <2>2, <2>3, SplitCount
    <2>8. Cardinality(B) \in Nat /\ unmet'[d] = Cardinality(C) + po[d]
      BY <2>4, <2>5, <2>6, <2>7
    <2> QED  BY <2>8 DEF B, C
  <1>7. unmet' \in [Svc -> Nat] /\ po \in [Svc -> Nat]
    <2>1. po \in [Svc -> Nat] /\ \A d \in Svc : um[d] \in Nat
      BY DEF Exact
    <2>2. ASSUME NEW d \in Svc
          PROVE  um[d] + Cardinality(Prereqs(d) \cap R) \in Nat
      <3>1. Cardinality(Prereqs(d) \cap R) \in Nat
        BY <1>6
      <3> QED  BY <2>1, <3>1
    <2> QED  BY <1>2, <2>1, <2>2
  <1> QED  BY <1>3, <1>4, <1>5, <1>6, <1>7 DEF DepNext

\* A service that keeps its standing leaves the counts as they are.
LEMMA StandingSound ==
  ASSUME TypeOK, UpIsReleased, NEW um, NEW po, Exact(um, po), NEW i \in Svc,
         NEW down \in BOOLEAN, standing(i, um, down)
  PROVE  DepNext(po)
  <1>1. CASE down
    BY <1>1, GoDownSound DEF standing
  <1>2. CASE ~down
    BY <1>2 DEF standing, DepNext, Exact, TypeOK, UpIsReleased
  <1> QED  BY <1>1, <1>2

\* A release i makes is owed to each of its dependents exactly once.
LEMMA ReleaseSound ==
  ASSUME TypeOK, UpIsReleased, NEW um, NEW po, Exact(um, po), NEW i \in Svc,
         up' = [up EXCEPT ![i] = TRUE], n_up' = n_up + one(~up[i]),
         released' = [released EXCEPT ![i] = TRUE],
         unmet' = um,
         pend' = [d \in Svc |-> po[d] + one(~released[i] /\ d \in Rdep[i])]
  PROVE  DepNext(pend')
  <1>1. pend' \in [Svc -> Nat]
    BY DEF Exact, one
  <1>2. /\ up' \in [Svc -> BOOLEAN] /\ released' \in [Svc -> BOOLEAN] /\ n_up' \in Int
        /\ UpIsReleased' /\ unmet' \in [Svc -> Nat]
    BY DEF TypeOK, one, UpIsReleased, Exact
  <1>3. ASSUME NEW d \in Svc
        PROVE  unmet'[d] = Cardinality({p \in Prereqs(d) : ~released'[p]}) + pend'[d]
    <2> DEFINE A == {p \in Prereqs(d) : ~released[p]}
               C == {p \in Prereqs(d) : ~released'[p]}
    <2>0. unmet'[d] = Cardinality(A) + po[d] /\ po[d] \in Nat
      BY DEF Exact
    <2>1. A \subseteq Svc /\ C \subseteq Svc
      BY PrereqsIn
    <2>2. \A p \in Svc : released'[p] <=> (released[p] \/ p = i)
      BY DEF TypeOK
    <2>3. CASE ~released[i] /\ d \in Rdep[i]
      <3>1. A = C \cup {i} /\ C \cap {i} = {}
        BY <2>1, <2>2, <2>3, PrereqsIn DEF Prereqs
      <3>2. pend'[d] = po[d] + 1
        BY <2>3 DEF one
      <3> HIDE DEF A, C
      <3>3. Cardinality({i}) = 1
        BY FS_Singleton
      <3>4. Cardinality(A) = Cardinality(C) + 1
        BY <2>1, <3>1, <3>3, SplitCount
      <3>5. Cardinality(C) \in Nat
        BY <2>1, SubFinite
      <3> QED  BY <2>0, <3>2, <3>4, <3>5 DEF C
    <2>4. CASE ~(~released[i] /\ d \in Rdep[i])
      <3>1. A = C
        BY <2>1, <2>2, <2>4, PrereqsIn DEF Prereqs
      <3>2. pend'[d] = po[d]
        BY <2>0, <2>4 DEF one
      <3> QED  BY <2>0, <3>1, <3>2
    <2> QED  BY <2>3, <2>4
  <1> QED  BY <1>1, <1>2, <1>3 DEF DepNext

\* Completing releases once.
LEMMA CompleteSound ==
  ASSUME TypeOK, UpIsReleased, UnmetExact, NEW i \in Svc, complete(i)
  PROVE  /\ DepNext(pend')
         /\ state' \in [Svc -> States]
         /\ n_active' \in Int /\ n_pending' \in Int /\ n_done' \in Int
  <1>1. Exact(unmet, pend)
    BY DEF Exact, TypeOK, UnmetExact
  <1>2. DepNext(pend')
    BY <1>1, ReleaseSound DEF complete
  <1>3. /\ state' \in [Svc -> States]
        /\ n_active' \in Int /\ n_pending' \in Int /\ n_done' \in Int
    BY DEF complete, TypeOK, one, States
  <1> QED  BY <1>2, <1>3

-----------------------------------------------------------------------------
(* The run side of a step: states, runs, counters and the live list. *)

\* What a handler does to the record of a run leaves it one, and gives it no process.
LEMMA RunKept ==
  ASSUME NEW r \in Run
  PROVE  /\ close_fds(r) \in Run /\ close_fds(r).pid = r.pid
         /\ svc_abandon(r) \in Run /\ svc_abandon(r).pid = FALSE
         /\ \A b \in BOOLEAN :
              /\ [r EXCEPT !.starting = b] \in Run /\ [r EXCEPT !.starting = b].pid = r.pid
              /\ [r EXCEPT !.restart = b] \in Run /\ [r EXCEPT !.restart = b].pid = r.pid
              /\ [r EXCEPT !.hold = b] \in Run /\ [r EXCEPT !.hold = b].pid = r.pid
  <1>1. close_fds(r) \in Run /\ close_fds(r).pid = r.pid
    BY DEF Run, close_fds
  <1>2. svc_abandon(r) \in Run
    BY DEF Run, svc_abandon
  <1>3. svc_abandon(r).pid = FALSE
    BY DEF Run, svc_abandon
  <1>4. ASSUME NEW b \in BOOLEAN
        PROVE  [r EXCEPT !.starting = b] \in Run /\ [r EXCEPT !.starting = b].pid = r.pid
    BY DEF Run
  <1>5. ASSUME NEW b \in BOOLEAN
        PROVE  [r EXCEPT !.restart = b] \in Run /\ [r EXCEPT !.restart = b].pid = r.pid
    BY DEF Run
  <1>6. ASSUME NEW b \in BOOLEAN
        PROVE  [r EXCEPT !.hold = b] \in Run /\ [r EXCEPT !.hold = b].pid = r.pid
    BY DEF Run
  <1> QED  BY <1>1, <1>2, <1>3, <1>4, <1>5, <1>6

\* The same of restart_schedule().
LEMMA ScheduleKept ==
  ASSUME NEW r \in Run
  PROVE  restart_schedule(r) \in Run /\ restart_schedule(r).pid = FALSE
  <1> DEFINE a == svc_abandon(close_fds(r))
  <1>1. a \in Run /\ a.pid = FALSE
    BY RunKept
  <1> HIDE DEF a
  <1>2. [a EXCEPT !.restart = TRUE, !.hold = FALSE] \in Run
    BY <1>1 DEF Run
  <1>3. [a EXCEPT !.restart = TRUE, !.hold = FALSE].pid = a.pid
    BY <1>1 DEF Run
  <1> QED  BY <1>1, <1>2, <1>3 DEF a, restart_schedule

\* A launch leaves a run.
LEMMA LaunchedRun ==
  ASSUME NEW i \in Svc, NEW r \in Run
  PROVE  launched(i, r) \in Run
  BY DEF Run, launched

\* The step leaves these variables in their types.
RestNext ==
  /\ state' \in [Svc -> States]
  /\ run' \in [Svc -> Run]
  /\ live' \in SUBSET Svc
  /\ n_active' \in Int /\ n_done' \in Int /\ n_pending' \in Int

\* No service gains a process.
NoLaunch == \A k \in Svc : run'[k].pid => run[k].pid

\* A skipped service loses its timer and nothing else.
LEMMA SkippedNoteSound ==
  ASSUME NEW S, NEW rn \in [Svc -> Run], NEW lv \in SUBSET Svc, skipped_note(S, rn, lv)
  PROVE  /\ run' \in [Svc -> Run]
         /\ live' \in SUBSET Svc
         /\ \A k \in Svc : run'[k].pid = rn[k].pid
  <1>1. /\ run' = [d \in Svc |->
                     IF d \in {c \in S \cap lv : rn[c].restart}
                     THEN [rn[d] EXCEPT !.restart = FALSE, !.hold = FALSE] ELSE rn[d]]
        /\ live' \subseteq lv
    BY DEF skipped_note
  <1>2. ASSUME NEW d \in Svc
        PROVE  run'[d] \in Run /\ run'[d].pid = rn[d].pid
    <2>1. rn[d] \in Run
      OBVIOUS
    <2>2. /\ [rn[d] EXCEPT !.restart = FALSE, !.hold = FALSE] \in Run
          /\ [rn[d] EXCEPT !.restart = FALSE, !.hold = FALSE].pid = rn[d].pid
      BY <2>1 DEF Run
    <2> QED  BY <1>1, <2>1, <2>2
  <1>3. run' \in [Svc -> Run]
    BY <1>1, <1>2
  <1> QED  BY <1>1, <1>2, <1>3

\* A count of services taken from a counter leaves an integer.
LEMMA CountIn ==
  ASSUME NEW S, S \subseteq Svc, NEW st, NEW n \in Int
  PROVE  n - Cardinality({k \in S : state[k] = st}) \in Int
  <1>1. {k \in S : state[k] = st} \subseteq Svc
    OBVIOUS
  <1>2. Cardinality({k \in S : state[k] = st}) \in Nat
    BY <1>1, SubFinite
  <1> QED  BY <1>2

\* A failure for good, and what it spreads, keeps both sides sound.
LEMMA PoisonSound ==
  ASSUME TypeOK, UpIsReleased, NEW um, NEW po, Exact(um, po), NEW i \in Svc,
         NEW rn \in [Svc -> Run], NEW lv \in SUBSET Svc, poison(i, um, rn, lv)
  PROVE  /\ DepNext(po) /\ RestNext
         /\ \A k \in Svc : run'[k].pid = rn[k].pid
  <1> DEFINE S == poison_spread(i)
  <1>1. S \subseteq Svc /\ S \cup {i} \subseteq Svc
    BY DEF poison_spread, Reach
  <1>2. /\ state' = [k \in Svc |-> IF k = i THEN "failed"
                                   ELSE IF k \in S THEN "skipped" ELSE state[k]]
        /\ n_active' = n_active - Cardinality({k \in S \cup {i} : state[k] = "running"})
        /\ n_pending' = n_pending - Cardinality({k \in S \cup {i} : state[k] = "pending"})
        /\ n_done' = n_done - Cardinality({k \in S \cup {i} : state[k] = "done"})
        /\ skipped_note(S, rn, lv)
    BY DEF poison
  <1>3. DepNext(po)
    BY GoDownSound DEF poison
  <1> HIDE DEF S
  <1>4. state' \in [Svc -> States]
    BY <1>2 DEF TypeOK, States
  <1>5. n_active' \in Int /\ n_done' \in Int /\ n_pending' \in Int
    BY <1>1, <1>2, CountIn DEF TypeOK
  <1>6. /\ run' \in [Svc -> Run] /\ live' \in SUBSET Svc
        /\ \A k \in Svc : run'[k].pid = rn[k].pid
    BY <1>2, SkippedNoteSound
  <1> QED  BY <1>3, <1>4, <1>5, <1>6 DEF RestNext

\* The same of a service that had completed.
LEMMA PoisonDepsSound ==
  ASSUME TypeOK, UpIsReleased, UnmetExact, NEW i \in Svc,
         NEW rn \in [Svc -> Run], NEW lv \in SUBSET Svc, poison_deps(i, rn, lv)
  PROVE  /\ DepNext(pend) /\ RestNext
         /\ \A k \in Svc : run'[k].pid = rn[k].pid
  <1> DEFINE S == IF i \in OrderOnly \/ Taken[i] = {} THEN {} ELSE poison_spread(i)
  <1>1. S \subseteq Svc
    BY DEF poison_spread, Reach
  <1>2. /\ state' = [k \in Svc |-> IF k \in S THEN "skipped" ELSE state[k]]
        /\ n_active' = n_active - Cardinality({k \in S : state[k] = "running"})
        /\ n_pending' = n_pending - Cardinality({k \in S : state[k] = "pending"})
        /\ n_done' = n_done - Cardinality({k \in S : state[k] = "done"})
        /\ skipped_note(S, rn, lv)
    BY DEF poison_deps
  <1>3. DepNext(pend)
    <2>1. Exact(unmet, pend)
      BY DEF Exact, TypeOK, UnmetExact
    <2>2. go_down(i, unmet)
      BY DEF poison_deps
    <2> QED  BY <2>1, <2>2, GoDownSound
  <1> HIDE DEF S
  <1>4. state' \in [Svc -> States]
    BY <1>2 DEF TypeOK, States
  <1>5. n_active' \in Int /\ n_done' \in Int /\ n_pending' \in Int
    BY <1>1, <1>2, CountIn DEF TypeOK
  <1>6. /\ run' \in [Svc -> Run] /\ live' \in SUBSET Svc
        /\ \A k \in Svc : run'[k].pid = rn[k].pid
    BY <1>2, SkippedNoteSound
  <1> QED  BY <1>3, <1>4, <1>5, <1>6 DEF RestNext

\* spawn()'s change of state keeps the types.
LEMMA SetRunningSound ==
  ASSUME TypeOK, NEW i \in Svc, set_running(i)
  PROVE  /\ state' \in [Svc -> States]
         /\ n_active' \in Int /\ n_done' \in Int /\ n_pending' \in Int
  BY DEF set_running, TypeOK, States, one

\* A failed attempt leaves both sides sound, whether it is retried or was the last,
\* and starts nothing.
LEMMA FailedSound ==
  ASSUME TypeOK, UpIsReleased, NEW um, NEW po, Exact(um, po), NEW i \in Svc,
         NEW r \in Run, NEW lv \in SUBSET Svc, NEW down \in BOOLEAN,
         service_failed(i, r, lv, um, down)
  PROVE  DepNext(po) /\ RestNext /\ NoLaunch
  <1> DEFINE a == svc_abandon(close_fds(r))
             f == [a EXCEPT !.starting = FALSE,
                            !.attempt = IF r.attempt < UINT8_MAX THEN @ + 1 ELSE @]
             g == [f EXCEPT !.restart = TRUE, !.hold = f.stale]
  <1>1. a \in Run /\ a.pid = FALSE /\ a.attempt = r.attempt
    <2>1. a \in Run /\ a.pid = FALSE
      BY RunKept
    <2>2. a.attempt = r.attempt
      BY DEF svc_abandon, close_fds, Run
    <2> QED  BY <2>1, <2>2
  <1>2. \/ /\ run' = [run EXCEPT ![i] = g] /\ live' = lv \cup {i}
           /\ set_running(i) /\ standing(i, um, down)
        \/ poison(i, um, [run EXCEPT ![i] = f], IF f.stale \/ f.op # "none" THEN lv ELSE lv \ {i})
    BY DEF service_failed
  <1> HIDE DEF a
  <1>3. f \in Run /\ f.pid = FALSE
    <2> DEFINE n == IF r.attempt < UINT8_MAX THEN r.attempt + 1 ELSE r.attempt
    <2>1. n \in 0..UINT8_MAX
      BY DEF Run, UINT8_MAX
    <2>2. f = [a EXCEPT !.starting = FALSE, !.attempt = n]
      BY <1>1
    <2> HIDE DEF n, f
    <2> QED  BY <1>1, <2>1, <2>2 DEF Run
  <1> HIDE DEF f
  <1>4. g \in Run /\ g.pid = FALSE
    BY <1>3 DEF Run
  <1> HIDE DEF g
  <1>5. run \in [Svc -> Run]
    BY DEF TypeOK
  <1>6. CASE /\ run' = [run EXCEPT ![i] = g] /\ live' = lv \cup {i}
             /\ set_running(i) /\ standing(i, um, down)
    <2>1. DepNext(po)
      BY <1>6, StandingSound
    <2>2. RestNext
      BY <1>4, <1>5, <1>6, SetRunningSound DEF RestNext
    <2>3. NoLaunch
      BY <1>4, <1>5, <1>6 DEF NoLaunch
    <2> QED  BY <2>1, <2>2, <2>3
  <1>7. CASE poison(i, um, [run EXCEPT ![i] = f],
                    IF f.stale \/ f.op # "none" THEN lv ELSE lv \ {i})
    <2> DEFINE rn == [run EXCEPT ![i] = f]
               l == IF f.stale \/ f.op # "none" THEN lv ELSE lv \ {i}
    <2>1. rn \in [Svc -> Run] /\ l \in SUBSET Svc
      BY <1>3, <1>5
    <2>2. \A k \in Svc : rn[k].pid => run[k].pid
      BY <1>3, <1>5
    <2>3. poison(i, um, rn, l)
      BY <1>7
    <2> HIDE DEF rn, l
    <2>4. DepNext(po) /\ RestNext /\ \A k \in Svc : run'[k].pid = rn[k].pid
      BY <2>1, <2>3, PoisonSound
    <2> QED  BY <2>2, <2>4 DEF NoLaunch
  <1> QED  BY <1>2, <1>6, <1>7

\* An attempt to start i leaves both sides sound and starts nothing else.
LEMMA SpawnSound ==
  ASSUME TypeOK, UpIsReleased, NEW um, NEW po, Exact(um, po), NEW i \in Svc,
         NEW r \in Run, NEW lv \in SUBSET Svc, NEW down \in BOOLEAN,
         spawn(i, r, lv, um, down)
  PROVE  /\ DepNext(po) /\ RestNext
         /\ \A k \in Svc \ {i} : run'[k].pid => run[k].pid
  <1>1. CASE service_failed(i, r, lv, um, down)
    BY <1>1, FailedSound DEF NoLaunch
  <1>2. CASE /\ run' = [run EXCEPT ![i] = launched(i, r)] /\ live' = lv \cup {i}
             /\ set_running(i) /\ standing(i, um, down)
    <2>1. launched(i, r) \in Run /\ run \in [Svc -> Run]
      BY LaunchedRun DEF TypeOK
    <2>2. DepNext(po)
      BY <1>2, StandingSound
    <2>3. RestNext
      BY <1>2, <2>1, SetRunningSound DEF RestNext
    <2> QED  BY <1>2, <2>1, <2>2, <2>3
  <1> QED  BY <1>1, <1>2 DEF spawn

-----------------------------------------------------------------------------
(* The inductive invariant. *)

\* None of the three is inductive alone: a release takes one from unmet, which stays
\* a natural number because unmet counts the queue too; going down adds to unmet
\* what was released, and a service that is up must have been.
IInv == TypeOK /\ UnmetExact /\ UpIsReleased

\* The variables no dependency or run is kept in.
LoopNext ==
  /\ want' \in [Svc -> BOOLEAN]
  /\ n_ops' \in Int
  /\ scan' \in SUBSET Svc
  /\ shutting_down' \in BOOLEAN
  /\ booted' \in BOOLEAN

\* A process is launched only for a service that may start, and has no prerequisite
\* left to wait for other than what the queue is about to tell it.
LaunchSafe ==
  \A i \in Svc : ~run[i].pid /\ run'[i].pid =>
    ~run[i].stale /\ ~shutting_down /\ ~want'[i] /\ unmet[i] <= pend[i]

\* The invariant after the step, from its parts.
LEMMA Parts ==
  ASSUME DepNext(pend'), RestNext, LoopNext
  PROVE  IInv'
  BY DEF DepNext, RestNext, LoopNext, IInv, TypeOK, UnmetExact

\* What the counts say of the current state.
LEMMA ExactNow ==
  ASSUME IInv
  PROVE  Exact(unmet, pend)
  BY DEF IInv, Exact, TypeOK, UnmetExact

\* The dependency side of a step that leaves it alone.
LEMMA DepKept ==
  ASSUME IInv, UNCHANGED <<up, released, unmet, n_up, pend>>
  PROVE  DepNext(pend')
  BY DEF IInv, DepNext, TypeOK, UnmetExact, UpIsReleased

\* A step that replaces the run of i alone, and leaves states and counters.
LEMMA OneRun ==
  ASSUME IInv, NEW i \in Svc, NEW r \in Run, r.pid => run[i].pid,
         run' = [run EXCEPT ![i] = r], live' \in SUBSET Svc,
         state' \in [Svc -> States], n_active' \in Int, n_done' \in Int, n_pending' \in Int
  PROVE  RestNext /\ NoLaunch
  BY DEF IInv, TypeOK, RestNext, NoLaunch

\* Nothing launched is nothing launched wrongly.
LEMMA QuietLaunch ==
  ASSUME NoLaunch
  PROVE  LaunchSafe
  BY DEF NoLaunch, LaunchSafe

\* The live list after maybe_free().
LEMMA FreedIn ==
  ASSUME NEW lv \in SUBSET Svc, NEW i, NEW r
  PROVE  maybe_free(lv, i, r) \in SUBSET Svc
  BY DEF maybe_free

-----------------------------------------------------------------------------
(* One lemma per group of actions. *)

\* A delivered release leaves the counts exact, and there was something to count.
LEMMA DeliverExact ==
  ASSUME IInv, NEW d \in Svc, pend[d] > 0
  PROVE  Exact(Met(d), Told(d)) /\ unmet[d] >= pend[d]
  <1> DEFINE c == [k \in Svc |-> Cardinality({p \in Prereqs(k) : ~released[p]})]
  <1>1. ASSUME NEW k \in Svc
        PROVE  c[k] \in Nat
    <2>1. {p \in Prereqs(k) : ~released[p]} \subseteq Svc
      BY PrereqsIn
    <2>2. Cardinality({p \in Prereqs(k) : ~released[p]}) \in Nat
      BY <2>1, SubFinite
    <2> QED  BY <2>2
  <1>2. \A k \in Svc : unmet[k] = c[k] + pend[k]
    BY DEF IInv, UnmetExact
  <1>3. unmet \in [Svc -> Nat] /\ pend \in [Svc -> Nat]
    BY DEF IInv, TypeOK
  <1>4. \A k \in Svc : c[k] = Cardinality({p \in Prereqs(k) : ~released[p]})
    OBVIOUS
  <1> HIDE DEF c
  <1>5. Met(d) \in [Svc -> Nat] /\ Told(d) \in [Svc -> Nat]
    BY <1>1, <1>2, <1>3 DEF Met, Told
  <1>6. \A k \in Svc : Met(d)[k] = c[k] + Told(d)[k]
    BY <1>1, <1>2, <1>3 DEF Met, Told
  <1>7. unmet[d] >= pend[d]
    BY <1>1, <1>2, <1>3
  <1> QED  BY <1>4, <1>5, <1>6, <1>7 DEF Exact

\* The release queue.
LEMMA ReleaseStep ==
  ASSUME IInv, NEW d \in Svc, svc_release(d)
  PROVE  IInv' /\ LaunchSafe
  <1>1. deliver(d)
    BY DEF svc_release, DeliverTarget, DeliverStart, DeliverRestart, DeliverQuiet
  <1>2. Exact(Met(d), Told(d)) /\ unmet[d] >= pend[d] /\ pend[d] > 0
    BY <1>1, DeliverExact DEF deliver
  <1>3. LoopNext
    BY <1>1 DEF deliver, LoopNext, IInv, TypeOK, loopVars
  <1>4. run \in [Svc -> Run] /\ live \in SUBSET Svc /\ run[d] \in Run
    BY DEF IInv, TypeOK
  <1>5. CASE DeliverTarget(d)
    <2>1. DepNext(pend')
      <3>1. ~released[d] /\ released \in [Svc -> BOOLEAN]
        BY <1>5 DEF DeliverTarget, Opens, IInv, TypeOK
      <3>2. pend' = [k \in Svc |-> Told(d)[k] + one(~released[d] /\ k \in Rdep[d])]
        BY <1>5, <3>1 DEF DeliverTarget, one
      <3>3. /\ up' = [up EXCEPT ![d] = TRUE] /\ n_up' = n_up + one(~up[d])
            /\ released' = [released EXCEPT ![d] = TRUE] /\ unmet' = Met(d)
        BY <1>5 DEF DeliverTarget
      <3> QED  BY <1>2, <3>2, <3>3, ReleaseSound DEF IInv
    <2>2. RestNext /\ NoLaunch
      BY <1>5 DEF DeliverTarget, RestNext, NoLaunch, IInv, TypeOK, one, States
    <2> QED  BY <1>3, <2>1, <2>2, Parts, QuietLaunch
  <1>6. CASE DeliverStart(d)
    <2>1. pend' = Told(d) /\ spawn(d, run[d], live, Met(d), FALSE) /\ Starts(d)
      BY <1>6 DEF DeliverStart
    <2>2. /\ DepNext(Told(d)) /\ RestNext
          /\ \A k \in Svc \ {d} : run'[k].pid => run[k].pid
      BY <1>2, <1>4, <2>1, SpawnSound DEF IInv
    <2>3. ~run[d].stale /\ ~shutting_down /\ ~want'[d] /\ unmet[d] <= pend[d]
      <3>1. pend[d] \in Nat /\ unmet[d] = 1
        BY <2>1 DEF Starts, Last, IInv, TypeOK
      <3>2. ~run[d].stale /\ ~shutting_down /\ ~want[d] /\ want' = want
        BY <1>1, <2>1 DEF Starts, svc_can_start, deliver
      <3> QED  BY <1>2, <3>1, <3>2
    <2>4. LaunchSafe
      BY <2>2, <2>3 DEF LaunchSafe
    <2> QED  BY <1>3, <2>1, <2>2, <2>4, Parts
  <1>7. CASE DeliverRestart(d)
    <2>1. DepNext(pend')
      BY <1>2, <1>7 DEF DeliverRestart, DepNext, Exact, IInv, TypeOK, UpIsReleased
    <2>2. [run[d] EXCEPT !.restart = TRUE] \in Run /\ [run[d] EXCEPT !.restart = TRUE].pid = run[d].pid
      BY <1>4, RunKept
    <2>3. run' = [run EXCEPT ![d] = [run[d] EXCEPT !.restart = TRUE]]
      BY <1>7 DEF DeliverRestart
    <2>4. RestNext /\ NoLaunch
      BY <1>4, <1>7, <2>2, <2>3, OneRun DEF DeliverRestart, IInv, TypeOK
    <2> QED  BY <1>3, <2>1, <2>4, Parts, QuietLaunch
  <1>8. CASE DeliverQuiet(d)
    <2>1. DepNext(pend')
      BY <1>2, <1>8 DEF DeliverQuiet, DepNext, Exact, IInv, TypeOK, UpIsReleased
    <2>2. RestNext /\ NoLaunch
      BY <1>8 DEF DeliverQuiet, RestNext, NoLaunch, IInv, TypeOK
    <2> QED  BY <1>3, <2>1, <2>2, Parts, QuietLaunch
  <1> QED  BY <1>5, <1>6, <1>7, <1>8 DEF svc_release

\* The boot and resume scans.
LEMMA VisitStep ==
  ASSUME IInv, NEW i \in Svc, visit(i)
  PROVE  IInv' /\ LaunchSafe
  <1>1. Visiting(i)
    BY DEF visit, VisitTarget, VisitStart, VisitQuiet
  <1>2. LoopNext
    BY <1>1 DEF Visiting, LoopNext, IInv, TypeOK
  <1>3. CASE VisitTarget(i)
    <2>1. DepNext(pend') /\ RestNext /\ NoLaunch
      BY <1>3, CompleteSound DEF VisitTarget, RestNext, NoLaunch, IInv, TypeOK
    <2> QED  BY <1>2, <2>1, Parts, QuietLaunch
  <1>4. CASE VisitStart(i)
    <2>1. run[i] \in Run /\ live \in SUBSET Svc
      BY DEF IInv, TypeOK
    <2>2. /\ DepNext(pend) /\ RestNext
          /\ \A k \in Svc \ {i} : run'[k].pid => run[k].pid
      BY <1>4, <2>1, ExactNow, SpawnSound DEF VisitStart, IInv
    <2>3. unmet[i] = 0 /\ ~run[i].stale /\ ~shutting_down /\ ~want'[i]
      BY <1>1, <1>4 DEF VisitStart, Launches, svc_can_start, Visiting
    <2>4. LaunchSafe
      BY <2>2, <2>3 DEF LaunchSafe, IInv, TypeOK
    <2>5. DepNext(pend')
      BY <1>4, <2>2 DEF VisitStart
    <2> QED  BY <1>2, <2>2, <2>4, <2>5, Parts
  <1>5. CASE VisitQuiet(i)
    <2>1. DepNext(pend')
      BY <1>5, DepKept DEF VisitQuiet, depVars
    <2>2. RestNext /\ NoLaunch
      BY <1>5 DEF VisitQuiet, depVars, RestNext, NoLaunch, IInv, TypeOK
    <2> QED  BY <1>2, <2>1, <2>2, Parts, QuietLaunch
  <1> QED  BY <1>3, <1>4, <1>5 DEF visit

\* What a process does, and the reading of its pipes.
LEMMA PipeStep ==
  ASSUME IInv, NEW i \in Svc,
         Report(i) \/ LeftoversGone(i) \/ drain_ready(i) \/ drain_closed(i) \/ drain_out(i)
  PROVE  IInv' /\ LaunchSafe
  <1>1. LoopNext
    BY DEF Report, LeftoversGone, drain_ready, drain_closed, drain_out, loopVars,
           LoopNext, IInv, TypeOK
  <1>2. run[i] \in Run /\ live \in SUBSET Svc
    BY DEF IInv, TypeOK
  <1>3. CASE Report(i) \/ LeftoversGone(i) \/ drain_closed(i) \/ drain_out(i)
    <2>1. \E r \in Run : /\ r.pid = run[i].pid
                         /\ run' = [run EXCEPT ![i] = r]
      <3>1. /\ [run[i] EXCEPT !.ntf = "report"] \in Run
            /\ [run[i] EXCEPT !.ntf = "none"] \in Run
            /\ [run[i] EXCEPT !.extra = FALSE] \in Run
            /\ [run[i] EXCEPT !.out = FALSE] \in Run
        BY <1>2 DEF Run
      <3>2. /\ [run[i] EXCEPT !.ntf = "report"].pid = run[i].pid
            /\ [run[i] EXCEPT !.ntf = "none"].pid = run[i].pid
            /\ [run[i] EXCEPT !.extra = FALSE].pid = run[i].pid
            /\ [run[i] EXCEPT !.out = FALSE].pid = run[i].pid
        BY <1>2 DEF Run
      <3>3. \/ run' = [run EXCEPT ![i] = [run[i] EXCEPT !.ntf = "report"]]
            \/ run' = [run EXCEPT ![i] = [run[i] EXCEPT !.ntf = "none"]]
            \/ run' = [run EXCEPT ![i] = [run[i] EXCEPT !.extra = FALSE]]
            \/ run' = [run EXCEPT ![i] = [run[i] EXCEPT !.out = FALSE]]
        BY <1>3 DEF Report, LeftoversGone, drain_closed, drain_out
      <3> QED  BY <3>1, <3>2, <3>3
    <2>2. UNCHANGED depVars /\ live' \in SUBSET Svc
      BY <1>2, <1>3, FreedIn DEF Report, LeftoversGone, drain_closed, drain_out
    <2>3. RestNext /\ NoLaunch
      BY <2>1, <2>2, OneRun DEF depVars, IInv, TypeOK
    <2>4. DepNext(pend')
      BY <2>2, DepKept DEF depVars
    <2> QED  BY <1>1, <2>3, <2>4, Parts, QuietLaunch
  <1>4. CASE drain_ready(i)
    <2> DEFINE t == IF i \in Notify THEN "open" ELSE "none"
               r == [run[i] EXCEPT !.starting = FALSE, !.ntf = t]
    <2>1. run' = [run EXCEPT ![i] = r] /\ live' = live
      BY <1>4 DEF drain_ready
    <2>2. t \in {"none", "open", "report"}
      OBVIOUS
    <2> HIDE DEF t
    <2>3. r \in Run /\ r.pid = run[i].pid
      BY <1>2, <2>2 DEF Run
    <2> HIDE DEF r
    <2>4. complete(i) \/ UNCHANGED depVars
      BY <1>4 DEF drain_ready
    <2>5. /\ DepNext(pend')
          /\ state' \in [Svc -> States]
          /\ n_active' \in Int /\ n_pending' \in Int /\ n_done' \in Int
      <3>1. CASE complete(i)
        BY <3>1, CompleteSound DEF IInv
      <3>2. CASE UNCHANGED depVars
        BY <3>2, DepKept DEF depVars, IInv, TypeOK
      <3> QED  BY <2>4, <3>1, <3>2
    <2>6. RestNext /\ NoLaunch
      BY <1>2, <2>1, <2>3, <2>5, OneRun
    <2> QED  BY <1>1, <2>5, <2>6, Parts, QuietLaunch
  <1> QED  BY <1>3, <1>4

\* A step that takes i down and leaves the states.
LEMMA GoDownNow ==
  ASSUME IInv, NEW i \in Svc, go_down(i, unmet), pend' = pend
  PROVE  DepNext(pend')
  BY ExactNow, GoDownSound DEF IInv

\* svc_mark_pending() keeps the types.
LEMMA MarkPendingSound ==
  ASSUME IInv, NEW i \in Svc, svc_mark_pending(i)
  PROVE  /\ state' \in [Svc -> States]
         /\ n_active' \in Int /\ n_done' \in Int /\ n_pending' \in Int
  BY DEF svc_mark_pending, IInv, TypeOK, States, one

\* A service gone for good that had been ready.
LEMMA PoisonDepsNow ==
  ASSUME IInv, NEW i \in Svc, NEW r \in Run, r.pid => run[i].pid, NEW lv \in SUBSET Svc,
         poison_deps(i, [run EXCEPT ![i] = r], lv), pend' = pend
  PROVE  DepNext(pend') /\ RestNext /\ NoLaunch
  <1> DEFINE rn == [run EXCEPT ![i] = r]
  <1>1. rn \in [Svc -> Run] /\ \A k \in Svc : rn[k].pid => run[k].pid
    BY DEF IInv, TypeOK
  <1>2. poison_deps(i, rn, lv)
    OBVIOUS
  <1> HIDE DEF rn
  <1>3. DepNext(pend) /\ RestNext /\ \A k \in Svc : run'[k].pid = rn[k].pid
    BY <1>1, <1>2, PoisonDepsSound DEF IInv
  <1> QED  BY <1>1, <1>3 DEF NoLaunch

\* The end of a process.
LEMMA ExitStep ==
  ASSUME IInv, NEW i \in Svc, NEW e \in BOOLEAN, child_exited(i, e)
  PROVE  IInv' /\ LaunchSafe
  <1> DEFINE q == Reaped(i, e)
             h == [q EXCEPT !.restart = FALSE]
  <1>1. run[i] \in Run /\ live \in SUBSET Svc
    BY DEF IInv, TypeOK
  <1>2. q \in Run /\ q.pid = FALSE
    BY <1>1 DEF Run, Reaped
  <1>3. close_fds(q) \in Run /\ close_fds(q).pid = FALSE
    BY <1>2, RunKept
  <1>4. close_fds(h) \in Run /\ close_fds(h).pid = FALSE
    <2>1. h \in Run /\ h.pid = FALSE
      BY <1>2, RunKept
    <2> QED  BY <2>1, RunKept
  <1>5. restart_schedule(q) \in Run /\ restart_schedule(q).pid = FALSE
    BY <1>2, ScheduleKept
  <1>6. LoopNext
    BY DEF child_exited, exited_held, exited_restart, exited_for_good, exited_complete,
           exited_starting, exited_shutdown, reap, loopVars, LoopNext, IInv, TypeOK
  <1> SUFFICES DepNext(pend') /\ RestNext /\ NoLaunch
    BY <1>6, Parts, QuietLaunch
  <1>7. CASE exited_held(i, e)
    <2>1. /\ run' = [run EXCEPT ![i] = close_fds(h)]
          /\ live' = maybe_free(live, i, close_fds(h))
          /\ go_down(i, unmet) /\ pend' = pend
          /\ svc_mark_pending(i) \/ UNCHANGED <<state, n_active, n_done, n_pending>>
      BY <1>7 DEF exited_held, reap
    <2>2. /\ state' \in [Svc -> States]
          /\ n_active' \in Int /\ n_done' \in Int /\ n_pending' \in Int
      BY <2>1, MarkPendingSound DEF IInv, TypeOK
    <2>3. DepNext(pend')
      BY <2>1, GoDownNow
    <2> HIDE DEF h
    <2> QED  BY <1>1, <1>4, <2>1, <2>2, <2>3, OneRun, FreedIn
  <1>8. CASE exited_restart(i, e)
    <2>1. /\ run' = [run EXCEPT ![i] = restart_schedule(q)]
          /\ go_down(i, unmet) /\ pend' = pend
          /\ UNCHANGED <<state, live, n_active, n_done, n_pending>>
      BY <1>8 DEF exited_restart, reap
    <2>2. DepNext(pend')
      BY <2>1, GoDownNow
    <2>3. RestNext /\ NoLaunch
      BY <1>5, <2>1, OneRun DEF IInv, TypeOK
    <2> QED  BY <2>2, <2>3
  <1>9. CASE exited_for_good(i, e)
    <2>1. /\ poison_deps(i, [run EXCEPT ![i] = close_fds(q)], maybe_free(live, i, close_fds(q)))
          /\ pend' = pend
      BY <1>9 DEF exited_for_good, reap
    <2> HIDE DEF q
    <2> QED  BY <1>1, <1>3, <2>1, PoisonDepsNow, FreedIn
  <1>10. CASE exited_complete(i, e)
    <2>1. /\ complete(i)
          /\ run' = [run EXCEPT ![i] = q] /\ live' = maybe_free(live, i, q)
      BY <1>10 DEF exited_complete
    <2>2. /\ DepNext(pend') /\ state' \in [Svc -> States]
          /\ n_active' \in Int /\ n_done' \in Int /\ n_pending' \in Int
      BY <2>1, CompleteSound DEF IInv
    <2> HIDE DEF q
    <2> QED  BY <1>1, <1>2, <2>1, <2>2, OneRun, FreedIn
  <1>11. CASE exited_starting(i, e)
    <2>1. service_failed(i, q, live, unmet, FALSE) /\ pend' = pend
      BY <1>11 DEF exited_starting, reap
    <2> HIDE DEF q
    <2>2. DepNext(pend) /\ RestNext /\ NoLaunch
      BY <1>1, <1>2, <2>1, ExactNow, FailedSound DEF IInv
    <2> QED  BY <2>1, <2>2
  <1>12. CASE exited_shutdown(i, e)
    <2> DEFINE r == IF state[i] = "running" THEN close_fds(q) ELSE q
    <2>1. /\ run' = [run EXCEPT ![i] = r] /\ live' = maybe_free(live, i, r) /\ pend' = pend
          /\ UNCHANGED <<state, up, released, unmet, n_active, n_done, n_pending, n_up>>
      BY <1>12 DEF exited_shutdown, reap
    <2>2. r \in Run /\ r.pid = FALSE
      BY <1>2, <1>3
    <2> HIDE DEF r
    <2>3. live' \in SUBSET Svc
      BY <1>1, <2>1, FreedIn
    <2>4. RestNext /\ NoLaunch
      BY <2>1, <2>2, <2>3, OneRun DEF IInv, TypeOK
    <2> QED  BY <2>1, <2>4, DepKept
  <1> QED  BY <1>7, <1>8, <1>9, <1>10, <1>11, <1>12 DEF child_exited

\* The end of a process that was abandoned.
LEMMA StaleStep ==
  ASSUME IInv, NEW i \in Svc, NEW e \in BOOLEAN, stale_reaped(i, e)
  PROVE  IInv' /\ LaunchSafe
  <1> DEFINE r == [run[i] EXCEPT !.stale = FALSE, !.hold = @ /\ ~run[i].restart, !.extra = e]
  <1>1. run[i] \in Run /\ live \in SUBSET Svc
    BY DEF IInv, TypeOK
  <1>2. /\ run' = [run EXCEPT ![i] = r] /\ live' = maybe_free(live, i, r)
        /\ UNCHANGED <<depVars, want, n_ops, loopVars>>
    BY DEF stale_reaped
  <1>3. r \in Run /\ r.pid = run[i].pid
    BY <1>1 DEF Run
  <1> HIDE DEF r
  <1>4. live' \in SUBSET Svc
    BY <1>1, <1>2, FreedIn
  <1>5. RestNext /\ NoLaunch
    BY <1>2, <1>3, <1>4, OneRun DEF depVars, IInv, TypeOK
  <1>6. DepNext(pend')
    BY <1>2, DepKept DEF depVars
  <1>7. LoopNext
    BY <1>2 DEF loopVars, LoopNext, IInv, TypeOK
  <1> QED  BY <1>5, <1>6, <1>7, Parts, QuietLaunch

\* A timer that fires: the one launch outside spawn().
LEMMA FireStep ==
  ASSUME IInv, NEW i \in Svc, fire_restart(i)
  PROVE  IInv' /\ LaunchSafe
  <1> DEFINE q == Disarmed(i)
  <1>1. run[i] \in Run /\ live \in SUBSET Svc /\ run \in [Svc -> Run]
    BY DEF IInv, TypeOK
  <1>2. Expired(i)
    BY DEF fire_restart, fire_dropped, fire_postponed, fire_gives_up, fire_launch
  <1>3. LoopNext /\ pend' = pend /\ want' = want
    BY <1>2 DEF Expired, loopVars, LoopNext, IInv, TypeOK
  <1>4. q \in Run /\ q.pid = run[i].pid
    BY <1>1, RunKept DEF Disarmed
  <1>5. CASE fire_dropped(i)
    <2>1. /\ run' = [run EXCEPT ![i] = q]
          /\ UNCHANGED <<state, up, released, unmet, n_active, n_done, n_pending, n_up, live>>
      BY <1>5 DEF fire_dropped
    <2> HIDE DEF q
    <2>2. RestNext /\ NoLaunch
      BY <1>4, <2>1, OneRun DEF IInv, TypeOK
    <2>3. DepNext(pend')
      BY <1>3, <2>1, DepKept
    <2> QED  BY <1>3, <2>2, <2>3, Parts, QuietLaunch
  <1>6. CASE fire_postponed(i)
    <2> DEFINE r == [run[i] EXCEPT !.hold = run[i].stale]
    <2>1. /\ run' = [run EXCEPT ![i] = r]
          /\ UNCHANGED <<state, up, released, unmet, n_active, n_done, n_pending, n_up, live>>
      BY <1>6 DEF fire_postponed
    <2>2. r \in Run /\ r.pid = run[i].pid
      BY <1>1 DEF Run
    <2> HIDE DEF r
    <2>3. RestNext /\ NoLaunch
      BY <2>1, <2>2, OneRun DEF IInv, TypeOK
    <2>4. DepNext(pend')
      BY <1>3, <2>1, DepKept
    <2> QED  BY <1>3, <2>3, <2>4, Parts, QuietLaunch
  <1>7. CASE fire_gives_up(i)
    <2> DEFINE rn == [run EXCEPT ![i] = q]
    <2>1. poison(i, unmet, rn, live)
      BY <1>7 DEF fire_gives_up
    <2> HIDE DEF q
    <2>2. rn \in [Svc -> Run] /\ \A k \in Svc : rn[k].pid => run[k].pid
      BY <1>1, <1>4
    <2> HIDE DEF rn
    <2>3. DepNext(pend) /\ RestNext /\ \A k \in Svc : run'[k].pid = rn[k].pid
      BY <1>1, <2>1, <2>2, ExactNow, PoisonSound DEF IInv
    <2>4. NoLaunch
      BY <2>2, <2>3 DEF NoLaunch
    <2> QED  BY <1>3, <2>3, <2>4, Parts, QuietLaunch
  <1>8. CASE fire_launch(i)
    <2>1. svc_can_start(i, unmet[i], want[i])
      BY <1>8 DEF fire_launch
    <2>2. CASE /\ run' = [run EXCEPT ![i] = launched(i, q)]
               /\ UNCHANGED <<state, up, released, unmet, n_active, n_done, n_pending, n_up, live>>
      <3>1. launched(i, q) \in Run
        BY <1>4, LaunchedRun
      <3>2. RestNext
        BY <1>1, <2>2, <3>1 DEF RestNext, IInv, TypeOK
      <3>3. \A k \in Svc \ {i} : run'[k].pid => run[k].pid
        BY <1>1, <2>2
      <3>4. LaunchSafe
        BY <1>3, <2>1, <3>3 DEF LaunchSafe, svc_can_start, IInv, TypeOK
      <3>5. DepNext(pend')
        BY <1>3, <2>2, DepKept
      <3> QED  BY <1>3, <3>2, <3>4, <3>5, Parts
    <2>3. CASE service_failed(i, q, live, unmet, FALSE)
      <3>1. DepNext(pend) /\ RestNext /\ NoLaunch
        BY <1>1, <1>4, <2>3, ExactNow, FailedSound DEF IInv
      <3> QED  BY <1>3, <3>1, Parts, QuietLaunch
    <2>4. CASE /\ run' = [run EXCEPT ![i] = restart_schedule([q EXCEPT !.starting = TRUE])]
               /\ UNCHANGED <<state, up, released, unmet, n_active, n_done, n_pending, n_up, live>>
      <3> DEFINE r == restart_schedule([q EXCEPT !.starting = TRUE])
      <3>1. [q EXCEPT !.starting = TRUE] \in Run
        BY <1>4, RunKept
      <3>2. r \in Run /\ r.pid = FALSE
        BY <3>1, ScheduleKept
      <3>3. run' = [run EXCEPT ![i] = r]
        BY <2>4
      <3> HIDE DEF r, q
      <3>4. RestNext /\ NoLaunch
        BY <2>4, <3>2, <3>3, OneRun DEF IInv, TypeOK
      <3>5. DepNext(pend')
        BY <1>3, <2>4, DepKept
      <3> QED  BY <1>3, <3>4, <3>5, Parts, QuietLaunch
    <2> QED  BY <1>8, <2>2, <2>3, <2>4 DEF fire_launch
  <1> QED  BY <1>5, <1>6, <1>7, <1>8 DEF fire_restart

\* A start that takes too long.
LEMMA TimeoutStep ==
  ASSUME IInv, NEW i \in Svc, check_timeouts(i)
  PROVE  IInv' /\ LaunchSafe
  <1> DEFINE q == [run[i] EXCEPT !.starting = FALSE]
  <1>1. run[i] \in Run /\ live \in SUBSET Svc
    BY DEF IInv, TypeOK
  <1>2. TimesOut(i)
    BY DEF check_timeouts, timeout_starting, timeout_restarting
  <1>3. LoopNext /\ pend' = pend
    BY <1>2 DEF TimesOut, loopVars, LoopNext, IInv, TypeOK
  <1> SUFFICES DepNext(pend') /\ RestNext /\ NoLaunch
    BY <1>3, Parts, QuietLaunch
  <1>4. q \in Run /\ q.pid = run[i].pid
    BY <1>1, RunKept
  <1>5. CASE timeout_starting(i)
    <2>1. service_failed(i, run[i], live, unmet, FALSE)
      BY <1>5 DEF timeout_starting
    <2>2. DepNext(pend) /\ RestNext /\ NoLaunch
      BY <1>1, <2>1, ExactNow, FailedSound DEF IInv
    <2> QED  BY <1>3, <2>2
  <1>6. CASE timeout_restarting(i) /\ i \in Restart
    <2>1. /\ go_down(i, unmet)
          /\ run' = [run EXCEPT ![i] = restart_schedule(q)]
          /\ UNCHANGED <<state, live, n_active, n_done, n_pending>>
      BY <1>6 DEF timeout_restarting
    <2>2. restart_schedule(q) \in Run /\ restart_schedule(q).pid = FALSE
      BY <1>4, ScheduleKept
    <2>3. RestNext /\ NoLaunch
      BY <2>1, <2>2, OneRun DEF IInv, TypeOK
    <2> QED  BY <1>3, <2>1, <2>3, GoDownNow
  <1>7. CASE timeout_restarting(i) /\ i \notin Restart
    <2>1. poison_deps(i, [run EXCEPT ![i] = close_fds(q)], maybe_free(live, i, close_fds(q)))
      BY <1>7 DEF timeout_restarting
    <2>2. close_fds(q) \in Run /\ close_fds(q).pid = run[i].pid
      BY <1>4, RunKept
    <2> HIDE DEF q
    <2> QED  BY <1>1, <1>3, <2>1, <2>2, PoisonDepsNow, FreedIn
  <1> QED  BY <1>5, <1>6, <1>7 DEF check_timeouts

\* The end of an operation leaves a run and its process alone.
LEMMA DoneKept ==
  ASSUME NEW r \in Run
  PROVE  Done(r) \in Run /\ Done(r).pid = r.pid
  BY DEF Run, Done

\* A start asked for by ninitctl, on its own or as the second half of a restart.
LEMMA OpStartSound ==
  ASSUME IInv, NEW i \in Svc, NEW lv \in SUBSET Svc, NEW down \in BOOLEAN,
         svc_op_start(i, lv, down), UNCHANGED loopVars
  PROVE  IInv' /\ LaunchSafe
  <1>1. run[i] \in Run /\ run \in [Svc -> Run]
    BY DEF IInv, TypeOK
  <1>2. LoopNext /\ pend' = pend /\ ~want'[i]
    <2>1. /\ want' = [want EXCEPT ![i] = FALSE] /\ pend' = pend
          /\ n_ops' = n_ops + 1 \/ n_ops' = n_ops - 1 \/ n_ops' = n_ops
      <3>1. n_ops \in Int
        BY DEF IInv, TypeOK
      <3>2. /\ want' = [want EXCEPT ![i] = FALSE] /\ pend' = pend
            /\ \/ n_ops' = n_ops + one(run[i].op = "none")
               \/ n_ops' = n_ops - one(run[i].op # "none")
        BY DEF svc_op_start
      <3> QED  BY <3>1, <3>2 DEF one
    <2> QED  BY <2>1 DEF loopVars, LoopNext, IInv, TypeOK
  <1>3. CASE svc_can_start(i, unmet[i], FALSE)
    <2> DEFINE r == [run[i] EXCEPT !.attempt = 0, !.restart = FALSE, !.again = FALSE,
                                   !.op = "start"]
    <2>1. r \in Run
      <3>1. 0 \in 0..UINT8_MAX
        BY DEF UINT8_MAX
      <3> QED  BY <1>1, <3>1 DEF Run
    <2>2. spawn(i, r, lv \cup {i}, unmet, down)
      BY <1>3 DEF svc_op_start
    <2> HIDE DEF r
    <2>3. /\ DepNext(pend) /\ RestNext
          /\ \A k \in Svc \ {i} : run'[k].pid => run[k].pid
      BY <2>1, <2>2, ExactNow, SpawnSound DEF IInv
    <2>4. LaunchSafe
      BY <1>2, <1>3, <2>3 DEF LaunchSafe, svc_can_start, IInv, TypeOK
    <2> QED  BY <1>2, <2>3, <2>4, Parts
  <1>4. CASE ~svc_can_start(i, unmet[i], FALSE) /\ (run[i].pid \/ run[i].stale)
    <2>1. /\ standing(i, unmet, down)
          /\ run' = [run EXCEPT ![i] = Done(run[i])]
          /\ live' = maybe_free(lv, i, Done(run[i]))
          /\ UNCHANGED <<state, n_active, n_done, n_pending>>
      BY <1>4 DEF svc_op_start, Freed
    <2>2. DepNext(pend)
      BY <2>1, ExactNow, StandingSound DEF IInv
    <2>3. live' \in SUBSET Svc
      BY <2>1, FreedIn
    <2>4. RestNext /\ NoLaunch
      BY <1>1, <2>1, <2>3, DoneKept, OneRun DEF IInv, TypeOK
    <2> QED  BY <1>2, <2>2, <2>4, Parts, QuietLaunch
  <1>5. CASE ~svc_can_start(i, unmet[i], FALSE) /\ ~(run[i].pid \/ run[i].stale)
    <2> DEFINE a == [run[i] EXCEPT !.attempt = 0, !.restart = FALSE]
    <2>1. /\ go_down(i, unmet) /\ svc_mark_pending(i)
          /\ run' = [run EXCEPT ![i] = Done(a)]
          /\ live' = maybe_free(lv, i, Done(a))
      BY <1>5 DEF svc_op_start, Freed
    <2>2. a \in Run /\ a.pid = run[i].pid
      <3>1. 0 \in 0..UINT8_MAX
        BY DEF UINT8_MAX
      <3> QED  BY <1>1, <3>1 DEF Run
    <2> HIDE DEF a
    <2>3. Done(a) \in Run /\ Done(a).pid = run[i].pid
      BY <2>2, DoneKept
    <2>4. live' \in SUBSET Svc
      BY <2>1, FreedIn
    <2>5. RestNext /\ NoLaunch
      BY <2>1, <2>3, <2>4, MarkPendingSound, OneRun
    <2>6. DepNext(pend')
      BY <1>2, <2>1, GoDownNow
    <2> QED  BY <1>2, <2>5, <2>6, Parts, QuietLaunch
  <1> QED  BY <1>3, <1>4, <1>5

\* The requests of ninitctl.
LEMMA CommandStep ==
  ASSUME IInv, NEW i \in Svc, ctl_cmd(i)
  PROVE  IInv' /\ LaunchSafe
  <1>1. run[i] \in Run /\ live \in SUBSET Svc /\ live \cup {i} \in SUBSET Svc
    BY DEF IInv, TypeOK
  <1>2. CASE ctl_start(i)
    BY <1>1, <1>2, OpStartSound DEF ctl_start, Request
  <1>3. CASE restart_gone(i)
    BY <1>1, <1>3, OpStartSound DEF restart_gone, Request
  <1>4. CASE stop_gone(i)
    <2> DEFINE a == [run[i] EXCEPT !.restart = FALSE]
    <2>1. /\ want' = [want EXCEPT ![i] = TRUE] /\ go_down(i, unmet)
          /\ run' = [run EXCEPT ![i] = Done(a)]
          /\ live' = maybe_free(live \cup {i}, i, Done(a))
          /\ UNCHANGED <<state, pend, n_active, n_done, n_pending, n_ops, loopVars>>
      BY <1>4 DEF stop_gone, Freed, Request
    <2>2. a \in Run /\ a.pid = run[i].pid
      BY <1>1, RunKept
    <2> HIDE DEF a
    <2>3. Done(a) \in Run /\ Done(a).pid = run[i].pid
      BY <2>2, DoneKept
    <2>4. live' \in SUBSET Svc
      BY <1>1, <2>1, FreedIn
    <2>5. RestNext /\ NoLaunch
      BY <2>1, <2>3, <2>4, OneRun DEF IInv, TypeOK
    <2>6. DepNext(pend')
      BY <2>1, GoDownNow
    <2>7. LoopNext
      BY <2>1 DEF loopVars, LoopNext, IInv, TypeOK
    <2> QED  BY <2>5, <2>6, <2>7, Parts, QuietLaunch
  <1>5. ASSUME NEW again \in BOOLEAN, stop_signal(i, again)
        PROVE  IInv' /\ LaunchSafe
    <2> DEFINE a == [run[i] EXCEPT !.restart = FALSE, !.again = again, !.op = "term"]
    <2>1. /\ want' = [want EXCEPT ![i] = TRUE] /\ n_ops' = n_ops + 1
          /\ run' = [run EXCEPT ![i] = a] /\ live' = live \cup {i}
          /\ UNCHANGED <<depVars, loopVars>>
      BY <1>1, <1>5 DEF stop_signal, Request, IInv, TypeOK
    <2>2. a \in Run /\ a.pid = run[i].pid
      BY <1>1 DEF Run
    <2> HIDE DEF a
    <2>3. RestNext /\ NoLaunch
      BY <1>1, <2>1, <2>2, OneRun DEF depVars, IInv, TypeOK
    <2>4. DepNext(pend')
      BY <2>1, DepKept DEF depVars
    <2>5. LoopNext
      BY <2>1 DEF loopVars, LoopNext, IInv, TypeOK
    <2> QED  BY <2>3, <2>4, <2>5, Parts, QuietLaunch
  <1> QED  BY <1>2, <1>3, <1>4, <1>5 DEF ctl_cmd

\* The turns of the operations under way.
LEMMA TickStep ==
  ASSUME IInv, NEW i \in Svc, ctl_tick(i)
  PROVE  IInv' /\ LaunchSafe
  <1>1. run[i] \in Run /\ live \in SUBSET Svc
    BY DEF IInv, TypeOK
  <1>2. UNCHANGED loopVars
    BY DEF ctl_tick, tick_stopped, tick_kill, tick_unkillable, tick_started, Tick
  <1>3. CASE tick_stopped(i) /\ run[i].again
    BY <1>1, <1>2, <1>3, OpStartSound DEF tick_stopped
  <1>4. CASE \/ tick_stopped(i) /\ ~run[i].again
             \/ tick_unkillable(i) \/ tick_started(i)
    <2>1. /\ n_ops' = n_ops - 1 /\ want' = want
          /\ run' = [run EXCEPT ![i] = Done(run[i])]
          /\ live' = maybe_free(live, i, Done(run[i]))
          /\ UNCHANGED <<state, pend, n_active, n_done, n_pending>>
          /\ go_down(i, unmet) \/ UNCHANGED <<up, released, unmet, n_up>>
      BY <1>4 DEF tick_stopped, tick_unkillable, tick_started, tick_done, Freed, depVars
    <2>2. live' \in SUBSET Svc
      BY <1>1, <2>1, FreedIn
    <2>3. RestNext /\ NoLaunch
      BY <1>1, <2>1, <2>2, DoneKept, OneRun DEF IInv, TypeOK
    <2>4. DepNext(pend')
      BY <2>1, GoDownNow, DepKept
    <2>5. LoopNext
      BY <1>2, <2>1 DEF loopVars, LoopNext, IInv, TypeOK
    <2> QED  BY <2>3, <2>4, <2>5, Parts, QuietLaunch
  <1>5. CASE tick_kill(i)
    <2> DEFINE a == [run[i] EXCEPT !.op = "kill"]
    <2>1. run' = [run EXCEPT ![i] = a] /\ UNCHANGED <<depVars, want, live, n_ops>>
      BY <1>5 DEF tick_kill
    <2>2. a \in Run /\ a.pid = run[i].pid
      BY <1>1 DEF Run
    <2> HIDE DEF a
    <2>3. RestNext /\ NoLaunch
      BY <1>1, <2>1, <2>2, OneRun DEF depVars, IInv, TypeOK
    <2>4. DepNext(pend')
      BY <2>1, DepKept DEF depVars
    <2>5. LoopNext
      BY <1>2, <2>1 DEF loopVars, LoopNext, IInv, TypeOK
    <2> QED  BY <2>3, <2>4, <2>5, Parts, QuietLaunch
  <1> QED  BY <1>3, <1>4, <1>5 DEF ctl_tick

\* The steps that are about no one service.
LEMMA SystemStep ==
  ASSUME IInv, ctl_resume \/ check_boot_done \/ shutdown_system
  PROVE  IInv' /\ LaunchSafe
  <1>1. DepNext(pend')
    BY DepKept DEF ctl_resume, check_boot_done, shutdown_system, depVars
  <1>2. LoopNext
    BY DEF ctl_resume, check_boot_done, shutdown_system, LoopNext, IInv, TypeOK
  <1>3. RestNext /\ NoLaunch
    <2>1. CASE check_boot_done \/ shutdown_system
      BY <2>1 DEF check_boot_done, shutdown_system, depVars, RestNext, NoLaunch, IInv, TypeOK
    <2>2. CASE ctl_resume
      <3> DEFINE reset == {i \in Svc : state[i] \in {"failed", "skipped"}}
      <3>1. /\ state' = [i \in Svc |-> IF i \in reset THEN "pending" ELSE state[i]]
            /\ run' = [i \in Svc |-> IF i \in reset THEN [run[i] EXCEPT !.attempt = 0]
                                                    ELSE run[i]]
            /\ n_pending' = n_pending + Cardinality(reset)
            /\ UNCHANGED <<live, n_active, n_done>>
        BY <2>2 DEF ctl_resume
      <3>2. Cardinality(reset) \in Nat
        BY SubFinite
      <3> HIDE DEF reset
      <3>3. ASSUME NEW i \in Svc
            PROVE  run'[i] \in Run /\ run'[i].pid = run[i].pid
        <4>1. run[i] \in Run
          BY DEF IInv, TypeOK
        <4>2. /\ [run[i] EXCEPT !.attempt = 0] \in Run
              /\ [run[i] EXCEPT !.attempt = 0].pid = run[i].pid
          BY <4>1 DEF Run, UINT8_MAX
        <4> QED  BY <3>1, <4>1, <4>2
      <3>4. run' \in [Svc -> Run]
        BY <3>1, <3>3
      <3>5. state' \in [Svc -> States]
        BY <3>1 DEF IInv, TypeOK, States
      <3>6. n_pending' \in Int
        BY <3>1, <3>2 DEF IInv, TypeOK
      <3> QED  BY <3>1, <3>3, <3>4, <3>5, <3>6 DEF RestNext, NoLaunch, IInv, TypeOK
    <2> QED  BY <2>1, <2>2
  <1> QED  BY <1>1, <1>2, <1>3, Parts, QuietLaunch

-----------------------------------------------------------------------------
(* The theorems. *)

\* The invariant holds when start_graph() begins.
LEMMA InitIInv == Init => IInv
  <1> SUFFICES ASSUME Init PROVE IInv
    OBVIOUS
  <1>1. \A d \in Svc : Cardinality(Prereqs(d)) \in Nat
    BY PrereqsIn, SubFinite
  <1>2. unmet \in [Svc -> Nat]
    BY <1>1 DEF Init
  <1>3. run \in [Svc -> Run]
    BY DEF Init, Run, UINT8_MAX
  <1>4. Roots \in SUBSET Svc /\ N \in Int
    BY GraphFacts DEF Roots
  <1>5. TypeOK
    <2>1. /\ state \in [Svc -> States] /\ up \in [Svc -> BOOLEAN] /\ want \in [Svc -> BOOLEAN]
          /\ released \in [Svc -> BOOLEAN] /\ pend \in [Svc -> Nat]
      BY DEF Init, States
    <2>2. /\ live \in SUBSET Svc /\ scan \in SUBSET Svc
          /\ n_active \in Int /\ n_done \in Int /\ n_pending \in Int
          /\ n_up \in Int /\ n_ops \in Int
      BY <1>4 DEF Init
    <2>3. shutting_down \in BOOLEAN /\ booted \in BOOLEAN
      BY Zenon DEF Init
    <2> QED  BY <1>2, <1>3, <2>1, <2>2, <2>3 DEF TypeOK
  <1>6. UnmetExact
    <2>1. ASSUME NEW d \in Svc
          PROVE  unmet[d] = Cardinality({p \in Prereqs(d) : ~released[p]}) + pend[d]
      <3>1. {p \in Prereqs(d) : ~released[p]} = Prereqs(d)
        BY PrereqsIn DEF Init
      <3>2. unmet[d] = Cardinality(Prereqs(d)) /\ pend[d] = 0
        BY DEF Init
      <3> QED  BY <1>1, <3>1, <3>2
    <2> QED  BY <2>1 DEF UnmetExact
  <1>7. UpIsReleased
    BY DEF Init, UpIsReleased
  <1> QED  BY <1>5, <1>6, <1>7 DEF IInv

\* Every step keeps it, and launches nothing that may not start.
LEMMA NextIInv == IInv /\ Next => IInv' /\ LaunchSafe
  <1> SUFFICES ASSUME IInv, Next PROVE IInv' /\ LaunchSafe
    OBVIOUS
  <1>1. ASSUME NEW i \in Svc, svc_release(i) PROVE IInv' /\ LaunchSafe
    BY <1>1, ReleaseStep
  <1>2. ASSUME NEW i \in Svc, visit(i) PROVE IInv' /\ LaunchSafe
    BY <1>2, VisitStep
  <1>3. ASSUME NEW i \in Svc,
               Report(i) \/ LeftoversGone(i) \/ drain_ready(i) \/ drain_closed(i) \/ drain_out(i)
        PROVE  IInv' /\ LaunchSafe
    BY <1>3, PipeStep
  <1>4. ASSUME NEW i \in Svc, NEW e \in BOOLEAN, child_exited(i, e) PROVE IInv' /\ LaunchSafe
    BY <1>4, ExitStep
  <1>5. ASSUME NEW i \in Svc, NEW e \in BOOLEAN, stale_reaped(i, e) PROVE IInv' /\ LaunchSafe
    BY <1>5, StaleStep
  <1>6. ASSUME NEW i \in Svc, fire_restart(i) PROVE IInv' /\ LaunchSafe
    BY <1>6, FireStep
  <1>7. ASSUME NEW i \in Svc, check_timeouts(i) PROVE IInv' /\ LaunchSafe
    BY <1>7, TimeoutStep
  <1>8. ASSUME NEW i \in Svc, ctl_cmd(i) PROVE IInv' /\ LaunchSafe
    BY <1>8, CommandStep
  <1>9. ASSUME NEW i \in Svc, ctl_tick(i) PROVE IInv' /\ LaunchSafe
    BY <1>9, TickStep
  <1>10. CASE ctl_resume \/ check_boot_done \/ shutdown_system
    BY <1>10, SystemStep
  <1> QED  BY <1>1, <1>2, <1>3, <1>4, <1>5, <1>6, <1>7, <1>8, <1>9, <1>10 DEF Next

\* A step of the specification keeps the invariant.
LEMMA StepIInv == IInv /\ [Next]_vars => IInv'
  <1>1. IInv /\ UNCHANGED vars => IInv'
    BY DEF IInv, vars, depVars, loopVars, TypeOK, UnmetExact, UpIsReleased
  <1> QED  BY <1>1, NextIInv

\* The invariant holds in every state the supervisor reaches.
LEMMA AlwaysIInv == Spec => []IInv
  BY InitIInv, StepIInv, PTL DEF Spec

\* The variables keep their types whatever the graph; above all unmet, a uint16_t
\* that svc_release() decrements, never goes below zero.
THEOREM TypeCorrect == Spec => []TypeOK
  <1>1. IInv => TypeOK
    BY DEF IInv
  <1> QED  BY <1>1, AlwaysIInv, PTL

\* svc_release() and svc_reclaim(), which only add and subtract one, keep the count of
\* unmet prerequisites exact through every release, failure, restart and ninitctl
\* operation: no service starts early and none waits for a release that was made.
THEOREM UnmetCounts == Spec => []UnmetExact
  <1>1. IInv => UnmetExact
    BY DEF IInv
  <1> QED  BY <1>1, AlwaysIInv, PTL

\* go_down(), complete() and svc_reclaim() keep what is up and what has been released
\* to dependents together.
THEOREM UpReleased == Spec => []UpIsReleased
  <1>1. IInv => UpIsReleased
    BY DEF IInv
  <1> QED  BY <1>1, AlwaysIInv, PTL

\* A service with no more unmet prerequisites than queued releases has all of its
\* prerequisites released, so a safe launch is one in order.
LEMMA SafeInOrder == IInv /\ LaunchSafe => LaunchInOrder
  <1> SUFFICES ASSUME IInv, LaunchSafe, NEW i \in Svc, ~run[i].pid, run'[i].pid
               PROVE  /\ ~run[i].stale /\ ~shutting_down /\ ~want'[i]
                      /\ \A p \in Prereqs(i) : IF p \in OrderOnly THEN released[p] ELSE up[p]
    BY DEF LaunchInOrder
  <1>1. ~run[i].stale /\ ~shutting_down /\ ~want'[i] /\ unmet[i] <= pend[i]
    BY DEF LaunchSafe
  <1> DEFINE A == {p \in Prereqs(i) : ~released[p]}
  <1>2. A \subseteq Svc
    BY PrereqsIn
  <1>3. unmet[i] = Cardinality(A) + pend[i] /\ pend[i] \in Nat
    BY DEF IInv, UnmetExact, TypeOK
  <1>4. IsFiniteSet(A) /\ Cardinality(A) \in Nat
    BY <1>2, SubFinite
  <1> HIDE DEF A
  <1>5. Cardinality(A) = 0
    BY <1>1, <1>3, <1>4
  <1>6. A = {}
    BY <1>4, <1>5, FS_EmptySet
  <1>7. \A p \in Prereqs(i) : p \in Svc /\ released[p]
    BY <1>6, PrereqsIn DEF A
  <1> QED  BY <1>1, <1>7 DEF IInv, UpIsReleased

\* No process is ever launched for a service that is held, has one already or one
\* still dying, during shutdown, or before each prerequisite is up (or has been, for
\* deps: order): of every path through svc_try_start(), svc_release(), fire_restart()
\* and ninitctl, in every graph.
THEOREM LaunchesInOrder == Spec => StartsInOrder
  <1>1. IInv /\ [Next]_vars => [LaunchInOrder]_vars
    BY NextIInv, SafeInOrder
  <1> QED  BY <1>1, AlwaysIInv, PTL DEF Spec, StartsInOrder

-----------------------------------------------------------------------------
(* The invariant of runs, states and counters. *)

\* The run r fits the state s of service k, whether it is held (w) and its place, or
\* absence, in the live list (in); sd: during shutdown.  What a failure relies on is that
\* a service which is starting has no timer left to fire after it has failed.  A failed
\* relaunch leaves starting set without a process: its deadline may pass once ninitctl
\* has made the service pending, which arms a timer, but only while it is held.
Fit(k, r, s, w, in, sd) ==
  /\ ~(r.pid /\ r.stale)
  /\ r.pid => s \in {"running", "done"}
  /\ s = "running" /\ (r.pid \/ r.starting) => ~r.restart
  /\ r.starting /\ ~r.pid => ~r.out /\ r.ntf = "none"
  /\ s \notin {"running", "done"} =>
       /\ r.restart => w /\ ~r.stale
       /\ r.starting => ~r.stale /\ (w \/ ~in)
  /\ Type[k] = "target" =>
       ~r.pid /\ ~r.stale /\ ~r.restart /\ ~r.starting /\ r.ntf = "none" /\ r.op = "none"
  /\ sd \/ Idle(r) \/ in

AllFit == \A k \in Svc : Fit(k, run[k], state[k], want[k], k \in live, shutting_down)

\* A target that is not up has something to wait for, or is a root the boot loop has
\* yet to visit.
Follows(t) ==
  /\ ~want[t]
  /\ released[t] => up[t]
  /\ unmet[t] = 0 => up[t] \/ (t \in scan /\ Prereqs(t) = {} /\ state[t] = "pending")
  /\ up[t] /\ t \notin OrderOnly => unmet[t] = 0

AllFollow == \A t \in Svc : Type[t] = "target" => Follows(t)

\* A daemon that was never held is on its way back when it is down.
Back(k) ==
  /\ ~want[k] /\ run[k].op \in {"none", "start"}
  /\ shutting_down \/ (state[k] = "done" /\ ~up[k] => run[k].pid \/ run[k].restart \/ unmet[k] > 0)

AllBack == \A k \in Restart \cap Unheld : Back(k)

\* The parts of CountersMatch.
StateCount ==
  /\ n_active = Cardinality({i \in Svc : state[i] = "running"})
  /\ n_done = Cardinality({i \in Svc : state[i] = "done"})
  /\ n_pending = Cardinality({i \in Svc : state[i] = "pending"})

UpCount == n_up = Cardinality({i \in Svc : up[i]})

OpCount == n_ops = Cardinality({i \in Svc : run[i].op # "none"})

RInv == AllFit /\ AllFollow /\ AllBack /\ StateCount /\ UpCount /\ OpCount

-----------------------------------------------------------------------------
(* The shape of a step.  Each is about one service i; others it only skips. *)

\* What the other services see of it.
Frame(i) ==
  \A k \in Svc \ {i} :
    /\ Fit(k, run'[k], state'[k], want'[k], k \in live', shutting_down')
    /\ run'[k].op = run[k].op
    /\ \/ run'[k] = run[k] /\ state'[k] = state[k]
       \/ state'[k] = "skipped" /\ Prereqs(k) # {}

\* The dependency side: i goes down, keeps its standing, or is up and released.
Raise(i) ==
  /\ up' = [up EXCEPT ![i] = TRUE] /\ n_up' = n_up + one(~up[i])
  /\ released' = [released EXCEPT ![i] = TRUE]

DepShape(i, um) ==
  \/ Type[i] # "target" /\ go_down(i, um)
  \/ unmet' = um /\ UNCHANGED <<up, released, n_up>>
  \/ unmet' = um /\ Raise(i)

\* n counts an operation of i before the step and n' one after it.
OpMoves(i) ==
  n_ops' = n_ops - one(run[i].op # "none") + one(run'[i].op # "none")

-----------------------------------------------------------------------------
(* Reclaiming and spreading. *)

\* Beside i itself only targets are taken back, each together with something it needs.
LEMMA ReclaimedTargets ==
  ASSUME NEW i \in Svc
  PROVE  \A k \in Reclaimed(i) \ {i} : /\ k \in Svc /\ Type[k] = "target"
                                       /\ Prereqs(k) \cap Reclaimed(i) # {}
  <1> DEFINE R == [j \in Svc |-> {d \in Rdep[j] : /\ Type[d] = "target"
                                                  /\ released[d]
                                                  /\ d \notin OrderOnly}]
  <1>1. CASE ~(released[i] /\ i \notin OrderOnly)
    BY <1>1 DEF Reclaimed
  <1>2. CASE released[i] /\ i \notin OrderOnly
    <2>1. Reclaimed(i) = Reach({i}, R)
      BY <1>2 DEF Reclaimed
    <2>2. \A j \in Svc : R[j] \subseteq Svc
      BY GraphFacts
    <2>3. \A j \in Svc : \A d \in R[j] : Type[d] = "target" /\ j \in Prereqs(d)
      BY DEF Prereqs
    <2> HIDE DEF R
    <2>4. Reach({i}, R) \subseteq Svc
      BY ReachHolds
    <2>5. \A k \in Reach({i}, R) \ {i} : \E j \in Reach({i}, R) : k \in R[j]
      BY <2>2, ReachFrom
    <2> QED  BY <2>1, <2>3, <2>4, <2>5
  <1> QED  BY <1>1, <1>2

\* A released target that needs something taken back is taken back too.
LEMMA ReclaimedClosed ==
  ASSUME NEW i \in Svc, NEW t \in Svc, Type[t] = "target", released[t], t \notin OrderOnly,
         Prereqs(t) \cap Reclaimed(i) # {}
  PROVE  t \in Reclaimed(i)
  <1> DEFINE R == [j \in Svc |-> {d \in Rdep[j] : /\ Type[d] = "target"
                                                  /\ released[d]
                                                  /\ d \notin OrderOnly}]
  <1>1. Reclaimed(i) = Reach({i}, R)
    BY DEF Reclaimed
  <1>2. PICK j \in Prereqs(t) : j \in Reach({i}, R)
    BY <1>1
  <1>3. t \in R[j]
    BY <1>2 DEF Prereqs
  <1> HIDE DEF R
  <1> QED  BY <1>1, <1>2, <1>3, ReachClosed

\* What is skipped because of i comes after it, was ready to be skipped, and has
\* prerequisites.
LEMMA SpreadFacts ==
  ASSUME NEW i \in Svc
  PROVE  \A k \in poison_spread(i) :
           k \in Svc /\ k # i /\ poison_take(k) /\ Prereqs(k) # {}
  <1> DEFINE T == {k \in Svc : k > i /\ poison_take(k) /\ Prereqs(k) # {}}
             S == Taken[i] \cup UNION {Taken[j] : j \in {k \in Svc : k > i /\ state[k] \in {"failed", "skipped"}}}
  <1>1. ASSUME NEW j \in Svc, j >= i, NEW d \in Taken[j]
        PROVE  d \in T
    <2>1. d \in Rdep[j] /\ poison_take(d)
      BY <1>1 DEF Taken
    <2>2. d \in Svc /\ d > j /\ j \in Prereqs(d)
      BY <2>1, GraphFacts DEF Prereqs
    <2>3. d > i
      BY <1>1, <2>2 DEF Svc
    <2> QED  BY <2>1, <2>2, <2>3
  <1>2. i >= i /\ \A k \in Svc : k > i => k >= i
    BY DEF Svc
  <1>3. S \subseteq T
    BY <1>1, <1>2
  <1>4. \A j \in T : Taken[j] \subseteq T
    BY <1>1, <1>2
  <1>5. T \in SUBSET Svc
    OBVIOUS
  <1>6. poison_spread(i) = Reach(S, Taken)
    BY DEF poison_spread
  <1> HIDE DEF S
  <1>7. \A k \in T : k # i
    BY DEF Svc
  <1>8. Reach(S, Taken) \subseteq T
    <2> HIDE DEF T
    <2> QED  BY <1>3, <1>4, <1>5, ReachWithin
  <1> QED  BY <1>6, <1>7, <1>8

-----------------------------------------------------------------------------
(* Counting. *)

\* Two sets of services that differ at most in i.
LEMMA CountMove ==
  ASSUME NEW A, NEW B, A \subseteq Svc, B \subseteq Svc, NEW i \in Svc,
         \A k \in Svc \ {i} : k \in A <=> k \in B
  PROVE  /\ Cardinality(A) \in Nat
         /\ Cardinality(B) = Cardinality(A) - one(i \in A) + one(i \in B)
  <1> DEFINE C == A \ {i}
  <1>1. C \subseteq Svc /\ {i} \subseteq Svc /\ C \cap {i} = {}
    OBVIOUS
  <1>2. /\ i \in A => A = C \cup {i}
        /\ i \notin A => A = C
        /\ i \in B => B = C \cup {i}
        /\ i \notin B => B = C
    OBVIOUS
  <1> HIDE DEF C
  <1>3. Cardinality(C \cup {i}) = Cardinality(C) + 1
    BY <1>1, SplitCount, FS_Singleton
  <1>4. Cardinality(C) \in Nat /\ Cardinality(A) \in Nat
    BY <1>1, SubFinite
  <1>5. Cardinality(A) = Cardinality(C) + one(i \in A)
    BY <1>2, <1>3, <1>4 DEF one
  <1>6. Cardinality(B) = Cardinality(C) + one(i \in B)
    <2>1. CASE i \in B
      BY <1>2, <1>3, <2>1 DEF one
    <2>2. CASE i \notin B
      BY <1>2, <1>4, <2>2 DEF one
    <2> QED  BY <2>1, <2>2
  <1>7. one(i \in A) \in Int /\ one(i \in B) \in Int
    BY DEF one
  <1> QED  BY <1>4, <1>5, <1>6, <1>7

\* Some services leave a set.
LEMMA CountLose ==
  ASSUME NEW A, NEW U, A \subseteq Svc
  PROVE  /\ Cardinality(A) \in Nat /\ Cardinality(A \cap U) \in Nat
         /\ Cardinality(A \ U) = Cardinality(A) - Cardinality(A \cap U)
  <1> DEFINE X == A \ U
             Y == A \cap U
  <1>1. A = X \cup Y /\ X \subseteq Svc /\ Y \subseteq Svc /\ X \cap Y = {}
    OBVIOUS
  <1> HIDE DEF X, Y
  <1>2. Cardinality(A) = Cardinality(X) + Cardinality(Y)
    BY <1>1, SplitCount
  <1>3. Cardinality(A) \in Nat /\ Cardinality(X) \in Nat /\ Cardinality(Y) \in Nat
    BY <1>1, SubFinite
  <1>4. /\ Cardinality(A) \in Nat /\ Cardinality(Y) \in Nat
        /\ Cardinality(X) = Cardinality(A) - Cardinality(Y)
    BY <1>2, <1>3
  <1> QED  BY <1>4 DEF X, Y

\* One service changes its state and the counters follow.
LEMMA StateMoved ==
  ASSUME IInv, StateCount, NEW i \in Svc, NEW t,
         state' = [state EXCEPT ![i] = t],
         n_active' = n_active - one(state[i] = "running") + one(t = "running"),
         n_done' = n_done - one(state[i] = "done") + one(t = "done"),
         n_pending' = n_pending - one(state[i] = "pending") + one(t = "pending")
  PROVE  StateCount'
  <1>1. state \in [Svc -> States]
    BY DEF IInv, TypeOK
  <1>2. ASSUME NEW s
        PROVE  Cardinality({k \in Svc : state'[k] = s})
                 = Cardinality({k \in Svc : state[k] = s}) - one(state[i] = s) + one(t = s)
    <2> DEFINE A == {k \in Svc : state[k] = s}
               B == {k \in Svc : state'[k] = s}
    <2>1. A \subseteq Svc /\ B \subseteq Svc /\ \A k \in Svc \ {i} : k \in A <=> k \in B
      BY <1>1
    <2>2. (i \in A <=> state[i] = s) /\ (i \in B <=> t = s)
      BY <1>1
    <2> HIDE DEF A, B
    <2>3. Cardinality(B) = Cardinality(A) - one(i \in A) + one(i \in B)
      BY <2>1, CountMove
    <2>4. one(i \in A) = one(state[i] = s) /\ one(i \in B) = one(t = s)
      BY <2>2 DEF one
    <2> QED  BY <2>3, <2>4 DEF A, B
  <1>3. n_active' = Cardinality({k \in Svc : state'[k] = "running"})
    BY <1>2 DEF StateCount
  <1>4. n_done' = Cardinality({k \in Svc : state'[k] = "done"})
    BY <1>2 DEF StateCount
  <1>5. n_pending' = Cardinality({k \in Svc : state'[k] = "pending"})
    BY <1>2 DEF StateCount
  <1> QED  BY <1>3, <1>4, <1>5 DEF StateCount

\* The services U fail or are skipped, and leave the counters.
LEMMA StateSpread ==
  ASSUME IInv, StateCount, NEW U, U \subseteq Svc,
         \A k \in U : state'[k] \in {"failed", "skipped"},
         \A k \in Svc \ U : state'[k] = state[k],
         n_active' = n_active - Cardinality({k \in U : state[k] = "running"}),
         n_done' = n_done - Cardinality({k \in U : state[k] = "done"}),
         n_pending' = n_pending - Cardinality({k \in U : state[k] = "pending"})
  PROVE  StateCount'
  <1>1. ASSUME NEW s \in {"running", "done", "pending"}
        PROVE  Cardinality({k \in Svc : state'[k] = s})
                 = Cardinality({k \in Svc : state[k] = s}) - Cardinality({k \in U : state[k] = s})
    <2> DEFINE A == {k \in Svc : state[k] = s}
    <2>1. {k \in Svc : state'[k] = s} = A \ U
      OBVIOUS
    <2>2. {k \in U : state[k] = s} = A \cap U
      OBVIOUS
    <2>3. A \subseteq Svc
      OBVIOUS
    <2> HIDE DEF A
    <2>4. Cardinality(A \ U) = Cardinality(A) - Cardinality(A \cap U)
      BY <2>3, CountLose
    <2> QED  BY <2>1, <2>2, <2>4 DEF A
  <1>2. n_active' = Cardinality({k \in Svc : state'[k] = "running"})
    BY <1>1 DEF StateCount
  <1>3. n_done' = Cardinality({k \in Svc : state'[k] = "done"})
    BY <1>1 DEF StateCount
  <1>4. n_pending' = Cardinality({k \in Svc : state'[k] = "pending"})
    BY <1>1 DEF StateCount
  <1> QED  BY <1>2, <1>3, <1>4 DEF StateCount

\* A service that is started, completed or made pending is counted as such.
LEMMA MovesCount ==
  ASSUME IInv, StateCount, NEW i \in Svc,
         \/ UNCHANGED <<state, n_active, n_done, n_pending>>
         \/ set_running(i) \/ svc_mark_pending(i) \/ complete(i) \/ DeliverTarget(i)
  PROVE  StateCount'
  <1>0. n_active \in Int /\ n_done \in Int /\ n_pending \in Int
    BY DEF IInv, TypeOK
  <1>1. CASE UNCHANGED <<state, n_active, n_done, n_pending>>
    BY <1>1 DEF StateCount
  <1>2. CASE set_running(i)
    <2>1. /\ state' = [state EXCEPT ![i] = "running"]
          /\ n_active' = n_active - one(state[i] = "running") + one("running" = "running")
          /\ n_done' = n_done - one(state[i] = "done") + one("running" = "done")
          /\ n_pending' = n_pending - one(state[i] = "pending") + one("running" = "pending")
      BY <1>0, <1>2 DEF set_running, one
    <2> QED  BY <2>1, StateMoved
  <1>3. CASE svc_mark_pending(i)
    <2>1. /\ state' = [state EXCEPT ![i] = "pending"]
          /\ n_active' = n_active - one(state[i] = "running") + one("pending" = "running")
          /\ n_done' = n_done - one(state[i] = "done") + one("pending" = "done")
          /\ n_pending' = n_pending - one(state[i] = "pending") + one("pending" = "pending")
      BY <1>0, <1>3 DEF svc_mark_pending, one
    <2> QED  BY <2>1, StateMoved
  <1>4. CASE complete(i) \/ DeliverTarget(i)
    <2>1. /\ state' = [state EXCEPT ![i] = "done"]
          /\ n_active' = n_active - one(state[i] = "running") + one("done" = "running")
          /\ n_done' = n_done - one(state[i] = "done") + one("done" = "done")
          /\ n_pending' = n_pending - one(state[i] = "pending") + one("done" = "pending")
      BY <1>0, <1>4 DEF complete, DeliverTarget, one
    <2> QED  BY <2>1, StateMoved
  <1> QED  BY <1>1, <1>2, <1>3, <1>4

\* However i stands after the step, n_up counts what is up.
LEMMA UpMoves ==
  ASSUME IInv, UpCount, NEW i \in Svc, NEW um, DepShape(i, um)
  PROVE  UpCount'
  <1> DEFINE A == {k \in Svc : up[k]}
             B == {k \in Svc : up'[k]}
  <1>0. up \in [Svc -> BOOLEAN] /\ n_up \in Int
    BY DEF IInv, TypeOK
  <1>1. CASE go_down(i, um)
    <2> DEFINE U == Reclaimed(i) \cup {i}
    <2>1. Reclaimed(i) \subseteq Svc
      BY ReclaimedFacts
    <2>2. /\ up' = [k \in Svc |-> up[k] /\ k # i /\ k \notin Reclaimed(i)]
          /\ n_up' = n_up - Cardinality({k \in Reclaimed(i) \cup {i} : up[k]})
      BY <1>1 DEF go_down
    <2>3. B = A \ U
      BY <2>2
    <2>4. {k \in Reclaimed(i) \cup {i} : up[k]} = A \cap U
      BY <2>1
    <2> HIDE DEF U
    <2>5. A \subseteq Svc
      OBVIOUS
    <2>6. Cardinality(A \ U) = Cardinality(A) - Cardinality(A \cap U)
      <3> HIDE DEF A
      <3> QED  BY <2>5, CountLose
    <2>7. n_up' = Cardinality(B)
      BY <2>2, <2>3, <2>4, <2>6 DEF UpCount
    <2> QED  BY <2>7 DEF UpCount
  <1>2. CASE UNCHANGED <<up, released, n_up>>
    BY <1>2 DEF UpCount
  <1>3. CASE Raise(i)
    <2>1. up' = [up EXCEPT ![i] = TRUE] /\ n_up' = n_up + one(~up[i])
      BY <1>3 DEF Raise
    <2>2. A \subseteq Svc /\ B \subseteq Svc /\ \A k \in Svc \ {i} : k \in A <=> k \in B
      BY <1>0, <2>1
    <2>3. (i \in A <=> up[i]) /\ i \in B
      BY <1>0, <2>1
    <2>4. n_up = Cardinality(A)
      BY DEF UpCount
    <2> HIDE DEF A, B
    <2>5. Cardinality(A) \in Nat /\ Cardinality(B) = Cardinality(A) - one(i \in A) + one(i \in B)
      BY <2>2, CountMove
    <2>6. n_up' = Cardinality(B)
      BY <2>1, <2>3, <2>4, <2>5 DEF one
    <2> QED  BY <2>6 DEF UpCount, B
  <1> QED  BY <1>1, <1>2, <1>3 DEF DepShape

\* The operation of i begins, goes on or ends, and n_ops follows.
LEMMA OpsMove ==
  ASSUME IInv, OpCount, NEW i \in Svc, \A k \in Svc \ {i} : run'[k].op = run[k].op, OpMoves(i)
  PROVE  OpCount'
  <1> DEFINE A == {k \in Svc : run[k].op # "none"}
             B == {k \in Svc : run'[k].op # "none"}
  <1>1. A \subseteq Svc /\ B \subseteq Svc /\ \A k \in Svc \ {i} : k \in A <=> k \in B
    OBVIOUS
  <1>2. (i \in A <=> run[i].op # "none") /\ (i \in B <=> run'[i].op # "none")
    OBVIOUS
  <1>3. n_ops = Cardinality(A) /\ n_ops' = n_ops - one(run[i].op # "none") + one(run'[i].op # "none")
    BY DEF OpCount, OpMoves
  <1> HIDE DEF A, B
  <1>4. Cardinality(A) \in Nat /\ Cardinality(B) = Cardinality(A) - one(i \in A) + one(i \in B)
    BY <1>1, CountMove
  <1>5. n_ops' = Cardinality(B)
    BY <1>2, <1>3, <1>4 DEF one
  <1> QED  BY <1>5 DEF OpCount, B

-----------------------------------------------------------------------------
(* The invariant after a step about i, from what the step does. *)

\* The other targets still follow their prerequisites: one that loses a prerequisite is
\* taken back, and one that is taken back has lost one.
LEMMA FollowKept ==
  ASSUME IInv, AllFollow, NEW i \in Svc, NEW um \in [Svc -> Nat], DepShape(i, um),
         \A k \in Svc \ {i} : um[k] = unmet[k],
         \A k \in Svc \ {i} : want'[k] = want[k],
         \A k \in Svc \ {i} : Prereqs(k) = {} => state'[k] = state[k],
         scan \ {i} \subseteq scan',
         Type[i] = "target" => Follows(i)'
  PROVE  AllFollow'
  <1> SUFFICES ASSUME NEW t \in Svc, Type[t] = "target", t # i
               PROVE  Follows(t)'
    BY DEF AllFollow
  <1>1. Follows(t)
    BY DEF AllFollow
  <1>2. /\ up \in [Svc -> BOOLEAN] /\ released \in [Svc -> BOOLEAN]
        /\ um[t] \in Nat /\ um[t] = unmet[t] /\ want'[t] = want[t]
        /\ Prereqs(t) = {} => state'[t] = state[t]
        /\ t \in scan => t \in scan'
    BY DEF IInv, TypeOK
  <1>3. CASE go_down(i, um)
    <2> DEFINE R == Reclaimed(i)
               c == Cardinality(Prereqs(t) \cap R)
    <2>1. /\ up'[t] <=> (up[t] /\ t \notin R)
          /\ released'[t] <=> (released[t] /\ t \notin R)
          /\ unmet'[t] = um[t] + c
      BY <1>2, <1>3 DEF go_down
    <2>2. Prereqs(t) \cap R \subseteq Svc
      BY PrereqsIn
    <2>3. c \in Nat /\ (c = 0 <=> Prereqs(t) \cap R = {})
      BY <2>2, SubFinite, FS_EmptySet
    <2>4. t \in R => Prereqs(t) \cap R # {}
      BY ReclaimedTargets
    <2>5. released[t] /\ t \notin OrderOnly /\ Prereqs(t) \cap R # {} => t \in R
      BY ReclaimedClosed
    <2> HIDE DEF R, c
    <2>6. up[t] => released[t]
      BY DEF IInv, UpIsReleased
    <2>7. unmet'[t] = 0 => unmet[t] = 0 /\ c = 0
      BY <1>2, <2>1, <2>3
    <2>8. unmet[t] = 0 /\ c = 0 => unmet'[t] = 0
      BY <1>2, <2>1, <2>3
    <2> QED  BY <1>1, <1>2, <2>1, <2>3, <2>4, <2>5, <2>6, <2>7, <2>8 DEF Follows
  <1>4. CASE unmet' = um /\ (UNCHANGED <<up, released, n_up>> \/ Raise(i))
    <2>1. up'[t] = up[t] /\ released'[t] = released[t] /\ unmet'[t] = unmet[t]
      BY <1>2, <1>4 DEF Raise
    <2> QED  BY <1>1, <1>2, <2>1 DEF Follows
  <1> QED  BY <1>3, <1>4 DEF DepShape

\* The other daemons that are to be restarted are not forgotten: no step about i takes
\* them down or lets them wait for less.
LEMMA BackKept ==
  ASSUME IInv, AllBack, NEW i \in Svc, NEW um \in [Svc -> Nat], DepShape(i, um), Frame(i),
         \A k \in Svc \ {i} : um[k] = unmet[k],
         \A k \in Svc \ {i} : want'[k] = want[k],
         shutting_down => shutting_down',
         i \in Restart \cap Unheld => Back(i)'
  PROVE  AllBack'
  <1> SUFFICES ASSUME NEW k \in Restart \cap Unheld, k # i
               PROVE  Back(k)'
    BY DEF AllBack
  <1>1. Back(k) /\ k \in Svc /\ Type[k] # "target"
    BY GraphAssumption DEF AllBack, ng_verify, Unheld
  <1>2. /\ up \in [Svc -> BOOLEAN]
        /\ um[k] \in Nat /\ um[k] = unmet[k] /\ want'[k] = want[k]
    BY <1>1 DEF IInv, TypeOK
  <1>3. up'[k] = up[k] /\ (unmet[k] > 0 => unmet'[k] > 0)
    <2>1. CASE go_down(i, um)
      <3> DEFINE c == Cardinality(Prereqs(k) \cap Reclaimed(i))
      <3>1. k \notin Reclaimed(i)
        BY <1>1, ReclaimedTargets
      <3>2. (up'[k] <=> up[k]) /\ unmet'[k] = um[k] + c
        BY <1>1, <1>2, <2>1, <3>1 DEF go_down
      <3>3. c \in Nat
        BY <1>1, PrereqsIn, SubFinite
      <3>4. up'[k] \in BOOLEAN
        BY <1>1, <1>2, <2>1 DEF go_down
      <3> HIDE DEF c
      <3>5. up'[k] = up[k]
        BY <1>1, <1>2, <3>2, <3>4
      <3> QED  BY <1>2, <3>2, <3>3, <3>5
    <2>2. CASE unmet' = um /\ (UNCHANGED <<up, released, n_up>> \/ Raise(i))
      BY <1>1, <1>2, <2>2 DEF Raise
    <2> QED  BY <2>1, <2>2 DEF DepShape
  <1>4. /\ run'[k].op = run[k].op
        /\ (run'[k] = run[k] /\ state'[k] = state[k]) \/ state'[k] = "skipped"
    BY <1>1 DEF Frame
  <1> QED  BY <1>1, <1>2, <1>3, <1>4 DEF Back

\* deps: order is looked at by svc_reclaim(): a release by such a service is for good.
OrderKept == \A p \in OrderOnly : released[p] => released'[p]

LEMMA OrderShape ==
  ASSUME IInv, NEW i \in Svc, NEW um, DepShape(i, um)
  PROVE  OrderKept
  <1>1. OrderOnly \subseteq Svc
    BY GraphAssumption DEF ng_verify
  <1>2. CASE go_down(i, um)
    <2>1. Reclaimed(i) \cap OrderOnly = {}
      BY ReclaimedFacts
    <2> QED  BY <1>1, <1>2, <2>1 DEF go_down, OrderKept
  <1>3. CASE UNCHANGED <<up, released, n_up>> \/ Raise(i)
    BY <1>1, <1>3 DEF OrderKept, Raise, IInv, TypeOK
  <1> QED  BY <1>2, <1>3 DEF DepShape

\* All of it together.
LEMMA Assemble ==
  ASSUME IInv, RInv, NEW i \in Svc, NEW um \in [Svc -> Nat], DepShape(i, um), Frame(i),
         Fit(i, run'[i], state'[i], want'[i], i \in live', shutting_down'),
         StateCount', OpMoves(i),
         \A k \in Svc \ {i} : um[k] = unmet[k],
         \A k \in Svc \ {i} : want'[k] = want[k],
         scan \ {i} \subseteq scan',
         shutting_down => shutting_down',
         Type[i] = "target" => Follows(i)',
         i \in Restart \cap Unheld => Back(i)'
  PROVE  RInv' /\ OrderKept
  <1>1. AllFit'
    BY DEF AllFit, Frame
  <1>2. AllFollow'
    <2>1. \A k \in Svc \ {i} : Prereqs(k) = {} => state'[k] = state[k]
      BY DEF Frame
    <2> QED  BY <2>1, FollowKept DEF RInv
  <1>3. AllBack'
    BY BackKept DEF RInv
  <1>4. UpCount'
    BY UpMoves DEF RInv
  <1>5. OpCount'
    BY OpsMove DEF RInv, Frame
  <1>6. OrderKept
    BY OrderShape
  <1> QED  BY <1>1, <1>2, <1>3, <1>4, <1>5, <1>6 DEF RInv


-----------------------------------------------------------------------------
(* The records of runs. *)

\* close_fds() closes both pipes.
LEMMA CloseFields ==
  ASSUME NEW r \in Run
  PROVE  LET c == close_fds(r) IN
         /\ c \in Run /\ ~c.out /\ c.ntf = "none" /\ c.op = r.op
         /\ (c.pid <=> r.pid) /\ (c.stale <=> r.stale)
         /\ (c.restart <=> r.restart) /\ (c.starting <=> r.starting)
  BY DEF Run, close_fds

\* svc_abandon() turns the process into one that is only to be reaped.
LEMMA AbandonFields ==
  ASSUME NEW r \in Run
  PROVE  LET c == svc_abandon(r) IN
         /\ c \in Run /\ (c.out <=> r.out) /\ c.ntf = r.ntf /\ c.op = r.op
         /\ ~c.pid /\ (c.stale <=> r.stale \/ r.pid)
         /\ (c.restart <=> r.restart) /\ (c.starting <=> r.starting)
  <1>1. CASE r.pid
    BY <1>1 DEF Run, svc_abandon
  <1>2. CASE ~r.pid
    BY <1>2 DEF Run, svc_abandon
  <1> QED  BY <1>1, <1>2

\* restart_schedule() leaves a timer and at most a process to be reaped.
LEMMA ScheduleFields ==
  ASSUME NEW r \in Run
  PROVE  LET c == restart_schedule(r) IN
         /\ c \in Run /\ ~c.out /\ c.ntf = "none" /\ c.op = r.op
         /\ ~c.pid /\ (c.stale <=> r.stale \/ r.pid)
         /\ c.restart /\ (c.starting <=> r.starting)
  <1> DEFINE a == svc_abandon(close_fds(r))
             c == [a EXCEPT !.restart = TRUE, !.hold = FALSE]
  <1>1. /\ a \in Run /\ ~a.out /\ a.ntf = "none" /\ a.op = r.op
        /\ ~a.pid /\ (a.stale <=> r.stale \/ r.pid) /\ (a.starting <=> r.starting)
    BY CloseFields, AbandonFields
  <1> HIDE DEF a
  <1>2. /\ c \in Run /\ (c.out <=> a.out) /\ c.ntf = a.ntf /\ c.op = a.op
        /\ (c.pid <=> a.pid) /\ (c.stale <=> a.stale) /\ c.restart /\ (c.starting <=> a.starting)
    BY <1>1 DEF Run
  <1>3. restart_schedule(r) = c
    BY DEF restart_schedule, a
  <1> HIDE DEF c
  <1> QED  BY <1>1, <1>2, <1>3

\* A launched process is starting, and nothing else about the run matters any more.
LEMMA LaunchedFields ==
  ASSUME NEW i \in Svc, NEW r \in Run
  PROVE  LET c == launched(i, r) IN
         /\ c \in Run /\ c.op = r.op /\ c.pid
         /\ (c.stale <=> r.stale) /\ (c.restart <=> r.restart)
  BY DEF Run, launched

\* Reaping the main process.
LEMMA ReapedFields ==
  ASSUME IInv, NEW i \in Svc, NEW e \in BOOLEAN
  PROVE  LET c == Reaped(i, e) IN
         /\ c \in Run /\ (c.out <=> run[i].out) /\ c.ntf = run[i].ntf /\ c.op = run[i].op
         /\ ~c.pid /\ (c.stale <=> run[i].stale) /\ ~c.starting
         /\ (c.restart <=> run[i].restart)
  <1>1. run[i] \in Run
    BY DEF IInv, TypeOK
  <1> QED  BY <1>1 DEF Run, Reaped

\* Setting or clearing the timer.
LEMMA TimerFields ==
  ASSUME NEW r \in Run, NEW b \in BOOLEAN
  PROVE  LET c == [r EXCEPT !.restart = b] IN
         /\ c \in Run /\ (c.out <=> r.out) /\ c.ntf = r.ntf /\ c.op = r.op
         /\ (c.pid <=> r.pid) /\ (c.stale <=> r.stale) /\ (c.starting <=> r.starting)
         /\ (c.restart <=> b)
  BY DEF Run

\* svc_op_done() ends the operation.
LEMMA DoneFields ==
  ASSUME NEW r \in Run
  PROVE  LET c == Done(r) IN
         /\ c \in Run /\ (c.out <=> r.out) /\ c.ntf = r.ntf /\ c.op = "none"
         /\ (c.pid <=> r.pid) /\ (c.stale <=> r.stale) /\ (c.starting <=> r.starting)
         /\ (c.restart <=> r.restart)
  BY DEF Run, Done

\* maybe_free() drops i from the live list, and only i, when nothing is left of its run.
LEMMA FreeFacts ==
  ASSUME NEW lv, NEW i, NEW r
  PROVE  /\ \A k : k # i => (k \in maybe_free(lv, i, r) <=> k \in lv)
         /\ i \in maybe_free(lv, i, r) <=> i \in lv /\ ~Idle(r)
  BY DEF maybe_free

-----------------------------------------------------------------------------
(* The other services. *)

\* A step that changes the run, the state and the place in the live list of i alone.
LEMMA OneFrame ==
  ASSUME IInv, AllFit, NEW i \in Svc, NEW r, run' = [run EXCEPT ![i] = r],
         \A k \in Svc \ {i} : want'[k] = want[k],
         \A k \in Svc \ {i} : state'[k] = state[k],
         \A k \in Svc \ {i} : k \in live' <=> k \in live,
         shutting_down => shutting_down'
  PROVE  Frame(i) /\ run'[i] = r
  <1>1. run \in [Svc -> Run]
    BY DEF IInv, TypeOK
  <1>2. run'[i] = r /\ \A k \in Svc \ {i} : run'[k] = run[k]
    BY <1>1
  <1>3. ASSUME NEW k \in Svc \ {i}
        PROVE  Fit(k, run'[k], state'[k], want'[k], k \in live', shutting_down')
    <2>1. /\ run'[k] = run[k] /\ state'[k] = state[k] /\ want'[k] = want[k]
          /\ k \in live' <=> k \in live
      BY <1>2
    <2>2. Fit(k, run[k], state[k], want[k], k \in live, shutting_down)
      BY DEF AllFit
    <2> QED  BY <2>1, <2>2 DEF Fit
  <1> QED  BY <1>2, <1>3 DEF Frame

\* A step in which other services are skipped: a skipped service had no process, and its
\* timer is called off.
LEMMA SkipFrame ==
  ASSUME IInv, AllFit, ~shutting_down, NEW i \in Svc, NEW r, NEW lv, NEW S,
         \A k \in Svc \ {i} : want'[k] = want[k],
         \A k \in Svc \ {i} : k \in lv <=> k \in live,
         \A k \in S : k \in Svc /\ k # i /\ poison_take(k) /\ Prereqs(k) # {},
         \A k \in Svc \ {i} : state'[k] = IF k \in S THEN "skipped" ELSE state[k],
         skipped_note(S, [run EXCEPT ![i] = r], lv)
  PROVE  Frame(i) /\ run'[i] = r /\ (i \in live' <=> i \in lv)
  <1> DEFINE rn == [run EXCEPT ![i] = r]
             off == {d \in S \cap lv : rn[d].restart}
             calm(q) == [q EXCEPT !.restart = FALSE, !.hold = FALSE]
  <1>1. run \in [Svc -> Run]
    BY DEF IInv, TypeOK
  <1>2. rn[i] = r /\ \A k \in Svc \ {i} : rn[k] = run[k]
    BY <1>1
  <1>3. /\ run' = [d \in Svc |-> IF d \in off THEN calm(rn[d]) ELSE rn[d]]
        /\ live' = lv \ {d \in off : Idle(run'[d])}
    BY DEF skipped_note
  <1> HIDE DEF calm
  <1>4. i \notin off /\ run'[i] = r /\ (i \in live' <=> i \in lv)
    BY <1>2, <1>3
  <1>5. ASSUME NEW k \in Svc \ {i}
        PROVE  /\ Fit(k, run'[k], state'[k], want'[k], k \in live', shutting_down')
               /\ run'[k].op = run[k].op
               /\ \/ run'[k] = run[k] /\ state'[k] = state[k]
                  \/ state'[k] = "skipped" /\ Prereqs(k) # {}
    <2>1. Fit(k, run[k], state[k], want[k], k \in live, shutting_down)
      BY DEF AllFit
    <2>2. run[k] \in Run
      BY <1>1
    <2>3. k \in off <=> k \in S /\ k \in live /\ run[k].restart
      BY <1>2
    <2>4. rn[k] = run[k] /\ (k \in lv <=> k \in live)
      BY <1>2
    <2>5. run'[k] = IF k \in off THEN calm(run[k]) ELSE run[k]
      BY <1>3, <2>4
    <2>6. k \in live' <=> k \in live /\ ~(k \in off /\ Idle(run'[k]))
      BY <1>3, <2>4
    <2>7. state'[k] = IF k \in S THEN "skipped" ELSE state[k]
      OBVIOUS
    <2>8. k \in S => poison_take(k) /\ Prereqs(k) # {}
      OBVIOUS
    <2> HIDE DEF rn, off
    <2>9. CASE k \notin off
      <3>1. run'[k] = run[k] /\ (k \in live' <=> k \in live)
        BY <2>5, <2>6, <2>9
      <3>2. CASE k \notin S
        BY <2>1, <2>7, <3>1, <3>2 DEF Fit
      <3>3. CASE k \in S
        <4>1. run[k].restart => k \in live
          BY <2>1 DEF Fit, Idle
        <4>2. ~run[k].restart
          BY <2>3, <2>9, <3>3, <4>1
        <4>3. state[k] = "pending" \/ Type[k] = "target"
          BY <2>8, <3>3, <4>2 DEF poison_take
        <4>4. /\ ~run[k].pid
              /\ run[k].starting => ~run[k].stale /\ (want[k] \/ k \notin live)
          BY <2>1, <4>3 DEF Fit
        <4> QED  BY <2>1, <2>7, <2>8, <3>1, <3>3, <4>2, <4>4 DEF Fit
      <3> QED  BY <3>2, <3>3
    <2>10. CASE k \in off
      <3>1. k \in S /\ run[k].restart /\ k \in live /\ poison_take(k) /\ Prereqs(k) # {}
        BY <2>3, <2>8, <2>10
      <3>2. /\ ~run[k].pid /\ Type[k] # "target"
            /\ run[k].starting => ~run[k].stale /\ want[k] /\ ~run[k].out /\ run[k].ntf = "none"
        BY <2>1, <3>1 DEF Fit, poison_take
      <3>3. /\ calm(run[k]).op = run[k].op /\ (calm(run[k]).pid <=> run[k].pid)
            /\ ~calm(run[k]).restart /\ (calm(run[k]).starting <=> run[k].starting)
            /\ (calm(run[k]).stale <=> run[k].stale) /\ (calm(run[k]).out <=> run[k].out)
            /\ calm(run[k]).ntf = run[k].ntf
        BY <2>2 DEF calm, Run
      <3>4. run'[k] = calm(run[k]) /\ state'[k] = "skipped"
        BY <2>5, <2>7, <2>10, <3>1
      <3>5. Idle(run'[k]) \/ k \in live'
        BY <2>6, <3>1
      <3> QED  BY <3>1, <3>2, <3>3, <3>4, <3>5 DEF Fit
    <2> QED  BY <2>9, <2>10
  <1> QED  BY <1>4, <1>5 DEF Frame

\* A service fails for good: the others are skipped or left alone.
LEMMA PoisonRun ==
  ASSUME IInv, RInv, ~shutting_down, NEW i \in Svc, NEW um, NEW r, NEW lv,
         \A k \in Svc \ {i} : want'[k] = want[k],
         \A k \in Svc \ {i} : k \in lv <=> k \in live,
         poison(i, um, [run EXCEPT ![i] = r], lv)
  PROVE  /\ Frame(i) /\ StateCount' /\ go_down(i, um)
         /\ run'[i] = r /\ state'[i] = "failed" /\ (i \in live' <=> i \in lv)
  <1> DEFINE S == poison_spread(i)
             U == S \cup {i}
  <1>1. /\ state' = [k \in Svc |-> IF k = i THEN "failed"
                                   ELSE IF k \in S THEN "skipped" ELSE state[k]]
        /\ n_active' = n_active - Cardinality({k \in U : state[k] = "running"})
        /\ n_pending' = n_pending - Cardinality({k \in U : state[k] = "pending"})
        /\ n_done' = n_done - Cardinality({k \in U : state[k] = "done"})
        /\ skipped_note(S, [run EXCEPT ![i] = r], lv)
        /\ go_down(i, um)
    BY DEF poison
  <1>2. \A k \in S : k \in Svc /\ k # i /\ poison_take(k) /\ Prereqs(k) # {}
    BY SpreadFacts
  <1> HIDE DEF S
  <1>3. /\ U \subseteq Svc
        /\ \A k \in U : state'[k] \in {"failed", "skipped"}
        /\ \A k \in Svc \ U : state'[k] = state[k]
    BY <1>1, <1>2
  <1> HIDE DEF U
  <1>4. StateCount'
    BY <1>1, <1>3, StateSpread DEF RInv
  <1>5. \A k \in Svc \ {i} : state'[k] = IF k \in S THEN "skipped" ELSE state[k]
    BY <1>1
  <1>6. Frame(i) /\ run'[i] = r /\ (i \in live' <=> i \in lv)
    BY <1>1, <1>2, <1>5, SkipFrame DEF RInv
  <1> QED  BY <1>1, <1>4, <1>6

\* The same of a service that had completed, whose own state stays.
LEMMA PoisonDepsRun ==
  ASSUME IInv, RInv, ~shutting_down, NEW i \in Svc, NEW r, NEW lv,
         \A k \in Svc \ {i} : want'[k] = want[k],
         \A k \in Svc \ {i} : k \in lv <=> k \in live,
         poison_deps(i, [run EXCEPT ![i] = r], lv)
  PROVE  /\ Frame(i) /\ StateCount' /\ go_down(i, unmet)
         /\ run'[i] = r /\ state'[i] = state[i] /\ (i \in live' <=> i \in lv)
  <1> DEFINE S == IF i \in OrderOnly \/ Taken[i] = {} THEN {} ELSE poison_spread(i)
  <1>1. /\ state' = [k \in Svc |-> IF k \in S THEN "skipped" ELSE state[k]]
        /\ n_active' = n_active - Cardinality({k \in S : state[k] = "running"})
        /\ n_pending' = n_pending - Cardinality({k \in S : state[k] = "pending"})
        /\ n_done' = n_done - Cardinality({k \in S : state[k] = "done"})
        /\ skipped_note(S, [run EXCEPT ![i] = r], lv)
        /\ go_down(i, unmet)
    BY DEF poison_deps
  <1>2. \A k \in S : k \in Svc /\ k # i /\ poison_take(k) /\ Prereqs(k) # {}
    BY SpreadFacts
  <1> HIDE DEF S
  <1>3. /\ S \subseteq Svc
        /\ \A k \in S : state'[k] \in {"failed", "skipped"}
        /\ \A k \in Svc \ S : state'[k] = state[k]
    BY <1>1, <1>2
  <1>4. StateCount'
    BY <1>1, <1>3, StateSpread DEF RInv
  <1>5. \A k \in Svc \ {i} : state'[k] = IF k \in S THEN "skipped" ELSE state[k]
    BY <1>1
  <1>6. Frame(i) /\ run'[i] = r /\ (i \in live' <=> i \in lv)
    BY <1>1, <1>2, <1>5, SkipFrame DEF RInv
  <1>7. state'[i] = state[i]
    BY <1>2, <1>3
  <1> QED  BY <1>1, <1>4, <1>6, <1>7

\* set_running() changes the state of i alone.
LEMMA RunningNow ==
  ASSUME IInv, NEW i \in Svc, set_running(i)
  PROVE  state'[i] = "running" /\ \A k \in Svc \ {i} : state'[k] = state[k]
  BY DEF set_running, IInv, TypeOK

\* The standing of a service, as a shape.
LEMMA StandingShape ==
  ASSUME NEW i \in Svc, Type[i] # "target", NEW um, NEW down, standing(i, um, down)
  PROVE  DepShape(i, um)
  BY DEF standing, DepShape

\* A failed attempt of i, whose run was r, leaves its run fitting: a timer and a state
\* "running", or neither.
LEMMA FailedRun ==
  ASSUME IInv, RInv, ~shutting_down, NEW i \in Svc, Type[i] # "target",
         \A k \in Svc \ {i} : want'[k] = want[k],
         NEW r \in Run, ~(r.pid /\ r.stale), ~r.restart,
         NEW lv, \A k \in Svc \ {i} : k \in lv <=> k \in live, Idle(r) \/ i \in lv,
         NEW um, NEW down, service_failed(i, r, lv, um, down)
  PROVE  /\ Frame(i) /\ StateCount' /\ DepShape(i, um)
         /\ Fit(i, run'[i], state'[i], want'[i], i \in live', shutting_down')
         /\ run'[i].op = r.op /\ state'[i] \in {"running", "failed"}
  <1> DEFINE a == svc_abandon(close_fds(r))
             n == IF r.attempt < UINT8_MAX THEN a.attempt + 1 ELSE a.attempt
             f == [a EXCEPT !.starting = FALSE, !.attempt = n]
             g == [f EXCEPT !.restart = TRUE, !.hold = f.stale]
             l == IF f.stale \/ f.op # "none" THEN lv ELSE lv \ {i}
  <1>1. /\ a \in Run /\ ~a.out /\ a.ntf = "none" /\ a.op = r.op
        /\ ~a.pid /\ (a.stale <=> r.stale \/ r.pid) /\ ~a.restart
    BY CloseFields, AbandonFields
  <1>2. \/ /\ run' = [run EXCEPT ![i] = g] /\ live' = lv \cup {i}
           /\ set_running(i) /\ standing(i, um, down)
        \/ poison(i, um, [run EXCEPT ![i] = f], l)
    BY DEF service_failed
  <1> HIDE DEF a, n
  <1>3. /\ ~f.out /\ f.ntf = "none" /\ f.op = r.op
        /\ ~f.pid /\ (f.stale <=> r.stale \/ r.pid) /\ ~f.restart /\ ~f.starting
    BY <1>1 DEF Run
  <1>4. /\ g.op = r.op /\ ~g.pid /\ ~g.starting
    BY <1>1 DEF Run
  <1> HIDE DEF f, g
  <1>5. CASE /\ run' = [run EXCEPT ![i] = g] /\ live' = lv \cup {i}
             /\ set_running(i) /\ standing(i, um, down)
    <2>1. state'[i] = "running" /\ \A k \in Svc \ {i} : state'[k] = state[k]
      BY <1>5, RunningNow
    <2>2. Frame(i) /\ run'[i] = g
      BY <1>5, <2>1, OneFrame DEF RInv
    <2>3. Fit(i, run'[i], state'[i], want'[i], i \in live', shutting_down')
      BY <1>4, <1>5, <2>1, <2>2 DEF Fit
    <2>4. StateCount'
      BY <1>5, MovesCount DEF RInv
    <2> QED  BY <1>4, <1>5, <2>1, <2>2, <2>3, <2>4, StandingShape
  <1>6. CASE poison(i, um, [run EXCEPT ![i] = f], l)
    <2>1. /\ \A k \in Svc \ {i} : k \in l <=> k \in live
          /\ i \in l <=> i \in lv /\ (f.stale \/ f.op # "none")
      OBVIOUS
    <2> HIDE DEF l
    <2>2. /\ Frame(i) /\ StateCount' /\ go_down(i, um)
          /\ run'[i] = f /\ state'[i] = "failed" /\ (i \in live' <=> i \in l)
      BY <1>6, <2>1, PoisonRun
    <2>3. Idle(f) \/ i \in live'
      BY <1>3, <2>1, <2>2 DEF Idle
    <2>4. Fit(i, run'[i], state'[i], want'[i], i \in live', shutting_down')
      BY <1>3, <2>2, <2>3 DEF Fit
    <2> QED  BY <1>3, <2>2, <2>4 DEF DepShape
  <1> QED  BY <1>2, <1>5, <1>6

\* An attempt to start i does too.
LEMMA SpawnRun ==
  ASSUME IInv, RInv, ~shutting_down, NEW i \in Svc, Type[i] # "target",
         \A k \in Svc \ {i} : want'[k] = want[k],
         NEW r \in Run, ~r.stale, ~r.restart,
         NEW lv, \A k \in Svc \ {i} : k \in lv <=> k \in live, Idle(r) \/ i \in lv,
         NEW um, NEW down, spawn(i, r, lv, um, down)
  PROVE  /\ Frame(i) /\ StateCount' /\ DepShape(i, um)
         /\ Fit(i, run'[i], state'[i], want'[i], i \in live', shutting_down')
         /\ run'[i].op = r.op /\ state'[i] \in {"running", "failed"}
  <1>1. CASE service_failed(i, r, lv, um, down)
    BY <1>1, FailedRun
  <1>2. CASE /\ run' = [run EXCEPT ![i] = launched(i, r)] /\ live' = lv \cup {i}
             /\ set_running(i) /\ standing(i, um, down)
    <2> DEFINE c == launched(i, r)
    <2>1. c.op = r.op /\ c.pid /\ ~c.stale /\ ~c.restart
      BY LaunchedFields
    <2>2. run' = [run EXCEPT ![i] = c]
      BY <1>2
    <2> HIDE DEF c
    <2>3. state'[i] = "running" /\ \A k \in Svc \ {i} : state'[k] = state[k]
      BY <1>2, RunningNow
    <2>4. Frame(i) /\ run'[i] = c
      BY <1>2, <2>2, <2>3, OneFrame DEF RInv
    <2>5. Fit(i, run'[i], state'[i], want'[i], i \in live', shutting_down')
      BY <1>2, <2>1, <2>3, <2>4 DEF Fit
    <2>6. StateCount'
      BY <1>2, MovesCount DEF RInv
    <2> QED  BY <1>2, <2>1, <2>3, <2>4, <2>5, <2>6, StandingShape
  <1> QED  BY <1>1, <1>2 DEF spawn

\* A step about i that leaves all states, from the run r it leaves and its place in the
\* live list.
LEMMA PlainRun ==
  ASSUME IInv, RInv, NEW i \in Svc, NEW r, run' = [run EXCEPT ![i] = r],
         \A k \in Svc \ {i} : want'[k] = want[k],
         UNCHANGED <<state, n_active, n_done, n_pending>>,
         \A k \in Svc \ {i} : k \in live' <=> k \in live,
         shutting_down => shutting_down'
  PROVE  Frame(i) /\ StateCount' /\ run'[i] = r
  <1>1. Frame(i) /\ run'[i] = r
    BY OneFrame DEF RInv
  <1>2. StateCount'
    BY DEF RInv, StateCount
  <1> QED  BY <1>1, <1>2


-----------------------------------------------------------------------------
(* One lemma per group of actions. *)

\* What the invariants say of i before the step.
LEMMA HasNow ==
  ASSUME IInv, RInv, NEW i \in Svc
  PROVE  /\ run[i] \in Run /\ unmet \in [Svc -> Nat] /\ n_ops \in Int
         /\ Fit(i, run[i], state[i], want[i], i \in live, shutting_down)
         /\ Type[i] = "target" => Follows(i)
         /\ i \in Restart \cap Unheld => Back(i)
         /\ i \in Restart => Type[i] # "target"
  <1>1. i \in Restart => Type[i] # "target"
    BY GraphAssumption DEF ng_verify
  <1> QED  BY <1>1 DEF IInv, TypeOK, RInv, AllFit, AllFollow, AllBack

\* The operation of i is left alone.
LEMMA SameOps ==
  ASSUME IInv, NEW i \in Svc, n_ops' = n_ops, run'[i].op = run[i].op
  PROVE  OpMoves(i)
  BY DEF OpMoves, IInv, TypeOK, one

\* The invariant after a step that delivers no release.
LEMMA AssembleNow ==
  ASSUME IInv, RInv, NEW i \in Svc, DepShape(i, unmet), Frame(i),
         Fit(i, run'[i], state'[i], want'[i], i \in live', shutting_down'),
         StateCount', OpMoves(i),
         \A k \in Svc \ {i} : want'[k] = want[k],
         scan \ {i} \subseteq scan',
         shutting_down => shutting_down',
         Type[i] = "target" => Follows(i)',
         i \in Restart \cap Unheld => Back(i)'
  PROVE  RInv' /\ OrderKept
  <1>1. unmet \in [Svc -> Nat]
    BY DEF IInv, TypeOK
  <1> QED  BY <1>1, Assemble

\* A step that changes nothing but the run of i and its place in the live list.
LEMMA StillKept ==
  ASSUME IInv, RInv, NEW i \in Svc, NEW r, run' = [run EXCEPT ![i] = r],
         UNCHANGED <<state, up, released, unmet, n_active, n_done, n_pending, n_up>>,
         UNCHANGED <<want, loopVars>>,
         \A k \in Svc \ {i} : k \in live' <=> k \in live,
         Fit(i, r, state[i], want[i], i \in live', shutting_down),
         n_ops' = n_ops - one(run[i].op # "none") + one(r.op # "none"),
         i \in Restart \cap Unheld => Back(i)'
  PROVE  RInv' /\ OrderKept
  <1>1. /\ UNCHANGED <<state, n_active, n_done, n_pending>>
        /\ shutting_down' = shutting_down /\ scan' = scan
        /\ \A k \in Svc \ {i} : want'[k] = want[k]
    BY DEF loopVars
  <1>2. Frame(i) /\ StateCount' /\ run'[i] = r
    BY <1>1, PlainRun
  <1>3. DepShape(i, unmet)
    BY DEF DepShape
  <1>4. OpMoves(i)
    BY <1>2 DEF OpMoves
  <1>5. Type[i] = "target" => Follows(i)'
    <2>1. Type[i] = "target" => Follows(i)
      BY HasNow
    <2> QED  BY <1>1, <2>1 DEF Follows
  <1>6. Fit(i, run'[i], state'[i], want'[i], i \in live', shutting_down')
    BY <1>1, <1>2
  <1> QED  BY <1>1, <1>2, <1>3, <1>4, <1>5, <1>6, AssembleNow

\* The same of a step that leaves the process, the timer and the operation.
LEMMA StillBack ==
  ASSUME IInv, RInv, NEW i \in Svc, NEW r, run' = [run EXCEPT ![i] = r],
         UNCHANGED <<state, up, released, unmet, n_active, n_done, n_pending, n_up>>,
         UNCHANGED <<want, n_ops, loopVars>>,
         \A k \in Svc \ {i} : k \in live' <=> k \in live,
         Fit(i, r, state[i], want[i], i \in live', shutting_down),
         r.op = run[i].op, r.pid <=> run[i].pid, r.restart <=> run[i].restart
  PROVE  RInv' /\ OrderKept
  <1>1. /\ run \in [Svc -> Run] /\ n_ops \in Int
        /\ i \in Restart \cap Unheld => Back(i)
    BY HasNow DEF IInv, TypeOK
  <1>2. run'[i] = r
    BY <1>1
  <1>3. i \in Restart \cap Unheld => Back(i)'
    BY <1>1, <1>2 DEF Back, loopVars
  <1>4. n_ops' = n_ops - one(run[i].op # "none") + one(r.op # "none")
    BY <1>1 DEF one
  <1> QED  BY <1>3, <1>4, StillKept

\* What complete() does to i.
LEMMA CompleteNow ==
  ASSUME IInv, RInv, NEW i \in Svc, complete(i)
  PROVE  /\ state'[i] = "done" /\ up'[i] /\ StateCount' /\ DepShape(i, unmet)
         /\ \A k \in Svc \ {i} : state'[k] = state[k]
  <1>1. StateCount'
    BY MovesCount DEF RInv
  <1>2. DepShape(i, unmet)
    BY DEF DepShape, Raise, complete
  <1>3. state'[i] = "done" /\ up'[i] /\ \A k \in Svc \ {i} : state'[k] = state[k]
    BY DEF complete, IInv, TypeOK
  <1> QED  BY <1>1, <1>2, <1>3

\* The release queue.
LEMMA ReleaseRun ==
  ASSUME IInv, RInv, NEW d \in Svc, svc_release(d)
  PROVE  RInv' /\ OrderKept
  <1>1. deliver(d)
    BY DEF svc_release, DeliverTarget, DeliverStart, DeliverRestart, DeliverQuiet
  <1>2. /\ want' = want /\ n_ops' = n_ops /\ scan' = scan /\ shutting_down' = shutting_down
        /\ pend[d] > 0
    BY <1>1 DEF deliver, loopVars
  <1>3. Met(d) \in [Svc -> Nat] /\ unmet[d] >= pend[d]
    BY <1>2, DeliverExact DEF Exact
  <1>4. /\ run[d] \in Run /\ unmet \in [Svc -> Nat] /\ pend \in [Svc -> Nat]
        /\ run \in [Svc -> Run] /\ state \in [Svc -> States] /\ up \in [Svc -> BOOLEAN]
        /\ Fit(d, run[d], state[d], want[d], d \in live, shutting_down)
        /\ Type[d] = "target" => Follows(d)
        /\ d \in Restart \cap Unheld => Back(d)
        /\ d \in Restart => Type[d] # "target"
    BY HasNow DEF IInv, TypeOK
  <1>5. /\ \A k \in Svc \ {d} : Met(d)[k] = unmet[k] /\ want'[k] = want[k]
        /\ Met(d)[d] = unmet[d] - 1 /\ unmet[d] > 0
    BY <1>2, <1>3, <1>4 DEF Met
  <1> SUFFICES /\ DepShape(d, Met(d)) /\ Frame(d)
               /\ Fit(d, run'[d], state'[d], want'[d], d \in live', shutting_down')
               /\ StateCount' /\ OpMoves(d)
               /\ Type[d] = "target" => Follows(d)'
               /\ d \in Restart \cap Unheld => Back(d)'
    BY <1>2, <1>3, <1>5, Assemble
  <1>6. CASE DeliverTarget(d)
    <2>1. /\ unmet[d] = 1 /\ ~want[d] /\ Type[d] = "target"
          /\ run' = run /\ live' = live /\ unmet' = Met(d)
          /\ up' = [up EXCEPT ![d] = TRUE] /\ n_up' = n_up + one(~up[d])
          /\ released' = [released EXCEPT ![d] = TRUE]
          /\ state' = [state EXCEPT ![d] = "done"]
      BY <1>6 DEF DeliverTarget, Opens, Last
    <2>2. DepShape(d, Met(d))
      BY <2>1 DEF DepShape, Raise
    <2>3. run' = [run EXCEPT ![d] = run[d]] /\ \A k \in Svc \ {d} : state'[k] = state[k]
      BY <1>4, <2>1
    <2>4. Frame(d) /\ run'[d] = run[d]
      BY <1>2, <2>1, <2>3, OneFrame DEF RInv
    <2>5. StateCount'
      BY <1>6, MovesCount DEF RInv
    <2>6. Fit(d, run'[d], state'[d], want'[d], d \in live', shutting_down')
      BY <1>2, <1>4, <2>1, <2>4 DEF Fit
    <2>7. Follows(d)'
      BY <1>2, <1>4, <1>5, <2>1 DEF Follows
    <2>8. OpMoves(d)
      BY <1>2, <2>4, SameOps
    <2> QED  BY <1>4, <2>1, <2>2, <2>4, <2>5, <2>6, <2>7, <2>8
  <1>7. CASE DeliverStart(d)
    <2>1. /\ spawn(d, run[d], live, Met(d), FALSE)
          /\ Type[d] # "target" /\ state[d] = "pending" /\ ~want[d]
          /\ ~shutting_down /\ ~run[d].pid /\ ~run[d].stale
      BY <1>7 DEF DeliverStart, Starts, Last, svc_can_start
    <2>2. ~run[d].restart /\ (Idle(run[d]) \/ d \in live)
      BY <1>4, <2>1 DEF Fit
    <2>3. /\ Frame(d) /\ StateCount' /\ DepShape(d, Met(d))
          /\ Fit(d, run'[d], state'[d], want'[d], d \in live', shutting_down')
          /\ run'[d].op = run[d].op /\ state'[d] \in {"running", "failed"}
      BY <1>4, <1>5, <2>1, <2>2, SpawnRun
    <2>4. OpMoves(d)
      BY <1>2, <2>3, SameOps
    <2>5. d \in Restart \cap Unheld => Back(d)'
      BY <1>2, <1>4, <2>3 DEF Back
    <2> QED  BY <2>1, <2>3, <2>4, <2>5
  <1>8. CASE DeliverRestart(d)
    <2> DEFINE r == [run[d] EXCEPT !.restart = TRUE]
    <2>1. /\ unmet' = Met(d) /\ run' = [run EXCEPT ![d] = r] /\ live' = live \cup {d}
          /\ UNCHANGED <<state, up, released, n_active, n_done, n_pending, n_up>>
          /\ Type[d] # "target" /\ state[d] = "done"
      BY <1>8 DEF DeliverRestart, Rearms
    <2>2. /\ (r.out <=> run[d].out) /\ r.ntf = run[d].ntf /\ r.op = run[d].op /\ r.restart
          /\ (r.pid <=> run[d].pid) /\ (r.stale <=> run[d].stale)
          /\ (r.starting <=> run[d].starting)
      BY <1>4, TimerFields
    <2> HIDE DEF r
    <2>3. DepShape(d, Met(d))
      BY <2>1 DEF DepShape
    <2>4. Frame(d) /\ StateCount' /\ run'[d] = r
      BY <1>2, <2>1, PlainRun
    <2>5. Fit(d, run'[d], state'[d], want'[d], d \in live', shutting_down')
      BY <1>2, <1>4, <2>1, <2>2, <2>4 DEF Fit
    <2>6. OpMoves(d)
      BY <1>2, <2>2, <2>4, SameOps
    <2>7. d \in Restart \cap Unheld => Back(d)'
      BY <1>2, <1>4, <2>2, <2>4 DEF Back
    <2> QED  BY <2>1, <2>3, <2>4, <2>5, <2>6, <2>7
  <1>9. CASE DeliverQuiet(d)
    <2>1. /\ unmet' = Met(d) /\ run' = run /\ live' = live
          /\ UNCHANGED <<state, up, released, n_active, n_done, n_pending, n_up>>
          /\ ~Opens(d) /\ ~Rearms(d)
      BY <1>9 DEF DeliverQuiet
    <2>2. run' = [run EXCEPT ![d] = run[d]]
      BY <1>4, <2>1
    <2>3. Frame(d) /\ StateCount' /\ run'[d] = run[d]
      BY <1>2, <2>1, <2>2, PlainRun
    <2>4. DepShape(d, Met(d))
      BY <2>1 DEF DepShape
    <2>5. Fit(d, run'[d], state'[d], want'[d], d \in live', shutting_down')
      BY <1>2, <1>4, <2>1, <2>3
    <2>6. OpMoves(d)
      BY <1>2, <2>3, SameOps
    <2>7. unmet'[d] = unmet[d] - 1 /\ unmet[d] \in Nat
      BY <1>4, <1>5, <2>1
    <2>8. Type[d] = "target" => Follows(d)'
      BY <1>2, <1>4, <1>5, <2>1, <2>7 DEF Follows, Opens, Last
    <2>9. d \in Restart \cap Unheld => Back(d)'
      BY <1>2, <1>4, <1>5, <2>1, <2>3, <2>7 DEF Back, Rearms, Last
    <2> QED  BY <2>3, <2>4, <2>5, <2>6, <2>8, <2>9
  <1> QED  BY <1>6, <1>7, <1>8, <1>9 DEF svc_release

\* The boot and resume scans.
LEMMA VisitRun ==
  ASSUME IInv, RInv, NEW i \in Svc, visit(i)
  PROVE  RInv' /\ OrderKept
  <1>1. /\ want' = want /\ n_ops' = n_ops /\ scan' = scan \ {i}
        /\ shutting_down' = shutting_down /\ i \in scan
    BY DEF visit, VisitTarget, VisitStart, VisitQuiet, Visiting
  <1>2. /\ run[i] \in Run /\ run \in [Svc -> Run]
        /\ Fit(i, run[i], state[i], want[i], i \in live, shutting_down)
        /\ Type[i] = "target" => Follows(i)
        /\ i \in Restart \cap Unheld => Back(i)
        /\ i \in Restart => Type[i] # "target"
    BY HasNow DEF IInv, TypeOK
  <1>3. scan \ {i} \subseteq scan' /\ \A k \in Svc \ {i} : want'[k] = want[k]
    BY <1>1
  <1> SUFFICES /\ DepShape(i, unmet) /\ Frame(i)
               /\ Fit(i, run'[i], state'[i], want'[i], i \in live', shutting_down')
               /\ StateCount' /\ OpMoves(i)
               /\ Type[i] = "target" => Follows(i)'
               /\ i \in Restart \cap Unheld => Back(i)'
    BY <1>1, <1>3, AssembleNow
  <1>4. CASE VisitTarget(i)
    <2>1. /\ Type[i] = "target" /\ unmet[i] = 0 /\ ~want[i]
          /\ complete(i) /\ run' = run /\ live' = live
      BY <1>4 DEF VisitTarget, Completes
    <2>2. /\ state'[i] = "done" /\ up'[i] /\ StateCount' /\ DepShape(i, unmet)
          /\ \A k \in Svc \ {i} : state'[k] = state[k]
      BY <2>1, CompleteNow
    <2>3. run' = [run EXCEPT ![i] = run[i]]
      BY <1>2, <2>1
    <2>4. Frame(i) /\ run'[i] = run[i]
      BY <1>1, <2>1, <2>2, <2>3, OneFrame DEF RInv
    <2>5. Fit(i, run'[i], state'[i], want'[i], i \in live', shutting_down')
      BY <1>1, <1>2, <2>1, <2>2, <2>4 DEF Fit
    <2>6. Follows(i)'
      BY <1>1, <2>1, <2>2 DEF Follows, complete
    <2>7. OpMoves(i)
      BY <1>1, <2>4, SameOps
    <2> QED  BY <1>2, <2>1, <2>2, <2>4, <2>5, <2>6, <2>7
  <1>5. CASE VisitStart(i)
    <2>1. /\ spawn(i, run[i], live, unmet, FALSE)
          /\ Type[i] # "target" /\ state[i] = "pending" /\ ~want[i]
          /\ ~shutting_down /\ ~run[i].stale
      BY <1>5 DEF VisitStart, Launches, svc_can_start
    <2>2. ~run[i].restart /\ (Idle(run[i]) \/ i \in live)
      BY <1>2, <2>1 DEF Fit
    <2>3. /\ Frame(i) /\ StateCount' /\ DepShape(i, unmet)
          /\ Fit(i, run'[i], state'[i], want'[i], i \in live', shutting_down')
          /\ run'[i].op = run[i].op /\ state'[i] \in {"running", "failed"}
      BY <1>2, <1>3, <2>1, <2>2, SpawnRun
    <2>4. OpMoves(i)
      BY <1>1, <2>3, SameOps
    <2>5. i \in Restart \cap Unheld => Back(i)'
      BY <1>1, <1>2, <2>3 DEF Back
    <2> QED  BY <2>1, <2>3, <2>4, <2>5
  <1>6. CASE VisitQuiet(i)
    <2>1. /\ UNCHANGED <<state, up, released, unmet, n_active, n_done, n_pending, n_up>>
          /\ run' = run /\ live' = live /\ ~Completes(i)
      BY <1>6 DEF VisitQuiet, depVars
    <2>2. run' = [run EXCEPT ![i] = run[i]]
      BY <1>2, <2>1
    <2>3. Frame(i) /\ StateCount' /\ run'[i] = run[i]
      BY <1>1, <2>1, <2>2, PlainRun
    <2>4. DepShape(i, unmet)
      BY <2>1 DEF DepShape
    <2>5. Fit(i, run'[i], state'[i], want'[i], i \in live', shutting_down')
      BY <1>1, <1>2, <2>1
    <2>6. OpMoves(i)
      BY <1>1, <2>3, SameOps
    <2>7. Type[i] = "target" => Follows(i)'
      BY <1>1, <1>2, <2>1 DEF Follows, Completes
    <2>8. i \in Restart \cap Unheld => Back(i)'
      BY <1>1, <1>2, <2>1 DEF Back
    <2> QED  BY <2>3, <2>4, <2>5, <2>6, <2>7, <2>8
  <1> QED  BY <1>4, <1>5, <1>6 DEF visit

\* What a process does, and the reading of its pipes.
LEMMA PipeRun ==
  ASSUME IInv, RInv, NEW i \in Svc,
         Report(i) \/ LeftoversGone(i) \/ drain_ready(i) \/ drain_closed(i) \/ drain_out(i)
  PROVE  RInv' /\ OrderKept
  <1>1. /\ UNCHANGED <<want, n_ops, loopVars>>
        /\ scan' = scan /\ shutting_down' = shutting_down
    BY DEF Report, LeftoversGone, drain_ready, drain_closed, drain_out, loopVars
  <1>2. /\ run[i] \in Run
        /\ Fit(i, run[i], state[i], want[i], i \in live, shutting_down)
        /\ i \in Restart \cap Unheld => Back(i)
    BY HasNow
  <1>3. CASE Report(i) \/ LeftoversGone(i) \/ drain_closed(i) \/ drain_out(i)
    <2>1. \E n \in {"none", "open", "report"}, x \in BOOLEAN, o \in BOOLEAN :
            /\ run' = [run EXCEPT ![i] = [run[i] EXCEPT !.ntf = n, !.extra = x, !.out = o]]
            /\ o => run[i].out
            /\ n = run[i].ntf \/ n = "none" \/ (n = "report" /\ run[i].ntf = "open")
      <3>1. CASE Report(i)
        <4>1. [run[i] EXCEPT !.ntf = "report"]
                = [run[i] EXCEPT !.ntf = "report", !.extra = run[i].extra, !.out = run[i].out]
          BY <1>2 DEF Run
        <4>2. run' = [run EXCEPT ![i] = [run[i] EXCEPT !.ntf = "report"]] /\ run[i].ntf = "open"
          BY <3>1 DEF Report
        <4>3. run[i].extra \in BOOLEAN /\ run[i].out \in BOOLEAN
          BY <1>2 DEF Run
        <4> QED  BY <4>1, <4>2, <4>3
      <3>2. CASE LeftoversGone(i)
        <4>1. [run[i] EXCEPT !.extra = FALSE]
                = [run[i] EXCEPT !.ntf = run[i].ntf, !.extra = FALSE, !.out = run[i].out]
          BY <1>2 DEF Run
        <4>2. run' = [run EXCEPT ![i] = [run[i] EXCEPT !.extra = FALSE]]
          BY <3>2 DEF LeftoversGone
        <4>3. run[i].ntf \in {"none", "open", "report"} /\ run[i].out \in BOOLEAN
          BY <1>2 DEF Run
        <4> QED  BY <4>1, <4>2, <4>3
      <3>3. CASE drain_closed(i)
        <4>1. [run[i] EXCEPT !.ntf = "none"]
                = [run[i] EXCEPT !.ntf = "none", !.extra = run[i].extra, !.out = run[i].out]
          BY <1>2 DEF Run
        <4>2. run' = [run EXCEPT ![i] = [run[i] EXCEPT !.ntf = "none"]]
          BY <3>3 DEF drain_closed
        <4>3. run[i].extra \in BOOLEAN /\ run[i].out \in BOOLEAN
          BY <1>2 DEF Run
        <4> QED  BY <4>1, <4>2, <4>3
      <3>4. CASE drain_out(i)
        <4>1. [run[i] EXCEPT !.out = FALSE]
                = [run[i] EXCEPT !.ntf = run[i].ntf, !.extra = run[i].extra, !.out = FALSE]
          BY <1>2 DEF Run
        <4>2. run' = [run EXCEPT ![i] = [run[i] EXCEPT !.out = FALSE]]
          BY <3>4 DEF drain_out
        <4>3. run[i].extra \in BOOLEAN /\ run[i].ntf \in {"none", "open", "report"}
          BY <1>2 DEF Run
        <4> QED  BY <4>1, <4>2, <4>3
      <3> QED  BY <1>3, <3>1, <3>2, <3>3, <3>4
    <2>2. PICK n \in {"none", "open", "report"}, x \in BOOLEAN, o \in BOOLEAN :
            /\ run' = [run EXCEPT ![i] = [run[i] EXCEPT !.ntf = n, !.extra = x, !.out = o]]
            /\ o => run[i].out
            /\ n = run[i].ntf \/ n = "none" \/ (n = "report" /\ run[i].ntf = "open")
      BY <2>1
    <2> DEFINE r == [run[i] EXCEPT !.ntf = n, !.extra = x, !.out = o]
    <2>3. /\ r.op = run[i].op /\ (r.pid <=> run[i].pid) /\ (r.stale <=> run[i].stale)
          /\ (r.restart <=> run[i].restart) /\ (r.starting <=> run[i].starting)
          /\ r.ntf = n /\ (r.out <=> o)
      BY <1>2 DEF Run
    <2>4. run' = [run EXCEPT ![i] = r] /\ run'[i] = r
      <3> HIDE DEF r
      <3>1. run' = [run EXCEPT ![i] = r]
        BY <2>2 DEF r
      <3> QED  BY <3>1 DEF IInv, TypeOK
    <2> HIDE DEF r
    <2>5. live' = live \/ live' = maybe_free(live, i, run'[i])
      BY <1>3 DEF Report, LeftoversGone, drain_closed, drain_out
    <2>6. /\ \A k \in Svc \ {i} : k \in live' <=> k \in live
          /\ i \in live' => i \in live
          /\ i \in live /\ ~Idle(r) => i \in live'
      BY <2>4, <2>5, FreeFacts
    <2>7. Idle(run[i]) => Idle(r)
      BY <2>2, <2>3 DEF Idle
    <2>8. shutting_down \/ Idle(r) \/ i \in live'
      BY <1>2, <2>6, <2>7 DEF Fit
    <2>9. Fit(i, r, state[i], want[i], i \in live', shutting_down)
      BY <1>2, <2>2, <2>3, <2>6, <2>8 DEF Fit
    <2>10. UNCHANGED <<state, up, released, unmet, n_active, n_done, n_pending, n_up>>
      BY <1>3 DEF Report, LeftoversGone, drain_closed, drain_out, depVars
    <2> QED  BY <1>1, <2>3, <2>4, <2>6, <2>9, <2>10, StillBack
  <1>4. CASE drain_ready(i)
    <2> DEFINE n == IF i \in Notify THEN "open" ELSE "none"
               r == [run[i] EXCEPT !.starting = FALSE, !.ntf = n]
    <2>1. run' = [run EXCEPT ![i] = r] /\ live' = live /\ run[i].ntf = "report"
      BY <1>4 DEF drain_ready
    <2> HIDE DEF n
    <2>2. /\ r.op = run[i].op /\ (r.pid <=> run[i].pid) /\ (r.stale <=> run[i].stale)
          /\ (r.restart <=> run[i].restart) /\ ~r.starting
      BY <1>2 DEF Run
    <2> HIDE DEF r
    <2>3. Type[i] # "target" /\ (shutting_down \/ i \in live)
      BY <1>2, <2>1 DEF Fit, Idle
    <2>4. CASE complete(i)
      <3>1. /\ state'[i] = "done" /\ up'[i] /\ StateCount' /\ DepShape(i, unmet)
            /\ \A k \in Svc \ {i} : state'[k] = state[k]
        BY <2>4, CompleteNow
      <3>2. \A k \in Svc \ {i} : want'[k] = want[k]
        BY <1>1
      <3>3. Frame(i) /\ run'[i] = r
        BY <1>1, <2>1, <3>1, <3>2, OneFrame DEF RInv
      <3>4. Fit(i, run'[i], state'[i], want'[i], i \in live', shutting_down')
        BY <1>1, <1>2, <2>1, <2>2, <2>3, <3>1, <3>3 DEF Fit
      <3>5. OpMoves(i)
        BY <1>1, <2>2, <3>3, SameOps
      <3>6. i \in Restart \cap Unheld => Back(i)'
        BY <1>1, <1>2, <2>2, <3>1, <3>3 DEF Back
      <3> QED  BY <1>1, <2>3, <3>1, <3>2, <3>3, <3>4, <3>5, <3>6, AssembleNow
    <2>5. CASE UNCHANGED depVars
      <3>1. Fit(i, r, state[i], want[i], i \in live', shutting_down)
        BY <1>2, <2>1, <2>2, <2>3 DEF Fit
      <3>2. UNCHANGED <<state, up, released, unmet, n_active, n_done, n_pending, n_up>>
        BY <2>5 DEF depVars
      <3> QED  BY <1>1, <2>1, <2>2, <3>1, <3>2, StillBack
    <2> QED  BY <1>4, <2>4, <2>5 DEF drain_ready
  <1> QED  BY <1>3, <1>4

\* A step that takes i, no target, down and leaves its state and the others.
LEMMA DownKept ==
  ASSUME IInv, RInv, NEW i \in Svc, Type[i] # "target", NEW r, run' = [run EXCEPT ![i] = r],
         go_down(i, unmet),
         UNCHANGED <<state, n_active, n_done, n_pending, n_ops, scan, shutting_down>>,
         \A k \in Svc \ {i} : want'[k] = want[k],
         \A k \in Svc \ {i} : k \in live' <=> k \in live,
         Fit(i, r, state[i], want'[i], i \in live', shutting_down),
         r.op = run[i].op,
         i \in Restart \cap Unheld => Back(i)'
  PROVE  RInv' /\ OrderKept
  <1>1. Frame(i) /\ StateCount' /\ run'[i] = r
    BY PlainRun
  <1>2. DepShape(i, unmet)
    BY DEF DepShape
  <1>3. OpMoves(i)
    BY <1>1, SameOps
  <1>4. Fit(i, run'[i], state'[i], want'[i], i \in live', shutting_down')
    BY <1>1
  <1> QED  BY <1>1, <1>2, <1>3, <1>4, AssembleNow

\* The end of a process.
LEMMA ExitRun ==
  ASSUME IInv, RInv, NEW i \in Svc, NEW e \in BOOLEAN, child_exited(i, e)
  PROVE  RInv' /\ OrderKept
  <1> DEFINE q == Reaped(i, e)
             c == close_fds(q)
  <1>1. /\ UNCHANGED <<want, n_ops, loopVars>> /\ run[i].pid
        /\ scan' = scan /\ shutting_down' = shutting_down
        /\ \A k \in Svc \ {i} : want'[k] = want[k]
    BY DEF child_exited, exited_held, exited_restart, exited_for_good, exited_complete,
           exited_starting, exited_shutdown, reap, loopVars
  <1>2. /\ run[i] \in Run /\ run \in [Svc -> Run]
        /\ Fit(i, run[i], state[i], want[i], i \in live, shutting_down)
        /\ i \in Restart \cap Unheld => Back(i)
    BY HasNow DEF IInv, TypeOK
  <1>3. /\ q \in Run /\ q.op = run[i].op /\ ~q.pid /\ ~q.stale /\ ~q.starting
        /\ (q.restart <=> run[i].restart)
    <2>1. ~run[i].stale
      BY <1>1, <1>2 DEF Fit
    <2> QED  BY <2>1, ReapedFields
  <1>4. /\ c \in Run /\ c.op = run[i].op /\ ~c.pid /\ ~c.stale /\ ~c.starting
        /\ (c.restart <=> run[i].restart) /\ ~c.out /\ c.ntf = "none"
    BY <1>3, CloseFields
  <1>5. Type[i] # "target" /\ state[i] \in {"running", "done"} /\ (shutting_down \/ i \in live)
    BY <1>1, <1>2 DEF Fit, Idle
  <1>6. CASE exited_held(i, e)
    <2> DEFINE h == [q EXCEPT !.restart = FALSE]
               r == close_fds(h)
    <2>1. /\ run' = [run EXCEPT ![i] = r] /\ live' = maybe_free(live, i, r)
          /\ go_down(i, unmet) /\ want[i]
          /\ svc_mark_pending(i) \/ UNCHANGED <<state, n_active, n_done, n_pending>>
      BY <1>6 DEF exited_held
    <2>2. r.op = run[i].op /\ ~r.pid /\ ~r.stale /\ ~r.starting /\ ~r.restart
      <3> HIDE DEF q
      <3>1. /\ h \in Run /\ h.op = q.op /\ (h.pid <=> q.pid) /\ (h.stale <=> q.stale)
            /\ (h.starting <=> q.starting) /\ ~h.restart
        BY <1>3, TimerFields
      <3> HIDE DEF h
      <3> QED  BY <1>3, <3>1, CloseFields
    <2> HIDE DEF r, q
    <2>3. i \notin Restart \cap Unheld
      BY <1>2, <2>1 DEF Back
    <2>4. /\ \A k \in Svc \ {i} : state'[k] = state[k]
          /\ StateCount'
      BY <2>1, MovesCount DEF svc_mark_pending, IInv, TypeOK, RInv
    <2>5. /\ \A k \in Svc \ {i} : k \in live' <=> k \in live
          /\ i \in live' <=> i \in live /\ ~Idle(r)
      BY <2>1, FreeFacts
    <2>6. Frame(i) /\ run'[i] = r
      BY <1>1, <2>1, <2>4, <2>5, OneFrame DEF RInv
    <2>7. Fit(i, run'[i], state'[i], want'[i], i \in live', shutting_down')
      BY <1>1, <1>5, <2>2, <2>5, <2>6 DEF Fit
    <2>8. DepShape(i, unmet) /\ OpMoves(i)
      BY <1>1, <1>5, <2>1, <2>2, <2>6, SameOps DEF DepShape
    <2> QED  BY <1>1, <1>5, <2>3, <2>4, <2>6, <2>7, <2>8, AssembleNow
  <1>7. CASE exited_restart(i, e)
    <2> DEFINE r == restart_schedule(q)
    <2>1. /\ run' = [run EXCEPT ![i] = r] /\ live' = live
          /\ go_down(i, unmet) /\ UNCHANGED <<state, n_active, n_done, n_pending>>
          /\ state[i] = "done" /\ ~shutting_down
      BY <1>7 DEF exited_restart
    <2>2. /\ r.op = run[i].op /\ ~r.pid /\ ~r.stale /\ ~r.starting /\ r.restart
      <3> HIDE DEF q
      <3> QED  BY <1>3, ScheduleFields
    <2> HIDE DEF r
    <2>3. Fit(i, r, state[i], want'[i], i \in live', shutting_down)
      BY <1>5, <2>1, <2>2 DEF Fit
    <2>4. run'[i] = r
      BY <1>2, <2>1
    <2>5. i \in Restart \cap Unheld => Back(i)'
      BY <1>1, <1>2, <2>2, <2>4 DEF Back
    <2> QED  BY <1>1, <1>5, <2>1, <2>2, <2>3, <2>5, DownKept
  <1>8. CASE exited_for_good(i, e)
    <2> DEFINE l == maybe_free(live, i, c)
    <2>1. /\ poison_deps(i, [run EXCEPT ![i] = c], l)
          /\ state[i] = "done" /\ ~shutting_down /\ i \notin Restart
      BY <1>8 DEF exited_for_good
    <2>2. /\ \A k \in Svc \ {i} : k \in l <=> k \in live
          /\ i \in l <=> i \in live /\ ~Idle(c)
      BY FreeFacts
    <2> HIDE DEF l, c
    <2>3. /\ Frame(i) /\ StateCount' /\ go_down(i, unmet)
          /\ run'[i] = c /\ state'[i] = state[i] /\ (i \in live' <=> i \in l)
      BY <1>1, <2>1, <2>2, PoisonDepsRun
    <2>4. Fit(i, run'[i], state'[i], want'[i], i \in live', shutting_down')
      BY <1>1, <1>4, <1>5, <2>1, <2>2, <2>3 DEF Fit
    <2>5. DepShape(i, unmet) /\ OpMoves(i)
      BY <1>1, <1>4, <1>5, <2>3, SameOps DEF DepShape
    <2> QED  BY <1>1, <1>5, <2>1, <2>3, <2>4, <2>5, AssembleNow
  <1>9. CASE exited_complete(i, e)
    <2>1. complete(i) /\ run' = [run EXCEPT ![i] = q] /\ live' = maybe_free(live, i, q)
      BY <1>9 DEF exited_complete
    <2> HIDE DEF q
    <2>2. /\ state'[i] = "done" /\ up'[i] /\ StateCount' /\ DepShape(i, unmet)
          /\ \A k \in Svc \ {i} : state'[k] = state[k]
      BY <2>1, CompleteNow
    <2>3. /\ \A k \in Svc \ {i} : k \in live' <=> k \in live
          /\ i \in live' <=> i \in live /\ ~Idle(q)
      BY <2>1, FreeFacts
    <2>4. Frame(i) /\ run'[i] = q
      BY <1>1, <2>1, <2>2, <2>3, OneFrame DEF RInv
    <2>5. Fit(i, run'[i], state'[i], want'[i], i \in live', shutting_down')
      BY <1>1, <1>3, <1>5, <2>2, <2>3, <2>4 DEF Fit
    <2>6. OpMoves(i)
      BY <1>1, <1>3, <2>4, SameOps
    <2>7. i \in Restart \cap Unheld => Back(i)'
      BY <1>1, <1>2, <1>3, <2>2, <2>4 DEF Back
    <2> QED  BY <1>1, <1>5, <2>2, <2>4, <2>5, <2>6, <2>7, AssembleNow
  <1>10. CASE exited_starting(i, e)
    <2>1. service_failed(i, q, live, unmet, FALSE) /\ state[i] = "running" /\ ~shutting_down
      BY <1>10 DEF exited_starting
    <2> HIDE DEF q
    <2>2. ~q.restart
      BY <1>1, <1>2, <1>3, <2>1 DEF Fit
    <2>3. /\ Frame(i) /\ StateCount' /\ DepShape(i, unmet)
          /\ Fit(i, run'[i], state'[i], want'[i], i \in live', shutting_down')
          /\ run'[i].op = q.op /\ state'[i] \in {"running", "failed"}
      BY <1>1, <1>3, <1>5, <2>1, <2>2, FailedRun
    <2>4. OpMoves(i)
      BY <1>1, <1>3, <2>3, SameOps
    <2>5. i \in Restart \cap Unheld => Back(i)'
      BY <1>1, <1>2, <1>3, <2>3 DEF Back
    <2> QED  BY <1>1, <1>5, <2>3, <2>4, <2>5, AssembleNow
  <1>11. CASE exited_shutdown(i, e)
    <2> DEFINE r == IF state[i] = "running" THEN c ELSE q
    <2>1. /\ run' = [run EXCEPT ![i] = r] /\ live' = maybe_free(live, i, r) /\ shutting_down
          /\ UNCHANGED <<state, up, released, unmet, n_active, n_done, n_pending, n_up>>
      BY <1>11 DEF exited_shutdown
    <2>2. /\ r.op = run[i].op /\ ~r.pid /\ ~r.stale /\ ~r.starting
          /\ (r.restart <=> run[i].restart)
      <3> HIDE DEF q, c
      <3> QED  BY <1>3, <1>4
    <2> HIDE DEF r
    <2>3. \A k \in Svc \ {i} : k \in live' <=> k \in live
      BY <2>1, FreeFacts
    <2>4. Fit(i, r, state[i], want[i], i \in live', shutting_down)
      BY <1>2, <1>5, <2>1, <2>2 DEF Fit
    <2>5. run'[i] = r
      BY <1>2, <2>1
    <2>6. i \in Restart \cap Unheld => Back(i)'
      BY <1>1, <1>2, <2>1, <2>2, <2>5 DEF Back
    <2>7. n_ops' = n_ops - one(run[i].op # "none") + one(r.op # "none")
      BY <1>1, <2>2 DEF one, IInv, TypeOK
    <2> QED  BY <1>1, <2>1, <2>3, <2>4, <2>6, <2>7, StillKept
  <1> QED  BY <1>6, <1>7, <1>8, <1>9, <1>10, <1>11 DEF child_exited

\* The end of an abandoned process.
LEMMA StaleRun ==
  ASSUME IInv, RInv, NEW i \in Svc, NEW e \in BOOLEAN, stale_reaped(i, e)
  PROVE  RInv' /\ OrderKept
  <1> DEFINE b == run[i].hold /\ ~run[i].restart
             r == [run[i] EXCEPT !.stale = FALSE, !.hold = b, !.extra = e]
  <1>1. /\ run[i] \in Run
        /\ Fit(i, run[i], state[i], want[i], i \in live, shutting_down)
    BY HasNow
  <1>2. /\ run' = [run EXCEPT ![i] = r] /\ live' = maybe_free(live, i, r)
        /\ UNCHANGED <<want, n_ops, loopVars>> /\ run[i].stale
        /\ UNCHANGED <<state, up, released, unmet, n_active, n_done, n_pending, n_up>>
    BY DEF stale_reaped, depVars
  <1> HIDE DEF b
  <1>3. /\ r.op = run[i].op /\ (r.pid <=> run[i].pid) /\ ~r.stale
        /\ (r.restart <=> run[i].restart) /\ (r.starting <=> run[i].starting)
        /\ r.ntf = run[i].ntf /\ (r.out <=> run[i].out)
    BY <1>1 DEF Run
  <1> HIDE DEF r
  <1>4. /\ \A k \in Svc \ {i} : k \in live' <=> k \in live
        /\ i \in live' <=> i \in live /\ ~Idle(r)
    BY <1>2, FreeFacts
  <1>5. Fit(i, r, state[i], want[i], i \in live', shutting_down)
    BY <1>1, <1>2, <1>3, <1>4 DEF Fit, Idle
  <1> QED  BY <1>2, <1>3, <1>4, <1>5, StillBack

\* Restart timers.
LEMMA FireRun ==
  ASSUME IInv, RInv, NEW i \in Svc, fire_restart(i)
  PROVE  RInv' /\ OrderKept
  <1> DEFINE q == Disarmed(i)
  <1>1. /\ UNCHANGED <<want, n_ops, loopVars>> /\ ~shutting_down /\ i \in live /\ run[i].restart
        /\ scan' = scan /\ shutting_down' = shutting_down
        /\ \A k \in Svc \ {i} : want'[k] = want[k]
    BY DEF fire_restart, fire_dropped, fire_postponed, fire_gives_up, fire_launch, Expired, loopVars
  <1>2. /\ run[i] \in Run /\ run \in [Svc -> Run] /\ n_ops \in Int
        /\ Fit(i, run[i], state[i], want[i], i \in live, shutting_down)
        /\ i \in Restart \cap Unheld => Back(i)
    BY HasNow DEF IInv, TypeOK
  <1>3. /\ q \in Run /\ (q.out <=> run[i].out) /\ q.ntf = run[i].ntf /\ q.op = run[i].op
        /\ (q.pid <=> run[i].pid) /\ (q.stale <=> run[i].stale) /\ ~q.restart
        /\ (q.starting <=> run[i].starting)
    BY <1>2, TimerFields DEF Disarmed
  <1>4. Type[i] # "target" /\ (state[i] \in {"running", "done"} \/ want[i])
    BY <1>1, <1>2 DEF Fit
  <1> HIDE DEF q
  <1>5. CASE fire_dropped(i)
    <2>1. /\ run' = [run EXCEPT ![i] = q] /\ live' = live
          /\ UNCHANGED <<state, up, released, unmet, n_active, n_done, n_pending, n_up>>
          /\ want[i] \/ unmet[i] > 0
      BY <1>5 DEF fire_dropped, q
    <2>2. Fit(i, q, state[i], want[i], i \in live', shutting_down)
      BY <1>1, <1>2, <1>3, <2>1 DEF Fit
    <2>3. run'[i] = q
      BY <1>2, <2>1
    <2>4. i \in Restart \cap Unheld => Back(i)'
      BY <1>1, <1>2, <1>3, <2>1, <2>3 DEF Back
    <2>5. n_ops' = n_ops - one(run[i].op # "none") + one(q.op # "none")
      BY <1>1, <1>2, <1>3 DEF one
    <2> QED  BY <1>1, <2>1, <2>2, <2>4, <2>5, StillKept
  <1>6. CASE fire_postponed(i)
    <2> DEFINE b == run[i].stale
               r == [run[i] EXCEPT !.hold = b]
    <2>1. /\ run' = [run EXCEPT ![i] = r] /\ live' = live
          /\ UNCHANGED <<state, up, released, unmet, n_active, n_done, n_pending, n_up>>
      BY <1>6 DEF fire_postponed
    <2> HIDE DEF b
    <2>2. /\ r.op = run[i].op /\ (r.pid <=> run[i].pid) /\ (r.stale <=> run[i].stale)
          /\ (r.restart <=> run[i].restart) /\ (r.starting <=> run[i].starting)
          /\ r.ntf = run[i].ntf /\ (r.out <=> run[i].out)
      BY <1>2 DEF Run
    <2> HIDE DEF r
    <2>3. Fit(i, r, state[i], want[i], i \in live', shutting_down)
      BY <1>1, <1>2, <2>1, <2>2 DEF Fit
    <2> QED  BY <1>1, <2>1, <2>2, <2>3, StillBack
  <1>7. CASE fire_gives_up(i)
    <2>1. poison(i, unmet, [run EXCEPT ![i] = q], live) /\ run[i].stale /\ state[i] = "running"
      BY <1>7 DEF fire_gives_up, q
    <2>2. /\ Frame(i) /\ StateCount' /\ go_down(i, unmet)
          /\ run'[i] = q /\ state'[i] = "failed" /\ (i \in live' <=> i \in live)
      BY <1>1, <2>1, PoisonRun
    <2>3. Fit(i, run'[i], state'[i], want'[i], i \in live', shutting_down')
      BY <1>1, <1>2, <1>3, <1>4, <2>1, <2>2 DEF Fit
    <2>4. DepShape(i, unmet) /\ OpMoves(i)
      BY <1>1, <1>3, <1>4, <2>2, SameOps DEF DepShape
    <2>5. i \in Restart \cap Unheld => Back(i)'
      BY <1>1, <1>2, <1>3, <2>2 DEF Back
    <2> QED  BY <1>1, <1>4, <2>2, <2>3, <2>4, <2>5, AssembleNow
  <1>8. CASE fire_launch(i)
    <2>1. ~want[i] /\ ~run[i].pid /\ ~run[i].stale
      BY <1>8 DEF fire_launch, svc_can_start
    <2>2. CASE /\ run' = [run EXCEPT ![i] = launched(i, q)]
               /\ UNCHANGED <<state, up, released, unmet, n_active, n_done, n_pending, n_up, live>>
      <3> DEFINE r == launched(i, q)
      <3>1. r.op = run[i].op /\ r.pid /\ ~r.stale /\ ~r.restart
        BY <1>3, <2>1, LaunchedFields
      <3>2. run' = [run EXCEPT ![i] = r] /\ live' = live
        BY <2>2
      <3> HIDE DEF r
      <3>3. Fit(i, r, state[i], want[i], i \in live', shutting_down)
        BY <1>1, <1>4, <2>1, <3>1, <3>2 DEF Fit
      <3>4. run'[i] = r
        BY <1>2, <3>2
      <3>5. i \in Restart \cap Unheld => Back(i)'
        BY <1>1, <1>2, <3>1, <3>4 DEF Back
      <3>6. n_ops' = n_ops - one(run[i].op # "none") + one(r.op # "none")
        BY <1>1, <1>2, <3>1 DEF one
      <3> QED  BY <1>1, <2>2, <3>2, <3>3, <3>5, <3>6, StillKept
    <2>3. CASE service_failed(i, q, live, unmet, FALSE)
      <3>1. /\ Frame(i) /\ StateCount' /\ DepShape(i, unmet)
            /\ Fit(i, run'[i], state'[i], want'[i], i \in live', shutting_down')
            /\ run'[i].op = q.op /\ state'[i] \in {"running", "failed"}
        BY <1>1, <1>3, <1>4, <2>1, <2>3, FailedRun
      <3>2. OpMoves(i)
        BY <1>1, <1>3, <3>1, SameOps
      <3>3. i \in Restart \cap Unheld => Back(i)'
        BY <1>1, <1>2, <1>3, <3>1 DEF Back
      <3> QED  BY <1>1, <1>4, <3>1, <3>2, <3>3, AssembleNow
    <2>4. CASE /\ state[i] # "running"
               /\ run' = [run EXCEPT ![i] = restart_schedule([q EXCEPT !.starting = TRUE])]
               /\ UNCHANGED <<state, up, released, unmet, n_active, n_done, n_pending, n_up, live>>
      <3> DEFINE s == [q EXCEPT !.starting = TRUE]
                 r == restart_schedule(s)
      <3>1. s \in Run /\ s.op = q.op /\ (s.pid <=> q.pid) /\ (s.stale <=> q.stale)
        BY <1>3 DEF Run
      <3>2. run' = [run EXCEPT ![i] = r] /\ live' = live
        BY <2>4
      <3> HIDE DEF s
      <3>3. r.op = run[i].op /\ ~r.pid /\ ~r.stale /\ r.restart /\ ~r.out /\ r.ntf = "none"
        BY <1>3, <2>1, <3>1, ScheduleFields
      <3> HIDE DEF r
      <3>4. Fit(i, r, state[i], want[i], i \in live', shutting_down)
        BY <1>1, <1>4, <2>1, <2>4, <3>2, <3>3 DEF Fit
      <3>5. run'[i] = r
        BY <1>2, <3>2
      <3>6. i \in Restart \cap Unheld => Back(i)'
        BY <1>1, <1>2, <3>3, <3>5 DEF Back
      <3>7. n_ops' = n_ops - one(run[i].op # "none") + one(r.op # "none")
        BY <1>1, <1>2, <3>3 DEF one
      <3> QED  BY <1>1, <2>4, <3>2, <3>4, <3>6, <3>7, StillKept
    <2> QED  BY <1>8, <2>2, <2>3, <2>4 DEF fire_launch, q
  <1> QED  BY <1>5, <1>6, <1>7, <1>8 DEF fire_restart

\* Start timeouts.
LEMMA TimeoutRun ==
  ASSUME IInv, RInv, NEW i \in Svc, check_timeouts(i)
  PROVE  RInv' /\ OrderKept
  <1> DEFINE q == [run[i] EXCEPT !.starting = FALSE]
  <1>1. /\ UNCHANGED <<want, n_ops, loopVars>> /\ ~shutting_down /\ i \in live /\ run[i].starting
        /\ scan' = scan /\ shutting_down' = shutting_down
        /\ \A k \in Svc \ {i} : want'[k] = want[k]
    BY DEF check_timeouts, timeout_starting, timeout_restarting, TimesOut, loopVars
  <1>2. /\ run[i] \in Run /\ run \in [Svc -> Run] /\ n_ops \in Int
        /\ Fit(i, run[i], state[i], want[i], i \in live, shutting_down)
        /\ i \in Restart \cap Unheld => Back(i)
    BY HasNow DEF IInv, TypeOK
  <1>3. /\ q \in Run /\ q.op = run[i].op /\ (q.pid <=> run[i].pid) /\ (q.stale <=> run[i].stale)
        /\ (q.restart <=> run[i].restart) /\ ~q.starting
    BY <1>2 DEF Run
  <1>4. Type[i] # "target"
    BY <1>1, <1>2 DEF Fit
  <1> HIDE DEF q
  <1>5. CASE timeout_starting(i)
    <2>1. service_failed(i, run[i], live, unmet, FALSE) /\ state[i] = "running"
      BY <1>5 DEF timeout_starting
    <2>2. ~run[i].restart /\ ~(run[i].pid /\ run[i].stale)
      BY <1>1, <1>2, <2>1 DEF Fit
    <2>3. /\ Frame(i) /\ StateCount' /\ DepShape(i, unmet)
          /\ Fit(i, run'[i], state'[i], want'[i], i \in live', shutting_down')
          /\ run'[i].op = run[i].op /\ state'[i] \in {"running", "failed"}
      BY <1>1, <1>2, <1>4, <2>1, <2>2, FailedRun
    <2>4. OpMoves(i)
      BY <1>1, <2>3, SameOps
    <2>5. i \in Restart \cap Unheld => Back(i)'
      BY <1>1, <1>2, <2>3 DEF Back
    <2> QED  BY <1>1, <1>4, <2>3, <2>4, <2>5, AssembleNow
  <1>6. CASE timeout_restarting(i) /\ i \in Restart
    <2> DEFINE r == restart_schedule(q)
    <2>1. /\ run' = [run EXCEPT ![i] = r] /\ live' = live
          /\ go_down(i, unmet) /\ UNCHANGED <<state, n_active, n_done, n_pending>>
          /\ state[i] # "running"
      BY <1>6 DEF timeout_restarting, q
    <2>2. /\ r.op = run[i].op /\ ~r.pid /\ (r.stale <=> run[i].stale \/ run[i].pid)
          /\ ~r.starting /\ r.restart
      BY <1>3, ScheduleFields
    <2> HIDE DEF r
    <2>3. Fit(i, r, state[i], want'[i], i \in live', shutting_down)
      BY <1>1, <1>2, <1>4, <2>1, <2>2 DEF Fit
    <2>4. run'[i] = r
      BY <1>2, <2>1
    <2>5. i \in Restart \cap Unheld => Back(i)'
      BY <1>1, <1>2, <2>2, <2>4 DEF Back
    <2> QED  BY <1>1, <1>4, <2>1, <2>2, <2>3, <2>5, DownKept
  <1>7. CASE timeout_restarting(i) /\ i \notin Restart
    <2> DEFINE c == close_fds(q)
               l == maybe_free(live, i, c)
    <2>1. poison_deps(i, [run EXCEPT ![i] = c], l) /\ state[i] # "running"
      BY <1>7 DEF timeout_restarting, q
    <2>2. /\ c.op = run[i].op /\ (c.pid <=> run[i].pid) /\ (c.stale <=> run[i].stale)
          /\ ~c.starting /\ (c.restart <=> run[i].restart) /\ ~c.out /\ c.ntf = "none"
      BY <1>3, CloseFields
    <2>3. /\ \A k \in Svc \ {i} : k \in l <=> k \in live
          /\ i \in l <=> i \in live /\ ~Idle(c)
      BY FreeFacts
    <2> HIDE DEF l, c
    <2>4. /\ Frame(i) /\ StateCount' /\ go_down(i, unmet)
          /\ run'[i] = c /\ state'[i] = state[i] /\ (i \in live' <=> i \in l)
      BY <1>1, <2>1, <2>3, PoisonDepsRun
    <2>5. Fit(i, run'[i], state'[i], want'[i], i \in live', shutting_down')
      BY <1>1, <1>2, <1>4, <2>1, <2>2, <2>3, <2>4 DEF Fit
    <2>6. DepShape(i, unmet) /\ OpMoves(i)
      BY <1>1, <1>4, <2>2, <2>4, SameOps DEF DepShape
    <2> QED  BY <1>1, <1>4, <1>7, <2>4, <2>5, <2>6, AssembleNow
  <1> QED  BY <1>5, <1>6, <1>7 DEF check_timeouts

\* svc_op_start(): the service is starting, waits for its prerequisite as pending, or is
\* refused because of a process it still has.
LEMMA OpStartRun ==
  ASSUME IInv, RInv, ~shutting_down, NEW i \in Svc, Type[i] # "target",
         NEW lv, \A k \in Svc \ {i} : k \in lv <=> k \in live, i \in live => i \in lv,
         NEW down \in BOOLEAN, svc_op_start(i, lv, down)
  PROVE  /\ Frame(i) /\ StateCount' /\ DepShape(i, unmet) /\ OpMoves(i)
         /\ Fit(i, run'[i], state'[i], want'[i], i \in live', shutting_down')
         /\ ~want'[i] /\ \A k \in Svc \ {i} : want'[k] = want[k]
         /\ run'[i].op \in {"none", "start"}
         /\ ~down /\ state'[i] = "done" =>
              /\ state[i] = "done" /\ (up'[i] <=> up[i]) /\ unmet'[i] = unmet[i]
              /\ (run'[i].pid <=> run[i].pid) /\ (run'[i].restart <=> run[i].restart)
  <1>1. /\ run[i] \in Run /\ run \in [Svc -> Run] /\ n_ops \in Int
        /\ Fit(i, run[i], state[i], want[i], i \in live, shutting_down)
    BY HasNow DEF IInv, TypeOK
  <1>2. ~want'[i] /\ \A k \in Svc \ {i} : want'[k] = want[k]
    BY DEF svc_op_start, IInv, TypeOK
  <1>3. CASE svc_can_start(i, unmet[i], FALSE)
    <2> DEFINE r == [run[i] EXCEPT !.attempt = 0, !.restart = FALSE,
                                   !.again = FALSE, !.op = "start"]
               l == lv \cup {i}
    <2>1. /\ spawn(i, r, l, unmet, down) /\ n_ops' = n_ops + one(run[i].op = "none")
          /\ ~run[i].stale
      BY <1>3 DEF svc_op_start, svc_can_start
    <2>2. r \in Run /\ r.op = "start" /\ (r.stale <=> run[i].stale) /\ ~r.restart
      <3>1. 0 \in 0..UINT8_MAX
        BY DEF UINT8_MAX
      <3>2. r \in Run
        BY <1>1, <3>1 DEF Run
      <3>3. r.op = "start" /\ (r.stale <=> run[i].stale) /\ ~r.restart
        BY <1>1 DEF Run
      <3> QED  BY <3>2, <3>3
    <2>3. i \in l /\ \A k \in Svc \ {i} : k \in l <=> k \in live
      OBVIOUS
    <2> HIDE DEF r, l
    <2>4. /\ Frame(i) /\ StateCount' /\ DepShape(i, unmet)
          /\ Fit(i, run'[i], state'[i], want'[i], i \in live', shutting_down')
          /\ run'[i].op = r.op /\ state'[i] \in {"running", "failed"}
      BY <1>2, <2>1, <2>2, <2>3, SpawnRun
    <2>5. OpMoves(i)
      BY <1>1, <2>1, <2>2, <2>4 DEF OpMoves, one
    <2> QED  BY <1>2, <2>2, <2>4, <2>5
  <1>4. CASE ~svc_can_start(i, unmet[i], FALSE) /\ (run[i].pid \/ run[i].stale)
    <2> DEFINE r == Done(run[i])
    <2>1. /\ standing(i, unmet, down) /\ UNCHANGED <<state, n_active, n_done, n_pending>>
          /\ run' = [run EXCEPT ![i] = r] /\ live' = maybe_free(lv, i, r)
          /\ n_ops' = n_ops - one(run[i].op # "none")
      BY <1>4 DEF svc_op_start, Freed
    <2>2. /\ (r.out <=> run[i].out) /\ r.ntf = run[i].ntf /\ r.op = "none"
          /\ (r.pid <=> run[i].pid) /\ (r.stale <=> run[i].stale)
          /\ (r.starting <=> run[i].starting) /\ (r.restart <=> run[i].restart)
      BY <1>1, DoneFields
    <2> HIDE DEF r
    <2>3. /\ \A k \in Svc \ {i} : k \in live' <=> k \in live
          /\ i \in live' <=> i \in lv /\ ~Idle(r)
      BY <2>1, FreeFacts
    <2>4. \A k \in Svc \ {i} : state'[k] = state[k]
      BY <2>1
    <2>5. Frame(i) /\ run'[i] = r
      BY <1>2, <2>1, <2>3, <2>4, OneFrame DEF RInv
    <2>6. StateCount'
      BY <2>1, MovesCount DEF RInv
    <2>7. DepShape(i, unmet) /\ OpMoves(i)
      BY <1>1, <2>1, <2>2, <2>5, StandingShape DEF OpMoves, one
    <2>8. run[i].stale \/ run[i].pid => i \in lv /\ ~Idle(r)
      BY <1>1, <2>2 DEF Fit, Idle
    <2>9. Fit(i, run'[i], state'[i], want'[i], i \in live', shutting_down')
      BY <1>1, <1>4, <2>1, <2>2, <2>3, <2>5, <2>8 DEF Fit
    <2>10. ~down => UNCHANGED <<up, unmet>>
      BY <2>1 DEF standing
    <2> QED  BY <1>2, <2>1, <2>2, <2>5, <2>6, <2>7, <2>9, <2>10
  <1>5. CASE ~svc_can_start(i, unmet[i], FALSE) /\ ~run[i].pid /\ ~run[i].stale
    <2> DEFINE q == [run[i] EXCEPT !.attempt = 0, !.restart = FALSE]
               r == Done(q)
    <2>1. /\ go_down(i, unmet) /\ svc_mark_pending(i)
          /\ run' = [run EXCEPT ![i] = r] /\ live' = maybe_free(lv, i, r)
          /\ n_ops' = n_ops - one(run[i].op # "none")
      BY <1>5 DEF svc_op_start, Freed
    <2>2. /\ q \in Run /\ (q.out <=> run[i].out) /\ q.ntf = run[i].ntf
          /\ ~q.pid /\ ~q.stale /\ ~q.restart /\ (q.starting <=> run[i].starting)
      <3>1. 0 \in 0..UINT8_MAX
        BY DEF UINT8_MAX
      <3>2. q \in Run
        BY <1>1, <3>1 DEF Run
      <3>3. /\ (q.out <=> run[i].out) /\ q.ntf = run[i].ntf
            /\ (q.pid <=> run[i].pid) /\ (q.stale <=> run[i].stale)
            /\ ~q.restart /\ (q.starting <=> run[i].starting)
        BY <1>1 DEF Run
      <3> QED  BY <1>5, <3>2, <3>3
    <2> HIDE DEF q
    <2>3. /\ (r.out <=> run[i].out) /\ r.ntf = run[i].ntf /\ r.op = "none"
          /\ ~r.pid /\ ~r.stale /\ (r.starting <=> run[i].starting) /\ ~r.restart
      BY <2>2, DoneFields
    <2> HIDE DEF r
    <2>4. /\ \A k \in Svc \ {i} : k \in live' <=> k \in live
          /\ i \in live' <=> i \in lv /\ ~Idle(r)
      BY <2>1, FreeFacts
    <2>5. state'[i] = "pending" /\ \A k \in Svc \ {i} : state'[k] = state[k]
      BY <2>1 DEF svc_mark_pending, IInv, TypeOK
    <2>6. Frame(i) /\ run'[i] = r
      BY <1>2, <2>1, <2>4, <2>5, OneFrame DEF RInv
    <2>7. StateCount'
      BY <2>1, MovesCount DEF RInv
    <2>8. DepShape(i, unmet) /\ OpMoves(i)
      BY <1>1, <2>1, <2>3, <2>6 DEF DepShape, OpMoves, one
    <2>9. Idle(r) \/ i \in lv
      BY <1>1, <2>3 DEF Fit, Idle
    <2>10. run[i].starting => Idle(r) /\ ~run[i].out /\ run[i].ntf = "none"
      BY <1>1, <1>5, <2>3 DEF Fit, Idle
    <2>11. Fit(i, run'[i], state'[i], want'[i], i \in live', shutting_down')
      BY <2>3, <2>4, <2>5, <2>6, <2>9, <2>10 DEF Fit
    <2> QED  BY <1>2, <2>3, <2>5, <2>6, <2>7, <2>8, <2>11
  <1> QED  BY <1>3, <1>4, <1>5

\* ninitctl start, stop and restart.
LEMMA CommandRun ==
  ASSUME IInv, RInv, NEW i \in Svc, ctl_cmd(i)
  PROVE  RInv' /\ OrderKept
  <1>1. /\ ~shutting_down /\ i \in OpSvc /\ Type[i] # "target" /\ run[i].op = "none"
        /\ scan' = scan /\ shutting_down' = shutting_down
    BY DEF ctl_cmd, ctl_start, stop_signal, stop_gone, restart_gone, Request, loopVars
  <1>2. /\ run[i] \in Run /\ run \in [Svc -> Run] /\ n_ops \in Int /\ want \in [Svc -> BOOLEAN]
        /\ Fit(i, run[i], state[i], want[i], i \in live, shutting_down)
        /\ i \in Restart \cap Unheld => Back(i)
    BY HasNow DEF IInv, TypeOK
  <1>3. CASE ctl_start(i)
    <2>1. svc_op_start(i, live, FALSE)
      BY <1>3 DEF ctl_start
    <2>2. /\ Frame(i) /\ StateCount' /\ DepShape(i, unmet) /\ OpMoves(i)
          /\ Fit(i, run'[i], state'[i], want'[i], i \in live', shutting_down')
          /\ ~want'[i] /\ \A k \in Svc \ {i} : want'[k] = want[k]
          /\ run'[i].op \in {"none", "start"}
          /\ state'[i] = "done" =>
               /\ state[i] = "done" /\ (up'[i] <=> up[i]) /\ unmet'[i] = unmet[i]
               /\ (run'[i].pid <=> run[i].pid) /\ (run'[i].restart <=> run[i].restart)
      BY <1>1, <2>1, OpStartRun
    <2>3. i \in Restart \cap Unheld => Back(i)'
      BY <1>1, <1>2, <2>2 DEF Back
    <2> QED  BY <1>1, <2>2, <2>3, AssembleNow
  <1>4. ASSUME NEW again \in BOOLEAN, stop_signal(i, again)
        PROVE  RInv' /\ OrderKept
    <2> DEFINE r == [run[i] EXCEPT !.restart = FALSE, !.again = again, !.op = "term"]
    <2>1. /\ Cmds \cap {"stop", "restart"} # {}
          /\ want' = [want EXCEPT ![i] = TRUE] /\ live' = live \cup {i}
          /\ run' = [run EXCEPT ![i] = r] /\ n_ops' = n_ops + 1
          /\ UNCHANGED <<state, up, released, unmet, n_active, n_done, n_pending, n_up>>
      BY <1>4 DEF stop_signal, Request, depVars
    <2>2. i \notin Restart \cap Unheld
      BY <1>1, <2>1 DEF Unheld
    <2>3. /\ r.op = "term" /\ (r.pid <=> run[i].pid) /\ (r.stale <=> run[i].stale)
          /\ ~r.restart /\ (r.starting <=> run[i].starting)
          /\ r.ntf = run[i].ntf /\ (r.out <=> run[i].out)
      BY <1>2 DEF Run
    <2> HIDE DEF r
    <2>4. want'[i] /\ \A k \in Svc \ {i} : want'[k] = want[k]
      BY <1>2, <2>1
    <2>5. Frame(i) /\ StateCount' /\ run'[i] = r
      BY <1>1, <2>1, <2>4, PlainRun
    <2>6. Fit(i, run'[i], state'[i], want'[i], i \in live', shutting_down')
      BY <1>1, <1>2, <2>1, <2>3, <2>4, <2>5 DEF Fit
    <2>7. DepShape(i, unmet) /\ OpMoves(i)
      BY <1>1, <1>2, <2>1, <2>3, <2>5 DEF DepShape, OpMoves, one
    <2> QED  BY <1>1, <2>2, <2>4, <2>5, <2>6, <2>7, AssembleNow
  <1>5. CASE stop_gone(i)
    <2> DEFINE q == [run[i] EXCEPT !.restart = FALSE]
               r == Done(q)
               l == live \cup {i}
    <2>1. /\ "stop" \in Cmds /\ ~run[i].pid /\ ~run[i].stale
          /\ want' = [want EXCEPT ![i] = TRUE] /\ live' = maybe_free(l, i, r)
          /\ run' = [run EXCEPT ![i] = r] /\ go_down(i, unmet)
          /\ UNCHANGED <<state, n_active, n_done, n_pending, n_ops>>
      BY <1>5 DEF stop_gone, Request, svc_gone, Freed
    <2>2. i \notin Restart \cap Unheld
      BY <1>1, <2>1 DEF Unheld
    <2>3. /\ q \in Run /\ (q.pid <=> run[i].pid) /\ (q.stale <=> run[i].stale)
          /\ ~q.restart /\ (q.starting <=> run[i].starting)
          /\ q.ntf = run[i].ntf /\ (q.out <=> run[i].out)
      BY <1>2, TimerFields
    <2> HIDE DEF q
    <2>4. /\ r.op = "none" /\ ~r.pid /\ ~r.stale /\ ~r.restart
          /\ (r.starting <=> run[i].starting) /\ r.ntf = run[i].ntf /\ (r.out <=> run[i].out)
      BY <2>1, <2>3, DoneFields
    <2> HIDE DEF r
    <2>5. want'[i] /\ \A k \in Svc \ {i} : want'[k] = want[k]
      BY <1>2, <2>1
    <2>6. /\ \A k \in Svc \ {i} : k \in live' <=> k \in live
          /\ i \in live' <=> ~Idle(r)
      BY <2>1, FreeFacts
    <2>7. Fit(i, r, state[i], want'[i], i \in live', shutting_down)
      BY <1>1, <1>2, <2>1, <2>4, <2>5, <2>6 DEF Fit
    <2> QED  BY <1>1, <2>1, <2>2, <2>4, <2>5, <2>6, <2>7, DownKept
  <1>6. CASE restart_gone(i)
    <2> DEFINE l == live \cup {i}
    <2>1. "restart" \in Cmds /\ svc_op_start(i, l, FALSE)
      BY <1>6 DEF restart_gone, Request
    <2>2. i \notin Restart \cap Unheld
      BY <1>1, <2>1 DEF Unheld
    <2>3. i \in l /\ \A k \in Svc \ {i} : k \in l <=> k \in live
      OBVIOUS
    <2> HIDE DEF l
    <2>4. /\ Frame(i) /\ StateCount' /\ DepShape(i, unmet) /\ OpMoves(i)
          /\ Fit(i, run'[i], state'[i], want'[i], i \in live', shutting_down')
          /\ \A k \in Svc \ {i} : want'[k] = want[k]
      BY <1>1, <2>1, <2>3, OpStartRun
    <2> QED  BY <1>1, <2>2, <2>4, AssembleNow
  <1> QED  BY <1>3, <1>4, <1>5, <1>6 DEF ctl_cmd

\* An operation under way.
LEMMA TickRun ==
  ASSUME IInv, RInv, NEW i \in Svc, ctl_tick(i)
  PROVE  RInv' /\ OrderKept
  <1> DEFINE d == Done(run[i])
  <1>1. /\ ~shutting_down /\ i \in live /\ run[i].op # "none" /\ UNCHANGED loopVars
        /\ scan' = scan /\ shutting_down' = shutting_down
    BY DEF ctl_tick, tick_stopped, tick_kill, tick_unkillable, tick_started, Tick, loopVars
  <1>2. /\ run[i] \in Run /\ run \in [Svc -> Run] /\ n_ops \in Int /\ want \in [Svc -> BOOLEAN]
        /\ Fit(i, run[i], state[i], want[i], i \in live, shutting_down)
        /\ i \in Restart \cap Unheld => Back(i)
    BY HasNow DEF IInv, TypeOK
  <1>3. Type[i] # "target" /\ (run[i].op # "start" => i \notin Restart \cap Unheld)
    BY <1>1, <1>2 DEF Fit, Back
  <1>4. /\ (d.out <=> run[i].out) /\ d.ntf = run[i].ntf /\ d.op = "none"
        /\ (d.pid <=> run[i].pid) /\ (d.stale <=> run[i].stale)
        /\ (d.starting <=> run[i].starting) /\ (d.restart <=> run[i].restart)
    BY <1>2, DoneFields
  <1> HIDE DEF d
  <1>5. ASSUME tick_done(i)
        PROVE  /\ run' = [run EXCEPT ![i] = d] /\ n_ops' = n_ops - 1 /\ want' = want
               /\ \A k \in Svc \ {i} : k \in live' <=> k \in live
               /\ i \in live' <=> ~Idle(d)
               /\ Fit(i, d, state[i], want[i], i \in live', shutting_down)
               /\ n_ops' = n_ops - one(run[i].op # "none") + one(d.op # "none")
    <2>1. /\ run' = [run EXCEPT ![i] = d] /\ n_ops' = n_ops - 1 /\ want' = want
          /\ live' = maybe_free(live, i, d)
      BY <1>5 DEF tick_done, Freed, d
    <2>2. /\ \A k \in Svc \ {i} : k \in live' <=> k \in live
          /\ i \in live' <=> ~Idle(d)
      BY <1>1, <2>1, FreeFacts
    <2>3. Fit(i, d, state[i], want[i], i \in live', shutting_down)
      BY <1>1, <1>2, <1>4, <2>2 DEF Fit
    <2>4. n_ops' = n_ops - one(run[i].op # "none") + one(d.op # "none")
      BY <1>1, <1>2, <1>4, <2>1 DEF one
    <2> QED  BY <2>1, <2>2, <2>3, <2>4
  <1>6. CASE tick_stopped(i) /\ run[i].again
    <2>1. svc_op_start(i, live, TRUE) /\ run[i].op # "start"
      BY <1>6 DEF tick_stopped
    <2>2. /\ Frame(i) /\ StateCount' /\ DepShape(i, unmet) /\ OpMoves(i)
          /\ Fit(i, run'[i], state'[i], want'[i], i \in live', shutting_down')
          /\ \A k \in Svc \ {i} : want'[k] = want[k]
      BY <1>1, <1>3, <2>1, OpStartRun
    <2> QED  BY <1>1, <1>3, <2>1, <2>2, AssembleNow
  <1>7. CASE tick_stopped(i) /\ ~run[i].again
    <2>1. /\ go_down(i, unmet) /\ tick_done(i) /\ run[i].op # "start"
          /\ UNCHANGED <<state, n_active, n_done, n_pending>>
      BY <1>7 DEF tick_stopped
    <2>2. /\ run' = [run EXCEPT ![i] = d] /\ want' = want
          /\ \A k \in Svc \ {i} : k \in live' <=> k \in live
          /\ Fit(i, d, state[i], want[i], i \in live', shutting_down)
          /\ n_ops' = n_ops - one(run[i].op # "none") + one(d.op # "none")
      BY <1>5, <2>1
    <2>3. \A k \in Svc \ {i} : want'[k] = want[k]
      BY <2>2
    <2>4. Frame(i) /\ StateCount' /\ run'[i] = d
      BY <1>1, <2>1, <2>2, <2>3, PlainRun
    <2>5. Fit(i, run'[i], state'[i], want'[i], i \in live', shutting_down')
      BY <1>1, <2>1, <2>2, <2>4
    <2>6. DepShape(i, unmet) /\ OpMoves(i)
      BY <1>3, <2>1, <2>2, <2>4 DEF DepShape, OpMoves
    <2> QED  BY <1>1, <1>3, <2>1, <2>3, <2>4, <2>5, <2>6, AssembleNow
  <1>8. CASE tick_kill(i)
    <2> DEFINE r == [run[i] EXCEPT !.op = "kill"]
    <2>1. /\ run' = [run EXCEPT ![i] = r] /\ live' = live /\ want' = want /\ n_ops' = n_ops
          /\ UNCHANGED <<state, up, released, unmet, n_active, n_done, n_pending, n_up>>
          /\ run[i].op = "term"
      BY <1>8 DEF tick_kill, depVars
    <2>2. /\ r.op = "kill" /\ (r.pid <=> run[i].pid) /\ (r.stale <=> run[i].stale)
          /\ (r.restart <=> run[i].restart) /\ (r.starting <=> run[i].starting)
          /\ r.ntf = run[i].ntf /\ (r.out <=> run[i].out)
      BY <1>2 DEF Run
    <2> HIDE DEF r
    <2>3. Fit(i, r, state[i], want[i], i \in live', shutting_down)
      BY <1>1, <1>2, <1>3, <2>1, <2>2 DEF Fit
    <2>4. n_ops' = n_ops - one(run[i].op # "none") + one(r.op # "none")
      BY <1>2, <2>1, <2>2 DEF one
    <2> QED  BY <1>1, <1>3, <2>1, <2>3, <2>4, StillKept
  <1>9. CASE tick_unkillable(i) \/ tick_started(i)
    <2>1. /\ tick_done(i)
          /\ UNCHANGED <<state, up, released, unmet, n_active, n_done, n_pending, n_up>>
      BY <1>9 DEF tick_unkillable, tick_started, depVars
    <2>2. /\ run' = [run EXCEPT ![i] = d] /\ want' = want
          /\ \A k \in Svc \ {i} : k \in live' <=> k \in live
          /\ Fit(i, d, state[i], want[i], i \in live', shutting_down)
          /\ n_ops' = n_ops - one(run[i].op # "none") + one(d.op # "none")
      BY <1>5, <2>1
    <2>3. run'[i] = d
      BY <1>2, <2>2
    <2>4. i \in Restart \cap Unheld => Back(i)'
      BY <1>1, <1>2, <1>4, <2>1, <2>2, <2>3 DEF Back
    <2> QED  BY <1>1, <2>1, <2>2, <2>4, StillKept
  <1> QED  BY <1>6, <1>7, <1>8, <1>9 DEF ctl_tick

\* ninitctl resume: what failed or was skipped is pending again, and nothing else changes.
LEMMA ResumeRun ==
  ASSUME IInv, RInv, ctl_resume
  PROVE  RInv' /\ OrderKept
  <1> DEFINE reset == {i \in Svc : state[i] \in {"failed", "skipped"}}
             fresh(r) == [r EXCEPT !.attempt = 0]
  <1>1. /\ state' = [i \in Svc |-> IF i \in reset THEN "pending" ELSE state[i]]
        /\ run' = [i \in Svc |-> IF i \in reset THEN fresh(run[i]) ELSE run[i]]
        /\ n_pending' = n_pending + Cardinality(reset) /\ scan = {}
        /\ UNCHANGED <<up, released, unmet, n_active, n_done, n_up, want, live, n_ops,
                       shutting_down>>
    BY DEF ctl_resume, Settled
  <1>2. run \in [Svc -> Run]
    BY DEF IInv, TypeOK
  <1>3. ASSUME NEW r \in Run
        PROVE  /\ (fresh(r).out <=> r.out) /\ fresh(r).ntf = r.ntf /\ fresh(r).op = r.op
               /\ (fresh(r).pid <=> r.pid) /\ (fresh(r).stale <=> r.stale)
               /\ (fresh(r).restart <=> r.restart) /\ (fresh(r).starting <=> r.starting)
    BY DEF Run
  <1>4. \A k \in reset : state[k] \in {"failed", "skipped"}
    OBVIOUS
  <1>5. reset \subseteq Svc
    OBVIOUS
  <1> HIDE DEF fresh
  <1>6. ASSUME NEW k \in Svc
        PROVE  /\ (run'[k].out <=> run[k].out) /\ run'[k].ntf = run[k].ntf
               /\ run'[k].op = run[k].op
               /\ (run'[k].pid <=> run[k].pid) /\ (run'[k].stale <=> run[k].stale)
               /\ (run'[k].restart <=> run[k].restart) /\ (run'[k].starting <=> run[k].starting)
               /\ state'[k] = state[k] \/ (k \in reset /\ state'[k] = "pending")
    <2> HIDE DEF reset
    <2>1. run[k] \in Run
      BY <1>2
    <2>2. CASE k \in reset
      BY <1>1, <1>3, <2>1, <2>2
    <2>3. CASE k \notin reset
      BY <1>1, <2>3
    <2> QED  BY <2>2, <2>3
  <1>7. AllFit'
    <2>1. ASSUME NEW k \in Svc
          PROVE  Fit(k, run'[k], state'[k], want'[k], k \in live', shutting_down')
      <3>1. Fit(k, run[k], state[k], want[k], k \in live, shutting_down)
        BY DEF RInv, AllFit
      <3>2. want'[k] = want[k] /\ (k \in live' <=> k \in live) /\ shutting_down' = shutting_down
        BY <1>1
      <3>3. Idle(run[k]) <=> Idle(run'[k])
        BY <1>6 DEF Idle
      <3> QED  BY <1>4, <1>6, <3>1, <3>2, <3>3 DEF Fit
    <2> QED  BY <2>1 DEF AllFit
  <1>8. AllFollow'
    BY <1>1 DEF RInv, AllFollow, Follows
  <1>9. AllBack'
    <2>1. ASSUME NEW k \in Restart \cap Unheld
          PROVE  Back(k)'
      <3>1. Back(k) /\ k \in Svc
        BY DEF RInv, AllBack, Unheld
      <3>2. want'[k] = want[k] /\ shutting_down' = shutting_down /\ up'[k] = up[k] /\ unmet'[k] = unmet[k]
        BY <1>1
      <3> QED  BY <1>4, <1>6, <3>1, <3>2 DEF Back
    <2> QED  BY <2>1 DEF AllBack
  <1>10. StateCount'
    <2> DEFINE A == {k \in Svc : state[k] = "pending"}
    <2>1. /\ {k \in Svc : state'[k] = "running"} = {k \in Svc : state[k] = "running"}
          /\ {k \in Svc : state'[k] = "done"} = {k \in Svc : state[k] = "done"}
          /\ {k \in Svc : state'[k] = "pending"} = A \cup reset
      BY <1>1
    <2>2. A \subseteq Svc /\ A \cap reset = {}
      OBVIOUS
    <2>3. n_pending = Cardinality(A)
      BY DEF RInv, StateCount
    <2> HIDE DEF A, reset
    <2>4. Cardinality(A \cup reset) = Cardinality(A) + Cardinality(reset)
      BY <1>5, <2>2, SplitCount
    <2>5. n_pending' = Cardinality({k \in Svc : state'[k] = "pending"})
      BY <1>1, <2>1, <2>3, <2>4
    <2> QED  BY <1>1, <2>1, <2>5 DEF RInv, StateCount
  <1>11. UpCount'
    BY <1>1 DEF RInv, UpCount
  <1>12. OpCount'
    <2>1. {k \in Svc : run'[k].op # "none"} = {k \in Svc : run[k].op # "none"}
      BY <1>6
    <2> QED  BY <1>1, <2>1 DEF RInv, OpCount
  <1>13. OrderKept
    BY <1>1 DEF OrderKept
  <1> QED  BY <1>7, <1>8, <1>9, <1>10, <1>11, <1>12, <1>13 DEF RInv

\* Boot is over, or shutdown begins.
LEMMA SystemRun ==
  ASSUME IInv, RInv, check_boot_done \/ shutdown_system
  PROVE  RInv' /\ OrderKept
  <1>1. /\ UNCHANGED <<state, up, released, unmet, n_active, n_done, n_pending, n_up, want, run,
                       live, n_ops, scan>>
        /\ shutting_down => shutting_down'
    BY DEF check_boot_done, shutdown_system, depVars
  <1>2. AllFit'
    <2>1. ASSUME NEW k \in Svc
          PROVE  Fit(k, run'[k], state'[k], want'[k], k \in live', shutting_down')
      <3>1. Fit(k, run[k], state[k], want[k], k \in live, shutting_down)
        BY DEF RInv, AllFit
      <3>2. Fit(k, run[k], state[k], want[k], k \in live, shutting_down')
        BY <1>1, <3>1 DEF Fit
      <3> QED  BY <1>1, <3>2
    <2> QED  BY <2>1 DEF AllFit
  <1>3. AllFollow' /\ AllBack'
    BY <1>1 DEF RInv, AllFollow, Follows, AllBack, Back
  <1>4. StateCount' /\ UpCount' /\ OpCount' /\ OrderKept
    BY <1>1 DEF RInv, StateCount, UpCount, OpCount, OrderKept
  <1> QED  BY <1>2, <1>3, <1>4 DEF RInv

-----------------------------------------------------------------------------
(* The theorems. *)

\* The invariant holds when start_graph() begins.
LEMMA InitRInv == Init => RInv
  <1> SUFFICES ASSUME Init PROVE RInv
    OBVIOUS
  <1>1. ASSUME NEW k \in Svc
        PROVE  /\ state[k] = "pending" /\ ~up[k] /\ ~want[k] /\ ~released[k]
               /\ ~run[k].pid /\ ~run[k].stale /\ ~run[k].restart /\ ~run[k].starting
               /\ ~run[k].out /\ run[k].ntf = "none" /\ run[k].op = "none"
    BY DEF Init
  <1>2. AllFit
    BY <1>1 DEF AllFit, Fit, Idle
  <1>3. AllFollow
    <2>1. ASSUME NEW t \in Svc, unmet[t] = 0
          PROVE  t \in scan /\ Prereqs(t) = {}
      <3>1. unmet[t] = Cardinality(Prereqs(t)) /\ scan = Roots
        BY DEF Init
      <3>2. IsFiniteSet(Prereqs(t))
        BY PrereqsIn, SubFinite
      <3>3. Prereqs(t) = {}
        BY <2>1, <3>1, <3>2, FS_EmptySet
      <3> QED  BY <3>1, <3>3 DEF Roots
    <2> QED  BY <1>1, <2>1 DEF AllFollow, Follows
  <1>4. AllBack
    <2>1. Unheld \subseteq Svc
      BY DEF Unheld
    <2> QED  BY <1>1, <2>1 DEF AllBack, Back
  <1>5. /\ {k \in Svc : state[k] = "running"} = {}
        /\ {k \in Svc : state[k] = "done"} = {}
        /\ {k \in Svc : state[k] = "pending"} = Svc
        /\ {k \in Svc : up[k]} = {}
        /\ {k \in Svc : run[k].op # "none"} = {}
    BY <1>1
  <1>6. Cardinality({}) = 0
    BY FS_EmptySet
  <1>7. Cardinality(Svc) = N
    BY GraphFacts, FS_Interval DEF Svc
  <1>8. n_active = 0 /\ n_done = 0 /\ n_pending = N /\ n_up = 0 /\ n_ops = 0
    BY DEF Init
  <1>9. StateCount /\ UpCount /\ OpCount
    BY <1>5, <1>6, <1>7, <1>8 DEF StateCount, UpCount, OpCount
  <1> QED  BY <1>2, <1>3, <1>4, <1>9 DEF RInv

\* Every step keeps it, and takes back nothing that deps: order lets go.
LEMMA NextRInv == IInv /\ RInv /\ Next => RInv' /\ OrderKept
  <1> SUFFICES ASSUME IInv, RInv, Next PROVE RInv' /\ OrderKept
    OBVIOUS
  <1>1. ASSUME NEW i \in Svc, svc_release(i) PROVE RInv' /\ OrderKept
    BY <1>1, ReleaseRun
  <1>2. ASSUME NEW i \in Svc, visit(i) PROVE RInv' /\ OrderKept
    BY <1>2, VisitRun
  <1>3. ASSUME NEW i \in Svc,
               Report(i) \/ LeftoversGone(i) \/ drain_ready(i) \/ drain_closed(i) \/ drain_out(i)
        PROVE  RInv' /\ OrderKept
    BY <1>3, PipeRun
  <1>4. ASSUME NEW i \in Svc, NEW e \in BOOLEAN, child_exited(i, e) PROVE RInv' /\ OrderKept
    BY <1>4, ExitRun
  <1>5. ASSUME NEW i \in Svc, NEW e \in BOOLEAN, stale_reaped(i, e) PROVE RInv' /\ OrderKept
    BY <1>5, StaleRun
  <1>6. ASSUME NEW i \in Svc, fire_restart(i) PROVE RInv' /\ OrderKept
    BY <1>6, FireRun
  <1>7. ASSUME NEW i \in Svc, check_timeouts(i) PROVE RInv' /\ OrderKept
    BY <1>7, TimeoutRun
  <1>8. ASSUME NEW i \in Svc, ctl_cmd(i) PROVE RInv' /\ OrderKept
    BY <1>8, CommandRun
  <1>9. ASSUME NEW i \in Svc, ctl_tick(i) PROVE RInv' /\ OrderKept
    BY <1>9, TickRun
  <1>10. CASE ctl_resume
    BY <1>10, ResumeRun
  <1>11. CASE check_boot_done \/ shutdown_system
    BY <1>11, SystemRun
  <1> QED  BY <1>1, <1>2, <1>3, <1>4, <1>5, <1>6, <1>7, <1>8, <1>9, <1>10, <1>11 DEF Next

\* A step of the specification keeps it.
LEMMA StepRInv == IInv /\ RInv /\ [Next]_vars => RInv'
  <1>1. ASSUME RInv, UNCHANGED vars PROVE RInv'
    <2>1. /\ UNCHANGED <<state, up, released, unmet, n_active, n_done, n_pending, n_up, want, run,
                         live, n_ops, scan, shutting_down>>
      BY <1>1 DEF vars, depVars, loopVars
    <2> QED  BY <1>1, <2>1 DEF RInv, AllFit, Fit, AllFollow, Follows, AllBack, Back,
                               StateCount, UpCount, OpCount
  <1> QED  BY <1>1, NextRInv

\* The invariant holds in every state the supervisor reaches.
LEMMA AlwaysRInv == Spec => []RInv
  BY InitRInv, StepRInv, AlwaysIInv, PTL DEF Spec

\* The counters that svc_mark_done(), spawn(), poison() and svc_op_set() move by one or by
\* as many as they skip never drift from what they count: boot ends when nothing is
\* starting, and ctl_tick() runs while an operation is under way.
THEOREM CountersExact == Spec => []CountersMatch
  <1>1. RInv => CountersMatch
    BY DEF RInv, StateCount, UpCount, OpCount, CountersMatch
  <1> QED  BY <1>1, AlwaysRInv, PTL

\* svc_abandon() never overwrites the pid of a process still to be reaped.
THEOREM NoSecondInstance == Spec => []OneInstance
  <1>1. RInv => OneInstance
    BY DEF RInv, AllFit, Fit, OneInstance
  <1> QED  BY <1>1, AlwaysRInv, PTL

\* maybe_free() drops no service that poll(), a timer, a deadline or an operation is still
\* for, and every handler that gives a service such a thing has put it into the list.
THEOREM LiveIsComplete == Spec => []LiveCovers
  <1>1. RInv => LiveCovers
    BY DEF RInv, AllFit, Fit, LiveCovers
  <1> QED  BY <1>1, AlwaysRInv, PTL

\* No process and no timer that may fire belongs to a service that is pending, failed or
\* skipped, so fire_restart() launches nothing behind the back of the states.
THEOREM ActiveStates == Spec => []ActiveHasState
  <1>1. RInv => ActiveHasState
    BY DEF RInv, AllFit, Fit, ActiveHasState
  <1> QED  BY <1>1, AlwaysRInv, PTL

\* svc_release() and svc_reclaim() bring every target up with the last of its
\* prerequisites and down with the first, however releases, failures and resumes mix.
THEOREM TargetsFollow == Spec => []TargetFollows
  <1>1. RInv => TargetFollows
    BY DEF RInv, AllFollow, Follows, TargetFollows, Settled
  <1> QED  BY <1>1, AlwaysRInv, PTL

\* A daemon with restart: always that nobody holds is never down for good: whatever
\* fire_restart() drops for want of a prerequisite svc_release() arms again.
THEOREM NoRestartForgotten == Spec => []RestartNotForgotten
  <1>1. RInv => RestartNotForgotten
    BY DEF RInv, AllBack, Back, RestartNotForgotten
  <1> QED  BY <1>1, AlwaysRInv, PTL

\* deps: order releases dependents once and for all, through every path into go_down().
THEOREM OrderReleasesForGood == Spec => OrderIsForGood
  <1>1. IInv /\ RInv /\ [Next]_vars => [\A p \in OrderOnly : released[p] => released'[p]]_vars
    BY NextRInv DEF OrderKept
  <1> QED  BY <1>1, AlwaysIInv, AlwaysRInv, PTL DEF Spec, OrderIsForGood
=============================================================================
