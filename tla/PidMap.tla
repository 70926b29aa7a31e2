-------------------------------- MODULE PidMap --------------------------------
(***************************************************************************)
(* pidmap.c and its callers: how ninit finds the service of a process it   *)
(* has reaped.  The pids of the services, running and abandoned, are kept  *)
(* in a hash table with linear probing, whose deletion moves entries back; *)
(* without memory for it find_pid() walks the live list, which live_del()  *)
(* keeps dense by moving its last entry.                                   *)
(*                                                                         *)
(* The operations are those of the callers: launch(), svc_abandon(),       *)
(* reap(), and whatever adds a service to the live list or frees it.  The  *)
(* deletion loop is taken one round at a time.                             *)
(***************************************************************************)
EXTENDS Integers, FiniteSets

CONSTANTS
  Svc,    \* the services
  Pid,    \* the numbers the kernel gives to children; used again once reaped
  None,   \* no pid; no service
  Size    \* pid_mask + 1

N == Cardinality(Svc)   \* n_svc
Slot == 0..(Size - 1)

\* start_graph() makes the table at least four times as large as the services.
ASSUME TableAssumption ==
  /\ IsFiniteSet(Svc) /\ Svc # {}
  /\ None \notin Svc \cup Pid
  /\ Size \in Nat /\ Size > N

VARIABLES
  hash,              \* pid_hash(): any function, and it never changes
  pid_key, pid_val,  \* the table
  pid, stale_pid,    \* of struct run
  live, n_live,      \* the live list
  live_pos,          \* of struct run
  del                \* the loop of pid_del(): [on, i, j]

table == <<hash, pid_key, pid_val, del>>
list == <<live, n_live, live_pos>>
vars == <<table, list, pid, stale_pid>>

\* The types of the variables; n_live stays within the array.
TypeOK ==
  /\ hash \in [Pid -> Slot]
  /\ pid_key \in [Slot -> Pid \cup {None}]
  /\ pid_val \in [Slot -> Svc \cup {None}]
  /\ pid \in [Svc -> Pid \cup {None}]
  /\ stale_pid \in [Svc -> Pid \cup {None}]
  /\ live \in [0..(N - 1) -> Svc \cup {None}]
  /\ n_live \in 0..N
  /\ live_pos \in [Svc -> 0..(N - 1)]
  /\ del \in [on : BOOLEAN, i : Slot, j : Slot]

Init ==
  /\ hash \in [Pid -> Slot]
  /\ pid_key = [s \in Slot |-> None]
  /\ pid_val = [s \in Slot |-> None]
  /\ pid = [i \in Svc |-> None]
  /\ stale_pid = [i \in Svc |-> None]
  /\ live = [k \in 0..(N - 1) |-> None]
  /\ n_live = 0
  /\ live_pos = [i \in Svc |-> 0]
  /\ del = [on |-> FALSE, i |-> 0, j |-> 0]

-----------------------------------------------------------------------------
(* pidmap.c *)

\* The slot at which the probing for p stops: p's own, or the first empty one.
Probe(p) ==
  LET At(k) == (hash[p] + k) % Size
      n == CHOOSE k \in Slot : /\ pid_key[At(k)] \in {p, None}
                               /\ \A m \in 0..(k - 1) : pid_key[At(m)] \notin {p, None}
  IN  At(n)

pid_put(p, i) ==
  /\ pid_key' = [pid_key EXCEPT ![Probe(p)] = p]
  /\ pid_val' = [pid_val EXCEPT ![Probe(p)] = i]
  /\ UNCHANGED <<hash, del>>

\* pid_del() up to its loop: the entry is cleared, and i and j start there.  The
\* value of an empty slot is never read, and is forgotten here.
pid_del(p) ==
  LET s == Probe(p) IN
    /\ IF pid_key[s] = None
       THEN UNCHANGED <<pid_key, pid_val, del>>
       ELSE /\ pid_key' = [pid_key EXCEPT ![s] = None]
            /\ pid_val' = [pid_val EXCEPT ![s] = None]
            /\ del' = [on |-> TRUE, i |-> s, j |-> s]
    /\ UNCHANGED hash

\* Mutant of pid_del(): the wrap-around is not told apart.
MovesBack_straight(i, j, k) == k <= i \/ k > j

\* Whether the entry at j, which belongs at k, may move back to the hole at i.
MovesBack(i, j, k) == IF i <= j THEN k <= i \/ k > j ELSE k <= i /\ k > j

\* One round of the inner loop of pid_del(), and the move that ends it.
pid_del_loop ==
  LET j == (del.j + 1) % Size IN
    /\ del.on
    /\ CASE pid_key[j] = None ->
              /\ del' = [on |-> FALSE, i |-> 0, j |-> 0]
              /\ UNCHANGED <<pid_key, pid_val>>
         [] pid_key[j] # None /\ MovesBack(del.i, j, hash[pid_key[j]]) ->
              /\ pid_key' = [pid_key EXCEPT ![del.i] = pid_key[j], ![j] = None]
              /\ pid_val' = [pid_val EXCEPT ![del.i] = pid_val[j], ![j] = None]
              /\ del' = [del EXCEPT !.i = j, !.j = j]
         [] pid_key[j] # None /\ ~MovesBack(del.i, j, hash[pid_key[j]]) ->
              /\ del' = [del EXCEPT !.j = j]
              /\ UNCHANGED <<pid_key, pid_val>>
    /\ UNCHANGED <<hash, pid, stale_pid, list>>

live_has(i) == live_pos[i] < n_live /\ live[live_pos[i]] = i

live_add(i) ==
  /\ live_pos' = [live_pos EXCEPT ![i] = n_live]
  /\ live' = [live EXCEPT ![n_live] = i]
  /\ n_live' = n_live + 1

\* Mutant of live_del(): the service that is moved does not learn its place.
live_del_unmoved(i) ==
  /\ n_live' = n_live - 1
  /\ live' = [live EXCEPT ![live_pos[i]] = live[n_live - 1]]
  /\ UNCHANGED live_pos

live_del(i) ==
  LET last == live[n_live - 1] IN
    /\ n_live' = n_live - 1
    /\ live' = [live EXCEPT ![live_pos[i]] = last]
    /\ live_pos' = [live_pos EXCEPT ![last] = live_pos[i]]

Nobody == [svc |-> None, stale |-> FALSE]

\* find_pid() with the table.
find_pid(p) ==
  LET s == Probe(p) IN
    IF pid_key[s] = None THEN Nobody
    ELSE [svc |-> pid_val[s], stale |-> pid[pid_val[s]] # p]

\* find_pid() without it: the first service of the live list with that pid.
scan_pid(p) ==
  LET hits == {k \in 0..(n_live - 1) : p \in {pid[live[k]], stale_pid[live[k]]}}
      first == live[CHOOSE k \in hits : \A m \in hits : k <= m]
  IN  IF hits = {} THEN Nobody ELSE [svc |-> first, stale |-> pid[first] # p]

-----------------------------------------------------------------------------
(* The callers. *)

\* launch(), which svc_can_start() allowed, with a number no child of ninit's has.
launch(i, p) ==
  /\ ~del.on
  /\ pid[i] = None /\ stale_pid[i] = None
  /\ \A k \in Svc : p \notin {pid[k], stale_pid[k]}
  /\ pid' = [pid EXCEPT ![i] = p]
  /\ pid_put(p, i)
  /\ IF live_has(i) THEN UNCHANGED list ELSE live_add(i)
  /\ UNCHANGED stale_pid

\* svc_abandon() of a killed process, which is still to be reaped.
svc_abandon(i) ==
  /\ ~del.on
  /\ pid[i] # None
  /\ stale_pid' = [stale_pid EXCEPT ![i] = pid[i]]
  /\ pid' = [pid EXCEPT ![i] = None]
  /\ UNCHANGED <<table, list>>

\* reap() of child p: what find_pid() says decides whose exit it is.  A child of
\* nobody's is forgotten.
reap(p) ==
  LET f == find_pid(p) IN
    /\ ~del.on
    /\ f # Nobody
    /\ pid_del(p)
    /\ IF f.stale
       THEN /\ stale_pid' = [stale_pid EXCEPT ![f.svc] = IF @ = p THEN None ELSE @]
            /\ UNCHANGED pid
       ELSE /\ pid' = [pid EXCEPT ![f.svc] = None]
            /\ UNCHANGED stale_pid
    /\ UNCHANGED list

\* A service joins the live list without a process: a retry, a restart or an
\* operation of ninitctl.
join(i) ==
  /\ ~del.on
  /\ ~live_has(i)
  /\ live_add(i)
  /\ UNCHANGED <<table, pid, stale_pid>>

\* maybe_free(), and service_failed(): a service without a process leaves it.
leave(i) ==
  /\ ~del.on
  /\ live_has(i) /\ pid[i] = None /\ stale_pid[i] = None
  /\ live_del(i)
  /\ UNCHANGED <<table, pid, stale_pid>>

Next ==
  \/ \E i \in Svc : \/ \E p \in Pid : launch(i, p)
                    \/ svc_abandon(i) \/ join(i) \/ leave(i)
  \/ \E p \in Pid : reap(p)
  \/ pid_del_loop

Spec == Init /\ [][Next]_vars

-----------------------------------------------------------------------------
(* Properties. *)

\* The service that has p as its process or as the one it abandoned.
Owner(p) ==
  LET own == {i \in Svc : p \in {pid[i], stale_pid[i]}}
  IN  IF own = {} THEN Nobody
      ELSE LET i == CHOOSE k \in own : TRUE IN [svc |-> i, stale |-> pid[i] # p]

\* The table answers for every number, present or not: no entry is out of reach of its
\* probing after others were deleted, whatever the hashes, and none is left behind for
\* the kernel to use its number again.  The walk over the live list, used without the
\* table, gives the same answers: no service with a process has left the list.
FindsOwner ==
  \A p \in Pid :
    /\ ~del.on => find_pid(p) = Owner(p)
    /\ scan_pid(p) = Owner(p)

\* live_has() reads a place that may be out of date and still tells exactly who is in
\* the list, and nobody is in it twice.
LiveExact ==
  /\ \A i \in Svc : live_has(i) <=> \E k \in 0..(n_live - 1) : live[k] = i
  /\ \A k, m \in 0..(n_live - 1) : live[k] = live[m] => k = m

=============================================================================
