----------------------------- MODULE StopOrdered -----------------------------
(***************************************************************************)
(* shutdown_system() of stop.c: stop_ordered() stops the services from the *)
(* dependents to the prerequisites, then every process that is left gets   *)
(* SIGTERM, then SIGKILL, and the machine goes down.                       *)
(*                                                                         *)
(* Each pass of stop_ordered()'s loop is three steps: signals, the reaping *)
(* that settles what is gone, and the deadline.  Processes exit whenever   *)
(* they like; a service is alive until svc_gone() says otherwise, and the  *)
(* supervisor starts nothing once shutting_down is set (Supervisor.tla,    *)
(* StartsInOrder).  Time is left out: a deadline may pass at any moment.   *)
(***************************************************************************)
EXTENDS DepGraph

CONSTANT Stuck   \* the services with a process that outlives SIGKILL

ASSUME StuckAssumption == Stuck \subseteq Svc

VARIABLES
  alive,    \* the services that are not svc_gone()
  others,   \* processes of no service: orphans, the emergency shell
  st,       \* 0 untouched, 1 sent SIGTERM, 3 sent SIGKILL, 2 settled
  waitc,    \* dependents that are not settled
  left,     \* services that are not settled
  pc        \* where shutdown_system() is

vars == <<alive, others, st, waitc, left, pc>>

InOrder == {"signal", "reap", "check"}   \* inside the loop of stop_ordered()

\* The types of the variables; waitc and left are unsigned, and stay in range.
TypeOK ==
  /\ alive \in SUBSET Svc
  /\ others \in BOOLEAN
  /\ st \in [Svc -> 0..3]
  /\ waitc \in [Svc -> Nat]
  /\ left \in Nat
  /\ pc \in {"begin", "term", "kill", "sync", "down"} \cup InOrder

\* Any mix of services may have processes, but a target never has.
Init ==
  /\ alive \in SUBSET {i \in Svc : Type[i] # "target"}
  /\ others \in BOOLEAN
  /\ st = [i \in Svc |-> 0]
  /\ waitc = [i \in Svc |-> 0]
  /\ left = 0
  /\ pc = "begin"

-----------------------------------------------------------------------------

\* stop_ordered() up to its loop.
begin ==
  /\ pc = "begin" /\ alive # {}
  /\ waitc' = [i \in Svc |-> Cardinality(Rdep[i])]
  /\ left' = N
  /\ pc' = "signal"
  /\ UNCHANGED <<alive, others, st>>

\* Nothing runs, or there is no memory for the arrays: every process at once.
begin_at_once ==
  /\ pc = "begin"
  /\ pc' = "term"
  /\ UNCHANGED <<alive, others, st, waitc, left>>

\* Mutant of the first loop of a pass: dependents are not waited for.
Free_early(i) == st[i] # 2

\* The services whose turn it is: their dependents are all settled.
Free(i) == st[i] # 2 /\ waitc[i] = 0

\* The first loop of a pass.  K: the services whose stop-timeout has passed.
signal_loop(K) ==
  /\ pc = "signal"
  /\ K \subseteq {i \in Svc : Free(i) /\ st[i] = 1}
  /\ st' = [i \in Svc |-> IF Free(i) /\ st[i] = 0 /\ i \in alive THEN 1
                          ELSE IF i \in K THEN 3 ELSE st[i]]
  /\ pc' = "reap"
  /\ UNCHANGED <<alive, others, waitc, left>>

\* Mutants of the second loop: only what was signalled settles; a prerequisite's
\* count falls by one however many of its dependents settle in a pass.
Gone_signalled == {i \in Svc : Free(i) /\ st[i] # 0 /\ i \notin alive}

told_once(S) ==
  waitc' = [p \in Svc |-> IF Rdep[p] \cap S # {} /\ waitc[p] > 0 THEN waitc[p] - 1 ELSE waitc[p]]

\* What the second loop settles.  Dependents come after their prerequisites
\* (GraphAssumption) and the loop goes upwards, so a service whose last dependent
\* settles in a pass has had its turn in that pass and settles in a later one.
Gone == {i \in Svc : Free(i) /\ i \notin alive}

told(S) ==
  waitc' = [p \in Svc |-> LET n == Cardinality(Rdep[p] \cap S)
                          IN  IF waitc[p] > n THEN waitc[p] - n ELSE 0]

\* The second loop of a pass, after reap(); none left ends stop_ordered().
settle_loop ==
  /\ pc = "reap"
  /\ st' = [i \in Svc |-> IF i \in Gone THEN 2 ELSE st[i]]
  /\ told(Gone)
  /\ left' = left - Cardinality(Gone)
  /\ pc' = IF left' = 0 THEN "term" ELSE "check"
  /\ UNCHANGED <<alive, others>>

\* STOP_TOTAL_MS has passed: "did not stop in order".
deadline ==
  /\ pc = "check"
  /\ pc' = "term"
  /\ UNCHANGED <<alive, others, st, waitc, left>>

next_pass ==
  /\ pc = "check"
  /\ pc' = "signal"
  /\ UNCHANGED <<alive, others, st, waitc, left>>

userspace_left == alive # {} \/ others

\* kill(-1, SIGTERM) and wait_children(): the grace ends, or nothing is left.
term_waited ==
  /\ pc = "term"
  /\ pc' = IF userspace_left THEN "kill" ELSE "sync"
  /\ UNCHANGED <<alive, others, st, waitc, left>>

kill_waited ==
  /\ pc = "kill"
  /\ pc' = "sync"
  /\ UNCHANGED <<alive, others, st, waitc, left>>

\* Clock, swap, sockets, sync, remounts and reboot().
go_down ==
  /\ pc = "sync"
  /\ pc' = "down"
  /\ UNCHANGED <<alive, others, st, waitc, left>>

\* The last process of i exits.
Exit(i) ==
  /\ pc # "down" /\ i \in alive
  /\ alive' = alive \ {i}
  /\ UNCHANGED <<others, st, waitc, left, pc>>

OthersExit ==
  /\ pc # "down" /\ others
  /\ others' = FALSE
  /\ UNCHANGED <<alive, st, waitc, left, pc>>

shutdown_system ==
  \/ begin \/ begin_at_once
  \/ \E K \in SUBSET Svc : signal_loop(K)
  \/ settle_loop \/ deadline \/ next_pass
  \/ term_waited \/ kill_waited \/ go_down

Next == shutdown_system \/ (\E i \in Svc : Exit(i)) \/ OthersExit

Spec == Init /\ [][Next]_vars

\* Only processes that do not die of SIGKILL are left to wait for.
Hopeless ==
  \A i \in Svc : Free(i) => i \in alive /\ st[i] = 3 /\ i \in Stuck

\* The loop goes round, each stop-timeout passes, and SIGKILL takes effect except on
\* Stuck.  The overall deadline is only counted on when everything else is at an end:
\* less than the clock gives, so that stopping in order has to end by itself.
FairSpec ==
  /\ Spec
  /\ WF_vars(begin \/ begin_at_once) /\ WF_vars(\E K \in SUBSET Svc : signal_loop(K))
  /\ WF_vars(settle_loop) /\ WF_vars(next_pass)
  /\ WF_vars(term_waited) /\ WF_vars(kill_waited) /\ WF_vars(go_down)
  /\ SF_vars(Hopeless /\ deadline)
  /\ \A i \in Svc : /\ SF_vars(\E K \in SUBSET Svc : i \in K /\ signal_loop(K))
                    /\ i \notin Stuck => WF_vars(st[i] = 3 /\ Exit(i))

-----------------------------------------------------------------------------
(* Properties. *)

\* A service is signalled, and counts as settled, only when everything that needs it,
\* directly or through others, deps: order included, has no process any more.
DependentsFirst ==
  \A i \in Svc : st[i] # 0 => (Reach({i}, Rdep) \ {i}) \cap alive = {}

\* The counts that stop_ordered() decrements are exact: a count that drifts stops a
\* service under its dependents, or makes the whole shutdown wait for the deadline.
CountsExact ==
  pc \in InOrder =>
    /\ left = Cardinality({i \in Svc : st[i] # 2})
    /\ \A i \in Svc : waitc[i] = Cardinality({d \in Rdep[i] : st[d] # 2})

\* When the loop ends because nothing is left to settle, no service has a process.
DoneIsGone == [][pc = "reap" /\ pc' = "term" => alive = {}]_vars

\* The machine goes down, and does not need the overall deadline for it unless a
\* process outlives SIGKILL.
ShutdownEnds == <>(pc = "down")
=============================================================================
