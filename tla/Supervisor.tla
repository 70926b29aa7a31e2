----------------------------- MODULE Supervisor -----------------------------
(***************************************************************************)
(* The supervision core of ninit (state.c, reap.c, spawn.c, drain.c,       *)
(* command.c, and the parts of fail.c, signals.c and ninit.c that drive    *)
(* services): which services may start, which are up, what happens when a  *)
(* process exits, hangs or reports ready, and what ninitctl does to them.  *)
(*                                                                         *)
(* ninit is one thread around poll(), so a handler runs to its end before  *)
(* the next one: an action is a handler.  Three loops inside handlers are  *)
(* taken one iteration at a time, with every other action disabled until   *)
(* they are over: the release queue (pend), the boot and resume scans      *)
(* (scan).  Time is left out: an armed timer may fire at any moment.  A    *)
(* process and what it has done is seen when ninit sees it: an exit is     *)
(* the step that reaps it, an end of file the step that reads it.          *)
(***************************************************************************)
EXTENDS DepGraph

CONSTANTS
  CgOk,    \* cg_ok: services are contained by cgroups
  Flaky,   \* the services whose pipe2() or fork() may fail (bounds an instance)
  OpSvc,   \* the services ninitctl is used on (bounds an instance)
  Cmds     \* the requests made: "start", "stop", "restart", "resume", "shutdown"

ASSUME SupervisorAssumption ==
  /\ CgOk \in BOOLEAN
  /\ Flaky \subseteq Svc
  /\ OpSvc \subseteq Svc
  /\ Cmds \subseteq {"start", "stop", "restart", "resume", "shutdown"}

VARIABLES
  state,         \* NG_ST_*
  up,            \* ready, and not since exited or stopped
  want,          \* TRUE: held stopped by ninitctl
  unmet,         \* prerequisites not released
  released,      \* dependents have been let go
  pend,          \* how many queued releases each service has yet to be told of
  run,           \* struct run
  live,          \* the services the loop polls and ticks
  n_active, n_done, n_pending, n_up, n_ops,
  scan,          \* services the boot or resume loop has yet to visit
  shutting_down,
  booted         \* boot_ms >= 0

depVars == <<state, up, released, unmet, pend, n_active, n_done, n_pending, n_up>>
loopVars == <<scan, shutting_down, booted>>
vars == <<depVars, want, run, live, n_ops, loopVars>>

States == {"pending", "running", "done", "failed", "skipped"}
UINT8_MAX == 255

\* struct run.  Left out: timers' values and the restart burst (time), the kept
\* output (data), hup and timedout (they only word the report: a service whose
\* timedout is set has starting clear, and one whose hup is set has no notify
\* pipe left to read).
Run == [pid      : BOOLEAN,                      \* pid > 0
        stale    : BOOLEAN,                      \* stale_pid: killed, not yet reaped
        ntf      : {"none", "open", "report"},   \* ntf_fd; "report": ready, unread
        out      : BOOLEAN,                      \* out_fd >= 0
        starting : BOOLEAN,
        restart  : BOOLEAN,                      \* restart_at is armed
        hold     : BOOLEAN,                      \* stale_hold
        attempt  : 0..UINT8_MAX,
        op       : {"none", "term", "kill", "start"},
        again    : BOOLEAN,                      \* op_restart
        extra    : BOOLEAN]                      \* other processes in its cgroup

\* The types of the variables.  unmet is a uint16_t in the code: that a release never
\* takes it below zero is part of this.
TypeOK ==
  /\ state \in [Svc -> States]
  /\ up \in [Svc -> BOOLEAN]
  /\ want \in [Svc -> BOOLEAN]
  /\ unmet \in [Svc -> Nat]
  /\ released \in [Svc -> BOOLEAN]
  /\ pend \in [Svc -> Nat]
  /\ run \in [Svc -> Run]
  /\ live \in SUBSET Svc
  /\ n_active \in Int /\ n_done \in Int /\ n_pending \in Int
  /\ n_up \in Int /\ n_ops \in Int
  /\ scan \in SUBSET Svc
  /\ shutting_down \in BOOLEAN
  /\ booted \in BOOLEAN

one(b) == IF b THEN 1 ELSE 0

Init ==   \* start_graph() up to its loop over the roots
  /\ state = [i \in Svc |-> "pending"]
  /\ up = [i \in Svc |-> FALSE]
  /\ want = [i \in Svc |-> FALSE]
  /\ unmet = [i \in Svc |-> Cardinality(Prereqs(i))]
  /\ released = [i \in Svc |-> FALSE]
  /\ pend = [i \in Svc |-> 0]
  /\ run = [i \in Svc |-> [pid |-> FALSE, stale |-> FALSE, ntf |-> "none",
                           out |-> FALSE, starting |-> FALSE, restart |-> FALSE,
                           hold |-> FALSE, attempt |-> 0, op |-> "none",
                           again |-> FALSE, extra |-> FALSE]]
  /\ live = {}
  /\ n_active = 0 /\ n_done = 0 /\ n_pending = N /\ n_up = 0 /\ n_ops = 0
  /\ scan = Roots
  /\ shutting_down = FALSE
  /\ booted = FALSE

-----------------------------------------------------------------------------
(* The record of one run. *)

close_fds(r) == [r EXCEPT !.out = FALSE, !.ntf = "none"]

svc_abandon(r) ==
  IF r.pid THEN [r EXCEPT !.pid = FALSE, !.stale = TRUE, !.extra = FALSE] ELSE r

\* Whether maybe_free() drops the service from the live list.
Idle(r) ==
  ~r.pid /\ ~r.stale /\ ~r.out /\ r.ntf = "none" /\ ~r.restart /\ r.op = "none"

\* Mutants of maybe_free(): the pending restart, or the operation, is not looked at.
maybe_free_forgets_restart(lv, i, r) ==
  IF Idle([r EXCEPT !.restart = FALSE]) THEN lv \ {i} ELSE lv

maybe_free_forgets_op(lv, i, r) ==
  IF Idle([r EXCEPT !.op = "none"]) THEN lv \ {i} ELSE lv

maybe_free(lv, i, r) == IF Idle(r) THEN lv \ {i} ELSE lv

\* restart_schedule(): what is left is killed and abandoned, and the timer armed.
restart_schedule(r) ==
  [svc_abandon(close_fds(r)) EXCEPT !.restart = TRUE, !.hold = FALSE]

\* launch() once the child exists.  A daemon without notify has a pipe too, which
\* closes when the child executes.
launched(i, r) ==
  [r EXCEPT !.pid = TRUE, !.out = TRUE, !.starting = TRUE, !.extra = FALSE,
            !.ntf = IF Type[i] = "daemon" THEN "open" ELSE "none"]

svc_gone(i) == ~run[i].pid /\ ~run[i].stale /\ ~run[i].extra

\* Mutants of svc_can_start(): one of its early returns is missing.
svc_can_start_stale(i, um, held) ==
  ~shutting_down /\ ~held /\ ~run[i].pid /\ um = 0

svc_can_start_shutdown(i, um, held) ==
  ~held /\ ~run[i].pid /\ ~run[i].stale /\ um = 0

\* svc_can_start(), with the prerequisites counted in um and held as given.
svc_can_start(i, um, held) ==
  ~shutting_down /\ ~held /\ ~run[i].pid /\ ~run[i].stale /\ um = 0

-----------------------------------------------------------------------------
(* Dependencies: state.c and the spreading of failures in fail.c. *)

\* Mutants of svc_reclaim(): targets are not followed; deps: order is not looked at.
Reclaimed_itself(i) == IF released[i] /\ i \notin OrderOnly THEN {i} ELSE {}

Reclaimed_ordered(i) ==
  IF released[i]
  THEN Reach({i}, [j \in Svc |-> {d \in Rdep[j] : Type[d] = "target" /\ released[d]}])
  ELSE {}

\* svc_reclaim(): the released services that i takes back when it goes down,
\* itself and then targets, through released targets only.
Reclaimed(i) ==
  IF released[i] /\ i \notin OrderOnly
  THEN Reach({i}, [j \in Svc |-> {d \in Rdep[j] : /\ Type[d] = "target"
                                                  /\ released[d]
                                                  /\ d \notin OrderOnly}])
  ELSE {}

\* Mutants of go_down() and svc_reclaim(): the dependents' counts are not raised;
\* a target is taken back but stays up.
go_down_uncounted(i, um) ==
  LET R == Reclaimed(i) IN
    /\ up' = [k \in Svc |-> up[k] /\ k # i /\ k \notin R]
    /\ released' = [k \in Svc |-> released[k] /\ k \notin R]
    /\ unmet' = um
    /\ n_up' = n_up - Cardinality({k \in R \cup {i} : up[k]})

go_down_targets_up(i, um) ==
  LET R == Reclaimed(i) IN
    /\ up' = [up EXCEPT ![i] = FALSE]
    /\ released' = [k \in Svc |-> released[k] /\ k \notin R]
    /\ unmet' = [d \in Svc |-> um[d] + Cardinality(Prereqs(d) \cap R)]
    /\ n_up' = n_up - one(up[i])

\* go_down(), from the counts um.
go_down(i, um) ==
  LET R == Reclaimed(i) IN
    /\ up' = [k \in Svc |-> up[k] /\ k # i /\ k \notin R]
    /\ released' = [k \in Svc |-> released[k] /\ k \notin R]
    /\ unmet' = [d \in Svc |-> um[d] + Cardinality(Prereqs(d) \cap R)]
    /\ n_up' = n_up - Cardinality({k \in R \cup {i} : up[k]})

\* Whether a service's standing is kept or it goes down first.
standing(i, um, down) ==
  IF down THEN go_down(i, um)
          ELSE unmet' = um /\ UNCHANGED <<up, released, n_up>>

\* Mutant of svc_release(): a service released before is queued again.
complete_twice(i) ==
  /\ state' = [state EXCEPT ![i] = "done"]
  /\ n_active' = n_active - one(state[i] = "running")
  /\ n_pending' = n_pending - one(state[i] = "pending")
  /\ n_done' = n_done + one(state[i] # "done")
  /\ up' = [up EXCEPT ![i] = TRUE]
  /\ n_up' = n_up + one(~up[i])
  /\ released' = [released EXCEPT ![i] = TRUE]
  /\ pend' = [d \in Svc |-> pend[d] + one(d \in Rdep[i])]
  /\ UNCHANGED unmet

\* complete(): svc_mark_done(), svc_set_up() and the start of svc_release(),
\* whose queue Deliver empties.
complete(i) ==
  /\ state' = [state EXCEPT ![i] = "done"]
  /\ n_active' = n_active - one(state[i] = "running")
  /\ n_pending' = n_pending - one(state[i] = "pending")
  /\ n_done' = n_done + one(state[i] # "done")
  /\ up' = [up EXCEPT ![i] = TRUE]
  /\ n_up' = n_up + one(~up[i])
  /\ released' = [released EXCEPT ![i] = TRUE]
  /\ pend' = [d \in Svc |-> pend[d] + one(~released[i] /\ d \in Rdep[i])]
  /\ UNCHANGED unmet

\* Mutant of svc_mark_pending(): a service that was done stays counted as done.
svc_mark_pending_uncounted(i) ==
  /\ state' = [state EXCEPT ![i] = "pending"]
  /\ n_active' = n_active - one(state[i] = "running")
  /\ n_done' = n_done
  /\ n_pending' = n_pending + one(state[i] # "pending")

svc_mark_pending(i) ==
  /\ state' = [state EXCEPT ![i] = "pending"]
  /\ n_active' = n_active - one(state[i] = "running")
  /\ n_done' = n_done - one(state[i] = "done")
  /\ n_pending' = n_pending + one(state[i] # "pending")

\* poison_take(), read after the failed service went down.
poison_take(d) ==
  \/ state[d] = "pending"
  \/ state[d] = "running" /\ run[d].restart /\ ~run[d].pid
  \/ Type[d] = "target" /\ state[d] = "done" /\ ~up'[d]

Taken == [j \in Svc |-> {d \in Rdep[j] : poison_take(d)}]

\* poison_spread() once i's own dependents are taken: every failed or skipped
\* service after i passes it on, not only the ones i reaches.
poison_spread(i) ==
  Reach(Taken[i] \cup UNION {Taken[j] : j \in {k \in Svc : k > i /\ state[k] \in {"failed", "skipped"}}},
        Taken)

\* Mutant of skipped_note(): a skipped service keeps its retry.
skipped_note_retries(S, rn, lv) == run' = rn /\ live' = lv

\* skipped_note(): the skipped services S leave the counts, and a retry one of
\* them was waiting for is called off.  rn and lv are the runs and the live list
\* as the caller left them.
skipped_note(S, rn, lv) ==
  LET off == {d \in S \cap lv : rn[d].restart} IN
    /\ run' = [d \in Svc |->
                 IF d \in off THEN [rn[d] EXCEPT !.restart = FALSE, !.hold = FALSE]
                              ELSE rn[d]]
    /\ live' = lv \ {d \in off : Idle(run'[d])}

\* poison(): i has failed for good.  Its state is "running" in every direct call;
\* from spawn() it may still be what it was before the attempt.
poison(i, um, rn, lv) ==
  /\ go_down(i, um)
  /\ LET S == poison_spread(i) IN
       /\ state' = [k \in Svc |-> IF k = i THEN "failed"
                                  ELSE IF k \in S THEN "skipped" ELSE state[k]]
       /\ n_active' = n_active - Cardinality({k \in S \cup {i} : state[k] = "running"})
       /\ n_pending' = n_pending - Cardinality({k \in S \cup {i} : state[k] = "pending"})
       /\ n_done' = n_done - Cardinality({k \in S \cup {i} : state[k] = "done"})
       /\ skipped_note(S, rn, lv)

\* go_down() and poison_deps(): i, which had completed, is gone for good.
poison_deps(i, rn, lv) ==
  /\ go_down(i, unmet)
  /\ LET S == IF i \in OrderOnly \/ Taken[i] = {} THEN {} ELSE poison_spread(i) IN
       /\ state' = [k \in Svc |-> IF k \in S THEN "skipped" ELSE state[k]]
       /\ n_active' = n_active - Cardinality({k \in S : state[k] = "running"})
       /\ n_pending' = n_pending - Cardinality({k \in S : state[k] = "pending"})
       /\ n_done' = n_done - Cardinality({k \in S : state[k] = "done"})
       /\ skipped_note(S, rn, lv)

-----------------------------------------------------------------------------
(* Starting: spawn.c and the failures of reap.c. *)

\* Mutant of spawn(): a retry is counted as one more service that is starting.
set_running_recounts(i) ==
  /\ state' = [state EXCEPT ![i] = "running"]
  /\ n_active' = n_active + 1
  /\ n_pending' = n_pending - one(state[i] = "pending")
  /\ n_done' = n_done - one(state[i] = "done")

\* spawn()'s change of state, after svc_mark_pending() where ninitctl starts it.
set_running(i) ==
  /\ state' = [state EXCEPT ![i] = "running"]
  /\ n_active' = n_active + one(state[i] # "running")
  /\ n_pending' = n_pending - one(state[i] = "pending")
  /\ n_done' = n_done - one(state[i] = "done")

\* service_failed(): a start attempt of i, whose run was r, came to nothing.  lv and
\* um are the live list and the counts at that point; down: it went down before.
\* A queued release is none of its business: the caller says what becomes of pend.
service_failed(i, r, lv, um, down) ==
  LET f == [svc_abandon(close_fds(r)) EXCEPT
              !.starting = FALSE,
              !.attempt = IF r.attempt < UINT8_MAX THEN @ + 1 ELSE @]
      retry == f.attempt < Tries[i]
  IN  \/ /\ retry
         /\ run' = [run EXCEPT ![i] = [f EXCEPT !.restart = TRUE, !.hold = f.stale]]
         /\ live' = lv \cup {i}
         /\ set_running(i)
         /\ standing(i, um, down)
      \/ /\ ~retry
         /\ poison(i, um, [run EXCEPT ![i] = f],
                   IF f.stale \/ f.op # "none" THEN lv ELSE lv \ {i})

\* spawn(): i is started from the run r.
spawn(i, r, lv, um, down) ==
  \/ /\ run' = [run EXCEPT ![i] = launched(i, r)]
     /\ live' = lv \cup {i}
     /\ set_running(i)
     /\ standing(i, um, down)
  \/ /\ i \in Flaky
     /\ service_failed(i, r, lv, um, down)

-----------------------------------------------------------------------------
(* The loops inside handlers. *)

Draining == \E d \in Svc : pend[d] > 0

\* Between two handlers: every other action waits for this.
Settled == ~Draining /\ scan = {}

\* One release for d in svc_release()'s loop.  The queue is kept as a count per
\* dependent, so what holds here holds for every order the queue can have.
Told(d) == [pend EXCEPT ![d] = @ - 1]
Met(d) == [unmet EXCEPT ![d] = @ - 1]
Last(d) == unmet[d] = 1 /\ ~want[d]
Opens(d) == Last(d) /\ Type[d] = "target" /\ ~released[d]
Starts(d) == /\ Last(d) /\ Type[d] # "target" /\ state[d] = "pending"
             /\ svc_can_start(d, 0, want[d])
\* Mutant of svc_release(): a daemon that waits to be restarted is not told.
Rearms_never(d) == FALSE /\ Last(d)

Rearms(d) == Last(d) /\ Type[d] # "target" /\ state[d] = "done" /\ ~up[d] /\ d \in Restart

deliver(d) ==
  /\ pend[d] > 0
  /\ UNCHANGED <<want, n_ops, loopVars>>

DeliverTarget(d) ==
  /\ deliver(d) /\ Opens(d)
  /\ state' = [state EXCEPT ![d] = "done"]
  /\ n_active' = n_active - one(state[d] = "running")
  /\ n_pending' = n_pending - one(state[d] = "pending")
  /\ n_done' = n_done + one(state[d] # "done")
  /\ up' = [up EXCEPT ![d] = TRUE]
  /\ n_up' = n_up + one(~up[d])
  /\ released' = [released EXCEPT ![d] = TRUE]
  /\ unmet' = Met(d)
  /\ pend' = [k \in Svc |-> Told(d)[k] + one(k \in Rdep[d])]
  /\ UNCHANGED <<run, live>>

DeliverStart(d) ==
  /\ deliver(d) /\ Starts(d)
  /\ pend' = Told(d)
  /\ spawn(d, run[d], live, Met(d), FALSE)

DeliverRestart(d) ==
  /\ deliver(d) /\ Rearms(d)
  /\ unmet' = Met(d) /\ pend' = Told(d)
  /\ run' = [run EXCEPT ![d].restart = TRUE]
  /\ live' = live \cup {d}
  /\ UNCHANGED <<state, up, released, n_active, n_done, n_pending, n_up>>

DeliverQuiet(d) ==
  /\ deliver(d) /\ ~Opens(d) /\ ~Starts(d) /\ ~Rearms(d)
  /\ unmet' = Met(d) /\ pend' = Told(d)
  /\ UNCHANGED <<state, up, released, n_active, n_done, n_pending, n_up, run, live>>

\* The loop over the roots in start_graph(), and the second loop of ctl_resume():
\* services in index order, each pending one started if it can.
Visiting(i) ==
  /\ ~Draining
  /\ i \in scan /\ \A k \in scan : i <= k
  /\ scan' = scan \ {i}
  /\ UNCHANGED <<want, n_ops, shutting_down, booted>>

Completes(i) == state[i] = "pending" /\ Type[i] = "target" /\ unmet[i] = 0 /\ ~want[i]
Launches(i) == /\ state[i] = "pending" /\ Type[i] # "target"
               /\ svc_can_start(i, unmet[i], want[i])

VisitTarget(i) ==
  Visiting(i) /\ Completes(i) /\ complete(i) /\ UNCHANGED <<run, live>>

VisitStart(i) ==
  /\ Visiting(i) /\ Launches(i)
  /\ spawn(i, run[i], live, unmet, FALSE)
  /\ UNCHANGED pend

VisitQuiet(i) ==
  /\ Visiting(i) /\ ~Completes(i) /\ ~Launches(i)
  /\ UNCHANGED <<depVars, run, live>>

-----------------------------------------------------------------------------
(* What a process does, as far as ninit can see it later. *)

\* A newline on the notify pipe, or the exec that closes the pipe of a daemon
\* without notify.  ninit has not read it yet.
Report(i) ==
  /\ Settled
  /\ run[i].pid /\ run[i].starting /\ run[i].ntf = "open"
  /\ run' = [run EXCEPT ![i].ntf = "report"]
  /\ UNCHANGED <<depVars, want, live, n_ops, loopVars>>

\* The processes a reaped main process left in its cgroup are gone.
LeftoversGone(i) ==
  /\ Settled
  /\ run[i].extra
  /\ run' = [run EXCEPT ![i].extra = FALSE]
  /\ UNCHANGED <<depVars, want, live, n_ops, loopVars>>

-----------------------------------------------------------------------------
(* drain.c *)

\* drain_notify() reads a newline, or drain_exec() the end of file of an exec.
\* During shutdown only child_exited() reads, and only notify pipes.
drain_ready(i) ==
  /\ Settled
  /\ run[i].ntf = "report"
  /\ shutting_down => i \in Notify
  /\ run' = [run EXCEPT ![i].starting = FALSE,
                        ![i].ntf = IF i \in Notify THEN "open" ELSE "none"]
  /\ IF run[i].starting /\ state[i] \in {"running", "done"} THEN complete(i)
                                                            ELSE UNCHANGED depVars
  /\ UNCHANGED <<want, live, n_ops, loopVars>>

\* The other ends of those pipes: a notify pipe closed before a newline, which
\* kills the service, or after one; the byte of a failed exec.  All that changes
\* here is that the pipe is gone: the process is still to be reaped.
drain_closed(i) ==
  /\ Settled /\ ~shutting_down
  /\ run[i].ntf = "open"
  /\ run' = [run EXCEPT ![i].ntf = "none"]
  /\ live' = maybe_free(live, i, run'[i])
  /\ UNCHANGED <<depVars, want, n_ops, loopVars>>

\* drain_out() reads the end of file: nobody holds the output pipe any more.  The
\* main loop then calls maybe_free(), the shutdown does not.
drain_out(i) ==
  /\ Settled
  /\ run[i].out
  /\ run' = [run EXCEPT ![i].out = FALSE]
  /\ live' = IF shutting_down THEN live ELSE maybe_free(live, i, run'[i])
  /\ UNCHANGED <<depVars, want, n_ops, loopVars>>

-----------------------------------------------------------------------------
(* reap.c *)

\* reap() finds that the main process of i exited, leaving other
\* processes in its cgroup if e.  A readiness report that is still in the notify
\* pipe is read first, by drain_ready().
Reaped(i, e) == [run[i] EXCEPT !.pid = FALSE, !.starting = FALSE, !.extra = e]

reap(i, e) ==
  /\ Settled
  /\ run[i].pid
  /\ ~(run[i].ntf = "report" /\ i \in Notify)
  /\ e => CgOk
  /\ UNCHANGED <<want, pend, n_ops, loopVars>>

\* child_exited() of a held service.
exited_held(i, e) ==
  LET r == close_fds([Reaped(i, e) EXCEPT !.restart = FALSE]) IN
  /\ reap(i, e) /\ want[i] /\ ~shutting_down
  /\ go_down(i, unmet)
  /\ IF state[i] = "running" THEN svc_mark_pending(i)
                             ELSE UNCHANGED <<state, n_active, n_done, n_pending>>
  /\ run' = [run EXCEPT ![i] = r]
  /\ live' = maybe_free(live, i, r)

\* child_exited() of a service that has been ready, and is to be started again.
exited_restart(i, e) ==
  /\ reap(i, e) /\ ~want[i] /\ ~shutting_down
  /\ state[i] = "done" /\ i \in Restart
  /\ go_down(i, unmet)
  /\ run' = [run EXCEPT ![i] = restart_schedule(Reaped(i, e))]
  /\ UNCHANGED <<state, live, n_active, n_done, n_pending>>

\* child_exited() of a service that has been ready, and is gone for good.
exited_for_good(i, e) ==
  LET r == close_fds(Reaped(i, e)) IN
  /\ reap(i, e) /\ ~want[i] /\ ~shutting_down
  /\ state[i] = "done" /\ i \notin Restart
  /\ poison_deps(i, [run EXCEPT ![i] = r], maybe_free(live, i, r))

\* child_exited() of a oneshot that did its work.
exited_complete(i, e) ==
  LET r == Reaped(i, e) IN
  /\ Settled /\ run[i].pid /\ (e => CgOk)
  /\ ~want[i] /\ ~shutting_down
  /\ state[i] = "running" /\ Type[i] = "oneshot"
  /\ complete(i)
  /\ run' = [run EXCEPT ![i] = r]
  /\ live' = maybe_free(live, i, r)
  /\ UNCHANGED <<want, n_ops, loopVars>>

\* child_exited() of a service that was not ready: any exit of a daemon, a failing
\* exit of a oneshot.
exited_starting(i, e) ==
  /\ reap(i, e) /\ ~want[i] /\ ~shutting_down
  /\ state[i] = "running"
  /\ service_failed(i, Reaped(i, e), live, unmet, FALSE)

\* child_exited() during shutdown: nothing follows from it.
exited_shutdown(i, e) ==
  LET r == IF state[i] = "running" THEN close_fds(Reaped(i, e)) ELSE Reaped(i, e) IN
  /\ reap(i, e) /\ shutting_down
  /\ run' = [run EXCEPT ![i] = r]
  /\ live' = maybe_free(live, i, r)
  /\ UNCHANGED <<state, up, released, unmet, n_active, n_done, n_pending, n_up>>

\* stale_reaped(): an abandoned instance finally died.
stale_reaped(i, e) ==
  LET r == [run[i] EXCEPT !.stale = FALSE, !.hold = @ /\ ~run[i].restart, !.extra = e] IN
  /\ Settled
  /\ run[i].stale
  /\ e => CgOk
  /\ run' = [run EXCEPT ![i] = r]
  /\ live' = maybe_free(live, i, r)
  /\ UNCHANGED <<depVars, want, n_ops, loopVars>>

\* fire_restart(): an armed timer of a live service has expired.
Expired(i) ==
  /\ Settled /\ ~shutting_down
  /\ i \in live /\ run[i].restart
  /\ UNCHANGED <<want, pend, n_ops, loopVars>>

Disarmed(i) == [run[i] EXCEPT !.restart = FALSE]

\* It is held, or it was up once and has to wait for a prerequisite, whose release
\* arms the timer again.
fire_dropped(i) ==
  /\ Expired(i)
  /\ \/ want[i]
     \/ ~run[i].stale /\ ~run[i].pid /\ unmet[i] > 0 /\ state[i] # "running"
  /\ run' = [run EXCEPT ![i] = Disarmed(i)]
  /\ UNCHANGED <<state, up, released, unmet, n_active, n_done, n_pending, n_up, live>>

\* It cannot start yet: look again later.
fire_postponed(i) ==
  /\ Expired(i) /\ ~want[i]
  /\ ~svc_can_start(i, unmet[i], want[i])
  /\ run[i].stale => state[i] # "running"
  /\ run[i].stale \/ run[i].pid \/ state[i] = "running"
  /\ run' = [run EXCEPT ![i].hold = run[i].stale]
  /\ UNCHANGED <<state, up, released, unmet, n_active, n_done, n_pending, n_up, live>>

\* give_up(): the previous attempt outlived SIGKILL.
fire_gives_up(i) ==
  /\ Expired(i) /\ ~want[i]
  /\ run[i].stale /\ state[i] = "running"
  /\ poison(i, unmet, [run EXCEPT ![i] = Disarmed(i)], live)

fire_launch(i) ==
  /\ Expired(i)
  /\ svc_can_start(i, unmet[i], want[i])
  /\ \/ /\ run' = [run EXCEPT ![i] = launched(i, Disarmed(i))]
        /\ UNCHANGED <<state, up, released, unmet, n_active, n_done, n_pending, n_up, live>>
     \/ /\ i \in Flaky /\ state[i] = "running"
        /\ service_failed(i, Disarmed(i), live, unmet, FALSE)
     \/ /\ i \in Flaky /\ state[i] # "running"   \* launch() has set starting
        /\ run' = [run EXCEPT ![i] = restart_schedule([Disarmed(i) EXCEPT !.starting = TRUE])]
        /\ UNCHANGED <<state, up, released, unmet, n_active, n_done, n_pending, n_up, live>>

\* Mutant of check_timeouts(): only services with a readiness pipe have a deadline.
TimesOut_piped(i) ==
  /\ Settled /\ ~shutting_down
  /\ i \in live /\ run[i].starting /\ run[i].ntf = "open"
  /\ UNCHANGED <<want, pend, n_ops, loopVars>>

\* check_timeouts(): start-timeout has passed.  A report that arrived in time is
\* read first, by drain_ready().
TimesOut(i) ==
  /\ Settled /\ ~shutting_down
  /\ i \in live /\ run[i].starting /\ run[i].ntf # "report"
  /\ UNCHANGED <<want, pend, n_ops, loopVars>>

timeout_starting(i) ==
  /\ TimesOut(i) /\ state[i] = "running"
  /\ service_failed(i, run[i], live, unmet, FALSE)

\* start_failed() of an instance that was to follow one that had been ready.
timeout_restarting(i) ==
  /\ TimesOut(i) /\ state[i] # "running"
  /\ IF i \in Restart
     THEN /\ go_down(i, unmet)
          /\ run' = [run EXCEPT ![i] = restart_schedule([run[i] EXCEPT !.starting = FALSE])]
          /\ UNCHANGED <<state, live, n_active, n_done, n_pending>>
     ELSE LET r == close_fds([run[i] EXCEPT !.starting = FALSE]) IN
          poison_deps(i, [run EXCEPT ![i] = r], maybe_free(live, i, r))

-----------------------------------------------------------------------------
(* command.c *)

\* svc_op_done(), as far as the run goes.
Done(r) == [r EXCEPT !.op = "none", !.again = FALSE]

\* The live list once i's run is r, with what maybe_free() takes out of it.
Freed(lv, i, r) == run' = [run EXCEPT ![i] = r] /\ live' = maybe_free(lv, i, r)

\* svc_op_start() of i, whose live list is lv; down: it went down before.
svc_op_start(i, lv, down) ==
  /\ want' = [want EXCEPT ![i] = FALSE]
  /\ UNCHANGED pend
  /\ \/ /\ svc_can_start(i, unmet[i], FALSE)
        /\ n_ops' = n_ops + one(run[i].op = "none")
        /\ spawn(i, [run[i] EXCEPT !.attempt = 0, !.restart = FALSE,
                                   !.again = FALSE, !.op = "start"],
                 lv \cup {i}, unmet, down)
     \/ /\ ~svc_can_start(i, unmet[i], FALSE)
        /\ n_ops' = n_ops - one(run[i].op # "none")
        /\ IF run[i].pid \/ run[i].stale
           THEN /\ standing(i, unmet, down)
                /\ Freed(lv, i, Done(run[i]))
                /\ UNCHANGED <<state, n_active, n_done, n_pending>>
           ELSE /\ go_down(i, unmet)
                /\ svc_mark_pending(i)
                /\ Freed(lv, i, Done([run[i] EXCEPT !.attempt = 0, !.restart = FALSE]))

\* ctl_cmd(): a request about one service, which has no operation under way.
Request(cmd, i) ==
  /\ Settled /\ ~shutting_down
  /\ cmd \in Cmds /\ i \in OpSvc
  /\ Type[i] # "target" /\ run[i].op = "none"
  /\ UNCHANGED loopVars

ctl_start(i) == Request("start", i) /\ svc_op_start(i, live, FALSE)

\* svc_op_stop(), for ninitctl stop and ninitctl restart: there is something to stop.
stop_signal(i, again) ==
  /\ Request(IF again THEN "restart" ELSE "stop", i)
  /\ ~svc_gone(i)
  /\ want' = [want EXCEPT ![i] = TRUE]
  /\ run' = [run EXCEPT ![i].restart = FALSE, ![i].again = again, ![i].op = "term"]
  /\ live' = live \cup {i}
  /\ n_ops' = n_ops + 1
  /\ UNCHANGED depVars

\* There is nothing left of it: "already stopped".
stop_gone(i) ==
  /\ Request("stop", i)
  /\ svc_gone(i)
  /\ want' = [want EXCEPT ![i] = TRUE]
  /\ go_down(i, unmet)
  /\ Freed(live \cup {i}, i, Done([run[i] EXCEPT !.restart = FALSE]))
  /\ UNCHANGED <<state, pend, n_active, n_done, n_pending, n_ops>>

restart_gone(i) ==
  Request("restart", i) /\ svc_gone(i) /\ svc_op_start(i, live \cup {i}, FALSE)

\* ctl_tick(): the turn of a live service with an operation.
Tick(i) ==
  /\ Settled /\ ~shutting_down
  /\ n_ops > 0 /\ i \in live
  /\ UNCHANGED loopVars

tick_done(i) ==
  /\ n_ops' = n_ops - 1
  /\ Freed(live, i, Done(run[i]))
  /\ UNCHANGED want

\* SIGTERM or SIGKILL did it.
tick_stopped(i) ==
  /\ Tick(i) /\ run[i].op \in {"term", "kill"} /\ svc_gone(i)
  /\ IF run[i].again
     THEN svc_op_start(i, live, TRUE)
     ELSE /\ go_down(i, unmet)
          /\ tick_done(i)
          /\ UNCHANGED <<state, pend, n_active, n_done, n_pending>>

\* stop-timeout has passed: SIGKILL.
tick_kill(i) ==
  /\ Tick(i) /\ run[i].op = "term" /\ ~svc_gone(i)
  /\ run' = [run EXCEPT ![i].op = "kill"]
  /\ UNCHANGED <<depVars, want, live, n_ops>>

\* "did not stop after SIGKILL": two seconds later it is still there.
tick_unkillable(i) ==
  /\ Tick(i) /\ run[i].op = "kill" /\ ~svc_gone(i)
  /\ tick_done(i)
  /\ UNCHANGED depVars

\* A start that succeeded, failed, or has taken too long.
tick_started(i) ==
  /\ Tick(i) /\ run[i].op = "start"
  /\ tick_done(i)
  /\ UNCHANGED depVars

\* The first loop of ctl_resume(): failed and skipped services are pending again.
ctl_resume ==
  LET reset == {i \in Svc : state[i] \in {"failed", "skipped"}} IN
  /\ Settled /\ ~shutting_down
  /\ "resume" \in Cmds /\ reset # {}
  /\ state' = [i \in Svc |-> IF i \in reset THEN "pending" ELSE state[i]]
  /\ run' = [i \in Svc |-> IF i \in reset THEN [run[i] EXCEPT !.attempt = 0] ELSE run[i]]
  /\ n_pending' = n_pending + Cardinality(reset)
  /\ scan' = Svc
  /\ UNCHANGED <<up, released, unmet, pend, n_active, n_done, n_up, want, live, n_ops,
                 shutting_down, booted>>

-----------------------------------------------------------------------------
(* ninit.c and stop.c *)

check_boot_done ==
  /\ Settled
  /\ ~booted /\ ~shutting_down
  /\ n_active = 0
  /\ \A i \in live : ~run[i].restart /\ ~run[i].stale
  /\ booted' = TRUE
  /\ UNCHANGED <<depVars, want, run, live, n_ops, scan, shutting_down>>

\* shutdown_system() never returns to the loop; from here on reap() and the output
\* drain are all that runs of this module.
shutdown_system ==
  /\ Settled
  /\ "shutdown" \in Cmds /\ ~shutting_down
  /\ shutting_down' = TRUE
  /\ UNCHANGED <<depVars, want, run, live, n_ops, scan, booted>>

child_exited(i, e) ==
  \/ exited_held(i, e) \/ exited_restart(i, e) \/ exited_for_good(i, e)
  \/ exited_complete(i, e) \/ exited_starting(i, e) \/ exited_shutdown(i, e)

fire_restart(i) ==
  fire_dropped(i) \/ fire_postponed(i) \/ fire_gives_up(i) \/ fire_launch(i)

check_timeouts(i) == timeout_starting(i) \/ timeout_restarting(i)

svc_release(d) ==
  DeliverTarget(d) \/ DeliverStart(d) \/ DeliverRestart(d) \/ DeliverQuiet(d)

visit(i) == VisitTarget(i) \/ VisitStart(i) \/ VisitQuiet(i)

ctl_tick(i) ==
  tick_stopped(i) \/ tick_kill(i) \/ tick_unkillable(i) \/ tick_started(i)

ctl_cmd(i) ==
  \/ ctl_start(i) \/ stop_gone(i) \/ restart_gone(i)
  \/ \E again \in BOOLEAN : stop_signal(i, again)

Next ==
  \/ \E i \in Svc :
       \/ svc_release(i) \/ visit(i)
       \/ Report(i) \/ LeftoversGone(i)
       \/ drain_ready(i) \/ drain_closed(i) \/ drain_out(i)
       \/ \E e \in BOOLEAN : child_exited(i, e) \/ stale_reaped(i, e)
       \/ fire_restart(i) \/ check_timeouts(i)
       \/ ctl_cmd(i) \/ ctl_tick(i)
  \/ ctl_resume
  \/ check_boot_done
  \/ shutdown_system

Spec == Init /\ [][Next]_vars

\* The loop goes round as long as something is left to do, so each of its handlers
\* gets its turn.  A turn comes between handlers: strong fairness, because the
\* iterations of a release or a scan disable everything else in between.  A killed
\* process dies and is reaped.  Nothing is assumed of living processes: they may
\* never exit, report or close anything.
Fairness ==
  \A i \in Svc : /\ WF_vars(svc_release(i)) /\ WF_vars(visit(i))
                 /\ SF_vars(fire_restart(i)) /\ SF_vars(check_timeouts(i))
                 /\ SF_vars(ctl_tick(i)) /\ SF_vars(drain_ready(i))
                 /\ SF_vars(\E e \in BOOLEAN : stale_reaped(i, e))

FairSpec == Spec /\ Fairness /\ SF_vars(check_boot_done)

-----------------------------------------------------------------------------
(* Properties. *)

\* The count of unmet prerequisites is exact: the prerequisites that are not
\* released, and the releases still in the queue.  It is kept by increments and
\* decrements in svc_release() and svc_reclaim() alone, never recounted, and a
\* count that drifts starts a service early or never.
UnmetExact ==
  \A d \in Svc : unmet[d] = Cardinality({p \in Prereqs(d) : ~released[p]}) + pend[d]

\* The counters kept beside the states agree with them at every step
\* (tests/unit/sim.h, invariants()): they decide when boot is over, whether the
\* operations are ticked, and what status prints.
CountersMatch ==
  /\ n_active = Cardinality({i \in Svc : state[i] = "running"})
  /\ n_done = Cardinality({i \in Svc : state[i] = "done"})
  /\ n_pending = Cardinality({i \in Svc : state[i] = "pending"})
  /\ n_up = Cardinality({i \in Svc : up[i]})
  /\ n_ops = Cardinality({i \in Svc : run[i].op # "none"})

\* A service is up exactly while its dependents are released, unless its deps are
\* order, when they stay released after it has been up once.
UpIsReleased ==
  \A i \in Svc : /\ up[i] => released[i]
                 /\ released[i] /\ i \notin OrderOnly => up[i]

\* A process is launched only for a service that is neither held nor running nor
\* waiting for its killed predecessor, never after shutdown began, and only while
\* each prerequisite is up, or has been up if its deps are order.
LaunchInOrder ==
  \A i \in Svc : ~run[i].pid /\ run'[i].pid =>
    /\ ~run[i].stale /\ ~shutting_down /\ ~want'[i]
    /\ \A p \in Prereqs(i) : IF p \in OrderOnly THEN released[p] ELSE up[p]

\* That, of every step: LaunchInOrder holds whenever anything changes.
StartsInOrder == [][LaunchInOrder]_vars

\* ninit has at most one instance of a service to wait for, so the pid it forgets
\* last is the only one it has: svc_abandon() overwrites no other.
OneInstance == \A i \in Svc : ~(run[i].pid /\ run[i].stale)

\* Whatever needs ninit's attention is in the live list, which is all that the
\* timers, the timeouts, the operations and poll() ever look at.
LiveCovers ==
  shutting_down \/ \A i \in Svc : ~Idle(run[i]) => i \in live

\* A process belongs to a service that is starting or has been ready, and a timer
\* never launches one that has not started, failed or was skipped, since a launch from
\* fire_restart() leaves the state as it is: such a service has no timer, unless it is
\* held, when fire_restart() drops it.
ActiveHasState ==
  \A i \in Svc : run[i].pid \/ (run[i].restart /\ ~want[i]) =>
    state[i] \in {"running", "done"}

\* The services that ninitctl stop and restart are not used on.
Unheld == {i \in Svc : i \notin OpSvc \/ Cmds \cap {"stop", "restart"} = {}}

\* A daemon with restart: always that went down, and was never held, is on its way back:
\* it has a process, a timer, or a prerequisite to wait for.
RestartNotForgotten ==
  ~shutting_down =>
    \A i \in Restart \cap Unheld : state[i] = "done" /\ ~up[i] =>
      run[i].pid \/ run[i].restart \/ unmet[i] > 0

\* Targets follow their prerequisites: up when all are, down when one is not.
TargetFollows ==
  Settled => \A t \in Svc : Type[t] = "target" =>
    /\ unmet[t] = 0 => up[t]
    /\ up[t] /\ t \notin OrderOnly => unmet[t] = 0

\* What dependents of a service with deps: order may do does not depend on its later
\* exits: once it has been ready they are never taken back.
OrderIsForGood == [][\A p \in OrderOnly : released[p] => released'[p]]_vars

\* Every start comes to an end, whatever the process does: start-timeout, the
\* retries and the deadline on a process that does not die see to it.
StartEnds ==
  \A i \in Svc : state[i] = "running" ~> (state[i] # "running" \/ shutting_down)

\* Every operation of ninitctl is answered.
OpEnds ==
  \A i \in Svc : run[i].op # "none" ~> (run[i].op = "none" \/ shutting_down)

\* Boot is over some day: no start hangs and no counter leaks.
BootEnds == <>(booted \/ shutting_down)

-----------------------------------------------------------------------------
(* What the documentation or the tests say and the code does not keep to. *)

\* README 6.2: a service stopped before it became ready is pending.
StoppedIsNotStarting ==
  \A i \in Svc : Settled /\ want[i] /\ svc_gone(i) /\ run[i].op = "none" =>
    state[i] # "running"
=============================================================================
