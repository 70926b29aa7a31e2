--------------------------- MODULE EmergencyShell ---------------------------
(***************************************************************************)
(* The emergency shell of fail.c: a failed boot, a service with on-fail:   *)
(* shell, a retry timer or the exit of the last shell starts one on the    *)
(* console; the child reports through a pipe whether it could execute a    *)
(* shell; and ninit gives up for good when shells cannot be started, cannot*)
(* be executed, or exit at once too often.                                 *)
(*                                                                         *)
(* The static variables emerg_* are the fields of e.  Times are left out:  *)
(* an armed deadline may pass at any moment.  From shutdown_system() on    *)
(* none of this runs.                                                      *)
(***************************************************************************)
EXTENDS Integers

CONSTANTS
  EMERG_FAST_MAX,    \* shells in a row that exit at once
  EMERG_FAIL_MAX,    \* starts in a row that fail
  EMERG_NOEXEC_MAX   \* shells in a row that cannot be executed

ASSUME LimitsAssumption ==
  /\ EMERG_FAST_MAX \in Nat \ {0}
  /\ EMERG_FAIL_MAX \in Nat \ {0}
  /\ EMERG_NOEXEC_MAX \in Nat \ {0}

VARIABLES
  e,         \* the state of the emergency shell
  asked,     \* a shell has been asked for
  lasting    \* whether some shell will run for EMERG_FAST_MS: the machine's nature

vars == <<e, asked, lasting>>

\* What the pipe has for ninit: emerg_settle()'s argument.
Reports == {"ok", "failed", "unknown"}

Shell == [pid      : BOOLEAN,                               \* emerg_pid > 0
          bar      : {"closed", "silent"} \cup Reports,     \* emerg_bar, what it can read
          conf_at  : BOOLEAN,                               \* armed
          retry_at : BOOLEAN,                               \* armed
          fast     : 0..EMERG_FAST_MAX,
          fail     : 0..EMERG_FAIL_MAX,
          noexec   : 0..EMERG_NOEXEC_MAX,
          gone     : BOOLEAN]

\* The types of the variables: no counter passes its limit.
TypeOK == e \in Shell /\ asked \in BOOLEAN /\ lasting \in BOOLEAN

Init ==
  /\ e = [pid |-> FALSE, bar |-> "closed", conf_at |-> FALSE, retry_at |-> FALSE,
          fast |-> 0, fail |-> 0, noexec |-> 0, gone |-> FALSE]
  /\ asked = FALSE
  /\ lasting \in BOOLEAN

-----------------------------------------------------------------------------
(* The helpers, each a function from the state before to the state after. *)

\* Mutant of emerg_settle(): a shell that was executed counts as a success.
emerg_settle_forgives(s, how) ==
  CASE how = "failed" -> [s EXCEPT !.noexec = @ + 1,
                                   !.gone = @ \/ s.noexec + 1 >= EMERG_NOEXEC_MAX]
    [] how = "unknown" -> [s EXCEPT !.fail = 0]
    [] how = "ok" -> [s EXCEPT !.fail = 0, !.noexec = 0, !.fast = 0]

emerg_settle(s, how) ==
  CASE how = "failed" -> [s EXCEPT !.noexec = @ + 1,
                                   !.gone = @ \/ s.noexec + 1 >= EMERG_NOEXEC_MAX]
    [] how = "unknown" -> [s EXCEPT !.fail = 0]
    [] how = "ok" -> [s EXCEPT !.fail = 0, !.noexec = 0]

emerg_bar_close(s) == [s EXCEPT !.bar = "closed", !.conf_at = FALSE]

fail_emergency_report(s) ==
  IF s.bar \in Reports THEN emerg_settle(emerg_bar_close(s), s.bar) ELSE s

\* Mutant of emerg_restart(): a failed start is not tried again.
emerg_restart_once(s, ok) ==
  CASE ok -> [s EXCEPT !.pid = TRUE, !.bar = "silent", !.conf_at = TRUE]
    [] ~ok /\ s.fail + 1 >= EMERG_FAIL_MAX -> [s EXCEPT !.fail = @ + 1, !.gone = TRUE]
    [] ~ok /\ s.fail + 1 < EMERG_FAIL_MAX -> [s EXCEPT !.fail = @ + 1]

\* emerg_restart(); ok: the console, the pipe and fork() of emerg_start() were there.
emerg_restart(s, ok) ==
  CASE ok -> [s EXCEPT !.pid = TRUE, !.bar = "silent", !.conf_at = TRUE]
    [] ~ok /\ s.fail + 1 >= EMERG_FAIL_MAX -> [s EXCEPT !.fail = @ + 1, !.gone = TRUE]
    [] ~ok /\ s.fail + 1 < EMERG_FAIL_MAX -> [s EXCEPT !.fail = @ + 1, !.retry_at = TRUE]

-----------------------------------------------------------------------------
(* The handlers. *)

fail_emergency_shell ==
  /\ asked' = TRUE
  /\ \E ok \in BOOLEAN : e' = IF e.gone \/ e.pid THEN e ELSE emerg_restart(e, ok)
  /\ UNCHANGED lasting

\* poll() has the pipe readable.
Report ==
  /\ e.bar \in Reports
  /\ e' = fail_emergency_report(e)
  /\ UNCHANGED <<asked, lasting>>

\* fail_emergency_tick(): EMERG_EXEC_MS have passed without a report.
tick_conf ==
  /\ e.conf_at
  /\ e' = emerg_settle([e EXCEPT !.conf_at = FALSE], "unknown")
  /\ UNCHANGED <<asked, lasting>>

\* Mutant of fail_emergency_tick(): emerg_gone is not looked at.
tick_retry_gone ==
  /\ e.retry_at
  /\ LET s == [e EXCEPT !.retry_at = FALSE]
     IN  \E ok \in BOOLEAN : e' = IF s.pid THEN s ELSE emerg_restart(s, ok)
  /\ UNCHANGED <<asked, lasting>>

\* fail_emergency_tick(): EMERG_RETRY_MS have passed since a start failed.
tick_retry ==
  /\ e.retry_at /\ ~e.gone
  /\ LET s == [e EXCEPT !.retry_at = FALSE]
     IN  \E ok \in BOOLEAN : e' = IF s.pid THEN s ELSE emerg_restart(s, ok)
  /\ UNCHANGED <<asked, lasting>>

\* The dead shell's last report is read and its pipe closed.  A child that dies
\* before it writes or executes anything leaves an end of file, like one that did.
Closed(s) ==
  emerg_bar_close(fail_emergency_report(
    [s EXCEPT !.pid = FALSE, !.bar = IF @ = "silent" THEN "ok" ELSE @]))

\* fail_emergency_reaped() of a shell that lasted, or exited within EMERG_FAST_MS.
fail_emergency_reaped(quick) ==
  /\ e.pid
  /\ quick \/ lasting
  /\ LET s == [Closed(e) EXCEPT !.fast = IF quick THEN @ + 1 ELSE 0]
     IN  IF quick /\ s.fast >= EMERG_FAST_MAX
         THEN e' = [s EXCEPT !.gone = TRUE]
         ELSE \E ok \in BOOLEAN : e' = IF s.gone THEN s ELSE emerg_restart(s, ok)
  /\ UNCHANGED <<asked, lasting>>

\* The child executes a shell, which closes the pipe, or fails to and says so; a
\* write that is cut short is "unknown".
ChildReports(how) ==
  /\ e.pid /\ e.bar = "silent"
  /\ e' = [e EXCEPT !.bar = how]
  /\ UNCHANGED <<asked, lasting>>

fail_emergency_tick == tick_conf \/ tick_retry

Next ==
  \/ fail_emergency_shell \/ Report \/ fail_emergency_tick
  \/ \E quick \in BOOLEAN : fail_emergency_reaped(quick)
  \/ \E how \in Reports : ChildReports(how)

Spec == Init /\ [][Next]_vars

\* Timers fire, and where no shell lasts each one exits and is reaped.
FairSpec ==
  /\ Spec
  /\ WF_vars(tick_retry)
  /\ WF_vars(~lasting /\ fail_emergency_reaped(TRUE))

-----------------------------------------------------------------------------
(* Properties. *)

\* The pipe and its deadline are those of the shell that runs.  emerg_start() stores
\* a new pipe over the old one, so one left open would be lost, and a deadline left
\* armed would clear the failures of the next shell.
PipeOfShell ==
  /\ e.bar # "closed" => e.pid
  /\ e.conf_at => e.bar # "closed"

\* A shell that was asked for runs, will be tried again, or was given up: no failed
\* start or exit leaves the machine without one by accident.
ShellPursued == asked => e.pid \/ e.retry_at \/ e.gone

\* Giving up is final: no shell is started after it, whatever timer was armed.
GivenUpIsFinal == [][e.gone => e'.gone /\ (e'.pid => e.pid)]_vars

\* Where no shell lasts ninit does not start them for ever: whatever mix of failed
\* starts, failed executions and quick exits, the counters end it.
GivesUp == asked /\ ~lasting ~> e.gone
=============================================================================
