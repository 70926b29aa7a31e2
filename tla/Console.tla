------------------------------- MODULE Console -------------------------------
(***************************************************************************)
(* The console of logging.c.  It may take a line whole, in part, not at    *)
(* all, or fail.  The rest of a line it took in part is kept in log_pend   *)
(* and goes first; a line it does not take is counted in log_dropped, and  *)
(* a later line is preceded by a report of that number.                    *)
(*                                                                         *)
(* A line is on its way (todo) until log_write() returns: nothing else     *)
(* runs in between.  What log_push() takes, with its waits and deadlines,  *)
(* is a choice.                                                            *)
(***************************************************************************)
EXTENDS Naturals

VARIABLES
  todo,         \* lines that log_out() is to write, in order
  stage,        \* what is written of the next one: "report", then "line"
  pend,         \* whose rest is in log_pend: "none", "line" or "report"
  log_dropped,
  polled,       \* poll() was told of the pending rest
  lost,         \* history: lines cut off or never written that no report tells of
  inreport      \* history: lines that the report in log_pend tells of

writing == <<stage, pend, log_dropped, lost, inreport>>
conVars == <<todo, polled, writing>>

ConInit ==
  /\ todo = 0 /\ stage = "report" /\ pend = "none" /\ log_dropped = 0
  /\ polled = FALSE /\ lost = 0 /\ inreport = 0

\* The types of the variables.
ConTypeOK ==
  /\ todo \in Nat /\ log_dropped \in Nat /\ lost \in Nat /\ inreport \in Nat
  /\ stage \in {"report", "line"} /\ pend \in {"none", "line", "report"}
  /\ polled \in BOOLEAN

\* What log_push() gets through: -1 is "error".
log_push == {"all", "part", "none", "error"}

\* The rest in log_pend is not written any more.
GiveUp ==
  /\ pend' = "none"
  /\ lost' = lost + (IF pend = "line" THEN 1 ELSE inreport)
  /\ inreport' = 0

\* Mutant of log_out(): the report takes its number off before it is written.
report_early(n) ==
  /\ todo > 0 /\ stage = "report"
  /\ stage' = "line"
  /\ IF log_dropped = 0 \/ pend # "none"
     THEN n = "all" /\ UNCHANGED <<pend, log_dropped, lost, inreport>>
     ELSE /\ log_dropped' = 0
          /\ pend' = IF n = "part" THEN "report" ELSE pend
          /\ inreport' = IF n = "part" THEN lost ELSE 0
          /\ lost' = IF n \in {"all", "part"} THEN 0 ELSE lost
  /\ UNCHANGED <<todo, polled>>

\* log_report_dropped(), before the line, when lines were dropped and nothing is pending.
report(n) ==
  /\ todo > 0 /\ stage = "report"
  /\ stage' = "line"
  /\ IF log_dropped > 0 /\ pend = "none" /\ n \in {"all", "part"}
     THEN /\ log_dropped' = 0 /\ lost' = 0
          /\ pend' = IF n = "part" THEN "report" ELSE "none"
          /\ inreport' = IF n = "part" THEN lost ELSE 0
     ELSE UNCHANGED <<pend, log_dropped, lost, inreport>>
  /\ UNCHANGED <<todo, polled>>

\* The caller of log_write() counts the line.
DropLine(gone) ==
  /\ log_dropped' = log_dropped + 1
  /\ lost' = gone + 1
  /\ todo' = todo - 1 /\ stage' = "report"

\* log_write(), the rest of an earlier line first.
write_rest(n) ==
  /\ todo > 0 /\ stage = "line" /\ pend # "none"
  /\ \/ /\ n = "all"
        /\ pend' = "none" /\ inreport' = 0
        /\ UNCHANGED <<todo, stage, log_dropped, lost>>
     \/ /\ n \in {"part", "none"}
        /\ DropLine(lost)
        /\ UNCHANGED <<pend, inreport>>
     \/ /\ n = "error"
        /\ DropLine(lost + (IF pend = "line" THEN 1 ELSE inreport))
        /\ pend' = "none" /\ inreport' = 0
  /\ UNCHANGED polled

\* log_write(), then the line itself.
write_line(n) ==
  /\ todo > 0 /\ stage = "line" /\ pend = "none"
  /\ \/ /\ n \in {"all", "part"}
        /\ pend' = IF n = "part" THEN "line" ELSE "none"
        /\ todo' = todo - 1 /\ stage' = "report"
        /\ UNCHANGED <<log_dropped, lost>>
     \/ /\ n \in {"none", "error"}
        /\ DropLine(lost)
        /\ UNCHANGED pend
  /\ UNCHANGED <<inreport, polled>>

\* log_pending_fd(): the main loop polls the console for the rest.
log_pending_fd ==
  /\ todo = 0 /\ pend # "none" /\ ~polled
  /\ polled' = TRUE
  /\ UNCHANGED <<todo, writing>>

\* log_flush(), when the poll's answer is handled.  Lines logged since poll() may have
\* written the rest: nothing is left to push then, and log_push() returns 0.
log_flush(n) ==
  /\ todo = 0 /\ polled
  /\ polled' = FALSE
  /\ pend = "none" => n = "none"
  /\ \/ /\ n = "all"
        /\ pend' = "none" /\ inreport' = 0
        /\ UNCHANGED <<log_dropped, lost>>
     \/ /\ n = "part"
        /\ UNCHANGED <<pend, inreport, log_dropped, lost>>
     \/ /\ n \in {"none", "error"}
        /\ log_dropped' = log_dropped + 1
        /\ GiveUp
  /\ UNCHANGED <<todo, stage>>

\* log_out() is called for k lines.
Offer(k) ==
  /\ todo = 0
  /\ todo' = k
  /\ UNCHANGED <<polled, writing>>

ConNext ==
  \/ \E n \in log_push : report(n) \/ write_rest(n) \/ write_line(n) \/ log_flush(n)
  \/ log_pending_fd

ConSpec == ConInit /\ [][ConNext \/ \E k \in Nat : Offer(k)]_conVars

-----------------------------------------------------------------------------
(* Properties. *)

\* The console never goes on as if nothing had happened: while a line is missing that no
\* report on the console tells of, log_dropped is not zero, so the next line comes with
\* a report, and when that report is cut off the loss it told of counts again.
LossIsCounted == lost > 0 => log_dropped > 0
=============================================================================
