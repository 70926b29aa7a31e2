------------------------------ MODULE Compile ------------------------------
(***************************************************************************)
(* The part of ninitctl init that makes a graph of a service directory:    *)
(* read_sources(), check_syntax(), link_graph(), order_graph() and         *)
(* write_image() up to the finished image.  job[p] is what process p was   *)
(* asked and how far it is; its syntax checks are child processes that end *)
(* in any order, fail, or hang until they are killed.                      *)
(*                                                                         *)
(* A directory maps names to entries; a name is a number, in the order of  *)
(* the names.                                                              *)
(***************************************************************************)
EXTENDS GraphBuild

CONSTANTS
  Procs,       \* the ninitctl processes
  NG_MAX_SVC,  \* the most services a graph holds
  nslot        \* how many syntax checks run at a time

VARIABLE job

\* A check is the child that checks service pid; a slot remembers it for service who.
NoCheck == [i |-> 0, slot |-> <<>>, kid |-> <<>>, reaped |-> {}, failed |-> {}, late |-> {},
            bad |-> 0, unchecked |-> 0, giveup |-> FALSE, shell_ok |-> TRUE, polled |-> FALSE]

NoBuild == [srcs |-> <<>>, mode |-> {"grp", "oth"}, height |-> <<>>, order |-> <<>>,
            image |-> [n_roots |-> 0, svc |-> <<>>], chk |-> NoCheck]

At(p, ph) == job[p].phase = ph
Go(p, j, ph) == job' = [job EXCEPT ![p] = [j EXCEPT !.phase = ph]]
Die_(p) == Go(p, job[p], "dead")

-----------------------------------------------------------------------------
(* read_sources() *)

\* An entry that cannot be read, named or parsed.
Refused(e) ==
  \/ e.kind = "dangling"                                 \* stat() fails
  \/ e.kind \in {"service", "graph"} /\ e.badname
  \/ e.kind = "service" /\ parse_src(e.file).bad

\* The rest is skipped: directories, reserved names, graphs under another name.
Services(d) == {i \in DOMAIN d : d[i].kind = "service"}

\* The graph can be read by whom every service can.
OutMode(d) ==
  {who \in {"grp", "oth"} : \A i \in DOMAIN d : d[i].kind \in {"service", "graph"} => who \in d[i].mode}

read_sources(p, d) ==
  /\ At(p, "read")
  /\ LET D == Services(d) IN
     IF \/ Cardinality(DOMAIN d) > NG_MAX_SVC + 4
        \/ \E i \in DOMAIN d : Refused(d[i])
        \/ D = {} \/ Cardinality(D) > NG_MAX_SVC
     THEN Die_(p)
     ELSE Go(p, [job[p] EXCEPT !.read = d, !.b.srcs = [i \in D |-> parse_src(d[i].file)],
                               !.b.mode = OutMode(d)],
             IF job[p].nocheck THEN "link" ELSE "check")

-----------------------------------------------------------------------------
(* check_syntax() *)

Srcs(p) == job[p].b.srcs
Chk(p) == job[p].b.chk
SetChk(p, c) == job' = [job EXCEPT ![p].b.chk = c]

\* Without a usable shell its scripts are not checked; without chroot nothing is.
check_begin(p) ==
  /\ At(p, "check")
  /\ \E sh \in BOOLEAN, giveup \in BOOLEAN :
       Go(p, [job[p] EXCEPT !.b.chk = [NoCheck EXCEPT !.shell_ok = sh, !.giveup = giveup]], "checking")

\* The services start_one() is called for.
ToCheck(p) ==
  {i \in DOMAIN Srcs(p) : Srcs(p)[i].script >= 0 /\ (Srcs(p)[i].lang = "shell" => Chk(p).shell_ok)}

Started(p) == Chk(p).i = Cardinality(DOMAIN Srcs(p))

\* The condition of the two loops around collect_one().
Collecting(p) ==
  /\ At(p, "checking") /\ Chk(p).slot # <<>>
  /\ Len(Chk(p).slot) = nslot \/ Chk(p).giveup \/ Started(p)

\* The turn of the next service; how: what becomes of start_one().
check_next(p, how) ==
  LET c == Chk(p)
      i == Nth(DOMAIN Srcs(p), c.i + 1)
      n == [c EXCEPT !.i = @ + 1]
  IN  /\ At(p, "checking") /\ ~Started(p) /\ ~Collecting(p)
      /\ IF i \notin ToCheck(p) THEN how = "skip" /\ SetChk(p, n)
         ELSE IF c.giveup THEN how = "skip" /\ SetChk(p, [n EXCEPT !.unchecked = @ + 1])
         ELSE CASE how = "runs" ->
                     SetChk(p, [n EXCEPT !.slot = Append(@, [pid |-> i, who |-> i, due |-> "ahead"]),
                                         !.kid = [k \in DOMAIN @ \union {i} |->
                                                    IF k = i THEN "run" ELSE @[k]]])
                [] how = "memfd" ->
                     SetChk(p, [n EXCEPT !.giveup = TRUE, !.unchecked = @ + 1])
                [] how = "stage" -> SetChk(p, [n EXCEPT !.unchecked = @ + 1])
                [] how = "fork" -> Die_(p)
                [] OTHER -> FALSE

\* reap_check(): waitpid() finds no check that has ended.
Ended(c) == {k \in DOMAIN c.kid \ c.reaped : c.kid[k] # "run"}

reap_poll(p) ==
  /\ Collecting(p) /\ ~Chk(p).polled /\ Ended(Chk(p)) = {}
  /\ SetChk(p, [Chk(p) EXCEPT !.polled = TRUE])

\* Mutant of reap_expire(): a check past its time is waited for.
reap_expire_spares(p) ==
  /\ Collecting(p) /\ Chk(p).polled
  /\ SetChk(p, [Chk(p) EXCEPT !.polled = FALSE])

\* The checks past their time are killed; sigtimedwait() returns.
reap_expire(p) ==
  /\ Collecting(p) /\ Chk(p).polled
  /\ SetChk(p, [Chk(p) EXCEPT !.polled = FALSE,
                              !.slot = [k \in DOMAIN @ |-> IF @[k].due = "past"
                                                           THEN [@[k] EXCEPT !.due = "killed"] ELSE @[k]]])

\* Mutant of without(): the process moves to the other slot, whose name and time stay.
without_pid(slot, k) ==
  LET n == Len(slot) IN [j \in 1..n - 1 |-> IF j = k THEN [slot[k] EXCEPT !.pid = slot[n].pid] ELSE slot[j]]

\* The last slot moves into the place of the one collected.
without(slot, k) ==
  LET n == Len(slot) IN [j \in 1..n - 1 |-> IF j = k THEN slot[n] ELSE slot[j]]

\* A check that was killed counts as not done, whatever its status says.
collect_one(p) ==
  LET c == Chk(p) IN
  /\ Collecting(p) /\ ~c.polled
  /\ \E got \in Ended(c), k \in 1..Len(c.slot) :
       /\ c.slot[k].pid = got
       /\ LET s == c.slot[k]
              late == s.due = "killed"
              fail == late \/ c.kid[got] = "fail"
          IN  SetChk(p, [c EXCEPT !.reaped = @ \union {got}, !.slot = without(@, k),
                                  !.failed = IF fail THEN @ \union {s.who} ELSE @,
                                  !.late = IF late THEN @ \union {s.who} ELSE @,
                                  !.unchecked = IF late THEN @ + 1 ELSE @,
                                  !.bad = IF fail /\ ~late THEN @ + 1 ELSE @])

\* waitpid() fails: what is under way is given up.
collect_error(p) ==
  /\ Collecting(p) /\ ~Chk(p).polled
  /\ SetChk(p, [Chk(p) EXCEPT !.unchecked = @ + Len(Chk(p).slot), !.slot = <<>>, !.giveup = TRUE])

report(p) ==
  /\ At(p, "checking") /\ Started(p) /\ Chk(p).slot = <<>>
  /\ Go(p, job[p], IF Chk(p).bad > 0 \/ Chk(p).unchecked > 0 THEN "dead" ELSE "link")

\* The check of a script ends by itself unless it hangs, and can fail for reasons of its
\* own; SIGKILL ends each.
Syntax(p, k) == job[p].read[k].file.syntax
Killed(p, k) == \E s \in 1..Len(Chk(p).slot) : Chk(p).slot[s].pid = k /\ Chk(p).slot[s].due = "killed"

kid_ends(p, k, st) ==
  /\ At(p, "checking") /\ k \in DOMAIN Chk(p).kid /\ Chk(p).kid[k] = "run"
  /\ IF st = "ok" THEN Syntax(p, k) = "ok" ELSE Syntax(p, k) # "hang" \/ Killed(p, k)
  /\ SetChk(p, [Chk(p) EXCEPT !.kid[k] = st])

\* CHECK_MS pass.
time_passes(p, s) ==
  /\ At(p, "checking") /\ s \in 1..Len(Chk(p).slot) /\ Chk(p).slot[s].due = "ahead"
  /\ SetChk(p, [Chk(p) EXCEPT !.slot[s].due = "past"])

-----------------------------------------------------------------------------
(* link_graph(), order_graph() and write_image() *)

link_graph(p) ==
  /\ At(p, "link")
  /\ IF NamesNoService(Srcs(p)) \/ NamesItself(Srcs(p)) \/ visit_all(Srcs(p)).cycle
     THEN Go(p, job[p], "refused")
     ELSE Go(p, [job[p] EXCEPT !.b.height = visit_all(Srcs(p)).height], "order")

order_graph(p) ==
  /\ At(p, "order")
  /\ Go(p, [job[p] EXCEPT !.b.order = schedule(Srcs(p), job[p].b.height)], "image")

make_image(p) ==
  /\ At(p, "image")
  /\ LET img == write_image(Srcs(p), job[p].b.order) IN
     IF PolicyRefused(img) THEN Go(p, job[p], "refused")
     ELSE IF ~ng_verify(img) THEN Go(p, job[p], "internal error")
     ELSE Go(p, [job[p] EXCEPT !.b.image = img], IF job[p].dry THEN "done" ELSE "lock_out")

Compiles(p) ==
  \/ check_begin(p) \/ link_graph(p) \/ order_graph(p) \/ make_image(p)
  \/ \E how \in {"skip", "runs", "memfd", "stage", "fork"} : check_next(p, how)
  \/ reap_poll(p) \/ reap_expire(p) \/ collect_one(p) \/ collect_error(p) \/ report(p)

Kids(p) ==
  \/ \E k \in DOMAIN Chk(p).kid, st \in {"ok", "fail"} : kid_ends(p, k, st)
  \/ \E s \in 1..nslot : time_passes(p, s)

-----------------------------------------------------------------------------
(* Properties *)

\* A service directory is refused exactly when it names services that are not there, has a
\* cycle or ignores failures that others depend on; otherwise the image holds its services
\* and edges in the order ninit starts them, ng_verify() takes it, and what the supervisor
\* assumes of a graph is true of it.
BuildRight ==
  \A p \in Procs :
    /\ ~At(p, "internal error")
    /\ At(p, "refused") => ~Acceptable(Srcs(p))
    /\ job[p].b.image.svc # <<>> =>
         Acceptable(Srcs(p)) /\ RightImage(Srcs(p), job[p].b.image)

\* The syntax checks, which end in any order and move between the slots, are each counted
\* once and under the right name; and only if every script passed its own is a graph made.
ChecksCounted ==
  \A p \in Procs :
    LET c == Chk(p)
        done == c.reaped \ c.late
        went == \/ At(p, "checking") /\ Started(p) /\ c.slot = <<>>
                \/ Srcs(p) # <<>> /\ ~job[p].nocheck /\ job[p].phase \in {"link", "order", "image", "refused", "done"}
    IN  went =>
          /\ c.failed \ c.late = {k \in done : c.kid[k] = "fail"}
          /\ c.bad = Cardinality(c.failed \ c.late)
          /\ c.bad + c.unchecked + Cardinality({k \in done : c.kid[k] = "ok"}) = Cardinality(ToCheck(p))
          /\ ~At(p, "checking") => \A k \in ToCheck(p) : Syntax(p, k) = "ok"
=============================================================================
