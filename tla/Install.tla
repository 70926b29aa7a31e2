------------------------------ MODULE Install ------------------------------
(***************************************************************************)
(* ninitctl processes that work on the directory of the graph: init, whose *)
(* write_atomic() replaces the graph; add and del, which move service      *)
(* files; with kills, failing calls and crashes of the machine at any      *)
(* point.  "home" is the directory that holds the graph, "away" another    *)
(* one that ninitctl init -d may build from.                               *)
(*                                                                         *)
(* A file is named by the process that wrote it.  jr holds the states of   *)
(* the home directory a crash could leave: the first is on the disk, the   *)
(* last is what processes see.  Names that begin with a dot are left out:  *)
(* read_sources() skips them.                                              *)
(***************************************************************************)
EXTENDS Compile

CONSTANTS
  Given,      \* the files that are there at first
  None,
  MaxCrash,   \* how often the machine stops
  Scenarios   \* how it all begins: what each process is asked, and what is there

VARIABLES jr, data, lock, away, hist, crashes

fsVars == <<jr, data, hist>>
vars == <<job, jr, data, lock, away, hist, crashes>>

Files == Procs \union Given
Live == jr[Len(jr)]
Dirs == {"home", "away"}
Ends == {"done", "dead", "refused", "internal error", "killed"}

\* Files that are there at first are no one's; add and del work in the directory of the graph.
\* A directory is finite, and a name is a number.
ASSUME ScenariosAssumption ==
  /\ MaxCrash \in Nat
  /\ None \notin Files /\ Given \intersect Procs = {}
  /\ \A sc \in Scenarios :
       /\ {sc.path, sc.old} \subseteq Given \union {None}
       /\ \A d \in {sc.svc, sc.unused, sc.away} : IsFiniteSet(DOMAIN d) /\ DOMAIN d \subseteq Nat
       /\ \A p \in Procs :
            /\ sc.ask[p].cmd \in {"none", "init", "add", "del"} /\ sc.ask[p].dir \in Dirs
            /\ sc.ask[p].cmd # "init" => sc.ask[p].dir = "home"

\* The directory as processes see it has changed.
Changed(ns) == jr' = Append(jr, ns)

\* Releases what p holds, as its exit does.
Released(p) == lock' = [d \in Dirs |-> IF lock[d] = p THEN None ELSE lock[d]]

Exit(p, ph) == Go(p, job[p], ph) /\ Released(p)

Whole == {"written", "synced"}

\* The header of a file that was cut off may still be right.
graph_image(f) == data[f] \notin {"empty", "foreign"}

\* Mutant of NonGraph(): anything may be replaced.
NonGraph_no(ns) == FALSE

\* What the output would replace is not a graph.
NonGraph(ns) == \E f \in {ns.path, ns.old} \ {None} : ~graph_image(f)

-----------------------------------------------------------------------------
(* cmd_init() up to the image *)

\* Mutant of lock_dir(): nobody waits.
lock_dir_open(p, d) == lock' = [lock EXCEPT ![d] = p]

\* flock() waits until nobody holds the directory.
lock_dir(p, d) == lock[d] = None /\ lock' = [lock EXCEPT ![d] = p]

begin(p) ==
  /\ At(p, "asked")
  /\ lock_dir(p, job[p].dir)
  /\ Go(p, job[p], IF job[p].cmd # "init" THEN "move" ELSE "read")
  /\ UNCHANGED <<fsVars, away, crashes>>

\* read_sources(), after refuse_nongraph() where the output is in another directory.
read(p) ==
  /\ IF NonGraph(Live) THEN At(p, "read") /\ Die_(p)
     ELSE read_sources(p, IF job[p].dir = "home" THEN Live.svc ELSE away)
  /\ UNCHANGED <<fsVars, lock, away, crashes>>

compile(p) == Compiles(p) /\ UNCHANGED <<fsVars, lock, away, crashes>>

check_runs(p) == Kids(p) /\ UNCHANGED <<fsVars, lock, away, crashes>>

\* A process that has printed its error is gone, and so are its locks.
leave(p) ==
  /\ job[p].phase \in Ends /\ \E d \in Dirs : lock[d] = p
  /\ Released(p)
  /\ UNCHANGED <<job, fsVars, away, crashes>>

-----------------------------------------------------------------------------
(* write_atomic() *)

\* Mutant of lock_out(): only the directory of the services is locked.
lock_out_not(p) ==
  /\ At(p, "lock_out")
  /\ Go(p, job[p], "tmp")
  /\ UNCHANGED <<fsVars, lock, away, crashes>>

\* A directory that is held already is not locked again.
lock_out(p) ==
  /\ At(p, "lock_out")
  /\ IF lock["home"] = p THEN UNCHANGED lock ELSE lock_dir(p, "home")
  /\ Go(p, job[p], "tmp")
  /\ UNCHANGED <<fsVars, away, crashes>>

\* mkostemp() and fchmod().
make_tmp(p) ==
  /\ At(p, "tmp")
  /\ data' = [data EXCEPT ![p] = "empty"]
  /\ Go(p, job[p], "fill")
  /\ UNCHANGED <<jr, lock, away, hist, crashes>>

write_all(p) ==
  /\ At(p, "fill")
  /\ data' = [data EXCEPT ![p] = "written"]
  /\ Go(p, job[p], "flush")
  /\ UNCHANGED <<jr, lock, away, hist, crashes>>

\* Mutant of fsync_tmp(): the file is not synced.
fsync_tmp_not(p) ==
  /\ At(p, "flush")
  /\ Go(p, job[p], "keep")
  /\ UNCHANGED <<fsVars, lock, away, crashes>>

fsync_tmp(p) ==
  /\ At(p, "flush")
  /\ data' = [data EXCEPT ![p] = "synced"]
  /\ Go(p, job[p], "keep")
  /\ UNCHANGED <<jr, lock, away, hist, crashes>>

\* link(path, keep); the name is a hidden one.  ENOENT: there is nothing to keep.
link_keep(p) ==
  /\ At(p, "keep")
  /\ Go(p, [job[p] EXCEPT !.kept = Live.path], IF Live.path = None THEN "switch" ELSE "keep_old")
  /\ UNCHANGED <<fsVars, lock, away, crashes>>

\* rename(keep, old).  (If both are the same file already, it does nothing.)
rename_keep(p) ==
  /\ At(p, "keep_old")
  /\ Changed([Live EXCEPT !.old = job[p].kept])
  /\ Go(p, job[p], "switch")
  /\ UNCHANGED <<data, lock, away, hist, crashes>>

\* rename(tmp, path).
rename_tmp(p) ==
  /\ At(p, "switch")
  /\ Changed([Live EXCEPT !.path = p])
  /\ hist' = Append(hist, p)
  /\ Go(p, job[p], "sync")
  /\ UNCHANGED <<data, lock, away, crashes>>

\* Mutant of fsync_dir(): the directory is not synced.
fsync_dir_not(p) ==
  /\ At(p, "sync")
  /\ Exit(p, IF job[p].cmd # "init" /\ job[p].bad THEN "dead" ELSE "done")
  /\ UNCHANGED <<fsVars, away, crashes>>

\* fsync(dfd); then the process has nothing more to do.
fsync_dir(p) ==
  /\ At(p, "sync")
  /\ jr' = <<Live>>
  /\ Exit(p, IF job[p].cmd # "init" /\ job[p].bad THEN "dead" ELSE "done")
  /\ UNCHANGED <<data, away, hist, crashes>>

\* A call of write_atomic() fails: what is there stays as it is.  (For add and del a
\* failed sync is only a warning.)
write_fails(p) ==
  /\ job[p].phase \in {"tmp", "fill", "flush", "keep", "keep_old", "switch", "sync"}
  /\ Exit(p, IF job[p].cmd = "init" \/ job[p].bad THEN "dead" ELSE "done")
  /\ UNCHANGED <<fsVars, away, crashes>>

-----------------------------------------------------------------------------
(* svc_move(), for ninitctl add and del of one service *)

From(p) == IF job[p].cmd = "add" THEN Live.unused ELSE Live.svc
To(p) == IF job[p].cmd = "add" THEN Live.svc ELSE Live.unused
Without(d, i) == [k \in DOMAIN d \ {i} |-> d[k]]
With(d, i, e) == [k \in DOMAIN d \union {i} |-> IF k = i THEN e ELSE d[k]]
Moved(p, i, e) ==
  IF job[p].cmd = "add"
  THEN [Live EXCEPT !.svc = With(@, i, e), !.unused = Without(@, i)]
  ELSE [Live EXCEPT !.unused = With(@, i, e), !.svc = Without(@, i)]

\* It is not there (stat() follows links), or is there already.
move_refused(p) ==
  LET i == job[p].svc IN
  /\ At(p, "move")
  /\ \/ i \notin DOMAIN From(p) \/ i \in DOMAIN To(p)
     \/ i \in DOMAIN From(p) /\ From(p)[i].kind # "service"
  /\ Exit(p, "dead")
  /\ UNCHANGED <<fsVars, away, crashes>>

\* rename_noreplace(): a relative link then points to where nothing is.
move(p) ==
  LET i == job[p].svc IN
  /\ At(p, "move")
  /\ i \in DOMAIN From(p) /\ i \notin DOMAIN To(p) /\ From(p)[i].kind = "service"
  /\ LET e == From(p)[i] IN
     /\ Changed(Moved(p, i, IF e.link = "rel" THEN [e EXCEPT !.kind = "dangling"] ELSE e))
     /\ Go(p, job[p], IF e.link = "rel" THEN "relink" ELSE "sync")
  /\ UNCHANGED <<data, lock, away, hist, crashes>>

relink(p) ==
  LET i == job[p].svc IN
  /\ At(p, "relink")
  /\ Changed(IF job[p].cmd = "add" THEN [Live EXCEPT !.svc[i].kind = "service"]
             ELSE [Live EXCEPT !.unused[i].kind = "service"])
  /\ Go(p, job[p], "sync")
  /\ UNCHANGED <<data, lock, away, hist, crashes>>

\* "moved, but its symlink was not updated".
relink_fails(p) ==
  /\ At(p, "relink")
  /\ Go(p, [job[p] EXCEPT !.bad = TRUE], "sync")
  /\ UNCHANGED <<fsVars, lock, away, crashes>>

-----------------------------------------------------------------------------
(* The machine *)

kill(p) ==
  /\ job[p].phase \notin Ends \union {"asked"}
  /\ Exit(p, "killed")
  /\ UNCHANGED <<fsVars, away, crashes>>

\* The disk catches up, in the order of the changes.
writeback ==
  /\ Len(jr) > 1
  /\ jr' = Tail(jr)
  /\ UNCHANGED <<job, data, lock, away, hist, crashes>>

\* Where f stands among the graphs that have been in place.
Place(f) == CHOOSE k \in 1..Len(hist) : hist[k] = f

\* The history, when there are but these two.
First(path, old) ==
  (IF old \in {None, path} THEN <<>> ELSE <<old>>) \o (IF path = None THEN <<>> ELSE <<path>>)

\* What was written and not synced may be lost.
crash ==
  /\ crashes < MaxCrash /\ crashes' = crashes + 1
  /\ jr' = <<jr[1]>>
  /\ \E lost \in SUBSET {f \in Files : data[f] = "written"} :
       data' = [f \in Files |-> IF f \in lost THEN "torn" ELSE data[f]]
  /\ hist' = IF jr[1].path = None THEN First(jr[1].path, jr[1].old)
             ELSE SubSeq(hist, 1, Place(jr[1].path))
  /\ job' = [p \in Procs |-> IF job[p].phase \in Ends \union {"asked"} THEN job[p]
                             ELSE [job[p] EXCEPT !.phase = "killed"]]
  /\ lock' = [d \in Dirs |-> None]
  /\ UNCHANGED away

\* The graph of the last init but one, or none: the emergency shell.
load_previous(ns, ok) == IF ns.old # None /\ data[ns.old] \in ok THEN ns.old ELSE None

\* The graph a boot loads: one that ng_verify() takes.
load_graph(ns, ok) ==
  IF ns.path # None /\ data[ns.path] \in ok THEN ns.path ELSE load_previous(ns, ok)

-----------------------------------------------------------------------------
NewJob(a) ==
  [cmd |-> a.cmd, dir |-> a.dir, dry |-> a.dry, nocheck |-> a.nocheck, svc |-> a.svc,
   phase |-> IF a.cmd = "none" THEN "done" ELSE "asked",
   read |-> <<>>, b |-> NoBuild, kept |-> None, bad |-> FALSE]

Init ==
  \E sc \in Scenarios :
    /\ job = [p \in Procs |-> NewJob(sc.ask[p])]
    /\ jr = <<[path |-> sc.path, old |-> sc.old, svc |-> sc.svc, unused |-> sc.unused]>>
    /\ data = [f \in Files |-> IF f \notin Given THEN "none"
                               ELSE IF f \in sc.foreign THEN "foreign" ELSE "synced"]
    /\ lock = [d \in Dirs |-> None]
    /\ away = sc.away
    /\ hist = First(sc.path, sc.old)
    /\ crashes = 0

Step(p) ==
  \/ begin(p) \/ read(p) \/ compile(p) \/ leave(p)
  \/ lock_out(p) \/ make_tmp(p) \/ write_all(p) \/ fsync_tmp(p)
  \/ link_keep(p) \/ rename_keep(p) \/ rename_tmp(p) \/ fsync_dir(p) \/ write_fails(p)
  \/ move_refused(p) \/ move(p) \/ relink(p) \/ relink_fails(p)

Next ==
  \/ \E p \in Procs : Step(p) \/ check_runs(p) \/ kill(p)
  \/ writeback \/ crash

Spec == Init /\ [][Next]_vars

\* Step(p) is enabled: p is not gone and does not wait for a directory.
CanStep(p) ==
  /\ job[p].phase \in Ends => \E d \in Dirs : lock[d] = p
  /\ At(p, "asked") => lock[job[p].dir] = None
  /\ At(p, "lock_out") => lock["home"] \in {p, None}

\* A process goes on, its syntax checks end or their time passes, a directory that is
\* released is locked by one that waits.  (The first part is WF_vars(Step(p)), with what
\* enables a step written out: TLC would compute the graph again to find it out.)
FairSpec ==
  Spec /\ \A p \in Procs : /\ []<>~CanStep(p) \/ []<><<Step(p)>>_vars
                           /\ WF_vars(check_runs(p))

-----------------------------------------------------------------------------
(* Properties *)

Phases == Ends \union
  {"asked", "read", "check", "checking", "link", "order", "image", "lock_out", "tmp", "fill",
   "flush", "keep", "keep_old", "switch", "sync", "move", "relink"}

Writing == {"tmp", "fill", "flush", "keep", "keep_old", "switch", "sync", "move", "relink"}

\* The directory's states name files that exist; and who writes the graph or moves services
\* holds the directory, so that there is one of them at a time.
TypeOK ==
  /\ \A p \in Procs : job[p].phase \in Phases /\ job[p].kept \in Files \union {None}
  /\ Len(jr) > 0 /\ \A k \in 1..Len(jr) : {jr[k].path, jr[k].old} \subseteq Files \union {None}
  /\ data \in [Files -> {"none", "empty", "written", "synced", "torn", "foreign"}]
  /\ lock \in [Dirs -> Procs \union {None}]
  /\ crashes \in 0..MaxCrash
  /\ \A p \in Procs : job[p].phase \in Writing => lock["home"] = p

\* Wherever the machine stops, the graph and its .old are files written to the end and
\* synced (or what was there before the first init).
GraphWhole ==
  \A k \in 1..Len(jr) : \A f \in {jr[k].path, jr[k].old} \ {None} : data[f] \in {"synced", "foreign"}

Earlier(f) == IF Place(f) = 1 THEN None ELSE hist[Place(f) - 1]

\* Wherever the machine stops, .old is the graph that the one in place replaced, or the one
\* in place: no other process comes between, and a kill or a failure leaves nothing older.
Fallback ==
  \A k \in 1..Len(jr) :
    jr[k].path # None => jr[k].old \in {jr[k].path, Earlier(jr[k].path)}

\* Once ninitctl init has reported success, no crash brings back what it replaced.
Reported ==
  \A p \in Procs : At(p, "done") /\ job[p].cmd = "init" /\ ~job[p].dry =>
    \A k \in 1..Len(jr) : jr[k].path # None /\ Place(jr[k].path) >= Place(p)

\* While a graph is made of a directory and put in place, ninitctl add and del change
\* nothing in it: the new graph is that of the services there.
SourcesHeld ==
  \A p \in Procs : job[p].dir = "home" /\ job[p].read # <<>> /\ job[p].phase \notin Ends =>
    Live.svc = job[p].read

\* A file that is not a graph is never replaced.
ForeignStays == [][\A f \in Files : data[f] = "foreign" /\ Live.path = f => Live'.path = f]_vars

\* Whatever happens, a boot finds a whole graph if there has been one: the graph only
\* changes to one that was built, in one step, and a crash brings back at most what was
\* not yet durably replaced.
Store == INSTANCE GraphStore WITH
  Graphs <- Files,
  now <- load_graph(Live, Whole),
  may <- {load_graph(jr[k], {"synced"}) : k \in 1..Len(jr)}
StoreSpec == Store!Spec

\* Each ninitctl comes to an end: no check hangs it and no lock is kept.
NinitctlEnds == \A p \in Procs : At(p, "asked") ~> (job[p].phase \in Ends /\ \A d \in Dirs : lock[d] # p)
=============================================================================
