---------------------------- MODULE InstallProofs ----------------------------
(***************************************************************************)
(* Replacing the graph, for any number of ninitctl processes and any files *)
(* that are there at first: wherever the machine stops, a whole graph is   *)
(* in place, the one before it is what a boot falls back to, what was      *)
(* reported is not lost, and write_atomic() implements GraphStore.  The    *)
(* graph is made of services that stay as they are, and each syntax check  *)
(* is counted once.                                                        *)
(***************************************************************************)
EXTENDS Install, FiniteSetTheorems, TLAPS

-----------------------------------------------------------------------------
(* Sequences, and what a step of one process does to job *)

IsSeq(s) == s \in Seq({s[k] : k \in DOMAIN s})

LEMMA SeqIs == ASSUME NEW S, NEW s \in Seq(S) PROVE IsSeq(s)
  BY DEF IsSeq

LEMMA AppendIs ==
  ASSUME NEW s, IsSeq(s), NEW e
  PROVE  /\ IsSeq(Append(s, e)) /\ Len(s) \in Nat /\ Len(Append(s, e)) = Len(s) + 1
         /\ Append(s, e)[Len(s) + 1] = e
         /\ \A k \in 1..Len(s) : Append(s, e)[k] = s[k]
  <1> DEFINE S == {s[k] : k \in DOMAIN s} \union {e}
  <1>1. s \in Seq(S)
    BY DEF IsSeq
  <1>2. Append(s, e) \in Seq(S)
    BY <1>1
  <1>3. IsSeq(Append(s, e))
    BY <1>2, SeqIs
  <1> QED  BY <1>1, <1>2, <1>3

LEMMA TailIs ==
  ASSUME NEW s, IsSeq(s), Len(s) > 1
  PROVE  /\ IsSeq(Tail(s)) /\ Len(s) \in Nat /\ Len(Tail(s)) = Len(s) - 1
         /\ \A k \in 1..Len(s) - 1 : Tail(s)[k] = s[k + 1]
  <1> DEFINE S == {s[k] : k \in DOMAIN s}
  <1>1. s \in Seq(S) /\ Len(s) \in Nat
    BY DEF IsSeq
  <1>2. Tail(s) \in Seq(S)
    BY <1>1
  <1>3. IsSeq(Tail(s))
    BY <1>2, SeqIs
  <1> QED  BY <1>1, <1>2, <1>3

LEMMA OneIs ==
  ASSUME NEW e PROVE IsSeq(<<e>>) /\ Len(<<e>>) = 1 /\ <<e>>[1] = e
  BY DEF IsSeq

JobFields == {"cmd", "dir", "dry", "nocheck", "svc", "phase", "read", "b", "kept", "bad"}

JobShape == job = [p \in Procs |-> job[p]] /\ \A p \in Procs : DOMAIN job[p] = JobFields

\* Nothing but p is changed, and p is still asked the same.
OnlyJob(p) ==
  /\ job'[p].cmd = job[p].cmd /\ job'[p].dir = job[p].dir /\ job'[p].dry = job[p].dry
  /\ \A q \in Procs \ {p} : job'[q] = job[q]

LEMMA GoDoes ==
  ASSUME JobShape, NEW p \in Procs, NEW j, DOMAIN j = JobFields,
         j.cmd = job[p].cmd, j.dir = job[p].dir, j.dry = job[p].dry, NEW ph, Go(p, j, ph)
  PROVE  /\ JobShape' /\ OnlyJob(p) /\ job'[p].phase = ph
         /\ job'[p].kept = j.kept /\ job'[p].read = j.read
  BY DEF Go, JobShape, JobFields, OnlyJob

LEMMA GoSelf ==
  ASSUME JobShape, NEW p \in Procs, NEW ph, Go(p, job[p], ph)
  PROVE  /\ JobShape' /\ OnlyJob(p) /\ job'[p].phase = ph
         /\ job'[p].kept = job[p].kept /\ job'[p].read = job[p].read
  <1>1. DOMAIN job[p] = JobFields
    BY DEF JobShape
  <1> QED  BY <1>1, GoDoes

LEMMA SetChkDoes ==
  ASSUME JobShape, NEW p \in Procs, NEW c, SetChk(p, c)
  PROVE  /\ JobShape' /\ OnlyJob(p)
         /\ job'[p].phase = job[p].phase
         /\ job'[p].kept = job[p].kept /\ job'[p].read = job[p].read
  BY DEF SetChk, JobShape, JobFields, OnlyJob

Building == {"check", "checking", "link", "order", "image"}

\* A process that makes a graph of what it read goes on making it, ends, or goes to write it.
Goes(p, from, to, reads) ==
  /\ JobShape' /\ OnlyJob(p)
  /\ job[p].phase \in from /\ job'[p].phase \in to
  /\ job'[p].kept = job[p].kept /\ job'[p].read \in reads

LEMMA ReadDoes ==
  ASSUME JobShape, NEW p \in Procs, NEW d, read_sources(p, d)
  PROVE  Goes(p, {"read"}, {"dead", "link", "check"}, {job[p].read, d})
  <1> DEFINE x == [[job[p].b EXCEPT !.srcs = [i \in Services(d) |-> parse_src(d[i].file)]]
                    EXCEPT !.mode = OutMode(d)]
             j == [[job[p] EXCEPT !.read = d] EXCEPT !.b = x]
  <1>1. \/ Go(p, job[p], "dead") \/ Go(p, j, "link") \/ Go(p, j, "check")
    BY DEF read_sources, Die_
  <1>2. /\ DOMAIN j = JobFields
        /\ j.cmd = job[p].cmd /\ j.dir = job[p].dir /\ j.dry = job[p].dry
        /\ j.kept = job[p].kept /\ j.read = d
    BY DEF JobShape, JobFields
  <1> HIDE DEF j
  <1>3. \A ph : Go(p, j, ph)
           => /\ JobShape' /\ OnlyJob(p) /\ job'[p].phase = ph
              /\ job'[p].kept = job[p].kept /\ job'[p].read = d
    BY <1>2, GoDoes
  <1>4. \A ph : Go(p, job[p], ph)
           => /\ JobShape' /\ OnlyJob(p) /\ job'[p].phase = ph
              /\ job'[p].kept = job[p].kept /\ job'[p].read = job[p].read
    BY GoSelf
  <1> QED  BY <1>1, <1>3, <1>4 DEF read_sources, At, Goes

LEMMA CompilesDoes ==
  ASSUME JobShape, NEW p \in Procs, Compiles(p)
  PROVE  /\ Goes(p, Building, Building \union Ends \union {"lock_out"}, {job[p].read})
         /\ job'[p].phase = "done" => job[p].dry
  <1>0. \A j, ph :
           /\ DOMAIN j = JobFields /\ j.cmd = job[p].cmd /\ j.dir = job[p].dir /\ j.dry = job[p].dry
           /\ j.kept = job[p].kept /\ j.read = job[p].read /\ Go(p, j, ph)
           => /\ JobShape' /\ OnlyJob(p) /\ job'[p].phase = ph
              /\ job'[p].kept = job[p].kept /\ job'[p].read = job[p].read
    BY GoDoes
  <1>1. \A ph : Go(p, job[p], ph)
           => /\ JobShape' /\ OnlyJob(p) /\ job'[p].phase = ph
              /\ job'[p].kept = job[p].kept /\ job'[p].read = job[p].read
    BY GoSelf
  <1>1b. \A x, ph : Go(p, [job[p] EXCEPT !.b = x], ph)
           => /\ JobShape' /\ OnlyJob(p) /\ job'[p].phase = ph
              /\ job'[p].kept = job[p].kept /\ job'[p].read = job[p].read
    <2> TAKE x, ph
    <2> DEFINE j == [job[p] EXCEPT !.b = x]
    <2>1. /\ DOMAIN j = JobFields /\ j.cmd = job[p].cmd /\ j.dir = job[p].dir /\ j.dry = job[p].dry
          /\ j.kept = job[p].kept /\ j.read = job[p].read
      BY DEF JobShape, JobFields
    <2> HIDE DEF j
    <2>2. Go(p, j, ph) => /\ JobShape' /\ OnlyJob(p) /\ job'[p].phase = ph
                          /\ job'[p].kept = job[p].kept /\ job'[p].read = job[p].read
      BY <1>0, <2>1
    <2> QED  BY <2>2 DEF j
  <1> DEFINE Did(ph) == /\ JobShape' /\ OnlyJob(p) /\ job'[p].phase = ph
                        /\ job'[p].kept = job[p].kept /\ job'[p].read = job[p].read
             Result == /\ Goes(p, Building, Building \union Ends \union {"lock_out"}, {job[p].read})
                       /\ job'[p].phase = "done" => job[p].dry
  <1>1c. ASSUME NEW ph, Did(ph), job[p].phase \in Building, ph = "done" => job[p].dry,
                ph \in Building \union Ends \union {"lock_out"}
         PROVE  Result
    BY <1>1c DEF Goes
  <1> HIDE DEF Did, Result
  <1> SUFFICES Result
    BY DEF Result
  <1>2. CASE check_begin(p)
    <2> PICK sh \in BOOLEAN, giveup \in BOOLEAN :
          Go(p, [job[p] EXCEPT !.b.chk = [NoCheck EXCEPT !.shell_ok = sh, !.giveup = giveup]], "checking")
      BY <1>2 DEF check_begin
    <2> DEFINE x == [job[p].b EXCEPT !.chk = [NoCheck EXCEPT !.shell_ok = sh, !.giveup = giveup]]
    <2>1. Go(p, [job[p] EXCEPT !.b = x], "checking")
      OBVIOUS
    <2>2. Did("checking") /\ job[p].phase = "check"
      BY <1>1b, <1>2, <2>1 DEF check_begin, At, Did
    <2> QED  BY <1>1c, <2>2 DEF Building
  <1>3. CASE link_graph(p)
    <2> DEFINE x == [job[p].b EXCEPT !.height = visit_all(Srcs(p)).height]
    <2>1. Go(p, job[p], "refused") \/ Go(p, [job[p] EXCEPT !.b = x], "order")
      BY <1>3 DEF link_graph
    <2>2. (Did("refused") \/ Did("order")) /\ job[p].phase = "link"
      <3>1. job[p].phase = "link"
        BY <1>3 DEF link_graph, At
      <3> HIDE DEF x
      <3> QED  BY <1>1, <1>1b, <2>1, <3>1 DEF Did
    <2> QED  BY <1>1c, <2>2 DEF Building, Ends
  <1>4. CASE order_graph(p)
    <2> DEFINE x == [job[p].b EXCEPT !.order = schedule(Srcs(p), job[p].b.height)]
    <2>1. Go(p, [job[p] EXCEPT !.b = x], "image")
      BY <1>4 DEF order_graph
    <2>2. Did("image") /\ job[p].phase = "order"
      BY <1>1b, <1>4, <2>1 DEF order_graph, At, Did
    <2> QED  BY <1>1c, <2>2 DEF Building
  <1>5. CASE make_image(p)
    <2> DEFINE x == [job[p].b EXCEPT !.image = write_image(Srcs(p), job[p].b.order)]
    <2>1. \/ Go(p, job[p], "refused") \/ Go(p, job[p], "internal error")
          \/ job[p].dry /\ Go(p, [job[p] EXCEPT !.b = x], "done")
          \/ Go(p, [job[p] EXCEPT !.b = x], "lock_out")
      BY <1>5 DEF make_image
    <2>2. job[p].phase = "image"
      BY <1>5 DEF make_image, At
    <2> HIDE DEF x
    <2>3. Did("refused") \/ Did("internal error") \/ (job[p].dry /\ Did("done")) \/ Did("lock_out")
      BY <1>1, <1>1b, <2>1 DEF Did
    <2> QED  BY <1>1c, <2>2, <2>3 DEF Building, Ends
  <1>6. CASE report(p)
    <2>1. (Did("dead") \/ Did("link")) /\ job[p].phase = "checking"
      BY <1>1, <1>6 DEF report, At, Did
    <2> QED  BY <1>1c, <2>1 DEF Building, Ends
  <1>7. CASE \E how \in {"skip", "runs", "memfd", "stage", "fork"} : check_next(p, how)
    <2>1. At(p, "checking") /\ (Go(p, job[p], "dead") \/ \E c : SetChk(p, c))
      BY <1>7 DEF check_next, Die_
    <2>2. (Did("dead") \/ Did("checking")) /\ job[p].phase = "checking"
      BY <1>1, <2>1, SetChkDoes DEF At, Did
    <2> QED  BY <1>1c, <2>2 DEF Building, Ends
  <1>8. CASE reap_poll(p) \/ reap_expire(p) \/ collect_error(p)
    <2>1. At(p, "checking") /\ \E c : SetChk(p, c)
      BY <1>8 DEF reap_poll, reap_expire, collect_error, Collecting
    <2>2. Did("checking") /\ job[p].phase = "checking"
      BY <2>1, SetChkDoes DEF At, Did
    <2> QED  BY <1>1c, <2>2 DEF Building
  <1>9. CASE collect_one(p)
    <2>1. At(p, "checking") /\ \E c : SetChk(p, c)
      BY <1>9 DEF collect_one, Collecting
    <2>2. Did("checking") /\ job[p].phase = "checking"
      BY <2>1, SetChkDoes DEF At, Did
    <2> QED  BY <1>1c, <2>2 DEF Building
  <1> QED  BY <1>2, <1>3, <1>4, <1>5, <1>6, <1>7, <1>8, <1>9 DEF Compiles

LEMMA KidsDoes ==
  ASSUME JobShape, NEW p \in Procs, Kids(p)
  PROVE  Goes(p, Building, Building, {job[p].read})
  <1>1. At(p, "checking") /\ \E c : SetChk(p, c)
    BY DEF Kids, kid_ends, time_passes
  <1> QED  BY <1>1, SetChkDoes DEF At, Goes, Building
-----------------------------------------------------------------------------
(* Types, and who holds the directory *)

DirOK ==
  /\ IsSeq(jr) /\ Len(jr) > 0
  /\ \A k \in 1..Len(jr) :
       /\ DOMAIN jr[k] = {"path", "old", "svc", "unused"}
       /\ jr[k].path \in Files \union {None} /\ jr[k].old \in Files \union {None}

JobOK ==
  \A p \in Procs :
    /\ job[p].phase \in Phases /\ job[p].kept \in Files \union {None}
    /\ job[p].dir \in Dirs /\ (job[p].cmd # "init" => job[p].dir = "home")

DataOK == data \in [Files -> {"none", "empty", "written", "synced", "torn", "foreign"}]

\* Who writes the graph or moves services holds the directory.
HoldOK ==
  /\ lock \in [Dirs -> Procs \union {None}]
  /\ \A p \in Procs : job[p].phase \in Writing => lock["home"] = p

Types == JobShape /\ JobOK /\ DataOK /\ HoldOK /\ DirOK /\ crashes \in 0..MaxCrash

\* The locks a step of p can leave.
LockStep(p) == lock' = lock \/ Released(p) \/ \E d \in Dirs : lock_dir(p, d)

\* What a step of p does to job and lock.
ProcStep(p) ==
  /\ JobShape' /\ OnlyJob(p) /\ LockStep(p) /\ crashes' = crashes
  /\ job'[p].phase \in Phases /\ job'[p].kept \in {job[p].kept, Live.path}
  /\ job'[p].phase \in Writing => lock'["home"] = p

LEMMA LiveIs ==
  ASSUME DirOK
  PROVE  /\ Len(jr) \in Nat \ {0} /\ Len(jr) \in 1..Len(jr)
         /\ DOMAIN Live = {"path", "old", "svc", "unused"}
         /\ Live.path \in Files \union {None} /\ Live.old \in Files \union {None}
  BY DEF DirOK, IsSeq, Live

LEMMA StepsDo ==
  ASSUME Types, NEW p \in Procs, Step(p) \/ check_runs(p) \/ kill(p)
  PROVE  ProcStep(p)
  <1> USE DEF Types
  <1>1. \A ph : Go(p, job[p], ph)
           => JobShape' /\ OnlyJob(p) /\ job'[p].phase = ph /\ job'[p].kept = job[p].kept
    BY GoSelf
  <1>2. CASE begin(p)
    <2>1. lock_dir(p, job[p].dir) /\ job[p].dir \in Dirs /\ crashes' = crashes
      BY <1>2 DEF begin, JobOK
    <2>2. CASE job[p].cmd = "init"
      <3>1. JobShape' /\ OnlyJob(p) /\ job'[p].phase = "read" /\ job'[p].kept = job[p].kept
        BY <1>1, <1>2, <2>2 DEF begin
      <3> QED  BY <2>1, <3>1 DEF ProcStep, LockStep, Phases, Writing
    <2>3. CASE job[p].cmd # "init"
      <3>1. lock'["home"] = p
        BY <2>1, <2>3 DEF lock_dir, HoldOK, JobOK, Dirs
      <3> QED  BY <1>1, <1>2, <2>1, <2>3, <3>1 DEF begin, ProcStep, LockStep, Phases, Writing, Ends
    <2> QED  BY <2>2, <2>3
  <1>3. CASE read(p)
    <2>1. lock' = lock /\ crashes' = crashes
      BY <1>3 DEF read
    <2>2. \/ Go(p, job[p], "dead")
          \/ \E d : read_sources(p, d)
      BY <1>3 DEF read, Die_
    <2>3. CASE Go(p, job[p], "dead")
      <3>1. JobShape' /\ OnlyJob(p) /\ job'[p].phase = "dead" /\ job'[p].kept = job[p].kept
        BY <1>1, <2>3
      <3> QED  BY <2>1, <3>1 DEF ProcStep, LockStep, Phases, Writing, Ends
    <2>4. ASSUME NEW d, read_sources(p, d) PROVE ProcStep(p)
      BY <2>1, <2>4, ReadDoes DEF Goes, ProcStep, LockStep, Phases, Writing, Ends
    <2> QED  BY <2>2, <2>3, <2>4
  <1>4. CASE compile(p)
    <2>1. Goes(p, Building, Building \union Ends \union {"lock_out"}, {job[p].read})
      BY <1>4, CompilesDoes DEF compile
    <2> QED  BY <1>4, <2>1 DEF compile, Goes, Building, ProcStep, LockStep, Phases, Writing, Ends
  <1>5. CASE check_runs(p)
    <2>1. Goes(p, Building, Building, {job[p].read})
      BY <1>5, KidsDoes DEF check_runs
    <2> QED  BY <1>5, <2>1 DEF check_runs, Goes, Building, ProcStep, LockStep, Phases, Writing, Ends
  <1>6. CASE leave(p)
    <2>1. job' = job /\ Released(p) /\ crashes' = crashes /\ job[p].phase \in Ends
      BY <1>6 DEF leave
    <2>2. JobShape' /\ OnlyJob(p)
      BY <2>1 DEF JobShape, OnlyJob
    <2> QED  BY <2>1, <2>2 DEF ProcStep, LockStep, Phases, Writing, Ends
  <1>7. CASE lock_out(p)
    <2>1. LockStep(p) /\ lock'["home"] = p
      BY <1>7 DEF lock_out, lock_dir, LockStep, Dirs, HoldOK
    <2> QED  BY <1>1, <1>7, <2>1 DEF lock_out, ProcStep, Phases
  <1>8. CASE make_tmp(p) \/ write_all(p) \/ fsync_tmp(p) \/ rename_keep(p) \/ rename_tmp(p)
    <2>1. lock["home"] = p
      BY <1>8 DEF make_tmp, write_all, fsync_tmp, rename_keep, rename_tmp, At, HoldOK, Writing
    <2> QED  BY <1>1, <1>8, <2>1
             DEF make_tmp, write_all, fsync_tmp, rename_keep, rename_tmp, ProcStep, LockStep, Phases
  <1>9. CASE link_keep(p)
    <2>1. lock["home"] = p
      BY <1>9 DEF link_keep, At, HoldOK, Writing
    <2> DEFINE j == [job[p] EXCEPT !.kept = Live.path]
    <2>2. /\ DOMAIN j = JobFields
          /\ j.cmd = job[p].cmd /\ j.dir = job[p].dir /\ j.dry = job[p].dry /\ j.kept = Live.path
      BY DEF JobShape, JobFields
    <2>3. Go(p, j, IF Live.path = None THEN "switch" ELSE "keep_old")
      BY <1>9 DEF link_keep
    <2> HIDE DEF j
    <2>4. /\ JobShape' /\ OnlyJob(p) /\ job'[p].kept = Live.path
          /\ job'[p].phase = IF Live.path = None THEN "switch" ELSE "keep_old"
      BY <2>2, <2>3, GoDoes
    <2> QED  BY <1>9, <2>1, <2>4 DEF link_keep, ProcStep, LockStep, Phases
  <1>10. CASE fsync_dir(p) \/ write_fails(p) \/ move_refused(p) \/ kill(p)
    <2>1. Released(p) /\ crashes' = crashes /\ \E ph \in Ends : Go(p, job[p], ph)
      BY <1>10 DEF fsync_dir, write_fails, move_refused, kill, Exit, Ends
    <2> QED  BY <1>1, <2>1 DEF ProcStep, LockStep, Phases, Writing, Ends
  <1>11. CASE move(p) \/ relink(p)
    <2>1. lock["home"] = p
      BY <1>11 DEF move, relink, At, HoldOK, Writing
    <2>2. lock' = lock /\ crashes' = crashes /\ \E ph \in {"relink", "sync"} : Go(p, job[p], ph)
      BY <1>11 DEF move, relink
    <2> QED  BY <1>1, <2>1, <2>2 DEF ProcStep, LockStep, Phases
  <1>12. CASE relink_fails(p)
    <2>1. lock["home"] = p
      BY <1>12 DEF relink_fails, At, HoldOK, Writing
    <2> DEFINE j == [job[p] EXCEPT !.bad = TRUE]
    <2>2. /\ DOMAIN j = JobFields
          /\ j.cmd = job[p].cmd /\ j.dir = job[p].dir /\ j.dry = job[p].dry /\ j.kept = job[p].kept
      BY DEF JobShape, JobFields
    <2>3. Go(p, j, "sync")
      BY <1>12 DEF relink_fails
    <2> HIDE DEF j
    <2>4. JobShape' /\ OnlyJob(p) /\ job'[p].phase = "sync" /\ job'[p].kept = job[p].kept
      BY <2>2, <2>3, GoDoes
    <2> QED  BY <1>12, <2>1, <2>4 DEF relink_fails, ProcStep, LockStep, Phases
  <1> QED  BY <1>2, <1>3, <1>4, <1>5, <1>6, <1>7, <1>8, <1>9, <1>10, <1>11, <1>12 DEF Step
LEMMA ProcTypes ==
  ASSUME Types, NEW p \in Procs, ProcStep(p)
  PROVE  JobShape' /\ JobOK' /\ HoldOK' /\ crashes' \in 0..MaxCrash
  <1>1. JobShape' /\ crashes' \in 0..MaxCrash
    BY DEF Types, ProcStep
  <1>2. JobOK'
    <2>1. job'[p].kept \in Files \union {None}
      BY LiveIs DEF Types, ProcStep, JobOK
    <2> QED  BY <2>1 DEF Types, ProcStep, JobOK, OnlyJob
  <1>3. HoldOK'
    <2>1. lock' \in [Dirs -> Procs \union {None}]
      BY DEF Types, ProcStep, LockStep, HoldOK, Released, lock_dir
    <2>2. ASSUME NEW q \in Procs, job'[q].phase \in Writing PROVE lock'["home"] = q
      <3>1. CASE q = p
        BY <2>2, <3>1 DEF ProcStep
      <3>2. CASE q # p
        <4>1. lock["home"] = q /\ q # None
          BY <2>2, <3>2, ScenariosAssumption DEF Types, ProcStep, OnlyJob, HoldOK, Files
        <4> QED  BY <3>2, <4>1 DEF Types, ProcStep, LockStep, HoldOK, Released, lock_dir, Dirs
      <3> QED  BY <3>1, <3>2
    <2> QED  BY <2>1, <2>2 DEF HoldOK
  <1> QED  BY <1>1, <1>2, <1>3

-----------------------------------------------------------------------------
(* What a step does to files and to the directory *)

NsFields == {"path", "old", "svc", "unused"}

\* Another file is kept as .old, or takes the place of the graph, or services are moved.
DirStep(p) ==
  \/ jr' = jr
  \/ jr' = <<Live>>
  \/ \E ns : /\ jr' = Append(jr, ns) /\ DOMAIN ns = NsFields
             /\ \/ ns.path = Live.path /\ ns.old = Live.old
                \/ ns.path = Live.path /\ ns.old = job[p].kept /\ job[p].phase = "keep_old"
                \/ /\ ns.path = p /\ ns.old = Live.old
                   /\ job[p].phase = "switch" /\ job'[p].phase = "sync"

DataStep(p) ==
  \/ data' = data
  \/ \E v \in {"empty", "written", "synced"} :
       /\ data' = [data EXCEPT ![p] = v]
       /\ job[p].phase \in {"tmp", "fill", "flush"}

LEMMA FilesDo ==
  ASSUME Types, NEW p \in Procs, Step(p) \/ check_runs(p) \/ kill(p)
  PROVE  DirStep(p) /\ DataStep(p)
  <1>0. DOMAIN Live = NsFields
    BY LiveIs DEF Types, NsFields
  <1>1. CASE \/ begin(p) \/ read(p) \/ compile(p) \/ leave(p) \/ lock_out(p) \/ link_keep(p)
             \/ write_fails(p) \/ move_refused(p) \/ relink_fails(p) \/ check_runs(p) \/ kill(p)
    BY <1>1 DEF begin, read, compile, leave, lock_out, link_keep, write_fails, move_refused,
                relink_fails, check_runs, kill, fsVars, DirStep, DataStep
  <1>2. CASE make_tmp(p) \/ write_all(p) \/ fsync_tmp(p)
    BY <1>2 DEF make_tmp, write_all, fsync_tmp, At, DirStep, DataStep
  <1>3. CASE rename_keep(p)
    <2> DEFINE ns == [Live EXCEPT !.old = job[p].kept]
    <2>1. DOMAIN ns = NsFields /\ ns.path = Live.path /\ ns.old = job[p].kept
      BY <1>0 DEF NsFields
    <2>2. jr' = Append(jr, ns) /\ data' = data /\ job[p].phase = "keep_old"
      BY <1>3 DEF rename_keep, Changed, At
    <2> QED  BY <2>1, <2>2 DEF DirStep, DataStep
  <1>4. CASE rename_tmp(p)
    <2> DEFINE ns == [Live EXCEPT !.path = p]
    <2>1. DOMAIN ns = NsFields /\ ns.path = p /\ ns.old = Live.old
      BY <1>0 DEF NsFields
    <2>2. /\ jr' = Append(jr, ns) /\ data' = data
          /\ job[p].phase = "switch" /\ job'[p].phase = "sync"
      BY <1>4, GoSelf DEF rename_tmp, Changed, At, Types
    <2> QED  BY <2>1, <2>2 DEF DirStep, DataStep
  <1>5. CASE fsync_dir(p)
    BY <1>5 DEF fsync_dir, DirStep, DataStep
  <1>6. CASE move(p)
    <2>1. data' = data /\ \E i, e : jr' = Append(jr, Moved(p, i, e))
      BY <1>6 DEF move, Changed
    <2>2. \A i, e : /\ DOMAIN Moved(p, i, e) = NsFields
                   /\ Moved(p, i, e).path = Live.path /\ Moved(p, i, e).old = Live.old
      BY <1>0 DEF Moved, NsFields
    <2> QED  BY <2>1, <2>2 DEF DirStep, DataStep
  <1>7. CASE relink(p)
    <2>1. data' = data /\ \E x : \/ jr' = Append(jr, [Live EXCEPT !.svc = x])
                                 \/ jr' = Append(jr, [Live EXCEPT !.unused = x])
      BY <1>7 DEF relink, Changed
    <2>2. \A x : /\ DOMAIN [Live EXCEPT !.svc = x] = NsFields
                /\ [Live EXCEPT !.svc = x].path = Live.path /\ [Live EXCEPT !.svc = x].old = Live.old
                /\ DOMAIN [Live EXCEPT !.unused = x] = NsFields
                /\ [Live EXCEPT !.unused = x].path = Live.path
                /\ [Live EXCEPT !.unused = x].old = Live.old
      BY <1>0 DEF NsFields
    <2> QED  BY <2>1, <2>2 DEF DirStep, DataStep
  <1> QED  BY <1>1, <1>2, <1>3, <1>4, <1>5, <1>6, <1>7 DEF Step

LEMMA DirTypes ==
  ASSUME Types, NEW p \in Procs, DirStep(p), DataStep(p) PROVE DirOK' /\ DataOK'
  <1>1. DataOK'
    BY DEF Types, DataOK, DataStep, Files
  <1>2. CASE jr' = jr
    <2>1. IsSeq(jr) => IsSeq(jr')
      BY <1>2, Zenon
    <2> QED  BY <1>1, <1>2, <2>1 DEF Types, DirOK
  <1>3. CASE jr' = <<Live>>
    <2>1. IsSeq(jr') /\ Len(jr') = 1 /\ jr'[1] = Live
      BY <1>3, OneIs
    <2> QED  BY <1>1, <2>1, LiveIs DEF Types, DirOK
  <1>4. ASSUME NEW ns, jr' = Append(jr, ns), DOMAIN ns = NsFields,
               ns.path \in Files \union {None}, ns.old \in Files \union {None}
        PROVE  DirOK'
    <2>1. /\ IsSeq(jr') /\ Len(jr) \in Nat /\ Len(jr') = Len(jr) + 1
          /\ jr'[Len(jr) + 1] = ns /\ \A k \in 1..Len(jr) : jr'[k] = jr[k]
      BY <1>4, AppendIs DEF Types, DirOK
    <2>2. ASSUME NEW k \in 1..Len(jr')
          PROVE  /\ DOMAIN jr'[k] = {"path", "old", "svc", "unused"}
                 /\ jr'[k].path \in Files \union {None} /\ jr'[k].old \in Files \union {None}
      <3>1. CASE k = Len(jr) + 1
        BY <1>4, <2>1, <3>1 DEF NsFields
      <3>2. CASE k \in 1..Len(jr)
        BY <2>1, <3>2 DEF Types, DirOK
      <3> QED  BY <2>1, <3>1, <3>2
    <2> QED  BY <2>1, <2>2 DEF DirOK
  <1>5. ASSUME NEW ns, jr' = Append(jr, ns), DOMAIN ns = NsFields,
               \/ ns.path = Live.path /\ ns.old = Live.old
               \/ ns.path = Live.path /\ ns.old = job[p].kept
               \/ ns.path = p /\ ns.old = Live.old
        PROVE  DirOK'
    <2>1. ns.path \in Files \union {None} /\ ns.old \in Files \union {None}
      BY <1>5, LiveIs DEF Types, JobOK, Files
    <2> QED  BY <1>4, <1>5, <2>1
  <1> QED  BY <1>1, <1>2, <1>3, <1>5 DEF DirStep
-----------------------------------------------------------------------------
(* How a process goes on *)

\* The name of the new file is not used again.
Late == {"sync"} \union Ends

\* Between refuse_nongraph() and the switch.
Past == Building \union {"lock_out", "tmp", "fill", "flush", "keep", "keep_old", "switch"}

PhaseStep(p) ==
  /\ job[p].phase \in Late => job'[p].phase \in Late
  /\ job'[p].phase = "keep" => job[p].phase = "flush" /\ data' = [data EXCEPT ![p] = "synced"]
  /\ job'[p].phase = "keep_old" =>
       job[p].phase = "keep" /\ job'[p].kept = Live.path /\ Live.path # None
  /\ job'[p].phase = "switch" => job[p].phase \in {"keep", "keep_old"}
  /\ job'[p].phase \in Past => job[p].phase \in Past \/ ~NonGraph(Live)

LEMMA PhasesDo ==
  ASSUME Types, NEW p \in Procs, Step(p) \/ check_runs(p) \/ kill(p)
  PROVE  PhaseStep(p)
  <1> USE DEF PhaseStep, Late, Past, Building, Ends
  <1>1. \A ph : Go(p, job[p], ph) => job'[p].phase = ph
    BY GoSelf DEF Types
  <1>2. CASE begin(p)
    <2>1. job'[p].phase \in {"move", "read"} /\ job[p].phase = "asked"
      BY <1>1, <1>2 DEF begin, At
    <2> QED  BY <2>1
  <1>3. CASE read(p)
    <2>1. job[p].phase = "read"
      BY <1>3 DEF read, read_sources, At
    <2>2. CASE NonGraph(Live)
      <3>1. job'[p].phase = "dead"
        BY <1>1, <1>3, <2>2 DEF read, Die_
      <3> QED  BY <2>1, <3>1
    <2>3. CASE ~NonGraph(Live)
      <3>1. \E d : read_sources(p, d)
        BY <1>3, <2>3 DEF read
      <3>2. job'[p].phase \in {"dead", "link", "check"}
        BY <3>1, ReadDoes DEF Types, Goes
      <3> QED  BY <2>1, <2>3, <3>2
    <2> QED  BY <2>2, <2>3
  <1>4. CASE compile(p) \/ check_runs(p)
    <2>1. Goes(p, Building, Building \union Ends \union {"lock_out"}, {job[p].read})
      BY <1>4, CompilesDoes, KidsDoes DEF compile, check_runs, Types, Goes
    <2> QED  BY <2>1 DEF Goes
  <1>5. CASE leave(p)
    BY <1>5 DEF leave
  <1>6. CASE lock_out(p) \/ make_tmp(p) \/ write_all(p)
    <2>1. \/ job[p].phase = "lock_out" /\ job'[p].phase = "tmp"
          \/ job[p].phase = "tmp" /\ job'[p].phase = "fill"
          \/ job[p].phase = "fill" /\ job'[p].phase = "flush"
      BY <1>1, <1>6 DEF lock_out, make_tmp, write_all, At
    <2> QED  BY <2>1
  <1>7. CASE fsync_tmp(p) \/ rename_keep(p) \/ rename_tmp(p)
    <2>1. \/ /\ job[p].phase = "flush" /\ job'[p].phase = "keep"
             /\ data' = [data EXCEPT ![p] = "synced"]
          \/ job[p].phase = "keep_old" /\ job'[p].phase = "switch"
          \/ job[p].phase = "switch" /\ job'[p].phase = "sync"
      BY <1>1, <1>7 DEF fsync_tmp, rename_keep, rename_tmp, At
    <2> QED  BY <2>1
  <1>8. CASE link_keep(p)
    <2> DEFINE j == [job[p] EXCEPT !.kept = Live.path]
    <2>1. /\ DOMAIN j = JobFields
          /\ j.cmd = job[p].cmd /\ j.dir = job[p].dir /\ j.dry = job[p].dry /\ j.kept = Live.path
      BY DEF Types, JobShape, JobFields
    <2>2. Go(p, j, IF Live.path = None THEN "switch" ELSE "keep_old") /\ job[p].phase = "keep"
      BY <1>8 DEF link_keep, At
    <2> HIDE DEF j
    <2>3. /\ job'[p].kept = Live.path
          /\ job'[p].phase = IF Live.path = None THEN "switch" ELSE "keep_old"
      BY <2>1, <2>2, GoDoes DEF Types
    <2> QED  BY <2>2, <2>3
  <1>9. CASE fsync_dir(p) \/ write_fails(p) \/ move_refused(p) \/ kill(p)
    <2>1. job'[p].phase \in Ends
      BY <1>1, <1>9 DEF fsync_dir, write_fails, move_refused, kill, Exit
    <2> QED  BY <2>1
  <1>10. CASE move(p) \/ relink(p)
    <2>1. job[p].phase \in {"move", "relink"} /\ job'[p].phase \in {"relink", "sync"}
      BY <1>1, <1>10 DEF move, relink, At
    <2> QED  BY <2>1
  <1>11. CASE relink_fails(p)
    <2>1. job[p].phase = "relink" /\ job'[p].phase = "sync"
      BY <1>11 DEF relink_fails, At, Go, Types, JobShape, JobFields
    <2> QED  BY <2>1
  <1> QED  BY <1>2, <1>3, <1>4, <1>5, <1>6, <1>7, <1>8, <1>9, <1>10, <1>11 DEF Step
-----------------------------------------------------------------------------
(* The invariant *)

\* The file is whole, and the process that wrote it does not touch it again.
Settled(f) == data[f] \in {"synced", "foreign"} /\ (f \in Procs => job[f].phase \in Late)

\* A boot could find f, if the machine stopped now.
InPlace(f) == f # None /\ \E k \in 1..Len(jr) : f = jr[k].path \/ f = jr[k].old

Placed == \A f \in Files : InPlace(f) => Settled(f)

\* A new file is synced before it is given the name of the graph.
Ready == \A p \in Procs : job[p].phase \in {"keep", "keep_old", "switch"} => data[p] = "synced"

KeptOK ==
  \A p \in Procs : job[p].phase = "keep_old" =>
    job[p].kept \in Files /\ Settled(job[p].kept) /\ data[job[p].kept] = "synced"

\* Where there is something else than a graph, nobody gets as far as to replace it.
ForeignOK ==
  (\E f \in Files : InPlace(f) /\ data[f] = "foreign") =>
    /\ \A k \in 1..Len(jr) : jr[k].path = Live.path /\ jr[k].old = Live.old
    /\ \A p \in Procs : job[p].phase \notin Past

Inv == Types /\ Placed /\ Ready /\ KeptOK /\ ForeignOK

\* What steps of processes have in common.
Moves(p) == ProcStep(p) /\ DirStep(p) /\ DataStep(p) /\ PhaseStep(p)

LEMMA SettledStays ==
  ASSUME Inv, NEW p \in Procs, Moves(p), NEW f \in Files, Settled(f)
  PROVE  Settled(f)' /\ data'[f] = data[f]
  <1>1. f = p => job[p].phase \in Late
    BY DEF Settled
  <1>2. data'[f] = data[f]
    BY <1>1 DEF Inv, Types, DataOK, Moves, DataStep, Late, Ends
  <1>3. f \in Procs => job'[f].phase \in Late
    BY DEF Settled, Moves, ProcStep, OnlyJob, PhaseStep
  <1> QED  BY <1>2, <1>3 DEF Settled

\* Only the two renames put a file in place.
LEMMA PlacesStep ==
  ASSUME Inv, NEW p \in Procs, Moves(p), NEW f \in Files, InPlace(f)'
  PROVE  \/ InPlace(f)
         \/ f = job[p].kept /\ job[p].phase = "keep_old"
         \/ f = p /\ job[p].phase = "switch" /\ job'[p].phase = "sync"
  <1>1. PICK k \in 1..Len(jr') : f = jr'[k].path \/ f = jr'[k].old
    BY DEF InPlace
  <1>2. f # None
    BY DEF InPlace
  <1>3. f = Live.path \/ f = Live.old => InPlace(f)
    BY <1>2, LiveIs DEF InPlace, Live, Inv, Types
  <1>4. CASE jr' = jr
    BY <1>1, <1>2, <1>4 DEF InPlace
  <1>5. CASE jr' = <<Live>>
    BY <1>1, <1>3, <1>5
  <1>6. CASE ~(jr' = jr \/ jr' = <<Live>>)
    <2>1. PICK ns :
            /\ jr' = Append(jr, ns)
            /\ \/ ns.path = Live.path /\ ns.old = Live.old
               \/ ns.path = Live.path /\ ns.old = job[p].kept /\ job[p].phase = "keep_old"
               \/ /\ ns.path = p /\ ns.old = Live.old
                  /\ job[p].phase = "switch" /\ job'[p].phase = "sync"
      BY <1>6 DEF Moves, DirStep
    <2>2. /\ Len(jr) \in Nat /\ Len(jr') = Len(jr) + 1
          /\ jr'[Len(jr) + 1] = ns /\ \A i \in 1..Len(jr) : jr'[i] = jr[i]
      BY <2>1, AppendIs DEF Inv, Types, DirOK
    <2>3. CASE k = Len(jr) + 1
      BY <1>1, <1>3, <2>1, <2>2, <2>3
    <2>4. CASE k \in 1..Len(jr)
      BY <1>1, <1>2, <2>2, <2>4 DEF InPlace
    <2> QED  BY <2>2, <2>3, <2>4
  <1> QED  BY <1>4, <1>5, <1>6 DEF Moves, DirStep

LEMMA MovesKeep == ASSUME Inv, NEW p \in Procs, Moves(p) PROVE Inv'
  <1>1. Types'
    BY ProcTypes, DirTypes DEF Inv, Moves, Types
  <1>2. Placed'
    <2> SUFFICES ASSUME NEW f \in Files, InPlace(f)' PROVE Settled(f)'
      BY DEF Placed
    <2>1. CASE InPlace(f)
      BY <2>1, SettledStays DEF Inv, Placed
    <2>2. CASE f = job[p].kept /\ job[p].phase = "keep_old"
      BY <2>2, SettledStays DEF Inv, KeptOK
    <2>3. CASE f = p /\ job[p].phase = "switch" /\ job'[p].phase = "sync"
      <3>1. data'[p] = "synced"
        BY <2>3 DEF Inv, Ready, Moves, DataStep
      <3> QED  BY <2>3, <3>1 DEF Settled, Late
    <2> QED  BY <2>1, <2>2, <2>3, PlacesStep
  <1>3. Ready'
    <2> SUFFICES ASSUME NEW q \in Procs, job'[q].phase \in {"keep", "keep_old", "switch"}
                 PROVE  data'[q] = "synced"
      BY DEF Ready
    <2>1. data \in [Files -> {"none", "empty", "written", "synced", "torn", "foreign"}] /\ q \in Files
      BY DEF Inv, Types, DataOK, Files
    <2>2. CASE q = p /\ job'[p].phase = "keep"
      BY <2>1, <2>2 DEF Moves, PhaseStep
    <2>3. CASE q = p /\ job'[p].phase # "keep"
      <3>1. job[p].phase \in {"keep", "keep_old"}
        BY <2>3 DEF Moves, PhaseStep
      <3> QED  BY <2>3, <3>1 DEF Inv, Ready, Moves, DataStep
    <2>4. CASE q # p
      BY <2>1, <2>4 DEF Inv, Ready, Moves, DataStep, ProcStep, OnlyJob
    <2> QED  BY <2>2, <2>3, <2>4
  <1>4. KeptOK'
    <2> SUFFICES ASSUME NEW q \in Procs, job'[q].phase = "keep_old"
                 PROVE  \E f \in Files : job'[q].kept = f /\ Settled(f)' /\ data'[f] = "synced"
      BY DEF KeptOK, Settled
    <2>1. CASE q = p
      <3>1. job[p].phase = "keep" /\ job'[p].kept = Live.path /\ Live.path # None
        BY <2>1 DEF Moves, PhaseStep
      <3>2. PICK f \in Files : f = Live.path
        BY <3>1, LiveIs DEF Inv, Types
      <3>3. InPlace(f)
        BY <3>1, <3>2, LiveIs DEF InPlace, Live, Inv, Types
      <3>4. Settled(f) /\ data[f] # "foreign"
        BY <3>1, <3>3 DEF Inv, Placed, ForeignOK, Past
      <3>5. Settled(f)' /\ data'[f] = data[f]
        BY <3>4, SettledStays
      <3> QED  BY <2>1, <3>1, <3>2, <3>4, <3>5 DEF Settled
    <2>2. CASE q # p
      <3>1. job'[q] = job[q]
        BY <2>2 DEF Moves, ProcStep, OnlyJob
      <3>2. PICK f \in Files : f = job[q].kept /\ Settled(f) /\ data[f] = "synced"
        BY <3>1 DEF Inv, KeptOK
      <3>3. Settled(f)' /\ data'[f] = data[f]
        BY <3>2, SettledStays
      <3> QED  BY <3>1, <3>2, <3>3
    <2> QED  BY <2>1, <2>2
  <1>5. ForeignOK'
    <2> SUFFICES ASSUME NEW f \in Files, InPlace(f)', data'[f] = "foreign"
                 PROVE  /\ \A k \in 1..Len(jr') : jr'[k].path = Live'.path /\ jr'[k].old = Live'.old
                        /\ \A q \in Procs : job'[q].phase \notin Past
      BY DEF ForeignOK
    <2>1. data[f] = "foreign"
      BY DEF Inv, Types, DataOK, Moves, DataStep
    <2>2. InPlace(f)
      <3>1. ~ (f = job[p].kept /\ job[p].phase = "keep_old")
        BY <2>1 DEF Inv, KeptOK
      <3>2. ~ (f = p /\ job[p].phase = "switch")
        BY <2>1 DEF Inv, Ready
      <3> QED  BY <3>1, <3>2, PlacesStep
    <2>3. /\ \A k \in 1..Len(jr) : jr[k].path = Live.path /\ jr[k].old = Live.old
          /\ \A q \in Procs : job[q].phase \notin Past
      BY <2>1, <2>2 DEF Inv, ForeignOK
    <2>4. NonGraph(Live)
      <3>1. f # None /\ (f = Live.path \/ f = Live.old)
        BY <2>2, <2>3 DEF InPlace
      <3>2. ~graph_image(f)
        BY <2>1 DEF graph_image
      <3> QED  BY <3>1, <3>2 DEF NonGraph
    <2>5. \A q \in Procs : job'[q].phase \notin Past
      BY <2>3, <2>4 DEF Moves, PhaseStep, ProcStep, OnlyJob
    <2>6. \A k \in 1..Len(jr') : jr'[k].path = Live'.path /\ jr'[k].old = Live'.old
      <3>1. CASE jr' = jr
        BY <2>3, <3>1 DEF Live
      <3>2. CASE jr' = <<Live>>
        <4>1. Len(jr') = 1 /\ jr'[1] = Live
          BY <3>2, OneIs
        <4> QED  BY <4>1 DEF Live
      <3>3. CASE ~(jr' = jr \/ jr' = <<Live>>)
        <4>1. PICK ns : jr' = Append(jr, ns) /\ ns.path = Live.path /\ ns.old = Live.old
          BY <2>3, <3>3 DEF Moves, DirStep, Past
        <4>2. /\ Len(jr) \in Nat /\ Len(jr') = Len(jr) + 1
              /\ jr'[Len(jr) + 1] = ns /\ \A i \in 1..Len(jr) : jr'[i] = jr[i]
          BY <4>1, AppendIs DEF Inv, Types, DirOK
        <4>3. Live' = ns
          BY <4>2 DEF Live
        <4> QED  BY <2>3, <4>1, <4>2, <4>3
      <3> QED  BY <3>1, <3>2, <3>3
    <2> QED  BY <2>5, <2>6
  <1> QED  BY <1>1, <1>2, <1>3, <1>4, <1>5 DEF Inv
LEMMA WritebackKeeps == ASSUME Inv, writeback PROVE Inv'
  <1>1. /\ IsSeq(jr') /\ Len(jr) \in Nat /\ Len(jr) > 1 /\ Len(jr') = Len(jr) - 1
        /\ \A k \in 1..Len(jr) - 1 : jr'[k] = jr[k + 1]
    BY TailIs DEF Inv, Types, DirOK, writeback
  <1>2. job' = job /\ data' = data /\ lock' = lock /\ crashes' = crashes
    BY DEF writeback
  <1>3. Live' = Live
    BY <1>1 DEF Live
  <1>4. \A k \in 1..Len(jr') : k + 1 \in 1..Len(jr) /\ jr'[k] = jr[k + 1]
    BY <1>1
  <1>5. Types'
    <2>1. DirOK'
      BY <1>1, <1>4 DEF Inv, Types, DirOK
    <2>2. JobShape' /\ JobOK' /\ DataOK' /\ HoldOK' /\ crashes' \in 0..MaxCrash
      BY <1>2 DEF Inv, Types, JobShape, JobOK, DataOK, HoldOK
    <2> QED  BY <2>1, <2>2 DEF Types
  <1>6. \A f \in Files : InPlace(f)' => InPlace(f)
    BY <1>4 DEF InPlace
  <1>7. \A f : Settled(f) => Settled(f)'
    BY <1>2 DEF Settled
  <1>8. Placed' /\ Ready'
    BY <1>2, <1>6, <1>7 DEF Inv, Placed, Ready
  <1>9. KeptOK'
    BY <1>2 DEF Inv, KeptOK, Settled
  <1>10. ForeignOK'
    BY <1>2, <1>3, <1>4, <1>6 DEF Inv, ForeignOK
  <1> QED  BY <1>5, <1>8, <1>9, <1>10 DEF Inv

LEMMA CrashKeeps == ASSUME Inv, crash PROVE Inv'
  <1>1. PICK lost \in SUBSET {f \in Files : data[f] = "written"} :
          data' = [f \in Files |-> IF f \in lost THEN "torn" ELSE data[f]]
    BY DEF crash
  <1>2. IsSeq(jr') /\ Len(jr') = 1 /\ jr'[1] = jr[1] /\ 1 \in 1..Len(jr) /\ Live' = jr[1]
    <2>1. IsSeq(jr') /\ Len(jr') = 1 /\ jr'[1] = jr[1]
      BY OneIs DEF crash
    <2> QED  BY <2>1, LiveIs DEF Live, Inv, Types
  <1>3. \A p \in Procs : /\ job'[p].phase = IF job[p].phase \in Ends \union {"asked"}
                                            THEN job[p].phase ELSE "killed"
                         /\ job'[p].kept = job[p].kept /\ job'[p].cmd = job[p].cmd
                         /\ job'[p].dir = job[p].dir /\ DOMAIN job'[p] = JobFields
    BY DEF crash, Inv, Types, JobShape, JobFields
  <1>4. \A p \in Procs : job'[p].phase \in Ends \union {"asked"}
    BY <1>3 DEF Ends
  <1>5. Types'
    <2>1. DirOK'
      BY <1>2 DEF Inv, Types, DirOK
    <2>2. JobShape'
      BY <1>3 DEF crash, JobShape
    <2>3. JobOK'
      BY <1>3, <1>4 DEF Inv, Types, JobOK, Phases
    <2>4. HoldOK'
      BY <1>4 DEF crash, HoldOK, Dirs, Writing, Ends
    <2>5. DataOK' /\ crashes' \in 0..MaxCrash
      BY <1>1, ScenariosAssumption DEF crash, Inv, Types, DataOK
    <2> QED  BY <2>1, <2>2, <2>3, <2>4, <2>5 DEF Types
  <1>6. \A f \in Files : InPlace(f)' => InPlace(f)
    BY <1>2 DEF InPlace
  <1>7. \A f \in Files : Settled(f) => Settled(f)' /\ data'[f] = data[f]
    BY <1>1, <1>3 DEF Settled, Late, Ends
  <1>8. Placed'
    BY <1>6, <1>7 DEF Inv, Placed
  <1>9. Ready' /\ KeptOK'
    BY <1>4 DEF Ready, KeptOK, Ends
  <1>10. ForeignOK'
    <2>1. \A k \in 1..Len(jr') : jr'[k].path = Live'.path /\ jr'[k].old = Live'.old
      BY <1>2
    <2>2. \A p \in Procs : job'[p].phase \notin Past
      BY <1>4 DEF Past, Building, Ends
    <2> QED  BY <2>1, <2>2 DEF ForeignOK
  <1> QED  BY <1>5, <1>8, <1>9, <1>10 DEF Inv

LEMMA InstallInit == Init => Inv
  <1> SUFFICES ASSUME Init PROVE Inv
    OBVIOUS
  <1>1. PICK sc \in Scenarios :
          /\ job = [p \in Procs |-> NewJob(sc.ask[p])]
          /\ jr = <<[path |-> sc.path, old |-> sc.old, svc |-> sc.svc, unused |-> sc.unused]>>
          /\ data = [f \in Files |-> IF f \notin Given THEN "none"
                                     ELSE IF f \in sc.foreign THEN "foreign" ELSE "synced"]
          /\ lock = [d \in Dirs |-> None]
          /\ crashes = 0
    BY DEF Init
  <1>2. {sc.path, sc.old} \subseteq Given \union {None}
    BY ScenariosAssumption
  <1>3. \A p \in Procs : /\ job[p].phase \in {"done", "asked"} /\ job[p].kept = None
                         /\ DOMAIN job[p] = JobFields
                         /\ job[p].dir = sc.ask[p].dir /\ job[p].cmd = sc.ask[p].cmd
    BY <1>1 DEF NewJob, JobFields
  <1>4. /\ IsSeq(jr) /\ Len(jr) = 1 /\ jr[1].path = sc.path /\ jr[1].old = sc.old
        /\ DOMAIN jr[1] = {"path", "old", "svc", "unused"}
    BY <1>1, OneIs
  <1>5. Types
    <2>1. JobShape
      BY <1>1, <1>3 DEF JobShape
    <2>2. JobOK
      BY <1>3, ScenariosAssumption DEF JobOK, Phases, Ends
    <2>3. DataOK
      BY <1>1 DEF DataOK
    <2>4. HoldOK
      BY <1>1, <1>3 DEF HoldOK, Writing
    <2>5. DirOK
      BY <1>2, <1>4 DEF DirOK, Files
    <2> QED  BY <1>1, <2>1, <2>2, <2>3, <2>4, <2>5, ScenariosAssumption DEF Types
  <1>6. Placed
    <2> SUFFICES ASSUME NEW f \in Files, InPlace(f) PROVE Settled(f)
      BY DEF Placed
    <2>1. f \in Given
      BY <1>2, <1>4 DEF InPlace
    <2> QED  BY <1>1, <2>1, ScenariosAssumption DEF Settled
  <1>7. Ready /\ KeptOK
    BY <1>3 DEF Ready, KeptOK
  <1>8. ForeignOK
    BY <1>3, <1>4 DEF ForeignOK, Live, Past, Building
  <1> QED  BY <1>5, <1>6, <1>7, <1>8 DEF Inv

LEMMA InstallStep == Inv /\ [Next]_vars => Inv'
  <1> SUFFICES ASSUME Inv, [Next]_vars PROVE Inv'
    OBVIOUS
  <1>1. ASSUME NEW p \in Procs, Step(p) \/ check_runs(p) \/ kill(p) PROVE Inv'
    BY <1>1, StepsDo, FilesDo, PhasesDo, MovesKeep DEF Inv, Moves
  <1>2. CASE UNCHANGED vars
    <2>1. job' = job /\ jr' = jr /\ data' = data /\ lock' = lock /\ crashes' = crashes
      BY <1>2 DEF vars
    <2>2. Types'
      BY <2>1 DEF Inv, Types, JobShape, JobOK, DataOK, HoldOK, DirOK, IsSeq
    <2>3. Placed' /\ Ready' /\ KeptOK' /\ ForeignOK'
      BY <2>1 DEF Inv, Placed, Ready, KeptOK, ForeignOK, InPlace, Settled, Live
    <2> QED  BY <2>2, <2>3 DEF Inv
  <1> QED  BY <1>1, <1>2, WritebackKeeps, CrashKeeps DEF Next

-----------------------------------------------------------------------------
(* Theorems *)

LEMMA Always == Spec => []Inv
  BY InstallInit, InstallStep, PTL DEF Spec

\* However many ninitctl processes run, are killed or stopped with the machine: who writes the
\* graph or moves services holds the directory of the graph, and the directory names files
\* that were written.
THEOREM InstallTypes == Spec => []TypeOK
  <1>1. Inv => TypeOK
    BY LiveIs DEF Inv, Types, TypeOK, JobOK, DataOK, HoldOK, DirOK
  <1> QED  BY <1>1, Always, PTL

\* However many ninitctl processes run, and wherever the machine stops: the graph and .old
\* are files that write_atomic() has written to the end and synced, or what was there first.
THEOREM InstallWhole == Spec => []GraphWhole
  <1>1. Inv => GraphWhole
    BY DEF Inv, Types, DirOK, Placed, InPlace, Settled, GraphWhole
  <1> QED  BY <1>1, Always, PTL

\* However many ninitctl processes run: a file under the name of the graph that is not a graph
\* stays there, also where refuse_nongraph() was asked before the directory was locked.
THEOREM InstallSpares == Spec => ForeignStays
  <1>1. ASSUME Inv, [Next]_vars
        PROVE  [\A f \in Files : data[f] = "foreign" /\ Live.path = f => Live'.path = f]_vars
    <2> SUFFICES ASSUME NEW f \in Files, data[f] = "foreign", Live.path = f PROVE Live'.path = f
      OBVIOUS
    <2>1. f # None /\ InPlace(f)
      BY <1>1, LiveIs, ScenariosAssumption DEF InPlace, Live, Inv, Types
    <2>2. /\ \A k \in 1..Len(jr) : jr[k].path = f
          /\ \A p \in Procs : job[p].phase \notin Past
      BY <1>1, <2>1 DEF Inv, ForeignOK
    <2>3. ASSUME NEW p \in Procs, Step(p) \/ check_runs(p) \/ kill(p) PROVE Live'.path = f
      <3>1. DirStep(p)
        BY <1>1, <2>3, FilesDo DEF Inv
      <3>2. CASE jr' = jr
        BY <3>2 DEF Live
      <3>3. CASE jr' = <<Live>>
        <4>1. Len(jr') = 1 /\ jr'[1] = Live
          BY <3>3, OneIs
        <4> QED  BY <4>1 DEF Live
      <3>4. CASE ~(jr' = jr \/ jr' = <<Live>>)
        <4>1. PICK ns : jr' = Append(jr, ns) /\ ns.path = Live.path
          BY <2>2, <3>1, <3>4 DEF DirStep, Past
        <4>2. Len(jr) \in Nat /\ Len(jr') = Len(jr) + 1 /\ jr'[Len(jr) + 1] = ns
          BY <1>1, <4>1, AppendIs DEF Inv, Types, DirOK
        <4> QED  BY <4>1, <4>2 DEF Live
      <3> QED  BY <3>2, <3>3, <3>4
    <2>4. CASE writeback
      <3>1. /\ Len(jr) \in Nat /\ Len(jr) > 1 /\ Len(jr') = Len(jr) - 1
            /\ \A k \in 1..Len(jr) - 1 : jr'[k] = jr[k + 1]
        BY <1>1, <2>4, TailIs DEF Inv, Types, DirOK, writeback
      <3> QED  BY <3>1 DEF Live
    <2>5. CASE crash
      <3>1. Len(jr') = 1 /\ jr'[1] = jr[1]
        BY <2>5, OneIs DEF crash
      <3> QED  BY <1>1, <2>2, <3>1, LiveIs DEF Live, Inv, Types
    <2>6. CASE UNCHANGED vars
      BY <2>6 DEF vars, Live
    <2> QED  BY <1>1, <2>3, <2>4, <2>5, <2>6 DEF Next
  <1> QED  BY <1>1, Always, PTL DEF Spec, ForeignStays

-----------------------------------------------------------------------------
(* The refinement *)

\* The graph a boot loads of a directory with these two names, and this content of files.
Boot(d, path, old) ==
  IF path # None /\ d[path] = "synced" THEN path
  ELSE IF old # None /\ d[old] = "synced" THEN old ELSE None

Now == load_graph(Live, Whole)
May == {load_graph(jr[k], {"synced"}) : k \in 1..Len(jr)}

LEMMA NowIs == Inv => Now = Boot(data, Live.path, Live.old)
  <1> SUFFICES ASSUME Inv PROVE Now = Boot(data, Live.path, Live.old)
    OBVIOUS
  <1>1. \A f \in {Live.path, Live.old} \ {None} : data[f] \in {"synced", "foreign"}
    BY LiveIs DEF Inv, Types, Placed, InPlace, Settled, Live
  <1> QED  BY <1>1 DEF Now, load_graph, load_previous, Boot, Whole

LEMMA MayIs == May = {Boot(data, jr[k].path, jr[k].old) : k \in 1..Len(jr)}
  BY DEF May, load_graph, load_previous, Boot

LEMMA NowInMay == Inv => Now \in May
  BY NowIs, MayIs, LiveIs DEF Inv, Types, Live

\* The same of the next state.
LEMMA NextIs ==
  Inv' => /\ Now' = Boot(data', Live'.path, Live'.old)
          /\ May' = {Boot(data', jr'[k].path, jr'[k].old) : k \in 1..Len(jr')}
          /\ Now' \in May'
  <1>1. (Inv => Now = Boot(data, Live.path, Live.old))'
    BY NowIs, PTL
  <1>2. (May = {Boot(data, jr[k].path, jr[k].old) : k \in 1..Len(jr)})'
    BY MayIs, PTL
  <1>3. (Inv => Now \in May)'
    BY NowInMay, PTL
  <1> QED  BY <1>1, <1>2, <1>3

LEMMA StoreInit == Init => Store!Init
  <1> SUFFICES ASSUME Init PROVE Store!Init
    OBVIOUS
  <1>1. Inv
    BY InstallInit
  <1>2. Len(jr) = 1
    BY OneIs DEF Init
  <1>3. May = {Now}
    BY <1>1, <1>2, NowIs, MayIs DEF Live
  <1>4. Now \in Files \union {None}
    BY <1>1, NowIs, LiveIs DEF Boot, Inv, Types
  <1> QED  BY <1>3, <1>4 DEF Store!Init, Now, May

\* Steps of the abstract specification, in the words of this one.
SameStore == Now' = Now /\ May' = May
Replaces == Now' \in Files /\ May' = May \union {Now'}
Settles == Now' = Now /\ May' \subseteq May /\ Now \in May'
Crashes == Now' \in May /\ May' = {Now'}

LEMMA AbstractSteps ==
  SameStore \/ Replaces \/ Settles \/ Crashes => [Store!Next]_(Store!vars)
  BY DEF SameStore, Replaces, Settles, Crashes, Now, May,
         Store!Next, Store!Replace, Store!Settle, Store!Crash, Store!vars

LEMMA MovesImplement ==
  ASSUME Inv, Inv', NEW p \in Procs, Moves(p)
  PROVE  SameStore \/ Replaces \/ Settles
  <1>1. \A k \in 1..Len(jr) :
          Boot(data', jr[k].path, jr[k].old) = Boot(data, jr[k].path, jr[k].old)
    <2> TAKE k \in 1..Len(jr)
    <2>1. \A f \in Files : f # None /\ (f = jr[k].path \/ f = jr[k].old) => data'[f] = data[f]
      BY SettledStays DEF Inv, Placed, InPlace
    <2>2. jr[k].path \in Files \union {None} /\ jr[k].old \in Files \union {None}
      BY DEF Inv, Types, DirOK
    <2> QED  BY <2>1, <2>2 DEF Boot
  <1>2. Boot(data', Live.path, Live.old) = Now
    BY <1>1, NowIs, LiveIs DEF Live, Inv, Types
  <1>3. Now' = Boot(data', Live'.path, Live'.old)
    BY NextIs
  <1>4. May' = {Boot(data', jr'[k].path, jr'[k].old) : k \in 1..Len(jr')}
    BY NextIs
  <1>5. CASE jr' = jr
    BY <1>1, <1>2, <1>3, <1>4, <1>5, MayIs DEF SameStore, Live
  <1>6. CASE jr' = <<Live>>
    <2>1. Len(jr') = 1 /\ jr'[1] = Live /\ Live' = Live
      BY <1>6, OneIs DEF Live
    <2> QED  BY <1>2, <1>3, <1>4, <2>1, NowInMay DEF Settles
  <1>7. CASE ~(jr' = jr \/ jr' = <<Live>>)
    <2>1. PICK ns :
            /\ jr' = Append(jr, ns)
            /\ \/ ns.path = Live.path /\ ns.old = Live.old
               \/ ns.path = Live.path /\ ns.old = job[p].kept /\ job[p].phase = "keep_old"
               \/ ns.path = p /\ ns.old = Live.old /\ job[p].phase = "switch"
      BY <1>7 DEF Moves, DirStep
    <2>2. /\ Len(jr) \in Nat /\ Len(jr') = Len(jr) + 1
          /\ jr'[Len(jr) + 1] = ns /\ \A i \in 1..Len(jr) : jr'[i] = jr[i]
      BY <2>1, AppendIs DEF Inv, Types, DirOK
    <2>3. Now' = Boot(data', ns.path, ns.old)
      BY <1>3, <2>2 DEF Live
    <2>4. May' = May \union {Now'}
      <3>1. 1..Len(jr') = 1..Len(jr) \union {Len(jr) + 1}
        BY <2>2
      <3> QED  BY <1>1, <1>4, <2>2, <2>3, <3>1, MayIs
    <2>5. CASE ns.path = Live.path /\ ns.old = Live.old
      BY <1>2, <2>3, <2>4, <2>5, NowInMay DEF SameStore
    <2>6. CASE ns.path = p /\ job[p].phase = "switch"
      <3>1. data'[p] = "synced" /\ p \in Files /\ p # None
        BY <2>6, ScenariosAssumption DEF Inv, Ready, Moves, DataStep, Files
      <3> QED  BY <2>3, <2>4, <2>6, <3>1 DEF Boot, Replaces
    <2>7. CASE ns.path = Live.path /\ ns.old = job[p].kept /\ job[p].phase = "keep_old"
      <3>1. data' = data
        BY <2>7 DEF Moves, DataStep
      <3>2. job[p].kept \in Files /\ job[p].kept # None /\ data[job[p].kept] = "synced"
        BY <2>7, ScenariosAssumption DEF Inv, KeptOK
      <3>3. CASE Live.path = None
        BY <2>3, <2>4, <2>7, <3>1, <3>2, <3>3 DEF Boot, Replaces
      <3>4. CASE Live.path # None
        <4>1. data[Live.path] = "synced"
          BY <2>7, <3>4, LiveIs DEF Inv, Types, Placed, InPlace, Settled, ForeignOK, Past, Live
        <4>2. Now' = Now
          BY <1>2, <2>3, <2>7, <3>1, <3>4, <4>1 DEF Boot
        <4> QED  BY <2>4, <4>2, NowInMay DEF SameStore
      <3> QED  BY <3>3, <3>4
    <2> QED  BY <2>1, <2>5, <2>6, <2>7
  <1> QED  BY <1>5, <1>6, <1>7

LEMMA WritebackImplements == ASSUME Inv, Inv', writeback PROVE Settles
  <1>1. /\ Len(jr) \in Nat /\ Len(jr) > 1 /\ Len(jr') = Len(jr) - 1
        /\ \A k \in 1..Len(jr) - 1 : jr'[k] = jr[k + 1]
    BY TailIs DEF Inv, Types, DirOK, writeback
  <1>2. data' = data /\ Live' = Live
    BY <1>1 DEF writeback, Live
  <1>3. Now' = Now
    <2>1. Now' = Boot(data', Live'.path, Live'.old)
      BY NextIs
    <2> QED  BY <1>2, <2>1, NowIs
  <1>4. May' \subseteq May
    <2>1. May' = {Boot(data', jr'[k].path, jr'[k].old) : k \in 1..Len(jr')}
      BY NextIs
    <2>2. \A k \in 1..Len(jr') : k + 1 \in 1..Len(jr) /\ jr'[k] = jr[k + 1]
      BY <1>1
    <2> QED  BY <1>2, <2>1, <2>2, MayIs
  <1>5. Now' \in May'
    BY NextIs
  <1> QED  BY <1>3, <1>4, <1>5 DEF Settles

LEMMA CrashImplements == ASSUME Inv, Inv', crash PROVE Crashes
  <1>1. PICK lost \in SUBSET {f \in Files : data[f] = "written"} :
          data' = [f \in Files |-> IF f \in lost THEN "torn" ELSE data[f]]
    BY DEF crash
  <1>2. Len(jr') = 1 /\ jr'[1] = jr[1] /\ Live' = jr[1] /\ 1 \in 1..Len(jr)
    <2>1. Len(jr') = 1 /\ jr'[1] = jr[1]
      BY OneIs DEF crash
    <2> QED  BY <2>1, LiveIs DEF Live, Inv, Types
  <1>3. \A f \in Files : f # None /\ (f = jr[1].path \/ f = jr[1].old) => data'[f] = data[f]
    BY <1>1, <1>2 DEF Inv, Placed, InPlace, Settled
  <1>4. Boot(data', jr[1].path, jr[1].old) = Boot(data, jr[1].path, jr[1].old)
    <2>1. jr[1].path \in Files \union {None} /\ jr[1].old \in Files \union {None}
      BY <1>2 DEF Inv, Types, DirOK
    <2> QED  BY <1>3, <2>1 DEF Boot
  <1>5. Now' = Boot(data', jr[1].path, jr[1].old)
    <2>1. Now' = Boot(data', Live'.path, Live'.old)
      BY NextIs
    <2> QED  BY <1>2, <2>1
  <1>6. May' = {Now'}
    <2>1. May' = {Boot(data', jr'[k].path, jr'[k].old) : k \in 1..Len(jr')}
      BY NextIs
    <2> QED  BY <1>2, <1>5, <2>1
  <1> QED  BY <1>2, <1>4, <1>5, <1>6, MayIs DEF Crashes

LEMMA StoreStep == Inv /\ Inv' /\ [Next]_vars => [Store!Next]_(Store!vars)
  <1> SUFFICES ASSUME Inv, Inv', [Next]_vars PROVE SameStore \/ Replaces \/ Settles \/ Crashes
    BY AbstractSteps
  <1>1. ASSUME NEW p \in Procs, Step(p) \/ check_runs(p) \/ kill(p)
        PROVE  SameStore \/ Replaces \/ Settles \/ Crashes
    BY <1>1, StepsDo, FilesDo, PhasesDo, MovesImplement DEF Inv, Moves
  <1>2. CASE UNCHANGED vars
    BY <1>2 DEF vars, SameStore, Now, May, Live, load_graph, load_previous
  <1> QED  BY <1>1, <1>2, WritebackImplements, CrashImplements DEF Next

\* ninitctl init implements GraphStore: however many of them run, are killed or stopped with
\* the machine, the graph a boot loads changes in one step to one that was written to the
\* end, is never lost, and a crash brings back at most what was not yet durably replaced.
THEOREM InstallImplements == Spec => StoreSpec
  <1>1. Init => Store!Init
    BY StoreInit
  <1>2. Inv /\ Inv' /\ [Next]_vars => [Store!Next]_(Store!vars)
    BY StoreStep
  <1> QED  BY <1>1, <1>2, Always, PTL DEF Spec, StoreSpec, Store!Spec

-----------------------------------------------------------------------------
(* The history of the graph, and the services it was made of *)

InHist(f) == \E a \in 1..Len(hist) : hist[a] = f

\* A graph has been in place once, and a process of which the graph was is nearly done.
HistOK ==
  /\ IsSeq(hist)
  /\ \A a, b \in 1..Len(hist) : hist[a] = hist[b] => a = b
  /\ \A a \in 1..Len(hist) : hist[a] \in Files
  /\ \A p \in Procs : InHist(p) => job[p].phase \in Late

\* The graph in place is the last one; without a graph the history is what .old was.
PathOK ==
  /\ \A k \in 1..Len(jr) : jr[k].path # None => InHist(jr[k].path)
  /\ Live.path = None => hist = First(None, Live.old)
  /\ Live.path # None => Len(hist) > 0 /\ hist[Len(hist)] = Live.path

\* What the one that holds the directory has done to it so far.
NamesOK ==
  \A p \in Procs :
    /\ job[p].phase = "keep_old" => job[p].kept = Live.path /\ Live.path # None
    /\ job[p].phase = "switch" /\ Live.path # None => Live.old = Live.path
    /\ job[p].phase = "sync" /\ job[p].cmd = "init" => Live.path = p

\* The graph of an init that has reported success is on the disk, or was replaced since.
DoneOK ==
  \A p \in Procs : At(p, "done") /\ job[p].cmd = "init" /\ ~job[p].dry => InHist(p)

HistInv == HistOK /\ PathOK /\ NamesOK /\ Fallback /\ DoneOK /\ Reported

Opened == {"read"} \union Building \union {"lock_out"}

\* Which command goes which way, and when it has read the services.
CmdOK ==
  \A p \in Procs :
    /\ job[p].phase = "read" => job[p].cmd = "init"
    /\ job[p].phase \in {"move", "relink"} => job[p].cmd # "init"
    /\ job[p].phase = "asked" \/ job[p].cmd # "init" => job[p].read = <<>>

\* Until it goes to write the graph an init holds the directory of the services.
OpenOK == \A p \in Procs : job[p].phase \in Opened => lock[job[p].dir] = p

SrcInv == CmdOK /\ OpenOK /\ SourcesHeld

\* The ways in which a step of p changes the directory and its history.
Switches(p) ==
  /\ hist' = Append(hist, p) /\ job[p].phase = "switch" /\ job'[p].phase = "sync"
  /\ \E ns : jr' = Append(jr, ns) /\ ns.path = p /\ ns.old = Live.old /\ ns.svc = Live.svc
Keeps(p) ==
  /\ hist' = hist /\ job[p].phase = "keep_old" /\ job'[p].phase = "switch"
  /\ \E ns : /\ jr' = Append(jr, ns)
             /\ ns.path = Live.path /\ ns.old = job[p].kept /\ ns.svc = Live.svc
Shifts(p) ==
  /\ hist' = hist /\ job[p].phase \in {"move", "relink"} /\ job'[p].phase \in {"relink", "sync"}
  /\ \E ns : jr' = Append(jr, ns) /\ ns.path = Live.path /\ ns.old = Live.old
Syncs(p) ==
  /\ hist' = hist /\ jr' = <<Live>> /\ job[p].phase = "sync" /\ job'[p].phase \in Ends
Waits(p) ==
  /\ hist' = hist /\ jr' = jr
  /\ job'[p].phase = "switch" => job[p].phase = "keep" /\ Live.path = None
  /\ job'[p].phase = "sync" => job[p].phase = "relink"
  /\ job'[p].phase = "done" => job[p].phase = "done" \/ job[p].cmd # "init" \/ job[p].dry
HistStep(p) == Switches(p) \/ Keeps(p) \/ Shifts(p) \/ Syncs(p) \/ Waits(p)

LEMMA HistoryDo ==
  ASSUME Types, NEW p \in Procs, Step(p) \/ check_runs(p) \/ kill(p)
  PROVE  HistStep(p)
  <1>0. DOMAIN Live = NsFields
    BY LiveIs DEF Types, NsFields
  <1>1. \A ph : Go(p, job[p], ph) => job'[p].phase = ph
    BY GoSelf DEF Types
  <1>2. CASE begin(p)
    <2>1. job'[p].phase \in {"move", "read"} /\ hist' = hist /\ jr' = jr
      BY <1>1, <1>2 DEF begin, fsVars
    <2> QED  BY <2>1 DEF HistStep, Waits
  <1>3. CASE read(p)
    <2>1. hist' = hist /\ jr' = jr
      BY <1>3 DEF read, fsVars
    <2>2. Go(p, job[p], "dead") \/ \E d : read_sources(p, d)
      BY <1>3 DEF read, Die_
    <2>3. job'[p].phase \in {"dead", "link", "check"}
      BY <1>1, <2>2, ReadDoes DEF Types, Goes
    <2> QED  BY <2>1, <2>3 DEF HistStep, Waits
  <1>4. CASE compile(p) \/ check_runs(p)
    <2>1. hist' = hist /\ jr' = jr
      BY <1>4 DEF compile, check_runs, fsVars
    <2>2. /\ job'[p].phase \in Building \union Ends \union {"lock_out"}
          /\ job'[p].phase = "done" => job[p].dry
      BY <1>4, CompilesDoes, KidsDoes DEF compile, check_runs, Types, Goes, Building
    <2> QED  BY <2>1, <2>2 DEF HistStep, Waits, Building, Ends
  <1>5. CASE leave(p)
    BY <1>5 DEF leave, fsVars, HistStep, Waits, Ends
  <1>6. CASE lock_out(p) \/ make_tmp(p) \/ write_all(p) \/ fsync_tmp(p)
    <2>1. job'[p].phase \in {"tmp", "fill", "flush", "keep"} /\ hist' = hist /\ jr' = jr
      BY <1>1, <1>6 DEF lock_out, make_tmp, write_all, fsync_tmp, fsVars
    <2> QED  BY <2>1 DEF HistStep, Waits
  <1>7. CASE link_keep(p)
    <2>1. PhaseStep(p)
      BY <1>7, PhasesDo DEF Step
    <2>2. hist' = hist /\ jr' = jr /\ job[p].phase = "keep"
      BY <1>7 DEF link_keep, At, fsVars
    <2>3. job'[p].phase = IF Live.path = None THEN "switch" ELSE "keep_old"
      BY <1>7 DEF link_keep, Go, Types, JobShape, JobFields
    <2> QED  BY <2>2, <2>3 DEF HistStep, Waits
  <1>8. CASE rename_keep(p)
    <2> DEFINE ns == [Live EXCEPT !.old = job[p].kept]
    <2>1. ns.path = Live.path /\ ns.old = job[p].kept /\ ns.svc = Live.svc
      BY <1>0 DEF NsFields
    <2>2. /\ jr' = Append(jr, ns) /\ hist' = hist
          /\ job[p].phase = "keep_old" /\ job'[p].phase = "switch"
      BY <1>1, <1>8 DEF rename_keep, Changed, At
    <2> QED  BY <2>1, <2>2 DEF HistStep, Keeps
  <1>9. CASE rename_tmp(p)
    <2> DEFINE ns == [Live EXCEPT !.path = p]
    <2>1. ns.path = p /\ ns.old = Live.old /\ ns.svc = Live.svc
      BY <1>0 DEF NsFields
    <2>2. /\ jr' = Append(jr, ns) /\ hist' = Append(hist, p)
          /\ job[p].phase = "switch" /\ job'[p].phase = "sync"
      BY <1>1, <1>9 DEF rename_tmp, Changed, At
    <2> QED  BY <2>1, <2>2 DEF HistStep, Switches
  <1>10. CASE fsync_dir(p)
    <2>1. hist' = hist /\ jr' = <<Live>> /\ job[p].phase = "sync" /\ job'[p].phase \in {"dead", "done"}
      BY <1>1, <1>10 DEF fsync_dir, Exit, At
    <2> QED  BY <2>1 DEF HistStep, Syncs, Ends
  <1>11. CASE write_fails(p) \/ move_refused(p) \/ kill(p)
    <2>1. hist' = hist /\ jr' = jr
      BY <1>11 DEF write_fails, move_refused, kill, fsVars
    <2>2. job'[p].phase \in {"dead", "killed"} \/ (job'[p].phase = "done" /\ job[p].cmd # "init")
      BY <1>1, <1>11 DEF write_fails, move_refused, kill, Exit
    <2> QED  BY <2>1, <2>2 DEF HistStep, Waits
  <1>12. CASE move(p)
    <2>1. hist' = hist /\ \E i, e : jr' = Append(jr, Moved(p, i, e))
      BY <1>12 DEF move, Changed
    <2>2. \A i, e : Moved(p, i, e).path = Live.path /\ Moved(p, i, e).old = Live.old
      BY <1>0 DEF Moved, NsFields
    <2>3. job[p].phase = "move" /\ job'[p].phase \in {"relink", "sync"}
      BY <1>1, <1>12 DEF move, At
    <2> QED  BY <2>1, <2>2, <2>3 DEF HistStep, Shifts
  <1>13. CASE relink(p)
    <2>1. hist' = hist /\ \E x : \/ jr' = Append(jr, [Live EXCEPT !.svc = x])
                                 \/ jr' = Append(jr, [Live EXCEPT !.unused = x])
      BY <1>13 DEF relink, Changed
    <2>2. \A x : /\ [Live EXCEPT !.svc = x].path = Live.path /\ [Live EXCEPT !.svc = x].old = Live.old
                 /\ [Live EXCEPT !.unused = x].path = Live.path
                 /\ [Live EXCEPT !.unused = x].old = Live.old
      BY <1>0 DEF NsFields
    <2>3. job[p].phase = "relink" /\ job'[p].phase = "sync"
      BY <1>1, <1>13 DEF relink, At
    <2>4. \E ns : jr' = Append(jr, ns) /\ ns.path = Live.path /\ ns.old = Live.old
      BY <2>1, <2>2, Zenon
    <2> QED  BY <2>1, <2>3, <2>4 DEF HistStep, Shifts
  <1>14. CASE relink_fails(p)
    <2>1. job[p].phase = "relink" /\ job'[p].phase = "sync" /\ hist' = hist /\ jr' = jr
      BY <1>14 DEF relink_fails, At, Go, Types, JobShape, JobFields, fsVars
    <2> QED  BY <2>1 DEF HistStep, Waits
  <1> QED  BY <1>2, <1>3, <1>4, <1>5, <1>6, <1>7, <1>8, <1>9, <1>10, <1>11, <1>12, <1>13, <1>14
           DEF Step

\* What a step of p does to the services it has read, and the directory it holds.
ReadStep(p) ==
  /\ \/ job'[p].read = job[p].read
     \/ /\ job[p].phase = "read" /\ jr' = jr
        /\ job[p].dir = "home" => job'[p].read \in {job[p].read, Live.svc}
  /\ job'[p].phase = "read" => job[p].phase = "asked" /\ job[p].cmd = "init"
  /\ job'[p].phase = "move" => job[p].phase = "asked" /\ job[p].cmd # "init"
  /\ job'[p].phase = "relink" => job[p].phase = "move"
  /\ job'[p].phase # "asked" /\ (job[p].phase \in Ends => job'[p].phase \in Ends)
  /\ job'[p].phase \in Opened => \/ job[p].phase = "asked" /\ lock_dir(p, job[p].dir)
                                 \/ job[p].phase \in Opened /\ lock' = lock

LEMMA ReadsDo ==
  ASSUME Types, NEW p \in Procs, Step(p) \/ check_runs(p) \/ kill(p)
  PROVE  ReadStep(p)
  <1> USE DEF ReadStep, Opened, Building, Ends
  <1>1. \A ph : Go(p, job[p], ph) => job'[p].phase = ph /\ job'[p].read = job[p].read
    BY GoSelf DEF Types
  <1>2. CASE begin(p)
    <2>1. CASE job[p].cmd = "init"
      <3>1. /\ job[p].phase = "asked" /\ lock_dir(p, job[p].dir)
            /\ job'[p].phase = "read" /\ job'[p].read = job[p].read
        BY <1>1, <1>2, <2>1 DEF begin, At
      <3> QED  BY <2>1, <3>1
    <2>2. CASE job[p].cmd # "init"
      <3>1. job[p].phase = "asked" /\ job'[p].phase = "move" /\ job'[p].read = job[p].read
        BY <1>1, <1>2, <2>2 DEF begin, At
      <3> QED  BY <2>2, <3>1
    <2> QED  BY <2>1, <2>2
  <1>3. CASE read(p)
    <2>1. jr' = jr /\ lock' = lock /\ job[p].phase = "read"
      BY <1>3 DEF read, read_sources, At, fsVars
    <2>2. CASE NonGraph(Live)
      <3>1. job'[p].phase = "dead" /\ job'[p].read = job[p].read
        BY <1>1, <1>3, <2>2 DEF read, Die_
      <3> QED  BY <2>1, <3>1
    <2>3. CASE ~NonGraph(Live)
      <3> DEFINE d == IF job[p].dir = "home" THEN Live.svc ELSE away
      <3>1. read_sources(p, d)
        BY <1>3, <2>3 DEF read
      <3> HIDE DEF d
      <3>2. job'[p].phase \in {"dead", "link", "check"} /\ job'[p].read \in {job[p].read, d}
        BY <3>1, ReadDoes DEF Types, Goes
      <3>3. job[p].dir = "home" => d = Live.svc
        BY DEF d
      <3> QED  BY <2>1, <3>2, <3>3
    <2> QED  BY <2>2, <2>3
  <1>4. CASE compile(p) \/ check_runs(p)
    <2>1. lock' = lock
      BY <1>4 DEF compile, check_runs
    <2>2. /\ job[p].phase \in Building /\ job'[p].phase \in Building \union Ends \union {"lock_out"}
          /\ job'[p].read = job[p].read
      BY <1>4, CompilesDoes, KidsDoes DEF compile, check_runs, Types, Goes
    <2> QED  BY <2>1, <2>2
  <1>5. CASE leave(p)
    <2>1. job' = job /\ job[p].phase \in Ends
      BY <1>5 DEF leave
    <2> QED  BY <2>1
  <1>6. CASE \/ lock_out(p) \/ make_tmp(p) \/ write_all(p) \/ fsync_tmp(p) \/ rename_keep(p)
             \/ rename_tmp(p)
    <2>1. /\ job'[p].phase \in {"tmp", "fill", "flush", "keep", "switch", "sync"}
          /\ job'[p].read = job[p].read
      BY <1>1, <1>6 DEF lock_out, make_tmp, write_all, fsync_tmp, rename_keep, rename_tmp
    <2>2. job[p].phase \in {"lock_out", "tmp", "fill", "flush", "keep_old", "switch"}
      BY <1>6 DEF lock_out, make_tmp, write_all, fsync_tmp, rename_keep, rename_tmp, At
    <2> QED  BY <2>1, <2>2
  <1>7. CASE link_keep(p)
    <2>1. /\ job[p].phase = "keep" /\ job'[p].phase \in {"switch", "keep_old"}
          /\ job'[p].read = job[p].read
      BY <1>7 DEF link_keep, At, Go, Types, JobShape, JobFields
    <2> QED  BY <2>1
  <1>8. CASE fsync_dir(p) \/ write_fails(p) \/ move_refused(p) \/ kill(p)
    <2>1. job'[p].phase \in Ends /\ job'[p].read = job[p].read
      BY <1>1, <1>8 DEF fsync_dir, write_fails, move_refused, kill, Exit
    <2> QED  BY <2>1
  <1>9. CASE move(p)
    <2>1. /\ job[p].phase = "move" /\ job'[p].phase \in {"relink", "sync"}
          /\ job'[p].read = job[p].read
      BY <1>1, <1>9 DEF move, At
    <2> QED  BY <2>1
  <1>10. CASE relink(p)
    <2>1. job[p].phase = "relink" /\ job'[p].phase = "sync" /\ job'[p].read = job[p].read
      BY <1>1, <1>10 DEF relink, At
    <2> QED  BY <2>1
  <1>11. CASE relink_fails(p)
    <2>1. job[p].phase = "relink" /\ job'[p].phase = "sync" /\ job'[p].read = job[p].read
      BY <1>11 DEF relink_fails, At, Go, Types, JobShape, JobFields
    <2> QED  BY <2>1
  <1> QED  BY <1>2, <1>3, <1>4, <1>5, <1>6, <1>7, <1>8, <1>9, <1>10, <1>11 DEF Step

\* The directory as processes see it, after a step.
LEMMA LiveAfter ==
  ASSUME Types
  PROVE  /\ jr' = jr => Live' = Live
         /\ jr' = <<Live>> => Len(jr') = 1 /\ jr'[1] = Live /\ Live' = Live
         /\ \A ns : jr' = Append(jr, ns) =>
              /\ Live' = ns /\ Len(jr) \in Nat /\ Len(jr') = Len(jr) + 1
              /\ jr'[Len(jr) + 1] = ns /\ \A k \in 1..Len(jr) : jr'[k] = jr[k]
  <1>1. jr' = jr => Live' = Live
    BY DEF Live
  <1>2. ASSUME jr' = <<Live>> PROVE Len(jr') = 1 /\ jr'[1] = Live /\ Live' = Live
    <2>1. Len(jr') = 1 /\ jr'[1] = Live
      BY <1>2, OneIs
    <2> QED  BY <2>1 DEF Live
  <1>3. ASSUME NEW ns, jr' = Append(jr, ns)
        PROVE  /\ Live' = ns /\ Len(jr) \in Nat /\ Len(jr') = Len(jr) + 1
               /\ jr'[Len(jr) + 1] = ns /\ \A k \in 1..Len(jr) : jr'[k] = jr[k]
    <2>1. /\ Len(jr) \in Nat /\ Len(jr') = Len(jr) + 1
          /\ jr'[Len(jr) + 1] = ns /\ \A k \in 1..Len(jr) : jr'[k] = jr[k]
      BY <1>3, AppendIs DEF Types, DirOK
    <2> QED  BY <2>1 DEF Live
  <1> QED  BY <1>1, <1>2, <1>3

\* Who holds a directory goes on holding it while others go on.
LEMMA OthersHold ==
  ASSUME Types, NEW p \in Procs, ProcStep(p), NEW q \in Procs, q # p, NEW d \in Dirs, lock[d] = q
  PROVE  lock'[d] = q /\ job'[q] = job[q]
  <1>1. q # None
    BY ScenariosAssumption DEF Files
  <1> QED  BY <1>1 DEF ProcStep, OnlyJob, LockStep, Released, lock_dir, Types, HoldOK

\* While another holds the directory of the graph, p does not change it.
LEMMA OthersWait ==
  ASSUME Types, NEW p \in Procs, HistStep(p), NEW q \in Procs, q # p, lock["home"] = q
  PROVE  Waits(p)
  BY DEF HistStep, Switches, Keeps, Shifts, Syncs, Types, HoldOK, Writing

LEMMA SrcMoves ==
  ASSUME Inv, SrcInv, NEW p \in Procs, ProcStep(p), HistStep(p), ReadStep(p)
  PROVE  SrcInv'
  <1> USE DEF Inv
  <1>1. /\ job'[p].cmd = job[p].cmd /\ job'[p].dir = job[p].dir
        /\ \A q \in Procs \ {p} : job'[q] = job[q]
    BY DEF ProcStep, OnlyJob
  <1>2. CmdOK'
    <2>1. /\ job'[p].phase = "read" => job'[p].cmd = "init"
          /\ job'[p].phase \in {"move", "relink"} => job'[p].cmd # "init"
      BY <1>1 DEF ReadStep, SrcInv, CmdOK
    <2>2. job'[p].phase = "asked" \/ job'[p].cmd # "init" => job'[p].read = <<>>
      BY <1>1 DEF ReadStep, SrcInv, CmdOK
    <2> QED  BY <1>1, <2>1, <2>2 DEF SrcInv, CmdOK
  <1>3. OpenOK'
    <2> SUFFICES ASSUME NEW q \in Procs, job'[q].phase \in Opened PROVE lock'[job'[q].dir] = q
      BY DEF OpenOK
    <2>1. \A r \in Procs : job[r].dir \in Dirs
      BY DEF Types, JobOK
    <2>2. CASE q = p
      <3>1. CASE lock_dir(p, job[p].dir)
        BY <1>1, <2>1, <2>2, <3>1 DEF lock_dir, Types, HoldOK
      <3>2. CASE job[p].phase \in Opened /\ lock' = lock
        BY <1>1, <2>2, <3>2 DEF SrcInv, OpenOK
      <3> QED  BY <2>2, <3>1, <3>2 DEF ReadStep
    <2>3. CASE q # p
      <3>1. job'[q] = job[q] /\ lock[job[q].dir] = q
        BY <1>1, <2>3 DEF SrcInv, OpenOK
      <3> QED  BY <2>1, <2>3, <3>1, OthersHold
    <2> QED  BY <2>2, <2>3
  <1>4. SourcesHeld'
    <2> SUFFICES ASSUME NEW q \in Procs, job'[q].dir = "home", job'[q].read # <<>>,
                        job'[q].phase \notin Ends
                 PROVE  Live'.svc = job'[q].read
      BY DEF SourcesHeld
    <2>1. CASE q = p
      <3>1. job[p].dir = "home" /\ job[p].phase \notin Ends
        BY <1>1, <2>1 DEF ReadStep
      <3>2. CASE job'[p].read = job[p].read
        <4>1. Live.svc = job[p].read
          BY <2>1, <3>1, <3>2 DEF SrcInv, SourcesHeld
        <4>2. ~Shifts(p)
          BY <2>1, <3>2 DEF Shifts, SrcInv, CmdOK
        <4>3. Live'.svc = Live.svc
          BY <4>2, LiveAfter DEF HistStep, Switches, Keeps, Syncs, Waits
        <4> QED  BY <2>1, <3>2, <4>1, <4>3
      <3>3. CASE job'[p].read # job[p].read
        <4>1. jr' = jr /\ job'[p].read = Live.svc
          BY <3>1, <3>3 DEF ReadStep
        <4> QED  BY <2>1, <4>1, LiveAfter
      <3> QED  BY <3>2, <3>3
    <2>2. CASE q # p
      <3>1. job'[q] = job[q] /\ Live.svc = job[q].read
        BY <1>1, <2>2 DEF SrcInv, SourcesHeld
      <3>2. job[q].phase \in Opened \union Writing
        BY <3>1 DEF Types, JobOK, Phases, Opened, Building, Writing, SrcInv, CmdOK
      <3>3. lock["home"] = q
        BY <3>1, <3>2 DEF Types, HoldOK, SrcInv, OpenOK
      <3>4. jr' = jr
        BY <2>2, <3>3, OthersWait DEF Waits
      <3> QED  BY <3>1, <3>4, LiveAfter
    <2> QED  BY <2>1, <2>2
  <1> QED  BY <1>2, <1>3, <1>4 DEF SrcInv

LEMMA CrashJobs ==
  ASSUME Inv, crash, NEW p \in Procs
  PROVE  /\ job'[p].phase = IF job[p].phase \in Ends \union {"asked"} THEN job[p].phase ELSE "killed"
         /\ job'[p].cmd = job[p].cmd /\ job'[p].read = job[p].read /\ job'[p].dry = job[p].dry
  BY DEF crash, Inv, Types, JobShape, JobFields

LEMMA WritebackIs ==
  ASSUME Inv, writeback
  PROVE  /\ job' = job /\ lock' = lock /\ hist' = hist /\ Live' = Live
         /\ \A k \in 1..Len(jr') : k + 1 \in 1..Len(jr) /\ jr'[k] = jr[k + 1]
  <1>1. /\ Len(jr) \in Nat /\ Len(jr) > 1 /\ Len(jr') = Len(jr) - 1
        /\ \A k \in 1..Len(jr) - 1 : jr'[k] = jr[k + 1]
    BY TailIs DEF Inv, Types, DirOK, writeback
  <1>2. Live' = Live
    BY <1>1 DEF Live
  <1> QED  BY <1>1, <1>2 DEF writeback

LEMMA SrcStep == ASSUME Inv, SrcInv, [Next]_vars PROVE SrcInv'
  <1>1. ASSUME NEW p \in Procs, Step(p) \/ check_runs(p) \/ kill(p) PROVE SrcInv'
    BY <1>1, StepsDo, HistoryDo, ReadsDo, SrcMoves DEF Inv
  <1>2. CASE writeback
    BY <1>2, WritebackIs DEF SrcInv, CmdOK, OpenOK, SourcesHeld
  <1>3. CASE crash
    <2>1. \A p \in Procs : job'[p].phase \in Ends \union {"asked"}
      BY <1>3, CrashJobs DEF Ends
    <2>2. CmdOK'
      BY <1>3, <2>1, CrashJobs DEF SrcInv, CmdOK, Ends
    <2>3. OpenOK'
      BY <2>1 DEF OpenOK, Opened, Building, Ends
    <2>4. SourcesHeld'
      BY <2>1, <2>2 DEF SourcesHeld, CmdOK
    <2> QED  BY <2>2, <2>3, <2>4 DEF SrcInv
  <1>4. CASE UNCHANGED vars
    BY <1>4 DEF vars, SrcInv, CmdOK, OpenOK, SourcesHeld, Live
  <1> QED  BY <1>1, <1>2, <1>3, <1>4 DEF Next

LEMMA SrcInit == Init => SrcInv
  <1> SUFFICES ASSUME Init PROVE SrcInv
    OBVIOUS
  <1>1. PICK sc \in Scenarios : job = [p \in Procs |-> NewJob(sc.ask[p])]
    BY DEF Init
  <1>2. \A p \in Procs : job[p].phase \in {"done", "asked"} /\ job[p].read = <<>>
    BY <1>1 DEF NewJob
  <1> QED  BY <1>2 DEF SrcInv, CmdOK, OpenOK, SourcesHeld, Opened, Building

\* However many ninitctl processes run: from reading the services of the directory until its
\* graph is in place an init is the only one to change them, so that the graph that is
\* installed is the one of the services that are there.
THEOREM InstallFresh == Spec => []SourcesHeld
  <1>1. Spec => []SrcInv
    <2>1. Inv /\ SrcInv /\ [Next]_vars => SrcInv'
      BY SrcStep
    <2> QED  BY <2>1, SrcInit, Always, PTL DEF Spec
  <1>2. SrcInv => SourcesHeld
    BY DEF SrcInv
  <1> QED  BY <1>1, <1>2, PTL

-----------------------------------------------------------------------------
(* Places in the history *)

Once(s) == IsSeq(s) /\ \A a, b \in 1..Len(s) : s[a] = s[b] => a = b
PlaceIn(s, f) == CHOOSE k \in 1..Len(s) : s[k] = f
EarlierIn(s, f) == IF PlaceIn(s, f) = 1 THEN None ELSE s[PlaceIn(s, f) - 1]

LEMMA PlaceIs ==
  ASSUME NEW s, Once(s), NEW a \in 1..Len(s)
  PROVE  PlaceIn(s, s[a]) = a
  <1>1. \E k \in 1..Len(s) : s[k] = s[a]
    OBVIOUS
  <1>2. PlaceIn(s, s[a]) \in 1..Len(s) /\ s[PlaceIn(s, s[a])] = s[a]
    BY <1>1 DEF PlaceIn
  <1> QED  BY <1>2 DEF Once

\* Where two histories agree up to a graph, they agree on its place and on what it replaced.
LEMMA SamePlace ==
  ASSUME NEW s, NEW t, Once(s), Once(t), NEW a \in 1..Len(s), a \in 1..Len(t),
         \A i \in 1..a : t[i] = s[i]
  PROVE  /\ PlaceIn(s, s[a]) = a /\ PlaceIn(t, s[a]) = a
         /\ EarlierIn(t, s[a]) = EarlierIn(s, s[a])
  <1>1. Len(s) \in Nat /\ a \in Nat /\ 1 <= a
    BY DEF Once, IsSeq
  <1>2. a \in 1..a /\ (a # 1 => a - 1 \in 1..a)
    BY <1>1
  <1>3. t[a] = s[a] /\ (a # 1 => t[a - 1] = s[a - 1])
    BY <1>2
  <1>4. PlaceIn(s, s[a]) = a
    BY PlaceIs
  <1>5. PlaceIn(t, s[a]) = a
    BY <1>3, PlaceIs
  <1> QED  BY <1>3, <1>4, <1>5 DEF EarlierIn

LEMMA PlacesAre ==
  /\ \A f : Place(f) = PlaceIn(hist, f) /\ Earlier(f) = EarlierIn(hist, f)
  /\ \A f : Place(f)' = PlaceIn(hist', f) /\ Earlier(f)' = EarlierIn(hist', f)
  <1>1. \A f : Place(f) = PlaceIn(hist, f)
    BY DEF Place, PlaceIn
  <1>2. \A f : Place(f)' = PlaceIn(hist', f)
    BY DEF Place, PlaceIn
  <1>3. \A f : Earlier(f) = EarlierIn(hist, f)
    BY <1>1 DEF Earlier, EarlierIn
  <1>4. \A f : Earlier(f)' = EarlierIn(hist', f)
    BY <1>2 DEF Earlier, EarlierIn
  <1> QED  BY <1>1, <1>2, <1>3, <1>4

\* Nothing of the history is lost, or changed.
Grown ==
  \A f : InHist(f) =>
    /\ InHist(f)' /\ Place(f)' = Place(f) /\ Earlier(f)' = Earlier(f)
    /\ Place(f) \in 1..Len(hist)

LEMMA GrowsOn ==
  ASSUME Once(hist), Once(hist'), Len(hist') >= Len(hist), Len(hist') \in Nat,
         \A a \in 1..Len(hist) : hist'[a] = hist[a]
  PROVE  Grown
  <1> SUFFICES ASSUME NEW f, NEW a \in 1..Len(hist), hist[a] = f
               PROVE  /\ InHist(f)' /\ Place(f)' = Place(f) /\ Earlier(f)' = Earlier(f)
                      /\ Place(f) \in 1..Len(hist)
    BY DEF Grown, InHist
  <1>1. Len(hist) \in Nat
    BY DEF Once, IsSeq
  <1>2. a \in 1..Len(hist') /\ \A i \in 1..a : hist'[i] = hist[i]
    BY <1>1
  <1>3. InHist(f)'
    BY <1>2 DEF InHist
  <1>4. /\ PlaceIn(hist, f) = a /\ PlaceIn(hist', f) = a
        /\ EarlierIn(hist', f) = EarlierIn(hist, f)
    BY <1>2, SamePlace
  <1> QED  BY <1>3, <1>4, PlacesAre

-----------------------------------------------------------------------------
(* Steps of processes, and the history *)

LEMMA HistSteps ==
  ASSUME Inv, HistInv, NEW p \in Procs, HistStep(p), PhaseStep(p), ProcStep(p)
  PROVE  HistOK' /\ Grown /\ (Switches(p) => Len(hist) \in Nat /\ Len(hist') = Len(hist) + 1
                                             /\ hist'[Len(hist')] = p /\ ~InHist(p))
  <1>1. Once(hist)
    BY DEF HistInv, HistOK, Once
  <1>2. ASSUME NEW q \in Procs, job[q].phase \in Late PROVE job'[q].phase \in Late
    BY <1>2 DEF ProcStep, OnlyJob, PhaseStep
  <1>3. CASE hist' = hist
    <2>1. Once(hist') /\ Len(hist) \in Nat
      BY <1>1, <1>3 DEF Once, IsSeq
    <2>2. Grown
      BY <1>1, <1>3, <2>1, GrowsOn
    <2>3. HistOK'
      BY <1>2, <1>3, <2>1 DEF HistInv, HistOK, Once, InHist
    <2>4. ~Switches(p)
      <3>1. Len(Append(hist, p)) = Len(hist) + 1 /\ Len(hist) \in Nat
        BY <1>1, AppendIs DEF Once
      <3> QED  BY <1>3, <3>1 DEF Switches
    <2> QED  BY <2>2, <2>3, <2>4
  <1>4. CASE Switches(p)
    <2>1. hist' = Append(hist, p) /\ job[p].phase = "switch" /\ job'[p].phase = "sync"
      BY <1>4 DEF Switches
    <2>2. /\ IsSeq(hist') /\ Len(hist) \in Nat /\ Len(hist') = Len(hist) + 1
          /\ hist'[Len(hist) + 1] = p /\ \A a \in 1..Len(hist) : hist'[a] = hist[a]
      BY <1>1, <2>1, AppendIs DEF Once
    <2>3. \A a \in 1..Len(hist) : hist[a] # p
      BY <2>1 DEF HistInv, HistOK, InHist, Late, Ends
    <2>4. \A a \in 1..Len(hist') : a \in 1..Len(hist) \/ a = Len(hist) + 1
      BY <2>2
    <2>5. Once(hist')
      BY <1>1, <2>2, <2>3, <2>4 DEF Once
    <2>6. Grown
      BY <1>1, <2>2, <2>5, GrowsOn
    <2>7. \A a \in 1..Len(hist') : hist'[a] \in Files
      BY <2>2, <2>4 DEF HistInv, HistOK, Files
    <2>8. ASSUME NEW q \in Procs, InHist(q)' PROVE job'[q].phase \in Late
      <3>1. q = p \/ InHist(q)
        BY <2>2, <2>4, <2>8 DEF InHist
      <3> QED  BY <1>2, <2>1, <3>1 DEF HistInv, HistOK, Late
    <2>9. HistOK'
      BY <2>5, <2>7, <2>8 DEF HistOK, Once
    <2> QED  BY <2>2, <2>3, <2>6, <2>9 DEF InHist
  <1> QED  BY <1>3, <1>4 DEF HistStep, Keeps, Shifts, Syncs, Waits

\* An entry of the directory after the step was there before, or is the new last one.
LEMMA EntriesAre ==
  ASSUME Inv, NEW p \in Procs, HistStep(p), NEW k \in 1..Len(jr')
  PROVE  \/ \E j \in 1..Len(jr) : jr'[k] = jr[j]
         \/ jr'[k] = Live' /\ (Switches(p) \/ Keeps(p) \/ Shifts(p))
  <1>1. Types /\ Len(jr) \in 1..Len(jr)
    BY LiveIs DEF Inv, Types
  <1>2. CASE Waits(p)
    BY <1>2 DEF Waits
  <1>3. CASE Syncs(p)
    <2>1. k = 1 /\ jr'[1] = Live
      BY <1>1, <1>3, LiveAfter DEF Syncs
    <2> QED  BY <1>1, <2>1 DEF Live
  <1>4. CASE Switches(p) \/ Keeps(p) \/ Shifts(p)
    <2>1. PICK ns : jr' = Append(jr, ns)
      BY <1>4 DEF Switches, Keeps, Shifts
    <2>2. /\ Live' = ns /\ Len(jr) \in Nat /\ Len(jr') = Len(jr) + 1
          /\ jr'[Len(jr) + 1] = ns /\ \A j \in 1..Len(jr) : jr'[j] = jr[j]
      BY <1>1, <2>1, LiveAfter
    <2>3. k \in 1..Len(jr) \/ k = Len(jr) + 1
      BY <2>2
    <2> QED  BY <1>4, <2>2, <2>3
  <1> QED  BY <1>2, <1>3, <1>4 DEF HistStep

\* What the names in the directory are after the step.
LEMMA NamesAre ==
  ASSUME Inv, HistInv, NEW p \in Procs, HistStep(p)
  PROVE  /\ Switches(p) => Live'.path = p /\ Live'.old = Live.old
         /\ Keeps(p) => Live'.path = Live.path /\ Live.path # None /\ Live'.old = Live.path
         /\ Shifts(p) => Live'.path = Live.path /\ Live'.old = Live.old
         /\ Syncs(p) => Live' = Live
         /\ Waits(p) => Live' = Live
  <1>1. Types
    BY DEF Inv
  <1>2. job[p].phase = "keep_old" => job[p].kept = Live.path /\ Live.path # None
    BY DEF HistInv, NamesOK
  <1>3. Switches(p) => Live'.path = p /\ Live'.old = Live.old
    BY <1>1, LiveAfter DEF Switches
  <1>4. Keeps(p) => Live'.path = Live.path /\ Live.path # None /\ Live'.old = Live.path
    BY <1>1, <1>2, LiveAfter DEF Keeps
  <1>5. Shifts(p) => Live'.path = Live.path /\ Live'.old = Live.old
    BY <1>1, LiveAfter DEF Shifts
  <1>6. (Syncs(p) => Live' = Live) /\ (Waits(p) => Live' = Live)
    BY <1>1, LiveAfter DEF Syncs, Waits
  <1> QED  BY <1>3, <1>4, <1>5, <1>6

LEMMA NamesMove ==
  ASSUME Inv, SrcInv, HistInv, NEW p \in Procs, HistStep(p), PhaseStep(p), ProcStep(p)
  PROVE  PathOK' /\ NamesOK' /\ DoneOK'
  <1>1. HistOK' /\ Grown /\ (Switches(p) => /\ Len(hist) \in Nat /\ Len(hist') = Len(hist) + 1
                                            /\ hist'[Len(hist')] = p)
    BY HistSteps
  <1>2. p \in Files /\ p # None
    BY ScenariosAssumption DEF Files
  <1>3. /\ job'[p].cmd = job[p].cmd /\ job'[p].dry = job[p].dry
        /\ \A q \in Procs \ {p} : job'[q] = job[q]
    BY DEF ProcStep, OnlyJob
  <1>4. InHist(Live.path)' \/ Live'.path = None
    <2>1. CASE Switches(p)
      <3>1. Len(hist') \in 1..Len(hist') /\ hist'[Len(hist')] = p
        BY <1>1, <2>1
      <3> QED  BY <2>1, <3>1, NamesAre DEF InHist
    <2>2. CASE ~Switches(p)
      <3>1. Live'.path = Live.path
        BY <2>2, NamesAre DEF HistStep
      <3>2. Live.path = None \/ InHist(Live.path)
        BY LiveIs DEF HistInv, PathOK, Live, Inv, Types
      <3>3. \A f : InHist(f) => InHist(f)'
        BY <1>1 DEF Grown
      <3> QED  BY <3>1, <3>2, <3>3 DEF InHist
    <2> QED  BY <2>1, <2>2
  <1>5. PathOK'
    <2>1. ASSUME NEW k \in 1..Len(jr'), jr'[k].path # None PROVE InHist(jr[k].path)'
      <3>1. CASE jr'[k] = Live'
        BY <1>4, <2>1, <3>1 DEF InHist
      <3>2. CASE \E j \in 1..Len(jr) : jr'[k] = jr[j]
        <4>1. PICK f : f = jr'[k].path /\ InHist(f)
          BY <2>1, <3>2 DEF HistInv, PathOK
        <4>2. InHist(f)'
          BY <1>1, <4>1 DEF Grown
        <4> QED  BY <4>1, <4>2 DEF InHist
      <3> QED  BY <3>1, <3>2, EntriesAre
    <2>2. ASSUME Live'.path = None PROVE hist' = First(None, Live'.old)
      <3>1. ~Switches(p) /\ ~Keeps(p)
        BY <1>2, <2>2, NamesAre
      <3>2. Live.path = None /\ Live'.old = Live.old /\ hist' = hist
        BY <2>2, <3>1, NamesAre DEF HistStep, Shifts, Syncs, Waits
      <3> QED  BY <3>2 DEF HistInv, PathOK
    <2>3. ASSUME Live'.path # None PROVE Len(hist') > 0 /\ hist'[Len(hist')] = Live'.path
      <3>1. CASE Switches(p)
        BY <1>1, <3>1, NamesAre
      <3>2. CASE ~Switches(p)
        <4>1. Live'.path = Live.path /\ hist' = hist
          BY <3>2, NamesAre DEF HistStep, Keeps, Shifts, Syncs, Waits
        <4> QED  BY <2>3, <4>1 DEF HistInv, PathOK
      <3> QED  BY <3>1, <3>2
    <2>4. First(None, Live.old)' = First(None, Live'.old)
      BY DEF First
    <2> QED  BY <2>1, <2>2, <2>3, <2>4 DEF PathOK
  <1>6. NamesOK'
    <2>1. ASSUME NEW q \in Procs, q # p, job'[q].phase \in {"keep_old", "switch", "sync"}
          PROVE  job'[q] = job[q] /\ Live' = Live
      <3>1. job'[q] = job[q]
        BY <1>3, <2>1
      <3>2. lock["home"] = q
        BY <2>1, <3>1 DEF Inv, Types, HoldOK, Writing
      <3>3. Waits(p)
        BY <2>1, <3>2, OthersWait DEF Inv
      <3> QED  BY <3>1, <3>3, NamesAre
    <2>2. job'[p].phase = "keep_old" => job'[p].kept = Live'.path /\ Live'.path # None
      <3> SUFFICES ASSUME job'[p].phase = "keep_old"
                   PROVE  job'[p].kept = Live'.path /\ Live'.path # None
        OBVIOUS
      <3>1. job[p].phase = "keep" /\ job'[p].kept = Live.path /\ Live.path # None
        BY DEF PhaseStep
      <3>2. Waits(p)
        BY <3>1 DEF HistStep, Switches, Keeps, Shifts, Syncs
      <3> QED  BY <3>1, <3>2, NamesAre
    <2>3. job'[p].phase = "switch" /\ Live'.path # None => Live'.old = Live'.path
      <3> SUFFICES ASSUME job'[p].phase = "switch", Live'.path # None
                   PROVE  Live'.old = Live'.path
        OBVIOUS
      <3>1. Keeps(p) \/ (Waits(p) /\ Live.path = None)
        BY DEF HistStep, Switches, Keeps, Shifts, Syncs, Waits, Ends
      <3> QED  BY <3>1, NamesAre
    <2>4. job'[p].phase = "sync" /\ job'[p].cmd = "init" => Live'.path = p
      <3> SUFFICES ASSUME job'[p].phase = "sync", job'[p].cmd = "init"
                   PROVE  Live'.path = p
        OBVIOUS
      <3>1. job[p].phase \notin {"move", "relink"}
        BY <1>3 DEF SrcInv, CmdOK
      <3>2. Switches(p)
        BY <3>1 DEF HistStep, Keeps, Shifts, Syncs, Waits, Ends
      <3> QED  BY <3>2, NamesAre
    <2> QED  BY <2>1, <2>2, <2>3, <2>4 DEF HistInv, NamesOK
  <1>7. DoneOK'
    <2> SUFFICES ASSUME NEW q \in Procs, job'[q].phase = "done", job'[q].cmd = "init", ~job'[q].dry
                 PROVE  InHist(q)'
      BY DEF DoneOK, At
    <2>1. CASE q # p \/ job[q].phase = "done"
      <3>1. InHist(q)
        BY <1>3, <2>1 DEF HistInv, DoneOK, At
      <3> QED  BY <1>1, <3>1 DEF Grown
    <2>2. CASE q = p /\ job[q].phase # "done"
      <3>1. Syncs(p)
        BY <1>3, <2>2 DEF HistStep, Switches, Keeps, Shifts, Waits
      <3>2. Live.path = p
        BY <1>3, <2>2, <3>1 DEF HistInv, NamesOK, Syncs
      <3>3. InHist(p)
        BY <1>2, <3>2, LiveIs DEF HistInv, PathOK, Live, Inv, Types
      <3> QED  BY <1>1, <2>2, <3>3 DEF Grown
    <2> QED  BY <2>1, <2>2
  <1> QED  BY <1>5, <1>6, <1>7

\* The two properties, before and after a step, in terms of the history alone.
LEMMA FallbackIs ==
  /\ Fallback <=> \A k \in 1..Len(jr) :
       jr[k].path # None => jr[k].old \in {jr[k].path, EarlierIn(hist, jr[k].path)}
  /\ Fallback' <=> \A k \in 1..Len(jr') :
       jr'[k].path # None => jr'[k].old \in {jr'[k].path, EarlierIn(hist', jr'[k].path)}
  BY Zenon DEF Fallback, Earlier, EarlierIn, Place, PlaceIn

LEMMA ReportedIs ==
  /\ Reported <=> \A p \in Procs : At(p, "done") /\ job[p].cmd = "init" /\ ~job[p].dry =>
       \A k \in 1..Len(jr) : /\ jr[k].path # None
                             /\ PlaceIn(hist, jr[k].path) >= PlaceIn(hist, p)
  /\ Reported' <=> \A p \in Procs : At(p, "done")' /\ job'[p].cmd = "init" /\ ~job'[p].dry =>
       \A k \in 1..Len(jr') : /\ jr'[k].path # None
                              /\ PlaceIn(hist', jr'[k].path) >= PlaceIn(hist', p)
  BY Zenon DEF Reported, Place, PlaceIn

LEMMA FallbackMoves ==
  ASSUME Inv, HistInv, NEW p \in Procs, HistStep(p), PhaseStep(p), ProcStep(p)
  PROVE  Fallback'
  <1>1. HistOK' /\ Grown /\ (Switches(p) => /\ Len(hist) \in Nat /\ Len(hist') = Len(hist) + 1
                                            /\ hist'[Len(hist')] = p)
    BY HistSteps
  <1>2. ASSUME NEW f, InHist(f) PROVE EarlierIn(hist', f) = EarlierIn(hist, f)
    BY <1>1, <1>2, PlacesAre DEF Grown
  <1>3. ASSUME NEW j \in 1..Len(jr), jr[j].path # None
        PROVE  jr[j].old \in {jr[j].path, EarlierIn(hist', jr[j].path)}
    <2>1. InHist(jr[j].path)
      BY <1>3 DEF HistInv, PathOK
    <2> QED  BY <1>2, <1>3, <2>1, FallbackIs DEF HistInv
  <1>4. ASSUME Live.path # None PROVE Live.old \in {Live.path, EarlierIn(hist', Live.path)}
    BY <1>3, <1>4, LiveIs DEF Live, Inv, Types
  <1>5. ASSUME Live'.path # None, Switches(p) \/ Keeps(p) \/ Shifts(p)
        PROVE  Live'.old \in {Live'.path, EarlierIn(hist', Live'.path)}
    <2>1. CASE Switches(p)
      <3> DEFINE n == Len(hist)
      <3>1. n \in Nat /\ Len(hist') = n + 1 /\ hist'[n + 1] = p
        BY <1>1, <2>1
      <3>2. PlaceIn(hist', p) = n + 1
        <4>1. Once(hist')
          BY <1>1 DEF HistOK, Once
        <4>2. n + 1 \in 1..Len(hist')
          BY <3>1
        <4> QED  BY <3>1, <4>1, <4>2, PlaceIs
      <3>3. Live'.path = p /\ Live'.old = Live.old /\ job[p].phase = "switch"
        BY <2>1, NamesAre DEF Switches
      <3>4. n # 0 => hist'[n] = hist[n]
        <4>1. hist' = Append(hist, p) /\ IsSeq(hist)
          BY <2>1 DEF Switches, HistInv, HistOK
        <4>2. \A a \in 1..n : hist'[a] = hist[a]
          BY <4>1, AppendIs
        <4>3. n # 0 => n \in 1..n
          BY <3>1
        <4> QED  BY <4>2, <4>3
      <3>5. EarlierIn(hist', p) = IF n = 0 THEN None ELSE hist[n]
        BY <3>1, <3>2, <3>4 DEF EarlierIn
      <3>6. CASE Live.path # None
        <4>1. n > 0 /\ hist[n] = Live.path /\ Live.old = Live.path
          BY <3>3, <3>6 DEF HistInv, PathOK, NamesOK
        <4> QED  BY <3>1, <3>3, <3>5, <4>1
      <3>7. CASE Live.path = None /\ Live.old = None
        <4>1. hist = <<>>
          BY <3>7 DEF HistInv, PathOK, First
        <4>2. n = 0
          BY <4>1
        <4> QED  BY <3>3, <3>5, <3>7, <4>2
      <3>8. CASE Live.path = None /\ Live.old # None
        <4>1. hist = <<Live.old>>
          BY <3>8 DEF HistInv, PathOK, First
        <4>2. n = 1 /\ hist[1] = Live.old
          BY <4>1, OneIs
        <4> QED  BY <3>3, <3>5, <3>8, <4>2
      <3> QED  BY <3>6, <3>7, <3>8
    <2>2. CASE Keeps(p)
      BY <2>2, NamesAre
    <2>3. CASE Shifts(p)
      <3>1. Live'.path = Live.path /\ Live'.old = Live.old
        BY <2>3, NamesAre
      <3> QED  BY <1>4, <1>5, <3>1
    <2> QED  BY <1>5, <2>1, <2>2, <2>3
  <1>6. ASSUME NEW k \in 1..Len(jr'), jr'[k].path # None
        PROVE  jr'[k].old \in {jr'[k].path, EarlierIn(hist', jr'[k].path)}
    BY <1>3, <1>5, <1>6, EntriesAre
  <1> QED  BY <1>6, FallbackIs

LEMMA ReportedMoves ==
  ASSUME Inv, HistInv, NEW p \in Procs, HistStep(p), PhaseStep(p), ProcStep(p)
  PROVE  Reported'
  <1>1. HistOK' /\ Grown /\ (Switches(p) => /\ Len(hist) \in Nat /\ Len(hist') = Len(hist) + 1
                                            /\ hist'[Len(hist')] = p)
    BY HistSteps
  <1>2. ASSUME NEW f, InHist(f)
        PROVE  PlaceIn(hist', f) = PlaceIn(hist, f) /\ PlaceIn(hist, f) \in 1..Len(hist)
    BY <1>1, <1>2, PlacesAre DEF Grown
  <1>3. /\ job'[p].cmd = job[p].cmd /\ job'[p].dry = job[p].dry
        /\ \A q \in Procs \ {p} : job'[q] = job[q]
    BY DEF ProcStep, OnlyJob
  <1>4. p # None
    BY ScenariosAssumption DEF Files
  <1> SUFFICES ASSUME NEW q \in Procs, job'[q].phase = "done", job'[q].cmd = "init", ~job'[q].dry,
                      NEW k \in 1..Len(jr')
               PROVE  jr'[k].path # None /\ PlaceIn(hist', jr'[k].path) >= PlaceIn(hist', q)
    BY ReportedIs DEF At
  <1>5. CASE q # p \/ job[q].phase = "done"
    <2>1. InHist(q) /\ job[q].phase = "done" /\ job[q].cmd = "init" /\ ~job[q].dry
      BY <1>3, <1>5 DEF HistInv, DoneOK, At
    <2>2. ASSUME NEW j \in 1..Len(jr)
          PROVE  jr[j].path # None /\ PlaceIn(hist', jr[j].path) >= PlaceIn(hist', q)
      <3>1. jr[j].path # None /\ PlaceIn(hist, jr[j].path) >= PlaceIn(hist, q)
        BY <2>1, ReportedIs DEF HistInv, At
      <3>2. InHist(jr[j].path)
        BY <3>1 DEF HistInv, PathOK
      <3> QED  BY <1>2, <2>1, <3>1, <3>2
    <2>3. CASE \E j \in 1..Len(jr) : jr'[k] = jr[j]
      BY <2>2, <2>3
    <2>4. CASE jr'[k] = Live' /\ (Keeps(p) \/ Shifts(p))
      <3>1. jr'[k].path = Live.path
        BY <2>4, NamesAre
      <3>2. Live.path # None /\ PlaceIn(hist', Live.path) >= PlaceIn(hist', q)
        BY <2>2, LiveIs DEF Live, Inv, Types
      <3> QED  BY <3>1, <3>2
    <2>5. CASE jr'[k] = Live' /\ Switches(p)
      <3>1. jr'[k].path = p
        BY <2>5, NamesAre
      <3>2. Once(hist') /\ Len(hist) \in Nat /\ Len(hist') = Len(hist) + 1 /\ hist'[Len(hist')] = p
        BY <1>1, <2>5 DEF HistOK, Once
      <3>3. PlaceIn(hist', p) = Len(hist) + 1
        <4>1. Len(hist') \in 1..Len(hist')
          BY <3>2
        <4> QED  BY <3>2, <4>1, PlaceIs
      <3>4. PlaceIn(hist', q) \in 1..Len(hist)
        BY <1>2, <2>1
      <3> QED  BY <1>4, <3>1, <3>2, <3>3, <3>4
    <2> QED  BY <2>3, <2>4, <2>5, EntriesAre
  <1>6. CASE q = p /\ job[q].phase # "done"
    <2>1. Syncs(p)
      BY <1>3, <1>6 DEF HistStep, Switches, Keeps, Shifts, Waits
    <2>2. Live.path = p
      BY <1>3, <1>6, <2>1 DEF HistInv, NamesOK, Syncs
    <2>3. jr'[k] = Live
      BY <2>1, LiveAfter DEF Syncs, Inv
    <2>4. PlaceIn(hist', p) \in Int
      <3>1. InHist(p)
        BY <1>4, <2>2, LiveIs DEF HistInv, PathOK, Live, Inv, Types
      <3> QED  BY <1>2, <3>1
    <2> QED  BY <1>4, <1>6, <2>2, <2>3, <2>4
  <1> QED  BY <1>5, <1>6

-----------------------------------------------------------------------------
(* The machine, and the history *)

LEMMA FirstIs ==
  ASSUME NEW path, NEW old
  PROVE  /\ path = None /\ old = None => First(path, old) = <<>>
         /\ path = None /\ old # None => First(path, old) = <<old>>
         /\ path # None /\ old \in {None, path} => First(path, old) = <<path>>
         /\ path # None /\ old \notin {None, path} => First(path, old) = <<old, path>>
  <1>1. <<old>> \in Seq({old, path}) /\ <<path>> \in Seq({old, path})
    OBVIOUS
  <1>2. <<old>> \o <<>> = <<old>> /\ <<>> \o <<path>> = <<path>>
    BY <1>1
  <1>3. <<old>> \o <<path>> = <<old, path>>
    <2> DEFINE s == <<old>> \o <<path>>
               t == <<old, path>>
    <2>1. s \in Seq({old, path}) /\ Len(s) = 2 /\ s[1] = old /\ s[2] = path
      BY <1>1
    <2>2. t \in Seq({old, path}) /\ Len(t) = 2 /\ t[1] = old /\ t[2] = path
      OBVIOUS
    <2> HIDE DEF s, t
    <2>3. s = [k \in 1..2 |-> s[k]] /\ t = [k \in 1..2 |-> t[k]]
      BY <2>1, <2>2
    <2>4. \A k \in 1..2 : s[k] = t[k]
      BY <2>1, <2>2
    <2>5. s = t
      BY <2>3, <2>4, Zenon
    <2> QED  BY <2>5 DEF s, t
  <1>4. <<>> \o <<>> = <<>>
    OBVIOUS
  <1>5. CASE path = None
    BY <1>2, <1>4, <1>5, Zenon DEF First
  <1>6. CASE path # None
    BY <1>2, <1>3, <1>6, Zenon DEF First
  <1> QED  BY <1>5, <1>6, Zenon

LEMMA SubIs ==
  ASSUME NEW s, IsSeq(s), NEW n \in 1..Len(s)
  PROVE  /\ IsSeq(SubSeq(s, 1, n)) /\ Len(SubSeq(s, 1, n)) = n /\ n \in Nat
         /\ \A a \in 1..n : SubSeq(s, 1, n)[a] = s[a] /\ a \in 1..Len(s)
  <1> DEFINE S == {s[k] : k \in DOMAIN s}
  <1>1. s \in Seq(S) /\ Len(s) \in Nat /\ n \in Nat /\ 1 <= n /\ n <= Len(s)
    BY DEF IsSeq
  <1>2. SubSeq(s, 1, n) \in Seq(S)
    BY <1>1
  <1>3. IsSeq(SubSeq(s, 1, n))
    BY <1>2, SeqIs
  <1> QED  BY <1>1, <1>2, <1>3

LEMMA CrashHistory == ASSUME Inv, HistInv, crash PROVE HistInv'
  <1> DEFINE x == jr[1]
  <1>1. Len(jr') = 1 /\ jr'[1] = x /\ 1 \in 1..Len(jr) /\ Live' = x
    <2>1. Len(jr') = 1 /\ jr'[1] = x
      BY OneIs DEF crash
    <2> QED  BY <2>1, LiveIs DEF Live, Inv, Types
  <1>2. \A q \in Procs :
          /\ job'[q].phase = IF job[q].phase \in Ends \union {"asked"} THEN job[q].phase ELSE "killed"
          /\ job'[q].cmd = job[q].cmd /\ job'[q].dry = job[q].dry
    BY CrashJobs
  <1>3. NamesOK'
    BY <1>2 DEF NamesOK, Ends
  <1>4. \A q \in Procs : job[q].phase \in Late => job'[q].phase \in Late
    BY <1>2 DEF Late, Ends
  <1>5. \A q \in Procs : job'[q].phase = "done" => job[q].phase = "done"
    BY <1>2
  <1>6. x.path \in Files \union {None} /\ x.old \in Files \union {None}
    BY <1>1 DEF Inv, Types, DirOK
  <1>7. CASE x.path = None
    <2>1. hist' = First(None, x.old)
      BY <1>7 DEF crash
    <2>2. /\ IsSeq(hist') /\ Len(hist') \in Nat
          /\ \A a \in 1..Len(hist') : a = 1 /\ hist'[a] = x.old /\ x.old # None
      <3>1. CASE x.old = None
        <4>1. hist' = <<>>
          BY <2>1, <3>1, FirstIs
        <4>2. IsSeq(hist') /\ Len(hist') = 0
          BY <4>1 DEF IsSeq
        <4> QED  BY <4>2
      <3>2. CASE x.old # None
        <4>1. hist' = <<x.old>>
          BY <2>1, <3>2, FirstIs
        <4>2. IsSeq(hist') /\ Len(hist') = 1 /\ hist'[1] = x.old
          BY <4>1, OneIs
        <4> QED  BY <3>2, <4>2
      <3> QED  BY <3>1, <3>2
    <2>3. HistOK'
      <3>1. ASSUME NEW q \in Procs, InHist(q)' PROVE job'[q].phase \in Late
        <4>1. q = x.old /\ q \in Files /\ q # None
          BY <2>2, <3>1, ScenariosAssumption DEF InHist, Files
        <4>2. InPlace(q)
          BY <1>1, <4>1 DEF InPlace
        <4> QED  BY <1>4, <4>1, <4>2 DEF Inv, Placed, Settled
      <3> QED  BY <1>6, <2>2, <3>1 DEF HistOK
    <2>4. PathOK'
      <3>1. First(None, Live.old)' = First(None, Live'.old)
        BY DEF First
      <3> QED  BY <1>1, <1>7, <2>1, <3>1 DEF PathOK
    <2>5. \A q \in Procs : ~(job[q].phase = "done" /\ job[q].cmd = "init" /\ ~job[q].dry)
      BY <1>1, <1>7 DEF HistInv, Reported, At
    <2>6. DoneOK' /\ Reported'
      BY <1>2, <1>5, <2>5, ReportedIs DEF DoneOK, At
    <2>7. Fallback'
      BY <1>1, <1>7, FallbackIs
    <2> QED  BY <1>3, <2>3, <2>4, <2>6, <2>7 DEF HistInv
  <1>8. CASE x.path # None
    <2> DEFINE n == PlaceIn(hist, x.path)
    <2>1. Once(hist) /\ Len(hist) \in Nat
      BY DEF HistInv, HistOK, Once, IsSeq
    <2>2. n \in 1..Len(hist) /\ hist[n] = x.path
      <3>1. PICK a \in 1..Len(hist) : hist[a] = x.path
        BY <1>1, <1>8 DEF HistInv, PathOK, InHist
      <3>2. n = a
        BY <2>1, <3>1, PlaceIs
      <3> QED  BY <3>1, <3>2
    <2>3. hist' = SubSeq(hist, 1, n)
      <3>1. hist' = SubSeq(hist, 1, Place(jr[1].path))
        BY <1>8 DEF crash
      <3> QED  BY <3>1, PlacesAre
    <2> HIDE DEF n
    <2>4. /\ IsSeq(hist') /\ Len(hist') = n /\ n \in Nat
          /\ \A a \in 1..n : hist'[a] = hist[a] /\ a \in 1..Len(hist)
      BY <2>1, <2>2, <2>3, SubIs DEF Once
    <2>5. Once(hist')
      BY <2>1, <2>4 DEF Once
    <2>6. HistOK'
      <3>1. \A f : InHist(f)' => InHist(f)
        BY <2>4 DEF InHist
      <3> QED  BY <1>4, <2>4, <2>5, <3>1 DEF HistInv, HistOK, Once
    <2>7. \A a \in 1..n : /\ PlaceIn(hist, hist[a]) = a /\ PlaceIn(hist', hist[a]) = a
                          /\ EarlierIn(hist', hist[a]) = EarlierIn(hist, hist[a])
      <3> TAKE a \in 1..n
      <3>1. a \in 1..Len(hist) /\ a \in 1..Len(hist') /\ \A i \in 1..a : hist'[i] = hist[i]
        BY <2>4
      <3> QED  BY <2>1, <2>5, <3>1, SamePlace
    <2>8. n \in 1..n
      BY <2>2, <2>4
    <2>9. PathOK'
      <3>1. hist'[n] = x.path /\ n > 0
        BY <2>2, <2>4, <2>8
      <3> QED  BY <1>1, <1>8, <2>4, <2>8, <3>1 DEF PathOK, InHist
    <2>10. Fallback'
      <3>1. x.old \in {x.path, EarlierIn(hist, x.path)}
        BY <1>1, <1>8, FallbackIs DEF HistInv
      <3>2. EarlierIn(hist', x.path) = EarlierIn(hist, x.path)
        BY <2>2, <2>7, <2>8
      <3> QED  BY <1>1, <3>1, <3>2, FallbackIs
    <2>11. ASSUME NEW q \in Procs, job'[q].phase = "done", job'[q].cmd = "init", ~job'[q].dry
           PROVE  InHist(q)' /\ PlaceIn(hist', x.path) >= PlaceIn(hist', q)
      <3>1. job[q].phase = "done" /\ job[q].cmd = "init" /\ ~job[q].dry
        BY <1>2, <1>5, <2>11
      <3>2. PICK a \in 1..Len(hist) : hist[a] = q
        BY <3>1 DEF HistInv, DoneOK, At, InHist
      <3>3. PlaceIn(hist, q) = a
        BY <2>1, <3>2, PlaceIs
      <3>4. n >= a
        BY <1>1, <3>1, <3>3, ReportedIs DEF HistInv, At, n
      <3>5. a \in 1..n
        BY <2>4, <3>2, <3>4
      <3>6. PlaceIn(hist', q) = a /\ PlaceIn(hist', x.path) = n
        BY <2>2, <2>7, <2>8, <3>2, <3>5
      <3>7. InHist(q)'
        BY <2>4, <3>2, <3>5 DEF InHist
      <3> QED  BY <3>4, <3>6, <3>7
    <2>12. DoneOK' /\ Reported'
      BY <1>1, <1>8, <2>11, ReportedIs DEF DoneOK, At
    <2> QED  BY <1>3, <2>6, <2>9, <2>10, <2>12 DEF HistInv
  <1> QED  BY <1>7, <1>8

LEMMA HistStepKeeps == ASSUME Inv, SrcInv, HistInv, [Next]_vars PROVE HistInv'
  <1>1. ASSUME NEW p \in Procs, Step(p) \/ check_runs(p) \/ kill(p) PROVE HistInv'
    <2>1. HistStep(p) /\ PhaseStep(p) /\ ProcStep(p)
      BY <1>1, StepsDo, PhasesDo, HistoryDo DEF Inv
    <2> QED  BY <2>1, HistSteps, NamesMove, FallbackMoves, ReportedMoves DEF HistInv
  <1>2. CASE writeback
    <2>1. /\ job' = job /\ hist' = hist /\ Live' = Live
          /\ \A k \in 1..Len(jr') : k + 1 \in 1..Len(jr) /\ jr'[k] = jr[k + 1]
      BY <1>2, WritebackIs
    <2>2. HistOK' /\ NamesOK' /\ DoneOK'
      <3>1. IsSeq(hist')
        BY <2>1, Zenon DEF HistInv, HistOK
      <3> QED  BY <2>1, <3>1 DEF HistInv, HistOK, NamesOK, DoneOK, InHist, At
    <2>3. PathOK'
      <3>1. First(None, Live.old)' = First(None, Live'.old)
        BY DEF First
      <3> QED  BY <2>1, <3>1 DEF HistInv, PathOK, InHist
    <2>4. Fallback'
      BY <2>1, FallbackIs DEF HistInv
    <2>5. Reported'
      BY <2>1, ReportedIs DEF HistInv, At
    <2> QED  BY <2>2, <2>3, <2>4, <2>5 DEF HistInv
  <1>3. CASE crash
    BY <1>3, CrashHistory
  <1>4. CASE UNCHANGED vars
    <2>1. job' = job /\ hist' = hist /\ jr' = jr /\ Live' = Live
      BY <1>4 DEF vars, Live
    <2>2. HistOK' /\ NamesOK' /\ DoneOK'
      <3>1. IsSeq(hist')
        BY <2>1, Zenon DEF HistInv, HistOK
      <3> QED  BY <2>1, <3>1 DEF HistInv, HistOK, NamesOK, DoneOK, InHist, At
    <2>3. PathOK'
      <3>1. First(None, Live.old)' = First(None, Live'.old)
        BY DEF First
      <3> QED  BY <2>1, <3>1 DEF HistInv, PathOK, InHist
    <2>4. Fallback' /\ Reported'
      BY <2>1, FallbackIs, ReportedIs DEF HistInv, At
    <2> QED  BY <2>2, <2>3, <2>4 DEF HistInv
  <1> QED  BY <1>1, <1>2, <1>3, <1>4 DEF Next

LEMMA HistInit == Init => HistInv
  <1> SUFFICES ASSUME Init PROVE HistInv
    OBVIOUS
  <1>1. PICK sc \in Scenarios :
          /\ job = [p \in Procs |-> NewJob(sc.ask[p])]
          /\ jr = <<[path |-> sc.path, old |-> sc.old, svc |-> sc.svc, unused |-> sc.unused]>>
          /\ hist = First(sc.path, sc.old)
    BY DEF Init
  <1> DEFINE path == sc.path
             old == sc.old
  <1>2. path \in Given \union {None} /\ old \in Given \union {None} /\ None \notin Files
    BY ScenariosAssumption
  <1>3. \A p \in Procs : /\ job[p].phase \in {"done", "asked"}
                         /\ job[p].phase = "done" => job[p].cmd = "none"
    BY <1>1 DEF NewJob
  <1>4. Len(jr) = 1 /\ jr[1].path = path /\ jr[1].old = old /\ Live = jr[1]
    <2>1. Len(jr) = 1 /\ jr[1].path = path /\ jr[1].old = old
      BY <1>1, OneIs
    <2> QED  BY <2>1 DEF Live
  <1> HIDE DEF path, old
  <1>5. /\ Once(hist) /\ Len(hist) \in Nat
        /\ \A a \in 1..Len(hist) : hist[a] \in Given
        /\ path # None => /\ Len(hist) > 0 /\ hist[Len(hist)] = path
                          /\ old \in {path, EarlierIn(hist, path)}
    <2>1. CASE path = None /\ old = None
      <3>1. hist = <<>>
        BY <1>1, <2>1, FirstIs DEF path, old
      <3>2. IsSeq(hist) /\ Len(hist) = 0
        BY <3>1 DEF IsSeq
      <3> QED  BY <2>1, <3>2 DEF Once
    <2>2. CASE path = None /\ old # None
      <3>1. hist = <<old>>
        BY <1>1, <2>2, FirstIs DEF path, old
      <3>2. IsSeq(hist) /\ Len(hist) = 1 /\ hist[1] = old
        BY <3>1, OneIs
      <3> QED  BY <1>2, <2>2, <3>2 DEF Once
    <2>3. CASE path # None /\ old \in {None, path}
      <3>1. hist = <<path>>
        BY <1>1, <2>3, FirstIs DEF path, old
      <3>2. IsSeq(hist) /\ Len(hist) = 1 /\ hist[1] = path
        BY <3>1, OneIs
      <3>3. Once(hist)
        BY <3>2 DEF Once
      <3>4. PlaceIn(hist, path) = 1
        <4>1. 1 \in 1..Len(hist)
          BY <3>2
        <4> QED  BY <3>2, <3>3, <4>1, PlaceIs
      <3> QED  BY <1>2, <2>3, <3>2, <3>3, <3>4 DEF EarlierIn
    <2>4. CASE path # None /\ old \notin {None, path}
      <3>1. hist = <<old, path>>
        BY <1>1, <2>4, FirstIs DEF path, old
      <3>2. IsSeq(hist) /\ Len(hist) = 2 /\ hist[1] = old /\ hist[2] = path
        BY <3>1 DEF IsSeq
      <3>3. Once(hist)
        BY <2>4, <3>2 DEF Once
      <3>4. PlaceIn(hist, path) = 2
        <4>1. 2 \in 1..Len(hist)
          BY <3>2
        <4> QED  BY <3>2, <3>3, <4>1, PlaceIs
      <3>5. EarlierIn(hist, path) = old
        BY <3>2, <3>4 DEF EarlierIn
      <3> QED  BY <1>2, <2>4, <3>2, <3>3, <3>5
    <2> QED  BY <2>1, <2>2, <2>3, <2>4
  <1>6. HistOK
    <2>1. \A p \in Procs : p \notin Given
      BY ScenariosAssumption
    <2> QED  BY <1>5, <2>1 DEF HistOK, Once, InHist, Files
  <1>7. PathOK
    <2>1. path # None => InHist(path)
      <3>1. Len(hist) > 0 => Len(hist) \in 1..Len(hist)
        BY <1>5
      <3> QED  BY <1>5, <3>1 DEF InHist
    <2>2. path = None => hist = First(None, old)
      BY <1>1 DEF path, old
    <2> QED  BY <1>4, <1>5, <2>1, <2>2 DEF PathOK
  <1>8. NamesOK /\ DoneOK /\ Reported
    BY <1>3 DEF NamesOK, DoneOK, Reported, At
  <1>9. Fallback
    BY <1>4, <1>5, FallbackIs
  <1> QED  BY <1>6, <1>7, <1>8, <1>9 DEF HistInv

LEMMA AlwaysHistory == Spec => []HistInv
  <1>1. Inv /\ SrcInv /\ HistInv /\ [Next]_vars => HistInv'
    BY HistStepKeeps
  <1>2. Inv /\ SrcInv /\ [Next]_vars => SrcInv'
    BY SrcStep
  <1> QED  BY <1>1, <1>2, HistInit, SrcInit, Always, PTL DEF Spec

\* However many ninitctl processes run, fail, are killed or stopped with the machine, and
\* wherever it stops: .old is the graph that the one in place replaced, or the one in place.
THEOREM InstallFallback == Spec => []Fallback
  <1>1. HistInv => Fallback
    BY DEF HistInv
  <1> QED  BY <1>1, AlwaysHistory, PTL

\* However many ninitctl processes run: once ninitctl init has reported success, wherever the
\* machine stops it finds the graph of that init, or one that has replaced it since.
THEOREM InstallReported == Spec => []Reported
  <1>1. HistInv => Reported
    BY DEF HistInv
  <1> QED  BY <1>1, AlwaysHistory, PTL

-----------------------------------------------------------------------------
(* The turns of the syntax checks.  S is what was read of the services, in *)
(* the order of whose names the loop of check_syntax() goes.               *)

Names(d) == IsFiniteSet(DOMAIN d) /\ DOMAIN d \subseteq Nat

\* The services before i, and those whose turn has been after n turns.
Below(D, i) == {j \in D : j < i}
GoneBy(S, n) == {i \in DOMAIN S : Cardinality(Below(DOMAIN S, i)) < n}

LEMMA TurnsAre ==
  ASSUME NEW D, IsFiniteSet(D), D \subseteq Nat
  PROVE  /\ Cardinality(D) \in Nat
         /\ \A x \in D : Cardinality(Below(D, x)) \in 0..Cardinality(D) - 1
         /\ \A x, y \in D : Cardinality(Below(D, x)) = Cardinality(Below(D, y)) => x = y
         /\ \A n \in 0..Cardinality(D) - 1 : \E x \in D : Cardinality(Below(D, x)) = n
  <1> DEFINE R == [x \in D |-> Cardinality(Below(D, x))]
             T == 0..Cardinality(D) - 1
  <1>1. Cardinality(D) \in Nat
    BY FS_CardinalityType
  <1>2. \A x \in D : IsFiniteSet(Below(D, x)) /\ Cardinality(Below(D, x)) \in Nat
    BY FS_Subset, FS_CardinalityType DEF Below
  <1>3. ASSUME NEW x \in D PROVE Cardinality(Below(D, x)) \in T
    <2>1. Below(D, x) \in SUBSET (D \ {x})
      BY DEF Below
    <2>2. IsFiniteSet(D \ {x}) /\ Cardinality(D \ {x}) = Cardinality(D) - 1
      BY FS_RemoveElement
    <2>3. Cardinality(Below(D, x)) <= Cardinality(D) - 1
      BY <2>1, <2>2, FS_Subset
    <2> QED  BY <1>1, <1>2, <2>3
  <1>4. ASSUME NEW x \in D, NEW y \in D, x < y
        PROVE  Cardinality(Below(D, x)) < Cardinality(Below(D, y))
    <2>0. x \in Nat /\ y \in Nat /\ \A z \in D : z \in Nat
      OBVIOUS
    <2>1. x \notin Below(D, x) /\ Below(D, x) \union {x} \in SUBSET Below(D, y)
      <3>1. x \notin Below(D, x) /\ x \in Below(D, y)
        BY <1>4, <2>0 DEF Below
      <3>2. \A z \in Below(D, x) : z \in Below(D, y)
        BY <1>4, <2>0 DEF Below
      <3> QED  BY <3>1, <3>2
    <2>2. Cardinality(Below(D, x) \union {x}) = Cardinality(Below(D, x)) + 1
      BY <1>2, <2>1, FS_AddElement
    <2>3. Cardinality(Below(D, x) \union {x}) <= Cardinality(Below(D, y))
      BY <1>2, <2>1, FS_Subset
    <2> QED  BY <1>2, <2>2, <2>3
  <1>5. \A x, y \in D : Cardinality(Below(D, x)) = Cardinality(Below(D, y)) => x = y
    <2> SUFFICES ASSUME NEW x \in D, NEW y \in D, Cardinality(Below(D, x)) = Cardinality(Below(D, y))
                 PROVE  x = y
      OBVIOUS
    <2>1. ~(x < y) /\ ~(y < x)
      BY <1>2, <1>4
    <2> QED  BY <2>1
  <1>6. IsFiniteSet(T) /\ Cardinality(T) = Cardinality(D)
    <2>1. IsFiniteSet(T) /\ Cardinality(T) = IF 0 > Cardinality(D) - 1 THEN 0 ELSE Cardinality(D) - 1 - 0 + 1
      BY <1>1, FS_Interval
    <2> QED  BY <1>1, <2>1
  <1>7. R \in Injection(D, T)
    BY <1>3, <1>5 DEF Injection, IsInjective
  <1>8. R \in Surjection(D, T)
    BY <1>6, <1>7, FS_Injection
  <1>9. \A n \in T : \E x \in D : Cardinality(Below(D, x)) = n
    BY <1>8 DEF Surjection
  <1> QED  BY <1>1, <1>3, <1>5, <1>9

LEMMA TurnIs ==
  ASSUME NEW D, IsFiniteSet(D), D \subseteq Nat, NEW n \in 0..Cardinality(D) - 1
  PROVE  Nth(D, n + 1) \in D /\ Cardinality(Below(D, Nth(D, n + 1))) = n
  <1> DEFINE m == n + 1
  <1>1. m - 1 = n
    BY TurnsAre
  <1> HIDE DEF m
  <1>2. \E x \in D : Cardinality(Below(D, x)) = m - 1
    <2>1. \E x \in D : Cardinality(Below(D, x)) = n
      BY TurnsAre
    <2> QED  BY <1>1, <2>1, Zenon
  <1>3. \E x \in D : Cardinality({y \in D : y < x}) = m - 1
    BY <1>2, Zenon DEF Below
  <1>4. Nth(D, m) \in D /\ Cardinality({y \in D : y < Nth(D, m)}) = m - 1
    BY <1>3, Zenon DEF Nth
  <1> QED  BY <1>1, <1>4, Zenon DEF Below, m

LEMMA GoneNext ==
  ASSUME NEW S, Names(S), NEW n \in 0..Cardinality(DOMAIN S) - 1
  PROVE  /\ GoneBy(S, n + 1) = GoneBy(S, n) \union {Nth(DOMAIN S, n + 1)}
         /\ Nth(DOMAIN S, n + 1) \in DOMAIN S \ GoneBy(S, n)
  <1> DEFINE D == DOMAIN S
             x == Nth(D, n + 1)
  <1>1. x \in D /\ Cardinality(Below(D, x)) = n
    BY TurnIs DEF Names
  <1>2. /\ \A y \in D : Cardinality(Below(D, y)) \in Nat
        /\ \A y \in D : Cardinality(Below(D, y)) = Cardinality(Below(D, x)) => y = x
        /\ n \in Nat
    BY <1>1, TurnsAre DEF Names
  <1> HIDE DEF x
  <1>3. x \notin GoneBy(S, n)
    BY <1>1, <1>2 DEF GoneBy
  <1>4. ASSUME NEW y \in D PROVE y \in GoneBy(S, n + 1) <=> y \in GoneBy(S, n) \/ y = x
    BY <1>1, <1>2 DEF GoneBy
  <1>5. GoneBy(S, n + 1) \subseteq D /\ GoneBy(S, n) \subseteq D
    BY DEF GoneBy
  <1>6. GoneBy(S, n + 1) = GoneBy(S, n) \union {x}
    BY <1>1, <1>4, <1>5
  <1> QED  BY <1>1, <1>3, <1>6 DEF x

LEMMA GoneAre ==
  ASSUME NEW S, Names(S)
  PROVE  /\ Cardinality(DOMAIN S) \in Nat /\ GoneBy(S, 0) = {}
         /\ GoneBy(S, Cardinality(DOMAIN S)) = DOMAIN S
         /\ \A n : GoneBy(S, n) \subseteq DOMAIN S
  <1>1. Cardinality(DOMAIN S) \in Nat
    BY TurnsAre DEF Names
  <1>2. \A x \in DOMAIN S : Cardinality(Below(DOMAIN S, x)) \in 0..Cardinality(DOMAIN S) - 1
    BY TurnsAre DEF Names
  <1> QED  BY <1>1, <1>2 DEF GoneBy
-----------------------------------------------------------------------------
(* What is counted of the syntax checks.  c is the state of check_syntax(), *)
(* S what was read of the services, and d their directory.                  *)

ChkFields ==
  {"i", "slot", "kid", "reaped", "failed", "late", "bad", "unchecked", "giveup", "shell_ok", "polled"}

Wanted(S, c) == {i \in DOMAIN S : S[i].script >= 0 /\ (S[i].lang = "shell" => c.shell_ok)}
Due(S, c) == Wanted(S, c) \intersect GoneBy(S, c.i)
Fine(c) == {k \in c.reaped \ c.late : c.kid[k] = "ok"}

\* A slot is that of a check which is not reaped, under its name, and no two are of the same.
SlotsOK(c) ==
  /\ IsSeq(c.slot)
  /\ \A k \in 1..Len(c.slot) :
       /\ DOMAIN c.slot[k] = {"pid", "who", "due"}
       /\ c.slot[k].who = c.slot[k].pid /\ c.slot[k].pid \in DOMAIN c.kid \ c.reaped
  /\ \A k, l \in 1..Len(c.slot) : c.slot[k].pid = c.slot[l].pid => k = l

\* A check that is reaped has ended, and the failed ones are those that say so or were killed.
KidsOK(c, S, d) ==
  /\ DOMAIN c.kid \subseteq Due(S, c)
  /\ \A k \in DOMAIN c.kid :
       c.kid[k] \in {"run", "ok", "fail"} /\ (c.kid[k] = "ok" => d[k].file.syntax = "ok")
  /\ c.reaped \subseteq DOMAIN c.kid /\ c.late \subseteq c.failed /\ c.failed \subseteq c.reaped
  /\ \A k \in c.reaped : c.kid[k] # "run"
  /\ \A k \in c.reaped \ c.late : k \in c.failed <=> c.kid[k] = "fail"

\* Of the services whose turn has been each is failed, not checked, fine or under way.
Tally(c, S) ==
  /\ c.i \in 0..Cardinality(DOMAIN S) /\ c.unchecked \in Nat
  /\ c.bad = Cardinality(c.failed \ c.late)
  /\ c.bad + c.unchecked + Cardinality(Fine(c)) + Len(c.slot) = Cardinality(Due(S, c))

CheckOK(c, S, d) == DOMAIN c = ChkFields /\ SlotsOK(c) /\ KidsOK(c, S, d) /\ Tally(c, S)

LEMMA CheckFacts ==
  ASSUME NEW S, Names(S), NEW d, NEW c, CheckOK(c, S, d)
  PROVE  /\ IsFiniteSet(Due(S, c)) /\ Cardinality(Due(S, c)) \in Nat
         /\ IsFiniteSet(c.reaped)
         /\ IsFiniteSet(c.failed \ c.late) /\ Cardinality(c.failed \ c.late) \in Nat
         /\ IsFiniteSet(Fine(c)) /\ Cardinality(Fine(c)) \in Nat
         /\ Len(c.slot) \in Nat /\ c.i \in Nat /\ c.bad \in Nat /\ Cardinality(DOMAIN S) \in Nat
  <1>1. /\ Due(S, c) \subseteq DOMAIN S /\ c.reaped \subseteq Due(S, c)
        /\ c.failed \ c.late \subseteq c.reaped /\ Fine(c) \subseteq c.reaped
    BY GoneAre DEF Due, Fine, CheckOK, KidsOK
  <1>2. IsFiniteSet(Due(S, c)) /\ IsFiniteSet(c.reaped)
    BY <1>1, FS_Subset DEF Names
  <1>3. IsFiniteSet(c.failed \ c.late) /\ IsFiniteSet(Fine(c))
    BY <1>1, <1>2, FS_Subset
  <1>4. Len(c.slot) \in Nat
    BY DEF CheckOK, SlotsOK, IsSeq
  <1>5. Cardinality(c.failed \ c.late) \in Nat /\ Cardinality(Fine(c)) \in Nat
        /\ Cardinality(Due(S, c)) \in Nat /\ Cardinality(DOMAIN S) \in Nat
    BY <1>2, <1>3, FS_CardinalityType DEF Names
  <1> QED  BY <1>2, <1>3, <1>4, <1>5 DEF CheckOK, Tally

LEMMA Sums ==
  ASSUME NEW b \in Nat, NEW u \in Nat, NEW f \in Nat, NEW l \in Nat, NEW n, b + u + f + l = n
  PROVE  /\ b + (u + 1) + f + l = n + 1 /\ b + u + f + (l + 1) = n + 1
         /\ (b + 1) + u + f + (l - 1) = n /\ b + (u + 1) + f + (l - 1) = n
         /\ b + u + (f + 1) + (l - 1) = n /\ b + (u + l) + f + 0 = n
  OBVIOUS

\* The numbers of a tally, and the ways in which they go on: a turn that is not checked, one
\* that is, and a check that is collected, in three ways, or is given up.
Numbers(c, S) == <<c.bad, c.unchecked, Cardinality(Fine(c)), Len(c.slot), Cardinality(Due(S, c))>>

Counted(m) ==
  LET b == m[1] u == m[2] f == m[3] l == m[4] n == m[5]
  IN  {m, <<b, u + 1, f, l, n + 1>>, <<b, u, f, l + 1, n + 1>>, <<b + 1, u, f, l - 1, n>>,
       <<b, u + 1, f, l - 1, n>>, <<b, u, f + 1, l - 1, n>>, <<b, u + l, f, 0, n>>}

LEMMA TallyGoes ==
  ASSUME NEW S, NEW c, NEW e, Tally(c, S), c.bad \in Nat, Cardinality(Fine(c)) \in Nat,
         Len(c.slot) \in Nat, e.i \in 0..Cardinality(DOMAIN S),
         e.bad = Cardinality(e.failed \ e.late), Numbers(e, S) \in Counted(Numbers(c, S))
  PROVE  Tally(e, S)
  <1> DEFINE b == c.bad
             u == c.unchecked
             f == Cardinality(Fine(c))
             l == Len(c.slot)
             n == Cardinality(Due(S, c))
  <1>1. b \in Nat /\ u \in Nat /\ f \in Nat /\ l \in Nat /\ b + u + f + l = n
    BY DEF Tally
  <1> DEFINE B == e.bad
             U == e.unchecked
             F == Cardinality(Fine(e))
             L == Len(e.slot)
             N == Cardinality(Due(S, e))
  <1>2. <<B, U, F, L, N>> \in {<<b, u, f, l, n>>, <<b, u + 1, f, l, n + 1>>, <<b, u, f, l + 1, n + 1>>,
          <<b + 1, u, f, l - 1, n>>, <<b, u + 1, f, l - 1, n>>, <<b, u, f + 1, l - 1, n>>,
          <<b, u + l, f, 0, n>>}
    BY DEF Numbers, Counted
  <1> HIDE DEF b, u, f, l, n, B, U, F, L, N
  <1>3. /\ b + (u + 1) + f + l = n + 1 /\ b + u + f + (l + 1) = n + 1
        /\ (b + 1) + u + f + (l - 1) = n /\ b + (u + 1) + f + (l - 1) = n
        /\ b + u + (f + 1) + (l - 1) = n /\ b + (u + l) + f + 0 = n
    BY <1>1, Sums
  <1>4. U \in {u, u + 1, u + l} /\ B + U + F + L = N
    BY <1>1, <1>2, <1>3, Zenon
  <1>5. U \in Nat
    BY <1>1, <1>4
  <1> QED  BY <1>4, <1>5 DEF Tally, B, U, F, L, N

\* What is kept of the checks that were started.
SameKids(c, e) ==
  /\ e.kid = c.kid /\ e.reaped = c.reaped /\ e.failed = c.failed /\ e.late = c.late
  /\ e.bad = c.bad

\* The turn of a service that is not checked.
LEMMA TurnPasses ==
  ASSUME NEW S, Names(S), NEW d, NEW c, CheckOK(c, S, d), c.i # Cardinality(DOMAIN S),
         NEW e, DOMAIN e = ChkFields, SameKids(c, e), e.slot = c.slot, e.shell_ok = c.shell_ok,
         e.i = c.i + 1,
         e.unchecked = c.unchecked + (IF Nth(DOMAIN S, c.i + 1) \in Wanted(S, c) THEN 1 ELSE 0)
  PROVE  CheckOK(e, S, d)
  <1> DEFINE x == Nth(DOMAIN S, c.i + 1)
  <1>f. /\ IsFiniteSet(Due(S, c)) /\ Cardinality(Due(S, c)) \in Nat
        /\ Cardinality(Fine(c)) \in Nat /\ Len(c.slot) \in Nat
        /\ c.i \in Nat /\ c.bad \in Nat /\ c.unchecked \in Nat /\ Cardinality(DOMAIN S) \in Nat
    BY CheckFacts DEF CheckOK, Tally
  <1>0. c.i \in 0..Cardinality(DOMAIN S) - 1 /\ e.i \in 0..Cardinality(DOMAIN S) /\ c.unchecked \in Nat
    BY CheckFacts DEF CheckOK, Tally
  <1>1. GoneBy(S, e.i) = GoneBy(S, c.i) \union {x} /\ x \in DOMAIN S \ GoneBy(S, c.i)
    BY <1>0, GoneNext
  <1>2. Wanted(S, e) = Wanted(S, c)
    BY DEF Wanted
  <1> HIDE DEF x
  <1>3. Due(S, e) = IF x \in Wanted(S, c) THEN Due(S, c) \union {x} ELSE Due(S, c)
    BY <1>1, <1>2 DEF Due
  <1>4. x \notin Due(S, c)
    BY <1>1 DEF Due
  <1>5. Cardinality(Due(S, e)) = Cardinality(Due(S, c)) + IF x \in Wanted(S, c) THEN 1 ELSE 0
    <2>1. CASE x \in Wanted(S, c)
      <3>1. Cardinality(Due(S, c) \union {x}) = Cardinality(Due(S, c)) + 1
        BY <1>4, <1>f, FS_AddElement
      <3> QED  BY <1>3, <2>1, <3>1
    <2>2. CASE x \notin Wanted(S, c)
      BY <1>3, <1>f, <2>2
    <2> QED  BY <2>1, <2>2
  <1>6. Fine(e) = Fine(c)
    BY DEF Fine, SameKids
  <1>7. Numbers(e, S) \in Counted(Numbers(c, S))
    <2>1. e.unchecked = c.unchecked + (IF x \in Wanted(S, c) THEN 1 ELSE 0)
      BY DEF x
    <2>2. Cardinality(Fine(e)) = Cardinality(Fine(c)) /\ Len(e.slot) = Len(c.slot)
      BY <1>6
    <2>3. e.bad = c.bad /\ e.bad = Cardinality(e.failed \ e.late)
      BY DEF SameKids, CheckOK, Tally
    <2>4. CASE x \in Wanted(S, c)
      <3>1. e.unchecked = c.unchecked + 1 /\ Cardinality(Due(S, e)) = Cardinality(Due(S, c)) + 1
        BY <1>5, <2>1, <2>4
      <3> QED  BY <2>2, <2>3, <3>1 DEF Numbers, Counted
    <2>5. CASE x \notin Wanted(S, c)
      <3>1. e.unchecked = c.unchecked + 0 /\ Cardinality(Due(S, e)) = Cardinality(Due(S, c)) + 0
        BY <1>5, <2>1, <2>5
      <3>2. e.unchecked = c.unchecked /\ Cardinality(Due(S, e)) = Cardinality(Due(S, c))
        BY <1>f, <3>1
      <3> QED  BY <2>2, <2>3, <3>2 DEF Numbers, Counted
    <2> QED  BY <2>4, <2>5
  <1>7b. Tally(e, S)
    <2>1. e.bad = Cardinality(e.failed \ e.late) /\ Tally(c, S)
      BY DEF SameKids, CheckOK, Tally
    <2> QED  BY <1>0, <1>7, <1>f, <2>1, TallyGoes
  <1>8. KidsOK(e, S, d)
    <2>1. Due(S, c) \subseteq Due(S, e)
      BY <1>3
    <2> QED  BY <2>1 DEF CheckOK, KidsOK, SameKids
  <1>9. SlotsOK(e)
    BY DEF CheckOK, SlotsOK, SameKids
  <1> QED  BY <1>7b, <1>8, <1>9 DEF CheckOK

\* The turn of a service whose check is started.
LEMMA TurnRuns ==
  ASSUME NEW S, Names(S), NEW d, NEW c, CheckOK(c, S, d), c.i # Cardinality(DOMAIN S),
         NEW x, x = Nth(DOMAIN S, c.i + 1), x \in Wanted(S, c),
         NEW s, DOMAIN s = {"pid", "who", "due"}, s.pid = x, s.who = x,
         NEW e, DOMAIN e = ChkFields, e.shell_ok = c.shell_ok, e.i = c.i + 1,
         e.reaped = c.reaped, e.failed = c.failed, e.late = c.late, e.bad = c.bad,
         e.unchecked = c.unchecked, e.slot = Append(c.slot, s),
         DOMAIN e.kid = DOMAIN c.kid \union {x}, e.kid[x] = "run",
         \A k \in DOMAIN c.kid : k # x => e.kid[k] = c.kid[k]
  PROVE  CheckOK(e, S, d)
  <1>f. /\ IsFiniteSet(Due(S, c)) /\ Cardinality(Due(S, c)) \in Nat
        /\ Cardinality(Fine(c)) \in Nat /\ Len(c.slot) \in Nat
        /\ c.i \in Nat /\ c.bad \in Nat /\ c.unchecked \in Nat /\ Cardinality(DOMAIN S) \in Nat
    BY CheckFacts DEF CheckOK, Tally
  <1>0. c.i \in 0..Cardinality(DOMAIN S) - 1 /\ e.i \in 0..Cardinality(DOMAIN S) /\ c.unchecked \in Nat
    BY CheckFacts DEF CheckOK, Tally
  <1>1. GoneBy(S, e.i) = GoneBy(S, c.i) \union {x} /\ x \in DOMAIN S \ GoneBy(S, c.i)
    BY <1>0, GoneNext
  <1>2. Wanted(S, e) = Wanted(S, c)
    BY DEF Wanted
  <1>3. Due(S, e) = Due(S, c) \union {x} /\ x \notin Due(S, c)
    BY <1>1, <1>2 DEF Due
  <1>4. Cardinality(Due(S, e)) = Cardinality(Due(S, c)) + 1
    <2>1. Cardinality(Due(S, c) \union {x}) = Cardinality(Due(S, c)) + 1
      BY <1>3, <1>f, FS_AddElement
    <2> QED  BY <1>3, <2>1, Zenon
  <1>5. x \notin DOMAIN c.kid /\ x \notin c.reaped
    BY <1>3 DEF CheckOK, KidsOK
  <1>6. \A k \in DOMAIN c.kid : e.kid[k] = c.kid[k]
    BY <1>5
  <1>7. Fine(e) = Fine(c)
    BY <1>6 DEF Fine, CheckOK, KidsOK
  <1>8. /\ IsSeq(e.slot) /\ Len(c.slot) \in Nat /\ Len(e.slot) = Len(c.slot) + 1
        /\ e.slot[Len(c.slot) + 1] = s /\ \A k \in 1..Len(c.slot) : e.slot[k] = c.slot[k]
    BY AppendIs DEF CheckOK, SlotsOK
  <1>9. Tally(e, S)
    <2>1. Numbers(e, S) \in Counted(Numbers(c, S))
      BY <1>4, <1>7, <1>8 DEF Numbers, Counted
    <2>2. e.bad = Cardinality(e.failed \ e.late) /\ Tally(c, S)
      BY DEF CheckOK, Tally
    <2> QED  BY <1>0, <1>f, <2>1, <2>2, TallyGoes
  <1>10. KidsOK(e, S, d)
    BY <1>3, <1>5, <1>6 DEF CheckOK, KidsOK
  <1>11. SlotsOK(e)
    <2>1. \A k \in 1..Len(e.slot) : k \in 1..Len(c.slot) \/ k = Len(c.slot) + 1
      BY <1>8
    <2>2. \A k \in 1..Len(c.slot) : c.slot[k].pid \in DOMAIN c.kid /\ c.slot[k].pid # x
      BY <1>5 DEF CheckOK, SlotsOK
    <2>3. ASSUME NEW k \in 1..Len(e.slot)
          PROVE  /\ DOMAIN e.slot[k] = {"pid", "who", "due"}
                 /\ e.slot[k].who = e.slot[k].pid /\ e.slot[k].pid \in DOMAIN e.kid \ e.reaped
      <3>1. CASE k \in 1..Len(c.slot)
        BY <1>8, <3>1 DEF CheckOK, SlotsOK
      <3>2. CASE k = Len(c.slot) + 1
        BY <1>5, <1>8, <3>2
      <3> QED  BY <2>1, <3>1, <3>2
    <2>4. ASSUME NEW k \in 1..Len(e.slot), NEW l \in 1..Len(e.slot), e.slot[k].pid = e.slot[l].pid
          PROVE  k = l
      <3>1. CASE k \in 1..Len(c.slot) /\ l \in 1..Len(c.slot)
        BY <1>8, <2>4, <3>1 DEF CheckOK, SlotsOK
      <3>2. CASE k = Len(c.slot) + 1 \/ l = Len(c.slot) + 1
        BY <1>8, <2>1, <2>2, <2>4, <3>2
      <3> QED  BY <2>1, <3>1, <3>2
    <2> QED  BY <1>8, <2>3, <2>4 DEF SlotsOK
  <1> QED  BY <1>9, <1>10, <1>11 DEF CheckOK
\* Nothing but the times of the checks is changed.
LEMMA TimesGo ==
  ASSUME NEW S, NEW d, NEW c, CheckOK(c, S, d),
         NEW e, DOMAIN e = ChkFields, SameKids(c, e), e.shell_ok = c.shell_ok, e.i = c.i,
         e.unchecked = c.unchecked, IsSeq(e.slot), Len(e.slot) = Len(c.slot),
         \A k \in 1..Len(c.slot) : /\ DOMAIN e.slot[k] = {"pid", "who", "due"}
                                   /\ e.slot[k].pid = c.slot[k].pid /\ e.slot[k].who = c.slot[k].who
  PROVE  CheckOK(e, S, d)
  <1>1. Fine(e) = Fine(c) /\ Due(S, e) = Due(S, c)
    BY DEF Fine, Due, Wanted, SameKids
  <1>2. SlotsOK(e)
    BY DEF CheckOK, SlotsOK, SameKids
  <1>3. KidsOK(e, S, d)
    BY <1>1 DEF CheckOK, KidsOK, SameKids
  <1>4. Tally(e, S)
    BY <1>1 DEF CheckOK, Tally, SameKids
  <1> QED  BY <1>2, <1>3, <1>4 DEF CheckOK

\* A check ends.
LEMMA KidEnds ==
  ASSUME NEW S, NEW d, NEW c, CheckOK(c, S, d),
         NEW x \in DOMAIN c.kid, c.kid[x] = "run",
         NEW e, DOMAIN e = ChkFields, e.shell_ok = c.shell_ok, e.i = c.i, e.slot = c.slot,
         e.reaped = c.reaped, e.failed = c.failed, e.late = c.late, e.bad = c.bad,
         e.unchecked = c.unchecked, DOMAIN e.kid = DOMAIN c.kid,
         e.kid[x] \in {"ok", "fail"}, e.kid[x] = "ok" => d[x].file.syntax = "ok",
         \A k \in DOMAIN c.kid : k # x => e.kid[k] = c.kid[k]
  PROVE  CheckOK(e, S, d)
  <1>1. x \notin c.reaped
    BY DEF CheckOK, KidsOK
  <1>2. \A k \in c.reaped : k \in DOMAIN c.kid /\ e.kid[k] = c.kid[k]
    BY <1>1 DEF CheckOK, KidsOK
  <1>3. Fine(e) = Fine(c) /\ Due(S, e) = Due(S, c)
    BY <1>2 DEF Fine, Due, Wanted
  <1>4. SlotsOK(e)
    BY DEF CheckOK, SlotsOK
  <1>5. KidsOK(e, S, d)
    <2>1. ASSUME NEW k \in DOMAIN e.kid
          PROVE  e.kid[k] \in {"run", "ok", "fail"} /\ (e.kid[k] = "ok" => d[k].file.syntax = "ok")
      BY DEF CheckOK, KidsOK
    <2> QED  BY <1>2, <1>3, <2>1 DEF CheckOK, KidsOK
  <1>6. Tally(e, S)
    BY <1>3 DEF CheckOK, Tally
  <1> QED  BY <1>4, <1>5, <1>6 DEF CheckOK

\* waitpid() fails: what is under way counts as not checked.
LEMMA GivenUp ==
  ASSUME NEW S, Names(S), NEW d, NEW c, CheckOK(c, S, d),
         NEW e, DOMAIN e = ChkFields, SameKids(c, e), e.shell_ok = c.shell_ok, e.i = c.i,
         e.unchecked = c.unchecked + Len(c.slot), e.slot = <<>>
  PROVE  CheckOK(e, S, d)
  <1>f. c.bad \in Nat /\ Cardinality(Fine(c)) \in Nat /\ Len(c.slot) \in Nat
    BY CheckFacts
  <1>1. Fine(e) = Fine(c) /\ Due(S, e) = Due(S, c)
    BY DEF Fine, Due, Wanted, SameKids
  <1>2. SlotsOK(e)
    BY DEF SlotsOK, IsSeq
  <1>3. KidsOK(e, S, d)
    BY <1>1 DEF CheckOK, KidsOK, SameKids
  <1>4. Tally(e, S)
    <2>1. Numbers(e, S) \in Counted(Numbers(c, S))
      BY <1>1 DEF Numbers, Counted, SameKids
    <2>2. Tally(c, S) /\ e.i \in 0..Cardinality(DOMAIN S) /\ e.bad = Cardinality(e.failed \ e.late)
      BY DEF CheckOK, Tally, SameKids
    <2> QED  BY <1>f, <2>1, <2>2, TallyGoes
  <1> QED  BY <1>2, <1>3, <1>4 DEF CheckOK

LEMMA WithoutIs ==
  ASSUME NEW s, IsSeq(s), NEW k \in 1..Len(s)
  PROVE  /\ IsSeq(without(s, k)) /\ Len(s) \in Nat /\ Len(without(s, k)) = Len(s) - 1
         /\ \A j \in 1..Len(s) - 1 : without(s, k)[j] = IF j = k THEN s[Len(s)] ELSE s[j]
  <1> DEFINE S == {s[j] : j \in DOMAIN s}
  <1>1. s \in Seq(S) /\ Len(s) \in Nat /\ Len(s) - 1 \in Nat /\ Len(s) \in 1..Len(s)
    BY DEF IsSeq
  <1>2. without(s, k) = [j \in 1..Len(s) - 1 |-> IF j = k THEN s[Len(s)] ELSE s[j]]
    BY DEF without
  <1>3. \A j \in 1..Len(s) : s[j] \in S
    BY <1>1
  <1> HIDE DEF S
  <1>4. without(s, k) \in Seq(S) /\ Len(without(s, k)) = Len(s) - 1
    BY <1>1, <1>2, <1>3
  <1>5. IsSeq(without(s, k))
    BY <1>4, SeqIs
  <1> QED  BY <1>1, <1>2, <1>4, <1>5

\* The slots left are those of the other checks.
LEMMA SlotsLeft ==
  ASSUME NEW c, SlotsOK(c), NEW k \in 1..Len(c.slot),
         NEW e, e.slot = without(c.slot, k), e.kid = c.kid,
         e.reaped = c.reaped \union {c.slot[k].pid}
  PROVE  SlotsOK(e) /\ Len(e.slot) = Len(c.slot) - 1
  <1> DEFINE n == Len(c.slot)
             At_(j) == IF j = k THEN n ELSE j
  <1>1. /\ IsSeq(e.slot) /\ n \in Nat /\ Len(e.slot) = n - 1
        /\ \A j \in 1..n - 1 : e.slot[j] = IF j = k THEN c.slot[n] ELSE c.slot[j]
    <2>1. IsSeq(c.slot)
      BY DEF SlotsOK
    <2>2. /\ IsSeq(without(c.slot, k)) /\ n \in Nat /\ Len(without(c.slot, k)) = n - 1
          /\ \A j \in 1..n - 1 : without(c.slot, k)[j] = IF j = k THEN c.slot[n] ELSE c.slot[j]
      BY <2>1, WithoutIs
    <2> HIDE DEF n
    <2> QED  BY <2>2, Zenon
  <1>2. \A j \in 1..n - 1 : At_(j) \in 1..n /\ At_(j) # k /\ e.slot[j] = c.slot[At_(j)]
    BY <1>1
  <1>3. \A j, l \in 1..n - 1 : At_(j) = At_(l) => j = l
    BY <1>1
  <1> HIDE DEF n, At_
  <1>4. \A j \in 1..n : j # k => c.slot[j].pid # c.slot[k].pid
    BY DEF SlotsOK, n
  <1>5. ASSUME NEW j \in 1..n - 1
        PROVE  /\ DOMAIN e.slot[j] = {"pid", "who", "due"}
               /\ e.slot[j].who = e.slot[j].pid /\ e.slot[j].pid \in DOMAIN e.kid \ e.reaped
    BY <1>2, <1>4 DEF SlotsOK, n
  <1>6. ASSUME NEW j \in 1..n - 1, NEW l \in 1..n - 1, e.slot[j].pid = e.slot[l].pid PROVE j = l
    BY <1>2, <1>3, <1>6 DEF SlotsOK, n
  <1> QED  BY <1>1, <1>5, <1>6 DEF SlotsOK, n
\* collect_one(): the check that has ended counts as failed, as late, or as fine.
LEMMA Collected ==
  ASSUME NEW S, Names(S), NEW d, NEW c, CheckOK(c, S, d),
         NEW k \in 1..Len(c.slot), NEW x, c.slot[k].pid = x, c.kid[x] # "run",
         NEW late \in BOOLEAN, NEW fail \in BOOLEAN, fail <=> late \/ c.kid[x] = "fail",
         NEW e, DOMAIN e = ChkFields, e.shell_ok = c.shell_ok, e.i = c.i, e.kid = c.kid,
         e.slot = without(c.slot, k), e.reaped = c.reaped \union {x},
         e.failed = IF fail THEN c.failed \union {c.slot[k].who} ELSE c.failed,
         e.late = IF late THEN c.late \union {c.slot[k].who} ELSE c.late,
         e.unchecked = IF late THEN c.unchecked + 1 ELSE c.unchecked,
         e.bad = IF fail /\ ~late THEN c.bad + 1 ELSE c.bad
  PROVE  CheckOK(e, S, d)
  <1>f. /\ IsFiniteSet(c.failed \ c.late) /\ IsFiniteSet(Fine(c)) /\ Cardinality(Fine(c)) \in Nat
        /\ c.bad \in Nat /\ Len(c.slot) \in Nat
    BY CheckFacts
  <1>0. c.bad = Cardinality(c.failed \ c.late) /\ Tally(c, S) /\ e.i \in 0..Cardinality(DOMAIN S)
    BY DEF CheckOK, Tally
  <1>1. c.slot[k].who = x /\ x \in DOMAIN c.kid /\ x \notin c.reaped /\ c.kid[x] \in {"ok", "fail"}
    BY DEF CheckOK, SlotsOK, KidsOK
  <1>2. x \notin c.failed /\ x \notin c.late
    BY <1>1 DEF CheckOK, KidsOK
  <1>3. SlotsOK(e) /\ Len(e.slot) = Len(c.slot) - 1
    BY SlotsLeft DEF CheckOK
  <1>4. Due(S, e) = Due(S, c)
    BY DEF Due, Wanted
  <1>5. CASE late
    <2>1. fail /\ e.failed = c.failed \union {x} /\ e.late = c.late \union {x}
      BY <1>1, <1>5
    <2>2. e.failed \ e.late = c.failed \ c.late /\ Fine(e) = Fine(c)
      <3>1. e.failed \ e.late = c.failed \ c.late /\ e.reaped \ e.late = c.reaped \ c.late
        BY <1>1, <1>2, <2>1
      <3> QED  BY <3>1, Zenon DEF Fine
    <2>3. KidsOK(e, S, d)
      BY <1>1, <1>4, <2>1 DEF CheckOK, KidsOK
    <2>4. Numbers(e, S) \in Counted(Numbers(c, S)) /\ e.bad = Cardinality(e.failed \ e.late)
      <3>1. e.bad = c.bad /\ e.unchecked = c.unchecked + 1
        BY <1>5
      <3> QED  BY <1>0, <1>3, <1>4, <2>2, <3>1 DEF Numbers, Counted
    <2>5. Tally(e, S)
      BY <1>0, <1>f, <2>4, TallyGoes
    <2> QED  BY <1>3, <2>3, <2>5 DEF CheckOK
  <1>6. CASE ~late /\ c.kid[x] = "fail"
    <2>1. fail /\ e.failed = c.failed \union {x} /\ e.late = c.late
      BY <1>1, <1>6
    <2>2. e.failed \ e.late = (c.failed \ c.late) \union {x} /\ Fine(e) = Fine(c)
      BY <1>2, <1>6, <2>1 DEF Fine
    <2>3. KidsOK(e, S, d)
      BY <1>1, <1>2, <1>4, <1>6, <2>1 DEF CheckOK, KidsOK
    <2>4. e.bad = c.bad + 1 /\ e.unchecked = c.unchecked
      BY <1>6, <2>1
    <2>5. Cardinality((c.failed \ c.late) \union {x}) = Cardinality(c.failed \ c.late) + 1
      BY <1>2, <1>f, FS_AddElement
    <2>6. e.bad = Cardinality(e.failed \ e.late)
      BY <1>0, <2>2, <2>4, <2>5, Zenon
    <2>7. Numbers(e, S) \in Counted(Numbers(c, S))
      BY <1>3, <1>4, <2>2, <2>4 DEF Numbers, Counted
    <2>8. Tally(e, S)
      BY <1>0, <1>f, <2>6, <2>7, TallyGoes
    <2> QED  BY <1>3, <2>3, <2>8 DEF CheckOK
  <1>7. CASE ~late /\ c.kid[x] = "ok"
    <2>1. ~fail /\ e.failed = c.failed /\ e.late = c.late
      BY <1>7
    <2>2. e.failed \ e.late = c.failed \ c.late /\ Fine(e) = Fine(c) \union {x} /\ x \notin Fine(c)
      BY <1>1, <1>2, <1>7, <2>1 DEF Fine
    <2>3. KidsOK(e, S, d)
      BY <1>1, <1>2, <1>4, <1>7, <2>1 DEF CheckOK, KidsOK
    <2>4. e.bad = c.bad /\ e.unchecked = c.unchecked
      BY <1>7, <2>1
    <2>5. Cardinality(Fine(c) \union {x}) = Cardinality(Fine(c)) + 1
      BY <1>f, <2>2, FS_AddElement
    <2>6. Cardinality(Fine(e)) = Cardinality(Fine(c)) + 1
      BY <2>2, <2>5, Zenon
    <2>7. Numbers(e, S) \in Counted(Numbers(c, S)) /\ e.bad = Cardinality(e.failed \ e.late)
      BY <1>0, <1>3, <1>4, <2>2, <2>4, <2>6 DEF Numbers, Counted
    <2>8. Tally(e, S)
      BY <1>0, <1>f, <2>7, TallyGoes
    <2> QED  BY <1>3, <2>3, <2>8 DEF CheckOK
  <1> QED  BY <1>1, <1>5, <1>6, <1>7

\* What the tally says once every service had its turn and no check is under way.
Told(c, S) ==
  /\ c.failed \ c.late = {k \in c.reaped \ c.late : c.kid[k] = "fail"}
  /\ c.bad = Cardinality(c.failed \ c.late)
  /\ c.bad + c.unchecked + Cardinality(Fine(c)) = Cardinality(Wanted(S, c))

LEMMA AllTold ==
  ASSUME NEW S, Names(S), NEW d, NEW c, CheckOK(c, S, d), c.i = Cardinality(DOMAIN S), c.slot = <<>>
  PROVE  /\ Told(c, S)
         /\ ~(c.bad > 0 \/ c.unchecked > 0) => \A k \in Wanted(S, c) : d[k].file.syntax = "ok"
  <1>f. /\ IsFiniteSet(Due(S, c)) /\ Cardinality(Due(S, c)) \in Nat
        /\ IsFiniteSet(Fine(c)) /\ Cardinality(Fine(c)) \in Nat /\ c.bad \in Nat /\ c.unchecked \in Nat
    BY CheckFacts DEF CheckOK, Tally
  <1>1. Due(S, c) = Wanted(S, c)
    BY GoneAre DEF Due, Wanted
  <1>2. c.failed \ c.late = {k \in c.reaped \ c.late : c.kid[k] = "fail"}
    BY DEF CheckOK, KidsOK
  <1>3. c.bad + c.unchecked + Cardinality(Fine(c)) = Cardinality(Wanted(S, c))
    <2>1. c.bad + c.unchecked + Cardinality(Fine(c)) + 0 = Cardinality(Wanted(S, c))
      BY <1>1 DEF CheckOK, Tally
    <2> QED  BY <1>f, <2>1
  <1>4. Told(c, S)
    BY <1>2, <1>3 DEF Told, CheckOK, Tally
  <1>5. ASSUME ~(c.bad > 0 \/ c.unchecked > 0), NEW k \in Wanted(S, c) PROVE d[k].file.syntax = "ok"
    <2>1. Cardinality(Fine(c)) = Cardinality(Due(S, c))
      BY <1>1, <1>3, <1>5, <1>f
    <2>2. Fine(c) \in SUBSET Due(S, c)
      BY DEF Fine, CheckOK, KidsOK
    <2>3. Fine(c) = Due(S, c)
      BY <1>f, <2>1, <2>2, FS_Subset
    <2> QED  BY <1>1, <2>3 DEF Fine, CheckOK, KidsOK
  <1> QED  BY <1>4, <1>5
-----------------------------------------------------------------------------
(* The syntax checks of each process *)

BuildFields == {"srcs", "mode", "height", "order", "image", "chk"}

\* Nothing failed and nothing was left out.
Passed(j) ==
  /\ Told(j.b.chk, j.b.srcs)
  /\ \A k \in Wanted(j.b.srcs, j.b.chk) : j.read[k].file.syntax = "ok"

Unread == {"asked", "read", "move", "relink"}
Open == {"check", "checking", "dead", "killed"}

JobChecked(j) ==
  /\ DOMAIN j.b = BuildFields /\ Names(j.b.srcs)
  /\ j.phase \in Unread => j.b.srcs = <<>>
  /\ j.phase = "checking" => CheckOK(j.b.chk, j.b.srcs, j.read)
  /\ j.phase \notin Open => j.b.srcs = <<>> \/ j.nocheck \/ Passed(j)

NamesIn(ns) == Names(ns.svc) /\ Names(ns.unused)

ChkInv ==
  /\ \A p \in Procs : JobChecked(job[p])
  /\ Names(away) /\ \A k \in 1..Len(jr) : NamesIn(jr[k])

\* What was read and checked stays, in a step from one phase to another.
Stays(p) ==
  /\ job'[p].b = job[p].b /\ job'[p].nocheck = job[p].nocheck /\ job'[p].read = job[p].read

LEMMA GoStays ==
  ASSUME JobShape, NEW p \in Procs, NEW ph, Go(p, job[p], ph)
  PROVE  Stays(p) /\ job'[p].phase = ph
  BY DEF Go, JobShape, JobFields, Stays

LEMMA GoBuilds ==
  ASSUME JobShape, NEW p \in Procs, NEW x, NEW ph, Go(p, [job[p] EXCEPT !.b = x], ph)
  PROVE  /\ job'[p].b = x /\ job'[p].phase = ph
         /\ job'[p].nocheck = job[p].nocheck /\ job'[p].read = job[p].read
  BY DEF Go, JobShape, JobFields

LEMMA SetChkSets ==
  ASSUME JobShape, NEW p \in Procs, DOMAIN job[p].b = BuildFields, NEW c, SetChk(p, c)
  PROVE  /\ DOMAIN job'[p].b = BuildFields /\ job'[p].b.srcs = job[p].b.srcs /\ job'[p].b.chk = c
         /\ job'[p].phase = job[p].phase
         /\ job'[p].nocheck = job[p].nocheck /\ job'[p].read = job[p].read
  <1> DEFINE x == [job[p].b EXCEPT !.chk = c]
  <1>1. DOMAIN x = BuildFields /\ x.srcs = job[p].b.srcs /\ x.chk = c
    BY DEF BuildFields
  <1>2. job' = [job EXCEPT ![p] = [job[p] EXCEPT !.b = x]]
    BY Zenon DEF SetChk
  <1> HIDE DEF x
  <1>3. /\ job'[p].b = x /\ job'[p].phase = job[p].phase
        /\ job'[p].nocheck = job[p].nocheck /\ job'[p].read = job[p].read
    BY <1>2 DEF JobShape, JobFields
  <1> QED  BY <1>1, <1>3

\* A step of a check, as the tally sees it.
LEMMA CheckSets ==
  ASSUME JobShape, NEW p \in Procs, JobChecked(job[p]), job[p].phase = "checking",
         NEW c, SetChk(p, c), CheckOK(c, job[p].b.srcs, job[p].read)
  PROVE  JobChecked(job'[p])
  <1>1. /\ DOMAIN job'[p].b = BuildFields /\ job'[p].b.srcs = job[p].b.srcs /\ job'[p].b.chk = c
        /\ job'[p].phase = "checking"
        /\ job'[p].nocheck = job[p].nocheck /\ job'[p].read = job[p].read
    BY SetChkSets DEF JobChecked
  <1> QED  BY <1>1 DEF JobChecked, Unread, Open

LEMMA StaysChecked ==
  ASSUME NEW p \in Procs, JobChecked(job[p]), Stays(p),
         job'[p].phase \in Unread => job[p].phase \in Unread,
         job'[p].phase = "checking" => job[p].phase = "checking",
         job'[p].phase \notin Open => job[p].phase \notin Open
  PROVE  JobChecked(job'[p])
  BY DEF JobChecked, Stays, Passed

LEMMA CheckStarts ==
  ASSUME NEW S, Names(S), NEW d, NEW sh, NEW gu
  PROVE  CheckOK([NoCheck EXCEPT !.shell_ok = sh, !.giveup = gu], S, d)
  <1> DEFINE c == [NoCheck EXCEPT !.shell_ok = sh, !.giveup = gu]
  <1>1. /\ DOMAIN c = ChkFields /\ c.i = 0 /\ c.slot = <<>> /\ c.kid = <<>> /\ c.reaped = {}
        /\ c.failed = {} /\ c.late = {} /\ c.bad = 0 /\ c.unchecked = 0
    BY DEF NoCheck, ChkFields
  <1> HIDE DEF c
  <1>2. Fine(c) = {} /\ Due(S, c) = {} /\ c.failed \ c.late = {}
    BY <1>1, GoneAre DEF Fine, Due
  <1>3. DOMAIN c.kid = {} /\ Len(c.slot) = 0 /\ IsSeq(c.slot)
    BY <1>1 DEF IsSeq
  <1>4. SlotsOK(c)
    BY <1>3 DEF SlotsOK
  <1>5. KidsOK(c, S, d)
    BY <1>1, <1>3 DEF KidsOK
  <1>6. Tally(c, S)
    BY <1>1, <1>2, <1>3, FS_EmptySet, GoneAre DEF Tally
  <1>7. CheckOK(c, S, d)
    BY <1>1, <1>4, <1>5, <1>6 DEF CheckOK
  <1> QED  BY <1>7 DEF c

\* read_sources() gives what it found, with a name each.
LEMMA ReadChecked ==
  ASSUME JobShape, NEW p \in Procs, JobChecked(job[p]), NEW d, Names(d), read_sources(p, d)
  PROVE  JobChecked(job'[p])
  <1> DEFINE s == [i \in Services(d) |-> parse_src(d[i].file)]
             x == [[job[p].b EXCEPT !.srcs = s] EXCEPT !.mode = OutMode(d)]
             j == [[job[p] EXCEPT !.read = d] EXCEPT !.b = x]
  <1>1. job[p].phase = "read" /\ job[p].b.srcs = <<>>
    BY DEF read_sources, At, JobChecked, Unread
  <1>2. Go(p, job[p], "dead") \/ Go(p, j, IF job[p].nocheck THEN "link" ELSE "check")
    BY DEF read_sources, Die_
  <1>3. DOMAIN x = BuildFields /\ x.srcs = s /\ Names(s)
    <2>1. DOMAIN s = Services(d) /\ Services(d) \subseteq DOMAIN d
      BY DEF Services
    <2>2. Names(s)
      BY <2>1, FS_Subset DEF Names
    <2> HIDE DEF s
    <2> QED  BY <2>2 DEF JobChecked, BuildFields
  <1> HIDE DEF s, x
  <1>4. CASE Go(p, job[p], "dead")
    <2>1. Stays(p) /\ job'[p].phase = "dead"
      BY <1>4, GoStays
    <2> QED  BY <2>1, StaysChecked DEF Unread, Open
  <1>5. CASE Go(p, j, IF job[p].nocheck THEN "link" ELSE "check")
    <2>1. /\ job'[p].b = x /\ job'[p].nocheck = job[p].nocheck
          /\ job'[p].phase = IF job[p].nocheck THEN "link" ELSE "check"
      BY <1>5 DEF Go, JobShape, JobFields
    <2>2. job'[p].phase \in {"link", "check"} /\ (job'[p].phase = "link" => job'[p].nocheck)
      BY <2>1
    <2> QED  BY <1>3, <2>1, <2>2 DEF JobChecked, Unread, Open
  <1> QED  BY <1>2, <1>4, <1>5
\* Where the loop of check_syntax() is, in terms of the tally.
LEMMA CheckIs ==
  ASSUME NEW p \in Procs, JobChecked(job[p]), At(p, "checking")
  PROVE  /\ job[p].phase = "checking" /\ Names(Srcs(p)) /\ CheckOK(Chk(p), Srcs(p), job[p].read)
         /\ DOMAIN Chk(p) = ChkFields /\ ToCheck(p) = Wanted(Srcs(p), Chk(p))
         /\ Srcs(p) = job[p].b.srcs /\ Chk(p) = job[p].b.chk
  BY DEF JobChecked, At, Srcs, Chk, CheckOK, ToCheck, Wanted

LEMMA NextChecked ==
  ASSUME JobShape, NEW p \in Procs, JobChecked(job[p]), NEW how, check_next(p, how)
  PROVE  JobChecked(job'[p])
  <1> DEFINE c == Chk(p)
             S == Srcs(p)
             d == job[p].read
             i == Nth(DOMAIN S, c.i + 1)
             n == [c EXCEPT !.i = @ + 1]
  <1>0. At(p, "checking") /\ ~Started(p)
    BY DEF check_next
  <1>1. /\ job[p].phase = "checking" /\ Names(S) /\ CheckOK(c, S, d)
        /\ DOMAIN c = ChkFields /\ ToCheck(p) = Wanted(S, c) /\ S = job[p].b.srcs
        /\ c.i # Cardinality(DOMAIN S)
    BY <1>0, CheckIs DEF Started
  <1>2. /\ DOMAIN n = ChkFields /\ SameKids(c, n) /\ n.slot = c.slot /\ n.shell_ok = c.shell_ok
        /\ n.i = c.i + 1 /\ n.unchecked = c.unchecked
    BY <1>1 DEF ChkFields, SameKids
  <1>3. c.unchecked \in Nat
    BY <1>1 DEF CheckOK, Tally
  <1>4. \/ i \notin ToCheck(p) /\ SetChk(p, n)
        \/ i \in ToCheck(p) /\ SetChk(p, [n EXCEPT !.unchecked = @ + 1])
        \/ i \in ToCheck(p) /\ SetChk(p, [n EXCEPT !.giveup = TRUE, !.unchecked = @ + 1])
        \/ /\ i \in ToCheck(p)
           /\ SetChk(p, [n EXCEPT !.slot = Append(@, [pid |-> i, who |-> i, due |-> "ahead"]),
                                  !.kid = [k \in DOMAIN @ \union {i} |-> IF k = i THEN "run" ELSE @[k]]])
        \/ Go(p, job[p], "dead")
    BY Zenon DEF check_next, Die_
  <1> HIDE DEF c, S, d, i, n
  <1>5. CASE i \notin ToCheck(p) /\ SetChk(p, n)
    <2>1. n.unchecked = c.unchecked + (IF i \in Wanted(S, c) THEN 1 ELSE 0)
      BY <1>1, <1>2, <1>3, <1>5
    <2>2. CheckOK(n, S, d)
      BY <1>1, <1>2, <2>1, TurnPasses DEF i
    <2> QED  BY <1>1, <1>5, <2>2, CheckSets DEF d
  <1>6. CASE i \in ToCheck(p) /\ SetChk(p, [n EXCEPT !.unchecked = @ + 1])
    <2> DEFINE e == [n EXCEPT !.unchecked = @ + 1]
    <2>1. /\ DOMAIN e = ChkFields /\ SameKids(c, e) /\ e.slot = c.slot /\ e.shell_ok = c.shell_ok
          /\ e.i = c.i + 1 /\ e.unchecked = c.unchecked + 1
      BY <1>2 DEF ChkFields, SameKids
    <2> HIDE DEF e
    <2>2. CheckOK(e, S, d)
      BY <1>1, <1>6, <2>1, TurnPasses DEF i
    <2>3. SetChk(p, e)
      BY <1>6 DEF e
    <2> QED  BY <1>1, <2>2, <2>3, CheckSets DEF d
  <1>7. CASE i \in ToCheck(p) /\ SetChk(p, [n EXCEPT !.giveup = TRUE, !.unchecked = @ + 1])
    <2> DEFINE e == [n EXCEPT !.giveup = TRUE, !.unchecked = @ + 1]
    <2>1. /\ DOMAIN e = ChkFields /\ SameKids(c, e) /\ e.slot = c.slot /\ e.shell_ok = c.shell_ok
          /\ e.i = c.i + 1 /\ e.unchecked = c.unchecked + 1
      BY <1>2 DEF ChkFields, SameKids
    <2> HIDE DEF e
    <2>2. CheckOK(e, S, d)
      BY <1>1, <1>7, <2>1, TurnPasses DEF i
    <2>3. SetChk(p, e)
      BY <1>7 DEF e
    <2> QED  BY <1>1, <2>2, <2>3, CheckSets DEF d
  <1>8. CASE /\ i \in ToCheck(p)
             /\ SetChk(p, [n EXCEPT !.slot = Append(@, [pid |-> i, who |-> i, due |-> "ahead"]),
                                    !.kid = [k \in DOMAIN @ \union {i} |-> IF k = i THEN "run" ELSE @[k]]])
    <2> DEFINE s == [pid |-> i, who |-> i, due |-> "ahead"]
               K == [k \in DOMAIN c.kid \union {i} |-> IF k = i THEN "run" ELSE c.kid[k]]
               e == [[n EXCEPT !.slot = Append(c.slot, s)] EXCEPT !.kid = K]
    <2>1. SetChk(p, e)
      <3>1. n.slot = c.slot /\ n.kid = c.kid
        BY <1>2 DEF SameKids
      <3> QED  BY <1>8, <3>1
    <2>2. DOMAIN s = {"pid", "who", "due"} /\ s.pid = i /\ s.who = i
      OBVIOUS
    <2>3. /\ DOMAIN K = DOMAIN c.kid \union {i} /\ K[i] = "run"
          /\ \A k \in DOMAIN c.kid : k # i => K[k] = c.kid[k]
      OBVIOUS
    <2> HIDE DEF s, K
    <2>4. /\ DOMAIN e = ChkFields /\ e.shell_ok = c.shell_ok /\ e.i = c.i + 1
          /\ e.reaped = c.reaped /\ e.failed = c.failed /\ e.late = c.late /\ e.bad = c.bad
          /\ e.unchecked = c.unchecked /\ e.slot = Append(c.slot, s) /\ e.kid = K
      BY <1>2 DEF ChkFields, SameKids
    <2> HIDE DEF e
    <2>5. i = Nth(DOMAIN S, c.i + 1) /\ i \in Wanted(S, c)
      BY <1>1, <1>8 DEF i
    <2>6. CheckOK(e, S, d)
      BY <1>1, <2>2, <2>3, <2>4, <2>5, TurnRuns
    <2> QED  BY <1>1, <2>1, <2>6, CheckSets DEF d
  <1>9. CASE Go(p, job[p], "dead")
    <2>1. Stays(p) /\ job'[p].phase = "dead"
      BY <1>9, GoStays
    <2> QED  BY <2>1, StaysChecked DEF Unread, Open
  <1> QED  BY <1>4, <1>5, <1>6, <1>7, <1>8, <1>9

\* The slots with other times.
LEMMA TimesAre ==
  ASSUME NEW s, IsSeq(s), NEW t, t = [k \in DOMAIN s |-> t[k]]
  PROVE  IsSeq(t) /\ Len(t) = Len(s)
  <1>1. s \in Seq({s[k] : k \in DOMAIN s}) /\ Len(s) \in Nat /\ DOMAIN s = 1..Len(s)
    BY DEF IsSeq
  <1>2. DOMAIN t = 1..Len(s)
    BY <1>1
  <1> DEFINE T == {t[k] : k \in 1..Len(s)}
  <1>3. \A k \in 1..Len(s) : t[k] \in T
    OBVIOUS
  <1> HIDE DEF T
  <1>4. t \in Seq(T) /\ Len(t) = Len(s)
    BY <1>1, <1>3
  <1> QED  BY <1>4, SeqIs

LEMMA WaitsChecked ==
  ASSUME JobShape, NEW p \in Procs, JobChecked(job[p]),
         reap_poll(p) \/ reap_expire(p) \/ \E s \in 1..nslot : time_passes(p, s)
  PROVE  JobChecked(job'[p])
  <1> DEFINE c == Chk(p)
             S == Srcs(p)
             d == job[p].read
  <1>0. At(p, "checking")
    BY DEF reap_poll, reap_expire, time_passes, Collecting
  <1>1. /\ job[p].phase = "checking" /\ CheckOK(c, S, d) /\ DOMAIN c = ChkFields /\ S = job[p].b.srcs
    BY <1>0, CheckIs
  <1>2. /\ IsSeq(c.slot) /\ DOMAIN c.slot = 1..Len(c.slot)
        /\ \A k \in 1..Len(c.slot) : DOMAIN c.slot[k] = {"pid", "who", "due"}
    BY <1>1 DEF CheckOK, SlotsOK, IsSeq
  <1> DEFINE Timed(e) ==
        /\ DOMAIN e = ChkFields /\ SameKids(c, e) /\ e.shell_ok = c.shell_ok /\ e.i = c.i
        /\ e.unchecked = c.unchecked /\ e.slot = [k \in DOMAIN c.slot |-> e.slot[k]]
        /\ \A k \in 1..Len(c.slot) :
             /\ DOMAIN e.slot[k] = {"pid", "who", "due"}
             /\ e.slot[k].pid = c.slot[k].pid /\ e.slot[k].who = c.slot[k].who
  <1>3. ASSUME NEW e, SetChk(p, e), Timed(e) PROVE JobChecked(job'[p])
    <2> HIDE DEF c, S, d
    <2>1. IsSeq(e.slot) /\ Len(e.slot) = Len(c.slot)
      BY <1>2, <1>3, TimesAre
    <2>2. CheckOK(e, S, d)
      BY <1>1, <1>3, <2>1, TimesGo
    <2> QED  BY <1>1, <1>3, <2>2, CheckSets DEF d
  <1>4. CASE reap_poll(p)
    <2> DEFINE e == [c EXCEPT !.polled = TRUE]
    <2>1. SetChk(p, e)
      BY <1>4 DEF reap_poll
    <2> HIDE DEF c
    <2>2. c.slot = [k \in DOMAIN c.slot |-> c.slot[k]]
      BY <1>2 DEF IsSeq
    <2>3. e.slot = c.slot /\ DOMAIN e = ChkFields /\ SameKids(c, e) /\ e.shell_ok = c.shell_ok
          /\ e.i = c.i /\ e.unchecked = c.unchecked
      BY <1>1 DEF ChkFields, SameKids
    <2> HIDE DEF e
    <2>4. Timed(e)
      BY <1>2, <2>2, <2>3
    <2> QED  BY <1>3, <2>1, <2>4
  <1>5. CASE reap_expire(p)
    <2> DEFINE t == [k \in DOMAIN c.slot |-> IF c.slot[k].due = "past"
                                             THEN [c.slot[k] EXCEPT !.due = "killed"] ELSE c.slot[k]]
               e == [c EXCEPT !.polled = FALSE, !.slot = t]
    <2>1. SetChk(p, e)
      BY <1>5, Zenon DEF reap_expire
    <2> HIDE DEF c
    <2>2. /\ t = [k \in DOMAIN c.slot |-> t[k]]
          /\ \A k \in 1..Len(c.slot) :
             /\ DOMAIN t[k] = {"pid", "who", "due"}
             /\ t[k].pid = c.slot[k].pid /\ t[k].who = c.slot[k].who
      BY <1>2
    <2> HIDE DEF t
    <2>3. e.slot = t /\ DOMAIN e = ChkFields /\ SameKids(c, e) /\ e.shell_ok = c.shell_ok
          /\ e.i = c.i /\ e.unchecked = c.unchecked
      BY <1>1 DEF ChkFields, SameKids
    <2> HIDE DEF e
    <2>4. Timed(e)
      BY <2>2, <2>3
    <2> QED  BY <1>3, <2>1, <2>4
  <1>6. ASSUME NEW s \in 1..nslot, time_passes(p, s) PROVE JobChecked(job'[p])
    <2> DEFINE t == [c.slot EXCEPT ![s] = [c.slot[s] EXCEPT !.due = "past"]]
               e == [c EXCEPT !.slot = t]
    <2>1. SetChk(p, e) /\ s \in 1..Len(c.slot)
      BY <1>6, Zenon DEF time_passes
    <2> HIDE DEF c
    <2>2. /\ t = [k \in DOMAIN c.slot |-> t[k]]
          /\ \A k \in 1..Len(c.slot) :
             /\ DOMAIN t[k] = {"pid", "who", "due"}
             /\ t[k].pid = c.slot[k].pid /\ t[k].who = c.slot[k].who
      BY <1>2, <2>1
    <2> HIDE DEF t
    <2>3. e.slot = t /\ DOMAIN e = ChkFields /\ SameKids(c, e) /\ e.shell_ok = c.shell_ok
          /\ e.i = c.i /\ e.unchecked = c.unchecked
      BY <1>1 DEF ChkFields, SameKids
    <2> HIDE DEF e
    <2>4. Timed(e)
      BY <2>2, <2>3
    <2> QED  BY <1>3, <2>1, <2>4
  <1> QED  BY <1>4, <1>5, <1>6
LEMMA CollectChecked ==
  ASSUME JobShape, NEW p \in Procs, JobChecked(job[p]), collect_one(p) \/ collect_error(p)
  PROVE  JobChecked(job'[p])
  <1> DEFINE c == Chk(p)
             S == Srcs(p)
             d == job[p].read
  <1>0. At(p, "checking")
    BY DEF collect_one, collect_error, Collecting
  <1>1. /\ job[p].phase = "checking" /\ CheckOK(c, S, d) /\ DOMAIN c = ChkFields
        /\ S = job[p].b.srcs /\ Names(S)
    BY <1>0, CheckIs
  <1>2. CASE collect_one(p)
    <2> DEFINE Late_(k) == c.slot[k].due = "killed"
               Fail_(k) == Late_(k) \/ c.kid[c.slot[k].pid] = "fail"
               E(k) == [c EXCEPT !.reaped = @ \union {c.slot[k].pid}, !.slot = without(@, k),
                                 !.failed = IF Fail_(k) THEN @ \union {c.slot[k].who} ELSE @,
                                 !.late = IF Late_(k) THEN @ \union {c.slot[k].who} ELSE @,
                                 !.unchecked = IF Late_(k) THEN @ + 1 ELSE @,
                                 !.bad = IF Fail_(k) /\ ~Late_(k) THEN @ + 1 ELSE @]
    <2>1. \E k \in 1..Len(c.slot) : c.slot[k].pid \in Ended(c) /\ SetChk(p, E(k))
      BY <1>2, Zenon DEF collect_one
    <2>2. PICK k \in 1..Len(c.slot) : c.slot[k].pid \in Ended(c) /\ SetChk(p, E(k))
      BY <2>1
    <2>3. c.kid[c.slot[k].pid] # "run"
      BY <2>2 DEF Ended
    <2> DEFINE x == c.slot[k].pid
               late == Late_(k)
               fail == Fail_(k)
               e == E(k)
    <2>4. late \in BOOLEAN /\ fail \in BOOLEAN /\ (fail <=> late \/ c.kid[x] = "fail")
      OBVIOUS
    <2> HIDE DEF c
    <2>5. /\ DOMAIN e = ChkFields /\ e.shell_ok = c.shell_ok /\ e.i = c.i /\ e.kid = c.kid
          /\ e.slot = without(c.slot, k) /\ e.reaped = c.reaped \union {x}
          /\ e.failed = IF fail THEN c.failed \union {c.slot[k].who} ELSE c.failed
          /\ e.late = IF late THEN c.late \union {c.slot[k].who} ELSE c.late
          /\ e.unchecked = IF late THEN c.unchecked + 1 ELSE c.unchecked
          /\ e.bad = IF fail /\ ~late THEN c.bad + 1 ELSE c.bad
      <3> DEFINE xr == c.reaped \union {x}
                 xs == without(c.slot, k)
                 xf == IF fail THEN c.failed \union {c.slot[k].who} ELSE c.failed
                 xl == IF late THEN c.late \union {c.slot[k].who} ELSE c.late
                 xu == IF late THEN c.unchecked + 1 ELSE c.unchecked
                 xb == IF fail /\ ~late THEN c.bad + 1 ELSE c.bad
      <3>1. e = [c EXCEPT !.reaped = xr, !.slot = xs, !.failed = xf, !.late = xl, !.unchecked = xu,
                          !.bad = xb]
        OBVIOUS
      <3> HIDE DEF e, xr, xs, xf, xl, xu, xb
      <3>2. /\ DOMAIN e = ChkFields /\ e.shell_ok = c.shell_ok /\ e.i = c.i /\ e.kid = c.kid
            /\ e.slot = xs /\ e.reaped = xr /\ e.failed = xf /\ e.late = xl /\ e.unchecked = xu
            /\ e.bad = xb
        BY <1>1, <3>1 DEF ChkFields
      <3> QED  BY <3>2 DEF xr, xs, xf, xl, xu, xb
    <2>6. SetChk(p, e)
      BY <2>2
    <2> HIDE DEF e, late, fail, S, d, x, E
    <2>7. c.slot[k].pid = x /\ c.kid[x] # "run"
      BY <2>3 DEF x
    <2>8. CheckOK(e, S, d)
      BY <1>1, <2>2, <2>4, <2>5, <2>7, Collected
    <2> QED  BY <1>1, <2>6, <2>8, CheckSets DEF d
  <1>3. CASE collect_error(p)
    <2> DEFINE e == [c EXCEPT !.unchecked = @ + Len(c.slot), !.slot = <<>>, !.giveup = TRUE]
    <2>1. SetChk(p, e)
      BY <1>3 DEF collect_error
    <2> HIDE DEF c
    <2>2. /\ DOMAIN e = ChkFields /\ SameKids(c, e) /\ e.shell_ok = c.shell_ok /\ e.i = c.i
          /\ e.unchecked = c.unchecked + Len(c.slot) /\ e.slot = <<>>
      BY <1>1 DEF ChkFields, SameKids
    <2> HIDE DEF e, S, d
    <2>3. CheckOK(e, S, d)
      BY <1>1, <2>2, GivenUp
    <2> QED  BY <1>1, <2>1, <2>3, CheckSets DEF d
  <1> QED  BY <1>2, <1>3

LEMMA KidChecked ==
  ASSUME JobShape, NEW p \in Procs, JobChecked(job[p]),
         NEW x, NEW st \in {"ok", "fail"}, kid_ends(p, x, st)
  PROVE  JobChecked(job'[p])
  <1> DEFINE c == Chk(p)
             S == Srcs(p)
             d == job[p].read
             K == [c.kid EXCEPT ![x] = st]
             e == [c EXCEPT !.kid = K]
  <1>0. /\ At(p, "checking") /\ x \in DOMAIN c.kid /\ c.kid[x] = "run"
        /\ st = "ok" => d[x].file.syntax = "ok"
    BY DEF kid_ends, Syntax
  <1>1. /\ job[p].phase = "checking" /\ CheckOK(c, S, d) /\ DOMAIN c = ChkFields /\ S = job[p].b.srcs
    BY <1>0, CheckIs
  <1>2. SetChk(p, e)
    BY Zenon DEF kid_ends
  <1> HIDE DEF c, S, d
  <1>3. DOMAIN K = DOMAIN c.kid /\ K[x] = st /\ \A k \in DOMAIN c.kid : k # x => K[k] = c.kid[k]
    BY <1>0
  <1> HIDE DEF K
  <1>4. /\ DOMAIN e = ChkFields /\ e.shell_ok = c.shell_ok /\ e.i = c.i /\ e.slot = c.slot
        /\ e.reaped = c.reaped /\ e.failed = c.failed /\ e.late = c.late /\ e.bad = c.bad
        /\ e.unchecked = c.unchecked /\ e.kid = K
    BY <1>1 DEF ChkFields
  <1> HIDE DEF e
  <1>5. CheckOK(e, S, d)
    BY <1>0, <1>1, <1>3, <1>4, KidEnds
  <1> QED  BY <1>1, <1>2, <1>5, CheckSets DEF d

\* report() lets nothing pass but what has passed.
LEMMA ReportChecked ==
  ASSUME JobShape, NEW p \in Procs, JobChecked(job[p]), report(p)
  PROVE  JobChecked(job'[p])
  <1> DEFINE c == Chk(p)
             S == Srcs(p)
  <1>0. At(p, "checking") /\ Started(p) /\ c.slot = <<>>
    BY DEF report
  <1>1. /\ Names(S) /\ CheckOK(c, S, job[p].read) /\ c.i = Cardinality(DOMAIN S)
        /\ S = job[p].b.srcs /\ c = job[p].b.chk
    BY <1>0, CheckIs DEF Started
  <1>2. /\ Told(c, S)
        /\ ~(c.bad > 0 \/ c.unchecked > 0) => \A k \in Wanted(S, c) : job[p].read[k].file.syntax = "ok"
    <2> HIDE DEF c, S
    <2> QED  BY <1>0, <1>1, AllTold
  <1>3. Stays(p) /\ job'[p].phase = IF c.bad > 0 \/ c.unchecked > 0 THEN "dead" ELSE "link"
    BY GoStays DEF report
  <1>4. CASE c.bad > 0 \/ c.unchecked > 0
    <2>1. job'[p].phase = "dead"
      BY <1>3, <1>4
    <2> QED  BY <1>3, <2>1, StaysChecked DEF Unread, Open
  <1>5. CASE ~(c.bad > 0 \/ c.unchecked > 0)
    <2>1. job'[p].phase = "link"
      BY <1>3, <1>5
    <2>2. Passed(job[p])
      BY <1>1, <1>2, <1>5 DEF Passed
    <2>3. Passed(job'[p])
      BY <1>3, <2>2 DEF Passed, Stays
    <2> QED  BY <1>3, <2>1, <2>3 DEF JobChecked, Stays, Unread, Open
  <1> QED  BY <1>4, <1>5

\* The rest of the compiler leaves what was read and checked as it is.
LEMMA BuildChecked ==
  ASSUME JobShape, NEW p \in Procs, JobChecked(job[p]),
         check_begin(p) \/ link_graph(p) \/ order_graph(p) \/ make_image(p)
  PROVE  JobChecked(job'[p])
  <1> DEFINE Kept(x) == /\ DOMAIN x = BuildFields /\ x.srcs = job[p].b.srcs /\ x.chk = job[p].b.chk
             Later == {"order", "image", "refused", "internal error", "done", "lock_out"}
  <1>0. DOMAIN job[p].b = BuildFields
    BY DEF JobChecked
  <1>1. ASSUME NEW x, Kept(x), NEW ph \in Later, Go(p, [job[p] EXCEPT !.b = x], ph),
               job[p].phase \in {"link", "order", "image"}
        PROVE  JobChecked(job'[p])
    <2>1. /\ job'[p].b = x /\ job'[p].phase = ph
          /\ job'[p].nocheck = job[p].nocheck /\ job'[p].read = job[p].read
      BY <1>1, GoBuilds
    <2>2. job[p].phase \notin Open /\ job'[p].phase \notin Open \union Unread
      BY <1>1, <2>1 DEF Open, Unread
    <2>3. Passed(job[p]) => Passed(job'[p])
      BY <1>1, <2>1 DEF Passed
    <2> QED  BY <1>1, <2>1, <2>2, <2>3 DEF JobChecked, Open, Unread
  <1>2. ASSUME NEW ph \in Later, Go(p, job[p], ph), job[p].phase \in {"link", "order", "image"}
        PROVE  JobChecked(job'[p])
    <2>1. Stays(p) /\ job'[p].phase = ph
      BY <1>2, GoStays
    <2> QED  BY <1>2, <2>1, StaysChecked DEF Open, Unread
  <1>3. CASE check_begin(p)
    <2>1. PICK sh \in BOOLEAN, giveup \in BOOLEAN :
            Go(p, [job[p] EXCEPT !.b.chk = [NoCheck EXCEPT !.shell_ok = sh, !.giveup = giveup]], "checking")
      BY <1>3 DEF check_begin
    <2> DEFINE c == [NoCheck EXCEPT !.shell_ok = sh, !.giveup = giveup]
               x == [job[p].b EXCEPT !.chk = c]
    <2>2. Go(p, [job[p] EXCEPT !.b = x], "checking")
      BY <2>1
    <2>3. CheckOK(c, job[p].b.srcs, job[p].read)
      BY CheckStarts DEF JobChecked
    <2> HIDE DEF c
    <2>4. DOMAIN x = BuildFields /\ x.srcs = job[p].b.srcs /\ x.chk = c
      BY <1>0 DEF BuildFields
    <2> HIDE DEF x
    <2>5. /\ job'[p].b = x /\ job'[p].phase = "checking"
          /\ job'[p].nocheck = job[p].nocheck /\ job'[p].read = job[p].read
      BY <2>2, GoBuilds
    <2> QED  BY <2>3, <2>4, <2>5 DEF JobChecked, Open, Unread
  <1>4. CASE link_graph(p)
    <2> DEFINE h == visit_all(Srcs(p)).height
               x == [job[p].b EXCEPT !.height = h]
    <2>1. job[p].phase = "link" /\ (Go(p, job[p], "refused") \/ Go(p, [job[p] EXCEPT !.b = x], "order"))
      BY <1>4 DEF link_graph, At
    <2> HIDE DEF h
    <2>2. Kept(x)
      BY <1>0 DEF BuildFields
    <2> HIDE DEF x, Kept
    <2> QED  BY <1>1, <1>2, <2>1, <2>2
  <1>5. CASE order_graph(p)
    <2> DEFINE o == schedule(Srcs(p), job[p].b.height)
               x == [job[p].b EXCEPT !.order = o]
    <2>1. job[p].phase = "order" /\ Go(p, [job[p] EXCEPT !.b = x], "image")
      BY <1>5 DEF order_graph, At
    <2> HIDE DEF o
    <2>2. Kept(x)
      BY <1>0 DEF BuildFields
    <2> HIDE DEF x, Kept
    <2> QED  BY <1>1, <2>1, <2>2
  <1>6. CASE make_image(p)
    <2> DEFINE i == write_image(Srcs(p), job[p].b.order)
               x == [job[p].b EXCEPT !.image = i]
    <2>1. /\ job[p].phase = "image"
          /\ \/ Go(p, job[p], "refused") \/ Go(p, job[p], "internal error")
             \/ Go(p, [job[p] EXCEPT !.b = x], "done") \/ Go(p, [job[p] EXCEPT !.b = x], "lock_out")
      BY <1>6 DEF make_image, At
    <2> HIDE DEF i
    <2>2. Kept(x)
      BY <1>0 DEF BuildFields
    <2> HIDE DEF x, Kept
    <2> QED  BY <1>1, <1>2, <2>1, <2>2
  <1> QED  BY <1>3, <1>4, <1>5, <1>6
-----------------------------------------------------------------------------
(* The directories are finite *)

LEMMA MovedNames ==
  ASSUME NEW d, Names(d), NEW i \in Nat, NEW e
  PROVE  Names(With(d, i, e)) /\ Names(Without(d, i))
  <1>1. DOMAIN With(d, i, e) = DOMAIN d \union {i}
    BY DEF With
  <1>2. IsFiniteSet(DOMAIN d \union {i}) /\ DOMAIN d \union {i} \subseteq Nat
    BY FS_AddElement DEF Names
  <1>3. Names(With(d, i, e))
    BY <1>1, <1>2, Zenon DEF Names
  <1>4. DOMAIN Without(d, i) = DOMAIN d \ {i}
    BY DEF Without
  <1>5. IsFiniteSet(DOMAIN d \ {i}) /\ DOMAIN d \ {i} \subseteq Nat
    BY FS_RemoveElement DEF Names
  <1>6. Names(Without(d, i))
    BY <1>4, <1>5, Zenon DEF Names
  <1> QED  BY <1>3, <1>6

NamesStep ==
  /\ away' = away
  /\ \/ jr' = jr \/ jr' = <<Live>>
     \/ \E ns : jr' = Append(jr, ns) /\ NamesIn(ns)

LEMMA NamesDo ==
  ASSUME Types, ChkInv, NEW p \in Procs, Step(p) \/ check_runs(p) \/ kill(p)
  PROVE  NamesStep
  <1>0. DOMAIN Live = NsFields /\ NamesIn(Live)
    BY LiveIs DEF Types, NsFields, Live, ChkInv
  <1>1. \A v : LET ns == [Live EXCEPT !.path = v] IN ns.svc = Live.svc /\ ns.unused = Live.unused
    BY <1>0 DEF NsFields
  <1>2. \A v : LET ns == [Live EXCEPT !.old = v] IN ns.svc = Live.svc /\ ns.unused = Live.unused
    BY <1>0 DEF NsFields
  <1>3. ASSUME NEW s, NEW u, Names(s), Names(u), NEW ns, ns = [Live EXCEPT !.svc = s, !.unused = u]
        PROVE  NamesIn(ns)
    BY <1>0, <1>3 DEF NsFields, NamesIn
  <1>4. CASE \/ begin(p) \/ read(p) \/ compile(p) \/ leave(p) \/ lock_out(p) \/ link_keep(p)
             \/ write_fails(p) \/ move_refused(p) \/ relink_fails(p) \/ check_runs(p) \/ kill(p)
             \/ make_tmp(p) \/ write_all(p) \/ fsync_tmp(p) \/ fsync_dir(p)
    BY <1>4 DEF begin, read, compile, leave, lock_out, link_keep, write_fails, move_refused,
                relink_fails, check_runs, kill, make_tmp, write_all, fsync_tmp, fsync_dir,
                fsVars, NamesStep
  <1>5. CASE rename_keep(p)
    <2> DEFINE ns == [Live EXCEPT !.old = job[p].kept]
    <2>1. jr' = Append(jr, ns) /\ away' = away
      BY <1>5 DEF rename_keep, Changed
    <2>2. NamesIn(ns)
      BY <1>0, <1>2 DEF NamesIn
    <2> QED  BY <2>1, <2>2 DEF NamesStep
  <1>6. CASE rename_tmp(p)
    <2> DEFINE ns == [Live EXCEPT !.path = p]
    <2>1. jr' = Append(jr, ns) /\ away' = away
      BY <1>6 DEF rename_tmp, Changed
    <2>2. NamesIn(ns)
      BY <1>0, <1>1 DEF NamesIn
    <2> QED  BY <2>1, <2>2 DEF NamesStep
  <1>7. CASE move(p)
    <2> DEFINE i == job[p].svc
    <2>1. away' = away /\ i \in DOMAIN From(p) /\ \E e : jr' = Append(jr, Moved(p, i, e))
      BY <1>7 DEF move, Changed
    <2>2. PICK e : jr' = Append(jr, Moved(p, i, e))
      BY <2>1
    <2>3. i \in Nat
      BY <1>0, <2>1 DEF From, NamesIn, Names
    <2> HIDE DEF i
    <2>4. /\ Names(With(Live.svc, i, e)) /\ Names(Without(Live.unused, i))
          /\ Names(With(Live.unused, i, e)) /\ Names(Without(Live.svc, i))
      BY <1>0, <2>3, MovedNames DEF NamesIn
    <2>5. NamesIn(Moved(p, i, e))
      <3>1. CASE job[p].cmd = "add"
        <4> DEFINE s == With(Live.svc, i, e)
                   u == Without(Live.unused, i)
        <4>1. Moved(p, i, e) = [[Live EXCEPT !.svc = s] EXCEPT !.unused = u]
          BY <1>0, <3>1 DEF Moved, NsFields
        <4> HIDE DEF s, u
        <4>2. Moved(p, i, e).svc = s /\ Moved(p, i, e).unused = u
          BY <1>0, <4>1 DEF NsFields
        <4> QED  BY <2>4, <4>2 DEF s, u, NamesIn
      <3>2. CASE job[p].cmd # "add"
        <4> DEFINE u == With(Live.unused, i, e)
                   s == Without(Live.svc, i)
        <4>1. Moved(p, i, e) = [[Live EXCEPT !.unused = u] EXCEPT !.svc = s]
          BY <1>0, <3>2 DEF Moved, NsFields
        <4> HIDE DEF s, u
        <4>2. Moved(p, i, e).svc = s /\ Moved(p, i, e).unused = u
          BY <1>0, <4>1 DEF NsFields
        <4> QED  BY <2>4, <4>2 DEF s, u, NamesIn
      <3> QED  BY <3>1, <3>2
    <2> QED  BY <2>1, <2>2, <2>5 DEF NamesStep
  <1>8. CASE relink(p)
    <2> DEFINE i == job[p].svc
               s == [Live.svc EXCEPT ![i] = [Live.svc[i] EXCEPT !.kind = "service"]]
               u == [Live.unused EXCEPT ![i] = [Live.unused[i] EXCEPT !.kind = "service"]]
    <2>1. away' = away /\ \/ jr' = Append(jr, [Live EXCEPT !.svc = s])
                          \/ jr' = Append(jr, [Live EXCEPT !.unused = u])
      BY <1>8 DEF relink, Changed
    <2>2. DOMAIN s = DOMAIN Live.svc /\ DOMAIN u = DOMAIN Live.unused
      OBVIOUS
    <2>3. Names(s) /\ Names(u)
      BY <1>0, <2>2, Zenon DEF NamesIn, Names
    <2> HIDE DEF s, u
    <2>4. NamesIn([Live EXCEPT !.svc = s]) /\ NamesIn([Live EXCEPT !.unused = u])
      BY <1>0, <2>3 DEF NamesIn, NsFields
    <2> QED  BY <2>1, <2>4 DEF NamesStep
  <1> QED  BY <1>4, <1>5, <1>6, <1>7, <1>8 DEF Step

LEMMA NamesStay ==
  ASSUME Types, ChkInv, NamesStep
  PROVE  Names(away') /\ \A k \in 1..Len(jr') : NamesIn(jr'[k])
  <1>1. Names(away') /\ NamesIn(Live)
    BY LiveIs DEF Types, NamesStep, ChkInv, Live
  <1>2. CASE jr' = jr
    BY <1>1, <1>2 DEF ChkInv
  <1>3. CASE jr' = <<Live>>
    BY <1>1, <1>3, OneIs
  <1>4. ASSUME NEW ns, jr' = Append(jr, ns), NamesIn(ns) PROVE \A k \in 1..Len(jr') : NamesIn(jr'[k])
    <2>1. /\ Len(jr) \in Nat /\ Len(jr') = Len(jr) + 1 /\ jr'[Len(jr) + 1] = ns
          /\ \A k \in 1..Len(jr) : jr'[k] = jr[k]
      BY <1>4, AppendIs DEF Types, DirOK
    <2>2. \A k \in 1..Len(jr') : k \in 1..Len(jr) \/ k = Len(jr) + 1
      BY <2>1
    <2> QED  BY <1>4, <2>1, <2>2 DEF ChkInv
  <1> QED  BY <1>1, <1>2, <1>3, <1>4 DEF NamesStep

-----------------------------------------------------------------------------
(* Steps of processes, and the checks *)

LEMMA CheckSteps ==
  ASSUME Types, ChkInv, NEW p \in Procs, Step(p) \/ check_runs(p) \/ kill(p)
  PROVE  JobChecked(job'[p])
  <1>0. JobShape /\ JobChecked(job[p]) /\ Names(Live.svc) /\ Names(away)
    BY LiveIs DEF Types, ChkInv, Live, NamesIn
  <1>1. ASSUME NEW ph, Go(p, job[p], ph), ph \in Unread => job[p].phase \in Unread, ph # "checking",
               ph \notin Open => job[p].phase \notin Open
        PROVE  JobChecked(job'[p])
    <2>1. Stays(p) /\ job'[p].phase = ph
      BY <1>0, <1>1, GoStays
    <2> QED  BY <1>0, <1>1, <2>1, StaysChecked
  <1>2. CASE begin(p)
    <2>1. job[p].phase = "asked" /\ \E ph \in {"move", "read"} : Go(p, job[p], ph)
      BY <1>2 DEF begin, At
    <2> QED  BY <1>1, <2>1 DEF Unread, Open
  <1>3. CASE read(p)
    <2>1. CASE NonGraph(Live)
      <3>1. Go(p, job[p], "dead")
        BY <1>3, <2>1 DEF read, Die_
      <3> QED  BY <1>1, <3>1 DEF Unread, Open
    <2>2. CASE ~NonGraph(Live)
      <3> DEFINE d == IF job[p].dir = "home" THEN Live.svc ELSE away
      <3>1. read_sources(p, d)
        BY <1>3, <2>2 DEF read
      <3>2. Names(d)
        BY <1>0
      <3> HIDE DEF d
      <3> QED  BY <1>0, <3>1, <3>2, ReadChecked
    <2> QED  BY <2>1, <2>2
  <1>4. CASE compile(p)
    <2>1. Compiles(p)
      BY <1>4 DEF compile
    <2> QED  BY <1>0, <2>1, NextChecked, WaitsChecked, CollectChecked, ReportChecked, BuildChecked
             DEF Compiles
  <1>5. CASE check_runs(p)
    <2>1. Kids(p)
      BY <1>5 DEF check_runs
    <2> QED  BY <1>0, <2>1, KidChecked, WaitsChecked DEF Kids
  <1>6. CASE leave(p)
    BY <1>0, <1>6 DEF leave
  <1>7. CASE \/ lock_out(p) \/ make_tmp(p) \/ write_all(p) \/ fsync_tmp(p) \/ rename_keep(p)
             \/ rename_tmp(p)
    <2>1. /\ job[p].phase \in {"lock_out", "tmp", "fill", "flush", "keep_old", "switch"}
          /\ \E ph \in {"tmp", "fill", "flush", "keep", "switch", "sync"} : Go(p, job[p], ph)
      BY <1>7 DEF lock_out, make_tmp, write_all, fsync_tmp, rename_keep, rename_tmp, At
    <2> QED  BY <1>1, <2>1 DEF Unread, Open
  <1>8. CASE link_keep(p)
    <2>1. Stays(p) /\ job[p].phase = "keep" /\ job'[p].phase \in {"switch", "keep_old"}
      BY <1>0, <1>8 DEF link_keep, At, Go, JobShape, JobFields, Stays
    <2> QED  BY <1>0, <2>1, StaysChecked DEF Unread, Open
  <1>9. CASE fsync_dir(p) \/ write_fails(p)
    <2>1. /\ job[p].phase \in {"tmp", "fill", "flush", "keep", "keep_old", "switch", "sync"}
          /\ \E ph \in {"done", "dead"} : Go(p, job[p], ph)
      BY <1>9 DEF fsync_dir, write_fails, Exit, At
    <2> QED  BY <1>1, <2>1 DEF Unread, Open
  <1>10. CASE move_refused(p) \/ kill(p)
    <2>1. \E ph \in {"dead", "killed"} : Go(p, job[p], ph)
      BY <1>10 DEF move_refused, kill, Exit
    <2> QED  BY <1>1, <2>1 DEF Unread, Open
  <1>11. CASE move(p) \/ relink(p)
    <2>1. /\ job[p].phase \in {"move", "relink"}
          /\ \E ph \in {"relink", "sync"} : Go(p, job[p], ph)
      BY <1>11 DEF move, relink, At
    <2> QED  BY <1>1, <2>1 DEF Unread, Open
  <1>12. CASE relink_fails(p)
    <2>1. Stays(p) /\ job[p].phase = "relink" /\ job'[p].phase = "sync"
      BY <1>0, <1>12 DEF relink_fails, At, Go, JobShape, JobFields, Stays
    <2> QED  BY <1>0, <2>1, StaysChecked DEF Unread, Open
  <1> QED  BY <1>2, <1>3, <1>4, <1>5, <1>6, <1>7, <1>8, <1>9, <1>10, <1>11, <1>12 DEF Step

LEMMA ChkStep == ASSUME Inv, ChkInv, [Next]_vars PROVE ChkInv'
  <1>1. ASSUME NEW p \in Procs, Step(p) \/ check_runs(p) \/ kill(p) PROVE ChkInv'
    <2>1. JobChecked(job'[p]) /\ NamesStep /\ OnlyJob(p)
      BY <1>1, CheckSteps, NamesDo, StepsDo DEF Inv, ProcStep
    <2>2. \A q \in Procs : JobChecked(job'[q])
      <3>1. \A q \in Procs \ {p} : JobChecked(job'[q])
        BY <2>1 DEF OnlyJob, ChkInv
      <3> QED  BY <2>1, <3>1
    <2> QED  BY <2>1, <2>2, NamesStay DEF Inv, ChkInv
  <1>2. CASE writeback
    <2>1. away' = away
      BY <1>2 DEF writeback
    <2> QED  BY <1>2, <2>1, WritebackIs DEF ChkInv
  <1>3. CASE crash
    <2>1. Len(jr') = 1 /\ jr'[1] = jr[1] /\ 1 \in 1..Len(jr) /\ away' = away
      BY <1>3, OneIs, LiveIs DEF crash, Inv, Types
    <2>2. ASSUME NEW q \in Procs PROVE JobChecked(job'[q])
      <3>1. CASE job[q].phase \in Ends \union {"asked"}
        <4>1. job'[q] = job[q]
          BY <1>3, <3>1 DEF crash
        <4> QED  BY <4>1 DEF ChkInv
      <3>2. CASE job[q].phase \notin Ends \union {"asked"}
        <4>1. Stays(q) /\ job'[q].phase = "killed"
          BY <1>3, <3>2 DEF crash, Inv, Types, JobShape, JobFields, Stays
        <4> QED  BY <4>1, StaysChecked DEF Unread, Open, ChkInv
      <3> QED  BY <3>1, <3>2
    <2> QED  BY <2>1, <2>2 DEF ChkInv
  <1>4. CASE UNCHANGED vars
    BY <1>4 DEF vars, ChkInv
  <1> QED  BY <1>1, <1>2, <1>3, <1>4 DEF Next

LEMMA ChkInit == Init => ChkInv
  <1> SUFFICES ASSUME Init PROVE ChkInv
    OBVIOUS
  <1>1. PICK sc \in Scenarios :
          /\ job = [p \in Procs |-> NewJob(sc.ask[p])]
          /\ jr = <<[path |-> sc.path, old |-> sc.old, svc |-> sc.svc, unused |-> sc.unused]>>
          /\ away = sc.away
    BY DEF Init
  <1>2. Names(sc.svc) /\ Names(sc.unused) /\ Names(sc.away)
    BY ScenariosAssumption DEF Names
  <1>3. Len(jr) = 1 /\ jr[1].svc = sc.svc /\ jr[1].unused = sc.unused
    BY <1>1, OneIs
  <1>4. ASSUME NEW p \in Procs PROVE JobChecked(job[p])
    <2>1. job[p].b = NoBuild /\ job[p].phase \in {"done", "asked"}
      BY <1>1 DEF NewJob
    <2>2. DOMAIN NoBuild = BuildFields /\ NoBuild.srcs = <<>>
      BY DEF NoBuild, BuildFields
    <2>3. Names(<<>>)
      BY FS_EmptySet DEF Names
    <2> QED  BY <2>1, <2>2, <2>3 DEF JobChecked, Open, Unread
  <1> QED  BY <1>1, <1>2, <1>3, <1>4 DEF ChkInv, NamesIn

\* However many services there are and checks run at a time, in whatever order they end, fail,
\* hang and are killed, and whether waitpid() or the staging of one fails: each is counted once
\* and under the name of its service, and a graph is made only if every script passed.
THEOREM InstallChecks == Spec => []ChecksCounted
  <1>1. Spec => []ChkInv
    <2>1. Inv /\ ChkInv /\ [Next]_vars => ChkInv'
      BY ChkStep
    <2> QED  BY <2>1, ChkInit, Always, PTL DEF Spec
  <1>2. ChkInv => ChecksCounted
    <2> SUFFICES ASSUME ChkInv, NEW p \in Procs,
                        \/ At(p, "checking") /\ Started(p) /\ Chk(p).slot = <<>>
                        \/ /\ Srcs(p) # <<>> /\ ~job[p].nocheck
                           /\ job[p].phase \in {"link", "order", "image", "refused", "done"}
                 PROVE  /\ Told(Chk(p), Srcs(p)) /\ ToCheck(p) = Wanted(Srcs(p), Chk(p))
                        /\ ~At(p, "checking") => \A k \in ToCheck(p) : Syntax(p, k) = "ok"
      BY Zenon DEF ChecksCounted, Told, Fine
    <2>1. JobChecked(job[p]) /\ ToCheck(p) = Wanted(Srcs(p), Chk(p))
      BY DEF ChkInv, ToCheck, Wanted
    <2>2. CASE At(p, "checking") /\ Started(p) /\ Chk(p).slot = <<>>
      BY <2>1, <2>2, CheckIs, AllTold DEF Started
    <2>3. CASE /\ Srcs(p) # <<>> /\ ~job[p].nocheck
               /\ job[p].phase \in {"link", "order", "image", "refused", "done"}
      <3>1. Passed(job[p])
        BY <2>1, <2>3 DEF JobChecked, Open, Srcs
      <3> QED  BY <2>1, <3>1 DEF Passed, Srcs, Chk, Syntax
    <2> QED  BY <2>2, <2>3
  <1> QED  BY <1>1, <1>2, PTL
=============================================================================
