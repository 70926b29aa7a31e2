----------------------------- MODULE MCInstall -----------------------------
(***************************************************************************)
(* Beginnings for Install.tla: one build each of many directories; syntax  *)
(* checks that pass, fail or hang; and ninitctl processes side by side.    *)
(***************************************************************************)
EXTENDS Install

CONSTANTS p1, p2, p3, g0, g1

\* A file with a few commands.
File(i, header) ==
  [name |-> i, header |-> header, code |-> TRUE, nul |-> FALSE, lang |-> "shell", size |-> 10,
   words |-> <<>>, syntax |-> "ok"]
Entry(f) == [kind |-> "service", file |-> f, badname |-> FALSE, mode |-> {"grp", "oth"}, link |-> "no"]
Dir(files) == [i \in DOMAIN files |-> Entry(files[i])]
Dep(key, is) == [key |-> key, is |-> is]

Idle == [cmd |-> "none", dir |-> "home", dry |-> FALSE, nocheck |-> TRUE, svc |-> 0]
InitCmd == [Idle EXCEPT !.cmd = "init"]
Only(a) == [p \in Procs |-> IF p = p1 THEN a ELSE Idle]

Scene == [ask |-> Only([InitCmd EXCEPT !.dry = TRUE]), path |-> g0, old |-> g1, foreign |-> {},
          svc |-> <<>>, unused |-> <<>>, away |-> <<>>]
Build(d) == [Scene EXCEPT !.svc = d]

\* Four services with any dependencies among them.
Pairs4 == {e \in (1..4) \X (1..4) : e[1] # e[2]}
AnyGraph ==
  {Build(Dir([i \in 1..4 |-> File(i, <<Dep("depon", {e[1] : e \in {x \in E : x[2] = i}})>>)])) :
     E \in SUBSET Pairs4}

\* Three services: dependencies of both kinds, on oneself, on nothing; onfail:.
AnyNames ==
  {Build(Dir([i \in 1..3 |->
      File(i, <<Dep("depon", a[i]), Dep("depof", IF i = 2 THEN b ELSE {}), Dep("onfail", o[i])>>)])) :
     a \in {x \in [1..3 -> SUBSET {1, 2, 4}] : x[2] \subseteq {1}}, b \in SUBSET {2, 3},
     o \in {<<"warn", "stop", "warn">>, <<"stop", "stop", "warn">>}}

\* One service with two of these directives.
Num(key, n) == [key |-> key, n |-> n]
Ms(key, n, unit) == [key |-> key, n |-> n, unit |-> unit]
Directives ==
  {Dep("type", t) : t \in {"oneshot", "daemon", "target", "x"}}
  \union {Dep("restart", r) : r \in {"always", "no", "x"}}
  \union {Num("notify", n) : n \in {-1, 2, 3, 255, 256}}
  \union {Ms("start-timeout", n, u) : n \in {0, 24, 25, 86400, 86401}, u \in {"s", "h", "x"}}
  \union {Ms("start-delay", n, u) : n \in {65, 66}, u \in {"ms", "s"}}
  \union {Ms("stop-timeout", 1440, "m"), Dep("name", 1), Dep("name", 2), Dep("deps", "order"),
          Dep("deps", "uptime"), Dep("deps", "x"), Dep("onfail", "x"), Dep("unknown", "x")}
  \union {Num("start-tries", n) : n \in {0, 1, 250, 251}}
AnyHeader ==
  {Build(Dir(<<[File(1, h) EXCEPT !.code = c]>>)) :
     h \in {<<d, e>> : d \in {x \in Directives : x.key \in {"type", "restart", "deps"}}, e \in Directives},
     c \in BOOLEAN}

\* Commands at the limits of the format.
Words == {<<>>, <<255>>, <<256>>, <<5, 4096>>, <<5, 4097>>, [k \in 1..16 |-> 5], [k \in 1..17 |-> 5]}
AnyCommand ==
  {Build(Dir(<<[File(1, <<>>) EXCEPT !.lang = l, !.words = w, !.size = z, !.nul = n]>>)) :
     l \in {"shell", "python"}, w \in Words \ {<<>>}, z \in {NG_MAX_SCRIPT, NG_MAX_SCRIPT + 1}, n \in BOOLEAN}

\* A directory with other things than services.
Kinds == {"service", "dir", "reserved", "graph", "dangling"}
AnyEntries ==
  {Build([i \in 1..m |-> [Entry(File(i, <<>>)) EXCEPT !.kind = k[i], !.badname = b /\ i = 1,
                                                      !.mode = IF i = 1 THEN r ELSE @]]) :
     m \in 1..3, k \in [1..3 -> Kinds], b \in BOOLEAN, r \in {{}, {"grp"}}}
TooMany == {Build(Dir([i \in 1..m |-> File(i, <<>>)])) : m \in {4, 5, 9}}

\* Three scripts to check, two at a time.
AnyCheck ==
  {[Build(Dir([i \in 1..3 |->
      [File(i, <<>>) EXCEPT !.syntax = s[i], !.lang = IF i = 2 THEN "python" ELSE "shell",
                            !.words = IF i = 2 THEN <<5>> ELSE <<>>]]))
    EXCEPT !.ask = Only([InitCmd EXCEPT !.dry = TRUE, !.nocheck = FALSE])] :
     s \in [1..3 -> {"ok", "bad", "hang"}]}

\* Processes side by side: two services, of which the second is moved.
TwoSvc(l) == [Dir([i \in 1..2 |-> File(i, <<>>)]) EXCEPT ![2].link = l]
With3(path, old, foreign, d, c, l) ==
  [Scene EXCEPT !.path = path, !.old = old, !.foreign = foreign, !.away = Dir(<<File(1, <<>>)>>),
                !.svc = IF c = "del" THEN TwoSvc(l) ELSE [i \in {1} |-> TwoSvc(l)[i]],
                !.unused = IF c = "add" THEN [i \in {2} |-> TwoSvc(l)[i]] ELSE <<>>,
                !.ask = [p \in Procs |->
                           CASE p = p1 -> InitCmd
                             [] p = p2 -> [InitCmd EXCEPT !.dir = d]
                             [] OTHER -> [Idle EXCEPT !.cmd = c, !.svc = 2]]]
Beside ==
  {With3(g0, g1, {}, "home", "del", "rel"), With3(g0, None, {}, "away", "add", "rel"),
   With3(None, g1, {}, "away", "none", "no"), With3(g0, g1, {g0}, "away", "add", "no"),
   With3(g0, g1, {g1}, "home", "add", "no")}

\* One service is moved: it is there already, dangles or is not there.
AnyMove ==
  {[Scene EXCEPT !.svc = Dir(<<File(1, <<>>)>>), !.unused = [TwoSvc("rel") EXCEPT ![2].kind = "dangling"],
                 !.ask = Only([Idle EXCEPT !.cmd = c, !.svc = i])] : c \in {"add", "del"}, i \in 1..3}

MCScenarios ==
  AnyGraph \union AnyNames \union AnyHeader \union AnyCommand \union AnyEntries \union TooMany
  \union AnyCheck \union Beside \union AnyMove
=============================================================================
