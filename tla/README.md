# Verification of ninit

ninit is an init system: pid 1 maps a compiled graph of services, starts them in
dependency order, restarts and retries them, answers `ninitctl`, falls back to a shell
when it cannot go on, and takes the machine down. This directory holds TLA+ models of
that program, the TLC runs that check them on small instances, and TLAPS proofs for
every instance. Paths below are relative to the repository (`src/state.c` is the file
`state.c` of its `src` directory).

## The system

pid 1 is one thread around `poll()` (`main()`, src/ninit.c). Handlers run to their end;
what interleaves is everything outside it: processes that exit, hang, report or close
pipes, timers that pass, requests of `ninitctl`, signals.

| component | state | operations | what makes it correct |
|---|---|---|---|
| dependency state, `state.c` | `state`, `up`, `want`, `unmet`, `released`, `rqueue`, `n_*` | `complete`, `svc_release`, `go_down`, `svc_reclaim`, `poison`, `svc_mark_*`, `svc_can_start` | `unmet` is exact though never recounted; counters match states; targets follow |
| starts and exits, `reap.c`, `spawn.c` | `struct run`: pid, stale pid, timers, attempts | `spawn`, `launch`, `child_exited`, `service_failed`, `start_failed`, `restart_schedule`, `fire_restart`, `stale_reaped`, `reap` | one instance at a time, nothing starts before its prerequisites, no start hangs |
| pipes, `drain.c` | `out_fd`, `ntf_fd`, line and tail buffers | `drain_out`, `drain_notify`, `drain_exec`, `maybe_free` | readiness read once; nothing that needs attention leaves the live list |
| failure policy, `fail.c` | `emerg_*`; policy from the graph | `fail_service`, `poison_spread`, `fail_emergency_*` | who is skipped; one shell at most, none forgotten, giving up ends it |
| commands, `command.c` | `op`, `op_restart`, `op_at`, `n_ops` | `svc_op_start`, `svc_op_stop`, `ctl_tick`, `ctl_resume`, `ctl_cmd` | each operation is answered |
| connections, `control.c` | `ctl_conn[]`, `n_ctl` | `ctl_accept`, `ctl_read`, `ctl_fill`, `ctl_flush`, `ctl_feed`, `ctl_pump`, `ctl_drop` | a result of `poll()` reaches the connection it was for; replies are whole and in order; nobody waits for ever |
| deadlines, signals, `signals.c` | signalfd, pending flags | `check_timeouts`, `poll_signals` | a report in time beats the deadline |
| pid table and live list, `pidmap.c` | `pid_key`, `pid_val`, `live`, `live_pos` | `pid_put`, `pid_del`, `find_pid`, `live_add`, `live_del` | every reaped child is found, and only its service |
| ordered shutdown, `stop.c` | `st`, `waitc`, `left` | `stop_ordered`, `wait_children`, `shutdown_system` | dependents first; the machine goes down |
| cgroups, `cgroup.c` | cgroupfs | make, kill, populated, drop | what a service left behind is seen |
| log, `logging.c` | ring, lines seen, `rep_*`, `log_pend`, `log_dropped` | `ninit_log`, `log_tick`, `log_flush` | every line is told of once and in order; no line is missing from the console unnoticed |
| graph image, `ngraph.c` | the mapped file | `ng_verify` | whatever is accepted is acyclic and consistent |
| graph compiler, `ctl/build.c`, `sources.c`, `check.c`, `graph.c`, `image.c` | what was read, slots of running checks, order and image | `read_sources`, `check_syntax`, `link_graph`, `order_graph`, `write_image` | exactly the right directories are refused; the image is that of the services, in order, and `ng_verify` and the supervisor can take it |
| graph file, `ctl/output.c`, `add.c`, `del.c`, `boot.c` | the graph, `.old`, the service directory, locks | `lock_dir`, `write_atomic`, `svc_move`, `load_graph`, `load_previous` | wherever the machine stops a boot finds a whole graph |
| `ninitctl` client, `ctl/ctl.c` | one connection | `cmd_ctl` | success only for a whole reply |
| early boot, remounts, clock, `boot.c`, `shutdown.c` | none | system calls in a straight line | |

Components interact by direct calls and shared arrays. The deep knot is state.c, reap.c,
spawn.c and command.c: a release starts services, a start may fail at once, the failure
spreads and takes services down, and that happens inside the loop that was releasing.

What is hard to test here: the order in which exits, readiness, timers and requests meet;
processes that outlive SIGKILL; retries that fire after a prerequisite went away; counters
adjusted far from what they count; a list that services leave while something still waits
for them; deletion in the pid table; shells that fail in three different ways; connections
that move between slots while their events are handled; writes that fall short; lines held
back and overwritten; checks that end as their time passes; several `ninitctl` at once, and a
crash between any two system calls. `hazards` in `PROJECT.json` has each at its line.

## Modules

| module | models | checked by |
|---|---|---|
| `DepGraph` | the graph as `ng_verify()` lets it through: types, edges (from lower to higher index), roots first, policies; `Reach`, what the worklists of `svc_reclaim()` and `poison_spread()` compute | all runs that use a graph |
| `Supervisor` | state.c, reap.c, spawn.c, drain.c, command.c and their callers | `supervise`, `deep`, `progress`, `operations`, `stop_between_tries` |
| `DepGraphProofs` | lemmas on finite sets of services and on `Reach` that the proofs share | TLAPS |
| `SupervisorProofs` | theorems about the counts, releases and launches of `Supervisor` and, on top of those, about `struct run`, the states and the counters | TLAPS |
| `StopOrdered`, `StopOrderedProofs` | stop.c | `stop`, TLAPS |
| `EmergencyShell`, `EmergencyShellProofs` | the emergency shell of fail.c | `shell`, TLAPS |
| `PidMap`, `PidMapProofs` | pidmap.c and its callers | `pids`, TLAPS |
| `Console` | the console half of logging.c: partial writes, the kept rest, the count of dropped lines | `log`, TLAPS |
| `Log`, `LogProofs` | the ring and the repeat filter of logging.c, on top of `Console`, and theorems about both | `log`, TLAPS |
| `Control`, `ControlProofs` | control.c, the dispatch of the poll loop, and `cmd_ctl()` of ctl/ctl.c on the other side | `control`, `log_hangs`, TLAPS |
| `ServiceFile` | `parse_src()`: directives, limits, what is checked of a file | `install` |
| `GraphBuild` | ctl/graph.c, ctl/image.c and `ng_verify()` as operators, and what they should compute | `install` |
| `Compile` | a `ninitctl init` from `read_sources()` to the image, with its syntax checks | `install` |
| `Install` | ctl/output.c, add.c, del.c on the directory of the graph, on top of `Compile`; the disk and the machine | `install` |
| `GraphStore` | what replacing the graph promises to whoever boots; `Install` implements it | `install`, TLAPS |
| `InstallProofs` | theorems about `Install` | TLAPS |
| `MC*` | the small instances | |

`Log` extends `Console`, and `Install` extends `Compile`, `GraphBuild` and `ServiceFile`: the runs check
them together. `GraphBuild` instantiates `DepGraph` with the image it has built, so that what the
supervisor's modules assume of a graph is checked of what the compiler writes. `Control` takes from
`Supervisor` that an operation ends (`OpEnds`).

### Supervisor

The variables are the arrays and counters of the program under their own names; `run` is
`struct run`. A handler is an action, and a handler with several outcomes is a disjunction
of them: `child_exited` is `exited_held`, `exited_restart`, `exited_for_good`,
`exited_complete`, `exited_starting`, `exited_shutdown`; `fire_restart` is `fire_dropped`,
`fire_postponed`, `fire_gives_up`, `fire_launch`; and so on. Three loops are taken one
iteration at a time, with every other handler disabled meanwhile (`Settled`): the release
queue of `svc_release()` and the scans of `start_graph()` and `ctl_resume()`.

Abstractions:

* The release queue is a count per dependent (`pend`) instead of a ring, so a step of the
  model picks any queued release. What holds for every order holds for the code's.
* Time is left out. An armed timer or a deadline may expire at any moment, so every order
  of timer and event is there, and no property rests on a delay being long enough. The
  burst limit and backoff of `restart_schedule()` only lengthen delays.
* A process and its pipes are seen when ninit sees them: an exit is its reaping.
* `started`, `pgid`, `cg_killed`, `hup`, `timedout`, the kept output and all wording are left
  out; `extra` is what `cgroup_populated()` answers once the main process is gone.
* `launch()` fails or succeeds as a whole, for the services in `Flaky`.
* From `shutdown_system` on only the reaping is in this module; `StopOrdered` has the rest.

### StopOrdered

One pass of `stop_ordered()`'s loop is `signal_loop` (SIGTERM to what may be stopped, SIGKILL
for those whose stop-timeout has passed), `settle_loop` (after `reap()`), and `deadline` or
`next_pass`. `alive` is the set of services that are not `svc_gone()`; processes exit at any
moment. `term_waited`, `kill_waited` and `go_down` are the rest of `shutdown_system()`.

### EmergencyShell

`e` holds the static variables `emerg_*`; the helpers are functions from a state to a state, the
handlers compose them in the code's order. The child reports or dies at any moment.
`asked` and `lasting` are there for the properties: whether a shell was ever asked for,
and whether the machine lets any shell live for `EMERG_FAST_MS`.

### PidMap

The table under any hash function, with one action per caller of pidmap.c and the loop of
`pid_del()` one round at a time. `find_pid(p)` and `scan_pid(p)` are its two forms, and
`reap` acts on what the first one answers.

### Log and Console

`ninit_log(l)` is `log_new`, `log_held` or `log_repeats`, by what the filter makes of the line, and
`log_tick` is `tick_hold` and `tick_report`. `rep_flush`, `rep_break`, `log_again` and `log_emit` are
operators on the filter's state, since several of them run inside one handler. A line stands
for its key and text; `hash` is any function, so colliding lines are among the cases. The ring holds a
number of lines and the history `told` is what a reader of all of it would know, with "last n
messages repeated" read as the last n lines the ring shows, notices left out. Each line that goes to the console is then written in steps
(`report`, `write_rest`, `write_line`) while nothing else runs; what `write()` takes is a choice.
`lost` and `inreport` are histories: the lines missing from the console, and those that a report
still pending tells of.

### Control

`conn` is `ctl_conn[]`, `results` the part of `pfds` that is still to be handled. A round of `main()` is
`pump_all`, `poll`, a `dispatch` for each result, `end_round`; between two results a handler may log
lines (`ring_put` with its `ctl_feed()`). A reply is a sequence of lines, buffers and sockets hold
lines. The client sends its request in one or two parts, reads, stops reading for a while, or goes
away. `ctl_drop()` moves the last connection into the hole and leaves the old copy, as the code does,
and descriptors are used again as the kernel does.

### ServiceFile, GraphBuild, Compile

A service file is a record of what its directives say; each directive is checked with its limits in the
code's order of checks. The algorithms of graph.c and image.c are kept: the search with an explicit
stack, the binary heap, the closure computed backwards; and next to them stands what they should
give (`Acceptable`, `StartedFirst`, `Dependents`, `RightImage`). A syntax check is a process of its own
in a slot with a deadline; `reap_poll`, `reap_expire` and `collect_one` are the parts of
`collect_one()` between which a check may end.

### Install and GraphStore

`jr` holds the states of the directory that a crash could leave: the first is on the disk, the last is
what processes see; the disk catches up in order (`writeback`), `fsync()` of the directory makes it
catch up at once. That is what a journaling file system gives, and `write_atomic()` counts on it. A file's
content is `empty`, `written`, `synced`, or `torn` when a crash lost what was not synced. Each call of
`write_atomic()` and `svc_move()` is an action, may fail (`write_fails`, `relink_fails`), and the process
may be killed before any of them. Hidden names (temporary files) are left out, `read_sources()`
skips them.

`GraphStore` has two variables: `now`, the graph a boot would load, and `may`, those a boot could load if
the machine stopped. The mapping gives `load_graph()`, `load_previous()` applied to the directory as
seen and to each of the states in `jr`.

## Runs

| run | instance | what it shows |
|---|---|---|
| `supervise` | restarted daemon with notify, a oneshot and a target on it; cgroups; all requests | every property of the bookkeeping: `unmet` and counters exact, `up` and `released` together, one instance, live list complete, starts in order |
| `deep` | a plain daemon, a root target; two targets in a row, the last `deps: order`, between a oneshot tried twice and a restarted daemon; start, resume, failing launches | counts, states and timers fit after failures and exits for good; targets follow their prerequisites through releases and reclaims; a daemon waiting for one is told; `deps: order` is never taken back |
| `progress` | restarted daemon with two tries, oneshot on it; fair | each start ends and boot ends |
| `operations` | the same pair, without cgroups; start, stop, restart; fair | each request is answered |
| `stop` | five services in a diamond with a side branch, one process outliving SIGKILL; fair | dependents stop first, counts exact, the machine goes down |
| `shell` | the limits of fail.c (5, 5, 2); fair | a shell is pursued, given up for good, and not started for ever |
| `pids` | three services, four pids, four slots, all 256 hash functions | both lookups, by table and by walk, the live list and the services' pids agree |
| `log` | three lines, one kept off the console, any hashes; blocks of up to two; a ring of two lines; five lines after an empty log or one about to repeat; fair | the ring tells of every line once, in order (`NothingLost`); no line is missing from the console unnoticed (`LossIsCounted`); nothing is held for good (`AllTold`) |
| `control` | two slots, up to three clients, one of which may leave; buffers of two lines, sockets of one, a ring of two; fair | each client gets the reply to its own request (`OwnReply`), success is complete, watchers keep up and see all, every request is answered |
| `install` | about five thousand small directories, each built once; three scripts that pass, fail or hang, checked two at a time; two inits and an add or del side by side, with a crash; one add or del that has nothing to move; fair | see below |

`install` asks three questions of one specification. Of the compiler: `BuildRight`, over every graph on
four services, mixed `depon:`, `depof:` and `onfail:` on three, every pair of directives at
their limits, commands at theirs, and directories with other things in them. Of the checks:
`ChecksCounted`. Of the graph file: `GraphWhole`, `Fallback`, `Reported`, `SourcesHeld`,
`ForeignStays`, the refinement `StoreSpec`, and that each `ninitctl` ends (`NinitctlEnds`).

Three to six services are enough for each kind of relation the code tells apart (a
direct prerequisite, one through a target, two at once, one that is `deps: order`) and each
action happens in some run. Two tries are the least with a retry. In `pids` three entries
in four slots give every chain, collision and wrap-around with one slot free, and
services and pids are interchangeable (symmetry; no liveness is checked there). In `log` a ring
shorter than what is held makes overwriting happen, and two hashes for three lines make collisions
happen. In `control` there is one slot less than clients, and each buffer fills. In `install` two writers
and one mover are enough for every pair of processes, and one crash for a crash at every
point; `NG_MAX_SVC` is 4 so that its limit is met.
Deadlock is not checked except in `pids`: a system whose services are all done, or that
has gone down, has nothing left to do.

In `progress` the dependent has one try, and `stop` is not among the requests: `stop_between_tries` and
the retry without end below are exactly ways in which a start does not end.

### Fairness

`Supervisor!Fairness`: each handler that the main loop calls on every round (timers,
deadlines, operations, readiness) gets its turn, and a killed process is reaped. Strong
fairness is needed because the iterations of a release or a scan disable every other
action in between, while in the code these loops are finite and the handler comes next.
Nothing is assumed of living processes: they may never exit, report or close a pipe.
`StopOrdered!FairSpec`: the loop goes round, stop-timeouts pass, SIGKILL takes effect except
on `Stuck`; the overall deadline is only counted on when nothing else can happen, which is
less than the clock gives, so that the ordered stop must end by itself wherever it can.
`EmergencyShell!FairSpec`: retry timers fire, and where no shell lasts each one is reaped.
`Log!FairSpec`: `log_due()` bounds the wait of `poll()`, so `log_tick()` comes round; nothing is assumed of
the console. `Control!FairSpec`: the loop goes on (`loop_on`); `poll()` returns when a descriptor is ready or
an operation has a deadline, and needs not return otherwise (`poll_on`, which is what `LogEnds` fails
on); operations end; a client that reads goes on. `Install!FairSpec`: a process goes on unless it
waits for a lock (`CanStep` is what enables a step, written out), and syntax checks end or run out of
time. Kills, failures and crashes are never assumed to happen.

## Disagreements

Two runs show the code doing other than its documentation or comments say (`findings` in
`PROJECT.json` quotes the lines):

* `stop_between_tries`: `ninitctl stop` between two attempts clears the retry, finds nothing
  to stop and leaves the state starting for good; `n_active` never returns to zero.
* `log_hangs`: a plain `ninitctl log` whose last line filled the output buffer has nothing left that
  the loop polls for, and waits until something else wakes it.

Others were seen while modelling and are not kept as runs. In the supervisor:

* `ninitctl resume` while a failed service's killed process is not yet reaped makes it pending, and
  nothing starts it when the process is reaped (src/reap.c:332).
* A completed oneshot that is run again and is between attempts is skipped by a failing prerequisite and
  stays up (src/fail.c:174).
* A start under way when its prerequisite exits for good is not skipped; if it then fails it is
  retried, and `fire_restart()` postpones it without end (src/reap.c:172).
* `ninitctl start` after a stop whose process outlived SIGKILL can leave the service running with
  nothing pending for it.
* Leftovers of a stopped oneshot that die after the two seconds behind SIGKILL never take it down
  (src/command.c:173, README.rst:797).
* `ninitctl start` refused because the previous process has not exited has already cleared the hold
  (src/command.c:65). After a `ninitctl stop` that cleared the timer and gave up on the process, a daemon
  with `restart: always` is then neither held nor waited for: when the process dies at last nothing starts it,
  though README.rst:341 has it "killed and started again" without limit and :45 has it held "until
  `ninitctl start`". The attempt to prove `RestartNotForgotten` for every instance showed this one, which no
  run is large enough to reach; the property is now about services that are never stopped by request.
* A relaunch whose fork fails keeps the service starting without a process (src/spawn.c:294). With a start
  refused for a prerequisite and a stop that waits for leftovers in its cgroup, a start-timeout can then arm a
  restart timer on a service that is pending and held. `fire_restart()` drops it, so `ActiveHasState`, whose proof
  found it, leaves held services out.
* `launch()` stores a new output pipe over one that a process left by the last run of a oneshot still
  holds open (src/spawn.c:354, README.rst:376).

In the log:

* Lines that a notice told of are not among the lines seen. After "x a x a", three more "a" and a notice for
  them, "x a" is taken for a block logged twice in a row (src/logging.c:526), though the three "a" came
  between, and the second notice, "last 2 messages repeated", stands under the first: it is right only for
  one who reads "messages" as the lines shown and skips the notices (README.rst:747 says "logged
  twice in a row"). The reader of `Log` is such a one; for one who unfolds the first notice before the
  second, `NothingLost` is false, which takes six lines and was found on the way to its proof.
* `log_flush()` for a rest that has been written since `poll()` counts a dropped line though none is
  missing (src/logging.c:286, called from src/ninit.c:427).
* A held line whose place in the ring was overwritten is logged with whatever is there now: unlike
  `seen_is()`, `log_again()` does not look at `ring_tail` (src/logging.c:443). `NothingLost` allows for it.
* A report that is cut off for good counts as one line however many it told of: the number is then too
  small, though not zero, which is what `LossIsCounted` says.

In the compiler:

* Two `ninitctl init` with crossing `-d` and `-o` directories lock them in opposite order and wait for
  each other (ctl/output.c:68). The instance has one directory for graphs, so `NinitctlEnds` does not
  meet it.
* A kill between the rename and the relink of a symlink leaves it dangling, and every later init of that
  directory ends with an error (ctl/add.c:254).
* After an init that was cut off between the two renames the graph and `.old` are one file; the next
  `rename(keep, old)` is then between two names of the same file, does nothing, and the hidden name stays
  (ctl/output.c:149).

## Proofs

All theorems are for every value of the constants: every graph that `ng_verify()` accepts (`GraphAssumption`:
acyclic edges between services; the proofs use no more of it), every choice of cgroups, requests and failing
launches, any number of lines, pids, clients, `ninitctl` processes and crashes. The bounds of the runs are not used.
What is assumed of the constants is named where they are declared; the one assumption on a size that is more than
"not zero" is that the buffer of a connection holds two lines (`ControlConstants`), since a short reply is written into
it in one go: src/src/control.h has 8192 bytes. The same assumption keeps the tags apart: no client
or service is called `None`, and no service has the name of one of the other requests.

### Supervisor

`SupervisorProofs`:

* `TypeCorrect`: every variable keeps its type; above all, the unsigned `unmet` never goes
  below zero.
* `UnmetCounts`: `unmet[d]` is the number of unreleased prerequisites of `d` plus the releases
  still queued for it.
* `UpReleased`: up and released stay together, but for `deps: order`.
* `LaunchesInOrder`: each launch is of a service that is not held, running or waiting for a
  killed predecessor, before shutdown, with every prerequisite up (or up once, if `deps:
  order`).

The inductive invariant is `IInv == TypeOK /\ UnmetExact /\ UpIsReleased`. None of the three
stands alone: that a decrement keeps `unmet` natural needs the count to include the queue
(`UnmetExact`), that a reclaim adds back exactly what was taken needs the reclaimed set to be
released services, each once (`Reach` and the edges' direction), and a launch's `unmet = 0`
says something about `up` only through `UpIsReleased`. The proof has lemmas on `Reach` and on
cardinalities, one lemma for each operation of state.c (`complete`, `go_down`, `poison`,
`service_failed`, ...), and one step per action.

Its second part, on top of `IInv`: `CountersExact` (`CountersMatch`), `NoSecondInstance` (`OneInstance`),
`LiveIsComplete` (`LiveCovers`), `ActiveStates` (`ActiveHasState`), `TargetsFollow` (`TargetFollows`),
`NoRestartForgotten` (`RestartNotForgotten`) and the action property `OrderReleasesForGood` (`OrderIsForGood`). The
invariant is `RInv`:

* `AllFit`, service by service: which fields of `struct run` may be set in which state (a process and a
  stale one exclude each other, a timer or a deadline goes with a state and with the live list, an operation with
  a hold, ...). This is the part that is much stronger than the properties: that `svc_abandon()`
  overwrites no pid rests on every launch being of a service whose whole `run` is at rest.
* `AllFollow` and `AllBack`: targets, and daemons on their way back. Both are about what is queued as well
  as what is there, since they must hold in the middle of a release or a reclaim, where the
  properties only look at settled states.
* `StateCount`, `UpCount`, `OpCount`: the counters. A reclaim takes many services down in one step, so these need
  lemmas on cardinalities of states before and after for sets, not only for single services.

### Ordered shutdown and shell

`StopOrderedProofs` proves for every graph and every `Stuck`: `StopTypes` (its type invariant),
`StopCounts` (`CountsExact`), `StopsDependentsFirst` (`DependentsFirst`, through every chain of
dependents) and `StopDone` (`DoneIsGone`). `DependentsFirst` speaks of chains and is not inductive;
`Edges` is the same one edge at a time, and the step from one to the other is that a service
together with everything settled is closed under the edges. `Edges` in turn needs the counts: a
service is signalled because `waitc` is zero.

`EmergencyShellProofs` proves for all limits: `ShellTypes` (no counter passes its limit),
`ShellPipe` (`PipeOfShell`), `ShellNotForgotten` (`ShellPursued`) and `ShellGivenUp`
(`GivenUpIsFinal`). The strengthening is `Limits`: short of giving up each counter is below its
limit, and a shell that runs after ninit has given up (its exec failed, it is not yet reaped) has
one increment of room left.

### Pid table

`PidMapProofs` proves `PidTypes`, `ListIsExact` (`LiveExact`) and `OwnerIsFound` (`FindsOwner`) for every table size, hash
function and number of services that the table has room for. The invariant says that each pid is in the table once
(`OneEach`) and that table, list and services agree (`Entries`, `Listed`, `ProcLive`); above all

* `Reach`: on the probing path of an entry there is no empty slot before it, except the hole that a running
  `pid_del()` has made, and
* `Hole`: the slots that `pid_del()` has gone over since are full, and none has the hole on its
  path.

Together they say that the hole may stay empty when the loop meets an empty slot. Where the probing stops
is a least number (`WFMin`); that it stops is that the table is never full, by an injection from its entries into
the live services.

### Log

`LogProofs` proves `ConsoleCounts` for the console alone and, for the log, `LogTells` (`NothingLost`), `LogCounts`
(`LossIsCounted`) and `LogTypes`. The console needs `ReportPending`: a number is remembered as told of by a report only
while that report is pending, so that giving the rest up counts it again.

For the filter, `Good` says that each line seen has its entry in the ring, with its text or garbled, and `Exact` that
what was logged is what was told of, then `rep_count` times the block, then its first `rep_pos` lines. Each function
of the filter is shown to keep both: `FlushIs` for the three cases of `rep_flush()`, `BreakIs`, `FindIs` (the block
found begins with the line at hand, since `seen_is()` compares texts), `OneMore` for a line that is held or completes
a repetition. `log_again()` in a loop is a recursive function; that it exists and what it does
is shown by taking the least number of rounds for which it would fail.

### Control

`ControlProofs` proves for any number of clients, services and connections and any sizes of buffers, sockets and ring:

* `ControlTypes` (`TypeOK`): the slots in use belong to different clients and descriptors, whatever `ctl_drop()` moved.
* `RepliesAreOwn` (`OwnReply`): each client is sent the beginning of the reply to its own request, each line once.
* `SuccessAfterReply` (`SuccessIsComplete`): `ninitctl` returns success only with the whole of a reply that ends in one.
* `WatchersKeepUp` (`WatcherKeepsUp`), an action property: only a watcher whose socket was full is overtaken.

They follow from `ControlInvariant`, that `CInv` is an invariant. The handlers of control.c are functions on the record `g` of
all that ninit keeps, so there is a lemma for each (`FilledOK`, `PumpOK`, `FeedAllOK`, `ReadOK`, `DoneOK`, `AcceptAllOK`,
`PumpAllOK`, ...), about any `g` that satisfies `Base`, and each action of `Next` is a few of them in a row. The parts
of `CInv`:

* `Distinct`: two slots in use are of different clients and different descriptors. It makes what a handler
  does to its slot and its client's socket leave everybody else's `Given` alone.
* `ConnOK`: what the client has read, what is in its socket and what is left in the buffer are one sequence,
  `Given`, and `Progress` says that `listing`, `list_at`, `log_at`, `svc` and `done` tell how much of the reply that is.
  The handlers only move lines along `Given` or append to it. Of a connection whose client has
  gone only the fields' consistency is kept (`Shape`): writes to it fail and nobody reads.
* `ClientOK`: the same for clients whose connection is closed, where no more is written; `Fresh` (in `Waiting` and `Halves`) for those
  that are not accepted yet, of which nothing may be known.
* `OpsOK`: an operation that will report to a client has the connection that waits for it.
* `AheadAt`: where a watcher is in the ring. `WatcherKeepsUp` is not inductive: that the next line does
  not overtake a watcher needs that one whose socket is not full has an empty buffer and is past the ring's tail
  or less than half a ring behind. That is what `ctl_feed()` restores; between `ring_put()` and its end only the weaker `Level` and
  `Near` hold.

`ctl_fill()`, `ctl_feed()`, `ctl_accept()` and the calls of `ctl_pump()` are loops, written as recursive functions. That such a
function exists is shown by taking the least number of rounds for which it would not, and what it does in the same way.
`CInv` was an invariant of the instance of `control` before it was proved.

### Install

`InstallProofs` proves for any number of `ninitctl` processes, any number of crashes and every beginning
in which the files that are there belong to no process and directories are finite (`ScenariosAssumption`):

* `InstallTypes`: above all, whoever writes the graph or moves services holds its directory.
* `InstallWhole` (`GraphWhole`) and `InstallSpares` (`ForeignStays`).
* `InstallImplements`: `Spec => StoreSpec`, the refinement. Initial states map to initial states, each step of a
  process to a `Replace`, a `Settle` or a stutter, `writeback` to `Settle`, `crash` to `Crash`.
* `InstallFresh` (`SourcesHeld`), `InstallFallback` (`Fallback`), `InstallReported` (`Reported`).
* `InstallChecks` (`ChecksCounted`).

The invariant of the first group is `Inv`: every file in place in some state of `jr` is synced and its writer is past the
switch (`Placed`), a new file is synced before it gets the name (`Ready`), so is the one to be kept
(`KeptOK`), and where something foreign is in place all states of `jr` have the same two names and no
init is past `refuse_nongraph()` (`ForeignOK`). The last one carries `ForeignStays` for an init that asks
before it has locked the output, and the step of the refinement in which `.old` is replaced. What
`make_image()` and the checks do is needed only as far as they change nothing else (`CompilesDoes`).

`SrcInv` adds what an init has read to the lock it holds. `HistInv` adds the history: it has each graph once (`HistOK`),
the states of `jr` follow it in order (`PathOK`), the names a process works with are the ones at the end of it (`NamesOK`),
and one that is past its last `fsync()` left a single state behind (`DoneOK`).

`ChkInv` is about the checks of one process: the slots hold distinct checks that were started (`SlotsOK`), each has
one outcome (`KidsOK`), and of the services whose turn has been, each is failed, not checked, fine or in a slot:
`bad + unchecked + fine + slots = due` (`Tally`). `without()` moves the last slot into the one that ended, which keeps
the set of checks under way; that the k-th turn is that of the k-th service with a script is `TurnsAre`.

### Only model-checked

* Liveness (`BootEnds`, `StartEnds`, `OpEnds`, `ShutdownEnds`, `GivesUp`, `AllTold`, `Answered`, `WatcherSees`,
  `NinitctlEnds`): out of the prover's reach.
* `BuildRight`: that the search, the heap and the closure of ctl/graph.c compute what stands next to them in
  `GraphBuild`, for every directory. That is an induction over each of these algorithms at once; TLC compares them
  on every graph of four services.

## Not modelled

* The scanners of ctl/parser (`compact.c`, `perl.c`, `python.c`, `lua.c`, `shell.c`) that shorten scripts: they
  work character by character and have no state beyond the text, so a model would be the code again.
* `ninitctl show`, tables and colours, the text of messages: printing.
* Early boot, remounts, clock and swap: straight lines of system calls, each of which is only logged
  when it fails. `child_exec()` and the set-up of the emergency shell's console run in the child.
* `tools/shutdown.c`: one process that parses a time, sleeps and signals pid 1; what it writes for
  others is read by nobody in this repository.
* The splitting of output into lines; byte layout, offsets and checksum of the graph image.
* Two directories that both hold graphs (see Disagreements), and file systems that reorder renames.

## Plan

Done, in this order: `DepGraph`, `Supervisor` and its core proofs, `StopOrdered` and `EmergencyShell` with theirs,
`PidMap`; then `Console` and `Log`, `Control`, `ServiceFile`, `GraphBuild`, `Compile`, `Install` with the abstract
`GraphStore`; then the proofs of every safety property of `Supervisor`, `PidMap`, `Console`, `Log`, of the graph file and
the checks of `Install`, and of `Control`.

Left: the reaping in `Supervisor` under shutdown as an implementation of the exits in `StopOrdered`.
