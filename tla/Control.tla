------------------------------- MODULE Control -------------------------------
(***************************************************************************)
(* The control socket: control.c, the dispatch of ctl_cmd() in command.c,  *)
(* the part of main() in ninit.c that polls the connections, and the       *)
(* client, cmd_ctl() of ninitctl.                                          *)
(*                                                                         *)
(* ctl_conn is an array: ctl_drop() copies the last connection into the    *)
(* hole and leaves the old copy behind, and the loop dispatches results    *)
(* that poll() gave for slots that have moved since.  A reply is a         *)
(* sequence of lines; buffers and sockets hold lines.  A client may stop   *)
(* reading, or go away, at any moment.  What an operation does to a        *)
(* service is in Supervisor.tla: here it ends, well or not.                *)
(***************************************************************************)
EXTENDS Integers, Sequences, FiniteSets

CONSTANTS
  Clients,     \* the processes that run ninitctl
  Ops,         \* services that are started and stopped
  Asks,        \* what the clients ask for and how many lines are logged: [req, lines]
  Quits,       \* the clients that may go away before the end (bounds an instance)
  Parts,       \* and those whose request may come in two parts
  CTL_MAX,     \* connections at a time
  CTL_WATCH,   \* of which so many may watch the log
  CTL_OUT,     \* lines in the output buffer of a connection
  SockMax,     \* lines in a socket
  RingLines,   \* lines in the log's ring
  n_svc,       \* services that status lists
  FirstLine    \* the log's length at first

None == "none"
Slots == 0..CTL_MAX - 1
Requests == {"status", "short", "log", "watch", "long"} \union Ops

ControlConstants ==
  /\ CTL_MAX \in Nat \ {0} /\ CTL_WATCH \in Nat /\ CTL_OUT \in Nat \ {0, 1}
  /\ SockMax \in Nat \ {0} /\ RingLines \in Nat \ {0} /\ n_svc \in Nat
  /\ FirstLine \in 0..RingLines
  /\ Asks \subseteq [req : [Clients -> Requests \union {None}], lines : Nat]
  /\ Quits \subseteq Clients /\ Parts \subseteq Clients
  /\ None \notin Clients \union Ops
  /\ Ops \intersect {"status", "short", "log", "watch", "long"} = {}

ASSUME ControlAssumption == ControlConstants

VARIABLES
  phase,     \* where main() is: "top", "poll", "dispatch", "down" or "off"
  results,   \* what poll() returned and is not handled yet
  conn,      \* ctl_conn
  n_ctl,
  ops,       \* the operations under way, with the client that asked for each
  more,      \* lines that may still be logged
  head, tail,   \* the first line number not logged yet, and the oldest in the ring
  backlog,   \* connections that are not accepted yet
  client,    \* where each client is
  req,       \* its request
  left,      \* parts of the request that it has still to write
  inq,       \* parts that it has written and ninit has not read
  wire,      \* lines written to its socket and not read
  got,       \* lines it has read
  closed,    \* ninit has closed its connection
  verdict    \* history: how its operation ended, or that it was refused

\* What a handler of ninit changes of the connections.
g0 == [conn |-> conn, n |-> n_ctl, ops |-> ops, inq |-> inq, wire |-> wire,
       closed |-> closed, verdict |-> verdict, head |-> head, tail |-> tail]

Becomes(g) ==
  /\ conn' = g.conn /\ n_ctl' = g.n /\ ops' = g.ops /\ inq' = g.inq /\ wire' = g.wire
  /\ closed' = g.closed /\ verdict' = g.verdict /\ head' = g.head /\ tail' = g.tail

clientVars == <<client, req, left, got>>
serverVars == <<conn, n_ctl, ops, inq, wire, closed, verdict, head, tail>>
vars == <<phase, results, backlog, more, clientVars, serverVars>>

Line(tag, n) == [tag |-> tag, n |-> n]

\* struct ctl, as accept leaves it.  out holds out_len lines, of which out_at are written.
\* History: who, and full (its socket was full, and it has not caught up with the log since).
Slot(fd, c) ==
  [fd |-> fd, who |-> c, svc |-> None, listing |-> None, list_at |-> 0, log_at |-> 0,
   watch |-> FALSE, done |-> FALSE, in |-> 0, out |-> <<>>, out_at |-> 0,
   full |-> FALSE]

Init ==
  /\ phase = "top" /\ results = <<>> /\ backlog = <<>>
  /\ conn = [k \in Slots |-> Slot(0, None)] /\ n_ctl = 0
  /\ ops = [i \in Ops |-> None]
  /\ head = FirstLine + 1 /\ tail = 1
  /\ client = [c \in Clients |-> "idle"]
  /\ \E a \in Asks : req = a.req /\ more = a.lines
  /\ left = [c \in Clients |-> 0] /\ inq = [c \in Clients |-> 0]
  /\ wire = [c \in Clients |-> <<>>] /\ got = [c \in Clients |-> <<>>]
  /\ closed = [c \in Clients |-> FALSE]
  /\ verdict = [c \in Clients |-> None]

Gone(c) == client[c] = "gone"

-----------------------------------------------------------------------------
(* control.c.  s is a connection, k its slot. *)

Pending(s) == s.out_at < Len(s.out)

ctl_out(s, line) ==
  IF s.done \/ Len(s.out) >= CTL_OUT THEN s ELSE [s EXCEPT !.out = Append(@, line)]

ctl_end(s, tag) ==
  IF s.done THEN s
  ELSE [ctl_out([s EXCEPT !.listing = None, !.svc = None], Line(tag, 0)) EXCEPT !.done = TRUE]

ctl_drop(g, k) ==
  [g EXCEPT !.closed[g.conn[k].who] = TRUE, !.n = @ - 1, !.conn[k] = g.conn[g.n - 1]]

\* log_line(): a reader that the ring has overtaken is told how much it missed.
log_line(g, s) ==
  IF s.log_at < g.tail
  THEN [ctl_out(s, Line("skip", g.tail - s.log_at)) EXCEPT !.log_at = g.tail]
  ELSE [ctl_out(s, Line("data", s.log_at)) EXCEPT !.log_at = @ + 1]

\* One turn of ctl_fill().
fill_line(g, s) ==
  CASE s.listing = "log" /\ s.log_at < g.head -> log_line(g, s)
    [] s.listing = "log" /\ ~(s.log_at < g.head) -> IF s.watch THEN s ELSE ctl_end(s, "ok")
    [] s.listing = "status" /\ s.list_at < n_svc ->
         [ctl_out(s, Line("data", s.list_at)) EXCEPT !.list_at = @ + 1]
    [] OTHER -> ctl_end(s, "ok")

ctl_fill(g, k) ==
  LET Fill[m \in 0..CTL_OUT] ==
        IF m = 0 THEN g.conn[k]
        ELSE LET s == Fill[m - 1]
             IN  IF s.listing = None \/ Len(s.out) >= CTL_OUT THEN s ELSE fill_line(g, s)
  IN  [g EXCEPT !.conn[k] = Fill[CTL_OUT]]

\* The value of ctl_flush(): write() takes what the socket has room for.
flushed(g, k) ==
  LET s == g.conn[k] IN
  CASE ~Pending(s) -> 1
    [] Pending(s) /\ Gone(s.who) -> -1
    [] OTHER -> IF Len(s.out) - s.out_at <= SockMax - Len(g.wire[s.who]) THEN 1 ELSE 0

ctl_flush(g, k) ==
  LET s == g.conn[k]
      all == flushed(g, k) = 1
      m == IF all THEN Len(s.out) ELSE s.out_at + SockMax - Len(g.wire[s.who])
  IN  IF flushed(g, k) = -1 THEN g
      ELSE [g EXCEPT !.wire[s.who] = @ \o SubSeq(s.out, s.out_at + 1, m),
                     !.conn[k].out = IF all THEN <<>> ELSE @,
                     !.conn[k].out_at = IF all THEN 0 ELSE m,
                     !.conn[k].full = ~all \/ (@ /\ s.log_at < g.head)]

ctl_pump(g, k) ==
  LET f == ctl_fill(g, k)
      rc == flushed(f, k)
      w == ctl_flush(f, k)
  IN  IF rc = -1 \/ (rc = 1 /\ f.conn[k].done) THEN ctl_drop(w, k) ELSE w

\* A watcher half a ring behind is written to, until it has caught up or its socket is full.
feed_one(g, k) ==
  LET s == g.conn[k]
      Feed[m \in 0..RingLines + 1] ==
        IF m = 0 THEN [g |-> g, go |-> TRUE]
        ELSE LET p == Feed[m - 1]
                 f == ctl_fill(p.g, k)
                 w == ctl_flush(f, k)
             IN  IF p.go THEN [g |-> w, go |-> flushed(f, k) = 1 /\ w.conn[k].log_at < w.head]
                 ELSE p
  IN  IF ~s.watch \/ Pending(s) \/ 2 * (g.head - s.log_at) < RingLines THEN g
      ELSE Feed[RingLines + 1].g

\* Mutant of ctl_feed(): a watcher is written to once it has missed a line.
ctl_feed_late(g) ==
  LET Feed[k \in 0..g.n] ==
        IF k = 0 THEN g
        ELSE LET p == Feed[k - 1]
             IN  IF p.conn[k - 1].log_at < p.tail THEN feed_one(p, k - 1) ELSE p
  IN  IF phase = "down" THEN g ELSE Feed[g.n]

ctl_feed(g) ==
  LET Feed[k \in 0..g.n] == IF k = 0 THEN g ELSE feed_one(Feed[k - 1], k - 1)
  IN  IF phase = "down" THEN g ELSE Feed[g.n]

-----------------------------------------------------------------------------
(* Requests.  r: how an operation ends at once, "later", or how a request  *)
(* that only reads is answered.                                            *)

\* Every connection that waits for service i is told.
svc_op_done(g, i, r) ==
  [g EXCEPT !.ops[i] = None,
            !.verdict[g.ops[i]] = r,
            !.conn = [k \in Slots |-> IF k < g.n /\ @[k].svc = i THEN ctl_end(@[k], r) ELSE @[k]]]

Refuse(g, k) ==
  [g EXCEPT !.verdict[g.conn[k].who] = "err", !.conn[k] = ctl_end(@, "err")]

\* status of one service, log time, resume, reload and requests that make no sense.
ctl_short(g, k, r) ==
  IF r = "err" THEN Refuse(g, k)
  ELSE [g EXCEPT !.verdict[g.conn[k].who] = "ok",
                 !.conn[k] = ctl_end(ctl_out(@, Line("data", 0)), "ok")]

ctl_log(g, k, watch) ==
  IF watch /\ Cardinality({j \in 0..g.n - 1 : g.conn[j].watch}) >= CTL_WATCH
  THEN Refuse(g, k)
  ELSE [g EXCEPT !.conn[k].watch = watch, !.conn[k].listing = "log", !.conn[k].log_at = g.tail]

ctl_op(g, k, i, r) ==
  LET h == [g EXCEPT !.conn[k].svc = i, !.ops[i] = g.conn[k].who]
  IN  IF g.ops[i] # None THEN Refuse(g, k)
      ELSE IF r = "later" THEN h ELSE svc_op_done(h, i, r)

ctl_cmd(g, k, r) ==
  LET q == req[g.conn[k].who] IN
  CASE q = "status" -> [g EXCEPT !.conn[k].listing = "status", !.conn[k].list_at = 0]
    [] q = "short" -> ctl_short(g, k, r)
    [] q \in {"log", "watch"} -> ctl_log(g, k, q = "watch")
    [] OTHER -> ctl_op(g, k, q, r)

\* read() with the connection in slot k; a request is two parts long, and one that is
\* too long fills the buffer with its first.
ctl_read(g, k, r) ==
  LET s == g.conn[k]
      c == s.who
      long == req[c] = "long"
      taken == [g EXCEPT !.inq[c] = 0, !.conn[k].in = @ + g.inq[c]]
  IN  CASE g.inq[c] = 0 -> IF Gone(c) THEN ctl_drop(g, k) ELSE g
        [] g.inq[c] > 0 /\ (s.done \/ s.listing # None \/ s.svc # None) ->
             [g EXCEPT !.inq[c] = 0]
        [] OTHER ->
             IF long THEN ctl_pump(Refuse([g EXCEPT !.inq[c] = @ - 1], k), k)
             ELSE IF taken.conn[k].in < 2 THEN taken
             ELSE ctl_pump([ctl_cmd(taken, k, r) EXCEPT !.conn[k].in = 0], k)

FreeFd(g) ==
  CHOOSE fd \in 1..CTL_MAX + 1 :
    /\ \A k \in 0..g.n - 1 : g.conn[k].fd # fd
    /\ \A m \in 1..fd - 1 : \E k \in 0..g.n - 1 : g.conn[k].fd = m

\* Mutant of ctl_accept(): what the slot held before is not cleared.
accept_one_stale(g, c) ==
  IF g.n = CTL_MAX
  THEN [g EXCEPT !.wire[c] = IF Gone(c) THEN @ ELSE Append(@, Line("err", 0)),
                 !.closed[c] = TRUE, !.verdict[c] = "err"]
  ELSE [g EXCEPT !.conn[g.n].fd = FreeFd(g), !.conn[g.n].who = c, !.n = @ + 1]

accept_one(g, c) ==
  IF g.n = CTL_MAX
  THEN [g EXCEPT !.wire[c] = IF Gone(c) THEN @ ELSE Append(@, Line("err", 0)),
                 !.closed[c] = TRUE, !.verdict[c] = "err"]
  ELSE [g EXCEPT !.conn[g.n] = Slot(FreeFd(g), c), !.n = @ + 1]

ctl_accept(g) ==
  LET A[m \in 0..Len(backlog)] == IF m = 0 THEN g ELSE accept_one(A[m - 1], backlog[m])
  IN  A[Len(backlog)]

-----------------------------------------------------------------------------
(* main() *)

\* ctl_tick(): an operation ends.
ctl_tick(i, r) ==
  /\ phase = "top" /\ ops[i] # None
  /\ Becomes(svc_op_done(g0, i, r))
  /\ UNCHANGED <<more, phase, results, backlog, clientVars>>

\* The connections with something to write, from the last slot to the first.
pump_all ==
  LET Wants(s) == Pending(s) \/ s.listing # None \/ s.done
      P[m \in 0..n_ctl] ==
        IF m = 0 THEN g0
        ELSE LET p == P[m - 1] k == n_ctl - m
             IN  IF Wants(p.conn[k]) THEN ctl_pump(p, k) ELSE p
  IN  /\ phase = "top"
      /\ phase' = "poll"
      /\ Becomes(P[n_ctl])
      /\ UNCHANGED <<more, results, backlog, clientVars>>

\* Mutant of the poll set: a connection is not waited for while its buffer is empty.
WaitsOut_pending(s) == Pending(s)

\* POLLOUT is asked for: a watcher that has caught up waits for new lines.
WaitsOut(s) == Pending(s) \/ s.listing = "status" \/ (s.listing = "log" /\ s.log_at < head)

\* What poll() says of the connection in slot k.
Events(k) ==
  LET s == conn[k] c == s.who IN
  (IF Gone(c) THEN {"hup"} ELSE {})
    \union (IF Gone(c) \/ inq[c] > 0 THEN {"in"} ELSE {})
    \union (IF WaitsOut(s) /\ (Gone(c) \/ Len(wire[c]) < SockMax) THEN {"out"} ELSE {})

Listen == [idx |-> -1, fd |-> 0, ev |-> {"in"}]

\* The results, in the order of pfds: the listening socket, then the slots.
Ready ==
  LET R[m \in 0..n_ctl] ==
        IF m = 0 THEN IF backlog = <<>> THEN <<>> ELSE <<Listen>>
        ELSE IF Events(m - 1) = {} THEN R[m - 1]
        ELSE Append(R[m - 1], [idx |-> m - 1, fd |-> conn[m - 1].fd, ev |-> Events(m - 1)])
  IN  R[n_ctl]

\* poll() returns: for the connections, or for anything else the loop waits for.
poll ==
  /\ phase = "poll"
  /\ phase' = "dispatch" /\ results' = Ready
  /\ UNCHANGED <<more, backlog, clientVars, serverVars>>

dispatch_listen ==
  /\ phase = "dispatch" /\ results # <<>> /\ Head(results) = Listen
  /\ results' = Tail(results)
  /\ Becomes(ctl_accept(g0)) /\ backlog' = <<>>
  /\ UNCHANGED <<more, phase, clientVars>>

\* A reply may have closed and reshuffled the slots.
IsThere(g, p) == p.idx < g.n /\ g.conn[p.idx].fd = p.fd

dispatch_conn(r) ==
  LET p == Head(results)
      a == IF p.ev \intersect {"out", "hup"} # {} THEN ctl_pump(g0, p.idx) ELSE g0
      b == IF IsThere(a, p) /\ p.ev \intersect {"in", "hup"} # {} THEN ctl_read(a, p.idx, r) ELSE a
  IN  /\ phase = "dispatch" /\ results # <<>> /\ p # Listen
      /\ results' = Tail(results)
      /\ Becomes(IF IsThere(g0, p) THEN b ELSE g0)
      /\ UNCHANGED <<more, phase, backlog, clientVars>>

end_round ==
  /\ phase = "dispatch" /\ results = <<>>
  /\ phase' = "top"
  /\ UNCHANGED <<more, results, backlog, clientVars, serverVars>>

\* ring_put(): a handler, of a connection or of anything else, logs a line.  What the
\* handlers before the poll log is as if it came at the end of the round before.
ring_put ==
  /\ phase \in {"dispatch", "down"} /\ more > 0
  /\ more' = more - 1
  /\ Becomes(ctl_feed([g0 EXCEPT !.head = @ + 1,
                                 !.tail = IF head + 1 - @ > RingLines THEN @ + 1 ELSE @]))
  /\ UNCHANGED <<phase, results, backlog, clientVars>>

\* A signal: shutdown_system() never returns to the loop.
shutdown_begins ==
  /\ phase = "poll"
  /\ phase' = "down"
  /\ UNCHANGED <<more, results, backlog, clientVars, serverVars>>

\* shutdown_system() closes the connections and the socket.
close_all ==
  /\ phase = "down"
  /\ phase' = "off"
  /\ closed' = [c \in Clients |-> closed[c] \/ client[c] # "idle"]
  /\ n_ctl' = 0 /\ backlog' = <<>>
  /\ UNCHANGED <<more, results, clientVars, conn, ops, inq, wire, verdict, head, tail>>

-----------------------------------------------------------------------------
(* cmd_ctl() *)

ctl_connect(c) ==
  /\ client[c] = "idle" /\ req[c] # None
  /\ IF phase = "off"
     THEN client' = [client EXCEPT ![c] = "fail"] /\ UNCHANGED <<left, backlog>>
     ELSE /\ client' = [client EXCEPT ![c] = "sending"]
          /\ left' = [left EXCEPT ![c] = 2]
          /\ backlog' = Append(backlog, c)
  /\ UNCHANGED <<more, phase, results, req, got, serverVars>>

\* write_all(), in one piece or in two.
send(c, m) ==
  /\ client[c] = "sending" /\ ~closed[c] /\ m \in 1..left[c]
  /\ c \in Parts \/ m = left[c]
  /\ inq' = [inq EXCEPT ![c] = @ + m]
  /\ left' = [left EXCEPT ![c] = @ - m]
  /\ client' = [client EXCEPT ![c] = IF m = left[c] THEN "reading" ELSE "sending"]
  /\ UNCHANGED <<more, phase, results, backlog, req, got,
                 conn, n_ctl, ops, wire, closed, verdict, head, tail>>

send_fails(c) ==
  /\ client[c] = "sending" /\ closed[c]
  /\ client' = [client EXCEPT ![c] = "fail"]
  /\ UNCHANGED <<more, phase, results, backlog, req, left, got, serverVars>>

recv(c) ==
  /\ client[c] = "reading" /\ wire[c] # <<>>
  /\ got' = [got EXCEPT ![c] = Append(@, Head(wire[c]))]
  /\ wire' = [wire EXCEPT ![c] = Tail(@)]
  /\ UNCHANGED <<more, phase, results, backlog, client, req, left,
                 conn, n_ctl, ops, inq, closed, verdict, head, tail>>

\* Mutant of cmd_ctl(): the end of the connection is taken for the end of the reply.
ExitStatus_eof(c) ==
  IF inq[c] > 0 \/ \E m \in DOMAIN got[c] : got[c][m].tag = "err" THEN "fail" ELSE "ok"

\* The value of cmd_ctl() at the end of the connection.  A request that ninit had not
\* read when it closed the connection makes the end a reset: read() fails.
ExitStatus(c) ==
  IF inq[c] = 0 /\ \E m \in DOMAIN got[c] : got[c][m].tag = "ok" THEN "ok" ELSE "fail"

recv_end(c) ==
  /\ client[c] = "reading" /\ wire[c] = <<>> /\ closed[c]
  /\ client' = [client EXCEPT ![c] = ExitStatus(c)]
  /\ UNCHANGED <<more, phase, results, backlog, req, left, got, serverVars>>

\* The client is interrupted: what it has not read is gone.
quit(c) ==
  /\ c \in Quits /\ client[c] \in {"sending", "reading"}
  /\ client' = [client EXCEPT ![c] = "gone"]
  /\ wire' = [wire EXCEPT ![c] = <<>>]
  /\ UNCHANGED <<more, phase, results, backlog, req, left, got,
                 conn, n_ctl, ops, inq, closed, verdict, head, tail>>

\* A client that has done its part: cmd_ctl() goes on by itself.
proceed(c) == (\E m \in 1..2 : send(c, m)) \/ send_fails(c) \/ recv(c) \/ recv_end(c)

dispatch == dispatch_listen \/ (\E r \in {"ok", "err", "later"} : dispatch_conn(r)) \/ end_round

Next ==
  \/ \E i \in Ops, r \in {"ok", "err"} : ctl_tick(i, r)
  \/ pump_all \/ poll \/ dispatch \/ ring_put \/ shutdown_begins \/ close_all
  \/ \E c \in Clients : proceed(c) \/ quit(c) \/ ctl_connect(c)

Spec == Init /\ [][Next]_vars

\* A step of the loop, told by where it takes the loop: pump_all, dispatch, close_all.
loop_on ==
  \/ phase = "top" /\ phase' = "poll" /\ results' = results
  \/ phase = "dispatch" /\ results # <<>> /\ results' = Tail(results) /\ phase' = phase
  \/ phase = "dispatch" /\ results = <<>> /\ phase' = "top" /\ results' = results
  \/ phase = "down" /\ phase' = "off" /\ results' = results

\* poll() returns once a descriptor is ready, and in time for the deadline of an operation.
poll_on ==
  /\ phase = "poll" /\ (Ready # <<>> \/ \E i \in Ops : ops[i] # None)
  /\ phase' = "dispatch"

\* An operation ends, for it has a deadline (Supervisor.tla, OpEnds).
op_on(i) == phase = "top" /\ ops[i] # None /\ ops' = [ops EXCEPT ![i] = None]

\* The loop goes on, and so does ninitctl.
FairSpec ==
  /\ Spec
  /\ WF_<<phase, results>>(loop_on) /\ WF_phase(poll_on)
  /\ \A i \in Ops : SF_ops(op_on(i))
  /\ \A c \in Clients : WF_vars(proceed(c))

-----------------------------------------------------------------------------
(* Properties. *)

\* The types of the variables; the slots in use have distinct descriptors.
TypeOK ==
  /\ phase \in {"top", "poll", "dispatch", "down", "off"}
  /\ n_ctl \in 0..CTL_MAX
  /\ \A k \in 0..n_ctl - 1 :
       /\ conn[k].who \in Clients /\ ~closed[conn[k].who]
       /\ conn[k].fd \in 1..CTL_MAX
       /\ Len(conn[k].out) <= CTL_OUT /\ conn[k].out_at \in 0..CTL_OUT
       /\ \A j \in 0..k - 1 : conn[j].fd # conn[k].fd /\ conn[j].who # conn[k].who
  /\ \A c \in Clients : Len(wire[c]) <= SockMax + 1 /\ inq[c] \in 0..2

Open(c) == {k \in 0..n_ctl - 1 : conn[k].who = c}

\* All that a client was or will be sent by now.
Reply(c) ==
  got[c] \o wire[c]
    \o (IF Open(c) = {} THEN <<>>
        ELSE LET s == conn[CHOOSE k \in Open(c) : TRUE] IN SubSeq(s.out, s.out_at + 1, Len(s.out)))

\* The line that a reader of the log expects after m lines of its reply.
Expects(r, m) ==
  LET E[j \in 0..m] == IF j = 0 THEN 0
                       ELSE IF r[j].tag = "data" THEN r[j].n + 1
                       ELSE IF r[j].tag = "skip" THEN E[j - 1] + r[j].n ELSE E[j - 1]
  IN  E[m]

\* Lines in order, none twice and none missing without a notice that says how many.
InOrder(r) ==
  \A m \in DOMAIN r :
    /\ r[m].tag = "data" /\ m > 1 => r[m].n = Expects(r, m - 1)
    /\ r[m].tag = "skip" => m > 1
    /\ r[m].tag = "ok" => m = Len(r)

StatusReply == [m \in 1..n_svc + 1 |-> IF m <= n_svc THEN Line("data", m - 1) ELSE Line("ok", 0)]

ShortReply(c) ==
  CASE verdict[c] = None -> <<>>
    [] verdict[c] = "ok" /\ req[c] = "short" -> <<Line("data", 0), Line("ok", 0)>>
    [] OTHER -> <<Line(verdict[c], 0)>>

IsPrefixOf(r, s) == Len(r) <= Len(s) /\ r = SubSeq(s, 1, Len(r))

\* However slots are dropped, moved and taken over between poll() and the dispatch, and
\* however writes are cut short: what a client is sent is the beginning of the reply to
\* its own request, each line once and the result last.
OwnReply ==
  \A c \in Clients : client[c] \in {"sending", "reading", "ok"} =>
    IF verdict[c] = None /\ req[c] = "status" THEN IsPrefixOf(Reply(c), StatusReply)
    ELSE IF verdict[c] = None /\ req[c] \in {"log", "watch"} THEN InOrder(Reply(c))
    ELSE IsPrefixOf(Reply(c), ShortReply(c))

\* ninitctl exits with success only after it has read a whole reply that ends in one.
SuccessIsComplete ==
  \A c \in Clients : client[c] = "ok" =>
    /\ req[c] \notin {"status", "log"} => verdict[c] = "ok" /\ got[c] = ShortReply(c)
    /\ req[c] = "status" => got[c] = StatusReply
    /\ req[c] = "log" => got[c] # <<>> /\ got[c][Len(got[c])] = Line("ok", 0) /\ InOrder(got[c])

\* A burst cannot outrun a watcher that reads: a line is overwritten before a watcher has
\* it only if its socket was full and it has not caught up since.
WatcherKeepsUp ==
  [][\A k \in 0..n_ctl - 1 :
       phase # "down" /\ conn[k].watch /\ tail' > tail /\ conn[k].log_at < tail' =>
         conn[k].full \/ Gone(conn[k].who)]_vars

Ended(c) == client[c] \in {"ok", "fail", "gone"}

\* Every request gets its answer and ninitctl does not hang, whether an operation ends
\* at once, later, or is refused, and however its slot is moved meanwhile.
Answered ==
  \A c \in Clients : client[c] = "reading" /\ req[c] \notin {"log", "watch"} ~> Ended(c)

\* Only a watcher waits for new lines: ninitctl log ends.  (It may not.)
LogEnds ==
  \A c \in Clients : client[c] = "reading" /\ req[c] = "log" ~> Ended(c)

\* A watcher that goes on reading has all of the log in the end, up to the newest line.
WatcherSees ==
  \A c \in Clients :
    <>[](client[c] = "reading" /\ req[c] = "watch" /\ Open(c) # {} /\ phase # "down" =>
           wire[c] = <<>> /\ Expects(got[c], Len(got[c])) = head)
=============================================================================
