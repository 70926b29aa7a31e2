---------------------------- MODULE ControlProofs ----------------------------
(***************************************************************************)
(* Proofs about Control.tla: for any number of clients, services and       *)
(* connections and any sizes of the buffers and of the ring, each client   *)
(* is sent the reply to its own request, ninitctl succeeds only with the   *)
(* whole of it, and a watcher that reads is not overtaken.                 *)
(*                                                                         *)
(* The handlers of control.c work on the record g of all that ninit keeps. *)
(* So there is one lemma for each of them, about any g that satisfies      *)
(* Base, and the invariant CInv says that g0 does.  What a client has      *)
(* read, what is in its socket and what is left in its buffer are one      *)
(* sequence, Given, and Progress says how far it has come: the functions   *)
(* only move lines along it or append to it.  Level, Ahead and Near say    *)
(* where a watcher is in the ring, before and after a line is logged.      *)
(***************************************************************************)
EXTENDS Control, FiniteSetTheorems, WellFoundedInduction, TLAPS

-----------------------------------------------------------------------------
(* Numbers and sequences *)

\* The least of a set of numbers.
LEMMA LeastOf ==
  ASSUME NEW T, T \subseteq Nat, T # {}
  PROVE  \E x \in T : \A y \in T : x <= y
  <1> DEFINE Below == {ss \in Nat \X Nat : ss[1] < ss[2]}
  <1>1. Below = OpToRel(<, Nat)
    BY Zenon DEF OpToRel
  <1>2. IsWellFoundedOn(Below, Nat)
    BY <1>1, NatLessThanWellFounded, Zenon
  <1>3. \A x, y \in Nat : y < x => <<y, x>> \in Below
    OBVIOUS
  <1> HIDE DEF Below
  <1>4. PICK x \in T : \A y \in T : ~(<<y, x>> \in Below)
    BY <1>2, WFMin
  <1>5. \A y \in T : x \in Nat /\ y \in Nat /\ ~(y < x)
    BY <1>3, <1>4
  <1> QED  BY <1>5

LEMMA AppendIs ==
  ASSUME NEW S, NEW s \in Seq(S), NEW x \in S
  PROVE  /\ Append(s, x) \in Seq(S) /\ Len(s) \in Nat
         /\ Len(Append(s, x)) = Len(s) + 1 /\ Append(s, x)[Len(s) + 1] = x
         /\ \A i \in 1..Len(s) : Append(s, x)[i] = s[i]
  OBVIOUS

LEMMA ConcatIs ==
  ASSUME NEW S, NEW s \in Seq(S), NEW t \in Seq(S)
  PROVE  /\ s \o t \in Seq(S) /\ Len(s) \in Nat /\ Len(t) \in Nat
         /\ Len(s \o t) = Len(s) + Len(t)
         /\ \A i \in 1..Len(s) : (s \o t)[i] = s[i]
         /\ \A i \in 1..Len(t) : (s \o t)[Len(s) + i] = t[i]
  OBVIOUS

LEMMA SubSeqIs ==
  ASSUME NEW S, NEW s \in Seq(S), NEW a \in Nat, NEW b \in Nat, a <= b, b <= Len(s)
  PROVE  /\ SubSeq(s, a + 1, b) \in Seq(S) /\ Len(SubSeq(s, a + 1, b)) = b - a
         /\ \A i \in 1..b - a : SubSeq(s, a + 1, b)[i] = s[a + i]
  <1>1. CASE a = b
    BY <1>1
  <1>2. CASE a < b
    BY <1>2
  <1> QED  BY <1>1, <1>2

LEMMA SeqSame ==
  ASSUME NEW S, NEW s \in Seq(S), NEW t \in Seq(S), Len(s) = Len(t), \A i \in 1..Len(s) : s[i] = t[i]
  PROVE  s = t
  OBVIOUS

\* What is appended to a buffer is appended to what is left of it.
LEMMA SubAppend ==
  ASSUME NEW S, NEW s \in Seq(S), NEW a \in Nat, a <= Len(s), NEW x \in S
  PROVE  SubSeq(Append(s, x), a + 1, Len(Append(s, x))) = Append(SubSeq(s, a + 1, Len(s)), x)
  <1> DEFINE n == Len(s)
             p == Append(s, x)
             q == SubSeq(s, a + 1, n)
             l == SubSeq(p, a + 1, n + 1)
  <1>1. p \in Seq(S) /\ n \in Nat /\ Len(p) = n + 1 /\ p[n + 1] = x /\ \A i \in 1..n : p[i] = s[i]
    BY AppendIs
  <1>2. q \in Seq(S) /\ Len(q) = n - a /\ \A i \in 1..n - a : q[i] = s[a + i]
    BY <1>1, SubSeqIs
  <1>3. a <= n + 1 /\ n + 1 \in Nat /\ n + 1 <= Len(p)
    BY <1>1
  <1> HIDE DEF p
  <1>4. l \in Seq(S) /\ Len(l) = n + 1 - a /\ \A i \in 1..n + 1 - a : l[i] = p[a + i]
    BY <1>1, <1>3, SubSeqIs
  <1> HIDE DEF q, l
  <1>5. /\ Append(q, x) \in Seq(S) /\ Len(Append(q, x)) = n - a + 1 /\ Append(q, x)[n - a + 1] = x
        /\ \A i \in 1..n - a : Append(q, x)[i] = q[i]
    BY <1>2, AppendIs
  <1> HIDE DEF n
  <1>6. ASSUME NEW i \in 1..Len(l) PROVE l[i] = Append(q, x)[i]
    <2>1. CASE i = n - a + 1
      <3>1. a + i = n + 1 /\ i \in 1..n + 1 - a
        BY <2>1, <1>1, <1>3
      <3> QED  BY <2>1, <3>1, <1>1, <1>4, <1>5
    <2>2. CASE i # n - a + 1
      <3>1. i \in 1..n - a /\ a + i \in 1..n /\ i \in 1..n + 1 - a
        BY <2>2, <1>1, <1>3, <1>4
      <3> QED  BY <3>1, <1>1, <1>2, <1>4, <1>5
    <2> QED  BY <2>1, <2>2
  <1>7. Len(l) = Len(Append(q, x))
    BY <1>1, <1>4, <1>5
  <1>8. l = Append(q, x)
    BY <1>4, <1>5, <1>6, <1>7, SeqSame
  <1> QED  BY <1>1, <1>8 DEF l, p, q, n

LEMMA ConcatAppend ==
  ASSUME NEW S, NEW s \in Seq(S), NEW t \in Seq(S), NEW x \in S
  PROVE  s \o Append(t, x) = Append(s \o t, x)
  OBVIOUS

LEMMA ConcatEmpty == ASSUME NEW S, NEW s \in Seq(S) PROVE s \o <<>> = s /\ <<>> \o s = s
  OBVIOUS

LEMMA ConcatThree ==
  ASSUME NEW S, NEW s \in Seq(S), NEW t \in Seq(S), NEW q \in Seq(S)
  PROVE  (s \o t) \o q = s \o (t \o q)
  OBVIOUS

\* What is written of a buffer and what is left of it.
LEMMA SubSplit ==
  ASSUME NEW S, NEW s \in Seq(S), NEW a \in Nat, NEW m \in Nat, a <= m, m <= Len(s)
  PROVE  SubSeq(s, a + 1, m) \o SubSeq(s, m + 1, Len(s)) = SubSeq(s, a + 1, Len(s))
  <1> DEFINE n == Len(s)
             p == SubSeq(s, a + 1, m)
             q == SubSeq(s, m + 1, n)
             l == SubSeq(s, a + 1, n)
  <1>0. n \in Nat /\ a <= n /\ m <= n
    OBVIOUS
  <1>1. p \in Seq(S) /\ Len(p) = m - a /\ \A i \in 1..m - a : p[i] = s[a + i]
    BY SubSeqIs
  <1>2. q \in Seq(S) /\ Len(q) = n - m /\ \A i \in 1..n - m : q[i] = s[m + i]
    BY <1>0, SubSeqIs
  <1>3. l \in Seq(S) /\ Len(l) = n - a /\ \A i \in 1..n - a : l[i] = s[a + i]
    BY <1>0, SubSeqIs
  <1> HIDE DEF p, q, l
  <1> HIDE DEF n
  <1>40. p \in Seq(S) /\ q \in Seq(S)
    BY <1>1, <1>2
  <1>4. /\ p \o q \in Seq(S) /\ Len(p \o q) = Len(p) + Len(q)
        /\ \A i \in 1..Len(p) : (p \o q)[i] = p[i]
        /\ \A i \in 1..Len(q) : (p \o q)[Len(p) + i] = q[i]
    BY <1>40, ConcatIs
  <1>5. Len(p \o q) = Len(l)
    BY <1>0, <1>1, <1>2, <1>3, <1>4
  <1>6. ASSUME NEW i \in 1..Len(l) PROVE l[i] = (p \o q)[i]
    <2>1. CASE i <= m - a
      <3>1. i \in 1..m - a /\ i \in 1..n - a
        BY <2>1, <1>0, <1>3
      <3> QED  BY <3>1, <1>1, <1>3, <1>4
    <2>2. CASE ~(i <= m - a)
      <3> DEFINE j == i - (m - a)
      <3>1. j \in 1..n - m /\ i = (m - a) + j /\ m + j = a + i /\ i \in 1..n - a
        BY <2>2, <1>0, <1>3
      <3> HIDE DEF j
      <3>2. j \in 1..Len(q) /\ Len(p) = m - a
        BY <3>1, <1>1, <1>2, <1>3
      <3>3. (p \o q)[Len(p) + j] = q[j] /\ q[j] = s[m + j] /\ l[i] = s[a + i]
        BY <3>1, <3>2, <1>1, <1>2, <1>3, <1>4
      <3> QED  BY <3>1, <3>2, <3>3
    <2> QED  BY <2>1, <2>2
  <1>7. p \o q = l
    BY <1>3, <1>4, <1>5, <1>6, SeqSame
  <1> QED  BY <1>7 DEF p, q, l, n

\* Induction up to n.
LEMMA UpTo ==
  ASSUME NEW n \in Nat, NEW T, 0 \in T, \A m \in 1..n : m - 1 \in T => m \in T
  PROVE  \A m \in 0..n : m \in T
  <1> DEFINE F == {m \in 0..n : m \notin T}
  <1> SUFFICES ASSUME F # {} PROVE FALSE
    OBVIOUS
  <1>1. PICK m \in F : \A y \in F : m <= y
    <2>1. F \subseteq Nat
      OBVIOUS
    <2> QED  BY <2>1, LeastOf
  <1>2. m \in 1..n /\ m \notin T
    BY <1>1
  <1>3. m - 1 \in 0..n /\ m - 1 \notin F
    BY <1>1, <1>2
  <1> QED  BY <1>2, <1>3

-----------------------------------------------------------------------------
(* The order of a reply *)

\* A recursive function of the places of r.
IsE(E, r, n) ==
  E = [j \in 0..n |-> IF j = 0 THEN 0
                      ELSE IF r[j].tag = "data" THEN r[j].n + 1
                      ELSE IF r[j].tag = "skip" THEN E[j - 1] + r[j].n ELSE E[j - 1]]

Next1(x, e) == IF x.tag = "data" THEN x.n + 1 ELSE IF x.tag = "skip" THEN e + x.n ELSE e

LEMMA EAt ==
  ASSUME NEW r, NEW n, NEW E, IsE(E, r, n)
  PROVE  \A j \in 0..n : E[j] = IF j = 0 THEN 0 ELSE Next1(r[j], E[j - 1])
  <1> TAKE j \in 0..n
  <1>1. E[j] = IF j = 0 THEN 0
               ELSE IF r[j].tag = "data" THEN r[j].n + 1
               ELSE IF r[j].tag = "skip" THEN E[j - 1] + r[j].n ELSE E[j - 1]
    BY Zenon DEF IsE
  <1> QED  BY <1>1 DEF Next1

LEMMA EExists ==
  ASSUME NEW r, NEW n \in Nat PROVE \E E : IsE(E, r, n)
  <1> DEFINE T == {m \in 0..n : \E E : IsE(E, r, m)}
  <1>1. 0 \in T
    <2>1. IsE([j \in 0..0 |-> 0], r, 0)
      BY DEF IsE
    <2> QED  BY <2>1
  <1>2. ASSUME NEW m \in 1..n, m - 1 \in T PROVE m \in T
    <2>1. PICK E : IsE(E, r, m - 1)
      BY <1>2
    <2> DEFINE B == [j \in 0..m |-> IF j = m THEN Next1(r[m], E[m - 1]) ELSE E[j]]
    <2>0. m - 1 \in Nat
      OBVIOUS
    <2>2. \A j \in 0..m - 1 : E[j] = IF j = 0 THEN 0 ELSE Next1(r[j], E[j - 1])
      BY <2>1, EAt
    <2>3. \A j \in 0..m : B[j] = IF j = 0 THEN 0 ELSE Next1(r[j], B[j - 1])
      BY <2>2
    <2>4. IsE(B, r, m)
      <3>1. B = [j \in 0..m |-> IF j = 0 THEN 0 ELSE Next1(r[j], B[j - 1])]
        BY <2>3
      <3> HIDE DEF B
      <3> QED  BY <3>1 DEF IsE, Next1
    <2> QED  BY <2>4
  <1> HIDE DEF T
  <1>3. n \in T
    BY <1>1, <1>2, UpTo
  <1> QED  BY <1>3 DEF T

LEMMA ExpectsIs ==
  ASSUME NEW r, NEW n \in Nat PROVE \E E : IsE(E, r, n) /\ Expects(r, n) = E[n]
  <1> DEFINE E == CHOOSE E : IsE(E, r, n)
  <1>1. IsE(E, r, n)
    BY EExists, Zenon
  <1>2. Expects(r, n) = E[n]
    BY Zenon DEF Expects, IsE
  <1> QED  BY <1>1, <1>2

LEMMA ESame ==
  ASSUME NEW r, NEW s, NEW m \in Nat, NEW n \in Nat, m <= n, \A j \in 1..m : r[j] = s[j],
         NEW A, IsE(A, r, m), NEW B, IsE(B, s, n)
  PROVE  A[m] = B[m]
  <1> DEFINE T == {j \in 0..m : A[j] = B[j]}
  <1>a. /\ \A j \in 0..m : A[j] = IF j = 0 THEN 0 ELSE Next1(r[j], A[j - 1])
        /\ \A j \in 0..n : B[j] = IF j = 0 THEN 0 ELSE Next1(s[j], B[j - 1])
    BY EAt
  <1>1. 0 \in T
    <2>1. 0 \in 0..m /\ 0 \in 0..n
      OBVIOUS
    <2> QED  BY <2>1, <1>a
  <1>2. ASSUME NEW j \in 1..m, j - 1 \in T PROVE j \in T
    <2>0. j \in 0..m /\ j \in 0..n /\ j # 0
      OBVIOUS
    <2> QED  BY <1>2, <2>0, <1>a
  <1> HIDE DEF T
  <1>3. m \in T
    BY <1>1, <1>2, UpTo
  <1> QED  BY <1>3 DEF T

LEMMA ExpectsSame ==
  ASSUME NEW r, NEW s, NEW m \in Nat, \A j \in 1..m : r[j] = s[j]
  PROVE  Expects(r, m) = Expects(s, m)
  BY ExpectsIs, ESame

LEMMA ExpectsNext ==
  ASSUME NEW r, NEW m \in Nat \ {0}
  PROVE  Expects(r, m) = Next1(r[m], Expects(r, m - 1))
  <1>1. PICK A : IsE(A, r, m - 1) /\ Expects(r, m - 1) = A[m - 1]
    BY ExpectsIs
  <1>2. PICK B : IsE(B, r, m) /\ Expects(r, m) = B[m]
    BY ExpectsIs
  <1>3. B[m] = Next1(r[m], B[m - 1])
    BY <1>2, EAt
  <1>4. A[m - 1] = B[m - 1]
    <2> DEFINE l == m - 1
    <2>1. l \in Nat /\ m \in Nat /\ l <= m
      OBVIOUS
    <2>2. IsE(A, r, l) /\ IsE(B, r, m)
      BY <1>1, <1>2
    <2> HIDE DEF l
    <2>3. PICK s : s = r
      OBVIOUS
    <2>4. IsE(B, s, m) /\ \A j \in 1..l : r[j] = s[j]
      BY <2>2, <2>3
    <2>5. A[l] = B[l]
      BY <2>1, <2>2, <2>4, ESame
    <2> QED  BY <2>5 DEF l
  <1> QED  BY <1>1, <1>2, <1>3, <1>4

(* What a connection, ninit and the clients are *)

ALine == [tag : {"data", "skip"}, n : Int] \union {Line("ok", 0), Line("err", 0)}

ASlot ==
  [fd : Nat, who : Clients \union {None}, svc : Ops \union {None},
   listing : {None, "log", "status"}, list_at : Nat, log_at : Int, watch : BOOLEAN,
   done : BOOLEAN, in : Nat, out : Seq(ALine), out_at : Nat, full : BOOLEAN]

AServer ==
  [conn : [Slots -> ASlot], n : 0..CTL_MAX, ops : [Ops -> Clients \union {None}],
   inq : [Clients -> Nat], wire : [Clients -> Seq(ALine)], closed : [Clients -> BOOLEAN],
   verdict : [Clients -> {None, "ok", "err"}], head : Int, tail : Int]

\* What the proofs need of the clients.
AClients ==
  [client : [Clients -> {"idle", "sending", "reading", "ok", "fail", "gone"}],
   got : [Clients -> Seq(ALine)], req : [Clients -> Requests \union {None}]]

u0 == [client |-> client, got |-> got, req |-> req]

Away(u, c) == u.client[c] = "gone"

-----------------------------------------------------------------------------
(* The inductive invariant: u is what the clients are, g what ninit is. *)

Used(g) == 0..g.n - 1

OpenIn(g, c) == \E k \in Used(g) : g.conn[k].who = c

\* What is left in the buffer.
Rest(s) == SubSeq(s.out, s.out_at + 1, Len(s.out))

\* What a client has read or can read, and what the connection s has for it in all.
Sent(u, g, c) == u.got[c] \o g.wire[c]
Given(u, g, s) == Sent(u, g, s.who) \o Rest(s)

NoEnd(r) == \A m \in 1..Len(r) : r[m].tag \in {"data", "skip"}

\* The part of a reply that a reader of the log has: at is where it goes on.
Reading(r, at) == InOrder(r) /\ NoEnd(r) /\ (r # <<>> => Expects(r, Len(r)) = at)

\* The reply of one line or two to the request q, when it ended in v.
ShortIs(q, v) ==
  CASE v = None -> <<>>
    [] v = "ok" /\ q = "short" -> <<Line("data", 0), Line("ok", 0)>>
    [] OTHER -> <<Line(v, 0)>>

\* r is the whole reply to q.
Whole(q, v, r) ==
  IF v # None THEN r = ShortIs(q, v)
  ELSE \/ q = "status" /\ r = StatusReply
       \/ q = "log" /\ InOrder(r) /\ r # <<>>

\* r is the beginning of the reply to q.
Partial(q, v, r) ==
  IF v = None /\ q = "status" THEN IsPrefixOf(r, StatusReply)
  ELSE IF v = None /\ q \in {"log", "watch"} THEN InOrder(r) /\ (q = "watch" => NoEnd(r))
  ELSE IsPrefixOf(r, ShortIs(q, v))

\* How far the connection s has come with the reply r to q.
Progress(q, s, v, r) ==
  \/ s.done /\ Whole(q, v, r)
  \/ /\ ~s.done /\ s.listing = "status" /\ q = "status" /\ v = None
     /\ s.list_at <= n_svc /\ r = SubSeq(StatusReply, 1, s.list_at)
  \/ /\ ~s.done /\ s.listing = "log" /\ q \in {"log", "watch"} /\ v = None
     /\ (s.watch <=> q = "watch") /\ Reading(r, s.log_at)
  \/ ~s.done /\ s.listing = None /\ (s.svc # None => q = s.svc) /\ v = None /\ r = <<>> /\ s.out = <<>>

\* A connection, whether its client is there or not.
Shape(s) ==
  /\ s.out_at <= Len(s.out) /\ Len(s.out) <= CTL_OUT
  /\ s.out # <<>> => s.out_at < Len(s.out)
  /\ s.done => s.listing = None /\ s.svc = None
  /\ s.svc # None => s.listing = None
  /\ s.watch => s.listing = "log"

\* The connection s, of a client that asked for q, with the reply r; gone: the client is.
SlotOK(s, q, gone, v, r) == Shape(s) /\ (~gone => Progress(q, s, v, r) /\ (s.full => r # <<>>))

ConnOK(u, g, k) ==
  LET s == g.conn[k] c == s.who IN
  /\ c \in Clients /\ ~g.closed[c] /\ u.req[c] \in Requests /\ s.fd \in 1..CTL_MAX
  /\ s.svc # None => g.ops[s.svc] = c
  /\ SlotOK(s, u.req[c], Away(u, c), g.verdict[c], Given(u, g, s))

ClientOK(u, g, c) ==
  /\ Len(g.wire[c]) <= SockMax
  /\ ~OpenIn(g, c) /\ ~Away(u, c) => Partial(u.req[c], g.verdict[c], Sent(u, g, c))
  /\ g.verdict[c] = "ok" => u.req[c] \in Ops \union {"short"}
  /\ u.client[c] = "ok" => /\ g.closed[c] /\ g.wire[c] = <<>>
                           /\ \E m \in 1..Len(u.got[c]) : u.got[c][m].tag = "ok"

\* An operation under way has its connection, as long as the client is there.
OpsOK(u, g) ==
  \A i \in Ops : g.ops[i] # None =>
    /\ u.req[g.ops[i]] = i
    /\ ~Away(u, g.ops[i]) => \E k \in Used(g) : g.conn[k].who = g.ops[i] /\ g.conn[k].svc = i

Distinct(g) ==
  \A j, k \in Used(g) : j # k => g.conn[j].who # g.conn[k].who /\ g.conn[j].fd # g.conn[k].fd

Good(u, g) ==
  /\ u \in AClients /\ g \in AServer
  /\ g.tail <= g.head /\ g.head - g.tail <= RingLines
  /\ Distinct(g)
  /\ \A k \in Used(g) : ConnOK(u, g, k)
  /\ \A c \in Clients : ClientOK(u, g, c)

\* A reader of the log that has nothing yet, or a watcher whose socket was not full, has
\* not been overtaken.  t: the ring's tail.
Level(s, t, r) ==
  /\ s.listing = "log" /\ r = <<>> => t <= s.log_at
  /\ s.watch /\ ~s.full => s.out = <<>> /\ t <= s.log_at

\* And one line more does not overtake it.
Ahead(s, h, t, r) ==
  /\ s.listing = "log" /\ r = <<>> => s.watch
  /\ s.watch /\ ~s.full => /\ s.out = <<>> /\ t <= s.log_at
                           /\ t < s.log_at \/ 2 * (h - s.log_at) < RingLines

LevelAt(u, g, k) ==
  ~Away(u, g.conn[k].who) => Level(g.conn[k], g.tail, Given(u, g, g.conn[k]))
AheadAt(u, g, k) ==
  ~Away(u, g.conn[k].who) => Ahead(g.conn[k], g.head, g.tail, Given(u, g, g.conn[k]))

\* The client c has not been accepted.
Fresh(u, g, c) ==
  /\ g.wire[c] = <<>> /\ u.got[c] = <<>> /\ g.verdict[c] = None /\ ~g.closed[c]
  /\ ~OpenIn(g, c) /\ \A i \in Ops : g.ops[i] # c

AResult == {Listen} \union [idx : Nat, fd : Nat, ev : SUBSET {"hup", "in", "out"}]

Serves(ph) == ph \in {"top", "poll", "dispatch"}

Waiting(u, g, q) ==
  /\ q \in Seq(Clients)
  /\ \A k \in 1..Len(q) : Fresh(u, g, q[k]) /\ u.client[q[k]] # "idle"
  /\ \A j, k \in 1..Len(q) : j # k => q[j] # q[k]

Halves(u, g, l) ==
  \A c \in Clients : /\ l[c] \in 0..2 /\ l[c] + g.inq[c] <= 2
                     /\ u.client[c] = "idle" => g.inq[c] = 0 /\ Fresh(u, g, c)
                     /\ u.client[c] # "idle" => u.req[c] # None

CInv ==
  /\ phase \in {"top", "poll", "dispatch", "down", "off"}
  /\ left \in [Clients -> Nat] /\ more \in Nat /\ results \in Seq(AResult)
  /\ Good(u0, g0)
  /\ phase # "off" => OpsOK(u0, g0)
  /\ Serves(phase) => \A k \in Used(g0) : AheadAt(u0, g0, k)
  /\ Waiting(u0, g0, backlog)
  /\ Halves(u0, g0, left)
-----------------------------------------------------------------------------
(* Replies *)

LEMMA Consts ==
  /\ CTL_MAX \in Nat \ {0} /\ CTL_WATCH \in Nat /\ CTL_OUT \in Nat /\ CTL_OUT >= 2
  /\ SockMax \in Nat \ {0} /\ RingLines \in Nat \ {0} /\ n_svc \in Nat
  /\ None \notin Clients \union Ops
  /\ Ops \intersect {"status", "short", "log", "watch", "long"} = {}
  BY ControlAssumption DEF ControlConstants

LEMMA LineIs ==
  /\ Line("ok", 0) \in ALine /\ Line("err", 0) \in ALine
  /\ \A n \in Int : Line("data", n) \in ALine /\ Line("skip", n) \in ALine
  /\ \A t, n : Line(t, n).tag = t /\ Line(t, n).n = n
  /\ \A x \in ALine : /\ x.tag \in {"data", "skip", "ok", "err"} /\ x.n \in Int
                      /\ x.tag = "ok" => x = Line("ok", 0)
  BY DEF Line, ALine

LEMMA NoneInOrder == InOrder(<<>>) /\ NoEnd(<<>>)
  BY DEF InOrder, NoEnd

LEMMA OrderAt ==
  ASSUME NEW r \in Seq(ALine)
  PROVE  InOrder(r) <=> \A m \in 1..Len(r) :
                          /\ r[m].tag = "data" /\ m > 1 => r[m].n = Expects(r, m - 1)
                          /\ r[m].tag = "skip" => m > 1
                          /\ r[m].tag = "ok" => m = Len(r)
  <1>1. DOMAIN r = 1..Len(r)
    OBVIOUS
  <1> QED  BY <1>1 DEF InOrder

LEMMA ExpectsPrefix ==
  ASSUME NEW r \in Seq(ALine), NEW s \in Seq(ALine), Len(r) <= Len(s),
         \A i \in 1..Len(r) : r[i] = s[i]
  PROVE  \A m \in 0..Len(r) : Expects(r, m) = Expects(s, m)
  <1> TAKE m \in 0..Len(r)
  <1>1. m \in Nat /\ \A j \in 1..m : r[j] = s[j]
    OBVIOUS
  <1> QED  BY <1>1, ExpectsSame

\* One line more.
LEMMA OrderMore ==
  ASSUME NEW r \in Seq(ALine), InOrder(r), NoEnd(r), NEW x \in ALine,
         x.tag = "data" /\ r # <<>> => x.n = Expects(r, Len(r)),
         x.tag = "skip" => r # <<>>
  PROVE  InOrder(Append(r, x))
  <1> DEFINE l == Append(r, x)
             n == Len(r)
  <1>1. /\ l \in Seq(ALine) /\ n \in Nat /\ Len(l) = n + 1 /\ l[n + 1] = x
        /\ \A i \in 1..n : l[i] = r[i]
    BY AppendIs
  <1>2. r # <<>> <=> n > 0
    OBVIOUS
  <1> HIDE DEF l
  <1>3. \A m \in 0..n : Expects(r, m) = Expects(l, m)
    <2>1. n <= Len(l)
      BY <1>1
    <2> QED  BY <1>1, <2>1, ExpectsPrefix
  <1>4. \A m \in 1..n : /\ r[m].tag = "data" /\ m > 1 => r[m].n = Expects(r, m - 1)
                        /\ r[m].tag = "skip" => m > 1
                        /\ r[m].tag \in {"data", "skip"}
    BY OrderAt DEF NoEnd
  <1> HIDE DEF n
  <1>5. ASSUME NEW m \in 1..n + 1
        PROVE  /\ l[m].tag = "data" /\ m > 1 => l[m].n = Expects(l, m - 1)
               /\ l[m].tag = "skip" => m > 1
               /\ l[m].tag = "ok" => m = n + 1
    <2>1. CASE m = n + 1
      <3>1. n \in 0..n /\ m - 1 = n /\ (m > 1 <=> n > 0)
        BY <2>1, <1>1
      <3> QED  BY <2>1, <3>1, <1>1, <1>2, <1>3 DEF n
    <2>2. CASE m # n + 1
      <3>1. m \in 1..n /\ m - 1 \in 0..n
        BY <2>2, <1>1
      <3> QED  BY <3>1, <1>1, <1>3, <1>4
    <2> QED  BY <2>1, <2>2
  <1>6. InOrder(l)
    BY <1>1, <1>5, OrderAt
  <1> QED  BY <1>6 DEF l

LEMMA NoEndMore ==
  ASSUME NEW r \in Seq(ALine), NoEnd(r), NEW x \in ALine, x.tag \in {"data", "skip"}
  PROVE  NoEnd(Append(r, x))
  <1> DEFINE l == Append(r, x)
             n == Len(r)
  <1>1. /\ l \in Seq(ALine) /\ n \in Nat /\ Len(l) = n + 1 /\ l[n + 1] = x
        /\ \A i \in 1..n : l[i] = r[i]
    BY AppendIs
  <1> HIDE DEF l
  <1>2. ASSUME NEW m \in 1..n + 1 PROVE l[m].tag \in {"data", "skip"}
    <2>1. m = n + 1 \/ m \in 1..n
      BY <1>1
    <2> QED  BY <1>1, <2>1 DEF NoEnd
  <1>3. NoEnd(l)
    BY <1>1, <1>2 DEF NoEnd
  <1> QED  BY <1>3 DEF l

LEMMA ExpectsMore ==
  ASSUME NEW r \in Seq(ALine), NEW x \in ALine
  PROVE  Expects(Append(r, x), Len(Append(r, x))) = Next1(x, Expects(r, Len(r)))
  <1> DEFINE l == Append(r, x)
             n == Len(r)
  <1>1. /\ l \in Seq(ALine) /\ n \in Nat /\ Len(l) = n + 1 /\ l[n + 1] = x
        /\ \A i \in 1..n : l[i] = r[i]
    BY AppendIs
  <1> HIDE DEF l
  <1>2. Expects(r, n) = Expects(l, n)
    BY <1>1, ExpectsSame
  <1> HIDE DEF n
  <1>3. n + 1 \in Nat \ {0} /\ n + 1 - 1 = n
    BY <1>1
  <1>4. PICK m \in Nat \ {0} : m = n + 1 /\ m - 1 = n
    BY <1>1, <1>3
  <1>5. Expects(l, m) = Next1(l[m], Expects(l, m - 1))
    BY ExpectsNext
  <1> QED  BY <1>1, <1>2, <1>4, <1>5 DEF l, n

\* The reader goes on with the line that it expects, or is told of the lines up to t.
LEMMA ReadingMore ==
  ASSUME NEW r \in Seq(ALine), NEW at \in Int, NEW t \in Int, Reading(r, at)
  PROVE  /\ Reading(Append(r, Line("data", at)), at + 1)
         /\ r # <<>> => Reading(Append(r, Line("skip", t - at)), t)
         /\ InOrder(Append(r, Line("ok", 0)))
  <1> DEFINE d == Line("data", at)
             k == Line("skip", t - at)
             o == Line("ok", 0)
  <1>1. /\ d \in ALine /\ k \in ALine /\ o \in ALine /\ d.tag = "data" /\ k.tag = "skip"
        /\ o.tag = "ok" /\ d.n = at /\ k.n = t - at
    BY LineIs
  <1>2. InOrder(r) /\ NoEnd(r) /\ (r # <<>> => Expects(r, Len(r)) = at)
    BY DEF Reading
  <1> HIDE DEF d, k, o
  <1>3. InOrder(Append(r, o))
    BY <1>1, <1>2, OrderMore
  <1>4. InOrder(Append(r, d)) /\ NoEnd(Append(r, d))
    BY <1>1, <1>2, OrderMore, NoEndMore
  <1>5. Expects(Append(r, d), Len(Append(r, d))) = at + 1
    BY <1>1, ExpectsMore DEF Next1
  <1>6. ASSUME r # <<>> PROVE InOrder(Append(r, k)) /\ NoEnd(Append(r, k))
    BY <1>1, <1>2, <1>6, OrderMore, NoEndMore
  <1>7. ASSUME r # <<>> PROVE Expects(Append(r, k), Len(Append(r, k))) = t
    <2>1. Expects(Append(r, k), Len(Append(r, k))) = at + (t - at)
      BY <1>1, <1>2, <1>7, ExpectsMore DEF Next1
    <2> QED  BY <2>1
  <1> QED  BY <1>3, <1>4, <1>5, <1>6, <1>7 DEF Reading, d, k, o

\* The beginning of a reply in order.
LEMMA OrderLess ==
  ASSUME NEW r \in Seq(ALine), NEW q \in Seq(ALine), InOrder(r \o q)
  PROVE  InOrder(r)
  <1> DEFINE l == r \o q
             n == Len(r)
  <1>1. /\ l \in Seq(ALine) /\ n \in Nat /\ Len(q) \in Nat /\ Len(l) = n + Len(q)
        /\ \A i \in 1..n : l[i] = r[i]
    BY ConcatIs
  <1> HIDE DEF l
  <1>2. \A m \in 0..n : Expects(r, m) = Expects(l, m)
    <2>1. n <= Len(l)
      BY <1>1
    <2> QED  BY <1>1, <2>1, ExpectsPrefix
  <1>3. InOrder(l)
    BY DEF l
  <1>4. \A m \in 1..Len(l) : /\ l[m].tag = "data" /\ m > 1 => l[m].n = Expects(l, m - 1)
                             /\ l[m].tag = "skip" => m > 1
                             /\ l[m].tag = "ok" => m = Len(l)
    BY <1>1, <1>3, OrderAt
  <1> HIDE DEF n
  <1>5. ASSUME NEW m \in 1..n
        PROVE  /\ r[m].tag = "data" /\ m > 1 => r[m].n = Expects(r, m - 1)
               /\ r[m].tag = "skip" => m > 1
               /\ r[m].tag = "ok" => m = n
    <2>1. m \in 1..Len(l) /\ m - 1 \in 0..n /\ (m = Len(l) => m = n)
      BY <1>1
    <2> QED  BY <2>1, <1>1, <1>2, <1>4
  <1> QED  BY <1>5, OrderAt DEF n

LEMMA NoEndLess ==
  ASSUME NEW r \in Seq(ALine), NEW q \in Seq(ALine), NoEnd(r \o q) PROVE NoEnd(r)
  <1>1. \A i \in 1..Len(r) : i \in 1..Len(r \o q) /\ (r \o q)[i] = r[i]
    BY ConcatIs
  <1> QED  BY <1>1 DEF NoEnd

LEMMA PrefixAt ==
  ASSUME NEW S, NEW r \in Seq(S), NEW s \in Seq(S)
  PROVE  IsPrefixOf(r, s) <=> Len(r) <= Len(s) /\ \A i \in 1..Len(r) : r[i] = s[i]
  <1>0. Len(r) \in Nat /\ Len(s) \in Nat
    OBVIOUS
  <1>1. ASSUME Len(r) <= Len(s)
        PROVE  (r = SubSeq(s, 1, Len(r))) <=> \A i \in 1..Len(r) : r[i] = s[i]
    <2> DEFINE l == SubSeq(s, 0 + 1, Len(r))
    <2>1. l \in Seq(S) /\ Len(l) = Len(r) /\ \A i \in 1..Len(r) : l[i] = s[i]
      BY <1>0, <1>1, SubSeqIs
    <2>2. l = SubSeq(s, 1, Len(r))
      OBVIOUS
    <2> HIDE DEF l
    <2>3. ASSUME \A i \in 1..Len(r) : r[i] = s[i] PROVE r = l
      BY <2>1, <2>3, SeqSame
    <2> QED  BY <2>1, <2>2, <2>3
  <1> QED  BY <1>1 DEF IsPrefixOf

LEMMA PrefixLess ==
  ASSUME NEW S, NEW r \in Seq(S), NEW q \in Seq(S), NEW s \in Seq(S), IsPrefixOf(r \o q, s)
  PROVE  IsPrefixOf(r, s)
  <1> DEFINE l == r \o q
  <1>1. /\ l \in Seq(S) /\ Len(r) \in Nat /\ Len(q) \in Nat /\ Len(s) \in Nat
        /\ Len(l) = Len(r) + Len(q) /\ \A i \in 1..Len(r) : l[i] = r[i]
    BY ConcatIs
  <1>2. Len(l) <= Len(s) /\ \A i \in 1..Len(l) : l[i] = s[i]
    BY <1>1, PrefixAt
  <1> HIDE DEF l
  <1>3. Len(r) <= Len(s) /\ \A i \in 1..Len(r) : r[i] = s[i]
    BY <1>1, <1>2
  <1> QED  BY <1>3, PrefixAt

LEMMA StatusIs ==
  /\ StatusReply \in Seq(ALine) /\ Len(StatusReply) = n_svc + 1
  /\ \A m \in 1..n_svc : StatusReply[m] = Line("data", m - 1)
  /\ StatusReply[n_svc + 1] = Line("ok", 0)
  <1>1. \A m \in 1..n_svc + 1 :
          (IF m <= n_svc THEN Line("data", m - 1) ELSE Line("ok", 0)) \in ALine
    BY Consts, LineIs
  <1>2. n_svc + 1 \in Nat
    BY Consts
  <1>3. StatusReply \in Seq(ALine) /\ Len(StatusReply) = n_svc + 1
    BY <1>1, <1>2 DEF StatusReply
  <1> QED  BY <1>3, Consts DEF StatusReply

\* The next line of a status.
LEMMA StatusMore ==
  ASSUME NEW m \in Nat, m <= n_svc
  PROVE  /\ SubSeq(StatusReply, 1, m) \in Seq(ALine)
         /\ m < n_svc => Append(SubSeq(StatusReply, 1, m), Line("data", m)) = SubSeq(StatusReply, 1, m + 1)
         /\ m = n_svc => Append(SubSeq(StatusReply, 1, m), Line("ok", 0)) = StatusReply
         /\ IsPrefixOf(SubSeq(StatusReply, 1, m), StatusReply)
  <1> DEFINE R == StatusReply
             p == SubSeq(R, 0 + 1, m)
             q == SubSeq(R, 0 + 1, m + 1)
             x == R[m + 1]
             l == Append(p, x)
  <1>0. n_svc \in Nat /\ R \in Seq(ALine) /\ Len(R) = n_svc + 1 /\ x \in ALine
    BY Consts, StatusIs
  <1>1. p \in Seq(ALine) /\ Len(p) = m /\ \A i \in 1..m : p[i] = R[i]
    <2>1. m <= Len(R) /\ 0 \in Nat /\ 0 <= m /\ m - 0 = m /\ \A i \in 1..m : 0 + i = i
      BY <1>0
    <2> QED  BY <1>0, <2>1, SubSeqIs
  <1>2. q \in Seq(ALine) /\ Len(q) = m + 1 /\ \A i \in 1..m + 1 : q[i] = R[i]
    <2>1. /\ m + 1 \in Nat /\ m + 1 <= Len(R) /\ 0 \in Nat /\ 0 <= m + 1 /\ m + 1 - 0 = m + 1
          /\ \A i \in 1..m + 1 : 0 + i = i
      BY <1>0
    <2> QED  BY <1>0, <2>1, SubSeqIs
  <1>3. p = SubSeq(R, 1, m) /\ q = SubSeq(R, 1, m + 1)
    OBVIOUS
  <1> HIDE DEF R, p, q, x
  <1>4. l \in Seq(ALine) /\ Len(l) = m + 1 /\ l[m + 1] = x /\ \A i \in 1..m : l[i] = p[i]
    BY <1>0, <1>1, AppendIs
  <1> HIDE DEF l
  <1>5. \A i \in 1..m + 1 : l[i] = R[i]
    <2>1. \A i \in 1..m + 1 : i = m + 1 \/ i \in 1..m
      OBVIOUS
    <2> QED  BY <2>1, <1>1, <1>4 DEF x
  <1>6. l = q
    BY <1>2, <1>4, <1>5, SeqSame
  <1>7. m < n_svc => x = Line("data", m)
    BY StatusIs, Consts DEF x, R
  <1>8. m = n_svc => x = Line("ok", 0) /\ q = R
    <2>1. ASSUME m = n_svc PROVE q = R
      BY <2>1, <1>0, <1>2, SeqSame
    <2>2. m = n_svc => x = Line("ok", 0)
      BY StatusIs DEF x, R
    <2> QED  BY <2>1, <2>2
  <1>9. IsPrefixOf(p, R)
    BY <1>0, <1>1, PrefixAt
  <1> QED  BY <1>1, <1>3, <1>6, <1>7, <1>8, <1>9 DEF l, R

LEMMA ShortTyped ==
  ASSUME NEW q, NEW v \in {None, "ok", "err"} PROVE ShortIs(q, v) \in Seq(ALine)
  <1>1. CASE v = None
    <2>1. ShortIs(q, v) = <<>>
      BY <1>1 DEF ShortIs, None
    <2> QED  BY <2>1
  <1>2. CASE v = "ok" /\ q = "short"
    <2>1. ShortIs(q, v) = <<Line("data", 0), Line("ok", 0)>>
      BY <1>2 DEF ShortIs, None
    <2> QED  BY <2>1, LineIs
  <1>3. CASE v # None /\ ~(v = "ok" /\ q = "short")
    <2>1. ShortIs(q, v) = <<Line(v, 0)>>
      BY <1>3 DEF ShortIs
    <2>2. Line(v, 0) \in ALine
      BY <1>3, LineIs
    <2> QED  BY <2>1, <2>2
  <1> QED  BY <1>1, <1>2, <1>3

\* What a client has is the beginning of what it will be given.
LEMMA PartialLess ==
  ASSUME NEW q, NEW v \in {None, "ok", "err"}, NEW r \in Seq(ALine), NEW t \in Seq(ALine),
         Partial(q, v, r \o t)
  PROVE  Partial(q, v, r)
  <1>1. CASE v = None /\ q = "status"
    <2>1. IsPrefixOf(r, StatusReply)
      BY <1>1, StatusIs, PrefixLess DEF Partial
    <2> QED  BY <1>1, <2>1 DEF Partial
  <1>2. CASE v = None /\ q \in {"log", "watch"}
    <2>1. InOrder(r) /\ (q = "watch" => NoEnd(r))
      BY <1>2, OrderLess, NoEndLess DEF Partial
    <2> QED  BY <1>2, <2>1 DEF Partial
  <1>3. CASE ~(v = None /\ q = "status") /\ ~(v = None /\ q \in {"log", "watch"})
    <2>1. IsPrefixOf(r \o t, ShortIs(q, v))
      BY <1>3 DEF Partial
    <2>2. IsPrefixOf(r, ShortIs(q, v))
      BY <2>1, ShortTyped, PrefixLess
    <2> QED  BY <1>3, <2>2 DEF Partial
  <1> QED  BY <1>1, <1>2, <1>3

LEMMA ProgressPartial ==
  ASSUME NEW q, NEW s \in ASlot, NEW v \in {None, "ok", "err"}, NEW r \in Seq(ALine),
         Progress(q, s, v, r)
  PROVE  Partial(q, v, r)
  <1>1. CASE s.done /\ Whole(q, v, r)
    <2>1. CASE v # None
      <3>1. r = ShortIs(q, v) /\ IsPrefixOf(r, ShortIs(q, v))
        BY <1>1, <2>1, PrefixAt DEF Whole
      <3> QED  BY <2>1, <3>1 DEF Partial
    <2>2. CASE v = None /\ q = "status" /\ r = StatusReply
      <3>1. IsPrefixOf(r, StatusReply)
        BY <2>2, PrefixAt
      <3> QED  BY <2>2, <3>1 DEF Partial
    <2>3. CASE v = None /\ q = "log" /\ InOrder(r)
      BY <2>3 DEF Partial
    <2> QED  BY <1>1, <2>1, <2>2, <2>3 DEF Whole
  <1>2. CASE q = "status" /\ v = None /\ s.list_at <= n_svc /\ r = SubSeq(StatusReply, 1, s.list_at)
    <2>1. s.list_at \in Nat
      BY DEF ASlot
    <2> QED  BY <1>2, <2>1, StatusMore DEF Partial
  <1>3. CASE q \in {"log", "watch"} /\ v = None /\ Reading(r, s.log_at)
    BY <1>3 DEF Partial, Reading
  <1>4. CASE v = None /\ r = <<>>
    <2>1. ASSUME NEW t \in Seq(ALine) PROVE IsPrefixOf(r, t)
      <3>1. Len(r) <= Len(t) /\ \A i \in 1..Len(r) : r[i] = t[i]
        BY <1>4
      <3> QED  BY <3>1, PrefixAt
    <2>2. IsPrefixOf(r, StatusReply) /\ IsPrefixOf(r, ShortIs(q, v))
      BY <2>1, StatusIs, ShortTyped
    <2> QED  BY <1>4, <2>2, NoneInOrder DEF Partial
  <1> QED  BY <1>1, <1>2, <1>3, <1>4 DEF Progress

-----------------------------------------------------------------------------
(* ctl_out(), ctl_end() and ctl_fill() *)

LEMMA SlotFields ==
  ASSUME NEW s \in ASlot
  PROVE  /\ s.fd \in Nat /\ s.who \in Clients \union {None} /\ s.svc \in Ops \union {None}
         /\ s.listing \in {None, "log", "status"} /\ s.list_at \in Nat /\ s.log_at \in Int
         /\ s.watch \in BOOLEAN /\ s.done \in BOOLEAN /\ s.in \in Nat /\ s.out \in Seq(ALine)
         /\ s.out_at \in Nat /\ s.full \in BOOLEAN /\ Len(s.out) \in Nat
  BY DEF ASlot

\* What is not touched when the buffer is filled.
Like(s, t) ==
  /\ t.fd = s.fd /\ t.who = s.who /\ t.watch = s.watch /\ t.in = s.in
  /\ t.out_at = s.out_at /\ t.full = s.full

LEMMA OutIs ==
  ASSUME NEW s \in ASlot, NEW x \in ALine
  PROVE  /\ ctl_out(s, x) \in ASlot /\ Like(s, ctl_out(s, x))
         /\ ctl_out(s, x).svc = s.svc /\ ctl_out(s, x).listing = s.listing
         /\ ctl_out(s, x).list_at = s.list_at /\ ctl_out(s, x).log_at = s.log_at
         /\ ctl_out(s, x).done = s.done
         /\ ctl_out(s, x).out = IF s.done \/ Len(s.out) >= CTL_OUT THEN s.out ELSE Append(s.out, x)
  <1>1. CASE s.done \/ Len(s.out) >= CTL_OUT
    BY <1>1 DEF ctl_out, Like
  <1>2. CASE ~(s.done \/ Len(s.out) >= CTL_OUT)
    <2> DEFINE a == Append(s.out, x)
               t == [s EXCEPT !.out = a]
    <2>1. a \in Seq(ALine) /\ ctl_out(s, x) = t
      BY <1>2, SlotFields DEF ctl_out
    <2> HIDE DEF a
    <2>2. t \in ASlot /\ t.out = a /\ Like(s, t) /\ t.svc = s.svc /\ t.listing = s.listing
          /\ t.list_at = s.list_at /\ t.log_at = s.log_at /\ t.done = s.done
      BY <2>1 DEF ASlot, Like
    <2> QED  BY <1>2, <2>1, <2>2 DEF a
  <1> QED  BY <1>1, <1>2

LEMMA EndIs ==
  ASSUME NEW s \in ASlot, ~s.done, NEW tag \in {"ok", "err"}
  PROVE  /\ ctl_end(s, tag) \in ASlot /\ Like(s, ctl_end(s, tag))
         /\ ctl_end(s, tag).svc = None /\ ctl_end(s, tag).listing = None
         /\ ctl_end(s, tag).list_at = s.list_at /\ ctl_end(s, tag).log_at = s.log_at
         /\ ctl_end(s, tag).done = TRUE
         /\ ctl_end(s, tag).out = IF Len(s.out) >= CTL_OUT THEN s.out ELSE Append(s.out, Line(tag, 0))
  <1> DEFINE x == Line(tag, 0)
             p == [s EXCEPT !.listing = None, !.svc = None]
             o == ctl_out(p, x)
             t == [o EXCEPT !.done = TRUE]
  <1>1. /\ p \in ASlot /\ p.svc = None /\ p.listing = None /\ p.list_at = s.list_at
        /\ p.log_at = s.log_at /\ p.done = s.done /\ p.out = s.out /\ Like(s, p)
    BY DEF ASlot, Like
  <1>2. x \in ALine
    BY LineIs
  <1> HIDE DEF p, x
  <1>3. /\ o \in ASlot /\ Like(p, o) /\ o.svc = None /\ o.listing = None /\ o.list_at = s.list_at
        /\ o.log_at = s.log_at
        /\ o.out = IF s.done \/ Len(s.out) >= CTL_OUT THEN s.out ELSE Append(s.out, x)
    BY <1>1, <1>2, OutIs
  <1> HIDE DEF o
  <1>4. /\ t \in ASlot /\ Like(o, t) /\ t.svc = o.svc /\ t.listing = o.listing
        /\ t.list_at = o.list_at /\ t.log_at = o.log_at /\ t.done = TRUE /\ t.out = o.out
    BY <1>3 DEF ASlot, Like
  <1>5. ctl_end(s, tag) = t
    BY DEF ctl_end, t, o, p, x
  <1> HIDE DEF t
  <1> QED  BY <1>1, <1>3, <1>4, <1>5 DEF Like, x

\* t is s with the line x.
Grown(s, t, x) == t \in ASlot /\ Like(s, t) /\ x \in ALine /\ t.out = Append(s.out, x)

EndOf(s, t) ==
  Grown(s, t, Line("ok", 0)) /\ t.svc = None /\ t.listing = None /\ t.done /\ t.log_at = s.log_at

\* One turn of ctl_fill().
LEMMA FillLineIs ==
  ASSUME NEW g \in AServer, NEW s \in ASlot, ~s.done, s.listing # None, Len(s.out) < CTL_OUT,
         NEW t, t = fill_line(g, s)
  PROVE  \/ /\ s.listing = "log" /\ s.log_at < g.head /\ s.log_at < g.tail
            /\ Grown(s, t, Line("skip", g.tail - s.log_at)) /\ t.log_at = g.tail
            /\ t.svc = s.svc /\ t.listing = s.listing /\ t.list_at = s.list_at /\ t.done = s.done
         \/ /\ s.listing = "log" /\ s.log_at < g.head /\ ~(s.log_at < g.tail)
            /\ Grown(s, t, Line("data", s.log_at)) /\ t.log_at = s.log_at + 1
            /\ t.svc = s.svc /\ t.listing = s.listing /\ t.list_at = s.list_at /\ t.done = s.done
         \/ s.listing = "log" /\ ~(s.log_at < g.head) /\ s.watch /\ t = s
         \/ s.listing = "log" /\ ~(s.log_at < g.head) /\ ~s.watch /\ EndOf(s, t)
         \/ /\ s.listing = "status" /\ s.list_at < n_svc
            /\ Grown(s, t, Line("data", s.list_at)) /\ t.list_at = s.list_at + 1
            /\ t.svc = s.svc /\ t.listing = s.listing /\ t.log_at = s.log_at /\ t.done = s.done
         \/ s.listing = "status" /\ ~(s.list_at < n_svc) /\ EndOf(s, t)
  <1>0. /\ s.listing \in {"log", "status"} /\ s.log_at \in Int /\ s.list_at \in Nat
        /\ g.head \in Int /\ g.tail \in Int /\ Len(s.out) \in Nat /\ CTL_OUT \in Nat
    BY SlotFields, Consts DEF AServer
  <1>b. ~(s.done \/ Len(s.out) >= CTL_OUT)
    BY <1>0
  <1>1. CASE s.listing = "log" /\ s.log_at < g.head /\ s.log_at < g.tail
    <2> DEFINE x == Line("skip", g.tail - s.log_at)
               o == ctl_out(s, x)
    <2>1. x \in ALine
      BY <1>0, LineIs
    <2>2. t = [o EXCEPT !.log_at = g.tail]
      BY <1>1 DEF fill_line, log_line
    <2> HIDE DEF x
    <2>3. /\ o \in ASlot /\ Like(s, o) /\ o.out = Append(s.out, x)
          /\ o.svc = s.svc /\ o.listing = s.listing /\ o.list_at = s.list_at /\ o.done = s.done
      BY <1>b, <2>1, OutIs
    <2> HIDE DEF o
    <2>4. /\ t \in ASlot /\ Like(s, t) /\ t.out = o.out /\ t.log_at = g.tail
          /\ t.svc = s.svc /\ t.listing = s.listing /\ t.list_at = s.list_at /\ t.done = s.done
      BY <1>0, <2>2, <2>3 DEF ASlot, Like
    <2>5. Grown(s, t, x)
      BY <2>1, <2>3, <2>4 DEF Grown
    <2> QED  BY <1>1, <2>4, <2>5 DEF x
  <1>2. CASE s.listing = "log" /\ s.log_at < g.head /\ ~(s.log_at < g.tail)
    <2> DEFINE x == Line("data", s.log_at)
               o == ctl_out(s, x)
    <2>1. x \in ALine
      BY <1>0, LineIs
    <2>2. t = [o EXCEPT !.log_at = @ + 1]
      BY <1>2 DEF fill_line, log_line
    <2> HIDE DEF x
    <2>3. /\ o \in ASlot /\ Like(s, o) /\ o.out = Append(s.out, x) /\ o.log_at = s.log_at
          /\ o.svc = s.svc /\ o.listing = s.listing /\ o.list_at = s.list_at /\ o.done = s.done
      BY <1>b, <2>1, OutIs
    <2> HIDE DEF o
    <2>4. /\ t \in ASlot /\ Like(s, t) /\ t.out = o.out /\ t.log_at = s.log_at + 1
          /\ t.svc = s.svc /\ t.listing = s.listing /\ t.list_at = s.list_at /\ t.done = s.done
      BY <1>0, <2>2, <2>3 DEF ASlot, Like
    <2>5. Grown(s, t, x)
      BY <2>1, <2>3, <2>4 DEF Grown
    <2> QED  BY <1>2, <2>4, <2>5 DEF x
  <1>a. ASSUME t = ctl_end(s, "ok") PROVE EndOf(s, t)
    <2>1. ~(Len(s.out) >= CTL_OUT)
      BY <1>0
    <2> QED  BY <1>a, <2>1, EndIs, LineIs DEF EndOf, Grown
  <1>3. CASE s.listing = "log" /\ ~(s.log_at < g.head)
    <2>1. t = IF s.watch THEN s ELSE ctl_end(s, "ok")
      BY <1>3 DEF fill_line
    <2> QED  BY <1>3, <2>1, <1>a
  <1>4. CASE s.listing = "status" /\ s.list_at < n_svc
    <2> DEFINE x == Line("data", s.list_at)
               o == ctl_out(s, x)
    <2>1. x \in ALine
      BY <1>0, LineIs
    <2>2. t = [o EXCEPT !.list_at = @ + 1]
      BY <1>4 DEF fill_line
    <2> HIDE DEF x
    <2>3. /\ o \in ASlot /\ Like(s, o) /\ o.out = Append(s.out, x) /\ o.log_at = s.log_at
          /\ o.svc = s.svc /\ o.listing = s.listing /\ o.list_at = s.list_at /\ o.done = s.done
      BY <1>b, <2>1, OutIs
    <2> HIDE DEF o
    <2>4. /\ t \in ASlot /\ Like(s, t) /\ t.out = o.out /\ t.list_at = s.list_at + 1
          /\ t.svc = s.svc /\ t.listing = s.listing /\ t.log_at = s.log_at /\ t.done = s.done
      BY <1>0, <2>2, <2>3 DEF ASlot, Like
    <2>5. Grown(s, t, x)
      BY <2>1, <2>3, <2>4 DEF Grown
    <2> QED  BY <1>4, <2>4, <2>5 DEF x
  <1>5. CASE s.listing = "status" /\ ~(s.list_at < n_svc)
    <2>1. t = ctl_end(s, "ok")
      BY <1>5 DEF fill_line
    <2> QED  BY <1>5, <2>1, <1>a
  <1> QED  BY <1>0, <1>1, <1>2, <1>3, <1>4, <1>5

LEMMA AppendSome == ASSUME NEW S, NEW s \in Seq(S), NEW x \in S PROVE Append(s, x) # <<>>
  OBVIOUS

\* What is appended to the buffer is appended to the reply.
Gives(s, t, x, b) ==
  /\ Rest(s) \in Seq(ALine) /\ Rest(t) \in Seq(ALine) /\ b \o Rest(s) \in Seq(ALine)
  /\ b \o Rest(t) = Append(b \o Rest(s), x) /\ b \o Rest(t) # <<>>
  /\ Len(t.out) = Len(s.out) + 1 /\ t.out # <<>>

LEMMA GrownGives ==
  ASSUME NEW s \in ASlot, NEW t, NEW x, Grown(s, t, x), s.out_at <= Len(s.out), NEW b \in Seq(ALine)
  PROVE  Gives(s, t, x, b)
  <1>1. /\ s.out \in Seq(ALine) /\ s.out_at \in Nat /\ Len(s.out) \in Nat /\ x \in ALine /\ t \in ASlot
        /\ t.out = Append(s.out, x) /\ t.out_at = s.out_at
    BY SlotFields DEF Grown, Like
  <1>2. Rest(t) = Append(Rest(s), x)
    BY <1>1, SubAppend DEF Rest
  <1>3. Rest(s) \in Seq(ALine)
    BY <1>1, SubSeqIs DEF Rest
  <1>4. Rest(t) \in Seq(ALine)
    BY <1>1, <1>2, <1>3, AppendIs
  <1>5. b \o Rest(s) \in Seq(ALine)
    BY <1>3, ConcatIs
  <1>6. b \o Rest(t) = Append(b \o Rest(s), x)
    BY <1>1, <1>2, <1>3, ConcatAppend
  <1>7. Append(b \o Rest(s), x) # <<>>
    BY <1>1, <1>5, AppendSome
  <1>8. Len(t.out) = Len(s.out) + 1 /\ t.out # <<>>
    BY <1>1, AppendIs, AppendSome
  <1> QED  BY <1>3, <1>4, <1>5, <1>6, <1>7, <1>8 DEF Gives

\* t is what ctl_fill() may have made of s; b is what was sent before.
Fills(g, s, t, q, gone, v, b) ==
  /\ t \in ASlot /\ Like(s, t) /\ t.svc = s.svc
  /\ SlotOK(t, q, gone, v, b \o Rest(t))
  /\ s.log_at <= t.log_at /\ (t.log_at = s.log_at \/ g.tail <= t.log_at)
  /\ ~gone /\ t.listing = "log" /\ b \o Rest(t) = <<>> => g.tail <= t.log_at
  /\ t.listing = "log" => s.listing = "log"
  /\ s.out # <<>> => t.out # <<>>

\* At least one line was looked for.
Turned(g, s, t) ==
  /\ s.listing = "log" /\ s.log_at < g.head /\ Len(s.out) < CTL_OUT =>
       s.log_at < t.log_at /\ t.out # <<>>
  /\ t.listing = "log" /\ t.out = <<>> => t.watch

\* What the reply of s must be for s to be filled.
Fillable(g, s, q, gone, v, b) ==
  /\ SlotOK(s, q, gone, v, b \o Rest(s))
  /\ ~gone /\ s.listing = "log" /\ b \o Rest(s) = <<>> => g.tail <= s.log_at

LEMMA FillsNone ==
  ASSUME NEW g, NEW s \in ASlot, NEW q, NEW gone, NEW v, NEW b, Fillable(g, s, q, gone, v, b)
  PROVE  Fills(g, s, s, q, gone, v, b)
  BY SlotFields DEF Fills, Fillable, Like

LEMMA FillsTwo ==
  ASSUME NEW g \in AServer, NEW s \in ASlot, NEW t, NEW w, NEW q, NEW gone, NEW v, NEW b,
         Fills(g, s, t, q, gone, v, b), Fills(g, t, w, q, gone, v, b)
  PROVE  /\ Fills(g, s, w, q, gone, v, b)
         /\ Turned(g, s, t) => Turned(g, s, w)
  <1>1. t \in ASlot /\ w \in ASlot /\ g.tail \in Int
    BY DEF Fills, AServer
  <1>2. s.log_at \in Int /\ t.log_at \in Int /\ w.log_at \in Int
    BY <1>1, SlotFields
  <1>3. Like(s, w) /\ w.svc = s.svc
    BY DEF Fills, Like
  <1>4. s.log_at <= w.log_at /\ (w.log_at = s.log_at \/ g.tail <= w.log_at)
    BY <1>1, <1>2 DEF Fills
  <1>5. Fills(g, s, w, q, gone, v, b)
    BY <1>3, <1>4 DEF Fills
  <1>6. ASSUME Turned(g, s, t) PROVE Turned(g, s, w)
    BY <1>2, <1>6 DEF Turned, Fills, Like
  <1> QED  BY <1>5, <1>6

\* The shape of a connection with one more line.
LEMMA ShapeMore ==
  ASSUME NEW s \in ASlot, Shape(s), NEW t, NEW x, Grown(s, t, x), Len(s.out) < CTL_OUT,
         t.done => t.listing = None /\ t.svc = None, t.svc # None => t.listing = None,
         t.watch => t.listing = "log"
  PROVE  Shape(t)
  <1>1. /\ s.out_at \in Nat /\ Len(s.out) \in Nat /\ CTL_OUT \in Nat /\ s.out_at <= Len(s.out)
        /\ t.out_at = s.out_at
    BY SlotFields, Consts DEF Shape, Grown, Like
  <1>2. Len(t.out) = Len(s.out) + 1
    <2>1. <<>> \in Seq(ALine)
      OBVIOUS
    <2>2. Gives(s, t, x, <<>>)
      BY <1>1, <2>1, GrownGives
    <2> QED  BY <2>2 DEF Gives
  <1> QED  BY <1>1, <1>2 DEF Shape

LEMMA LineKeeps ==
  ASSUME NEW g \in AServer, NEW s \in ASlot, NEW q, NEW gone \in BOOLEAN, NEW v \in {None, "ok", "err"},
         NEW b \in Seq(ALine), Fillable(g, s, q, gone, v, b), s.listing # None,
         Len(s.out) < CTL_OUT, NEW t, t = fill_line(g, s)
  PROVE  Fills(g, s, t, q, gone, v, b) /\ Turned(g, s, t)
  <1> DEFINE r == b \o Rest(s)
             w == b \o Rest(t)
  <1>0. /\ Shape(s) /\ ~s.done /\ s.svc = None /\ s.out_at <= Len(s.out)
        /\ (s.watch => s.listing = "log")
        /\ (~gone => Progress(q, s, v, r))
        /\ (~gone /\ s.listing = "log" /\ r = <<>> => g.tail <= s.log_at)
    BY DEF Fillable, SlotOK, Shape
  <1>1. /\ s.log_at \in Int /\ s.list_at \in Nat /\ g.head \in Int /\ g.tail \in Int /\ n_svc \in Nat
        /\ s.listing \in {"log", "status"} /\ s.watch \in BOOLEAN
    BY SlotFields, Consts DEF AServer
  <1>2. ASSUME NEW x, Grown(s, t, x)
        PROVE  /\ t \in ASlot /\ Like(s, t) /\ r \in Seq(ALine) /\ w = Append(r, x) /\ w # <<>>
               /\ t.out # <<>>
    <2>1. t \in ASlot /\ Like(s, t)
      BY <1>2 DEF Grown
    <2>2. /\ b \o Rest(s) \in Seq(ALine) /\ b \o Rest(t) = Append(b \o Rest(s), x)
          /\ b \o Rest(t) # <<>> /\ t.out # <<>>
      <3>1. s.out_at <= Len(s.out)
        BY <1>0
      <3>2. Gives(s, t, x, b)
        BY <1>2, <3>1, GrownGives
      <3> QED  BY <3>2, Zenon DEF Gives
    <2>3. r \in Seq(ALine) /\ w = Append(r, x) /\ w # <<>>
      BY <2>2, Zenon
    <2> QED  BY <2>1, <2>2, <2>3, Zenon
  <1> HIDE DEF r, w
  <1>3. ~gone /\ s.listing = "log" =>
           /\ v = None /\ q \in {"log", "watch"} /\ (s.watch <=> q = "watch") /\ Reading(r, s.log_at)
    BY <1>0 DEF Progress, None
  <1>4. ~gone /\ s.listing = "status" =>
           v = None /\ q = "status" /\ s.list_at <= n_svc /\ r = SubSeq(StatusReply, 1, s.list_at)
    BY <1>0 DEF Progress, None
  <1>5. ASSUME t.done => t.listing = None /\ t.svc = None, t.svc = None, t.watch => t.listing = "log",
               NEW x, Grown(s, t, x), ~gone => Progress(q, t, v, w), s.log_at <= t.log_at,
               t.log_at = s.log_at \/ g.tail <= t.log_at, t.listing = "log" => s.listing = "log",
               s.listing = "log" /\ s.log_at < g.head => s.log_at < t.log_at
        PROVE  Fills(g, s, t, q, gone, v, b) /\ Turned(g, s, t)
    <2>1. Shape(t)
      BY <1>0, <1>5, ShapeMore
    <2>2. /\ t \in ASlot /\ Like(s, t) /\ w # <<>> /\ t.out # <<>>
      BY <1>2, <1>5
    <2>3. SlotOK(t, q, gone, v, w)
      BY <1>5, <2>1, <2>2 DEF SlotOK
    <2> QED  BY <1>0, <1>5, <2>2, <2>3 DEF Fills, Turned, w
  <1>6. CASE /\ s.listing = "log" /\ s.log_at < g.head /\ s.log_at < g.tail
             /\ Grown(s, t, Line("skip", g.tail - s.log_at)) /\ t.log_at = g.tail
             /\ t.svc = s.svc /\ t.listing = s.listing /\ t.list_at = s.list_at /\ t.done = s.done
    <2> DEFINE x == Line("skip", g.tail - s.log_at)
    <2>1. /\ r \in Seq(ALine) /\ w = Append(r, x) /\ t.watch = s.watch
      BY <1>2, <1>6 DEF Like
    <2>2. ASSUME ~gone PROVE Progress(q, t, v, w)
      <3>1. r # <<>>
        BY <1>0, <1>1, <1>6, <2>2
      <3>2. Reading(w, g.tail)
        BY <1>1, <1>3, <1>6, <2>1, <2>2, <3>1, ReadingMore
      <3> QED  BY <1>0, <1>3, <1>6, <2>1, <2>2, <3>2 DEF Progress
    <2> HIDE DEF x
    <2> QED  BY <1>0, <1>1, <1>5, <1>6, <2>1, <2>2, SMTT(30) DEF x
  <1>7. CASE /\ s.listing = "log" /\ s.log_at < g.head /\ ~(s.log_at < g.tail)
             /\ Grown(s, t, Line("data", s.log_at)) /\ t.log_at = s.log_at + 1
             /\ t.svc = s.svc /\ t.listing = s.listing /\ t.list_at = s.list_at /\ t.done = s.done
    <2> DEFINE x == Line("data", s.log_at)
    <2>1. /\ r \in Seq(ALine) /\ w = Append(r, x) /\ t.watch = s.watch
      BY <1>2, <1>7 DEF Like
    <2>2. ASSUME ~gone PROVE Progress(q, t, v, w)
      <3>1. Reading(w, s.log_at + 1)
        BY <1>1, <1>3, <1>7, <2>1, <2>2, ReadingMore
      <3> QED  BY <1>0, <1>3, <1>7, <2>1, <2>2, <3>1 DEF Progress
    <2> HIDE DEF x
    <2>3. s.log_at <= t.log_at /\ s.log_at < t.log_at /\ g.tail <= t.log_at
      BY <1>1, <1>7
    <2> QED  BY <1>0, <1>5, <1>7, <2>1, <2>2, <2>3 DEF x
  <1>8. CASE s.listing = "log" /\ ~(s.log_at < g.head) /\ s.watch /\ t = s
    <2>1. Fills(g, s, t, q, gone, v, b)
      BY <1>8, FillsNone
    <2> QED  BY <1>8, <2>1 DEF Turned
  <1>9. CASE s.listing = "log" /\ ~(s.log_at < g.head) /\ ~s.watch /\ EndOf(s, t)
    <2> DEFINE x == Line("ok", 0)
    <2>1. /\ Grown(s, t, x) /\ t.svc = None /\ t.listing = None /\ t.done /\ t.log_at = s.log_at
      BY <1>9 DEF EndOf
    <2>2. /\ r \in Seq(ALine) /\ w = Append(r, x) /\ w # <<>> /\ t.watch = s.watch
      BY <1>2, <2>1 DEF Like
    <2>3. ASSUME ~gone PROVE Progress(q, t, v, w)
      <3>1. InOrder(w)
        BY <1>1, <1>3, <1>9, <2>2, <2>3, ReadingMore
      <3>2. v = None /\ q = "log"
        BY <1>3, <1>9, <2>3
      <3>3. Whole(q, v, w)
        BY <2>2, <3>1, <3>2 DEF Whole
      <3> QED  BY <2>1, <3>3 DEF Progress
    <2> HIDE DEF x
    <2>4. s.log_at <= t.log_at
      BY <1>1, <2>1
    <2> QED  BY <1>5, <1>9, <2>1, <2>2, <2>3, <2>4 DEF None
  <1>10. CASE /\ s.listing = "status" /\ s.list_at < n_svc
              /\ Grown(s, t, Line("data", s.list_at)) /\ t.list_at = s.list_at + 1
              /\ t.svc = s.svc /\ t.listing = s.listing /\ t.log_at = s.log_at /\ t.done = s.done
    <2> DEFINE x == Line("data", s.list_at)
    <2>1. /\ r \in Seq(ALine) /\ w = Append(r, x) /\ t.watch = s.watch
      BY <1>2, <1>10 DEF Like
    <2>2. ASSUME ~gone PROVE Progress(q, t, v, w)
      <3>1. w = SubSeq(StatusReply, 1, s.list_at + 1) /\ s.list_at + 1 <= n_svc
        BY <1>1, <1>4, <1>10, <2>1, <2>2, StatusMore
      <3> QED  BY <1>0, <1>4, <1>10, <2>1, <2>2, <3>1 DEF Progress
    <2> HIDE DEF x
    <2>3. s.log_at <= t.log_at
      BY <1>1, <1>10
    <2> QED  BY <1>0, <1>5, <1>10, <2>1, <2>2, <2>3 DEF x
  <1>11. CASE s.listing = "status" /\ ~(s.list_at < n_svc) /\ EndOf(s, t)
    <2> DEFINE x == Line("ok", 0)
    <2>1. /\ Grown(s, t, x) /\ t.svc = None /\ t.listing = None /\ t.done /\ t.log_at = s.log_at
      BY <1>11 DEF EndOf
    <2>2. /\ r \in Seq(ALine) /\ w = Append(r, x) /\ w # <<>> /\ t.watch = s.watch
      BY <1>2, <2>1 DEF Like
    <2>3. ASSUME ~gone PROVE Progress(q, t, v, w)
      <3>1. s.list_at = n_svc
        BY <1>1, <1>4, <1>11, <2>3
      <3>2. w = StatusReply
        BY <1>1, <1>4, <1>11, <2>2, <2>3, <3>1, StatusMore
      <3>3. Whole(q, v, w)
        BY <1>4, <1>11, <2>3, <3>2 DEF Whole
      <3> QED  BY <2>1, <3>3 DEF Progress
    <2> HIDE DEF x
    <2>4. s.log_at <= t.log_at
      BY <1>1, <2>1
    <2> QED  BY <1>0, <1>5, <1>11, <2>1, <2>2, <2>3, <2>4 DEF None
  <1>12. \/ /\ s.listing = "log" /\ s.log_at < g.head /\ s.log_at < g.tail
            /\ Grown(s, t, Line("skip", g.tail - s.log_at)) /\ t.log_at = g.tail
            /\ t.svc = s.svc /\ t.listing = s.listing /\ t.list_at = s.list_at /\ t.done = s.done
         \/ /\ s.listing = "log" /\ s.log_at < g.head /\ ~(s.log_at < g.tail)
            /\ Grown(s, t, Line("data", s.log_at)) /\ t.log_at = s.log_at + 1
            /\ t.svc = s.svc /\ t.listing = s.listing /\ t.list_at = s.list_at /\ t.done = s.done
         \/ s.listing = "log" /\ ~(s.log_at < g.head) /\ s.watch /\ t = s
         \/ s.listing = "log" /\ ~(s.log_at < g.head) /\ ~s.watch /\ EndOf(s, t)
         \/ /\ s.listing = "status" /\ s.list_at < n_svc
            /\ Grown(s, t, Line("data", s.list_at)) /\ t.list_at = s.list_at + 1
            /\ t.svc = s.svc /\ t.listing = s.listing /\ t.log_at = s.log_at /\ t.done = s.done
         \/ s.listing = "status" /\ ~(s.list_at < n_svc) /\ EndOf(s, t)
    BY <1>0, FillLineIs
  <1> QED  BY <1>6, <1>7, <1>8, <1>9, <1>10, <1>11, <1>12

-----------------------------------------------------------------------------
(* The loop of ctl_fill() *)

Turn(g, s) == IF s.listing = None \/ Len(s.out) >= CTL_OUT THEN s ELSE fill_line(g, s)

IsFill(F, g, k, n) == F = [m \in 0..n |-> IF m = 0 THEN g.conn[k] ELSE Turn(g, F[m - 1])]

LEMMA FillAt ==
  ASSUME NEW g, NEW k, NEW n, NEW F, IsFill(F, g, k, n)
  PROVE  \A m \in 0..n : F[m] = IF m = 0 THEN g.conn[k] ELSE Turn(g, F[m - 1])
  BY Zenon DEF IsFill

LEMMA FillExists ==
  ASSUME NEW g, NEW k, NEW n \in Nat PROVE \E F : IsFill(F, g, k, n)
  <1> DEFINE T == {m \in 0..n : \E F : IsFill(F, g, k, m)}
  <1>1. 0 \in T
    <2>1. IsFill([m \in 0..0 |-> g.conn[k]], g, k, 0)
      BY DEF IsFill
    <2> QED  BY <2>1
  <1>2. ASSUME NEW m \in 1..n, m - 1 \in T PROVE m \in T
    <2>1. PICK F : IsFill(F, g, k, m - 1)
      BY <1>2
    <2> DEFINE B == [j \in 0..m |-> IF j = m THEN Turn(g, F[m - 1]) ELSE F[j]]
    <2>2. \A j \in 0..m - 1 : F[j] = IF j = 0 THEN g.conn[k] ELSE Turn(g, F[j - 1])
      BY <2>1, FillAt
    <2>3. \A j \in 0..m : B[j] = IF j = 0 THEN g.conn[k] ELSE Turn(g, B[j - 1])
      BY <2>2
    <2>4. IsFill(B, g, k, m)
      BY <2>3 DEF IsFill
    <2> QED  BY <2>4
  <1> HIDE DEF T
  <1>3. n \in T
    BY <1>1, <1>2, UpTo
  <1> QED  BY <1>3 DEF T

LEMMA FillIs ==
  ASSUME NEW g, NEW k
  PROVE  \E F : IsFill(F, g, k, CTL_OUT) /\ ctl_fill(g, k) = [g EXCEPT !.conn[k] = F[CTL_OUT]]
  <1> DEFINE F == CHOOSE F : IsFill(F, g, k, CTL_OUT)
  <1>1. IsFill(F, g, k, CTL_OUT)
    BY Consts, FillExists, Zenon
  <1>2. ctl_fill(g, k) = [g EXCEPT !.conn[k] = F[CTL_OUT]]
    BY Zenon DEF ctl_fill, IsFill, Turn
  <1> QED  BY <1>1, <1>2

LEMMA TurnKeeps ==
  ASSUME NEW g \in AServer, NEW s \in ASlot, NEW q, NEW gone \in BOOLEAN, NEW v \in {None, "ok", "err"},
         NEW b \in Seq(ALine), Fillable(g, s, q, gone, v, b)
  PROVE  Fills(g, s, Turn(g, s), q, gone, v, b) /\ Turned(g, s, Turn(g, s))
  <1>0. Len(s.out) \in Nat /\ CTL_OUT \in Nat /\ CTL_OUT >= 2
    BY SlotFields, Consts
  <1>1. CASE s.listing = None \/ Len(s.out) >= CTL_OUT
    <2>1. Turn(g, s) = s
      BY <1>1 DEF Turn
    <2>2. Fills(g, s, s, q, gone, v, b)
      BY FillsNone
    <2>3. ~(s.listing = "log" /\ Len(s.out) < CTL_OUT)
      BY <1>0, <1>1 DEF None
    <2>4. s.out = <<>> => Len(s.out) = 0
      OBVIOUS
    <2>5. Turned(g, s, s)
      BY <1>0, <2>3, <2>4 DEF Turned
    <2> QED  BY <2>1, <2>2, <2>5
  <1>2. CASE ~(s.listing = None \/ Len(s.out) >= CTL_OUT)
    <2>1. Turn(g, s) = fill_line(g, s) /\ s.listing # None /\ Len(s.out) < CTL_OUT
      BY <1>0, <1>2 DEF Turn
    <2> QED  BY <2>1, LineKeeps
  <1> QED  BY <1>1, <1>2

LEMMA SetConn ==
  ASSUME NEW g \in AServer, NEW k \in Slots, NEW t \in ASlot
  PROVE  LET h == [g EXCEPT !.conn[k] = t] IN
         /\ h \in AServer /\ h.conn[k] = t /\ \A j \in Slots \ {k} : h.conn[j] = g.conn[j]
         /\ h.n = g.n /\ h.ops = g.ops /\ h.inq = g.inq /\ h.wire = g.wire /\ h.closed = g.closed
         /\ h.verdict = g.verdict /\ h.head = g.head /\ h.tail = g.tail
  BY DEF AServer

\* What ctl_fill() does to the connection in slot k.
FillDone(g, h, k, q, gone, v, b) ==
  /\ Fills(g, g.conn[k], h.conn[k], q, gone, v, b) /\ Turned(g, g.conn[k], h.conn[k])
  /\ h \in AServer /\ \A j \in Slots \ {k} : h.conn[j] = g.conn[j]
  /\ h.n = g.n /\ h.ops = g.ops /\ h.inq = g.inq /\ h.wire = g.wire /\ h.closed = g.closed
  /\ h.verdict = g.verdict /\ h.head = g.head /\ h.tail = g.tail

LEMMA FillDoes ==
  ASSUME NEW g \in AServer, NEW k \in Slots, NEW q, NEW gone \in BOOLEAN, NEW v \in {None, "ok", "err"},
         NEW b \in Seq(ALine), Fillable(g, g.conn[k], q, gone, v, b)
  PROVE  FillDone(g, ctl_fill(g, k), k, q, gone, v, b)
  <1> DEFINE s == g.conn[k]
  <1>0. s \in ASlot
    BY DEF AServer
  <1>1. PICK F : IsFill(F, g, k, CTL_OUT) /\ ctl_fill(g, k) = [g EXCEPT !.conn[k] = F[CTL_OUT]]
    BY FillIs
  <1>2. \A m \in 0..CTL_OUT : F[m] = IF m = 0 THEN s ELSE Turn(g, F[m - 1])
    BY <1>1, FillAt
  <1> HIDE DEF s
  <1> DEFINE T == {m \in 0..CTL_OUT : /\ Fills(g, s, F[m], q, gone, v, b)
                                      /\ m > 0 => Turned(g, s, F[m])}
  <1>3. Fillable(g, s, q, gone, v, b)
    BY DEF s
  <1>4. 0 \in T
    <2>1. 0 \in 0..CTL_OUT /\ F[0] = s
      BY <1>2, Consts
    <2>2. Fills(g, s, s, q, gone, v, b)
      BY <1>0, <1>3, FillsNone
    <2> QED  BY <2>1, <2>2
  <1>5. ASSUME NEW m \in 1..CTL_OUT, m - 1 \in T PROVE m \in T
    <2> DEFINE t == F[m - 1]
               w == Turn(g, t)
    <2>0. m \in 0..CTL_OUT /\ F[m] = w
      BY <1>2, Consts
    <2>1. Fills(g, s, t, q, gone, v, b) /\ (m - 1 > 0 => Turned(g, s, t))
      BY <1>5
    <2>2. t \in ASlot /\ Fillable(g, t, q, gone, v, b)
      BY <2>1 DEF Fills, Fillable
    <2>3. m - 1 = 0 => t = s
      BY <1>2, Consts
    <2> HIDE DEF t
    <2>4. Fills(g, t, w, q, gone, v, b) /\ Turned(g, t, w)
      BY <2>2, TurnKeeps
    <2> HIDE DEF w
    <2>5. Fills(g, s, w, q, gone, v, b) /\ (Turned(g, s, t) => Turned(g, s, w))
      BY <1>0, <2>1, <2>4, FillsTwo
    <2>6. Turned(g, s, w)
      BY <2>1, <2>3, <2>4, <2>5
    <2> QED  BY <2>0, <2>5, <2>6
  <1> HIDE DEF T
  <1>6. CTL_OUT \in T
    BY <1>4, <1>5, UpTo, Consts
  <1>7. Fills(g, s, F[CTL_OUT], q, gone, v, b) /\ Turned(g, s, F[CTL_OUT])
    BY <1>6, Consts DEF T
  <1> DEFINE t == F[CTL_OUT]
  <1>8. t \in ASlot /\ Fills(g, s, t, q, gone, v, b) /\ Turned(g, s, t)
    BY <1>7 DEF Fills
  <1> HIDE DEF t
  <1> DEFINE h == [g EXCEPT !.conn[k] = t]
  <1>9. /\ h \in AServer /\ h.conn[k] = t /\ \A j \in Slots \ {k} : h.conn[j] = g.conn[j]
        /\ h.n = g.n /\ h.ops = g.ops /\ h.inq = g.inq /\ h.wire = g.wire /\ h.closed = g.closed
        /\ h.verdict = g.verdict /\ h.head = g.head /\ h.tail = g.tail
    BY <1>8, SetConn
  <1>10. ctl_fill(g, k) = h
    BY <1>1 DEF t
  <1> HIDE DEF h
  <1>11. FillDone(g, h, k, q, gone, v, b)
    BY <1>8, <1>9 DEF FillDone, s
  <1> QED  BY <1>10, <1>11

-----------------------------------------------------------------------------
(* One connection changes *)

LEMMA ServerFields ==
  ASSUME NEW g \in AServer
  PROVE  /\ g.conn \in [Slots -> ASlot] /\ g.n \in 0..CTL_MAX /\ g.ops \in [Ops -> Clients \union {None}]
         /\ g.inq \in [Clients -> Nat] /\ g.wire \in [Clients -> Seq(ALine)]
         /\ g.closed \in [Clients -> BOOLEAN] /\ g.verdict \in [Clients -> {None, "ok", "err"}]
         /\ g.head \in Int /\ g.tail \in Int
  BY DEF AServer

LEMMA ClientFields ==
  ASSUME NEW u \in AClients
  PROVE  /\ u.client \in [Clients -> {"idle", "sending", "reading", "ok", "fail", "gone"}]
         /\ u.got \in [Clients -> Seq(ALine)] /\ u.req \in [Clients -> Requests \union {None}]
  BY DEF AClients

LEMMA UsedIs ==
  ASSUME NEW g \in AServer
  PROVE  /\ g.n \in Nat /\ Used(g) \subseteq Slots
         /\ \A k \in Used(g) : g.conn[k] \in ASlot /\ k \in Nat /\ k < g.n
         /\ \A k \in Nat : k < g.n => k \in Used(g)
  BY ServerFields, Consts DEF Used, Slots

\* What a handler leaves as it is for the clients that are not accepted.
Keeps(u, g, h) ==
  /\ h.head = g.head /\ h.tail = g.tail
  /\ \A c \in Clients : h.inq[c] <= g.inq[c]
  /\ \A c \in Clients : Fresh(u, g, c) => Fresh(u, h, c)

LEMMA KeepsSame == ASSUME NEW u, NEW g \in AServer PROVE Keeps(u, g, g)
  BY ServerFields DEF Keeps

LEMMA KeepsTwo ==
  ASSUME NEW u, NEW g \in AServer, NEW h \in AServer, NEW w \in AServer, Keeps(u, g, h), Keeps(u, h, w)
  PROVE  Keeps(u, g, w)
  <1>1. ASSUME NEW c \in Clients PROVE w.inq[c] <= g.inq[c]
    <2>1. g.inq[c] \in Nat /\ h.inq[c] \in Nat /\ w.inq[c] \in Nat
      BY ServerFields
    <2> QED  BY <2>1 DEF Keeps
  <1> QED  BY <1>1 DEF Keeps

\* h is g but for the connection in slot k, its client, and an operation it begins or ends.
Only(g, h, k) ==
  /\ h \in AServer /\ h.n = g.n /\ h.head = g.head /\ h.tail = g.tail /\ h.closed = g.closed
  /\ \A j \in Slots \ {k} : h.conn[j] = g.conn[j]
  /\ h.conn[k].who = g.conn[k].who /\ h.conn[k].fd = g.conn[k].fd
  /\ g.conn[k].svc # None => h.conn[k].svc = g.conn[k].svc \/ h.ops[g.conn[k].svc] = None
  /\ \A c \in Clients \ {g.conn[k].who} : h.wire[c] = g.wire[c] /\ h.verdict[c] = g.verdict[c]
  /\ \A c \in Clients : h.inq[c] <= g.inq[c]
  /\ \A i \in Ops : \/ h.ops[i] = g.ops[i]
                    \/ g.ops[i] = None /\ h.ops[i] = g.conn[k].who /\ h.conn[k].svc = i
                    \/ g.ops[i] = g.conn[k].who /\ h.ops[i] = None

\* The connections with their operations and clients.
Base(u, g) == Good(u, g) /\ OpsOK(u, g)

LEMMA OnlyOpen ==
  ASSUME NEW g \in AServer, NEW h, NEW k \in Used(g), Only(g, h, k)
  PROVE  /\ Used(h) = Used(g)
         /\ \A j \in Used(g) : h.conn[j].who = g.conn[j].who /\ h.conn[j].fd = g.conn[j].fd
         /\ \A c \in Clients : OpenIn(h, c) <=> OpenIn(g, c)
  <1>1. Used(h) = Used(g) /\ Used(g) \subseteq Slots
    BY UsedIs DEF Only, Used
  <1>2. \A j \in Used(g) : h.conn[j].who = g.conn[j].who /\ h.conn[j].fd = g.conn[j].fd
    <2> TAKE j \in Used(g)
    <2>1. CASE j = k
      BY <2>1 DEF Only
    <2>2. CASE j # k
      <3>1. h.conn[j] = g.conn[j]
        BY <1>1, <2>2 DEF Only
      <3> QED  BY <3>1
    <2> QED  BY <2>1, <2>2
  <1> QED  BY <1>1, <1>2 DEF OpenIn

LEMMA OnlyKeeps ==
  ASSUME NEW u, NEW g, Base(u, g), NEW k \in Used(g), NEW h, Only(g, h, k), NEW c, c = g.conn[k].who,
         Len(h.wire[c]) <= SockMax,
         h.verdict[c] = "ok" => u.req[c] \in Ops \union {"short"},
         h.conn[k].svc # None => h.ops[h.conn[k].svc] = c,
         \A i \in Ops : g.ops[i] = None /\ h.ops[i] = c => u.req[c] = i,
         SlotOK(h.conn[k], u.req[c], Away(u, c), h.verdict[c], Given(u, h, h.conn[k]))
  PROVE  Base(u, h) /\ Keeps(u, g, h)
  <1>0. /\ u \in AClients /\ g \in AServer /\ h \in AServer /\ g.tail <= g.head
        /\ g.head - g.tail <= RingLines /\ Distinct(g)
        /\ \A j \in Used(g) : ConnOK(u, g, j)
        /\ \A d \in Clients : ClientOK(u, g, d)
        /\ OpsOK(u, g)
    BY DEF Base, Good, Only
  <1>1. /\ Used(h) = Used(g) /\ Used(g) \subseteq Slots
        /\ \A j \in Used(g) : h.conn[j].who = g.conn[j].who /\ h.conn[j].fd = g.conn[j].fd
        /\ \A d \in Clients : OpenIn(h, d) <=> OpenIn(g, d)
    BY <1>0, OnlyOpen, UsedIs
  <1>2. /\ c \in Clients /\ ~g.closed[c] /\ u.req[c] \in Requests /\ g.conn[k].fd \in 1..CTL_MAX
    BY <1>0 DEF ConnOK
  <1>3. Distinct(h)
    BY <1>0, <1>1 DEF Distinct
  <1>4. ASSUME NEW j \in Used(g) PROVE ConnOK(u, h, j)
    <2>1. CASE j = k
      BY <2>1, <1>1, <1>2 DEF ConnOK, Only
    <2>2. CASE j # k
      <3> DEFINE s == g.conn[j]
                 d == s.who
      <3>1. h.conn[j] = s /\ j \in Slots
        BY <1>1, <2>2 DEF Only
      <3>2. /\ d \in Clients /\ ~g.closed[d] /\ u.req[d] \in Requests /\ s.fd \in 1..CTL_MAX
            /\ (s.svc # None => g.ops[s.svc] = d)
            /\ SlotOK(s, u.req[d], Away(u, d), g.verdict[d], Given(u, g, s))
        BY <1>0 DEF ConnOK
      <3>3. d # c
        BY <1>0, <2>2 DEF Distinct
      <3>4. h.wire[d] = g.wire[d] /\ h.verdict[d] = g.verdict[d] /\ h.closed = g.closed
        BY <3>2, <3>3 DEF Only
      <3>5. Given(u, h, s) = Given(u, g, s)
        BY <3>4 DEF Given, Sent
      <3>6. s.svc # None => h.ops[s.svc] = d
        <4>1. s.svc \in Ops \union {None} /\ d # None
          BY <1>0, <3>2, UsedIs, SlotFields, Consts
        <4> QED  BY <3>2, <3>3, <4>1 DEF Only
      <3> HIDE DEF s
      <3> QED  BY <3>1, <3>2, <3>4, <3>5, <3>6 DEF ConnOK
    <2> QED  BY <2>1, <2>2
  <1>5. ASSUME NEW d \in Clients PROVE ClientOK(u, h, d)
    <2>0. ClientOK(u, g, d) /\ h.closed = g.closed
      BY <1>0 DEF Only
    <2>1. CASE d = c
      <3>1. OpenIn(h, d) /\ u.client[d] # "ok"
        BY <1>1, <1>2, <2>0, <2>1 DEF ClientOK, OpenIn
      <3> QED  BY <2>1, <3>1 DEF ClientOK
    <2>2. CASE d # c
      <3>1. h.wire[d] = g.wire[d] /\ h.verdict[d] = g.verdict[d]
        BY <2>2 DEF Only
      <3> QED  BY <1>1, <2>0, <3>1 DEF ClientOK, Sent
    <2> QED  BY <2>1, <2>2
  <1>6. OpsOK(u, h)
    <2> SUFFICES ASSUME NEW i \in Ops, h.ops[i] # None
                 PROVE  /\ u.req[h.ops[i]] = i
                        /\ ~Away(u, h.ops[i]) =>
                             \E j \in Used(h) : h.conn[j].who = h.ops[i] /\ h.conn[j].svc = i
      BY DEF OpsOK
    <2>1. CASE h.ops[i] = g.ops[i]
      <3>1. /\ u.req[g.ops[i]] = i
            /\ ~Away(u, g.ops[i]) =>
                 \E j \in Used(g) : g.conn[j].who = g.ops[i] /\ g.conn[j].svc = i
        BY <1>0, <2>1 DEF OpsOK
      <3>2. ASSUME NEW j \in Used(g), g.conn[j].svc = i PROVE h.conn[j].svc = i
        <4>1. i # None
          BY Consts
        <4> QED  BY <1>1, <3>2, <4>1 DEF Only
      <3> QED  BY <1>1, <2>1, <3>1, <3>2
    <2>2. CASE h.ops[i] # g.ops[i]
      <3>1. g.ops[i] = None /\ h.ops[i] = c /\ h.conn[k].svc = i
        BY <2>2 DEF Only
      <3> QED  BY <1>1, <3>1
    <2> QED  BY <2>1, <2>2
  <1>7. Good(u, h)
    BY <1>0, <1>1, <1>3, <1>4, <1>5 DEF Good, Only
  <1>8. ASSUME NEW d \in Clients, Fresh(u, g, d) PROVE Fresh(u, h, d)
    <2>1. d # c /\ ~OpenIn(h, d)
      BY <1>1, <1>8 DEF Fresh, OpenIn
    <2>2. h.wire[d] = g.wire[d] /\ h.verdict[d] = g.verdict[d] /\ h.closed = g.closed
      BY <2>1 DEF Only
    <2>3. \A i \in Ops : h.ops[i] # d
      BY <1>8, <2>1, Consts DEF Fresh, Only
    <2> QED  BY <1>8, <2>1, <2>2, <2>3 DEF Fresh
  <1> QED  BY <1>6, <1>7, <1>8 DEF Base, Keeps, Only

\* The other connections are as level with the log as before.
LEMMA OnlyAhead ==
  ASSUME NEW u, NEW g, Good(u, g), NEW k \in Used(g), NEW h, Only(g, h, k), NEW j \in Used(g), j # k
  PROVE  (AheadAt(u, h, j) <=> AheadAt(u, g, j)) /\ (LevelAt(u, h, j) <=> LevelAt(u, g, j))
  <1> DEFINE s == g.conn[j]
  <1>1. g \in AServer /\ Distinct(g) /\ s.who \in Clients
    BY DEF Good, ConnOK
  <1>2. h.conn[j] = s /\ s.who # g.conn[k].who
    BY <1>1, UsedIs DEF Only, Distinct
  <1>3. h.wire[s.who] = g.wire[s.who] /\ h.head = g.head /\ h.tail = g.tail
    BY <1>1, <1>2 DEF Only
  <1>4. Given(u, h, s) = Given(u, g, s)
    BY <1>3 DEF Given, Sent
  <1> HIDE DEF s
  <1> QED  BY <1>2, <1>3, <1>4 DEF AheadAt, LevelAt, s

LEMMA AheadLevel ==
  ASSUME NEW u, NEW g, NEW k, ConnOK(u, g, k), AheadAt(u, g, k) PROVE LevelAt(u, g, k)
  BY DEF AheadAt, LevelAt, Ahead, Level, ConnOK, SlotOK

-----------------------------------------------------------------------------
(* ctl_drop() *)

\* The reply is complete and written, or nobody reads it.
LEMMA DropKeeps ==
  ASSUME NEW u, NEW g, Base(u, g), NEW k \in Used(g),
         Away(u, g.conn[k].who) \/ (g.conn[k].done /\ g.conn[k].out = <<>>)
  PROVE  LET h == ctl_drop(g, k) IN
         /\ Base(u, h) /\ Keeps(u, g, h) /\ h.n = g.n - 1 /\ h \in AServer
         /\ (\A j \in Used(g) : AheadAt(u, g, j)) => \A j \in Used(h) : AheadAt(u, h, j)
  <1> DEFINE s == g.conn[k]
             c == s.who
             l == g.n - 1
             h == ctl_drop(g, k)
             from(j) == IF j = k THEN l ELSE j
  <1>0. /\ u \in AClients /\ g \in AServer /\ g.tail <= g.head /\ g.head - g.tail <= RingLines
        /\ Distinct(g) /\ OpsOK(u, g)
        /\ \A j \in Used(g) : ConnOK(u, g, j)
        /\ \A d \in Clients : ClientOK(u, g, d)
    BY DEF Base, Good
  <1>1. /\ l \in Used(g) /\ l \in Nat /\ Used(g) \subseteq Slots /\ k \in Slots /\ k \in Nat /\ k <= l
        /\ g.n \in 0..CTL_MAX /\ l \in 0..CTL_MAX
    <2>1. g.n \in 0..CTL_MAX /\ CTL_MAX \in Nat /\ k \in 0..g.n - 1 /\ Used(g) \subseteq Slots
      BY <1>0, UsedIs, ServerFields, Consts DEF Used
    <2>2. l \in 0..g.n - 1 /\ l \in Nat /\ k \in Nat /\ k <= l /\ l \in 0..CTL_MAX
      BY <2>1
    <2> QED  BY <2>1, <2>2 DEF Used
  <1>2. /\ c \in Clients /\ s \in ASlot /\ ~g.closed[c]
        /\ SlotOK(s, u.req[c], Away(u, c), g.verdict[c], Given(u, g, s))
    BY <1>0, UsedIs DEF ConnOK
  <1>3. /\ h \in AServer /\ h.n = l /\ h.head = g.head /\ h.tail = g.tail /\ h.ops = g.ops
        /\ h.inq = g.inq /\ h.wire = g.wire /\ h.verdict = g.verdict
        /\ h.conn = [g.conn EXCEPT ![k] = g.conn[l]] /\ h.closed = [g.closed EXCEPT ![c] = TRUE]
    <2> DEFINE cl == [g.closed EXCEPT ![c] = TRUE]
               cn == [g.conn EXCEPT ![k] = g.conn[l]]
    <2>1. cl \in [Clients -> BOOLEAN] /\ cn \in [Slots -> ASlot]
      BY <1>0, <1>1, <1>2, ServerFields
    <2>2. h = [g EXCEPT !.closed = cl, !.n = l, !.conn = cn]
      BY <1>0 DEF ctl_drop, AServer
    <2> HIDE DEF cl, cn
    <2>3. /\ h \in AServer /\ h.n = l /\ h.head = g.head /\ h.tail = g.tail /\ h.ops = g.ops
          /\ h.inq = g.inq /\ h.wire = g.wire /\ h.verdict = g.verdict /\ h.conn = cn /\ h.closed = cl
      BY <1>0, <1>1, <2>1, <2>2 DEF AServer
    <2> QED  BY <2>3 DEF cl, cn
  <1> HIDE DEF h, s, l
  <1>4. \A j \in Used(h) : /\ j \in Used(g) /\ from(j) \in Used(g) /\ from(j) # k
                           /\ h.conn[j] = g.conn[from(j)]
    <2> TAKE j \in Used(h)
    <2>1. j \in Nat /\ j < l
      BY <1>1, <1>3 DEF Used
    <2>2. j \in Used(g) /\ j \in Slots
      BY <1>1, <2>1 DEF Used
    <2>3. from(j) \in Used(g) /\ from(j) # k
      BY <1>1, <2>1, <2>2
    <2>4. h.conn[j] = g.conn[from(j)]
      BY <1>0, <1>1, <1>3, <2>2, ServerFields
    <2> QED  BY <2>2, <2>3, <2>4
  <1>5. \A i, j \in Used(h) : i # j => from(i) # from(j)
    <2> SUFFICES ASSUME NEW i \in Used(h), NEW j \in Used(h), i # j PROVE from(i) # from(j)
      OBVIOUS
    <2>1. i < l /\ j < l /\ i \in Nat /\ j \in Nat
      BY <1>1, <1>3 DEF Used
    <2> QED  BY <1>1, <2>1
  <1>6. Distinct(h)
    BY <1>0, <1>4, <1>5 DEF Distinct
  <1>7. ASSUME NEW j \in Used(h)
        PROVE  ConnOK(u, h, j) /\ (AheadAt(u, g, from(j)) => AheadAt(u, h, j))
    <2> DEFINE m == from(j)
    <2>1. m \in Used(g) /\ m # k /\ h.conn[j] = g.conn[m]
      BY <1>4
    <2> HIDE DEF m
    <2>2. ConnOK(u, g, m) /\ g.conn[m].who # c /\ g.conn[m].who \in Clients
      BY <1>0, <2>1 DEF Distinct, ConnOK, s
    <2>3. h.closed[g.conn[m].who] = g.closed[g.conn[m].who]
      BY <1>0, <1>3, <2>2, ServerFields
    <2>4. Given(u, h, g.conn[m]) = Given(u, g, g.conn[m])
      BY <1>3 DEF Given, Sent
    <2>5. ConnOK(u, h, j)
      BY <1>3, <2>1, <2>2, <2>3, <2>4 DEF ConnOK
    <2>6. AheadAt(u, g, m) => AheadAt(u, h, j)
      BY <1>3, <2>1, <2>4 DEF AheadAt
    <2> QED  BY <2>5, <2>6 DEF m
  <1>8. \A d \in Clients \ {c} : OpenIn(g, d) => OpenIn(h, d)
    <2> SUFFICES ASSUME NEW d \in Clients \ {c}, NEW j \in Used(g), g.conn[j].who = d PROVE OpenIn(h, d)
      BY DEF OpenIn
    <2>1. j # k
      BY DEF s
    <2>2. CASE j = l
      <3>1. k \in Used(h) /\ from(k) = l
        BY <1>1, <1>3, <2>1, <2>2 DEF Used
      <3> QED  BY <1>4, <2>2, <3>1 DEF OpenIn
    <2>3. CASE j # l
      <3>1. j \in Used(h) /\ from(j) = j
        BY <1>1, <1>3, <2>1, <2>3 DEF Used, l
      <3> QED  BY <1>4, <3>1 DEF OpenIn
    <2> QED  BY <2>2, <2>3
  <1>9. \A d \in Clients : OpenIn(h, d) => OpenIn(g, d)
    BY <1>4 DEF OpenIn
  <1>10. ASSUME NEW d \in Clients PROVE ClientOK(u, h, d)
    <2>0. ClientOK(u, g, d) /\ Sent(u, h, d) = Sent(u, g, d)
      BY <1>0, <1>3 DEF Sent
    <2>1. CASE d = c
      <3>1. u.client[d] # "ok"
        BY <1>2, <2>0, <2>1 DEF ClientOK
      <3>2. ASSUME ~Away(u, c) PROVE Partial(u.req[c], g.verdict[c], Sent(u, g, c))
        <4>1. Progress(u.req[c], s, g.verdict[c], Given(u, g, s)) /\ s.out = <<>>
          BY <1>2, <3>2 DEF SlotOK, s
        <4>2. g.wire[c] \in Seq(ALine) /\ u.got[c] \in Seq(ALine) /\ g.verdict[c] \in {None, "ok", "err"}
          BY <1>0, <1>2, ServerFields, ClientFields
        <4>3. Sent(u, g, c) \in Seq(ALine)
          BY <4>2, ConcatIs DEF Sent
        <4>4. s.out_at = 0 /\ Rest(s) = <<>>
          <5>1. s.out_at = 0 /\ Len(s.out) = 0
            BY <1>2, <4>1, SlotFields DEF SlotOK, Shape
          <5> QED  BY <4>1, <5>1 DEF Rest
        <4>5. Given(u, g, s) = Sent(u, g, c)
          BY <4>3, <4>4, ConcatEmpty DEF Given
        <4> QED  BY <1>2, <4>1, <4>2, <4>3, <4>5, ProgressPartial
      <3> QED  BY <1>3, <2>0, <2>1, <3>1, <3>2 DEF ClientOK
    <2>2. CASE d # c
      <3>1. h.closed[d] = g.closed[d] /\ (~OpenIn(h, d) => ~OpenIn(g, d))
        BY <1>0, <1>3, <1>8, <2>2, ServerFields
      <3> QED  BY <1>3, <2>0, <3>1 DEF ClientOK
    <2> QED  BY <2>1, <2>2
  <1>11. OpsOK(u, h)
    <2> SUFFICES ASSUME NEW i \in Ops, g.ops[i] # None
                 PROVE  /\ u.req[g.ops[i]] = i
                        /\ ~Away(u, g.ops[i]) =>
                             \E j \in Used(h) : h.conn[j].who = g.ops[i] /\ h.conn[j].svc = i
      BY <1>3 DEF OpsOK
    <2>1. u.req[g.ops[i]] = i
      BY <1>0 DEF OpsOK
    <2>2. ASSUME ~Away(u, g.ops[i])
          PROVE  \E j \in Used(h) : h.conn[j].who = g.ops[i] /\ h.conn[j].svc = i
      <3>1. PICK j \in Used(g) : g.conn[j].who = g.ops[i] /\ g.conn[j].svc = i
        BY <1>0, <2>2 DEF OpsOK
      <3>2. j # k
        <4>1. i # None
          BY Consts
        <4>2. ASSUME j = k PROVE FALSE
          <5>1. s.done /\ s.svc = i
            BY <2>2, <3>1, <4>2 DEF s
          <5> QED  BY <1>2, <4>1, <5>1 DEF SlotOK, Shape
        <4> QED  BY <4>2
      <3>3. CASE j = l
        <4>1. k \in Used(h) /\ from(k) = l
          BY <1>1, <1>3, <3>2, <3>3 DEF Used
        <4> QED  BY <1>4, <3>1, <3>3, <4>1
      <3>4. CASE j # l
        <4>1. j \in Used(h) /\ from(j) = j
          BY <1>1, <1>3, <3>2, <3>4 DEF Used, l
        <4> QED  BY <1>4, <3>1, <4>1
      <3> QED  BY <3>3, <3>4
    <2> QED  BY <2>1, <2>2
  <1>12. Base(u, h)
    BY <1>0, <1>3, <1>6, <1>7, <1>10, <1>11 DEF Base, Good
  <1>13. Keeps(u, g, h)
    <2>1. ASSUME NEW d \in Clients, Fresh(u, g, d) PROVE Fresh(u, h, d)
      <3>1. d # c
        BY <2>1 DEF Fresh, OpenIn, s
      <3>2. h.closed[d] = g.closed[d] /\ ~OpenIn(h, d)
        BY <1>0, <1>3, <1>9, <2>1, <3>1, ServerFields DEF Fresh
      <3> QED  BY <1>3, <2>1, <3>2 DEF Fresh
    <2>2. \A d \in Clients : h.inq[d] <= g.inq[d]
      BY <1>0, <1>3, ServerFields
    <2> QED  BY <1>3, <2>1, <2>2 DEF Keeps
  <1> QED  BY <1>3, <1>4, <1>7, <1>12, <1>13 DEF h, l

-----------------------------------------------------------------------------
(* ctl_flush() and ctl_pump() *)

LEMMA GoneIs == \A c : (Gone(c) <=> Away(u0, c)) /\ req[c] = u0.req[c]
  BY DEF Gone, Away, u0

\* What is left of the buffer of a connection.
LEMMA RestIs ==
  ASSUME NEW s \in ASlot, Shape(s)
  PROVE  /\ Rest(s) \in Seq(ALine) /\ Len(Rest(s)) = Len(s.out) - s.out_at
         /\ (Rest(s) = <<>> <=> s.out = <<>>) /\ (Pending(s) <=> s.out # <<>>)
         /\ s.out = <<>> => s.out_at = 0
  <1>1. /\ s.out \in Seq(ALine) /\ s.out_at \in Nat /\ Len(s.out) \in Nat /\ s.out_at <= Len(s.out)
        /\ (s.out # <<>> => s.out_at < Len(s.out))
    BY SlotFields DEF Shape
  <1>2. Rest(s) \in Seq(ALine) /\ Len(Rest(s)) = Len(s.out) - s.out_at
    BY <1>1, SubSeqIs DEF Rest
  <1>3. s.out = <<>> => s.out_at = 0 /\ Len(s.out) = 0
    BY <1>1
  <1>4. Rest(s) = <<>> <=> Len(Rest(s)) = 0
    BY <1>2
  <1> QED  BY <1>1, <1>2, <1>3, <1>4 DEF Pending

\* A sequence with a part that is not empty.
LEMMA ConcatSome ==
  ASSUME NEW S, NEW s \in Seq(S), NEW t \in Seq(S)
  PROVE  s \o t = <<>> <=> s = <<>> /\ t = <<>>
  OBVIOUS

\* What ctl_flush() leaves alone.
Unflushed(s, t) ==
  /\ t.fd = s.fd /\ t.who = s.who /\ t.svc = s.svc /\ t.listing = s.listing /\ t.list_at = s.list_at
  /\ t.log_at = s.log_at /\ t.watch = s.watch /\ t.done = s.done /\ t.in = s.in

\* Lines go from the buffer to the socket, and none is lost or repeated.
FlushDone(g, h, k, c, rc) ==
  LET s == g.conn[k]
      t == h.conn[k]
  IN  /\ h \in AServer /\ \A j \in Slots \ {k} : h.conn[j] = g.conn[j]
      /\ h.n = g.n /\ h.ops = g.ops /\ h.inq = g.inq /\ h.closed = g.closed
      /\ h.verdict = g.verdict /\ h.head = g.head /\ h.tail = g.tail
      /\ \A d \in Clients \ {c} : h.wire[d] = g.wire[d]
      /\ Unflushed(s, t) /\ Shape(t) /\ Len(h.wire[c]) <= SockMax
      /\ h.wire[c] \o Rest(t) = g.wire[c] \o Rest(s)
      /\ rc = 1 => t.out = <<>> /\ t.full = (s.full /\ s.log_at < g.head)
      /\ rc # 1 => t.out # <<>> /\ t.full
      /\ (s.out = <<>> => t.out = <<>>)

LEMMA FlushDoes ==
  ASSUME NEW g \in AServer, NEW k \in Slots, Shape(g.conn[k]), NEW c \in Clients, c = g.conn[k].who,
         Len(g.wire[c]) <= SockMax, flushed(g, k) # -1
  PROVE  FlushDone(g, ctl_flush(g, k), k, c, flushed(g, k))
  <1> DEFINE s == g.conn[k]
             all == flushed(g, k) = 1
             a == s.out_at
             n == Len(s.out)
             lw == Len(g.wire[c])
             m == IF all THEN n ELSE a + SockMax - lw
             x == SubSeq(s.out, a + 1, m)
             o == IF all THEN <<>> ELSE s.out
             oa == IF all THEN 0 ELSE m
             fu == ~all \/ (s.full /\ s.log_at < g.head)
             t == [s EXCEPT !.out = o, !.out_at = oa, !.full = fu]
             wr == [g.wire EXCEPT ![c] = @ \o x]
             cn == [g.conn EXCEPT ![k] = t]
             h == ctl_flush(g, k)
  <1>0. /\ s \in ASlot /\ s.out \in Seq(ALine) /\ a \in Nat /\ n \in Nat /\ a <= n /\ n <= CTL_OUT
        /\ g.wire[c] \in Seq(ALine) /\ lw \in Nat /\ lw <= SockMax /\ SockMax \in Nat
        /\ (s.out # <<>> => a < n) /\ (s.out = <<>> => n = 0) /\ g.wire \in [Clients -> Seq(ALine)] /\ g.conn \in [Slots -> ASlot]
        /\ s.log_at \in Int /\ g.head \in Int /\ s.full \in BOOLEAN
    <2>1. s \in ASlot
      BY ServerFields
    <2>2. s.out \in Seq(ALine) /\ a \in Nat /\ n \in Nat /\ s.log_at \in Int /\ s.full \in BOOLEAN
      BY <2>1, SlotFields
    <2>3. a <= n /\ n <= CTL_OUT /\ (s.out # <<>> => a < n) /\ (s.out = <<>> => n = 0)
      BY DEF Shape
    <2>4. /\ g.wire[c] \in Seq(ALine) /\ g.wire \in [Clients -> Seq(ALine)] /\ g.conn \in [Slots -> ASlot]
          /\ g.head \in Int
      BY ServerFields
    <2> QED  BY <2>1, <2>2, <2>3, <2>4, Consts
  <1>1. all => a <= n /\ n - a <= SockMax - lw
    <2>1. ASSUME ~(a < n) PROVE n - a <= SockMax - lw
      BY <1>0, <2>1
    <2>2. ASSUME a < n, all PROVE n - a <= SockMax - lw
      <3>1. Pending(s)
        BY <2>2 DEF Pending
      <3>2. flushed(g, k) = IF n - a <= SockMax - lw THEN 1 ELSE 0
        BY <3>1 DEF flushed
      <3> QED  BY <2>2, <3>2
    <2> QED  BY <1>0, <2>1, <2>2
  <1>2. ~all => a < n /\ ~(n - a <= SockMax - lw)
    <2> SUFFICES ASSUME ~all PROVE a < n /\ ~(n - a <= SockMax - lw)
      OBVIOUS
    <2>1. Pending(s)
      BY DEF flushed, Pending
    <2>2. flushed(g, k) = IF n - a <= SockMax - lw THEN 1 ELSE 0
      BY <2>1 DEF flushed
    <2> QED  BY <2>1, <2>2 DEF Pending
  <1>3. h = [g EXCEPT !.wire = wr, !.conn = cn]
    <2>1. h = [g EXCEPT !.wire[c] = @ \o x, !.conn[k].out = IF all THEN <<>> ELSE @,
                        !.conn[k].out_at = oa, !.conn[k].full = ~all \/ (@ /\ s.log_at < g.head)]
      BY DEF ctl_flush
    <2> HIDE DEF all, x, oa, h
    <2>2. h = [g EXCEPT !.wire[c] = @ \o x, !.conn[k].out = o,
                        !.conn[k].out_at = oa, !.conn[k].full = fu]
      BY <1>0, <2>1 DEF ASlot
    <2> HIDE DEF o, fu
    <2>3. h = [g EXCEPT !.wire = wr, !.conn[k].out = o, !.conn[k].out_at = oa, !.conn[k].full = fu]
      BY <2>2
    <2> HIDE DEF wr
    <2>4. [g EXCEPT !.wire = wr, !.conn[k].out = o, !.conn[k].out_at = oa, !.conn[k].full = fu] =
            [g EXCEPT !.wire = wr,
                      !.conn = [g.conn EXCEPT ![k] = [g.conn[k] EXCEPT !.out = o, !.out_at = oa, !.full = fu]]]
      BY ZenonT(30) DEF AServer, ASlot
    <2> QED  BY <2>3, <2>4, Zenon
  <1> HIDE DEF all, h, a, n, lw
  <1>4. m \in Nat /\ a <= m /\ m <= n /\ lw + (m - a) <= SockMax /\ (~all => m < n)
    <2>1. CASE all
      BY <1>0, <1>1, <2>1
    <2>2. CASE ~all
      BY <1>0, <1>2, <2>2
    <2> QED  BY <2>1, <2>2
  <1> HIDE DEF m
  <1> DEFINE y == SubSeq(s.out, m + 1, n)
  <1>5. x \in Seq(ALine) /\ Len(x) = m - a /\ y \in Seq(ALine) /\ Len(y) = n - m /\ x \o y = Rest(s)
    <2>1. n = Len(s.out) /\ n <= Len(s.out)
      BY <1>0 DEF n
    <2>2. x \in Seq(ALine) /\ Len(x) = m - a
      BY <1>0, <1>4, <2>1, SubSeqIs
    <2>3. y \in Seq(ALine) /\ Len(y) = n - m
      BY <1>0, <1>4, <2>1, SubSeqIs
    <2>4. x \o y = SubSeq(s.out, a + 1, n)
      BY <1>0, <1>4, <2>1, SubSplit
    <2>5. Rest(s) = SubSeq(s.out, a + 1, n)
      BY DEF Rest, a, n
    <2> QED  BY <2>2, <2>3, <2>4, <2>5
  <1> HIDE DEF x
  <1>6. o \in Seq(ALine) /\ oa \in Nat /\ fu \in BOOLEAN
    BY <1>0, <1>4
  <1> HIDE DEF s
  <1>7. /\ t \in ASlot /\ t.out = o /\ t.out_at = oa /\ t.full = fu /\ Unflushed(s, t)
    <2> HIDE DEF o, oa, fu
    <2> QED  BY <1>0, <1>6 DEF ASlot, Unflushed
  <1> HIDE DEF t
  <1> DEFINE wc == g.wire[c]
  <1>8. wc \in Seq(ALine) /\ wc \o x \in Seq(ALine) /\ Len(wc \o x) = lw + (m - a)
    <2>1. wc \in Seq(ALine) /\ x \in Seq(ALine) /\ Len(x) = m - a /\ lw = Len(wc)
      BY <1>0, <1>5 DEF lw
    <2> HIDE DEF wc
    <2>2. wc \o x \in Seq(ALine) /\ Len(wc \o x) = Len(wc) + Len(x)
      BY <2>1, ConcatIs
    <2> QED  BY <2>1, <2>2
  <1>9. /\ h \in AServer /\ h.conn = cn /\ h.wire = wr /\ h.n = g.n /\ h.ops = g.ops /\ h.inq = g.inq
        /\ h.closed = g.closed /\ h.verdict = g.verdict /\ h.head = g.head /\ h.tail = g.tail
    <2>1. wr \in [Clients -> Seq(ALine)] /\ cn \in [Slots -> ASlot]
      BY <1>0, <1>7, <1>8
    <2> HIDE DEF wr, cn
    <2> QED  BY <1>3, <2>1 DEF AServer
  <1>10. h.wire[c] = g.wire[c] \o x /\ h.conn[k] = t
    BY <1>0, <1>9
  <1>11. h.wire[c] \o Rest(t) = g.wire[c] \o Rest(s)
    <2>1. Rest(t) = y
      <3>1. CASE all
        <4>1. Rest(t) = <<>>
          BY <1>7, <3>1 DEF Rest
        <4>2. Len(y) = 0
          BY <1>0, <1>5, <3>1 DEF m
        <4>3. y = <<>>
          BY <1>5, <4>2
        <4> QED  BY <4>1, <4>3
      <3>2. CASE ~all
        BY <1>7, <3>2 DEF Rest, n
      <3> QED  BY <3>1, <3>2
    <2> HIDE DEF y
    <2>2. (wc \o x) \o y = wc \o (x \o y)
      <3>1. wc \in Seq(ALine) /\ x \in Seq(ALine) /\ y \in Seq(ALine)
        BY <1>5, <1>8
      <3> HIDE DEF wc
      <3> QED  BY <3>1, ConcatThree
    <2> QED  BY <1>5, <1>10, <2>1, <2>2
  <1>12. Shape(t)
    <2>1. CASE all
      <3>1. t.out = <<>> /\ t.out_at = 0 /\ Len(t.out) = 0
        BY <1>7, <2>1
      <3> QED  BY <1>7, <3>1, Consts DEF Shape, Unflushed, s
    <2>2. CASE ~all
      <3>1. t.out = s.out /\ t.out_at = m /\ m < n
        BY <1>4, <1>7, <2>2
      <3> QED  BY <1>0, <1>4, <1>7, <3>1 DEF Shape, Unflushed, s, n
    <2> QED  BY <2>1, <2>2
  <1>13. all => t.out = <<>> /\ t.full = (s.full /\ s.log_at < g.head)
    BY <1>7
  <1>14. ~all => t.out = s.out /\ t.full /\ t.out # <<>>
    <2>1. ~all => s.out # <<>>
      BY <1>0, <1>2
    <2> QED  BY <1>7, <2>1
  <1>15. s.out = <<>> => t.out = <<>>
    BY <1>13, <1>14
  <1>16. \A d \in Clients \ {c} : h.wire[d] = g.wire[d]
    BY <1>0, <1>9
  <1>17. \A j \in Slots \ {k} : h.conn[j] = g.conn[j]
    BY <1>0, <1>9
  <1>18. Len(h.wire[c]) <= SockMax
    BY <1>4, <1>8, <1>10
  <1> QED  BY <1>7, <1>9, <1>10, <1>11, <1>12, <1>13, <1>14, <1>15, <1>16, <1>17, <1>18 DEF FlushDone, all, h, s

\* The reply is the same, and so is how far the connection has come with it.
LEMMA FlushedOK ==
  ASSUME NEW s \in ASlot, NEW t \in ASlot, Unflushed(s, t), Shape(t), s.out = <<>> => t.out = <<>>,
         NEW q, NEW gone, NEW v, NEW r, SlotOK(s, q, gone, v, r), t.full => s.full \/ r # <<>>
  PROVE  SlotOK(t, q, gone, v, r)
  BY DEF SlotOK, Progress, Unflushed

\* Between a line that is logged and what ctl_feed() does about it.
Near(s, t, r) == Level(s, t, r) /\ (s.listing = "log" /\ r = <<>> => s.watch)
NearAt(u, g, k) ==
  ~Away(u, g.conn[k].who) => Near(g.conn[k], g.tail, Given(u, g, g.conn[k]))

LEMMA SentIs ==
  ASSUME NEW u \in AClients, NEW g \in AServer, NEW c \in Clients
  PROVE  /\ u.got[c] \in Seq(ALine) /\ g.wire[c] \in Seq(ALine) /\ Sent(u, g, c) \in Seq(ALine)
         /\ g.verdict[c] \in {None, "ok", "err"} /\ Away(u, c) \in BOOLEAN
  <1>1. u.got[c] \in Seq(ALine) /\ g.wire[c] \in Seq(ALine) /\ g.verdict[c] \in {None, "ok", "err"}
    BY ServerFields, ClientFields
  <1> QED  BY <1>1, ConcatIs DEF Sent, Away

\* ctl_fill() on a connection of ninit.
LEMMA FilledOK ==
  ASSUME NEW u, NEW g, Base(u, g), NEW k \in Used(g), LevelAt(u, g, k)
  PROVE  LET s == g.conn[k]
             c == s.who
             f == ctl_fill(g, k)
             t == f.conn[k]
         IN  /\ Only(g, f, k) /\ Base(u, f) /\ Keeps(u, g, f) /\ f.wire = g.wire /\ f.ops = g.ops
             /\ Fills(g, s, t, u.req[c], Away(u, c), g.verdict[c], Sent(u, g, c)) /\ Turned(g, s, t)
  <1> DEFINE s == g.conn[k]
             c == s.who
             f == ctl_fill(g, k)
             b == Sent(u, g, c)
  <1>0. /\ u \in AClients /\ g \in AServer /\ ConnOK(u, g, k) /\ ClientOK(u, g, c) /\ c \in Clients
        /\ k \in Slots /\ s \in ASlot
    BY UsedIs DEF Base, Good, ConnOK
  <1>1. b \in Seq(ALine) /\ g.verdict[c] \in {None, "ok", "err"} /\ Away(u, c) \in BOOLEAN
    BY <1>0, SentIs
  <1>2. Fillable(g, s, u.req[c], Away(u, c), g.verdict[c], b)
    BY <1>0 DEF Fillable, ConnOK, LevelAt, Level, Given
  <1> DEFINE t == f.conn[k]
  <1>3. /\ Fills(g, s, t, u.req[c], Away(u, c), g.verdict[c], b) /\ Turned(g, s, t)
        /\ f \in AServer /\ \A j \in Slots \ {k} : f.conn[j] = g.conn[j]
        /\ f.n = g.n /\ f.ops = g.ops /\ f.inq = g.inq /\ f.wire = g.wire /\ f.closed = g.closed
        /\ f.verdict = g.verdict /\ f.head = g.head /\ f.tail = g.tail
    <2>1. PICK gone \in BOOLEAN : gone <=> Away(u, c)
      BY <1>1
    <2>2. Fillable(g, s, u.req[c], gone, g.verdict[c], b)
      BY <1>2, <2>1 DEF Fillable, SlotOK
    <2> HIDE DEF b
    <2>3. /\ Fills(g, s, t, u.req[c], gone, g.verdict[c], b) /\ Turned(g, s, t)
          /\ f \in AServer /\ \A j \in Slots \ {k} : f.conn[j] = g.conn[j]
          /\ f.n = g.n /\ f.ops = g.ops /\ f.inq = g.inq /\ f.wire = g.wire /\ f.closed = g.closed
          /\ f.verdict = g.verdict /\ f.head = g.head /\ f.tail = g.tail
      <3> DEFINE q == u.req[c]
                 v == g.verdict[c]
      <3>1. /\ Fillable(g, g.conn[k], q, gone, v, b) /\ b \in Seq(ALine) /\ v \in {None, "ok", "err"}
            /\ g \in AServer /\ k \in Slots
        BY <1>0, <1>1, <2>2
      <3> HIDE DEF q, v, c
      <3>2. /\ Fills(g, s, t, q, gone, v, b) /\ Turned(g, s, t)
            /\ f \in AServer /\ \A j \in Slots \ {k} : f.conn[j] = g.conn[j]
            /\ f.n = g.n /\ f.ops = g.ops /\ f.inq = g.inq /\ f.wire = g.wire /\ f.closed = g.closed
            /\ f.verdict = g.verdict /\ f.head = g.head /\ f.tail = g.tail
        <4>1. f = ctl_fill(g, k) /\ s = g.conn[k]
          OBVIOUS
        <4>2. FillDone(g, ctl_fill(g, k), k, q, gone, v, b)
          BY <3>1, FillDoes
        <4> HIDE DEF f
        <4>3. FillDone(g, f, k, q, gone, v, b)
          BY <4>1, <4>2
        <4> QED  BY <4>3 DEF FillDone
      <3> QED  BY <3>2 DEF q, v
    <2>4. Fills(g, s, t, u.req[c], Away(u, c), g.verdict[c], b)
      BY <2>1, <2>3 DEF Fills, SlotOK
    <2> QED  BY <2>3, <2>4
  <1>4. t \in ASlot /\ Like(s, t) /\ t.svc = s.svc
    BY <1>3 DEF Fills
  <1> HIDE DEF f
  <1>6. Only(g, f, k)
    <2>1. \A d \in Clients : f.inq[d] <= g.inq[d]
      BY <1>0, <1>3, ServerFields
    <2> QED  BY <1>4, <1>3, <2>1 DEF Only, Like
  <1>7. Given(u, f, t) = b \o Rest(t)
    BY <1>4, <1>3 DEF Given, Sent, Like
  <1>8. SlotOK(t, u.req[c], Away(u, c), f.verdict[c], Given(u, f, t))
    BY <1>3, <1>7 DEF Fills
  <1>9. /\ Len(f.wire[c]) <= SockMax /\ (f.verdict[c] = "ok" => u.req[c] \in Ops \union {"short"})
        /\ (t.svc # None => f.ops[t.svc] = c)
    BY <1>0, <1>4, <1>3 DEF ClientOK, ConnOK
  <1>10. \A i \in Ops : g.ops[i] = None /\ f.ops[i] = c => u.req[c] = i
    BY <1>0, <1>3, Consts
  <1>11. Base(u, f) /\ Keeps(u, g, f)
    BY <1>3, <1>6, <1>8, <1>9, <1>10, OnlyKeeps
  <1> QED  BY <1>3, <1>6, <1>11 DEF f

\* And then ctl_flush().
LEMMA FlushedIs ==
  ASSUME NEW g, Base(u0, g), NEW k \in Used(g)
  PROVE  LET c == g.conn[k].who
             h == ctl_flush(g, k)
         IN  /\ flushed(g, k) \in {-1, 0, 1} /\ (flushed(g, k) = -1 => h = g /\ Away(u0, c))
             /\ flushed(g, k) # -1 =>
                  /\ Only(g, h, k) /\ Base(u0, h) /\ Keeps(u0, g, h)
                  /\ Unflushed(g.conn[k], h.conn[k]) /\ h.ops = g.ops
                  /\ Given(u0, h, h.conn[k]) = Given(u0, g, g.conn[k])
                  /\ flushed(g, k) = 1 => /\ h.conn[k].out = <<>>
                                          /\ h.conn[k].full = (g.conn[k].full /\ g.conn[k].log_at < g.head)
                  /\ flushed(g, k) # 1 => h.conn[k].full
  <1> DEFINE s == g.conn[k]
             c == s.who
             h == ctl_flush(g, k)
             t == h.conn[k]
             rc == flushed(g, k)
  <1>0. /\ u0 \in AClients /\ g \in AServer /\ ConnOK(u0, g, k) /\ ClientOK(u0, g, c) /\ c \in Clients
        /\ k \in Slots /\ s \in ASlot
    BY UsedIs DEF Base, Good, ConnOK
  <1>1. rc \in {-1, 0, 1} /\ (rc = -1 => h = g /\ Away(u0, c))
    <2>1. rc \in {-1, 0, 1} /\ (rc = -1 => Gone(c))
      <3>1. CASE ~Pending(s)
        BY <3>1 DEF flushed
      <3>2. CASE Pending(s) /\ Gone(c)
        BY <3>2 DEF flushed
      <3>3. CASE Pending(s) /\ ~Gone(c)
        BY <3>3 DEF flushed
      <3> QED  BY <3>1, <3>2, <3>3
    <2>2. rc = -1 => h = g
      BY DEF ctl_flush
    <2> QED  BY <2>1, <2>2, GoneIs
  <1>2. ASSUME rc # -1
        PROVE  /\ Only(g, h, k) /\ Base(u0, h) /\ Keeps(u0, g, h) /\ Unflushed(s, t)
               /\ h.ops = g.ops
               /\ Given(u0, h, t) = Given(u0, g, s)
               /\ rc = 1 => t.out = <<>> /\ t.full = (s.full /\ s.log_at < g.head)
               /\ rc # 1 => t.full
    <2>1. Shape(s) /\ Len(g.wire[c]) <= SockMax
      BY <1>0 DEF ConnOK, ClientOK, SlotOK
    <2>2. /\ h \in AServer /\ \A j \in Slots \ {k} : h.conn[j] = g.conn[j]
          /\ h.n = g.n /\ h.ops = g.ops /\ h.inq = g.inq /\ h.closed = g.closed
          /\ h.verdict = g.verdict /\ h.head = g.head /\ h.tail = g.tail
          /\ \A d \in Clients \ {c} : h.wire[d] = g.wire[d]
          /\ Unflushed(s, t) /\ Shape(t) /\ Len(h.wire[c]) <= SockMax
          /\ h.wire[c] \o Rest(t) = g.wire[c] \o Rest(s)
          /\ rc = 1 => t.out = <<>> /\ t.full = (s.full /\ s.log_at < g.head)
          /\ rc # 1 => t.out # <<>> /\ t.full
          /\ (s.out = <<>> => t.out = <<>>)
      <3>1. FlushDone(g, h, k, c, rc)
        BY <1>0, <1>2, <2>1, FlushDoes
      <3> HIDE DEF h, rc
      <3> QED  BY <3>1 DEF FlushDone
    <2> HIDE DEF h, rc
    <2>3. Only(g, h, k)
      <3>1. \A d \in Clients : h.inq[d] <= g.inq[d]
        <4>1. h.inq = g.inq /\ g.inq \in [Clients -> Nat]
          BY <1>0, <2>2, ServerFields
        <4> QED  BY <4>1
      <3> QED  BY <2>2, <3>1 DEF Only, Unflushed
    <2>4. t \in ASlot /\ t.who = c
      BY <1>0, <2>2, ServerFields DEF Unflushed
    <2>5. Given(u0, h, t) = Given(u0, g, s)
      <3> DEFINE x == u0.got[c]
                 wh == h.wire[c]
                 wg == g.wire[c]
                 rt == Rest(t)
                 rs == Rest(s)
      <3>1. x \in Seq(ALine) /\ wh \in Seq(ALine) /\ wg \in Seq(ALine)
        BY <1>0, <2>2, SentIs
      <3>2. rt \in Seq(ALine) /\ rs \in Seq(ALine) /\ wh \o rt = wg \o rs
        BY <1>0, <2>1, <2>2, <2>4, RestIs
      <3>3. Given(u0, h, t) = (x \o wh) \o rt /\ Given(u0, g, s) = (x \o wg) \o rs
        BY <2>4 DEF Given, Sent
      <3> HIDE DEF x, wh, wg, rt, rs
      <3>4. (x \o wh) \o rt = x \o (wh \o rt)
        <4>1. x \in Seq(ALine) /\ wh \in Seq(ALine) /\ rt \in Seq(ALine)
          BY <3>1, <3>2
        <4> QED  BY <4>1, ConcatThree
      <3>5. (x \o wg) \o rs = x \o (wg \o rs)
        <4>1. x \in Seq(ALine) /\ wg \in Seq(ALine) /\ rs \in Seq(ALine)
          BY <3>1, <3>2
        <4> QED  BY <4>1, ConcatThree
      <3> QED  BY <3>2, <3>3, <3>4, <3>5
    <2>6. t.full => s.full \/ Given(u0, g, s) # <<>>
      <3> SUFFICES ASSUME t.full, ~s.full PROVE Given(u0, g, s) # <<>>
        OBVIOUS
      <3>1. s.out # <<>>
        BY <1>1, <2>2
      <3>2. Rest(s) # <<>> /\ Rest(s) \in Seq(ALine) /\ Sent(u0, g, c) \in Seq(ALine)
        BY <1>0, <2>1, <3>1, RestIs, SentIs
      <3> QED  BY <3>2, ConcatSome DEF Given
    <2>7. SlotOK(t, u0.req[c], Away(u0, c), h.verdict[c], Given(u0, h, t))
      <3>1. SlotOK(s, u0.req[c], Away(u0, c), g.verdict[c], Given(u0, g, s))
        BY <1>0 DEF ConnOK
      <3> DEFINE r == Given(u0, g, s)
                 q == u0.req[c]
                 gone == Away(u0, c)
                 v == g.verdict[c]
      <3>2. /\ s \in ASlot /\ t \in ASlot /\ Unflushed(s, t) /\ Shape(t) /\ (s.out = <<>> => t.out = <<>>)
            /\ SlotOK(s, q, gone, v, r) /\ (t.full => s.full \/ r # <<>>)
        BY <1>0, <2>2, <2>4, <2>6, <3>1
      <3> HIDE DEF r, q, gone, v, s, t
      <3>3. SlotOK(t, q, gone, v, r)
        BY <3>2, FlushedOK
      <3>4. h.verdict = g.verdict /\ Given(u0, h, t) = r
        BY <2>2, <2>5 DEF r
      <3> QED  BY <3>3, <3>4 DEF q, gone, v, c
    <2>8. /\ (h.verdict[c] = "ok" => u0.req[c] \in Ops \union {"short"})
          /\ (t.svc # None => h.ops[t.svc] = c)
      BY <1>0, <2>2 DEF ClientOK, ConnOK, Unflushed
    <2>9. \A i \in Ops : g.ops[i] = None /\ h.ops[i] = c => u0.req[c] = i
      <3>1. h.ops = g.ops /\ c # None
        BY <1>0, <2>2, Consts
      <3> QED  BY <3>1
    <2>10. Base(u0, h) /\ Keeps(u0, g, h)
      BY <2>2, <2>3, <2>7, <2>8, <2>9, OnlyKeeps, ZenonT(30)
    <2> QED  BY <2>2, <2>3, <2>5, <2>10
  <1> QED  BY <1>1, <1>2

LEMMA OnlyTwo ==
  ASSUME NEW g \in AServer, NEW f, NEW h, NEW k, Only(g, f, k), Only(f, h, k), f.ops = g.ops, h.ops = g.ops,
         f.conn[k].svc = g.conn[k].svc, h.conn[k].svc = g.conn[k].svc
  PROVE  Only(g, h, k)
  <1>1. ASSUME NEW c \in Clients PROVE h.inq[c] <= g.inq[c]
    <2>1. g.inq[c] \in Nat /\ h.inq[c] \in Nat /\ f.inq[c] \in Nat /\ f.inq[c] <= g.inq[c] /\ h.inq[c] <= f.inq[c]
      BY ServerFields DEF Only
    <2> QED  BY <2>1
  <1> QED  BY <1>1 DEF Only

\* What a connection is like after ctl_fill() and ctl_flush().
LEMMA AheadAfter ==
  ASSUME NEW s \in ASlot, NEW t \in ASlot, NEW x \in ASlot, NEW g \in AServer, NEW b \in Seq(ALine),
         g.tail <= g.head, NEW q, NEW v, Shape(s), Level(s, g.tail, b \o Rest(s)),
         Fills(g, s, t, q, FALSE, v, b), Turned(g, s, t), Unflushed(t, x),
         x.full \/ (x.out = <<>> /\ x.full = (t.full /\ t.log_at < g.head))
  PROVE  Ahead(x, g.head, g.tail, b \o Rest(t))
  <1>0. /\ g.head \in Int /\ g.tail \in Int /\ s.log_at \in Int /\ t.log_at \in Int
        /\ x.log_at = t.log_at /\ x.listing = t.listing /\ x.watch = s.watch /\ t.watch = s.watch
        /\ t.full = s.full /\ s.log_at <= t.log_at /\ RingLines \in Nat \ {0} /\ CTL_OUT \in Nat /\ CTL_OUT >= 2
        /\ Rest(t) \in Seq(ALine) /\ (Rest(t) = <<>> <=> t.out = <<>>)
    BY SlotFields, ServerFields, Consts, RestIs DEF Fills, Like, Unflushed, SlotOK
  <1>1. x.listing = "log" /\ b \o Rest(t) = <<>> => x.watch
    <2> SUFFICES ASSUME x.listing = "log", b \o Rest(t) = <<>> PROVE x.watch
      OBVIOUS
    <2>1. Rest(t) = <<>>
      BY <1>0, ConcatSome
    <2> QED  BY <1>0, <2>1 DEF Turned
  <1>2. ASSUME x.watch, ~x.full
        PROVE  x.out = <<>> /\ g.tail <= x.log_at /\ (g.tail < x.log_at \/ 2 * (g.head - x.log_at) < RingLines)
    <2>1. x.out = <<>> /\ ~(t.full /\ t.log_at < g.head)
      BY <1>2
    <2>2. CASE g.head <= t.log_at
      BY <1>0, <2>1, <2>2
    <2>3. CASE t.log_at < g.head
      <3>1. ~s.full /\ s.log_at < g.head /\ s.watch
        BY <1>0, <1>2, <2>1, <2>3
      <3>2. s.out = <<>> /\ g.tail <= s.log_at /\ s.listing = "log"
        BY <3>1 DEF Level, Shape
      <3>3. Len(s.out) < CTL_OUT
        BY <1>0, <3>2
      <3>4. s.log_at < t.log_at
        BY <3>1, <3>2, <3>3 DEF Turned
      <3> QED  BY <1>0, <2>1, <3>2, <3>4
    <2> QED  BY <1>0, <2>2, <2>3
  <1> QED  BY <1>1, <1>2 DEF Ahead

\* ctl_fill() and ctl_flush(): the connection is level with the log, and one line more
\* does not overtake it.
LEMMA WrittenOK ==
  ASSUME NEW g, Base(u0, g), NEW k \in Used(g), LevelAt(u0, g, k)
  PROVE  LET f == ctl_fill(g, k)
             w == ctl_flush(f, k)
         IN  /\ Only(g, w, k) /\ Base(u0, w) /\ Keeps(u0, g, w) /\ AheadAt(u0, w, k)
             /\ flushed(f, k) \in {-1, 0, 1}
             /\ flushed(f, k) = -1 => Away(u0, w.conn[k].who)
             /\ flushed(f, k) = 1 => w.conn[k].out = <<>> /\ w.conn[k].done = f.conn[k].done
  <1> DEFINE s == g.conn[k]
             c == s.who
             f == ctl_fill(g, k)
             t == f.conn[k]
             w == ctl_flush(f, k)
             x == w.conn[k]
             b == Sent(u0, g, c)
             rc == flushed(f, k)
  <1> SUFFICES /\ Only(g, w, k) /\ Base(u0, w) /\ Keeps(u0, g, w) /\ AheadAt(u0, w, k)
               /\ rc \in {-1, 0, 1} /\ (rc = -1 => Away(u0, x.who))
               /\ rc = 1 => x.out = <<>> /\ x.done = t.done
    OBVIOUS
  <1>0. /\ u0 \in AClients /\ g \in AServer /\ ConnOK(u0, g, k) /\ c \in Clients /\ k \in Slots /\ s \in ASlot
        /\ g.tail <= g.head /\ Shape(s)
    BY UsedIs DEF Base, Good, ConnOK, SlotOK
  <1>1. /\ Only(g, f, k) /\ Base(u0, f) /\ Keeps(u0, g, f) /\ f.wire = g.wire /\ f.ops = g.ops
        /\ Fills(g, s, t, u0.req[c], Away(u0, c), g.verdict[c], b) /\ Turned(g, s, t)
    BY FilledOK
  <1> HIDE DEF f
  <1>2. k \in Used(f) /\ t.who = c /\ t.svc = s.svc /\ f \in AServer /\ t \in ASlot /\ f.head = g.head /\ f.tail = g.tail
    BY <1>0, <1>1, OnlyOpen DEF Only, Fills
  <1>3. /\ rc \in {-1, 0, 1} /\ (rc = -1 => w = f /\ Away(u0, c))
        /\ rc # -1 =>
             /\ Only(f, w, k) /\ Base(u0, w) /\ Keeps(u0, f, w) /\ Unflushed(t, x)
             /\ w.ops = f.ops /\ Given(u0, w, x) = Given(u0, f, t)
             /\ rc = 1 => x.out = <<>> /\ x.full = (t.full /\ t.log_at < f.head)
             /\ rc # 1 => x.full
    BY <1>1, <1>2, FlushedIs
  <1> HIDE DEF w, rc
  <1>4. CASE rc = -1
    BY <1>1, <1>2, <1>3, <1>4 DEF AheadAt
  <1>5. CASE rc # -1
    <2>1. w \in AServer /\ x \in ASlot /\ x.who = c /\ x.svc = s.svc /\ x.done = t.done
      BY <1>0, <1>2, <1>3, <1>5, ServerFields DEF Only, Unflushed
    <2>2. f.ops = g.ops /\ w.ops = g.ops
      BY <1>1, <1>3, <1>5
    <2>3. Only(g, w, k)
      BY <1>0, <1>1, <1>2, <1>3, <1>5, <2>1, <2>2, OnlyTwo
    <2>4. Keeps(u0, g, w)
      BY <1>0, <1>1, <1>2, <1>3, <1>5, <2>1, KeepsTwo
    <2>5. AheadAt(u0, w, k)
      <3> SUFFICES ASSUME ~Away(u0, c) PROVE Ahead(x, w.head, w.tail, Given(u0, w, x))
        BY <2>1 DEF AheadAt
      <3>1. Given(u0, g, s) = b \o Rest(s) /\ Given(u0, w, x) = b \o Rest(t)
        BY <1>1, <1>2, <1>3, <1>5 DEF Given, Sent
      <3>2. w.head = g.head /\ w.tail = g.tail
        BY <2>3 DEF Only
      <3>3. Level(s, g.tail, b \o Rest(s))
        BY <3>1 DEF LevelAt
      <3>4. b \in Seq(ALine)
        BY <1>0, SentIs
      <3>5. Fills(g, s, t, u0.req[c], FALSE, g.verdict[c], b) /\ Turned(g, s, t)
        BY <1>1 DEF Fills, SlotOK
      <3>6. Unflushed(t, x) /\ (x.full \/ (x.out = <<>> /\ x.full = (t.full /\ t.log_at < g.head)))
        BY <1>2, <1>3, <1>5
      <3> HIDE DEF s, t, x, b, c
      <3>7. Ahead(x, g.head, g.tail, b \o Rest(t))
        BY <1>0, <1>2, <2>1, <3>3, <3>4, <3>5, <3>6, AheadAfter
      <3> QED  BY <3>1, <3>2, <3>7
    <2> QED  BY <1>3, <1>5, <2>1, <2>3, <2>4, <2>5
  <1> QED  BY <1>4, <1>5

\* The connection is dropped once all is written, or when its client is gone.
LEMMA PumpOK ==
  ASSUME NEW g, Base(u0, g), NEW k \in Used(g), LevelAt(u0, g, k)
  PROVE  LET h == ctl_pump(g, k) IN
         /\ Base(u0, h) /\ Keeps(u0, g, h) /\ h \in AServer /\ h.n \in {g.n, g.n - 1}
         /\ (\A j \in Used(g) \ {k} : AheadAt(u0, g, j)) => \A j \in Used(h) : AheadAt(u0, h, j)
  <1> DEFINE f == ctl_fill(g, k)
             w == ctl_flush(f, k)
             rc == flushed(f, k)
             d == f.conn[k].done
             h == ctl_pump(g, k)
  <1> SUFFICES /\ Base(u0, h) /\ Keeps(u0, g, h) /\ h \in AServer /\ h.n \in {g.n, g.n - 1}
               /\ (\A j \in Used(g) \ {k} : AheadAt(u0, g, j)) => \A j \in Used(h) : AheadAt(u0, h, j)
    OBVIOUS
  <1>0. h = IF rc = -1 \/ (rc = 1 /\ d) THEN ctl_drop(w, k) ELSE w
    BY DEF ctl_pump
  <1>1. /\ Only(g, w, k) /\ Base(u0, w) /\ Keeps(u0, g, w) /\ AheadAt(u0, w, k)
        /\ (rc = -1 => Away(u0, w.conn[k].who)) /\ (rc = 1 => w.conn[k].out = <<>> /\ w.conn[k].done = d)
    BY WrittenOK
  <1> HIDE DEF f, w, rc, d, h
  <1>2. g \in AServer /\ w \in AServer /\ Used(w) = Used(g) /\ w.n = g.n /\ g.n \in Nat /\ Good(u0, g)
    <2>1. g \in AServer /\ Good(u0, g)
      BY DEF Base, Good
    <2> QED  BY <1>1, <2>1, OnlyOpen, UsedIs DEF Only
  <1>3. (\A j \in Used(g) \ {k} : AheadAt(u0, g, j)) => \A j \in Used(w) : AheadAt(u0, w, j)
    BY <1>1, <1>2, OnlyAhead
  <1>4. CASE rc = -1 \/ (rc = 1 /\ d)
    <2>1. h = ctl_drop(w, k)
      BY <1>0, <1>4
    <2>2. Away(u0, w.conn[k].who) \/ (w.conn[k].done /\ w.conn[k].out = <<>>)
      BY <1>1, <1>4
    <2>3. /\ Base(u0, h) /\ Keeps(u0, w, h) /\ h.n = w.n - 1 /\ h \in AServer
          /\ (\A j \in Used(w) : AheadAt(u0, w, j)) => \A j \in Used(h) : AheadAt(u0, h, j)
      BY <1>1, <1>2, <2>1, <2>2, DropKeeps
    <2>4. Keeps(u0, g, h)
      BY <1>1, <1>2, <2>3, KeepsTwo
    <2> QED  BY <1>2, <1>3, <2>3, <2>4
  <1>5. CASE ~(rc = -1 \/ (rc = 1 /\ d))
    <2>1. h = w
      BY <1>0, <1>5
    <2> QED  BY <1>1, <1>2, <1>3, <2>1
  <1> QED  BY <1>4, <1>5

-----------------------------------------------------------------------------
(* ctl_feed() *)

FeedTurn(p, k) ==
  LET f == ctl_fill(p.g, k)
      w == ctl_flush(f, k)
  IN  IF p.go THEN [g |-> w, go |-> flushed(f, k) = 1 /\ w.conn[k].log_at < w.head] ELSE p

FeedStart(g) == [g |-> g, go |-> TRUE]

IsFeed(F, g, k, n) == F = [m \in 0..n |-> IF m = 0 THEN FeedStart(g) ELSE FeedTurn(F[m - 1], k)]

LEMMA FeedAt ==
  ASSUME NEW g, NEW k, NEW n, NEW F, IsFeed(F, g, k, n)
  PROVE  \A m \in 0..n : F[m] = IF m = 0 THEN FeedStart(g) ELSE FeedTurn(F[m - 1], k)
  BY Zenon DEF IsFeed

LEMMA FeedExists ==
  ASSUME NEW g, NEW k, NEW n \in Nat PROVE \E F : IsFeed(F, g, k, n)
  <1> DEFINE T == {m \in 0..n : \E F : IsFeed(F, g, k, m)}
  <1>1. 0 \in T
    <2>1. IsFeed([m \in 0..0 |-> FeedStart(g)], g, k, 0)
      BY DEF IsFeed
    <2> QED  BY <2>1
  <1>2. ASSUME NEW m \in 1..n, m - 1 \in T PROVE m \in T
    <2>1. PICK F : IsFeed(F, g, k, m - 1)
      BY <1>2
    <2> DEFINE B == [j \in 0..m |-> IF j = m THEN FeedTurn(F[m - 1], k) ELSE F[j]]
    <2>2. \A j \in 0..m - 1 : F[j] = IF j = 0 THEN FeedStart(g) ELSE FeedTurn(F[j - 1], k)
      BY <2>1, FeedAt
    <2>3. \A j \in 0..m : B[j] = IF j = 0 THEN FeedStart(g) ELSE FeedTurn(B[j - 1], k)
      BY <2>2
    <2>4. IsFeed(B, g, k, m)
      BY <2>3 DEF IsFeed
    <2> QED  BY <2>4
  <1> HIDE DEF T
  <1>3. n \in T
    BY <1>1, <1>2, UpTo
  <1> QED  BY <1>3 DEF T

LEMMA FeedIs ==
  ASSUME NEW g, NEW k
  PROVE  \E F : /\ IsFeed(F, g, k, RingLines + 1)
                /\ feed_one(g, k) =
                     IF ~g.conn[k].watch \/ Pending(g.conn[k]) \/ 2 * (g.head - g.conn[k].log_at) < RingLines THEN g
                     ELSE F[RingLines + 1].g
  <1> DEFINE F == CHOOSE F : IsFeed(F, g, k, RingLines + 1)
  <1>0. RingLines + 1 \in Nat
    BY Consts
  <1>1. IsFeed(F, g, k, RingLines + 1)
    BY <1>0, FeedExists, Zenon
  <1>2. feed_one(g, k) =
          IF ~g.conn[k].watch \/ Pending(g.conn[k]) \/ 2 * (g.head - g.conn[k].log_at) < RingLines THEN g
          ELSE F[RingLines + 1].g
    BY Zenon DEF feed_one, IsFeed, FeedTurn, FeedStart
  <1> QED  BY <1>1, <1>2

\* h is g after something was written to the connection in slot k.
Fed(g, h, k) ==
  /\ Base(u0, h) /\ Keeps(u0, g, h) /\ h.n = g.n
  /\ \A j \in Used(g) \ {k} : (AheadAt(u0, g, j) => AheadAt(u0, h, j)) /\ (NearAt(u0, g, j) => NearAt(u0, h, j))

LEMMA OnlyNear ==
  ASSUME NEW u, NEW g, Good(u, g), NEW k \in Used(g), NEW h, Only(g, h, k), NEW j \in Used(g), j # k
  PROVE  NearAt(u, h, j) <=> NearAt(u, g, j)
  <1> DEFINE s == g.conn[j]
  <1>1. g \in AServer /\ Distinct(g) /\ s.who \in Clients
    BY DEF Good, ConnOK
  <1>2. h.conn[j] = s /\ s.who # g.conn[k].who
    BY <1>1, UsedIs DEF Only, Distinct
  <1>3. h.wire[s.who] = g.wire[s.who] /\ h.tail = g.tail
    BY <1>1, <1>2 DEF Only
  <1>4. Given(u, h, s) = Given(u, g, s)
    BY <1>3 DEF Given, Sent
  <1> HIDE DEF s
  <1> QED  BY <1>2, <1>3, <1>4 DEF NearAt, s

LEMMA FedOne ==
  ASSUME NEW g, Base(u0, g), NEW k \in Used(g), LevelAt(u0, g, k)
  PROVE  LET w == ctl_flush(ctl_fill(g, k), k) IN Fed(g, w, k) /\ AheadAt(u0, w, k) /\ LevelAt(u0, w, k)
  <1> DEFINE w == ctl_flush(ctl_fill(g, k), k)
  <1> SUFFICES Fed(g, w, k) /\ AheadAt(u0, w, k) /\ LevelAt(u0, w, k)
    OBVIOUS
  <1>1. Only(g, w, k) /\ Base(u0, w) /\ Keeps(u0, g, w) /\ AheadAt(u0, w, k)
    BY WrittenOK
  <1> HIDE DEF w
  <1>2. g \in AServer /\ Good(u0, g)
    BY DEF Base, Good
  <1>3. Used(w) = Used(g) /\ w.n = g.n
    BY <1>1, <1>2, OnlyOpen DEF Only
  <1>4. \A j \in Used(g) \ {k} :
          (AheadAt(u0, g, j) => AheadAt(u0, w, j)) /\ (NearAt(u0, g, j) => NearAt(u0, w, j))
    BY <1>1, <1>2, OnlyAhead, OnlyNear
  <1>5. ConnOK(u0, w, k)
    BY <1>1, <1>3 DEF Base, Good
  <1> QED  BY <1>1, <1>3, <1>4, <1>5, AheadLevel DEF Fed

LEMMA FedTwo ==
  ASSUME NEW g, Base(u0, g), NEW k, NEW h, Fed(g, h, k), NEW w, Fed(h, w, k)
  PROVE  Fed(g, w, k)
  <1>1. g \in AServer /\ h \in AServer /\ w \in AServer
    BY DEF Fed, Base, Good
  <1>2. Keeps(u0, g, w)
    BY <1>1, KeepsTwo DEF Fed
  <1>3. Used(h) = Used(g)
    BY DEF Fed, Used
  <1> QED  BY <1>2, <1>3 DEF Fed

\* A watcher is level with the log again, or its socket is full.
LEMMA FeedOneOK ==
  ASSUME NEW g, Base(u0, g), NEW k \in Used(g), NearAt(u0, g, k)
  PROVE  Fed(g, feed_one(g, k), k) /\ AheadAt(u0, feed_one(g, k), k)
  <1> DEFINE s == g.conn[k]
             skip == ~s.watch \/ Pending(s) \/ 2 * (g.head - s.log_at) < RingLines
  <1>0. g \in AServer /\ s \in ASlot /\ Shape(s) /\ LevelAt(u0, g, k) /\ RingLines \in Nat \ {0}
    BY UsedIs, Consts DEF Base, Good, ConnOK, SlotOK, NearAt, Near, LevelAt
  <1>1. PICK F : IsFeed(F, g, k, RingLines + 1) /\ feed_one(g, k) = IF skip THEN g ELSE F[RingLines + 1].g
    BY FeedIs
  <1>2. \A m \in 0..RingLines + 1 : F[m] = IF m = 0 THEN FeedStart(g) ELSE FeedTurn(F[m - 1], k)
    BY <1>1, FeedAt
  <1>3. Fed(g, g, k)
    BY <1>0, KeepsSame DEF Fed
  <1>4. CASE skip
    <2>1. Pending(s) <=> s.out # <<>>
      BY <1>0, RestIs
    <2>2. ASSUME ~Away(u0, s.who) PROVE Ahead(s, g.head, g.tail, Given(u0, g, s))
      <3>1. Near(s, g.tail, Given(u0, g, s))
        BY <2>2 DEF NearAt
      <3> QED  BY <1>4, <2>1, <3>1 DEF Near, Level, Ahead
    <2> QED  BY <1>1, <1>3, <1>4, <2>2 DEF AheadAt
  <1>5. CASE ~skip
    <2> HIDE DEF skip
    <2> DEFINE T == {m \in 0..RingLines + 1 : /\ Fed(g, F[m].g, k) /\ LevelAt(u0, F[m].g, k)
                                              /\ m > 0 => AheadAt(u0, F[m].g, k)}
    <2>1. 0 \in T
      <3>1. 0 \in 0..RingLines + 1
        BY <1>0
      <3>2. F[0].g = g
        BY <1>2, <3>1 DEF FeedStart
      <3> QED  BY <1>0, <1>3, <3>1, <3>2
    <2>2. ASSUME NEW m \in 1..RingLines + 1, m - 1 \in T PROVE m \in T
      <3> DEFINE p == F[m - 1]
      <3>0. m \in 0..RingLines + 1 /\ m # 0 /\ m > 0
        BY <1>0
      <3>1. F[m] = FeedTurn(p, k)
        BY <1>2, <3>0
      <3>2. Fed(g, p.g, k) /\ LevelAt(u0, p.g, k) /\ (m - 1 > 0 => AheadAt(u0, p.g, k))
        BY <2>2
      <3>3. m - 1 = 0 => p.go
        BY <1>2, <1>0 DEF FeedStart
      <3> HIDE DEF p
      <3>4. CASE p.go
        <4> DEFINE w == ctl_flush(ctl_fill(p.g, k), k)
        <4>1. F[m].g = w
          BY <3>1, <3>4 DEF FeedTurn
        <4>2. Base(u0, p.g) /\ k \in Used(p.g)
          BY <3>2 DEF Fed, Used
        <4>3. Fed(p.g, w, k) /\ AheadAt(u0, w, k) /\ LevelAt(u0, w, k)
          BY <3>2, <4>2, FedOne
        <4> HIDE DEF w
        <4>4. Fed(g, w, k)
          BY <3>2, <4>3, FedTwo
        <4> QED  BY <3>0, <4>1, <4>3, <4>4
      <3>5. CASE ~p.go
        <4>1. F[m] = p
          BY <3>1, <3>5 DEF FeedTurn
        <4>2. m - 1 > 0
          BY <3>0, <3>3, <3>5
        <4> QED  BY <3>0, <3>2, <4>1, <4>2
      <3> QED  BY <3>4, <3>5
    <2> HIDE DEF T
    <2>3. RingLines + 1 \in T
      <3>1. RingLines + 1 \in Nat
        BY <1>0
      <3> QED  BY <2>1, <2>2, <3>1, UpTo
    <2>4. RingLines + 1 > 0
      BY <1>0
    <2> QED  BY <1>1, <1>5, <2>3, <2>4 DEF T
  <1> QED  BY <1>4, <1>5

IsFeedAll(F, g, n) == F = [m \in 0..n |-> IF m = 0 THEN g ELSE feed_one(F[m - 1], m - 1)]

LEMMA FeedAllAt ==
  ASSUME NEW g, NEW n, NEW F, IsFeedAll(F, g, n)
  PROVE  \A m \in 0..n : F[m] = IF m = 0 THEN g ELSE feed_one(F[m - 1], m - 1)
  BY Zenon DEF IsFeedAll

LEMMA FeedAllExists ==
  ASSUME NEW g, NEW n \in Nat PROVE \E F : IsFeedAll(F, g, n)
  <1> DEFINE T == {m \in 0..n : \E F : IsFeedAll(F, g, m)}
  <1>1. 0 \in T
    <2>1. IsFeedAll([m \in 0..0 |-> g], g, 0)
      BY DEF IsFeedAll
    <2> QED  BY <2>1
  <1>2. ASSUME NEW m \in 1..n, m - 1 \in T PROVE m \in T
    <2>1. PICK F : IsFeedAll(F, g, m - 1)
      BY <1>2
    <2> DEFINE B == [j \in 0..m |-> IF j = m THEN feed_one(F[m - 1], m - 1) ELSE F[j]]
    <2>2. \A j \in 0..m - 1 : F[j] = IF j = 0 THEN g ELSE feed_one(F[j - 1], j - 1)
      BY <2>1, FeedAllAt
    <2>3. \A j \in 0..m : B[j] = IF j = 0 THEN g ELSE feed_one(B[j - 1], j - 1)
      BY <2>2
    <2>4. IsFeedAll(B, g, m)
      BY <2>3 DEF IsFeedAll
    <2> QED  BY <2>4
  <1> HIDE DEF T
  <1>3. n \in T
    BY <1>1, <1>2, UpTo
  <1> QED  BY <1>3 DEF T

LEMMA FeedAllIs ==
  ASSUME NEW g, g.n \in Nat
  PROVE  \E F : IsFeedAll(F, g, g.n) /\ ctl_feed(g) = IF phase = "down" THEN g ELSE F[g.n]
  <1> DEFINE F == CHOOSE F : IsFeedAll(F, g, g.n)
  <1>1. IsFeedAll(F, g, g.n)
    BY FeedAllExists, Zenon
  <1>2. ctl_feed(g) = IF phase = "down" THEN g ELSE F[g.n]
    BY Zenon DEF ctl_feed, IsFeedAll
  <1> QED  BY <1>1, <1>2

LEMMA FeedAllOK ==
  ASSUME NEW g, Base(u0, g), phase # "down" => \A k \in Used(g) : NearAt(u0, g, k)
  PROVE  LET h == ctl_feed(g) IN
         /\ Base(u0, h) /\ Keeps(u0, g, h)
         /\ phase # "down" => \A k \in Used(h) : AheadAt(u0, h, k)
  <1>0. g \in AServer /\ g.n \in Nat /\ Keeps(u0, g, g)
    BY UsedIs, KeepsSame DEF Base, Good
  <1>1. PICK F : IsFeedAll(F, g, g.n) /\ ctl_feed(g) = IF phase = "down" THEN g ELSE F[g.n]
    BY <1>0, FeedAllIs
  <1>2. \A m \in 0..g.n : F[m] = IF m = 0 THEN g ELSE feed_one(F[m - 1], m - 1)
    BY <1>1, FeedAllAt
  <1>3. CASE phase = "down"
    BY <1>0, <1>1, <1>3
  <1>4. CASE phase # "down"
    <2> DEFINE T == {m \in 0..g.n : /\ Base(u0, F[m]) /\ Keeps(u0, g, F[m]) /\ F[m].n = g.n
                                    /\ \A j \in Used(g) : IF j < m THEN AheadAt(u0, F[m], j)
                                                           ELSE NearAt(u0, F[m], j)}
    <2>1. 0 \in T
      <3>1. 0 \in 0..g.n /\ F[0] = g
        BY <1>0, <1>2
      <3>2. \A j \in Used(g) : ~(j < 0)
        BY <1>0, UsedIs
      <3> QED  BY <1>0, <1>4, <3>1, <3>2
    <2>2. ASSUME NEW m \in 1..g.n, m - 1 \in T PROVE m \in T
      <3> DEFINE p == F[m - 1]
                 k == m - 1
                 h == F[m]
      <3>0. m \in 0..g.n /\ m # 0 /\ m \in Nat /\ k \in Nat /\ k < g.n /\ k \in Used(g)
        BY <1>0, UsedIs
      <3>1. h = feed_one(p, k)
        BY <1>2, <3>0
      <3>2. /\ Base(u0, p) /\ Keeps(u0, g, p) /\ p.n = g.n
            /\ \A j \in Used(g) : IF j < k THEN AheadAt(u0, p, j) ELSE NearAt(u0, p, j)
        BY <2>2
      <3> HIDE DEF p, h
      <3>3. Used(p) = Used(g) /\ p \in AServer
        BY <3>2 DEF Used, Base, Good
      <3>4. NearAt(u0, p, k)
        BY <3>0, <3>2
      <3>5. Fed(p, h, k) /\ AheadAt(u0, h, k)
        BY <3>0, <3>1, <3>2, <3>3, <3>4, FeedOneOK
      <3>6. Base(u0, h) /\ h \in AServer /\ Keeps(u0, p, h) /\ h.n = g.n
        BY <3>2, <3>5 DEF Fed, Base, Good
      <3>7. Keeps(u0, g, h)
        BY <1>0, <3>2, <3>3, <3>6, KeepsTwo
      <3>8. ASSUME NEW j \in Used(g) PROVE IF j < m THEN AheadAt(u0, h, j) ELSE NearAt(u0, h, j)
        <4>0. j \in Nat
          BY <1>0, UsedIs
        <4>1. CASE j = k
          BY <3>0, <3>5, <4>1
        <4>2. CASE j # k
          <5>1. j < k <=> j < m
            BY <3>0, <4>0, <4>2
          <5> QED  BY <3>2, <3>3, <3>5, <4>2, <5>1 DEF Fed
        <4> QED  BY <4>1, <4>2
      <3> QED  BY <3>0, <3>6, <3>7, <3>8 DEF h
    <2> HIDE DEF T
    <2>3. g.n \in T
      BY <1>0, <2>1, <2>2, UpTo
    <2> DEFINE h == F[g.n]
    <2>4. /\ Base(u0, h) /\ Keeps(u0, g, h) /\ h.n = g.n
          /\ \A j \in Used(g) : IF j < g.n THEN AheadAt(u0, h, j) ELSE NearAt(u0, h, j)
      BY <2>3 DEF T
    <2>5. ctl_feed(g) = h
      BY <1>1, <1>4
    <2> HIDE DEF h
    <2>6. Used(h) = Used(g) /\ \A j \in Used(g) : j < g.n
      BY <1>0, <2>4, UsedIs DEF Used
    <2> QED  BY <2>4, <2>5, <2>6
  <1> QED  BY <1>3, <1>4

-----------------------------------------------------------------------------
(* Requests *)

\* h is g after a handler of the connection in slot k.
Handled(g, h, k) ==
  /\ Base(u0, h) /\ Keeps(u0, g, h) /\ h.n = g.n
  /\ \A j \in Used(g) \ {k} : AheadAt(u0, g, j) => AheadAt(u0, h, j)

LEMMA HandledTwo ==
  ASSUME NEW g, Base(u0, g), NEW k, NEW h, Handled(g, h, k), NEW w, Handled(h, w, k)
  PROVE  Handled(g, w, k)
  <1>1. g \in AServer /\ h \in AServer /\ w \in AServer
    BY DEF Handled, Base, Good
  <1>2. Keeps(u0, g, w)
    BY <1>1, KeepsTwo DEF Handled
  <1>3. Used(h) = Used(g)
    BY DEF Handled, Used
  <1> QED  BY <1>2, <1>3 DEF Handled

LEMMA OnlyHandled ==
  ASSUME NEW g, Base(u0, g), NEW k \in Used(g), NEW h, Only(g, h, k), Base(u0, h), Keeps(u0, g, h)
  PROVE  Handled(g, h, k)
  <1>1. \A j \in Used(g) \ {k} : AheadAt(u0, g, j) => AheadAt(u0, h, j)
    BY OnlyAhead DEF Base
  <1> QED  BY <1>1 DEF Handled, Only

\* What the proofs need of the connection in slot k.
LEMMA ConnIs ==
  ASSUME NEW u, NEW g, Base(u, g), NEW k \in Used(g)
  PROVE  LET s == g.conn[k] c == s.who IN
         /\ u \in AClients /\ g \in AServer /\ k \in Slots /\ s \in ASlot /\ c \in Clients /\ c # None
         /\ Shape(s) /\ u.req[c] \in Requests /\ (s.svc # None => g.ops[s.svc] = c)
         /\ Len(g.wire[c]) <= SockMax /\ (g.verdict[c] = "ok" => u.req[c] \in Ops \union {"short"})
         /\ Sent(u, g, c) \in Seq(ALine) /\ Rest(s) \in Seq(ALine)
         /\ ~Away(u, c) => Progress(u.req[c], s, g.verdict[c], Given(u, g, s)) /\ (s.full => Given(u, g, s) # <<>>)
  <1> DEFINE s == g.conn[k]
             c == s.who
  <1>1. u \in AClients /\ g \in AServer /\ ConnOK(u, g, k) /\ k \in Slots /\ s \in ASlot
    BY UsedIs DEF Base, Good
  <1>2. c \in Clients /\ c # None /\ Shape(s)
    BY <1>1, Consts DEF ConnOK, SlotOK
  <1>3. ClientOK(u, g, c)
    BY <1>2 DEF Base, Good
  <1>4. Sent(u, g, c) \in Seq(ALine) /\ Rest(s) \in Seq(ALine)
    BY <1>1, <1>2, SentIs, RestIs
  <1> QED  BY <1>1, <1>2, <1>3, <1>4 DEF ConnOK, SlotOK, ClientOK

\* A connection that has got no request, or that waits for an operation, and has no reply yet.
Quiet(s) == ~s.done /\ s.listing = None

LEMMA QuietIs ==
  ASSUME NEW u, NEW g, Base(u, g), NEW k \in Used(g), Quiet(g.conn[k])
  PROVE  LET s == g.conn[k] c == s.who IN
         /\ ~s.watch
         /\ ~Away(u, c) => /\ g.verdict[c] = None /\ s.out = <<>> /\ s.out_at = 0 /\ Sent(u, g, c) = <<>>
                           /\ Given(u, g, s) = <<>> /\ ~s.full
  <1> DEFINE s == g.conn[k]
             c == s.who
  <1>1. /\ s \in ASlot /\ Shape(s) /\ Sent(u, g, c) \in Seq(ALine) /\ Rest(s) \in Seq(ALine)
        /\ (~Away(u, c) => Progress(u.req[c], s, g.verdict[c], Given(u, g, s)) /\ (s.full => Given(u, g, s) # <<>>))
    BY ConnIs
  <1>2. ~s.watch
    BY <1>1 DEF Shape, Quiet, None
  <1>3. ASSUME ~Away(u, c)
        PROVE  /\ g.verdict[c] = None /\ s.out = <<>> /\ s.out_at = 0 /\ Sent(u, g, c) = <<>>
               /\ Given(u, g, s) = <<>> /\ ~s.full
    <2>1. g.verdict[c] = None /\ s.out = <<>> /\ Given(u, g, s) = <<>>
      BY <1>1, <1>3 DEF Progress, Quiet, None
    <2>2. s.out_at = 0
      BY <1>1, <2>1, RestIs
    <2>3. Sent(u, g, c) = <<>>
      BY <1>1, <2>1, ConcatSome DEF Given
    <2> QED  BY <1>1, <1>3, <2>1, <2>2, <2>3
  <1> QED  BY <1>2, <1>3

\* The buffer when nothing of it is written.
LEMMA AllRest ==
  ASSUME NEW s \in ASlot, s.out_at = 0 PROVE Rest(s) = s.out
  <1>1. s.out \in Seq(ALine)
    BY SlotFields
  <1> QED  BY <1>1 DEF Rest

\* ctl_end() on a connection without a reply.
LEMMA EndShape ==
  ASSUME NEW s \in ASlot, Shape(s), Quiet(s), NEW tag \in {"ok", "err"}
  PROVE  LET t == ctl_end(s, tag) IN
         /\ t \in ASlot /\ Like(s, t) /\ t.svc = None /\ t.listing = None /\ t.done /\ Shape(t)
         /\ s.out = <<>> => t.out = <<Line(tag, 0)>>
  <1> DEFINE t == ctl_end(s, tag)
             x == Line(tag, 0)
  <1> SUFFICES /\ t \in ASlot /\ Like(s, t) /\ t.svc = None /\ t.listing = None /\ t.done /\ Shape(t)
               /\ s.out = <<>> => t.out = <<x>>
    OBVIOUS
  <1>1. /\ t \in ASlot /\ Like(s, t) /\ t.svc = None /\ t.listing = None /\ t.done
        /\ t.out = IF Len(s.out) >= CTL_OUT THEN s.out ELSE Append(s.out, x)
    BY EndIs DEF Quiet
  <1>2. /\ x \in ALine /\ s.out \in Seq(ALine) /\ Len(s.out) \in Nat /\ CTL_OUT \in Nat /\ CTL_OUT >= 2
        /\ s.out_at \in Nat
    BY LineIs, SlotFields, Consts
  <1> HIDE DEF t, x
  <1>3. Append(s.out, x) # <<>> /\ Len(Append(s.out, x)) = Len(s.out) + 1
    BY <1>2, AppendSome, AppendIs
  <1>4. ~s.watch
    BY DEF Shape, Quiet, None
  <1>5. s.out = <<>> => t.out = <<x>>
    BY <1>1, <1>2
  <1>6. t.out_at = s.out_at /\ ~t.watch
    BY <1>1, <1>4 DEF Like
  <1>7. CASE Len(s.out) >= CTL_OUT
    <2>1. t.out = s.out
      BY <1>1, <1>7
    <2> QED  BY <1>1, <1>5, <1>6, <2>1 DEF Shape
  <1>8. CASE ~(Len(s.out) >= CTL_OUT)
    <2>1. Len(t.out) = Len(s.out) + 1
      BY <1>1, <1>3, <1>8
    <2> QED  BY <1>1, <1>2, <1>5, <1>6, <1>8, <2>1 DEF Shape
  <1> QED  BY <1>7, <1>8

\* A line and the end.
LEMMA ShortShape ==
  ASSUME NEW s \in ASlot, Shape(s), Quiet(s)
  PROVE  LET t == ctl_end(ctl_out(s, Line("data", 0)), "ok") IN
         /\ t \in ASlot /\ Like(s, t) /\ t.svc = None /\ t.listing = None /\ t.done /\ Shape(t)
         /\ s.out = <<>> => t.out = <<Line("data", 0), Line("ok", 0)>>
  <1> DEFINE x == Line("data", 0)
             y == Line("ok", 0)
             p == ctl_out(s, x)
             t == ctl_end(p, "ok")
  <1> SUFFICES /\ t \in ASlot /\ Like(s, t) /\ t.svc = None /\ t.listing = None /\ t.done /\ Shape(t)
               /\ s.out = <<>> => t.out = <<x, y>>
    OBVIOUS
  <1>1. /\ x \in ALine /\ y \in ALine /\ s.out \in Seq(ALine) /\ Len(s.out) \in Nat /\ CTL_OUT \in Nat /\ CTL_OUT >= 2
        /\ s.out_at \in Nat
    BY LineIs, SlotFields, Consts
  <1>2. /\ p \in ASlot /\ Like(s, p) /\ p.svc = s.svc /\ p.listing = s.listing /\ p.done = s.done
        /\ p.out = IF s.done \/ Len(s.out) >= CTL_OUT THEN s.out ELSE Append(s.out, x)
    BY <1>1, OutIs
  <1>3. Quiet(p)
    BY <1>2 DEF Quiet
  <1>4. /\ t \in ASlot /\ Like(p, t) /\ t.svc = None /\ t.listing = None /\ t.done
        /\ t.out = IF Len(p.out) >= CTL_OUT THEN p.out ELSE Append(p.out, y)
    BY <1>2, <1>3, EndIs DEF Quiet
  <1> HIDE DEF t, x, y, p
  <1>5. Like(s, t) /\ t.out_at = s.out_at /\ ~t.watch
    BY <1>2, <1>4 DEF Like, Shape, Quiet, None
  <1>6. Append(s.out, x) \in Seq(ALine) /\ Len(Append(s.out, x)) = Len(s.out) + 1
    BY <1>1, AppendIs
  <1>7. CASE Len(s.out) >= CTL_OUT
    <2>1. t.out = s.out /\ s.out # <<>>
      BY <1>1, <1>2, <1>4, <1>7
    <2> QED  BY <1>4, <1>5, <2>1 DEF Shape
  <1>8. CASE ~(Len(s.out) >= CTL_OUT)
    <2>1. p.out = Append(s.out, x)
      BY <1>2, <1>8 DEF Quiet
    <2>2. p.out \in Seq(ALine) /\ Len(p.out) = Len(s.out) + 1
      BY <1>6, <2>1
    <2>3. Len(Append(p.out, y)) = Len(p.out) + 1
      BY <1>1, <2>2, AppendIs
    <2>4. Len(t.out) > s.out_at /\ Len(t.out) <= CTL_OUT
      BY <1>1, <1>4, <1>8, <2>2, <2>3 DEF Shape
    <2>5. s.out = <<>> => t.out = <<x, y>>
      <3> SUFFICES ASSUME s.out = <<>> PROVE t.out = <<x, y>>
        OBVIOUS
      <3>1. Len(p.out) = 1 /\ p.out = <<x>>
        BY <1>1, <2>1, <2>2
      <3>2. t.out = Append(<<x>>, y)
        BY <1>1, <1>4, <3>1
      <3> DEFINE l == Append(<<x>>, y)
                 r == <<x, y>>
      <3>3. <<x>> \in Seq(ALine) /\ Len(<<x>>) = 1 /\ <<x>>[1] = x
        BY <1>1
      <3>4. l \in Seq(ALine) /\ Len(l) = 2 /\ l[1] = x /\ l[2] = y
        BY <1>1, <3>3, AppendIs
      <3>5. r \in Seq(ALine) /\ Len(r) = 2 /\ r[1] = x /\ r[2] = y
        BY <1>1
      <3> HIDE DEF l, r
      <3>6. l = r
        BY <3>4, <3>5, SeqSame
      <3> QED  BY <3>2, <3>6 DEF l, r
    <2>6. Shape(t)
      BY <1>1, <1>4, <1>5, <2>4 DEF Shape
    <2> QED  BY <1>4, <1>5, <2>5, <2>6
  <1> QED  BY <1>7, <1>8

\* h is g with the connection t in slot k.
Puts(g, h, k, t) ==
  /\ h \in AServer /\ h.n = g.n /\ h.wire = g.wire /\ h.closed = g.closed /\ h.head = g.head /\ h.tail = g.tail
  /\ h.conn[k] = t /\ \A j \in Slots \ {k} : h.conn[j] = g.conn[j]

\* The connection in slot k, that has no reply, becomes t with its reply, that v ends.
Answers(g, h, k, t, v) ==
  LET s == g.conn[k] IN
  /\ Puts(g, h, k, t) /\ h.inq = g.inq
  /\ h.verdict[s.who] = v /\ \A d \in Clients \ {s.who} : h.verdict[d] = g.verdict[d]
  /\ \A j \in Ops : h.ops[j] = IF j = s.svc THEN None ELSE g.ops[j]

LEMMA AnswerOK ==
  ASSUME NEW u, NEW g, Base(u, g), NEW k \in Used(g), Quiet(g.conn[k]), NEW c, c = g.conn[k].who,
         NEW v \in {"ok", "err"}, v = "ok" => u.req[c] \in Ops \union {"short"}, NEW t \in ASlot,
         Like(g.conn[k], t), t.svc = None, t.listing = None, t.done, Shape(t),
         g.conn[k].out = <<>> => t.out = ShortIs(u.req[c], v), NEW h, Answers(g, h, k, t, v)
  PROVE  Only(g, h, k) /\ Base(u, h) /\ Keeps(u, g, h) /\ AheadAt(u, h, k) /\ LevelAt(u, h, k)
  <1> DEFINE s == g.conn[k]
  <1>1. /\ u \in AClients /\ g \in AServer /\ k \in Slots /\ s \in ASlot /\ c \in Clients /\ c # None
        /\ Shape(s) /\ (s.svc # None => g.ops[s.svc] = c) /\ Len(g.wire[c]) <= SockMax
    BY ConnIs
  <1>2. ~Away(u, c) => s.out = <<>> /\ s.out_at = 0 /\ Sent(u, g, c) = <<>> /\ ~s.full
    BY QuietIs
  <1>3. /\ h \in AServer /\ h.n = g.n /\ h.wire = g.wire /\ h.closed = g.closed /\ h.head = g.head
        /\ h.tail = g.tail /\ h.conn[k] = t /\ \A j \in Slots \ {k} : h.conn[j] = g.conn[j]
    BY DEF Answers, Puts
  <1>4. /\ h.inq = g.inq /\ h.verdict[c] = v /\ \A d \in Clients \ {c} : h.verdict[d] = g.verdict[d]
        /\ \A j \in Ops : h.ops[j] = IF j = s.svc THEN None ELSE g.ops[j]
    BY DEF Answers
  <1>5. \A j \in Ops : \/ h.ops[j] = g.ops[j]
                       \/ g.ops[j] = c /\ h.ops[j] = None
    <2> TAKE j \in Ops
    <2>1. j # None
      BY Consts
    <2> QED  BY <1>1, <1>4, <2>1
  <1>6. t.who = c /\ t.fd = s.fd /\ t.full = s.full /\ t.out_at = s.out_at /\ ~t.watch
    BY QuietIs DEF Like
  <1>7. s.svc # None => h.ops[s.svc] = None
    BY <1>1, <1>4, SlotFields
  <1>8. \A d \in Clients : h.inq[d] <= g.inq[d]
    BY <1>1, <1>4, ServerFields
  <1>9. Only(g, h, k)
    BY <1>3, <1>4, <1>5, <1>6, <1>7, <1>8 DEF Only
  <1>10. SlotOK(t, u.req[c], Away(u, c), h.verdict[c], Given(u, h, t))
    <2>1. ASSUME ~Away(u, c) PROVE Progress(u.req[c], t, v, Given(u, h, t)) /\ ~t.full
      <3>1. Rest(t) = ShortIs(u.req[c], v)
        BY <1>2, <1>6, <2>1, AllRest
      <3>2. Given(u, h, t) = <<>> \o Rest(t)
        BY <1>2, <1>3, <1>6, <2>1 DEF Given, Sent
      <3>3. Rest(t) \in Seq(ALine)
        BY RestIs
      <3>4. Given(u, h, t) = ShortIs(u.req[c], v)
        BY <3>1, <3>2, <3>3, ConcatEmpty
      <3> QED  BY <1>2, <1>6, <2>1, <3>4 DEF Progress, Whole, None
    <2> QED  BY <1>4, <2>1 DEF SlotOK
  <1>11. \A i \in Ops : g.ops[i] = None /\ h.ops[i] = c => u.req[c] = i
    BY <1>1, <1>5
  <1>12. Base(u, h) /\ Keeps(u, g, h)
    BY <1>1, <1>3, <1>4, <1>9, <1>10, <1>11, OnlyKeeps
  <1>13. AheadAt(u, h, k) /\ LevelAt(u, h, k)
    BY <1>3, <1>6 DEF AheadAt, LevelAt, Ahead, Level, None
  <1> QED  BY <1>9, <1>12, <1>13

LEMMA AnswersIs ==
  ASSUME NEW g \in AServer, NEW k \in Slots, NEW c \in Clients, c = g.conn[k].who, g.conn[k].svc = None,
         NEW t \in ASlot, NEW v \in {"ok", "err"}, NEW h, h = [g EXCEPT !.verdict[c] = v, !.conn[k] = t]
  PROVE  Answers(g, h, k, t, v)
  <1> DEFINE cn == [g.conn EXCEPT ![k] = t]
             ve == [g.verdict EXCEPT ![c] = v]
  <1>1. g.conn \in [Slots -> ASlot] /\ g.verdict \in [Clients -> {None, "ok", "err"}]
    BY ServerFields
  <1>2. cn \in [Slots -> ASlot] /\ ve \in [Clients -> {None, "ok", "err"}]
    BY <1>1
  <1>3. h = [g EXCEPT !.verdict = ve, !.conn = cn]
    BY DEF AServer
  <1>4. cn[k] = t /\ \A j \in Slots \ {k} : cn[j] = g.conn[j]
    BY <1>1
  <1>5. ve[c] = v /\ \A d \in Clients \ {c} : ve[d] = g.verdict[d]
    BY <1>1
  <1> HIDE DEF cn, ve
  <1>6. /\ h \in AServer /\ h.conn = cn /\ h.ops = g.ops /\ h.inq = g.inq /\ h.verdict = ve
        /\ h.n = g.n /\ h.wire = g.wire /\ h.closed = g.closed /\ h.head = g.head /\ h.tail = g.tail
    BY <1>2, <1>3 DEF AServer
  <1>7. \A j \in Ops : j # g.conn[k].svc
    BY Consts
  <1>8. Puts(g, h, k, t)
    BY <1>4, <1>6 DEF Puts
  <1>9. h.verdict[c] = v /\ \A d \in Clients \ {c} : h.verdict[d] = g.verdict[d]
    BY <1>5, <1>6
  <1>10. \A j \in Ops : h.ops[j] = IF j = g.conn[k].svc THEN None ELSE g.ops[j]
    BY <1>6, <1>7
  <1>11. h.inq = g.inq
    BY <1>6
  <1> QED  BY <1>8, <1>9, <1>10, <1>11 DEF Answers

LEMMA RefuseOK ==
  ASSUME NEW g, Base(u0, g), NEW k \in Used(g), Quiet(g.conn[k]), g.conn[k].svc = None
  PROVE  LET h == Refuse(g, k) IN Handled(g, h, k) /\ AheadAt(u0, h, k) /\ LevelAt(u0, h, k)
  <1> DEFINE s == g.conn[k]
             c == s.who
             t == ctl_end(s, "err")
             h == Refuse(g, k)
  <1> SUFFICES Handled(g, h, k) /\ AheadAt(u0, h, k) /\ LevelAt(u0, h, k)
    OBVIOUS
  <1>1. g \in AServer /\ k \in Slots /\ s \in ASlot /\ c \in Clients /\ Shape(s)
    BY ConnIs
  <1>2. /\ t \in ASlot /\ Like(s, t) /\ t.svc = None /\ t.listing = None /\ t.done /\ Shape(t)
        /\ s.out = <<>> => t.out = <<Line("err", 0)>>
    BY <1>1, EndShape
  <1>3. ShortIs(u0.req[c], "err") = <<Line("err", 0)>>
    BY DEF ShortIs, None
  <1>4. h = [g EXCEPT !.verdict[c] = "err", !.conn[k] = t]
    BY DEF Refuse
  <1> HIDE DEF t, h
  <1>5. Answers(g, h, k, t, "err")
    BY <1>1, <1>2, <1>4, AnswersIs
  <1>6. Only(g, h, k) /\ Base(u0, h) /\ Keeps(u0, g, h) /\ AheadAt(u0, h, k) /\ LevelAt(u0, h, k)
    BY <1>2, <1>3, <1>5, AnswerOK
  <1> QED  BY <1>6, OnlyHandled

LEMMA ShortOK ==
  ASSUME NEW g, Base(u0, g), NEW k \in Used(g), Quiet(g.conn[k]), g.conn[k].svc = None,
         u0.req[g.conn[k].who] = "short", NEW r
  PROVE  LET h == ctl_short(g, k, r) IN Handled(g, h, k) /\ AheadAt(u0, h, k) /\ LevelAt(u0, h, k)
  <1> DEFINE s == g.conn[k]
             c == s.who
             t == ctl_end(ctl_out(s, Line("data", 0)), "ok")
             h == ctl_short(g, k, r)
  <1> SUFFICES Handled(g, h, k) /\ AheadAt(u0, h, k) /\ LevelAt(u0, h, k)
    OBVIOUS
  <1>0. CASE r = "err"
    BY <1>0, RefuseOK DEF ctl_short
  <1>1. CASE r # "err"
    <2>1. g \in AServer /\ k \in Slots /\ s \in ASlot /\ c \in Clients /\ Shape(s)
      BY ConnIs
    <2>2. /\ t \in ASlot /\ Like(s, t) /\ t.svc = None /\ t.listing = None /\ t.done /\ Shape(t)
          /\ s.out = <<>> => t.out = <<Line("data", 0), Line("ok", 0)>>
      BY <2>1, ShortShape
    <2>3. ShortIs(u0.req[c], "ok") = <<Line("data", 0), Line("ok", 0)>>
      BY DEF ShortIs, None
    <2>4. h = [g EXCEPT !.verdict[c] = "ok", !.conn[k] = t]
      BY <1>1 DEF ctl_short
    <2> HIDE DEF t, h
    <2>5. Answers(g, h, k, t, "ok")
      BY <2>1, <2>2, <2>4, AnswersIs
    <2>6. Only(g, h, k) /\ Base(u0, h) /\ Keeps(u0, g, h) /\ AheadAt(u0, h, k) /\ LevelAt(u0, h, k)
      BY <2>2, <2>3, <2>5, AnswerOK
    <2> QED  BY <2>6, OnlyHandled
  <1> QED  BY <1>0, <1>1

\* A request is taken: t begins with the reply.
LEMMA BeginOK ==
  ASSUME NEW u, NEW g, Base(u, g), NEW k \in Used(g), Quiet(g.conn[k]), g.conn[k].svc = None,
         NEW c, c = g.conn[k].who, NEW t \in ASlot, Shape(t),
         t.fd = g.conn[k].fd, t.who = c, t.out = g.conn[k].out, t.out_at = g.conn[k].out_at,
         t.full = g.conn[k].full,
         ~Away(u, c) => Progress(u.req[c], t, None, <<>>),
         NEW h, Puts(g, h, k, t), h.inq = g.inq, h.verdict = g.verdict,
         \/ h.ops = g.ops /\ t.svc = None
         \/ /\ t.svc \in Ops /\ g.ops[t.svc] = None /\ u.req[c] = t.svc
            /\ h.ops = [g.ops EXCEPT ![t.svc] = c]
  PROVE  /\ Only(g, h, k) /\ Base(u, h) /\ Keeps(u, g, h)
         /\ ~Away(u, c) => Given(u, h, t) = <<>> /\ t.out = <<>> /\ ~t.full
  <1> DEFINE s == g.conn[k]
  <1>1. /\ u \in AClients /\ g \in AServer /\ k \in Slots /\ s \in ASlot /\ c \in Clients /\ c # None
        /\ Len(g.wire[c]) <= SockMax /\ (g.verdict[c] = "ok" => u.req[c] \in Ops \union {"short"})
    BY ConnIs
  <1>2. ~Away(u, c) => /\ g.verdict[c] = None /\ s.out = <<>> /\ Given(u, g, s) = <<>> /\ ~s.full
    BY QuietIs
  <1>3. /\ h \in AServer /\ h.n = g.n /\ h.wire = g.wire /\ h.closed = g.closed /\ h.head = g.head
        /\ h.tail = g.tail /\ h.conn[k] = t /\ \A j \in Slots \ {k} : h.conn[j] = g.conn[j]
    BY DEF Puts
  <1>4. Given(u, h, t) = Given(u, g, s)
    BY <1>3 DEF Given, Sent, Rest
  <1>5. /\ \A i \in Ops : h.ops[i] = g.ops[i] \/ (g.ops[i] = None /\ h.ops[i] = c /\ t.svc = i /\ u.req[c] = i)
        /\ (t.svc # None => h.ops[t.svc] = c)
    <2>1. g.ops \in [Ops -> Clients \union {None}]
      BY <1>1, ServerFields
    <2> QED  BY <2>1
  <1>6. \A d \in Clients : h.inq[d] <= g.inq[d]
    BY <1>1, ServerFields
  <1>7. Only(g, h, k)
    BY <1>3, <1>5, <1>6 DEF Only
  <1>8. SlotOK(t, u.req[c], Away(u, c), h.verdict[c], Given(u, h, t))
    BY <1>2, <1>4 DEF SlotOK
  <1>9. \A i \in Ops : g.ops[i] = None /\ h.ops[i] = c => u.req[c] = i
    BY <1>1, <1>5
  <1>10. Base(u, h) /\ Keeps(u, g, h)
    BY <1>1, <1>3, <1>5, <1>7, <1>8, <1>9, OnlyKeeps
  <1> QED  BY <1>2, <1>4, <1>7, <1>10

\* All but in, that counts the parts of a request, is the same.
ButIn(s, t) ==
  /\ t.fd = s.fd /\ t.who = s.who /\ t.svc = s.svc /\ t.listing = s.listing /\ t.list_at = s.list_at
  /\ t.log_at = s.log_at /\ t.watch = s.watch /\ t.done = s.done /\ t.out = s.out /\ t.out_at = s.out_at
  /\ t.full = s.full

LEMMA TakeOK ==
  ASSUME NEW g, Base(u0, g), NEW k \in Used(g), NEW t \in ASlot, ButIn(g.conn[k], t),
         NEW h, Puts(g, h, k, t), h.verdict = g.verdict, h.ops = g.ops,
         \A d \in Clients : h.inq[d] <= g.inq[d]
  PROVE  /\ Handled(g, h, k) /\ (LevelAt(u0, g, k) => LevelAt(u0, h, k))
         /\ (AheadAt(u0, g, k) => AheadAt(u0, h, k))
  <1> DEFINE s == g.conn[k]
             c == s.who
  <1>1. /\ u0 \in AClients /\ g \in AServer /\ k \in Slots /\ s \in ASlot /\ c \in Clients /\ c # None
        /\ Len(g.wire[c]) <= SockMax /\ (g.verdict[c] = "ok" => u0.req[c] \in Ops \union {"short"})
        /\ (s.svc # None => g.ops[s.svc] = c)
    BY ConnIs
  <1>2. /\ h \in AServer /\ h.n = g.n /\ h.wire = g.wire /\ h.closed = g.closed /\ h.head = g.head
        /\ h.tail = g.tail /\ h.conn[k] = t /\ \A j \in Slots \ {k} : h.conn[j] = g.conn[j]
    BY DEF Puts
  <1>3. Given(u0, h, t) = Given(u0, g, s)
    BY <1>2 DEF Given, Sent, Rest, ButIn
  <1>4. SlotOK(s, u0.req[c], Away(u0, c), g.verdict[c], Given(u0, g, s))
    BY DEF Base, Good, ConnOK
  <1>5. Only(g, h, k)
    BY <1>2 DEF Only, ButIn
  <1>6. SlotOK(t, u0.req[c], Away(u0, c), h.verdict[c], Given(u0, h, t))
    BY <1>3, <1>4 DEF SlotOK, Shape, Progress, ButIn
  <1>7. \A i \in Ops : g.ops[i] = None /\ h.ops[i] = c => u0.req[c] = i
    BY <1>1
  <1>8. t.svc # None => h.ops[t.svc] = c
    BY <1>1 DEF ButIn
  <1>9. Base(u0, h) /\ Keeps(u0, g, h)
    BY <1>1, <1>2, <1>5, <1>6, <1>7, <1>8, OnlyKeeps
  <1>10. LevelAt(u0, g, k) => LevelAt(u0, h, k)
    BY <1>2, <1>3 DEF LevelAt, Level, ButIn
  <1>11. AheadAt(u0, g, k) => AheadAt(u0, h, k)
    BY <1>2, <1>3 DEF AheadAt, Ahead, ButIn
  <1> QED  BY <1>5, <1>9, <1>10, <1>11, OnlyHandled

LEMMA StatusOK ==
  ASSUME NEW g, Base(u0, g), NEW k \in Used(g), Quiet(g.conn[k]), g.conn[k].svc = None,
         u0.req[g.conn[k].who] = "status",
         NEW h, h = [g EXCEPT !.conn[k].listing = "status", !.conn[k].list_at = 0]
  PROVE  Handled(g, h, k) /\ LevelAt(u0, h, k)
  <1> DEFINE s == g.conn[k]
             c == s.who
             t == [s EXCEPT !.listing = "status", !.list_at = 0]
  <1>1. /\ u0 \in AClients /\ g \in AServer /\ k \in Slots /\ s \in ASlot /\ c \in Clients /\ Shape(s) /\ ~s.watch
        /\ g.ops \in [Ops -> Clients \union {None}] /\ g.inq \in [Clients -> Nat]
    BY ConnIs, QuietIs, ServerFields
  <1>2. /\ t \in ASlot /\ t.fd = s.fd /\ t.who = c /\ t.out = s.out /\ t.out_at = s.out_at /\ t.full = s.full
        /\ t.svc = None /\ t.listing = "status" /\ t.list_at = 0 /\ t.watch = s.watch /\ t.done = s.done
    BY <1>1 DEF ASlot
  <1> DEFINE cn == [g.conn EXCEPT ![k] = t]
  <1>3. h = [g EXCEPT !.conn = cn]
    BY <1>1 DEF AServer, ASlot
  <1> HIDE DEF t
  <1>4. Puts(g, h, k, t) /\ h.ops = g.ops /\ h.inq = g.inq /\ h.verdict = g.verdict
    <2>1. cn \in [Slots -> ASlot] /\ cn[k] = t /\ \A j \in Slots \ {k} : cn[j] = g.conn[j]
      BY <1>1, <1>2, ServerFields
    <2> HIDE DEF cn
    <2>2. /\ h \in AServer /\ h.conn = cn /\ h.ops = g.ops /\ h.inq = g.inq /\ h.verdict = g.verdict
          /\ h.n = g.n /\ h.wire = g.wire /\ h.closed = g.closed /\ h.head = g.head /\ h.tail = g.tail
      BY <1>1, <1>3, <2>1 DEF AServer
    <2> QED  BY <2>1, <2>2 DEF Puts
  <1>5. Shape(t)
    BY <1>1, <1>2 DEF Shape, Quiet
  <1>6. Progress(u0.req[c], t, None, <<>>)
    <2>1. SubSeq(StatusReply, 1, 0) = <<>> /\ 0 <= n_svc
      BY Consts
    <2> QED  BY <1>2, <2>1 DEF Progress, Quiet
  <1>7. Only(g, h, k) /\ Base(u0, h) /\ Keeps(u0, g, h)
    BY <1>2, <1>4, <1>5, <1>6, BeginOK
  <1>8. h.conn[k] = t
    BY <1>4 DEF Puts
  <1>9. LevelAt(u0, h, k)
    BY <1>1, <1>2, <1>8 DEF LevelAt, Level
  <1> QED  BY <1>7, <1>9, OnlyHandled

\* ctl_log(), for the slot and for ninit.
LogSlot(s, w, a) == [s EXCEPT !.watch = w, !.listing = "log", !.log_at = a]
LogSet(g, k, w, a) == [g EXCEPT !.conn[k].watch = w, !.conn[k].listing = "log", !.conn[k].log_at = a]

LEMMA LogSetIs ==
  ASSUME NEW g \in AServer, NEW k \in Slots, NEW w \in BOOLEAN, NEW a \in Int
  PROVE  LET h == LogSet(g, k, w, a) t == LogSlot(g.conn[k], w, a) IN
         /\ t \in ASlot /\ Puts(g, h, k, t) /\ h.ops = g.ops /\ h.inq = g.inq /\ h.verdict = g.verdict
  <1> DEFINE h == LogSet(g, k, w, a)
             t == LogSlot(g.conn[k], w, a)
             cn == [g.conn EXCEPT ![k] = t]
  <1>1. g.conn \in [Slots -> ASlot] /\ t \in ASlot
    <2>1. g.conn \in [Slots -> ASlot] /\ g.conn[k] \in ASlot
      BY ServerFields
    <2> QED  BY <2>1 DEF ASlot, LogSlot
  <1>2. h = [g EXCEPT !.conn = cn]
    BY DEF AServer, ASlot, LogSet, LogSlot
  <1> HIDE DEF h, t
  <1>3. cn \in [Slots -> ASlot] /\ cn[k] = t /\ \A j \in Slots \ {k} : cn[j] = g.conn[j]
    BY <1>1
  <1> HIDE DEF cn
  <1>4. /\ h \in AServer /\ h.conn = cn /\ h.ops = g.ops /\ h.inq = g.inq /\ h.verdict = g.verdict
        /\ h.n = g.n /\ h.wire = g.wire /\ h.closed = g.closed /\ h.head = g.head /\ h.tail = g.tail
    BY <1>2, <1>3 DEF AServer
  <1>5. Puts(g, h, k, t)
    BY <1>3, <1>4 DEF Puts
  <1> QED  BY <1>1, <1>4, <1>5 DEF h, t

LEMMA LogOK ==
  ASSUME NEW g, Base(u0, g), NEW k \in Used(g), Quiet(g.conn[k]), g.conn[k].svc = None,
         u0.req[g.conn[k].who] \in {"log", "watch"}, NEW w \in BOOLEAN,
         w <=> u0.req[g.conn[k].who] = "watch"
  PROVE  LET h == LogSet(g, k, w, g.tail) IN Handled(g, h, k) /\ LevelAt(u0, h, k)
  <1> DEFINE s == g.conn[k]
             c == s.who
             t == LogSlot(s, w, g.tail)
             h == LogSet(g, k, w, g.tail)
  <1> SUFFICES Handled(g, h, k) /\ LevelAt(u0, h, k)
    OBVIOUS
  <1>1. /\ u0 \in AClients /\ g \in AServer /\ k \in Slots /\ s \in ASlot /\ c \in Clients /\ Shape(s) /\ ~s.watch
        /\ g.tail \in Int
    BY ConnIs, QuietIs, ServerFields
  <1>2. /\ t.fd = s.fd /\ t.who = c /\ t.out = s.out /\ t.out_at = s.out_at /\ t.full = s.full
        /\ t.svc = None /\ t.listing = "log" /\ t.watch = w /\ t.done = s.done /\ t.log_at = g.tail
    BY <1>1 DEF ASlot, LogSlot
  <1>3. t \in ASlot /\ Puts(g, h, k, t) /\ h.ops = g.ops /\ h.inq = g.inq /\ h.verdict = g.verdict
    BY <1>1, LogSetIs
  <1> HIDE DEF t, h
  <1>4. Shape(t)
    BY <1>1, <1>2 DEF Shape, Quiet
  <1>5. Progress(u0.req[c], t, None, <<>>)
    BY <1>2, NoneInOrder DEF Progress, Quiet, Reading
  <1>6. /\ Only(g, h, k) /\ Base(u0, h) /\ Keeps(u0, g, h)
        /\ ~Away(u0, c) => t.out = <<>>
    BY <1>2, <1>3, <1>4, <1>5, BeginOK
  <1>7. h.conn[k] = t /\ h.tail = g.tail
    BY <1>3 DEF Puts
  <1>8. LevelAt(u0, h, k)
    BY <1>1, <1>2, <1>6, <1>7 DEF LevelAt, Level
  <1> QED  BY <1>6, <1>8, OnlyHandled

\* An operation begins: ctl_op() before what it does to the service.
OpSlot(s, i) == [s EXCEPT !.svc = i]
OpSet(g, k, i) == [g EXCEPT !.conn[k].svc = i, !.ops[i] = g.conn[k].who]

LEMMA OpSetIs ==
  ASSUME NEW g \in AServer, NEW k \in Slots, NEW i \in Ops, g.conn[k].who \in Clients
  PROVE  LET h == OpSet(g, k, i) t == OpSlot(g.conn[k], i) IN
         /\ t \in ASlot /\ Puts(g, h, k, t) /\ h.ops = [g.ops EXCEPT ![i] = g.conn[k].who]
         /\ h.inq = g.inq /\ h.verdict = g.verdict
  <1> DEFINE h == OpSet(g, k, i)
             t == OpSlot(g.conn[k], i)
             c == g.conn[k].who
             cn == [g.conn EXCEPT ![k] = t]
             op == [g.ops EXCEPT ![i] = c]
  <1> SUFFICES /\ t \in ASlot /\ Puts(g, h, k, t) /\ h.ops = op /\ h.inq = g.inq /\ h.verdict = g.verdict
    OBVIOUS
  <1>1. g.conn \in [Slots -> ASlot] /\ g.ops \in [Ops -> Clients \union {None}] /\ t \in ASlot
    <2>1. /\ g.conn \in [Slots -> ASlot] /\ g.conn[k] \in ASlot /\ g.ops \in [Ops -> Clients \union {None}]
      BY ServerFields
    <2> QED  BY <2>1 DEF ASlot, OpSlot
  <1>2. h = [g EXCEPT !.conn = cn, !.ops = op]
    BY DEF AServer, ASlot, OpSet, OpSlot
  <1> HIDE DEF h, t
  <1>3. cn \in [Slots -> ASlot] /\ cn[k] = t /\ \A j \in Slots \ {k} : cn[j] = g.conn[j]
    BY <1>1
  <1>4. op \in [Ops -> Clients \union {None}]
    BY <1>1
  <1> HIDE DEF cn, op
  <1>5. /\ h \in AServer /\ h.conn = cn /\ h.ops = op /\ h.inq = g.inq /\ h.verdict = g.verdict
        /\ h.n = g.n /\ h.wire = g.wire /\ h.closed = g.closed /\ h.head = g.head /\ h.tail = g.tail
    BY <1>2, <1>3, <1>4 DEF AServer
  <1>6. Puts(g, h, k, t)
    BY <1>3, <1>5 DEF Puts
  <1> QED  BY <1>1, <1>5, <1>6

LEMMA OpBegins ==
  ASSUME NEW g, Base(u0, g), NEW k \in Used(g), Quiet(g.conn[k]), g.conn[k].svc = None,
         NEW i \in Ops, u0.req[g.conn[k].who] = i, g.ops[i] = None
  PROVE  LET h == OpSet(g, k, i) IN
         Handled(g, h, k) /\ LevelAt(u0, h, k) /\ AheadAt(u0, h, k) /\ h.ops[i] # None /\ h.conn[k].svc = i
  <1> DEFINE s == g.conn[k]
             c == s.who
             t == OpSlot(s, i)
             h == OpSet(g, k, i)
  <1> SUFFICES Handled(g, h, k) /\ LevelAt(u0, h, k) /\ AheadAt(u0, h, k) /\ h.ops[i] # None /\ h.conn[k].svc = i
    OBVIOUS
  <1>1. /\ u0 \in AClients /\ g \in AServer /\ k \in Slots /\ s \in ASlot /\ c \in Clients /\ Shape(s) /\ ~s.watch
        /\ c # None /\ g.ops \in [Ops -> Clients \union {None}]
        /\ (~Away(u0, c) => s.out = <<>>)
    BY ConnIs, QuietIs, ServerFields
  <1>2. /\ t.fd = s.fd /\ t.who = c /\ t.out = s.out /\ t.out_at = s.out_at /\ t.full = s.full
        /\ t.svc = i /\ t.listing = None /\ t.watch = s.watch /\ t.done = s.done
    BY <1>1 DEF ASlot, OpSlot, Quiet
  <1>3. /\ t \in ASlot /\ Puts(g, h, k, t) /\ h.ops = [g.ops EXCEPT ![i] = c] /\ h.inq = g.inq /\ h.verdict = g.verdict
    BY <1>1, OpSetIs
  <1> HIDE DEF t, h
  <1>4. Shape(t)
    BY <1>1, <1>2 DEF Shape, Quiet
  <1>5. ~Away(u0, c) => Progress(u0.req[c], t, None, <<>>)
    BY <1>1, <1>2 DEF Progress, Quiet
  <1>6. Only(g, h, k) /\ Base(u0, h) /\ Keeps(u0, g, h)
    BY <1>2, <1>3, <1>4, <1>5, BeginOK
  <1>7. h.conn[k] = t
    BY <1>3 DEF Puts
  <1>8. LevelAt(u0, h, k) /\ AheadAt(u0, h, k)
    BY <1>1, <1>2, <1>7 DEF LevelAt, AheadAt, Level, Ahead, None
  <1>9. h.ops[i] = c
    BY <1>1, <1>3
  <1> QED  BY <1>1, <1>2, <1>6, <1>7, <1>8, <1>9, OnlyHandled

-----------------------------------------------------------------------------
(* svc_op_done() *)

LEMMA DoneIs ==
  ASSUME NEW g \in AServer, NEW i \in Ops, g.ops[i] \in Clients, NEW r \in {"ok", "err"},
         \A k \in Used(g) : g.conn[k].svc = i => ctl_end(g.conn[k], r) \in ASlot
  PROVE  LET h == svc_op_done(g, i, r) IN
         /\ h \in AServer /\ h.n = g.n /\ h.inq = g.inq /\ h.wire = g.wire /\ h.closed = g.closed
         /\ h.head = g.head /\ h.tail = g.tail
         /\ \A j \in Ops : h.ops[j] = IF j = i THEN None ELSE g.ops[j]
         /\ \A c \in Clients : h.verdict[c] = IF c = g.ops[i] THEN r ELSE g.verdict[c]
         /\ \A k \in Slots : h.conn[k] = IF k \in Used(g) /\ g.conn[k].svc = i THEN ctl_end(g.conn[k], r)
                                         ELSE g.conn[k]
  <1> DEFINE h == svc_op_done(g, i, r)
             op == [g.ops EXCEPT ![i] = None]
             d == g.ops[i]
             ve == [g.verdict EXCEPT ![d] = r]
             cn == [k \in Slots |-> IF k < g.n /\ g.conn[k].svc = i THEN ctl_end(g.conn[k], r) ELSE g.conn[k]]
  <1> SUFFICES
         /\ h \in AServer /\ h.n = g.n /\ h.inq = g.inq /\ h.wire = g.wire /\ h.closed = g.closed
         /\ h.head = g.head /\ h.tail = g.tail
         /\ \A j \in Ops : h.ops[j] = IF j = i THEN None ELSE g.ops[j]
         /\ \A c \in Clients : h.verdict[c] = IF c = g.ops[i] THEN r ELSE g.verdict[c]
         /\ \A k \in Slots : h.conn[k] = IF k \in Used(g) /\ g.conn[k].svc = i THEN ctl_end(g.conn[k], r)
                                         ELSE g.conn[k]
    OBVIOUS
  <1>1. /\ g.conn \in [Slots -> ASlot] /\ g.ops \in [Ops -> Clients \union {None}]
        /\ g.verdict \in [Clients -> {None, "ok", "err"}]
    BY ServerFields
  <1>2. op \in [Ops -> Clients \union {None}] /\ ve \in [Clients -> {None, "ok", "err"}]
    BY <1>1
  <1>3. \A k \in Slots : k < g.n <=> k \in Used(g)
    BY ServerFields, Consts DEF Slots, Used
  <1>4. cn \in [Slots -> ASlot]
    BY <1>1, <1>3
  <1>5. h = [g EXCEPT !.ops = op, !.verdict = ve, !.conn = cn]
    BY DEF svc_op_done, AServer
  <1>6. \A k \in Slots : cn[k] = IF k \in Used(g) /\ g.conn[k].svc = i THEN ctl_end(g.conn[k], r) ELSE g.conn[k]
    BY <1>3
  <1>7. \A j \in Ops : op[j] = IF j = i THEN None ELSE g.ops[j]
    BY <1>1
  <1>8. \A c \in Clients : ve[c] = IF c = d THEN r ELSE g.verdict[c]
    BY <1>1
  <1> HIDE DEF cn, op, ve, h
  <1>9. /\ h \in AServer /\ h.conn = cn /\ h.ops = op /\ h.verdict = ve
        /\ h.n = g.n /\ h.inq = g.inq /\ h.wire = g.wire /\ h.closed = g.closed /\ h.head = g.head /\ h.tail = g.tail
    BY <1>2, <1>4, <1>5 DEF AServer
  <1> QED  BY <1>6, <1>7, <1>8, <1>9

\* The operation of a client that is gone, and whose connection is closed.
LEMMA DoneAlone ==
  ASSUME NEW g, Base(u0, g), NEW i \in Ops, NEW d \in Clients, g.ops[i] = d, NEW r \in {"ok", "err"},
         \A k \in Used(g) : g.conn[k].svc # i,
         NEW h \in AServer, h.n = g.n, h.inq = g.inq, h.wire = g.wire, h.closed = g.closed,
         h.head = g.head, h.tail = g.tail, \A j \in Ops : h.ops[j] = IF j = i THEN None ELSE g.ops[j],
         \A c \in Clients : h.verdict[c] = IF c = d THEN r ELSE g.verdict[c], \A k \in Slots : h.conn[k] = g.conn[k]
  PROVE  Base(u0, h) /\ Keeps(u0, g, h) /\ \A k \in Used(g) : AheadAt(u0, g, k) => AheadAt(u0, h, k)
  <1>0. /\ u0 \in AClients /\ g \in AServer /\ g.tail <= g.head
        /\ g.head - g.tail <= RingLines /\ Distinct(g)
        /\ \A j \in Used(g) : ConnOK(u0, g, j)
        /\ \A c \in Clients : ClientOK(u0, g, c)
        /\ OpsOK(u0, g) /\ d # None
        /\ g.ops \in [Ops -> Clients \union {None}] /\ g.verdict \in [Clients -> {None, "ok", "err"}]
    BY ServerFields, Consts DEF Base, Good
  <1>1. u0.req[d] = i /\ Away(u0, d)
    BY <1>0 DEF OpsOK
  <1>2. Used(h) = Used(g) /\ Used(g) \subseteq Slots /\ \A j \in Used(g) : h.conn[j] = g.conn[j]
    BY <1>0, UsedIs DEF Used
  <1>3. Distinct(h)
    BY <1>0, <1>2 DEF Distinct
  <1>4. \A u, s : Given(u, h, s) = Given(u, g, s)
    BY DEF Given, Sent
  <1>5. \A c \in Clients : ~Away(u0, c) => h.verdict[c] = g.verdict[c]
    BY <1>0, <1>1
  <1>6. ASSUME NEW j \in Used(g) PROVE ConnOK(u0, h, j)
    <2> DEFINE s == g.conn[j]
               c == s.who
    <2>1. /\ c \in Clients /\ ~g.closed[c] /\ u0.req[c] \in Requests /\ s.fd \in 1..CTL_MAX
          /\ (s.svc # None => g.ops[s.svc] = c)
          /\ SlotOK(s, u0.req[c], Away(u0, c), g.verdict[c], Given(u0, g, s))
      BY <1>0 DEF ConnOK
    <2>2. s.svc # None => h.ops[s.svc] = c
      <3>1. s.svc \in Ops \union {None} /\ s.svc # i
        BY <1>0, UsedIs, SlotFields
      <3> QED  BY <1>0, <2>1, <3>1
    <2>3. SlotOK(s, u0.req[c], Away(u0, c), h.verdict[c], Given(u0, h, s))
      BY <1>4, <1>5, <2>1 DEF SlotOK
    <2> QED  BY <1>2, <2>1, <2>2, <2>3 DEF ConnOK
  <1>7. ASSUME NEW c \in Clients PROVE ClientOK(u0, h, c)
    <2>1. ClientOK(u0, g, c) /\ Sent(u0, h, c) = Sent(u0, g, c) /\ (OpenIn(h, c) <=> OpenIn(g, c))
      BY <1>0, <1>2 DEF Sent, OpenIn
    <2>2. h.verdict[c] = "ok" => u0.req[c] \in Ops \union {"short"}
      BY <1>0, <1>1, <2>1 DEF ClientOK
    <2> QED  BY <1>5, <2>1, <2>2 DEF ClientOK
  <1>8. OpsOK(u0, h)
    <2>1. \A j \in Ops : h.ops[j] # None => h.ops[j] = g.ops[j]
      BY <1>0
    <2> QED  BY <1>0, <1>2, <2>1 DEF OpsOK
  <1>9. Base(u0, h)
    BY <1>0, <1>2, <1>3, <1>6, <1>7, <1>8 DEF Base, Good
  <1>10. ASSUME NEW c \in Clients, Fresh(u0, g, c) PROVE Fresh(u0, h, c)
    <2>1. c # d
      BY <1>10 DEF Fresh
    <2>2. h.verdict[c] = g.verdict[c] /\ \A j \in Ops : h.ops[j] # c
      BY <1>0, <1>10, <2>1, Consts DEF Fresh
    <2> QED  BY <1>2, <1>10, <2>2 DEF Fresh, OpenIn
  <1>11. \A c \in Clients : h.inq[c] <= g.inq[c]
    BY <1>0, ServerFields
  <1>12. \A k \in Used(g) : AheadAt(u0, g, k) => AheadAt(u0, h, k)
    BY <1>2, <1>4 DEF AheadAt
  <1> QED  BY <1>9, <1>10, <1>11, <1>12 DEF Keeps

\* The client that asked for the operation is told, and nobody else.
LEMMA DoneOK ==
  ASSUME NEW g, Base(u0, g), NEW i \in Ops, g.ops[i] # None, NEW r \in {"ok", "err"}
  PROVE  LET h == svc_op_done(g, i, r) IN
         /\ Base(u0, h) /\ Keeps(u0, g, h) /\ h.n = g.n
         /\ \A k \in Used(g) : /\ AheadAt(u0, g, k) => AheadAt(u0, h, k)
                               /\ g.conn[k].svc = i => LevelAt(u0, h, k)
  <1> DEFINE h == svc_op_done(g, i, r)
             d == g.ops[i]
  <1> SUFFICES /\ Base(u0, h) /\ Keeps(u0, g, h) /\ h.n = g.n
               /\ \A k \in Used(g) : /\ AheadAt(u0, g, k) => AheadAt(u0, h, k)
                                     /\ g.conn[k].svc = i => LevelAt(u0, h, k)
    OBVIOUS
  <1>0. /\ g \in AServer /\ d \in Clients /\ i # None /\ OpsOK(u0, g) /\ Distinct(g)
        /\ g.ops \in [Ops -> Clients \union {None}] /\ g.verdict \in [Clients -> {None, "ok", "err"}]
        /\ Used(g) \subseteq Slots
    BY ServerFields, Consts, UsedIs DEF Base, Good
  <1>1. ASSUME NEW k \in Used(g), g.conn[k].svc = i
        PROVE  /\ Quiet(g.conn[k]) /\ g.conn[k].who = d /\ g.conn[k] \in ASlot /\ Shape(g.conn[k])
               /\ ctl_end(g.conn[k], r) \in ASlot
    <2>1. g.conn[k] \in ASlot /\ Shape(g.conn[k]) /\ g.conn[k].who = d
      BY <1>0, <1>1, ConnIs
    <2>2. Quiet(g.conn[k])
      BY <1>0, <1>1, <2>1 DEF Shape, Quiet
    <2> QED  BY <2>1, <2>2, EndShape
  <1>2. /\ h \in AServer /\ h.n = g.n /\ h.inq = g.inq /\ h.wire = g.wire /\ h.closed = g.closed
        /\ h.head = g.head /\ h.tail = g.tail
        /\ \A j \in Ops : h.ops[j] = IF j = i THEN None ELSE g.ops[j]
        /\ \A c \in Clients : h.verdict[c] = IF c = d THEN r ELSE g.verdict[c]
        /\ \A k \in Slots : h.conn[k] = IF k \in Used(g) /\ g.conn[k].svc = i THEN ctl_end(g.conn[k], r)
                                        ELSE g.conn[k]
    BY <1>0, <1>1, DoneIs
  <1> HIDE DEF h
  <1>3. CASE \A k \in Used(g) : g.conn[k].svc # i
    <2>1. \A k \in Slots : h.conn[k] = g.conn[k]
      BY <1>2, <1>3
    <2>2. Base(u0, h) /\ Keeps(u0, g, h) /\ \A k \in Used(g) : AheadAt(u0, g, k) => AheadAt(u0, h, k)
      BY <1>0, <1>2, <1>3, <2>1, DoneAlone
    <2> QED  BY <1>2, <1>3, <2>2
  <1>4. ASSUME NEW k \in Used(g), g.conn[k].svc = i
        PROVE  /\ Base(u0, h) /\ Keeps(u0, g, h)
               /\ \A j \in Used(g) : /\ AheadAt(u0, g, j) => AheadAt(u0, h, j)
                                     /\ g.conn[j].svc = i => LevelAt(u0, h, j)
    <2> DEFINE s == g.conn[k]
               t == ctl_end(s, r)
    <2>1. Quiet(s) /\ s.who = d /\ s \in ASlot /\ Shape(s)
      BY <1>1, <1>4
    <2>2. /\ t \in ASlot /\ Like(s, t) /\ t.svc = None /\ t.listing = None /\ t.done /\ Shape(t)
          /\ s.out = <<>> => t.out = <<Line(r, 0)>>
      BY <2>1, EndShape
    <2> HIDE DEF t
    <2>3. \A j \in Used(g) : g.conn[j].svc = i => j = k
      BY <1>0, <1>1, <2>1 DEF Distinct
    <2>4. h.conn[k] = t /\ \A j \in Slots \ {k} : h.conn[j] = g.conn[j]
      BY <1>0, <1>2, <1>4, <2>3 DEF t
    <2>5. u0.req[d] = i /\ ShortIs(i, r) = <<Line(r, 0)>>
      BY <1>0, Consts DEF OpsOK, ShortIs, None
    <2>6. Answers(g, h, k, t, r)
      <3>1. Puts(g, h, k, t)
        BY <1>2, <2>4 DEF Puts
      <3>2. h.verdict[d] = r /\ \A c \in Clients \ {d} : h.verdict[c] = g.verdict[c]
        BY <1>0, <1>2
      <3>3. \A j \in Ops : h.ops[j] = IF j = i THEN None ELSE g.ops[j]
        BY <1>0, <1>2
      <3>4. h.inq = g.inq
        BY <1>2
      <3> QED  BY <1>4, <2>1, <3>1, <3>2, <3>3, <3>4 DEF Answers
    <2>7. Only(g, h, k) /\ Base(u0, h) /\ Keeps(u0, g, h) /\ AheadAt(u0, h, k) /\ LevelAt(u0, h, k)
      BY <2>1, <2>2, <2>5, <2>6, AnswerOK
    <2>8. \A j \in Used(g) \ {k} : AheadAt(u0, g, j) => AheadAt(u0, h, j)
      BY <2>7, OnlyAhead DEF Base
    <2> QED  BY <2>3, <2>7, <2>8
  <1> QED  BY <1>2, <1>3, <1>4

-----------------------------------------------------------------------------
(* ctl_cmd() and ctl_read() *)

LEMMA OpOK ==
  ASSUME NEW g, Base(u0, g), NEW k \in Used(g), Quiet(g.conn[k]), g.conn[k].svc = None,
         NEW i \in Ops, u0.req[g.conn[k].who] = i, NEW r \in {"ok", "err", "later"}
  PROVE  LET h == ctl_op(g, k, i, r) IN Handled(g, h, k) /\ LevelAt(u0, h, k)
  <1> DEFINE w == ctl_op(g, k, i, r)
             h == OpSet(g, k, i)
  <1> SUFFICES Handled(g, w, k) /\ LevelAt(u0, w, k)
    OBVIOUS
  <1>0. w = IF g.ops[i] # None THEN Refuse(g, k) ELSE IF r = "later" THEN h ELSE svc_op_done(h, i, r)
    BY DEF ctl_op, OpSet
  <1>1. CASE g.ops[i] # None
    <2>1. Handled(g, Refuse(g, k), k) /\ LevelAt(u0, Refuse(g, k), k)
      BY RefuseOK
    <2> QED  BY <1>0, <1>1, <2>1
  <1>2. CASE g.ops[i] = None
    <2>1. Handled(g, h, k) /\ LevelAt(u0, h, k) /\ h.ops[i] # None /\ h.conn[k].svc = i
      BY <1>2, OpBegins
    <2> HIDE DEF h
    <2>2. CASE r = "later"
      <3>1. w = h
        BY <1>0, <1>2, <2>2
      <3> HIDE DEF w
      <3> QED  BY <2>1, <3>1
    <2>3. CASE r # "later"
      <3>1. w = svc_op_done(h, i, r) /\ r \in {"ok", "err"}
        BY <1>0, <1>2, <2>3
      <3>2. Base(u0, h) /\ k \in Used(h)
        BY <2>1 DEF Handled, Used
      <3> HIDE DEF w
      <3>3. /\ Base(u0, w) /\ Keeps(u0, h, w) /\ w.n = h.n
            /\ \A j \in Used(h) : /\ AheadAt(u0, h, j) => AheadAt(u0, w, j)
                                  /\ h.conn[j].svc = i => LevelAt(u0, w, j)
        BY <2>1, <3>1, <3>2, DoneOK
      <3>4. Handled(h, w, k) /\ LevelAt(u0, w, k)
        BY <2>1, <3>2, <3>3 DEF Handled
      <3> QED  BY <2>1, <3>4, HandledTwo
    <2> QED  BY <2>2, <2>3
  <1> QED  BY <1>1, <1>2

LEMMA CmdOK ==
  ASSUME NEW g, Base(u0, g), NEW k \in Used(g), Quiet(g.conn[k]), g.conn[k].svc = None,
         u0.req[g.conn[k].who] # "long", NEW r \in {"ok", "err", "later"}
  PROVE  LET h == ctl_cmd(g, k, r) IN Handled(g, h, k) /\ LevelAt(u0, h, k)
  <1> DEFINE h == ctl_cmd(g, k, r)
             q == u0.req[g.conn[k].who]
  <1> SUFFICES Handled(g, h, k) /\ LevelAt(u0, h, k)
    OBVIOUS
  <1>0. req[g.conn[k].who] = q
    BY GoneIs
  <1>1. q \in {"status", "short", "log", "watch"} \union Ops
    BY ConnIs DEF Requests
  <1> HIDE DEF q
  <1>2. CASE q = "status"
    <2>1. h = [g EXCEPT !.conn[k].listing = "status", !.conn[k].list_at = 0]
      BY <1>0, <1>2 DEF ctl_cmd
    <2> HIDE DEF h
    <2> QED  BY <1>2, <2>1, StatusOK DEF q
  <1>3. CASE q = "short"
    <2>1. h = ctl_short(g, k, r)
      BY <1>0, <1>3 DEF ctl_cmd
    <2> HIDE DEF h
    <2> QED  BY <1>3, <2>1, ShortOK DEF q
  <1>4. CASE q \in {"log", "watch"}
    <2>1. h = ctl_log(g, k, q = "watch")
      BY <1>0, <1>4 DEF ctl_cmd
    <2>2. PICK w \in BOOLEAN : w <=> q = "watch"
      OBVIOUS
    <2>3. h = ctl_log(g, k, w)
      BY <2>1, <2>2 DEF ctl_log
    <2> HIDE DEF h
    <2>4. \/ h = Refuse(g, k)
          \/ h = LogSet(g, k, w, g.tail)
      BY <2>3 DEF ctl_log, LogSet
    <2>5. Handled(g, Refuse(g, k), k) /\ LevelAt(u0, Refuse(g, k), k)
      BY RefuseOK
    <2>6. Handled(g, LogSet(g, k, w, g.tail), k) /\ LevelAt(u0, LogSet(g, k, w, g.tail), k)
      BY <1>4, <2>2, LogOK DEF q
    <2> QED  BY <2>4, <2>5, <2>6
  <1>5. CASE q \in Ops
    <2>1. q \notin {"status", "short", "log", "watch"}
      BY <1>5, Consts
    <2>2. h = ctl_op(g, k, q, r)
      BY <1>0, <2>1 DEF ctl_cmd
    <2> HIDE DEF h
    <2> QED  BY <1>5, <2>2, OpOK DEF q
  <1> QED  BY <1>1, <1>2, <1>3, <1>4, <1>5

\* What is read of a request.
InqSet(g, c, a) == [g EXCEPT !.inq[c] = a]
InSlot(s, n) == [s EXCEPT !.in = n]
InSet(g, k, n) == [g EXCEPT !.conn[k].in = n]

LEMMA InqOK ==
  ASSUME NEW g, Base(u0, g), NEW k \in Used(g), NEW c, c = g.conn[k].who, NEW a \in Nat, a <= g.inq[c],
         LevelAt(u0, g, k)
  PROVE  LET h == InqSet(g, c, a) IN
         /\ Handled(g, h, k) /\ LevelAt(u0, h, k) /\ (AheadAt(u0, g, k) => AheadAt(u0, h, k))
         /\ h.conn = g.conn
  <1> DEFINE h == InqSet(g, c, a)
             iq == [g.inq EXCEPT ![c] = a]
             t == g.conn[k]
  <1> SUFFICES /\ Handled(g, h, k) /\ LevelAt(u0, h, k) /\ (AheadAt(u0, g, k) => AheadAt(u0, h, k))
               /\ h.conn = g.conn
    OBVIOUS
  <1>1. g \in AServer /\ c \in Clients /\ k \in Slots /\ t \in ASlot /\ g.inq \in [Clients -> Nat]
    BY ConnIs, ServerFields
  <1>2. iq \in [Clients -> Nat] /\ \A d \in Clients : iq[d] <= g.inq[d]
    BY <1>1
  <1>3. h = [g EXCEPT !.inq = iq]
    BY <1>1 DEF InqSet
  <1> HIDE DEF iq, h
  <1>4. /\ h \in AServer /\ h.conn = g.conn /\ h.ops = g.ops /\ h.inq = iq /\ h.verdict = g.verdict
        /\ h.n = g.n /\ h.wire = g.wire /\ h.closed = g.closed /\ h.head = g.head /\ h.tail = g.tail
    BY <1>1, <1>2, <1>3 DEF AServer
  <1>5. Puts(g, h, k, t) /\ ButIn(g.conn[k], t)
    BY <1>4 DEF Puts, ButIn
  <1>6. \A d \in Clients : h.inq[d] <= g.inq[d]
    BY <1>2, <1>4
  <1> HIDE DEF t
  <1>7. /\ Handled(g, h, k) /\ LevelAt(u0, h, k) /\ (AheadAt(u0, g, k) => AheadAt(u0, h, k))
    BY <1>1, <1>4, <1>5, <1>6, TakeOK
  <1> QED  BY <1>4, <1>7

LEMMA InOK ==
  ASSUME NEW g, Base(u0, g), NEW k \in Used(g), NEW n \in Nat, LevelAt(u0, g, k)
  PROVE  LET h == InSet(g, k, n) IN
         /\ Handled(g, h, k) /\ LevelAt(u0, h, k) /\ (AheadAt(u0, g, k) => AheadAt(u0, h, k))
         /\ ButIn(g.conn[k], h.conn[k])
  <1> DEFINE h == InSet(g, k, n)
             t == InSlot(g.conn[k], n)
             cn == [g.conn EXCEPT ![k] = t]
  <1> SUFFICES /\ Handled(g, h, k) /\ LevelAt(u0, h, k) /\ (AheadAt(u0, g, k) => AheadAt(u0, h, k))
               /\ ButIn(g.conn[k], h.conn[k])
    OBVIOUS
  <1>1. g \in AServer /\ k \in Slots /\ g.conn[k] \in ASlot /\ g.conn \in [Slots -> ASlot] /\ g.inq \in [Clients -> Nat]
    BY ConnIs, ServerFields
  <1>2. t \in ASlot /\ ButIn(g.conn[k], t)
    BY <1>1 DEF ASlot, InSlot, ButIn
  <1>3. h = [g EXCEPT !.conn = cn]
    BY <1>1 DEF AServer, ASlot, InSet, InSlot
  <1> HIDE DEF t, h
  <1>4. cn \in [Slots -> ASlot] /\ cn[k] = t /\ \A j \in Slots \ {k} : cn[j] = g.conn[j]
    BY <1>1, <1>2
  <1> HIDE DEF cn
  <1>5. /\ h \in AServer /\ h.conn = cn /\ h.ops = g.ops /\ h.inq = g.inq /\ h.verdict = g.verdict
        /\ h.n = g.n /\ h.wire = g.wire /\ h.closed = g.closed /\ h.head = g.head /\ h.tail = g.tail
    BY <1>1, <1>3, <1>4 DEF AServer
  <1>6. Puts(g, h, k, t)
    BY <1>4, <1>5 DEF Puts
  <1>7. \A d \in Clients : h.inq[d] <= g.inq[d]
    BY <1>1, <1>5
  <1>8. /\ Handled(g, h, k) /\ LevelAt(u0, h, k) /\ (AheadAt(u0, g, k) => AheadAt(u0, h, k))
    BY <1>1, <1>2, <1>5, <1>6, <1>7, TakeOK
  <1> QED  BY <1>2, <1>4, <1>5, <1>8

LEMMA TakenIs ==
  ASSUME NEW g \in AServer, NEW k \in Slots, NEW c \in Clients
  PROVE  [g EXCEPT !.inq[c] = 0, !.conn[k].in = @ + g.inq[c]] =
           InSet(InqSet(g, c, 0), k, g.conn[k].in + g.inq[c])
  BY DEF InSet, InqSet, AServer, ASlot

LEMMA ReadOK ==
  ASSUME NEW g, Base(u0, g), NEW k \in Used(g), \A j \in Used(g) : AheadAt(u0, g, j),
         NEW r \in {"ok", "err", "later"}
  PROVE  LET h == ctl_read(g, k, r) IN
         Base(u0, h) /\ Keeps(u0, g, h) /\ \A j \in Used(h) : AheadAt(u0, h, j)
  <1> DEFINE s == g.conn[k]
             c == s.who
             w == ctl_read(g, k, r)
             n == s.in + g.inq[c]
             p == InqSet(g, c, 0)
             q == InSet(p, k, n)
             l == InqSet(g, c, g.inq[c] - 1)
  <1> SUFFICES Base(u0, w) /\ Keeps(u0, g, w) /\ \A j \in Used(w) : AheadAt(u0, w, j)
    OBVIOUS
  <1>1. /\ g \in AServer /\ k \in Slots /\ s \in ASlot /\ c \in Clients /\ g.inq \in [Clients -> Nat]
        /\ g.inq[c] \in Nat /\ s.in \in Nat /\ n \in Nat /\ ConnOK(u0, g, k) /\ LevelAt(u0, g, k)
    <2>1. g \in AServer /\ k \in Slots /\ s \in ASlot /\ c \in Clients
      BY ConnIs
    <2>2. g.inq \in [Clients -> Nat] /\ s.in \in Nat
      BY <2>1, ServerFields, SlotFields
    <2>3. ConnOK(u0, g, k)
      BY DEF Base, Good
    <2> QED  BY <2>1, <2>2, <2>3, AheadLevel
  <1>2. Gone(c) <=> Away(u0, c)
    BY GoneIs
  \* What is left to do after a handler of the connection.
  <1>3. ASSUME NEW h, Handled(g, h, k), LevelAt(u0, h, k), w = ctl_pump(h, k)
        PROVE  Base(u0, w) /\ Keeps(u0, g, w) /\ \A j \in Used(w) : AheadAt(u0, w, j)
    <2>1. Base(u0, h) /\ Keeps(u0, g, h) /\ Used(h) = Used(g) /\ h \in AServer
      BY <1>3 DEF Handled, Used, Base, Good
    <2>2. \A j \in Used(h) \ {k} : AheadAt(u0, h, j)
      BY <1>3, <2>1 DEF Handled
    <2> HIDE DEF w
    <2>3. /\ Base(u0, w) /\ Keeps(u0, h, w) /\ w \in AServer
          /\ (\A j \in Used(h) \ {k} : AheadAt(u0, h, j)) => \A j \in Used(w) : AheadAt(u0, w, j)
      BY <1>3, <2>1, PumpOK
    <2>4. Keeps(u0, g, w)
      BY <1>1, <2>1, <2>3, KeepsTwo
    <2> QED  BY <2>2, <2>3, <2>4
  <1>4. ASSUME NEW h, Handled(g, h, k), AheadAt(u0, h, k), w = h
        PROVE  Base(u0, w) /\ Keeps(u0, g, w) /\ \A j \in Used(w) : AheadAt(u0, w, j)
    <2> HIDE DEF w
    <2>1. Base(u0, h) /\ Keeps(u0, g, h) /\ Used(h) = Used(g)
      BY <1>4 DEF Handled, Used
    <2>2. \A j \in Used(h) : AheadAt(u0, h, j)
      BY <1>4, <2>1 DEF Handled
    <2> QED  BY <1>4, <2>1, <2>2
  <1>5. /\ Handled(g, p, k) /\ LevelAt(u0, p, k) /\ AheadAt(u0, p, k) /\ p.conn = g.conn
    BY <1>1, InqOK
  <1>6. Base(u0, p) /\ k \in Used(p)
    BY <1>5 DEF Handled, Used
  <1>7. /\ Handled(p, q, k) /\ LevelAt(u0, q, k) /\ AheadAt(u0, q, k) /\ ButIn(s, q.conn[k])
    <2> HIDE DEF p
    <2>1. /\ Handled(p, q, k) /\ LevelAt(u0, q, k) /\ AheadAt(u0, q, k) /\ ButIn(p.conn[k], q.conn[k])
      BY <1>1, <1>5, <1>6, InOK
    <2> QED  BY <1>5, <2>1
  <1>8. Handled(g, q, k)
    BY <1>5, <1>7, HandledTwo
  <1>9. g.inq[c] > 0 =>
          /\ Handled(g, l, k) /\ LevelAt(u0, l, k) /\ AheadAt(u0, l, k) /\ l.conn = g.conn
    <2> SUFFICES ASSUME g.inq[c] > 0
                 PROVE  Handled(g, l, k) /\ LevelAt(u0, l, k) /\ AheadAt(u0, l, k) /\ l.conn = g.conn
      OBVIOUS
    <2>1. g.inq[c] - 1 \in Nat /\ g.inq[c] - 1 <= g.inq[c]
      BY <1>1
    <2> QED  BY <1>1, <2>1, InqOK
  <1>10. CASE g.inq[c] = 0
    <2>1. w = IF Gone(c) THEN ctl_drop(g, k) ELSE g
      BY <1>10 DEF ctl_read
    <2>2. CASE Gone(c)
      <3>1. w = ctl_drop(g, k)
        BY <2>1, <2>2
      <3> HIDE DEF w
      <3> QED  BY <1>2, <2>2, <3>1, DropKeeps
    <2>3. CASE ~Gone(c)
      <3>1. w = g /\ Keeps(u0, g, g)
        BY <1>1, <2>1, <2>3, KeepsSame
      <3> HIDE DEF w
      <3> QED  BY <3>1
    <2> QED  BY <2>2, <2>3
  <1>11. CASE g.inq[c] > 0 /\ (s.done \/ s.listing # None \/ s.svc # None)
    <2>0. g.inq[c] # 0
      BY <1>1, <1>11
    <2>1. w = p
      BY <1>11, <2>0 DEF ctl_read, InqSet
    <2> HIDE DEF w, p
    <2> QED  BY <1>4, <1>5, <2>1
  <1>12. CASE g.inq[c] > 0 /\ ~(s.done \/ s.listing # None \/ s.svc # None)
    <2>0. Quiet(s) /\ s.svc = None /\ g.inq[c] # 0
      BY <1>1, <1>12 DEF Quiet
    <2>1. req[c] = u0.req[c]
      BY GoneIs
    <2>2. CASE u0.req[c] = "long"
      <3>1. w = ctl_pump(Refuse(l, k), k)
        BY <1>1, <1>12, <2>1, <2>2 DEF ctl_read, InqSet
      <3> HIDE DEF w, l
      <3>2. Handled(g, l, k) /\ l.conn = g.conn
        BY <1>9, <1>12
      <3>3. Base(u0, l) /\ k \in Used(l) /\ Quiet(l.conn[k]) /\ l.conn[k].svc = None
        BY <2>0, <3>2 DEF Handled, Used
      <3> DEFINE m == Refuse(l, k)
      <3>4. Handled(l, m, k) /\ LevelAt(u0, m, k)
        BY <3>3, RefuseOK
      <3> HIDE DEF m
      <3>5. Handled(g, m, k)
        BY <3>2, <3>4, HandledTwo
      <3> QED  BY <1>3, <3>1, <3>4, <3>5 DEF m
    <2>3. CASE u0.req[c] # "long"
      <3>1. w = IF q.conn[k].in < 2 THEN q ELSE ctl_pump(InSet(ctl_cmd(q, k, r), k, 0), k)
        <4>1. [g EXCEPT !.inq[c] = 0, !.conn[k].in = @ + g.inq[c]] = q
          BY <1>1, TakenIs
        <4> DEFINE t == [g EXCEPT !.inq[c] = 0, !.conn[k].in = @ + g.inq[c]]
        <4>2. w = IF t.conn[k].in < 2 THEN t ELSE ctl_pump([ctl_cmd(t, k, r) EXCEPT !.conn[k].in = 0], k)
          <5>1. g.inq[c] # 0 /\ req[c] # "long" /\ ~(g.inq[c] > 0 /\ (s.done \/ s.listing # None \/ s.svc # None))
            BY <1>12, <2>0, <2>1, <2>3
          <5> QED  BY <5>1, Zenon DEF ctl_read
        <4> HIDE DEF t, q, w
        <4>3. t = q
          BY <4>1 DEF t
        <4> QED  BY <4>2, <4>3 DEF InSet
      <3> HIDE DEF w, q
      <3>2. CASE q.conn[k].in < 2
        BY <1>4, <1>7, <1>8, <3>1, <3>2
      <3>3. CASE ~(q.conn[k].in < 2)
        <4> DEFINE m == ctl_cmd(q, k, r)
                   o == InSet(m, k, 0)
        <4>1. Base(u0, q) /\ k \in Used(q) /\ Quiet(q.conn[k]) /\ q.conn[k].svc = None /\ q.conn[k].who = c
          BY <1>7, <1>8, <2>0 DEF Handled, Used, Quiet, ButIn
        <4>2. Handled(q, m, k) /\ LevelAt(u0, m, k)
          BY <2>3, <4>1, CmdOK
        <4> HIDE DEF m
        <4>3. Base(u0, m) /\ k \in Used(m)
          BY <4>1, <4>2 DEF Handled, Used
        <4>4. Handled(m, o, k) /\ LevelAt(u0, o, k)
          BY <4>2, <4>3, InOK
        <4>5. Handled(g, m, k)
          BY <1>8, <4>2, HandledTwo
        <4> HIDE DEF o
        <4>6. Handled(g, o, k)
          BY <4>4, <4>5, HandledTwo
        <4>7. w = ctl_pump(o, k)
          BY <3>1, <3>3 DEF o, m
        <4> QED  BY <1>3, <4>4, <4>6, <4>7
      <3> QED  BY <3>2, <3>3
    <2> QED  BY <2>2, <2>3
  <1> QED  BY <1>1, <1>10, <1>11, <1>12

-----------------------------------------------------------------------------
(* ctl_accept() *)

\* There are more descriptors than connections.
LEMMA FdExists ==
  ASSUME NEW g \in AServer
  PROVE  \E fd \in 1..g.n + 1 : \A k \in Used(g) : g.conn[k].fd # fd
  <1> DEFINE S == 1..g.n + 1
             T == Used(g)
  <1> SUFFICES ASSUME \A fd \in S : \E k \in T : g.conn[k].fd = fd PROVE FALSE
    OBVIOUS
  <1>1. g.n \in Nat
    BY UsedIs
  <1> DEFINE f == [fd \in S |-> CHOOSE k \in T : g.conn[k].fd = fd]
  <1>2. f \in [S -> T] /\ \A fd \in S : g.conn[f[fd]].fd = fd
    OBVIOUS
  <1>3. IsFiniteSet(S) /\ Cardinality(S) = g.n + 1 /\ IsFiniteSet(T) /\ Cardinality(T) = g.n
    <2>1. 1 \in Int /\ 0 \in Int /\ g.n + 1 \in Int /\ g.n - 1 \in Int
      BY <1>1
    <2>2. IsFiniteSet(S) /\ Cardinality(S) = IF 1 > g.n + 1 THEN 0 ELSE (g.n + 1) - 1 + 1
      BY <2>1, FS_Interval
    <2>3. IsFiniteSet(T) /\ Cardinality(T) = IF 0 > g.n - 1 THEN 0 ELSE (g.n - 1) - 0 + 1
      BY <2>1, FS_Interval DEF Used
    <2> QED  BY <1>1, <2>2, <2>3
  <1>4. Cardinality(T) < Cardinality(S)
    BY <1>1, <1>3
  <1> HIDE DEF S, T, f
  <1>5. \E x, y \in S : x # y /\ f[x] = f[y]
    BY <1>2, <1>3, <1>4, FS_PigeonHole
  <1> QED  BY <1>2, <1>5

LEMMA FreeFdIs ==
  ASSUME NEW g \in AServer, g.n < CTL_MAX
  PROVE  FreeFd(g) \in 1..CTL_MAX /\ \A k \in Used(g) : g.conn[k].fd # FreeFd(g)
  <1> DEFINE T == {fd \in 1..g.n + 1 : \A k \in Used(g) : g.conn[k].fd # fd}
             Free(fd) == /\ \A k \in Used(g) : g.conn[k].fd # fd
                         /\ \A m \in 1..fd - 1 : \E k \in Used(g) : g.conn[k].fd = m
  <1>0. g.n \in Nat /\ CTL_MAX \in Nat
    BY UsedIs, Consts
  <1>1. T # {} /\ T \subseteq Nat
    BY <1>0, FdExists
  <1>2. PICK x \in T : \A y \in T : x <= y
    BY <1>1, LeastOf
  <1>3. x \in 1..CTL_MAX + 1 /\ x \in 1..g.n + 1 /\ x \in Nat /\ \A k \in Used(g) : g.conn[k].fd # x
    BY <1>0
  <1>4. Free(x)
    <2>1. ASSUME NEW m \in 1..x - 1 PROVE \E k \in Used(g) : g.conn[k].fd = m
      <3>1. m \in 1..g.n + 1 /\ m < x
        BY <1>0, <1>3
      <3>2. m \notin T
        BY <1>2, <1>3, <3>1
      <3> QED  BY <3>1, <3>2
    <2> QED  BY <1>3, <2>1
  <1>5. FreeFd(g) = CHOOSE fd \in 1..CTL_MAX + 1 : Free(fd)
    BY DEF FreeFd, Used
  <1>6. FreeFd(g) \in 1..CTL_MAX + 1 /\ Free(FreeFd(g))
    BY <1>3, <1>4, <1>5
  <1> DEFINE y == FreeFd(g)
  <1> HIDE DEF T
  <1>7. y \in Nat /\ y >= 1
    BY <1>0, <1>6
  <1>8. y <= x
    <2> SUFFICES ASSUME ~(y <= x) PROVE FALSE
      OBVIOUS
    <2>1. x \in 1..y - 1
      BY <1>3, <1>7
    <2> HIDE DEF y
    <2> QED  BY <1>3, <1>6, <2>1 DEF y
  <1> QED  BY <1>0, <1>3, <1>6, <1>7, <1>8

LEMMA PrefixSelf == ASSUME NEW S, NEW r \in Seq(S) PROVE IsPrefixOf(r, r)
  <1>1. Len(r) <= Len(r) /\ \A i \in 1..Len(r) : r[i] = r[i]
    OBVIOUS
  <1> QED  BY <1>1, PrefixAt

\* What the connections that are not accepted yet keep when c is.
KeepsBut(u, g, h, c) ==
  /\ h.head = g.head /\ h.tail = g.tail /\ h.inq = g.inq
  /\ \A d \in Clients \ {c} : Fresh(u, g, d) => Fresh(u, h, d)

\* Every connection is in use.
LEMMA AcceptFull ==
  ASSUME NEW g, Base(u0, g), \A k \in Used(g) : AheadAt(u0, g, k), NEW c \in Clients, Fresh(u0, g, c),
         NEW wi, wi = (IF Away(u0, c) THEN <<>> ELSE <<Line("err", 0)>>),
         NEW h \in AServer, h.conn = g.conn, h.n = g.n, h.ops = g.ops, h.inq = g.inq,
         h.head = g.head, h.tail = g.tail, h.wire[c] = wi, h.closed[c], h.verdict[c] = "err",
         \A d \in Clients \ {c} : h.wire[d] = g.wire[d] /\ h.closed[d] = g.closed[d] /\ h.verdict[d] = g.verdict[d]
  PROVE  /\ Base(u0, h) /\ (\A k \in Used(h) : AheadAt(u0, h, k)) /\ KeepsBut(u0, g, h, c)
  <1>0. /\ u0 \in AClients /\ g \in AServer /\ g.tail <= g.head
        /\ g.head - g.tail <= RingLines /\ Distinct(g)
        /\ \A j \in Used(g) : ConnOK(u0, g, j)
        /\ \A d \in Clients : ClientOK(u0, g, d)
        /\ OpsOK(u0, g)
    BY DEF Base, Good
  <1>1. Used(h) = Used(g) /\ \A d : OpenIn(h, d) <=> OpenIn(g, d)
    BY DEF Used, OpenIn
  <1>2. Distinct(h) /\ OpsOK(u0, h)
    BY <1>0, <1>1 DEF Distinct, OpsOK
  <1>3. ASSUME NEW j \in Used(g) PROVE ConnOK(u0, h, j) /\ AheadAt(u0, h, j)
    <2> DEFINE s == g.conn[j]
    <2>1. ConnOK(u0, g, j) /\ s.who \in Clients /\ s.who # c /\ AheadAt(u0, g, j)
      BY <1>0 DEF ConnOK, Fresh, OpenIn
    <2>2. h.wire[s.who] = g.wire[s.who] /\ h.closed[s.who] = g.closed[s.who] /\ h.verdict[s.who] = g.verdict[s.who]
      BY <2>1
    <2>3. Given(u0, h, s) = Given(u0, g, s)
      BY <2>2 DEF Given, Sent
    <2> QED  BY <2>1, <2>2, <2>3 DEF ConnOK, AheadAt
  <1>4. ASSUME NEW d \in Clients PROVE ClientOK(u0, h, d)
    <2>0. ClientOK(u0, g, d)
      BY <1>0
    <2>1. CASE d = c
      <3> DEFINE x == Line("err", 0)
      <3>1. u0.client[d] # "ok" /\ u0.got[c] = <<>>
        BY <2>0, <2>1 DEF ClientOK, Fresh
      <3>2. <<x>> \in Seq(ALine) /\ Len(<<x>>) = 1 /\ SockMax >= 1 /\ Len(<<>>) = 0
        BY LineIs, Consts
      <3>3. Len(h.wire[c]) <= SockMax
        BY <3>2, Consts
      <3>4. ASSUME ~Away(u0, c) PROVE Partial(u0.req[c], "err", Sent(u0, h, c))
        <4>1. Sent(u0, h, c) = <<>> \o <<x>>
          BY <3>1, <3>4 DEF Sent
        <4>2. Sent(u0, h, c) = <<x>>
          BY <3>2, <4>1, ConcatEmpty
        <4>3. ShortIs(u0.req[c], "err") = <<x>>
          BY DEF ShortIs, None
        <4>4. IsPrefixOf(<<x>>, <<x>>)
          BY <3>2, PrefixSelf
        <4> QED  BY <4>2, <4>3, <4>4 DEF Partial, None
      <3> QED  BY <2>1, <3>1, <3>3, <3>4 DEF ClientOK
    <2>2. CASE d # c
      <3>1. h.wire[d] = g.wire[d] /\ h.closed[d] = g.closed[d] /\ h.verdict[d] = g.verdict[d]
        BY <2>2
      <3> QED  BY <1>1, <2>0, <3>1 DEF ClientOK, Sent
    <2> QED  BY <2>1, <2>2
  <1>5. Base(u0, h)
    BY <1>0, <1>1, <1>2, <1>3, <1>4 DEF Base, Good
  <1>6. KeepsBut(u0, g, h, c)
    BY <1>1 DEF KeepsBut, Fresh
  <1> QED  BY <1>1, <1>3, <1>5, <1>6

LEMMA SlotIs ==
  ASSUME NEW fd \in Nat, NEW c \in Clients
  PROVE  LET s == Slot(fd, c) IN
         /\ s \in ASlot /\ Shape(s) /\ s.who = c /\ s.fd = fd /\ s.svc = None /\ s.listing = None /\ ~s.watch
         /\ ~s.done /\ s.out = <<>> /\ s.out_at = 0 /\ ~s.full
  <1> DEFINE s == Slot(fd, c)
  <1>1. s \in ASlot
    <2>1. <<>> \in Seq(ALine) /\ 0 \in Nat /\ 0 \in Int
      OBVIOUS
    <2> QED  BY <2>1 DEF Slot, ASlot
  <1>2. /\ s.who = c /\ s.fd = fd /\ s.svc = None /\ s.listing = None /\ ~s.watch
        /\ ~s.done /\ s.out = <<>> /\ s.out_at = 0 /\ ~s.full
    BY DEF Slot
  <1>3. Len(<<>>) = 0 /\ CTL_OUT >= 2 /\ CTL_OUT \in Nat
    BY Consts
  <1> HIDE DEF s
  <1>4. Shape(s)
    BY <1>2, <1>3 DEF Shape
  <1> QED  BY <1>1, <1>2, <1>4 DEF s

\* The next slot is taken, and holds nothing of the connection that had it before.
LEMMA AcceptNew ==
  ASSUME NEW g, Base(u0, g), \A k \in Used(g) : AheadAt(u0, g, k), NEW c \in Clients, Fresh(u0, g, c),
         u0.req[c] \in Requests, g.n < CTL_MAX, NEW fd \in 1..CTL_MAX, \A k \in Used(g) : g.conn[k].fd # fd,
         NEW h \in AServer, h.conn = [g.conn EXCEPT ![g.n] = Slot(fd, c)], h.n = g.n + 1,
         h.ops = g.ops, h.inq = g.inq, h.head = g.head, h.tail = g.tail, h.wire = g.wire,
         h.closed = g.closed, h.verdict = g.verdict
  PROVE  /\ Base(u0, h) /\ (\A k \in Used(h) : AheadAt(u0, h, k)) /\ KeepsBut(u0, g, h, c)
  <1> DEFINE t == Slot(fd, c)
  <1>0. /\ u0 \in AClients /\ g \in AServer /\ g.tail <= g.head
        /\ g.head - g.tail <= RingLines /\ Distinct(g)
        /\ \A j \in Used(g) : ConnOK(u0, g, j)
        /\ \A d \in Clients : ClientOK(u0, g, d)
        /\ OpsOK(u0, g)
    BY DEF Base, Good
  <1>1. /\ t \in ASlot /\ Shape(t) /\ t.who = c /\ t.fd = fd /\ t.svc = None /\ t.listing = None /\ ~t.watch
        /\ ~t.done /\ t.out = <<>> /\ t.out_at = 0 /\ ~t.full
    <2>1. fd \in Nat
      BY Consts
    <2> QED  BY <2>1, SlotIs
  <1> HIDE DEF t
  <1>2. /\ g.n \in Slots /\ g.n \in Nat /\ Used(h) = Used(g) \union {g.n} /\ g.n \notin Used(g) /\ Used(g) \subseteq Slots
    <2>1. g.n \in Nat /\ CTL_MAX \in Nat /\ Used(g) \subseteq Slots
      BY <1>0, UsedIs, Consts
    <2> QED  BY <2>1 DEF Used, Slots
  <1>3. h.conn[g.n] = t /\ \A j \in Used(g) : h.conn[j] = g.conn[j]
    BY <1>0, <1>2, ServerFields DEF t
  <1>4. \A j \in Used(g) : g.conn[j].who # c
    BY DEF Fresh, OpenIn
  <1>5. Distinct(h)
    <2> SUFFICES ASSUME NEW i \in Used(h), NEW j \in Used(h), i # j
                 PROVE  h.conn[i].who # h.conn[j].who /\ h.conn[i].fd # h.conn[j].fd
      BY DEF Distinct
    <2>1. CASE i = g.n
      BY <1>1, <1>2, <1>3, <1>4, <2>1
    <2>2. CASE j = g.n
      BY <1>1, <1>2, <1>3, <1>4, <2>2
    <2>3. CASE i # g.n /\ j # g.n
      BY <1>0, <1>2, <1>3, <2>3 DEF Distinct
    <2> QED  BY <2>1, <2>2, <2>3
  <1>6. \A s : Given(u0, h, s) = Given(u0, g, s)
    BY DEF Given, Sent
  <1>7. ASSUME NEW j \in Used(g) PROVE ConnOK(u0, h, j) /\ AheadAt(u0, h, j)
    <2>1. ConnOK(u0, g, j) /\ AheadAt(u0, g, j) /\ h.conn[j] = g.conn[j]
      BY <1>0, <1>3
    <2> QED  BY <1>6, <2>1 DEF ConnOK, AheadAt
  <1>8. ConnOK(u0, h, g.n) /\ AheadAt(u0, h, g.n)
    <2>1. Rest(t) = <<>>
      BY <1>1, AllRest
    <2>2. u0.got[c] = <<>> /\ g.wire[c] = <<>> /\ g.verdict[c] = None /\ ~g.closed[c]
      BY DEF Fresh
    <2>3. <<>> \in Seq(ALine)
      OBVIOUS
    <2>4. <<>> \o <<>> = <<>>
      BY <2>3, ConcatEmpty
    <2>5. Given(u0, h, t) = <<>>
      BY <1>1, <2>1, <2>2, <2>4 DEF Given, Sent
    <2>6. SlotOK(t, u0.req[c], Away(u0, c), h.verdict[c], Given(u0, h, t))
      BY <1>1, <2>2, <2>5 DEF SlotOK, Progress
    <2>7. ConnOK(u0, h, g.n)
      BY <1>1, <1>3, <2>2, <2>6 DEF ConnOK
    <2>8. AheadAt(u0, h, g.n)
      BY <1>1, <1>3 DEF AheadAt, Ahead, None
    <2> QED  BY <2>7, <2>8
  <1>9. \A d \in Clients : OpenIn(h, d) <=> OpenIn(g, d) \/ d = c
    BY <1>1, <1>2, <1>3 DEF OpenIn
  <1>10. ASSUME NEW d \in Clients PROVE ClientOK(u0, h, d)
    <2>1. ClientOK(u0, g, d) /\ Sent(u0, h, d) = Sent(u0, g, d)
      BY <1>0 DEF Sent
    <2> QED  BY <1>9, <2>1 DEF ClientOK
  <1>11. OpsOK(u0, h)
    <2> SUFFICES ASSUME NEW i \in Ops, g.ops[i] # None
                 PROVE  /\ u0.req[g.ops[i]] = i
                        /\ ~Away(u0, g.ops[i]) =>
                             \E j \in Used(h) : h.conn[j].who = g.ops[i] /\ h.conn[j].svc = i
      BY DEF OpsOK
    <2>1. /\ u0.req[g.ops[i]] = i
          /\ ~Away(u0, g.ops[i]) => \E j \in Used(g) : g.conn[j].who = g.ops[i] /\ g.conn[j].svc = i
      BY <1>0 DEF OpsOK
    <2> QED  BY <1>2, <1>3, <2>1
  <1>12. Base(u0, h)
    BY <1>0, <1>2, <1>5, <1>7, <1>8, <1>10, <1>11 DEF Base, Good
  <1>13. KeepsBut(u0, g, h, c)
    BY <1>9 DEF KeepsBut, Fresh
  <1> QED  BY <1>2, <1>7, <1>8, <1>12, <1>13

LEMMA AcceptOneOK ==
  ASSUME NEW g, Base(u0, g), \A k \in Used(g) : AheadAt(u0, g, k), NEW c \in Clients, Fresh(u0, g, c),
         u0.req[c] \in Requests
  PROVE  LET h == accept_one(g, c) IN
         /\ Base(u0, h) /\ (\A k \in Used(h) : AheadAt(u0, h, k)) /\ KeepsBut(u0, g, h, c)
  <1> DEFINE h == accept_one(g, c)
  <1> SUFFICES Base(u0, h) /\ (\A k \in Used(h) : AheadAt(u0, h, k)) /\ KeepsBut(u0, g, h, c)
    OBVIOUS
  <1>0. /\ g \in AServer /\ g.n \in 0..CTL_MAX /\ CTL_MAX \in Nat /\ g.n \in Nat /\ g.wire[c] = <<>>
        /\ g.wire \in [Clients -> Seq(ALine)] /\ g.closed \in [Clients -> BOOLEAN]
        /\ g.verdict \in [Clients -> {None, "ok", "err"}] /\ g.conn \in [Slots -> ASlot]
    BY ServerFields, Consts, UsedIs DEF Base, Good, Fresh
  <1>1. CASE g.n = CTL_MAX
    <2> DEFINE x == Line("err", 0)
               wi == IF Away(u0, c) THEN <<>> ELSE <<x>>
               wr == [g.wire EXCEPT ![c] = wi]
               cl == [g.closed EXCEPT ![c] = TRUE]
               ve == [g.verdict EXCEPT ![c] = "err"]
    <2>1. (IF Gone(c) THEN g.wire[c] ELSE Append(g.wire[c], x)) = wi
      <3>1. Append(<<>>, x) = <<x>>
        OBVIOUS
      <3> QED  BY <1>0, <3>1, GoneIs
    <2>2. h = [g EXCEPT !.wire = wr, !.closed = cl, !.verdict = ve]
      <3>1. h = [g EXCEPT !.wire[c] = IF Gone(c) THEN @ ELSE Append(@, x), !.closed[c] = TRUE, !.verdict[c] = "err"]
        BY <1>1 DEF accept_one
      <3>2. h = [g EXCEPT !.wire[c] = IF Gone(c) THEN g.wire[c] ELSE Append(g.wire[c], x),
                          !.closed[c] = TRUE, !.verdict[c] = "err"]
        BY <3>1
      <3> HIDE DEF wi, h
      <3>3. h = [g EXCEPT !.wire[c] = wi, !.closed[c] = TRUE, !.verdict[c] = "err"]
        BY <2>1, <3>2
      <3> QED  BY <1>0, <3>3 DEF AServer
    <2>3. wi \in Seq(ALine)
      BY LineIs
    <2> HIDE DEF wi, h
    <2>4. /\ wr \in [Clients -> Seq(ALine)] /\ cl \in [Clients -> BOOLEAN]
          /\ ve \in [Clients -> {None, "ok", "err"}] /\ wr[c] = wi /\ cl[c] /\ ve[c] = "err"
          /\ \A d \in Clients \ {c} : wr[d] = g.wire[d] /\ cl[d] = g.closed[d] /\ ve[d] = g.verdict[d]
      BY <1>0, <2>3
    <2> HIDE DEF wr, cl, ve
    <2>5. /\ h \in AServer /\ h.conn = g.conn /\ h.n = g.n /\ h.ops = g.ops /\ h.inq = g.inq
          /\ h.head = g.head /\ h.tail = g.tail /\ h.wire = wr /\ h.closed = cl /\ h.verdict = ve
      BY <1>0, <2>2, <2>4 DEF AServer
    <2>6. wi = IF Away(u0, c) THEN <<>> ELSE <<Line("err", 0)>>
      BY DEF wi
    <2>7. /\ h.wire[c] = wi /\ h.closed[c] /\ h.verdict[c] = "err"
          /\ \A d \in Clients \ {c} : h.wire[d] = g.wire[d] /\ h.closed[d] = g.closed[d] /\ h.verdict[d] = g.verdict[d]
      BY <2>4, <2>5
    <2> QED  BY <2>5, <2>6, <2>7, AcceptFull
  <1>2. CASE g.n # CTL_MAX
    <2> DEFINE fd == FreeFd(g)
               t == Slot(fd, c)
               m == g.n
               cn == [g.conn EXCEPT ![m] = t]
    <2>0. m < CTL_MAX /\ m \in Slots /\ m + 1 \in 0..CTL_MAX
      BY <1>0, <1>2 DEF Slots
    <2>1. fd \in 1..CTL_MAX /\ \A k \in Used(g) : g.conn[k].fd # fd
      BY <1>0, <2>0, FreeFdIs
    <2>2. h = [g EXCEPT !.conn[m] = t, !.n = m + 1]
      BY <1>0, <1>2 DEF accept_one
    <2> HIDE DEF fd, h
    <2>3. t \in ASlot
      <3>1. fd \in Nat
        BY <1>0, <2>1
      <3> QED  BY <3>1, SlotIs
    <2> HIDE DEF t, m
    <2>4. h = [g EXCEPT !.conn = cn, !.n = m + 1]
      BY <1>0, <2>2 DEF AServer
    <2>5. cn \in [Slots -> ASlot]
      BY <1>0, <2>3
    <2> HIDE DEF cn
    <2>6. /\ h \in AServer /\ h.conn = cn /\ h.n = m + 1 /\ h.ops = g.ops /\ h.inq = g.inq
          /\ h.head = g.head /\ h.tail = g.tail /\ h.wire = g.wire /\ h.closed = g.closed /\ h.verdict = g.verdict
      BY <1>0, <2>0, <2>4, <2>5 DEF AServer
    <2>7. h.conn = [g.conn EXCEPT ![g.n] = Slot(fd, c)] /\ g.n < CTL_MAX /\ h.n = g.n + 1
      BY <2>0, <2>6 DEF cn, t, m
    <2> QED  BY <2>1, <2>6, <2>7, AcceptNew
  <1> QED  BY <1>1, <1>2

IsAccept(F, g, b, n) == F = [m \in 0..n |-> IF m = 0 THEN g ELSE accept_one(F[m - 1], b[m])]

LEMMA AcceptAt ==
  ASSUME NEW g, NEW b, NEW n, NEW F, IsAccept(F, g, b, n)
  PROVE  \A m \in 0..n : F[m] = IF m = 0 THEN g ELSE accept_one(F[m - 1], b[m])
  BY Zenon DEF IsAccept

LEMMA AcceptExists ==
  ASSUME NEW g, NEW b, NEW n \in Nat PROVE \E F : IsAccept(F, g, b, n)
  <1> DEFINE T == {m \in 0..n : \E F : IsAccept(F, g, b, m)}
  <1>1. 0 \in T
    <2>1. IsAccept([m \in 0..0 |-> g], g, b, 0)
      BY DEF IsAccept
    <2> QED  BY <2>1
  <1>2. ASSUME NEW m \in 1..n, m - 1 \in T PROVE m \in T
    <2>1. PICK F : IsAccept(F, g, b, m - 1)
      BY <1>2
    <2> DEFINE B == [j \in 0..m |-> IF j = m THEN accept_one(F[m - 1], b[m]) ELSE F[j]]
    <2>2. \A j \in 0..m - 1 : F[j] = IF j = 0 THEN g ELSE accept_one(F[j - 1], b[j])
      BY <2>1, AcceptAt
    <2>3. \A j \in 0..m : B[j] = IF j = 0 THEN g ELSE accept_one(B[j - 1], b[j])
      BY <2>2
    <2>4. IsAccept(B, g, b, m)
      BY <2>3 DEF IsAccept
    <2> QED  BY <2>4
  <1> HIDE DEF T
  <1>3. n \in T
    BY <1>1, <1>2, UpTo
  <1> QED  BY <1>3 DEF T

LEMMA AcceptIs ==
  ASSUME NEW g, Len(backlog) \in Nat
  PROVE  \E F : IsAccept(F, g, backlog, Len(backlog)) /\ ctl_accept(g) = F[Len(backlog)]
  <1> DEFINE F == CHOOSE F : IsAccept(F, g, backlog, Len(backlog))
  <1>1. IsAccept(F, g, backlog, Len(backlog))
    BY AcceptExists, Zenon
  <1>2. ctl_accept(g) = F[Len(backlog)]
    BY Zenon DEF ctl_accept, IsAccept
  <1> QED  BY <1>1, <1>2

LEMMA AcceptAllOK ==
  ASSUME NEW g, Base(u0, g), \A k \in Used(g) : AheadAt(u0, g, k), Waiting(u0, g, backlog),
         \A c \in Clients : u0.client[c] # "idle" => u0.req[c] # None
  PROVE  LET h == ctl_accept(g) IN
         /\ Base(u0, h) /\ (\A k \in Used(h) : AheadAt(u0, h, k)) /\ h.inq = g.inq /\ h.tail = g.tail
         /\ \A c \in Clients : u0.client[c] = "idle" /\ Fresh(u0, g, c) => Fresh(u0, h, c)
  <1> DEFINE b == backlog
             n == Len(b)
  <1>0. /\ b \in Seq(Clients) /\ n \in Nat
        /\ \A k \in 1..n : b[k] \in Clients /\ Fresh(u0, g, b[k]) /\ u0.client[b[k]] # "idle"
        /\ \A j, k \in 1..n : j # k => b[j] # b[k]
        /\ u0 \in AClients
    BY DEF Waiting, Base, Good
  <1>1. PICK F : IsAccept(F, g, b, n) /\ ctl_accept(g) = F[n]
    BY <1>0, AcceptIs
  <1>2. \A m \in 0..n : F[m] = IF m = 0 THEN g ELSE accept_one(F[m - 1], b[m])
    BY <1>1, AcceptAt
  <1> HIDE DEF b, n
  <1> DEFINE T == {m \in 0..n : /\ Base(u0, F[m]) /\ (\A k \in Used(F[m]) : AheadAt(u0, F[m], k))
                                /\ F[m].inq = g.inq /\ F[m].tail = g.tail
                                /\ \A j \in 1..n : m < j => Fresh(u0, F[m], b[j])
                                /\ \A c \in Clients : u0.client[c] = "idle" /\ Fresh(u0, g, c) => Fresh(u0, F[m], c)}
  <1>3. 0 \in T
    <2>1. 0 \in 0..n /\ F[0] = g
      BY <1>0, <1>2
    <2> QED  BY <1>0, <2>1
  <1>4. ASSUME NEW m \in 1..n, m - 1 \in T PROVE m \in T
    <2> DEFINE p == F[m - 1]
               h == F[m]
               c == b[m]
    <2>0. m \in 0..n /\ m # 0 /\ m \in Nat /\ m - 1 < m /\ c \in Clients /\ u0.client[c] # "idle"
      BY <1>0
    <2>1. h = accept_one(p, c)
      BY <1>2, <2>0
    <2>2. /\ Base(u0, p) /\ (\A k \in Used(p) : AheadAt(u0, p, k)) /\ p.inq = g.inq /\ p.tail = g.tail
          /\ \A j \in 1..n : m - 1 < j => Fresh(u0, p, b[j])
          /\ \A d \in Clients : u0.client[d] = "idle" /\ Fresh(u0, g, d) => Fresh(u0, p, d)
      BY <1>4
    <2> HIDE DEF p, h
    <2>3. u0.req[c] \in Requests
      BY <1>0, <2>0, ClientFields
    <2>4. Fresh(u0, p, c)
      BY <2>0, <2>2
    <2>5. Base(u0, h) /\ (\A k \in Used(h) : AheadAt(u0, h, k)) /\ KeepsBut(u0, p, h, c)
      BY <2>0, <2>1, <2>2, <2>3, <2>4, AcceptOneOK
    <2>6. \A j \in 1..n : m < j => Fresh(u0, h, b[j])
      <3> SUFFICES ASSUME NEW j \in 1..n, m < j PROVE Fresh(u0, h, b[j])
        OBVIOUS
      <3>1. m - 1 < j /\ m # j
        BY <2>0
      <3>2. Fresh(u0, p, b[j]) /\ b[j] # c /\ b[j] \in Clients
        BY <1>0, <2>2, <3>1
      <3> QED  BY <2>5, <3>2 DEF KeepsBut
    <2>7. \A d \in Clients : u0.client[d] = "idle" /\ Fresh(u0, g, d) => Fresh(u0, h, d)
      BY <2>0, <2>2, <2>5 DEF KeepsBut
    <2>8. h.inq = g.inq /\ h.tail = g.tail
      BY <2>2, <2>5 DEF KeepsBut
    <2> QED  BY <2>0, <2>5, <2>6, <2>7, <2>8 DEF h
  <1> HIDE DEF T
  <1>5. n \in Nat
    BY <1>0
  <1>6. n \in T
    <2>1. n \in 0..n /\ \A m \in 1..n : m - 1 \in T => m \in T
      BY <1>4, <1>5
    <2> QED  BY <1>3, <1>5, <2>1, UpTo
  <1> QED  BY <1>1, <1>6 DEF T

-----------------------------------------------------------------------------
(* pump_all *)

PumpOne(p, k) ==
  IF Pending(p.conn[k]) \/ p.conn[k].listing # None \/ p.conn[k].done THEN ctl_pump(p, k) ELSE p

IsPump(F, g, t, n) == F = [m \in 0..n |-> IF m = 0 THEN g ELSE PumpOne(F[m - 1], t - m)]

LEMMA PumpAt ==
  ASSUME NEW g, NEW t, NEW n, NEW F, IsPump(F, g, t, n)
  PROVE  \A m \in 0..n : F[m] = IF m = 0 THEN g ELSE PumpOne(F[m - 1], t - m)
  BY Zenon DEF IsPump

LEMMA PumpExists ==
  ASSUME NEW g, NEW t, NEW n \in Nat PROVE \E F : IsPump(F, g, t, n)
  <1> DEFINE T == {m \in 0..n : \E F : IsPump(F, g, t, m)}
  <1>1. 0 \in T
    <2>1. IsPump([m \in 0..0 |-> g], g, t, 0)
      BY DEF IsPump
    <2> QED  BY <2>1
  <1>2. ASSUME NEW m \in 1..n, m - 1 \in T PROVE m \in T
    <2>1. PICK F : IsPump(F, g, t, m - 1)
      BY <1>2
    <2> DEFINE B == [j \in 0..m |-> IF j = m THEN PumpOne(F[m - 1], t - m) ELSE F[j]]
    <2>2. \A j \in 0..m - 1 : F[j] = IF j = 0 THEN g ELSE PumpOne(F[j - 1], t - j)
      BY <2>1, PumpAt
    <2>3. \A j \in 0..m : B[j] = IF j = 0 THEN g ELSE PumpOne(B[j - 1], t - j)
      BY <2>2
    <2>4. IsPump(B, g, t, m)
      BY <2>3 DEF IsPump
    <2> QED  BY <2>4
  <1> HIDE DEF T
  <1>3. n \in T
    BY <1>1, <1>2, UpTo
  <1> QED  BY <1>3 DEF T

LEMMA PumpIs ==
  ASSUME pump_all, n_ctl \in Nat
  PROVE  /\ phase = "top" /\ phase' = "poll" /\ UNCHANGED <<more, results, backlog, clientVars>>
         /\ \E F : IsPump(F, g0, n_ctl, n_ctl) /\ Becomes(F[n_ctl])
  <1> DEFINE F == CHOOSE F : IsPump(F, g0, n_ctl, n_ctl)
  <1>1. IsPump(F, g0, n_ctl, n_ctl)
    BY PumpExists, Zenon
  <1>2. Becomes(F[n_ctl])
    BY Zenon DEF pump_all, IsPump, PumpOne
  <1>3. phase = "top" /\ phase' = "poll" /\ UNCHANGED <<more, results, backlog, clientVars>>
    BY DEF pump_all
  <1> QED  BY <1>1, <1>2, <1>3

LEMMA PumpAllOK ==
  ASSUME NEW g, Base(u0, g), \A k \in Used(g) : AheadAt(u0, g, k), NEW F, IsPump(F, g, g.n, g.n)
  PROVE  LET h == F[g.n] IN Base(u0, h) /\ Keeps(u0, g, h) /\ \A k \in Used(h) : AheadAt(u0, h, k)
  <1> DEFINE t == g.n
  <1>0. g \in AServer /\ t \in Nat /\ Keeps(u0, g, g)
    BY UsedIs, KeepsSame DEF Base, Good
  <1>1. \A m \in 0..t : F[m] = IF m = 0 THEN g ELSE PumpOne(F[m - 1], t - m)
    BY PumpAt
  <1> HIDE DEF t
  <1> DEFINE T == {m \in 0..t : /\ Base(u0, F[m]) /\ Keeps(u0, g, F[m]) /\ F[m].n >= t - m
                                /\ \A k \in Used(F[m]) : AheadAt(u0, F[m], k)}
  <1>2. 0 \in T
    <2>1. 0 \in 0..t /\ F[0] = g
      BY <1>0, <1>1
    <2>2. g.n >= t - 0
      BY <1>0 DEF t
    <2> QED  BY <1>0, <2>1, <2>2
  <1>3. ASSUME NEW m \in 1..t, m - 1 \in T PROVE m \in T
    <2> DEFINE p == F[m - 1]
               h == F[m]
               k == t - m
    <2>0. m \in 0..t /\ m # 0 /\ m \in Nat /\ k \in Nat /\ t - (m - 1) = k + 1
      BY <1>0
    <2>1. h = PumpOne(p, k)
      BY <1>1, <2>0
    <2>2. /\ Base(u0, p) /\ Keeps(u0, g, p) /\ p.n >= k + 1 /\ \A j \in Used(p) : AheadAt(u0, p, j)
      BY <1>3, <2>0
    <2> HIDE DEF p, h, k
    <2>3. p \in AServer /\ p.n \in Nat /\ k \in Used(p)
      <3>1. p \in AServer /\ p.n \in Nat
        BY <2>2, UsedIs DEF Base, Good
      <3> QED  BY <2>0, <2>2, <3>1, UsedIs
    <2>4. LevelAt(u0, p, k)
      BY <2>2, <2>3, AheadLevel DEF Base, Good
    <2>5. /\ Base(u0, h) /\ Keeps(u0, g, h) /\ h.n >= k /\ \A j \in Used(h) : AheadAt(u0, h, j)
      <3>1. CASE h = ctl_pump(p, k)
        <4>1. /\ Base(u0, h) /\ Keeps(u0, p, h) /\ h \in AServer /\ h.n \in {p.n, p.n - 1}
              /\ \A j \in Used(h) : AheadAt(u0, h, j)
          BY <2>2, <2>3, <2>4, <3>1, PumpOK
        <4>2. h.n >= k
          BY <2>0, <2>2, <2>3, <4>1
        <4>3. Keeps(u0, g, h)
          BY <1>0, <2>2, <2>3, <4>1, KeepsTwo
        <4> QED  BY <4>1, <4>2, <4>3
      <3>2. CASE h = p
        <4>1. p.n >= k
          BY <2>0, <2>2, <2>3
        <4> QED  BY <2>2, <3>2, <4>1
      <3> QED  BY <2>1, <3>1, <3>2 DEF PumpOne
    <2> QED  BY <2>0, <2>5 DEF h, k
  <1> HIDE DEF T
  <1>4. t \in T
    <2>1. t \in 0..t /\ \A m \in 1..t : m - 1 \in T => m \in T
      BY <1>0, <1>3
    <2> QED  BY <1>0, <1>2, <2>1, UpTo
  <1> QED  BY <1>4 DEF T, t

-----------------------------------------------------------------------------
(* What poll() returns *)

ReadyStart == IF backlog = <<>> THEN <<>> ELSE <<Listen>>
ReadyMore(r, k) ==
  IF Events(k) = {} THEN r ELSE Append(r, [idx |-> k, fd |-> conn[k].fd, ev |-> Events(k)])

IsReady(F, n) == F = [m \in 0..n |-> IF m = 0 THEN ReadyStart ELSE ReadyMore(F[m - 1], m - 1)]

LEMMA ReadyAt ==
  ASSUME NEW n, NEW F, IsReady(F, n)
  PROVE  \A m \in 0..n : F[m] = IF m = 0 THEN ReadyStart ELSE ReadyMore(F[m - 1], m - 1)
  BY Zenon DEF IsReady

LEMMA ReadyExists ==
  ASSUME NEW n \in Nat PROVE \E F : IsReady(F, n)
  <1> DEFINE T == {m \in 0..n : \E F : IsReady(F, m)}
  <1>1. 0 \in T
    <2>1. IsReady([m \in 0..0 |-> ReadyStart], 0)
      BY DEF IsReady
    <2> QED  BY <2>1
  <1>2. ASSUME NEW m \in 1..n, m - 1 \in T PROVE m \in T
    <2>1. PICK F : IsReady(F, m - 1)
      BY <1>2
    <2> DEFINE B == [j \in 0..m |-> IF j = m THEN ReadyMore(F[m - 1], m - 1) ELSE F[j]]
    <2>2. \A j \in 0..m - 1 : F[j] = IF j = 0 THEN ReadyStart ELSE ReadyMore(F[j - 1], j - 1)
      BY <2>1, ReadyAt
    <2>3. \A j \in 0..m : B[j] = IF j = 0 THEN ReadyStart ELSE ReadyMore(B[j - 1], j - 1)
      BY <2>2
    <2>4. IsReady(B, m)
      BY <2>3 DEF IsReady
    <2> QED  BY <2>4
  <1> HIDE DEF T
  <1>3. n \in T
    BY <1>1, <1>2, UpTo
  <1> QED  BY <1>3 DEF T

LEMMA ReadyIs ==
  ASSUME n_ctl \in Nat
  PROVE  \E F : IsReady(F, n_ctl) /\ Ready = F[n_ctl]
  <1> DEFINE F == CHOOSE F : IsReady(F, n_ctl)
  <1>1. IsReady(F, n_ctl)
    BY ReadyExists, Zenon
  <1>2. Ready = F[n_ctl]
    BY Zenon DEF Ready, IsReady, ReadyStart, ReadyMore
  <1> QED  BY <1>1, <1>2

LEMMA ReadyTyped ==
  ASSUME n_ctl \in Nat, \A k \in 0..n_ctl - 1 : conn[k].fd \in Nat
  PROVE  Ready \in Seq(AResult)
  <1>1. PICK F : IsReady(F, n_ctl) /\ Ready = F[n_ctl]
    BY ReadyIs
  <1>2. \A m \in 0..n_ctl : F[m] = IF m = 0 THEN ReadyStart ELSE ReadyMore(F[m - 1], m - 1)
    BY <1>1, ReadyAt
  <1> DEFINE T == {m \in 0..n_ctl : F[m] \in Seq(AResult)}
  <1>3. 0 \in T
    <2>1. 0 \in 0..n_ctl
      OBVIOUS
    <2>2. Listen \in AResult
      BY DEF AResult
    <2>3. ReadyStart \in Seq(AResult)
      <3> HIDE DEF AResult, Listen
      <3> QED  BY <2>2 DEF ReadyStart
    <2> QED  BY <1>2, <2>1, <2>3
  <1>4. ASSUME NEW m \in 1..n_ctl, m - 1 \in T PROVE m \in T
    <2> DEFINE k == m - 1
               x == [idx |-> k, fd |-> conn[k].fd, ev |-> Events(k)]
    <2>1. m \in 0..n_ctl /\ m # 0 /\ k \in 0..n_ctl - 1 /\ k \in Nat
      OBVIOUS
    <2>2. F[m] = ReadyMore(F[k], k) /\ F[k] \in Seq(AResult)
      BY <1>2, <1>4, <2>1
    <2>3. Events(k) \in SUBSET {"hup", "in", "out"}
      BY DEF Events
    <2>4. x \in AResult
      BY <2>1, <2>3 DEF AResult
    <2>5. ReadyMore(F[k], k) = F[k] \/ ReadyMore(F[k], k) = Append(F[k], x)
      BY DEF ReadyMore
    <2> HIDE DEF x, k
    <2>6. F[m] \in Seq(AResult)
      BY <2>2, <2>4, <2>5, AppendIs
    <2> QED  BY <2>1, <2>6
  <1> HIDE DEF T
  <1>5. n_ctl \in T
    <2>1. n_ctl \in 0..n_ctl /\ \A m \in 1..n_ctl : m - 1 \in T => m \in T
      BY <1>4
    <2> QED  BY <1>3, <2>1, UpTo
  <1> QED  BY <1>1, <1>5 DEF T

-----------------------------------------------------------------------------
(* ring_put() *)

LEMMA LoggedOK ==
  ASSUME NEW g, Base(u0, g), NEW h \in AServer, h.conn = g.conn, h.n = g.n, h.ops = g.ops, h.inq = g.inq,
         h.wire = g.wire, h.closed = g.closed, h.verdict = g.verdict, h.head = g.head + 1,
         h.tail = (IF g.head + 1 - g.tail > RingLines THEN g.tail + 1 ELSE g.tail)
  PROVE  /\ Base(u0, h)
         /\ \A c \in Clients : h.inq[c] = g.inq[c] /\ (Fresh(u0, g, c) => Fresh(u0, h, c))
         /\ \A k \in Used(g) : k \in Used(h) /\ (AheadAt(u0, g, k) => NearAt(u0, h, k))
         /\ Used(h) = Used(g)
  <1>0. /\ u0 \in AClients /\ g \in AServer /\ g.tail <= g.head
        /\ g.head - g.tail <= RingLines /\ Distinct(g)
        /\ \A j \in Used(g) : ConnOK(u0, g, j)
        /\ \A d \in Clients : ClientOK(u0, g, d)
        /\ OpsOK(u0, g)
    BY DEF Base, Good
  <1>1. g.head \in Int /\ g.tail \in Int /\ RingLines \in Nat \ {0}
    BY <1>0, ServerFields, Consts
  <1>2. Used(h) = Used(g) /\ \A c : OpenIn(h, c) <=> OpenIn(g, c)
    BY DEF Used, OpenIn
  <1>3. \A s : Given(u0, h, s) = Given(u0, g, s)
    BY DEF Given, Sent
  <1>4. h.tail <= h.head /\ h.head - h.tail <= RingLines
    BY <1>0, <1>1
  <1>5. Distinct(h) /\ OpsOK(u0, h)
    BY <1>0, <1>2 DEF Distinct, OpsOK
  <1>6. \A j \in Used(h) : ConnOK(u0, h, j)
    BY <1>0, <1>2, <1>3 DEF ConnOK
  <1>7. \A d \in Clients : ClientOK(u0, h, d)
    BY <1>0, <1>2 DEF ClientOK, Sent
  <1>8. Base(u0, h)
    BY <1>0, <1>4, <1>5, <1>6, <1>7 DEF Base, Good
  <1>9. \A c \in Clients : h.inq[c] = g.inq[c] /\ (Fresh(u0, g, c) => Fresh(u0, h, c))
    BY <1>2 DEF Fresh
  <1>10. ASSUME NEW k \in Used(g), AheadAt(u0, g, k), ~Away(u0, g.conn[k].who)
         PROVE  Near(g.conn[k], h.tail, Given(u0, g, g.conn[k]))
    <2> DEFINE s == g.conn[k]
               r == Given(u0, g, s)
    <2>1. Ahead(s, g.head, g.tail, r)
      BY <1>10 DEF AheadAt
    <2>2. s.full => r # <<>>
      BY <1>0, <1>10 DEF ConnOK, SlotOK
    <2>3. s.log_at \in Int
      BY <1>0, UsedIs, SlotFields
    <2> HIDE DEF s, r
    <2>4. ASSUME s.watch, ~s.full PROVE s.out = <<>> /\ h.tail <= s.log_at
      <3>1. s.out = <<>> /\ g.tail <= s.log_at /\ (g.tail < s.log_at \/ 2 * (g.head - s.log_at) < RingLines)
        BY <2>1, <2>4 DEF Ahead
      <3>2. h.tail <= s.log_at
        BY <1>0, <1>1, <2>3, <3>1
      <3> QED  BY <3>1, <3>2
    <2>5. ASSUME s.listing = "log", r = <<>> PROVE s.watch /\ ~s.full
      BY <2>1, <2>2, <2>5 DEF Ahead
    <2>6. Near(s, h.tail, r)
      BY <2>4, <2>5 DEF Near, Level
    <2> QED  BY <2>6 DEF s, r
  <1>11. \A k \in Used(g) : AheadAt(u0, g, k) => NearAt(u0, h, k)
    BY <1>3, <1>10 DEF NearAt
  <1> QED  BY <1>2, <1>8, <1>9, <1>11

-----------------------------------------------------------------------------
(* The invariant, from one step to the next *)

\* The invariant of the clients u, ninit g, the backlog b and what is left to write.
Core(u, g, ph, b, l) ==
  /\ Good(u, g)
  /\ ph # "off" => OpsOK(u, g)
  /\ Serves(ph) => \A k \in Used(g) : AheadAt(u, g, k)
  /\ Waiting(u, g, b) /\ Halves(u, g, l)

LEMMA CInvIs ==
  CInv <=> /\ phase \in {"top", "poll", "dispatch", "down", "off"}
           /\ left \in [Clients -> Nat] /\ more \in Nat /\ results \in Seq(AResult)
           /\ Core(u0, g0, phase, backlog, left)
  BY DEF CInv, Core

LEMMA CInvIsNext ==
  ASSUME phase' \in {"top", "poll", "dispatch", "down", "off"},
         left' \in [Clients -> Nat], more' \in Nat, results' \in Seq(AResult),
         Core(u0', g0', phase', backlog', left')
  PROVE  CInv'
  BY DEF CInv, Core

LEMMA BecomesIs == ASSUME NEW h \in AServer, Becomes(h) PROVE g0' = h
  BY DEF Becomes, g0, AServer

LEMMA ClientsStay == ASSUME UNCHANGED clientVars PROVE u0' = u0 /\ left' = left
  BY DEF clientVars, u0

LEMMA ServerStays == ASSUME UNCHANGED serverVars PROVE g0' = g0
  BY DEF serverVars, g0

LEMMA HalvesKeep ==
  ASSUME NEW u, NEW g \in AServer, NEW h \in AServer, NEW l, Halves(u, g, l),
         \A c \in Clients : h.inq[c] <= g.inq[c],
         \A c \in Clients : u.client[c] = "idle" /\ Fresh(u, g, c) => Fresh(u, h, c)
  PROVE  Halves(u, h, l)
  <1> SUFFICES ASSUME NEW c \in Clients
               PROVE  /\ l[c] \in 0..2 /\ l[c] + h.inq[c] <= 2
                      /\ u.client[c] = "idle" => h.inq[c] = 0 /\ Fresh(u, h, c)
                      /\ u.client[c] # "idle" => u.req[c] # None
    BY DEF Halves
  <1>1. /\ l[c] \in 0..2 /\ l[c] + g.inq[c] <= 2
        /\ u.client[c] = "idle" => g.inq[c] = 0 /\ Fresh(u, g, c)
        /\ u.client[c] # "idle" => u.req[c] # None
    BY DEF Halves
  <1>2. g.inq[c] \in Nat /\ h.inq[c] \in Nat /\ h.inq[c] <= g.inq[c]
    BY ServerFields
  <1>3. l[c] + h.inq[c] <= 2 /\ (g.inq[c] = 0 => h.inq[c] = 0)
    BY <1>1, <1>2
  <1> QED  BY <1>1, <1>3

LEMMA WaitingKeep ==
  ASSUME NEW u, NEW g, NEW h, NEW b, Waiting(u, g, b),
         \A c \in Clients : Fresh(u, g, c) => Fresh(u, h, c)
  PROVE  Waiting(u, h, b)
  <1>1. b \in Seq(Clients) /\ \A k \in 1..Len(b) : b[k] \in Clients
    BY DEF Waiting
  <1> QED  BY <1>1 DEF Waiting

LEMMA NoneWaits == ASSUME NEW u, NEW g PROVE Waiting(u, g, <<>>)
  BY DEF Waiting

\* A handler of ninit that keeps what is not accepted yet.
LEMMA ServerStep ==
  ASSUME CInv, NEW h, Base(u0, h),
         \A c \in Clients : h.inq[c] <= g0.inq[c],
         \A c \in Clients : Fresh(u0, g0, c) => Fresh(u0, h, c),
         Becomes(h), UNCHANGED <<backlog, clientVars>>,
         phase' \in {"top", "poll", "dispatch", "down"}, more' \in Nat, results' \in Seq(AResult),
         Serves(phase') => \A k \in Used(h) : AheadAt(u0, h, k)
  PROVE  CInv' /\ tail' = h.tail
  <1>0. left \in [Clients -> Nat] /\ Core(u0, g0, phase, backlog, left)
    BY CInvIs
  <1>1. g0 \in AServer /\ h \in AServer
    BY <1>0 DEF Core, Base, Good
  <1>2. g0' = h
    BY <1>1, BecomesIs
  <1>3. u0' = u0 /\ left' = left /\ backlog' = backlog
    BY ClientsStay
  <1>4. Halves(u0, h, left)
    BY <1>0, <1>1, HalvesKeep DEF Core
  <1>5. Waiting(u0, h, backlog)
    BY <1>0, WaitingKeep DEF Core
  <1>6. Core(u0, h, phase', backlog, left)
    BY <1>4, <1>5 DEF Core, Base
  <1> QED  BY <1>0, <1>2, <1>3, <1>6, CInvIsNext DEF Becomes

LEMMA CInvBase ==
  ASSUME CInv
  PROVE  /\ u0 \in AClients /\ g0 \in AServer /\ Good(u0, g0) /\ (phase # "off" => Base(u0, g0))
         /\ n_ctl \in Nat /\ g0.n = n_ctl /\ more \in Nat /\ results \in Seq(AResult)
         /\ Serves(phase) => \A k \in Used(g0) : AheadAt(u0, g0, k)
         /\ Waiting(u0, g0, backlog) /\ Halves(u0, g0, left)
  <1>1. Core(u0, g0, phase, backlog, left) /\ more \in Nat /\ results \in Seq(AResult)
    BY CInvIs
  <1>2. u0 \in AClients /\ g0 \in AServer
    BY <1>1 DEF Core, Good
  <1>3. g0.n \in Nat /\ g0.n = n_ctl
    BY <1>2, UsedIs DEF g0
  <1> QED  BY <1>1, <1>2, <1>3 DEF Core, Base

-----------------------------------------------------------------------------
(* The steps of main() *)

LEMMA TickKeeps ==
  ASSUME CInv, NEW i \in Ops, NEW r \in {"ok", "err"}, ctl_tick(i, r) PROVE CInv' /\ tail' = tail
  <1> DEFINE h == svc_op_done(g0, i, r)
  <1>0. /\ phase = "top" /\ ops[i] # None /\ Becomes(h)
        /\ UNCHANGED <<more, phase, results, backlog, clientVars>>
    BY DEF ctl_tick
  <1>1. Base(u0, g0) /\ (\A k \in Used(g0) : AheadAt(u0, g0, k)) /\ more \in Nat /\ results \in Seq(AResult)
    BY <1>0, CInvBase DEF Serves
  <1>2. g0.ops[i] # None
    BY <1>0 DEF g0
  <1>3. /\ Base(u0, h) /\ Keeps(u0, g0, h) /\ h.n = g0.n
        /\ \A k \in Used(g0) : AheadAt(u0, g0, k) => AheadAt(u0, h, k)
    BY <1>1, <1>2, DoneOK
  <1> HIDE DEF h
  <1>4. \A k \in Used(h) : AheadAt(u0, h, k)
    BY <1>1, <1>3 DEF Used
  <1>a. g0.tail = tail /\ h.tail = g0.tail
    BY <1>3 DEF Keeps, g0
  <1> QED  BY <1>0, <1>1, <1>3, <1>4, <1>a, ServerStep DEF Keeps

LEMMA PumpKeeps == ASSUME CInv, pump_all PROVE CInv' /\ tail' = tail
  <1>0. n_ctl \in Nat /\ g0.n = n_ctl /\ more \in Nat /\ results \in Seq(AResult)
    BY CInvBase
  <1>1. phase = "top" /\ phase' = "poll" /\ UNCHANGED <<more, results, backlog, clientVars>>
    BY <1>0, PumpIs
  <1>2. PICK F : IsPump(F, g0, n_ctl, n_ctl) /\ Becomes(F[n_ctl])
    BY <1>0, PumpIs
  <1>3. Base(u0, g0) /\ \A k \in Used(g0) : AheadAt(u0, g0, k)
    BY <1>1, CInvBase DEF Serves
  <1> DEFINE h == F[n_ctl]
  <1>4. Base(u0, h) /\ Keeps(u0, g0, h) /\ \A k \in Used(h) : AheadAt(u0, h, k)
    BY <1>0, <1>2, <1>3, PumpAllOK
  <1>5. Becomes(h)
    BY <1>2
  <1> HIDE DEF h
  <1>a. g0.tail = tail /\ h.tail = g0.tail
    BY <1>4 DEF Keeps, g0
  <1> QED  BY <1>0, <1>1, <1>4, <1>5, <1>a, ServerStep DEF Keeps

LEMMA PollKeeps == ASSUME CInv, poll PROVE CInv'
  <1>0. phase = "poll" /\ phase' = "dispatch" /\ results' = Ready
        /\ UNCHANGED <<more, backlog, clientVars, serverVars>>
    BY DEF poll
  <1>1. left \in [Clients -> Nat] /\ more \in Nat /\ Core(u0, g0, phase, backlog, left)
    BY CInvIs
  <1>2. g0' = g0 /\ u0' = u0 /\ left' = left /\ more' = more /\ backlog' = backlog
    BY <1>0, ClientsStay, ServerStays
  <1>3. Ready \in Seq(AResult)
    <2>1. n_ctl \in Nat /\ g0 \in AServer /\ g0.n = n_ctl
      BY CInvBase
    <2>2. \A k \in Used(g0) : g0.conn[k] \in ASlot
      BY <2>1, UsedIs
    <2>3. ASSUME NEW k \in 0..n_ctl - 1 PROVE conn[k].fd \in Nat
      <3>1. k \in Used(g0) /\ g0.conn = conn
        BY <2>1 DEF Used, g0
      <3> QED  BY <2>2, <3>1, SlotFields
    <2> QED  BY <2>1, <2>3, ReadyTyped
  <1>4. Core(u0, g0, phase', backlog, left)
    BY <1>0, <1>1 DEF Core, Serves
  <1> QED  BY <1>0, <1>1, <1>2, <1>3, <1>4, CInvIsNext

LEMMA ShutdownKeeps == ASSUME CInv, shutdown_begins PROVE CInv'
  <1>0. phase = "poll" /\ phase' = "down" /\ UNCHANGED <<more, results, backlog, clientVars, serverVars>>
    BY DEF shutdown_begins
  <1>1. left \in [Clients -> Nat] /\ more \in Nat /\ results \in Seq(AResult) /\ Core(u0, g0, phase, backlog, left)
    BY CInvIs
  <1>2. g0' = g0 /\ u0' = u0 /\ left' = left /\ more' = more /\ backlog' = backlog /\ results' = results
    BY <1>0, ClientsStay, ServerStays
  <1>3. Core(u0, g0, phase', backlog, left)
    BY <1>0, <1>1 DEF Core, Serves
  <1> QED  BY <1>0, <1>1, <1>2, <1>3, CInvIsNext

LEMMA RoundKeeps == ASSUME CInv, end_round PROVE CInv'
  <1>0. phase = "dispatch" /\ phase' = "top" /\ UNCHANGED <<more, results, backlog, clientVars, serverVars>>
    BY DEF end_round
  <1>1. left \in [Clients -> Nat] /\ more \in Nat /\ results \in Seq(AResult) /\ Core(u0, g0, phase, backlog, left)
    BY CInvIs
  <1>2. g0' = g0 /\ u0' = u0 /\ left' = left /\ more' = more /\ backlog' = backlog /\ results' = results
    BY <1>0, ClientsStay, ServerStays
  <1>3. Core(u0, g0, phase', backlog, left)
    BY <1>0, <1>1 DEF Core, Serves
  <1> QED  BY <1>0, <1>1, <1>2, <1>3, CInvIsNext

LEMMA ListenKeeps == ASSUME CInv, dispatch_listen PROVE CInv' /\ tail' = tail
  <1> DEFINE h == ctl_accept(g0)
  <1>0. /\ phase = "dispatch" /\ results # <<>> /\ results' = Tail(results) /\ Becomes(h) /\ backlog' = <<>>
        /\ UNCHANGED <<more, phase, clientVars>>
    BY DEF dispatch_listen
  <1>1. /\ Base(u0, g0) /\ (\A k \in Used(g0) : AheadAt(u0, g0, k)) /\ g0 \in AServer
        /\ Waiting(u0, g0, backlog) /\ Halves(u0, g0, left) /\ more \in Nat /\ results \in Seq(AResult)
        /\ left \in [Clients -> Nat]
    BY <1>0, CInvBase, CInvIs DEF Serves
  <1>2. \A c \in Clients : u0.client[c] # "idle" => u0.req[c] # None
    BY <1>1 DEF Halves
  <1>3. /\ Base(u0, h) /\ (\A k \in Used(h) : AheadAt(u0, h, k)) /\ h.inq = g0.inq /\ h.tail = g0.tail
        /\ \A c \in Clients : u0.client[c] = "idle" /\ Fresh(u0, g0, c) => Fresh(u0, h, c)
    BY <1>1, <1>2, AcceptAllOK
  <1> HIDE DEF h
  <1>4. h \in AServer
    BY <1>3 DEF Base, Good
  <1>5. g0' = h /\ u0' = u0 /\ left' = left
    BY <1>0, <1>4, BecomesIs, ClientsStay
  <1>6. \A c \in Clients : h.inq[c] <= g0.inq[c]
    BY <1>1, <1>3, ServerFields
  <1>7. Halves(u0, h, left)
    BY <1>1, <1>3, <1>4, <1>6, HalvesKeep
  <1>8. Core(u0, h, phase, <<>>, left)
    BY <1>3, <1>7, NoneWaits DEF Core, Base
  <1>9. Tail(results) \in Seq(AResult)
    BY <1>0, <1>1
  <1>10. tail' = tail
    BY <1>0, <1>3 DEF Becomes, g0
  <1> QED  BY <1>0, <1>1, <1>5, <1>8, <1>9, <1>10, CInvIsNext

LEMMA ConnKeeps ==
  ASSUME CInv, NEW r \in {"ok", "err", "later"}, dispatch_conn(r) PROVE CInv' /\ tail' = tail
  <1> DEFINE p == Head(results)
             a == IF p.ev \intersect {"out", "hup"} # {} THEN ctl_pump(g0, p.idx) ELSE g0
             b == IF IsThere(a, p) /\ p.ev \intersect {"in", "hup"} # {} THEN ctl_read(a, p.idx, r) ELSE a
             h == IF IsThere(g0, p) THEN b ELSE g0
  <1>0. /\ phase = "dispatch" /\ results # <<>> /\ p # Listen /\ results' = Tail(results) /\ Becomes(h)
        /\ UNCHANGED <<more, phase, backlog, clientVars>>
    BY DEF dispatch_conn
  <1>1. /\ Base(u0, g0) /\ (\A k \in Used(g0) : AheadAt(u0, g0, k)) /\ g0 \in AServer
        /\ more \in Nat /\ results \in Seq(AResult)
    BY <1>0, CInvBase DEF Serves
  <1>2. Tail(results) \in Seq(AResult) /\ p \in AResult
    BY <1>0, <1>1
  <1>3. p.idx \in Nat
    BY <1>0, <1>2 DEF AResult
  <1>4. \A x \in AServer : IsThere(x, p) => p.idx \in Used(x)
    BY <1>3, UsedIs DEF IsThere
  <1>5. Base(u0, h) /\ Keeps(u0, g0, h) /\ \A k \in Used(h) : AheadAt(u0, h, k)
    <2>1. CASE ~IsThere(g0, p)
      BY <1>1, <2>1, KeepsSame
    <2>2. CASE IsThere(g0, p)
      <3>1. h = b /\ p.idx \in Used(g0)
        BY <1>1, <1>4, <2>2
      <3>2. Base(u0, a) /\ Keeps(u0, g0, a) /\ \A k \in Used(a) : AheadAt(u0, a, k)
        <4>1. LevelAt(u0, g0, p.idx)
          BY <1>1, <3>1, AheadLevel DEF Base, Good
        <4>2. CASE a = ctl_pump(g0, p.idx)
          <5> HIDE DEF a, p
          <5> QED  BY <1>1, <3>1, <4>1, <4>2, PumpOK
        <4>3. CASE a = g0
          BY <1>1, <4>3, KeepsSame
        <4> QED  BY <4>2, <4>3
      <3>3. b = a \/ (IsThere(a, p) /\ b = ctl_read(a, p.idx, r))
        OBVIOUS
      <3> HIDE DEF a, b, h, p
      <3>4. a \in AServer
        BY <3>2 DEF Base, Good
      <3>5. CASE IsThere(a, p) /\ b = ctl_read(a, p.idx, r)
        <4>1. Base(u0, b) /\ Keeps(u0, a, b) /\ \A k \in Used(b) : AheadAt(u0, b, k)
          BY <1>4, <3>2, <3>4, <3>5, ReadOK
        <4>2. b \in AServer
          BY <4>1 DEF Base, Good
        <4> QED  BY <1>1, <3>1, <3>2, <3>4, <4>1, <4>2, KeepsTwo
      <3> QED  BY <3>1, <3>2, <3>3, <3>5
    <2> QED  BY <2>1, <2>2
  <1> HIDE DEF h, p
  <1>a. g0.tail = tail /\ h.tail = g0.tail
    BY <1>5 DEF Keeps, g0
  <1> QED  BY <1>0, <1>1, <1>2, <1>5, <1>a, ServerStep DEF Keeps

\* And no watcher that reads is overtaken.
LEMMA RingKeeps ==
  ASSUME CInv, ring_put
  PROVE  /\ CInv'
         /\ phase # "down" => \A k \in Used(g0) : LET s == g0.conn[k] IN
              s.watch /\ ~s.full /\ ~Away(u0, s.who) => tail' <= s.log_at
  <1> DEFINE t == IF head + 1 - g0.tail > RingLines THEN g0.tail + 1 ELSE g0.tail
             m == [g0 EXCEPT !.head = @ + 1, !.tail = IF head + 1 - @ > RingLines THEN @ + 1 ELSE @]
             h == ctl_feed(m)
  <1>0. /\ phase \in {"dispatch", "down"} /\ more > 0 /\ more' = more - 1 /\ Becomes(h)
        /\ UNCHANGED <<phase, results, backlog, clientVars>>
    BY DEF ring_put
  <1>1. /\ Base(u0, g0) /\ (phase # "down" => \A k \in Used(g0) : AheadAt(u0, g0, k)) /\ g0 \in AServer
        /\ more \in Nat /\ results \in Seq(AResult) /\ head = g0.head
    <2>1. head = g0.head
      BY DEF g0
    <2> QED  BY <1>0, <2>1, CInvBase DEF Serves
  <1>2. /\ m \in AServer /\ m.conn = g0.conn /\ m.n = g0.n /\ m.ops = g0.ops /\ m.inq = g0.inq
        /\ m.wire = g0.wire /\ m.closed = g0.closed /\ m.verdict = g0.verdict /\ m.head = g0.head + 1
        /\ m.tail = t
    <2> DEFINE x == g0.head + 1
    <2>1. x \in Int /\ t \in Int
      BY <1>1, ServerFields
    <2>2. m = [g0 EXCEPT !.head = x, !.tail = t]
      BY <1>1 DEF AServer
    <2> HIDE DEF x, t, m
    <2>3. m \in AServer /\ m.head = x /\ m.tail = t
      BY <1>1, <2>1, <2>2 DEF AServer
    <2>4. /\ m.conn = g0.conn /\ m.n = g0.n /\ m.ops = g0.ops /\ m.inq = g0.inq
          /\ m.wire = g0.wire /\ m.closed = g0.closed /\ m.verdict = g0.verdict
      BY <1>1, <2>2 DEF AServer
    <2> QED  BY <2>3, <2>4 DEF x
  <1>3. m.tail = IF g0.head + 1 - g0.tail > RingLines THEN g0.tail + 1 ELSE g0.tail
    BY <1>1, <1>2
  <1> HIDE DEF m, t
  <1>4. /\ Base(u0, m)
        /\ \A c \in Clients : m.inq[c] = g0.inq[c] /\ (Fresh(u0, g0, c) => Fresh(u0, m, c))
        /\ \A k \in Used(g0) : AheadAt(u0, g0, k) => NearAt(u0, m, k)
        /\ Used(m) = Used(g0)
    BY <1>1, <1>2, <1>3, LoggedOK
  <1>5. phase # "down" => \A k \in Used(m) : NearAt(u0, m, k)
    BY <1>1, <1>4
  <1>6. /\ Base(u0, h) /\ Keeps(u0, m, h)
        /\ phase # "down" => \A k \in Used(h) : AheadAt(u0, h, k)
    BY <1>4, <1>5, FeedAllOK
  <1> HIDE DEF h
  <1>7. /\ \A c \in Clients : h.inq[c] <= g0.inq[c]
        /\ \A c \in Clients : Fresh(u0, g0, c) => Fresh(u0, h, c)
    BY <1>4, <1>6 DEF Keeps
  <1>8. Serves(phase') => \A k \in Used(h) : AheadAt(u0, h, k)
    BY <1>0, <1>6 DEF Serves
  <1>9. more' \in Nat
    BY <1>0, <1>1
  <1>10. CInv' /\ tail' = h.tail
    BY <1>0, <1>1, <1>6, <1>7, <1>8, <1>9, ServerStep
  <1>11. tail' = m.tail
    BY <1>6, <1>10 DEF Keeps
  <1>12. ASSUME phase # "down", NEW k \in Used(g0), g0.conn[k].watch, ~g0.conn[k].full, ~Away(u0, g0.conn[k].who)
         PROVE  tail' <= g0.conn[k].log_at
    <2>1. NearAt(u0, m, k) /\ m.conn[k] = g0.conn[k]
      BY <1>2, <1>4, <1>5, <1>12
    <2> QED  BY <1>11, <1>12, <2>1 DEF NearAt, Near, Level
  <1> QED  BY <1>10, <1>12

-----------------------------------------------------------------------------
(* shutdown_system() *)

LEMMA CloseKeeps == ASSUME CInv, close_all PROVE CInv'
  <1> DEFINE g == g0
             h == g0'
             u == u0
  <1>0. /\ phase' = "off" /\ backlog' = <<>> /\ UNCHANGED <<more, results, clientVars>>
        /\ closed' = [c \in Clients |-> closed[c] \/ client[c] # "idle"]
        /\ n_ctl' = 0 /\ UNCHANGED <<conn, ops, inq, wire, verdict, head, tail>>
    BY DEF close_all
  <1>1. /\ Good(u, g) /\ u \in AClients /\ g \in AServer /\ Halves(u, g, left) /\ left \in [Clients -> Nat]
        /\ more \in Nat /\ results \in Seq(AResult)
    BY CInvBase, CInvIs
  <1>2. u0' = u /\ left' = left /\ more' = more /\ results' = results
    BY <1>0, ClientsStay
  <1>3. /\ h.conn = g.conn /\ h.n = 0 /\ h.ops = g.ops /\ h.inq = g.inq /\ h.wire = g.wire
        /\ h.verdict = g.verdict /\ h.head = g.head /\ h.tail = g.tail
        /\ \A c \in Clients : h.closed[c] = (g.closed[c] \/ u.client[c] # "idle")
    BY <1>0 DEF g0, u0
  <1>4. h \in AServer
    <2>1. CTL_MAX \in Nat
      BY Consts
    <2>2. closed' \in [Clients -> BOOLEAN] /\ n_ctl' \in 0..CTL_MAX
      BY <1>0, <2>1
    <2> QED  BY <1>0, <1>1, <2>2 DEF AServer, g0
  <1> HIDE DEF h, g, u
  <1>5. Used(h) = {} /\ \A c : ~OpenIn(h, c)
    BY <1>3 DEF Used, OpenIn
  <1>6. ASSUME NEW c \in Clients PROVE ClientOK(u, h, c)
    <2>1. ClientOK(u, g, c) /\ h.wire = g.wire /\ h.verdict = g.verdict /\ Sent(u, h, c) = Sent(u, g, c)
      BY <1>1, <1>3 DEF Good, Sent
    <2>2. g.closed[c] => h.closed[c]
      BY <1>3
    <2>3. ASSUME ~Away(u, c) PROVE Partial(u.req[c], g.verdict[c], Sent(u, g, c))
      <3>1. CASE ~OpenIn(g, c)
        BY <2>1, <2>3, <3>1 DEF ClientOK
      <3>2. CASE OpenIn(g, c)
        <4>1. PICK k \in Used(g) : g.conn[k].who = c
          BY <3>2 DEF OpenIn
        <4> DEFINE s == g.conn[k]
        <4>2. s \in ASlot /\ Progress(u.req[c], s, g.verdict[c], Given(u, g, s)) /\ Shape(s)
          BY <1>1, <2>3, <4>1, UsedIs DEF Good, ConnOK, SlotOK
        <4>3. Sent(u, g, c) \in Seq(ALine) /\ g.verdict[c] \in {None, "ok", "err"}
          BY <1>1, SentIs
        <4>4. Rest(s) \in Seq(ALine)
          BY <4>2, RestIs
        <4>5. Given(u, g, s) = Sent(u, g, c) \o Rest(s)
          BY <4>1 DEF Given
        <4> HIDE DEF s
        <4>6. Given(u, g, s) \in Seq(ALine)
          BY <4>3, <4>4, <4>5, ConcatIs
        <4>7. Partial(u.req[c], g.verdict[c], Given(u, g, s))
          BY <4>2, <4>3, <4>6, ProgressPartial
        <4> QED  BY <4>3, <4>4, <4>5, <4>7, PartialLess
      <3> QED  BY <3>1, <3>2
    <2> QED  BY <2>1, <2>2, <2>3 DEF ClientOK
  <1>7. Good(u, h)
    BY <1>1, <1>3, <1>4, <1>5, <1>6 DEF Good, Distinct
  <1>8. \A c \in Clients : u.client[c] = "idle" /\ Fresh(u, g, c) => Fresh(u, h, c)
    BY <1>3, <1>5 DEF Fresh
  <1>9. \A c \in Clients : h.inq[c] <= g.inq[c]
    BY <1>1, <1>3, ServerFields
  <1>10. Halves(u, h, left)
    BY <1>1, <1>4, <1>8, <1>9, HalvesKeep
  <1>11. Core(u, h, phase', <<>>, left)
    BY <1>0, <1>7, <1>10, NoneWaits DEF Core, Serves
  <1> QED  BY <1>0, <1>1, <1>2, <1>11, CInvIsNext DEF h

-----------------------------------------------------------------------------
(* A step of a client *)

\* c is the only client that v and h differ from u and g in.
Differs(u, g, v, h, c) ==
  /\ v \in AClients /\ h \in AServer /\ h.conn = g.conn /\ h.n = g.n /\ h.ops = g.ops
  /\ h.closed = g.closed /\ h.verdict = g.verdict /\ h.head = g.head /\ h.tail = g.tail /\ v.req = u.req
  /\ \A d \in Clients \ {c} : v.client[d] = u.client[d] /\ v.got[d] = u.got[d] /\ h.wire[d] = g.wire[d]
  /\ Len(h.wire[c]) <= SockMax /\ (Away(u, c) => Away(v, c))
  /\ ~Away(v, c) => Sent(v, h, c) = Sent(u, g, c)
  /\ v.client[c] = "ok" => /\ g.closed[c] /\ h.wire[c] = <<>>
                           /\ \E m \in 1..Len(v.got[c]) : v.got[c][m].tag = "ok"
  /\ Fresh(u, g, c) => v.got[c] = <<>> /\ h.wire[c] = <<>>

\* What stays true of it.
Follows(u, g, v, h) ==
  /\ Good(v, h) /\ (OpsOK(u, g) => OpsOK(v, h)) /\ Used(h) = Used(g)
  /\ \A k \in Used(g) : AheadAt(u, g, k) => AheadAt(v, h, k)
  /\ \A d \in Clients : Fresh(u, g, d) => Fresh(v, h, d)

LEMMA ClientStep ==
  ASSUME NEW u, NEW g, Good(u, g), NEW c \in Clients, NEW v, NEW h, Differs(u, g, v, h, c)
  PROVE  Follows(u, g, v, h)
  <1> USE DEF Differs
  <1>0. /\ u \in AClients /\ g \in AServer /\ g.tail <= g.head
        /\ g.head - g.tail <= RingLines /\ Distinct(g)
        /\ \A j \in Used(g) : ConnOK(u, g, j)
        /\ \A d \in Clients : ClientOK(u, g, d)
    BY DEF Good
  <1>1. Used(h) = Used(g) /\ \A d : OpenIn(h, d) <=> OpenIn(g, d)
    BY DEF Used, OpenIn
  <1>2. \A d \in Clients : Away(u, d) => Away(v, d)
    BY DEF Away
  <1>3. \A d \in Clients : ~Away(v, d) => Sent(v, h, d) = Sent(u, g, d)
    BY DEF Sent
  <1>4. Distinct(h)
    BY <1>0, <1>1 DEF Distinct
  <1>5. ASSUME NEW k \in Used(g) PROVE ConnOK(v, h, k) /\ (AheadAt(u, g, k) => AheadAt(v, h, k))
    <2> DEFINE s == g.conn[k]
               d == s.who
    <2>1. /\ d \in Clients /\ ~g.closed[d] /\ u.req[d] \in Requests /\ s.fd \in 1..CTL_MAX
          /\ s.svc # None => g.ops[s.svc] = d
          /\ SlotOK(s, u.req[d], Away(u, d), g.verdict[d], Given(u, g, s))
      BY <1>0 DEF ConnOK
    <2>2. ~Away(v, d) => ~Away(u, d) /\ Given(v, h, s) = Given(u, g, s)
      BY <1>2, <1>3, <2>1 DEF Given
    <2>3. h.conn[k] = s
      OBVIOUS
    <2>4. AheadAt(u, g, k) => AheadAt(v, h, k)
      BY <2>2, <2>3 DEF AheadAt
    <2> HIDE DEF s
    <2>5. SlotOK(s, v.req[d], Away(v, d), h.verdict[d], Given(v, h, s))
      BY <2>1, <2>2 DEF SlotOK
    <2> QED  BY <2>1, <2>3, <2>4, <2>5 DEF ConnOK
  <1>6. ASSUME NEW d \in Clients PROVE ClientOK(v, h, d)
    <2>1. ClientOK(u, g, d)
      BY <1>0
    <2>2. ~Away(v, d) => ~Away(u, d) /\ Sent(v, h, d) = Sent(u, g, d)
      BY <1>2, <1>3
    <2>3. Len(h.wire[d]) <= SockMax
      BY <2>1 DEF ClientOK
    <2>4. v.client[d] = "ok" => /\ h.closed[d] /\ h.wire[d] = <<>>
                                /\ \E m \in 1..Len(v.got[d]) : v.got[d][m].tag = "ok"
      BY <2>1 DEF ClientOK
    <2> QED  BY <1>1, <2>1, <2>2, <2>3, <2>4 DEF ClientOK
  <1>7. Good(v, h)
    BY <1>0, <1>1, <1>4, <1>5, <1>6 DEF Good
  <1>8. ASSUME OpsOK(u, g) PROVE OpsOK(v, h)
    <2> SUFFICES ASSUME NEW i \in Ops, g.ops[i] # None
                 PROVE  /\ u.req[g.ops[i]] = i
                        /\ ~Away(v, g.ops[i]) =>
                             \E j \in Used(g) : g.conn[j].who = g.ops[i] /\ g.conn[j].svc = i
      BY <1>1 DEF OpsOK
    <2>1. g.ops[i] \in Clients
      BY <1>0, ServerFields
    <2> QED  BY <1>2, <1>8, <2>1 DEF OpsOK
  <1>9. ASSUME NEW d \in Clients, Fresh(u, g, d) PROVE Fresh(v, h, d)
    <2>1. v.got[d] = <<>> /\ h.wire[d] = <<>>
      BY <1>9 DEF Fresh
    <2> QED  BY <1>1, <1>9, <2>1 DEF Fresh
  <1> QED  BY <1>1, <1>5, <1>7, <1>8, <1>9 DEF Follows

\* The same, of the invariant.  b, l: the backlog and what is left to write.
\* The part of the client c in it.
Writes(u, g, v, h, c, l, k) ==
  /\ \A d \in Clients \ {c} : v.client[d] = u.client[d] /\ h.inq[d] = g.inq[d] /\ k[d] = l[d]
  /\ v.req = u.req /\ v.client[c] # "idle" /\ u.req[c] # None /\ k[c] \in 0..2 /\ k[c] + h.inq[c] <= 2

LEMMA ClientCore ==
  ASSUME NEW u, NEW g, NEW c \in Clients, NEW v, NEW h, NEW ph, NEW l, NEW b, NEW k,
         Core(u, g, ph, b, l), Follows(u, g, v, h), Writes(u, g, v, h, c, l, k)
  PROVE  Core(v, h, ph, b, k)
  <1> USE DEF Follows, Writes
  <1>1. Waiting(v, h, b)
    <2>1. b \in Seq(Clients) /\ \A j \in 1..Len(b) : b[j] \in Clients
      BY DEF Core, Waiting
    <2> QED  BY <2>1 DEF Core, Waiting
  <1>2. Halves(v, h, k)
    <2> SUFFICES ASSUME NEW d \in Clients
                 PROVE  /\ k[d] \in 0..2 /\ k[d] + h.inq[d] <= 2
                        /\ v.client[d] = "idle" => h.inq[d] = 0 /\ Fresh(v, h, d)
                        /\ v.client[d] # "idle" => v.req[d] # None
      BY DEF Halves
    <2>1. /\ l[d] \in 0..2 /\ l[d] + g.inq[d] <= 2
          /\ u.client[d] = "idle" => g.inq[d] = 0 /\ Fresh(u, g, d)
          /\ u.client[d] # "idle" => u.req[d] # None
      BY DEF Core, Halves
    <2>2. CASE d = c
      BY <2>2
    <2>3. CASE d # c
      <3>1. v.client[d] = u.client[d] /\ h.inq[d] = g.inq[d] /\ k[d] = l[d]
        BY <2>3
      <3> QED  BY <2>1, <3>1
    <2> QED  BY <2>2, <2>3
  <1> QED  BY <1>1, <1>2 DEF Core

ClientStates == {"idle", "sending", "reading", "ok", "fail", "gone"}

LEMMA ClientTypes ==
  ASSUME CInv
  PROVE  /\ client \in [Clients -> ClientStates] /\ got \in [Clients -> Seq(ALine)]
         /\ req \in [Clients -> Requests \union {None}] /\ wire \in [Clients -> Seq(ALine)]
         /\ inq \in [Clients -> Nat] /\ left \in [Clients -> Nat] /\ closed \in [Clients -> BOOLEAN]
         /\ \A c \in Clients : /\ left[c] \in 0..2 /\ left[c] + inq[c] <= 2 /\ Len(wire[c]) <= SockMax
                               /\ client[c] # "idle" => req[c] # None
                               /\ client[c] = "idle" => Fresh(u0, g0, c) /\ inq[c] = 0
                               /\ client[c] = "ok" => closed[c]
                               /\ closed[c] => ~Fresh(u0, g0, c)
                               /\ wire[c] # <<>> => ~Fresh(u0, g0, c)
  <1>1. u0 \in AClients /\ g0 \in AServer /\ Good(u0, g0) /\ Halves(u0, g0, left)
    BY CInvBase
  <1>2. /\ u0.client = client /\ u0.got = got /\ u0.req = req /\ g0.wire = wire /\ g0.inq = inq
        /\ g0.closed = closed
    BY DEF u0, g0
  <1>3. left \in [Clients -> Nat]
    BY CInvIs
  <1>4. /\ client \in [Clients -> ClientStates] /\ got \in [Clients -> Seq(ALine)]
        /\ req \in [Clients -> Requests \union {None}] /\ wire \in [Clients -> Seq(ALine)]
        /\ inq \in [Clients -> Nat] /\ closed \in [Clients -> BOOLEAN]
    <2>1. /\ u0.client \in [Clients -> ClientStates] /\ u0.got \in [Clients -> Seq(ALine)]
          /\ u0.req \in [Clients -> Requests \union {None}]
      BY <1>1, ClientFields DEF ClientStates
    <2>2. g0.wire \in [Clients -> Seq(ALine)] /\ g0.inq \in [Clients -> Nat] /\ g0.closed \in [Clients -> BOOLEAN]
      BY <1>1, ServerFields
    <2> QED  BY <1>2, <2>1, <2>2
  <1>5. ASSUME NEW c \in Clients
        PROVE  /\ left[c] \in 0..2 /\ left[c] + inq[c] <= 2 /\ Len(wire[c]) <= SockMax
               /\ client[c] # "idle" => req[c] # None
               /\ client[c] = "idle" => Fresh(u0, g0, c) /\ inq[c] = 0
               /\ client[c] = "ok" => closed[c]
               /\ closed[c] => ~Fresh(u0, g0, c)
               /\ wire[c] # <<>> => ~Fresh(u0, g0, c)
    <2>1. ClientOK(u0, g0, c)
      BY <1>1 DEF Good
    <2> QED  BY <1>1, <1>2, <2>1 DEF Halves, ClientOK, Fresh
  <1> QED  BY <1>3, <1>4, <1>5

\* What a step of the client c changes, and what of it keeps the invariant.
LEMMA ClientDoes ==
  ASSUME CInv, NEW c \in Clients,
         UNCHANGED <<more, phase, results, req, conn, n_ctl, ops, closed, verdict, head, tail>>,
         client' \in [Clients -> ClientStates], got' \in [Clients -> Seq(ALine)],
         wire' \in [Clients -> Seq(ALine)], inq' \in [Clients -> Nat], left' \in [Clients -> Nat],
         \A d \in Clients \ {c} : /\ client'[d] = client[d] /\ got'[d] = got[d] /\ wire'[d] = wire[d]
                                  /\ inq'[d] = inq[d] /\ left'[d] = left[d],
         req[c] # None, client'[c] # "idle", left'[c] + inq'[c] <= 2,
         Len(wire'[c]) <= SockMax, client[c] = "gone" => client'[c] = "gone",
         client'[c] # "gone" => got'[c] \o wire'[c] = got[c] \o wire[c],
         client'[c] = "ok" => /\ closed[c] /\ wire'[c] = <<>>
                              /\ \E m \in 1..Len(got'[c]) : got'[c][m].tag = "ok",
         Fresh(u0, g0, c) => got'[c] = <<>> /\ wire'[c] = <<>>
  PROVE  /\ Core(u0', g0', phase', backlog, left') /\ more' \in Nat /\ results' \in Seq(AResult)
         /\ phase' \in {"top", "poll", "dispatch", "down", "off"}
         /\ Fresh(u0, g0, c) => Fresh(u0', g0', c)
  <1> DEFINE u == u0
             g == g0
             v == u0'
             h == g0'
             k == left'
  <1>1. /\ Core(u, g, phase, backlog, left) /\ more \in Nat /\ results \in Seq(AResult)
        /\ phase \in {"top", "poll", "dispatch", "down", "off"}
    BY CInvIs
  <1>2. Good(u, g) /\ u \in AClients /\ g \in AServer
    BY CInvBase
  <1>3. /\ h.conn = g.conn /\ h.n = g.n /\ h.ops = g.ops /\ h.closed = g.closed /\ h.verdict = g.verdict
        /\ h.head = g.head /\ h.tail = g.tail /\ v.req = u.req
        /\ v.client = client' /\ v.got = got' /\ h.wire = wire' /\ h.inq = inq'
        /\ u.client = client /\ u.got = got /\ g.wire = wire /\ g.inq = inq /\ u.req = req /\ g.closed = closed
    BY DEF u0, g0
  <1>4. v \in AClients
    BY <1>2 DEF AClients, u0, ClientStates
  <1>5. h \in AServer
    BY <1>2 DEF AServer, g0
  <1> HIDE DEF u, g, v, h
  <1>6. \A d \in Clients \ {c} : v.client[d] = u.client[d] /\ v.got[d] = u.got[d] /\ h.wire[d] = g.wire[d]
    BY <1>3
  <1>7. /\ Len(h.wire[c]) <= SockMax /\ (Away(u, c) => Away(v, c))
        /\ ~Away(v, c) => Sent(v, h, c) = Sent(u, g, c)
        /\ v.client[c] = "ok" => /\ g.closed[c] /\ h.wire[c] = <<>>
                                 /\ \E m \in 1..Len(v.got[c]) : v.got[c][m].tag = "ok"
        /\ Fresh(u, g, c) => v.got[c] = <<>> /\ h.wire[c] = <<>>
    <2>1. Fresh(u, g, c) => v.got[c] = <<>> /\ h.wire[c] = <<>>
      BY <1>3 DEF u, g
    <2> QED  BY <1>3, <2>1 DEF Away, Sent
  <1>8. Follows(u, g, v, h)
    <2>1. Differs(u, g, v, h, c)
      BY <1>3, <1>4, <1>5, <1>6, <1>7 DEF Differs
    <2> QED  BY <1>2, <2>1, ClientStep
  <1>9. /\ \A d \in Clients \ {c} : v.client[d] = u.client[d] /\ h.inq[d] = g.inq[d] /\ k[d] = left[d]
        /\ v.req = u.req /\ v.client[c] # "idle" /\ u.req[c] # None /\ k[c] + h.inq[c] <= 2
    BY <1>3
  <1>10. k[c] \in 0..2
    <2>1. left'[c] \in Nat /\ inq'[c] \in Nat /\ left'[c] + inq'[c] <= 2
      OBVIOUS
    <2> QED  BY <2>1
  <1> HIDE DEF k
  <1>11. Core(v, h, phase, backlog, k)
    <2>1. Writes(u, g, v, h, c, left, k)
      BY <1>9, <1>10 DEF Writes
    <2> QED  BY <1>1, <1>8, <2>1, ClientCore
  <1>12. Fresh(u, g, c) => Fresh(v, h, c)
    BY <1>8 DEF Follows
  <1> QED  BY <1>1, <1>11, <1>12 DEF u, g, v, h, k

LEMMA ConnectKeeps == ASSUME CInv, NEW c \in Clients, ctl_connect(c) PROVE CInv'
  <1>0. /\ client[c] = "idle" /\ req[c] # None
        /\ UNCHANGED <<more, phase, results, req, got, conn, n_ctl, ops, inq, wire, closed, verdict, head, tail>>
        /\ \/ client' = [client EXCEPT ![c] = "fail"] /\ UNCHANGED <<left, backlog>>
           \/ /\ client' = [client EXCEPT ![c] = "sending"] /\ left' = [left EXCEPT ![c] = 2]
              /\ backlog' = Append(backlog, c)
    BY DEF ctl_connect, serverVars
  <1>1. /\ client \in [Clients -> ClientStates] /\ got \in [Clients -> Seq(ALine)]
        /\ wire \in [Clients -> Seq(ALine)] /\ inq \in [Clients -> Nat] /\ left \in [Clients -> Nat]
        /\ Fresh(u0, g0, c) /\ inq[c] = 0 /\ left[c] \in 0..2 /\ Len(wire[c]) <= SockMax
    BY <1>0, ClientTypes
  <1>2. client'[c] \in {"fail", "sending"} /\ left'[c] \in 0..2
        /\ \A d \in Clients \ {c} : client'[d] = client[d] /\ left'[d] = left[d]
    BY <1>0, <1>1
  <1>3. client' \in [Clients -> ClientStates] /\ left' \in [Clients -> Nat] /\ left'[c] + inq'[c] <= 2
    <2>1. client' \in [Clients -> ClientStates]
      BY <1>0, <1>1 DEF ClientStates
    <2>2. left' \in [Clients -> Nat]
      BY <1>0, <1>1
    <2>3. left'[c] + inq'[c] <= 2
      BY <1>0, <1>1, <1>2
    <2> QED  BY <2>1, <2>2, <2>3
  <1>4. got[c] = <<>> /\ wire[c] = <<>>
    BY <1>1 DEF Fresh, u0, g0
  <1>5. /\ Core(u0', g0', phase', backlog, left') /\ more' \in Nat /\ results' \in Seq(AResult)
        /\ phase' \in {"top", "poll", "dispatch", "down", "off"} /\ Fresh(u0', g0', c)
    BY <1>0, <1>1, <1>2, <1>3, <1>4, ClientDoes
  <1>6. CASE backlog' = backlog
    BY <1>3, <1>5, <1>6, CInvIsNext
  <1>7. CASE backlog' = Append(backlog, c)
    <2> DEFINE b == backlog
               a == Append(b, c)
               v == u0'
               h == g0'
               n == Len(b)
    <2>1. Waiting(u0, g0, b) /\ Waiting(v, h, b)
      BY <1>5, CInvBase DEF Core
    <2>2. v.client[c] # "idle" /\ Fresh(v, h, c) /\ u0.client[c] = "idle"
      BY <1>0, <1>2, <1>5 DEF u0
    <2> HIDE DEF b, v, h
    <2>3. b \in Seq(Clients)
      BY <2>1 DEF Waiting
    <2>4. /\ a \in Seq(Clients) /\ n \in Nat /\ Len(a) = n + 1 /\ a[n + 1] = c
          /\ \A i \in 1..n : a[i] = b[i]
      BY <2>3, AppendIs
    <2> HIDE DEF a, n
    <2>5. /\ \A i \in 1..n : Fresh(v, h, b[i]) /\ v.client[b[i]] # "idle" /\ b[i] # c
          /\ \A i, j \in 1..n : i # j => b[i] # b[j]
      BY <2>1, <2>2 DEF Waiting, n
    <2>6. \A i \in 1..n + 1 : i = n + 1 \/ i \in 1..n
      BY <2>4
    <2>7. Waiting(v, h, a)
      <3>1. \A i \in 1..n + 1 : Fresh(v, h, a[i]) /\ v.client[a[i]] # "idle"
        BY <2>2, <2>4, <2>5, <2>6
      <3>2. \A i, j \in 1..n + 1 : i # j => a[i] # a[j]
        BY <2>4, <2>5, <2>6
      <3> QED  BY <2>4, <3>1, <3>2 DEF Waiting
    <2>8. Core(u0', g0', phase', backlog', left')
      BY <1>5, <1>7, <2>7 DEF Core, v, h, a, b
    <2> QED  BY <1>3, <1>5, <2>8, CInvIsNext
  <1> QED  BY <1>0, <1>6, <1>7

LEMMA SendKeeps == ASSUME CInv, NEW c \in Clients, NEW m \in 1..2, send(c, m) PROVE CInv'
  <1>0. /\ client[c] = "sending" /\ m \in 1..left[c]
        /\ inq' = [inq EXCEPT ![c] = @ + m] /\ left' = [left EXCEPT ![c] = @ - m]
        /\ client' = [client EXCEPT ![c] = IF m = left[c] THEN "reading" ELSE "sending"]
        /\ UNCHANGED <<more, phase, results, backlog, req, got, conn, n_ctl, ops, wire, closed, verdict, head, tail>>
    BY DEF send
  <1>1. /\ client \in [Clients -> ClientStates] /\ got \in [Clients -> Seq(ALine)]
        /\ wire \in [Clients -> Seq(ALine)] /\ inq \in [Clients -> Nat] /\ left \in [Clients -> Nat]
        /\ left[c] \in 0..2 /\ left[c] + inq[c] <= 2 /\ Len(wire[c]) <= SockMax /\ req[c] # None
    BY <1>0, ClientTypes
  <1>2. /\ client'[c] \in {"reading", "sending"} /\ left'[c] = left[c] - m /\ inq'[c] = inq[c] + m
        /\ left' \in [Clients -> Nat] /\ inq' \in [Clients -> Nat]
        /\ \A d \in Clients \ {c} : client'[d] = client[d] /\ left'[d] = left[d] /\ inq'[d] = inq[d]
    <2>1. inq[c] + m \in Nat /\ left[c] - m \in Nat
      BY <1>0, <1>1
    <2> QED  BY <1>0, <1>1, <2>1
  <1>3. client' \in [Clients -> ClientStates]
    BY <1>0, <1>1 DEF ClientStates
  <1>4. left'[c] + inq'[c] <= 2
    <2>1. left[c] \in Nat /\ inq[c] \in Nat /\ m \in Nat
      BY <1>1
    <2> QED  BY <1>1, <1>2, <2>1
  <1>5. Fresh(u0, g0, c) => got[c] = <<>> /\ wire[c] = <<>>
    BY DEF Fresh, u0, g0
  <1>6. /\ Core(u0', g0', phase', backlog, left') /\ more' \in Nat /\ results' \in Seq(AResult)
        /\ phase' \in {"top", "poll", "dispatch", "down", "off"}
    BY <1>0, <1>1, <1>2, <1>3, <1>4, <1>5, ClientDoes
  <1> QED  BY <1>0, <1>2, <1>6, CInvIsNext

LEMMA SendFailsKeeps == ASSUME CInv, NEW c \in Clients, send_fails(c) PROVE CInv'
  <1>0. /\ client[c] = "sending" /\ client' = [client EXCEPT ![c] = "fail"]
        /\ UNCHANGED <<more, phase, results, backlog, req, left, got, conn, n_ctl, ops, inq, wire, closed,
                       verdict, head, tail>>
    BY DEF send_fails, serverVars
  <1>1. /\ client \in [Clients -> ClientStates] /\ got \in [Clients -> Seq(ALine)]
        /\ wire \in [Clients -> Seq(ALine)] /\ inq \in [Clients -> Nat] /\ left \in [Clients -> Nat]
        /\ left[c] + inq[c] <= 2 /\ Len(wire[c]) <= SockMax /\ req[c] # None
    BY <1>0, ClientTypes
  <1>2. client' \in [Clients -> ClientStates] /\ client'[c] = "fail" /\ \A d \in Clients \ {c} : client'[d] = client[d]
    BY <1>0, <1>1 DEF ClientStates
  <1>3. Fresh(u0, g0, c) => got[c] = <<>> /\ wire[c] = <<>>
    BY DEF Fresh, u0, g0
  <1>4. /\ Core(u0', g0', phase', backlog, left') /\ more' \in Nat /\ results' \in Seq(AResult)
        /\ phase' \in {"top", "poll", "dispatch", "down", "off"}
    BY <1>0, <1>1, <1>2, <1>3, ClientDoes
  <1> QED  BY <1>0, <1>1, <1>4, CInvIsNext

LEMMA HeadTail ==
  ASSUME NEW S, NEW r \in Seq(S), NEW w \in Seq(S), w # <<>>
  PROVE  /\ Append(r, Head(w)) \in Seq(S) /\ Tail(w) \in Seq(S)
         /\ Append(r, Head(w)) \o Tail(w) = r \o w
         /\ Len(Tail(w)) <= Len(w)
  <1>1. Head(w) \in S /\ Tail(w) \in Seq(S) /\ Len(w) \in Nat /\ Len(w) >= 1 /\ Len(Tail(w)) = Len(w) - 1
    OBVIOUS
  <1>2. \A i \in 1..Len(w) - 1 : Tail(w)[i] = w[i + 1]
    OBVIOUS
  <1>3. Head(w) = w[1]
    OBVIOUS
  <1> DEFINE a == Append(r, Head(w))
             t == Tail(w)
             n == Len(r)
             m == Len(w)
  <1>4. /\ a \in Seq(S) /\ n \in Nat /\ Len(a) = n + 1 /\ a[n + 1] = w[1] /\ \A i \in 1..n : a[i] = r[i]
    BY <1>1, <1>3, AppendIs
  <1>5. /\ t \in Seq(S) /\ m \in Nat /\ m >= 1 /\ Len(t) = m - 1 /\ \A i \in 1..m - 1 : t[i] = w[i + 1]
    BY <1>1, <1>2
  <1> DEFINE x == a \o t
             y == r \o w
  <1> HIDE DEF a, t
  <1>6. /\ x \in Seq(S) /\ Len(x) = n + 1 + (m - 1)
        /\ \A i \in 1..n + 1 : x[i] = a[i]
        /\ \A i \in 1..m - 1 : x[n + 1 + i] = t[i]
    <2>1. /\ x \in Seq(S) /\ Len(x) = Len(a) + Len(t)
          /\ \A i \in 1..Len(a) : x[i] = a[i]
          /\ \A i \in 1..Len(t) : x[Len(a) + i] = t[i]
      <3>1. a \in Seq(S) /\ t \in Seq(S)
        BY <1>4, <1>5
      <3> QED  BY <3>1, ConcatIs
    <2> HIDE DEF x
    <2> QED  BY <1>4, <1>5, <2>1
  <1>7. /\ y \in Seq(S) /\ Len(y) = n + m
        /\ \A i \in 1..n : y[i] = r[i]
        /\ \A i \in 1..m : y[n + i] = w[i]
    BY ConcatIs
  <1> HIDE DEF x, y, n, m
  <1>8. Len(x) = Len(y)
    BY <1>4, <1>5, <1>6, <1>7
  <1>9. ASSUME NEW i \in 1..Len(x) PROVE x[i] = y[i]
    <2>0. i \in Nat /\ i >= 1 /\ i <= n + m
      BY <1>4, <1>5, <1>6
    <2>1. CASE i <= n
      <3>1. i \in 1..n /\ i \in 1..n + 1
        BY <1>4, <2>0, <2>1
      <3> QED  BY <1>4, <1>6, <1>7, <3>1
    <2>2. CASE i = n + 1
      <3>1. i \in 1..n + 1 /\ 1 \in 1..m
        BY <1>4, <1>5, <2>2
      <3> QED  BY <1>4, <1>6, <1>7, <2>2, <3>1
    <2>3. CASE i > n + 1
      <3> DEFINE j == i - (n + 1)
      <3>1. j \in 1..m - 1 /\ j + 1 \in 1..m /\ n + 1 + j = i /\ n + (j + 1) = i
        BY <1>4, <1>5, <2>0, <2>3
      <3> HIDE DEF j
      <3>2. x[n + 1 + j] = t[j] /\ t[j] = w[j + 1] /\ y[n + (j + 1)] = w[j + 1]
        BY <1>5, <1>6, <1>7, <3>1
      <3> QED  BY <3>1, <3>2
    <2> QED  BY <1>4, <2>0, <2>1, <2>2, <2>3
  <1>10. x = y
    BY <1>6, <1>7, <1>8, <1>9, SeqSame
  <1>11. Len(t) <= m
    BY <1>5
  <1> QED  BY <1>4, <1>5, <1>10, <1>11 DEF x, y, a, t, n, m

LEMMA RecvKeeps == ASSUME CInv, NEW c \in Clients, recv(c) PROVE CInv'
  <1>0. /\ client[c] = "reading" /\ wire[c] # <<>>
        /\ got' = [got EXCEPT ![c] = Append(got[c], Head(wire[c]))] /\ wire' = [wire EXCEPT ![c] = Tail(wire[c])]
        /\ UNCHANGED <<more, phase, results, backlog, client, req, left, conn, n_ctl, ops, inq, closed,
                       verdict, head, tail>>
    BY DEF recv
  <1>1. /\ client \in [Clients -> ClientStates] /\ got \in [Clients -> Seq(ALine)]
        /\ wire \in [Clients -> Seq(ALine)] /\ inq \in [Clients -> Nat] /\ left \in [Clients -> Nat]
        /\ left[c] + inq[c] <= 2 /\ Len(wire[c]) <= SockMax /\ req[c] # None /\ ~Fresh(u0, g0, c)
    BY <1>0, ClientTypes
  <1> DEFINE y == Append(got[c], Head(wire[c]))
             w == Tail(wire[c])
  <1>2. y \in Seq(ALine) /\ w \in Seq(ALine) /\ y \o w = got[c] \o wire[c] /\ Len(w) <= SockMax
    <2>1. got[c] \in Seq(ALine) /\ wire[c] \in Seq(ALine)
      BY <1>1
    <2>2. y \in Seq(ALine) /\ w \in Seq(ALine) /\ y \o w = got[c] \o wire[c] /\ Len(w) <= Len(wire[c])
      BY <1>0, <2>1, HeadTail
    <2>3. Len(w) \in Nat /\ Len(wire[c]) \in Nat /\ SockMax \in Nat
      BY <2>1, <2>2, Consts
    <2>4. Len(wire[c]) <= SockMax
      BY <1>1
    <2> HIDE DEF y, w
    <2>5. Len(w) <= SockMax
      BY <2>2, <2>3, <2>4
    <2> QED  BY <2>2, <2>5
  <1>3. got' = [got EXCEPT ![c] = y] /\ wire' = [wire EXCEPT ![c] = w]
    BY <1>0
  <1> HIDE DEF y, w
  <1>4. /\ got' \in [Clients -> Seq(ALine)] /\ wire' \in [Clients -> Seq(ALine)] /\ got'[c] = y /\ wire'[c] = w
        /\ \A d \in Clients \ {c} : got'[d] = got[d] /\ wire'[d] = wire[d]
    BY <1>1, <1>2, <1>3
  <1>5. /\ Core(u0', g0', phase', backlog, left') /\ more' \in Nat /\ results' \in Seq(AResult)
        /\ phase' \in {"top", "poll", "dispatch", "down", "off"}
    BY <1>0, <1>1, <1>2, <1>4, ClientDoes
  <1> QED  BY <1>0, <1>1, <1>5, CInvIsNext

LEMMA RecvEndKeeps == ASSUME CInv, NEW c \in Clients, recv_end(c) PROVE CInv'
  <1>0. /\ client[c] = "reading" /\ wire[c] = <<>> /\ closed[c] /\ client' = [client EXCEPT ![c] = ExitStatus(c)]
        /\ UNCHANGED <<more, phase, results, backlog, req, left, got, conn, n_ctl, ops, inq, wire, closed,
                       verdict, head, tail>>
    BY DEF recv_end, serverVars
  <1>1. /\ client \in [Clients -> ClientStates] /\ got \in [Clients -> Seq(ALine)]
        /\ wire \in [Clients -> Seq(ALine)] /\ inq \in [Clients -> Nat] /\ left \in [Clients -> Nat]
        /\ left[c] + inq[c] <= 2 /\ Len(wire[c]) <= SockMax /\ req[c] # None /\ ~Fresh(u0, g0, c)
    BY <1>0, ClientTypes
  <1>2. /\ ExitStatus(c) \in {"ok", "fail"}
        /\ ExitStatus(c) = "ok" => \E m \in 1..Len(got[c]) : got[c][m].tag = "ok"
    <2>1. DOMAIN got[c] = 1..Len(got[c])
      BY <1>1
    <2> QED  BY <2>1 DEF ExitStatus
  <1>3. client' \in [Clients -> ClientStates] /\ client'[c] = ExitStatus(c) /\ \A d \in Clients \ {c} : client'[d] = client[d]
    BY <1>0, <1>1, <1>2 DEF ClientStates
  <1>4. /\ Core(u0', g0', phase', backlog, left') /\ more' \in Nat /\ results' \in Seq(AResult)
        /\ phase' \in {"top", "poll", "dispatch", "down", "off"}
    BY <1>0, <1>1, <1>2, <1>3, ClientDoes
  <1> QED  BY <1>0, <1>1, <1>4, CInvIsNext

LEMMA QuitKeeps == ASSUME CInv, NEW c \in Clients, quit(c) PROVE CInv'
  <1>0. /\ client[c] \in {"sending", "reading"} /\ client' = [client EXCEPT ![c] = "gone"]
        /\ wire' = [wire EXCEPT ![c] = <<>>]
        /\ UNCHANGED <<more, phase, results, backlog, req, left, got, conn, n_ctl, ops, inq, closed,
                       verdict, head, tail>>
    BY DEF quit
  <1>1. /\ client \in [Clients -> ClientStates] /\ got \in [Clients -> Seq(ALine)]
        /\ wire \in [Clients -> Seq(ALine)] /\ inq \in [Clients -> Nat] /\ left \in [Clients -> Nat]
        /\ left[c] + inq[c] <= 2 /\ req[c] # None
    BY <1>0, ClientTypes
  <1>2. client' \in [Clients -> ClientStates] /\ client'[c] = "gone" /\ \A d \in Clients \ {c} : client'[d] = client[d]
    BY <1>0, <1>1 DEF ClientStates
  <1>3. wire' \in [Clients -> Seq(ALine)] /\ wire'[c] = <<>> /\ \A d \in Clients \ {c} : wire'[d] = wire[d]
    <2>1. <<>> \in Seq(ALine)
      OBVIOUS
    <2> QED  BY <1>0, <1>1, <2>1
  <1>4. Len(wire'[c]) <= SockMax
    BY <1>3, Consts
  <1>5. Fresh(u0, g0, c) => got[c] = <<>> /\ wire'[c] = <<>>
    BY <1>3 DEF Fresh, u0
  <1>6. /\ Core(u0', g0', phase', backlog, left') /\ more' \in Nat /\ results' \in Seq(AResult)
        /\ phase' \in {"top", "poll", "dispatch", "down", "off"}
    BY <1>0, <1>1, <1>2, <1>3, <1>4, <1>5, ClientDoes
  <1> QED  BY <1>0, <1>1, <1>6, CInvIsNext

-----------------------------------------------------------------------------
(* The theorems *)

LEMMA InitGood == ASSUME Init PROVE CInv
  <1> DEFINE u == u0
             g == g0
  <1>1. PICK a \in Asks : req = a.req /\ more = a.lines
    BY DEF Init
  <1>2. req \in [Clients -> Requests \union {None}] /\ more \in Nat
    BY <1>1, ControlAssumption DEF ControlConstants
  <1>3. FirstLine \in Int /\ 0 <= FirstLine /\ FirstLine <= RingLines /\ CTL_MAX \in Nat /\ SockMax \in Nat
    BY ControlAssumption DEF ControlConstants
  <1>4. <<>> \in Seq(ALine) /\ Len(<<>>) = 0 /\ <<>> \in Seq(AResult)
    OBVIOUS
  <1>5. u \in AClients
    BY <1>2, <1>4 DEF Init, u0, AClients
  <1>6. Slot(0, None) \in ASlot
    BY <1>4 DEF Slot, ASlot
  <1>7. g \in AServer
    BY <1>3, <1>4, <1>6 DEF Init, g0, AServer
  <1>8. /\ g.n = 0 /\ g.head = FirstLine + 1 /\ g.tail = 1 /\ (\A i \in Ops : g.ops[i] = None)
        /\ \A c \in Clients : /\ u.client[c] = "idle" /\ u.got[c] = <<>> /\ g.wire[c] = <<>> /\ ~g.closed[c]
                              /\ g.verdict[c] = None /\ g.inq[c] = 0
    BY DEF Init, u0, g0
  <1>9. phase = "top" /\ results = <<>> /\ backlog = <<>> /\ left = [c \in Clients |-> 0]
    BY DEF Init
  <1> HIDE DEF u, g
  <1>10. Used(g) = {} /\ (\A c : ~OpenIn(g, c)) /\ g.tail <= g.head /\ g.head - g.tail <= RingLines
    BY <1>3, <1>8 DEF Used, OpenIn
  <1>11. ASSUME NEW c \in Clients PROVE ClientOK(u, g, c) /\ Fresh(u, g, c)
    <2>1. Sent(u, g, c) = <<>>
      BY <1>4, <1>8, ConcatEmpty DEF Sent
    <2>2. InOrder(<<>>) /\ NoEnd(<<>>)
      BY NoneInOrder
    <2>3. \A r \in Seq(ALine) : IsPrefixOf(<<>>, r)
      <3> TAKE r \in Seq(ALine)
      <3>1. Len(<<>>) <= Len(r) /\ \A i \in 1..Len(<<>>) : <<>>[i] = r[i]
        OBVIOUS
      <3> QED  BY <1>4, <3>1, PrefixAt
    <2>4. StatusReply \in Seq(ALine) /\ ShortIs(u.req[c], None) = <<>>
      BY StatusIs DEF ShortIs, None
    <2>5. Partial(u.req[c], g.verdict[c], Sent(u, g, c))
      BY <1>4, <1>8, <2>1, <2>2, <2>3, <2>4 DEF Partial
    <2>6. Fresh(u, g, c)
      <3>1. \A i \in Ops : g.ops[i] # c
        BY <1>8, Consts
      <3> QED  BY <1>8, <1>10, <3>1 DEF Fresh
    <2> QED  BY <1>3, <1>4, <1>8, <2>5, <2>6 DEF ClientOK, None
  <1>12. Good(u, g)
    BY <1>5, <1>7, <1>10, <1>11 DEF Good, Distinct
  <1>13. OpsOK(u, g)
    BY <1>8 DEF OpsOK
  <1>14. Halves(u, g, left)
    BY <1>8, <1>9, <1>11 DEF Halves
  <1>15. Core(u, g, phase, backlog, left)
    BY <1>9, <1>10, <1>12, <1>13, <1>14, NoneWaits DEF Core
  <1>16. left \in [Clients -> Nat]
    BY <1>9
  <1> QED  BY <1>2, <1>4, <1>9, <1>15, <1>16, CInvIs DEF u, g

LEMMA NextKeeps == ASSUME CInv, [Next]_vars PROVE CInv'
  <1>1. CASE UNCHANGED vars
    <2>1. /\ UNCHANGED clientVars /\ UNCHANGED serverVars
          /\ phase' = phase /\ results' = results /\ backlog' = backlog /\ more' = more
      BY <1>1 DEF vars
    <2>2. u0' = u0 /\ left' = left /\ g0' = g0
      BY <2>1, ClientsStay, ServerStays
    <2> QED  BY <2>1, <2>2, CInvIs, CInvIsNext
  <1>2. ASSUME NEW i \in Ops, NEW r \in {"ok", "err"}, ctl_tick(i, r) PROVE CInv'
    BY <1>2, TickKeeps
  <1>3. CASE pump_all
    BY <1>3, PumpKeeps
  <1>4. CASE poll
    BY <1>4, PollKeeps
  <1>5. CASE dispatch
    BY <1>5, ListenKeeps, ConnKeeps, RoundKeeps DEF dispatch
  <1>6. CASE ring_put
    BY <1>6, RingKeeps
  <1>7. CASE shutdown_begins
    BY <1>7, ShutdownKeeps
  <1>8. CASE close_all
    BY <1>8, CloseKeeps
  <1>9. ASSUME NEW c \in Clients, proceed(c) PROVE CInv'
    BY <1>9, SendKeeps, SendFailsKeeps, RecvKeeps, RecvEndKeeps DEF proceed
  <1>10. ASSUME NEW c \in Clients, quit(c) PROVE CInv'
    BY <1>10, QuitKeeps
  <1>11. ASSUME NEW c \in Clients, ctl_connect(c) PROVE CInv'
    BY <1>11, ConnectKeeps
  <1> QED  BY <1>1, <1>2, <1>3, <1>4, <1>5, <1>6, <1>7, <1>8, <1>9, <1>10, <1>11 DEF Next

\* What a client of any program and request can be sent, in any order of steps: the
\* inductive invariant of the control socket.
THEOREM ControlInvariant == Spec => []CInv
  <1>1. Init => CInv
    BY InitGood
  <1>2. CInv /\ [Next]_vars => CInv'
    BY NextKeeps
  <1> QED  BY <1>1, <1>2, PTL DEF Spec

LEMMA CInvTypes == ASSUME CInv PROVE TypeOK
  <1> DEFINE g == g0
  <1>0. /\ Good(u0, g) /\ g \in AServer /\ phase \in {"top", "poll", "dispatch", "down", "off"}
    BY CInvBase, CInvIs
  <1>1. /\ g.conn = conn /\ g.n = n_ctl /\ g.closed = closed /\ Used(g) = 0..n_ctl - 1
    BY DEF g0, Used
  <1> HIDE DEF g
  <1>2. n_ctl \in 0..CTL_MAX /\ n_ctl \in Nat /\ CTL_MAX \in Nat /\ CTL_OUT \in Nat /\ SockMax \in Nat
    BY <1>0, <1>1, ServerFields, Consts
  <1>3. ASSUME NEW k \in 0..n_ctl - 1
        PROVE  /\ conn[k].who \in Clients /\ ~closed[conn[k].who]
               /\ conn[k].fd \in 1..CTL_MAX
               /\ Len(conn[k].out) <= CTL_OUT /\ conn[k].out_at \in 0..CTL_OUT
               /\ \A j \in 0..k - 1 : conn[j].fd # conn[k].fd /\ conn[j].who # conn[k].who
    <2> DEFINE s == conn[k]
    <2>1. k \in Used(g) /\ s = g.conn[k] /\ s \in ASlot
      BY <1>0, <1>1, UsedIs
    <2>2. s.who \in Clients /\ ~closed[s.who] /\ s.fd \in 1..CTL_MAX /\ Shape(s)
      BY <1>0, <1>1, <2>1 DEF Good, ConnOK, SlotOK
    <2>3. s.out_at \in Nat /\ Len(s.out) \in Nat
      BY <2>1, SlotFields
    <2> HIDE DEF s
    <2>4. Len(s.out) <= CTL_OUT /\ s.out_at \in 0..CTL_OUT
      BY <1>2, <2>2, <2>3 DEF Shape
    <2>5. ASSUME NEW j \in 0..k - 1 PROVE conn[j].fd # conn[k].fd /\ conn[j].who # conn[k].who
      <3>1. j \in 0..n_ctl - 1 /\ j # k
        BY <1>2
      <3> QED  BY <1>0, <1>1, <2>1, <3>1 DEF Good, Distinct
    <2> QED  BY <2>2, <2>4, <2>5 DEF s
  <1>4. ASSUME NEW c \in Clients PROVE Len(wire[c]) <= SockMax + 1 /\ inq[c] \in 0..2
    <2>1. /\ wire[c] \in Seq(ALine) /\ inq[c] \in Nat /\ left[c] \in 0..2 /\ left[c] + inq[c] <= 2
          /\ Len(wire[c]) <= SockMax
      BY ClientTypes
    <2>2. Len(wire[c]) \in Nat
      BY <2>1
    <2>3. inq[c] \in 0..2
      BY <2>1
    <2> QED  BY <1>2, <2>1, <2>2, <2>3
  <1> QED  BY <1>0, <1>2, <1>3, <1>4 DEF TypeOK

LEMMA ShortSame == \A c : ShortReply(c) = ShortIs(u0.req[c], g0.verdict[c])
  BY DEF ShortReply, ShortIs, u0, g0

\* What the client c has and is going to have.
LEMMA ReplyPartial ==
  ASSUME CInv, NEW c \in Clients, client[c] # "gone"
  PROVE  Partial(req[c], verdict[c], Reply(c))
  <1> DEFINE u == u0
             g == g0
  <1>1. Good(u, g) /\ u \in AClients /\ g \in AServer /\ ~Away(u, c)
    BY CInvBase DEF Away, u0
  <1>2. /\ g.conn = conn /\ Open(c) = {k \in Used(g) : g.conn[k].who = c} /\ u.req[c] = req[c]
        /\ g.verdict[c] = verdict[c] /\ Sent(u, g, c) = got[c] \o wire[c]
    BY DEF g0, u0, Used, Open, Sent
  <1>3. Sent(u, g, c) \in Seq(ALine) /\ g.verdict[c] \in {None, "ok", "err"}
    BY <1>1, SentIs
  <1>4. CASE Open(c) = {}
    <2>1. Reply(c) = Sent(u, g, c) \o <<>>
      BY <1>2, <1>4 DEF Reply
    <2>2. Reply(c) = Sent(u, g, c)
      BY <1>3, <2>1, ConcatEmpty
    <2>3. ~OpenIn(g, c)
      BY <1>2, <1>4 DEF OpenIn
    <2>4. ClientOK(u, g, c)
      BY <1>1 DEF Good
    <2> QED  BY <1>1, <1>2, <2>2, <2>3, <2>4 DEF ClientOK
  <1>5. CASE Open(c) # {}
    <2> DEFINE k == CHOOSE k \in Open(c) : TRUE
               s == g.conn[k]
    <2>1. k \in Open(c)
      BY <1>5
    <2>2. Reply(c) = Sent(u, g, c) \o Rest(s)
      BY <1>2, <1>5 DEF Reply, Rest
    <2> HIDE DEF k
    <2>3. k \in Used(g) /\ s.who = c
      BY <1>2, <2>1
    <2>4. s \in ASlot /\ Progress(u.req[c], s, g.verdict[c], Given(u, g, s)) /\ Shape(s)
      BY <1>1, <2>3, UsedIs DEF Good, ConnOK, SlotOK
    <2>5. Given(u, g, s) = Reply(c)
      BY <2>2, <2>3 DEF Given
    <2> HIDE DEF s
    <2>6. Rest(s) \in Seq(ALine)
      BY <2>4, RestIs
    <2>7. Reply(c) \in Seq(ALine)
      BY <1>3, <2>2, <2>6, ConcatIs
    <2>8. Progress(u.req[c], s, g.verdict[c], Reply(c))
      BY <2>4, <2>5
    <2> QED  BY <1>2, <1>3, <2>4, <2>7, <2>8, ProgressPartial
  <1> QED  BY <1>4, <1>5

LEMMA CInvReplies == ASSUME CInv PROVE OwnReply
  <1> SUFFICES ASSUME NEW c \in Clients, client[c] \in {"sending", "reading", "ok"}
               PROVE  IF verdict[c] = None /\ req[c] = "status" THEN IsPrefixOf(Reply(c), StatusReply)
                      ELSE IF verdict[c] = None /\ req[c] \in {"log", "watch"} THEN InOrder(Reply(c))
                      ELSE IsPrefixOf(Reply(c), ShortReply(c))
    BY DEF OwnReply
  <1>1. Partial(req[c], verdict[c], Reply(c))
    BY ReplyPartial
  <1>2. ShortReply(c) = ShortIs(req[c], verdict[c])
    BY ShortSame DEF u0, g0
  <1> QED  BY <1>1, <1>2 DEF Partial

\* A beginning of r that has the last line of r is r.
LEMMA PrefixAll ==
  ASSUME NEW r \in Seq(ALine), NEW t \in Seq(ALine), IsPrefixOf(t, r),
         NEW m \in 1..Len(t), t[m].tag = "ok", \A i \in 1..Len(r) : r[i].tag = "ok" => i = Len(r)
  PROVE  t = r
  <1>1. Len(t) <= Len(r) /\ \A i \in 1..Len(t) : t[i] = r[i]
    BY PrefixAt
  <1>2. Len(t) \in Nat /\ Len(r) \in Nat
    OBVIOUS
  <1>3. m \in 1..Len(r) /\ r[m].tag = "ok"
    BY <1>1, <1>2
  <1>4. m = Len(r)
    BY <1>3
  <1>5. Len(t) = Len(r)
    BY <1>1, <1>2, <1>4
  <1> QED  BY <1>1, <1>5, SeqSame

LEMMA ShortEnds ==
  ASSUME NEW q, NEW v \in {None, "ok", "err"}
  PROVE  /\ ShortIs(q, v) \in Seq(ALine)
         /\ \A i \in 1..Len(ShortIs(q, v)) : ShortIs(q, v)[i].tag = "ok" => i = Len(ShortIs(q, v)) /\ v = "ok"
  <1> DEFINE x == Line("ok", 0)
             y == Line("err", 0)
             z == Line("data", 0)
  <1>1. x \in ALine /\ y \in ALine /\ z \in ALine /\ x.tag = "ok" /\ y.tag = "err" /\ z.tag = "data"
    BY LineIs
  <1> DEFINE l == ShortIs(q, v)
  <1>2. CASE v = None
    <2>1. l = <<>>
      BY <1>2 DEF ShortIs, None
    <2> HIDE DEF l
    <2>2. Len(l) = 0 /\ \A i \in 1..0 : FALSE
      BY <2>1
    <2> QED  BY <2>2, ShortTyped DEF l
  <1>3. CASE v = "ok" /\ q = "short"
    <2>1. l = <<z, x>>
      BY <1>3 DEF ShortIs, None
    <2> HIDE DEF x, z, l
    <2>2. Len(l) = 2 /\ l[1] = z /\ \A i \in 1..2 : i = 1 \/ i = 2
      BY <2>1
    <2> QED  BY <1>1, <1>3, <2>2, ShortTyped DEF l
  <1>4. CASE v = "ok" /\ q # "short"
    <2>1. l = <<x>>
      BY <1>4 DEF ShortIs, None
    <2> HIDE DEF x, l
    <2>2. Len(l) = 1 /\ \A i \in 1..1 : i = 1
      BY <2>1
    <2> QED  BY <1>4, <2>2, ShortTyped DEF l
  <1>5. CASE v = "err"
    <2>1. l = <<y>>
      BY <1>5 DEF ShortIs, None
    <2> HIDE DEF y, l
    <2>2. Len(l) = 1 /\ l[1] = y /\ \A i \in 1..1 : i = 1
      BY <2>1
    <2> QED  BY <1>1, <2>2, ShortTyped DEF l
  <1> QED  BY <1>2, <1>3, <1>4, <1>5

LEMMA CInvSuccess == ASSUME CInv PROVE SuccessIsComplete
  <1> SUFFICES ASSUME NEW c \in Clients, client[c] = "ok"
               PROVE  /\ req[c] \notin {"status", "log"} => verdict[c] = "ok" /\ got[c] = ShortReply(c)
                      /\ req[c] = "status" => got[c] = StatusReply
                      /\ req[c] = "log" => got[c] # <<>> /\ got[c][Len(got[c])] = Line("ok", 0) /\ InOrder(got[c])
    BY DEF SuccessIsComplete
  <1> DEFINE r == got[c]
             q == req[c]
             v == verdict[c]
  <1>1. /\ ClientOK(u0, g0, c) /\ u0 \in AClients /\ g0 \in AServer /\ \A k \in Used(g0) : ConnOK(u0, g0, k)
    BY CInvBase DEF Good
  <1>2. /\ u0.client[c] = "ok" /\ u0.req[c] = q /\ g0.verdict[c] = v /\ u0.got[c] = r /\ g0.wire[c] = wire[c]
    BY DEF u0, g0
  <1>3. /\ g0.closed[c] /\ g0.wire[c] = <<>> /\ (v = "ok" => q \in Ops \union {"short"})
        /\ \E m \in 1..Len(r) : r[m].tag = "ok"
    BY <1>1, <1>2 DEF ClientOK
  <1>4. ~OpenIn(g0, c) /\ ~Away(u0, c)
    BY <1>1, <1>2, <1>3 DEF OpenIn, ConnOK, Away
  <1>5. r \in Seq(ALine) /\ v \in {None, "ok", "err"}
    BY <1>1, <1>2, SentIs
  <1>6. Partial(q, v, r)
    <2>1. Sent(u0, g0, c) = r
      BY <1>2, <1>3, <1>5, ConcatEmpty DEF Sent
    <2> QED  BY <1>1, <1>2, <1>4, <2>1 DEF ClientOK
  <1>7. ShortReply(c) = ShortIs(q, v)
    BY <1>2, ShortSame
  <1>8. PICK m \in 1..Len(r) : r[m].tag = "ok"
    BY <1>3
  <1> HIDE DEF r, q, v
  <1>9. CASE v = None /\ q = "status"
    <2>1. IsPrefixOf(r, StatusReply)
      BY <1>6, <1>9 DEF Partial
    <2>2. StatusReply \in Seq(ALine) /\ \A i \in 1..Len(StatusReply) : StatusReply[i].tag = "ok" => i = Len(StatusReply)
      <3>1. /\ StatusReply \in Seq(ALine) /\ Len(StatusReply) = n_svc + 1 /\ n_svc \in Nat
            /\ \A i \in 1..n_svc : StatusReply[i] = Line("data", i - 1)
        BY StatusIs, Consts
      <3>2. ASSUME NEW i \in 1..n_svc PROVE StatusReply[i].tag = "data"
        BY <3>1, LineIs
      <3>3. \A i \in 1..n_svc + 1 : i = n_svc + 1 \/ i \in 1..n_svc
        BY <3>1
      <3> QED  BY <3>1, <3>2, <3>3
    <2>3. r = StatusReply
      BY <1>5, <1>8, <2>1, <2>2, PrefixAll
    <2> QED  BY <1>9, <2>3 DEF r, q
  <1>10. CASE v = None /\ q = "log"
    <2>1. InOrder(r)
      BY <1>6, <1>10 DEF Partial
    <2>2. m = Len(r)
      BY <1>5, <1>8, <2>1, OrderAt
    <2>3. r[m] \in ALine
      BY <1>5, <1>8
    <2>4. r[m] = Line("ok", 0)
      BY <1>8, <2>3, LineIs
    <2>5. r # <<>>
      BY <1>5, <1>8
    <2> QED  BY <1>10, <2>1, <2>2, <2>4, <2>5 DEF r, q
  <1>11. CASE v = None /\ q = "watch"
    <2>1. NoEnd(r)
      BY <1>6, <1>11 DEF Partial
    <2> QED  BY <1>8, <2>1 DEF NoEnd
  <1>12. CASE ~(v = None /\ q \in {"status", "log", "watch"})
    <2>1. IsPrefixOf(r, ShortIs(q, v))
      BY <1>6, <1>12 DEF Partial
    <2>2. /\ ShortIs(q, v) \in Seq(ALine)
          /\ \A i \in 1..Len(ShortIs(q, v)) : ShortIs(q, v)[i].tag = "ok" => i = Len(ShortIs(q, v)) /\ v = "ok"
      BY <1>5, ShortEnds
    <2> DEFINE l == ShortIs(q, v)
    <2> HIDE DEF l
    <2>3. r = l
      BY <1>5, <1>8, <2>1, <2>2, PrefixAll DEF l
    <2>4. v = "ok"
      BY <1>8, <2>2, <2>3 DEF l
    <2>5. q \notin {"status", "log"}
      BY <1>3, <2>4, Consts
    <2> QED  BY <1>7, <2>3, <2>4, <2>5 DEF r, q, v, l
  <1> QED  BY <1>9, <1>10, <1>11, <1>12

\* A step that moves the ring's tail past a watcher.
LEMMA NextKeepsUp ==
  ASSUME CInv, [Next]_vars
  PROVE  \A k \in 0..n_ctl - 1 :
           phase # "down" /\ conn[k].watch /\ tail' > tail /\ conn[k].log_at < tail' =>
             conn[k].full \/ Gone(conn[k].who)
  <1> SUFFICES ASSUME NEW k \in 0..n_ctl - 1, phase # "down", conn[k].watch, tail' > tail,
                      conn[k].log_at < tail', ~conn[k].full, ~Gone(conn[k].who)
               PROVE  FALSE
    OBVIOUS
  <1>0. /\ k \in Used(g0) /\ g0.conn[k] = conn[k] /\ ~Away(u0, conn[k].who) /\ tail \in Int /\ conn[k].log_at \in Int
    <2>1. k \in Used(g0) /\ g0.conn[k] = conn[k] /\ g0.tail = tail
      BY DEF Used, g0
    <2>2. g0 \in AServer
      BY CInvBase
    <2>3. g0.tail \in Int /\ g0.conn[k] \in ASlot
      BY <2>1, <2>2, ServerFields, UsedIs
    <2> QED  BY <2>1, <2>3, GoneIs, SlotFields
  <1>1. tail' = tail => FALSE
    BY <1>0
  <1>2. CASE UNCHANGED vars
    BY <1>1, <1>2 DEF vars, serverVars
  <1>3. ASSUME NEW i \in Ops, NEW r \in {"ok", "err"}, ctl_tick(i, r) PROVE FALSE
    BY <1>1, <1>3, TickKeeps
  <1>4. CASE pump_all
    BY <1>1, <1>4, PumpKeeps
  <1>5. CASE dispatch_listen
    BY <1>1, <1>5, ListenKeeps
  <1>6. ASSUME NEW r \in {"ok", "err", "later"}, dispatch_conn(r) PROVE FALSE
    BY <1>1, <1>6, ConnKeeps
  <1>7. CASE poll \/ end_round \/ shutdown_begins \/ close_all
    BY <1>1, <1>7 DEF poll, end_round, shutdown_begins, close_all, serverVars
  <1>8. CASE ring_put
    <2>1. tail' <= conn[k].log_at
      BY <1>0, <1>8, RingKeeps
    <2>2. tail' \in Int
      <3>1. CInv'
        BY <1>8, RingKeeps
      <3>2. g0' \in AServer
        BY <3>1 DEF CInv, Good
      <3> QED  BY <3>2 DEF AServer, g0
    <2> QED  BY <1>0, <2>1, <2>2
  <1>9. ASSUME NEW c \in Clients, proceed(c) \/ quit(c) \/ ctl_connect(c) PROVE FALSE
    <2>1. tail' = tail
      BY <1>9 DEF proceed, send, send_fails, recv, recv_end, quit, ctl_connect, serverVars
    <2> QED  BY <1>1, <2>1
  <1> QED  BY <1>2, <1>3, <1>4, <1>5, <1>6, <1>7, <1>8, <1>9 DEF Next, dispatch

\* The table of connections is sound: the slots below n_ctl are of clients whose
\* connection is open, no two of one client or one descriptor, and no buffer overflows,
\* whatever ctl_drop() moved.
THEOREM ControlTypes == Spec => []TypeOK
  <1>1. CInv => TypeOK
    BY CInvTypes
  <1> QED  BY <1>1, ControlInvariant, PTL

\* ctl_pump(), ctl_read() and ctl_accept() between them send each client the beginning of
\* the reply to its own request, each line once, however slots are moved and taken over.
THEOREM RepliesAreOwn == Spec => []OwnReply
  <1>1. CInv => OwnReply
    BY CInvReplies
  <1> QED  BY <1>1, ControlInvariant, PTL

\* cmd_ctl() returns success only when it has read the whole of a reply that ends in one.
THEOREM SuccessAfterReply == Spec => []SuccessIsComplete
  <1>1. CInv => SuccessIsComplete
    BY CInvSuccess
  <1> QED  BY <1>1, ControlInvariant, PTL

\* ctl_feed() writes to a watcher before ring_put() overwrites what it has not seen: only
\* one whose socket was full misses a line.
THEOREM WatchersKeepUp == Spec => WatcherKeepsUp
  <1>1. CInv /\ [Next]_vars =>
          [\A k \in 0..n_ctl - 1 :
             phase # "down" /\ conn[k].watch /\ tail' > tail /\ conn[k].log_at < tail' =>
               conn[k].full \/ Gone(conn[k].who)]_vars
    BY NextKeepsUp
  <1> QED  BY <1>1, ControlInvariant, PTL DEF Spec, WatcherKeepsUp
=============================================================================
