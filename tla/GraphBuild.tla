----------------------------- MODULE GraphBuild -----------------------------
(***************************************************************************)
(* What ninitctl init makes of the service files: link_graph(),            *)
(* order_graph() and write_image(), and what ng_verify() accepts.          *)
(*                                                                         *)
(* S maps each service to what its file says.  A service is a number: the  *)
(* order of the numbers is the order of the names, in which read_sources() *)
(* numbers them.  Offsets, checksums and the layout of the sections are    *)
(* left out.  Algorithms are kept as they are: an explicit depth-first     *)
(* search, a binary heap, a closure computed from the last service back.   *)
(***************************************************************************)
EXTENDS ServiceFile, FiniteSets

Least(T) == CHOOSE x \in T : \A y \in T : x <= y
Greatest(T) == CHOOSE x \in T : \A y \in T : x >= y

\* The k-th of the numbers in T.
Nth(T, k) == CHOOSE x \in T : Cardinality({y \in T : y < x}) = k - 1

-----------------------------------------------------------------------------
(* link_graph() *)

\* depon: and depof: name services that exist, and not the service itself.
NamesNoService(S) == \E i \in DOMAIN S : ~(S[i].depon \union S[i].depof \subseteq DOMAIN S)
NamesItself(S) == \E i \in DOMAIN S : i \in S[i].depon \union S[i].depof

\* Each edge once: from a service to one that depends on it.
Edges(S) ==
  UNION {{<<o, i>> : o \in S[i].depon} \union {<<i, o>> : o \in S[i].depof} : i \in DOMAIN S}

Children(E, v) == {e[2] : e \in {x \in E : x[1] = v}}
indeg(E, v) == Cardinality({e \in E : e[2] = v})

\* One turn of the loop of visit(): iter holds the children not yet followed.
visit_step(E, d) ==
  LET top == Len(d.path)
      v == d.path[top]
      w == Least(d.iter[top])
      went == [d EXCEPT !.iter[top] = @ \ {w}]
      kids == Children(E, v)
  IN  IF d.iter[top] = {}
      THEN [d EXCEPT !.height[v] = IF kids = {} THEN 0 ELSE Greatest({d.height[c] : c \in kids}) + 1,
                     !.color[v] = 2,
                     !.path = SubSeq(@, 1, top - 1), !.iter = SubSeq(@, 1, top - 1)]
      ELSE CASE d.color[w] = 1 -> [went EXCEPT !.cycle = TRUE]
             [] d.color[w] = 2 -> went
             [] OTHER -> [went EXCEPT !.color[w] = 1, !.path = Append(@, w),
                                      !.iter = Append(@, Children(E, w))]

\* Every edge is followed once and every service is entered and left once.
visit(E, d, root) ==
  LET n == 2 * Cardinality(DOMAIN d.color) + Cardinality(E)
      from == [d EXCEPT !.color[root] = 1, !.path = <<root>>, !.iter = <<Children(E, root)>>]
      V[k \in 0..n] ==
        IF k = 0 THEN from
        ELSE LET p == V[k - 1] IN IF p.cycle \/ p.path = <<>> THEN p ELSE visit_step(E, p)
  IN  IF d.cycle \/ d.color[root] # 0 THEN d ELSE V[n]

\* The search from every service, in order: heights, or a cycle.
visit_all(S) ==
  LET D == DOMAIN S
      d0 == [color |-> [i \in D |-> 0], height |-> [i \in D |-> 0],
             path |-> <<>>, iter |-> <<>>, cycle |-> FALSE]
      A[k \in 0..Cardinality(D)] ==
        IF k = 0 THEN d0 ELSE visit(Edges(S), A[k - 1], Nth(D, k))
  IN  A[Cardinality(D)]

-----------------------------------------------------------------------------
(* order_graph().  The heap q is counted from 1; b says which of two goes  *)
(* first: b[x][y].                                                         *)

\* Roots first, then what the longest chain hangs on, then the order of the names.
ready_before(E, h, x, y) ==
  LET rx == indeg(E, x) = 0 ry == indeg(E, y) = 0
  IN  IF rx # ry THEN rx ELSE IF h[x] # h[y] THEN h[x] > h[y] ELSE x < y

Swap(q, i, j) == [q EXCEPT ![i] = q[j], ![j] = q[i]]

ready_push(q, b, x) ==
  LET n == Len(q) + 1
      Up[k \in 0..n] ==
        IF k = 0 THEN [q |-> Append(q, x), i |-> n]
        ELSE LET s == Up[k - 1] p == s.i \div 2
             IN  IF s.i = 1 \/ ~b[s.q[s.i]][s.q[p]] THEN s
                 ELSE [q |-> Swap(s.q, s.i, p), i |-> p]
  IN  Up[n].q

\* What is left of the heap when its top is taken.
ready_pop(q, b) ==
  LET n == Len(q) - 1
      Down[k \in 0..n] ==
        IF k = 0 THEN [q |-> [i \in 1..n |-> IF i = 1 THEN q[n + 1] ELSE q[i]], i |-> 1]
        ELSE LET s == Down[k - 1]
                 l == 2 * s.i
                 r == l + 1
                 m == IF l <= n /\ b[s.q[l]][s.q[s.i]] THEN l ELSE s.i
                 best == IF r <= n /\ b[s.q[r]][s.q[m]] THEN r ELSE m
             IN  IF best = s.i THEN s ELSE [q |-> Swap(s.q, s.i, best), i |-> best]
  IN  Down[n].q

\* The services in ks, in order, have one prerequisite less; those with none left are ready.
release(b, s, ks) ==
  LET R[k \in 0..Cardinality(ks)] ==
        IF k = 0 THEN s
        ELSE LET p == R[k - 1] c == Nth(ks, k)
             IN  [p EXCEPT !.left[c] = @ - 1,
                           !.q = IF p.left[c] = 1 THEN ready_push(@, b, c) ELSE @]
  IN  R[Cardinality(ks)]

schedule(S, h) ==
  LET D == DOMAIN S
      n == Cardinality(D)
      E == Edges(S)
      b == [x \in D |-> [y \in D |-> ready_before(E, h, x, y)]]
      Roots[k \in 0..n] ==
        IF k = 0 THEN <<>>
        ELSE IF indeg(E, Nth(D, k)) = 0 THEN ready_push(Roots[k - 1], b, Nth(D, k)) ELSE Roots[k - 1]
      Next_[k \in 0..n] ==
        IF k = 0 THEN [q |-> Roots[n], left |-> [i \in D |-> indeg(E, i)], order |-> <<>>]
        ELSE LET s == Next_[k - 1] best == s.q[1]
             IN  IF s.q = <<>> THEN s
                 ELSE release(b, [s EXCEPT !.q = ready_pop(s.q, b), !.order = Append(@, best)],
                              Children(E, best))
  IN  Next_[n].order

-----------------------------------------------------------------------------
(* write_image().  The services are numbered by their place in order.      *)

\* Mutant of the closure: only the direct dependents are counted.
descendants_direct(rdep) == rdep

\* What depends on each service, directly or not, from the last service back.
descendants(rdep) ==
  LET n == Len(rdep)
      Desc[k \in 0..n] ==
        IF k = 0 THEN [i \in 1..n |-> {}]
        ELSE LET d == Desc[k - 1] i == n + 1 - k
             IN  [d EXCEPT ![i] = rdep[i] \union UNION {d[j] : j \in rdep[i]}]
  IN  Desc[n]

\* The policy that is written for a service with nd dependents; "none": it is refused.
policy(s, nd) ==
  IF s.onfail = "warn" /\ nd > 0 THEN "none"
  ELSE IF s.onfail # "none" THEN s.onfail
  ELSE IF nd > 0 THEN "stop" ELSE "warn"

\* The service at place k: its file's settings, and what the graph says of it.
ImageSvc(s, name, unmet, rdep, nd) ==
  [name |-> name, unmet |-> unmet, rdep |-> rdep, n_desc |-> nd, onfail |-> policy(s, nd),
   type |-> s.type, restart |-> s.restart, notify_fd |-> s.notify, script |-> s.script,
   start_ms |-> s.start_ms, stop_ms |-> s.stop_ms, retry_ms |-> s.retry_ms,
   start_tries |-> s.start_tries, order |-> s.order, exec |-> s.exec,
   interp |-> s.lang # "shell"]

write_image(S, order) ==
  LET n == Len(order)
      E == Edges(S)
      inv == [i \in DOMAIN S |-> CHOOSE k \in 1..n : order[k] = i]
      rdep == [k \in 1..n |-> {inv[c] : c \in Children(E, order[k])}]
      desc == descendants(rdep)
  IN  [n_roots |-> Cardinality({i \in DOMAIN S : indeg(E, i) = 0}),
       svc |-> [k \in 1..n |-> ImageSvc(S[order[k]], order[k], indeg(E, order[k]),
                                        rdep[k], Cardinality(desc[k]))]]

\* onfail:warn on a service that others depend on.
PolicyRefused(img) == \E k \in 1..Len(img.svc) : img.svc[k].onfail = "none"

-----------------------------------------------------------------------------
(* ng_verify() *)

verify_header(img) ==
  LET n == Len(img.svc)
      m == Cardinality(UNION {{<<k, c>> : c \in img.svc[k].rdep} : k \in 1..n})
  IN  img.n_roots <= n /\ 2 * m <= n * (n - 1)

verify_edges(img) ==
  LET n == Len(img.svc) IN
  \A k \in 1..n : \A c \in img.svc[k].rdep :
    /\ c \in 1..n /\ c > k
    /\ img.svc[c].n_desc + 1 <= img.svc[k].n_desc

verify_service(img, k) ==
  LET s == img.svc[k] n == Len(img.svc) IN
  /\ s.unmet < n
  /\ s.n_desc <= n - k
  /\ s.n_desc >= Cardinality(s.rdep)
  /\ s.notify_fd # 0 => s.notify_fd \in NG_NOTIFY_MIN..NG_NOTIFY_MAX /\ s.type = "daemon"
  /\ s.onfail = "warn" => s.rdep = {}
  /\ s.restart => s.type = "daemon"
  /\ k <= img.n_roots <=> s.unmet = 0
  /\ IF s.type = "target" THEN s.script = -1 ELSE s.script \in 0..NG_MAX_SCRIPT

\* exec_problem() and direct_problem().
exec_problem(exec) ==
  Len(exec) > NG_MAX_EXEC_ARGS \/ exec[1] > NG_MAX_INTERP \/ ~ArgsFit(exec)

verify_policy(s) ==
  /\ s.start_ms <= NG_MAX_MS /\ s.stop_ms <= NG_MAX_MS
  /\ s.start_tries <= NG_MAX_TRIES
  /\ s.exec # <<>> => s.type # "target" /\ ~exec_problem(s.exec)
  /\ s.interp => s.exec # <<>>

verify_counts(img) ==
  LET n == Len(img.svc) IN
  /\ \A k \in 1..n : img.svc[k].unmet = Cardinality({j \in 1..n : k \in img.svc[j].rdep})
  /\ \A j, k \in 1..n : img.svc[j].name = img.svc[k].name => j = k

ng_verify(img) ==
  /\ verify_header(img) /\ verify_edges(img)
  /\ \A k \in 1..Len(img.svc) : verify_service(img, k) /\ verify_policy(img.svc[k])
  /\ verify_counts(img)

-----------------------------------------------------------------------------
(* What the result should be, said without the algorithms. *)

\* The services that depend on i, directly or not: reached along paths of every length.
Dependents(S, i) ==
  LET E == Edges(S)
      P[k \in 0..Cardinality(DOMAIN S)] ==
        IF k = 0 THEN Children(E, i)
        ELSE P[k - 1] \union UNION {Children(E, j) : j \in P[k - 1]}
  IN  P[Cardinality(DOMAIN S)]

Acceptable(S) ==
  /\ ~NamesNoService(S)
  /\ \A i \in DOMAIN S : i \notin Dependents(S, i)
  /\ \A i \in DOMAIN S : S[i].onfail = "warn" => Dependents(S, i) = {}

\* What the supervisor assumes of a graph it is given.
G(img) == INSTANCE DepGraph WITH
  N <- Len(img.svc),
  Type <- [k \in 1..Len(img.svc) |-> img.svc[k].type],
  Rdep <- [k \in 1..Len(img.svc) |-> img.svc[k].rdep],
  Restart <- {k \in 1..Len(img.svc) : img.svc[k].restart},
  Notify <- {k \in 1..Len(img.svc) : img.svc[k].notify_fd # 0},
  OrderOnly <- {k \in 1..Len(img.svc) : img.svc[k].order},
  Tries <- [k \in 1..Len(img.svc) |->
              IF img.svc[k].start_tries = 0 THEN 1 ELSE img.svc[k].start_tries]

\* The longest chain of services that hangs on i, by its definition.
ChainLength(S, i) ==
  LET E == Edges(S)
      H[k \in 0..Cardinality(DOMAIN S)] ==
        IF k = 0 THEN {i} ELSE UNION {Children(E, j) : j \in H[k - 1]}
  IN  Greatest({k \in 0..Cardinality(DOMAIN S) : H[k] # {}})

\* At each place stands, of the services whose prerequisites all stand before it, the one
\* to be started first.
StartedFirst(S, names) ==
  LET E == Edges(S)
      h == [i \in DOMAIN S |-> ChainLength(S, i)]
  IN  \A k \in 1..Len(names) :
        LET before == {names[j] : j \in 1..k - 1}
            ready == {i \in DOMAIN S \ before : \A e \in E : e[2] = i => e[1] \in before}
        IN  names[k] \in ready /\ \A i \in ready \ {names[k]} : ready_before(E, h, names[k], i)

\* The image of S: all its services and edges, in the right order, and ng_verify() and
\* the supervisor take it.
RightImage(S, img) ==
  LET names == [k \in 1..Len(img.svc) |-> img.svc[k].name]
      n == Len(names)
  IN  /\ {names[k] : k \in 1..n} = DOMAIN S /\ n = Cardinality(DOMAIN S)
      /\ UNION {{<<names[k], names[c]>> : c \in img.svc[k].rdep} : k \in 1..n} = Edges(S)
      /\ \A k \in 1..n : img.svc[k].n_desc = Cardinality(Dependents(S, names[k]))
      /\ StartedFirst(S, names)
      /\ ng_verify(img) /\ G(img)!ng_verify
=============================================================================
