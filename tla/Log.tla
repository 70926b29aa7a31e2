--------------------------------- MODULE Log ---------------------------------
(***************************************************************************)
(* logging.c: a line that is logged goes to the ring that ninitctl log     *)
(* reads and to the console (Console.tla).  A line, or a block of lines,   *)
(* that repeats is held back and told of by its number.                    *)
(*                                                                         *)
(* A line stands for its key and its text.  The ring is kept whole, with   *)
(* tail as its oldest line that is not overwritten, and one line takes one *)
(* place.  Deadlines may pass at any moment, in the order log_tick() looks *)
(* at them.  told is what one who reads all of the ring makes of it.       *)
(***************************************************************************)
EXTENDS Console, Sequences

CONSTANTS
  Lines,        \* what is logged
  NoCon,        \* the lines kept off the console, LOG_NOCON
  Garbled,      \* what is read where the ring has been overwritten
  LOG_REPEAT,   \* the longest block that is looked for
  RingLines,    \* how many lines the ring holds
  Earlier,      \* sequences of lines, none repeating, that the log may begin with
  MaxLines      \* bound: how many lines are logged after that

LogConstants ==
  /\ NoCon \subseteq Lines /\ Garbled \notin Lines
  /\ LOG_REPEAT \in Nat \ {0} /\ RingLines \in Nat \ {0} /\ MaxLines \in Nat
  /\ Earlier \subseteq Seq(Lines)

ASSUME LogAssumption == LogConstants

VARIABLES
  hash,      \* body_hash() of each line; lines may collide
  more,      \* how many lines may still be logged
  input,     \* history: what was logged
  told,      \* history: what the ring tells of it
  ring,      \* every line the ring was given
  tail,      \* the place of the oldest line that it still holds
  seen,      \* the lines logged by log_emit(), the newest last
  rep_len,   \* the last rep_len lines repeat
  rep_pos,   \* lines held back of the current repetition
  rep_count  \* repetitions not told of

filter == <<ring, tail, seen, rep_len, rep_pos, rep_count, told>>
vars == <<hash, more, input, filter, conVars>>

Init ==
  /\ ConInit
  /\ hash \in [Lines -> {0, 1}]
  /\ input \in Earlier /\ told = input /\ ring = input
  /\ tail = IF Len(input) > RingLines THEN Len(input) - RingLines + 1 ELSE 1
  /\ seen = [k \in DOMAIN input |-> [at |-> k, line |-> input[k]]]
  /\ more = MaxLines
  /\ rep_len = 0 /\ rep_pos = 0 /\ rep_count = 0

-----------------------------------------------------------------------------
(* The ring and the lines seen.  A function that logs several lines is an  *)
(* operator on the state g of the filter.                                  *)

Now == [ring |-> ring, tail |-> tail, seen |-> seen, told |-> told, todo |-> 0,
        len |-> rep_len, pos |-> rep_pos, count |-> rep_count]

Becomes(g) ==
  /\ ring' = g.ring /\ tail' = g.tail /\ seen' = g.seen /\ told' = g.told
  /\ rep_len' = g.len /\ rep_pos' = g.pos /\ rep_count' = g.count
  /\ Offer(g.todo)

ring_put(g, text) ==
  LET n == Len(g.ring) + 1
  IN  [g EXCEPT !.ring = Append(@, text),
                !.tail = IF n - @ >= RingLines THEN n - RingLines + 1 ELSE @]

\* The ring has the line, and unless it is kept off it the console is to have it.
log_out(g, text, nocon) ==
  LET r == ring_put(g, text) IN [r EXCEPT !.todo = @ + (IF nocon THEN 0 ELSE 1)]

\* The back-th line from the newest one.
seen_back(g, back) == g.seen[Len(g.seen) + 1 - back]

SameSum(l, m) == hash[l] = hash[m] /\ (l \in NoCon <=> m \in NoCon)

\* Mutant of seen_is(): the text in the ring is not compared.
seen_is_sum(g, e, l) == SameSum(e.line, l) /\ e.at >= g.tail

seen_is(g, e, l) == SameSum(e.line, l) /\ e.at >= g.tail /\ g.ring[e.at] = l

\* line: what the key and the hash are of; text: what is written.
log_emit(g, line, text) ==
  LET e == [at |-> Len(g.ring) + 1, line |-> line]
      r == log_out(g, text, line \in NoCon)
  IN  [r EXCEPT !.seen = Append(@, e), !.told = Append(@, text)]

\* A held line is logged after all; its text is read from the ring.
log_again(g, back) ==
  LET e == seen_back(g, back)
  IN  log_emit(g, e.line, IF e.at >= g.tail THEN g.ring[e.at] ELSE Garbled)

\* The first n lines of the block; each log_again() moves the block on by one.
Again(g, n) ==
  LET A[k \in 0..n] == IF k = 0 THEN g ELSE log_again(A[k - 1], g.len) IN A[n]

\* rep_key(): a notice is on the console if any line of the block was.
rep_nocon(g) == \A k \in 1..g.len : seen_back(g, k).line \in NoCon

\* The lines as the ring was given them, without the notices.
Shown(g) == [k \in DOMAIN g.seen |-> g.ring[g.seen[k].at]]

\* What a reader makes of "last n messages repeated c times": the last n lines shown, again.
Repeated(s, n, c) == [k \in 1..n * c |-> s[Len(s) - n + 1 + ((k - 1) % n)]]

\* One repetition is logged as it was, more are told of by their number.
rep_flush(g) ==
  CASE g.count = 0 -> g
    [] g.count = 1 -> Again([g EXCEPT !.count = 0], g.len)
    [] OTHER -> [log_out(g, Garbled, rep_nocon(g))
                   EXCEPT !.count = 0, !.told = @ \o Repeated(Shown(g), g.len, g.count)]

rep_break(g) == [Again(rep_flush(g), g.pos) EXCEPT !.len = 0, !.pos = 0]

seen_twice(g, len) ==
  \A k \in 1..len : SameSum(seen_back(g, k).line, seen_back(g, k + len).line)

\* A line repeats once logged again, a longer block once logged twice in a row.
rep_find(g, l) ==
  LET Is(len) == seen_is(g, seen_back(g, len), l)
      Blocks == {len \in 2..LOG_REPEAT : 2 * len <= Len(g.seen) /\ Is(len) /\ seen_twice(g, len)}
  IN  IF g.seen # <<>> /\ Is(1) THEN 1
      ELSE IF Blocks # {} THEN CHOOSE len \in Blocks : \A m \in Blocks : len <= m
      ELSE 0

-----------------------------------------------------------------------------
(* ninit_log() and log_tick(). *)

\* What ninit_log() has of the filter when it decides about l: a repetition that l does
\* not go on with is broken off, and one that begins with l is found.
Follow(l) ==
  LET broken == rep_len > 0 /\ ~seen_is(Now, seen_back(Now, rep_len - rep_pos), l)
      g == IF broken THEN rep_break(Now) ELSE Now
  IN  IF g.len = 0 THEN [g EXCEPT !.len = rep_find(g, l)] ELSE g

Logged(l) ==
  /\ todo = 0 /\ more > 0
  /\ more' = more - 1
  /\ input' = Append(input, l)
  /\ UNCHANGED hash

log_new(l) ==
  /\ Logged(l)
  /\ Follow(l).len = 0
  /\ Becomes(log_emit(Follow(l), l, l))

log_held(l) ==
  LET g == Follow(l) IN
  /\ Logged(l)
  /\ g.pos + 1 < g.len
  /\ Becomes([g EXCEPT !.pos = @ + 1])

log_repeats(l) ==
  LET g == Follow(l) IN
  /\ Logged(l)
  /\ g.pos + 1 = g.len
  /\ Becomes([g EXCEPT !.pos = 0, !.count = @ + 1])

\* Mutant of log_tick(): only repetitions that are counted are looked at.
tick_hold_counted ==
  /\ todo = 0 /\ rep_pos > 0 /\ rep_count > 0
  /\ Becomes(rep_break(Now))
  /\ UNCHANGED <<hash, more, input>>

\* log_tick(): LOG_HOLD_MS has passed since the first line was held.
tick_hold ==
  /\ todo = 0 /\ rep_pos > 0
  /\ Becomes(rep_break(Now))
  /\ UNCHANGED <<hash, more, input>>

\* log_tick(): it is time to tell of the repetitions.
tick_report ==
  /\ todo = 0 /\ rep_count > 0
  /\ Becomes(rep_flush(Now))
  /\ UNCHANGED <<hash, more, input>>

ninit_log == \E l \in Lines : log_new(l) \/ log_held(l) \/ log_repeats(l)
log_tick == tick_hold \/ tick_report

Next == ninit_log \/ log_tick \/ (ConNext /\ UNCHANGED <<hash, more, input, filter>>)

Spec == Init /\ [][Next]_vars

\* log_due() bounds the wait of poll(), so log_tick() comes round; write() returns.
FairSpec ==
  /\ Spec
  /\ WF_vars(tick_hold) /\ WF_vars(tick_report)
  /\ WF_vars(\E n \in log_push : (report(n) \/ write_rest(n) \/ write_line(n))
                                 /\ UNCHANGED <<hash, more, input, filter>>)

-----------------------------------------------------------------------------
(* Properties. *)

\* The lines of the repeating block, as they were logged.
Block == [k \in 1..rep_len |-> seen[Len(seen) - rep_len + k].line]

Held == [k \in 1..rep_len * rep_count + rep_pos |-> Block[1 + ((k - 1) % rep_len)]]

TypeOK ==
  /\ ConTypeOK
  /\ rep_len \in 0..LOG_REPEAT /\ rep_pos \in 0..rep_len
  /\ rep_len > 0 => rep_pos < rep_len
  /\ tail \in 1..Len(ring) + 1 /\ Len(ring) - tail < RingLines

\* However lines are held back, flushed, broken off and logged again: the ring, with what
\* is still held, tells of every line once and in order, and of no other line, even when
\* hashes collide.  A line whose text was overwritten while it was held may be garbled.
NothingLost ==
  LET all == told \o Held
  IN  /\ Len(all) = Len(input)
      /\ \A k \in 1..Len(all) : all[k] \in {input[k], Garbled}

\* Nothing is held back for good.
AllTold == <>[](Len(told) = Len(input))
=============================================================================
