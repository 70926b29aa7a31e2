------------------------------ MODULE LogProofs ------------------------------
(***************************************************************************)
(* logging.c, for any number of lines, any hashes, and any order of writes *)
(* that succeed, fall short or fail: the console counts what it loses, and *)
(* the ring, with what is held back, tells of every line once.             *)
(*                                                                         *)
(* The functions of the filter are operators on its state g.  Good(g) says *)
(* that the entries of the lines seen still point at their text, Exact(g)  *)
(* that what was logged is what g has told of, then rep_count times the    *)
(* block, then its first rep_pos lines; each function keeps both.          *)
(***************************************************************************)
EXTENDS Log, WellFoundedInduction, TLAPS

-----------------------------------------------------------------------------
(* The console *)

\* A report that is cut off is the only thing that still tells of lines: what it tells of
\* is remembered as long as it is pending, and no longer.
ReportPending == inreport > 0 => pend = "report"

\* ConTypeOK but for polled.
Counts ==
  /\ todo \in Nat /\ log_dropped \in Nat /\ lost \in Nat /\ inreport \in Nat
  /\ stage \in {"report", "line"} /\ pend \in {"none", "line", "report"}

ConInv == Counts /\ polled \in BOOLEAN /\ ReportPending /\ LossIsCounted

ConAll == ConNext \/ \E k \in Nat : Offer(k)

LEMMA ConInitInv == ConInit => ConInv
  <1> SUFFICES ASSUME ConInit PROVE ConInv
    OBVIOUS
  <1>1. polled \in BOOLEAN
    BY Zenon DEF ConInit
  <1>2. Counts /\ ReportPending /\ LossIsCounted
    BY DEF ConInit, Counts, ReportPending, LossIsCounted
  <1> QED  BY <1>1, <1>2 DEF ConInv

\* log_report_dropped() takes the number off only when the report is written, or is kept to
\* be written.
LEMMA ReportKeeps ==
  ASSUME ConInv, NEW n \in log_push, report(n) PROVE ConInv'
  <1>1. polled' \in BOOLEAN
    BY Zenon DEF ConInv, report
  <1>2. Counts' /\ ReportPending' /\ LossIsCounted'
    BY DEF ConInv, Counts, ReportPending, LossIsCounted, report, log_push
  <1> QED  BY <1>1, <1>2 DEF ConInv

\* log_write() with the rest of an earlier line: whatever the rest told of and is given up,
\* the new line is counted.
LEMMA RestKeeps ==
  ASSUME ConInv, NEW n \in log_push, write_rest(n) PROVE ConInv'
  <1>1. polled' \in BOOLEAN
    BY Zenon DEF ConInv, write_rest
  <1>2. Counts' /\ ReportPending' /\ LossIsCounted'
    BY DEF ConInv, Counts, ReportPending, LossIsCounted, write_rest, DropLine, log_push
  <1> QED  BY <1>1, <1>2 DEF ConInv

\* log_write() with the line itself.
LEMMA LineKeeps ==
  ASSUME ConInv, NEW n \in log_push, write_line(n) PROVE ConInv'
  <1>1. polled' \in BOOLEAN
    BY Zenon DEF ConInv, write_line
  <1>2. Counts' /\ ReportPending' /\ LossIsCounted'
    BY DEF ConInv, Counts, ReportPending, LossIsCounted, write_line, DropLine, log_push
  <1> QED  BY <1>1, <1>2 DEF ConInv

\* log_flush() that gives the rest up counts it.
LEMMA FlushKeeps ==
  ASSUME ConInv, NEW n \in log_push, log_flush(n) PROVE ConInv'
  <1>1. polled' \in BOOLEAN
    BY Zenon DEF ConInv, log_flush
  <1>2. Counts' /\ ReportPending' /\ LossIsCounted'
    BY DEF ConInv, Counts, ReportPending, LossIsCounted, log_flush, GiveUp, log_push
  <1> QED  BY <1>1, <1>2 DEF ConInv

LEMMA ConStep == ConInv /\ [ConAll]_conVars => ConInv'
  <1> SUFFICES ASSUME ConInv, [ConAll]_conVars PROVE ConInv'
    OBVIOUS
  <1>1. CASE \E n \in log_push : report(n) \/ write_rest(n) \/ write_line(n) \/ log_flush(n)
    BY <1>1, ReportKeeps, RestKeeps, LineKeeps, FlushKeeps
  <1>2. CASE log_pending_fd
    <2>1. polled' \in BOOLEAN
      BY <1>2, Zenon DEF ConInv, log_pending_fd, writing
    <2>2. Counts' /\ ReportPending' /\ LossIsCounted'
      BY <1>2 DEF ConInv, Counts, ReportPending, LossIsCounted, log_pending_fd, writing
    <2> QED  BY <2>1, <2>2 DEF ConInv
  <1>3. CASE \E k \in Nat : Offer(k)
    <2>1. polled' \in BOOLEAN
      BY <1>3, Zenon DEF ConInv, Offer, writing
    <2>2. Counts' /\ ReportPending' /\ LossIsCounted'
      BY <1>3 DEF ConInv, Counts, ReportPending, LossIsCounted, Offer, writing
    <2> QED  BY <2>1, <2>2 DEF ConInv
  <1>4. CASE UNCHANGED conVars
    <2>1. polled' \in BOOLEAN
      BY <1>4, Zenon DEF ConInv, conVars, writing
    <2>2. Counts' /\ ReportPending' /\ LossIsCounted'
      BY <1>4 DEF ConInv, Counts, ReportPending, LossIsCounted, conVars, writing
    <2> QED  BY <2>1, <2>2 DEF ConInv
  <1> QED  BY <1>1, <1>2, <1>3, <1>4 DEF ConAll, ConNext

\* While a line is missing from the console that no report tells of, log_dropped is not
\* zero: the next line that log_out() writes comes with a report.
THEOREM ConsoleCounts == ConSpec => [](ConTypeOK /\ LossIsCounted)
  <1>1. ConInv => ConTypeOK /\ LossIsCounted
    BY DEF ConInv, Counts, ConTypeOK
  <1> QED  BY <1>1, ConInitInv, ConStep, PTL DEF ConSpec, ConAll

-----------------------------------------------------------------------------
(* Arithmetic *)

\* The p-th line of any repetition of a block of n lines is the p-th line of the block.
LEMMA ModIs ==
  ASSUME NEW n \in Nat \ {0}, NEW c \in Nat, NEW p \in 0..n - 1
  PROVE  (n * c + p) % n = p
  <1> DEFINE x == n * c + p
             q == x \div n
             r == x % n
             d == c - q
  <1>0. n * c \in Nat
    OBVIOUS
  <1>1. x \in Nat /\ q \in Int /\ r \in 0..n - 1 /\ x = n * q + r
    BY <1>0
  <1>2. d \in Int /\ n * d = n * c - n * q
    BY <1>1
  <1>3. n * d = r - p
    <2> HIDE DEF d, q, r
    <2>1. n * q \in Int
      BY <1>1
    <2> QED  BY <1>0, <1>1, <1>2, <2>1
  <1>4. r - p < n /\ r - p > - n
    <2> HIDE DEF r
    <2> QED BY <1>1
  <1>5. d = 0
    <2> HIDE DEF d, r
    <2>1. ~(d >= 1)
      <3> SUFFICES ASSUME d >= 1 PROVE FALSE
        OBVIOUS
      <3>1. n * d >= n
        BY <1>2
      <3> QED  BY <3>1, <1>3, <1>4, <1>1
    <2>2. ~(d <= -1)
      <3> SUFFICES ASSUME d <= -1 PROVE FALSE
        OBVIOUS
      <3>1. n * d <= - n
        BY <1>2
      <3> QED  BY <3>1, <1>3, <1>4, <1>1
    <2> QED  BY <2>1, <2>2, <1>2
  <1>6. r = p
    <2> HIDE DEF d, r
    <2>1. n * d = 0
      BY <1>5
    <2> QED  BY <2>1, <1>3, <1>1
  <1> QED  BY <1>6

\* The places of a repeated block.
LEMMA ModIn == \A n \in Nat \ {0} : \A k \in Nat : k % n \in 0..n - 1
  OBVIOUS

\* One more repetition.
LEMMA TimesNext == \A n, c \in Nat : n * c \in Nat /\ n * (c + 1) = n * c + n
  OBVIOUS

LEMMA AppendIs ==
  ASSUME NEW S, NEW s \in Seq(S), NEW x \in S
  PROVE  /\ Append(s, x) \in Seq(S) /\ Len(s) \in Nat
         /\ Len(Append(s, x)) = Len(s) + 1 /\ Append(s, x)[Len(s) + 1] = x
         /\ \A i \in 1..Len(s) : Append(s, x)[i] = s[i]
  OBVIOUS

\* The least of a set of numbers.
LEMMA LeastOf ==
  ASSUME NEW T, T \subseteq Nat, T # {}
  PROVE  \E x \in T : \A y \in T : x <= y
  <1> DEFINE Below == {ss \in Nat \X Nat : ss[1] < ss[2]}
  <1>1. Below = OpToRel(<, Nat)
    BY Zenon DEF OpToRel
  <1>2. IsWellFoundedOn(Below, Nat)
    BY <1>1, NatLessThanWellFounded, Zenon
  <1>3. \A x, y \in Nat : y < x => <<y, x>> \in Below
    OBVIOUS
  <1> HIDE DEF Below
  <1>4. PICK x \in T : \A y \in T : ~(<<y, x>> \in Below)
    BY <1>2, WFMin
  <1>5. \A y \in T : x \in Nat /\ y \in Nat /\ ~(y < x)
    BY <1>3, <1>4
  <1> QED  BY <1>5

-----------------------------------------------------------------------------
(* log_again() in a row *)

IsAgain(A, g, n) ==
  A = [k \in 0..n |-> IF k = 0 THEN g ELSE log_again(A[k - 1], g.len)]

LEMMA AgainExists ==
  ASSUME NEW g, NEW n \in Nat PROVE \E A : IsAgain(A, g, n)
  <1> DEFINE T == {m \in Nat : ~ \E A : IsAgain(A, g, m)}
  <1>1. SUFFICES ASSUME T # {} PROVE FALSE
    BY Zenon
  <1>2. PICK m \in T : \A y \in T : m <= y
    BY <1>1, LeastOf
  <1>3. m \in Nat /\ ~ \E A : IsAgain(A, g, m)
    BY <1>2
  <1>4. CASE m = 0
    <2> DEFINE A == [k \in 0..0 |-> g]
    <2>1. IsAgain(A, g, 0)
      BY DEF IsAgain
    <2> QED  BY <1>3, <1>4, <2>1
  <1>5. CASE m # 0
    <2>1. m - 1 \in Nat /\ m - 1 \notin T
      BY <1>2, <1>3, <1>5
    <2>2. PICK A : IsAgain(A, g, m - 1)
      BY <2>1, Zenon
    <2> DEFINE B == [k \in 0..m |-> IF k = m THEN log_again(A[m - 1], g.len) ELSE A[k]]
    <2>3. \A k \in 0..m - 1 : A[k] = IF k = 0 THEN g ELSE log_again(A[k - 1], g.len)
      BY <2>2, Zenon DEF IsAgain
    <2>4. \A k \in 0..m : B[k] = IF k = 0 THEN g ELSE log_again(B[k - 1], g.len)
      BY <1>3, <1>5, <2>3
    <2>5. B = [k \in 0..m |-> IF k = 0 THEN g ELSE log_again(B[k - 1], g.len)]
      BY <2>4
    <2> QED  BY <1>3, <2>5 DEF IsAgain
  <1> QED  BY <1>4, <1>5

LEMMA AgainIs ==
  ASSUME NEW g, NEW n \in Nat
  PROVE  \E A : IsAgain(A, g, n) /\ Again(g, n) = A[n]
  <1> DEFINE A == CHOOSE A : IsAgain(A, g, n)
  <1>1. IsAgain(A, g, n)
    BY AgainExists, Zenon
  <1>2. Again(g, n) = A[n]
    BY Zenon DEF Again, IsAgain
  <1> QED  BY <1>1, <1>2

-----------------------------------------------------------------------------
(* What the filter is, as the functions of logging.c hand it on *)

Texts == Lines \cup {Garbled}
Entry == [at : Nat, line : Lines]

Filter ==
  [ring : Seq(Texts), tail : Nat, seen : Seq(Entry), told : Seq(Texts), todo : Nat,
   len : 0..LOG_REPEAT, pos : Nat, count : Nat]

\* The ring has each line seen where its entry says, if it was not garbled before; the
\* block is made of lines seen.
Good(g) ==
  /\ g \in Filter
  /\ g.len <= Len(g.seen)
  /\ \A k \in 1..Len(g.seen) : /\ g.seen[k].at \in 1..Len(g.ring)
                               /\ g.ring[g.seen[k].at] \in {g.seen[k].line, Garbled}
  /\ g.tail \in 1..Len(g.ring) + 1 /\ Len(g.ring) - g.tail < RingLines

\* The j-th line of the block.
Line(g, j) == g.seen[Len(g.seen) - g.len + j].line

LEMMA Consts == /\ LOG_REPEAT \in Nat \ {0} /\ RingLines \in Nat \ {0} /\ MaxLines \in Nat
                /\ Garbled \notin Lines /\ Earlier \subseteq Seq(Lines)
  BY LogAssumption DEF LogConstants

LEMMA FieldsAre ==
  ASSUME NEW g, Good(g)
  PROVE  /\ g \in Filter /\ g.ring \in Seq(Texts) /\ Len(g.ring) \in Nat /\ g.tail \in Nat
         /\ g.seen \in Seq(Entry) /\ Len(g.seen) \in Nat
         /\ g.told \in Seq(Texts) /\ Len(g.told) \in Nat /\ g.todo \in Nat
         /\ g.len \in 0..LOG_REPEAT /\ g.len \in Nat /\ g.len <= Len(g.seen)
         /\ g.pos \in Nat /\ g.count \in Nat
         /\ \A k \in 1..Len(g.seen) :
              /\ g.seen[k].at \in 1..Len(g.ring) /\ g.seen[k].at \in Nat
              /\ g.seen[k].line \in Lines
              /\ g.ring[g.seen[k].at] \in {g.seen[k].line, Garbled}
  <1>1. /\ g \in Filter /\ g.ring \in Seq(Texts) /\ g.tail \in Nat /\ g.seen \in Seq(Entry)
        /\ g.told \in Seq(Texts) /\ g.todo \in Nat /\ g.len \in 0..LOG_REPEAT
        /\ g.pos \in Nat /\ g.count \in Nat
    BY DEF Good, Filter
  <1>2. Len(g.ring) \in Nat /\ Len(g.seen) \in Nat /\ Len(g.told) \in Nat
    BY <1>1
  <1>3. g.len \in Nat
    BY <1>1, Consts
  <1>4. ASSUME NEW k \in 1..Len(g.seen)
        PROVE  g.seen[k].at \in Nat /\ g.seen[k].line \in Lines
    <2>1. g.seen[k] \in Entry
      BY <1>1
    <2> QED  BY <2>1 DEF Entry
  <1>5. /\ g.len <= Len(g.seen)
        /\ \A k \in 1..Len(g.seen) : /\ g.seen[k].at \in 1..Len(g.ring)
                                     /\ g.ring[g.seen[k].at] \in {g.seen[k].line, Garbled}
    BY Zenon DEF Good
  <1> QED  BY <1>1, <1>2, <1>3, <1>4, <1>5

\* log_out() moves the tail on where the ring is full.
LEMMA OutIs ==
  ASSUME NEW g, Good(g), NEW text \in Texts, NEW nocon \in BOOLEAN
  PROVE  LET h == log_out(g, text, nocon)
         IN  /\ h \in Filter
             /\ h.ring = Append(g.ring, text)
             /\ h.tail \in 1..Len(h.ring) + 1 /\ Len(h.ring) - h.tail < RingLines
             /\ h.seen = g.seen /\ h.told = g.told
             /\ h.len = g.len /\ h.pos = g.pos /\ h.count = g.count
  <1> DEFINE n == Len(g.ring) + 1
             t == IF n - g.tail >= RingLines THEN n - RingLines + 1 ELSE g.tail
             d == IF nocon THEN 0 ELSE 1
             h == [g EXCEPT !.ring = Append(@, text), !.tail = t, !.todo = @ + d]
  <1>0. g \in Filter /\ g.ring \in Seq(Texts) /\ g.tail \in 1..Len(g.ring) + 1 /\ g.todo \in Nat
        /\ Len(g.ring) - g.tail < RingLines /\ Len(g.ring) \in Nat /\ d \in Nat
    BY FieldsAre DEF Good
  <1>1. log_out(g, text, nocon) = h
    BY <1>0 DEF log_out, ring_put, Filter
  <1>2. t \in 1..n + 1 /\ n - t < RingLines /\ t \in Nat
    BY <1>0, Consts
  <1>3. Append(g.ring, text) \in Seq(Texts) /\ Len(Append(g.ring, text)) = n
    BY <1>0
  <1>4. g.todo + d \in Nat
    BY <1>0
  <1> HIDE DEF n, t, d
  <1>5. /\ h \in Filter /\ h.ring = Append(g.ring, text) /\ h.tail = t
        /\ h.seen = g.seen /\ h.told = g.told
        /\ h.len = g.len /\ h.pos = g.pos /\ h.count = g.count
    BY <1>0, <1>2, <1>3, <1>4 DEF Filter
  <1> HIDE DEF h
  <1> QED  BY <1>1, <1>2, <1>3, <1>5

\* log_emit(): the line is in the ring, among the lines seen, and told of.
LEMMA EmitIs ==
  ASSUME NEW g, Good(g), NEW line \in Lines, NEW text \in {line, Garbled}
  PROVE  LET h == log_emit(g, line, text)
         IN  /\ Good(h)
             /\ h.seen = Append(g.seen, [at |-> Len(g.ring) + 1, line |-> line])
             /\ h.told = Append(g.told, text)
             /\ h.len = g.len /\ h.pos = g.pos /\ h.count = g.count
  <1> DEFINE e == [at |-> Len(g.ring) + 1, line |-> line]
             r == log_out(g, text, line \in NoCon)
             h == log_emit(g, line, text)
  <1>0. text \in Texts /\ (line \in NoCon) \in BOOLEAN
    BY DEF Texts
  <1>1. /\ r \in Filter /\ r.ring = Append(g.ring, text)
        /\ r.tail \in 1..Len(r.ring) + 1 /\ Len(r.ring) - r.tail < RingLines
        /\ r.seen = g.seen /\ r.told = g.told
        /\ r.len = g.len /\ r.pos = g.pos /\ r.count = g.count
    BY <1>0, OutIs
  <1>2. h = [r EXCEPT !.seen = Append(@, e), !.told = Append(@, text)]
    BY DEF log_emit
  <1> HIDE DEF r, h
  <1>3. g \in Filter /\ g.ring \in Seq(Texts) /\ g.seen \in Seq(Entry) /\ g.told \in Seq(Texts)
    BY FieldsAre DEF Good
  <1>4. e \in Entry /\ e.at = Len(g.ring) + 1 /\ e.line = line
    BY <1>3 DEF Entry
  <1> HIDE DEF e
  <1>5. Append(g.seen, e) \in Seq(Entry) /\ Append(g.told, text) \in Seq(Texts)
    BY <1>0, <1>3, <1>4
  <1>6. /\ h \in Filter /\ h.ring = r.ring /\ h.tail = r.tail
        /\ h.seen = Append(g.seen, e) /\ h.told = Append(g.told, text)
        /\ h.len = g.len /\ h.pos = g.pos /\ h.count = g.count
    BY <1>1, <1>2, <1>5 DEF Filter
  <1>7. Len(h.seen) = Len(g.seen) + 1 /\ Len(h.ring) = Len(g.ring) + 1
    BY <1>1, <1>3, <1>6
  <1>8. ASSUME NEW k \in 1..Len(h.seen)
        PROVE  /\ h.seen[k].at \in 1..Len(h.ring)
               /\ h.ring[h.seen[k].at] \in {h.seen[k].line, Garbled}
    <2>1. CASE k = Len(h.seen)
      <3>1. h.seen[k] = e /\ h.ring[Len(g.ring) + 1] = text
        BY <2>1, <1>1, <1>3, <1>6, <1>7
      <3> QED  BY <3>1, <1>3, <1>4, <1>7
    <2>2. CASE k # Len(h.seen)
      <3>1. k \in 1..Len(g.seen) /\ h.seen[k] = g.seen[k]
        BY <2>2, <1>3, <1>6, <1>7
      <3>2. g.seen[k].at \in 1..Len(g.ring) /\ g.ring[g.seen[k].at] \in {g.seen[k].line, Garbled}
        BY <3>1 DEF Good
      <3>3. h.ring[g.seen[k].at] = g.ring[g.seen[k].at]
        BY <3>2, <1>1, <1>3, <1>6
      <3> QED  BY <3>1, <3>2, <3>3, <1>3, <1>7
    <2> QED  BY <2>1, <2>2
  <1>9. h.len <= Len(h.seen)
    <2>1. g.len <= Len(g.seen) /\ g.len \in Nat /\ Len(g.seen) \in Nat
      BY <1>3, FieldsAre DEF Good
    <2> QED  BY <2>1, <1>6, <1>7
  <1>10. Good(h)
    BY <1>1, <1>6, <1>8, <1>9 DEF Good
  <1> QED  BY <1>6, <1>10 DEF e, h

\* What the first k lines of the block being logged again makes of g.
AgainBy(g, h, k) ==
  /\ Good(h) /\ h.len = g.len /\ h.pos = g.pos /\ h.count = g.count
  /\ Len(h.seen) = Len(g.seen) + k /\ Len(h.told) = Len(g.told) + k
  /\ \A j \in 1..Len(g.seen) : h.seen[j].line = g.seen[j].line
  /\ \A j \in 1..Len(g.told) : h.told[j] = g.told[j]
  /\ \A j \in 1..k : /\ h.seen[Len(g.seen) + j].line = Line(g, j)
                     /\ h.told[Len(g.told) + j] \in {Line(g, j), Garbled}

\* log_again() finds the next line of the block rep_len lines back.
LEMMA AgainStep ==
  ASSUME NEW g, Good(g), NEW k \in Nat, k < g.len, NEW h, AgainBy(g, h, k)
  PROVE  AgainBy(g, log_again(h, g.len), k + 1)
  <1> DEFINE e == seen_back(h, g.len)
             text == IF e.at >= h.tail THEN h.ring[e.at] ELSE Garbled
             i == Len(g.seen) - g.len + (k + 1)
             m == log_again(h, g.len)
  <1>0. /\ Good(h) /\ h.len = g.len /\ h.pos = g.pos /\ h.count = g.count
        /\ Len(h.seen) = Len(g.seen) + k /\ Len(h.told) = Len(g.told) + k
    BY DEF AgainBy
  <1>1. /\ g \in Filter /\ h \in Filter /\ g.len \in Nat /\ g.len <= Len(g.seen)
        /\ g.seen \in Seq(Entry) /\ g.told \in Seq(Texts)
        /\ h.seen \in Seq(Entry) /\ h.told \in Seq(Texts) /\ h.ring \in Seq(Texts)
        /\ Len(g.seen) \in Nat /\ Len(g.told) \in Nat
    BY <1>0, FieldsAre DEF Good
  <1>2. i \in 1..Len(g.seen) /\ i \in 1..Len(h.seen) /\ Len(h.seen) + 1 - g.len = i
    <2> HIDE DEF e, text, m
    <2>1. \A a, l \in Nat : k < l /\ l <= a =>
            /\ a - l + (k + 1) \in 1..a /\ a - l + (k + 1) \in 1..a + k
            /\ a + k + 1 - l = a - l + (k + 1)
      OBVIOUS
    <2> QED  BY <1>0, <1>1, <2>1
  <1>3. e = h.seen[i] /\ e.line = Line(g, k + 1)
    <2>1. h.seen[i].line = g.seen[i].line
      BY <1>2 DEF AgainBy
    <2> QED  BY <1>2, <2>1 DEF seen_back, Line
  <1>4. e.line \in Lines /\ text \in {e.line, Garbled}
    <2>1. e.line \in Lines /\ h.ring[e.at] \in {e.line, Garbled}
      BY <1>0, <1>2, <1>3, FieldsAre
    <2> QED  BY <2>1
  <1>5. m = log_emit(h, e.line, text)
    BY DEF log_again
  <1> HIDE DEF e, text, m, i
  <1> DEFINE en == [at |-> Len(h.ring) + 1, line |-> e.line]
  <1>6. /\ Good(m) /\ m.seen = Append(h.seen, en) /\ m.told = Append(h.told, text)
        /\ m.len = g.len /\ m.pos = g.pos /\ m.count = g.count
    BY <1>0, <1>4, <1>5, EmitIs
  <1>61. en.line = e.line /\ en \in Entry /\ text \in Texts
    BY <1>1, <1>4, FieldsAre DEF Entry, Texts
  <1> HIDE DEF en
  <1>62. /\ Len(m.seen) = Len(h.seen) + 1 /\ m.seen[Len(h.seen) + 1] = en
         /\ Len(m.told) = Len(h.told) + 1 /\ m.told[Len(h.told) + 1] = text
    BY <1>1, <1>6, <1>61, AppendIs
  <1>7. Len(m.seen) = Len(g.seen) + (k + 1) /\ Len(m.told) = Len(g.told) + (k + 1)
    <2>1. \A a \in Nat : a + k + 1 = a + (k + 1)
      OBVIOUS
    <2> QED  BY <1>0, <1>1, <1>62, <2>1
  <1>8. \A j \in 1..Len(g.seen) : m.seen[j].line = g.seen[j].line
    BY <1>0, <1>1, <1>6 DEF AgainBy
  <1>9. \A j \in 1..Len(g.told) : m.told[j] = g.told[j]
    BY <1>0, <1>1, <1>6 DEF AgainBy
  <1>10. ASSUME NEW j \in 1..k + 1
         PROVE  /\ m.seen[Len(g.seen) + j].line = Line(g, j)
                /\ m.told[Len(g.told) + j] \in {Line(g, j), Garbled}
    <2>1. CASE j = k + 1
      <3>1. m.seen[Len(g.seen) + j] = en /\ m.told[Len(g.told) + j] = text
        <4>1. \A a \in Nat : a + k + 1 = a + (k + 1)
          OBVIOUS
        <4> QED  BY <2>1, <1>0, <1>1, <1>62, <4>1
      <3> QED  BY <3>1, <2>1, <1>3, <1>4, <1>61
    <2>2. CASE j # k + 1
      <3>1. /\ j \in 1..k /\ m.seen[Len(g.seen) + j] = h.seen[Len(g.seen) + j]
            /\ m.told[Len(g.told) + j] = h.told[Len(g.told) + j]
        BY <2>2, <1>0, <1>1, <1>6
      <3> QED  BY <3>1 DEF AgainBy
    <2> QED  BY <2>1, <2>2
  <1>11. AgainBy(g, m, k + 1)
    BY <1>6, <1>7, <1>8, <1>9, <1>10 DEF AgainBy
  <1> QED  BY <1>11 DEF m

\* log_again() n times logs the first n lines of the block.
LEMMA AgainDoes ==
  ASSUME NEW g, Good(g), NEW n \in Nat, n <= g.len
  PROVE  AgainBy(g, Again(g, n), n)
  <1>1. PICK A : IsAgain(A, g, n) /\ Again(g, n) = A[n]
    BY AgainIs
  <1>2. \A k \in 0..n : A[k] = IF k = 0 THEN g ELSE log_again(A[k - 1], g.len)
    BY <1>1, Zenon DEF IsAgain
  <1> DEFINE T == {k \in 0..n : ~AgainBy(g, A[k], k)}
  <1>3. T = {}
    <2> SUFFICES ASSUME T # {} PROVE FALSE
      OBVIOUS
    <2>0. T \subseteq Nat
      OBVIOUS
    <2>1. PICK m \in T : \A y \in T : m <= y
      BY <2>0, LeastOf
    <2>2. m \in 0..n /\ ~AgainBy(g, A[m], m)
      BY <2>1
    <2>3. CASE m = 0
      <3>1. A[m] = g
        BY <1>2, <2>2, <2>3
      <3>2. g \in Filter /\ g.seen \in Seq(Entry) /\ g.told \in Seq(Texts)
        BY FieldsAre DEF Good
      <3>3. AgainBy(g, g, 0)
        BY <3>2 DEF AgainBy
      <3> QED  BY <2>2, <2>3, <3>1, <3>3
    <2>4. CASE m # 0
      <3>1. m - 1 \in Nat /\ m - 1 \in 0..n /\ m - 1 + 1 = m /\ m - 1 \notin T
        BY <2>1, <2>2, <2>4
      <3>2. AgainBy(g, A[m - 1], m - 1)
        BY <3>1
      <3>3. A[m] = log_again(A[m - 1], g.len)
        BY <1>2, <2>2, <2>4
      <3>4. m - 1 < g.len
        <4>1. g.len \in Nat
          BY FieldsAre DEF Good
        <4> QED  BY <2>2, <4>1
      <3>5. AgainBy(g, log_again(A[m - 1], g.len), m - 1 + 1)
        BY <3>1, <3>2, <3>4, AgainStep
      <3> QED  BY <2>2, <3>1, <3>3, <3>5
    <2> QED  BY <2>3, <2>4
  <1>4. AgainBy(g, A[n], n)
    BY <1>3
  <1> QED  BY <1>1, <1>4


-----------------------------------------------------------------------------
(* What is told of and what is held, against what was logged *)

\* What was logged is what is told of, then the repetitions that are counted, then the
\* lines held of one more.
Exact(g, in) ==
  /\ Len(in) = Len(g.told) + (g.len * g.count + g.pos)
  /\ \A k \in 1..Len(g.told) : g.told[k] \in {in[k], Garbled}
  /\ \A c \in Nat : \A j \in 1..g.len :
       g.len * c + j <= g.len * g.count + g.pos => in[Len(g.told) + (g.len * c + j)] = Line(g, j)

\* Lines are held of a block only, and a whole block is counted.
Rep(g) ==
  /\ g.len = 0 => g.pos = 0 /\ g.count = 0
  /\ g.len > 0 => g.pos < g.len

\* The k-th line of repetitions is a line of the block.
LEMMA TurnIs ==
  ASSUME NEW n \in Nat \ {0}, NEW k \in Nat \ {0}
  PROVE  \E c \in Nat : \E j \in 1..n : k = n * c + j /\ (k - 1) % n = j - 1
  <1> DEFINE q == (k - 1) \div n
             r == (k - 1) % n
  <1>1. q \in Nat /\ r \in 0..n - 1 /\ k - 1 = n * q + r
    OBVIOUS
  <1> HIDE DEF q, r
  <1>2. n * q \in Nat
    BY <1>1
  <1>3. k = n * q + (r + 1) /\ r + 1 \in 1..n /\ r = (r + 1) - 1
    BY <1>1, <1>2
  <1> QED  BY <1>1, <1>3 DEF r

LEMMA GoodCarries ==
  ASSUME NEW g, Good(g), NEW h \in Filter, h.ring = g.ring, h.seen = g.seen, h.tail = g.tail,
         h.len <= Len(g.seen)
  PROVE  Good(h)
  BY DEF Good

\* log_out() of a notice leaves what is seen where it is.
LEMMA GoodNotice ==
  ASSUME NEW g, Good(g), NEW h \in Filter, NEW text \in Texts,
         h.ring = Append(g.ring, text), h.seen = g.seen, h.len = g.len,
         h.tail \in 1..Len(h.ring) + 1 /\ Len(h.ring) - h.tail < RingLines
  PROVE  Good(h)
  <1>1. /\ g.ring \in Seq(Texts) /\ Len(g.ring) \in Nat /\ g.len <= Len(g.seen)
        /\ \A k \in 1..Len(g.seen) : g.seen[k].at \in 1..Len(g.ring)
    BY FieldsAre
  <1>2. /\ Len(h.ring) = Len(g.ring) + 1
        /\ \A i \in 1..Len(g.ring) : h.ring[i] = g.ring[i] /\ i \in 1..Len(h.ring)
    BY <1>1, AppendIs
  <1>3. \A k \in 1..Len(h.seen) : /\ h.seen[k].at \in 1..Len(h.ring)
                                  /\ h.ring[h.seen[k].at] \in {h.seen[k].line, Garbled}
    BY <1>1, <1>2, FieldsAre
  <1> QED  BY <1>1, <1>3 DEF Good

\* What rep_flush() makes of g.
Flushed(g, h) ==
  /\ Good(h) /\ h.len = g.len /\ h.pos = g.pos /\ h.count = 0
  /\ \A j \in 1..g.len : Line(h, j) = Line(g, j)
  /\ Len(h.told) = Len(g.told) + g.len * g.count
  /\ \A k \in 1..Len(g.told) : h.told[k] = g.told[k]
  /\ \A c \in Nat : \A j \in 1..g.len :
       g.len * c + j <= g.len * g.count => h.told[Len(g.told) + (g.len * c + j)] \in {Line(g, j), Garbled}

LEMMA FlushedNone ==
  ASSUME NEW g, Good(g), g.count = 0 PROVE Flushed(g, rep_flush(g))
  <1>1. rep_flush(g) = g
    BY DEF rep_flush
  <1>2. g.len \in Nat /\ g.len * g.count = 0 /\ Len(g.told) \in Nat
    BY FieldsAre
  <1>3. \A c \in Nat : \A j \in 1..g.len : ~(g.len * c + j <= 0)
    <2>1. \A c \in Nat : g.len * c \in Nat
      BY <1>2
    <2> QED  BY <1>2, <2>1
  <1> QED  BY <1>1, <1>2, <1>3 DEF Flushed

LEMMA FlushedOnce ==
  ASSUME NEW g, Good(g), g.count = 1 PROVE Flushed(g, rep_flush(g))
  <1> DEFINE z == [g EXCEPT !.count = 0]
             h == Again(z, g.len)
  <1>1. rep_flush(g) = h
    BY DEF rep_flush
  <1>2. /\ g \in Filter /\ g.len \in Nat /\ Len(g.told) \in Nat /\ Len(g.seen) \in Nat
        /\ g.len <= Len(g.seen)
    BY FieldsAre
  <1>3. /\ z \in Filter /\ z.ring = g.ring /\ z.seen = g.seen /\ z.tail = g.tail /\ z.len = g.len
        /\ z.told = g.told /\ z.pos = g.pos /\ z.count = 0
    BY <1>2 DEF Filter
  <1> HIDE DEF z
  <1>4. Good(z)
    BY <1>2, <1>3, GoodCarries
  <1>5. AgainBy(z, h, g.len)
    BY <1>2, <1>3, <1>4, AgainDoes
  <1> HIDE DEF h
  <1>6. \A j \in 1..g.len : Line(z, j) = Line(g, j)
    BY <1>3 DEF Line
  <1>7. /\ Good(h) /\ h.len = g.len /\ h.pos = g.pos /\ h.count = 0
        /\ Len(h.seen) = Len(g.seen) + g.len /\ Len(h.told) = Len(g.told) + g.len
        /\ \A j \in 1..Len(g.told) : h.told[j] = g.told[j]
        /\ \A j \in 1..g.len : /\ h.seen[Len(g.seen) + j].line = Line(g, j)
                               /\ h.told[Len(g.told) + j] \in {Line(g, j), Garbled}
    BY <1>3, <1>5, <1>6 DEF AgainBy
  <1>8. \A j \in 1..g.len : Line(h, j) = Line(g, j)
    <2>1. Len(h.seen) - h.len = Len(g.seen)
      BY <1>2, <1>7
    <2> QED  BY <1>7, <2>1 DEF Line
  <1>9. g.len * g.count = g.len
    BY <1>2
  <1>10. ASSUME NEW c \in Nat, NEW j \in 1..g.len, g.len * c + j <= g.len
         PROVE  g.len * c + j = j
    <2>1. CASE c = 0
      BY <1>2, <2>1
    <2>2. CASE c >= 1
      <3>1. g.len * c >= g.len
        BY <1>2, <2>2
      <3>2. g.len * c \in Nat
        BY <1>2
      <3> QED  BY <1>2, <3>1, <3>2, <1>10
    <2> QED  BY <2>1, <2>2
  <1>11. Flushed(g, h)
    BY <1>7, <1>8, <1>9, <1>10 DEF Flushed
  <1> QED  BY <1>1, <1>11

\* A notice: the block it tells of is the one that the last lines shown make.
LEMMA FlushedMany ==
  ASSUME NEW g, Good(g), g.count > 1, g.len > 0 PROVE Flushed(g, rep_flush(g))
  <1> DEFINE o == log_out(g, Garbled, rep_nocon(g))
             u == Repeated(Shown(g), g.len, g.count)
             h == [o EXCEPT !.count = 0, !.told = @ \o u]
             w == g.len * g.count
  <1>2. /\ g \in Filter /\ g.len \in Nat /\ Len(g.told) \in Nat /\ Len(g.seen) \in Nat
        /\ g.len <= Len(g.seen) /\ g.told \in Seq(Texts) /\ g.count \in Nat /\ g.seen \in Seq(Entry)
    BY FieldsAre
  <1>1. rep_flush(g) = h
    BY <1>2 DEF rep_flush
  <1>3. Garbled \in Texts /\ rep_nocon(g) \in BOOLEAN
    BY DEF Texts, rep_nocon
  <1>4. /\ o \in Filter /\ o.ring = Append(g.ring, Garbled)
        /\ o.tail \in 1..Len(o.ring) + 1 /\ Len(o.ring) - o.tail < RingLines
        /\ o.seen = g.seen /\ o.told = g.told
        /\ o.len = g.len /\ o.pos = g.pos /\ o.count = g.count
    BY <1>3, OutIs
  <1> HIDE DEF o
  <1>5. w \in Nat
    BY <1>2
  <1> HIDE DEF w
  <1>6. Len(Shown(g)) = Len(g.seen) /\ \A i \in 1..Len(g.seen) : Shown(g)[i] = g.ring[g.seen[i].at]
    BY <1>2 DEF Shown
  <1>7. /\ u = [k \in 1..w |-> Shown(g)[Len(g.seen) - g.len + 1 + ((k - 1) % g.len)]]
        /\ \A k \in 1..w : u[k] = Shown(g)[Len(g.seen) - g.len + 1 + ((k - 1) % g.len)]
    BY <1>6 DEF Repeated, w
  <1>8. ASSUME NEW j \in 1..g.len
        PROVE  /\ Shown(g)[Len(g.seen) - g.len + 1 + (j - 1)] \in {Line(g, j), Garbled}
               /\ Shown(g)[Len(g.seen) - g.len + 1 + (j - 1)] \in Texts
    <2> DEFINE i == Len(g.seen) - g.len + j
    <2>1. i \in 1..Len(g.seen) /\ Len(g.seen) - g.len + 1 + (j - 1) = i
      BY <1>2
    <2> HIDE DEF i
    <2>2. /\ Shown(g)[i] = g.ring[g.seen[i].at]
          /\ g.ring[g.seen[i].at] \in {g.seen[i].line, Garbled} /\ g.seen[i].line \in Lines
      BY <1>6, <2>1, FieldsAre
    <2>3. Line(g, j) = g.seen[i].line
      BY DEF Line, i
    <2> QED  BY <2>1, <2>2, <2>3 DEF Texts
  <1>9. ASSUME NEW c \in Nat, NEW j \in 1..g.len, g.len * c + j <= w
        PROVE  u[g.len * c + j] \in {Line(g, j), Garbled}
    <2>1. g.len * c \in Nat /\ g.len \in Nat \ {0} /\ j - 1 \in 0..g.len - 1
      BY <1>2
    <2>2. (g.len * c + (j - 1)) % g.len = j - 1
      BY <2>1, ModIs
    <2>3. g.len * c + j \in 1..w /\ (g.len * c + j) - 1 = g.len * c + (j - 1)
      BY <1>5, <2>1, <1>9
    <2> QED  BY <1>7, <1>8, <2>2, <2>3
  <1>10. \A k \in 1..w : u[k] \in Texts
    <2> SUFFICES ASSUME NEW k \in 1..w PROVE u[k] \in Texts
      OBVIOUS
    <2>1. k \in Nat \ {0} /\ g.len \in Nat \ {0}
      BY <1>2, <1>5
    <2>2. PICK c \in Nat, j \in 1..g.len : k = g.len * c + j /\ (k - 1) % g.len = j - 1
      BY <2>1, TurnIs
    <2> QED  BY <1>7, <1>8, <2>2
  <1>11. u \in Seq(Texts) /\ Len(u) = w
    BY <1>5, <1>7, <1>10
  <1> HIDE DEF u
  <1>12. /\ g.told \o u \in Seq(Texts) /\ Len(g.told \o u) = Len(g.told) + w
         /\ \A k \in 1..Len(g.told) : (g.told \o u)[k] = g.told[k]
         /\ \A k \in 1..w : (g.told \o u)[Len(g.told) + k] = u[k]
    BY <1>2, <1>5, <1>11
  <1>13. /\ h \in Filter /\ h.ring = o.ring /\ h.tail = o.tail /\ h.seen = g.seen
         /\ h.told = g.told \o u /\ h.len = g.len /\ h.pos = g.pos /\ h.count = 0
    BY <1>4, <1>12 DEF Filter
  <1> HIDE DEF h
  <1>14. Good(h)
    BY <1>3, <1>4, <1>13, GoodNotice
  <1>15. \A j \in 1..g.len : Line(h, j) = Line(g, j)
    BY <1>13 DEF Line
  <1>16. ASSUME NEW c \in Nat, NEW j \in 1..g.len, g.len * c + j <= w
         PROVE  h.told[Len(g.told) + (g.len * c + j)] \in {Line(g, j), Garbled}
    <2>1. g.len * c \in Nat
      BY <1>2
    <2>2. g.len * c + j \in 1..w
      BY <1>5, <2>1, <1>16
    <2> QED  BY <1>9, <1>12, <1>13, <1>16, <2>2
  <1>17. Flushed(g, h)
    BY <1>12, <1>13, <1>14, <1>15, <1>16 DEF Flushed, w
  <1> QED  BY <1>1, <1>17


\* rep_flush() tells of just what was counted.
LEMMA FlushIs ==
  ASSUME NEW g, Good(g), Rep(g) PROVE Flushed(g, rep_flush(g))
  <1>1. g.count \in Nat /\ g.len \in Nat
    BY FieldsAre
  <1>2. g.count > 0 => g.len > 0
    BY <1>1 DEF Rep
  <1> QED  BY <1>1, <1>2, FlushedNone, FlushedOnce, FlushedMany

LEMMA FlushExact ==
  ASSUME NEW g, Good(g), Rep(g), NEW in, Exact(g, in), NEW h, Flushed(g, h)
  PROVE  Rep(h) /\ Exact(h, in)
  <1> DEFINE w == g.len * g.count
             n == Len(g.told)
  <1>1. g.len \in Nat /\ g.count \in Nat /\ g.pos \in Nat /\ n \in Nat
    BY FieldsAre
  <1>2. w \in Nat
    BY <1>1
  <1>3. /\ h.len = g.len /\ h.pos = g.pos /\ h.count = 0 /\ Len(h.told) = n + w
        /\ \A j \in 1..g.len : Line(h, j) = Line(g, j)
        /\ \A k \in 1..n : h.told[k] = g.told[k]
        /\ \A c \in Nat : \A j \in 1..g.len :
             g.len * c + j <= w => h.told[n + (g.len * c + j)] \in {Line(g, j), Garbled}
    BY DEF Flushed
  <1>4. /\ Len(in) = n + (w + g.pos)
        /\ \A k \in 1..n : g.told[k] \in {in[k], Garbled}
        /\ \A c \in Nat : \A j \in 1..g.len :
             g.len * c + j <= w + g.pos => in[n + (g.len * c + j)] = Line(g, j)
    BY DEF Exact
  <1>5. Rep(h)
    BY <1>3 DEF Rep
  <1>6. w > 0 => g.len > 0
    BY <1>1
  <1>7. \A b, c \in Nat : g.len * (b + c) = g.len * b + g.len * c /\ g.len * c \in Nat
    BY <1>1
  <1>8. h.len * h.count = 0
    BY <1>1, <1>3
  <1> HIDE DEF w, n
  <1>9. Len(in) = Len(h.told) + (h.len * h.count + h.pos)
    BY <1>1, <1>2, <1>3, <1>4, <1>8
  <1>10. ASSUME NEW k \in 1..Len(h.told) PROVE h.told[k] \in {in[k], Garbled}
    <2>1. CASE k <= n
      <3>1. k \in 1..n
        BY <2>1, <1>1
      <3> QED  BY <3>1, <1>3, <1>4
    <2>2. CASE ~(k <= n)
      <3> DEFINE i == k - n
      <3>1. i \in 1..w /\ k = n + i /\ i \in Nat \ {0} /\ w > 0
        BY <2>2, <1>1, <1>2, <1>3
      <3> HIDE DEF i
      <3>2. g.len \in Nat \ {0}
        BY <1>1, <1>6, <3>1
      <3>3. PICK c \in Nat, j \in 1..g.len : i = g.len * c + j
        BY <3>1, <3>2, TurnIs
      <3>4. g.len * c + j <= w /\ g.len * c + j <= w + g.pos
        BY <1>1, <1>2, <3>1, <3>3
      <3> QED  BY <1>3, <1>4, <3>1, <3>3, <3>4
    <2> QED  BY <2>1, <2>2
  <1>11. ASSUME NEW c \in Nat, NEW j \in 1..h.len, h.len * c + j <= h.len * h.count + h.pos
         PROVE  in[Len(h.told) + (h.len * c + j)] = Line(h, j)
    <2>0. 0 + g.pos = g.pos
      BY <1>1
    <2>1. j \in 1..g.len /\ g.len * c + j <= g.pos
      BY <1>11, <1>3, <1>8, <2>0, Zenon
    <2>2. /\ g.count + c \in Nat /\ g.len * (g.count + c) = w + g.len * c /\ g.len * c \in Nat
      <3>1. g.count + c \in Nat
        BY <1>1
      <3> QED  BY <1>1, <1>7, <3>1, Zenon DEF w
    <2> DEFINE y == g.len * c
    <2> HIDE DEF y
    <2>3. w + y + j <= w + g.pos /\ n + (w + y + j) = n + w + (y + j)
      BY <1>1, <1>2, <2>1, <2>2 DEF y
    <2>4. in[n + (g.len * (g.count + c) + j)] = Line(g, j)
      BY <1>4, <2>1, <2>2, <2>3 DEF y
    <2>5. g.len * (g.count + c) + j = w + y + j
      BY <2>2 DEF y
    <2> QED  BY <1>3, <2>1, <2>3, <2>4, <2>5 DEF y
  <1> QED  BY <1>5, <1>9, <1>10, <1>11 DEF Exact

\* The filter holds nothing.
Idle(g) == g.len = 0 /\ g.pos = 0 /\ g.count = 0

\* rep_break() tells of what was counted and logs what was held: nothing is held then, and
\* all is told of.
LEMMA BreakIs ==
  ASSUME NEW g, Good(g), Rep(g), g.len > 0, NEW in, Exact(g, in)
  PROVE  Good(rep_break(g)) /\ Idle(rep_break(g)) /\ Exact(rep_break(g), in)
  <1> DEFINE h == rep_flush(g)
             m == Again(h, g.pos)
             b == [m EXCEPT !.len = 0, !.pos = 0]
  <1>1. rep_break(g) = b
    BY DEF rep_break
  <1>2. Flushed(g, h)
    BY FlushIs
  <1> HIDE DEF h
  <1>3. Rep(h) /\ Exact(h, in)
    BY <1>2, FlushExact
  <1>4. Good(h) /\ h.len = g.len /\ h.pos = g.pos /\ h.count = 0
    BY <1>2 DEF Flushed
  <1>5. /\ g.pos \in Nat /\ g.len \in Nat /\ Len(h.told) \in Nat /\ Len(h.seen) \in Nat
        /\ g.pos < g.len
    BY <1>4, FieldsAre DEF Rep
  <1>6. AgainBy(h, m, g.pos)
    BY <1>4, <1>5, AgainDoes
  <1> HIDE DEF m
  <1>7. /\ Good(m) /\ m.count = 0 /\ Len(m.told) = Len(h.told) + g.pos
        /\ \A j \in 1..Len(h.told) : m.told[j] = h.told[j]
        /\ \A j \in 1..g.pos : m.told[Len(h.told) + j] \in {Line(h, j), Garbled}
    BY <1>4, <1>6 DEF AgainBy
  <1>8. m \in Filter /\ m.seen \in Seq(Entry) /\ Len(m.seen) \in Nat /\ 0 \in 0..LOG_REPEAT
    BY <1>7, FieldsAre, Consts
  <1>9. /\ b \in Filter /\ b.ring = m.ring /\ b.seen = m.seen /\ b.tail = m.tail
        /\ b.told = m.told /\ b.len = 0 /\ b.pos = 0 /\ b.count = 0
    BY <1>7, <1>8 DEF Filter
  <1> HIDE DEF b
  <1>10. Good(b)
    BY <1>7, <1>8, <1>9, GoodCarries
  <1>11. h.len * h.count = 0 /\ b.len * b.count = 0
    BY <1>4, <1>5, <1>9
  <1>12. Len(in) = Len(h.told) + g.pos
    BY <1>3, <1>4, <1>5, <1>11 DEF Exact
  <1>13. ASSUME NEW j \in 1..g.pos PROVE in[Len(h.told) + j] = Line(h, j)
    <2>1. j \in 1..h.len /\ h.len * 0 = 0 /\ h.len * 0 + j = j /\ j <= h.len * h.count + h.pos
      BY <1>4, <1>5, <1>11
    <2>2. h.len * 0 + j <= h.len * h.count + h.pos => in[Len(h.told) + (h.len * 0 + j)] = Line(h, j)
      BY <1>3, <2>1 DEF Exact
    <2> QED  BY <2>1, <2>2
  <1>14. ASSUME NEW k \in 1..Len(b.told) PROVE b.told[k] \in {in[k], Garbled}
    <2>1. CASE k <= Len(h.told)
      <3>1. k \in 1..Len(h.told)
        BY <2>1
      <3>2. h.told[k] \in {in[k], Garbled}
        BY <1>3, <3>1 DEF Exact
      <3> QED  BY <3>1, <3>2, <1>7, <1>9
    <2>2. CASE ~(k <= Len(h.told))
      <3> DEFINE j == k - Len(h.told)
      <3>1. j \in 1..g.pos /\ k = Len(h.told) + j
        BY <2>2, <1>5, <1>7, <1>9
      <3> HIDE DEF j
      <3> QED  BY <3>1, <1>7, <1>9, <1>13
    <2> QED  BY <2>1, <2>2
  <1>15. Len(in) = Len(b.told) + (b.len * b.count + b.pos)
    BY <1>5, <1>7, <1>9, <1>11, <1>12
  <1>16. Exact(b, in)
    BY <1>9, <1>14, <1>15 DEF Exact
  <1> QED  BY <1>1, <1>9, <1>10, <1>16 DEF Idle

\* seen_is() compares the text: a line that only has the same sum is not taken for it.
LEMMA SeenIs ==
  ASSUME NEW g, Good(g), NEW k \in 1..Len(g.seen), NEW l \in Lines, seen_is(g, g.seen[k], l)
  PROVE  g.seen[k].line = l
  BY FieldsAre, Consts DEF seen_is

\* rep_find() finds a block whose first line is l.
LEMMA FindIs ==
  ASSUME NEW g, Good(g), NEW l \in Lines
  PROVE  /\ rep_find(g, l) \in 0..LOG_REPEAT /\ rep_find(g, l) <= Len(g.seen)
         /\ rep_find(g, l) > 0 => g.seen[Len(g.seen) - rep_find(g, l) + 1].line = l
  <1> DEFINE Is(len) == seen_is(g, seen_back(g, len), l)
             Blocks == {len \in 2..LOG_REPEAT : 2 * len <= Len(g.seen) /\ Is(len) /\ seen_twice(g, len)}
             Least == CHOOSE len \in Blocks : \A m \in Blocks : len <= m
  <1>0. /\ g.seen \in Seq(Entry) /\ Len(g.seen) \in Nat /\ LOG_REPEAT \in Nat \ {0}
    BY FieldsAre, Consts
  <1>1. ASSUME NEW len \in 1..Len(g.seen), Is(len)
        PROVE  g.seen[Len(g.seen) - len + 1].line = l
    <2>1. Len(g.seen) - len + 1 \in 1..Len(g.seen) /\ Len(g.seen) + 1 - len = Len(g.seen) - len + 1
      BY <1>0
    <2> QED  BY <1>1, <2>1, SeenIs DEF seen_back
  <1>2. rep_find(g, l) = IF g.seen # <<>> /\ Is(1) THEN 1 ELSE IF Blocks # {} THEN Least ELSE 0
    BY Zenon DEF rep_find
  <1>3. CASE g.seen # <<>> /\ Is(1)
    <2>1. 1 \in 1..Len(g.seen)
      BY <1>0, <1>3
    <2> QED  BY <1>0, <1>1, <1>2, <1>3, <2>1
  <1>4. CASE ~(g.seen # <<>> /\ Is(1)) /\ Blocks # {}
    <2>0. Blocks \subseteq Nat
      BY <1>0
    <2>1. \E x \in Blocks : \A y \in Blocks : x <= y
      <3> HIDE DEF Blocks
      <3> QED  BY <1>4, <2>0, LeastOf
    <2>2. Least \in Blocks
      <3> HIDE DEF Blocks
      <3> QED  BY <2>1, Zenon
    <2>3. Least \in 1..Len(g.seen) /\ Least \in 0..LOG_REPEAT /\ Is(Least)
      <3> HIDE DEF Least, Is
      <3> QED  BY <1>0, <2>2
    <2> HIDE DEF Least, Blocks, Is
    <2> QED  BY <1>0, <1>1, <1>2, <1>4, <2>3
  <1>5. CASE ~(g.seen # <<>> /\ Is(1)) /\ Blocks = {}
    <2>1. rep_find(g, l) = 0
      BY <1>2, <1>5
    <2> QED  BY <1>0, <2>1
  <1> QED  BY <1>3, <1>4, <1>5


\* Two states of the filter that differ in what the console is to have.
LEMMA SameFilter ==
  ASSUME NEW g, Good(g), Rep(g), NEW in, Exact(g, in), NEW h \in Filter,
         h.ring = g.ring, h.tail = g.tail, h.seen = g.seen, h.told = g.told,
         h.len = g.len, h.pos = g.pos, h.count = g.count
  PROVE  Good(h) /\ Rep(h) /\ Exact(h, in)
  <1>1. Good(h)
    BY FieldsAre, GoodCarries
  <1>2. Rep(h)
    BY DEF Rep
  <1>3. \A j : Line(h, j) = Line(g, j)
    BY DEF Line
  <1>4. Exact(h, in)
    BY <1>3, Zenon DEF Exact
  <1> QED  BY <1>1, <1>2, <1>4

-----------------------------------------------------------------------------
(* The steps *)

\* Everything the proof keeps of a state.
RingInv == Good(Now) /\ Rep(Now) /\ Exact(Now, input) /\ input \in Seq(Lines)

LEMMA NowIs ==
  /\ Now.ring = ring /\ Now.tail = tail /\ Now.seen = seen /\ Now.told = told
  /\ Now.len = rep_len /\ Now.pos = rep_pos /\ Now.count = rep_count /\ Now.todo = 0
  BY DEF Now

\* What ninit_log() decides about: a block that l goes on with, or none.
LEMMA FollowIs ==
  ASSUME RingInv, NEW l \in Lines
  PROVE  LET g == Follow(l)
         IN  /\ Good(g) /\ Rep(g) /\ Exact(g, input)
             /\ g.len > 0 => Line(g, g.pos + 1) = l
  <1> DEFINE broken == rep_len > 0 /\ ~seen_is(Now, seen_back(Now, rep_len - rep_pos), l)
             g == IF broken THEN rep_break(Now) ELSE Now
             f == [g EXCEPT !.len = rep_find(g, l)]
  <1>1. Follow(l) = IF g.len = 0 THEN f ELSE g
    BY Zenon DEF Follow
  <1>2. Good(Now) /\ Rep(Now) /\ Exact(Now, input)
    BY DEF RingInv
  <1>3. Good(g) /\ Rep(g) /\ Exact(g, input)
    <2>1. CASE broken
      <3>1. g = rep_break(Now) /\ Now.len > 0
        BY <2>1, NowIs
      <3>2. Good(g) /\ Idle(g) /\ Exact(g, input)
        BY <1>2, <3>1, BreakIs
      <3>3. Rep(g)
        BY <3>2 DEF Rep, Idle
      <3> QED  BY <3>2, <3>3
    <2>2. CASE ~broken
      <3>1. g = Now
        BY <2>2, Zenon
      <3> QED  BY <1>2, <3>1
    <2> QED  BY <2>1, <2>2
  <1>4. ASSUME g.len # 0 PROVE Line(g, g.pos + 1) = l
    <2>1. ~broken
      <3> SUFFICES ASSUME broken PROVE FALSE
        OBVIOUS
      <3>1. g = rep_break(Now) /\ Now.len > 0
        BY NowIs
      <3>2. Idle(g)
        BY <1>2, <3>1, BreakIs
      <3> QED  BY <3>2, <1>4 DEF Idle
    <2>2. g = Now /\ g.len = rep_len /\ g.pos = rep_pos /\ g.seen = seen
      BY <2>1, NowIs
    <2> HIDE DEF g
    <2>3. /\ g.len \in Nat /\ g.len > 0 /\ g.pos \in Nat /\ g.pos < g.len /\ g.len <= Len(g.seen)
          /\ Len(g.seen) \in Nat
      BY <1>3, <1>4, FieldsAre DEF Rep
    <2>4. seen_is(g, seen_back(g, g.len - g.pos), l)
      BY <2>1, <2>2, <2>3
    <2> DEFINE k == Len(g.seen) - g.len + (g.pos + 1)
    <2>5. k \in 1..Len(g.seen) /\ Len(g.seen) + 1 - (g.len - g.pos) = k
      BY <2>3
    <2>6. g.seen[k].line = l
      <3>1. seen_is(g, g.seen[k], l)
        BY <2>4, <2>5 DEF seen_back
      <3> HIDE DEF k
      <3> QED  BY <1>3, <2>5, <3>1, SeenIs
    <2> QED  BY <2>6 DEF Line
  <1> HIDE DEF g
  <1>5. CASE g.len = 0
    <2> DEFINE n == rep_find(g, l)
    <2>1. n \in 0..LOG_REPEAT /\ n <= Len(g.seen) /\ (n > 0 => g.seen[Len(g.seen) - n + 1].line = l)
      BY <1>3, FindIs
    <2> HIDE DEF n
    <2>2. g \in Filter /\ g.pos = 0 /\ g.count = 0 /\ Len(g.seen) \in Nat /\ Len(g.told) \in Nat
      BY <1>3, <1>5, FieldsAre DEF Rep
    <2>3. /\ f \in Filter /\ f.ring = g.ring /\ f.seen = g.seen /\ f.tail = g.tail
          /\ f.told = g.told /\ f.len = n /\ f.pos = 0 /\ f.count = 0
      BY <2>1, <2>2 DEF Filter, n
    <2> HIDE DEF f
    <2>4. Good(f)
      BY <1>3, <2>1, <2>3, GoodCarries
    <2>5. n \in Nat /\ f.len * f.count = 0 /\ g.len * g.count = 0
      BY <1>5, <2>1, <2>2, <2>3, Consts
    <2>6. Rep(f)
      BY <2>3 DEF Rep
    <2>7. \A c \in Nat : \A j \in 1..f.len : ~(f.len * c + j <= 0)
      <3>1. \A c \in Nat : n * c \in Nat
        BY <2>5
      <3> QED  BY <2>3, <2>5, <3>1
    <2>8. f.len * f.count + f.pos = 0 /\ g.len * g.count + g.pos = 0
      BY <2>2, <2>3, <2>5
    <2>9. Exact(f, input)
      <3>1. Len(input) = Len(f.told) + (f.len * f.count + f.pos)
        BY <1>3, <2>3, <2>8 DEF Exact
      <3>2. \A k \in 1..Len(f.told) : f.told[k] \in {input[k], Garbled}
        BY <1>3, <2>3 DEF Exact
      <3> QED  BY <3>1, <3>2, <2>7, <2>8 DEF Exact
    <2>10. f.len > 0 => Line(f, f.pos + 1) = l
      BY <2>1, <2>3, <2>5 DEF Line
    <2>11. Follow(l) = f
      BY <1>1, <1>5
    <2> QED  BY <2>4, <2>6, <2>9, <2>10, <2>11
  <1>6. CASE g.len # 0
    <2>1. Follow(l) = g
      BY <1>1, <1>6
    <2> QED  BY <1>3, <1>4, <1>6, <2>1
  <1> QED  BY <1>5, <1>6

\* A step that makes the filter g, when what was logged is then input'.
LEMMA BecomesIs ==
  ASSUME NEW g, Good(g), Rep(g), Exact(g, input'), input' \in Seq(Lines), Becomes(g)
  PROVE  RingInv' /\ \E k \in Nat : Offer(k)
  <1> DEFINE h == [ring |-> ring', tail |-> tail', seen |-> seen', told |-> told', todo |-> 0,
                   len |-> rep_len', pos |-> rep_pos', count |-> rep_count']
  <1>1. h = Now'
    BY DEF Now
  <1>2. /\ h.ring = g.ring /\ h.tail = g.tail /\ h.seen = g.seen /\ h.told = g.told
        /\ h.len = g.len /\ h.pos = g.pos /\ h.count = g.count
    BY DEF Becomes
  <1>3. h \in Filter
    BY FieldsAre DEF Becomes, Filter
  <1> HIDE DEF h
  <1>4. Good(h) /\ Rep(h) /\ Exact(h, input')
    BY <1>2, <1>3, SameFilter
  <1>5. g.todo \in Nat /\ Offer(g.todo)
    BY FieldsAre DEF Becomes
  <1>6. RingInv' = (Good(Now') /\ Rep(Now') /\ Exact(Now', input') /\ input' \in Seq(Lines))
    BY DEF RingInv, Good, Rep, Exact, Line, Now
  <1> QED  BY <1>1, <1>4, <1>5, <1>6

LEMMA NewKeeps ==
  ASSUME RingInv, NEW l \in Lines, log_new(l) PROVE RingInv' /\ \E k \in Nat : Offer(k)
  <1> DEFINE g == Follow(l)
             h == log_emit(g, l, l)
  <1>1. input' = Append(input, l) /\ g.len = 0 /\ Becomes(h)
    BY DEF log_new, Logged
  <1>2. Good(g) /\ Rep(g) /\ Exact(g, input)
    BY FollowIs
  <1> HIDE DEF g
  <1>3. g.pos = 0 /\ g.count = 0 /\ g.told \in Seq(Texts) /\ Len(g.told) \in Nat /\ l \in Texts
    BY <1>1, <1>2, FieldsAre DEF Rep, Texts
  <1>4. /\ Good(h) /\ h.told = Append(g.told, l) /\ h.len = 0 /\ h.pos = 0 /\ h.count = 0
    BY <1>1, <1>2, <1>3, EmitIs
  <1> HIDE DEF h
  <1>5. input \in Seq(Lines) /\ input' \in Seq(Lines)
    BY <1>1, AppendIs DEF RingInv
  <1>6. Rep(h)
    BY <1>4 DEF Rep
  <1>7. Len(input) = Len(g.told) /\ \A k \in 1..Len(g.told) : g.told[k] \in {input[k], Garbled}
    BY <1>1, <1>2, <1>3 DEF Exact
  <1>8. /\ Len(h.told) = Len(g.told) + 1 /\ h.told[Len(g.told) + 1] = l
        /\ \A k \in 1..Len(g.told) : h.told[k] = g.told[k]
    BY <1>3, <1>4, AppendIs
  <1>9. /\ Len(input') = Len(input) + 1 /\ input'[Len(input) + 1] = l
        /\ \A k \in 1..Len(input) : input'[k] = input[k]
    BY <1>1, <1>5, AppendIs
  <1>10. ASSUME NEW k \in 1..Len(h.told) PROVE h.told[k] \in {input'[k], Garbled}
    <2>1. CASE k = Len(g.told) + 1
      BY <2>1, <1>7, <1>8, <1>9
    <2>2. CASE k # Len(g.told) + 1
      <3>1. k \in 1..Len(g.told)
        BY <2>2, <1>3, <1>8
      <3> QED  BY <3>1, <1>7, <1>8, <1>9
    <2> QED  BY <2>1, <2>2
  <1>11. Len(input') = Len(h.told) + (h.len * h.count + h.pos)
    BY <1>3, <1>4, <1>7, <1>8, <1>9
  <1>12. Exact(h, input')
    BY <1>4, <1>10, <1>11 DEF Exact
  <1> QED  BY <1>1, <1>4, <1>5, <1>6, <1>12, BecomesIs

\* The line that is held back is the next one of the block: what was logged, with it, is
\* what the filter has told of and holds.
LEMMA OneMore ==
  ASSUME RingInv, NEW l \in Lines, NEW g, Good(g), Rep(g), Exact(g, input), g.len > 0,
         Line(g, g.pos + 1) = l, NEW h \in Filter,
         h.ring = g.ring, h.tail = g.tail, h.seen = g.seen, h.told = g.told, h.len = g.len,
         Rep(h), h.len * h.count + h.pos = g.len * g.count + g.pos + 1,
         input' = Append(input, l)
  PROVE  Good(h) /\ Exact(h, input') /\ input' \in Seq(Lines)
  <1> DEFINE n == Len(g.told)
             w == g.len * g.count
  <1>1. /\ g.len \in Nat \ {0} /\ g.count \in Nat /\ g.pos \in Nat /\ n \in Nat
        /\ g.len <= Len(g.seen) /\ g.pos < g.len
    BY FieldsAre DEF Rep
  <1>2. w \in Nat
    BY <1>1
  <1>3. Good(h)
    BY <1>1, GoodCarries
  <1>4. input \in Seq(Lines)
    BY DEF RingInv
  <1>5. /\ input' \in Seq(Lines)
        /\ Len(input') = Len(input) + 1 /\ input'[Len(input) + 1] = l
        /\ \A k \in 1..Len(input) : input'[k] = input[k]
    BY <1>4, AppendIs
  <1>6. /\ Len(input) = n + (w + g.pos)
        /\ \A k \in 1..n : g.told[k] \in {input[k], Garbled}
        /\ \A c \in Nat : \A j \in 1..g.len :
             g.len * c + j <= w + g.pos => input[n + (g.len * c + j)] = Line(g, j)
    BY DEF Exact
  <1>7. \A j : Line(h, j) = Line(g, j)
    BY DEF Line
  <1>8. h.len * h.count + h.pos = w + g.pos + 1
    OBVIOUS
  <1> HIDE DEF w, n
  <1>9. Len(input') = Len(h.told) + (h.len * h.count + h.pos)
    <2>1. n + (w + g.pos) + 1 = n + (w + g.pos + 1)
      BY <1>1, <1>2
    <2> QED  BY <1>5, <1>6, <1>8, <2>1 DEF n
  <1>10. \A k \in 1..n : h.told[k] \in {input'[k], Garbled}
    <2>1. \A k \in 1..n : k \in 1..Len(input)
      BY <1>1, <1>2, <1>6
    <2> QED  BY <2>1, <1>5, <1>6
  <1>11. ASSUME NEW c \in Nat, NEW j \in 1..g.len, g.len * c + j <= w + g.pos + 1
         PROVE  input'[n + (g.len * c + j)] = Line(g, j)
    <2> DEFINE y == g.len * c
    <2>0. y \in Nat
      BY <1>1
    <2>1. CASE y + j <= w + g.pos
      <3>1. input[n + (g.len * c + j)] = Line(g, j)
        BY <2>1, <1>6
      <3> HIDE DEF y
      <3>2. n + (y + j) \in 1..Len(input)
        BY <2>0, <2>1, <1>1, <1>2, <1>6
      <3> QED  BY <3>1, <3>2, <1>5 DEF y
    <2>2. CASE ~(y + j <= w + g.pos)
      <3> HIDE DEF y
      <3>0. y + j <= w + g.pos + 1
        BY <1>11 DEF y
      <3>1. y + j = w + (g.pos + 1) /\ y + (j - 1) = w + g.pos /\ j - 1 \in 0..g.len - 1
            /\ g.pos \in 0..g.len - 1
        <4>1. \A a, b, d, m \in Nat : \A i \in 1..m :
                ~(a + i <= b + d) /\ a + i <= b + d + 1 /\ d < m =>
                  /\ a + i = b + (d + 1) /\ a + (i - 1) = b + d /\ i - 1 \in 0..m - 1
                  /\ d \in 0..m - 1
          OBVIOUS
        <4>2. g.len \in Nat
          BY <1>1
        <4> QED  BY <2>0, <2>2, <1>1, <1>2, <3>0, <4>1, <4>2
      <3>2. (g.len * c + (j - 1)) % g.len = j - 1 /\ (g.len * g.count + g.pos) % g.len = g.pos
        BY <1>1, <3>1, ModIs
      <3>3. j - 1 = g.pos
        BY <3>1, <3>2 DEF y, w
      <3>4. j = g.pos + 1
        BY <1>1, <3>3
      <3>5. n + (y + j) = Len(input) + 1
        BY <1>1, <1>2, <1>6, <2>0, <3>1
      <3> QED  BY <3>4, <3>5, <1>5 DEF y
    <2> QED  BY <2>1, <2>2
  <1>12. Exact(h, input')
    BY <1>7, <1>8, <1>9, <1>10, <1>11 DEF Exact, n
  <1> QED  BY <1>3, <1>5, <1>12

LEMMA HeldKeeps ==
  ASSUME RingInv, NEW l \in Lines, log_held(l) PROVE RingInv' /\ \E k \in Nat : Offer(k)
  <1> DEFINE g == Follow(l)
             h == [g EXCEPT !.pos = @ + 1]
  <1>1. input' = Append(input, l) /\ g.pos + 1 < g.len /\ Becomes(h)
    BY DEF log_held, Logged
  <1>2. Good(g) /\ Rep(g) /\ Exact(g, input) /\ (g.len > 0 => Line(g, g.pos + 1) = l)
    BY FollowIs
  <1> HIDE DEF g
  <1>3. g \in Filter /\ g.len \in Nat /\ g.pos \in Nat /\ g.count \in Nat
    BY <1>2, FieldsAre
  <1> DEFINE p == g.pos + 1
  <1>31. p \in Nat /\ h = [g EXCEPT !.pos = p]
    BY <1>3 DEF Filter
  <1> HIDE DEF p
  <1>4. /\ h \in Filter /\ h.ring = g.ring /\ h.tail = g.tail /\ h.seen = g.seen /\ h.told = g.told
        /\ h.len = g.len /\ h.pos = p /\ h.count = g.count
    BY <1>3, <1>31 DEF Filter
  <1> HIDE DEF h
  <1>41. h.pos = g.pos + 1
    BY <1>4 DEF p
  <1>5. g.len > 0 /\ Rep(h)
    BY <1>1, <1>3, <1>4, <1>41 DEF Rep
  <1>6. h.len * h.count + h.pos = g.len * g.count + g.pos + 1
    <2>1. g.len * g.count \in Nat
      BY <1>3
    <2>2. \A w \in Nat : w + (g.pos + 1) = w + g.pos + 1
      BY <1>3
    <2> QED  BY <1>4, <1>41, <2>1, <2>2
  <1>7. Good(h) /\ Exact(h, input') /\ input' \in Seq(Lines)
    BY <1>1, <1>2, <1>4, <1>5, <1>6, OneMore
  <1> QED  BY <1>1, <1>5, <1>7, BecomesIs

LEMMA RepeatsKeeps ==
  ASSUME RingInv, NEW l \in Lines, log_repeats(l) PROVE RingInv' /\ \E k \in Nat : Offer(k)
  <1> DEFINE g == Follow(l)
             h == [g EXCEPT !.pos = 0, !.count = @ + 1]
  <1>1. input' = Append(input, l) /\ g.pos + 1 = g.len /\ Becomes(h)
    BY DEF log_repeats, Logged
  <1>2. Good(g) /\ Rep(g) /\ Exact(g, input) /\ (g.len > 0 => Line(g, g.pos + 1) = l)
    BY FollowIs
  <1> HIDE DEF g
  <1>3. g \in Filter /\ g.len \in Nat /\ g.pos \in Nat /\ g.count \in Nat
    BY <1>2, FieldsAre
  <1> DEFINE p == g.count + 1
  <1>31. p \in Nat /\ h = [g EXCEPT !.pos = 0, !.count = p]
    BY <1>3 DEF Filter
  <1> HIDE DEF p
  <1>4. /\ h \in Filter /\ h.ring = g.ring /\ h.tail = g.tail /\ h.seen = g.seen /\ h.told = g.told
        /\ h.len = g.len /\ h.pos = 0 /\ h.count = p
    BY <1>3, <1>31 DEF Filter
  <1> HIDE DEF h
  <1>41. h.count = g.count + 1
    BY <1>4 DEF p
  <1>5. g.len > 0 /\ Rep(h)
    BY <1>1, <1>3, <1>4, <1>41 DEF Rep
  <1>6. h.len * h.count + h.pos = g.len * g.count + g.pos + 1
    <2>1. g.len * g.count \in Nat /\ g.len * (g.count + 1) = g.len * g.count + g.len
      BY <1>3, TimesNext
    <2>2. \A w \in Nat : w + g.len + 0 = w + g.pos + 1
      BY <1>1, <1>3
    <2> QED  BY <1>4, <1>41, <2>1, <2>2
  <1>7. Good(h) /\ Exact(h, input') /\ input' \in Seq(Lines)
    BY <1>1, <1>2, <1>4, <1>5, <1>6, OneMore
  <1> QED  BY <1>1, <1>5, <1>7, BecomesIs


\* log_tick(): what was held too long is logged.
LEMMA HoldKeeps ==
  ASSUME RingInv, tick_hold PROVE RingInv' /\ \E k \in Nat : Offer(k)
  <1>1. /\ Good(Now) /\ Rep(Now) /\ Exact(Now, input) /\ input \in Seq(Lines)
        /\ rep_pos > 0 /\ Becomes(rep_break(Now)) /\ input' = input
    BY DEF RingInv, tick_hold
  <1>2. Now.len > 0
    <2>1. Now.len \in Nat /\ Now.pos \in Nat /\ Now.pos > 0
      BY <1>1, FieldsAre, NowIs
    <2> QED  BY <1>1, <2>1 DEF Rep
  <1> DEFINE b == rep_break(Now)
  <1>3. Good(b) /\ Idle(b) /\ Exact(b, input)
    BY <1>1, <1>2, BreakIs
  <1>4. Rep(b)
    BY <1>3 DEF Rep, Idle
  <1> HIDE DEF b
  <1>5. Becomes(b)
    BY <1>1 DEF b
  <1> QED  BY <1>1, <1>3, <1>4, <1>5, BecomesIs

\* log_tick(): the repetitions are told of.
LEMMA ReportKeepsRing ==
  ASSUME RingInv, tick_report PROVE RingInv' /\ \E k \in Nat : Offer(k)
  <1>1. /\ Good(Now) /\ Rep(Now) /\ Exact(Now, input) /\ input \in Seq(Lines)
        /\ Becomes(rep_flush(Now)) /\ input' = input
    BY DEF RingInv, tick_report
  <1> DEFINE b == rep_flush(Now)
  <1>2. Flushed(Now, b)
    BY <1>1, FlushIs
  <1> HIDE DEF b
  <1>3. Good(b) /\ Rep(b) /\ Exact(b, input)
    BY <1>1, <1>2, FlushExact DEF Flushed
  <1>5. Becomes(b)
    BY <1>1 DEF b
  <1> QED  BY <1>1, <1>3, <1>5, BecomesIs

LEMMA RingStutters ==
  ASSUME RingInv, UNCHANGED <<input, filter>> PROVE RingInv'
  <1>1. Now' = Now /\ input' = input
    BY DEF Now, filter
  <1>2. RingInv' = (Good(Now') /\ Rep(Now') /\ Exact(Now', input') /\ input' \in Seq(Lines))
    BY DEF RingInv, Good, Rep, Exact, Line, Now
  <1> QED  BY <1>1, <1>2 DEF RingInv

\* The log begins with lines that were all told of.
LEMMA RingInit == Init => RingInv
  <1> SUFFICES ASSUME Init PROVE RingInv
    OBVIOUS
  <1>1. input \in Seq(Lines) /\ Len(input) \in Nat
    BY Consts DEF Init
  <1>2. /\ told = input /\ ring = input /\ rep_len = 0 /\ rep_pos = 0 /\ rep_count = 0
        /\ tail = IF Len(input) > RingLines THEN Len(input) - RingLines + 1 ELSE 1
        /\ seen = [k \in 1..Len(input) |-> [at |-> k, line |-> input[k]]]
    BY <1>1 DEF Init
  <1>3. /\ \A k \in 1..Len(input) : [at |-> k, line |-> input[k]] \in Entry
        /\ \A k \in 1..Len(input) : seen[k].at = k /\ seen[k].line = input[k]
    BY <1>1, <1>2 DEF Entry
  <1>4. seen \in Seq(Entry) /\ Len(seen) = Len(input)
    BY <1>1, <1>2, <1>3
  <1>5. tail \in 1..Len(input) + 1 /\ Len(input) - tail < RingLines /\ tail \in Nat
    BY <1>1, <1>2, Consts
  <1>6. ring \in Seq(Texts) /\ told \in Seq(Texts)
    BY <1>1, <1>2 DEF Texts
  <1>7. Now \in Filter
    <2>1. rep_len \in 0..LOG_REPEAT /\ rep_pos \in Nat /\ rep_count \in Nat
      BY <1>2, Consts
    <2> QED  BY <1>4, <1>5, <1>6, <2>1 DEF Now, Filter
  <1>8. Good(Now)
    <2>1. Now.len <= Len(Now.seen)
      BY <1>1, <1>2, <1>4, NowIs
    <2>2. ASSUME NEW k \in 1..Len(Now.seen)
          PROVE  /\ Now.seen[k].at \in 1..Len(Now.ring)
                 /\ Now.ring[Now.seen[k].at] \in {Now.seen[k].line, Garbled}
      <3>1. k \in 1..Len(input) /\ Now.seen[k].at = k /\ Now.seen[k].line = input[k] /\ Now.ring = input
        BY <1>2, <1>3, <1>4, NowIs
      <3> QED  BY <3>1
    <2>3. Now.tail \in 1..Len(Now.ring) + 1 /\ Len(Now.ring) - Now.tail < RingLines
      BY <1>2, <1>5, NowIs
    <2> QED  BY <1>7, <2>1, <2>2, <2>3 DEF Good
  <1>9. Now.told = input /\ Now.len = 0 /\ Now.pos = 0 /\ Now.count = 0
    BY <1>2, NowIs
  <1>10. Rep(Now)
    BY <1>9 DEF Rep
  <1>11. Exact(Now, input)
    <2>1. Len(input) = Len(input) + (0 * 0 + 0)
      BY <1>1
    <2> QED  BY <1>9, <2>1 DEF Exact
  <1> QED  BY <1>1, <1>8, <1>10, <1>11 DEF RingInv

LEMMA RingStep ==
  ASSUME RingInv, [Next]_vars
  PROVE  RingInv' /\ [ConAll]_conVars
  <1>1. CASE ninit_log
    <2>1. RingInv' /\ \E k \in Nat : Offer(k)
      BY <1>1, NewKeeps, HeldKeeps, RepeatsKeeps DEF ninit_log
    <2> QED  BY <2>1 DEF ConAll
  <1>2. CASE log_tick
    <2>1. RingInv' /\ \E k \in Nat : Offer(k)
      BY <1>2, HoldKeeps, ReportKeepsRing DEF log_tick
    <2> QED  BY <2>1 DEF ConAll
  <1>3. CASE ConNext /\ UNCHANGED <<hash, more, input, filter>>
    <2>1. RingInv'
      BY <1>3, RingStutters
    <2> QED  BY <1>3, <2>1 DEF ConAll
  <1>4. CASE UNCHANGED vars
    <2>1. RingInv'
      BY <1>4, RingStutters DEF vars
    <2>2. UNCHANGED conVars
      BY <1>4 DEF vars
    <2> QED  BY <2>1, <2>2
  <1> QED  BY <1>1, <1>2, <1>3, <1>4 DEF Next

\* What the reader has of the ring and of what is held.
LEMMA RingTells == RingInv => NothingLost
  <1> SUFFICES ASSUME RingInv PROVE NothingLost
    OBVIOUS
  <1> DEFINE n == Len(told)
             w == rep_len * rep_count + rep_pos
             all == told \o Held
  <1>1. Good(Now) /\ Rep(Now) /\ Exact(Now, input)
    BY DEF RingInv
  <1>2. /\ told \in Seq(Texts) /\ n \in Nat /\ rep_len \in Nat /\ rep_pos \in Nat /\ rep_count \in Nat
        /\ seen \in Seq(Entry) /\ Len(seen) \in Nat /\ rep_len <= Len(seen)
        /\ \A k \in 1..Len(seen) : seen[k].line \in Lines
    BY <1>1, FieldsAre, NowIs
  <1>3. w \in Nat
    <2>1. rep_len * rep_count \in Nat
      BY <1>2
    <2> QED  BY <1>2, <2>1
  <1>4. w > 0 => rep_len \in Nat \ {0}
    <2>1. rep_len = 0 => rep_pos = 0 /\ rep_count = 0
      BY <1>1, NowIs DEF Rep
    <2>2. rep_len = 0 => w = 0
      BY <2>1
    <2> HIDE DEF w
    <2> QED  BY <1>2, <2>2
  <1>5. /\ Len(input) = n + w
        /\ \A k \in 1..n : told[k] \in {input[k], Garbled}
        /\ \A c \in Nat : \A j \in 1..rep_len :
             rep_len * c + j <= w => input[n + (rep_len * c + j)] = Line(Now, j)
    BY <1>1, NowIs DEF Exact
  <1>6. \A j \in 1..rep_len : Block[j] = Line(Now, j) /\ Block[j] \in Lines
    <2>1. \A j \in 1..rep_len : Len(seen) - rep_len + j \in 1..Len(seen)
      BY <1>2
    <2> QED  BY <1>2, <2>1, NowIs DEF Block, Line
  <1>7. Held = [k \in 1..w |-> Block[1 + ((k - 1) % rep_len)]]
    BY DEF Held
  <1> HIDE DEF w, n
  <1>8. ASSUME NEW k \in 1..w PROVE Held[k] = input[n + k] /\ Held[k] \in Texts
    <2>1. k \in Nat \ {0} /\ rep_len \in Nat \ {0}
      BY <1>3, <1>4
    <2>2. PICK c \in Nat, j \in 1..rep_len : k = rep_len * c + j /\ (k - 1) % rep_len = j - 1
      BY <2>1, TurnIs
    <2>3. 1 + (j - 1) = j
      BY <2>1
    <2>4. Held[k] = Block[j]
      BY <1>7, <2>2, <2>3
    <2>5. input[n + k] = Line(Now, j)
      BY <1>3, <1>5, <2>2
    <2> QED  BY <1>6, <2>4, <2>5 DEF Texts
  <1>9. Held \in Seq(Texts) /\ Len(Held) = w
    <2>1. \A k \in 1..w : Block[1 + ((k - 1) % rep_len)] \in Texts
      BY <1>7, <1>8
    <2> QED  BY <1>3, <1>7, <2>1
  <1>10. /\ Len(all) = n + w
         /\ \A k \in 1..n : all[k] = told[k]
         /\ \A k \in 1..w : all[n + k] = Held[k]
    BY <1>2, <1>3, <1>9 DEF n
  <1> HIDE DEF all
  <1>11. ASSUME NEW k \in 1..Len(all) PROVE all[k] \in {input[k], Garbled}
    <2>1. CASE k <= n
      <3>1. k \in 1..n
        BY <2>1
      <3> QED  BY <3>1, <1>5, <1>10
    <2>2. CASE ~(k <= n)
      <3> DEFINE i == k - n
      <3>1. i \in 1..w /\ k = n + i
        BY <2>2, <1>2, <1>3, <1>10
      <3> HIDE DEF i
      <3> QED  BY <3>1, <1>8, <1>10
    <2> QED  BY <2>1, <2>2
  <1> QED  BY <1>5, <1>10, <1>11 DEF NothingLost, all

-----------------------------------------------------------------------------
(* Theorems *)

\* However many lines are logged, with whatever collisions of their hashes, and however
\* rep_flush(), rep_break() and log_tick() come in between: the ring, with what is held,
\* tells of every line once and in order.
THEOREM LogTells == Spec => []NothingLost
  <1> QED  BY RingInit, RingStep, RingTells, PTL DEF Spec

\* The console of a log counts what it loses, whatever the log gives it.
THEOREM LogCounts == Spec => []LossIsCounted
  <1>1. Init => ConInv
    BY ConInitInv DEF Init
  <1>2. RingInv /\ ConInv /\ [Next]_vars => RingInv' /\ ConInv'
    BY RingStep, ConStep
  <1>3. ConInv => LossIsCounted
    BY DEF ConInv
  <1> QED  BY <1>1, <1>2, <1>3, RingInit, PTL DEF Spec

\* The types of the log, and that the ring holds no more than it has room for.
THEOREM LogTypes == Spec => []TypeOK
  <1>1. Init => ConInv
    BY ConInitInv DEF Init
  <1>2. RingInv /\ ConInv /\ [Next]_vars => RingInv' /\ ConInv'
    BY RingStep, ConStep
  <1>3. RingInv /\ ConInv => TypeOK
    <2> SUFFICES ASSUME RingInv, ConInv PROVE TypeOK
      OBVIOUS
    <2>1. ConTypeOK
      BY DEF ConInv, Counts, ConTypeOK
    <2>2. Good(Now) /\ Rep(Now)
      BY DEF RingInv
    <2>3. /\ rep_len \in 0..LOG_REPEAT /\ rep_len \in Nat /\ rep_pos \in Nat
          /\ (rep_len = 0 => rep_pos = 0) /\ (rep_len > 0 => rep_pos < rep_len)
      BY <2>2, FieldsAre, NowIs DEF Rep
    <2>4. rep_pos \in 0..rep_len
      BY <2>3
    <2>5. tail \in 1..Len(ring) + 1 /\ Len(ring) - tail < RingLines
      BY <2>2, NowIs DEF Good
    <2> QED  BY <2>1, <2>3, <2>4, <2>5 DEF TypeOK
  <1> QED  BY <1>1, <1>2, <1>3, RingInit, PTL DEF Spec
=============================================================================
