---------------------------- MODULE ServiceFile ----------------------------
(***************************************************************************)
(* What ninitctl makes of one service file: parse_src() and what it calls. *)
(*                                                                         *)
(* A file is a record: its name; header, the directives of its #% lines in *)
(* order; code, whether it has commands; nul, whether it holds a NUL byte; *)
(* lang and size, what lang_select() and store() make of the commands;     *)
(* words, the lengths of the words it is executed with: the interpreter's  *)
(* of another language than the shell's, or those of a bare exec line.     *)
(* A directive is [key, is] or, where a number follows, [key, n] or        *)
(* [key, n, unit]; -1 stands for what is no number.                        *)
(***************************************************************************)
EXTENDS Integers, Sequences

NG_MAX_MS == 86400000
NG_MAX_TRIES == 250
NG_MAX_SCRIPT == 131071
NG_MAX_INTERP == 255
NG_MAX_EXEC_ARGS == 16
NG_MAX_EXEC_ARG == 4096
NG_NOTIFY_MIN == 3
NG_NOTIFY_MAX == 255
UINT16_MAX == 65535

DefaultSrc ==
  [type |-> "target", have_type |-> FALSE, onfail |-> "none", restart |-> FALSE, notify |-> 0,
   start_ms |-> 0, stop_ms |-> 0, retry_ms |-> 0, start_tries |-> 0, order |-> FALSE,
   depon |-> {}, depof |-> {}, lang |-> "shell", script |-> -1, exec |-> <<>>, bad |-> FALSE]

Die(s) == [s EXCEPT !.bad = TRUE]

mul(unit) == CASE unit = "ms" -> 1 [] unit = "s" -> 1000 [] unit = "m" -> 60000
               [] unit = "h" -> 3600000 [] OTHER -> 0

\* Milliseconds, or -1: refused.  The product is only taken when it fits.
parse_ms(d) ==
  IF d.n < 0 \/ mul(d.unit) = 0 THEN -1
  ELSE IF d.n > NG_MAX_MS \div mul(d.unit) \/ d.n = 0 THEN -1
  ELSE d.n * mul(d.unit)

\* One directive: a later one of the same key replaces what an earlier one said.
directive(s, d, fname) ==
  CASE d.key = "name" -> IF d.is = fname THEN s ELSE Die(s)
    [] d.key = "depon" -> [s EXCEPT !.depon = @ \union d.is]
    [] d.key = "depof" -> [s EXCEPT !.depof = @ \union d.is]
    [] d.key = "onfail" ->
         IF d.is \in {"warn", "stop", "shell"} THEN [s EXCEPT !.onfail = d.is] ELSE Die(s)
    [] d.key = "restart" ->
         IF d.is \in {"always", "no", "never"} THEN [s EXCEPT !.restart = d.is = "always"] ELSE Die(s)
    [] d.key = "notify" ->
         IF d.n \in NG_NOTIFY_MIN..NG_NOTIFY_MAX THEN [s EXCEPT !.notify = d.n] ELSE Die(s)
    [] d.key = "start-timeout" ->
         IF parse_ms(d) >= 0 THEN [s EXCEPT !.start_ms = parse_ms(d)] ELSE Die(s)
    [] d.key = "stop-timeout" ->
         IF parse_ms(d) >= 0 THEN [s EXCEPT !.stop_ms = parse_ms(d)] ELSE Die(s)
    [] d.key = "start-delay" ->
         IF parse_ms(d) \in 0..UINT16_MAX THEN [s EXCEPT !.retry_ms = parse_ms(d)] ELSE Die(s)
    [] d.key = "start-tries" ->
         IF d.n \in 1..NG_MAX_TRIES THEN [s EXCEPT !.start_tries = d.n] ELSE Die(s)
    [] d.key = "deps" ->
         IF d.is \in {"uptime", "order"} THEN [s EXCEPT !.order = d.is = "order"] ELSE Die(s)
    [] d.key = "type" ->
         IF d.is \in {"oneshot", "daemon", "target"}
         THEN [s EXCEPT !.type = d.is, !.have_type = TRUE] ELSE Die(s)
    [] OTHER -> Die(s)

parse_header(f) ==
  LET P[k \in 0..Len(f.header)] ==
        IF k = 0 THEN DefaultSrc
        ELSE IF P[k - 1].bad THEN P[k - 1] ELSE directive(P[k - 1], f.header[k], f.name)
  IN  P[Len(f.header)]

\* The words after the command or the interpreter.
ArgsFit(words) == \A k \in 2..Len(words) : words[k] <= NG_MAX_EXEC_ARG

\* The words of a bare exec line, or none: then the shell runs it.
detect_direct(words) ==
  IF words = <<>> \/ Len(words) > NG_MAX_EXEC_ARGS \/ ~ArgsFit(words) \/ words[1] > NG_MAX_INTERP
  THEN <<>> ELSE words

\* resolve() refuses a long path, the others are counted and measured.
check_exec_args(words) ==
  /\ words[1] <= NG_MAX_INTERP
  /\ Len(words) <= NG_MAX_EXEC_ARGS
  /\ ArgsFit(words)

\* What is checked once the header is read.
parse_body(s, f) ==
  LET t == IF s.have_type THEN s.type ELSE IF f.code THEN "oneshot" ELSE "target"
  IN  CASE s.bad \/ f.nul -> Die(s)
        [] (s.notify > 0 \/ s.restart) /\ t # "daemon" -> Die(s)
        [] (t = "target") = f.code -> Die(s)
        [] t = "target" -> [s EXCEPT !.type = t]
        [] f.size > NG_MAX_SCRIPT -> Die(s)
        [] f.lang # "shell" /\ ~check_exec_args(f.words) -> Die(s)
        [] OTHER -> [s EXCEPT !.type = t, !.script = f.size, !.lang = f.lang,
                              !.exec = IF f.lang = "shell" THEN detect_direct(f.words) ELSE f.words]

parse_src(f) == parse_body(parse_header(f), f)
=============================================================================
