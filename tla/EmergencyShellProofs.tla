------------------------ MODULE EmergencyShellProofs ------------------------
(***************************************************************************)
(* What EmergencyShell.tla keeps for all limits: no counter passes its     *)
(* limit, the pipe is that of the running shell, a shell that was asked    *)
(* for is not forgotten, and giving up is final.                           *)
(***************************************************************************)
EXTENDS EmergencyShell, TLAPS

\* A counter that has reached its limit has led to giving up, so the next increment
\* stays within the limit; after giving up a shell may still run, but only one more
\* exit is to come.
Limits ==
  /\ ~e.gone => /\ e.fast < EMERG_FAST_MAX
                /\ e.fail < EMERG_FAIL_MAX
                /\ e.noexec < EMERG_NOEXEC_MAX
  /\ e.pid => e.fast < EMERG_FAST_MAX
  /\ e.bar # "closed" => e.noexec < EMERG_NOEXEC_MAX

IInv == TypeOK /\ Limits /\ PipeOfShell /\ ShellPursued

-----------------------------------------------------------------------------

\* A counter at zero is within its limit.
LEMMA ZeroWithin ==
  0 \in 0..EMERG_FAST_MAX /\ 0 \in 0..EMERG_FAIL_MAX /\ 0 \in 0..EMERG_NOEXEC_MAX
  BY LimitsAssumption

LEMMA InitIInv == Init => IInv
  <1> SUFFICES ASSUME Init PROVE IInv
    OBVIOUS
  <1>1. e \in Shell
    BY ZeroWithin DEF Init, Shell
  <1>2. asked \in BOOLEAN /\ lasting \in BOOLEAN
    BY DEF Init
  <1>3. Limits
    BY LimitsAssumption DEF Init, Limits
  <1>4. PipeOfShell /\ ShellPursued
    BY DEF Init, PipeOfShell, ShellPursued
  <1> QED  BY <1>1, <1>2, <1>3, <1>4 DEF IInv, TypeOK

\* The part of the invariant that is about one state s of the shell.
Sound(s) ==
  /\ s \in Shell
  /\ ~s.gone => /\ s.fast < EMERG_FAST_MAX
                /\ s.fail < EMERG_FAIL_MAX
                /\ s.noexec < EMERG_NOEXEC_MAX
  /\ s.pid => s.fast < EMERG_FAST_MAX
  /\ s.bar # "closed" => s.noexec < EMERG_NOEXEC_MAX /\ s.pid
  /\ s.conf_at => s.bar # "closed"

Pursued(s) == s.pid \/ s.retry_at \/ s.gone

LEMMA SoundIsIInv ==
  IInv <=> Sound(e) /\ (asked => Pursued(e)) /\ asked \in BOOLEAN /\ lasting \in BOOLEAN
  BY DEF IInv, TypeOK, Limits, PipeOfShell, ShellPursued, Sound, Pursued

\* One more start that failed is within the limit.
LEMMA RestartSound ==
  ASSUME NEW s, Sound(s), NEW ok \in BOOLEAN, ~s.pid, ~s.gone
  PROVE  Sound(emerg_restart(s, ok)) /\ Pursued(emerg_restart(s, ok))
  <1> USE LimitsAssumption
  <1>1. /\ s.fail \in Nat /\ s.fail + 1 \in 0..EMERG_FAIL_MAX
        /\ s.bar = "closed" /\ ~s.conf_at
    BY DEF Sound, Shell
  <1>2. CASE ok
    <2>1. emerg_restart(s, ok) = [s EXCEPT !.pid = TRUE, !.bar = "silent", !.conf_at = TRUE]
      BY <1>1, <1>2 DEF emerg_restart
    <2> QED  BY <1>1, <2>1 DEF Sound, Pursued, Shell
  <1>3. CASE ~ok /\ s.fail + 1 >= EMERG_FAIL_MAX
    <2>1. emerg_restart(s, ok) = [s EXCEPT !.fail = @ + 1, !.gone = TRUE]
      BY <1>1, <1>3 DEF emerg_restart
    <2> QED  BY <1>1, <2>1 DEF Sound, Pursued, Shell
  <1>4. CASE ~ok /\ s.fail + 1 < EMERG_FAIL_MAX
    <2>1. emerg_restart(s, ok) = [s EXCEPT !.fail = @ + 1, !.retry_at = TRUE]
      BY <1>1, <1>4 DEF emerg_restart
    <2> QED  BY <1>1, <1>4, <2>1 DEF Sound, Pursued, Shell
  <1> QED  BY <1>1, <1>2, <1>3, <1>4

\* What is left when the pipe's last word how has been read and the pipe closed.
LEMMA SettleSound ==
  ASSUME NEW s \in Shell, NEW how \in Reports, s.noexec < EMERG_NOEXEC_MAX
  PROVE  LET t == emerg_settle(emerg_bar_close(s), how) IN
         /\ t \in Shell
         /\ t.pid = s.pid /\ t.bar = "closed" /\ t.conf_at = FALSE
         /\ t.retry_at = s.retry_at /\ t.fast = s.fast
         /\ s.gone => t.gone
         /\ ~t.gone => /\ t.noexec < EMERG_NOEXEC_MAX
                       /\ s.fail < EMERG_FAIL_MAX => t.fail < EMERG_FAIL_MAX
  <1> USE LimitsAssumption
  <1> DEFINE c == emerg_bar_close(s)
  <1>1. /\ c \in Shell /\ c.pid = s.pid /\ c.bar = "closed" /\ c.conf_at = FALSE
        /\ c.retry_at = s.retry_at /\ c.fast = s.fast /\ c.gone = s.gone
        /\ c.noexec = s.noexec /\ c.fail = s.fail
    BY DEF emerg_bar_close, Shell
  <1>2. c.noexec \in Nat /\ c.noexec + 1 \in 0..EMERG_NOEXEC_MAX
    BY <1>1 DEF Shell
  <1> HIDE DEF c
  <1>3. CASE how = "failed"
    <2>1. emerg_settle(c, how) = [c EXCEPT !.noexec = @ + 1,
                                           !.gone = @ \/ c.noexec + 1 >= EMERG_NOEXEC_MAX]
      BY <1>3 DEF emerg_settle
    <2> DEFINE t == emerg_settle(c, how)
    <2>2. t \in Shell
      BY <1>1, <1>2, <2>1 DEF Shell
    <2>3. /\ t.pid = c.pid /\ t.bar = c.bar /\ t.conf_at = c.conf_at
          /\ t.retry_at = c.retry_at /\ t.fast = c.fast /\ t.fail = c.fail
          /\ t.noexec = c.noexec + 1
      BY <1>1, <2>1 DEF Shell
    <2>4. t.gone <=> c.gone \/ c.noexec + 1 >= EMERG_NOEXEC_MAX
      BY <1>1, <2>1 DEF Shell
    <2> HIDE DEF t
    <2>5. ~t.gone => t.noexec < EMERG_NOEXEC_MAX
      BY <1>2, <2>3, <2>4
    <2> QED  BY <1>1, <2>2, <2>3, <2>4, <2>5 DEF t, c
  <1>4. CASE how = "unknown"
    <2>1. emerg_settle(c, how) = [c EXCEPT !.fail = 0]
      BY <1>4 DEF emerg_settle
    <2> QED  BY <1>1, <1>2, <2>1, ZeroWithin DEF c, Shell
  <1>5. CASE how = "ok"
    <2>1. emerg_settle(c, how) = [c EXCEPT !.fail = 0, !.noexec = 0]
      BY <1>5 DEF emerg_settle
    <2> DEFINE t == emerg_settle(c, how)
    <2>2. t \in Shell
      BY <1>1, <2>1, ZeroWithin DEF Shell
    <2>3. /\ t.pid = c.pid /\ t.bar = c.bar /\ t.conf_at = c.conf_at
          /\ t.retry_at = c.retry_at /\ t.fast = c.fast /\ t.gone = c.gone
          /\ t.fail = 0 /\ t.noexec = 0
      BY <1>1, <2>1 DEF Shell
    <2> HIDE DEF t
    <2> QED  BY <1>1, <2>2, <2>3 DEF t, c
  <1> QED  BY <1>3, <1>4, <1>5 DEF Reports

\* What is left of a shell that was reaped.
LEMMA ClosedSound ==
  ASSUME NEW s, Sound(s), s.pid
  PROVE  LET t == Closed(s) IN
         /\ t \in Shell
         /\ t.pid = FALSE /\ t.bar = "closed" /\ t.conf_at = FALSE
         /\ t.fast = s.fast
         /\ s.gone => t.gone
         /\ ~t.gone => t.fail < EMERG_FAIL_MAX /\ t.noexec < EMERG_NOEXEC_MAX
  <1> DEFINE d == [s EXCEPT !.pid = FALSE, !.bar = IF @ = "silent" THEN "ok" ELSE @]
  <1>1. /\ d \in Shell /\ d.pid = FALSE /\ d.bar \in Reports \cup {"closed"}
        /\ d.fast = s.fast /\ d.gone = s.gone /\ d.noexec = s.noexec /\ d.fail = s.fail
        /\ d.bar = "closed" <=> s.bar = "closed"
        /\ d.conf_at = s.conf_at
    BY DEF Sound, Shell, Reports
  <1>2. Closed(s) = emerg_bar_close(fail_emergency_report(d))
    BY DEF Closed
  <1> HIDE DEF d
  <1>3. CASE d.bar \in Reports
    <2> DEFINE t == emerg_settle(emerg_bar_close(d), d.bar)
    <2>1. Closed(s) = emerg_bar_close(t)
      BY <1>2, <1>3 DEF fail_emergency_report
    <2>2. d.noexec < EMERG_NOEXEC_MAX
      BY <1>1, <1>3 DEF Sound, Reports
    <2>3. /\ t \in Shell
          /\ t.pid = d.pid /\ t.bar = "closed" /\ t.conf_at = FALSE /\ t.fast = d.fast
          /\ d.gone => t.gone
          /\ ~t.gone => /\ t.noexec < EMERG_NOEXEC_MAX
                        /\ d.fail < EMERG_FAIL_MAX => t.fail < EMERG_FAIL_MAX
      BY <1>1, <1>3, <2>2, SettleSound
    <2> HIDE DEF t
    <2>4. ~t.gone => d.fail < EMERG_FAIL_MAX
      BY <1>1, <2>3 DEF Sound
    <2> QED  BY <1>1, <2>1, <2>3, <2>4 DEF emerg_bar_close, Shell
  <1>4. CASE d.bar = "closed"
    <2>1. Closed(s) = emerg_bar_close(d)
      BY <1>2, <1>4 DEF fail_emergency_report, Reports
    <2> QED  BY <1>1, <2>1, <1>4 DEF emerg_bar_close, Sound, Shell
  <1> QED  BY <1>1, <1>3, <1>4

\* fail_emergency_reaped(), of the shell only.
LEMMA ReapedSound ==
  ASSUME Sound(e), NEW quick \in BOOLEAN, fail_emergency_reaped(quick)
  PROVE  /\ Sound(e') /\ Pursued(e')
         /\ e.gone => e'.gone /\ ~e'.pid
  <1> USE LimitsAssumption
  <1> DEFINE c == Closed(e)
             s == [c EXCEPT !.fast = IF quick THEN @ + 1 ELSE 0]
  <1>1. /\ c \in Shell /\ c.pid = FALSE /\ c.bar = "closed" /\ c.conf_at = FALSE
        /\ c.fast = e.fast
        /\ e.gone => c.gone
        /\ ~c.gone => c.fail < EMERG_FAIL_MAX /\ c.noexec < EMERG_NOEXEC_MAX
    BY ClosedSound DEF fail_emergency_reaped
  <1>2. e.fast \in Nat /\ e.fast < EMERG_FAST_MAX
    BY DEF fail_emergency_reaped, Sound, Shell
  <1>3. IF quick /\ s.fast >= EMERG_FAST_MAX
        THEN e' = [s EXCEPT !.gone = TRUE]
        ELSE \E ok \in BOOLEAN : e' = IF s.gone THEN s ELSE emerg_restart(s, ok)
    BY DEF fail_emergency_reaped
  <1> HIDE DEF c
  <1>4. (IF quick THEN c.fast + 1 ELSE 0) \in 0..EMERG_FAST_MAX
    BY <1>1, <1>2, ZeroWithin
  <1>5. /\ s \in Shell /\ s.pid = FALSE /\ s.bar = "closed" /\ s.conf_at = FALSE
        /\ s.fast = IF quick THEN c.fast + 1 ELSE 0
        /\ s.gone = c.gone /\ s.fail = c.fail /\ s.noexec = c.noexec
    BY <1>1, <1>4 DEF Shell
  <1>6. ~(quick /\ s.fast >= EMERG_FAST_MAX) => s.fast < EMERG_FAST_MAX
    BY <1>1, <1>2, <1>5
  <1> HIDE DEF s
  <1>7. CASE quick /\ s.fast >= EMERG_FAST_MAX
    <2>1. e' = [s EXCEPT !.gone = TRUE]
      BY <1>3, <1>7
    <2> QED  BY <1>5, <2>1 DEF Sound, Pursued, Shell
  <1>8. CASE ~(quick /\ s.fast >= EMERG_FAST_MAX)
    <2>1. PICK ok \in BOOLEAN : e' = IF s.gone THEN s ELSE emerg_restart(s, ok)
      BY <1>3, <1>8
    <2>2. CASE s.gone
      BY <1>5, <2>1, <2>2 DEF Sound, Pursued
    <2>3. CASE ~s.gone
      <3>1. Sound(s)
        BY <1>1, <1>5, <1>6, <1>8, <2>3 DEF Sound
      <3>2. ~e.gone
        BY <1>1, <1>5, <2>3
      <3> QED  BY <1>5, <2>1, <2>3, <3>1, <3>2, RestartSound
    <2> QED  BY <2>2, <2>3
  <1> QED  BY <1>7, <1>8

\* Every step, of the shell only, with what giving up means for it.
LEMMA NextSound ==
  ASSUME Sound(e), asked => Pursued(e), Next
  PROVE  /\ Sound(e') /\ (asked' => Pursued(e'))
         /\ e.gone => e'.gone /\ (e'.pid => e.pid)
  <1> USE LimitsAssumption
  <1>1. CASE fail_emergency_shell
    <2>1. PICK ok \in BOOLEAN : e' = IF e.gone \/ e.pid THEN e ELSE emerg_restart(e, ok)
      BY <1>1 DEF fail_emergency_shell
    <2>2. CASE e.gone \/ e.pid
      BY <2>1, <2>2 DEF Pursued
    <2>3. CASE ~(e.gone \/ e.pid)
      BY <2>1, <2>3, RestartSound
    <2> QED  BY <2>2, <2>3
  <1>2. CASE Report
    <2> DEFINE t == emerg_settle(emerg_bar_close(e), e.bar)
    <2>1. e' = t /\ e.bar \in Reports /\ asked' = asked
      BY <1>2 DEF Report, fail_emergency_report
    <2>2. e \in Shell /\ e.noexec < EMERG_NOEXEC_MAX
      BY <2>1 DEF Sound, Reports
    <2>3. /\ t \in Shell
          /\ t.pid = e.pid /\ t.bar = "closed" /\ t.conf_at = FALSE
          /\ t.retry_at = e.retry_at /\ t.fast = e.fast
          /\ e.gone => t.gone
          /\ ~t.gone => /\ t.noexec < EMERG_NOEXEC_MAX
                        /\ e.fail < EMERG_FAIL_MAX => t.fail < EMERG_FAIL_MAX
      BY <2>1, <2>2, SettleSound
    <2> HIDE DEF t
    <2> QED  BY <2>1, <2>3 DEF Sound, Pursued
  <1>3. CASE tick_conf
    <2>1. e' = [e EXCEPT !.conf_at = FALSE, !.fail = 0] /\ asked' = asked
      BY <1>3 DEF tick_conf, emerg_settle, Sound, Shell
    <2>2. e' \in Shell
      BY <2>1, ZeroWithin DEF Sound, Shell
    <2>3. /\ e'.pid = e.pid /\ e'.bar = e.bar /\ e'.conf_at = FALSE
          /\ e'.retry_at = e.retry_at /\ e'.fast = e.fast /\ e'.gone = e.gone
          /\ e'.fail = 0 /\ e'.noexec = e.noexec
      BY <2>1 DEF Sound, Shell
    <2> QED  BY <2>1, <2>2, <2>3 DEF Sound, Pursued
  <1>4. CASE tick_retry
    <2> DEFINE s == [e EXCEPT !.retry_at = FALSE]
    <2>1. PICK ok \in BOOLEAN : e' = IF s.pid THEN s ELSE emerg_restart(s, ok)
      BY <1>4 DEF tick_retry
    <2>2. Sound(s) /\ s.pid = e.pid /\ s.gone = e.gone
      BY DEF Sound, Shell
    <2>3. ~e.gone
      BY <1>4 DEF tick_retry
    <2> HIDE DEF s
    <2>4. CASE s.pid
      BY <2>1, <2>2, <2>3, <2>4 DEF Pursued
    <2>5. CASE ~s.pid
      BY <2>1, <2>2, <2>3, <2>5, RestartSound
    <2> QED  BY <2>4, <2>5
  <1>5. ASSUME NEW quick \in BOOLEAN, fail_emergency_reaped(quick)
        PROVE  /\ Sound(e') /\ Pursued(e')
               /\ e.gone => e'.gone /\ ~e'.pid
    BY <1>5, ReapedSound
  <1>6. ASSUME NEW how \in Reports, ChildReports(how)
        PROVE  /\ Sound(e') /\ (asked' => Pursued(e'))
               /\ e.gone => e'.gone /\ (e'.pid => e.pid)
    <2>1. e' = [e EXCEPT !.bar = how] /\ e.pid /\ e.bar = "silent" /\ asked' = asked
      BY <1>6 DEF ChildReports
    <2> QED  BY <2>1 DEF Sound, Pursued, Shell, Reports
  <1> QED  BY <1>1, <1>2, <1>3, <1>4, <1>5, <1>6 DEF Next, fail_emergency_tick

LEMMA NextIInv == IInv /\ [Next]_vars => IInv'
  <1> SUFFICES ASSUME IInv, [Next]_vars PROVE IInv'
    OBVIOUS
  <1>1. CASE Next
    <2>1. Sound(e') /\ (asked' => Pursued(e'))
      BY <1>1, SoundIsIInv, NextSound
    <2>2. asked' \in BOOLEAN /\ lasting' \in BOOLEAN
      BY <1>1
      DEF IInv, TypeOK, Next, fail_emergency_shell, Report, fail_emergency_tick, tick_conf,
          tick_retry, fail_emergency_reaped, ChildReports
    <2> QED
      BY <2>1, <2>2 DEF IInv, TypeOK, Limits, PipeOfShell, ShellPursued, Sound, Pursued
  <1>2. CASE UNCHANGED vars
    BY <1>2 DEF vars, IInv, TypeOK, Limits, PipeOfShell, ShellPursued
  <1> QED  BY <1>1, <1>2

LEMMA AlwaysIInv == Spec => []IInv
  BY InitIInv, NextIInv, PTL DEF Spec

-----------------------------------------------------------------------------

\* The variables keep their types: each counter of emerg_settle(), emerg_restart() and
\* fail_emergency_reaped() stays within its limit, and so within its uint8_t.
THEOREM ShellTypes == Spec => []TypeOK
  BY AlwaysIInv, PTL DEF IInv

\* emerg_start() never stores a new pipe over an open one, and no deadline outlives the
\* shell it was set for.
THEOREM ShellPipe == Spec => []PipeOfShell
  BY AlwaysIInv, PTL DEF IInv

\* After fail_emergency_shell() there is a shell, a retry, or the decision to give up.
THEOREM ShellNotForgotten == Spec => []ShellPursued
  BY AlwaysIInv, PTL DEF IInv

\* Once emerg_gone is set it stays set and no handler starts a shell.
THEOREM ShellGivenUp == Spec => GivenUpIsFinal
  <1>1. IInv /\ [Next]_vars => [e.gone => e'.gone /\ (e'.pid => e.pid)]_vars
    BY SoundIsIInv, NextSound
  <1> QED  BY <1>1, AlwaysIInv, PTL DEF Spec, GivenUpIsFinal
=============================================================================
