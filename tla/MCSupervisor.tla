---------------------------- MODULE MCSupervisor ----------------------------
(***************************************************************************)
(* Small graphs for Supervisor.tla.  A service is its place in the tuple.  *)
(***************************************************************************)
EXTENDS Supervisor

\* A daemon that a oneshot and a target need, the target through the oneshot too.
FanType == <<"daemon", "oneshot", "target">>
FanRdep == <<{2, 3}, {3}, {}>>
FanTries == <<2, 1, 1>>

\* A plain daemon and a target that nothing comes before; two targets in a row between a
\* oneshot that is tried twice and a restarted daemon.
DeepType == <<"daemon", "target", "oneshot", "target", "target", "daemon">>
DeepRdep == <<{3}, {6}, {4, 6}, {5}, {6}, {}>>
DeepTries == <<1, 1, 2, 1, 1, 2>>

\* Two services, the second on the first.
PairRdep == <<{2}, {}>>
DaemonOneshot == <<"daemon", "oneshot">>
RootTries == <<2, 1>>

\* One service.
OneRdep == <<{}>>
OneOneshot == <<"oneshot">>
TwoTries == <<2>>
=============================================================================
