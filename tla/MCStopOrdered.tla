---------------------------- MODULE MCStopOrdered ----------------------------
(***************************************************************************)
(* A graph for StopOrdered.tla: a daemon that a oneshot and a target need, *)
(* a daemon that needs both of these, and one that needs the oneshot.      *)
(***************************************************************************)
EXTENDS StopOrdered

DiamondType == <<"daemon", "oneshot", "target", "daemon", "daemon">>
DiamondRdep == <<{2, 3}, {4, 5}, {4}, {}, {}>>
DiamondTries == <<1, 1, 1, 1, 1>>
=============================================================================
