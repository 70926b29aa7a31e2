-------------------------- MODULE MCEmergencyShell --------------------------
(***************************************************************************)
(* EmergencyShell.tla with the limits of fail.c, given in shell.cfg.       *)
(***************************************************************************)
EXTENDS EmergencyShell
=============================================================================
