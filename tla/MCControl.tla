------------------------------ MODULE MCControl ------------------------------
(* Small instances of Control: two connections for two or three clients. *)
EXTENDS Control, TLC

CONSTANTS c1, c2, c3, svc

Ask(q1, q2, q3, n) == [req |-> (c1 :> q1) @@ (c2 :> q2) @@ (c3 :> q3), lines |-> n]

Some == {Ask("watch", svc, None, 3), Ask("log", "long", None, 2), Ask("watch", "watch", None, 0),
         Ask(svc, svc, None, 0), Ask("watch", "status", "short", 0)}

\* One client that reads the log.
Reader == {Ask("log", None, None, 1)}
=============================================================================
