----------------------------- MODULE GraphStore -----------------------------
(***************************************************************************)
(* What replacing the graph promises to whoever boots from it, without the *)
(* files it is made of.  now is the graph a boot would load; may holds the *)
(* graphs a boot could load if the machine stopped now.  None: there is no *)
(* graph, a boot ends in the emergency shell.                              *)
(***************************************************************************)
CONSTANTS Graphs, None

VARIABLES now, may

vars == <<now, may>>

Init == now \in Graphs \union {None} /\ may = {now}

\* Another graph takes the place of the current one, all at once; a graph is never removed.
Replace == now' \in Graphs /\ may' = may \union {now'}

\* What is written reaches the disk: fewer of the earlier graphs can come back.
Settle == now' = now /\ may' \subseteq may /\ now \in may'

\* The machine stops, and finds one of them.
Crash == now' \in may /\ may' = {now'}

Next == Replace \/ Settle \/ Crash

Spec == Init /\ [][Next]_vars
=============================================================================
