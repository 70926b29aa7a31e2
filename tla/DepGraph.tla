------------------------------ MODULE DepGraph ------------------------------
(***************************************************************************)
(* The compiled service graph ninit maps at boot, as the supervisor reads  *)
(* it: for each service its type, its dependents and its policy.  The      *)
(* assumptions are what ng_verify() has checked before the graph is used.  *)
(***************************************************************************)
EXTENDS Integers, FiniteSets

CONSTANTS
  N,          \* the number of services; a service is its index, 1..N
  Type,       \* [Svc -> "oneshot" | "daemon" | "target"]
  Rdep,       \* [Svc -> SUBSET Svc], the direct dependents of each service
  Restart,    \* the daemons with restart: always
  Notify,     \* the daemons with notify: N
  OrderOnly,  \* the services with deps: order
  Tries       \* [Svc -> start-tries]

Svc == 1..N

Types == {"oneshot", "daemon", "target"}

\* ng_name() and the accessors of ngraph.h reach the rest; here a dependent's
\* prerequisites are read back from the edges, as build_prereqs() does.
Prereqs(d) == {p \in Svc : d \in Rdep[p]}

Roots == {d \in Svc : Prereqs(d) = {}}

\* What ng_verify() has checked, as far as the supervisor relies on it; beside these it
\* checks that offsets, names and tables lie within the file.
ng_verify ==
  /\ N \in Nat \ {0}
  /\ Type \in [Svc -> Types]
  /\ Rdep \in [Svc -> SUBSET Svc]
  /\ \A i \in Svc : \A d \in Rdep[i] : i < d             \* "edge runs backwards"
  /\ \A i \in Roots : \A d \in Svc \ Roots : i < d       \* "non-root has zero unmet"
  /\ Restart \subseteq {i \in Svc : Type[i] = "daemon"}  \* "only a daemon can be restarted"
  /\ Notify \subseteq {i \in Svc : Type[i] = "daemon"}   \* "only a daemon can carry a notify fd"
  /\ OrderOnly \subseteq Svc
  /\ Tries \in [Svc -> 1..250]                           \* NG_MAX_TRIES

ASSUME GraphAssumption == ng_verify

\* The services reached from the set S along R, S included: the least set that
\* holds S and is closed under R.  It is what the worklists of svc_reclaim()
\* and poison_spread() compute, each service being visited once.
Reach(S, R) ==
  {d \in Svc : \A T \in SUBSET Svc :
     (S \subseteq T /\ \A j \in T : R[j] \subseteq T) => d \in T}
=============================================================================
