------------------------------ MODULE MCPidMap ------------------------------
(***************************************************************************)
(* PidMap.tla with every hash function on a small table.  Services and     *)
(* pids are interchangeable: no operator of PidMap orders them.            *)
(***************************************************************************)
EXTENDS PidMap, TLC

Interchangeable == Permutations(Svc) \cup Permutations(Pid)
=============================================================================
