------------------------------ MODULE MCNodeSql ------------------------------
(***************************************************************************)
(* NodeSql for TLC: two threads, two addresses, two hosts.                 *)
(***************************************************************************)
EXTENDS NodeSql, TLC

Symmetry == Permutations(Worker) \cup Permutations(Addr) \cup Permutations(Host)
=============================================================================
