---------------------------- MODULE MCMySqlConn ----------------------------
(***************************************************************************)
(* MySqlConn for TLC: five rows in statements of one to three.             *)
(***************************************************************************)
EXTENDS MySqlConn

Lengths == <<2, 1, 1, 3, 1>>
=============================================================================
