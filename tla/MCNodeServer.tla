---------------------------- MODULE MCNodeServer ----------------------------
(***************************************************************************)
(* NodeServer for TLC: two threads on a pool of two.  The constants are in *)
(* the configuration; nothing is symmetric, for the sake of QuestEnds.     *)
(***************************************************************************)
EXTENDS NodeServer
=============================================================================
