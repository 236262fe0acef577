---------------------------- MODULE MCTaskManager ----------------------------
(***************************************************************************)
(* Instances of TaskManager for TLC.                                       *)
(***************************************************************************)
EXTENDS TaskManager
=============================================================================
