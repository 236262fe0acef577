----------------------------- MODULE MCCheckRuns -----------------------------
(***************************************************************************)
(* Instances of CheckRuns for TLC.                                         *)
(***************************************************************************)
EXTENDS CheckRuns
=============================================================================
