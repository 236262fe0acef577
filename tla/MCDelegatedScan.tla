--------------------------- MODULE MCDelegatedScan ---------------------------
(***************************************************************************)
(* Instances of DelegatedScan for TLC.                                     *)
(***************************************************************************)
EXTENDS DelegatedScan
=============================================================================
