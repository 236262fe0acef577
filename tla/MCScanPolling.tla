---------------------------- MODULE MCScanPolling ----------------------------
(***************************************************************************)
(* A small instance of ScanPolling.  Scans share nothing but the prefetch  *)
(* count, so one scan with several copies and faults reaches more than     *)
(* two scans with few.                                                     *)
(***************************************************************************)
EXTENDS ScanPolling

CONSTANT scan

OnlyPush == [s \in {scan} |-> "push"]
=============================================================================
