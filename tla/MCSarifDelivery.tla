--------------------------- MODULE MCSarifDelivery ---------------------------
(***************************************************************************)
(* Instances of SarifDelivery for TLC.                                     *)
(***************************************************************************)
EXTENDS SarifDelivery
=============================================================================
