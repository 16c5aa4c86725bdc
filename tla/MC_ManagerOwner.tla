--------------------------- MODULE MC_ManagerOwner ---------------------------
(* Model values and bounds for ManagerOwner. *)
EXTENDS ManagerOwner, TLC

CONSTANTS m1, m2
=============================================================================
