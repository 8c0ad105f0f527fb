------------------------- MODULE MCLiveDashboard -------------------------
(* Small instances of LiveDashboard for TLC. *)
EXTENDS LiveDashboard
=============================================================================
