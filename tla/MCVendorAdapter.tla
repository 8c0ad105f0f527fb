--------------------------- MODULE MCVendorAdapter ---------------------------
(* Small instances of VendorAdapter for TLC. *)
EXTENDS VendorAdapter, TLC

\* No action singles out an alarm.
AlarmSymmetry == Permutations(Alarm)
=============================================================================
