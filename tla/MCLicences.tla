----------------------------- MODULE MCLicences -----------------------------
(* Small instances of Licences for TLC. *)
EXTENDS Licences
=============================================================================
