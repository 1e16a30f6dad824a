----------------------------- MODULE MCNTService -----------------------------
(* Small instances of NTService for TLC. *)
EXTENDS NTService
=============================================================================
