-------------------------- MODULE MCXCredentialTile --------------------------
(* Small instances of XCredentialTile for TLC. *)
EXTENDS XCredentialTile
=============================================================================
