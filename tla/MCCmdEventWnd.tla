--------------------------- MODULE MCCmdEventWnd ---------------------------
(* Small instances of CmdEventWnd for TLC. *)
EXTENDS CmdEventWnd
=============================================================================
