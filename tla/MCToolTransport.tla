-------------------------- MODULE MCToolTransport --------------------------
(***************************************************************************)
(* Small instances of ToolTransport for TLC: a tool that reads and one     *)
(* that writes and needs the user's credentials.                           *)
(***************************************************************************)
EXTENDS ToolTransport

CONSTANTS read, write

ReadAndWrite == {read, write}
OnlyWrite    == {write}
=============================================================================
