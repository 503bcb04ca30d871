---------------------------- MODULE MCChatSocket ----------------------------
(***************************************************************************)
(* Small instances of ChatSocket for TLC: the socket of a browser, the one *)
(* it reconnects with, and a second tab.                                   *)
(***************************************************************************)
EXTENDS ChatSocket

CONSTANTS old, new, tab, run

ThreeSockets == {old, new, tab}
OneRun       == {run}
=============================================================================
