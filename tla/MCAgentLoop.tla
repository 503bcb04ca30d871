---------------------------- MODULE MCAgentLoop ----------------------------
(***************************************************************************)
(* Small instances of AgentLoop for TLC.  read and write are calls to MCP  *)
(* servers, read to one with the REST client; memory is a built-in tool,   *)
(* bash is execute_bash.                                                   *)
(***************************************************************************)
EXTENDS AgentLoop

CONSTANTS read, write, memory, bash

ReadAndMemory  == {read, memory}
ReadAndWrite   == {read, write}
AllCalls       == {read, write, memory, bash}
OnlyRead       == {read}
OnlyWrite      == {write}
OnlyMemory     == {memory}
OnlyBash       == {bash}
NoCalls        == {}
=============================================================================
