------------------------------ MODULE ToolCall ------------------------------
(***************************************************************************)
(* What the agent loop takes a call to an MCP server for: one step that    *)
(* ends in success or in one of the failures of ErrorRecovery, or that is  *)
(* cut off with the run.                                                   *)
(***************************************************************************)
CONSTANTS Failures,  \* the failed results a remote call can come back with
          NoResult, Success, CutOff

VARIABLE outcome  \* what the caller was given, NoResult so far

Init == outcome = NoResult

Return ==
  /\ outcome = NoResult
  /\ outcome' \in Failures \cup {Success}

\* The run is cancelled with the call in flight.
Cancel ==
  /\ outcome = NoResult
  /\ outcome' = CutOff

Next == Return \/ Cancel

SafeSpec == Init /\ [][Next]_outcome

\* The caller is not left waiting.
Spec == SafeSpec /\ WF_outcome(Next)
=============================================================================
