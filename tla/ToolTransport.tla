--------------------------- MODULE ToolTransport ---------------------------
(***************************************************************************)
(* One call of a tool on an MCP server: execute_tool_with_catalog          *)
(* (services/mcp_registry.py) and MCPClient.call_tool with its retries     *)
(* (services/mcp_client.py).                                               *)
(*                                                                         *)
(* Each attempt of the client is an HTTP request of its own.  The server   *)
(* knows nothing of the client's timeouts: it may still execute a request  *)
(* the client has given up and sent again.  It is modelled from how the    *)
(* client uses it; a refusal by status (400, 401, 403, 404, 422) comes     *)
(* before the tool runs, an error or a broken answer before or after.      *)
(***************************************************************************)
EXTENDS ErrorRecovery

CONSTANTS Tools,         \* tools the call may be for
          Writes,        \* those that write
          Protected,     \* those of TOOL_PROVIDER_MAP
          ClientRetries  \* max_retries of the server's MCPServerConfig

ASSUME ToolsAssumption ==
  /\ Writes \subseteq Tools
  /\ Protected \subseteq Tools
  /\ ClientRetries \in Nat

VARIABLES tool,      \* the tool called
          pc,        \* where the client is
          attempt,   \* loop variable of call_tool
          requests,  \* attempts whose request the server has not handled yet
          answer,    \* answer to the current attempt, if it has come
          executed,  \* attempts in which the server ran the tool
          result     \* what the caller was given

client == <<tool, pc, attempt>>
server == <<requests, executed>>
vars   == <<client, server, answer, result>>

Phase == {"lookup", "preflight", "send", "waiting", "backoff", "returned"}

NoResult == [given |-> "nothing"]
Success  == [given |-> "success"]
CutOff   == [given |-> "cancelled"]

\* HTTP 200 with a well-formed body, isError false (ok) or true (error), or with
\* one the client cannot use (garbled); or another status.
Answer(status, body) == [status |-> status, body |-> body]

Answers ==
  { Answer(200, body) : body \in {"ok", "error", "garbled"} }
    \cup { Answer(status, "text") : status \in SemanticStatuses \cup RetriedStatuses }

NoAnswer == Answer(0, "none")

Attempts == 0 .. ClientRetries

Init ==
  /\ tool \in Tools
  /\ pc = "lookup"
  /\ attempt = 0
  /\ requests = {}
  /\ answer = NoAnswer
  /\ executed = {}
  /\ result = NoResult

Return(r) ==
  /\ pc' = "returned"
  /\ result' = r
  /\ answer' = NoAnswer
  /\ UNCHANGED <<tool, attempt>>

-----------------------------------------------------------------------------
(* Before the first request                                                *)

\* Not in the run's catalog, denied to the role, its client gone, or the
\* catalog expired.
LookupFails ==
  /\ pc = "lookup"
  /\ \E r \in CatalogResults : Return(r)
  /\ UNCHANGED server

LookupFinds ==
  /\ pc = "lookup"
  /\ pc' = "preflight"
  /\ UNCHANGED <<tool, attempt, server, answer, result>>

\* No credential of the user for the provider, or an expired one.
CredentialMissing ==
  /\ pc = "preflight"
  /\ tool \in Protected
  /\ Return(AuthRequiredResult)
  /\ UNCHANGED server

PreflightPasses ==
  /\ pc = "preflight"
  /\ pc' = "send"
  /\ UNCHANGED <<tool, attempt, server, answer, result>>

-----------------------------------------------------------------------------
(* One attempt                                                             *)

Post ==
  /\ pc = "send"
  /\ pc' = "waiting"
  /\ requests' = requests \cup {attempt}
  /\ UNCHANGED <<tool, attempt, executed, answer, result>>

\* The server handles the request of attempt i; if the client has moved on,
\* its answer has nobody to go to.
Handle(i) ==
  /\ i \in requests
  /\ requests' = requests \ {i}
  /\ \E a \in Answers :
       /\ answer' = IF pc = "waiting" /\ i = attempt THEN a ELSE answer
       /\ CASE a.body = "ok"                 -> executed' = executed \cup {i}
            [] a.status \in SemanticStatuses -> executed' = executed
            [] OTHER -> executed' \in {executed, executed \cup {i}}
  /\ UNCHANGED <<client, result>>

\* The server or the network loses it.
Lose(i) ==
  /\ i \in requests
  /\ requests' = requests \ {i}
  /\ UNCHANGED <<client, executed, answer, result>>

ReceiveSuccess ==
  /\ pc = "waiting"
  /\ answer.body = "ok"
  /\ Return(Success)
  /\ UNCHANGED server

\* isError: the tool's own error, with what _parse_error_envelope finds in it.
ReceiveError ==
  /\ pc = "waiting"
  /\ answer.body = "error"
  /\ \E r \in EnvelopeResults : Return(r)
  /\ UNCHANGED server

ReceiveStatus ==
  /\ pc = "waiting"
  /\ answer.status \in SemanticStatuses
  /\ Return(StatusResult(answer.status))
  /\ UNCHANGED server

\* Mutant: the last attempt is not made.
RetryOrReturnEarly(r) ==
  IF attempt + 1 < ClientRetries
    THEN /\ pc' = "backoff"
         /\ answer' = NoAnswer
         /\ UNCHANGED <<tool, attempt, result>>
    ELSE Return(r)

\* An attempt that failed in transport: again, or r when it was the last.
RetryOrReturn(r) ==
  IF attempt < ClientRetries
    THEN /\ pc' = "backoff"
         /\ answer' = NoAnswer
         /\ UNCHANGED <<tool, attempt, result>>
    ELSE Return(r)

\* Every other status.
ReceiveServerError ==
  /\ pc = "waiting"
  /\ answer.status \in RetriedStatuses
  /\ RetryOrReturn(ExhaustedStatusResult(answer.status))
  /\ UNCHANGED server

\* Mutant: a timeout is not marked as one the client has retried.
TimeOutUnmarked ==
  /\ pc = "waiting"
  /\ RetryOrReturn(Failed(FALSE, "none", 0, 0, "timeout", FALSE, FALSE))
  /\ UNCHANGED server

\* asyncio.TimeoutError, the answer perhaps on its way.
TimeOut ==
  /\ pc = "waiting"
  /\ RetryOrReturn(ExhaustedTimeoutResult)
  /\ UNCHANGED server

\* Any other exception: no connection, connection lost, a body that is not
\* what the code takes it for.  Its words may read like anything.
AttemptRaises ==
  /\ pc \in {"send", "waiting"}
  /\ \E text \in TextTypes : RetryOrReturn(ExhaustedExceptionResult(text))
  /\ UNCHANGED server

\* asyncio.sleep(2 ** attempt) is over.
BackoffEnds ==
  /\ pc = "backoff"
  /\ pc' = "send"
  /\ attempt' = attempt + 1
  /\ UNCHANGED <<tool, server, answer, result>>

\* The run is cancelled; CancelledError passes both handlers.
Cancel ==
  /\ pc # "returned"
  /\ Return(CutOff)
  /\ UNCHANGED server

-----------------------------------------------------------------------------
ClientStep ==
  \/ LookupFails \/ LookupFinds \/ CredentialMissing \/ PreflightPasses
  \/ Post \/ ReceiveSuccess \/ ReceiveError \/ ReceiveStatus
  \/ ReceiveServerError \/ TimeOut \/ AttemptRaises \/ BackoffEnds

ServerStep == \E i \in requests : Handle(i) \/ Lose(i)

Done == pc = "returned" /\ requests = {} /\ UNCHANGED vars

Next == ClientStep \/ ServerStep \/ Cancel \/ Done

SafeSpec == Init /\ [][Next]_vars

\* The session's timeout ends every wait and asyncio wakes every sleeper;
\* nothing is asked of the server.
Spec == SafeSpec /\ WF_vars(ClientStep)

-----------------------------------------------------------------------------
(* What the client promises                                                *)

\* call_tool stays inside its range of attempts and the server only ever sees
\* those.
TypeOK ==
  /\ tool \in Tools
  /\ pc \in Phase
  /\ attempt \in Attempts
  /\ requests \subseteq 0 .. attempt
  /\ answer \in Answers \cup {NoAnswer}
  /\ executed \subseteq 0 .. attempt
  /\ result \in RestResults \cup {NoResult, Success, CutOff}

Call == INSTANCE ToolCall WITH outcome <- result, Failures <- RestResults

\* The whole exchange, retries included, looks to the agent loop like one call
\* that ends in one of the results the loop is modelled with, and it does end.
CallImplemented == Call!Spec

FailedResult == result \in RestResults

\* "True if MCP client exhausted its transport retry budget"
\* (mcp_client.py:89): a result says so only when every attempt was used up,
\* so the agent never forgoes a retry that the client did not make.
ExhaustedMeansSpent ==
  FailedResult => (result.exhausted => attempt = ClientRetries)

\* MCPToolResult.is_terminal_error.
IsTerminalError(r) ==
  \/ r.hint
  \/ r.category \in {"auth_failure", "permission_denied", "rbac_denied",
                     "tool_not_found", "catalog_miss", "catalog_stale",
                     "validation_error", "invalid_arguments"}
  \/ r.http \in TerminalStatuses

\* The client's own judgement (is_terminal_error) and the agent's
\* classification, two lists kept in two files, do not contradict each other.
TerminalErrorsNotRetried ==
  FailedResult =>
    (IsTerminalError(result) => ~IsErrorRetryable(ClassifyFromMcpResult(result)))

\* The two flags the agent acts upon, "exhausted" and "terminal", are only set
\* on results of which they are true.
Sound == TypeOK /\ ExhaustedMeansSpent /\ TerminalErrorsNotRetried

-----------------------------------------------------------------------------
(* What a document says and the code does not do                           *)

\* "Writes (low_write, medium_write, high_write): no retries"
\* (docs/superpowers/specs/2026-05-08-gateway-mcp-design.md:627): the server
\* runs a tool that writes once at most.
WritesNotRepeated ==
  tool \in Writes => \A i, j \in executed : i = j
=============================================================================
