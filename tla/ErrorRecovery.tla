--------------------------- MODULE ErrorRecovery ---------------------------
(***************************************************************************)
(* How a failed tool call is classified and what the agent does about it:  *)
(* services/error_handler.py, with the error envelope the MCP client fills *)
(* (services/mcp_client.py).  The module is a library of pure operators:   *)
(* AgentLoop drives its recovery with them, ToolTransport the client.      *)
(*                                                                         *)
(* A failed MCPToolResult is a record                                      *)
(*   hint       terminal_hint                                              *)
(*   category   error_category, "none" when absent or unknown              *)
(*   upstream   upstream_status, 0 when absent                             *)
(*   http       http_status, 0 when absent                                 *)
(*   text       the error type the words of the message would parse to     *)
(*   semantic   is_semantic_error                                          *)
(*   exhausted  transport_retries_exhausted                                *)
(***************************************************************************)
EXTENDS Naturals

CONSTANTS MaxRetries,       \* AgentErrorHandler.max_retries
          AgentRetryBudget, \* AGENT_RETRY_BUDGET of the environment
          StrictTerminal    \* STRICT_TOOL_FAILURE_TERMINAL of the environment

ASSUME RetryAssumption == /\ MaxRetries \in Nat
                          /\ AgentRetryBudget \in Nat
                          /\ StrictTerminal \in BOOLEAN

\* attempt_budget of one fingerprint: min(AGENT_RETRY_BUDGET, max_retries).
AttemptBudget ==
  IF AgentRetryBudget < MaxRetries THEN AgentRetryBudget ELSE MaxRetries

ErrorType ==
  {"tool_failure", "timeout", "rate_limit", "resource_exhausted",
   "auth_failure", "rbac_denied", "validation_error", "tool_not_found",
   "contract_error", "catalog_stale", "malformed_output", "loop_detected",
   "low_confidence", "max_retries_exhausted"}

NonRetryableErrors ==
  {"auth_failure", "rbac_denied", "validation_error", "tool_not_found",
   "contract_error", "loop_detected", "catalog_stale"}

IsErrorRetryable(type) == type \notin NonRetryableErrors

\* Every type the words of an error message can be parsed to; the words
\* themselves are left out.
TextTypes ==
  {"auth_failure", "resource_exhausted", "validation_error",
   "tool_not_found", "rate_limit", "timeout", "tool_failure"}

ClassifyHttpStatus(status) ==
  CASE status \in {400, 422} -> "validation_error"
    [] status \in {401, 403} -> "auth_failure"
    [] status = 404          -> "tool_not_found"
    [] status = 429          -> "rate_limit"
    [] status = 504          -> "timeout"
    [] OTHER                 -> "tool_failure"

InfrastructureCategories ==
  {"server_unavailable", "container_unavailable", "docker_unavailable",
   "connection_refused", "upstream_unavailable"}

\* "none" stands for a result without a category the mapping knows.
ClassifyCategory(category) ==
  CASE category \in {"tool_not_found", "catalog_miss"}       -> "tool_not_found"
    [] category = "catalog_stale"                            -> "catalog_stale"
    [] category \in InfrastructureCategories                 -> "resource_exhausted"
    [] category \in {"upstream_error", "internal_error"}     -> "tool_failure"
    [] category = "rbac_denied"                              -> "rbac_denied"
    [] category \in {"auth_failure", "auth_required", "permission_denied"}
                                                             -> "auth_failure"
    [] category \in {"validation_error", "invalid_arguments"}-> "validation_error"
    [] category = "rate_limited"                             -> "rate_limit"
    [] category = "timeout"                                  -> "timeout"
    [] OTHER                                                 -> "none"

Categories ==
  InfrastructureCategories \cup
  {"tool_not_found", "catalog_miss", "catalog_stale", "upstream_error",
   "internal_error", "rbac_denied", "auth_failure", "auth_required",
   "permission_denied", "validation_error", "invalid_arguments",
   "rate_limited", "timeout", "none"}

\* Priority: terminal hint, category, upstream status, HTTP status, words.
ClassifyFromMcpResult(r) ==
  LET byCategory == ClassifyCategory(r.category)
  IN CASE r.hint /\ byCategory \in NonRetryableErrors    -> byCategory
       [] r.hint /\ byCategory \notin NonRetryableErrors -> "contract_error"
       [] ~r.hint /\ byCategory # "none"                 -> byCategory
       [] ~r.hint /\ byCategory = "none" /\ r.upstream # 0
                                       -> ClassifyHttpStatus(r.upstream)
       [] ~r.hint /\ byCategory = "none" /\ r.upstream = 0 /\ r.http # 0
                                       -> ClassifyHttpStatus(r.http)
       [] OTHER                        -> r.text

-----------------------------------------------------------------------------
(* The recovery policy: the strategy, and whether it ends the workflow.    *)

Recovery(strategy, terminal) == [strategy |-> strategy, terminal |-> terminal]

Strategy == {"retry", "ask_user", "abort"}

\* _find_fallback_tool maps no tool, so FALLBACK never comes out of here.
HandleExhaustedRetries ==
  IF StrictTerminal THEN Recovery("abort", TRUE) ELSE Recovery("ask_user", FALSE)

\* Mutant: one retry too many.
HandleToolFailureLate(retryCount) ==
  IF retryCount <= MaxRetries /\ retryCount <= AttemptBudget
    THEN Recovery("retry", FALSE)
    ELSE HandleExhaustedRetries

HandleToolFailure(retryCount) ==
  IF retryCount < MaxRetries /\ retryCount < AttemptBudget
    THEN Recovery("retry", FALSE)
    ELSE HandleExhaustedRetries

DecideRecovery(type, retryCount) ==
  CASE type \in {"auth_failure", "rbac_denied", "validation_error",
                 "resource_exhausted"}    -> Recovery("ask_user", TRUE)
    [] type \in {"catalog_stale", "tool_not_found", "contract_error",
                 "loop_detected", "timeout"} -> Recovery("abort", TRUE)
    [] type = "tool_failure"              -> HandleToolFailure(retryCount)
    [] type = "max_retries_exhausted"     -> HandleExhaustedRetries
    [] type = "malformed_output" /\ retryCount < 2 -> Recovery("retry", FALSE)
    [] type = "low_confidence"            -> Recovery("ask_user", FALSE)
    [] type = "rate_limit" /\ retryCount < MaxRetries -> Recovery("retry", FALSE)
    [] type = "rate_limit" /\ retryCount >= MaxRetries -> Recovery("ask_user", TRUE)
    [] OTHER                              -> Recovery("abort", TRUE)

-----------------------------------------------------------------------------
(* The failed results a tool call can come back with.                      *)

Failed(hint, category, upstream, http, text, semantic, exhausted) ==
  [hint |-> hint, category |-> category, upstream |-> upstream,
   http |-> http, text |-> text, semantic |-> semantic,
   exhausted |-> exhausted]

TerminalStatuses == {401, 403, 404, 422}

\* _parse_error_envelope: the hint the server sent, or one derived from the
\* upstream status or the category.
EnvelopeHint(sent, upstream, category) ==
  \/ sent
  \/ upstream \in TerminalStatuses
  \/ category \in {"auth_failure", "permission_denied", "rbac_denied",
                   "tool_not_found", "catalog_miss", "validation_error"}

SemanticStatuses == {400, 401, 403, 404, 422}
RetriedStatuses  == {429, 500, 502, 503, 504}
UpstreamStatuses == SemanticStatuses \cup RetriedStatuses \cup {0}

\* HTTP 200 with isError: a semantic error with an envelope.
EnvelopeResults ==
  { Failed(EnvelopeHint(sent, up, cat), cat, up, 0, text, TRUE, FALSE) :
      sent \in BOOLEAN, up \in UpstreamStatuses, cat \in Categories,
      text \in TextTypes }

\* 400, 401, 403, 404, 422: semantic, never replayed by the client.
StatusResult(status) ==
  Failed(FALSE, "none", 0, status, ClassifyHttpStatus(status), TRUE, FALSE)

\* Mutant: the client forgets to say that it retried.
UnmarkedStatusResult(status) ==
  Failed(FALSE, "none", 0, status, ClassifyHttpStatus(status), FALSE, FALSE)

\* The last attempt of the client failed: another status, a timeout, or an
\* exception, whose words may parse to any type.
ExhaustedStatusResult(status) ==
  Failed(FALSE, "none", 0, status, ClassifyHttpStatus(status), FALSE, TRUE)
ExhaustedTimeoutResult ==
  Failed(FALSE, "none", 0, 0, "timeout", FALSE, TRUE)
ExhaustedExceptionResult(text) ==
  Failed(FALSE, "none", 0, 0, text, FALSE, TRUE)

\* Credentials missing or expired before the call is made.
AuthRequiredResult ==
  Failed(TRUE, "auth_required", 0, 0, "auth_failure", TRUE, FALSE)

\* The run's catalog: unknown tool, role denied, client gone, catalog expired,
\* or a result that is not an MCPToolResult.
CatalogResults ==
  { Failed(FALSE, "tool_not_found", 0, 404, "tool_not_found", TRUE, FALSE),
    Failed(FALSE, "rbac_denied", 0, 403, "auth_failure", TRUE, FALSE),
    Failed(FALSE, "internal_error", 0, 0, "tool_failure", TRUE, FALSE),
    Failed(FALSE, "catalog_stale", 0, 0, "tool_failure", TRUE, FALSE) }

ExhaustedResults ==
  { ExhaustedStatusResult(status) : status \in RetriedStatuses }
    \cup {ExhaustedTimeoutResult}
    \cup { ExhaustedExceptionResult(text) : text \in TextTypes }

\* MCPClient, the client of the gateway's REST interface.
RestResults ==
  EnvelopeResults \cup { StatusResult(status) : status \in SemanticStatuses }
    \cup ExhaustedResults \cup CatalogResults \cup {AuthRequiredResult}

\* JsonRpcMCPClient and StdioMCPClient send a call once.  A JSON-RPC error is
\* semantic; a server that is not initialized, does not answer or answers out
\* of form leaves a failure that is marked neither way.
RpcErrorResult(text) == Failed(FALSE, "none", 0, 0, text, TRUE, FALSE)
UnansweredResult == Failed(FALSE, "none", 0, 0, "tool_failure", FALSE, FALSE)

RpcResults ==
  { RpcErrorResult(text) : text \in TextTypes }
    \cup {UnansweredResult} \cup CatalogResults

\* Built-in tools and execute_bash run in process: words only, no envelope.
LocalResults ==
  { Failed(FALSE, "none", 0, 0, text, FALSE, FALSE) : text \in TextTypes }

\* A failure as the agent loop sees it; "blocking" are the words that ask for
\* an approval.
ClassifiedFailure ==
  [type: ErrorType, semantic: BOOLEAN, exhausted: BOOLEAN, blocking: BOOLEAN]

Classified(results, words) ==
  { [type |-> ClassifyFromMcpResult(r), semantic |-> r.semantic,
     exhausted |-> r.exhausted, blocking |-> b] : r \in results, b \in words }

RestFailures  == Classified(RestResults, BOOLEAN)
RpcFailures   == Classified(RpcResults, BOOLEAN)
LocalFailures == Classified(LocalResults, {FALSE})
=============================================================================
