# A verification development of the Rory agent

The repository is an agent for golf-club operations. A FastAPI backend
(`src/backend/app`) lets a language model call tools; the tools live on MCP
servers, the most important of which is the repository's own Gateway MCP
(`src/backend/gateway_mcp`); a Next.js frontend talks to the backend by HTTP and
by WebSocket. This directory holds TLA+ models of the parts of the backend whose
correctness depends on order, concurrency, retries and failure, TLC
configurations that check them on small instances, and proofs checked by TLAPS.

Paths below are under `src/backend/app` unless they start with `src/`.

## 1. The system

### 1.1 Components

| component | code | state | operations |
|---|---|---|---|
| agentic loop | `services/agentic_service.py` | steps, executions of the step, messages | `execute`, `_execute_internal` |
| agent run state | `services/agent_state.py` | completed actions, retry and reflection counts per fingerprint | `record_action`, `has_action_been_completed`, `detect_loop`, budgets |
| error recovery | `services/error_handler.py` | none | `classify_from_mcp_result`, `decide_recovery`, `_handle_*` |
| rate limiter | `services/rate_limiter.py` | active runs, two one-minute windows per user, a circuit breaker per server | check / acquire / record / release, `check_circuit`, `record_circuit_*` |
| MCP tool transport | `services/mcp_client.py` | HTTP session, cached tool list | `call_tool` with retries, credential preflight, error envelope |
| MCP health checker | `services/mcp_health.py` | status, failures and tools of each server | `check_server_health`, `check_all_servers`, `is_tool_available` |
| registry, catalog, tenant manager | `services/mcp_registry.py`, `tenant_mcp_manager.py`, `tenant_mcp_client.py` | servers, catalog with TTL, discovery cache | initialise, build and look up, connect and disconnect |
| approvals and paused runs | `services/approval_service.py`, `run_state.py`, `session_approval_cache.py` | approval requests, paused runs, session grants (database) | request, decide, resume, grant, expire |
| resume tokens and socket | `services/headless_events.py`, `api/chat_ws.py` | pending questions with tokens | ask, persist, validate, consume |
| chat endpoint | `api/chat.py` | sessions and messages (database) | admission, run, persist |
| orchestrator, skills, cursor | `services/workflow_orchestrator.py`, `skill_workflow*`, `workflow_cursor.py` | workflow runs and their steps, cursor | start, advance, approve, resume |
| worker | `services/worker_client.py`, `workers/` | jobs with timeouts | submit, wait, fall back |
| harness, memory, history, backends | `services/harness*`, `memory*`, `history*`, model backends | session state, notes | load, summarise, ask the model |
| gateway pipeline | `src/backend/gateway_mcp/core` | audit records, approvals, credentials, BRS token | authenticate, approve, execute, audit |
| gateway tools and executors | `src/backend/gateway_mcp/tools`, `core/executors` | upstream systems | one handler per tool |
| authentication, tenants, roles | `api/auth.py`, `services/*rbac*` | users | log in, authorise |
| analytics and traces | `services/analytics*`, `trace*` | rows written | record |
| frontend | `src/frontend` | view state | render |

`PROJECT.json` has the full list with what is modelled of each.

### 1.2 How they interact

* `POST /chat` asks the **rate limiter** for a slot, gives the **agentic loop** a
  rate limiter, a health checker and the approval lookups, waits for its result
  and gives the slot back in a `finally` clause. The chat WebSocket runs the same
  loop with a stream callback and without any of the three.
* Per tool call the loop asks, in this order: approval, deduplication, rate
  limit, circuit breaker, health, terminal failures of the past, attempt budget.
  It then calls the tool through the run's **catalog**, hence the **transport**,
  hence an MCP server; what comes back is classified by **error recovery**, whose
  decision ends the run, drops the step or feeds the error back to the model.
* All requests of a process share one rate limiter, one health checker and one
  registry. They are asyncio tasks: between two awaits a task is alone, across
  an await the others run. The limiter's methods hold an `asyncio.Lock` and
  await nothing inside it, so each is one atomic step, and no two are together.
* Both the transport and the loop retry. `MCPToolResult.is_semantic_error` and
  `transport_retries_exhausted` divide the work between `MCPClient`, the REST
  client, and the loop. `JsonRpcMCPClient` and `StdioMCPClient` send a call once:
  of their failures only a JSON-RPC error is marked, as semantic, and the loop
  retries the others.
* A run that needs a human either ends with `approval_needed` (approvals) or emits
  a question with a resume token (headless events) and continues in a new run.

### 1.3 What is hard here, and what makes each part correct

| component | hard behaviour | correctness |
|---|---|---|
| loop + run state | batches of calls, steps that are dropped and tried again, exceptions in the middle of a batch, cancellation in flight, two configurations | no call is reported to the loop as a success twice; a terminal failure is final; bounded executions, retries and repetitions; every call answered once; every run ends |
| error recovery | five sources of evidence with a priority, two retry limits | only transient failures are retried, and those of `MCPClient` by one layer |
| rate limiter | check and act in separate critical sections; a breaker shared by all users; answers older than the breaker's state | a slot is neither lost nor handed out twice; limits exceeded by a known amount at most; open circuits stop traffic and are tried again |
| transport | timeouts with the request possibly executed; bodies that do not parse | bounded sends; semantic failures are not replayed; failures correctly marked for the loop |
| tool directory (health checker, registry, catalog, tenant manager) | status is set when a server is first seen and never probed again; a double-checked lock across awaits; connecting and disconnecting while a catalog is built | the cache covers every registered server, but for one way to miss an entry; what the status route calls connected is reachable; nobody keeps the lock; only allowed tools are offered |
| approvals | rows that cannot be inserted, effects before the log | a pause that fails leaves the conversation in order |
| resume tokens | several sockets, emit before persist, consume before the model is chosen, restart | one continuation per question, one loop per run, questions are in the conversation |
| orchestrator | commits that fail inside a node, a session shared by nodes, cyclic and broken templates | completed means that every step and metric is closed and its tool was called; every execution ends |
| skills | check-then-insert by administrators, a skill cut short in a batch, a state machine over calls | one row per name, nothing runs after a verdict, a skill's work is not done again by the loop |
| conversation | an open transaction that later steps commit or undo, a cache keyed by a count, summaries made at the same time | the context is of its own session, alternates, is current, and forgets a bounded number of messages |
| credentials, OAuth | a refresh under an advisory lock that belongs to a pooled connection, with a token read before it | one refresh at a time, a state is used once, an active row has a usable token |
| gateway, BRS token | cancelled handlers whose commands go on, one lock for all exchanges, 401s that clear the cache | an answer of success means the change is made; no needless exchange; a refused token is dropped; the lock is left free |
| worker | two timeouts of the same length, a lost connection, a restart | the agent is answered, a running script keeps its directory |

`PROJECT.json` lists every such hazard at the line where it bites, with the
properties that cover it.

## 2. The plan

In order of importance; all of the rows have been carried out.

| # | module | composes | abstract specification | theorems |
|---|---|---|---|---|
| 1 | `ErrorRecovery` (operators) | - | - | classification lemmas |
| 2 | `AgentLoop` | 1, `Subsequences` | - | types and nine safety properties |
| 3 | `RateLimiter` | - | `RunSlots` | types, three bounds, refinement |
| 4 | `ToolTransport` | 1 | `ToolCall` | types, two safety properties, refinement |
| 5 | `ChatSocket` | - | - | types and three safety properties |
| 6 | `Gateway` (pipeline, handlers, executors, BRS tokens) | - | - | types and four safety properties |
| 7 | `Credentials` (gateway store and the app's integrations) | - | - | types and three safety properties |
| 8 | `ToolDirectory` (registry, manager, health, catalog) | `ToolPolicy` | - | types and three safety properties |
| 9 | `WorkflowRuns` (orchestrator, metrics, approvals of a run) | - | - | types and three safety properties |
| 10 | `Worker` (bash tool, worker, runner) | - | - | types and three safety properties |
| 11 | `Conversation` (messages, summary, cache, validator) | `Subsequences` | - | types and three safety properties |
| 12 | `SkillRuns` (tables and execution of skills) | - | - | types and four safety properties |

The project keeps to one or two runs per module that has a state, so that all
of them are checked on every change. What is left are the parts listed in section 7.

## 3. Modules

### 3.1 `ErrorRecovery` - `services/error_handler.py`, result fields of `mcp_client.py`

Pure operators, no variables. `ClassifyFromMcpResult` is the priority chain of
`classify_from_mcp_result`: terminal hint, category, upstream status, HTTP
status, words of the message. `DecideRecovery`, `HandleToolFailure` and
`HandleExhaustedRetries` are the policy. The sets `RestResults`, `RpcResults` and
`LocalResults` enumerate the failed results a call can come back with, one
operator per place of the code that builds one: `MCPClient` marks each of its own as
semantic or as exhausted; `JsonRpcMCPClient` and `StdioMCPClient` mark a JSON-RPC
error as semantic and leave the others unmarked. The words of a message are
reduced to the error type they would parse to (`text`). Two mutants of the
policy and of a result constructor stand beside the definitions they alter.

### 3.2 `AgentLoop` - `services/agentic_service.py`, `services/agent_state.py`

One run. `pc` says where the coroutine is; `step`, `batch`, `idx`, `execs` are
the loop's locals; `history`, `retries`, `reflections` are the `AgentState`.
`context` is what the model was told. `successes`, `dispatched`, `spent` and
`forgotten` (the successes that went with a dropped step) are history variables
that no guard reads.

| code | actions |
|---|---|
| health check and skill match before the loop | `HealthCheckFails/Passes`, `SkillMatched`, `NoSkillMatched` |
| head of the `for` loop | `MaxStepsReached`, `LoopDetected`, `NextStep` |
| model's answer | `ModelFails`, `ModelAnswersText`, `ModelCallsTools` |
| gates of one call, in the code's order | `ApprovalNeeded`, `SkipDuplicate`, `RateLimitReached`, `SkipCall`, `WriteToolUnavailable`, `AttemptBudgetExhausted`, `Dispatch` |
| results | `Succeed`, `RetryStep`, `FeedBack`, `Escalate`, `Reflect`, `AskUser`, `Abort`, `Raise` |
| messages of the step | `Commit` |
| `wait_for`, a closed socket | `TimedOut`, `ClientGone` |

A call is one model value standing for a tool with its arguments, which is what
the code hashes. The branch for a call that failed terminally before has no
action: `TerminalFailureStops` shows that no run reaches it. `AgentRetryBudget`,
`MaxRetries`, `StrictTerminal`, `MaxSteps`, `MaxAttempts` and `LoopWindow` are
settings of the code; `MaxBatch` is the model's only bound.

### 3.3 `RateLimiter`, `RunSlots` - `services/rate_limiter.py`, `api/chat.py`

Any number of requests in one process. `pc` follows each from admission to the
`finally` clause; each method of the limiter is one action. The windows are
counters of timestamps not yet a minute old; `Expire...` lets one grow old.
`RecoveryElapses` is the passing of the recovery timeout. A circuit counts
failures up to its threshold, beyond which the code's counter changes nothing.
`lateCalls` is a history variable. `RunSlots` is the promise: a set
of holders, bounded per user, each of which gives its slot back.

### 3.4 `ToolTransport`, `ToolCall` - `services/mcp_client.py`, `mcp_registry.py`

One call of one tool through `MCPClient`, the only client that retries. What the
JSON-RPC and stdio clients answer enters `AgentLoop` as `RpcFailures`. The client's
state is `pc`, the loop variable `attempt` and the `answer` that has come in; the server is part of the environment, modelled
from how the client uses it: `requests` it has not handled, and the attempts in
which it `executed` the tool. It knows nothing of the client's timeouts, so a
request the client has given up may still be executed, or be lost.

| code | actions |
|---|---|
| `execute_tool_with_catalog`: catalog, role, client | `LookupFails`, `LookupFinds` |
| credential preflight | `CredentialMissing`, `PreflightPasses` |
| one pass of the retry loop | `Post`, `ReceiveSuccess`, `ReceiveError`, `ReceiveStatus` |
| failures that are tried again, by `RetryOrReturn` | `ReceiveServerError`, `TimeOut`, `AttemptRaises` |
| sleep before the next pass | `BackoffEnds` |
| cancellation of the run | `Cancel`, with the result `CutOff` |
| server | `Handle`, `Lose` |

A refusal by status (400, 401, 403, 404, 422) is taken to come before the tool
runs; an error, a broken body or a 5xx may come before or after. `ToolCall` is
the promise the loop relies on: one step that ends in success or in one of the
failures of `ErrorRecovery`, or is cut off with the run, and that does not leave
the caller waiting. `AgentLoop` counts successes that were reported
to it; what the failed attempts of a call did at the server is the subject here.

### 3.5 `ChatSocket` - `api/chat_ws.py`, `services/headless_events.py`

Several sockets over one conversation. `pc` is where the handler of each is,
`turn` the turn it works on: `<<run, 0>>` for a message, `<<run, n + 1>>` for the
answer to the question that ended `<<run, n>>`. Since every `ask_user` of the loop
is followed by a return, that pair also names the question's token. `tokens` is
the in-memory store, `stale` the tokens whose time has passed. `replies` is the
assistant's rows; `shown`, `started` and `failed` are history variables, except
that a client can only answer what it has been `shown` and that a new run id has
not been used before.

| code | actions |
|---|---|
| accept and authenticate; a closed connection | `Connect`, `Disconnect` |
| head of the message loop | `Message`, `Respond`, `RefuseRequest`, `RefuseResponse` |
| model selection | `ModelSelected`, `ModelRefused` |
| `AgenticService.execute` as seen from outside | `RunCompletes`, `RunCutOff`, `RunRaises`, `Ask`, `Persist` |
| commit and last send | `SaveReply`, `SaveEmptyReply`, `Sent` |
| time, the process | `TokenExpires`, `Restart` |

An action ends where the handler awaits something that can suspend it. The
in-memory store awaits nothing, so the lookup of a token and its consumption are
one action; a store that does await would need two. A turn may be cut off while
its question is being sent, because `wait_for` wraps the send as well.
`MaxTurns` is the model's only bound.

### 3.6 `Gateway` - `src/backend/gateway_mcp/core`, `tools`

Tool calls inside the gateway. The stages before a handler await nothing, so
`Receive` is all of them; `audit` is the outcome in the request's audit record. A
handler is a row of `ToolTable`: its risk, where it may run, whether it needs an
approval, and its script, one step per command or request it awaits with what it
does on each answer (`next`, `done`, `error`). `active` are the commands and
requests begun and not over: they go on when their handler has been cancelled or
has stopped waiting. `effects` are the writes that happened. A token is the
number of its exchange; `issued`, `dropped`, `redirected` and `rejected` are history
variables.

| code | actions |
|---|---|
| `MiddlewarePipeline.process` up to the handler | `Receive` |
| `wait_for` around the handler | `ToolTimesOut` |
| commands in containers, the club cache | `BeginCommand`, `UseClubCache`, `CommandEnds`, `ClubCacheExpires` |
| timeout of a command or request, refused input | `StopsWaiting`, `CannotBegin` |
| `get_token_for_club` | `SeekToken`, `TakeLock`, `ExchangeSucceeds`, `ExchangeFails`, `TokenExpires` |
| HTTP requests | `RequestAnswered`, `RequestRefused` (401), `RequestRedirected` (3xx to `call_api_handler`) |

### 3.7 `Credentials` - `gateway_mcp/core/credentials`, `api/credentials.py`, `api/integrations.py`

The rows of one user, tenant and provider, which two APIs share. A request is a
`task` that reads, waits for the provider and writes; `Written` is the ORM's
update of the columns that differ from what was read. The advisory lock belongs to
a connection: `TryLock` takes it on one, the commit gives the connection back and
`Unlock` may run on another (`Released`), so the lock can stay held. `issued` and
`accepted` are the provider's refresh tokens, which it may rotate.

| code | actions |
|---|---|
| `OAuthStateStore`, `StateTokenStore` | `StartAuthorization`, `InitiateOAuth`, `StateAges` |
| callback of the gateway's flow | `Callback`, `Exchange`, `StoreOAuth` |
| personal access tokens, disconnect | `ValidatePAT`, `StorePAT`, `Disconnect` |
| `get_credential`, `_refresh_token` | `GetCredential`, `TryLock`, `LoseLock`, `AskRefresh`, `CommitRefresh`, `Unlock`, `Expires` |
| the integration's routes | `CreateIntegration`, `DeleteIntegration`, `IntegrationCallback`, `ExchangeIntegrationCode`, `InsertIntegrationOAuth`, `ValidateIntegrationPAT`, `StoreIntegrationPAT`, `TestConnection` |

### 3.8 `ToolPolicy`, `ToolDirectory` - `mcp_registry.py`, `tenant_mcp_manager.py`, `mcp_health.py`, `tool_catalog.py`

`ToolPolicy` is operators: the metadata of a tool, the filters that make a
workflow's catalog (`Exposed`), the same policy asked about one tool
(`PolicyAllows`), and the role's allowlist. `ToolDirectory` is the registry as a
dict that runs iterate over across awaits, as CPython keeps it: `entries` are at
places of a table of `capacity` places, `fill` of them used, deletions leave holes,
and an insertion into a full table makes a new one without holes (`Assign`). An
iterator is a place; what a new table moves up behind it is skipped (`Overtaken`)
and kept in the catalog's `missed`, which no guard reads. `tracked` is the manager's own dict, `warm` the clients that hold
their tools, `cache` and `holder` the discovery cache and its lock, `known` and
`vouched` the health checker.

| code | actions |
|---|---|
| routes of an integration | `Create`, `Enable`, `Register`, `ConnectFails`, `Disable`, `Delete`, `Disconnected` |
| `POST /chat` | `Refuse`, `Chat` |
| `get_catalog_for_run` | `Copy`, `Queue`, `Build`, `Discover`, `Finish`, `Break`, `Cancel`, `Expire` |
| one tool call | `Gated`, `Stale`, `Execute` |

`Break` is the error a dict raises when its size changed during the iteration. A
removal and an insertion between two of its steps leave the size as it was.

### 3.9 `WorkflowRuns` - `workflow_orchestrator.py`, `metrics_collector.py`, `approval_service.py`

One run of one template. The graph library works in supersteps (`turns`); `node`
is the task of each step, `rows` the executions of a step with their metrics,
`called` the tool calls sent. `broken` is a session that refuses statements until
it is rolled back. Every commit takes a `fault` that may make it fail, the one in the
except branch of a node included (`CommitsTwice`).

| code | actions |
|---|---|
| `execute_workflow` | `Execute`, `Complete`, `Fail` |
| the library | `Continue` |
| a node | `Begin` (with `Gate`, `StartFails`), `Answer` (with `StepCompletes`, `StepFails`) |
| `ApprovalService` | `RequestApproval`, `ReadForDecision`, `Decide` |

The row is there at the start, since `create_workflow_run` gives it no tenant.
No part of the application outside the tests calls the orchestrator.

### 3.10 `Worker` - `bash_tool.py`, `worker_client.py`, `workers/`

Calls of `execute_bash` of a run, each with its job, the runner's process and the
script's. `present` are the workspaces in the volume, which survive a restart.

| code | actions |
|---|---|
| `execute_bash`, the client | `ExecuteBash`, `LoseConnection` |
| `bash_runner` | `MakeWorkspace`, `Launch`, `ScriptSeen`, `RunnerTimeout`, `CleanUp`, `RunnerCrashes` |
| the script | `ScriptEnds` |
| `execute_job` | `JobSucceeds`, `JobTimesOut`, `Killed` |
| the container | `Stop`, `Start` |

### 3.11 `Conversation` - `history.py`, `summarization.py`, `context_assembly.py`, `message_validator.py`, `api/chat.py`

Requests of chat sessions, and the rows each leaves. A row carries the request
whose transaction it is in, or `Committed`. `CommitRows` and `RollbackRows` act on the
handler's session as a whole: the failed-run log, the summary, the workflow's
outcome and the classification all use that session, so each decides over the
user's message. `cache` is the process's cache of contexts.

What a query, a rollback or a filter keeps of a sequence is `At(seq, S)`
(`Subsequences`), the entries at a set of positions in their order. `AgentLoop`
uses it for the records that loop detection looks at.

| code | actions |
|---|---|
| `POST /chat` up to the model | `Ask`, `SummaryMade`, `SummaryFails` (with `Serve`, `EnsureValid`) |
| its ends | `Answer`, `RunFails`, `RunRaises`, `ModelRefused`, `PauseFails` |
| the socket, the sessions API | `SocketAsk`, `AddMessage` |
| the process | `Restart` |

### 3.12 `SkillRuns` - `skill_workflow_service.py`, `api/skills.py`, `agentic_service.py`

Administrators that read, then write and commit rows of the two tables, and runs
of the chat that match and execute a skill. A tool call is its kind, as the state
machine of the skill sees it.

| code | actions |
|---|---|
| create, change, activate, delete; the seed script | `BeginCreate`, `BeginChange`, `BeginSeed`, `CommitRequest` |
| `_load_skills_context`, `_check_skill_match` | `LoadSkills`, `MatchSkill`, `Isolate` |
| `_execute_skill_workflow` | `AskModel`, `RunCall`, `EndBatch` |

## 4. Runs

| run | instance | properties | what it shows |
|---|---|---|---|
| `loop_http` | a reading remote call over REST and a writing one over JSON-RPC, a built-in tool and bash in batches of two, approvals, limiter and health gates on, 3 steps | `Sound`, `NoRepeatedSuccess`, `TransportOwnsRestRetries`, `TerminalFailureStops`, `EventuallyStops` | every call of a committed step is answered once and every success but those of dropped steps reaches the model; nothing is reported as a success twice; the agent retries no call of `MCPClient`; every run ends |
| `loop_streaming` | streaming configuration, 6 steps, small attempt budget | `RetriesBounded`, `ExecutionsCapped`, `StuckLoopCut` | the budgets hold over dropped steps and double records |
| `limiter` | three requests of one user over two slots, one breaker, window limits of one, thresholds of two | `Sound`, `SlotsImplemented`, `OpenCircuitRetried` | limits are exceeded by a known amount at most; the limiter implements `RunSlots`; an open circuit is tried again |
| `transport_call` | a reading tool and a writing one that needs the user's credentials, two retries | `Sound`, `CallImplemented` | the flags the loop relies on are true of `MCPClient`; the exchange implements `ToolCall` |
| `socket_resume` | three sockets, one run of up to three turns, expiry, lost connections, restarts | `Sound`, `AnswerableIsRecorded`, `TurnsStartOnce`, `RequestsServed` | one loop per run, one continuation per question |
| `gateway_tools` | two callers, every tool, three roles, a local and a production gateway, with and without `YOLO_MODE` | `Sound`, `SuccessMeansDone`, `NoRedundantExchange`, `RejectedClubTokenDropped` | what is answered and audited as a success has happened, or its request was redirected; the token cache under concurrency, cancellation and 401s |
| `credentials_table` | three requests, one state, two connections | `Sound`, `ActiveTokenUsable` | one refresh and one use of a state at a time; the stored token works, whoever wrote the row |
| `directory_runs` | two runs, two requests, two integrations, two clients, a table of two places | `DirectorySound`, `CatalogCoversClients`, `OfferedIsAllowed`, `RunsGetCatalog` | the cache has every registered server but those an iteration missed, with the dict resized under it; the lock is given back |
| `workflow_faults` | eight templates of three steps, two failing commits, two approvers | `Sound`, `CompletedMeansDone`, `CompletedMeansClosed`, `ExecutionEnds` | what "completed" says of a run, whatever fails |
| `worker_jobs` | three calls of a run, one restart, two lost connections | `WorkerSound`, `WorkspaceKept`, `CallsAnswered` | scripts, jobs and directories through timeouts and restarts |
| `conversation_context` | four requests in two sessions, one blank, one restart | `ConversationSound`, `ServedContextIsCurrent`, `ForgottenBounded` | what the model is given, whatever was undone |
| `skill_runs` | one message, two administrators, three requests, three iterations of batches of two | `Sound`, `SkillRunsAlone`, `NothingAfterVerdict` | a skill's work is done once and stops at its verdict |

`Sound` (`DirectorySound`, `WorkerSound`) is the conjunction of a module's type invariant and of the invariants
that its comment names.

**Bounds.** The loop's actions look at one call at a time and at the last two
windows of records, so batches of two show every interaction (a call and another
one in the same batch), and three steps are one more than what retry, reflection
and deduplication relate; `loop_http` takes one call of each kind the gates tell
apart, `loop_streaming` six steps because a loop of two windows needs at least
four. Budgets are chosen so that the run reaches them. For the limiter, three
requests over two slots give a refusal after a passed check, the excess over the
window limits is reached with equality, and a call sent before an outage is
answered in each later state of the circuit. Two retries of the client give a
first, a middle and a last attempt, with the requests of the earlier ones still
at the server. Three sockets and three turns give a question answered on a
socket while the one that asked it and the one that answered the question before
are both still busy; runs share nothing but the store, so one is enough. The
theorems below do not depend on these numbers.

In `Gateway` two callers give each pair of tools, a waiting handler behind the lock
and a cancelled one with its command still at work. In `Credentials` three requests
give two refreshes and a store between them, and two connections let the lock stay
behind on one. In `ToolDirectory` two requests give a disconnection that overtakes
another (`Sends`: one connects and disconnects, the other deletes one of the
integrations), and the first run can build while the second waits. CPython's smallest table takes five entries; with one of two, the
gateway's and an integration's, a second integration connected in place of the first
resizes it under an iteration, which then misses the second (`NextRunSeesClients`
fails there). The integrations may fail to list their tools, the gateway does not
(`Reliable`). `MaxFaults` of two lets the handler of a failed commit fail as well. `RecursionLimit` is 4 for the
library's 25: a cycle of three steps passes it. In `Worker` three calls over two
lost connections give two jobs at work in one directory and a third call.
`Conversation` keeps the proportions of the code's thresholds (a summary is due at
20 messages, 10 are kept) at a fifth, so that a request can find a summary made by
another and a context already cached. Symmetry is used in the runs without a
temporal property that names the permuted values.

**Fairness.** Each await of the loop is on a client with a timeout (the model
backend, the MCP session, the worker), the limiter's lock is never held across
an await, and asyncio runs every ready task; so the coroutine of a run
(`LoopProgress`) and of a request (`Serve`) is weakly fair. So is the clock
(`RecoveryElapses`). Nothing is assumed of the model's answers, of clients, or of
`TimedOut` and `ClientGone`: `EventuallyStops` holds without the overall timeout.
`OpenCircuitRetried` assumes in its own statement that runs keep asking.
In `ToolTransport` the session's timeout ends every wait, so the client is weakly
fair, and nothing is asked of the server. In `ChatSocket` the model list, a run
and a send each end or raise, so a handler that has a request is weakly fair;
clients, restarts and expiry owe nothing. In `ToolDirectory` a listing is bounded by
the client's timeout, so a run that obtains its catalog is weakly fair; routes,
cancellation and the TTL owe nothing. In `WorkflowRuns` the library runs what is due
and a tool call has a timeout, so each node and the end of a superstep are weakly
fair. In `Worker` processes run and the timers fire; a script need not end, and
nobody has to start the worker again. The other modules state no fairness and
have no liveness property.

## 5. Proofs

Eight modules hold them. `ChatSocket_proofs`, `Gateway_proofs`, `Credentials_proofs`,
`SkillRuns_proofs` and `WorkflowRuns_proofs` are each about one module.
`ChatTurn_proofs` is about the two modules that serve a request, `AgentLoop` and
`Conversation`, `SharedState_proofs` about the two of the state that the runs of a
process share, `RateLimiter` and `ToolDirectory`, and `RemoteTools_proofs` about the
two of the tools that run elsewhere, `ToolTransport` and `Worker`; the second module
of each pair prefixes the names that both would use (`ConversationSpec`,
`DirectorySpec`, `WorkerSpec`).
The only assumptions are the named `ASSUME`s on the constants, which TLC evaluates
in every run: bounds are numbers, the value that stands for no holder or no
connection is none of them (`HolderAssumption`, `ConnAssumption`,
`DirectoryAssumption`), tools, calls and templates have the parts their modules use
(`TemplatesAssumption`), and a tenant has a finite number of integrations.

**AgentLoop.** `TypeCorrect` splits the type invariant into records and control
and checks each action. The other theorems need `IInv`:

* `NoRepeatedSuccess` is not inductive: that a call has succeeded at most once
  holds because a success is on record (`DedupInv`) and because nothing is
  dispatched that is on record. The two may differ only for a run cut off in
  flight, so `DedupInv` is stated for runs that have not stopped.
* `TerminalFailureStops` is inductive given types: every action that writes a
  terminal record stops.
* `ExecutionsCapped` needs that every execution that has come back left a record
  (`CapInv`): the budget counts records, dispatches run one ahead of them.
* `RetriesBounded` and `TransportOwnsRestRetries` (`RetryInv`) need the lemmas
  on classification: a failure of `MCPClient` is semantic or exhausted (`FailureFacts`),
  and a retry is decided only below `MaxRetries` (`RetryBelowMax`).

The invariants are proved for any set of calls, any budgets and any batch size.

A second invariant says what the records of a run owe its messages.
`AnswersMatchCalls` (outside streaming, where a failed execution is recorded twice)
needs `AnswerInv`: in the step in hand the calls before `idx` have exactly one
answer, or none and are on record as completed, and those from `idx` on have none. `ResultsReachModel` needs
`ResultInv`: a success the model was not told of is an execution of the step in
hand, or is `forgotten` with a dropped step. With the types they give `Soundness`, the invariant of
`loop_http`; the other proof modules end in a theorem of the same name.

`StuckLoopCut` needs `StreakInv`, which bounds the streak of one call by where the run
is: while a step begins, by what loop detection lets pass, and within a step by that
and the records the step has made. Two windows of one call are what `detect_loop`
looks for (`LongStreakDetected`), and a record makes a streak longer by one at most
(`StreakAppended`). The prover knows nothing of a filter written with `SelectSeq`; with
the positions of what is kept (`Rank`, `Nth`, `At`) a streak is a set to count:
`RankGrows`, `NthRank` and `NthGrows` say that positions and their ranks are in one
order, `LastRanks` that the last positions have the last ranks.

**Conversation.** `ConversationInv` is written over the values of the variables
(`StateOK`), because a request is served in one step that passes through a state
nobody sees: its message in the table and its context not yet given. `ServeStep`
leads from there to the next state, `AskStep`, `MadeStep` and `FailsStep` lead up to
it. The parts:

* `ContextIsOwn`: a session owns the messages of its requests (`Owned`); rows,
  summaries, what is read and what is cached under the session's key are made of
  them. `ContextAlternates` needs one lemma on data, `NormalizeAlternates`: between two
  messages that `normalize_message_roles` keeps in a row, those dropped have the
  role of the first, so the two differ.
* `ServedContextIsCurrent`: an entry is kept under the number of messages of a
  request of its session (`CacheOK`), so the request it serves counted as many. That
  the two do not see each other (`Apart`) holds because a request that counted n
  messages has n - 1 committed ones before its own (`CountedFor`), wherever its row
  has moved since: rows are only ever shown, appended or taken away by their owner,
  and each of these keeps the committed ones in their order.
* `ForgottenBounded`: the summary of a session stands for at least as many messages
  as it counts, less the recent ones (`SummaryCovers`). It is not a set of positions:
  rows move when others are rolled back. So the invariant counts the covered
  messages that `KeepRecent` committed ones follow (`CoveredAt`), and no change of the
  table lowers that number (`CoveredCarried`). A request that waits for its summary
  keeps what it read in the same sense (`ReadStays`), whoever commits meanwhile.
  `NotDue` then bounds what a request without a new summary leaves out.

`CountedFor`, `CoveredAt` and the rest are compared by increasing maps between
positions (`IncreasingMap`). `LeastPosition`, the one place that needs induction, is an
instance of the library's theorem on well-founded sets.

**RateLimiter.** `IInv` ties the counters to the requests: `active_runs` of a user
is the number of requests between `acquire_run` and `release_run` (`SlotInv`);
the tool-call window plus the calls that were checked and not yet recorded is at
most `MaxToolCalls + MaxActiveRuns - 1` (`ToolInv`); the same for model requests
(`ModelInv`). The bound of the window alone is not inductive - recording a call
raises it without looking - and the sum is: recording moves a request from one
term to the other, and a check adds one when the window is below its limit and at
most `MaxActiveRuns - 1` others are pending, which is where `SlotInv` comes in.
Counting is done by cardinalities of sets of requests, with one lemma on how the
move of one request changes them. The same invariant gives the safety half of
the refinement: each step takes a slot of `RunSlots`, returns one or does nothing
(`SlotsImplementedSafely`).

`LateCallsBounded` has an invariant of its own (`LateInv`): while a circuit is open
nothing is cleared for its server, so the calls sent to it are among those
cleared before it opened; and the request whose failure opened it is not one of
them, which is why the bound is one less than the number of requests.

**ToolTransport.** `IInv` is the types, `ExhaustedMeansSpent` and `ProgressInv`: the
caller has been given nothing before the client returns, and the client sleeps
only when an attempt is left. The second part is what keeps `attempt` within its
range, the first what makes the return single, which the refinement
(`CallImplementedSafely`) needs. The lemmas say what the kinds of results are:
`NotExhausted` (only the last attempt marks a result), `ResultKinds` (a failure is
not mistaken for a success) and `TerminalClassified` (what the client calls
terminal is not retryable for the agent), from which `TerminalAgreement` follows.

**ChatSocket.** `RunsDisjoint` is not inductive: that two loops of a run do not
overlap rests on the token store, which no loop reads. `OwnerInv` treats the right
to act for a run as a single object that is either held by a handler or lies in
the store as a token: a message creates it, `Persist` moves it to the store,
`Respond` back to a handler, and losing it (a restart, a refused model, an expired
token) is harmless. `LastInv` adds that whoever has it is at the last turn that was
started, so the turn an answer starts is new (`AnsweredOnce`). Two lemmas carry
the steps: `Quiet` for those that give nobody the right, `Started` for the two
that start a turn. `AnswerableIsRecorded` needs only the types.

**Gateway.** One invariant serves the four theorems. A handler is at a step of its
tool's script just while its audit record is open (`HandlerInv`, from the lemma
`Scripts` on the table of tools). `NoRedundantExchange` is a count, and becomes
inductive as an equation: of each club as many tokens were issued as were dropped,
and one more when one is in the cache (`TokenInv`). That an exchange finds the cache
still empty needs `LockInv`: who exchanges has the lock, so nobody else can have put
a token there since the second look. `RejectedClubTokenDropped` needs in addition
that a token in a header was issued and is for the club of the call or the static
key (`CarriedInv`): a new token is then newer than any refused one.
`SuccessMeansDone` needs that the writes of the steps behind a handler happened or,
for a request of `call_api_handler`, were redirected (`DoneInv`): a handler fails only
on a status of 400 or more.

**Credentials.** The lock is not what it seems: a commit gives its connection back
to the pool and leaves the lock on it. `OneRefreshAtATime` holds all the same,
because who refreshes is on the connection that has the lock (`LockInv`) and no two
requests are on one connection (`ConnInv`); an unlock on another connection does
nothing. `StateUsedOnce` needs that a state in use is no longer stored
(`StateInv`). `ActiveTokenUsable` rests on ownership: a refresh token is in one row,
or borne by the requests that go out with it for that row, or carried by one
authorization that is not stored yet, and never in two of these places (`Unique`).
So the exchange of a token, even of a stale copy, takes away the token of the row
that is about to get the new one and no other, and the row is the one exception of
the property until the commit (`Accept`). The lemmas `RequestRows` and
`RequestTokens` say once what a step does to rows and to tokens; the four `Unique`
lemmas carry tokens from place to place.

**SkillRuns.** `OneRowPerName` is inductive given the types, because the insertion itself
checks that the name is new. For an execution (`RecordOK`) what has been
called stays within the batches of the iterations before it, nothing has been called
on the way to the agentic loop (`SkillRunsAlone`), a state past a write was reached
by a call that succeeded (`CompleteIsVerified`), and a verdict is the end
(`NothingAfterVerdict`, an action property).

**ToolDirectory.** `DirectoryInv` says what the connection manager, the registry, the
requests under way and the run that builds the catalog know of each other.
`ConnectedIsReachable` needs that a client about to be closed is one of its request's
integration wherever it still is (`RequestInv`), that a tracked client is registered
under the name of its integration (`TrackedInv`), and that clients are numbered as
they are created (`EntriesInv`): a request that closes a client which another replaced
then drops nothing of anybody else. `CatalogCoversClients` is about an iteration
over a dict across awaits: what lies up to its place is in the catalog, is the
server it asks, or was missed (`BuildInv`, `FollowingEntry`). Assigning a fresh client
replaces one, appends, or makes a new table, and each leaves the other names their
clients (`Entered`, from `ReplacedEntries`, `AppendedEntries` and `CompactedEntries`; in a
new table the entries keep their order, `Ranks`). Only a new table brings entries
behind the place of an iteration, and those are what it has `missed`
(`IteratingRuns`); the theorem excepts them, because CPython raises nothing then.
`OfferedIsAllowed`
rests on `ExposedIsAllowed`: the filters add the built-in tools again after they
have run, which agrees with the policy only because every built-in tool is a
general one of the lowest risk (`BuiltinIsSafe`). The initial states need that counting the
connected integrations gives each of them one place (`OrderOnto`).

**WorkflowRuns.** `CallsLeaveRows` counts rows and calls, `CompletedMeansDone` completed
rows and calls. A row is written, the tool called and the row updated in three steps
with a commit in between that may fail, so both need that a task in the middle has
its row open, as the last of its step (`CallingInv`); the calls of a step are then
at least its completed rows and the one under way (`DoneInv`). `CompletedMeansClosed`,
an action property, needs `ClosedInv`: until a node raises, every open row belongs to
a task that waits, and a run is reported only when none waits.

**Worker.** `OnlyKilledLeave` and `OutlivesOnlyTimeout` relate four processes of a call.
`CallOK` says which states of the four go together; `LeftByKilled` gives each directory a
runner that is at work or was killed. `WorkspaceKept` is about two calls: the runner
that deletes a directory may share it with a later one of the run, which is
impossible while the calls are in order (`CallsInOrder`), so a directory missing under a
waiting script means a lost connection (`WaitingHas`).

**Only model-checked.** Liveness (`EventuallyStops`, `OpenCircuitRetried`,
`RequestsServed`, `RunsGetCatalog`, `ExecutionEnds`, `CallsAnswered`, the fairness
halves of `SlotsImplemented` and `CallImplemented`), which is out of the prover's
reach. Every safety invariant and every action property of a run is proved. No
module declares a recursive operator.

## 6. Where the code and its texts disagree

These properties are defined in their modules, each with a comment that quotes
the text, and are in no run: added to the module's cfg, TLC refutes them.

| property | text | code |
|---|---|---|
| `AgentLoop.RetryBudgetAcrossSteps` | the hardening specification: every retry counts against the budget | a semantic error is fed back without counting (`agentic_service.py:1328`) |
| `AgentLoop.AttemptsCountedOnce` | `agent_state.py:119` | in a streaming run a wrong keyword raises in the failure branch, and one failed execution leaves two records (`agentic_service.py:1320`) |
| `AgentLoop.SkippedLoopCut` | `agent_state.py:5`, loop detection | skipped calls are invisible to it (`agent_state.py:26`) |
| `AgentLoop.ExhaustedNotReissued` | `mcp_client.py:508` | the guard is in the retry branch only (`agentic_service.py:1484`) |
| `RateLimiter.ToolCallsWithinLimit` | `rate_limiter.py:231` | check and record are two critical sections |
| `ToolTransport.WritesNotRepeated` | the gateway's design: no retries of writes | every tool is sent again after a timeout or a 5xx (`mcp_client.py:528`) |
| `ChatSocket.QuestionsStayAnswerable` | the harness specification: tokens are kept in Redis | `set_default_token_store` has no caller (`headless_events.py:95`) |
| `Gateway.RejectedTokenDropped` | `http_utils.py`: a 401 clears the token | the static key's token, used for a club without one, stays |
| `Gateway.ReportedChangesMade` | the answers "Successfully updated" and "created" (`handlers.py:1069`) | only a status of 400 or more is a failure, and the client follows no redirect: a 3xx is reported as a change that was made (`handlers.py:1061`, `1172`, `1312`) |
| `Gateway.OneAccountPerEmail` | the look-up of `create_admin_user` | look-up and insert are two commands, and a failed look-up counts as nobody (`users.py`) |
| `Credentials.OneCredentialPerProvider` | `external_credential.py:51` | two first stores insert two rows |
| `ToolDirectory.OfferedPassesGate` | the gate's own list of servers | a tenant's server whose client had no tools when it was first seen is offered and refused for ever (`chat.py:540`) |
| `ToolDirectory.NextRunSeesClients` | `tenant_mcp_manager.py:247`: the next run's catalog has the new client | a run that is building one iterates over the dict across awaits; a removal and an insertion keep its size, the insertion may replace its table, and the run caches a catalog without a registered server (`mcp_registry.py:370`) |
| `WorkflowRuns.GateHolds` | `workflow_orchestrator.py:451` | the call of `request_approval` is a `TypeError`, the gate fails and the graph goes on |
| `Worker.TimeoutEnforced` | `worker.py:4` | killing the runner leaves bash at work |
| `Conversation.RequestReachesModel` | `context_assembly.py:4` | of two user messages in a row the later is dropped (`history.py:250`) |
| `SkillRuns.CompleteIsReported` | the break at `agentic_service.py:2701` | a complete skill is reported as out of iterations |
| `SkillRuns.CompleteHasWritten` | the states' names | a GET counts as the write |
| `SkillRuns.PointerIsActive` | `active_version` of a workflow | a PATCH of `is_active` leaves it |

Seen on the way and outside any property: every successful `execute_bash` is
reported as a failure, since its output is text where a dictionary is read
(`bash_tool.py:300`); a template that does not build leaves its run RUNNING
(`workflow_orchestrator.py:526`); `store_workflow_outcome` fails, and undoes the
user's message, whenever a tool was used, because `ToolCall` rows carry no tenant
(`chat.py:735`); a gateway that is down at startup makes `POST /chat` answer 503
until the process restarts.

## 7. Not modelled

* **Approvals and paused runs** of the chat: `Approval`, `SessionToolApproval` and
  `ToolCall` rows are built without the `tenant_id` their tables require, so none
  can be inserted and a model would start from states no run reaches. What the
  failing pause does to the turn is `Conversation`'s `PauseFails`.
* **Workflow cursor, harness, `resume_validation`, `AsyncToolExecutor`,
  `check_all_servers`, `reset_circuit`, `force_refresh` of a BRS token**: nothing
  in the application calls them.
* **Model backends, analytics and traces, authentication and tenants, frontend**:
  calls to a model (nondeterministic where they matter), read-only queries, look-ups
  without steps, rendering.
* Wording of messages and prompts and the substring tests on them (abstracted to
  the error type they yield), backoff delays, generated and vendored code,
  migrations.

Of the parts that are modelled: `AgentLoop` leaves out the content of messages and
the skill's own run (which is `SkillRuns`); `RateLimiter` the backoff computation
and the status getters; `ToolTransport` the listing of tools, the
JSON-RPC and stdio clients, of which only the results are modelled, and the path of
`execute_tool` that takes no catalog; `ChatSocket` the events of a run other than
questions, user preferences, and the choice of conversation - the store does not
record to which conversation a token belongs, so the model has one; `Gateway` OAuth
scopes, which no registered tool asks for, the readiness route, and the job and
Kubernetes executors, which are stubs; `Credentials` encryption, `api/mcp_auth.py`
and a crash between the provider's answer and the commit; `ToolDirectory` and
`ToolPolicy` tools of two servers with one name (the filters of `tool_catalog.py` keep
the first, `tool_to_server` the last), renaming,
`is_enabled` alone, auxiliary servers and the fallback of a process without the
lifespan hook; `WorkflowRuns` the resolution of inputs, checkpoints and the
classifier; `Worker` the availability probe and `calculate`; `Conversation`
preferences, working memory and the text of prompts; `SkillRuns` updates of
descriptions and definitions, arguments that are JSON but no object, and the
matching expressions. A database that does not commit ends a turn as failed; one
that loses committed rows is not modelled.
