----------------------------- MODULE AgentLoop -----------------------------
(***************************************************************************)
(* One run of the agentic loop: AgenticService.execute and                 *)
(* _execute_internal (services/agentic_service.py) over the run's          *)
(* AgentState (services/agent_state.py), with the recovery policy of       *)
(* ErrorRecovery.                                                          *)
(*                                                                         *)
(* A tool call is one element of Calls: a tool together with its           *)
(* arguments, which is what both the action key and the retry fingerprint  *)
(* hash.  The model (an LLM), the tools, the client at the other end of    *)
(* the socket and the two timeouts are the environment; they are           *)
(* nondeterministic.  An AgentState lives for one run, so does this model. *)
(*                                                                         *)
(* Two callers configure the loop: POST /chat gives it a rate limiter, a   *)
(* health checker and the approval lookups and does not stream; the        *)
(* WebSocket streams and gives it none of these.                           *)
(***************************************************************************)
EXTENDS ErrorRecovery, Sequences, Subsequences

CONSTANTS Calls,           \* tool calls the model may ask for
          RemoteCalls,     \* those served by an MCP server
          RestCalls,       \* those of them that go through MCPClient; the
                           \* rest has a JSON-RPC or stdio client
          SimpleCalls,     \* built-in tools; the rest is execute_bash
          WriteCalls,      \* is_write_tool
          SensitiveCalls,  \* need an approval unless the session holds one
          DangerousCalls,  \* need an approval every time
          MaxSteps,        \* loop_budget.max_steps
          MaxAttempts,     \* AgentState._max_total_attempts
          LoopWindow,      \* loop_window_size
          MaxBatch,        \* bound: tool calls in one answer of the model
          RequireApproval, \* require_approval_for_write
          RateLimited,     \* a RateLimiter is attached
          HealthChecked,   \* an MCPHealthChecker is attached
          Streaming        \* a stream_callback is attached

ASSUME CallsAssumption ==
  /\ RemoteCalls \subseteq Calls
  /\ RestCalls \subseteq RemoteCalls
  /\ SimpleCalls \subseteq Calls \ RemoteCalls
  /\ WriteCalls \subseteq Calls
  /\ SensitiveCalls \subseteq Calls
  /\ DangerousCalls \subseteq Calls

ASSUME BudgetAssumption ==
  /\ MaxSteps \in Nat \ {0}
  /\ MaxAttempts \in Nat
  /\ LoopWindow \in Nat \ {0}
  /\ MaxBatch \in Nat \ {0}

ASSUME ConfigAssumption ==
  {RequireApproval, RateLimited, HealthChecked, Streaming} \subseteq BOOLEAN

VARIABLES pc,          \* where the run is
          reason,      \* stopped_reason of the AgenticResult, "none" so far
          step,        \* step_num
          batch,       \* tool_calls of the current answer
          idx,         \* position of the call being handled in batch
          execs,       \* tool_executions of the current step
          history,     \* AgentState.completed_actions
          retries,     \* AgentState._fingerprint_retry_counts
          reflections, \* AgentState._fingerprint_reflection_attempts
          context,     \* calls whose success was handed to the model
          forgotten,   \* calls whose success went with a dropped step
          successes,   \* times each call succeeded, as far as the loop can see
          dispatched,  \* executions started
          spent        \* calls the client gave up on after its own retries

runState == <<history, retries, reflections>>
told     == <<context, forgotten>>
ghosts   == <<successes, dispatched, spent>>
vars == <<pc, reason, step, batch, idx, execs, runState, told, ghosts>>

Phase == {"start", "skill", "head", "llm", "gate", "exec", "commit", "stopped"}

Reason ==
  {"none", "health_check_failed", "health_check_error", "skill_executed",
   "completed", "loop_detected", "approval_needed", "rate_limited",
   "tool_unavailable", "ask_user", "error", "timeout", "crashed"}

Outcome == {"success", "retryable_failure", "non_retryable_failure",
            "skipped", "aborted"}

ActionRecord  == [call: Calls, outcome: Outcome]
ToolExecution == [pos: Nat, call: Calls, ok: BOOLEAN]

Init ==
  /\ pc = "start"
  /\ reason = "none"
  /\ step = 0
  /\ batch = <<>>
  /\ idx = 0
  /\ execs = <<>>
  /\ history = <<>>
  /\ retries = [c \in Calls |-> 0]
  /\ reflections = [c \in Calls |-> 0]
  /\ context = {}
  /\ forgotten = {}
  /\ successes = [c \in Calls |-> 0]
  /\ dispatched = 0
  /\ spent = {}

-----------------------------------------------------------------------------
(* AgentState                                                              *)

RecordedAs(c, outcomes) ==
  \E i \in DOMAIN history : history[i].call = c /\ history[i].outcome \in outcomes

\* Mutant: the deduplication of one step only.
CompletedThisStep(c) == \E i \in DOMAIN execs : execs[i].call = c /\ execs[i].ok

HasActionBeenCompleted(c) == RecordedAs(c, {"success"})

HasActionFailedTerminally(c) == RecordedAs(c, {"non_retryable_failure", "aborted"})

\* Mutant: one attempt too many.
BudgetOverrun == Len(history) > MaxAttempts

IsBudgetExhausted == Len(history) >= MaxAttempts

CanReflect(c) == reflections[c] < 1

Entry(c, outcome) == [call |-> c, outcome |-> outcome]

\* record_action; retry and reflection counters are left to the caller.
RecordAction(c, outcome) == history' = Append(history, Entry(c, outcome))

\* The records loop detection looks at: calls that were not skipped.
Tried == { i \in DOMAIN history : history[i].outcome # "skipped" }

\* Mutant: needs one action more than two windows.
DetectLoopLate ==
  LET actions == At(history, Tried)
      n == Len(actions)
  IN /\ n > 2 * LoopWindow
     /\ \A i \in 0 .. LoopWindow - 1 :
          actions[n - i].call = actions[n - LoopWindow - i].call

\* detect_loop: the last two windows of actions that were not skipped hold
\* the same calls, whatever their outcomes.
DetectLoop ==
  LET actions == At(history, Tried)
      n == Len(actions)
  IN /\ n >= 2 * LoopWindow
     /\ \A i \in 0 .. LoopWindow - 1 :
          actions[n - i].call = actions[n - LoopWindow - i].call

-----------------------------------------------------------------------------
(* Where a step leaves the run                                             *)

Stop(why) ==
  /\ pc' = "stopped"
  /\ reason' = why
  /\ UNCHANGED <<step, batch, idx, told>>

\* On to the next tool call of the batch, or out of the for loop.
NextCall ==
  /\ pc' = IF idx < Len(batch) THEN "gate" ELSE "commit"
  /\ idx' = idx + 1
  /\ UNCHANGED <<reason, step, batch, told>>

\* should_retry_step: the executions of this step and the answer that asked
\* for them are dropped; the step number is used up all the same.
DropStep ==
  /\ pc' = "head"
  /\ batch' = <<>>
  /\ idx' = 0
  /\ execs' = <<>>
  /\ UNCHANGED <<reason, step, context>>

\* The calls of this step that succeeded so far.
Succeeded == { execs[i].call : i \in { j \in DOMAIN execs : execs[j].ok } }

\* What the model is not told of because its step is repeated.
Forget == forgotten' = forgotten \cup Succeeded

AppendExecution(c, ok) ==
  execs' = Append(execs, [pos |-> idx, call |-> c, ok |-> ok])

Current == batch[idx]

-----------------------------------------------------------------------------
(* Before the loop                                                         *)

HealthCheckFails ==
  /\ pc = "start"
  /\ \E why \in {"health_check_failed", "health_check_error"} : Stop(why)
  /\ UNCHANGED <<execs, runState, ghosts>>

HealthCheckPasses ==
  /\ pc = "start"
  /\ pc' = "skill"
  /\ UNCHANGED <<reason, step, batch, idx, execs, runState, told, ghosts>>

\* A skill matched the message and ran instead of the loop.
SkillMatched ==
  /\ pc = "skill"
  /\ Stop("skill_executed")
  /\ UNCHANGED <<execs, runState, ghosts>>

NoSkillMatched ==
  /\ pc = "skill"
  /\ pc' = "head"
  /\ UNCHANGED <<reason, step, batch, idx, execs, runState, told, ghosts>>

-----------------------------------------------------------------------------
(* The head of the loop and the model's answer                             *)

MaxStepsReached ==
  /\ pc = "head"
  /\ step = MaxSteps
  /\ Stop("ask_user")
  /\ UNCHANGED <<execs, runState, ghosts>>

LoopDetected ==
  /\ pc = "head"
  /\ step < MaxSteps
  /\ DetectLoop
  /\ step' = step + 1
  /\ pc' = "stopped"
  /\ reason' = "loop_detected"
  /\ UNCHANGED <<batch, idx, execs, runState, told, ghosts>>

\* Mutant: a step that executed nothing is not counted.
NextStepIfWorked ==
  /\ pc = "head"
  /\ step < MaxSteps
  /\ ~DetectLoop
  /\ step' = IF execs = <<>> /\ step > 0 THEN step ELSE step + 1
  /\ pc' = "llm"
  /\ UNCHANGED <<reason, batch, idx, execs, runState, told, ghosts>>

NextStep ==
  /\ pc = "head"
  /\ step < MaxSteps
  /\ ~DetectLoop
  /\ step' = step + 1
  /\ pc' = "llm"
  /\ UNCHANGED <<reason, batch, idx, execs, runState, told, ghosts>>

ModelFails ==
  /\ pc = "llm"
  /\ Stop("error")
  /\ UNCHANGED <<execs, runState, ghosts>>

ModelAnswersText ==
  /\ pc = "llm"
  /\ Stop("completed")
  /\ UNCHANGED <<execs, runState, ghosts>>

ModelCallsTools ==
  /\ pc = "llm"
  /\ \E n \in 1 .. MaxBatch : batch' \in [1 .. n -> Calls]
  /\ idx' = 1
  /\ execs' = <<>>
  /\ pc' = "gate"
  /\ UNCHANGED <<reason, step, runState, told, ghosts>>

-----------------------------------------------------------------------------
(* The gate: what is checked, in this order, before a call is executed     *)

ApprovalNeeded(c) ==
  /\ pc = "gate"
  /\ RequireApproval
  /\ c \in DangerousCalls \cup SensitiveCalls
  /\ Stop("approval_needed")
  /\ UNCHANGED <<execs, runState, ghosts>>

\* A sensitive call passes when the session holds an approval for it.
Approved(c) == pc = "gate" /\ ~(RequireApproval /\ c \in DangerousCalls)

SkipDuplicate(c) ==
  /\ Approved(c)
  /\ HasActionBeenCompleted(c)
  /\ NextCall
  /\ UNCHANGED <<execs, runState, ghosts>>

Fresh(c) == Approved(c) /\ ~HasActionBeenCompleted(c)

RateLimitReached(c) ==
  /\ Fresh(c)
  /\ RateLimited
  /\ Stop("rate_limited")
  /\ UNCHANGED <<execs, runState, ghosts>>

\* The circuit of the call's server is open, or the server is unhealthy and
\* the call only reads: the call is recorded as skipped and answered.
SkipCall(c) ==
  /\ Fresh(c)
  /\ \/ RateLimited /\ c \in RemoteCalls
     \/ HealthChecked /\ c \notin SimpleCalls \cup WriteCalls
  /\ RecordAction(c, "skipped")
  /\ AppendExecution(c, FALSE)
  /\ NextCall
  /\ UNCHANGED <<retries, reflections, ghosts>>

WriteToolUnavailable(c) ==
  /\ Fresh(c)
  /\ HealthChecked
  /\ c \in WriteCalls \ SimpleCalls
  /\ Stop("tool_unavailable")
  /\ UNCHANGED <<execs, runState, ghosts>>

\* Between these two lies a branch for a call that failed terminally before.
\* No run reaches it (TerminalFailureStops), so it has no action.
AttemptBudgetExhausted(c) ==
  /\ Fresh(c)
  /\ IsBudgetExhausted
  /\ Stop("error")
  /\ UNCHANGED <<execs, runState, ghosts>>

Dispatch(c) ==
  /\ Fresh(c)
  /\ ~HasActionFailedTerminally(c)
  /\ ~IsBudgetExhausted
  /\ pc' = "exec"
  /\ dispatched' = dispatched + 1
  /\ UNCHANGED <<reason, step, batch, idx, execs, runState, told,
                 successes, spent>>

-----------------------------------------------------------------------------
(* The execution: success, each way a failure is recovered, and exceptions *)

Succeed(c) ==
  /\ pc = "exec"
  /\ successes' = [successes EXCEPT ![c] = @ + 1]
  /\ RecordAction(c, "success")
  /\ AppendExecution(c, TRUE)
  /\ NextCall
  /\ UNCHANGED <<retries, reflections, dispatched, spent>>

FailuresOf(c) ==
  CASE c \in RestCalls                -> RestFailures
    [] c \in RemoteCalls \ RestCalls  -> RpcFailures
    [] OTHER                          -> LocalFailures

\* A failure of the call for which the policy picks this strategy.
FailsWith(c, f, strategy) ==
  /\ pc = "exec"
  /\ f \in FailuresOf(c)
  /\ DecideRecovery(f.type, retries[c]).strategy = strategy
  /\ spent' = IF f.exhausted THEN spent \cup {c} ELSE spent
  /\ UNCHANGED <<successes, dispatched>>

RetryStep(c, f) ==
  /\ FailsWith(c, f, "retry")
  /\ ~f.semantic /\ ~f.exhausted
  /\ RecordAction(c, "retryable_failure")
  /\ retries' = [retries EXCEPT ![c] = @ + 1]
  /\ DropStep
  /\ Forget
  /\ UNCHANGED reflections

\* A semantic error the model should see.  A streaming run then calls
\* tool_result with arguments it does not take; the exception handler around
\* the execution records and appends the same call once more.
FeedBack(c, f) ==
  /\ FailsWith(c, f, "retry")
  /\ f.semantic /\ ~f.blocking
  /\ LET entry == Entry(c, "retryable_failure")
         answer == [pos |-> idx, call |-> c, ok |-> FALSE]
     IN IF Streaming
          THEN /\ history' = history \o <<entry, entry>>
               /\ execs' = execs \o <<answer, answer>>
          ELSE /\ history' = Append(history, entry)
               /\ execs' = Append(execs, answer)
  /\ NextCall
  /\ UNCHANGED <<retries, reflections>>

\* The words ask for an approval, or the client has spent its own retries.
Escalate(c, f) ==
  /\ FailsWith(c, f, "retry")
  /\ IF f.semantic THEN f.blocking ELSE f.exhausted
  /\ RecordAction(c, "non_retryable_failure")
  /\ Stop("ask_user")
  /\ UNCHANGED <<execs, retries, reflections>>

Reflectable(c, f) ==
  f.type \in {"validation_error", "malformed_output"} /\ CanReflect(c)

Reflect(c, f) ==
  /\ FailsWith(c, f, "ask_user")
  /\ Reflectable(c, f)
  /\ RecordAction(c, "retryable_failure")
  /\ reflections' = [reflections EXCEPT ![c] = @ + 1]
  /\ DropStep
  /\ Forget
  /\ UNCHANGED retries

AskUser(c, f) ==
  /\ FailsWith(c, f, "ask_user")
  /\ ~Reflectable(c, f)
  /\ RecordAction(c, IF DecideRecovery(f.type, retries[c]).terminal
                       THEN "non_retryable_failure" ELSE "retryable_failure")
  /\ Stop("ask_user")
  /\ UNCHANGED <<execs, retries, reflections>>

\* Mutant: an aborted call does not end the run.
AbortWithoutReturn(c, f) ==
  /\ FailsWith(c, f, "abort")
  /\ RecordAction(c, "aborted")
  /\ AppendExecution(c, FALSE)
  /\ NextCall
  /\ UNCHANGED <<retries, reflections>>

Abort(c, f) ==
  /\ FailsWith(c, f, "abort")
  /\ RecordAction(c, "aborted")
  /\ Stop("error")
  /\ UNCHANGED <<execs, retries, reflections>>

\* Mutant: an exception drops the step.
RaiseDropsStep(c, type) ==
  /\ pc = "exec"
  /\ IF IsErrorRetryable(type)
       THEN RecordAction(c, "retryable_failure") /\ DropStep /\ UNCHANGED forgotten
       ELSE /\ RecordAction(c, "non_retryable_failure")
            /\ AppendExecution(c, FALSE)
            /\ Stop("error")
  /\ UNCHANGED <<retries, reflections, ghosts>>

\* An exception instead of a result, classified by its words.
Raise(c, type) ==
  /\ pc = "exec"
  /\ AppendExecution(c, FALSE)
  /\ IF IsErrorRetryable(type)
       THEN RecordAction(c, "retryable_failure") /\ NextCall
       ELSE RecordAction(c, "non_retryable_failure") /\ Stop("error")
  /\ UNCHANGED <<retries, reflections, ghosts>>

HandleFailure(c) ==
  \/ \E f \in FailuresOf(c) :
       \/ RetryStep(c, f) \/ FeedBack(c, f) \/ Escalate(c, f)
       \/ Reflect(c, f) \/ AskUser(c, f) \/ Abort(c, f)
  \/ \E type \in TextTypes : Raise(c, type)

-----------------------------------------------------------------------------
(* End of a step, and what strikes at any await                            *)

\* The step is kept and its executions become tool messages.
Commit ==
  /\ pc = "commit"
  /\ context' = context \cup Succeeded
  /\ pc' = "head"
  /\ UNCHANGED <<reason, step, batch, idx, execs, runState, forgotten, ghosts>>

\* A call in flight may have succeeded; nothing was recorded of it.
InFlight ==
  /\ \/ UNCHANGED successes
     \/ pc = "exec" /\ successes' = [successes EXCEPT ![Current] = @ + 1]
  /\ UNCHANGED <<execs, runState, dispatched, spent>>

\* asyncio.wait_for cancels the run.
TimedOut ==
  /\ pc \notin {"start", "stopped"}
  /\ InFlight
  /\ Stop("timeout")

\* The socket is gone: the next event sent raises out of the run.
ClientGone ==
  /\ Streaming
  /\ pc \notin {"start", "stopped"}
  /\ InFlight
  /\ Stop("crashed")

-----------------------------------------------------------------------------
Gate(c) ==
  \/ ApprovalNeeded(c) \/ SkipDuplicate(c) \/ RateLimitReached(c)
  \/ SkipCall(c) \/ WriteToolUnavailable(c)
  \/ AttemptBudgetExhausted(c) \/ Dispatch(c)

LoopProgress ==
  \/ HealthCheckFails \/ HealthCheckPasses \/ SkillMatched \/ NoSkillMatched
  \/ MaxStepsReached \/ LoopDetected \/ NextStep
  \/ ModelFails \/ ModelAnswersText \/ ModelCallsTools
  \/ \E c \in Calls : /\ pc \in {"gate", "exec"}
                      /\ c = Current
                      /\ Gate(c) \/ Succeed(c) \/ HandleFailure(c)
  \/ Commit

Ended == pc = "stopped" /\ UNCHANGED vars

Next == LoopProgress \/ TimedOut \/ ClientGone \/ Ended

\* Every await of the loop returns (the clients it awaits have timeouts), so
\* the coroutine keeps moving; neither interruption is owed.
Fairness == WF_vars(LoopProgress)

Spec == Init /\ [][Next]_vars /\ Fairness

-----------------------------------------------------------------------------
(* What the loop promises                                                  *)

\* The state has the shape AgentState and the loop's locals have.
TypeOK ==
  /\ pc \in Phase
  /\ reason \in Reason
  /\ step \in 0 .. MaxSteps
  /\ batch \in Seq(Calls)
  /\ idx \in Nat
  /\ pc \in {"gate", "exec"} => idx \in 1 .. Len(batch)
  /\ execs \in Seq(ToolExecution)
  /\ history \in Seq(ActionRecord)
  /\ retries \in [Calls -> Nat]
  /\ reflections \in [Calls -> Nat]
  /\ context \subseteq Calls
  /\ forgotten \subseteq Calls
  /\ successes \in [Calls -> Nat]
  /\ dispatched \in Nat
  /\ spent \subseteq Calls

\* "Accurate deduplication of tool calls" (agent_state.py:4): whatever the
\* model asks for, over the steps and batches of a run and its dropped steps,
\* a call succeeds at most once, even if the run is cut off while one is in
\* flight.  What attempts of the client that failed did at the server is
\* ToolTransport's subject.
NoRepeatedSuccess == \A c \in Calls : successes[c] <= 1

\* A run never continues past a failure it recorded as terminal
\* (NON_RETRYABLE_FAILURE or ABORTED): every path that writes one returns.
TerminalFailureStops ==
  pc # "stopped" => \A c \in Calls : ~HasActionFailedTerminally(c)

\* Retries are counted per call for the whole run (agent_state.py:80-82), so
\* no series of steps gives a call more than max_retries of them, nor more
\* than one reflection turn.
RetriesBounded ==
  \A c \in Calls : retries[c] <= MaxRetries /\ reflections[c] <= 1

\* One layer owns the retries of a call: what goes through MCPClient, which
\* retries itself, is never retried by the agent, since each of its failures
\* is either semantic or marked as retried.  The JSON-RPC and stdio clients
\* send once, and the agent does retry their calls.
TransportOwnsRestRetries == \A c \in RestCalls : retries[c] = 0

\* _max_total_attempts is a "hard cap on total tool attempts"
\* (agent_state.py:78): executions started never exceed it, although the
\* budget counts records and is read before the call is made.
ExecutionsCapped == dispatched <= MaxAttempts

\* A success is in the model's context when the next step starts.  The only
\* exception is a success of a step that a retry or a reflection turn dropped:
\* it is forgotten for good, since its call is skipped as a duplicate from
\* then on.
ResultsReachModel ==
  pc = "head" =>
    \A c \in Calls : HasActionBeenCompleted(c) => c \in context \cup forgotten

\* When a step ends, every tool call of the answer has exactly one execution,
\* except a call skipped as a duplicate, which has none.
AnswersMatchCalls ==
  pc = "commit" =>
    \A p \in 1 .. Len(batch) :
      LET answers == { i \in DOMAIN execs : execs[i].pos = p }
      IN \/ \E i \in answers : answers = {i} /\ execs[i].call = batch[p]
         \/ answers = {} /\ HasActionBeenCompleted(batch[p])

\* What the records of a run owe its messages: every success but those of
\* dropped steps comes back to the model, and every call of a committed step
\* is answered once.
Sound == TypeOK /\ ResultsReachModel /\ AnswersMatchCalls

\* Of these records the last ones, as long as they are of one call.
Streak(records) ==
  { i \in records : \A j \in records : i <= j => history[i].call = history[j].call }

\* A model that repeats one call is cut off: the same call is never recorded
\* on end more often than two loop windows and the rest of one batch, each
\* record counted twice when streaming.
StuckLoopCut ==
  LET each == IF Streaming THEN 2 ELSE 1
  IN Cardinality(Streak(Tried)) <= 2 * LoopWindow - 1 + each * MaxBatch

\* Each run ends: with a result, or cut off.
EventuallyStops == <>(pc = "stopped")

-----------------------------------------------------------------------------
(* What the documents say and the code does not do                         *)

\* "Same tool+args cannot exceed configured retry budget across steps": a
\* call is tried at most once plus its budget.
\* (docs/superpowers/specs/2026-05-12-agent-runtime-hardening-and-scale-spec.md:78)
RetryBudgetAcrossSteps ==
  \A c \in Calls :
    Cardinality({ i \in Tried : history[i].call = c }) <= 1 + AttemptBudget

\* "Get the number of attempts for a specific action" (agent_state.py:119):
\* no more attempts are on record than executions were started.
AttemptsCountedOnce == Cardinality(Tried) <= dispatched

\* "Loop detection that considers failed/skipped attempts" (agent_state.py:5):
\* a step is not started after two windows of one and the same record.
SkippedLoopCut == pc = "llm" => Cardinality(Streak(DOMAIN history)) < 2 * LoopWindow

\* "Transport retries exhausted - agent should NOT retry this"
\* (mcp_client.py:508): the call is not executed again in the run.
ExhaustedNotReissued == pc = "exec" => Current \notin spent
=============================================================================
