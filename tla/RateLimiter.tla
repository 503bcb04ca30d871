---------------------------- MODULE RateLimiter ----------------------------
(***************************************************************************)
(* The RateLimiter of one process (services/rate_limiter.py) as the        *)
(* requests to POST /chat use it (api/chat.py, services/agentic_service.py)*)
(* The limiter's methods are critical sections of one asyncio lock, an     *)
(* action each; between two of them the other requests run.                *)
(*                                                                         *)
(* Time is left to the environment: a timestamp leaves its one-minute      *)
(* window (Expire), the recovery timeout of an open circuit elapses.       *)
(***************************************************************************)
EXTENDS Naturals, FiniteSets

CONSTANTS Runs,             \* requests to POST /chat
          Users,
          Owner,            \* the user of each run
          Servers,          \* MCP servers, one circuit breaker each
          Local,            \* a tool no server offers
          MaxActiveRuns,    \* max_active_runs_per_user
          MaxToolCalls,     \* max_tool_calls_per_minute
          MaxModelRequests, \* max_model_requests_per_minute
          FailureThreshold, \* circuit_failure_threshold
          SuccessThreshold, \* circuit_success_threshold
          MaxCalls          \* bound: tool calls one run asks for

ASSUME RunsAssumption ==
  /\ IsFiniteSet(Runs)
  /\ Owner \in [Runs -> Users]
  /\ Local \notin Servers

ASSUME LimitsAssumption ==
  /\ MaxActiveRuns \in Nat \ {0}
  /\ MaxToolCalls \in Nat
  /\ MaxModelRequests \in Nat
  /\ FailureThreshold \in Nat \ {0}
  /\ SuccessThreshold \in Nat \ {0}
  /\ MaxCalls \in Nat

VARIABLES pc,            \* where each request is
          target,        \* server of the tool the run is calling
          left,          \* calls the run may still ask for
          activeRuns,    \* UserRateLimitState.active_runs
          toolCalls,     \* timestamps of tool_calls inside the window
          modelRequests, \* timestamps of model_requests inside the window
          circuit,       \* CircuitBreaker of each server
          lateCalls      \* calls sent to an open circuit since it opened

requests == <<pc, target, left>>
windows  == <<toolCalls, modelRequests>>
breakers == <<circuit, lateCalls>>
vars     == <<requests, activeRuns, windows, breakers>>

\* idle    no request         admit    passed check_active_run_limit
\* slot    holds a slot       prepare  passed check_model_request_limit
\* loop    in the agent loop  admitted passed check_tool_call_limit
\* cleared passed the circuit calling  the call is recorded and sent
\* leaving in the finally clause of the endpoint
Phase == {"idle", "admit", "slot", "prepare", "loop", "admitted", "cleared",
          "calling", "leaving"}

CircuitState == {"closed", "open", "half_open"}

\* recovered: circuit_recovery_timeout_seconds have passed since the last
\* change of state.  failure_count matters up to its threshold only.
Breaker == [state: CircuitState, failures: 0 .. FailureThreshold,
            successes: 0 .. SuccessThreshold, recovered: BOOLEAN]

Circuit(state, failures, successes, recovered) ==
  [state |-> state, failures |-> failures, successes |-> successes,
   recovered |-> recovered]

Closed == Circuit("closed", 0, 0, FALSE)

Init ==
  /\ pc = [r \in Runs |-> "idle"]
  /\ target = [r \in Runs |-> Local]
  /\ left = [r \in Runs |-> 0]
  /\ activeRuns = [u \in Users |-> 0]
  /\ toolCalls = [u \in Users |-> 0]
  /\ modelRequests = [u \in Users |-> 0]
  /\ circuit = [s \in Servers |-> Closed]
  /\ lateCalls = [s \in Servers |-> 0]

MoveTo(r, phase) == pc' = [pc EXCEPT ![r] = phase]

HasSlot(r) == pc[r] \notin {"idle", "admit"}

-----------------------------------------------------------------------------
(* Admission of a request                                                  *)

\* check_active_run_limit; a refusal changes nothing.
CheckActiveRuns(r) ==
  /\ pc[r] = "idle"
  /\ activeRuns[Owner[r]] < MaxActiveRuns
  /\ MoveTo(r, "admit")
  /\ UNCHANGED <<target, left, activeRuns, windows, breakers>>

AcquireRun(r) ==
  /\ pc[r] = "admit"
  /\ activeRuns[Owner[r]] < MaxActiveRuns
  /\ activeRuns' = [activeRuns EXCEPT ![Owner[r]] = @ + 1]
  /\ MoveTo(r, "slot")
  /\ UNCHANGED <<target, left, windows, breakers>>

\* Mutant: a request refused a slot leaves through the finally clause.
RefuseThenRelease(r) ==
  /\ pc[r] = "admit"
  /\ activeRuns[Owner[r]] >= MaxActiveRuns
  /\ MoveTo(r, "leaving")
  /\ UNCHANGED <<target, left, activeRuns, windows, breakers>>

RefuseRun(r) ==
  /\ pc[r] = "admit"
  /\ activeRuns[Owner[r]] >= MaxActiveRuns
  /\ MoveTo(r, "idle")
  /\ UNCHANGED <<target, left, activeRuns, windows, breakers>>

CheckModelRequests(r) ==
  /\ pc[r] = "slot"
  /\ MoveTo(r, IF modelRequests[Owner[r]] < MaxModelRequests
                 THEN "prepare" ELSE "leaving")
  /\ UNCHANGED <<target, left, activeRuns, windows, breakers>>

\* Once per request, whatever number of answers the loop asks the model for.
RecordModelRequest(r) ==
  /\ pc[r] = "prepare"
  /\ modelRequests' = [modelRequests EXCEPT ![Owner[r]] = @ + 1]
  /\ left' = [left EXCEPT ![r] = MaxCalls]
  /\ MoveTo(r, "loop")
  /\ UNCHANGED <<target, activeRuns, toolCalls, breakers>>

\* Every other exit: a required server is down, no such session, an
\* exception, a timeout, or the end of the loop.
Leave(r) ==
  /\ pc[r] \in {"slot", "prepare", "loop", "admitted", "cleared", "calling"}
  /\ MoveTo(r, "leaving")
  /\ UNCHANGED <<target, left, activeRuns, windows, breakers>>

\* release_run, from the finally clause.
ReleaseRun(r) ==
  /\ pc[r] = "leaving"
  /\ activeRuns' = [activeRuns EXCEPT ![Owner[r]] = IF @ > 0 THEN @ - 1 ELSE 0]
  /\ target' = [target EXCEPT ![r] = Local]
  /\ left' = [left EXCEPT ![r] = 0]
  /\ MoveTo(r, "idle")
  /\ UNCHANGED <<windows, breakers>>

-----------------------------------------------------------------------------
(* One circuit breaker                                                     *)

ToHalfOpen(cb) == Circuit("half_open", cb.failures, 0, FALSE)

ToOpen(cb, failures) == Circuit("open", failures, cb.successes, FALSE)

\* Mutant: is_available, which looks at the state and leaves it alone.
CheckedOnly(cb) == cb

\* maybe_transition_to_half_open: the breaker after it; the call passes
\* unless that is open.
Checked(cb) == IF cb.state = "open" /\ cb.recovered THEN ToHalfOpen(cb) ELSE cb

AfterSuccess(cb) ==
  CASE cb.state = "half_open" /\ cb.successes + 1 < SuccessThreshold
         -> Circuit("half_open", cb.failures, cb.successes + 1, FALSE)
    [] cb.state = "half_open" /\ cb.successes + 1 >= SuccessThreshold -> Closed
    [] cb.state = "closed" -> Circuit("closed", 0, cb.successes, FALSE)
    [] OTHER               -> cb

\* failure_count goes on counting while the circuit is not closed; only its
\* threshold matters, so the count stops there.
AfterFailure(cb) ==
  LET failures == IF cb.failures < FailureThreshold THEN cb.failures + 1
                                                    ELSE FailureThreshold
      opens == \/ cb.state = "half_open"
               \/ cb.state = "closed" /\ failures = FailureThreshold
  IN IF opens THEN ToOpen(cb, failures)
              ELSE Circuit(cb.state, failures, cb.successes, cb.recovered)

\* The breaker of s becomes cb; a new state starts the count of late calls.
SetCircuit(s, cb) ==
  /\ circuit' = [circuit EXCEPT ![s] = cb]
  /\ lateCalls' = IF cb.state = circuit[s].state
                    THEN lateCalls ELSE [lateCalls EXCEPT ![s] = 0]

\* circuit_recovery_timeout_seconds after the circuit opened.
RecoveryElapses(s) ==
  /\ circuit[s].state = "open"
  /\ ~circuit[s].recovered
  /\ circuit' = [circuit EXCEPT ![s].recovered = TRUE]
  /\ UNCHANGED <<requests, activeRuns, windows, lateCalls>>

-----------------------------------------------------------------------------
(* One tool call of a run                                                  *)

\* Mutant: lets one call too many in.
CheckToolCallsLate(r) ==
  /\ pc[r] = "loop"
  /\ left[r] > 0
  /\ left' = [left EXCEPT ![r] = @ - 1]
  /\ \E t \in Servers \cup {Local} : target' = [target EXCEPT ![r] = t]
  /\ MoveTo(r, IF toolCalls[Owner[r]] <= MaxToolCalls THEN "admitted" ELSE "leaving")
  /\ UNCHANGED <<activeRuns, windows, breakers>>

\* check_tool_call_limit for the next call the model asked for; a refusal ends
\* the run.
CheckToolCalls(r) ==
  /\ pc[r] = "loop"
  /\ left[r] > 0
  /\ left' = [left EXCEPT ![r] = @ - 1]
  /\ \E t \in Servers \cup {Local} : target' = [target EXCEPT ![r] = t]
  /\ MoveTo(r, IF toolCalls[Owner[r]] < MaxToolCalls THEN "admitted" ELSE "leaving")
  /\ UNCHANGED <<activeRuns, windows, breakers>>

\* check_circuit for the server the tool is found on; a call it refuses is
\* skipped and the loop goes on.
CheckCircuit(r) ==
  LET s  == target[r]
      cb == Checked(circuit[s])
  IN /\ pc[r] = "admitted"
     /\ s \in Servers
     /\ SetCircuit(s, cb)
     /\ MoveTo(r, IF cb.state = "open" THEN "loop" ELSE "cleared")
     /\ UNCHANGED <<target, left, activeRuns, windows>>

\* No server offers the tool: no circuit to ask.
NoCircuit(r) ==
  /\ pc[r] = "admitted"
  /\ target[r] = Local
  /\ MoveTo(r, "cleared")
  /\ UNCHANGED <<target, left, activeRuns, windows, breakers>>

\* The health checker says that the tool is not available.
SkipUnhealthy(r) ==
  /\ pc[r] = "cleared"
  /\ MoveTo(r, "loop")
  /\ UNCHANGED <<target, left, activeRuns, windows, breakers>>

\* record_tool_call, and the call goes out.
RecordToolCall(r) ==
  LET s == target[r]
  IN /\ pc[r] = "cleared"
     /\ toolCalls' = [toolCalls EXCEPT ![Owner[r]] = @ + 1]
     /\ lateCalls' = IF s \in Servers /\ circuit[s].state = "open"
                       THEN [lateCalls EXCEPT ![s] = @ + 1] ELSE lateCalls
     /\ MoveTo(r, "calling")
     /\ UNCHANGED <<target, left, activeRuns, modelRequests, circuit>>

\* The call comes back with a result, which the breaker of its server counts.
CallSucceeds(r) ==
  /\ pc[r] = "calling"
  /\ IF target[r] \in Servers
       THEN SetCircuit(target[r], AfterSuccess(circuit[target[r]]))
       ELSE UNCHANGED breakers
  /\ MoveTo(r, "loop")
  /\ UNCHANGED <<target, left, activeRuns, windows>>

CallFails(r) ==
  /\ pc[r] = "calling"
  /\ IF target[r] \in Servers
       THEN SetCircuit(target[r], AfterFailure(circuit[target[r]]))
       ELSE UNCHANGED breakers
  /\ MoveTo(r, "loop")
  /\ UNCHANGED <<target, left, activeRuns, windows>>

\* It raises instead: the handler reports nothing to the breaker.
CallRaises(r) ==
  /\ pc[r] = "calling"
  /\ MoveTo(r, "loop")
  /\ UNCHANGED <<target, left, activeRuns, windows, breakers>>

-----------------------------------------------------------------------------
\* A minute after a request was recorded its timestamp is outside the window.
ExpireToolCall(u) ==
  /\ toolCalls[u] > 0
  /\ toolCalls' = [toolCalls EXCEPT ![u] = @ - 1]
  /\ UNCHANGED <<requests, activeRuns, modelRequests, breakers>>

ExpireModelRequest(u) ==
  /\ modelRequests[u] > 0
  /\ modelRequests' = [modelRequests EXCEPT ![u] = @ - 1]
  /\ UNCHANGED <<requests, activeRuns, toolCalls, breakers>>

\* A request once accepted; whether a client sends one is left open.
Serve(r) ==
  \/ AcquireRun(r) \/ RefuseRun(r) \/ CheckModelRequests(r)
  \/ RecordModelRequest(r) \/ Leave(r) \/ ReleaseRun(r)
  \/ CheckToolCalls(r) \/ CheckCircuit(r) \/ NoCircuit(r) \/ SkipUnhealthy(r)
  \/ RecordToolCall(r) \/ CallSucceeds(r) \/ CallFails(r) \/ CallRaises(r)

Next ==
  \/ \E r \in Runs : CheckActiveRuns(r) \/ Serve(r)
  \/ \E s \in Servers : RecoveryElapses(s)
  \/ \E u \in Users : ExpireToolCall(u) \/ ExpireModelRequest(u)

SafeSpec == Init /\ [][Next]_vars

\* Every await of a request returns (the lock is held for no await, the
\* clients have timeouts), and time goes on.
Spec ==
  /\ SafeSpec
  /\ \A r \in Runs : WF_vars(Serve(r))
  /\ \A s \in Servers : WF_vars(RecoveryElapses(s))

-----------------------------------------------------------------------------
(* What the limiter promises                                               *)

\* The limiter's counters have the shape its dataclasses give them, and a user
\* never has more than max_active_runs_per_user runs although the endpoint
\* asks first and acquires later.
TypeOK ==
  /\ pc \in [Runs -> Phase]
  /\ target \in [Runs -> Servers \cup {Local}]
  /\ left \in [Runs -> 0 .. MaxCalls]
  /\ activeRuns \in [Users -> 0 .. MaxActiveRuns]
  /\ toolCalls \in [Users -> Nat]
  /\ modelRequests \in [Users -> Nat]
  /\ circuit \in [Servers -> Breaker]
  /\ lateCalls \in [Servers -> Nat]

Holders == { r \in Runs : HasSlot(r) }

Slots == INSTANCE RunSlots WITH holders <- Holders

\* acquire_run and release_run over every exit of the endpoint are a bounded
\* set of slots: none is handed out twice, none is lost, none is kept.
SlotsImplemented == Slots!Spec

\* check_tool_call_limit and record_tool_call are apart, so concurrent runs
\* pass the limit together: by no more than the user's other runs.
ToolCallsBounded ==
  \A u \in Users : toolCalls[u] <= MaxToolCalls + MaxActiveRuns - 1

\* The same for check_model_request_limit and record_model_request.
ModelRequestsBounded ==
  \A u \in Users : modelRequests[u] <= MaxModelRequests + MaxActiveRuns - 1

\* Calls cleared before a circuit opened still go out, one for each other run
\* at most: the open circuit stops everything else until it is half-open.
LateCallsBounded ==
  \A s \in Servers :
    circuit[s].state = "open" => lateCalls[s] < Cardinality(Runs)

\* The counters of a user and of a server never run past their limits by more
\* than the calls that were cleared while another run was between its check
\* and its record.
Sound == TypeOK /\ ToolCallsBounded /\ ModelRequestsBounded /\ LateCallsBounded

\* A circuit that runs keep asking for does not stay open: a failing server is
\* tried again, without a restart.
OpenCircuitRetried ==
  \A s \in Servers :
    []<><<\E r \in Runs : target[r] = s /\ CheckCircuit(r)>>_vars
      => []<>(circuit[s].state # "open")

-----------------------------------------------------------------------------
(* What the messages and comments say and the code does not do             *)

\* "Rate limit: max {n} tool calls per minute" (rate_limiter.py:231-233).
ToolCallsWithinLimit == \A u \in Users : toolCalls[u] <= MaxToolCalls
=============================================================================
