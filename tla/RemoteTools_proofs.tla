------------------------- MODULE RemoteTools_proofs -------------------------
(***************************************************************************)
(* Proofs about the two ways a tool call leaves the backend: to a server   *)
(* of tools (ToolTransport), for any tools and any number of retries, and  *)
(* to the sandbox (Worker), for any runs, calls, restarts and losses.      *)
(***************************************************************************)
EXTENDS ToolTransport, Worker, TLAPS

-----------------------------------------------------------------------------
(* The results a call can come back with                                   *)

\* Only the last attempt's results say that the retries are spent.
LEMMA NotExhausted ==
  \A r \in RestResults \ ExhaustedResults : r.exhausted = FALSE
<1>1. \A r \in EnvelopeResults : r.exhausted = FALSE
  BY DEF EnvelopeResults, Failed
<1>2. \A status \in SemanticStatuses : StatusResult(status).exhausted = FALSE
  BY DEF StatusResult, Failed
<1>3. \A r \in CatalogResults : r.exhausted = FALSE
  BY DEF CatalogResults, Failed
<1>4. AuthRequiredResult.exhausted = FALSE
  BY DEF AuthRequiredResult, Failed
<1> QED
  BY <1>1, <1>2, <1>3, <1>4 DEF RestResults

\* A result is a record of its own kind.
LEMMA ResultKinds ==
  /\ NoResult \notin RestResults
  /\ Success \notin RestResults
  /\ CutOff \notin RestResults
<1>1. \A h, c, u, t, x, s, e : "given" \notin DOMAIN Failed(h, c, u, t, x, s, e)
  BY DEF Failed
<1>2. \A r \in RestResults : "given" \notin DOMAIN r
  <2>1. \A r \in EnvelopeResults : "given" \notin DOMAIN r
    BY DEF EnvelopeResults, Failed
  <2>2. \A status : "given" \notin DOMAIN StatusResult(status)
    BY <1>1 DEF StatusResult
  <2>3. \A r \in ExhaustedResults : "given" \notin DOMAIN r
    BY <1>1 DEF ExhaustedResults, ExhaustedStatusResult, ExhaustedTimeoutResult,
                ExhaustedExceptionResult
  <2>4. \A r \in CatalogResults : "given" \notin DOMAIN r
    BY DEF CatalogResults, Failed
  <2>5. "given" \notin DOMAIN AuthRequiredResult
    BY <1>1 DEF AuthRequiredResult
  <2> QED
    BY <2>1, <2>2, <2>3, <2>4, <2>5 DEF RestResults
<1>3. /\ "given" \in DOMAIN NoResult
      /\ "given" \in DOMAIN Success
      /\ "given" \in DOMAIN CutOff
  BY DEF NoResult, Success, CutOff
<1> QED
  BY <1>2, <1>3

\* is_terminal_error (mcp_client.py:95) implies a classification that the agent
\* does not retry (error_handler.py:323), for every result of a remote call.
LEMMA TerminalClassified ==
  ASSUME NEW r \in RestResults, IsTerminalError(r)
  PROVE  ~IsErrorRetryable(ClassifyFromMcpResult(r))
<1>1. CASE r.hint
  <2>1. CASE ClassifyCategory(r.category) \in NonRetryableErrors
    BY <1>1, <2>1 DEF ClassifyFromMcpResult, IsErrorRetryable
  <2>2. CASE ClassifyCategory(r.category) \notin NonRetryableErrors
    <3>1. ClassifyFromMcpResult(r) = "contract_error"
      BY <1>1, <2>2 DEF ClassifyFromMcpResult
    <3> QED
      BY <3>1 DEF IsErrorRetryable, NonRetryableErrors
  <2> QED
    BY <2>1, <2>2
<1>2. CASE ~r.hint /\ r.category \in {"auth_failure", "permission_denied",
             "rbac_denied", "tool_not_found", "catalog_miss", "catalog_stale",
             "validation_error", "invalid_arguments"}
  <2>1. /\ ClassifyCategory(r.category) \in NonRetryableErrors
        /\ ClassifyCategory(r.category) # "none"
    BY <1>2 DEF ClassifyCategory, NonRetryableErrors, InfrastructureCategories
  <2>2. ClassifyFromMcpResult(r) = ClassifyCategory(r.category)
    BY <1>2, <2>1 DEF ClassifyFromMcpResult
  <2> QED
    BY <2>1, <2>2 DEF IsErrorRetryable
<1>3. CASE /\ ~r.hint
           /\ r.category \notin {"auth_failure", "permission_denied",
                "rbac_denied", "tool_not_found", "catalog_miss", "catalog_stale",
                "validation_error", "invalid_arguments"}
  <2>1. r.http \in TerminalStatuses
    BY <1>3 DEF IsTerminalError
  <2>2. r.category = "none" /\ r.upstream = 0
    BY <1>3, <2>1 DEF RestResults, EnvelopeResults, StatusResult, Failed,
       ExhaustedResults, ExhaustedStatusResult, ExhaustedTimeoutResult,
       ExhaustedExceptionResult, CatalogResults, AuthRequiredResult, TerminalStatuses
  <2>3. ClassifyCategory("none") = "none"
    BY DEF ClassifyCategory, InfrastructureCategories
  <2>4. ClassifyFromMcpResult(r) = ClassifyHttpStatus(r.http)
    BY <1>3, <2>1, <2>2, <2>3 DEF ClassifyFromMcpResult, TerminalStatuses
  <2>5. ClassifyHttpStatus(r.http) \in NonRetryableErrors
    BY <2>1 DEF ClassifyHttpStatus, TerminalStatuses, NonRetryableErrors
  <2> QED
    BY <2>4, <2>5 DEF IsErrorRetryable
<1> QED
  BY <1>1, <1>2, <1>3

-----------------------------------------------------------------------------
(* The inductive invariant                                                 *)

\* The client has given its caller nothing before it returns, and sleeps only
\* when an attempt is left.
ProgressInv ==
  /\ pc # "returned" => result = NoResult
  /\ pc = "backoff" => attempt < ClientRetries

IInv == TypeOK /\ ProgressInv /\ ExhaustedMeansSpent

LEMMA InitInv == Init => IInv
BY ToolsAssumption, ResultKinds
DEF Init, IInv, TypeOK, ProgressInv, ExhaustedMeansSpent, FailedResult, Phase,
    Attempts

\* A step of the client that returns r keeps the invariant.
LEMMA ReturnKeeps ==
  ASSUME IInv, NEW r \in RestResults \cup {Success, CutOff}, Return(r),
         UNCHANGED server,
         r \in ExhaustedResults => attempt = ClientRetries
  PROVE  IInv'
<1>1. TypeOK'
  BY DEF IInv, TypeOK, Return, server, Phase
<1>2. ProgressInv'
  BY DEF ProgressInv, Return
<1>3. ExhaustedMeansSpent'
  <2>1. result' = r /\ attempt' = attempt
    BY DEF Return
  <2>2. r \in RestResults \ ExhaustedResults => r.exhausted = FALSE
    BY NotExhausted
  <2> QED
    BY <2>1, <2>2, ResultKinds DEF ExhaustedMeansSpent, FailedResult
<1> QED
  BY <1>1, <1>2, <1>3 DEF IInv

\* So does one that failed in transport.
LEMMA RetryKeeps ==
  ASSUME IInv, NEW r \in ExhaustedResults, pc \in {"send", "waiting"},
         RetryOrReturn(r), UNCHANGED server
  PROVE  IInv'
<1>1. CASE attempt < ClientRetries
  BY <1>1, ResultKinds
  DEF RetryOrReturn, IInv, TypeOK, ProgressInv, ExhaustedMeansSpent, FailedResult,
      server, Phase
<1>2. CASE ~(attempt < ClientRetries)
  <2>1. Return(r)
    BY <1>2 DEF RetryOrReturn
  <2>2. attempt = ClientRetries
    BY <1>2, ToolsAssumption DEF IInv, TypeOK, Attempts
  <2>3. r \in RestResults
    BY DEF RestResults
  <2> QED
    BY <2>1, <2>2, <2>3, ReturnKeeps
<1> QED
  BY <1>1, <1>2

LEMMA InvNext == IInv /\ [Next]_vars => IInv'
<1> SUFFICES ASSUME IInv, [Next]_vars PROVE IInv'
  OBVIOUS
<1> USE DEF IInv
<1>1. CASE LookupFails
  <2>1. PICK r \in CatalogResults : Return(r)
    BY <1>1 DEF LookupFails
  <2>2. r \in RestResults /\ r \notin ExhaustedResults
    BY DEF RestResults, CatalogResults, ExhaustedResults, Failed,
           ExhaustedStatusResult, ExhaustedTimeoutResult, ExhaustedExceptionResult
  <2> QED
    BY <1>1, <2>1, <2>2, ReturnKeeps DEF LookupFails
<1>2. CASE CredentialMissing
  <2>1. AuthRequiredResult \in RestResults /\ AuthRequiredResult \notin ExhaustedResults
    BY DEF RestResults, AuthRequiredResult, ExhaustedResults, Failed,
           ExhaustedStatusResult, ExhaustedTimeoutResult, ExhaustedExceptionResult
  <2> QED
    BY <1>2, <2>1, ReturnKeeps DEF CredentialMissing
<1>3. CASE ReceiveSuccess
  <2>1. Success \notin ExhaustedResults
    BY ResultKinds DEF RestResults
  <2> QED
    BY <1>3, <2>1, ReturnKeeps DEF ReceiveSuccess
<1>4. CASE ReceiveError
  <2>1. PICK r \in EnvelopeResults : Return(r)
    BY <1>4 DEF ReceiveError
  <2>2. r.exhausted = FALSE /\ \A q \in ExhaustedResults : q.exhausted = TRUE
    BY DEF EnvelopeResults, ExhaustedResults, Failed,
           ExhaustedStatusResult, ExhaustedTimeoutResult, ExhaustedExceptionResult
  <2>3. r \in RestResults
    BY DEF RestResults
  <2> QED
    BY <1>4, <2>1, <2>2, <2>3, ReturnKeeps DEF ReceiveError
<1>5. CASE ReceiveStatus
  <2>1. /\ StatusResult(answer.status).exhausted = FALSE
        /\ \A q \in ExhaustedResults : q.exhausted = TRUE
    BY DEF StatusResult, ExhaustedResults, Failed,
           ExhaustedStatusResult, ExhaustedTimeoutResult, ExhaustedExceptionResult
  <2>2. StatusResult(answer.status) \in RestResults
    BY <1>5 DEF ReceiveStatus, RestResults
  <2> QED
    BY <1>5, <2>1, <2>2, ReturnKeeps DEF ReceiveStatus
<1>6. CASE Cancel
  <2>1. CutOff \notin ExhaustedResults
    BY ResultKinds DEF RestResults
  <2> QED
    BY <1>6, <2>1, ReturnKeeps DEF Cancel
<1>7. CASE ReceiveServerError
  <2>1. ExhaustedStatusResult(answer.status) \in ExhaustedResults
    BY <1>7 DEF ReceiveServerError, ExhaustedResults
  <2> QED
    BY <1>7, <2>1, RetryKeeps DEF ReceiveServerError
<1>8. CASE TimeOut
  <2>1. ExhaustedTimeoutResult \in ExhaustedResults
    BY DEF ExhaustedResults
  <2> QED
    BY <1>8, <2>1, RetryKeeps DEF TimeOut
<1>9. CASE AttemptRaises
  <2>1. PICK text \in TextTypes : RetryOrReturn(ExhaustedExceptionResult(text))
    BY <1>9 DEF AttemptRaises
  <2>2. ExhaustedExceptionResult(text) \in ExhaustedResults
    BY DEF ExhaustedResults
  <2> QED
    BY <1>9, <2>1, <2>2, RetryKeeps DEF AttemptRaises
<1>10. CASE LookupFinds \/ PreflightPasses \/ Post
  <2>1. /\ UNCHANGED <<tool, attempt, executed, answer, result>>
        /\ requests' \subseteq requests \cup {attempt}
        /\ pc' \in {"preflight", "send", "waiting"}
    BY <1>10 DEF LookupFinds, PreflightPasses, Post, server
  <2>2. attempt \in 0 .. attempt
    BY ToolsAssumption DEF TypeOK, Attempts
  <2>3. TypeOK'
    BY <2>1, <2>2 DEF TypeOK, Phase
  <2>4. result' = NoResult
    BY <1>10, <2>1 DEF LookupFinds, PreflightPasses, Post, ProgressInv
  <2> QED
    BY <2>1, <2>3, <2>4, ResultKinds DEF ProgressInv, ExhaustedMeansSpent, FailedResult
<1>11. CASE BackoffEnds
  <2>1. attempt + 1 \in Attempts
    BY <1>11, ToolsAssumption DEF BackoffEnds, TypeOK, ProgressInv, Attempts
  <2>2. 0 .. attempt \subseteq 0 .. attempt'
    BY <1>11, <2>1 DEF BackoffEnds, TypeOK, Attempts
  <2>3. result' = NoResult
    BY <1>11 DEF BackoffEnds, ProgressInv
  <2>4. TypeOK'
    BY <1>11, <2>1, <2>2 DEF BackoffEnds, server, TypeOK, Phase
  <2>5. ExhaustedMeansSpent'
    BY <2>3, ResultKinds DEF ExhaustedMeansSpent, FailedResult
  <2> QED
    BY <1>11, <2>3, <2>4, <2>5 DEF BackoffEnds, ProgressInv
<1>12. ASSUME NEW i \in requests, Handle(i) \/ Lose(i) PROVE IInv'
  <2>1. /\ UNCHANGED <<tool, pc, attempt, result>>
        /\ requests' \subseteq requests
        /\ executed' \subseteq executed \cup {i}
    BY <1>12 DEF Handle, Lose, client
  <2>2. answer' \in Answers \cup {NoAnswer}
    BY <1>12 DEF Handle, Lose, TypeOK
  <2> QED
    BY <2>1, <2>2 DEF TypeOK, ProgressInv, ExhaustedMeansSpent, FailedResult
<1>13. CASE UNCHANGED vars
  BY <1>13 DEF vars, client, server, TypeOK, ProgressInv, ExhaustedMeansSpent,
               FailedResult
<1> QED
  BY <1>1, <1>2, <1>3, <1>4, <1>5, <1>6, <1>7, <1>8, <1>9, <1>10, <1>11, <1>12,
     <1>13 DEF Next, ClientStep, ServerStep, Done

THEOREM Invariance == Spec => []IInv
<1>1. Init => IInv
  BY InitInv
<1>2. IInv /\ [Next]_vars => IInv'
  BY InvNext
<1> QED
  BY <1>1, <1>2, PTL DEF Spec, SafeSpec

\* call_tool never leaves its range of attempts and returns only the results
\* that the agent loop is modelled with.
THEOREM TypeCorrect == Spec => []TypeOK
<1>1. IInv => TypeOK
  BY DEF IInv
<1> QED
  BY <1>1, Invariance, PTL

\* A result says that the retries are exhausted only when they are.
THEOREM SpentWhenExhausted == Spec => []ExhaustedMeansSpent
<1>1. IInv => ExhaustedMeansSpent
  BY DEF IInv
<1> QED
  BY <1>1, Invariance, PTL

\* No result the client calls terminal is one the agent retries.
THEOREM TerminalAgreement == Spec => []TerminalErrorsNotRetried
<1>1. TerminalErrorsNotRetried
  BY TerminalClassified DEF TerminalErrorsNotRetried, FailedResult
<1> QED
  BY <1>1, PTL

-----------------------------------------------------------------------------
(* The exchange implements ToolCall                                        *)

LEMMA ReturnImplements ==
  ASSUME IInv, pc # "returned", NEW r \in RestResults \cup {Success, CutOff},
         Return(r)
  PROVE  [Call!Next]_result
<1>1. result = NoResult /\ result' = r
  BY DEF IInv, ProgressInv, Return
<1> QED
  BY <1>1 DEF Call!Next, Call!Return, Call!Cancel

LEMMA StepImplements == IInv /\ [Next]_vars => [Call!Next]_result
<1> SUFFICES ASSUME IInv, [Next]_vars PROVE [Call!Next]_result
  OBVIOUS
<1>1. ASSUME NEW r \in ExhaustedResults, pc \in {"send", "waiting"}, RetryOrReturn(r)
      PROVE  [Call!Next]_result
  <2>1. CASE attempt < ClientRetries
    BY <1>1, <2>1 DEF RetryOrReturn
  <2>2. CASE ~(attempt < ClientRetries)
    BY <1>1, <2>2, ReturnImplements DEF RetryOrReturn, RestResults
  <2> QED
    BY <2>1, <2>2
<1>2. CASE LookupFails \/ CredentialMissing
  BY <1>2, ReturnImplements DEF LookupFails, CredentialMissing, RestResults
<1>3. CASE ReceiveSuccess \/ ReceiveError \/ ReceiveStatus
  BY <1>3, ReturnImplements DEF ReceiveSuccess, ReceiveError, ReceiveStatus, RestResults
<1>4. CASE Cancel
  BY <1>4, ReturnImplements DEF Cancel
<1>5. CASE ReceiveServerError \/ TimeOut \/ AttemptRaises
  BY <1>1, <1>5 DEF ReceiveServerError, TimeOut, AttemptRaises, ExhaustedResults
<1>6. CASE LookupFinds \/ PreflightPasses \/ Post \/ BackoffEnds \/ ServerStep
  BY <1>6 DEF LookupFinds, PreflightPasses, Post, BackoffEnds, ServerStep, Handle, Lose
<1>7. CASE UNCHANGED vars
  BY <1>7 DEF vars
<1> QED
  BY <1>2, <1>3, <1>4, <1>5, <1>6, <1>7 DEF Next, ClientStep, Done

\* The exchange with its retries implements the single call the agent loop
\* takes it for: it returns once, one of the results of ErrorRecovery.
THEOREM CallImplementedSafely == Spec => Call!SafeSpec
<1>1. Init => Call!Init
  BY DEF Init, Call!Init
<1> QED
  BY <1>1, StepImplements, Invariance, PTL DEF Spec, SafeSpec, Call!SafeSpec

\* What a result says of itself is true, for any number of retries: Sound.
THEOREM Soundness == Spec => []Sound
BY TypeCorrect, SpentWhenExhausted, TerminalAgreement, PTL DEF Sound
-----------------------------------------------------------------------------
(* The sandbox.  Of each call, what its job, its processes and its answer  *)
(* say of each other.                                                      *)

Active(c) == job[c] \in {"running", "killing"}

CallOK(c) ==
  /\ c \in lost => call[c] = "failed"
  /\ call[c] = "posted" => Active(c)
  /\ Active(c) => up /\ (call[c] = "posted" \/ c \in lost)
  /\ runner[c] \in Alive => job[c] = "running"
  /\ call[c] = None => job[c] = None
  /\ job[c] = None => runner[c] = None
  /\ job[c] = "running" => runner[c] \in Alive \cup {"exited"}
  /\ job[c] = "killing" => runner[c] = "killed"
  /\ bash[c] = "running" => runner[c] \in {"waiting", "killed"}
  /\ bash[c] = "running" /\ ~Active(c) => call[c] = "timeout" \/ c \in lost

\* A run calls in order, and waits for an answer before it calls again.
CallsInOrder ==
  \A c \in Calls : \A d \in Of(c[1]) :
    d[2] < c[2] /\ call[c] # None => call[d] \notin {None, "posted"}

\* A waiting runner has its directory, unless a connection of its run broke.
WaitingHas ==
  \A c \in Calls : runner[c] = "waiting" =>
    c[1] \in present \/ lost \cap Of(c[1]) # {}

\* A directory is there for a runner that has not deleted it: a runner that
\* dies as it starts has made none.
LeftByKilled ==
  \A r \in present : \E c \in Of(r) :
    runner[c] \in {"made", "waiting", "cleaning", "killed"}

WorkerInv ==
  /\ WorkerTypeOK /\ (\A c \in Calls : CallOK(c))
  /\ CallsInOrder /\ WaitingHas /\ LeftByKilled

\* The calls of one run are those with its id.
LEMMA CallsOf ==
  /\ \A c \in Calls : c[1] \in Runs /\ c[2] \in 1..MaxCalls /\ c \in Of(c[1])
  /\ \A r \in Runs : Of(r) \subseteq Calls /\ \A c \in Of(r) : c[1] = r
  /\ \A c, d \in Calls : c[1] = d[1] /\ c # d => c[2] # d[2]
BY DEF Calls, Of

LEMMA WorkerInitInv == ASSUME WorkerInit PROVE WorkerInv
<1>1. WorkerTypeOK
  BY WorkerAssumption DEF WorkerInit, WorkerTypeOK
<1>2. \A c \in Calls : CallOK(c)
  BY DEF WorkerInit, CallOK, Active, Alive, None
<1>3. CallsInOrder /\ WaitingHas /\ LeftByKilled
  BY DEF WorkerInit, CallsInOrder, WaitingHas, LeftByKilled, None
<1> QED
  BY <1>1, <1>2, <1>3 DEF WorkerInv

\* What a step of one call leaves of the others.
OnlyAt(c) ==
  /\ up' = up
  /\ \A d \in Calls \ {c} :
       /\ call'[d] = call[d] /\ job'[d] = job[d]
       /\ runner'[d] = runner[d] /\ bash'[d] = bash[d]
       /\ d \in lost' <=> d \in lost

LEMMA OtherCalls ==
  ASSUME NEW c \in Calls, \A d \in Calls : CallOK(d), OnlyAt(c), CallOK(c)'
  PROVE  \A d \in Calls : CallOK(d)'
<1>1. ASSUME NEW d \in Calls \ {c} PROVE CallOK(d)'
  <2>1. CallOK(d)
    OBVIOUS
  <2> QED
    BY <2>1 DEF OnlyAt, CallOK, Active
<1> QED
  BY <1>1

\* The order of the calls of a run survives a step that answers one of them,
\* or starts one in its turn.
LEMMA OrderKept ==
  ASSUME CallsInOrder, NEW c \in Calls, \A d \in Calls \ {c} : call'[d] = call[d],
         \/ call'[c] = call[c]
         \/ call[c] # None /\ call'[c] \notin {None, "posted"}
         \/ Turn(c)
  PROVE  CallsInOrder'
<1> SUFFICES ASSUME NEW e \in Calls, NEW d \in Of(e[1]), d[2] < e[2], call'[e] # None
             PROVE  call'[d] \notin {None, "posted"}
  BY DEF CallsInOrder
<1>1. d \in Calls /\ d # e /\ d[1] = e[1] /\ e \in Of(e[1])
  BY CallsOf
<1>2. CASE e # c /\ d # c
  BY <1>1, <1>2 DEF CallsInOrder
<1>3. CASE e = c
  BY <1>1, <1>3 DEF CallsInOrder, Turn
<1>4. CASE d = c
  <2>1. call[e] # None
    BY <1>1, <1>4
  <2>2. call[d] \notin {None, "posted"}
    BY <1>1, <2>1 DEF CallsInOrder
  <2> QED
    BY <2>2, <1>4 DEF Turn
<1> QED
  BY <1>2, <1>3, <1>4

\* Two jobs of one run work at the same time only after a connection broke.
LEMMA TwoAtWork ==
  ASSUME WorkerInv, NEW c \in Calls, NEW d \in Calls, c # d, c[1] = d[1],
         runner[c] \in Alive, runner[d] \in Alive
  PROVE  lost \cap Of(c[1]) # {}
<1>1. CallOK(c) /\ CallOK(d) /\ CallsInOrder
  BY DEF WorkerInv
<1>2. (call[c] = "posted" \/ c \in lost) /\ (call[d] = "posted" \/ d \in lost)
  BY <1>1 DEF CallOK, Active
<1>3. ~(call[c] = "posted" /\ call[d] = "posted")
  <2>1. c[2] < d[2] \/ d[2] < c[2]
    BY CallsOf, WorkerAssumption
  <2> QED
    BY <1>1, <2>1, CallsOf DEF CallsInOrder, None
<1> QED
  BY <1>2, <1>3, CallsOf

\* A step of one call, as the invariant sees it: its own facts, its directory.
LEMMA CallStep ==
  ASSUME WorkerInv, NEW c \in Calls, OnlyAt(c), WorkerTypeOK', CallOK(c)',
         \/ call'[c] = call[c]
         \/ call[c] # None /\ call'[c] \notin {None, "posted"}
         \/ Turn(c),
         lost \subseteq lost', present' = present,
         runner'[c] = "waiting" =>
           runner[c] = "waiting" \/ c[1] \in present \/ lost \cap Of(c[1]) # {},
         runner[c] \in {"made", "waiting", "cleaning", "killed"} =>
           runner'[c] \in {"made", "waiting", "cleaning", "killed"}
  PROVE  WorkerInv'
<1>1. /\ \A d \in Calls : CallOK(d)
      /\ CallsInOrder /\ WaitingHas /\ LeftByKilled
      /\ present \subseteq Runs
  BY DEF WorkerInv, WorkerTypeOK
<1>2. \A d \in Calls : CallOK(d)'
  BY <1>1, OtherCalls
<1>3. \A d \in Calls \ {c} : call'[d] = call[d] /\ runner'[d] = runner[d]
  BY DEF OnlyAt
<1>4. CallsInOrder'
  BY <1>1, <1>3, OrderKept
<1>5. WaitingHas'
  BY <1>1, <1>3 DEF WaitingHas
<1>6. LeftByKilled'
  <2> SUFFICES ASSUME NEW r \in present
               PROVE  \E d \in Of(r) : runner'[d] \in {"made", "waiting", "cleaning", "killed"}
    BY DEF LeftByKilled
  <2>1. PICK d \in Of(r) : runner[d] \in {"made", "waiting", "cleaning", "killed"}
    BY <1>1 DEF LeftByKilled
  <2>2. d \in Calls
    BY <1>1, CallsOf
  <2> QED
    BY <2>1, <2>2, <1>3
<1> QED
  BY <1>2, <1>4, <1>5, <1>6 DEF WorkerInv

LEMMA ExecuteBashStep ==
  ASSUME WorkerInv, NEW c \in Calls, ExecuteBash(c)
  PROVE  WorkerInv'
<1>1. /\ WorkerTypeOK /\ CallOK(c) /\ Turn(c) /\ call[c] = None
      /\ UNCHANGED <<jobs, up, restarts, bash, present, lost>>
  BY DEF WorkerInv, ExecuteBash, Turn
<1>2. \/ /\ call' = [call EXCEPT ![c] = "invalid"] /\ UNCHANGED <<job, runner>>
      \/ /\ call' = [call EXCEPT ![c] = "failed"] /\ UNCHANGED <<job, runner>>
      \/ /\ up
         /\ call' = [call EXCEPT ![c] = "posted"]
         /\ job' = [job EXCEPT ![c] = "running"]
         /\ runner' = [runner EXCEPT ![c] = "new"]
  BY DEF ExecuteBash
<1>3. WorkerTypeOK'
  BY <1>1, <1>2 DEF WorkerTypeOK, Alive
<1>4. OnlyAt(c)
  BY <1>1, <1>2 DEF OnlyAt, WorkerTypeOK
<1>5. job[c] = None /\ runner[c] = None /\ bash[c] # "running" /\ c \notin lost
  BY <1>1 DEF CallOK, None
<1>6. CallOK(c)'
  BY <1>1, <1>2, <1>5 DEF CallOK, Active, WorkerTypeOK, None, Alive
<1> QED
  BY <1>1, <1>2, <1>3, <1>4, <1>5, <1>6, CallStep DEF WorkerTypeOK, None

LEMMA LoseConnectionStep ==
  ASSUME WorkerInv, NEW c \in Calls, LoseConnection(c)
  PROVE  WorkerInv'
<1>1. /\ WorkerTypeOK /\ CallOK(c) /\ call[c] = "posted"
      /\ lost' = lost \cup {c} /\ call' = [call EXCEPT ![c] = "failed"]
      /\ UNCHANGED <<job, jobs, up, restarts, runner, bash, present>>
  BY DEF WorkerInv, LoseConnection, worker, sandbox
<1>2. WorkerTypeOK'
  BY <1>1 DEF WorkerTypeOK
<1>3. OnlyAt(c)
  BY <1>1 DEF OnlyAt, WorkerTypeOK
<1>4. CallOK(c)'
  BY <1>1 DEF CallOK, Active, WorkerTypeOK, None
<1> QED
  BY <1>1, <1>2, <1>3, <1>4, CallStep DEF WorkerTypeOK, None

\* The steps of the runner and of its script, but for the directory.
LEMMA RunnerStep ==
  ASSUME WorkerInv, NEW c \in Calls,
         Launch(c) \/ ScriptEnds(c) \/ ScriptSeen(c) \/ RunnerTimeout(c)
  PROVE  WorkerInv'
<1>1. /\ WorkerTypeOK /\ CallOK(c)
      /\ UNCHANGED <<call, job, jobs, up, restarts, present, lost>>
  BY DEF WorkerInv, Launch, ScriptEnds, ScriptSeen, RunnerTimeout, worker
<1>2. \/ /\ runner[c] = "made" /\ c[1] \in present
         /\ runner' = [runner EXCEPT ![c] = "waiting"]
         /\ bash' = [bash EXCEPT ![c] = "running"]
      \/ /\ runner[c] = "made"
         /\ runner' = [runner EXCEPT ![c] = "cleaning"] /\ UNCHANGED bash
      \/ /\ UNCHANGED runner /\ bash' = [bash EXCEPT ![c] = "ended"]
      \/ /\ runner[c] = "waiting" /\ bash[c] = "ended"
         /\ runner' = [runner EXCEPT ![c] = "cleaning"] /\ UNCHANGED bash
      \/ /\ runner[c] = "waiting"
         /\ runner' = [runner EXCEPT ![c] = "cleaning"]
         /\ bash' = [bash EXCEPT ![c] = "ended"]
  BY DEF Launch, ScriptEnds, ScriptSeen, RunnerTimeout, Becomes
<1>3. WorkerTypeOK'
  BY <1>1, <1>2 DEF WorkerTypeOK, Alive
<1>4. OnlyAt(c)
  BY <1>1, <1>2 DEF OnlyAt, WorkerTypeOK
<1>5. CallOK(c)'
  BY <1>1, <1>2 DEF CallOK, Active, WorkerTypeOK, None, Alive
<1> QED
  BY <1>1, <1>2, <1>3, <1>4, <1>5, CallStep DEF WorkerTypeOK

LEMMA JobStep ==
  ASSUME WorkerInv, NEW c \in Calls,
         JobSucceeds(c) \/ RunnerCrashes(c) \/ JobTimesOut(c) \/ Killed(c)
  PROVE  WorkerInv'
<1>1. /\ WorkerTypeOK /\ CallOK(c)
      /\ UNCHANGED <<up, restarts, bash, present, lost>>
  BY DEF WorkerInv, JobSucceeds, RunnerCrashes, JobTimesOut, Killed, Answered, sandbox
<1>2. \/ /\ runner[c] \in Alive /\ job[c] = "running"
         /\ runner' = [runner EXCEPT ![c] = "killed"]
         /\ job' = [job EXCEPT ![c] = "killing"]
         /\ UNCHANGED <<call, jobs>>
      \/ /\ \/ job[c] = "running" /\ runner[c] = "exited" /\ UNCHANGED runner
            \/ runner[c] = "new" /\ job[c] = "running"
               /\ runner' = [runner EXCEPT ![c] = "crashed"]
         /\ \E status \in {"success", "failed"} : jobs' = [jobs EXCEPT ![c] = status]
         /\ job' = [job EXCEPT ![c] = "over"]
         /\ call' = [call EXCEPT ![c] = IF @ = "posted" THEN "failed" ELSE @]
      \/ /\ job[c] = "killing" /\ UNCHANGED runner
         /\ jobs' = [jobs EXCEPT ![c] = "timeout"]
         /\ job' = [job EXCEPT ![c] = "over"]
         /\ call' = [call EXCEPT ![c] = IF @ = "posted" THEN "timeout" ELSE @]
  BY DEF JobSucceeds, RunnerCrashes, JobTimesOut, Killed, Answered, Becomes, sandbox
<1>3. WorkerTypeOK'
  BY <1>1, <1>2 DEF WorkerTypeOK
<1>4. OnlyAt(c)
  BY <1>1, <1>2 DEF OnlyAt, WorkerTypeOK
<1>5. CallOK(c)'
  BY <1>1, <1>2 DEF CallOK, Active, WorkerTypeOK, None, Alive
<1>6. \/ call'[c] = call[c]
      \/ call[c] # None /\ call'[c] \notin {None, "posted"}
  BY <1>1, <1>2 DEF WorkerTypeOK, None
<1>7. /\ runner'[c] # "waiting"
      /\ runner[c] \in {"made", "waiting", "cleaning", "killed"} =>
           runner'[c] \in {"made", "waiting", "cleaning", "killed"}
  BY <1>1, <1>2 DEF WorkerTypeOK, CallOK
<1> QED
  BY <1>1, <1>3, <1>4, <1>5, <1>6, <1>7, CallStep

LEMMA DirectoryStep ==
  ASSUME WorkerInv, NEW c \in Calls, MakeWorkspace(c) \/ CleanUp(c)
  PROVE  WorkerInv'
<1>1. /\ WorkerTypeOK /\ CallsInOrder /\ WaitingHas /\ LeftByKilled
      /\ \A d \in Calls : CallOK(d)
      /\ c[1] \in Runs
      /\ UNCHANGED <<call, job, jobs, up, restarts, bash, lost>>
  BY CallsOf DEF WorkerInv, MakeWorkspace, CleanUp, worker
<1>2. \/ /\ runner[c] = "new" /\ runner' = [runner EXCEPT ![c] = "made"]
         /\ present' = present \cup {c[1]}
      \/ /\ runner[c] = "cleaning" /\ runner' = [runner EXCEPT ![c] = "exited"]
         /\ present' = present \ {c[1]}
  BY DEF MakeWorkspace, CleanUp, Becomes
<1>3. WorkerTypeOK'
  BY <1>1, <1>2 DEF WorkerTypeOK, Alive
<1>4. OnlyAt(c)
  BY <1>1, <1>2 DEF OnlyAt, WorkerTypeOK
<1>5. CallOK(c)'
  BY <1>1, <1>2 DEF CallOK, Active, WorkerTypeOK, None, Alive
<1>6. \A d \in Calls : CallOK(d)'
  BY <1>1, <1>4, <1>5, OtherCalls
<1>7. CallsInOrder'
  BY <1>1 DEF CallsInOrder
<1>8. WaitingHas'
  <2> SUFFICES ASSUME NEW d \in Calls, runner'[d] = "waiting", d[1] \notin present'
               PROVE  lost \cap Of(d[1]) # {}
    BY <1>1 DEF WaitingHas
  <2>1. d # c /\ runner[d] = "waiting"
    BY <1>1, <1>2 DEF WorkerTypeOK
  <2>2. CASE d[1] \in present
    <3>1. d[1] = c[1] /\ runner[c] = "cleaning"
      BY <2>2, <1>2
    <3> QED
      BY <3>1, <2>1, TwoAtWork DEF Alive
  <2>3. CASE d[1] \notin present
    BY <2>1, <2>3, <1>1 DEF WaitingHas
  <2> QED
    BY <2>2, <2>3
<1>9. LeftByKilled'
  <2> SUFFICES ASSUME NEW r \in present'
               PROVE  \E d \in Of(r) : runner'[d] \in {"made", "waiting", "cleaning", "killed"}
    BY DEF LeftByKilled
  <2>1. CASE r = c[1]
    <3>1. runner'[c] = "made" /\ c \in Of(r)
      BY <2>1, <1>1, <1>2, CallsOf DEF WorkerTypeOK
    <3> QED
      BY <3>1
  <2>2. CASE r # c[1]
    <3>1. r \in present /\ r \in Runs
      BY <2>2, <1>1, <1>2 DEF WorkerTypeOK
    <3>2. PICK d \in Of(r) : runner[d] \in {"made", "waiting", "cleaning", "killed"}
      BY <3>1, <1>1 DEF LeftByKilled
    <3>3. d \in Calls /\ d # c
      BY <2>2, <3>1, CallsOf
    <3>4. runner'[d] = runner[d]
      BY <3>3, <1>4 DEF OnlyAt
    <3> QED
      BY <3>2, <3>4
  <2> QED
    BY <2>1, <2>2
<1> QED
  BY <1>3, <1>6, <1>7, <1>8, <1>9 DEF WorkerInv

LEMMA ContainerStep ==
  ASSUME WorkerInv, Stop \/ Start
  PROVE  WorkerInv'
<1>1. /\ WorkerTypeOK /\ CallsInOrder /\ WaitingHas /\ LeftByKilled
      /\ \A d \in Calls : CallOK(d)
      /\ present \subseteq Runs
  BY DEF WorkerInv, WorkerTypeOK
<1>2. CASE Start
  <2>1. up' = TRUE /\ UNCHANGED <<call, job, jobs, restarts, runner, bash, present, lost>>
    BY <1>2 DEF Start, sandbox
  <2>2. WorkerTypeOK'
    BY <2>1, <1>1 DEF WorkerTypeOK
  <2>3. ASSUME NEW d \in Calls PROVE CallOK(d)'
    <3>1. CallOK(d)
      BY <1>1
    <3> QED
      BY <3>1, <2>1 DEF CallOK, Active
  <2> QED
    BY <2>1, <2>2, <2>3, <1>1 DEF WorkerInv, CallsInOrder, WaitingHas, LeftByKilled
<1>3. CASE Stop
  <2>1. /\ up' = FALSE /\ restarts' = restarts + 1 /\ restarts < MaxRestarts
        /\ job' = [c \in Calls |-> IF job[c] = None THEN None ELSE "over"]
        /\ jobs' = [c \in Calls |-> None]
        /\ runner' = [c \in Calls |-> IF runner[c] \in Alive THEN "killed" ELSE runner[c]]
        /\ bash' = [c \in Calls |-> IF bash[c] = "running" THEN "ended" ELSE bash[c]]
        /\ call' = [c \in Calls |-> IF call[c] = "posted" THEN "failed" ELSE call[c]]
        /\ UNCHANGED <<present, lost>>
    BY <1>3 DEF Stop
  <2>2. WorkerTypeOK'
    <3>1. restarts' \in 0..MaxRestarts
      BY <2>1, <1>1, WorkerAssumption DEF WorkerTypeOK
    <3> QED
      BY <2>1, <3>1, <1>1 DEF WorkerTypeOK
  <2>3. ASSUME NEW d \in Calls PROVE CallOK(d)'
    <3>1. CallOK(d) /\ WorkerTypeOK
      BY <1>1
    <3> QED
      BY <3>1, <2>1 DEF CallOK, Active, WorkerTypeOK, None, Alive
  <2>4. CallsInOrder'
    <3> SUFFICES ASSUME NEW e \in Calls, NEW d \in Of(e[1]), d[2] < e[2], call'[e] # None
                 PROVE  call'[d] \notin {None, "posted"}
      BY DEF CallsInOrder
    <3>1. d \in Calls
      BY CallsOf
    <3>2. call'[e] = IF call[e] = "posted" THEN "failed" ELSE call[e]
      BY <2>1
    <3>3. call[e] # None
      BY <3>2 DEF None
    <3>4. call[d] \notin {None, "posted"}
      BY <3>1, <3>3, <1>1 DEF CallsInOrder
    <3>5. call'[d] = call[d]
      BY <3>1, <3>4, <2>1
    <3> QED
      BY <3>4, <3>5
  <2>5. WaitingHas'
    BY <2>1 DEF WaitingHas, Alive
  <2>6. LeftByKilled'
    <3> SUFFICES ASSUME NEW r \in present
                 PROVE  \E d \in Of(r) : runner'[d] \in {"made", "waiting", "cleaning", "killed"}
      BY <2>1 DEF LeftByKilled
    <3>1. PICK d \in Of(r) : runner[d] \in {"made", "waiting", "cleaning", "killed"}
      BY <1>1 DEF LeftByKilled
    <3>2. d \in Calls
      BY <1>1, CallsOf
    <3> QED
      BY <3>1, <3>2, <2>1
  <2> QED
    BY <2>2, <2>3, <2>4, <2>5, <2>6 DEF WorkerInv
<1> QED
  BY <1>2, <1>3

LEMMA WorkerNextInv == ASSUME WorkerInv, [WorkerNext]_workerVars PROVE WorkerInv'
<1>1. ASSUME NEW c \in Calls, ExecuteBash(c) \/ LoseConnection(c)
      PROVE  WorkerInv'
  BY <1>1, ExecuteBashStep, LoseConnectionStep
<1>2. ASSUME NEW c \in Calls, Runner(c) \/ RunnerTimeout(c) \/ ScriptEnds(c)
      PROVE  WorkerInv'
  BY <1>2, DirectoryStep, RunnerStep DEF Runner
<1>3. ASSUME NEW c \in Calls, RunnerCrashes(c) \/ Job(c) \/ JobTimesOut(c)
      PROVE  WorkerInv'
  BY <1>3, JobStep DEF Job
<1>4. CASE Stop \/ Start
  BY <1>4, ContainerStep
<1>5. CASE UNCHANGED workerVars
  <2>1. UNCHANGED <<call, job, jobs, up, restarts, runner, bash, present, lost>>
    BY <1>5 DEF workerVars, worker, sandbox
  <2>2. WorkerTypeOK'
    BY <2>1 DEF WorkerInv, WorkerTypeOK
  <2>3. ASSUME NEW d \in Calls PROVE CallOK(d)'
    <3>1. CallOK(d)
      BY DEF WorkerInv
    <3> QED
      BY <3>1, <2>1 DEF CallOK, Active
  <2> QED
    BY <2>1, <2>2, <2>3 DEF WorkerInv, CallsInOrder, WaitingHas, LeftByKilled
<1> QED
  BY <1>1, <1>2, <1>3, <1>4, <1>5 DEF WorkerNext

THEOREM WorkerInvariance == WorkerSpec => []WorkerInv
BY WorkerInitInv, WorkerNextInv, PTL DEF WorkerSpec

\* A script outlives the answer to its call only when that was a timeout or
\* was lost, and a workspace stays behind only when its runner was killed,
\* with any number of runs, calls, restarts and lost connections.
THEOREM SandboxSound == WorkerSpec => []WorkerSound
<1>1. WorkerInv => WorkerSound
  <2> SUFFICES ASSUME WorkerInv PROVE WorkerSound
    OBVIOUS
  <2>1. OutlivesOnlyTimeout
    <3> SUFFICES ASSUME NEW c \in Calls, bash[c] = "running", call[c] # "posted"
                 PROVE  call[c] = "timeout" \/ c \in lost
      BY DEF OutlivesOnlyTimeout
    <3>1. CallOK(c)
      BY DEF WorkerInv
    <3> QED
      BY <3>1 DEF CallOK
  <2>2. OnlyKilledLeave
    BY DEF WorkerInv, LeftByKilled, OnlyKilledLeave, Alive
  <2> QED
    BY <2>1, <2>2 DEF WorkerSound, WorkerInv
<1> QED
  BY <1>1, WorkerInvariance, PTL

\* A script its runner waits for keeps its directory until a connection of
\* its run is lost.
THEOREM KeptUntilLost == WorkerSpec => []WorkspaceKept
<1>1. WorkerInv => WorkspaceKept
  BY DEF WorkerInv, WaitingHas, WorkspaceKept
<1> QED
  BY <1>1, WorkerInvariance, PTL
=============================================================================
