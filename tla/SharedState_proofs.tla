------------------------- MODULE SharedState_proofs -------------------------
(***************************************************************************)
(* Proofs about the two modules of the state that the runs of a process    *)
(* share.                                                                  *)
(*                                                                         *)
(* RateLimiter: its counters count what they should, for any number of     *)
(* requests, users and servers and any limits.                             *)
(*                                                                         *)
(* ToolDirectory: the manager, the registry and the catalogs taken from it *)
(* agree, for any integrations, requests and runs, and whatever the        *)
(* servers list.                                                           *)
(***************************************************************************)
EXTENDS RateLimiter, ToolDirectory, FiniteSetTheorems, SequenceTheorems,
        NaturalsInduction, WellFoundedInduction, TLAPS

-----------------------------------------------------------------------------
(* Counting the requests of a user that are in some phases                 *)

\* The requests of u whose phase under f is one of P.
RunsIn(f, P, u) == { r \in Runs : Owner[r] = u /\ f[r] \in P }

Count(f, P, u) == Cardinality(RunsIn(f, P, u))

Slotted == Phase \ {"idle", "admit"}

\* Passed check_tool_call_limit, not recorded yet.
Pending == {"admitted", "cleared"}

LEMMA RunsInFinite ==
  ASSUME NEW f, NEW P, NEW u
  PROVE  /\ IsFiniteSet(RunsIn(f, P, u))
         /\ Count(f, P, u) \in Nat
<1>1. RunsIn(f, P, u) \in SUBSET Runs
  BY DEF RunsIn
<1>2. IsFiniteSet(RunsIn(f, P, u))
  BY <1>1, FS_Subset, RunsAssumption
<1> QED
  BY <1>2, FS_CardinalityType DEF Count

\* Fewer phases, fewer requests.
LEMMA CountMonotone ==
  ASSUME NEW f, NEW P, NEW Q, NEW u, P \subseteq Q
  PROVE  Count(f, P, u) <= Count(f, Q, u)
<1>1. RunsIn(f, P, u) \in SUBSET RunsIn(f, Q, u)
  BY DEF RunsIn
<1> QED
  BY <1>1, RunsInFinite, FS_Subset DEF Count

\* A step of one request that moves it to another phase.
Moves(r, q) == pc \in [Runs -> Phase] /\ pc' = [pc EXCEPT ![r] = q]

\* What such a step does to a count.
LEMMA CountAfterMove ==
  ASSUME NEW r \in Runs, NEW q, Moves(r, q), NEW P, NEW u
  PROVE  /\ Owner[r] # u \/ (pc[r] \in P <=> q \in P)
              => Count(pc', P, u) = Count(pc, P, u)
         /\ Owner[r] = u /\ pc[r] \notin P /\ q \in P
              => Count(pc', P, u) = Count(pc, P, u) + 1
         /\ Owner[r] = u /\ pc[r] \in P /\ q \notin P
              => Count(pc', P, u) = Count(pc, P, u) - 1
<1> DEFINE f == pc
           g == pc'
<1>1. /\ g[r] = q
      /\ \A x \in Runs : x # r => g[x] = f[x]
  BY DEF Moves
<1> HIDE DEF f, g
<1>2. Owner[r] # u \/ (f[r] \in P <=> q \in P) => RunsIn(g, P, u) = RunsIn(f, P, u)
  BY <1>1 DEF RunsIn
<1>3. Owner[r] = u /\ f[r] \notin P /\ q \in P
        => RunsIn(g, P, u) = RunsIn(f, P, u) \cup {r} /\ r \notin RunsIn(f, P, u)
  BY <1>1 DEF RunsIn
<1>4. Owner[r] = u /\ f[r] \in P /\ q \notin P
        => RunsIn(g, P, u) = RunsIn(f, P, u) \ {r} /\ r \in RunsIn(f, P, u)
  BY <1>1 DEF RunsIn
<1>5. Owner[r] = u /\ f[r] \notin P /\ q \in P => Count(g, P, u) = Count(f, P, u) + 1
  BY <1>3, RunsInFinite, FS_AddElement DEF Count
<1>6. Owner[r] = u /\ f[r] \in P /\ q \notin P => Count(g, P, u) = Count(f, P, u) - 1
  BY <1>4, RunsInFinite, FS_RemoveElement DEF Count
<1>7. Owner[r] # u \/ (f[r] \in P <=> q \in P) => Count(g, P, u) = Count(f, P, u)
  BY <1>2 DEF Count
<1> QED
  BY <1>5, <1>6, <1>7 DEF f, g

-----------------------------------------------------------------------------
(* Type correctness                                                        *)

LEMMA BreakerTypes ==
  ASSUME NEW cb \in Breaker
  PROVE  /\ Checked(cb) \in Breaker
         /\ AfterSuccess(cb) \in Breaker
         /\ AfterFailure(cb) \in Breaker
<1> USE LimitsAssumption
<1>1. Checked(cb) \in Breaker
  BY DEF Checked, ToHalfOpen, Circuit, Breaker, CircuitState
<1>2. AfterSuccess(cb) \in Breaker
  BY DEF AfterSuccess, Closed, Circuit, Breaker, CircuitState
<1>3. AfterFailure(cb) \in Breaker
  BY DEF AfterFailure, ToOpen, Circuit, Breaker, CircuitState
<1> QED
  BY <1>1, <1>2, <1>3

LEMMA SetCircuitTypes ==
  ASSUME TypeOK, NEW s \in Servers, NEW cb \in Breaker, SetCircuit(s, cb)
  PROVE  /\ circuit' \in [Servers -> Breaker]
         /\ lateCalls' \in [Servers -> Nat]
  BY DEF TypeOK, SetCircuit

LEMMA TypeInit == Init => TypeOK
  BY RunsAssumption, LimitsAssumption
  DEF Init, TypeOK, Phase, Breaker, CircuitState, Closed, Circuit

LEMMA TypeNext == TypeOK /\ [Next]_vars => TypeOK'
<1> SUFFICES ASSUME TypeOK, [Next]_vars PROVE TypeOK'
  OBVIOUS
<1> USE RunsAssumption, LimitsAssumption
<1>1. ASSUME NEW r \in Runs, CheckActiveRuns(r) PROVE TypeOK'
  BY <1>1 DEF TypeOK, CheckActiveRuns, MoveTo, Phase, windows, breakers
<1>2. ASSUME NEW r \in Runs, AcquireRun(r) PROVE TypeOK'
  BY <1>2 DEF TypeOK, AcquireRun, MoveTo, Phase, windows, breakers
<1>3. ASSUME NEW r \in Runs, RefuseRun(r) PROVE TypeOK'
  BY <1>3 DEF TypeOK, RefuseRun, MoveTo, Phase, windows, breakers
<1>4. ASSUME NEW r \in Runs, CheckModelRequests(r) PROVE TypeOK'
  BY <1>4 DEF TypeOK, CheckModelRequests, MoveTo, Phase, windows, breakers
<1>5. ASSUME NEW r \in Runs, RecordModelRequest(r) PROVE TypeOK'
  BY <1>5 DEF TypeOK, RecordModelRequest, MoveTo, Phase, breakers
<1>6. ASSUME NEW r \in Runs, Leave(r) PROVE TypeOK'
  BY <1>6 DEF TypeOK, Leave, MoveTo, Phase, windows, breakers
<1>7. ASSUME NEW r \in Runs, ReleaseRun(r) PROVE TypeOK'
  BY <1>7 DEF TypeOK, ReleaseRun, MoveTo, Phase, windows, breakers
<1>8. ASSUME NEW r \in Runs, CheckToolCalls(r) PROVE TypeOK'
  BY <1>8 DEF TypeOK, CheckToolCalls, MoveTo, Phase, windows, breakers
<1>9. ASSUME NEW r \in Runs, CheckCircuit(r) PROVE TypeOK'
  <2> DEFINE s == target[r]
             cb == Checked(circuit[s])
  <2>1. s \in Servers /\ SetCircuit(s, cb)
    BY <1>9 DEF CheckCircuit
  <2>2. cb \in Breaker
    BY <2>1, BreakerTypes DEF TypeOK
  <2>3. /\ circuit' \in [Servers -> Breaker]
        /\ lateCalls' \in [Servers -> Nat]
    BY <2>1, <2>2, SetCircuitTypes
  <2> QED
    BY <1>9, <2>3 DEF TypeOK, CheckCircuit, MoveTo, Phase, windows
<1>10. ASSUME NEW r \in Runs, NoCircuit(r) PROVE TypeOK'
  BY <1>10 DEF TypeOK, NoCircuit, MoveTo, Phase, windows, breakers
<1>11. ASSUME NEW r \in Runs, SkipUnhealthy(r) PROVE TypeOK'
  BY <1>11 DEF TypeOK, SkipUnhealthy, MoveTo, Phase, windows, breakers
<1>12. ASSUME NEW r \in Runs, RecordToolCall(r) PROVE TypeOK'
  BY <1>12 DEF TypeOK, RecordToolCall, MoveTo, Phase
<1>13. ASSUME NEW r \in Runs, CallSucceeds(r) PROVE TypeOK'
  <2>1. /\ circuit' \in [Servers -> Breaker]
        /\ lateCalls' \in [Servers -> Nat]
    <3>1. CASE target[r] \in Servers
      <4>1. AfterSuccess(circuit[target[r]]) \in Breaker
        BY <3>1, BreakerTypes DEF TypeOK
      <4>2. SetCircuit(target[r], AfterSuccess(circuit[target[r]]))
        BY <1>13, <3>1 DEF CallSucceeds
      <4> QED
        BY <3>1, <4>1, <4>2, SetCircuitTypes
    <3>2. CASE target[r] \notin Servers
      BY <1>13, <3>2 DEF CallSucceeds, TypeOK, breakers
    <3> QED
      BY <3>1, <3>2
  <2> QED
    BY <1>13, <2>1 DEF TypeOK, CallSucceeds, MoveTo, Phase, windows
<1>14. ASSUME NEW r \in Runs, CallFails(r) PROVE TypeOK'
  <2>1. /\ circuit' \in [Servers -> Breaker]
        /\ lateCalls' \in [Servers -> Nat]
    <3>1. CASE target[r] \in Servers
      <4>1. AfterFailure(circuit[target[r]]) \in Breaker
        BY <3>1, BreakerTypes DEF TypeOK
      <4>2. SetCircuit(target[r], AfterFailure(circuit[target[r]]))
        BY <1>14, <3>1 DEF CallFails
      <4> QED
        BY <3>1, <4>1, <4>2, SetCircuitTypes
    <3>2. CASE target[r] \notin Servers
      BY <1>14, <3>2 DEF CallFails, TypeOK, breakers
    <3> QED
      BY <3>1, <3>2
  <2> QED
    BY <1>14, <2>1 DEF TypeOK, CallFails, MoveTo, Phase, windows
<1>15. ASSUME NEW r \in Runs, CallRaises(r) PROVE TypeOK'
  BY <1>15 DEF TypeOK, CallRaises, MoveTo, Phase, windows, breakers
<1>16. ASSUME NEW s \in Servers, RecoveryElapses(s) PROVE TypeOK'
  BY <1>16 DEF TypeOK, RecoveryElapses, requests, windows, Breaker
<1>17. ASSUME NEW u \in Users, ExpireToolCall(u) PROVE TypeOK'
  BY <1>17 DEF TypeOK, ExpireToolCall, requests, breakers
<1>18. ASSUME NEW u \in Users, ExpireModelRequest(u) PROVE TypeOK'
  BY <1>18 DEF TypeOK, ExpireModelRequest, requests, breakers
<1>19. CASE UNCHANGED vars
  BY <1>19 DEF TypeOK, vars, requests, windows, breakers
<1> QED
  BY <1>1, <1>2, <1>3, <1>4, <1>5, <1>6, <1>7, <1>8, <1>9, <1>10, <1>11,
     <1>12, <1>13, <1>14, <1>15, <1>16, <1>17, <1>18, <1>19 DEF Next, Serve

\* The counters have their types in every state, and a user never has more
\* than max_active_runs_per_user runs.
THEOREM TypeCorrect == Spec => []TypeOK
  BY TypeInit, TypeNext, PTL DEF Spec, SafeSpec

-----------------------------------------------------------------------------
(* The counters                                                            *)

\* active_runs is the number of requests between acquire_run and release_run.
SlotInv == \A u \in Users : activeRuns[u] = Count(pc, Slotted, u)

\* A call past check_tool_call_limit is as good as recorded.
ToolInv ==
  \A u \in Users :
    toolCalls[u] + Count(pc, Pending, u) <= MaxToolCalls + MaxActiveRuns - 1

\* So is a request past check_model_request_limit.
ModelInv ==
  \A u \in Users :
    modelRequests[u] + Count(pc, {"prepare"}, u)
      <= MaxModelRequests + MaxActiveRuns - 1

IInv == TypeOK /\ SlotInv /\ ToolInv /\ ModelInv

\* A move that leaves a counter and the phases it goes with alone keeps that
\* counter's invariant.
LEMMA SlotQuiet ==
  ASSUME SlotInv, NEW r \in Runs, NEW q, Moves(r, q), UNCHANGED activeRuns,
         pc[r] \in Slotted <=> q \in Slotted
  PROVE  SlotInv'
<1>1. \A u : Count(pc', Slotted, u) = Count(pc, Slotted, u)
  BY CountAfterMove
<1> QED
  BY <1>1 DEF SlotInv

LEMMA ToolQuiet ==
  ASSUME TypeOK, ToolInv, NEW r \in Runs, NEW q, Moves(r, q), UNCHANGED toolCalls,
         q \notin Pending \/ pc[r] \in Pending
  PROVE  ToolInv'
<1>1. \A u : Count(pc', Pending, u) <= Count(pc, Pending, u)
  BY CountAfterMove, RunsInFinite
<1>2. \A u : Count(pc', Pending, u) \in Nat /\ Count(pc, Pending, u) \in Nat
  BY RunsInFinite
<1> QED
  BY <1>1, <1>2, LimitsAssumption DEF ToolInv, TypeOK

LEMMA ModelQuiet ==
  ASSUME TypeOK, ModelInv, NEW r \in Runs, NEW q, Moves(r, q),
         UNCHANGED modelRequests, q # "prepare"
  PROVE  ModelInv'
<1>1. \A u : Count(pc', {"prepare"}, u) <= Count(pc, {"prepare"}, u)
  BY CountAfterMove, RunsInFinite
<1>2. \A u : /\ Count(pc', {"prepare"}, u) \in Nat
            /\ Count(pc, {"prepare"}, u) \in Nat
  BY RunsInFinite
<1> QED
  BY <1>1, <1>2, LimitsAssumption DEF ModelInv, TypeOK

\* Steps of a request that touch no counter and enter no counted phase.
Quiet(r, q) ==
  /\ Moves(r, q)
  /\ UNCHANGED <<activeRuns, toolCalls, modelRequests>>
  /\ pc[r] \in Slotted <=> q \in Slotted
  /\ q \notin Pending \/ pc[r] \in Pending
  /\ q # "prepare"

LEMMA QuietStep ==
  ASSUME IInv, NEW r \in Runs, NEW q, Quiet(r, q)
  PROVE  SlotInv' /\ ToolInv' /\ ModelInv'
BY SlotQuiet, ToolQuiet, ModelQuiet DEF IInv, Quiet

\* A user's requests in some slotted phases are no more than the runs it has.
LEMMA CountBelowLimit ==
  ASSUME TypeOK, SlotInv', UNCHANGED activeRuns, NEW P \in SUBSET Slotted,
         NEW u \in Users
  PROVE  Count(pc', P, u) <= MaxActiveRuns
<1>1. Count(pc', P, u) <= Count(pc', Slotted, u)
  BY CountMonotone
<1>2. activeRuns[u] = Count(pc', Slotted, u)
  BY DEF SlotInv
<1>3. Count(pc', P, u) \in Nat /\ activeRuns[u] \in 0 .. MaxActiveRuns
  BY RunsInFinite DEF TypeOK
<1> QED
  BY <1>1, <1>2, <1>3, LimitsAssumption

LEMMA CountersInit == Init => SlotInv /\ ToolInv /\ ModelInv
<1> SUFFICES ASSUME Init PROVE SlotInv /\ ToolInv /\ ModelInv
  OBVIOUS
<1>1. ASSUME NEW P \in SUBSET Slotted, NEW u PROVE Count(pc, P, u) = 0
  <2>1. RunsIn(pc, P, u) = {}
    BY DEF RunsIn, Init, Slotted
  <2> QED
    BY <2>1, FS_EmptySet DEF Count
<1>2. Slotted \in SUBSET Slotted /\ Pending \in SUBSET Slotted /\ {"prepare"} \in SUBSET Slotted
  BY DEF Slotted, Pending, Phase
<1> QED
  BY <1>1, <1>2, LimitsAssumption DEF Init, SlotInv, ToolInv, ModelInv

LEMMA CountersNext ==
  ASSUME IInv, [Next]_vars
  PROVE  SlotInv' /\ ToolInv' /\ ModelInv'
<1> USE DEF Slotted, Pending, Phase
<1>0. TypeOK /\ SlotInv /\ ToolInv /\ ModelInv
  BY DEF IInv
<1>1. ASSUME NEW r \in Runs, CheckActiveRuns(r) PROVE SlotInv' /\ ToolInv' /\ ModelInv'
  <2>1. Quiet(r, "admit")
    BY <1>0, <1>1 DEF CheckActiveRuns, MoveTo, Moves, Quiet, TypeOK, windows
  <2> QED
    BY <2>1, QuietStep
<1>2. ASSUME NEW r \in Runs, AcquireRun(r) PROVE SlotInv' /\ ToolInv' /\ ModelInv'
  <2>1. Moves(r, "slot") /\ pc[r] = "admit"
    BY <1>0, <1>2 DEF AcquireRun, MoveTo, Moves, TypeOK
  <2>2. ToolInv' /\ ModelInv'
    BY <1>0, <1>2, <2>1, ToolQuiet, ModelQuiet DEF AcquireRun, windows
  <2>3. ASSUME NEW u \in Users PROVE activeRuns'[u] = Count(pc', Slotted, u)
    <3>1. CASE Owner[r] = u
      <4>1. Count(pc', Slotted, u) = Count(pc, Slotted, u) + 1
        BY <2>1, <3>1, CountAfterMove
      <4> QED
        BY <1>0, <1>2, <3>1, <4>1 DEF AcquireRun, TypeOK, SlotInv
    <3>2. CASE Owner[r] # u
      <4>1. Count(pc', Slotted, u) = Count(pc, Slotted, u)
        BY <2>1, <3>2, CountAfterMove
      <4> QED
        BY <1>0, <1>2, <3>2, <4>1 DEF AcquireRun, TypeOK, SlotInv
    <3> QED
      BY <3>1, <3>2
  <2> QED
    BY <2>2, <2>3 DEF SlotInv
<1>3. ASSUME NEW r \in Runs, RefuseRun(r) PROVE SlotInv' /\ ToolInv' /\ ModelInv'
  <2>1. Quiet(r, "idle")
    BY <1>0, <1>3 DEF RefuseRun, MoveTo, Moves, Quiet, TypeOK, windows
  <2> QED
    BY <2>1, QuietStep
<1>4. ASSUME NEW r \in Runs, CheckModelRequests(r) PROVE SlotInv' /\ ToolInv' /\ ModelInv'
  <2>1. CASE modelRequests[Owner[r]] >= MaxModelRequests
    <3>1. ~(modelRequests[Owner[r]] < MaxModelRequests)
      BY <1>0, <2>1, RunsAssumption, LimitsAssumption DEF TypeOK
    <3>2. Quiet(r, "leaving")
      BY <1>0, <1>4, <3>1
      DEF CheckModelRequests, MoveTo, Moves, Quiet, TypeOK, windows
    <3> QED
      BY <3>2, QuietStep
  <2>2. CASE modelRequests[Owner[r]] < MaxModelRequests
    <3>1. Moves(r, "prepare") /\ pc[r] = "slot"
      BY <1>0, <1>4, <2>2 DEF CheckModelRequests, MoveTo, Moves, TypeOK
    <3>2. SlotInv' /\ ToolInv'
      BY <1>0, <1>4, <3>1, SlotQuiet, ToolQuiet DEF CheckModelRequests, windows
    <3>3. ASSUME NEW u \in Users
          PROVE  modelRequests'[u] + Count(pc', {"prepare"}, u)
                   <= MaxModelRequests + MaxActiveRuns - 1
      <4>1. CASE Owner[r] = u
        <5>1. Count(pc', {"prepare"}, u) <= MaxActiveRuns
          BY <1>0, <1>4, <3>2, CountBelowLimit DEF CheckModelRequests
        <5>2. Count(pc', {"prepare"}, u) \in Nat
          BY RunsInFinite
        <5> QED
          BY <1>0, <1>4, <2>2, <4>1, <5>1, <5>2, LimitsAssumption
          DEF CheckModelRequests, windows, TypeOK
      <4>2. CASE Owner[r] # u
        <5>1. Count(pc', {"prepare"}, u) = Count(pc, {"prepare"}, u)
          BY <3>1, <4>2, CountAfterMove
        <5> QED
          BY <1>0, <1>4, <5>1 DEF CheckModelRequests, windows, ModelInv
      <4> QED
        BY <4>1, <4>2
    <3> QED
      BY <3>2, <3>3 DEF ModelInv
  <2> QED
    BY <1>0, <2>1, <2>2, RunsAssumption, LimitsAssumption DEF TypeOK
<1>5. ASSUME NEW r \in Runs, RecordModelRequest(r) PROVE SlotInv' /\ ToolInv' /\ ModelInv'
  <2>1. Moves(r, "loop") /\ pc[r] = "prepare"
    BY <1>0, <1>5 DEF RecordModelRequest, MoveTo, Moves, TypeOK
  <2>2. SlotInv' /\ ToolInv'
    BY <1>0, <1>5, <2>1, SlotQuiet, ToolQuiet DEF RecordModelRequest
  <2>3. ASSUME NEW u \in Users
        PROVE  modelRequests'[u] + Count(pc', {"prepare"}, u)
                 = modelRequests[u] + Count(pc, {"prepare"}, u)
    <3>1. /\ Count(pc', {"prepare"}, u) \in Nat
          /\ Count(pc, {"prepare"}, u) \in Nat
      BY RunsInFinite
    <3>2. CASE Owner[r] = u
      <4>1. Count(pc', {"prepare"}, u) = Count(pc, {"prepare"}, u) - 1
        BY <2>1, <3>2, CountAfterMove
      <4> QED
        BY <1>0, <1>5, <3>1, <3>2, <4>1 DEF RecordModelRequest, TypeOK
    <3>3. CASE Owner[r] # u
      <4>1. Count(pc', {"prepare"}, u) = Count(pc, {"prepare"}, u)
        BY <2>1, <3>3, CountAfterMove
      <4> QED
        BY <1>0, <1>5, <3>3, <4>1 DEF RecordModelRequest, TypeOK
    <3> QED
      BY <3>2, <3>3
  <2> QED
    BY <1>0, <2>2, <2>3 DEF ModelInv
<1>6. ASSUME NEW r \in Runs, Leave(r) PROVE SlotInv' /\ ToolInv' /\ ModelInv'
  <2>1. Quiet(r, "leaving")
    BY <1>0, <1>6 DEF Leave, MoveTo, Moves, Quiet, TypeOK, windows
  <2> QED
    BY <2>1, QuietStep
<1>7. ASSUME NEW r \in Runs, ReleaseRun(r) PROVE SlotInv' /\ ToolInv' /\ ModelInv'
  <2>1. Moves(r, "idle") /\ pc[r] = "leaving"
    BY <1>0, <1>7 DEF ReleaseRun, MoveTo, Moves, TypeOK
  <2>2. ToolInv' /\ ModelInv'
    BY <1>0, <1>7, <2>1, ToolQuiet, ModelQuiet DEF ReleaseRun, windows
  <2>3. ASSUME NEW u \in Users PROVE activeRuns'[u] = Count(pc', Slotted, u)
    <3>1. /\ Count(pc', Slotted, u) \in Nat
          /\ activeRuns[u] = Count(pc, Slotted, u)
      BY <1>0, RunsInFinite DEF SlotInv
    <3>2. CASE Owner[r] = u
      <4>1. Count(pc', Slotted, u) = Count(pc, Slotted, u) - 1
        BY <2>1, <3>2, CountAfterMove
      <4> QED
        BY <1>0, <1>7, <3>1, <3>2, <4>1 DEF ReleaseRun, TypeOK
    <3>3. CASE Owner[r] # u
      <4>1. Count(pc', Slotted, u) = Count(pc, Slotted, u)
        BY <2>1, <3>3, CountAfterMove
      <4> QED
        BY <1>0, <1>7, <3>1, <3>3, <4>1 DEF ReleaseRun, TypeOK
    <3> QED
      BY <3>2, <3>3
  <2> QED
    BY <2>2, <2>3 DEF SlotInv
<1>8. ASSUME NEW r \in Runs, CheckToolCalls(r) PROVE SlotInv' /\ ToolInv' /\ ModelInv'
  <2>1. CASE toolCalls[Owner[r]] >= MaxToolCalls
    <3>1. ~(toolCalls[Owner[r]] < MaxToolCalls)
      BY <1>0, <2>1, RunsAssumption, LimitsAssumption DEF TypeOK
    <3>2. Quiet(r, "leaving")
      BY <1>0, <1>8, <3>1 DEF CheckToolCalls, MoveTo, Moves, Quiet, TypeOK, windows
    <3> QED
      BY <3>2, QuietStep
  <2>2. CASE toolCalls[Owner[r]] < MaxToolCalls
    <3>1. Moves(r, "admitted") /\ pc[r] = "loop"
      BY <1>0, <1>8, <2>2 DEF CheckToolCalls, MoveTo, Moves, TypeOK
    <3>2. SlotInv' /\ ModelInv'
      BY <1>0, <1>8, <3>1, SlotQuiet, ModelQuiet DEF CheckToolCalls, windows
    <3>3. ASSUME NEW u \in Users
          PROVE  toolCalls'[u] + Count(pc', Pending, u) <= MaxToolCalls + MaxActiveRuns - 1
      <4>1. CASE Owner[r] = u
        <5>1. Count(pc', Pending, u) <= MaxActiveRuns
          BY <1>0, <1>8, <3>2, CountBelowLimit DEF CheckToolCalls
        <5>2. Count(pc', Pending, u) \in Nat
          BY RunsInFinite
        <5> QED
          BY <1>0, <1>8, <2>2, <4>1, <5>1, <5>2, LimitsAssumption
          DEF CheckToolCalls, windows, TypeOK
      <4>2. CASE Owner[r] # u
        <5>1. Count(pc', Pending, u) = Count(pc, Pending, u)
          BY <3>1, <4>2, CountAfterMove
        <5> QED
          BY <1>0, <1>8, <5>1 DEF CheckToolCalls, windows, ToolInv
      <4> QED
        BY <4>1, <4>2
    <3> QED
      BY <3>2, <3>3 DEF ToolInv
  <2> QED
    BY <1>0, <2>1, <2>2, RunsAssumption, LimitsAssumption DEF TypeOK
<1>9. ASSUME NEW r \in Runs, CheckCircuit(r) PROVE SlotInv' /\ ToolInv' /\ ModelInv'
  <2>1. PICK q \in {"loop", "cleared"} : pc' = [pc EXCEPT ![r] = q]
    BY <1>9 DEF CheckCircuit, MoveTo
  <2>2. Quiet(r, q)
    BY <1>0, <1>9, <2>1 DEF CheckCircuit, Moves, Quiet, TypeOK, windows
  <2> QED
    BY <2>2, QuietStep
<1>10. ASSUME NEW r \in Runs, NoCircuit(r) PROVE SlotInv' /\ ToolInv' /\ ModelInv'
  <2>1. Quiet(r, "cleared")
    BY <1>0, <1>10 DEF NoCircuit, MoveTo, Moves, Quiet, TypeOK, windows
  <2> QED
    BY <2>1, QuietStep
<1>11. ASSUME NEW r \in Runs,
              SkipUnhealthy(r) \/ CallSucceeds(r) \/ CallFails(r) \/ CallRaises(r)
       PROVE  SlotInv' /\ ToolInv' /\ ModelInv'
  <2>1. Quiet(r, "loop")
    BY <1>0, <1>11 DEF SkipUnhealthy, CallSucceeds, CallFails, CallRaises,
                       MoveTo, Moves, Quiet, TypeOK, windows
  <2> QED
    BY <2>1, QuietStep
<1>12. ASSUME NEW r \in Runs, RecordToolCall(r) PROVE SlotInv' /\ ToolInv' /\ ModelInv'
  <2>1. Moves(r, "calling") /\ pc[r] = "cleared"
    BY <1>0, <1>12 DEF RecordToolCall, MoveTo, Moves, TypeOK
  <2>2. SlotInv' /\ ModelInv'
    BY <1>0, <1>12, <2>1, SlotQuiet, ModelQuiet DEF RecordToolCall
  <2>3. ASSUME NEW u \in Users
        PROVE  toolCalls'[u] + Count(pc', Pending, u) = toolCalls[u] + Count(pc, Pending, u)
    <3>1. Count(pc', Pending, u) \in Nat /\ Count(pc, Pending, u) \in Nat
      BY RunsInFinite
    <3>2. CASE Owner[r] = u
      <4>1. Count(pc', Pending, u) = Count(pc, Pending, u) - 1
        BY <2>1, <3>2, CountAfterMove
      <4> QED
        BY <1>0, <1>12, <3>1, <3>2, <4>1 DEF RecordToolCall, TypeOK
    <3>3. CASE Owner[r] # u
      <4>1. Count(pc', Pending, u) = Count(pc, Pending, u)
        BY <2>1, <3>3, CountAfterMove
      <4> QED
        BY <1>0, <1>12, <3>3, <4>1 DEF RecordToolCall, TypeOK
    <3> QED
      BY <3>2, <3>3
  <2> QED
    BY <1>0, <2>2, <2>3 DEF ToolInv
<1>13. ASSUME NEW s \in Servers, RecoveryElapses(s) PROVE SlotInv' /\ ToolInv' /\ ModelInv'
  BY <1>0, <1>13 DEF RecoveryElapses, requests, windows, SlotInv, ToolInv, ModelInv
<1>14. ASSUME NEW u \in Users, ExpireToolCall(u) PROVE SlotInv' /\ ToolInv' /\ ModelInv'
  <2>1. \A v \in Users : toolCalls'[v] \in Nat /\ toolCalls'[v] <= toolCalls[v]
    BY <1>0, <1>14 DEF ExpireToolCall, TypeOK
  <2> QED
    BY <1>0, <1>14, <2>1, RunsInFinite, LimitsAssumption
    DEF ExpireToolCall, requests, TypeOK, SlotInv, ToolInv, ModelInv
<1>15. ASSUME NEW u \in Users, ExpireModelRequest(u) PROVE SlotInv' /\ ToolInv' /\ ModelInv'
  <2>1. \A v \in Users : modelRequests'[v] \in Nat /\ modelRequests'[v] <= modelRequests[v]
    BY <1>0, <1>15 DEF ExpireModelRequest, TypeOK
  <2> QED
    BY <1>0, <1>15, <2>1, RunsInFinite, LimitsAssumption
    DEF ExpireModelRequest, requests, TypeOK, SlotInv, ToolInv, ModelInv
<1>16. CASE UNCHANGED vars
  BY <1>0, <1>16 DEF vars, requests, windows, SlotInv, ToolInv, ModelInv
<1> QED
  BY <1>1, <1>2, <1>3, <1>4, <1>5, <1>6, <1>7, <1>8, <1>9, <1>10, <1>11,
     <1>12, <1>13, <1>14, <1>15, <1>16 DEF Next, Serve

THEOREM Invariance == Spec => []IInv
<1>1. Init => IInv
  BY TypeInit, CountersInit DEF IInv
<1>2. IInv /\ [Next]_vars => IInv'
  BY TypeNext, CountersNext DEF IInv
<1> QED
  BY <1>1, <1>2, PTL DEF Spec, SafeSpec

\* Concurrent runs exceed the tool-call limit by less than the runs a user may
\* have at once.
THEOREM ToolCallBound == Spec => []ToolCallsBounded
<1>1. IInv => ToolCallsBounded
  BY RunsInFinite, LimitsAssumption DEF IInv, TypeOK, ToolInv, ToolCallsBounded
<1> QED
  BY <1>1, Invariance, PTL

\* The same for the requests to the model.
THEOREM ModelRequestBound == Spec => []ModelRequestsBounded
<1>1. IInv => ModelRequestsBounded
  BY RunsInFinite, LimitsAssumption DEF IInv, TypeOK, ModelInv, ModelRequestsBounded
<1> QED
  BY <1>1, Invariance, PTL

-----------------------------------------------------------------------------
(* The limiter implements RunSlots                                         *)

LEMMA SlotsOfUser ==
  ASSUME TypeOK, NEW u
  PROVE  Slots!SlotsOf(u) = RunsIn(pc, Slotted, u)
BY DEF Slots!SlotsOf, Holders, HasSlot, RunsIn, Slotted, TypeOK

\* A request keeps its slot, or its lack of one, when it moves between phases
\* of the same kind.
LEMMA HoldersAfterMove ==
  ASSUME NEW r \in Runs, NEW q \in Phase, Moves(r, q)
  PROVE  /\ (pc[r] \in Slotted <=> q \in Slotted) => Holders' = Holders
         /\ pc[r] \notin Slotted /\ q \in Slotted
              => r \notin Holders /\ Holders' = Holders \cup {r}
         /\ pc[r] \in Slotted /\ q \notin Slotted
              => r \in Holders /\ Holders' = Holders \ {r}
<1>1. /\ pc'[r] = q
      /\ \A x \in Runs : x # r => pc'[x] = pc[x]
      /\ \A x \in Runs : pc[x] \in Phase
  BY DEF Moves
<1> QED
  BY <1>1 DEF Holders, HasSlot, Slotted

LEMMA StepImplements == IInv /\ [Next]_vars => [Slots!Next]_Holders
<1> SUFFICES ASSUME IInv, [Next]_vars PROVE [Slots!Next]_Holders
  OBVIOUS
<1>0. TypeOK /\ SlotInv
  BY DEF IInv
<1>1. ASSUME NEW r \in Runs, AcquireRun(r) PROVE [Slots!Next]_Holders
  <2>1. Moves(r, "slot") /\ pc[r] = "admit" /\ activeRuns[Owner[r]] < MaxActiveRuns
    BY <1>0, <1>1 DEF AcquireRun, MoveTo, Moves, TypeOK
  <2>2. r \notin Holders /\ Holders' = Holders \cup {r}
    BY <2>1, HoldersAfterMove DEF Slotted, Phase
  <2>3. activeRuns[Owner[r]] = Cardinality(Slots!SlotsOf(Owner[r]))
    BY <1>0, SlotsOfUser, RunsAssumption DEF SlotInv, Count
  <2>4. Slots!Cardinality(Slots!SlotsOf(Owner[r])) = Cardinality(Slots!SlotsOf(Owner[r]))
    BY DEF Slots!Cardinality, Cardinality
  <2>5. Slots!Take(r)
    BY <2>1, <2>2, <2>3, <2>4 DEF Slots!Take
  <2> QED
    BY <2>5 DEF Slots!Next
<1>2. ASSUME NEW r \in Runs, ReleaseRun(r) PROVE [Slots!Next]_Holders
  <2>1. Moves(r, "idle") /\ pc[r] = "leaving"
    BY <1>0, <1>2 DEF ReleaseRun, MoveTo, Moves, TypeOK
  <2>2. r \in Holders /\ Holders' = Holders \ {r}
    BY <2>1, HoldersAfterMove DEF Slotted, Phase
  <2>3. Slots!GiveBack(r)
    BY <2>2 DEF Slots!GiveBack
  <2> QED
    BY <2>3 DEF Slots!Next
<1>3. ASSUME NEW r \in Runs,
             \/ CheckActiveRuns(r) \/ RefuseRun(r) \/ CheckModelRequests(r)
             \/ RecordModelRequest(r) \/ Leave(r) \/ CheckToolCalls(r)
             \/ CheckCircuit(r) \/ NoCircuit(r) \/ SkipUnhealthy(r)
             \/ RecordToolCall(r) \/ CallSucceeds(r) \/ CallFails(r) \/ CallRaises(r)
      PROVE  Holders' = Holders
  <2>1. CASE CheckActiveRuns(r) \/ RefuseRun(r)
    <3>1. PICK q \in {"idle", "admit"} : Moves(r, q) /\ pc[r] \notin Slotted
      BY <1>0, <2>1 DEF CheckActiveRuns, RefuseRun, MoveTo, Moves, TypeOK, Slotted
    <3> QED
      BY <3>1, HoldersAfterMove DEF Slotted, Phase
  <2>2. CASE CheckModelRequests(r)
    <3>1. PICK q \in {"prepare", "leaving"} : pc' = [pc EXCEPT ![r] = q]
      BY <2>2 DEF CheckModelRequests, MoveTo
    <3>2. Moves(r, q) /\ pc[r] = "slot"
      BY <1>0, <2>2, <3>1 DEF CheckModelRequests, Moves, TypeOK
    <3> QED
      BY <3>2, HoldersAfterMove DEF Slotted, Phase
  <2>3. CASE CheckToolCalls(r)
    <3>1. PICK q \in {"admitted", "leaving"} : pc' = [pc EXCEPT ![r] = q]
      BY <2>3 DEF CheckToolCalls, MoveTo
    <3>2. Moves(r, q) /\ pc[r] = "loop"
      BY <1>0, <2>3, <3>1 DEF CheckToolCalls, Moves, TypeOK
    <3> QED
      BY <3>2, HoldersAfterMove DEF Slotted, Phase
  <2>4. CASE CheckCircuit(r)
    <3>1. PICK q \in {"loop", "cleared"} : pc' = [pc EXCEPT ![r] = q]
      BY <2>4 DEF CheckCircuit, MoveTo
    <3>2. Moves(r, q) /\ pc[r] = "admitted"
      BY <1>0, <2>4, <3>1 DEF CheckCircuit, Moves, TypeOK
    <3> QED
      BY <3>2, HoldersAfterMove DEF Slotted, Phase
  <2>5. CASE NoCircuit(r)
    <3>1. Moves(r, "cleared") /\ pc[r] = "admitted"
      BY <1>0, <2>5 DEF NoCircuit, MoveTo, Moves, TypeOK
    <3> QED
      BY <3>1, HoldersAfterMove DEF Slotted, Phase
  <2>6. CASE RecordModelRequest(r)
    <3>1. Moves(r, "loop") /\ pc[r] = "prepare"
      BY <1>0, <2>6 DEF RecordModelRequest, MoveTo, Moves, TypeOK
    <3> QED
      BY <3>1, HoldersAfterMove DEF Slotted, Phase
  <2>7. CASE RecordToolCall(r)
    <3>1. Moves(r, "calling") /\ pc[r] = "cleared"
      BY <1>0, <2>7 DEF RecordToolCall, MoveTo, Moves, TypeOK
    <3> QED
      BY <3>1, HoldersAfterMove DEF Slotted, Phase
  <2>8. CASE SkipUnhealthy(r) \/ CallSucceeds(r) \/ CallFails(r) \/ CallRaises(r)
    <3>1. Moves(r, "loop") /\ pc[r] \in {"cleared", "calling"}
      BY <1>0, <2>8
      DEF SkipUnhealthy, CallSucceeds, CallFails, CallRaises, MoveTo, Moves, TypeOK
    <3> QED
      BY <3>1, HoldersAfterMove DEF Slotted, Phase
  <2>9. CASE Leave(r)
    <3>1. /\ Moves(r, "leaving")
          /\ pc[r] \in {"slot", "prepare", "loop", "admitted", "cleared", "calling"}
      BY <1>0, <2>9 DEF Leave, MoveTo, Moves, TypeOK
    <3> QED
      BY <3>1, HoldersAfterMove DEF Slotted, Phase
  <2> QED
    BY <1>3, <2>1, <2>2, <2>3, <2>4, <2>5, <2>6, <2>7, <2>8, <2>9
<1>4. ASSUME \/ \E s \in Servers : RecoveryElapses(s)
             \/ \E u \in Users : ExpireToolCall(u) \/ ExpireModelRequest(u)
             \/ UNCHANGED vars
      PROVE  Holders' = Holders
  BY <1>4 DEF RecoveryElapses, ExpireToolCall, ExpireModelRequest, vars, requests,
              Holders, HasSlot
<1> QED
  BY <1>1, <1>2, <1>3, <1>4 DEF Next, Serve

\* acquire_run and release_run implement a bounded set of slots: every step of
\* the limiter takes one slot, gives one back, or leaves them alone.
THEOREM SlotsImplementedSafely == Spec => Slots!SafeSpec
<1>1. Init => Slots!Init
  BY DEF Init, Slots!Init, Holders, HasSlot
<1> QED
  BY <1>1, StepImplements, Invariance, PTL DEF Spec, SafeSpec, Slots!SafeSpec

-----------------------------------------------------------------------------
(* Calls sent to an open circuit                                           *)

\* The requests whose call to s has been cleared and not sent.
Cleared(s) == { r \in Runs : pc[r] = "cleared" /\ target[r] = s }

\* While a circuit is open nothing is cleared for it: a call is sent late only
\* by a request that was cleared before, and the request whose failure opened
\* the circuit was not one of them.
LateInv ==
  \A s \in Servers :
    circuit[s].state = "open"
      => lateCalls[s] + Cardinality(Cleared(s)) < Cardinality(Runs)

LEMMA ClearedFinite ==
  ASSUME NEW s
  PROVE  /\ IsFiniteSet(Cleared(s)) /\ Cardinality(Cleared(s)) \in Nat
         /\ IsFiniteSet(Cleared(s)') /\ Cardinality(Cleared(s)') \in Nat
         /\ Cardinality(Runs) \in Nat
<1>1. Cleared(s) \in SUBSET Runs /\ Cleared(s)' \in SUBSET Runs
  BY DEF Cleared
<1>2. IsFiniteSet(Cleared(s)) /\ IsFiniteSet(Cleared(s)')
  BY <1>1, FS_Subset, RunsAssumption
<1> QED
  BY <1>2, FS_CardinalityType, RunsAssumption

\* Nothing is cleared, no circuit changes.
LEMMA LateQuiet ==
  ASSUME TypeOK, LateInv, UNCHANGED <<circuit, lateCalls>>,
         \A s \in Servers : Cleared(s)' \subseteq Cleared(s)
  PROVE  LateInv'
<1>1. ASSUME NEW s \in Servers, circuit'[s].state = "open"
      PROVE  lateCalls'[s] + Cardinality(Cleared(s)') < Cardinality(Runs)
  <2>1. Cardinality(Cleared(s)') <= Cardinality(Cleared(s))
    BY ClearedFinite, FS_Subset
  <2> QED
    BY <1>1, <2>1, ClearedFinite DEF LateInv, TypeOK
<1> QED
  BY <1>1 DEF LateInv

\* One request answers: its circuit may change, and if it opens the request is
\* not among the cleared ones.
LEMMA LateAnswer ==
  ASSUME TypeOK, LateInv, NEW r \in Runs, pc[r] = "calling",
         pc' = [pc EXCEPT ![r] = "loop"], UNCHANGED target,
         NEW s \in Servers, NEW cb \in Breaker, SetCircuit(s, cb)
  PROVE  LateInv'
<1>1. \A x : Cleared(x)' = Cleared(x)
  BY DEF Cleared, TypeOK
<1>2. ASSUME NEW x \in Servers, circuit'[x].state = "open"
      PROVE  lateCalls'[x] + Cardinality(Cleared(x)') < Cardinality(Runs)
  <2>1. CASE x = s /\ circuit[s].state # "open"
    <3>1. lateCalls'[x] = 0
      BY <1>2, <2>1 DEF SetCircuit, TypeOK
    <3>2. Cleared(x) \in SUBSET (Runs \ {r})
      BY DEF Cleared
    <3>3. /\ IsFiniteSet(Runs \ {r})
          /\ Cardinality(Runs \ {r}) = Cardinality(Runs) - 1
      BY FS_RemoveElement, RunsAssumption
    <3>4. Cardinality(Cleared(x)) <= Cardinality(Runs) - 1
      BY <3>2, <3>3, FS_Subset
    <3> QED
      BY <1>1, <3>1, <3>4, ClearedFinite
  <2>2. CASE x # s \/ circuit[s].state = "open"
    <3>1. circuit[x].state = "open" /\ lateCalls'[x] = lateCalls[x]
      BY <1>2, <2>2 DEF SetCircuit, TypeOK
    <3> QED
      BY <1>1, <3>1 DEF LateInv
  <2> QED
    BY <2>1, <2>2
<1> QED
  BY <1>2 DEF LateInv

LEMMA LateNext == TypeOK /\ LateInv /\ [Next]_vars => LateInv'
<1> SUFFICES ASSUME TypeOK, LateInv, [Next]_vars PROVE LateInv'
  OBVIOUS
<1>1. ASSUME NEW r \in Runs,
             \/ CheckActiveRuns(r) \/ AcquireRun(r) \/ RefuseRun(r)
             \/ CheckModelRequests(r) \/ RecordModelRequest(r) \/ Leave(r)
             \/ ReleaseRun(r) \/ CheckToolCalls(r)
             \/ SkipUnhealthy(r) \/ CallRaises(r)
      PROVE  LateInv'
  <2>1. UNCHANGED <<circuit, lateCalls>>
    BY <1>1 DEF CheckActiveRuns, AcquireRun, RefuseRun, CheckModelRequests,
       RecordModelRequest, Leave, ReleaseRun, CheckToolCalls, SkipUnhealthy,
       CallRaises, breakers
  <2>2. /\ pc'[r] # "cleared"
        /\ \A x \in Runs : x # r => pc'[x] = pc[x] /\ target'[x] = target[x]
    BY <1>1, RunsAssumption DEF CheckActiveRuns, AcquireRun, RefuseRun,
       CheckModelRequests, RecordModelRequest, Leave, ReleaseRun, CheckToolCalls,
       SkipUnhealthy, CallRaises, MoveTo, TypeOK
  <2>3. \A s \in Servers : Cleared(s)' \subseteq Cleared(s)
    BY <2>2 DEF Cleared
  <2> QED
    BY <2>1, <2>3, LateQuiet
<1>2. ASSUME NEW r \in Runs, NoCircuit(r) PROVE LateInv'
  <2>1. \A s \in Servers : Cleared(s)' \subseteq Cleared(s)
    BY <1>2, RunsAssumption DEF NoCircuit, MoveTo, Cleared, TypeOK
  <2> QED
    BY <1>2, <2>1, LateQuiet DEF NoCircuit, breakers
<1>3. ASSUME NEW r \in Runs, CheckCircuit(r) PROVE LateInv'
  <2> DEFINE s == target[r]
             cb == Checked(circuit[s])
  <2>1. s \in Servers /\ SetCircuit(s, cb) /\ UNCHANGED target
    BY <1>3 DEF CheckCircuit
  <2>2. cb \in Breaker /\ (cb.state = "open" => cb = circuit[s])
    BY <2>1, BreakerTypes DEF TypeOK, Checked, ToHalfOpen, Circuit
  <2>3. ASSUME NEW x \in Servers, circuit'[x].state = "open"
        PROVE  lateCalls'[x] + Cardinality(Cleared(x)') < Cardinality(Runs)
    <3>1. circuit[x].state = "open" /\ lateCalls'[x] = lateCalls[x]
      BY <2>1, <2>2, <2>3 DEF SetCircuit, TypeOK
    <3>2. x = s => cb.state = "open"
      BY <2>1, <2>2, <2>3 DEF SetCircuit, TypeOK
    <3>3. Cleared(x)' = Cleared(x)
      BY <1>3, <2>1, <3>2 DEF CheckCircuit, MoveTo, Cleared, TypeOK
    <3> QED
      BY <3>1, <3>3 DEF LateInv
  <2> QED
    BY <2>3 DEF LateInv
<1>4. ASSUME NEW r \in Runs, RecordToolCall(r) PROVE LateInv'
  <2>1. ASSUME NEW x \in Servers, circuit'[x].state = "open"
        PROVE  lateCalls'[x] + Cardinality(Cleared(x)') < Cardinality(Runs)
    <3>1. circuit[x].state = "open"
      BY <1>4, <2>1 DEF RecordToolCall
    <3>2. CASE target[r] = x
      <4>1. lateCalls'[x] = lateCalls[x] + 1
        BY <1>4, <3>1, <3>2 DEF RecordToolCall, TypeOK
      <4>2. Cleared(x)' = Cleared(x) \ {r} /\ r \in Cleared(x)
        BY <1>4, <3>2 DEF RecordToolCall, MoveTo, Cleared, TypeOK
      <4>3. Cardinality(Cleared(x)') = Cardinality(Cleared(x)) - 1
        BY <4>2, ClearedFinite, FS_RemoveElement
      <4> QED
        BY <3>1, <4>1, <4>3, ClearedFinite DEF LateInv, TypeOK
    <3>3. CASE target[r] # x
      <4>1. lateCalls'[x] = lateCalls[x]
        BY <1>4, <3>3 DEF RecordToolCall, TypeOK
      <4>2. Cleared(x)' = Cleared(x)
        BY <1>4, <3>3 DEF RecordToolCall, MoveTo, Cleared, TypeOK
      <4> QED
        BY <3>1, <4>1, <4>2 DEF LateInv
    <3> QED
      BY <3>2, <3>3
  <2> QED
    BY <2>1 DEF LateInv
<1>5. ASSUME NEW r \in Runs, CallSucceeds(r) \/ CallFails(r) PROVE LateInv'
  <2>1. /\ pc[r] = "calling"
        /\ pc' = [pc EXCEPT ![r] = "loop"]
        /\ UNCHANGED target
    BY <1>5 DEF CallSucceeds, CallFails, MoveTo
  <2>2. CASE target[r] \in Servers
    <3>1. PICK cb \in Breaker : SetCircuit(target[r], cb)
      BY <1>5, <2>2, BreakerTypes DEF CallSucceeds, CallFails, TypeOK
    <3> QED
      BY <2>1, <2>2, <3>1, LateAnswer
  <2>3. CASE target[r] \notin Servers
    <3>1. UNCHANGED <<circuit, lateCalls>>
      BY <1>5, <2>3 DEF CallSucceeds, CallFails, breakers
    <3>2. \A s \in Servers : Cleared(s)' \subseteq Cleared(s)
      BY <2>1 DEF Cleared, TypeOK
    <3> QED
      BY <3>1, <3>2, LateQuiet
  <2> QED
    BY <2>2, <2>3
<1>6. ASSUME NEW s \in Servers, RecoveryElapses(s) PROVE LateInv'
  <2>1. \A x \in Servers : /\ circuit'[x].state = circuit[x].state
                           /\ lateCalls'[x] = lateCalls[x]
    BY <1>6 DEF RecoveryElapses, TypeOK, Breaker
  <2>2. \A x \in Servers : Cleared(x)' = Cleared(x)
    BY <1>6 DEF RecoveryElapses, requests, Cleared
  <2> QED
    BY <2>1, <2>2 DEF LateInv
<1>7. ASSUME NEW u \in Users, ExpireToolCall(u) \/ ExpireModelRequest(u) PROVE LateInv'
  BY <1>7, LateQuiet DEF ExpireToolCall, ExpireModelRequest, requests, breakers, Cleared
<1>8. CASE UNCHANGED vars
  BY <1>8, LateQuiet DEF vars, requests, breakers, Cleared
<1> QED
  BY <1>1, <1>2, <1>3, <1>4, <1>5, <1>6, <1>7, <1>8 DEF Next, Serve

\* An open circuit lets out only calls cleared before it opened: fewer than
\* there are requests.
THEOREM LateCallBound == Spec => []LateCallsBounded
<1>1. Init => LateInv
  BY DEF Init, LateInv, Closed, Circuit
<1>2. IInv /\ LateInv => LateCallsBounded
  BY ClearedFinite DEF LateInv, LateCallsBounded, IInv, TypeOK
<1> QED
  BY <1>1, <1>2, LateNext, TypeCorrect, Invariance, PTL DEF Spec, SafeSpec

\* All the bounds of the limiter together, as the run checks them: Sound.
THEOREM Soundness == Spec => []Sound
BY TypeCorrect, ToolCallBound, ModelRequestBound, LateCallBound, PTL DEF Sound

-----------------------------------------------------------------------------
(* ToolDirectory: the exposure policy                                      *)

\* The built-in tool is a read tool of every workflow, and no tool of another
\* server is taken for it.
LEMMA BuiltinIsSafe ==
  ASSUME NEW t \in Tool, Metadata(t).provider = "builtin"
  PROVE  "general" \in Metadata(t).tags /\ Metadata(t).risk = 0
<1>1. CASE t.name.id = "unknown"
  <2>1. Metadata(t).provider = InferredProvider(t.host)
    BY <1>1 DEF Metadata, Meta
  <2>2. InferredProvider(t.host) # "builtin"
    BY DEF InferredProvider
  <2> QED
    BY <2>1, <2>2
<1>2. CASE t.name.id # "unknown"
  <2>1. Metadata(t) = Known[t.name.id]
    BY <1>2 DEF Metadata
  <2>2. t.name.id \in DOMAIN Known
    BY <1>2 DEF Tool, Names, KnownName
  <2>3. \A k \in DOMAIN Known : Known[k].provider = "builtin" =>
          "general" \in Known[k].tags /\ Known[k].risk = 0
    BY DEF Known, Meta
  <2> QED
    BY <2>1, <2>2, <2>3
<1> QED
  BY <1>1, <1>2

\* What the filters leave is what the policy allows when asked.
LEMMA ExposedIsAllowed ==
  ASSUME NEW w, NEW tools \in SUBSET Tool, NEW t \in Exposed(w, tools)
  PROVE  PolicyAllows(w, t)
<1>1. t \in tools
  BY DEF Exposed, ByRisk, ByWorkflow, ByProvider
<1>2. CASE Metadata(t).provider = "builtin"
  <2>1. "general" \in Metadata(t).tags /\ Metadata(t).risk = 0
    BY <1>1, <1>2, BuiltinIsSafe
  <2>2. 0 <= MaxRisk(w)
    BY DEF MaxRisk
  <2> QED
    BY <1>2, <2>1, <2>2 DEF PolicyAllows
<1>3. CASE Metadata(t).provider # "builtin"
  <2>1. t \in ByRisk(MaxRisk(w), ByWorkflow(w, tools))
    BY <1>3 DEF Exposed, ByProvider
  <2>2. AllowedProviders(w) = {} \/ Metadata(t).provider \in AllowedProviders(w)
    BY <1>3 DEF Exposed, ByProvider
  <2> QED
    BY <2>1, <2>2 DEF PolicyAllows, ByRisk, ByWorkflow
<1> QED
  BY <1>2, <1>3

-----------------------------------------------------------------------------
(* The inductive invariant                                                 *)

\* Entries are at places that were used and clients are numbered as created;
\* the gateway's entry is never deleted.
EntriesInv ==
  /\ IsFiniteSet(entries) /\ Size <= fill /\ fill <= created + 1
  /\ \A e \in entries : e.at \in 1 .. fill /\ e.client <= created + 1
  /\ \E e \in entries : e.key = Gateway /\ e.client = 1

\* A tracked client is in the registry under the name of its integration.
TrackedInv ==
  \A i \in Integrations : tracked[i] # 0 =>
    \E e \in entries : e.client = tracked[i] /\ e.key = i

\* The client a request closes is one of its integration, wherever it is left.
RequestInv ==
  \A r \in Requests :
    /\ request[r].at # "idle" => request[r].of \in Integrations
    /\ request[r].at \in {"disabling", "deleting"} =>
         /\ request[r].client \in 2 .. created + 1
         /\ \A e \in entries : e.client = request[r].client => e.key = request[r].of

\* What a run that builds the catalog has passed in the dict, it has in the
\* catalog or has missed, whatever was registered, replaced or deleted
\* meanwhile.
Passed(r) ==
  \A e \in entries : e.at <= r.place =>
    e.key \in r.catalog.servers \cup r.catalog.missed \cup {r.key}

BuildInv == \A u \in ChatRuns : run[u].at = "building" => Passed(run[u])

DirectoryInv ==
  /\ DirectoryTypeOK /\ CatalogCoversClients /\ OfferedIsAllowed
  /\ EntriesInv /\ TrackedInv /\ RequestInv /\ BuildInv

\* The parts of the type invariant.
Shape ==
  /\ integration \in [Integrations -> {"absent", "present", "deleted"}]
  /\ entries \subseteq DictEntry /\ fill \in Nat /\ capacity \in Nat
  /\ created \in 0 .. MaxClients
  /\ tracked \in [Integrations -> Clients \cup {0}] /\ warm \subseteq Clients
  /\ cache \in Seq(Catalog) /\ Len(cache) <= 1 /\ holder \in ChatRuns \cup {None}
  /\ known \subseteq Keys /\ vouched \subseteq known
  /\ request \in [Requests -> Request] /\ run \in [ChatRuns -> Run]

Distinct(dict) ==
  \A e, x \in dict : e # x => e.key # x.key /\ e.client # x.client /\ e.at # x.at

LockHeld == \A u \in ChatRuns : run[u].at = "building" <=> holder = u

LEMMA TypeParts == DirectoryTypeOK <=> Shape /\ Distinct(entries) /\ LockHeld
BY DEF DirectoryTypeOK, Shape, Distinct, LockHeld

LEMMA TypePartsNext ==
  ASSUME Shape', Distinct(entries)', LockHeld'
  PROVE  DirectoryTypeOK'
BY DEF DirectoryTypeOK, Shape, Distinct, LockHeld

-----------------------------------------------------------------------------
(* The registry, a dict                                                    *)

LEMMA EntryTypes ==
  /\ Gateway \in Keys /\ Integrations \subseteq Keys /\ Gateway \notin Integrations
  /\ 1 \in Clients /\ Clients \subseteq Nat /\ 0 \notin Clients
  /\ \A e \in DictEntry : e.key \in Keys /\ e.client \in Clients /\ e.at \in Nat
  /\ \A k \in Keys, c \in Clients, p \in Nat :
       At(p, k, c) \in DictEntry /\ At(p, k, c).key = k /\ At(p, k, c).client = c /\ At(p, k, c).at = p
BY DirectoryAssumption DEF Gateway, Keys, Clients, DictEntry, At

LEMMA ImageFinite ==
  ASSUME NEW S, IsFiniteSet(S), NEW T, NEW f \in [S -> T]
  PROVE  IsFiniteSet({f[x] : x \in S}) /\ Cardinality({f[x] : x \in S}) <= Cardinality(S)
<1>1. f \in Surjection(S, {f[x] : x \in S})
  BY DEF Surjection
<1> QED
  BY <1>1, FS_Surjection

\* A dict whose entries were changed one by one, under their names.
LEMMA ChangedEntries ==
  ASSUME Distinct(entries), IsFiniteSet(entries),
         NEW f \in [entries -> DictEntry], \A e \in entries : f[e].key = e.key,
         \A e, x \in entries : e # x => f[e].client # f[x].client /\ f[e].at # f[x].at
  PROVE  LET dict == {f[e] : e \in entries} IN
         /\ dict \subseteq DictEntry /\ Distinct(dict)
         /\ IsFiniteSet(dict) /\ Cardinality(dict) <= Size
<1>1. {f[e] : e \in entries} \subseteq DictEntry
  OBVIOUS
<1>2. Distinct({f[e] : e \in entries})
  BY DEF Distinct
<1>3. IsFiniteSet({f[e] : e \in entries}) /\ Cardinality({f[e] : e \in entries}) <= Size
  BY ImageFinite DEF Size
<1> QED
  BY <1>1, <1>2, <1>3

\* A new name takes the next place.
LEMMA AddedEntry ==
  ASSUME NEW dict \in SUBSET DictEntry, Distinct(dict), IsFiniteSet(dict),
         NEW n \in Nat, Cardinality(dict) <= n, NEW key \in Keys, NEW c \in Clients,
         \A e \in dict : e.at \in 1 .. n /\ e.key # key /\ e.client # c
  PROVE  LET more == dict \cup {At(n + 1, key, c)} IN
         /\ more \subseteq DictEntry /\ Distinct(more)
         /\ IsFiniteSet(more) /\ Cardinality(more) <= n + 1
         /\ \A e \in more : e.at \in 1 .. n + 1
<1> DEFINE new == At(n + 1, key, c)
           more == dict \cup {new}
<1>1. new \in DictEntry /\ new.key = key /\ new.client = c /\ new.at = n + 1
  BY EntryTypes
<1> HIDE DEF new
<1>2. more \subseteq DictEntry /\ \A e \in more : e.at \in 1 .. n + 1
  BY <1>1
<1>3. Distinct(more)
  <2>1. \A e \in dict : e.key # new.key /\ e.client # new.client /\ e.at # new.at
    BY <1>1
  <2> QED
    BY <2>1 DEF Distinct
<1>4. Cardinality(dict) \in Nat
  BY FS_CardinalityType
<1>5. IsFiniteSet(more) /\ Cardinality(more) <= n + 1
  <2>1. /\ IsFiniteSet(more)
        /\ Cardinality(more) = Cardinality(dict) \/ Cardinality(more) = Cardinality(dict) + 1
    BY FS_AddElement, Zenon
  <2> HIDE DEF more
  <2> QED
    BY <2>1, <1>4
<1> QED
  BY <1>2, <1>3, <1>5 DEF new

\* In a new table the entries keep their order and leave no holes.
LEMMA Ranks ==
  ASSUME entries \subseteq DictEntry, IsFiniteSet(entries)
  PROVE  /\ \A e \in entries : Rank(e) \in 1 .. Size
         /\ \A e, x \in entries : e.at < x.at => Rank(e) < Rank(x)
<1> DEFINE upTo(e) == {x \in entries : x.at <= e.at}
<1>1. ASSUME NEW e \in entries
      PROVE  /\ IsFiniteSet(upTo(e)) /\ Rank(e) = Cardinality(upTo(e))
             /\ Rank(e) \in Nat /\ Rank(e) <= Size
  <2>1. upTo(e) \in SUBSET entries
    OBVIOUS
  <2> QED
    BY <2>1, FS_Subset, FS_CardinalityType DEF Rank, Size
<1>2. \A e \in entries : e.at \in Nat
  BY EntryTypes
<1>3. Size \in Nat
  BY FS_CardinalityType DEF Size
<1>4. ASSUME NEW e \in entries PROVE Rank(e) \in 1 .. Size
  <2>1. e \in upTo(e)
    BY <1>2
  <2>2. Rank(e) # 0
    BY <1>1, <2>1, FS_EmptySet
  <2>3. Rank(e) \in Nat /\ Rank(e) <= Size
    BY <1>1
  <2> QED
    BY <1>3, <2>2, <2>3
<1>5. ASSUME NEW e \in entries, NEW x \in entries, e.at < x.at PROVE Rank(e) < Rank(x)
  <2>1. upTo(e) \in SUBSET upTo(x) /\ x \in upTo(x) /\ x \notin upTo(e)
    BY <1>2, <1>5
  <2>2. Cardinality(upTo(e)) <= Cardinality(upTo(x)) /\ Cardinality(upTo(x)) # Cardinality(upTo(e))
    BY <1>1, <2>1, FS_Subset
  <2>3. Rank(e) \in Nat /\ Rank(x) \in Nat /\ Rank(e) <= Rank(x) /\ Rank(x) # Rank(e)
    BY <1>1, <2>2
  <2> QED
    BY <2>3
<1> QED
  BY <1>4, <1>5

\* What assigning a fresh client to a name makes of the dict: the client is
\* under that name, and the other names have the clients they had.
Entered(key, c) ==
  /\ entries' \subseteq DictEntry /\ fill' \in Nat /\ capacity' \in Nat
  /\ Distinct(entries') /\ IsFiniteSet(entries') /\ Cardinality(entries') <= fill'
  /\ fill' <= fill + 1 /\ \A e \in entries' : e.at \in 1 .. fill'
  /\ \E e \in entries' : e.key = key /\ e.client = c
  /\ \A e \in entries' :
       \/ e.key = key /\ e.client = c
       \/ e.key # key /\ \E x \in entries : x.key = e.key /\ x.client = e.client
  /\ \A x \in entries : x.key # key => \E e \in entries' : e.key = x.key /\ e.client = x.client

LEMMA ReplacedEntries ==
  ASSUME Shape, Distinct(entries), EntriesInv, NEW key \in Registered, NEW c \in Clients,
         \A e \in entries : e.client # c,
         entries' = Replaced(key, c), UNCHANGED <<fill, capacity>>
  PROVE  Entered(key, c)
<1> DEFINE f == [e \in entries |-> IF e.key = key THEN [e EXCEPT !.client = c] ELSE e]
<1>1. entries \subseteq DictEntry /\ fill \in Nat /\ capacity \in Nat
  BY DEF Shape
<1>2. ASSUME NEW e \in entries
      PROVE  /\ f[e] \in DictEntry /\ f[e].key = e.key /\ f[e].at = e.at
             /\ f[e].client = IF e.key = key THEN c ELSE e.client
  BY <1>1, <1>2 DEF DictEntry
<1>3. f \in [entries -> DictEntry] /\ entries' = {f[e] : e \in entries}
  BY <1>2 DEF Replaced
<1> HIDE DEF f
<1>4. \A e, x \in entries : e # x => f[e].client # f[x].client /\ f[e].at # f[x].at
  BY <1>2 DEF Distinct
<1>5. /\ entries' \subseteq DictEntry /\ Distinct(entries')
      /\ IsFiniteSet(entries') /\ Cardinality(entries') <= Size
  <2>1. IsFiniteSet(entries)
    BY DEF EntriesInv
  <2> QED
    BY <1>2, <1>3, <1>4, <2>1, ChangedEntries
<1>6. Cardinality(entries') \in Nat /\ Size \in Nat
  BY <1>5, FS_CardinalityType DEF EntriesInv, Size
<1>7. fill' \in Nat /\ capacity' \in Nat /\ fill' <= fill + 1 /\ Cardinality(entries') <= fill'
  BY <1>1, <1>5, <1>6 DEF EntriesInv
<1>8. \A e \in entries' : e.at \in 1 .. fill'
  BY <1>2, <1>3 DEF EntriesInv
<1>9. /\ \A e \in entries' :
           \/ e.key = key /\ e.client = c
           \/ e.key # key /\ \E x \in entries : x.key = e.key /\ x.client = e.client
      /\ \A x \in entries : x.key # key => \E e \in entries' : e.key = x.key /\ e.client = x.client
  BY <1>2, <1>3
<1>10. \E e \in entries' : e.key = key /\ e.client = c
  <2>1. PICK e \in entries : e.key = key
    BY DEF Registered
  <2> QED
    BY <2>1, <1>2, <1>3
<1> QED
  BY <1>5, <1>7, <1>8, <1>9, <1>10 DEF Entered

LEMMA AppendedEntries ==
  ASSUME Shape, Distinct(entries), EntriesInv, NEW key \in Keys, key \notin Registered,
         NEW c \in Clients, \A e \in entries : e.client # c,
         entries' = entries \cup {At(fill + 1, key, c)}, fill' = fill + 1, UNCHANGED capacity
  PROVE  Entered(key, c)
<1>1. entries \in SUBSET DictEntry /\ fill \in Nat /\ capacity \in Nat
  BY DEF Shape
<1>2. /\ \A e \in entries : e.at \in 1 .. fill /\ e.key # key /\ e.client # c
      /\ IsFiniteSet(entries) /\ Cardinality(entries) <= fill
  BY DEF EntriesInv, Size, Registered
<1>3. /\ entries' \subseteq DictEntry /\ Distinct(entries')
      /\ IsFiniteSet(entries') /\ Cardinality(entries') <= fill'
      /\ \A e \in entries' : e.at \in 1 .. fill'
  BY <1>1, <1>2, AddedEntry
<1>4. At(fill + 1, key, c).key = key /\ At(fill + 1, key, c).client = c
  BY <1>1, EntryTypes
<1> QED
  BY <1>1, <1>2, <1>3, <1>4 DEF Entered

LEMMA CompactedEntries ==
  ASSUME Shape, Distinct(entries), EntriesInv, created < MaxClients,
         NEW key \in Keys, key \notin Registered,
         NEW c \in Clients, \A e \in entries : e.client # c,
         entries' = Compacted \cup {At(Size + 1, key, c)}, fill' = Size + 1,
         capacity' = Capacity[Size]
  PROVE  Entered(key, c)
<1> DEFINE f == [e \in entries |-> [e EXCEPT !.at = Rank(e)]]
<1>1. /\ entries \subseteq DictEntry /\ fill \in Nat /\ created \in Nat /\ MaxClients \in Nat
      /\ IsFiniteSet(entries) /\ Size \in Nat /\ Size <= fill /\ fill <= created + 1
  BY DirectoryAssumption, FS_CardinalityType DEF Shape, EntriesInv, Size
<1>2. /\ \A e \in entries : Rank(e) \in 1 .. Size
      /\ \A e, x \in entries : e.at < x.at => Rank(e) < Rank(x)
  BY <1>1, Ranks
<1>3. ASSUME NEW e \in entries
      PROVE  /\ f[e] \in DictEntry /\ f[e].key = e.key /\ f[e].at = Rank(e)
             /\ f[e].client = e.client
  <2>1. Rank(e) \in Nat
    BY <1>1, <1>2
  <2> QED
    BY <1>1, <1>3, <2>1 DEF DictEntry
<1>4. f \in [entries -> DictEntry] /\ Compacted = {f[e] : e \in entries}
  BY <1>3 DEF Compacted
<1> HIDE DEF f
<1>5. ASSUME NEW e \in entries, NEW x \in entries, e # x
      PROVE  f[e].client # f[x].client /\ f[e].at # f[x].at
  <2>1. e.at # x.at /\ e.client # x.client
    BY <1>5 DEF Distinct
  <2>2. e.at < x.at \/ x.at < e.at
    BY <1>1, <2>1, EntryTypes
  <2>3. Rank(e) # Rank(x)
    BY <1>1, <1>2, <2>2
  <2> QED
    BY <1>3, <2>1, <2>3
<1>6. /\ Compacted \subseteq DictEntry /\ Distinct(Compacted)
      /\ IsFiniteSet(Compacted) /\ Cardinality(Compacted) <= Size
  BY <1>1, <1>3, <1>4, <1>5, ChangedEntries
<1>7. \A e \in Compacted : e.at \in 1 .. Size /\ e.key # key /\ e.client # c
  BY <1>2, <1>3, <1>4 DEF Registered
<1>8. /\ entries' \subseteq DictEntry /\ Distinct(entries')
      /\ IsFiniteSet(entries') /\ Cardinality(entries') <= fill'
      /\ \A e \in entries' : e.at \in 1 .. fill'
  BY <1>1, <1>6, <1>7, AddedEntry
<1>9. /\ fill' \in Nat /\ fill' <= fill + 1 /\ capacity' \in Nat
  <2>1. Size \in 0 .. MaxClients
    BY <1>1
  <2> QED
    BY <1>1, <2>1, DirectoryAssumption
<1>10. At(Size + 1, key, c).key = key /\ At(Size + 1, key, c).client = c
  BY <1>1, EntryTypes
<1>11. \A x \in Compacted : \E e \in entries : x.key = e.key /\ x.client = e.client
  BY <1>3, <1>4
<1>12. \A e \in entries : \E x \in Compacted : x.key = e.key /\ x.client = e.client
  BY <1>3, <1>4
<1> QED
  BY <1>7, <1>8, <1>9, <1>10, <1>11, <1>12 DEF Entered

LEMMA AssignedEntries ==
  ASSUME Shape, Distinct(entries), EntriesInv, created < MaxClients,
         NEW key \in Keys, NEW c \in Clients, \A e \in entries : e.client # c,
         Assign(key, c)
  PROVE  Entered(key, c)
BY ReplacedEntries, AppendedEntries, CompactedEntries DEF Assign

-----------------------------------------------------------------------------
(* Requests                                                                *)

\* A request that changes nothing but itself and the integration.
LEMMA RequestStep ==
  ASSUME DirectoryInv, NEW r \in Requests, NEW q \in Request,
         request' = [request EXCEPT ![r] = q],
         integration' \in [Integrations -> {"absent", "present", "deleted"}],
         UNCHANGED <<servers, discovery, health, run>>,
         q.at # "idle" => q.of \in Integrations,
         q.at \in {"disabling", "deleting"} => q.client = tracked[q.of] /\ q.client # 0
  PROVE  DirectoryInv'
<1>1. /\ Shape /\ Distinct(entries) /\ LockHeld /\ CatalogCoversClients /\ OfferedIsAllowed
      /\ EntriesInv /\ TrackedInv /\ RequestInv /\ BuildInv
      /\ UNCHANGED <<entries, fill, capacity, tracked, warm, created, cache, holder, known, vouched,
                     run>>
  BY TypeParts DEF DirectoryInv, servers, table, discovery, health
<1>2. Shape' /\ Distinct(entries)' /\ LockHeld'
  BY <1>1 DEF Shape, Distinct, LockHeld
<1>3. CatalogCoversClients' /\ OfferedIsAllowed' /\ EntriesInv' /\ TrackedInv' /\ BuildInv'
  BY <1>1 DEF CatalogCoversClients, OfferedIsAllowed, EntriesInv, TrackedInv, BuildInv, Passed,
              Size, Registered
<1>4. RequestInv'
  <2> SUFFICES ASSUME NEW p \in Requests
               PROVE  /\ request'[p].at # "idle" => request'[p].of \in Integrations
                      /\ request'[p].at \in {"disabling", "deleting"} =>
                           /\ request'[p].client \in 2 .. created + 1
                           /\ \A e \in entries : e.client = request'[p].client =>
                                e.key = request'[p].of
    BY <1>1 DEF RequestInv
  <2>1. CASE p # r
    <3>1. request'[p] = request[p]
      BY <2>1, <1>1 DEF Shape
    <3> QED
      BY <3>1, <1>1 DEF RequestInv
  <2>2. CASE p = r
    <3>1. request'[p] = q
      BY <2>2, <1>1 DEF Shape
    <3>2. ASSUME q.at \in {"disabling", "deleting"}
          PROVE  /\ q.client \in 2 .. created + 1
                 /\ \A e \in entries : e.client = q.client => e.key = q.of
      <4>1. q.of \in Integrations /\ q.client = tracked[q.of] /\ tracked[q.of] # 0
        BY <3>2
      <4>2. PICK x \in entries : x.client = q.client /\ x.key = q.of
        BY <4>1, <1>1 DEF TrackedInv
      <4>3. q.client \in Nat /\ q.client # 0 /\ q.client <= created + 1
        BY <4>1, <4>2, <1>1, EntryTypes DEF Shape, EntriesInv
      <4>4. q.client # 1
        <5>1. PICK g \in entries : g.key = Gateway /\ g.client = 1
          BY <1>1 DEF EntriesInv
        <5> QED
          BY <4>1, <4>2, <5>1, <1>1, EntryTypes DEF Distinct
      <4>5. created \in Nat
        BY <1>1, DirectoryAssumption DEF Shape
      <4> QED
        BY <4>2, <4>3, <4>4, <4>5, <1>1 DEF Distinct
    <3> QED
      BY <3>1, <3>2
  <2> QED
    BY <2>1, <2>2
<1> QED
  BY <1>2, <1>3, <1>4, TypePartsNext DEF DirectoryInv

\* A catalog under construction learns only what its iteration misses.
LEMMA IteratingRuns ==
  ASSUME Shape, LockHeld, OfferedIsAllowed, BuildInv, Iterating, UNCHANGED holder,
         entries' \subseteq DictEntry
  PROVE  run' \in [ChatRuns -> Run] /\ LockHeld' /\ OfferedIsAllowed' /\ BuildInv'
<1>1. ASSUME NEW u \in ChatRuns
      PROVE  /\ run'[u] \in Run /\ run'[u].at = run[u].at /\ run'[u].offered = run[u].offered
             /\ run[u].at = "building" =>
                  /\ run'[u].place = run[u].place /\ run'[u].key = run[u].key
                  /\ run'[u].catalog.servers = run[u].catalog.servers
                  /\ run'[u].catalog.missed = run[u].catalog.missed \cup Overtaken(run[u].place)
  <2>1. run[u] \in Run
    BY DEF Shape
  <2>2. Overtaken(run[u].place) \subseteq Keys
    BY EntryTypes DEF Overtaken
  <2>3. run'[u] = IF run[u].at = "building"
                  THEN [run[u] EXCEPT !.catalog.missed = @ \cup Overtaken(run[u].place)]
                  ELSE run[u]
    BY DEF Iterating
  <2> HIDE DEF Overtaken
  <2> QED
    BY <2>1, <2>2, <2>3 DEF Run, Catalog
<1>2. run' = [u \in ChatRuns |-> run'[u]]
  BY DEF Iterating
<1>3. run' \in [ChatRuns -> Run]
  BY <1>1, <1>2
<1>4. LockHeld' /\ OfferedIsAllowed'
  BY <1>1 DEF LockHeld, OfferedIsAllowed
<1>5. BuildInv'
  <2> SUFFICES ASSUME NEW u \in ChatRuns, run'[u].at = "building",
                      NEW e \in entries', e.at <= run'[u].place
               PROVE  e.key \in run'[u].catalog.servers \cup run'[u].catalog.missed \cup {run'[u].key}
    BY DEF BuildInv, Passed
  <2>1. run[u].at = "building"
    BY <1>1
  <2>2. CASE \E x \in entries : x.key = e.key /\ ~(x.at > run[u].place)
    <3>1. PICK x \in entries : x.key = e.key /\ ~(x.at > run[u].place)
      BY <2>2
    <3>2. x.at \in Nat /\ run[u].place \in Nat
      BY EntryTypes DEF Shape, Run
    <3>3. x.key \in run[u].catalog.servers \cup run[u].catalog.missed \cup {run[u].key}
      BY <2>1, <3>1, <3>2 DEF BuildInv, Passed
    <3> QED
      BY <1>1, <2>1, <3>1, <3>3
  <2>3. CASE \A x \in entries : x.key = e.key => x.at > run[u].place
    <3>1. e.key \in Overtaken(run[u].place)
      BY <1>1, <2>1, <2>3 DEF Overtaken
    <3> QED
      BY <1>1, <2>1, <3>1
  <2> QED
    BY <2>2, <2>3
<1> QED
  BY <1>3, <1>4, <1>5

LEMMA RegisterStep ==
  ASSUME DirectoryInv, NEW r \in Requests, Register(r)
  PROVE  DirectoryInv'
<1> DEFINE i == request[r].of
           c == created + 2
<1>1. /\ Shape /\ Distinct(entries) /\ LockHeld /\ CatalogCoversClients /\ OfferedIsAllowed
      /\ EntriesInv /\ TrackedInv /\ RequestInv /\ BuildInv
  BY TypeParts DEF DirectoryInv
<1>2. /\ created < MaxClients /\ created \in Nat /\ MaxClients \in Nat /\ c \in Clients
      /\ i \in Integrations /\ i \in Keys /\ c \in Nat
  BY <1>1, DirectoryAssumption DEF Register, Shape, RequestInv, Clients, Keys
<1>3. /\ created' = created + 1 /\ tracked' = [tracked EXCEPT ![i] = c]
      /\ Assign(i, c) /\ Iterating
      /\ warm' \subseteq warm \cup {c} /\ cache' = << >>
      /\ request' = [request EXCEPT ![r] = Free]
      /\ UNCHANGED <<integration, holder, known, vouched>>
  <2>1. created' + 1 = c
    BY <1>2 DEF Register
  <2> QED
    BY <2>1 DEF Register, AfterRegister, health
<1>4. \A e \in entries : e.client \in Nat /\ e.client <= created + 1
  BY <1>1, EntryTypes DEF Shape, EntriesInv
<1>5. Entered(i, c)
  <2>1. \A e \in entries : e.client # c
    BY <1>2, <1>4
  <2> HIDE DEF i, c
  <2> QED
    BY <1>1, <1>2, <1>3, <2>1, AssignedEntries
<1> HIDE DEF i, c
<1>6. run' \in [ChatRuns -> Run] /\ LockHeld' /\ OfferedIsAllowed' /\ BuildInv'
  BY <1>1, <1>3, <1>5, IteratingRuns DEF Entered
<1>7. Shape' /\ Distinct(entries)'
  <2>1. Free \in Request
    BY DEF Free, Request
  <2>2. created' \in 0 .. MaxClients
    BY <1>2, <1>3
  <2>3. tracked' \in [Integrations -> Clients \cup {0}] /\ warm' \subseteq Clients
    BY <1>1, <1>2, <1>3 DEF Shape
  <2>4. cache' \in Seq(Catalog) /\ Len(cache') <= 1
    BY <1>3
  <2>5. request' \in [Requests -> Request]
    BY <1>1, <1>3, <2>1 DEF Shape
  <2> QED
    BY <1>1, <1>3, <1>5, <1>6, <2>2, <2>3, <2>4, <2>5 DEF Shape, Entered
<1>8. CatalogCoversClients'
  BY <1>3 DEF CatalogCoversClients
<1>9. \A e \in entries' : e.client \in Nat /\ e.client <= created' + 1
  <2>1. created' + 1 = c
    BY <1>2, <1>3 DEF c
  <2>2. ASSUME NEW e \in entries' PROVE e.client \in Nat /\ e.client <= c
    <3>1. CASE e.client = c
      BY <3>1, <1>2
    <3>2. CASE \E x \in entries : x.client = e.client
      BY <3>2, <1>2, <1>4 DEF c
    <3> QED
      BY <3>1, <3>2, <1>5 DEF Entered
  <2> QED
    BY <2>1, <2>2
<1>10. EntriesInv'
  <2>1. \E e \in entries' : e.key = Gateway /\ e.client = 1
    <3>1. PICK g \in entries : g.key = Gateway /\ g.client = 1
      BY <1>1 DEF EntriesInv
    <3>2. g.key # i
      BY <3>1, <1>2, EntryTypes
    <3> QED
      BY <3>1, <3>2, <1>5 DEF Entered
  <2>2. fill' <= created' + 1
    BY <1>1, <1>2, <1>3, <1>5 DEF EntriesInv, Entered, Shape
  <2> QED
    BY <1>5, <1>9, <2>1, <2>2 DEF EntriesInv, Entered, Size
<1>11. TrackedInv'
  <2> SUFFICES ASSUME NEW m \in Integrations, tracked'[m] # 0
               PROVE  \E e \in entries' : e.client = tracked'[m] /\ e.key = m
    BY DEF TrackedInv
  <2>1. CASE m = i
    <3>1. tracked'[m] = c
      BY <2>1, <1>1, <1>3 DEF Shape
    <3> QED
      BY <3>1, <2>1, <1>5 DEF Entered
  <2>2. CASE m # i
    <3>1. tracked'[m] = tracked[m]
      BY <2>2, <1>1, <1>3 DEF Shape
    <3>2. PICK x \in entries : x.client = tracked[m] /\ x.key = m
      BY <3>1, <1>1 DEF TrackedInv
    <3> QED
      BY <3>1, <3>2, <2>2, <1>5 DEF Entered
  <2> QED
    BY <2>1, <2>2
<1>12. RequestInv'
  <2> SUFFICES ASSUME NEW p \in Requests
               PROVE  /\ request'[p].at # "idle" => request'[p].of \in Integrations
                      /\ request'[p].at \in {"disabling", "deleting"} =>
                           /\ request'[p].client \in 2 .. created' + 1
                           /\ \A e \in entries' : e.client = request'[p].client =>
                                e.key = request'[p].of
    BY DEF RequestInv
  <2>1. CASE p = r
    BY <2>1, <1>1, <1>3 DEF Shape, Free
  <2>2. CASE p # r
    <3>1. request'[p] = request[p]
      BY <2>2, <1>1, <1>3 DEF Shape
    <3>2. ASSUME request[p].at \in {"disabling", "deleting"}
          PROVE  /\ request[p].client \in 2 .. created' + 1
                 /\ \A e \in entries' : e.client = request[p].client => e.key = request[p].of
      <4>1. /\ request[p].client \in 2 .. created + 1
            /\ \A e \in entries : e.client = request[p].client => e.key = request[p].of
        BY <3>2, <1>1 DEF RequestInv
      <4>2. request[p].client # c /\ request[p].client \in 2 .. created' + 1
        BY <4>1, <1>2, <1>3 DEF c
      <4>3. ASSUME NEW e \in entries', e.client = request[p].client
            PROVE  e.key = request[p].of
        <5>1. PICK x \in entries : x.key = e.key /\ x.client = e.client
          BY <4>2, <4>3, <1>5 DEF Entered
        <5> QED
          BY <4>1, <4>3, <5>1
      <4> QED
        BY <4>2, <4>3
    <3> QED
      BY <3>1, <3>2, <1>1 DEF RequestInv
  <2> QED
    BY <2>1, <2>2
<1> QED
  BY <1>6, <1>7, <1>8, <1>10, <1>11, <1>12, TypePartsNext DEF DirectoryInv

LEMMA DisconnectedStep ==
  ASSUME DirectoryInv, NEW r \in Requests, Disconnected(r)
  PROVE  DirectoryInv'
<1> DEFINE i == request[r].of
           c == request[r].client
<1>1. /\ Shape /\ Distinct(entries) /\ LockHeld /\ CatalogCoversClients /\ OfferedIsAllowed
      /\ EntriesInv /\ TrackedInv /\ RequestInv /\ BuildInv
  BY TypeParts DEF DirectoryInv
<1>2. /\ request[r].at \in {"disabling", "deleting"} /\ i \in Integrations
      /\ c \in 2 .. created + 1
      /\ \A e \in entries : e.client = c => e.key = i
  BY <1>1 DEF Disconnected, RequestInv
<1>3. /\ integration' \in [Integrations -> {"absent", "present", "deleted"}]
      /\ request' = [request EXCEPT ![r] = Free]
      /\ UNCHANGED <<fill, capacity, created, cache, holder, known, vouched, run>>
  BY <1>1, <1>2 DEF Disconnected, discovery, health, Shape
<1>4. \/ UNCHANGED <<tracked, entries, warm>>
      \/ /\ tracked' = [tracked EXCEPT ![i] = 0] /\ entries' = Without(c)
         /\ warm' = warm \ {c}
  BY DEF Disconnected
<1> HIDE DEF i, c
<1>5. PICK gone \in {{}, {c}} :
        /\ entries' = {e \in entries : e.client \notin gone}
        /\ \A m \in Integrations : tracked'[m] # 0 =>
             tracked'[m] = tracked[m] /\ (m # i \/ gone = {})
        /\ tracked' \in [Integrations -> Clients \cup {0}] /\ warm' \subseteq Clients
  <2>1. CASE UNCHANGED <<tracked, entries, warm>>
    <3>1. entries' = {e \in entries : e.client \notin {}}
      BY <2>1
    <3> QED
      BY <2>1, <3>1, <1>1 DEF Shape
  <2>2. CASE /\ tracked' = [tracked EXCEPT ![i] = 0] /\ entries' = Without(c)
             /\ warm' = warm \ {c}
    <3>1. entries' = {e \in entries : e.client \notin {c}}
      BY <2>2 DEF Without
    <3>2. /\ \A m \in Integrations : tracked'[m] # 0 => tracked'[m] = tracked[m] /\ m # i
          /\ tracked' \in [Integrations -> Clients \cup {0}] /\ warm' \subseteq Clients
      BY <2>2, <1>1 DEF Shape
    <3> QED
      BY <3>1, <3>2
  <2> QED
    BY <1>4, <2>1, <2>2
<1>6. Shape' /\ Distinct(entries)'
  <2>1. Free \in Request
    BY DEF Free, Request
  <2> QED
    BY <1>1, <1>3, <1>5, <2>1 DEF Shape, Distinct
<1>7. LockHeld' /\ OfferedIsAllowed'
  BY <1>1, <1>3 DEF LockHeld, OfferedIsAllowed
<1>8. CatalogCoversClients'
  <2>1. Registered' \subseteq Registered
    BY <1>5 DEF Registered
  <2> QED
    BY <2>1, <1>1, <1>3 DEF CatalogCoversClients
<1>9. EntriesInv'
  <2>1. 1 \notin gone
    BY <1>1, <1>2, DirectoryAssumption DEF Shape
  <2>2. entries' \in SUBSET entries /\ IsFiniteSet(entries)
    BY <1>1, <1>5 DEF EntriesInv
  <2>3. IsFiniteSet(entries') /\ Cardinality(entries') <= Cardinality(entries)
    BY <2>2, FS_Subset
  <2>4. /\ Cardinality(entries') \in Nat /\ Cardinality(entries) \in Nat /\ fill \in Nat
        /\ Cardinality(entries) <= fill
    BY <2>2, <2>3, <1>1, FS_CardinalityType DEF Shape, EntriesInv, Size
  <2>5. Size' <= fill
    BY <2>3, <2>4 DEF Size
  <2>6. \E e \in entries' : e.key = Gateway /\ e.client = 1
    BY <2>1, <1>1, <1>5 DEF EntriesInv
  <2>7. \A e \in entries' : e.at \in 1 .. fill /\ e.client <= created + 1
    BY <2>2, <1>1 DEF EntriesInv
  <2> QED
    BY <2>3, <2>5, <2>6, <2>7, <1>1, <1>3 DEF EntriesInv
<1>10. TrackedInv'
  <2> SUFFICES ASSUME NEW m \in Integrations, tracked'[m] # 0
               PROVE  \E e \in entries' : e.client = tracked'[m] /\ e.key = m
    BY DEF TrackedInv
  <2>1. tracked'[m] = tracked[m] /\ (m # i \/ gone = {})
    BY <1>5
  <2>2. PICK x \in entries : x.client = tracked[m] /\ x.key = m
    BY <2>1, <1>1 DEF TrackedInv
  <2>3. x.client \notin gone
    BY <2>1, <2>2, <1>2
  <2> QED
    BY <2>1, <2>2, <2>3, <1>5
<1>11. RequestInv'
  <2> SUFFICES ASSUME NEW p \in Requests
               PROVE  /\ request'[p].at # "idle" => request'[p].of \in Integrations
                      /\ request'[p].at \in {"disabling", "deleting"} =>
                           /\ request'[p].client \in 2 .. created' + 1
                           /\ \A e \in entries' : e.client = request'[p].client =>
                                e.key = request'[p].of
    BY DEF RequestInv
  <2>1. CASE p = r
    BY <2>1, <1>1, <1>3 DEF Shape, Free
  <2>2. CASE p # r
    <3>1. request'[p] = request[p]
      BY <2>2, <1>1, <1>3 DEF Shape
    <3> QED
      BY <3>1, <1>1, <1>3, <1>5 DEF RequestInv
  <2> QED
    BY <2>1, <2>2
<1>12. BuildInv'
  BY <1>1, <1>3, <1>5 DEF BuildInv, Passed
<1> QED
  BY <1>6, <1>7, <1>8, <1>9, <1>10, <1>11, <1>12, TypePartsNext DEF DirectoryInv

-----------------------------------------------------------------------------
(* Chat runs                                                               *)

\* A step of one run, which leaves the registry, the requests and the other
\* runs as they are.
OnlyRun(u) ==
  /\ run' \in [ChatRuns -> Run]
  /\ \A v \in ChatRuns \ {u} : run'[v] = run[v]
  /\ UNCHANGED <<integration, entries, fill, capacity, tracked, created, request>>
  /\ warm' \subseteq Clients

LEMMA RunStep ==
  ASSUME DirectoryInv, NEW u \in ChatRuns, OnlyRun(u),
         known' \subseteq Keys, vouched' \subseteq known',
         cache' \in Seq(Catalog), Len(cache') <= 1,
         cache' # << >> => Registered \subseteq cache'[1].servers \cup cache'[1].missed,
         holder' \in ChatRuns \cup {None},
         run'[u].at = "building" <=> holder' = u,
         \A v \in ChatRuns \ {u} : holder' = v <=> holder = v,
         \A key \in run'[u].offered : PolicyAllows(Caller[u].workflow, Exposes[key]),
         run'[u].at = "building" => Passed(run'[u])
  PROVE  DirectoryInv'
<1>1. /\ Shape /\ Distinct(entries) /\ LockHeld /\ CatalogCoversClients /\ OfferedIsAllowed
      /\ EntriesInv /\ TrackedInv /\ RequestInv /\ BuildInv
  BY TypeParts DEF DirectoryInv
<1>2. Shape'
  BY <1>1 DEF Shape, OnlyRun
<1>3. Distinct(entries)' /\ EntriesInv' /\ TrackedInv' /\ RequestInv'
  BY <1>1 DEF Distinct, EntriesInv, Size, TrackedInv, RequestInv, OnlyRun
<1>4. LockHeld'
  BY <1>1 DEF LockHeld, OnlyRun
<1>5. CatalogCoversClients'
  BY DEF CatalogCoversClients, Registered, OnlyRun
<1>6. OfferedIsAllowed'
  BY <1>1 DEF OfferedIsAllowed, OnlyRun
<1>7. BuildInv'
  <2>1. entries' = entries /\ \A v \in ChatRuns \ {u} : run'[v] = run[v]
    BY DEF OnlyRun
  <2> SUFFICES ASSUME NEW v \in ChatRuns, run'[v].at = "building"
               PROVE  \A e \in entries : e.at <= run'[v].place =>
                        e.key \in run'[v].catalog.servers \cup run'[v].catalog.missed
                                    \cup {run'[v].key}
    BY <2>1 DEF BuildInv, Passed
  <2>2. CASE v = u
    BY <2>2 DEF Passed
  <2>3. CASE v # u
    BY <2>1, <2>3, <1>1 DEF BuildInv, Passed
  <2> QED
    BY <2>2, <2>3
<1> QED
  BY <1>2, <1>3, <1>4, <1>5, <1>6, <1>7, TypePartsNext DEF DirectoryInv

LEMMA NewRunType ==
  /\ NewRun \in Run /\ NewRun.at = "idle" /\ NewRun.offered = {} /\ NewRun.place = 0
  /\ \A a \in {"failed", "called", "refused"} :
       LET r == [NewRun EXCEPT !.at = a] IN
       r \in Run /\ r.at = a /\ r.offered = {}
BY EntryTypes DEF NewRun, Run, Empty, Catalog

\* A run that ends, or whose tool was called or refused.
LEMMA EndStep ==
  ASSUME DirectoryInv, NEW u \in ChatRuns, NEW a \in {"failed", "called", "refused"},
         run' = [run EXCEPT ![u] = [NewRun EXCEPT !.at = a]],
         UNCHANGED <<integration, entries, fill, capacity, tracked, created, request, known, vouched, cache>>,
         warm' \subseteq Clients,
         holder' \in ChatRuns \cup {None}, holder' # u,
         \A v \in ChatRuns \ {u} : holder' = v <=> holder = v
  PROVE  DirectoryInv'
<1> DEFINE r == [NewRun EXCEPT !.at = a]
<1>1. r \in Run /\ r.at = a /\ r.offered = {}
  BY NewRunType
<1>2. run' = [run EXCEPT ![u] = r]
  OBVIOUS
<1> HIDE DEF r
<1>3. Shape /\ CatalogCoversClients
  BY TypeParts DEF DirectoryInv
<1>4. OnlyRun(u) /\ run'[u] = r
  BY <1>1, <1>2, <1>3 DEF OnlyRun, Shape
<1>5. /\ known' \subseteq Keys /\ vouched' \subseteq known'
      /\ cache' \in Seq(Catalog) /\ Len(cache') <= 1
      /\ cache' # << >> => Registered \subseteq cache'[1].servers \cup cache'[1].missed
  BY <1>3 DEF Shape, CatalogCoversClients
<1>6. /\ \A key \in run'[u].offered : PolicyAllows(Caller[u].workflow, Exposes[key])
      /\ run'[u].at # "building"
  BY <1>1, <1>4
<1> QED
  BY <1>4, <1>5, <1>6, RunStep

\* A run that changes only in what it is doing, and builds no catalog.
LEMMA WaitStep ==
  ASSUME DirectoryInv, NEW u \in ChatRuns, NEW a \in {"asking", "waiting", "failed"},
         run' = [run EXCEPT ![u].at = a], run[u].at # "building",
         UNCHANGED <<integration, servers, discovery, request>>,
         known' \subseteq Keys, vouched' \subseteq known'
  PROVE  DirectoryInv'
<1>1. /\ Shape /\ CatalogCoversClients /\ LockHeld /\ OfferedIsAllowed
      /\ UNCHANGED <<entries, fill, capacity, tracked, warm, created, cache, holder>>
  BY TypeParts DEF DirectoryInv, servers, table, discovery
<1>2. /\ run' \in [ChatRuns -> Run] /\ \A v \in ChatRuns \ {u} : run'[v] = run[v]
      /\ run'[u].at = a /\ run'[u].offered = run[u].offered
  <2>1. run \in [ChatRuns -> Run]
    BY <1>1 DEF Shape
  <2>2. run[u] \in Run /\ run'[u] = [run[u] EXCEPT !.at = a]
    BY <2>1
  <2>3. run'[u] \in Run /\ run'[u].at = a /\ run'[u].offered = run[u].offered
    BY <2>2 DEF Run
  <2> QED
    BY <2>1, <2>3
<1>3. OnlyRun(u)
  BY <1>1, <1>2 DEF OnlyRun, Shape
<1>4. /\ cache' \in Seq(Catalog) /\ Len(cache') <= 1 /\ holder' \in ChatRuns \cup {None}
      /\ cache' # << >> => Registered \subseteq cache'[1].servers \cup cache'[1].missed
  BY <1>1 DEF Shape, CatalogCoversClients
<1>5. /\ run'[u].at # "building" /\ holder' # u
      /\ \A v \in ChatRuns \ {u} : holder' = v <=> holder = v
      /\ \A key \in run'[u].offered : PolicyAllows(Caller[u].workflow, Exposes[key])
  BY <1>1, <1>2 DEF LockHeld, OfferedIsAllowed
<1> QED
  BY <1>3, <1>4, <1>5, RunStep

\* What a run is given is a copy of the catalog, offering what the policy of
\* its workflow allows.
LEMMA GivenRun ==
  ASSUME NEW u \in ChatRuns, NEW catalog \in Catalog, NEW holding
  PROVE  LET r == Given(u, catalog, holding) IN
         /\ r \in Run /\ r.at = "ready"
         /\ \A key \in r.offered : PolicyAllows(Caller[u].workflow, Exposes[key])
<1> DEFINE w == Caller[u].workflow
           listed == {Exposes[key] : key \in catalog.tools}
           offered == Offered(u, catalog, holding)
<1>1. catalog.tools \subseteq Keys
  BY DEF Catalog
<1>2. listed \in SUBSET Tool
  BY <1>1, DirectoryAssumption DEF Keys, Gateway
<1>3. offered \subseteq Keys /\ \A key \in offered : Exposes[key] \in Exposed(w, listed)
  BY <1>1 DEF Offered
<1>4. ASSUME NEW key \in offered PROVE PolicyAllows(w, Exposes[key])
  BY <1>2, <1>3, <1>4, ExposedIsAllowed
<1> HIDE DEF offered
<1>5. LET r == Given(u, catalog, holding) IN
      r \in Run /\ r.at = "ready" /\ r.offered = offered
  BY <1>1, <1>3, EntryTypes DEF Given, offered, NewRun, Run, Empty, Catalog
<1> QED
  BY <1>4, <1>5

LEMMA CopyStep ==
  ASSUME DirectoryInv, NEW u \in ChatRuns, Copy(u)
  PROVE  DirectoryInv'
<1>1. /\ Shape /\ CatalogCoversClients /\ LockHeld
      /\ UNCHANGED <<integration, entries, fill, capacity, tracked, warm, created, cache, holder, known, vouched,
                     request>>
      /\ cache # << >> /\ run[u].at # "building"
      /\ run' = [run EXCEPT ![u] = Given(u, cache[1], warm)]
  BY TypeParts DEF DirectoryInv, Copy, servers, table, discovery, health
<1>2. cache[1] \in Catalog
  <2>1. cache \in Seq(Catalog) /\ Len(cache) \in Nat /\ Len(cache) # 0
    BY <1>1, EmptySeq, LenProperties DEF Shape
  <2> QED
    BY <2>1, ElementOfSeq
<1>3. LET r == Given(u, cache[1], warm) IN
      /\ r \in Run /\ r.at = "ready"
      /\ \A key \in r.offered : PolicyAllows(Caller[u].workflow, Exposes[key])
  BY <1>2, GivenRun
<1> DEFINE r == Given(u, cache[1], warm)
<1>4. run' = [run EXCEPT ![u] = r]
  BY <1>1
<1> HIDE DEF r
<1>5. OnlyRun(u) /\ run'[u] = r
  BY <1>1, <1>3, <1>4 DEF OnlyRun, Shape, r
<1>6. /\ known' \subseteq Keys /\ vouched' \subseteq known'
      /\ cache' \in Seq(Catalog) /\ Len(cache') <= 1 /\ holder' \in ChatRuns \cup {None}
      /\ cache' # << >> => Registered \subseteq cache'[1].servers \cup cache'[1].missed
  BY <1>1 DEF Shape, CatalogCoversClients
<1>7. /\ run'[u].at # "building" /\ holder' # u
      /\ \A v \in ChatRuns \ {u} : holder' = v <=> holder = v
      /\ \A key \in run'[u].offered : PolicyAllows(Caller[u].workflow, Exposes[key])
  BY <1>1, <1>3, <1>5 DEF LockHeld, r
<1> QED
  BY <1>5, <1>6, <1>7, RunStep

\* A set of natural numbers that is not empty has a least element.
LEMMA LeastNat ==
  ASSUME NEW T \in SUBSET Nat, T # {}
  PROVE  \E x \in T : \A y \in T : x <= y
<1>1. IsWellFoundedOn({ss \in Nat \X Nat : ss[1] < ss[2]}, Nat)
  BY NatLessThanWellFounded DEF OpToRel
<1>2. PICK x \in T : \A y \in T : ~(<<y, x>> \in {ss \in Nat \X Nat : ss[1] < ss[2]})
  BY <1>1, WFMin
<1>3. \A y \in T : ~(y < x)
  BY <1>2
<1> QED
  BY <1>3

\* The iterator goes to the next entry and passes no other.
LEMMA FollowingEntry ==
  ASSUME entries \subseteq DictEntry, Distinct(entries), NEW place \in Nat, Later(place) # {}
  PROVE  LET next == Following(place) IN
         /\ next \in entries /\ next.at \in Nat /\ next.key \in Keys /\ next.client \in Clients
         /\ \A e \in entries : e.at <= next.at => e.at <= place \/ e.key = next.key
<1> DEFINE places == {e.at : e \in Later(place)}
           next == Following(place)
<1>1. Later(place) \subseteq entries /\ \A e \in entries : e.at \in Nat
  BY EntryTypes DEF Later
<1>2. places \in SUBSET Nat /\ places # {}
  BY <1>1
<1>3. PICK p \in places : \A y \in places : p <= y
  <2> HIDE DEF places
  <2> QED
    BY <1>2, LeastNat
<1>4. \E e \in Later(place) : \A x \in Later(place) : e.at <= x.at
  BY <1>3
<1>5. next \in Later(place) /\ \A x \in Later(place) : next.at <= x.at
  BY <1>4 DEF Following
<1> HIDE DEF next
<1>6. next \in entries /\ next.at \in Nat /\ next.key \in Keys /\ next.client \in Clients
  BY <1>1, <1>5, EntryTypes
<1>7. ASSUME NEW e \in entries, e.at <= next.at, ~(e.at <= place) PROVE e.key = next.key
  <2>1. e \in Later(place)
    BY <1>1, <1>7 DEF Later
  <2>2. e.at = next.at
    BY <1>1, <1>5, <1>6, <1>7, <2>1
  <2> QED
    BY <1>6, <2>2 DEF Distinct
<1> QED
  BY <1>6, <1>7 DEF next

\* A run that asks the server of the next entry.
LEMMA AskingRun ==
  ASSUME entries \subseteq DictEntry, Distinct(entries),
         NEW r \in Run, r.due # 0, NEW place \in Nat, Later(place) # {}
  PROVE  LET q == Asks(r, place) IN
         /\ q \in Run /\ q.at = "building"
         /\ q.place = Following(place).at /\ q.key = Following(place).key
         /\ q.catalog = r.catalog /\ q.offered = r.offered
<1>1. /\ Following(place).at \in Nat /\ Following(place).key \in Keys
      /\ Following(place).client \in Clients
  BY FollowingEntry
<1>2. r.due - 1 \in Nat
  BY DEF Run
<1> QED
  BY <1>1, <1>2 DEF Asks, Run

LEMMA BuildStep ==
  ASSUME DirectoryInv, NEW u \in ChatRuns, Build(u)
  PROVE  DirectoryInv'
<1> DEFINE start == [NewRun EXCEPT !.due = Size, !.size = Size]
           r == Asks(start, 0)
<1>1. /\ Shape /\ Distinct(entries) /\ CatalogCoversClients /\ LockHeld /\ EntriesInv
      /\ UNCHANGED <<integration, entries, fill, capacity, tracked, warm, created, cache, known,
                     vouched, request>>
      /\ holder = None /\ holder' = u /\ run' = [run EXCEPT ![u] = r]
  BY TypeParts DEF DirectoryInv, Build, servers, table, health
<1>2. entries \subseteq DictEntry /\ IsFiniteSet(entries) /\ entries # {} /\ 0 \in Nat
  BY <1>1 DEF Shape, EntriesInv
<1>3. Size \in Nat /\ Size # 0
  BY <1>2, FS_CardinalityType, FS_EmptySet DEF Size
<1>4. \A e \in entries : e.at \in Nat /\ e.at > 0
  BY <1>1, <1>2, EntryTypes DEF EntriesInv, Shape
<1>5. Later(0) # {}
  BY <1>2, <1>4 DEF Later
<1>6. start \in Run /\ start.due # 0 /\ start.offered = {}
  BY <1>3, EntryTypes DEF NewRun, Run, Empty, Catalog
<1> HIDE DEF start
<1>7. /\ r \in Run /\ r.at = "building" /\ r.offered = {}
      /\ r.place = Following(0).at /\ r.key = Following(0).key
  BY <1>1, <1>2, <1>5, <1>6, AskingRun
<1>8. \A e \in entries : e.at <= Following(0).at => e.at <= 0 \/ e.key = Following(0).key
  BY <1>1, <1>2, <1>5, FollowingEntry
<1> HIDE DEF r
<1>9. OnlyRun(u) /\ run'[u] = r
  BY <1>1, <1>7 DEF OnlyRun, Shape
<1>10. Passed(run'[u])
  BY <1>4, <1>7, <1>8, <1>9 DEF Passed
<1>11. /\ known' \subseteq Keys /\ vouched' \subseteq known'
       /\ cache' \in Seq(Catalog) /\ Len(cache') <= 1
       /\ cache' # << >> => Registered \subseteq cache'[1].servers \cup cache'[1].missed
  BY <1>1 DEF Shape, CatalogCoversClients
<1>12. /\ run'[u].at = "building" /\ holder' \in ChatRuns \cup {None}
       /\ \A v \in ChatRuns \ {u} : holder' = v <=> holder = v
       /\ \A key \in run'[u].offered : PolicyAllows(Caller[u].workflow, Exposes[key])
  BY <1>1, <1>7, <1>9, DirectoryAssumption DEF None
<1> QED
  BY <1>1, <1>9, <1>10, <1>11, <1>12, RunStep

\* The answer of the server asked last is put under its name.
LEMMA WithCatalog ==
  ASSUME Shape, NEW u \in ChatRuns, NEW listed \in BOOLEAN
  PROVE  /\ With(u, listed) \in Catalog /\ run[u].place \in Nat
         /\ With(u, listed).servers = run[u].catalog.servers \cup {run[u].key}
         /\ With(u, listed).missed = run[u].catalog.missed
         /\ Warmed(u, listed) \subseteq Clients
<1>1. run[u] \in Run /\ run[u].key \in Keys /\ run[u].catalog \in Catalog
  BY DEF Shape, Run
<1>2. InUse \subseteq Clients
  BY EntryTypes DEF InUse, Shape
<1>3. With(u, listed) \in Catalog /\ run[u].place \in Nat
  BY <1>1 DEF With, Catalog, Run
<1>4. Warmed(u, listed) \subseteq Clients
  BY <1>2 DEF Warmed, Shape
<1>5. /\ With(u, listed).servers = run[u].catalog.servers \cup {run[u].key}
      /\ With(u, listed).missed = run[u].catalog.missed
  BY <1>1 DEF With, Catalog
<1> QED
  BY <1>3, <1>4, <1>5

LEMMA DiscoverStep ==
  ASSUME DirectoryInv, NEW u \in ChatRuns, NEW listed \in BOOLEAN, Discover(u, listed)
  PROVE  DirectoryInv'
<1> DEFINE catalog == With(u, listed)
           asked == [run[u] EXCEPT !.catalog = catalog]
           place == run[u].place
           r == Asks(asked, place)
<1>1. /\ Shape /\ Distinct(entries) /\ CatalogCoversClients /\ LockHeld /\ BuildInv
      /\ OfferedIsAllowed
      /\ UNCHANGED <<integration, entries, fill, capacity, tracked, created, cache, holder, known,
                     vouched, request>>
      /\ run[u].at = "building" /\ Later(place) # {} /\ run[u].due # 0
      /\ warm' = Warmed(u, listed)
  BY TypeParts DEF DirectoryInv, Discover, Disturbed, table, discovery, health
<1>2. run' = [run EXCEPT ![u] = r]
  BY DEF Discover
<1>3. /\ entries \subseteq DictEntry /\ catalog \in Catalog /\ place \in Nat
      /\ warm' \subseteq Clients
      /\ catalog.servers = run[u].catalog.servers \cup {run[u].key}
      /\ catalog.missed = run[u].catalog.missed
  BY <1>1, WithCatalog DEF Shape
<1> HIDE DEF catalog
<1>4. /\ asked \in Run /\ asked.due # 0 /\ asked.catalog = catalog
      /\ asked.offered = run[u].offered
  <2>1. run[u] \in Run
    BY <1>1 DEF Shape
  <2> QED
    BY <1>1, <1>3, <2>1 DEF Run
<1> HIDE DEF asked, place
<1>5. /\ r \in Run /\ r.at = "building"
      /\ r.place = Following(place).at /\ r.key = Following(place).key
      /\ r.catalog = catalog /\ r.offered = run[u].offered
  BY <1>1, <1>3, <1>4, AskingRun
<1>6. \A e \in entries : e.at <= Following(place).at =>
        e.at <= place \/ e.key = Following(place).key
  BY <1>1, <1>3, FollowingEntry
<1> HIDE DEF r
<1>7. OnlyRun(u) /\ run'[u] = r
  BY <1>1, <1>2, <1>3, <1>5 DEF OnlyRun, Shape
<1>8. Passed(r)
  <2>1. \A e \in entries : e.at <= place =>
          e.key \in run[u].catalog.servers \cup run[u].catalog.missed \cup {run[u].key}
    BY <1>1 DEF BuildInv, Passed, place
  <2> QED
    BY <2>1, <1>3, <1>5, <1>6 DEF Passed
<1>9. /\ known' \subseteq Keys /\ vouched' \subseteq known'
      /\ cache' \in Seq(Catalog) /\ Len(cache') <= 1 /\ holder' \in ChatRuns \cup {None}
      /\ cache' # << >> => Registered \subseteq cache'[1].servers \cup cache'[1].missed
  BY <1>1 DEF Shape, CatalogCoversClients
<1>10. /\ run'[u].at = "building" /\ holder' = u
       /\ \A v \in ChatRuns \ {u} : holder' = v <=> holder = v
       /\ \A key \in run'[u].offered : PolicyAllows(Caller[u].workflow, Exposes[key])
  BY <1>1, <1>5, <1>7 DEF LockHeld, OfferedIsAllowed
<1> QED
  BY <1>7, <1>8, <1>9, <1>10, RunStep

\* A dict that kept its size was gone through to its last entry: the catalog
\* covers it.
LEMMA FinishStep ==
  ASSUME DirectoryInv, NEW u \in ChatRuns, NEW listed \in BOOLEAN, Finish(u, listed)
  PROVE  DirectoryInv'
<1> DEFINE catalog == With(u, listed)
           place == run[u].place
           r == Given(u, catalog, warm')
<1>1. /\ Shape /\ CatalogCoversClients /\ LockHeld /\ BuildInv
      /\ UNCHANGED <<integration, entries, fill, capacity, tracked, created, known, vouched, request>>
      /\ run[u].at = "building" /\ Later(place) = {} /\ warm' = Warmed(u, listed)
      /\ cache' = <<catalog>> /\ holder' = None /\ run' = [run EXCEPT ![u] = r]
  BY TypeParts DEF DirectoryInv, Finish, table, health
<1>2. /\ catalog \in Catalog /\ place \in Nat /\ warm' \subseteq Clients
      /\ catalog.servers = run[u].catalog.servers \cup {run[u].key}
      /\ catalog.missed = run[u].catalog.missed
  BY <1>1, WithCatalog
<1>3. Registered \subseteq catalog.servers \cup catalog.missed
  <2>1. \A e \in entries : e.at <= place =>
          e.key \in run[u].catalog.servers \cup run[u].catalog.missed \cup {run[u].key}
    BY <1>1 DEF BuildInv, Passed
  <2>2. \A e \in entries : e.at <= place
    BY <1>1, <1>2, EntryTypes DEF Later, Shape
  <2> QED
    BY <2>1, <2>2, <1>2 DEF Registered
<1> HIDE DEF catalog, place
<1>4. /\ r \in Run /\ r.at = "ready"
      /\ \A key \in r.offered : PolicyAllows(Caller[u].workflow, Exposes[key])
  BY <1>2, GivenRun
<1> HIDE DEF r
<1>5. OnlyRun(u) /\ run'[u] = r
  BY <1>1, <1>2, <1>4 DEF OnlyRun, Shape
<1>6. /\ known' \subseteq Keys /\ vouched' \subseteq known'
      /\ cache' \in Seq(Catalog) /\ Len(cache') <= 1
      /\ cache' # << >> => Registered \subseteq cache'[1].servers \cup cache'[1].missed
  BY <1>1, <1>2, <1>3 DEF Shape
<1>7. /\ run'[u].at # "building" /\ holder' # u /\ holder' \in ChatRuns \cup {None}
      /\ \A v \in ChatRuns \ {u} : holder' = v <=> holder = v
      /\ \A key \in run'[u].offered : PolicyAllows(Caller[u].workflow, Exposes[key])
  BY <1>1, <1>4, <1>5, DirectoryAssumption DEF LockHeld, None
<1> QED
  BY <1>5, <1>6, <1>7, RunStep

LEMMA BreakStep ==
  ASSUME DirectoryInv, NEW u \in ChatRuns, NEW listed \in BOOLEAN, Break(u, listed)
  PROVE  DirectoryInv'
<1>1. /\ Shape /\ LockHeld /\ BuildInv
      /\ UNCHANGED <<integration, entries, fill, capacity, tracked, created, request, known, vouched, cache>>
      /\ run[u].at = "building" /\ warm' = Warmed(u, listed) /\ holder' = None
      /\ run' = [run EXCEPT ![u] = [NewRun EXCEPT !.at = "failed"]]
  BY TypeParts DEF DirectoryInv, Break, LockAfterError, table, health
<1>2. warm' \subseteq Clients
  BY <1>1, WithCatalog
<1>3. /\ holder' \in ChatRuns \cup {None} /\ holder' # u
      /\ \A v \in ChatRuns \ {u} : holder' = v <=> holder = v
  BY <1>1, DirectoryAssumption DEF LockHeld, None
<1> QED
  BY <1>1, <1>2, <1>3, EndStep

LEMMA CancelStep ==
  ASSUME DirectoryInv, NEW u \in ChatRuns, Cancel(u)
  PROVE  DirectoryInv'
<1>1. /\ Shape
      /\ UNCHANGED <<integration, entries, fill, capacity, tracked, created, warm, request, known, vouched, cache>>
      /\ holder' = IF holder = u THEN None ELSE holder
      /\ run' = [run EXCEPT ![u] = [NewRun EXCEPT !.at = "failed"]]
  BY TypeParts DEF DirectoryInv, Cancel, servers, table, health
<1>2. /\ warm' \subseteq Clients /\ holder' \in ChatRuns \cup {None} /\ holder' # u
      /\ \A v \in ChatRuns \ {u} : holder' = v <=> holder = v
  BY <1>1, DirectoryAssumption DEF Shape, None
<1> QED
  BY <1>1, <1>2, EndStep

LEMMA AnsweredStep ==
  ASSUME DirectoryInv, NEW u \in ChatRuns, NEW how \in {"called", "refused"},
         run[u].at = "ready", Answered(u, how)
  PROVE  DirectoryInv'
<1>1. /\ Shape /\ LockHeld
      /\ UNCHANGED <<integration, entries, fill, capacity, tracked, created, warm, request, known, vouched, cache,
                     holder>>
      /\ run' = [run EXCEPT ![u] = [NewRun EXCEPT !.at = how]]
  BY TypeParts DEF DirectoryInv, Answered, servers, table, discovery, health
<1>2. /\ warm' \subseteq Clients /\ holder' \in ChatRuns \cup {None} /\ holder' # u
      /\ \A v \in ChatRuns \ {u} : holder' = v <=> holder = v
  BY <1>1 DEF Shape, LockHeld
<1> QED
  BY <1>1, <1>2, EndStep

LEMMA ChatsStep ==
  ASSUME DirectoryInv, Chats
  PROVE  DirectoryInv'
<1> PICK u \in ChatRuns :
      \/ Refuse(u) \/ Chat(u) \/ Obtain(u) \/ Cancel(u)
      \/ \E key \in Keys : Gated(u, key) \/ Stale(u, key) \/ Execute(u, key)
  BY DEF Chats
<1>1. Shape
  BY TypeParts DEF DirectoryInv
<1>2. CASE Refuse(u)
  BY <1>1, <1>2, WaitStep DEF Refuse, Shape, health
<1>3. CASE Chat(u)
  <2>1. Registered \subseteq Keys
    BY <1>1, EntryTypes DEF Registered, Shape
  <2>2. known' \subseteq Keys /\ vouched' \subseteq known'
    BY <1>1, <1>3, <2>1 DEF Chat, Unseen, Shape
  <2>3. /\ run' = [run EXCEPT ![u].at = "asking"] /\ run[u].at # "building"
        /\ UNCHANGED <<integration, servers, discovery, request>>
    BY <1>3 DEF Chat
  <2> QED
    BY <2>2, <2>3, WaitStep
<1>4. CASE Obtain(u)
  <2>1. CASE Copy(u)
    BY <2>1, CopyStep
  <2>2. CASE Queue(u)
    BY <1>1, <2>2, WaitStep DEF Queue, Shape, health
  <2>3. CASE Build(u)
    BY <2>3, BuildStep
  <2>4. ASSUME NEW listed \in Listings(u), Discover(u, listed) \/ Finish(u, listed) \/ Break(u, listed)
        PROVE  DirectoryInv'
    <3>1. listed \in BOOLEAN
      BY <2>4 DEF Listings
    <3> QED
      BY <2>4, <3>1, DiscoverStep, FinishStep, BreakStep
  <2> QED
    BY <1>4, <2>1, <2>2, <2>3, <2>4 DEF Obtain
<1>5. CASE Cancel(u)
  BY <1>5, CancelStep
<1>6. ASSUME NEW key \in Keys, Gated(u, key) \/ Stale(u, key) \/ Execute(u, key)
      PROVE  DirectoryInv'
  <2>1. run[u].at = "ready" /\ \E how \in {"called", "refused"} : Answered(u, how)
    BY <1>6 DEF Gated, Stale, Execute
  <2> QED
    BY <2>1, AnsweredStep
<1> QED
  BY <1>2, <1>3, <1>4, <1>5, <1>6

LEMMA RoutesStep ==
  ASSUME DirectoryInv, Routes
  PROVE  DirectoryInv'
<1>1. Shape
  BY TypeParts DEF DirectoryInv
<1>2. Free \in Request /\ Free.at = "idle"
  BY DEF Free, Request
<1>3. ASSUME NEW i \in Integrations, Create(i) PROVE DirectoryInv'
  <2>1. /\ integration' \in [Integrations -> {"absent", "present", "deleted"}]
        /\ UNCHANGED <<entries, fill, capacity, tracked, warm, created, cache, holder, known, vouched, request, run>>
    BY <1>1, <1>3 DEF Create, Shape, servers, table, discovery, health
  <2>2. Shape' /\ Distinct(entries)' /\ LockHeld'
    BY <2>1, TypeParts DEF DirectoryInv, Shape, Distinct, LockHeld
  <2>3. CatalogCoversClients' /\ OfferedIsAllowed' /\ EntriesInv' /\ TrackedInv'
    BY <2>1 DEF DirectoryInv, CatalogCoversClients, OfferedIsAllowed, EntriesInv, Size, TrackedInv,
                Registered
  <2>4. RequestInv' /\ BuildInv'
    BY <2>1 DEF DirectoryInv, RequestInv, BuildInv, Passed
  <2> QED
    BY <2>2, <2>3, <2>4, TypePartsNext DEF DirectoryInv
<1>4. ASSUME NEW r \in Requests, NEW i \in Integrations, Enable(r, i) PROVE DirectoryInv'
  <2> DEFINE q == [at |-> "connecting", of |-> i, client |-> 0]
  <2>1. q \in Request /\ q.of \in Integrations /\ q.at = "connecting"
    BY DEF Request
  <2>2. /\ request' = [request EXCEPT ![r] = q]
        /\ integration' \in [Integrations -> {"absent", "present", "deleted"}]
        /\ UNCHANGED <<servers, discovery, health, run>>
    BY <1>1, <1>4 DEF Enable, Shape
  <2> HIDE DEF q
  <2> QED
    BY <2>1, <2>2, RequestStep
<1>5. ASSUME NEW r \in Requests, NEW i \in Integrations, NEW op \in {"disabling", "deleting"},
             request' = [request EXCEPT ![r] = Closing(r, i, op)],
             integration' \in [Integrations -> {"absent", "present", "deleted"}],
             UNCHANGED <<servers, discovery, health, run>>
      PROVE  DirectoryInv'
  <2>1. tracked[i] \in Clients \cup {0}
    BY <1>1 DEF Shape
  <2>2. /\ Closing(r, i, op) \in Request
        /\ Closing(r, i, op).at # "idle" => Closing(r, i, op).of = i
        /\ Closing(r, i, op).at \in {"disabling", "deleting"} =>
             Closing(r, i, op).client = tracked[i] /\ tracked[i] # 0
    BY <1>2, <2>1 DEF Closing, Request, Free
  <2> QED
    BY <1>5, <2>2, RequestStep
<1>6. ASSUME NEW r \in Requests, NEW i \in Integrations, Disable(r, i) PROVE DirectoryInv'
  BY <1>1, <1>5, <1>6 DEF Disable, Shape
<1>7. ASSUME NEW r \in Requests, NEW i \in Integrations, Delete(r, i) PROVE DirectoryInv'
  BY <1>1, <1>5, <1>7 DEF Delete, Shape
<1>8. ASSUME NEW r \in Requests, ConnectFails(r) PROVE DirectoryInv'
  <2>1. /\ request' = [request EXCEPT ![r] = Free]
        /\ integration' \in [Integrations -> {"absent", "present", "deleted"}]
        /\ UNCHANGED <<servers, discovery, health, run>>
    BY <1>1, <1>8 DEF ConnectFails, Shape
  <2> QED
    BY <1>2, <2>1, RequestStep
<1> QED
  BY <1>3, <1>4, <1>6, <1>7, <1>8, RegisterStep, DisconnectedStep DEF Routes

LEMMA ExpireStep ==
  ASSUME DirectoryInv, Expire
  PROVE  DirectoryInv'
<1>1. /\ Shape
      /\ cache' = << >>
      /\ UNCHANGED <<integration, entries, fill, capacity, tracked, warm, created, holder, known, vouched, request,
                     run>>
  BY TypeParts DEF DirectoryInv, Expire, servers, table, health
<1>2. cache' \in Seq(Catalog) /\ Len(cache') <= 1
  BY <1>1
<1>3. Shape' /\ Distinct(entries)' /\ LockHeld'
  BY <1>1, <1>2, TypeParts DEF DirectoryInv, Shape, Distinct, LockHeld
<1>4. CatalogCoversClients' /\ OfferedIsAllowed' /\ EntriesInv' /\ TrackedInv'
  BY <1>1 DEF DirectoryInv, CatalogCoversClients, OfferedIsAllowed, EntriesInv, Size, TrackedInv,
              Registered
<1>5. RequestInv' /\ BuildInv'
  BY <1>1 DEF DirectoryInv, RequestInv, BuildInv, Passed
<1> QED
  BY <1>3, <1>4, <1>5, TypePartsNext DEF DirectoryInv

LEMMA DirectoryInductive == DirectoryInv /\ [DirectoryNext]_directoryVars => DirectoryInv'
<1> SUFFICES ASSUME DirectoryInv, [DirectoryNext]_directoryVars PROVE DirectoryInv'
  OBVIOUS
<1>1. CASE Routes
  BY <1>1, RoutesStep
<1>2. CASE Chats
  BY <1>2, ChatsStep
<1>3. CASE Expire
  BY <1>3, ExpireStep
<1>4. CASE UNCHANGED directoryVars
  <2>1. UNCHANGED <<integration, entries, fill, capacity, tracked, warm, created, cache, holder, known, vouched,
                    request, run>>
    BY <1>4 DEF directoryVars, servers, table, discovery, health
  <2>2. DirectoryTypeOK' /\ CatalogCoversClients' /\ OfferedIsAllowed'
    BY <2>1 DEF DirectoryInv, DirectoryTypeOK, CatalogCoversClients, OfferedIsAllowed, Registered
  <2>3. EntriesInv' /\ TrackedInv' /\ RequestInv' /\ BuildInv'
    BY <2>1 DEF DirectoryInv, EntriesInv, Size, TrackedInv, RequestInv, BuildInv, Passed
  <2> QED
    BY <2>2, <2>3 DEF DirectoryInv
<1> QED
  BY <1>1, <1>2, <1>3, <1>4 DEF DirectoryNext

-----------------------------------------------------------------------------
(* Startup                                                                 *)

LEMMA OrderExists ==
  ASSUME NEW connected \in SUBSET Integrations
  PROVE  /\ Cardinality(connected) \in 0 .. MaxClients
         /\ \E s \in [1 .. Cardinality(connected) -> connected] :
              \A a, b \in DOMAIN s : a # b => s[a] # s[b]
<1>1. IsFiniteSet(connected) /\ Cardinality(connected) <= Cardinality(Integrations)
  BY FS_Subset, DirectoryAssumption
<1>2. /\ Cardinality(connected) \in Nat
      /\ ExistsBijection(1 .. Cardinality(connected), connected)
  BY <1>1, FS_CardinalityType
<1>3. Cardinality(Integrations) \in Nat
  BY FS_CardinalityType, DirectoryAssumption
<1>4. PICK s \in Injection(1 .. Cardinality(connected), connected) : TRUE
  BY <1>2 DEF ExistsBijection, Bijection
<1>5. /\ s \in [1 .. Cardinality(connected) -> connected]
      /\ \A a, b \in DOMAIN s : a # b => s[a] # s[b]
  BY <1>4 DEF Injection, IsInjective
<1>6. Cardinality(connected) \in 0 .. MaxClients
  BY <1>1, <1>2, <1>3, DirectoryAssumption
<1> QED
  BY <1>5, <1>6

\* Counting them gives each integration a place.
LEMMA OrderOnto ==
  ASSUME NEW connected \in SUBSET Integrations,
         NEW s \in [1 .. Cardinality(connected) -> connected],
         \A a, b \in DOMAIN s : a # b => s[a] # s[b]
  PROVE  \A i \in connected : \E j \in 1 .. Cardinality(connected) : s[j] = i
<1> DEFINE n == Cardinality(connected)
<1>1. IsFiniteSet(connected) /\ n \in Nat
  BY FS_Subset, FS_CardinalityType, DirectoryAssumption
<1>2. IsFiniteSet(1 .. n) /\ Cardinality(1 .. n) = n
  <2> HIDE DEF n
  <2> QED
    BY <1>1, FS_Interval
<1>3. s \in Injection(1 .. n, connected)
  BY DEF Injection, IsInjective
<1>4. s \in Surjection(1 .. n, connected)
  BY <1>1, <1>2, <1>3, FS_Injection
<1> QED
  BY <1>4 DEF Surjection

\* The order in which a startup connects these integrations.
OrderOf(connected) ==
  CHOOSE s \in [1 .. Cardinality(connected) -> connected] :
    \A a, b \in DOMAIN s : a # b => s[a] # s[b]

LEMMA OrderIsOne ==
  ASSUME NEW connected \in SUBSET Integrations
  PROVE  /\ OrderOf(connected) \in [1 .. Cardinality(connected) -> connected]
         /\ \A a, b \in DOMAIN OrderOf(connected) :
              a # b => OrderOf(connected)[a] # OrderOf(connected)[b]
<1> DEFINE S == [1 .. Cardinality(connected) -> connected]
           OneToOne(s) == \A a, b \in DOMAIN s : a # b => s[a] # s[b]
<1>1. \E s \in S : OneToOne(s)
  BY OrderExists
<1>2. OrderOf(connected) = CHOOSE s \in S : OneToOne(s)
  BY DEF OrderOf
<1> HIDE DEF S, OneToOne
<1>3. OrderOf(connected) \in S /\ OneToOne(OrderOf(connected))
  BY <1>1, <1>2
<1> QED
  BY <1>3 DEF S, OneToOne

\* The state after a startup that connected these integrations.
StartedWith(present, connected, up, order) ==
  /\ integration = [i \in Integrations |-> IF i \in present THEN "present" ELSE "absent"]
  /\ entries = {[key |-> Gateway, client |-> 1, at |-> 1]} \cup
       {[key |-> order[j], client |-> j + 1, at |-> j + 1] : j \in DOMAIN order}
  /\ fill = Len(order) + 1
  /\ capacity \in Grown(fill)
  /\ tracked = [i \in Integrations |->
       IF i \in connected THEN 1 + CHOOSE j \in DOMAIN order : order[j] = i ELSE 0]
  /\ warm = {e.client : e \in {x \in entries : x.key \in up}}
  /\ created = Cardinality(connected)
  /\ cache = << >> /\ holder = None /\ known = Registered /\ vouched = up
  /\ request = [r \in Requests |-> Free]
  /\ run = [u \in ChatRuns |-> NewRun]

LEMMA DirectoryInitial == DirectoryInit => DirectoryInv
<1> SUFFICES ASSUME NEW present \in SUBSET Integrations, NEW connected \in SUBSET present,
                    NEW up \in SUBSET (connected \cup {Gateway}),
                    StartedWith(present, connected, up, OrderOf(connected))
             PROVE  DirectoryInv
  BY DEF DirectoryInit, StartedWith, OrderOf
<1> DEFINE order == OrderOf(connected)
<1> DEFINE n == Cardinality(connected)
<1>1. connected \in SUBSET Integrations /\ n \in 0 .. MaxClients
  BY OrderExists
<1>2. /\ order \in [1 .. n -> connected]
      /\ \A a, b \in 1 .. n : a # b => order[a] # order[b]
      /\ \A i \in connected : \E j \in 1 .. n : order[j] = i
  <2>1. /\ order \in [1 .. Cardinality(connected) -> connected]
        /\ \A a, b \in DOMAIN order : a # b => order[a] # order[b]
    BY <1>1, OrderIsOne
  <2> QED
    BY <2>1, <1>1, OrderOnto
<1> HIDE DEF n, order
<1>3. MaxClients \in Nat /\ n \in Nat /\ n <= MaxClients /\ Len(order) = n
  BY <1>1, <1>2, DirectoryAssumption
<1> DEFINE gateway == [key |-> Gateway, client |-> 1, at |-> 1]
           entry(j) == [key |-> order[j], client |-> j + 1, at |-> j + 1]
<1>4. /\ gateway \in entries /\ \A j \in 1 .. n : entry(j) \in entries
      /\ \A e \in entries : e = gateway \/ \E j \in 1 .. n : e = entry(j)
  <2>1. DOMAIN order = 1 .. n
    BY <1>2
  <2> QED
    BY <2>1 DEF StartedWith, order
<1>5. /\ gateway \in DictEntry /\ \A j \in 1 .. n : entry(j) \in DictEntry
      /\ \A j \in 1 .. n : order[j] \in Integrations /\ j \in Nat /\ j <= n
  BY <1>1, <1>2, <1>3, EntryTypes DEF DictEntry, Clients
<1>6. entries \subseteq DictEntry /\ \A e \in entries : e.at \in 1 .. n + 1 /\ e.client <= n + 1
  <2>1. \A j \in 1 .. n : entry(j).at \in 1 .. n + 1 /\ entry(j).client <= n + 1
    BY <1>3
  <2> QED
    BY <2>1, <1>3, <1>4, <1>5
<1>7. IsFiniteSet(entries) /\ Size <= n + 1
  <2> DEFINE f == [k \in 1 .. n + 1 |-> IF k = 1 THEN gateway ELSE entry(k - 1)]
  <2>1. IsFiniteSet(1 .. n + 1) /\ Cardinality(1 .. n + 1) = n + 1
    BY <1>3, FS_Interval
  <2>2. f \in [1 .. n + 1 -> DictEntry]
    BY <1>3, <1>5
  <2>3. entries \subseteq {f[k] : k \in 1 .. n + 1}
    <3>1. 1 \in 1 .. n + 1 /\ f[1] = gateway
      BY <1>3
    <3>2. \A j \in 1 .. n : j + 1 \in 1 .. n + 1 /\ j + 1 # 1 /\ (j + 1) - 1 = j
      BY <1>3
    <3>3. \A j \in 1 .. n : f[j + 1] = entry(j)
      BY <3>2
    <3> HIDE DEF f, gateway, entry
    <3> QED
      BY <3>1, <3>2, <3>3, <1>4
  <2> HIDE DEF f
  <2>4. IsFiniteSet({f[k] : k \in 1 .. n + 1}) /\ Cardinality({f[k] : k \in 1 .. n + 1}) <= n + 1
    <3>1. /\ IsFiniteSet({f[k] : k \in 1 .. n + 1})
          /\ Cardinality({f[k] : k \in 1 .. n + 1}) <= Cardinality(1 .. n + 1)
      BY <2>1, <2>2, ImageFinite
    <3> QED
      BY <2>1, <3>1
  <2>5. IsFiniteSet(entries) /\ Cardinality(entries) <= Cardinality({f[k] : k \in 1 .. n + 1})
    BY <2>3, <2>4, FS_Subset
  <2> QED
    BY <2>4, <2>5, <1>3, FS_CardinalityType DEF Size
<1>8. Distinct(entries)
  <2>1. \A j \in 1 .. n : /\ entry(j).key # gateway.key /\ entry(j).client # gateway.client
                          /\ entry(j).at # gateway.at
    BY <1>3, <1>5, EntryTypes
  <2>2. \A a, b \in 1 .. n : a # b => /\ entry(a).key # entry(b).key
                                      /\ entry(a).client # entry(b).client
                                      /\ entry(a).at # entry(b).at
    BY <1>2, <1>3
  <2> HIDE DEF gateway, entry
  <2> SUFFICES ASSUME NEW e \in entries, NEW x \in entries, e # x
               PROVE  e.key # x.key /\ e.client # x.client /\ e.at # x.at
    BY DEF Distinct
  <2>3. CASE e = gateway
    BY <2>1, <2>3, <1>4
  <2>4. CASE \E j \in 1 .. n : e = entry(j)
    BY <2>1, <2>2, <2>4, <1>4
  <2> QED
    BY <2>3, <2>4, <1>4
<1>9. tracked \in [Integrations -> Clients \cup {0}] /\ TrackedInv
  <2> SUFFICES ASSUME NEW i \in Integrations
               PROVE  \/ tracked[i] = 0
                      \/ /\ tracked[i] \in Clients
                         /\ \E e \in entries : e.client = tracked[i] /\ e.key = i
    BY DEF TrackedInv, StartedWith, order
  <2>1. CASE i \notin connected
    BY <2>1 DEF StartedWith, order
  <2>2. CASE i \in connected
    <3> DEFINE j == CHOOSE m \in DOMAIN order : order[m] = i
    <3>1. j \in 1 .. n /\ order[j] = i
      BY <2>2, <1>2
    <3>2. tracked[i] = 1 + j
      BY <2>2 DEF StartedWith, order
    <3> HIDE DEF j
    <3>3. j + 1 \in 1 .. n + 1 /\ 1 + j = j + 1 /\ j + 1 \in Clients
      BY <3>1, <1>3 DEF Clients
    <3>4. entry(j) \in entries /\ entry(j).client = j + 1 /\ entry(j).key = i
      BY <3>1, <1>4
    <3> HIDE DEF entry
    <3> QED
      BY <3>2, <3>3, <3>4
  <2> QED
    BY <2>1, <2>2
<1>10. Registered \subseteq connected \cup {Gateway} /\ connected \cup {Gateway} \subseteq Registered
  <2>1. gateway.key = Gateway /\ \A j \in 1 .. n : entry(j).key = order[j]
    OBVIOUS
  <2> HIDE DEF gateway, entry
  <2>2. Registered \subseteq connected \cup {Gateway}
    BY <2>1, <1>2, <1>4 DEF Registered
  <2>3. connected \cup {Gateway} \subseteq Registered
    BY <2>1, <1>2, <1>4 DEF Registered
  <2> QED
    BY <2>2, <2>3
<1>11. known \subseteq Keys /\ vouched \subseteq known
  BY <1>1, <1>10 DEF Keys, StartedWith, order
<1>12. warm \subseteq Clients
  BY <1>6, EntryTypes DEF StartedWith
<1>13. Free \in Request /\ Free.at = "idle" /\ NewRun \in Run /\ NewRun.at = "idle" /\ NewRun.offered = {}
  BY NewRunType DEF Free, Request
<1>14. Shape
  <2>1. /\ integration \in [Integrations -> {"absent", "present", "deleted"}]
        /\ created \in 0 .. MaxClients /\ cache \in Seq(Catalog) /\ Len(cache) <= 1
        /\ holder \in ChatRuns \cup {None}
    BY <1>1 DEF n, StartedWith, order
  <2>2. request \in [Requests -> Request] /\ run \in [ChatRuns -> Run]
    BY <1>13 DEF StartedWith, order
  <2>3. fill \in Nat /\ capacity \in Nat
    <3>1. fill = n + 1 /\ capacity \in Grown(fill)
      BY <1>3 DEF StartedWith, order
    <3>2. \A k \in 0 .. n : k \in 0 .. MaxClients
      BY <1>3
    <3>3. capacity \in {Capacity[k] : k \in 0 .. n}
      BY <3>1, <1>3 DEF Grown
    <3> QED
      BY <3>1, <3>2, <3>3, <1>3, DirectoryAssumption
  <2> QED
    BY <2>1, <2>2, <2>3, <1>6, <1>9, <1>11, <1>12 DEF Shape
<1>15. LockHeld /\ OfferedIsAllowed /\ CatalogCoversClients /\ BuildInv /\ RequestInv
  <2>1. \A u \in ChatRuns : run[u].at = "idle" /\ run[u].offered = {} /\ holder # u
    BY <1>13, DirectoryAssumption DEF None, StartedWith, order
  <2>2. \A r \in Requests : request[r].at = "idle"
    BY <1>13 DEF StartedWith, order
  <2> QED
    BY <2>1, <2>2 DEF LockHeld, OfferedIsAllowed, CatalogCoversClients, BuildInv, RequestInv, StartedWith, order
<1>16. EntriesInv
  <2>1. created + 1 = n + 1 /\ fill = n + 1
    BY <1>3 DEF n, StartedWith, order
  <2>2. \E e \in entries : e.key = Gateway /\ e.client = 1
    BY <1>4
  <2> QED
    BY <2>1, <2>2, <1>3, <1>6, <1>7 DEF EntriesInv
<1> QED
  BY <1>8, <1>9, <1>14, <1>15, <1>16, TypeParts DEF DirectoryInv

\* The registry, what the requests are doing to it and the catalogs taken
\* from it agree, however the requests and the runs interleave.
THEOREM DirectoryInvariance == DirectorySpec => []DirectoryInv
<1> QED
  BY DirectoryInitial, DirectoryInductive, PTL DEF DirectorySpec

\* The connection manager, the registry and the lock agree: a server the
\* status route reports as connected is in the registry, and the lock of the
\* discovery is held by a run that builds the catalog.
THEOREM DirectorySoundness == DirectorySpec => []DirectorySound
<1>1. DirectoryInv => DirectorySound
  BY DEF DirectoryInv, DirectorySound, TrackedInv, ConnectedIsReachable, InUse
<1> QED
  BY <1>1, DirectoryInvariance, PTL

\* The catalog that the runs copy knows every server registered by now, but
\* for those whose entries got behind its iteration in a new table.
THEOREM CatalogCovers == DirectorySpec => []CatalogCoversClients
<1>1. DirectoryInv => CatalogCoversClients
  BY DEF DirectoryInv
<1> QED
  BY <1>1, DirectoryInvariance, PTL

\* The filters of tool_catalog.py and its policy for one tool agree on all
\* that a run is offered.
THEOREM OfferedAllowed == DirectorySpec => []OfferedIsAllowed
<1>1. DirectoryInv => OfferedIsAllowed
  BY DEF DirectoryInv
<1> QED
  BY <1>1, DirectoryInvariance, PTL
=============================================================================
