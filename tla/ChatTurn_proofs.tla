--------------------------- MODULE ChatTurn_proofs ---------------------------
(***************************************************************************)
(* Proofs about what serves a request: AgentLoop, for every set of calls   *)
(* and every budget, and Conversation, for every number of sessions,       *)
(* requests and restarts and every threshold.  Both keep a part of a       *)
(* sequence in its order, so they share the facts about positions that     *)
(* come first.                                                             *)
(***************************************************************************)
EXTENDS AgentLoop, Conversation, NaturalsInduction, WellFoundedInduction,
        FiniteSetTheorems, SequenceTheorems, TLAPS

-----------------------------------------------------------------------------
(* Positions of a sequence                                                 *)

\* The positions of a sequence, and every set of some of them.
IsPositions(S) == IsFiniteSet(S) /\ S \subseteq Nat

LEMMA SomePositions ==
  ASSUME NEW rows, NEW T, rows \in Seq(T), NEW S, S \subseteq DOMAIN rows
  PROVE  IsPositions(S)
<1>1. DOMAIN rows = 1..Len(rows) /\ Len(rows) \in Nat
  OBVIOUS
<1>2. IsFiniteSet(1..Len(rows))
  BY <1>1, FS_Interval
<1> QED
  BY <1>1, <1>2, FS_Subset DEF IsPositions

LEMMA PositionFacts ==
  ASSUME NEW S, IsPositions(S)
  PROVE  /\ IsFiniteSet(S) /\ Cardinality(S) \in Nat
         /\ \A i \in S : i \in Nat
BY FS_CardinalityType DEF IsPositions

\* Ranks count from one, and grow with the position.
LEMMA RankGrows ==
  ASSUME NEW S, IsPositions(S), NEW i \in S
  PROVE  /\ Rank(S, i) \in 1..Cardinality(S) /\ Rank(S, i) \in Nat /\ i \in Nat
         /\ \A j \in S : i < j => Rank(S, i) < Rank(S, j)
<1> DEFINE Upto(x) == {j \in S : j <= x}
<1>1. \A x : IsFiniteSet(Upto(x)) /\ Cardinality(Upto(x)) \in Nat
             /\ Cardinality(Upto(x)) <= Cardinality(S)
  <2>1. \A x : Upto(x) \in SUBSET S
    OBVIOUS
  <2>2. IsFiniteSet(S)
    BY DEF IsPositions
  <2> HIDE DEF Upto
  <2> QED
    BY <2>1, <2>2, FS_Subset, FS_CardinalityType
<1>2. i \in Upto(i) /\ i \in Nat
  BY DEF IsPositions
<1>3. Cardinality(Upto(i)) # 0
  <2> HIDE DEF Upto
  <2> QED
    BY <1>1, <1>2, FS_EmptySet
<1>4. Cardinality(S) \in Nat /\ i \in Nat
  BY PositionFacts
<1>5. ASSUME NEW j \in S, i < j
      PROVE  Cardinality(Upto(i)) < Cardinality(Upto(j))
  <2>1. Upto(i) \in SUBSET Upto(j) /\ j \in Upto(j) /\ j \notin Upto(i)
    BY <1>5, PositionFacts
  <2> HIDE DEF Upto
  <2>2. /\ Cardinality(Upto(i)) <= Cardinality(Upto(j))
        /\ Cardinality(Upto(j)) = Cardinality(Upto(i)) => Upto(j) = Upto(i)
    BY <1>1, <2>1, FS_Subset
  <2> QED
    BY <1>1, <2>1, <2>2
<1>6. \A x : Rank(S, x) = Cardinality(Upto(x))
  BY DEF Rank
<1> HIDE DEF Upto
<1> QED
  BY <1>1, <1>3, <1>4, <1>5, <1>6

\* So every rank up to the number of positions has its position.
LEMMA NthRank ==
  ASSUME NEW S, IsPositions(S), NEW k \in 1..Cardinality(S)
  PROVE  Nth(S, k) \in S /\ Rank(S, Nth(S, k)) = k
<1> DEFINE n == Cardinality(S)
           r == [i \in S |-> Rank(S, i)]
<1>1. n \in Nat /\ IsFiniteSet(S)
  BY FS_CardinalityType DEF IsPositions
<1>2. r \in [S -> 1..n]
  BY RankGrows
<1>3. \A i, j \in S : r[i] = r[j] => i = j
  <2>1. \A i, j \in S : i \in Nat /\ j \in Nat /\ Rank(S, i) \in Nat /\ Rank(S, j) \in Nat
    BY RankGrows
  <2>2. \A i, j \in S : i < j => Rank(S, i) < Rank(S, j)
    BY RankGrows
  <2> QED
    BY <2>1, <2>2
<1>4. r \in Injection(S, 1..n)
  BY <1>2, <1>3 DEF Injection, IsInjective
<1>5. IsFiniteSet(1..n) /\ Cardinality(1..n) = n
  BY <1>1, FS_Interval
<1>6. r \in Surjection(S, 1..n)
  <2> HIDE DEF r
  <2> QED
    BY <1>1, <1>4, <1>5, FS_Injection
<1>7. \E i \in S : Rank(S, i) = k
  BY <1>6 DEF Surjection
<1> QED
  BY <1>7 DEF Nth

\* The k-th position is the only one of rank k, and later ones are greater.
LEMMA NthGrows ==
  ASSUME NEW S, IsPositions(S)
  PROVE  /\ \A i \in S : i = Nth(S, Rank(S, i))
         /\ \A k, m \in 1..Cardinality(S) : k < m => Nth(S, k) < Nth(S, m)
<1>1. ASSUME NEW i \in S, NEW j \in S, Rank(S, i) <= Rank(S, j)
      PROVE  i <= j
  <2>1. i \in Nat /\ j \in Nat /\ (j < i => Rank(S, j) < Rank(S, i))
    BY RankGrows
  <2>2. Rank(S, i) \in Nat /\ Rank(S, j) \in Nat
    BY RankGrows
  <2> QED
    BY <1>1, <2>1, <2>2
<1>2. ASSUME NEW i \in S
      PROVE  i = Nth(S, Rank(S, i))
  <2>1. Rank(S, i) \in 1..Cardinality(S)
    BY RankGrows
  <2>2. Nth(S, Rank(S, i)) \in S /\ Rank(S, Nth(S, Rank(S, i))) = Rank(S, i)
    BY <2>1, NthRank
  <2>3. Rank(S, i) \in Int /\ i \in Nat /\ Nth(S, Rank(S, i)) \in Nat
    BY <2>1, <2>2, PositionFacts
  <2>4. i <= Nth(S, Rank(S, i)) /\ Nth(S, Rank(S, i)) <= i
    BY <1>1, <2>2, <2>3
  <2> QED
    BY <2>3, <2>4
<1>3. ASSUME NEW k \in 1..Cardinality(S), NEW m \in 1..Cardinality(S), k < m
      PROVE  Nth(S, k) < Nth(S, m)
  <2>1. /\ Nth(S, k) \in S /\ Rank(S, Nth(S, k)) = k
        /\ Nth(S, m) \in S /\ Rank(S, Nth(S, m)) = m
    BY NthRank
  <2>2. k \in Int /\ m \in Int /\ Nth(S, k) \in Nat /\ Nth(S, m) \in Nat
    BY <2>1, PositionFacts
  <2>3. Nth(S, k) <= Nth(S, m)
    BY <1>1, <1>3, <2>1, <2>2
  <2> QED
    BY <1>3, <2>1, <2>2, <2>3
<1> QED
  BY <1>2, <1>3

\* The entries of the last positions are the last entries: when T holds every
\* position of S from some point on, so do the last Cardinality(T) ranks.
LEMMA LastRanks ==
  ASSUME NEW S, IsPositions(S), NEW T, T \subseteq S,
         \A i \in T : \A j \in S : i <= j => j \in T,
         NEW k \in 1..Cardinality(S), k > Cardinality(S) - Cardinality(T)
  PROVE  Nth(S, k) \in T
<1> DEFINE i == Nth(S, k)
           low == {j \in S : j <= i}
<1>1. i \in S /\ Cardinality(low) = k
  BY NthRank DEF Rank
<1>2. SUFFICES ASSUME i \notin T PROVE FALSE
  OBVIOUS
<1>3. IsFiniteSet(S) /\ IsFiniteSet(T) /\ IsFiniteSet(low)
  BY FS_Subset DEF IsPositions
<1>4. low \cap T = {} /\ low \cup T \in SUBSET S
  BY <1>1, <1>2 DEF IsPositions
<1> HIDE DEF low, i
<1>5. Cardinality(low \cup T) = k + Cardinality(T)
  <2>1. Cardinality(low \cap T) = 0
    BY <1>4, FS_EmptySet
  <2>2. Cardinality(low) \in Nat /\ Cardinality(T) \in Nat
    BY <1>3, FS_CardinalityType
  <2> QED
    BY <1>1, <1>3, <2>1, <2>2, FS_Union
<1>6. Cardinality(low \cup T) <= Cardinality(S)
  BY <1>3, <1>4, FS_Subset
<1>7. Cardinality(S) \in Nat /\ Cardinality(T) \in Nat /\ k \in Int
  BY <1>3, FS_CardinalityType
<1> QED
  BY <1>5, <1>6, <1>7

-----------------------------------------------------------------------------
(* The classification of failures                                          *)

\* The types a tool failure can be classified as; the workflow errors
\* (malformed output, low confidence, ...) never come from a tool.
FailureTypes == TextTypes \cup {"rbac_denied", "contract_error", "catalog_stale"}

\* ClassifyFromMcpResult (error_handler.py:323) yields a failure type.
LEMMA ClassifiedTypes ==
  ASSUME NEW r, r.text \in TextTypes
  PROVE  ClassifyFromMcpResult(r) \in FailureTypes
<1>1. ClassifyCategory(r.category) \in FailureTypes \cup {"none"}
  BY DEF ClassifyCategory, FailureTypes, TextTypes, InfrastructureCategories
<1>2. \A status : ClassifyHttpStatus(status) \in FailureTypes
  BY DEF ClassifyHttpStatus, FailureTypes, TextTypes
<1> DEFINE byCategory == ClassifyCategory(r.category)
<1>3. byCategory \in NonRetryableErrors => byCategory \in FailureTypes
  BY <1>1 DEF NonRetryableErrors
<1>4. "contract_error" \in FailureTypes
  BY DEF FailureTypes
<1> HIDE DEF byCategory
<1>5. byCategory = ClassifyCategory(r.category)
  BY DEF byCategory
<1> QED
  BY <1>1, <1>2, <1>3, <1>4, <1>5 DEF ClassifyFromMcpResult, FailureTypes

\* Every failure of a call is of such a type, and one that comes from MCPClient
\* is semantic or exhausted (mcp_client.py:339-583).
LEMMA FailureFacts ==
  ASSUME NEW c, NEW f \in FailuresOf(c)
  PROVE  /\ f.type \in FailureTypes
         /\ c \in RestCalls => f.semantic \/ f.exhausted
<1>1. \A r \in RestResults : r.text \in TextTypes /\ (r.semantic \/ r.exhausted)
  <2>1. \A r \in EnvelopeResults : r.text \in TextTypes /\ r.semantic
    BY DEF EnvelopeResults, Failed
  <2>2. \A r \in { StatusResult(status) : status \in SemanticStatuses } :
          r.text \in TextTypes /\ r.semantic
    BY DEF StatusResult, Failed, ClassifyHttpStatus, TextTypes
  <2>3. \A r \in ExhaustedResults : r.text \in TextTypes /\ r.exhausted
    BY DEF ExhaustedResults, ExhaustedStatusResult, ExhaustedTimeoutResult,
           ExhaustedExceptionResult, Failed, ClassifyHttpStatus, TextTypes
  <2>4. \A r \in CatalogResults : r.text \in TextTypes /\ r.semantic
    BY DEF CatalogResults, Failed, TextTypes
  <2>5. AuthRequiredResult.text \in TextTypes /\ AuthRequiredResult.semantic
    BY DEF AuthRequiredResult, Failed, TextTypes
  <2> QED
    BY <2>1, <2>2, <2>3, <2>4, <2>5 DEF RestResults
<1>2. \A r \in LocalResults : r.text \in TextTypes
  BY DEF LocalResults, Failed
<1>3. CASE c \in RestCalls
  <2>1. PICK r \in RestResults, b \in BOOLEAN :
          f = [type |-> ClassifyFromMcpResult(r), semantic |-> r.semantic,
               exhausted |-> r.exhausted, blocking |-> b]
    BY <1>3 DEF FailuresOf, RestFailures, Classified
  <2> QED
    BY <1>1, <2>1, ClassifiedTypes
<1>4. CASE c \in RemoteCalls \ RestCalls
  <2>1. PICK r \in RpcResults, b \in BOOLEAN :
          f = [type |-> ClassifyFromMcpResult(r), semantic |-> r.semantic,
               exhausted |-> r.exhausted, blocking |-> b]
    BY <1>4 DEF FailuresOf, RpcFailures, Classified
  <2>2. r.text \in TextTypes
    BY DEF RpcResults, RpcErrorResult, UnansweredResult, CatalogResults, Failed,
           TextTypes
  <2> QED
    BY <1>4, <2>1, <2>2, ClassifiedTypes
<1>5. CASE c \notin RestCalls /\ c \notin RemoteCalls
  <2>1. PICK r \in LocalResults, b \in {FALSE} :
          f = [type |-> ClassifyFromMcpResult(r), semantic |-> r.semantic,
               exhausted |-> r.exhausted, blocking |-> b]
    BY <1>5 DEF FailuresOf, LocalFailures, Classified
  <2> QED
    BY <1>2, <1>5, <2>1, ClassifiedTypes
<1> QED
  BY <1>3, <1>4, <1>5

\* decide_recovery (error_handler.py:465) retries a tool failure only while
\* its count is below max_retries.
LEMMA RetryBelowMax ==
  ASSUME NEW type \in FailureTypes, NEW n \in Nat,
         DecideRecovery(type, n).strategy = "retry"
  PROVE  n < MaxRetries
BY RetryAssumption DEF FailureTypes, TextTypes, DecideRecovery,
   HandleToolFailure, HandleExhaustedRetries, Recovery

-----------------------------------------------------------------------------
(* Records                                                                 *)

\* record_action appends: what was on record stays, the new entry is last.
LEMMA AppendKeeps ==
  ASSUME NEW S, NEW s \in Seq(S), NEW e \in S
  PROVE  /\ Append(s, e) \in Seq(S)
         /\ Len(Append(s, e)) = Len(s) + 1
         /\ DOMAIN Append(s, e) = DOMAIN s \cup {Len(s) + 1}
         /\ \A i \in DOMAIN s : Append(s, e)[i] = s[i]
         /\ Append(s, e)[Len(s) + 1] = e
OBVIOUS

\* The two identical entries of a streaming FeedBack are two appends.
LEMMA TwoAppends ==
  ASSUME NEW S, NEW s \in Seq(S), NEW e \in S
  PROVE  s \o <<e, e>> = Append(Append(s, e), e)
OBVIOUS

\* A counter per call goes up for one call.
LEMMA CountUp ==
  ASSUME NEW S, NEW count \in [S -> Nat], NEW c \in S
  PROVE  /\ [count EXCEPT ![c] = @ + 1] \in [S -> Nat]
         /\ \A d \in S : [count EXCEPT ![c] = @ + 1][d] =
              IF d = c THEN count[d] + 1 ELSE count[d]
OBVIOUS

LEMMA EntryType ==
  ASSUME NEW c \in Calls, NEW o \in Outcome
  PROVE  Entry(c, o) \in ActionRecord
BY DEF Entry, ActionRecord

LEMMA ExecutionType ==
  ASSUME NEW n \in Nat, NEW c \in Calls, NEW ok \in BOOLEAN
  PROVE  [pos |-> n, call |-> c, ok |-> ok] \in ToolExecution
BY DEF ToolExecution

\* After record_action a call is on record with one of the outcomes iff it was
\* before or it is the call just recorded with one of them.
LEMMA RecordedAfter ==
  ASSUME history \in Seq(ActionRecord),
         NEW c \in Calls, NEW o \in Outcome, RecordAction(c, o)
  PROVE  /\ history' \in Seq(ActionRecord)
         /\ Len(history') = Len(history) + 1
         /\ \A d, S : RecordedAs(d, S)' <=> (RecordedAs(d, S) \/ (d = c /\ o \in S))
<1> DEFINE e == Entry(c, o)
<1>1. e \in ActionRecord /\ e.call = c /\ e.outcome = o
  BY DEF Entry, ActionRecord
<1>2. history' = Append(history, e)
  BY DEF RecordAction
<1> HIDE DEF e
<1>3. /\ DOMAIN history' = DOMAIN history \cup {Len(history) + 1}
      /\ \A i \in DOMAIN history : history'[i] = history[i]
      /\ history'[Len(history) + 1] = e
  BY <1>1, <1>2, AppendKeeps
<1>4. ASSUME NEW d, NEW S
      PROVE  RecordedAs(d, S)' <=> (RecordedAs(d, S) \/ (d = c /\ o \in S))
  BY <1>1, <1>3 DEF RecordedAs
<1> QED
  BY <1>1, <1>2, <1>4, AppendKeeps

\* The same of a fed back error, recorded once or twice.
LEMMA RecordedAfterFeedBack ==
  ASSUME history \in Seq(ActionRecord),
         NEW c \in Calls, NEW f, FeedBack(c, f)
  PROVE  /\ history' \in Seq(ActionRecord)
         /\ Len(history') >= Len(history) + 1
         /\ \A d, S : RecordedAs(d, S)' <=>
              (RecordedAs(d, S) \/ (d = c /\ "retryable_failure" \in S))
<1> DEFINE e == Entry(c, "retryable_failure")
<1>1. e \in ActionRecord /\ e.call = c /\ e.outcome = "retryable_failure"
  BY DEF Entry, ActionRecord, Outcome
<1>2. IF Streaming THEN history' = history \o <<e, e>>
                   ELSE history' = Append(history, e)
  BY DEF FeedBack
<1> HIDE DEF e
<1> DEFINE h == Append(history, e)
<1>3. /\ h \in Seq(ActionRecord)
      /\ Len(h) = Len(history) + 1
      /\ DOMAIN h = DOMAIN history \cup {Len(history) + 1}
      /\ \A i \in DOMAIN history : h[i] = history[i]
      /\ h[Len(history) + 1] = e
  BY <1>1, AppendKeeps
<1>4. history' = h \/ history' = Append(h, e)
  BY <1>1, <1>2, TwoAppends
<1> HIDE DEF h
<1>5. /\ history' \in Seq(ActionRecord)
      /\ Len(history') >= Len(h)
      /\ DOMAIN h \subseteq DOMAIN history'
      /\ \A i \in DOMAIN h : history'[i] = h[i]
      /\ \A i \in DOMAIN history' : i \in DOMAIN h \/ history'[i] = e
  <2>1. CASE history' = h
    BY <1>3, <2>1
  <2>2. CASE history' = Append(h, e)
    BY <1>1, <1>3, <2>2, AppendKeeps
  <2> QED
    BY <1>4, <2>1, <2>2
<1>6. ASSUME NEW d, NEW S
      PROVE  RecordedAs(d, S)' <=>
               (RecordedAs(d, S) \/ (d = c /\ "retryable_failure" \in S))
  BY <1>1, <1>3, <1>5 DEF RecordedAs
<1> QED
  BY <1>3, <1>5, <1>6

-----------------------------------------------------------------------------
(* Type correctness                                                        *)

\* What the type invariant says of the record-keeping variables alone.
RecordTypes ==
  /\ execs \in Seq(ToolExecution)
  /\ history \in Seq(ActionRecord)
  /\ retries \in [Calls -> Nat]
  /\ reflections \in [Calls -> Nat]
  /\ successes \in [Calls -> Nat]
  /\ dispatched \in Nat
  /\ spent \subseteq Calls

\* The conjuncts Stop, NextCall and DropStep are responsible for.
ControlTypes ==
  /\ pc \in Phase
  /\ reason \in Reason
  /\ step \in 0 .. MaxSteps
  /\ batch \in Seq(Calls)
  /\ idx \in Nat
  /\ pc \in {"gate", "exec"} => idx \in 1 .. Len(batch)
  /\ context \subseteq Calls
  /\ forgotten \subseteq Calls

LEMMA TypeSplit == TypeOK <=> RecordTypes /\ ControlTypes
BY DEF TypeOK, RecordTypes, ControlTypes

LEMMA TypeJoin ==
  ASSUME RecordTypes', ControlTypes'
  PROVE  TypeOK'
BY DEF TypeOK, RecordTypes, ControlTypes

LEMMA StopTypes ==
  ASSUME TypeOK, NEW why \in Reason, Stop(why)
  PROVE  ControlTypes'
BY DEF TypeOK, ControlTypes, Stop, told, Phase

LEMMA NextCallTypes ==
  ASSUME TypeOK, pc \in {"gate", "exec"}, NextCall
  PROVE  ControlTypes'
BY DEF TypeOK, ControlTypes, NextCall, told, Phase

\* What succeeded in a step are calls.
LEMMA SucceededCalls == TypeOK => Succeeded \subseteq Calls
<1> SUFFICES ASSUME TypeOK, NEW i \in DOMAIN execs PROVE execs[i].call \in Calls
  BY DEF Succeeded
<1>1. execs[i] \in ToolExecution
  BY DEF TypeOK
<1> QED
  BY <1>1 DEF ToolExecution

LEMMA DropStepTypes ==
  ASSUME TypeOK, DropStep, Forget
  PROVE  ControlTypes' /\ execs' \in Seq(ToolExecution)
BY SucceededCalls DEF TypeOK, ControlTypes, DropStep, Forget, Phase

LEMMA AppendExecutionType ==
  ASSUME TypeOK, NEW c \in Calls, NEW ok \in BOOLEAN, AppendExecution(c, ok)
  PROVE  execs' \in Seq(ToolExecution)
BY ExecutionType, AppendKeeps DEF TypeOK, AppendExecution

\* The handled call is one of the constants.
LEMMA CurrentIsACall ==
  ASSUME TypeOK, pc \in {"gate", "exec"}
  PROVE  Current \in Calls
BY DEF TypeOK, Current

LEMMA TypeInit == Init => TypeOK
BY BudgetAssumption DEF Init, TypeOK, Phase, Reason

\* One step per action group of Next.
LEMMA TypeNext == TypeOK /\ [Next]_vars => TypeOK'
<1> SUFFICES ASSUME TypeOK, [Next]_vars PROVE TypeOK'
  OBVIOUS
<1> USE DEF runState, told, ghosts
<1>1. ASSUME HealthCheckFails \/ SkillMatched \/ MaxStepsReached \/ ModelFails
             \/ ModelAnswersText
      PROVE  TypeOK'
  <2>1. PICK why \in Reason : Stop(why)
    BY <1>1 DEF HealthCheckFails, SkillMatched, MaxStepsReached, ModelFails,
                ModelAnswersText, Reason
  <2>2. RecordTypes'
    BY <1>1 DEF HealthCheckFails, SkillMatched, MaxStepsReached, ModelFails,
                ModelAnswersText, TypeOK, RecordTypes
  <2> QED
    BY <2>1, <2>2, StopTypes, TypeSplit DEF RecordTypes, ControlTypes, TypeOK
<1>2. ASSUME HealthCheckPasses \/ NoSkillMatched \/ LoopDetected \/ NextStep
      PROVE  TypeOK'
  <2>1. CASE HealthCheckPasses \/ NoSkillMatched
    BY <2>1 DEF HealthCheckPasses, NoSkillMatched, TypeOK, Phase
  <2>2. CASE LoopDetected \/ NextStep
    <3>1. step' \in 0 .. MaxSteps
      BY <2>2, BudgetAssumption DEF LoopDetected, NextStep, TypeOK
    <3> QED
      BY <2>2, <3>1 DEF LoopDetected, NextStep, TypeOK, Phase, Reason
  <2> QED
    BY <1>2, <2>1, <2>2
<1>3. ASSUME ModelCallsTools PROVE TypeOK'
  <2>1. PICK n \in 1 .. MaxBatch : batch' \in [1 .. n -> Calls]
    BY <1>3 DEF ModelCallsTools
  <2>2. batch' \in Seq(Calls) /\ Len(batch') = n
    BY <2>1, BudgetAssumption
  <2>3. /\ idx' = 1 /\ execs' = <<>> /\ pc' = "gate"
        /\ UNCHANGED <<reason, step, history, retries, reflections, told,
                       successes, dispatched, spent>>
    BY <1>3 DEF ModelCallsTools
  <2>4. 1 \in 1 .. Len(batch') /\ <<>> \in Seq(ToolExecution)
    BY <2>1, <2>2, BudgetAssumption
  <2>5. RecordTypes'
    BY <2>3, <2>4 DEF RecordTypes, TypeOK
  <2>6. ControlTypes'
    BY <2>2, <2>3, <2>4 DEF ControlTypes, TypeOK, Phase
  <2> QED
    BY <2>5, <2>6, TypeJoin
<1>4. ASSUME Commit PROVE TypeOK'
  <2>1. context' \subseteq Calls
    BY <1>4, SucceededCalls DEF Commit, TypeOK
  <2> QED
    BY <1>4, <2>1 DEF Commit, TypeOK, Phase
<1>5. ASSUME NEW c \in Calls, pc \in {"gate", "exec"}, c = Current, Gate(c)
      PROVE  TypeOK'
  <2>1. CASE ApprovalNeeded(c) \/ RateLimitReached(c) \/ WriteToolUnavailable(c)
             \/ AttemptBudgetExhausted(c)
    <3>1. PICK why \in Reason : Stop(why)
      BY <2>1 DEF ApprovalNeeded, RateLimitReached, WriteToolUnavailable,
                  AttemptBudgetExhausted, Reason
    <3>2. RecordTypes'
      BY <2>1 DEF ApprovalNeeded, RateLimitReached, WriteToolUnavailable,
                  AttemptBudgetExhausted, TypeOK, RecordTypes
    <3> QED
      BY <3>1, <3>2, StopTypes DEF RecordTypes, ControlTypes, TypeOK
  <2>2. CASE SkipDuplicate(c)
    <3>1. RecordTypes'
      BY <2>2 DEF SkipDuplicate, TypeOK, RecordTypes
    <3> QED
      BY <1>5, <2>2, <3>1, NextCallTypes
         DEF SkipDuplicate, RecordTypes, ControlTypes, TypeOK
  <2>3. CASE SkipCall(c)
    <3>1. RecordAction(c, "skipped") /\ "skipped" \in Outcome
      BY <2>3 DEF SkipCall, Outcome
    <3>2. AppendExecution(c, FALSE) /\ NextCall
      BY <2>3 DEF SkipCall
    <3>3. history' \in Seq(ActionRecord)
      BY <3>1, RecordedAfter DEF TypeOK
    <3>4. execs' \in Seq(ToolExecution)
      BY <3>2, AppendExecutionType
    <3>5. RecordTypes'
      BY <2>3, <3>3, <3>4 DEF SkipCall, TypeOK, RecordTypes
    <3> QED
      BY <1>5, <3>2, <3>5, NextCallTypes DEF RecordTypes, ControlTypes, TypeOK
  <2>4. CASE Dispatch(c)
    <3>1. /\ pc = "gate" /\ pc' = "exec" /\ dispatched' = dispatched + 1
          /\ UNCHANGED <<reason, step, batch, idx, execs, history, retries, reflections,
                         told, successes, spent>>
      BY <2>4 DEF Dispatch, Fresh, Approved, runState
    <3>2. RecordTypes'
      <4>1. dispatched' \in Nat
        BY <3>1 DEF TypeOK
      <4>2. RecordTypes
        BY TypeSplit
      <4> QED
        BY <3>1, <4>1, <4>2 DEF RecordTypes
    <3>3. ControlTypes'
      BY <3>1 DEF TypeOK, ControlTypes, Phase
    <3> QED
      BY <3>2, <3>3, TypeJoin
  <2> QED
    BY <1>5, <2>1, <2>2, <2>3, <2>4 DEF Gate
<1>6. ASSUME NEW c \in Calls, pc \in {"gate", "exec"}, c = Current, Succeed(c)
      PROVE  TypeOK'
  <2>1. history' \in Seq(ActionRecord)
    BY <1>6, RecordedAfter DEF Succeed, TypeOK, Outcome
  <2>2. execs' \in Seq(ToolExecution)
    BY <1>6, AppendExecutionType DEF Succeed
  <2>3. successes' \in [Calls -> Nat]
    BY <1>6, CountUp DEF Succeed, TypeOK
  <2>4. RecordTypes'
    BY <1>6, <2>1, <2>2, <2>3 DEF Succeed, TypeOK, RecordTypes
  <2> QED
    BY <1>6, <2>4, NextCallTypes DEF Succeed, RecordTypes, ControlTypes, TypeOK
<1>7. ASSUME NEW c \in Calls, pc \in {"gate", "exec"}, c = Current,
             NEW f \in FailuresOf(c),
             RetryStep(c, f) \/ FeedBack(c, f) \/ Escalate(c, f)
               \/ Reflect(c, f) \/ AskUser(c, f) \/ Abort(c, f)
      PROVE  TypeOK'
  <2>1. /\ spent' \subseteq Calls
        /\ UNCHANGED <<successes, dispatched>>
    BY <1>7 DEF RetryStep, FeedBack, Escalate, Reflect, AskUser, Abort,
                FailsWith, TypeOK
  <2>2. retries' \in [Calls -> Nat] /\ reflections' \in [Calls -> Nat]
    <3>1. /\ \/ retries' = [retries EXCEPT ![c] = @ + 1]
             \/ retries' = retries
          /\ \/ reflections' = [reflections EXCEPT ![c] = @ + 1]
             \/ reflections' = reflections
      BY <1>7 DEF RetryStep, FeedBack, Escalate, Reflect, AskUser, Abort
    <3>2. retries \in [Calls -> Nat] /\ reflections \in [Calls -> Nat]
      BY DEF TypeOK
    <3>3. /\ [retries EXCEPT ![c] = @ + 1] \in [Calls -> Nat]
          /\ [reflections EXCEPT ![c] = @ + 1] \in [Calls -> Nat]
      BY <3>2, CountUp
    <3> QED
      BY <3>1, <3>2, <3>3
  <2>3. history' \in Seq(ActionRecord)
    <3>1. CASE FeedBack(c, f)
      BY <3>1, RecordedAfterFeedBack DEF TypeOK
    <3>2. CASE ~FeedBack(c, f)
      <4>1. PICK o \in Outcome : RecordAction(c, o)
        BY <1>7, <3>2 DEF RetryStep, Escalate, Reflect, AskUser, Abort, Outcome
      <4> QED
        BY <4>1, RecordedAfter DEF TypeOK
    <3> QED
      BY <3>1, <3>2
  <2>4. execs' \in Seq(ToolExecution)
    <3>1. CASE FeedBack(c, f)
      <4> DEFINE answer == [pos |-> idx, call |-> c, ok |-> FALSE]
      <4>1. answer \in ToolExecution
        BY ExecutionType DEF TypeOK
      <4>2. IF Streaming THEN execs' = execs \o <<answer, answer>>
                         ELSE execs' = Append(execs, answer)
        BY <3>1 DEF FeedBack
      <4> HIDE DEF answer
      <4>3. execs \in Seq(ToolExecution)
        BY DEF TypeOK
      <4>4. Append(execs, answer) \in Seq(ToolExecution)
        BY <4>1, <4>3, AppendKeeps
      <4>5. Append(Append(execs, answer), answer) \in Seq(ToolExecution)
        BY <4>1, <4>4, AppendKeeps
      <4> QED
        BY <4>1, <4>2, <4>3, <4>4, <4>5, TwoAppends
    <3>2. CASE RetryStep(c, f) \/ Reflect(c, f)
      BY <3>2, DropStepTypes DEF RetryStep, Reflect
    <3>3. CASE Escalate(c, f) \/ AskUser(c, f) \/ Abort(c, f)
      BY <3>3 DEF Escalate, AskUser, Abort, TypeOK
    <3> QED
      BY <1>7, <3>1, <3>2, <3>3
  <2>5. ControlTypes'
    <3>1. CASE FeedBack(c, f)
      BY <1>7, <3>1, NextCallTypes DEF FeedBack
    <3>2. CASE RetryStep(c, f) \/ Reflect(c, f)
      BY <3>2, DropStepTypes DEF RetryStep, Reflect
    <3>3. CASE Escalate(c, f) \/ AskUser(c, f) \/ Abort(c, f)
      <4>1. Stop("ask_user") \/ Stop("error")
        BY <3>3 DEF Escalate, AskUser, Abort
      <4> QED
        BY <4>1, StopTypes DEF Reason
    <3> QED
      BY <1>7, <3>1, <3>2, <3>3
  <2> QED
    BY <2>1, <2>2, <2>3, <2>4, <2>5 DEF ControlTypes, TypeOK
<1>8. ASSUME NEW c \in Calls, pc \in {"gate", "exec"}, c = Current,
             NEW type \in TextTypes, Raise(c, type)
      PROVE  TypeOK'
  <2>1. PICK o \in Outcome : RecordAction(c, o)
    BY <1>8 DEF Raise, Outcome
  <2>2. history' \in Seq(ActionRecord)
    BY <2>1, RecordedAfter DEF TypeOK
  <2>3. execs' \in Seq(ToolExecution)
    BY <1>8, AppendExecutionType DEF Raise
  <2>4. RecordTypes'
    BY <1>8, <2>2, <2>3 DEF Raise, TypeOK, RecordTypes
  <2>5. NextCall \/ Stop("error")
    BY <1>8 DEF Raise
  <2>6. ControlTypes'
    BY <1>8, <2>5, NextCallTypes, StopTypes DEF Reason
  <2> QED
    BY <2>4, <2>6 DEF RecordTypes, ControlTypes, TypeOK
<1>9. ASSUME TimedOut \/ ClientGone PROVE TypeOK'
  <2>1. RecordTypes'
    <3>1. successes' \in [Calls -> Nat]
      <4>1. InFlight
        BY <1>9 DEF TimedOut, ClientGone
      <4>2. CASE UNCHANGED successes
        BY <4>2 DEF TypeOK
      <4>3. CASE /\ pc = "exec"
                 /\ successes' = [successes EXCEPT ![Current] = @ + 1]
        BY <4>3, CurrentIsACall, CountUp DEF TypeOK
      <4> QED
        BY <4>1, <4>2, <4>3 DEF InFlight
    <3> QED
      BY <1>9, <3>1 DEF TimedOut, ClientGone, InFlight, TypeOK, RecordTypes
  <2>2. PICK why \in Reason : Stop(why)
    BY <1>9 DEF TimedOut, ClientGone, Reason
  <2> QED
    BY <2>1, <2>2, StopTypes DEF RecordTypes, ControlTypes, TypeOK
<1>10. ASSUME UNCHANGED vars PROVE TypeOK'
  BY <1>10 DEF vars, TypeOK
<1> QED
  BY <1>1, <1>2, <1>3, <1>4, <1>5, <1>6, <1>7, <1>8, <1>9, <1>10
     DEF Next, LoopProgress, HandleFailure, Ended

\* Every reachable state has the shape AgentState and the loop's locals have.
THEOREM TypeCorrect == Spec => []TypeOK
BY TypeInit, TypeNext, PTL DEF Spec

-----------------------------------------------------------------------------
(* The invariant behind the safety properties                              *)

\* Deduplication.  The success of a call is on record while the run goes on,
\* and a call being executed has no success on record: the gate looked, and
\* nothing is recorded between the look and the execution.
DedupInv ==
  /\ NoRepeatedSuccess
  /\ pc # "stopped" =>
       \A c \in Calls : successes[c] > 0 => HasActionBeenCompleted(c)
  /\ pc = "exec" => ~HasActionBeenCompleted(Current)

\* The cap.  Each execution started left a record, but for the one in flight.
CapInv ==
  /\ ExecutionsCapped
  /\ pc # "stopped" =>
       dispatched <= Len(history) + (IF pc = "exec" THEN 1 ELSE 0)

\* Retries and reflections, and who owns them.
RetryInv == RetriesBounded /\ TransportOwnsRestRetries

IInv == TypeOK /\ DedupInv /\ TerminalFailureStops /\ CapInv /\ RetryInv

\* A step that records, counts and executes nothing.
Quiet ==
  /\ pc \notin {"stopped", "exec"} /\ pc' # "exec"
  /\ UNCHANGED <<history, retries, reflections, successes, dispatched>>

\* A failed result is handled in one of six ways.
Recovers(c, f) ==
  \/ RetryStep(c, f) \/ FeedBack(c, f) \/ Escalate(c, f)
  \/ Reflect(c, f) \/ AskUser(c, f) \/ Abort(c, f)

Interrupted == TimedOut \/ ClientGone

\* What a step can be, as far as the invariant can tell.
LEMMA StepCases ==
  ASSUME TypeOK, [Next]_vars
  PROVE  \/ Quiet
         \/ UNCHANGED vars
         \/ Interrupted
         \/ \E c \in Calls :
              /\ c = Current /\ pc \in {"gate", "exec"}
              /\ \/ SkipCall(c) \/ Dispatch(c) \/ Succeed(c)
                 \/ \E f \in FailuresOf(c) : Recovers(c, f)
                 \/ \E type \in TextTypes : Raise(c, type)
<1> USE DEF runState, told, ghosts
<1>1. ASSUME HealthCheckFails \/ HealthCheckPasses \/ SkillMatched
             \/ NoSkillMatched \/ MaxStepsReached \/ LoopDetected \/ NextStep
             \/ ModelFails \/ ModelAnswersText \/ ModelCallsTools \/ Commit
      PROVE  Quiet
  BY <1>1 DEF HealthCheckFails, HealthCheckPasses, SkillMatched,
     NoSkillMatched, MaxStepsReached, LoopDetected, NextStep, ModelFails,
     ModelAnswersText, ModelCallsTools, Commit, Stop, Quiet
<1>2. ASSUME NEW c \in Calls,
             ApprovalNeeded(c) \/ SkipDuplicate(c) \/ RateLimitReached(c)
             \/ WriteToolUnavailable(c) \/ AttemptBudgetExhausted(c)
      PROVE  Quiet
  BY <1>2 DEF ApprovalNeeded, SkipDuplicate, RateLimitReached,
     WriteToolUnavailable, AttemptBudgetExhausted, Fresh, Approved, Stop,
     NextCall, Quiet
<1> QED
  BY <1>1, <1>2 DEF Next, LoopProgress, Gate, HandleFailure, Recovers, Ended,
     Interrupted

\* How a failure is recorded, and where it leaves the run: a terminal outcome
\* only together with the end of the run.
LEMMA RecoveryRecords ==
  ASSUME TypeOK, NEW c \in Calls, NEW f \in FailuresOf(c), Recovers(c, f)
  PROVE  /\ pc = "exec" /\ pc' # "exec"
         /\ UNCHANGED <<successes, dispatched>>
         /\ Len(history') >= Len(history) + 1
         /\ \E o \in Outcome \ {"success"} :
              /\ \A d, S : RecordedAs(d, S)' <=>
                             (RecordedAs(d, S) \/ (d = c /\ o \in S))
              /\ o \in {"non_retryable_failure", "aborted"} => pc' = "stopped"
<1>1. /\ pc = "exec" /\ pc' # "exec"
      /\ UNCHANGED <<successes, dispatched>>
  BY DEF Recovers, RetryStep, FeedBack, Escalate, Reflect, AskUser, Abort,
         FailsWith, Stop, DropStep, NextCall
<1>2. CASE FeedBack(c, f)
  <2>1. "retryable_failure" \in Outcome \ {"success"}
    BY DEF Outcome
  <2> QED
    BY <1>1, <1>2, <2>1, RecordedAfterFeedBack DEF TypeOK
<1>3. CASE ~FeedBack(c, f)
  <2>1. \E o \in Outcome \ {"success"} :
          /\ RecordAction(c, o)
          /\ o \in {"non_retryable_failure", "aborted"} => pc' = "stopped"
    BY <1>3 DEF Recovers, RetryStep, Escalate, Reflect, AskUser, Abort,
                Outcome, Stop
  <2>2. PICK o \in Outcome \ {"success"} :
          /\ RecordAction(c, o)
          /\ o \in {"non_retryable_failure", "aborted"} => pc' = "stopped"
    BY <2>1
  <2>3. /\ Len(history') = Len(history) + 1
        /\ \A d, S : RecordedAs(d, S)' <=>
                       (RecordedAs(d, S) \/ (d = c /\ o \in S))
    BY <2>2, RecordedAfter DEF TypeOK
  <2>4. Len(history) \in Nat
    BY DEF TypeOK
  <2> QED
    BY <1>1, <2>2, <2>3, <2>4
<1> QED
  BY <1>2, <1>3

LEMMA RaiseRecords ==
  ASSUME TypeOK, NEW c \in Calls, NEW type, Raise(c, type)
  PROVE  /\ pc = "exec" /\ pc' # "exec"
         /\ UNCHANGED <<successes, dispatched, retries, reflections>>
         /\ Len(history') = Len(history) + 1
         /\ \E o \in Outcome \ {"success"} :
              /\ \A d, S : RecordedAs(d, S)' <=>
                             (RecordedAs(d, S) \/ (d = c /\ o \in S))
              /\ o \in {"non_retryable_failure", "aborted"} => pc' = "stopped"
<1>1. /\ pc = "exec" /\ pc' # "exec"
      /\ UNCHANGED <<successes, dispatched, retries, reflections>>
  BY DEF Raise, Stop, NextCall, ghosts
<1>2. \E o \in Outcome \ {"success"} :
        /\ RecordAction(c, o)
        /\ o \in {"non_retryable_failure", "aborted"} => pc' = "stopped"
  BY DEF Raise, Outcome, Stop
<1>3. PICK o \in Outcome \ {"success"} :
        /\ RecordAction(c, o)
        /\ o \in {"non_retryable_failure", "aborted"} => pc' = "stopped"
  BY <1>2
<1> QED
  BY <1>1, <1>3, RecordedAfter DEF TypeOK

LEMMA SkipRecords ==
  ASSUME TypeOK, NEW c \in Calls, SkipCall(c)
  PROVE  /\ pc = "gate" /\ pc' # "exec"
         /\ UNCHANGED <<successes, dispatched, retries, reflections>>
         /\ Len(history') = Len(history) + 1
         /\ \A d, S : RecordedAs(d, S)' <=>
                        (RecordedAs(d, S) \/ (d = c /\ "skipped" \in S))
<1>1. RecordAction(c, "skipped") /\ "skipped" \in Outcome
  BY DEF SkipCall, Outcome
<1>2. /\ pc = "gate" /\ pc' # "exec"
      /\ UNCHANGED <<successes, dispatched, retries, reflections>>
  BY DEF SkipCall, Fresh, Approved, NextCall, ghosts
<1> QED
  BY <1>1, <1>2, RecordedAfter DEF TypeOK

LEMMA SuccessRecords ==
  ASSUME TypeOK, NEW c \in Calls, Succeed(c)
  PROVE  /\ pc = "exec" /\ pc' \notin {"exec", "stopped"}
         /\ UNCHANGED <<dispatched, retries, reflections>>
         /\ successes' \in [Calls -> Nat]
         /\ \A d \in Calls :
              successes'[d] = IF d = c THEN successes[d] + 1 ELSE successes[d]
         /\ Len(history') = Len(history) + 1
         /\ \A d, S : RecordedAs(d, S)' <=>
                        (RecordedAs(d, S) \/ (d = c /\ "success" \in S))
<1>1. RecordAction(c, "success") /\ "success" \in Outcome
  BY DEF Succeed, Outcome
<1>2. /\ pc = "exec" /\ pc' \notin {"exec", "stopped"}
      /\ UNCHANGED <<dispatched, retries, reflections>>
      /\ successes' = [successes EXCEPT ![c] = @ + 1]
  BY DEF Succeed, NextCall
<1>3. successes \in [Calls -> Nat]
  BY DEF TypeOK
<1>4. /\ successes' \in [Calls -> Nat]
      /\ \A d \in Calls :
           successes'[d] = IF d = c THEN successes[d] + 1 ELSE successes[d]
  BY <1>2, <1>3, CountUp
<1> QED
  BY <1>1, <1>2, <1>4, RecordedAfter DEF TypeOK

LEMMA InterruptedStops ==
  ASSUME TypeOK, Interrupted
  PROVE  /\ pc # "stopped" /\ pc' = "stopped"
         /\ UNCHANGED <<history, retries, reflections, dispatched>>
         /\ \/ UNCHANGED successes
            \/ /\ pc = "exec" /\ Current \in Calls
               /\ \A d \in Calls : successes'[d] =
                    IF d = Current THEN successes[d] + 1 ELSE successes[d]
<1>1. /\ pc # "stopped" /\ pc' = "stopped"
      /\ UNCHANGED <<history, retries, reflections, dispatched>>
      /\ InFlight
  BY DEF Interrupted, TimedOut, ClientGone, InFlight, Stop, runState
<1>2. successes \in [Calls -> Nat]
  BY DEF TypeOK
<1> QED
  BY <1>1, <1>2, CurrentIsACall, CountUp DEF InFlight

-----------------------------------------------------------------------------
(* The invariant is inductive                                              *)

LEMMA InvInit == Init => IInv
<1> SUFFICES ASSUME Init PROVE IInv
  OBVIOUS
<1>1. TypeOK
  BY TypeInit
<1>2. DedupInv
  BY DEF Init, DedupInv, NoRepeatedSuccess
<1>3. TerminalFailureStops
  BY DEF Init, TerminalFailureStops, HasActionFailedTerminally, RecordedAs
<1>4. CapInv
  BY BudgetAssumption DEF Init, CapInv, ExecutionsCapped
<1>5. RetryInv
  BY RetryAssumption, CallsAssumption
     DEF Init, RetryInv, RetriesBounded, TransportOwnsRestRetries
<1> QED
  BY <1>1, <1>2, <1>3, <1>4, <1>5 DEF IInv

LEMMA DedupNext ==
  ASSUME TypeOK, DedupInv, [Next]_vars
  PROVE  DedupInv'
<1> USE DEF HasActionBeenCompleted
<1>1. CASE Quiet
  BY <1>1 DEF Quiet, DedupInv, NoRepeatedSuccess, RecordedAs
<1>2. CASE UNCHANGED vars
  BY <1>2 DEF vars, runState, ghosts, DedupInv, NoRepeatedSuccess, RecordedAs,
              Current
<1>3. CASE Interrupted
  <2>1. pc' = "stopped" /\ pc # "stopped"
    BY <1>3, InterruptedStops
  <2>2. NoRepeatedSuccess'
    <3>1. CASE UNCHANGED successes
      BY <3>1 DEF DedupInv, NoRepeatedSuccess
    <3>2. CASE /\ pc = "exec" /\ Current \in Calls
               /\ \A d \in Calls : successes'[d] =
                    IF d = Current THEN successes[d] + 1 ELSE successes[d]
      <4>1. successes[Current] = 0
        BY <3>2, <2>1 DEF DedupInv, TypeOK
      <4> QED
        BY <3>2, <4>1 DEF DedupInv, NoRepeatedSuccess
    <3> QED
      BY <1>3, <3>1, <3>2, InterruptedStops
  <2> QED
    BY <2>1, <2>2 DEF DedupInv
<1>4. ASSUME NEW c \in Calls, c = Current, pc \in {"gate", "exec"}
      PROVE  /\ SkipCall(c) => DedupInv'
             /\ Dispatch(c) => DedupInv'
             /\ Succeed(c) => DedupInv'
             /\ \A f \in FailuresOf(c) : Recovers(c, f) => DedupInv'
             /\ \A type \in TextTypes : Raise(c, type) => DedupInv'
  <2>1. ASSUME SkipCall(c) PROVE DedupInv'
    BY <2>1, SkipRecords DEF DedupInv, NoRepeatedSuccess
  <2>2. ASSUME Dispatch(c) PROVE DedupInv'
    <3>1. /\ UNCHANGED <<history, successes, batch, idx>>
          /\ pc = "gate" /\ ~HasActionBeenCompleted(c)
      BY <2>2 DEF Dispatch, Fresh, Approved, runState
    <3> QED
      BY <1>4, <3>1 DEF DedupInv, NoRepeatedSuccess, RecordedAs, Current
  <2>3. ASSUME Succeed(c) PROVE DedupInv'
    <3>1. pc = "exec" /\ successes[c] = 0
      <4>1. pc = "exec" /\ successes[c] \in Nat
        BY <1>4, <2>3 DEF Succeed, TypeOK
      <4>2. ~(successes[c] > 0)
        BY <1>4, <4>1 DEF DedupInv
      <4> QED
        BY <4>1, <4>2
    <3> QED
      BY <2>3, <3>1, SuccessRecords DEF DedupInv, NoRepeatedSuccess
  <2>4. ASSUME NEW f \in FailuresOf(c), Recovers(c, f) PROVE DedupInv'
    BY <2>4, RecoveryRecords DEF DedupInv, NoRepeatedSuccess
  <2>5. ASSUME NEW type \in TextTypes, Raise(c, type) PROVE DedupInv'
    BY <2>5, RaiseRecords DEF DedupInv, NoRepeatedSuccess
  <2> QED
    BY <2>1, <2>2, <2>3, <2>4, <2>5
<1> QED
  BY <1>1, <1>2, <1>3, <1>4, StepCases

LEMMA TerminalNext ==
  ASSUME TypeOK, TerminalFailureStops, [Next]_vars
  PROVE  TerminalFailureStops'
<1> USE DEF HasActionFailedTerminally
<1>1. CASE Quiet
  BY <1>1 DEF Quiet, TerminalFailureStops, RecordedAs
<1>2. CASE UNCHANGED vars
  BY <1>2 DEF vars, runState, TerminalFailureStops, RecordedAs
<1>3. CASE Interrupted
  BY <1>3, InterruptedStops DEF TerminalFailureStops
<1>4. ASSUME NEW c \in Calls, pc \in {"gate", "exec"}
      PROVE  /\ SkipCall(c) => TerminalFailureStops'
             /\ Dispatch(c) => TerminalFailureStops'
             /\ Succeed(c) => TerminalFailureStops'
             /\ \A f \in FailuresOf(c) : Recovers(c, f) => TerminalFailureStops'
             /\ \A type \in TextTypes : Raise(c, type) => TerminalFailureStops'
  <2>1. ASSUME SkipCall(c) PROVE TerminalFailureStops'
    BY <2>1, SkipRecords DEF TerminalFailureStops
  <2>2. ASSUME Dispatch(c) PROVE TerminalFailureStops'
    BY <1>4, <2>2 DEF Dispatch, runState, TerminalFailureStops, RecordedAs
  <2>3. ASSUME Succeed(c) PROVE TerminalFailureStops'
    BY <2>3, SuccessRecords DEF TerminalFailureStops
  <2>4. ASSUME NEW f \in FailuresOf(c), Recovers(c, f)
        PROVE  TerminalFailureStops'
    BY <2>4, RecoveryRecords DEF TerminalFailureStops
  <2>5. ASSUME NEW type \in TextTypes, Raise(c, type)
        PROVE  TerminalFailureStops'
    BY <2>5, RaiseRecords DEF TerminalFailureStops
  <2> QED
    BY <2>1, <2>2, <2>3, <2>4, <2>5
<1> QED
  BY <1>1, <1>2, <1>3, <1>4, StepCases

LEMMA CapNext ==
  ASSUME TypeOK, CapInv, [Next]_vars
  PROVE  CapInv'
<1>0. dispatched \in Nat /\ Len(history) \in Nat /\ MaxAttempts \in Nat
  BY BudgetAssumption DEF TypeOK
<1>0a. Len(history') \in Nat
  BY TypeNext DEF TypeOK
<1>1. CASE Quiet
  BY <1>0, <1>1 DEF Quiet, CapInv, ExecutionsCapped
<1>2. CASE UNCHANGED vars
  BY <1>2 DEF vars, runState, ghosts, CapInv, ExecutionsCapped
<1>3. CASE Interrupted
  BY <1>3, InterruptedStops DEF CapInv, ExecutionsCapped
<1>4. ASSUME NEW c \in Calls, pc \in {"gate", "exec"}
      PROVE  /\ SkipCall(c) => CapInv'
             /\ Dispatch(c) => CapInv'
             /\ Succeed(c) => CapInv'
             /\ \A f \in FailuresOf(c) : Recovers(c, f) => CapInv'
             /\ \A type \in TextTypes : Raise(c, type) => CapInv'
  <2>1. ASSUME SkipCall(c) PROVE CapInv'
    BY <1>0, <2>1, SkipRecords DEF CapInv, ExecutionsCapped
  <2>2. ASSUME Dispatch(c) PROVE CapInv'
    <3>1. /\ pc = "gate" /\ pc' = "exec" /\ history' = history
          /\ dispatched' = dispatched + 1 /\ Len(history) < MaxAttempts
      BY <1>0, <2>2 DEF Dispatch, Fresh, Approved, IsBudgetExhausted, runState
    <3> QED
      BY <1>0, <3>1 DEF CapInv, ExecutionsCapped
  <2>3. ASSUME Succeed(c) PROVE CapInv'
    BY <1>0, <2>3, SuccessRecords DEF CapInv, ExecutionsCapped
  <2>4. ASSUME NEW f \in FailuresOf(c), Recovers(c, f) PROVE CapInv'
    <3>1. /\ pc = "exec" /\ pc' # "exec" /\ dispatched' = dispatched
          /\ Len(history') >= Len(history) + 1
      BY <2>4, RecoveryRecords
    <3> QED
      BY <1>0, <1>0a, <3>1 DEF CapInv, ExecutionsCapped
  <2>5. ASSUME NEW type \in TextTypes, Raise(c, type) PROVE CapInv'
    <3>1. /\ pc = "exec" /\ pc' # "exec" /\ dispatched' = dispatched
          /\ Len(history') = Len(history) + 1
      BY <2>5, RaiseRecords
    <3> QED
      BY <1>0, <3>1 DEF CapInv, ExecutionsCapped
  <2> QED
    BY <2>1, <2>2, <2>3, <2>4, <2>5
<1> QED
  BY <1>1, <1>2, <1>3, <1>4, StepCases

LEMMA RetryNext ==
  ASSUME TypeOK, RetryInv, [Next]_vars
  PROVE  RetryInv'
<1>1. CASE UNCHANGED <<retries, reflections>>
  BY <1>1 DEF RetryInv, RetriesBounded, TransportOwnsRestRetries
<1>2. ASSUME NEW c \in Calls, NEW f \in FailuresOf(c), RetryStep(c, f)
      PROVE  RetryInv'
  <2>1. /\ DecideRecovery(f.type, retries[c]).strategy = "retry"
        /\ ~f.semantic /\ ~f.exhausted
        /\ retries' = [retries EXCEPT ![c] = @ + 1]
        /\ UNCHANGED reflections
    BY <1>2 DEF RetryStep, FailsWith
  <2>2. c \notin RestCalls
    BY <2>1, FailureFacts
  <2>3. retries \in [Calls -> Nat]
    BY DEF TypeOK
  <2>4. retries[c] < MaxRetries
    BY <2>1, <2>3, FailureFacts, RetryBelowMax
  <2>5. \A d \in Calls :
          retries'[d] = IF d = c THEN retries[d] + 1 ELSE retries[d]
    BY <2>1, <2>3, CountUp
  <2> QED
    BY <2>1, <2>2, <2>3, <2>4, <2>5, RetryAssumption, CallsAssumption
       DEF RetryInv, RetriesBounded, TransportOwnsRestRetries
<1>3. ASSUME NEW c \in Calls, NEW f \in FailuresOf(c), Reflect(c, f)
      PROVE  RetryInv'
  <2>1. /\ reflections' = [reflections EXCEPT ![c] = @ + 1]
        /\ reflections[c] < 1
        /\ UNCHANGED retries
    BY <1>3 DEF Reflect, Reflectable, CanReflect
  <2>2. reflections \in [Calls -> Nat]
    BY DEF TypeOK
  <2>3. \A d \in Calls :
          reflections'[d] = IF d = c THEN reflections[d] + 1 ELSE reflections[d]
    BY <2>1, <2>2, CountUp
  <2> QED
    BY <2>1, <2>2, <2>3 DEF RetryInv, RetriesBounded, TransportOwnsRestRetries
<1>4. ASSUME NEW c \in Calls, NEW f \in FailuresOf(c), Recovers(c, f)
      PROVE  RetryInv'
  BY <1>1, <1>2, <1>3, <1>4
     DEF Recovers, FeedBack, Escalate, AskUser, Abort
<1>5. CASE Quiet \/ UNCHANGED vars \/ Interrupted
  BY <1>1, <1>5, InterruptedStops DEF Quiet, vars, runState
<1>6. ASSUME NEW c \in Calls,
             SkipCall(c) \/ Dispatch(c) \/ Succeed(c)
             \/ \E type \in TextTypes : Raise(c, type)
      PROVE  RetryInv'
  BY <1>1, <1>6, SkipRecords, SuccessRecords, RaiseRecords DEF Dispatch, runState
<1> QED
  BY <1>4, <1>5, <1>6, StepCases

LEMMA InvNext == IInv /\ [Next]_vars => IInv'
BY TypeNext, DedupNext, TerminalNext, CapNext, RetryNext DEF IInv

THEOREM Invariance == Spec => []IInv
BY InvInit, InvNext, PTL DEF Spec

-----------------------------------------------------------------------------
(* The safety properties                                                   *)

\* A call takes effect in success at most once in a run, however the model
\* repeats it and wherever the run is cut off.
THEOREM Deduplication == Spec => []NoRepeatedSuccess
<1>1. IInv => NoRepeatedSuccess
  BY DEF IInv, DedupInv
<1> QED
  BY <1>1, Invariance, PTL

\* No run continues past a failure recorded as terminal; the branch of the
\* gate that looks for one is therefore never taken.
THEOREM TerminalFailuresEnd == Spec => []TerminalFailureStops
<1>1. IInv => TerminalFailureStops
  BY DEF IInv
<1> QED
  BY <1>1, Invariance, PTL

\* Whatever the budgets, executions started stay below the attempt cap.
THEOREM AttemptCap == Spec => []ExecutionsCapped
<1>1. IInv => ExecutionsCapped
  BY DEF IInv, CapInv
<1> QED
  BY <1>1, Invariance, PTL

\* Retries of one call stay within max_retries and its reflections within one
\* over all the steps of the run.
THEOREM RetryBound == Spec => []RetriesBounded
<1>1. IInv => RetriesBounded
  BY DEF IInv, RetryInv
<1> QED
  BY <1>1, Invariance, PTL

\* The agent retries no call that goes through MCPClient: the client alone does,
\* whatever the failure, its classification and the retry budget.
THEOREM RetryOwnership == Spec => []TransportOwnsRestRetries
<1>1. IInv => TransportOwnsRestRetries
  BY DEF IInv, RetryInv
<1> QED
  BY <1>1, Invariance, PTL

-----------------------------------------------------------------------------
(* What becomes of the results of tool calls: every success reaches the    *)
(* model unless it was in a step that a retry or a reflection dropped, and *)
(* in a run that does not stream, every call of a committed step has one   *)
(* answer.                                                                 *)

\* The step's answer of the model is being worked through.
Busy == pc \in {"gate", "exec", "commit"}

Completed(c) == HasActionBeenCompleted(c)

-----------------------------------------------------------------------------
(* Executions of a step                                                    *)

\* An execution appended is the last one; the others stay.
LEMMA ExecutionAppended ==
  ASSUME TypeOK, NEW c \in Calls, NEW ok \in BOOLEAN, AppendExecution(c, ok)
  PROVE  /\ DOMAIN execs' = DOMAIN execs \cup {Len(execs) + 1}
         /\ Len(execs) + 1 \notin DOMAIN execs
         /\ \A i \in DOMAIN execs : execs'[i] = execs[i]
         /\ execs'[Len(execs) + 1].pos = idx
         /\ execs'[Len(execs) + 1].call = c
         /\ execs'[Len(execs) + 1].ok = ok
<1> DEFINE e == [pos |-> idx, call |-> c, ok |-> ok]
<1>1. e \in ToolExecution /\ execs \in Seq(ToolExecution)
  BY ExecutionType DEF TypeOK
<1>2. execs' = Append(execs, e)
  BY DEF AppendExecution
<1>3. e.pos = idx /\ e.call = c /\ e.ok = ok
  OBVIOUS
<1>4. Len(execs) + 1 \notin DOMAIN execs
  BY <1>1
<1> HIDE DEF e
<1> QED
  BY <1>1, <1>2, <1>3, <1>4, AppendKeeps

-----------------------------------------------------------------------------
(* Every call has one answer                                               *)

Answers(p) == { i \in DOMAIN execs : execs[i].pos = p }

Answered(p) ==
  \/ \E i \in Answers(p) : Answers(p) = {i} /\ execs[i].call = batch[p]
  \/ Answers(p) = {} /\ Completed(batch[p])

\* The calls before the one being handled are answered, and only those are.
AnswerInv ==
  Busy => /\ \A i \in DOMAIN execs : execs[i].pos < idx
          /\ \A p \in 1 .. Len(batch) : p < idx => Answered(p)
          /\ pc = "commit" => idx > Len(batch)

\* Executions have the position of a call.
LEMMA Positions ==
  ASSUME TypeOK
  PROVE  \A i \in DOMAIN execs : execs[i].pos \in Nat
<1> SUFFICES ASSUME NEW i \in DOMAIN execs PROVE execs[i].pos \in Nat
  OBVIOUS
<1>1. execs[i] \in ToolExecution
  BY DEF TypeOK
<1> QED
  BY <1>1 DEF ToolExecution

\* The call just handled is answered, the ones before it stay answered.
LEMMA AnswersAppended ==
  ASSUME TypeOK, AnswerInv, pc \in {"gate", "exec"}, NextCall,
         NEW ok \in BOOLEAN, AppendExecution(Current, ok),
         \A d \in Calls : Completed(d) => Completed(d)'
  PROVE  AnswerInv'
<1> DEFINE n == Len(execs) + 1
<1>1. /\ DOMAIN execs' = DOMAIN execs \cup {n}
      /\ n \notin DOMAIN execs
      /\ \A i \in DOMAIN execs : execs'[i] = execs[i]
      /\ execs'[n].pos = idx
      /\ execs'[n].call = batch[idx]
  BY CurrentIsACall, ExecutionAppended DEF Current
<1>2. /\ batch' = batch /\ idx' = idx + 1 /\ idx \in 1 .. Len(batch) /\ idx \in Nat
      /\ pc' = IF idx < Len(batch) THEN "gate" ELSE "commit"
      /\ batch \in Seq(Calls) /\ execs \in Seq(ToolExecution)
  BY DEF NextCall, TypeOK
<1>3. /\ \A i \in DOMAIN execs : execs[i].pos < idx /\ execs[i].pos \in Nat
      /\ \A p \in 1 .. Len(batch) : p < idx => Answered(p)
  BY Positions DEF AnswerInv, Busy
<1> HIDE DEF n
<1>4. \A i \in DOMAIN execs' : execs'[i].pos < idx'
  BY <1>1, <1>2, <1>3
<1>5. ASSUME NEW p \in 1 .. Len(batch), p < idx PROVE Answered(p)'
  <2>1. Answers(p)' = Answers(p)
    BY <1>1, <1>2, <1>5 DEF Answers
  <2>2. batch[p] \in Calls
    BY <1>2
  <2>3. \A i \in Answers(p) : execs'[i] = execs[i]
    BY <1>1 DEF Answers
  <2> QED
    BY <1>2, <1>3, <1>5, <2>1, <2>2, <2>3 DEF Answered
<1> PICK q \in Nat : q = idx
  BY <1>2
<1>6. Answered(q)'
  <2>1. Answers(q)' = {n}
    <3>1. \A i \in DOMAIN execs : execs'[i].pos # q
      BY <1>1, <1>2, <1>3
    <3>2. \A i \in DOMAIN execs' : execs'[i].pos = q <=> i = n
      BY <1>1, <3>1
    <3> QED
      BY <1>1, <3>2 DEF Answers
  <2>2. execs'[n].call = batch'[q]
    BY <1>1, <1>2
  <2> QED
    BY <2>1, <2>2 DEF Answered
<1>7. \A p \in 1 .. Len(batch') : p < idx' => Answered(p)'
  <2> SUFFICES ASSUME NEW p \in 1 .. Len(batch'), p < idx' PROVE Answered(p)'
    OBVIOUS
  <2>1. p \in 1 .. Len(batch) /\ (p < idx \/ p = q)
    BY <1>2
  <2> QED
    BY <1>5, <1>6, <2>1
<1>8. pc' = "commit" => idx' > Len(batch')
  BY <1>2
<1> QED
  BY <1>4, <1>7, <1>8 DEF AnswerInv

\* A duplicate is answered by the success on record.
LEMMA DuplicateAnswered ==
  ASSUME TypeOK, AnswerInv, SkipDuplicate(Current)
  PROVE  AnswerInv'
<1>1. /\ UNCHANGED <<execs, history, batch>> /\ idx' = idx + 1
      /\ pc = "gate" /\ Completed(batch[idx])
      /\ pc' = IF idx < Len(batch) THEN "gate" ELSE "commit"
  BY DEF SkipDuplicate, Approved, NextCall, runState, Completed, Current
<1>2. /\ idx \in 1 .. Len(batch) /\ batch \in Seq(Calls)
      /\ execs \in Seq(ToolExecution)
  BY <1>1 DEF TypeOK
<1>3. /\ \A i \in DOMAIN execs : execs[i].pos < idx /\ execs[i].pos \in Nat
      /\ \A p \in 1 .. Len(batch) : p < idx => Answered(p)
  BY <1>1, Positions DEF AnswerInv, Busy
<1>4. Answered(idx)
  BY <1>1, <1>2, <1>3 DEF Answered, Answers
<1>5. \A p \in 1 .. Len(batch) : Answered(p) => Answered(p)'
  BY <1>1 DEF Answered, Answers, Completed, HasActionBeenCompleted, RecordedAs
<1> QED
  BY <1>1, <1>2, <1>3, <1>4, <1>5 DEF AnswerInv

\* What is on record as completed stays so.
LEMMA CompletedStays ==
  ASSUME TypeOK, [Next]_vars
  PROVE  \A d \in Calls : Completed(d) => Completed(d)'
<1> USE DEF Completed, HasActionBeenCompleted
<1>1. CASE Quiet \/ UNCHANGED vars \/ Interrupted
  BY <1>1, InterruptedStops DEF Quiet, vars, runState, RecordedAs
<1>2. ASSUME NEW c \in Calls, SkipCall(c) \/ Dispatch(c) \/ Succeed(c)
      PROVE  \A d \in Calls : Completed(d) => Completed(d)'
  BY <1>2, SkipRecords, SuccessRecords DEF Dispatch, runState, RecordedAs
<1>3. ASSUME NEW c \in Calls, NEW f \in FailuresOf(c), Recovers(c, f)
      PROVE  \A d \in Calls : Completed(d) => Completed(d)'
  BY <1>3, RecoveryRecords
<1>4. ASSUME NEW c \in Calls, NEW type, Raise(c, type)
      PROVE  \A d \in Calls : Completed(d) => Completed(d)'
  BY <1>4, RaiseRecords
<1> QED
  BY <1>1, <1>2, <1>3, <1>4, StepCases

\* How a step moves through a batch, as far as the answers can tell.
LEMMA BatchCases ==
  ASSUME TypeOK, [Next]_vars
  PROVE  \/ pc' \notin {"gate", "exec", "commit"}
         \/ ModelCallsTools \/ UNCHANGED vars
         \/ /\ pc \in {"gate", "exec"} /\ Current \in Calls
            /\ \/ SkipDuplicate(Current) \/ Dispatch(Current)
               \/ \E f \in FailuresOf(Current) : FeedBack(Current, f)
               \/ NextCall /\ \E ok \in BOOLEAN : AppendExecution(Current, ok)
<1>1. ASSUME HealthCheckFails \/ HealthCheckPasses \/ SkillMatched
             \/ NoSkillMatched \/ MaxStepsReached \/ LoopDetected \/ NextStep
             \/ ModelFails \/ ModelAnswersText \/ Commit \/ Interrupted
      PROVE  pc' \notin {"gate", "exec", "commit"}
  BY <1>1 DEF HealthCheckFails, HealthCheckPasses, SkillMatched,
     NoSkillMatched, MaxStepsReached, LoopDetected, NextStep, ModelFails,
     ModelAnswersText, Commit, Interrupted, TimedOut, ClientGone, Stop
<1>2. ASSUME NEW c \in Calls, c = Current,
             Gate(c) \/ Succeed(c) \/ HandleFailure(c)
      PROVE  \/ pc' \notin {"gate", "exec", "commit"}
             \/ SkipDuplicate(c) \/ Dispatch(c)
             \/ \E f \in FailuresOf(c) : FeedBack(c, f)
             \/ NextCall /\ \E ok \in BOOLEAN : AppendExecution(c, ok)
  <2>1. ASSUME Gate(c) \/ Succeed(c)
        PROVE  \/ pc' \notin {"gate", "exec", "commit"}
               \/ SkipDuplicate(c) \/ Dispatch(c)
               \/ NextCall /\ \E ok \in BOOLEAN : AppendExecution(c, ok)
    BY <2>1 DEF Gate, ApprovalNeeded, RateLimitReached, SkipCall,
       WriteToolUnavailable, AttemptBudgetExhausted, Succeed, Stop
  <2>2. ASSUME NEW f \in FailuresOf(c),
               RetryStep(c, f) \/ Escalate(c, f) \/ Reflect(c, f)
               \/ AskUser(c, f) \/ Abort(c, f)
        PROVE  pc' \notin {"gate", "exec", "commit"}
    BY <2>2 DEF RetryStep, Escalate, Reflect, AskUser, Abort, Stop, DropStep
  <2>3. ASSUME NEW type, Raise(c, type)
        PROVE  \/ pc' \notin {"gate", "exec", "commit"}
               \/ NextCall /\ \E ok \in BOOLEAN : AppendExecution(c, ok)
    BY <2>3 DEF Raise, Stop
  <2> QED
    BY <1>2, <2>1, <2>2, <2>3 DEF HandleFailure
<1> QED
  BY <1>1, <1>2 DEF Next, LoopProgress, Ended, Interrupted

LEMMA AnswerNext ==
  ASSUME ~Streaming, TypeOK, AnswerInv, [Next]_vars
  PROVE  AnswerInv'
<1>1. CASE pc' \notin {"gate", "exec", "commit"}
  BY <1>1 DEF AnswerInv, Busy
<1>2. CASE ModelCallsTools
  BY <1>2 DEF ModelCallsTools, AnswerInv
<1>3. CASE UNCHANGED vars
  BY <1>3 DEF vars, runState, AnswerInv, Busy, Answered, Answers, Completed,
              HasActionBeenCompleted, RecordedAs
<1>4. ASSUME pc \in {"gate", "exec"}, Current \in Calls PROVE
        /\ SkipDuplicate(Current) => AnswerInv'
        /\ Dispatch(Current) => AnswerInv'
        /\ \A f \in FailuresOf(Current) : FeedBack(Current, f) => AnswerInv'
        /\ \A ok \in BOOLEAN : NextCall /\ AppendExecution(Current, ok) => AnswerInv'
  <2>1. ASSUME Dispatch(Current) PROVE AnswerInv'
    BY <1>4, <2>1 DEF Dispatch, runState, AnswerInv, Busy, Answered, Answers, Completed,
       HasActionBeenCompleted, RecordedAs
  <2>2. ASSUME NEW f \in FailuresOf(Current), FeedBack(Current, f) PROVE AnswerInv'
    <3>1. NextCall /\ AppendExecution(Current, FALSE)
      BY <2>2 DEF FeedBack, AppendExecution
    <3> QED
      BY <1>4, <3>1, AnswersAppended, CompletedStays
  <2> QED
    BY <1>4, <2>1, <2>2, DuplicateAnswered, AnswersAppended, CompletedStays
<1> QED
  BY <1>1, <1>2, <1>3, <1>4, BatchCases

\* In a run that does not stream, a committed step answers each of its tool
\* calls once: AnswersMatchCalls.  A streaming run answers an error that is fed
\* back twice (agentic_service.py:1320).
THEOREM AnswersMatched ==
  ASSUME ~Streaming
  PROVE  Spec => []AnswersMatchCalls
<1>1. Init => AnswerInv
  BY DEF Init, AnswerInv, Busy
<1>2. TypeOK /\ AnswerInv => AnswersMatchCalls
  <2> SUFFICES ASSUME TypeOK, AnswerInv, pc = "commit",
                      NEW p \in 1 .. Len(batch)
               PROVE  Answered(p)
    BY DEF AnswersMatchCalls, Answered, Answers, Completed
  <2> QED
    BY DEF AnswerInv, Busy, TypeOK
<1>3. TypeOK /\ AnswerInv /\ [Next]_vars => AnswerInv'
  BY AnswerNext
<1> QED
  BY <1>1, <1>2, <1>3, TypeCorrect, PTL DEF Spec

-----------------------------------------------------------------------------
(* Every success reaches the model                                         *)

Pending(c) == Busy /\ \E i \in DOMAIN execs : execs[i].call = c /\ execs[i].ok

\* A success the model was not told of is one of this step's executions, or
\* went with a dropped step.
ResultInv ==
  pc # "stopped" =>
    \A c \in Calls : Completed(c) => c \in context \cup forgotten \/ Pending(c)

\* What is pending in a step that is dropped is forgotten.
LEMMA DroppedAfter ==
  ASSUME TypeOK, ResultInv, NEW c \in Calls, NEW f \in FailuresOf(c),
         RetryStep(c, f) \/ Reflect(c, f)
  PROVE  ResultInv'
<1>1. pc = "exec" /\ context' = context /\ forgotten' = forgotten \cup Succeeded
  BY DEF RetryStep, Reflect, FailsWith, DropStep, Forget
<1>2. \A d \in Calls : Completed(d)' => Completed(d)
  BY RecoveryRecords DEF Recovers, Completed, HasActionBeenCompleted
<1>3. \A d \in Calls : Pending(d) => d \in Succeeded
  BY DEF Pending, Succeeded
<1> QED
  BY <1>1, <1>2, <1>3 DEF ResultInv

\* An execution appended keeps what is pending so.
LEMMA PendingAppended ==
  ASSUME TypeOK, pc \in {"gate", "exec"}, NextCall,
         NEW c \in Calls, NEW ok \in BOOLEAN, AppendExecution(c, ok)
  PROVE  /\ \A d \in Calls : Pending(d) => Pending(d)'
         /\ ok => Pending(c)'
<1>1. pc' \in {"gate", "commit"}
  BY DEF NextCall
<1> QED
  BY <1>1, ExecutionAppended DEF Pending, Busy

\* The step records no success, and what was pending is pending still.
Preserved ==
  /\ \A c \in Calls : Completed(c)' => Completed(c)
  /\ \A c \in Calls : Pending(c) => Pending(c)'
  /\ UNCHANGED told

LEMMA ResultPreserved ==
  ASSUME TypeOK, ResultInv, Preserved, pc # "stopped"
  PROVE  ResultInv'
BY DEF ResultInv, Preserved, told

LEMMA FeedBackPreserves ==
  ASSUME TypeOK, NEW c \in Calls, NEW f \in FailuresOf(c), FeedBack(c, f)
  PROVE  Preserved
<1>1. pc = "exec" /\ pc' \in {"gate", "commit"}
      /\ UNCHANGED told
  BY DEF FeedBack, FailsWith, NextCall
<1>2. \A d \in Calls : Completed(d)' => Completed(d)
  BY RecordedAfterFeedBack DEF TypeOK, Completed, HasActionBeenCompleted
<1> DEFINE e == [pos |-> idx, call |-> c, ok |-> FALSE]
<1>3. e \in ToolExecution /\ execs \in Seq(ToolExecution)
  BY ExecutionType DEF TypeOK
<1>4. execs' = execs \o <<e, e>> \/ execs' = Append(execs, e)
  BY DEF FeedBack
<1> HIDE DEF e
<1>5. DOMAIN execs \subseteq DOMAIN execs' /\ \A i \in DOMAIN execs : execs'[i] = execs[i]
  <2>1. CASE execs' = execs \o <<e, e>>
    BY <1>3, <2>1
  <2>2. CASE execs' = Append(execs, e)
    BY <1>3, <2>2
  <2> QED
    BY <1>4, <2>1, <2>2
<1> QED
  BY <1>1, <1>2, <1>5 DEF Preserved, Pending, Busy

LEMMA ResultNext ==
  ASSUME TypeOK, ResultInv, [Next]_vars
  PROVE  ResultInv'
<1> USE DEF Completed, HasActionBeenCompleted
<1>1. CASE pc' = "stopped"
  BY <1>1 DEF ResultInv
<1>2. CASE UNCHANGED vars
  BY <1>2 DEF vars, runState, told, ResultInv, Pending, Busy, RecordedAs
<1>3. CASE HealthCheckPasses \/ NoSkillMatched \/ NextStep \/ ModelCallsTools
  BY <1>3 DEF HealthCheckPasses, NoSkillMatched, NextStep, ModelCallsTools, runState, told,
     ResultInv, Pending, Busy, RecordedAs
<1>4. CASE Commit
  <2>1. /\ pc = "commit" /\ UNCHANGED <<history, forgotten>>
        /\ context' = context \cup Succeeded
    BY <1>4 DEF Commit, runState
  <2>2. \A c \in Calls : Pending(c) => c \in Succeeded
    BY DEF Pending, Succeeded
  <2> QED
    BY <2>1, <2>2 DEF ResultInv, RecordedAs
<1>5. ASSUME NEW c \in Calls, c = Current, pc \in {"gate", "exec"}, pc' # "stopped",
             Gate(c) \/ Succeed(c) \/ HandleFailure(c)
      PROVE  ResultInv'
  <2>1. CASE SkipDuplicate(c) \/ Dispatch(c)
    <3>1. /\ UNCHANGED <<history, execs, told>>
          /\ pc' \in {"gate", "exec", "commit"}
      BY <2>1 DEF SkipDuplicate, Dispatch, NextCall, runState
    <3> QED
      BY <1>5, <3>1, ResultPreserved DEF Preserved, Pending, Busy, RecordedAs
  <2>2. CASE SkipCall(c)
    <3>1. NextCall /\ AppendExecution(c, FALSE)
      BY <2>2 DEF SkipCall
    <3>2. UNCHANGED told
      BY <3>1 DEF NextCall
    <3> QED
      BY <1>5, <2>2, <3>1, <3>2, SkipRecords, PendingAppended, ResultPreserved DEF Preserved
  <2>3. CASE Succeed(c)
    <3>1. NextCall /\ AppendExecution(c, TRUE)
      BY <2>3 DEF Succeed
    <3>2. UNCHANGED told
      BY <3>1 DEF NextCall
    <3>3. \A d \in Calls : Completed(d)' => Completed(d) \/ d = c
      BY <2>3, SuccessRecords
    <3>4. /\ \A d \in Calls : Pending(d) => Pending(d)'
          /\ Pending(c)'
      BY <1>5, <3>1, PendingAppended
    <3> QED
      BY <1>5, <3>1, <3>2, <3>3, <3>4 DEF ResultInv, told
  <2>4. ASSUME NEW f \in FailuresOf(c), Recovers(c, f) PROVE ResultInv'
    <3>1. CASE RetryStep(c, f) \/ Reflect(c, f)
      BY <3>1, DroppedAfter
    <3>2. CASE FeedBack(c, f)
      BY <1>5, <3>2, FeedBackPreserves, ResultPreserved
    <3> QED
      BY <1>5, <2>4, <3>1, <3>2 DEF Recovers, Escalate, AskUser, Abort, Stop
  <2>5. ASSUME NEW type, Raise(c, type) PROVE ResultInv'
    <3>1. NextCall /\ AppendExecution(c, FALSE)
      BY <1>5, <2>5 DEF Raise, Stop
    <3>2. UNCHANGED told
      BY <3>1 DEF NextCall
    <3> QED
      BY <1>5, <2>5, <3>1, <3>2, RaiseRecords, PendingAppended, ResultPreserved DEF Preserved
  <2> QED
    BY <1>5, <2>1, <2>2, <2>3, <2>4, <2>5 DEF Gate, HandleFailure, Recovers,
       ApprovalNeeded, RateLimitReached, WriteToolUnavailable, AttemptBudgetExhausted, Stop
<1>6. CASE \/ HealthCheckFails \/ SkillMatched \/ MaxStepsReached \/ LoopDetected
           \/ ModelFails \/ ModelAnswersText \/ TimedOut \/ ClientGone
  BY <1>1, <1>6 DEF HealthCheckFails, SkillMatched, MaxStepsReached, LoopDetected,
     ModelFails, ModelAnswersText, TimedOut, ClientGone, Stop
<1> QED
  BY <1>1, <1>2, <1>3, <1>4, <1>5, <1>6 DEF Next, LoopProgress, Ended

\* No success is lost between the tool and the model, whatever else fails in
\* the step it happened in, but with a step that a retry or a reflection drops:
\* ResultsReachModel.
THEOREM ResultsReached == Spec => []ResultsReachModel
<1>1. Init => ResultInv
  BY DEF Init, ResultInv, Completed, HasActionBeenCompleted, RecordedAs
<1>2. ResultInv => ResultsReachModel
  BY DEF ResultInv, ResultsReachModel, Pending, Busy, Completed
<1>3. TypeOK /\ ResultInv /\ [Next]_vars => ResultInv'
  BY ResultNext
<1> QED
  BY <1>1, <1>2, <1>3, TypeCorrect, PTL DEF Spec

\* A run behind POST /chat, which does not stream, owes no answer and loses no
\* result but those of dropped steps: Sound.
THEOREM Soundness ==
  ASSUME ~Streaming
  PROVE  Spec => []Sound
BY TypeCorrect, AnswersMatched, ResultsReached, PTL DEF Sound

-----------------------------------------------------------------------------
(* A model that repeats itself is cut off                                  *)

\* The tried records of a history, and those of its last call on end.
TriedIn(h) == { i \in DOMAIN h : h[i].outcome # "skipped" }

StreakIn(h) ==
  { i \in TriedIn(h) : \A j \in TriedIn(h) : i <= j => h[i].call = h[j].call }

StreakLength(h) == Cardinality(StreakIn(h))

LEMMA StreakNow == Cardinality(Streak(Tried)) = StreakLength(history)
BY DEF Streak, Tried, StreakLength, StreakIn, TriedIn

LEMMA StreakFinite ==
  ASSUME NEW h \in Seq(ActionRecord)
  PROVE  IsFiniteSet(StreakIn(h)) /\ StreakLength(h) \in Nat
<1>1. StreakIn(h) \subseteq DOMAIN h
  BY DEF StreakIn, TriedIn
<1>2. IsPositions(StreakIn(h))
  BY <1>1, SomePositions
<1> QED
  BY <1>2, PositionFacts DEF StreakLength

\* One more record makes the streak longer by one at most.
LEMMA StreakAppended ==
  ASSUME NEW h \in Seq(ActionRecord), NEW e \in ActionRecord
  PROVE  StreakLength(Append(h, e)) <= StreakLength(h) + 1
<1> DEFINE g == Append(h, e)
<1>1. /\ DOMAIN g = DOMAIN h \cup {Len(h) + 1}
      /\ \A i \in DOMAIN h : g[i] = h[i]
  BY AppendKeeps
<1> HIDE DEF g
<1>2. TriedIn(h) \subseteq TriedIn(g) /\ TriedIn(g) \subseteq TriedIn(h) \cup {Len(h) + 1}
  BY <1>1 DEF TriedIn
<1>3. \A i \in TriedIn(h) : g[i] = h[i]
  BY <1>1 DEF TriedIn
<1>4. StreakIn(g) \in SUBSET (StreakIn(h) \cup {Len(h) + 1})
  BY <1>2, <1>3 DEF StreakIn
<1> DEFINE more == StreakIn(h) \cup {Len(h) + 1}
<1>5. IsFiniteSet(more) /\ Cardinality(more) \in Nat /\ Cardinality(more) <= StreakLength(h) + 1
  BY StreakFinite, FS_AddElement DEF StreakLength
<1>6. StreakIn(g) \in SUBSET more
  BY <1>4
<1> HIDE DEF more
<1>7. IsFiniteSet(StreakIn(g)) /\ StreakLength(g) <= Cardinality(more)
  BY <1>5, <1>6, FS_Subset DEF StreakLength
<1>8. StreakLength(g) \in Nat /\ StreakLength(h) \in Nat
  BY <1>7, StreakFinite, FS_CardinalityType DEF StreakLength
<1> QED
  BY <1>5, <1>7, <1>8 DEF g

\* A streak of two windows is a loop.
LEMMA LongStreakDetected ==
  ASSUME TypeOK, ~DetectLoop
  PROVE  StreakLength(history) <= 2 * LoopWindow - 1
<1> DEFINE S == TriedIn(history)
           T == StreakIn(history)
           n == Cardinality(S)
           t == Cardinality(T)
           actions == At(history, Tried)
<1>1. Tried = S /\ T \subseteq S /\ S \subseteq DOMAIN history
  BY DEF Tried, TriedIn, StreakIn
<1>2. IsPositions(S)
  BY <1>1, SomePositions DEF TypeOK
<1>3. n \in Nat /\ t \in Nat /\ t <= n /\ LoopWindow \in Nat \ {0}
  <2>1. history \in Seq(ActionRecord)
    BY DEF TypeOK
  <2>2. IsFiniteSet(S) /\ n \in Nat
    BY <1>2, PositionFacts
  <2> QED
    BY <1>1, <2>1, <2>2, StreakFinite, FS_Subset, BudgetAssumption DEF StreakLength
<1>4. \A i \in T : \A j \in S : i <= j => j \in T
  <2>1. \A i \in S : i \in Nat
    BY <1>2, PositionFacts
  <2> QED
    BY <2>1 DEF StreakIn
<1>5. \A i, j \in T : history[i].call = history[j].call
  <2>1. \A i \in S : i \in Nat
    BY <1>2, PositionFacts
  <2> QED
    BY <2>1, <1>1 DEF StreakIn
<1>6. Len(actions) = n /\ \A k \in 1..n : actions[k] = history[Nth(S, k)]
  BY <1>1, <1>3 DEF At
<1>7. \A k \in 1..n : k > n - t => Nth(S, k) \in T
  BY <1>1, <1>2, <1>4, LastRanks
<1>8. SUFFICES ASSUME t >= 2 * LoopWindow PROVE FALSE
  BY <1>3 DEF StreakLength
<1>9. n >= 2 * LoopWindow
  BY <1>3, <1>8
<1> HIDE DEF actions, n, t, S, T
<1>10. ASSUME NEW i \in 0 .. LoopWindow - 1
       PROVE  actions[n - i].call = actions[n - LoopWindow - i].call
  <2>1. /\ n - i \in 1..n /\ n - i > n - t
        /\ n - LoopWindow - i \in 1..n /\ n - LoopWindow - i > n - t
    BY <1>3, <1>8, <1>9
  <2>2. Nth(S, n - i) \in T /\ Nth(S, n - LoopWindow - i) \in T
    BY <1>7, <2>1
  <2>3. /\ actions[n - i] = history[Nth(S, n - i)]
        /\ actions[n - LoopWindow - i] = history[Nth(S, n - LoopWindow - i)]
    BY <1>6, <2>1
  <2> QED
    BY <1>5, <2>2, <2>3
<1>11. DetectLoop
  BY <1>6, <1>9, <1>10 DEF DetectLoop, actions
<1> QED
  BY <1>11

Each == IF Streaming THEN 2 ELSE 1

\* The calls of this answer that may have left records by now.
Worked == IF Busy THEN idx - 1
          ELSE IF pc \in {"head", "stopped"} THEN MaxBatch ELSE 0

\* Before a step is started the streak is short of a loop, and each call of
\* its answer adds a record, or two.
StreakInv ==
  /\ Len(batch) <= MaxBatch
  /\ Busy => idx \in 1 .. Len(batch) + 1
  /\ StreakLength(history) <= 2 * LoopWindow - 1 + Each * Worked

\* Another call leaves no more than its share.
LEMMA Shares ==
  ASSUME NEW m \in Nat, NEW n \in Nat, m <= n
  PROVE  /\ Each * m \in Nat /\ Each * m <= Each * n
         /\ Each * (m + 1) = Each * m + Each
         /\ Each \in {1, 2}
BY DEF Each

\* What a call that was handled adds to the records.
Adds(n) ==
  \/ history' = history /\ n = 0
  \/ \E e \in ActionRecord : history' = Append(history, e) /\ n = 1
  \/ \E e \in ActionRecord : history' = Append(Append(history, e), e) /\ n = 2

LEMMA AddsStreak ==
  ASSUME history \in Seq(ActionRecord), NEW n, Adds(n)
  PROVE  /\ n \in {0, 1, 2}
         /\ StreakLength(history') \in Nat
         /\ StreakLength(history') <= StreakLength(history) + n
<1>1. CASE history' = history /\ n = 0
  BY <1>1, StreakFinite
<1>2. ASSUME NEW e \in ActionRecord, history' = Append(history, e), n = 1
      PROVE  /\ StreakLength(history') \in Nat
             /\ StreakLength(history') <= StreakLength(history) + n
  <2>1. Append(history, e) \in Seq(ActionRecord)
    BY AppendKeeps
  <2> QED
    BY <1>2, <2>1, StreakAppended, StreakFinite
<1>3. ASSUME NEW e \in ActionRecord, history' = Append(Append(history, e), e), n = 2
      PROVE  /\ StreakLength(history') \in Nat
             /\ StreakLength(history') <= StreakLength(history) + n
  <2> DEFINE h == Append(history, e)
  <2>1. h \in Seq(ActionRecord) /\ Append(h, e) \in Seq(ActionRecord)
    BY AppendKeeps
  <2>2. StreakLength(h) <= StreakLength(history) + 1
    BY StreakAppended
  <2> HIDE DEF h
  <2>3. StreakLength(Append(h, e)) <= StreakLength(h) + 1
    BY <2>1, StreakAppended
  <2>4. /\ StreakLength(history) \in Nat /\ StreakLength(h) \in Nat
        /\ StreakLength(Append(h, e)) \in Nat
    BY <2>1, StreakFinite
  <2>5. history' = Append(h, e)
    BY <1>3 DEF h
  <2> QED
    BY <1>3, <2>2, <2>3, <2>4, <2>5
<1> QED
  BY <1>1, <1>2, <1>3 DEF Adds

\* A call is handled and the next one is due, or the step is over.
LEMMA HandledCalls ==
  ASSUME TypeOK, NEW c \in Calls, pc \in {"gate", "exec"},
         Gate(c) \/ Succeed(c) \/ HandleFailure(c)
  PROVE  \/ Dispatch(c)
         \/ NextCall /\ \E n \in 0 .. Each : Adds(n)
         \/ /\ pc' \in {"head", "stopped"} /\ batch' \in {batch, <<>>}
            /\ \E n \in {0, 1} : Adds(n)
<1>1. \A o \in Outcome : RecordAction(c, o) => Adds(1)
  BY EntryType DEF RecordAction, Adds
<1>2. Each \in {1, 2}
  BY DEF Each
<1>3. {"success", "retryable_failure", "non_retryable_failure", "skipped", "aborted"}
        \subseteq Outcome
  BY DEF Outcome
<1>4. ASSUME ApprovalNeeded(c) \/ RateLimitReached(c) \/ WriteToolUnavailable(c)
             \/ AttemptBudgetExhausted(c)
      PROVE  pc' = "stopped" /\ batch' = batch /\ Adds(0)
  BY <1>4 DEF ApprovalNeeded, RateLimitReached, WriteToolUnavailable,
              AttemptBudgetExhausted, Stop, runState, Adds
<1>5. ASSUME SkipDuplicate(c) PROVE NextCall /\ Adds(0)
  BY <1>5 DEF SkipDuplicate, runState, Adds
<1>6. ASSUME SkipCall(c) \/ Succeed(c) PROVE NextCall /\ Adds(1)
  BY <1>1, <1>3, <1>6 DEF SkipCall, Succeed
<1>7. ASSUME NEW f \in FailuresOf(c),
             RetryStep(c, f) \/ Escalate(c, f) \/ Reflect(c, f) \/ AskUser(c, f)
             \/ Abort(c, f)
      PROVE  pc' \in {"head", "stopped"} /\ batch' \in {batch, <<>>} /\ Adds(1)
  BY <1>1, <1>3, <1>7 DEF RetryStep, Escalate, Reflect, AskUser, Abort, Stop, DropStep
<1>8. ASSUME NEW f \in FailuresOf(c), FeedBack(c, f)
      PROVE  NextCall /\ Adds(Each)
  <2>1. Entry(c, "retryable_failure") \in ActionRecord /\ history \in Seq(ActionRecord)
    BY <1>3, EntryType DEF TypeOK
  <2>2. NextCall /\ IF Streaming
                    THEN history' = history \o <<Entry(c, "retryable_failure"),
                                                 Entry(c, "retryable_failure")>>
                    ELSE history' = Append(history, Entry(c, "retryable_failure"))
    BY <1>8 DEF FeedBack
  <2> QED
    BY <2>1, <2>2, TwoAppends DEF Adds, Each
<1>9. ASSUME NEW type, Raise(c, type)
      PROVE  /\ Adds(1)
             /\ NextCall \/ (pc' = "stopped" /\ batch' = batch)
  BY <1>1, <1>3, <1>9 DEF Raise, Stop
<1> QED
  BY <1>2, <1>4, <1>5, <1>6, <1>7, <1>8, <1>9 DEF Gate, HandleFailure

LEMMA StreakNext ==
  ASSUME TypeOK, StreakInv, [Next]_vars
  PROVE  StreakInv'
<1>0. /\ Len(batch) \in Nat /\ idx \in Nat /\ MaxBatch \in Nat \ {0}
      /\ LoopWindow \in Nat \ {0} /\ history \in Seq(ActionRecord)
      /\ StreakLength(history) \in Nat
  BY StreakFinite, BudgetAssumption DEF TypeOK
<1>1. CASE UNCHANGED vars
  BY <1>1 DEF vars, runState, StreakInv, Worked, Busy
<1>2. CASE /\ history' = history /\ batch' = batch
           /\ \/ pc' = "stopped"
              \/ pc' = "head" /\ pc \in {"skill", "commit"}
              \/ pc' = "skill" /\ pc = "start"
  <2>1. Worked \in Nat /\ Worked' \in Nat /\ Worked <= Worked'
    BY <1>0, <1>2 DEF Worked, Busy, StreakInv
  <2>2. Each * Worked \in Nat /\ Each * Worked' \in Nat /\ Each * Worked <= Each * Worked'
    BY <2>1, Shares
  <2>3. ~Busy'
    BY <1>2 DEF Busy
  <2>4. Each' = Each
    BY DEF Each
  <2>5. StreakLength(history') <= 2 * LoopWindow - 1 + Each * Worked'
    BY <1>0, <1>2, <2>2 DEF StreakInv
  <2> QED
    BY <1>0, <1>2, <2>3, <2>4, <2>5 DEF StreakInv
<1>3. CASE NextStep
  <2>1. pc' = "llm" /\ batch' = batch /\ history' = history /\ ~DetectLoop
    BY <1>3 DEF NextStep, runState
  <2>2. StreakLength(history) <= 2 * LoopWindow - 1
    BY <2>1, LongStreakDetected
  <2>3. ~Busy' /\ Worked' = 0 /\ Each * 0 = 0
    BY <2>1 DEF Busy, Worked, Each
  <2> QED
    BY <1>0, <2>1, <2>2, <2>3 DEF StreakInv
<1>4. CASE ModelCallsTools
  <2>1. /\ pc = "llm" /\ pc' = "gate" /\ idx' = 1 /\ history' = history
        /\ \E n \in 1 .. MaxBatch : batch' \in [1 .. n -> Calls]
    BY <1>4 DEF ModelCallsTools, runState
  <2>2. Len(batch') <= MaxBatch /\ Len(batch') \in Nat
    BY <1>0, <2>1
  <2>3. Worked = 0 /\ Worked' = 0
    BY <2>1 DEF Busy, Worked
  <2> QED
    BY <1>0, <2>1, <2>2, <2>3 DEF StreakInv
<1>5. ASSUME NEW c \in Calls, pc \in {"gate", "exec"},
             Gate(c) \/ Succeed(c) \/ HandleFailure(c)
      PROVE  StreakInv'
  <2>1. idx \in 1 .. Len(batch) /\ Worked = idx - 1 /\ Worked \in Nat
    BY <1>0, <1>5 DEF TypeOK, Worked, Busy
  <2>2. CASE Dispatch(c)
    <3>1. pc' = "exec" /\ UNCHANGED <<batch, idx, history>>
      BY <2>2 DEF Dispatch, runState
    <3>2. Worked' = Worked
      BY <1>5, <3>1 DEF Worked, Busy
    <3> QED
      BY <2>1, <3>1, <3>2 DEF StreakInv, Busy
  <2>3. CASE NextCall /\ \E n \in 0 .. Each : Adds(n)
    <3>1. /\ pc' \in {"gate", "commit"} /\ idx' = idx + 1 /\ batch' = batch
          /\ Worked' = Worked + 1
      BY <1>0, <2>1, <2>3 DEF NextCall, Worked, Busy
    <3>2. StreakLength(history') \in Nat /\ StreakLength(history') <= StreakLength(history) + Each
      BY <1>0, <2>3, AddsStreak, Shares DEF Each
    <3>3. Each * Worked' = Each * Worked + Each /\ Each * Worked \in Nat /\ Each \in Nat
      <4>1. Worked <= Worked
        BY <2>1
      <4>2. /\ Each * (Worked + 1) = Each * Worked + Each
            /\ Each * Worked \in Nat /\ Each \in {1, 2}
        BY <2>1, <4>1, Shares
      <4> QED
        BY <3>1, <4>2
    <3> QED
      BY <1>0, <2>1, <3>1, <3>2, <3>3 DEF StreakInv
  <2>4. CASE /\ pc' \in {"head", "stopped"} /\ batch' \in {batch, <<>>}
             /\ \E n \in {0, 1} : Adds(n)
    <3>1. Worked' = MaxBatch /\ ~Busy' /\ Len(batch') <= MaxBatch
      BY <1>0, <2>4 DEF Worked, Busy, StreakInv
    <3>2. StreakLength(history') \in Nat /\ StreakLength(history') <= StreakLength(history) + 1
      BY <1>0, <2>4, AddsStreak
    <3>3. Worked + 1 <= MaxBatch
      BY <1>0, <2>1 DEF StreakInv
    <3>4. /\ Each * (Worked + 1) <= Each * MaxBatch
          /\ Each * (Worked + 1) = Each * Worked + Each
          /\ Each * Worked \in Nat /\ Each * MaxBatch \in Nat /\ Each \in {1, 2}
      <4>1. Worked + 1 \in Nat /\ MaxBatch \in Nat /\ Worked <= Worked
        BY <1>0, <2>1
      <4>2. Each * (Worked + 1) <= Each * MaxBatch /\ Each * MaxBatch \in Nat
        <5>1. MaxBatch <= MaxBatch
          BY <4>1
        <5> QED
          BY <3>3, <4>1, <5>1, Shares
      <4> QED
        BY <2>1, <4>1, <4>2, Shares
    <3> QED
      BY <1>0, <3>1, <3>2, <3>4 DEF StreakInv
  <2> QED
    BY <1>5, <2>2, <2>3, <2>4, HandledCalls
<1>6. ASSUME HealthCheckFails \/ HealthCheckPasses \/ SkillMatched
             \/ NoSkillMatched \/ MaxStepsReached \/ LoopDetected
             \/ ModelFails \/ ModelAnswersText \/ Commit \/ Interrupted
      PROVE  StreakInv'
  <2>1. /\ history' = history /\ batch' = batch
        /\ \/ pc' = "stopped"
           \/ pc' = "head" /\ pc \in {"skill", "commit"}
           \/ pc' = "skill" /\ pc = "start"
    BY <1>6 DEF HealthCheckFails, HealthCheckPasses, SkillMatched, NoSkillMatched,
       MaxStepsReached, LoopDetected, ModelFails, ModelAnswersText, Commit, Interrupted,
       TimedOut, ClientGone, InFlight, Stop, runState
  <2> QED
    BY <1>2, <2>1
<1> QED
  BY <1>1, <1>3, <1>4, <1>5, <1>6 DEF Next, LoopProgress, Ended, Interrupted

\* A model that asks for one call over and over is stopped: the records of one
\* call on end never outgrow two windows and the rest of an answer, whichever
\* steps were dropped and skipped in between: StuckLoopCut.
THEOREM RepetitionBounded == Spec => []StuckLoopCut
<1>1. Init => StreakInv
  <2> SUFFICES ASSUME Init PROVE StreakInv
    OBVIOUS
  <2>1. history = <<>> /\ batch = <<>> /\ pc = "start"
    BY DEF Init
  <2>2. StreakIn(history) = {}
    BY <2>1 DEF StreakIn, TriedIn
  <2>3. StreakLength(history) = 0
    BY <2>2, FS_EmptySet DEF StreakLength
  <2>4. ~Busy /\ Worked = 0 /\ Each * 0 = 0
    BY <2>1 DEF Busy, Worked, Each
  <2> QED
    BY <2>1, <2>3, <2>4, BudgetAssumption DEF StreakInv
<1>2. TypeOK /\ StreakInv => StuckLoopCut
  <2> SUFFICES ASSUME TypeOK, StreakInv PROVE StuckLoopCut
    OBVIOUS
  <2>1. Worked \in Nat /\ MaxBatch \in Nat /\ Worked <= MaxBatch
    BY BudgetAssumption DEF StreakInv, Worked, Busy, TypeOK
  <2>2. Each * Worked <= Each * MaxBatch /\ Each * Worked \in Nat /\ Each * MaxBatch \in Nat
    BY <2>1, Shares
  <2>3. StreakLength(history) \in Nat /\ LoopWindow \in Nat
    BY StreakFinite, BudgetAssumption DEF TypeOK
  <2>4. StreakLength(history) <= 2 * LoopWindow - 1 + Each * MaxBatch
    BY <2>2, <2>3 DEF StreakInv
  <2> QED
    BY <2>4, StreakNow DEF StuckLoopCut, Each
<1>3. TypeOK /\ StreakInv /\ [Next]_vars => StreakInv'
  BY StreakNext
<1> QED
  BY <1>1, <1>2, <1>3, TypeCorrect, PTL DEF Spec

-----------------------------------------------------------------------------
(* What is kept of a sequence                                              *)

LEMMA AtFacts ==
  ASSUME NEW O, NEW seq \in Seq(O), NEW S, S \subseteq DOMAIN seq
  PROVE  /\ At(seq, S) \in Seq(O)
         /\ Cardinality(S) \in Nat
         /\ Len(At(seq, S)) = Cardinality(S)
         /\ DOMAIN At(seq, S) = 1..Cardinality(S)
         /\ \A k \in 1..Cardinality(S) : Nth(S, k) \in S /\ At(seq, S)[k] = seq[Nth(S, k)]
<1>1. IsPositions(S)
  BY SomePositions
<1>2. Cardinality(S) \in Nat
  BY <1>1, PositionFacts
<1>3. \A k \in 1..Cardinality(S) : Nth(S, k) \in S
  BY <1>1, NthRank
<1>4. \A i \in DOMAIN seq : seq[i] \in O
  OBVIOUS
<1>5. \A k \in 1..Cardinality(S) : seq[Nth(S, k)] \in O
  BY <1>3, <1>4
<1>6. \A k \in 1..Cardinality(S) : At(seq, S)[k] = seq[Nth(S, k)]
  BY DEF At
<1>7. At(seq, S) \in [1..Cardinality(S) -> O]
  BY <1>5 DEF At
<1>8. At(seq, S) \in Seq(O) /\ Len(At(seq, S)) = Cardinality(S)
  BY <1>2, <1>7
<1> QED
  BY <1>2, <1>3, <1>6, <1>7, <1>8

\* A set of natural numbers that is not empty has a least element.
LEMMA LeastPosition ==
  ASSUME NEW T \in SUBSET Nat, T # {}
  PROVE  \E x \in T : \A y \in T : x <= y
<1>1. IsWellFoundedOn({ss \in Nat \X Nat : ss[1] < ss[2]}, Nat)
  BY NatLessThanWellFounded DEF OpToRel
<1>2. PICK x \in T : \A y \in T : ~(<<y, x>> \in {ss \in Nat \X Nat : ss[1] < ss[2]})
  BY <1>1, WFMin
<1>3. \A y \in T : ~(y < x)
  BY <1>2
<1> QED
  BY <1>3

\* An increasing map: the target has as many positions.
LEMMA IncreasingMap ==
  ASSUME NEW A, NEW B, IsPositions(A), IsPositions(B), NEW f,
         \A i \in A : f[i] \in B,
         \A i, j \in A : i < j => f[i] < f[j]
  PROVE  Cardinality(A) <= Cardinality(B)
<1> DEFINE g == [i \in A |-> f[i]]
<1>1. g \in [A -> B]
  OBVIOUS
<1>2. \A i, j \in A : g[i] = g[j] => i = j
  <2>1. \A i \in A : i \in Nat /\ f[i] \in Nat
    BY PositionFacts
  <2> QED
    BY <2>1
<1>3. g \in Injection(A, B)
  BY <1>1, <1>2 DEF Injection, IsInjective
<1> HIDE DEF g
<1> QED
  BY <1>3, FS_Injection DEF IsPositions

LEMMA SubsetCount ==
  ASSUME NEW A, NEW B, IsPositions(B), A \subseteq B
  PROVE  /\ IsPositions(A)
         /\ Cardinality(A) \in Nat /\ Cardinality(B) \in Nat
         /\ Cardinality(A) <= Cardinality(B)
<1>1. IsFiniteSet(B) /\ A \in SUBSET B
  BY DEF IsPositions
<1>2. IsFiniteSet(A) /\ Cardinality(A) <= Cardinality(B)
  BY <1>1, FS_Subset
<1> QED
  BY <1>1, <1>2, FS_CardinalityType DEF IsPositions

\* The messages at some positions are no more than the positions.
LEMMA FewMessages ==
  ASSUME NEW P, IsPositions(P), NEW seq, NEW M, M \subseteq {seq[i] : i \in P}
  PROVE  IsFiniteSet(M) /\ Cardinality(M) \in Nat /\ Cardinality(M) <= Cardinality(P)
<1> DEFINE T == {seq[i] : i \in P}
           g == [i \in P |-> seq[i]]
<1>1. g \in Surjection(P, T)
  BY DEF Surjection
<1>2. IsFiniteSet(P) /\ Cardinality(P) \in Nat
  BY PositionFacts
<1>3. M \in SUBSET T
  OBVIOUS
<1> HIDE DEF g, T
<1>4. IsFiniteSet(T) /\ Cardinality(T) <= Cardinality(P)
  BY <1>1, <1>2, FS_Surjection
<1>5. IsFiniteSet(M) /\ Cardinality(M) <= Cardinality(T)
  BY <1>3, <1>4, FS_Subset
<1>6. Cardinality(T) \in Nat /\ Cardinality(M) \in Nat
  BY <1>4, <1>5, FS_CardinalityType
<1> QED
  BY <1>2, <1>4, <1>5, <1>6

-----------------------------------------------------------------------------
(* The texts a offered is made of                                          *)

SummaryOf(O) == [at : Nat, covers : SUBSET O]
ContextOf(O) == [msgs : Seq(O), compacted : BOOLEAN, covers : SUBSET O]

Alternates(msgs) == \A i \in 2..Len(msgs) : msgs[i].role # msgs[i - 1].role

LEMMA RecentType ==
  ASSUME NEW O, NEW seq \in Seq(O), NEW n \in Nat
  PROVE  Recent(seq, n) \in Seq(O)
<1>1. CASE Len(seq) <= n
  BY <1>1 DEF Recent
<1>2. CASE ~(Len(seq) <= n)
  <2>1. Len(seq) \in Nat /\ \A i \in DOMAIN seq : seq[i] \in O
    OBVIOUS
  <2>2. \A i \in Len(seq) - n + 1 .. Len(seq) : seq[i] \in O
    BY <1>2, <2>1
  <2>3. SubSeq(seq, Len(seq) - n + 1, Len(seq)) \in Seq(O)
    BY <2>1, <2>2, SubSeqProperties
  <2> QED
    BY <1>2, <2>3 DEF Recent
<1> QED
  BY <1>1, <1>2

LEMMA OlderFacts ==
  ASSUME NEW O, NEW seq \in Seq(O)
  PROVE  /\ Older(seq) \in Seq(O)
         /\ Len(Older(seq)) = IF Len(seq) > KeepRecent THEN Len(seq) - KeepRecent ELSE 0
         /\ \A i \in 1..Len(seq) - KeepRecent : Older(seq)[i] = seq[i]
<1>1. Len(seq) \in Nat /\ KeepRecent \in Nat \ {0} /\ \A i \in DOMAIN seq : seq[i] \in O
  BY ConversationAssumption
<1>2. \A i \in 1..Len(seq) - KeepRecent : seq[i] \in O
  BY <1>1
<1>3. /\ Older(seq) \in Seq(O)
      /\ Len(Older(seq)) = IF 1 <= Len(seq) - KeepRecent
                             THEN Len(seq) - KeepRecent - 1 + 1 ELSE 0
      /\ \A i \in 1..Len(seq) - KeepRecent - 1 + 1 : Older(seq)[i] = seq[1 + i - 1]
  BY <1>1, <1>2, SubSeqProperties DEF Older
<1> QED
  BY <1>1, <1>3

\* Between two positions kept in a row nothing is kept.
LEMMA NothingBetween ==
  ASSUME NEW S, IsPositions(S), NEW k \in Nat, k \in 2..Cardinality(S),
         NEW j \in S, Nth(S, k - 1) < j
  PROVE  Nth(S, k) <= j
<1>1. k \in 1..Cardinality(S) /\ k - 1 \in 1..Cardinality(S) /\ k \in Int
  BY PositionFacts
<1>2. /\ Nth(S, k) \in S /\ Rank(S, Nth(S, k)) = k
      /\ Nth(S, k - 1) \in S /\ Rank(S, Nth(S, k - 1)) = k - 1
  BY <1>1, NthRank
<1>3. Rank(S, j) > k - 1 /\ Rank(S, j) \in Nat
  BY <1>2, RankGrows
<1>4. j < Nth(S, k) => Rank(S, j) < k
  BY <1>2, RankGrows
<1>5. j \in Nat /\ Nth(S, k) \in Nat
  BY <1>2, PositionFacts
<1> QED
  BY <1>1, <1>3, <1>4, <1>5

\* NormalizeRoles (history.py) leaves no two messages of one role in a row,
\* whatever the rows it drops.
LEMMA NormalizeAlternates ==
  ASSUME NEW O, NEW seq \in Seq(O)
  PROVE  NormalizeRoles(seq) \in Seq(O) /\ Alternates(NormalizeRoles(seq))
<1> DEFINE S == {i \in DOMAIN seq : i = 1 \/ seq[i].role # seq[i - 1].role}
           kept == At(seq, S)
<1>1. S \subseteq DOMAIN seq /\ DOMAIN seq = 1..Len(seq) /\ Len(seq) \in Nat
  OBVIOUS
<1>2. IsPositions(S)
  BY <1>1, SomePositions
<1>3. /\ kept \in Seq(O) /\ Len(kept) = Cardinality(S) /\ Cardinality(S) \in Nat
      /\ \A k \in 1..Cardinality(S) : Nth(S, k) \in S /\ kept[k] = seq[Nth(S, k)]
  <2> HIDE DEF S
  <2> QED
    BY <1>1, AtFacts
<1>4. \A i \in DOMAIN seq : i \notin S => i # 1 /\ seq[i].role = seq[i - 1].role
  OBVIOUS
<1>5. \A i \in S : i # 1 => seq[i].role # seq[i - 1].role
  OBVIOUS
<1>6. kept = NormalizeRoles(seq)
  BY DEF NormalizeRoles
<1> HIDE DEF S, kept
<1>7. ASSUME NEW k \in 2..Len(kept)
      PROVE  kept[k].role # kept[k - 1].role
  <2> DEFINE a == Nth(S, k - 1)
             b == Nth(S, k)
  <2>1. k \in Nat /\ k \in 2..Cardinality(S) /\ k \in 1..Cardinality(S) /\ k - 1 \in 1..Cardinality(S)
        /\ k - 1 < k
    BY <1>3
  <2>2. a \in S /\ b \in S /\ a < b
    BY <1>2, <1>3, <2>1, NthGrows
  <2>3. a \in 1..Len(seq) /\ b \in 1..Len(seq)
    BY <1>1, <2>2
  <2>4. \A j \in S : a < j => b <= j
    BY <1>2, <2>1, NothingBetween
  <2>5. kept[k] = seq[b] /\ kept[k - 1] = seq[a]
    BY <1>3, <2>1
  <2> HIDE DEF a, b
  <2> DEFINE odd == {j \in a..b - 1 : seq[j].role # seq[a].role}
  <2>6. ASSUME odd # {} PROVE FALSE
    <3>1. odd \in SUBSET Nat
      BY <1>1, <2>3
    <3>2. PICK j \in odd : \A i \in odd : j <= i
      BY <2>6, <3>1, LeastPosition
    <3>3. j \in a + 1..b - 1 /\ j \in DOMAIN seq /\ seq[j].role # seq[a].role
      BY <1>1, <2>3, <3>2
    <3>4. j \notin S
      BY <1>1, <2>3, <2>4, <3>3
    <3>5. seq[j].role = seq[j - 1].role
      BY <1>4, <3>3, <3>4
    <3>6. j - 1 \in odd
      BY <1>1, <2>3, <3>3, <3>5
    <3> QED
      BY <1>1, <2>3, <3>2, <3>3, <3>6
  <2>7. b - 1 \in a..b - 1 /\ b # 1
    BY <1>1, <2>2, <2>3
  <2>8. seq[b - 1].role = seq[a].role
    BY <2>6, <2>7
  <2>9. seq[b].role # seq[b - 1].role
    BY <1>5, <2>2, <2>7
  <2> QED
    BY <2>5, <2>8, <2>9
<1> QED
  BY <1>3, <1>6, <1>7 DEF Alternates

\* prepare_context_for_llm assembles, of the messages it read, an alternating
\* context whose summary is the one it was given.
LEMMA AssembleFacts ==
  ASSUME NEW O, NEW read \in Seq(O), NEW sum \in SummaryOf(O)
  PROVE  /\ Assemble(read, sum) \in ContextOf(O)
         /\ Alternates(Assemble(read, sum).msgs)
         /\ Assemble(read, sum).compacted => Assemble(read, sum).covers = sum.covers
<1> DEFINE compact == CompactHistory(read, sum)
           recent == Recent(compact.msgs, MaxContext)
           spoken == FilterSystem(recent)
<1>1. KeepRecent \in Nat /\ MaxContext \in Nat
  BY ConversationAssumption
<1>2. sum.covers \in SUBSET O
  BY DEF SummaryOf
<1>3. /\ compact \in ContextOf(O)
      /\ compact.compacted => compact.covers = sum.covers
  <2>1. Recent(read, KeepRecent) \in Seq(O)
    BY <1>1, RecentType
  <2> QED
    BY <1>2, <2>1 DEF CompactHistory, ContextOf
<1>4. compact.msgs \in Seq(O)
  BY <1>3 DEF ContextOf
<1>5. Assemble(read, sum) = [compact EXCEPT !.msgs = BuildContext(compact.msgs)]
  BY DEF Assemble
<1> HIDE DEF compact
<1>6. recent \in Seq(O)
  BY <1>1, <1>4, RecentType
<1> HIDE DEF recent
<1>7. spoken \in Seq(O)
  <2>1. {i \in DOMAIN recent : recent[i].role # "system"} \subseteq DOMAIN recent
    OBVIOUS
  <2> QED
    BY <1>6, <2>1, AtFacts DEF FilterSystem
<1>8. BuildContext(compact.msgs) = NormalizeRoles(spoken)
  BY DEF BuildContext, recent
<1> HIDE DEF spoken
<1>9. NormalizeRoles(spoken) \in Seq(O) /\ Alternates(NormalizeRoles(spoken))
  BY <1>7, NormalizeAlternates
<1> QED
  BY <1>3, <1>5, <1>8, <1>9 DEF ContextOf

-----------------------------------------------------------------------------
(* The rows of a session                                                   *)

RowOf(O) == {r \in Row : r.msg \in O /\ r.open \in {Committed, r.msg.turn}}

\* The positions a transaction sees; every one sees what is committed.
Seen(rows, t) == {i \in DOMAIN rows : rows[i].open \in {Committed, t}}

LEMMA SeenPositions ==
  ASSUME NEW O, NEW rows \in Seq(RowOf(O)), NEW t
  PROVE  /\ IsPositions(Seen(rows, t)) /\ Seen(rows, t) \subseteq DOMAIN rows
         /\ Cardinality(Seen(rows, t)) \in Nat
         /\ IsPositions(DOMAIN rows)
         /\ \A i \in DOMAIN rows : rows[i] \in Row /\ rows[i].msg \in O
                                   /\ rows[i].open \in {Committed, rows[i].msg.turn}
<1>1. Seen(rows, t) \subseteq DOMAIN rows
  BY DEF Seen
<1>2. IsPositions(Seen(rows, t)) /\ IsPositions(DOMAIN rows)
  BY <1>1, SomePositions
<1>3. \A i \in DOMAIN rows : rows[i] \in RowOf(O)
  OBVIOUS
<1> QED
  BY <1>1, <1>2, <1>3, PositionFacts DEF RowOf

LEMMA VisibleFacts ==
  ASSUME NEW O, NEW rows \in Seq(RowOf(O)), NEW t
  PROVE  /\ Visible(rows, t) \in Seq(O)
         /\ Len(Visible(rows, t)) = Cardinality(Seen(rows, t))
         /\ \A k \in 1..Cardinality(Seen(rows, t)) :
              /\ Nth(Seen(rows, t), k) \in Seen(rows, t)
              /\ Visible(rows, t)[k] = rows[Nth(Seen(rows, t), k)].msg
<1> DEFINE V == Seen(rows, t)
           seen == At(rows, V)
<1>1. V \subseteq DOMAIN rows /\ \A i \in DOMAIN rows : rows[i].msg \in O
  BY SeenPositions
<1>2. Visible(rows, t) = [i \in DOMAIN seen |-> seen[i].msg]
  BY DEF Visible, Seen
<1> HIDE DEF V
<1>3. /\ Cardinality(V) \in Nat /\ DOMAIN seen = 1..Cardinality(V)
      /\ \A k \in 1..Cardinality(V) : Nth(V, k) \in V /\ seen[k] = rows[Nth(V, k)]
  BY <1>1, AtFacts
<1> HIDE DEF seen
<1>4. \A k \in 1..Cardinality(V) : seen[k].msg \in O
  BY <1>1, <1>3
<1>5. Visible(rows, t) \in [1..Cardinality(V) -> O]
  BY <1>2, <1>3, <1>4
<1>6. Visible(rows, t) \in Seq(O) /\ Len(Visible(rows, t)) = Cardinality(V)
  BY <1>3, <1>5
<1>7. \A k \in 1..Cardinality(V) : Visible(rows, t)[k] = seen[k].msg
  BY <1>2, <1>3
<1> QED
  BY <1>3, <1>6, <1>7 DEF V

\* What a transaction reads is what it sees.
LEMMA ReadIsSeen ==
  ASSUME NEW O, NEW rows \in Seq(RowOf(O)), NEW t, NEW m \in Range(Visible(rows, t))
  PROVE  \E p \in Seen(rows, t) : rows[p].msg = m
BY VisibleFacts DEF Range

LEMMA CommitFacts ==
  ASSUME NEW O, NEW rows \in Seq(RowOf(O)), NEW t
  PROVE  /\ CommitRows(rows, t) \in Seq(RowOf(O))
         /\ DOMAIN CommitRows(rows, t) = DOMAIN rows
         /\ \A i \in DOMAIN rows :
              /\ CommitRows(rows, t)[i].msg = rows[i].msg
              /\ CommitRows(rows, t)[i].open =
                   IF rows[i].open = t THEN Committed ELSE rows[i].open
<1> DEFINE new == CommitRows(rows, t)
           closed(r) == [r EXCEPT !.open = Committed]
<1>1. \A i \in DOMAIN rows : rows[i] \in RowOf(O) /\ rows[i] \in Row
  BY SeenPositions
<1>2. \A i \in DOMAIN rows :
        new[i] = IF rows[i].open = t THEN closed(rows[i]) ELSE rows[i]
  BY DEF CommitRows
<1>3. DOMAIN new = DOMAIN rows
  BY DEF CommitRows
<1>4. ASSUME NEW r \in RowOf(O)
      PROVE  closed(r) \in RowOf(O) /\ closed(r).msg = r.msg /\ closed(r).open = Committed
  BY DEF RowOf, Row
<1> HIDE DEF new, closed
<1>5. \A i \in DOMAIN rows :
        /\ new[i] \in RowOf(O) /\ new[i].msg = rows[i].msg
        /\ new[i].open = IF rows[i].open = t THEN Committed ELSE rows[i].open
  BY <1>1, <1>2, <1>4
<1>6. new \in [1..Len(rows) -> RowOf(O)] /\ Len(rows) \in Nat
  BY <1>3, <1>5 DEF new, CommitRows
<1>7. new \in Seq(RowOf(O))
  BY <1>6
<1> QED
  BY <1>3, <1>5, <1>7 DEF new

\* A transaction's commit shows to all what it saw, and hides nothing.
LEMMA CommitSeen ==
  ASSUME NEW O, NEW rows \in Seq(RowOf(O)), NEW t, NEW u
  PROVE  /\ Seen(rows, u) \subseteq Seen(CommitRows(rows, t), u)
         /\ Seen(CommitRows(rows, t), Committed) = Seen(rows, t)
BY CommitFacts DEF Seen

LEMMA AppendRow ==
  ASSUME NEW O, NEW rows \in Seq(RowOf(O)), NEW r \in RowOf(O)
  PROVE  /\ Append(rows, r) \in Seq(RowOf(O))
         /\ Len(rows) \in Nat
         /\ DOMAIN rows = 1..Len(rows)
         /\ DOMAIN Append(rows, r) = 1..Len(rows) + 1
         /\ \A i \in 1..Len(rows) : Append(rows, r)[i] = rows[i]
         /\ Append(rows, r)[Len(rows) + 1] = r
OBVIOUS

LEMMA AppendSeen ==
  ASSUME NEW O, NEW rows \in Seq(RowOf(O)), NEW r \in RowOf(O), NEW t
  PROVE  Seen(rows, t) \subseteq Seen(Append(rows, r), t)
BY AppendRow DEF Seen

\* Rows are taken away: the others stay in their order.
LEMMA TakenAway ==
  ASSUME NEW O, NEW rows \in Seq(RowOf(O)), NEW P, P \subseteq DOMAIN rows
  PROVE  /\ At(rows, P) \in Seq(RowOf(O))
         /\ DOMAIN At(rows, P) = 1..Cardinality(P)
         /\ IsPositions(P)
         /\ \A k \in DOMAIN At(rows, P) : /\ Nth(P, k) \in P /\ Rank(P, Nth(P, k)) = k
                                          /\ At(rows, P)[k] = rows[Nth(P, k)]
         /\ \A i \in P : /\ Rank(P, i) \in DOMAIN At(rows, P)
                         /\ At(rows, P)[Rank(P, i)] = rows[i]
         /\ \A i, j \in P : i < j => Rank(P, i) < Rank(P, j)
<1>1. IsPositions(P)
  BY SomePositions
<1>2. /\ At(rows, P) \in Seq(RowOf(O)) /\ DOMAIN At(rows, P) = 1..Cardinality(P)
      /\ \A k \in 1..Cardinality(P) : Nth(P, k) \in P /\ At(rows, P)[k] = rows[Nth(P, k)]
  BY AtFacts
<1>3. \A i \in P : Rank(P, i) \in 1..Cardinality(P) /\ i = Nth(P, Rank(P, i))
  BY <1>1, RankGrows, NthGrows
<1>4. \A i, j \in P : i < j => Rank(P, i) < Rank(P, j)
  BY <1>1, RankGrows
<1>6. \A k \in 1..Cardinality(P) : Rank(P, Nth(P, k)) = k
  BY <1>1, NthRank
<1>5. \A i \in P : At(rows, P)[Rank(P, i)] = rows[i]
  BY <1>2, <1>3
<1> QED
  BY <1>1, <1>2, <1>3, <1>4, <1>5, <1>6

-----------------------------------------------------------------------------
(* What every change of a table keeps                                      *)

\* Of what is seen at V, the messages of C that n recent ones follow.
CoveredAt(rows, V, C) ==
  {p \in V : rows[p].msg \in C /\ Cardinality({i \in V : i > p}) >= KeepRecent}

\* What is seen at V of the old rows is seen in its order at W of the new.
Carries(old, V, new, W) ==
  \E f \in [V -> W] :
    /\ \A i, j \in V : i < j => f[i] < f[j]
    /\ \A i \in V : new[f[i]].msg = old[i].msg

LEMMA CoveredCarried ==
  ASSUME NEW old, NEW V, NEW new, NEW W, IsPositions(V), IsPositions(W),
         Carries(old, V, new, W), NEW C
  PROVE  /\ Cardinality(CoveredAt(old, V, C)) \in Nat
         /\ Cardinality(CoveredAt(new, W, C)) \in Nat
         /\ Cardinality(CoveredAt(old, V, C)) <= Cardinality(CoveredAt(new, W, C))
<1> DEFINE A == CoveredAt(old, V, C)
           B == CoveredAt(new, W, C)
<1>1. PICK f \in [V -> W] : /\ \A i, j \in V : i < j => f[i] < f[j]
                            /\ \A i \in V : new[f[i]].msg = old[i].msg
  BY DEF Carries
<1>2. A \subseteq V /\ B \subseteq W
  BY DEF CoveredAt
<1>3. /\ IsPositions(A) /\ Cardinality(A) \in Nat
      /\ IsPositions(B) /\ Cardinality(B) \in Nat
  <2> HIDE DEF A, B
  <2> QED
    BY <1>2, SubsetCount
<1>4. ASSUME NEW p \in A PROVE f[p] \in B
  <2> DEFINE after == {i \in V : i > p}
             later == {i \in W : i > f[p]}
  <2>1. p \in V /\ f[p] \in W /\ new[f[p]].msg \in C
    BY <1>1, <1>2 DEF CoveredAt
  <2>2. \A i \in after : f[i] \in later
    BY <1>1, <1>2, <2>1, PositionFacts
  <2>3. \A i, j \in after : i < j => f[i] < f[j]
    BY <1>1
  <2>4. Cardinality(after) >= KeepRecent
    BY DEF CoveredAt
  <2>5. after \subseteq V /\ later \subseteq W
    OBVIOUS
  <2> HIDE DEF after, later
  <2>6. /\ IsPositions(after) /\ Cardinality(after) \in Nat
        /\ IsPositions(later) /\ Cardinality(later) \in Nat
    BY <2>5, SubsetCount
  <2>7. Cardinality(after) <= Cardinality(later)
    BY <2>2, <2>3, <2>6, IncreasingMap
  <2>8. Cardinality(later) >= KeepRecent
    BY <2>4, <2>6, <2>7, ConversationAssumption
  <2> QED
    BY <2>1, <2>8 DEF CoveredAt, later
<1>5. \A i, j \in A : i < j => f[i] < f[j]
  BY <1>1, <1>2
<1> HIDE DEF A, B
<1>6. Cardinality(A) <= Cardinality(B)
  BY <1>3, <1>4, <1>5, IncreasingMap
<1> QED
  BY <1>3, <1>6 DEF A, B

Before(V, p) == {i \in V : i < p}

\* n messages were read by the time turn u's was written, its own included:
\* so many but one are committed, and before every message of the turn.
CountedFor(rows, u, n) ==
  /\ Cardinality(Seen(rows, Committed)) >= n - 1
  /\ \A p \in DOMAIN rows : rows[p].msg.turn = u =>
       Cardinality(Before(Seen(rows, Committed), p)) >= n - 1

\* Positions that stay seen, with the same messages, are carried.
LEMMA SameCarries ==
  ASSUME NEW V, NEW W, V \subseteq W, NEW old, NEW new,
         \A i \in V : new[i].msg = old[i].msg
  PROVE  Carries(old, V, new, W)
<1> DEFINE f == [i \in V |-> i]
<1>1. f \in [V -> W]
  OBVIOUS
<1>2. \A i, j \in V : i < j => f[i] < f[j]
  OBVIOUS
<1>3. \A i \in V : new[f[i]].msg = old[i].msg
  OBVIOUS
<1> QED
  BY <1>1, <1>2, <1>3 DEF Carries

LEMMA CommitCarries ==
  ASSUME NEW O, NEW rows \in Seq(RowOf(O)), NEW t, NEW u
  PROVE  Carries(rows, Seen(rows, u), CommitRows(rows, t), Seen(CommitRows(rows, t), u))
<1>1. \A i \in Seen(rows, u) : CommitRows(rows, t)[i].msg = rows[i].msg
  BY CommitFacts DEF Seen
<1> QED
  BY <1>1, CommitSeen, SameCarries

LEMMA AppendCarries ==
  ASSUME NEW O, NEW rows \in Seq(RowOf(O)), NEW r \in RowOf(O), NEW u
  PROVE  Carries(rows, Seen(rows, u), Append(rows, r), Seen(Append(rows, r), u))
<1>1. \A i \in Seen(rows, u) : Append(rows, r)[i].msg = rows[i].msg
  BY AppendRow DEF Seen
<1> QED
  BY <1>1, AppendSeen, SameCarries

LEMMA TakenAwayCarries ==
  ASSUME NEW O, NEW rows \in Seq(RowOf(O)), NEW P, P \subseteq DOMAIN rows,
         NEW u, Seen(rows, u) \subseteq P
  PROVE  Carries(rows, Seen(rows, u), At(rows, P), Seen(At(rows, P), u))
<1> DEFINE V == Seen(rows, u)
           new == At(rows, P)
           f == [i \in V |-> Rank(P, i)]
<1>1. \A i \in V : i \in P /\ rows[i].open \in {Committed, u}
  BY DEF Seen
<1>2. \A i \in V : Rank(P, i) \in DOMAIN new /\ new[Rank(P, i)] = rows[i]
  BY <1>1, TakenAway
<1>3. f \in [V -> Seen(new, u)]
  BY <1>1, <1>2 DEF Seen
<1>4. \A i, j \in V : i < j => f[i] < f[j]
  BY <1>1, TakenAway
<1>5. \A i \in V : new[f[i]].msg = rows[i].msg
  BY <1>2
<1> HIDE DEF f, V, new
<1>6. Carries(rows, V, new, Seen(new, u))
  BY <1>3, <1>4, <1>5 DEF Carries
<1> QED
  BY <1>6 DEF V, new

\* Counting positions before one of them.
LEMMA CountCommit ==
  ASSUME NEW O, NEW rows \in Seq(RowOf(O)), NEW t, NEW u, NEW n \in Nat,
         CountedFor(rows, u, n)
  PROVE  CountedFor(CommitRows(rows, t), u, n)
<1> DEFINE new == CommitRows(rows, t)
           V == Seen(rows, Committed)
           W == Seen(new, Committed)
<1>1. V \subseteq W
  BY CommitSeen
<1>2. IsPositions(W)
  BY CommitFacts, SeenPositions
<1> HIDE DEF W, V
<1>3. \A p : Before(V, p) \subseteq Before(W, p) /\ Before(W, p) \subseteq W
  BY <1>1 DEF Before
<1>4. /\ Cardinality(V) \in Nat /\ Cardinality(W) \in Nat /\ Cardinality(V) <= Cardinality(W)
      /\ \A p : /\ Cardinality(Before(V, p)) \in Nat
                /\ Cardinality(Before(W, p)) \in Nat
                /\ Cardinality(Before(V, p)) <= Cardinality(Before(W, p))
  BY <1>1, <1>2, <1>3, SubsetCount
<1>5. DOMAIN new = DOMAIN rows /\ \A p \in DOMAIN rows : new[p].msg = rows[p].msg
  BY CommitFacts
<1>6. /\ Cardinality(V) >= n - 1
      /\ \A p \in DOMAIN rows : rows[p].msg.turn = u => Cardinality(Before(V, p)) >= n - 1
  BY DEF CountedFor, V
<1> HIDE DEF new
<1>7. Cardinality(W) >= n - 1
  BY <1>4, <1>6
<1>8. ASSUME NEW p \in DOMAIN new, new[p].msg.turn = u
      PROVE  Cardinality(Before(W, p)) >= n - 1
  BY <1>4, <1>5, <1>6, <1>8
<1>9. CountedFor(new, u, n)
  BY <1>7, <1>8 DEF CountedFor, W
<1> QED
  BY <1>9 DEF new

LEMMA CountAppend ==
  ASSUME NEW O, NEW rows \in Seq(RowOf(O)), NEW r \in RowOf(O), NEW u, NEW n \in Nat,
         CountedFor(rows, u, n)
  PROVE  CountedFor(Append(rows, r), u, n)
<1> DEFINE new == Append(rows, r)
           V == Seen(rows, Committed)
           W == Seen(new, Committed)
<1>0. /\ Len(rows) \in Nat /\ DOMAIN rows = 1..Len(rows) /\ DOMAIN new = 1..Len(rows) + 1
      /\ \A i \in 1..Len(rows) : new[i] = rows[i]
  BY AppendRow
<1>1. V \subseteq W /\ V \subseteq 1..Len(rows)
  BY <1>0, AppendSeen DEF Seen
<1>2. IsPositions(W)
  BY AppendRow, SeenPositions
<1>6. /\ Cardinality(V) >= n - 1
      /\ \A p \in DOMAIN rows : rows[p].msg.turn = u => Cardinality(Before(V, p)) >= n - 1
  BY DEF CountedFor
<1> HIDE DEF W, V, new
<1>3. \A p : Before(V, p) \subseteq Before(W, p) /\ Before(W, p) \subseteq W
  BY <1>1 DEF Before
<1>4. /\ Cardinality(V) \in Nat /\ Cardinality(W) \in Nat /\ Cardinality(V) <= Cardinality(W)
      /\ \A p : /\ Cardinality(Before(V, p)) \in Nat
                /\ Cardinality(Before(W, p)) \in Nat
                /\ Cardinality(Before(V, p)) <= Cardinality(Before(W, p))
  BY <1>1, <1>2, <1>3, SubsetCount
<1>5. Before(V, Len(rows) + 1) = V
  <2>1. \A i \in V : i < Len(rows) + 1
    BY <1>0, <1>1
  <2> QED
    BY <2>1 DEF Before
<1>7. Cardinality(W) >= n - 1
  BY <1>4, <1>6
<1>8. ASSUME NEW p \in DOMAIN new, new[p].msg.turn = u
      PROVE  Cardinality(Before(W, p)) >= n - 1
  <2>1. CASE p \in DOMAIN rows
    BY <1>0, <1>4, <1>6, <1>8, <2>1
  <2>2. CASE p = Len(rows) + 1
    BY <1>4, <1>5, <1>6, <2>2
  <2> QED
    BY <1>0, <2>1, <2>2
<1>9. CountedFor(new, u, n)
  BY <1>7, <1>8 DEF CountedFor, W
<1> QED
  BY <1>9 DEF new

LEMMA CountTakenAway ==
  ASSUME NEW O, NEW rows \in Seq(RowOf(O)), NEW P, P \subseteq DOMAIN rows,
         Seen(rows, Committed) \subseteq P, NEW u, NEW n \in Nat,
         CountedFor(rows, u, n)
  PROVE  CountedFor(At(rows, P), u, n)
<1> DEFINE new == At(rows, P)
           V == Seen(rows, Committed)
           W == Seen(new, Committed)
<1>1. /\ new \in Seq(RowOf(O)) /\ DOMAIN new = 1..Cardinality(P) /\ IsPositions(P)
      /\ \A k \in DOMAIN new : /\ Nth(P, k) \in P /\ Rank(P, Nth(P, k)) = k
                              /\ new[k] = rows[Nth(P, k)]
      /\ \A i \in P : Rank(P, i) \in DOMAIN new /\ new[Rank(P, i)] = rows[i]
      /\ \A i, j \in P : i < j => Rank(P, i) < Rank(P, j)
  BY TakenAway
<1>2. IsPositions(W) /\ IsPositions(V)
  BY <1>1, SeenPositions
<1>3. \A i \in V : Rank(P, i) \in W
  BY <1>1 DEF Seen
<1>4. /\ Cardinality(V) >= n - 1
      /\ \A p \in DOMAIN rows : rows[p].msg.turn = u => Cardinality(Before(V, p)) >= n - 1
  BY DEF CountedFor
<1>5. V \subseteq P
  OBVIOUS
<1> HIDE DEF V, W, new
<1>6. Cardinality(V) <= Cardinality(W) /\ Cardinality(V) \in Nat /\ Cardinality(W) \in Nat
  <2> DEFINE f == [i \in V |-> Rank(P, i)]
  <2>1. \A i \in V : f[i] \in W
    BY <1>3
  <2>2. \A i, j \in V : i < j => f[i] < f[j]
    BY <1>1, <1>5
  <2> HIDE DEF f
  <2>3. Cardinality(V) <= Cardinality(W)
    BY <1>2, <2>1, <2>2, IncreasingMap
  <2> QED
    BY <1>2, <2>3, PositionFacts
<1>7. ASSUME NEW k \in DOMAIN new, new[k].msg.turn = u
      PROVE  Cardinality(Before(W, k)) >= n - 1
  <2> DEFINE p == Nth(P, k)
             A == Before(V, p)
             B == Before(W, k)
             f == [i \in V |-> Rank(P, i)]
  <2>1. p \in P /\ rows[p].msg.turn = u /\ Rank(P, p) = k
    BY <1>1, <1>7
  <2>2. \A i \in A : f[i] \in B
    BY <1>1, <1>3, <1>5, <2>1 DEF Before
  <2>3. \A i, j \in A : i < j => f[i] < f[j]
    BY <1>1, <1>5 DEF Before
  <2>4. A \subseteq V /\ B \subseteq W
    BY DEF Before
  <2>5. Cardinality(A) >= n - 1
    BY <1>4, <2>1
  <2> HIDE DEF A, B, f
  <2>6. /\ IsPositions(A) /\ IsPositions(B)
        /\ Cardinality(A) \in Nat /\ Cardinality(B) \in Nat
    BY <1>2, <2>4, SubsetCount
  <2>7. Cardinality(A) <= Cardinality(B)
    BY <2>2, <2>3, <2>6, IncreasingMap
  <2>8. Cardinality(B) >= n - 1
    BY <2>5, <2>6, <2>7
  <2> QED
    BY <2>8 DEF B
<1>8. Cardinality(W) >= n - 1
  BY <1>4, <1>6
<1>9. CountedFor(new, u, n)
  BY <1>7, <1>8 DEF CountedFor, W
<1> QED
  BY <1>9 DEF new

-----------------------------------------------------------------------------
(* The invariant                                                           *)

\* The messages of a session: those of the turns that belong to it.  T is the
\* value of turn.
Owned(T, s) == {m \in Message : T[m.turn].phase # "unborn" /\ T[m.turn].session = s}

\* A summary stands for all but the recent of the messages it counts.
SummaryCovers(rows, sum) ==
  sum.at > KeepRecent =>
    Cardinality(CoveredAt(rows, Seen(rows, Committed), sum.covers)) >= sum.at - KeepRecent

RowsOK(rows, s, T, sum) ==
  /\ rows \in Seq(RowOf(Owned(T, s)))
  /\ \A u \in Turns : T[u].phase # "unborn" /\ T[u].session = s /\ T[u].length > 0
                        => CountedFor(rows, u, T[u].length)
  /\ SummaryCovers(rows, sum)

\* What a turn that waits for its summary has read is still there for it.
ReadStays(rows, u, read) ==
  Len(read) > KeepRecent =>
    Cardinality(CoveredAt(rows, Seen(rows, u), Range(Older(read)))) >= Len(read) - KeepRecent

WaitingOK(rows, s, T) ==
  \A u \in Turns : T[u].phase = "summarising" /\ T[u].session = s
                     => ReadStays(rows, u, T[u].read)

TurnOf(O) ==
  [phase : {"summarising", "running", "done"}, session : Sessions, blank : BOOLEAN,
   read : Seq(O), summary : SummaryOf(O), unsummarised : BOOLEAN,
   from : {"nothing", "assembled", "recovered", "minimal", "socket"},
   context : ContextOf(O), length : Nat]

FewForgotten(read, covers) == Cardinality(Range(Older(read)) \ covers) < Regenerate

SameCount(T, t, u) ==
  /\ T[u].phase # "unborn"
  /\ T[u].session = T[t].session /\ T[u].length = T[t].length

ServedOK(T, t) ==
  T[t].phase = "running" /\ T[t].from = "assembled" =>
    /\ Alternates(T[t].context.msgs)
    /\ T[t].length > 0
    /\ \/ T[t].context = Assemble(T[t].read, T[t].summary)
       \/ \E u \in Turns \ {t} : SameCount(T, t, u)
    /\ T[t].context.compacted =>
         T[t].unsummarised \/ FewForgotten(T[t].read, T[t].context.covers)

TurnOK(T, t) ==
  IF T[t].phase = "unborn" THEN T[t] = Unborn
  ELSE /\ T[t] \in TurnOf(Owned(T, T[t].session))
       /\ T[t].phase = "summarising" => T[t].read # <<>> /\ T[t].length = Len(T[t].read)
       /\ ServedOK(T, t)

\* Two turns that counted as many messages do not see each other.
Apart(T) ==
  \A t \in Turns : T[t].phase # "unborn" /\ T[t].length > 0 =>
    \A u \in Turns \ {t} : SameCount(T, t, u) => \A m \in Range(T[t].read) : m.turn # u

CacheEntry == [key : Sessions \X Nat \X Summary, context : Context]

EntryOK(T, e) ==
  /\ e.context \in ContextOf(Owned(T, e.key[1]))
  /\ Alternates(e.context.msgs)
  /\ e.context.compacted => e.context.covers = e.key[3].covers
  /\ \E u \in Turns : /\ T[u].phase \in {"running", "done"}
                      /\ T[u].session = e.key[1] /\ T[u].length = e.key[2]

CacheOK(T, c) ==
  /\ c \in Seq(CacheEntry) /\ Len(c) <= CacheSize
  /\ \A i \in DOMAIN c : EntryOK(T, c[i])

TableOK(rows, s, T, sum) == RowsOK(rows, s, T, sum) /\ WaitingOK(rows, s, T)

StateOK(tables, sums, T, c) ==
  /\ DOMAIN tables = Sessions /\ DOMAIN sums = Sessions /\ DOMAIN T = Turns
  /\ \A s \in Sessions : /\ TableOK(tables[s], s, T, sums[s])
                         /\ sums[s] \in SummaryOf(Owned(T, s))
  /\ \A t \in Turns : TurnOK(T, t)
  /\ Apart(T)
  /\ CacheOK(T, c)

\* The tables are functions of the sessions.
Shaped(f) == f = [s \in Sessions |-> f[s]]

ConversationInv ==
  /\ StateOK(table, summary, turn, cache)
  /\ Shaped(table) /\ Shaped(summary)
  /\ restarts \in 0..MaxRestarts

-----------------------------------------------------------------------------
(* Each change of a table keeps what the invariant says of it              *)

LEMMA TurnFacts ==
  ASSUME NEW T, NEW t \in Turns, TurnOK(T, t)
  PROVE  /\ T[t].length \in Nat
         /\ T[t].phase \in {"unborn", "summarising", "running", "done"}
         /\ T[t].phase # "unborn" =>
              /\ T[t].session \in Sessions /\ T[t].read \in Seq(Owned(T, T[t].session))
              /\ T[t].summary \in SummaryOf(Owned(T, T[t].session))
              /\ T[t].context \in ContextOf(Owned(T, T[t].session))
<1>1. CASE T[t].phase = "unborn"
  <2>1. T[t] = Unborn
    BY <1>1 DEF TurnOK
  <2> QED
    BY <1>1, <2>1 DEF Unborn
<1>2. CASE T[t].phase # "unborn"
  <2>1. T[t] \in TurnOf(Owned(T, T[t].session))
    BY <1>2 DEF TurnOK
  <2> QED
    BY <1>2, <2>1 DEF TurnOf
<1> QED
  BY <1>1, <1>2

LEMMA CoversKept ==
  ASSUME NEW O, NEW rows \in Seq(RowOf(O)), NEW new \in Seq(RowOf(O)), NEW u,
         Carries(rows, Seen(rows, u), new, Seen(new, u)),
         NEW C, NEW n \in Nat,
         Cardinality(CoveredAt(rows, Seen(rows, u), C)) >= n - KeepRecent
  PROVE  Cardinality(CoveredAt(new, Seen(new, u), C)) >= n - KeepRecent
<1>1. IsPositions(Seen(rows, u)) /\ IsPositions(Seen(new, u))
  BY SeenPositions
<1>2. /\ Cardinality(CoveredAt(rows, Seen(rows, u), C)) \in Nat
      /\ Cardinality(CoveredAt(new, Seen(new, u), C)) \in Nat
      /\ Cardinality(CoveredAt(rows, Seen(rows, u), C)) <= Cardinality(CoveredAt(new, Seen(new, u), C))
  BY <1>1, CoveredCarried
<1> QED
  BY <1>2, ConversationAssumption

LEMMA TableKept ==
  ASSUME NEW s, NEW T, NEW sum, sum.at \in Nat,
         \A u \in Turns : T[u].length \in Nat
                          /\ (T[u].phase = "summarising" => Len(T[u].read) \in Nat),
         NEW rows, NEW new, TableOK(rows, s, T, sum),
         new \in Seq(RowOf(Owned(T, s))),
         Carries(rows, Seen(rows, Committed), new, Seen(new, Committed)),
         \A u \in Turns : T[u].phase = "summarising" =>
           Carries(rows, Seen(rows, u), new, Seen(new, u)),
         \A u \in Turns : \A n \in Nat : CountedFor(rows, u, n) => CountedFor(new, u, n)
  PROVE  TableOK(new, s, T, sum)
<1>1. rows \in Seq(RowOf(Owned(T, s)))
  BY DEF TableOK, RowsOK
<1>2. \A u \in Turns : T[u].phase # "unborn" /\ T[u].session = s /\ T[u].length > 0
                         => CountedFor(new, u, T[u].length)
  BY DEF TableOK, RowsOK
<1>3. SummaryCovers(new, sum)
  <2>1. SummaryCovers(rows, sum)
    BY DEF TableOK, RowsOK
  <2> QED
    BY <1>1, <2>1, CoversKept DEF SummaryCovers
<1>4. ASSUME NEW u \in Turns, T[u].phase = "summarising", T[u].session = s
      PROVE  ReadStays(new, u, T[u].read)
  <2>1. ReadStays(rows, u, T[u].read)
    BY <1>4 DEF TableOK, WaitingOK
  <2> DEFINE C == Range(Older(T[u].read))
             n == Len(T[u].read)
  <2>2. n > KeepRecent => Cardinality(CoveredAt(rows, Seen(rows, u), C)) >= n - KeepRecent
    BY <2>1 DEF ReadStays
  <2>3. n \in Nat /\ Carries(rows, Seen(rows, u), new, Seen(new, u))
    BY <1>4
  <2> HIDE DEF C, n
  <2>4. n > KeepRecent => Cardinality(CoveredAt(new, Seen(new, u), C)) >= n - KeepRecent
    BY <1>1, <2>2, <2>3, CoversKept
  <2> QED
    BY <2>4 DEF C, n, ReadStays
<1> QED
  BY <1>2, <1>3, <1>4 DEF TableOK, RowsOK, WaitingOK

\* The turns whose numbers are numbers.
Counts(T) ==
  \A u \in Turns : /\ T[u].length \in Nat
                   /\ T[u].phase = "summarising" => Len(T[u].read) \in Nat

LEMMA TableCommit ==
  ASSUME NEW s, NEW T, NEW sum, sum.at \in Nat, Counts(T), NEW rows, NEW t,
         TableOK(rows, s, T, sum)
  PROVE  TableOK(CommitRows(rows, t), s, T, sum)
<1>1. rows \in Seq(RowOf(Owned(T, s)))
  BY DEF TableOK, RowsOK
<1>2. CommitRows(rows, t) \in Seq(RowOf(Owned(T, s)))
  BY <1>1, CommitFacts
<1>3. \A u : Carries(rows, Seen(rows, u), CommitRows(rows, t), Seen(CommitRows(rows, t), u))
  BY <1>1, CommitCarries
<1>4. \A u, n : n \in Nat /\ CountedFor(rows, u, n) => CountedFor(CommitRows(rows, t), u, n)
  BY <1>1, CountCommit
<1> QED
  BY <1>2, <1>3, <1>4, TableKept DEF Counts

LEMMA TableAppend ==
  ASSUME NEW s, NEW T, NEW sum, sum.at \in Nat, Counts(T), NEW rows,
         NEW r \in RowOf(Owned(T, s)), TableOK(rows, s, T, sum)
  PROVE  TableOK(Append(rows, r), s, T, sum)
<1>1. rows \in Seq(RowOf(Owned(T, s)))
  BY DEF TableOK, RowsOK
<1>2. Append(rows, r) \in Seq(RowOf(Owned(T, s)))
  BY <1>1, AppendRow
<1>3. \A u : Carries(rows, Seen(rows, u), Append(rows, r), Seen(Append(rows, r), u))
  BY <1>1, AppendCarries
<1>4. \A u, n : n \in Nat /\ CountedFor(rows, u, n) => CountedFor(Append(rows, r), u, n)
  BY <1>1, CountAppend
<1> QED
  BY <1>2, <1>3, <1>4, TableKept DEF Counts

LEMMA TableRollback ==
  ASSUME NEW s, NEW T, NEW sum, sum.at \in Nat, Counts(T), NEW rows,
         NEW t \in Turns, T[t].phase # "summarising", TableOK(rows, s, T, sum)
  PROVE  TableOK(RollbackRows(rows, t), s, T, sum)
<1> DEFINE P == {i \in DOMAIN rows : rows[i].open # t}
<1>1. rows \in Seq(RowOf(Owned(T, s)))
  BY DEF TableOK, RowsOK
<1>2. P \subseteq DOMAIN rows /\ RollbackRows(rows, t) = At(rows, P)
  BY DEF RollbackRows
<1>3. t # Committed
  BY DEF Turns, Committed
<1>4. \A u : u # t => Seen(rows, u) \subseteq P
  BY <1>3 DEF Seen
<1> HIDE DEF P
<1>5. At(rows, P) \in Seq(RowOf(Owned(T, s)))
  BY <1>1, <1>2, TakenAway
<1>6. \A u : u # t => Carries(rows, Seen(rows, u), At(rows, P), Seen(At(rows, P), u))
  BY <1>1, <1>2, <1>4, TakenAwayCarries
<1>7. \A u, n : n \in Nat /\ CountedFor(rows, u, n) => CountedFor(At(rows, P), u, n)
  <2>1. Seen(rows, Committed) \subseteq P
    BY <1>3, <1>4
  <2> QED
    BY <1>1, <1>2, <2>1, CountTakenAway
<1>8. /\ Carries(rows, Seen(rows, Committed), At(rows, P), Seen(At(rows, P), Committed))
      /\ \A u \in Turns : T[u].phase = "summarising" =>
           Carries(rows, Seen(rows, u), At(rows, P), Seen(At(rows, P), u))
  BY <1>3, <1>6
<1>9. TableOK(At(rows, P), s, T, sum)
  BY <1>5, <1>7, <1>8, TableKept DEF Counts
<1> QED
  BY <1>2, <1>9

\* A restart leaves what is committed.
LEMMA TableRestart ==
  ASSUME NEW s, NEW T, NEW sum, sum.at \in Nat, Counts(T), NEW rows,
         \A u \in Turns : T[u].phase # "summarising", TableOK(rows, s, T, sum)
  PROVE  TableOK(At(rows, {i \in DOMAIN rows : rows[i].open = Committed}), s, T, sum)
<1> DEFINE P == {i \in DOMAIN rows : rows[i].open = Committed}
<1>1. rows \in Seq(RowOf(Owned(T, s)))
  BY DEF TableOK, RowsOK
<1>2. P \subseteq DOMAIN rows /\ Seen(rows, Committed) \subseteq P
  BY DEF Seen
<1> HIDE DEF P
<1>3. At(rows, P) \in Seq(RowOf(Owned(T, s)))
  BY <1>1, <1>2, TakenAway
<1>4. Carries(rows, Seen(rows, Committed), At(rows, P), Seen(At(rows, P), Committed))
  BY <1>1, <1>2, TakenAwayCarries
<1>5. \A u, n : n \in Nat /\ CountedFor(rows, u, n) => CountedFor(At(rows, P), u, n)
  BY <1>1, <1>2, CountTakenAway
<1>6. TableOK(At(rows, P), s, T, sum)
  BY <1>3, <1>4, <1>5, TableKept DEF Counts
<1> QED
  BY <1>6 DEF P

-----------------------------------------------------------------------------
(* Turns go on, and what was theirs stays theirs                           *)

\* A turn keeps its session and the number of messages it counted.
Goes(a, b) ==
  /\ a.phase # "unborn" =>
       /\ b.phase # "unborn"
       /\ b.session = a.session /\ b.length = a.length
       /\ b.read \in {a.read, <<>>}
  /\ a.phase \in {"running", "done"} => b.phase \in {"running", "done"}

Later(T, U) == \A u \in Turns : Goes(T[u], U[u])

LEMMA OwnedGrows ==
  ASSUME NEW T, NEW U, Later(T, U), NEW s
  PROVE  Owned(T, s) \subseteq Owned(U, s)
BY DEF Later, Goes, Owned, Message

LEMMA TypesGrow ==
  ASSUME NEW A, NEW B, A \subseteq B
  PROVE  /\ Seq(A) \subseteq Seq(B) /\ SummaryOf(A) \subseteq SummaryOf(B)
         /\ ContextOf(A) \subseteq ContextOf(B) /\ TurnOf(A) \subseteq TurnOf(B)
         /\ RowOf(A) \subseteq RowOf(B) /\ Seq(RowOf(A)) \subseteq Seq(RowOf(B))
<1>1. RowOf(A) \subseteq RowOf(B)
  BY DEF RowOf
<1>2. Seq(A) \subseteq Seq(B) /\ Seq(RowOf(A)) \subseteq Seq(RowOf(B))
  BY <1>1, SeqMonotonic
<1>3. SummaryOf(A) \subseteq SummaryOf(B)
  BY DEF SummaryOf
<1>4. ContextOf(A) \subseteq ContextOf(B)
  BY <1>2 DEF ContextOf
<1>5. TurnOf(A) \subseteq TurnOf(B)
  BY <1>2, <1>3, <1>4 DEF TurnOf
<1> QED
  BY <1>1, <1>2, <1>3, <1>4, <1>5

\* The turns that begin, and what they may not have read.
Begins(T, U, u) == T[u].phase = "unborn" /\ U[u].phase # "unborn"

SeesNone(U, t) ==
  \A u \in Turns \ {t} : SameCount(U, t, u) => \A m \in Range(U[t].read) : m.turn # u

LEMMA StaysApart ==
  ASSUME NEW T, NEW U, Later(T, U), Apart(T), \A t \in Turns : TurnOK(T, t),
         \A t \in Turns : Begins(T, U, t) /\ U[t].length > 0 => SeesNone(U, t)
  PROVE  Apart(U)
<1> SUFFICES ASSUME NEW t \in Turns, U[t].phase # "unborn", U[t].length > 0,
                    NEW u \in Turns \ {t}, SameCount(U, t, u), NEW m \in Range(U[t].read)
             PROVE  m.turn # u
  BY DEF Apart
<1>1. CASE Begins(T, U, t)
  BY <1>1 DEF SeesNone
<1>2. CASE T[t].phase # "unborn"
  <2>1. /\ U[t].session = T[t].session /\ U[t].length = T[t].length
        /\ U[t].read \in {T[t].read, <<>>}
    BY <1>2 DEF Later, Goes
  <2>2. m \in Range(T[t].read)
    BY <2>1 DEF Range
  <2>3. m \in Owned(T, T[t].session)
    BY <1>2, <2>2, TurnFacts DEF Range
  <2>4. T[m.turn].phase # "unborn"
    BY <2>3 DEF Owned
  <2>5. CASE T[u].phase # "unborn"
    <3>1. U[u].session = T[u].session /\ U[u].length = T[u].length
      BY <2>5 DEF Later, Goes
    <3>2. SameCount(T, t, u)
      BY <2>1, <2>5, <3>1 DEF SameCount
    <3> QED
      BY <1>2, <2>1, <2>2, <3>2 DEF Apart
  <2> QED
    BY <2>4, <2>5
<1> QED
  BY <1>1, <1>2 DEF Begins

LEMMA TurnStays ==
  ASSUME NEW T, NEW U, Later(T, U), NEW t \in Turns, TurnOK(T, t), U[t] = T[t]
  PROVE  TurnOK(U, t)
<1>1. CASE T[t].phase = "unborn"
  BY <1>1 DEF TurnOK
<1>2. CASE T[t].phase # "unborn"
  <2> DEFINE s == T[t].session
  <2>1. T[t] \in TurnOf(Owned(T, s)) /\ U[t].session = s
    BY <1>2 DEF TurnOK
  <2>2. TurnOf(Owned(T, s)) \subseteq TurnOf(Owned(U, s))
    BY OwnedGrows, TypesGrow
  <2>3. U[t] \in TurnOf(Owned(U, U[t].session))
    BY <2>1, <2>2
  <2>4. ServedOK(T, t) /\ (T[t].phase = "summarising" => T[t].read # <<>> /\ T[t].length = Len(T[t].read))
    BY <1>2 DEF TurnOK
  <2>5. \A u \in Turns : SameCount(T, t, u) => SameCount(U, t, u)
    BY DEF SameCount, Later, Goes
  <2>6. ServedOK(U, t)
    BY <2>4, <2>5 DEF ServedOK
  <2> QED
    BY <1>2, <2>3, <2>4, <2>6 DEF TurnOK
<1> QED
  BY <1>1, <1>2

LEMMA CacheStays ==
  ASSUME NEW T, NEW U, Later(T, U), NEW c, CacheOK(T, c)
  PROVE  CacheOK(U, c)
<1>1. ASSUME NEW i \in DOMAIN c PROVE EntryOK(U, c[i])
  <2> DEFINE e == c[i]
  <2>1. EntryOK(T, e)
    BY DEF CacheOK
  <2> HIDE DEF e
  <2> DEFINE s == e.key[1]
  <2>2. ContextOf(Owned(T, s)) \subseteq ContextOf(Owned(U, s))
    <3> HIDE DEF s
    <3> QED
      BY OwnedGrows, TypesGrow
  <2>3. PICK u \in Turns : /\ T[u].phase \in {"running", "done"}
                           /\ T[u].session = e.key[1] /\ T[u].length = e.key[2]
    BY <2>1 DEF EntryOK
  <2>4. /\ U[u].phase \in {"running", "done"}
        /\ U[u].session = e.key[1] /\ U[u].length = e.key[2]
    BY <2>3 DEF Later, Goes
  <2>5. EntryOK(U, e)
    BY <2>1, <2>2, <2>4 DEF EntryOK
  <2> QED
    BY <2>5 DEF e
<1> QED
  BY <1>1 DEF CacheOK

\* A session's table and summary, when turns go on and none begins that counts
\* them, or one that counted them right.
LEMMA TableStays ==
  ASSUME NEW T, NEW U, Later(T, U), NEW s, NEW rows, NEW sum,
         TableOK(rows, s, T, sum),
         \A u \in Turns : Begins(T, U, u) /\ U[u].session = s /\ U[u].length > 0
                            => CountedFor(rows, u, U[u].length),
         \A u \in Turns : U[u].phase = "summarising" /\ U[u].session = s
                            => T[u].phase = "summarising" /\ U[u].read = T[u].read
  PROVE  TableOK(rows, s, U, sum)
<1>1. rows \in Seq(RowOf(Owned(U, s)))
  <2>1. Seq(RowOf(Owned(T, s))) \subseteq Seq(RowOf(Owned(U, s)))
    BY OwnedGrows, TypesGrow
  <2> QED
    BY <2>1 DEF TableOK, RowsOK
<1>2. ASSUME NEW u \in Turns, U[u].phase # "unborn", U[u].session = s, U[u].length > 0
      PROVE  CountedFor(rows, u, U[u].length)
  <2>1. CASE T[u].phase # "unborn"
    <3>1. U[u].session = T[u].session /\ U[u].length = T[u].length
      BY <2>1 DEF Later, Goes
    <3> QED
      BY <1>2, <2>1, <3>1 DEF TableOK, RowsOK
  <2> QED
    BY <1>2, <2>1 DEF Begins
<1>3. ASSUME NEW u \in Turns, U[u].phase = "summarising", U[u].session = s
      PROVE  ReadStays(rows, u, U[u].read)
  <2>1. T[u].phase = "summarising" /\ U[u].read = T[u].read
    BY <1>3
  <2>2. U[u].session = T[u].session
    BY <2>1 DEF Later, Goes
  <2> QED
    BY <1>3, <2>1, <2>2 DEF TableOK, WaitingOK
<1> QED
  BY <1>1, <1>2, <1>3 DEF TableOK, RowsOK, WaitingOK

\* Turns go on: the parts of the invariant that only speak of them.
LEMMA TurnsGoOn ==
  ASSUME NEW tables, NEW sums, NEW T, NEW c, StateOK(tables, sums, T, c),
         NEW U, DOMAIN U = Turns, Later(T, U),
         \A t \in Turns : U[t] = T[t] \/ TurnOK(U, t),
         \A t \in Turns : Begins(T, U, t) /\ U[t].length > 0 => SeesNone(U, t)
  PROVE  /\ \A t \in Turns : TurnOK(U, t)
         /\ Apart(U) /\ CacheOK(U, c) /\ Counts(U)
         /\ \A s \in Sessions : sums[s] \in SummaryOf(Owned(U, s)) /\ sums[s].at \in Nat
<1>1. \A t \in Turns : TurnOK(U, t)
  BY TurnStays DEF StateOK
<1>2. Apart(U)
  BY StaysApart DEF StateOK
<1>3. CacheOK(U, c)
  BY CacheStays DEF StateOK
<1>4. Counts(U)
  <2> SUFFICES ASSUME NEW u \in Turns
               PROVE  /\ U[u].length \in Nat
                      /\ U[u].phase = "summarising" => Len(U[u].read) \in Nat
    BY DEF Counts
  <2> QED
    BY <1>1, TurnFacts
<1>5. ASSUME NEW s \in Sessions
      PROVE  sums[s] \in SummaryOf(Owned(U, s)) /\ sums[s].at \in Nat
  <2>1. SummaryOf(Owned(T, s)) \subseteq SummaryOf(Owned(U, s))
    BY OwnedGrows, TypesGrow
  <2>2. sums[s] \in SummaryOf(Owned(U, s))
    BY <2>1 DEF StateOK
  <2> QED
    BY <2>2 DEF SummaryOf
<1> QED
  BY <1>1, <1>2, <1>3, <1>4, <1>5

-----------------------------------------------------------------------------
(* What a request counts when it begins                                    *)

\* A request sees the committed rows and its own message, which comes last.
LEMMA OwnRowSeen ==
  ASSUME NEW O, NEW old \in Seq(RowOf(O)), NEW r \in RowOf(O), NEW t,
         r.msg.turn = t, r.open = t, t # Committed,
         \A i \in DOMAIN old : old[i].msg.turn # t
  PROVE  /\ Seen(Append(old, r), t) = Seen(old, Committed) \cup {Len(old) + 1}
         /\ Cardinality(Seen(Append(old, r), t)) = Cardinality(Seen(old, Committed)) + 1
         /\ CountedFor(old, t, Cardinality(Seen(Append(old, r), t)))
<1> DEFINE V == Seen(old, Committed)
           W == Seen(Append(old, r), t)
<1>1. /\ Len(old) \in Nat /\ DOMAIN old = 1..Len(old)
      /\ DOMAIN Append(old, r) = 1..Len(old) + 1
      /\ \A i \in 1..Len(old) : Append(old, r)[i] = old[i]
      /\ Append(old, r)[Len(old) + 1] = r
  BY AppendRow
<1>2. \A i \in DOMAIN old : old[i].open \in {Committed, old[i].msg.turn}
  BY SeenPositions
<1>3. \A i \in DOMAIN old : old[i].open \in {Committed, t} <=> old[i].open = Committed
  BY <1>2
<1>4. W = V \cup {Len(old) + 1}
  BY <1>1, <1>3 DEF Seen
<1>5. Len(old) + 1 \notin V /\ IsFiniteSet(V) /\ Cardinality(V) \in Nat
  <2>1. V \subseteq DOMAIN old /\ IsPositions(V)
    BY SeenPositions
  <2> HIDE DEF V
  <2> QED
    BY <1>1, <2>1, PositionFacts
<1> HIDE DEF V
<1>6. Cardinality(W) = Cardinality(V) + 1
  BY <1>4, <1>5, FS_AddElement
<1>7. Cardinality(V) >= Cardinality(W) - 1
  BY <1>5, <1>6
<1> QED
  BY <1>4, <1>6, <1>7 DEF CountedFor, V

\* No message of a turn that counted as many is among them.
LEMMA CountedApart ==
  ASSUME NEW O, NEW old \in Seq(RowOf(O)), NEW r \in RowOf(O), NEW t,
         r.msg.turn = t, r.open = t, t # Committed,
         \A i \in DOMAIN old : old[i].msg.turn # t,
         NEW u, u # t, CountedFor(old, u, Len(Visible(Append(old, r), t))),
         NEW m \in Range(Visible(Append(old, r), t))
  PROVE  m.turn # u
<1> DEFINE V == Seen(old, Committed)
           rows == Append(old, r)
           n == Cardinality(Seen(rows, t))
<1>1. /\ rows \in Seq(RowOf(O)) /\ Len(old) \in Nat /\ DOMAIN old = 1..Len(old)
      /\ \A i \in 1..Len(old) : rows[i] = old[i]
      /\ rows[Len(old) + 1] = r
  BY AppendRow
<1>2. Seen(rows, t) = V \cup {Len(old) + 1} /\ n = Cardinality(V) + 1
  BY OwnRowSeen
<1>0. m \in Range(Visible(rows, t)) /\ CountedFor(old, u, Len(Visible(rows, t)))
  OBVIOUS
<1> HIDE DEF rows
<1>3. Len(Visible(rows, t)) = n
  BY <1>1, VisibleFacts
<1>4. PICK p \in Seen(rows, t) : rows[p].msg = m
  BY <1>0, <1>1, ReadIsSeen
<1>5. V \subseteq DOMAIN old /\ IsPositions(V) /\ Cardinality(V) \in Nat
  BY SeenPositions
<1>6. \A q \in DOMAIN old : old[q].msg.turn = u => Cardinality(Before(V, q)) >= n - 1
  BY <1>0, <1>3 DEF CountedFor
<1> HIDE DEF V, n
<1>7. SUFFICES ASSUME m.turn = u PROVE FALSE
  OBVIOUS
<1>8. p # Len(old) + 1
  BY <1>1, <1>4, <1>7
<1>9. p \in V /\ p \in DOMAIN old /\ old[p].msg.turn = u
  BY <1>1, <1>2, <1>4, <1>5, <1>7, <1>8
<1>10. Cardinality(Before(V, p)) >= Cardinality(V)
  BY <1>2, <1>5, <1>6, <1>9
<1>11. /\ Before(V, p) \in SUBSET V /\ IsFiniteSet(V) /\ p \notin Before(V, p)
  <2>1. p \in Nat
    BY <1>5, <1>9, PositionFacts
  <2> QED
    BY <1>5, <2>1 DEF Before, IsPositions
<1>12. /\ Cardinality(Before(V, p)) <= Cardinality(V)
       /\ Cardinality(V) = Cardinality(Before(V, p)) => V = Before(V, p)
       /\ Cardinality(Before(V, p)) \in Nat
  BY <1>11, FS_Subset, FS_CardinalityType
<1> QED
  BY <1>5, <1>9, <1>10, <1>11, <1>12

\* The last messages read follow each of the others.
LEMMA FollowedBy ==
  ASSUME NEW V, IsPositions(V), NEW k \in Nat, k \in 1..Cardinality(V) - KeepRecent
  PROVE  Cardinality({i \in V : i > Nth(V, k)}) >= KeepRecent
<1> DEFINE after == {i \in V : i > Nth(V, k)}
           A == 1..KeepRecent
           f == [j \in A |-> Nth(V, k + j)]
<1>1. KeepRecent \in Nat /\ Cardinality(V) \in Nat
  BY ConversationAssumption, PositionFacts
<1>2. \A j \in A : k + j \in 1..Cardinality(V) /\ k \in 1..Cardinality(V) /\ k < k + j
  BY <1>1
<1>3. \A j \in A : Nth(V, k + j) \in V /\ Nth(V, k) < Nth(V, k + j)
  BY <1>2, NthRank, NthGrows
<1>4. \A j \in A : f[j] \in after
  <2>1. \A i \in V : i \in Nat
    BY PositionFacts
  <2>2. \A j \in A : Nth(V, k) \in V
    BY <1>2, NthRank
  <2> QED
    BY <1>3, <2>1, <2>2
<1>5. \A i, j \in A : i < j => f[i] < f[j]
  <2>1. \A i, j \in A : i < j => k + i < k + j
    BY <1>1
  <2> QED
    BY <1>2, <2>1, NthGrows
<1>6. IsFiniteSet(A) /\ Cardinality(A) = KeepRecent /\ A \subseteq Nat
  <2>1. /\ IsFiniteSet(1..KeepRecent)
        /\ Cardinality(1..KeepRecent) = IF 1 > KeepRecent THEN 0 ELSE KeepRecent - 1 + 1
    BY <1>1, FS_Interval
  <2>2. Cardinality(1..KeepRecent) = KeepRecent
    BY <1>1, <2>1
  <2> QED
    BY <2>1, <2>2
<1>7. after \subseteq V
  OBVIOUS
<1> HIDE DEF after, A, f
<1>8. IsPositions(A) /\ IsPositions(after)
  BY <1>6, <1>7, SubsetCount DEF IsPositions
<1>9. Cardinality(A) <= Cardinality(after)
  BY <1>4, <1>5, <1>8, IncreasingMap
<1> QED
  BY <1>6, <1>9 DEF after

LEMMA ReadStaysAtFirst ==
  ASSUME NEW O, NEW rows \in Seq(RowOf(O)), NEW t
  PROVE  ReadStays(rows, t, Visible(rows, t))
<1> DEFINE V == Seen(rows, t)
           read == Visible(rows, t)
           n == Cardinality(V)
           C == Range(Older(read))
           A == 1..n - KeepRecent
           B == CoveredAt(rows, V, C)
           f == [k \in A |-> Nth(V, k)]
<1>1. /\ read \in Seq(O) /\ Len(read) = n /\ n \in Nat /\ KeepRecent \in Nat
      /\ \A k \in 1..n : Nth(V, k) \in V /\ read[k] = rows[Nth(V, k)].msg
      /\ IsPositions(V)
  BY VisibleFacts, SeenPositions, ConversationAssumption
<1>2. SUFFICES ASSUME n > KeepRecent PROVE Cardinality(B) >= n - KeepRecent
  BY <1>1 DEF ReadStays
<1>3. \A k \in A : k \in 1..n /\ k \in Nat /\ k \in 1..Len(read) - KeepRecent
  BY <1>1
<1>4. \A k \in A : read[k] \in C
  <2>1. /\ Older(read) \in Seq(O) /\ Len(Older(read)) = n - KeepRecent
        /\ \A k \in 1..n - KeepRecent : Older(read)[k] = read[k]
    BY <1>1, <1>2, OlderFacts
  <2> HIDE DEF read
  <2>2. \A k \in A : k \in DOMAIN Older(read) /\ Older(read)[k] = read[k]
    BY <2>1
  <2> QED
    BY <2>2 DEF Range
<1>5. \A k \in A : f[k] \in B
  <2> HIDE DEF V, read, n, C
  <2>1. ASSUME NEW k \in A PROVE Nth(V, k) \in CoveredAt(rows, V, C)
    <3>1. k \in 1..n /\ k \in Nat /\ k \in 1..Cardinality(V) - KeepRecent
      BY <1>3 DEF n
    <3>2. Nth(V, k) \in V /\ rows[Nth(V, k)].msg \in C
      BY <1>1, <1>4, <3>1
    <3>3. Cardinality({i \in V : i > Nth(V, k)}) >= KeepRecent
      BY <1>1, <3>1, FollowedBy
    <3> QED
      BY <3>2, <3>3 DEF CoveredAt
  <2> QED
    BY <2>1
<1>6. \A i, j \in A : i < j => f[i] < f[j]
  BY <1>1, <1>3, NthGrows
<1>7. IsFiniteSet(A) /\ Cardinality(A) = n - KeepRecent /\ A \subseteq Nat
  <2> HIDE DEF n
  <2> QED
    BY <1>1, <1>2, FS_Interval
<1>8. B \subseteq V
  BY DEF CoveredAt
<1> HIDE DEF A, B, V, f, n
<1>9. IsPositions(A) /\ IsPositions(B)
  BY <1>1, <1>7, <1>8, SubsetCount DEF IsPositions
<1>10. Cardinality(A) <= Cardinality(B)
  BY <1>5, <1>6, <1>9, IncreasingMap
<1> QED
  BY <1>7, <1>10

-----------------------------------------------------------------------------
(* What a offered may leave out                                            *)

\* Positions that as many others follow are among the first.
LEMMA EarlyRank ==
  ASSUME NEW V, IsPositions(V), NEW p \in V,
         Cardinality({i \in V : i > p}) >= KeepRecent
  PROVE  Rank(V, p) \in 1..Cardinality(V) - KeepRecent
<1> DEFINE low == {i \in V : i <= p}
           high == {i \in V : i > p}
<1>1. low \subseteq V /\ high \subseteq V /\ low \cap high = {} /\ low \cup high = V
  <2>1. \A i \in V : i \in Nat
    BY PositionFacts
  <2> QED
    BY <2>1
<1>2. Rank(V, p) = Cardinality(low) /\ Cardinality(high) >= KeepRecent
  BY DEF Rank
<1> HIDE DEF low, high
<1>3. /\ Cardinality(low) \in Nat /\ Cardinality(high) \in Nat /\ Cardinality(V) \in Nat
      /\ IsFiniteSet(low) /\ IsFiniteSet(high)
  BY <1>1, SubsetCount DEF IsPositions
<1>4. Cardinality(V) = Cardinality(low) + Cardinality(high) - Cardinality(low \cap high)
  BY <1>1, <1>3, FS_Union
<1>5. Cardinality(low \cap high) = 0
  BY <1>1, FS_EmptySet
<1>6. Rank(V, p) \in 1..Cardinality(V)
  BY RankGrows
<1> QED
  BY <1>2, <1>3, <1>4, <1>5, <1>6, ConversationAssumption

\* A summary that is not due leaves out fewer messages than make it due.
LEMMA NotDue ==
  ASSUME NEW O, NEW rows \in Seq(RowOf(O)), NEW t, NEW sum \in SummaryOf(O),
         SummaryCovers(rows, sum), ~NeedsSummary(Visible(rows, t), sum.at)
  PROVE  FewForgotten(Visible(rows, t), sum.covers)
<1> DEFINE V == Seen(rows, t)
           read == Visible(rows, t)
           n == Cardinality(V)
           C == sum.covers
           X == CoveredAt(rows, V, C)
           first == 1..n - KeepRecent
           out == {k \in first : read[k] \notin C}
           in == {k \in first : read[k] \in C}
<1>1. /\ read \in Seq(O) /\ Len(read) = n /\ n \in Nat
      /\ \A k \in 1..n : Nth(V, k) \in V /\ read[k] = rows[Nth(V, k)].msg
      /\ IsPositions(V)
  BY VisibleFacts, SeenPositions
<1>2. KeepRecent \in Nat /\ Regenerate \in Nat \ {0} /\ sum.at \in Nat
  BY ConversationAssumption DEF SummaryOf
<1>3. n - sum.at < Regenerate
  BY <1>1, <1>2 DEF NeedsSummary
<1>4. /\ Older(read) \in Seq(O)
      /\ Len(Older(read)) = IF n > KeepRecent THEN n - KeepRecent ELSE 0
      /\ \A i \in first : Older(read)[i] = read[i]
  BY <1>1, OlderFacts
<1>5. /\ IsPositions(first)
      /\ Cardinality(first) = IF n > KeepRecent THEN n - KeepRecent ELSE 0
  <2>1. IsFiniteSet(first) /\ Cardinality(first) = IF n > KeepRecent THEN n - KeepRecent ELSE 0
    <3> HIDE DEF n
    <3> DEFINE b == n - KeepRecent
    <3>1. b \in Int
      BY <1>1, <1>2
    <3>2. IsFiniteSet(1..b) /\ Cardinality(1..b) = IF 1 > b THEN 0 ELSE b - 1 + 1
      <4> HIDE DEF b
      <4> QED
        BY <3>1, FS_Interval
    <3> QED
      BY <1>1, <1>2, <3>2
  <2> QED
    BY <2>1 DEF IsPositions
<1>6. Range(Older(read)) \ C \subseteq {read[k] : k \in out}
  <2>1. \A k \in DOMAIN Older(read) : k \in first
    <3> HIDE DEF n, read
    <3> QED
      BY <1>1, <1>2, <1>4
  <2> QED
    BY <1>4, <2>1 DEF Range
<1>7. out \subseteq first /\ in \subseteq first /\ out \cup in = first /\ out \cap in = {}
  OBVIOUS
<1>8. sum.at > KeepRecent => Cardinality(X) >= sum.at - KeepRecent
  <2>1. Seen(rows, Committed) \subseteq V
    BY DEF Seen
  <2>2. Carries(rows, Seen(rows, Committed), rows, V)
    BY <2>1, SameCarries
  <2>3. /\ Cardinality(CoveredAt(rows, Seen(rows, Committed), C)) \in Nat
        /\ Cardinality(X) \in Nat
        /\ Cardinality(CoveredAt(rows, Seen(rows, Committed), C)) <= Cardinality(X)
    BY <2>2, SeenPositions, CoveredCarried
  <2> QED
    BY <1>2, <2>3 DEF SummaryCovers
<1>9. \A p \in X : p \in V /\ rows[p].msg \in C /\ Cardinality({i \in V : i > p}) >= KeepRecent
  BY DEF CoveredAt
<1> HIDE DEF V, read, C, X
<1>10. \A p \in X : Rank(V, p) \in in
  <2> SUFFICES ASSUME NEW p \in X PROVE Rank(V, p) \in in
    OBVIOUS
  <2>1. p \in V /\ Rank(V, p) \in 1..Cardinality(V) - KeepRecent
    BY <1>1, <1>9, EarlyRank
  <2>2. Rank(V, p) \in 1..Cardinality(V) /\ p = Nth(V, Rank(V, p))
    BY <1>1, <2>1, RankGrows, NthGrows
  <2>3. read[Rank(V, p)] = rows[p].msg
    BY <1>1, <2>2
  <2> QED
    BY <1>9, <2>1, <2>3
<1> HIDE DEF in, out, first, n
<1>11. /\ IsPositions(in) /\ IsPositions(out) /\ IsPositions(X)
       /\ Cardinality(in) \in Nat /\ Cardinality(out) \in Nat /\ Cardinality(X) \in Nat
  <2>1. X \subseteq V
    BY <1>9
  <2> QED
    BY <1>1, <1>5, <1>7, <2>1, SubsetCount
<1>12. Cardinality(X) <= Cardinality(in)
  <2> DEFINE f == [p \in V |-> Rank(V, p)]
  <2>1. \A p \in X : f[p] \in in
    BY <1>9, <1>10
  <2>2. \A p, q \in X : p < q => f[p] < f[q]
    BY <1>1, <1>9, RankGrows
  <2> HIDE DEF f
  <2> QED
    BY <1>11, <2>1, <2>2, IncreasingMap
<1>13. Cardinality(out) + Cardinality(in) = Cardinality(first)
  <2>1. Cardinality(out \cap in) = 0
    BY <1>7, FS_EmptySet
  <2>2. Cardinality(out \cup in) = Cardinality(out) + Cardinality(in) - Cardinality(out \cap in)
    BY <1>11, FS_Union DEF IsPositions
  <2>3. Cardinality(out \cup in) = Cardinality(first)
    BY <1>7
  <2> QED
    BY <1>11, <2>1, <2>2, <2>3
<1>14. Cardinality(out) < Regenerate
  BY <1>1, <1>2, <1>3, <1>5, <1>8, <1>11, <1>12, <1>13
<1>15. /\ Cardinality(Range(Older(read)) \ C) \in Nat
       /\ Cardinality(Range(Older(read)) \ C) <= Cardinality(out)
  BY <1>6, <1>11, FewMessages
<1>16. Cardinality(Range(Older(read)) \ C) < Regenerate
  BY <1>2, <1>11, <1>14, <1>15
<1> QED
  BY <1>16 DEF FewForgotten, read, C

\* A summary just made leaves nothing out.
LEMMA JustMade ==
  ASSUME NEW O, NEW read \in Seq(O), NEW prior \in SummaryOf(O)
  PROVE  /\ Summarised(read, prior) \in SummaryOf(O)
         /\ Summarised(read, prior).at = Len(read)
         /\ Len(read) > KeepRecent => Range(Older(read)) \subseteq Summarised(read, prior).covers
         /\ FewForgotten(read, Summarised(read, prior).covers)
<1>1. /\ Older(read) \in Seq(O)
      /\ Len(Older(read)) = IF Len(read) > KeepRecent THEN Len(read) - KeepRecent ELSE 0
  BY OlderFacts
<1>2. Range(read) \subseteq O /\ Range(Older(read)) \subseteq O /\ Len(read) \in Nat
  BY <1>1 DEF Range
<1>3. Summarised(read, prior) \in SummaryOf(O) /\ Summarised(read, prior).at = Len(read)
  BY <1>2 DEF Summarised, SummaryOf
<1>4. Len(read) > KeepRecent => Range(Older(read)) \subseteq Summarised(read, prior).covers
  BY DEF Summarised
<1>5. ~(Len(read) > KeepRecent) => Range(Older(read)) = {}
  <2>1. ~(Len(read) > KeepRecent) => DOMAIN Older(read) = {}
    BY <1>1
  <2> QED
    BY <2>1 DEF Range
<1>6. Range(Older(read)) \ Summarised(read, prior).covers = {}
  BY <1>4, <1>5
<1>7. FewForgotten(read, Summarised(read, prior).covers)
  <2>1. Cardinality(Range(Older(read)) \ Summarised(read, prior).covers) = 0
    BY <1>6, FS_EmptySet
  <2> QED
    BY <2>1, ConversationAssumption DEF FewForgotten
<1> QED
  BY <1>3, <1>4, <1>7

-----------------------------------------------------------------------------
(* Serving a request                                                       *)

LEMMA ValidateFacts ==
  ASSUME NEW O, NEW rows \in Seq(RowOf(O)), NEW msgs \in Seq(O), NEW led, NEW t
  PROVE  /\ Validate(led, msgs, rows, t).msgs \in Seq(O)
         /\ Validate(led, msgs, rows, t).from \in {"assembled", "recovered"}
         /\ Recovered(rows, t) \in Seq(O)
<1>1. Sanitized(msgs) \in Seq(O)
  <2>1. {i \in DOMAIN msgs : ~Blank(msgs[i])} \subseteq DOMAIN msgs
    OBVIOUS
  <2> QED
    BY <2>1, AtFacts DEF Sanitized
<1>2. Recovered(rows, t) \in Seq(O)
  <2>1. Visible(rows, t) \in Seq(O)
    BY VisibleFacts
  <2> QED
    BY <2>1, RecentType, ConversationAssumption DEF Recovered
<1> QED
  BY <1>1, <1>2 DEF Validate

LEMMA PlainType ==
  ASSUME NEW O, NEW msgs \in Seq(O)
  PROVE  Plain(msgs) \in ContextOf(O)
BY DEF Plain, NoContext, ContextOf

LEMMA RollbackType ==
  ASSUME NEW O, NEW rows \in Seq(RowOf(O)), NEW t
  PROVE  RollbackRows(rows, t) \in Seq(RowOf(O))
<1>1. {i \in DOMAIN rows : rows[i].open # t} \subseteq DOMAIN rows
  OBVIOUS
<1> QED
  BY <1>1, AtFacts DEF RollbackRows

\* What a request may do to its open row while it is served.
Settled(rows, t) == {rows, CommitRows(rows, t), RollbackRows(rows, t)}

GivenTo(t, me, from, offered, after) ==
  /\ table' = [table EXCEPT ![me.session] = after]
  /\ Given(t, me, from, offered)

\* ensure_valid_messages gives the run what was assembled, or messages of the
\* table, or the request's own.
LEMMA EnsureFacts ==
  ASSUME NEW O, NEW rows \in Seq(RowOf(O)), NEW offered \in ContextOf(O), NEW t, NEW me,
         me.read \in Seq(O), me.read # <<>>, EnsureValid(t, me, rows, offered)
  PROVE  \E after \in Settled(rows, t), given \in ContextOf(O),
            from \in {"assembled", "recovered", "minimal"} :
           /\ GivenTo(t, me, from, given, after)
           /\ from = "assembled" => given = offered
<1> DEFINE first == Validate(TRUE, offered.msgs, rows, t)
<1>1. offered.msgs \in Seq(O)
  BY DEF ContextOf
<1>2. first.msgs \in Seq(O) /\ first.from \in {"assembled", "recovered"}
  BY <1>1, ValidateFacts
<1>3. CASE first.valid
  <2>1. /\ table' = [table EXCEPT ![me.session] = rows]
        /\ Given(t, me, first.from, IF first.from = "assembled" THEN offered ELSE Plain(first.msgs))
    BY <1>3 DEF EnsureValid
  <2> HIDE DEF first
  <2>2. CASE first.from = "assembled"
    <3>1. GivenTo(t, me, "assembled", offered, rows)
      BY <2>1, <2>2 DEF GivenTo
    <3> QED
      BY <3>1 DEF Settled
  <2>3. CASE first.from = "recovered"
    <3>1. GivenTo(t, me, "recovered", Plain(first.msgs), rows)
      BY <2>1, <2>3 DEF GivenTo
    <3> QED
      BY <1>2, <3>1, PlainType DEF Settled
  <2> QED
    BY <1>2, <2>2, <2>3
<1>4. CASE ~first.valid
  <2>1. PICK after \in {CommitRows(rows, t), RollbackRows(rows, t)} :
          LET back == Recovered(after, t)
              again == Validate(FALSE, back, after, t)
          IN /\ table' = [table EXCEPT ![me.session] = after]
             /\ IF back # <<>> /\ again.valid
                THEN Given(t, me, "recovered", Plain(again.msgs))
                ELSE Given(t, me, "minimal", Plain(<<me.read[Len(me.read)]>>))
    BY <1>4 DEF EnsureValid
  <2>2. after \in Seq(RowOf(O)) /\ after \in Settled(rows, t)
    BY CommitFacts, RollbackType DEF Settled
  <2> DEFINE back == Recovered(after, t)
             again == Validate(FALSE, back, after, t)
             last == <<me.read[Len(me.read)]>>
  <2>3. back \in Seq(O)
    BY <1>1, <2>2, ValidateFacts
  <2>4. again.msgs \in Seq(O)
    BY <2>2, <2>3, ValidateFacts
  <2>5. last \in Seq(O)
    OBVIOUS
  <2>6. /\ Plain(again.msgs) \in ContextOf(O)
        /\ Plain(last) \in ContextOf(O)
    BY <2>4, <2>5, PlainType
  <2>7. \/ GivenTo(t, me, "recovered", Plain(again.msgs), after)
        \/ GivenTo(t, me, "minimal", Plain(last), after)
    BY <2>1 DEF GivenTo
  <2> HIDE DEF again, last
  <2> QED
    BY <2>2, <2>6, <2>7
<1> QED
  BY <1>3, <1>4

\* What was assembled is made of the history read and its summary, or taken
\* from the entry of a turn that counted as many.
FromTurn(T, s, n) ==
  \E u \in Turns : /\ T[u].phase \in {"running", "done"}
                   /\ T[u].session = s /\ T[u].length = n

LEMMA ServeFacts ==
  ASSUME NEW T, CacheOK(T, cache), NEW t, NEW me, NEW O,
         Owned(T, me.session) \subseteq O,
         me.session \in Sessions, me.read \in Seq(O), me.read # <<>>,
         me.summary \in SummaryOf(O),
         NEW rows \in Seq(RowOf(O)), Serve(t, me, rows)
  PROVE  \E after \in Settled(rows, t), given \in ContextOf(O),
            from \in {"assembled", "recovered", "minimal"} :
           /\ GivenTo(t, me, from, given, after)
           /\ from = "assembled" =>
                /\ Alternates(given.msgs)
                /\ given.compacted => given.covers = me.summary.covers
                /\ \/ given = Assemble(me.read, me.summary)
                   \/ FromTurn(T, me.session, Len(me.read))
           /\ \/ cache' = cache
              \/ cache' = WithEntry([key |-> CacheKey(me.session, me.read, me.summary),
                                     context |-> Assemble(me.read, me.summary)])
<1> DEFINE key == CacheKey(me.session, me.read, me.summary)
           hits == Cached(key)
           made == Assemble(me.read, me.summary)
           offered == IF hits # {} THEN cache[CHOOSE i \in hits : TRUE].context ELSE made
<1>1. /\ cache' = IF hits # {} THEN cache ELSE WithEntry([key |-> key, context |-> offered])
      /\ EnsureValid(t, me, rows, offered)
  BY DEF Serve
<1>2. /\ made \in ContextOf(O) /\ Alternates(made.msgs)
      /\ made.compacted => made.covers = me.summary.covers
  BY AssembleFacts
<1>3. /\ offered \in ContextOf(O) /\ Alternates(offered.msgs)
      /\ offered.compacted => offered.covers = me.summary.covers
      /\ offered = made \/ FromTurn(T, me.session, Len(me.read))
  <2>1. CASE hits = {}
    BY <1>2, <2>1
  <2>2. CASE hits # {}
    <3>1. PICK i \in hits : offered = cache[i].context
      BY <2>2
    <3>2. i \in DOMAIN cache /\ cache[i].key = key
      BY DEF Cached
    <3> DEFINE e == cache[i]
    <3>3. EntryOK(T, e) /\ e.key = key /\ offered = e.context
      BY <3>1, <3>2 DEF CacheOK
    <3>4. key[1] = me.session /\ key[2] = Len(me.read) /\ key[3] = me.summary
      BY DEF CacheKey
    <3> HIDE DEF e, key, offered
    <3>5. ContextOf(Owned(T, me.session)) \subseteq ContextOf(O)
      BY TypesGrow
    <3> QED
      BY <3>3, <3>4, <3>5 DEF EntryOK, FromTurn
  <2> QED
    BY <2>1, <2>2
<1>4. \/ cache' = cache
      \/ cache' = WithEntry([key |-> key, context |-> made])
  BY <1>1
<1> HIDE DEF made, offered, key
<1>5. PICK after \in Settled(rows, t), given \in ContextOf(O),
           from \in {"assembled", "recovered", "minimal"} :
        /\ GivenTo(t, me, from, given, after)
        /\ from = "assembled" => given = offered
  BY <1>1, <1>3, EnsureFacts
<1>6. from = "assembled" =>
        /\ Alternates(given.msgs)
        /\ given.compacted => given.covers = me.summary.covers
        /\ given = made \/ FromTurn(T, me.session, Len(me.read))
  BY <1>3, <1>5
<1> QED
  BY <1>4, <1>5, <1>6 DEF made, key

\* prepare_context_for_llm stores the context it made, and drops the oldest.
LEMMA CacheWith ==
  ASSUME NEW T, CacheOK(T, cache), NEW e \in CacheEntry, EntryOK(T, e)
  PROVE  CacheOK(T, WithEntry(e))
<1> DEFINE c == IF Len(cache) >= CacheSize THEN Tail(cache) ELSE cache
<1>1. cache \in Seq(CacheEntry) /\ Len(cache) <= CacheSize /\ Len(cache) \in Nat
      /\ \A i \in DOMAIN cache : EntryOK(T, cache[i])
  BY DEF CacheOK
<1>2. CacheSize \in Nat \ {0}
  BY ConversationAssumption
<1>3. /\ c \in Seq(CacheEntry) /\ Len(c) < CacheSize /\ Len(c) \in Nat
      /\ \A i \in DOMAIN c : EntryOK(T, c[i])
  <2>1. CASE Len(cache) >= CacheSize
    <3>1. cache # <<>> /\ c = Tail(cache)
      BY <1>1, <1>2, <2>1
    <3> HIDE DEF c
    <3>2. /\ c \in Seq(CacheEntry) /\ Len(c) = Len(cache) - 1
          /\ \A i \in 1..Len(c) : c[i] = cache[i + 1]
      BY <1>1, <3>1, HeadTailProperties
    <3>3. Len(c) \in Nat /\ DOMAIN c = 1..Len(c) /\ DOMAIN cache = 1..Len(cache)
      BY <1>1, <3>2, LenProperties
    <3>4. Len(c) < CacheSize
      BY <1>1, <1>2, <3>2, <3>3
    <3>5. ASSUME NEW i \in DOMAIN c PROVE EntryOK(T, c[i])
      <4>1. c[i] = cache[i + 1] /\ i + 1 \in DOMAIN cache
        BY <1>1, <3>2, <3>3
      <4> QED
        BY <1>1, <4>1
    <3> QED
      BY <3>2, <3>3, <3>4, <3>5
  <2>2. CASE ~(Len(cache) >= CacheSize)
    <3>1. c = cache
      BY <2>2
    <3> QED
      BY <1>1, <1>2, <2>2, <3>1
  <2> QED
    BY <2>1, <2>2
<1>4. WithEntry(e) = Append(c, e)
  BY DEF WithEntry
<1> HIDE DEF c
<1>5. /\ Append(c, e) \in Seq(CacheEntry) /\ Len(Append(c, e)) = Len(c) + 1
      /\ DOMAIN Append(c, e) = DOMAIN c \cup {Len(c) + 1}
      /\ \A i \in DOMAIN c : Append(c, e)[i] = c[i]
      /\ Append(c, e)[Len(c) + 1] = e
  BY <1>3
<1>6. \A i \in DOMAIN Append(c, e) : EntryOK(T, Append(c, e)[i])
  BY <1>3, <1>5
<1> QED
  BY <1>2, <1>3, <1>4, <1>5, <1>6 DEF CacheOK

\* The record of a request as it is when the context is assembled; done stands
\* for a phase that asks nothing of it.
MeOf(O) ==
  [phase : {"unborn", "summarising", "running", "done"}, session : Sessions, blank : BOOLEAN,
   read : Seq(O), summary : SummaryOf(O), unsummarised : BOOLEAN,
   from : {"nothing", "assembled", "recovered", "minimal", "socket"},
   context : ContextOf(O), length : Nat]

Phased(me, phase) == [me EXCEPT !.phase = phase]
Running(me, from, offered) ==
  [me EXCEPT !.phase = "running", !.from = from, !.context = offered]

LEMMA PhasedFacts ==
  ASSUME NEW O, NEW me \in MeOf(O), NEW phase \in {"summarising", "running", "done"}
  PROVE  /\ Phased(me, phase) \in TurnOf(O) /\ Phased(me, phase).phase = phase
         /\ Phased(me, phase).session = me.session /\ Phased(me, phase).read = me.read
         /\ Phased(me, phase).length = me.length
BY DEF Phased, MeOf, TurnOf

LEMMA RunningFacts ==
  ASSUME NEW O, NEW me \in MeOf(O), NEW offered \in ContextOf(O),
         NEW from \in {"assembled", "recovered", "minimal"}
  PROVE  LET r == Running(me, from, offered)
         IN /\ r \in TurnOf(O) /\ r.phase = "running" /\ r.session = me.session
            /\ r.read = me.read /\ r.length = me.length /\ r.summary = me.summary
            /\ r.unsummarised = me.unsummarised /\ r.from = from /\ r.context = offered
BY DEF Running, MeOf, TurnOf

LEMMA MeFields ==
  ASSUME NEW O, NEW me \in MeOf(O)
  PROVE  /\ me.session \in Sessions /\ me.read \in Seq(O) /\ me.summary \in SummaryOf(O)
         /\ me.length \in Nat /\ me.unsummarised \in BOOLEAN
BY DEF MeOf

\* D is the value of turn with the request done, tables that of table before
\* the context is validated: from there to the request's run.
LEMMA ServeStep ==
  ASSUME NEW tables, NEW sums, NEW D, StateOK(tables, sums, D, cache),
         CacheOK(turn, cache), DOMAIN turn = Turns, DOMAIN table = Sessions,
         NEW t \in Turns, turn[t].phase \notin {"running", "done"},
         NEW me, me \in MeOf(Owned(D, me.session)),
         D[t] = Phased(me, "done"), \A u \in Turns \ {t} : D[u] = turn[u],
         \A s \in Sessions \ {me.session} : tables[s] = table[s],
         me.read # <<>>, me.length = Len(me.read),
         me.unsummarised \/ FewForgotten(me.read, me.summary.covers),
         NEW rows, rows = tables[me.session], Serve(t, me, rows)
  PROVE  StateOK(table', sums, turn', cache')
<1> DEFINE s == me.session
           O == Owned(D, s)
           n == Len(me.read)
<1>1. /\ s \in Sessions /\ me.read \in Seq(O) /\ me.summary \in SummaryOf(O)
      /\ me.unsummarised \in BOOLEAN
  BY MeFields
<1>2. n \in Nat /\ n > 0
  BY <1>1
<1>3. /\ D[t].phase = "done" /\ D[t].session = s /\ D[t].read = me.read /\ D[t].length = n
  BY PhasedFacts
<1>4. Owned(turn, s) \subseteq O
  BY <1>3 DEF Owned, Message
<1>5. TableOK(rows, s, D, sums[s]) /\ rows \in Seq(RowOf(O))
  BY <1>1 DEF StateOK, TableOK, RowsOK
<1>6. PICK after \in Settled(rows, t), given \in ContextOf(O),
           from \in {"assembled", "recovered", "minimal"} :
        /\ GivenTo(t, me, from, given, after)
        /\ from = "assembled" =>
             /\ Alternates(given.msgs)
             /\ given.compacted => given.covers = me.summary.covers
             /\ given = Assemble(me.read, me.summary) \/ FromTurn(turn, s, n)
        /\ \/ cache' = cache
           \/ cache' = WithEntry([key |-> CacheKey(s, me.read, me.summary),
                                  context |-> Assemble(me.read, me.summary)])
  BY <1>1, <1>4, <1>5, ServeFacts
<1> DEFINE U == turn'
<1>7. /\ DOMAIN U = Turns /\ U[t] = Running(me, from, given)
      /\ \A u \in Turns \ {t} : U[u] = D[u]
  BY <1>6 DEF GivenTo, Given, Running
<1>8. /\ DOMAIN table' = Sessions /\ table'[s] = after
      /\ \A x \in Sessions \ {s} : table'[x] = tables[x]
  BY <1>1, <1>6 DEF GivenTo
<1>9. /\ U[t] \in TurnOf(O) /\ U[t].phase = "running" /\ U[t].session = s
      /\ U[t].read = me.read /\ U[t].length = n /\ U[t].summary = me.summary
      /\ U[t].unsummarised = me.unsummarised /\ U[t].from = from /\ U[t].context = given
  BY <1>7, RunningFacts
<1> HIDE DEF s, O, n, U
<1>10. Later(D, U)
  <2> SUFFICES ASSUME NEW u \in Turns PROVE Goes(D[u], U[u])
    BY DEF Later
  <2>1. CASE u = t
    BY <1>3, <1>9, <2>1 DEF Goes
  <2>2. CASE u # t
    BY <1>7, <2>2 DEF Goes
  <2> QED
    BY <2>1, <2>2
<1>11. O \subseteq Owned(U, s)
  BY <1>10, OwnedGrows DEF O
<1>12. ServedOK(U, t)
  <2> SUFFICES ASSUME from = "assembled"
               PROVE  /\ Alternates(given.msgs) /\ U[t].length > 0
                      /\ \/ given = Assemble(me.read, me.summary)
                         \/ \E u \in Turns \ {t} : SameCount(U, t, u)
                      /\ given.compacted => me.unsummarised \/ FewForgotten(me.read, given.covers)
    BY <1>9 DEF ServedOK
  <2>1. ASSUME FromTurn(turn, s, n) PROVE \E u \in Turns \ {t} : SameCount(U, t, u)
    <3>1. PICK u \in Turns : /\ turn[u].phase \in {"running", "done"}
                             /\ turn[u].session = s /\ turn[u].length = n
      BY <2>1 DEF FromTurn
    <3>2. u # t
      BY <3>1
    <3>3. U[u] = turn[u]
      BY <1>7, <3>2
    <3> QED
      BY <1>9, <3>1, <3>2, <3>3 DEF SameCount
  <2> QED
    BY <1>2, <1>6, <1>9, <2>1
<1>13. TurnOK(U, t)
  <2>1. TurnOf(O) \subseteq TurnOf(Owned(U, s))
    BY <1>11, TypesGrow
  <2> QED
    BY <1>9, <1>12, <2>1 DEF TurnOK
<1>14. \A u \in Turns : ~Begins(D, U, u)
  BY <1>3, <1>7 DEF Begins
<1>15. /\ \A u \in Turns : TurnOK(U, u)
       /\ Apart(U) /\ CacheOK(U, cache) /\ Counts(U)
       /\ \A x \in Sessions : sums[x] \in SummaryOf(Owned(U, x)) /\ sums[x].at \in Nat
  BY <1>7, <1>10, <1>13, <1>14, TurnsGoOn
<1>16. \A x \in Sessions : TableOK(tables[x], x, U, sums[x])
  <2> SUFFICES ASSUME NEW x \in Sessions PROVE TableOK(tables[x], x, U, sums[x])
    OBVIOUS
  <2>1. TableOK(tables[x], x, D, sums[x])
    BY DEF StateOK
  <2>2. \A u \in Turns : U[u].phase = "summarising" =>
                           D[u].phase = "summarising" /\ U[u].read = D[u].read
    BY <1>7, <1>9
  <2> QED
    BY <1>10, <1>14, <2>1, <2>2, TableStays
<1>17. TableOK(after, s, U, sums[s])
  <2>1. TableOK(rows, s, U, sums[s]) /\ sums[s].at \in Nat /\ U[t].phase # "summarising"
    BY <1>1, <1>9, <1>15, <1>16 DEF s
  <2>2. TableOK(CommitRows(rows, t), s, U, sums[s])
    BY <1>15, <2>1, TableCommit
  <2>3. TableOK(RollbackRows(rows, t), s, U, sums[s])
    BY <1>15, <2>1, TableRollback
  <2> QED
    BY <1>6, <2>1, <2>2, <2>3 DEF Settled
<1>18. CacheOK(U, cache')
  <2> DEFINE made == Assemble(me.read, me.summary)
             key == CacheKey(s, me.read, me.summary)
             e == [key |-> key, context |-> made]
  <2>1. /\ made \in ContextOf(O) /\ Alternates(made.msgs)
        /\ made.compacted => made.covers = me.summary.covers
    BY <1>1, AssembleFacts
  <2>2. ContextOf(O) \subseteq ContextOf(Owned(U, s)) /\ O \subseteq Message
    BY <1>11, TypesGrow DEF O, Owned
  <2>3. key \in Sessions \X Nat \X Summary /\ key[1] = s /\ key[2] = n /\ key[3] = me.summary
    BY <1>1, <1>2, <2>2 DEF CacheKey, n, SummaryOf, Summary
  <2>4. ContextOf(O) \subseteq Context
    <3>1. ContextOf(O) \subseteq ContextOf(Message)
      BY <2>2, TypesGrow
    <3> QED
      BY <3>1 DEF ContextOf, Context
  <2>5. e.key = key /\ e.context = made
    OBVIOUS
  <2>6. e \in CacheEntry
    BY <2>1, <2>3, <2>4 DEF CacheEntry
  <2> HIDE DEF e, key, made
  <2>7. EntryOK(U, e)
    BY <1>9, <2>1, <2>2, <2>3, <2>5 DEF EntryOK
  <2>8. CacheOK(U, WithEntry(e))
    BY <1>15, <2>6, <2>7, CacheWith
  <2>9. cache' = cache \/ cache' = WithEntry(e)
    BY <1>6 DEF e, key, made
  <2> QED
    BY <1>15, <2>8, <2>9
<1>19. \A x \in Sessions : TableOK(table'[x], x, U, sums[x])
  BY <1>8, <1>16, <1>17
<1>20. DOMAIN sums = Sessions
  BY DEF StateOK
<1> QED
  BY <1>7, <1>8, <1>15, <1>18, <1>19, <1>20 DEF StateOK, U

-----------------------------------------------------------------------------
(* A request begins                                                        *)

\* The record of the request that Ask makes.
Asked(s, blank, read) ==
  [Unborn EXCEPT !.session = s, !.blank = blank, !.read = read,
                 !.summary = summary[s], !.length = Len(read)]

\* D is turn with the request in it.
Asks(t, s, blank, r, rows, read, me, phase, D) ==
  /\ turn[t].phase = "unborn"
  /\ r = Stored(t, "user", blank, t) /\ rows = Append(table[s], r)
  /\ read = Visible(rows, t) /\ me = Asked(s, blank, read)
  /\ phase \in {"summarising", "done"}
  /\ DOMAIN D = Turns /\ D[t] = Phased(me, phase) /\ \A u \in Turns \ {t} : D[u] = turn[u]

\* The message that the handler has flushed is counted apart from the others
\* of its session, whatever the request waits for.
LEMMA AskTurns ==
  ASSUME StateOK(table, summary, turn, cache),
         NEW t \in Turns, NEW s \in Sessions, NEW blank \in BOOLEAN,
         NEW r, NEW rows, NEW read, NEW me, NEW phase, NEW D,
         Asks(t, s, blank, r, rows, read, me, phase, D)
  PROVE  /\ Later(turn, D) /\ r \in RowOf(Owned(D, s)) /\ rows \in Seq(RowOf(Owned(D, s)))
         /\ read \in Seq(Owned(D, s)) /\ read # <<>>
         /\ CountedFor(table[s], t, Len(read))
         /\ me \in MeOf(Owned(D, s)) /\ me.session = s /\ me.read = read
         /\ me.length = Len(read) /\ me.summary = summary[s]
         /\ \A u \in Turns : TurnOK(D, u)
         /\ Apart(D) /\ CacheOK(D, cache) /\ Counts(D)
         /\ \A x \in Sessions : summary[x] \in SummaryOf(Owned(D, x)) /\ summary[x].at \in Nat
<1> DEFINE O == Owned(D, s)
           old == table[s]
           n == Len(read)
<1>0. /\ turn[t].phase = "unborn"
      /\ r = Stored(t, "user", blank, t) /\ rows = Append(table[s], r)
      /\ read = Visible(rows, t) /\ me = Asked(s, blank, read)
      /\ phase \in {"summarising", "done"}
      /\ DOMAIN D = Turns /\ D[t] = Phased(me, phase) /\ \A u \in Turns \ {t} : D[u] = turn[u]
  BY DEF Asks
<1>1. Later(turn, D)
  <2> SUFFICES ASSUME NEW u \in Turns PROVE Goes(turn[u], D[u])
    BY DEF Later
  <2> QED
    BY <1>0 DEF Goes
<1>2. /\ me.session = s /\ me.blank = blank /\ me.read = read /\ me.summary = summary[s]
      /\ me.length = n /\ me.unsummarised = FALSE /\ me.from = "nothing"
      /\ me.context = NoContext
      /\ me = [phase |-> "unborn", session |-> s, blank |-> blank, read |-> read,
               summary |-> summary[s], unsummarised |-> FALSE, from |-> "nothing",
               context |-> NoContext, length |-> n]
  BY <1>0 DEF Asked, Unborn
<1>3. D[t].phase = phase /\ D[t].session = s /\ D[t].read = read /\ D[t].length = n
  BY <1>0, <1>2 DEF Phased
<1>4. old \in Seq(RowOf(Owned(turn, s)))
  BY DEF StateOK, TableOK, RowsOK
<1>5. ASSUME NEW i \in DOMAIN old PROVE old[i].msg.turn # t
  <2> HIDE DEF old
  <2>1. old[i].msg \in Owned(turn, s)
    BY <1>4, SeenPositions
  <2> QED
    BY <1>0, <2>1 DEF Owned
<1>6. old \in Seq(RowOf(O))
  BY <1>1, <1>4, OwnedGrows, TypesGrow
<1>7. t # Committed /\ r.msg.turn = t /\ r.open = t
  BY <1>0, ConversationAssumption DEF Turns, Committed, Stored
<1>8. r \in RowOf(O)
  <2>1. r.msg \in Message
    BY <1>0 DEF Stored, Message, Roles
  <2>2. r.msg \in O
    BY <1>0, <1>3, <1>7, <2>1 DEF Owned
  <2> QED
    BY <1>0, <1>7, <2>1, <2>2 DEF Stored, RowOf, Row
<1> HIDE DEF O, old
<1>r. rows = Append(old, r)
  BY <1>0 DEF old
<1>9. rows \in Seq(RowOf(O))
  BY <1>6, <1>8, <1>r, AppendRow
<1>10. /\ read \in Seq(O) /\ n = Cardinality(Seen(rows, t))
  BY <1>0, <1>9, VisibleFacts
<1>11. /\ n = Cardinality(Seen(old, Committed)) + 1 /\ Cardinality(Seen(old, Committed)) \in Nat
       /\ CountedFor(old, t, n)
  <2>1. Cardinality(Seen(old, Committed)) \in Nat
    BY <1>6, SeenPositions
  <2>2. /\ Cardinality(Seen(Append(old, r), t)) = Cardinality(Seen(old, Committed)) + 1
        /\ CountedFor(old, t, Cardinality(Seen(Append(old, r), t)))
    BY <1>5, <1>6, <1>7, <1>8, OwnRowSeen
  <2> QED
    BY <1>10, <1>r, <2>1, <2>2
<1>12. n \in Nat /\ n > 0 /\ read # <<>>
  BY <1>10, <1>11
<1>13. SeesNone(D, t)
  <2> SUFFICES ASSUME NEW u \in Turns \ {t}, SameCount(D, t, u), NEW m \in Range(D[t].read)
               PROVE  m.turn # u
    BY DEF SeesNone
  <2>1. turn[u].phase # "unborn" /\ turn[u].session = s /\ turn[u].length = n
    BY <1>0, <1>3 DEF SameCount
  <2>2. CountedFor(old, u, n)
    BY <1>12, <2>1 DEF StateOK, TableOK, RowsOK, old
  <2>3. m \in Range(Visible(Append(old, r), t)) /\ CountedFor(old, u, Len(Visible(Append(old, r), t)))
    BY <1>0, <1>3, <1>r, <2>2
  <2> QED
    BY <1>5, <1>6, <1>7, <1>8, <2>3, CountedApart
<1>14. ASSUME NEW x \in Sessions
       PROVE  summary[x] \in SummaryOf(Owned(D, x)) /\ summary[x].at \in Nat
  <2>1. summary[x] \in SummaryOf(Owned(turn, x))
    BY DEF StateOK
  <2>2. SummaryOf(Owned(turn, x)) \subseteq SummaryOf(Owned(D, x))
    BY <1>1, OwnedGrows, TypesGrow
  <2> QED
    BY <2>1, <2>2 DEF SummaryOf
<1>15. me \in MeOf(O)
  <2>1. summary[s] \in SummaryOf(O)
    BY <1>14 DEF O
  <2>2. NoContext \in ContextOf(O)
    BY DEF NoContext, ContextOf
  <2>3. me = [phase |-> "unborn", session |-> s, blank |-> blank, read |-> read,
              summary |-> summary[s], unsummarised |-> FALSE, from |-> "nothing",
              context |-> NoContext, length |-> n]
    BY <1>2
  <2> HIDE DEF n
  <2> QED
    BY <1>10, <1>12, <2>1, <2>2, <2>3 DEF MeOf
<1>16. D[t] \in TurnOf(O)
  BY <1>0, <1>15, PhasedFacts
<1>17. TurnOK(D, t)
  BY <1>0, <1>3, <1>12, <1>16 DEF TurnOK, ServedOK, O
<1>18. \A u \in Turns : Begins(turn, D, u) => u = t
  BY <1>0 DEF Begins
<1>19. \A u \in Turns : D[u] = turn[u] \/ TurnOK(D, u)
  BY <1>0, <1>17
<1>20. \A u \in Turns : Begins(turn, D, u) /\ D[u].length > 0 => SeesNone(D, u)
  BY <1>13, <1>18
<1> HIDE DEF n
<1>21. /\ \A u \in Turns : TurnOK(D, u)
       /\ Apart(D) /\ CacheOK(D, cache) /\ Counts(D)
  BY <1>0, <1>1, <1>19, <1>20, TurnsGoOn
<1> QED
  BY <1>1, <1>2, <1>8, <1>9, <1>10, <1>11, <1>12, <1>14, <1>15, <1>21 DEF O, old, n

\* The tables of the other sessions, and that of this one while the request
\* waits for nothing.
LEMMA AskTables ==
  ASSUME StateOK(table, summary, turn, cache),
         NEW t \in Turns, NEW s \in Sessions, NEW blank \in BOOLEAN,
         NEW r, NEW rows, NEW read, NEW me, NEW phase, NEW D,
         Asks(t, s, blank, r, rows, read, me, phase, D)
  PROVE  /\ \A x \in Sessions \ {s} : TableOK(table[x], x, D, summary[x])
         /\ phase = "done" => TableOK(rows, s, D, summary[s])
<1>1. /\ Later(turn, D) /\ r \in RowOf(Owned(D, s))
      /\ CountedFor(table[s], t, Len(read)) /\ Counts(D)
      /\ me.session = s /\ me.length = Len(read) /\ summary[s].at \in Nat
      /\ me \in MeOf(Owned(D, s))
  BY AskTurns
<1>0. /\ rows = Append(table[s], r) /\ phase \in {"summarising", "done"}
      /\ D[t] = Phased(me, phase) /\ \A u \in Turns \ {t} : D[u] = turn[u]
  BY DEF Asks
<1>2. D[t].phase = phase /\ D[t].session = s /\ D[t].length = Len(read)
  BY <1>0, <1>1, PhasedFacts
<1>3. \A u \in Turns : Begins(turn, D, u) => u = t
  BY <1>0 DEF Begins
<1>4. \A x \in Sessions : TableOK(table[x], x, turn, summary[x])
  BY DEF StateOK
<1>5. ASSUME NEW x \in Sessions \ {s} PROVE TableOK(table[x], x, D, summary[x])
  <2>1. \A u \in Turns : Begins(turn, D, u) /\ D[u].session = x /\ D[u].length > 0
                           => CountedFor(table[x], u, D[u].length)
    BY <1>0, <1>2, <1>3
  <2>2. \A u \in Turns : D[u].phase = "summarising" /\ D[u].session = x
                           => turn[u].phase = "summarising" /\ D[u].read = turn[u].read
    BY <1>0, <1>2
  <2> QED
    BY <1>1, <1>4, <2>1, <2>2, TableStays
<1>6. ASSUME phase = "done" PROVE TableOK(rows, s, D, summary[s])
  <2>1. \A u \in Turns : Begins(turn, D, u) /\ D[u].session = s /\ D[u].length > 0
                           => CountedFor(table[s], u, D[u].length)
    BY <1>1, <1>2, <1>3
  <2>2. \A u \in Turns : D[u].phase = "summarising" /\ D[u].session = s
                           => turn[u].phase = "summarising" /\ D[u].read = turn[u].read
    BY <1>0, <1>2, <1>6
  <2>3. TableOK(table[s], s, D, summary[s])
    BY <1>1, <1>4, <2>1, <2>2, TableStays
  <2> QED
    BY <1>0, <1>1, <2>3, TableAppend
<1> QED
  BY <1>5, <1>6

\* A request that waits has what it read in the table.
LEMMA TableWaits ==
  ASSUME NEW rows, NEW s, NEW sum, NEW D, TableOK(rows, s, D, sum),
         NEW t \in Turns, NEW U, \A u \in Turns \ {t} : U[u] = D[u],
         D[t].phase # "unborn", U[t].phase # "unborn",
         U[t].session = D[t].session, U[t].length = D[t].length,
         ReadStays(rows, t, U[t].read)
  PROVE  TableOK(rows, s, U, sum)
<1>1. Owned(U, s) = Owned(D, s)
  BY DEF Owned, Message
<1>2. \A u \in Turns : U[u].phase # "unborn" /\ U[u].session = s /\ U[u].length > 0
                         => CountedFor(rows, u, U[u].length)
  BY DEF TableOK, RowsOK
<1>3. \A u \in Turns : U[u].phase = "summarising" /\ U[u].session = s
                         => ReadStays(rows, u, U[u].read)
  BY DEF TableOK, WaitingOK
<1> QED
  BY <1>1, <1>2, <1>3 DEF TableOK, RowsOK, WaitingOK

LEMMA AskStep ==
  ASSUME ConversationInv, NEW t \in Turns, NEW s \in Sessions, NEW blank \in BOOLEAN, Ask(t, s, blank)
  PROVE  StateOK(table', summary', turn', cache')
<1> DEFINE r == Stored(t, "user", blank, t)
           rows == Append(table[s], r)
           read == Visible(rows, t)
           me == Asked(s, blank, read)
<1>1. StateOK(table, summary, turn, cache)
  BY DEF ConversationInv
<1>2. /\ turn[t].phase = "unborn" /\ UNCHANGED summary
      /\ IF NeedsSummary(read, summary[s].at)
         THEN /\ table' = [table EXCEPT ![s] = rows]
              /\ turn' = [turn EXCEPT ![t] = Phased(me, "summarising")]
              /\ UNCHANGED cache
         ELSE Serve(t, me, rows)
  <2>1. turn[t].phase = "unborn"
    BY DEF Ask, NextTurn, Turns
  <2> QED
    BY <2>1 DEF Ask, Asked, Phased
<1>3. r = Stored(t, "user", blank, t) /\ rows = Append(table[s], r)
      /\ read = Visible(rows, t) /\ me = Asked(s, blank, read)
  OBVIOUS
<1>4. DOMAIN turn = Turns /\ DOMAIN table = Sessions /\ DOMAIN summary = Sessions
      /\ CacheOK(turn, cache)
  BY <1>1 DEF StateOK
<1> HIDE DEF r, rows, read, me
<1>5. CASE NeedsSummary(read, summary[s].at)
  <2>1. /\ table' = [table EXCEPT ![s] = rows] /\ cache' = cache /\ summary' = summary
        /\ turn' = [turn EXCEPT ![t] = Phased(me, "summarising")]
    BY <1>2, <1>5
  <2> DEFINE U == turn'
             D == [turn EXCEPT ![t] = Phased(me, "done")]
  <2>2. /\ DOMAIN U = Turns /\ U[t] = Phased(me, "summarising")
        /\ \A u \in Turns \ {t} : U[u] = turn[u]
    BY <1>4, <2>1
  <2>3. /\ DOMAIN D = Turns /\ D[t] = Phased(me, "done")
        /\ \A u \in Turns \ {t} : D[u] = turn[u]
    BY <1>4
  <2> HIDE DEF U, D
  <2>4. Asks(t, s, blank, r, rows, read, me, "summarising", U)
    BY <1>2, <1>3, <2>2 DEF Asks
  <2>5. Asks(t, s, blank, r, rows, read, me, "done", D)
    BY <1>2, <1>3, <2>3 DEF Asks
  <2>6. /\ \A u \in Turns : TurnOK(U, u)
        /\ Apart(U) /\ CacheOK(U, cache)
        /\ \A x \in Sessions : summary[x] \in SummaryOf(Owned(U, x))
        /\ me \in MeOf(Owned(U, s)) /\ rows \in Seq(RowOf(Owned(U, s)))
    BY <1>1, <2>4, AskTurns
  <2>7. \A x \in Sessions \ {s} : TableOK(table[x], x, U, summary[x])
    BY <1>1, <2>4, AskTables
  <2>8. TableOK(rows, s, D, summary[s])
    BY <1>1, <2>5, AskTables
  <2>9. TableOK(rows, s, U, summary[s])
    <3>1. ReadStays(rows, t, read)
      BY <1>3, <2>6, ReadStaysAtFirst
    <3>2. me \in MeOf(Owned(D, s)) /\ me.read = read
      BY <1>1, <2>5, AskTurns
    <3>3. /\ U[t].phase = "summarising" /\ U[t].session = me.session
          /\ U[t].read = read /\ U[t].length = me.length
      BY <2>2, <2>6, <3>2, PhasedFacts
    <3>4. D[t].phase = "done" /\ D[t].session = me.session /\ D[t].length = me.length
      BY <2>3, <3>2, PhasedFacts
    <3>5. \A u \in Turns \ {t} : U[u] = D[u]
      BY <2>2, <2>3
    <3> QED
      BY <2>8, <3>1, <3>3, <3>4, <3>5, TableWaits
  <2>10. DOMAIN table' = Sessions /\ \A x \in Sessions : TableOK(table'[x], x, U, summary[x])
    BY <1>4, <2>1, <2>7, <2>9
  <2> QED
    BY <1>4, <2>1, <2>2, <2>6, <2>10 DEF StateOK, U
<1>6. CASE ~NeedsSummary(read, summary[s].at)
  <2>1. Serve(t, me, rows) /\ summary' = summary
    BY <1>2, <1>6
  <2> DEFINE D == [turn EXCEPT ![t] = Phased(me, "done")]
             tables == [table EXCEPT ![s] = rows]
  <2>2. /\ DOMAIN D = Turns /\ D[t] = Phased(me, "done")
        /\ \A u \in Turns \ {t} : D[u] = turn[u]
    BY <1>4
  <2>3. /\ DOMAIN tables = Sessions /\ tables[s] = rows
        /\ \A x \in Sessions \ {s} : tables[x] = table[x]
    BY <1>4
  <2> HIDE DEF D, tables
  <2>4. Asks(t, s, blank, r, rows, read, me, "done", D)
    BY <1>2, <1>3, <2>2 DEF Asks
  <2>5. /\ \A u \in Turns : TurnOK(D, u)
        /\ Apart(D) /\ CacheOK(D, cache)
        /\ \A x \in Sessions : summary[x] \in SummaryOf(Owned(D, x))
        /\ me \in MeOf(Owned(D, s)) /\ rows \in Seq(RowOf(Owned(D, s)))
        /\ me.session = s /\ me.read = read /\ me.length = Len(read) /\ me.summary = summary[s]
        /\ read # <<>>
    BY <1>1, <2>4, AskTurns
  <2>6. /\ \A x \in Sessions \ {s} : TableOK(table[x], x, D, summary[x])
        /\ TableOK(rows, s, D, summary[s])
    BY <1>1, <2>4, AskTables
  <2>7. \A x \in Sessions : TableOK(tables[x], x, D, summary[x])
    BY <2>3, <2>6
  <2>8. StateOK(tables, summary, D, cache)
    BY <1>4, <2>2, <2>3, <2>5, <2>7 DEF StateOK
  <2>9. FewForgotten(me.read, me.summary.covers)
    <3>1. SummaryCovers(rows, summary[s]) /\ summary[s] \in SummaryOf(Owned(D, s))
      BY <2>5, <2>6 DEF TableOK, RowsOK
    <3>2. FewForgotten(Visible(rows, t), summary[s].covers)
      BY <1>3, <1>6, <2>5, <3>1, NotDue
    <3> QED
      BY <1>3, <2>5, <3>2
  <2>10. turn[t].phase \notin {"running", "done"}
    BY <1>2
  <2> QED
    BY <1>4, <2>1, <2>2, <2>3, <2>5, <2>8, <2>9, <2>10, ServeStep
<1> QED
  BY <1>5, <1>6

-----------------------------------------------------------------------------
(* The summary comes, or does not                                          *)

GoesOn(t, sum, unsummarised, me, D) ==
  /\ me = [turn[t] EXCEPT !.summary = sum, !.unsummarised = unsummarised]
  /\ D = [turn EXCEPT ![t] = Phased(me, "done")]

Waited(t, sum, unsummarised, me, D) ==
  /\ DOMAIN D = Turns /\ D[t] = Phased(me, "done") /\ D[t].phase = "done"
  /\ \A u \in Turns \ {t} : D[u] = turn[u]
  /\ me \in MeOf(Owned(D, me.session)) /\ me.session = turn[t].session
  /\ me.session \in Sessions
  /\ me.read = turn[t].read /\ me.read # <<>> /\ me.length = Len(me.read)
  /\ me.summary = sum /\ me.unsummarised = unsummarised
  /\ Later(turn, D)
  /\ \A u \in Turns : TurnOK(D, u)
  /\ Apart(D) /\ CacheOK(D, cache) /\ Counts(D)
  /\ \A x \in Sessions : /\ summary[x] \in SummaryOf(Owned(D, x)) /\ summary[x].at \in Nat
                         /\ TableOK(table[x], x, D, summary[x])

\* The waiting request goes on, with the summary it was given.
LEMMA WaitOver ==
  ASSUME StateOK(table, summary, turn, cache), NEW t \in Turns, turn[t].phase = "summarising",
         NEW sum \in SummaryOf(Owned(turn, turn[t].session)), NEW unsummarised \in BOOLEAN,
         NEW me, NEW D, GoesOn(t, sum, unsummarised, me, D)
  PROVE  Waited(t, sum, unsummarised, me, D)
<1> DEFINE s == turn[t].session
           O == Owned(turn, s)
<1>0. /\ me = [turn[t] EXCEPT !.summary = sum, !.unsummarised = unsummarised]
      /\ D = [turn EXCEPT ![t] = Phased(me, "done")]
  BY DEF GoesOn
<1>1. /\ turn[t] \in TurnOf(O) /\ turn[t].read # <<>> /\ turn[t].length = Len(turn[t].read)
      /\ DOMAIN turn = Turns
  BY DEF StateOK, TurnOK
<1> HIDE DEF O
<1>2. me \in MeOf(O)
  BY <1>0, <1>1 DEF TurnOf, MeOf, O
<1>3. /\ me.session = s /\ me.read = turn[t].read /\ me.length = turn[t].length
      /\ me.summary = sum /\ me.unsummarised = unsummarised
  BY <1>0, <1>1 DEF TurnOf
<1>4. /\ DOMAIN D = Turns /\ D[t] = Phased(me, "done")
      /\ \A u \in Turns \ {t} : D[u] = turn[u]
  BY <1>0, <1>1
<1>5. /\ D[t] \in TurnOf(O) /\ D[t].phase = "done" /\ D[t].session = s
      /\ D[t].read = turn[t].read /\ D[t].length = turn[t].length
  <2>1. /\ Phased(me, "done") \in TurnOf(O) /\ Phased(me, "done").phase = "done"
        /\ Phased(me, "done").session = me.session /\ Phased(me, "done").read = me.read
        /\ Phased(me, "done").length = me.length
    BY <1>2, PhasedFacts
  <2> QED
    BY <1>3, <1>4, <2>1
<1>6. Later(turn, D)
  <2> SUFFICES ASSUME NEW u \in Turns PROVE Goes(turn[u], D[u])
    BY DEF Later
  <2> QED
    BY <1>4, <1>5 DEF Goes
<1>7. O \subseteq Owned(D, s)
  BY <1>6, OwnedGrows DEF O
<1>8. TurnOf(O) \subseteq TurnOf(Owned(D, s)) /\ me \in MeOf(Owned(D, s))
  <2> DEFINE P == Owned(D, s)
  <2>1. O \subseteq P
    BY <1>7
  <2> HIDE DEF P
  <2>2. /\ TurnOf(O) \subseteq TurnOf(P) /\ Seq(O) \subseteq Seq(P)
        /\ SummaryOf(O) \subseteq SummaryOf(P) /\ ContextOf(O) \subseteq ContextOf(P)
    BY <2>1, TypesGrow
  <2>3. me \in MeOf(P)
    BY <1>2, <2>2 DEF MeOf
  <2> QED
    BY <2>2, <2>3 DEF P
<1>9. TurnOK(D, t)
  BY <1>5, <1>8 DEF TurnOK, ServedOK
<1>10. \A u \in Turns : ~Begins(turn, D, u)
  BY <1>4 DEF Begins
<1>11. \A u \in Turns : D[u] = turn[u] \/ TurnOK(D, u)
  BY <1>4, <1>9
<1>12. /\ \A u \in Turns : TurnOK(D, u)
       /\ Apart(D) /\ CacheOK(D, cache) /\ Counts(D)
       /\ \A x \in Sessions : summary[x] \in SummaryOf(Owned(D, x)) /\ summary[x].at \in Nat
  BY <1>4, <1>6, <1>10, <1>11, TurnsGoOn
<1>13. ASSUME NEW x \in Sessions PROVE TableOK(table[x], x, D, summary[x])
  <2>1. TableOK(table[x], x, turn, summary[x])
    BY DEF StateOK
  <2>2. \A u \in Turns : D[u].phase = "summarising" /\ D[u].session = x
                           => turn[u].phase = "summarising" /\ D[u].read = turn[u].read
    BY <1>4, <1>5
  <2> QED
    BY <1>6, <1>10, <2>1, <2>2, TableStays
<1>14. s \in Sessions
  BY <1>1 DEF TurnOf
<1> QED
  BY <1>1, <1>3, <1>4, <1>5, <1>6, <1>8, <1>12, <1>13, <1>14 DEF Waited

\* The summary stored covers what the request read, which its commit shows.
LEMMA CoversCommit ==
  ASSUME NEW O, NEW rows \in Seq(RowOf(O)), NEW t, NEW read \in Seq(O),
         NEW prior \in SummaryOf(O), ReadStays(rows, t, read)
  PROVE  SummaryCovers(CommitRows(rows, t), Summarised(read, prior))
<1> DEFINE new == CommitRows(rows, t)
           V == Seen(rows, t)
           W == Seen(new, Committed)
           C == Range(Older(read))
           K == Summarised(read, prior).covers
<1>1. SUFFICES ASSUME Len(read) > KeepRecent
               PROVE  Cardinality(CoveredAt(new, W, K)) >= Len(read) - KeepRecent
  BY JustMade DEF SummaryCovers
<1>2. C \subseteq K
  BY <1>1, JustMade
<1>3. W = V /\ \A i \in V : new[i].msg = rows[i].msg
  BY CommitSeen, CommitFacts DEF Seen
<1>4. IsPositions(V)
  BY SeenPositions
<1>5. Cardinality(CoveredAt(rows, V, C)) >= Len(read) - KeepRecent
  BY <1>1 DEF ReadStays
<1> HIDE DEF new, V, W, C, K
<1>6. CoveredAt(rows, V, C) \subseteq CoveredAt(new, V, K) /\ CoveredAt(new, V, K) \subseteq V
  BY <1>2, <1>3 DEF CoveredAt
<1>7. IsPositions(CoveredAt(new, V, K))
  BY <1>4, <1>6, SubsetCount
<1>8. /\ Cardinality(CoveredAt(rows, V, C)) \in Nat /\ Cardinality(CoveredAt(new, V, K)) \in Nat
      /\ Cardinality(CoveredAt(rows, V, C)) <= Cardinality(CoveredAt(new, V, K))
  BY <1>6, <1>7, SubsetCount
<1>9. Len(read) - KeepRecent \in Int
  BY ConversationAssumption
<1> QED
  BY <1>3, <1>5, <1>8, <1>9

LEMMA MadeStep ==
  ASSUME ConversationInv, NEW t \in Turns, SummaryMade(t)
  PROVE  StateOK(table', summary', turn', cache')
<1> DEFINE s == turn[t].session
           new == Summarised(turn[t].read, turn[t].summary)
           me == [turn[t] EXCEPT !.summary = new, !.unsummarised = turn[t].unsummarised]
           D == [turn EXCEPT ![t] = Phased(me, "done")]
           rows == CommitRows(table[s], t)
           tables == [table EXCEPT ![s] = rows]
           sums == [summary EXCEPT ![s] = new]
<1>1. /\ StateOK(table, summary, turn, cache) /\ CacheOK(turn, cache)
      /\ DOMAIN table = Sessions /\ DOMAIN turn = Turns /\ DOMAIN summary = Sessions
  BY DEF ConversationInv, StateOK
<1>2. /\ turn[t].phase = "summarising" /\ turn[t] \in TurnOf(Owned(turn, s))
      /\ s \in Sessions /\ turn[t].read \in Seq(Owned(turn, s))
      /\ turn[t].summary \in SummaryOf(Owned(turn, s)) /\ turn[t].unsummarised \in BOOLEAN
  <2>1. turn[t].phase = "summarising"
    BY DEF SummaryMade
  <2>2. turn[t] \in TurnOf(Owned(turn, s))
    BY <1>1, <2>1 DEF StateOK, TurnOK
  <2> QED
    BY <2>1, <2>2 DEF TurnOf
<1>3. summary' = sums /\ Serve(t, me, rows)
  <2>1. me = [turn[t] EXCEPT !.summary = new]
    BY <1>2 DEF TurnOf
  <2> QED
    BY <2>1 DEF SummaryMade
<1>4. /\ new \in SummaryOf(Owned(turn, s))
      /\ FewForgotten(turn[t].read, new.covers)
  BY <1>2, JustMade
<1>5. /\ DOMAIN tables = Sessions /\ tables[s] = rows
      /\ \A x \in Sessions \ {s} : tables[x] = table[x]
      /\ DOMAIN sums = Sessions /\ sums[s] = new
      /\ \A x \in Sessions \ {s} : sums[x] = summary[x]
  BY <1>1, <1>2
<1>6. ReadStays(table[s], t, turn[t].read) /\ table[s] \in Seq(RowOf(Owned(turn, s)))
  BY <1>1, <1>2 DEF StateOK, TableOK, WaitingOK, RowsOK
<1>7. SummaryCovers(rows, new)
  BY <1>2, <1>6, CoversCommit
<1>8. GoesOn(t, new, turn[t].unsummarised, me, D)
  BY DEF GoesOn
<1> HIDE DEF me, D, new, tables, sums
<1>9. /\ DOMAIN D = Turns /\ D[t] = Phased(me, "done")
      /\ \A u \in Turns \ {t} : D[u] = turn[u]
      /\ me \in MeOf(Owned(D, me.session)) /\ me.session = s
      /\ me.read = turn[t].read /\ me.read # <<>> /\ me.length = Len(me.read)
      /\ me.summary = new
      /\ Later(turn, D)
      /\ \A u \in Turns : TurnOK(D, u)
      /\ Apart(D) /\ CacheOK(D, cache) /\ Counts(D)
      /\ \A x \in Sessions : /\ summary[x] \in SummaryOf(Owned(D, x)) /\ summary[x].at \in Nat
                             /\ TableOK(table[x], x, D, summary[x])
  <2>1. Waited(t, new, turn[t].unsummarised, me, D)
    BY <1>1, <1>2, <1>4, <1>8, WaitOver
  <2> QED
    BY <2>1 DEF Waited
<1>10. TableOK(rows, s, D, summary[s])
  BY <1>2, <1>9, TableCommit
<1>11. TableOK(rows, s, D, new)
  BY <1>7, <1>10 DEF TableOK, RowsOK
<1>12. new \in SummaryOf(Owned(D, s))
  BY <1>4, <1>9, OwnedGrows, TypesGrow
<1>13. \A x \in Sessions : TableOK(tables[x], x, D, sums[x]) /\ sums[x] \in SummaryOf(Owned(D, x))
  BY <1>5, <1>9, <1>11, <1>12
<1>14. StateOK(tables, sums, D, cache)
  BY <1>5, <1>9, <1>13 DEF StateOK
<1>15. \A x \in Sessions \ {me.session} : tables[x] = table[x]
  BY <1>5, <1>9
<1>16. /\ me.unsummarised \/ FewForgotten(me.read, me.summary.covers)
       /\ rows = tables[me.session] /\ turn[t].phase \notin {"running", "done"}
  BY <1>2, <1>4, <1>5, <1>9
<1> HIDE DEF rows, s
<1>17. StateOK(table', sums, turn', cache')
  BY <1>1, <1>3, <1>9, <1>14, <1>15, <1>16, ServeStep
<1> QED
  BY <1>3, <1>17

LEMMA FailsStep ==
  ASSUME ConversationInv, NEW t \in Turns, SummaryFails(t)
  PROVE  StateOK(table', summary', turn', cache')
<1> DEFINE s == turn[t].session
           old == summary[s]
           me == [turn[t] EXCEPT !.summary = old, !.unsummarised = TRUE]
           D == [turn EXCEPT ![t] = Phased(me, "done")]
           rows == RollbackRows(table[s], t)
           tables == [table EXCEPT ![s] = rows]
<1>1. /\ StateOK(table, summary, turn, cache) /\ CacheOK(turn, cache)
      /\ DOMAIN table = Sessions /\ DOMAIN turn = Turns /\ DOMAIN summary = Sessions
  BY DEF ConversationInv, StateOK
<1>2. /\ turn[t].phase = "summarising" /\ s \in Sessions
  <2>1. turn[t].phase = "summarising"
    BY DEF SummaryFails
  <2>2. turn[t] \in TurnOf(Owned(turn, s))
    BY <1>1, <2>1 DEF StateOK, TurnOK
  <2> QED
    BY <2>1, <2>2 DEF TurnOf
<1>3. summary' = summary /\ Serve(t, me, rows)
  BY DEF SummaryFails
<1>4. old \in SummaryOf(Owned(turn, s))
  BY <1>1, <1>2 DEF StateOK
<1>5. /\ DOMAIN tables = Sessions /\ tables[s] = rows
      /\ \A x \in Sessions \ {s} : tables[x] = table[x]
  BY <1>1, <1>2
<1>8. GoesOn(t, old, TRUE, me, D)
  BY DEF GoesOn
<1> HIDE DEF me, D, old, tables
<1>9. /\ DOMAIN D = Turns /\ D[t] = Phased(me, "done") /\ D[t].phase = "done"
      /\ \A u \in Turns \ {t} : D[u] = turn[u]
      /\ me \in MeOf(Owned(D, me.session)) /\ me.session = s
      /\ me.read # <<>> /\ me.length = Len(me.read) /\ me.unsummarised
      /\ \A u \in Turns : TurnOK(D, u)
      /\ Apart(D) /\ CacheOK(D, cache) /\ Counts(D)
      /\ \A x \in Sessions : /\ summary[x] \in SummaryOf(Owned(D, x)) /\ summary[x].at \in Nat
                             /\ TableOK(table[x], x, D, summary[x])
  <2>1. Waited(t, old, TRUE, me, D)
    BY <1>1, <1>2, <1>4, <1>8, WaitOver
  <2> QED
    BY <2>1 DEF Waited
<1>10. TableOK(rows, s, D, summary[s])
  BY <1>2, <1>9, TableRollback
<1>13. \A x \in Sessions : TableOK(tables[x], x, D, summary[x])
  BY <1>5, <1>9, <1>10
<1>14. StateOK(tables, summary, D, cache)
  BY <1>1, <1>5, <1>9, <1>13 DEF StateOK
<1>15. \A x \in Sessions \ {me.session} : tables[x] = table[x]
  BY <1>5, <1>9
<1>16. rows = tables[me.session] /\ turn[t].phase \notin {"running", "done"}
  BY <1>2, <1>5, <1>9
<1> HIDE DEF rows, s
<1>17. StateOK(table', summary, turn', cache')
  BY <1>1, <1>3, <1>9, <1>14, <1>15, <1>16, ServeStep
<1> QED
  BY <1>3, <1>17

-----------------------------------------------------------------------------
(* Messages that are committed at once                                     *)

\* A turn that counts nothing joins its session: the socket's, the API's.
LEMMA Joins ==
  ASSUME StateOK(table, summary, turn, cache), NEW t \in Turns, NEW s \in Sessions,
         turn[t].phase = "unborn", NEW r, NEW new, NEW U, NEW tables,
         DOMAIN U = Turns, U[t] = new, \A u \in Turns \ {t} : U[u] = turn[u],
         DOMAIN tables = Sessions, tables[s] = Append(table[s], r),
         \A x \in Sessions \ {s} : tables[x] = table[x],
         new.phase \in {"running", "done"}, new.session = s, new.length = 0,
         new.from # "assembled",
         r \in Row, r.msg.turn = t, r.open = Committed,
         r \in RowOf(Owned(U, s)) /\ Append(table[s], r) \in Seq(RowOf(Owned(U, s)))
           => new \in TurnOf(Owned(U, s))
  PROVE  StateOK(tables, summary, U, cache)
<1> DEFINE O == Owned(U, s)
           old == table[s]
<1>1. Later(turn, U)
  <2> SUFFICES ASSUME NEW u \in Turns PROVE Goes(turn[u], U[u])
    BY DEF Later
  <2> QED
    BY DEF Goes
<1>2. r \in RowOf(O)
  <2>1. r.msg \in Message
    BY DEF Row
  <2>2. r.msg \in O
    BY <2>1 DEF Owned
  <2> QED
    BY <2>2 DEF RowOf
<1>3. Append(old, r) \in Seq(RowOf(O))
  <2>1. old \in Seq(RowOf(Owned(turn, s)))
    BY DEF StateOK, TableOK, RowsOK
  <2> HIDE DEF O, old
  <2>2. old \in Seq(RowOf(O))
    BY <1>1, <2>1, OwnedGrows, TypesGrow DEF O
  <2> QED
    BY <1>2, <2>2, AppendRow
<1>4. TurnOK(U, t)
  <2>1. U[t] \in TurnOf(O)
    BY <1>2, <1>3
  <2> QED
    BY <2>1 DEF TurnOK, ServedOK
<1>5. \A u \in Turns : Begins(turn, U, u) => u = t
  BY DEF Begins
<1>6. /\ \A u \in Turns : TurnOK(U, u)
      /\ Apart(U) /\ CacheOK(U, cache) /\ Counts(U)
      /\ \A x \in Sessions : summary[x] \in SummaryOf(Owned(U, x)) /\ summary[x].at \in Nat
  <2>1. \A u \in Turns : U[u] = turn[u] \/ TurnOK(U, u)
    BY <1>4
  <2>2. \A u \in Turns : Begins(turn, U, u) /\ U[u].length > 0 => SeesNone(U, u)
    BY <1>5
  <2> QED
    BY <1>1, <2>1, <2>2, TurnsGoOn
<1>7. ASSUME NEW x \in Sessions PROVE TableOK(table[x], x, U, summary[x])
  <2>1. TableOK(table[x], x, turn, summary[x])
    BY DEF StateOK
  <2>2. \A u \in Turns : Begins(turn, U, u) /\ U[u].session = x /\ U[u].length > 0
                           => CountedFor(table[x], u, U[u].length)
    BY <1>5
  <2>3. \A u \in Turns : U[u].phase = "summarising" /\ U[u].session = x
                           => turn[u].phase = "summarising" /\ U[u].read = turn[u].read
    OBVIOUS
  <2> QED
    BY <1>1, <2>1, <2>2, <2>3, TableStays
<1>8. TableOK(Append(old, r), s, U, summary[s])
  BY <1>2, <1>6, <1>7, TableAppend
<1>9. \A x \in Sessions : TableOK(tables[x], x, U, summary[x])
  BY <1>7, <1>8
<1>10. DOMAIN summary = Sessions
  BY DEF StateOK
<1> QED
  BY <1>6, <1>9, <1>10 DEF StateOK

LEMMA SocketStep ==
  ASSUME ConversationInv, NEW t \in Turns, NEW s \in Sessions, SocketAsk(t, s)
  PROVE  StateOK(table', summary', turn', cache')
<1> DEFINE r == Stored(t, "user", FALSE, Committed)
           rows == Append(table[s], r)
           new == [Unborn EXCEPT !.phase = "running", !.session = s, !.from = "socket",
                                 !.context.msgs = Visible(rows, t)]
<1>1. /\ StateOK(table, summary, turn, cache)
      /\ DOMAIN table = Sessions /\ DOMAIN turn = Turns
  BY DEF ConversationInv, StateOK
<1>2. /\ turn[t].phase = "unborn" /\ summary' = summary /\ cache' = cache
      /\ table' = [table EXCEPT ![s] = rows] /\ turn' = [turn EXCEPT ![t] = new]
  BY DEF SocketAsk, NextTurn, Turns
<1>e. new = [Unborn EXCEPT !.phase = "running", !.session = s, !.from = "socket",
                           !.context.msgs = Visible(rows, t)]
  OBVIOUS
<1> HIDE DEF new
<1>3. new = [phase |-> "running", session |-> s, blank |-> FALSE, read |-> <<>>,
             summary |-> NoSummary, unsummarised |-> FALSE, from |-> "socket",
             context |-> [msgs |-> Visible(rows, t), compacted |-> FALSE, covers |-> {}],
             length |-> 0]
  BY <1>e DEF Unborn, NoContext
<1>4. r \in Row /\ r.msg.turn = t /\ r.open = Committed
  BY DEF Stored, Row, Message, Roles, Committed
<1> DEFINE U == turn'
           tables == table'
<1>5. /\ DOMAIN U = Turns /\ U[t] = new /\ \A u \in Turns \ {t} : U[u] = turn[u]
      /\ DOMAIN tables = Sessions /\ tables[s] = rows
      /\ \A x \in Sessions \ {s} : tables[x] = table[x]
  BY <1>1, <1>2
<1> HIDE DEF r, U, tables
<1>6. rows \in Seq(RowOf(Owned(U, s))) => new \in TurnOf(Owned(U, s))
  <2> DEFINE O == Owned(U, s)
  <2> HIDE DEF O, rows
  <2>1. SUFFICES ASSUME rows \in Seq(RowOf(O)) PROVE new \in TurnOf(O)
    BY DEF O
  <2>2. Visible(rows, t) \in Seq(O)
    BY <2>1, VisibleFacts
  <2>3. NoSummary \in SummaryOf(O)
    BY DEF NoSummary, SummaryOf
  <2>4. [msgs |-> Visible(rows, t), compacted |-> FALSE, covers |-> {}] \in ContextOf(O)
    BY <2>2 DEF ContextOf
  <2> QED
    BY <1>3, <2>3, <2>4 DEF TurnOf
<1>7. /\ new.phase = "running" /\ new.session = s /\ new.length = 0 /\ new.from = "socket"
  BY <1>3
<1>8. StateOK(tables, summary, U, cache)
  BY <1>1, <1>2, <1>4, <1>5, <1>6, <1>7, Joins
<1> QED
  BY <1>2, <1>8 DEF U, tables

LEMMA AddStep ==
  ASSUME ConversationInv, NEW t \in Turns, NEW s \in Sessions, NEW role \in ApiRoles,
         AddMessage(t, s, role)
  PROVE  StateOK(table', summary', turn', cache')
<1> DEFINE r == Stored(t, role, FALSE, Committed)
           rows == Append(table[s], r)
           new == [Unborn EXCEPT !.phase = "done", !.session = s]
<1>1. /\ StateOK(table, summary, turn, cache)
      /\ DOMAIN table = Sessions /\ DOMAIN turn = Turns
  BY DEF ConversationInv, StateOK
<1>2. /\ turn[t].phase = "unborn" /\ summary' = summary /\ cache' = cache
      /\ table' = [table EXCEPT ![s] = rows] /\ turn' = [turn EXCEPT ![t] = new]
  BY DEF AddMessage, NextTurn, Turns
<1>e. new = [Unborn EXCEPT !.phase = "done", !.session = s]
  OBVIOUS
<1> HIDE DEF new
<1>3. new = [phase |-> "done", session |-> s, blank |-> FALSE, read |-> <<>>,
             summary |-> NoSummary, unsummarised |-> FALSE, from |-> "nothing",
             context |-> NoContext, length |-> 0]
  BY <1>e DEF Unborn
<1>4. r \in Row /\ r.msg.turn = t /\ r.open = Committed
  BY ConversationAssumption DEF Stored, Row, Message, Roles, Committed
<1> DEFINE U == turn'
           tables == table'
<1>5. /\ DOMAIN U = Turns /\ U[t] = new /\ \A u \in Turns \ {t} : U[u] = turn[u]
      /\ DOMAIN tables = Sessions /\ tables[s] = rows
      /\ \A x \in Sessions \ {s} : tables[x] = table[x]
  BY <1>1, <1>2
<1> HIDE DEF r, U, tables
<1>6. new \in TurnOf(Owned(U, s))
  <2> DEFINE O == Owned(U, s)
  <2> HIDE DEF O
  <2>1. new \in TurnOf(O)
    BY <1>3 DEF TurnOf, NoSummary, SummaryOf, NoContext, ContextOf
  <2> QED
    BY <2>1 DEF O
<1>7. /\ new.phase = "done" /\ new.session = s /\ new.length = 0 /\ new.from = "nothing"
  BY <1>3
<1>8. StateOK(tables, summary, U, cache)
  BY <1>1, <1>2, <1>4, <1>5, <1>6, <1>7, Joins
<1> QED
  BY <1>2, <1>8 DEF U, tables

-----------------------------------------------------------------------------
(* The end of a request                                                    *)

\* Turns that are over keep their place in their session, and hold nothing.
LEMMA OverFacts ==
  ASSUME StateOK(table, summary, turn, cache), NEW t \in Turns,
         turn[t].phase \in {"summarising", "running"}, NEW U, Later(turn, U), U[t] = Over(t)
  PROVE  TurnOK(U, t) /\ U[t].phase = "done"
<1> DEFINE s == turn[t].session
           O == Owned(U, s)
<1>1. turn[t] \in TurnOf(Owned(turn, s))
  BY DEF StateOK, TurnOK
<1>2. s \in Sessions /\ turn[t].blank \in BOOLEAN /\ turn[t].length \in Nat
  BY <1>1 DEF TurnOf
<1>3. Over(t) = [phase |-> "done", session |-> s, blank |-> turn[t].blank, read |-> <<>>,
                 summary |-> NoSummary, unsummarised |-> FALSE, from |-> "nothing",
                 context |-> NoContext, length |-> turn[t].length]
  BY DEF Over, Unborn
<1>4. Over(t) \in TurnOf(O)
  <2> HIDE DEF O
  <2> QED
    BY <1>2, <1>3 DEF TurnOf, NoSummary, SummaryOf, NoContext, ContextOf
<1>5. Over(t).phase = "done" /\ Over(t).session = s
  BY <1>3
<1> QED
  BY <1>4, <1>5 DEF TurnOK, ServedOK

LEMMA OverGoes ==
  ASSUME NEW t, turn[t].phase # "unborn"
  PROVE  Goes(turn[t], Over(t))
BY DEF Goes, Over, Unborn

LEMMA EndStep ==
  ASSUME ConversationInv, NEW t \in Turns, NEW kept, NEW rows, EndsWith(t, rows),
         kept \in {CommitRows(table[turn[t].session], t), RollbackRows(table[turn[t].session], t)},
         rows \in {kept, Append(kept, Stored(t, "assistant", FALSE, Committed))}
  PROVE  StateOK(table', summary', turn', cache')
<1> DEFINE s == turn[t].session
           r == Stored(t, "assistant", FALSE, Committed)
           U == turn'
<1>1. /\ StateOK(table, summary, turn, cache)
      /\ DOMAIN table = Sessions /\ DOMAIN turn = Turns /\ DOMAIN summary = Sessions
  BY DEF ConversationInv, StateOK
<1>2. /\ turn[t].phase = "running" /\ table' = [table EXCEPT ![s] = rows]
      /\ turn' = [turn EXCEPT ![t] = Over(t)] /\ summary' = summary /\ cache' = cache
  BY DEF EndsWith
<1>3. s \in Sessions
  <2>1. TurnOK(turn, t)
    BY <1>1 DEF StateOK
  <2> QED
    BY <1>2, <2>1, TurnFacts
<1>4. DOMAIN U = Turns /\ U[t] = Over(t) /\ \A u \in Turns \ {t} : U[u] = turn[u]
  BY <1>1, <1>2
<1> HIDE DEF U
<1>5. Later(turn, U)
  <2> SUFFICES ASSUME NEW u \in Turns PROVE Goes(turn[u], U[u])
    BY DEF Later
  <2>1. CASE u = t
    BY <1>2, <1>4, <2>1, OverGoes
  <2>2. CASE u # t
    BY <1>4, <2>2 DEF Goes
  <2> QED
    BY <2>1, <2>2
<1>6. TurnOK(U, t) /\ U[t].phase = "done"
  BY <1>1, <1>2, <1>4, <1>5, OverFacts
<1>7. \A u \in Turns : ~Begins(turn, U, u)
  BY <1>2, <1>4 DEF Begins
<1>8. /\ \A u \in Turns : TurnOK(U, u)
      /\ Apart(U) /\ CacheOK(U, cache) /\ Counts(U)
      /\ \A x \in Sessions : summary[x] \in SummaryOf(Owned(U, x)) /\ summary[x].at \in Nat
  <2>1. \A u \in Turns : U[u] = turn[u] \/ TurnOK(U, u)
    BY <1>4, <1>6
  <2> QED
    BY <1>1, <1>4, <1>5, <1>7, <2>1, TurnsGoOn
<1>9. ASSUME NEW x \in Sessions PROVE TableOK(table[x], x, U, summary[x])
  <2>1. TableOK(table[x], x, turn, summary[x])
    BY <1>1 DEF StateOK
  <2>2. \A u \in Turns : U[u].phase = "summarising" /\ U[u].session = x
                           => turn[u].phase = "summarising" /\ U[u].read = turn[u].read
    BY <1>4, <1>6
  <2> QED
    BY <1>5, <1>7, <2>1, <2>2, TableStays
<1>10. TableOK(kept, s, U, summary[s])
  <2>1. TableOK(CommitRows(table[s], t), s, U, summary[s])
    BY <1>3, <1>8, <1>9, TableCommit
  <2>2. TableOK(RollbackRows(table[s], t), s, U, summary[s])
    BY <1>3, <1>6, <1>8, <1>9, TableRollback
  <2> QED
    BY <2>1, <2>2
<1>11. r \in RowOf(Owned(U, s))
  <2>1. r \in Row /\ r.msg \in Message /\ r.msg.turn = t /\ r.open = Committed
    BY DEF Stored, Row, Message, Roles, Committed
  <2>2. U[t].phase # "unborn" /\ U[t].session = s
    BY <1>2, <1>5, <1>6 DEF Later, Goes
  <2>3. r.msg \in Owned(U, s)
    BY <2>1, <2>2 DEF Owned
  <2> QED
    BY <2>1, <2>3 DEF RowOf
<1> HIDE DEF r
<1>12. TableOK(rows, s, U, summary[s])
  <2>1. TableOK(Append(kept, r), s, U, summary[s])
    BY <1>3, <1>8, <1>10, <1>11, TableAppend
  <2> QED
    BY <1>10, <2>1 DEF r
<1>13. DOMAIN table' = Sessions /\ \A x \in Sessions : TableOK(table'[x], x, U, summary[x])
  BY <1>1, <1>2, <1>3, <1>9, <1>12
<1> QED
  BY <1>1, <1>2, <1>4, <1>8, <1>13 DEF StateOK, U

LEMMA RestartStep ==
  ASSUME ConversationInv, Restart
  PROVE  StateOK(table', summary', turn', cache')
<1> DEFINE U == turn'
           kept(s) == At(table[s], {i \in DOMAIN table[s] : table[s][i].open = Committed})
<1>1. /\ StateOK(table, summary, turn, cache)
      /\ DOMAIN table = Sessions /\ DOMAIN turn = Turns /\ DOMAIN summary = Sessions
  BY DEF ConversationInv, StateOK
<1>2. /\ summary' = summary /\ cache' = <<>>
      /\ DOMAIN table' = Sessions /\ \A s \in Sessions : table'[s] = kept(s)
      /\ DOMAIN U = Turns
      /\ \A t \in Turns : U[t] = IF t \in Open THEN Over(t) ELSE turn[t]
  BY DEF Restart
<1>3. \A t \in Turns : /\ t \in Open => turn[t].phase \in {"summarising", "running"}
                       /\ t \notin Open => turn[t].phase \in {"unborn", "done"}
  <2> SUFFICES ASSUME NEW t \in Turns
               PROVE  /\ t \in Open => turn[t].phase \in {"summarising", "running"}
                      /\ t \notin Open => turn[t].phase \in {"unborn", "done"}
    OBVIOUS
  <2>1. turn[t].phase \in {"unborn", "summarising", "running", "done"}
    BY <1>1, TurnFacts DEF StateOK
  <2> QED
    BY <2>1 DEF Open
<1> HIDE DEF U, kept
<1>4. Later(turn, U)
  <2> SUFFICES ASSUME NEW u \in Turns PROVE Goes(turn[u], U[u])
    BY DEF Later
  <2>1. CASE u \in Open
    BY <1>2, <1>3, <2>1, OverGoes
  <2>2. CASE u \notin Open
    BY <1>2, <2>2 DEF Goes
  <2> QED
    BY <2>1, <2>2
<1>5. \A u \in Turns : U[u] = turn[u] \/ TurnOK(U, u)
  <2> SUFFICES ASSUME NEW u \in Turns, u \in Open PROVE TurnOK(U, u)
    BY <1>2
  <2> QED
    BY <1>1, <1>2, <1>3, <1>4, OverFacts
<1>6. \A u \in Turns : U[u].phase # "summarising" /\ ~Begins(turn, U, u)
  <2> SUFFICES ASSUME NEW u \in Turns PROVE U[u].phase # "summarising" /\ ~Begins(turn, U, u)
    OBVIOUS
  <2>1. CASE u \in Open
    <3>1. U[u].phase = "done"
      BY <1>1, <1>2, <1>3, <1>4, <2>1, OverFacts
    <3> QED
      BY <1>3, <2>1, <3>1 DEF Begins
  <2>2. CASE u \notin Open
    BY <1>2, <1>3, <2>2 DEF Begins
  <2> QED
    BY <2>1, <2>2
<1>7. /\ \A u \in Turns : TurnOK(U, u)
      /\ Apart(U) /\ Counts(U)
      /\ \A x \in Sessions : summary[x] \in SummaryOf(Owned(U, x)) /\ summary[x].at \in Nat
  BY <1>1, <1>2, <1>4, <1>5, <1>6, TurnsGoOn
<1>8. ASSUME NEW x \in Sessions PROVE TableOK(kept(x), x, U, summary[x])
  <2>1. TableOK(table[x], x, turn, summary[x])
    BY <1>1 DEF StateOK
  <2>2. TableOK(table[x], x, U, summary[x])
    BY <1>4, <1>6, <2>1, TableStays
  <2> QED
    BY <1>6, <1>7, <2>2, TableRestart DEF kept
<1>9. CacheOK(U, cache')
  BY <1>2, ConversationAssumption DEF CacheOK
<1>10. \A x \in Sessions : TableOK(table'[x], x, U, summary[x])
  BY <1>2, <1>8
<1> QED
  BY <1>1, <1>2, <1>7, <1>9, <1>10 DEF StateOK, U

-----------------------------------------------------------------------------
(* The theorems                                                            *)

LEMMA ExceptShaped ==
  ASSUME NEW f, DOMAIN f = Sessions, NEW a, NEW b
  PROVE  Shaped([f EXCEPT ![a] = b])
BY DEF Shaped

LEMMA ServeShaped ==
  ASSUME DOMAIN table = Sessions, NEW t, NEW me, NEW rows, Serve(t, me, rows)
  PROVE  Shaped(table')
<1>1. PICK after : table' = [table EXCEPT ![me.session] = after]
  BY DEF Serve, EnsureValid
<1> QED
  BY <1>1, ExceptShaped

LEMMA StayShaped ==
  ASSUME DOMAIN table = Sessions, DOMAIN summary = Sessions,
         Shaped(table), Shaped(summary), ConversationNext
  PROVE  Shaped(table') /\ Shaped(summary')
<1>1. ASSUME NEW t \in Turns, NEW s \in Sessions, NEW blank \in BOOLEAN, Ask(t, s, blank)
      PROVE  Shaped(table') /\ Shaped(summary')
  <2>1. Shaped(summary')
    BY <1>1 DEF Ask
  <2>2. Shaped(table')
    <3> DEFINE rows == Append(table[s], Stored(t, "user", blank, t))
               read == Visible(rows, t)
               me == [Unborn EXCEPT !.session = s, !.blank = blank,
                                    !.read = read, !.summary = summary[s], !.length = Len(read)]
    <3>1. \/ table' = [table EXCEPT ![s] = rows]
          \/ Serve(t, me, rows)
      BY <1>1 DEF Ask
    <3> HIDE DEF rows, me
    <3>2. ASSUME table' = [table EXCEPT ![s] = rows] PROVE Shaped(table')
      BY <3>2, ExceptShaped
    <3>3. ASSUME Serve(t, me, rows) PROVE Shaped(table')
      BY <3>3, ServeShaped
    <3> QED
      BY <3>1, <3>2, <3>3
  <2> QED
    BY <2>1, <2>2
<1>2. ASSUME NEW t \in Turns, NEW s \in Sessions, SocketAsk(t, s)
      PROVE  Shaped(table') /\ Shaped(summary')
  BY <1>2, ExceptShaped DEF SocketAsk
<1>3. ASSUME NEW t \in Turns, NEW s \in Sessions, NEW role \in ApiRoles, AddMessage(t, s, role)
      PROVE  Shaped(table') /\ Shaped(summary')
  BY <1>3, ExceptShaped DEF AddMessage
<1>4. ASSUME NEW t \in Turns, SummaryMade(t)
      PROVE  Shaped(table') /\ Shaped(summary')
  BY <1>4, ExceptShaped, ServeShaped DEF SummaryMade
<1>5. ASSUME NEW t \in Turns, SummaryFails(t)
      PROVE  Shaped(table') /\ Shaped(summary')
  BY <1>5, ServeShaped DEF SummaryFails
<1>6. ASSUME NEW t \in Turns, NEW rows, EndsWith(t, rows)
      PROVE  Shaped(table') /\ Shaped(summary')
  BY <1>6, ExceptShaped DEF EndsWith
<1>7. ASSUME NEW t \in Turns,
             Answer(t) \/ RunFails(t) \/ RunRaises(t) \/ ModelRefused(t) \/ PauseFails(t)
      PROVE  Shaped(table') /\ Shaped(summary')
  <2>1. PICK rows : EndsWith(t, rows)
    BY <1>7 DEF Answer, RunFails, RunRaises, ModelRefused, PauseFails, Undone
  <2> QED
    BY <1>6, <2>1
<1>8. ASSUME Restart PROVE Shaped(table') /\ Shaped(summary')
  BY <1>8 DEF Restart, Shaped
<1> QED
  BY <1>1, <1>2, <1>3, <1>4, <1>5, <1>7, <1>8 DEF ConversationNext

LEMMA InitStateOK ==
  ASSUME ConversationInit
  PROVE  StateOK(table, summary, turn, cache)
<1>1. /\ DOMAIN table = Sessions /\ DOMAIN summary = Sessions /\ DOMAIN turn = Turns
      /\ \A s \in Sessions : table[s] = <<>> /\ summary[s] = NoSummary
      /\ \A t \in Turns : turn[t] = Unborn
      /\ cache = <<>>
  BY DEF ConversationInit
<1>2. Unborn.phase = "unborn"
  BY DEF Unborn
<1>3. \A t \in Turns : turn[t].phase = "unborn"
  BY <1>1, <1>2
<1>4. \A s \in Sessions : TableOK(table[s], s, turn, summary[s]) /\ summary[s] \in SummaryOf(Owned(turn, s))
  <2> SUFFICES ASSUME NEW s \in Sessions
               PROVE  TableOK(table[s], s, turn, summary[s]) /\ summary[s] \in SummaryOf(Owned(turn, s))
    OBVIOUS
  <2>1. summary[s].at = 0 /\ summary[s] \in SummaryOf(Owned(turn, s))
    BY <1>1 DEF NoSummary, SummaryOf
  <2>2. SummaryCovers(table[s], summary[s])
    BY <2>1, ConversationAssumption DEF SummaryCovers
  <2>3. table[s] = <<>>
    BY <1>1
  <2>4. table[s] \in Seq(RowOf(Owned(turn, s)))
    BY <2>3
  <2>5. \A u \in Turns : turn[u].phase = "unborn"
    BY <1>3
  <2> QED
    BY <2>2, <2>4, <2>5, <2>1 DEF TableOK, RowsOK, WaitingOK
<1>5. \A t \in Turns : TurnOK(turn, t)
  BY <1>1, <1>3 DEF TurnOK
<1>6. Apart(turn)
  BY <1>3 DEF Apart
<1>7. CacheOK(turn, cache)
  BY <1>1, ConversationAssumption DEF CacheOK
<1> QED
  BY <1>1, <1>4, <1>5, <1>6, <1>7 DEF StateOK

LEMMA StepStateOK ==
  ASSUME ConversationInv, ConversationNext
  PROVE  StateOK(table', summary', turn', cache')
<1>1. ASSUME NEW t \in Turns,
             Answer(t) \/ RunFails(t) \/ RunRaises(t) \/ ModelRefused(t) \/ PauseFails(t)
      PROVE  StateOK(table', summary', turn', cache')
  <2> DEFINE done == CommitRows(table[turn[t].session], t)
             undone == RollbackRows(table[turn[t].session], t)
             answer == Stored(t, "assistant", FALSE, Committed)
  <2>1. \E kept \in {done, undone} : \E rows \in {kept, Append(kept, answer)} : EndsWith(t, rows)
    <3>1. CASE Answer(t)
      <4>1. PICK stored \in BOOLEAN, saved \in BOOLEAN :
              LET kept == IF stored THEN done ELSE undone
              IN EndsWith(t, IF saved THEN Append(kept, answer) ELSE kept)
        BY <3>1 DEF Answer
      <4> QED
        BY <4>1
    <3>2. CASE RunFails(t)
      BY <3>2 DEF RunFails
    <3>3. CASE RunRaises(t) \/ ModelRefused(t) \/ PauseFails(t)
      BY <3>3 DEF RunRaises, ModelRefused, PauseFails, Undone
    <3> QED
      BY <1>1, <3>1, <3>2, <3>3
  <2>2. PICK kept \in {done, undone} : \E rows \in {kept, Append(kept, answer)} : EndsWith(t, rows)
    BY <2>1
  <2>3. PICK rows \in {kept, Append(kept, answer)} : EndsWith(t, rows)
    BY <2>2
  <2> QED
    BY <2>3, EndStep
<1> QED
  BY <1>1, AskStep, SocketStep, AddStep, MadeStep, FailsStep, RestartStep DEF ConversationNext

LEMMA OthersKeepRestarts ==
  ASSUME ConversationNext, ~Restart
  PROVE  restarts' = restarts
<1>1. ASSUME NEW t \in Turns, NEW s \in Sessions,
             \/ \E blank \in BOOLEAN : Ask(t, s, blank)
             \/ SocketAsk(t, s)
             \/ \E role \in ApiRoles : AddMessage(t, s, role)
      PROVE  restarts' = restarts
  BY <1>1 DEF Ask, SocketAsk, AddMessage
<1>2. ASSUME NEW t \in Turns, SummaryMade(t) \/ SummaryFails(t)
      PROVE  restarts' = restarts
  BY <1>2 DEF SummaryMade, SummaryFails
<1>3. ASSUME NEW t \in Turns, NEW rows, EndsWith(t, rows) PROVE restarts' = restarts
  BY <1>3 DEF EndsWith
<1>4. ASSUME NEW t \in Turns,
             Answer(t) \/ RunFails(t) \/ RunRaises(t) \/ ModelRefused(t) \/ PauseFails(t)
      PROVE  restarts' = restarts
  BY <1>3, <1>4 DEF Answer, RunFails, RunRaises, ModelRefused, PauseFails, Undone
<1> QED
  BY <1>1, <1>2, <1>4 DEF ConversationNext

\* The bookkeeping of a session's history, for any number of sessions and
\* requests: what the messages table holds, what the summaries and the cached
\* contexts stand for, and what each request has read.
THEOREM ConversationInvariance == ConversationSpec => []ConversationInv
<1>1. ConversationInit => ConversationInv
  <2> SUFFICES ASSUME ConversationInit PROVE ConversationInv
    OBVIOUS
  <2>1. Shaped(table) /\ Shaped(summary) /\ restarts \in 0..MaxRestarts
    BY ConversationAssumption DEF ConversationInit, Shaped
  <2> QED
    BY <2>1, InitStateOK DEF ConversationInv
<1>2. ConversationInv /\ [ConversationNext]_conversationVars => ConversationInv'
  <2> SUFFICES ASSUME ConversationInv, [ConversationNext]_conversationVars PROVE ConversationInv'
    OBVIOUS
  <2>1. CASE ConversationNext
    <3>1. StateOK(table', summary', turn', cache')
      BY <2>1, StepStateOK
    <3>2. Shaped(table') /\ Shaped(summary')
      BY <2>1, StayShaped DEF ConversationInv, StateOK
    <3>3. CASE Restart
      BY <3>1, <3>2, <3>3, ConversationAssumption DEF ConversationInv, Restart
    <3>4. CASE ~Restart
      BY <2>1, <3>1, <3>2, <3>4, OthersKeepRestarts DEF ConversationInv
    <3> QED
      BY <3>3, <3>4
  <2>2. CASE UNCHANGED conversationVars
    BY <2>2 DEF ConversationInv, conversationVars
  <2> QED
    BY <2>1, <2>2
<1> QED
  BY <1>1, <1>2, PTL DEF ConversationSpec

\* What the model is given is of its own session and in the order it demands,
\* for any number of sessions and requests.
THEOREM ConversationSoundness == ConversationSpec => []ConversationSound
<1>1. ConversationInv => ConversationSound
  <2> SUFFICES ASSUME ConversationInv PROVE ConversationSound
    OBVIOUS
  <2>1. /\ StateOK(table, summary, turn, cache) /\ \A t \in Turns : TurnOK(turn, t)
        /\ CacheOK(turn, cache)
    BY DEF ConversationInv, StateOK
  <2>2. ContextIsOwn
    <3> SUFFICES ASSUME NEW t \in Turns, turn[t].phase = "running",
                        NEW m \in Range(turn[t].context.msgs) \cup turn[t].context.covers
                 PROVE  turn[m.turn].session = turn[t].session
      BY DEF ContextIsOwn
    <3>1. turn[t].context \in ContextOf(Owned(turn, turn[t].session))
      BY <2>1, TurnFacts
    <3>2. m \in Owned(turn, turn[t].session)
      BY <3>1 DEF ContextOf, Range
    <3> QED
      BY <3>2 DEF Owned
  <2>3. ContextAlternates
    BY <2>1 DEF ContextAlternates, Assembled, TurnOK, ServedOK, Alternates
  <2>4. ConversationTypeOK
    <3>1. table \in [Sessions -> Seq(Row)]
      <4>1. \A s \in Sessions : table[s] \in Seq(Row)
        <5> SUFFICES ASSUME NEW s \in Sessions PROVE table[s] \in Seq(Row)
          OBVIOUS
        <5>1. table[s] \in Seq(RowOf(Owned(turn, s)))
          BY <2>1 DEF StateOK, TableOK, RowsOK
        <5>2. RowOf(Owned(turn, s)) \subseteq Row
          BY DEF RowOf
        <5> QED
          BY <5>1, <5>2
      <4> QED
        BY <4>1 DEF ConversationInv, Shaped
    <3>2. summary \in [Sessions -> Summary]
      <4>1. \A s \in Sessions : summary[s] \in Summary
        <5> SUFFICES ASSUME NEW s \in Sessions PROVE summary[s] \in Summary
          OBVIOUS
        <5>1. summary[s] \in SummaryOf(Owned(turn, s))
          BY <2>1 DEF StateOK
        <5> QED
          BY <5>1 DEF SummaryOf, Summary, Owned
      <4> QED
        BY <4>1 DEF ConversationInv, Shaped
    <3>3. (\A i \in DOMAIN cache : cache[i].context \in Context) /\ Len(cache) <= CacheSize
      <4>1. \A i \in DOMAIN cache : cache[i] \in CacheEntry
        BY <2>1 DEF CacheOK
      <4> QED
        BY <2>1, <4>1 DEF CacheOK, CacheEntry
    <3>4. ASSUME NEW t \in Turns
          PROVE  /\ turn[t].phase \in {"unborn", "summarising", "running", "done"}
                 /\ turn[t].session \in Sessions \cup {"none"}
                 /\ turn[t].from \in {"nothing", "assembled", "recovered", "minimal", "socket"}
                 /\ turn[t].read \in Seq(Message) /\ turn[t].summary \in Summary
                 /\ turn[t].context \in Context
                 /\ turn[t].unsummarised \in BOOLEAN /\ turn[t].length \in Nat
                 /\ turn[t].blank \in BOOLEAN
      <4>1. CASE turn[t].phase = "unborn"
        <5>1. turn[t] = Unborn
          BY <2>1, <4>1 DEF TurnOK
        <5> QED
          BY <4>1, <5>1 DEF Unborn, NoSummary, NoContext, Summary, Context
      <4>2. CASE turn[t].phase # "unborn"
        <5> DEFINE O == Owned(turn, turn[t].session)
        <5>1. turn[t] \in TurnOf(O) /\ O \subseteq Message
          BY <2>1, <4>2 DEF TurnOK, Owned
        <5> HIDE DEF O
        <5>2. /\ Seq(O) \subseteq Seq(Message) /\ SummaryOf(O) \subseteq Summary
              /\ ContextOf(O) \subseteq Context
          BY <5>1 DEF SummaryOf, Summary, ContextOf, Context
        <5> QED
          BY <5>1, <5>2 DEF TurnOf
      <4> QED
        BY <4>1, <4>2
    <3> QED
      BY <3>1, <3>2, <3>3, <3>4 DEF ConversationTypeOK, ConversationInv
  <2> QED
    BY <2>2, <2>3, <2>4 DEF ConversationSound
<1> QED
  BY <1>1, ConversationInvariance, PTL

\* A context from the cache is the one the request would have assembled, but
\* for requests it does not see.
THEOREM ServedIsCurrent == ConversationSpec => []ServedContextIsCurrent
<1>1. ConversationInv => ServedContextIsCurrent
  <2> SUFFICES ASSUME ConversationInv, NEW t \in Turns, Assembled(t),
                      turn[t].context # Assemble(turn[t].read, turn[t].summary)
               PROVE  \E u \in Turns \ {t} :
                        /\ turn[u].session = turn[t].session
                        /\ turn[u].length = turn[t].length
                        /\ u \notin {m.turn : m \in Range(turn[t].read)}
    BY DEF ServedContextIsCurrent
  <2>1. turn[t].phase = "running" /\ turn[t].from = "assembled"
    BY DEF Assembled
  <2>2. TurnOK(turn, t) /\ Apart(turn)
    BY DEF ConversationInv, StateOK
  <2>3. PICK u \in Turns \ {t} : SameCount(turn, t, u)
    BY <2>1, <2>2 DEF TurnOK, ServedOK
  <2>4. turn[t].length > 0
    BY <2>1, <2>2 DEF TurnOK, ServedOK
  <2>5. \A m \in Range(turn[t].read) : m.turn # u
    BY <2>1, <2>2, <2>3, <2>4 DEF Apart
  <2> QED
    BY <2>3, <2>5 DEF SameCount
<1> QED
  BY <1>1, ConversationInvariance, PTL

\* What a compacted context leaves out of the history without a summary for it
\* is less than makes a summary due.
THEOREM ForgottenIsBounded == ConversationSpec => []ForgottenBounded
<1>1. ConversationInv => ForgottenBounded
  <2> SUFFICES ASSUME ConversationInv PROVE ForgottenBounded
    OBVIOUS
  <2>1. \A t \in Turns : TurnOK(turn, t)
    BY DEF ConversationInv, StateOK
  <2> QED
    BY <2>1 DEF ForgottenBounded, Assembled, TurnOK, ServedOK, FewForgotten
<1> QED
  BY <1>1, ConversationInvariance, PTL
=============================================================================
