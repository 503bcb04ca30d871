-------------------------- MODULE SkillRuns_proofs --------------------------
(***************************************************************************)
(* Proofs about SkillRuns, for any administrators, runs, skills and        *)
(* workflows, and any bounds of a skill's execution.                       *)
(***************************************************************************)
EXTENDS SkillRuns, SequenceTheorems, TLAPS

-----------------------------------------------------------------------------
(* The inductive invariant                                                 *)

Request == [op : {"idle", "create", "plant", "seed", "on", "off", "point", "activate", "delete"},
            name : Names \cup {""}, id : 0..MaxRequests, was : BOOLEAN, to : 0..MaxRequests]

Record == [pc : {"new", "loaded", "matched", "loop", "model", "tools", "over"},
           state : {"initial", "after_read", "after_write", "complete"},
           iteration : Nat, batch : Seq(Calls), called : Nat,
           succeeded : SUBSET Kinds, report : Reports]

\* Calls that the iterations before this one, or with it, can have made.
Budget(n) == n * MaxBatch

\* What has been called is what earlier iterations could call and what of this
\* batch is behind; a verdict ends the run; nothing is called on the way to
\* the loop; a state past a write was reached by a call that succeeded.
RecordOK(record) ==
  /\ Len(record.batch) <= MaxBatch
  /\ record.pc # "over" => record.iteration < MaxIterations
  /\ record.iteration <= MaxIterations
  /\ record.pc \in {"new", "loaded", "matched", "loop"} => record.called = 0
  /\ record.pc = "model" => record.called <= Budget(record.iteration)
  /\ record.pc = "tools" => record.called + Len(record.batch) <= Budget(record.iteration + 1)
  /\ record.called <= Budget(MaxIterations)
  /\ record.state \in {"after_write", "complete"} => record.succeeded \cap {"get", "write"} # {}
  /\ record.state = "complete" \/ record.report = "auth_required" => record.pc = "over"

RunInv == run \in [Runs -> Record] /\ \A r \in Runs : RecordOK(run[r])

\* A request that is not idle is about a name, and has a number a row may have.
TableInv ==
  /\ table \subseteq Row
  /\ admin \in [Admins -> Request]
  /\ \A a \in Admins : admin[a] # Idle =>
       /\ admin[a].op # "idle" /\ admin[a].name \in Names /\ admin[a].id \in 1..MaxRequests
  /\ asked \in 0..MaxRequests
  /\ backend \in {"api", "ollama"}

IInv == TableInv /\ OneRowPerName /\ RunInv

LEMMA BudgetGrows ==
  ASSUME NEW m \in Nat, NEW n \in Nat, m <= n
  PROVE  /\ Budget(m) \in Nat /\ Budget(m) <= Budget(n)
         /\ Budget(m + 1) = Budget(m) + MaxBatch
<1>1. MaxBatch \in Nat
  BY SkillAssumption
<1>2. PICK d \in Nat : n = m + d
  <2>1. n - m \in Nat /\ n = m + (n - m)
    OBVIOUS
  <2> QED  BY <2>1
<1>3. n * MaxBatch = m * MaxBatch + d * MaxBatch /\ d * MaxBatch \in Nat /\ m * MaxBatch \in Nat
  BY <1>1, <1>2
<1>4. (m + 1) * MaxBatch = m * MaxBatch + MaxBatch
  <2>1. \A a, b, c \in Nat : (a + b) * c = a * c + b * c
    OBVIOUS
  <2>2. (m + 1) * MaxBatch = m * MaxBatch + 1 * MaxBatch
    BY <1>1, <2>1
  <2> QED  BY <1>1, <2>2
<1> QED  BY <1>1, <1>3, <1>4 DEF Budget

\* A batch is a sequence of at least one and at most MaxBatch calls.
LEMMA BatchIsSeq ==
  ASSUME NEW b \in Batches
  PROVE  b \in Seq(Calls) /\ Len(b) <= MaxBatch
<1>1. PICK n \in 1..MaxBatch : b \in [1..n -> Calls]
  BY DEF Batches
<1>2. n \in Nat /\ MaxBatch \in Nat
  BY SkillAssumption
<1>3. b \in Seq(Calls)
  BY <1>1, <1>2, SeqDef
<1>4. Len(b) = n
  BY <1>1, <1>2, <1>3, LenProperties
<1> QED  BY <1>2, <1>3, <1>4

LEMMA SeqIsBatch ==
  ASSUME NEW b \in Seq(Calls), Len(b) <= MaxBatch
  PROVE  b \in Batches \cup {<<>>}
<1>1. Len(b) \in Nat /\ b \in [1..Len(b) -> Calls] /\ MaxBatch \in Nat
  BY LenProperties, SkillAssumption
<1>2. CASE b = <<>>
  BY <1>2
<1>3. CASE b # <<>>
  <2>1. Len(b) \in Nat \ {0}
    BY <1>3, EmptySeq
  <2>2. Len(b) \in 1..MaxBatch
    BY <1>1, <2>1
  <2> QED  BY <1>1, <2>2 DEF Batches
<1> QED  BY <1>2, <1>3

\* The rest of a batch.
LEMMA BatchTail ==
  ASSUME NEW b \in Seq(Calls), b # <<>>
  PROVE  /\ Head(b) \in Calls /\ Tail(b) \in Seq(Calls)
         /\ Len(b) \in Nat /\ Len(Tail(b)) \in Nat /\ Len(Tail(b)) + 1 = Len(b)
<1>1. Len(b) \in Nat \ {0} /\ Head(b) \in Calls /\ Tail(b) \in Seq(Calls)
  BY EmptySeq, HeadTailProperties
<1>2. Len(Tail(b)) = Len(b) - 1
  BY HeadTailProperties
<1> QED  BY <1>1, <1>2

LEMMA RunTypes == RunInv => \A r \in Runs :
       /\ run[r].pc \in {"new", "loaded", "matched", "loop", "model", "tools", "over"}
       /\ run[r].state \in {"initial", "after_read", "after_write", "complete"}
       /\ run[r].iteration \in 0..MaxIterations
       /\ run[r].batch \in Batches \cup {<<>>}
       /\ run[r].called \in 0..(MaxIterations * MaxBatch)
       /\ run[r].succeeded \subseteq Kinds
       /\ run[r].report \in Reports
<1> SUFFICES ASSUME RunInv, NEW r \in Runs, NEW record, record = run[r]
             PROVE /\ record.pc \in {"new", "loaded", "matched", "loop", "model", "tools", "over"}
                   /\ record.state \in {"initial", "after_read", "after_write", "complete"}
                   /\ record.iteration \in 0..MaxIterations
                   /\ record.batch \in Batches \cup {<<>>}
                   /\ record.called \in 0..(MaxIterations * MaxBatch)
                   /\ record.succeeded \subseteq Kinds
                   /\ record.report \in Reports
  OBVIOUS
<1>1. record \in Record /\ RecordOK(record)
  BY DEF RunInv
<1>2. record.batch \in Seq(Calls) /\ Len(record.batch) <= MaxBatch
  BY <1>1 DEF Record, RecordOK
<1>3. record.batch \in Batches \cup {<<>>}
  BY <1>2, SeqIsBatch
<1>4. Budget(MaxIterations) \in Nat
  BY BudgetGrows, SkillAssumption
<1> QED  BY <1>1, <1>3, <1>4 DEF Record, RecordOK, Budget

-----------------------------------------------------------------------------
(* The run of a skill                                                      *)

\* A step of a run is right when the new record is.
LEMMA StepKeeps ==
  ASSUME RunInv, NEW r \in Runs, NEW new, Step(r, new), new \in Record, RecordOK(new)
  PROVE  RunInv'
<1>1. run' = [run EXCEPT ![r] = new]
  BY DEF Step
<1> QED  BY <1>1 DEF RunInv

\* Anything may end with a report.
LEMMA OverKeeps ==
  ASSUME NEW record \in Record, RecordOK(record), record.called <= Budget(MaxIterations),
         NEW report \in Reports
  PROVE  Over(record, report) \in Record /\ RecordOK(Over(record, report))
<1> DEFINE new == Over(record, report)
<1>1. new = [record EXCEPT !.pc = "over", !.report = report, !.batch = <<>>]
  BY DEF Over
<1> HIDE DEF new
<1>2. <<>> \in Seq(Calls) /\ Len(<<>>) = 0
  BY EmptySeq
<1>3. new \in Record
  BY <1>1, <1>2 DEF Record
<1>4. /\ new.pc = "over" /\ new.batch = <<>> /\ new.iteration = record.iteration
      /\ new.called = record.called /\ new.state = record.state
      /\ new.succeeded = record.succeeded
  BY <1>1 DEF Record
<1>5. RecordOK(new)
  BY <1>2, <1>4, SkillAssumption DEF RecordOK
<1> QED  BY <1>3, <1>5 DEF new

LEMMA GotoKeeps ==
  ASSUME RunInv, NEW r \in Runs, NEW pc, Goto(r, pc),
         run[r].pc \in {"new", "loaded", "matched"}, pc \in {"loaded", "matched", "loop", "model"}
  PROVE  RunInv'
<1> DEFINE old == run[r]
           new == [old EXCEPT !.pc = pc]
<1>1. old \in Record /\ RecordOK(old)
  BY DEF RunInv
<1>2. new \in Record
  BY <1>1 DEF Record
<1>3. /\ new.pc = pc /\ new.batch = old.batch /\ new.iteration = old.iteration
      /\ new.called = old.called /\ new.state = old.state
      /\ new.succeeded = old.succeeded /\ new.report = old.report
  BY <1>1 DEF Record
<1>4. old.called = 0 /\ old.iteration \in Nat /\ 0 <= Budget(old.iteration)
  <2>1. old.iteration \in Nat
    BY <1>1 DEF Record
  <2>2. Budget(old.iteration) \in Nat
    BY <2>1, BudgetGrows
  <2>3. old.called = 0
    BY <1>1 DEF RecordOK
  <2> QED  BY <2>1, <2>2, <2>3
<1>5. RecordOK(new)
  BY <1>1, <1>3, <1>4 DEF RecordOK
<1>6. Step(r, new)
  BY DEF Goto
<1> HIDE DEF new
<1> QED  BY <1>2, <1>5, <1>6, StepKeeps

\* What a record says of the calls before its iteration and within it.
LEMMA Counted ==
  ASSUME NEW record \in Record, RecordOK(record)
  PROVE  /\ record.called \in Nat /\ Len(record.batch) \in Nat
         /\ Budget(record.iteration) \in Nat
         /\ Budget(record.iteration + 1) = Budget(record.iteration) + MaxBatch
         /\ record.pc # "over" => Budget(record.iteration + 1) <= Budget(MaxIterations)
<1>1. /\ record.iteration \in Nat /\ record.called \in Nat /\ record.batch \in Seq(Calls)
      /\ MaxIterations \in Nat
  BY SkillAssumption DEF Record
<1>2. Len(record.batch) \in Nat
  BY <1>1, LenProperties
<1>3. /\ Budget(record.iteration) \in Nat
      /\ Budget(record.iteration + 1) = Budget(record.iteration) + MaxBatch
  <2>1. PICK m \in Nat : m = record.iteration
    BY <1>1
  <2>2. Budget(m) \in Nat /\ Budget(m + 1) = Budget(m) + MaxBatch
    BY BudgetGrows
  <2> QED  BY <2>1, <2>2
<1>4. record.pc # "over" => Budget(record.iteration + 1) <= Budget(MaxIterations)
  <2>1. record.pc # "over" => record.iteration + 1 <= MaxIterations
    BY <1>1 DEF RecordOK
  <2>2. PICK m \in Nat : m = record.iteration + 1
    BY <1>1
  <2>3. m <= MaxIterations => Budget(m) <= Budget(MaxIterations)
    BY <1>1, BudgetGrows
  <2> QED  BY <2>1, <2>2, <2>3
<1> QED  BY <1>1, <1>2, <1>3, <1>4

\* The record when a call of the batch has been looked at, and perhaps made.
LEMMA TailKeeps ==
  ASSUME NEW record \in Record, RecordOK(record), record.pc = "tools", record.batch # <<>>,
         NEW n \in {0, 1}, NEW new,
         new = [record EXCEPT !.called = record.called + n, !.batch = Tail(record.batch)]
  PROVE  new \in Record /\ RecordOK(new)
<1>1. /\ Tail(record.batch) \in Seq(Calls) /\ Len(Tail(record.batch)) \in Nat
      /\ Len(Tail(record.batch)) + 1 = Len(record.batch)
  BY BatchTail DEF Record
<1>2. record.called \in Nat /\ record.called + n \in Nat
  BY DEF Record
<1>3. new \in Record
  BY <1>1, <1>2 DEF Record
<1>4. /\ new.called = record.called + n /\ new.batch = Tail(record.batch)
      /\ new.pc = "tools" /\ new.iteration = record.iteration /\ new.state = record.state
      /\ new.succeeded = record.succeeded /\ new.report = record.report
  BY <1>2 DEF Record
<1>5. /\ Budget(record.iteration + 1) <= Budget(MaxIterations) /\ MaxBatch \in Nat
      /\ Budget(record.iteration + 1) \in Nat /\ Budget(MaxIterations) \in Nat
  BY Counted, BudgetGrows, SkillAssumption
<1>6. /\ Len(new.batch) <= MaxBatch
      /\ new.called + Len(new.batch) <= Budget(new.iteration + 1)
      /\ new.called <= Budget(MaxIterations)
  <2> DEFINE long == Len(record.batch)
             short == Len(Tail(record.batch))
  <2>1. long <= MaxBatch /\ record.called + long <= Budget(record.iteration + 1)
    BY DEF RecordOK
  <2>2. Len(new.batch) = short /\ new.called = record.called + n /\ new.iteration = record.iteration
    BY <1>4
  <2>3. short \in Nat /\ short + 1 = long
    BY <1>1
  <2> HIDE DEF long, short
  <2>4. short <= MaxBatch
    BY <1>5, <2>1, <2>3
  <2>5. record.called + n + short <= Budget(record.iteration + 1)
    BY <1>2, <1>5, <2>1, <2>3
  <2>6. record.called + n <= Budget(MaxIterations)
    BY <1>2, <1>5, <2>3, <2>5
  <2> QED  BY <2>2, <2>4, <2>5, <2>6
<1>7. RecordOK(new)
  BY <1>4, <1>6 DEF RecordOK
<1> QED  BY <1>3, <1>7

\* A tool that succeeded moves the workflow on.
LEMMA AfterKeeps ==
  ASSUME NEW record \in Record, RecordOK(record), record.pc = "tools", NEW kind \in Kinds,
         NEW new, new = [record EXCEPT !.state = After(record.state, kind),
                                       !.succeeded = record.succeeded \cup {kind}]
  PROVE  /\ new \in Record
         /\ new.state # "complete" => RecordOK(new)
         /\ RecordOK([new EXCEPT !.pc = "over"])
         /\ new.called <= Budget(MaxIterations)
<1>1. After(record.state, kind) \in {"initial", "after_read", "after_write", "complete"}
  BY DEF After, Record
<1>2. new \in Record
  BY <1>1 DEF Record
<1>3. /\ new.state = After(record.state, kind) /\ new.succeeded = record.succeeded \cup {kind}
      /\ new.called = record.called /\ new.batch = record.batch /\ new.pc = "tools"
      /\ new.iteration = record.iteration /\ new.report = record.report
  BY DEF Record
<1>4. new.state \in {"after_write", "complete"} => new.succeeded \cap {"get", "write"} # {}
  <2>1. CASE kind \in {"get", "write"}
    BY <1>3, <2>1
  <2>2. CASE kind \notin {"get", "write"}
    <3>1. new.state \in {"after_write", "complete"} => record.state \in {"after_write", "complete"}
      BY <1>3, <2>2 DEF After, Record
    <3> QED  BY <1>3, <3>1 DEF RecordOK
  <2> QED  BY <2>1, <2>2
<1>5. new.state # "complete" => RecordOK(new)
  BY <1>3, <1>4 DEF RecordOK
<1> DEFINE end == [new EXCEPT !.pc = "over"]
<1>6. /\ end.pc = "over" /\ end.state = new.state /\ end.succeeded = new.succeeded
      /\ end.called = new.called /\ end.batch = new.batch
      /\ end.iteration = new.iteration /\ end.report = new.report
  BY <1>2 DEF Record
<1> HIDE DEF end
<1>7. RecordOK(end)
  BY <1>3, <1>4, <1>6 DEF RecordOK
<1> QED  BY <1>2, <1>3, <1>5, <1>7 DEF RecordOK, end

\* Whatever a call of the batch is answered, the record is right after it.
LEMMA ExecutedKeeps ==
  ASSUME NEW record \in Record, RecordOK(record), record.pc = "tools", record.batch # <<>>,
         NEW kind \in Kinds, NEW answer
  PROVE  Executed(record, kind, answer) \in Record /\ RecordOK(Executed(record, kind, answer))
<1> DEFINE now == [record EXCEPT !.called = @ + 1, !.batch = Tail(@)]
           new == [now EXCEPT !.state = After(@, kind), !.succeeded = @ \cup {kind}]
<1>1. now \in Record /\ RecordOK(now)
  <2>1. now = [record EXCEPT !.called = record.called + 1, !.batch = Tail(record.batch)]
    OBVIOUS
  <2> HIDE DEF now
  <2> QED  BY <2>1, TailKeeps
<1>2. now.pc = "tools"
  BY DEF Record
<1>3. new = [now EXCEPT !.state = After(now.state, kind), !.succeeded = now.succeeded \cup {kind}]
  OBVIOUS
<1>4. Executed(record, kind, answer) =
        CASE answer = "auth_required" -> Over(now, "auth_required")
          [] answer = "ok"            -> IF new.state = "complete" THEN Over(new, "failed") ELSE new
          [] OTHER                    -> now
  BY DEF Executed
<1> HIDE DEF now, new
<1>5. /\ new \in Record /\ RecordOK([new EXCEPT !.pc = "over"])
      /\ new.called <= Budget(MaxIterations)
      /\ new.state # "complete" => RecordOK(new)
  BY <1>1, <1>2, <1>3, AfterKeeps
<1>6. Over(now, "auth_required") \in Record /\ RecordOK(Over(now, "auth_required"))
  BY <1>1, OverKeeps DEF RecordOK, Reports
<1>7. Over(new, "failed") \in Record /\ RecordOK(Over(new, "failed"))
  <2> DEFINE end == [new EXCEPT !.pc = "over"]
  <2>1. end \in Record /\ end.called = new.called
    BY <1>5 DEF Record
  <2>2. Over(new, "failed") = Over(end, "failed")
    BY <1>5 DEF Over, Record
  <2>3. RecordOK(end)
    BY <1>5
  <2> HIDE DEF end
  <2> QED  BY <1>5, <2>1, <2>2, <2>3, OverKeeps DEF Reports
<1>8. CASE answer = "auth_required"
  BY <1>4, <1>6, <1>8
<1>9. CASE answer = "ok" /\ new.state = "complete"
  BY <1>4, <1>7, <1>9
<1>10. CASE answer = "ok" /\ new.state # "complete"
  BY <1>4, <1>5, <1>10
<1>11. CASE answer \notin {"auth_required", "ok"}
  BY <1>1, <1>4, <1>11
<1> QED  BY <1>8, <1>9, <1>10, <1>11

\* A new record that differs in the program counter and what goes with it.
LEMMA AskKeeps ==
  ASSUME RunInv, NEW r \in Runs, AskModel(r)  PROVE RunInv'
<1>1. run[r] \in Record /\ RecordOK(run[r]) /\ run[r].pc = "model"
  BY DEF RunInv, AskModel
<1>2. CASE Step(r, Failing(r))
  BY <1>1, <1>2, OverKeeps, StepKeeps DEF Failing, RecordOK, Reports
<1>3. CASE Step(r, Over(run[r], "success"))
  BY <1>1, <1>3, OverKeeps, StepKeeps DEF RecordOK, Reports
<1>4. ASSUME NEW batch \in Batches, Step(r, [run[r] EXCEPT !.pc = "tools", !.batch = batch])
      PROVE  RunInv'
  <2> DEFINE old == run[r]
             new == [old EXCEPT !.pc = "tools", !.batch = batch]
  <2>1. batch \in Seq(Calls) /\ Len(batch) <= MaxBatch /\ Len(batch) \in Nat /\ MaxBatch \in Nat
    BY BatchIsSeq, LenProperties, SkillAssumption
  <2>2. new \in Record
    BY <1>1, <2>1 DEF Record
  <2>3. /\ new.pc = "tools" /\ new.batch = batch /\ new.iteration = old.iteration
        /\ new.called = old.called /\ new.state = old.state
        /\ new.succeeded = old.succeeded /\ new.report = old.report
    BY <1>1 DEF Record
  <2>4. /\ old.called \in Nat /\ old.called <= Budget(old.iteration)
        /\ Budget(old.iteration) \in Nat
        /\ Budget(old.iteration + 1) = Budget(old.iteration) + MaxBatch
    BY <1>1, Counted DEF RecordOK
  <2>5. new.called + Len(new.batch) <= Budget(new.iteration + 1)
    BY <2>1, <2>3, <2>4
  <2>6. RecordOK(new)
    BY <1>1, <2>1, <2>3, <2>5 DEF RecordOK
  <2> HIDE DEF new
  <2> QED  BY <1>4, <2>2, <2>6, StepKeeps DEF new
<1> QED  BY <1>2, <1>3, <1>4 DEF AskModel

LEMMA CallKeeps ==
  ASSUME RunInv, NEW r \in Runs, RunCall(r)  PROVE RunInv'
<1> DEFINE record == run[r]
           kind == Head(record.batch)
<1>1. record \in Record /\ RecordOK(record) /\ record.pc = "tools" /\ record.batch # <<>>
  BY DEF RunInv, RunCall
<1>2. kind \in Calls
  BY <1>1, BatchTail DEF Record
<1>3. CASE Step(r, [record EXCEPT !.batch = Tail(@)])
  <2> DEFINE new == [record EXCEPT !.batch = Tail(@)]
  <2>1. new = [record EXCEPT !.called = record.called + 0, !.batch = Tail(record.batch)]
    <3>1. record.called + 0 = record.called
      BY <1>1 DEF Record
    <3> QED  BY <1>1, <3>1 DEF Record
  <2> HIDE DEF new
  <2>2. new \in Record /\ RecordOK(new)
    BY <1>1, <2>1, TailKeeps
  <2> QED  BY <1>3, <2>2, StepKeeps DEF new
<1>4. ASSUME kind # "garbled", NEW answer, Step(r, Executed(record, kind, answer))
      PROVE  RunInv'
  <2>1. kind \in Kinds
    BY <1>2, <1>4 DEF Calls
  <2> HIDE DEF record, kind
  <2>2. Executed(record, kind, answer) \in Record /\ RecordOK(Executed(record, kind, answer))
    BY <1>1, <2>1, ExecutedKeeps
  <2> QED  BY <1>4, <2>2, StepKeeps
<1> QED  BY <1>3, <1>4 DEF RunCall

LEMMA EndKeeps ==
  ASSUME RunInv, NEW r \in Runs, EndBatch(r)  PROVE RunInv'
<1> DEFINE old == run[r]
           next == [old EXCEPT !.iteration = @ + 1, !.pc = "model"]
<1>1. old \in Record /\ RecordOK(old) /\ old.pc = "tools" /\ old.batch = <<>>
  BY DEF RunInv, EndBatch
<1>2. /\ next.pc = "model" /\ next.batch = <<>> /\ next.iteration = old.iteration + 1
      /\ next.called = old.called /\ next.state = old.state
      /\ next.succeeded = old.succeeded /\ next.report = old.report
  BY <1>1 DEF Record
<1>3. next \in Record
  <2>1. old.iteration + 1 \in Nat
    BY <1>1 DEF Record
  <2> QED  BY <1>1, <2>1 DEF Record
<1>4. /\ old.iteration < MaxIterations /\ old.iteration \in Nat /\ MaxIterations \in Nat
      /\ Len(<<>>) = 0 /\ old.called \in Nat
  BY <1>1, EmptySeq, SkillAssumption DEF Record, RecordOK
<1>5. next.called <= Budget(next.iteration) /\ next.called <= Budget(MaxIterations)
  BY <1>1, <1>2, <1>4 DEF RecordOK
<1>6. next.iteration < MaxIterations => RecordOK(next)
  BY <1>1, <1>2, <1>4, <1>5 DEF RecordOK
<1> DEFINE end == [next EXCEPT !.pc = "over"]
<1>7. /\ end.pc = "over" /\ end.batch = <<>> /\ end.iteration = next.iteration
      /\ end.called = next.called /\ end.state = next.state
      /\ end.succeeded = next.succeeded /\ end.report = next.report
      /\ end \in Record /\ Over(next, "failed") = Over(end, "failed")
  BY <1>3, <1>2 DEF Record, Over
<1>8. RecordOK(end)
  BY <1>1, <1>2, <1>4, <1>5, <1>7 DEF RecordOK
<1>9. Step(r, IF next.iteration < MaxIterations THEN next ELSE Over(next, "failed"))
  BY DEF EndBatch, Iterated
<1> HIDE DEF next, end
<1>10. CASE next.iteration < MaxIterations
  BY <1>3, <1>6, <1>9, <1>10, StepKeeps
<1>11. CASE ~(next.iteration < MaxIterations)
  <2>1. Over(end, "failed") \in Record /\ RecordOK(Over(end, "failed"))
    BY <1>5, <1>7, <1>8, OverKeeps DEF Reports
  <2> QED  BY <1>7, <1>9, <1>11, <2>1, StepKeeps
<1> QED  BY <1>10, <1>11

LEMMA ServeKeeps ==
  ASSUME RunInv, NEW r \in Runs, Serve(r)  PROVE RunInv'
<1>1. CASE LoadSkills(r) \/ MatchSkill(r) \/ Isolate(r)
  BY <1>1, GotoKeeps DEF LoadSkills, MatchSkill, Isolate
<1> QED  BY <1>1, AskKeeps, CallKeeps, EndKeeps DEF Serve

-----------------------------------------------------------------------------
(* The tables                                                              *)

\* Some rows are replaced, one for one and under the same names.
LEMMA ImageKeeps ==
  ASSUME OneRowPerName, NEW f, table' = {f[row] : row \in table},
         \A row \in table : f[row].name = row.name
  PROVE  OneRowPerName'
<1> SUFFICES ASSUME NEW name \in Names, NEW x \in table', NEW y \in table',
                    x.name = name, y.name = name
             PROVE  x = y
  BY DEF OneRowPerName, Named
<1>1. PICK v \in table, w \in table : x = f[v] /\ y = f[w]
  OBVIOUS
<1>2. v = w
  BY <1>1 DEF OneRowPerName, Named
<1> QED  BY <1>1, <1>2

LEMMA RewriteKeeps ==
  ASSUME OneRowPerName, table \subseteq Row, NEW id, NEW g \in [table -> Row],
         \A row \in table : g[row].name = row.name,
         table' = Rewrite(id, {g[row] : row \in WithId(id)})
  PROVE  OneRowPerName' /\ table' \subseteq Row
<1> DEFINE f == [row \in table |-> IF row.id = id THEN g[row] ELSE row]
<1>1. table' = {f[row] : row \in table}
  BY DEF Rewrite, WithId
<1>2. \A row \in table : f[row].name = row.name /\ f[row] \in Row
  OBVIOUS
<1> HIDE DEF f
<1> QED  BY <1>1, <1>2, ImageKeeps

LEMMA CommitKeeps ==
  ASSUME TableInv, OneRowPerName, NEW a \in Admins, CommitRequest(a)
  PROVE  TableInv' /\ OneRowPerName'
<1> DEFINE req == admin[a]
<1>1. /\ req \in Request /\ req.op # "idle" /\ req.name \in Names /\ req.id \in 1..MaxRequests
      /\ table \subseteq Row /\ MaxRequests \in Nat
  BY SkillAssumption DEF TableInv, CommitRequest
<1>2. table' = Apply(req) /\ UNCHANGED <<asked, backend>> /\ admin' = [admin EXCEPT ![a] = Idle]
  BY DEF CommitRequest
<1>3. Idle \in Request
  <2>1. 0 \in 0..MaxRequests
    BY <1>1
  <2> QED  BY <2>1 DEF Idle, Request
<1>4. admin' \in [Admins -> Request] /\ \A b \in Admins : admin'[b] # Idle =>
        admin'[b].op # "idle" /\ admin'[b].name \in Names /\ admin'[b].id \in 1..MaxRequests
  BY <1>2, <1>3 DEF TableInv
<1> HIDE DEF req
<1>5. \A row \in Row, on \in BOOLEAN, to \in 0..MaxRequests :
        /\ [row EXCEPT !.active = on] \in Row
        /\ [row EXCEPT !.pointer = to] \in Row
        /\ [row EXCEPT !.active = TRUE, !.patterns = TRUE] \in Row
        /\ [row EXCEPT !.active = on, !.pointer = to] \in Row
  BY DEF Row
<1>6. table' \subseteq Row /\ OneRowPerName'
  <2>1. ASSUME NEW seeded \in BOOLEAN, table' = Insert(Created(req, seeded))
        PROVE  table' \subseteq Row /\ OneRowPerName'
    <3>1. Created(req, seeded) \in Row /\ Created(req, seeded).name = req.name
      BY <1>1 DEF Created, Row
    <3> QED  BY <1>1, <2>1, <3>1 DEF Insert, OneRowPerName, Named
  <2>2. CASE table' = Seed(req)
    <3> DEFINE g == [row \in table |-> [row EXCEPT !.active = TRUE, !.patterns = TRUE]]
    <3>1. g \in [table -> Row] /\ \A row \in table : g[row].name = row.name
      BY <1>1, <1>5 DEF Row
    <3>2. table' = Rewrite(req.id, {g[row] : row \in WithId(req.id)})
      BY <2>2 DEF Seed, WithId
    <3> HIDE DEF g
    <3> QED  BY <1>1, <3>1, <3>2, RewriteKeeps
  <2>3. CASE table' = Update(req)
    <3> DEFINE on == req.op = "on"
               g == [row \in table |-> [row EXCEPT !.active = on]]
    <3>0. on \in BOOLEAN
      OBVIOUS
    <3>1. CASE on = req.was
      BY <1>1, <2>3, <3>1 DEF Update, OneRowPerName, Named
    <3>2. CASE on # req.was
      <4>1. g \in [table -> Row] /\ \A row \in table : g[row].name = row.name
        <5> HIDE DEF on, g
        <5>1. ASSUME NEW row \in table
              PROVE  /\ [row EXCEPT !.active = on] \in Row
                     /\ [row EXCEPT !.active = on].name = row.name
          <6>1. row \in Row
            BY <1>1
          <6>2. [row EXCEPT !.active = on] \in Row
            BY <3>0, <6>1 DEF Row
          <6> QED  BY <6>1, <6>2 DEF Row
        <5> QED  BY <5>1 DEF g
      <4>2. table' = Rewrite(req.id, {g[row] : row \in WithId(req.id)})
        BY <2>3, <3>2 DEF Update, WithId
      <4> HIDE DEF g
      <4> QED  BY <1>1, <4>1, <4>2, RewriteKeeps
    <3> QED  BY <3>1, <3>2
  <2>4. CASE table' = Point(req)
    <3> DEFINE g == [row \in table |-> [row EXCEPT !.pointer = req.to]]
    <3>1. g \in [table -> Row] /\ \A row \in table : g[row].name = row.name
      <4>1. PICK to \in 0..MaxRequests : to = req.to
        BY <1>1 DEF Request
      <4>2. ASSUME NEW row \in table
            PROVE  [row EXCEPT !.pointer = to] \in Row /\ [row EXCEPT !.pointer = to].name = row.name
        BY <1>1, <1>5 DEF Row
      <4> QED  BY <4>1, <4>2
    <3>2. table' = Rewrite(req.id, {g[row] : row \in WithId(req.id)})
      BY <2>4 DEF Point, WithId
    <3> HIDE DEF g
    <3> QED  BY <1>1, <3>1, <3>2, RewriteKeeps
  <2>5. CASE table' = Activate(req)
    <3> DEFINE h == [row \in table |->
                 IF row.name # req.name THEN row
                 ELSE [row EXCEPT !.active = row.id = req.id,
                                  !.pointer = IF req.name \in Workflows THEN req.id ELSE @]]
    <3>1. CASE WithId(req.id) = {}
      BY <1>1, <2>5, <3>1 DEF Activate, OneRowPerName, Named
    <3>2. CASE WithId(req.id) # {}
      <4>1. ASSUME NEW row \in table  PROVE h[row].name = row.name /\ h[row] \in Row
        <5>1. CASE row.name # req.name
          BY <1>1, <5>1
        <5>2. CASE row.name = req.name
          <6>1. PICK on \in BOOLEAN : on = (row.id = req.id)
            OBVIOUS
          <6>2. PICK to \in 0..MaxRequests :
                  to = IF req.name \in Workflows THEN req.id ELSE row.pointer
            BY <1>1 DEF Row
          <6>3. h[row] = [row EXCEPT !.active = on, !.pointer = to]
            BY <1>1, <5>2, <6>1, <6>2 DEF Row
          <6>4. row \in Row
            BY <1>1
          <6>5. [row EXCEPT !.active = on, !.pointer = to] \in Row
            BY <1>5, <6>4
          <6>6. [row EXCEPT !.active = on, !.pointer = to].name = row.name
            BY <6>4 DEF Row
          <6> QED  BY <6>3, <6>5, <6>6
        <5> QED  BY <5>1, <5>2
      <4>2. table' = {h[row] : row \in table}
        BY <2>5, <3>2 DEF Activate
      <4> HIDE DEF h
      <4> QED  BY <4>1, <4>2, ImageKeeps
    <3> QED  BY <3>1, <3>2
  <2>6. CASE table' = Delete(req)
    BY <1>1, <2>6 DEF Delete, OneRowPerName, Named
  <2>7. req.op \in {"create", "plant", "seed", "on", "off", "point", "activate", "delete"}
    BY <1>1 DEF Request
  <2> QED  BY <1>2, <2>1, <2>2, <2>3, <2>4, <2>5, <2>6, <2>7 DEF Apply
<1> QED  BY <1>2, <1>4, <1>6 DEF TableInv

LEMMA BeginKeeps ==
  ASSUME TableInv, OneRowPerName, NEW a \in Admins, NEW req \in Request, Begin(a, req),
         req.op # "idle", req.name \in Names, req.id \in 1..MaxRequests
  PROVE  TableInv' /\ OneRowPerName'
<1>1. asked' = asked + 1 /\ asked' \in 0..MaxRequests
  BY SkillAssumption DEF Begin, TableInv
<1> QED  BY <1>1 DEF Begin, TableInv, OneRowPerName, Named

LEMMA AdminKeeps ==
  ASSUME TableInv, OneRowPerName, NEW a \in Admins,
         BeginCreate(a) \/ BeginChange(a) \/ BeginSeed(a)
  PROVE  TableInv' /\ OneRowPerName'
<1>1. MaxRequests \in Nat /\ asked \in 0..MaxRequests /\ 0 \in 0..MaxRequests
  BY SkillAssumption DEF TableInv
<1>2. ASSUME NEW req, Begin(a, req),
             NEW op \in {"create", "plant", "seed", "on", "off", "point", "activate", "delete"},
             NEW name \in Names, NEW id \in 1..MaxRequests, NEW was \in BOOLEAN,
             NEW to \in 0..MaxRequests,
             req = [op |-> op, name |-> name, id |-> id, was |-> was, to |-> to]
      PROVE  TableInv' /\ OneRowPerName'
  <2>1. req.op = op /\ req.name = name /\ req.id = id
    BY <1>2
  <2>2. id \in 0..MaxRequests
    BY <1>1
  <2>3. name \in Names \cup {""}
    OBVIOUS
  <2>4. req \in Request
    BY <1>2, <2>2, <2>3 DEF Request
  <2> QED  BY <1>2, <2>1, <2>4, BeginKeeps
<1>3. ASSUME NEW req, Begin(a, req)  PROVE asked + 1 \in 1..MaxRequests
  BY <1>1, <1>3 DEF Begin
<1>4. \A row \in table : /\ row.name \in Names /\ row.id \in 1..MaxRequests
                         /\ row.active \in BOOLEAN
  BY DEF TableInv, Row
<1>5. CASE BeginCreate(a)
  <2>1. PICK name \in Names :
          Begin(a, [op |-> "create", name |-> name, id |-> asked + 1, was |-> FALSE, to |-> 0])
    BY <1>5 DEF BeginCreate
  <2>2. asked + 1 \in 1..MaxRequests
    BY <1>3, <2>1
  <2>3. 0 \in 0..MaxRequests
    BY <1>1
  <2> QED  BY <1>2, <2>1, <2>2, <2>3
<1>6. CASE BeginChange(a)
  <2>1. PICK row \in table, op \in {"on", "off", "activate", "delete", "point"}, to \in 0..MaxRequests :
          Begin(a, [op |-> op, name |-> row.name, id |-> row.id, was |-> row.active, to |-> to])
    BY <1>1, <1>6 DEF BeginChange
  <2> QED  BY <1>2, <1>4, <2>1
<1>7. CASE BeginSeed(a)
  <2>1. PICK name \in Skills :
          \/ Begin(a, [op |-> "plant", name |-> name, id |-> asked + 1, was |-> FALSE, to |-> 0])
          \/ \E row \in Named(name) :
               Begin(a, [op |-> "seed", name |-> name, id |-> row.id, was |-> row.active, to |-> 0])
    BY <1>7 DEF BeginSeed
  <2>2. name \in Names /\ Named(name) \subseteq table
    BY DEF Names, Named
  <2>3. CASE Begin(a, [op |-> "plant", name |-> name, id |-> asked + 1, was |-> FALSE, to |-> 0])
    BY <1>1, <1>2, <1>3, <2>2, <2>3
  <2>4. ASSUME NEW row \in table,
               Begin(a, [op |-> "seed", name |-> name, id |-> row.id, was |-> row.active, to |-> 0])
        PROVE  TableInv' /\ OneRowPerName'
    <3> DEFINE req == [op |-> "seed", name |-> name, id |-> row.id, was |-> row.active, to |-> 0]
    <3>1. row.id \in 1..MaxRequests /\ row.active \in BOOLEAN
      BY <1>4
    <3>2. req \in Request
      <4>1. row.id \in 0..MaxRequests
        BY <1>1, <3>1
      <4>2. name \in Names \cup {""}
        BY <2>2
      <4> QED  BY <1>1, <3>1, <4>1, <4>2 DEF Request
    <3>3. req.op = "seed" /\ req.name = name /\ req.id = row.id
      OBVIOUS
    <3> HIDE DEF req
    <3>4. Begin(a, req)
      BY <2>4 DEF req
    <3> QED  BY <2>2, <3>1, <3>2, <3>3, <3>4, BeginKeeps
  <2> QED  BY <2>1, <2>2, <2>3, <2>4
<1> QED  BY <1>5, <1>6, <1>7

-----------------------------------------------------------------------------
(* Theorems                                                                *)

LEMMA InitInv == Init => IInv
<1> SUFFICES ASSUME Init  PROVE IInv
  OBVIOUS
<1>1. MaxRequests \in Nat /\ MaxIterations \in Nat \ {0} /\ MaxBatch \in Nat \ {0}
  BY SkillAssumption
<1>2. TableInv /\ OneRowPerName
  <2>1. Idle \in Request
    <3>1. 0 \in 0..MaxRequests
      BY <1>1
    <3> QED  BY <3>1 DEF Idle, Request
  <2> QED  BY <1>1, <2>1 DEF Init, TableInv, OneRowPerName, Named
<1>3. Fresh \in Record /\ RecordOK(Fresh)
  <2>1. <<>> \in Seq(Calls) /\ Len(<<>>) = 0
    BY EmptySeq
  <2>2. 0 <= Budget(MaxIterations)
    <3>1. Budget(MaxIterations) \in Nat
      BY <1>1, BudgetGrows
    <3> QED  BY <3>1
  <2>3. Fresh \in Record
    BY <2>1 DEF Fresh, Record, Reports
  <2> QED  BY <1>1, <2>1, <2>2, <2>3 DEF Fresh, RecordOK
<1> QED  BY <1>2, <1>3 DEF Init, IInv, RunInv

LEMMA NextInv == IInv /\ [Next]_vars => IInv'
<1> SUFFICES ASSUME IInv, [Next]_vars  PROVE IInv'
  OBVIOUS
<1> USE DEF IInv
<1>1. ASSUME NEW a \in Admins, BeginCreate(a) \/ BeginChange(a) \/ BeginSeed(a) \/ CommitRequest(a)
      PROVE  IInv'
  <2>1. UNCHANGED run
    BY <1>1 DEF BeginCreate, BeginChange, BeginSeed, Begin, CommitRequest
  <2>2. RunInv'
    BY <2>1 DEF RunInv
  <2> QED  BY <1>1, <2>2, AdminKeeps, CommitKeeps
<1>2. ASSUME NEW r \in Runs, Serve(r)  PROVE IInv'
  <2>1. UNCHANGED <<tables, backend>>
    BY <1>2 DEF Serve, LoadSkills, MatchSkill, Isolate, AskModel, RunCall, EndBatch, Goto, Step
  <2>2. TableInv' /\ OneRowPerName'
    BY <2>1 DEF tables, TableInv, OneRowPerName, Named
  <2> QED  BY <1>2, <2>2, ServeKeeps
<1>3. CASE UNCHANGED vars
  BY <1>3 DEF vars, tables, TableInv, OneRowPerName, Named, RunInv
<1> QED  BY <1>1, <1>2, <1>3 DEF Next

LEMMA Invariance == Spec => []IInv
BY InitInv, NextInv, PTL DEF Spec

\* The tables and the executions have their types, no name has two rows
\* however the administrators' requests overlap, and a skill is complete only
\* after an API call that succeeded.
THEOREM Soundness == Spec => []Sound
<1>1. IInv => Sound
  <2> SUFFICES ASSUME IInv  PROVE Sound
    OBVIOUS
  <2>1. TypeOK
    BY RunTypes DEF IInv, TableInv, TypeOK, Request
  <2>2. CompleteIsVerified
    BY DEF IInv, RunInv, RecordOK, CompleteIsVerified
  <2> QED  BY <2>1, <2>2 DEF IInv, Sound
<1> QED  BY <1>1, Invariance, PTL

\* Whatever fails in the execution of a skill, its message does not go to the
\* agentic loop once a tool was called (_check_skill_match).
THEOREM SkillAlone == Spec => []SkillRunsAlone
<1>1. IInv => SkillRunsAlone
  BY DEF IInv, RunInv, RecordOK, SkillRunsAlone
<1> QED  BY <1>1, Invariance, PTL

\* A workflow that is complete, or a tool that wants authentication, ends the
\* calls, whatever is left of the model's answer.
THEOREM VerdictEnds == Spec => NothingAfterVerdict
<1>1. IInv /\ [Next]_vars =>
        [\A r \in Runs : run[r].state = "complete" \/ run[r].report = "auth_required"
           => run'[r].called = run[r].called]_vars
  <2> SUFFICES ASSUME IInv, Next, NEW r \in Runs,
                      run[r].state = "complete" \/ run[r].report = "auth_required"
               PROVE  run'[r] = run[r]
    OBVIOUS
  <2>1. run \in [Runs -> Record] /\ run[r].pc = "over"
    BY DEF IInv, RunInv, RecordOK
  <2>2. CASE UNCHANGED run
    BY <2>2
  <2>3. ASSUME NEW q \in Runs, Serve(q)  PROVE run'[r] = run[r]
    <3>1. run[q].pc # "over"
      BY <2>3 DEF Serve, LoadSkills, MatchSkill, Isolate, AskModel, RunCall, EndBatch
    <3>2. PICK new : run' = [run EXCEPT ![q] = new]
      BY <2>3 DEF Serve, LoadSkills, MatchSkill, Isolate, AskModel, RunCall, EndBatch, Goto, Step
    <3> QED  BY <2>1, <3>1, <3>2
  <2>4. ASSUME NEW a \in Admins,
               BeginCreate(a) \/ BeginChange(a) \/ BeginSeed(a) \/ CommitRequest(a)
        PROVE  UNCHANGED run
    BY <2>4 DEF BeginCreate, BeginChange, BeginSeed, Begin, CommitRequest
  <2> QED  BY <2>2, <2>3, <2>4 DEF Next
<1> QED  BY <1>1, Invariance, PTL DEF Spec, NothingAfterVerdict
=============================================================================
