------------------------ MODULE WorkflowRuns_proofs ------------------------
(***************************************************************************)
(* Proofs about WorkflowRuns, for every template, number of failing        *)
(* commits and recursion limit: no tool call without a row, no step marked *)
(* completed that was not done, and no execution left open by a run that   *)
(* is reported as completed.                                               *)
(***************************************************************************)
EXTENDS WorkflowRuns, FiniteSetTheorems, SequenceTheorems, TLAPS

-----------------------------------------------------------------------------
(* The inductive invariant                                                 *)

Completed(log) == {i \in DOMAIN log : log[i].status = "completed"}

Closed(row) == row.status # "running" /\ row.metrics = row.status

\* What execute_workflow holds while it does not run: no task, and before it
\* starts no rows either.  Nobody else reports a run as completed.
IdleInv ==
  /\ pc # "running" => \A s \in Steps : node[s] = None
  /\ pc = "idle" => \A s \in Steps : rows[s] = << >>
  /\ pc # "ended" => status # "completed"

\* A task that waits for its tool has its row open, the last of its step.
CallingInv ==
  \A s \in Steps : node[s] = "calling" =>
    /\ template.kind[s] = "tool"
    /\ rows[s] # << >>
    /\ rows[s][Len(rows[s])].status = "running"

\* Until a node raises, no other row is open.
ClosedInv ==
  pc = "running" /\ ~raised =>
    \A s \in Steps : \A i \in DOMAIN rows[s] :
      Closed(rows[s][i]) \/ (node[s] = "calling" /\ i = Len(rows[s]))

\* The calls of a step are at least its completed rows and the call under way.
DoneInv ==
  \A s \in Steps :
    /\ template.kind[s] = "gate" => Completed(rows[s]) = {}
    /\ template.kind[s] = "tool" =>
         Cardinality(Completed(rows[s])) + (IF node[s] = "calling" THEN 1 ELSE 0) <= called[s]

IInv == TypeOK /\ CallsLeaveRows /\ IdleInv /\ CallingInv /\ ClosedInv /\ DoneInv

-----------------------------------------------------------------------------
(* Sequences of rows                                                       *)

Running == [status |-> "running", metrics |-> "running"]
Unmeasured == [status |-> "running", metrics |-> None]
Ended(verdict) == [status |-> verdict, metrics |-> verdict]

LEMMA RowTypes ==
  /\ Running \in Row /\ Running.status = "running"
  /\ Unmeasured \in Row /\ Unmeasured.status = "running"
  /\ \A v \in {"completed", "failed"} :
       Ended(v) \in Row /\ Ended(v).status = v /\ Closed(Ended(v))
BY DEF Running, Unmeasured, Ended, Closed, Row

\* A row put where the last one is: the others stay.
LEMMA RowReplaced ==
  ASSUME NEW S, NEW log \in Seq(S), NEW i \in 1..Len(log), i = Len(log), NEW row \in S
  PROVE  LET new == [log EXCEPT ![i] = row] IN
         /\ new \in Seq(S) /\ Len(new) = Len(log) /\ new[i] = row
         /\ \A j \in 1..(Len(log) - 1) : new[j] = log[j]
OBVIOUS

LEMMA LastReplaced ==
  ASSUME NEW S, NEW log \in Seq(S), log # << >>, NEW row \in S,
         NEW new, new = [log EXCEPT ![Len(log)] = row]
  PROVE  /\ new \in Seq(S) /\ Len(new) = Len(log) /\ new[Len(log)] = row
         /\ \A j \in 1..(Len(log) - 1) : new[j] = log[j]
<1> DEFINE i == Len(log)
<1>1. i \in 1..Len(log) /\ i = Len(log)
  OBVIOUS
<1> HIDE DEF i
<1>2. new = [log EXCEPT ![i] = row]
  BY <1>1
<1>3. /\ new \in Seq(S) /\ Len(new) = Len(log) /\ new[i] = row
      /\ \A j \in 1..(Len(log) - 1) : new[j] = log[j]
  BY <1>1, <1>2, RowReplaced
<1> QED
  BY <1>1, <1>3

\* A row appended: the others stay.
LEMMA RowAppended ==
  ASSUME NEW S, NEW log \in Seq(S), NEW row \in S, NEW new, new = Append(log, row)
  PROVE  /\ new \in Seq(S) /\ Len(new) = Len(log) + 1 /\ new[Len(log) + 1] = row
         /\ new # << >>
         /\ \A i \in 1..Len(log) : new[i] = log[i]
OBVIOUS

\* The rows of all steps after the last row of one is written over.
Written(log, s, row) == [log EXCEPT ![s][Len(log[s])] = row]

LEMMA LastWritten ==
  ASSUME NEW s \in Steps, NEW log \in [Steps -> Seq(Row)], log[s] # << >>, NEW row \in Row
  PROVE  /\ Written(log, s, row) \in [Steps -> Seq(Row)]
         /\ \A t \in Steps \ {s} : Written(log, s, row)[t] = log[t]
         /\ Written(log, s, row)[s] # << >>
         /\ Len(Written(log, s, row)[s]) = Len(log[s])
         /\ Written(log, s, row)[s][Len(log[s])] = row
         /\ \A i \in 1..(Len(log[s]) - 1) : Written(log, s, row)[s][i] = log[s][i]
<1> DEFINE last == [log[s] EXCEPT ![Len(log[s])] = row]
<1>1. Written(log, s, row) = [log EXCEPT ![s] = last]
  BY DEF Written
<1>2. /\ last \in Seq(Row) /\ Len(last) = Len(log[s]) /\ last[Len(log[s])] = row
      /\ \A i \in 1..(Len(log[s]) - 1) : last[i] = log[s][i]
  <2>1. log[s] \in Seq(Row)
    OBVIOUS
  <2> QED
    BY <2>1, LastReplaced
<1> HIDE DEF last
<1>3. last # << >>
  BY <1>2
<1> QED
  BY <1>1, <1>2, <1>3

\* The rows of all steps after one has a row more.
LEMMA StartedRows ==
  ASSUME NEW s \in Steps, rows \in [Steps -> Seq(Row)]
  PROVE  /\ Started(s) \in [Steps -> Seq(Row)]
         /\ \A t \in Steps \ {s} : Started(s)[t] = rows[t]
         /\ Started(s)[s] # << >>
         /\ Len(Started(s)[s]) = Len(rows[s]) + 1
         /\ Started(s)[s][Len(rows[s]) + 1] = Running
         /\ \A i \in 1..Len(rows[s]) : Started(s)[s][i] = rows[s][i]
<1> DEFINE more == Append(rows[s], Running)
<1>1. Started(s) = [rows EXCEPT ![s] = more]
  BY DEF Started, Running
<1>2. /\ more \in Seq(Row) /\ Len(more) = Len(rows[s]) + 1
      /\ more[Len(rows[s]) + 1] = Running /\ more # << >>
      /\ \A i \in 1..Len(rows[s]) : more[i] = rows[s][i]
  <2>1. rows[s] \in Seq(Row)
    OBVIOUS
  <2>2. Running \in Row
    BY RowTypes
  <2> QED
    BY <2>1, <2>2, RowAppended
<1> HIDE DEF more
<1> QED
  BY <1>1, <1>2

LEMMA CompletedFinite ==
  ASSUME NEW log \in Seq(Row)
  PROVE  IsFiniteSet(Completed(log)) /\ Cardinality(Completed(log)) \in Nat
<1> DEFINE n == Len(log)
           done == Completed(log)
<1>1. done \subseteq 1..n /\ n \in Nat
  BY DEF Completed
<1>2. IsFiniteSet(1..n)
  BY <1>1, FS_Interval
<1> HIDE DEF n, done
<1>3. IsFiniteSet(done)
  BY <1>1, <1>2, FS_Subset
<1>4. Cardinality(done) \in Nat
  BY <1>3, FS_CardinalityType
<1> QED
  BY <1>3, <1>4 DEF done

\* A row more, or the open last one written: what is completed of a step.
LEMMA CompletedAfter ==
  ASSUME NEW log \in Seq(Row), NEW new \in Seq(Row), NEW k \in Nat,
         Len(log) = k \/ (Len(log) = k + 1 /\ log[k + 1].status # "completed"),
         Len(new) = k + 1, \A i \in 1..k : new[i] = log[i]
  PROVE  /\ IsFiniteSet(Completed(log)) /\ Cardinality(Completed(log)) \in Nat
         /\ new[k + 1].status # "completed" => Completed(new) = Completed(log)
         /\ Cardinality(Completed(new)) <= Cardinality(Completed(log)) + 1
<1>1. Len(log) \in Nat /\ DOMAIN new = 1..(k + 1)
  OBVIOUS
<1>2. IsFiniteSet(Completed(log)) /\ Cardinality(Completed(log)) \in Nat
  BY CompletedFinite
<1>3. Completed(log) \subseteq 1..k
  BY DEF Completed
<1>4. /\ new[k + 1].status # "completed" => Completed(new) = Completed(log)
      /\ Completed(new) \in {Completed(log), Completed(log) \cup {k + 1}}
  <2>1. \A i \in 1..k : i \in Completed(new) <=> i \in Completed(log)
    BY DEF Completed
  <2>2. Completed(new) \subseteq 1..(k + 1)
    BY DEF Completed
  <2>3. k + 1 \in Completed(new) <=> new[k + 1].status = "completed"
    BY DEF Completed
  <2>4. 1..(k + 1) = (1..k) \cup {k + 1}
    OBVIOUS
  <2> QED
    BY <2>1, <2>2, <2>3, <2>4, <1>3
<1>5. Cardinality(Completed(log) \cup {k + 1}) <= Cardinality(Completed(log)) + 1
  <2> DEFINE done == Completed(log)
           e == k + 1
  <2>1. IsFiniteSet(done) /\ Cardinality(done) \in Nat
    BY <1>2
  <2> HIDE DEF done, e
  <2>2. Cardinality(done \cup {e}) = IF e \in done THEN Cardinality(done) ELSE Cardinality(done) + 1
    BY <2>1, FS_AddElement
  <2>3. Cardinality(done \cup {e}) <= Cardinality(done) + 1
    BY <2>1, <2>2
  <2> QED
    BY <2>3 DEF done, e
<1>6. Cardinality(Completed(new)) <= Cardinality(Completed(log)) + 1
  <2> DEFINE done == Completed(log)
           after == Completed(new)
           grown == done \cup {k + 1}
  <2>1. after = done \/ after = grown
    BY <1>4
  <2>2. Cardinality(done) \in Nat /\ Cardinality(grown) <= Cardinality(done) + 1
    BY <1>2, <1>5
  <2> HIDE DEF done, after, grown
  <2>3. Cardinality(after) <= Cardinality(done) + 1
    BY <2>1, <2>2
  <2> QED
    BY <2>3 DEF done, after
<1> QED
  BY <1>2, <1>4, <1>6

-----------------------------------------------------------------------------
(* What the end of a node leaves                                           *)

\* Of the rows it worked on only its last changes, and says how it ended
\* unless the node raised.
Leaves(s, log, verdicts) ==
  /\ rows' \in [Steps -> Seq(Row)]
  /\ \A t \in Steps \ {s} : rows'[t] = log[t]
  /\ Len(rows'[s]) = Len(log[s])
  /\ \A i \in 1..(Len(log[s]) - 1) : rows'[s][i] = log[s][i]
  /\ node' = [node EXCEPT ![s] = "over"]
  /\ broken' \in BOOLEAN
  /\ \/ raised' = TRUE /\ (rows'[s][Len(log[s])].status = "completed" => "completed" \in verdicts)
     \/ raised' = raised /\ \E v \in verdicts : rows'[s][Len(log[s])] = Ended(v)

\* Only the status of the last row is written.
Marked(log, s, v) == [log EXCEPT ![s][Len(log[s])].status = v]

LEMMA StatusWritten ==
  ASSUME NEW s \in Steps, NEW log \in [Steps -> Seq(Row)], log[s] # << >>,
         NEW v \in {"completed", "failed"}
  PROVE  \E row \in Row : row.status = v /\ Marked(log, s, v) = Written(log, s, row)
<1> DEFINE row == [log[s][Len(log[s])] EXCEPT !.status = v]
<1>1. log[s][Len(log[s])] \in Row
  <2>1. log[s] \in Seq(Row) /\ Len(log[s]) \in 1..Len(log[s])
    OBVIOUS
  <2> QED
    BY <2>1, ElementOfSeq
<1>2. row \in Row /\ row.status = v
  BY <1>1 DEF Row
<1>3. Marked(log, s, v) = Written(log, s, row)
  BY DEF Written, Marked
<1> QED
  BY <1>2, <1>3

LEMMA RowsWritten ==
  ASSUME NEW s \in Steps, NEW log \in [Steps -> Seq(Row)], log[s] # << >>, NEW row \in Row,
         rows' = Written(log, s, row)
  PROVE  /\ rows' \in [Steps -> Seq(Row)]
         /\ \A t \in Steps \ {s} : rows'[t] = log[t]
         /\ Len(rows'[s]) = Len(log[s])
         /\ rows'[s][Len(log[s])] = row
         /\ \A i \in 1..(Len(log[s]) - 1) : rows'[s][i] = log[s][i]
BY LastWritten

LEMMA EndedLeaves ==
  ASSUME NEW s \in Steps, NEW log \in [Steps -> Seq(Row)], log[s] # << >>,
         NEW v \in {"completed", "failed"}, rows' = Written(log, s, Ended(v)),
         raised' = raised, broken' \in BOOLEAN, node' = [node EXCEPT ![s] = "over"],
         NEW verdicts, v \in verdicts
  PROVE  Leaves(s, log, verdicts)
<1> DEFINE row == Ended(v)
<1>1. row \in Row /\ rows' = Written(log, s, row)
  BY RowTypes
<1> HIDE DEF row
<1>2. /\ rows' \in [Steps -> Seq(Row)]
      /\ \A t \in Steps \ {s} : rows'[t] = log[t]
      /\ Len(rows'[s]) = Len(log[s])
      /\ rows'[s][Len(log[s])] = row
      /\ \A i \in 1..(Len(log[s]) - 1) : rows'[s][i] = log[s][i]
  BY <1>1, RowsWritten
<1> QED
  BY <1>2 DEF Leaves, row

LEMMA FailureLeaves ==
  ASSUME NEW s \in Steps, NEW log \in [Steps -> Seq(Row)], log[s] # << >>, NEW fault \in Faults,
         broken \in BOOLEAN, StepFails(s, log, fault),
         NEW verdicts, "failed" \in verdicts,
         log[s][Len(log[s])].status = "completed" => "completed" \in verdicts
  PROVE  Leaves(s, log, verdicts)
<1>1. CASE fault = "row"
  <2>1. rows' = log /\ raised' = TRUE /\ node' = [node EXCEPT ![s] = "over"] /\ broken' = TRUE
    BY <1>1 DEF StepFails, Raise, Over
  <2> QED
    BY <2>1 DEF Leaves
<1>2. CASE fault = "metrics"
  <2>1. /\ rows' = Marked(log, s, "failed")
        /\ raised' = TRUE /\ node' = [node EXCEPT ![s] = "over"] /\ broken' = broken
    BY <1>2 DEF StepFails, Raise, Over, Marked
  <2>2. PICK row \in Row : row.status = "failed" /\ rows' = Written(log, s, row)
    BY <2>1, StatusWritten
  <2>3. /\ rows' \in [Steps -> Seq(Row)]
        /\ \A t \in Steps \ {s} : rows'[t] = log[t]
        /\ Len(rows'[s]) = Len(log[s]) /\ rows'[s][Len(log[s])].status = "failed"
        /\ \A i \in 1..(Len(log[s]) - 1) : rows'[s][i] = log[s][i]
    <3>1. rows'[s][Len(log[s])] = row
      BY <2>2, RowsWritten
    <3> QED
      BY <2>2, <3>1, RowsWritten
  <2> QED
    BY <2>1, <2>3 DEF Leaves
<1>3. CASE fault = None
  <2>1. /\ rows' = Written(log, s, Ended("failed"))
        /\ raised' = raised /\ node' = [node EXCEPT ![s] = "over"] /\ broken' = broken
    BY <1>3 DEF StepFails, Over, Ended, Written
  <2> QED
    BY <2>1, EndedLeaves
<1> QED
  BY <1>1, <1>2, <1>3 DEF Faults

LEMMA CompletionLeaves ==
  ASSUME NEW s \in Steps, NEW log \in [Steps -> Seq(Row)], log[s] # << >>,
         NEW fault \in Faults, NEW again \in Faults, broken \in BOOLEAN,
         StepCompletes(s, log, fault, again)
  PROVE  Leaves(s, log, {"completed", "failed"})
<1>1. CASE fault = "row"
  <2>1. StepFails(s, log, "row")
    BY <1>1 DEF StepCompletes
  <2> QED
    BY <2>1, <1>1, FailureLeaves
<1>2. CASE fault = "metrics"
  <2> DEFINE mid == Marked(log, s, "completed")
  <2>1. StepFails(s, mid, again)
    BY <1>2 DEF StepCompletes, Marked
  <2>2. /\ mid \in [Steps -> Seq(Row)] /\ mid[s] # << >>
        /\ \A t \in Steps \ {s} : mid[t] = log[t]
        /\ Len(mid[s]) = Len(log[s])
        /\ \A i \in 1..(Len(log[s]) - 1) : mid[s][i] = log[s][i]
    <3>1. PICK row \in Row : row.status = "completed" /\ mid = Written(log, s, row)
      BY StatusWritten
    <3> HIDE DEF mid
    <3>2. /\ Written(log, s, row) \in [Steps -> Seq(Row)] /\ Written(log, s, row)[s] # << >>
          /\ \A t \in Steps \ {s} : Written(log, s, row)[t] = log[t]
          /\ Len(Written(log, s, row)[s]) = Len(log[s])
          /\ \A i \in 1..(Len(log[s]) - 1) : Written(log, s, row)[s][i] = log[s][i]
      BY LastWritten
    <3> QED
      BY <3>1, <3>2
  <2> HIDE DEF mid
  <2>3. Leaves(s, mid, {"completed", "failed"})
    BY <2>1, <2>2, FailureLeaves
  <2> QED
    BY <2>2, <2>3 DEF Leaves
<1>3. CASE fault = None
  <2>1. /\ rows' = Written(log, s, Ended("completed"))
        /\ raised' = raised /\ node' = [node EXCEPT ![s] = "over"] /\ broken' = broken
    BY <1>3 DEF StepCompletes, Over, Ended, None, Written
  <2> QED
    BY <2>1, EndedLeaves
<1> QED
  BY <1>1, <1>2, <1>3 DEF Faults

-----------------------------------------------------------------------------
(* A step of a node, as the invariant sees it                              *)

\* k rows of the step were written for good; the one after them is new or
\* was open.
Works(s, k) ==
  /\ k \in Nat
  /\ Len(rows[s]) = k \/ (Len(rows[s]) = k + 1 /\ rows[s][k + 1].status # "completed")

\* The node sends its tool call.
Sends(s, k) ==
  /\ template.kind[s] = "tool"
  /\ Len(rows[s]) = k /\ Len(rows'[s]) = k + 1
  /\ rows'[s][k + 1].status = "running"
  /\ node' = [node EXCEPT ![s] = "calling"]
  /\ called' = [called EXCEPT ![s] = called[s] + 1]
  /\ raised' = raised

\* The node is over: it raised and wrote nothing, or its last row says how.
Finishes(s, k) ==
  /\ node' = [node EXCEPT ![s] = "over"]
  /\ called' = called
  /\ \/ raised' = TRUE /\ rows' = rows
     \/ /\ Len(rows'[s]) = k + 1
        /\ raised' = TRUE \/ (raised' = raised /\ Closed(rows'[s][k + 1]))
        /\ rows'[s][k + 1].status = "completed" =>
             template.kind[s] = "plain" \/ node[s] = "calling"

NodeStep(s, k) ==
  /\ Works(s, k)
  /\ rows' \in [Steps -> Seq(Row)]
  /\ \A t \in Steps \ {s} : rows'[t] = rows[t]
  /\ \A i \in 1..k : rows'[s][i] = rows[s][i]
  /\ Sends(s, k) \/ Finishes(s, k)
  /\ broken' \in BOOLEAN /\ faults' \in 0..MaxFaults
  /\ UNCHANGED <<template, status, decision, pc, turns, people>>

LEMMA CommitsType ==
  ASSUME faults \in 0..MaxFaults, NEW fault, Commits(fault)
  PROVE  faults' \in 0..MaxFaults
BY WorkflowAssumption DEF Commits

LEMMA CommitsTwiceType ==
  ASSUME faults \in 0..MaxFaults, NEW fault, NEW again, CommitsTwice(fault, again)
  PROVE  faults' \in 0..MaxFaults
BY WorkflowAssumption DEF CommitsTwice

LEMMA BeginStep ==
  ASSUME IInv, NEW s \in Steps, Begin(s)
  PROVE  NodeStep(s, Len(rows[s]))
<1> DEFINE k == Len(rows[s])
<1>1. /\ rows \in [Steps -> Seq(Row)] /\ rows[s] \in Seq(Row) /\ k \in Nat
      /\ broken \in BOOLEAN /\ raised \in BOOLEAN /\ faults \in 0..MaxFaults
      /\ called \in [Steps -> Nat]
  BY DEF IInv, TypeOK
<1>2. /\ Started(s) \in [Steps -> Seq(Row)]
      /\ \A t \in Steps \ {s} : Started(s)[t] = rows[t]
      /\ Started(s)[s] # << >>
      /\ Len(Started(s)[s]) = k + 1
      /\ Started(s)[s][k + 1] = Running /\ Running.status = "running"
      /\ \A i \in 1..k : Started(s)[s][i] = rows[s][i]
  BY <1>1, StartedRows, RowTypes
<1> HIDE DEF k
<1>3. UNCHANGED <<template, status, decision, pc, turns, people>> /\ node[s] = "due"
  BY DEF Begin
<1>4. Works(s, k)
  BY <1>1 DEF Works, k
<1>a. ASSUME faults' \in 0..MaxFaults, called' = called, ~broken,
             NEW verdicts \in SUBSET {"completed", "failed"},
             "completed" \in verdicts => template.kind[s] = "plain",
             Leaves(s, Started(s), verdicts)
      PROVE  NodeStep(s, k)
  <2>2. /\ rows' \in [Steps -> Seq(Row)]
        /\ \A t \in Steps \ {s} : rows'[t] = rows[t]
        /\ Len(rows'[s]) = k + 1
        /\ \A i \in 1..k : rows'[s][i] = rows[s][i]
        /\ node' = [node EXCEPT ![s] = "over"] /\ broken' \in BOOLEAN
        /\ \/ raised' = TRUE /\ (rows'[s][k + 1].status = "completed" => "completed" \in verdicts)
           \/ raised' = raised /\ \E v \in verdicts : rows'[s][k + 1] = Ended(v)
    <3> DEFINE log == Started(s)
    <3>1. /\ rows' \in [Steps -> Seq(Row)]
          /\ \A t \in Steps \ {s} : rows'[t] = log[t]
          /\ Len(rows'[s]) = Len(log[s])
          /\ \A i \in 1..(Len(log[s]) - 1) : rows'[s][i] = log[s][i]
          /\ node' = [node EXCEPT ![s] = "over"] /\ broken' \in BOOLEAN
          /\ \/ raised' = TRUE /\ (rows'[s][Len(log[s])].status = "completed" => "completed" \in verdicts)
             \/ raised' = raised /\ \E v \in verdicts : rows'[s][Len(log[s])] = Ended(v)
      BY <1>a DEF Leaves
    <3>2. /\ \A t \in Steps \ {s} : log[t] = rows[t]
          /\ Len(log[s]) = k + 1
          /\ \A i \in 1..k : log[s][i] = rows[s][i]
      BY <1>2
    <3> HIDE DEF log
    <3>3. (Len(log[s]) - 1) = k
      BY <1>1, <1>2, <3>2 DEF k
    <3> QED
      BY <3>1, <3>2, <3>3
  <2>3. /\ raised' = TRUE \/ (raised' = raised /\ Closed(rows'[s][k + 1]))
        /\ rows'[s][k + 1].status = "completed" => template.kind[s] = "plain"
    BY <2>2, <1>a, RowTypes
  <2>4. Finishes(s, k)
    BY <2>2, <2>3, <1>a DEF Finishes
  <2> QED
    BY <1>a, <2>2, <2>4, <1>3, <1>4 DEF NodeStep
<1>b. ASSUME NEW fault \in Faults, Commits(fault), StepFails(s, Started(s), fault),
             ~broken, called' = called
      PROVE  NodeStep(s, k)
  <2>1. Leaves(s, Started(s), {"failed"})
    BY <1>b, <1>1, <1>2, FailureLeaves
  <2> QED
    BY <2>1, <1>1, <1>b, <1>a, CommitsType
<1>5. CASE /\ broken /\ Raise(s)
           /\ UNCHANGED <<rows, broken, called, faults>>
  BY <1>5, <1>1, <1>3, <1>4 DEF NodeStep, Finishes, Raise, Over, k
<1>6. ASSUME NEW fault \in {"row", "metrics"}, Commits(fault), StartFails(s, fault),
             UNCHANGED called
      PROVE  NodeStep(s, k)
  <2>1. faults' \in 0..MaxFaults /\ broken' \in BOOLEAN
    BY <1>1, <1>6, CommitsType DEF StartFails
  <2>2. CASE fault = "row"
    BY <2>1, <2>2, <1>1, <1>3, <1>4, <1>6 DEF NodeStep, Finishes, StartFails, Raise, Over, k
  <2>3. CASE fault = "metrics"
    <3> DEFINE started == Started(s)
    <3>1. rows' = [started EXCEPT ![s][k + 1].metrics = None]
      BY <2>3, <1>6 DEF StartFails, k
    <3>2. [started[s][k + 1] EXCEPT !.metrics = None] = Unmeasured
      BY <1>2 DEF Unmeasured, Running
    <3>3. rows' = Written(started, s, Unmeasured)
      <4>1. rows' = [started EXCEPT ![s][k + 1] = [started[s][k + 1] EXCEPT !.metrics = None]]
        BY <3>1
      <4> HIDE DEF started
      <4>2. rows' = [started EXCEPT ![s][k + 1] = Unmeasured]
        BY <4>1, <3>2
      <4>3. Len(started[s]) = k + 1
        BY <1>2 DEF started
      <4> QED
        BY <4>2, <4>3 DEF Written
    <3> HIDE DEF started
    <3>4. /\ rows' \in [Steps -> Seq(Row)]
          /\ \A t \in Steps \ {s} : rows'[t] = started[t]
          /\ Len(rows'[s]) = Len(started[s])
          /\ rows'[s][Len(started[s])] = Unmeasured
          /\ \A i \in 1..(Len(started[s]) - 1) : rows'[s][i] = started[s][i]
      BY <3>3, <1>2, RowTypes, LastWritten DEF started
    <3>5. /\ \A t \in Steps \ {s} : rows'[t] = rows[t]
          /\ Len(rows'[s]) = k + 1 /\ rows'[s][k + 1].status = "running"
          /\ \A i \in 1..k : rows'[s][i] = rows[s][i]
      BY <3>4, <1>1, <1>2, RowTypes DEF started
    <3>6. Finishes(s, k)
      BY <3>5, <1>6 DEF Finishes, StartFails, Raise, Over
    <3> QED
      BY <3>4, <3>5, <3>6, <2>1, <1>3, <1>4 DEF NodeStep
  <2> QED
    BY <2>2, <2>3
<1>7. CASE /\ ~broken /\ template.kind[s] = "tool"
           /\ node' = [node EXCEPT ![s] = "calling"]
           /\ called' = [called EXCEPT ![s] = @ + 1]
           /\ rows' = Started(s)
           /\ UNCHANGED <<raised, broken, faults>>
  BY <1>7, <1>1, <1>2, <1>3, <1>4 DEF NodeStep, Sends, k
<1>8. ASSUME ~broken, NEW fault \in Faults, Commits(fault), Gate(s, fault), UNCHANGED called
      PROVE  NodeStep(s, k)
  BY <1>8, <1>b DEF Gate
<1>9. ASSUME ~broken, template.kind[s] = "plain",
             NEW fault \in Faults, NEW again \in Faults, CommitsTwice(fault, again),
             StepCompletes(s, Started(s), fault, again), UNCHANGED called
      PROVE  NodeStep(s, k)
  <2>1. Leaves(s, Started(s), {"completed", "failed"})
    BY <1>9, <1>1, <1>2, CompletionLeaves
  <2>2. faults' \in 0..MaxFaults
    BY <1>1, <1>9, CommitsTwiceType
  <2> QED
    BY <2>1, <2>2, <1>9, <1>a
<1> QED
  BY <1>5, <1>6, <1>7, <1>8, <1>9, <1>b DEF Begin, k

LEMMA AnswerStep ==
  ASSUME IInv, NEW s \in Steps, Answer(s)
  PROVE  node[s] = "calling" /\ NodeStep(s, Len(rows[s]) - 1)
<1> DEFINE k == Len(rows[s]) - 1
<1>1. /\ rows \in [Steps -> Seq(Row)] /\ rows[s] \in Seq(Row) /\ node[s] = "calling"
      /\ rows[s] # << >> /\ rows[s][Len(rows[s])].status = "running"
      /\ broken \in BOOLEAN /\ raised \in BOOLEAN /\ faults \in 0..MaxFaults
      /\ called \in [Steps -> Nat]
  BY DEF IInv, TypeOK, CallingInv, Answer
<1>2. k \in Nat /\ Len(rows[s]) = k + 1
  BY <1>1, EmptySeq
<1> HIDE DEF k
<1>3. UNCHANGED <<template, status, decision, pc, turns, people, called>>
  BY DEF Answer
<1>4. Works(s, k)
  BY <1>1, <1>2 DEF Works
<1>5. CASE broken /\ Raise(s) /\ UNCHANGED <<rows, broken, faults>>
  BY <1>5, <1>1, <1>2, <1>3, <1>4 DEF NodeStep, Finishes, Raise, Over, k
<1>6. ASSUME NEW fault \in Faults, NEW again \in Faults,
             \/ CommitsTwice(fault, again) /\ StepCompletes(s, rows, fault, again)
             \/ Commits(fault) /\ StepFails(s, rows, fault)
      PROVE  NodeStep(s, k)
  <2>1. faults' \in 0..MaxFaults
    BY <1>1, <1>6, CommitsType, CommitsTwiceType
  <2>2. Leaves(s, rows, {"completed", "failed"})
    <3>1. CASE StepCompletes(s, rows, fault, again)
      BY <3>1, <1>1, CompletionLeaves
    <3>2. CASE StepFails(s, rows, fault)
      BY <3>2, <1>1, FailureLeaves
    <3> QED
      BY <3>1, <3>2, <1>6
  <2>3. /\ rows' \in [Steps -> Seq(Row)]
        /\ \A t \in Steps \ {s} : rows'[t] = rows[t]
        /\ Len(rows'[s]) = k + 1
        /\ \A i \in 1..k : rows'[s][i] = rows[s][i]
        /\ node' = [node EXCEPT ![s] = "over"] /\ broken' \in BOOLEAN
        /\ raised' = TRUE \/ (raised' = raised /\ Closed(rows'[s][k + 1]))
    BY <2>2, <1>2, RowTypes DEF Leaves
  <2>4. Finishes(s, k)
    BY <2>3, <1>1, <1>3 DEF Finishes
  <2> QED
    BY <2>1, <2>3, <2>4, <1>3, <1>4 DEF NodeStep
<1> QED
  BY <1>1, <1>5, <1>6 DEF Answer, k

LEMMA NodeKeepsIInv ==
  ASSUME IInv, NEW s \in Steps, NEW k \in Nat, NodeStep(s, k),
         \/ node[s] = "due" /\ Len(rows[s]) = k
         \/ node[s] = "calling" /\ Len(rows[s]) = k + 1
  PROVE  IInv'
<1>1. /\ TypeOK /\ CallsLeaveRows /\ IdleInv /\ CallingInv /\ ClosedInv /\ DoneInv
      /\ rows \in [Steps -> Seq(Row)] /\ called \in [Steps -> Nat]
      /\ node \in [Steps -> {None, "due", "calling", "over"}]
      /\ raised \in BOOLEAN /\ template.kind \in [Steps -> Kinds]
  BY DEF IInv, TypeOK, Definition
<1>2. /\ rows' \in [Steps -> Seq(Row)]
      /\ \A t \in Steps \ {s} : rows'[t] = rows[t]
      /\ \A i \in 1..k : rows'[s][i] = rows[s][i]
      /\ Sends(s, k) \/ Finishes(s, k)
      /\ UNCHANGED <<template, status, decision, pc, turns, people>>
      /\ Works(s, k)
      /\ rows'[s] \in Seq(Row) /\ rows[s] \in Seq(Row)
  BY <1>1 DEF NodeStep
<1>3. node[s] # None /\ pc = "running"
  BY <1>1 DEF IdleInv, None
<1>4. \A t \in Steps \ {s} : node'[t] = node[t] /\ called'[t] = called[t]
  BY <1>1, <1>2 DEF Sends, Finishes
<1>5. TypeOK'
  <2>1. /\ node' \in [Steps -> {None, "due", "calling", "over"}]
        /\ called' \in [Steps -> Nat] /\ raised' \in BOOLEAN
    <3>1. CASE Sends(s, k)
      BY <3>1, <1>1 DEF Sends
    <3>2. CASE Finishes(s, k)
      BY <3>2, <1>1 DEF Finishes
    <3> QED
      BY <3>1, <3>2, <1>2
  <2> QED
    BY <2>1, <1>1, <1>2 DEF TypeOK, NodeStep, people
<1>6. CallsLeaveRows'
  <2>1. called'[s] <= Len(rows'[s])
    <3>1. called[s] <= Len(rows[s]) /\ called[s] \in Nat
      BY <1>1 DEF CallsLeaveRows
    <3>2. CASE Sends(s, k)
      BY <3>1, <3>2, <1>1 DEF Sends
    <3>3. CASE Finishes(s, k)
      <4>1. called' = called
        BY <3>3 DEF Finishes
      <4>2. Len(rows'[s]) >= Len(rows[s])
        BY <3>3, <1>1 DEF Finishes
      <4> QED
        BY <4>1, <4>2, <3>1, <1>2
    <3> QED
      BY <3>2, <3>3, <1>2
  <2> QED
    BY <2>1, <1>1, <1>2, <1>4 DEF CallsLeaveRows
<1>7. IdleInv'
  BY <1>1, <1>2, <1>3 DEF IdleInv
<1>8. CallingInv'
  <2>1. ASSUME NEW t \in Steps \ {s}, node'[t] = "calling"
        PROVE  /\ template'.kind[t] = "tool" /\ rows'[t] # << >>
               /\ rows'[t][Len(rows'[t])].status = "running"
    BY <2>1, <1>1, <1>2, <1>4 DEF CallingInv
  <2>2. ASSUME node'[s] = "calling"
        PROVE  /\ template'.kind[s] = "tool" /\ rows'[s] # << >>
               /\ rows'[s][Len(rows'[s])].status = "running"
    <3>1. Sends(s, k)
      BY <2>2, <1>1, <1>2 DEF Finishes
    <3>2. rows'[s] # << >>
      BY <3>1, <1>2 DEF Sends
    <3> QED
      BY <3>1, <3>2, <1>2 DEF Sends
  <2> QED
    BY <2>1, <2>2 DEF CallingInv
<1>9. ClosedInv'
  <2> SUFFICES ASSUME raised' # TRUE, NEW t \in Steps, NEW i \in DOMAIN rows'[t]
               PROVE  Closed(rows'[t][i]) \/ (node'[t] = "calling" /\ i = Len(rows'[t]))
    BY <1>2 DEF ClosedInv, Closed
  <2>1. raised' = raised /\ raised = FALSE
    BY <1>1, <1>2 DEF Sends, Finishes
  <2>2. CASE t # s
    BY <2>1, <2>2, <1>1, <1>2, <1>3, <1>4 DEF ClosedInv
  <2>3. CASE t = s /\ i \in 1..k
    <3>1. i \in DOMAIN rows[s] /\ (node[s] = "calling" => i # Len(rows[s]))
      BY <2>3, <1>2
    <3>2. Closed(rows[s][i])
      BY <3>1, <2>1, <1>1, <1>3 DEF ClosedInv
    <3> QED
      BY <3>2, <2>3, <1>2
  <2>4. CASE t = s /\ i \notin 1..k
    <3>1. Len(rows'[s]) = k + 1
      BY <2>1, <1>2, <2>4 DEF Sends, Finishes
    <3>2. i = k + 1
      BY <3>1, <2>4, <1>2
    <3>3. CASE Sends(s, k)
      BY <3>1, <3>2, <3>3, <2>4, <1>1 DEF Sends
    <3>4. CASE Finishes(s, k)
      BY <3>1, <3>2, <3>4, <2>1, <2>4 DEF Finishes
    <3> QED
      BY <3>3, <3>4, <1>2
  <2> QED
    BY <2>2, <2>3, <2>4
<1>10. DoneInv'
  <2>1. ASSUME NEW t \in Steps \ {s}
        PROVE  /\ template'.kind[t] = "gate" => Completed(rows'[t]) = {}
               /\ template'.kind[t] = "tool" =>
                    Cardinality(Completed(rows'[t])) + (IF node'[t] = "calling" THEN 1 ELSE 0)
                      <= called'[t]
    BY <1>1, <1>2, <1>4 DEF DoneInv
  <2> DEFINE done == Cardinality(Completed(rows[s]))
             after == Cardinality(Completed(rows'[s]))
  <2>2. /\ template.kind[s] = "gate" => Completed(rows[s]) = {}
        /\ template.kind[s] = "tool" =>
             done + (IF node[s] = "calling" THEN 1 ELSE 0) <= called[s]
    BY <1>1 DEF DoneInv
  <2> DEFINE Fine == /\ template.kind[s] = "gate" => Completed(rows'[s]) = {}
                     /\ template.kind[s] = "tool" =>
                          after + (IF node'[s] = "calling" THEN 1 ELSE 0) <= called'[s]
  <2>3. ASSUME Len(rows'[s]) = k + 1 PROVE Fine
    <3>1. /\ done \in Nat /\ after \in Nat
          /\ rows'[s][k + 1].status # "completed" => Completed(rows'[s]) = Completed(rows[s])
          /\ after <= done + 1
      BY <2>3, <1>2, CompletedAfter, CompletedFinite DEF Works
    <3>2. called[s] \in Nat
      BY <1>1
    <3>3. CASE Sends(s, k)
      <4>1. /\ template.kind[s] = "tool" /\ node[s] = "due"
            /\ Completed(rows'[s]) = Completed(rows[s])
            /\ node'[s] = "calling" /\ called'[s] = called[s] + 1
        BY <3>3, <3>1, <1>1 DEF Sends
      <4>2. after = done
        BY <4>1
      <4> QED
        BY <4>1, <4>2, <3>1, <3>2, <2>2
    <3>4. CASE Finishes(s, k) /\ rows'[s][k + 1].status # "completed"
      <4>1. /\ Completed(rows'[s]) = Completed(rows[s])
            /\ node'[s] = "over" /\ called'[s] = called[s]
        BY <3>4, <3>1, <1>1 DEF Finishes
      <4>2. after = done
        BY <4>1
      <4> QED
        BY <4>1, <4>2, <3>1, <3>2, <2>2
    <3>5. CASE Finishes(s, k) /\ rows'[s][k + 1].status = "completed"
      <4>1. /\ node'[s] = "over" /\ called'[s] = called[s]
            /\ template.kind[s] = "plain" \/ node[s] = "calling"
        <5>1. CASE rows' = rows
          BY <5>1, <3>5, <1>1, <2>3 DEF Finishes
        <5>2. CASE rows' # rows
          BY <5>2, <3>5, <1>1 DEF Finishes
        <5> QED
          BY <5>1, <5>2
      <4>2. node[s] = "calling" => template.kind[s] = "tool"
        BY <1>1 DEF CallingInv
      <4> HIDE DEF done, after
      <4>3. node[s] = "calling" => after <= called[s]
        BY <4>2, <3>1, <3>2, <2>2
      <4> QED
        BY <4>1, <4>2, <4>3, <3>1, <3>2
    <3> QED
      BY <3>3, <3>4, <3>5, <1>2
  <2>4. ASSUME Len(rows'[s]) # k + 1 PROVE Fine
    <3>1. rows' = rows /\ called' = called /\ node'[s] = "over"
      BY <2>4, <1>1, <1>2 DEF Sends, Finishes
    <3>2. done \in Nat /\ called[s] \in Nat
      BY <1>1, <1>2, CompletedFinite
    <3> QED
      BY <3>1, <3>2, <2>2
  <2>5. Fine
    BY <2>3, <2>4
  <2> QED
    BY <2>1, <2>5, <1>2 DEF DoneInv
<1> QED
  BY <1>5, <1>6, <1>7, <1>8, <1>9, <1>10 DEF IInv

-----------------------------------------------------------------------------
(* The other steps                                                         *)

LEMMA InitIInv == ASSUME Init PROVE IInv
<1>1. TypeOK
  <2>1. template \in Definition
    BY TemplatesAssumption DEF Init
  <2>2. turns \in 0..RecursionLimit /\ faults \in 0..MaxFaults /\ requests \in 0..MaxRequests
    BY WorkflowAssumption DEF Init
  <2>3. rows \in [Steps -> Seq(Row)] /\ called \in [Steps -> Nat]
    BY DEF Init
  <2>4. decision \in [by : Approvers \cup {None}, verdict : Verdicts \cup {None}]
    BY DEF Init
  <2>5. /\ node \in [Steps -> {None, "due", "calling", "over"}]
        /\ approver \in [Approvers -> {"away", "read", "decided", "refused"}]
        /\ status \in RunStatuses /\ pc \in {"idle", "running", "ended"}
        /\ raised \in BOOLEAN /\ broken \in BOOLEAN
    BY DEF Init, RunStatuses
  <2> QED
    BY <2>1, <2>2, <2>3, <2>4, <2>5 DEF TypeOK
<1>2. CallsLeaveRows /\ IdleInv /\ CallingInv /\ ClosedInv
  BY DEF Init, CallsLeaveRows, IdleInv, CallingInv, ClosedInv, None
<1>3. DoneInv
  <2>1. Completed(<< >>) = {} /\ Cardinality({}) = 0
    BY FS_EmptySet DEF Completed
  <2>2. ASSUME NEW s \in Steps
        PROVE  rows[s] = << >> /\ called[s] = 0 /\ node[s] # "calling"
    BY DEF Init, None
  <2>3. ASSUME NEW s \in Steps
        PROVE  /\ Completed(rows[s]) = {}
               /\ Cardinality(Completed(rows[s])) + (IF node[s] = "calling" THEN 1 ELSE 0)
                    <= called[s]
    <3>1. Completed(rows[s]) = {} /\ Cardinality(Completed(rows[s])) = 0
      BY <2>1, <2>2
    <3>2. 0 + (IF node[s] = "calling" THEN 1 ELSE 0) <= called[s]
      BY <2>2
    <3> QED
      BY <3>1, <3>2
  <2> QED
    BY <2>3 DEF DoneInv
<1> QED
  BY <1>1, <1>2, <1>3 DEF IInv

\* A step that changes neither rows nor calls, nor sends one: what the calls
\* owe the rows stays owed.
LEMMA QuietStep ==
  ASSUME IInv, UNCHANGED <<template, rows, called>>,
         \A s \in Steps : node'[s] = "calling" => node[s] = "calling"
  PROVE  CallsLeaveRows' /\ CallingInv' /\ DoneInv'
<1>1. CallsLeaveRows /\ CallingInv /\ DoneInv /\ called \in [Steps -> Nat]
      /\ rows \in [Steps -> Seq(Row)]
  BY DEF IInv, TypeOK
<1>2. CallsLeaveRows' /\ CallingInv'
  BY <1>1 DEF CallsLeaveRows, CallingInv
<1>3. ASSUME NEW s \in Steps, template.kind[s] = "tool"
      PROVE  Cardinality(Completed(rows[s])) + (IF node'[s] = "calling" THEN 1 ELSE 0)
               <= called[s]
  <2> DEFINE done == Cardinality(Completed(rows[s]))
  <2>1. done \in Nat /\ called[s] \in Nat
    BY <1>1, CompletedFinite
  <2>2. done + (IF node[s] = "calling" THEN 1 ELSE 0) <= called[s]
    BY <1>1, <1>3 DEF DoneInv
  <2> HIDE DEF done
  <2>3. done + (IF node'[s] = "calling" THEN 1 ELSE 0) <= called[s]
    BY <2>1, <2>2
  <2> QED
    BY <2>3 DEF done
<1>4. DoneInv'
  BY <1>1, <1>3 DEF DoneInv
<1> QED
  BY <1>2, <1>4

LEMMA ExecuteStep == ASSUME IInv, Execute PROVE IInv'
<1>1. /\ TypeOK /\ IdleInv /\ pc = "idle"
      /\ UNCHANGED <<template, decision, rows, raised, called, people>>
      /\ \A s \in Steps : rows[s] = << >> /\ node[s] = None
      /\ node \in [Steps -> {None, "due", "calling", "over"}]
      /\ template.entry \in Steps
  BY DEF Execute, IInv, TypeOK, IdleInv, Definition
<1>2. /\ faults' \in 0..MaxFaults /\ broken' \in BOOLEAN
      /\ status' \in RunStatuses \ {"completed"}
  <2>1. PICK fault \in {None, "row"} :
          /\ Commits(fault) /\ broken' = (fault = "row")
          /\ status' = IF fault = None THEN "running" ELSE status
    BY DEF Execute
  <2>2. status # "completed" /\ status \in RunStatuses /\ faults \in 0..MaxFaults
    BY <1>1 DEF IdleInv, TypeOK
  <2> QED
    BY <2>1, <2>2, CommitsType DEF RunStatuses
<1>3. \/ /\ pc' = "running" /\ node' = [node EXCEPT ![template.entry] = "due"] /\ turns' = 1
      \/ pc' = "ended" /\ UNCHANGED <<node, turns>>
  BY DEF Execute
<1>4. /\ node' \in [Steps -> {None, "due", "calling", "over"}]
      /\ \A s \in Steps : node'[s] \in {None, "due"}
  BY <1>1, <1>3
<1>5. TypeOK'
  BY <1>1, <1>2, <1>3, <1>4, WorkflowAssumption DEF TypeOK, people
<1>6. CallsLeaveRows' /\ CallingInv' /\ DoneInv'
  BY <1>1, <1>4, QuietStep DEF None
<1>7. IdleInv' /\ ClosedInv'
  BY <1>1, <1>2, <1>3 DEF IdleInv, ClosedInv
<1> QED
  BY <1>5, <1>6, <1>7 DEF IInv

LEMMA ContinueStep == ASSUME IInv, Continue PROVE IInv'
<1>1. /\ TypeOK /\ IdleInv /\ ClosedInv /\ pc = "running" /\ ~raised
      /\ turns < RecursionLimit /\ turns' = turns + 1
      /\ node' = [s \in Steps |-> IF s \in Following THEN "due" ELSE None]
      /\ \A s \in Steps : node[s] \in {None, "over"}
      /\ UNCHANGED <<template, db, pc, raised, broken, called, people, faults>>
  BY DEF Continue, SuperstepOver, IInv
<1>2. TypeOK'
  BY <1>1, WorkflowAssumption DEF TypeOK, db, people
<1>3. CallsLeaveRows' /\ CallingInv' /\ DoneInv'
  BY <1>1, QuietStep DEF None, db
<1>4. IdleInv'
  BY <1>1 DEF IdleInv, db
<1>5. ClosedInv'
  BY <1>1 DEF ClosedInv, db, Closed, None
<1> QED
  BY <1>2, <1>3, <1>4, <1>5 DEF IInv

LEMMA EndStep ==
  ASSUME IInv, Complete \/ Fail
  PROVE  IInv'
<1>1. /\ TypeOK /\ Ends
      /\ status' \in RunStatuses /\ broken' \in BOOLEAN /\ faults' \in 0..MaxFaults
  <2>1. TypeOK /\ status \in RunStatuses /\ broken \in BOOLEAN /\ faults \in 0..MaxFaults
    BY DEF IInv, TypeOK
  <2>2. CASE Complete
    BY <2>1, <2>2, CommitsType DEF Complete, RunStatuses
  <2>3. CASE Fail
    BY <2>1, <2>3, CommitsType DEF Fail, RunStatuses
  <2> QED
    BY <2>2, <2>3
<1>2. /\ pc' = "ended" /\ node' = [s \in Steps |-> None] /\ raised' = FALSE
      /\ UNCHANGED <<template, decision, rows, turns, called, people>>
  BY <1>1 DEF Ends
<1>3. TypeOK'
  BY <1>1, <1>2 DEF TypeOK, people
<1>4. CallsLeaveRows' /\ CallingInv' /\ DoneInv'
  BY <1>2, QuietStep DEF None
<1>5. IdleInv' /\ ClosedInv'
  BY <1>2 DEF IdleInv, ClosedInv
<1> QED
  BY <1>3, <1>4, <1>5 DEF IInv

LEMMA ApprovalStep == ASSUME IInv, Approvals PROVE IInv'
<1>1. TypeOK /\ UNCHANGED <<template, rows, graph, faults>>
  BY DEF IInv, Approvals, RequestApproval, ReadForDecision, Decide, db
<1>2. /\ status' = status \/ status' \in RunStatuses \ {"completed"}
      /\ status' \in RunStatuses
      /\ decision' \in [by : Approvers \cup {None}, verdict : Verdicts \cup {None}]
      /\ approver' \in [Approvers -> {"away", "read", "decided", "refused"}]
      /\ requests' \in 0..MaxRequests
  <2>1. CASE RequestApproval
    BY <2>1, <1>1, WorkflowAssumption DEF RequestApproval, TypeOK, RunStatuses
  <2>2. ASSUME NEW a \in Approvers, ReadForDecision(a)
        PROVE  /\ UNCHANGED <<status, decision, requests>>
               /\ approver' \in [Approvers -> {"away", "read", "decided", "refused"}]
    BY <2>2, <1>1 DEF ReadForDecision, TypeOK, db
  <2>3. ASSUME NEW a \in Approvers, Decide(a)
        PROVE  /\ status' \in RunStatuses \ {"completed"}
               /\ decision' \in [by : Approvers \cup {None}, verdict : Verdicts \cup {None}]
               /\ requests' = requests
               /\ approver' \in [Approvers -> {"away", "read", "decided", "refused"}]
    BY <2>3, <1>1 DEF Decide, TypeOK, RunStatuses
  <2> QED
    BY <2>1, <2>2, <2>3, <1>1 DEF Approvals, TypeOK
<1>3. TypeOK'
  BY <1>1, <1>2 DEF TypeOK, graph
<1>4. CallsLeaveRows' /\ CallingInv' /\ DoneInv'
  BY <1>1, QuietStep DEF graph
<1>5. IdleInv' /\ ClosedInv'
  BY <1>1, <1>2 DEF IInv, IdleInv, ClosedInv, graph, Closed
<1> QED
  BY <1>3, <1>4, <1>5 DEF IInv

LEMMA NextKeepsIInv == ASSUME IInv, [Next]_vars PROVE IInv'
<1>1. CASE Execute
  BY <1>1, ExecuteStep
<1>2. CASE Continue
  BY <1>2, ContinueStep
<1>3. CASE Complete \/ Fail
  BY <1>3, EndStep
<1>4. ASSUME NEW s \in Steps, Begin(s)
      PROVE  IInv'
  <2>1. NodeStep(s, Len(rows[s])) /\ node[s] = "due"
    BY <1>4, BeginStep DEF Begin
  <2> QED
    BY <2>1, NodeKeepsIInv DEF NodeStep, Works
<1>5. ASSUME NEW s \in Steps, Answer(s)
      PROVE  IInv'
  <2> DEFINE k == Len(rows[s]) - 1
  <2>1. node[s] = "calling" /\ NodeStep(s, k)
    BY <1>5, AnswerStep
  <2>2. k \in Nat /\ Len(rows[s]) = k + 1
    <3>1. k \in Nat
      BY <2>1 DEF NodeStep, Works
    <3>2. rows[s] \in Seq(Row)
      BY DEF IInv, TypeOK
    <3> QED
      BY <3>1, <3>2
  <2> HIDE DEF k
  <2> QED
    BY <2>1, <2>2, NodeKeepsIInv
<1>6. CASE Approvals
  BY <1>6, ApprovalStep
<1>7. CASE UNCHANGED vars
  <2>1. UNCHANGED <<template, status, decision, rows, pc, node, turns, raised, broken, called,
                    approver, requests, faults>>
    BY <1>7 DEF vars, db, graph, people
  <2>2. TypeOK'
    BY <2>1 DEF IInv, TypeOK
  <2>3. CallsLeaveRows' /\ CallingInv' /\ DoneInv'
    BY <2>1, QuietStep
  <2>4. IdleInv' /\ ClosedInv'
    BY <2>1 DEF IInv, IdleInv, ClosedInv, Closed
  <2> QED
    BY <2>2, <2>3, <2>4 DEF IInv
<1> QED
  BY <1>1, <1>2, <1>3, <1>4, <1>5, <1>6, <1>7 DEF Next, Graph, Node

-----------------------------------------------------------------------------
(* The theorems                                                            *)

\* Whatever fails, the state keeps its shape, and rows, calls and the tasks
\* of the graph stay in step.
THEOREM Invariance == Spec => []IInv
<1>1. Init => IInv
  BY InitIInv
<1>2. IInv /\ [Next]_vars => IInv'
  BY NextKeepsIInv
<1> QED
  BY <1>1, <1>2, PTL DEF Spec

\* No tool is called before the row of its step is committed: every call the
\* gateway received has a row of its own.
THEOREM Soundness == Spec => []Sound
<1>1. IInv => Sound
  BY DEF IInv, Sound
<1> QED
  BY <1>1, Invariance, PTL

\* A step marked completed had its tool called as often, or needs none; a
\* gate is never marked as passed.
THEOREM MarkedIsDone == Spec => []CompletedMeansDone
<1>1. IInv => CompletedMeansDone
  <2> SUFFICES ASSUME IInv, NEW s \in Steps, Completed(rows[s]) # {}
               PROVE  /\ template.kind[s] # "gate"
                      /\ template.kind[s] = "tool" =>
                           called[s] >= Cardinality(Completed(rows[s]))
    BY DEF CompletedMeansDone, Completed
  <2> DEFINE done == Cardinality(Completed(rows[s]))
  <2>1. /\ template.kind[s] # "gate"
        /\ template.kind[s] = "tool" =>
             done + (IF node[s] = "calling" THEN 1 ELSE 0) <= called[s]
    BY DEF IInv, DoneInv
  <2>2. rows[s] \in Seq(Row) /\ called[s] \in Nat
    BY DEF IInv, TypeOK
  <2>3. done \in Nat
    BY <2>2, CompletedFinite
  <2> HIDE DEF done
  <2>4. template.kind[s] = "tool" => called[s] >= done
    BY <2>1, <2>2, <2>3
  <2> QED
    BY <2>1, <2>4 DEF done
<1> QED
  BY <1>1, Invariance, PTL

\* A run reported as completed leaves no execution of a step, and none of
\* its metrics, open.
THEOREM ReportedIsClosed == Spec => CompletedMeansClosed
<1>1. IInv /\ [Next]_vars =>
        [(pc = "running" /\ pc' = "ended" /\ status' = "completed") =>
           \A s \in Steps : \A i \in DOMAIN rows[s] :
             /\ rows[s][i].status # "running"
             /\ rows[s][i].metrics = rows[s][i].status]_vars
  <2> SUFFICES ASSUME IInv, Next, pc = "running", pc' = "ended", status' = "completed"
               PROVE  \A s \in Steps : \A i \in DOMAIN rows[s] : Closed(rows[s][i])
    BY DEF Closed
  <2>1. status # "completed"
    BY DEF IInv, IdleInv
  <2>2. Complete
    BY <2>1 DEF Next, Graph, Node, Execute, Continue, Fail, Begin, Answer, Approvals,
                RequestApproval, ReadForDecision, Decide, graph
  <2> QED
    BY <2>2 DEF Complete, SuperstepOver, IInv, ClosedInv, None
<1> QED
  BY <1>1, Invariance, PTL DEF Spec, CompletedMeansClosed
=============================================================================
