---------------------------- MODULE WorkflowRuns ----------------------------
(***************************************************************************)
(* One row of workflow_runs: WorkflowOrchestrator executes its template as *)
(* a graph, a row per execution of a step with its metrics, and the        *)
(* service of approval_service.py asks for and takes a human decision on   *)
(* the row.                                                                *)
(*                                                                         *)
(* The graph runs in supersteps: the nodes that are due run as tasks of    *)
(* one event loop over one database session, and a node gives way only     *)
(* while its tool is called.  A commit may fail; the session then refuses  *)
(* every statement until somebody rolls it back, which only the metrics    *)
(* collector does, for its own commits.                                    *)
(*                                                                         *)
(* The row is there at the start: create_workflow_run gives it no          *)
(* tenant_id, which the table requires, so rows come from elsewhere.       *)
(***************************************************************************)
EXTENDS Naturals, Sequences, FiniteSets

CONSTANTS Steps,           \* step ids a template may name
          Templates,       \* the definitions a run may have
          Approvers,       \* users deciding
          RecursionLimit,  \* supersteps the graph library allows
          MaxFaults,       \* failing commits
          MaxRequests      \* calls of request_approval from outside

ASSUME WorkflowAssumption ==
  /\ RecursionLimit \in Nat \ {0}
  /\ MaxFaults \in Nat /\ MaxRequests \in Nat

VARIABLES template,  \* workflow_run.template.definition
          status,    \* workflow_run.status
          decision,  \* workflow_run.approved_by, with the verdict given
          rows,      \* workflow_step_executions with their step_metrics
          pc,        \* where execute_workflow is
          node,      \* what the task of each step is doing
          turns,     \* supersteps begun
          raised,    \* a node let an exception out
          broken,    \* the session waits for a rollback
          called,    \* tool calls sent, per step
          approver,  \* what each call of process_approval is doing
          faults, requests

db == <<status, decision, rows>>
graph == <<pc, node, turns, raised, broken, called>>
people == <<approver, requests>>
vars == <<template, db, graph, people, faults>>

None == "none"
Kinds == {"tool", "gate", "plain"}
RunStatuses == {"pending", "running", "completed", "failed", "waiting_approval"}
Verdicts == {"approved", "rejected"}
Faults == {None, "row", "metrics"}

\* Two steps may share an id; next and the entry point may name no step.
Definition == [steps : SUBSET Steps, shared : BOOLEAN, kind : [Steps -> Kinds],
               next : [Steps -> SUBSET Steps], entry : Steps]

ASSUME TemplatesAssumption == Templates \subseteq Definition

Row == [status : {"running", "completed", "failed"},
        metrics : {None, "running", "completed", "failed"}]

TypeOK ==
  /\ template \in Definition
  /\ status \in RunStatuses
  /\ decision \in [by : Approvers \cup {None}, verdict : Verdicts \cup {None}]
  /\ rows \in [Steps -> Seq(Row)]
  /\ pc \in {"idle", "running", "ended"}
  /\ node \in [Steps -> {None, "due", "calling", "over"}]
  /\ turns \in 0..RecursionLimit
  /\ raised \in BOOLEAN /\ broken \in BOOLEAN
  /\ called \in [Steps -> Nat]
  /\ approver \in [Approvers -> {"away", "read", "decided", "refused"}]
  /\ faults \in 0..MaxFaults /\ requests \in 0..MaxRequests

Init ==
  /\ template \in Templates
  /\ status = "pending"
  /\ decision = [by |-> None, verdict |-> None]
  /\ rows = [s \in Steps |-> << >>]
  /\ pc = "idle"
  /\ node = [s \in Steps |-> None]
  /\ turns = 0
  /\ raised = FALSE /\ broken = FALSE
  /\ called = [s \in Steps |-> 0]
  /\ approver = [a \in Approvers |-> "away"]
  /\ faults = 0 /\ requests = 0

-----------------------------------------------------------------------------
\* What fails, if anything: the commit of a row, or of a step's metrics.
Commits(fault) ==
  /\ fault # None => faults < MaxFaults
  /\ faults' = IF fault = None THEN faults ELSE faults + 1

\* In the try branch and, once its metrics failed, in the except branch.
CommitsTwice(fault, again) ==
  /\ fault # "metrics" => again = None
  /\ LET failing == (IF fault = None THEN 0 ELSE 1) + (IF again = None THEN 0 ELSE 1)
     IN /\ faults + failing <= MaxFaults
        /\ faults' = faults + failing

(* execute_workflow: the run is marked running, and only then is its       *)
(* template validated, outside the try that would mark it failed.          *)

Valid ==
  /\ template.steps # {}
  /\ ~template.shared
  /\ \A s \in template.steps : template.next[s] \subseteq template.steps
  /\ template.entry \in template.steps

Execute ==
  /\ pc = "idle"
  /\ \E fault \in {None, "row"} :
       /\ Commits(fault)
       /\ broken' = (fault = "row")
       /\ status' = IF fault = None THEN "running" ELSE status
       /\ IF fault = None /\ Valid
            THEN /\ pc' = "running"
                 /\ node' = [node EXCEPT ![template.entry] = "due"]
                 /\ turns' = 1
            ELSE /\ pc' = "ended"
                 /\ UNCHANGED <<node, turns>>
  /\ UNCHANGED <<template, decision, rows, raised, called, people>>

-----------------------------------------------------------------------------
(* A node.  The metrics collector rolls back what it cannot commit, the    *)
(* node does not.                                                          *)

Over(s) == node' = [node EXCEPT ![s] = "over"]

Raise(s) == raised' = TRUE /\ Over(s)

\* Mutant: the exception is swallowed.
StepFailsUnrecorded(s, log, fault) ==
  /\ rows' = log
  /\ Over(s)
  /\ UNCHANGED <<raised, broken>>

\* Mutant: the step is marked as in the try branch.
StepFailsAsCompleted(s, log, fault) ==
  /\ rows' = [log EXCEPT ![s][Len(log[s])] =
                [status |-> "completed", metrics |-> "completed"]]
  /\ Over(s)
  /\ UNCHANGED <<raised, broken>>

\* The except branch: the row is failed, whatever it was, then its metrics.
StepFails(s, log, fault) ==
  /\ fault = "row" => /\ broken' = TRUE
                      /\ rows' = log
                      /\ Raise(s)
  /\ fault = "metrics" =>
       /\ rows' = [log EXCEPT ![s][Len(log[s])].status = "failed"]
       /\ Raise(s)
       /\ UNCHANGED broken
  /\ fault = None =>
       /\ rows' = [log EXCEPT ![s][Len(log[s])] =
                     [status |-> "failed", metrics |-> "failed"]]
       /\ Over(s)
       /\ UNCHANGED <<raised, broken>>

\* The try branch.  When the row cannot be committed neither can its failure;
\* when the metrics cannot, a row already completed is failed after all, unless
\* that cannot be committed either.
StepCompletes(s, log, fault, again) ==
  CASE fault = "row" -> StepFails(s, log, "row")
    [] fault = "metrics" ->
         StepFails(s, [log EXCEPT ![s][Len(log[s])].status = "completed"], again)
    [] OTHER ->
         /\ rows' = [log EXCEPT ![s][Len(log[s])] =
                       [status |-> "completed", metrics |-> "completed"]]
         /\ Over(s)
         /\ UNCHANGED <<raised, broken>>

\* Mutant: the row is left for the end of the step.
StartedLate(s) == rows

Started(s) == [rows EXCEPT ![s] =
                 Append(@, [status |-> "running", metrics |-> "running"])]

\* The row and its metrics are committed before the try.
StartFails(s, fault) ==
  /\ broken' = (fault = "row")
  /\ rows' = IF fault = "row" THEN rows
             ELSE [Started(s) EXCEPT ![s][Len(rows[s]) + 1].metrics = None]
  /\ Raise(s)

\* Without a tenant_id the call of request_approval is a TypeError: a gate
\* fails like any other step, having asked nobody.
Gate(s, fault) == StepFails(s, Started(s), fault)

\* A tool may also fail before it is called: no registry, no user.
Begin(s) ==
  /\ node[s] = "due"
  /\ \/ /\ broken
        /\ Raise(s)
        /\ UNCHANGED <<rows, broken, called, faults>>
     \/ /\ ~broken
        /\ \E fault \in {"row", "metrics"} : Commits(fault) /\ StartFails(s, fault)
        /\ UNCHANGED called
     \/ /\ ~broken /\ template.kind[s] = "tool"
        /\ node' = [node EXCEPT ![s] = "calling"]
        /\ called' = [called EXCEPT ![s] = @ + 1]
        /\ rows' = Started(s)
        /\ UNCHANGED <<raised, broken, faults>>
     \/ /\ ~broken /\ template.kind[s] = "tool"
        /\ \E fault \in Faults : Commits(fault) /\ StepFails(s, Started(s), fault)
        /\ UNCHANGED called
     \/ /\ ~broken /\ template.kind[s] = "gate"
        /\ \E fault \in Faults : Commits(fault) /\ Gate(s, fault)
        /\ UNCHANGED called
     \/ /\ ~broken /\ template.kind[s] = "plain"
        /\ \E fault, again \in Faults :
             CommitsTwice(fault, again) /\ StepCompletes(s, Started(s), fault, again)
        /\ UNCHANGED called
  /\ UNCHANGED <<template, status, decision, pc, turns, people>>

\* Another node may break the session while the tool is called.
Answer(s) ==
  /\ node[s] = "calling"
  /\ \/ /\ broken
        /\ Raise(s)
        /\ UNCHANGED <<rows, broken, faults>>
     \/ /\ ~broken
        /\ \/ \E fault, again \in Faults :
                CommitsTwice(fault, again) /\ StepCompletes(s, rows, fault, again)
           \/ \E fault \in Faults : Commits(fault) /\ StepFails(s, rows, fault)
  /\ UNCHANGED <<template, status, decision, pc, turns, called, people>>

-----------------------------------------------------------------------------
(* The graph: a superstep ends when its nodes have, and what follows them  *)
(* is due next.                                                            *)

Following == UNION {template.next[s] : s \in {t \in Steps : node[t] = "over"}}

SuperstepOver ==
  /\ pc = "running" /\ ~raised
  /\ \A s \in Steps : node[s] \in {None, "over"}

Continue ==
  /\ SuperstepOver
  /\ Following # {}
  /\ turns < RecursionLimit
  /\ turns' = turns + 1
  /\ node' = [s \in Steps |-> IF s \in Following THEN "due" ELSE None]
  /\ UNCHANGED <<template, db, pc, raised, broken, called, people, faults>>

Ends ==
  /\ pc' = "ended"
  /\ node' = [s \in Steps |-> None]
  /\ raised' = FALSE
  /\ UNCHANGED <<template, decision, rows, turns, called, people>>

\* The last commit fails too: the except branch cannot commit either.
Complete ==
  /\ SuperstepOver
  /\ Following = {}
  /\ \E fault \in {None, "row"} :
       /\ Commits(fault)
       /\ status' = IF fault = None THEN "completed" ELSE status
       /\ broken' = (fault = "row")
  /\ Ends

\* Mutant: the recursion limit is not taken for a failure.
FailOnRaise ==
  /\ pc = "running" /\ raised
  /\ status' = IF broken THEN status ELSE "failed"
  /\ UNCHANGED <<broken, faults>>
  /\ Ends

\* A node raised, and the other tasks are cancelled where they wait; or
\* the recursion limit is reached.
Fail ==
  /\ \/ pc = "running" /\ raised
     \/ SuperstepOver /\ Following # {} /\ turns = RecursionLimit
  /\ \E fault \in {None, "row"} :
       /\ Commits(fault)
       /\ broken => fault = None
       /\ status' = IF broken \/ fault = "row" THEN status ELSE "failed"
       /\ broken' = (broken \/ fault = "row")
  /\ Ends

-----------------------------------------------------------------------------
(* approval_service.py, each call with a session of its own.               *)

RequestApproval ==
  /\ requests < MaxRequests
  /\ requests' = requests + 1
  /\ status' = "waiting_approval"
  /\ UNCHANGED <<template, decision, rows, graph, approver, faults>>

ReadForDecision(a) ==
  /\ approver[a] = "away"
  /\ approver' = [approver EXCEPT ![a] =
       IF status = "waiting_approval" THEN "read" ELSE "refused"]
  /\ UNCHANGED <<template, db, graph, requests, faults>>

\* The row is written as it was read, without looking again.
Decide(a) ==
  /\ approver[a] = "read"
  /\ \E v \in Verdicts :
       /\ status' = IF v = "approved" THEN "running" ELSE "failed"
       /\ decision' = [by |-> a, verdict |-> v]
  /\ approver' = [approver EXCEPT ![a] = "decided"]
  /\ UNCHANGED <<template, rows, graph, requests, faults>>

Node(s) == Begin(s) \/ Answer(s)
Graph == Execute \/ Continue \/ Complete \/ Fail
Approvals == RequestApproval \/ \E a \in Approvers : ReadForDecision(a) \/ Decide(a)

Next == Graph \/ (\E s \in Steps : Node(s)) \/ Approvals

\* The event loop runs whatever is ready, and tool calls time out.
Spec == Init /\ [][Next]_vars
             /\ WF_vars(Continue \/ Complete \/ Fail)
             /\ \A s \in Steps : WF_vars(Node(s))

-----------------------------------------------------------------------------
\* A tool is called only after the row of its step is committed: whatever
\* fails later, every call the gateway received has a row of its own.
CallsLeaveRows == \A s \in Steps : called[s] <= Len(rows[s])

Sound == TypeOK /\ CallsLeaveRows

\* When execute_workflow reports a run as completed, no execution of a step
\* and none of its metrics is still open: each was completed or failed.
CompletedMeansClosed ==
  [][(pc = "running" /\ pc' = "ended" /\ status' = "completed") =>
       \A s \in Steps : \A i \in DOMAIN rows[s] :
          /\ rows[s][i].status # "running"
          /\ rows[s][i].metrics = rows[s][i].status]_vars

\* A step whose row says completed had its tool called, or needs none: a
\* gate, which asks nobody, is never taken for one that was passed.
CompletedMeansDone ==
  \A s \in Steps :
    LET completed == {i \in DOMAIN rows[s] : rows[s][i].status = "completed"} IN
    completed # {} => /\ template.kind[s] # "gate"
                      /\ template.kind[s] = "tool" => called[s] >= Cardinality(completed)

\* However its commits and tools fail, and however its steps refer to each
\* other, an execution that has started ends.
ExecutionEnds == pc = "running" ~> pc = "ended"

\* Steps that only a gate leads to.
Gated == {s \in template.steps \ {template.entry} :
            \A t \in template.steps : s \in template.next[t] => template.kind[t] = "gate"}

\* "Return pending status - workflow will pause here": what only a gate
\* leads to is not called before somebody has approved.
GateHolds == \A s \in Gated : called[s] > 0 => decision.verdict = "approved"
=============================================================================
