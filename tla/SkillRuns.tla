----------------------------- MODULE SkillRuns -----------------------------
(***************************************************************************)
(* A tenant's skills and workflows, and the run of a skill.                *)
(*                                                                         *)
(* The administrators create, switch on and off, activate and delete rows  *)
(* of tenant_skills and tenant_workflows; each request reads, then writes  *)
(* and commits.  A chat run whose message matches a skill that is active   *)
(* executes the skill in place of the agentic loop: the model and the tool *)
(* registry alternate until the model answers in words, the state of the   *)
(* workflow is complete, a tool wants authentication or the iterations are *)
(* used up.                                                                *)
(*                                                                         *)
(* A call of a tool is the kind of it: "sql" stands for the read-only      *)
(* tools of the state machine, "get" for call_api with method GET, "write" *)
(* for call_api with another method, update_config and create_resource,    *)
(* "other" for the tools it does not know, "garbled" for arguments that    *)
(* are not JSON.                                                           *)
(***************************************************************************)
EXTENDS Naturals, Sequences

CONSTANTS Runs,           \* runs of the chat
          Admins,         \* sessions of administrators, and the seed script
          Skills,         \* names in tenant_skills
          Workflows,      \* names in tenant_workflows
          Permitted,      \* kinds the user's role may call and a server has
          MaxIterations,  \* max_iterations of _execute_skill_workflow
          MaxBatch,       \* tool calls in an answer of the model
          MaxRequests     \* requests of the administrators

Kinds == {"sql", "get", "write", "other"}
Names == Skills \cup Workflows

ASSUME SkillAssumption ==
  /\ Permitted \subseteq Kinds
  /\ Skills \cap Workflows = {}
  /\ MaxIterations \in Nat \ {0} /\ MaxBatch \in Nat \ {0} /\ MaxRequests \in Nat

VARIABLES table,     \* the committed rows of both tables
          admin,     \* the request of each administrator
          asked,     \* requests begun, which also numbers the rows
          backend,   \* what OllamaClient talks to
          run

tables == <<table, admin, asked>>
vars == <<tables, backend, run>>

----------------------------------------------------------------------------
\* The tables

Row == [id : 1..MaxRequests, name : Names, active : BOOLEAN,
        patterns : BOOLEAN, pointer : 0..MaxRequests]

Named(name) == {row \in table : row.name = name}
WithId(id) == {row \in table : row.id = id}

Idle == [op |-> "idle", name |-> "", id |-> 0, was |-> FALSE, to |-> 0]

\* Mutant: the table has no unique constraint.
InsertTwice(row) == table \cup {row}

(* The unique constraint on (tenant_id, name, version): every row has      *)
(* version 1.  A request that violates it ends with IntegrityError.        *)
Insert(row) == IF Named(row.name) = {} THEN table \cup {row} ELSE table

Created(req, seeded) ==
  [id |-> req.id, name |-> req.name, active |-> seeded, patterns |-> seeded, pointer |-> 0]

(* UPDATE of one row.  The row may have been deleted since it was read:    *)
(* StaleDataError, and the request is rolled back.                         *)
Rewrite(id, new) == (table \ WithId(id)) \cup new

(* update_skill and update_workflow.  A value that is what was read is not *)
(* written.                                                                *)
Update(req) ==
  LET on == req.op = "on" IN
  IF on = req.was THEN table
  ELSE Rewrite(req.id, {[row EXCEPT !.active = on] : row \in WithId(req.id)})

Point(req) == Rewrite(req.id, {[row EXCEPT !.pointer = req.to] : row \in WithId(req.id)})

(* activate_skill_version and activate_workflow_version: all versions off  *)
(* and, of a workflow, pointing here; then this one on.                    *)
Activate(req) ==
  IF WithId(req.id) = {} THEN table
  ELSE {IF row.name # req.name THEN row
        ELSE [row EXCEPT !.active = row.id = req.id,
                         !.pointer = IF req.name \in Workflows THEN req.id ELSE @]
        : row \in table}

Delete(req) == table \ Named(req.name)

(* The seed script makes the row of its skill, or gives it patterns.       *)
Seed(req) ==
  Rewrite(req.id, {[row EXCEPT !.active = TRUE, !.patterns = TRUE] : row \in WithId(req.id)})

Apply(req) ==
  CASE req.op = "create"       -> Insert(Created(req, FALSE))
    [] req.op = "plant"        -> Insert(Created(req, TRUE))
    [] req.op = "seed"         -> Seed(req)
    [] req.op \in {"on", "off"} -> Update(req)
    [] req.op = "point"        -> Point(req)
    [] req.op = "activate"     -> Activate(req)
    [] req.op = "delete"       -> Delete(req)

Begin(a, req) ==
  /\ admin[a] = Idle
  /\ asked < MaxRequests
  /\ asked' = asked + 1
  /\ admin' = [admin EXCEPT ![a] = req]
  /\ UNCHANGED <<table, backend, run>>

(* create_skill and create_workflow look for the name; 409 if it is there. *)
BeginCreate(a) ==
  \E name \in Names :
    /\ Named(name) = {}
    /\ Begin(a, [op |-> "create", name |-> name, id |-> asked + 1, was |-> FALSE, to |-> 0])

(* The other requests read the row they are about; 404 without it.         *)
BeginChange(a) ==
  \E row \in table, op \in {"on", "off", "activate", "delete", "point"} :
    /\ op = "point" => row.name \in Workflows
    /\ \E to \in IF op = "point" THEN 1..MaxRequests ELSE {0} :
         Begin(a, [op |-> op, name |-> row.name, id |-> row.id, was |-> row.active, to |-> to])

BeginSeed(a) ==
  \E name \in Skills :
    \/ /\ Named(name) = {}
       /\ Begin(a, [op |-> "plant", name |-> name, id |-> asked + 1, was |-> FALSE, to |-> 0])
    \/ \E row \in Named(name) :
         Begin(a, [op |-> "seed", name |-> name, id |-> row.id, was |-> row.active, to |-> 0])

CommitRequest(a) ==
  /\ admin[a] # Idle
  /\ table' = Apply(admin[a])
  /\ admin' = [admin EXCEPT ![a] = Idle]
  /\ UNCHANGED <<asked, backend, run>>

----------------------------------------------------------------------------
\* The run of a skill

Calls == Kinds \cup {"garbled"}
Batches == UNION {[1..n -> Calls] : n \in 1..MaxBatch}
Reports == {"none", "success", "failed", "auth_required"}

Fresh == [pc |-> "new", state |-> "initial", iteration |-> 0, batch |-> <<>>,
          called |-> 0, succeeded |-> {}, report |-> "none"]

Step(r, new) == run' = [run EXCEPT ![r] = new] /\ UNCHANGED <<tables, backend>>
Goto(r, pc) == Step(r, [run[r] EXCEPT !.pc = pc])

Over(record, report) ==
  [record EXCEPT !.pc = "over", !.report = report, !.batch = <<>>]

Live(name) == {row \in table : row.name = name /\ row.active}

(* _load_skills_context.  Without an active skill, or when the query       *)
(* fails, there is no skill check.                                         *)
LoadSkills(r) ==
  /\ run[r].pc = "new"
  /\ \/ /\ \E name \in Skills : Live(name) # {}
        /\ Goto(r, "loaded")
     \/ Goto(r, "loop")

(* _check_skill_match up to the event on the stream.  The skills are read  *)
(* again.  What fails before the execution leaves the message to the loop. *)
MatchSkill(r) ==
  /\ run[r].pc = "loaded"
  /\ \/ /\ \E name \in Skills : \E row \in Live(name) : row.patterns
        /\ Goto(r, "matched")
     \/ Goto(r, "loop")

(* The skill's own messages, without the history: made from the row as it  *)
(* was read, whatever became of it while the event was sent.               *)
Isolate(r) ==
  /\ run[r].pc = "matched"
  /\ Goto(r, "model") \/ Goto(r, "loop")

\* Mutant: the exception is raised to _check_skill_match.
FailingToLoop(r) == [run[r] EXCEPT !.pc = "loop"]

(* What an exception of the model client makes of the skill.               *)
Failing(r) == Over(run[r], "failed")

(* The model client.  The skill names one model, which only the API has;   *)
(* Ollama answers 404.  Nothing holds the answers of the API to the tools  *)
(* that were offered.                                                      *)
AskModel(r) ==
  /\ run[r].pc = "model"
  /\ \/ Step(r, Failing(r))
     \/ /\ backend = "api"
        /\ Step(r, Over(run[r], "success"))
     \/ /\ backend = "api"
        /\ \E batch \in Batches :
             Step(r, [run[r] EXCEPT !.pc = "tools", !.batch = batch])

(* The state of the workflow after a successful call.                      *)
After(state, kind) ==
  CASE kind \in {"get", "write"}                  -> "after_write"
    [] kind = "sql" /\ state = "initial"          -> "after_read"
    [] kind = "sql" /\ state = "after_write"      -> "complete"
    [] OTHER                                      -> state

(* A tool is looked for in the servers' lists, and once more after all of  *)
(* them were refreshed.                                                    *)
Found(kind) == IF kind \in Permitted THEN BOOLEAN ELSE {FALSE}

(* What execute_tool of the registry answers.  A call that the role may not*)
(* make, or whose tool no server has, reaches no server.                   *)
Answers(kind) ==
  {"failed"} \cup (IF TRUE \in Found(kind) THEN {"ok", "auth_required", "raised"} ELSE {})

\* Mutant: the calls left in the batch are executed all the same.
ExecutedToTheEnd(record, kind, answer) ==
  LET now == [record EXCEPT !.called = @ + 1, !.batch = Tail(@)]
      new == [now EXCEPT !.state = After(@, kind), !.succeeded = @ \cup {kind}]
  IN CASE answer = "auth_required" -> Over(now, "auth_required")
       [] answer = "ok" -> IF new.state = "complete" /\ new.batch = <<>>
                           THEN Over(new, "failed") ELSE new
       [] OTHER -> now

(* Execution in the batch of a call, with what it does to the record.      *)
Executed(record, kind, answer) ==
  LET now == [record EXCEPT !.called = @ + 1, !.batch = Tail(@)]
      new == [now EXCEPT !.state = After(@, kind), !.succeeded = @ \cup {kind}]
  IN CASE answer = "auth_required" -> Over(now, "auth_required")
       [] answer = "ok"            -> IF new.state = "complete" THEN Over(new, "failed") ELSE new
       [] OTHER                    -> now

(* One call of the batch.  Garbled arguments, and a GET after the read,    *)
(* are put on record as failures and not executed.                         *)
RunCall(r) ==
  LET record == run[r]
      kind == Head(record.batch)
  IN /\ record.pc = "tools" /\ record.batch # <<>>
     /\ IF \/ kind = "garbled"
           \/ kind = "get" /\ record.state = "after_read"
        THEN Step(r, [record EXCEPT !.batch = Tail(@)])
        ELSE \E answer \in Answers(kind) : Step(r, Executed(record, kind, answer))

(* The end of a batch.  The report of a skill that has used its iterations *)
(* is the one of a skill that is complete, too: see Executed.              *)
Iterated(record) ==
  LET next == [record EXCEPT !.iteration = @ + 1, !.pc = "model"]
  IN IF next.iteration < MaxIterations THEN next ELSE Over(next, "failed")

EndBatch(r) ==
  /\ run[r].pc = "tools" /\ run[r].batch = <<>>
  /\ Step(r, Iterated(run[r]))

----------------------------------------------------------------------------
Init ==
  /\ table = {}
  /\ admin = [a \in Admins |-> Idle]
  /\ asked = 0
  /\ backend \in {"api", "ollama"}
  /\ run = [r \in Runs |-> Fresh]

Serve(r) ==
  \/ LoadSkills(r) \/ MatchSkill(r) \/ Isolate(r)
  \/ AskModel(r) \/ RunCall(r) \/ EndBatch(r)

Next ==
  \/ \E a \in Admins : BeginCreate(a) \/ BeginChange(a) \/ BeginSeed(a) \/ CommitRequest(a)
  \/ \E r \in Runs : Serve(r)

Spec == Init /\ [][Next]_vars

----------------------------------------------------------------------------
TypeOK ==
  /\ table \subseteq Row
  /\ admin \in [Admins -> [op : {"idle", "create", "plant", "seed", "on", "off", "point",
                                 "activate", "delete"},
                           name : Names \cup {""}, id : 0..MaxRequests, was : BOOLEAN,
                           to : 0..MaxRequests]]
  /\ asked \in 0..MaxRequests
  /\ backend \in {"api", "ollama"}
  /\ \A r \in Runs :
       /\ run[r].pc \in {"new", "loaded", "matched", "loop", "model", "tools", "over"}
       /\ run[r].state \in {"initial", "after_read", "after_write", "complete"}
       /\ run[r].iteration \in 0..MaxIterations
       /\ run[r].batch \in Batches \cup {<<>>}
       /\ run[r].called \in 0..(MaxIterations * MaxBatch)
       /\ run[r].succeeded \subseteq Kinds
       /\ run[r].report \in Reports

(* Two requests that create the same name at once leave one row of it, so  *)
(* no name has two versions that are active (models.py:395).               *)
OneRowPerName == \A name \in Names : \A row, other \in Named(name) : row = other

(* A skill is complete only when an API call succeeded and was followed by *)
(* a read: a read before the first API call does not count.                *)
CompleteIsVerified ==
  \A r \in Runs : run[r].state = "complete" => run[r].succeeded \cap {"get", "write"} # {}

(* What every state of the tables and of an execution satisfies: the two   *)
(* above, also while two requests are between their reads and commits.     *)
Sound == TypeOK /\ OneRowPerName /\ CompleteIsVerified

(* A message that a skill has begun to act upon is not given to the loop,  *)
(* which would do the work again: whatever fails in the execution of a     *)
(* skill ends the request.                                                 *)
SkillRunsAlone == \A r \in Runs : run[r].pc = "loop" => run[r].called = 0

(* No tool is called any more when the workflow is complete or a tool      *)
(* wanted authentication, also when the answer of the model has more calls.*)
NothingAfterVerdict ==
  [][\A r \in Runs :
       run[r].state = "complete" \/ run[r].report = "auth_required"
         => run'[r].called = run[r].called]_vars

(***************************************************************************)
(* What the code does not do; no run checks these.  A skill that is        *)
(* complete is not reported as a success; it may be complete after a GET   *)
(* and without a write; PATCH may switch on a workflow whose active_version*)
(* is another or none.                                                     *)
(***************************************************************************)
CompleteIsReported == \A r \in Runs : run[r].state = "complete" => run[r].report = "success"

CompleteHasWritten == \A r \in Runs : run[r].state = "complete" => "write" \in run[r].succeeded

PointerIsActive ==
  \A row \in table : row.name \in Workflows /\ row.active => row.pointer = row.id
=============================================================================
