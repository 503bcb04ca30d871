------------------------------- MODULE Worker -------------------------------
(***************************************************************************)
(* The sandbox for bash scripts: BashTool and WorkerClient in the backend, *)
(* the worker's API and WorkerExecutor, and bash_runner, the process that  *)
(* a job is.                                                               *)
(*                                                                         *)
(* A run calls execute_bash one call at a time.  A job is a Python process *)
(* that makes the workspace of the run, starts bash in it, waits, deletes  *)
(* the workspace and prints what bash did.  Two timeouts of the same       *)
(* length watch it: the runner's kills bash, the worker's kills the runner *)
(* and leaves bash running.  The worker's container may be restarted, its  *)
(* workspaces are a volume and stay, and a connection to it may be lost    *)
(* while the job goes on.                                                  *)
(*                                                                         *)
(* Its specification is WorkerSpec: the proofs about it stand beside those *)
(* about ToolTransport, the other way a tool call leaves the backend.      *)
(***************************************************************************)
EXTENDS Naturals, FiniteSets

CONSTANTS Runs,         \* runs of the agent, each with a run_id
          MaxCalls,     \* calls of execute_bash in a run
          MaxRestarts,  \* restarts of the worker's container
          MaxLosses     \* connections lost with a job at work

ASSUME WorkerAssumption ==
  MaxCalls \in Nat \ {0} /\ MaxRestarts \in Nat /\ MaxLosses \in Nat

Calls == Runs \X (1..MaxCalls)

VARIABLES call,     \* what BashTool has of each call
          job,      \* WorkerExecutor.execute_job of the call
          jobs,     \* WorkerExecutor.jobs
          runner,   \* the process of bash_runner
          bash,     \* the process of the script
          present,  \* runs whose workspace is in the volume
          lost,     \* calls whose connection broke
          up, restarts

worker == <<job, jobs, up, restarts>>
sandbox == <<runner, bash, present>>
workerVars == <<call, worker, sandbox, lost>>

None == "none"
Of(r) == {r} \X (1..MaxCalls)
Alive == {"new", "made", "waiting", "cleaning"}

WorkerTypeOK ==
  /\ call \in [Calls -> {None, "invalid", "posted", "failed", "timeout"}]
  /\ job \in [Calls -> {None, "running", "killing", "over"}]
  /\ jobs \in [Calls -> {None, "success", "failed", "timeout"}]
  /\ runner \in [Calls -> {None, "exited", "crashed", "killed"} \cup Alive]
  /\ bash \in [Calls -> {None, "running", "ended"}]
  /\ present \subseteq Runs
  /\ lost \subseteq Calls
  /\ up \in BOOLEAN
  /\ restarts \in 0..MaxRestarts

WorkerInit ==
  /\ call = [c \in Calls |-> None]
  /\ job = [c \in Calls |-> None]
  /\ jobs = [c \in Calls |-> None]
  /\ runner = [c \in Calls |-> None]
  /\ bash = [c \in Calls |-> None]
  /\ present = {}
  /\ lost = {}
  /\ up = TRUE
  /\ restarts = 0

-----------------------------------------------------------------------------
(* Scripts, as the validator tells them apart.                             *)

Script == [large : BOOLEAN, blank : BOOLEAN, blocked : BOOLEAN,
           commands : SUBSET {"allowed", "control", "other"}, chained : BOOLEAN]

Accepted(script) ==
  /\ ~script.large /\ ~script.blank /\ ~script.blocked
  /\ "other" \notin script.commands
  /\ ~script.chained

Scripts == {[large |-> l, blank |-> FALSE, blocked |-> FALSE,
             commands |-> {"allowed", w}, chained |-> FALSE] :
              l \in BOOLEAN, w \in {"control", "other"}}

\* The agent waits for an answer before it calls again.
Turn(c) ==
  /\ call[c] = None
  /\ \A d \in Of(c[1]) : d[2] < c[2] => call[d] \notin {None, "posted"}

\* The answer of a worker that is down is a connection error.
ExecuteBash(c) ==
  /\ Turn(c)
  /\ \E script \in Scripts :
       IF ~Accepted(script)
         THEN /\ call' = [call EXCEPT ![c] = "invalid"]
              /\ UNCHANGED <<job, runner>>
         ELSE IF up
         THEN /\ call' = [call EXCEPT ![c] = "posted"]
              /\ job' = [job EXCEPT ![c] = "running"]
              /\ runner' = [runner EXCEPT ![c] = "new"]
         ELSE /\ call' = [call EXCEPT ![c] = "failed"]
              /\ UNCHANGED <<job, runner>>
  /\ UNCHANGED <<jobs, up, restarts, bash, present, lost>>

\* Mutant: the client's timeout is shorter than the job's.
ClientGivesUp(c) ==
  /\ call[c] = "posted"
  /\ call' = [call EXCEPT ![c] = "failed"]
  /\ UNCHANGED <<lost, worker, sandbox>>

\* The client waits for two minutes, longer than any job of execute_bash.
LoseConnection(c) ==
  /\ call[c] = "posted"
  /\ Cardinality(lost) < MaxLosses
  /\ lost' = lost \cup {c}
  /\ call' = [call EXCEPT ![c] = "failed"]
  /\ UNCHANGED <<worker, sandbox>>

-----------------------------------------------------------------------------
(* bash_runner.                                                            *)

Becomes(c, state) == runner' = [runner EXCEPT ![c] = state]

MakeWorkspace(c) ==
  /\ runner[c] = "new"
  /\ present' = present \cup {c[1]}
  /\ Becomes(c, "made")
  /\ UNCHANGED <<call, worker, bash, lost>>

\* Without the directory bash cannot be started in it: an error, and cleanup.
Launch(c) ==
  /\ runner[c] = "made"
  /\ IF c[1] \in present
       THEN /\ Becomes(c, "waiting")
            /\ bash' = [bash EXCEPT ![c] = "running"]
       ELSE /\ Becomes(c, "cleaning")
            /\ UNCHANGED bash
  /\ UNCHANGED <<call, worker, present, lost>>

\* The script ends by itself, with whatever status.
ScriptEnds(c) ==
  /\ bash[c] = "running"
  /\ bash' = [bash EXCEPT ![c] = "ended"]
  /\ UNCHANGED <<call, worker, runner, present, lost>>

ScriptSeen(c) ==
  /\ runner[c] = "waiting" /\ bash[c] = "ended"
  /\ Becomes(c, "cleaning")
  /\ UNCHANGED <<call, worker, bash, present, lost>>

\* Mutant: TimeoutExpired is caught, bash is not killed.
RunnerGivesUp(c) ==
  /\ runner[c] = "waiting" /\ bash[c] = "running"
  /\ Becomes(c, "cleaning")
  /\ UNCHANGED <<call, worker, bash, present, lost>>

RunnerTimeout(c) ==
  /\ runner[c] = "waiting" /\ bash[c] = "running"
  /\ bash' = [bash EXCEPT ![c] = "ended"]
  /\ Becomes(c, "cleaning")
  /\ UNCHANGED <<call, worker, present, lost>>

CleanUp(c) ==
  /\ runner[c] = "cleaning"
  /\ present' = present \ {c[1]}
  /\ Becomes(c, "exited")
  /\ UNCHANGED <<call, worker, bash, lost>>

Runner(c) == MakeWorkspace(c) \/ Launch(c) \/ ScriptSeen(c) \/ CleanUp(c)

-----------------------------------------------------------------------------
(* execute_job.  The worker stores a result and answers with it.           *)

Answered(c, status, answer) ==
  /\ job' = [job EXCEPT ![c] = "over"]
  /\ jobs' = [jobs EXCEPT ![c] = status]
  /\ call' = [call EXCEPT ![c] = IF @ = "posted" THEN answer ELSE @]
  /\ UNCHANGED <<up, restarts>>

\* Whatever the script did, the runner prints it and exits with 0: a success
\* of the job.  Its output is text, which BashTool reads as a dictionary.
JobSucceeds(c) ==
  /\ job[c] = "running" /\ runner[c] = "exited"
  /\ Answered(c, "success", "failed")
  /\ UNCHANGED <<sandbox, lost>>

\* The runner could not be started, or died with a status.
RunnerCrashes(c) ==
  /\ runner[c] = "new"
  /\ job[c] = "running"
  /\ Becomes(c, "crashed")
  /\ Answered(c, "failed", "failed")
  /\ UNCHANGED <<bash, present, lost>>

JobTimesOut(c) ==
  /\ job[c] = "running" /\ runner[c] \in Alive
  /\ Becomes(c, "killed")
  /\ job' = [job EXCEPT ![c] = "killing"]
  /\ UNCHANGED <<call, jobs, up, restarts, bash, present, lost>>

\* Mutant: the exception of the timeout is not turned into a result.
KilledUnanswered(c) ==
  /\ job[c] = "killing"
  /\ job' = [job EXCEPT ![c] = "over"]
  /\ UNCHANGED <<call, jobs, up, restarts, sandbox, lost>>

Killed(c) ==
  /\ job[c] = "killing"
  /\ Answered(c, "timeout", "timeout")
  /\ UNCHANGED <<sandbox, lost>>

\* The container goes with its processes and its jobs; calls in flight end
\* with a connection error.
Stop ==
  /\ up /\ restarts < MaxRestarts
  /\ up' = FALSE
  /\ restarts' = restarts + 1
  /\ job' = [c \in Calls |-> IF job[c] = None THEN None ELSE "over"]
  /\ jobs' = [c \in Calls |-> None]
  /\ runner' = [c \in Calls |-> IF runner[c] \in Alive THEN "killed" ELSE runner[c]]
  /\ bash' = [c \in Calls |-> IF bash[c] = "running" THEN "ended" ELSE bash[c]]
  /\ call' = [c \in Calls |-> IF call[c] = "posted" THEN "failed" ELSE call[c]]
  /\ UNCHANGED <<present, lost>>

Start ==
  /\ ~up
  /\ up' = TRUE
  /\ UNCHANGED <<call, job, jobs, restarts, sandbox, lost>>

Job(c) == JobSucceeds(c) \/ Killed(c)

WorkerNext ==
  \/ \E c \in Calls :
       \/ ExecuteBash(c) \/ LoseConnection(c)
       \/ Runner(c) \/ RunnerTimeout(c) \/ RunnerCrashes(c) \/ ScriptEnds(c)
       \/ Job(c) \/ JobTimesOut(c)
  \/ Stop \/ Start

\* Processes run and the worker's timer fires; a script need not end.
WorkerSpec == WorkerInit /\ [][WorkerNext]_workerVars
             /\ \A c \in Calls : WF_workerVars(Runner(c) \/ RunnerTimeout(c))
                                 /\ WF_workerVars(Job(c)) /\ WF_workerVars(JobTimesOut(c))

-----------------------------------------------------------------------------
\* A script its runner waits for keeps its directory, also after timeouts and
\* restarts.  Only a lost connection lets a run call again while a job is at
\* work, and the first of the two to end deletes what both share.
WorkspaceKept ==
  \A c \in Calls :
    runner[c] = "waiting" /\ bash[c] = "running" /\ c[1] \notin present =>
      lost \cap Of(c[1]) # {}

\* A workspace stays behind only when its runner was killed, by a timeout or
\* with the container: each other end of a job deletes it.
OnlyKilledLeave ==
  \A r \in present : \E c \in Of(r) : runner[c] \in Alive \cup {"killed"}

\* A script outlives the answer to its call only when that answer was a
\* timeout, or no answer arrived.
OutlivesOnlyTimeout ==
  \A c \in Calls : bash[c] = "running" /\ call[c] # "posted" =>
                     call[c] = "timeout" \/ c \in lost

\* Whatever the script does and whatever becomes of the worker, the agent is
\* answered.
CallsAnswered == \A c \in Calls : call[c] = "posted" ~> call[c] # "posted"

\* Jobs, scripts and directories go together, but for what a kill leaves.
WorkerSound == WorkerTypeOK /\ OutlivesOnlyTimeout /\ OnlyKilledLeave

\* "Timeout enforcement": a call that timed out has no script at work.
TimeoutEnforced == \A c \in Calls : call[c] = "timeout" => bash[c] # "running"
=============================================================================
