----------------------------- MODULE ChatSocket -----------------------------
(***************************************************************************)
(* The chat WebSocket (api/chat_ws.py) and the resume tokens of the        *)
(* questions a run puts to its user (services/headless_events.py).         *)
(*                                                                         *)
(* Several sockets serve one conversation of a user: browser tabs, or the  *)
(* socket of a reconnected client beside the old one.  A run is started by *)
(* a message as its turn 0; the answer to the question that ended turn n   *)
(* continues the run as turn n + 1.  A turn ends with one question at      *)
(* most, so <<run, turn>> also names the question's token.                 *)
(*                                                                         *)
(* A handler gives way only where it awaits: receiving, choosing a model,  *)
(* the run, each send.  The in-memory token store awaits nothing, so a     *)
(* lookup and the consumption after it are one step.  What a run does      *)
(* between its start and its end is AgentLoop's subject.                   *)
(***************************************************************************)
EXTENDS Naturals

CONSTANTS Sockets,  \* connections to the conversation
          Runs,     \* run ids, as uuid4 makes them
          MaxTurns  \* bound: turns of one run

ASSUME TurnsAssumption == MaxTurns \in Nat

VARIABLES pc,      \* where the handler of each socket is
          turn,    \* the turn it last worked on, if any
          tokens,  \* InMemoryResumeTokenStore._tokens
          stale,   \* tokens whose _expires_at has passed
          shown,   \* questions sent to the client
          started, \* turns ever started
          replies, \* turns whose reply is a row of the conversation
          failed   \* turns that ended in an error or were cut off

store   == <<tokens, stale>>
history == <<shown, started, replies, failed>>
vars    == <<pc, turn, store, history>>

\* offline   no connection          ready     in receive_json
\* selecting awaits the model list  running   awaits the agentic loop
\* asking    sends an ask_user      saving    result with a final_response
\* empty     result without one     sending   the last send of this request
Phase == {"offline", "ready", "selecting", "running", "asking", "saving",
          "empty", "sending"}

Turn == Runs \X (0 .. MaxTurns)

NoTurn == <<>>

RunOf(t)   == t[1]
Index(t)   == t[2]
Follows(t) == <<RunOf(t), Index(t) + 1>>

\* The turn is in the hands of a run that may still act.
Active(s) == pc[s] \in {"selecting", "running", "asking"}

\* uuid4: a run id nobody has had before.
FreshRun(r) == \A t \in started : RunOf(t) # r

Init ==
  /\ pc = [s \in Sockets |-> "offline"]
  /\ turn = [s \in Sockets |-> NoTurn]
  /\ tokens = {}
  /\ stale = {}
  /\ shown = {}
  /\ started = {}
  /\ replies = {}
  /\ failed = {}

Move(s, from, to) == pc[s] = from /\ pc' = [pc EXCEPT ![s] = to]

-----------------------------------------------------------------------------
(* Connections                                                             *)

\* Accepted and authenticated.
Connect(s) ==
  /\ Move(s, "offline", "ready")
  /\ UNCHANGED <<turn, store, history>>

\* The client is gone: what the handler awaits to receive or to send raises,
\* and so does the error message it then tries to send.
Disconnect(s) ==
  /\ pc[s] \in {"ready", "running", "asking", "sending"}
  /\ pc' = [pc EXCEPT ![s] = "offline"]
  /\ turn' = [turn EXCEPT ![s] = NoTurn]
  /\ UNCHANGED <<store, history>>

-----------------------------------------------------------------------------
(* What the client sends                                                   *)

Start(s, t) ==
  /\ Move(s, "ready", "selecting")
  /\ turn' = [turn EXCEPT ![s] = t]
  /\ started' = started \cup {t}
  /\ UNCHANGED <<shown, replies, failed>>

\* A message: it is committed as a row and gets a new run id.
Message(s, r) ==
  /\ FreshRun(r)
  /\ Start(s, <<r, 0>>)
  /\ UNCHANGED store

\* An unknown type, no session, an empty message; a user_response without a
\* token or with another run's id.
RefuseRequest(s) ==
  /\ Move(s, "ready", "sending")
  /\ UNCHANGED <<turn, store, history>>

\* Mutant: the token is looked up and not consumed.
RespondKeepsToken(s, t) ==
  /\ t \in tokens \ stale
  /\ Index(t) < MaxTurns
  /\ Start(s, Follows(t))
  /\ UNCHANGED store

\* user_response with a live token: validated and consumed.
Respond(s, t) ==
  /\ t \in tokens \ stale
  /\ Index(t) < MaxTurns
  /\ tokens' = tokens \ {t}
  /\ Start(s, Follows(t))
  /\ UNCHANGED stale

\* user_response with a token the store does not have, or has too long: get
\* drops an expired token.
RefuseResponse(s, t) ==
  /\ t \notin tokens \ stale
  /\ Move(s, "ready", "sending")
  /\ tokens' = tokens \ {t}
  /\ UNCHANGED <<turn, stale, history>>

-----------------------------------------------------------------------------
(* The turn                                                                *)

\* The requested model is not available; the token, if any, is gone.
ModelRefused(s) ==
  /\ Move(s, "selecting", "sending")
  /\ UNCHANGED <<turn, store, history>>

ModelSelected(s) ==
  /\ Move(s, "selecting", "running")
  /\ UNCHANGED <<turn, store, history>>

\* The model's text may be empty.
RunCompletes(s) ==
  /\ \E result \in {"saving", "empty"} : Move(s, "running", result)
  /\ UNCHANGED <<turn, store, history>>

\* Timed out, also while a question is being sent, or no model to talk to.
RunCutOff(s) ==
  /\ pc[s] \in {"running", "asking"}
  /\ pc' = [pc EXCEPT ![s] = "empty"]
  /\ failed' = failed \cup {turn[s]}
  /\ UNCHANGED <<turn, store, shown, started, replies>>

\* Mutant: a turn that raised is tried again.
RunRaisesAndRepeats(s) ==
  /\ pc[s] \in {"running", "saving", "empty"}
  /\ pc' = [pc EXCEPT ![s] = "selecting"]
  /\ failed' = failed \cup {turn[s]}
  /\ UNCHANGED <<turn, store, shown, started, replies>>

\* The run raises, or the commit of its reply: the transaction is rolled back
\* and the client is told that the workflow failed.
RunRaises(s) ==
  /\ pc[s] \in {"running", "saving", "empty"}
  /\ pc' = [pc EXCEPT ![s] = "sending"]
  /\ failed' = failed \cup {turn[s]}
  /\ UNCHANGED <<turn, store, shown, started, replies>>

\* Mutant: the token is stored before the question is sent.
AskPersisted(s) ==
  /\ Move(s, "running", "asking")
  /\ shown' = shown \cup {turn[s]}
  /\ tokens' = tokens \cup {turn[s]}
  /\ UNCHANGED <<turn, stale, started, replies, failed>>

\* ask_user: the event goes out with its token ...
Ask(s) ==
  /\ Move(s, "running", "asking")
  /\ shown' = shown \cup {turn[s]}
  /\ UNCHANGED <<turn, store, started, replies, failed>>

\* ... and when it has been sent, persist_resume_token; the turn is over.
Persist(s) ==
  /\ Move(s, "asking", "saving")
  /\ tokens' = tokens \cup {turn[s]}
  /\ UNCHANGED <<turn, stale, history>>

\* Mutant: a question leaves no row.
SaveFinalReply(s) ==
  /\ Move(s, "saving", "sending")
  /\ replies' = IF turn[s] \in shown THEN replies ELSE replies \cup {turn[s]}
  /\ UNCHANGED <<turn, store, shown, started, failed>>

SaveReply(s) ==
  /\ Move(s, "saving", "sending")
  /\ replies' = replies \cup {turn[s]}
  /\ UNCHANGED <<turn, store, shown, started, failed>>

\* An empty reply is a row of the conversation in turn 0 and none later.
SaveEmptyReply(s) ==
  /\ Move(s, "empty", "sending")
  /\ replies' = IF Index(turn[s]) = 0 THEN replies \cup {turn[s]} ELSE replies
  /\ UNCHANGED <<turn, store, shown, started, failed>>

Sent(s) ==
  /\ Move(s, "sending", "ready")
  /\ UNCHANGED <<turn, store, history>>

-----------------------------------------------------------------------------
(* The environment                                                         *)

TokenExpires(t) ==
  /\ t \in tokens \ stale
  /\ stale' = stale \cup {t}
  /\ UNCHANGED <<pc, turn, tokens, history>>

\* The process is restarted: the database keeps its rows, the client the
\* questions it has seen; the store is built anew.
Restart ==
  /\ pc' = [s \in Sockets |-> "offline"]
  /\ turn' = [s \in Sockets |-> NoTurn]
  /\ tokens' = {}
  /\ UNCHANGED <<stale, history>>

-----------------------------------------------------------------------------
Receive(s) ==
  \/ \E r \in Runs : Message(s, r)
  \/ \E t \in shown : Respond(s, t) \/ RefuseResponse(s, t)
  \/ RefuseRequest(s)

Handle(s) ==
  \/ ModelRefused(s) \/ ModelSelected(s)
  \/ RunCompletes(s) \/ RunCutOff(s) \/ RunRaises(s)
  \/ Ask(s) \/ Persist(s) \/ SaveReply(s) \/ SaveEmptyReply(s)
  \/ Sent(s)

Next ==
  \/ \E s \in Sockets : Connect(s) \/ Disconnect(s) \/ Receive(s) \/ Handle(s)
  \/ \E t \in tokens : TokenExpires(t)
  \/ Restart

\* The model list has a timeout, a run has one, and a send ends or raises; so
\* a handler that has a request goes on.  Nothing is asked of clients.
Fairness == \A s \in Sockets : WF_vars(Handle(s))

Spec == Init /\ [][Next]_vars /\ Fairness

-----------------------------------------------------------------------------
(* What the socket promises                                                *)

\* The state has the shape of the handlers' locals and of the token store.
TypeOK ==
  /\ pc \in [Sockets -> Phase]
  /\ turn \in [Sockets -> Turn \cup {NoTurn}]
  /\ tokens \subseteq Turn
  /\ stale \subseteq Turn
  /\ shown \subseteq Turn
  /\ started \subseteq Turn
  /\ replies \subseteq Turn
  /\ failed \subseteq Turn

\* "run_id ... workspace isolation" (chat_ws.py:581): two agentic loops of one
\* run never overlap, whichever sockets the answers come in on, because a
\* question can be answered only when the turn that asked it acts no more.
RunsDisjoint ==
  \A s, z \in Sockets :
    Active(s) /\ Active(z) /\ RunOf(turn[s]) = RunOf(turn[z]) => s = z

\* Whatever sockets open, close and answer, a run has one loop at work.
Sound == TypeOK /\ RunsDisjoint

\* "Consume the token (one-time use)" (chat_ws.py:246): over all sockets and
\* restarts no answer makes a turn start that was started before.
TurnsStartOnce ==
  [][\A s \in Sockets : pc[s] = "ready" /\ pc'[s] = "selecting"
                          => turn'[s] \notin started]_vars

\* The continuation of a run is told the conversation as the database has it
\* (chat_ws.py:287), so a question that can be answered is a row of it, unless
\* its socket is about to commit that row or has reported an error.
AnswerableIsRecorded ==
  \A t \in tokens :
    \/ t \in replies \cup failed
    \/ \E s \in Sockets : pc[s] = "saving" /\ turn[s] = t

\* Every request is dealt with: its socket waits for the next one or is gone.
RequestsServed ==
  \A s \in Sockets :
    pc[s] \notin {"ready", "offline"} ~> pc[s] \in {"ready", "offline"}

-----------------------------------------------------------------------------
(* What the documents say and the code does not do                         *)

\* "Resume must continue the same run context (same `run_id`) after ...
\* `ask_user` remediation ... Resume state must be durable (survives process
\* restart)" (docs/superpowers/specs/2026-05-21-harness-loop-memory-resume-spec.md:40-44):
\* a question that ended its turn and is in the conversation can be answered
\* until it has been or has expired.
QuestionsStayAnswerable ==
  \A t \in (shown \cap replies) \ failed :
    t \in tokens \cup stale \/ Follows(t) \in started
=============================================================================
