------------------------- MODULE ChatSocket_proofs -------------------------
(***************************************************************************)
(* Proofs about ChatSocket, for any sockets, any runs and any number of    *)
(* turns.                                                                  *)
(***************************************************************************)
EXTENDS ChatSocket, TLAPS

-----------------------------------------------------------------------------
(* Turns                                                                   *)

\* The parts of a turn.
LEMMA TurnParts ==
  \A t \in Turn : /\ RunOf(t) \in Runs
                  /\ Index(t) \in Nat
                  /\ Index(t) <= MaxTurns
BY TurnsAssumption DEF Turn, RunOf, Index

\* The first turn of a run.
LEMMA FirstTurn ==
  \A r \in Runs : <<r, 0>> \in Turn /\ RunOf(<<r, 0>>) = r
BY TurnsAssumption DEF Turn, RunOf

\* The turn after another one belongs to the same run.
LEMMA NextTurn ==
  ASSUME NEW t \in Turn, Index(t) < MaxTurns
  PROVE  /\ Follows(t) \in Turn
         /\ RunOf(Follows(t)) = RunOf(t)
         /\ Index(Follows(t)) = Index(t) + 1
BY TurnsAssumption DEF Turn, RunOf, Index, Follows

\* Having no turn is no turn.
LEMMA NoTurnIsNone == NoTurn \notin Turn
BY DEF NoTurn, Turn

-----------------------------------------------------------------------------
(* Types                                                                   *)

Busy == {"selecting", "running", "asking", "saving", "empty"}

\* A handler at work on a turn has one.
BusyInv == \A s \in Sockets : pc[s] \in Busy => turn[s] \in started

TypeInv == TypeOK /\ BusyInv

LEMMA TypeInit == Init => TypeInv
BY DEF Init, TypeInv, TypeOK, BusyInv, Phase, Busy

LEMMA TypeNext == TypeInv /\ [Next]_vars => TypeInv'
<1> SUFFICES ASSUME TypeInv, [Next]_vars
             PROVE  TypeInv'
  OBVIOUS
<1> USE DEF TypeInv, TypeOK, BusyInv, Busy, Phase, Move, store, history
<1>1. ASSUME NEW s \in Sockets, Connect(s) \/ Disconnect(s)
      PROVE  TypeInv'
  BY <1>1 DEF Connect, Disconnect
<1>2. ASSUME NEW s \in Sockets, Receive(s)
      PROVE  TypeInv'
  <2>1. ASSUME NEW r \in Runs, Message(s, r)
        PROVE  TypeInv'
    BY <2>1, FirstTurn DEF Message, Start
  <2>2. ASSUME NEW t \in shown, Respond(s, t)
        PROVE  TypeInv'
    <3>1. Follows(t) \in Turn
      BY <2>2, NextTurn DEF Respond
    <3> QED
      BY <2>2, <3>1 DEF Respond, Start
  <2>3. ASSUME NEW t \in shown, RefuseResponse(s, t)
        PROVE  TypeInv'
    BY <2>3 DEF RefuseResponse
  <2>4. CASE RefuseRequest(s)
    BY <2>4 DEF RefuseRequest
  <2> QED
    BY <1>2, <2>1, <2>2, <2>3, <2>4 DEF Receive
<1>3. ASSUME NEW s \in Sockets, Handle(s)
      PROVE  TypeInv'
  <2>1. CASE ModelRefused(s) \/ ModelSelected(s) \/ RunCompletes(s) \/ RunCutOff(s)
    BY <2>1 DEF ModelRefused, ModelSelected, RunCompletes, RunCutOff
  <2>2. CASE RunRaises(s)
    BY <2>2 DEF RunRaises
  <2>3. CASE Ask(s) \/ Persist(s)
    BY <2>3 DEF Ask, Persist
  <2>4. CASE SaveReply(s) \/ SaveEmptyReply(s) \/ Sent(s)
    BY <2>4 DEF SaveReply, SaveEmptyReply, Sent
  <2> QED
    BY <1>3, <2>1, <2>2, <2>3, <2>4 DEF Handle
<1>4. ASSUME NEW t \in tokens, TokenExpires(t)
      PROVE  TypeInv'
  BY <1>4 DEF TokenExpires
<1>5. CASE Restart
  BY <1>5 DEF Restart
<1>6. CASE UNCHANGED vars
  BY <1>6 DEF vars
<1> QED
  BY <1>1, <1>2, <1>3, <1>4, <1>5, <1>6 DEF Next

\* The state always has its shape: TypeOK, whatever clients send.
THEOREM TypeCorrect == Spec => []TypeOK
<1>1. TypeInv => TypeOK
  BY DEF TypeInv
<1> QED
  BY TypeInit, TypeNext, <1>1, PTL DEF Spec

-----------------------------------------------------------------------------
(* Who may act for a run                                                   *)

\* Questions and answers are of turns that were started.
KnownInv == tokens \subseteq started /\ shown \subseteq started

\* A run has a live token or an acting handler, not both, and one of them at
\* most.
OwnerInv ==
  /\ RunsDisjoint
  /\ \A t, u \in tokens : RunOf(t) = RunOf(u) => t = u
  /\ \A t \in tokens, s \in Sockets : Active(s) => RunOf(turn[s]) # RunOf(t)

\* Its token or its handler is at the last turn of the run.
Last(t) == \A u \in started : RunOf(u) = RunOf(t) => Index(u) <= Index(t)

LastInv ==
  /\ \A t \in tokens : Last(t)
  /\ \A s \in Sockets : Active(s) => Last(turn[s])

IInv == TypeInv /\ KnownInv /\ OwnerInv /\ LastInv

LEMMA InitInv == Init => IInv
<1> SUFFICES ASSUME Init PROVE KnownInv /\ OwnerInv /\ LastInv
  BY TypeInit DEF IInv
<1> QED
  BY DEF Init, KnownInv, OwnerInv, LastInv, RunsDisjoint, Active

\* A step that starts no turn, stores no token and gives no handler anything
\* to do leaves the ownership of runs as it is.
LEMMA Quiet ==
  ASSUME KnownInv, OwnerInv, LastInv,
         tokens' \subseteq tokens,
         started' = started,
         shown' \subseteq started,
         \A s \in Sockets : Active(s)' => Active(s) /\ turn'[s] = turn[s]
  PROVE  KnownInv' /\ OwnerInv' /\ LastInv'
<1>1. KnownInv'
  BY DEF KnownInv
<1>2. OwnerInv'
  BY DEF OwnerInv, RunsDisjoint
<1>3. LastInv'
  BY DEF LastInv, Last
<1> QED
  BY <1>1, <1>2, <1>3

\* A socket without a task starts the first turn of a run, or the next turn of
\* one whose token is taken out of the store; no other socket acts for the run.
LEMMA Started ==
  ASSUME TypeInv, KnownInv, OwnerInv, LastInv,
         NEW s \in Sockets, NEW t \in Turn,
         Start(s, t),
         tokens' \subseteq tokens,
         \A u \in tokens' : RunOf(u) # RunOf(t),
         \A z \in Sockets : Active(z) => RunOf(turn[z]) # RunOf(t),
         \A u \in started : RunOf(u) = RunOf(t) => Index(u) <= Index(t)
  PROVE  KnownInv' /\ OwnerInv' /\ LastInv'
<1>1. /\ turn'[s] = t
      /\ \A z \in Sockets \ {s} : turn'[z] = turn[z] /\ pc'[z] = pc[z]
      /\ started' = started \cup {t}
      /\ shown' = shown
  BY DEF Start, Move, TypeInv, TypeOK
<1>2. \A z \in Sockets \ {s} : Active(z)' <=> Active(z)
  BY <1>1 DEF Active
<1>3. KnownInv'
  BY <1>1 DEF KnownInv
<1>4. OwnerInv'
  <2>1. RunsDisjoint'
    BY <1>1, <1>2 DEF OwnerInv, RunsDisjoint
  <2>2. \A u \in tokens', z \in Sockets : Active(z)' => RunOf(turn'[z]) # RunOf(u)
    BY <1>1, <1>2 DEF OwnerInv
  <2>3. \A u, v \in tokens' : RunOf(u) = RunOf(v) => u = v
    BY DEF OwnerInv
  <2> QED
    BY <2>1, <2>2, <2>3 DEF OwnerInv
<1>5. LastInv'
  <2>1. Index(t) \in Nat
    BY TurnParts
  <2>2. \A u \in tokens' : Last(u)'
    BY <1>1 DEF LastInv, Last
  <2>3. \A z \in Sockets : Active(z)' => Last(turn[z])'
    <3>1. \A u \in started' : RunOf(u) = RunOf(t) => Index(u) <= Index(t)
      BY <1>1, <2>1
    <3> QED
      BY <1>1, <1>2, <3>1 DEF LastInv, Last
  <2> QED
    BY <2>2, <2>3 DEF LastInv
<1> QED
  BY <1>3, <1>4, <1>5

\* The message of a client starts a run nobody acts for.
LEMMA MessageOwns ==
  ASSUME IInv, NEW s \in Sockets, NEW r \in Runs, Message(s, r)
  PROVE  KnownInv' /\ OwnerInv' /\ LastInv'
<1>1. <<r, 0>> \in Turn /\ RunOf(<<r, 0>>) = r
  BY FirstTurn
<1>2. \A u \in started : RunOf(u) # r
  BY DEF Message, FreshRun
<1>3. /\ Start(s, <<r, 0>>)
      /\ tokens' = tokens
  BY DEF Message, store
<1>4. \A u \in tokens : RunOf(u) # r
  BY <1>2 DEF IInv, KnownInv
<1>5. \A z \in Sockets : Active(z) => RunOf(turn[z]) # r
  BY <1>2 DEF IInv, TypeInv, BusyInv, Busy, Active
<1> QED
  BY <1>1, <1>2, <1>3, <1>4, <1>5, Started DEF IInv

\* The answer of a client takes the only token of its run out of the store, and
\* nobody acts for that run.
LEMMA RespondOwns ==
  ASSUME IInv, NEW s \in Sockets, NEW t \in shown, Respond(s, t)
  PROVE  KnownInv' /\ OwnerInv' /\ LastInv'
<1>1. t \in tokens /\ t \in Turn /\ Index(t) < MaxTurns
  BY DEF Respond, IInv, TypeInv, TypeOK
<1>2. /\ Follows(t) \in Turn
      /\ RunOf(Follows(t)) = RunOf(t)
      /\ Index(Follows(t)) = Index(t) + 1
  BY <1>1, NextTurn
<1>3. Start(s, Follows(t)) /\ tokens' = tokens \ {t}
  BY DEF Respond
<1>4. \A u \in tokens' : RunOf(u) # RunOf(t)
  BY <1>1, <1>3 DEF IInv, OwnerInv
<1>5. \A z \in Sockets : Active(z) => RunOf(turn[z]) # RunOf(t)
  BY <1>1 DEF IInv, OwnerInv
<1>6. \A u \in started : RunOf(u) = RunOf(t) => Index(u) <= Index(t) + 1
  <2>1. \A u \in started : RunOf(u) = RunOf(t) => Index(u) <= Index(t)
    BY <1>1 DEF IInv, LastInv, Last
  <2>2. \A u \in started : Index(u) \in Nat
    BY TurnParts DEF IInv, TypeInv, TypeOK
  <2>3. Index(t) \in Nat
    BY <1>1, TurnParts
  <2> QED
    BY <2>1, <2>2, <2>3
<1> QED
  BY <1>2, <1>3, <1>4, <1>5, <1>6, Started DEF IInv

\* The turn that asked hands its run over to the token.
LEMMA PersistOwns ==
  ASSUME IInv, NEW s \in Sockets, Persist(s)
  PROVE  KnownInv' /\ OwnerInv' /\ LastInv'
<1>1. Active(s) /\ turn[s] \in started
  BY DEF Persist, Move, Active, IInv, TypeInv, BusyInv, Busy
<1>2. /\ turn' = turn /\ started' = started /\ shown' = shown
      /\ tokens' = tokens \cup {turn[s]}
      /\ ~Active(s)'
      /\ \A z \in Sockets : Active(z)' => Active(z)
  BY DEF Persist, Move, Active, IInv, TypeInv, TypeOK, history
<1>3. KnownInv'
  BY <1>1, <1>2 DEF IInv, KnownInv
<1>4. OwnerInv'
  <2>1. RunsDisjoint'
    BY <1>2 DEF IInv, OwnerInv, RunsDisjoint
  <2>2. \A t, u \in tokens' : RunOf(t) = RunOf(u) => t = u
    BY <1>1, <1>2 DEF IInv, OwnerInv
  <2>3. \A t \in tokens', z \in Sockets : Active(z)' => RunOf(turn'[z]) # RunOf(t)
    BY <1>1, <1>2 DEF IInv, OwnerInv, RunsDisjoint
  <2> QED
    BY <2>1, <2>2, <2>3 DEF OwnerInv
<1>5. LastInv'
  BY <1>1, <1>2 DEF IInv, LastInv, Last
<1> QED
  BY <1>3, <1>4, <1>5

LEMMA NextInv == IInv /\ [Next]_vars => IInv'
<1> SUFFICES ASSUME IInv, [Next]_vars
             PROVE  KnownInv' /\ OwnerInv' /\ LastInv'
  BY TypeNext DEF IInv
<1>0. KnownInv /\ OwnerInv /\ LastInv
  BY DEF IInv
<1> USE DEF Move, Active, store, history
<1>1. ASSUME NEW s \in Sockets, Connect(s) \/ Disconnect(s)
      PROVE  KnownInv' /\ OwnerInv' /\ LastInv'
  BY <1>0, <1>1, Quiet DEF Connect, Disconnect, KnownInv, IInv, TypeInv, TypeOK
<1>2. ASSUME NEW s \in Sockets, Receive(s)
      PROVE  KnownInv' /\ OwnerInv' /\ LastInv'
  <2>1. ASSUME NEW t \in shown, RefuseResponse(s, t)
        PROVE  KnownInv' /\ OwnerInv' /\ LastInv'
    BY <1>0, <2>1, Quiet DEF RefuseResponse, KnownInv, IInv, TypeInv, TypeOK
  <2>2. CASE RefuseRequest(s)
    BY <1>0, <2>2, Quiet DEF RefuseRequest, KnownInv, IInv, TypeInv, TypeOK
  <2> QED
    BY <1>2, <2>1, <2>2, MessageOwns, RespondOwns DEF Receive
<1>3. ASSUME NEW s \in Sockets, Handle(s)
      PROVE  KnownInv' /\ OwnerInv' /\ LastInv'
  <2>1. CASE ModelRefused(s) \/ ModelSelected(s) \/ RunCompletes(s) \/ RunCutOff(s)
    BY <1>0, <2>1, Quiet DEF ModelRefused, ModelSelected, RunCompletes, RunCutOff,
       KnownInv, IInv, TypeInv, TypeOK
  <2>2. CASE RunRaises(s)
    BY <1>0, <2>2, Quiet DEF RunRaises, KnownInv, IInv, TypeInv, TypeOK
  <2>3. CASE Ask(s)
    <3>1. turn[s] \in started
      BY <2>3 DEF Ask, IInv, TypeInv, BusyInv, Busy
    <3> QED
      BY <1>0, <2>3, <3>1, Quiet DEF Ask, KnownInv, IInv, TypeInv, TypeOK
  <2>4. CASE SaveReply(s) \/ SaveEmptyReply(s) \/ Sent(s)
    BY <1>0, <2>4, Quiet DEF SaveReply, SaveEmptyReply, Sent, KnownInv, IInv,
       TypeInv, TypeOK
  <2> QED
    BY <1>3, <2>1, <2>2, <2>3, <2>4, PersistOwns DEF Handle
<1>4. ASSUME NEW t \in tokens, TokenExpires(t)
      PROVE  KnownInv' /\ OwnerInv' /\ LastInv'
  BY <1>0, <1>4, Quiet DEF TokenExpires, KnownInv
<1>5. CASE Restart
  BY <1>0, <1>5, Quiet DEF Restart, KnownInv
<1>6. CASE UNCHANGED vars
  BY <1>0, <1>6, Quiet DEF vars, KnownInv
<1> QED
  BY <1>1, <1>2, <1>3, <1>4, <1>5, <1>6 DEF Next

\* The inductive invariant holds.
THEOREM Invariance == Spec => []IInv
BY InitInv, NextInv, PTL DEF Spec

\* Two loops of one run never overlap (chat_ws.py:352, 581): RunsDisjoint, for
\* any number of sockets, clients that answer as fast as they like, and
\* restarts at any moment.
THEOREM RunsNeverOverlap == Spec => []RunsDisjoint
<1>1. IInv => RunsDisjoint
  BY DEF IInv, OwnerInv
<1> QED
  BY Invariance, <1>1, PTL

\* A question is answered once (chat_ws.py:246-247): no turn is started twice.
THEOREM AnsweredOnce == Spec => TurnsStartOnce
<1>1. ASSUME IInv, [Next]_vars, NEW s \in Sockets,
             pc[s] = "ready", pc'[s] = "selecting"
      PROVE  turn'[s] \notin started
  <2> USE DEF Move, store, history, IInv, TypeInv, TypeOK
  <2>1. ASSUME NEW r \in Runs, Message(s, r)
        PROVE  turn'[s] \notin started
    BY <1>1, <2>1, FirstTurn DEF Message, Start, FreshRun
  <2>2. ASSUME NEW t \in shown, Respond(s, t)
        PROVE  turn'[s] \notin started
    <3>1. t \in tokens /\ t \in Turn /\ turn'[s] = Follows(t)
      BY <1>1, <2>2 DEF Respond, Start
    <3>2. RunOf(Follows(t)) = RunOf(t) /\ Index(Follows(t)) = Index(t) + 1
      BY <2>2, <3>1, NextTurn DEF Respond
    <3>3. Index(t) \in Nat
      BY <3>1, TurnParts
    <3>4. Follows(t) \in started => Index(Follows(t)) <= Index(t)
      BY <1>1, <3>1, <3>2 DEF LastInv, Last
    <3> QED
      BY <3>1, <3>2, <3>3, <3>4
  <2>3. Receive(s)
    <3>1. ~UNCHANGED vars /\ ~Restart /\ ~(\E t \in tokens : TokenExpires(t))
      BY <1>1 DEF vars, Restart, TokenExpires
    <3>2. PICK z \in Sockets : Connect(z) \/ Disconnect(z) \/ Receive(z) \/ Handle(z)
      BY <1>1, <3>1 DEF Next
    <3>3. ~Connect(z) /\ ~Disconnect(z)
      BY <1>1, <3>2 DEF Connect, Disconnect
    <3>4. ~Handle(z)
      BY <1>1, <3>2 DEF Handle, ModelRefused, ModelSelected, RunCompletes, RunCutOff,
         RunRaises, Ask, Persist, SaveReply, SaveEmptyReply, Sent
    <3>5. z = s
      BY <1>1, <3>2, <3>3, <3>4 DEF Receive, Message, Respond, Start, RefuseResponse,
         RefuseRequest
    <3> QED
      BY <3>2, <3>3, <3>4, <3>5
  <2>4. ~RefuseRequest(s) /\ ~(\E t \in shown : RefuseResponse(s, t))
    BY <1>1 DEF RefuseRequest, RefuseResponse
  <2> QED
    BY <2>1, <2>2, <2>3, <2>4 DEF Receive
<1>2. IInv /\ [Next]_vars =>
        [\A s \in Sockets : pc[s] = "ready" /\ pc'[s] = "selecting"
                              => turn'[s] \notin started]_vars
  BY <1>1
<1> QED
  BY Invariance, <1>2, PTL DEF Spec, TurnsStartOnce

-----------------------------------------------------------------------------
(* The conversation knows the questions that can be answered               *)

LEMMA RecordedNext ==
  TypeInv /\ AnswerableIsRecorded /\ [Next]_vars => AnswerableIsRecorded'
<1> SUFFICES ASSUME TypeInv, AnswerableIsRecorded, [Next]_vars
             PROVE  AnswerableIsRecorded'
  OBVIOUS
<1> USE DEF AnswerableIsRecorded, Move, store, history, TypeInv, TypeOK
<1>1. ASSUME NEW s \in Sockets, Connect(s) \/ Disconnect(s)
      PROVE  AnswerableIsRecorded'
  BY <1>1 DEF Connect, Disconnect
<1>2. ASSUME NEW s \in Sockets, Receive(s)
      PROVE  AnswerableIsRecorded'
  BY <1>2 DEF Receive, Message, Respond, Start, RefuseResponse, RefuseRequest
<1>3. ASSUME NEW s \in Sockets, Handle(s)
      PROVE  AnswerableIsRecorded'
  <2>1. CASE ModelRefused(s) \/ ModelSelected(s) \/ RunCompletes(s) \/ RunCutOff(s)
    BY <2>1 DEF ModelRefused, ModelSelected, RunCompletes, RunCutOff
  <2>2. CASE RunRaises(s)
    BY <2>2 DEF RunRaises
  <2>3. CASE Ask(s)
    BY <2>3 DEF Ask
  <2>4. CASE Persist(s)
    <3>1. pc'[s] = "saving" /\ turn' = turn /\ replies' = replies /\ failed' = failed
      BY <2>4 DEF Persist
    <3>2. \A z \in Sockets : pc[z] = "saving" => pc'[z] = "saving"
      BY <2>4 DEF Persist
    <3> QED
      BY <2>4, <3>1, <3>2 DEF Persist
  <2>5. CASE SaveReply(s)
    BY <2>5 DEF SaveReply
  <2>6. CASE SaveEmptyReply(s)
    BY <2>6 DEF SaveEmptyReply
  <2>7. CASE Sent(s)
    BY <2>7 DEF Sent
  <2> QED
    BY <1>3, <2>1, <2>2, <2>3, <2>4, <2>5, <2>6, <2>7 DEF Handle
<1>4. ASSUME NEW t \in tokens, TokenExpires(t)
      PROVE  AnswerableIsRecorded'
  BY <1>4 DEF TokenExpires
<1>5. CASE Restart
  BY <1>5 DEF Restart
<1>6. CASE UNCHANGED vars
  BY <1>6 DEF vars
<1> QED
  BY <1>1, <1>2, <1>3, <1>4, <1>5, <1>6 DEF Next

\* An answer finds its question in the conversation (chat_ws.py:287), but for
\* the moment before its commit: AnswerableIsRecorded.
THEOREM QuestionsRecorded == Spec => []AnswerableIsRecorded
<1>1. Init => AnswerableIsRecorded
  BY DEF Init, AnswerableIsRecorded
<1> QED
  BY TypeInit, TypeNext, RecordedNext, <1>1, PTL DEF Spec

\* A run has one loop at work, and the handlers keep their shape: Sound.
THEOREM Soundness == Spec => []Sound
BY TypeCorrect, RunsNeverOverlap, PTL DEF Sound
=============================================================================
