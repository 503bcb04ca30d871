---------------------------- MODULE Conversation ----------------------------
(***************************************************************************)
(* The history of a chat session and what of it the model is given: the    *)
(* messages table, the rolling summary of the session, the process's cache *)
(* of assembled contexts, the compaction, and the validator that repairs a *)
(* context before the model is called.                                     *)
(*                                                                         *)
(* A turn is one request: POST /api/chat, a message of the chat socket, or *)
(* POST /api/sessions/{id}/messages.  The handler of POST /api/chat keeps  *)
(* its user message in an open transaction, which several of its steps may *)
(* commit or roll back long before the answer is stored.  It runs on one   *)
(* event loop: what stands between two awaits is one step, and the turns   *)
(* of a session interleave at its awaits.                                  *)
(***************************************************************************)
EXTENDS Naturals, Sequences, FiniteSets, Functions, Subsequences

CONSTANTS Sessions,
          MaxTurns,     \* requests in a behaviour
          MaxOpen,      \* requests a process handles at a time
          MaxRestarts,  \* restarts of the process
          MaxBlank,     \* blank messages
          ApiRoles,     \* roles of the messages that are added by the API
          Threshold,    \* MESSAGE_THRESHOLD
          KeepRecent,   \* keep_recent
          Regenerate,   \* new messages before a summary is made again
          RecoverLast,  \* messages the validator reads back
          MaxContext,   \* max_context_messages
          CacheSize     \* MAX_CACHE_SIZE

ASSUME ConversationAssumption ==
  /\ ApiRoles \subseteq {"user", "assistant", "system"}
  /\ MaxTurns \in Nat /\ MaxOpen \in Nat /\ MaxRestarts \in Nat
  /\ MaxBlank \in Nat /\ MaxContext \in Nat
  /\ KeepRecent \in Nat \ {0} /\ RecoverLast \in Nat \ {0}
  /\ CacheSize \in Nat \ {0}
  /\ Threshold \in Nat /\ Regenerate \in Nat \ {0}

VARIABLES table,    \* rows of messages by session, in the order of created_at
          summary,  \* session_summary and message_count_at_summary
          cache,    \* _context_cache, oldest entry first
          turn,     \* the requests, and what each handler holds
          restarts

conversationVars == <<table, summary, cache, turn, restarts>>

Turns == 1..MaxTurns
Committed == 0
Roles == {"user", "assistant", "system"}
Message == [turn : Turns, role : Roles, blank : BOOLEAN]
Row == [msg : Message, open : Turns \cup {Committed}]
Summary == [at : Nat, covers : SUBSET Message]
Context == [msgs : Seq(Message), compacted : BOOLEAN, covers : SUBSET Message]

NoSummary == [at |-> 0, covers |-> {}]
NoContext == [msgs |-> <<>>, compacted |-> FALSE, covers |-> {}]

Unborn == [phase |-> "unborn", session |-> "none", blank |-> FALSE,
           read |-> <<>>, summary |-> NoSummary, unsummarised |-> FALSE,
           from |-> "nothing", context |-> NoContext, length |-> 0]

ConversationInit ==
  /\ table = [s \in Sessions |-> <<>>]
  /\ summary = [s \in Sessions |-> NoSummary]
  /\ cache = <<>>
  /\ turn = [t \in Turns |-> Unborn]
  /\ restarts = 0

----------------------------------------------------------------------------
\* The database: a transaction sees what is committed and its own rows.

Visible(rows, t) ==
  LET seen == At(rows, {i \in DOMAIN rows : rows[i].open \in {Committed, t}})
  IN [i \in DOMAIN seen |-> seen[i].msg]

CommitRows(rows, t) ==
  [i \in DOMAIN rows |->
     IF rows[i].open = t THEN [rows[i] EXCEPT !.open = Committed] ELSE rows[i]]

RollbackRows(rows, t) == At(rows, {i \in DOMAIN rows : rows[i].open # t})

Stored(t, role, blank, open) ==
  [msg |-> [turn |-> t, role |-> role, blank |-> blank], open |-> open]

----------------------------------------------------------------------------
\* history.py: compaction and formatting.

Recent(seq, n) == IF Len(seq) <= n THEN seq ELSE SubSeq(seq, Len(seq) - n + 1, Len(seq))
Older(seq) == SubSeq(seq, 1, Len(seq) - KeepRecent)

ShouldCompact(n) == n > Threshold

\* Without a summary the text is a placeholder, which covers nothing.
CompactHistory(read, sum) ==
  IF ShouldCompact(Len(read)) /\ Len(read) > KeepRecent
  THEN [msgs |-> Recent(read, KeepRecent), compacted |-> TRUE, covers |-> sum.covers]
  ELSE [msgs |-> read, compacted |-> FALSE, covers |-> {}]

FilterSystem(msgs) == At(msgs, {i \in DOMAIN msgs : msgs[i].role # "system"})

\* The first message of every row of messages of one role.
NormalizeRoles(msgs) ==
  At(msgs, {i \in DOMAIN msgs : i = 1 \/ msgs[i].role # msgs[i - 1].role})

\* The system prompt, which always leads, is left out.
BuildUnfiltered(msgs) == FilterSystem(NormalizeRoles(Recent(msgs, MaxContext)))
BuildContext(msgs) == NormalizeRoles(FilterSystem(Recent(msgs, MaxContext)))

----------------------------------------------------------------------------
\* context_assembly.py: the cache of contexts.

Assemble(read, sum) ==
  LET compact == CompactHistory(read, sum)
  IN [compact EXCEPT !.msgs = BuildContext(compact.msgs)]

KeyWithoutCount(s, read, sum) == <<s, sum>>
CacheKey(s, read, sum) == <<s, Len(read), sum>>

Cached(key) == {i \in DOMAIN cache : cache[i].key = key}
WithEntry(entry) ==
  Append(IF Len(cache) >= CacheSize THEN Tail(cache) ELSE cache, entry)

----------------------------------------------------------------------------
\* message_validator.py: blank messages and recovery.

Blank(m) == m.role = "user" /\ m.blank
Sanitized(msgs) == At(msgs, {i \in DOMAIN msgs : ~Blank(msgs[i])})
HasUser(msgs) == \E i \in DOMAIN msgs : msgs[i].role = "user"
Recovered(rows, t) == Recent(Visible(rows, t), RecoverLast)

\* validate_messages.  A list without a user message is replaced by what the
\* table has, and is then valid whatever that is; led says that the system
\* prompt leads it.
Validate(led, msgs, rows, t) ==
  LET good == Sanitized(msgs)
      back == Recovered(rows, t)
  IN IF HasUser(good)
     THEN [valid |-> good = msgs, msgs |-> good, from |-> "assembled"]
     ELSE [valid |-> (led \/ good # <<>>) /\ back # <<>>, msgs |-> back,
           from |-> "recovered"]

----------------------------------------------------------------------------
\* Steps of the handler between two awaits.

Open == {t \in Turns : turn[t].phase \in {"summarising", "running"}}
NextTurn(t) ==
  /\ \A u \in Turns : turn[u].phase = "unborn" <=> u >= t
  /\ Cardinality(Open) < MaxOpen

Given(t, me, from, context) ==
  turn' = [turn EXCEPT ![t] =
             [me EXCEPT !.phase = "running", !.from = from, !.context = context]]

Plain(msgs) == [NoContext EXCEPT !.msgs = msgs]

\* ensure_valid_messages.  Every invalid list is logged to failed_runs in the
\* handler's own database session: a failed insert rolls back, and a good one
\* commits, the user's message.
EnsureValid(t, me, rows, context) ==
  LET first == Validate(TRUE, context.msgs, rows, t)
  IN IF first.valid
     THEN /\ table' = [table EXCEPT ![me.session] = rows]
          /\ Given(t, me, first.from,
                   IF first.from = "assembled" THEN context ELSE Plain(first.msgs))
     ELSE \E logged \in BOOLEAN :
       LET after == IF logged THEN CommitRows(rows, t) ELSE RollbackRows(rows, t)
           back == Recovered(after, t)
           again == Validate(FALSE, back, after, t)
       IN /\ table' = [table EXCEPT ![me.session] = after]
          /\ IF back # <<>> /\ again.valid
             THEN Given(t, me, "recovered", Plain(again.msgs))
             ELSE Given(t, me, "minimal", Plain(<<me.read[Len(me.read)]>>))

\* prepare_context_for_llm, on the history read before the summary.
Serve(t, me, rows) ==
  LET key == CacheKey(me.session, me.read, me.summary)
      hits == Cached(key)
      context == IF hits # {} THEN cache[CHOOSE i \in hits : TRUE].context
                 ELSE Assemble(me.read, me.summary)
  IN /\ cache' = IF hits # {} THEN cache
                 ELSE WithEntry([key |-> key, context |-> context])
     /\ EnsureValid(t, me, rows, context)

NeedsSummary(read, at) == Len(read) - at >= Regenerate

\* The handler flushes the message, reads the history back and looks whether
\* the summary is due; when it is, it waits for the model.
Ask(t, s, blank) ==
  /\ NextTurn(t)
  /\ blank => Cardinality({u \in Turns : turn[u].blank}) < MaxBlank
  /\ LET rows == Append(table[s], Stored(t, "user", blank, t))
         read == Visible(rows, t)
         me == [Unborn EXCEPT !.session = s, !.blank = blank,
                              !.read = read, !.summary = summary[s],
                              !.length = Len(read)]
     IN IF NeedsSummary(read, summary[s].at)
        THEN /\ table' = [table EXCEPT ![s] = rows]
             /\ turn' = [turn EXCEPT ![t] = [me EXCEPT !.phase = "summarising"]]
             /\ UNCHANGED cache
        ELSE Serve(t, me, rows)
  /\ UNCHANGED <<summary, restarts>>

SummarisedRecent(read, prior) ==
  [at |-> Len(read), covers |-> prior.covers \cup Range(Recent(read, KeepRecent))]

\* The new summary is made from the one the request found.
Summarised(read, prior) ==
  [at |-> Len(read),
   covers |-> prior.covers \cup
              Range(IF Len(read) > KeepRecent THEN Older(read) ELSE read)]

\* update_session_summary commits the summary, and the message with it.
SummaryMade(t) ==
  LET me == turn[t]
      s == me.session
      new == Summarised(me.read, me.summary)
  IN /\ me.phase = "summarising"
     /\ summary' = [summary EXCEPT ![s] = new]
     /\ Serve(t, [me EXCEPT !.summary = new], CommitRows(table[s], t))
     /\ UNCHANGED restarts

\* It fails: the transaction is rolled back and the turn goes on.
SummaryFails(t) ==
  LET me == turn[t]
      s == me.session
  IN /\ me.phase = "summarising"
     /\ Serve(t, [me EXCEPT !.summary = summary[s], !.unsummarised = TRUE],
              RollbackRows(table[s], t))
     /\ UNCHANGED <<summary, restarts>>

\* A message of the socket is committed at once and the model is given the
\* whole history as it stands.
SocketAsk(t, s) ==
  /\ NextTurn(t)
  /\ LET rows == Append(table[s], Stored(t, "user", FALSE, Committed))
     IN /\ table' = [table EXCEPT ![s] = rows]
        /\ turn' = [turn EXCEPT ![t] =
             [Unborn EXCEPT !.phase = "running", !.session = s, !.from = "socket",
                            !.context.msgs = Visible(rows, t)]]
  /\ UNCHANGED <<summary, cache, restarts>>

\* POST /api/sessions/{id}/messages.
AddMessage(t, s, role) ==
  /\ NextTurn(t)
  /\ table' = [table EXCEPT ![s] = Append(@, Stored(t, role, FALSE, Committed))]
  /\ turn' = [turn EXCEPT ![t] = [Unborn EXCEPT !.phase = "done", !.session = s]]
  /\ UNCHANGED <<summary, cache, restarts>>

----------------------------------------------------------------------------
\* The end of a turn.

Over(t) == [Unborn EXCEPT !.phase = "done", !.session = turn[t].session,
                          !.blank = turn[t].blank, !.length = turn[t].length]

EndsWith(t, rows) ==
  /\ turn[t].phase = "running"
  /\ table' = [table EXCEPT ![turn[t].session] = rows]
  /\ turn' = [turn EXCEPT ![t] = Over(t)]
  /\ UNCHANGED <<summary, cache, restarts>>

\* store_workflow_outcome commits the open rows, or fails and rolls them
\* back; the answer is stored after it, in a transaction of its own.
Answer(t) ==
  \E stored \in BOOLEAN, saved \in BOOLEAN :
    LET rows == table[turn[t].session]
        kept == IF stored THEN CommitRows(rows, t) ELSE RollbackRows(rows, t)
        answer == Stored(t, "assistant", FALSE, Committed)
    IN EndsWith(t, IF saved THEN Append(kept, answer) ELSE kept)

\* The run ends with an error, which is committed as its outcome.
RunFails(t) == EndsWith(t, CommitRows(table[turn[t].session], t))

Undone(t) == EndsWith(t, RollbackRows(table[turn[t].session], t))

\* The run raises.
RunRaises(t) == Undone(t)

\* The model the request asks for is not the one that would serve it.
ModelRefused(t) == turn[t].from # "socket" /\ Undone(t)

\* The run stops for an approval, whose row has no tenant and is refused: it
\* cannot be paused.
PauseFails(t) == turn[t].from # "socket" /\ Undone(t)

\* The process restarts: its transactions are undone and its cache is gone.
Restart ==
  /\ restarts < MaxRestarts
  /\ restarts' = restarts + 1
  /\ cache' = <<>>
  /\ table' = [s \in Sessions |->
                 At(table[s], {i \in DOMAIN table[s] : table[s][i].open = Committed})]
  /\ turn' = [t \in Turns |->
                IF t \in Open THEN Over(t) ELSE turn[t]]
  /\ UNCHANGED summary

ConversationNext ==
  \/ \E t \in Turns, s \in Sessions :
       \/ \E blank \in BOOLEAN : Ask(t, s, blank)
       \/ SocketAsk(t, s)
       \/ \E role \in ApiRoles : AddMessage(t, s, role)
  \/ \E t \in Turns :
       SummaryMade(t) \/ SummaryFails(t) \/ Answer(t) \/ RunFails(t) \/ RunRaises(t)
       \/ ModelRefused(t) \/ PauseFails(t)
  \/ Restart

ConversationSpec == ConversationInit /\ [][ConversationNext]_conversationVars

----------------------------------------------------------------------------
Assembled(t) == turn[t].phase = "running" /\ turn[t].from = "assembled"

ConversationTypeOK ==
  /\ table \in [Sessions -> Seq(Row)]
  /\ summary \in [Sessions -> Summary]
  /\ \A i \in DOMAIN cache : cache[i].context \in Context
  /\ Len(cache) <= CacheSize
  /\ \A t \in Turns :
       /\ turn[t].phase \in {"unborn", "summarising", "running", "done"}
       /\ turn[t].session \in Sessions \cup {"none"}
       /\ turn[t].from \in {"nothing", "assembled", "recovered", "minimal", "socket"}
       /\ turn[t].read \in Seq(Message) /\ turn[t].summary \in Summary
       /\ turn[t].context \in Context
       /\ turn[t].unsummarised \in BOOLEAN /\ turn[t].length \in Nat /\ turn[t].blank \in BOOLEAN
  /\ restarts \in 0..MaxRestarts

\* What a run is given and what is summarised for it comes from its own
\* session, although all sessions of the process share one cache.
ContextIsOwn ==
  \A t \in Turns : turn[t].phase = "running" =>
    \A m \in Range(turn[t].context.msgs) \cup turn[t].context.covers :
      turn[m.turn].session = turn[t].session

\* An assembled context alternates between the user and the assistant, which
\* the model's provider demands, whatever rows the session has.
ContextAlternates ==
  \A t \in Turns : Assembled(t) =>
    LET msgs == turn[t].context.msgs
    IN \A i \in 2..Len(msgs) : msgs[i].role # msgs[i - 1].role

\* What the model is given is of its own session and in the order it demands,
\* whichever requests failed, were undone or shared the cache before.
ConversationSound == ConversationTypeOK /\ ContextIsOwn /\ ContextAlternates

\* A context served from the cache is the one the turn would have assembled
\* from the history it read, unless a request it does not see (one that was
\* undone or is still open) counted as many messages as it did.
ServedContextIsCurrent ==
  \A t \in Turns : Assembled(t) =>
    \/ turn[t].context = Assemble(turn[t].read, turn[t].summary)
    \/ \E u \in Turns \ {t} :
         /\ turn[u].session = turn[t].session
         /\ turn[u].length = turn[t].length
         /\ u \notin {m.turn : m \in Range(turn[t].read)}

\* Of the messages a compacted context leaves out, those that its summary
\* does not cover are fewer than the number that makes a summary due, unless
\* the summary of this turn failed: this holds when turns of one session make
\* their summaries at the same time and the last one to end is stored.
ForgottenBounded ==
  \A t \in Turns : Assembled(t) /\ turn[t].context.compacted =>
    \/ turn[t].unsummarised
    \/ Cardinality(Range(Older(turn[t].read)) \ turn[t].context.covers) < Regenerate

\* The context assembled for a request has the message of the request, one of
\* the recent messages that are to be kept verbatim.  The code does not keep
\* this: a message that follows another of the user, left by a turn that
\* failed, is dropped, and a context cached by a turn that was undone is
\* served for the next one.
RequestReachesModel ==
  \A t \in Turns : Assembled(t) =>
    t \in {m.turn : m \in Range(turn[t].context.msgs)}
=============================================================================
