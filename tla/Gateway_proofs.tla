--------------------------- MODULE Gateway_proofs ---------------------------
(***************************************************************************)
(* Proofs about Gateway, for any callers, tools, roles and environments.   *)
(***************************************************************************)
EXTENDS Gateway, TLAPS

-----------------------------------------------------------------------------
(* The scripts                                                             *)

Goes == {"next", "done", "error"}
Answers == {"found", "empty", "failed", "raised"}
Writes == {"write", "api"}

\* A script goes on only while it has steps, and goes on from a write only
\* when the write was answered.
WellFormed(s) ==
  \A i \in DOMAIN s :
    /\ i \in Nat \ {0}
    /\ s[i].op = "exchange" => s[i].found = Done
    /\ \A a \in Answers :
         /\ s[i][a] \subseteq Goes
         /\ "next" \in s[i][a] => i + 1 \in DOMAIN s
         /\ "next" \in s[i][a] /\ s[i].op \in Writes => a \in {"found", "empty"}

\* A script that is done has no write left, and the last one was answered.
DoneAfterWrites(s) ==
  \A i \in DOMAIN s : \A a \in Answers :
    "done" \in s[i][a] => /\ s[i].op \in Writes => a \in {"found", "empty"}
                          /\ \A j \in DOMAIN s : j > i => s[j].op \notin Writes

\* Of a handler's script, by the tool.
ScriptOK(tool) ==
  LET s == ToolTable[tool].script
  IN /\ 1 \in DOMAIN s
     /\ WellFormed(s)
     /\ tool \notin {"create_admin_user", "call_api"} => DoneAfterWrites(s)

LEMMA Scripts == \A tool \in DOMAIN ToolTable : ScriptOK(tool)
<1> DEFINE Fit(s)  == 1 \in DOMAIN s /\ WellFormed(s)
           Good(s) == Fit(s) /\ DoneAfterWrites(s)
<1>1. /\ Good(CreateClub) /\ Good(GetClubByName) /\ Good(VerifyClubSetup)
      /\ Fit(CreateAdminUser) /\ Good(AuthenticateClub)
      /\ Good(CallInternalApi) /\ Good(GetClubConfig) /\ Good(ListRoutes)
      /\ Good(RunSql) /\ Good(GetConfig) /\ Good(GetSchema) /\ Fit(CallApi)
      /\ Good(UpdateConfiguration) /\ Good(CreateVisitorGreenFee) /\ Good(CreateBooking)
      /\ Good(CreateCasualBookingRule) /\ Good(UpdateCasualBookingRule) /\ Good(Unusable)
  <2> USE DEF WellFormed, DoneAfterWrites, Goes, Answers, Writes, Step, Next1, Done,
              Error, Query, Write, Http, ClubHttp, Api
  <2>1. Good(CreateClub)        BY DEF CreateClub
  <2>2. Good(GetClubByName)     BY DEF GetClubByName
  <2>3. Good(VerifyClubSetup)   BY DEF VerifyClubSetup
  <2>4. Fit(CreateAdminUser)    BY DEF CreateAdminUser
  <2>5. Good(AuthenticateClub)  BY DEF AuthenticateClub, RetrieveOauthCredentials
  <2>6. Good(CallInternalApi)   BY DEF CallInternalApi
  <2>7. Good(GetClubConfig) /\ Good(ListRoutes)  BY DEF GetClubConfig, ListRoutes
  <2>8. Good(RunSql) /\ Good(GetConfig) /\ Good(GetSchema)  BY DEF RunSql, GetConfig, GetSchema
  <2>9. Fit(CallApi)  BY DEF CallApi
  <2>10. /\ Good(UpdateConfiguration) /\ Good(CreateVisitorGreenFee) /\ Good(CreateBooking)
    BY DEF UpdateConfiguration, CreateVisitorGreenFee, CreateBooking
  <2>11. Good(CreateCasualBookingRule)
    BY DEF CreateCasualBookingRule, CheckCourse, ResolveClubDatabase
  <2>12. Good(UpdateCasualBookingRule)
    BY DEF UpdateCasualBookingRule, CheckCourse, ResolveClubDatabase
  <2>13. Good(Unusable)  BY DEF Unusable
  <2> HIDE DEF Good, Fit
  <2> QED  BY <2>1, <2>2, <2>3, <2>4, <2>5, <2>6, <2>7, <2>8, <2>9, <2>10, <2>11, <2>12, <2>13
<1> HIDE DEF Good, Fit
<1>2. \A tool \in DOMAIN ToolTable \ {"create_admin_user", "call_api"} :
        Good(ToolTable[tool].script)
  BY <1>1 DEF ToolTable, Tool, GetWorkingMemory, UpdateWorkingMemory, StoreSessionSummary,
              GetHistoricalContext
<1>3. /\ Fit(ToolTable["create_admin_user"].script)
      /\ Fit(ToolTable["call_api"].script)
  BY <1>1 DEF ToolTable, Tool
<1> QED  BY <1>2, <1>3 DEF ScriptOK, Good, Fit

\* The three commands of create_admin_user: only a look-up that found the
\* address, or the read after an insert that was answered, ends in success.
LEMMA AdminScript ==
  LET s == ToolTable["create_admin_user"].script
  IN /\ DOMAIN s = 1..3
     /\ s[1].op = "query" /\ s[2].op = "write" /\ s[3].op = "query"
     /\ \A i \in 1..2, a \in Answers : "done" \in s[i][a] => i = 1 /\ a = "found"
<1>1. ToolTable["create_admin_user"].script = CreateAdminUser
  BY DEF ToolTable, Tool
<1>2. CreateAdminUser = <<Step("query", Done, Next1, Next1, Error),
                          Step("write", Next1, Next1, Error, Error),
                          Step("query", Done, Done, Done, Error)>>
  BY DEF CreateAdminUser, Query, Write
<1> QED  BY <1>1, <1>2 DEF Step, Answers, Done, Next1, Error

-----------------------------------------------------------------------------
(* The inductive invariant                                                 *)

Calls == [tool : Tools, ref : References]

\* The types of the variables, without the part of TypeOK about the handlers.
Typed ==
  /\ env \in Deployments
  /\ call \in [Requests -> Calls \cup {NoCall}]
  /\ audit \in [Requests -> Outcomes]
  /\ step \in [Requests -> Nat]
  /\ phase \in [Requests -> Phases]
  /\ carried \in [Requests -> Token \cup {NoToken}]
  /\ active \subseteq Requests \X Nat
  /\ effects \subseteq Requests \X Nat
  /\ redirected \subseteq Requests \X Nat
  /\ pending \subseteq Requests
  /\ tokens \in [TokenKeys -> Nat]
  /\ issued \in [TokenKeys -> Nat]
  /\ dropped \in [TokenKeys -> Nat]
  /\ lock \in Requests \cup {NoHolder}
  /\ clubs \in {"empty", "fresh", "stale"}
  /\ rejected \subseteq Token

\* A request is at a step of its script just while its audit record is open.
HandlerOK(r) ==
  /\ Open(r) => call[r] \in Calls /\ step[r] \in DOMAIN Script(r)
  /\ ~Open(r) => step[r] = 0
  /\ phase[r] = "idle" <=> ~Open(r)
  /\ audit[r] = "none" => call[r] = NoCall

HandlerInv == \A r \in Requests : HandlerOK(r)

\* One token was issued for each that was dropped, and the one in the cache.
TokenInv ==
  \A k \in TokenKeys :
    /\ issued[k] = dropped[k] + (IF tokens[k] = 0 THEN 0 ELSE 1)
    /\ tokens[k] <= issued[k]

\* What is carried is for the club of the call, or for the static key.
KeyOK(r) ==
  /\ carried[r][1] \in TokenKeys
  /\ Current(r).op = "club_http" => carried[r][1] \in {call[r].ref, "static"}

\* Who exchanges has the lock, and there is still no token for it.
LockInv ==
  /\ lock # NoHolder => phase[lock] = "exchange"
  /\ \A r \in Requests :
       /\ phase[r] \in {"lock", "exchange"} => KeyOK(r)
       /\ phase[r] = "exchange" => lock = r /\ tokens[carried[r][1]] = 0

\* A token in a header was issued.
CarriedInv ==
  \A r \in Requests : phase[r] = "waiting" /\ carried[r] # NoToken =>
    KeyOK(r) /\ 1 <= carried[r][2] /\ carried[r][2] <= issued[carried[r][1]]

RejectInv ==
  /\ RejectedClubTokenDropped
  /\ \A token \in rejected : 1 <= token[2] /\ token[2] <= issued[token[1]]

\* A write that counts as done: it happened, or its request was redirected.
Settled(r, i) ==
  \/ <<r, i>> \in effects
  \/ Op(r, i) = "api" /\ <<r, i>> \in redirected

\* The writes of the steps a handler has behind it are settled.
DoneInv ==
  \A r \in Requests : Open(r) =>
    \A i \in DOMAIN Script(r) : i < step[r] /\ IsWrite(r, i) => Settled(r, i)

IInv == /\ Typed
        /\ HandlerInv
        /\ TokenInv
        /\ LockInv
        /\ CarriedInv
        /\ RejectInv
        /\ DoneInv
        /\ SuccessMeansDone

LEMMA CallOK ==
  ASSUME NEW c \in Calls
  PROVE  ScriptOK(c.tool) /\ c # NoCall /\ c.tool \in Tools
<1>1. c.tool \in Tools /\ Tools \subseteq DOMAIN ToolTable
  BY ToolsAssumption DEF Calls
<1>2. "none" \notin DOMAIN ToolTable
  BY DEF ToolTable
<1> QED  BY <1>1, <1>2, Scripts DEF NoCall

\* What TypeOK says beside the types follows from the handlers' invariant.
LEMMA Types == Typed /\ HandlerInv => TypeOK
<1> SUFFICES ASSUME Typed, HandlerInv  PROVE TypeOK
  OBVIOUS
<1>1. \A r \in Requests : Open(r) <=> (call[r] # NoCall /\ step[r] \in DOMAIN Script(r))
  <2> TAKE r \in Requests
  <2>1. HandlerOK(r) /\ call[r] \in Calls \cup {NoCall}
    BY DEF HandlerInv, Typed
  <2>2. CASE Open(r)
    BY <2>1, <2>2, CallOK DEF HandlerOK
  <2>3. CASE ~Open(r) /\ call[r] # NoCall
    <3>1. call[r] \in Calls /\ step[r] = 0
      BY <2>1, <2>3 DEF HandlerOK
    <3>2. WellFormed(Script(r))
      BY <3>1, CallOK DEF ScriptOK, Script
    <3> QED  BY <3>1, <3>2, <2>3 DEF WellFormed
  <2>4. CASE ~Open(r) /\ call[r] = NoCall
    BY <2>4
  <2> QED  BY <2>2, <2>3, <2>4
<1> QED  BY <1>1 DEF TypeOK, Typed, Calls

\* A handler that is about something has a call and is at a step of it.
LEMMA Busy ==
  ASSUME Typed, HandlerInv, NEW r \in Requests, phase[r] # "idle"
  PROVE  /\ Open(r)
         /\ call[r] \in Calls
         /\ step[r] \in DOMAIN Script(r)
         /\ ScriptOK(call[r].tool)
<1>1. HandlerOK(r)
  BY DEF HandlerInv
<1> QED  BY <1>1, CallOK DEF HandlerOK

\* Where a handler may go on to when it does with goes.
Fits(r, goes) == goes \subseteq Goes /\ ("next" \in goes => step[r] + 1 \in DOMAIN Script(r))

LEMMA AnswerFits ==
  ASSUME Typed, HandlerInv, NEW r \in Requests, phase[r] # "idle", NEW a \in Answers
  PROVE  Fits(r, Current(r)[a])
<1>1. /\ step[r] \in DOMAIN Script(r)
      /\ WellFormed(Script(r))
  BY Busy DEF ScriptOK, Script
<1> QED  BY <1>1 DEF WellFormed, Fits, Current

-----------------------------------------------------------------------------
(* The handlers                                                            *)

HandlerTyped ==
  /\ call \in [Requests -> Calls \cup {NoCall}]
  /\ audit \in [Requests -> Outcomes]
  /\ step \in [Requests -> Nat]
  /\ phase \in [Requests -> Phases]
  /\ carried \in [Requests -> Token \cup {NoToken}]
  /\ HandlerInv

\* A handler whose call, record and step are as they were is as right as it was.
LEMMA HandlerStays ==
  ASSUME NEW r, HandlerOK(r), call'[r] = call[r], audit'[r] = audit[r], step'[r] = step[r],
         phase'[r] = "idle" <=> phase[r] = "idle"
  PROVE  HandlerOK(r)'
BY DEF HandlerOK, Open, Script

LEMMA ProceedTyped ==
  ASSUME Typed, HandlerInv, NEW r \in Requests, phase[r] # "idle",
         NEW goes, Fits(r, goes), Proceed(r, goes), UNCHANGED call
  PROVE  HandlerTyped'
<1>1. PICK g \in goes :
        /\ step' = [step EXCEPT ![r] = IF g = "next" THEN @ + 1 ELSE 0]
        /\ phase' = [phase EXCEPT ![r] = IF g = "next" THEN "ready" ELSE "idle"]
        /\ carried' = [carried EXCEPT ![r] = NoToken]
        /\ audit' = CASE g = "next"  -> audit
                      [] g = "done"  -> [audit EXCEPT ![r] = "success"]
                      [] g = "error" -> [audit EXCEPT ![r] = "failed"]
  BY DEF Proceed
<1>2. g \in Goes /\ (g = "next" => step[r] + 1 \in DOMAIN Script(r))
  BY DEF Fits
<1>3. /\ call' \in [Requests -> Calls \cup {NoCall}]
      /\ audit' \in [Requests -> Outcomes]
      /\ step' \in [Requests -> Nat]
      /\ phase' \in [Requests -> Phases]
      /\ carried' \in [Requests -> Token \cup {NoToken}]
  BY <1>1, <1>2 DEF Typed, Outcomes, Phases, Goes
<1>4. HandlerOK(r)'
  <2>1. Open(r) /\ call[r] \in Calls
    BY Busy
  <2>2. CASE g = "next"
    BY <1>1, <1>2, <2>1, <2>2 DEF Typed, HandlerOK, Open, Script
  <2>3. CASE g # "next"
    BY <1>1, <1>2, <2>1, <2>3 DEF Typed, HandlerOK, Open, Script, Goes, Outcomes
  <2> QED  BY <2>2, <2>3
<1>5. \A q \in Requests \ {r} : HandlerOK(q)'
  <2> TAKE q \in Requests \ {r}
  <2>1. HandlerOK(q)
    BY DEF HandlerInv
  <2>2. /\ call'[q] = call[q] /\ audit'[q] = audit[q]
        /\ step'[q] = step[q] /\ phase'[q] = phase[q]
    BY <1>1, <1>2 DEF Typed, Goes
  <2> QED  BY <2>1, <2>2, HandlerStays
<1> QED  BY <1>3, <1>4, <1>5 DEF HandlerTyped, HandlerInv

\* Its step is begun, or it waits for the token's lock or for the exchange.
LEMMA MovesTyped ==
  ASSUME Typed, HandlerInv, NEW r \in Requests, phase[r] # "idle",
         NEW p \in Phases \ {"idle"}, phase' = [phase EXCEPT ![r] = p],
         NEW t \in Token \cup {NoToken}, carried' = [carried EXCEPT ![r] = t],
         UNCHANGED <<call, audit, step>>
  PROVE  HandlerTyped'
<1>1. \A q \in Requests : HandlerOK(q)'
  <2> TAKE q \in Requests
  <2>1. HandlerOK(q)
    BY DEF HandlerInv
  <2>2. phase'[q] = "idle" <=> phase[q] = "idle"
    BY DEF Typed
  <2> QED  BY <2>1, <2>2, HandlerStays
<1> QED  BY <1>1 DEF HandlerTyped, HandlerInv, Typed

LEMMA SameTyped ==
  ASSUME Typed, HandlerInv, UNCHANGED <<call, audit, step, phase, carried>>
  PROVE  HandlerTyped'
<1>1. \A q \in Requests : HandlerOK(q)'
  BY HandlerStays DEF HandlerInv
<1> QED  BY <1>1 DEF HandlerTyped, HandlerInv, Typed

\* A token in hand: the exchange is over or the request goes out.
LEMMA GoOnTyped ==
  ASSUME Typed, HandlerInv, NEW r \in Requests, phase[r] # "idle",
         NEW t \in Token \cup {NoToken}, GoOnWith(r, t), UNCHANGED call
  PROVE  HandlerTyped' /\ active' \subseteq Requests \X Nat
<1>1. CASE Current(r).op = "exchange"
  <2>1. Proceed(r, Done) /\ UNCHANGED active
    BY <1>1 DEF GoOnWith
  <2>2. Fits(r, Done)
    BY DEF Fits, Done, Goes
  <2> QED  BY <2>1, <2>2, ProceedTyped DEF Typed
<1>2. CASE Current(r).op # "exchange"
  <2>1. Begin(r, t)
    BY <1>2 DEF GoOnWith
  <2>2. HandlerTyped'
    BY <2>1, MovesTyped DEF Begin, Phases
  <2> QED  BY <2>1, <2>2 DEF Begin, Typed
<1> QED  BY <1>1, <1>2

\* What a handler carries to a cached token's key is a token.
LEMMA CachedToken ==
  ASSUME Typed, NEW k \in TokenKeys, NEW n \in Nat
  PROVE  <<k, n>> \in Token \cup {NoToken}
BY DEF Token

LEMMA TokenKeyOK ==
  ASSUME Typed, NEW r \in Requests, call[r] \in Calls, TokenKey(r) # NoKey
  PROVE  /\ TokenKey(r) \in TokenKeys
         /\ Current(r).op = "club_http" => TokenKey(r) \in {call[r].ref, "static"}
<1>1. call[r].ref \in References
  BY DEF Calls
<1> QED  BY <1>1 DEF TokenKey, ApiKey, TokenKeys, References, NoKey

\* A command ends or a request is answered, and no token is refused.
Ends(r, i) == CommandEnds(r, i) \/ RequestAnswered(r, i) \/ RequestRedirected(r, i)

LEMMA InitTyped == Init => Typed /\ HandlerInv
<1> SUFFICES ASSUME Init  PROVE Typed /\ HandlerInv
  OBVIOUS
<1>1. Typed
  BY DEF Init, Typed, Outcomes, Phases
<1>2. HandlerInv
  BY DEF Init, HandlerInv, HandlerOK, Open
<1> QED  BY <1>1, <1>2

\* Every step keeps the types and the handlers at steps of their scripts.
LEMMA TypedStep == Typed /\ HandlerInv /\ LockInv /\ [Next]_vars => Typed' /\ HandlerInv'
<1> SUFFICES ASSUME Typed, HandlerInv, LockInv, [Next]_vars  PROVE Typed' /\ HandlerInv'
  OBVIOUS
<1>a. ASSUME HandlerTyped', env' = env, active' \subseteq Requests \X Nat,
             effects' \subseteq Requests \X Nat, redirected' \subseteq Requests \X Nat,
             pending' \subseteq Requests,
             tokens' \in [TokenKeys -> Nat], issued' \in [TokenKeys -> Nat],
             dropped' \in [TokenKeys -> Nat], lock' \in Requests \cup {NoHolder},
             clubs' \in {"empty", "fresh", "stale"}, rejected' \subseteq Token
      PROVE  Typed' /\ HandlerInv'
  BY <1>a DEF Typed, HandlerTyped
<1>b. ASSUME HandlerTyped', UNCHANGED <<env, pending, tokens, issued, dropped, rejected>>,
             active' \subseteq Requests \X Nat, effects' \subseteq Requests \X Nat,
             redirected' \subseteq Requests \X Nat,
             lock' \in Requests \cup {NoHolder}, clubs' \in {"empty", "fresh", "stale"}
      PROVE  Typed' /\ HandlerInv'
  BY <1>a, <1>b DEF Typed
<1>1. ASSUME NEW r \in Requests, Receive(r)  PROVE Typed' /\ HandlerInv'
  <2>1. PICK tool \in Tools, ref \in References, role \in Roles, valid \in BOOLEAN :
          Process(r, tool, ref, Admission(ToolTable[tool], role, valid))
    BY <1>1 DEF Receive
  <2> DEFINE o == Admission(ToolTable[tool], role, valid)
             c == [tool |-> tool, ref |-> ref]
  <2>2. o \in Refusals \cup {"open"}
    BY DEF Admission, Refusals
  <2>3. c \in Calls
    BY DEF Calls
  <2> HIDE DEF o, c
  <2>4. /\ audit' = [audit EXCEPT ![r] = o]
        /\ call' = [call EXCEPT ![r] = IF o = "open" THEN c ELSE NoCall]
        /\ step' = [step EXCEPT ![r] = IF o = "open" THEN 1 ELSE 0]
        /\ phase' = [phase EXCEPT ![r] = IF o = "open" THEN "ready" ELSE "idle"]
        /\ pending' \subseteq Requests
        /\ carried' = carried
    BY <1>1, <2>1 DEF Process, RequireApproval, Receive, o, c, handler, Typed
  <2>5. HandlerOK(r)'
    <3>1. 1 \in DOMAIN ToolTable[c.tool].script
      BY <2>3, CallOK DEF ScriptOK
    <3>2. CASE o = "open"
      BY <2>3, <2>4, <3>1, <3>2 DEF HandlerOK, Open, Script, Typed
    <3>3. CASE o # "open"
      BY <2>2, <2>4, <3>3 DEF HandlerOK, Open, Typed, Refusals
    <3> QED  BY <3>2, <3>3
  <2>6. \A q \in Requests \ {r} : HandlerOK(q)'
    BY <2>4, HandlerStays DEF HandlerInv, Typed
  <2>7. HandlerTyped'
    BY <2>2, <2>3, <2>4, <2>5, <2>6 DEF HandlerTyped, HandlerInv, Typed, Outcomes, Phases, Refusals
  <2> QED  BY <1>1, <2>4, <2>7, <1>a DEF Receive, Typed, world, cache
<1>2. ASSUME NEW r \in Requests, CannotBegin(r) \/ StopsWaiting(r)  PROVE Typed' /\ HandlerInv'
  <2>1. /\ phase[r] # "idle"
        /\ Proceed(r, Current(r).raised)
        /\ UNCHANGED <<env, call, world, pending, cache, clubs, rejected>>
    BY <1>2 DEF CannotBegin, StopsWaiting
  <2>2. Fits(r, Current(r).raised)
    BY <2>1, AnswerFits DEF Answers
  <2>3. HandlerTyped'
    BY <2>1, <2>2, ProceedTyped
  <2> QED  BY <2>1, <2>3, <1>b DEF Typed, world, cache
<1>3. ASSUME NEW r \in Requests, BeginCommand(r)  PROVE Typed' /\ HandlerInv'
  <2>1. phase[r] # "idle" /\ Begin(r, NoToken)
    BY <1>3 DEF BeginCommand, AtStep
  <2>2. HandlerTyped'
    BY <1>3, <2>1, MovesTyped DEF BeginCommand, Begin, Phases
  <2> QED  BY <1>3, <2>1, <2>2, <1>b DEF BeginCommand, Begin, Typed, cache
<1>4. ASSUME NEW r \in Requests, UseClubCache(r)  PROVE Typed' /\ HandlerInv'
  <2>1. phase[r] # "idle" /\ Proceed(r, Current(r).found \cup Current(r).empty)
    BY <1>4 DEF UseClubCache, AtStep
  <2>2. Fits(r, Current(r).found) /\ Fits(r, Current(r).empty)
    BY <2>1, AnswerFits DEF Answers
  <2>3. Fits(r, Current(r).found \cup Current(r).empty)
    BY <2>2 DEF Fits
  <2>4. HandlerTyped'
    BY <1>4, <2>1, <2>3, ProceedTyped DEF UseClubCache
  <2> QED  BY <1>4, <2>4, <1>b DEF UseClubCache, Typed, world, cache
<1>5. ASSUME NEW r \in Requests, SeekToken(r)  PROVE Typed' /\ HandlerInv'
  <2> DEFINE k == TokenKey(r)
  <2>1. phase[r] # "idle" /\ call[r] \in Calls
    BY <1>5, Busy DEF SeekToken, AtStep
  <2>2. CASE k = NoKey
    <3>1. GoOnWith(r, NoToken)
      BY <1>5, <2>2 DEF SeekToken
    <3> QED  BY <1>5, <2>1, <3>1, GoOnTyped, <1>b DEF SeekToken, Typed, cache
  <2>3. CASE k # NoKey /\ Cached(k)
    <3>1. GoOnWith(r, <<k, tokens[k]>>) /\ <<k, tokens[k]>> \in Token
      BY <1>5, <2>1, <2>3, TokenKeyOK DEF SeekToken, Typed, Token
    <3> QED  BY <1>5, <2>1, <3>1, GoOnTyped, <1>b DEF SeekToken, Typed, cache
  <2>4. CASE k # NoKey /\ ~Cached(k)
    <3>1. <<k, 0>> \in Token
      BY <2>1, <2>4, TokenKeyOK DEF Token
    <3>2. HandlerTyped'
      BY <1>5, <2>1, <2>4, <3>1, MovesTyped DEF SeekToken, Phases
    <3> QED  BY <1>5, <2>4, <3>2, <1>b DEF SeekToken, Typed, cache
  <2> QED  BY <2>2, <2>3, <2>4
<1>6. ASSUME NEW r \in Requests, TakeLock(r)  PROVE Typed' /\ HandlerInv'
  <2> DEFINE k == carried[r][1]
  <2>1. phase[r] # "idle" /\ k \in TokenKeys
    BY <1>6 DEF TakeLock, LockInv, KeyOK
  <2>2. CASE Cached(k)
    <3>1. GoOnWith(r, <<k, tokens[k]>>) /\ <<k, tokens[k]>> \in Token
      BY <1>6, <2>1, <2>2 DEF TakeLock, Typed, Token
    <3> QED  BY <1>6, <2>1, <2>2, <3>1, GoOnTyped, <1>b DEF TakeLock, Typed
  <2>3. CASE ~Cached(k)
    <3>1. carried' = [carried EXCEPT ![r] = carried[r]] /\ carried[r] \in Token \cup {NoToken}
      BY <1>6, <2>3 DEF TakeLock, Typed
    <3>2. HandlerTyped'
      BY <1>6, <2>1, <2>3, <3>1, MovesTyped DEF TakeLock, Phases
    <3> QED  BY <1>6, <2>3, <3>2, <1>b DEF TakeLock, Typed
  <2> QED  BY <2>2, <2>3
<1>7. ASSUME NEW r \in Requests, ExchangeSucceeds(r)  PROVE Typed' /\ HandlerInv'
  <2> DEFINE k == carried[r][1]
             n == issued[k] + 1
  <2>1. phase[r] # "idle" /\ k \in TokenKeys
    BY <1>7 DEF ExchangeSucceeds, LockInv, KeyOK
  <2>2. n \in Nat /\ <<k, n>> \in Token
    BY <2>1 DEF Typed, Token
  <2>3. /\ issued' = [issued EXCEPT ![k] = n] /\ tokens' = [tokens EXCEPT ![k] = n]
        /\ GoOnWith(r, <<k, n>>)
    BY <1>7 DEF ExchangeSucceeds
  <2>4. issued' \in [TokenKeys -> Nat] /\ tokens' \in [TokenKeys -> Nat]
    BY <2>2, <2>3 DEF Typed
  <2> HIDE DEF k, n
  <2>5. HandlerTyped' /\ active' \subseteq Requests \X Nat
    BY <1>7, <2>1, <2>2, <2>3, GoOnTyped DEF ExchangeSucceeds
  <2> QED  BY <1>7, <2>4, <2>5, <1>a DEF ExchangeSucceeds, Typed
<1>8. ASSUME NEW r \in Requests, ExchangeFails(r)  PROVE Typed' /\ HandlerInv'
  BY <1>8, GoOnTyped, <1>b DEF ExchangeFails, Typed
<1>9. ASSUME NEW r \in Requests, ToolTimesOut(r)  PROVE Typed' /\ HandlerInv'
  <2>1. HandlerOK(r)'
    BY <1>9 DEF ToolTimesOut, HandlerOK, Open, Typed
  <2>2. \A q \in Requests \ {r} : HandlerOK(q)'
    BY <1>9, HandlerStays DEF ToolTimesOut, HandlerInv, Typed
  <2>3. HandlerTyped'
    BY <1>9, <2>1, <2>2 DEF ToolTimesOut, HandlerTyped, HandlerInv, Typed, Outcomes, Phases
  <2> QED  BY <1>9, <2>3, <1>b DEF ToolTimesOut, Typed, world
<1>10. ASSUME NEW p \in active, Ends(p[1], p[2])  PROVE Typed' /\ HandlerInv'
  <2> DEFINE r == p[1]
             i == p[2]
  <2>1. r \in Requests /\ i \in Nat
    BY DEF Typed
  <2> HIDE DEF r, i
  <2>2. PICK answer \in {"found", "empty", "failed"} :
          /\ effects' \in {effects, effects \cup {<<r, i>>}}
          /\ redirected' \in {redirected, redirected \cup {<<r, i>>}}
          /\ clubs' \in {"fresh", clubs}
          /\ \/ Awaited(r, i) /\ Proceed(r, Current(r)[answer])
             \/ UNCHANGED <<audit, handler>>
    <3>1. CASE CommandEnds(r, i)
      BY <3>1 DEF CommandEnds, AnswersOf, TakesEffect
    <3>2. CASE RequestAnswered(r, i)
      BY <3>2 DEF RequestAnswered, TakesEffect
    <3>3. CASE RequestRedirected(r, i)
      BY <3>3 DEF RequestRedirected, TakesEffect
    <3> QED  BY <1>10, <3>1, <3>2, <3>3 DEF Ends, r, i
  <2>3. HandlerTyped'
    <3>1. CASE Awaited(r, i) /\ Proceed(r, Current(r)[answer])
      <4>1. phase[r] # "idle"
        BY <3>1 DEF Awaited
      <4> QED  BY <1>10, <2>1, <3>1, <4>1, AnswerFits, ProceedTyped
               DEF Answers, Ends, CommandEnds, RequestAnswered, RequestRedirected
    <3>2. CASE UNCHANGED <<audit, handler>>
      BY <1>10, <3>2, SameTyped DEF handler, Ends, CommandEnds, RequestAnswered, RequestRedirected
    <3> QED  BY <2>2, <3>1, <3>2
  <2>4. effects' \subseteq Requests \X Nat /\ redirected' \subseteq Requests \X Nat
    BY <2>1, <2>2 DEF Typed
  <2>5. active' \subseteq Requests \X Nat /\ clubs' \in {"empty", "fresh", "stale"}
    BY <1>10, <2>2 DEF Ends, CommandEnds, RequestAnswered, RequestRedirected, Typed
  <2> QED  BY <1>10, <2>3, <2>4, <2>5, <1>b
           DEF Ends, CommandEnds, RequestAnswered, RequestRedirected, Typed, cache
<1>11. ASSUME NEW p \in active, RequestRefused(p[1], p[2])  PROVE Typed' /\ HandlerInv'
  <2> DEFINE r == p[1]
             i == p[2]
  <2>1. r \in Requests /\ i \in Nat
    BY DEF Typed
  <2> HIDE DEF r, i
  <2>2. RequestRefused(r, i)
    BY <1>11 DEF r, i
  <2>3. CASE Awaited(r, i)
    <3>1. phase[r] # "idle" /\ Proceed(r, Current(r).failed)
      BY <2>2, <2>3 DEF RequestRefused, Awaited
    <3>2. Fits(r, Current(r).failed)
      BY <2>1, <3>1, AnswerFits DEF Answers
    <3>3. HandlerTyped'
      BY <2>1, <2>2, <3>1, <3>2, ProceedTyped DEF RequestRefused
    <3>4. Op(r, i) \in {"http", "club_http", "api"}
      BY <2>2 DEF RequestRefused
    <3>5. PICK ks : Drop(ks)
      BY <2>2, <2>3, <3>4 DEF RequestRefused
    <3>6. tokens' \in [TokenKeys -> Nat] /\ dropped' \in [TokenKeys -> Nat]
      BY <3>5 DEF Drop, Typed
    <3>7. rejected' \subseteq Token
      <4>1. carried[r] # NoToken => carried[r] \in Token
        BY <2>1 DEF Typed
      <4> QED  BY <2>2, <2>3, <4>1 DEF RequestRefused, Typed
    <3> QED  BY <2>2, <3>3, <3>6, <3>7, <1>a DEF RequestRefused, Typed
  <2>4. CASE ~Awaited(r, i)
    <3>1. HandlerTyped'
      BY <2>2, <2>4, SameTyped DEF RequestRefused, handler
    <3> QED  BY <2>2, <2>4, <3>1, <1>b DEF RequestRefused, Typed
  <2> QED  BY <2>3, <2>4
<1>12. ASSUME NEW k \in TokenKeys, TokenExpires(k)  PROVE Typed' /\ HandlerInv'
  <2>1. HandlerTyped'
    BY <1>12, SameTyped DEF TokenExpires, handler
  <2>2. tokens' \in [TokenKeys -> Nat] /\ dropped' \in [TokenKeys -> Nat]
    BY <1>12 DEF TokenExpires, Drop, Typed
  <2> QED  BY <1>12, <2>1, <2>2, <1>a DEF TokenExpires, Typed, world
<1>13. ASSUME ClubCacheExpires \/ UNCHANGED vars  PROVE Typed' /\ HandlerInv'
  <2>1. HandlerTyped'
    BY <1>13, SameTyped DEF ClubCacheExpires, vars, handler
  <2>2. clubs' \in {"empty", "fresh", "stale"}
    BY <1>13 DEF ClubCacheExpires, vars, Typed
  <2> QED  BY <1>13, <2>1, <2>2, <1>b DEF ClubCacheExpires, vars, world, cache, Typed
<1> QED  BY <1>1, <1>2, <1>3, <1>4, <1>5, <1>6, <1>7, <1>8, <1>9, <1>10, <1>11, <1>12, <1>13
         DEF Next, Handle, Elsewhere, Ends

-----------------------------------------------------------------------------
(* The tokens                                                              *)

LEMMA DropTokens ==
  ASSUME Typed, TokenInv, NEW ks, Drop(ks), UNCHANGED issued
  PROVE  TokenInv'
BY DEF Typed, TokenInv, Drop, Cached

\* Only an exchange, which starts without a token, adds one; what leaves the
\* cache is counted.
LEMMA TokenStep == Typed /\ LockInv /\ TokenInv /\ [Next]_vars => TokenInv'
<1> SUFFICES ASSUME Typed, LockInv, TokenInv, [Next]_vars  PROVE TokenInv'
  OBVIOUS
<1>1. CASE UNCHANGED <<tokens, issued, dropped>>
  BY <1>1 DEF TokenInv
<1>2. ASSUME NEW r \in Requests, ExchangeSucceeds(r)  PROVE TokenInv'
  <2> DEFINE k == carried[r][1]
  <2>1. k \in TokenKeys /\ tokens[k] = 0
    BY <1>2 DEF ExchangeSucceeds, LockInv, KeyOK
  <2>2. /\ issued' = [issued EXCEPT ![k] = issued[k] + 1]
        /\ tokens' = [tokens EXCEPT ![k] = issued[k] + 1]
        /\ dropped' = dropped
    BY <1>2 DEF ExchangeSucceeds
  <2> HIDE DEF k
  <2> QED  BY <2>1, <2>2 DEF Typed, TokenInv
<1>3. ASSUME NEW p \in active, RequestRefused(p[1], p[2])  PROVE TokenInv'
  <2>1. CASE Awaited(p[1], p[2])
    <3>1. PICK ks : Drop(ks)
      BY <1>3, <2>1 DEF RequestRefused
    <3> QED  BY <1>3, <3>1, DropTokens DEF RequestRefused
  <2>2. CASE ~Awaited(p[1], p[2])
    BY <1>3, <2>2, <1>1 DEF RequestRefused
  <2> QED  BY <2>1, <2>2
<1>4. ASSUME NEW k \in TokenKeys, TokenExpires(k)  PROVE TokenInv'
  BY <1>4, DropTokens DEF TokenExpires
<1> QED  BY <1>1, <1>2, <1>3, <1>4
         DEF Next, Handle, Elsewhere, Receive, CannotBegin, BeginCommand, UseClubCache,
             StopsWaiting, SeekToken, TakeLock, ExchangeFails, ToolTimesOut, CommandEnds,
             RequestAnswered, RequestRedirected, ClubCacheExpires, cache, vars

\* A handler that goes on is neither at the lock, exchanging nor waiting.
LEMMA ProceedPhase ==
  ASSUME Typed, NEW r \in Requests, NEW goes, Proceed(r, goes)
  PROVE  /\ phase'[r] \in {"ready", "idle"}
         /\ \A q \in Requests \ {r} : /\ phase'[q] = phase[q] /\ carried'[q] = carried[q]
                                      /\ step'[q] = step[q]
BY DEF Proceed, Typed

LEMMA GoOnPhase ==
  ASSUME Typed, NEW r \in Requests, NEW t, GoOnWith(r, t)
  PROVE  /\ phase'[r] \in {"ready", "idle", "waiting"}
         /\ phase'[r] = "waiting" => carried'[r] = t /\ step'[r] = step[r]
         /\ \A q \in Requests \ {r} : /\ phase'[q] = phase[q] /\ carried'[q] = carried[q]
                                      /\ step'[q] = step[q]
BY ProceedPhase DEF GoOnWith, Begin, Typed

\* What the invariants about the tokens ask of one handler.
TokenOK(r) ==
  /\ phase[r] \in {"lock", "exchange"} => KeyOK(r)
  /\ phase[r] = "exchange" => lock = r /\ tokens[carried[r][1]] = 0
  /\ phase[r] = "waiting" /\ carried[r] # NoToken =>
       KeyOK(r) /\ 1 <= carried[r][2] /\ carried[r][2] <= issued[carried[r][1]]

LEMMA KeyStays ==
  ASSUME NEW r, KeyOK(r), carried'[r] = carried[r], call'[r] = call[r], step'[r] = step[r]
  PROVE  KeyOK(r)'
BY DEF KeyOK, Current, Script

\* A handler a step is not about: the tokens may only be more, be dropped or,
\* by who has the lock, be exchanged.
LEMMA TokenStays ==
  ASSUME Typed, Typed', NEW q \in Requests, TokenOK(q),
         phase'[q] = phase[q], carried'[q] = carried[q], step'[q] = step[q],
         phase[q] # "idle" => call'[q] = call[q],
         \A k \in TokenKeys : issued[k] <= issued'[k],
         phase[q] = "exchange" => lock' = lock /\ \A k \in TokenKeys : tokens'[k] \in {0, tokens[k]}
  PROVE  TokenOK(q)'
<1>1. phase[q] \in {"lock", "exchange", "waiting"} /\ KeyOK(q) => KeyOK(q)'
  BY KeyStays
<1>2. CASE phase[q] \in {"lock", "exchange"}
  BY <1>1, <1>2 DEF TokenOK, KeyOK
<1>3. CASE phase[q] = "waiting" /\ carried[q] # NoToken
  <2>1. /\ KeyOK(q) /\ KeyOK(q)' /\ carried[q][1] \in TokenKeys
        /\ carried[q][2] <= issued[carried[q][1]] /\ 1 <= carried[q][2]
    BY <1>1, <1>3 DEF TokenOK, KeyOK
  <2>2. issued[carried[q][1]] \in Nat /\ issued'[carried[q][1]] \in Nat /\ carried[q][2] \in Nat
    BY <1>3, <2>1 DEF Typed, Token
  <2> QED  BY <1>3, <2>1, <2>2 DEF TokenOK
<1>4. CASE phase[q] \notin {"lock", "exchange"} /\ ~(phase[q] = "waiting" /\ carried[q] # NoToken)
  BY <1>4 DEF TokenOK
<1> QED  BY <1>2, <1>3, <1>4

LockPart == lock # NoHolder => phase[lock] = "exchange"

\* The lock is with who exchanges, one at a time; and what is carried was issued.
LEMMA LockStep ==
  Typed /\ HandlerInv /\ TokenInv /\ LockInv /\ CarriedInv /\ Typed' /\ [Next]_vars
    => LockInv' /\ CarriedInv'
<1> SUFFICES ASSUME Typed, HandlerInv, TokenInv, LockInv, CarriedInv, Typed', [Next]_vars
             PROVE  LockPart' /\ \A q \in Requests : TokenOK(q)'
  BY DEF LockPart, TokenOK, LockInv, CarriedInv
<1>a. LockPart /\ \A q \in Requests : TokenOK(q)
  BY DEF LockPart, TokenOK, LockInv, CarriedInv
<1>b. ASSUME NEW r \in Requests, UNCHANGED <<call, issued, tokens>>,
             \A q \in Requests \ {r} : /\ phase'[q] = phase[q] /\ carried'[q] = carried[q]
                                       /\ step'[q] = step[q],
             phase[r] = "exchange" \/ lock = NoHolder \/ lock' = lock
      PROVE  \A q \in Requests \ {r} : TokenOK(q)'
  <2> TAKE q \in Requests \ {r}
  <2>1. phase[q] = "exchange" => lock = q /\ lock # NoHolder /\ phase[r] # "exchange"
    BY <1>a, HolderAssumption DEF TokenOK
  <2> QED  BY <1>a, <1>b, <2>1, TokenStays DEF Typed
<1>c. ASSUME NEW r \in Requests, UNCHANGED <<call, issued, tokens, lock>>,
             \A q \in Requests \ {r} : /\ phase'[q] = phase[q] /\ carried'[q] = carried[q]
                                       /\ step'[q] = step[q],
             phase[r] # "exchange", TokenOK(r)'
      PROVE  LockPart' /\ \A q \in Requests : TokenOK(q)'
  <2>1. LockPart'
    BY <1>a, <1>c DEF LockPart, Typed
  <2> QED  BY <1>b, <1>c, <2>1
<1>1. ASSUME NEW r \in Requests, Receive(r)  PROVE LockPart' /\ \A q \in Requests : TokenOK(q)'
  <2>o. PICK tool \in Tools, ref \in References, role \in Roles, valid \in BOOLEAN :
          Process(r, tool, ref, Admission(ToolTable[tool], role, valid))
    BY <1>1 DEF Receive
  <2> DEFINE o == Admission(ToolTable[tool], role, valid)
             p == IF o = "open" THEN "ready" ELSE "idle"
             n == IF o = "open" THEN 1 ELSE 0
  <2>1. p \in {"ready", "idle"} /\ phase' = [phase EXCEPT ![r] = p] /\ step' = [step EXCEPT ![r] = n]
    BY <2>o DEF Process
  <2> HIDE DEF o, p, n
  <2>2. PICK c : call' = [call EXCEPT ![r] = c]
    BY <1>1 DEF Receive, Process
  <2>3. UNCHANGED <<carried, issued, tokens, lock>> /\ phase[r] = "idle"
    BY <1>1 DEF Receive, cache, HandlerInv, HandlerOK, Open
  <2>4. TokenOK(r)'
    BY <2>1 DEF TokenOK, Typed
  <2>5. \A q \in Requests \ {r} : TokenOK(q)'
    BY <1>a, <2>1, <2>2, <2>3, TokenStays DEF Typed
  <2>6. LockPart'
    BY <1>a, <2>1, <2>3 DEF LockPart, Typed
  <2> QED  BY <2>4, <2>5, <2>6
<1>2. ASSUME NEW r \in Requests, NEW goes, Proceed(r, goes), phase[r] \in {"ready", "waiting"},
             UNCHANGED <<call, issued, tokens, lock>>
      PROVE  LockPart' /\ \A q \in Requests : TokenOK(q)'
  <2>1. phase'[r] \in {"ready", "idle"}
    BY <1>2, ProceedPhase
  <2>2. TokenOK(r)'
    BY <2>1 DEF TokenOK
  <2> QED  BY <1>2, <2>2, <1>c, ProceedPhase
<1>3. ASSUME NEW r \in Requests, CannotBegin(r) \/ StopsWaiting(r) \/ UseClubCache(r)
      PROVE  LockPart' /\ \A q \in Requests : TokenOK(q)'
  <2>1. PICK goes : Proceed(r, goes)
    BY <1>3 DEF CannotBegin, StopsWaiting, UseClubCache
  <2> QED  BY <1>2, <1>3, <2>1 DEF CannotBegin, StopsWaiting, UseClubCache, AtStep, cache
<1>4. ASSUME NEW r \in Requests, BeginCommand(r)
      PROVE  LockPart' /\ \A q \in Requests : TokenOK(q)'
  <2>1. phase[r] = "ready" /\ Begin(r, NoToken) /\ UNCHANGED <<call, issued, tokens, lock>>
    BY <1>4 DEF BeginCommand, AtStep, cache
  <2>2. TokenOK(r)'
    BY <2>1 DEF TokenOK, Begin, Typed
  <2> QED  BY <2>1, <2>2, <1>c DEF Begin, Typed
<1>5. ASSUME NEW r \in Requests, NEW t, GoOnWith(r, t), UNCHANGED call, call[r] \in Calls,
             t # NoToken => /\ t[1] \in TokenKeys /\ 1 <= t[2] /\ t[2] <= issued'[t[1]]
                            /\ Current(r).op = "club_http" => t[1] \in {call[r].ref, "static"}
      PROVE  /\ TokenOK(r)'
             /\ \A q \in Requests \ {r} : /\ phase'[q] = phase[q] /\ carried'[q] = carried[q]
                                          /\ step'[q] = step[q]
  <2>1. CASE phase'[r] = "waiting"
    <3>1. carried'[r] = t /\ step'[r] = step[r]
      BY <1>5, <2>1, GoOnPhase
    <3>2. Current(r)' = Current(r)
      BY <1>5, <3>1 DEF Current, Script
    <3>3. t # NoToken => KeyOK(r)'
      BY <1>5, <3>1, <3>2 DEF KeyOK
    <3> QED  BY <1>5, <2>1, <3>1, <3>3, GoOnPhase DEF TokenOK
  <2>2. CASE phase'[r] # "waiting"
    <3>1. phase'[r] \in {"ready", "idle"}
      BY <1>5, <2>2, GoOnPhase
    <3>2. TokenOK(r)'
      BY <3>1 DEF TokenOK
    <3> QED  BY <1>5, <3>2, GoOnPhase
  <2> QED  BY <2>1, <2>2
<1>6. ASSUME NEW r \in Requests, SeekToken(r)
      PROVE  LockPart' /\ \A q \in Requests : TokenOK(q)'
  <2> DEFINE k == TokenKey(r)
  <2>1. phase[r] = "ready" /\ call[r] \in Calls /\ UNCHANGED <<call, issued, tokens, lock>>
    BY <1>6, Busy DEF SeekToken, AtStep, cache
  <2>2. CASE k = NoKey
    <3>1. GoOnWith(r, NoToken)
      BY <1>6, <2>2 DEF SeekToken
    <3> QED  BY <2>1, <3>1, <1>5, <1>c
  <2>3. CASE k # NoKey /\ Cached(k)
    <3>1. GoOnWith(r, <<k, tokens[k]>>) /\ k \in TokenKeys
      BY <1>6, <2>1, <2>3, TokenKeyOK DEF SeekToken
    <3>2. 1 <= tokens[k] /\ tokens[k] <= issued'[k]
      BY <2>1, <2>3, <3>1 DEF Typed, TokenInv, Cached
    <3>3. Current(r).op = "club_http" => k \in {call[r].ref, "static"}
      BY <2>1, <2>3, TokenKeyOK
    <3> HIDE DEF k
    <3> QED  BY <2>1, <3>1, <3>2, <3>3, <1>5, <1>c
  <2>4. CASE k # NoKey /\ ~Cached(k)
    <3>1. /\ phase' = [phase EXCEPT ![r] = "lock"] /\ carried' = [carried EXCEPT ![r] = <<k, 0>>]
          /\ step' = step
      BY <1>6, <2>4 DEF SeekToken
    <3>2. k \in TokenKeys /\ (Current(r).op = "club_http" => k \in {call[r].ref, "static"})
      BY <2>1, <2>4, TokenKeyOK
    <3> HIDE DEF k
    <3>3. Current(r)' = Current(r) /\ carried'[r] = <<k, 0>> /\ phase'[r] = "lock"
      BY <2>1, <3>1 DEF Current, Script, Typed
    <3>4. TokenOK(r)'
      BY <2>1, <3>2, <3>3 DEF TokenOK, KeyOK
    <3> QED  BY <2>1, <3>1, <3>4, <1>c DEF Typed
  <2> QED  BY <2>2, <2>3, <2>4
<1>7. ASSUME NEW r \in Requests, TakeLock(r)
      PROVE  LockPart' /\ \A q \in Requests : TokenOK(q)'
  <2> DEFINE k == carried[r][1]
  <2>1. phase[r] = "lock" /\ lock = NoHolder /\ UNCHANGED <<call, issued, tokens>> /\ KeyOK(r)
    BY <1>7, <1>a DEF TakeLock, TokenOK
  <2>2. k \in TokenKeys /\ call[r] \in Calls
    BY <2>1, Busy DEF KeyOK
  <2>3. CASE Cached(k)
    <3>1. GoOnWith(r, <<k, tokens[k]>>) /\ UNCHANGED lock
      BY <1>7, <2>3 DEF TakeLock
    <3>2. 1 <= tokens[k] /\ tokens[k] <= issued'[k]
      BY <2>1, <2>2, <2>3 DEF Typed, TokenInv, Cached
    <3>3. Current(r).op = "club_http" => k \in {call[r].ref, "static"}
      BY <2>1 DEF KeyOK
    <3> HIDE DEF k
    <3> QED  BY <2>1, <2>2, <3>1, <3>2, <3>3, <1>5, <1>c
  <2>4. CASE ~Cached(k)
    <3>1. lock' = r /\ phase' = [phase EXCEPT ![r] = "exchange"] /\ UNCHANGED <<step, carried>>
      BY <1>7, <2>4 DEF TakeLock
    <3>2. phase'[r] = "exchange"
      BY <3>1 DEF Typed
    <3>3. KeyOK(r)'
      BY <2>1, <3>1, KeyStays
    <3>4. TokenOK(r)'
      BY <2>1, <2>4, <3>1, <3>2, <3>3 DEF TokenOK, Cached
    <3>5. \A q \in Requests \ {r} : TokenOK(q)'
      BY <2>1, <3>1, <1>b DEF Typed
    <3> QED  BY <3>1, <3>2, <3>4, <3>5 DEF LockPart
  <2> QED  BY <2>3, <2>4
<1>8. ASSUME NEW r \in Requests, ExchangeSucceeds(r)
      PROVE  LockPart' /\ \A q \in Requests : TokenOK(q)'
  <2> DEFINE k == carried[r][1]
             n == issued[k] + 1
  <2>1. phase[r] = "exchange" /\ lock = r /\ lock' = NoHolder /\ call' = call /\ KeyOK(r)
    BY <1>8, <1>a DEF ExchangeSucceeds, TokenOK
  <2>2. k \in TokenKeys /\ call[r] \in Calls /\ n \in Nat /\ 1 <= n
    BY <2>1, Busy DEF KeyOK, Typed
  <2>3. issued' = [issued EXCEPT ![k] = n] /\ GoOnWith(r, <<k, n>>)
    BY <1>8 DEF ExchangeSucceeds
  <2>4. /\ Current(r).op = "club_http" => k \in {call[r].ref, "static"}
        /\ \A j \in TokenKeys : issued[j] <= issued'[j]
        /\ issued'[k] = n
    BY <2>1, <2>2, <2>3 DEF KeyOK, Typed
  <2> HIDE DEF k, n
  <2>5. /\ TokenOK(r)'
        /\ \A q \in Requests \ {r} : /\ phase'[q] = phase[q] /\ carried'[q] = carried[q]
                                     /\ step'[q] = step[q]
    BY <2>1, <2>2, <2>3, <2>4, <1>5
  <2>6. \A q \in Requests \ {r} : phase[q] # "exchange"
    BY <1>a, <2>1 DEF TokenOK
  <2>7. \A q \in Requests \ {r} : TokenOK(q)'
    BY <1>a, <2>1, <2>4, <2>5, <2>6, TokenStays
  <2> QED  BY <2>1, <2>5, <2>7 DEF LockPart
<1>9. ASSUME NEW r \in Requests, ExchangeFails(r)
      PROVE  LockPart' /\ \A q \in Requests : TokenOK(q)'
  <2>1. phase[r] = "exchange" /\ lock' = NoHolder /\ UNCHANGED <<call, issued, tokens>> /\ GoOnWith(r, NoToken)
    BY <1>9 DEF ExchangeFails
  <2>2. call[r] \in Calls
    BY <2>1, Busy
  <2> QED  BY <2>1, <2>2, <1>5, <1>b DEF LockPart
<1>10. ASSUME NEW r \in Requests, ToolTimesOut(r)
       PROVE  LockPart' /\ \A q \in Requests : TokenOK(q)'
  <2>1. /\ phase' = [phase EXCEPT ![r] = "idle"] /\ carried' = [carried EXCEPT ![r] = NoToken]
        /\ step' = [step EXCEPT ![r] = 0]
        /\ lock' = IF lock = r THEN NoHolder ELSE lock
        /\ UNCHANGED <<call, issued, tokens>>
    BY <1>10 DEF ToolTimesOut
  <2>2. TokenOK(r)'
    BY <2>1 DEF TokenOK, Typed
  <2>3. \A q \in Requests \ {r} : TokenOK(q)'
    <3>1. CASE lock = r
      <4>1. phase[r] = "exchange"
        BY <1>a, <3>1, HolderAssumption DEF LockPart
      <4> QED  BY <2>1, <4>1, <1>b DEF Typed
    <3>2. CASE lock # r
      BY <2>1, <3>2, <1>b DEF Typed
    <3> QED  BY <3>1, <3>2
  <2>4. LockPart'
    BY <1>a, <2>1 DEF LockPart, Typed
  <2> QED  BY <2>2, <2>3, <2>4
<1>11. ASSUME UNCHANGED <<call, issued, lock, phase, carried, step>>,
              \A k \in TokenKeys : tokens'[k] \in {0, tokens[k]}
       PROVE  LockPart' /\ \A q \in Requests : TokenOK(q)'
  BY <1>11, <1>a, TokenStays DEF LockPart, Typed
<1>12. ASSUME NEW p \in active, Ends(p[1], p[2])
       PROVE  LockPart' /\ \A q \in Requests : TokenOK(q)'
  <2>1. p[1] \in Requests
    BY DEF Typed
  <2>2. UNCHANGED <<call, issued, tokens, lock>>
    BY <1>12 DEF Ends, CommandEnds, RequestAnswered, RequestRedirected, cache
  <2>3. CASE UNCHANGED <<audit, handler>>
    BY <2>2, <2>3, <1>11 DEF handler
  <2>4. CASE Awaited(p[1], p[2]) /\ \E goes : Proceed(p[1], goes)
    BY <2>1, <2>2, <2>4, <1>2 DEF Awaited
  <2> QED  BY <1>12, <2>3, <2>4 DEF Ends, CommandEnds, RequestAnswered, RequestRedirected
<1>13. ASSUME NEW p \in active, RequestRefused(p[1], p[2])
       PROVE  LockPart' /\ \A q \in Requests : TokenOK(q)'
  <2> DEFINE r == p[1]
  <2>1. r \in Requests
    BY DEF Typed
  <2>2. UNCHANGED <<call, issued, lock>>
    BY <1>13 DEF RequestRefused
  <2>3. CASE ~Awaited(p[1], p[2])
    BY <1>13, <2>2, <2>3, <1>11 DEF RequestRefused, handler
  <2>4. CASE Awaited(p[1], p[2])
    <3>1. phase[r] = "waiting" /\ Proceed(r, Current(r).failed)
      BY <1>13, <2>4 DEF RequestRefused, Awaited
    <3>2. PICK ks : Drop(ks)
      BY <1>13, <2>4 DEF RequestRefused
    <3>3. \A k \in TokenKeys : tokens'[k] \in {0, tokens[k]}
      BY <3>2 DEF Drop, Typed
    <3>4. phase'[r] \in {"ready", "idle"}
      BY <2>1, <3>1, ProceedPhase
    <3>5. TokenOK(r)'
      BY <3>4 DEF TokenOK
    <3> HIDE DEF r
    <3>6. \A q \in Requests \ {r} : TokenOK(q)'
      BY <1>a, <2>1, <2>2, <3>1, <3>3, ProceedPhase, TokenStays DEF Typed
    <3>7. LockPart'
      BY <1>a, <2>1, <2>2, <3>1, ProceedPhase DEF LockPart, Typed
    <3> QED  BY <3>5, <3>6, <3>7
  <2> QED  BY <2>3, <2>4
<1>14. ASSUME NEW k \in TokenKeys, TokenExpires(k)
       PROVE  LockPart' /\ \A q \in Requests : TokenOK(q)'
  <2>1. \A j \in TokenKeys : tokens'[j] \in {0, tokens[j]}
    BY <1>14 DEF TokenExpires, Drop, Typed
  <2> QED  BY <1>14, <2>1, <1>11 DEF TokenExpires, handler
<1>15. CASE ClubCacheExpires \/ UNCHANGED vars
  BY <1>15, <1>11 DEF ClubCacheExpires, vars, cache, handler, Typed
<1> QED  BY <1>1, <1>3, <1>4, <1>6, <1>7, <1>8, <1>9, <1>10, <1>12, <1>13, <1>14, <1>15
         DEF Next, Handle, Elsewhere, Ends

\* A 401 takes the club's token out of the cache, and a new one has a new number.
LEMMA RejectStep ==
  Typed /\ LockInv /\ CarriedInv /\ RejectInv /\ [Next]_vars => RejectInv'
<1> SUFFICES ASSUME Typed, LockInv, CarriedInv, RejectInv, [Next]_vars  PROVE RejectInv'
  OBVIOUS
<1> DEFINE OK(t) == /\ t \in Token /\ 1 <= t[2] /\ t[2] <= issued[t[1]]
                    /\ t[1] # "static" => tokens[t[1]] # t[2]
<1>a. \A t \in rejected : OK(t)
  BY DEF RejectInv, RejectedClubTokenDropped, Typed
<1>b. ASSUME \A t \in rejected' : OK(t)'  PROVE RejectInv'
  BY <1>b DEF RejectInv, RejectedClubTokenDropped
<1>1. CASE UNCHANGED <<tokens, issued, rejected>>
  BY <1>1 DEF RejectInv, RejectedClubTokenDropped
<1>2. ASSUME NEW r \in Requests, ExchangeSucceeds(r)  PROVE RejectInv'
  <2> DEFINE k == carried[r][1]
  <2>1. k \in TokenKeys
    BY <1>2 DEF ExchangeSucceeds, LockInv, KeyOK
  <2>2. /\ issued' = [issued EXCEPT ![k] = issued[k] + 1]
        /\ tokens' = [tokens EXCEPT ![k] = issued[k] + 1]
        /\ rejected' = rejected
    BY <1>2 DEF ExchangeSucceeds
  <2> HIDE DEF k
  <2>3. \A t \in rejected : OK(t)'
    <3> TAKE t \in rejected
    <3>1. OK(t) /\ t[1] \in TokenKeys /\ t[2] \in Nat
      BY <1>a DEF Token
    <3>2. issued[t[1]] \in Nat
      BY <3>1 DEF Typed
    <3> QED  BY <2>1, <2>2, <3>1, <3>2 DEF Typed
  <2> QED  BY <1>b, <2>2, <2>3
<1>c. ASSUME NEW ks, Drop(ks), UNCHANGED issued, NEW t, OK(t)  PROVE OK(t)'
  BY <1>c DEF Drop, Typed, Token
<1>3. ASSUME NEW p \in active, RequestRefused(p[1], p[2])  PROVE RejectInv'
  <2> DEFINE r == p[1]
             i == p[2]
  <2>1. r \in Requests
    BY DEF Typed
  <2> HIDE DEF r, i
  <2>2. RequestRefused(r, i)
    BY <1>3 DEF r, i
  <2>3. CASE ~Awaited(r, i)
    BY <2>2, <2>3, <1>1 DEF RequestRefused
  <2>4. CASE Awaited(r, i)
    <3>1. phase[r] = "waiting" /\ Op(r, i) = Current(r).op
      BY <2>4 DEF Awaited, Op, Current
    <3>2. Op(r, i) \in {"http", "club_http", "api"} /\ UNCHANGED issued
      BY <2>2 DEF RequestRefused
    <3>3. PICK ks : /\ Drop(ks)
                    /\ Op(r, i) = "club_http" => ks = {call[r].ref}
                    /\ Op(r, i) = "http" => ks = TokenKeys
      BY <2>2, <2>4, <3>2 DEF RequestRefused
    <3>4. \A t \in rejected : OK(t)'
      BY <1>a, <1>c, <3>2, <3>3
    <3>5. ASSUME Op(r, i) # "api", NEW t, t = carried[r], t # NoToken  PROVE OK(t)'
      <4>1. t \in Token /\ KeyOK(r) /\ 1 <= t[2] /\ t[2] <= issued[t[1]]
        BY <2>1, <3>1, <3>5 DEF CarriedInv, Typed
      <4>2. t[1] # "static" => t[1] \in ks
        BY <3>1, <3>2, <3>3, <3>5, <4>1 DEF KeyOK
      <4>3. t[1] \in TokenKeys
        BY <3>5, <4>1 DEF KeyOK
      <4>4. t[1] # "static" => tokens'[t[1]] = 0
        BY <3>3, <4>2, <4>3 DEF Drop
      <4> QED  BY <3>2, <4>1, <4>4
    <3>6. rejected' \in {rejected, rejected \cup {carried[r]}}
          /\ (rejected' # rejected => Op(r, i) # "api" /\ carried[r] # NoToken)
      BY <2>2, <2>4 DEF RequestRefused
    <3>7. \A t \in rejected' : OK(t)'
      BY <3>4, <3>5, <3>6
    <3> QED  BY <3>7, <1>b
  <2> QED  BY <2>3, <2>4
<1>4. ASSUME NEW k \in TokenKeys, TokenExpires(k)  PROVE RejectInv'
  BY <1>4, <1>a, <1>b, <1>c DEF TokenExpires
<1> QED  BY <1>1, <1>2, <1>3, <1>4
         DEF Next, Handle, Elsewhere, Receive, CannotBegin, BeginCommand, UseClubCache,
             StopsWaiting, SeekToken, TakeLock, ExchangeFails, ToolTimesOut, CommandEnds,
             RequestAnswered, RequestRedirected, ClubCacheExpires, cache, vars

-----------------------------------------------------------------------------
(* What a success means                                                    *)

\* DoneInv and SuccessMeansDone of one request.
Behind(r) ==
  \A i \in DOMAIN Script(r) : i < step[r] /\ IsWrite(r, i) => Settled(r, i)

Made(r) ==
  IF call[r].tool = "create_admin_user" THEN Accounts # {}
  ELSE call[r].tool # "call_api" =>
         \A i \in DOMAIN Script(r) : IsWrite(r, i) => <<r, i>> \in effects \cup redirected

DoneOK(r) == (Open(r) => Behind(r)) /\ (audit[r] = "success" => Made(r))

\* A call is set once, before it has an effect that counts.
LEMMA AccountsStay ==
  ASSUME Typed, effects \subseteq effects',
         \A q \in Requests : call[q] # NoCall => call'[q] = call[q]
  PROVE  Accounts \subseteq Accounts'
<1> SUFFICES ASSUME NEW e \in Accounts  PROVE e \in Accounts'
  OBVIOUS
<1>1. e \in effects /\ e[1] \in Requests /\ call[e[1]].tool = "create_admin_user"
  BY DEF Accounts, Typed
<1>2. call[e[1]] # NoCall
  BY <1>1 DEF NoCall
<1> QED  BY <1>1, <1>2 DEF Accounts

LEMMA DoneStays ==
  ASSUME Typed, NEW r \in Requests, DoneOK(r), effects \subseteq effects',
         redirected \subseteq redirected', Accounts \subseteq Accounts', call'[r] = call[r], audit'[r] = audit[r], step'[r] = step[r]
  PROVE  DoneOK(r)'
<1>1. /\ Script(r)' = Script(r)
      /\ \A i : IsWrite(r, i)' = IsWrite(r, i) /\ (Settled(r, i) => Settled(r, i)')
  BY DEF Script, IsWrite, Op, Settled
<1>2. Behind(r) => Behind(r)'
  BY <1>1 DEF Behind
<1>3. Made(r) => Made(r)'
  BY <1>1 DEF Made
<1> QED  BY <1>2, <1>3 DEF DoneOK, Open

\* The handler of r goes on after answer a to its step.
LEMMA DoneProceeds ==
  ASSUME Typed, HandlerInv, \A q \in Requests : DoneOK(q),
         NEW r \in Requests, phase[r] # "idle", NEW a \in Answers,
         Proceed(r, Current(r)[a]), UNCHANGED call,
         effects \subseteq effects', redirected \subseteq redirected',
         NEW n, n = step[r], IsWrite(r, n) /\ a \in {"found", "empty"} => Settled(r, n)',
         call[r].tool = "create_admin_user" /\ step[r] = 1 /\ a = "found" => Accounts # {}
  PROVE  \A q \in Requests : DoneOK(q)'
<1>1. /\ Open(r) /\ call[r] \in Calls /\ step[r] \in DOMAIN Script(r)
      /\ ScriptOK(call[r].tool) /\ Behind(r)
  BY Busy DEF DoneOK
<1>2. PICK g \in Current(r)[a] :
        /\ step' = [step EXCEPT ![r] = IF g = "next" THEN @ + 1 ELSE 0]
        /\ audit' = CASE g = "next"  -> audit
                      [] g = "done"  -> [audit EXCEPT ![r] = "success"]
                      [] g = "error" -> [audit EXCEPT ![r] = "failed"]
  BY DEF Proceed
<1>3. Accounts \subseteq Accounts'
  BY AccountsStay
<1>4. /\ Script(r)' = Script(r)
      /\ \A i : IsWrite(r, i)' = IsWrite(r, i) /\ (Settled(r, i) => Settled(r, i)')
  BY DEF Script, IsWrite, Op, Settled
<1>5. /\ WellFormed(Script(r))
      /\ call[r].tool \notin {"create_admin_user", "call_api"} => DoneAfterWrites(Script(r))
  BY <1>1 DEF ScriptOK, Script
<1>6. g \in Goes /\ (g = "next" /\ IsWrite(r, step[r]) => a \in {"found", "empty"})
  BY <1>1, <1>2, <1>5 DEF WellFormed, Current, IsWrite, Op, Writes
<1>7. DoneOK(r)'
  <2>1. CASE g = "next"
    <3>1. audit' = audit /\ step'[r] = step[r] + 1
      BY <1>2, <2>1 DEF Typed
    <3>2. \A i \in DOMAIN Script(r) : i < step[r] + 1 => i = step[r] \/ i < step[r]
      <4>1. step[r] \in Nat /\ \A i \in DOMAIN Script(r) : i \in Nat
        BY <1>5 DEF WellFormed, Typed
      <4> QED  BY <4>1
    <3>3. Behind(r)'
      BY <1>1, <1>4, <1>6, <2>1, <3>1, <3>2 DEF Behind
    <3> QED  BY <1>1, <3>1, <3>3 DEF DoneOK, Open
  <2>2. CASE g = "error"
    <3>1. audit'[r] = "failed"
      BY <1>2, <2>2 DEF Typed
    <3> QED  BY <3>1 DEF DoneOK, Open
  <2>3. CASE g = "done"
    <3>1. audit'[r] = "success"
      BY <1>2, <2>3 DEF Typed
    <3>2. Made(r)'
      <4>1. CASE call[r].tool = "create_admin_user"
        <5>1. Script(r) = ToolTable["create_admin_user"].script
          BY <4>1 DEF Script
        <5>2. step[r] \in 1..3 /\ Script(r)[2].op = "write"
          BY <1>1, <5>1, AdminScript
        <5>3. CASE step[r] \in 1..2
          <6>1. step[r] = 1 /\ a = "found"
            BY <1>2, <2>3, <5>1, <5>3, AdminScript DEF Current
          <6> QED  BY <1>3, <4>1, <6>1 DEF Made
        <5>4. CASE step[r] = 3
          <6>1. <<r, 2>> \in effects
            BY <1>1, <5>1, <5>2, <5>4, AdminScript DEF Behind, IsWrite, Op, Settled
          <6>2. <<r, 2>> \in Accounts
            BY <4>1, <6>1 DEF Accounts
          <6> QED  BY <1>3, <4>1, <6>2 DEF Made
        <5> QED  BY <5>2, <5>3, <5>4
      <4>2. CASE call[r].tool = "call_api"
        BY <4>2 DEF Made
      <4>3. CASE call[r].tool \notin {"create_admin_user", "call_api"}
        <5> SUFFICES ASSUME NEW i \in DOMAIN Script(r), IsWrite(r, i)
                     PROVE  Settled(r, i)'
          BY <1>4, <4>3 DEF Made, Settled
        <5>1. /\ IsWrite(r, step[r]) => a \in {"found", "empty"}
              /\ ~(i > step[r])
          BY <1>1, <1>2, <1>5, <2>3, <4>3 DEF DoneAfterWrites, Current, IsWrite, Op, Writes
        <5>2. i = n \/ i < step[r]
          <6>1. i \in Nat /\ step[r] \in Nat
            BY <1>1, <1>5 DEF WellFormed
          <6> QED  BY <5>1, <6>1
        <5>3. CASE i = n
          BY <5>1, <5>3 DEF Settled, Op, Script
        <5>4. CASE i < step[r]
          <6>1. Settled(r, i)
            BY <1>1, <5>4 DEF Behind
          <6> QED  BY <1>4, <6>1
        <5> QED  BY <5>2, <5>3, <5>4
      <4> QED  BY <4>1, <4>2, <4>3
    <3> QED  BY <3>1, <3>2 DEF DoneOK, Open
  <2> QED  BY <1>6, <2>1, <2>2, <2>3 DEF Goes
<1>8. \A q \in Requests \ {r} : DoneOK(q)'
  <2> TAKE q \in Requests \ {r}
  <2>1. audit'[q] = audit[q] /\ step'[q] = step[q]
    BY <1>2, <1>6 DEF Typed, Goes
  <2> QED  BY <2>1, <1>3, DoneStays
<1> QED  BY <1>7, <1>8

\* exchange is the last step of authenticate_club.
LEMMA DoneGoesOn ==
  ASSUME Typed, HandlerInv, \A q \in Requests : DoneOK(q),
         NEW r \in Requests, phase[r] # "idle", NEW t, GoOnWith(r, t),
         UNCHANGED <<call, effects, redirected>>
  PROVE  \A q \in Requests : DoneOK(q)'
<1>1. CASE Current(r).op = "exchange"
  <2>1. /\ step[r] \in DOMAIN Script(r) /\ WellFormed(Script(r))
        /\ call[r].tool = "create_admin_user" => step[r] # 1
    <3>1. step[r] \in DOMAIN Script(r) /\ WellFormed(Script(r))
      BY Busy DEF ScriptOK, Script
    <3>2. call[r].tool = "create_admin_user" => step[r] # 1
      BY <1>1, AdminScript DEF Current, Script
    <3> QED  BY <3>1, <3>2
  <2>2. Current(r)["found"] = Done
    BY <1>1, <2>1 DEF WellFormed, Current
  <2>3. Proceed(r, Current(r)["found"])
    BY <1>1, <2>2 DEF GoOnWith
  <2>4. ~IsWrite(r, step[r])
    BY <1>1 DEF IsWrite, Op, Current
  <2> QED  BY <2>1, <2>3, <2>4, DoneProceeds DEF Answers
<1>2. CASE Current(r).op # "exchange"
  BY <1>2, AccountsStay, DoneStays DEF GoOnWith, Begin
<1> QED  BY <1>1, <1>2

LEMMA DoneStep ==
  Typed /\ HandlerInv /\ DoneInv /\ SuccessMeansDone /\ [Next]_vars => DoneInv' /\ SuccessMeansDone'
<1> SUFFICES ASSUME Typed, HandlerInv, \A q \in Requests : DoneOK(q), [Next]_vars
             PROVE  \A q \in Requests : DoneOK(q)'
  BY DEF DoneInv, SuccessMeansDone, DoneOK, Behind, Made
<1>a. ASSUME UNCHANGED <<call, audit, step>>,
             effects \subseteq effects', redirected \subseteq redirected'
      PROVE  \A q \in Requests : DoneOK(q)'
  BY <1>a, AccountsStay, DoneStays
<1>1. ASSUME NEW r \in Requests, Receive(r)  PROVE \A q \in Requests : DoneOK(q)'
  <2>1. PICK tool \in Tools, ref \in References, role \in Roles, valid \in BOOLEAN :
          Process(r, tool, ref, Admission(ToolTable[tool], role, valid))
    BY <1>1 DEF Receive
  <2> DEFINE o == Admission(ToolTable[tool], role, valid)
             c == [tool |-> tool, ref |-> ref]
  <2>2. o \in Refusals \cup {"open"} /\ c \in Calls
    BY DEF Admission, Refusals, Calls
  <2> HIDE DEF o, c
  <2>3. /\ audit' = [audit EXCEPT ![r] = o]
        /\ call' = [call EXCEPT ![r] = IF o = "open" THEN c ELSE NoCall]
        /\ step' = [step EXCEPT ![r] = IF o = "open" THEN 1 ELSE 0]
    BY <2>1 DEF Process, o, c
  <2>4. effects' = effects /\ redirected' = redirected /\ call[r] = NoCall
    BY <1>1 DEF Receive, world, HandlerInv, HandlerOK
  <2>5. \A q \in Requests \ {r} : audit'[q] = audit[q] /\ call'[q] = call[q] /\ step'[q] = step[q]
    BY <2>3 DEF Typed
  <2>6. \A q \in Requests \ {r} : DoneOK(q)'
    BY <2>4, <2>5, AccountsStay, DoneStays
  <2>7. DoneOK(r)'
    <3>1. audit'[r] # "success"
      BY <2>2, <2>3 DEF Typed, Refusals
    <3>2. ASSUME audit'[r] = "open"  PROVE Behind(r)'
      <4>1. o = "open" /\ call'[r] = c /\ step'[r] = 1
        BY <2>2, <2>3, <3>2 DEF Typed, Refusals
      <4>2. WellFormed(Script(r)')
        BY <2>2, <4>1, CallOK DEF ScriptOK, Script
      <4>3. \A i \in DOMAIN Script(r)' : ~(i < 1)
        BY <4>2 DEF WellFormed
      <4> QED  BY <4>1, <4>3 DEF Behind
    <3> QED  BY <3>1, <3>2 DEF DoneOK, Open
  <2> QED  BY <2>6, <2>7
<1>2. ASSUME NEW r \in Requests, CannotBegin(r) \/ StopsWaiting(r)
      PROVE  \A q \in Requests : DoneOK(q)'
  BY <1>2, DoneProceeds DEF CannotBegin, StopsWaiting, world, Answers
<1>3. ASSUME NEW r \in Requests, BeginCommand(r)  PROVE \A q \in Requests : DoneOK(q)'
  BY <1>3, <1>a DEF BeginCommand, Begin
<1>4. ASSUME NEW r \in Requests, UseClubCache(r)  PROVE \A q \in Requests : DoneOK(q)'
  <2>1. /\ phase[r] # "idle" /\ Current(r).op = "clubs"
        /\ Proceed(r, Current(r).found \cup Current(r).empty)
        /\ UNCHANGED <<call, effects, redirected>>
    BY <1>4 DEF UseClubCache, AtStep, world
  <2>2. PICK a \in {"found", "empty"} : Proceed(r, Current(r)[a])
    BY <2>1 DEF Proceed
  <2>3. ~IsWrite(r, step[r]) /\ (call[r].tool = "create_admin_user" => step[r] # 1)
    BY <2>1, AdminScript DEF IsWrite, Op, Current, Script
  <2> QED  BY <2>1, <2>2, <2>3, DoneProceeds DEF Answers
<1>5. ASSUME NEW r \in Requests, SeekToken(r)  PROVE \A q \in Requests : DoneOK(q)'
  <2>1. phase[r] # "idle" /\ UNCHANGED <<call, effects, redirected>>
    BY <1>5 DEF SeekToken, AtStep
  <2>2. (\E t : GoOnWith(r, t)) \/ UNCHANGED <<audit, step>>
    BY <1>5 DEF SeekToken
  <2> QED  BY <2>1, <2>2, <1>a, DoneGoesOn
<1>6. ASSUME NEW r \in Requests, TakeLock(r)  PROVE \A q \in Requests : DoneOK(q)'
  <2>1. phase[r] # "idle" /\ UNCHANGED <<call, effects, redirected>>
    BY <1>6 DEF TakeLock
  <2>2. (\E t : GoOnWith(r, t)) \/ UNCHANGED <<audit, step>>
    BY <1>6 DEF TakeLock
  <2> QED  BY <2>1, <2>2, <1>a, DoneGoesOn
<1>7. ASSUME NEW r \in Requests, ExchangeSucceeds(r) \/ ExchangeFails(r)
      PROVE  \A q \in Requests : DoneOK(q)'
  <2>1. /\ phase[r] # "idle" /\ UNCHANGED <<call, effects, redirected>>
        /\ \E t : GoOnWith(r, t)
    BY <1>7 DEF ExchangeSucceeds, ExchangeFails
  <2> QED  BY <2>1, DoneGoesOn
<1>8. ASSUME NEW r \in Requests, ToolTimesOut(r)  PROVE \A q \in Requests : DoneOK(q)'
  <2>1. /\ audit' = [audit EXCEPT ![r] = "timeout"] /\ step' = [step EXCEPT ![r] = 0]
        /\ UNCHANGED <<call, effects, redirected>>
    BY <1>8 DEF ToolTimesOut, world
  <2>2. DoneOK(r)'
    BY <2>1 DEF DoneOK, Open, Typed
  <2>3. \A q \in Requests \ {r} : audit'[q] = audit[q] /\ step'[q] = step[q]
    BY <2>1 DEF Typed
  <2> QED  BY <2>1, <2>2, <2>3, AccountsStay, DoneStays
<1>9. ASSUME NEW p \in active, Ends(p[1], p[2])
      PROVE  \A q \in Requests : DoneOK(q)'
  <2> DEFINE r == p[1]
             i == p[2]
  <2>1. r \in Requests
    BY DEF Typed
  <2> HIDE DEF r, i
  <2>2. UNCHANGED call
    BY <1>9 DEF Ends, CommandEnds, RequestAnswered, RequestRedirected
  <2>3. PICK a \in {"found", "empty", "failed"} :
          /\ effects \subseteq effects' /\ redirected \subseteq redirected'
          /\ IsWrite(r, i) /\ a \in {"found", "empty"} => Settled(r, i)'
          /\ call[r].tool = "create_admin_user" /\ i = 1 /\ a = "found" => Accounts # {}
          /\ \/ Awaited(r, i) /\ Proceed(r, Current(r)[a])
             \/ UNCHANGED <<audit, handler>>
    <3>1. CASE CommandEnds(r, i)
      BY <3>1 DEF CommandEnds, AnswersOf, TakesEffect, Settled
    <3>2. CASE RequestAnswered(r, i)
      <4>1. ~(call[r].tool = "create_admin_user" /\ i = 1)
        BY <3>2, AdminScript DEF RequestAnswered, Op, Script
      <4> QED  BY <3>2, <4>1 DEF RequestAnswered, TakesEffect, Settled
    <3>3. CASE RequestRedirected(r, i)
      <4>1. Op(r, i) = "api" /\ Op(r, i)' = Op(r, i)
        BY <2>2, <3>3 DEF RequestRedirected, Op, Script
      <4>2. ~(call[r].tool = "create_admin_user" /\ i = 1)
        BY <4>1, AdminScript DEF Op, Script
      <4>3. <<r, i>> \in redirected' /\ effects \subseteq effects'
            /\ redirected \subseteq redirected'
        BY <3>3 DEF RequestRedirected, TakesEffect
      <4>4. Settled(r, i)'
        BY <4>1, <4>3 DEF Settled
      <4>5. \/ Awaited(r, i) /\ Proceed(r, Current(r)["found"])
            \/ UNCHANGED <<audit, handler>>
        BY <3>3 DEF RequestRedirected
      <4> QED  BY <4>2, <4>3, <4>4, <4>5
    <3> QED  BY <1>9, <3>1, <3>2, <3>3 DEF Ends, r, i
  <2>5. CASE Awaited(r, i) /\ Proceed(r, Current(r)[a])
    <3>1. phase[r] # "idle" /\ step[r] = i
      BY <2>5 DEF Awaited
    <3> QED  BY <2>1, <2>2, <2>3, <2>5, <3>1, DoneProceeds DEF Answers
  <2>6. CASE UNCHANGED <<audit, handler>>
    BY <2>2, <2>3, <2>6, <1>a DEF handler
  <2> QED  BY <2>3, <2>5, <2>6
<1>10. ASSUME NEW p \in active, RequestRefused(p[1], p[2])
       PROVE  \A q \in Requests : DoneOK(q)'
  <2>1. p[1] \in Requests /\ UNCHANGED <<call, effects, redirected>>
    BY <1>10 DEF Typed, RequestRefused
  <2>2. CASE Awaited(p[1], p[2])
    <3>1. phase[p[1]] # "idle" /\ Proceed(p[1], Current(p[1])["failed"])
      BY <1>10, <2>2 DEF RequestRefused, Awaited
    <3> QED  BY <2>1, <3>1, DoneProceeds DEF Answers
  <2>3. CASE ~Awaited(p[1], p[2])
    BY <1>10, <2>1, <2>3, <1>a DEF RequestRefused, handler
  <2> QED  BY <2>2, <2>3
<1>11. CASE (\E k \in TokenKeys : TokenExpires(k)) \/ ClubCacheExpires \/ UNCHANGED vars
  BY <1>11, <1>a DEF TokenExpires, ClubCacheExpires, handler, world, vars
<1> QED  BY <1>1, <1>2, <1>3, <1>4, <1>5, <1>6, <1>7, <1>8, <1>9, <1>10, <1>11
         DEF Next, Handle, Elsewhere, Ends

-----------------------------------------------------------------------------
(* Theorems                                                                *)

LEMMA InitInv == Init => IInv
<1> SUFFICES ASSUME Init  PROVE IInv
  OBVIOUS
<1>1. Typed /\ HandlerInv
  BY InitTyped
<1>2. TokenInv /\ LockInv /\ CarriedInv
  BY DEF Init, TokenInv, LockInv, CarriedInv
<1>3. RejectInv
  BY DEF Init, RejectInv, RejectedClubTokenDropped
<1>4. DoneInv /\ SuccessMeansDone
  BY DEF Init, DoneInv, SuccessMeansDone, Open
<1> QED  BY <1>1, <1>2, <1>3, <1>4 DEF IInv

LEMMA NextInv == IInv /\ [Next]_vars => IInv'
BY TypedStep, TokenStep, LockStep, RejectStep, DoneStep DEF IInv

LEMMA Invariance == Spec => []IInv
BY InitInv, NextInv, PTL DEF Spec

\* Every variable has its type, and the lock all exchanges share is only ever
\* with a handler that is exchanging (get_token_for_club's async with).
THEOREM Soundness == Spec => []Sound
<1>1. IInv => Sound
  <2> SUFFICES ASSUME IInv  PROVE Sound
    OBVIOUS
  <2>1. TypeOK
    BY Types DEF IInv
  <2>2. LockHeldByExchange
    <3>1. lock # NoHolder => phase[lock] = "exchange" /\ lock \in Requests
      BY DEF IInv, LockInv, Typed
    <3> QED  BY <3>1, Busy DEF IInv, LockHeldByExchange
  <2> QED  BY <2>1, <2>2 DEF Sound
<1> QED  BY <1>1, Invariance, PTL

\* However many handlers find the cache empty at once, one token is exchanged
\* for each that left it (the double check of get_token_for_club).
THEOREM NoTokenWasted == Spec => []NoRedundantExchange
<1>1. IInv => NoRedundantExchange
  <2> SUFFICES ASSUME IInv, NEW k \in TokenKeys  PROVE issued[k] <= dropped[k] + 1
    BY DEF NoRedundantExchange
  <2>1. /\ issued[k] \in Nat /\ dropped[k] \in Nat
        /\ issued[k] = dropped[k] + (IF tokens[k] = 0 THEN 0 ELSE 1)
    BY DEF IInv, Typed, TokenInv
  <2> QED  BY <2>1
<1> QED  BY <1>1, Invariance, PTL

\* A club's token that BRS refused is not handed out again (make_http_call).
THEOREM RefusedTokenGone == Spec => []RejectedClubTokenDropped
<1>1. IInv => RejectedClubTokenDropped
  BY DEF IInv, RejectInv
<1> QED  BY <1>1, Invariance, PTL

\* What the gateway audits as a success was done, whatever failed, timed out
\* or was begun by others on the way.
THEOREM SuccessIsDone == Spec => []SuccessMeansDone
<1>1. IInv => SuccessMeansDone
  BY DEF IInv
<1> QED  BY <1>1, Invariance, PTL
=============================================================================
