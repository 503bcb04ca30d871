------------------------------ MODULE Gateway ------------------------------
(***************************************************************************)
(* The gateway MCP server (src/backend/gateway_mcp): a tool call passes    *)
(* the stages of MiddlewarePipeline.process and then runs its handler,     *)
(* whose commands and HTTP requests go to the club's teesheet through the  *)
(* docker_exec backend, with BRS tokens from the cache of BRSAuthProvider. *)
(*                                                                         *)
(* The stages before the handler have no await in them, so admitting a     *)
(* request is one step.  A handler is a script: the sequence of commands   *)
(* and requests it awaits, each with what the handler does on the answers  *)
(* it may get.  A command or a request, once begun, goes on to its end in  *)
(* its container or server even when nobody waits for it any more: the     *)
(* handler's wait_for kills the docker client at most.                     *)
(*                                                                         *)
(* One club, with the two names a caller may give it (number, slug), and   *)
(* one e-mail address.                                                     *)
(***************************************************************************)
EXTENDS Naturals, FiniteSets, Sequences

CONSTANTS Requests,      \* tool calls received
          Tools,         \* the tools called, of those in ToolTable
          Roles,         \* what the caller's service token allows
          Environments,  \* where the gateway may be deployed
          YoloModes,     \* what YOLO_MODE may say
          StaticKey      \* BRS_API_KEY is configured

VARIABLES env,       \* settings.env and YOLO_MODE
          call,      \* what a request asked for
          audit,     \* outcome in the request's audit record
          step,      \* index in the script of the step the handler is at
          phase,     \* what the handler is doing about that step
          carried,   \* token in the header of the request's HTTP request
          active,    \* commands and HTTP requests begun and not over
          effects,   \* those whose write happened
          redirected, \* API requests that were answered with a redirect
          pending,   \* ApprovalBridge._pending
          tokens,    \* BRSAuthProvider._tokens: number of the cached token
          issued,    \* tokens BRS has issued
          dropped,   \* times a cached token expired or was cleared
          lock,      \* holder of BRSAuthProvider._lock
          clubs,     \* _CLUB_CACHE: empty, fresh or past its TTL
          rejected   \* tokens make_http_call has seen answered with 401

handler == <<step, phase, carried>>
cache   == <<tokens, issued, dropped, lock>>
world   == <<active, effects, redirected>>
vars    == <<env, call, audit, handler, world, pending, cache, clubs, rejected>>

-----------------------------------------------------------------------------
(* Scripts.  On each answer the handler goes on with the next step, is     *)
(* done, or raises; more than one where the answer's detail decides.       *)

Step(op, found, empty, failed, raised) ==
  [op |-> op, found |-> found, empty |-> empty, failed |-> failed, raised |-> raised]

Next1 == {"next"}
Done  == {"done"}
Error == {"error"}

\* run_command: printed something, printed nothing, exit code or output that
\* the handler takes for a failure, no container or a timeout.
Query(found, empty, failed) == Step("query", found, empty, failed, Error)
Write(ok, failed)           == Step("write", ok, ok, failed, Error)

\* call_http with and without the club's name, whose 401 clears the token.
Http(found, empty, failed, raised)     == Step("http", found, empty, failed, raised)
ClubHttp(found, empty, failed, raised) == Step("club_http", found, empty, failed, raised)

\* call_api_handler, which sends its request itself.
Api(failed) == Step("api", Done, Done, failed, Error)

CreateClub        == <<Write(Done, Error)>>
GetClubByName     == <<Http(Done, Done, Error, Error)>>
VerifyClubSetup   == <<Http(Next1, Done, Done, Done), ClubHttp(Done, Done, Done, Done)>>

\* Mutant: the exit code of the insert is not looked at.
CreateAdminUserUnchecked ==
  <<Query(Done, Next1, Next1), Write(Next1, Next1), Query(Done, Done, Done)>>

\* A look-up that failed counts as one that found nobody.
CreateAdminUser   == <<Query(Done, Next1, Next1), Write(Next1, Error), Query(Done, Done, Done)>>

\* No credentials: the answer says so, and is a success to the gateway.
RetrieveOauthCredentials == <<Query(Next1, Done, Done), Query({"next", "done"}, Done, Done)>>

AuthenticateClub  == RetrieveOauthCredentials \o <<Step("exchange", Done, Done, Done, Done)>>
CallInternalApi   == <<ClubHttp(Done, Error, Error, Error)>>
GetClubConfig     == <<Query({"done", "error"}, Error, Error)>>

ListRoutes        == <<Query({"done", "error"}, Error, Error)>>
RunSql            == <<Query(Done, Done, Error)>>
GetConfig         == RunSql
GetSchema         == <<Query(Done, Done, Error)>>
CallApi           == <<Api(Done)>>
UpdateConfiguration   == <<Api(Error)>>
CreateVisitorGreenFee == <<Api(Error)>>
CreateBooking         == <<Api(Error)>>

\* The club from _get_valid_clubs, the course (one above 5 has to be
\* configured), the rule and its new identifier.
ResolveClubDatabase == Step("clubs", Next1, Error, Error, Error)
CheckCourse == Query(Next1, {"next", "error"}, {"next", "error"})
CreateCasualBookingRule ==
  <<ResolveClubDatabase, CheckCourse, Write(Next1, Error), Query(Done, Done, Done)>>
UpdateCasualBookingRule ==
  <<ResolveClubDatabase, CheckCourse, Query(Next1, Error, Error), Write(Done, Error)>>

\* Takes the executor for a database session, which it is not.
Unusable == <<Step("none", Error, Error, Error, Error)>>
GetWorkingMemory     == Unusable
UpdateWorkingMemory  == Unusable
StoreSessionSummary  == Unusable
GetHistoricalContext == Unusable

Everywhere == {"local", "dev", "qa", "prod"}
NotProd    == {"local", "dev", "qa"}

Tool(risk, envs, approval, script) ==
  [risk |-> risk, envs |-> envs, approval |-> approval, script |-> script]

ToolTable ==
  [create_club              |-> Tool("low_write", NotProd, FALSE, CreateClub),
   get_club_by_name         |-> Tool("read", Everywhere, FALSE, GetClubByName),
   verify_club_setup        |-> Tool("read", Everywhere, FALSE, VerifyClubSetup),
   create_admin_user        |-> Tool("medium_write", NotProd, FALSE, CreateAdminUser),
   authenticate_club        |-> Tool("read", Everywhere, FALSE, AuthenticateClub),
   call_internal_api        |-> Tool("medium_write", NotProd, FALSE, CallInternalApi),
   get_club_config          |-> Tool("read", Everywhere, FALSE, GetClubConfig),
   list_routes              |-> Tool("read", NotProd, FALSE, ListRoutes),
   call_api                 |-> Tool("low_write", NotProd, FALSE, CallApi),
   run_sql                  |-> Tool("read", {"local", "dev"}, FALSE, RunSql),
   get_config               |-> Tool("read", NotProd, FALSE, GetConfig),
   get_schema               |-> Tool("read", NotProd, FALSE, GetSchema),
   create_casual_rule       |-> Tool("medium_write", {"local", "dev"}, FALSE, CreateCasualBookingRule),
   update_casual_rule       |-> Tool("medium_write", {"local", "dev"}, FALSE, UpdateCasualBookingRule),
   update_configuration     |-> Tool("medium_write", NotProd, TRUE, UpdateConfiguration),
   create_visitor_green_fee |-> Tool("low_write", NotProd, FALSE, CreateVisitorGreenFee),
   create_booking           |-> Tool("low_write", NotProd, FALSE, CreateBooking),
   get_working_memory       |-> Tool("read", Everywhere, FALSE, GetWorkingMemory),
   update_working_memory    |-> Tool("low_write", Everywhere, FALSE, UpdateWorkingMemory),
   store_session_summary    |-> Tool("low_write", Everywhere, FALSE, StoreSessionSummary),
   get_historical_context   |-> Tool("read", Everywhere, FALSE, GetHistoricalContext)]

ASSUME ToolsAssumption ==
  /\ Tools \subseteq DOMAIN ToolTable
  /\ Roles \subseteq {"none", "reader", "operator", "admin"}
  /\ Environments \subseteq Everywhere
  /\ YoloModes \subseteq BOOLEAN
  /\ StaticKey \in BOOLEAN

-----------------------------------------------------------------------------
(* State                                                                   *)

\* The process's environment.
Deployments == [name : Environments, yolo : YoloModes]

References == {"number", "slug"}            \* names of the club
TokenKeys  == References \cup {"static"}    \* keys of _tokens

NoCall   == [tool |-> "none", ref |-> "none"]
NoKey    == "none"
NoToken  == <<NoKey, 0>>
NoHolder == "free"

ASSUME HolderAssumption == NoHolder \notin Requests

Refusals == {"permission_denied", "validation_error", "env_restricted", "approval_required"}
Outcomes == {"none", "open", "success", "failed", "timeout"} \cup Refusals
Phases   == {"idle", "ready", "lock", "exchange", "waiting"}

Open(r)     == audit[r] = "open"
Script(r)   == ToolTable[call[r].tool].script
Current(r)  == Script(r)[step[r]]
Op(r, i)    == Script(r)[i].op
IsWrite(r, i) == Op(r, i) \in {"write", "api"}

\* Rows of fe_users with the address.
Accounts == { e \in effects : call[e[1]].tool = "create_admin_user" }

Init ==
  /\ env \in Deployments
  /\ call = [r \in Requests |-> NoCall]
  /\ audit = [r \in Requests |-> "none"]
  /\ step = [r \in Requests |-> 0]
  /\ phase = [r \in Requests |-> "idle"]
  /\ carried = [r \in Requests |-> NoToken]
  /\ active = {}
  /\ effects = {}
  /\ redirected = {}
  /\ pending = {}
  /\ tokens = [k \in TokenKeys |-> 0]
  /\ issued = [k \in TokenKeys |-> 0]
  /\ dropped = [k \in TokenKeys |-> 0]
  /\ lock = NoHolder
  /\ clubs = "empty"
  /\ rejected = {}

-----------------------------------------------------------------------------
(* The pipeline                                                            *)

\* A known service token and a well-formed X-User-Id.
Authenticated(role) == role # "none"

\* Stages 2 to 7: token and user, input, environment, role for the tool's
\* risk, approval.  (No tool registered asks for OAuth scopes.)
Admission(t, role, valid) ==
  IF ~Authenticated(role)                    THEN "permission_denied"
  ELSE IF ~valid                             THEN "validation_error"
  ELSE IF env.name \notin t.envs                  THEN "env_restricted"
  ELSE IF t.risk # "read" /\ role = "reader" THEN "permission_denied"
  ELSE IF t.approval /\ ~env.yolo            THEN "approval_required"
  ELSE "open"

\* The bridge keeps the request and raises; nothing takes it out again.
RequireApproval(r, outcome) ==
  pending' = IF outcome = "approval_required" THEN pending \cup {r} ELSE pending

\* start_audit and stages 2 to 7; a refusal is audited and answered at once.
Process(r, tool, ref, outcome) ==
  LET open == outcome = "open"
  IN /\ audit' = [audit EXCEPT ![r] = outcome]
     /\ call' = [call EXCEPT ![r] = IF open THEN [tool |-> tool, ref |-> ref] ELSE NoCall]
     /\ step' = [step EXCEPT ![r] = IF open THEN 1 ELSE 0]
     /\ phase' = [phase EXCEPT ![r] = IF open THEN "ready" ELSE "idle"]
     /\ RequireApproval(r, outcome)

\* tools/call for a tool that is registered.
Receive(r) ==
  /\ audit[r] = "none"
  /\ \E tool \in Tools, ref \in References, role \in Roles, valid \in BOOLEAN :
       Process(r, tool, ref, Admission(ToolTable[tool], role, valid))
  /\ UNCHANGED <<env, carried, world, cache, clubs, rejected>>

\* The handler of r goes on as one of goes says: its next step, its answer
\* (stage 9) or an exception the pipeline audits and answers.
Proceed(r, goes) ==
  \E g \in goes :
    /\ step' = [step EXCEPT ![r] = IF g = "next" THEN @ + 1 ELSE 0]
    /\ phase' = [phase EXCEPT ![r] = IF g = "next" THEN "ready" ELSE "idle"]
    /\ carried' = [carried EXCEPT ![r] = NoToken]
    /\ audit' = CASE g = "next"  -> audit
                  [] g = "done"  -> [audit EXCEPT ![r] = "success"]
                  [] g = "error" -> [audit EXCEPT ![r] = "failed"]

\* Mutant: the token's lock stays with a handler that was cancelled.
ToolTimesOutHolding(r) ==
  /\ Open(r)
  /\ audit' = [audit EXCEPT ![r] = "timeout"]
  /\ step' = [step EXCEPT ![r] = 0]
  /\ phase' = [phase EXCEPT ![r] = "idle"]
  /\ carried' = [carried EXCEPT ![r] = NoToken]
  /\ UNCHANGED <<env, call, world, pending, cache, clubs, rejected>>

\* wait_for cancels the handler; the async with gives the lock back, what
\* the handler had begun goes on.
ToolTimesOut(r) ==
  /\ Open(r)
  /\ audit' = [audit EXCEPT ![r] = "timeout"]
  /\ step' = [step EXCEPT ![r] = 0]
  /\ phase' = [phase EXCEPT ![r] = "idle"]
  /\ carried' = [carried EXCEPT ![r] = NoToken]
  /\ lock' = IF lock = r THEN NoHolder ELSE lock
  /\ UNCHANGED <<env, call, world, pending, tokens, issued, dropped, clubs, rejected>>

-----------------------------------------------------------------------------
(* Commands                                                                *)

AtStep(r, ops) == phase[r] = "ready" /\ Current(r).op \in ops

\* The handler refuses its input, or the service has no container or URL.
CannotBegin(r) ==
  /\ phase[r] = "ready"
  /\ Proceed(r, Current(r).raised)
  /\ UNCHANGED <<env, call, world, pending, cache, clubs, rejected>>

Begin(r, token) ==
  /\ active' = active \cup {<<r, step[r]>>}
  /\ phase' = [phase EXCEPT ![r] = "waiting"]
  /\ carried' = [carried EXCEPT ![r] = token]
  /\ UNCHANGED <<audit, step>>

BeginCommand(r) ==
  /\ \/ AtStep(r, {"query", "write"})
     \/ AtStep(r, {"clubs"}) /\ clubs # "fresh"
  /\ Begin(r, NoToken)
  /\ UNCHANGED <<env, call, effects, redirected, pending, cache, clubs, rejected>>

\* _get_valid_clubs within the TTL.
UseClubCache(r) ==
  /\ AtStep(r, {"clubs"})
  /\ clubs = "fresh"
  /\ Proceed(r, Current(r).found \cup Current(r).empty)
  /\ UNCHANGED <<env, call, world, pending, cache, clubs, rejected>>

\* The first command of create_admin_user finds the account there is.
AnswersOf(r, i) ==
  IF call[r].tool = "create_admin_user" /\ i = 1
    THEN {IF Accounts # {} THEN "found" ELSE "empty", "failed"}
    ELSE {"found", "empty", "failed"}

Awaited(r, i) == phase[r] = "waiting" /\ step[r] = i

\* A write that succeeds has happened; one that fails may have.
TakesEffect(r, i, certain, possible) ==
  effects' \in ( IF ~IsWrite(r, i) \/ ~possible THEN {effects}
                 ELSE IF certain THEN {effects \cup {<<r, i>>}}
                 ELSE {effects, effects \cup {<<r, i>>}} )

\* The command of step i of r ends; its handler hears of it if it still waits.
CommandEnds(r, i) ==
  /\ <<r, i>> \in active
  /\ Op(r, i) \in {"query", "write", "clubs"}
  /\ active' = active \ {<<r, i>>}
  /\ \E answer \in AnswersOf(r, i) :
       /\ TakesEffect(r, i, answer # "failed", TRUE)
       /\ IF Awaited(r, i)
            THEN /\ Proceed(r, Current(r)[answer])
                 /\ clubs' = IF Op(r, i) = "clubs" /\ answer = "found" THEN "fresh" ELSE clubs
            ELSE UNCHANGED <<audit, handler, clubs>>
  /\ UNCHANGED <<env, call, redirected, pending, cache, rejected>>

\* The timeout of run_command or of the HTTP client.
StopsWaiting(r) ==
  /\ phase[r] = "waiting"
  /\ Proceed(r, Current(r).raised)
  /\ UNCHANGED <<env, call, world, pending, cache, clubs, rejected>>

-----------------------------------------------------------------------------
(* HTTP requests and BRS tokens                                            *)

Cached(k) == tokens[k] # 0

\* _resolve_club_slug of the teesheet handlers knows the number only from
\* the club cache, however old.
ApiKey(r) == IF call[r].ref = "slug" \/ clubs # "empty" THEN "slug" ELSE "number"

\* get_brs_auth_headers: the club's token under the name the caller used,
\* the static key's, or none.
TokenKey(r) ==
  LET op == Current(r).op IN
  IF op = "exchange"                             THEN "slug"
  ELSE IF op = "club_http" /\ Cached(call[r].ref) THEN call[r].ref
  ELSE IF op \in {"http", "club_http"} /\ StaticKey THEN "static"
  ELSE IF op = "api" /\ StaticKey                 THEN ApiKey(r)
  ELSE NoKey

\* A token, or none, in hand: authenticate_club is done, the others send
\* their request.
GoOnWith(r, token) ==
  IF Current(r).op = "exchange"
    THEN Proceed(r, Done) /\ UNCHANGED active
    ELSE Begin(r, token)

\* A cached token needs no lock.
SeekToken(r) ==
  /\ AtStep(r, {"http", "club_http", "api", "exchange"})
  /\ LET k == TokenKey(r) IN
       IF k = NoKey THEN GoOnWith(r, NoToken)
       ELSE IF Cached(k) THEN GoOnWith(r, <<k, tokens[k]>>)
       ELSE /\ phase' = [phase EXCEPT ![r] = "lock"]
            /\ carried' = [carried EXCEPT ![r] = <<k, 0>>]
            /\ UNCHANGED <<audit, step, active>>
  /\ UNCHANGED <<env, call, effects, redirected, pending, cache, clubs, rejected>>

\* Mutant: the cache is not looked at again with the lock in hand.
TakeLockUnchecked(r) ==
  /\ phase[r] = "lock"
  /\ lock = NoHolder
  /\ lock' = r
  /\ phase' = [phase EXCEPT ![r] = "exchange"]
  /\ UNCHANGED <<env, call, audit, step, carried, world, pending, tokens, issued, dropped, clubs, rejected>>

\* Double-check, then exchange under the one lock there is for all clubs.
TakeLock(r) ==
  /\ phase[r] = "lock"
  /\ lock = NoHolder
  /\ LET k == carried[r][1] IN
       IF Cached(k)
         THEN /\ GoOnWith(r, <<k, tokens[k]>>)
              /\ UNCHANGED lock
         ELSE /\ lock' = r
              /\ phase' = [phase EXCEPT ![r] = "exchange"]
              /\ UNCHANGED <<audit, step, carried, active>>
  /\ UNCHANGED <<env, call, effects, redirected, pending, tokens, issued, dropped, clubs, rejected>>

ExchangeSucceeds(r) ==
  /\ phase[r] = "exchange"
  /\ LET k == carried[r][1]
         n == issued[k] + 1
     IN /\ issued' = [issued EXCEPT ![k] = n]
        /\ tokens' = [tokens EXCEPT ![k] = n]
        /\ GoOnWith(r, <<k, n>>)
  /\ lock' = NoHolder
  /\ UNCHANGED <<env, call, effects, redirected, pending, dropped, clubs, rejected>>

\* The handler goes on without a token.
ExchangeFails(r) ==
  /\ phase[r] = "exchange"
  /\ GoOnWith(r, NoToken)
  /\ lock' = NoHolder
  /\ UNCHANGED <<env, call, effects, redirected, pending, tokens, issued, dropped, clubs, rejected>>

Drop(keys) ==
  /\ tokens' = [k \in TokenKeys |-> IF k \in keys THEN 0 ELSE tokens[k]]
  /\ dropped' = [k \in TokenKeys |-> IF k \in keys /\ Cached(k) THEN dropped[k] + 1 ELSE dropped[k]]

RequestAnswered(r, i) ==
  /\ <<r, i>> \in active
  /\ Op(r, i) \in {"http", "club_http", "api"}
  /\ active' = active \ {<<r, i>>}
  /\ \E answer \in {"found", "empty", "failed"} :
       /\ TakesEffect(r, i, answer # "failed", TRUE)
       /\ IF Awaited(r, i) THEN Proceed(r, Current(r)[answer])
                           ELSE UNCHANGED <<audit, handler>>
  /\ UNCHANGED <<env, call, redirected, pending, cache, clubs, rejected>>

\* A 3xx to call_api_handler, whose client follows none: no status of 400 or
\* more, so a success to its callers, whether the change was made or not.
RequestRedirected(r, i) ==
  /\ <<r, i>> \in active
  /\ Op(r, i) = "api"
  /\ active' = active \ {<<r, i>>}
  /\ redirected' = redirected \cup {<<r, i>>}
  /\ TakesEffect(r, i, FALSE, TRUE)
  /\ IF Awaited(r, i) THEN Proceed(r, Current(r).found)
                      ELSE UNCHANGED <<audit, handler>>
  /\ UNCHANGED <<env, call, pending, cache, clubs, rejected>>

\* Mutant: a 401 leaves the cache as it is.
RequestRefusedKept(r, i) ==
  /\ <<r, i>> \in active
  /\ Op(r, i) \in {"http", "club_http", "api"}
  /\ active' = active \ {<<r, i>>}
  /\ IF Awaited(r, i)
       THEN /\ Proceed(r, Current(r).failed)
            /\ rejected' = IF Op(r, i) # "api" /\ carried[r] # NoToken
                             THEN rejected \cup {carried[r]} ELSE rejected
       ELSE UNCHANGED <<audit, handler, rejected>>
  /\ UNCHANGED <<env, call, effects, redirected, pending, cache, clubs>>

\* 401.  make_http_call clears the club's token, or all of them when it was
\* given no club; call_api_handler clears none.
RequestRefused(r, i) ==
  /\ <<r, i>> \in active
  /\ Op(r, i) \in {"http", "club_http", "api"}
  /\ active' = active \ {<<r, i>>}
  /\ IF Awaited(r, i)
       THEN /\ Proceed(r, Current(r).failed)
            /\ CASE Op(r, i) = "club_http" -> Drop({call[r].ref})
                 [] Op(r, i) = "http"      -> Drop(TokenKeys)
                 [] Op(r, i) = "api"       -> Drop({})
            /\ rejected' = IF Op(r, i) # "api" /\ carried[r] # NoToken
                             THEN rejected \cup {carried[r]} ELSE rejected
       ELSE UNCHANGED <<audit, handler, tokens, dropped, rejected>>
  /\ UNCHANGED <<env, call, effects, redirected, pending, issued, lock, clubs>>

\* is_expired, sixty seconds before the end of its life.
TokenExpires(k) ==
  /\ Cached(k)
  /\ Drop({k})
  /\ UNCHANGED <<env, call, audit, handler, world, pending, issued, lock, clubs, rejected>>

ClubCacheExpires ==
  /\ clubs = "fresh"
  /\ clubs' = "stale"
  /\ UNCHANGED <<env, call, audit, handler, world, pending, cache, rejected>>

-----------------------------------------------------------------------------

Handle(r) ==
  \/ Receive(r)
  \/ CannotBegin(r)
  \/ BeginCommand(r)
  \/ UseClubCache(r)
  \/ StopsWaiting(r)
  \/ SeekToken(r)
  \/ TakeLock(r)
  \/ ExchangeSucceeds(r)
  \/ ExchangeFails(r)
  \/ ToolTimesOut(r)

Elsewhere ==
  \/ \E p \in active : CommandEnds(p[1], p[2])
  \/ \E p \in active : RequestAnswered(p[1], p[2])
  \/ \E p \in active : RequestRedirected(p[1], p[2])
  \/ \E p \in active : RequestRefused(p[1], p[2])
  \/ \E k \in TokenKeys : TokenExpires(k)
  \/ ClubCacheExpires

Next == (\E r \in Requests : Handle(r)) \/ Elsewhere

Spec == Init /\ [][Next]_vars

-----------------------------------------------------------------------------
(* Properties                                                              *)

Token == TokenKeys \X Nat

\* Every variable has its type; a step is one of the script of the call.
TypeOK ==
  /\ env \in Deployments
  /\ call \in [Requests -> [tool : Tools, ref : References] \cup {NoCall}]
  /\ audit \in [Requests -> Outcomes]
  /\ step \in [Requests -> Nat]
  /\ phase \in [Requests -> Phases]
  /\ carried \in [Requests -> Token \cup {NoToken}]
  /\ active \subseteq Requests \X Nat
  /\ effects \subseteq Requests \X Nat
  /\ redirected \subseteq Requests \X Nat
  /\ pending \subseteq Requests
  /\ tokens \in [TokenKeys -> Nat]
  /\ issued \in [TokenKeys -> Nat]
  /\ dropped \in [TokenKeys -> Nat]
  /\ lock \in Requests \cup {NoHolder}
  /\ clubs \in {"empty", "fresh", "stale"}
  /\ rejected \subseteq Token
  /\ \A r \in Requests : Open(r) <=> (call[r] # NoCall /\ step[r] \in DOMAIN Script(r))

\* A call that is answered and audited as a success has made the changes it
\* was for, whatever timed out, failed or was begun on the way (call_api hands
\* the status on and is left out).  For create_admin_user: the account exists.
\* A request that was redirected is the exception: it counts as done.
SuccessMeansDone ==
  \A r \in Requests : audit[r] = "success" =>
    CASE call[r].tool = "create_admin_user" -> Accounts # {}
      [] call[r].tool = "call_api"          -> TRUE
      [] OTHER -> \A i \in DOMAIN Script(r) : IsWrite(r, i) => <<r, i>> \in effects \cup redirected

\* What the answers of these handlers say: "Successfully updated", the fee and
\* the booking "created".  A redirect is answered so too.
ReportedChangesMade ==
  \A r \in Requests : audit[r] = "success" /\ call[r].tool \in
                         {"update_configuration", "create_visitor_green_fee", "create_booking"} =>
    \A i \in DOMAIN Script(r) : <<r, i>> \in effects

\* Tokens are exchanged only when there is none: however many handlers find the
\* cache empty at once, BRS issues one token per token that expired or was
\* cleared, and the first (get_token_for_club's double check).
NoRedundantExchange ==
  \A k \in TokenKeys : issued[k] <= dropped[k] + 1

\* The lock all token exchanges share belongs to a handler that is exchanging;
\* it is never left with one that was cancelled, failed or answered.
LockHeldByExchange ==
  lock # NoHolder => Open(lock) /\ phase[lock] = "exchange"

\* Whoever fails, times out or is refused, the exchange lock is left free.
Sound == TypeOK /\ LockHeldByExchange

\* A club's token that came back with 401 is not handed out again
\* (make_http_call clears it, and only a new exchange puts one in).
RejectedClubTokenDropped ==
  \A token \in rejected : token[1] # "static" => tokens[token[1]] # token[2]

\* No token that came back with 401 is handed out again: "If we got a 401,
\* clear the BRS token cache so next call refreshes" (http_utils.py).  The
\* token of the static key, used for a club without one, stays.
RejectedTokenDropped ==
  \A token \in rejected : tokens[token[1]] # token[2]

\* create_admin_user "Returns existing user if email already registered": one
\* account per address.  Two calls may both find none, and an insert that
\* timed out may still come.
OneAccountPerEmail == Cardinality(Accounts) <= 1
=============================================================================
