---------------------------- MODULE Credentials ----------------------------
(***************************************************************************)
(* The external_credentials table of one user, tenant and provider, and    *)
(* the two APIs that share it: CredentialStore with the routes of          *)
(* app/api/credentials.py (OAuth authorization, tokens refreshed on use,   *)
(* personal access tokens, disconnect), and the integration routes of      *)
(* app/api/integrations.py with CredentialService and StateTokenStore.     *)
(*                                                                         *)
(* Every request runs in a thread or a process of its own, so a request    *)
(* may be overtaken between its query and its commit, and while a provider *)
(* answers.  A refresh is serialised by a PostgreSQL advisory lock, which  *)
(* belongs to the database connection that took it: a commit returns the   *)
(* connection to the pool, and what follows may run on another one.        *)
(*                                                                         *)
(* Secrets are left out but for the refresh token, a number; 0 is none.    *)
(***************************************************************************)
EXTENDS Naturals, FiniteSets, Sequences

CONSTANTS Requests,  \* requests received
          States,    \* OAuth state parameters generated
          Conns      \* connections of the database pool

VARIABLES hasFlow,      \* the store was created with an oauth_flow
          rows,         \* external_credentials, in order of insertion
          integration,  \* the tenant's integration is in the database
          gatewayStates,      \* OAuthStateStore._states: absent, or its age
          integrationStates,  \* StateTokenStore._store: absent, or its age
          task,         \* what each request is doing
          lock,         \* the advisory lock: its connection and depth
          issued,       \* grants the provider has issued
          accepted      \* refresh tokens the provider accepts

table == <<rows, integration>>
stores == <<gatewayStates, integrationStates>>
provider == <<issued, accepted>>
vars == <<hasFlow, table, stores, task, lock, provider>>

None == "none"

ASSUME ConnAssumption == None \notin Conns

Kinds == {"oauth", "pat"}
Ages  == {"absent", "fresh", "old", "wrapped"}

Row == [kind : Kinds, owner : {"gateway", "integration"}, revoked : BOOLEAN,
        refresh : Nat, expiry : {"never", "later", "past"}]

\* What a request does next; the last four are its answers.
Steps == {"idle", "exchange", "lock", "lost", "refresh", "answered", "refused",
          "unlock", "write", "insert", "done", "failed", "rejected"}

Task == [op : {None, "get", "callback", "pat", "int_callback", "int_pat", "test"},
         at : Steps, state : States \cup {None}, row : Nat, seen : Row,
         refresh : Nat, conn : Conns \cup {None}, ok : BOOLEAN]

NewRow(kind, owner, refresh, expiry) ==
  [kind |-> kind, owner |-> owner, revoked |-> FALSE,
   refresh |-> refresh, expiry |-> expiry]

Unseen == NewRow("pat", "gateway", 0, "never")

Idle == [op |-> None, at |-> "idle", state |-> None, row |-> 0, seen |-> Unseen,
         refresh |-> 0, conn |-> None, ok |-> FALSE]

TypeOK ==
  /\ hasFlow \in BOOLEAN
  /\ rows \in Seq(Row)
  /\ integration \in BOOLEAN
  /\ gatewayStates \in [States -> Ages]
  /\ integrationStates \in [States -> Ages \ {"wrapped"}]
  /\ task \in [Requests -> Task]
  /\ lock \in [conn : Conns \cup {None}, depth : Nat]
  /\ lock.conn = None <=> lock.depth = 0
  /\ issued \in Nat
  /\ accepted \subseteq 1..issued

-----------------------------------------------------------------------------
(* Queries.  None of them has an ORDER BY: first() may return any match.   *)

Active(i) == ~rows[i].revoked
OfGateway == DOMAIN rows
OfIntegration == {i \in DOMAIN rows : rows[i].owner = "integration"}

Found(S) == IF S = {} THEN {0} ELSE S

Seen(i) == IF i = 0 THEN Unseen ELSE rows[i]

\* The ORM updates the columns that differ from what the request has read;
\* a new expiry always does.
Written(i, seen, new) ==
  [rows EXCEPT ![i] = [f \in DOMAIN @ |->
     IF new[f] # seen[f] \/ (f = "expiry" /\ new.expiry = "later") THEN new[f] ELSE @[f]]]

\* A request begins, goes on, or ends.
Begin(r, op, at)  == task' = [task EXCEPT ![r] = [Idle EXCEPT !.op = op, !.at = at]]
Go(r, at)         == task' = [task EXCEPT ![r].at = at]
IsIdle(r)         == task[r].at = "idle"
AtStep(r, op, at) == task[r].op = op /\ task[r].at = at

Init ==
  /\ hasFlow \in BOOLEAN
  /\ integration \in BOOLEAN
  /\ rows \in {<<>>, <<NewRow("oauth", "gateway", 1, "past")>>}
  /\ issued = Len(rows)
  /\ accepted = 1..issued
  /\ gatewayStates = [s \in States |-> "absent"]
  /\ integrationStates = [s \in States |-> "absent"]
  /\ task = [r \in Requests |-> Idle]
  /\ lock = [conn |-> None, depth |-> 0]

-----------------------------------------------------------------------------
(* The OAuth state stores.                                                 *)

\* Both compare an age with their TTL when a state is looked up;
\* OAuthStateStore compares timedelta.seconds, which begins anew every day.
InTime(age) == age \in {"fresh", "wrapped"}

NextAge(age) == IF age = "fresh" THEN "old" ELSE "wrapped"

\* _cleanup runs whenever a state is stored.
StoreState(s) ==
  [t \in States |-> IF t = s THEN "fresh"
                    ELSE IF InTime(gatewayStates[t]) THEN gatewayStates[t] ELSE "absent"]

StartAuthorization(s) ==
  /\ gatewayStates[s] = "absent" /\ integrationStates[s] = "absent"
  /\ \A r \in Requests : task[r].state # s
  /\ gatewayStates' = StoreState(s)
  /\ UNCHANGED <<hasFlow, table, integrationStates, task, lock, provider>>

InitiateOAuth(s) ==
  /\ integration
  /\ gatewayStates[s] = "absent" /\ integrationStates[s] = "absent"
  /\ \A r \in Requests : task[r].state # s
  /\ integrationStates' = [integrationStates EXCEPT ![s] = "fresh"]
  /\ UNCHANGED <<hasFlow, table, gatewayStates, task, lock, provider>>

StateAges(s) ==
  /\ \/ /\ gatewayStates[s] \in {"fresh", "old"}
        /\ gatewayStates' = [gatewayStates EXCEPT ![s] = NextAge(@)]
        /\ UNCHANGED integrationStates
     \/ /\ integrationStates[s] = "fresh"
        /\ integrationStates' = [integrationStates EXCEPT ![s] = "old"]
        /\ UNCHANGED gatewayStates
  /\ UNCHANGED <<hasFlow, table, task, lock, provider>>

-----------------------------------------------------------------------------
(* OAuth callback of the gateway's credentials: the state is popped, the   *)
(* code exchanged, then store_oauth_credential.                            *)

TakeState(s) == gatewayStates' = [gatewayStates EXCEPT ![s] = "absent"]

Callback(r, s) ==
  /\ IsIdle(r)
  /\ gatewayStates[s] # "absent"
  /\ TakeState(s)
  /\ task' = [task EXCEPT ![r] = [Idle EXCEPT !.op = "callback", !.state = s,
                 !.at = IF InTime(gatewayStates[s]) THEN "exchange" ELSE "rejected"]]
  /\ UNCHANGED <<hasFlow, table, integrationStates, lock, provider>>

\* The provider may send no refresh token.  The query of the store follows.
Exchange(r) ==
  /\ AtStep(r, "callback", "exchange")
  /\ \/ /\ Go(r, "failed")
        /\ UNCHANGED provider
     \/ \E token \in {0, issued + 1}, i \in Found(OfGateway) :
          /\ issued' = issued + 1
          /\ accepted' = accepted \cup ({token} \ {0})
          /\ task' = [task EXCEPT ![r].at = "write", ![r].row = i, ![r].seen = Seen(i),
                                  ![r].refresh = token]
  /\ UNCHANGED <<hasFlow, table, stores, lock>>

\* An existing row keeps its credential_type and its owner.
StoreOAuth(r) ==
  /\ AtStep(r, "callback", "write")
  /\ rows' = IF task[r].row = 0
             THEN Append(rows, NewRow("oauth", "gateway", task[r].refresh, "later"))
             ELSE LET seen == task[r].seen IN
                  Written(task[r].row, seen,
                          NewRow(seen.kind, seen.owner, task[r].refresh, "later"))
  /\ Go(r, "done")
  /\ UNCHANGED <<hasFlow, integration, stores, lock, provider>>

(* A personal access token: validated, then store_pat_credential.          *)

ValidatePAT(r) ==
  /\ IsIdle(r)
  /\ \/ Begin(r, "pat", "rejected")
     \/ \E i \in Found(OfGateway) :
          task' = [task EXCEPT ![r] = [Idle EXCEPT !.op = "pat", !.at = "write",
                                       !.row = i, !.seen = Seen(i)]]
  /\ UNCHANGED <<hasFlow, table, stores, lock, provider>>

StorePAT(r) ==
  /\ AtStep(r, "pat", "write")
  /\ rows' = IF task[r].row = 0
             THEN Append(rows, NewRow("pat", "gateway", 0, "never"))
             ELSE LET seen == task[r].seen IN
                  Written(task[r].row, seen, NewRow("pat", seen.owner, 0, "never"))
  /\ Go(r, "done")
  /\ UNCHANGED <<hasFlow, integration, stores, lock, provider>>

\* disconnect_provider revokes one active row.
Disconnect ==
  /\ \E i \in {j \in OfGateway : Active(j)} : rows' = [rows EXCEPT ![i].revoked = TRUE]
  /\ UNCHANGED <<hasFlow, integration, stores, task, lock, provider>>

-----------------------------------------------------------------------------
(* get_credential and _refresh_token.                                      *)

Expires(i) ==
  /\ rows[i].expiry = "later"
  /\ rows' = [rows EXCEPT ![i].expiry = "past"]
  /\ UNCHANGED <<hasFlow, integration, stores, task, lock, provider>>

NeedsRefresh(i) == rows[i].kind = "oauth" /\ rows[i].expiry = "past" /\ rows[i].refresh # 0

Outcome(i) ==
  IF i = 0 THEN "failed"
  ELSE IF ~NeedsRefresh(i) THEN "done"
  ELSE IF hasFlow THEN "lock" ELSE "failed"

\* Found and decrypted; a key that has changed fails the request.
GetCredential(r) ==
  /\ IsIdle(r)
  /\ \E i \in Found({j \in OfGateway : Active(j)}) :
       \E next \in {Outcome(i), "failed"} :
         task' = [task EXCEPT ![r] =
                    [Idle EXCEPT !.op = "get", !.at = next, !.row = i,
                                 !.refresh = Seen(i).refresh]]
  /\ UNCHANGED <<hasFlow, table, stores, lock, provider>>

InUse == {task[r].conn : r \in Requests} \ {None}

\* Mutant: the answer of pg_try_advisory_lock is not looked at.
AnyConnGetsLock(k) == TRUE

GetsLock(k) == lock.conn \in {None, k}

\* pg_try_advisory_lock: again and again on the connection that has it.
TryLock(r) ==
  /\ AtStep(r, "get", "lock")
  /\ \E k \in Conns \ InUse :
       IF GetsLock(k)
       THEN /\ lock' = [conn |-> k, depth |-> lock.depth + 1]
            /\ task' = [task EXCEPT ![r].at = "refresh", ![r].conn = k]
       ELSE /\ task' = [task EXCEPT ![r].at = "lost", ![r].conn = k]
            /\ UNCHANGED lock
  /\ UNCHANGED <<hasFlow, table, stores, provider>>

\* The second get_credential is called without the tenant and finds nothing.
LoseLock(r) ==
  /\ AtStep(r, "get", "lost")
  /\ task' = [task EXCEPT ![r].at = "failed", ![r].conn = None]
  /\ UNCHANGED <<hasFlow, table, stores, lock, provider>>

\* With the refresh token read before the lock; the provider may replace it.
AskRefresh(r) ==
  /\ AtStep(r, "get", "refresh")
  /\ \/ /\ Go(r, "refused")
        /\ UNCHANGED provider
     \/ /\ task[r].refresh \in accepted
        /\ Go(r, "answered")
        /\ UNCHANGED provider
     \/ /\ task[r].refresh \in accepted
        /\ issued' = issued + 1
        /\ accepted' = (accepted \ {task[r].refresh}) \cup {issued + 1}
        /\ task' = [task EXCEPT ![r].at = "answered", ![r].refresh = issued + 1]
  /\ UNCHANGED <<hasFlow, table, stores, lock>>

\* Mutant: the refresh token of the answer is not stored.
KeepRefreshToken(row, token) == [row EXCEPT !.expiry = "later"]

Refreshed(row, token) == [row EXCEPT !.refresh = token, !.expiry = "later"]

CommitRefresh(r) ==
  /\ task[r].op = "get" /\ task[r].at \in {"answered", "refused"}
  /\ LET ok == task[r].at = "answered" IN
       /\ rows' = IF ok THEN [rows EXCEPT ![task[r].row] = Refreshed(@, task[r].refresh)]
                  ELSE [rows EXCEPT ![task[r].row].revoked = TRUE]
       /\ task' = [task EXCEPT ![r].at = "unlock", ![r].conn = None, ![r].ok = ok]
  /\ UNCHANGED <<hasFlow, integration, stores, lock, provider>>

\* pg_advisory_unlock; on a connection that does not have the lock it only warns.
Released(k) ==
  IF lock.conn # k THEN lock
  ELSE [conn |-> IF lock.depth = 1 THEN None ELSE k, depth |-> lock.depth - 1]

\* On the connection the session gets now, which may not be the one it had.
Unlock(r) ==
  /\ AtStep(r, "get", "unlock")
  /\ \E k \in Conns \ InUse : lock' = Released(k)
  /\ Go(r, IF task[r].ok THEN "done" ELSE "failed")
  /\ UNCHANGED <<hasFlow, table, stores, provider>>

-----------------------------------------------------------------------------
(* Credentials of an integration.                                          *)

CreateIntegration ==
  /\ ~integration /\ OfIntegration = {}
  /\ \A r \in Requests : task[r].op \notin {"int_callback", "int_pat"}
  /\ integration' = TRUE
  /\ UNCHANGED <<hasFlow, rows, stores, task, lock, provider>>

\* Its rows stay, their integration_id set to NULL by the ORM.
DeleteIntegration ==
  /\ integration
  /\ integration' = FALSE
  /\ rows' = [i \in DOMAIN rows |-> [rows[i] EXCEPT !.owner = "gateway"]]
  /\ UNCHANGED <<hasFlow, stores, task, lock, provider>>

\* retrieve leaves a state in time where it is.
IntegrationCallback(r, s) ==
  /\ IsIdle(r)
  /\ integrationStates[s] # "absent"
  /\ integrationStates' =
       IF integrationStates[s] = "old" THEN [integrationStates EXCEPT ![s] = "absent"]
       ELSE integrationStates
  /\ task' = [task EXCEPT ![r] = [Idle EXCEPT !.op = "int_callback", !.state = s,
                 !.at = IF integration /\ integrationStates[s] = "fresh" THEN "exchange"
                        ELSE "rejected"]]
  /\ UNCHANGED <<hasFlow, table, gatewayStates, lock, provider>>

ExchangeIntegrationCode(r) ==
  /\ AtStep(r, "int_callback", "exchange")
  /\ \E next \in {"insert", "failed"} : Go(r, next)
  /\ UNCHANGED <<hasFlow, table, stores, lock, provider>>

\* A row is added each time; it has neither refresh token nor expiry.  The
\* foreign key fails when the integration is gone.
InsertIntegrationOAuth(r) ==
  /\ AtStep(r, "int_callback", "insert")
  /\ \/ /\ ~integration
        /\ Go(r, "failed")
        /\ UNCHANGED rows
     \/ /\ integration
        /\ rows' = Append(rows, NewRow("oauth", "integration", 0, "never"))
        /\ Go(r, "done")
  /\ UNCHANGED <<hasFlow, integration, stores, lock, provider>>

\* store_api_key and store_pat: validated, then CredentialService's query.
ValidateIntegrationPAT(r) ==
  /\ IsIdle(r)
  /\ \/ Begin(r, "int_pat", "rejected")
     \/ /\ integration
        /\ \E i \in Found({j \in OfIntegration : rows[j].kind = "pat"}) :
             task' = [task EXCEPT ![r] = [Idle EXCEPT !.op = "int_pat", !.at = "write",
                                            !.row = i, !.seen = Seen(i)]]
  /\ UNCHANGED <<hasFlow, table, stores, lock, provider>>

StoreIntegrationPAT(r) ==
  /\ AtStep(r, "int_pat", "write")
  /\ IF task[r].row # 0
     THEN /\ rows' = LET seen == task[r].seen IN
                     Written(task[r].row, seen, [seen EXCEPT !.revoked = FALSE])
          /\ Go(r, "done")
     ELSE IF integration
     THEN /\ rows' = Append(rows, NewRow("pat", "integration", 0, "never"))
          /\ Go(r, "done")
     ELSE Go(r, "failed") /\ UNCHANGED rows
  /\ UNCHANGED <<hasFlow, integration, stores, lock, provider>>

\* Any active row of the integration is the one tested.
TestConnection(r) ==
  /\ IsIdle(r)
  /\ \E i \in Found({j \in OfIntegration : Active(j)}) :
       task' = [task EXCEPT ![r] = [Idle EXCEPT !.op = "test", !.row = i,
                                    !.at = IF integration /\ i # 0 THEN "done" ELSE "failed"]]
  /\ UNCHANGED <<hasFlow, table, stores, lock, provider>>

-----------------------------------------------------------------------------

Next ==
  \/ \E s \in States : StartAuthorization(s) \/ InitiateOAuth(s) \/ StateAges(s)
  \/ \E r \in Requests, s \in States : Callback(r, s) \/ IntegrationCallback(r, s)
  \/ \E r \in Requests :
       \/ Exchange(r) \/ StoreOAuth(r) \/ ValidatePAT(r) \/ StorePAT(r)
       \/ GetCredential(r) \/ TryLock(r) \/ LoseLock(r) \/ AskRefresh(r)
       \/ CommitRefresh(r) \/ Unlock(r)
       \/ ExchangeIntegrationCode(r) \/ InsertIntegrationOAuth(r)
       \/ ValidateIntegrationPAT(r) \/ StoreIntegrationPAT(r) \/ TestConnection(r)
  \/ \E i \in DOMAIN rows : Expires(i)
  \/ Disconnect \/ CreateIntegration \/ DeleteIntegration

Spec == Init /\ [][Next]_vars

-----------------------------------------------------------------------------
(* Properties.                                                             *)

\* At most one request at a time uses a refresh token of this user and
\* provider, whatever connections of the pool keep the advisory lock after a
\* commit gave them back (store.py, _refresh_token).
OneRefreshAtATime ==
  \A r1, r2 \in Requests :
    /\ task[r1].at \in {"refresh", "answered", "refused"}
    /\ task[r2].at \in {"refresh", "answered", "refused"}
    => r1 = r2

\* The refresh token of an active row is one the provider accepts, but between
\* the provider's answer and the commit of it: whatever request replaces the
\* row meanwhile, and whatever stale copy a later refresh goes out with.
ActiveTokenUsable ==
  \A i \in DOMAIN rows :
    /\ Active(i) /\ rows[i].refresh # 0
    /\ \A r \in Requests : ~(AtStep(r, "get", "answered") /\ task[r].row = i)
    => rows[i].refresh \in accepted

\* A state parameter of the gateway's authorization is good for one exchange,
\* also when the provider's redirect arrives twice (oauth_flow.py, get).
StateUsedOnce ==
  \A r1, r2 \in Requests :
    /\ task[r1].op = "callback" /\ task[r2].op = "callback"
    /\ task[r1].state = task[r2].state
    /\ task[r1].at # "rejected" /\ task[r2].at # "rejected"
    => r1 = r2

\* Two redirects, two refreshes and two connections at once use a state or a
\* refresh token one at a time.
Sound == TypeOK /\ OneRefreshAtATime /\ StateUsedOnce

\* external_credential.py:51: one credential per user and provider.
OneCredentialPerProvider == Cardinality({i \in DOMAIN rows : Active(i)}) <= 1

=============================================================================
