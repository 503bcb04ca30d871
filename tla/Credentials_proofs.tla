------------------------- MODULE Credentials_proofs -------------------------
(***************************************************************************)
(* Proofs about Credentials, for any requests, OAuth states and            *)
(* connections.                                                            *)
(***************************************************************************)
EXTENDS Credentials, SequenceTheorems, TLAPS

-----------------------------------------------------------------------------
(* The inductive invariant                                                 *)

Waits == {"lock", "lost", "refresh", "answered", "refused", "unlock"}

\* A request is about a row there is, and refreshes only for get_credential.
TaskOK(t, n) ==
  /\ t.row \in 0..n
  /\ t.at \in Waits => t.op = "get" /\ t.row # 0

TaskInv == \A r \in Requests : TaskOK(task[r], Len(rows))

Ops == {None, "get", "callback", "pat", "int_callback", "int_pat", "test"}

\* Two requests have two connections.
ConnInv ==
  \A r1, r2 \in Requests : task[r1].conn # None /\ task[r1].conn = task[r2].conn => r1 = r2

\* Who refreshes has the connection that has the lock.
Refreshing(r) == task[r].at \in {"refresh", "answered", "refused"}

LockInv == \A r \in Requests : Refreshing(r) => task[r].conn # None /\ lock.conn = task[r].conn

\* A state that is still stored was used by nobody.
StateInv ==
  \A r \in Requests :
    task[r].op = "callback" /\ task[r].at # "rejected" =>
      /\ task[r].state \in States
      /\ gatewayStates[task[r].state] = "absent"

\* Refresh tokens that a request has read from a row or got for it, and those
\* of an authorization that is not stored yet.
Bears(t)    == t.op = "get" /\ t.at \in {"lock", "refresh", "answered"}
Carries(t)  == t.op = "callback" /\ t.at = "write"
Answered(t) == t.op = "get" /\ t.at = "answered"

\* Refresh token x is in row i of R, or borne by a request for it.
Owns(R, T, i, x) ==
  \/ i \in DOMAIN R /\ R[i].refresh = x
  \/ \E r \in Requests : Bears(T[r]) /\ T[r].row = i /\ T[r].refresh = x

\* No refresh token is in two places, and none is newer than the last issued.
Unique(R, T, n) ==
  \A x \in Nat \ {0} :
    /\ \A i, j \in Nat : Owns(R, T, i, x) /\ Owns(R, T, j, x) => i = j
    /\ \A r \in Requests : Carries(T[r]) /\ T[r].refresh = x =>
         /\ \A i \in Nat : ~Owns(R, T, i, x)
         /\ \A q \in Requests : Carries(T[q]) /\ T[q].refresh = x => q = r
    /\ \A i \in Nat : Owns(R, T, i, x) => x <= n
    /\ \A r \in Requests : Carries(T[r]) /\ T[r].refresh = x => x <= n

\* The token of a row is accepted unless a new one is on its way.
Accept(R, T, A) ==
  /\ \A i \in DOMAIN R :
       \/ R[i].refresh = 0 \/ R[i].refresh \in A
       \/ \E r \in Requests : Answered(T[r]) /\ T[r].row = i
  /\ \A r \in Requests : Answered(T[r]) => T[r].refresh \in A
  /\ \A r \in Requests : Carries(T[r]) => T[r].refresh = 0 \/ T[r].refresh \in A

TokenInv == Unique(rows, task, issued) /\ Accept(rows, task, accepted)

IInv == TypeOK /\ TaskInv /\ ConnInv /\ LockInv /\ StateInv /\ StateUsedOnce /\ TokenInv

-----------------------------------------------------------------------------
(* Rows and tasks                                                          *)

LEMMA RowSet ==
  ASSUME rows \in Seq(Row), NEW i \in DOMAIN rows, NEW x \in Row, rows' = [rows EXCEPT ![i] = x]
  PROVE  /\ rows' \in Seq(Row) /\ Len(rows') = Len(rows) /\ DOMAIN rows' = DOMAIN rows
         /\ rows'[i] = x
         /\ \A j \in DOMAIN rows \ {i} : rows'[j] = rows[j]
OBVIOUS

LEMMA RowAdd ==
  ASSUME rows \in Seq(Row), NEW x \in Row, rows' = Append(rows, x)
  PROVE  /\ rows' \in Seq(Row) /\ Len(rows') = Len(rows) + 1
         /\ DOMAIN rows' = DOMAIN rows \cup {Len(rows) + 1}
         /\ rows'[Len(rows) + 1] = x
         /\ \A j \in DOMAIN rows : rows'[j] = rows[j]
OBVIOUS

LEMMA Rows == ASSUME rows \in Seq(Row)
  PROVE /\ Len(rows) \in Nat /\ DOMAIN rows = 1..Len(rows)
        /\ \A i \in DOMAIN rows : rows[i] \in Row
OBVIOUS

\* The row an update writes.
LEMMA WrittenRow ==
  ASSUME rows \in Seq(Row), NEW i \in DOMAIN rows, NEW seen \in Row, NEW new \in Row,
         rows' = Written(i, seen, new)
  PROVE  \E x \in Row :
           /\ rows' = [rows EXCEPT ![i] = x]
           /\ x.refresh = IF new.refresh # seen.refresh THEN new.refresh ELSE rows[i].refresh
<1> DEFINE row == rows[i]
           x == [f \in DOMAIN row |->
              IF new[f] # seen[f] \/ (f = "expiry" /\ new.expiry = "later") THEN new[f] ELSE row[f]]
<1>1. row \in Row
  OBVIOUS
<1>2. rows' = [rows EXCEPT ![i] = x]
  BY DEF Written
<1> HIDE DEF row
<1>3. /\ x \in Row
      /\ x.refresh = IF new.refresh # seen.refresh THEN new.refresh ELSE row.refresh
  BY <1>1 DEF Row
<1> HIDE DEF x
<1> QED  BY <1>2, <1>3 DEF row

LEMMA NewRowOK ==
  ASSUME NEW kind \in Kinds, NEW owner \in {"gateway", "integration"}, NEW refresh \in Nat,
         NEW expiry \in {"never", "later", "past"}
  PROVE  /\ NewRow(kind, owner, refresh, expiry) \in Row
         /\ NewRow(kind, owner, refresh, expiry).refresh = refresh
BY DEF NewRow, Row

LEMMA SeenOK ==
  ASSUME rows \in Seq(Row), NEW S, S \subseteq DOMAIN rows, NEW i \in Found(S)
  PROVE  i \in 0..Len(rows) /\ Seen(i) \in Row
<1>1. Unseen \in Row
  BY NewRowOK DEF Unseen, Kinds
<1>2. i = 0 \/ i \in DOMAIN rows
  BY DEF Found
<1> QED  BY <1>1, <1>2, Rows DEF Seen

LEMMA IdleOK ==
  /\ Idle \in Task
  /\ Idle.conn = None /\ Idle.row = 0 /\ Idle.refresh = 0 /\ Idle.seen = Unseen /\ Unseen \in Row
<1>1. Unseen \in Row
  BY NewRowOK DEF Unseen, Kinds
<1> QED  BY <1>1 DEF Idle, Task, Steps

\* The task of a request becomes new; the other tasks stay.
LEMMA Becomes ==
  ASSUME TypeOK, NEW r \in Requests, NEW new \in Task, task' = [task EXCEPT ![r] = new]
  PROVE  /\ task'[r] = new
         /\ task' \in [Requests -> Task]
         /\ \A q \in Requests : q # r => task'[q] = task[q]
BY DEF TypeOK

Begun(r) ==
  \/ \E s \in States : Callback(r, s) \/ IntegrationCallback(r, s)
  \/ ValidatePAT(r) \/ GetCredential(r) \/ ValidateIntegrationPAT(r) \/ TestConnection(r)

\* Only the task of r changes.
Moves(r) ==
  /\ task' \in [Requests -> Task]
  /\ \A q \in Requests : q # r => task'[q] = task[q]

\* A request begins: it has no connection, and is at a row there is.
LEMMA Begins ==
  ASSUME TypeOK, NEW r \in Requests, Begun(r)
  PROVE  /\ task[r].at = "idle"
         /\ UNCHANGED <<rows, provider, lock>>
         /\ Moves(r)
         /\ task'[r].row \in 0..Len(rows) /\ task'[r].conn = None
         /\ task'[r].at \in {"exchange", "rejected", "write", "lock", "done", "failed"}
         /\ task'[r].at = "lock" => /\ task'[r].op = "get" /\ task'[r].row # 0
                                    /\ task'[r].refresh = rows[task'[r].row].refresh
         /\ ~Carries(task'[r])
         /\ task'[r].op = "callback" =>
              \E s \in States : /\ task'[r].state = s /\ gatewayStates[s] # "absent"
                               /\ gatewayStates' = [gatewayStates EXCEPT ![s] = "absent"]
         /\ task'[r].op # "callback" => UNCHANGED gatewayStates
<1>1. rows \in Seq(Row) /\ Len(rows) \in Nat /\ DOMAIN rows = 1..Len(rows)
  BY Rows DEF TypeOK
<1>2. task[r].at = "idle" /\ UNCHANGED <<rows, provider, lock>>
  BY DEF Begun, Callback, IntegrationCallback, ValidatePAT, GetCredential,
         ValidateIntegrationPAT, TestConnection, IsIdle, table
<1>3. ValidatePAT(r) \/ GetCredential(r) \/ ValidateIntegrationPAT(r) \/ TestConnection(r)
       => UNCHANGED gatewayStates
  BY DEF ValidatePAT, GetCredential, ValidateIntegrationPAT, TestConnection, stores
<1>4. CASE \E s \in States : Callback(r, s) \/ IntegrationCallback(r, s)
  <2>1. PICK s \in States, op \in {"callback", "int_callback"}, at \in {"exchange", "rejected"} :
          /\ task' = [task EXCEPT ![r] = [Idle EXCEPT !.op = op, !.state = s, !.at = at]]
          /\ op = "callback" => /\ gatewayStates[s] # "absent"
                                /\ gatewayStates' = [gatewayStates EXCEPT ![s] = "absent"]
          /\ op # "callback" => UNCHANGED gatewayStates
    BY <1>4 DEF Callback, IntegrationCallback, TakeState
  <2> DEFINE new == [Idle EXCEPT !.op = op, !.state = s, !.at = at]
  <2>2. op \in Ops /\ at \in Steps
    BY DEF Ops, Steps
  <2>3. /\ new \in Task
        /\ new.conn = None /\ new.row = 0 /\ new.at = at /\ new.op = op /\ new.state = s
    BY <2>2, IdleOK DEF Task, Ops
  <2>4. task' = [task EXCEPT ![r] = new]
    BY <2>1
  <2> HIDE DEF new
  <2>5. task'[r] = new /\ Moves(r)
    BY <2>3, <2>4, Becomes DEF Moves
  <2>6. task'[r].op = op /\ task'[r].state = s
    BY <2>3, <2>5
  <2>7. task'[r].op # "callback" => UNCHANGED gatewayStates
    BY <2>1, <2>3, <2>5
  <2>8. task'[r].row \in 0..Len(rows) /\ task'[r].conn = None /\ task'[r].at \in {"exchange", "rejected"}
    <3>1. task'[r].row = 0 /\ task'[r].at = at /\ task'[r].conn = None
      BY <2>3, <2>5
    <3> QED  BY <1>1, <3>1
  <2>9. ~Carries(task'[r])
    BY <2>8 DEF Carries
  <2>10. CASE op = "callback"
    <3>1. gatewayStates[s] # "absent" /\ gatewayStates' = [gatewayStates EXCEPT ![s] = "absent"]
      BY <2>1, <2>10
    <3> QED  BY <1>2, <2>5, <2>6, <2>7, <2>8, <2>9, <3>1
  <2> QED  BY <1>2, <2>5, <2>6, <2>7, <2>8, <2>9, <2>10
<1>5. CASE ValidatePAT(r) \/ ValidateIntegrationPAT(r)
  <2>1. PICK op \in {"pat", "int_pat"} :
          \/ Begin(r, op, "rejected")
          \/ \E row \in Found(OfGateway) \cup Found({j \in OfIntegration : rows[j].kind = "pat"}) :
               task' = [task EXCEPT ![r] = [Idle EXCEPT !.op = op, !.at = "write",
                                              !.row = row, !.seen = Seen(row)]]
    BY <1>5 DEF ValidatePAT, ValidateIntegrationPAT
  <2>2. op \in Ops /\ "rejected" \in Steps /\ "write" \in Steps
    BY DEF Ops, Steps
  <2>3. CASE Begin(r, op, "rejected")
    <3> DEFINE new == [Idle EXCEPT !.op = op, !.at = "rejected"]
    <3>1. /\ new \in Task
          /\ new.conn = None /\ new.row = 0 /\ new.at = "rejected" /\ new.op = op
      BY <2>2, IdleOK DEF Task, Ops
    <3>2. task' = [task EXCEPT ![r] = new]
      BY <2>3 DEF Begin
    <3> HIDE DEF new
    <3>3. task'[r] = new /\ Moves(r)
      BY <3>1, <3>2, Becomes DEF Moves
    <3> QED  BY <1>1, <1>2, <1>5, <1>3, <3>1, <3>3 DEF Carries
  <2>4. CASE \E row \in Found(OfGateway) \cup Found({j \in OfIntegration : rows[j].kind = "pat"}) :
               task' = [task EXCEPT ![r] = [Idle EXCEPT !.op = op, !.at = "write",
                                              !.row = row, !.seen = Seen(row)]]
    <3>1. PICK row \in Found(OfGateway) \cup Found({j \in OfIntegration : rows[j].kind = "pat"}) :
            task' = [task EXCEPT ![r] = [Idle EXCEPT !.op = op, !.at = "write",
                                           !.row = row, !.seen = Seen(row)]]
      BY <2>4
    <3>2. row \in 0..Len(rows) /\ Seen(row) \in Row
      BY <1>1, SeenOK DEF OfGateway, OfIntegration
    <3> DEFINE new == [Idle EXCEPT !.op = op, !.at = "write", !.row = row, !.seen = Seen(row)]
    <3>3. row \in Nat
      BY <1>1, <3>2
    <3>4. /\ new \in Task
          /\ new.conn = None /\ new.row = row /\ new.at = "write" /\ new.op = op
      BY <2>2, <3>2, <3>3, IdleOK DEF Task, Ops
    <3>5. task' = [task EXCEPT ![r] = new]
      BY <3>1
    <3> HIDE DEF new
    <3>6. task'[r] = new /\ Moves(r)
      BY <3>4, <3>5, Becomes DEF Moves
    <3> QED  BY <1>2, <1>5, <1>3, <3>2, <3>4, <3>6 DEF Carries
  <2> QED  BY <2>1, <2>3, <2>4
<1>6. CASE GetCredential(r)
  <2>1. PICK row \in Found({j \in OfGateway : Active(j)}) :
          \E next \in {Outcome(row), "failed"} :
            task' = [task EXCEPT ![r] = [Idle EXCEPT !.op = "get", !.at = next, !.row = row,
                                           !.refresh = Seen(row).refresh]]
    BY <1>6 DEF GetCredential
  <2>2. PICK at \in {Outcome(row), "failed"} :
          task' = [task EXCEPT ![r] = [Idle EXCEPT !.op = "get", !.at = at, !.row = row,
                                         !.refresh = Seen(row).refresh]]
    BY <2>1
  <2>3. row \in 0..Len(rows) /\ Seen(row) \in Row
    BY <1>1, SeenOK DEF OfGateway
  <2>4. at \in {"lock", "done", "failed"} /\ (at = "lock" => row # 0)
    BY DEF Outcome
  <2>5. row \in Nat
    BY <1>1, <2>3
  <2>6. Seen(row).refresh \in Nat /\ "get" \in Ops /\ at \in Steps
    BY <2>3, <2>4 DEF Row, Ops, Steps
  <2> DEFINE refresh == Seen(row).refresh
  <2> HIDE DEF refresh
  <2> DEFINE new == [Idle EXCEPT !.op = "get", !.at = at, !.row = row, !.refresh = refresh]
  <2>7. /\ new \in Task
        /\ new.conn = None /\ new.row = row /\ new.at = at /\ new.op = "get" /\ new.refresh = refresh
    <3>1. refresh \in Nat
      BY <2>6 DEF refresh
    <3> QED  BY <2>5, <2>6, <3>1, IdleOK DEF Task, Ops
  <2>8. task' = [task EXCEPT ![r] = new]
    BY <2>2 DEF refresh
  <2> HIDE DEF new
  <2>9. task'[r] = new /\ Moves(r)
    BY <2>7, <2>8, Becomes DEF Moves
  <2>10. row # 0 => refresh = rows[row].refresh
    BY DEF refresh, Seen
  <2> QED  BY <1>2, <1>6, <1>3, <2>3, <2>4, <2>7, <2>9, <2>10 DEF Carries
<1>7. CASE TestConnection(r)
  <2>1. PICK row \in Found({j \in OfIntegration : Active(j)}), at \in {"done", "failed"} :
          task' = [task EXCEPT ![r] = [Idle EXCEPT !.op = "test", !.row = row, !.at = at]]
    BY <1>7 DEF TestConnection
  <2>2. row \in 0..Len(rows)
    BY <1>1, SeenOK DEF OfIntegration
  <2>3. row \in Nat
    BY <1>1, <2>2
  <2>4. "test" \in Ops /\ at \in Steps
    BY DEF Ops, Steps
  <2> DEFINE new == [Idle EXCEPT !.op = "test", !.row = row, !.at = at]
  <2>5. /\ new \in Task
        /\ new.conn = None /\ new.row = row /\ new.at = at /\ new.op = "test"
    BY <2>3, <2>4, IdleOK DEF Task, Ops
  <2>6. task' = [task EXCEPT ![r] = new]
    BY <2>1
  <2> HIDE DEF new
  <2>7. task'[r] = new /\ Moves(r)
    BY <2>5, <2>6, Becomes DEF Moves
  <2> QED  BY <1>2, <1>7, <1>3, <2>2, <2>5, <2>7 DEF Carries
<1> QED  BY <1>4, <1>5, <1>6, <1>7 DEF Begun

\* A request goes on, or ends, and nothing else of its task changes.
LEMMA Goes ==
  ASSUME TypeOK, NEW r \in Requests, NEW at \in Steps, Go(r, at)
  PROVE  /\ Moves(r)
         /\ task'[r].at = at
         /\ task'[r].op = task[r].op /\ task'[r].state = task[r].state
         /\ task'[r].row = task[r].row /\ task'[r].refresh = task[r].refresh
         /\ task'[r].conn = task[r].conn
<1> DEFINE old == task[r]
           new == [old EXCEPT !.at = at]
<1>1. old \in Task
  BY DEF TypeOK
<1>2. new \in Task
  BY <1>1 DEF Task
<1>3. /\ new.at = at /\ new.op = old.op /\ new.state = old.state /\ new.row = old.row
      /\ new.refresh = old.refresh /\ new.conn = old.conn
  BY <1>1 DEF Task
<1>4. task' = [task EXCEPT ![r] = new]
  BY DEF Go, TypeOK
<1> HIDE DEF new
<1> QED  BY <1>2, <1>3, <1>4, Becomes DEF Moves

Continued(r) ==
  \/ Exchange(r) \/ StoreOAuth(r) \/ StorePAT(r)
  \/ TryLock(r) \/ LoseLock(r) \/ AskRefresh(r) \/ CommitRefresh(r) \/ Unlock(r)
  \/ ExchangeIntegrationCode(r) \/ InsertIntegrationOAuth(r) \/ StoreIntegrationPAT(r)

\* A request takes a step after its first.
LEMMA Continues ==
  ASSUME TypeOK, NEW r \in Requests, Continued(r)
  PROVE  /\ Moves(r)
         /\ task[r].at \notin {"idle", "rejected"} /\ task'[r].at # "rejected"
         /\ task'[r].op = task[r].op /\ task'[r].state = task[r].state
         /\ UNCHANGED stores
         /\ task'[r].row \in {task[r].row} \cup 0..Len(rows)
         /\ task'[r].at \in Waits => task[r].at \in Waits /\ task'[r].row = task[r].row
         /\ \/ task'[r].conn \in {task[r].conn, None} /\ ~TryLock(r)
            \/ TryLock(r) /\ task'[r].conn \in Conns \ InUse
         /\ task'[r].at \in {"refresh", "answered", "refused"} =>
              \/ Refreshing(r) /\ task'[r].conn = task[r].conn /\ UNCHANGED lock
              \/ lock'.conn = task'[r].conn /\ task'[r].conn # None
<1> DEFINE old == task[r]
<1>1. old \in Task
  BY DEF TypeOK
<1>2. CASE Exchange(r) /\ ~Go(r, "failed")
  <2>1. PICK token \in {0, issued + 1}, i \in Found(OfGateway) :
          task' = [task EXCEPT ![r].at = "write", ![r].row = i, ![r].seen = Seen(i),
                               ![r].refresh = token]
    BY <1>2 DEF Exchange
  <2>2. i \in 0..Len(rows) /\ Seen(i) \in Row /\ token \in Nat /\ Len(rows) \in Nat
    BY SeenOK, Rows DEF OfGateway, TypeOK
  <2>3. i \in Nat /\ "write" \in Steps
    BY <2>2 DEF Steps
  <2> DEFINE new == [old EXCEPT !.at = "write", !.row = i, !.seen = Seen(i), !.refresh = token]
  <2> HIDE DEF old
  <2>4. /\ new \in Task
        /\ new.op = old.op /\ new.at = "write" /\ new.state = old.state
        /\ new.row = i /\ new.conn = old.conn
    BY <1>1, <2>2, <2>3 DEF Task
  <2>5. task' = [task EXCEPT ![r] = new]
    BY <2>1 DEF TypeOK, old
  <2> HIDE DEF new
  <2>6. task'[r] = new /\ Moves(r)
    BY <2>4, <2>5, Becomes DEF Moves
  <2>7. old.op = "callback" /\ old.at = "exchange" /\ UNCHANGED stores
    BY <1>2 DEF Exchange, AtStep, old
  <2>8. ~TryLock(r)
    BY <2>7 DEF TryLock, AtStep, old
  <2> QED  BY <2>2, <2>4, <2>6, <2>7, <2>8 DEF Waits, old
<1>3. CASE \/ Exchange(r) /\ Go(r, "failed")
          \/ StoreOAuth(r) \/ StorePAT(r) \/ ExchangeIntegrationCode(r)
          \/ InsertIntegrationOAuth(r) \/ StoreIntegrationPAT(r)
  <2>1. /\ old.at \in {"exchange", "write", "insert"} /\ UNCHANGED stores
        /\ Go(r, "failed") \/ Go(r, "done") \/ Go(r, "insert")
    BY <1>3 DEF Exchange, StoreOAuth, StorePAT, ExchangeIntegrationCode, InsertIntegrationOAuth,
                StoreIntegrationPAT, AtStep
  <2>2. PICK at \in {"failed", "done", "insert"} : Go(r, at)
    BY <2>1
  <2>3. at \in Steps
    BY DEF Steps
  <2>4. /\ Moves(r) /\ task'[r].at = at /\ task'[r].op = old.op /\ task'[r].state = old.state
        /\ task'[r].row = old.row /\ task'[r].conn = old.conn
    BY <2>2, <2>3, Goes
  <2>5. ~TryLock(r)
    BY <2>1 DEF TryLock, AtStep
  <2> QED  BY <2>1, <2>4, <2>5 DEF Waits
<1>4. CASE AskRefresh(r)
  <2>1. /\ old.op = "get" /\ old.at = "refresh" /\ UNCHANGED <<lock, stores>>
        /\ \/ Go(r, "refused") \/ Go(r, "answered")
           \/ task' = [task EXCEPT ![r].at = "answered", ![r].refresh = issued + 1]
    BY <1>4 DEF AskRefresh, AtStep
  <2>2. ~TryLock(r)
    BY <2>1 DEF TryLock, AtStep
  <2>3. "refused" \in Steps /\ "answered" \in Steps /\ issued + 1 \in Nat
    BY DEF Steps, TypeOK
  <2>4. /\ Moves(r) /\ task'[r].at \in {"refused", "answered"} /\ task'[r].op = old.op
        /\ task'[r].state = old.state /\ task'[r].row = old.row /\ task'[r].conn = old.conn
    <3>1. CASE Go(r, "refused")
      BY <2>3, <3>1, Goes
    <3>2. CASE Go(r, "answered")
      BY <2>3, <3>2, Goes
    <3>3. CASE task' = [task EXCEPT ![r].at = "answered", ![r].refresh = issued + 1]
      <4> DEFINE new == [old EXCEPT !.at = "answered", !.refresh = issued + 1]
      <4>1. task' = [task EXCEPT ![r] = new]
        BY <3>3 DEF TypeOK
      <4> HIDE DEF old
      <4>2. /\ new \in Task /\ new.op = old.op /\ new.at = "answered" /\ new.state = old.state
            /\ new.row = old.row /\ new.conn = old.conn
        BY <1>1, <2>3 DEF Task
      <4> HIDE DEF new
      <4> QED  BY <4>1, <4>2, Becomes DEF Moves
    <3> QED  BY <2>1, <3>1, <3>2, <3>3
  <2> QED  BY <2>1, <2>2, <2>4 DEF Waits, Refreshing
<1>5. CASE Unlock(r)
  <2>1. /\ old.op = "get" /\ old.at = "unlock" /\ UNCHANGED stores
        /\ Go(r, "done") \/ Go(r, "failed")
    BY <1>5 DEF Unlock, AtStep
  <2>2. PICK at \in {"failed", "done"} : Go(r, at)
    BY <2>1
  <2>3. at \in Steps
    BY DEF Steps
  <2>4. /\ Moves(r) /\ task'[r].at = at /\ task'[r].op = old.op /\ task'[r].state = old.state
        /\ task'[r].row = old.row /\ task'[r].conn = old.conn
    BY <2>2, <2>3, Goes
  <2>5. ~TryLock(r)
    BY <2>1 DEF TryLock, AtStep
  <2> QED  BY <2>1, <2>4, <2>5 DEF Waits
<1>6. CASE LoseLock(r) \/ CommitRefresh(r)
  <2>1. PICK at \in {"failed", "unlock"}, ok \in BOOLEAN :
          \/ task' = [task EXCEPT ![r].at = at, ![r].conn = None]
          \/ task' = [task EXCEPT ![r].at = at, ![r].conn = None, ![r].ok = ok]
    BY <1>6 DEF LoseLock, CommitRefresh
  <2>2. old.op = "get" /\ old.at \in {"lost", "answered", "refused"} /\ UNCHANGED stores
    BY <1>6 DEF LoseLock, CommitRefresh, AtStep
  <2>3. at \in Steps
    BY DEF Steps
  <2>4. ~TryLock(r)
    BY <2>2 DEF TryLock, AtStep
  <2>5. /\ Moves(r) /\ task'[r].at = at /\ task'[r].op = old.op /\ task'[r].state = old.state
        /\ task'[r].row = old.row /\ task'[r].conn = None
    <3>1. CASE task' = [task EXCEPT ![r].at = at, ![r].conn = None]
      <4> DEFINE new == [old EXCEPT !.at = at, !.conn = None]
      <4>1. task' = [task EXCEPT ![r] = new]
        BY <3>1 DEF TypeOK
      <4> HIDE DEF old
      <4>2. /\ new \in Task /\ new.op = old.op /\ new.at = at /\ new.state = old.state
            /\ new.row = old.row /\ new.conn = None
        BY <1>1, <2>3 DEF Task
      <4> HIDE DEF new
      <4> QED  BY <4>1, <4>2, Becomes DEF Moves
    <3>2. CASE task' = [task EXCEPT ![r].at = at, ![r].conn = None, ![r].ok = ok]
      <4> DEFINE new == [old EXCEPT !.at = at, !.conn = None, !.ok = ok]
      <4>1. task' = [task EXCEPT ![r] = new]
        BY <3>2 DEF TypeOK
      <4> HIDE DEF old
      <4>2. /\ new \in Task /\ new.op = old.op /\ new.at = at /\ new.state = old.state
            /\ new.row = old.row /\ new.conn = None
        BY <1>1, <2>3 DEF Task
      <4> HIDE DEF new
      <4> QED  BY <4>1, <4>2, Becomes DEF Moves
    <3> QED  BY <2>1, <3>1, <3>2
  <2> QED  BY <2>2, <2>4, <2>5 DEF Waits
<1>7. CASE TryLock(r)
  <2>1. PICK k \in Conns \ InUse, at \in {"refresh", "lost"} :
          /\ task' = [task EXCEPT ![r].at = at, ![r].conn = k]
          /\ at = "refresh" => lock' = [conn |-> k, depth |-> lock.depth + 1]
    BY <1>7 DEF TryLock
  <2>2. old.op = "get" /\ old.at = "lock" /\ UNCHANGED stores
    BY <1>7 DEF TryLock, AtStep
  <2>3. at \in Steps /\ k # None
    BY ConnAssumption DEF Steps
  <2> DEFINE new == [old EXCEPT !.at = at, !.conn = k]
  <2>4. task' = [task EXCEPT ![r] = new]
    BY <2>1 DEF TypeOK
  <2> HIDE DEF old
  <2>5. /\ new \in Task /\ new.op = old.op /\ new.at = at /\ new.state = old.state
        /\ new.row = old.row /\ new.conn = k
    BY <1>1, <2>1, <2>3 DEF Task
  <2> HIDE DEF new
  <2>6. Moves(r) /\ task'[r] = new
    BY <2>4, <2>5, Becomes DEF Moves
  <2>7. at = "refresh" => lock'.conn = k
    BY <2>1
  <2> QED  BY <1>7, <2>1, <2>2, <2>3, <2>5, <2>6, <2>7 DEF Waits, old
<1> QED  BY <1>2, <1>3, <1>4, <1>5, <1>6, <1>7 DEF Continued

-----------------------------------------------------------------------------
(* Every step keeps the types                                              *)

LEMMA Shape ==
  ASSUME [Next]_vars
  PROVE  \/ \E r \in Requests : Begun(r) \/ Continued(r)
         \/ \E s \in States : StartAuthorization(s) \/ InitiateOAuth(s) \/ StateAges(s)
         \/ \E i \in DOMAIN rows : Expires(i)
         \/ Disconnect \/ CreateIntegration \/ DeleteIntegration
         \/ UNCHANGED vars
BY DEF Next, Begun, Continued

LEMMA Quiet ==
  /\ \A s \in States : StartAuthorization(s) \/ InitiateOAuth(s) \/ StateAges(s) => UNCHANGED task
  /\ \A i \in DOMAIN rows : Expires(i) => UNCHANGED task
  /\ Disconnect \/ CreateIntegration \/ DeleteIntegration \/ UNCHANGED vars => UNCHANGED task
BY DEF StartAuthorization, InitiateOAuth, StateAges, Expires, Disconnect, CreateIntegration,
       DeleteIntegration, vars

\* What is not a step of a request changes neither tasks nor tokens.
LEMMA Aside ==
  ASSUME [Next]_vars
  PROVE  (\E r \in Requests : Begun(r) \/ Continued(r)) \/ UNCHANGED <<task, issued, accepted>>
<1>1. /\ \A s \in States : StartAuthorization(s) \/ InitiateOAuth(s) \/ StateAges(s) => UNCHANGED provider
      /\ \A i \in DOMAIN rows : Expires(i) => UNCHANGED provider
      /\ Disconnect \/ CreateIntegration \/ DeleteIntegration \/ UNCHANGED vars => UNCHANGED provider
  BY DEF StartAuthorization, InitiateOAuth, StateAges, Expires, Disconnect, CreateIntegration,
         DeleteIntegration, vars, provider
<1> QED  BY <1>1, Shape, Quiet DEF provider

\* No row is removed; every token of a row was there before, or one is put there.
Table == rows' \in Seq(Row) /\ Len(rows) <= Len(rows')

Keeps ==
  \A j \in DOMAIN rows' :
    rows'[j].refresh = 0 \/ (j \in DOMAIN rows /\ rows'[j].refresh = rows[j].refresh)

Puts(i, x) ==
  /\ i \in DOMAIN rows' /\ rows'[i].refresh = x
  /\ \A j \in DOMAIN rows' \ {i} : j \in DOMAIN rows /\ rows'[j].refresh = rows[j].refresh

LEMMA SetOne ==
  ASSUME rows \in Seq(Row), NEW i \in DOMAIN rows, NEW x \in Row, rows' = [rows EXCEPT ![i] = x]
  PROVE  Table /\ Puts(i, x.refresh) /\ (x.refresh \in {0, rows[i].refresh} => Keeps)
<1>1. rows' \in Seq(Row) /\ Len(rows') = Len(rows) /\ DOMAIN rows' = DOMAIN rows /\ Len(rows) \in Nat
  BY RowSet, Rows
<1>2. rows'[i] = x /\ \A j \in DOMAIN rows \ {i} : rows'[j] = rows[j]
  BY RowSet
<1>3. Table
  BY <1>1 DEF Table
<1>4. \A j \in DOMAIN rows' : j \in DOMAIN rows /\ (j # i => rows'[j].refresh = rows[j].refresh)
  BY <1>1, <1>2
<1>5. i \in DOMAIN rows' /\ rows'[i].refresh = x.refresh
  BY <1>1, <1>2
<1>6. Puts(i, x.refresh)
  BY <1>4, <1>5 DEF Puts
<1>7. x.refresh \in {0, rows[i].refresh} => Keeps
  BY <1>4, <1>5 DEF Keeps
<1> QED  BY <1>3, <1>6, <1>7

LEMMA AddOne ==
  ASSUME rows \in Seq(Row), NEW x \in Row, rows' = Append(rows, x)
  PROVE  Table /\ Puts(Len(rows) + 1, x.refresh) /\ (x.refresh = 0 => Keeps)
<1>1. /\ rows' \in Seq(Row) /\ Len(rows') = Len(rows) + 1 /\ Len(rows) \in Nat
      /\ DOMAIN rows' = DOMAIN rows \cup {Len(rows) + 1}
  BY RowAdd, Rows
<1>2. rows'[Len(rows) + 1] = x /\ \A j \in DOMAIN rows : rows'[j] = rows[j]
  BY RowAdd
<1>3. Table
  BY <1>1 DEF Table
<1>4. \A j \in DOMAIN rows' : j # Len(rows) + 1 => j \in DOMAIN rows /\ rows'[j].refresh = rows[j].refresh
  BY <1>1, <1>2
<1>5. Len(rows) + 1 \in DOMAIN rows' /\ rows'[Len(rows) + 1].refresh = x.refresh
  BY <1>1, <1>2
<1>6. Puts(Len(rows) + 1, x.refresh)
  BY <1>4, <1>5 DEF Puts
<1>7. x.refresh = 0 => Keeps
  BY <1>4, <1>5 DEF Keeps
<1> QED  BY <1>3, <1>6, <1>7

LEMMA WriteOne ==
  ASSUME rows \in Seq(Row), NEW i \in DOMAIN rows, NEW seen \in Row, NEW new \in Row,
         rows' = Written(i, seen, new)
  PROVE  /\ Table /\ (Keeps \/ Puts(i, new.refresh))
         /\ new.refresh \in {0, seen.refresh} => Keeps
<1>1. PICK x \in Row :
        /\ rows' = [rows EXCEPT ![i] = x]
        /\ x.refresh = IF new.refresh # seen.refresh THEN new.refresh ELSE rows[i].refresh
  BY WrittenRow
<1>2. Table /\ Puts(i, x.refresh) /\ (x.refresh \in {0, rows[i].refresh} => Keeps)
  BY <1>1, SetOne
<1> QED  BY <1>1, <1>2

LEMMA Same ==
  ASSUME rows \in Seq(Row), UNCHANGED rows
  PROVE  Table /\ Keeps
BY Rows DEF Table, Keeps

\* What the step of a request does to the table.
LEMMA RequestRows ==
  ASSUME TypeOK, TaskInv, NEW r \in Requests, Continued(r)
  PROVE  /\ Table
         /\ \/ StoreOAuth(r) /\ (Keeps \/ \E i \in Nat : Puts(i, task[r].refresh))
            \/ CommitRefresh(r) /\ Answered(task[r]) /\ Puts(task[r].row, task[r].refresh)
            \/ ~(CommitRefresh(r) /\ Answered(task[r])) /\ Keeps
<1> DEFINE seen  == task[r].seen
           token == task[r].refresh
           i     == task[r].row
<1>1. rows \in Seq(Row) /\ Len(rows) \in Nat /\ DOMAIN rows = 1..Len(rows)
      /\ \A j \in DOMAIN rows : rows[j] \in Row
  BY Rows DEF TypeOK
<1>2. /\ seen \in Row /\ token \in Nat
      /\ i # 0 => i \in DOMAIN rows
      /\ task[r].at \in Waits => i # 0
  BY <1>1 DEF TypeOK, TaskInv, TaskOK, Task, Waits
<1>3. seen.kind \in Kinds /\ seen.owner \in {"gateway", "integration"} /\ seen.refresh \in Nat
  BY <1>2 DEF Row
<1>4. DOMAIN rows \subseteq Nat /\ Len(rows) + 1 \in Nat
  BY <1>1
<1> HIDE DEF seen, token, i
<1>5. CASE StoreOAuth(r)
  <2>1. \/ rows' = Append(rows, NewRow("oauth", "gateway", token, "later"))
        \/ i # 0 /\ rows' = Written(i, seen, NewRow(seen.kind, seen.owner, token, "later"))
    BY <1>5 DEF StoreOAuth, seen, token, i
  <2>2. /\ NewRow("oauth", "gateway", token, "later") \in Row
        /\ NewRow("oauth", "gateway", token, "later").refresh = token
        /\ NewRow(seen.kind, seen.owner, token, "later") \in Row
        /\ NewRow(seen.kind, seen.owner, token, "later").refresh = token
    BY <1>2, <1>3, NewRowOK DEF Kinds
  <2>3. Table /\ (Keeps \/ \E j \in Nat : Puts(j, token))
    <3>1. CASE rows' = Append(rows, NewRow("oauth", "gateway", token, "later"))
      <4>1. Table /\ Puts(Len(rows) + 1, token)
        BY <1>1, <2>2, <3>1, AddOne
      <4> QED  BY <1>4, <4>1
    <3>2. CASE i # 0 /\ rows' = Written(i, seen, NewRow(seen.kind, seen.owner, token, "later"))
      <4>1. Table /\ (Keeps \/ Puts(i, token))
        BY <1>1, <1>2, <2>2, <3>2, WriteOne
      <4>2. i \in Nat
        BY <1>2, <1>4, <3>2
      <4> QED  BY <4>1, <4>2
    <3> QED  BY <2>1, <3>1, <3>2
  <2> QED  BY <1>5, <2>3 DEF token
<1>6. CASE StorePAT(r)
  <2>1. \/ rows' = Append(rows, NewRow("pat", "gateway", 0, "never"))
        \/ i # 0 /\ rows' = Written(i, seen, NewRow("pat", seen.owner, 0, "never"))
    BY <1>6 DEF StorePAT, seen, i
  <2>2. /\ NewRow("pat", "gateway", 0, "never") \in Row
        /\ NewRow("pat", "gateway", 0, "never").refresh = 0
        /\ NewRow("pat", seen.owner, 0, "never") \in Row
        /\ NewRow("pat", seen.owner, 0, "never").refresh = 0
    BY <1>3, NewRowOK DEF Kinds
  <2>3. Table /\ Keeps
    BY <1>1, <1>2, <2>1, <2>2, AddOne, WriteOne
  <2>4. ~CommitRefresh(r)
    BY <1>6 DEF StorePAT, CommitRefresh, AtStep
  <2> QED  BY <2>3, <2>4
<1>7. CASE StoreIntegrationPAT(r)
  <2>1. \/ rows' = Append(rows, NewRow("pat", "integration", 0, "never"))
        \/ i # 0 /\ rows' = Written(i, seen, [seen EXCEPT !.revoked = FALSE])
        \/ UNCHANGED rows
    BY <1>7 DEF StoreIntegrationPAT, seen, i
  <2>2. /\ NewRow("pat", "integration", 0, "never") \in Row
        /\ NewRow("pat", "integration", 0, "never").refresh = 0
        /\ [seen EXCEPT !.revoked = FALSE] \in Row
        /\ [seen EXCEPT !.revoked = FALSE].refresh = seen.refresh
    <3>1. [seen EXCEPT !.revoked = FALSE] \in Row /\ [seen EXCEPT !.revoked = FALSE].refresh = seen.refresh
      BY <1>2 DEF Row
    <3> QED  BY <3>1, NewRowOK DEF Kinds
  <2>3. Table /\ Keeps
    BY <1>1, <1>2, <2>1, <2>2, AddOne, WriteOne, Same
  <2>4. ~CommitRefresh(r)
    BY <1>7 DEF StoreIntegrationPAT, CommitRefresh, AtStep
  <2> QED  BY <2>3, <2>4
<1>8. CASE CommitRefresh(r)
  <2> DEFINE row == rows[i]
  <2>1. i \in DOMAIN rows /\ row \in Row
    BY <1>1, <1>2, <1>8 DEF CommitRefresh, Waits
  <2>2. \/ /\ Answered(task[r])
           /\ rows' = [rows EXCEPT ![i] = [row EXCEPT !.refresh = token, !.expiry = "later"]]
        \/ /\ ~Answered(task[r])
           /\ rows' = [rows EXCEPT ![i] = [row EXCEPT !.revoked = TRUE]]
    BY <1>1, <1>8, <2>1 DEF CommitRefresh, Refreshed, Answered, i, token
  <2> HIDE DEF row
  <2>3. /\ [row EXCEPT !.refresh = token, !.expiry = "later"] \in Row
        /\ [row EXCEPT !.refresh = token, !.expiry = "later"].refresh = token
        /\ [row EXCEPT !.revoked = TRUE] \in Row
        /\ [row EXCEPT !.revoked = TRUE].refresh = row.refresh
    BY <1>2, <2>1 DEF Row
  <2>4. CASE /\ Answered(task[r])
             /\ rows' = [rows EXCEPT ![i] = [row EXCEPT !.refresh = token, !.expiry = "later"]]
    <3>1. Table /\ Puts(i, token)
      BY <1>1, <2>1, <2>3, <2>4, SetOne
    <3> QED  BY <1>8, <2>4, <3>1 DEF i, token
  <2>5. CASE /\ ~Answered(task[r])
             /\ rows' = [rows EXCEPT ![i] = [row EXCEPT !.revoked = TRUE]]
    <3>1. Table /\ Keeps
      BY <1>1, <2>1, <2>3, <2>5, SetOne DEF row
    <3> QED  BY <2>5, <3>1
  <2> QED  BY <2>2, <2>4, <2>5
<1>9. CASE InsertIntegrationOAuth(r)
  <2>1. /\ NewRow("oauth", "integration", 0, "never") \in Row
        /\ NewRow("oauth", "integration", 0, "never").refresh = 0
    BY NewRowOK DEF Kinds
  <2>2. Table /\ Keeps
    BY <1>1, <1>9, <2>1, AddOne, Same DEF InsertIntegrationOAuth
  <2>3. ~CommitRefresh(r)
    BY <1>9 DEF InsertIntegrationOAuth, CommitRefresh, AtStep
  <2> QED  BY <2>2, <2>3
<1>10. CASE \/ Exchange(r) \/ TryLock(r) \/ LoseLock(r) \/ AskRefresh(r) \/ Unlock(r)
            \/ ExchangeIntegrationCode(r)
  <2>1. UNCHANGED rows
    BY <1>10 DEF Exchange, TryLock, LoseLock, AskRefresh, Unlock, ExchangeIntegrationCode, table
  <2>2. ~CommitRefresh(r)
    BY <1>10 DEF Exchange, TryLock, LoseLock, AskRefresh, Unlock, ExchangeIntegrationCode,
                 CommitRefresh, AtStep
  <2> QED  BY <1>1, <2>1, <2>2, Same
<1> QED  BY <1>5, <1>6, <1>7, <1>8, <1>9, <1>10 DEF Continued

\* And the steps that are not a request's.
LEMMA OtherRows ==
  ASSUME TypeOK, [Next]_vars, ~\E r \in Requests : Continued(r)
  PROVE  Table /\ Keeps
<1>1. rows \in Seq(Row) /\ Len(rows) \in Nat /\ DOMAIN rows = 1..Len(rows)
      /\ \A i \in DOMAIN rows : rows[i] \in Row
  BY Rows DEF TypeOK
<1>2. ASSUME NEW r \in Requests, Begun(r)
      PROVE  Table /\ Keeps
  BY <1>1, <1>2, Begins, Same
<1>3. ASSUME Disconnect \/ \E i \in DOMAIN rows : Expires(i)
      PROVE  Table /\ Keeps
  <2>1. PICK i \in DOMAIN rows : \/ rows' = [rows EXCEPT ![i] = [rows[i] EXCEPT !.revoked = TRUE]]
                                \/ rows' = [rows EXCEPT ![i] = [rows[i] EXCEPT !.expiry = "past"]]
    BY <1>1, <1>3 DEF Disconnect, Expires, OfGateway
  <2> DEFINE row == rows[i]
  <2>2. row \in Row
    BY <1>1
  <2> HIDE DEF row
  <2>3. /\ [row EXCEPT !.revoked = TRUE] \in Row /\ [row EXCEPT !.expiry = "past"] \in Row
        /\ [row EXCEPT !.revoked = TRUE].refresh = row.refresh
        /\ [row EXCEPT !.expiry = "past"].refresh = row.refresh
    BY <2>2 DEF Row
  <2> QED  BY <1>1, <2>1, <2>3, SetOne DEF row
<1>4. ASSUME DeleteIntegration
      PROVE  Table /\ Keeps
  <2>1. rows' = [i \in DOMAIN rows |-> [rows[i] EXCEPT !.owner = "gateway"]]
    BY <1>4 DEF DeleteIntegration
  <2>2. ASSUME NEW row \in Row
        PROVE  [row EXCEPT !.owner = "gateway"] \in Row /\ [row EXCEPT !.owner = "gateway"].refresh = row.refresh
    BY <2>2 DEF Row
  <2>3. rows' \in [1..Len(rows) -> Row] /\ \A j \in DOMAIN rows : rows'[j].refresh = rows[j].refresh
    BY <1>1, <2>1, <2>2
  <2>4. rows' \in Seq(Row) /\ Len(rows') = Len(rows) /\ DOMAIN rows' = DOMAIN rows
    BY <1>1, <2>3
  <2> QED  BY <1>1, <2>3, <2>4 DEF Table, Keeps
<1>5. ASSUME \/ CreateIntegration \/ UNCHANGED vars
             \/ \E s \in States : StartAuthorization(s) \/ InitiateOAuth(s) \/ StateAges(s)
      PROVE  Table /\ Keeps
  BY <1>1, <1>5, Same DEF CreateIntegration, StartAuthorization, InitiateOAuth, StateAges, table, vars
<1> QED  BY <1>2, <1>3, <1>4, <1>5, Shape

LEMMA TableStep ==
  ASSUME TypeOK, TaskInv, [Next]_vars
  PROVE  rows' \in Seq(Row) /\ Len(rows) <= Len(rows')
BY RequestRows, OtherRows DEF Table

\* The state stores, the lock and the provider.
LEMMA OtherTypes ==
  ASSUME TypeOK, [Next]_vars
  PROVE  /\ hasFlow' \in BOOLEAN /\ integration' \in BOOLEAN
         /\ gatewayStates' \in [States -> Ages]
         /\ integrationStates' \in [States -> Ages \ {"wrapped"}]
         /\ lock' \in [conn : Conns \cup {None}, depth : Nat]
         /\ (lock.conn = None <=> lock.depth = 0)'
         /\ issued' \in Nat /\ accepted' \subseteq 1..issued'
<1>1. hasFlow' \in BOOLEAN /\ integration' \in BOOLEAN
  <2>1. hasFlow \in BOOLEAN /\ integration \in BOOLEAN
    BY DEF TypeOK
  <2>2. ASSUME NEW s \in States,
               \/ StartAuthorization(s) \/ InitiateOAuth(s) \/ StateAges(s)
               \/ \E r \in Requests : Callback(r, s) \/ IntegrationCallback(r, s)
        PROVE  hasFlow' = hasFlow /\ integration' = integration
    BY <2>2 DEF StartAuthorization, InitiateOAuth, StateAges, Callback, IntegrationCallback, table
  <2>3. ASSUME NEW r \in Requests,
               \/ Exchange(r) \/ StoreOAuth(r) \/ ValidatePAT(r) \/ StorePAT(r)
               \/ GetCredential(r) \/ TryLock(r) \/ LoseLock(r)
        PROVE  hasFlow' = hasFlow /\ integration' = integration
    BY <2>3 DEF Exchange, StoreOAuth, ValidatePAT, StorePAT, GetCredential, TryLock, LoseLock, table
  <2>4. ASSUME NEW r \in Requests, AskRefresh(r) \/ CommitRefresh(r) \/ Unlock(r)
        PROVE  hasFlow' = hasFlow /\ integration' = integration
    BY <2>4 DEF AskRefresh, CommitRefresh, Unlock, table
  <2>5. ASSUME NEW r \in Requests,
               \/ ExchangeIntegrationCode(r) \/ InsertIntegrationOAuth(r)
               \/ ValidateIntegrationPAT(r) \/ StoreIntegrationPAT(r) \/ TestConnection(r)
        PROVE  hasFlow' = hasFlow /\ integration' = integration
    BY <2>5 DEF ExchangeIntegrationCode, InsertIntegrationOAuth, ValidateIntegrationPAT,
                StoreIntegrationPAT, TestConnection, table
  <2>6. ASSUME \/ \E i \in DOMAIN rows : Expires(i)
               \/ Disconnect \/ CreateIntegration \/ DeleteIntegration
        PROVE  hasFlow' = hasFlow /\ integration' \in {integration, TRUE, FALSE}
    BY <2>6 DEF Expires, Disconnect, CreateIntegration, DeleteIntegration
  <2>7. CASE UNCHANGED vars
    BY <2>1, <2>7 DEF vars, table
  <2>8. CASE Next
    BY <2>1, <2>2, <2>3, <2>4, <2>5, <2>6, <2>8 DEF Next
  <2> QED  BY <2>7, <2>8
<1>2. CASE \E s \in States : StartAuthorization(s) \/ InitiateOAuth(s) \/ StateAges(s)
  <2>1. UNCHANGED <<lock, issued, accepted>>
    BY <1>2 DEF StartAuthorization, InitiateOAuth, StateAges, provider
  <2>2. gatewayStates' \in [States -> Ages] /\ integrationStates' \in [States -> Ages \ {"wrapped"}]
    BY <1>2 DEF TypeOK, Ages, StartAuthorization, InitiateOAuth, StateAges, StoreState, NextAge
  <2> QED  BY <1>1, <2>1, <2>2 DEF TypeOK
<1>3. CASE \E r \in Requests, s \in States : Callback(r, s) \/ IntegrationCallback(r, s)
  <2>1. UNCHANGED <<lock, issued, accepted>>
    BY <1>3 DEF Callback, IntegrationCallback, provider
  <2>2. gatewayStates' \in [States -> Ages] /\ integrationStates' \in [States -> Ages \ {"wrapped"}]
    BY <1>3 DEF TypeOK, Ages, Callback, IntegrationCallback, TakeState
  <2> QED  BY <1>1, <2>1, <2>2 DEF TypeOK
<1>4. CASE \E r \in Requests : TryLock(r) \/ Unlock(r)
  <2>1. UNCHANGED <<gatewayStates, integrationStates, issued, accepted>>
    BY <1>4 DEF TryLock, Unlock, stores, provider
  <2>2. PICK k \in Conns : lock' \in {lock, [conn |-> k, depth |-> lock.depth + 1], Released(k)}
    BY <1>4 DEF TryLock, Unlock
  <2>3. k # None
    BY ConnAssumption
  <2>4. /\ lock \in [conn : Conns \cup {None}, depth : Nat]
        /\ lock.conn = None <=> lock.depth = 0
    BY DEF TypeOK
  <2>5. CASE lock' = [conn |-> k, depth |-> lock.depth + 1]
    BY <1>1, <2>1, <2>3, <2>4, <2>5 DEF TypeOK
  <2>6. CASE lock.conn = k /\ lock' = [conn |-> IF lock.depth = 1 THEN None ELSE k, depth |-> lock.depth - 1]
    <3> DEFINE d == lock.depth
    <3>1. d \in Nat /\ d # 0
      BY <2>3, <2>4, <2>6
    <3>2. d - 1 \in Nat /\ (d = 1 <=> d - 1 = 0)
      BY <3>1
    <3> HIDE DEF d
    <3>3. lock' = [conn |-> IF d = 1 THEN None ELSE k, depth |-> d - 1]
      BY <2>6 DEF d
    <3> QED  BY <1>1, <2>1, <2>3, <3>2, <3>3 DEF TypeOK
  <2>7. CASE lock' = lock
    BY <1>1, <2>1, <2>4, <2>7 DEF TypeOK
  <2> QED  BY <2>2, <2>5, <2>6, <2>7 DEF Released
<1>5. CASE \E r \in Requests : Exchange(r) \/ AskRefresh(r)
  <2>1. UNCHANGED <<gatewayStates, integrationStates, lock>>
    BY <1>5 DEF Exchange, AskRefresh, stores
  <2>2. PICK r \in Requests : Exchange(r) \/ AskRefresh(r)
    BY <1>5
  <2>3. \/ UNCHANGED provider
        \/ issued' = issued + 1 /\ accepted' \subseteq accepted \cup {issued + 1}
    BY <2>2 DEF Exchange, AskRefresh
  <2>4. issued' \in Nat /\ accepted' \subseteq 1..issued'
    <3>1. issued \in Nat /\ accepted \subseteq 1..issued
      BY DEF TypeOK
    <3>2. CASE UNCHANGED provider
      BY <3>1, <3>2 DEF provider
    <3>3. CASE issued' = issued + 1 /\ accepted' \subseteq accepted \cup {issued + 1}
      BY <3>1, <3>3
    <3> QED  BY <2>3, <3>2, <3>3
  <2> QED  BY <1>1, <2>1, <2>4 DEF TypeOK
<1>6. CASE UNCHANGED <<gatewayStates, integrationStates, lock, issued, accepted>>
  BY <1>1, <1>6 DEF TypeOK
<1>7. [Next]_vars =>
        \/ UNCHANGED <<gatewayStates, integrationStates, lock, issued, accepted>>
        \/ \E s \in States : StartAuthorization(s) \/ InitiateOAuth(s) \/ StateAges(s)
        \/ \E r \in Requests, s \in States : Callback(r, s) \/ IntegrationCallback(r, s)
        \/ \E r \in Requests : TryLock(r) \/ Unlock(r)
        \/ \E r \in Requests : Exchange(r) \/ AskRefresh(r)
  <2> DEFINE Still == UNCHANGED <<gatewayStates, integrationStates, lock, issued, accepted>>
  <2>1. ASSUME NEW r \in Requests,
               \/ StoreOAuth(r) \/ ValidatePAT(r) \/ StorePAT(r) \/ GetCredential(r)
               \/ LoseLock(r) \/ CommitRefresh(r)
        PROVE  Still
    BY <2>1 DEF StoreOAuth, ValidatePAT, StorePAT, GetCredential, LoseLock, CommitRefresh,
                stores, provider
  <2>2. ASSUME NEW r \in Requests,
               \/ ExchangeIntegrationCode(r) \/ InsertIntegrationOAuth(r)
               \/ ValidateIntegrationPAT(r) \/ StoreIntegrationPAT(r) \/ TestConnection(r)
        PROVE  Still
    BY <2>2 DEF ExchangeIntegrationCode, InsertIntegrationOAuth, ValidateIntegrationPAT,
                StoreIntegrationPAT, TestConnection, stores, provider
  <2>3. (\E i \in DOMAIN rows : Expires(i)) \/ Disconnect \/ CreateIntegration \/ DeleteIntegration
          => Still
    BY DEF Expires, Disconnect, CreateIntegration, DeleteIntegration, stores, provider
  <2>4. UNCHANGED vars => Still
    BY DEF vars, stores, provider
  <2> HIDE DEF Still
  <2>5. [Next]_vars =>
          \/ Still
          \/ \E s \in States : StartAuthorization(s) \/ InitiateOAuth(s) \/ StateAges(s)
          \/ \E r \in Requests, s \in States : Callback(r, s) \/ IntegrationCallback(r, s)
          \/ \E r \in Requests : TryLock(r) \/ Unlock(r)
          \/ \E r \in Requests : Exchange(r) \/ AskRefresh(r)
    BY <2>1, <2>2, <2>3, <2>4 DEF Next
  <2> QED  BY <2>5 DEF Still
<1> QED  BY <1>2, <1>3, <1>4, <1>5, <1>6, <1>7

LEMMA TypeStep ==
  ASSUME TypeOK, TaskInv, [Next]_vars
  PROVE  TypeOK' /\ TaskInv'
<1>1. rows' \in Seq(Row) /\ Len(rows) \in Nat /\ Len(rows') \in Nat /\ Len(rows) <= Len(rows')
  BY TableStep, Rows DEF TypeOK
<1>2. ASSUME NEW r \in Requests, Moves(r), TaskOK(task'[r], Len(rows'))
      PROVE  task' \in [Requests -> Task] /\ TaskInv'
  BY <1>1, <1>2 DEF Moves, TaskInv, TaskOK
<1>3. ASSUME NEW r \in Requests, Begun(r)
      PROVE  task' \in [Requests -> Task] /\ TaskInv'
  <2>1. TaskOK(task'[r], Len(rows'))
    BY <1>1, <1>3, Begins DEF TaskOK, Waits
  <2> QED  BY <1>2, <1>3, <2>1, Begins
<1>4. ASSUME NEW r \in Requests, Continued(r)
      PROVE  task' \in [Requests -> Task] /\ TaskInv'
  <2>1. TaskOK(task[r], Len(rows))
    BY DEF TaskInv
  <2>2. task'[r].row \in 0..Len(rows')
    BY <1>1, <1>4, <2>1, Continues DEF TaskOK
  <2>3. task'[r].at \in Waits => task'[r].op = "get" /\ task'[r].row # 0
    BY <1>4, <2>1, Continues DEF TaskOK, Waits
  <2>4. TaskOK(task'[r], Len(rows'))
    BY <2>2, <2>3 DEF TaskOK, Waits
  <2> QED  BY <1>2, <1>4, <2>4, Continues
<1>5. ASSUME UNCHANGED task
      PROVE  task' \in [Requests -> Task] /\ TaskInv'
  <2>1. task \in [Requests -> Task] /\ \A r \in Requests : TaskOK(task[r], Len(rows))
    BY DEF TypeOK, TaskInv
  <2>2. \A r \in Requests : TaskOK(task'[r], Len(rows'))
    BY <1>1, <1>5, <2>1 DEF TaskOK
  <2> QED  BY <1>5, <2>1, <2>2 DEF TaskInv
<1>6. task' \in [Requests -> Task] /\ TaskInv'
  <2>1. CASE \E r \in Requests : Begun(r) \/ Continued(r)
    BY <1>3, <1>4, <2>1
  <2>2. CASE UNCHANGED task
    BY <1>5, <2>2
  <2> QED  BY <2>1, <2>2, Shape, Quiet
<1> QED  BY <1>1, <1>6, OtherTypes DEF TypeOK

-----------------------------------------------------------------------------
(* Every step keeps connections, the lock and the states apart             *)

LEMMA ConnStep ==
  ASSUME TypeOK, ConnInv, [Next]_vars
  PROVE  ConnInv'
<1>1. ASSUME NEW r \in Requests, Moves(r),
             \/ task'[r].conn \in {task[r].conn, None}
             \/ task'[r].conn \in Conns \ InUse
      PROVE  ConnInv'
  <2> SUFFICES ASSUME NEW r1 \in Requests, NEW r2 \in Requests, r1 # r2,
                      task'[r1].conn # None, task'[r1].conn = task'[r2].conn
               PROVE  FALSE
    BY DEF ConnInv
  <2>1. \A q \in Requests : task[q].conn # None => task[q].conn \in InUse
    BY DEF InUse
  <2> QED  BY <1>1, <2>1 DEF ConnInv, Moves
<1>2. CASE \E r \in Requests : Begun(r) \/ Continued(r)
  BY <1>1, <1>2, Begins, Continues
<1>3. CASE UNCHANGED task
  BY <1>3 DEF ConnInv
<1> QED  BY <1>2, <1>3, Shape, Quiet

\* A connection that has the lock keeps it from the others, and an unlock on
\* another connection does not release it.
LEMMA LockStep ==
  ASSUME TypeOK, ConnInv, LockInv, [Next]_vars
  PROVE  LockInv'
<1>1. ASSUME NEW q \in Requests, Refreshing(q)
      PROVE  lock.conn = task[q].conn /\ task[q].conn # None /\ task[q].conn \in InUse
  BY <1>1 DEF LockInv, InUse
<1>2. ASSUME NEW r \in Requests, Moves(r),
             \A q \in Requests : q # r /\ Refreshing(q) => lock'.conn = lock.conn,
             task'[r].at \in {"refresh", "answered", "refused"} =>
               \/ Refreshing(r) /\ task'[r].conn = task[r].conn /\ UNCHANGED lock
               \/ lock'.conn = task'[r].conn /\ task'[r].conn # None
      PROVE  LockInv'
  <2> SUFFICES ASSUME NEW q \in Requests, task'[q].at \in {"refresh", "answered", "refused"}
               PROVE  task'[q].conn # None /\ lock'.conn = task'[q].conn
    BY DEF LockInv, Refreshing
  <2>1. CASE q = r
    BY <1>1, <1>2, <2>1
  <2>2. CASE q # r
    <3>1. task'[q] = task[q]
      BY <1>2, <2>2 DEF Moves
    <3>2. Refreshing(q)
      BY <3>1 DEF Refreshing
    <3> QED  BY <1>1, <1>2, <2>2, <3>1, <3>2
  <2> QED  BY <2>1, <2>2
<1>3. ASSUME NEW r \in Requests, TryLock(r), NEW q \in Requests, q # r, Refreshing(q)
      PROVE  lock'.conn = lock.conn
  BY <1>1, <1>3 DEF TryLock, GetsLock
<1>4. ASSUME NEW r \in Requests, Unlock(r), NEW q \in Requests, q # r, Refreshing(q)
      PROVE  lock'.conn = lock.conn
  BY <1>1, <1>4 DEF Unlock, Released
<1>5. ASSUME NEW r \in Requests, Continued(r), ~TryLock(r), ~Unlock(r)
      PROVE  lock' = lock
  BY <1>5 DEF Continued, Exchange, StoreOAuth, StorePAT, LoseLock, AskRefresh, CommitRefresh,
              ExchangeIntegrationCode, InsertIntegrationOAuth, StoreIntegrationPAT
<1>6. ASSUME NEW r \in Requests, Continued(r)
      PROVE  LockInv'
  <2>1. \A q \in Requests : q # r /\ Refreshing(q) => lock'.conn = lock.conn
    BY <1>3, <1>4, <1>5, <1>6
  <2> QED  BY <1>2, <1>6, <2>1, Continues
<1>7. ASSUME NEW r \in Requests, Begun(r)
      PROVE  LockInv'
  BY <1>2, <1>7, Begins
<1>8. ASSUME UNCHANGED <<task, lock>>
      PROVE  LockInv'
  BY <1>8 DEF LockInv, Refreshing
<1>9. /\ \A s \in States : StartAuthorization(s) \/ InitiateOAuth(s) \/ StateAges(s) => UNCHANGED lock
      /\ \A i \in DOMAIN rows : Expires(i) => UNCHANGED lock
      /\ Disconnect \/ CreateIntegration \/ DeleteIntegration \/ UNCHANGED vars => UNCHANGED lock
  BY DEF StartAuthorization, InitiateOAuth, StateAges, Expires, Disconnect, CreateIntegration,
         DeleteIntegration, vars
<1>10. CASE \E r \in Requests : Begun(r) \/ Continued(r)
  BY <1>6, <1>7, <1>10
<1> QED  BY <1>8, <1>9, <1>10, Shape, Quiet

\* A state is taken from the store by whoever uses it, and is not stored again
\* while a request has it.
LEMMA StateStep ==
  ASSUME TypeOK, StateInv, StateUsedOnce, [Next]_vars
  PROVE  StateInv' /\ StateUsedOnce'
<1> DEFINE uses(t) == t.op = "callback" /\ t.at # "rejected"
<1>1. \A r \in Requests : uses(task[r]) =>
        task[r].state \in States /\ gatewayStates[task[r].state] = "absent"
  BY DEF StateInv
<1>2. \A r1, r2 \in Requests :
        uses(task[r1]) /\ uses(task[r2]) /\ task[r1].state = task[r2].state => r1 = r2
  BY DEF StateUsedOnce
<1>3. ASSUME \A r \in Requests : uses(task'[r]) =>
               task'[r].state \in States /\ gatewayStates'[task'[r].state] = "absent",
             \A r1, r2 \in Requests :
               uses(task'[r1]) /\ uses(task'[r2]) /\ task'[r1].state = task'[r2].state => r1 = r2
      PROVE  StateInv' /\ StateUsedOnce'
  BY <1>3 DEF StateInv, StateUsedOnce
<1>4. gatewayStates \in [States -> Ages]
  BY DEF TypeOK
<1> HIDE DEF uses
<1>5. ASSUME NEW r \in Requests, Continued(r)
      PROVE  StateInv' /\ StateUsedOnce'
  <2>1. /\ Moves(r) /\ UNCHANGED gatewayStates /\ task'[r].state = task[r].state
        /\ uses(task'[r]) => uses(task[r])
    BY <1>5, Continues DEF stores, uses
  <2>2. \A q \in Requests : task'[q].state = task[q].state /\ (uses(task'[q]) => uses(task[q]))
    BY <2>1 DEF Moves
  <2> QED  BY <1>1, <1>2, <1>3, <2>1, <2>2
<1>6. ASSUME NEW r \in Requests, Begun(r)
      PROVE  StateInv' /\ StateUsedOnce'
  <2>1. \A q \in Requests : q # r => task'[q] = task[q]
    BY <1>6, Begins DEF Moves
  <2>2. CASE task'[r].op = "callback"
    <3>1. PICK s \in States : /\ task'[r].state = s /\ gatewayStates[s] # "absent"
                             /\ gatewayStates' = [gatewayStates EXCEPT ![s] = "absent"]
      BY <1>6, <2>2, Begins
    <3>2. \A q \in Requests : q # r /\ uses(task[q]) => task[q].state # s
      BY <1>1, <3>1
    <3>3. \A q \in Requests : uses(task'[q]) =>
            task'[q].state \in States /\ gatewayStates'[task'[q].state] = "absent"
      BY <1>1, <1>4, <2>1, <3>1
    <3> QED  BY <1>2, <1>3, <2>1, <3>1, <3>2, <3>3
  <2>3. CASE task'[r].op # "callback"
    <3>1. UNCHANGED gatewayStates /\ ~uses(task'[r])
      BY <1>6, <2>3, Begins DEF uses
    <3> QED  BY <1>1, <1>2, <1>3, <2>1, <3>1
  <2> QED  BY <2>2, <2>3
<1>7. ASSUME UNCHANGED task,
             \A s \in States : gatewayStates[s] = "absent" => 
               gatewayStates'[s] = "absent" \/ \A r \in Requests : task[r].state # s
      PROVE  StateInv' /\ StateUsedOnce'
  BY <1>1, <1>2, <1>3, <1>7
<1>8. ASSUME NEW s \in States, StartAuthorization(s)
      PROVE  \A x \in States : gatewayStates[x] = "absent" =>
               gatewayStates'[x] = "absent" \/ \A r \in Requests : task[r].state # x
  BY <1>8 DEF StartAuthorization, StoreState
<1>9. ASSUME NEW s \in States, StateAges(s)
      PROVE  \A x \in States : gatewayStates[x] = "absent" => gatewayStates'[x] = "absent"
  BY <1>4, <1>9 DEF StateAges
<1>10. /\ \A s \in States : InitiateOAuth(s) => UNCHANGED gatewayStates
       /\ \A i \in DOMAIN rows : Expires(i) => UNCHANGED gatewayStates
       /\ Disconnect \/ CreateIntegration \/ DeleteIntegration \/ UNCHANGED vars
            => UNCHANGED gatewayStates
  BY DEF InitiateOAuth, Expires, Disconnect, CreateIntegration, DeleteIntegration, vars, stores
<1>11. CASE \E r \in Requests : Begun(r) \/ Continued(r)
  BY <1>5, <1>6, <1>11
<1>12. CASE \E s \in States : StartAuthorization(s)
  BY <1>7, <1>8, <1>12, Quiet
<1>13. CASE \E s \in States : StateAges(s)
  BY <1>7, <1>9, <1>13, Quiet
<1>14. CASE UNCHANGED <<task, gatewayStates>>
  BY <1>7, <1>14
<1> QED  BY <1>10, <1>11, <1>12, <1>13, <1>14, Shape, Quiet

-----------------------------------------------------------------------------
(* Every step keeps refresh tokens apart, and those of rows accepted       *)

Quietly(r) ==
  /\ UNCHANGED provider /\ task'[r].refresh = task[r].refresh /\ ~Carries(task'[r])
  /\ Bears(task'[r]) => Bears(task[r])
  /\ Answered(task'[r]) => task[r].refresh \in accepted
  /\ Answered(task[r]) => CommitRefresh(r)

Authorized(r) ==
  /\ Carries(task'[r]) /\ ~Bears(task[r]) /\ UNCHANGED rows /\ issued' = issued + 1
  /\ \/ task'[r].refresh = 0 /\ accepted' = accepted
     \/ task'[r].refresh = issued + 1 /\ accepted' = accepted \cup {issued + 1}

Rotated(r) ==
  /\ Bears(task[r]) /\ Refreshing(r) /\ Answered(task'[r]) /\ UNCHANGED rows /\ issued' = issued + 1
  /\ task[r].refresh \in accepted /\ task'[r].refresh = issued + 1
  /\ accepted' = (accepted \ {task[r].refresh}) \cup {issued + 1}

LEMMA RequestTokens ==
  ASSUME TypeOK, NEW r \in Requests, Continued(r)
  PROVE  Quietly(r) \/ Authorized(r) \/ Rotated(r)
<1> DEFINE old == task[r]
<1>1. old \in Task /\ task \in [Requests -> Task]
  BY DEF TypeOK
<1>2. task'[r].op = old.op
  BY Continues
<1>3. CASE /\ ~Exchange(r) /\ ~AskRefresh(r)
  <2>1. UNCHANGED provider
    BY <1>3 DEF Continued, StoreOAuth, StorePAT, TryLock, LoseLock, CommitRefresh, Unlock,
                ExchangeIntegrationCode, InsertIntegrationOAuth, StoreIntegrationPAT
  <2>2. CASE \/ StoreOAuth(r) \/ StorePAT(r) \/ Unlock(r) \/ ExchangeIntegrationCode(r)
             \/ InsertIntegrationOAuth(r) \/ StoreIntegrationPAT(r)
    <3>1. PICK at \in {"done", "failed", "insert"} : old.at # "answered" /\ Go(r, at)
      BY <2>2 DEF StoreOAuth, StorePAT, Unlock, ExchangeIntegrationCode, InsertIntegrationOAuth,
                  StoreIntegrationPAT, AtStep
    <3>2. task'[r].at = at /\ task'[r].refresh = old.refresh
      BY <1>1, <3>1 DEF Go, Task
    <3> QED  BY <2>1, <3>1, <3>2 DEF Quietly, Carries, Bears, Answered
  <2>3. CASE TryLock(r)
    <3>1. PICK k \in Conns \ InUse, at \in {"refresh", "lost"} :
            task' = [task EXCEPT ![r].at = at, ![r].conn = k]
      BY <2>3 DEF TryLock
    <3>2. task'[r].at = at /\ task'[r].refresh = old.refresh
      BY <1>1, <3>1 DEF Task
    <3>3. old.op = "get" /\ old.at = "lock"
      BY <2>3 DEF TryLock, AtStep
    <3> QED  BY <1>2, <2>1, <3>2, <3>3 DEF Quietly, Carries, Bears, Answered
  <2>4. CASE LoseLock(r)
    <3>1. task'[r].at = "failed" /\ task'[r].refresh = old.refresh /\ old.at = "lost"
      BY <1>1, <2>4 DEF LoseLock, AtStep, Task
    <3> QED  BY <2>1, <3>1 DEF Quietly, Carries, Bears, Answered
  <2>5. CASE CommitRefresh(r)
    <3>1. PICK ok \in BOOLEAN : task' = [task EXCEPT ![r].at = "unlock", ![r].conn = None, ![r].ok = ok]
      BY <2>5 DEF CommitRefresh
    <3>2. task'[r].at = "unlock" /\ task'[r].refresh = old.refresh
      BY <1>1, <3>1 DEF Task
    <3> QED  BY <2>1, <2>5, <3>2 DEF Quietly, Carries, Bears, Answered
  <2> QED  BY <1>3, <2>2, <2>3, <2>4, <2>5 DEF Continued
<1>4. CASE Exchange(r)
  <2>1. old.op = "callback" /\ old.at = "exchange" /\ UNCHANGED rows
    BY <1>4 DEF Exchange, AtStep, table
  <2>2. CASE Go(r, "failed") /\ UNCHANGED provider
    <3>1. task'[r].at = "failed" /\ task'[r].refresh = old.refresh
      BY <1>1, <2>2 DEF Go, Task
    <3> QED  BY <2>1, <2>2, <3>1 DEF Quietly, Carries, Bears, Answered
  <2>3. CASE \E token \in {0, issued + 1}, i \in Found(OfGateway) :
          /\ issued' = issued + 1
          /\ accepted' = accepted \cup ({token} \ {0})
          /\ task' = [task EXCEPT ![r].at = "write", ![r].row = i, ![r].seen = Seen(i),
                                  ![r].refresh = token]
    <3>1. PICK token \in {0, issued + 1}, i \in Found(OfGateway) :
            /\ issued' = issued + 1
            /\ accepted' = accepted \cup ({token} \ {0})
            /\ task' = [task EXCEPT ![r].at = "write", ![r].row = i, ![r].seen = Seen(i),
                                    ![r].refresh = token]
      BY <2>3
    <3>2. task'[r].at = "write" /\ task'[r].refresh = token
      BY <1>1, <3>1 DEF Task
    <3>3. issued + 1 # 0
      BY DEF TypeOK
    <3> QED  BY <1>2, <2>1, <3>1, <3>2, <3>3 DEF Authorized, Carries, Bears
  <2> QED  BY <1>4, <2>2, <2>3 DEF Exchange
<1>5. CASE AskRefresh(r)
  <2>1. old.op = "get" /\ old.at = "refresh" /\ UNCHANGED rows
    BY <1>5 DEF AskRefresh, AtStep, table
  <2>2. CASE /\ UNCHANGED provider
             /\ Go(r, "refused") \/ (Go(r, "answered") /\ old.refresh \in accepted)
    <3>1. /\ task'[r].at = "refused" \/ (task'[r].at = "answered" /\ old.refresh \in accepted)
          /\ task'[r].refresh = old.refresh
      BY <1>1, <2>2 DEF Go, Task
    <3> QED  BY <1>2, <2>1, <2>2, <3>1 DEF Quietly, Carries, Bears, Answered
  <2>3. CASE /\ old.refresh \in accepted
             /\ issued' = issued + 1
             /\ accepted' = (accepted \ {old.refresh}) \cup {issued + 1}
             /\ task' = [task EXCEPT ![r].at = "answered", ![r].refresh = issued + 1]
    <3>1. task'[r].at = "answered" /\ task'[r].refresh = issued + 1
      BY <1>1, <2>3 DEF Task
    <3> QED  BY <1>2, <2>1, <2>3, <3>1 DEF Rotated, Bears, Answered, Refreshing
  <2> QED  BY <1>5, <2>2, <2>3 DEF AskRefresh
<1> QED  BY <1>3, <1>4, <1>5

LEMMA UniqueKept ==
  ASSUME NEW R, NEW T, NEW n \in Nat, NEW R2, NEW T2, NEW n2 \in Nat, n <= n2, Unique(R, T, n),
         \A x \in Nat \ {0}, i \in Nat : Owns(R2, T2, i, x) => Owns(R, T, i, x),
         \A r \in Requests, x \in Nat \ {0} : Carries(T2[r]) /\ T2[r].refresh = x =>
                                             Carries(T[r]) /\ T[r].refresh = x
  PROVE  Unique(R2, T2, n2)
BY DEF Unique

\* A token that request c carried is put in row k.
LEMMA UniquePlaced ==
  ASSUME NEW R, NEW T, NEW n \in Nat, NEW R2, NEW T2, Unique(R, T, n),
         NEW c \in Requests, NEW k \in Nat, NEW y \in Nat \ {0},
         Carries(T[c]), T[c].refresh = y, ~Carries(T2[c]),
         \A x \in Nat \ {0}, i \in Nat :
           Owns(R2, T2, i, x) => Owns(R, T, i, x) \/ (i = k /\ x = y),
         \A r \in Requests, x \in Nat \ {0} : Carries(T2[r]) /\ T2[r].refresh = x =>
                                             Carries(T[r]) /\ T[r].refresh = x
  PROVE  Unique(R2, T2, n)
BY DEF Unique

\* A new token is issued for row k, or to the authorization of request c.
LEMMA UniqueForRow ==
  ASSUME NEW R, NEW T, NEW n \in Nat, NEW R2, NEW T2, Unique(R, T, n), NEW k \in Nat,
         \A x \in Nat \ {0}, i \in Nat :
           Owns(R2, T2, i, x) => Owns(R, T, i, x) \/ (i = k /\ x = n + 1),
         \A r \in Requests, x \in Nat \ {0} : Carries(T2[r]) /\ T2[r].refresh = x =>
                                             Carries(T[r]) /\ T[r].refresh = x
  PROVE  Unique(R2, T2, n + 1)
BY DEF Unique

LEMMA UniqueForRequest ==
  ASSUME NEW R, NEW T, NEW n \in Nat, NEW R2, NEW T2, Unique(R, T, n), NEW c \in Requests,
         \A x \in Nat \ {0}, i \in Nat : Owns(R2, T2, i, x) => Owns(R, T, i, x),
         \A r \in Requests, x \in Nat \ {0} : Carries(T2[r]) /\ T2[r].refresh = x =>
           (Carries(T[r]) /\ T[r].refresh = x) \/ (r = c /\ x = n + 1)
  PROVE  Unique(R2, T2, n + 1)
BY DEF Unique

\* The places of a token after a step of request r, from those of the table and r.
LEMMA OwnsAfter ==
  ASSUME NEW r \in Requests, Moves(r), NEW x, NEW i, Owns(rows', task', i, x)
  PROVE  \/ i \in DOMAIN rows' /\ rows'[i].refresh = x
         \/ Owns(rows, task, i, x)
         \/ Bears(task'[r]) /\ task'[r].row = i /\ task'[r].refresh = x
BY DEF Owns, Moves

LEMMA UniqueStep ==
  ASSUME TypeOK, TaskInv, Unique(rows, task, issued), [Next]_vars
  PROVE  Unique(rows', task', issued')
<1>1. issued \in Nat /\ issued' \in Nat
  BY OtherTypes DEF TypeOK
<1>2. ASSUME NEW i \in DOMAIN rows
      PROVE  Owns(rows, task, i, rows[i].refresh)
  BY DEF Owns
<1>3. ASSUME NEW r \in Requests, Bears(task[r])
      PROVE  Owns(rows, task, task[r].row, task[r].refresh)
  BY <1>3 DEF Owns
<1>4. ASSUME Keeps, NEW i \in DOMAIN rows', rows'[i].refresh # 0
      PROVE  Owns(rows, task, i, rows'[i].refresh)
  BY <1>2, <1>4 DEF Keeps
<1>5. ASSUME NEW r \in Requests, Begun(r)
      PROVE  Unique(rows', task', issued')
  <2>1. /\ Moves(r) /\ UNCHANGED <<rows, issued>> /\ ~Carries(task'[r])
        /\ Bears(task'[r]) => /\ task'[r].row \in DOMAIN rows
                              /\ task'[r].refresh = rows[task'[r].row].refresh
    <3>1. DOMAIN rows = 1..Len(rows) /\ Len(rows) \in Nat
      BY Rows DEF TypeOK
    <3> QED  BY <1>5, <3>1, Begins DEF Bears, provider
  <2>2. ASSUME NEW x \in Nat \ {0}, NEW i \in Nat, Owns(rows', task', i, x)
        PROVE  Owns(rows, task, i, x)
    BY <1>2, <2>1, <2>2, OwnsAfter
  <2>3. \A q \in Requests, x \in Nat \ {0} :
          Carries(task'[q]) /\ task'[q].refresh = x => Carries(task[q]) /\ task[q].refresh = x
    BY <2>1 DEF Moves
  <2> QED  BY <1>1, <2>1, <2>2, <2>3, UniqueKept
<1>6. ASSUME NEW r \in Requests, Continued(r), Quietly(r)
      PROVE  Unique(rows', task', issued')
  <2> DEFINE token == task[r].refresh
  <2>1. /\ Moves(r) /\ issued' = issued
        /\ Bears(task'[r]) => Bears(task[r]) /\ task'[r].row = task[r].row /\ task'[r].refresh = token
    BY <1>6, Continues DEF Quietly, Bears, Waits, provider
  <2>2. \A q \in Requests, x \in Nat \ {0} :
          Carries(task'[q]) /\ task'[q].refresh = x => Carries(task[q]) /\ task[q].refresh = x
    BY <1>6, <2>1 DEF Moves, Quietly
  <2>3. ASSUME NEW x, NEW i, Owns(rows', task', i, x)
        PROVE  (i \in DOMAIN rows' /\ rows'[i].refresh = x) \/ Owns(rows, task, i, x)
    BY <1>3, <2>1, <2>3, OwnsAfter
  <2>4. CASE Keeps
    <3>1. \A x \in Nat \ {0}, i \in Nat : Owns(rows', task', i, x) => Owns(rows, task, i, x)
      BY <1>4, <2>3, <2>4
    <3> QED  BY <1>1, <2>1, <2>2, <3>1, UniqueKept
  <2>5. ASSUME NEW k, Puts(k, token), NEW x, NEW i, Owns(rows', task', i, x)
        PROVE  Owns(rows, task, i, x) \/ (i = k /\ x = token)
    BY <1>2, <2>3, <2>5 DEF Puts
  <2>6. CASE Answered(task[r]) /\ Puts(task[r].row, token)
    <3>1. Owns(rows, task, task[r].row, token)
      BY <1>3, <2>6 DEF Answered, Bears
    <3>2. \A x \in Nat \ {0}, i \in Nat : Owns(rows', task', i, x) => Owns(rows, task, i, x)
      BY <2>5, <2>6, <3>1
    <3> QED  BY <1>1, <2>1, <2>2, <3>2, UniqueKept
  <2>7. ASSUME NEW k \in Nat, StoreOAuth(r), Puts(k, token)
        PROVE  Unique(rows', task', issued')
    <3>1. Carries(task[r]) /\ token \in Nat
      BY <2>7 DEF StoreOAuth, AtStep, Carries, TypeOK, Task
    <3>2. CASE token = 0
      <4>1. \A x \in Nat \ {0}, i \in Nat : Owns(rows', task', i, x) => Owns(rows, task, i, x)
        BY <2>5, <2>7, <3>2
      <4> QED  BY <1>1, <2>1, <2>2, <4>1, UniqueKept
    <3>3. CASE token # 0
      <4>1. ~Carries(task'[r])
        BY <1>6 DEF Quietly
      <4>2. \A x \in Nat \ {0}, i \in Nat :
              Owns(rows', task', i, x) => Owns(rows, task, i, x) \/ (i = k /\ x = token)
        BY <2>5, <2>7
      <4>3. PICK y \in Nat \ {0} : y = task[r].refresh
        BY <3>1, <3>3
      <4>4. \A x \in Nat \ {0}, i \in Nat :
              Owns(rows', task', i, x) => Owns(rows, task, i, x) \/ (i = k /\ x = y)
        BY <4>2, <4>3
      <4>5. Carries(task[r]) /\ task[r].refresh = y
        BY <3>1, <4>3
      <4>6. Unique(rows', task', issued)
        <5> HIDE DEF token
        <5>1. Unique(rows, task, issued) /\ issued \in Nat
          BY <1>1
        <5> QED  BY <2>2, <4>1, <4>4, <4>5, <5>1, UniquePlaced
      <4> QED  BY <2>1, <4>6
    <3> QED  BY <3>2, <3>3
  <2> QED  BY <1>6, <2>4, <2>6, <2>7, RequestRows
<1>7. ASSUME NEW r \in Requests, Continued(r), Authorized(r)
      PROVE  Unique(rows', task', issued')
  <2>1. /\ Moves(r) /\ UNCHANGED rows /\ issued' = issued + 1 /\ ~Bears(task'[r])
        /\ task'[r].refresh \in {0, issued + 1}
    BY <1>7, Continues DEF Authorized, Bears, Carries
  <2>2. \A x \in Nat \ {0}, i \in Nat : Owns(rows', task', i, x) => Owns(rows, task, i, x)
    BY <1>2, <2>1, OwnsAfter
  <2>3. \A q \in Requests, x \in Nat \ {0} : Carries(task'[q]) /\ task'[q].refresh = x =>
          (Carries(task[q]) /\ task[q].refresh = x) \/ (q = r /\ x = issued + 1)
    BY <2>1 DEF Moves
  <2>4. Unique(rows', task', issued + 1)
    BY <1>1, <2>2, <2>3, UniqueForRequest
  <2> QED  BY <2>1, <2>4
<1>8. ASSUME NEW r \in Requests, Continued(r), Rotated(r)
      PROVE  Unique(rows', task', issued')
  <2>1. /\ Moves(r) /\ UNCHANGED rows /\ issued' = issued + 1 /\ ~Carries(task'[r])
        /\ task'[r].refresh = issued + 1
    BY <1>8, Continues DEF Rotated, Answered, Carries
  <2>2. task'[r].row \in Nat
    BY <2>1 DEF Moves, Task
  <2>3. PICK k \in Nat : k = task'[r].row
    BY <2>2
  <2>4. \A x \in Nat \ {0}, i \in Nat :
          Owns(rows', task', i, x) => Owns(rows, task, i, x) \/ (i = k /\ x = issued + 1)
    BY <1>2, <2>1, <2>3, OwnsAfter
  <2>5. \A q \in Requests, x \in Nat \ {0} :
          Carries(task'[q]) /\ task'[q].refresh = x => Carries(task[q]) /\ task[q].refresh = x
    BY <2>1 DEF Moves
  <2>6. Unique(rows', task', issued + 1)
    BY <1>1, <2>4, <2>5, UniqueForRow
  <2> QED  BY <2>1, <2>6
<1>9. ASSUME Keeps, UNCHANGED <<task, issued>>
      PROVE  Unique(rows', task', issued')
  <2>1. ASSUME NEW x \in Nat \ {0}, NEW i \in Nat, Owns(rows', task', i, x)
        PROVE  Owns(rows, task, i, x)
    <3>1. CASE i \in DOMAIN rows' /\ rows'[i].refresh = x
      BY <1>4, <1>9, <3>1
    <3>2. CASE \E r \in Requests : Bears(task[r]) /\ task[r].row = i /\ task[r].refresh = x
      BY <3>2 DEF Owns
    <3> QED  BY <1>9, <2>1, <3>1, <3>2 DEF Owns
  <2> QED  BY <1>1, <1>9, <2>1, UniqueKept
<1> QED  BY <1>5, <1>6, <1>7, <1>8, <1>9, RequestTokens, OtherRows, Aside

LEMMA AcceptStep ==
  ASSUME TypeOK, TaskInv, ConnInv, LockInv, Unique(rows, task, issued), Accept(rows, task, accepted),
         [Next]_vars
  PROVE  Accept(rows', task', accepted')
<1> DEFINE Renews(T, i) == \E r \in Requests : Answered(T[r]) /\ T[r].row = i
<1>1. /\ \A i \in DOMAIN rows : rows[i].refresh = 0 \/ rows[i].refresh \in accepted \/ Renews(task, i)
      /\ \A r \in Requests : Answered(task[r]) => task[r].refresh \in accepted
      /\ \A r \in Requests : Carries(task[r]) => task[r].refresh = 0 \/ task[r].refresh \in accepted
  BY DEF Accept
<1>2. ASSUME \A i \in DOMAIN rows' :
               rows'[i].refresh = 0 \/ rows'[i].refresh \in accepted' \/ Renews(task', i),
             \A r \in Requests : Answered(task'[r]) => task'[r].refresh \in accepted',
             \A r \in Requests :
               Carries(task'[r]) => task'[r].refresh = 0 \/ task'[r].refresh \in accepted'
      PROVE  Accept(rows', task', accepted')
  BY <1>2 DEF Accept
<1>3. ASSUME NEW r \in Requests, Begun(r)
      PROVE  Accept(rows', task', accepted')
  <2>1. /\ Moves(r) /\ UNCHANGED <<rows, accepted>> /\ ~Carries(task'[r]) /\ ~Answered(task'[r])
        /\ ~Answered(task[r])
    BY <1>3, Begins DEF Answered, provider
  <2>2. \A i : Renews(task, i) => Renews(task', i)
    BY <2>1 DEF Moves
  <2> QED  BY <1>1, <1>2, <2>1, <2>2 DEF Moves
<1>4. ASSUME NEW r \in Requests, Continued(r), Quietly(r)
      PROVE  Accept(rows', task', accepted')
  <2> DEFINE token == task[r].refresh
  <2>1. Moves(r) /\ accepted' = accepted
    BY <1>4, Continues DEF Quietly, provider
  <2>2. \A q \in Requests : Answered(task'[q]) => task'[q].refresh \in accepted'
    BY <1>1, <1>4, <2>1 DEF Moves, Quietly
  <2>3. \A q \in Requests :
          Carries(task'[q]) => task'[q].refresh = 0 \/ task'[q].refresh \in accepted'
    BY <1>1, <1>4, <2>1 DEF Moves, Quietly
  <2>4. ASSUME NEW i, Renews(task, i), ~(Answered(task[r]) /\ i = task[r].row)
        PROVE  Renews(task', i)
    BY <2>1, <2>4 DEF Moves
  <2>5. ASSUME NEW k, Puts(k, token), token = 0 \/ token \in accepted,
               Answered(task[r]) => k = task[r].row
        PROVE  \A i \in DOMAIN rows' :
                 rows'[i].refresh = 0 \/ rows'[i].refresh \in accepted' \/ Renews(task', i)
    BY <1>1, <2>1, <2>4, <2>5 DEF Puts
  <2>6. CASE Keeps /\ ~Answered(task[r])
    <3>1. \A i \in DOMAIN rows' :
            rows'[i].refresh = 0 \/ rows'[i].refresh \in accepted' \/ Renews(task', i)
      BY <1>1, <2>1, <2>4, <2>6 DEF Keeps
    <3> QED  BY <1>2, <2>2, <2>3, <3>1
  <2>7. CASE Answered(task[r]) /\ Puts(task[r].row, token)
    BY <1>1, <1>2, <2>2, <2>3, <2>5, <2>7
  <2>8. CASE StoreOAuth(r) /\ \E k \in Nat : Puts(k, token)
    <3>1. Carries(task[r]) /\ ~Answered(task[r])
      BY <2>8 DEF StoreOAuth, AtStep, Carries, Answered
    <3> QED  BY <1>1, <1>2, <2>2, <2>3, <2>5, <2>8, <3>1
  <2>9. StoreOAuth(r) => ~Answered(task[r])
    BY DEF StoreOAuth, AtStep, Answered
  <2> QED  BY <1>4, <2>6, <2>7, <2>8, <2>9, RequestRows DEF Quietly
<1>5. ASSUME NEW r \in Requests, Continued(r), Authorized(r)
      PROVE  Accept(rows', task', accepted')
  <2>1. /\ Moves(r) /\ UNCHANGED rows /\ accepted \subseteq accepted'
        /\ task'[r].refresh = 0 \/ task'[r].refresh \in accepted'
        /\ ~Answered(task[r]) /\ ~Answered(task'[r])
    BY <1>5, Continues DEF Authorized, Answered, Bears, Carries
  <2>2. \A i : Renews(task, i) => Renews(task', i)
    BY <2>1 DEF Moves
  <2> QED  BY <1>1, <1>2, <2>1, <2>2 DEF Moves
<1>6. ASSUME NEW r \in Requests, Continued(r), Rotated(r)
      PROVE  Accept(rows', task', accepted')
  <2> DEFINE token == task[r].refresh
  <2>1. /\ Moves(r) /\ UNCHANGED rows /\ accepted' = (accepted \ {token}) \cup {issued + 1}
        /\ Answered(task'[r]) /\ task'[r].refresh = issued + 1 /\ ~Carries(task'[r])
        /\ task'[r].row = task[r].row
    BY <1>6, Continues DEF Rotated, Answered, Carries, Waits
  <2>2. token \in Nat \ {0} /\ Owns(rows, task, task[r].row, token)
    <3>1. token \in accepted /\ accepted \subseteq 1..issued /\ issued \in Nat
      BY <1>6 DEF Rotated, TypeOK
    <3>2. Bears(task[r])
      BY <1>6 DEF Rotated
    <3>3. Owns(rows, task, task[r].row, token)
      BY <3>2 DEF Owns
    <3>4. PICK y \in 1..issued : y = token
      BY <3>1
    <3>5. y \in Nat \ {0}
      BY <3>1
    <3> QED  BY <3>3, <3>4, <3>5
  <2>3. task[r].row \in Nat /\ DOMAIN rows \subseteq Nat
    BY Rows DEF TypeOK, Task
  <2>4. ASSUME NEW i \in DOMAIN rows, rows[i].refresh = token
        PROVE  i = task[r].row
    <3>1. Owns(rows, task, i, token)
      BY <2>4 DEF Owns
    <3> QED  BY <2>2, <2>3, <3>1 DEF Unique
  <2>5. ASSUME NEW q \in Requests, Answered(task[q])
        PROVE  q = r
    BY <1>6, <2>5 DEF Rotated, LockInv, ConnInv, Refreshing, Answered
  <2>6. ASSUME NEW q \in Requests, Carries(task[q])
        PROVE  task[q].refresh # token
    BY <2>2, <2>3, <2>6 DEF Unique
  <2>7. Renews(task', task[r].row)
    BY <2>1
  <2>8. \A i : Renews(task, i) => Renews(task', i)
    BY <2>5, <2>7
  <2>9. \A i \in DOMAIN rows' :
          rows'[i].refresh = 0 \/ rows'[i].refresh \in accepted' \/ Renews(task', i)
    BY <1>1, <2>1, <2>4, <2>7, <2>8
  <2>10. \A q \in Requests : Answered(task'[q]) => task'[q].refresh \in accepted'
    BY <1>1, <2>1, <2>5 DEF Moves
  <2>11. \A q \in Requests :
           Carries(task'[q]) => task'[q].refresh = 0 \/ task'[q].refresh \in accepted'
    BY <1>1, <2>1, <2>6 DEF Moves
  <2> QED  BY <1>2, <2>9, <2>10, <2>11
<1>7. ASSUME Keeps, UNCHANGED <<task, accepted>>
      PROVE  Accept(rows', task', accepted')
  <2>1. \A i \in DOMAIN rows' :
          rows'[i].refresh = 0 \/ rows'[i].refresh \in accepted' \/ Renews(task', i)
    BY <1>1, <1>7 DEF Keeps
  <2> QED  BY <1>1, <1>2, <1>7, <2>1
<1> QED  BY <1>3, <1>4, <1>5, <1>6, <1>7, RequestTokens, OtherRows, Aside

-----------------------------------------------------------------------------
(* The specification                                                       *)

LEMMA Start ==
  ASSUME Init
  PROVE  IInv
<1>1. NewRow("oauth", "gateway", 1, "past") \in Row
  BY NewRowOK DEF Kinds
<1>2. rows \in Seq(Row) /\ Len(rows) \in Nat
  <2> DEFINE row == NewRow("oauth", "gateway", 1, "past")
  <2> HIDE DEF row
  <2>1. row \in Row /\ rows \in {<<>>, <<row>>}
    BY <1>1 DEF Init, row
  <2>2. CASE rows = <<>>
    BY <2>2
  <2>3. CASE rows = <<row>>
    BY <2>1, <2>3
  <2> QED  BY <2>1, <2>2, <2>3
<1>3. task = [r \in Requests |-> Idle] /\ Idle \in Task
  BY IdleOK DEF Init
<1>4. \A r \in Requests : task[r] = Idle
  BY <1>3
<1>5. Idle.at = "idle" /\ Idle.op = None /\ Idle.row = 0 /\ Idle.conn = None
  BY DEF Idle
<1>6. None # "callback"
  BY DEF None
<1>7. TypeOK
  <2>1. task \in [Requests -> Task]
    BY <1>3
  <2>2. hasFlow \in BOOLEAN /\ integration \in BOOLEAN
    BY DEF Init
  <2>3. gatewayStates \in [States -> Ages] /\ integrationStates \in [States -> Ages \ {"wrapped"}]
    BY DEF Init, Ages
  <2>4. lock \in [conn : Conns \cup {None}, depth : Nat] /\ (lock.conn = None <=> lock.depth = 0)
    BY DEF Init
  <2>5. issued \in Nat /\ accepted \subseteq 1..issued
    BY <1>2 DEF Init
  <2> QED  BY <1>2, <2>1, <2>2, <2>3, <2>4, <2>5 DEF TypeOK
<1>8. TaskInv
  BY <1>2, <1>4, <1>5 DEF TaskInv, TaskOK, Waits
<1>9. ConnInv /\ LockInv
  BY <1>4, <1>5 DEF ConnInv, LockInv, Refreshing
<1>10. StateInv /\ StateUsedOnce
  BY <1>4, <1>5, <1>6 DEF StateInv, StateUsedOnce
<1>11. TokenInv
  <2>1. \A r \in Requests : ~Bears(task[r]) /\ ~Carries(task[r]) /\ ~Answered(task[r])
    BY <1>4, <1>5 DEF Bears, Carries, Answered
  <2>2. issued = Len(rows) /\ accepted = 1..issued /\ issued \in Nat
    BY <1>2 DEF Init
  <2>3. \A i \in DOMAIN rows : i = 1 /\ rows[i].refresh = 1 /\ issued = 1
    <3> DEFINE row == NewRow("oauth", "gateway", 1, "past")
    <3> HIDE DEF row
    <3>1. row.refresh = 1 /\ rows \in {<<>>, <<row>>}
      BY NewRowOK DEF Init, row, Kinds
    <3>2. CASE rows = <<>>
      BY <3>2
    <3>3. CASE rows = <<row>>
      BY <2>2, <3>1, <3>3
    <3> QED  BY <3>1, <3>2, <3>3
  <2>4. \A x, i : Owns(rows, task, i, x) => i = 1 /\ x = 1 /\ issued = 1
    BY <2>1, <2>3 DEF Owns
  <2>5. Unique(rows, task, issued)
    BY <2>1, <2>4 DEF Unique
  <2>6. Accept(rows, task, accepted)
    BY <2>1, <2>2, <2>3 DEF Accept
  <2> QED  BY <2>5, <2>6 DEF TokenInv
<1> QED  BY <1>7, <1>8, <1>9, <1>10, <1>11 DEF IInv

LEMMA Step ==
  ASSUME IInv, [Next]_vars
  PROVE  IInv'
<1>1. TypeOK' /\ TaskInv' /\ ConnInv' /\ LockInv' /\ StateInv' /\ StateUsedOnce'
  BY TypeStep, ConnStep, LockStep, StateStep DEF IInv
<1>2. Unique(rows', task', issued') /\ Accept(rows', task', accepted')
  BY UniqueStep, AcceptStep DEF IInv, TokenInv
<1> QED  BY <1>1, <1>2 DEF IInv, TokenInv

\* For any number of requests, states and connections: at most one request at
\* a time uses a refresh token, although the connection that has the advisory
\* lock goes back to the pool at the commit, and a state parameter is good for
\* one exchange (store.py, _refresh_token; oauth_flow.py, get).
THEOREM Soundness == Spec => []Sound
<1>1. IInv => Sound
  <2>1. ConnInv /\ LockInv => OneRefreshAtATime
    BY DEF ConnInv, LockInv, Refreshing, OneRefreshAtATime
  <2> QED  BY <2>1 DEF IInv, Sound
<1> QED  BY Start, Step, <1>1, PTL DEF Spec

\* The refresh token of an active row is one the provider accepts, but between
\* the provider's answer and its commit: no request that stores tokens of its
\* own, and no stale copy another refresh goes out with, leaves a row with a
\* token that was spent (store.py, _refresh_token and store_oauth_credential).
THEOREM TokenUsable == Spec => []ActiveTokenUsable
<1>1. IInv => ActiveTokenUsable
  BY DEF IInv, TokenInv, Accept, Answered, ActiveTokenUsable, AtStep
<1> QED  BY Start, Step, <1>1, PTL DEF Spec
=============================================================================
