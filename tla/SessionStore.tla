---------------------------- MODULE SessionStore -----------------------------
(***************************************************************************)
(* The two stores of sessions, each under the SessionManager, each shown to*)
(* implement module SessionLifecycle.                                      *)
(***************************************************************************)
EXTENDS Integers, FiniteSets

-----------------------------------------------------------------------------
(***************************************************************************)
(* PostgresSessionStore and the SessionManager on top of it: sessions go   *)
(* CREATED -> ACTIVE <-> IDLE -> CLOSED, at most one live session exists   *)
(* for a pair of DIDs, and a dispatcher claims a session, has the message  *)
(* authorized and then passes the revision fence of markAuthorized.        *)
(*                                                                         *)
(* A step is one SQL statement of one client under READ COMMITTED.  A      *)
(* statement that meets a row locked by another transaction waits for it.  *)
(* Timestamps are kept as ages: a row's age is the time since the one      *)
(* timestamp the sweep compares in the row's state.                        *)
(***************************************************************************)

CONSTANTS
    Sessions,       \* session ids
    Clients,        \* concurrent callers of the store
    PairOf,         \* PairOf[s]: did_pair_key
    TokenOf,        \* TokenOf[s]: capability_token_id
    PrincipalOf,    \* PrincipalOf[s]: principal_did
    None,
    CreatedTimeout, \* createdTimeoutMs
    IdleSoft,       \* idleSoftMs
    IdleHard,       \* idleHardMs
    AgeCap,         \* bound: ages above every timeout are not told apart
    MaxCalls        \* bound: calls of the store

ASSUME StoreAssumption ==
    /\ DOMAIN PairOf = Sessions /\ DOMAIN TokenOf = Sessions /\ DOMAIN PrincipalOf = Sessions
    /\ None \notin Sessions
    /\ {CreatedTimeout, IdleSoft, IdleHard} \subseteq Nat
    /\ AgeCap \in Nat /\ AgeCap > CreatedTimeout /\ AgeCap > IdleSoft /\ AgeCap > IdleHard
    /\ MaxCalls \in Nat

VARIABLES
    rows,   \* communication.sessions, the committed rows
    call,   \* what each client is doing
    calls   \* calls made so far

vars == <<rows, call, calls>>

LiveStates == {"CREATED", "ACTIVE", "IDLE"}

\* age: since created_at, last_authorized_at or idle_since; by: what closed the session
Row == [state : LiveStates \cup {"none", "CLOSED"}, rev : Nat, age : Nat,
        supersedes : Sessions \cup {None}, by : {"none", "close", "revoked", "timeout", "supersede"}]

NoRow == [state |-> "none", rev |-> 0, age |-> 0, supersedes |-> None, by |-> "none"]

\* seen: the row a claim returned; holds: the transaction has the row of sid locked;
\* since: time since the transaction began, the NOW() of its statements
Call == [pc : {"idle", "touch", "close", "claimed", "authorized", "resuming", "expiring",
               "superseding", "inserted"},
         sid : Sessions \cup {None}, new : Sessions \cup {None}, as : {"CREATED", "ACTIVE"},
         seen : Row, holds : BOOLEAN, since : Nat]

Calling(pc, sid, new, as, seen, holds) ==
    [pc |-> pc, sid |-> sid, new |-> new, as |-> as, seen |-> seen, holds |-> holds, since |-> 0]

NoCall == Calling("idle", None, None, "CREATED", NoRow, FALSE)

\* chk_sessions_closed_consistency
ClosedHasReason == \A s \in Sessions : rows[s].state = "CLOSED" <=> rows[s].by # "none"

\* The rows keep the table's CHECK constraints and the calls their types.
TypeOK ==
    /\ rows \in [Sessions -> Row] /\ ClosedHasReason
    /\ call \in [Clients -> Call]
    /\ calls \in Nat

Init ==
    /\ rows = [s \in Sessions |-> NoRow]
    /\ call = [c \in Clients |-> NoCall]
    /\ calls = 0

Exists(s) == rows[s].state # "none"
Live(s) == rows[s].state \in LiveStates

-----------------------------------------------------------------------------
(* Rows, locks and the unique index.                                       *)

\* a client begins a call
Begin(c) ==
    /\ call[c].pc = "idle" /\ calls < MaxCalls
    /\ calls' = calls + 1

\* SELECT ... FOR UPDATE, or a row changed by an open transaction
Unlocked(c, s) == \A d \in Clients \ {c} : ~ (call[d].holds /\ call[d].sid = s)

\* every UPDATE sets revision = revision + 1
Changed(row, state, age, by) ==
    [state |-> state, rev |-> row.rev + 1, age |-> age, supersedes |-> row.supersedes, by |-> by]

\* uniq_sessions_live_per_pair: an open transaction has inserted, or closes, a live row
PairUndecided(c, p) ==
    \E d \in Clients \ {c} :
      \/ call[d].pc = "inserted" /\ PairOf[call[d].new] = p
      \/ call[d].pc \in {"superseding", "inserted"} /\ call[d].holds /\ PairOf[call[d].sid] = p

\* mutant: the index covers ACTIVE sessions only
PairFree_ActiveOnly(c, p) ==
    \A s \in Sessions : rows[s].state = "ACTIVE" /\ PairOf[s] = p =>
                          call[c].pc = "superseding" /\ call[c].holds /\ call[c].sid = s

PairFree(c, p) ==
    \A s \in Sessions : Live(s) /\ PairOf[s] = p =>
                          call[c].pc = "superseding" /\ call[c].holds /\ call[c].sid = s

\* session_id PRIMARY KEY
IdFree(c, s) ==
    /\ ~ Exists(s)
    /\ \A d \in Clients \ {c} : call[d].pc \in {"superseding", "inserted"} => call[d].new # s

Inserted(state, age, old) ==
    [state |-> state, rev |-> 1, age |-> age, supersedes |-> old, by |-> "none"]

-----------------------------------------------------------------------------
(* Calls of one statement.                                                 *)

Create(c, s, state) ==
    /\ Begin(c)
    /\ IdFree(c, s) /\ ~ PairUndecided(c, PairOf[s]) /\ PairFree(c, PairOf[s])
    /\ rows' = [rows EXCEPT ![s] = Inserted(state, 0, None)]
    /\ UNCHANGED call

\* last_authorized_at stays; an IDLE row would break chk_sessions_idle_consistency
Activate(c, s) ==
    /\ Begin(c)
    /\ rows[s].state \in {"CREATED", "ACTIVE"} /\ Unlocked(c, s)
    /\ rows' = [rows EXCEPT ![s] = Changed(rows[s], "ACTIVE", rows[s].age, "none")]
    /\ UNCHANGED call

\* closeByToken, closeByPrincipal
CloseAll(c, S) ==
    /\ Begin(c)
    /\ \E s \in S : Live(s)
    /\ \A s \in S : Live(s) => Unlocked(c, s)
    /\ rows' = [s \in Sessions |->
                  IF s \in S /\ Live(s) THEN Changed(rows[s], "CLOSED", 0, "revoked") ELSE rows[s]]
    /\ UNCHANGED call

CloseByToken(c, t) == t # None /\ CloseAll(c, {s \in Sessions : TokenOf[s] = t})

CloseByPrincipal(c, p) == CloseAll(c, {s \in Sessions : PrincipalOf[s] = p})

-----------------------------------------------------------------------------
(* SessionManager.touch and close: a get, then an update.                  *)

TouchGet(c, s) ==
    /\ Begin(c)
    /\ rows[s].state = "ACTIVE"
    /\ call' = [call EXCEPT ![c] = Calling("touch", s, None, "CREATED", NoRow, FALSE)]
    /\ UNCHANGED rows

\* mutant: WHERE session_id = $1
Updatable_Any(s) == TRUE

\* WHERE session_id = $1 AND state <> 'CLOSED'
Updatable(s) == rows[s].state # "CLOSED"

TouchUpdate(c) ==
    LET s == call[c].sid
    IN  /\ call[c].pc = "touch" /\ Unlocked(c, s)
        /\ rows' = [rows EXCEPT ![s] =
                      IF Updatable(s) THEN Changed(rows[s], rows[s].state, rows[s].age, rows[s].by)
                                      ELSE rows[s]]
        /\ call' = [call EXCEPT ![c] = NoCall]
        /\ UNCHANGED calls

CloseGet(c, s) ==
    /\ Begin(c)
    /\ Live(s)
    /\ call' = [call EXCEPT ![c] = Calling("close", s, None, "CREATED", NoRow, FALSE)]
    /\ UNCHANGED rows

\* the patch leaves idle_since alone: on an IDLE row chk_sessions_idle_consistency fails
CloseUpdate(c) ==
    LET s == call[c].sid
    IN  /\ call[c].pc = "close" /\ Unlocked(c, s)
        /\ rows' = [rows EXCEPT ![s] = IF rows[s].state \in {"CREATED", "ACTIVE"}
                                         THEN Changed(rows[s], "CLOSED", 0, "close")
                                         ELSE rows[s]]
        /\ call' = [call EXCEPT ![c] = NoCall]
        /\ UNCHANGED calls

-----------------------------------------------------------------------------
(* Dispatch.                                                               *)

\* last_seen_at only: the age stays
ClaimForDispatch(c, s) ==
    /\ Begin(c)
    /\ rows[s].state = "ACTIVE" /\ Unlocked(c, s)
    /\ rows' = [rows EXCEPT ![s] = Changed(rows[s], "ACTIVE", rows[s].age, "none")]
    /\ call' = [call EXCEPT ![c] =
                  Calling("claimed", s, None, "CREATED",
                          Changed(rows[s], "ACTIVE", rows[s].age, "none"), FALSE)]

\* mutant: the session is only looked at again
Fence_StateOnly(c) == rows[call[c].sid].state = "ACTIVE"

Fence(c) == rows[call[c].sid].state = "ACTIVE" /\ rows[call[c].sid].rev = call[c].seen.rev

MarkAuthorized(c) ==
    LET s == call[c].sid
    IN  /\ call[c].pc = "claimed" /\ Unlocked(c, s) /\ Fence(c)
        /\ rows' = [rows EXCEPT ![s] = Changed(rows[s], "ACTIVE", 0, "none")]
        /\ call' = [call EXCEPT ![c] = [call[c] EXCEPT !.pc = "authorized"]]
        /\ UNCHANGED calls

\* the authorization is refused or the fence fails; an authorized message is done
EndDispatch(c) ==
    /\ call[c].pc \in {"claimed", "authorized"}
    /\ call' = [call EXCEPT ![c] = NoCall]
    /\ UNCHANGED <<rows, calls>>

-----------------------------------------------------------------------------
(* resume, in a transaction.                                               *)

\* SELECT ... FOR UPDATE and the tests on the row
ResumeSelect(c, s) ==
    /\ Begin(c)
    /\ rows[s].state = "IDLE" /\ Unlocked(c, s)
    /\ call' = [call EXCEPT ![c] =
                  Calling(IF rows[s].age > IdleHard THEN "expiring" ELSE "resuming",
                          s, None, "CREATED", NoRow, TRUE)]
    /\ UNCHANGED rows

\* last_authorized_at = NOW()
ResumeUpdate(c) ==
    /\ call[c].pc = "resuming"
    /\ rows' = [rows EXCEPT ![call[c].sid] = Changed(rows[call[c].sid], "ACTIVE", call[c].since, "none")]
    /\ call' = [call EXCEPT ![c] = NoCall]
    /\ UNCHANGED calls

ResumeExpire(c) ==
    /\ call[c].pc = "expiring"
    /\ rows' = [rows EXCEPT ![call[c].sid] = Changed(rows[call[c].sid], "CLOSED", 0, "timeout")]
    /\ call' = [call EXCEPT ![c] = NoCall]
    /\ UNCHANGED calls

-----------------------------------------------------------------------------
(* supersedeAndCreate, in a transaction.                                   *)

\* the UPDATE closes the old session unless it is closed
SupersedeUpdate(c, old, new, state) ==
    /\ Begin(c)
    /\ Exists(old) /\ IdFree(c, new) /\ Unlocked(c, old)
    /\ call' = [call EXCEPT ![c] = Calling("superseding", old, new, state, NoRow, Live(old))]
    /\ UNCHANGED rows

SupersedeInsert(c) ==
    /\ call[c].pc = "superseding"
    /\ ~ PairUndecided(c, PairOf[call[c].new]) /\ PairFree(c, PairOf[call[c].new])
    /\ call' = [call EXCEPT ![c] = [call[c] EXCEPT !.pc = "inserted"]]
    /\ UNCHANGED <<rows, calls>>

\* HANDSHAKE_REJECTED after a ROLLBACK
SupersedeConflict(c) ==
    /\ call[c].pc = "superseding"
    /\ ~ PairUndecided(c, PairOf[call[c].new]) /\ ~ PairFree(c, PairOf[call[c].new])
    /\ call' = [call EXCEPT ![c] = NoCall]
    /\ UNCHANGED <<rows, calls>>

SupersedeCommit(c) ==
    LET old == call[c].sid
        new == call[c].new
    IN  /\ call[c].pc = "inserted"
        /\ rows' = [rows EXCEPT
                      ![old] = IF call[c].holds THEN Changed(rows[old], "CLOSED", 0, "supersede")
                                                ELSE rows[old],
                      ![new] = Inserted(call[c].as, call[c].since, old)]
        /\ call' = [call EXCEPT ![c] = NoCall]
        /\ UNCHANGED calls

InTransaction(c) == call[c].pc \in {"resuming", "expiring", "superseding", "inserted"}

\* mutant: the statements run outside a transaction, the UPDATE is not rolled back
Rollback_KeepsUpdate(c) ==
    /\ InTransaction(c)
    /\ rows' = IF call[c].pc = "superseding" /\ call[c].holds
                 THEN [rows EXCEPT ![call[c].sid] = Changed(rows[call[c].sid], "CLOSED", 0, "supersede")]
                 ELSE rows
    /\ call' = [call EXCEPT ![c] = NoCall]
    /\ UNCHANGED calls

\* the connection is lost or a statement fails
Rollback(c) ==
    /\ InTransaction(c)
    /\ call' = [call EXCEPT ![c] = NoCall]
    /\ UNCHANGED <<rows, calls>>

-----------------------------------------------------------------------------
(* Time and the sweep.                                                     *)

\* the rows and transactions whose age is still told apart
Ageing(s) == Live(s) /\ rows[s].age < AgeCap
Waiting(c) == InTransaction(c) /\ call[c].since < AgeCap

Tick ==
    /\ (\E s \in Sessions : Ageing(s)) \/ (\E c \in Clients : Waiting(c))
    /\ rows' = [s \in Sessions |->
                  IF Ageing(s) THEN [rows[s] EXCEPT !.age = rows[s].age + 1] ELSE rows[s]]
    /\ call' = [c \in Clients |->
                  IF Waiting(c) THEN [call[c] EXCEPT !.since = call[c].since + 1] ELSE call[c]]
    /\ UNCHANGED calls

\* mutant: the hard timeout is not swept
Swept_NoHardTimeout(s) ==
    IF rows[s].state = "CREATED" /\ rows[s].age > CreatedTimeout
      THEN Changed(rows[s], "CLOSED", 0, "timeout")
      ELSE IF rows[s].state = "ACTIVE" /\ rows[s].age > IdleSoft
             THEN Changed(rows[s], "IDLE", 0, "none")
             ELSE rows[s]

\* the three passes: a row changed by one is not due in a later one
Swept(s) ==
    CASE rows[s].state = "CREATED" /\ rows[s].age > CreatedTimeout ->
           Changed(rows[s], "CLOSED", 0, "timeout")
      [] rows[s].state = "ACTIVE" /\ rows[s].age > IdleSoft ->
           Changed(rows[s], "IDLE", 0, "none")
      [] rows[s].state = "IDLE" /\ rows[s].age > IdleHard ->
           Changed(rows[s], "CLOSED", 0, "timeout")
      [] OTHER -> rows[s]

CleanExpired ==
    /\ \E s \in Sessions : Swept(s) # rows[s]
    /\ \A s \in Sessions, c \in Clients : Swept(s) # rows[s] => ~ (call[c].holds /\ call[c].sid = s)
    /\ rows' = [s \in Sessions |-> Swept(s)]
    /\ UNCHANGED <<call, calls>>

-----------------------------------------------------------------------------
Transaction(c) ==
    ResumeUpdate(c) \/ ResumeExpire(c) \/ SupersedeInsert(c) \/ SupersedeConflict(c) \/ SupersedeCommit(c)

Next ==
    \/ \E c \in Clients, s \in Sessions :
         \/ \E state \in {"CREATED", "ACTIVE"} : Create(c, s, state)
         \/ Activate(c, s) \/ TouchGet(c, s) \/ CloseGet(c, s) \/ ClaimForDispatch(c, s)
         \/ CloseByToken(c, TokenOf[s]) \/ CloseByPrincipal(c, PrincipalOf[s])
         \/ ResumeSelect(c, s)
         \/ \E new \in Sessions, state \in {"CREATED", "ACTIVE"} : SupersedeUpdate(c, s, new, state)
    \/ \E c \in Clients :
         \/ TouchUpdate(c) \/ CloseUpdate(c) \/ MarkAuthorized(c) \/ EndDispatch(c)
         \/ Transaction(c) \/ Rollback(c)
    \/ Tick
    \/ CleanExpired

Spec == Init /\ [][Next]_vars

\* time passes, the sweep timer fires, and the database ends the transactions it is given
Fairness ==
    /\ WF_vars(Tick) /\ WF_vars(CleanExpired)
    /\ \A c \in Clients : WF_vars(Transaction(c) \/ Rollback(c))

FairSpec == Spec /\ Fairness

-----------------------------------------------------------------------------
(* Properties.                                                             *)

\* Two sessions of one pair of DIDs are never live together, whatever creates and
\* supersedes race each other (uniq_sessions_live_per_pair).
OneLivePerPair ==
    \A s, t \in Sessions : Live(s) /\ Live(t) /\ PairOf[s] = PairOf[t] => s = t

\* A superseded session is closed, and one that was closed to be superseded has its
\* successor (supersedeAndCreate is all or nothing).
SupersedeIsAtomic ==
    /\ \A s \in Sessions : rows[s].supersedes # None => rows[rows[s].supersedes].state = "CLOSED"
    /\ \A s \in Sessions : rows[s].by = "supersede" => \E t \in Sessions : rows[t].supersedes = s

\* A closed session keeps its reason, one that was superseded has its successor, and both
\* were written together (chk_sessions_*, supersedeAndCreate).
StoreIsSound == TypeOK /\ SupersedeIsAtomic

\* A closed session never changes again: no late touch, resume or close revives it or
\* gives it another reason.
ClosedIsFinal ==
    [][\A s \in Sessions : rows[s].state = "CLOSED" => rows'[s] = rows[s]]_vars

\* A message is authorized only on the session as it was claimed: not closed, idled,
\* resumed, touched or claimed by another message in between (the revision fence).
AuthorizedAsClaimed ==
    [][\A c \in Clients : call[c].pc = "claimed" /\ call'[c].pc = "authorized" =>
         [rows[call[c].sid] EXCEPT !.age = 0] = [call[c].seen EXCEPT !.age = 0]]_vars

\* Once nobody uses it any more a session is closed by the sweep (cleanExpired).
AbandonedSessionsClose == \A s \in Sessions : Live(s) ~> rows[s].state = "CLOSED"

\* The rows, seen as the interface shows them.
Shown(row) == [state |-> row.state, rev |-> row.rev]
ShownRows == [s \in Sessions |-> Shown(rows[s])]
Lifecycle == INSTANCE SessionLifecycle WITH LcSessions <- Sessions, lifecycle <- ShownRows

\* The table, with its transactions, waits and rollbacks, keeps what the interface
\* SessionStore promises: a session takes the edges of its life only, every change of it
\* raises its revision, and a session is created together with the close of the one it
\* replaces.
StoreImplementsLifecycle == Lifecycle!LcSpec

-----------------------------------------------------------------------------
(***************************************************************************)
(* InMemorySessionStore (communication/src/session/in-memory-store.ts)     *)
(* under the SessionManager.                                               *)
(*                                                                         *)
(* A call of the store is one synchronous step.  The manager's touch and   *)
(* close, and a dispatch, call it twice with an await in between.  The     *)
(* store knows no pair of DIDs that may have one live session only: that   *)
(* promise is the table's (module SessionStore).                           *)
(***************************************************************************)

CONSTANTS
    MemSessions,    \* session ids
    MemClients,     \* callers
    MemTokenOf,     \* session -> capabilityTokenId
    MemPrincipalOf, \* session -> principalDid
    MemTimeout,     \* createdTimeoutMs, idleSoftMs and idleHardMs, taken equal
    MaxMemCalls     \* bound: calls

ASSUME MemAssumption == MemTimeout \in Nat /\ MaxMemCalls \in Nat

VARIABLES
    memSessions,  \* the map of the store; ages are of lastAuthorizedAt and of idleSince
    memCall,      \* client -> what it read and means to do
    memCalls      \* bound

memVars == <<memSessions, memCall, memCalls>>

NoSession == [state |-> "none", rev |-> 0, authAge |-> 0, idleAge |-> 0]
MemAgeCap == MemTimeout + 1
NoMemCall == [pc |-> "idle", sid |-> NoSession, rev |-> 0]
MemLive(s) == memSessions[s].state \in {"CREATED", "ACTIVE", "IDLE"}

\* Revisions count the changes; ages stop at the cap.
MemTypeOK ==
    /\ memCalls \in 0..MaxMemCalls
    /\ \A s \in MemSessions : /\ memSessions[s].state \in {"none", "CREATED", "ACTIVE", "IDLE", "CLOSED"}
                              /\ {memSessions[s].authAge, memSessions[s].idleAge} \subseteq 0..MemAgeCap
                              /\ memSessions[s].rev \in Nat
    /\ \A c \in MemClients : memCall[c].pc \in {"idle", "touch", "close", "claimed"}

MemInit ==
    /\ memSessions = [s \in MemSessions |-> NoSession]
    /\ memCall = [c \in MemClients |-> NoMemCall]
    /\ memCalls = 0

MemBegin(c) == memCall[c].pc = "idle" /\ memCalls < MaxMemCalls /\ memCalls' = memCalls + 1

\* bumpRevision: every change raises the revision
BumpRevision(row) == row.rev + 1

MemSet(s, row) == memSessions' = [memSessions EXCEPT ![s] = row]
MemChanged(row, st) == [row EXCEPT !.state = st, !.rev = BumpRevision(row)]
Closed(row) == [MemChanged(row, "CLOSED") EXCEPT !.idleAge = 0]

-----------------------------------------------------------------------------
\* _create: refused when the id is taken
MemCreate(c, s, st) ==
    /\ MemBegin(c) /\ memSessions[s].state = "none"
    /\ MemSet(s, [NoSession EXCEPT !.state = st, !.rev = 1])
    /\ UNCHANGED memCall

\* mutant: _update patches a closed session as well
MemUpdatable_Any(s) == memSessions[s].state # "none"

\* _update of activate: the state alone is patched
MemUpdatable(s) == memSessions[s].state \notin {"none", "CLOSED"}

MemActivate(c, s) ==
    /\ MemBegin(c) /\ MemUpdatable(s)
    /\ MemSet(s, MemChanged(memSessions[s], "ACTIVE"))
    /\ UNCHANGED memCall

\* touch and close read the session first
MemGet(c, s, op) ==
    /\ MemBegin(c)
    /\ IF op = "touch" THEN memSessions[s].state = "ACTIVE" ELSE MemLive(s)
    /\ memCall' = [memCall EXCEPT ![c] = [pc |-> op, sid |-> s, rev |-> 0]]
    /\ UNCHANGED memSessions

MemTouch(c) ==
    LET s == memCall[c].sid
    IN  /\ memCall[c].pc = "touch"
        /\ IF MemUpdatable(s) THEN MemSet(s, MemChanged(memSessions[s], memSessions[s].state))
           ELSE UNCHANGED memSessions
        /\ memCall' = [memCall EXCEPT ![c] = NoMemCall] /\ UNCHANGED memCalls

MemClose(c) ==
    LET s == memCall[c].sid
    IN  /\ memCall[c].pc = "close"
        /\ IF MemUpdatable(s) THEN MemSet(s, MemChanged(memSessions[s], "CLOSED"))
           ELSE UNCHANGED memSessions
        /\ memCall' = [memCall EXCEPT ![c] = NoMemCall] /\ UNCHANGED memCalls

\* _resume: an IDLE session within the hard timeout becomes ACTIVE; beyond it, it is closed
MemResume(c, s) ==
    LET row == memSessions[s]
    IN  /\ MemBegin(c) /\ row.state = "IDLE"
        /\ MemSet(s, IF row.idleAge > MemTimeout THEN Closed(row)
                     ELSE [MemChanged(row, "ACTIVE") EXCEPT !.authAge = 0, !.idleAge = 0])
        /\ UNCHANGED memCall

\* _supersedeAndCreate: the old session is closed before the new one is refused
MemSupersede(c, old, new, st) ==
    /\ MemBegin(c) /\ memSessions[old].state # "none" /\ old # new
    /\ memSessions' = [memSessions EXCEPT
          ![old] = IF @.state = "CLOSED" THEN @ ELSE Closed(@),
          ![new] = IF @.state = "none" THEN [NoSession EXCEPT !.state = st, !.rev = 1] ELSE @]
    /\ UNCHANGED memCall

\* _claimForDispatch; the caller's parties and token are the session's
MemClaim(c, s) ==
    /\ MemBegin(c) /\ memSessions[s].state = "ACTIVE"
    /\ MemSet(s, MemChanged(memSessions[s], "ACTIVE"))
    /\ memCall' = [memCall EXCEPT ![c] = [pc |-> "claimed", sid |-> s, rev |-> BumpRevision(memSessions[s])]]

\* _markAuthorized: a compare and set on the revision
MemMarkAuthorized(c) ==
    LET s == memCall[c].sid
    IN  /\ memCall[c].pc = "claimed"
        /\ memSessions[s].state = "ACTIVE" /\ memSessions[s].rev = memCall[c].rev
        /\ MemSet(s, [MemChanged(memSessions[s], "ACTIVE") EXCEPT !.authAge = 0])
        /\ memCall' = [memCall EXCEPT ![c] = NoMemCall] /\ UNCHANGED memCalls

\* the message is refused, or the compare fails
MemRefused(c) ==
    /\ memCall[c].pc = "claimed"
    /\ memCall' = [memCall EXCEPT ![c] = NoMemCall] /\ UNCHANGED <<memSessions, memCalls>>

MemCloseAll(c, S) ==
    /\ MemBegin(c) /\ \E s \in S : MemLive(s)
    /\ memSessions' = [s \in MemSessions |-> IF s \in S /\ MemLive(s) THEN Closed(memSessions[s])
                                             ELSE memSessions[s]]
    /\ UNCHANGED memCall
MemCloseByToken(c, t) == MemCloseAll(c, {s \in MemSessions : MemTokenOf[s] = t})
MemCloseByPrincipal(c, p) == MemCloseAll(c, {s \in MemSessions : MemPrincipalOf[s] = p})

\* _cleanExpired: three passes; what one marks is not due in the next
MemSwept(row) ==
    CASE row.state = "CREATED" /\ row.authAge > MemTimeout -> MemChanged(row, "CLOSED")
      [] row.state = "ACTIVE" /\ row.authAge > MemTimeout -> [MemChanged(row, "IDLE") EXCEPT !.idleAge = 0]
      [] row.state = "IDLE" /\ row.idleAge > MemTimeout -> Closed(row)
      [] OTHER -> row

MemCleanExpired ==
    /\ \E s \in MemSessions : MemSwept(memSessions[s]) # memSessions[s]
    /\ memSessions' = [s \in MemSessions |-> MemSwept(memSessions[s])]
    /\ UNCHANGED <<memCall, memCalls>>

Older(age) == IF age < MemAgeCap THEN age + 1 ELSE age
MemTick ==
    /\ memSessions' = [s \in MemSessions |-> IF MemLive(s)
                          THEN [memSessions[s] EXCEPT !.authAge = Older(@),
                                                      !.idleAge = IF memSessions[s].state = "IDLE"
                                                                  THEN Older(@) ELSE @]
                          ELSE memSessions[s]]
    /\ UNCHANGED <<memCall, memCalls>>

MemNext ==
    \/ \E c \in MemClients, s \in MemSessions :
          \/ \E st \in {"CREATED", "ACTIVE"} :
                \/ MemCreate(c, s, st)
                \/ \E old \in MemSessions : MemSupersede(c, old, s, st)
          \/ MemActivate(c, s) \/ MemResume(c, s) \/ MemClaim(c, s)
          \/ \E op \in {"touch", "close"} : MemGet(c, s, op)
          \/ MemCloseByToken(c, MemTokenOf[s]) \/ MemCloseByPrincipal(c, MemPrincipalOf[s])
    \/ \E c \in MemClients : MemTouch(c) \/ MemClose(c) \/ MemMarkAuthorized(c) \/ MemRefused(c)
    \/ MemCleanExpired \/ MemTick

MemSpec == MemInit /\ [][MemNext]_memVars

-----------------------------------------------------------------------------
MemLifecycle == INSTANCE SessionLifecycle WITH
    LcSessions <- MemSessions,
    lifecycle <- [s \in MemSessions |-> [state |-> memSessions[s].state, rev |-> memSessions[s].rev]]

\* The in-memory store implements the interface's session lifecycle: whatever touches, closes,
\* resumes, cascades and sweeps race, a session moves along its states only, each change raises
\* its revision by one and a closed session stays as it is.
MemoryStoreImplementsLifecycle == []MemTypeOK /\ MemLifecycle!LcSpec
=============================================================================
