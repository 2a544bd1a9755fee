--------------------------- MODULE EnvelopeLedger ---------------------------
(***************************************************************************)
(* policy/src/envelope-ledger/envelope-ledger.ts over the table of         *)
(* policy/sql/006-create-envelope-ledger.sql: an envelope is claimed under *)
(* a lease, then finalized, rejected, or reclaimed once the lease ran out. *)
(*                                                                         *)
(* Every operation but the sweeper is a PostgreSQL READ COMMITTED          *)
(* transaction of several statements, so a step here is one statement.     *)
(* SELECT ... FOR UPDATE and UPDATE wait for a row another transaction has *)
(* locked (the step is not enabled), an INSERT waits for an uncommitted    *)
(* row that would collide in a partial unique index, and what a            *)
(* transaction writes is visible to the others when it commits.            *)
(***************************************************************************)
EXTENDS Integers, FiniteSets

CONSTANTS
    Envelopes,      \* envelope identifiers
    NoEnvelope,     \* no envelope yet (unused rows and sessions)
    Clients,        \* database sessions running the operations
    Claimers,       \* claimer identities passed to claim/finalize/reject
    NoClaimer,      \* the omitted claimerId (NULL in the table)
    TTLs,           \* lease lengths passed to claim
    SweepLimit,     \* batch size of expireStalePending
    MaxRows,        \* bound: rows ever inserted
    MaxClock        \* bound: database clock

ASSUME LedgerAssumption ==
    /\ NoClaimer \notin Claimers
    /\ NoEnvelope \notin Envelopes
    /\ TTLs \subseteq Nat \ {0}
    /\ SweepLimit \in Nat \ {0}
    /\ MaxRows \in Nat
    /\ MaxClock \in Nat

VARIABLES
    rows,   \* committed contents of policy.envelope_ledger, by id
    nextId, \* the BIGSERIAL sequence behind id
    tx,     \* what each session's current (or last) operation is doing
    clock   \* clock_timestamp()

vars == <<rows, nextId, tx, clock>>

RowId == 1..MaxRows
Active == {"PENDING", "COMMITTED", "REJECTED"}
Terminal == {"COMMITTED", "REJECTED"}
Status == Active \cup {"EXPIRED", "ABSENT"}
Identity == Claimers \cup {NoClaimer}
Row == [env : Envelopes \cup {NoEnvelope}, status : Status, claimer : Identity,
        claimedAt : Nat, ttl : Nat]

Answers == {"none", "error", "claimed", "ALREADY_PENDING", "ALREADY_TERMINAL",
            "finalized", "LEASE_EXPIRED", "ALREADY_FINAL", "NOT_FOUND", "rejected"}

Tx == [pc  : {"idle", "insert", "update", "expire", "lookup", "commit"},
       op  : {"claim", "finalize", "reject"},
       env : Envelopes \cup {NoEnvelope}, by : Identity, ttl : Nat,
       row : RowId \cup {0},
       to  : Status,      \* status the uncommitted write gives the row
       at  : Nat,         \* claimed_at of an uncommitted INSERT
       res : Answers]     \* what the last finished operation returned

\* The table, the sessions and the clock have their types: a row has one of the states of
\* the table's CHECK, a session one of the answers of the code.
TypeOK ==
    /\ rows \in [RowId -> Row]
    /\ nextId \in 1..(MaxRows + 1)
    /\ tx \in [Clients -> Tx]
    /\ clock \in Nat

NoRow == [env |-> NoEnvelope, status |-> "ABSENT", claimer |-> NoClaimer,
          claimedAt |-> 0, ttl |-> 0]

NoTx == [pc |-> "idle", op |-> "claim", env |-> NoEnvelope, by |-> NoClaimer, ttl |-> 0,
         row |-> 0, to |-> "ABSENT", at |-> 0, res |-> "none"]

Init ==
    /\ rows = [r \in RowId |-> NoRow]
    /\ nextId = 1
    /\ tx = [c \in Clients |-> NoTx]
    /\ clock = 0

-----------------------------------------------------------------------------
(* Rows and locks.                                                         *)

RowsOf(e, S) == {r \in RowId : rows[r].env = e /\ rows[r].status \in S}

Deadline(r) == rows[r].claimedAt + rows[r].ttl

LeaseValid(r) == Deadline(r) >= clock

LeaseStale(r) == Deadline(r) < clock

\* the ownership clause: claimer_id IS NULL OR claimer_id = $claimerId
MayAct(by, r) == by = NoClaimer \/ rows[r].claimer \in {NoClaimer, by}

\* session c holds the lock of row r, from FOR UPDATE or from UPDATE itself
Holds(c, r) == tx[c].row = r /\ tx[c].op # "claim" /\ tx[c].pc \in {"update", "commit"}

Locked(r) == \E c \in Clients : Holds(c, r)

\* the end of an operation: the transaction is over, its locks are released
Finish(c, answer, row) ==
    tx' = [tx EXCEPT ![c] = [NoTx EXCEPT !.env = tx[c].env, !.row = row, !.res = answer]]

\* withTransaction's catch: ROLLBACK, and the error reaches the caller
Rollback(c) == Finish(c, "error", 0)

Start(c, op, e, by, ttl, pc, row) ==
    tx' = [tx EXCEPT ![c] = [NoTx EXCEPT !.pc = pc, !.op = op, !.env = e, !.by = by,
                                         !.ttl = ttl, !.row = row]]

Write(c, to) == tx' = [tx EXCEPT ![c] = [@ EXCEPT !.pc = "commit", !.to = to]]

-----------------------------------------------------------------------------
(* claim(): SELECT ... LIMIT 1 FOR UPDATE, then INSERT, then COMMIT.       *)

\* an active row exists: the answer is decided by the row LIMIT 1 returns
ClaimConflict(c, e) ==
    /\ tx[c].pc = "idle"
    /\ \E r \in RowsOf(e, Active) :
         /\ ~ Locked(r)
         /\ tx' = [tx EXCEPT ![c] =
                     [NoTx EXCEPT !.env = e, !.row = r,
                               !.res = IF rows[r].status \in Terminal
                                         THEN "ALREADY_TERMINAL" ELSE "ALREADY_PENDING"]]
    /\ UNCHANGED <<rows, nextId, clock>>

ClaimSelectNone(c, e, by, ttl) ==
    /\ tx[c].pc = "idle"
    /\ RowsOf(e, Active) = {}
    /\ Start(c, "claim", e, by, ttl, "insert", 0)
    /\ UNCHANGED <<rows, nextId, clock>>

\* another session's uncommitted write decides whether uq_envelope_ledger_pending
\* will be violated: the INSERT waits for it
PendingUndecided(e) ==
    \E d \in Clients :
      /\ tx[d].pc = "commit" /\ tx[d].env = e
      /\ \/ tx[d].op = "claim"
         \/ tx[d].op # "claim" /\ rows[tx[d].row].status = "PENDING"

PendingIndexFree(e) == RowsOf(e, {"PENDING"}) = {}

ClaimInsert(c) ==
    /\ tx[c].pc = "insert"
    /\ ~ PendingUndecided(tx[c].env)
    /\ \/ /\ PendingIndexFree(tx[c].env)
          /\ nextId <= MaxRows
          /\ tx' = [tx EXCEPT ![c] =
                    [@ EXCEPT !.pc = "commit", !.row = nextId, !.to = "PENDING", !.at = clock]]
          /\ nextId' = nextId + 1
       \/ /\ ~ PendingIndexFree(tx[c].env)     \* 23505
          /\ Finish(c, "ALREADY_PENDING", 0)
          /\ UNCHANGED nextId
    /\ UNCHANGED <<rows, clock>>

-----------------------------------------------------------------------------
(* finalize(): SELECT FOR UPDATE of a live lease, UPDATE to COMMITTED; or  *)
(* passively expire a stale row, or find out why there was nothing.        *)

\* mutant: the SELECT without its ownership clause
FinalizeCandidates_NoOwner(e, by) ==
    {r \in RowsOf(e, {"PENDING"}) : LeaseValid(r)}

FinalizeCandidates(e, by) ==
    {r \in RowsOf(e, {"PENDING"}) : LeaseValid(r) /\ MayAct(by, r)}

\* mutant: a plain SELECT, without FOR UPDATE
FinalizeSelect_NoLock(c, e, by) ==
    /\ tx[c].pc = "idle"
    /\ \/ \E r \in FinalizeCandidates(e, by) : Start(c, "finalize", e, by, 0, "update", r)
       \/ /\ FinalizeCandidates(e, by) = {}
          /\ Start(c, "finalize", e, by, 0, "expire", 0)
    /\ UNCHANGED <<rows, nextId, clock>>

FinalizeSelect(c, e, by) ==
    /\ tx[c].pc = "idle"
    /\ \/ \E r \in FinalizeCandidates(e, by) :
            ~ Locked(r) /\ Start(c, "finalize", e, by, 0, "update", r)
       \/ /\ FinalizeCandidates(e, by) = {}
          /\ Start(c, "finalize", e, by, 0, "expire", 0)
    /\ UNCHANGED <<rows, nextId, clock>>

\* mutant: the migration without the terminal indexes
TerminalIndexFree_None(e, s) == TRUE

\* uq_envelope_ledger_committed / uq_envelope_ledger_rejected
TerminalIndexFree(e, s) == RowsOf(e, {s}) = {}

\* the UPDATE checks the lease once more; no row back is an error, and so is 23505
FinalizeUpdate(c) ==
    /\ tx[c].pc = "update" /\ tx[c].op = "finalize"
    /\ IF LeaseValid(tx[c].row) /\ TerminalIndexFree(tx[c].env, "COMMITTED")
         THEN Write(c, "COMMITTED")
         ELSE Rollback(c)
    /\ UNCHANGED <<rows, nextId, clock>>

\* passive expiry has no ownership clause
FinalizeExpire(c) ==
    LET stale == {r \in RowsOf(tx[c].env, {"PENDING"}) : LeaseStale(r)} IN
    /\ tx[c].pc = "expire"
    /\ \/ \E r \in stale :
            /\ ~ Locked(r)
            /\ tx' = [tx EXCEPT ![c] =
                                [@ EXCEPT !.pc = "commit", !.row = r, !.to = "EXPIRED"]]
       \/ stale = {} /\ tx' = [tx EXCEPT ![c].pc = "lookup"]
    /\ UNCHANGED <<rows, nextId, clock>>

-----------------------------------------------------------------------------
(* reject(): as finalize, but whatever the lease.                          *)

RejectCandidates(e, by) == {r \in RowsOf(e, {"PENDING"}) : MayAct(by, r)}

RejectSelect(c, e, by) ==
    /\ tx[c].pc = "idle"
    /\ \/ \E r \in RejectCandidates(e, by) :
            ~ Locked(r) /\ Start(c, "reject", e, by, 0, "update", r)
       \/ /\ RejectCandidates(e, by) = {}
          /\ Start(c, "reject", e, by, 0, "lookup", 0)
    /\ UNCHANGED <<rows, nextId, clock>>

RejectUpdate(c) ==
    /\ tx[c].pc = "update" /\ tx[c].op = "reject"
    /\ IF TerminalIndexFree(tx[c].env, "REJECTED")
         THEN Write(c, "REJECTED")
         ELSE Rollback(c)
    /\ UNCHANGED <<rows, nextId, clock>>

\* the last SELECT of finalize and reject when there was nothing to act on
FinalLookup(c) ==
    /\ tx[c].pc = "lookup"
    /\ Finish(c, IF RowsOf(tx[c].env, Terminal) # {} THEN "ALREADY_FINAL" ELSE "NOT_FOUND", 0)
    /\ UNCHANGED <<rows, nextId, clock>>

-----------------------------------------------------------------------------
(* COMMIT, ROLLBACK, the sweeper and time.                                 *)

AnswerFor(to) ==
    CASE to = "PENDING"   -> "claimed"
      [] to = "COMMITTED" -> "finalized"
      [] to = "REJECTED"  -> "rejected"
      [] OTHER            -> "LEASE_EXPIRED"

Commit(c) ==
    /\ tx[c].pc = "commit"
    /\ rows' = [rows EXCEPT ![tx[c].row] =
                  IF tx[c].op = "claim"
                    THEN [env |-> tx[c].env, status |-> tx[c].to, claimer |-> tx[c].by,
                          claimedAt |-> tx[c].at, ttl |-> tx[c].ttl]
                    ELSE [@ EXCEPT !.status = tx[c].to]]
    /\ Finish(c, AnswerFor(tx[c].to), tx[c].row)
    /\ UNCHANGED <<nextId, clock>>

\* a lost connection, or another write of the caller's shared transaction failing
Abort(c) ==
    /\ tx[c].pc # "idle"
    /\ Rollback(c)
    /\ UNCHANGED <<rows, nextId, clock>>

\* mutant: <= instead of < in the sweeper's lease test
SweepBatches_AtDeadline ==
    {{r} : r \in {s \in RowId : rows[s].status = "PENDING" /\ Deadline(s) <= clock /\ ~ Locked(s)}}

SweepBatches ==
    LET stale == {r \in RowId : rows[r].status = "PENDING" /\ LeaseStale(r) /\ ~ Locked(r)}
    IN  {B \in SUBSET stale :
           /\ B # {}
           /\ Cardinality(B) <= SweepLimit
           /\ B # stale => Cardinality(B) = SweepLimit
           /\ \A r \in B, s \in stale \ B : rows[r].claimedAt <= rows[s].claimedAt}

\* one autocommitted statement: FOR UPDATE SKIP LOCKED, oldest claims first
ExpireStalePending ==
    /\ \E B \in SweepBatches :
         rows' = [r \in RowId |-> IF r \in B THEN [rows[r] EXCEPT !.status = "EXPIRED"]
                                             ELSE rows[r]]
    /\ UNCHANGED <<nextId, tx, clock>>

Tick ==
    /\ clock < MaxClock
    /\ clock' = clock + 1
    /\ UNCHANGED <<rows, nextId, tx>>

Next ==
    \/ \E c \in Clients :
         \/ \E e \in Envelopes : ClaimConflict(c, e)
         \/ \E e \in Envelopes, by \in Identity, ttl \in TTLs : ClaimSelectNone(c, e, by, ttl)
         \/ \E e \in Envelopes, by \in Identity : FinalizeSelect(c, e, by)
         \/ \E e \in Envelopes, by \in Identity : RejectSelect(c, e, by)
         \/ ClaimInsert(c) \/ FinalizeUpdate(c) \/ FinalizeExpire(c)
         \/ RejectUpdate(c) \/ FinalLookup(c) \/ Commit(c) \/ Abort(c)
    \/ ExpireStalePending
    \/ Tick

Spec == Init /\ [][Next]_vars

-----------------------------------------------------------------------------
(* Properties.                                                             *)

\* An envelope is finalized at most once: whatever claims, expiries, re-claims
\* and finalizes interleave, the table never holds two COMMITTED rows of one
\* envelope (envelope-ledger.ts finalize, 006 uq_envelope_ledger_committed).
OneCommitPerEnvelope ==
    \A e \in Envelopes : \A r, s \in RowsOf(e, {"COMMITTED"}) : r = s

\* Leases of one envelope never overlap: a row is EXPIRED only after its lease
\* ran out, and a row inserted after an expired one was claimed after that
\* lease's end (claim against expireStalePending and finalize's passive expiry).
LeasesDoNotOverlap ==
    \A r \in RowId : rows[r].status = "EXPIRED" =>
      /\ LeaseStale(r)
      /\ \A s \in RowId :
           (s > r /\ rows[s].env = rows[r].env /\ rows[s].status # "ABSENT")
             => rows[s].claimedAt > Deadline(r)

\* Two sessions never both hold the row they are about to write: the FOR UPDATE
\* locks of finalize and reject and the passive expiry exclude each other, and a
\* locked row stays the PENDING row that was selected until its holder commits.
LockedRowIsStable ==
    \A c \in Clients, r \in RowId : Holds(c, r) =>
      /\ rows[r].status = "PENDING" /\ rows[r].env = tx[c].env
      /\ \A d \in Clients : Holds(d, r) => d = c

\* What an operation answered is what the table says, also after other sessions
\* have gone on: a finalize or reject that succeeded is never undone, a lease
\* reported expired stays expired, and "already terminal" always has a witness.
AnswersStayTrue ==
    \A c \in Clients : tx[c].pc = "idle" =>
      /\ tx[c].res = "finalized"     => rows[tx[c].row].status = "COMMITTED"
      /\ tx[c].res = "rejected"      => rows[tx[c].row].status = "REJECTED"
      /\ tx[c].res = "LEASE_EXPIRED" => rows[tx[c].row].status = "EXPIRED"
      /\ tx[c].res \in {"ALREADY_TERMINAL", "ALREADY_FINAL"}
           => RowsOf(tx[c].env, Terminal) # {}

\* A claim is ended only by its holder or by time: a PENDING row becomes COMMITTED
\* or REJECTED only by a session whose claimerId passes the ownership clause, and
\* EXPIRED only when the lease ran out; a row that left PENDING never changes.
EndedByHolderOrTime ==
    [][\A r \in RowId : rows'[r] # rows[r] =>
         \/ rows[r].status = "ABSENT" /\ rows'[r].status = "PENDING"
         \/ /\ rows[r].status = "PENDING"
            /\ \/ rows'[r].status = "EXPIRED" /\ LeaseStale(r)
               \/ /\ rows'[r].status \in Terminal
                  /\ \E c \in Clients : Holds(c, r) /\ MayAct(tx[c].by, r)]_vars

\* The row a session selected FOR UPDATE is its own, and stays the PENDING row it was, until
\* the session commits or rolls back (finalize, reject); what a session was told about an
\* envelope stays true, and no two leases of one envelope ran at the same time, whatever
\* expiries and re-claims came later.
LeasesAndAnswersHold == TypeOK /\ LockedRowIsStable /\ LeasesDoNotOverlap /\ AnswersStayTrue

\* "This way no dangling PENDING is produced under any concurrent ordering"
\* (envelope-ledger.ts, comment in claim): no envelope has a PENDING row next to
\* a terminal one.
NoDanglingPending ==
    \A e \in Envelopes : RowsOf(e, {"PENDING"}) = {} \/ RowsOf(e, Terminal) = {}
=============================================================================
