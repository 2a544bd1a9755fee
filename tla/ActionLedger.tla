---------------------------- MODULE ActionLedger ----------------------------
(***************************************************************************)
(* The action-record ledger: ActionRecorder.record() appends to a per-agent*)
(* hash chain in policy.action_records, control-plane records are anchored *)
(* in the hash chain of policy.audit_side_table in the same transaction,   *)
(* the cumulative tracker keeps its reservation rows in the same table, and*)
(* IntegrityChecker.verifyIntegrity walks an agent's rows.                 *)
(*                                                                         *)
(* A row's record_hash is represented by the row's id (hashes do not       *)
(* collide), previous_record_hash by the id of the row whose hash it       *)
(* stores, 0 for the empty string.  A step is one SQL statement of one     *)
(* call; what a call writes is visible to others when it commits.          *)
(***************************************************************************)
EXTENDS Integers, FiniteSets

CONSTANTS
    Agents,         \* business agents
    Governor,       \* SESSION_GOVERNOR_DID
    Calls,          \* concurrent calls
    RecordIds,      \* record_id values in use
    Metered,        \* agents with a cumulative limit: they get reservation rows
    MaxRows,        \* bound: rows ever inserted in either table
    MaxClock        \* bound: wall clock of the callers

ASSUME ActionLedgerAssumption ==
    /\ Governor \notin Agents
    /\ Metered \subseteq Agents
    /\ MaxRows \in Nat
    /\ MaxClock \in Nat

VARIABLES
    rows,       \* policy.action_records by id
    nextId,     \* its id sequence
    side,       \* policy.audit_side_table by id
    nextSide,   \* its id sequence
    call,       \* the calls in progress
    clock       \* wall clock

vars == <<rows, nextId, side, nextSide, call, clock>>

RowId == 1..MaxRows
Ref == 0..MaxRows
Did == Agents \cup {Governor}
Kinds == {"standard", "control-plane", "reserve"}
Row == [kind : Kinds \cup {"none"}, agent : Did, rid : RecordIds \cup {0}, ts : Nat, prev : Ref]
SideRow == [rec : Ref, prev : Ref]

Call == [pc : {"idle", "stamped", "locked", "linked", "inserted", "anchoring", "anchored"},
         kind : Kinds, agent : Did, rid : RecordIds \cup {0}, ts : Nat,
         prev : Ref, row : Ref, sprev : Ref, srow : Ref]

\* The tables, the calls in progress and the clock have their types: a link names a row,
\* a sequence stays within the rows (001-create-action-records.sql, 010_audit_side_table.sql).
TypeOK ==
    /\ rows \in [RowId -> Row]
    /\ nextId \in 1..(MaxRows + 1)
    /\ side \in [RowId -> SideRow]
    /\ nextSide \in 1..(MaxRows + 1)
    /\ call \in [Calls -> Call]
    /\ clock \in Nat

NoRow == [kind |-> "none", agent |-> Governor, rid |-> 0, ts |-> 0, prev |-> 0]
NoCall == [pc |-> "idle", kind |-> "standard", agent |-> Governor, rid |-> 0, ts |-> 0,
           prev |-> 0, row |-> 0, sprev |-> 0, srow |-> 0]

Init ==
    /\ rows = [r \in RowId |-> NoRow]
    /\ nextId = 1
    /\ side = [r \in RowId |-> [rec |-> 0, prev |-> 0]]
    /\ nextSide = 1
    /\ call = [c \in Calls |-> NoCall]
    /\ clock = 0

-----------------------------------------------------------------------------
(* The chains.                                                             *)

Chain(a) == {r \in RowId : rows[r].kind # "none" /\ rows[r].agent = a}

SideChain == {s \in RowId : side[s].rec # 0}

\* ORDER BY created_at, id
Before(r, s) == rows[r].ts < rows[s].ts \/ (rows[r].ts = rows[s].ts /\ r < s)

\* x stands for the record_hash of the last row of S, '' when S is empty
IsTail(x, S) ==
    \/ S = {} /\ x = 0
    \/ x \in S /\ \A r \in S : r = x \/ Before(r, x)

\* IntegrityChecker.verifyIntegrity: the rows in query() order, each naming its
\* predecessor; a reservation row's random record_hash never recomputes
VerifyIntegrity(a) ==
    \A s \in Chain(a) :
      /\ rows[s].kind # "reserve"
      /\ IsTail(rows[s].prev, {r \in Chain(a) : Before(r, s)})

\* SideTableAppender.verifyChain with the main-table loader, rows by id
VerifySideChain ==
    \A s \in SideChain :
      /\ \/ side[s].prev = 0 /\ \A t \in SideChain : t >= s
         \/ side[s].prev \in SideChain /\ side[s].prev < s
              /\ \A t \in SideChain : t < s => t <= side[s].prev
      /\ rows[side[s].rec].kind # "none"

-----------------------------------------------------------------------------
(* ActionRecorder.record().                                                *)

Busy(c) == call[c].pc # "idle"

\* assertLaneAllowed, the schema validator and the session-binding check, reduced
\* to what they decide: which kind of recorder may write a well-formed input
LaneAllowed(kind, a) == (kind = "control-plane") <=> (a = Governor)

\* bound: a call starts only if the tables have room for it and the calls in progress
RoomForAnother ==
    LET n == Cardinality({c \in Calls : Busy(c)})
    IN  nextId + n <= MaxRows /\ nextSide + n <= MaxRows

\* createdAt is read from the clock before the transaction begins
Record(c, kind, a, rid) ==
    /\ ~ Busy(c) /\ RoomForAnother
    /\ LaneAllowed(kind, a)
    /\ call' = [call EXCEPT ![c] = [NoCall EXCEPT !.pc = "stamped", !.kind = kind,
                                                  !.agent = a, !.rid = rid, !.ts = clock]]
    /\ UNCHANGED <<rows, nextId, side, nextSide, clock>>

HoldsChain(c, a) ==
    call[c].agent = a /\ call[c].kind # "reserve"
      /\ call[c].pc \in {"locked", "linked", "inserted", "anchoring", "anchored"}

\* mutant: the transaction takes no lock
LockAgentChain_None(c) ==
    /\ call[c].pc = "stamped" /\ call[c].kind # "reserve"
    /\ call' = [call EXCEPT ![c] = [@ EXCEPT !.pc = "locked"]]
    /\ UNCHANGED <<rows, nextId, side, nextSide, clock>>

\* pg_advisory_xact_lock(hashtext(agentDid))
LockAgentChain(c) ==
    /\ call[c].pc = "stamped" /\ call[c].kind # "reserve"
    /\ \A d \in Calls : ~ HoldsChain(d, call[c].agent)
    /\ call' = [call EXCEPT ![c] = [@ EXCEPT !.pc = "locked"]]
    /\ UNCHANGED <<rows, nextId, side, nextSide, clock>>

\* ORDER BY created_at DESC, id DESC LIMIT 1
LoadPreviousRecordHash(c) ==
    /\ call[c].pc = "locked"
    /\ \E x \in Ref : /\ IsTail(x, Chain(call[c].agent))
                      /\ call' = [call EXCEPT ![c] = [@ EXCEPT !.pc = "linked", !.prev = x]]
    /\ UNCHANGED <<rows, nextId, side, nextSide, clock>>

\* another call's uncommitted row has this record_id: the INSERT waits for it
RidUndecided(rid) ==
    \E d \in Calls : call[d].rid = rid /\ call[d].pc \in {"inserted", "anchoring", "anchored"}

RidTaken(rid) == \E r \in RowId : rows[r].kind # "none" /\ rows[r].rid = rid

End(c) == call' = [call EXCEPT ![c] = NoCall]

\* mutant: a duplicate record_id is waited for instead of reported
InsertRecord_Waits(c) ==
    /\ call[c].pc = "linked" /\ ~ RidUndecided(call[c].rid) /\ ~ RidTaken(call[c].rid)
    /\ nextId <= MaxRows
    /\ call' = [call EXCEPT ![c] = [@ EXCEPT !.pc = "inserted", !.row = nextId]]
    /\ nextId' = nextId + 1
    /\ UNCHANGED <<rows, side, nextSide, clock>>

\* the INSERT; a duplicate record_id throws and the transaction is rolled back
InsertRecord(c) ==
    /\ call[c].pc = "linked" /\ ~ RidUndecided(call[c].rid)
    /\ IF RidTaken(call[c].rid)
         THEN End(c) /\ UNCHANGED nextId
         ELSE /\ nextId <= MaxRows
              /\ call' = [call EXCEPT ![c] = [@ EXCEPT !.pc = "inserted", !.row = nextId]]
              /\ nextId' = nextId + 1
    /\ UNCHANGED <<rows, side, nextSide, clock>>

-----------------------------------------------------------------------------
(* PostgresSideTableAppender.append() in the same transaction.             *)

HoldsSideChain(c) == call[c].pc \in {"anchoring", "anchored"}

\* mutant: the SELECT ... LIMIT 1 forgets its ORDER BY
SideTableLink_AnyRow(c) ==
    /\ call[c].pc = "inserted" /\ call[c].kind = "control-plane"
    /\ \A d \in Calls : ~ HoldsSideChain(d)
    /\ \E x \in Ref :
         /\ \/ SideChain = {} /\ x = 0
            \/ x \in SideChain
         /\ call' = [call EXCEPT ![c] = [@ EXCEPT !.pc = "anchoring", !.sprev = x]]
    /\ UNCHANGED <<rows, nextId, side, nextSide, clock>>

\* the advisory lock, then ORDER BY id DESC LIMIT 1
SideTableLink(c) ==
    /\ call[c].pc = "inserted" /\ call[c].kind = "control-plane"
    /\ \A d \in Calls : ~ HoldsSideChain(d)
    /\ \E x \in Ref :
         /\ \/ SideChain = {} /\ x = 0
            \/ x \in SideChain /\ \A s \in SideChain : s <= x
         /\ call' = [call EXCEPT ![c] = [@ EXCEPT !.pc = "anchoring", !.sprev = x]]
    /\ UNCHANGED <<rows, nextId, side, nextSide, clock>>

SideTableInsert(c) ==
    /\ call[c].pc = "anchoring" /\ nextSide <= MaxRows
    /\ call' = [call EXCEPT ![c] = [@ EXCEPT !.pc = "anchored", !.srow = nextSide]]
    /\ nextSide' = nextSide + 1
    /\ UNCHANGED <<rows, nextId, side, clock>>

\* mutant: the append runs after the record's transaction instead of inside it
ReadyToCommit_BeforeAnchor(c) == call[c].pc = "inserted"

ReadyToCommit(c) ==
    call[c].pc = (IF call[c].kind = "control-plane" THEN "anchored" ELSE "inserted")

Commit(c) ==
    /\ ReadyToCommit(c)
    /\ rows' = [rows EXCEPT ![call[c].row] =
                  [kind |-> call[c].kind, agent |-> call[c].agent, rid |-> call[c].rid,
                   ts |-> call[c].ts, prev |-> call[c].prev]]
    /\ side' = IF call[c].kind = "control-plane"
                 THEN [side EXCEPT ![call[c].srow] =
                         [rec |-> call[c].row, prev |-> call[c].sprev]]
                 ELSE side
    /\ End(c)
    /\ UNCHANGED <<nextId, nextSide, clock>>

\* withTransaction's catch: a failed statement, a failed append or a lost connection
Rollback(c) ==
    /\ Busy(c)
    /\ End(c)
    /\ UNCHANGED <<rows, nextId, side, nextSide, clock>>

-----------------------------------------------------------------------------
(* checkAndReserve's reservation row, in the same table, under its own     *)
(* advisory lock, not the chain's: created_at is the guard's now.          *)

Reserve(c, a, rid) ==
    /\ a \in Metered
    /\ ~ Busy(c) /\ RoomForAnother
    /\ call' = [call EXCEPT ![c] = [NoCall EXCEPT !.pc = "stamped", !.kind = "reserve",
                                                  !.agent = a, !.rid = rid, !.ts = clock]]
    /\ UNCHANGED <<rows, nextId, side, nextSide, clock>>

\* ON CONFLICT (record_id) DO NOTHING; previous_record_hash is ''
InsertReservation(c) ==
    /\ call[c].pc = "stamped" /\ call[c].kind = "reserve"
    /\ ~ RidUndecided(call[c].rid)
    /\ IF RidTaken(call[c].rid)
         THEN End(c) /\ UNCHANGED nextId
         ELSE /\ nextId <= MaxRows
              /\ call' = [call EXCEPT ![c] = [@ EXCEPT !.pc = "inserted", !.row = nextId]]
              /\ nextId' = nextId + 1
    /\ UNCHANGED <<rows, side, nextSide, clock>>

Tick ==
    /\ clock < MaxClock
    /\ clock' = clock + 1
    /\ UNCHANGED <<rows, nextId, side, nextSide, call>>

\* what a call does once it has begun
Step(c) ==
    \/ LockAgentChain(c) \/ LoadPreviousRecordHash(c) \/ InsertRecord(c)
    \/ SideTableLink(c) \/ SideTableInsert(c) \/ InsertReservation(c) \/ Commit(c)

Next ==
    \/ \E c \in Calls :
         \/ \E kind \in {"standard", "control-plane"}, a \in Did, rid \in RecordIds :
              Record(c, kind, a, rid)
         \/ \E a \in Metered, rid \in RecordIds : Reserve(c, a, rid)
         \/ Step(c)
         \/ Rollback(c)
    \/ Tick

Spec == Init /\ [][Next]_vars

\* a statement that can run does, and PostgreSQL grants a lock in arrival order
Fairness == \A c \in Calls : SF_vars(Step(c))

FairSpec == Spec /\ Fairness

-----------------------------------------------------------------------------
(* Properties.                                                             *)

OnlyRecords(a) == \A r \in Chain(a) : rows[r].kind # "reserve"

\* created_at order is insertion order
StampsFollowLocks(a) == \A r, s \in Chain(a) : r < s => rows[r].ts <= rows[s].ts

\* However calls interleave, an agent's chain verifies provided its rows are records
\* and got their lock in the order of their timestamps: the advisory lock lets no
\* two records link to one predecessor (record() against verifyIntegrity()).
ChainVerifiesInStampOrder ==
    \A a \in Did : OnlyRecords(a) /\ StampsFollowLocks(a) => VerifyIntegrity(a)

\* The side table's chain verifies always, also after rollbacks leave gaps in the
\* ids: it is linked and read by id under one lock (append() against verifyChain()).
SideChainAlwaysVerifies == VerifySideChain

\* A control-plane record and its anchor are committed together or not at all, and
\* no other record has an anchor.
AnchoredTogether ==
    /\ \A r \in RowId : rows[r].kind = "control-plane" =>
         /\ rows[r].agent = Governor
         /\ \E s \in SideChain : side[s].rec = r
    /\ \A s, t \in SideChain : side[s].rec = side[t].rec => s = t
    /\ \A s \in SideChain : rows[side[s].rec].kind = "control-plane"

\* Every link of a chain names a committed row of the same agent with a smaller id:
\* no record is chained to one that was rolled back.
LinksAreCommitted ==
    \A r \in RowId : (rows[r].kind # "none" /\ rows[r].prev # 0) =>
      /\ rows[r].prev < r
      /\ rows[rows[r].prev].kind # "none"
      /\ rows[rows[r].prev].agent = rows[r].agent

\* Taken in the order of their stamps the records of an agent verify, the side table always
\* does, each control-plane record is anchored there in its own transaction, and links name
\* committed rows (record, appendWithClient, verifyIntegrity).
LedgerIsSound ==
    /\ TypeOK /\ ChainVerifiesInStampOrder /\ SideChainAlwaysVerifies
    /\ AnchoredTogether /\ LinksAreCommitted

\* A call that has begun ends, in whatever order locks and unique-index waits hold
\* the others up.
EveryCallEnds == \A c \in Calls : Busy(c) ~> ~ Busy(c)

\* "returns valid for an intact chain" (integrity-checker.test.ts): an agent's chain
\* that only record() has written verifies.
IntactChainVerifies == \A a \in Did : OnlyRecords(a) => VerifyIntegrity(a)
=============================================================================
