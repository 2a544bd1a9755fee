-------------------------- MODULE CrossDomainSettle --------------------------
(***************************************************************************)
(* policy/src/cross-domain-settle: the recipient's table of settle records *)
(* (settle-handler.ts), the timer that releases the expired ones           *)
(* (pending-reaper.ts) and the sender's reconciliation, which pages        *)
(* through that table with a cursor of its own (settle-tracker.ts).        *)
(*                                                                         *)
(* One sender, recipient, agent and metric.  A settle id is a number, in   *)
(* the order of the ids' text.  A request may be delivered twice.          *)
(***************************************************************************)
EXTENDS Integers, FiniteSets

CONSTANTS
    MaxSettles,   \* settle ids
    Deliveries,   \* calls of appendSettle, each for some request
    Reconcilers,  \* processes that call reconcile
    PendingTtl,   \* pendingTtlMs
    BatchSize,    \* reconcileBatchSize
    MaxCdTime,    \* bound: the recipient's clock
    MaxReconciles \* bound: reconciliations started

ASSUME CdAssumption ==
    /\ MaxSettles \in Nat \ {0} /\ PendingTtl \in Nat /\ BatchSize \in Nat \ {0}
    /\ MaxCdTime \in Nat /\ MaxReconciles \in Nat

SettleIds == 1..MaxSettles

VARIABLES
    cdRows,       \* settle_records: settle id -> row, state "none" if there is no row
    cdCursor,     \* reconciliation_cursors: [at, id] of the last record, id 0 before the first
    delivery,     \* the calls of appendSettle
    recon,        \* the calls of reconcile
    cdNow,        \* the recipient's clock
    cdStarted,    \* reconciliations started (bound)
    cdRead,       \* history: settle ids some reconciliation was given
    cdLate,       \* history: settle ids inserted at or behind a record already read
    settledAtTime \* history: when a row became SETTLED

cdVars == <<cdRows, cdCursor, delivery, recon, cdNow, cdStarted, cdRead, cdLate, settledAtTime>>

CdTime == 0..MaxCdTime
SettleState == {"PENDING", "SETTLED", "RELEASED"}
SettleRecord == [state : SettleState \cup {"none"}, createdAt : CdTime, canonical : BOOLEAN]
ReconciliationCursor == [at : CdTime, id : 0..MaxSettles]
NoSettle == [state |-> "none", createdAt |-> 0, canonical |-> FALSE]
CdCursorStart == [at |-> 0, id |-> 0]

\* The table, the cursor and the calls keep their types.
CdTypeOK ==
    /\ cdRows \in [SettleIds -> SettleRecord]
    /\ cdCursor \in ReconciliationCursor
    /\ delivery \in [Deliveries -> [pc : {"new", "selected", "stamped", "done"}, id : SettleIds,
                                    canonical : BOOLEAN, now : CdTime]]
    /\ recon \in [Reconcilers -> [pc : {"idle", "query", "confirm", "cursor"},
                                  after : ReconciliationCursor, page : SUBSET SettleIds,
                                  confirmed : SUBSET SettleIds]]
    /\ cdNow \in CdTime /\ cdStarted \in 0..MaxReconciles
    /\ cdRead \subseteq SettleIds /\ cdLate \subseteq SettleIds
    /\ settledAtTime \in [SettleIds -> CdTime]

IdleReconciler == [pc |-> "idle", after |-> CdCursorStart, page |-> {}, confirmed |-> {}]

CdInit ==
    /\ cdRows = [s \in SettleIds |-> NoSettle]
    /\ cdCursor = CdCursorStart
    /\ delivery = [d \in Deliveries |-> [pc |-> "new", id |-> 1, canonical |-> TRUE, now |-> 0]]
    /\ recon = [r \in Reconcilers |-> IdleReconciler]
    /\ cdNow = 0 /\ cdStarted = 0 /\ cdRead = {} /\ cdLate = {}
    /\ settledAtTime = [s \in SettleIds |-> 0]

-----------------------------------------------------------------------------
(* RecipientSettleHandler                                                  *)

ExpiresAt(s) == cdRows[s].createdAt + PendingTtl

\* a request is signed by the sender; its windowStart is the text its author wrote, which is
\* canonical if it is what toISOString prints.  A second delivery carries the same request.
\* appendSettle answers with the row if there is one already.
CreateSettleRequest(d, s, canonical) ==
    /\ delivery[d].pc = "new"
    /\ \A e \in Deliveries : delivery[e].pc # "new" /\ delivery[e].id = s
                                => delivery[e].canonical = canonical
    /\ cdNow + PendingTtl < MaxCdTime
    /\ delivery' = [delivery EXCEPT ![d] =
          [pc |-> IF cdRows[s].state = "none" THEN "selected" ELSE "done",
           id |-> s, canonical |-> canonical, now |-> 0]]
    /\ UNCHANGED <<cdRows, cdCursor, recon, cdNow, cdStarted, cdRead, cdLate, settledAtTime>>

\* appendSettle takes created_at from the process's clock, before it waits for the INSERT
StampSettle(d) ==
    /\ delivery[d].pc = "selected"
    /\ cdNow + PendingTtl < MaxCdTime
    /\ delivery' = [delivery EXCEPT ![d] = [delivery[d] EXCEPT !.pc = "stamped", !.now = cdNow]]
    /\ UNCHANGED <<cdRows, cdCursor, recon, cdNow, cdStarted, cdRead, cdLate, settledAtTime>>

\* the composite order of created_at and settle_id
CdBefore(p, q) == p.at < q.at \/ (p.at = q.at /\ p.id < q.id)
CdKey(s) == [at |-> cdRows[s].createdAt, id |-> s]

\* ON CONFLICT (settle_id) DO NOTHING
InsertSettle(d) == cdRows[delivery[d].id].state = "none"

AppendSettle(d) ==
    LET s == delivery[d].id
        new == [at |-> delivery[d].now, id |-> s]
    IN  /\ delivery[d].pc = "stamped"
        /\ delivery' = [delivery EXCEPT ![d] = [delivery[d] EXCEPT !.pc = "done"]]
        /\ IF InsertSettle(d)
           THEN /\ cdRows' = [cdRows EXCEPT ![s] = [state |-> "PENDING", createdAt |-> new.at,
                                                    canonical |-> delivery[d].canonical]]
                /\ cdLate' = IF \E r \in cdRead : CdBefore(new, CdKey(r))
                             THEN cdLate \cup {s} ELSE cdLate
           ELSE UNCHANGED <<cdRows, cdLate>>
        /\ UNCHANGED <<cdCursor, recon, cdNow, cdStarted, cdRead, settledAtTime>>

\* mutant: a released settlement may still be confirmed
ConfirmSettle_AnyTime(s) == cdRows[s].state = "PENDING"

\* the rows a confirmation changes
ConfirmSettle(s) == cdRows[s].state = "PENDING" /\ ExpiresAt(s) > cdNow

\* mutant: = instead of < in the test of the deadline
Reapable_AtOnce(s) == cdRows[s].state = "PENDING" /\ ExpiresAt(s) = cdNow

\* the rows the reaper releases
Reapable(s) == cdRows[s].state = "PENDING" /\ ExpiresAt(s) < cdNow

ReapExpiredPending ==
    /\ \E s \in SettleIds : Reapable(s)
    /\ cdRows' = [s \in SettleIds |-> IF Reapable(s) THEN [cdRows[s] EXCEPT !.state = "RELEASED"]
                                      ELSE cdRows[s]]
    /\ UNCHANGED <<cdCursor, delivery, recon, cdNow, cdStarted, cdRead, cdLate, settledAtTime>>

\* mutant: the cursor compares the time without the id
AfterCursor_TimeOnly(s, after) == after.id = 0 \/ after.at < cdRows[s].createdAt

\* querySettles: rows behind the cursor
AfterCursor(s, after) == after.id = 0 \/ CdBefore(after, CdKey(s))

\* the first BatchSize of them
QuerySettles(after) ==
    LET found == {s \in SettleIds : cdRows[s].state # "none" /\ AfterCursor(s, after)}
    IN  {s \in found : Cardinality({u \in found : CdBefore(CdKey(u), CdKey(s))}) < BatchSize}

-----------------------------------------------------------------------------
(* SenderSettleTracker.reconcile, cut where it awaits the two databases.   *)

GetCursor(r) ==
    /\ recon[r].pc = "idle"
    /\ cdStarted < MaxReconciles /\ cdStarted' = cdStarted + 1
    /\ recon' = [recon EXCEPT ![r] = [IdleReconciler EXCEPT !.pc = "query", !.after = cdCursor]]
    /\ UNCHANGED <<cdRows, cdCursor, delivery, cdNow, cdRead, cdLate, settledAtTime>>

\* the signature is over the text of the request; the record prints window_start anew
Verified(s) == cdRows[s].canonical

PullRecords(r) ==
    LET page == QuerySettles(recon[r].after)
    IN  /\ recon[r].pc = "query"
        /\ recon' = [recon EXCEPT ![r] =
              IF page = {} THEN IdleReconciler
              ELSE [pc |-> "confirm", after |-> recon[r].after, page |-> page,
                    confirmed |-> {s \in page : Verified(s) /\ cdRows[s].state = "PENDING"}]]
        /\ cdRead' = cdRead \cup page
        /\ UNCHANGED <<cdRows, cdCursor, delivery, cdNow, cdStarted, cdLate, settledAtTime>>

ConfirmBatch(r) ==
    LET now == {s \in recon[r].confirmed : ConfirmSettle(s)}
    IN  /\ recon[r].pc = "confirm"
        /\ recon' = [recon EXCEPT ![r] = [recon[r] EXCEPT !.pc = "cursor"]]
        /\ cdRows' = [s \in SettleIds |-> IF s \in now THEN [cdRows[s] EXCEPT !.state = "SETTLED"]
                                          ELSE cdRows[s]]
        /\ settledAtTime' = [s \in SettleIds |-> IF s \in now THEN cdNow ELSE settledAtTime[s]]
        /\ UNCHANGED <<cdCursor, delivery, cdNow, cdStarted, cdRead, cdLate>>

\* the last record of the page; its created_at and settle_id never change
LastOf(page) == CHOOSE s \in page : \A u \in page \ {s} : CdBefore(CdKey(u), CdKey(s))

UpdateCursor(r) ==
    /\ recon[r].pc = "cursor"
    /\ cdCursor' = CdKey(LastOf(recon[r].page))
    /\ recon' = [recon EXCEPT ![r] = IdleReconciler]
    /\ UNCHANGED <<cdRows, delivery, cdNow, cdStarted, cdRead, cdLate, settledAtTime>>

\* a query fails or the process dies
ReconcileFails(r) ==
    /\ recon[r].pc # "idle"
    /\ recon' = [recon EXCEPT ![r] = IdleReconciler]
    /\ UNCHANGED <<cdRows, cdCursor, delivery, cdNow, cdStarted, cdRead, cdLate, settledAtTime>>

CdTick ==
    /\ cdNow < MaxCdTime /\ cdNow' = cdNow + 1
    /\ UNCHANGED <<cdRows, cdCursor, delivery, recon, cdStarted, cdRead, cdLate, settledAtTime>>

CdNext ==
    \/ \E d \in Deliveries :
          \/ \E s \in SettleIds, c \in BOOLEAN : CreateSettleRequest(d, s, c)
          \/ StampSettle(d) \/ AppendSettle(d)
    \/ \E r \in Reconcilers :
          GetCursor(r) \/ PullRecords(r) \/ ConfirmBatch(r) \/ UpdateCursor(r) \/ ReconcileFails(r)
    \/ ReapExpiredPending \/ CdTick

\* setInterval runs the reaper for ever; time passes
CdFairness == WF_cdVars(ReapExpiredPending) /\ WF_cdVars(CdTick)
CdSpec == CdInit /\ [][CdNext]_cdVars /\ CdFairness

-----------------------------------------------------------------------------
\* A record the sender's cursor has passed was given to a reconciliation, unless it was
\* stamped before a record already read and inserted after it (querySettles, updateCursor):
\* equal timestamps and the LIMIT skip nothing.  A settled record was read, verified and
\* confirmed before it expired, so it is never also released.
CursorSkipsOnlyLateRows ==
    \A s \in SettleIds :
        /\ cdRows[s].state # "none" /\ ~AfterCursor(s, cdCursor) => s \in cdRead \cup cdLate
        /\ cdRows[s].state = "SETTLED" => /\ s \in cdRead /\ Verified(s)
                                          /\ settledAtTime[s] < ExpiresAt(s)

\* querySettles "uses a (created_at, settle_id) composite cursor to avoid skipping records
\* during high-concurrency batch INSERTs" (settle-handler.ts:154).
CursorSkipsNothing ==
    \A s \in SettleIds :
        cdRows[s].state # "none" /\ ~AfterCursor(s, cdCursor) => s \in cdRead

\* A pending record is settled or released in the end: the reaper's timer sees to it even if
\* the sender never reconciles again (PendingReaper.start, reapExpiredPending).
EveryPendingEnds == \A s \in SettleIds : cdRows[s].state = "PENDING" ~> cdRows[s].state # "PENDING"

=============================================================================
