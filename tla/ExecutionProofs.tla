-------------------------- MODULE ExecutionProofs --------------------------
(***************************************************************************)
(* Proofs about a request from its lease to its settlement (MCExecution):  *)
(* the ledger that leases its envelope (EnvelopeLedger), the retries of its*)
(* settlement and the dispute about it (Settlement), the orchestrator      *)
(* (Orchestrator), the cumulative limits (CumulativeTracker) and the tokens*)
(* it is asked under (ScopeAttenuation).  Each part has an inductive       *)
(* invariant, proved for every number of sessions, workers, filings,       *)
(* deliveries, calls and delegations; the last section brings them to      *)
(* ExecutionSpec, in which one of the parts runs.                          *)
(***************************************************************************)
EXTENDS MCExecution, Sums

-----------------------------------------------------------------------------
(* EnvelopeLedger: who holds an envelope and what became of it.            *)

(* What the program counter of a session says about its transaction.       *)
TxShape ==
    \A c \in Clients :
      /\ tx[c].pc # "idle" => tx[c].env \in Envelopes
      /\ tx[c].pc = "insert" => tx[c].op = "claim" /\ tx[c].ttl \in TTLs
      /\ tx[c].pc = "update" => tx[c].op # "claim" /\ tx[c].row \in RowId
      /\ tx[c].pc \in {"expire", "lookup"} => tx[c].op # "claim"
      /\ tx[c].pc = "commit" =>
           /\ tx[c].row \in RowId
           /\ tx[c].op = "claim" => tx[c].to = "PENDING" /\ tx[c].row < nextId
           /\ tx[c].op # "claim" => tx[c].to \in {"COMMITTED", "REJECTED", "EXPIRED"}

Inserting(c) == tx[c].pc = "commit" /\ tx[c].op = "claim"

(* Ids that were never handed out, and rows still being inserted, are absent. *)
UnusedRows ==
    /\ \A r \in RowId : r >= nextId => rows[r].status = "ABSENT"
    /\ \A c \in Clients : Inserting(c) => rows[tx[c].row].status = "ABSENT"
    /\ \A c, d \in Clients : Inserting(c) /\ Inserting(d) /\ tx[c].row = tx[d].row => c = d

(* uq_envelope_ledger_pending, uncommitted rows included. *)
PendingUnique ==
    /\ \A r, s \in RowId : rows[r].status = "PENDING" /\ rows[s].status = "PENDING"
                             /\ rows[r].env = rows[s].env => r = s
    /\ \A c \in Clients, r \in RowId : Inserting(c) /\ rows[r].status = "PENDING"
                             => rows[r].env # tx[c].env
    /\ \A c, d \in Clients : Inserting(c) /\ Inserting(d) /\ tx[c].env = tx[d].env => c = d

(* A COMMIT to come finds its index entry free. *)
CommitSafe ==
    \A c \in Clients, r \in RowId :
      tx[c].pc = "commit" /\ tx[c].op # "claim" /\ tx[c].to = "COMMITTED"
        /\ rows[r].env = tx[c].env => rows[r].status # "COMMITTED"

(* Whoever holds a row may end it that way. *)
HolderMay ==
    \A c \in Clients, r \in RowId : Holds(c, r) =>
      \/ MayAct(tx[c].by, r) /\ (tx[c].pc = "commit" => tx[c].to \in Terminal)
      \/ tx[c].pc = "commit" /\ tx[c].to = "EXPIRED" /\ LeaseStale(r)

IndInv ==
    /\ TypeOK
    /\ TxShape
    /\ UnusedRows
    /\ PendingUnique
    /\ LockedRowIsStable
    /\ CommitSafe
    /\ HolderMay
    /\ OneCommitPerEnvelope

-----------------------------------------------------------------------------
(* The empty ledger satisfies the invariant.                              *)
LEMMA InitInd == Init => IndInv
  BY LedgerAssumption
  DEF Init, NoRow, NoTx, IndInv, TypeOK, Row, Tx, Status, Active, Identity, Answers, RowId,
      TxShape, UnusedRows, Inserting, PendingUnique, LockedRowIsStable, Holds, CommitSafe,
      HolderMay, OneCommitPerEnvelope, RowsOf

(* Ending a transaction without writing releases locks and changes nothing else. *)
LEMMA EndStep ==
  ASSUME IndInv, NEW c \in Clients, NEW t \in Tx, t.pc = "idle",
         tx' = [tx EXCEPT ![c] = t], UNCHANGED <<rows, nextId, clock>>
  PROVE  IndInv'
<1>1. TypeOK'
  BY DEF IndInv, TypeOK
<1>2. TxShape'
  BY DEF IndInv, TypeOK, TxShape
<1>3. UnusedRows' /\ PendingUnique'
  BY DEF IndInv, TypeOK, UnusedRows, PendingUnique, Inserting
<1>4. LockedRowIsStable'
  BY DEF IndInv, TypeOK, LockedRowIsStable, Holds
<1>5. CommitSafe'
  BY DEF IndInv, TypeOK, CommitSafe
<1>6. HolderMay'
  BY DEF IndInv, TypeOK, HolderMay, Holds, MayAct, LeaseStale, Deadline
<1>7. OneCommitPerEnvelope'
  BY DEF IndInv, OneCommitPerEnvelope, RowsOf
<1> QED
  BY <1>1, <1>2, <1>3, <1>4, <1>5, <1>6, <1>7 DEF IndInv

(* Moving to a state that neither holds a row nor inserts one: the first      *)
(* statement of an operation that found nothing.                              *)
LEMMA MissStep ==
  ASSUME IndInv, NEW c \in Clients, NEW t \in Tx,
         t.pc \in {"insert", "expire", "lookup"}, t.env \in Envelopes,
         t.pc = "insert" <=> t.op = "claim", t.op = "claim" => t.ttl \in TTLs,
         tx' = [tx EXCEPT ![c] = t], UNCHANGED <<rows, nextId, clock>>
  PROVE  IndInv'
<1>1. TypeOK'
  BY DEF IndInv, TypeOK
<1>2. TxShape'
  BY DEF IndInv, TypeOK, TxShape
<1>3. UnusedRows' /\ PendingUnique'
  BY DEF IndInv, TypeOK, UnusedRows, PendingUnique, Inserting
<1>4. LockedRowIsStable'
  BY DEF IndInv, TypeOK, LockedRowIsStable, Holds
<1>5. CommitSafe'
  BY DEF IndInv, TypeOK, CommitSafe
<1>6. HolderMay'
  BY DEF IndInv, TypeOK, HolderMay, Holds, MayAct, LeaseStale, Deadline
<1>7. OneCommitPerEnvelope'
  BY DEF IndInv, OneCommitPerEnvelope, RowsOf
<1> QED
  BY <1>1, <1>2, <1>3, <1>4, <1>5, <1>6, <1>7 DEF IndInv

(* Taking the lock of an unlocked PENDING row.                                *)
LEMMA LockStep ==
  ASSUME IndInv, NEW c \in Clients, NEW r \in RowId, NEW t \in Tx,
         ~ Locked(r), rows[r].status = "PENDING",
         t.op # "claim", t.row = r, t.env = rows[r].env, t.env \in Envelopes,
         \/ t.pc = "update" /\ MayAct(t.by, r)
         \/ t.pc = "commit" /\ t.to = "EXPIRED" /\ LeaseStale(r),
         tx' = [tx EXCEPT ![c] = t], UNCHANGED <<rows, nextId, clock>>
  PROVE  IndInv'
<1>1. TypeOK'
  BY DEF IndInv, TypeOK
<1>2. TxShape'
  BY DEF IndInv, TypeOK, TxShape
<1>3. UnusedRows' /\ PendingUnique'
  BY DEF IndInv, TypeOK, UnusedRows, PendingUnique, Inserting
<1>4. LockedRowIsStable'
  BY DEF IndInv, TypeOK, LockedRowIsStable, Holds, Locked
<1>5. CommitSafe'
  BY DEF IndInv, TypeOK, CommitSafe
<1>6. HolderMay'
  BY DEF IndInv, TypeOK, HolderMay, Holds, MayAct, LeaseStale, Deadline
<1>7. OneCommitPerEnvelope'
  BY DEF IndInv, OneCommitPerEnvelope, RowsOf
<1> QED
  BY <1>1, <1>2, <1>3, <1>4, <1>5, <1>6, <1>7 DEF IndInv

(* INSERT of the PENDING row, still uncommitted.                              *)
LEMMA InsertStep ==
  ASSUME IndInv, NEW c \in Clients, tx[c].pc = "insert",
         ~ PendingUndecided(tx[c].env), PendingIndexFree(tx[c].env), nextId <= MaxRows,
         tx' = [tx EXCEPT ![c] =
                    [@ EXCEPT !.pc = "commit", !.row = nextId, !.to = "PENDING", !.at = clock]],
         nextId' = nextId + 1, UNCHANGED <<rows, clock>>
  PROVE  IndInv'
<1> DEFINE t == [tx[c] EXCEPT !.pc = "commit", !.row = nextId, !.to = "PENDING", !.at = clock]
<1>a. nextId \in RowId /\ tx[c].op = "claim" /\ tx[c].env \in Envelopes
  BY LedgerAssumption DEF IndInv, TypeOK, TxShape, RowId
<1>b. tx[c] \in Tx /\ clock \in Nat /\ "PENDING" \in Status
  BY DEF IndInv, TypeOK, Status, Active
<1>c. t \in Tx
  BY <1>a, <1>b DEF Tx
<1>d. tx' = [tx EXCEPT ![c] = t]
  OBVIOUS
<1>0. t \in Tx /\ tx' = [tx EXCEPT ![c] = t] /\ nextId \in RowId
      /\ tx[c].op = "claim" /\ tx[c].env \in Envelopes
  BY <1>a, <1>c, <1>d
<1>1. TypeOK'
  BY <1>0, LedgerAssumption DEF IndInv, TypeOK
<1>2. TxShape'
  BY <1>0 DEF IndInv, TypeOK, TxShape, Tx, RowId
<1>3. UnusedRows'
  BY <1>0 DEF IndInv, TypeOK, TxShape, UnusedRows, Inserting, RowId
<1>4. PendingUnique'
  BY <1>0 DEF IndInv, TypeOK, PendingUnique, Inserting, PendingUndecided, PendingIndexFree, RowsOf
<1>5. LockedRowIsStable' /\ CommitSafe'
  BY <1>0 DEF IndInv, TypeOK, LockedRowIsStable, CommitSafe, Holds
<1>6. HolderMay'
  BY <1>0 DEF IndInv, TypeOK, HolderMay, Holds, MayAct, LeaseStale, Deadline
<1>7. OneCommitPerEnvelope'
  BY DEF IndInv, OneCommitPerEnvelope, RowsOf
<1> QED
  BY <1>1, <1>2, <1>3, <1>4, <1>5, <1>6, <1>7 DEF IndInv

(* UPDATE of a row the session has locked.                                    *)
LEMMA WriteStep ==
  ASSUME IndInv, NEW c \in Clients, NEW to \in Terminal, tx[c].pc = "update",
         TerminalIndexFree(tx[c].env, to), Write(c, to), UNCHANGED <<rows, nextId, clock>>
  PROVE  IndInv'
<1> DEFINE t == [tx[c] EXCEPT !.pc = "commit", !.to = to]
<1>0. t \in Tx /\ tx' = [tx EXCEPT ![c] = t] /\ Holds(c, tx[c].row) /\ tx[c].row \in RowId
  BY DEF IndInv, TypeOK, TxShape, Tx, Write, Terminal, Status, Active, Holds
<1>1. TypeOK'
  BY <1>0 DEF IndInv, TypeOK
<1>2. TxShape'
  BY <1>0 DEF IndInv, TypeOK, TxShape, Tx, Terminal
<1>3. UnusedRows' /\ PendingUnique'
  BY <1>0 DEF IndInv, TypeOK, TxShape, UnusedRows, PendingUnique, Inserting
<1>4. LockedRowIsStable'
  BY <1>0 DEF IndInv, TypeOK, LockedRowIsStable, Holds
<1>5. CommitSafe'
  BY <1>0 DEF IndInv, TypeOK, CommitSafe, TerminalIndexFree, RowsOf
<1>6. HolderMay'
  BY <1>0 DEF IndInv, TypeOK, HolderMay, Holds, MayAct, LeaseStale, Deadline
<1>7. OneCommitPerEnvelope'
  BY DEF IndInv, OneCommitPerEnvelope, RowsOf
<1> QED
  BY <1>1, <1>2, <1>3, <1>4, <1>5, <1>6, <1>7 DEF IndInv

(* COMMIT of an INSERT.                                                       *)
LEMMA CommitClaimStep ==
  ASSUME IndInv, NEW c \in Clients, Inserting(c), Commit(c)
  PROVE  IndInv'
<1> DEFINE r == tx[c].row
<1> DEFINE new == [env |-> tx[c].env, status |-> "PENDING", claimer |-> tx[c].by,
                   claimedAt |-> tx[c].at, ttl |-> tx[c].ttl]
<1> DEFINE t == [NoTx EXCEPT !.env = tx[c].env, !.row = r, !.res = "claimed"]
<1>0. /\ r \in RowId /\ rows[r].status = "ABSENT" /\ new \in Row /\ t \in Tx /\ t.pc = "idle"
      /\ r < nextId
      /\ rows' = [rows EXCEPT ![r] = new] /\ tx' = [tx EXCEPT ![c] = t]
      /\ UNCHANGED <<nextId, clock>>
  BY LedgerAssumption DEF IndInv, TypeOK, TxShape, UnusedRows, Inserting, Commit, Finish, AnswerFor,
     NoTx, Tx, Row, Status, Active, Answers, Identity
<1>1. TypeOK'
  BY <1>0 DEF IndInv, TypeOK
<1>2. TxShape'
  BY <1>0 DEF IndInv, TypeOK, TxShape
<1>3. UnusedRows'
  BY <1>0 DEF IndInv, TypeOK, UnusedRows, Inserting, RowId
<1>4. PendingUnique'
  BY <1>0 DEF IndInv, TypeOK, PendingUnique, Inserting
<1>5. LockedRowIsStable'
  BY <1>0 DEF IndInv, TypeOK, LockedRowIsStable, Holds
<1>6. CommitSafe'
  BY <1>0 DEF IndInv, TypeOK, CommitSafe
<1>7. HolderMay'
  BY <1>0 DEF IndInv, TypeOK, LockedRowIsStable, HolderMay, Holds, MayAct, LeaseStale, Deadline
<1>8. OneCommitPerEnvelope'
  BY <1>0 DEF IndInv, TypeOK, OneCommitPerEnvelope, RowsOf
<1> QED
  BY <1>1, <1>2, <1>3, <1>4, <1>5, <1>6, <1>7, <1>8 DEF IndInv

(* COMMIT of an UPDATE: only the holder can make a row COMMITTED, the index    *)
(* entry was free when the UPDATE ran, and no other session can have taken it. *)
LEMMA CommitUpdateStep ==
  ASSUME IndInv, NEW c \in Clients, tx[c].pc = "commit", tx[c].op # "claim", Commit(c)
  PROVE  IndInv'
<1> DEFINE r == tx[c].row
<1> DEFINE new == [rows[r] EXCEPT !.status = tx[c].to]
<1> DEFINE t == [NoTx EXCEPT !.env = tx[c].env, !.row = r, !.res = AnswerFor(tx[c].to)]
<1>0. /\ r \in RowId /\ new \in Row /\ t \in Tx /\ t.pc = "idle"
      /\ new.status \in {"COMMITTED", "REJECTED", "EXPIRED"} /\ new.env = rows[r].env
      /\ rows' = [rows EXCEPT ![r] = new] /\ tx' = [tx EXCEPT ![c] = t]
      /\ UNCHANGED <<nextId, clock>>
  <2>1. tx[c] \in Tx /\ r \in RowId /\ tx[c].to \in {"COMMITTED", "REJECTED", "EXPIRED"}
    BY DEF IndInv, TypeOK, TxShape
  <2>2. rows[r] \in Row /\ tx[c].to \in Status
    BY <2>1 DEF IndInv, TypeOK, Status, Active
  <2>3. new \in Row /\ new.status = tx[c].to /\ new.env = rows[r].env
    BY <2>2 DEF Row
  <2>4. AnswerFor(tx[c].to) \in Answers
    BY <2>1 DEF AnswerFor, Answers
  <2>5. t \in Tx /\ t.pc = "idle"
    BY <2>1, <2>4, LedgerAssumption DEF NoTx, Tx, Identity, Status, Active
  <2>6. rows' = [rows EXCEPT ![r] = new] /\ tx' = [tx EXCEPT ![c] = t] /\ UNCHANGED <<nextId, clock>>
    BY DEF Commit, Finish
  <2> QED
    BY <2>1, <2>3, <2>5, <2>6
<1>h. /\ Holds(c, r) /\ rows[r].status = "PENDING" /\ rows[r].env = tx[c].env
      /\ \A d \in Clients : Holds(d, r) => d = c
  BY <1>0 DEF IndInv, LockedRowIsStable, Holds
<1>1. TypeOK'
  BY <1>0 DEF IndInv, TypeOK
<1>2. TxShape'
  BY <1>0 DEF IndInv, TypeOK, TxShape
<1>3. UnusedRows'
  BY <1>0, <1>h DEF IndInv, TypeOK, UnusedRows, Inserting, RowId
<1>4. PendingUnique'
  BY <1>0, <1>h DEF IndInv, TypeOK, PendingUnique, Inserting
<1>5. LockedRowIsStable'
  BY <1>0, <1>h DEF IndInv, TypeOK, LockedRowIsStable, Holds
<1>6. CommitSafe'
  <2> SUFFICES ASSUME NEW d \in Clients, NEW s \in RowId,
                      tx'[d].pc = "commit", tx'[d].op # "claim", tx'[d].to = "COMMITTED",
                      rows'[s].env = tx'[d].env
               PROVE  rows'[s].status # "COMMITTED"
    BY DEF CommitSafe
  <2>1. d # c /\ tx'[d] = tx[d] /\ rows'[s].env = rows[s].env
    BY <1>0 DEF IndInv, TypeOK
  <2>2. s # r => rows'[s] = rows[s]
    BY <1>0 DEF IndInv, TypeOK
  <2>3. CASE s = r
    <3>1. Holds(d, tx[d].row) /\ tx[d].row \in RowId
      BY <2>1 DEF IndInv, TxShape, Holds
    <3>2. rows[tx[d].row].status = "PENDING" /\ rows[tx[d].row].env = tx[d].env
      BY <3>1 DEF IndInv, LockedRowIsStable
    <3>3. tx[d].row = r
      BY <1>0, <1>h, <2>1, <2>3, <3>1, <3>2 DEF IndInv, PendingUnique
    <3> QED
      BY <1>h, <2>1, <3>1, <3>3
  <2> QED
    BY <2>1, <2>2, <2>3 DEF IndInv, CommitSafe
<1>7. HolderMay'
  BY <1>0, <1>h DEF IndInv, TypeOK, HolderMay, Holds, MayAct, LeaseStale, Deadline
<1>8. OneCommitPerEnvelope'
  BY <1>0, <1>h DEF IndInv, TypeOK, OneCommitPerEnvelope, RowsOf, CommitSafe
<1> QED
  BY <1>1, <1>2, <1>3, <1>4, <1>5, <1>6, <1>7, <1>8 DEF IndInv

(* The sweeper touches unlocked PENDING rows only.                            *)
LEMMA SweepStep ==
  ASSUME IndInv, ExpireStalePending
  PROVE  IndInv'
<1> PICK B \in SUBSET {r \in RowId : rows[r].status = "PENDING" /\ ~ Locked(r)} :
         rows' = [r \in RowId |-> IF r \in B THEN [rows[r] EXCEPT !.status = "EXPIRED"]
                                             ELSE rows[r]]
  BY DEF ExpireStalePending, SweepBatches
<1>0. UNCHANGED <<nextId, tx, clock>>
  BY DEF ExpireStalePending
<1>a. \A r \in RowId :
        \/ rows'[r] = rows[r]
        \/ /\ rows[r].status = "PENDING" /\ ~ Locked(r) /\ rows'[r] \in Row
           /\ rows'[r].status = "EXPIRED" /\ rows'[r].env = rows[r].env
  <2> SUFFICES ASSUME NEW r \in B
               PROVE  /\ rows[r].status = "PENDING" /\ ~ Locked(r) /\ rows'[r] \in Row
                      /\ rows'[r].status = "EXPIRED" /\ rows'[r].env = rows[r].env
    OBVIOUS
  <2>1. rows[r] \in Row /\ rows'[r] = [rows[r] EXCEPT !.status = "EXPIRED"]
    BY DEF IndInv, TypeOK
  <2>2. rows'[r] \in Row /\ rows'[r].status = "EXPIRED" /\ rows'[r].env = rows[r].env
    BY <2>1 DEF Row, Status
  <2> QED
    BY <2>2
<1>1. TypeOK'
  BY <1>0, <1>a DEF IndInv, TypeOK
<1>2. TxShape'
  BY <1>0 DEF IndInv, TxShape
<1>3. UnusedRows' /\ PendingUnique'
  BY <1>0, <1>a DEF IndInv, TypeOK, TxShape, UnusedRows, PendingUnique, Inserting
<1>4. LockedRowIsStable' /\ HolderMay'
  BY <1>0, <1>a DEF IndInv, LockedRowIsStable, HolderMay, Holds, Locked, MayAct, LeaseStale, Deadline
<1>5. CommitSafe'
  BY <1>0, <1>a DEF IndInv, CommitSafe
<1>6. OneCommitPerEnvelope'
  BY <1>a DEF IndInv, OneCommitPerEnvelope, RowsOf
<1> QED
  BY <1>1, <1>2, <1>3, <1>4, <1>5, <1>6 DEF IndInv

(* Time passes: leases can only become stale.                              *)
LEMMA TickStep ==
  ASSUME IndInv, Tick
  PROVE  IndInv'
<1>1. HolderMay'
  BY DEF IndInv, TypeOK, Row, Tick, HolderMay, Holds, MayAct, LeaseStale, Deadline
<1> QED
  BY <1>1 DEF IndInv, TypeOK, Tick, TxShape, UnusedRows, Inserting, PendingUnique,
              LockedRowIsStable, Holds, CommitSafe, OneCommitPerEnvelope, RowsOf

(* IndInv is inductive: one step per action.                                  *)
LEMMA StepInd == IndInv /\ [Next]_vars => IndInv'
<1> SUFFICES ASSUME IndInv, [Next]_vars PROVE IndInv'
  OBVIOUS
<1>u. CASE UNCHANGED vars
  BY <1>u DEF vars, IndInv, TypeOK, TxShape, UnusedRows, Inserting, PendingUnique, LockedRowIsStable,
     Holds, CommitSafe, HolderMay, MayAct, LeaseStale, Deadline, OneCommitPerEnvelope, RowsOf
<1>n. ASSUME NEW c \in Clients PROVE tx[c] \in Tx /\ NoTx \in Tx /\ NoTx.pc = "idle"
  BY LedgerAssumption DEF IndInv, TypeOK, NoTx, Tx, Identity, Status, Active, Answers
<1>f. ASSUME NEW c \in Clients, NEW answer \in Answers, NEW row \in RowId \cup {0},
             Finish(c, answer, row), UNCHANGED <<rows, nextId, clock>>
      PROVE  IndInv'
  <2> DEFINE t == [NoTx EXCEPT !.env = tx[c].env, !.row = row, !.res = answer]
  <2>1. t \in Tx /\ t.pc = "idle"
    BY <1>n DEF Tx
  <2> QED
    BY <1>f, <2>1, EndStep DEF Finish
<1>1. ASSUME NEW c \in Clients, NEW e \in Envelopes, ClaimConflict(c, e) PROVE IndInv'
  <2> PICK r \in RowId, a \in {"ALREADY_TERMINAL", "ALREADY_PENDING"} :
         tx' = [tx EXCEPT ![c] = [NoTx EXCEPT !.env = e, !.row = r, !.res = a]]
    BY <1>1 DEF ClaimConflict, RowsOf
  <2>1. [NoTx EXCEPT !.env = e, !.row = r, !.res = a] \in Tx
    BY <1>n DEF Tx, Answers
  <2>2. [NoTx EXCEPT !.env = e, !.row = r, !.res = a].pc = "idle"
    BY <1>n DEF Tx
  <2> QED
    BY <1>1, <2>1, <2>2, EndStep DEF ClaimConflict
<1>2. ASSUME NEW c \in Clients, NEW e \in Envelopes, NEW by \in Identity, NEW ttl \in TTLs,
             ClaimSelectNone(c, e, by, ttl)
      PROVE IndInv'
  <2> DEFINE t == [NoTx EXCEPT !.pc = "insert", !.op = "claim", !.env = e, !.by = by,
                               !.ttl = ttl, !.row = 0]
  <2>1. t \in Tx /\ t.pc = "insert" /\ t.op = "claim" /\ t.env = e /\ t.ttl = ttl
    BY <1>n, LedgerAssumption DEF Tx
  <2> QED
    BY <1>2, <2>1, MissStep DEF ClaimSelectNone, Start
<1>3. ASSUME NEW c \in Clients, NEW e \in Envelopes, NEW by \in Identity, FinalizeSelect(c, e, by)
      PROVE IndInv'
  <2> DEFINE t(pc, r) == [NoTx EXCEPT !.pc = pc, !.op = "finalize", !.env = e, !.by = by,
                                      !.ttl = 0, !.row = r]
  <2>1. CASE \E r \in FinalizeCandidates(e, by) :
               ~ Locked(r) /\ Start(c, "finalize", e, by, 0, "update", r)
    <3> PICK r \in FinalizeCandidates(e, by) :
               ~ Locked(r) /\ Start(c, "finalize", e, by, 0, "update", r)
      BY <2>1
    <3>1. r \in RowId /\ rows[r].status = "PENDING" /\ rows[r].env = e /\ MayAct(by, r)
      BY DEF FinalizeCandidates, RowsOf
    <3>2. /\ t("update", r) \in Tx /\ t("update", r).pc = "update" /\ t("update", r).row = r
          /\ t("update", r).op = "finalize" /\ t("update", r).env = e /\ t("update", r).by = by
      BY <1>n, <3>1 DEF Tx
    <3>3. tx' = [tx EXCEPT ![c] = t("update", r)] /\ UNCHANGED <<rows, nextId, clock>>
      BY <1>3 DEF FinalizeSelect, Start
    <3> HIDE DEF t
    <3> QED
      BY <3>1, <3>2, <3>3, LockStep
  <2>2. CASE Start(c, "finalize", e, by, 0, "expire", 0)
    <3>1. /\ t("expire", 0) \in Tx /\ t("expire", 0).pc = "expire"
          /\ t("expire", 0).op = "finalize" /\ t("expire", 0).env = e
      BY <1>n DEF Tx
    <3> QED
      BY <1>3, <2>2, <3>1, MissStep DEF FinalizeSelect, Start
  <2> QED
    BY <1>3, <2>1, <2>2 DEF FinalizeSelect
<1>4. ASSUME NEW c \in Clients, NEW e \in Envelopes, NEW by \in Identity, RejectSelect(c, e, by)
      PROVE IndInv'
  <2> DEFINE t(pc, r) == [NoTx EXCEPT !.pc = pc, !.op = "reject", !.env = e, !.by = by,
                                      !.ttl = 0, !.row = r]
  <2>1. CASE \E r \in RejectCandidates(e, by) :
               ~ Locked(r) /\ Start(c, "reject", e, by, 0, "update", r)
    <3> PICK r \in RejectCandidates(e, by) :
               ~ Locked(r) /\ Start(c, "reject", e, by, 0, "update", r)
      BY <2>1
    <3>1. r \in RowId /\ rows[r].status = "PENDING" /\ rows[r].env = e /\ MayAct(by, r)
      BY DEF RejectCandidates, RowsOf
    <3>2. /\ t("update", r) \in Tx /\ t("update", r).pc = "update" /\ t("update", r).row = r
          /\ t("update", r).op = "reject" /\ t("update", r).env = e /\ t("update", r).by = by
      BY <1>n, <3>1 DEF Tx
    <3>3. tx' = [tx EXCEPT ![c] = t("update", r)] /\ UNCHANGED <<rows, nextId, clock>>
      BY <1>4 DEF RejectSelect, Start
    <3> HIDE DEF t
    <3> QED
      BY <3>1, <3>2, <3>3, LockStep
  <2>2. CASE Start(c, "reject", e, by, 0, "lookup", 0)
    <3>1. /\ t("lookup", 0) \in Tx /\ t("lookup", 0).pc = "lookup"
          /\ t("lookup", 0).op = "reject" /\ t("lookup", 0).env = e
      BY <1>n DEF Tx
    <3> QED
      BY <1>4, <2>2, <3>1, MissStep DEF RejectSelect, Start
  <2> QED
    BY <1>4, <2>1, <2>2 DEF RejectSelect
<1>5. ASSUME NEW c \in Clients, ClaimInsert(c) PROVE IndInv'
  <2>1. CASE PendingIndexFree(tx[c].env)
    BY <1>5, <2>1, InsertStep DEF ClaimInsert
  <2>2. CASE ~ PendingIndexFree(tx[c].env)
    BY <1>5, <1>f, <2>2 DEF ClaimInsert, Answers
  <2> QED
    BY <2>1, <2>2
<1>6. ASSUME NEW c \in Clients, FinalizeUpdate(c) \/ RejectUpdate(c) PROVE IndInv'
  <2>1. CASE Rollback(c)
    BY <1>6, <1>f, <2>1 DEF FinalizeUpdate, RejectUpdate, Rollback, Answers
  <2>2. CASE ~ Rollback(c)
    BY <1>6, <2>2, WriteStep DEF FinalizeUpdate, RejectUpdate, Terminal
  <2> QED
    BY <2>1, <2>2
<1>7. ASSUME NEW c \in Clients, FinalizeExpire(c) PROVE IndInv'
  <2>0. tx[c].pc = "expire" /\ tx[c].op # "claim" /\ tx[c].env \in Envelopes
    BY <1>7 DEF FinalizeExpire, IndInv, TxShape
  <2>1. CASE tx' = [tx EXCEPT ![c].pc = "lookup"]
    <3> DEFINE t == [tx[c] EXCEPT !.pc = "lookup"]
    <3>1. t \in Tx /\ t.pc = "lookup" /\ t.op = tx[c].op /\ t.env = tx[c].env
      BY <1>n DEF Tx
    <3>2. tx' = [tx EXCEPT ![c] = t]
      BY <2>1
    <3> QED
      BY <1>7, <2>0, <3>1, <3>2, MissStep DEF FinalizeExpire
  <2>2. CASE tx' # [tx EXCEPT ![c].pc = "lookup"]
    <3> PICK r \in {s \in RowsOf(tx[c].env, {"PENDING"}) : LeaseStale(s)} :
          /\ ~ Locked(r)
          /\ tx' = [tx EXCEPT ![c] = [@ EXCEPT !.pc = "commit", !.row = r, !.to = "EXPIRED"]]
      BY <1>7, <2>2 DEF FinalizeExpire
    <3> DEFINE t == [tx[c] EXCEPT !.pc = "commit", !.row = r, !.to = "EXPIRED"]
    <3>1. r \in RowId /\ rows[r].status = "PENDING" /\ rows[r].env = tx[c].env /\ LeaseStale(r)
      BY DEF RowsOf
    <3>2. /\ t \in Tx /\ t.pc = "commit" /\ t.row = r /\ t.to = "EXPIRED"
          /\ t.op = tx[c].op /\ t.env = tx[c].env
      BY <1>n, <3>1 DEF Tx, Status
    <3>3. tx' = [tx EXCEPT ![c] = t]
      OBVIOUS
    <3> QED
      BY <1>7, <2>0, <3>1, <3>2, <3>3, LockStep DEF FinalizeExpire
  <2> QED
    BY <2>1, <2>2
<1>8. ASSUME NEW c \in Clients, FinalLookup(c) PROVE IndInv'
  BY <1>8, <1>f DEF FinalLookup, Answers
<1>9. ASSUME NEW c \in Clients, Commit(c) PROVE IndInv'
  BY <1>9, CommitClaimStep, CommitUpdateStep DEF Commit, Inserting
<1>10. ASSUME NEW c \in Clients, Abort(c) PROVE IndInv'
  BY <1>10, <1>f DEF Abort, Rollback, Answers
<1> QED
  BY <1>u, <1>1, <1>2, <1>3, <1>4, <1>5, <1>6, <1>7, <1>8, <1>9, <1>10, SweepStep, TickStep DEF Next

(* The inductive invariant holds throughout.                               *)
THEOREM Inductive == Spec => []IndInv
<1> QED
  BY InitInd, StepInd, PTL DEF Spec

(* Every state is well typed.                                                 *)
THEOREM TypeCorrect == Spec => []TypeOK
<1>1. IndInv => TypeOK
  BY DEF IndInv
<1> QED
  BY <1>1, Inductive, PTL

(* An envelope is finalized at most once (EnvelopeLedger.finalize), also when  *)
(* a claim raced past a terminal row and left a dangling PENDING row behind.   *)
THEOREM AtMostOneCommit == Spec => []OneCommitPerEnvelope
<1>1. IndInv => OneCommitPerEnvelope
  BY DEF IndInv
<1> QED
  BY <1>1, Inductive, PTL

(* FOR UPDATE excludes concurrent writers of a row, and the selected row is     *)
(* still PENDING when its holder commits.                                      *)
THEOREM LocksHold == Spec => []LockedRowIsStable
<1>1. IndInv => LockedRowIsStable
  BY DEF IndInv
<1> QED
  BY <1>1, Inductive, PTL

(* A claim ends by its holder or by time, and what ended never changes.         *)
THEOREM OutcomesAreFinal == Spec => EndedByHolderOrTime
<1> DEFINE Step(r) == rows'[r] # rows[r] =>
         \/ rows[r].status = "ABSENT" /\ rows'[r].status = "PENDING"
         \/ /\ rows[r].status = "PENDING"
            /\ \/ rows'[r].status = "EXPIRED" /\ LeaseStale(r)
               \/ /\ rows'[r].status \in Terminal
                  /\ \E c \in Clients : Holds(c, r) /\ MayAct(tx[c].by, r)
<1>1. ASSUME IndInv, [Next]_vars PROVE [\A r \in RowId : Step(r)]_vars
  <2>1. ASSUME NEW c \in Clients, Commit(c), NEW r \in RowId PROVE Step(r)
    <3>1. CASE r # tx[c].row
      BY <1>1, <2>1, <3>1 DEF Commit, IndInv, TypeOK
    <3>2. CASE r = tx[c].row /\ tx[c].op = "claim"
      BY <1>1, <2>1, <3>2 DEF Commit, IndInv, TypeOK, TxShape, UnusedRows, Inserting
    <3>3. CASE r = tx[c].row /\ tx[c].op # "claim"
      <4>1. Holds(c, r)
        BY <2>1, <3>3 DEF Commit, Holds
      <4>2. rows[r].status = "PENDING"
        BY <1>1, <4>1 DEF IndInv, LockedRowIsStable
      <4>3. rows[r] \in Row /\ rows'[r] = [rows[r] EXCEPT !.status = tx[c].to]
        BY <1>1, <2>1, <3>3 DEF Commit, IndInv, TypeOK
      <4>4. rows'[r].status = tx[c].to
        BY <4>3 DEF Row
      <4> QED
        BY <1>1, <2>1, <4>1, <4>2, <4>4 DEF Commit, IndInv, HolderMay
    <3> QED
      BY <3>1, <3>2, <3>3
  <2>2. ASSUME ExpireStalePending, NEW r \in RowId PROVE Step(r)
    <3>1. rows[r] \in Row
      BY <1>1 DEF IndInv, TypeOK
    <3>2. \/ rows'[r] = rows[r]
          \/ /\ rows[r].status = "PENDING" /\ LeaseStale(r)
             /\ rows'[r] = [rows[r] EXCEPT !.status = "EXPIRED"]
      BY <2>2 DEF ExpireStalePending, SweepBatches
    <3> QED
      BY <3>1, <3>2 DEF Row
  <2>3. CASE UNCHANGED rows
    BY <2>3
  <2> QED
    BY <1>1, <2>1, <2>2, <2>3
    DEF Next, vars, ClaimConflict, ClaimSelectNone, FinalizeSelect, RejectSelect, ClaimInsert,
        FinalizeUpdate, FinalizeExpire, RejectUpdate, FinalLookup, Abort, Tick
<1> QED
  BY <1>1, Inductive, PTL DEF Spec, EndedByHolderOrTime

(* A selected row is its session's alone, in every state.                  *)
THEOREM SelectedRowsAreOwn == Spec => [](TypeOK /\ LockedRowIsStable)
BY TypeCorrect, LocksHold, PTL

(* A PENDING row, also one that is still being inserted, is the newest of  *)
(* its envelope.                                                           *)
NewestPending ==
    /\ \A r, s \in RowId : rows[r].status = "PENDING" /\ s > r /\ rows[s].status # "ABSENT"
                             => rows[s].env # rows[r].env
    /\ \A c \in Clients, s \in RowId : Inserting(c) /\ s > tx[c].row /\ rows[s].status # "ABSENT"
                             => rows[s].env # tx[c].env

(* A row being inserted was claimed after every expired lease of its       *)
(* envelope.                                                               *)
InsertsAfterLease ==
    \A c \in Clients, r \in RowId :
        Inserting(c) /\ rows[r].status = "EXPIRED" /\ rows[r].env = tx[c].env => tx[c].at > Deadline(r)

(* An answer about a row names it.                                         *)
AnsweredRows ==
    \A c \in Clients : tx[c].pc = "idle" /\ tx[c].res \in {"finalized", "rejected", "LEASE_EXPIRED"}
                             => tx[c].row \in RowId

LeaseInv ==
    IndInv /\ NewestPending /\ InsertsAfterLease /\ LeasesDoNotOverlap /\ AnsweredRows /\ AnswersStayTrue

(* What a step may do to a row: nothing once it ended, and before that     *)
(* only insert it or end it.                                               *)
RowStep(r) ==
    \/ rows'[r] = rows[r]
    \/ /\ rows[r].status = "PENDING" /\ rows'[r].status \in {"COMMITTED", "REJECTED", "EXPIRED"}
       /\ rows'[r].env = rows[r].env /\ rows'[r].claimedAt = rows[r].claimedAt
       /\ rows'[r].ttl = rows[r].ttl
       /\ rows'[r].status = "EXPIRED" => LeaseStale(r)
    \/ /\ rows[r].status = "ABSENT" /\ rows'[r].status = "PENDING"
       /\ \E c \in Clients : /\ Inserting(c) /\ tx[c].row = r /\ tx'[c].pc = "idle"
                             /\ rows'[r].env = tx[c].env /\ rows'[r].claimedAt = tx[c].at

(* A row is inserted by the commit of its claim and ended once.            *)
LEMMA RowsAreEndedOnce == IndInv /\ [Next]_vars => \A r \in RowId : RowStep(r)
<1> SUFFICES ASSUME IndInv, [Next]_vars PROVE \A r \in RowId : RowStep(r)
  OBVIOUS
<1>1. ASSUME NEW c \in Clients, Commit(c), NEW r \in RowId PROVE RowStep(r)
  <2>1. CASE r # tx[c].row
    BY <1>1, <2>1 DEF Commit, IndInv, TypeOK, RowStep
  <2>2. CASE r = tx[c].row /\ tx[c].op = "claim"
    <3>1. /\ rows'[r] = [env |-> tx[c].env, status |-> tx[c].to, claimer |-> tx[c].by,
                         claimedAt |-> tx[c].at, ttl |-> tx[c].ttl]
          /\ tx[c].pc = "commit"
      BY <1>1, <2>2 DEF Commit, IndInv, TypeOK
    <3>2. rows[r].status = "ABSENT" /\ tx[c].to = "PENDING" /\ Inserting(c)
      BY <2>2, <3>1 DEF IndInv, TxShape, UnusedRows, Inserting
    <3>3. tx'[c].pc = "idle"
      BY <1>1 DEF Commit, Finish, NoTx, IndInv, TypeOK
    <3> QED
      BY <2>2, <3>1, <3>2, <3>3 DEF RowStep
  <2>3. CASE r = tx[c].row /\ tx[c].op # "claim"
    <3>1. Holds(c, r)
      BY <1>1, <2>3 DEF Commit, Holds
    <3>2. rows[r].status = "PENDING"
      BY <3>1 DEF IndInv, LockedRowIsStable
    <3>3. rows[r] \in Row /\ rows'[r] = [rows[r] EXCEPT !.status = tx[c].to]
      BY <1>1, <2>3 DEF Commit, IndInv, TypeOK
    <3>4. /\ rows'[r].status = tx[c].to /\ rows'[r].env = rows[r].env
          /\ rows'[r].claimedAt = rows[r].claimedAt /\ rows'[r].ttl = rows[r].ttl
      BY <3>3 DEF Row
    <3>5. tx[c].to \in {"COMMITTED", "REJECTED", "EXPIRED"} /\ (tx[c].to = "EXPIRED" => LeaseStale(r))
      BY <1>1, <2>3, <3>1 DEF Commit, IndInv, TxShape, HolderMay, Terminal
    <3> QED
      BY <3>2, <3>4, <3>5 DEF RowStep
  <2> QED
    BY <2>1, <2>2, <2>3
<1>2. ASSUME ExpireStalePending, NEW r \in RowId PROVE RowStep(r)
  <2>1. rows[r] \in Row
    BY DEF IndInv, TypeOK
  <2>2. \/ rows'[r] = rows[r]
        \/ /\ rows[r].status = "PENDING" /\ LeaseStale(r)
           /\ rows'[r] = [rows[r] EXCEPT !.status = "EXPIRED"]
    BY <1>2 DEF ExpireStalePending, SweepBatches
  <2> QED
    BY <2>1, <2>2 DEF Row, RowStep
<1>3. CASE UNCHANGED rows
  BY <1>3 DEF RowStep
<1> QED
  BY <1>1, <1>2, <1>3
  DEF Next, vars, ClaimConflict, ClaimSelectNone, FinalizeSelect, RejectSelect, ClaimInsert,
      FinalizeUpdate, FinalizeExpire, RejectUpdate, FinalLookup, Abort, Tick

(* A session inserts the next row, at the present time, or goes on with    *)
(* the insert it had.                                                      *)
InsertStepOf(c) ==
    Inserting(c)' =>
        \/ tx'[c] = tx[c]
        \/ /\ UNCHANGED <<rows, clock>> /\ tx'[c].row = nextId /\ tx'[c].at = clock
           /\ tx[c].pc = "insert" /\ tx'[c].env = tx[c].env /\ PendingIndexFree(tx[c].env)

(* What a session answers is so, or it answered before.                    *)
AnswerStepOf(c) ==
    tx'[c].pc = "idle" =>
        \/ tx'[c] = tx[c]
        \/ /\ tx'[c].res \in {"finalized", "rejected", "LEASE_EXPIRED"} => tx'[c].row \in RowId
           /\ tx'[c].res = "finalized" => rows'[tx'[c].row].status = "COMMITTED"
           /\ tx'[c].res = "rejected" => rows'[tx'[c].row].status = "REJECTED"
           /\ tx'[c].res = "LEASE_EXPIRED" => rows'[tx'[c].row].status = "EXPIRED"
           /\ tx'[c].res \in {"ALREADY_TERMINAL", "ALREADY_FINAL"}
                => \E r \in RowId : rows'[r].env = tx'[c].env /\ rows'[r].status \in Terminal

(* One session moves to a place that is neither an insert nor an answer.   *)
LEMMA QuietStep ==
  ASSUME IndInv, NEW c \in Clients, NEW t \in Tx, tx' = [tx EXCEPT ![c] = t],
         t.pc # "idle", t.pc = "commit" => t.op # "claim"
  PROVE  \A d \in Clients : InsertStepOf(d) /\ AnswerStepOf(d)
BY DEF IndInv, TypeOK, Inserting, InsertStepOf, AnswerStepOf

(* One session answers.                                                    *)
LEMMA AnswerStep ==
  ASSUME IndInv, NEW c \in Clients, NEW t \in Tx, tx' = [tx EXCEPT ![c] = t], t.pc = "idle",
         t.res \in {"finalized", "rejected", "LEASE_EXPIRED"} => t.row \in RowId,
         t.res = "finalized" => rows'[t.row].status = "COMMITTED",
         t.res = "rejected" => rows'[t.row].status = "REJECTED",
         t.res = "LEASE_EXPIRED" => rows'[t.row].status = "EXPIRED",
         t.res \in {"ALREADY_TERMINAL", "ALREADY_FINAL"}
           => \E r \in RowId : rows'[r].env = t.env /\ rows'[r].status \in Terminal
  PROVE  \A d \in Clients : InsertStepOf(d) /\ AnswerStepOf(d)
<1>1. tx'[c] = t /\ \A d \in Clients : d # c => tx'[d] = tx[d]
  BY DEF IndInv, TypeOK
<1>2. InsertStepOf(c) /\ AnswerStepOf(c)
  BY <1>1 DEF InsertStepOf, AnswerStepOf, Inserting
<1>3. \A d \in Clients : d # c => InsertStepOf(d) /\ AnswerStepOf(d)
  BY <1>1 DEF InsertStepOf, AnswerStepOf
<1> QED
  BY <1>2, <1>3

(* Every step of every operation.                                          *)
LEMMA SessionsStep == IndInv /\ [Next]_vars => \A d \in Clients : InsertStepOf(d) /\ AnswerStepOf(d)
<1> SUFFICES ASSUME IndInv, [Next]_vars
             PROVE  \A d \in Clients : InsertStepOf(d) /\ AnswerStepOf(d)
  OBVIOUS
<1> DEFINE Goal == \A d \in Clients : InsertStepOf(d) /\ AnswerStepOf(d)
<1>n. ASSUME NEW c \in Clients PROVE tx[c] \in Tx /\ NoTx \in Tx
  BY LedgerAssumption DEF IndInv, TypeOK, NoTx, Tx, Identity, Status, Active, Answers
<1>u. CASE UNCHANGED tx
  BY <1>u DEF InsertStepOf, AnswerStepOf
<1>s. ASSUME NEW c \in Clients, NEW op \in {"claim", "finalize", "reject"}, NEW e \in Envelopes,
             NEW by \in Identity, NEW ttl \in Nat, NEW pc \in {"insert", "update", "expire", "lookup"},
             NEW row \in RowId \cup {0}, Start(c, op, e, by, ttl, pc, row)
      PROVE  Goal
  <2> DEFINE t == [NoTx EXCEPT !.pc = pc, !.op = op, !.env = e, !.by = by, !.ttl = ttl, !.row = row]
  <2>1. t \in Tx /\ t.pc = pc
    BY <1>n DEF Tx
  <2> HIDE DEF t
  <2> QED
    BY <1>s, <2>1, QuietStep DEF Start, t
<1>f. ASSUME NEW c \in Clients, NEW answer \in {"error", "ALREADY_PENDING", "NOT_FOUND"}, Finish(c, answer, 0)
      PROVE  Goal
  <2> DEFINE t == [NoTx EXCEPT !.env = tx[c].env, !.row = 0, !.res = answer]
  <2>1. t \in Tx /\ t.pc = "idle" /\ t.res = answer
    BY <1>n DEF Tx, Answers, NoTx
  <2>2. tx' = [tx EXCEPT ![c] = t]
    BY <1>f DEF Finish
  <2> HIDE DEF t
  <2> QED
    BY <2>1, <2>2, AnswerStep
<1>1. ASSUME NEW c \in Clients, NEW e \in Envelopes, ClaimConflict(c, e) PROVE Goal
  <2> PICK r \in RowsOf(e, Active) :
         tx' = [tx EXCEPT ![c] = [NoTx EXCEPT !.env = e, !.row = r,
                  !.res = IF rows[r].status \in Terminal THEN "ALREADY_TERMINAL" ELSE "ALREADY_PENDING"]]
    BY <1>1 DEF ClaimConflict
  <2> DEFINE a == IF rows[r].status \in Terminal THEN "ALREADY_TERMINAL" ELSE "ALREADY_PENDING"
             t == [NoTx EXCEPT !.env = e, !.row = r, !.res = a]
  <2>1. r \in RowId /\ rows[r].env = e /\ rows' = rows
    BY <1>1 DEF ClaimConflict, RowsOf
  <2>2. t \in Tx /\ t.pc = "idle" /\ t.res = a /\ t.env = e
    BY <1>n, <2>1 DEF Tx, Answers, NoTx
  <2>3. tx' = [tx EXCEPT ![c] = t]
    OBVIOUS
  <2>4. t.res = "ALREADY_TERMINAL" => rows'[r].env = t.env /\ rows'[r].status \in Terminal
    BY <2>1, <2>2
  <2>5. t.res \in {"ALREADY_TERMINAL", "ALREADY_PENDING"}
    BY <2>2
  <2> HIDE DEF t, a
  <2> QED
    BY <2>1, <2>2, <2>3, <2>4, <2>5, AnswerStep
<1>2. ASSUME NEW c \in Clients, NEW e \in Envelopes, NEW by \in Identity, NEW ttl \in TTLs,
             ClaimSelectNone(c, e, by, ttl)
      PROVE Goal
  BY <1>2, <1>s, LedgerAssumption DEF ClaimSelectNone
<1>3. ASSUME NEW c \in Clients, NEW e \in Envelopes, NEW by \in Identity, FinalizeSelect(c, e, by)
      PROVE Goal
  BY <1>3, <1>s DEF FinalizeSelect, FinalizeCandidates, RowsOf
<1>4. ASSUME NEW c \in Clients, NEW e \in Envelopes, NEW by \in Identity, RejectSelect(c, e, by)
      PROVE Goal
  BY <1>4, <1>s DEF RejectSelect, RejectCandidates, RowsOf
<1>5. ASSUME NEW c \in Clients, ClaimInsert(c) PROVE Goal
  <2>1. CASE ~ PendingIndexFree(tx[c].env)
    BY <1>5, <1>f, <2>1 DEF ClaimInsert
  <2>2. CASE PendingIndexFree(tx[c].env)
    <3> DEFINE t == [tx[c] EXCEPT !.pc = "commit", !.row = nextId, !.to = "PENDING", !.at = clock]
    <3>1. t.pc = "commit" /\ t.row = nextId /\ t.at = clock /\ t.env = tx[c].env
      BY <1>n DEF Tx
    <3>2. tx' = [tx EXCEPT ![c] = t] /\ UNCHANGED <<rows, clock>> /\ tx[c].pc = "insert"
      BY <1>5, <2>2 DEF ClaimInsert
    <3> HIDE DEF t
    <3>3. tx'[c] = t /\ \A d \in Clients : d # c => tx'[d] = tx[d]
      BY <3>2 DEF IndInv, TypeOK
    <3> QED
      BY <2>2, <3>1, <3>2, <3>3 DEF InsertStepOf, AnswerStepOf
  <2> QED
    BY <2>1, <2>2
<1>6. ASSUME NEW c \in Clients, FinalizeUpdate(c) \/ RejectUpdate(c) PROVE Goal
  <2>1. CASE Rollback(c)
    BY <1>f, <2>1 DEF Rollback
  <2>2. ASSUME NEW to \in {"COMMITTED", "REJECTED"}, Write(c, to) PROVE Goal
    <3> DEFINE t == [tx[c] EXCEPT !.pc = "commit", !.to = to]
    <3>1. t \in Tx /\ t.pc = "commit" /\ t.op = tx[c].op
      BY <1>n DEF Tx, Status, Active
    <3>2. tx' = [tx EXCEPT ![c] = t] /\ tx[c].op # "claim"
      BY <1>6, <2>2 DEF Write, FinalizeUpdate, RejectUpdate
    <3> HIDE DEF t
    <3> QED
      BY <3>1, <3>2, QuietStep
  <2> QED
    BY <1>6, <2>1, <2>2 DEF FinalizeUpdate, RejectUpdate
<1>7. ASSUME NEW c \in Clients, FinalizeExpire(c) PROVE Goal
  <2>0. tx[c].op # "claim"
    BY <1>7 DEF FinalizeExpire, IndInv, TxShape
  <2>1. CASE tx' = [tx EXCEPT ![c].pc = "lookup"]
    <3> DEFINE t == [tx[c] EXCEPT !.pc = "lookup"]
    <3>1. t \in Tx /\ t.pc = "lookup"
      BY <1>n DEF Tx
    <3>2. tx' = [tx EXCEPT ![c] = t]
      BY <2>1
    <3> HIDE DEF t
    <3> QED
      BY <3>1, <3>2, QuietStep
  <2>2. CASE tx' # [tx EXCEPT ![c].pc = "lookup"]
    <3> PICK r \in RowId :
          tx' = [tx EXCEPT ![c] = [@ EXCEPT !.pc = "commit", !.row = r, !.to = "EXPIRED"]]
      BY <1>7, <2>2 DEF FinalizeExpire, RowsOf
    <3> DEFINE t == [tx[c] EXCEPT !.pc = "commit", !.row = r, !.to = "EXPIRED"]
    <3>1. t \in Tx /\ t.pc = "commit" /\ t.op = tx[c].op
      BY <1>n DEF Tx, Status
    <3>2. tx' = [tx EXCEPT ![c] = t]
      OBVIOUS
    <3> HIDE DEF t
    <3> QED
      BY <2>0, <3>1, <3>2, QuietStep
  <2> QED
    BY <2>1, <2>2
<1>8. ASSUME NEW c \in Clients, FinalLookup(c) PROVE Goal
  <2>1. CASE RowsOf(tx[c].env, Terminal) = {}
    BY <1>8, <1>f, <2>1 DEF FinalLookup
  <2>2. CASE RowsOf(tx[c].env, Terminal) # {}
    <3> DEFINE t == [NoTx EXCEPT !.env = tx[c].env, !.row = 0, !.res = "ALREADY_FINAL"]
    <3>1. t \in Tx /\ t.pc = "idle" /\ t.res = "ALREADY_FINAL" /\ t.env = tx[c].env
      BY <1>n DEF Tx, Answers, NoTx
    <3>2. tx' = [tx EXCEPT ![c] = t] /\ rows' = rows
      BY <1>8, <2>2 DEF FinalLookup, Finish
    <3>3. \E r \in RowId : rows'[r].env = t.env /\ rows'[r].status \in Terminal
      BY <2>2, <3>1, <3>2 DEF RowsOf
    <3> HIDE DEF t
    <3> QED
      BY <3>1, <3>2, <3>3, AnswerStep
  <2> QED
    BY <2>1, <2>2
<1>9. ASSUME NEW c \in Clients, Commit(c) PROVE Goal
  <2> DEFINE a == AnswerFor(tx[c].to)
             t == [NoTx EXCEPT !.env = tx[c].env, !.row = tx[c].row, !.res = a]
  <2>1. tx[c].row \in RowId /\ tx[c].to \in {"PENDING", "COMMITTED", "REJECTED", "EXPIRED"}
    BY <1>9 DEF Commit, IndInv, TxShape
  <2>2. a \in Answers /\ a \notin {"ALREADY_TERMINAL", "ALREADY_FINAL"}
    BY <2>1 DEF AnswerFor, Answers
  <2>3. t \in Tx /\ t.pc = "idle" /\ t.res = a /\ t.row = tx[c].row
    BY <1>n, <2>1, <2>2 DEF Tx, NoTx
  <2>4. rows'[tx[c].row].status = tx[c].to
    <3>1. rows[tx[c].row] \in Row
      BY <2>1 DEF IndInv, TypeOK
    <3> QED BY <1>9, <2>1, <3>1 DEF Commit, IndInv, TypeOK, Row
  <2>5. /\ a = "finalized" => tx[c].to = "COMMITTED"
        /\ a = "rejected" => tx[c].to = "REJECTED"
        /\ a = "LEASE_EXPIRED" => tx[c].to = "EXPIRED"
    BY <2>1 DEF AnswerFor
  <2>6. tx' = [tx EXCEPT ![c] = t]
    BY <1>9 DEF Commit, Finish
  <2> HIDE DEF t, a
  <2> QED
    BY <2>1, <2>2, <2>3, <2>4, <2>5, <2>6, AnswerStep
<1>10. ASSUME NEW c \in Clients, Abort(c) PROVE Goal
  BY <1>10, <1>f DEF Abort, Rollback
<1> QED
  BY <1>u, <1>1, <1>2, <1>3, <1>4, <1>5, <1>6, <1>7, <1>8, <1>9, <1>10
  DEF Next, vars, ExpireStalePending, Tick

(* The leases and the answers, over a step.                                *)
LEMMA LeaseStep == LeaseInv /\ [Next]_vars => LeaseInv'
<1> SUFFICES ASSUME LeaseInv, [Next]_vars PROVE LeaseInv'
  OBVIOUS
<1>1. IndInv /\ IndInv'
  BY StepInd DEF LeaseInv
<1>2. \A r \in RowId : RowStep(r)
  BY <1>1, RowsAreEndedOnce
<1>3. \A c \in Clients : InsertStepOf(c) /\ AnswerStepOf(c)
  BY <1>1, SessionsStep
<1>4. /\ nextId \in 1..(MaxRows + 1) /\ clock \in Nat /\ clock' \in Nat /\ clock <= clock'
      /\ rows \in [RowId -> Row] /\ rows' \in [RowId -> Row]
      /\ tx \in [Clients -> Tx] /\ tx' \in [Clients -> Tx]
  <2>1. clock' = clock \/ clock' = clock + 1
    BY DEF Next, vars, ClaimConflict, ClaimSelectNone, FinalizeSelect, RejectSelect, ClaimInsert,
        FinalizeUpdate, FinalizeExpire, RejectUpdate, FinalLookup, Commit, Abort, ExpireStalePending, Tick
  <2> QED
    BY <1>1, <2>1 DEF IndInv, TypeOK
<1>5. NewestPending'
  <2>1. ASSUME NEW r \in RowId, NEW s \in RowId, rows'[r].status = "PENDING", s > r,
               rows'[s].status # "ABSENT", rows'[s].env = rows'[r].env
        PROVE  FALSE
    <3>1. CASE rows'[r] = rows[r]
      <4>1. CASE rows[s].status # "ABSENT"
        <5>1. rows[s].env = rows'[s].env
          BY <1>2, <4>1 DEF RowStep
        <5> QED BY <2>1, <3>1, <4>1, <5>1 DEF LeaseInv, NewestPending
      <4>2. CASE rows[s].status = "ABSENT"
        <5>1. \E c \in Clients : Inserting(c) /\ rows'[s].env = tx[c].env
          BY <1>2, <2>1, <4>2 DEF RowStep
        <5> QED BY <1>1, <2>1, <3>1, <5>1 DEF IndInv, PendingUnique
      <4> QED BY <4>1, <4>2
    <3>2. CASE rows'[r] # rows[r]
      <4>1. PICK c \in Clients : Inserting(c) /\ tx[c].row = r /\ rows'[r].env = tx[c].env
        BY <1>2, <2>1, <3>2 DEF RowStep
      <4>2. CASE rows[s].status # "ABSENT"
        <5>1. rows[s].env = rows'[s].env
          BY <1>2, <4>2 DEF RowStep
        <5> QED BY <2>1, <4>1, <4>2, <5>1 DEF LeaseInv, NewestPending
      <4>3. CASE rows[s].status = "ABSENT"
        <5>1. \E d \in Clients : Inserting(d) /\ rows'[s].env = tx[d].env /\ tx[d].row = s
          BY <1>2, <2>1, <4>3 DEF RowStep
        <5>2. s = r
          BY <1>1, <2>1, <4>1, <5>1 DEF IndInv, PendingUnique
        <5> QED BY <2>1, <5>2 DEF RowId
      <4> QED BY <4>2, <4>3
    <3> QED BY <3>1, <3>2
  <2>2. ASSUME NEW c \in Clients, NEW s \in RowId, Inserting(c)', s > tx'[c].row,
               rows'[s].status # "ABSENT", rows'[s].env = tx'[c].env
        PROVE  FALSE
    <3>1. CASE tx'[c] = tx[c]
      <4>0. Inserting(c)
        BY <2>2, <3>1 DEF Inserting
      <4>1. CASE rows[s].status # "ABSENT"
        <5>1. rows[s].env = rows'[s].env
          BY <1>2, <4>1 DEF RowStep
        <5> QED BY <2>2, <3>1, <4>0, <4>1, <5>1 DEF LeaseInv, NewestPending
      <4>2. CASE rows[s].status = "ABSENT"
        <5>1. PICK d \in Clients : Inserting(d) /\ rows'[s].env = tx[d].env /\ tx'[d].pc = "idle"
          BY <1>2, <2>2, <4>2 DEF RowStep
        <5>2. d = c
          BY <1>1, <2>2, <3>1, <4>0, <5>1 DEF IndInv, PendingUnique
        <5> QED BY <2>2, <5>1, <5>2 DEF Inserting
      <4> QED BY <4>1, <4>2
    <3>2. CASE tx'[c] # tx[c]
      <4>1. rows' = rows /\ tx'[c].row = nextId
        BY <1>3, <2>2, <3>2 DEF InsertStepOf
      <4>2. s >= nextId
        BY <1>4, <2>2, <4>1 DEF RowId
      <4> QED BY <1>1, <2>2, <4>1, <4>2 DEF IndInv, UnusedRows
    <3> QED BY <3>1, <3>2
  <2> QED BY <2>1, <2>2 DEF NewestPending
<1>6. InsertsAfterLease'
  <2> SUFFICES ASSUME NEW c \in Clients, NEW r \in RowId, Inserting(c)', rows'[r].status = "EXPIRED",
                      rows'[r].env = tx'[c].env
               PROVE  tx'[c].at > rows'[r].claimedAt + rows'[r].ttl
    BY DEF InsertsAfterLease, Deadline
  <2>1. CASE tx'[c] = tx[c]
    <3>0. Inserting(c)
      BY <2>1 DEF Inserting
    <3>1. rows'[r] = rows[r]
      BY <1>1, <1>2, <2>1, <3>0 DEF RowStep, IndInv, PendingUnique
    <3> QED BY <2>1, <3>0, <3>1 DEF LeaseInv, InsertsAfterLease, Deadline
  <2>2. CASE tx'[c] # tx[c]
    <3>1. rows' = rows /\ tx'[c].at = clock
      BY <1>3, <2>2 DEF InsertStepOf
    <3>2. LeaseStale(r)
      BY <3>1 DEF LeaseInv, LeasesDoNotOverlap
    <3> QED BY <1>4, <3>1, <3>2 DEF LeaseStale, Deadline, Row
  <2> QED BY <2>1, <2>2
<1>7. LeasesDoNotOverlap'
  <2> SUFFICES ASSUME NEW r \in RowId, rows'[r].status = "EXPIRED"
               PROVE  /\ rows'[r].claimedAt + rows'[r].ttl < clock'
                      /\ \A s \in RowId :
                            s > r /\ rows'[s].env = rows'[r].env /\ rows'[s].status # "ABSENT"
                              => rows'[s].claimedAt > rows'[r].claimedAt + rows'[r].ttl
    BY DEF LeasesDoNotOverlap, LeaseStale, Deadline
  <2>0. /\ rows[r].env = rows'[r].env /\ rows[r].claimedAt = rows'[r].claimedAt
        /\ rows[r].ttl = rows'[r].ttl /\ LeaseStale(r)
        /\ rows[r].status \in {"EXPIRED", "PENDING"}
    BY <1>2 DEF RowStep, LeaseInv, LeasesDoNotOverlap
  <2>1. rows'[r].claimedAt + rows'[r].ttl < clock'
    BY <1>4, <2>0 DEF LeaseStale, Deadline, Row
  <2>2. ASSUME NEW s \in RowId, s > r, rows'[s].env = rows'[r].env, rows'[s].status # "ABSENT"
        PROVE  rows'[s].claimedAt > rows'[r].claimedAt + rows'[r].ttl
    <3>1. CASE rows[s].status # "ABSENT"
      <4>1. rows[s].env = rows'[s].env /\ rows[s].claimedAt = rows'[s].claimedAt
        BY <1>2, <3>1 DEF RowStep
      <4>2. rows[r].status = "EXPIRED"
        BY <2>0, <2>2, <3>1, <4>1 DEF LeaseInv, NewestPending
      <4> QED BY <2>0, <2>2, <3>1, <4>1, <4>2 DEF LeaseInv, LeasesDoNotOverlap, Deadline
    <3>2. CASE rows[s].status = "ABSENT"
      <4>1. PICK c \in Clients : Inserting(c) /\ rows'[s].env = tx[c].env /\ rows'[s].claimedAt = tx[c].at
        BY <1>2, <2>2, <3>2 DEF RowStep
      <4>2. rows[r].status = "EXPIRED"
        BY <1>1, <2>0, <2>2, <4>1 DEF IndInv, PendingUnique
      <4> QED BY <2>0, <2>2, <4>1, <4>2 DEF LeaseInv, InsertsAfterLease, Deadline
    <3> QED BY <3>1, <3>2
  <2> QED BY <2>1, <2>2
<1>8. AnsweredRows'
  BY <1>3 DEF LeaseInv, AnsweredRows, AnswerStepOf
<1>9. AnswersStayTrue'
  <2> SUFFICES ASSUME NEW c \in Clients, tx'[c].pc = "idle"
               PROVE  /\ tx'[c].res = "finalized" => rows'[tx'[c].row].status = "COMMITTED"
                      /\ tx'[c].res = "rejected" => rows'[tx'[c].row].status = "REJECTED"
                      /\ tx'[c].res = "LEASE_EXPIRED" => rows'[tx'[c].row].status = "EXPIRED"
                      /\ tx'[c].res \in {"ALREADY_TERMINAL", "ALREADY_FINAL"} =>
                           \E r \in RowId : rows'[r].env = tx'[c].env /\ rows'[r].status \in Terminal
    BY DEF AnswersStayTrue, RowsOf
  <2>1. CASE tx'[c] = tx[c]
    <3>1. \A r \in RowId : rows[r].status \in {"COMMITTED", "REJECTED", "EXPIRED"} => rows'[r] = rows[r]
      BY <1>2 DEF RowStep
    <3>2. tx[c].res \in {"finalized", "rejected", "LEASE_EXPIRED"} => tx[c].row \in RowId
      BY <2>1 DEF LeaseInv, AnsweredRows
    <3>3. tx[c].res \in {"ALREADY_TERMINAL", "ALREADY_FINAL"} =>
            \E r \in RowId : rows[r].env = tx[c].env /\ rows[r].status \in Terminal
      BY <2>1 DEF LeaseInv, AnswersStayTrue, RowsOf
    <3> QED BY <2>1, <3>1, <3>2, <3>3 DEF LeaseInv, AnswersStayTrue, Terminal
  <2>2. CASE tx'[c] # tx[c]
    BY <1>3, <2>2 DEF AnswerStepOf
  <2> QED BY <2>1, <2>2
<1> QED
  BY <1>1, <1>5, <1>6, <1>7, <1>8, <1>9 DEF LeaseInv

LEMMA LeaseStart == Init => LeaseInv
BY InitInd DEF Init, NoRow, NoTx, LeaseInv, NewestPending, InsertsAfterLease, Inserting,
   LeasesDoNotOverlap, AnsweredRows, AnswersStayTrue

(* A selected row is its session's alone, no two leases of an envelope ran   *)
(* at the same time, and what a session was told stays true (finalize,       *)
(* reject, claim and the sweeper).                                           *)
THEOREM LeasesAndAnswers == Spec => []LeasesAndAnswersHold
<1>1. Spec => []LeaseInv
  BY LeaseStart, LeaseStep, PTL DEF Spec
<1>2. TypeOK /\ LockedRowIsStable /\ LeaseInv => LeasesAndAnswersHold
  BY DEF LeaseInv, LeasesAndAnswersHold
<1> QED
  BY <1>1, <1>2, SelectedRowsAreOwn, PTL

-----------------------------------------------------------------------------
(* Settlement: how often the provider is asked to settle.                  *)

\* Where a call has submitted and not yet finished.
SrAnswered(w) == srCall[w].pc \in {"audit", "persist", "finish"}

\* The provider's success is in the record, or in the hands of the call that got it.
SrKept == srRecord = "SUCCEEDED" \/ \E w \in SrWorkers : srCall[w].answer = "SUCCEEDED"

\* One call at a time, which has an answer exactly between its submission and its end.
SrLocked ==
    /\ \A v, w \in SrWorkers : srCall[v].pc # "idle" /\ srCall[w].pc # "idle" => v = w
    /\ \A w \in SrWorkers : srCall[w].answer # "none" <=> SrAnswered(w)
    /\ \A w \in SrWorkers : SrAnswered(w) => srOp[w].attempts < SrMaxRetry

\* A call that goes on found a record that is not finished, and nobody has a finished copy
\* before there is a record.
SrUnfinished ==
    /\ \A w \in SrWorkers : srCall[w].pc \notin {"idle", "locked"} =>
          srRecord \notin {"absent", "SUCCEEDED", "DEAD_LETTER"}
    /\ srRecord = "absent" => \A w \in SrWorkers : srOp[w].state = "PENDING"

\* Every success but the kept one was lost.
SrAccounts ==
    /\ settled = IF SrKept THEN lost + 1 ELSE lost
    /\ settled <= submitted

\* The trail follows the submissions.
SrTrailFollows ==
    /\ srTrail.attempts <= srTrail.audit /\ srTrail.audit <= submitted
    /\ \A w \in SrWorkers :
          /\ srCall[w].pc = "audit" => srTrail.audit < submitted
          /\ srCall[w].pc = "persist" => srTrail.attempts < srTrail.audit

SrInv == SrTypeOK /\ SrLocked /\ SrUnfinished /\ SrAccounts /\ SrTrailFollows


\* The inductive step: whatever a call does, and wherever it is interrupted.
LEMMA SrStep == SrInv /\ [SrNext]_srVars => SrInv'
<1> SUFFICES ASSUME SrInv, [SrNext]_srVars PROVE SrInv'
  OBVIOUS
<1> USE SrAssumption
<1>1. ASSUME NEW w \in SrWorkers, AcquireAdvisoryLock(w)
      PROVE  SrInv'
  <2>1. SrTypeOK'
    BY <1>1 DEF SrInv, SrTypeOK, SrLocked, SrAnswered, SrUnfinished, SrAccounts, SrTrailFollows,
                SrState, SettlementOperation, SrAnswer, AcquireAdvisoryLock, SrGoto
  <2>2. SrLocked'
    BY <1>1 DEF SrInv, SrTypeOK, SrLocked, SrAnswered, SettlementOperation, SrAnswer,
                AcquireAdvisoryLock, SrGoto
  <2>3. SrUnfinished'
    BY <1>1 DEF SrInv, SrTypeOK, SrLocked, SrUnfinished, SrTerminal, SettlementOperation,
                AcquireAdvisoryLock, SrGoto
  <2>4. SrAccounts'
    BY <1>1 DEF SrInv, SrTypeOK, SrLocked, SrUnfinished, SrAccounts, SrKept, SrAnswered,
                SrTerminal, SrAnswer, AcquireAdvisoryLock, SrGoto
  <2>5. SrTrailFollows'
    BY <1>1 DEF SrInv, SrTypeOK, SrLocked, SrTrailFollows, AcquireAdvisoryLock, SrGoto
  <2> QED BY <2>1, <2>2, <2>3, <2>4, <2>5 DEF SrInv
<1>2. ASSUME NEW w \in SrWorkers, FindByKey(w)
      PROVE  SrInv'
  <2>1. SrTypeOK'
    BY <1>2 DEF SrInv, SrTypeOK, SrLocked, SrAnswered, SrUnfinished, SrAccounts, SrTrailFollows,
                SrState, SettlementOperation, SrAnswer, FindByKey, SkipsFinished, SrEnd, SrGoto
  <2>2. SrLocked'
    BY <1>2 DEF SrInv, SrTypeOK, SrLocked, SrAnswered, SettlementOperation, SrAnswer, FindByKey,
                SkipsFinished, SrEnd, SrGoto
  <2>3. SrUnfinished'
    <3>1. CASE SkipsFinished(srRecord)
      BY <1>2, <3>1 DEF SrInv, SrTypeOK, SrUnfinished, FindByKey, SrEnd, SrGoto
    <3>2. CASE ~SkipsFinished(srRecord)
      <4>1. srRecord' \notin {"absent", "SUCCEEDED", "DEAD_LETTER"}
        BY <1>2, <3>2 DEF SrInv, SrUnfinished, FindByKey, SkipsFinished, SrTerminal
      <4> QED BY <4>1 DEF SrUnfinished
    <3> QED BY <3>1, <3>2
  <2>4. SrAccounts'
    BY <1>2 DEF SrInv, SrTypeOK, SrLocked, SrUnfinished, SrAccounts, SrKept, SrAnswered,
                SrTerminal, SrAnswer, FindByKey, SkipsFinished, SrEnd, SrGoto
  <2>5. SrTrailFollows'
    BY <1>2 DEF SrInv, SrTypeOK, SrLocked, SrTrailFollows, FindByKey, SkipsFinished, SrEnd, SrGoto
  <2> QED BY <2>1, <2>2, <2>3, <2>4, <2>5 DEF SrInv
<1>3. ASSUME NEW w \in SrWorkers, EnterInProgress(w)
      PROVE  SrInv'
  <2>1. SrTypeOK'
    BY <1>3 DEF SrInv, SrTypeOK, SrLocked, SrAnswered, SrUnfinished, SrAccounts, SrTrailFollows,
                SrState, SettlementOperation, SrAnswer, EnterInProgress, SrGoto
  <2>2. SrLocked'
    BY <1>3 DEF SrInv, SrTypeOK, SrLocked, SrAnswered, SettlementOperation, SrAnswer,
                EnterInProgress, SrGoto
  <2>3. SrUnfinished'
    BY <1>3 DEF SrInv, SrTypeOK, SrLocked, SrUnfinished, SrTerminal, SettlementOperation,
                EnterInProgress, SrGoto
  <2>4. SrAccounts'
    BY <1>3 DEF SrInv, SrTypeOK, SrLocked, SrUnfinished, SrAccounts, SrKept, SrAnswered,
                SrTerminal, SrAnswer, EnterInProgress, SrGoto
  <2>5. SrTrailFollows'
    BY <1>3 DEF SrInv, SrTypeOK, SrLocked, SrTrailFollows, EnterInProgress, SrGoto
  <2> QED BY <2>1, <2>2, <2>3, <2>4, <2>5 DEF SrInv
<1>4. ASSUME NEW w \in SrWorkers, RetryExhausted(w)
      PROVE  SrInv'
  <2>1. SrTypeOK'
    BY <1>4 DEF SrInv, SrTypeOK, SrLocked, SrAnswered, SrUnfinished, SrAccounts, SrTrailFollows,
                SrState, SettlementOperation, SrAnswer, RetryExhausted, SrEnd, SrGoto
  <2>2. SrLocked'
    BY <1>4 DEF SrInv, SrTypeOK, SrLocked, SrAnswered, SettlementOperation, SrAnswer,
                RetryExhausted, SrEnd, SrGoto
  <2>3. SrUnfinished'
    BY <1>4 DEF SrInv, SrTypeOK, SrLocked, SrUnfinished, SrTerminal, SettlementOperation,
                RetryExhausted, SrEnd, SrGoto
  <2>4. SrAccounts'
    BY <1>4 DEF SrInv, SrTypeOK, SrLocked, SrUnfinished, SrAccounts, SrKept, SrAnswered,
                SrTerminal, SrAnswer, RetryExhausted, SrEnd, SrGoto
  <2>5. SrTrailFollows'
    BY <1>4 DEF SrInv, SrTypeOK, SrLocked, SrTrailFollows, RetryExhausted, SrEnd, SrGoto
  <2> QED BY <2>1, <2>2, <2>3, <2>4, <2>5 DEF SrInv
<1>5. ASSUME NEW w \in SrWorkers, NEW a \in SrAnswer \ {"none"}, SubmitSettlement(w, a)
      PROVE  SrInv'
  <2>1. SrTypeOK'
    BY <1>5 DEF SrInv, SrTypeOK, SrLocked, SrAnswered, SrUnfinished, SrAccounts, SrTrailFollows,
                SrState, SettlementOperation, SrAnswer, SubmitSettlement, SrGoto
  <2>2. SrLocked'
    BY <1>5 DEF SrInv, SrTypeOK, SrLocked, SrAnswered, SettlementOperation, SrAnswer,
                SubmitSettlement, SrGoto
  <2>3. SrUnfinished'
    BY <1>5 DEF SrInv, SrTypeOK, SrLocked, SrUnfinished, SrTerminal, SettlementOperation,
                SubmitSettlement, SrGoto
  <2>4. SrAccounts'
    BY <1>5 DEF SrInv, SrTypeOK, SrLocked, SrUnfinished, SrAccounts, SrKept, SrAnswered,
                SrTerminal, SrAnswer, SubmitSettlement, SrGoto
  <2>5. SrTrailFollows'
    BY <1>5 DEF SrInv, SrTypeOK, SrLocked, SrTrailFollows, SubmitSettlement, SrGoto
  <2> QED BY <2>1, <2>2, <2>3, <2>4, <2>5 DEF SrInv
<1>6. ASSUME NEW w \in SrWorkers, RecordSettlementAuditEvent(w)
      PROVE  SrInv'
  <2>1. SrTypeOK'
    BY <1>6 DEF SrInv, SrTypeOK, SrLocked, SrAnswered, SrUnfinished, SrAccounts, SrTrailFollows,
                SrState, SettlementOperation, SrAnswer, RecordSettlementAuditEvent, SrGoto
  <2>2. SrLocked'
    BY <1>6 DEF SrInv, SrTypeOK, SrLocked, SrAnswered, SettlementOperation, SrAnswer,
                RecordSettlementAuditEvent, SrGoto
  <2>3. SrUnfinished'
    BY <1>6 DEF SrInv, SrTypeOK, SrLocked, SrUnfinished, SrTerminal, SettlementOperation,
                RecordSettlementAuditEvent, SrGoto
  <2>4. SrAccounts'
    BY <1>6 DEF SrInv, SrTypeOK, SrLocked, SrUnfinished, SrAccounts, SrKept, SrAnswered,
                SrTerminal, SrAnswer, RecordSettlementAuditEvent, SrGoto
  <2>5. SrTrailFollows'
    BY <1>6 DEF SrInv, SrTypeOK, SrLocked, SrTrailFollows, RecordSettlementAuditEvent, SrGoto
  <2> QED BY <2>1, <2>2, <2>3, <2>4, <2>5 DEF SrInv
<1>7. ASSUME NEW w \in SrWorkers, PersistRetryAttempt(w)
      PROVE  SrInv'
  <2>1. SrTypeOK'
    BY <1>7 DEF SrInv, SrTypeOK, SrLocked, SrAnswered, SrUnfinished, SrAccounts, SrTrailFollows,
                SrState, SettlementOperation, SrAnswer, PersistRetryAttempt, SrGoto
  <2>2. SrLocked'
    BY <1>7 DEF SrInv, SrTypeOK, SrLocked, SrAnswered, SettlementOperation, SrAnswer,
                PersistRetryAttempt, SrGoto
  <2>3. SrUnfinished'
    BY <1>7 DEF SrInv, SrTypeOK, SrLocked, SrUnfinished, SrTerminal, SettlementOperation,
                PersistRetryAttempt, SrGoto
  <2>4. SrAccounts'
    BY <1>7 DEF SrInv, SrTypeOK, SrLocked, SrUnfinished, SrAccounts, SrKept, SrAnswered,
                SrTerminal, SrAnswer, PersistRetryAttempt, SrGoto
  <2>5. SrTrailFollows'
    BY <1>7 DEF SrInv, SrTypeOK, SrLocked, SrTrailFollows, PersistRetryAttempt, SrGoto
  <2> QED BY <2>1, <2>2, <2>3, <2>4, <2>5 DEF SrInv
<1>8. ASSUME NEW w \in SrWorkers, FinishAttempt(w)
      PROVE  SrInv'
  <2>1. SrTypeOK'
    BY <1>8 DEF SrInv, SrTypeOK, SrLocked, SrAnswered, SrUnfinished, SrAccounts, SrTrailFollows,
                SrState, SettlementOperation, SrAnswer, FinishAttempt, FinalState, SrGoto
  <2>2. SrLocked'
    BY <1>8 DEF SrInv, SrTypeOK, SrLocked, SrAnswered, SettlementOperation, SrAnswer,
                FinishAttempt, FinalState, SrGoto
  <2>3. SrUnfinished'
    BY <1>8 DEF SrInv, SrTypeOK, SrLocked, SrUnfinished, SrTerminal, SettlementOperation,
                FinishAttempt, FinalState, SrGoto
  <2>4. SrAccounts'
    BY <1>8 DEF SrInv, SrTypeOK, SrLocked, SrUnfinished, SrAccounts, SrKept, SrAnswered,
                SrTerminal, SrAnswer, FinishAttempt, FinalState, SrGoto
  <2>5. SrTrailFollows'
    BY <1>8 DEF SrInv, SrTypeOK, SrLocked, SrTrailFollows, FinishAttempt, FinalState, SrGoto
  <2> QED BY <2>1, <2>2, <2>3, <2>4, <2>5 DEF SrInv
<1>9. ASSUME NEW w \in SrWorkers, SrInterrupted(w)
      PROVE  SrInv'
  <2>0. srCall[w].answer = "SUCCEEDED" => lost + 1 = settled
    BY DEF SrInv, SrAccounts, SrKept
  <2>1. SrTypeOK'
    BY <1>9, <2>0 DEF SrInv, SrTypeOK, SrLocked, SrAnswered, SrUnfinished, SrAccounts,
                      SrTrailFollows, SrState, SettlementOperation, SrAnswer, SrInterrupted,
                      SrEnd, SrGoto
  <2>2. SrLocked'
    BY <1>9, <2>0 DEF SrInv, SrTypeOK, SrLocked, SrAnswered, SettlementOperation, SrAnswer,
                      SrInterrupted, SrEnd, SrGoto
  <2>3. SrUnfinished'
    BY <1>9, <2>0 DEF SrInv, SrTypeOK, SrLocked, SrUnfinished, SrTerminal, SettlementOperation,
                      SrInterrupted, SrEnd, SrGoto
  <2>4. SrAccounts'
    BY <1>9, <2>0 DEF SrInv, SrTypeOK, SrLocked, SrUnfinished, SrAccounts, SrKept, SrAnswered,
                      SrTerminal, SrAnswer, SrInterrupted, SrEnd, SrGoto
  <2>5. SrTrailFollows'
    BY <1>9, <2>0 DEF SrInv, SrTypeOK, SrLocked, SrTrailFollows, SrInterrupted, SrEnd, SrGoto
  <2> QED BY <2>1, <2>2, <2>3, <2>4, <2>5 DEF SrInv
<1>10. CASE UNCHANGED srVars
  BY <1>10 DEF SrInv, SrTypeOK, SrLocked, SrUnfinished, SrAccounts, SrTrailFollows, SrAnswered,
               SrKept, srVars
<1> QED BY <1>1, <1>2, <1>3, <1>4, <1>5, <1>6, <1>7, <1>8, <1>9, <1>10 DEF SrNext

LEMMA SrStart == SrInit => SrInv
BY SrAssumption DEF SrInit, SrInv, SrTypeOK, SrLocked, SrAnswered, SrUnfinished, SrAccounts, SrKept,
   SrTrailFollows, SrState, SettlementOperation, SrAnswer

\* One retry of a settlement runs at a time, the provider's successes are the one in the record
\* or in its call's hands and those that were lost, and the audit trail never runs ahead of the
\* submissions, whatever step crashes or fails (executeWithRetry of settlement-retry.ts).
THEOREM SettlementsAreCounted == SrSpec => []SrInv
BY SrStart, SrStep, PTL DEF SrSpec

-----------------------------------------------------------------------------
(* Disputes: one decision per dispute.                                     *)

\* What a call holds: a decision of a majority before it commits, and its place among the
\* calls that were counted.
DaHolds ==
    \A w \in DaWorkers :
        /\ daCall[w].pc = "commit" =>
              /\ daCall[w].decision \in ArbitrationDecision
              /\ SignedByMajority(daCall[w].decision)
        /\ daCall[w].pc # "idle" => daStarted >= 1

ArbInv == ArbTypeOK /\ DecidedOnce /\ DaHolds

\* A list without a duplicate has as many signers as it is long.
LEMMA DistinctSigners ==
    ASSUME NEW n \in Nat, NEW S, NEW sigs \in [1..n -> S], NoDuplicateSigner(sigs)
    PROVE  Cardinality(SignersOf(sigs)) = n
<1>1. sigs \in Surjection(1..n, SignersOf(sigs))
  BY DEF Surjection, SignersOf
<1>2. sigs \in Injection(1..n, SignersOf(sigs))
  BY DEF Injection, IsInjective, SignersOf, NoDuplicateSigner
<1>3. IsFiniteSet(1..n) /\ Cardinality(1..n) = n
  BY FS_Interval
<1> QED BY <1>1, <1>2, <1>3, FS_Surjection

\* Any list the port may return is a sequence over its range.
LEMMA SignerListLength ==
    ASSUME NEW size \in Nat, NEW sigs \in SignerLists(size)
    PROVE  Len(sigs) \in Nat /\ sigs \in [1..Len(sigs) -> Arbitrators \cup {"outsider"}]
<1> PICK n \in 0..size : sigs \in [1..n -> Arbitrators \cup {"outsider"}]
  BY DEF SignerLists
<1>1. sigs \in Seq(Arbitrators \cup {"outsider"})
  OBVIOUS
<1>2. DOMAIN sigs = 1..Len(sigs) /\ Len(sigs) \in Nat
  BY <1>1
<1> QED BY <1>2

LEMMA DaIdle ==
    IdleDaCall \in [pc : {"idle"}, id : DisputeIds, hash : FilingHashes, decision : {NoDecision}]
BY DaAssumption DEF IdleDaCall

\* The inductive step.
LEMMA ArbStep == ArbInv /\ [ArbNext]_arbVars => ArbInv'
<1> SUFFICES ASSUME ArbInv, [ArbNext]_arbVars PROVE ArbInv'
  OBVIOUS
<1> USE DaAssumption, DaIdle
<1>1. ASSUME NEW w \in DaWorkers, NEW d \in DisputeIds, NEW h \in FilingHashes, FindByCanonicalHash(w, d, h)
      PROVE  ArbInv'
  <2>1. ArbTypeOK'
    BY <1>1 DEF ArbInv, ArbTypeOK, DaHolds, DecidedOnce, NoEvents, FindByCanonicalHash
  <2>2. DecidedOnce'
    BY <1>1 DEF ArbInv, ArbTypeOK, DecidedOnce, DaHolds, FindByCanonicalHash
  <2>3. DaHolds'
    BY <1>1 DEF ArbInv, ArbTypeOK, DaHolds, FindByCanonicalHash
  <2> QED BY <2>1, <2>2, <2>3 DEF ArbInv
<1>2. ASSUME NEW w \in DaWorkers, FindByDisputeId(w)
      PROVE  ArbInv'
  <2>1. ArbTypeOK'
    BY <1>2 DEF ArbInv, ArbTypeOK, DaHolds, DecidedOnce, NoEvents, FindByDisputeId, DaGoto
  <2>2. DecidedOnce'
    BY <1>2 DEF ArbInv, ArbTypeOK, DecidedOnce, DaHolds, FindByDisputeId, DaGoto
  <2>3. DaHolds'
    BY <1>2 DEF ArbInv, ArbTypeOK, DaHolds, FindByDisputeId, DaGoto
  <2> QED BY <2>1, <2>2, <2>3 DEF ArbInv
<1>3. ASSUME NEW w \in DaWorkers, VerifyFiling(w)
      PROVE  ArbInv'
  <2>1. ArbTypeOK'
    BY <1>3 DEF ArbInv, ArbTypeOK, DaHolds, DecidedOnce, NoEvents, VerifyFiling, DaGoto
  <2>2. DecidedOnce'
    BY <1>3 DEF ArbInv, ArbTypeOK, DecidedOnce, DaHolds, VerifyFiling, DaGoto
  <2>3. DaHolds'
    BY <1>3 DEF ArbInv, ArbTypeOK, DaHolds, VerifyFiling, DaGoto
  <2> QED BY <2>1, <2>2, <2>3 DEF ArbInv
<1>4. ASSUME NEW w \in DaWorkers, AggregateSignatures(w)
      PROVE  ArbInv'
  <2> PICK poolSize \in MinArbitrators..MaxArbitrators, selected \in SUBSET Arbitrators :
        /\ ComputeThreshold(poolSize) <= poolSize
        /\ \E sigs \in SignerLists(poolSize) :
              /\ Len(sigs) >= ComputeThreshold(poolSize)
              /\ NoDuplicateSigner(sigs)
              /\ AllSelected(sigs, selected)
              /\ daCall' = [daCall EXCEPT ![w] =
                    [pc |-> "commit", id |-> daCall[w].id, hash |-> daCall[w].hash,
                     decision |-> [pool |-> poolSize, threshold |-> ComputeThreshold(poolSize),
                                   signers |-> SignersOf(sigs)]]]
    BY <1>4 DEF AggregateSignatures
  <2> PICK sigs \in SignerLists(poolSize) :
        /\ Len(sigs) >= ComputeThreshold(poolSize)
        /\ NoDuplicateSigner(sigs)
        /\ AllSelected(sigs, selected)
        /\ daCall' = [daCall EXCEPT ![w] =
              [pc |-> "commit", id |-> daCall[w].id, hash |-> daCall[w].hash,
               decision |-> [pool |-> poolSize, threshold |-> ComputeThreshold(poolSize),
                             signers |-> SignersOf(sigs)]]]
    OBVIOUS
  <2> DEFINE decision == [pool |-> poolSize, threshold |-> ComputeThreshold(poolSize),
                          signers |-> SignersOf(sigs)]
  <2>0a. Cardinality(SignersOf(sigs)) = Len(sigs) /\ Len(sigs) \in Nat
    <3>1. poolSize \in Nat
      OBVIOUS
    <3> QED BY <3>1, SignerListLength, DistinctSigners
  <2>0b. ComputeThreshold(poolSize) \in 1..MaxArbitrators /\ 2 * ComputeThreshold(poolSize) > poolSize
    BY DEF ComputeThreshold
  <2>0c. decision \in ArbitrationDecision /\ SignedByMajority(decision)
    BY <2>0a, <2>0b DEF ArbitrationDecision, AllSelected, SignedByMajority
  <2>0d. daCall[w].pc = "panel" /\ UNCHANGED <<disputes, decisions, daAudit, daStarted>>
    BY <1>4 DEF AggregateSignatures
  <2>0e. daCall' = [daCall EXCEPT ![w] = [pc |-> "commit", id |-> daCall[w].id,
                                         hash |-> daCall[w].hash, decision |-> decision]]
    OBVIOUS
  <2> HIDE DEF decision
  <2>1. ArbTypeOK'
    <3> DEFINE K == [pc : {"idle", "hash", "verify", "panel", "commit"}, id : DisputeIds,
                     hash : FilingHashes, decision : ArbitrationDecision \cup {NoDecision}]
               k == [pc |-> "commit", id |-> daCall[w].id, hash |-> daCall[w].hash, decision |-> decision]
    <3>1. daCall \in [DaWorkers -> K]
      BY DEF ArbInv, ArbTypeOK
    <3>2. k \in K
      <4>1. daCall[w] \in K
        BY <3>1
      <4>2. daCall[w].id \in DisputeIds /\ daCall[w].hash \in FilingHashes
        BY <4>1
      <4> QED BY <4>2, <2>0c
    <3>3. daCall' = [daCall EXCEPT ![w] = k]
      BY <2>0e
    <3>4. daCall' \in [DaWorkers -> K]
      <4> HIDE DEF K, k
      <4> QED BY <3>1, <3>2, <3>3
    <3>5. ArbTypeOK
      BY DEF ArbInv
    <3> QED BY <3>4, <3>5, <2>0d DEF ArbTypeOK
  <2>2. DecidedOnce'
    BY <2>0d DEF ArbInv, DecidedOnce
  <2>3. DaHolds'
    BY <2>0c, <2>0d, <2>0e DEF ArbInv, ArbTypeOK, DaHolds
  <2> QED BY <2>1, <2>2, <2>3 DEF ArbInv
<1>5. ASSUME NEW w \in DaWorkers, CommitDispute(w)
      PROVE  ArbInv'
  <2> DEFINE d == daCall[w].id
             h == daCall[w].hash
  <2>0a. /\ d \in DisputeIds /\ h \in FilingHashes /\ daCall[w].pc = "commit"
         /\ disputes[d] = NoDispute /\ \A e \in DisputeIds : disputes[e].hash # h
         /\ decisions' = [decisions EXCEPT ![d] = daCall[w].decision]
         /\ disputes' = [disputes EXCEPT ![d] = [state |-> "RESOLVED", hash |-> h]]
         /\ daCall' = [daCall EXCEPT ![w] = IdleDaCall] /\ daStarted' = daStarted
    BY <1>5 DEF ArbInv, ArbTypeOK, CommitDispute, SaveDispute, DaEnd
  <2>0b. daAudit' = [daAudit EXCEPT ![d] = [filed |-> 1, moved |-> 1, decided |-> 1]]
    <3>1. daAudit[d] = NoEvents
      BY <2>0a DEF ArbInv, DecidedOnce
    <3>2. daAudit' = [daAudit EXCEPT ![d] = [filed |-> daAudit[d].filed + 1, moved |-> daAudit[d].moved + 1,
                                             decided |-> daAudit[d].decided + 1]]
      BY <1>5 DEF CommitDispute
    <3> QED BY <3>1, <3>2 DEF NoEvents
  <2>0c. daStarted >= 1 /\ daCall[w].decision \in ArbitrationDecision /\ SignedByMajority(daCall[w].decision)
    BY <2>0a DEF ArbInv, DaHolds
  <2> HIDE DEF d, h
  <2>1. ArbTypeOK'
    BY <2>0a, <2>0b, <2>0c DEF ArbInv, ArbTypeOK, Dispute, DisputeState
  <2>2. DecidedOnce'
    <3> SUFFICES ASSUME NEW c \in DisputeIds
                 PROVE  IF disputes'[c] = NoDispute THEN decisions'[c] = NoDecision /\ daAudit'[c] = NoEvents
                        ELSE /\ disputes'[c].state = "RESOLVED"
                             /\ daAudit'[c] = [filed |-> 1, moved |-> 1, decided |-> 1]
                             /\ SignedByMajority(decisions'[c])
                             /\ \A e \in DisputeIds \ {c} : disputes'[e].hash # disputes'[c].hash
      BY DEF DecidedOnce, SignedByMajority
    <3>1. CASE c = d
      <4>1. /\ disputes'[c] = [state |-> "RESOLVED", hash |-> h] /\ decisions'[c] = daCall[w].decision
            /\ daAudit'[c] = [filed |-> 1, moved |-> 1, decided |-> 1]
            /\ \A e \in DisputeIds \ {c} : disputes'[e] = disputes[e]
        BY <2>0a, <2>0b, <3>1 DEF ArbInv, ArbTypeOK
      <4>2. disputes'[c] # NoDispute
        BY <4>1 DEF NoDispute
      <4> QED BY <4>1, <4>2, <2>0a, <2>0c
    <3>2. CASE c # d
      <4>1. disputes'[c] = disputes[c] /\ decisions'[c] = decisions[c] /\ daAudit'[c] = daAudit[c]
        BY <2>0a, <2>0b, <3>2 DEF ArbInv, ArbTypeOK
      <4>2. \A e \in DisputeIds : disputes'[e].hash = IF e = d THEN h ELSE disputes[e].hash
        BY <2>0a DEF ArbInv, ArbTypeOK
      <4> QED BY <4>1, <4>2, <2>0a, <3>2 DEF ArbInv, DecidedOnce
    <3> QED BY <3>1, <3>2
  <2>3. DaHolds'
    BY <2>0a DEF ArbInv, ArbTypeOK, DaHolds
  <2> QED BY <2>1, <2>2, <2>3 DEF ArbInv
<1>6. ASSUME NEW w \in DaWorkers, DaThrows(w)
      PROVE  ArbInv'
  <2>1. ArbTypeOK'
    BY <1>6 DEF ArbInv, ArbTypeOK, DaHolds, DecidedOnce, NoEvents, DaThrows, DaEnd
  <2>2. DecidedOnce'
    BY <1>6 DEF ArbInv, ArbTypeOK, DecidedOnce, DaHolds, DaThrows, DaEnd
  <2>3. DaHolds'
    BY <1>6 DEF ArbInv, ArbTypeOK, DaHolds, DaThrows, DaEnd
  <2> QED BY <2>1, <2>2, <2>3 DEF ArbInv
<1>7. ASSUME NEW d \in DisputeIds, RunDisputeExpiry(d)
      PROVE  ArbInv'
  <2>0. UNCHANGED <<disputes, decisions, daAudit, daCall>> /\ daStarted' = daStarted + 1 /\ daStarted < MaxDaCalls
    BY <1>7 DEF ArbInv, DecidedOnce, RunDisputeExpiry, UpdateDisputeState, DisputeTransitions
  <2>1. ArbTypeOK'
    BY <2>0 DEF ArbInv, ArbTypeOK
  <2>2. DecidedOnce'
    BY <2>0 DEF ArbInv, DecidedOnce, ArbTypeOK
  <2>3. DaHolds'
    BY <2>0 DEF ArbInv, DaHolds, ArbTypeOK
  <2> QED BY <2>1, <2>2, <2>3 DEF ArbInv
<1>8. CASE UNCHANGED arbVars
  BY <1>8 DEF ArbInv, ArbTypeOK, DecidedOnce, DaHolds, arbVars
<1> QED BY <1>1, <1>2, <1>3, <1>4, <1>5, <1>6, <1>7, <1>8 DEF ArbNext

LEMMA ArbStart == ArbInit => ArbInv
BY DaAssumption, DaIdle DEF ArbInit, ArbInv, ArbTypeOK, DecidedOnce, DaHolds, NoEvents

\* What a filing is about to commit was signed by a majority, and a dispute that is stored has
\* one decision and the audit events of one filing (steps 1 to 7 of the arbitration and
\* runDisputeExpiry).
THEOREM DisputesAreDecidedOnce == ArbSpec => []ArbInv
BY ArbStart, ArbStep, PTL DEF ArbSpec

-----------------------------------------------------------------------------
(* Orchestrator: the quota and the replies.                                *)

\* A delivery that has not passed its capability check has reserved nothing, and one that has
\* not begun has left nothing behind.
OrClean ==
    \A d \in OrDeliveries :
        /\ orCall[d].pc \in {"new", "cache", "capability"} =>
              \A i \in OrLimitIndex : orReserved[d][i] = "none"
        /\ orCall[d].pc = "new" => orRecords[d] = {} /\ d \notin orLate

\* A delivery is committed exactly when its business ran, for its own envelope.
OrCommitted ==
    \A d \in OrDeliveries :
        /\ \A e \in OrEnvelopes : d \in orRuns[e] <=> orCall[d].committed /\ orCall[d].env = e
        /\ orCall[d].committed => orCall[d].pc \in {"record", "error", "finish", "done", "dead"}
        /\ orCall[d].pc = "record" => orCall[d].committed
        /\ orCall[d].replayed => orCall[d].pc = "done"

\* What was reserved stands until a delivery fails and for good once it is committed; one that
\* is refused or answered without it has cancelled what it could.
OrQuota ==
    \A d \in OrDeliveries :
        /\ orCall[d].pc \in {"reserve", "guard", "execute"} \/ orCall[d].committed =>
              \A i \in OrLimitIndex : orReserved[d][i] # "CANCELLED"
        /\ orCall[d].pc \in {"reject", "finish", "done"} /\ ~orCall[d].committed =>
              \A i \in Cancellable(d) : <<d, i>> \in orUncancelled

\* What a response that may be cached says is so, given the deliveries, records and runs.
OrTrueIn(delivered, records, runs, e, spec) ==
    LET some(status) == \E f \in OrDeliveries : delivered[f].env = e /\ status \in records[f]
    IN  /\ spec = "SUCCESS" => runs[e] # {} /\ some("SUCCESS")
        /\ spec = "AUTHORIZATION_INSUFFICIENT" => some("REJECTED")
        /\ spec = "INTERNAL_ERROR" => runs[e] # {}

\* What is in the cache, what is on its way there and what was answered is so; an internal
\* error that was not replayed says nothing.
OrTrue ==
    /\ \A e \in OrEnvelopes : OrTrueIn(orCall, orRecords, orRuns, e, orCache[e])
    /\ \A d \in OrDeliveries :
          /\ OrTrueIn(orCall, orRecords, orRuns, orCall[d].env, orCall[d].spec)
          /\ orCall[d].reply # "INTERNAL_ERROR" \/ orCall[d].replayed =>
                OrTrueIn(orCall, orRecords, orRuns, orCall[d].env, orCall[d].reply)

OrInv == OrTypeOK /\ OrClean /\ OrCommitted /\ OrQuota /\ OrTrue

LEMMA OrGotoType ==
    ASSUME NEW c \in OrCallState, NEW pc \in OrPc
    PROVE  [c EXCEPT !.pc = pc] \in OrCallState
BY DEF OrCallState

LEMMA OrRespondType ==
    ASSUME NEW c \in OrCallState, NEW pc \in OrPc, NEW reply \in OrReply,
           NEW spec \in CachedResponseSpec \cup {"none"}
    PROVE  [c EXCEPT !.pc = pc, !.reply = reply, !.spec = spec] \in OrCallState
BY DEF OrCallState

\* Records and runs are only added to, and a delivery with records keeps its envelope.
OrGrows ==
    /\ \A f \in OrDeliveries : /\ orRecords[f] \subseteq orRecords'[f]
                               /\ orRecords[f] # {} => orCall'[f].env = orCall[f].env
    /\ \A e \in OrEnvelopes : orRuns[e] \subseteq orRuns'[e]

\* What was so stays so.
LEMMA OrTrueStays ==
    ASSUME OrGrows, NEW e \in OrEnvelopes, NEW spec,
           OrTrueIn(orCall, orRecords, orRuns, e, spec)
    PROVE  OrTrueIn(orCall', orRecords', orRuns', e, spec)
<1>1. ASSUME NEW status, NEW f \in OrDeliveries, orCall[f].env = e, status \in orRecords[f]
      PROVE  orCall'[f].env = e /\ status \in orRecords'[f]
  BY <1>1 DEF OrGrows
<1>2. orRuns[e] # {} => orRuns'[e] # {}
  BY DEF OrGrows
<1> QED BY <1>1, <1>2 DEF OrTrueIn

\* A delivery moves on and leaves the cache alone: it is enough that its own answer is so.
LEMMA OrTrueMoves ==
    ASSUME OrInv, OrGrows, NEW d \in OrDeliveries, NEW c \in OrCallState,
           orCall' = [orCall EXCEPT ![d] = c], orCache' = orCache,
           OrTrueIn(orCall', orRecords', orRuns', c.env, c.spec),
           c.reply # "INTERNAL_ERROR" \/ c.replayed =>
              OrTrueIn(orCall', orRecords', orRuns', c.env, c.reply)
    PROVE  OrTrue'
<1>1. ASSUME NEW f \in OrDeliveries
      PROVE  /\ OrTrueIn(orCall', orRecords', orRuns', orCall'[f].env, orCall'[f].spec)
             /\ orCall'[f].reply # "INTERNAL_ERROR" \/ orCall'[f].replayed =>
                   OrTrueIn(orCall', orRecords', orRuns', orCall'[f].env, orCall'[f].reply)
  <2>1. CASE f = d
    <3>1. orCall'[f] = c
      BY <2>1 DEF OrInv, OrTypeOK
    <3> QED BY <3>1
  <2>2. CASE f # d
    <3>1. orCall'[f] = orCall[f] /\ orCall[f].env \in OrEnvelopes
      BY <2>2 DEF OrInv, OrTypeOK, OrCallState
    <3> QED BY <3>1, OrTrueStays DEF OrInv, OrTrue
  <2> QED BY <2>1, <2>2
<1>2. ASSUME NEW e \in OrEnvelopes
      PROVE  OrTrueIn(orCall', orRecords', orRuns', e, orCache'[e])
  BY <1>2, OrTrueStays DEF OrInv, OrTrue
<1> QED BY <1>1, <1>2 DEF OrTrue

\* Cancelling leaves every reservation that counts only successes cancelled or known as one
\* whose cancellation failed, and those of other deliveries as they are.
LEMMA OrCancels ==
    ASSUME OrTypeOK, NEW d \in OrDeliveries, CancelReservedRecords(d)
    PROVE  /\ orReserved' \in [OrDeliveries -> [OrLimitIndex -> {"none", "PENDING", "CANCELLED"}]]
           /\ orUncancelled' \subseteq OrDeliveries \X OrLimitIndex
           /\ \A f \in OrDeliveries \ {d} : orReserved'[f] = orReserved[f]
           /\ orUncancelled \subseteq orUncancelled'
           /\ \A i \in OrLimitIndex : orReserved'[d][i] = "PENDING" /\ OrLimits[i] = "SUCCESS" =>
                 <<d, i>> \in orUncancelled'
<1> PICK failed \in SUBSET Cancellable(d) :
      /\ orReserved' = [orReserved EXCEPT ![d] = [i \in OrLimitIndex |->
            IF i \in Cancellable(d) \ failed THEN "CANCELLED" ELSE orReserved[d][i]]]
      /\ orUncancelled' = orUncancelled \cup ({d} \X failed)
  BY DEF CancelReservedRecords
<1>1. Cancellable(d) \subseteq OrLimitIndex
  BY DEF Cancellable
<1>2. /\ orReserved' \in [OrDeliveries -> [OrLimitIndex -> {"none", "PENDING", "CANCELLED"}]]
      /\ \A f \in OrDeliveries \ {d} : orReserved'[f] = orReserved[f]
  BY <1>1 DEF OrTypeOK
<1>3. orUncancelled' \subseteq OrDeliveries \X OrLimitIndex /\ orUncancelled \subseteq orUncancelled'
  BY <1>1 DEF OrTypeOK
<1>4. ASSUME NEW i \in OrLimitIndex, orReserved'[d][i] = "PENDING", OrLimits[i] = "SUCCESS"
      PROVE  <<d, i>> \in orUncancelled'
  <2>1. orReserved'[d][i] = IF i \in Cancellable(d) \ failed THEN "CANCELLED" ELSE orReserved[d][i]
    BY DEF OrTypeOK
  <2>2. i \in failed
    BY <1>4, <2>1 DEF Cancellable
  <2> QED BY <2>2
<1> QED BY <1>2, <1>3, <1>4

\* A delivery moves on and only its own reservations change: the quota is kept if it is kept
\* for that delivery.
LEMMA OrQuotaMoves ==
    ASSUME OrInv, NEW d \in OrDeliveries, NEW c \in OrCallState,
           orCall' = [orCall EXCEPT ![d] = c],
           \A f \in OrDeliveries \ {d} : orReserved'[f] = orReserved[f],
           orUncancelled \subseteq orUncancelled',
           c.pc \in {"reserve", "guard", "execute"} \/ c.committed =>
              \A i \in OrLimitIndex : orReserved'[d][i] # "CANCELLED",
           c.pc \in {"reject", "finish", "done"} /\ ~c.committed =>
              \A i \in OrLimitIndex : orReserved'[d][i] = "PENDING" /\ OrLimits[i] = "SUCCESS" =>
                 <<d, i>> \in orUncancelled'
    PROVE  OrQuota'
<1> SUFFICES ASSUME NEW f \in OrDeliveries
             PROVE  /\ orCall'[f].pc \in {"reserve", "guard", "execute"} \/ orCall'[f].committed =>
                          \A i \in OrLimitIndex : orReserved'[f][i] # "CANCELLED"
                    /\ orCall'[f].pc \in {"reject", "finish", "done"} /\ ~orCall'[f].committed =>
                          \A i \in OrLimitIndex :
                             orReserved'[f][i] = "PENDING" /\ OrLimits[i] = "SUCCESS" =>
                                <<f, i>> \in orUncancelled'
  BY DEF OrQuota, Cancellable
<1>1. CASE f = d
  <2>1. orCall'[f] = c
    BY <1>1 DEF OrInv, OrTypeOK
  <2> QED BY <1>1, <2>1
<1>2. CASE f # d
  <2>1. orCall'[f] = orCall[f] /\ orReserved'[f] = orReserved[f]
    BY <1>2 DEF OrInv, OrTypeOK
  <2> QED BY <2>1 DEF OrInv, OrQuota, Cancellable
<1> QED BY <1>1, <1>2

LEMMA OrNewType == NewDelivery \in OrCallState
<1>1. (CHOOSE e \in OrEnvelopes : TRUE) \in OrEnvelopes
  BY OrAssumption
<1>2. 1 \in 1..(Len(OrLimits) + 1)
  BY OrAssumption
<1> QED BY <1>1, <1>2 DEF NewDelivery, OrCallState, OrPc, OrReply, CachedResponseSpec

\* A delivery moves on without running its business.
LEMMA OrCommittedMoves ==
    ASSUME OrInv, NEW d \in OrDeliveries, NEW c \in OrCallState,
           orCall' = [orCall EXCEPT ![d] = c], orRuns' = orRuns,
           c.env = orCall[d].env, c.committed = orCall[d].committed,
           c.committed => c.pc \in {"record", "error", "finish", "done", "dead"},
           c.pc # "record", c.replayed => c.pc = "done"
    PROVE  OrCommitted'
<1> SUFFICES ASSUME NEW f \in OrDeliveries
             PROVE  /\ \A e \in OrEnvelopes :
                          f \in orRuns'[e] <=> orCall'[f].committed /\ orCall'[f].env = e
                    /\ orCall'[f].committed =>
                          orCall'[f].pc \in {"record", "error", "finish", "done", "dead"}
                    /\ orCall'[f].pc = "record" => orCall'[f].committed
                    /\ orCall'[f].replayed => orCall'[f].pc = "done"
  BY DEF OrCommitted
<1>1. CASE f = d
  <2>1. orCall'[f] = c
    BY <1>1 DEF OrInv, OrTypeOK
  <2> QED BY <1>1, <2>1 DEF OrInv, OrCommitted
<1>2. CASE f # d
  <2>1. orCall'[f] = orCall[f]
    BY <1>2 DEF OrInv, OrTypeOK
  <2> QED BY <2>1 DEF OrInv, OrCommitted
<1> QED BY <1>1, <1>2

\* The inductive step.
LEMMA OrStep == OrInv /\ [OrNext]_orVars => OrInv'
<1> SUFFICES ASSUME OrInv, [OrNext]_orVars PROVE OrInv'
  OBVIOUS
<1> USE OrAssumption
<1>1. ASSUME NEW d \in OrDeliveries, NEW e \in OrEnvelopes, NEW v \in EnvelopeVerdicts, ReceiveEnvelope(d, e, v)
      PROVE  OrInv'
  <2> DEFINE c == [NewDelivery EXCEPT !.env = e, !.pc = IF v = "none" THEN "cache" ELSE "done", !.reply = v]
  <2>0a. orCall[d] \in OrCallState /\ c \in OrCallState
    BY OrNewType DEF OrInv, OrTypeOK, OrCallState, OrPc, EnvelopeVerdicts, OrReply, CachedResponseSpec
  <2>0b. orCall' = [orCall EXCEPT ![d] = c]
    BY <1>1 DEF ReceiveEnvelope, Respond, OrSet, OrGoto
  <2> HIDE DEF c
  <2>1. OrTypeOK'
    BY <1>1, <2>0a, <2>0b DEF OrInv, OrTypeOK, ReceiveEnvelope, OrKeep
  <2>2. OrClean'
    BY <1>1 DEF OrInv, OrTypeOK, OrCallState, OrClean, OrCommitted, ReceiveEnvelope, NewDelivery,
             EnvelopeVerdicts, OrSet, OrGoto, OrKeep
  <2>3. OrCommitted'
    BY <1>1 DEF OrInv, OrTypeOK, OrCallState, OrCommitted, ReceiveEnvelope, NewDelivery,
             EnvelopeVerdicts, OrSet, OrGoto, OrKeep
  <2>4. OrQuota'
    BY <1>1 DEF OrInv, OrTypeOK, OrCallState, OrClean, OrCommitted, OrQuota, Cancellable,
             ReceiveEnvelope, NewDelivery, EnvelopeVerdicts, OrSet, OrGoto, OrKeep
  <2>5. OrTrue'
    BY <1>1 DEF OrInv, OrTypeOK, OrCallState, OrReply, CachedResponseSpec, OrClean, OrCommitted, OrTrue,
             OrTrueIn, ReceiveEnvelope, NewDelivery, EnvelopeVerdicts, OrSet, OrGoto, OrKeep
  <2> QED BY <2>1, <2>2, <2>3, <2>4, <2>5 DEF OrInv
<1>2. ASSUME NEW d \in OrDeliveries, CheckCache(d)
      PROVE  OrInv'
  <2> DEFINE cached == orCache[orCall[d].env]
             c == IF cached = "none" THEN [orCall[d] EXCEPT !.pc = "capability"]
                  ELSE [orCall[d] EXCEPT !.pc = "done", !.reply = cached, !.replayed = TRUE]
  <2>0. /\ orCall[d] \in OrCallState /\ orCall[d].env \in OrEnvelopes
        /\ cached \in CachedResponseSpec \cup {"none"} /\ orCall[d].pc = "cache"
        /\ ~orCall[d].committed
    BY <1>2 DEF OrInv, OrTypeOK, OrCallState, OrCommitted, CheckCache
  <2>0a. c \in OrCallState
    <3> HIDE DEF cached
    <3>1. CASE cached = "none"
      BY <2>0, <3>1, OrGotoType DEF OrPc
    <3>2. CASE cached # "none"
      <4>1. cached \in OrReply
        BY <2>0, <3>2 DEF OrReply
      <4> QED BY <2>0, <3>2, <4>1 DEF OrCallState, OrPc
    <3> QED BY <3>1, <3>2
  <2>0b. orCall' = [orCall EXCEPT ![d] = c]
    BY <1>2 DEF CheckCache, OrGoto, OrSet
  <2>0c. OrGrows
    <3>1. c.env = orCall[d].env
      BY <2>0 DEF OrCallState
    <3> QED BY <1>2, <2>0b, <3>1 DEF OrInv, OrTypeOK, OrGrows, CheckCache
  <2>0d. /\ c.env = orCall[d].env /\ c.spec = orCall[d].spec /\ c.committed = orCall[d].committed
         /\ c.pc = (IF cached = "none" THEN "capability" ELSE "done")
         /\ c.reply = (IF cached = "none" THEN orCall[d].reply ELSE cached)
         /\ c.replayed = (IF cached = "none" THEN orCall[d].replayed ELSE TRUE)
    BY <2>0 DEF OrCallState
  <2>0e. UNCHANGED <<orReserved, orRecords, orCache, orLate, orRuns, orUncancelled>>
    BY <1>2 DEF CheckCache, OrKeep
  <2> HIDE DEF c, cached
  <2>1. OrTypeOK'
    BY <2>0a, <2>0b, <2>0e DEF OrInv, OrTypeOK
  <2>2. OrClean'
    BY <2>0, <2>0b, <2>0d, <2>0e DEF OrInv, OrTypeOK, OrClean
  <2>3. OrCommitted'
    <3>1. c.replayed => c.pc = "done"
      BY <2>0, <2>0d DEF OrInv, OrCommitted
    <3> QED BY <2>0, <2>0a, <2>0b, <2>0d, <2>0e, <3>1, OrCommittedMoves
  <2>4. OrQuota'
    <3>1. \A i \in OrLimitIndex : orReserved'[d][i] = "none"
      BY <2>0, <2>0e DEF OrInv, OrClean
    <3> QED BY <2>0, <2>0a, <2>0b, <2>0d, <2>0e, <3>1, OrQuotaMoves
  <2>5. OrTrue'
    <3>1. OrTrueIn(orCall', orRecords', orRuns', c.env, c.spec)
      BY <2>0, <2>0c, <2>0d, OrTrueStays DEF OrInv, OrTrue
    <3>2. OrTrueIn(orCall', orRecords', orRuns', orCall[d].env, cached)
      BY <2>0, <2>0c, OrTrueStays DEF OrInv, OrTrue, cached
    <3>3. orCall[d].reply # "INTERNAL_ERROR" \/ orCall[d].replayed =>
            OrTrueIn(orCall', orRecords', orRuns', orCall[d].env, orCall[d].reply)
      BY <2>0, <2>0c, OrTrueStays DEF OrInv, OrTrue
    <3> QED BY <2>0a, <2>0b, <2>0c, <2>0d, <2>0e, <3>1, <3>2, <3>3, OrTrueMoves
  <2> QED BY <2>1, <2>2, <2>3, <2>4, <2>5 DEF OrInv
<1>3. ASSUME NEW d \in OrDeliveries, ExtractActionFails(d)
      PROVE  OrInv'
  <2> DEFINE spec == "none"
             pc == IF spec = "none" THEN "done" ELSE "finish"
             c == [orCall[d] EXCEPT !.pc = pc, !.reply = "INVALID_ENVELOPE", !.spec = spec]
  <2>0a. orCall[d] \in OrCallState /\ c \in OrCallState
    BY OrRespondType DEF OrInv, OrTypeOK, OrPc, OrReply, CachedResponseSpec
  <2>0b. orCall' = [orCall EXCEPT ![d] = c]
    BY <1>3 DEF ExtractActionFails, Respond, OrSet
  <2>0c. OrGrows
    BY <1>3 DEF OrInv, OrTypeOK, OrCallState, OrGrows, ExtractActionFails, Respond, OrSet, OrGoto, OrKeep
  <2>0d. /\ c.env = orCall[d].env /\ c.reply = "INVALID_ENVELOPE" /\ c.spec = spec /\ c.pc = pc
         /\ c.replayed = orCall[d].replayed /\ c.committed = orCall[d].committed
    BY <2>0a DEF OrCallState
  <2> HIDE DEF c
  <2>1. OrTypeOK'
    BY <1>3, <2>0a, <2>0b DEF OrInv, OrTypeOK, ExtractActionFails, OrKeep
  <2>2. OrClean'
    BY <1>3 DEF OrInv, OrTypeOK, OrCallState, OrClean, OrCommitted, ExtractActionFails, Respond, OrSet,
             OrGoto, OrKeep
  <2>3. OrCommitted'
    BY <1>3 DEF OrInv, OrTypeOK, OrCallState, OrCommitted, ExtractActionFails, Respond, OrSet, OrGoto,
             OrKeep
  <2>4. OrQuota'
    BY <1>3 DEF OrInv, OrTypeOK, OrCallState, OrClean, OrCommitted, OrQuota, Cancellable,
             ExtractActionFails, Respond, OrSet, OrGoto, OrKeep
  <2>5. OrTrue'
    BY <1>3 DEF OrInv, OrTypeOK, OrCallState, OrReply, CachedResponseSpec, OrClean, OrCommitted, OrTrue,
             OrTrueIn, ExtractActionFails, Respond, OrSet, OrGoto, OrKeep
  <2> QED BY <2>1, <2>2, <2>3, <2>4, <2>5 DEF OrInv
<1>4. ASSUME NEW d \in OrDeliveries, NEW o \in CapabilityVerdicts, VerifyCapability(d, o)
      PROVE  OrInv'
  <2> DEFINE c == [orCall[d] EXCEPT !.pc = o]
  <2>0a. orCall[d] \in OrCallState /\ c \in OrCallState
    BY OrGotoType DEF OrInv, OrTypeOK, OrPc, CapabilityVerdicts
  <2>0b. orCall' = [orCall EXCEPT ![d] = c]
    BY <1>4 DEF VerifyCapability, OrGoto, OrSet
  <2>0c. OrGrows
    BY <1>4 DEF OrInv, OrTypeOK, OrCallState, OrGrows, VerifyCapability, CapabilityVerdicts, OrSet,
           OrGoto, OrKeep
  <2>0d. c.env = orCall[d].env /\ c.reply = orCall[d].reply /\ c.spec = orCall[d].spec /\ c.replayed = orCall[d].replayed
    BY <2>0a DEF OrCallState
  <2> HIDE DEF c
  <2>1. OrTypeOK'
    BY <1>4, <2>0a, <2>0b DEF OrInv, OrTypeOK, VerifyCapability, CapabilityVerdicts, OrKeep
  <2>2. OrClean'
    BY <1>4 DEF OrInv, OrTypeOK, OrCallState, OrClean, OrCommitted, VerifyCapability, CapabilityVerdicts,
             OrSet, OrGoto, OrKeep
  <2>3. OrCommitted'
    BY <1>4 DEF OrInv, OrTypeOK, OrCallState, OrCommitted, VerifyCapability, CapabilityVerdicts, OrSet,
             OrGoto, OrKeep
  <2>4. OrQuota'
    BY <1>4 DEF OrInv, OrTypeOK, OrCallState, OrClean, OrCommitted, OrQuota, Cancellable,
             VerifyCapability, CapabilityVerdicts, OrSet, OrGoto, OrKeep
  <2>5. OrTrue'
    <3>1. orCall[d].env \in OrEnvelopes
      BY <2>0a DEF OrCallState
    <3>2. orCache' = orCache
      BY <1>4 DEF VerifyCapability
    <3> QED BY <2>0a, <2>0b, <2>0c, <2>0d, <3>1, <3>2, OrTrueStays, OrTrueMoves DEF OrInv, OrTrue
  <2> QED BY <2>1, <2>2, <2>3, <2>4, <2>5 DEF OrInv
<1>5. ASSUME NEW d \in OrDeliveries, CheckAndReserve(d)
      PROVE  OrInv'
  <2>1. OrTypeOK'
    <3>1. orCall[d] \in OrCallState /\ orCall[d].next + 1 \in 1..(Len(OrLimits) + 1)
      BY <1>5 DEF OrInv, OrTypeOK, OrCallState, CheckAndReserve, OrLimitIndex
    <3>2. [orCall[d] EXCEPT !.next = orCall[d].next + 1] \in OrCallState
      BY <3>1 DEF OrCallState
    <3>3. orCall' \in [OrDeliveries -> OrCallState]
      BY <1>5, <3>2 DEF OrInv, OrTypeOK, CheckAndReserve, OrSet
    <3>4. orReserved' \in [OrDeliveries -> [OrLimitIndex -> {"none", "PENDING", "CANCELLED"}]]
      BY <1>5 DEF OrInv, OrTypeOK, CheckAndReserve
    <3> QED BY <1>5, <3>3, <3>4 DEF OrInv, OrTypeOK, CheckAndReserve
  <2>2. OrClean'
    BY <1>5 DEF OrInv, OrTypeOK, OrCallState, OrClean, OrCommitted, CheckAndReserve, OrSet,
                OrGoto, OrKeep
  <2>3. OrCommitted'
    BY <1>5 DEF OrInv, OrTypeOK, OrCallState, OrCommitted, CheckAndReserve, OrSet, OrGoto, OrKeep
  <2>4. OrQuota'
    BY <1>5 DEF OrInv, OrTypeOK, OrCallState, OrClean, OrCommitted, OrQuota, Cancellable,
                CheckAndReserve, OrSet, OrGoto, OrKeep
  <2>5. OrTrue'
    BY <1>5 DEF OrInv, OrTypeOK, OrCallState, OrReply, CachedResponseSpec, OrClean, OrCommitted,
                OrTrue, OrTrueIn, CheckAndReserve, OrSet, OrGoto, OrKeep
  <2> QED BY <2>1, <2>2, <2>3, <2>4, <2>5 DEF OrInv
<1>6. ASSUME NEW d \in OrDeliveries, ReserveThrows(d)
      PROVE  OrInv'
  <2> DEFINE c == [orCall[d] EXCEPT !.pc = "error"]
  <2>0a. orCall[d] \in OrCallState /\ c \in OrCallState
    BY OrGotoType DEF OrInv, OrTypeOK, OrPc
  <2>0b. orCall' = [orCall EXCEPT ![d] = c]
    BY <1>6 DEF ReserveThrows, OrGoto, OrSet
  <2>0c. OrGrows
    BY <1>6 DEF OrInv, OrTypeOK, OrCallState, OrGrows, ReserveThrows, CancelReservedRecords, OrSet,
           OrGoto, OrKeep
  <2>0d. c.env = orCall[d].env /\ c.reply = orCall[d].reply /\ c.spec = orCall[d].spec /\ c.replayed = orCall[d].replayed
    BY <2>0a DEF OrCallState
  <2> HIDE DEF c
  <2>1. OrTypeOK'
    BY <1>6, <2>0a, <2>0b, OrCancels DEF OrInv, OrTypeOK, ReserveThrows
  <2>2. OrClean'
    BY <1>6 DEF OrInv, OrTypeOK, OrCallState, OrClean, OrCommitted, ReserveThrows, CancelReservedRecords,
             OrSet, OrGoto, OrKeep
  <2>3. OrCommitted'
    BY <1>6 DEF OrInv, OrTypeOK, OrCallState, OrCommitted, ReserveThrows, CancelReservedRecords, OrSet,
             OrGoto, OrKeep
  <2>4. OrQuota'
    <3>1. ~c.committed /\ c.pc = "error"
      BY <1>6, <2>0a DEF c, OrInv, OrCommitted, ReserveThrows, OrCallState
    <3>2. CancelReservedRecords(d)
      BY <1>6 DEF ReserveThrows
    <3> QED BY <2>0a, <2>0b, <3>1, <3>2, OrCancels, OrQuotaMoves DEF OrInv
  <2>5. OrTrue'
    <3>1. orCall[d].env \in OrEnvelopes
      BY <2>0a DEF OrCallState
    <3>2. orCache' = orCache
      BY <1>6 DEF ReserveThrows
    <3> QED BY <2>0a, <2>0b, <2>0c, <2>0d, <3>1, <3>2, OrTrueStays, OrTrueMoves DEF OrInv, OrTrue
  <2> QED BY <2>1, <2>2, <2>3, <2>4, <2>5 DEF OrInv
<1>6u. ASSUME NEW d \in OrDeliveries, ReserveUnheard(d)
      PROVE  OrInv'
  <2> DEFINE c == [orCall[d] EXCEPT !.pc = "error"]
  <2>0a. orCall[d] \in OrCallState /\ c \in OrCallState
    BY OrGotoType DEF OrInv, OrTypeOK, OrPc
  <2>0b. orCall' = [orCall EXCEPT ![d] = c]
    BY <1>6u DEF ReserveUnheard, OrGoto, OrSet
  <2>0c. OrGrows
    BY <1>6u DEF OrInv, OrTypeOK, OrCallState, OrGrows, ReserveUnheard, OrSet, OrGoto
  <2>0d. /\ c.env = orCall[d].env /\ c.reply = orCall[d].reply /\ c.spec = orCall[d].spec /\ c.replayed = orCall[d].replayed
         /\ c.pc = "error" /\ c.committed = orCall[d].committed
    BY <2>0a DEF OrCallState
  <2>0e. ~c.committed
    BY <1>6u, <2>0d DEF OrInv, OrCommitted, ReserveUnheard
  <2> HIDE DEF c
  <2>0f. /\ orReserved' \in [OrDeliveries -> [OrLimitIndex -> {"none", "PENDING", "CANCELLED"}]]
         /\ \A f \in OrDeliveries \ {d} : orReserved'[f] = orReserved[f]
    BY <1>6u DEF OrInv, OrTypeOK, ReserveUnheard
  <2>0g. orUncancelled \subseteq orUncancelled' /\ orUncancelled' \subseteq OrDeliveries \X OrLimitIndex
    BY <1>6u DEF OrInv, OrTypeOK, ReserveUnheard
  <2>1. OrTypeOK'
    BY <1>6u, <2>0a, <2>0b, <2>0f, <2>0g DEF OrInv, OrTypeOK, ReserveUnheard
  <2>2. OrClean'
    BY <1>6u, <2>0b, <2>0d, <2>0f DEF OrInv, OrTypeOK, OrClean, ReserveUnheard
  <2>3. OrCommitted'
    BY <1>6u, <2>0a, <2>0b, <2>0d, <2>0e, OrCommittedMoves DEF OrInv, OrCommitted, ReserveUnheard
  <2>4. OrQuota'
    BY <2>0a, <2>0b, <2>0d, <2>0e, <2>0f, <2>0g, OrQuotaMoves
  <2>5. OrTrue'
    <3>1. orCall[d].env \in OrEnvelopes
      BY <2>0a DEF OrCallState
    <3>2. orCache' = orCache
      BY <1>6u DEF ReserveUnheard
    <3> QED BY <2>0a, <2>0b, <2>0c, <2>0d, <3>1, <3>2, OrTrueStays, OrTrueMoves DEF OrInv, OrTrue
  <2> QED BY <2>1, <2>2, <2>3, <2>4, <2>5 DEF OrInv
<1>7. ASSUME NEW d \in OrDeliveries, LimitsPassed(d)
      PROVE  OrInv'
  <2> DEFINE c == [orCall[d] EXCEPT !.pc = "guard"]
  <2>0a. orCall[d] \in OrCallState /\ c \in OrCallState
    BY OrGotoType DEF OrInv, OrTypeOK, OrPc
  <2>0b. orCall' = [orCall EXCEPT ![d] = c]
    BY <1>7 DEF LimitsPassed, OrGoto, OrSet
  <2>0c. OrGrows
    BY <1>7 DEF OrInv, OrTypeOK, OrCallState, OrGrows, LimitsPassed, OrSet, OrGoto, OrKeep
  <2>0d. c.env = orCall[d].env /\ c.reply = orCall[d].reply /\ c.spec = orCall[d].spec /\ c.replayed = orCall[d].replayed
    BY <2>0a DEF OrCallState
  <2> HIDE DEF c
  <2>1. OrTypeOK'
    BY <1>7, <2>0a, <2>0b DEF OrInv, OrTypeOK, LimitsPassed, OrKeep
  <2>2. OrClean'
    BY <1>7 DEF OrInv, OrTypeOK, OrCallState, OrClean, OrCommitted, LimitsPassed, OrSet, OrGoto, OrKeep
  <2>3. OrCommitted'
    BY <1>7 DEF OrInv, OrTypeOK, OrCallState, OrCommitted, LimitsPassed, OrSet, OrGoto, OrKeep
  <2>4. OrQuota'
    BY <1>7 DEF OrInv, OrTypeOK, OrCallState, OrClean, OrCommitted, OrQuota, Cancellable, LimitsPassed,
             OrSet, OrGoto, OrKeep
  <2>5. OrTrue'
    <3>1. orCall[d].env \in OrEnvelopes
      BY <2>0a DEF OrCallState
    <3>2. orCache' = orCache
      BY <1>7 DEF LimitsPassed
    <3> QED BY <2>0a, <2>0b, <2>0c, <2>0d, <3>1, <3>2, OrTrueStays, OrTrueMoves DEF OrInv, OrTrue
  <2> QED BY <2>1, <2>2, <2>3, <2>4, <2>5 DEF OrInv
<1>8. ASSUME NEW d \in OrDeliveries, NEW ok \in BOOLEAN, LimitExceeded(d, ok)
      PROVE  OrInv'
  <2> DEFINE c == [orCall[d] EXCEPT !.pc = "reject"]
  <2>0a. orCall[d] \in OrCallState /\ c \in OrCallState
    BY OrGotoType DEF OrInv, OrTypeOK, OrPc
  <2>0b. orCall' = [orCall EXCEPT ![d] = c]
    BY <1>8 DEF LimitExceeded, OrGoto, OrSet
  <2>0c. OrGrows
    BY <1>8 DEF OrInv, OrTypeOK, OrCallState, OrGrows, LimitExceeded, OrSet, OrGoto, OrKeep
  <2>0d. c.env = orCall[d].env /\ c.reply = orCall[d].reply /\ c.spec = orCall[d].spec /\ c.replayed = orCall[d].replayed
    BY <2>0a DEF OrCallState
  <2> HIDE DEF c
  <2>1. OrTypeOK'
    BY <1>8, <2>0a, <2>0b DEF OrInv, OrTypeOK, LimitExceeded, OrKeep
  <2>2. OrClean'
    BY <1>8 DEF OrInv, OrTypeOK, OrCallState, OrClean, OrCommitted, LimitExceeded, OrSet, OrGoto, OrKeep
  <2>3. OrCommitted'
    BY <1>8 DEF OrInv, OrTypeOK, OrCallState, OrCommitted, LimitExceeded, OrSet, OrGoto, OrKeep
  <2>4. OrQuota'
    <3> DEFINE i == orCall[d].next
               now == [orReserved[d] EXCEPT ![i] = IF ok THEN "PENDING" ELSE orReserved[d][i]]
               mine == {j \in OrLimitIndex : now[j] = "PENDING" /\ OrLimits[j] = "SUCCESS"}
    <3> PICK failed \in SUBSET mine :
          /\ orReserved' = [orReserved EXCEPT ![d] =
                [j \in OrLimitIndex |-> IF j \in mine \ failed THEN "CANCELLED" ELSE now[j]]]
          /\ orUncancelled' = orUncancelled \cup ({d} \X failed)
      BY <1>8 DEF LimitExceeded
    <3> HIDE DEF mine, now
    <3>1. ASSUME NEW j \in OrLimitIndex, orReserved'[d][j] = "PENDING", OrLimits[j] = "SUCCESS"
          PROVE  <<d, j>> \in orUncancelled'
      <4>1. orReserved'[d][j] = IF j \in mine \ failed THEN "CANCELLED" ELSE now[j]
        BY DEF OrInv, OrTypeOK
      <4>2. j \in failed
        BY <3>1, <4>1 DEF mine
      <4> QED BY <4>2
    <3>2. c.pc = "reject" /\ c.committed = orCall[d].committed /\ ~orCall[d].committed
      BY <1>8, <2>0a DEF c, OrInv, OrCommitted, OrCallState, LimitExceeded
    <3>3. orUncancelled \subseteq orUncancelled' /\ \A f \in OrDeliveries \ {d} : orReserved'[f] = orReserved[f]
      BY DEF OrInv, OrTypeOK
    <3> QED BY <2>0a, <2>0b, <3>1, <3>2, <3>3, OrQuotaMoves
  <2>5. OrTrue'
    <3>1. orCall[d].env \in OrEnvelopes
      BY <2>0a DEF OrCallState
    <3>2. orCache' = orCache
      BY <1>8 DEF LimitExceeded
    <3> QED BY <2>0a, <2>0b, <2>0c, <2>0d, <3>1, <3>2, OrTrueStays, OrTrueMoves DEF OrInv, OrTrue
  <2> QED BY <2>1, <2>2, <2>3, <2>4, <2>5 DEF OrInv
<1>9. ASSUME NEW d \in OrDeliveries, NEW ok \in BOOLEAN, RecordRejection(d, ok)
      PROVE  OrInv'
  <2> DEFINE reply == IF ok THEN "AUTHORIZATION_INSUFFICIENT" ELSE "INTERNAL_ERROR"
             spec == IF ok THEN "AUTHORIZATION_INSUFFICIENT" ELSE "none"
             pc == IF ok THEN "finish" ELSE "done"
             c == [orCall[d] EXCEPT !.pc = pc, !.reply = reply, !.spec = spec]
  <2>0. /\ reply \in OrReply /\ spec \in CachedResponseSpec \cup {"none"} /\ pc \in OrPc
        /\ orCall[d].pc = "reject" /\ ~orCall[d].committed /\ ~orCall[d].replayed
        /\ orCall[d] \in OrCallState
    BY <1>9 DEF OrReply, CachedResponseSpec, OrPc, RecordRejection, OrInv, OrTypeOK, OrCommitted
  <2>0a. c \in OrCallState
    BY <2>0, OrRespondType
  <2>0b. orCall' = [orCall EXCEPT ![d] = c]
    <3>1. CASE ok
      BY <1>9, <3>1 DEF RecordRejection, Respond, OrSet
    <3>2. CASE ~ok
      BY <1>9, <3>2 DEF RecordRejection, Respond, OrSet
    <3> QED BY <3>1, <3>2
  <2>0d. /\ c.env = orCall[d].env /\ c.reply = reply /\ c.spec = spec /\ c.pc = pc
         /\ c.replayed = orCall[d].replayed /\ c.committed = orCall[d].committed
    BY <2>0 DEF OrCallState
  <2> HIDE DEF c, reply, spec, pc
  <2>0e. /\ orRecords' = [orRecords EXCEPT ![d] = orRecords[d] \cup IF ok THEN {"REJECTED"} ELSE {}]
         /\ UNCHANGED <<orReserved, orCache, orLate, orRuns, orUncancelled>>
    <3>1. CASE ok
      BY <1>9, <3>1 DEF RecordRejection, OrRecord, OrKeep
    <3>2. CASE ~ok
      BY <1>9, <3>2 DEF OrInv, OrTypeOK, RecordRejection, OrKeep
    <3> QED BY <3>1, <3>2
  <2>0f. OrGrows
    BY <2>0b, <2>0d, <2>0e DEF OrInv, OrTypeOK, OrGrows
  <2>1. OrTypeOK'
    BY <2>0a, <2>0b, <2>0e DEF OrInv, OrTypeOK
  <2>2. OrClean'
    BY <2>0, <2>0b, <2>0d, <2>0e DEF OrInv, OrTypeOK, OrClean, pc
  <2>3. OrCommitted'
    BY <2>0, <2>0a, <2>0b, <2>0d, <2>0e, OrCommittedMoves DEF pc
  <2>4. OrQuota'
    <3>1. \A i \in OrLimitIndex : orReserved'[d][i] = "PENDING" /\ OrLimits[i] = "SUCCESS" =>
             <<d, i>> \in orUncancelled'
      BY <2>0, <2>0e DEF OrInv, OrQuota, Cancellable
    <3> QED BY <2>0, <2>0a, <2>0b, <2>0d, <2>0e, <3>1, OrQuotaMoves DEF pc
  <2>5. OrTrue'
    <3>1. OrTrueIn(orCall', orRecords', orRuns', c.env, c.spec)
      <4>1. CASE ok
        <5>1. "REJECTED" \in orRecords'[d] /\ orCall'[d].env = c.env
          BY <2>0b, <2>0e, <4>1 DEF OrInv, OrTypeOK
        <5> QED BY <2>0d, <4>1, <5>1 DEF OrTrueIn, spec
      <4>2. CASE ~ok
        BY <2>0d, <4>2 DEF OrTrueIn, spec
      <4> QED BY <4>1, <4>2
    <3>2. c.reply # "INTERNAL_ERROR" \/ c.replayed => c.reply = c.spec
      BY <2>0, <2>0d DEF reply, spec
    <3> QED BY <2>0a, <2>0b, <2>0f, <2>0e, <3>1, <3>2, OrTrueMoves
  <2> QED BY <2>1, <2>2, <2>3, <2>4, <2>5 DEF OrInv
<1>10. ASSUME NEW d \in OrDeliveries, NEW ok \in BOOLEAN, ExecutorThrows(d, ok)
      PROVE  OrInv'
  <2> DEFINE c == [orCall[d] EXCEPT !.pc = "error"]
  <2>0a. orCall[d] \in OrCallState /\ c \in OrCallState
    BY OrGotoType DEF OrInv, OrTypeOK, OrPc
  <2>0b. orCall' = [orCall EXCEPT ![d] = c]
    BY <1>10 DEF ExecutorThrows, OrGoto, OrSet
  <2>0c. OrGrows
    BY <1>10 DEF OrInv, OrTypeOK, OrCallState, OrGrows, ExecutorThrows, OrRecord, OrSet, OrGoto, OrKeep
  <2>0d. c.env = orCall[d].env /\ c.reply = orCall[d].reply /\ c.spec = orCall[d].spec /\ c.replayed = orCall[d].replayed
    BY <2>0a DEF OrCallState
  <2> HIDE DEF c
  <2>1. OrTypeOK'
    BY <1>10, <2>0a, <2>0b DEF OrInv, OrTypeOK, ExecutorThrows, OrRecord, OrKeep
  <2>2. OrClean'
    BY <1>10 DEF OrInv, OrTypeOK, OrCallState, OrClean, OrCommitted, ExecutorThrows, OrRecord, OrSet,
             OrGoto, OrKeep
  <2>3. OrCommitted'
    BY <1>10 DEF OrInv, OrTypeOK, OrCallState, OrCommitted, ExecutorThrows, OrRecord, OrSet, OrGoto,
             OrKeep
  <2>4. OrQuota'
    BY <1>10 DEF OrInv, OrTypeOK, OrCallState, OrClean, OrCommitted, OrQuota, Cancellable, ExecutorThrows,
             OrRecord, OrSet, OrGoto, OrKeep
  <2>5. OrTrue'
    <3>1. orCall[d].env \in OrEnvelopes
      BY <2>0a DEF OrCallState
    <3>2. orCache' = orCache
      BY <1>10 DEF ExecutorThrows
    <3> QED BY <2>0a, <2>0b, <2>0c, <2>0d, <3>1, <3>2, OrTrueStays, OrTrueMoves DEF OrInv, OrTrue
  <2> QED BY <2>1, <2>2, <2>3, <2>4, <2>5 DEF OrInv
<1>11. ASSUME NEW d \in OrDeliveries, NEW ok \in BOOLEAN, CacheWriteAbandoned(d, ok)
      PROVE  OrInv'
  <2> DEFINE c == [orCall[d] EXCEPT !.pc = "done"]
  <2>0a. orCall[d] \in OrCallState /\ c \in OrCallState
    BY OrGotoType DEF OrInv, OrTypeOK, OrPc
  <2>0b. orCall' = [orCall EXCEPT ![d] = c]
    BY <1>11 DEF CacheWriteAbandoned, OrGoto, OrSet
  <2>0c. OrGrows
    BY <1>11 DEF OrInv, OrTypeOK, OrCallState, OrGrows, CacheWriteAbandoned, OrSet, OrGoto, OrKeep
  <2>0d. c.env = orCall[d].env /\ c.reply = orCall[d].reply /\ c.spec = orCall[d].spec /\ c.replayed = orCall[d].replayed
    BY <2>0a DEF OrCallState
  <2> HIDE DEF c
  <2>1. OrTypeOK'
    BY <1>11, <2>0a, <2>0b DEF OrInv, OrTypeOK, CacheWriteAbandoned, OrKeep
  <2>2. OrClean'
    BY <1>11 DEF OrInv, OrTypeOK, OrCallState, OrClean, OrCommitted, CacheWriteAbandoned, OrSet, OrGoto,
             OrKeep
  <2>3. OrCommitted'
    BY <1>11 DEF OrInv, OrTypeOK, OrCallState, OrCommitted, CacheWriteAbandoned, OrSet, OrGoto, OrKeep
  <2>4. OrQuota'
    BY <1>11 DEF OrInv, OrTypeOK, OrCallState, OrClean, OrCommitted, OrQuota, Cancellable,
             CacheWriteAbandoned, OrSet, OrGoto, OrKeep
  <2>5. OrTrue'
    <3>1. orCall[d].env \in OrEnvelopes
      BY <2>0a DEF OrCallState
    <3>2. orCache' = orCache
      BY <1>11 DEF CacheWriteAbandoned
    <3> QED BY <2>0a, <2>0b, <2>0c, <2>0d, <3>1, <3>2, OrTrueStays, OrTrueMoves DEF OrInv, OrTrue
  <2> QED BY <2>1, <2>2, <2>3, <2>4, <2>5 DEF OrInv
<1>12. ASSUME NEW d \in OrDeliveries, GuardAllows(d)
      PROVE  OrInv'
  <2> DEFINE c == [orCall[d] EXCEPT !.pc = "execute"]
  <2>0a. orCall[d] \in OrCallState /\ c \in OrCallState
    BY OrGotoType DEF OrInv, OrTypeOK, OrPc
  <2>0b. orCall' = [orCall EXCEPT ![d] = c]
    BY <1>12 DEF GuardAllows, OrGoto, OrSet
  <2>0c. OrGrows
    BY <1>12 DEF OrInv, OrTypeOK, OrCallState, OrGrows, GuardAllows, OrSet, OrGoto, OrKeep
  <2>0d. c.env = orCall[d].env /\ c.reply = orCall[d].reply /\ c.spec = orCall[d].spec /\ c.replayed = orCall[d].replayed
    BY <2>0a DEF OrCallState
  <2> HIDE DEF c
  <2>1. OrTypeOK'
    BY <1>12, <2>0a, <2>0b DEF OrInv, OrTypeOK, GuardAllows, OrKeep
  <2>2. OrClean'
    BY <1>12 DEF OrInv, OrTypeOK, OrCallState, OrClean, OrCommitted, GuardAllows, OrSet, OrGoto, OrKeep
  <2>3. OrCommitted'
    BY <1>12 DEF OrInv, OrTypeOK, OrCallState, OrCommitted, GuardAllows, OrSet, OrGoto, OrKeep
  <2>4. OrQuota'
    BY <1>12 DEF OrInv, OrTypeOK, OrCallState, OrClean, OrCommitted, OrQuota, Cancellable, GuardAllows,
             OrSet, OrGoto, OrKeep
  <2>5. OrTrue'
    <3>1. orCall[d].env \in OrEnvelopes
      BY <2>0a DEF OrCallState
    <3>2. orCache' = orCache
      BY <1>12 DEF GuardAllows
    <3> QED BY <2>0a, <2>0b, <2>0c, <2>0d, <3>1, <3>2, OrTrueStays, OrTrueMoves DEF OrInv, OrTrue
  <2> QED BY <2>1, <2>2, <2>3, <2>4, <2>5 DEF OrInv
<1>13. ASSUME NEW d \in OrDeliveries, GuardDenies(d)
      PROVE  OrInv'
  <2> DEFINE spec == "AUTHORIZATION_INSUFFICIENT"
             pc == IF spec = "none" THEN "done" ELSE "finish"
             c == [orCall[d] EXCEPT !.pc = pc, !.reply = "AUTHORIZATION_INSUFFICIENT", !.spec = spec]
  <2>0a. orCall[d] \in OrCallState /\ c \in OrCallState
    BY OrRespondType DEF OrInv, OrTypeOK, OrPc, OrReply, CachedResponseSpec
  <2>0b. orCall' = [orCall EXCEPT ![d] = c]
    BY <1>13 DEF GuardDenies, Respond, OrSet
  <2>0c. OrGrows
    BY <1>13 DEF OrInv, OrTypeOK, OrCallState, OrGrows, GuardDenies, OrRecord, Respond,
           CancelReservedRecords, OrSet, OrGoto, OrKeep
  <2>0d. /\ c.env = orCall[d].env /\ c.reply = "AUTHORIZATION_INSUFFICIENT" /\ c.spec = spec /\ c.pc = pc
         /\ c.replayed = orCall[d].replayed /\ c.committed = orCall[d].committed
    BY <2>0a DEF OrCallState
  <2> HIDE DEF c
  <2>1. OrTypeOK'
    BY <1>13, <2>0a, <2>0b, OrCancels DEF OrInv, OrTypeOK, GuardDenies, OrRecord
  <2>2. OrClean'
    BY <1>13 DEF OrInv, OrTypeOK, OrCallState, OrClean, OrCommitted, GuardDenies, OrRecord, Respond,
             CancelReservedRecords, OrSet, OrGoto, OrKeep
  <2>3. OrCommitted'
    BY <1>13 DEF OrInv, OrTypeOK, OrCallState, OrCommitted, GuardDenies, OrRecord, Respond,
             CancelReservedRecords, OrSet, OrGoto, OrKeep
  <2>4. OrQuota'
    <3>1. ~orCall[d].committed
      BY <1>13 DEF OrInv, OrCommitted, GuardDenies
    <3>2. CancelReservedRecords(d)
      BY <1>13 DEF GuardDenies
    <3> QED BY <2>0a, <2>0b, <2>0d, <3>1, <3>2, OrCancels, OrQuotaMoves DEF OrInv
  <2>5. OrTrue'
    <3>1. orCache' = orCache /\ "REJECTED" \in orRecords'[d]
      BY <1>13 DEF OrInv, OrTypeOK, OrCommitted, OrCallState, GuardDenies, OrRecord
    <3>2. orCall'[d].env = orCall[d].env
      BY <2>0b, <2>0d DEF OrInv, OrTypeOK
    <3>3. OrTrueIn(orCall', orRecords', orRuns', c.env, spec)
      BY <2>0d, <3>1, <3>2 DEF OrTrueIn
    <3> QED BY <2>0a, <2>0b, <2>0c, <2>0d, <3>1, <3>3, OrTrueMoves
  <2> QED BY <2>1, <2>2, <2>3, <2>4, <2>5 DEF OrInv
<1>14. ASSUME NEW d \in OrDeliveries, GuardThrows(d)
      PROVE  OrInv'
  <2> DEFINE c == [orCall[d] EXCEPT !.pc = "error"]
  <2>0a. orCall[d] \in OrCallState /\ c \in OrCallState
    BY OrGotoType DEF OrInv, OrTypeOK, OrPc
  <2>0b. orCall' = [orCall EXCEPT ![d] = c]
    BY <1>14 DEF GuardThrows, OrGoto, OrSet
  <2>0c. OrGrows
    BY <1>14 DEF OrInv, OrTypeOK, OrCallState, OrGrows, GuardThrows, OrSet, OrGoto, OrKeep
  <2>0d. c.env = orCall[d].env /\ c.reply = orCall[d].reply /\ c.spec = orCall[d].spec /\ c.replayed = orCall[d].replayed
    BY <2>0a DEF OrCallState
  <2> HIDE DEF c
  <2>1. OrTypeOK'
    BY <1>14, <2>0a, <2>0b DEF OrInv, OrTypeOK, GuardThrows, OrKeep
  <2>2. OrClean'
    BY <1>14 DEF OrInv, OrTypeOK, OrCallState, OrClean, OrCommitted, GuardThrows, OrSet, OrGoto, OrKeep
  <2>3. OrCommitted'
    BY <1>14 DEF OrInv, OrTypeOK, OrCallState, OrCommitted, GuardThrows, OrSet, OrGoto, OrKeep
  <2>4. OrQuota'
    BY <1>14 DEF OrInv, OrTypeOK, OrCallState, OrClean, OrCommitted, OrQuota, Cancellable, GuardThrows,
             OrSet, OrGoto, OrKeep
  <2>5. OrTrue'
    <3>1. orCall[d].env \in OrEnvelopes
      BY <2>0a DEF OrCallState
    <3>2. orCache' = orCache
      BY <1>14 DEF GuardThrows
    <3> QED BY <2>0a, <2>0b, <2>0c, <2>0d, <3>1, <3>2, OrTrueStays, OrTrueMoves DEF OrInv, OrTrue
  <2> QED BY <2>1, <2>2, <2>3, <2>4, <2>5 DEF OrInv
<1>15. ASSUME NEW d \in OrDeliveries, ExecutorReturns(d)
      PROVE  OrInv'
  <2>1. OrTypeOK'
    <3>1. orCall[d] \in OrCallState /\ orCall[d].env \in OrEnvelopes
      BY DEF OrInv, OrTypeOK, OrCallState
    <3>2. [orCall[d] EXCEPT !.pc = "record", !.committed = TRUE] \in OrCallState
      BY <3>1 DEF OrCallState, OrPc
    <3>3. orCall' \in [OrDeliveries -> OrCallState]
      BY <1>15, <3>2 DEF OrInv, OrTypeOK, ExecutorReturns, OrSet, CommitHook
    <3>4. orRuns' \in [OrEnvelopes -> SUBSET OrDeliveries]
      BY <1>15, <3>1 DEF OrInv, OrTypeOK, ExecutorReturns
    <3> QED BY <1>15, <3>3, <3>4 DEF OrInv, OrTypeOK, ExecutorReturns, OrKeep
  <2>2. OrClean'
    BY <1>15 DEF OrInv, OrTypeOK, OrCallState, OrClean, OrCommitted, ExecutorReturns, CommitHook,
                 OrSet, OrGoto, OrKeep
  <2>3. OrCommitted'
    BY <1>15 DEF OrInv, OrTypeOK, OrCallState, OrCommitted, ExecutorReturns, CommitHook, OrSet,
                 OrGoto, OrKeep
  <2>4. OrQuota'
    BY <1>15 DEF OrInv, OrTypeOK, OrCallState, OrClean, OrCommitted, OrQuota, Cancellable,
                 ExecutorReturns, CommitHook, OrSet, OrGoto, OrKeep
  <2>5. OrTrue'
    BY <1>15 DEF OrInv, OrTypeOK, OrCallState, OrReply, CachedResponseSpec, OrClean, OrCommitted,
                 OrTrue, OrTrueIn, ExecutorReturns, CommitHook, OrSet, OrGoto, OrKeep
  <2> QED BY <2>1, <2>2, <2>3, <2>4, <2>5 DEF OrInv
<1>16. ASSUME NEW d \in OrDeliveries, RecordSuccess(d)
      PROVE  OrInv'
  <2> DEFINE spec == "SUCCESS"
             pc == IF spec = "none" THEN "done" ELSE "finish"
             c == [orCall[d] EXCEPT !.pc = pc, !.reply = "SUCCESS", !.spec = spec]
  <2>0a. orCall[d] \in OrCallState /\ c \in OrCallState
    BY OrRespondType DEF OrInv, OrTypeOK, OrPc, OrReply, CachedResponseSpec
  <2>0b. orCall' = [orCall EXCEPT ![d] = c]
    BY <1>16 DEF RecordSuccess, Respond, OrSet
  <2>0c. OrGrows
    BY <1>16 DEF OrInv, OrTypeOK, OrCallState, OrGrows, RecordSuccess, OrRecord, Respond, OrSet, OrGoto,
           OrKeep
  <2>0d. /\ c.env = orCall[d].env /\ c.reply = "SUCCESS" /\ c.spec = spec /\ c.pc = pc
         /\ c.replayed = orCall[d].replayed /\ c.committed = orCall[d].committed
    BY <2>0a DEF OrCallState
  <2> HIDE DEF c
  <2>1. OrTypeOK'
    BY <1>16, <2>0a, <2>0b DEF OrInv, OrTypeOK, RecordSuccess, OrRecord, OrKeep
  <2>2. OrClean'
    BY <1>16 DEF OrInv, OrTypeOK, OrCallState, OrClean, OrCommitted, RecordSuccess, OrRecord, Respond,
             OrSet, OrGoto, OrKeep
  <2>3. OrCommitted'
    BY <1>16 DEF OrInv, OrTypeOK, OrCallState, OrCommitted, RecordSuccess, OrRecord, Respond, OrSet,
             OrGoto, OrKeep
  <2>4. OrQuota'
    BY <1>16 DEF OrInv, OrTypeOK, OrCallState, OrClean, OrCommitted, OrQuota, Cancellable, RecordSuccess,
             OrRecord, Respond, OrSet, OrGoto, OrKeep
  <2>5. OrTrue'
    <3>1. orCache' = orCache /\ "SUCCESS" \in orRecords'[d] /\ orRuns'[orCall[d].env] # {}
      BY <1>16 DEF OrInv, OrTypeOK, OrCommitted, OrCallState, RecordSuccess, OrRecord
    <3>2. orCall'[d].env = orCall[d].env
      BY <2>0b, <2>0d DEF OrInv, OrTypeOK
    <3>3. OrTrueIn(orCall', orRecords', orRuns', c.env, spec)
      BY <2>0d, <3>1, <3>2 DEF OrTrueIn
    <3> QED BY <2>0a, <2>0b, <2>0c, <2>0d, <3>1, <3>3, OrTrueMoves
  <2> QED BY <2>1, <2>2, <2>3, <2>4, <2>5 DEF OrInv
<1>17. ASSUME NEW d \in OrDeliveries, NEW w \in {{}, {"ERROR"}, {"SUCCESS"}}, RecordSuccessThrows(d, w)
      PROVE  OrInv'
  <2> DEFINE c == [orCall[d] EXCEPT !.pc = "error"]
  <2>0a. orCall[d] \in OrCallState /\ c \in OrCallState
    BY OrGotoType DEF OrInv, OrTypeOK, OrPc
  <2>0b. orCall' = [orCall EXCEPT ![d] = c]
    BY <1>17 DEF RecordSuccessThrows, OrGoto, OrSet
  <2>0c. OrGrows
    BY <1>17 DEF OrInv, OrTypeOK, OrCallState, OrGrows, RecordSuccessThrows, OrSet, OrGoto, OrKeep
  <2>0d. c.env = orCall[d].env /\ c.reply = orCall[d].reply /\ c.spec = orCall[d].spec /\ c.replayed = orCall[d].replayed
    BY <2>0a DEF OrCallState
  <2> HIDE DEF c
  <2>1. OrTypeOK'
    BY <1>17, <2>0a, <2>0b DEF OrInv, OrTypeOK, RecordSuccessThrows, OrKeep
  <2>2. OrClean'
    BY <1>17 DEF OrInv, OrTypeOK, OrCallState, OrClean, OrCommitted, RecordSuccessThrows, OrSet, OrGoto,
             OrKeep
  <2>3. OrCommitted'
    BY <1>17 DEF OrInv, OrTypeOK, OrCallState, OrCommitted, RecordSuccessThrows, OrSet, OrGoto, OrKeep
  <2>4. OrQuota'
    BY <1>17 DEF OrInv, OrTypeOK, OrCallState, OrClean, OrCommitted, OrQuota, Cancellable,
             RecordSuccessThrows, OrSet, OrGoto, OrKeep
  <2>5. OrTrue'
    <3>1. orCall[d].env \in OrEnvelopes
      BY <2>0a DEF OrCallState
    <3>2. orCache' = orCache
      BY <1>17 DEF RecordSuccessThrows
    <3> QED BY <2>0a, <2>0b, <2>0c, <2>0d, <3>1, <3>2, OrTrueStays, OrTrueMoves DEF OrInv, OrTrue
  <2> QED BY <2>1, <2>2, <2>3, <2>4, <2>5 DEF OrInv
<1>18. ASSUME NEW d \in OrDeliveries, NEW code \in ProtocolErrors, OuterCatch(d, code)
      PROVE  OrInv'
  <2> DEFINE invalid == code = "INVALID_MESSAGE"
             spec == IF ~invalid /\ orCall[d].committed THEN "INTERNAL_ERROR" ELSE "none"
             reply == IF invalid THEN "INVALID_ENVELOPE" ELSE "INTERNAL_ERROR"
             pc == IF spec = "none" THEN "done" ELSE "finish"
             c == [orCall[d] EXCEPT !.pc = pc, !.reply = reply, !.spec = spec]
  <2>0a. orCall[d] \in OrCallState /\ c \in OrCallState
    <3>1. spec \in CachedResponseSpec \cup {"none"} /\ pc \in OrPc /\ reply \in OrReply
      BY DEF CachedResponseSpec, OrPc, OrReply
    <3> QED BY <3>1, OrRespondType DEF OrInv, OrTypeOK
  <2>0b. orCall' = [orCall EXCEPT ![d] = c]
    BY <1>18 DEF OuterCatch, Cacheable, Respond, OrSet
  <2>0c. OrGrows
    BY <1>18 DEF OrInv, OrTypeOK, OrCallState, OrGrows, OuterCatch, Respond, Cacheable,
           CancelReservedRecords, OrSet, OrGoto, OrKeep
  <2>0d. /\ c.env = orCall[d].env /\ c.reply = reply /\ c.spec = spec /\ c.pc = pc
         /\ c.replayed = orCall[d].replayed /\ c.committed = orCall[d].committed
    BY <2>0a DEF OrCallState
  <2> HIDE DEF c
  <2>1. OrTypeOK'
    <3>1. CASE orCall[d].committed
      BY <1>18, <3>1, <2>0a, <2>0b DEF OrInv, OrTypeOK, OuterCatch, OrKeep
    <3>2. CASE ~orCall[d].committed
      BY <1>18, <3>2, <2>0a, <2>0b, OrCancels DEF OrInv, OrTypeOK, OuterCatch
    <3> QED BY <3>1, <3>2
  <2>2. OrClean'
    BY <1>18 DEF OrInv, OrTypeOK, OrCallState, OrClean, OrCommitted, OuterCatch, Respond, Cacheable,
             CancelReservedRecords, OrSet, OrGoto, OrKeep
  <2>3. OrCommitted'
    BY <1>18 DEF OrInv, OrTypeOK, OrCallState, OrCommitted, OuterCatch, Respond, Cacheable,
             CancelReservedRecords, OrSet, OrGoto, OrKeep
  <2>4. OrQuota'
    BY <1>18 DEF OrInv, OrTypeOK, OrCallState, OrClean, OrCommitted, OrQuota, Cancellable, OuterCatch,
             Respond, Cacheable, CancelReservedRecords, OrSet, OrGoto, OrKeep
  <2>5. OrTrue'
    <3>1. orCache' = orCache /\ (orCall[d].committed => orRuns'[orCall[d].env] # {}) /\ orCall[d].env \in OrEnvelopes
      BY <1>18, <2>0a DEF OrInv, OrTypeOK, OrCommitted, OrCallState, OuterCatch
    <3>2. OrTrueIn(orCall', orRecords', orRuns', c.env, spec)
      BY <2>0d, <3>1 DEF OrTrueIn
    <3>4. OrTrueIn(orCall', orRecords', orRuns', c.env, "INVALID_ENVELOPE")
      BY DEF OrTrueIn
    <3>3. ~c.replayed
      BY <1>18, <2>0d DEF OrInv, OrCommitted, OuterCatch
    <3> QED BY <2>0a, <2>0b, <2>0c, <2>0d, <3>1, <3>2, <3>3, <3>4, OrTrueMoves
  <2> QED BY <2>1, <2>2, <2>3, <2>4, <2>5 DEF OrInv
<1>19. ASSUME NEW d \in OrDeliveries, WriteCache(d)
      PROVE  OrInv'
  <2> DEFINE c == [orCall[d] EXCEPT !.pc = "done"]
  <2>0a. orCall[d] \in OrCallState /\ c \in OrCallState
    BY OrGotoType DEF OrInv, OrTypeOK, OrPc
  <2>0b. orCall' = [orCall EXCEPT ![d] = c]
    BY <1>19 DEF WriteCache, OrGoto, OrSet
  <2>0c. OrGrows
    BY <1>19 DEF OrInv, OrTypeOK, OrCallState, OrGrows, WriteCache, OrSet, OrGoto, OrKeep
  <2>0d. c.env = orCall[d].env /\ c.reply = orCall[d].reply /\ c.spec = orCall[d].spec /\ c.replayed = orCall[d].replayed
    BY <2>0a DEF OrCallState
  <2> HIDE DEF c
  <2>1. OrTypeOK'
    <3>1. orCall' \in [OrDeliveries -> OrCallState]
      BY <2>0a, <2>0b DEF OrInv, OrTypeOK
    <3>2. orCache' \in [OrEnvelopes -> CachedResponseSpec \cup {"none"}]
      BY <1>19, <2>0a DEF OrInv, OrTypeOK, OrCallState, WriteCache
    <3> QED BY <1>19, <3>1, <3>2 DEF OrInv, OrTypeOK, WriteCache, OrKeep
  <2>2. OrClean'
    BY <1>19 DEF OrInv, OrTypeOK, OrCallState, OrClean, OrCommitted, WriteCache, OrSet, OrGoto, OrKeep
  <2>3. OrCommitted'
    BY <1>19 DEF OrInv, OrTypeOK, OrCallState, OrCommitted, WriteCache, OrSet, OrGoto, OrKeep
  <2>4. OrQuota'
    BY <1>19 DEF OrInv, OrTypeOK, OrCallState, OrClean, OrCommitted, OrQuota, Cancellable, WriteCache,
             OrSet, OrGoto, OrKeep
  <2>5. OrTrue'
    <3>1. /\ orCall[d].env \in OrEnvelopes
          /\ orCache' = [orCache EXCEPT ![orCall[d].env] = orCall[d].spec]
      BY <1>19, <2>0a DEF WriteCache, OrCallState
    <3>2. ASSUME NEW f \in OrDeliveries
          PROVE  /\ orCall'[f].env = orCall[f].env /\ orCall'[f].env \in OrEnvelopes
                 /\ orCall'[f].reply = orCall[f].reply /\ orCall'[f].spec = orCall[f].spec
                 /\ orCall'[f].replayed = orCall[f].replayed
      BY <2>0b, <2>0d DEF OrInv, OrTypeOK, OrCallState
    <3>3. ASSUME NEW f \in OrDeliveries
          PROVE  /\ OrTrueIn(orCall', orRecords', orRuns', orCall'[f].env, orCall'[f].spec)
                 /\ orCall'[f].reply # "INTERNAL_ERROR" \/ orCall'[f].replayed =>
                       OrTrueIn(orCall', orRecords', orRuns', orCall'[f].env, orCall'[f].reply)
      BY <2>0c, <3>2, OrTrueStays DEF OrInv, OrTrue
    <3>4. ASSUME NEW e \in OrEnvelopes
          PROVE  OrTrueIn(orCall', orRecords', orRuns', e, orCache'[e])
      <4>1. orCache'[e] = IF e = orCall[d].env THEN orCall[d].spec ELSE orCache[e]
        BY <3>1 DEF OrInv, OrTypeOK
      <4> QED BY <2>0c, <4>1, OrTrueStays DEF OrInv, OrTrue
    <3> QED BY <3>3, <3>4 DEF OrTrue
  <2> QED BY <2>1, <2>2, <2>3, <2>4, <2>5 DEF OrInv
<1>20. ASSUME NEW d \in OrDeliveries, LateCacheWrite(d)
      PROVE  OrInv'
  <2>1. OrTypeOK'
    BY <1>20 DEF OrInv, OrTypeOK, OrCallState, OrReply, CachedResponseSpec, OrLimitIndex,
                 LateCacheWrite, OrSet, OrGoto, OrKeep
  <2>2. OrClean'
    BY <1>20 DEF OrInv, OrTypeOK, OrCallState, OrClean, OrCommitted, LateCacheWrite, OrSet,
                 OrGoto, OrKeep
  <2>3. OrCommitted'
    BY <1>20 DEF OrInv, OrTypeOK, OrCallState, OrCommitted, LateCacheWrite, OrSet, OrGoto, OrKeep
  <2>4. OrQuota'
    BY <1>20 DEF OrInv, OrTypeOK, OrCallState, OrClean, OrCommitted, OrQuota, Cancellable,
                 LateCacheWrite, OrSet, OrGoto, OrKeep
  <2>5. OrTrue'
    BY <1>20 DEF OrInv, OrTypeOK, OrCallState, OrReply, CachedResponseSpec, OrClean, OrCommitted,
                 OrTrue, OrTrueIn, LateCacheWrite, OrSet, OrGoto, OrKeep
  <2> QED BY <2>1, <2>2, <2>3, <2>4, <2>5 DEF OrInv
<1>21. ASSUME NEW d \in OrDeliveries, OrCrash(d)
      PROVE  OrInv'
  <2> DEFINE c == [orCall[d] EXCEPT !.pc = "dead"]
  <2>0a. orCall[d] \in OrCallState /\ c \in OrCallState
    BY OrGotoType DEF OrInv, OrTypeOK, OrPc
  <2>0b. orCall' = [orCall EXCEPT ![d] = c]
    BY <1>21 DEF OrCrash, OrGoto, OrSet
  <2>0c. OrGrows
    BY <1>21 DEF OrInv, OrTypeOK, OrCallState, OrGrows, OrCrash, OrSet, OrGoto, OrKeep
  <2>0d. c.env = orCall[d].env /\ c.reply = orCall[d].reply /\ c.spec = orCall[d].spec /\ c.replayed = orCall[d].replayed
    BY <2>0a DEF OrCallState
  <2> HIDE DEF c
  <2>1. OrTypeOK'
    BY <1>21, <2>0a, <2>0b DEF OrInv, OrTypeOK, OrCrash, OrKeep
  <2>2. OrClean'
    BY <1>21 DEF OrInv, OrTypeOK, OrCallState, OrClean, OrCommitted, OrCrash, OrSet, OrGoto, OrKeep
  <2>3. OrCommitted'
    BY <1>21 DEF OrInv, OrTypeOK, OrCallState, OrCommitted, OrCrash, OrSet, OrGoto, OrKeep
  <2>4. OrQuota'
    BY <1>21 DEF OrInv, OrTypeOK, OrCallState, OrClean, OrCommitted, OrQuota, Cancellable, OrCrash, OrSet,
             OrGoto, OrKeep
  <2>5. OrTrue'
    <3>1. orCall[d].env \in OrEnvelopes
      BY <2>0a DEF OrCallState
    <3>2. orCache' = orCache
      BY <1>21 DEF OrCrash
    <3> QED BY <2>0a, <2>0b, <2>0c, <2>0d, <3>1, <3>2, OrTrueStays, OrTrueMoves DEF OrInv, OrTrue
  <2> QED BY <2>1, <2>2, <2>3, <2>4, <2>5 DEF OrInv
<1>22. ASSUME NEW e \in OrEnvelopes, CacheExpires(e)
      PROVE  OrInv'
  <2>1. OrTypeOK'
    BY <1>22 DEF OrInv, OrTypeOK, OrCallState, OrReply, CachedResponseSpec, OrLimitIndex,
                 CacheExpires, OrSet, OrGoto, OrKeep
  <2>2. OrClean'
    BY <1>22 DEF OrInv, OrTypeOK, OrCallState, OrClean, OrCommitted, CacheExpires, OrSet, OrGoto,
                 OrKeep
  <2>3. OrCommitted'
    BY <1>22 DEF OrInv, OrTypeOK, OrCallState, OrCommitted, CacheExpires, OrSet, OrGoto, OrKeep
  <2>4. OrQuota'
    BY <1>22 DEF OrInv, OrTypeOK, OrCallState, OrClean, OrCommitted, OrQuota, Cancellable,
                 CacheExpires, OrSet, OrGoto, OrKeep
  <2>5. OrTrue'
    BY <1>22 DEF OrInv, OrTypeOK, OrCallState, OrReply, CachedResponseSpec, OrClean, OrCommitted,
                 OrTrue, OrTrueIn, CacheExpires, OrSet, OrGoto, OrKeep
  <2> QED BY <2>1, <2>2, <2>3, <2>4, <2>5 DEF OrInv
<1>23. CASE UNCHANGED orVars
  <2>1. OrTypeOK' /\ OrClean' /\ OrCommitted'
    BY <1>23 DEF OrInv, OrTypeOK, OrClean, OrCommitted, orVars
  <2>2. OrQuota'
    BY <1>23 DEF OrInv, OrQuota, Cancellable, orVars
  <2>3. OrTrue'
    BY <1>23 DEF OrInv, OrTrue, orVars
  <2> QED BY <2>1, <2>2, <2>3 DEF OrInv
<1> QED BY <1>1, <1>2, <1>3, <1>4, <1>5, <1>6, <1>6u, <1>7, <1>8, <1>9, <1>10, <1>11, <1>12, <1>13,
           <1>14, <1>15, <1>16, <1>17, <1>18, <1>19, <1>20, <1>21, <1>22, <1>23
           DEF OrNext

LEMMA OrStart == OrInit => OrInv
<1> SUFFICES ASSUME OrInit PROVE OrInv
  OBVIOUS
<1>1. \A d \in OrDeliveries : orCall[d] = NewDelivery
  BY DEF OrInit
<1>2. OrTypeOK
  BY OrNewType DEF OrInit, OrTypeOK
<1>3. NewDelivery.pc = "new" /\ ~NewDelivery.committed /\ NewDelivery.reply = "none"
      /\ NewDelivery.spec = "none" /\ ~NewDelivery.replayed
  BY DEF NewDelivery
<1>4. OrClean /\ OrCommitted
  BY <1>1, <1>3 DEF OrInit, OrClean, OrCommitted
<1>5. OrQuota
  BY <1>1, <1>3 DEF OrInit, OrQuota
<1>6. OrTrue
  BY <1>1, <1>3 DEF OrInit, OrTrue, OrTrueIn
<1> QED BY <1>2, <1>4, <1>5, <1>6 DEF OrInv

\* A delivery is committed exactly when its business ran, a refused one has cancelled what it
\* could of its reservations, and what is answered or cached is true of the records
\* (handleEnvelope, cancelReservedRecords).
THEOREM OrchestratorKeepsQuota == OrSpec => []OrInv
BY OrStart, OrStep, PTL DEF OrSpec

LEMMA OrInvSuffices == OrInv => OrTypeOK /\ QuotaFollowsBusiness /\ RepliesAreTrue
<1> SUFFICES ASSUME OrInv PROVE QuotaFollowsBusiness /\ RepliesAreTrue
  BY DEF OrInv
<1>1. QuotaFollowsBusiness
  <2> SUFFICES ASSUME NEW d \in OrDeliveries, orCall[d].pc = "done"
               PROVE  IF d \in orRuns[orCall[d].env]
                      THEN \A i \in OrLimitIndex : orReserved[d][i] # "CANCELLED"
                      ELSE \A i \in Cancellable(d) : <<d, i>> \in orUncancelled
    BY DEF QuotaFollowsBusiness
  <2>1. d \in orRuns[orCall[d].env] <=> orCall[d].committed
    BY DEF OrInv, OrTypeOK, OrCallState, OrCommitted
  <2> QED BY <2>1 DEF OrInv, OrQuota
<1>2. RepliesAreTrue
  BY DEF OrInv, OrTypeOK, OrCallState, OrTrue, OrTrueIn, RepliesAreTrue
<1> QED BY <1>1, <1>2

-----------------------------------------------------------------------------
(* Cumulative limits.  A call that has read a total and holds its advisory *)
(* lock knows a bound on the live reservations of its metric and window    *)
(* that are not younger than its now: no other call can commit one of that *)
(* metric and window.  A committed reservation keeps that bound over those *)
(* committed before it.                                                    *)

KeyOf(k) == <<Head(k.todo), WindowStart(k.now)>>

Holding(k) == k.pc \in {"check", "insert", "commit"}

Writing(k) == k.pc = "commit" /\ k.wrote = TRUE

\* the live reservations of a metric and a window that are no younger than t
Earlier(m, w, t) == {s \in Reserved(m, w) : ctRows[s].at <= t /\ Live(s)}

\* what a request and a settlement know
CallFits(k) ==
    /\ k.to \in {"SETTLED", "RELEASED"}
    /\ k.pc \in {"find", "lock", "check", "insert", "commit"} => k.rid \in RecordIds /\ k.todo # <<>>
    /\ k.pc = "settle" =>
         /\ k.rid \in RecordIds /\ ctRows[k.rid].type = "reserve"
         /\ Counts(ctRows[k.rid].metric) => k.to = "SETTLED"
         /\ ~ Counts(ctRows[k.rid].metric) /\ k.to = "SETTLED" =>
              ctRows[k.rid].cum + k.amount <= LimitMax[ctRows[k.rid].metric]
    /\ k.pc \in {"insert", "commit"} =>
         /\ Total(Head(k.todo), Earlier(Head(k.todo), WindowStart(k.now), k.now)) <= k.cum
         /\ k.cum + ReserveAmount(Head(k.todo), k.amount) <= LimitMax[Head(k.todo)]
    /\ Writing(k) => ctRows[k.rid].type = "none"

\* two calls hold different locks and write different rows
Apart(k, l) ==
    /\ Holding(k) /\ Holding(l) => KeyOf(k) # KeyOf(l)
    /\ Writing(k) /\ Writing(l) => k.rid # l.rid

\* the live reservations that were committed before r and are no younger
Prior(r) == {s \in Earlier(ctRows[r].metric, WindowStart(ctRows[r].at), ctRows[r].at) :
               ctRows[s].seq < ctRows[r].seq}

RowFits(r) ==
    ctRows[r].type = "reserve" =>
      /\ Counts(ctRows[r].metric) => ctRows[r].amount = 1
      /\ ctRows[r].cum + ctRows[r].amount <= LimitMax[ctRows[r].metric]
      /\ ctRows[r].status = "SETTLED" /\ ~ Counts(ctRows[r].metric) =>
           ctRows[r].cum + ctRows[r].settled <= LimitMax[ctRows[r].metric]
      /\ Counts(ctRows[r].metric) => ctRows[r].status \in {"PENDING", "SETTLED"}
      /\ Total(ctRows[r].metric, Prior(r)) <= ctRows[r].cum

CtInOrder ==
    /\ \A r \in Present : ctRows[r].seq \in 1..Cardinality(Present)
    /\ \A r, s \in Present : ctRows[r].seq = ctRows[s].seq => r = s

CtInv ==
    /\ CtTypeOK
    /\ \A c \in Calls, k \in Call : call[c] = k => CallFits(k)
    /\ \A c, d \in Calls : c # d => Apart(call[c], call[d])
    /\ \A r \in RecordIds : RowFits(r)
    /\ CtInOrder

\* what a step does to a row that is there
RowKept(r) ==
    /\ ctRows'[r].type = ctRows[r].type /\ ctRows'[r].metric = ctRows[r].metric
    /\ ctRows'[r].amount = ctRows[r].amount /\ ctRows'[r].cum = ctRows[r].cum
    /\ ctRows'[r].at = ctRows[r].at /\ ctRows'[r].seq = ctRows[r].seq
    /\ ctRows'[r].status = "PENDING" => ctRows[r].status = "PENDING"
    /\ ctRows[r].type = "action" => ctRows'[r] = ctRows[r]

RowsKept ==
    /\ \A r \in Present : RowKept(r)
    /\ ctClock' >= ctClock

\* computeWindowStart gives no later time.
LEMMA WindowStartType ==
    ASSUME NEW t \in Nat
    PROVE  WindowStart(t) \in Nat /\ WindowStart(t) <= t
<1>1. WindowLength \in Nat /\ WindowLength > 0
  BY TrackerAssumption
<1>2. t \div WindowLength \in Nat
  BY <1>1
<1>3. (t \div WindowLength) * WindowLength + (t % WindowLength) = t /\ t % WindowLength \in Nat
  BY <1>1
<1>4. (t \div WindowLength) * WindowLength \in Nat
  BY <1>1, <1>2
<1> QED BY <1>3, <1>4 DEF WindowStart

LEMMA CtRowFields ==
    ASSUME NEW x \in CtRow
    PROVE  /\ x.type \in {"none", "reserve", "action"} /\ x.status \in CtStatus /\ x.metric \in Metrics
           /\ x.amount \in Nat /\ x.cum \in Nat /\ x.at \in Nat /\ x.settled \in Nat /\ x.seq \in Nat
BY DEF CtRow

LEMMA CallFields ==
    ASSUME NEW k \in Call
    PROVE  /\ k.pc \in {"idle", "find", "lock", "check", "insert", "commit", "settle"}
           /\ k.rid \in RecordIds \cup {0} /\ k.todo \in Seq(Metrics)
           /\ k.amount \in Nat /\ k.now \in Nat /\ k.cum \in Nat /\ k.wrote \in BOOLEAN /\ k.to \in CtStatus
BY DEF Call

\* A row or a reservation has a worth.
LEMMA WorthType ==
    ASSUME CtTypeOK, NEW m
    PROVE  \A r \in RecordIds : Worth(m)[r] \in Nat
<1>1. \A r \in RecordIds : ctRows[r] \in CtRow
  BY DEF CtTypeOK
<1>2. \A r \in RecordIds : ctRows[r].amount \in Nat
  BY <1>1, CtRowFields
<1> QED BY <1>2 DEF Worth

\* A total over fewer rows of the same worth is no larger.
LEMMA TotalLess ==
    ASSUME CtTypeOK, NEW m, NEW S \in SUBSET RecordIds, NEW T \in SUBSET S,
           NEW g, \A r \in T : g[r] = Worth(m)[r]
    PROVE  SumFunctionOnSet(g, T) <= Total(m, S) /\ Total(m, S) \in Nat
<1> DEFINE f == Worth(m)
<1>1. \A r \in S : f[r] \in Nat
  BY WorthType
<1>2. IsFiniteSet(S)
  BY TrackerAssumption, FS_Subset
<1>3. \A r \in T : g[r] = f[r]
  OBVIOUS
<1>4. Total(m, S) = SumFunctionOnSet(f, S)
  BY DEF Total
<1> HIDE DEF f
<1>5. SumFunctionOnSet(g, T) <= SumFunctionOnSet(f, S)
  BY <1>1, <1>2, <1>3, SumLess
<1>6. SumFunctionOnSet(f, S) \in Nat
  BY <1>1, <1>2, SumNat
<1> QED BY <1>4, <1>5, <1>6

-----------------------------------------------------------------------------
(* A step that keeps the rows keeps what calls and rows know.              *)

LEMMA LiveKept ==
    ASSUME CtTypeOK, CtTypeOK', RowsKept, NEW r \in Present, Live(r)'
    PROVE  Live(r)
<1>1. ctRows[r] \in CtRow /\ ctRows'[r] \in CtRow /\ RowKept(r) /\ r \in RecordIds
  BY DEF CtTypeOK, RowsKept, Present
<1>2. ctRows[r].at \in Nat /\ ctRows'[r].at \in Nat
  BY <1>1, CtRowFields
<1>3. ctRows'[r].status = "PENDING" /\ ctRows'[r].at >= ctClock' - PendingTTL
  BY DEF Live
<1>4. ctRows[r].status = "PENDING" /\ ctRows[r].at = ctRows'[r].at
  BY <1>1, <1>3 DEF RowKept
<1>5. ctClock \in Nat /\ ctClock' \in Nat /\ ctClock' >= ctClock /\ PendingTTL \in Nat
  BY TrackerAssumption DEF CtTypeOK, RowsKept
<1> QED BY <1>2, <1>3, <1>4, <1>5 DEF Live

\* No reservation of this metric and window is new.
NoneNew(m, w, t) ==
    \A r \in RecordIds : /\ ctRows[r].type = "none" /\ ctRows'[r].type = "reserve"
                         /\ ctRows'[r].metric = m /\ WindowStart(ctRows'[r].at) = w
                         => ~ (ctRows'[r].at <= t)

LEMMA EarlierKept ==
    ASSUME CtTypeOK, CtTypeOK', RowsKept, NEW m, NEW w, NEW t, NoneNew(m, w, t)
    PROVE  /\ Earlier(m, w, t)' \subseteq Earlier(m, w, t)
           /\ \A s \in Earlier(m, w, t)' : s \in Present /\ Worth(m)'[s] = Worth(m)[s]
<1> SUFFICES ASSUME NEW s \in Earlier(m, w, t)'
             PROVE  s \in Earlier(m, w, t) /\ s \in Present /\ Worth(m)'[s] = Worth(m)[s]
  OBVIOUS
<1>1. /\ s \in RecordIds /\ ctRows'[s].type = "reserve" /\ ctRows'[s].metric = m
      /\ WindowStart(ctRows'[s].at) = w /\ ctRows'[s].at <= t /\ Live(s)'
  BY DEF Earlier, Reserved, WindowStart
<1>2. ctRows[s].type # "none"
  BY <1>1 DEF NoneNew
<1>3. s \in Present
  BY <1>1, <1>2 DEF Present
<1>4. RowKept(s)
  BY <1>3 DEF RowsKept
<1>5. Live(s)
  BY <1>1, <1>3, LiveKept
<1>6. s \in Earlier(m, w, t)
  BY <1>1, <1>4, <1>5 DEF RowKept, Earlier, Reserved
<1>7. Worth(m)'[s] = Worth(m)[s]
  BY <1>1, <1>4 DEF RowKept, Worth
<1> QED BY <1>3, <1>6, <1>7

LEMMA CallFitsKept ==
    ASSUME CtTypeOK, CtTypeOK', RowsKept, NEW k \in Call, CallFits(k),
           k.pc \in {"insert", "commit"} => NoneNew(Head(k.todo), WindowStart(k.now), k.now),
           Writing(k) => ctRows'[k.rid].type = "none"
    PROVE  CallFits(k)'
<1>1. k.pc = "settle" => /\ RowKept(k.rid)
                         /\ k.rid \in RecordIds /\ ctRows'[k.rid].type = "reserve"
  BY DEF CallFits, RowsKept, Present, RowKept
<1>2. ASSUME k.pc \in {"insert", "commit"}
      PROVE  Total(Head(k.todo), Earlier(Head(k.todo), WindowStart(k.now), k.now))' <= k.cum
  <2> DEFINE m == Head(k.todo)
             w == WindowStart(k.now)
             S == Earlier(m, w, k.now)
             T == Earlier(m, w, k.now)'
             g == Worth(m)'
  <2>1. T \subseteq S /\ \A s \in T : g[s] = Worth(m)[s]
    BY <1>2, EarlierKept
  <2>2. S \in SUBSET RecordIds
    BY DEF Earlier, Reserved
  <2>3. Total(m, S) <= k.cum
    BY <1>2 DEF CallFits
  <2>4. Total(m, Earlier(m, w, k.now))' = SumFunctionOnSet(g, T)
    BY DEF Total
  <2>5. SumFunctionOnSet(g, T) \in Nat
    <3>1. \A r \in RecordIds : g[r] \in Nat
      <4>1. \A r \in RecordIds : ctRows'[r] \in CtRow
        BY DEF CtTypeOK
      <4>2. \A r \in RecordIds : ctRows'[r].amount \in Nat
        BY <4>1, CtRowFields
      <4> QED BY <4>2 DEF Worth
    <3>2. T \in SUBSET RecordIds /\ IsFiniteSet(T)
      BY <2>1, <2>2, TrackerAssumption, FS_Subset
    <3> HIDE DEF g, T
    <3> QED BY <3>1, <3>2, SumNat
  <2> HIDE DEF g, S, T
  <2>6. SumFunctionOnSet(g, T) <= Total(m, S) /\ Total(m, S) \in Nat
    BY <2>1, <2>2, TotalLess
  <2>7. k.cum \in Nat
    BY CallFields
  <2>8. SumFunctionOnSet(g, T) <= k.cum
    BY <2>3, <2>5, <2>6, <2>7
  <2>9. w' = w
    BY DEF WindowStart
  <2> QED BY <2>4, <2>8
<1>3. k.pc \in {"insert", "commit"} => k.cum + ReserveAmount(Head(k.todo), k.amount) <= LimitMax[Head(k.todo)]
  BY DEF CallFits
<1>4. k.pc = "settle" =>
         /\ Counts(ctRows'[k.rid].metric) => k.to = "SETTLED"
         /\ ~ Counts(ctRows'[k.rid].metric) /\ k.to = "SETTLED" =>
              ctRows'[k.rid].cum + k.amount <= LimitMax[ctRows'[k.rid].metric]
  BY <1>1 DEF CallFits, RowKept
<1>5. /\ k.to \in {"SETTLED", "RELEASED"}
      /\ k.pc \in {"find", "lock", "check", "insert", "commit"} => k.rid \in RecordIds /\ k.todo # <<>>
  BY DEF CallFits
<1>6. Writing(k)' <=> Writing(k)
  BY DEF Writing
<1> QED BY <1>1, <1>2, <1>3, <1>4, <1>5, <1>6, Zenon DEF CallFits, Counts, ReserveAmount

\* New rows come after those that are there.
NewAtEnd == \A r \in RecordIds : ctRows[r].type = "none" /\ ctRows'[r].type # "none" =>
                                   ctRows'[r].seq > Cardinality(Present)

LEMMA PriorKept ==
    ASSUME CtInv, CtTypeOK', RowsKept, NewAtEnd, NEW r \in RecordIds, ctRows[r].type = "reserve"
    PROVE  Total(ctRows[r].metric, Prior(r))' <= ctRows'[r].cum
<1> DEFINE m == ctRows[r].metric
           S == Prior(r)
           T == Prior(r)'
           g == Worth(m)'
<1>1. r \in Present /\ RowKept(r) /\ CtTypeOK
  BY DEF Present, RowsKept, CtInv
<1>2. ctRows'[r].metric = m /\ ctRows'[r].at = ctRows[r].at /\ ctRows'[r].seq = ctRows[r].seq /\ ctRows'[r].cum = ctRows[r].cum
  BY <1>1 DEF RowKept
<1>3. ctRows[r].seq \in Nat /\ ctRows[r].seq <= Cardinality(Present) /\ Cardinality(Present) \in Nat
  <2>1. IsFiniteSet(Present)
    BY TrackerAssumption, FS_Subset DEF Present
  <2> QED BY <1>1, <2>1, FS_CardinalityType DEF CtInv, CtInOrder
<1>4. ASSUME NEW s \in T PROVE s \in S /\ g[s] = Worth(m)[s]
  <2>1. /\ s \in RecordIds /\ ctRows'[s].type = "reserve" /\ ctRows'[s].metric = m
        /\ WindowStart(ctRows'[s].at) = WindowStart(ctRows[r].at) /\ ctRows'[s].at <= ctRows[r].at /\ Live(s)'
        /\ ctRows'[s].seq < ctRows[r].seq
    BY <1>2 DEF Prior, Earlier, Reserved, WindowStart
  <2>2. ctRows'[s].seq \in Nat
    <3>1. ctRows'[s] \in CtRow
      BY <2>1 DEF CtTypeOK
    <3> QED BY <3>1, CtRowFields
  <2>3. s \in Present
    BY <1>3, <2>1, <2>2 DEF NewAtEnd, Present
  <2>4. RowKept(s)
    BY <2>3 DEF RowsKept
  <2>5. Live(s)
    BY <1>1, <2>1, <2>3, LiveKept
  <2>6. s \in S
    BY <2>1, <2>4, <2>5 DEF RowKept, Prior, Earlier, Reserved
  <2>7. g[s] = Worth(m)[s]
    BY <1>2, <2>1, <2>4 DEF RowKept, Worth
  <2> QED BY <2>6, <2>7
<1>5. S \in SUBSET RecordIds
  BY DEF Prior, Earlier, Reserved
<1>6. Total(m, S) <= ctRows[r].cum
  BY DEF CtInv, RowFits
<1>7. Total(ctRows[r].metric, Prior(r))' = SumFunctionOnSet(g, T)
  BY <1>2 DEF Total
<1>8. \A x \in RecordIds : g[x] \in Nat
  <2>1. \A x \in RecordIds : ctRows'[x] \in CtRow
    BY DEF CtTypeOK
  <2>2. \A x \in RecordIds : ctRows'[x].amount \in Nat
    BY <2>1, CtRowFields
  <2> QED BY <2>2 DEF Worth
<1>9. ctRows[r].cum \in Nat
  <2>1. ctRows[r] \in CtRow
    BY <1>1 DEF CtTypeOK
  <2> QED BY <2>1, CtRowFields
<1> HIDE DEF g, S, T
<1>10. T \in SUBSET S /\ IsFiniteSet(T) /\ T \in SUBSET RecordIds
  BY <1>4, <1>5, TrackerAssumption, FS_Subset
<1>11. SumFunctionOnSet(g, T) \in Nat
  BY <1>8, <1>10, SumNat
<1>12. SumFunctionOnSet(g, T) <= Total(m, S) /\ Total(m, S) \in Nat
  BY <1>1, <1>4, <1>5, <1>10, TotalLess
<1> QED BY <1>2, <1>6, <1>7, <1>9, <1>11, <1>12

-----------------------------------------------------------------------------
(* The steps of a call: one call changes, the rows do not.                 *)

\* everything a call's new state must satisfy
Joins(c, k) ==
    /\ k \in Call /\ CallFits(k)
    /\ \A d \in Calls : d # c => Apart(k, call[d]) /\ Apart(call[d], k)

LEMMA CallStep ==
    ASSUME CtInv, NEW c \in Calls, NEW k, Joins(c, k),
           call' = [call EXCEPT ![c] = k], passed' \in [RecordIds -> SUBSET Metrics],
           UNCHANGED <<ctRows, ctClock>>
    PROVE  CtInv'
<1>1. CtTypeOK'
  BY DEF CtInv, CtTypeOK, Joins
<1>2. \A d \in Calls : call'[d] = IF d = c THEN k ELSE call[d]
  BY DEF CtInv, CtTypeOK
<1>3. \A l : CallFits(l)' <=> CallFits(l)
  BY DEF CallFits, Total, Worth, Earlier, Reserved, Live, Writing, WindowStart, Counts, ReserveAmount
<1>4. \A d \in Calls, l \in Call : call'[d] = l => CallFits(l)'
  <2>1. ASSUME NEW d \in Calls, NEW l \in Call, call'[d] = l PROVE CallFits(l)
    BY <1>2, <2>1 DEF CtInv, Joins
  <2> HIDE DEF CallFits
  <2> QED BY <1>3, <2>1
<1>5. \A d, e \in Calls : d # e => Apart(call'[d], call'[e])
  BY <1>2 DEF CtInv, Joins
<1>6. \A r \in RecordIds : RowFits(r)'
  BY DEF CtInv, RowFits, Total, Worth, Prior, Earlier, Reserved, Live
<1>7. CtInOrder'
  BY DEF CtInv, CtInOrder, Present
<1>8. \A d, e \in Calls : d # e => Apart(call[d], call[e])'
  BY <1>5 DEF Apart, KeyOf, Holding, Writing, WindowStart
<1> QED BY <1>1, <1>4, <1>6, <1>7, <1>8 DEF CtInv

\* A call that holds no lock and writes nothing is in nobody's way.
LEMMA FreeCallJoins ==
    ASSUME NEW c \in Calls, NEW k \in Call, CallFits(k), ~ Holding(k)
    PROVE  Joins(c, k)
BY DEF Joins, Apart, Holding, Writing

LEMMA NoCallJoins ==
    ASSUME NEW c \in Calls
    PROVE  Joins(c, NoCall)
<1>1. NoCall \in Call
  BY DEF NoCall, Call, CtStatus
<1>2. CallFits(NoCall) /\ ~ Holding(NoCall)
  BY DEF NoCall, CallFits, Holding, Writing
<1> QED BY <1>1, <1>2, FreeCallJoins

LEMMA RequestJoins ==
    ASSUME NEW c \in Calls, NEW rid \in RecordIds, NEW todo \in Seq(Metrics), todo # <<>>,
           NEW amount \in Nat, NEW now \in Nat
    PROVE  Joins(c, Request(rid, todo, amount, now))
<1>1. Request(rid, todo, amount, now) \in Call
  BY DEF Request, Call, CtStatus
<1>2. CallFits(Request(rid, todo, amount, now)) /\ ~ Holding(Request(rid, todo, amount, now))
  BY DEF Request, CallFits, Holding, Writing
<1> QED BY <1>1, <1>2, FreeCallJoins

\* A call that goes on knows its record id and has a limit to pass.
LEMMA CallHas ==
    ASSUME CtInv, NEW c \in Calls
    PROVE  /\ call[c] \in Call /\ CallFits(call[c])
           /\ call[c].pc \in {"find", "lock", "check", "insert", "commit"} =>
                /\ call[c].rid \in RecordIds /\ call[c].todo # <<>>
                /\ Head(call[c].todo) \in Metrics /\ Tail(call[c].todo) \in Seq(Metrics)
                /\ Len(call[c].todo) > 1 => Tail(call[c].todo) # <<>>
<1>1. call[c] \in Call /\ CallFits(call[c])
  BY DEF CtInv, CtTypeOK
<1>2. call[c].todo \in Seq(Metrics)
  BY <1>1, CallFields
<1>3. call[c].pc \in {"find", "lock", "check", "insert", "commit"} =>
         call[c].rid \in RecordIds /\ call[c].todo # <<>>
  BY <1>1 DEF CallFits
<1> DEFINE q == call[c].todo
<1>4. q # <<>> => Head(q) \in Metrics /\ Tail(q) \in Seq(Metrics) /\ Len(Tail(q)) = Len(q) - 1
  <2>1. q \in Seq(Metrics)
    BY <1>2
  <2> HIDE DEF q
  <2> QED BY <2>1
<1>5. Len(q) > 1 /\ q # <<>> => Tail(q) # <<>>
  <2>1. ASSUME NEW t \in Seq(Metrics), Len(t) > 0 PROVE t # <<>>
    BY <2>1
  <2>2. Len(q) \in Nat
    BY <1>2
  <2>3. Len(q) > 1 /\ q # <<>> => Len(Tail(q)) > 0 /\ Tail(q) \in Seq(Metrics)
    BY <1>4, <2>2
  <2> HIDE DEF q
  <2> QED BY <2>1, <2>3
<1> QED BY <1>1, <1>3, <1>4, <1>5

\* The tracker's answer, as far as the calls go.
LEMMA AnswerJoins ==
    ASSUME CtInv, NEW c \in Calls, NEW allowed \in BOOLEAN, Answer(c, allowed),
           call[c].pc \in {"find", "lock", "check", "insert", "commit"}
    PROVE  /\ passed' \in [RecordIds -> SUBSET Metrics]
           /\ \E k : call' = [call EXCEPT ![c] = k] /\ Joins(c, k) /\ ~ Holding(k) /\ k.pc \in {"idle", "find"}
<1>1. /\ call[c].rid \in RecordIds /\ Head(call[c].todo) \in Metrics
      /\ call[c].amount \in Nat /\ call[c].now \in Nat
  BY CallHas, CallFields
<1>2. passed' \in [RecordIds -> SUBSET Metrics]
  <2> DEFINE v == IF allowed THEN passed[call[c].rid] \cup {Head(call[c].todo)} ELSE passed[call[c].rid]
  <2>1. v \in SUBSET Metrics
    BY <1>1 DEF CtInv, CtTypeOK
  <2>2. passed' = [passed EXCEPT ![call[c].rid] = v]
    BY DEF Answer
  <2> HIDE DEF v
  <2> QED BY <2>1, <2>2 DEF CtInv, CtTypeOK
<1> DEFINE n == Request(call[c].rid, Tail(call[c].todo), call[c].amount, call[c].now)
<1>3. call' = [call EXCEPT ![c] = IF allowed /\ Len(call[c].todo) > 1 THEN n ELSE NoCall]
  BY DEF Answer, CtInv, CtTypeOK
<1>4. Joins(c, NoCall) /\ ~ Holding(NoCall) /\ NoCall.pc = "idle"
  BY NoCallJoins DEF Holding, NoCall
<1>5. Len(call[c].todo) > 1 => Joins(c, n)
  BY <1>1, CallHas, RequestJoins
<1>6. ~ Holding(n) /\ n.pc = "find"
  BY DEF Holding, Request
<1> HIDE DEF n
<1>7. CASE allowed /\ Len(call[c].todo) > 1
  BY <1>2, <1>3, <1>5, <1>6, <1>7
<1>8. CASE ~ (allowed /\ Len(call[c].todo) > 1)
  <2>1. call' = [call EXCEPT ![c] = NoCall]
    BY <1>3, <1>8
  <2> HIDE DEF NoCall
  <2> QED BY <1>2, <1>4, <2>1
<1> QED BY <1>7, <1>8

-----------------------------------------------------------------------------
(* Step by step.                                                           *)

LEMMA AtFields ==
    ASSUME NEW k \in Call, NEW pc \in {"idle", "find", "lock", "check", "insert", "commit", "settle"}
    PROVE  /\ At(k, pc) \in Call /\ At(k, pc).pc = pc /\ At(k, pc).rid = k.rid /\ At(k, pc).todo = k.todo
           /\ At(k, pc).amount = k.amount /\ At(k, pc).now = k.now /\ At(k, pc).cum = k.cum
           /\ At(k, pc).wrote = k.wrote /\ At(k, pc).to = k.to
BY DEF At, Call

LEMMA WithCumFields ==
    ASSUME NEW k \in Call, NEW n \in Nat
    PROVE  /\ [k EXCEPT !.cum = n] \in Call /\ [k EXCEPT !.cum = n].pc = k.pc
           /\ [k EXCEPT !.cum = n].rid = k.rid /\ [k EXCEPT !.cum = n].todo = k.todo
           /\ [k EXCEPT !.cum = n].amount = k.amount /\ [k EXCEPT !.cum = n].now = k.now
           /\ [k EXCEPT !.cum = n].cum = n /\ [k EXCEPT !.cum = n].wrote = k.wrote /\ [k EXCEPT !.cum = n].to = k.to
BY DEF Call

LEMMA WithWroteFields ==
    ASSUME NEW k \in Call, NEW b \in BOOLEAN
    PROVE  /\ [k EXCEPT !.wrote = b] \in Call /\ [k EXCEPT !.wrote = b].pc = k.pc
           /\ [k EXCEPT !.wrote = b].rid = k.rid /\ [k EXCEPT !.wrote = b].todo = k.todo
           /\ [k EXCEPT !.wrote = b].amount = k.amount /\ [k EXCEPT !.wrote = b].now = k.now
           /\ [k EXCEPT !.wrote = b].cum = k.cum /\ [k EXCEPT !.wrote = b].wrote = b /\ [k EXCEPT !.wrote = b].to = k.to
BY DEF Call

LEMMA EvaluateLimitsStep ==
    ASSUME CtInv, NEW c \in Calls, NEW rid \in RecordIds, NEW limits \in Limits, NEW amount \in Amounts,
           EvaluateLimits(c, rid, limits, amount)
    PROVE  CtInv'
<1>1. limits \in Seq(Metrics) /\ limits # <<>> /\ amount \in Nat /\ ctClock \in Nat
  BY TrackerAssumption DEF CtInv, CtTypeOK
<1>2. Joins(c, Request(rid, limits, amount, ctClock))
  BY <1>1, RequestJoins
<1>3. /\ call' = [call EXCEPT ![c] = Request(rid, limits, amount, ctClock)]
      /\ passed' \in [RecordIds -> SUBSET Metrics] /\ UNCHANGED <<ctRows, ctClock>>
  BY DEF EvaluateLimits, CtInv, CtTypeOK
<1> QED BY <1>2, <1>3, CallStep

LEMMA FindReservationStep ==
    ASSUME CtInv, NEW c \in Calls, FindReservation(c)
    PROVE  CtInv'
<1> DEFINE row == ctRows[call[c].rid]
<1>1. call[c] \in Call /\ call[c].pc = "find" /\ UNCHANGED <<ctRows, ctClock>> /\ CallFits(call[c])
  BY CallHas DEF FindReservation
<1>2. CASE row.type = "reserve"
  <2> DEFINE fits == row.cum + row.amount <= LimitMax[row.metric]
  <2>1. Answer(c, fits) /\ fits \in BOOLEAN
    BY <1>2 DEF FindReservation
  <2> HIDE DEF fits
  <2>2. PICK k : call' = [call EXCEPT ![c] = k] /\ Joins(c, k)
    BY <1>1, <2>1, AnswerJoins
  <2>3. passed' \in [RecordIds -> SUBSET Metrics]
    BY <1>1, <2>1, AnswerJoins
  <2> QED BY <1>1, <2>2, <2>3, CallStep
<1>3. CASE row.type # "reserve"
  <2> DEFINE k == At(call[c], "lock")
  <2>1. call' = [call EXCEPT ![c] = k] /\ passed' \in [RecordIds -> SUBSET Metrics]
    BY <1>3 DEF FindReservation, CtInv, CtTypeOK
  <2>2. k \in Call /\ k.pc = "lock" /\ k.rid = call[c].rid /\ k.todo = call[c].todo /\ k.to = call[c].to
    BY <1>1, AtFields
  <2> HIDE DEF k
  <2>3. CallFits(k) /\ ~ Holding(k)
    BY <1>1, <2>2 DEF CallFits, Holding, Writing
  <2> QED BY <1>1, <2>1, <2>2, <2>3, FreeCallJoins, CallStep
<1> QED BY <1>2, <1>3

LEMMA CtAcquireAdvisoryLockStep ==
    ASSUME CtInv, NEW c \in Calls, CtAcquireAdvisoryLock(c)
    PROVE  CtInv'
<1> DEFINE k == At(call[c], "check")
<1>1. /\ call[c] \in Call /\ call[c].pc = "lock" /\ UNCHANGED <<ctRows, ctClock>> /\ CallFits(call[c])
      /\ call' = [call EXCEPT ![c] = k] /\ passed' \in [RecordIds -> SUBSET Metrics]
  BY CallHas DEF CtAcquireAdvisoryLock, CtInv, CtTypeOK
<1>2. k \in Call /\ k.pc = "check" /\ k.rid = call[c].rid /\ k.todo = call[c].todo /\ k.to = call[c].to /\ k.now = call[c].now
  BY <1>1, AtFields
<1> HIDE DEF k
<1>3. CallFits(k) /\ ~ Writing(k)
  BY <1>1, <1>2 DEF CallFits, Writing
<1>4. \A d \in Calls : Holding(call[d]) => KeyOf(call[d]) # KeyOf(k)
  BY <1>2 DEF CtAcquireAdvisoryLock, HoldsLock, Holding, LockKey, KeyOf
<1>5. Joins(c, k)
  BY <1>2, <1>3, <1>4 DEF Joins, Apart
<1> QED BY <1>1, <1>5, CallStep

\* What the aggregate adds up covers the live reservations of the window.
LEMMA AggregateCovers ==
    ASSUME CtTypeOK, NEW m, NEW now \in Nat
    PROVE  Total(m, Earlier(m, WindowStart(now), now)) <= Aggregate(m, now) /\ Aggregate(m, now) \in Nat
<1> DEFINE S == {r \in Present : InAggregate(r, now)}
           T == Earlier(m, WindowStart(now), now)
           g == Worth(m)
<1>1. ASSUME NEW s \in T PROVE s \in S
  <2>1. /\ s \in RecordIds /\ ctRows[s].type = "reserve" /\ WindowStart(ctRows[s].at) = WindowStart(now)
        /\ ctRows[s].at <= now /\ Live(s)
    BY DEF Earlier, Reserved
  <2>2. ctRows[s].at \in Nat
    <3>1. ctRows[s] \in CtRow
      BY <2>1 DEF CtTypeOK
    <3> QED BY <3>1, CtRowFields
  <2>3. WindowStart(now) <= ctRows[s].at /\ WindowStart(now) \in Nat
    BY <2>1, <2>2, WindowStartType
  <2> QED BY <2>1, <2>2, <2>3 DEF Present, InAggregate
<1>2. S \in SUBSET RecordIds
  BY DEF Present
<1>3. Total(m, T) = SumFunctionOnSet(g, T) /\ Aggregate(m, now) = Total(m, S)
  BY DEF Total, Aggregate
<1> HIDE DEF S, T
<1>4. T \in SUBSET S
  BY <1>1
<1>5. \A r \in T : g[r] = Worth(m)[r]
  OBVIOUS
<1> HIDE DEF g
<1>6. SumFunctionOnSet(g, T) <= Total(m, S) /\ Total(m, S) \in Nat
  BY <1>2, <1>4, <1>5, TotalLess
<1> QED BY <1>3, <1>6 DEF T

LEMMA CheckLimitStep ==
    ASSUME CtInv, NEW c \in Calls, CheckLimit(c)
    PROVE  CtInv'
<1> DEFINE m == Head(call[c].todo)
           total == Aggregate(m, call[c].now)
<1>1. /\ call[c] \in Call /\ call[c].pc = "check" /\ UNCHANGED <<ctRows, ctClock>> /\ CallFits(call[c])
      /\ m \in Metrics /\ call[c].now \in Nat
  BY CallHas, CallFields DEF CheckLimit
<1>2. CASE total + ReserveAmount(m, call[c].amount) > LimitMax[m]
  <2>1. Answer(c, FALSE)
    BY <1>2 DEF CheckLimit
  <2>2. PICK k : call' = [call EXCEPT ![c] = k] /\ Joins(c, k)
    BY <1>1, <2>1, AnswerJoins
  <2>3. passed' \in [RecordIds -> SUBSET Metrics]
    BY <1>1, <2>1, AnswerJoins
  <2> QED BY <1>1, <2>2, <2>3, CallStep
<1>3. CASE ~ (total + ReserveAmount(m, call[c].amount) > LimitMax[m])
  <2> DEFINE k == [At(call[c], "insert") EXCEPT !.cum = total]
  <2>1. call' = [call EXCEPT ![c] = k] /\ passed' \in [RecordIds -> SUBSET Metrics]
    BY <1>3 DEF CheckLimit, CtInv, CtTypeOK
  <2>2. total \in Nat /\ Total(m, Earlier(m, WindowStart(call[c].now), call[c].now)) <= total
    BY <1>1, AggregateCovers DEF CtInv
  <2>3. /\ k \in Call /\ k.pc = "insert" /\ k.rid = call[c].rid /\ k.todo = call[c].todo /\ k.to = call[c].to
        /\ k.now = call[c].now /\ k.cum = total /\ k.amount = call[c].amount
    BY <1>1, <2>2, AtFields, WithCumFields
  <2>4. total + ReserveAmount(m, call[c].amount) <= LimitMax[m]
    <3>1. LimitMax[m] \in Nat /\ ReserveAmount(m, call[c].amount) \in Nat
      BY <1>1, CallFields, TrackerAssumption DEF ReserveAmount
    <3> HIDE DEF total, m
    <3> QED BY <1>3, <2>2, <3>1
  <2> HIDE DEF k, total
  <2>5. CallFits(k) /\ ~ Writing(k)
    BY <1>1, <2>2, <2>3, <2>4 DEF CallFits, Writing
  <2>6. \A d \in Calls : d # c /\ Holding(call[d]) => KeyOf(call[d]) # KeyOf(k)
    BY <1>1, <2>3 DEF CtInv, Apart, Holding, KeyOf
  <2>7. Joins(c, k)
    BY <2>3, <2>5, <2>6 DEF Joins, Apart
  <2> QED BY <1>1, <2>1, <2>7, CallStep
<1> QED BY <1>2, <1>3

LEMMA InsertReservationStep ==
    ASSUME CtInv, NEW c \in Calls, InsertReservation(c)
    PROVE  CtInv'
<1> DEFINE none == ctRows[call[c].rid].type = "none"
           k == [At(call[c], "commit") EXCEPT !.wrote = none]
<1>1. /\ call[c] \in Call /\ call[c].pc = "insert" /\ UNCHANGED <<ctRows, ctClock>> /\ CallFits(call[c])
      /\ call' = [call EXCEPT ![c] = k] /\ passed' \in [RecordIds -> SUBSET Metrics] /\ ~ Undecided(call[c].rid)
  BY CallHas DEF InsertReservation, CtInv, CtTypeOK
<1>2. none \in BOOLEAN
  OBVIOUS
<1>3. /\ k \in Call /\ k.pc = "commit" /\ k.rid = call[c].rid /\ k.todo = call[c].todo /\ k.to = call[c].to
      /\ k.now = call[c].now /\ k.cum = call[c].cum /\ k.amount = call[c].amount /\ k.wrote = none
  <2> HIDE DEF none
  <2> QED BY <1>1, <1>2, AtFields, WithWroteFields
<1>4. k.wrote = TRUE => ctRows[k.rid].type = "none"
  BY <1>3
<1> HIDE DEF k
<1>5. CallFits(k)
  BY <1>1, <1>3, <1>4 DEF CallFits, Writing
<1>6. \A d \in Calls : d # c /\ Holding(call[d]) => KeyOf(call[d]) # KeyOf(k)
  BY <1>1, <1>3 DEF CtInv, Apart, Holding, KeyOf
<1>7. \A d \in Calls : Writing(call[d]) => call[d].rid # k.rid
  BY <1>1, <1>3 DEF Undecided, Writing
<1>8. Joins(c, k)
  BY <1>3, <1>5, <1>6, <1>7 DEF Joins, Apart
<1> QED BY <1>1, <1>8, CallStep

LEMMA CtRollbackStep ==
    ASSUME CtInv, NEW c \in Calls, CtRollback(c)
    PROVE  CtInv'
<1>1. call' = [call EXCEPT ![c] = NoCall] /\ passed' \in [RecordIds -> SUBSET Metrics] /\ UNCHANGED <<ctRows, ctClock>>
  BY DEF CtRollback, CtInv, CtTypeOK
<1> QED BY <1>1, NoCallJoins, CallStep

LEMMA SettleFindStep ==
    ASSUME CtInv, NEW c \in Calls, NEW rid \in RecordIds, NEW result \in {"SUCCESS", "ERROR"},
           NEW amount \in Amounts, SettleFind(c, rid, result, amount)
    PROVE  CtInv'
<1> DEFINE row == ctRows[rid]
           to == SettledAs(row.metric, result)
           k == [pc |-> "settle", rid |-> rid, todo |-> <<>>, amount |-> amount, now |-> 0, cum |-> 0,
                 wrote |-> FALSE, to |-> to]
<1>1. /\ call' = [call EXCEPT ![c] = k] /\ passed' \in [RecordIds -> SUBSET Metrics] /\ UNCHANGED <<ctRows, ctClock>>
      /\ row.type = "reserve" /\ amount \in Nat
  BY TrackerAssumption DEF SettleFind, CtInv, CtTypeOK
<1>2. /\ to \in {"SETTLED", "RELEASED"} /\ (Counts(row.metric) => to = "SETTLED")
      /\ ~ Counts(row.metric) /\ to = "SETTLED" => result = "SUCCESS"
  BY DEF SettledAs
<1>3. ~ Counts(row.metric) /\ to = "SETTLED" => row.cum + amount <= LimitMax[row.metric]
  <2>1. row \in CtRow /\ RowFits(rid)
    BY DEF CtInv, CtTypeOK
  <2>2. row.cum + row.amount <= LimitMax[row.metric]
    BY <1>1, <2>1 DEF RowFits
  <2>3. row.cum \in Nat /\ row.amount \in Nat /\ LimitMax[row.metric] \in Nat
    BY <2>1, CtRowFields, TrackerAssumption
  <2>4. ~ Counts(row.metric) /\ to = "SETTLED" => ~ Overrun(row, amount)
    BY <1>2 DEF SettleFind
  <2> HIDE DEF row, to
  <2> QED BY <1>1, <2>2, <2>3, <2>4 DEF Overrun
<1>4. k \in Call
  <2> HIDE DEF to
  <2> QED BY <1>1, <1>2 DEF Call, CtStatus
<1>5. CallFits(k) /\ ~ Holding(k)
  <2>1. k.pc = "settle" /\ k.rid = rid /\ k.amount = amount /\ k.to = to /\ k.wrote = FALSE
    OBVIOUS
  <2> HIDE DEF k, to
  <2> QED BY <1>1, <1>2, <1>3, <2>1 DEF CallFits, Holding, Writing
<1> HIDE DEF k
<1> QED BY <1>1, <1>4, <1>5, FreeCallJoins, CallStep

-----------------------------------------------------------------------------
(* The steps that write: a commit, an update, a recorded action.           *)

LEMMA PresentFinite ==
    IsFiniteSet(Present) /\ Cardinality(Present) \in Nat
<1>1. IsFiniteSet(Present)
  BY TrackerAssumption, FS_Subset DEF Present
<1> QED BY <1>1, FS_CardinalityType

\* A new row takes the next place in commit order.
LEMMA InOrderGrows ==
    ASSUME CtInv, NEW rid \in RecordIds, ctRows[rid].type = "none", NEW row \in CtRow, row.type # "none",
           row.seq = Cardinality(Present) + 1, ctRows' = [ctRows EXCEPT ![rid] = row]
    PROVE  CtInOrder'
<1>1. \A r \in RecordIds : ctRows'[r] = IF r = rid THEN row ELSE ctRows[r]
  BY DEF CtInv, CtTypeOK
<1>2. rid \notin Present /\ Present' = Present \cup {rid}
  BY <1>1 DEF Present
<1>3. Cardinality(Present') = Cardinality(Present) + 1 /\ Cardinality(Present) \in Nat
  BY <1>2, PresentFinite, FS_AddElement
<1>4. \A r \in Present : ctRows[r].seq \in 1..Cardinality(Present)
  BY DEF CtInv, CtInOrder
<1>5. \A r \in Present : r # rid /\ r \in RecordIds /\ ctRows'[r] = ctRows[r]
  BY <1>1, <1>2 DEF Present
<1>6. ctRows'[rid].seq = Cardinality(Present) + 1
  BY <1>1
<1>7. \A r \in Present' : ctRows'[r].seq \in 1..Cardinality(Present')
  BY <1>2, <1>3, <1>4, <1>5, <1>6
<1>8. \A r, s \in Present' : ctRows'[r].seq = ctRows'[s].seq => r = s
  <2>1. \A r, s \in Present : ctRows[r].seq = ctRows[s].seq => r = s
    BY DEF CtInv, CtInOrder
  <2>2. \A r \in Present : ctRows'[r].seq # Cardinality(Present) + 1
    BY <1>3, <1>4, <1>5
  <2> QED BY <1>2, <1>5, <1>6, <2>1, <2>2
<1> QED BY <1>7, <1>8 DEF CtInOrder

LEMMA CtCommitStep ==
    ASSUME CtInv, NEW c \in Calls, CtCommit(c) \/ CtCommitUnheard(c)
    PROVE  CtInv' /\ RowsKept
<1>1. call[c] \in Call /\ call[c].pc = "commit" /\ UNCHANGED ctClock /\ CallFits(call[c]) /\ CommitReservation(c)
  BY CallHas DEF CtCommit, CtCommitUnheard
<1>0. /\ passed' \in [RecordIds -> SUBSET Metrics]
      /\ \E k : call' = [call EXCEPT ![c] = k] /\ Joins(c, k) /\ ~ Holding(k) /\ k.pc \in {"idle", "find"}
  <2>1. CASE CtCommit(c)
    BY <1>1, <2>1, AnswerJoins DEF CtCommit
  <2>2. CASE CtCommitUnheard(c)
    <3>1. Joins(c, NoCall) /\ ~ Holding(NoCall) /\ NoCall.pc = "idle"
      BY NoCallJoins DEF Holding, NoCall
    <3>2. call' = [call EXCEPT ![c] = NoCall] /\ passed' \in [RecordIds -> SUBSET Metrics]
      BY <2>2 DEF CtCommitUnheard, CtInv, CtTypeOK
    <3> HIDE DEF NoCall
    <3> QED BY <3>1, <3>2
  <2> QED BY <2>1, <2>2
<1>2. passed' \in [RecordIds -> SUBSET Metrics]
  BY <1>0
<1>3. PICK k : call' = [call EXCEPT ![c] = k] /\ Joins(c, k) /\ ~ Holding(k) /\ k.pc \in {"idle", "find"}
  BY <1>0
<1>4. CASE call[c].wrote # TRUE
  <2>1. call[c].wrote \in BOOLEAN
    BY <1>1, CallFields
  <2>2. ctRows' = ctRows
    BY <1>1, <1>4, <2>1 DEF CommitReservation
  <2>3. CtInv'
    BY <1>1, <1>2, <1>3, <2>2, CallStep
  <2>4. RowsKept
    BY <1>1, <2>2 DEF RowsKept, RowKept, CtInv, CtTypeOK
  <2> QED BY <2>3, <2>4
<1>5. CASE call[c].wrote = TRUE
  <2> DEFINE rid == call[c].rid
             m == Head(call[c].todo)
             row == [type |-> "reserve", status |-> "PENDING", metric |-> m,
                     amount |-> ReserveAmount(m, call[c].amount),
                     cum |-> call[c].cum, at |-> call[c].now, settled |-> 0, seq |-> Cardinality(Present) + 1]
  <2>1. ctRows' = [ctRows EXCEPT ![rid] = row]
    BY <1>1, <1>5 DEF CommitReservation
  <2>2. /\ rid \in RecordIds /\ m \in Metrics /\ ctRows[rid].type = "none"
        /\ call[c].amount \in Nat /\ call[c].cum \in Nat /\ call[c].now \in Nat
        /\ ReserveAmount(m, call[c].amount) \in Nat
        /\ call[c].cum + ReserveAmount(m, call[c].amount) <= LimitMax[m]
        /\ Total(m, Earlier(m, WindowStart(call[c].now), call[c].now)) <= call[c].cum
    BY <1>1, <1>5, CallHas, CallFields DEF CallFits, Writing, ReserveAmount
  <2>3. row \in CtRow
    BY <2>2, PresentFinite DEF CtRow, CtStatus
  <2>4. /\ row.type = "reserve" /\ row.status = "PENDING" /\ row.metric = m
        /\ row.amount = ReserveAmount(m, call[c].amount) /\ row.cum = call[c].cum /\ row.at = call[c].now
        /\ row.settled = 0 /\ row.seq = Cardinality(Present) + 1
    OBVIOUS
  <2> HIDE DEF row
  <2>5. \A r \in RecordIds : ctRows'[r] = IF r = rid THEN row ELSE ctRows[r]
    BY <2>1, <2>2 DEF CtInv, CtTypeOK
  <2>6. \A d \in Calls : call'[d] = IF d = c THEN k ELSE call[d]
    BY <1>3 DEF CtInv, CtTypeOK
  <2>7. CtTypeOK'
    BY <1>1, <1>2, <1>3, <2>1, <2>2, <2>3 DEF CtInv, CtTypeOK, Joins
  <2>8. RowsKept
    BY <1>1, <2>2, <2>5 DEF RowsKept, RowKept, Present, CtInv, CtTypeOK
  <2>9. NewAtEnd
    BY <2>4, <2>5, PresentFinite DEF NewAtEnd
  <2>10. CtInOrder'
    BY <2>1, <2>2, <2>3, <2>4, InOrderGrows
  <2>11. ASSUME NEW l \in Call, l.pc \in {"insert", "commit"} =>
                   <<Head(l.todo), WindowStart(l.now)>> # <<m, WindowStart(call[c].now)>>
         PROVE  l.pc \in {"insert", "commit"} => NoneNew(Head(l.todo), WindowStart(l.now), l.now)
    BY <2>4, <2>5, <2>11 DEF NoneNew
  <2>12. ASSUME NEW d \in Calls, NEW l \in Call, call'[d] = l PROVE CallFits(l)'
    <3>1. CASE d = c
      <4>1. l = k /\ CallFits(l) /\ ~ Holding(l)
        BY <1>3, <2>6, <2>12, <3>1 DEF Joins
      <4>2. l.pc \notin {"insert", "commit"} /\ ~ Writing(l)
        BY <4>1 DEF Holding, Writing
      <4> QED BY <2>7, <2>8, <4>1, <4>2, CallFitsKept DEF CtInv
    <3>2. CASE d # c
      <4>1. call[d] = l /\ Apart(call[c], call[d]) /\ CallFits(l)
        BY <2>6, <2>12, <3>2 DEF CtInv
      <4>2. l.pc \in {"insert", "commit"} => NoneNew(Head(l.todo), WindowStart(l.now), l.now)
        <5>1. l.pc \in {"insert", "commit"} => KeyOf(call[c]) # KeyOf(l)
          BY <1>1, <4>1 DEF Apart, Holding
        <5> QED BY <5>1, <2>11 DEF KeyOf
      <4>3. Writing(l) => ctRows'[l.rid].type = "none"
        <5>1. Writing(l) => l.rid # rid /\ ctRows[l.rid].type = "none" /\ l.rid \in RecordIds
          BY <1>1, <1>5, <4>1 DEF Apart, Writing, CallFits
        <5> QED BY <5>1, <2>5
      <4> QED BY <2>7, <2>8, <4>1, <4>2, <4>3, CallFitsKept DEF CtInv
    <3> QED BY <3>1, <3>2
  <2>13. \A d, e \in Calls : d # e => Apart(call[d], call[e])'
    <3>1. \A d, e \in Calls : d # e => Apart(call'[d], call'[e])
      BY <1>3, <2>6 DEF CtInv, Joins
    <3> QED BY <3>1 DEF Apart, KeyOf, Holding, Writing, WindowStart
  <2>14. ASSUME NEW r \in RecordIds PROVE RowFits(r)'
    <3>1. CASE r = rid
      <4>1. ctRows'[r] = row
        BY <2>5, <3>1
      <4> PICK x \in Metrics, now \in Nat : x = m /\ now = call[c].now
        BY <2>2
      <4> DEFINE S == Earlier(x, WindowStart(now), now)
                 T == Prior(r)'
                 g == Worth(x)'
      <4>2. ASSUME NEW s \in T PROVE s \in S /\ g[s] = Worth(x)[s]
        <5>1. /\ s \in RecordIds /\ ctRows'[s].type = "reserve" /\ ctRows'[s].metric = m
              /\ WindowStart(ctRows'[s].at) = WindowStart(call[c].now) /\ ctRows'[s].at <= call[c].now /\ Live(s)'
              /\ ctRows'[s].seq < row.seq
          BY <2>4, <4>1 DEF Prior, Earlier, Reserved, WindowStart
        <5>2. s # r
          BY <2>4, <4>1, <5>1, PresentFinite
        <5>3. ctRows'[s] = ctRows[s]
          BY <2>5, <3>1, <5>1, <5>2
        <5>4. s \in Present
          BY <5>1, <5>3 DEF Present
        <5>5. Live(s)
          BY <2>7, <2>8, <5>1, <5>4, LiveKept DEF CtInv
        <5>6. s \in S
          BY <5>1, <5>3, <5>5 DEF Earlier, Reserved
        <5>7. Worth(x)'[s] = Worth(x)[s]
          BY <5>1, <5>3 DEF Worth
        <5> QED BY <5>6, <5>7
      <4>3. S \in SUBSET RecordIds
        BY DEF Earlier, Reserved
      <4>4. Total(x, S) <= call[c].cum
        BY <2>2
      <4>5. Total(ctRows[r].metric, Prior(r))' = SumFunctionOnSet(g, T)
        BY <2>4, <4>1 DEF Total
      <4>6. \A y \in RecordIds : g[y] \in Nat
        <5>1. \A y \in RecordIds : ctRows'[y] \in CtRow
          BY <2>7 DEF CtTypeOK
        <5>2. \A y \in RecordIds : ctRows'[y].amount \in Nat
          BY <5>1, CtRowFields
        <5> QED BY <5>2 DEF Worth
      <4> HIDE DEF g, S, T
      <4>7. T \in SUBSET S /\ IsFiniteSet(T) /\ T \in SUBSET RecordIds
        BY <4>2, <4>3, TrackerAssumption, FS_Subset
      <4>8. SumFunctionOnSet(g, T) \in Nat
        BY <4>6, <4>7, SumNat
      <4>9. SumFunctionOnSet(g, T) <= Total(x, S) /\ Total(x, S) \in Nat
        BY <4>2, <4>3, <4>7, TotalLess DEF CtInv
      <4>10. Total(ctRows[r].metric, Prior(r))' <= ctRows'[r].cum
        BY <2>2, <2>4, <4>1, <4>4, <4>5, <4>8, <4>9
      <4>11. /\ Counts(ctRows'[r].metric) => ctRows'[r].amount = 1
             /\ ctRows'[r].cum + ctRows'[r].amount <= LimitMax[ctRows'[r].metric]
             /\ ctRows'[r].status = "PENDING"
        BY <2>2, <2>4, <4>1 DEF ReserveAmount
      <4> QED BY <4>10, <4>11 DEF RowFits, Counts
    <3>2. CASE r # rid
      <4>1. ctRows'[r] = ctRows[r] /\ RowFits(r)
        BY <2>5, <3>2 DEF CtInv
      <4>2. ctRows[r].type = "reserve" => Total(ctRows[r].metric, Prior(r))' <= ctRows'[r].cum
        BY <2>7, <2>8, <2>9, PriorKept
      <4> QED BY <4>1, <4>2 DEF RowFits, Counts
    <3> QED BY <3>1, <3>2
  <2> QED BY <2>7, <2>8, <2>10, <2>12, <2>13, <2>14 DEF CtInv
<1> QED BY <1>4, <1>5

\* A step that changes rows and leaves the calls that fit them, but for one that ends.
LEMMA SettleUpdateStep ==
    ASSUME CtInv, NEW c \in Calls, SettleUpdate(c)
    PROVE  CtInv' /\ RowsKept
<1> DEFINE rid == call[c].rid
           row == [[ctRows[rid] EXCEPT !.status = call[c].to] EXCEPT !.settled = call[c].amount]
<1>1. call[c] \in Call /\ call[c].pc = "settle" /\ UNCHANGED <<passed, ctClock>> /\ CallFits(call[c])
  BY CallHas DEF SettleUpdate
<1>2. ctRows' = [ctRows EXCEPT ![rid] = row] /\ call' = [call EXCEPT ![c] = NoCall]
  BY DEF SettleUpdate
<1>3. /\ rid \in RecordIds /\ ctRows[rid].type = "reserve" /\ call[c].to \in {"SETTLED", "RELEASED"}
      /\ call[c].to \in CtStatus /\ call[c].amount \in Nat /\ ctRows[rid] \in CtRow
      /\ (Counts(ctRows[rid].metric) => call[c].to = "SETTLED")
      /\ ~ Counts(ctRows[rid].metric) /\ call[c].to = "SETTLED" =>
              ctRows[rid].cum + call[c].amount <= LimitMax[ctRows[rid].metric]
  BY <1>1, CallFields DEF CallFits, CtInv, CtTypeOK
<1>4. /\ row \in CtRow /\ row.type = ctRows[rid].type /\ row.status = call[c].to /\ row.metric = ctRows[rid].metric
      /\ row.amount = ctRows[rid].amount /\ row.cum = ctRows[rid].cum /\ row.at = ctRows[rid].at
      /\ row.settled = call[c].amount /\ row.seq = ctRows[rid].seq
  <2>1. ASSUME NEW x \in CtRow, NEW t \in CtStatus
        PROVE  LET y == [x EXCEPT !.status = t]
               IN  /\ y \in CtRow /\ y.type = x.type /\ y.status = t /\ y.metric = x.metric
                   /\ y.amount = x.amount /\ y.cum = x.cum /\ y.at = x.at /\ y.settled = x.settled /\ y.seq = x.seq
    BY DEF CtRow
  <2>2. ASSUME NEW x \in CtRow, NEW t \in Nat
        PROVE  LET y == [x EXCEPT !.settled = t]
               IN  /\ y \in CtRow /\ y.type = x.type /\ y.status = x.status /\ y.metric = x.metric
                   /\ y.amount = x.amount /\ y.cum = x.cum /\ y.at = x.at /\ y.settled = t /\ y.seq = x.seq
    BY DEF CtRow
  <2> DEFINE y == [ctRows[rid] EXCEPT !.status = call[c].to]
  <2>3. /\ y \in CtRow /\ y.type = ctRows[rid].type /\ y.status = call[c].to /\ y.metric = ctRows[rid].metric
        /\ y.amount = ctRows[rid].amount /\ y.cum = ctRows[rid].cum /\ y.at = ctRows[rid].at /\ y.seq = ctRows[rid].seq
    BY <1>3, <2>1
  <2>4. row = [y EXCEPT !.settled = call[c].amount]
    OBVIOUS
  <2> HIDE DEF y, row
  <2> QED BY <1>3, <2>2, <2>3, <2>4
<1> HIDE DEF row
<1>5. \A r \in RecordIds : ctRows'[r] = IF r = rid THEN row ELSE ctRows[r]
  BY <1>2, <1>3 DEF CtInv, CtTypeOK
<1>6. \A d \in Calls : call'[d] = IF d = c THEN NoCall ELSE call[d]
  BY <1>2 DEF CtInv, CtTypeOK
<1>7. CtTypeOK'
  BY <1>1, <1>2, <1>3, <1>4, NoCallJoins DEF CtInv, CtTypeOK, Joins
<1>8. \A r \in RecordIds : RowKept(r)
  <2>1. RowKept(rid)
    BY <1>3, <1>4, <1>5 DEF RowKept
  <2>2. \A r \in RecordIds : r # rid => RowKept(r)
    BY <1>5 DEF RowKept
  <2> QED BY <2>1, <2>2
<1>9. RowsKept
  BY <1>1, <1>8 DEF RowsKept, Present, CtInv, CtTypeOK
<1>10. \A r \in RecordIds : ctRows'[r].type = ctRows[r].type
  BY <1>8 DEF RowKept
<1>11. NewAtEnd /\ \A m, w, t : NoneNew(m, w, t)
  BY <1>10 DEF NewAtEnd, NoneNew
<1>12. CtInOrder'
  <2>1. Present' = Present
    BY <1>10 DEF Present
  <2>2. \A r \in RecordIds : ctRows'[r].seq = ctRows[r].seq
    BY <1>8 DEF RowKept
  <2>3. \A r \in Present : r \in RecordIds
    BY DEF Present
  <2>4. CtInOrder
    BY DEF CtInv
  <2> QED BY <2>1, <2>2, <2>3, <2>4 DEF CtInOrder
<1>13. ASSUME NEW d \in Calls, NEW l \in Call, call'[d] = l PROVE CallFits(l)'
  <2>1. CallFits(l)
    <3>1. CallFits(NoCall)
      BY NoCallJoins DEF Joins
    <3> HIDE DEF NoCall
    <3> QED BY <1>6, <1>13, <3>1 DEF CtInv
  <2>2. Writing(l) => ctRows'[l.rid].type = "none"
    BY <1>10, <2>1 DEF CallFits, Writing
  <2>3. l.pc \in {"insert", "commit"} => NoneNew(Head(l.todo), WindowStart(l.now), l.now)
    BY <1>11
  <2> QED BY <1>7, <1>9, <2>1, <2>2, <2>3, CallFitsKept DEF CtInv
<1>14. \A d, e \in Calls : d # e => Apart(call[d], call[e])'
  <2>1. \A d, e \in Calls : d # e => Apart(call'[d], call'[e])
    <3> HIDE DEF NoCall
    <3> QED BY <1>6, NoCallJoins DEF CtInv, Joins
  <2> QED BY <2>1 DEF Apart, KeyOf, Holding, Writing, WindowStart
<1>15. ASSUME NEW r \in RecordIds PROVE RowFits(r)'
  <2>1. ctRows[r].type = "reserve" => Total(ctRows[r].metric, Prior(r))' <= ctRows'[r].cum
    BY <1>7, <1>9, <1>11, PriorKept
  <2>2. RowFits(r)
    BY DEF CtInv
  <2>3. ctRows'[r].type = "reserve" => ctRows[r].type = "reserve"
    BY <1>10
  <2>4. ctRows'[r].type = "reserve" =>
          /\ Counts(ctRows'[r].metric) => ctRows'[r].amount = 1
          /\ ctRows'[r].cum + ctRows'[r].amount <= LimitMax[ctRows'[r].metric]
          /\ ctRows'[r].status = "SETTLED" /\ ~ Counts(ctRows'[r].metric) =>
               ctRows'[r].cum + ctRows'[r].settled <= LimitMax[ctRows'[r].metric]
          /\ Counts(ctRows'[r].metric) => ctRows'[r].status \in {"PENDING", "SETTLED"}
    <3>1. CASE r = rid
      BY <1>3, <1>4, <1>5, <2>2, <2>3, <3>1 DEF RowFits
    <3>2. CASE r # rid
      BY <1>5, <2>2, <2>3, <3>2 DEF RowFits
    <3> QED BY <3>1, <3>2
  <2> QED BY <2>1, <2>3, <2>4 DEF RowFits, Counts
<1> QED BY <1>7, <1>9, <1>12, <1>13, <1>14, <1>15 DEF CtInv

LEMMA RecordActionStep ==
    ASSUME CtInv, NEW rid \in RecordIds, NEW status \in {"SUCCESS", "ERROR"}, NEW amount \in Nat,
           RecordAction(rid, status, amount)
    PROVE  CtInv' /\ RowsKept
<1> DEFINE row == [type |-> "action", status |-> status, metric |-> "api_call_count",
                   amount |-> amount, cum |-> 0, at |-> ctClock, settled |-> 0, seq |-> Cardinality(Present) + 1]
<1>1. /\ ctRows[rid].type = "none" /\ ~ Undecided(rid) /\ ctRows' = [ctRows EXCEPT ![rid] = row]
      /\ UNCHANGED <<call, passed, ctClock>> /\ ctClock \in Nat
  BY DEF RecordAction, CtInv, CtTypeOK
<1>2. row \in CtRow
  BY <1>1, PresentFinite DEF CtRow, CtStatus, Metrics
<1>3. row.type = "action" /\ row.seq = Cardinality(Present) + 1
  OBVIOUS
<1> HIDE DEF row
<1>4. \A r \in RecordIds : ctRows'[r] = IF r = rid THEN row ELSE ctRows[r]
  BY <1>1 DEF CtInv, CtTypeOK
<1>5. CtTypeOK'
  BY <1>1, <1>2 DEF CtInv, CtTypeOK
<1>6. RowsKept
  BY <1>1, <1>4 DEF RowsKept, RowKept, Present
<1>7. NewAtEnd /\ \A m, w, t : NoneNew(m, w, t)
  <2>1. NewAtEnd
    BY <1>3, <1>4, PresentFinite DEF NewAtEnd
  <2>2. ASSUME NEW r \in RecordIds PROVE ~ (ctRows[r].type = "none" /\ ctRows'[r].type = "reserve")
    BY <1>3, <1>4
  <2> QED BY <2>1, <2>2 DEF NoneNew
<1>8. CtInOrder'
  BY <1>1, <1>2, <1>3, InOrderGrows
<1>9. ASSUME NEW d \in Calls, NEW l \in Call, call'[d] = l PROVE CallFits(l)'
  <2>1. CallFits(l) /\ call[d] = l
    BY <1>1, <1>9 DEF CtInv
  <2>2. Writing(l) => ctRows'[l.rid].type = "none"
    <3>1. Writing(l) => l.rid \in RecordIds /\ ctRows[l.rid].type = "none"
      BY <2>1 DEF CallFits, Writing
    <3>2. Writing(l) => l.rid # rid
      BY <1>1, <2>1 DEF Undecided, Writing
    <3> QED BY <1>4, <3>1, <3>2
  <2>3. l.pc \in {"insert", "commit"} => NoneNew(Head(l.todo), WindowStart(l.now), l.now)
    BY <1>7
  <2> QED BY <1>5, <1>6, <2>1, <2>2, <2>3, CallFitsKept DEF CtInv
<1>10. \A d, e \in Calls : d # e => Apart(call[d], call[e])'
  BY <1>1 DEF CtInv, Apart, KeyOf, Holding, Writing, WindowStart
<1>11. ASSUME NEW r \in RecordIds PROVE RowFits(r)'
  <2>1. ctRows[r].type = "reserve" => Total(ctRows[r].metric, Prior(r))' <= ctRows'[r].cum
    BY <1>5, <1>6, <1>7, PriorKept
  <2>2. ctRows'[r].type = "reserve" => ctRows'[r] = ctRows[r]
    BY <1>3, <1>4
  <2>3. RowFits(r)
    BY DEF CtInv
  <2> QED BY <2>1, <2>2, <2>3 DEF RowFits, Counts
<1> QED BY <1>5, <1>6, <1>8, <1>9, <1>10, <1>11 DEF CtInv

LEMMA CtTickStep ==
    ASSUME CtInv, CtTick
    PROVE  CtInv' /\ RowsKept
<1>1. UNCHANGED <<ctRows, call, passed>> /\ ctClock \in Nat /\ ctClock' = ctClock + 1
  BY DEF CtTick, CtInv, CtTypeOK
<1>2. CtTypeOK'
  BY <1>1 DEF CtInv, CtTypeOK
<1>3. RowsKept
  BY <1>1 DEF RowsKept, RowKept
<1>4. NewAtEnd /\ \A m, w, t : NoneNew(m, w, t)
  BY <1>1 DEF NewAtEnd, NoneNew
<1>5. ASSUME NEW d \in Calls, NEW l \in Call, call'[d] = l PROVE CallFits(l)'
  <2>1. CallFits(l)
    BY <1>1, <1>5 DEF CtInv
  <2>2. Writing(l) => ctRows'[l.rid].type = "none"
    BY <1>1, <2>1 DEF CallFits
  <2>3. l.pc \in {"insert", "commit"} => NoneNew(Head(l.todo), WindowStart(l.now), l.now)
    BY <1>4
  <2> QED BY <1>2, <1>3, <2>1, <2>2, <2>3, CallFitsKept DEF CtInv
<1>6. \A d, e \in Calls : d # e => Apart(call[d], call[e])'
  BY <1>1 DEF CtInv, Apart, KeyOf, Holding, Writing, WindowStart
<1>7. ASSUME NEW r \in RecordIds PROVE RowFits(r)'
  <2>1. ctRows[r].type = "reserve" => Total(ctRows[r].metric, Prior(r))' <= ctRows'[r].cum
    BY <1>2, <1>3, <1>4, PriorKept
  <2>2. RowFits(r)
    BY DEF CtInv
  <2> QED BY <1>1, <2>1, <2>2 DEF RowFits, Counts
<1>8. CtInOrder'
  BY <1>1 DEF CtInv, CtInOrder, Present
<1> QED BY <1>2, <1>3, <1>5, <1>6, <1>7, <1>8 DEF CtInv

LEMMA CtStart == CtInit => CtInv
<1> SUFFICES ASSUME CtInit PROVE CtInv
  OBVIOUS
<1>1. NoCtRow \in CtRow /\ NoCall \in Call
  BY DEF NoCtRow, CtRow, CtStatus, Metrics, NoCall, Call
<1>2. CtTypeOK
  BY <1>1 DEF CtInit, CtTypeOK
<1>3. CallFits(NoCall) /\ ~ Holding(NoCall) /\ ~ Writing(NoCall)
  BY DEF NoCall, CallFits, Holding, Writing
<1>4. \A c \in Calls : call[c] = NoCall
  BY DEF CtInit
<1>5. \A r \in RecordIds : ctRows[r].type = "none"
  BY DEF CtInit, NoCtRow
<1>6. \A r \in RecordIds : RowFits(r)
  BY <1>5 DEF RowFits
<1>7. CtInOrder
  BY <1>5 DEF CtInOrder, Present
<1> HIDE DEF NoCall
<1>8. \A c, d \in Calls : c # d => Apart(call[c], call[d])
  BY <1>3, <1>4 DEF Apart
<1> QED BY <1>2, <1>3, <1>4, <1>6, <1>7, <1>8 DEF CtInv

LEMMA StillKept == ASSUME CtTypeOK, UNCHANGED <<ctRows, ctClock>> PROVE RowsKept
BY DEF RowsKept, RowKept, CtTypeOK

LEMMA CtStep == CtInv /\ [CtNext]_ctVars => CtInv' /\ RowsKept
<1> SUFFICES ASSUME CtInv, [CtNext]_ctVars PROVE CtInv' /\ RowsKept
  OBVIOUS
<1>0. CtTypeOK
  BY DEF CtInv
<1>1. ASSUME NEW c \in Calls, NEW rid \in RecordIds, NEW limits \in Limits, NEW amount \in Amounts,
             EvaluateLimits(c, rid, limits, amount)
      PROVE  CtInv' /\ RowsKept
  <2>1. UNCHANGED <<ctRows, ctClock>>
    BY <1>1 DEF EvaluateLimits
  <2> QED BY <1>0, <1>1, <2>1, EvaluateLimitsStep, StillKept
<1>2. ASSUME NEW c \in Calls, FindReservation(c) PROVE CtInv' /\ RowsKept
  <2>1. UNCHANGED <<ctRows, ctClock>>
    BY <1>2 DEF FindReservation
  <2> QED BY <1>0, <1>2, <2>1, FindReservationStep, StillKept
<1>3. ASSUME NEW c \in Calls, CtAcquireAdvisoryLock(c) PROVE CtInv' /\ RowsKept
  <2>1. UNCHANGED <<ctRows, ctClock>>
    BY <1>3 DEF CtAcquireAdvisoryLock
  <2> QED BY <1>0, <1>3, <2>1, CtAcquireAdvisoryLockStep, StillKept
<1>4. ASSUME NEW c \in Calls, CheckLimit(c) PROVE CtInv' /\ RowsKept
  <2>1. UNCHANGED <<ctRows, ctClock>>
    BY <1>4 DEF CheckLimit
  <2> QED BY <1>0, <1>4, <2>1, CheckLimitStep, StillKept
<1>5. ASSUME NEW c \in Calls, InsertReservation(c) PROVE CtInv' /\ RowsKept
  <2>1. UNCHANGED <<ctRows, ctClock>>
    BY <1>5 DEF InsertReservation
  <2> QED BY <1>0, <1>5, <2>1, InsertReservationStep, StillKept
<1>6. ASSUME NEW c \in Calls, CtCommit(c) \/ CtCommitUnheard(c) PROVE CtInv' /\ RowsKept
  BY <1>6, CtCommitStep
<1>7. ASSUME NEW c \in Calls, CtRollback(c) PROVE CtInv' /\ RowsKept
  <2>1. UNCHANGED <<ctRows, ctClock>>
    BY <1>7 DEF CtRollback
  <2> QED BY <1>0, <1>7, <2>1, CtRollbackStep, StillKept
<1>8. ASSUME NEW c \in Calls, NEW rid \in RecordIds, NEW result \in {"SUCCESS", "ERROR"}, NEW amount \in Amounts,
             SettleFind(c, rid, result, amount)
      PROVE  CtInv' /\ RowsKept
  <2>1. UNCHANGED <<ctRows, ctClock>>
    BY <1>8 DEF SettleFind
  <2> QED BY <1>0, <1>8, <2>1, SettleFindStep, StillKept
<1>9. ASSUME NEW c \in Calls, SettleUpdate(c) PROVE CtInv' /\ RowsKept
  BY <1>9, SettleUpdateStep
<1>10. ASSUME NEW rid \in RecordIds, NEW amount \in Amounts, RecordAction(rid, "SUCCESS", amount)
       PROVE  CtInv' /\ RowsKept
  BY <1>10, RecordActionStep, TrackerAssumption
<1>11. ASSUME NEW rid \in RecordIds, RecordAction(rid, "ERROR", 0) PROVE CtInv' /\ RowsKept
  BY <1>11, RecordActionStep
<1>12. CASE CtTick
  BY <1>12, CtTickStep
<1>13. CASE UNCHANGED ctVars
  <2>1. UNCHANGED <<ctRows, call, passed, ctClock>>
    BY <1>13 DEF ctVars
  <2>2. RowsKept
    BY <1>0, <2>1, StillKept
  <2>3. CtTypeOK' /\ CtInOrder'
    BY <2>1 DEF CtInv, CtTypeOK, CtInOrder, Present
  <2>4. \A k : CallFits(k)' <=> CallFits(k)
    BY <2>1 DEF CallFits, Total, Worth, Earlier, Reserved, Live, Writing, WindowStart, Counts, ReserveAmount
  <2>5. \A c, d \in Calls : c # d => Apart(call[c], call[d])'
    BY <2>1 DEF CtInv, Apart, KeyOf, Holding, Writing, WindowStart
  <2>6. \A r \in RecordIds : RowFits(r)'
    BY <2>1 DEF CtInv, RowFits, Total, Worth, Prior, Earlier, Reserved, Live
  <2>7. \A c \in Calls, k \in Call : call'[c] = k => CallFits(k)'
    BY <2>1, <2>4 DEF CtInv
  <2> QED BY <2>2, <2>3, <2>5, <2>6, <2>7 DEF CtInv
<1> QED BY <1>1, <1>2, <1>3, <1>4, <1>5, <1>6, <1>7, <1>8, <1>9, <1>10, <1>11, <1>12, <1>13 DEF CtNext

\* In the order of the stamps: the live reservation committed last knew a bound on the others.
LEMMA LiveFitsInOrder ==
    ASSUME CtInv, NEW m \in Metrics, NEW w, StampsInOrder(m, w)
    PROVE  LiveWithinLimit(m, w)
<1> DEFINE S == {r \in Reserved(m, w) : Live(r)}
           n == Cardinality(Present)
           f == Worth(m)
<1>1. S \in SUBSET RecordIds /\ IsFiniteSet(S)
  BY TrackerAssumption, FS_Subset DEF Reserved
<1>2. \A r \in S : f[r] \in Nat
  BY <1>1, WorthType DEF CtInv
<1>3. LimitMax[m] \in Nat /\ n \in Nat
  BY TrackerAssumption, PresentFinite
<1>4. Total(m, S) = SumFunctionOnSet(f, S)
  BY DEF Total
<1>5. CASE S = {}
  <2>1. SumFunctionOnSet(f, {}) = 0
    BY SumEmpty
  <2>2. Total(m, S) = 0
    BY <1>4, <1>5, <2>1
  <2> QED BY <1>3, <2>2 DEF LiveWithinLimit
<1>6. CASE S # {}
  <2>1. \A r \in S : /\ r \in Present /\ r \in RecordIds /\ ctRows[r].type = "reserve" /\ ctRows[r].metric = m
                     /\ WindowStart(ctRows[r].at) = w /\ ctRows[r].seq \in 1..n
    BY DEF Reserved, Present, CtInv, CtInOrder
  <2> DEFINE Below == {i \in Nat : \E r \in S : ctRows[r].seq + i = n}
  <2>2. Below # {} /\ Below \in SUBSET Nat
    <3>1. PICK r \in S : TRUE
      BY <1>6
    <3>2. n - ctRows[r].seq \in Nat /\ ctRows[r].seq + (n - ctRows[r].seq) = n
      BY <1>3, <2>1
    <3> QED BY <3>2
  <2>3. PICK i \in Below : \A j \in Below : i <= j
    <3> HIDE DEF Below
    <3> QED BY <2>2, LeastNat, Zenon
  <2>4. PICK last \in S : ctRows[last].seq + i = n
    BY <2>3
  <2>5. ASSUME NEW s \in S, s # last PROVE s \in Prior(last)
    <3>1. ctRows[s].seq \in 1..n /\ ctRows[last].seq \in 1..n /\ i \in Nat
      BY <2>1, <2>3
    <3>2. n - ctRows[s].seq \in Below
      BY <1>3, <3>1
    <3>3. ctRows[s].seq <= ctRows[last].seq
      <4>1. i <= n - ctRows[s].seq
        BY <2>3, <3>2
      <4> QED BY <1>3, <2>4, <3>1, <4>1
    <3>4. ctRows[s].seq # ctRows[last].seq
      BY <2>1, <2>5 DEF CtInv, CtInOrder
    <3>5. ctRows[s].seq < ctRows[last].seq
      BY <3>1, <3>3, <3>4
    <3>6. s \in Reserved(m, w) /\ last \in Reserved(m, w) /\ Live(s)
      OBVIOUS
    <3>7. ctRows[s].at <= ctRows[last].at
      BY <3>5, <3>6 DEF StampsInOrder
    <3>8. Prior(last) = {x \in Reserved(m, w) : (ctRows[x].at <= ctRows[last].at /\ Live(x)) /\ ctRows[x].seq < ctRows[last].seq}
      BY <2>1 DEF Prior, Earlier
    <3> QED BY <3>5, <3>6, <3>7, <3>8
  <2> DEFINE T == S \ {last}
             P == Prior(last)
  <2>6. T \in SUBSET P /\ P \in SUBSET RecordIds
    BY <2>5 DEF Prior, Earlier, Reserved
  <2>7. ctRows[last] \in CtRow /\ RowFits(last) /\ ctRows[last].type = "reserve" /\ ctRows[last].metric = m
    BY <2>1 DEF CtInv, CtTypeOK
  <2>8. ctRows[last].cum \in Nat /\ ctRows[last].amount \in Nat
    BY <2>7, CtRowFields
  <2>9. Total(m, P) <= ctRows[last].cum /\ ctRows[last].cum + ctRows[last].amount <= LimitMax[m]
    BY <2>7 DEF RowFits
  <2>10. f[last] = ctRows[last].amount
    BY <2>1, <2>7 DEF Worth, RowFits
  <2>11. \A r \in T : f[r] = Worth(m)[r]
    OBVIOUS
  <2> HIDE DEF P, T, f, S
  <2>12. SumFunctionOnSet(f, T) <= Total(m, P) /\ Total(m, P) \in Nat
    BY <2>6, <2>11, TotalLess DEF CtInv
  <2>13. /\ SumFunctionOnSet(f, S) = f[last] + SumFunctionOnSet(f, T)
         /\ SumFunctionOnSet(f, S) \in Nat /\ SumFunctionOnSet(f, T) \in Nat
    BY <1>1, <1>2, SumOne DEF T
  <2>14. SumFunctionOnSet(f, S) <= LimitMax[m]
    BY <1>3, <2>8, <2>9, <2>10, <2>12, <2>13
  <2> QED BY <1>4, <2>14 DEF LiveWithinLimit, S
<1> QED BY <1>5, <1>6

\* What a call that read a total knows stays true until it commits, and what a committed
\* reservation was admitted on bounds the live ones before it: inductive for every set of calls,
\* finite set of records, limits, amounts, windows and lengths of the pending time
\* (checkAndReserve, settleReservation).
THEOREM BaselinesHold == CtSpec => []CtInv
<1>1. CtInv /\ [CtNext]_ctVars => CtInv'
  BY CtStep
<1> QED BY <1>1, CtStart, PTL DEF CtSpec

LEMMA CtInvSuffices == CtInv => CtTypeOK /\ NoOverAdmissionInOrder /\ SettledOverBaseline
<1> SUFFICES ASSUME CtInv PROVE NoOverAdmissionInOrder /\ SettledOverBaseline
  BY DEF CtInv
<1>1. NoOverAdmissionInOrder
  BY LiveFitsInOrder DEF NoOverAdmissionInOrder
<1>2. SettledOverBaseline
  BY DEF SettledOverBaseline, CtInv, RowFits
<1> QED BY <1>1, <1>2

-----------------------------------------------------------------------------
(* ScopeAttenuation: each link narrows, so the leaf narrows the root.      *)

SaInv ==
    /\ SaTypeOK
    /\ saRoot # {} => Narrows(saLeaf, saRoot)
    /\ saRoot = {} => saLeaf = {} /\ saDepth = 0

LEMMA GrantsAreScoped == SaTypeOK => WellScoped(saRoot) /\ WellScoped(saLeaf)
  BY SaAssumption DEF SaTypeOK, WellScoped

LEMMA SaStart == SaInit => SaInv
  BY ScopesAssumption DEF SaInit, SaInv, SaTypeOK

LEMMA SaStep == SaInv /\ [SaNext]_saVars => SaInv'
<1> SUFFICES ASSUME SaInv, [SaNext]_saVars PROVE SaInv'
  OBVIOUS
<1>1. WellScoped(saRoot) /\ WellScoped(saLeaf)
  BY GrantsAreScoped DEF SaInv
<1>2. ASSUME NEW capabilities \in SaGrants, IssueCapabilityToken(capabilities) PROVE SaInv'
  <2>1. Narrows(capabilities, capabilities)
    BY NarrowsItself, SaAssumption DEF WellScoped
  <2> QED BY <1>2, <2>1 DEF SaInv, SaTypeOK, IssueCapabilityToken
<1>3. ASSUME NEW capabilities \in SaGrants, DelegateCapabilityToken(capabilities) PROVE SaInv'
  <2>1. Narrows(capabilities, saRoot)
    <3>1. WellScoped(capabilities)
      BY SaAssumption DEF WellScoped
    <3>2. Narrows(saLeaf, saRoot) /\ ValidateAttenuation(saLeaf, capabilities)
      BY <1>3 DEF SaInv, DelegateCapabilityToken
    <3> QED BY <3>1, <3>2, <1>1, NarrowsOnwards
  <2> QED BY <1>3, <2>1, ScopesAssumption DEF SaInv, SaTypeOK, DelegateCapabilityToken
<1>4. CASE UNCHANGED saVars
  BY <1>4 DEF SaInv, SaTypeOK, saVars
<1> QED BY <1>2, <1>3, <1>4 DEF SaNext

LEMMA SaConcludes == SaInv => SaTypeOK /\ LeafWithinRootButForMidnight
<1> SUFFICES ASSUME SaInv, ~DayMoves(saRoot, saLeaf), saDepth > 0, NEW r \in SaRequests, Permits(saLeaf, r)
             PROVE  Permits(saRoot, r)
  BY DEF SaInv, LeafWithinRootButForMidnight
<1>1. saRoot # {} /\ Narrows(saLeaf, saRoot) /\ WellScoped(saRoot) /\ WellScoped(saLeaf)
  BY GrantsAreScoped DEF SaInv
<1>2. r.amount \in Int /\ r.used \in Int /\ r.at \in Int
  BY SaAssumption
<1> QED BY <1>1, <1>2, NarrowerPermits

\* What a holder was delegated narrows, capability by capability, what the principal granted
\* (validateAttenuation compares it with the link before only), whatever the tokens between.
THEOREM DelegationNarrows == SaSpec => []SaInv
BY SaStart, SaStep, PTL DEF SaSpec

-----------------------------------------------------------------------------
(* The parts in MCExecution.                                               *)

executionVars == <<part, saVars, ctVars, orVars, vars, srVars, arbVars>>

\* Whatever part of MCExecution runs, each of these five does what its own specification says.
LEMMA ExecutionParts == ExecutionSpec => SrSpec /\ ArbSpec /\ OrSpec /\ CtSpec /\ SaSpec
<1>1. ExecutionInit => SrInit /\ ArbInit /\ OrInit /\ CtInit /\ SaInit
  BY DEF ExecutionInit
<1>2. [ExecutionNext]_executionVars => [SrNext]_srVars /\ [ArbNext]_arbVars /\ [OrNext]_orVars /\ [CtNext]_ctVars
                                         /\ [SaNext]_saVars
  BY DEF ExecutionNext, executionVars
<1> QED BY <1>1, <1>2, PTL DEF ExecutionSpec, executionVars, SrSpec, ArbSpec, OrSpec, CtSpec, SaSpec

\* The provider is asked to settle again only after a success that a crash or a failing audit
\* write kept from the record (executeWithRetry of settlement-retry.ts), and a dispute has one
\* decision, signed by a majority, however filings race (transitionDispute of state-machine.ts):
\* for every number of workers, attempts, arbitrators and filings.
THEOREM SettlementHolds == ExecutionSpec => []SettlementIsSound
<1>1. SrInv => SrTypeOK /\ SettledOnce
  BY SrAssumption DEF SrInv, SrTypeOK, SrAccounts, SrKept, SrTrailFollows, SettledOnce
<1>2. ArbInv => ArbTypeOK /\ DecidedOnce
  BY DEF ArbInv
<1> QED BY <1>1, <1>2, ExecutionParts, SettlementsAreCounted, DisputesAreDecidedOnce, PTL DEF SettlementIsSound

\* The sender's quota agrees with what was run for it, and a reply, also one out of the cache,
\* with what was recorded (handleEnvelope of orchestrator.ts): for every number of deliveries and
\* limits, wherever they are interrupted.
THEOREM OrchestratorHolds == ExecutionSpec => []OrchestratorIsSound
<1>1. OrInv => OrTypeOK /\ QuotaFollowsBusiness /\ RepliesAreTrue
  BY OrInvSuffices
<1> QED BY <1>1, ExecutionParts, OrchestratorKeepsQuota, PTL DEF OrchestratorIsSound

\* Whatever the calls, their order and their crashes, reservations committed in the order of
\* their stamps never exceed a limit, and what is settled keeps to the limit over the total it
\* was admitted on (checkAndReserve, doSettle): for every set of calls, finite set of records,
\* limits, amounts and windows.
THEOREM LimitsHold == ExecutionSpec => []LimitsAreKept
BY CtInvSuffices, BaselinesHold, ExecutionParts, PTL DEF LimitsAreKept

\* Only a settlement that found a reservation changes its row: whatever the calls do, an action
\* record stays as it is, a reservation that is settled or released is never pending again, and
\* its metric, stamp and baseline never change (insertReservation's ON CONFLICT DO NOTHING,
\* doSettle's UPDATE).
THEOREM ReservationsAreWrittenOnce == ExecutionSpec => OnlySettlementsChangeARow
<1> DEFINE Settled(r) == ctRows[r].type # "none" /\ ctRows'[r] # ctRows[r] =>
         /\ \E c \in Calls : call[c].pc = "settle" /\ call[c].rid = r
         /\ ctRows[r].type = "reserve" /\ ctRows'[r].type = "reserve"
         /\ ctRows'[r].status \in {"SETTLED", "RELEASED"}
         /\ ctRows'[r].metric = ctRows[r].metric /\ ctRows'[r].at = ctRows[r].at
         /\ ctRows'[r].cum = ctRows[r].cum
<1>1. CtInv /\ [CtNext]_ctVars => [\A r \in RecordIds : Settled(r)]_ctVars
  <2> SUFFICES ASSUME CtInv, [CtNext]_ctVars, NEW r \in RecordIds, ctRows[r].type # "none", ctRows'[r] # ctRows[r]
               PROVE  Settled(r)
    OBVIOUS
  <2>1. RowsKept /\ r \in Present
    BY CtStep DEF Present
  <2>2. PICK c \in Calls : SettleUpdate(c) /\ call[c].rid = r
    <3>1. ASSUME NEW c \in Calls, CommitReservation(c), call[c].pc = "commit" PROVE FALSE
      <4>1. call[c].wrote = TRUE => ctRows[call[c].rid].type = "none"
        BY <3>1, CallHas DEF CallFits, Writing
      <4>2. call[c].wrote \in BOOLEAN /\ (call[c].rid # r \/ call[c].wrote # TRUE)
        BY <4>1, CallHas, CallFields
      <4> QED BY <3>1, <4>2 DEF CommitReservation, CtInv, CtTypeOK
    <3>2. ASSUME NEW rid \in RecordIds, NEW status, NEW amount, RecordAction(rid, status, amount) PROVE FALSE
      BY <3>2 DEF RecordAction, CtInv, CtTypeOK
    <3>3. ASSUME NEW c \in Calls, SettleUpdate(c) PROVE call[c].rid = r
      BY <3>3 DEF SettleUpdate, CtInv, CtTypeOK
    <3> QED BY <3>1, <3>2, <3>3 DEF CtNext, EvaluateLimits, FindReservation, CtAcquireAdvisoryLock, CheckLimit,
               InsertReservation, CtCommit, CtCommitUnheard, CtRollback, SettleFind, CtTick, ctVars
  <2>3. ctRows[r] \in CtRow /\ CallFits(call[c]) /\ call[c].pc = "settle"
    BY <2>2, CallHas DEF CtInv, CtTypeOK, SettleUpdate
  <2>4. ctRows[r].type = "reserve" /\ call[c].to \in {"SETTLED", "RELEASED"}
    BY <2>2, <2>3 DEF CallFits
  <2>5. ctRows'[r] = [[ctRows[r] EXCEPT !.status = call[c].to] EXCEPT !.settled = call[c].amount]
    BY <2>2 DEF SettleUpdate, CtInv, CtTypeOK
  <2> QED BY <2>2, <2>3, <2>4, <2>5 DEF CtRow
<1> QED BY <1>1, BaselinesHold, ExecutionParts, PTL DEF CtSpec, OnlySettlementsChangeARow

\* A delegated token permits nothing its principal's token does not, but for the early hours of
\* another day when a window across midnight was narrowed to one that ends before it
\* (validateAttenuation against ScopeEvaluator): for every grant the schema lets through, every
\* length of the chain, of the day and of the week.
THEOREM DelegatedScopesHold == ExecutionSpec => []DelegatedScopesAreWithin
<1>1. SaInv => DelegatedScopesAreWithin
  BY SaConcludes DEF DelegatedScopesAreWithin
<1> QED BY <1>1, ExecutionParts, DelegationNarrows, PTL

=============================================================================
