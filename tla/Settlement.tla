----------------------------- MODULE Settlement ------------------------------
(***************************************************************************)
(* A settlement attempt at a payment provider and the panel that decides a *)
(* dispute about one (policy/src/settlement-retry, dispute-arbitration).   *)
(***************************************************************************)
EXTENDS Integers, FiniteSets, Sequences

-----------------------------------------------------------------------------
(***************************************************************************)
(* policy/src/settlement-retry/settlement-retry.ts: one attempt to settle  *)
(* an operation at a payment provider, its nine steps separated where the  *)
(* code awaits a port.  One operation, whose idempotency key is a hash of  *)
(* its fields, is tried by several workers, each with its own copy of the  *)
(* operation; a worker may crash between any two steps.                    *)
(*                                                                         *)
(* The ports have no implementation in the repository.  The advisory lock  *)
(* of the store is taken as its contract wants it used: held until the     *)
(* call is over; a write of the store lasts once it returned.              *)
(***************************************************************************)

CONSTANTS
    SrWorkers,    \* processes that call executeSettlementRetry
    SrMaxRetry,   \* MAX_RETRY_ATTEMPTS
    MaxSubmits,   \* bound: submissions to the provider
    MaxSrCalls    \* bound: calls started

ASSUME SrAssumption ==
    /\ SrMaxRetry \in Nat \ {0} /\ MaxSubmits \in Nat /\ MaxSrCalls \in Nat

VARIABLES
    srRecord,   \* the state in the IdempotencyRecord, "absent" before the first call
    srOp,       \* the operation each worker passes: [state, attempts]
    srCall,     \* where each worker's call is, and what the provider answered
    srTrail,    \* attempts in the audit trail and in the retry_attempts table
    srStarted,  \* calls started (bound)
    submitted,  \* history: submissions to the provider
    settled,    \* history: submissions the provider reported SUCCEEDED
    lost        \* history: of those, the ones whose call ended before it was recorded

srVars == <<srRecord, srOp, srCall, srTrail, srStarted, submitted, settled, lost>>

SrState == {"PENDING", "IN_PROGRESS", "SUCCEEDED", "FAILED", "DEAD_LETTER"}
SrTerminal == {"SUCCEEDED", "DEAD_LETTER"}
SrTransitions == {<<"PENDING", "IN_PROGRESS">>, <<"IN_PROGRESS", "SUCCEEDED">>,
                  <<"IN_PROGRESS", "FAILED">>, <<"IN_PROGRESS", "DEAD_LETTER">>,
                  <<"FAILED", "IN_PROGRESS">>, <<"FAILED", "DEAD_LETTER">>}
SettlementOperation == [state : SrState, attempts : 0..SrMaxRetry]
SrAnswer == {"none", "SUCCEEDED", "FAILED", "thrown"}

\* The record, the workers' copies, the calls and the counters keep their types.
SrTypeOK ==
    /\ srRecord \in SrState \cup {"absent"}
    /\ srOp \in [SrWorkers -> SettlementOperation]
    /\ srCall \in [SrWorkers -> [pc : {"idle", "locked", "checked", "progress", "submit",
                                       "audit", "persist", "finish"}, answer : SrAnswer]]
    /\ srTrail \in [audit : 0..MaxSubmits, attempts : 0..MaxSubmits]
    /\ srStarted \in 0..MaxSrCalls
    /\ submitted \in 0..MaxSubmits /\ settled \in 0..MaxSubmits /\ lost \in 0..MaxSubmits

SrInit ==
    /\ srRecord = "absent"
    /\ srOp = [w \in SrWorkers |-> [state |-> "PENDING", attempts |-> 0]]
    /\ srCall = [w \in SrWorkers |-> [pc |-> "idle", answer |-> "none"]]
    /\ srTrail = [audit |-> 0, attempts |-> 0]
    /\ srStarted = 0 /\ submitted = 0 /\ settled = 0 /\ lost = 0

-----------------------------------------------------------------------------
\* validateStateTransition
SrAllowed(from, to) == <<from, to>> \in SrTransitions

SrGoto(w, pc, answer) == srCall' = [srCall EXCEPT ![w] = [pc |-> pc, answer |-> answer]]

\* the call returns or throws and its lock is gone; a success nobody recorded is lost
SrEnd(w) ==
    /\ SrGoto(w, "idle", "none")
    /\ lost' = IF srCall[w].answer = "SUCCEEDED" THEN lost + 1 ELSE lost

\* step 2a: the advisory lock of the key
AcquireAdvisoryLock(w) ==
    /\ srCall[w].pc = "idle"
    /\ \A v \in SrWorkers : srCall[v].pc = "idle"
    /\ srStarted < MaxSrCalls /\ srStarted' = srStarted + 1
    /\ SrGoto(w, "locked", "none")
    /\ UNCHANGED <<srRecord, srOp, srTrail, submitted, settled, lost>>

\* mutant: a settlement that succeeded is taken up again
SkipsFinished_DeadLetterOnly(state) == state = "DEAD_LETTER"

\* step 2b: a record in a terminal state ends the call with the operation as it was given,
\* any other is continued, a missing one is inserted
SkipsFinished(state) == state \in SrTerminal

FindByKey(w) ==
    /\ srCall[w].pc = "locked"
    /\ IF SkipsFinished(srRecord)
       THEN SrEnd(w) /\ UNCHANGED srRecord
       ELSE /\ SrGoto(w, "checked", "none")
            /\ srRecord' = IF srRecord = "absent" THEN srOp[w].state ELSE srRecord
            /\ UNCHANGED lost
    /\ UNCHANGED <<srOp, srTrail, srStarted, submitted, settled>>

\* steps 3 to 6: the version, schema, freshness, audience, signature and revocation of the
\* operation pass, its state is not terminal, and the record moves to IN_PROGRESS
EnterInProgress(w) ==
    /\ srCall[w].pc = "checked"
    /\ srOp[w].state \notin SrTerminal
    /\ srOp[w].state # "IN_PROGRESS" => SrAllowed(srOp[w].state, "IN_PROGRESS")
    /\ srRecord' = IF srOp[w].state = "IN_PROGRESS" THEN srRecord ELSE "IN_PROGRESS"
    /\ SrGoto(w, "progress", "none")
    /\ UNCHANGED <<srOp, srTrail, srStarted, submitted, settled, lost>>

\* step 7a: the copy's attempts are used up
RetryExhausted(w) ==
    /\ srCall[w].pc = "progress"
    /\ srOp[w].attempts >= SrMaxRetry /\ SrAllowed("IN_PROGRESS", "DEAD_LETTER")
    /\ srRecord' = "DEAD_LETTER"
    /\ SrEnd(w)
    /\ UNCHANGED <<srOp, srTrail, srStarted, submitted, settled>>

\* step 7: the provider answers, or the gateway throws (an SrError or anything else)
SubmitSettlement(w, answer) ==
    /\ srCall[w].pc = "progress"
    /\ srOp[w].attempts < SrMaxRetry
    /\ submitted < MaxSubmits /\ submitted' = submitted + 1
    /\ settled' = IF answer = "SUCCEEDED" THEN settled + 1 ELSE settled
    /\ SrGoto(w, "audit", answer)
    /\ UNCHANGED <<srRecord, srOp, srTrail, srStarted, lost>>

\* step 8: the audit event, then the row of the attempt
RecordSettlementAuditEvent(w) ==
    /\ srCall[w].pc = "audit"
    /\ srTrail' = [srTrail EXCEPT !.audit = @ + 1]
    /\ SrGoto(w, "persist", srCall[w].answer)
    /\ UNCHANGED <<srRecord, srOp, srStarted, submitted, settled, lost>>

PersistRetryAttempt(w) ==
    /\ srCall[w].pc = "persist"
    /\ srTrail' = [srTrail EXCEPT !.attempts = @ + 1]
    /\ SrGoto(w, "finish", srCall[w].answer)
    /\ UNCHANGED <<srRecord, srOp, srStarted, submitted, settled, lost>>

\* step 9: what the record becomes
FinalState(w) ==
    CASE srCall[w].answer = "SUCCEEDED" -> "SUCCEEDED"
      [] srCall[w].answer = "FAILED" /\ srOp[w].attempts + 1 >= SrMaxRetry -> "DEAD_LETTER"
      [] OTHER -> "FAILED"

\* the caller gets the new operation, unless the gateway threw: then the error is rethrown
\* and the caller's copy, its count of attempts included, stays what it was
FinishAttempt(w) ==
    /\ srCall[w].pc = "finish"
    /\ srRecord' = FinalState(w)
    /\ srOp' = IF srCall[w].answer = "thrown" THEN srOp
               ELSE [srOp EXCEPT ![w] = [state |-> FinalState(w), attempts |-> srOp[w].attempts + 1]]
    /\ SrGoto(w, "idle", "none")
    /\ UNCHANGED <<srTrail, srStarted, submitted, settled, lost>>

\* a check of steps 1 to 7 fails, a port throws, or the process dies: nothing is undone
SrInterrupted(w) ==
    /\ srCall[w].pc # "idle"
    /\ SrEnd(w)
    /\ UNCHANGED <<srRecord, srOp, srTrail, srStarted, submitted, settled>>

SrNext == \E w \in SrWorkers :
    \/ AcquireAdvisoryLock(w) \/ FindByKey(w) \/ EnterInProgress(w) \/ RetryExhausted(w)
    \/ \E a \in SrAnswer \ {"none"} : SubmitSettlement(w, a)
    \/ RecordSettlementAuditEvent(w) \/ PersistRetryAttempt(w) \/ FinishAttempt(w)
    \/ SrInterrupted(w)

SrSpec == SrInit /\ [][SrNext]_srVars

-----------------------------------------------------------------------------
\* The provider settles an operation a second time only after a success that a crash or a
\* failing audit write kept from the record, however stale the copy of the worker that
\* retries; the record says SUCCEEDED only of a settled operation, and the audit trail has
\* every attempt the record knows of (steps 2, 7 and 8).
SettledOnce ==
    /\ settled <= 1 + lost
    /\ srRecord = "SUCCEEDED" => settled >= 1
    /\ srTrail.attempts <= srTrail.audit /\ srTrail.audit <= submitted

-----------------------------------------------------------------------------
(***************************************************************************)
(* Disputes decided by a panel of arbitrators (policy/src/dispute-         *)
(* arbitration/state-machine.ts).                                          *)
(*                                                                         *)
(* runDisputeArbitration7Steps is cut at its lookups, its calls of the     *)
(* panel and its transaction; several workers run it for filings that may  *)
(* share the dispute id or the contents.  The ports have no implementation *)
(* in the repository: the store is the tables of 032_dispute_arbitration   *)
(* and refuses an illegal transition as its contract says; the port that   *)
(* collects signatures may return any of them.                             *)
(***************************************************************************)

CONSTANTS
    DaWorkers,       \* processes that run an arbitration or an expiry
    DisputeIds,      \* dispute ids
    FilingHashes,    \* canonical hashes of filings
    Arbitrators,     \* DIDs of arbitrators
    MinArbitrators,  \* MIN_ARBITRATOR_COUNT
    MaxArbitrators,  \* MAX_ARBITRATOR_COUNT
    MaxDaCalls       \* bound: calls started

ASSUME DaAssumption ==
    /\ MinArbitrators \in Nat \ {0} /\ MaxArbitrators \in Nat /\ MinArbitrators <= MaxArbitrators
    /\ MaxDaCalls \in Nat /\ IsFiniteSet(Arbitrators) /\ "outsider" \notin Arbitrators
    /\ DisputeIds # {} /\ FilingHashes # {}

VARIABLES
    disputes,    \* managed_service.disputes: id -> [state, hash]
    decisions,   \* managed_service.arbitration_decisions: id -> [pool, threshold, signers]
    daAudit,     \* audit events of a dispute: how often it was filed, moved, decided
    daCall,      \* the calls in flight
    daStarted    \* calls started (bound)

arbVars == <<disputes, decisions, daAudit, daCall, daStarted>>

DisputeState == {"FILED", "RESOLVED", "EXPIRED"}
DisputeTransitions == {<<"FILED", "RESOLVED">>, <<"FILED", "EXPIRED">>}
Dispute == [state : DisputeState, hash : FilingHashes]
NoDispute == [state |-> "none", hash |-> "none"]
ArbitrationDecision == [pool : MinArbitrators..MaxArbitrators, threshold : 1..MaxArbitrators,
                        signers : SUBSET Arbitrators]
NoDecision == [pool |-> 0, threshold |-> 0, signers |-> {}]
NoEvents == [filed |-> 0, moved |-> 0, decided |-> 0]
IdleDaCall == [pc |-> "idle", id |-> CHOOSE d \in DisputeIds : TRUE,
               hash |-> CHOOSE h \in FilingHashes : TRUE, decision |-> NoDecision]

\* The tables, the audit trail and the calls keep their types.
ArbTypeOK ==
    /\ disputes \in [DisputeIds -> Dispute \cup {NoDispute}]
    /\ decisions \in [DisputeIds -> ArbitrationDecision \cup {NoDecision}]
    /\ daAudit \in [DisputeIds -> [filed : 0..MaxDaCalls, moved : 0..MaxDaCalls,
                                  decided : 0..MaxDaCalls]]
    /\ daCall \in [DaWorkers -> [pc : {"idle", "hash", "verify", "panel", "commit"},
                                 id : DisputeIds, hash : FilingHashes,
                                 decision : ArbitrationDecision \cup {NoDecision}]]
    /\ daStarted \in 0..MaxDaCalls

ArbInit ==
    /\ disputes = [d \in DisputeIds |-> NoDispute]
    /\ decisions = [d \in DisputeIds |-> NoDecision]
    /\ daAudit = [d \in DisputeIds |-> NoEvents]
    /\ daCall = [w \in DaWorkers |-> IdleDaCall]
    /\ daStarted = 0

-----------------------------------------------------------------------------
(* runDisputeArbitration7Steps                                             *)

DaGoto(w, pc) == daCall' = [daCall EXCEPT ![w] = [daCall[w] EXCEPT !.pc = pc]]
DaEnd(w) == daCall' = [daCall EXCEPT ![w] = IdleDaCall]

ComputeThreshold(poolSize) == poolSize \div 2 + 1

\* step 1: the filing's schema, version and age pass and no dispute has its hash
FindByCanonicalHash(w, d, h) ==
    /\ daCall[w].pc = "idle"
    /\ daStarted < MaxDaCalls /\ daStarted' = daStarted + 1
    /\ \A e \in DisputeIds : disputes[e].hash # h
    /\ daCall' = [daCall EXCEPT ![w] = [pc |-> "hash", id |-> d, hash |-> h, decision |-> NoDecision]]
    /\ UNCHANGED <<disputes, decisions, daAudit>>

\* the id may be taken only by a dispute with the same hash
FindByDisputeId(w) ==
    LET found == disputes[daCall[w].id]
    IN  /\ daCall[w].pc = "hash"
        /\ found = NoDispute \/ found.hash = daCall[w].hash
        /\ DaGoto(w, "verify")
        /\ UNCHANGED <<disputes, decisions, daAudit, daStarted>>

\* steps 2 and 3: the signed payload has the hash, the evidence, the token, the two parties
\* and the claimant's signature pass
VerifyFiling(w) ==
    /\ daCall[w].pc = "verify"
    /\ DaGoto(w, "panel")
    /\ UNCHANGED <<disputes, decisions, daAudit, daStarted>>

\* any list of signers the port may return
SignerLists(size) == UNION {[1..n -> Arbitrators \cup {"outsider"}] : n \in 0..size}
SignersOf(sigs) == {sigs[i] : i \in DOMAIN sigs}

NoDuplicateSigner(sigs) == \A i, j \in DOMAIN sigs : i # j => sigs[i] # sigs[j]

AllSelected(sigs, selected) == SignersOf(sigs) \subseteq selected

\* steps 4 and 5: a panel is selected, and its signatures are counted, distinct, of the panel
\* and each verified
AggregateSignatures(w) ==
    /\ daCall[w].pc = "panel"
    /\ \E poolSize \in MinArbitrators..MaxArbitrators, selected \in SUBSET Arbitrators :
         /\ Cardinality(selected) >= MinArbitrators
         /\ ComputeThreshold(poolSize) <= poolSize
         /\ \E sigs \in SignerLists(poolSize) :
              /\ Len(sigs) >= ComputeThreshold(poolSize)
              /\ NoDuplicateSigner(sigs)
              /\ AllSelected(sigs, selected)
              /\ daCall' = [daCall EXCEPT ![w] =
                    [pc |-> "commit", id |-> daCall[w].id, hash |-> daCall[w].hash,
                     decision |-> [pool |-> poolSize, threshold |-> ComputeThreshold(poolSize),
                                   signers |-> SignersOf(sigs)]]]
    /\ UNCHANGED <<disputes, decisions, daAudit, daStarted>>

\* mutant: a dispute that is there is overwritten
SaveDispute_Upsert(d, h) == \A e \in DisputeIds \ {d} : disputes[e].hash # h

\* the primary key and the UNIQUE hash of the disputes table
SaveDispute(d, h) == /\ disputes[d] = NoDispute
                     /\ \A e \in DisputeIds : disputes[e].hash # h

\* steps 6 and 7, one transaction: the dispute is saved as FILED, its filing audited, its
\* evidence stored, moved to RESOLVED, the decision saved, the move and the decision audited
CommitDispute(w) ==
    LET d == daCall[w].id
    IN  /\ daCall[w].pc = "commit"
        /\ SaveDispute(d, daCall[w].hash)
        /\ <<"FILED", "RESOLVED">> \in DisputeTransitions
        /\ disputes' = [disputes EXCEPT ![d] = [state |-> "RESOLVED", hash |-> daCall[w].hash]]
        /\ decisions' = [decisions EXCEPT ![d] = daCall[w].decision]
        /\ daAudit' = [daAudit EXCEPT ![d] = [filed |-> @.filed + 1, moved |-> @.moved + 1,
                                              decided |-> @.decided + 1]]
        /\ DaEnd(w)
        /\ UNCHANGED <<daStarted>>

\* a check or a port throws, the transaction rolls back, or the process dies
DaThrows(w) ==
    /\ daCall[w].pc # "idle"
    /\ DaEnd(w)
    /\ UNCHANGED <<disputes, decisions, daAudit, daStarted>>

\* the store refuses a transition that is not legal from the state of the row
UpdateDisputeState(from, to) == <<from, to>> \in DisputeTransitions

\* runDisputeExpiry: FILED to EXPIRED is legal, whatever the dispute's state is; the store
\* moves the row or throws, and only then is the move audited, in a second await.  A filing
\* commits its dispute RESOLVED, so no stored row is FILED, the store always throws and that
\* second await is never reached: the two are one step here
RunDisputeExpiry(d) ==
    /\ daStarted < MaxDaCalls /\ daStarted' = daStarted + 1
    /\ <<"FILED", "EXPIRED">> \in DisputeTransitions
    /\ IF disputes[d] # NoDispute /\ UpdateDisputeState(disputes[d].state, "EXPIRED")
       THEN /\ disputes' = [disputes EXCEPT ![d].state = "EXPIRED"]
            /\ daAudit' = [daAudit EXCEPT ![d].moved = @ + 1]
       ELSE UNCHANGED <<disputes, daAudit>>
    /\ UNCHANGED <<decisions, daCall>>

-----------------------------------------------------------------------------
ArbNext ==
    \/ \E w \in DaWorkers :
          \/ \E d \in DisputeIds, h \in FilingHashes : FindByCanonicalHash(w, d, h)
          \/ FindByDisputeId(w) \/ VerifyFiling(w) \/ AggregateSignatures(w)
          \/ CommitDispute(w) \/ DaThrows(w)
    \/ \E d \in DisputeIds : RunDisputeExpiry(d)

ArbSpec == ArbInit /\ [][ArbNext]_arbVars

-----------------------------------------------------------------------------
\* more than half of a panel of the size the decision names signed it
SignedByMajority(decision) == 2 * Cardinality(decision.signers) > decision.pool

\* However two filings race, a dispute has one decision, signed by a majority of a panel of
\* the size it names, no two disputes come from one filing, and the audit trail has exactly
\* the events of the stored state: nothing of a transaction that rolled back and no expiry of
\* a resolved dispute (steps 1, 5, 6 and 7, runDisputeExpiry).
DecidedOnce ==
    \A d \in DisputeIds :
        IF disputes[d] = NoDispute THEN decisions[d] = NoDecision /\ daAudit[d] = NoEvents
        ELSE /\ disputes[d].state = "RESOLVED"
             /\ daAudit[d] = [filed |-> 1, moved |-> 1, decided |-> 1]
             /\ SignedByMajority(decisions[d])
             /\ \A e \in DisputeIds \ {d} : disputes[e].hash # disputes[d].hash
=============================================================================
