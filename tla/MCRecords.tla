----------------------------- MODULE MCRecords ------------------------------
(***************************************************************************)
(* What is recorded about an action, for TLC: the hash-chained ledger      *)
(* (ActionLedger), the barrier that puts the record before the action      *)
(* (AuditBarrier), the settlement between two domains that is reconciled   *)
(* from records (CrossDomainSettle), and the records of policy changes, the*)
(* tamper-proof log and the governor's lane (AuditChains).  They share no  *)
(* state, so a behaviour runs one of them, which `part` names.             *)
(***************************************************************************)
EXTENDS ActionLedger, AuditBarrier, CrossDomainSettle, AuditChains

CONSTANT Parts   \* the parts that are run

VARIABLE part

chainVars == <<pcVars, tpVars, govVars>>

RecordsInit ==
    /\ part \in Parts
    /\ Init /\ AbInit /\ CdInit /\ PcInit /\ TpInit /\ GovInit

RecordsNext ==
    /\ UNCHANGED part
    /\ IF part = "ledger" THEN Next ELSE UNCHANGED vars
    /\ IF part = "barrier" THEN AbNext ELSE UNCHANGED abVars
    /\ IF part = "settle" THEN CdNext ELSE UNCHANGED cdVars
    /\ IF part = "changes" THEN PcNext ELSE UNCHANGED pcVars
    /\ IF part = "log" THEN TpNext ELSE UNCHANGED tpVars
    /\ \/ part = "cases" /\ CaseNext
       \/ part = "side table" /\ SideNext
       \/ part \notin {"cases", "side table"} /\ UNCHANGED govVars

\* the fairness of the parts; the clock and the reaper's timer run in theirs only
RecordsFairness ==
    /\ Fairness /\ AbFairness
    /\ WF_cdVars(part = "settle" /\ ReapExpiredPending) /\ WF_cdVars(part = "settle" /\ CdTick)

RecordsSpec ==
    RecordsInit /\ [][RecordsNext]_<<part, vars, abVars, cdVars, chainVars>> /\ RecordsFairness

-----------------------------------------------------------------------------
(* What is put to the parts.                                               *)

\* the intents of one agent
SameAgent == [i \in Intents |-> CHOOSE a \in AbAgents : TRUE]

\* two policies of one agent and one of another
AgentOfPolicy == [q \in PcPolicies |-> IF q = "q3" THEN "b" ELSE "a"]

\* events with and without the role their class needs, of another tenant, and malformed
ActorTenant == [x1 |-> "t1", x2 |-> "t2"]
Event(actor, role, class, body) ==
    [actor |-> actor, role |-> role, tenant |-> "t1", class |-> class, body |-> body]
Events ==
    {Event("x1", "none", "L1", "b"), Event("x1", "audit_writer_l2", "L2", "b"),
     Event("x1", "audit_writer_l2", "L1", "b"), Event("x2", "none", "L1", "b"),
     Event("x1", "audit_writer_l1", "L1", "array")}

-----------------------------------------------------------------------------
\* The reconciliation cursor passes only records that were read or came in late, and a
\* settled record is never released (querySettles, updateCursor, reapExpiredPending).
ReconciliationIsSound == part = "settle" => CdTypeOK /\ CursorSkipsOnlyLateRows

\* The other chains of the audit: every policy change has its record, in its agent's chain; the
\* tamper-proof log and the governor's side table report a change of what they hold and nothing
\* else, and an arbitration has one verdict, whoever writes or decides at the same time.
AuditChainsAreSound ==
    /\ part = "changes" => PcTypeOK /\ ChangesAreChained /\ FilteredPagesSkipNothing
    /\ part = "log" => TpTypeOK /\ AuditChainsHold
    /\ part \in {"cases", "side table"} => GovTypeOK /\ GovernorLaneIsSound
=============================================================================
