----------------------------- MODULE AuditChains -----------------------------
(***************************************************************************)
(* Three chains that record what was changed, decided and seen: the policy *)
(* change records, the tamper-proof audit log and the governor's lane.  They*)
(* share no state.                                                         *)
(***************************************************************************)
EXTENDS Integers, FiniteSets, Sequences

-----------------------------------------------------------------------------
(***************************************************************************)
(* Policy changes and their records (policy/src/middleware/policy-change-  *)
(* recorder.ts, policy-change-record-routes.ts).                           *)
(*                                                                         *)
(* wrapOperation runs the caller's change and the record's INSERT in one   *)
(* transaction; it is cut at its statements.  The row locks of the change  *)
(* and the advisory lock of the agent's chain are held to the end of the   *)
(* transaction.  Readers page through the table by id.  The hash of a      *)
(* record stands for its id, 0 for the empty hash.                         *)
(***************************************************************************)

CONSTANTS
    PcWriters,   \* transactions in flight
    PcReaders,   \* clients that page through the records
    PcPolicies,  \* policies
    PcAgentOf,   \* policy -> the agent whose chain records its changes
    PcPageLimit, \* limit of a page
    MaxPcIds,    \* bound: ids of policy_change_records
    MaxPcCalls   \* bound: operations started

VARIABLES
    policies,  \* the business table: policy -> version
    pcTable,   \* policy.policy_change_records: id -> row
    pcNextId,  \* its sequence
    chainLock, \* advisory locks: agent -> holder
    pcCall,    \* transactions in flight
    pcReader,  \* readers
    pcCalls    \* operations started (bound)

pcVars == <<policies, pcTable, pcNextId, chainLock, pcCall, pcReader, pcCalls>>

Free == "free"

ASSUME PcAssumption ==
    /\ PcPolicies # {} /\ Free \notin PcWriters /\ \A p \in PcPolicies : PcAgentOf[p] # Free
    /\ PcPageLimit \in Nat \ {0} /\ MaxPcIds \in Nat /\ MaxPcCalls \in Nat

PcAgents == {PcAgentOf[p] : p \in PcPolicies}
PcIds == 1..MaxPcIds
PcRow == [agent : PcAgents, policy : PcPolicies, version : 1..MaxPcCalls, prev : 0..MaxPcIds]
NoPcRow == [agent |-> Free, policy |-> Free, version |-> 0, prev |-> 0]
IdlePc == [pc |-> "idle", policy |-> CHOOSE p \in PcPolicies : TRUE, version |-> 0, prev |-> 0, id |-> 0]
IdlePcReader == [agent |-> Free, cursor |-> 0, got |-> {}, over |-> TRUE]

\* The tables, the locks and the calls keep their types.
PcTypeOK ==
    /\ policies \in [PcPolicies -> 0..MaxPcCalls]
    /\ pcTable \in [PcIds -> PcRow \cup {NoPcRow}] /\ pcNextId \in 1..(MaxPcIds + 1)
    /\ chainLock \in [PcAgents -> PcWriters \cup {Free}]
    /\ pcCall \in [PcWriters -> [pc : {"idle", "lock", "prev", "insert", "commit"}, policy : PcPolicies,
                                 version : 0..MaxPcCalls, prev : 0..MaxPcIds, id : 0..MaxPcIds]]
    /\ pcReader \in [PcReaders -> [agent : PcAgents \cup {Free}, cursor : 0..MaxPcIds,
                                   got : SUBSET PcIds, over : BOOLEAN]]
    /\ pcCalls \in 0..MaxPcCalls

PcInit ==
    /\ policies = [p \in PcPolicies |-> 0]
    /\ pcTable = [i \in PcIds |-> NoPcRow] /\ pcNextId = 1
    /\ chainLock = [a \in PcAgents |-> Free]
    /\ pcCall = [w \in PcWriters |-> IdlePc]
    /\ pcReader = [r \in PcReaders |-> IdlePcReader]
    /\ pcCalls = 0

Stored(i) == pcTable[i] # NoPcRow
ChainOf(a) == {i \in PcIds : Stored(i) /\ pcTable[i].agent = a}
LastId(S) == IF S = {} THEN 0 ELSE CHOOSE i \in S : \A j \in S : j <= i
PcGoto(w, s) == pcCall' = [pcCall EXCEPT ![w] = s]

-----------------------------------------------------------------------------
(* wrapOperation                                                           *)

\* the parameters and the actor's key are checked before the transaction; the operation then
\* changes the policy, whose row it locks
RunOperation(w, p) ==
    /\ pcCall[w].pc = "idle"
    /\ pcCalls < MaxPcCalls /\ pcCalls' = pcCalls + 1
    /\ \A v \in PcWriters : pcCall[v].pc # "idle" => pcCall[v].policy # p
    /\ PcGoto(w, [IdlePc EXCEPT !.pc = "lock", !.policy = p, !.version = policies[p] + 1])
    /\ UNCHANGED <<policies, pcTable, pcNextId, chainLock, pcReader>>

\* mutant: the chain's lock is not waited for
LockChain_Ignored(a) == TRUE

\* pg_advisory_xact_lock(hashtext(agentDid))
LockChain(a) == chainLock[a] = Free

LockPolicyChain(w) ==
    LET a == PcAgentOf[pcCall[w].policy]
    IN  /\ pcCall[w].pc = "lock" /\ LockChain(a)
        /\ chainLock' = [chainLock EXCEPT ![a] = w]
        /\ PcGoto(w, [pcCall[w] EXCEPT !.pc = "prev"])
        /\ UNCHANGED <<policies, pcTable, pcNextId, pcReader, pcCalls>>

\* the chain's last row by id
SelectPrevious(w) ==
    /\ pcCall[w].pc = "prev"
    /\ PcGoto(w, [pcCall[w] EXCEPT !.pc = "insert", !.prev = LastId(ChainOf(PcAgentOf[pcCall[w].policy]))])
    /\ UNCHANGED <<policies, pcTable, pcNextId, chainLock, pcReader, pcCalls>>

\* the sequence gives the id, which a rollback does not return
InsertChangeRecord(w) ==
    /\ pcCall[w].pc = "insert" /\ pcNextId <= MaxPcIds
    /\ pcNextId' = pcNextId + 1
    /\ PcGoto(w, [pcCall[w] EXCEPT !.pc = "commit", !.id = pcNextId])
    /\ UNCHANGED <<policies, pcTable, chainLock, pcReader, pcCalls>>

Unlocked(w) == [a \in PcAgents |-> IF chainLock[a] = w THEN Free ELSE chainLock[a]]

\* mutant: the change commits before its record is written
CommitTogether_OperationFirst(w) ==
    LET c == pcCall[w]
    IN  /\ c.pc \in {"lock", "commit"}
        /\ policies' = [policies EXCEPT ![c.policy] = c.version]
        /\ pcTable' = IF c.pc = "lock" THEN pcTable
                      ELSE [pcTable EXCEPT ![c.id] = [agent |-> PcAgentOf[c.policy], policy |-> c.policy,
                                                      version |-> c.version, prev |-> c.prev]]

\* what COMMIT makes visible: the change and its record
CommitTogether(w) ==
    LET c == pcCall[w]
    IN  /\ c.pc = "commit"
        /\ policies' = [policies EXCEPT ![c.policy] = c.version]
        /\ pcTable' = [pcTable EXCEPT ![c.id] = [agent |-> PcAgentOf[c.policy], policy |-> c.policy,
                                                 version |-> c.version, prev |-> c.prev]]

CommitChange(w) ==
    /\ CommitTogether(w)
    /\ chainLock' = Unlocked(w)
    /\ PcGoto(w, IdlePc)
    /\ UNCHANGED <<pcNextId, pcReader, pcCalls>>

\* the operation, a check or a statement throws, or the connection ends: ROLLBACK
RollbackChange(w) ==
    /\ pcCall[w].pc # "idle"
    /\ chainLock' = Unlocked(w)
    /\ PcGoto(w, IdlePc)
    /\ UNCHANGED <<policies, pcTable, pcNextId, pcReader, pcCalls>>

-----------------------------------------------------------------------------
(* GET /policy-change-records                                              *)

\* a client starts to list, for one agent or for all of them; the checker allows it
StartList(r, a) ==
    /\ pcReader[r] = IdlePcReader
    /\ pcReader' = [pcReader EXCEPT ![r] = [agent |-> a, cursor |-> 0, got |-> {}, over |-> FALSE]]
    /\ UNCHANGED <<policies, pcTable, pcNextId, chainLock, pcCall, pcCalls>>

\* ids after the cursor, in order, one more than the page
BuildListQuery(a, cursor) ==
    {i \in PcIds : Stored(i) /\ (a # Free => pcTable[i].agent = a) /\ i > cursor}
PageOf(rows) == {i \in rows : Cardinality({j \in rows : j < i}) < PcPageLimit}

ListRecords(r) ==
    LET s == pcReader[r]
        rows == BuildListQuery(s.agent, s.cursor)
        page == PageOf(rows)
        hasMore == Cardinality(rows) > PcPageLimit
    IN  /\ ~s.over
        /\ pcReader' = [pcReader EXCEPT ![r] = [agent |-> s.agent, got |-> s.got \cup page,
                             cursor |-> IF page = {} THEN s.cursor ELSE LastId(page),
                             over |-> ~hasMore]]
        /\ UNCHANGED <<policies, pcTable, pcNextId, chainLock, pcCall, pcCalls>>

\* the client forgets what it read
EndList(r) ==
    /\ pcReader[r].over /\ pcReader[r] # IdlePcReader
    /\ pcReader' = [pcReader EXCEPT ![r] = IdlePcReader]
    /\ UNCHANGED <<policies, pcTable, pcNextId, chainLock, pcCall, pcCalls>>

-----------------------------------------------------------------------------
PcNext ==
    \/ \E w \in PcWriters :
          \/ \E p \in PcPolicies : RunOperation(w, p)
          \/ LockPolicyChain(w) \/ SelectPrevious(w) \/ InsertChangeRecord(w)
          \/ CommitChange(w) \/ RollbackChange(w)
    \/ \E r \in PcReaders :
          \/ \E a \in PcAgents \cup {Free} : StartList(r, a)
          \/ ListRecords(r) \/ EndList(r)

PcSpec == PcInit /\ [][PcNext]_pcVars

-----------------------------------------------------------------------------
\* Every version of a policy has one record and no record stands for a change that was rolled
\* back, although the sequence leaves gaps and transactions of one agent overlap; and the records
\* of an agent are one chain in the order of their ids, so a reader who pages by id can verify it
\* (wrapOperation, writeWithinTransaction).
ChangesAreChained ==
    /\ \A p \in PcPolicies : \A v \in 1..MaxPcCalls :
         Cardinality({i \in PcIds : pcTable[i].policy = p /\ pcTable[i].version = v})
         = IF v <= policies[p] THEN 1 ELSE 0
    /\ \A a \in PcAgents : \A i \in ChainOf(a) : pcTable[i].prev = LastId({j \in ChainOf(a) : j < i})

\* Pages filtered by agent skip no record of the agent: what lies behind the cursor was read,
\* because ids of one chain are committed in order (the single-key cursor of buildListQuery).
\* Without the filter a lower id may be committed behind the cursor.
FilteredPagesSkipNothing ==
    \A r \in PcReaders : pcReader[r].agent # Free =>
        \A i \in ChainOf(pcReader[r].agent) : i <= pcReader[r].cursor => i \in pcReader[r].got

-----------------------------------------------------------------------------
(***************************************************************************)
(* The tamper-proof audit log (policy/src/audit-tamper-proof): writers     *)
(* append hash-linked events to one chain per (tenant, audit class) under  *)
(* an advisory lock, over the in-memory store; the verifier replays a      *)
(* whole chain before it vouches for one event.  A database administrator  *)
(* may change or remove stored events behind the store's back.             *)
(***************************************************************************)

CONSTANTS
    TpWriters,       \* the calls of writeAuditEvent that may overlap
    TpTenants,       \* tenants
    TpActorTenant,   \* InMemoryTenantResolver.mappings: actor -> tenant
    TpClasses,       \* audit classes in use, of "L1", "L2", "L3"
    TpInputs,        \* the events callers submit: [actor, role, tenant, class, body]
    MaxTpEvents,     \* bound: events submitted
    MaxTampers       \* bound: rows changed behind the store's back

ASSUME TpAssumption ==
    /\ IsFiniteSet(TpWriters)
    /\ \A i \in TpInputs : i.tenant \in TpTenants /\ i.class \in TpClasses
    /\ MaxTpEvents \in Nat /\ MaxTampers \in Nat

VARIABLES
    tpChains,        \* the events of each (tenant, class), in the order stored
    lockHolders,     \* the store's lock entries, with who holds and who waits
    tpWrite,         \* tpWrite[w]: where a write stands
    tpSubmitted,     \* events submitted
    tpTampers,       \* rows tampered with
    tpWritten,       \* history: each chain as the writers stored it
    tailTampered,    \* history: the last event of a chain was tampered with
    lockShared       \* history: two writers held one lock at the same time

tpVars == <<tpChains, lockHolders, tpWrite, tpSubmitted, tpTampers, tpWritten,
            tailTampered, lockShared>>

ChainKeys == TpTenants \X TpClasses

NoHash == <<>>

BadBody == "array"

\* buildTamperProofHashInput: every field but the hash and the signature is
\* bound; a missing previousHash is bound as the genesis marker
TamperProofHash(ev) == <<ev.id, ev.by, ev.body, ev.previous>>

NoWrite == [at |-> "idle"]

TpInit ==
    /\ tpChains = [k \in ChainKeys |-> <<>>]
    /\ lockHolders = [k \in ChainKeys |-> [held |-> FALSE, holders |-> {}, waiters |-> {}]]
    /\ tpWrite = [w \in TpWriters |-> NoWrite]
    /\ tpSubmitted = 0
    /\ tpTampers = 0
    /\ tpWritten = [k \in ChainKeys |-> <<>>]
    /\ tailTampered = FALSE
    /\ lockShared = FALSE

-----------------------------------------------------------------------------
(* TamperProofAuditWriter.writeAuditEvent                                   *)

\* resolveCallerTenant and assertTenantScope: an actor writes for its own tenant
AssertTenantScope(i) ==
    i.actor \in DOMAIN TpActorTenant /\ TpActorTenant[i.actor] = i.tenant

\* the L1 role writes L1 alone, the L2 role anything else; no role is not checked
AssertDbRoleMatchesAuditClass(role, class) ==
    /\ role = "audit_writer_l1" => class = "L1"
    /\ role = "audit_writer_l2" => class # "L1"

KeyOf(w) == <<tpWrite[w].input.tenant, tpWrite[w].input.class>>

\* acquireAdvisoryLock: a caller awaits the entry it finds, or takes one of its own
AcquireAdvisoryLock(lock, w) ==
    [held |-> TRUE,
     holders |-> IF lock.held THEN lock.holders ELSE lock.holders \cup {w},
     waiters |-> IF lock.held THEN lock.waiters \cup {w} ELSE lock.waiters]

\* the caller's checks, and the wait for the lock entry found there
SubmitEvent(w, i) ==
    LET k == <<i.tenant, i.class>>
        admitted == AssertTenantScope(i) /\ AssertDbRoleMatchesAuditClass(i.role, i.class)
    IN  /\ tpWrite[w].at = "idle"
        /\ tpSubmitted < MaxTpEvents
        /\ tpSubmitted' = tpSubmitted + 1
        /\ IF ~admitted
           THEN UNCHANGED <<tpWrite, lockHolders>>
           ELSE /\ tpWrite' = [tpWrite EXCEPT ![w] =
                      [at |-> IF lockHolders[k].held THEN "waiting" ELSE "locked",
                       input |-> i, id |-> tpSubmitted + 1, previous |-> NoHash]]
                /\ lockHolders' = [lockHolders EXCEPT ![k] = AcquireAdvisoryLock(lockHolders[k], w)]
        /\ UNCHANGED <<tpChains, tpTampers, tpWritten, tailTampered, lockShared>>

\* releaseAdvisoryLock, by the caller once the writer is done: the current entry is
\* gone and its promise resolved
LetGo(lock, w) == [held |-> FALSE, holders |-> lock.holders \ {w}, waiters |-> {}]

ReleaseAdvisoryLock(w) ==
    LET k == KeyOf(w)
    IN  /\ lockHolders' = [lockHolders EXCEPT ![k] = LetGo(@, w)]
        /\ tpWrite' = [x \in TpWriters |->
              IF x = w THEN NoWrite
              ELSE IF x \in lockHolders[k].waiters THEN [tpWrite[x] EXCEPT !.at = "woken"]
              ELSE tpWrite[x]]

\* everyone who awaited that promise goes on in turn and takes an entry of its own, over the one
\* it finds: who awaits that one is not woken any more
TakeLock(lock, w) == [held |-> TRUE, holders |-> lock.holders \cup {w}, waiters |-> {}]

WakeWriter(w) ==
    LET k == KeyOf(w)
    IN  /\ tpWrite[w].at = "woken"
        /\ tpWrite' = [tpWrite EXCEPT ![w] = [@ EXCEPT !.at = "locked"]]
        /\ lockHolders' = [lockHolders EXCEPT ![k] = TakeLock(@, w)]
        /\ lockShared' = (lockShared \/ lockHolders[k].holders # {})
        /\ UNCHANGED <<tpChains, tpSubmitted, tpTampers, tpWritten, tailTampered>>

\* fetchLastTamperProofHash: of the last event of this (tenant, class)
FetchLastTamperProofHash(w) ==
    LET chain == tpChains[KeyOf(w)]
    IN  /\ tpWrite[w].at = "locked"
        /\ tpWrite' = [tpWrite EXCEPT ![w] =
              [at |-> "insert", input |-> tpWrite[w].input, id |-> tpWrite[w].id,
               previous |-> IF chain = <<>> THEN NoHash ELSE chain[Len(chain)].hash]]
        /\ UNCHANGED <<tpChains, lockHolders, tpSubmitted, tpTampers, tpWritten, tailTampered, lockShared>>

\* the event with its hash; a payload that is not an object throws before that
EventOf(w) ==
    LET i == tpWrite[w].input
        ev == [id |-> tpWrite[w].id, by |-> i.actor, body |-> i.body,
               previous |-> tpWrite[w].previous, hash |-> NoHash]
    IN  [ev EXCEPT !.hash = TamperProofHash(ev)]

\* insertEvent; whether it stores the event or throws, the caller releases the lock
InsertEvent(w) ==
    LET k == KeyOf(w)
    IN  /\ tpWrite[w].at = "insert"
        /\ IF tpWrite[w].input.body = BadBody
           THEN UNCHANGED <<tpChains, tpWritten>>
           ELSE /\ tpChains' = [tpChains EXCEPT ![k] = Append(@, EventOf(w))]
                /\ tpWritten' = [tpWritten EXCEPT ![k] = Append(@, EventOf(w))]
        /\ ReleaseAdvisoryLock(w)
        /\ UNCHANGED <<tpSubmitted, tpTampers, tailTampered, lockShared>>

-----------------------------------------------------------------------------
(* The administrator, and TamperProofAuditVerifier                          *)

\* a stored body is changed, a link is changed, a hash is changed to fit the
\* changed body, or the event is removed
Tampered(ev) ==
    {[ev EXCEPT !.body = "changed"], [ev EXCEPT !.previous = NoHash],
     [ev EXCEPT !.body = "changed", !.hash = TamperProofHash([ev EXCEPT !.body = "changed"])]}

Tamper(k) ==
    /\ tpTampers < MaxTampers
    /\ tpTampers' = tpTampers + 1
    /\ \E i \in DOMAIN tpChains[k] :
       /\ tailTampered' = (tailTampered \/ i = Len(tpChains[k]))
       /\ \/ \E ev \in Tampered(tpChains[k][i]) :
                /\ ev # tpChains[k][i]
                /\ tpChains' = [tpChains EXCEPT ![k][i] = ev]
          \/ tpChains' = [tpChains EXCEPT ![k] =
                 SubSeq(@, 1, i - 1) \o SubSeq(@, i + 1, Len(@))]
    /\ UNCHANGED <<lockHolders, tpWrite, tpSubmitted, tpWritten, lockShared>>

\* mutant: the loop starts one event late
LinkHolds_SkipsFirst(chain, i) == i > 2 => chain[i].previous = chain[i - 1].hash

\* an event links to the one before it
LinkHolds(chain, i) == i > 1 => chain[i].previous = chain[i - 1].hash

\* reverseHashChainReplay: genesis, every hash, every link, and the event itself
ReverseHashChainReplay(chain) ==
    \A i \in DOMAIN chain :
        /\ (i = 1) <=> (chain[i].previous = NoHash)
        /\ TamperProofHash(chain[i]) = chain[i].hash
        /\ LinkHolds(chain, i)

\* verifyAuditEvent: found for this tenant, and the replay succeeds
VerifyAuditEvent(k, id) ==
    /\ \E i \in DOMAIN tpChains[k] : tpChains[k][i].id = id
    /\ ReverseHashChainReplay(tpChains[k])

TpNext ==
    \/ \E w \in TpWriters :
          \/ \E i \in TpInputs : SubmitEvent(w, i)
          \/ WakeWriter(w) \/ FetchLastTamperProofHash(w)
          \/ InsertEvent(w)
    \/ \E k \in ChainKeys : Tamper(k)

TpSpec == TpInit /\ [][TpNext]_tpVars

-----------------------------------------------------------------------------

\* The types of the writes, the lock entries and the bounds.
TpTypeOK ==
    /\ \A w \in TpWriters : tpWrite[w].at \in {"idle", "waiting", "woken", "locked", "insert"}
    /\ \A k \in ChainKeys : lockHolders[k].holders \subseteq TpWriters
                            /\ lockHolders[k].waiters \subseteq TpWriters
    /\ tpSubmitted \in 0..MaxTpEvents
    /\ tpTampers \in 0..MaxTampers

\* the writer of the stored event was the tenant's own
OwnTenantOnly ==
    \A k \in ChainKeys : \A i \in DOMAIN tpWritten[k] : TpActorTenant[tpWritten[k][i].by] = k[1]

\* Replaying a chain finds what one change hides: when one row was tampered with,
\* even with a hash made to fit, and it was not the last of its chain, no event of
\* that chain is vouched for (reverseHashChainReplay).
VerifiedIsAsWritten ==
    tpTampers <= 1 /\ ~tailTampered /\ ~lockShared =>
        \A k \in ChainKeys, id \in 1..MaxTpEvents :
            VerifyAuditEvent(k, id) => tpChains[k] = tpWritten[k]

\* An untouched chain verifies, however the writers interleaved, unless the
\* in-memory lock had let two of them in; and nobody writes for another tenant.
AuditChainsHold ==
    /\ tpTampers = 0 /\ ~lockShared =>
          \A k \in ChainKeys : ReverseHashChainReplay(tpChains[k])
    /\ OwnTenantOnly
    /\ VerifiedIsAsWritten

-----------------------------------------------------------------------------
(***************************************************************************)
(* The governor's lane (policy/src/audit-governor-lane): the arbitration   *)
(* an operator decides (arbitration.ts) and the verification of the shadow *)
(* side table against the main one (side-table.ts), which awaits one       *)
(* record of the main table after another while rows are still appended.   *)
(*                                                                         *)
(* A row's hash covers its predecessor's hash and its own content, and is  *)
(* modelled by exactly these.  Appends by the ledger's recorder, with its  *)
(* transaction, are in module ActionLedger; here a committed append is one *)
(* step.                                                                   *)
(***************************************************************************)

CONSTANTS
    GovCases,      \* ids of arbitrations
    GovRecords,    \* ids of the main table's records
    GovOperators,  \* operators, each with its own verdict
    MaxGovRows,    \* bound: rows appended
    MaxGovTampers, \* bound: changes behind the appender's back
    MaxGovRuns     \* bound: verifications

ASSUME GovAssumption == MaxGovRows \in Nat /\ MaxGovTampers \in Nat /\ MaxGovRuns \in Nat

VARIABLES
    cases,      \* id -> [record, state, verdict]
    operator,   \* operator -> the arbitration its UPDATE missed, while it reads the state
    told,       \* operator -> the answers of submitVerdict
    sideTable,  \* the side table: [id, content, prev, hash]
    records,    \* the main table: id -> content, 0 when there is none
    tampers,    \* changes made behind the appender's back
    govVerify,  \* the verification under way: [pc, at, tampers, result]
    govRuns     \* verifications started

caseVars == <<cases, operator, told>>
sideVars == <<sideTable, records, tampers, govVerify, govRuns>>
govVars == <<caseVars, sideVars>>

NoCase == [record |-> "none", state |-> "INITIAL", verdict |-> "none"]
NotVerifying == [pc |-> "idle", at |-> 0, tampers |-> 0, result |-> "none"]
GenesisHash == << >>
RowHash(prev, id, content) == <<prev, id, content>>
SideTableRow(prev, id) == [id |-> id, content |-> 1, prev |-> prev, hash |-> RowHash(prev, id, 1)]
HashBefore(i) == IF i = 1 THEN GenesisHash ELSE sideTable[i - 1].hash

GovTypeOK ==
    /\ \A g \in GovCases : cases[g].state \in {"INITIAL", "ARBITRATED_PENDING_OPERATOR", "ARBITRATED"}
    /\ \A o \in GovOperators : operator[o] \in GovCases \cup {"none"}
    /\ Len(sideTable) <= MaxGovRows /\ tampers \in 0..MaxGovTampers /\ govRuns \in 0..MaxGovRuns
    /\ govVerify.pc \in {"idle", "running"} /\ govVerify.at \in 0..MaxGovRows

GovInit ==
    /\ cases = [g \in GovCases |-> NoCase]
    /\ operator = [o \in GovOperators |-> "none"]
    /\ told = [o \in GovOperators |-> {}]
    /\ sideTable = << >> /\ records = [r \in GovRecords |-> 0] /\ tampers = 0
    /\ govVerify = NotVerifying /\ govRuns = 0

-----------------------------------------------------------------------------
(* OperatorArbitrationStateMachine, over policy.arbitration_records or in memory *)

\* uniq_arbitration_pending_per_record; the in-memory machine scans for the same
PendingFree(r) == \A g \in GovCases : cases[g].record = r => cases[g].state # "ARBITRATED_PENDING_OPERATOR"

RequestArbitration(g, r) ==
    /\ cases[g] = NoCase /\ PendingFree(r)
    /\ cases' = [cases EXCEPT ![g] = [record |-> r, state |-> "ARBITRATED_PENDING_OPERATOR", verdict |-> "none"]]
    /\ UNCHANGED <<operator, told, sideVars>>

\* mutant: WHERE arbitration_id = $1
VerdictOpen_Exists(g) == cases[g] # NoCase

\* the condition of the UPDATE, VALID_TRANSITIONS in memory
VerdictOpen(g) == cases[g].state = "ARBITRATED_PENDING_OPERATOR"

\* submitVerdict: the UPDATE finds the row pending
SubmitVerdict(o, g) ==
    /\ operator[o] = "none" /\ VerdictOpen(g)
    /\ cases' = [cases EXCEPT ![g].state = "ARBITRATED", ![g].verdict = o]
    /\ told' = [told EXCEPT ![o] = @ \cup {<<g, "ARBITRATED">>}]
    /\ UNCHANGED <<operator, sideVars>>

\* ... or not; a SELECT of its own then tells a missing row from a decided one
SubmitMisses(o, g) ==
    /\ operator[o] = "none" /\ ~VerdictOpen(g)
    /\ operator' = [operator EXCEPT ![o] = g]
    /\ UNCHANGED <<cases, told, sideVars>>

ExplainRefusal(o) ==
    LET g == operator[o]
    IN  /\ g # "none"
        /\ told' = [told EXCEPT ![o] = @ \cup {<<g, IF cases[g] = NoCase THEN "not found"
                                                    ELSE "illegal state transition">>}]
        /\ operator' = [operator EXCEPT ![o] = "none"]
        /\ UNCHANGED <<cases, sideVars>>

-----------------------------------------------------------------------------
(* The side table *)

AppendedBefore(r) == \E i \in 1..Len(sideTable) : sideTable[i].id = r

\* A record is committed to the main table together with its row; a repeated id is refused.
AppendRow(r) ==
    /\ records[r] = 0 /\ ~AppendedBefore(r) /\ Len(sideTable) < MaxGovRows
    /\ records' = [records EXCEPT ![r] = 1]
    /\ sideTable' = Append(sideTable, SideTableRow(HashBefore(Len(sideTable) + 1), r))
    /\ UNCHANGED <<caseVars, tampers, govVerify, govRuns>>

\* The storage is changed behind the appender's back: a row's content, its link, a main record.
\* A row taken out of the middle shows as the broken link of the next; verifyChain has nothing to
\* miss the last rows by, and taking them is left out.
TamperRow(i) ==
    /\ tampers < MaxGovTampers /\ tampers' = tampers + 1
    /\ \/ sideTable' = [sideTable EXCEPT ![i].content = 2] /\ UNCHANGED records
       \/ sideTable' = [sideTable EXCEPT ![i].prev = <<"forged">>] /\ UNCHANGED records
       \/ sideTable[i].content = 1 /\ UNCHANGED sideTable /\ records' = [records EXCEPT ![sideTable[i].id] = 2]
       \/ sideTable[i].content = 1 /\ UNCHANGED sideTable /\ records' = [records EXCEPT ![sideTable[i].id] = 0]
    /\ UNCHANGED <<caseVars, govVerify, govRuns>>

\* verifyChain of the whole table with the main table's loader
StartVerify ==
    /\ govVerify.pc = "idle" /\ sideTable # << >> /\ govRuns < MaxGovRuns
    /\ govVerify' = [pc |-> "running", at |-> 0, tampers |-> tampers, result |-> "none"]
    /\ govRuns' = govRuns + 1
    /\ UNCHANGED <<caseVars, sideTable, records, tampers>>

\* the row links to its predecessor, and its hash is the hash of what it says
LinkIntact(i) ==
    /\ sideTable[i].prev = HashBefore(i)
    /\ sideTable[i].hash = RowHash(sideTable[i].prev, sideTable[i].id, sideTable[i].content)

\* mutant: the record is found and its content not compared
AnchorHolds_Present(i) == records[sideTable[i].id] # 0

\* the main table still has the record the row anchors
AnchorHolds(i) == records[sideTable[i].id] = sideTable[i].content
RowVerdict(i) ==
    CASE ~LinkIntact(i) -> "broken"
      [] ~AnchorHolds(i) -> "unanchored"
      [] OTHER -> "ok"

\* One turn of the loop: the row, and the main record it awaits.  Rows appended meanwhile are met.
VerifyRow ==
    LET i == govVerify.at + 1
    IN  /\ govVerify.pc = "running"
        /\ govVerify' = IF i > Len(sideTable) THEN [govVerify EXCEPT !.pc = "idle", !.result = "valid"]
                        ELSE IF RowVerdict(i) = "ok" THEN [govVerify EXCEPT !.at = i]
                        ELSE [govVerify EXCEPT !.pc = "idle", !.result = RowVerdict(i)]
        /\ UNCHANGED <<caseVars, sideTable, records, tampers, govRuns>>

CaseNext ==
    \/ \E g \in GovCases, r \in GovRecords : RequestArbitration(g, r)
    \/ \E o \in GovOperators : ExplainRefusal(o) \/ \E g \in GovCases : SubmitVerdict(o, g) \/ SubmitMisses(o, g)

SideNext ==
    \/ \E r \in GovRecords : AppendRow(r)
    \/ \E i \in 1..Len(sideTable) : TamperRow(i)
    \/ StartVerify \/ VerifyRow

\* the two share no state
GovNext == CaseNext \/ SideNext

GovSpec == GovInit /\ [][GovNext]_govVars

-----------------------------------------------------------------------------
\* Racing operators decide an arbitration once: the verdict on file is the one that was
\* acknowledged, and no second one was.
OneVerdictPerCase ==
    \A g \in GovCases, o \in GovOperators : <<g, "ARBITRATED">> \in told[o] => cases[g].verdict = o

\* A record waits for one operator's decision at a time.
OnePendingPerRecord ==
    \A g, h \in GovCases : VerdictOpen(g) /\ VerdictOpen(h) /\ cases[g].record = cases[h].record => g = h

\* A verification is never wrong about what it did not race with: it passes only a table that was
\* whole when it began, and fails only one somebody changed, however many rows are appended meanwhile.
VerificationIsTrue ==
    govVerify.result # "none" => /\ govVerify.result = "valid" => govVerify.tampers = 0
                                 /\ tampers = 0 => govVerify.result = "valid"

GovernorLaneIsSound == OneVerdictPerCase /\ OnePendingPerRecord /\ VerificationIsTrue
=============================================================================
