# Coivitas in TLA+

TLA+ models of the stateful parts of Coivitas: the ledgers, limits and audit
chains of `packages/policy`, sessions and transports of
`packages/communication`, identities and tokens of `packages/identity`, and the
orchestrator, login, tenancy and clients of `packages/sdk` and
`packages/managed-service-runtime`. TLC checks them on small instances; TLAPS
proves the safety properties of every part but one (tokens of several signers),
and two refinements, for every value of the constants. `PROJECT.json` lists the runs, the source lines behind
every definition, the hazards, the findings and the theorems.

    tlc -workers 2 -config Records.cfg MCRecords
    tlapm ExecutionProofs.tla

## The system

Agents with DIDs open sessions with one another, exchange signed envelopes, and
act under capability tokens whose limits a guard enforces and whose use a
hash-chained ledger records. The way of a request:

    initiator --HTTP/WS--> responder       handshake -> row of communication.sessions
    envelope -----------> orchestrator     response cache, session fence, token check
                            |-- runtime guard -> scope evaluator -> cumulative tracker (reserve)
                            |-- audit barrier.beforeExecute -> action recorder (ACTION_INTENT)
                            |-- business handler
                            |-- audit barrier.afterExecute  -> action recorder (ACTION_RESULT)
                            `-- settle the reservation, envelope ledger finalize, receipt
    later:   settlement retries, cross-domain reconciliation, disputes
    beside:  registry and resolver of DIDs, revocation, trust boundaries,
             auditors reading the ledger, login and tenants, the MCP bridge

Everything that outlives a request is in PostgreSQL with explicit locks; queues,
nonces, caches, timers and sockets are in the memory of one process. Concurrency
therefore comes in two forms, and every module has one or both as its grain:
*between two SQL statements* of a transaction, and *between two awaits* of a
TypeScript function. What runs between two awaits is one action, with everything
it assigns.

### Inventory

| Component | State | Operations | What is hard | Module |
|---|---|---|---|---|
| Envelope ledger (`policy/src/envelope-ledger`) | claims with lease and owner | claim, finalize, reject, expireStalePending | a lease ends between SELECT and UPDATE; INSERTs race a partial unique index | EnvelopeLedger |
| Action-record ledger (`policy/src/recorder`, `side-table.ts`) | `action_records`, `audit_side_table`, advisory locks | record, append, verifyIntegrity, verifyChain | order of stamps against order of locks; rollback after the append | ActionLedger |
| Cumulative limits (`policy/src/guard`) | reservation and action rows | evaluateAll, checkAndReserve, settle, release | the caller's `now` against the lock; retries; several limits on one key | CumulativeTracker |
| Audit barrier (`audit-barrier.ts`) | queue per agent, intent states | beforeExecute, afterExecute, beforeReceiptSign | a timer races a write that commits later; restart | AuditBarrier |
| Orchestrator, guard and engine (`sdk/src/orchestrator.ts`, `policy/src/engine.ts`) | response cache, quota | handleEnvelope, executeWithPolicy | a resent envelope during execution; a step of several fails; crash | Orchestrator |
| Settlement retry (`policy/src/settlement-retry`) | operation, attempts | the nine steps of a retry | crash or audit failure after the submit; stale copies | Settlement |
| Dispute arbitration (`policy/src/dispute-arbitration`) | disputes, decisions, audit | file and resolve, expire | two filings of one dispute; rollback; expiry | Settlement |
| Cross-domain settlement (`policy/src/cross-domain-settle`) | rows of the recipient, cursor of the sender | settle, confirm, reap, reconcile | late commits behind the cursor; two databases | CrossDomainSettle |
| Policy changes (`policy/src/middleware`) | chain per agent | write with the operation, list | lock and transaction around both; filtered pages | AuditChains |
| Tamper-proof audit (`policy/src/audit-tamper-proof`) | chain per tenant and class | write, verify | a lock that wakes everybody; changed rows | AuditChains |
| Governor lane (`policy/src/audit-governor-lane`) | cases, side table | open, submitVerdict, verify | two operators, one verdict; missing anchors | AuditChains |
| Session store (`communication/src/session`) | `communication.sessions` or a map | create, update, claimForDispatch, markAuthorized, resume, supersedeAndCreate, cleanExpired; SessionManager | read-then-update, two transactions on one pair, revocation during authorization | SessionStore, SessionLifecycle |
| Session crypto (`session-registry.ts`, `crypto-state.ts`, `envelope.ts`) | handles, keys, replay tracker | rekey, seal, open, dispose | loss and reordering across a rekey; timers outliving sessions | SessionCrypto |
| Handshake (`communication/src/handshake`, `transport/http.ts`) | attempts, copies in flight, nonces, rows | initiate, send with resends, respond | lost and late answers, resent INITs, restart | Handshake |
| WebSocket transport (`transport/websocket.ts`) | sockets, buffers, heartbeats | send, receive, reconnect, stop | frames of a cut link; silent peers; events before their listener | WebSocketTransport |
| Trust boundaries (`communication/src/trust-boundary`) | boundary, audit | create, transition, use | load - await - save | TrustBoundary |
| Revocation (`policy/src/revocation`, `sdk/src/revocation`) | list, two caches | revoke, check | reads in flight refill a cache | Revocation |
| Identity registry (`identity/src/registry.ts`, `cli/commands/identity.ts`) | documents, versions, key files | register, update, sync, rotate | rotation interrupted or raced; a catch that deletes the published key | IdentityRegistry |
| Federated resolver (`federated-resolver.ts`) | cache, epochs, health, watermark | resolve, invalidate, probe | invalidation and restart during a flight; a watermark that is not written | FederatedResolver |
| Controller chains (`controller-chain-resolution.ts`) | documents, proofs | resolveControllerChain | documents change between two steps | ControllerChain |
| Tokens and delegation (`token-issuer.ts`, `token-verifier.ts`, `delegation-validator.ts`) | token store, keys, revocations | issue, delegate, check | each step of the check is awaited; windows and limits at their edges | Scopes, ScopeAttenuation, Tokens |
| Tokens of several signers (`credentials/multisig`, `crypto/src/multisig`) | tokens | issue, verify | odd trees; tokens changed on their way | Tokens |
| Ledger routes (`action-record-routes.ts`, `audit-access-routes.ts`) | snapshot anchors, nonces | list, get, chain, verify | rows appended between pages; copies of a request | LedgerRoutes, AuditAccess |
| Audit share (`policy/src/audit-share`) | challenges, checkpoint | issueChallenge, share | looked up before it is consumed | AuditAccess |
| Single sign-on (`sdk/src/sso`) | sessions with state and nonce | redirect, callback | two callbacks, stray answers, configuration | Tenancy |
| Tenants (`tenant-federation.ts`, `admin-console`, `multi-tenancy`) | users, mappings, tenants, policies | login, administration | first logins race; audit fails after the change | Tenancy |
| Managed services (`managed-service-runtime`, `managed-service-client.ts`) | buckets, usage, in-flight requests | limiter, authentication, handlers, client | the client gives up first; eviction | ManagedService |
| MCP bridge (`communication/src/bridge`) | counters, scope cache, outbox, adapter state | validate, resolve, call, start, stop | SERIALIZABLE retries, a COMMIT without a reply; stop during start | McpBridge |

What makes each of them correct is stated with its properties below.

## Modules

A module models one component, or a few small ones in sections of their own: its
state as variables, one action per statement or await-to-await section. The guard of a step that waits for a lock is
the lock; rollback, a lost connection, a crash are actions of their own. A hash
is represented by what it is the hash of (hashes do not collide), a signature by
its key and what was signed (they are not forged), a payload by what the code
compares. Every module has a specification, a type invariant and its properties;
names of variables and actions carry the module's prefix so that modules can be
combined.

*Execution*

* **EnvelopeLedger** - `rows` is the committed table, `tx` what every session's
  transaction has read and will write, `clock` is `clock_timestamp()`. claim is
  `ClaimConflict` or `ClaimSelectNone; ClaimInsert; Commit`; finalize is
  `FinalizeSelect`, then `FinalizeUpdate`, `FinalizeExpire` or `FinalLookup`, then
  `Commit`; reject likewise; `ExpireStalePending` is one statement and skips
  locked rows. An INSERT waits for an uncommitted row in the same index.
* **CumulativeTracker** - the reservations and actions of one agent, the
  evaluations (`Evaluate` starts evaluateAll, whose loop is the sequence `todo`)
  and the limits a request was admitted under.
* **Orchestrator** - the deliveries of an envelope, each at its place in
  handleEnvelope; cache, quota, reservations, record and a crash of the process.
* **Scopes**, **ScopeAttenuation** - validateAttenuation, its comparison of
  windows, allow-lists and limits, and `Permits`, what a scope lets pass;
  the module draws chains of grants and compares the two.
* **Settlement** - retries and disputes: workers that run the steps of a retry or
  a filing on copies they loaded, over the stores' constraints. runDisputeExpiry
  is one step although it awaits twice: a filing commits its dispute RESOLVED, so
  the store refuses the move to EXPIRED and the second await is never reached.

*Records*

* **ActionLedger** - `Record` stamps a record *before* it has a lock, as record()
  does; `Step` takes it through lock, previous hash, INSERT, side-table append and
  COMMIT. `Reserve` is the tracker's INSERT into the same table.
  `VerifyIntegrity` reads by `created_at`, `VerifySideChain` by id.
* **AuditBarrier** - `pc`, `previous` and `tail` are the queue, `write` the
  record() of an intent, which the database decides whether or not somebody still
  waits, `log` the ledger. `Restart` loses everything but the ledger.
* **CrossDomainSettle** - rows of the recipient, deliveries with uncommitted
  inserts, reapers, and reconcilers that page by (created_at, settle_id).
* **AuditChains** - the other chains, policy changes, the tamper-proof log and the
  governor lane: writers with their lock, readers or verifiers, and rows tampered
  with. The writers that a release of the log's in-memory lock wakes take it one
  after the other. Removing the last rows of the governor's side table is left
  out: verifyChain has nothing to miss them by.

*Sessions and connections*

* **SessionLifecycle** - the abstract specification of the store's interface:
  a session is absent, CREATED, ACTIVE, IDLE or CLOSED and moves only along the
  transitions of `session/types.ts`; a closed one never changes.
* **SessionStore** - the rows; the one timestamp that a state's timeout is
  compared with is an age. touch and close are a get and an update; resume and
  supersedeAndCreate are transactions with row locks, the others single
  statements. `ClaimForDispatch`, `MarkAuthorized` and `EndDispatch` are the
  dispatcher's use of the revision fence. `Lifecycle == INSTANCE
  SessionLifecycle` maps rows to sessions.
  In its second half it is the in-memory store: the same interface over a map;
  each method runs in one turn, SessionManager awaits between two of them. It
  implements SessionLifecycle too.
* **Handshake** - `call` are the initiate() calls, `send` the transport's
  requests, `resp` the respond() calls, one per copy of an INIT, `nonces` the
  nonce store, `sessions` the rows, `life` counts restarts. Each copy also names
  the session id and key that respond() draws for it. `CreateUnheard` is a
  committed INSERT whose acknowledgement is lost. An ACK ends the attempt's timer
  and is verified after the responder's key was resolved, which no timer guards.
* **WebSocketTransport** - requests and their frames, the server's buffer per
  connection, heartbeats, and the client's persistent connection. A failed attempt waits for a
  'close' that came before the listener for it.
* **SessionCrypto** - a session's handles with current and previous key, their
  timers, bodies on the wire that are lost, repeated and reordered, and the
  replay tracker.

*Identity*

* **IdentityRegistry**, **FederatedResolver**, **ControllerChain**, **Tokens**,
  **Revocation**, **TrustBoundary** - one call or flight under way
  besides writers that change what it awaits. ControllerChain and Tokens keep
  what the check saw when it began, for their properties. The rotation's catch
  unlinks the pending key also when the update was committed unheard or the rename
  failed; the watermark's write may fail after the document was cached.
* **Tokens** has the check of a delegated token, and in its second half tokens of
  several signers: issueMultisigToken, the levels and paths of the Merkle tree, and
  verifyMultisigToken on tokens that lost a signer, changed a role, exchanged
  paths or took the payload or a signer from another token. RFC 6962's recursive
  definition of the root is the reference for the tree.

*Services*

* **LedgerRoutes** reads the ledger through snapshot anchors while rows are
  appended and removed; **AuditAccess** has the auditors' requests with nonces
  and, in its second half, the disclosures that a challenge pays for; **Tenancy**
  has login (whether it is refused, not with which error code), the mapping of
  external users to tenants and the console; **ManagedService** has limiter, authentication, both servers and the
  client; **McpBridge** the checks, counters, scope cache, outbox and adapter state
  of the bridge. A scope transaction may be committed while its caller gets an
  error, and be retried with its key.

`MC*` modules put components that share no state side by side: the variable
`part`, fixed by Init, names the one that runs in a behaviour, and the constant
`Parts` the ones a run has. They give constants their values and replace no
definition. Their invariants collect a component's properties under one name.
`*Proofs` modules hold the theorems; **Sums** has the lemmas on sums over finite
sets that two of them use, and the lemmas on scopes are in Scopes.

## Runs

Six runs pass; a run of one component is the same cfg with a smaller `Parts`.

| Run | Parts and what it shows |
|---|---|
| execution | *envelope*: two sessions, one envelope, three rows, leases of one tick: claim, expiry, re-claim and the late finalize of the first holder all happen; one commit, disjoint leases, true answers, outcomes by the holder or by time. *limits*: two concurrent requests under a limit of 2 with settling, release and retries. *orchestrator*: two deliveries of one envelope with a limit on successes and one on everything, crashes. *retry*, *dispute*: two workers, four submits, three filings. *scopes*: chains of two delegations out of every kind of scope, against requests on every minute of a week of three days |
| records | *ledger*: two calls, three ids, with reservations and rollbacks: chains verify when stamps follow the locks, anchors and records match, every call ends. *barrier*: two intents, two afterExecute calls each, a restart: audited before executed, the queue drains. *settle*: two settlements, two reconcilers with pages of one; pending ones end. *changes*, *log*, *cases*, *side table*: two or three writers, three rows, one row tampered with |
| sessions | *table*: three sessions, two of one DID pair, two clients, four calls; *memory*: two sessions, five calls. Uniqueness, atomic supersede, fence, the sweep, and that each store implements SessionLifecycle |
| connections | *handshake*: one initiate() with every preference and token, a responder with every preference with a validator and REQUIRED without one, one retry, one resend, three copies, one restart. *transport*: two frames, two connections, a missed heartbeat, two attempts |
| identity | *registry*: two nodes, a rotation and another writer; *resolver*: three nodes, versions and contents of two, two flights, an invalidation or restart; *controllers*: chains of two while documents change twice; *delegation*: three tokens with one thing wrong in any, one revocation, removal, rotation or tick during the check; *multisig*: lists of up to five signers, a change on the way; *revocation*: two tokens and clients, caches of one entry; *boundary*: two calls on one boundary |
| services | *routes*, *access*, *share*, *login*, *tenants*, *console*, *admin*, *managed*, *scope*, *bridge*, *server*, *sealing*: two actors each on one record chain, nonce, challenge, login, mapping, tenant, bucket, token or key |

Six runs expect a violation, each of a line in the repository that says otherwise
(`findings`):

| Run | Shows |
|---|---|
| envelope_ledger_dangling | a claim whose SELECT found nothing inserts PENDING beside a COMMITTED row: the comment in claim() rules this out for every ordering |
| action_ledger_intact | an untouched chain fails verifyIntegrity: the stamp is taken before the lock that orders the links |
| cumulative_stale_now | a request that waits behind one with a later `now` does not count it, and both are admitted |
| cumulative_two_limits | the second limit of a request finds the first one's reservation under the same record id and is not checked |
| websocket_retries | one failed attempt of connectPersistent ends the reconnecting: 'close' was emitted before its listener was set (checked under `PersistentSpec`) |
| identity_rotation | the catch of runIdentityRotate deletes the private key of a document that was published |

*Bounds.* Each hazard needs at most two actors on one row, pair, chain, nonce or
key, and one re-use of it afterwards; the bounds are the smallest that allow that
(a third row or session is the successor, a third copy the retry's INIT besides a
resent one, a third token the grandchild). Timeouts of 0 or 1 tick reach both
sides of every comparison. Constants named `Max...` bound the model and nothing in the code,
except `MaxDelegationDepth`, `MaxRetries`, `MaxChainDepth`, `MaxFreshness`,
`MaxWindow`, `MaxMissed`, `MaxAttempts`, `MaxArbitrators` and `MaxBuckets`, which are limits of the code made small.
In SessionStore the number of calls is bounded, so `AbandonedSessionsClose`
speaks of sessions whose users are gone. Deadlock checking is off: every one of
these services may be idle for ever, and the bounds make every behaviour end.

*Symmetry* is used in `execution` (clients, claimers, calls, record ids),
`identity` (agents without a token of a principal) and `services` (the two actors
of every part), which check no temporal formula with fairness.

*What the passing properties leave out*, each said in its comment: the chain of
an agent whose stamps do not follow its locks (run action_ledger_intact), rows
that commit behind the reconciliation cursor (`cdLate`), a lock of the log that
two writers held (`lockShared`), copies of an INIT across a restart, a request
stamped ahead by the whole skew, a window across midnight (`DayMoves`), the key
that a rotation's own catch deletes (run identity_rotation), a version whose
watermark could not be written, and the boundary that an overlapping transition
revives.

*Fairness.* ActionLedger: strong fairness of each call's next statement, since
PostgreSQL grants advisory locks and row waits in arrival order. AuditBarrier:
weak fairness of the continuation after the predecessor's promise settled and of
the armed timer; nothing is assumed of the database. CrossDomainSettle: the
reaper's interval timer and the clock. SessionStore: time, the sweep
(`SessionManager.start()` with a positive interval; with `sweepIntervalMs` 0 there
is no sweep and the property does not hold) and the end of transactions.
Handshake: the attempt's timer, and an answer of the resolver that is asked for
the responder's key, since no timer guards that await. WebSocketTransport: the
heartbeat's interval timer only; the network may stay silent for ever.
`PersistentSpec` has in its place what the event loop does for a persistent
connection: schedule() goes on, the socket is opened, a terminated one closes.

## Theorems

All are of the form `Spec => []P`, `Spec => [][A]_vars` or `Spec => Lifecycle!Spec`,
for any number of actors, rows and time, from the named assumptions on the
constants: their types, that model values are distinct, and the relations between
two constants that are named below. There is a proof module per group of
components, with the group's inductive invariant, a conjunction of one invariant per
module, since a behaviour runs one of the parts and leaves the variables of the
others alone.

* **ExecutionProofs**
  * EnvelopeLedger: `AtMostOneCommit`, `SelectedRowsAreOwn`, `OutcomesAreFinal`,
    `LeasesAndAnswers` (whose property includes that a selected row is its
    session's alone). The invariant adds what a transaction's program counter
    implies, that at most one PENDING row or uncommitted claim exists per
    envelope, and that the row a COMMIT will write has no terminal rival: the
    index test is made by the UPDATE, the row changes at the COMMIT. Leases are
    disjoint because the PENDING row is the newest of its envelope, and a claim
    inserts only after the lease of every earlier one.
  * Settlement: `SettlementHolds`. Submits that settled are
    those whose outcome was lost, plus the one that was kept; the audit trail
    follows the submits. A filing holds a decision signed by a majority before it
    commits it, and the dispute it commits to has no other.
  * Orchestrator: `OrchestratorHolds`. The record is committed if and only if the
    business handler ran for it, a refused delivery has cancelled what it could of
    its reservations, and what is in the cache, on its way there or answered says
    what the records say.
  * CumulativeTracker: `LimitsHold`, from `BaselinesHold`, and
    `ReservationsAreWrittenOnce` (only a settlement changes a row, and then not
    what answers a retry). A call that holds the advisory lock and has read a
    total knows a bound of every live row committed before it, and a committed
    reservation keeps that bound as its baseline; ordered by commit, the last live
    reservation of a window bounds them all. The totals are sums over rows:
    Sums proves what a sum over a finite set does when one element is added, left
    out or changed, from a least counterexample, since the recursion behind
    `SumFunctionOnSet` is on a chosen element. Records are finite in number.
  * Scopes, ScopeAttenuation: `DelegatedScopesHold`, from `DelegationNarrows`.
    The checks of validateAttenuation are transitive, so a leaf narrows its root
    capability by capability although only neighbours are compared; what narrows
    is permitted by ScopeEvaluator only if the wider one is, minute by minute, also
    around midnight. Grants are what the token's schema lets through (`IsScope`).
* **RecordsProofs**
  * ActionLedger: `LedgerHolds`, from `ChainsVerify`, `SideChainVerifies`,
    `AnchorsMatch` and `LinksHold`. Needed besides: locks exclude, the link a
    holder has read is still the tail of its chain, ids are unique among rows and
    calls.
  * AuditBarrier: `BarrierHolds`, from `AuditBeforeExecute`, `AuditBeforeReceipt`
    and `IntentsInOrder`. Needed besides: a successor starts only after its
    predecessor's call ended, and the intent of a returned call is in the log from
    then on.
  * CrossDomainSettle: `ReconciliationHolds`. A cursor is the start or the key of a
    record that was read, and whatever is before a record that was read was read
    too or came in late.
  * AuditChains: `AuditChainsHoldAlways`. A chain
    of policy changes is linked because its lock spans the read of the tail and
    the COMMIT. A chain of the tamper-proof log that nobody touched replays, and one
    change before its end does not, as long as the lock was never shared.
    A case has one verdict, and the verifier's answer is true of the rows it read.
    The least broken link and the greatest sequence number are found by
    minimal counterexample, a lemma on sets of naturals.
* **SessionsProofs**
  * SessionStore: `LivePairsAreUnique`, `StoreHolds`, `AuthorizationIsFenced`,
    `ClosedStaysClosed`, and the refinement `StoreRefinesLifecycle`: initial
    states map to initial states, and every statement of the store to a step of
    the lifecycle or a stutter. A step is reduced to what it does to each row and
    to the calls; the invariant says who holds which lock, that the pair of an
    uncommitted INSERT has no other live row, and that a claim's revision
    identifies the row it saw.
  * SessionStore, in memory: the refinement `MemoryStoreRefinesLifecycle`, by the same
    reduction (`MemRowsStep`): every method leaves a row, moves it along an edge of
    the lifecycle with the next revision, or makes it, and then at most the one
    superseded session closes with it.
* **ConnectionsProofs**
  * Handshake: `BothSidesAgree`, `AcceptancesMatch` (from `NoAcceptanceRefused` and
    `MatrixHolds`), `ReplayProtected`. The invariant says that an INIT not yet sent
    has left no trace (`Fresh`), that what respond() is storing passed the matrix
    (`Stages`), and that the delivery that claimed a nonce is alone with its
    challenge as long as the process lives (`Claims`).
  * WebSocketTransport: `TransportHolds`. The frames under way are the rest of their message,
    the buffered ones its beginning, the handler has it once and only when all of
    it came, and what comes back is the rest of the handler's reply.
* **IdentityProofs**
  * Revocation: `RevocationsHold`. Each cached or awaited "valid" is dated: its
    *horizon*, the time of the revoking COMMIT or now, bounds the entries of the
    API's cache, those of the SDK's and the answers in flight. The versions of the
    list are an interval.
  * FederatedResolver: `InvalidatedStaysForgotten`, and with IdentityRegistry and
    TrustBoundary `HistoryHolds`. The stored watermark is never above what a flight
    that passed the rollback check, or a cached document of this epoch, carries, so
    nothing older than it is handed out, whether or not its own write is made. A
    caller's document is made from the one it read, which is still the row's unless
    the row has a later version. A published key is lost only to the catch of the
    run that published it, or when a run stages its key over the file of a killed
    one; this is said for one run after another (`OneRun`), since two runs
    overwrite each other's pending file.
  * TrustBoundary: `BoundariesHold`, and its part of `HistoryHolds`. What a call
    has loaded, and the window it goes on with after its await, are backed by a
    proof, so what it saves is, although it may overwrite another call's save.
  * ControllerChain and Tokens: `AcceptedChainsAreWhole`, from
    `ControllerChainsKeepTrack` and `DelegationChecksKeepTrack`. The invariant says
    for every place in the check what has been established so far of the nodes or
    links before it: that they are linked, signed, fresh, and were not revoked when
    they were asked about; nothing is un-revoked, so they were not when the check
    began either. The chain is a sequence that grows at its end, and the smallest
    of its windows bounds the proof that is built from it. Documents, keys and
    tokens may be replaced at every await. `PortsAssumption` says what the
    resolver's ports may answer with, `DgAssumption` what the tokens may hold.
* **ServicesProofs**
  * AuditAccess: `AuditAccessHolds`. A nonce checked at t is stored
    until t + `NonceTtl`, so two checks of one nonce that pass are `NonceTtl`
    apart; with `SkewMax <= NonceTtl` (both are 300 000 ms, `nonce-store.ts` and
    `audit-access-routes.ts`) a request stamped in the past of its first check is
    not decided again before its stamp has left the window. A
    challenge is either outstanding or has paid for one request past its
    consumption, or one disclosure; disclosures are counted by the requests that
    started, and an unbroken set of positions by its last one.
  * SessionCrypto: `SealingHolds`. No key is derived twice and the current handle is
    the newest; the timer runs exactly while the current handle is PENDING_REKEY,
    with the age of its window; a handle has numbered what was sealed under its
    key in order, and the replay tracker has passed everything that was opened.

  * ManagedService: `ManagedServicesHold`, from `ManagedServicesKeepTrack`. An answer
    in the slot a client waits on was made after its call began; a bucket has
    handed out no more than the quota and its refills up to the last one; what
    usage counts, with the writes under way, is what finished.
  * Tenancy: `TenancyHolds`. No flow was taken
    by two callbacks, and one that is not in its session's store has a cause: a
    callback, or another login, took its place. Every user has one link, in the
    tenant its subject claimed, and no two logins created the same user. A write
    that has passed the audit hook has its `.pre` event in its caller's log, and one
    that was answered with success its `.post` event.
  * LedgerRoutes: `LedgerReadsHold` and the action property `ValidChainsAreWhole`,
    from `LedgerReadsKeepTrack`. What a reader's pages hold is before its cursor and
    what they miss of its snapshot is after it; two anchors for one question are the
    same, or one had expired when the other was given; in an orderly snapshot the
    predecessor of a record is removed or is the one before it, so a chain without
    a gap back to its start has lost nothing.
  * McpBridge: `BridgeHolds`, from `BridgeCountersKeepTrack` and
    `BridgeCallsKeepTrack`. A transaction that PostgreSQL serialised read the rows
    there are, so a fresh idempotency row means that no admission spent under its
    key before; each counter is the number or the sum (Sums) of the transactions that
    spent it, answered or not, and a call that was answered is paid for under its
    key by itself or by the one it retries. A call past the revocation check began unrevoked, since a revocation
    is never taken back; the cleanup of a stopped server has closed the MCP server
    before it reaches the socket.

The assumptions on the constants of these modules (`MsAssumption`,
`SsoAssumption`, `TfAssumption`, `AcAssumption`, `LrAssumption`, `SaAssumption`,
`McAssumption`, `BrAssumption`) give the types of what is put to the component -
requests, claims, tokens, limits -, name sets that are not empty, and keep the
values "none" and the like out of the sets of real ones. `McAssumption` says that
amounts are not negative, which validateScope leaves to its caller.

The type invariants of all these modules are proved too. *Only model-checked* are

* the liveness properties (`EveryCallEnds`, `QueueDrains`, `EveryPendingEnds`,
  `AbandonedSessionsClose`, `EveryInitiateEnds`, `DeadPeersAreDropped`), since
  fairness and ENABLED are outside the prover's reach;
* `SignersAreAsIssued` (Tokens): that a path of the Merkle tree leads to the root
  is an induction over the levels of the tree at the same time as over the lists
  of hashes, and is checked for all lists of up to five signers.

## Notes on the code

Behaviour that the modules contain and no run of its own shows.

*Ledgers and limits.* Reservation rows of the tracker are rows of an agent's hash
chain with link values that fit no neighbour; the chain property excludes agents
that have them. The aggregate counts what was reserved after the settlement too,
where cumulative-tracker.ts:59 says that settledAmount replaces reserveAmount. A
retry that looked for its reservation before its first attempt committed
(postgres-cumulative-tracker.ts:110) is counted against that attempt, and may be
refused although the contract calls the operation idempotent
(cumulative-tracker.ts:33). A settle compares with the total of reserve time
(`SettledOverBaseline` says what that guarantees). A timed-out intent write may
commit after its successor's; only returned calls are ordered. Two
overlapping afterExecute calls of one intent both write a result
(audit-barrier.ts:290). Of the routes: a
record stamped before its predecessor's stamp is no row's predecessor in the
verified chain, the head before `start` is not verified, and keys older than two
rotations are answered 'historical_key_unavailable'. The nonce window of the
audit routes does not cover a request stamped ahead by the whole skew. The
reconciliation cursor skips rows that commit late; the property says exactly
those. The in-memory lock of the tamper-proof log wakes all waiters, so two hold
it and write events with the same predecessor; what is said of its chains holds as
long as that did not happen (`lockShared`).

*Sessions and connections.* close() of an IDLE row leaves idle_since, violates the
table's CHECK (001-create-sessions.sql:44) and rejects, and the session stays open
(session-manager.ts:72). A transition that loaded a trust boundary before it was
revoked saves it as running (lifecycle-manager.ts:765), though types.ts:334 calls
the state irreversible. A resent INIT whose first copy is being processed is
answered 'Duplicate nonce', and initiate() fails although the responder keeps a
session; the automatic retry after a timeout is then refused by the unique index
until that session is closed. A restart forgets the in-memory nonces:
`OneSessionPerChallenge` is per life of the process. Two messages of one session
invalidate each other's fence; the loser is refused, not delayed. The in-memory
store has no rule of one live session per pair, closes the old session of a
supersede before a duplicate id is refused, and leaves idleSince when an IDLE
session is activated. On a WebSocket, two messages of one client race so that the
first handler closes the socket, and stop() while `ws` is being loaded still opens a socket.

*Identity.* The SQL of the revocation list's store, `SELECT MAX(...) ... FOR
UPDATE` (revocation-list-store.ts:155), is refused by PostgreSQL; the module
models what the surrounding transaction intends. issueCapabilityToken stamps
version 0.1.0, so a root token with a temporal or cumulative scope is refused by
verifyCapabilityToken. A window across midnight may be narrowed to one that
permits the early hours of another day, which is why the property is
`LeafWithinRootButForMidnight`. A version-2 document that reaches a registry by
synchronisation gets row version 1 and cannot be resolved; an update of fields
before the first rotation yields a version without rotation proof; rotation_state
never returns to ACTIVE. Without a health check an UNHEALTHY node is never asked
again. A document is cached and handed out before its watermark is written, which
may fail (federated-resolver.ts:757): after a restart an older version can follow.
Step 4 of
the controller chain never reads `verified`, and resolveCredential cannot succeed
in this version. A 1-of-1 token of several signers can never be issued, since its
path is empty and toMerklePath refuses it, although the issuer admits m >= n >= 1;
the issuer verifies no more than the threshold in advance while the verifier
wants every signature, so a token with one unfitting key pair is issued and always
refused; and the verifier keeps no record of challenges, so a token is accepted
again as long as its caller repeats the challenge.

*Services.* A second login in one browser session overwrites the first, and a
stray callback voids both; SAML keeps no state and compares no issuer. A change
of role is not always audited. Events of the console go to the log of the caller's
tenant, the list of tenants is open to every role, and when the audit after a
change fails the caller is told of an error though the change stands. The bridge
never caches a 'fail'; the first insert of a counter is not compared with
max_total_value (scope-validator.ts:527); a stop() that completes within start()
is followed by 'running' (server-adapter.ts:250), though a stopped server is meant
to be terminal. The managed client clears its timer before the body is read; the
limiter runs before authentication, by IP and with the FREE quota, and evicting a
bucket resets it.

## Not modelled

* **Legacy revocation list** (`identity/src/revocation.ts`): the cache has the
  shape of the one in Revocation.
* **Credentials and delegated audit keys**, apart from the key's resolution in
  AuditAccess: checks of signed data within one call.
* **verifyResolverFreshness, verifyQuorumFreshness**: the chain's step 4 takes what
  its port answers, verified or not; no code calls the second.
* **Meta ledger, supersede recorder**: single inserts in front of the recorder's
  transaction.
* **Other transports and encodings, discovery, key custody, CLI** beyond the key
  rotation: input, output and translation without protocol state; the tenant
  rate limiter has the form of the limiter in ManagedService.
* **Cryptography**: assumed, as said above; canonical serialisation is what makes
  two contents equal.
* **Types and schemas, wallet interface, conformance suite, Python SDK**:
  declarations, a test runner and a client in another language.
* Metrics, logging, wording of errors, and parsing, which is data.

## What is left

1. The Merkle trees of Tokens: that the levels of the tree and RFC 6962's
   definition agree for lists of every length.
2. The composition of Orchestrator with EnvelopeLedger and AuditBarrier under an
   abstract specification (an envelope executes at most once per claim, audited).
3. Abstract specifications for the other stores: a lease service over
   EnvelopeLedger, an append-only log over the chains of records.
