SPECIFICATION ExecutionSpec
CONSTANTS
    Parts = {"scopes", "limits", "orchestrator", "envelope", "retry", "dispute"}
    MinutesPerDay = 4
    DaysPerWeek = 3
    MaxDelegationDepth = 2
    SaGrants <- Grants
    SaRequests <- Requests
    Calls = {c1, c2}
    RecordIds = {i1, i2}
    Limits <- OneLimit
    LimitMax <- MaxTwo
    Amounts = {1, 2}
    WindowLength = 2
    PendingTTL = 0
    MaxCtClock = 1
    OrDeliveries = {d1, d2}
    OrEnvelopes = {e1}
    OrLimits <- SuccessesAndAll
    Envelopes = {e1}
    NoEnvelope = NoEnvelope
    Clients = {c1, c2}
    Claimers = {k1, k2}
    NoClaimer = NoClaimer
    TTLs = {1}
    SweepLimit = 1
    MaxRows = 3
    MaxClock = 3
    SrWorkers = {w1, w2}
    SrMaxRetry = 2
    MaxSubmits = 4
    MaxSrCalls = 6
    DaWorkers = {w1, w2}
    DisputeIds = {d1, d2}
    FilingHashes = {h1, h2}
    Arbitrators = {a1, a2, a3}
    MinArbitrators = 3
    MaxArbitrators = 4
    MaxDaCalls = 3
SYMMETRY ExecutionSymmetry
INVARIANTS
    OneCommitPerEnvelope
    LeasesAndAnswersHold
    SettlementIsSound
    OrchestratorIsSound
    LimitsAreKept
    DelegatedScopesAreWithin
PROPERTIES
    EndedByHolderOrTime
    OnlySettlementsChangeARow
CHECK_DEADLOCK FALSE
