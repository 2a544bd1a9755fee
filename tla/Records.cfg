SPECIFICATION RecordsSpec
CONSTANTS
    Parts = {"ledger", "barrier", "settle", "changes", "log", "cases", "side table"}
    Agents = {a1}
    Governor = Governor
    Calls = {c1, c2}
    RecordIds = {i1, i2, i3}
    Metered = {a1}
    MaxRows = 3
    MaxClock = 1
    Intents = {i1, i2}
    AbAgents = {a1}
    AgentOf <- SameAgent
    None = None
    MaxAfter = 2
    MaxRestarts = 1
    MaxSettles = 2
    Deliveries = {d1, d2}
    Reconcilers = {r1, r2}
    PendingTtl = 1
    BatchSize = 1
    MaxCdTime = 2
    MaxReconciles = 2
    PcWriters = {w1, w2}
    PcReaders = {r1}
    PcPolicies = {"q1", "q2", "q3"}
    PcAgentOf <- AgentOfPolicy
    PcPageLimit = 1
    MaxPcIds = 3
    MaxPcCalls = 3
    TpWriters = {w1, w2, w3}
    TpTenants = {"t1"}
    TpActorTenant <- ActorTenant
    TpClasses = {"L1", "L2"}
    TpInputs <- Events
    MaxTpEvents = 3
    MaxTampers = 1
    GovCases = {"g1", "g2"}
    GovRecords = {"r1", "r2", "r3"}
    GovOperators = {"o1", "o2"}
    MaxGovRows = 3
    MaxGovTampers = 1
    MaxGovRuns = 2
INVARIANTS
    LedgerIsSound
    BarrierIsSound
    ReconciliationIsSound
    AuditChainsAreSound
PROPERTIES
    EveryCallEnds
    QueueDrains
    EveryPendingEnds
CHECK_DEADLOCK FALSE
