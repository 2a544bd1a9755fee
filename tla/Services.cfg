SPECIFICATION ServicesSpec
CONSTANTS
    Parts = {"routes", "access", "share", "login", "tenants", "console", "admin", "managed", "scope", "bridge", "server", "sealing"}
    LrReaders = {c1, c2}
    LrAgents = {"a1"}
    LrGovernor = "gov"
    LrPrincipalOf <- PrincipalOf
    LrSubjects <- RecordSubjects
    LrScopes <- ScopesGiven
    LrQueries <- Queries
    PageLimit = 1
    AnchorTtl = 1
    SkewWindow = 1
    MaxLrRows = 2
    MaxLrTime = 1
    MaxLrRemovals = 1
    MaxLrAsked = 2
    AaDeliveries = {c1, c2}
    AaNonces = {n1}
    AaPrincipals = {p1, p2}
    AaOwner = p1
    AaDelegate = k1
    SkewMax = 1
    NonceTtl = 1
    MaxAaTime = 3
    MaxAaSent = 1
    MaxAaHandled = 3
    AsCalls = {c1, c2}
    AsKeys <- SharedKeys
    AsRequesters = {"r1", "r2"}
    AsScopes <- SharedScopes
    AsChallenges = {x1}
    MaxPosition = 1
    MaxAsCalls = 2
    SsoSessions = {"s1", "s2"}
    SsoHandlers = {c1, c2}
    SsoClaims <- AssertedClaims
    SsoConfigs <- Configs
    IdpIssuer = "idp"
    ClientId = "me"
    SsoTokenLife = 1
    MaxFlows = 2
    MaxSsoTime = 1
    MaxCallbacks = 2
    MaxSsoTokens = 2
    TfLogins = {c1, c2}
    TfIdps = {"i1"}
    TfSubjects = {"s1"}
    TfTenants = {"t1", "t2"}
    TfAllowed <- TenantsAllowed
    TfClaims <- Logins
    TfAuditFails = TRUE
    MaxUsers = 2
    MaxMappings = 2
    MaxTfLogins = 2
    AcCalls = {c1, c2}
    AcTenants = {"t1", "t2"}
    AcPolicyIds = {"p1"}
    AcAllowed = {"t1", "t2"}
    AcApiKeys <- KeyTenant
    AcRequests <- AdminRequests
    AcHookFails = TRUE
    MaxAcCalls = 2
    MsClients = {"m1", "m2"}
    MsIpOf <- IpOf
    MsKeyOf <- KeyOf
    MsKeys = {"k1"}
    MsSlots = {c1, c2}
    MsHasChecker = TRUE
    MsWindow = 1
    MsQuota = 1
    MaxBuckets = 1
    MsRetries = 1
    MaxMsTime = 1
    MaxMsRequests = 2
    BrWorkers = {c1, c2}
    BrTokens = {"tok"}
    BrCalls <- BridgeCalls
    BrClaims <- BridgeClaims
    BrRetryMax = 2
    MaxBrCalls = 3
    MaxDay = 1
    BrResolvers = {c1, c2}
    BrAgents = {"a1", "a2"}
    MaxBrTime = 1
    ScTokens = {"t1"}
    ScWindow = 1
    MaxRoots = 2
    MaxGen = 1
    MaxSealed = 2
    MaxScTime = 1
SYMMETRY
    Interchangeable
INVARIANTS
    LedgerReadsAreSound
    AuditAccessIsSound
    TenancyIsSound
    ManagedServicesAreSound
    CallsOverTheBridgeAreSound
    SealingIsSound
PROPERTY
    ValidMeansNothingRemoved
CHECK_DEADLOCK FALSE
