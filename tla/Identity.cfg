SPECIFICATION IdentitySpec
CONSTANTS
    Parts = {"registry", "resolver", "controllers", "delegation", "multisig", "revocation", "boundary"}
    IdNodes = {n1, n2}
    IdHome = n1
    IdTools = {t1}
    IdWriters = {w1, w2}
    MaxIdKeys = 3
    MaxIdVersion = 3
    MaxIdEvents = 6
    FrNodes = {n1, n2, n3, n4}
    FrUnweighted = {n4}
    MinResponses = 1
    FrVersions = {1, 2}
    FrContents = {1, 2}
    FailureThreshold = 2
    RecoveryThreshold = 1
    RateWindow = 1
    ActiveProbes = TRUE
    MaxFlights = 2
    MaxFrEvents = 2
    CcTarget = "t"
    CcControllers = {"c1", "c2", "c3"}
    CcVerifiers = {"v"}
    CcChallenges = {"x", "y"}
    CcPublished <- PublishedAtFirst
    CcDocuments <- LaterDocuments
    CcOffers <- Offers
    CcWindowAsked = 2
    MinFreshness = 1
    MaxFreshness = 2
    MaxChainDepth = 2
    MaxCcTime = 2
    MaxCcChanges = 2
    MaxCcAsked = 1
    MinutesPerDay = 4
    DaysPerWeek = 3
    MaxDelegationDepth = 2
    DgAgents = {a1, a2, a3}
    DgPrincipals = {p1, p2}
    DgIssuers = {p1}
    DgHolders = {a1}
    DgGrants <- TokenGrants
    DgRequests <- TokenRequests
    KeyGrace = 1
    MaxDgRoots = 1
    MaxDgTokens = 3
    MaxDgTime = 2
    MaxKey = 2
    MaxDgEvents = 1
    MsLists <- SignerLists
    MsThresholds = {0, 2}
    MsAudiences = {"v"}
    MaxSigners = 5
    MsWindow = 0
    MsLife = 1
    MaxMsTokens = 2
    MaxMsChanges = 1
    MaxMsTime = 1
    RevTokens = {t1, t2}
    RevClients = {c1, c2}
    ApiTtl = 1
    SdkTtl = 1
    CacheSize = 1
    Latency = 0
    MaxRevTime = 3
    MaxRevCalls = 3
    TbIds = {b1}
    TbCalls = {c1, c2}
    MinWindow = 0
    MaxWindow = 1
    MaxTbTime = 1
    MaxTbCalls = 4
SYMMETRY IdentitySymmetry
INVARIANTS
    BoundariesAreProven
    RevocationsReachEverybody
    AcceptedChainsAreSound
    SignersAreAsIssued
    InvalidatedIsForgotten
PROPERTY
    HistoryIsKept
CHECK_DEADLOCK FALSE
