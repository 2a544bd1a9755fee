SPECIFICATION SessionsSpec
CONSTANTS
    Parts = {"table", "memory"}
    s1 = s1
    s2 = s2
    s3 = s3
    Sessions = {s1, s2, s3}
    Clients = {c1, c2}
    PairOf <- Pair
    TokenOf <- Token
    PrincipalOf <- Principal
    None = None
    CreatedTimeout = 0
    IdleSoft = 0
    IdleHard = 0
    AgeCap = 1
    MaxCalls = 4
    MemSessions = {s1, s2}
    MemClients = {c1, c2}
    MemTokenOf <- MemToken
    MemPrincipalOf <- MemPrincipal
    MemTimeout = 0
    MaxMemCalls = 5
INVARIANTS
    StoreIsSound
    OneLivePerPair
PROPERTIES
    AuthorizedAsClaimed
    StoreImplementsLifecycle
    MemoryStoreImplementsLifecycle
    AbandonedSessionsClose
CHECK_DEADLOCK FALSE
