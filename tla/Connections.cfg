SPECIFICATION ConnectionsSpec
CONSTANTS
    Parts = {"handshake", "transport"}
    did = did
    Calls = {c1}
    Dids <- OneInitiator
    DidOf <- SameInitiator
    Servers <- AnyServer
    Token = Token
    OtherToken = OtherToken
    NoToken = NoToken
    MaxRetries = 1
    MaxResends = 1
    MaxSent = 2
    MaxRestarts = 1
    WsRequests = {r1}
    WsFrames = 2
    MaxMissed = 1
    MaxAttempts = 2
    MaxConnections = 2
INVARIANTS
    AcceptedTogether
    Agreement
    OneSessionPerChallenge
    TransportIsSound
PROPERTIES
    EveryInitiateEnds
    DeadPeersAreDropped
CHECK_DEADLOCK FALSE
