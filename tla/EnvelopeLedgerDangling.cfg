SPECIFICATION Spec
CONSTANTS
    Envelopes = {e1}
    NoEnvelope = NoEnvelope
    Clients = {c1, c2}
    Claimers = {k1, k2}
    NoClaimer = NoClaimer
    TTLs = {1}
    SweepLimit = 1
    MaxRows = 3
    MaxClock = 3
INVARIANT
    NoDanglingPending
CHECK_DEADLOCK FALSE
