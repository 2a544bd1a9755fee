SPECIFICATION Spec
CONSTANTS
    Agents = {a1}
    Governor = Governor
    Calls = {c1, c2, c3}
    RecordIds = {i1, i2, i3}
    Metered = {}
    MaxRows = 4
    MaxClock = 1
INVARIANT
    IntactChainVerifies
CHECK_DEADLOCK FALSE
