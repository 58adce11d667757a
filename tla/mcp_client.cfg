SPECIFICATION FairSpec
CONSTANTS
    Calls = {k1, k2}
    Burst = 2
    MaxTicks = 1
CHECK_DEADLOCK FALSE
INVARIANTS
    ReplyMatches
    NothingDangles
PROPERTIES
    OneResult
    FreeEnds
