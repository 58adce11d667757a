SPECIFICATION FairSpec
CONSTANTS
    Reqs = {r1, r2}
    Limit = 1
CHECK_DEADLOCK FALSE
INVARIANTS
    HandlesSafe
PROPERTIES
    OneAnswer
    EveryRequestEnds
