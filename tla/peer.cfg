SPECIFICATION FairSpec
CONSTANTS
    Procs = {p1, p2}
    Ids = {i1, i2}
    Msgs = {m1, m2}
    Big = {m2}
    Wedged = {p2}
    Backlog = 1
    MaxBinds = 2
    MaxRare = 2
    None = None
CHECK_DEADLOCK FALSE
INVARIANTS
    ResultTrue
PROPERTIES
    ToolEnds
