SPECIFICATION FairSpec
CONSTANTS
    N = 2
    Names = {"shell", "mcp", "plain"}
    Asked <- Pairs
    MaxGen <- GensOf
    HookIds = {"h1"}
    InitHooks <- OneHook
    NoPrompt = {"mcp", "plain"}
    Timed = {"plain", "shell"}
    CancelKind <- KindOf
    Decisions = {"allow", "deny_always"}
    Verdicts = {"ask", "deny"}
    Handler = TRUE
    HostTimers = TRUE
    MayOom = TRUE
    HookRemoval = TRUE
    CancelDepths <- TopLevel
    MayFree = TRUE
    MaxBatches = 1
CHECK_DEADLOCK FALSE
INVARIANTS
    PendingExact
    HeldFramesSafe
    OneResultPerCall
    PinsExact
PROPERTIES
    NoStartAfterCancel
    BatchSettles
