SPECIFICATION MCSpec
CONSTANTS
    Second = t2
    Texts = {t1, t2}
    MaxTurns = 2
    MaxIterations = 2
    RetryMax = 1
    DenyLimit = 1
    Images = 1
    InitUploads = TRUE
    InitDangling = TRUE
    Limited = TRUE
    HostTimers = TRUE
    TimersMayFail = FALSE
    Failures = TRUE
    EffortDiffers = TRUE
    Replies <- EveryReply
    Honest = TRUE
    UserCompacts = TRUE
    StateOps = {"notify"}
    DoneOps = {"compact"}
CHECK_DEADLOCK FALSE
INVARIANTS
    OneTurnDone
    OneWakeUp
    ResumeExact
PROPERTIES
    TurnsEnd
    NotifyDelivered
