SPECIFICATION FairSpec
CONSTANTS
    Calls <- MCCalls
    NameOf <- MCNameOf
    Sync = {"c2"}
    Hooked = {"c2"}
    NoPrompt = {}
    FirstCap = 16
    Forever = TRUE
    AllowAll = FALSE
    AutoCompact = TRUE
    InlineFailures = FALSE
    RetryMax = 1
    MaxLines = 2
CHECK_DEADLOCK FALSE
INVARIANTS
    OutstandingExact
    TypedOnce
PROPERTIES
    TypedLeaves
