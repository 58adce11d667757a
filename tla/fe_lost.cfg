SPECIFICATION Spec
CONSTANTS
    Calls <- MCCalls
    NameOf <- MCNameOf
    Sync = {"c2"}
    Hooked = {"c2"}
    NoPrompt = {}
    FirstCap = 16
    Forever = FALSE
    AllowAll = FALSE
    AutoCompact = FALSE
    InlineFailures = FALSE
    RetryMax = 0
    MaxLines = 3
CHECK_DEADLOCK FALSE
INVARIANT
    TypedKept
