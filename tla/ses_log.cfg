SPECIFICATION Spec
CONSTANTS
    None = None
    Bytes <- MCBytes
    Models = {m1, m2}
    Prompts = {1}
    Volatile = {"screen"}
    Batches <- MCBatches
    Imaging = {"screen"}
    Large = {"shell"}
    MaxLog = 3
    KeepBytes = 4
    MaxMsgs = 5
    MaxCrashes = 1
    MaxFails = 1
CHECK_DEADLOCK FALSE
SYMMETRY MCSymmetry
INVARIANTS
    Resumable
    ToolPairs
    OneLiveSnapshot
