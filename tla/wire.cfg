SPECIFICATION Spec
CONSTANTS
    Bytes <- MCBytes
    Dialects = {"openai", "anthropic", "responses"}
    Shapes <- MCShapes
    Statuses = {"completed", "incomplete", "filtered", "failed", "limited"}
    Volatile = {"see"}
    Imaging = {"see"}
    KeepBytes = 4
    MaxMsgs = 4
    MaxPosts = 3
    MaxRare = 1
    MaxRetries = 1
CHECK_DEADLOCK FALSE
INVARIANTS
    ReadsHistory
    ImagesRead
    StreamExact
