SPECIFICATION FairSpec
CONSTANTS
    Kinds = {"shell", "bg", "monitor", "escape"}
    Script <- MCScript
    MaxKept = 3
    HeadKept = 1
    LineCap = 1
    BatchCap = 1
    MaxEvents = 1
CHECK_DEADLOCK FALSE
INVARIANTS
    KeptRight
    MonitorOrder
PROPERTIES
    ReportedOnce
    CancelEnds
