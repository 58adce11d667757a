\* One plugin that keeps to one asynchronous run at a time past its first
\* call, and whose tool may return without a report.
SPECIFICATION FairSpec
CONSTANTS
    Tools = {t1}
    Gates = {g1}
    Timed = {t1}
    Cmds = {c1}
    Timers = {x1}
    Kids = {k1}
    MaxInflight = 1
    MaxPerCall = 2
    MaxCalls = 2
    Quirks = {"forgets"}
    None = None
    Main = Main
CHECK_DEADLOCK FALSE
INVARIANTS
    WaitersSafe
    CountsExact
PROPERTIES
    AnsweredOnce
    LimitsHold
