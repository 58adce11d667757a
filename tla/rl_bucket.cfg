SPECIFICATION Spec
CONSTANTS
    Scale = 6
    MaxWord = 42
    Rates = {0, 4, 6}
    Bursts = {0, 3}
    Sizes = {1, 3, 4}
    Steps = {1, 2, 7}
    MaxNow = 8
CHECK_DEADLOCK FALSE
INVARIANTS
    TypeOK
    Conservation
    DelaySuffices
