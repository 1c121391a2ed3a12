SPECIFICATION TrapSpec
CONSTANTS
    Irqs = {7, 9}
    Excs = {2, 8}
    Code = {"code"}
    Vector = "vector"
    Delegs <- MCDelegs
    TSR = TRUE
    MppValues = {0, 2}
    WRITES = 1
CHECK_DEADLOCK FALSE
INVARIANT
    AssertionHolds
