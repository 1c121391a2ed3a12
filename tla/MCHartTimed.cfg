SPECIFICATION HartSpec
CONSTANTS
    QUANTUM <- MCQuantum
    LRWINDOW <- MCLrWindow
    TIMED = TRUE
INVARIANT
    LockBounded
