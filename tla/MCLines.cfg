SPECIFICATION LinesSpec
CONSTANTS
    CYCLE = 40
    DATA_WIDTH = 3
    PARITY_ON = 1
    PARITY_TYPE = 1
    HOSTCYCLE = 41
    RECVCYCLE = 40
    BURST = 4
    QUIET = 40
    GLITCH = 20
INVARIANTS
    LinesTypeOK
    Delivered
    Received
    NoByteLost
    IdleWhenHeard
