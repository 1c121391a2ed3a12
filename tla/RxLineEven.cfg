SPECIFICATION LineSpec
CONSTANTS
    CYCLE = 32
    DATA_WIDTH = 3
    PARITY_ON = 1
    PARITY_TYPE = 0
    HOSTCYCLE = 32
    BURST = 4
    QUIET = 32
    GLITCH = 0
INVARIANT
    NoneLost
