SPECIFICATION TxLineSpec
CONSTANTS
    CYCLE = 32
    DATA_WIDTH = 3
    PARITY_ON = 1
    PARITY_TYPE = 1
    RECVCYCLE = 32
INVARIANT
    ParityDocumented
