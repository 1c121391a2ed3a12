SPECIFICATION GuestSpec
CONSTANTS
    Objects = {sm3, sm4}
    CALLS = 3
    UNPLUGS = 1
    Bits <- MCBits
    Rounds = 32
    KS <- MCKS
    ED <- MCED
    SM4_FK <- MCFK
    SM4_CK <- MCCK
    Keys <- MCKeys
    Blocks <- MCBlocks
    Half = 4
    HIGHS = 2
    QUANTUM = 14
    LRWINDOW = 6
    TIMED = FALSE
INVARIANTS
    HartTypeOK
    LockNeverAcrossWait
    LockBounded
    AheadBounded
    RightWithoutGlitch
    FlushRestores
    DecryptInverts
    DigestRight
    ReadInInterval
PROPERTIES
    WakesUp
    InstructionEnds
CHECK_DEADLOCK FALSE
