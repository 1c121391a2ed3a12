SPECIFICATION HilUnplugSpec
CONSTANTS
    XorB <- MCXorB
    SM4_Sbox <- MCSbox
    RxAt <- MCRxAt
    Calls <- MCTwoCalls
    CHUNKED = FALSE
    RESTARTS = 0
    UNPLUGS = 1
PROPERTY
    ReturnsOperation
