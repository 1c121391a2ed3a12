SPECIFICATION HilSpec
CONSTANTS
    XorB <- MCXorB
    SM4_Sbox <- MCSbox
    RxAt <- MCRxAt
    Calls <- MCTwoCalls
    CHUNKED = TRUE
    RESTARTS = 0
    UNPLUGS = 0
PROPERTY
    ReturnsOperation
