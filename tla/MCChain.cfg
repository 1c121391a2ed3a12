SPECIFICATION ChainSpec
CONSTANTS
    XorB <- MCXorB
    SM4_Sbox <- MCSbox
    RxAt <- CoreRxAt
    CYCLE = 32
    DATA_WIDTH = 8
    PARITY_ON = 0
    PARITY_TYPE = 0
    Requests <- MCRequests
    Calls <- MCCalls
    CHUNKED = FALSE
    RESTARTS = 1
    UNPLUGS = 0
INVARIANTS
    TypeOK
    ResultCorrect
    LatencyExact
    NothingPending
    AnswersRight
    AnswersInTime
    ByteFindsCoreReady
    InStep
PROPERTIES
    OfferHeld
    FramedOnce
    SendingEndsWired
    KeepsPromise
    CallReturns
