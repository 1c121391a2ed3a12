SPECIFICATION Sm3Spec
CONSTANTS
    XorB <- MCXorB
    SM4_Sbox <- MCSbox
    Messages <- MCMessages
    Digest <- MCDigest
INVARIANT
    DigestRight
CHECK_DEADLOCK FALSE
