------------------------------ MODULE MCGuest -------------------------------
(* The guest programs and what they run on, each explored while the others *)
(* rest: the simulator's hart as a thread of the kernel, the instruction   *)
(* bridge, the cipher and the hash on the instructions it promises, and    *)
(* the read of a counter.  The words, tables and constants are the real    *)
(* ones, with the key and block of sm4.c, and the messages of sm3.c with   *)
(* one whose padding fills a block of its own.  The hart has a reservation      *)
(* window of 6 instructions and a quantum of 14 cycles: a reservation may  *)
(* end before, at and long after the quantum does.                         *)
EXTENDS NiceHil, Sm4, CounterRead, Hart, Bitwise, FiniteSets

VARIABLES part, sm3phase, message, block, j, W68, V, V_buf

MCXorB(a, b) == a ^^ b

SboxTable == <<
    214, 144, 233, 254, 204, 225, 61, 183, 22, 182, 20, 194, 40, 251, 44, 5,
    43, 103, 154, 118, 42, 190, 4, 195, 170, 68, 19, 38, 73, 134, 6, 153,
    156, 66, 80, 244, 145, 239, 152, 122, 51, 84, 11, 67, 237, 207, 172, 98,
    228, 179, 28, 169, 201, 8, 232, 149, 128, 223, 148, 250, 117, 143, 63, 166,
    71, 7, 167, 252, 243, 115, 23, 186, 131, 89, 60, 25, 230, 133, 79, 168,
    104, 107, 129, 178, 113, 100, 218, 139, 248, 235, 15, 75, 112, 86, 157, 53,
    30, 36, 14, 94, 99, 88, 209, 162, 37, 34, 124, 59, 1, 33, 120, 135,
    212, 0, 70, 87, 159, 211, 39, 82, 76, 54, 2, 231, 160, 196, 200, 158,
    234, 191, 138, 210, 64, 199, 56, 181, 163, 247, 242, 206, 249, 97, 21, 161,
    224, 174, 93, 164, 155, 52, 26, 85, 173, 147, 50, 48, 245, 140, 177, 227,
    29, 246, 226, 46, 130, 102, 202, 96, 192, 41, 35, 171, 13, 83, 78, 111,
    213, 219, 55, 69, 222, 253, 142, 47, 3, 255, 106, 114, 109, 108, 91, 81,
    141, 27, 175, 146, 187, 221, 188, 127, 17, 217, 92, 65, 31, 16, 90, 216,
    10, 193, 49, 136, 165, 205, 123, 189, 45, 116, 208, 18, 184, 229, 180, 176,
    137, 105, 151, 74, 12, 150, 119, 126, 101, 185, 241, 9, 197, 110, 198, 132,
    24, 240, 125, 236, 58, 220, 77, 32, 121, 238, 95, 62, 215, 203, 57, 72>>
MCSbox(b) == SboxTable[b + 1]

(* Words of the cipher as sets of bits, bit 31 the highest.                *)
BitsOf(byte, shift) == {shift + n : n \in {m \in 0 .. 7 : (byte \div 2^m) % 2 = 1}}
Bits32(w) == BitsOf(w[1], 24) \cup BitsOf(w[2], 16) \cup BitsOf(w[3], 8) \cup BitsOf(w[4], 0)

RECURSIVE SumOf(_)
SumOf(S) == IF S = {} THEN 0 ELSE LET n == CHOOSE m \in S : TRUE IN 2^n + SumOf(S \ {n})
ByteOf(w, shift) == SumOf({n - shift : n \in w \cap (shift .. (shift + 7))})
Bytes32(w) == <<ByteOf(w, 24), ByteOf(w, 16), ByteOf(w, 8), ByteOf(w, 0)>>

Ref == INSTANCE NiceRef WITH XorB <- MCXorB, SM4_Sbox <- MCSbox

MCKS(t) == Bits32(Ref!SM4_LinearKS(Ref!SM4_Nonlinear(Bytes32(t))))
MCED(t) == Bits32(Ref!SM4_LinearED(Ref!SM4_Nonlinear(Bytes32(t))))

MCFK == [n \in 0 .. 3 |->
    Bits32(<< <<163, 177, 186, 198>>, <<86, 170, 51, 80>>,
              <<103, 125, 145, 151>>, <<178, 112, 34, 220>> >>[n + 1])]
MCCK == [n \in 0 .. 31 |-> Bits32([b \in 1 .. 4 |-> ((4 * n + b - 1) * 7) % 256])]
MCKey == [n \in 0 .. 3 |->
    Bits32(<< <<1, 35, 69, 103>>, <<137, 171, 205, 239>>,
              <<254, 220, 186, 152>>, <<118, 84, 50, 16>> >>[n + 1])]
MCZero == [n \in 0 .. 3 |-> {}]

MCKeys == {MCKey}
MCBlocks == {MCKey, MCZero}
MCBits == 0 .. 31

Abc == <<97, 98, 99>>
Abcd16 == [n \in 1 .. 64 |-> 97 + ((n - 1) % 4)]
Spill56 == [n \in 1 .. 56 |-> 97]

MCDigest == [m \in {Abc, Abcd16, Spill56} |->
    IF m = Abc
    THEN <<<<102, 199, 240, 244>>, <<98, 238, 237, 217>>, <<209, 242, 212, 107>>, <<220, 16, 228, 226>>,
          <<65, 103, 196, 135>>, <<92, 242, 247, 162>>, <<41, 125, 160, 43>>, <<143, 75, 168, 224>>>>
    ELSE IF m = Abcd16
    THEN <<<<222, 190, 159, 249>>, <<34, 117, 184, 161>>, <<56, 96, 72, 137>>, <<193, 142, 90, 77>>,
          <<111, 219, 112, 229>>, <<56, 126, 87, 101>>, <<41, 61, 203, 163>>, <<156, 12, 87, 50>>>>
    ELSE <<<<186, 0, 235, 237>>, <<170, 181, 64, 101>>, <<165, 253, 79, 159>>, <<86, 50, 96, 22>>,
          <<32, 49, 102, 188>>, <<238, 62, 237, 68>>, <<234, 134, 141, 89>>, <<214, 122, 163, 200>>>>]

Hash == INSTANCE Sm3 WITH
    XorB <- MCXorB, SM4_Sbox <- MCSbox, phase <- sm3phase,
    Messages <- {Abc, Abcd16, Spill56}, Digest <- MCDigest

sm3Vars == <<sm3phase, message, block, j, W68, V, V_buf>>

GuestInit ==
    /\ part \in {"hart", "bridge", "cipher", "hash", "counter"}
    /\ HartInit /\ NiceHilInit /\ Sm4Init /\ Hash!Sm3Init /\ CounterInit
    /\ part # "bridge" => object = CHOOSE o \in Objects : TRUE
    /\ part # "cipher" => cipher = MCZero
    /\ part # "hash" => message = Abc
    /\ part # "counter" => counter = [high |-> 0, low |-> 0]

GuestNext ==
    /\ UNCHANGED part
    /\ \/ part = "hart" /\ HartNext /\ UNCHANGED <<nhVars, sm4Vars, sm3Vars, counterVars>>
       \/ part = "bridge" /\ NiceHilNext /\ UNCHANGED <<hartVars, sm4Vars, sm3Vars, counterVars>>
       \/ part = "cipher" /\ Sm4Next /\ UNCHANGED <<hartVars, nhVars, sm3Vars, counterVars>>
       \/ part = "hash" /\ Hash!Sm3Next /\ UNCHANGED <<hartVars, nhVars, sm4Vars, counterVars>>
       \/ part = "counter" /\ CounterNext /\ UNCHANGED <<hartVars, nhVars, sm4Vars, sm3Vars>>

GuestSpec ==
    /\ GuestInit
    /\ [][GuestNext]_<<part, hartVars, nhVars, sm4Vars, sm3Vars, counterVars>>
    /\ part = "hart" => HartFairness
    /\ part = "bridge" => NiceHilFairness

(* The hash of the guest program is the standard's.                        *)
DigestRight == Hash!DigestRight
=============================================================================
