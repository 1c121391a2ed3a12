------------------------------ MODULE NiceRef -------------------------------
(***************************************************************************)
(* Words and the four custom-3 operations as the host software defines     *)
(* them (nice.h): the reference the FPGA core is compared with.  A word is *)
(* a 4-tuple of bytes, high byte first.                                    *)
(***************************************************************************)
EXTENDS Naturals

CONSTANTS
    XorB(_, _),     \* exclusive or of two bytes
    SM4_Sbox(_)     \* the SM4 substitution table

Byte == 0 .. 255
Word == Byte \X Byte \X Byte \X Byte
Zero == <<0, 0, 0, 0>>

ASSUME XorAssumption ==
    \A a, b \in Byte : XorB(a, b) \in Byte /\ XorB(a, b) = XorB(b, a)
ASSUME SboxAssumption == \A b \in Byte : SM4_Sbox(b) \in Byte

XorW(v, w) == <<XorB(v[1], w[1]), XorB(v[2], w[2]), XorB(v[3], w[3]), XorB(v[4], w[4])>>

(* Rotation left by n = 8q + r bits: result byte i takes the low bits of   *)
(* byte i+q and the r high bits of the byte after it.                      *)
Pow2 == <<1, 2, 4, 8, 16, 32, 64, 128, 256>>
Spill(r, hi, lo) == (hi * Pow2[r + 1] + lo \div Pow2[9 - r]) % 256
Cyc(k) == ((k - 1) % 4) + 1
Rotl32(w, n) ==
    LET q == n \div 8
        B(i) == Spill(n % 8, w[Cyc(i + q)], w[Cyc(i + q + 1)])
    IN  <<B(1), B(2), B(3), B(4)>>

P0(X) == XorW(XorW(X, Rotl32(X, 9)), Rotl32(X, 17))
P1(X) == XorW(XorW(X, Rotl32(X, 15)), Rotl32(X, 23))

SM4_Nonlinear(A) == <<SM4_Sbox(A[1]), SM4_Sbox(A[2]), SM4_Sbox(A[3]), SM4_Sbox(A[4])>>
SM4_LinearKS(B) == XorW(XorW(B, Rotl32(B, 13)), Rotl32(B, 23))
SM4_LinearED(B) ==
    XorW(XorW(XorW(XorW(B, Rotl32(B, 2)), Rotl32(B, 10)), Rotl32(B, 18)), Rotl32(B, 24))

SM4ks(K, TK) == XorW(K, SM4_LinearKS(SM4_Nonlinear(TK)))
SM4ed(X, TX) == XorW(X, SM4_LinearED(SM4_Nonlinear(TX)))

(* The opcode bytes of the four requests and what each one returns.        *)
OpSM3P0 == <<123, 113>>      \* 7b 71
OpSM3P1 == <<123, 114>>      \* 7b 72
OpSM4KS == <<123, 115>>      \* 7b 73
OpSM4ED == <<123, 116>>      \* 7b 74
Opcodes == {OpSM3P0, OpSM3P1, OpSM4KS, OpSM4ED}

Custom3(op, rs1, rs2) ==
    CASE op = OpSM3P0 -> P0(rs1)
      [] op = OpSM3P1 -> P1(rs1)
      [] op = OpSM4KS -> SM4ks(rs1, rs2)
      [] op = OpSM4ED -> SM4ed(rs1, rs2)
      [] OTHER        -> Zero
=============================================================================
