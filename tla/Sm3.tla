-------------------------------- MODULE Sm3 ---------------------------------
(***************************************************************************)
(* SM3_nice, the guest program of the hash (sm3.h, sm3_nice_uart/insn.c)   *)
(* on the two instructions of the coprocessor.  One step is one iteration  *)
(* of message_ext_nice or of CF_nice.  Words are those of NiceRef.         *)
(***************************************************************************)
EXTENDS NiceRef, Sm3Padding, Sequences, Bitwise

CONSTANTS
    Messages        \* the messages hashed: sequences of bytes

VARIABLES
    phase,          \* "extend", "compress" or "done"
    message, block, j,
    W68, V, V_buf

sm3Vars == <<phase, message, block, j, W68, V, V_buf>>

custom3_sm3p0(x) == P0(x)
custom3_sm3p1(x) == P1(x)

AndW(v, w) == [i \in 1 .. 4 |-> v[i] & w[i]]
OrW(v, w)  == [i \in 1 .. 4 |-> v[i] | w[i]]
NotW(v)    == [i \in 1 .. 4 |-> 255 - v[i]]

(* Addition modulo 2^32.                                                   *)
v ++ w ==
    LET s4 == v[4] + w[4]
        s3 == v[3] + w[3] + s4 \div 256
        s2 == v[2] + w[2] + s3 \div 256
        s1 == v[1] + w[1] + s2 \div 256
    IN  <<s1 % 256, s2 % 256, s3 % 256, s4 % 256>>

IV == [A |-> <<115, 128, 22, 111>>, B |-> <<73, 20, 178, 185>>,
       C |-> <<23, 36, 66, 215>>,   D |-> <<218, 138, 6, 0>>,
       E |-> <<169, 111, 48, 188>>, F |-> <<22, 49, 56, 170>>,
       G |-> <<227, 141, 238, 77>>, H |-> <<176, 251, 14, 78>>]

T(n) == IF n < 16 THEN <<121, 204, 69, 25>> ELSE <<122, 135, 157, 138>>

FF(x, y, z, n) ==
    IF n < 16 THEN XorW(XorW(x, y), z)
    ELSE OrW(OrW(AndW(x, y), AndW(x, z)), AndW(y, z))

GG(x, y, z, n) ==
    IF n < 16 THEN XorW(XorW(x, y), z) ELSE OrW(AndW(x, y), AndW(NotW(x), z))

(* The words of block b of the padded message.                             *)
BlockWords(b) ==
    [n \in 0 .. 67 |->
        IF n < 16
        THEN [k \in 1 .. 4 |-> Padded(message, Len(message), b * 64 + n * 4 + k - 1)]
        ELSE Zero]

Sm3Init ==
    /\ phase = "extend" /\ block = 0 /\ j = 16
    /\ message \in Messages
    /\ W68 = BlockWords(0)
    /\ V = IV /\ V_buf = IV

(* message_ext_nice: the words after the first sixteen.                    *)
Extend ==
    /\ phase = "extend"
    /\ W68' = [W68 EXCEPT ![j] =
                  XorW(XorW(custom3_sm3p1(XorW(XorW(W68[j - 16], W68[j - 9]),
                                               Rotl32(W68[j - 3], 15))),
                            Rotl32(W68[j - 13], 7)),
                       W68[j - 6])]
    /\ IF j < 67 THEN phase' = phase /\ j' = j + 1 ELSE phase' = "compress" /\ j' = 0
    /\ V_buf' = V
    /\ UNCHANGED <<message, block, V>>

(* B assigned before C has taken its old value.                            *)
Round_swapped(v, TT1, TT2) ==
    [A |-> TT1, B |-> v.A, C |-> Rotl32(v.A, 9), D |-> v.C,
     E |-> custom3_sm3p0(TT2), F |-> v.E, G |-> Rotl32(v.F, 19), H |-> v.G]

(* The assignments of CF_nice, each of which takes the register before it  *)
(* has been assigned.                                                      *)
Round(v, TT1, TT2) ==
    [A |-> TT1, B |-> v.A, C |-> Rotl32(v.B, 9), D |-> v.C,
     E |-> custom3_sm3p0(TT2), F |-> v.E, G |-> Rotl32(v.F, 19), H |-> v.G]

Compress ==
    /\ phase = "compress"
    /\ LET v   == V_buf
           SS1 == Rotl32(Rotl32(v.A, 12) ++ v.E ++ Rotl32(T(j), j % 32), 7)
           SS2 == XorW(SS1, Rotl32(v.A, 12))
           TT1 == FF(v.A, v.B, v.C, j) ++ v.D ++ SS2 ++ XorW(W68[j], W68[j + 4])
           TT2 == GG(v.E, v.F, v.G, j) ++ v.H ++ SS1 ++ W68[j]
       IN  V_buf' = Round(v, TT1, TT2)
    /\ IF j < 63
       THEN j' = j + 1 /\ UNCHANGED <<phase, block, W68, V>>
       ELSE /\ V' = [r \in DOMAIN V |-> XorW(V_buf'[r], V[r])]
            /\ block' = block + 1
            /\ IF block + 1 < NumBlocks(Len(message))
               THEN phase' = "extend" /\ j' = 16 /\ W68' = BlockWords(block + 1)
               ELSE phase' = "done" /\ j' = 0 /\ UNCHANGED W68
    /\ UNCHANGED message

Sm3Next == Extend \/ Compress

Sm3Spec == Sm3Init /\ [][Sm3Next]_sm3Vars

-----------------------------------------------------------------------------
CONSTANT
    Digest          \* of some of the messages, as the standard gives it

(* The program computes SM3: the digest of a message is the standard's.    *)
DigestRight ==
    phase = "done" /\ message \in DOMAIN Digest =>
        <<V.A, V.B, V.C, V.D, V.E, V.F, V.G, V.H>> = Digest[message]
=============================================================================
