-------------------------------- MODULE Sm4 ---------------------------------
(***************************************************************************)
(* sm4_nice, the guest program of the cipher (sm4.h, sm4_nice_uart/insn.c) *)
(* on the two instructions of the coprocessor: it expands the key,         *)
(* encrypts a block and decrypts the result.  One step is one iteration of *)
(* a loop.  A word is the set of its one bits, so that exclusive or is     *)
(* symmetric difference.                                                   *)
(***************************************************************************)
EXTENDS Naturals

CONSTANTS
    Bits,           \* the bits of a word: 32 of them
    Rounds,         \* 32
    KS(_), ED(_),   \* what the coprocessor mixes into the first operand
    SM4_FK, SM4_CK, \* constants of the key schedule
    Keys, Blocks    \* keys and plaintexts of the program's callers

Words == SUBSET Bits
Quads == [0 .. 3 -> Words]

ASSUME Sm4Assumption ==
    /\ Rounds \in Nat \ {0}
    /\ SM4_FK \in Quads
    /\ SM4_CK \in [0 .. (Rounds - 1) -> Words]
    /\ Keys \subseteq Quads /\ Blocks \subseteq Quads

VARIABLES
    phase,          \* the loop that runs: "key", "encrypt", "decrypt", or "done"
    i,              \* its index
    K, X, Y,        \* key schedule, encryption, decryption
    rk,             \* round keys
    cipher          \* the block given by the caller

sm4Vars == <<phase, i, K, X, Y, rk, cipher>>

a (+) b == (a \ b) \cup (b \ a)

(* The instructions.                                                       *)
custom3_sm4ks(k, t) == k (+) (KS(t) \cap Bits)
custom3_sm4ed(x, t) == x (+) (ED(t) \cap Bits)

Index == 0 .. (Rounds + 3)
Empty == [n \in Index |-> {}]
First(q) == [n \in Index |-> IF n < 4 THEN q[n] ELSE {}]

Sm4Init ==
    /\ phase = "key" /\ i = 0
    /\ \E key \in Keys : K = First([n \in 0 .. 3 |-> key[n] (+) SM4_FK[n]])
    /\ cipher \in Blocks
    /\ X = Empty /\ Y = Empty
    /\ rk = [n \in 0 .. (Rounds - 1) |-> {}]

Temp(A, key) == A[i + 1] (+) A[i + 2] (+) A[i + 3] (+) key

(* The index moves on, or the next loop begins.                            *)
Advance(next) ==
    IF i + 1 < Rounds THEN phase' = phase /\ i' = i + 1 ELSE phase' = next /\ i' = 0

ExpandKey ==
    /\ phase = "key"
    /\ K' = [K EXCEPT ![i + 4] = custom3_sm4ks(K[i], Temp(K, SM4_CK[i]))]
    /\ rk' = [rk EXCEPT ![i] = K'[i + 4]]
    /\ Advance("encrypt")
    /\ X' = IF phase' = "key" THEN X ELSE First(cipher)
    /\ UNCHANGED <<Y, cipher>>

Encrypt ==
    /\ phase = "encrypt"
    /\ X' = [X EXCEPT ![i + 4] = custom3_sm4ed(X[i], Temp(X, rk[i]))]
    /\ Advance("decrypt")
    /\ Y' = IF phase' = "encrypt" THEN Y
            ELSE First([n \in 0 .. 3 |-> X'[Rounds + 3 - n]])
    /\ UNCHANGED <<K, rk, cipher>>

(* The round keys used in the order of the encryption.                     *)
RoundKey_forward(n) == rk[n]

RoundKey(n) == rk[Rounds - 1 - n]

Decrypt ==
    /\ phase = "decrypt"
    /\ Y' = [Y EXCEPT ![i + 4] = custom3_sm4ed(Y[i], Temp(Y, RoundKey(i)))]
    /\ Advance("done")
    /\ UNCHANGED <<K, X, rk, cipher>>

Sm4Next == ExpandKey \/ Encrypt \/ Decrypt

Sm4Spec == Sm4Init /\ [][Sm4Next]_sm4Vars

-----------------------------------------------------------------------------
Sm4TypeOK ==
    /\ phase \in {"key", "encrypt", "decrypt", "done"}
    /\ i \in 0 .. (Rounds - 1)
    /\ K \in [Index -> Words] /\ X \in [Index -> Words] /\ Y \in [Index -> Words]
    /\ rk \in [0 .. (Rounds - 1) -> Words]
    /\ cipher \in Quads

Result(A) == [n \in 0 .. 3 |-> A[Rounds + 3 - n]]

(* Decryption gives the block back, for any key and any round function:    *)
(* it undoes the rounds one by one, in the opposite order of keys.         *)
DecryptInverts == phase = "done" => Result(Y) = cipher
=============================================================================
