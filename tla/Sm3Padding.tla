----------------------------- MODULE Sm3Padding -----------------------------
(***************************************************************************)
(* How SM3_nice (sm3.h, sm3_nice_uart/insn.c) pads a message of            *)
(* message_len bytes to blocks of 64: the message, the byte 128, zeros,    *)
(* and the number of its bits in eight bytes.                              *)
(***************************************************************************)
EXTENDS Naturals

(* The length field and the mark, and at least one byte more.              *)
NumBlocks(len) == (len + 1 + 8 + 64) \div 64

(* The index of byte i of the length, the lowest first.                    *)
LengthIndex(len, i) == NumBlocks(len) * 64 - i - 1

(* Byte i of the length in bits.  The product is taken in 32 bits and only *)
(* then widened to 64.                                                     *)
LengthByte(len, i) == IF i < 4 THEN ((len * 8) \div 256^i) % 256 ELSE 0

(* The byte of the padded message at index n.                              *)
Padded(message, len, n) ==
    IF n < len THEN message[n + 1]
    ELSE IF n = len THEN 128
    ELSE IF n > LengthIndex(len, 8) THEN LengthByte(len, NumBlocks(len) * 64 - n - 1)
    ELSE 0
=============================================================================
