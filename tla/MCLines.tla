------------------------------- MODULE MCLines ------------------------------
(* The receiver and the transmitter, each at the end of its own serial     *)
(* line.  They share nothing but their reset and the clock: one side runs  *)
(* while the other rests.                                                  *)
EXTENDS RxLine, TxLine

VARIABLE side       \* the side that runs

LinesInit == side \in {"rx", "tx"} /\ LineInit /\ TxLineInit

LinesNext ==
    /\ UNCHANGED side
    /\ \/ side = "rx" /\ LineNext /\ UNCHANGED txLineVars
       \/ side = "tx" /\ TxLineNext /\ UNCHANGED lineVars

LinesSpec == LinesInit /\ [][LinesNext]_<<side, lineVars, txLineVars>>

(* Every register of uart_rx.v and uart_tx.v keeps to its width and values. *)
LinesTypeOK == RxTypeOK /\ TxTypeOK

(* The check of uart_rx.v (ParityRight) on a frame of uart_tx.v with the   *)
(* same parameters: it fails, and uart_rx.v would drop the byte.           *)
OwnCheck(frame) == (Ones(ByteOf(frame)) % 2) + frame[DATA_WIDTH + 2] = PARITY_TYPE

FailsOwnCheck == \A i \in DOMAIN got : PARITY_ON = 1 => ~OwnCheck(got[i])

(* Neither uart_rx.v nor the handshake with uart_tx.v loses a byte.        *)
NoByteLost == NoneLost /\ AllHeard
=============================================================================
