------------------------------- MODULE UartTx -------------------------------
(***************************************************************************)
(* The UART transmitter of the FPGA (uart_tx.v), clock by clock.  Its      *)
(* inputs at an edge are the parameters valid (i_data_valid) and data      *)
(* (i_data_tx).                                                            *)
(***************************************************************************)
EXTENDS UartParams

VARIABLES
    tx_state,       \* r_current_state
    tx_baud_valid, tx_baud_cnt, tx_baud_pulse,
    r_tx_cnt, r_data_tx, tx_parity,
    o_uart_tx,      \* the line
    o_state_0       \* 1 while a frame is being sent

txVars == <<tx_state, tx_baud_valid, tx_baud_cnt, tx_baud_pulse,
            r_tx_cnt, r_data_tx, tx_parity, o_uart_tx, o_state_0>>

TxInit ==
    /\ tx_state = "IDLE"
    /\ tx_baud_valid = 0 /\ tx_baud_cnt = 0 /\ tx_baud_pulse = 0
    /\ r_tx_cnt = 0 /\ r_data_tx = NoData /\ tx_parity = 0
    /\ o_uart_tx = 1 /\ o_state_0 = 0

(* A baud counter that keeps its value between frames.                     *)
TxBaud_freeRunning ==
    /\ tx_baud_cnt' = IF tx_baud_cnt = CYCLE - 1 THEN 0 ELSE tx_baud_cnt + 1
    /\ tx_baud_pulse' = IF tx_baud_cnt = CYCLE \div 2 - 1 THEN 1 ELSE 0

(* The baud counter and the pulse in the middle of each bit.               *)
TxBaud ==
    /\ tx_baud_cnt' = IF tx_baud_valid = 0 \/ tx_baud_cnt = CYCLE - 1
                      THEN 0 ELSE tx_baud_cnt + 1
    /\ tx_baud_pulse' = IF tx_baud_cnt = CYCLE \div 2 - 1 THEN 1 ELSE 0

(* One data bit too many.                                                  *)
TxAfter_oneMore ==
    CASE tx_state = "IDLE"   -> "START"
      [] tx_state = "START"  -> "DATA"
      [] tx_state = "DATA"   -> IF r_tx_cnt # DATA_WIDTH + 1 THEN "DATA"
                                ELSE IF PARITY_ON = 0 THEN "END" ELSE "PARITY"
      [] tx_state = "PARITY" -> "END"
      [] tx_state = "END"    -> "IDLE"

TxAfter ==
    CASE tx_state = "IDLE"   -> "START"
      [] tx_state = "START"  -> "DATA"
      [] tx_state = "DATA"   -> IF r_tx_cnt # DATA_WIDTH THEN "DATA"
                                ELSE IF PARITY_ON = 0 THEN "END" ELSE "PARITY"
      [] tx_state = "PARITY" -> "END"
      [] tx_state = "END"    -> "IDLE"

TxMove ==
    tx_state' = IF tx_baud_valid = 0 THEN "IDLE"
                ELSE IF tx_baud_cnt = 0 THEN TxAfter
                ELSE tx_state

(* Idle that never takes back the busy signal.                             *)
TxIdle_sticky(valid, data) ==
    /\ tx_state = "IDLE"
    /\ o_uart_tx' = 1 /\ r_tx_cnt' = 0 /\ tx_parity' = 0
    /\ o_state_0' = IF valid = 1 THEN 1 ELSE o_state_0
    /\ tx_baud_valid' = IF valid = 1 THEN 1 ELSE tx_baud_valid
    /\ r_data_tx' = IF valid = 1 THEN data ELSE r_data_tx

(* Idle that offers no busy signal to the sender.                          *)
TxIdle_silent(valid, data) ==
    /\ tx_state = "IDLE"
    /\ o_uart_tx' = 1 /\ r_tx_cnt' = 0 /\ tx_parity' = 0
    /\ o_state_0' = 0
    /\ tx_baud_valid' = IF valid = 1 THEN 1 ELSE tx_baud_valid
    /\ r_data_tx' = IF valid = 1 THEN data ELSE r_data_tx

(* Idle that does not clear the parity of the last frame.                  *)
TxIdle_parityKept(valid, data) ==
    /\ tx_state = "IDLE"
    /\ o_uart_tx' = 1 /\ r_tx_cnt' = 0 /\ UNCHANGED tx_parity
    /\ o_state_0' = IF valid = 1 THEN 1 ELSE 0
    /\ tx_baud_valid' = IF valid = 1 THEN 1 ELSE tx_baud_valid
    /\ r_data_tx' = IF valid = 1 THEN data ELSE r_data_tx

TxIdle(valid, data) ==
    /\ tx_state = "IDLE"
    /\ o_uart_tx' = 1 /\ r_tx_cnt' = 0 /\ tx_parity' = 0
    /\ o_state_0' = IF valid = 1 THEN 1 ELSE 0
    /\ tx_baud_valid' = IF valid = 1 THEN 1 ELSE tx_baud_valid
    /\ r_data_tx' = IF valid = 1 THEN data ELSE r_data_tx

TxStart ==
    /\ tx_state = "START"
    /\ o_uart_tx' = IF tx_baud_pulse = 1 THEN 0 ELSE o_uart_tx
    /\ UNCHANGED <<tx_baud_valid, r_tx_cnt, r_data_tx, tx_parity, o_state_0>>

TxData ==
    /\ tx_state = "DATA"
    /\ \/ /\ tx_baud_pulse = 1
          /\ o_uart_tx' = r_data_tx[1]
          /\ r_tx_cnt' = (r_tx_cnt + 1) % 16
          /\ tx_parity' = (tx_parity + r_data_tx[1]) % 2
          /\ r_data_tx' = Append(Tail(r_data_tx), 0)
       \/ tx_baud_pulse = 0 /\ UNCHANGED <<o_uart_tx, r_tx_cnt, tx_parity, r_data_tx>>
    /\ UNCHANGED <<tx_baud_valid, o_state_0>>

(* The parity of the data sent for type 1, its complement for type 0.      *)
TxParityBit == IF PARITY_TYPE = 1 THEN tx_parity ELSE (tx_parity + 1) % 2

TxParity ==
    /\ tx_state = "PARITY"
    /\ o_uart_tx' = IF tx_baud_pulse = 1 THEN TxParityBit ELSE o_uart_tx
    /\ UNCHANGED <<tx_baud_valid, r_tx_cnt, r_data_tx, tx_parity, o_state_0>>

TxEnd ==
    /\ tx_state = "END"
    /\ o_uart_tx' = IF tx_baud_pulse = 1 THEN 1 ELSE o_uart_tx
    /\ tx_baud_valid' = IF tx_baud_pulse = 1 THEN 0 ELSE tx_baud_valid
    /\ UNCHANGED <<r_tx_cnt, r_data_tx, tx_parity, o_state_0>>

TxClock(valid, data) ==
    /\ TxBaud /\ TxMove
    /\ TxIdle(valid, data) \/ TxStart \/ TxData \/ TxParity \/ TxEnd

(* The clock in which a frame leaves the idle state.                       *)
FrameStarts == tx_state = "IDLE" /\ tx_state' = "START"

TxTypeOK ==
    /\ tx_state \in {"IDLE", "START", "DATA", "PARITY", "END"}
    /\ tx_baud_valid \in {0, 1} /\ tx_baud_cnt \in 0 .. CYCLE - 1 /\ tx_baud_pulse \in {0, 1}
    /\ r_tx_cnt \in 0 .. DATA_WIDTH /\ r_data_tx \in Data /\ tx_parity \in {0, 1}
    /\ o_uart_tx \in {0, 1} /\ o_state_0 \in {0, 1}
=============================================================================
