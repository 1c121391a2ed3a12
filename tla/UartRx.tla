------------------------------- MODULE UartRx -------------------------------
(***************************************************************************)
(* The UART receiver of the FPGA (uart_rx.v), clock by clock.  Its input   *)
(* at an edge is the level of the line, the parameter rx (i_uart_rx).      *)
(***************************************************************************)
EXTENDS UartParams

VARIABLES
    sync_uart_rx, r_flag_rcv_start,
    rx_state,       \* r_current_state
    rx_baud_valid, rx_baud_cnt, rx_baud_pulse,
    r_rcv_cnt, r_data_rcv, rx_parity,
    o_uart_data, o_ld_parity, o_rx_done

rxLine == <<sync_uart_rx, r_flag_rcv_start>>
rxVars == <<rxLine, rx_state, rx_baud_valid, rx_baud_cnt, rx_baud_pulse,
            r_rcv_cnt, r_data_rcv, rx_parity, o_uart_data, o_ld_parity, o_rx_done>>

RxInit ==
    /\ sync_uart_rx = 1 /\ r_flag_rcv_start = <<1, 1, 1, 1, 1>>
    /\ rx_state = "IDLE"
    /\ rx_baud_valid = 0 /\ rx_baud_cnt = 0 /\ rx_baud_pulse = 0
    /\ r_rcv_cnt = 0 /\ r_data_rcv = NoData /\ rx_parity = 0
    /\ o_uart_data = NoData /\ o_ld_parity = 0 /\ o_rx_done = 0

(* The synchroniser and the last five samples, newest last.                *)
Sample(rx) ==
    /\ sync_uart_rx' = rx
    /\ r_flag_rcv_start' = Append(Tail(r_flag_rcv_start), sync_uart_rx)

StartSeen == r_flag_rcv_start = <<0, 0, 0, 0, 0>>

RxBaud ==
    /\ rx_baud_cnt' = IF rx_baud_valid = 0 \/ rx_baud_cnt = CYCLE - 1
                      THEN 0 ELSE rx_baud_cnt + 1
    /\ rx_baud_pulse' = IF rx_baud_cnt = CYCLE \div 2 - 1 THEN 1 ELSE 0

(* One data bit too many.                                                  *)
RxAfter_oneMore ==
    CASE rx_state = "IDLE"   -> "START"
      [] rx_state = "START"  -> "DATA"
      [] rx_state = "DATA"   -> IF r_rcv_cnt # DATA_WIDTH + 1 THEN "DATA"
                                ELSE IF PARITY_ON = 0 THEN "END" ELSE "PARITY"
      [] rx_state = "PARITY" -> "END"
      [] rx_state = "END"    -> "IDLE"

RxAfter ==
    CASE rx_state = "IDLE"   -> "START"
      [] rx_state = "START"  -> "DATA"
      [] rx_state = "DATA"   -> IF r_rcv_cnt # DATA_WIDTH THEN "DATA"
                                ELSE IF PARITY_ON = 0 THEN "END" ELSE "PARITY"
      [] rx_state = "PARITY" -> "END"
      [] rx_state = "END"    -> "IDLE"

RxMove ==
    rx_state' = IF rx_baud_valid = 0 THEN "IDLE"
                ELSE IF rx_baud_cnt = 0 THEN RxAfter
                ELSE rx_state

RxIdle ==
    /\ rx_state = "IDLE"
    /\ r_rcv_cnt' = 0 /\ r_data_rcv' = NoData /\ rx_parity' = 0 /\ o_rx_done' = 0
    /\ rx_baud_valid' = IF StartSeen THEN 1 ELSE rx_baud_valid
    /\ UNCHANGED <<o_uart_data, o_ld_parity>>

(* The line is high in the middle of the start bit: a false start.         *)
FalseStart_never == FALSE
FalseStart == rx_baud_pulse = 1 /\ sync_uart_rx = 1

RxStart ==
    /\ rx_state = "START"
    /\ rx_baud_valid' = IF FalseStart THEN 0 ELSE rx_baud_valid
    /\ UNCHANGED <<r_rcv_cnt, r_data_rcv, rx_parity, o_uart_data, o_ld_parity, o_rx_done>>

RxData ==
    /\ rx_state = "DATA"
    /\ \/ /\ rx_baud_pulse = 1
          /\ r_data_rcv' = Append(Tail(r_data_rcv), sync_uart_rx)
          /\ r_rcv_cnt' = (r_rcv_cnt + 1) % 16
          /\ rx_parity' = (rx_parity + sync_uart_rx) % 2
       \/ rx_baud_pulse = 0 /\ UNCHANGED <<r_data_rcv, r_rcv_cnt, rx_parity>>
    /\ UNCHANGED <<rx_baud_valid, o_uart_data, o_ld_parity, o_rx_done>>

(* PARITY_TYPE is a 32-bit parameter, so the sum is not taken modulo 2.    *)
ParityRight_swapped == rx_parity + sync_uart_rx = 1 - PARITY_TYPE
ParityRight == rx_parity + sync_uart_rx = PARITY_TYPE

RxParity ==
    /\ rx_state = "PARITY"
    /\ o_ld_parity' = IF rx_baud_pulse = 0 THEN o_ld_parity
                      ELSE IF ParityRight THEN 1 ELSE 0
    /\ UNCHANGED <<rx_baud_valid, r_rcv_cnt, r_data_rcv, rx_parity, o_uart_data, o_rx_done>>

(* The receiver that leaves the done flag up until the next byte.          *)
RxDone_level ==
    IF rx_baud_pulse = 1 /\ (PARITY_ON = 0 \/ o_ld_parity = 1) THEN 1 ELSE o_rx_done

RxDone ==
    IF rx_baud_pulse = 0 THEN 0
    ELSE IF PARITY_ON = 0 \/ o_ld_parity = 1 THEN 1 ELSE o_rx_done

RxEnd ==
    /\ rx_state = "END"
    /\ o_rx_done' = RxDone
    /\ o_uart_data' = IF rx_baud_pulse = 1 /\ (PARITY_ON = 0 \/ o_ld_parity = 1)
                      THEN r_data_rcv ELSE o_uart_data
    /\ rx_baud_valid' = IF rx_baud_cnt = 0 THEN 0 ELSE rx_baud_valid
    /\ UNCHANGED <<r_rcv_cnt, r_data_rcv, rx_parity, o_ld_parity>>

RxClock(rx) ==
    /\ Sample(rx) /\ RxBaud /\ RxMove
    /\ RxIdle \/ RxStart \/ RxData \/ RxParity \/ RxEnd

RxTypeOK ==
    /\ sync_uart_rx \in {0, 1} /\ r_flag_rcv_start \in [1 .. 5 -> {0, 1}]
    /\ rx_state \in {"IDLE", "START", "DATA", "PARITY", "END"}
    /\ rx_baud_valid \in {0, 1} /\ rx_baud_cnt \in 0 .. CYCLE - 1 /\ rx_baud_pulse \in {0, 1}
    /\ r_rcv_cnt \in 0 .. DATA_WIDTH /\ r_data_rcv \in Data
    /\ rx_parity \in {0, 1} /\ o_uart_data \in Data
    /\ o_ld_parity \in {0, 1} /\ o_rx_done \in {0, 1}
=============================================================================
