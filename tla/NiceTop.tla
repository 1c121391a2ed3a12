------------------------------ MODULE NiceTop -------------------------------
(***************************************************************************)
(* nice_core and uart_tx as uart_top.v wires them: nice_core's port drives *)
(* the transmitter and o_state_0 comes back as i_state_0, all in the same  *)
(* clock.  The receiver side is free: a byte may be presented at any clock, *)
(* also by a host that does not wait for an answer.                        *)
(***************************************************************************)
EXTENDS NiceCore, UartTx

ASSUME TopAssumption == DATA_WIDTH = 8 /\ PARITY_ON = 0

VARIABLES
    i_clk_sys,      \* flips with every edge the model counts
    pending         \* bytes put on offer whose frame has not started

topVars == <<coreVars, txVars, i_clk_sys, pending>>

TopInit == CoreInit /\ TxInit /\ i_clk_sys = 0 /\ pending = <<>>

(* A byte is put on offer in this clock, over another one or not.         *)
Offered == o_data_valid' = 1 /\ (o_data_valid = 0 \/ o_data_tx' # o_data_tx)

(* The history variable follows what is offered and what is framed.        *)
Observe ==
    LET left == IF FrameStarts /\ pending # <<>> THEN Tail(pending) ELSE pending
    IN  pending' = IF Offered THEN Append(left, o_data_tx') ELSE left

TopClock(dv, d) ==
    /\ i_clk_sys' = 1 - i_clk_sys
    /\ Clock(dv, d, o_state_0)
    /\ TxClock(o_data_valid, Bits(o_data_tx))
    /\ Observe

TopNext == \E dv \in Bit : \E d \in RxAt[rx_byte_cnt] : TopClock(dv, d)

(* The oscillator of the board does not stop.                              *)
ClockRuns == []<><<i_clk_sys' # i_clk_sys>>_i_clk_sys

TopSpec == TopInit /\ [][TopNext]_topVars /\ ClockRuns

-----------------------------------------------------------------------------
(* The handshake of nice_core and uart_tx sends every byte put on offer in *)
(* exactly one frame: a frame starts only for the byte on offer and with   *)
(* its value, even though the transmitter latches the data twice.          *)
FramedOnce ==
    [][FrameStarts => pending # <<>> /\ r_data_tx' = Bits(Head(pending))]_topVars

(* ... and no byte is lost: a second byte is never offered before the      *)
(* first is framed, and when port and transmitter are idle nothing waits.  *)
NothingPending ==
    /\ Len(pending) <= 1
    /\ state_count = 0 /\ o_state_0 = 0 => pending = <<>>

(* The core never stays in the states that send: each ends by itself.      *)
SendingEnds == state \in {"TX_DATA", "TX_ONE"} ~> state = "IDLE"
=============================================================================
