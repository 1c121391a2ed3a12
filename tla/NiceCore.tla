------------------------------ MODULE NiceCore ------------------------------
(***************************************************************************)
(* The coprocessor of the FPGA (nice_core.v): a clocked state machine that *)
(* collects a 12-byte request from the UART receiver, acknowledges every   *)
(* fourth byte, computes one SM3 or SM4 step, answers polls (0xff) and, on *)
(* a read (0x00), sends four result bytes and a cycle count.               *)
(*                                                                         *)
(* One step of the module is one rising clock edge: every right-hand side  *)
(* reads the registers before the edge.  The inputs of the edge are the    *)
(* parameters dv (i_data_valid), d (i_data_rx) and s0 (i_state_0, 1 while  *)
(* the transmitter is busy).  A word is a 4-tuple of bytes, high byte      *)
(* first; the arithmetic of words is left to constant operators.           *)
(***************************************************************************)
EXTENDS NiceRef

CONSTANT RxAt       \* RxAt[n]: the bytes the line may carry when n bytes are in

Bit == {0, 1}

ASSUME RxAssumption == RxAt \in [0 .. 12 -> SUBSET Byte]

POLL == 255
READ == 0
ACK  == 1

VARIABLES
    state, nice_req_inst, rx_byte_cnt,
    op_ssm3_p0, op_ssm3_p1, sm3_rs1, sm3_temp1, sm3_temp2,
    op_ssm4_ks, op_ssm4_ed, sm4_rs1, sm4_rs2, sm4_sbox_out, sm4_linear_temp,
    sbox_sel, calc_done, calc_result, cycle_counter,
    o_data_tx, o_data_valid, state_count, tx_byte_cnt

reqVars   == <<nice_req_inst, rx_byte_cnt>>
sm3Vars  == <<op_ssm3_p0, op_ssm3_p1, sm3_rs1, sm3_temp1, sm3_temp2>>
sm4Vars  == <<op_ssm4_ks, op_ssm4_ed, sm4_rs1, sm4_rs2, sm4_sbox_out,
              sm4_linear_temp, sbox_sel>>
calcVars == <<calc_done, calc_result>>
portVars == <<o_data_tx, o_data_valid, state_count>>
coreVars == <<state, reqVars, sm3Vars, sm4Vars, calcVars, cycle_counter,
              portVars, tx_byte_cnt>>

SM3States == {"SM3_STEP1", "SM3_STEP2", "SM3_STEP3"}
SM4States == {"SM4_STEP1", "SM4_STEP2", "SM4_STEP3"}
States == {"IDLE", "RECV_INST", "TX_DATA", "TX_ONE"} \cup SM3States \cup SM4States

-----------------------------------------------------------------------------
(* The request register: ten bytes, the opcode and the two operands.       *)
opcode == <<nice_req_inst[1], nice_req_inst[2]>>
rs1 == <<nice_req_inst[3], nice_req_inst[4], nice_req_inst[5], nice_req_inst[6]>>
rs2 == <<nice_req_inst[7], nice_req_inst[8], nice_req_inst[9], nice_req_inst[10]>>

(* A byte as uart_rx.v and uart_tx.v have it: bits, the lowest first.      *)
Bits(b) == [i \in 1 .. 8 |-> (b \div Pow2[i]) % 2]

custom3_sm3p0 == opcode = OpSM3P0
custom3_sm3p1 == opcode = OpSM3P1
custom3_sm4ks == opcode = OpSM4KS
custom3_sm4ed == opcode = OpSM4ED

CoreInit ==
    /\ state = "IDLE"
    /\ nice_req_inst = <<0, 0, 0, 0, 0, 0, 0, 0, 0, 0>> /\ rx_byte_cnt = 0
    /\ op_ssm3_p0 = FALSE /\ op_ssm3_p1 = FALSE
    /\ sm3_rs1 = Zero /\ sm3_temp1 = Zero /\ sm3_temp2 = Zero
    /\ op_ssm4_ks = FALSE /\ op_ssm4_ed = FALSE
    /\ sm4_rs1 = Zero /\ sm4_rs2 = Zero
    /\ sm4_sbox_out = Zero /\ sm4_linear_temp = Zero /\ sbox_sel = 0
    /\ calc_done = 0 /\ calc_result = Zero /\ cycle_counter = 0
    /\ o_data_tx = 0 /\ o_data_valid = 0 /\ state_count = 0 /\ tx_byte_cnt = 0

(* The asynchronous reset (nice_rst_n low) puts back every register.       *)
Reset ==
    /\ state' = "IDLE"
    /\ nice_req_inst' = <<0, 0, 0, 0, 0, 0, 0, 0, 0, 0>> /\ rx_byte_cnt' = 0
    /\ op_ssm3_p0' = FALSE /\ op_ssm3_p1' = FALSE
    /\ sm3_rs1' = Zero /\ sm3_temp1' = Zero /\ sm3_temp2' = Zero
    /\ op_ssm4_ks' = FALSE /\ op_ssm4_ed' = FALSE
    /\ sm4_rs1' = Zero /\ sm4_rs2' = Zero
    /\ sm4_sbox_out' = Zero /\ sm4_linear_temp' = Zero /\ sbox_sel' = 0
    /\ calc_done' = 0 /\ calc_result' = Zero /\ cycle_counter' = 0
    /\ o_data_tx' = 0 /\ o_data_valid' = 0 /\ state_count' = 0 /\ tx_byte_cnt' = 0

-----------------------------------------------------------------------------
(* The part of the edge that precedes the case statement.                  *)

(* A count that goes on after the result is there.                         *)
Count_runsOn ==
    cycle_counter' = IF state \in SM3States \cup SM4States
                     THEN (cycle_counter + 1) % 256
                     ELSE cycle_counter

Count ==
    cycle_counter' = IF state \in SM3States \cup SM4States /\ calc_done = 0
                     THEN (cycle_counter + 1) % 256
                     ELSE cycle_counter

(* A poll answered over a byte that is still on offer.                     *)
PollAsked_overOffer(dv, d, s0) ==
    /\ dv = 1 /\ d = POLL
    /\ state \notin {"IDLE", "TX_DATA", "TX_ONE"}
    /\ s0 = 0

PollAsked(dv, d, s0) ==
    /\ dv = 1 /\ d = POLL
    /\ state \notin {"IDLE", "TX_DATA", "TX_ONE"}
    /\ s0 = 0 /\ state_count = 0

Offer(b) == o_data_tx' = b /\ o_data_valid' = 1 /\ state_count' = 1

Release(s0) ==
    \/ s0 = 1 /\ o_data_valid' = 0 /\ state_count' = 0 /\ UNCHANGED o_data_tx
    \/ s0 = 0 /\ UNCHANGED portVars

Port(dv, d, s0) ==
    IF PollAsked(dv, d, s0) THEN Offer(calc_done) ELSE Release(s0)

ReadTaken(dv, d) == dv = 1 /\ d = READ /\ calc_done = 1

-----------------------------------------------------------------------------
(* The branches of the case statement, each with the general part.         *)

IdleByte(dv, d, s0) ==
    /\ state = "IDLE" /\ dv = 1 /\ rx_byte_cnt < 12
    /\ nice_req_inst' = IF rx_byte_cnt \in {2, 3} THEN nice_req_inst
                        ELSE <<nice_req_inst[2], nice_req_inst[3], nice_req_inst[4],
                               nice_req_inst[5], nice_req_inst[6], nice_req_inst[7],
                               nice_req_inst[8], nice_req_inst[9], nice_req_inst[10], d>>
    /\ state' = IF (rx_byte_cnt + 1) % 4 = 0 THEN "TX_ONE" ELSE "IDLE"
    /\ rx_byte_cnt' = rx_byte_cnt + 1
    /\ Count /\ Port(dv, d, s0)
    /\ UNCHANGED <<sm3Vars, sm4Vars, calcVars, tx_byte_cnt>>

IdleFull(dv, d, s0) ==
    /\ state = "IDLE" /\ rx_byte_cnt = 12
    /\ state' = "RECV_INST"
    /\ Count /\ Port(dv, d, s0)
    /\ UNCHANGED <<reqVars, sm3Vars, sm4Vars, calcVars, tx_byte_cnt>>

IdleWait(dv, d, s0) ==
    /\ state = "IDLE" /\ dv = 0 /\ rx_byte_cnt < 12
    /\ Count /\ Port(dv, d, s0)
    /\ UNCHANGED <<state, reqVars, sm3Vars, sm4Vars, calcVars, tx_byte_cnt>>

StartSM3(dv, d, s0) ==
    /\ state = "RECV_INST" /\ rx_byte_cnt = 12
    /\ custom3_sm3p0 \/ custom3_sm3p1
    /\ sm3_rs1' = rs1
    /\ op_ssm3_p0' = custom3_sm3p0 /\ op_ssm3_p1' = custom3_sm3p1
    /\ state' = "SM3_STEP1" /\ rx_byte_cnt' = 0
    /\ Count /\ Port(dv, d, s0)
    /\ UNCHANGED <<nice_req_inst, sm3_temp1, sm3_temp2, sm4Vars, calcVars, tx_byte_cnt>>

StartSM4(dv, d, s0) ==
    /\ state = "RECV_INST" /\ rx_byte_cnt = 12
    /\ custom3_sm4ks \/ custom3_sm4ed
    /\ sm4_rs1' = rs1 /\ sm4_rs2' = rs2
    /\ op_ssm4_ks' = custom3_sm4ks /\ op_ssm4_ed' = custom3_sm4ed
    /\ state' = "SM4_STEP1" /\ rx_byte_cnt' = 0
    /\ Count /\ Port(dv, d, s0)
    /\ UNCHANGED <<nice_req_inst, sm3Vars, sm4_sbox_out, sm4_linear_temp, sbox_sel,
                   calcVars, tx_byte_cnt>>

(* An opcode the core does not know: the count is cleared in this clock    *)
(* and the state returns to IDLE in the next one; no reply is ever sent.   *)
RejectInst(dv, d, s0) ==
    /\ state = "RECV_INST" /\ rx_byte_cnt = 12
    /\ ~(custom3_sm3p0 \/ custom3_sm3p1 \/ custom3_sm4ks \/ custom3_sm4ed)
    /\ rx_byte_cnt' = 0
    /\ Count /\ Port(dv, d, s0)
    /\ UNCHANGED <<state, nice_req_inst, sm3Vars, sm4Vars, calcVars, tx_byte_cnt>>

LeaveInst(dv, d, s0) ==
    /\ state = "RECV_INST" /\ rx_byte_cnt # 12
    /\ state' = "IDLE"
    /\ Count /\ Port(dv, d, s0)
    /\ UNCHANGED <<reqVars, sm3Vars, sm4Vars, calcVars, tx_byte_cnt>>

Sm3Step1(dv, d, s0) ==
    /\ state = "SM3_STEP1"
    /\ sm3_temp1' = IF op_ssm3_p0 THEN Rotl32(sm3_rs1, 9)
                    ELSE IF op_ssm3_p1 THEN Rotl32(sm3_rs1, 15) ELSE Zero
    /\ state' = "SM3_STEP2"
    /\ Count /\ Port(dv, d, s0)
    /\ UNCHANGED <<reqVars, op_ssm3_p0, op_ssm3_p1, sm3_rs1, sm3_temp2, sm4Vars,
                   calcVars, tx_byte_cnt>>

Sm3Step2(dv, d, s0) ==
    /\ state = "SM3_STEP2"
    /\ sm3_temp2' = IF op_ssm3_p0 THEN Rotl32(sm3_rs1, 17)
                    ELSE IF op_ssm3_p1 THEN Rotl32(sm3_rs1, 23) ELSE Zero
    /\ state' = "SM3_STEP3"
    /\ Count /\ Port(dv, d, s0)
    /\ UNCHANGED <<reqVars, op_ssm3_p0, op_ssm3_p1, sm3_rs1, sm3_temp1, sm4Vars,
                   calcVars, tx_byte_cnt>>

Sm3Step3(dv, d, s0) ==
    /\ state = "SM3_STEP3"
    /\ calc_result' = XorW(XorW(sm3_rs1, sm3_temp1), sm3_temp2) /\ calc_done' = 1
    /\ state' = IF ReadTaken(dv, d) THEN "TX_DATA" ELSE state
    /\ Count /\ Port(dv, d, s0)
    /\ UNCHANGED <<reqVars, sm3Vars, sm4Vars, tx_byte_cnt>>

(* The operand fed high byte first, and one substitution too many.         *)
sbox_in_reversed == IF sbox_sel < 4 THEN sm4_rs2[sbox_sel + 1] ELSE 0
SboxDone_late == sbox_sel = 5

(* The byte the multiplexer sbox_in selects: low byte of rs2 first.        *)
SboxDone == sbox_sel = 4
sbox_in == IF sbox_sel < 4 THEN sm4_rs2[4 - sbox_sel] ELSE 0

Sm4Step1(dv, d, s0) ==
    /\ state = "SM4_STEP1"
    /\ \/ /\ SboxDone
          /\ sbox_sel' = 0 /\ state' = "SM4_STEP2"
          /\ UNCHANGED sm4_sbox_out
       \/ /\ ~SboxDone
          /\ sm4_sbox_out' = <<SM4_Sbox(sbox_in), sm4_sbox_out[1], sm4_sbox_out[2],
                               sm4_sbox_out[3]>>
          /\ sbox_sel' = (sbox_sel + 1) % 8 /\ UNCHANGED state
    /\ Count /\ Port(dv, d, s0)
    /\ UNCHANGED <<reqVars, sm3Vars, op_ssm4_ks, op_ssm4_ed, sm4_rs1, sm4_rs2,
                   sm4_linear_temp, calcVars, tx_byte_cnt>>

Sm4Step2(dv, d, s0) ==
    /\ state = "SM4_STEP2"
    /\ LET b == sm4_sbox_out
       IN  sm4_linear_temp' =
             IF op_ssm4_ks THEN XorW(XorW(b, Rotl32(b, 13)), Rotl32(b, 23))
             ELSE IF op_ssm4_ed
             THEN XorW(XorW(XorW(XorW(b, Rotl32(b, 2)), Rotl32(b, 10)), Rotl32(b, 18)), Rotl32(b, 24))
             ELSE Zero
    /\ state' = "SM4_STEP3"
    /\ Count /\ Port(dv, d, s0)
    /\ UNCHANGED <<reqVars, sm3Vars, op_ssm4_ks, op_ssm4_ed, sm4_rs1, sm4_rs2,
                   sm4_sbox_out, sbox_sel, calcVars, tx_byte_cnt>>

Sm4Step3(dv, d, s0) ==
    /\ state = "SM4_STEP3"
    /\ calc_result' = XorW(sm4_linear_temp, sm4_rs1) /\ calc_done' = 1
    /\ state' = IF ReadTaken(dv, d) THEN "TX_DATA" ELSE state
    /\ Count /\ Port(dv, d, s0)
    /\ UNCHANGED <<reqVars, sm3Vars, sm4Vars, tx_byte_cnt>>

(* The reply low byte first.                                               *)
ReplyByte_lowFirst(n) == IF n < 4 THEN calc_result[4 - n] ELSE cycle_counter

(* The five bytes of a reply: the result, high byte first, then the count. *)
ReplyByte(n) == IF n < 4 THEN calc_result[n + 1] ELSE cycle_counter

TxDataByte(s0) ==
    /\ state = "TX_DATA" /\ s0 = 0 /\ state_count = 0 /\ tx_byte_cnt # 5
    /\ calc_done' = 0
    /\ Offer(ReplyByte(tx_byte_cnt))
    /\ tx_byte_cnt' = tx_byte_cnt + 1
    /\ UNCHANGED <<state, reqVars, sm3Vars, sm4Vars, calc_result, cycle_counter>>

(* The last clock of a reply without the return to IDLE.                   *)
TxDataEnd_stays(s0) ==
    /\ state = "TX_DATA" /\ s0 = 0 /\ state_count = 0 /\ tx_byte_cnt = 5
    /\ calc_done' = 0
    /\ o_data_valid' = 0 /\ tx_byte_cnt' = 0 /\ cycle_counter' = 0
    /\ UNCHANGED <<state, reqVars, sm3Vars, sm4Vars, calc_result, o_data_tx, state_count>>

TxDataEnd(s0) ==
    /\ state = "TX_DATA" /\ s0 = 0 /\ state_count = 0 /\ tx_byte_cnt = 5
    /\ calc_done' = 0
    /\ o_data_valid' = 0 /\ tx_byte_cnt' = 0 /\ cycle_counter' = 0
    /\ state' = "IDLE"
    /\ UNCHANGED <<reqVars, sm3Vars, sm4Vars, calc_result, o_data_tx, state_count>>

TxDataWait(s0) ==
    /\ state = "TX_DATA" /\ ~(s0 = 0 /\ state_count = 0)
    /\ calc_done' = 0
    /\ Release(s0)
    /\ UNCHANGED <<state, reqVars, sm3Vars, sm4Vars, calc_result, cycle_counter, tx_byte_cnt>>

(* TX_ONE left in the clock that should offer the acknowledgement.         *)
TxOneSend_silent(s0) ==
    /\ state = "TX_ONE" /\ s0 = 0 /\ state_count = 0
    /\ state' = "IDLE"
    /\ UNCHANGED <<portVars, reqVars, sm3Vars, sm4Vars, calcVars, cycle_counter, tx_byte_cnt>>

TxOneSend(s0) ==
    /\ state = "TX_ONE" /\ s0 = 0 /\ state_count = 0
    /\ Offer(ACK)
    /\ UNCHANGED <<state, reqVars, sm3Vars, sm4Vars, calcVars, cycle_counter, tx_byte_cnt>>

TxOneWait(s0) ==
    /\ state = "TX_ONE" /\ ~(s0 = 0 /\ state_count = 0)
    /\ Release(s0)
    /\ state' = IF s0 = 1 THEN "IDLE" ELSE state
    /\ UNCHANGED <<reqVars, sm3Vars, sm4Vars, calcVars, cycle_counter, tx_byte_cnt>>

Clock(dv, d, s0) ==
    \/ IdleByte(dv, d, s0) \/ IdleFull(dv, d, s0) \/ IdleWait(dv, d, s0)
    \/ StartSM3(dv, d, s0) \/ StartSM4(dv, d, s0)
    \/ RejectInst(dv, d, s0) \/ LeaveInst(dv, d, s0)
    \/ Sm3Step1(dv, d, s0) \/ Sm3Step2(dv, d, s0) \/ Sm3Step3(dv, d, s0)
    \/ Sm4Step1(dv, d, s0) \/ Sm4Step2(dv, d, s0) \/ Sm4Step3(dv, d, s0)
    \/ TxDataByte(s0) \/ TxDataEnd(s0) \/ TxDataWait(s0)
    \/ TxOneSend(s0) \/ TxOneWait(s0)

(* The core with any inputs at any edge: the receiver may present a byte   *)
(* and the transmitter may be busy or idle at every clock.                 *)
CoreNext ==
    \/ Reset
    \/ \E dv \in Bit, s0 \in Bit : \E d \in RxAt[rx_byte_cnt] : Clock(dv, d, s0)

CoreSpec == CoreInit /\ [][CoreNext]_coreVars

-----------------------------------------------------------------------------
(* Every register keeps its width and every counter stays within the       *)
(* values the case statements of nice_core.v distinguish.                  *)
TypeOK ==
    /\ state \in States
    /\ nice_req_inst \in [1 .. 10 -> Byte] /\ rx_byte_cnt \in 0 .. 12
    /\ op_ssm3_p0 \in BOOLEAN /\ op_ssm3_p1 \in BOOLEAN
    /\ op_ssm4_ks \in BOOLEAN /\ op_ssm4_ed \in BOOLEAN
    /\ sm3_rs1 \in Word /\ sm3_temp1 \in Word /\ sm3_temp2 \in Word
    /\ sm4_rs1 \in Word /\ sm4_rs2 \in Word
    /\ sm4_sbox_out \in Word /\ sm4_linear_temp \in Word /\ sbox_sel \in 0 .. 4
    /\ calc_done \in Bit /\ calc_result \in Word /\ cycle_counter \in Byte
    /\ o_data_tx \in Byte /\ o_data_valid \in Bit /\ state_count \in Bit
    /\ tx_byte_cnt \in 0 .. 5

(* From the moment a poll can be answered "done" until the last byte of    *)
(* the reply is out, the result register holds what the software           *)
(* definition (nice.h) gives for the request in the request register,      *)
(* whatever bytes and busy signals arrived during the computation.         *)
ReplyReady == calc_done = 1 \/ state = "TX_DATA"

ResultCorrect == ReplyReady => calc_result = Custom3(opcode, rs1, rs2)

(* The count sent behind the result is the latency of the operation: three *)
(* clocks for SM3, seven for SM4 (iss.cpp adds it to its pipeline), also   *)
(* when polls, reads and earlier requests, finished or not, came before.   *)
LatencyExact ==
    ReplyReady => cycle_counter = IF opcode \in {OpSM3P0, OpSM3P1} THEN 3 ELSE 7

(* The port handshake: a byte on offer does not change before the          *)
(* transmitter has taken it, whoever else (poll, ack, reply) wants to send.*)
OfferHeld == [][o_data_valid = 1 /\ o_data_valid' = 1 => UNCHANGED o_data_tx]_coreVars
=============================================================================
