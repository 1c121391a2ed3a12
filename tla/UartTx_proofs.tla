---------------------------- MODULE UartTx_proofs ----------------------------
(***************************************************************************)
(* The frame of uart_tx.v for every number of clocks per bit, every number *)
(* of data bits and either parity, whatever the port offers at any clock.  *)
(* NiceTop_proofs and Lines_proofs build on it.                            *)
(***************************************************************************)
EXTENDS UartTx, SequenceTheorems, TLAPS

Half == CYCLE \div 2
Begin(j) == j * CYCLE           \* the clock at which bit j of a frame begins

(* The baud counter runs from 1 to CYCLE - 1 and 0 in each bit, and pulses *)
(* once, in the middle; a frame ends with the pulse of its stop bit.       *)
BaudInv ==
    /\ tx_baud_valid = 0 => tx_state \in {"IDLE", "END"}
    /\ tx_baud_valid = 1 => (tx_baud_pulse = 1 <=> tx_baud_cnt = Half)
    /\ tx_state = "IDLE" => tx_baud_cnt = 0
    /\ tx_state = "END" /\ tx_baud_valid = 1 => tx_baud_cnt \in 1 .. Half
    /\ tx_state = "END" /\ tx_baud_valid = 0 => tx_baud_cnt = Half + 1

(* In the first half of a data bit it is still to be counted, in the second*)
(* it is counted.                                                          *)
CountInv ==
    /\ tx_state = "START" => r_tx_cnt = 0
    /\ tx_state = "IDLE" /\ tx_baud_valid = 1 => r_tx_cnt = 0
    /\ tx_state = "DATA" => IF tx_baud_cnt \in 1 .. Half THEN r_tx_cnt < DATA_WIDTH
                                                        ELSE r_tx_cnt > 0
    /\ tx_state = "PARITY" => PARITY_ON = 1

TxInv == TxTypeOK /\ BaudInv /\ CountInv

(* CYCLE is at least 4: the middle of a bit is neither of its ends.        *)
LEMMA HalfBit ==
    /\ CYCLE \in Nat /\ CYCLE >= 4 /\ Half \in Nat /\ Half >= 2 /\ Half + 1 < CYCLE
    /\ DATA_WIDTH \in 1 .. 15
BY UartAssumption DEF Half

LEMMA FrameFormat ==
    /\ DATA_WIDTH \in Nat /\ DATA_WIDTH >= 1
    /\ PARITY_ON \in {0, 1} /\ PARITY_TYPE \in {0, 1}
BY UartAssumption

LEMMA Monotone ==
    ASSUME NEW a \in Nat, NEW b \in Nat, NEW c \in Nat, a <= b
    PROVE  a * c <= b * c
<1>1. b * c = a * c + (b - a) * c
    OBVIOUS
<1>2. b - a \in Nat /\ a * c \in Nat
    OBVIOUS
<1>3. (b - a) * c \in Nat
    BY <1>2
<1> QED BY <1>1, <1>2, <1>3

(* A shift register of DATA_WIDTH bits stays one, and moves by one place.  *)
LEMMA ShiftType ==
    ASSUME NEW r \in Data, NEW b \in {0, 1}
    PROVE  /\ Append(Tail(r), b) \in Data
           /\ \A k \in 1 .. DATA_WIDTH - 1 : Append(Tail(r), b)[k] = r[k + 1]
           /\ Append(Tail(r), b)[DATA_WIDTH] = b
<1>1. DATA_WIDTH \in Nat /\ DATA_WIDTH >= 1
    BY HalfBit
<1>2. r \in Seq({0, 1}) /\ Len(r) = DATA_WIDTH
    BY <1>1 DEF Data
<1>3. /\ Tail(r) \in Seq({0, 1}) /\ Len(Tail(r)) = DATA_WIDTH - 1
      /\ \A k \in 1 .. DATA_WIDTH - 1 : Tail(r)[k] = r[k + 1]
    BY <1>1, <1>2
<1> DEFINE t == Tail(r)
<1> HIDE DEF t
<1>4. t \in Seq({0, 1}) /\ Len(t) = DATA_WIDTH - 1
    BY <1>3 DEF t
<1>5. /\ Append(t, b) \in Seq({0, 1}) /\ Len(Append(t, b)) = DATA_WIDTH
      /\ \A k \in 1 .. DATA_WIDTH - 1 : Append(t, b)[k] = t[k]
      /\ Append(t, b)[DATA_WIDTH] = b
    BY <1>1, <1>4
<1>6. Append(t, b) \in Data
    BY <1>1, <1>5, LenProperties DEF Data
<1> QED BY <1>3, <1>5, <1>6 DEF t

LEMMA TxInvInit == TxInit => TxInv
<1> SUFFICES ASSUME TxInit PROVE TxInv
    OBVIOUS
<1>1. NoData \in Data
    BY DEF NoData, Data
<1>2. TxTypeOK
    BY <1>1, HalfBit DEF TxInit, TxTypeOK
<1> QED BY <1>2, HalfBit DEF TxInit, TxInv, BaudInv, CountInv

(* The baud counter and its pulse, whatever state the frame is in.         *)
LEMMA BaudStep ==
    ASSUME TxTypeOK, TxBaud
    PROVE  /\ tx_baud_cnt' \in 0 .. CYCLE - 1 /\ tx_baud_pulse' \in {0, 1}
           /\ tx_baud_cnt' = IF tx_baud_valid = 0 \/ tx_baud_cnt = CYCLE - 1
                             THEN 0 ELSE tx_baud_cnt + 1
           /\ tx_baud_pulse' = 1 <=> tx_baud_cnt = Half - 1
BY HalfBit DEF TxTypeOK, TxBaud, Half

LEMMA TxInvStep ==
    ASSUME TxInv, NEW valid, NEW data \in Data, TxClock(valid, data)
    PROVE  TxInv'
<1>1. TxTypeOK /\ TxBaud /\ TxMove
    BY DEF TxInv, TxClock
<1> USE HalfBit, <1>1, BaudStep
<1>2. CASE TxIdle(valid, data)
    <2>1. TxTypeOK'
        BY <1>2 DEF TxInv, BaudInv, TxTypeOK, TxIdle, TxMove, TxAfter
    <2>2. BaudInv' /\ CountInv'
        BY <1>2 DEF TxInv, BaudInv, CountInv, TxTypeOK, TxIdle, TxMove, TxAfter
    <2> QED BY <2>1, <2>2 DEF TxInv
<1>3. CASE TxStart
    <2>1. TxTypeOK'
        BY <1>3 DEF TxInv, TxTypeOK, TxStart, TxMove, TxAfter
    <2>2. BaudInv' /\ CountInv'
        BY <1>3 DEF TxInv, BaudInv, CountInv, TxTypeOK, TxStart, TxMove, TxAfter
    <2> QED BY <2>1, <2>2 DEF TxInv
<1>4. CASE TxData
    <2>1. r_tx_cnt' \in 0 .. DATA_WIDTH
        BY <1>4 DEF TxInv, BaudInv, CountInv, TxTypeOK, TxData
    <2>2. r_data_tx' \in Data
        BY <1>4, ShiftType DEF TxTypeOK, TxData
    <2>3. o_uart_tx' \in {0, 1} /\ tx_parity' \in {0, 1}
        BY <1>4 DEF TxTypeOK, TxData, Data
    <2>4. TxTypeOK'
        BY <1>4, <2>1, <2>2, <2>3, FrameFormat DEF TxTypeOK, TxData, TxMove, TxAfter
    <2>5. BaudInv'
        BY <1>4 DEF TxInv, BaudInv, TxTypeOK, TxData, TxMove, TxAfter
    <2>6. ASSUME tx_baud_pulse = 1 PROVE CountInv'
      <3>1. tx_state = "DATA" /\ r_tx_cnt' = (r_tx_cnt + 1) % 16
          BY <1>4, <2>6 DEF TxData
      <3>2. tx_baud_valid = 1 /\ tx_baud_cnt = Half /\ r_tx_cnt \in 0 .. DATA_WIDTH
          BY <2>6, <3>1 DEF TxInv, BaudInv, TxTypeOK
      <3>3. r_tx_cnt < DATA_WIDTH
          BY <3>1, <3>2 DEF TxInv, CountInv
      <3>4. tx_state' = "DATA" /\ tx_baud_cnt' = Half + 1
          BY <3>1, <3>2 DEF TxMove, TxInv
      <3>5. r_tx_cnt' = r_tx_cnt + 1
          BY <3>1, <3>2, <3>3
      <3> QED BY <3>2, <3>4, <3>5 DEF CountInv
    <2>7. ASSUME tx_baud_pulse = 0 PROVE CountInv'
      <3>1. r_tx_cnt' = r_tx_cnt /\ r_tx_cnt \in Nat /\ tx_state = "DATA" /\ tx_baud_valid = 1
            /\ tx_baud_cnt \in 0 .. CYCLE - 1 /\ tx_baud_cnt # Half
          BY <1>4, <2>7 DEF TxInv, BaudInv, TxTypeOK, TxData
      <3>2. tx_state' = IF tx_baud_cnt = 0 /\ r_tx_cnt = DATA_WIDTH
                        THEN (IF PARITY_ON = 0 THEN "END" ELSE "PARITY") ELSE "DATA"
          BY <3>1 DEF TxMove, TxAfter
      <3>3. IF tx_baud_cnt \in 1 .. Half THEN r_tx_cnt < DATA_WIDTH ELSE r_tx_cnt > 0
          BY <3>1 DEF TxInv, CountInv
      <3>4. r_tx_cnt <= DATA_WIDTH
          BY DEF TxInv, TxTypeOK
      <3> QED BY <3>1, <3>2, <3>3, <3>4, FrameFormat DEF CountInv
    <2> QED BY <1>1, <2>4, <2>5, <2>6, <2>7 DEF TxInv, TxTypeOK
<1>5. CASE TxParity
    <2>1. TxTypeOK'
        BY <1>5 DEF TxInv, TxTypeOK, TxParity, TxParityBit, TxMove, TxAfter
    <2>2. BaudInv' /\ CountInv'
        BY <1>5 DEF TxInv, BaudInv, CountInv, TxTypeOK, TxParity, TxMove, TxAfter
    <2> QED BY <2>1, <2>2 DEF TxInv
<1>6. CASE TxEnd
    <2>1. TxTypeOK'
        BY <1>6 DEF TxInv, TxTypeOK, TxEnd, TxMove, TxAfter
    <2>2. BaudInv' /\ CountInv'
        BY <1>6 DEF TxInv, BaudInv, CountInv, TxTypeOK, TxEnd, TxMove, TxAfter
    <2> QED BY <2>1, <2>2 DEF TxInv
<1> QED BY <1>2, <1>3, <1>4, <1>5, <1>6 DEF TxClock
=============================================================================
