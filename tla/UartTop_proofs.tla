---------------------------- MODULE UartTop_proofs ---------------------------
(***************************************************************************)
(* The whole design and its host: what nice_core (NiceCore_proofs) and the *)
(* two serial lines (Lines_proofs) do by themselves, put together over the *)
(* wires of uart_top.v, for every number of clocks per bit that leaves the *)
(* receiver six clocks and its drift, and for every request.               *)
(***************************************************************************)
EXTENDS UartTop, NiceCore_proofs, SequenceTheorems

-----------------------------------------------------------------------------
(* The state of the two lines, told from the state of the design.          *)

(* The transmission the host is in or was in last.                         *)
Told == IF step = 0 THEN <<READ>> ELSE Transmission(step)

(* Between two frames, or with the last stop bit on the line.              *)
AtRest ==
    \/ tx_state = "IDLE"
    \/ tx_state = "START" /\ tx_baud_cnt \in 1 .. CYCLE \div 2
    \/ tx_state = "END" /\ tx_baud_valid = 0

(* The bytes nice_core has offered and the host has not completed: the one *)
(* whose stop bit the host has still to sample, and the one on its way.    *)
Closing  == IF timer > 0 /\ AtRest THEN <<SubSeq(heard, 2, 9)>> ELSE <<>>
Opening  == IF o_data_valid = 1 \/ tx_baud_valid = 1 THEN <<Bits(o_data_tx)>> ELSE <<>>
Pend     == Closing \o Opening

Total    == Len(got) + Len(Pend)

(* nice_core has got the whole transmission, and sends or has sent.        *)
Taken == state \in {"TX_ONE", "TX_DATA"} \/ Pend # <<>> \/ got # <<>>

(* The bytes of the transmission the host has begun to send, and those     *)
(* nice_core has got.                                                      *)
Begun == IF out = <<>> THEN Len(Told) ELSE Len(Told) + 1 - Len(out)
Counted == IF step = 0 \/ Taken THEN Len(Told)
           ELSE IF step <= 3 THEN rx_byte_cnt - 4 * (step - 1) ELSE 0

LineState == IF out = <<>> THEN "idle" ELSE "frame"
LineLeft == IF out # <<>> THEN left
            ELSE IF ~Answered /\ waiting < CYCLE THEN CYCLE - waiting ELSE 0
LineData == Bits(IF out = <<>> THEN Told[Len(Told)] ELSE Head(out))
Underway == [i \in 1 .. Begun - Counted |-> Bits(Told[Counted + i])]
Frame == IF Len(heard) = 10 THEN <<heard>> ELSE <<>>
Sent == IF Len(heard) = 10 THEN <<SubSeq(heard, 2, 9)>> \o Pend ELSE Pend

L == INSTANCE Lines_proofs WITH
        HOSTCYCLE <- CYCLE, BURST <- 4, QUIET <- CYCLE, GLITCH <- 0, RECVCYCLE <- CYCLE,
        wire <- LineState, left <- LineLeft, hdata <- LineData, burst <- Begun,
        expected <- Underway,
        valid <- o_data_valid, data <- Bits(o_data_tx), count <- state_count,
        unsent <- Sent, got <- Frame, high <- CYCLE, side <- "rx"

-----------------------------------------------------------------------------
(* The conversation.                                                       *)

HostTypes ==
    /\ step \in 0 .. 5 /\ request \in Requests
    /\ out \in Seq(Byte) /\ bit \in 0 .. 9 /\ left \in 0 .. CYCLE
    /\ got \in Seq(Byte) /\ waiting \in Nat

(* How far an answer is after the clock that delivered the last byte.      *)
Progress ==
    IF tx_baud_valid = 0 THEN (IF o_data_valid = 1 THEN 1 ELSE 0)
    ELSE IF tx_state = "IDLE" THEN 2 ELSE 2 + tx_baud_cnt

(* While the host sends it hears nothing: an answer that is on its way is  *)
(* not yet on the line.                                                    *)
SendInv ==
    IF out = <<>> THEN bit = 0 /\ timer <= waiting
    ELSE /\ step > 0 /\ left > 0 /\ got = <<>> /\ timer = 0 /\ waiting = 0
         /\ Len(out) <= Len(Told)
         /\ \A i \in 1 .. Len(out) : out[i] = Told[Len(Told) - Len(out) + i]
         /\ Taken => /\ Len(out) = 1 /\ bit = 9 /\ AtRest
                     /\ left + Progress + CYCLE \div 2 + 8 <= CYCLE

StartedFor(n) == tx_state = "START" /\ tx_baud_cnt = n
Computing == state \in SM3States \cup SM4States /\ rx_byte_cnt = 0

(* Where the core is in each step of the conversation.                     *)
StepInv ==
    /\ step = 0 => state = "IDLE" /\ rx_byte_cnt = 0
    /\ step \in 1 .. 3 /\ ~Taken =>
         state = "IDLE" /\ rx_byte_cnt \in 4 * (step - 1) .. 4 * step - 1
    /\ step \in 1 .. 2 /\ Taken => state \in {"IDLE", "TX_ONE"} /\ rx_byte_cnt = 4 * step
    /\ step = 3 /\ Taken =>
         \/ rx_byte_cnt = 12 /\ \/ state = "TX_ONE"
                                \/ state = "IDLE" /\ StartedFor(1)
                                \/ state = "RECV_INST" /\ StartedFor(2)
         \/ Computing
    /\ step = 4 => Computing
    /\ step = 5 /\ ~Taken => Computing /\ calc_done = 1
    /\ step = 5 /\ Taken =>
         /\ rx_byte_cnt = 0
         /\ \/ state = "TX_DATA" /\ tx_byte_cnt = Total
            \/ state = "IDLE" /\ Total = 5
    /\ state # "TX_DATA" => tx_byte_cnt = 0
    /\ state = "TX_DATA" /\ tx_byte_cnt = 5 => Pend # <<>>
    /\ state = "TX_ONE" => got = <<>> /\ timer = 0 /\ tx_state = "IDLE"
    /\ Total <= Need

(* What the request register holds of the request: bytes 3 and 4 of the    *)
(* opcode word are counted and dropped.                                    *)
Kept(n) == IF n <= 2 THEN n ELSE IF n <= 4 THEN 2 ELSE n - 2
Loaded == IF step = 0 THEN 0 ELSE IF step > 3 \/ (step = 3 /\ Taken) THEN 10 ELSE Kept(rx_byte_cnt)
RegisterInv ==
    \A j \in 1 .. 10 :
        j > 10 - Loaded =>
            nice_req_inst[j] = request[IF j - 10 + Loaded <= 2 THEN j - 10 + Loaded
                                       ELSE j - 8 + Loaded]

(* The i-th byte of the answer to the transmission.                        *)
Says(i, b) ==
    /\ b \in Byte
    /\ step \in 1 .. 3 => b = ACK
    /\ step = 4 => b \in {0, 1} /\ (b = 1 => calc_done = 1)
    /\ step = 5 => b = Expected[i]
AnswerInv ==
    /\ \A i \in 1 .. Len(got) : Says(i, got[i])
    /\ \A i \in 1 .. Len(Pend) : \E b \in Byte : Pend[i] = Bits(b) /\ Says(Len(got) + i, b)

TopInv ==
    /\ IInv /\ L!RxLineInv /\ L!TxLineInv
    /\ HostTypes /\ SendInv /\ StepInv /\ RegisterInv /\ AnswerInv
    /\ Begun \in 0 .. 4 /\ Counted \in 0 .. Begun

-----------------------------------------------------------------------------
(* The numbers of the two lines.                                           *)

(* The receiver finds each of the four frames of a word two clocks later   *)
(* than the one before: half a bit and twelve clocks must pass in a bit.   *)
BitIsLong == CYCLE \div 2 + 12 < CYCLE

LEMMA Numbers ==
    /\ CYCLE \in Nat /\ CYCLE >= 4 /\ CYCLE \div 2 \in Nat /\ CYCLE \div 2 >= 2
    /\ CYCLE \div 2 + 1 < CYCLE /\ CYCLE <= 2 * (CYCLE \div 2) + 1
    /\ DATA_WIDTH = 8 /\ PARITY_ON = 0
    /\ CYCLE \in Nat \ {0} /\ 4 \in Nat \ {0} /\ 0 \in Nat
    /\ Data = [1 .. 8 -> {0, 1}]
    /\ Requests \subseteq [1 .. 12 -> Byte]
<1>1. CYCLE \in Nat /\ CYCLE >= 4 /\ DATA_WIDTH = 8 /\ PARITY_ON = 0
    BY UartAssumption, UartTopAssumption
<1>2. Requests \subseteq [1 .. 12 -> Byte]
    BY UartTopAssumption
<1> QED BY <1>1, <1>2 DEF Data

LEMMA LineNumbers ==
    /\ L!StopBit = 9 /\ L!LastBit = 9 /\ L!FrameBits = 10 /\ L!Half = CYCLE \div 2
    /\ L!Begin(9) = 9 * CYCLE /\ L!Due(9) = 9 * CYCLE + CYCLE \div 2
    /\ L!ParityChecked
BY Numbers DEF L!StopBit, L!LastBit, L!FrameBits, L!Half, L!Begin, L!Due, L!ParityChecked

LEMMA ClocksAgreeHere ==
    ASSUME BitIsLong
    PROVE  L!RxClocksAgree /\ L!ClocksAgree
<1>1. L!RxClocksAgree
    BY UartAssumption, Numbers, LineNumbers, L!EqualHostClocks DEF BitIsLong
<1>2. L!ClocksAgree
    BY UartAssumption, Numbers, LineNumbers, L!EqualClocksAgree
<1> QED BY <1>1, <1>2

-----------------------------------------------------------------------------
(* Bytes and their bits.                                                   *)

LEMMA BitsType ==
    ASSUME NEW b \in Byte
    PROVE  Bits(b) \in Data /\ Value(Bits(b)) = b
<1> DEFINE h1 == b \div 2
           h2 == b \div 4
           h3 == b \div 8
           h4 == b \div 16
           h5 == b \div 32
           h6 == b \div 64
           h7 == b \div 128
<1>1. /\ Bits(b)[1] = b % 2 /\ Bits(b)[2] = h1 % 2 /\ Bits(b)[3] = h2 % 2 /\ Bits(b)[4] = h3 % 2
      /\ Bits(b)[5] = h4 % 2 /\ Bits(b)[6] = h5 % 2 /\ Bits(b)[7] = h6 % 2 /\ Bits(b)[8] = h7 % 2
    BY DEF Bits, Pow2, Byte
<1>2. /\ b = 2 * h1 + (b % 2) /\ h1 = 2 * h2 + (h1 % 2) /\ h2 = 2 * h3 + (h2 % 2)
      /\ h3 = 2 * h4 + (h3 % 2) /\ h4 = 2 * h5 + (h4 % 2) /\ h5 = 2 * h6 + (h5 % 2)
      /\ h6 = 2 * h7 + (h6 % 2) /\ h7 = h7 % 2
  <2>1. b = 2 * h1 + (b % 2) /\ h1 = 2 * h2 + (h1 % 2)
      BY DEF Byte
  <2>2. h2 = 2 * h3 + (h2 % 2)
      BY DEF Byte
  <2>3. h3 = 2 * h4 + (h3 % 2)
      BY DEF Byte
  <2>4. h4 = 2 * h5 + (h4 % 2)
      BY DEF Byte
  <2>5. h5 = 2 * h6 + (h5 % 2)
      BY DEF Byte
  <2>6. h6 = 2 * h7 + (h6 % 2)
      BY DEF Byte
  <2>7. h7 = h7 % 2
      BY DEF Byte
  <2> QED BY <2>1, <2>2, <2>3, <2>4, <2>5, <2>6, <2>7
<1>3. /\ h1 \in Nat /\ h2 \in Nat /\ h3 \in Nat /\ h4 \in Nat /\ h5 \in Nat /\ h6 \in Nat /\ h7 \in Nat
      /\ b \in Nat
    BY DEF Byte
<1> HIDE DEF h1, h2, h3, h4, h5, h6, h7
<1>4. Bits(b) \in [1 .. 8 -> {0, 1}]
  <2>1. ASSUME NEW i \in 1 .. 8 PROVE (b \div Pow2[i]) % 2 \in {0, 1}
    <3>1. Pow2[i] \in Nat \ {0}
        BY DEF Pow2
    <3>2. b \div Pow2[i] \in Nat
        BY <1>3, <3>1
    <3> QED BY <3>2
  <2> QED BY <2>1 DEF Bits
<1>5. Value(Bits(b)) = (b % 2) + 2 * (h1 % 2) + 4 * (h2 % 2) + 8 * (h3 % 2) + 16 * (h4 % 2)
                       + 32 * (h5 % 2) + 64 * (h6 % 2) + 128 * (h7 % 2)
    BY <1>1 DEF Value
<1>6. Value(Bits(b)) = b
    BY <1>2, <1>3, <1>5
<1> QED BY <1>4, <1>6, Numbers

-----------------------------------------------------------------------------
(* What the invariants of the two lines say of the registers.              *)

LEMMA AtRestIs == AtRest <=> L!Resting
BY DEF AtRest, L!Resting, L!Half

(* Between two frames the host has all of the last one but its stop bit.   *)
LEMMA HeardWhole ==
    ASSUME BitIsLong, TopInv, AtRest, timer > 0
    PROVE  /\ Len(heard) = 9 /\ heard \in Seq({0, 1}) /\ timer \in Nat
           /\ timer >= 9 * CYCLE /\ timer <= 9 * CYCLE + CYCLE \div 2
<1>1. L!TxInv /\ L!TxLineTypes /\ L!TimerInv /\ L!RestInv /\ L!Resting /\ L!ClocksAgree
    BY AtRestIs, ClocksAgreeHere DEF TopInv, L!TxLineInv
<1>2. Len(heard) = L!LastBit /\ timer >= L!Begin(L!LastBit)
    BY <1>1, UartAssumption, Numbers, L!RestHeard
<1>3. timer <= L!Due(Len(heard)) /\ heard \in Seq({0, 1}) /\ timer \in Nat
    BY <1>1 DEF L!TimerInv, L!TxLineTypes
<1> QED BY <1>2, <1>3, LineNumbers

LEMMA TxFacts ==
    ASSUME BitIsLong, TopInv
    PROVE  /\ state_count = o_data_valid /\ o_data_valid \in {0, 1}
           /\ tx_baud_valid \in {0, 1} /\ o_state_0 \in {0, 1} /\ timer \in Nat
           /\ o_uart_tx \in {0, 1} /\ tx_baud_cnt \in Nat /\ heard \in Seq({0, 1})
           /\ o_data_tx \in Byte
           /\ tx_baud_valid = 1 => o_state_0 = 1
           /\ tx_baud_valid = 0 => tx_state \in {"IDLE", "END"}
           /\ tx_state # "IDLE" => o_state_0 = 1 /\ o_data_valid = 0
           /\ tx_state = "IDLE" /\ tx_baud_valid = 1 => o_data_valid = 1
           /\ tx_state = "IDLE" /\ tx_baud_valid = 0 /\ o_state_0 = 1 =>
                o_data_valid = 0 /\ timer = 9 * CYCLE + 1
           /\ tx_state = "IDLE" => AtRest /\ tx_baud_cnt = 0
           /\ ~AtRest => tx_baud_valid = 1 /\ tx_state # "IDLE"
           /\ AtRest => o_uart_tx = 1 /\ (tx_state = "END" => timer = 9 * CYCLE)
           /\ AtRest /\ timer > 0 /\ tx_state = "START" => timer >= 9 * CYCLE + 4 + tx_baud_cnt
           /\ timer > 0 => Len(heard) <= 9
<1>1. /\ L!TxInv /\ L!TxLineTypes /\ L!PortInv /\ L!TimerInv /\ L!RestInv /\ TypeOK
      /\ o_data_valid = state_count
    BY DEF TopInv, L!TxLineInv, IInv
<1>2. /\ tx_baud_valid \in {0, 1} /\ o_state_0 \in {0, 1} /\ o_uart_tx \in {0, 1}
      /\ tx_baud_cnt \in Nat /\ o_data_valid \in {0, 1} /\ timer \in Nat
      /\ heard \in Seq({0, 1}) /\ o_data_tx \in Byte
      /\ tx_state = "IDLE" => tx_baud_cnt = 0
      /\ tx_baud_valid = 0 => tx_state \in {"IDLE", "END"}
      /\ tx_state \in {"IDLE", "START", "DATA", "PARITY", "END"}
    BY <1>1, Numbers DEF L!TxInv, L!TxTypeOK, L!TxLineTypes, L!BaudInv, TypeOK, Bit
<1>3. ~AtRest => tx_baud_valid = 1 /\ tx_state # "IDLE"
    BY <1>1, AtRestIs, UartAssumption, Numbers, L!BitRange
<1>4. AtRest => /\ o_uart_tx = 1 /\ (tx_state = "END" => timer = 9 * CYCLE)
                /\ timer > 0 /\ tx_state = "START" => timer >= 9 * CYCLE + 4 + tx_baud_cnt
    BY <1>1, AtRestIs, LineNumbers DEF L!RestInv
<1>5. /\ tx_baud_valid = 1 => o_state_0 = 1
      /\ tx_state # "IDLE" => o_state_0 = 1 /\ o_data_valid = 0
      /\ tx_state = "IDLE" /\ tx_baud_valid = 1 => o_data_valid = 1
      /\ tx_state = "IDLE" /\ tx_baud_valid = 0 /\ o_state_0 = 1 =>
           o_data_valid = 0 /\ timer = 9 * CYCLE + 1
    BY <1>1, LineNumbers DEF L!PortInv
<1>6. timer > 0 => Len(heard) <= 9
    BY <1>1, LineNumbers DEF L!TimerInv
<1> QED BY <1>1, <1>2, <1>3, <1>4, <1>5, <1>6 DEF AtRest

LEMMA HeardByte ==
    ASSUME heard \in Seq({0, 1}), Len(heard) \in {9, 10}
    PROVE  SubSeq(heard, 2, 9) \in Data
<1>1. \A i \in 2 .. 9 : heard[i] \in {0, 1}
    OBVIOUS
<1>2. /\ SubSeq(heard, 2, 9) \in Seq({0, 1}) /\ Len(SubSeq(heard, 2, 9)) = 8
    BY <1>1, SubSeqProperties
<1> QED BY <1>2, LenProperties, Numbers

(* At most one byte is being completed and one on its way.                 *)
LEMMA PendType ==
    ASSUME BitIsLong, TopInv
    PROVE  /\ Pend \in Seq(Data)
           /\ Closing \in Seq(Data) /\ Opening \in Seq(Data)
           /\ Len(Pend) = (IF timer > 0 /\ AtRest THEN 1 ELSE 0)
                          + (IF o_data_valid = 1 \/ tx_baud_valid = 1 THEN 1 ELSE 0)
<1>1. timer > 0 /\ AtRest => SubSeq(heard, 2, 9) \in Data
  <2> SUFFICES ASSUME timer > 0 /\ AtRest PROVE SubSeq(heard, 2, 9) \in Data
      OBVIOUS
  <2>1. heard \in Seq({0, 1}) /\ Len(heard) = 9
      BY HeardWhole
  <2> QED BY <2>1, HeardByte
<1>2. Bits(o_data_tx) \in Data
    BY TxFacts, BitsType
<1>3. /\ Closing \in Seq(Data) /\ Len(Closing) = (IF timer > 0 /\ AtRest THEN 1 ELSE 0)
      /\ Opening \in Seq(Data)
      /\ Len(Opening) = (IF o_data_valid = 1 \/ tx_baud_valid = 1 THEN 1 ELSE 0)
    BY <1>1, <1>2 DEF Closing, Opening
<1> QED BY <1>3, ConcatProperties DEF Pend

LEMMA ConsTail ==
    ASSUME NEW S, NEW x \in S, NEW q \in Seq(S)
    PROVE  /\ Head(<<x>> \o q) = x /\ Tail(<<x>> \o q) = q
           /\ <<x>> \o q \in Seq(S) /\ Len(<<x>> \o q) = Len(q) + 1
<1> DEFINE c == <<x>> \o q
<1>1. <<x>> \in Seq(S) /\ Len(<<x>>) = 1 /\ <<x>>[1] = x
    OBVIOUS
<1>2. /\ c \in Seq(S) /\ Len(c) = Len(q) + 1 /\ c[1] = x
      /\ \A i \in 1 .. Len(q) : c[i + 1] = q[i]
    BY <1>1, ConcatProperties
<1> HIDE DEF c
<1>3. c # <<>>
    BY <1>2
<1>4. Head(c) = x /\ Tail(c) \in Seq(S) /\ Len(Tail(c)) = Len(q)
    BY <1>2, <1>3
<1>5. \A i \in 1 .. Len(q) : Tail(c)[i] = q[i]
    BY <1>2, <1>3
<1>6. Tail(c) = q
    BY <1>4, <1>5, SeqEqual
<1> QED BY <1>2, <1>4, <1>6 DEF c

LEMMA PendingIs ==
    ASSUME BitIsLong, TopInv
    PROVE  L!Pending = Pend
<1>1. CASE Len(heard) = 10
  <2>1. Frame # <<>> /\ Sent = <<SubSeq(heard, 2, 9)>> \o Pend
      BY <1>1 DEF Frame, Sent
  <2>2. SubSeq(heard, 2, 9) \in Data
      BY <1>1, TxFacts, HeardByte
  <2>3. Tail(<<SubSeq(heard, 2, 9)>> \o Pend) = Pend
      BY <2>2, PendType, ConsTail
  <2> QED BY <2>1, <2>3 DEF L!Pending
<1>2. CASE Len(heard) # 10
    BY <1>2 DEF L!Pending, Frame, Sent
<1> QED BY <1>1, <1>2

(* With nothing on its way, the transmitter and the port rest.             *)
LEMMA QuietPort ==
    ASSUME BitIsLong, TopInv, Pend = <<>>
    PROVE  /\ o_data_valid = 0 /\ state_count = 0 /\ tx_baud_valid = 0 /\ tx_state = "IDLE"
           /\ o_state_0 = 0 /\ timer = 0 /\ AtRest /\ o_uart_tx = 1
<1>1. ~(timer > 0 /\ AtRest) /\ o_data_valid # 1 /\ tx_baud_valid # 1
    BY PendType
<1>2. 9 * CYCLE > 0 /\ 9 * CYCLE + 1 > 0
    BY Numbers
<1>3. AtRest /\ timer = 0
    BY <1>1, TxFacts
<1>4. tx_state = "IDLE"
    BY <1>1, <1>2, <1>3, TxFacts DEF AtRest
<1> QED BY <1>1, <1>2, <1>3, <1>4, TxFacts

-----------------------------------------------------------------------------
(* One clock of the design, part by part.                                  *)

LEMMA ValueType ==
    ASSUME NEW bits \in Data
    PROVE  Value(bits) \in Byte
<1>1. \A i \in 1 .. 8 : bits[i] \in {0, 1}
    BY Numbers
<1>2. /\ bits[1] \in {0, 1} /\ bits[2] \in {0, 1} /\ bits[3] \in {0, 1} /\ bits[4] \in {0, 1}
      /\ bits[5] \in {0, 1} /\ bits[6] \in {0, 1} /\ bits[7] \in {0, 1} /\ bits[8] \in {0, 1}
    BY <1>1
<1> QED BY <1>2 DEF Value, Byte

LEMMA TopClock ==
    ASSUME TopInv, UartTopNext
    PROVE  /\ RxClock(Line) /\ TxClock(o_data_valid, Bits(o_data_tx))
           /\ Clock(o_rx_done, Value(o_uart_data), o_state_0)
           /\ o_rx_done \in Bit /\ Value(o_uart_data) \in Byte /\ o_state_0 \in Bit
           /\ IInv /\ IInv' /\ Listen
<1>1. /\ RxClock(Line) /\ Clock(o_rx_done, Value(o_uart_data), o_state_0)
      /\ TxClock(o_data_valid, Bits(o_data_tx)) /\ Listen
    BY DEF UartTopNext, Fpga
<1>2. o_rx_done \in Bit /\ o_uart_data \in Data /\ o_state_0 \in Bit
    BY DEF TopInv, L!RxLineInv, L!RxInv, L!RxTypeOK, L!TxLineInv, L!TxInv, L!TxTypeOK, Bit,
           L!Data, Data
<1>3. Value(o_uart_data) \in Byte
    BY <1>2, ValueType
<1>4. IInv
    BY DEF TopInv
<1> QED BY <1>1, <1>2, <1>3, <1>4, ClockInv

(* The port of the core offers a byte, or holds or releases the one there. *)
LEMMA CorePort ==
    ASSUME IInv, NEW dv, NEW d, NEW s0 \in Bit, Clock(dv, d, s0)
    PROVE  \/ s0 = 0 /\ o_data_valid = 0 /\ o_data_valid' = 1
           \/ o_data_valid' = (IF s0 = 1 THEN 0 ELSE o_data_valid) /\ UNCHANGED o_data_tx
<1>1. o_data_valid \in Bit /\ o_data_valid = state_count
    BY DEF IInv, TypeOK
<1>2. ASSUME Release(s0)
      PROVE  o_data_valid' = (IF s0 = 1 THEN 0 ELSE o_data_valid) /\ UNCHANGED o_data_tx
    BY <1>2 DEF Release, portVars, Bit
<1>3. ASSUME Port(dv, d, s0)
      PROVE  \/ s0 = 0 /\ o_data_valid = 0 /\ o_data_valid' = 1
             \/ o_data_valid' = (IF s0 = 1 THEN 0 ELSE o_data_valid) /\ UNCHANGED o_data_tx
    BY <1>1, <1>2, <1>3 DEF Port, PollAsked, Offer
<1> QED BY <1>1, <1>2, <1>3
     DEF Bit, Clock, IdleByte, IdleFull, IdleWait, StartSM3, StartSM4, RejectInst, LeaveInst,
         Sm3Step1, Sm3Step2, Sm3Step3, Sm4Step1, Sm4Step2, Sm4Step3,
         TxDataByte, TxDataEnd, TxDataWait, TxOneSend, TxOneWait, Offer

LEMMA TxClockSame ==
    ASSUME NEW v, NEW d, TxClock(v, d)
    PROVE  L!TxClock(v, d)
<1>1. L!TxBaud /\ L!TxMove
    BY DEF TxClock, TxBaud, TxMove, TxAfter, L!TxBaud, L!TxMove, L!TxAfter
<1>2. L!TxIdle(v, d) \/ L!TxStart \/ L!TxData \/ L!TxParity \/ L!TxEnd
    BY DEF TxClock, TxIdle, TxStart, TxData, TxParity, TxParityBit, TxEnd,
           L!TxIdle, L!TxStart, L!TxData, L!TxParity, L!TxParityBit, L!TxEnd
<1> QED BY <1>1, <1>2 DEF L!TxClock

LEMMA LastOfTen ==
    ASSUME NEW n \in Nat
    PROVE  /\ n + 1 = 10 <=> n = 9
           /\ n <= 9 => n # 10
OBVIOUS

(* What the host does with the line in a clock.                            *)
LEMMA HostClockHere ==
    ASSUME TopInv, UartTopNext
    PROVE  L!HostClock
<1>1. /\ timer' = IF timer = 0 THEN (IF o_uart_tx = 0 THEN 1 ELSE 0)
                  ELSE IF ByteHeard THEN 0 ELSE timer + 1
      /\ heard' = IF timer = 0 THEN <<>>
                  ELSE IF SampleDue THEN Append(heard, o_uart_tx) ELSE heard
    BY DEF UartTopNext, Listen
<1>2. timer \in Nat /\ heard \in Seq({0, 1}) /\ (timer > 0 => Len(heard) <= 9)
      /\ Len(heard) \in Nat /\ o_uart_tx \in {0, 1}
  <2>1. timer \in Nat /\ heard \in Seq({0, 1}) /\ (timer > 0 => Len(heard) <= 9)
        /\ o_uart_tx \in {0, 1}
      BY LineNumbers DEF TopInv, L!TxLineInv, L!TxLineTypes, L!TimerInv, L!TxInv, L!TxTypeOK
  <2> QED BY <2>1, LenProperties
<1>3. L!SampleDue <=> SampleDue
    BY DEF SampleDue, L!SampleDue
<1>4. L!FrameHeard <=> ByteHeard
  <2>1. Len(heard) + 1 = 10 <=> Len(heard) = 9
      BY <1>2, LastOfTen
  <2>2. L!FrameHeard <=> SampleDue /\ Len(heard) + 1 = 10
      BY <1>3, LineNumbers DEF L!FrameHeard
  <2> QED BY <2>1, <2>2 DEF ByteHeard
<1>5. L!Listen \/ L!SampleBit
  <2>1. CASE timer = 0
      BY <1>1, <2>1 DEF L!Listen
  <2>2. CASE timer > 0
    <3>1. timer # 0
        BY <1>2, <2>2
    <3>2. heard' = IF L!SampleDue THEN Append(heard, o_uart_tx) ELSE heard
        BY <1>1, <1>3, <3>1
    <3>3. timer' = IF L!SampleDue /\ Len(heard) + 1 = L!FrameBits THEN 0 ELSE timer + 1
        BY <1>1, <1>4, <3>1 DEF L!FrameHeard
    <3> QED BY <2>2, <3>2, <3>3 DEF L!SampleBit
  <2> QED BY <1>2, <2>1, <2>2
<1>6. Len(heard') = 10 <=> ByteHeard
  <2>1. CASE timer = 0
    <3>1. Len(<<>>) = 0
        OBVIOUS
    <3>2. heard' = <<>> /\ ~ByteHeard
        BY <1>1, <2>1 DEF ByteHeard, SampleDue
    <3> QED BY <3>1, <3>2
  <2>2. CASE timer > 0 /\ SampleDue
    <3>1. heard' = Append(heard, o_uart_tx)
        BY <1>1, <1>2, <2>2
    <3>2. Len(heard') = Len(heard) + 1
        BY <1>2, <3>1
    <3>3. Len(heard) + 1 = 10 <=> Len(heard) = 9
        BY <1>2, LastOfTen
    <3> QED BY <2>2, <3>2, <3>3 DEF ByteHeard
  <2>3. CASE timer > 0 /\ ~SampleDue
    <3>1. timer # 0
        BY <1>2, <2>3
    <3>3. Len(heard) <= 9
        BY <1>2, <2>3
    <3>4. Len(heard) # 10
        BY <1>2, <3>3, LastOfTen
    <3>2. heard' = heard
        BY <1>1, <2>3, <3>1
    <3> QED BY <2>3, <3>2, <3>4 DEF ByteHeard
  <2> QED BY <1>2, <2>1, <2>2, <2>3
<1>7. ByteHeard => heard' = Append(heard, o_uart_tx)
    BY <1>1 DEF ByteHeard, SampleDue
<1>8. Frame' = IF L!FrameHeard THEN <<Append(heard, o_uart_tx)>> ELSE <<>>
    BY <1>4, <1>6, <1>7 DEF Frame
<1> QED BY <1>5, <1>8 DEF L!HostClock

(* Between two frames: the host takes the last bit, or waits for a start.  *)
LEMMA HearAtRest ==
    ASSUME BitIsLong, TopInv, UartTopNext, AtRest
    PROVE  /\ timer = 0 => timer' = 0 /\ heard' = <<>> /\ ~ByteHeard
           /\ ByteHeard <=> timer = 9 * CYCLE + CYCLE \div 2
           /\ timer > 0 => IF ByteHeard THEN timer' = 0 /\ heard' = Append(heard, 1)
                           ELSE timer' = timer + 1 /\ heard' = heard
<1>1. o_uart_tx = 1 /\ timer \in Nat /\ 9 * CYCLE + CYCLE \div 2 > 0
    BY TxFacts, Numbers
<1>2. CASE timer = 0
    BY <1>1, <1>2 DEF UartTopNext, Listen, ByteHeard, SampleDue
<1>3. CASE timer > 0
  <2>1. Len(heard) = 9 /\ heard \in Seq({0, 1})
      BY <1>3, HeardWhole
  <2>2. timer <= L!Due(9) /\ L!Due(9) < timer + CYCLE
      BY <1>3, <2>1 DEF TopInv, L!TxLineInv, L!TimerInv
  <2>3. L!SampleDue <=> timer = L!Due(9)
      BY <1>1, <1>3, <2>2, UartAssumption, Numbers, L!SampleTime
  <2>4. ByteHeard <=> timer = 9 * CYCLE + CYCLE \div 2
      BY <2>1, <2>3, LineNumbers DEF ByteHeard, SampleDue, L!SampleDue
  <2>5. ByteHeard <=> SampleDue
      BY <2>1 DEF ByteHeard
  <2> QED BY <1>1, <1>3, <2>4, <2>5 DEF UartTopNext, Listen
<1> QED BY <1>1, <1>2, <1>3

LEMMA HearInFrame ==
    ASSUME BitIsLong, TopInv, UartTopNext, ~AtRest
    PROVE  ~ByteHeard /\ timer' = timer + 1 /\ timer \in Nat
<1>1. L!HostClock /\ L!TxLineInv /\ ~L!Resting /\ L!ClocksAgree
    BY HostClockHere, AtRestIs, ClocksAgreeHere DEF TopInv
<1>2. Frame' = <<>> /\ timer' = timer + 1 /\ timer \in Nat
    BY <1>1, UartAssumption, Numbers, L!NoneHeardInFrame
<1>3. ByteHeard => timer' = 0
    BY DEF UartTopNext, Listen, ByteHeard, SampleDue
<1> QED BY <1>2, <1>3

-----------------------------------------------------------------------------
(* What a clock does to the bytes that are on their way to the host.       *)

Offers  == o_data_valid = 0 /\ o_data_valid' = 1
NewByte == IF Offers THEN <<Bits(o_data_tx')>> ELSE <<>>

LEMMA RestNext ==
    ASSUME TopInv, UartTopNext, AtRest
    PROVE  /\ tx_state = "END" =>
                tx_state' = "IDLE" /\ tx_baud_valid' = 0 /\ AtRest' /\ o_state_0' = o_state_0
           /\ tx_state = "IDLE" =>
                /\ AtRest' /\ o_state_0' = o_data_valid
                /\ tx_baud_valid' = (IF o_data_valid = 1 THEN 1 ELSE tx_baud_valid)
                /\ tx_baud_valid = 0 => tx_state' = "IDLE"
                /\ tx_baud_valid = 1 => tx_state' = "START" /\ tx_baud_cnt' = 1
           /\ tx_state = "START" =>
                /\ tx_state' = "START" /\ UNCHANGED <<tx_baud_valid, o_state_0>>
                /\ tx_baud_valid = 1 /\ tx_baud_cnt' = tx_baud_cnt + 1
                /\ tx_baud_cnt # CYCLE \div 2 <=> AtRest'
<1>1. L!TxInv /\ L!Resting /\ o_data_valid \in {0, 1}
    BY AtRestIs DEF TopInv, L!TxLineInv, IInv, TypeOK, Bit
<1>2. Bits(o_data_tx) \in L!Data
    BY BitsType DEF TopInv, IInv, TypeOK, L!Data, Data
<1>3. L!TxClock(o_data_valid, Bits(o_data_tx))
    BY TopClock, TxClockSame
<1>4. AtRest' <=> L!Resting'
    BY DEF AtRest, L!Resting, L!Half
<1>5. L!Half = CYCLE \div 2
    BY LineNumbers
<1> QED BY <1>1, <1>2, <1>3, <1>4, <1>5, UartAssumption, Numbers, L!RestGoesOn

LEMMA FrameNext ==
    ASSUME BitIsLong, TopInv, UartTopNext, ~AtRest
    PROVE  /\ o_state_0' = o_state_0 /\ tx_state' # "IDLE"
           /\ ~AtRest' => tx_baud_valid' = 1
           /\ AtRest' => /\ tx_state' = "END" /\ tx_baud_valid' = 0 /\ o_uart_tx' = 1
                         /\ timer = 9 * CYCLE - 1
<1>1. /\ L!TxInv /\ ~L!Resting /\ L!FrameInv
    BY AtRestIs DEF TopInv, L!TxLineInv
<1>2. Bits(o_data_tx) \in L!Data
    BY BitsType DEF TopInv, IInv, TypeOK, L!Data, Data
<1>3. L!TxClock(o_data_valid, Bits(o_data_tx))
    BY TopClock, TxClockSame
<1>4. AtRest' <=> L!Resting'
    BY DEF AtRest, L!Resting, L!Half
<1>5. tx_baud_pulse \in {0, 1}
    BY <1>1 DEF L!TxInv, L!TxTypeOK
<1>6. CASE tx_baud_pulse = 0
    BY <1>1, <1>2, <1>3, <1>4, <1>6, UartAssumption, Numbers, L!BitGoesOn
<1>7. CASE tx_baud_pulse = 1
  <2>1. /\ o_state_0' = o_state_0 /\ tx_state' # "IDLE"
        /\ \/ /\ L!Resting' /\ L!BitNo = L!LastBit - 1
              /\ tx_state' = "END" /\ tx_baud_valid' = 0 /\ o_uart_tx' = 1
           \/ ~L!Resting' /\ tx_baud_valid' = 1
      BY <1>1, <1>2, <1>3, <1>7, UartAssumption, Numbers, L!BitEnds
  <2>2. L!Since = CYCLE - 1
      BY <1>1, <1>7, UartAssumption, Numbers, L!BitRange
  <2>3. AtRest' => timer = 9 * CYCLE - 1
    <3> SUFFICES ASSUME AtRest' PROVE timer = 9 * CYCLE - 1
        OBVIOUS
    <3>1. L!BitNo = 8
        BY <1>4, <2>1, LineNumbers
    <3>2. timer = L!Begin(8) + CYCLE - 1
        BY <1>1, <2>2, <3>1, Numbers DEF L!FrameInv, L!Begin
    <3>3. L!Begin(8) = 8 * CYCLE
        BY DEF L!Begin
    <3> QED BY <3>2, <3>3, Numbers
  <2> QED BY <1>4, <2>1, <2>3
<1> QED BY <1>5, <1>6, <1>7

LEMMA ClosingAtRest ==
    ASSUME BitIsLong, TopInv, UartTopNext, AtRest
    PROVE  Closing' = IF ByteHeard THEN <<>> ELSE Closing
<1>1. timer \in Nat /\ tx_state \in {"IDLE", "START", "END"}
    BY TxFacts DEF AtRest
<1>2. CASE timer = 0
  <2>1. timer' = 0 /\ ~ByteHeard
      BY <1>2, HearAtRest
  <2> QED BY <1>2, <2>1 DEF Closing
<1>3. CASE timer > 0 /\ ByteHeard
  <2>1. timer' = 0
      BY <1>3, HearAtRest
  <2> QED BY <1>3, <2>1 DEF Closing
<1>4. CASE timer > 0 /\ ~ByteHeard
  <2>1. timer' = timer + 1 /\ heard' = heard
      BY <1>4, HearAtRest
  <2>2. tx_state = "START" => tx_baud_cnt # CYCLE \div 2
    <3>1. timer <= 9 * CYCLE + CYCLE \div 2
        BY <1>4, HeardWhole
    <3>2. tx_state = "START" => timer >= 9 * CYCLE + 4 + tx_baud_cnt
        BY <1>4, TxFacts
    <3> QED BY <1>1, <3>1, <3>2, Numbers, TxFacts
  <2>3. AtRest'
      BY <1>1, <2>2, RestNext
  <2> QED BY <1>1, <1>4, <2>1, <2>3 DEF Closing
<1> QED BY <1>1, <1>2, <1>3, <1>4

LEMMA OpeningAtRest ==
    ASSUME BitIsLong, TopInv, UartTopNext, AtRest
    PROVE  Opening' = Opening \o NewByte /\ (Offers => Opening = <<>>)
<1>1. /\ o_data_valid \in {0, 1} /\ tx_baud_valid \in {0, 1} /\ o_state_0 \in {0, 1}
      /\ tx_state \in {"IDLE", "START", "END"}
      /\ tx_baud_valid = 1 => o_state_0 = 1
      /\ tx_state # "IDLE" => o_state_0 = 1 /\ o_data_valid = 0
    BY TxFacts DEF AtRest
<1>2. /\ \/ o_state_0 = 0 /\ o_data_valid = 0 /\ o_data_valid' = 1
         \/ o_data_valid' = (IF o_state_0 = 1 THEN 0 ELSE o_data_valid) /\ UNCHANGED o_data_tx
    BY TopClock, CorePort
<1>3. Opening \in Seq(Data)
    BY PendType
<1>4. CASE Offers
  <2>1. o_state_0 = 0 /\ o_data_valid = 0 /\ o_data_valid' = 1 /\ tx_baud_valid = 0
      BY <1>1, <1>2, <1>4 DEF Offers
  <2>2. Opening = <<>> /\ Opening' = <<Bits(o_data_tx')>>
      BY <2>1 DEF Opening
  <2>3. Bits(o_data_tx') \in Data
      BY TopClock, BitsType DEF IInv, TypeOK
  <2>4. <<>> \o <<Bits(o_data_tx')>> = <<Bits(o_data_tx')>>
      BY <2>3
  <2> QED BY <1>4, <2>2, <2>4 DEF NewByte
<1>5. CASE ~Offers
  <2>1. o_data_valid' = (IF o_state_0 = 1 THEN 0 ELSE o_data_valid) /\ o_data_tx' = o_data_tx
      BY <1>2, <1>5 DEF Offers
  <2>2. o_data_valid' = 1 \/ tx_baud_valid' = 1 <=> o_data_valid = 1 \/ tx_baud_valid = 1
    <3>1. CASE tx_state = "END"
      <4>1. tx_baud_valid' = 0 /\ tx_baud_valid = 0
          BY <3>1, RestNext DEF AtRest
      <4> QED BY <1>1, <2>1, <3>1, <4>1
    <3>2. CASE tx_state = "IDLE"
      <4>1. tx_baud_valid' = (IF o_data_valid = 1 THEN 1 ELSE tx_baud_valid)
          BY <3>2, RestNext
      <4> QED BY <1>1, <2>1, <4>1
    <3>3. CASE tx_state = "START"
      <4>1. tx_baud_valid' = 1 /\ tx_baud_valid = 1
          BY <3>3, RestNext
      <4> QED BY <4>1
    <3> QED BY <1>1, <3>1, <3>2, <3>3
  <2>3. Opening' = Opening
      BY <2>1, <2>2 DEF Opening
  <2>4. Opening \o <<>> = Opening
      BY <1>3
  <2> QED BY <1>5, <2>3, <2>4 DEF NewByte
<1> QED BY <1>4, <1>5

(* The end of a frame: the host has all of its bits but the stop bit.      *)
LEMMA FrameHeldWhole ==
    ASSUME BitIsLong, TopInv, UartTopNext, ~AtRest, AtRest'
    PROVE  SubSeq(heard', 2, 9) = Bits(o_data_tx)
<1>1. timer = 9 * CYCLE - 1 /\ timer \in Nat /\ timer > 0
    BY FrameNext, Numbers, TxFacts
<1>2. /\ L!TxLineTypes /\ L!TimerInv /\ L!ClocksAgree /\ L!HostClock /\ L!FrameInv
      /\ heard \in Seq({0, 1}) /\ Len(heard) \in Nat
    BY ClocksAgreeHere, HostClockHere, TxFacts, LenProperties DEF TopInv, L!TxLineInv
<1>3. /\ Len(heard) <= 9 /\ timer <= L!Due(Len(heard)) /\ L!Due(Len(heard)) < timer + CYCLE
      /\ L!Pending # <<>> /\ L!HeardOf(Head(L!Pending))
    BY <1>1, <1>2, LineNumbers DEF L!TimerInv
<1>4. Len(heard) = 9
  <2> DEFINE h == Len(heard)
  <2>1. h * CYCLE + CYCLE \div 2 >= 9 * CYCLE - 1
      BY <1>1, <1>3, LineNumbers DEF L!Due, L!Half
  <2>2. ASSUME h <= 8 PROVE FALSE
    <3>1. h * CYCLE <= 8 * CYCLE
        BY <1>2, <2>2, Numbers
    <3>2. h * CYCLE \in Nat
        BY <1>2, Numbers
    <3> HIDE DEF h
    <3> QED BY <2>1, <3>1, <3>2, Numbers
  <2>3. h \in Nat /\ h <= 9
      BY <1>2, <1>3
  <2> HIDE DEF h
  <2>4. h = 9
      BY <2>2, <2>3
  <2> QED BY <2>4 DEF h
<1>5. timer # L!Due(Len(heard))
    BY <1>1, <1>4, LineNumbers, Numbers
<1>6. heard' = heard
    BY <1>1, <1>2, <1>5, UartAssumption, Numbers, L!HostStep
<1>7. Head(L!Pending) = Bits(o_data_tx)
  <2>1. L!Pending = <<Bits(o_data_tx)>>
    <3>1. tx_baud_valid = 1
        BY TxFacts
    <3>2. Closing = <<>> /\ Opening = <<Bits(o_data_tx)>>
        BY <3>1 DEF Closing, Opening
    <3>3. Opening \in Seq(Data)
        BY PendType
    <3> QED BY <3>2, <3>3, PendingIs DEF Pend
  <2> QED BY <2>1
<1>8. \A i \in 1 .. 9 : i \in 2 .. 9 => heard[i] = Bits(o_data_tx)[i - 1]
    BY <1>3, <1>4, <1>7, Numbers DEF L!HeardOf
<1>9. /\ SubSeq(heard, 2, 9) \in Seq({0, 1}) /\ Len(SubSeq(heard, 2, 9)) = 8
      /\ \A i \in 1 .. 8 : SubSeq(heard, 2, 9)[i] = heard[i + 1]
  <2>1. SubSeq(heard, 2, 9) \in Data
      BY <1>2, <1>4, HeardByte
  <2>2. \A i \in 2 .. 9 : heard[i] \in {0, 1}
    <3>1. \A i \in 2 .. 9 : i \in 1 .. Len(heard)
        BY <1>4
    <3> QED BY <1>2, <3>1, ElementOfSeq
  <2> QED BY <1>2, <1>4, <2>2, SubSeqProperties
<1>10. Bits(o_data_tx) \in [1 .. 8 -> {0, 1}] /\ SubSeq(heard, 2, 9) \in [1 .. 8 -> {0, 1}]
    BY <1>2, <1>4, TxFacts, BitsType, HeardByte, Numbers
<1>11. \A i \in 1 .. 8 : SubSeq(heard, 2, 9)[i] = Bits(o_data_tx)[i]
    BY <1>8, <1>9
<1>12. SubSeq(heard, 2, 9) = Bits(o_data_tx)
    BY <1>10, <1>11
<1> QED BY <1>6, <1>12

(* What is on its way: the host completes the first byte, the core adds    *)
(* the last one, and nothing else happens to them.                         *)
PendLeft == IF ByteHeard THEN Tail(Pend) ELSE Pend
LEMMA PendNext ==
    ASSUME BitIsLong, TopInv, UartTopNext
    PROVE  /\ ByteHeard => AtRest /\ timer > 0 /\ Pend = Closing \o Opening /\ Head(Pend) = SubSeq(heard, 2, 9)
           /\ PendLeft \in Seq(Data)
           /\ Len(Pend) = Len(PendLeft) + (IF ByteHeard THEN 1 ELSE 0)
           /\ Pend' = PendLeft \o NewByte /\ NewByte \in Seq(Data)
           /\ Offers => NewByte = <<Bits(o_data_tx')>> /\ Bits(o_data_tx') \in Data
           /\ ~Offers => NewByte = <<>>
<1>1. /\ Closing \in Seq(Data) /\ Opening \in Seq(Data) /\ Pend \in Seq(Data) /\ timer \in Nat
      /\ Bits(o_data_tx) \in Data
    BY PendType, TxFacts, BitsType
<1>2. /\ Offers => NewByte = <<Bits(o_data_tx')>> /\ Bits(o_data_tx') \in Data
      /\ ~Offers => NewByte = <<>>
      /\ NewByte \in Seq(Data)
    BY TopClock, BitsType DEF IInv, TypeOK, NewByte
<1>3. CASE AtRest
  <2>1. Closing' = (IF ByteHeard THEN <<>> ELSE Closing) /\ Opening' = Opening \o NewByte
      BY <1>3, ClosingAtRest, OpeningAtRest
  <2>2. CASE ByteHeard
    <3>1. timer > 0
        BY <1>1, <1>3, <2>2, HearAtRest
    <3>2. Closing = <<SubSeq(heard, 2, 9)>>
        BY <1>3, <3>1 DEF Closing
    <3>3. SubSeq(heard, 2, 9) \in Data
        BY <1>3, <3>1, HeardWhole, HeardByte
    <3>4. Head(Pend) = SubSeq(heard, 2, 9) /\ Tail(Pend) = Opening /\ Len(Pend) = Len(Opening) + 1
        BY <1>1, <3>2, <3>3, ConsTail DEF Pend
    <3>5. Pend' = Opening \o NewByte
        BY <1>1, <1>2, <2>1, <2>2 DEF Pend
    <3>6. PendLeft = Opening
        BY <2>2, <3>4 DEF PendLeft
    <3> QED BY <1>1, <1>2, <1>3, <2>2, <3>1, <3>4, <3>5, <3>6 DEF Pend
  <2>3. CASE ~ByteHeard
    <3>1. Pend' = Closing \o (Opening \o NewByte)
        BY <2>1, <2>3 DEF Pend
    <3>2. Pend' = (Closing \o Opening) \o NewByte
        BY <1>1, <1>2, <3>1
    <3> QED BY <1>1, <1>2, <2>3, <3>2 DEF Pend, PendLeft
  <2> QED BY <2>2, <2>3
<1>4. CASE ~AtRest
  <2>1. ~ByteHeard /\ timer' > 0
      BY <1>1, <1>4, HearInFrame
  <2>2. tx_baud_valid = 1 /\ o_state_0 = 1 /\ o_data_valid = 0
      BY <1>4, TxFacts
  <2>3. o_data_valid' = 0 /\ o_data_tx' = o_data_tx
      BY <2>2, TopClock, CorePort
  <2>4. ~Offers /\ NewByte = <<>>
      BY <2>3 DEF Offers, NewByte
  <2>5. Pend = <<Bits(o_data_tx)>>
    <3>1. Closing = <<>> /\ Opening = <<Bits(o_data_tx)>>
        BY <1>4, <2>2 DEF Closing, Opening
    <3> QED BY <1>1, <3>1 DEF Pend
  <2>6. Pend' = <<Bits(o_data_tx)>>
    <3>1. CASE AtRest'
      <4>1. tx_baud_valid' = 0 /\ SubSeq(heard', 2, 9) = Bits(o_data_tx)
          BY <1>4, <3>1, FrameNext, FrameHeldWhole
      <4>2. Closing' = <<Bits(o_data_tx)>> /\ Opening' = <<>>
          BY <2>1, <2>3, <3>1, <4>1 DEF Closing, Opening
      <4> QED BY <1>1, <4>2 DEF Pend
    <3>2. CASE ~AtRest'
      <4>1. tx_baud_valid' = 1
          BY <1>4, <3>2, FrameNext
      <4>2. Closing' = <<>> /\ Opening' = <<Bits(o_data_tx)>>
          BY <2>3, <3>2, <4>1 DEF Closing, Opening
      <4> QED BY <1>1, <4>2 DEF Pend
    <3> QED BY <3>1, <3>2
  <2> QED BY <1>1, <1>2, <2>1, <2>4, <2>5, <2>6 DEF PendLeft
<1> QED BY <1>3, <1>4

LEMMA HeardTenth ==
    ASSUME TopInv, UartTopNext
    PROVE  /\ Len(heard') = 10 <=> ByteHeard
           /\ ByteHeard => heard' = Append(heard, o_uart_tx)
<1>1. Frame' # <<>> <=> L!FrameHeard
  <2>1. Frame' = IF L!FrameHeard THEN <<Append(heard, o_uart_tx)>> ELSE <<>>
      BY HostClockHere DEF L!HostClock
  <2>2. <<Append(heard, o_uart_tx)>> # <<>>
      OBVIOUS
  <2> QED BY <2>1, <2>2
<1>2. L!FrameHeard <=> ByteHeard
  <2>1. L!SampleDue <=> SampleDue
      BY DEF SampleDue, L!SampleDue
  <2>2. Len(heard) \in Nat
      BY LenProperties DEF TopInv, L!TxLineInv, L!TxLineTypes
  <2>3. Len(heard) + 1 = 10 <=> Len(heard) = 9
      BY <2>2, LastOfTen
  <2>4. L!FrameHeard <=> SampleDue /\ Len(heard) + 1 = 10
      BY <2>1, LineNumbers DEF L!FrameHeard
  <2> QED BY <2>3, <2>4 DEF ByteHeard
<1>3. Frame' # <<>> <=> Len(heard') = 10
  <2>1. <<heard'>> # <<>>
      OBVIOUS
  <2> QED BY <2>1 DEF Frame
<1>4. ByteHeard => heard' = Append(heard, o_uart_tx)
    BY DEF UartTopNext, Listen, ByteHeard, SampleDue
<1> QED BY <1>1, <1>2, <1>3, <1>4

LEMMA AppendIs ==
    ASSUME NEW S, NEW q \in Seq(S), NEW x \in S
    PROVE  q \o <<x>> = Append(q, x)
OBVIOUS

LEMMA HeardKept ==
    ASSUME NEW h \in Seq({0, 1}), Len(h) = 9, NEW b \in {0, 1}
    PROVE  SubSeq(Append(h, b), 2, 9) = SubSeq(h, 2, 9)
<1> DEFINE g == Append(h, b)
<1>1. \A i \in 2 .. 9 : i \in 1 .. Len(h)
    OBVIOUS
<1>2. \A i \in 2 .. 9 : h[i] \in {0, 1}
    BY <1>1, ElementOfSeq
<1>3. \A i \in 2 .. 9 : g[i] = h[i]
  <2> SUFFICES ASSUME NEW i \in 2 .. 9 PROVE Append(h, b)[i] = h[i]
      BY DEF g
  <2>1. i \in 1 .. Len(h)
      BY <1>1
  <2>2. \A e \in {0, 1} : \A q \in Seq({0, 1}) : \A j \in 1 .. Len(q) : Append(q, e)[j] = q[j]
      OBVIOUS
  <2> QED BY <2>1, <2>2
<1> HIDE DEF g
<1>4. \A i \in 2 .. 9 : g[i] \in {0, 1}
    BY <1>2, <1>3
<1>5. /\ SubSeq(h, 2, 9) \in Seq({0, 1}) /\ Len(SubSeq(h, 2, 9)) = 8
      /\ \A i \in 1 .. 8 : SubSeq(h, 2, 9)[i] = h[i + 1]
    BY <1>2, SubSeqProperties
<1>6. /\ SubSeq(g, 2, 9) \in Seq({0, 1}) /\ Len(SubSeq(g, 2, 9)) = 8
      /\ \A i \in 1 .. 8 : SubSeq(g, 2, 9)[i] = g[i + 1]
    BY <1>4, SubSeqProperties
<1>7. \A i \in 1 .. 8 : SubSeq(g, 2, 9)[i] = SubSeq(h, 2, 9)[i]
    BY <1>3, <1>5, <1>6
<1>8. SubSeq(g, 2, 9) = SubSeq(h, 2, 9)
    BY <1>5, <1>6, <1>7, SeqEqual
<1> QED BY <1>8 DEF g

LEMMA SentNext ==
    ASSUME BitIsLong, TopInv, UartTopNext
    PROVE  Sent' = Pend \o NewByte
<1>1. /\ Pend \in Seq(Data) /\ PendLeft \in Seq(Data) /\ NewByte \in Seq(Data)
      /\ Pend' = PendLeft \o NewByte
    BY PendNext, PendType
<1>2. CASE ByteHeard
  <2>1. heard' = Append(heard, o_uart_tx) /\ Len(heard') = 10 /\ AtRest /\ timer > 0
      BY <1>2, HeardTenth, PendNext
  <2>2. Len(heard) = 9 /\ heard \in Seq({0, 1}) /\ o_uart_tx \in {0, 1}
      BY <2>1, HeardWhole, TxFacts
  <2>3. SubSeq(heard', 2, 9) = SubSeq(heard, 2, 9) /\ SubSeq(heard, 2, 9) \in Data
      BY <2>1, <2>2, HeardKept, HeardByte
  <2>4. /\ Closing = <<SubSeq(heard, 2, 9)>>
        /\ Closing \in Seq(Data) /\ Opening \in Seq(Data)
      BY <2>1, PendType DEF Closing
  <2>5. PendLeft = Opening
      BY <1>2, <2>3, <2>4, ConsTail DEF PendLeft, Pend
  <2>6. Sent' = Closing \o (Opening \o NewByte)
      BY <1>1, <2>1, <2>3, <2>4, <2>5 DEF Sent
  <2>7. NewByte \in Seq(Data)
      BY <1>1
  <2>8. Closing \o (Opening \o NewByte) = (Closing \o Opening) \o NewByte
      BY <2>4, <2>7
  <2> QED BY <2>6, <2>8 DEF Pend
<1>3. CASE ~ByteHeard
    BY <1>1, <1>3, HeardTenth DEF Sent, PendLeft
<1> QED BY <1>2, <1>3

(* The transmitter and the host of this design are those of Lines_proofs.  *)
LEMMA TxLineClockHere ==
    ASSUME BitIsLong, TopInv, UartTopNext
    PROVE  L!TxLineClock
<1>1. L!HostClock /\ L!TxClock(o_data_valid, Bits(o_data_tx))
    BY HostClockHere, TopClock, TxClockSame
<1>2. /\ Sent' = Pend \o NewByte /\ Pend \in Seq(Data)
      /\ Pend = IF Frame = <<>> THEN Sent ELSE Tail(Sent)
    BY SentNext, PendType, PendingIs DEF L!Pending
<1>3. \/ o_state_0 = 0 /\ o_data_valid = 0 /\ o_data_valid' = 1
      \/ o_data_valid' = (IF o_state_0 = 1 THEN 0 ELSE o_data_valid) /\ UNCHANGED o_data_tx
    BY TopClock, CorePort
<1>4. state_count = o_data_valid /\ state_count' = o_data_valid' /\ o_data_valid \in {0, 1}
    BY TopClock DEF IInv, TypeOK, Bit
<1>5. CASE Offers
  <2>1. NewByte = <<Bits(o_data_tx')>> /\ Bits(o_data_tx') \in L!Data /\ Bits(o_data_tx') \in Data
      BY <1>5, PendNext DEF L!Data, Data
  <2>2. Sent' = Append(Pend, Bits(o_data_tx'))
      BY <1>2, <2>1, AppendIs
  <2>3. L!PortOffer(Bits(o_data_tx'))
      BY <1>3, <1>4, <1>5 DEF L!PortOffer, Offers
  <2> QED BY <1>1, <1>2, <2>1, <2>2, <2>3 DEF L!TxLineClock
<1>6. CASE ~Offers
  <2>1. Sent' = Pend
      BY <1>2, <1>6 DEF NewByte
  <2>2. UNCHANGED o_data_tx /\ o_data_valid' = (IF o_state_0 = 1 THEN 0 ELSE o_data_valid)
      BY <1>3, <1>6 DEF Offers
  <2>3. Bits(o_data_tx') = Bits(o_data_tx)
      BY <2>2
  <2>4. L!PortWait
      BY <1>4, <2>2, <2>3 DEF L!PortWait
  <2> QED BY <1>1, <1>2, <2>1, <2>4 DEF L!TxLineClock
<1> QED BY <1>5, <1>6

LEMMA TxLineInvHere ==
    ASSUME BitIsLong, TopInv, UartTopNext
    PROVE  L!TxLineInv'
BY TxLineClockHere, ClocksAgreeHere, UartAssumption, Numbers, L!TxLineInvClock DEF TopInv

-----------------------------------------------------------------------------
(* A clock of the core, by its state.  Released: the port offers nothing   *)
(* new in this clock.                                                      *)

Released(s0) ==
    o_data_valid' = (IF s0 = 1 THEN 0 ELSE o_data_valid) /\ UNCHANGED o_data_tx

LEMMA ReleasedIs ==
    ASSUME IInv, NEW s0 \in Bit, Release(s0)
    PROVE  Released(s0)
BY DEF Release, Released, portVars, Bit

LEMMA IdleClock ==
    ASSUME IInv, NEW dv \in Bit, NEW d, NEW s0 \in Bit, Clock(dv, d, s0), state = "IDLE"
    PROVE  /\ Released(s0) /\ UNCHANGED <<tx_byte_cnt, calc_done>>
           /\ rx_byte_cnt < 12 /\ dv = 0 => UNCHANGED <<state, rx_byte_cnt, nice_req_inst>>
           /\ rx_byte_cnt < 12 /\ dv = 1 =>
                /\ rx_byte_cnt' = rx_byte_cnt + 1
                /\ state' = IF (rx_byte_cnt + 1) % 4 = 0 THEN "TX_ONE" ELSE "IDLE"
                /\ nice_req_inst' =
                     IF rx_byte_cnt \in {2, 3} THEN nice_req_inst
                     ELSE <<nice_req_inst[2], nice_req_inst[3], nice_req_inst[4],
                            nice_req_inst[5], nice_req_inst[6], nice_req_inst[7],
                            nice_req_inst[8], nice_req_inst[9], nice_req_inst[10], d>>
           /\ rx_byte_cnt = 12 => state' = "RECV_INST" /\ UNCHANGED <<rx_byte_cnt, nice_req_inst>>
<1>1. IdleByte(dv, d, s0) \/ IdleFull(dv, d, s0) \/ IdleWait(dv, d, s0)
    BY DEF Clock, StartSM3, StartSM4, RejectInst, LeaveInst, Sm3Step1, Sm3Step2, Sm3Step3,
           Sm4Step1, Sm4Step2, Sm4Step3, TxDataByte, TxDataEnd, TxDataWait, TxOneSend, TxOneWait
<1>2. Port(dv, d, s0)
    BY <1>1 DEF IdleByte, IdleFull, IdleWait
<1>3. Released(s0)
    BY <1>2, ReleasedIs DEF Port, PollAsked
<1>4. CASE IdleByte(dv, d, s0)
    BY <1>3, <1>4 DEF IdleByte, calcVars
<1>5. CASE IdleFull(dv, d, s0)
    BY <1>3, <1>5 DEF IdleFull, calcVars, reqVars
<1>6. CASE IdleWait(dv, d, s0)
    BY <1>3, <1>6 DEF IdleWait, calcVars, reqVars
<1> QED BY <1>1, <1>4, <1>5, <1>6

LEMMA InstClock ==
    ASSUME IInv, NEW d, NEW s0 \in Bit, Clock(0, d, s0), state = "RECV_INST", rx_byte_cnt = 12,
           opcode \in Opcodes
    PROVE  /\ Released(s0) /\ UNCHANGED <<tx_byte_cnt, calc_done, nice_req_inst>>
           /\ state' \in SM3States \cup SM4States /\ rx_byte_cnt' = 0
<1>1. StartSM3(0, d, s0) \/ StartSM4(0, d, s0)
    BY DEF Clock, IdleByte, IdleFull, IdleWait, RejectInst, LeaveInst, Sm3Step1, Sm3Step2, Sm3Step3,
           Sm4Step1, Sm4Step2, Sm4Step3, TxDataByte, TxDataEnd, TxDataWait, TxOneSend, TxOneWait,
           Opcodes, custom3_sm3p0, custom3_sm3p1, custom3_sm4ks, custom3_sm4ed
<1>2. Port(0, d, s0)
    BY <1>1 DEF StartSM3, StartSM4
<1>3. Released(s0)
    BY <1>2, ReleasedIs DEF Port, PollAsked
<1> QED BY <1>1, <1>3 DEF StartSM3, StartSM4, calcVars, SM3States, SM4States

LEMMA ComputeClock ==
    ASSUME IInv, NEW dv \in Bit, NEW d, NEW s0 \in Bit, Clock(dv, d, s0),
           state \in SM3States \cup SM4States
    PROVE  /\ UNCHANGED <<tx_byte_cnt, nice_req_inst, rx_byte_cnt>>
           /\ calc_done = 1 => calc_done' = 1
           /\ ReadTaken(dv, d) => state' = "TX_DATA"
           /\ ~ReadTaken(dv, d) => state' \in SM3States \cup SM4States
           /\ IF PollAsked(dv, d, s0) THEN Offer(calc_done) ELSE Released(s0)
<1>1. \/ Sm3Step1(dv, d, s0) \/ Sm3Step2(dv, d, s0) \/ Sm3Step3(dv, d, s0)
      \/ Sm4Step1(dv, d, s0) \/ Sm4Step2(dv, d, s0) \/ Sm4Step3(dv, d, s0)
    BY DEF Clock, IdleByte, IdleFull, IdleWait, StartSM3, StartSM4, RejectInst, LeaveInst,
           TxDataByte, TxDataEnd, TxDataWait, TxOneSend, TxOneWait, SM3States, SM4States
<1>2. Port(dv, d, s0)
    BY <1>1 DEF Sm3Step1, Sm3Step2, Sm3Step3, Sm4Step1, Sm4Step2, Sm4Step3
<1>3. IF PollAsked(dv, d, s0) THEN Offer(calc_done) ELSE Released(s0)
    BY <1>2, ReleasedIs DEF Port
<1>4. state \notin {"SM3_STEP3", "SM4_STEP3"} => calc_done = 0
    BY DEF IInv, Sm3Inv, Sm4Inv, SM3States, SM4States
<1>5. CASE Sm3Step3(dv, d, s0) \/ Sm4Step3(dv, d, s0)
    BY <1>3, <1>5 DEF Sm3Step3, Sm4Step3, reqVars, SM3States, SM4States
<1>6. CASE Sm3Step1(dv, d, s0) \/ Sm3Step2(dv, d, s0)
  <2>1. calc_done = 0 /\ ~ReadTaken(dv, d)
      BY <1>4, <1>6 DEF Sm3Step1, Sm3Step2, ReadTaken
  <2> QED BY <1>3, <1>6, <2>1 DEF Sm3Step1, Sm3Step2, reqVars, calcVars, SM3States, SM4States
<1>7. CASE Sm4Step1(dv, d, s0) \/ Sm4Step2(dv, d, s0)
  <2>1. calc_done = 0 /\ ~ReadTaken(dv, d)
      BY <1>4, <1>7 DEF Sm4Step1, Sm4Step2, ReadTaken
  <2> QED BY <1>3, <1>7, <2>1 DEF Sm4Step1, Sm4Step2, reqVars, calcVars, SM3States, SM4States
<1> QED BY <1>1, <1>5, <1>6, <1>7

LEMMA OneClock ==
    ASSUME IInv, NEW dv, NEW d, NEW s0 \in Bit, Clock(dv, d, s0), state = "TX_ONE"
    PROVE  /\ UNCHANGED <<tx_byte_cnt, nice_req_inst, rx_byte_cnt, calc_done>>
           /\ \/ s0 = 0 /\ o_data_valid = 0 /\ Offer(ACK) /\ state' = "TX_ONE"
              \/ Released(s0) /\ s0 = 0 /\ o_data_valid = 1 /\ state' = "TX_ONE"
              \/ Released(s0) /\ s0 = 1 /\ state' = "IDLE"
<1>1. TxOneSend(s0) \/ TxOneWait(s0)
    BY DEF Clock, IdleByte, IdleFull, IdleWait, StartSM3, StartSM4, RejectInst, LeaveInst,
           Sm3Step1, Sm3Step2, Sm3Step3, Sm4Step1, Sm4Step2, Sm4Step3,
           TxDataByte, TxDataEnd, TxDataWait
<1>2. o_data_valid = state_count /\ o_data_valid \in {0, 1} /\ s0 \in {0, 1}
    BY DEF IInv, TypeOK, Bit
<1>3. CASE TxOneSend(s0)
    BY <1>2, <1>3 DEF TxOneSend, reqVars, calcVars
<1>4. CASE TxOneWait(s0)
    BY <1>2, <1>4, ReleasedIs DEF TxOneWait, reqVars, calcVars
<1> QED BY <1>1, <1>3, <1>4

LEMMA DataClock ==
    ASSUME IInv, NEW dv, NEW d, NEW s0 \in Bit, Clock(dv, d, s0), state = "TX_DATA"
    PROVE  /\ UNCHANGED <<nice_req_inst, rx_byte_cnt>>
           /\ \/ /\ s0 = 0 /\ o_data_valid = 0 /\ tx_byte_cnt # 5
                 /\ Offer(ReplyByte(tx_byte_cnt)) /\ tx_byte_cnt' = tx_byte_cnt + 1
                 /\ state' = "TX_DATA"
              \/ /\ s0 = 0 /\ o_data_valid = 0 /\ tx_byte_cnt = 5
                 /\ Released(s0) /\ tx_byte_cnt' = 0 /\ state' = "IDLE"
              \/ /\ ~(s0 = 0 /\ o_data_valid = 0) /\ Released(s0) /\ tx_byte_cnt' = tx_byte_cnt
                 /\ state' = "TX_DATA"
<1>1. TxDataByte(s0) \/ TxDataEnd(s0) \/ TxDataWait(s0)
    BY DEF Clock, IdleByte, IdleFull, IdleWait, StartSM3, StartSM4, RejectInst, LeaveInst,
           Sm3Step1, Sm3Step2, Sm3Step3, Sm4Step1, Sm4Step2, Sm4Step3, TxOneSend, TxOneWait
<1>2. o_data_valid = state_count
    BY DEF IInv
<1>3. CASE TxDataByte(s0)
    BY <1>2, <1>3 DEF TxDataByte, reqVars
<1>4. CASE TxDataEnd(s0)
    BY <1>2, <1>4 DEF TxDataEnd, reqVars, Released
<1>5. CASE TxDataWait(s0)
    BY <1>2, <1>5, ReleasedIs DEF TxDataWait, reqVars
<1> QED BY <1>1, <1>3, <1>4, <1>5

-----------------------------------------------------------------------------
(* The bytes of a transmission, and those on the way to the core.          *)

LEMMA TransmissionIs ==
    ASSUME NEW r \in [1 .. 12 -> Byte], NEW s \in 1 .. 5
    PROVE  /\ s <= 3 => /\ SubSeq(r, 4 * s - 3, 4 * s) \in Seq(Byte)
                        /\ Len(SubSeq(r, 4 * s - 3, 4 * s)) = 4
                        /\ \A i \in 1 .. 4 : SubSeq(r, 4 * s - 3, 4 * s)[i] = r[4 * s - 4 + i]
           /\ \A i \in 1 .. 4 : s <= 3 => 4 * s - 4 + i \in 1 .. 12
<1>1. \A i \in 1 .. 4 : s <= 3 => 4 * s - 4 + i \in 1 .. 12
    OBVIOUS
<1>2. ASSUME s <= 3
      PROVE  /\ SubSeq(r, 4 * s - 3, 4 * s) \in Seq(Byte)
             /\ Len(SubSeq(r, 4 * s - 3, 4 * s)) = 4
             /\ \A i \in 1 .. 4 : SubSeq(r, 4 * s - 3, 4 * s)[i] = r[4 * s - 4 + i]
  <2> DEFINE m == 4 * s - 3
             n == 4 * s
  <2>1. m \in Int /\ n \in Int /\ m <= n /\ n - m + 1 = 4
      OBVIOUS
  <2>2. \A i \in m .. n : i \in 1 .. 12
      BY <1>2
  <2>3. \A i \in 1 .. 4 : m + i - 1 = 4 * s - 4 + i
      OBVIOUS
  <2> HIDE DEF m, n
  <2>4. \A i \in m .. n : r[i] \in Byte
      BY <2>2
  <2>5. /\ SubSeq(r, m, n) \in Seq(Byte) /\ Len(SubSeq(r, m, n)) = n - m + 1
        /\ \A i \in 1 .. n - m + 1 : SubSeq(r, m, n)[i] = r[m + i - 1]
      BY <2>1, <2>4, SubSeqProperties
  <2>6. \A i \in 1 .. 4 : SubSeq(r, m, n)[i] = r[4 * s - 4 + i]
      BY <2>1, <2>3, <2>5
  <2> QED BY <2>1, <2>5, <2>6 DEF m, n
<1> QED BY <1>1, <1>2

LEMMA ToldIs ==
    ASSUME HostTypes
    PROVE  /\ Told \in Seq(Byte) /\ Len(Told) \in {1, 4}
           /\ step \in 1 .. 3 => /\ Len(Told) = 4
                                 /\ \A i \in 1 .. 4 : Told[i] = request[4 * step - 4 + i]
           /\ step = 4 => Told = <<POLL>>
           /\ step \in {0, 5} => Told = <<READ>>
           /\ step \notin 1 .. 3 => Len(Told) = 1
           /\ request \in [1 .. 12 -> Byte]
           /\ step > 0 => Told = Transmission(step)
<1>1. request \in [1 .. 12 -> Byte] /\ step \in 0 .. 5
    BY Numbers DEF HostTypes
<1>2. CASE step \in 1 .. 3
  <2>1. Told = SubSeq(request, 4 * step - 3, 4 * step) /\ Told = Transmission(step)
    <3>1. step # 0 /\ step # 4 /\ step # 5
        BY <1>2
    <3> QED BY <1>2, <3>1 DEF Told, Transmission
  <2>2. step \in 1 .. 5 /\ step <= 3 /\ step # 4 /\ step # 5 /\ step # 0
      BY <1>2
  <2> QED BY <1>1, <1>2, <2>1, <2>2, TransmissionIs
<1>3. CASE step \in {4, 5}
  <2>1. step \notin 1 .. 3 /\ step # 0 /\ POLL \in Byte /\ READ \in Byte
      BY <1>3 DEF POLL, READ, Byte
  <2>2. Told = Transmission(step)
      BY <2>1 DEF Told
  <2>3. CASE step = 4
    <3>1. Told = <<POLL>>
        BY <2>1, <2>2, <2>3 DEF Transmission
    <3>2. <<POLL>> \in Seq(Byte) /\ Len(<<POLL>>) = 1
        BY <2>1
    <3>3. step # 5 /\ step > 0 /\ step \in {0, 4, 5}
        BY <2>3
    <3> QED BY <1>1, <2>1, <2>2, <2>3, <3>1, <3>2, <3>3
  <2>4. CASE step = 5
    <3>1. Told = <<READ>>
        BY <2>1, <2>2, <2>4 DEF Transmission
    <3>2. <<READ>> \in Seq(Byte) /\ Len(<<READ>>) = 1
        BY <2>1
    <3>3. step # 4 /\ step > 0 /\ step \in {0, 4, 5}
        BY <2>4
    <3> QED BY <1>1, <2>1, <2>2, <2>4, <3>1, <3>2, <3>3
  <2> QED BY <1>3, <2>3, <2>4
<1>4. CASE step = 0
  <2>1. Told = <<READ>> /\ READ \in Byte
      BY <1>4 DEF Told, READ, Byte
  <2> QED BY <1>1, <1>4, <2>1
<1> QED BY <1>1, <1>2, <1>3, <1>4

(* The count of the core is that of the bytes of this transmission.        *)
LEMMA CountedIs ==
    ASSUME TopInv
    PROVE  /\ Begun \in 0 .. 4 /\ Begun <= Len(Told) /\ Begun \in Nat /\ Len(Told) \in {1, 4}
           /\ Counted \in Nat /\ Counted <= Begun
           /\ out = <<>> => Begun = Len(Told)
           /\ out # <<>> => Begun = Len(Told) + 1 - Len(out) /\ Len(out) \in Nat /\ Len(out) >= 1
           /\ step = 0 \/ Taken => Counted = Len(Told) /\ Begun = Counted
           /\ step \in 1 .. 3 /\ ~Taken => Counted = rx_byte_cnt - 4 * (step - 1)
           /\ step > 3 /\ ~Taken => Counted = 0
<1>1. /\ HostTypes /\ Begun \in 0 .. 4 /\ Counted \in 0 .. Begun /\ Len(Told) \in {1, 4}
      /\ step \in 0 .. 5
    BY ToldIs DEF TopInv, HostTypes
<1>2. out # <<>> => Len(out) \in Nat /\ Len(out) >= 1
    BY <1>1, EmptySeq DEF HostTypes
<1>3. Begun <= Len(Told)
    BY <1>1, <1>2 DEF Begun
<1>4. /\ step = 0 \/ Taken => Counted = Len(Told)
      /\ step \in 1 .. 3 /\ ~Taken => Counted = rx_byte_cnt - 4 * (step - 1)
      /\ step > 3 /\ ~Taken => Counted = 0
    BY <1>1 DEF Counted
<1>5. /\ out = <<>> => Begun = Len(Told)
      /\ out # <<>> => Begun = Len(Told) + 1 - Len(out)
    BY DEF Begun
<1> QED BY <1>1, <1>2, <1>3, <1>4, <1>5

(* What nice_core is handed is the next byte of the transmission.          *)
LEMMA ByteDelivered ==
    ASSUME BitIsLong, TopInv, o_rx_done = 1
    PROVE  /\ Counted < Begun /\ Underway # <<>> /\ Counted + 1 \in 1 .. Len(Told)
           /\ Value(o_uart_data) = Told[Counted + 1]
           /\ ~Taken /\ step # 0 /\ step \in 1 .. 5
<1>1. L!Delivered
    BY ClocksAgreeHere, UartAssumption, Numbers, L!DeliveredRight DEF TopInv
<1>2. Underway # <<>> /\ o_uart_data = Head(Underway)
    BY <1>1 DEF L!Delivered
<1>3. /\ Counted \in Nat /\ Begun \in Nat /\ Counted <= Begun /\ Begun <= Len(Told)
      /\ Len(Told) \in {1, 4} /\ HostTypes
    BY CountedIs DEF TopInv
<1>4. Begun - Counted \in Nat
    BY <1>3
<1>5. Underway = [i \in 1 .. Begun - Counted |-> Bits(Told[Counted + i])]
    BY DEF Underway
<1>6. Counted < Begun
  <2>1. SUFFICES ASSUME Counted = Begun PROVE FALSE
      BY <1>3
  <2>2. Underway = [i \in 1 .. 0 |-> Bits(Told[Counted + i])]
      BY <1>3, <1>5, <2>1
  <2>3. Underway = <<>>
      BY <2>2
  <2> QED BY <1>2, <2>3
<1>7. Head(Underway) = Bits(Told[Counted + 1])
  <2>1. 1 \in 1 .. Begun - Counted
      BY <1>3, <1>6
  <2>2. Underway[1] = Bits(Told[Counted + 1])
      BY <1>5, <2>1
  <2> QED BY <1>2, <2>2
<1>8. Counted + 1 \in 1 .. Len(Told)
    BY <1>3, <1>6
<1>9. Told[Counted + 1] \in Byte
    BY <1>3, <1>8, ToldIs, ElementOfSeq
<1>10. Value(o_uart_data) = Told[Counted + 1]
    BY <1>2, <1>7, <1>9, BitsType
<1>11. ~Taken /\ step # 0
    BY <1>3, <1>6, CountedIs
<1> QED BY <1>2, <1>3, <1>6, <1>8, <1>10, <1>11 DEF HostTypes

-----------------------------------------------------------------------------
(* When nothing of the transmission has been answered.                     *)
LEMMA Untaken ==
    ASSUME BitIsLong, TopInv, ~Taken
    PROVE  /\ Pend = <<>> /\ got = <<>> /\ state \notin {"TX_ONE", "TX_DATA"}
           /\ o_data_valid = 0 /\ state_count = 0 /\ tx_baud_valid = 0 /\ tx_state = "IDLE"
           /\ o_state_0 = 0 /\ timer = 0 /\ AtRest
BY QuietPort DEF Taken

LEMMA CoreReady ==
    ASSUME BitIsLong, TopInv
    PROVE  ByteFindsCoreReady
<1> SUFFICES ASSUME o_rx_done = 1
             PROVE  /\ o_state_0 = 0 /\ o_data_valid = 0
                    /\ state \notin {"TX_ONE", "TX_DATA", "RECV_INST"} /\ rx_byte_cnt < 12
    BY DEF ByteFindsCoreReady
<1>1. ~Taken /\ step \in 1 .. 5
    BY ByteDelivered
<1>2. o_state_0 = 0 /\ o_data_valid = 0
    BY <1>1, Untaken
<1>3. CASE step \in 1 .. 3
  <2>1. state = "IDLE" /\ rx_byte_cnt \in 4 * (step - 1) .. 4 * step - 1
      BY <1>1, <1>3 DEF TopInv, StepInv
  <2> QED BY <1>2, <1>3, <2>1
<1>4. CASE step \in 4 .. 5
  <2>1. Computing
      BY <1>1, <1>4 DEF TopInv, StepInv
  <2> QED BY <1>2, <2>1 DEF Computing, SM3States, SM4States
<1> QED BY <1>1, <1>3, <1>4

(* When everything has been answered.                                      *)
LEMMA AllAnswered ==
    ASSUME BitIsLong, TopInv, Answered
    PROVE  /\ Pend = <<>> /\ o_rx_done = 0 /\ ~ByteHeard
           /\ o_data_valid = 0 /\ state_count = 0 /\ tx_baud_valid = 0 /\ tx_state = "IDLE"
           /\ o_state_0 = 0 /\ timer = 0 /\ AtRest
           /\ step = 0 \/ (got # <<>> /\ Taken)
           /\ state # "TX_ONE" \/ step = 0
<1>1. out = <<>> /\ Len(got) = Need /\ timer = 0
    BY DEF Answered
<1>2. /\ Pend \in Seq(Data) /\ got \in Seq(Byte) /\ Len(got) + Len(Pend) <= Need
      /\ Need \in Nat /\ step \in 0 .. 5
    BY PendType DEF TopInv, StepInv, HostTypes, Need, Total
<1>3. Len(Pend) = 0 /\ Pend = <<>>
  <2>1. Len(Pend) \in Nat /\ Len(got) \in Nat
      BY <1>2, LenProperties
  <2>2. Len(Pend) = 0
      BY <1>1, <1>2, <2>1
  <2> QED BY <1>2, <2>2, EmptySeq
<1>4. step # 0 => got # <<>>
  <2> SUFFICES ASSUME step # 0 PROVE got # <<>>
      OBVIOUS
  <2>1. Need > 0
      BY <1>2 DEF Need
  <2>2. Len(<<>>) = 0
      OBVIOUS
  <2> QED BY <1>1, <2>1, <2>2
<1>5. step = 0 \/ Taken
    BY <1>4 DEF Taken
<1>6. o_rx_done = 0
  <2>1. o_rx_done \in {0, 1}
      BY DEF TopInv, L!RxLineInv, L!RxInv, L!RxTypeOK
  <2> QED BY <1>5, <2>1, ByteDelivered
<1>7. state = "TX_ONE" => got = <<>>
    BY DEF TopInv, StepInv
<1>8. ~ByteHeard
    BY <1>1 DEF ByteHeard, SampleDue
<1>9. /\ o_data_valid = 0 /\ state_count = 0 /\ tx_baud_valid = 0 /\ tx_state = "IDLE"
      /\ o_state_0 = 0 /\ timer = 0 /\ AtRest
    BY <1>3, QuietPort
<1>10. step = 0 \/ (got # <<>> /\ Taken)
    BY <1>4, <1>5
<1>11. state # "TX_ONE" \/ step = 0
    BY <1>4, <1>7
<1> QED BY <1>3, <1>6, <1>8, <1>9, <1>10, <1>11

(* The steps of the host: it goes on with its transmission, or turns to    *)
(* the next one.                                                           *)
Keeps == (Shift /\ Take) \/ (Wait /\ Take)
Turns == Send \/ NextRequest

LEMMA HostKeeps ==
    ASSUME Keeps
    PROVE  /\ UNCHANGED <<step, request>> /\ Take
           /\ Told' = Told /\ Need' = Need /\ Expected' = Expected
<1>1. step' = step /\ request' = request /\ Take
    BY DEF Keeps, Shift, Wait
<1>2. Told' = Told
    BY <1>1 DEF Told, Transmission
<1>3. Need' = Need /\ Expected' = Expected
    BY <1>1 DEF Need, Expected
<1> QED BY <1>1, <1>2, <1>3

LEMMA HostTurns ==
    ASSUME BitIsLong, TopInv, Turns
    PROVE  /\ Answered /\ got' = <<>> /\ waiting' = 0 /\ step' \in 0 .. 5 /\ request' \in Requests
           /\ step' = 0 => step = 5 /\ NextRequest
           /\ step' = 1 => step = 0
           /\ step' = 2 => step = 1
           /\ step' = 3 => step = 2
           /\ step' = 4 => step = 3 \/ step = 4
           /\ step' = 5 => step = 4 /\ got = <<1>>
           /\ step' # 0 => Send /\ request' = request /\ step' = Follows
<1>1. Answered /\ HostTypes /\ AnswerInv /\ step \in 0 .. 5 /\ request \in Requests
    BY DEF Turns, Send, NextRequest, TopInv, HostTypes
<1>2. CASE Send
  <2>1. step' = Follows /\ step < 5 /\ got' = <<>> /\ waiting' = 0 /\ request' = request
      BY <1>2 DEF Send
  <2>2. step = 4 => got = <<0>> \/ got = <<1>>
    <3> SUFFICES ASSUME step = 4 PROVE got = <<0>> \/ got = <<1>>
        OBVIOUS
    <3>1. got \in Seq(Byte) /\ Len(got) = 1
        BY <1>1 DEF Answered, Need, HostTypes
    <3>2. got[1] \in {0, 1}
        BY <1>1, <3>1 DEF AnswerInv, Says
    <3>3. got = <<got[1]>>
        BY <3>1
    <3> QED BY <3>2, <3>3
  <2>3. got = <<1>> => got # <<0>>
      OBVIOUS
  <2>4. CASE step = 4 /\ got = <<0>>
    <3>1. step' = 4
        BY <2>1, <2>4 DEF Follows
    <3> QED BY <1>1, <1>2, <2>1, <2>4, <3>1
  <2>5. CASE ~(step = 4 /\ got = <<0>>)
    <3>1. step' = step + 1
        BY <2>1, <2>5 DEF Follows
    <3>2. step = 4 => got = <<1>>
        BY <2>2, <2>5
    <3> QED BY <1>1, <1>2, <2>1, <3>1, <3>2
  <2> QED BY <2>4, <2>5
<1>3. CASE NextRequest
  <2>1. step = 5 /\ step' = 0 /\ request' \in Requests /\ got' = <<>> /\ waiting' = 0
      BY <1>3 DEF NextRequest
  <2> QED BY <1>1, <1>3, <2>1
<1> QED BY <1>2, <1>3 DEF Turns

LEMMA HostCases ==
    ASSUME UartTopNext
    PROVE  Keeps \/ Turns
BY DEF UartTopNext, Keeps, Turns

-----------------------------------------------------------------------------
(* A clock in which the host goes on with its transmission.                *)

LEMMA OffersNothing ==
    ASSUME NEW s0, Released(s0)
    PROVE  ~Offers
BY DEF Released, Offers

LEMMA AnswerKept ==
    ASSUME BitIsLong, TopInv, UartTopNext, Keeps
    PROVE  /\ Total \in Nat /\ Total' \in Nat /\ Total' = Total + (IF Offers THEN 1 ELSE 0)
           /\ Pend # <<>> \/ got # <<>> <=> Total > 0
           /\ Pend' # <<>> \/ got' # <<>> <=> Total' > 0
           /\ Offers => Pend' # <<>>
           /\ PendLeft # <<>> => Pend' # <<>>
           /\ ~ByteHeard => PendLeft = Pend /\ got' = got
           /\ got' \in Seq(Byte) /\ got \in Seq(Byte)
           /\ got' = IF ByteHeard THEN Append(got, Value(Head(Pend))) ELSE got
           /\ ByteHeard => Pend # <<>> /\ Head(Pend) \in Data /\ Value(Head(Pend)) \in Byte
<1>1. got' = IF ByteHeard THEN Append(got, Value(SubSeq(heard, 2, 9))) ELSE got
    BY HostKeeps DEF Take
<1>2. /\ ByteHeard => Head(Pend) = SubSeq(heard, 2, 9) /\ AtRest /\ timer > 0
      /\ PendLeft \in Seq(Data) /\ NewByte \in Seq(Data) /\ Pend \in Seq(Data)
      /\ Len(Pend) = Len(PendLeft) + (IF ByteHeard THEN 1 ELSE 0)
      /\ Pend' = PendLeft \o NewByte
      /\ Offers => NewByte = <<Bits(o_data_tx')>>
      /\ ~Offers => NewByte = <<>>
    BY PendNext, PendType
<1>3. got \in Seq(Byte) /\ Len(got) \in Nat /\ Len(PendLeft) \in Nat /\ Len(Pend) \in Nat
    BY <1>2, LenProperties DEF TopInv, HostTypes
<1>4. ByteHeard => Pend # <<>> /\ Head(Pend) \in Data /\ Value(Head(Pend)) \in Byte
  <2> SUFFICES ASSUME ByteHeard
               PROVE  Pend # <<>> /\ Head(Pend) \in Data /\ Value(Head(Pend)) \in Byte
      OBVIOUS
  <2>1. SubSeq(heard, 2, 9) \in Data
      BY <1>2, HeardWhole, HeardByte
  <2>2. Len(Pend) # 0 /\ Len(<<>>) = 0
      BY <1>2, <1>3
  <2> QED BY <1>2, <2>1, <2>2, ValueType
<1>5. got' = IF ByteHeard THEN Append(got, Value(Head(Pend))) ELSE got
    BY <1>1, <1>2
<1>6. got' \in Seq(Byte) /\ Len(got') = Len(got) + (IF ByteHeard THEN 1 ELSE 0)
    BY <1>3, <1>4, <1>5
<1>7. Len(NewByte) = IF Offers THEN 1 ELSE 0
  <2>1. Len(<<Bits(o_data_tx')>>) = 1 /\ Len(<<>>) = 0
      OBVIOUS
  <2> QED BY <1>2, <2>1
<1>8. Pend' \in Seq(Data) /\ Len(Pend') = Len(PendLeft) + Len(NewByte)
    BY <1>2, ConcatProperties
<1>9. /\ Total' = Total + (IF Offers THEN 1 ELSE 0) /\ Total \in Nat /\ Total' \in Nat
      /\ Len(got') \in Nat /\ Len(Pend') \in Nat
  <2>1. Total = Len(got) + Len(Pend) /\ Total' = Len(got') + Len(Pend')
      BY DEF Total
  <2>2. CASE ByteHeard
    <3>1. Len(got') = Len(got) + 1 /\ Len(Pend) = Len(PendLeft) + 1
        BY <1>2, <1>6, <2>2
    <3>2. Len(NewByte) \in {0, 1}
        BY <1>7
    <3>3. Total' = Len(got) + 1 + Len(PendLeft) + Len(NewByte) /\ Total = Len(got) + Len(PendLeft) + 1
        BY <1>3, <1>8, <2>1, <3>1, <3>2
    <3>4. Total' = Total + Len(NewByte) /\ Total \in Nat /\ Total' \in Nat
        BY <1>3, <3>2, <3>3
    <3> QED BY <1>3, <1>7, <1>8, <3>1, <3>2, <3>4
  <2>3. CASE ~ByteHeard
    <3>1. Len(got') = Len(got) /\ Len(Pend) = Len(PendLeft)
        BY <1>1, <1>2, <1>3, <2>3
    <3> QED BY <1>3, <1>7, <1>8, <2>1, <3>1
  <2> QED BY <2>2, <2>3
<1>10. \A q \in Seq(Data) : q # <<>> <=> Len(q) > 0
    BY EmptySeq
<1>11. \A q \in Seq(Byte) : q # <<>> <=> Len(q) > 0
    BY EmptySeq
<1>12. Pend # <<>> \/ got # <<>> <=> Total > 0
    BY <1>2, <1>3, <1>10, <1>11 DEF Total
<1>13. Pend' # <<>> \/ got' # <<>> <=> Total' > 0
  <2>1. /\ Pend' # <<>> <=> Len(Pend') > 0
        /\ got' # <<>> <=> Len(got') > 0
      BY <1>6, <1>8, <1>10, <1>11
  <2> QED BY <1>9, <2>1 DEF Total
<1>14. Offers \/ PendLeft # <<>> => Pend' # <<>>
    BY <1>2, <1>3, <1>7, <1>8, <1>10
<1>15. ~ByteHeard => PendLeft = Pend /\ got' = got
    BY <1>1 DEF PendLeft
<1> QED BY <1>3, <1>4, <1>5, <1>6, <1>9, <1>12, <1>13, <1>14, <1>15

(* The bytes the core has counted go with those it is handed.              *)
KeepsPace ==
    /\ StepInv' /\ Counted' = Counted + o_rx_done /\ (Taken => Taken')

LEMMA KeepFacts ==
    ASSUME BitIsLong, TopInv, UartTopNext, Keeps
    PROVE  /\ StepInv /\ IInv /\ TypeOK /\ step' = step /\ step \in 0 .. 5
           /\ Need' = Need /\ Need = (IF step = 5 THEN 5 ELSE IF step = 0 THEN 0 ELSE 1)
           /\ Len(Told') = Len(Told) /\ o_rx_done \in {0, 1} /\ o_rx_done \in Bit
           /\ Clock(o_rx_done, Value(o_uart_data), o_state_0) /\ o_state_0 \in Bit
           /\ Taken => o_rx_done = 0
           /\ step = 0 => o_rx_done = 0
           /\ step \in 1 .. 3 => Len(Told) = 4
           /\ step > 3 => Len(Told) = 1
<1>1. step' = step /\ Told' = Told /\ Need' = Need
    BY HostKeeps
<1>2. Clock(o_rx_done, Value(o_uart_data), o_state_0) /\ o_state_0 \in Bit /\ o_rx_done \in Bit
    BY TopClock
<1>3. StepInv /\ IInv /\ TypeOK /\ HostTypes /\ step \in 0 .. 5
    BY DEF TopInv, IInv, HostTypes
<1>4. (Taken => o_rx_done = 0) /\ (step = 0 => o_rx_done = 0) /\ o_rx_done \in {0, 1}
    BY <1>2, ByteDelivered DEF Bit
<1>5. /\ step \in 1 .. 3 => Len(Told) = 4
      /\ step > 3 => Len(Told) = 1
    BY <1>3, ToldIs
<1> QED BY <1>1, <1>2, <1>3, <1>4, <1>5 DEF Need

LEMMA KeepsAtRest ==
    ASSUME BitIsLong, TopInv, UartTopNext, Keeps, step = 0
    PROVE  KeepsPace
<1>1. state = "IDLE" /\ rx_byte_cnt = 0 /\ o_rx_done = 0 /\ tx_byte_cnt = 0
    BY KeepFacts DEF StepInv
<1>2. state' = "IDLE" /\ rx_byte_cnt' = 0 /\ tx_byte_cnt' = 0 /\ ~Offers
    BY <1>1, KeepFacts, IdleClock, OffersNothing
<1>3. Total' = Total /\ Total \in Nat /\ Total <= 0
    BY <1>2, AnswerKept, KeepFacts DEF StepInv
<1>4. StepInv'
    BY <1>2, <1>3, KeepFacts DEF StepInv
<1>5. Counted' = Counted + o_rx_done
    BY <1>1, KeepFacts, ToldIs DEF Counted, TopInv
<1>6. Taken => Taken'
    BY <1>1, <1>3, AnswerKept DEF Taken
<1> QED BY <1>4, <1>5, <1>6 DEF KeepsPace

(* A word on its way in: each byte is counted, the fourth is acknowledged. *)
LEMMA KeepsWord ==
    ASSUME BitIsLong, TopInv, UartTopNext, Keeps, step \in 1 .. 3, ~Taken
    PROVE  KeepsPace
<1>1. /\ state = "IDLE" /\ rx_byte_cnt \in 4 * (step - 1) .. 4 * step - 1
      /\ tx_byte_cnt = 0 /\ o_rx_done \in {0, 1} /\ rx_byte_cnt < 12 /\ Need = 1 /\ rx_byte_cnt \in Nat
      /\ Counted = rx_byte_cnt - 4 * (step - 1) /\ step # 0 /\ Len(Told') = 4 /\ step' = step
  <2>1. state = "IDLE" /\ rx_byte_cnt \in 4 * (step - 1) .. 4 * step - 1 /\ tx_byte_cnt = 0
      BY KeepFacts DEF StepInv
  <2>2. rx_byte_cnt < 12 /\ rx_byte_cnt \in Nat
      BY <2>1
  <2>3. Counted = rx_byte_cnt - 4 * (step - 1)
      BY CountedIs
  <2>4. step # 0 /\ step # 5
      OBVIOUS
  <2>5. Need = 1 /\ o_rx_done \in {0, 1} /\ Len(Told') = 4 /\ step' = step
      BY <2>4, KeepFacts
  <2> QED BY <2>1, <2>2, <2>3, <2>4, <2>5
<1>2. /\ Pend = <<>> /\ got = <<>> /\ timer = 0 /\ AtRest /\ tx_state = "IDLE" /\ tx_baud_valid = 0
    BY Untaken
<1>3. timer' = 0 /\ ~ByteHeard /\ tx_state' = "IDLE"
    BY <1>2, HearAtRest, RestNext
<1>4. /\ tx_byte_cnt' = 0 /\ ~Offers
      /\ o_rx_done = 0 => state' = "IDLE" /\ rx_byte_cnt' = rx_byte_cnt
      /\ o_rx_done = 1 => /\ rx_byte_cnt' = rx_byte_cnt + 1
                          /\ state' = IF (rx_byte_cnt + 1) % 4 = 0 THEN "TX_ONE" ELSE "IDLE"
    BY <1>1, KeepFacts, IdleClock, OffersNothing
<1>5. /\ Total = 0 /\ Total' = 0 /\ got' = <<>> /\ Pend' = <<>>
    BY <1>2, <1>3, <1>4, AnswerKept
<1>6. Taken' <=> state' = "TX_ONE"
  <2>1. state' \in {"IDLE", "TX_ONE"}
      BY <1>1, <1>4
  <2> QED BY <1>5, <2>1 DEF Taken
<1>7. CASE o_rx_done = 0
  <2>1. ~Taken' /\ state' = "IDLE" /\ rx_byte_cnt' = rx_byte_cnt
      BY <1>4, <1>6, <1>7
  <2>2. StepInv'
      BY <1>1, <1>4, <1>5, <2>1 DEF StepInv, Need
  <2>3. Counted' = Counted + o_rx_done
      BY <1>1, <1>7, <2>1 DEF Counted
  <2> QED BY <2>2, <2>3 DEF KeepsPace
<1>8. CASE o_rx_done = 1 /\ rx_byte_cnt + 1 = 4 * step
  <2>1. (rx_byte_cnt + 1) % 4 = 0
      BY <1>1, <1>8
  <2>2. Taken' /\ state' = "TX_ONE" /\ rx_byte_cnt' = 4 * step
      BY <1>4, <1>6, <1>8, <2>1
  <2>3. StepInv'
      BY <1>1, <1>3, <1>4, <1>5, <2>2 DEF StepInv, Need
  <2>4. Counted' = Counted + o_rx_done
      BY <1>1, <1>8, <2>2 DEF Counted
  <2> QED BY <2>3, <2>4 DEF KeepsPace
<1>9. CASE o_rx_done = 1 /\ rx_byte_cnt + 1 # 4 * step
  <2>1. (rx_byte_cnt + 1) % 4 # 0
      BY <1>1, <1>9
  <2>2. ~Taken' /\ state' = "IDLE" /\ rx_byte_cnt' = rx_byte_cnt + 1
      BY <1>4, <1>6, <1>9, <2>1
  <2>3. StepInv'
      BY <1>1, <1>4, <1>5, <1>9, <2>2 DEF StepInv, Need
  <2>4. Counted' = Counted + o_rx_done
      BY <1>1, <1>9, <2>2 DEF Counted
  <2> QED BY <2>3, <2>4 DEF KeepsPace
<1> QED BY <1>1, <1>7, <1>8, <1>9

(* What is common to the steps after the last byte is in.                  *)
LEMMA KeepsTaken ==
    ASSUME BitIsLong, TopInv, UartTopNext, Keeps, Taken, step # 0, StepInv',
           state' \in {"TX_ONE", "TX_DATA"} \/ Total' > 0
    PROVE  KeepsPace
<1>1. Taken'
    BY AnswerKept DEF Taken
<1>2. Counted' = Counted + o_rx_done
  <2>1. Counted = Len(Told) /\ Counted \in Nat /\ o_rx_done = 0
      BY KeepFacts, CountedIs
  <2>2. Counted' = Len(Told)
      BY <1>1, KeepFacts DEF Counted
  <2> QED BY <2>1, <2>2
<1> QED BY <1>1, <1>2 DEF KeepsPace

(* The acknowledgement on offer, until the transmitter has taken it.       *)
LEMMA KeepsAck ==
    ASSUME BitIsLong, TopInv, UartTopNext, Keeps, step \in 1 .. 3, state = "TX_ONE"
    PROVE  KeepsPace
<1>1. /\ Taken /\ step # 0 /\ o_rx_done = 0 /\ got = <<>> /\ timer = 0 /\ tx_state = "IDLE"
      /\ rx_byte_cnt = 4 * step /\ tx_byte_cnt = 0 /\ Need = 1 /\ Need' = 1 /\ step' = step
    <2>1. Taken
        BY DEF Taken
    <2>2. step = 3 => rx_byte_cnt = 12
        BY <2>1, KeepFacts DEF StepInv, Computing, SM3States, SM4States
    <2>3. step \in 1 .. 2 => rx_byte_cnt = 4 * step
        BY <2>1, KeepFacts DEF StepInv
    <2> QED BY <2>1, <2>2, <2>3, KeepFacts DEF StepInv
<1>2. /\ AtRest /\ tx_baud_valid \in {0, 1} /\ o_state_0 \in {0, 1} /\ o_data_valid \in {0, 1}
      /\ (tx_baud_valid = 1 => o_state_0 = 1) /\ (o_state_0 = 1 => tx_baud_valid = 1)
  <2>1. 9 * CYCLE + 1 # 0
      BY Numbers
  <2> QED BY <1>1, <2>1, TxFacts
<1>3. /\ timer' = 0 /\ ~ByteHeard /\ got' = <<>>
      /\ tx_baud_valid = 0 => tx_state' = "IDLE"
      /\ tx_baud_valid = 1 => tx_state' = "START" /\ tx_baud_cnt' = 1
    BY <1>1, <1>2, HearAtRest, RestNext, AnswerKept
<1>4. /\ rx_byte_cnt' = 4 * step /\ tx_byte_cnt' = 0
      /\ \/ o_state_0 = 0 /\ o_data_valid = 0 /\ state' = "TX_ONE"
         \/ ~Offers /\ o_state_0 = 0 /\ o_data_valid = 1 /\ state' = "TX_ONE"
         \/ ~Offers /\ o_state_0 = 1 /\ state' = "IDLE"
    BY <1>1, KeepFacts, OneClock, OffersNothing
<1>5. Total = (IF o_data_valid = 1 \/ tx_baud_valid = 1 THEN 1 ELSE 0)
  <2>1. Len(got) = 0
      BY <1>1
  <2>2. Len(Pend) = (IF o_data_valid = 1 \/ tx_baud_valid = 1 THEN 1 ELSE 0)
      BY <1>1, PendType
  <2> QED BY <2>1, <2>2 DEF Total
<1>6. Total' \in 0 .. 1
    BY <1>2, <1>4, <1>5, AnswerKept DEF Offers
<1>7. CASE o_state_0 = 0
  <2>1. state' = "TX_ONE" /\ tx_state' = "IDLE" /\ Taken'
      BY <1>2, <1>3, <1>4, <1>7 DEF Taken
  <2>2. StepInv'
      BY <1>1, <1>3, <1>4, <1>6, <2>1 DEF StepInv
  <2> QED BY <1>1, <2>1, <2>2, KeepsTaken
<1>8. CASE o_state_0 = 1
  <2>1. state' = "IDLE" /\ tx_state' = "START" /\ tx_baud_cnt' = 1
      BY <1>2, <1>3, <1>4, <1>8
  <2>2. Total' = 1
      BY <1>2, <1>4, <1>5, <1>8, AnswerKept
  <2>3. Taken'
      BY <2>2, AnswerKept DEF Taken
  <2>4. StepInv'
      BY <1>1, <1>4, <2>1, <2>2, <2>3 DEF StepInv, StartedFor
  <2> QED BY <1>1, <2>2, <2>4, KeepsTaken
<1> QED BY <1>2, <1>7, <1>8

(* The acknowledgement on its way: the core waits for the next word, or    *)
(* starts to compute.                                                      *)
LEMMA KeepsAcked ==
    ASSUME BitIsLong, TopInv, UartTopNext, Keeps, step \in 1 .. 2, Taken, state = "IDLE"
    PROVE  KeepsPace
<1>1. /\ o_rx_done = 0 /\ rx_byte_cnt = 4 * step /\ tx_byte_cnt = 0 /\ rx_byte_cnt < 12
      /\ Need = 1 /\ Need' = 1 /\ step' = step /\ Total <= 1 /\ step # 0
    BY KeepFacts DEF StepInv
<1>2. state' = "IDLE" /\ rx_byte_cnt' = rx_byte_cnt /\ tx_byte_cnt' = 0 /\ ~Offers
    BY <1>1, KeepFacts, IdleClock, OffersNothing
<1>3. Total' = Total /\ Total' > 0 /\ Total \in Nat
  <2>1. Pend # <<>> \/ got # <<>>
      BY DEF Taken
  <2> QED BY <1>2, <2>1, AnswerKept
<1>4. Taken'
    BY <1>3, AnswerKept DEF Taken
<1>5. StepInv'
    BY <1>1, <1>2, <1>3, <1>4 DEF StepInv
<1> QED BY <1>1, <1>3, <1>5, KeepsTaken

LEMMA KeepsFull ==
    ASSUME BitIsLong, TopInv, UartTopNext, Keeps, step = 3, Taken, state = "IDLE"
    PROVE  KeepsPace
<1>1. /\ o_rx_done = 0 /\ rx_byte_cnt = 12 /\ tx_byte_cnt = 0 /\ StartedFor(1)
      /\ Need = 1 /\ Need' = 1 /\ step' = step /\ Total <= 1
    BY KeepFacts DEF StepInv, Computing, SM3States, SM4States
<1>2. state' = "RECV_INST" /\ rx_byte_cnt' = 12 /\ tx_byte_cnt' = 0 /\ ~Offers
    BY <1>1, KeepFacts, IdleClock, OffersNothing
<1>3. Total' = Total /\ Total' > 0 /\ Total \in Nat
  <2>1. Pend # <<>> \/ got # <<>>
      BY DEF Taken
  <2> QED BY <1>2, <2>1, AnswerKept
<1>4. Taken'
    BY <1>3, AnswerKept DEF Taken
<1>5. StartedFor(2)'
  <2>1. AtRest /\ tx_state = "START" /\ tx_baud_cnt = 1
      BY <1>1, Numbers DEF StartedFor, AtRest
  <2>2. tx_state' = "START" /\ tx_baud_cnt' = tx_baud_cnt + 1
      BY <2>1, RestNext
  <2> QED BY <2>1, <2>2 DEF StartedFor
<1>6. StepInv'
    BY <1>1, <1>2, <1>3, <1>4, <1>5 DEF StepInv
<1> QED BY <1>1, <1>3, <1>6, KeepsTaken

(* The requests of the software are the four the core knows.               *)
KnownRequests == \A r \in Requests : <<r[1], r[2]>> \in Opcodes

LEMMA OpcodeKnown ==
    ASSUME TopInv, KnownRequests, Loaded = 10
    PROVE  /\ opcode = <<request[1], request[2]>> /\ opcode \in Opcodes
           /\ \A j \in 1 .. 10 : nice_req_inst[j] = request[IF j <= 2 THEN j ELSE j + 2]
<1>1. \A j \in 1 .. 10 : nice_req_inst[j] = request[IF j <= 2 THEN j ELSE j + 2]
  <2>1. ASSUME NEW j \in 1 .. 10
        PROVE  nice_req_inst[j] = request[IF j <= 2 THEN j ELSE j + 2]
    <3>1. nice_req_inst[j] = request[IF j - 10 + Loaded <= 2 THEN j - 10 + Loaded
                                     ELSE j - 8 + Loaded]
        BY DEF TopInv, RegisterInv
    <3>2. j - 10 + Loaded = j /\ j - 8 + Loaded = j + 2
        OBVIOUS
    <3> QED BY <3>1, <3>2
  <2> QED BY <2>1
<1>2. nice_req_inst[1] = request[1] /\ nice_req_inst[2] = request[2]
    BY <1>1
<1>3. request \in Requests
    BY DEF TopInv, HostTypes
<1> QED BY <1>1, <1>2, <1>3 DEF KnownRequests, opcode

LEMMA KeepsInst ==
    ASSUME BitIsLong, KnownRequests, TopInv, UartTopNext, Keeps, step = 3, Taken, state = "RECV_INST"
    PROVE  KeepsPace
<1>1. /\ o_rx_done = 0 /\ rx_byte_cnt = 12 /\ tx_byte_cnt = 0
      /\ Need = 1 /\ Need' = 1 /\ step' = step /\ Total <= 1
    BY KeepFacts DEF StepInv, Computing, SM3States, SM4States
<1>2. opcode \in Opcodes
  <2>1. Loaded = 10
      BY DEF Loaded
  <2> QED BY <2>1, OpcodeKnown
<1>3. Computing' /\ tx_byte_cnt' = 0 /\ ~Offers
    BY <1>1, <1>2, KeepFacts, InstClock, OffersNothing DEF Computing
<1>4. Total' = Total /\ Total' > 0 /\ Total \in Nat
  <2>1. Pend # <<>> \/ got # <<>>
      BY DEF Taken
  <2> QED BY <1>3, <2>1, AnswerKept
<1>5. Taken'
    BY <1>4, AnswerKept DEF Taken
<1>6. StepInv'
    BY <1>1, <1>3, <1>4, <1>5 DEF StepInv, Computing, SM3States, SM4States
<1> QED BY <1>1, <1>4, <1>6, KeepsTaken

(* The core computes: a poll is answered, a word is not.                   *)
LEMMA KeepsComputing ==
    ASSUME BitIsLong, TopInv, UartTopNext, Keeps, step = 4 \/ (step = 3 /\ Taken /\ Computing)
    PROVE  KeepsPace
<1>1. /\ Computing /\ tx_byte_cnt = 0 /\ rx_byte_cnt = 0 /\ Need = 1 /\ Need' = 1 /\ step' = step
      /\ o_rx_done \in {0, 1} /\ Total <= 1 /\ step # 0 /\ step # 5
      /\ state \in SM3States \cup SM4States /\ state \notin {"IDLE", "TX_DATA", "TX_ONE"}
    BY KeepFacts DEF StepInv, Computing, SM3States, SM4States
<1>2. o_rx_done = 1 => step = 4 /\ Value(o_uart_data) = 255 /\ ~Taken
  <2> SUFFICES ASSUME o_rx_done = 1 PROVE step = 4 /\ Value(o_uart_data) = 255 /\ ~Taken
      OBVIOUS
  <2>1. step = 4 /\ ~Taken
      BY KeepFacts
  <2>2. Told = <<255>> /\ Counted = 0
      BY <2>1, ToldIs, CountedIs DEF TopInv, POLL
  <2> QED BY <2>1, <2>2, ByteDelivered
<1>3. /\ state' \in SM3States \cup SM4States /\ rx_byte_cnt' = 0 /\ tx_byte_cnt' = 0
      /\ Offers => o_rx_done = 1 /\ ~Taken
      /\ o_rx_done = 1 /\ o_state_0 = 0 /\ state_count = 0 => o_data_valid' = 1
  <2>1. ~ReadTaken(o_rx_done, Value(o_uart_data))
      BY <1>2, KeepFacts DEF ReadTaken, READ
  <2>2. PollAsked(o_rx_done, Value(o_uart_data), o_state_0)
          <=> o_rx_done = 1 /\ o_state_0 = 0 /\ state_count = 0
      BY <1>1, <1>2 DEF PollAsked, POLL
  <2> QED BY <1>1, <1>2, <2>1, <2>2, KeepFacts, ComputeClock, OffersNothing DEF Offer
<1>4. Computing' /\ state' \notin {"IDLE", "TX_DATA", "TX_ONE", "RECV_INST"}
    BY <1>3 DEF Computing, SM3States, SM4States
<1>5. CASE o_rx_done = 1
  <2>1. ~Taken /\ Total = 0
      BY <1>2, <1>5, AnswerKept DEF Taken
  <2>2. o_data_valid = 0 /\ state_count = 0 /\ o_state_0 = 0
      BY <2>1, Untaken
  <2>3. Offers
      BY <1>3, <1>5, <2>2 DEF Offers
  <2>4. Total' = 1 /\ Taken'
      BY <2>1, <2>3, AnswerKept DEF Taken
  <2>5. StepInv'
      BY <1>1, <1>2, <1>3, <1>4, <1>5, <2>4 DEF StepInv
  <2>6. Counted' = Counted + o_rx_done
    <3>1. Counted = 0 /\ Len(Told') = 1
      <4>1. step = 4 /\ step > 3 /\ ~Taken
          BY <1>2, <1>5
      <4>2. Len(Told') = 1
          BY <4>1, KeepFacts
      <4> QED BY <4>1, <4>2, CountedIs
    <3>2. Counted' = Len(Told')
        BY <2>4 DEF Counted
    <3> QED BY <1>5, <3>1, <3>2
  <2> QED BY <2>1, <2>5, <2>6 DEF KeepsPace
<1>6. CASE o_rx_done = 0
  <2>1. ~Offers /\ Total' = Total /\ Total \in Nat
      BY <1>3, <1>6, AnswerKept
  <2>2. Taken <=> Total > 0
      BY <1>1, AnswerKept DEF Taken
  <2>3. Taken' <=> Total' > 0
      BY <1>4, AnswerKept DEF Taken
  <2>4. StepInv'
      BY <1>1, <1>3, <1>4, <2>1, <2>2, <2>3 DEF StepInv
  <2>5. CASE Taken
      BY <1>1, <2>1, <2>2, <2>4, <2>5, KeepsTaken
  <2>6. CASE ~Taken
    <3>1. step = 4 /\ Counted = 0
        BY <2>6, KeepFacts, CountedIs
    <3>2. Counted' = 0
        BY <1>1, <2>1, <2>2, <2>3, <2>6, <3>1 DEF Counted
    <3> QED BY <1>6, <2>4, <2>6, <3>1, <3>2 DEF KeepsPace
  <2> QED BY <2>5, <2>6
<1> QED BY <1>1, <1>5, <1>6

(* The read, and the five bytes of the reply.                              *)
LEMMA KeepsAsking ==
    ASSUME BitIsLong, TopInv, UartTopNext, Keeps, step = 5, ~Taken
    PROVE  KeepsPace
<1>1. /\ Computing /\ tx_byte_cnt = 0 /\ rx_byte_cnt = 0 /\ Need' = 5 /\ step' = step
      /\ o_rx_done \in {0, 1} /\ calc_done = 1 /\ Len(Told') = 1 /\ step > 3
      /\ state \in SM3States \cup SM4States
  <2>1. Computing /\ calc_done = 1 /\ state \in SM3States \cup SM4States /\ rx_byte_cnt = 0
      BY KeepFacts DEF StepInv, Computing
  <2>2. state # "TX_DATA"
      BY <2>1 DEF SM3States, SM4States
  <2>3. tx_byte_cnt = 0
      BY <2>2, KeepFacts DEF StepInv
  <2>4. Need' = 5 /\ step' = step /\ o_rx_done \in {0, 1} /\ Len(Told') = 1 /\ step > 3
      BY KeepFacts
  <2> QED BY <2>1, <2>3, <2>4
<1>2. o_rx_done = 1 => Value(o_uart_data) = 0
  <2> SUFFICES ASSUME o_rx_done = 1 PROVE Value(o_uart_data) = 0
      OBVIOUS
  <2>1. Told = <<0>> /\ Counted = 0
      BY <1>1, ToldIs, CountedIs DEF TopInv, READ
  <2> QED BY <2>1, ByteDelivered
<1>3. /\ o_rx_done = 1 => state' = "TX_DATA"
      /\ o_rx_done = 0 => state' \in SM3States \cup SM4States
      /\ rx_byte_cnt' = 0 /\ tx_byte_cnt' = 0 /\ calc_done' = 1 /\ ~Offers
  <2>1. ReadTaken(o_rx_done, Value(o_uart_data)) <=> o_rx_done = 1
      BY <1>1, <1>2 DEF ReadTaken, READ
  <2>2. ~PollAsked(o_rx_done, Value(o_uart_data), o_state_0)
      BY <1>1, <1>2 DEF PollAsked, POLL
  <2> QED BY <1>1, <2>1, <2>2, KeepFacts, ComputeClock, OffersNothing
<1>4. Total = 0 /\ Total' = 0 /\ Pend' = <<>> /\ got' = <<>>
    BY <1>3, AnswerKept DEF Taken
<1>5. Counted = 0
    BY <1>1, CountedIs
<1>6. CASE o_rx_done = 1
  <2>1. Taken' /\ state' = "TX_DATA"
      BY <1>3, <1>6 DEF Taken
  <2>2. StepInv'
      BY <1>1, <1>3, <1>4, <2>1 DEF StepInv
  <2>3. Counted' = Counted + o_rx_done
      BY <1>1, <1>5, <1>6, <2>1 DEF Counted
  <2> QED BY <2>2, <2>3 DEF KeepsPace
<1>7. CASE o_rx_done = 0
  <2>1. ~Taken' /\ Computing' /\ state' \notin {"TX_DATA", "TX_ONE"}
      BY <1>3, <1>4, <1>7 DEF Taken, Computing, SM3States, SM4States
  <2>2. StepInv'
      BY <1>1, <1>3, <1>4, <2>1 DEF StepInv
  <2>3. Counted' = Counted + o_rx_done
      BY <1>1, <1>5, <1>7, <2>1 DEF Counted
  <2> QED BY <2>2, <2>3 DEF KeepsPace
<1> QED BY <1>1, <1>6, <1>7

LEMMA KeepsDone ==
    ASSUME BitIsLong, TopInv, UartTopNext, Keeps, step = 5, Taken, state = "IDLE"
    PROVE  KeepsPace
<1>1. /\ o_rx_done = 0 /\ rx_byte_cnt = 0 /\ tx_byte_cnt = 0 /\ Need' = 5 /\ step' = step
      /\ Total = 5 /\ step # 0
    BY KeepFacts DEF StepInv
<1>2. state' = "IDLE" /\ rx_byte_cnt' = 0 /\ tx_byte_cnt' = 0 /\ ~Offers
    BY <1>1, KeepFacts, IdleClock, OffersNothing
<1>3. Total' = 5
    BY <1>1, <1>2, AnswerKept
<1>4. Taken'
    BY <1>3, AnswerKept DEF Taken
<1>5. StepInv'
    BY <1>1, <1>2, <1>3, <1>4 DEF StepInv
<1> QED BY <1>1, <1>3, <1>5, KeepsTaken

(* The host completes the last byte under way only when the port is free.  *)
LEMMA LastHeardFree ==
    ASSUME BitIsLong, TopInv, UartTopNext, ByteHeard, PendLeft = <<>>
    PROVE  o_state_0 = 0 /\ o_data_valid = 0
<1>1. AtRest /\ timer > 0 /\ timer = 9 * CYCLE + CYCLE \div 2
    BY PendNext, HearAtRest
<1>2. timer # 9 * CYCLE /\ timer # 9 * CYCLE + 1
    BY <1>1, Numbers
<1>3. Opening = <<>>
  <2>1. Closing = <<SubSeq(heard, 2, 9)>> /\ Opening \in Seq(Data) /\ SubSeq(heard, 2, 9) \in Data
      BY <1>1, PendType, HeardWhole, HeardByte DEF Closing
  <2>2. Tail(Pend) = Opening
      BY <2>1, ConsTail DEF Pend
  <2> QED BY <2>2 DEF PendLeft
<1>4. o_data_valid # 1 /\ tx_baud_valid # 1
  <2>1. <<Bits(o_data_tx)>> # <<>>
      OBVIOUS
  <2> QED BY <1>3, <2>1 DEF Opening
<1> QED BY <1>1, <1>2, <1>4, TxFacts DEF AtRest

LEMMA KeepsReply ==
    ASSUME BitIsLong, TopInv, UartTopNext, Keeps, step = 5, Taken, state = "TX_DATA"
    PROVE  KeepsPace
<1>1. /\ o_rx_done = 0 /\ rx_byte_cnt = 0 /\ Need' = 5 /\ step' = step /\ tx_byte_cnt = Total
      /\ Total <= 5 /\ step # 0 /\ o_data_valid \in {0, 1} /\ o_state_0 \in {0, 1}
      /\ tx_byte_cnt = 5 => Pend # <<>>
    BY KeepFacts DEF StepInv, TypeOK, Bit
<1>2. /\ rx_byte_cnt' = 0 /\ Total \in Nat /\ Total' = Total + (IF Offers THEN 1 ELSE 0)
      /\ Total' > 0 <=> Pend' # <<>> \/ got' # <<>>
      /\ \/ o_state_0 = 0 /\ tx_byte_cnt # 5 /\ Offers /\ tx_byte_cnt' = tx_byte_cnt + 1
            /\ state' = "TX_DATA"
         \/ tx_byte_cnt = 5 /\ ~Offers /\ tx_byte_cnt' = 0 /\ state' = "IDLE"
         \/ ~(o_state_0 = 0 /\ o_data_valid = 0) /\ ~Offers /\ tx_byte_cnt' = tx_byte_cnt
            /\ state' = "TX_DATA"
    BY <1>1, KeepFacts, AnswerKept, DataClock, OffersNothing DEF Offer, Offers
<1>3. CASE Offers /\ tx_byte_cnt # 5 /\ tx_byte_cnt' = tx_byte_cnt + 1 /\ state' = "TX_DATA"
  <2>1. Total' = Total + 1 /\ Total' <= 5 /\ Pend' # <<>>
      BY <1>1, <1>2, <1>3, AnswerKept
  <2>2. Taken'
      BY <1>3 DEF Taken
  <2>3. StepInv'
      BY <1>1, <1>2, <1>3, <2>1, <2>2 DEF StepInv
  <2> QED BY <1>1, <1>3, <2>3, KeepsTaken
<1>4. CASE tx_byte_cnt = 5 /\ ~Offers /\ tx_byte_cnt' = 0 /\ state' = "IDLE"
  <2>1. Total' = 5
      BY <1>1, <1>2, <1>4
  <2>2. Taken'
      BY <1>2, <2>1 DEF Taken
  <2>3. StepInv'
      BY <1>1, <1>2, <1>4, <2>1, <2>2 DEF StepInv
  <2> QED BY <1>1, <2>1, <2>3, KeepsTaken
<1>5. CASE ~(o_state_0 = 0 /\ o_data_valid = 0) /\ ~Offers /\ tx_byte_cnt' = tx_byte_cnt
           /\ state' = "TX_DATA"
  <2>1. Total' = Total
      BY <1>2, <1>5
  <2>2. Taken'
      BY <1>5 DEF Taken
  <2>3. tx_byte_cnt' = 5 => Pend' # <<>>
    <3> SUFFICES ASSUME tx_byte_cnt' = 5 PROVE Pend' # <<>>
        OBVIOUS
    <3>1. Pend # <<>>
        BY <1>1, <1>5
    <3>2. PendLeft # <<>>
        BY <1>5, <3>1, AnswerKept, LastHeardFree
    <3> QED BY <3>2, AnswerKept
  <2>4. StepInv'
      BY <1>1, <1>2, <1>5, <2>1, <2>2, <2>3 DEF StepInv
  <2> QED BY <1>1, <1>5, <2>4, KeepsTaken
<1> QED BY <1>2, <1>3, <1>4, <1>5

(* Whatever the host is doing, the core keeps pace with it.                *)
LEMMA KeepsStep ==
    ASSUME BitIsLong, KnownRequests, TopInv, UartTopNext, Keeps
    PROVE  KeepsPace
<1>1. StepInv /\ step \in 0 .. 5
    BY KeepFacts
<1>2. CASE step = 0
    BY <1>2, KeepsAtRest
<1>3. CASE step \in 1 .. 3 /\ ~Taken
    BY <1>3, KeepsWord
<1>4. CASE step \in 1 .. 2 /\ Taken
  <2>1. state \in {"IDLE", "TX_ONE"} /\ step \in 1 .. 3
      BY <1>1, <1>4 DEF StepInv
  <2> QED BY <1>4, <2>1, KeepsAck, KeepsAcked
<1>5. CASE step = 3 /\ Taken
  <2>1. state \in {"IDLE", "TX_ONE", "RECV_INST"} \/ Computing
      BY <1>1, <1>5 DEF StepInv
  <2>2. step \in 1 .. 3
      BY <1>5
  <2> QED BY <1>5, <2>1, <2>2, KeepsAck, KeepsFull, KeepsInst, KeepsComputing
<1>6. CASE step = 4
    BY <1>6, KeepsComputing
<1>7. CASE step = 5
  <2>1. Taken => state \in {"IDLE", "TX_DATA"}
      BY <1>1, <1>7 DEF StepInv
  <2> QED BY <1>7, <2>1, KeepsAsking, KeepsDone, KeepsReply
<1> QED BY <1>1, <1>2, <1>3, <1>4, <1>5, <1>6, <1>7

-----------------------------------------------------------------------------
(* A clock in which the host turns to its next transmission.               *)

LEMMA TransmissionType ==
    ASSUME HostTypes, NEW s \in 1 .. 5
    PROVE  /\ Transmission(s) \in Seq(Byte) /\ Len(Transmission(s)) \in {1, 4}
           /\ s \in 4 .. 5 => Len(Transmission(s)) = 1
<1>1. request \in [1 .. 12 -> Byte]
    BY Numbers DEF HostTypes
<1>2. CASE s \in 1 .. 3
  <2>1. Transmission(s) = SubSeq(request, 4 * s - 3, 4 * s)
    <3>1. s # 4 /\ s # 5
        BY <1>2
    <3> QED BY <1>2, <3>1 DEF Transmission
  <2>2. s <= 3
      BY <1>2
  <2>3. s \notin 4 .. 5
      BY <1>2
  <2> QED BY <1>1, <2>1, <2>2, <2>3, TransmissionIs
<1>3. CASE s \in 4 .. 5
  <2>1. s \notin 1 .. 3 /\ s \in {4, 5}
      BY <1>3
  <2>2. Transmission(s) = <<POLL>> \/ Transmission(s) = <<READ>>
      BY <2>1 DEF Transmission
  <2>3. POLL \in Byte /\ READ \in Byte
      BY DEF POLL, READ, Byte
  <2>4. /\ <<POLL>> \in Seq(Byte) /\ Len(<<POLL>>) = 1
        /\ <<READ>> \in Seq(Byte) /\ Len(<<READ>>) = 1
      BY <2>3
  <2>5. Transmission(s) \in Seq(Byte) /\ Len(Transmission(s)) = 1
      BY <2>2, <2>4
  <2> QED BY <2>5
<1> QED BY <1>2, <1>3

LEMMA SendsAll ==
    ASSUME BitIsLong, TopInv, UartTopNext, Send
    PROVE  /\ out' \in Seq(Byte) /\ Len(out') \in {1, 4} /\ out' # <<>> /\ Len(Told') = Len(out')
           /\ Told' = out' /\ bit' = 0 /\ left' = CYCLE /\ step' \in 1 .. 5
           /\ step' > 3 => Len(Told') = 1
           /\ request' = request
<1>1. HostTypes /\ Turns
    BY DEF Turns, TopInv
<1>2. /\ step' = Follows /\ out' = Transmission(Follows) /\ bit' = 0 /\ left' = CYCLE
      /\ request' = request /\ step < 5
    BY DEF Send
<1>3. step' \in 1 .. 5
  <2>1. step \in 0 .. 5
      BY <1>1 DEF HostTypes
  <2>2. Follows \in 1 .. 5
      BY <1>2, <2>1 DEF Follows
  <2> QED BY <1>2, <2>2
<1>4. /\ Transmission(step') \in Seq(Byte) /\ Len(Transmission(step')) \in {1, 4}
      /\ step' \in 4 .. 5 => Len(Transmission(step')) = 1
    BY <1>1, <1>3, TransmissionType
<1>5. Told' = Transmission(step')
  <2>1. step' # 0
      BY <1>3
  <2> QED BY <1>2, <2>1 DEF Told, Transmission
<1>6. out' = Told' /\ out' = Transmission(step')
    BY <1>2, <1>5
<1>7. out' # <<>>
  <2> SUFFICES ASSUME out' = <<>> PROVE FALSE
      OBVIOUS
  <2>1. Len(out') = 0
      OBVIOUS
  <2>2. Len(out') \in {1, 4}
      BY <1>4, <1>6
  <2> QED BY <2>1, <2>2
<1> QED BY <1>2, <1>3, <1>4, <1>6, <1>7

LEMMA TurnsStep ==
    ASSUME BitIsLong, TopInv, UartTopNext, Turns
    PROVE  /\ StepInv' /\ Pend' = <<>> /\ got' = <<>> /\ timer' = 0 /\ o_rx_done = 0
           /\ step' = 0 \/ ~Taken'
           /\ nice_req_inst' = nice_req_inst
           /\ step' \in 1 .. 3 => rx_byte_cnt' = 4 * (step' - 1)
           /\ step' \in 1 .. 3 /\ step' # 1 => rx_byte_cnt = rx_byte_cnt' /\ step = step' - 1 /\ Taken
<1>1. /\ Answered /\ got' = <<>> /\ step' \in 0 .. 5
      /\ step' = 0 => step = 5
      /\ step' = 1 => step = 0
      /\ step' = 2 => step = 1
      /\ step' = 3 => step = 2
      /\ step' = 4 => step = 3 \/ step = 4
      /\ step' = 5 => step = 4 /\ got = <<1>>
    BY HostTurns
<1>2. /\ Pend = <<>> /\ o_rx_done = 0 /\ ~ByteHeard /\ o_data_valid = 0 /\ state_count = 0
      /\ tx_state = "IDLE" /\ tx_baud_valid = 0 /\ o_state_0 = 0 /\ timer = 0 /\ AtRest
      /\ step = 0 \/ (got # <<>> /\ Taken)
      /\ state # "TX_ONE" \/ step = 0
    BY <1>1, AllAnswered
<1>3. timer' = 0
    BY <1>2, HearAtRest
<1>4. StepInv /\ IInv /\ Clock(0, Value(o_uart_data), 0) /\ 0 \in Bit /\ step \in 0 .. 5
    BY <1>2, TopClock DEF TopInv, HostTypes, Bit
<1>5. /\ step = 5 => state = "IDLE" /\ rx_byte_cnt = 0
      /\ step = 0 => state = "IDLE" /\ rx_byte_cnt = 0
      /\ step \in 1 .. 2 => state = "IDLE" /\ rx_byte_cnt = 4 * step
      /\ step \in 3 .. 4 => Computing /\ state \in SM3States \cup SM4States /\ rx_byte_cnt = 0
      /\ tx_byte_cnt = 0
  <2>1. CASE step = 5
    <3>1. Total = 5
      <4>1. Len(got) = 5 /\ Len(Pend) = 0
          BY <1>1, <1>2, <2>1 DEF Answered, Need
      <4> QED BY <4>1 DEF Total
    <3>2. state = "IDLE" /\ rx_byte_cnt = 0
        BY <1>2, <1>4, <2>1, <3>1 DEF StepInv
    <3> QED BY <1>4, <2>1, <3>2 DEF StepInv
  <2>2. CASE step = 0
      BY <1>4, <2>2 DEF StepInv
  <2>3. CASE step \in 1 .. 2
      BY <1>2, <1>4, <2>3 DEF StepInv
  <2>4. CASE step \in 3 .. 4
    <3>1. Computing
        BY <1>2, <1>4, <2>4 DEF StepInv, StartedFor
    <3>2. state \in SM3States \cup SM4States /\ state # "TX_DATA" /\ rx_byte_cnt = 0
        BY <3>1 DEF Computing, SM3States, SM4States
    <3> QED BY <1>4, <2>4, <3>1, <3>2 DEF StepInv
  <2> QED BY <1>4, <2>1, <2>2, <2>3, <2>4
<1>6. /\ step \in {0, 1, 2, 5} => state' = "IDLE" /\ rx_byte_cnt' = rx_byte_cnt
      /\ step \in 3 .. 4 => /\ state' \in SM3States \cup SM4States /\ rx_byte_cnt' = 0
                            /\ calc_done = 1 => calc_done' = 1
      /\ tx_byte_cnt' = 0 /\ nice_req_inst' = nice_req_inst /\ ~Offers
  <2>1. CASE step \in {0, 1, 2, 5}
    <3>1. state = "IDLE" /\ rx_byte_cnt < 12 /\ step \notin 3 .. 4
        BY <1>5, <2>1
    <3>2. /\ Released(0) /\ tx_byte_cnt' = tx_byte_cnt
          /\ state' = "IDLE" /\ rx_byte_cnt' = rx_byte_cnt /\ nice_req_inst' = nice_req_inst
        BY <1>4, <3>1, IdleClock
    <3> QED BY <1>5, <3>1, <3>2, OffersNothing
  <2>2. CASE step \in 3 .. 4
    <3>1. state \in SM3States \cup SM4States /\ rx_byte_cnt = 0 /\ step \notin {0, 1, 2, 5}
        BY <1>5, <2>2
    <3>2. ~ReadTaken(0, Value(o_uart_data)) /\ ~PollAsked(0, Value(o_uart_data), 0)
        BY DEF ReadTaken, PollAsked
    <3>3. /\ Released(0) /\ tx_byte_cnt' = tx_byte_cnt /\ state' \in SM3States \cup SM4States
          /\ rx_byte_cnt' = rx_byte_cnt /\ nice_req_inst' = nice_req_inst
          /\ calc_done = 1 => calc_done' = 1
        BY <1>4, <3>1, <3>2, ComputeClock
    <3> QED BY <1>5, <3>1, <3>3, OffersNothing
  <2> QED BY <1>4, <2>1, <2>2
<1>7. Pend' = <<>>
  <2>1. PendLeft = <<>> /\ NewByte = <<>>
      BY <1>2, <1>6, PendNext DEF PendLeft
  <2>2. <<>> \o <<>> = <<>>
      OBVIOUS
  <2> QED BY <2>1, <2>2, PendNext
<1>8. Taken' <=> state' \in {"TX_ONE", "TX_DATA"}
    BY <1>1, <1>7 DEF Taken
<1>9. ~Taken' /\ state' # "TX_ONE" /\ state' # "TX_DATA"
    BY <1>4, <1>6, <1>8 DEF SM3States, SM4States
<1>10. Total' = 0
  <2>1. Len(<<>>) = 0
      OBVIOUS
  <2> QED BY <1>1, <1>7, <2>1 DEF Total
<1>11. step' = 5 => calc_done' = 1
  <2> SUFFICES ASSUME step' = 5 PROVE calc_done' = 1
      OBVIOUS
  <2>1. step = 4 /\ got = <<1>>
      BY <1>1
  <2>2. 1 \in 1 .. Len(got) /\ got[1] = 1
      BY <2>1
  <2>3. Says(1, got[1])
      BY <2>2 DEF TopInv, AnswerInv
  <2>4. calc_done = 1
      BY <2>1, <2>2, <2>3 DEF Says
  <2> QED BY <1>6, <2>1, <2>4
<1>12. step' \in 1 .. 3 => rx_byte_cnt' = 4 * (step' - 1)
    BY <1>1, <1>5, <1>6
<1>13. step' > 3 => Computing'
    BY <1>1, <1>6 DEF Computing
<1>14. step' \in 0 .. 3 => state' = "IDLE" /\ (step' = 0 => rx_byte_cnt' = 0)
    BY <1>1, <1>5, <1>6
<1>15. StepInv'
  <2>1. Need' >= 0
      BY <1>1 DEF Need
  <2>2. step' \in 1 .. 3 => rx_byte_cnt' \in 4 * (step' - 1) .. 4 * step' - 1
      BY <1>12
  <2> QED BY <1>1, <1>6, <1>7, <1>9, <1>10, <1>11, <1>13, <1>14, <2>1, <2>2 DEF StepInv
<1>16. step' \in 1 .. 3 /\ step' # 1 => rx_byte_cnt = rx_byte_cnt' /\ step = step' - 1 /\ Taken
    BY <1>1, <1>2, <1>6
<1> QED BY <1>1, <1>2, <1>3, <1>6, <1>7, <1>9, <1>12, <1>15, <1>16

-----------------------------------------------------------------------------
(* The host's side of a clock.                                             *)

ShiftHolds == left > 1 /\ left' = left - 1 /\ bit' = bit /\ out' = out
ShiftBit   == left = 1 /\ bit < 9 /\ left' = CYCLE /\ bit' = bit + 1 /\ out' = out
ShiftNext  == /\ left = 1 /\ bit = 9 /\ left' = CYCLE /\ bit' = 0
              /\ out' = Tail(out) /\ out' # <<>> /\ Len(out) >= 2
ShiftLast  == /\ left = 1 /\ bit = 9 /\ left' = CYCLE /\ bit' = 0
              /\ out' = <<>> /\ Len(out) = 1

LEMMA ShiftCases ==
    ASSUME TopInv, Shift
    PROVE  /\ ShiftHolds \/ ShiftBit \/ ShiftNext \/ ShiftLast
           /\ out # <<>> /\ out \in Seq(Byte) /\ Len(out) >= 1 /\ Len(out) \in Nat
           /\ Tail(out) \in Seq(Byte) /\ Len(Tail(out)) = Len(out) - 1
           /\ \A i \in 1 .. Len(out) - 1 : Tail(out)[i] = out[i + 1]
           /\ step > 0 /\ left > 0 /\ left \in Nat /\ got = <<>> /\ timer = 0 /\ waiting = 0
           /\ bit \in 0 .. 9 /\ waiting' = 0
<1>1. /\ out # <<>> /\ out \in Seq(Byte) /\ left \in 0 .. CYCLE /\ bit \in 0 .. 9
      /\ step > 0 /\ left > 0 /\ got = <<>> /\ timer = 0 /\ waiting = 0 /\ waiting' = waiting
    BY DEF TopInv, HostTypes, SendInv, Shift
<1>2. /\ Len(out) \in Nat /\ Len(out) >= 1 /\ Tail(out) \in Seq(Byte) /\ Len(Tail(out)) = Len(out) - 1
      /\ \A i \in 1 .. Len(Tail(out)) : Tail(out)[i] = out[i + 1]
    BY <1>1, EmptySeq, HeadTailProperties
<1>3. left \in Nat /\ (left > 1 \/ left = 1)
    BY <1>1, Numbers
<1>4. CASE left > 1
    BY <1>1, <1>2, <1>3, <1>4 DEF Shift, ShiftHolds
<1>5. CASE left = 1 /\ bit < 9
    BY <1>1, <1>2, <1>3, <1>5 DEF Shift, ShiftBit
<1>6. CASE left = 1 /\ bit = 9
  <2>1. left' = CYCLE /\ bit' = 0 /\ out' = Tail(out)
      BY <1>6 DEF Shift
  <2>2. out' # <<>> <=> Len(out) >= 2
    <3>1. \A q \in Seq(Byte) : q # <<>> <=> Len(q) > 0
        BY EmptySeq
    <3>2. out' \in Seq(Byte) /\ Len(out') = Len(out) - 1
        BY <1>2, <2>1
    <3>3. out' # <<>> <=> Len(out') > 0
        BY <3>1, <3>2
    <3> QED BY <1>2, <3>2, <3>3
  <2>3. ShiftNext \/ ShiftLast
      BY <1>2, <1>6, <2>1, <2>2 DEF ShiftNext, ShiftLast
  <2> QED BY <1>1, <1>2, <1>3, <2>3
<1>7. bit < 9 \/ bit = 9
    BY <1>1
<1> QED BY <1>3, <1>4, <1>5, <1>6, <1>7

LEMMA HostTypesStep ==
    ASSUME BitIsLong, TopInv, UartTopNext
    PROVE  HostTypes'
<1>1. HostTypes /\ CYCLE \in Nat /\ CYCLE >= 4
    BY Numbers DEF TopInv
<1>2. CASE Keeps
  <2>1. step' = step /\ request' = request /\ got' \in Seq(Byte)
      BY <1>2, HostKeeps, AnswerKept
  <2>2. CASE Shift
    <3>1. /\ out \in Seq(Byte) /\ Tail(out) \in Seq(Byte) /\ left \in Nat /\ left <= CYCLE /\ bit \in 0 .. 9
          /\ waiting' = 0
        BY <1>1, <2>2, ShiftCases DEF HostTypes
    <3>2. ShiftHolds \/ ShiftBit \/ ShiftNext \/ ShiftLast
        BY <2>2, ShiftCases
    <3>3. ShiftNext \/ ShiftLast => out' = Tail(out)
        BY <2>2 DEF Shift, ShiftNext, ShiftLast
    <3>4. out' \in Seq(Byte)
        BY <3>1, <3>2, <3>3 DEF ShiftHolds, ShiftBit
    <3>5. bit' \in 0 .. 9 /\ left' \in 0 .. CYCLE
        BY <1>1, <3>1, <3>2 DEF ShiftHolds, ShiftBit, ShiftNext, ShiftLast
    <3>6. step' \in 0 .. 5 /\ request' \in Requests
        BY <1>1, <2>1 DEF HostTypes
    <3> QED BY <2>1, <3>1, <3>4, <3>5, <3>6 DEF HostTypes
  <2>3. CASE Wait
      BY <1>1, <2>1, <2>3 DEF HostTypes, Wait
  <2> QED BY <1>2, <2>2, <2>3 DEF Keeps
<1>3. CASE Turns
  <2>1. step' \in 0 .. 5 /\ request' \in Requests /\ got' = <<>> /\ waiting' = 0
      BY <1>3, HostTurns
  <2>2. CASE Send
      BY <1>1, <2>1, <2>2, SendsAll DEF HostTypes
  <2>3. CASE NextRequest
      BY <1>1, <2>1, <2>3 DEF HostTypes, NextRequest
  <2> QED BY <1>3, <2>2, <2>3 DEF Turns
<1> QED BY <1>2, <1>3, HostCases

(* The bytes begun and the bytes counted.                                  *)
LEMMA BegunKeeps ==
    ASSUME BitIsLong, KnownRequests, TopInv, UartTopNext, Keeps
    PROVE  /\ KeepsPace /\ Begun' \in 0 .. 4 /\ Counted' \in 0 .. Begun'
           /\ Begun' = Begun + (IF Shift /\ ShiftNext THEN 1 ELSE 0)
           /\ Shift /\ ShiftNext => Begun <= 3
<1>1. KeepsPace
    BY KeepsStep
<1>2. /\ Counted \in Nat /\ Begun \in Nat /\ Counted <= Begun /\ Begun <= Len(Told)
      /\ Len(Told) \in {1, 4} /\ o_rx_done \in {0, 1}
      /\ o_rx_done = 1 => Counted < Begun
    BY CountedIs, ByteDelivered, KeepFacts
<1>3. Told' = Told
    BY HostKeeps
<1>4. Begun <= 4 /\ Counted' = Counted + o_rx_done
  <2>1. Begun <= 4
      BY CountedIs
  <2> QED BY <1>1, <2>1 DEF KeepsPace
<1>5. Begun' \in {Begun, Begun + 1} => Counted' \in 0 .. Begun'
    BY <1>2, <1>4
<1>6. Begun' = Begun => Begun' \in 0 .. 4
    BY <1>2, <1>4
<1>7. CASE Shift
  <2>1. out # <<>> /\ Len(out) \in Nat /\ Len(out) >= 1 /\ Len(Tail(out)) = Len(out) - 1
      BY <1>7, ShiftCases
  <2>2. Begun = Len(Told) + 1 - Len(out)
      BY <2>1 DEF Begun
  <2>3. CASE ShiftNext
    <3>1. Begun' = Len(Told) + 1 - (Len(out) - 1)
        BY <1>3, <2>1, <2>3 DEF Begun, ShiftNext
    <3>2. Len(out) >= 2 /\ Len(Told) <= 4 /\ Len(Told) \in Nat
      <4>1. Len(out) >= 2
          BY <2>3 DEF ShiftNext
      <4>2. \A n \in {1, 4} : n \in Nat /\ n <= 4
          OBVIOUS
      <4> QED BY <1>2, <4>1, <4>2, Zenon
    <3>3. Begun' = Begun + 1 /\ Begun <= 3
        BY <2>1, <2>2, <3>1, <3>2
    <3>4. Begun' \in 0 .. 4
        BY <1>2, <3>3
    <3> QED BY <1>1, <1>7, <1>5, <2>3, <3>3, <3>4
  <2>4. CASE ShiftHolds \/ ShiftBit
    <3>1. Begun' = Begun /\ ~ShiftNext
        BY <1>3, <2>1, <2>4 DEF Begun, ShiftHolds, ShiftBit, ShiftNext
    <3>2. Begun' = Begun + (IF Shift /\ ShiftNext THEN 1 ELSE 0)
        BY <1>2, <3>1
    <3> QED BY <1>1, <1>5, <1>6, <3>1, <3>2
  <2>5. CASE ShiftLast
    <3>1. Begun' = Len(Told) /\ ~ShiftNext /\ Len(out) = 1
        BY <1>3, <2>5 DEF Begun, ShiftLast, ShiftNext
    <3>2. Begun' = Begun
        BY <1>2, <2>2, <3>1
    <3>3. Begun' = Begun + (IF Shift /\ ShiftNext THEN 1 ELSE 0)
        BY <1>2, <3>1, <3>2
    <3> QED BY <1>1, <1>5, <1>6, <3>1, <3>2, <3>3
  <2> QED BY <1>7, <2>3, <2>4, <2>5, ShiftCases
<1>8. CASE Wait
  <2>1. out = <<>> /\ out' = <<>> /\ ~Shift
      BY <1>8 DEF Wait, Shift
  <2>2. Begun' = Begun
      BY <1>3, <2>1 DEF Begun
  <2>3. Begun' = Begun + (IF Shift /\ ShiftNext THEN 1 ELSE 0)
      BY <1>2, <2>1, <2>2
  <2> QED BY <1>1, <1>5, <1>6, <2>1, <2>2, <2>3
<1> QED BY <1>7, <1>8 DEF Keeps

LEMMA BegunTurns ==
    ASSUME BitIsLong, TopInv, UartTopNext, Turns
    PROVE  /\ Begun = Counted /\ Begun' = 1 /\ Counted' \in 0 .. 1
           /\ Send => Counted' = 0 /\ step' \in 1 .. 5
           /\ NextRequest => Counted' = 1 /\ Begun = 1 /\ step' = 0
<1>1. /\ StepInv' /\ (step' = 0 \/ ~Taken')
      /\ step' \in 1 .. 3 => rx_byte_cnt' = 4 * (step' - 1)
    BY TurnsStep
<1>2. Begun = Counted
  <2>1. step = 0 \/ Taken
      BY HostTurns, AllAnswered
  <2> QED BY <2>1, CountedIs
<1>3. CASE Send
  <2>1. out' # <<>> /\ Len(Told') = Len(out') /\ Len(out') \in {1, 4} /\ step' \in 1 .. 5
      BY <1>3, SendsAll
  <2>2. Begun' = 1
      BY <2>1 DEF Begun
  <2>3. Counted' = 0
      BY <1>1, <2>1 DEF Counted
  <2> QED BY <1>2, <2>1, <2>2, <2>3 DEF NextRequest
<1>4. CASE NextRequest
  <2>1. step = 5 /\ step' = 0 /\ out = <<>> /\ out' = <<>>
      BY <1>4 DEF NextRequest, Answered
  <2>2. Len(Told') = 1 /\ Len(Told) = 1
    <3>1. Told' = <<READ>> /\ Told = <<READ>>
        BY <2>1, ToldIs DEF Told, TopInv
    <3> QED BY <3>1
  <2>3. Begun' = 1 /\ Begun = 1
      BY <2>1, <2>2 DEF Begun
  <2>4. Counted' = 1 /\ ~Send
      BY <2>1, <2>2 DEF Counted, Send
  <2>5. Counted' \in 0 .. 1
      BY <2>4
  <2> QED BY <1>2, <2>1, <2>3, <2>4, <2>5
<1> QED BY <1>3, <1>4 DEF Turns

-----------------------------------------------------------------------------
(* The request register.                                                   *)

LEMMA RegisterKept ==
    ASSUME NEW dv, NEW d, NEW s0, Clock(dv, d, s0), ~(state = "IDLE" /\ dv = 1)
    PROVE  nice_req_inst' = nice_req_inst
BY DEF Clock, IdleByte, IdleFull, IdleWait, StartSM3, StartSM4, RejectInst, LeaveInst,
       Sm3Step1, Sm3Step2, Sm3Step3, Sm4Step1, Sm4Step2, Sm4Step3, TxDataByte, TxDataEnd,
       TxDataWait, TxOneSend, TxOneWait, reqVars

LEMMA KeptIs ==
    ASSUME NEW n \in 0 .. 11
    PROVE  /\ Kept(n) \in 0 .. 10 /\ Kept(12) = 10
           /\ n \in {2, 3} => Kept(n + 1) = Kept(n)
           /\ n \notin {2, 3} => /\ Kept(n + 1) = Kept(n) + 1 /\ Kept(n) \in 0 .. 9
                                 /\ n + 1 = (IF Kept(n + 1) <= 2 THEN Kept(n + 1) ELSE Kept(n + 1) + 2)
BY DEF Kept

(* A byte shifted into the register.                                       *)
LEMMA RegisterShift ==
    ASSUME NEW r \in [1 .. 10 -> Byte], NEW d, NEW n \in 0 .. 9, NEW req,
           NEW reg, reg = <<r[2], r[3], r[4], r[5], r[6], r[7], r[8], r[9], r[10], d>>,
           \A j \in 1 .. 10 : j > 10 - n =>
               r[j] = req[IF j - 10 + n <= 2 THEN j - 10 + n ELSE j - 8 + n],
           d = req[IF n + 1 <= 2 THEN n + 1 ELSE n + 3]
    PROVE  \A j \in 1 .. 10 : j > 10 - (n + 1) =>
               reg[j] = req[IF j - 10 + (n + 1) <= 2 THEN j - 10 + (n + 1) ELSE j - 8 + (n + 1)]
<1>1. SUFFICES ASSUME NEW j \in 1 .. 10, j > 10 - (n + 1)
               PROVE  reg[j] = req[IF j - 10 + (n + 1) <= 2 THEN j - 10 + (n + 1)
                                   ELSE j - 8 + (n + 1)]
    OBVIOUS
<1>2. CASE j = 10
  <2>1. j - 10 + (n + 1) = n + 1 /\ j - 8 + (n + 1) = n + 3 /\ reg[j] = d
      BY <1>2
  <2> QED BY <2>1
<1>3. CASE j < 10
  <2>1. j + 1 \in 1 .. 10 /\ j + 1 > 10 - n
      BY <1>1, <1>3
  <2>2. reg[j] = r[j + 1]
      BY <1>3
  <2>3. r[j + 1] = req[IF (j + 1) - 10 + n <= 2 THEN (j + 1) - 10 + n ELSE (j + 1) - 8 + n]
      BY <2>1
  <2>4. (j + 1) - 10 + n = j - 10 + (n + 1) /\ (j + 1) - 8 + n = j - 8 + (n + 1)
      OBVIOUS
  <2> QED BY <2>2, <2>3, <2>4
<1> QED BY <1>2, <1>3

LEMMA RegisterKeeps ==
    ASSUME BitIsLong, KnownRequests, TopInv, UartTopNext, Keeps
    PROVE  RegisterInv'
<1>1. /\ KeepsPace /\ step' = step /\ request' = request /\ step \in 0 .. 5 /\ RegisterInv
      /\ Counted' = Counted + o_rx_done /\ o_rx_done \in {0, 1} /\ StepInv' /\ StepInv
      /\ Clock(o_rx_done, Value(o_uart_data), o_state_0)
      /\ Taken => o_rx_done = 0 /\ Taken'
    BY KeepsStep, KeepFacts, HostKeeps DEF KeepsPace, TopInv
<1>2. /\ step = 0 => o_rx_done = 0
      /\ step > 3 /\ ~Taken => state # "IDLE"
      /\ step \in 1 .. 3 => Len(Told) = 4 /\ Len(Told') = 4
  <2>1. step \in {4, 5} /\ ~Taken => Computing
      BY <1>1 DEF StepInv
  <2>2. Computing => state # "IDLE"
      BY DEF Computing, SM3States, SM4States
  <2>3. step > 3 => step \in {4, 5}
      BY <1>1
  <2> QED BY <2>1, <2>2, <2>3, KeepFacts
<1>3. ASSUME NEW j \in 1 .. 10, nice_req_inst' = nice_req_inst, Loaded' = Loaded, j > 10 - Loaded'
      PROVE  nice_req_inst'[j] = request'[IF j - 10 + Loaded' <= 2 THEN j - 10 + Loaded'
                                          ELSE j - 8 + Loaded']
    BY <1>1, <1>3 DEF RegisterInv
<1>4. CASE step \in {0, 4, 5}
  <2>1. Loaded' = Loaded
      BY <1>1, <1>4 DEF Loaded
  <2>2. nice_req_inst' = nice_req_inst
      BY <1>1, <1>2, <1>4, RegisterKept
  <2> QED BY <1>3, <2>1, <2>2 DEF RegisterInv
<1>5. CASE step \in 1 .. 3 /\ Taken
  <2>1. Loaded' = Loaded
    <3>1. step # 3 => rx_byte_cnt' = rx_byte_cnt
        BY <1>1, <1>5 DEF StepInv
    <3> QED BY <1>1, <1>5, <3>1 DEF Loaded
  <2>2. nice_req_inst' = nice_req_inst
      BY <1>1, <1>5, RegisterKept
  <2> QED BY <1>3, <2>1, <2>2 DEF RegisterInv
<1>6. CASE step \in 1 .. 3 /\ ~Taken
  <2>1. /\ state = "IDLE" /\ rx_byte_cnt \in 4 * (step - 1) .. 4 * step - 1
        /\ rx_byte_cnt \in 0 .. 11 /\ Counted = rx_byte_cnt - 4 * (step - 1)
        /\ Loaded = Kept(rx_byte_cnt)
    <3>1. state = "IDLE" /\ rx_byte_cnt \in 4 * (step - 1) .. 4 * step - 1
        BY <1>1, <1>6 DEF StepInv
    <3>2. Counted = rx_byte_cnt - 4 * (step - 1)
        BY <1>6, CountedIs
    <3>3. Loaded = Kept(rx_byte_cnt)
        BY <1>6 DEF Loaded
    <3> QED BY <1>6, <3>1, <3>2, <3>3
  <2>2. /\ nice_req_inst \in [1 .. 10 -> Byte] /\ o_state_0 \in Bit
        /\ o_rx_done = 0 => rx_byte_cnt' = rx_byte_cnt /\ nice_req_inst' = nice_req_inst
        /\ o_rx_done = 1 =>
             /\ rx_byte_cnt' = rx_byte_cnt + 1
             /\ nice_req_inst' =
                  IF rx_byte_cnt \in {2, 3} THEN nice_req_inst
                  ELSE <<nice_req_inst[2], nice_req_inst[3], nice_req_inst[4],
                         nice_req_inst[5], nice_req_inst[6], nice_req_inst[7],
                         nice_req_inst[8], nice_req_inst[9], nice_req_inst[10], Value(o_uart_data)>>
    <3>1. IInv /\ o_state_0 \in Bit /\ o_rx_done \in Bit /\ rx_byte_cnt < 12
        BY <2>1, KeepFacts
    <3>2. nice_req_inst \in [1 .. 10 -> Byte]
        BY <3>1 DEF IInv, TypeOK
    <3> QED BY <1>1, <2>1, <3>1, <3>2, IdleClock
  <2>3. Loaded' = Kept(rx_byte_cnt')
    <3>1. CASE step = 3 /\ Taken'
      <4>1. Counted' = 4
          BY <1>2, <1>6, <3>1 DEF Counted
      <4>2. Counted = rx_byte_cnt - 8 /\ rx_byte_cnt \in Nat
          BY <1>6, <2>1, <3>1
      <4>3. rx_byte_cnt' = rx_byte_cnt + o_rx_done
        <5>1. o_rx_done = 0 => rx_byte_cnt' = rx_byte_cnt + o_rx_done
            BY <2>2, <4>2
        <5> QED BY <1>1, <2>2, <5>1
      <4>4. rx_byte_cnt' = 12
          BY <1>1, <4>1, <4>2, <4>3
      <4>5. Kept(12) = 10
          BY <2>1, KeptIs
      <4> QED BY <1>1, <3>1, <4>4, <4>5 DEF Loaded
    <3>2. CASE ~(step = 3 /\ Taken')
        BY <1>1, <1>6, <3>2 DEF Loaded
    <3> QED BY <3>1, <3>2
  <2>4. CASE o_rx_done = 0
      BY <1>3, <2>1, <2>2, <2>3, <2>4 DEF RegisterInv
  <2>5. CASE o_rx_done = 1 /\ rx_byte_cnt \in {2, 3}
    <3>1. Loaded' = Loaded
        BY <2>1, <2>2, <2>3, <2>5, KeptIs
    <3> QED BY <1>3, <2>2, <2>5, <3>1 DEF RegisterInv
  <2>6. CASE o_rx_done = 1 /\ rx_byte_cnt \notin {2, 3}
    <3>1. /\ Loaded' = Loaded + 1 /\ Loaded \in 0 .. 9
          /\ rx_byte_cnt + 1 = (IF Loaded + 1 <= 2 THEN Loaded + 1 ELSE Loaded + 1 + 2)
        BY <2>1, <2>2, <2>3, <2>6, KeptIs
    <3>2. Value(o_uart_data) = request[rx_byte_cnt + 1]
      <4>1. /\ Value(o_uart_data) = Told[Counted + 1] /\ Counted + 1 \in 1 .. 4
          BY <1>2, <1>6, <2>6, ByteDelivered
      <4>2. Told[Counted + 1] = request[4 * step - 4 + (Counted + 1)]
          BY <1>6, <4>1, ToldIs DEF TopInv
      <4>3. 4 * step - 4 + (Counted + 1) = rx_byte_cnt + 1
          BY <1>6, <2>1
      <4> QED BY <4>1, <4>2, <4>3
    <3>3. Value(o_uart_data) = request[IF Loaded + 1 <= 2 THEN Loaded + 1 ELSE Loaded + 3]
      <4>1. Loaded + 1 + 2 = Loaded + 3
          BY <3>1
      <4> QED BY <3>1, <3>2, <4>1
    <3>4. nice_req_inst' =
             <<nice_req_inst[2], nice_req_inst[3], nice_req_inst[4],
               nice_req_inst[5], nice_req_inst[6], nice_req_inst[7],
               nice_req_inst[8], nice_req_inst[9], nice_req_inst[10], Value(o_uart_data)>>
        BY <2>2, <2>6
    <3>5. \A j \in 1 .. 10 : j > 10 - (Loaded + 1) =>
               nice_req_inst'[j] = request[IF j - 10 + (Loaded + 1) <= 2 THEN j - 10 + (Loaded + 1)
                                           ELSE j - 8 + (Loaded + 1)]
        BY <1>1, <2>2, <3>1, <3>3, <3>4, RegisterShift DEF RegisterInv
    <3> QED BY <1>1, <3>1, <3>5 DEF RegisterInv
  <2> QED BY <1>1, <2>4, <2>5, <2>6
<1> QED BY <1>1, <1>4, <1>5, <1>6

LEMMA RegisterTurns ==
    ASSUME BitIsLong, TopInv, UartTopNext, Turns
    PROVE  RegisterInv'
<1>1. /\ nice_req_inst' = nice_req_inst /\ step' \in 0 .. 5
      /\ step' = 0 \/ ~Taken'
      /\ step' \in 1 .. 3 => rx_byte_cnt' = 4 * (step' - 1)
      /\ step' \in 1 .. 3 /\ step' # 1 => rx_byte_cnt = rx_byte_cnt' /\ step = step' - 1 /\ Taken
      /\ step' # 0 => request' = request
      /\ step' = 4 => step = 3 \/ step = 4
      /\ step' = 5 => step = 4
    BY TurnsStep, HostTurns
<1>2. step \in 0 .. 5
    BY DEF TopInv, HostTypes
<1>3. CASE step' \in {0, 1}
  <2>1. Loaded' = 0
      BY <1>1, <1>3 DEF Loaded, Kept
  <2> QED BY <2>1 DEF RegisterInv
<1>4. CASE step' > 1
  <2>1. Loaded' = Loaded
    <3>1. CASE step' \in 2 .. 3
        BY <1>1, <3>1 DEF Loaded
    <3>2. CASE step' > 3
      <4>1. step = 3 => Taken
          BY AllAnswered, HostTurns
      <4> QED BY <1>1, <3>2, <4>1 DEF Loaded
    <3> QED BY <1>1, <1>4, <3>1, <3>2
  <2> QED BY <1>1, <1>4, <2>1 DEF RegisterInv, TopInv
<1> QED BY <1>1, <1>3, <1>4

-----------------------------------------------------------------------------
(* The answers.                                                            *)

LEMMA FourBytes ==
    ASSUME NEW r \in [1 .. 12 -> Byte]
    PROVE  /\ SubSeq(r, 5, 8) = <<r[5], r[6], r[7], r[8]>>
           /\ SubSeq(r, 9, 12) = <<r[9], r[10], r[11], r[12]>>
<1>1. /\ SubSeq(r, 5, 8) \in Seq(Byte) /\ Len(SubSeq(r, 5, 8)) = 4
      /\ \A i \in 1 .. 4 : SubSeq(r, 5, 8)[i] = r[4 + i]
  <2>1. 4 * 2 - 3 = 5 /\ 4 * 2 = 8 /\ 4 * 2 - 4 = 4
      OBVIOUS
  <2> QED BY <2>1, TransmissionIs
<1>2. /\ SubSeq(r, 9, 12) \in Seq(Byte) /\ Len(SubSeq(r, 9, 12)) = 4
      /\ \A i \in 1 .. 4 : SubSeq(r, 9, 12)[i] = r[8 + i]
  <2>1. 4 * 3 - 3 = 9 /\ 4 * 3 = 12 /\ 4 * 3 - 4 = 8
      OBVIOUS
  <2> QED BY <2>1, TransmissionIs
<1>3. ASSUME NEW q \in Seq(Byte), Len(q) = 4
      PROVE  q = <<q[1], q[2], q[3], q[4]>>
    BY <1>3
<1>4. 4 + 1 = 5 /\ 4 + 2 = 6 /\ 4 + 3 = 7 /\ 4 + 4 = 8 /\ 8 + 1 = 9 /\ 8 + 2 = 10 /\ 8 + 3 = 11 /\ 8 + 4 = 12
    OBVIOUS
<1>5. SubSeq(r, 5, 8) = <<r[5], r[6], r[7], r[8]>>
  <2>1. /\ SubSeq(r, 5, 8)[1] = r[5] /\ SubSeq(r, 5, 8)[2] = r[6]
        /\ SubSeq(r, 5, 8)[3] = r[7] /\ SubSeq(r, 5, 8)[4] = r[8]
      BY <1>1, <1>4
  <2> QED BY <1>1, <1>3, <2>1
<1>6. SubSeq(r, 9, 12) = <<r[9], r[10], r[11], r[12]>>
  <2>1. /\ SubSeq(r, 9, 12)[1] = r[9] /\ SubSeq(r, 9, 12)[2] = r[10]
        /\ SubSeq(r, 9, 12)[3] = r[11] /\ SubSeq(r, 9, 12)[4] = r[12]
      BY <1>2, <1>4
  <2> QED BY <1>2, <1>3, <2>1
<1> QED BY <1>5, <1>6

(* The reply is the result and the latency the software expects.           *)
LEMMA ReplyIs ==
    ASSUME TopInv, KnownRequests, step > 3, ReplyReady, NEW n \in 0 .. 4
    PROVE  ReplyByte(n) = Expected[n + 1] /\ ReplyByte(n) \in Byte /\ Len(Expected) = 5
<1>1. Loaded = 10
    BY DEF Loaded, TopInv, HostTypes
<1>2. /\ opcode = <<request[1], request[2]>>
      /\ \A j \in 1 .. 10 : nice_req_inst[j] = request[IF j <= 2 THEN j ELSE j + 2]
    BY <1>1, OpcodeKnown
<1>3. request \in [1 .. 12 -> Byte]
    BY ToldIs DEF TopInv
<1>4. rs1 = SubSeq(request, 5, 8)
  <2>1. /\ nice_req_inst[3] = request[5] /\ nice_req_inst[4] = request[6]
        /\ nice_req_inst[5] = request[7] /\ nice_req_inst[6] = request[8]
      BY <1>2
  <2> QED BY <1>3, <2>1, FourBytes DEF rs1
<1>5. rs2 = SubSeq(request, 9, 12)
  <2>1. /\ nice_req_inst[7] = request[9] /\ nice_req_inst[8] = request[10]
        /\ nice_req_inst[9] = request[11] /\ nice_req_inst[10] = request[12]
      BY <1>2
  <2> QED BY <1>3, <2>1, FourBytes DEF rs2
<1>6. /\ calc_result = Custom3(opcode, rs1, rs2)
      /\ cycle_counter = IF opcode \in {OpSM3P0, OpSM3P1} THEN 3 ELSE 7
      /\ calc_result \in Byte \X Byte \X Byte \X Byte /\ cycle_counter \in Byte
    BY DEF TopInv, IInv, ReplyInv, TypeOK, Word
<1>7. Expected = calc_result \o <<cycle_counter>>
    BY <1>2, <1>4, <1>5, <1>6 DEF Expected
<1>8. calc_result \in Seq(Byte) /\ Len(calc_result) = 4 /\ <<cycle_counter>> \in Seq(Byte)
      /\ Len(<<cycle_counter>>) = 1 /\ <<cycle_counter>>[1] = cycle_counter
    BY <1>6
<1>9. /\ Len(Expected) = 5
      /\ \A i \in 1 .. 4 : Expected[i] = calc_result[i] /\ calc_result[i] \in Byte
      /\ Expected[5] = cycle_counter
  <2>1. Len(Expected) = 5
    <3>1. Len(calc_result \o <<cycle_counter>>) = Len(calc_result) + Len(<<cycle_counter>>)
        BY <1>8, ConcatProperties
    <3>2. Len(calc_result \o <<cycle_counter>>) = 4 + 1
        BY <1>8, <3>1
    <3> QED BY <1>7, <3>2
  <2>2. ASSUME NEW i \in 1 .. 4
        PROVE  Expected[i] = calc_result[i] /\ calc_result[i] \in Byte
    <3>1. i \in 1 .. Len(calc_result) + Len(<<cycle_counter>>) /\ i <= Len(calc_result) /\ i \in 1 .. Len(calc_result)
        BY <1>8
    <3>2. (calc_result \o <<cycle_counter>>)[i] = calc_result[i]
        BY <1>8, <3>1, ConcatProperties
    <3> QED BY <1>7, <1>8, <3>1, <3>2, ElementOfSeq
  <2>3. Expected[5] = cycle_counter
    <3>1. 5 \in 1 .. Len(calc_result) + Len(<<cycle_counter>>) /\ ~(5 <= Len(calc_result))
          /\ 5 - Len(calc_result) = 1
        BY <1>8
    <3>2. (calc_result \o <<cycle_counter>>)[5] = <<cycle_counter>>[5 - Len(calc_result)]
        BY <1>8, <3>1, ConcatProperties
    <3> QED BY <1>7, <1>8, <3>1, <3>2
  <2> QED BY <2>1, <2>2, <2>3
<1>10. CASE n < 4
    BY <1>9, <1>10 DEF ReplyByte
<1>11. CASE n = 4
    BY <1>6, <1>9, <1>11 DEF ReplyByte
<1> QED BY <1>10, <1>11

(* What has been answered stays right.                                     *)
SaysNext(i, b) ==
    /\ b \in Byte
    /\ step' \in 1 .. 3 => b = ACK
    /\ step' = 4 => b \in {0, 1} /\ (b = 1 => calc_done' = 1)
    /\ step' = 5 => b = Expected'[i]

LEMMA AnswerNext ==
    AnswerInv' <=>
        /\ \A i \in 1 .. Len(got') : SaysNext(i, got'[i])
        /\ \A i \in 1 .. Len(Pend') :
              \E b \in Byte : Pend'[i] = Bits(b) /\ SaysNext(Len(got') + i, b)
BY DEF AnswerInv, Says, SaysNext

LEMMA SaysKept ==
    ASSUME BitIsLong, TopInv, UartTopNext, Keeps, NEW i, NEW b, Says(i, b)
    PROVE  SaysNext(i, b)
<1>1. step' = step /\ Expected' = Expected /\ StepInv
    BY HostKeeps DEF TopInv
<1>2. step = 4 /\ calc_done = 1 => calc_done' = 1
  <2> SUFFICES ASSUME step = 4, calc_done = 1 PROVE calc_done' = 1
      OBVIOUS
  <2>1. state \in SM3States \cup SM4States
      BY <1>1 DEF StepInv, Computing
  <2> QED BY <2>1, KeepFacts, ComputeClock
<1> QED BY <1>1, <1>2 DEF Says, SaysNext

(* A byte that is offered is the next one of the answer.                   *)
LEMMA OfferSays ==
    ASSUME BitIsLong, KnownRequests, TopInv, UartTopNext, Keeps, Offers
    PROVE  SaysNext(Total + 1, o_data_tx')
<1>1. /\ StepInv /\ IInv /\ step' = step /\ step \in 0 .. 5 /\ Expected' = Expected
      /\ Clock(o_rx_done, Value(o_uart_data), o_state_0) /\ o_state_0 \in Bit /\ o_rx_done \in Bit
      /\ Taken => o_rx_done = 0
      /\ o_rx_done \in {0, 1} /\ ~Released(o_state_0)
    BY KeepFacts, HostKeeps, OffersNothing
<1>2. state # "IDLE"
    BY <1>1, IdleClock
<1>3. state # "RECV_INST"
  <2> SUFFICES ASSUME state = "RECV_INST" PROVE FALSE
      OBVIOUS
  <2>1. step = 3 /\ Taken /\ rx_byte_cnt = 12
      BY <1>1 DEF StepInv, Computing, SM3States, SM4States
  <2>2. opcode \in Opcodes
      BY <2>1, OpcodeKnown DEF Loaded
  <2>3. o_rx_done = 0
      BY <1>1, <2>1
  <2> QED BY <1>1, <2>1, <2>2, <2>3, InstClock
<1>4. CASE state = "TX_ONE"
  <2>1. Taken /\ step \in 1 .. 3
      BY <1>1, <1>4 DEF StepInv, Taken, Computing, SM3States, SM4States
  <2>2. o_data_tx' = ACK
      BY <1>1, <1>4, OneClock DEF Offer
  <2> QED BY <1>1, <2>1, <2>2 DEF SaysNext, ACK, Byte
<1>5. CASE state = "TX_DATA"
  <2>1. step = 5 /\ tx_byte_cnt = Total /\ tx_byte_cnt \in 0 .. 5
      BY <1>1, <1>5 DEF StepInv, Taken, Computing, SM3States, SM4States, IInv, TypeOK
  <2>2. tx_byte_cnt # 5 /\ o_data_tx' = ReplyByte(tx_byte_cnt)
      BY <1>1, <1>5, DataClock DEF Offer
  <2>3. tx_byte_cnt \in 0 .. 4 /\ ReplyReady
      BY <1>5, <2>1, <2>2 DEF ReplyReady
  <2>4. ReplyByte(tx_byte_cnt) = Expected[tx_byte_cnt + 1] /\ ReplyByte(tx_byte_cnt) \in Byte
      BY <2>1, <2>3, ReplyIs
  <2> QED BY <1>1, <2>1, <2>2, <2>4 DEF SaysNext
<1>6. CASE state \in SM3States \cup SM4States
  <2>1. PollAsked(o_rx_done, Value(o_uart_data), o_state_0) /\ Offer(calc_done)
      BY <1>1, <1>6, ComputeClock
  <2>2. o_rx_done = 1 /\ Value(o_uart_data) = 255 /\ ~Taken
      BY <1>1, <2>1 DEF PollAsked, POLL
  <2>3. step # 5
    <3> SUFFICES ASSUME step = 5 PROVE FALSE
        OBVIOUS
    <3>1. Told = <<0>> /\ Counted = 0
        BY <2>2, ToldIs, CountedIs DEF TopInv, READ
    <3> QED BY <2>2, <3>1, ByteDelivered
  <2>4. step = 4
    <3>1. step \notin 1 .. 3 /\ step # 0
        BY <1>1, <1>6, <2>2 DEF StepInv, SM3States, SM4States
    <3> QED BY <1>1, <2>3, <3>1
  <2>5. calc_done \in {0, 1} /\ (calc_done = 1 => calc_done' = 1)
      BY <1>1, <1>6, ComputeClock DEF IInv, TypeOK, Bit
  <2>6. o_data_tx' = calc_done
      BY <2>1 DEF Offer
  <2> QED BY <1>1, <2>4, <2>5, <2>6 DEF SaysNext, Byte
<1>7. state \in States
    BY <1>1 DEF IInv, TypeOK
<1> QED BY <1>2, <1>3, <1>4, <1>5, <1>6, <1>7 DEF States

LEMMA AnswerKeeps ==
    ASSUME BitIsLong, KnownRequests, TopInv, UartTopNext, Keeps
    PROVE  AnswerInv'
<1>1. /\ \A i \in 1 .. Len(got) : Says(i, got[i])
      /\ \A i \in 1 .. Len(Pend) : \E b \in Byte : Pend[i] = Bits(b) /\ Says(Len(got) + i, b)
    BY DEF TopInv, AnswerInv
<1>2. /\ got \in Seq(Byte) /\ got' \in Seq(Byte) /\ Pend \in Seq(Data) /\ PendLeft \in Seq(Data)
      /\ Len(got) \in Nat /\ Len(Pend) \in Nat /\ Len(PendLeft) \in Nat
      /\ Len(Pend) = Len(PendLeft) + (IF ByteHeard THEN 1 ELSE 0)
      /\ Pend' = PendLeft \o NewByte /\ NewByte \in Seq(Data)
      /\ Total = Len(got) + Len(Pend)
      /\ ~ByteHeard => PendLeft = Pend /\ got' = got
      /\ ByteHeard => /\ got' = Append(got, Value(Head(Pend))) /\ Pend # <<>>
                      /\ PendLeft = Tail(Pend)
    BY AnswerKept, PendNext, PendType, LenProperties DEF Total, PendLeft
<1>3. Len(got') = Len(got) + (IF ByteHeard THEN 1 ELSE 0) /\ Len(got') \in Nat
      /\ Len(got') + Len(PendLeft) = Total
  <2>1. CASE ByteHeard
    <3>1. Value(Head(Pend)) \in Byte
        BY <2>1, AnswerKept
    <3>2. Len(got') = Len(got) + 1
        BY <1>2, <2>1, <3>1
    <3> QED BY <1>2, <2>1, <3>2
  <2>2. CASE ~ByteHeard
    <3>1. Len(got') = Len(got) /\ Len(PendLeft) = Len(Pend)
        BY <1>2, <2>2
    <3>2. Len(got') \in Nat /\ Len(got') + Len(PendLeft) = Total
        BY <1>2, <3>1
    <3>3. Len(got') = Len(got) + (IF ByteHeard THEN 1 ELSE 0)
      <4>1. Len(got) \in Nat
          BY <1>2
      <4> QED BY <2>2, <3>1, <4>1
    <3> QED BY <3>2, <3>3
  <2> QED BY <2>1, <2>2
<1>4. ASSUME NEW i \in 1 .. Len(got')
      PROVE  SaysNext(i, got'[i])
  <2>1. CASE i <= Len(got)
    <3>1. got'[i] = got[i] /\ i \in 1 .. Len(got)
      <4>1. CASE ByteHeard
        <5>1. Value(Head(Pend)) \in Byte
            BY <4>1, AnswerKept
        <5>2. got' = Append(got, Value(Head(Pend))) /\ i \in 1 .. Len(got)
            BY <1>2, <2>1, <4>1
        <5> QED BY <1>2, <5>1, <5>2
      <4>2. CASE ~ByteHeard
          BY <1>2, <1>3, <2>1, <4>2
      <4> QED BY <4>1, <4>2
    <3>2. Says(i, got[i])
        BY <1>1, <3>1
    <3> QED BY <3>1, <3>2, SaysKept
  <2>2. CASE i > Len(got)
    <3>1. ByteHeard /\ i = Len(got) + 1
        BY <1>2, <1>3, <2>2
    <3>2. PICK b \in Byte : Pend[1] = Bits(b) /\ Says(Len(got) + 1, b)
      <4>1. 1 \in 1 .. Len(Pend)
          BY <1>2, <3>1
      <4> QED BY <1>1, <4>1
    <3>3. Head(Pend) = Pend[1]
        BY <1>2, <3>1
    <3>4. Value(Head(Pend)) = b
        BY <3>2, <3>3, BitsType
    <3>5. got'[i] = b
        BY <1>2, <3>1, <3>2, <3>4
    <3> QED BY <3>1, <3>2, <3>5, SaysKept
  <2> QED BY <1>2, <1>3, <2>1, <2>2
<1>5. ASSUME NEW i \in 1 .. Len(Pend')
      PROVE  \E b \in Byte : Pend'[i] = Bits(b) /\ SaysNext(Len(got') + i, b)
  <2>1. CASE i <= Len(PendLeft)
    <3>1. Pend'[i] = PendLeft[i]
        BY <1>2, <2>1, ConcatProperties
    <3>2. PICK k \in 1 .. Len(Pend) : PendLeft[i] = Pend[k] /\ Len(got) + k = Len(got') + i
      <4>1. CASE ByteHeard
        <5>1. PendLeft[i] = Pend[i + 1]
          <6>1. PendLeft = Tail(Pend) /\ Pend # <<>> /\ i \in 1 .. Len(PendLeft)
              BY <1>2, <2>1, <4>1
          <6>2. Len(Tail(Pend)) = Len(PendLeft)
              BY <6>1
          <6> QED BY <1>2, <6>1, <6>2, HeadTailProperties
        <5>2. i + 1 \in 1 .. Len(Pend) /\ Len(got) + (i + 1) = Len(got') + i
            BY <1>2, <1>3, <2>1, <4>1
        <5> QED BY <5>1, <5>2
      <4>2. CASE ~ByteHeard
        <5>1. PendLeft = Pend /\ got' = got
            BY <1>2, <4>2
        <5>2. i \in 1 .. Len(Pend)
            BY <1>2, <2>1, <5>1
        <5> QED BY <5>1, <5>2
      <4> QED BY <4>1, <4>2
    <3>3. PICK b \in Byte : Pend[k] = Bits(b) /\ Says(Len(got) + k, b)
        BY <1>1, <3>2
    <3>4. Says(Len(got') + i, b)
        BY <3>2, <3>3
    <3>5. SaysNext(Len(got') + i, b)
        BY <3>4, SaysKept
    <3> QED BY <3>1, <3>2, <3>3, <3>5
  <2>2. CASE i > Len(PendLeft)
    <3>1. Len(Pend') = Len(PendLeft) + Len(NewByte) /\ Len(NewByte) \in Nat
        BY <1>2, ConcatProperties, LenProperties
    <3>2. Offers /\ i = Len(PendLeft) + 1 /\ NewByte = <<Bits(o_data_tx')>>
      <4>1. ~Offers => Len(NewByte) = 0
          BY DEF NewByte
      <4>2. Offers => Len(NewByte) = 1 /\ NewByte = <<Bits(o_data_tx')>>
          BY DEF NewByte
      <4>3. Len(Pend') > Len(PendLeft) /\ i <= Len(Pend')
          BY <1>2, <2>2, <3>1
      <4>4. Offers
          BY <1>2, <3>1, <4>1, <4>3
      <4>5. Len(NewByte) = 1
          BY <4>2, <4>4
      <4>6. Len(PendLeft) \in Nat
          BY <1>2
      <4>7. i = Len(PendLeft) + 1
          BY <2>2, <3>1, <4>3, <4>5, <4>6
      <4> QED BY <4>2, <4>4, <4>7
    <3>3. Pend'[i] = Bits(o_data_tx')
      <4>1. Len(NewByte) = 1 /\ NewByte[1] = Bits(o_data_tx')
          BY <3>2
      <4>2. (PendLeft \o NewByte)[i] = NewByte[i - Len(PendLeft)]
          BY <1>2, <2>2, <3>1, <3>2, <4>1, ConcatProperties
      <4>3. i - Len(PendLeft) = 1
          BY <1>2, <3>2
      <4> QED BY <1>2, <4>1, <4>2, <4>3
    <3>4. SaysNext(Total + 1, o_data_tx')
        BY <3>2, OfferSays
    <3>5. Len(got') + i = Total + 1
      <4>1. i = Len(PendLeft) + 1 /\ Len(got') + Len(PendLeft) = Total
          BY <1>3, <3>2
      <4>2. Len(got') \in Nat /\ Len(PendLeft) \in Nat
          BY <1>2, <1>3
      <4> QED BY <4>1, <4>2
    <3>6. o_data_tx' \in Byte
        BY <3>4 DEF SaysNext
    <3> QED BY <3>3, <3>4, <3>5, <3>6
  <2>3. Len(PendLeft) \in Nat /\ i \in Int
      BY <1>2
  <2> QED BY <2>1, <2>2, <2>3
<1> QED BY <1>4, <1>5, AnswerNext

LEMMA AnswerTurns ==
    ASSUME BitIsLong, TopInv, UartTopNext, Turns
    PROVE  AnswerInv'
<1>1. Len(Pend') = 0 /\ Len(got') = 0
    BY TurnsStep
<1> QED BY <1>1 DEF AnswerInv

-----------------------------------------------------------------------------
(* The line the receiver listens to: bytes c + 1 .. b of a transmission.   *)

Way(q, c, b) == [i \in 1 .. b - c |-> Bits(q[c + i])]

LEMMA WayIs ==
    ASSUME NEW q \in Seq(Byte), NEW c \in Nat, NEW b \in Nat, c <= b, b <= Len(q)
    PROVE  /\ Way(q, c, b) \in Seq(Data) /\ Len(Way(q, c, b)) = b - c
           /\ \A i \in 1 .. b - c : Way(q, c, b)[i] = Bits(q[c + i])
           /\ c = b => Way(q, c, b) = <<>>
<1>1. b - c \in Nat
    OBVIOUS
<1>2. ASSUME NEW i \in 1 .. b - c
      PROVE  Bits(q[c + i]) \in Data
  <2>1. c + i \in 1 .. Len(q)
      OBVIOUS
  <2>2. q[c + i] \in Byte
      BY <2>1, ElementOfSeq
  <2> QED BY <2>2, BitsType
<1>3. Way(q, c, b) \in Seq(Data) /\ Len(Way(q, c, b)) = b - c
  <2>1. Way(q, c, b) = [i \in 1 .. b - c |-> Bits(q[c + i])]
      BY DEF Way
  <2>2. Way(q, c, b) \in [1 .. b - c -> Data]
      BY <1>2, <2>1
  <2> QED BY <1>1, <2>2
<1>4. \A i \in 1 .. b - c : Way(q, c, b)[i] = Bits(q[c + i])
    BY DEF Way
<1>5. c = b => Way(q, c, b) = <<>>
    BY <1>3, EmptySeq
<1> QED BY <1>3, <1>4, <1>5

LEMMA OneOnWay ==
    ASSUME NEW q \in Seq(Byte), 1 <= Len(q)
    PROVE  Way(q, 0, 1) \in Seq(Data) /\ Len(Way(q, 0, 1)) = 1 /\ Way(q, 0, 1)[1] = Bits(q[1])
<1>1. 0 \in Nat /\ 1 \in Nat /\ 0 <= 1 /\ 1 - 0 = 1 /\ 0 + 1 = 1 /\ 1 \in 1 .. 1
    OBVIOUS
<1>2. /\ Way(q, 0, 1) \in Seq(Data) /\ Len(Way(q, 0, 1)) = 1 - 0
      /\ \A i \in 1 .. 1 - 0 : Way(q, 0, 1)[i] = Bits(q[0 + i])
    BY <1>1, WayIs
<1> QED BY <1>1, <1>2

LEMMA WayTail ==
    ASSUME NEW q \in Seq(Byte), NEW c \in Nat, NEW b \in Nat, c < b, b <= Len(q)
    PROVE  Tail(Way(q, c, b)) = Way(q, c + 1, b)
<1>1. /\ Way(q, c, b) \in Seq(Data) /\ Len(Way(q, c, b)) = b - c
      /\ \A i \in 1 .. b - c : Way(q, c, b)[i] = Bits(q[c + i])
  <2>1. c <= b /\ b <= Len(q)
      OBVIOUS
  <2> QED BY <2>1, WayIs
<1>2. /\ Way(q, c + 1, b) \in Seq(Data) /\ Len(Way(q, c + 1, b)) = b - (c + 1)
      /\ \A i \in 1 .. b - (c + 1) : Way(q, c + 1, b)[i] = Bits(q[c + 1 + i])
  <2>1. c + 1 \in Nat /\ c + 1 <= b
      OBVIOUS
  <2> QED BY <2>1, WayIs
<1>3. Way(q, c, b) # <<>>
  <2>1. Len(<<>>) = 0
      OBVIOUS
  <2> QED BY <1>1, <2>1
<1>4. /\ Tail(Way(q, c, b)) \in Seq(Data) /\ Len(Tail(Way(q, c, b))) = b - c - 1
      /\ \A i \in 1 .. b - c - 1 : Tail(Way(q, c, b))[i] = Way(q, c, b)[i + 1]
    BY <1>1, <1>3, HeadTailProperties
<1>5. ASSUME NEW i \in 1 .. b - c - 1
      PROVE  Tail(Way(q, c, b))[i] = Way(q, c + 1, b)[i]
  <2>1. i + 1 \in 1 .. b - c /\ c + (i + 1) = c + 1 + i /\ i \in 1 .. b - (c + 1)
      OBVIOUS
  <2> QED BY <1>1, <1>2, <1>4, <2>1
<1>6. Len(Tail(Way(q, c, b))) = Len(Way(q, c + 1, b)) /\ Len(Tail(Way(q, c, b))) = b - c - 1
    BY <1>2, <1>4
<1>7. \A i \in 1 .. Len(Tail(Way(q, c, b))) : Tail(Way(q, c, b))[i] = Way(q, c + 1, b)[i]
    BY <1>5, <1>6
<1> QED BY <1>2, <1>4, <1>6, <1>7, SeqEqual

LEMMA WayAppend ==
    ASSUME NEW q \in Seq(Byte), NEW c \in Nat, NEW b \in Nat, c <= b, b + 1 <= Len(q)
    PROVE  Append(Way(q, c, b), Bits(q[b + 1])) = Way(q, c, b + 1)
<1> DEFINE s == Append(Way(q, c, b), Bits(q[b + 1]))
<1>1. /\ Way(q, c, b) \in Seq(Data) /\ Len(Way(q, c, b)) = b - c
      /\ \A i \in 1 .. b - c : Way(q, c, b)[i] = Bits(q[c + i])
  <2>1. Len(q) \in Nat
      BY LenProperties
  <2>2. c <= b /\ b <= Len(q)
      BY <2>1
  <2> QED BY <2>2, WayIs
<1>2. /\ Way(q, c, b + 1) \in Seq(Data) /\ Len(Way(q, c, b + 1)) = b + 1 - c
      /\ \A i \in 1 .. b + 1 - c : Way(q, c, b + 1)[i] = Bits(q[c + i])
  <2>1. b + 1 \in Nat /\ c <= b + 1 /\ b + 1 <= Len(q)
      OBVIOUS
  <2>2. \A n \in Nat : c <= n /\ n <= Len(q) =>
            /\ Way(q, c, n) \in Seq(Data) /\ Len(Way(q, c, n)) = n - c
            /\ \A i \in 1 .. n - c : Way(q, c, n)[i] = Bits(q[c + i])
      BY WayIs
  <2> QED BY <2>1, <2>2
<1>3. Bits(q[b + 1]) \in Data
  <2>1. b + 1 \in 1 .. Len(q)
      OBVIOUS
  <2>2. q[b + 1] \in Byte
      BY <2>1, ElementOfSeq
  <2> QED BY <2>2, BitsType
<1>4. s \in Seq(Data) /\ Len(s) = b - c + 1
    BY <1>1, <1>3
<1>5. ASSUME NEW i \in 1 .. b - c + 1
      PROVE  s[i] = Way(q, c, b + 1)[i]
  <2>1. CASE i <= b - c
    <3>1. i \in 1 .. b - c /\ i \in 1 .. b + 1 - c
        BY <2>1
    <3>2. s[i] = Way(q, c, b)[i]
        BY <1>1, <1>3, <3>1
    <3> QED BY <1>1, <1>2, <3>1, <3>2
  <2>2. CASE i = b - c + 1
    <3>1. c + i = b + 1 /\ i \in 1 .. b + 1 - c
        BY <2>2
    <3>2. s[i] = Bits(q[b + 1])
        BY <1>1, <1>3, <2>2
    <3> QED BY <1>2, <3>1, <3>2
  <2>3. i <= b - c \/ i = b - c + 1
    <3>1. b - c \in Nat
        OBVIOUS
    <3> QED BY <3>1
  <2> QED BY <2>1, <2>2, <2>3
<1>6. Len(s) = Len(Way(q, c, b + 1))
  <2>1. b - c + 1 = b + 1 - c
      OBVIOUS
  <2> QED BY <1>2, <1>4, <2>1
<1>7. \A i \in 1 .. Len(s) : s[i] = Way(q, c, b + 1)[i]
    BY <1>4, <1>5
<1> HIDE DEF s
<1>8. s = Way(q, c, b + 1)
    BY <1>2, <1>4, <1>6, <1>7, SeqEqual
<1> QED BY <1>8 DEF s

LEMMA UnderwayKeeps ==
    ASSUME BitIsLong, KnownRequests, TopInv, UartTopNext, Keeps
    PROVE  /\ ~(Shift /\ ShiftNext) => Underway' = L!Undelivered
           /\ Shift /\ ShiftNext => /\ Bits(Head(out')) \in Data
                                    /\ Underway' = Append(L!Undelivered, Bits(Head(out')))
<1>1. /\ Told' = Told /\ Told \in Seq(Byte) /\ o_rx_done \in {0, 1}
      /\ Counted \in Nat /\ Begun \in Nat /\ Counted <= Begun /\ Begun <= Len(Told) /\ Len(Told) \in Nat
      /\ o_rx_done = 1 => Counted < Begun
      /\ Counted' = Counted + o_rx_done
      /\ Begun' = Begun + (IF Shift /\ ShiftNext THEN 1 ELSE 0)
  <2>1. HostTypes
      BY DEF TopInv
  <2>2. Told \in Seq(Byte) /\ Len(Told) \in Nat
      BY <2>1, ToldIs, LenProperties
  <2> QED BY <2>2, HostKeeps, KeepFacts, CountedIs, ByteDelivered, BegunKeeps DEF KeepsPace
<1>2. Underway = Way(Told, Counted, Begun) /\ Underway' = Way(Told, Counted', Begun')
    BY <1>1 DEF Underway, Way
<1>3. L!Undelivered = Way(Told, Counted', Begun) /\ Counted' \in Nat /\ Counted' <= Begun
  <2>1. CASE o_rx_done = 1
    <3>1. Counted' = Counted + 1 /\ Counted < Begun
        BY <1>1, <2>1
    <3>2. Tail(Way(Told, Counted, Begun)) = Way(Told, Counted + 1, Begun)
        BY <1>1, <3>1, WayTail
    <3> QED BY <1>1, <1>2, <2>1, <3>1, <3>2 DEF L!Undelivered
  <2>2. CASE o_rx_done = 0
    <3>1. Counted' = Counted
        BY <1>1, <2>2
    <3> QED BY <1>1, <1>2, <2>2, <3>1 DEF L!Undelivered
  <2> QED BY <1>1, <2>1, <2>2
<1>4. CASE Shift /\ ShiftNext
  <2>1. Begun' = Begun + 1 /\ Begun + 1 <= Len(Told)
    <3>1. Begun = Len(Told) + 1 - Len(out) /\ Len(out) >= 2 /\ Len(out) \in Nat
        BY <1>4, ShiftCases, CountedIs DEF ShiftNext
    <3> QED BY <1>1, <1>4, <3>1
  <2>2. Head(out') = Told[Begun + 1] /\ Told[Begun + 1] \in Byte
    <3>1. /\ out' = Tail(out) /\ out' \in Seq(Byte) /\ out' # <<>> /\ Len(out) >= 2 /\ Len(out) \in Nat
          /\ \A i \in 1 .. Len(out) - 1 : Tail(out)[i] = out[i + 1]
        BY <1>4, ShiftCases DEF ShiftNext
    <3>2. Head(out') = out[2]
      <4>1. Head(out') = out'[1]
          BY <3>1
      <4>2. 1 \in 1 .. Len(out) - 1 /\ 1 + 1 = 2
          BY <3>1
      <4> QED BY <3>1, <4>1, <4>2
    <3>3. out[2] = Told[Len(Told) - Len(out) + 2]
      <4>1. 2 \in 1 .. Len(out) /\ out # <<>>
          BY <1>4, <3>1, ShiftCases
      <4> QED BY <4>1 DEF TopInv, SendInv
    <3>4. Len(Told) - Len(out) + 2 = Begun + 1
      <4>1. Begun = Len(Told) + 1 - Len(out)
          BY <1>4, ShiftCases, CountedIs
      <4> QED BY <1>1, <3>1, <4>1
    <3>5. Begun + 1 \in 1 .. Len(Told)
        BY <1>1, <2>1
    <3> QED BY <1>1, <3>2, <3>3, <3>4, <3>5, ElementOfSeq
  <2>3. Append(Way(Told, Counted', Begun), Bits(Told[Begun + 1])) = Way(Told, Counted', Begun + 1)
      BY <1>1, <1>3, <2>1, WayAppend
  <2> QED BY <1>2, <1>3, <1>4, <2>1, <2>2, <2>3, BitsType
<1>5. CASE ~(Shift /\ ShiftNext)
  <2>1. Begun' = Begun
      BY <1>1, <1>5
  <2> QED BY <1>2, <1>3, <1>5, <2>1
<1> QED BY <1>4, <1>5

(* What the receiver's line is in a step of the host.                      *)
LEMMA LevelHere ==
    ASSUME TopInv, UartTopNext
    PROVE  L!RxClock(L!Level)
<1>1. L!Level = Line
  <2>1. bit \in 0 .. 9
      BY DEF TopInv, HostTypes
  <2>2. CASE out = <<>>
    <3>1. LineState = "idle" /\ Line = 1
        BY <2>2 DEF LineState, Line
    <3> QED BY <3>1 DEF L!Level
  <2>3. CASE out # <<>>
    <3>1. LineState = "frame" /\ LineData = Bits(Head(out))
        BY <2>3 DEF LineState, LineData
    <3>2. L!Level = CASE bit = 0 -> 0
                      [] bit \in 1 .. 8 -> LineData[bit]
                      [] bit = 9 -> 1
                      [] OTHER -> L!ParityBit(LineData)
        BY <3>1, LineNumbers, Numbers DEF L!Level
    <3>3. CASE bit = 0
        BY <2>3, <3>2, <3>3 DEF Line
    <3>4. CASE bit \in 1 .. 8
        BY <2>3, <3>1, <3>2, <3>4 DEF Line
    <3>5. CASE bit = 9
        BY <2>3, <3>2, <3>5 DEF Line
    <3>6. bit = 0 \/ bit \in 1 .. 8 \/ bit = 9
        BY <2>1
    <3> QED BY <3>3, <3>4, <3>5, <3>6
  <2> QED BY <2>2, <2>3
<1>2. RxClock(Line)
    BY TopClock
<1>3. L!Sample(Line) /\ L!RxBaud /\ L!RxMove
    BY <1>2 DEF RxClock, Sample, RxBaud, RxMove, RxAfter, L!Sample, L!RxBaud, L!RxMove, L!RxAfter
<1>4. L!RxIdle \/ L!RxStart \/ L!RxData \/ L!RxParity \/ L!RxEnd
    BY <1>2 DEF RxClock, RxIdle, StartSeen, RxStart, FalseStart, RxData, RxParity, ParityRight,
                RxEnd, RxDone, L!RxIdle, L!StartSeen, L!RxStart, L!FalseStart, L!RxData, L!RxParity,
                L!ParityRight, L!RxEnd, L!RxDone, NoData, L!NoData
<1> QED BY <1>1, <1>3, <1>4 DEF L!RxClock

(* The host sends on.                                                      *)
LEMMA ShiftLine ==
    ASSUME BitIsLong, KnownRequests, TopInv, UartTopNext, Shift, Take
    PROVE  (\E d \in L!Data : L!StartFrame(d)) \/ L!NextBit \/ L!Pause \/ L!Hold
<1>1. Keeps
    BY DEF Keeps
<1>2. /\ out # <<>> /\ out \in Seq(Byte) /\ Len(out) >= 1 /\ Len(out) \in Nat
      /\ step > 0 /\ left > 0 /\ left \in Nat /\ got = <<>> /\ timer = 0 /\ waiting' = 0
      /\ ShiftHolds \/ ShiftBit \/ ShiftNext \/ ShiftLast
    BY ShiftCases
<1>3. /\ ~ShiftNext => Underway' = L!Undelivered /\ Begun' = Begun
      /\ ShiftNext => /\ Bits(Head(out')) \in Data /\ Begun <= 3
                      /\ Underway' = Append(L!Undelivered, Bits(Head(out')))
                      /\ Begun' = Begun + 1
  <2>1. Begun \in Nat
      BY CountedIs
  <2> QED BY <1>1, <2>1, UnderwayKeeps, BegunKeeps
<1>4. LineState = "frame" /\ LineLeft = left /\ LineData = Bits(Head(out))
    BY <1>2 DEF LineState, LineLeft, LineData
<1>5. CASE ShiftHolds
  <2>1. out' = out /\ bit' = bit /\ left' = left - 1 /\ left > 1 /\ ~ShiftNext
      BY <1>2, <1>5 DEF ShiftHolds, ShiftNext
  <2>2. LineState' = "frame" /\ LineLeft' = left - 1 /\ LineData' = LineData
      BY <1>2, <1>4, <2>1 DEF LineState, LineLeft, LineData
  <2>3. L!Hold
      BY <1>2, <1>3, <1>4, <2>1, <2>2 DEF L!Hold
  <2> QED BY <2>3
<1>6. CASE ShiftBit
  <2>1. out' = out /\ bit' = bit + 1 /\ left' = CYCLE /\ left = 1 /\ bit < 9 /\ ~ShiftNext
      BY <1>2, <1>6 DEF ShiftBit, ShiftNext
  <2>2. LineState' = "frame" /\ LineLeft' = CYCLE /\ LineData' = LineData
      BY <1>2, <1>4, <2>1 DEF LineState, LineLeft, LineData
  <2>3. L!NextBit
      BY <1>3, <1>4, <2>1, <2>2, LineNumbers DEF L!NextBit
  <2> QED BY <2>3
<1>7. CASE ShiftNext
  <2>1. /\ out' # <<>> /\ bit' = 0 /\ left' = CYCLE /\ left = 1 /\ bit = 9
      BY <1>7 DEF ShiftNext
  <2>2. LineState' = "frame" /\ LineLeft' = CYCLE /\ LineData' = Bits(Head(out'))
      BY <2>1 DEF LineState, LineLeft, LineData
  <2>3. L!FrameOver
      BY <1>4, <2>1, LineNumbers DEF L!FrameOver
  <2>4. Begun < 4
    <3>1. Begun \in Nat
        BY CountedIs
    <3> QED BY <1>3, <1>7, <3>1
  <2>5. L!StartFrame(Bits(Head(out')))
      BY <1>3, <1>7, <2>1, <2>2, <2>3, <2>4 DEF L!StartFrame
  <2>6. Bits(Head(out')) \in L!Data
      BY <1>3, <1>7 DEF Data, L!Data
  <2> QED BY <2>5, <2>6
<1>8. CASE ShiftLast
  <2>1. /\ out' = <<>> /\ bit' = 0 /\ left = 1 /\ bit = 9 /\ Len(out) = 1 /\ ~ShiftNext
      BY <1>8 DEF ShiftLast, ShiftNext
  <2>2. ~Answered'
    <3>1. got' = <<>>
        BY <1>2 DEF Take, ByteHeard, SampleDue
    <3>2. Need' = Need /\ Need > 0
      <4>1. step \in 0 .. 5
          BY DEF TopInv, HostTypes
      <4> QED BY <1>1, <1>2, <4>1, HostKeeps DEF Need
    <3>3. Len(got') = 0
        BY <3>1
    <3> QED BY <3>2, <3>3 DEF Answered
  <2>3. LineState' = "idle" /\ LineLeft' = CYCLE
    <3>1. 0 < CYCLE /\ CYCLE - 0 = CYCLE
        BY Numbers
    <3> QED BY <1>2, <2>1, <2>2, <3>1 DEF LineState, LineLeft
  <2>4. LineData' = LineData
    <3>1. Head(out) = out[1]
        BY <1>2
    <3>2. out[1] = Told[Len(Told) - Len(out) + 1]
      <4>1. 1 \in 1 .. Len(out)
          BY <1>2
      <4> QED BY <1>2, <4>1 DEF TopInv, SendInv
    <3>3. Len(Told) - Len(out) + 1 = Len(Told)
      <4>1. Len(Told) = 1 \/ Len(Told) = 4
          BY CountedIs
      <4> QED BY <2>1, <4>1
    <3>4. Told' = Told
        BY <1>1, HostKeeps
    <3> QED BY <1>4, <2>1, <3>1, <3>2, <3>3, <3>4 DEF LineData
  <2>5. L!FrameOver
      BY <1>4, <2>1, LineNumbers DEF L!FrameOver
  <2>6. L!Pause
      BY <1>3, <2>1, <2>3, <2>4, <2>5 DEF L!Pause
  <2> QED BY <2>6
<1> QED BY <1>2, <1>5, <1>6, <1>7, <1>8

(* The host waits.                                                         *)
LEMMA WaitLine ==
    ASSUME BitIsLong, KnownRequests, TopInv, UartTopNext, Wait, Take
    PROVE  L!Hold
<1>1. Keeps
    BY DEF Keeps
<1>2. /\ out = <<>> /\ out' = <<>> /\ bit' = bit /\ waiting \in Nat /\ timer <= waiting
      /\ waiting' = (IF Answered THEN 0 ELSE waiting + 1) /\ Told' = Told /\ Need' = Need
      /\ CYCLE \in Nat /\ CYCLE >= 4 /\ ~Shift
    BY <1>1, HostKeeps, Numbers DEF Wait, Shift, TopInv, HostTypes, SendInv
<1>3. Underway' = L!Undelivered /\ Begun' = Begun
  <2>1. Begun \in Nat
      BY CountedIs
  <2> QED BY <1>1, <1>2, <2>1, UnderwayKeeps, BegunKeeps
<1>4. LineState = "idle" /\ LineState' = "idle" /\ LineData' = LineData
    BY <1>2 DEF LineState, LineData
<1>5. LineLeft' = IF LineLeft > 0 THEN LineLeft - 1 ELSE 0
  <2>1. CASE Answered
    <3>1. timer = 0 /\ AtRest /\ ~ByteHeard
        BY <2>1, AllAnswered
    <3>2. timer' = 0 /\ got' = got
        BY <3>1, HearAtRest DEF Take
    <3>3. Answered'
        BY <1>2, <2>1, <3>2 DEF Answered
    <3>4. LineLeft' = 0 /\ LineLeft = 0
        BY <1>2, <2>1, <3>3 DEF LineLeft
    <3> QED BY <3>4
  <2>2. CASE ~Answered
    <3>1. waiting' = waiting + 1
        BY <1>2, <2>2
    <3>2. waiting < CYCLE => ~Answered'
      <4> SUFFICES ASSUME waiting < CYCLE, Answered' PROVE FALSE
          OBVIOUS
      <4>1. ~ByteHeard
        <5> SUFFICES ASSUME ByteHeard PROVE FALSE
            OBVIOUS
        <5>1. AtRest /\ timer > 0
            BY PendNext
        <5>2. timer = 9 * CYCLE + CYCLE \div 2 /\ CYCLE \div 2 \in Nat
            BY <5>1, HearAtRest, Numbers
        <5> QED BY <1>2, <5>2
      <4>2. got' = got /\ timer' = 0 /\ Len(got') = Need'
          BY <4>1 DEF Take, Answered
      <4>3. timer # 0
          BY <1>2, <2>2, <4>2 DEF Answered
      <4>4. timer \in Nat
          BY TxFacts
      <4>5. timer' = timer + 1
          BY <4>1, <4>3 DEF UartTopNext, Listen
      <4> QED BY <4>2, <4>4, <4>5
    <3>3. LineLeft = IF waiting < CYCLE THEN CYCLE - waiting ELSE 0
        BY <1>2, <2>2 DEF LineLeft
    <3>4. LineLeft' = IF ~Answered' /\ waiting + 1 < CYCLE THEN CYCLE - (waiting + 1) ELSE 0
        BY <1>2, <3>1 DEF LineLeft
    <3>5. CASE waiting < CYCLE
      <4>1. LineLeft = CYCLE - waiting /\ LineLeft > 0
          BY <1>2, <3>3, <3>5
      <4>2. LineLeft' = CYCLE - waiting - 1
          BY <1>2, <3>2, <3>4, <3>5
      <4> QED BY <1>2, <4>1, <4>2
    <3>6. CASE ~(waiting < CYCLE)
      <4>1. LineLeft = 0 /\ LineLeft' = 0
          BY <1>2, <3>3, <3>4, <3>6
      <4> QED BY <4>1
    <3> QED BY <3>5, <3>6
  <2> QED BY <2>1, <2>2
<1> QED BY <1>2, <1>3, <1>4, <1>5 DEF L!Hold

(* The host turns to the next transmission or to the next request.         *)
LEMMA TurnLine ==
    ASSUME BitIsLong, TopInv, UartTopNext, Turns
    PROVE  (\E d \in L!Data : L!StartFrame(d)) \/ L!Hold
<1>1. /\ Answered /\ o_rx_done = 0 /\ got' = <<>> /\ timer' = 0
      /\ Begun = Counted /\ Begun' = 1 /\ Counted \in Nat
    BY HostTurns, AllAnswered, BegunTurns, TurnsStep, CountedIs
<1>2. out = <<>> /\ LineState = "idle" /\ LineLeft = 0
    BY <1>1 DEF Answered, LineState, LineLeft
<1>3. Underway = <<>> /\ L!Undelivered = <<>>
  <2>1. Underway = [i \in 1 .. Begun - Counted |-> Bits(Told[Counted + i])]
      BY DEF Underway
  <2>2. Begun - Counted = 0
      BY <1>1
  <2>3. Underway = [i \in 1 .. 0 |-> Bits(Told[Counted + i])]
      BY <2>1, <2>2
  <2>4. Underway = <<>>
      BY <2>3
  <2> QED BY <1>1, <2>4 DEF L!Undelivered
<1>4. CASE Send
  <2>1. /\ out' \in Seq(Byte) /\ out' # <<>> /\ Told' = out' /\ bit' = 0 /\ left' = CYCLE
        /\ Counted' = 0 /\ Len(out') \in {1, 4}
      BY <1>4, SendsAll, BegunTurns
  <2>2. LineState' = "frame" /\ LineLeft' = CYCLE /\ LineData' = Bits(Head(out'))
      BY <2>1 DEF LineState, LineLeft, LineData
  <2>3. Head(out') = Told'[1] /\ Head(out') \in Byte /\ Bits(Head(out')) \in Data
    <3>1. Head(out') \in Byte /\ Head(out') = out'[1]
        BY <2>1
    <3> QED BY <2>1, <3>1, BitsType
  <2>4. Underway' = Append(L!Undelivered, Bits(Head(out')))
    <3>1. Underway' = Way(Told', Counted', Begun')
        BY DEF Underway, Way
    <3>2. Told' \in Seq(Byte) /\ Len(Told') \in Nat /\ 1 <= Len(Told')
        BY <2>1
    <3>3. /\ Way(Told', 0, 1) \in Seq(Data) /\ Len(Way(Told', 0, 1)) = 1
          /\ Way(Told', 0, 1)[1] = Bits(Told'[1])
        BY <3>2, OneOnWay
    <3>4. Underway' \in Seq(Data) /\ Len(Underway') = 1 /\ Underway'[1] = Bits(Told'[1])
        BY <1>1, <2>1, <3>1, <3>3
    <3>5. Append(<<>>, Bits(Head(out'))) \in Seq(Data) /\ Len(Append(<<>>, Bits(Head(out')))) = 1
          /\ Append(<<>>, Bits(Head(out')))[1] = Bits(Head(out'))
        BY <2>3
    <3>6. \A i \in 1 .. 1 : Underway'[i] = Append(<<>>, Bits(Head(out')))[i]
        BY <2>3, <3>4, <3>5
    <3>7. Underway' = Append(<<>>, Bits(Head(out')))
        BY <3>4, <3>5, <3>6, SeqEqual
    <3> QED BY <1>3, <3>7
  <2>5. L!StartFrame(Bits(Head(out')))
      BY <1>1, <1>2, <2>1, <2>2, <2>4 DEF L!StartFrame
  <2>6. Bits(Head(out')) \in L!Data
      BY <2>3 DEF Data, L!Data
  <2> QED BY <2>5, <2>6
<1>5. CASE NextRequest
  <2>1. /\ step = 5 /\ step' = 0 /\ out' = <<>> /\ bit' = bit /\ Begun = 1 /\ Counted' = 1
      BY <1>2, <1>5, BegunTurns DEF NextRequest
  <2>2. Answered'
    <3>1. Len(got') = 0 /\ Need' = 0
        BY <1>1, <2>1 DEF Need
    <3> QED BY <1>1, <2>1, <3>1 DEF Answered
  <2>3. LineState' = "idle" /\ LineLeft' = 0
      BY <2>1, <2>2 DEF LineState, LineLeft
  <2>4. LineData' = LineData
    <3>1. Told' = <<READ>> /\ Told = <<READ>>
        BY <2>1, ToldIs DEF TopInv, Told
    <3> QED BY <1>2, <2>1, <3>1 DEF LineData
  <2>5. Underway' = <<>>
    <3>1. Underway' = [i \in 1 .. Begun' - Counted' |-> Bits(Told'[Counted' + i])]
        BY DEF Underway
    <3>2. Begun' - Counted' = 0
        BY <1>1, <2>1
    <3>3. Underway' = [i \in 1 .. 0 |-> Bits(Told'[Counted' + i])]
        BY <3>1, <3>2
    <3> QED BY <3>3
  <2>6. L!Hold
      BY <1>1, <1>2, <1>3, <2>1, <2>3, <2>4, <2>5 DEF L!Hold
  <2> QED BY <2>6
<1> QED BY <1>4, <1>5 DEF Turns

LEMMA LineNextHere ==
    ASSUME BitIsLong, KnownRequests, TopInv, UartTopNext
    PROVE  L!LineNext
<1>1. (\E d \in L!Data : L!StartFrame(d)) \/ L!NextBit \/ L!Pause \/ L!Hold
    BY HostCases, ShiftLine, WaitLine, TurnLine DEF Keeps
<1> QED BY <1>1, LevelHere DEF L!LineNext

LEMMA RxLineInvHere ==
    ASSUME BitIsLong, KnownRequests, TopInv, UartTopNext
    PROVE  L!RxLineInv'
BY LineNextHere, ClocksAgreeHere, LineNumbers, UartAssumption, Numbers, L!RxLineInvStep DEF TopInv

-----------------------------------------------------------------------------
(* The last bit of a transmission and the first clocks of the answer.      *)

(* The last byte is in when its stop bit is half over.                     *)
LEMMA LastDelivered ==
    ASSUME BitIsLong, TopInv, out # <<>>, o_rx_done = 1, Begun = Counted + 1
    PROVE  bit = 9 /\ left + CYCLE \div 2 + 8 <= CYCLE
<1>1. L!RxInv /\ L!DataInv /\ L!ExpectedInv /\ bit \in 0 .. 9 /\ left \in 0 .. CYCLE
    BY DEF TopInv, L!RxLineInv, HostTypes
<1>2. /\ L!RxTime = 9 * CYCLE + CYCLE \div 2 + 1 /\ L!Busy
  <2>1. L!RxTime = L!Begin(L!StopBit) + L!Half + 1 /\ L!Busy
      BY <1>1, UartAssumption, Numbers, L!DoneFlag
  <2> QED BY <2>1, LineNumbers
<1>3. L!Undone
  <2>1. ~L!Done
    <3>1. L!Done <=> L!RxTime > L!Begin(L!StopBit) + L!Half + 1
        BY <1>1, UartAssumption, Numbers, L!RxTimes
    <3> QED BY <1>2, <3>1, LineNumbers, Numbers
  <2>2. L!Receiving
    <3>1. ~(L!RxTime <= L!Half)
        BY <1>2, LineNumbers, Numbers
    <3> QED BY <1>2, <3>1 DEF L!Receiving, L!FalseStarting
  <2> QED BY <2>1, <2>2 DEF L!Undone
<1>4. ~L!Fresh
  <2>1. Len(Underway) = 1
    <3>1. /\ Told \in Seq(Byte) /\ Counted \in Nat /\ Begun \in Nat /\ Counted <= Begun /\ Begun <= Len(Told)
        BY ToldIs, CountedIs DEF TopInv
    <3>2. Underway = Way(Told, Counted, Begun)
        BY DEF Underway, Way
    <3>3. Len(Way(Told, Counted, Begun)) = Begun - Counted
        BY <3>1, WayIs
    <3> QED BY <3>1, <3>2, <3>3
  <2>2. Len(Underway) = L!Owed
      BY <1>1 DEF L!ExpectedInv
  <2> QED BY <1>3, <2>1, <2>2 DEF L!Owed
<1>5. ~(L!Age < L!RxTime + 7)
  <2>1. LineState = "frame"
      BY DEF LineState
  <2> QED BY <1>2, <1>4, <2>1 DEF L!Fresh
<1>6. L!Age = bit * CYCLE + CYCLE - left
    BY DEF L!Age, L!Edge, LineLeft
<1>7. bit = 9
  <2> SUFFICES ASSUME bit <= 8 PROVE FALSE
      BY <1>1
  <2>1. bit * CYCLE <= 8 * CYCLE /\ bit * CYCLE \in Nat
    <3>1. bit \in 0 .. 8 /\ CYCLE \in Nat
        BY <1>1, Numbers
    <3> QED BY <3>1
  <2>2. 8 * CYCLE + CYCLE = 9 * CYCLE /\ CYCLE \in Nat /\ CYCLE \div 2 \in Nat
      BY Numbers
  <2> QED BY <1>1, <1>2, <1>5, <1>6, <2>1, <2>2
<1>8. left + CYCLE \div 2 + 8 <= CYCLE
  <2>1. L!Age = 9 * CYCLE + CYCLE - left
      BY <1>6, <1>7
  <2>2. CYCLE \in Nat /\ CYCLE \div 2 \in Nat /\ 9 * CYCLE \in Nat /\ left \in Nat
      BY <1>1, Numbers
  <2> QED BY <1>2, <1>5, <2>1, <2>2
<1> QED BY <1>7, <1>8

(* A clock of the answer's handshake.                                      *)
LEMMA ProgressStep ==
    ASSUME BitIsLong, TopInv, UartTopNext, AtRest, timer = 0
    PROVE  /\ Progress \in Nat /\ Progress' \in Nat /\ Progress' <= Progress + 1
           /\ Progress <= CYCLE \div 2 + 1 => AtRest'
           /\ tx_baud_valid = 0 /\ o_data_valid = 0 => Progress' <= 1 /\ AtRest'
<1>1. /\ tx_state \in {"IDLE", "START"} /\ o_data_valid \in {0, 1} /\ tx_baud_valid \in {0, 1}
      /\ tx_baud_cnt \in Nat /\ CYCLE \div 2 \in Nat
      /\ o_data_valid' \in {0, 1}
      /\ tx_baud_valid = 0 => tx_state = "IDLE"
  <2>1. tx_state # "END"
    <3>1. 9 * CYCLE # 0
        BY Numbers
    <3> QED BY <3>1, TxFacts
  <2>2. o_data_valid' \in {0, 1}
      BY TopClock DEF IInv, TypeOK, Bit
  <2>3. tx_state \in {"IDLE", "START"}
      BY <2>1 DEF AtRest
  <2> QED BY <2>1, <2>2, <2>3, TxFacts, Numbers
<1>2. CASE tx_baud_valid = 0 /\ o_data_valid = 0
  <2>1. tx_baud_valid' = 0 /\ tx_state' = "IDLE" /\ AtRest'
      BY <1>1, <1>2, RestNext
  <2>2. Progress = 0 /\ Progress' \in {0, 1}
      BY <1>2, <2>1 DEF Progress
  <2> QED BY <2>1, <2>2
<1>3. CASE tx_baud_valid = 0 /\ o_data_valid = 1
  <2>1. tx_baud_valid' = 1 /\ tx_state' = "IDLE" /\ AtRest'
      BY <1>1, <1>3, RestNext
  <2>2. Progress = 1 /\ Progress' = 2
      BY <1>3, <2>1 DEF Progress
  <2> QED BY <1>3, <2>1, <2>2
<1>4. CASE tx_baud_valid = 1 /\ tx_state = "IDLE"
  <2>1. tx_baud_valid' = 1 /\ tx_state' = "START" /\ tx_baud_cnt' = 1 /\ AtRest'
      BY <1>1, <1>4, RestNext
  <2>2. Progress = 2 /\ Progress' = 3
      BY <1>4, <2>1 DEF Progress
  <2> QED BY <1>4, <2>1, <2>2
<1>5. CASE tx_baud_valid = 1 /\ tx_state = "START"
  <2>1. /\ tx_baud_valid' = 1 /\ tx_state' = "START" /\ tx_baud_cnt' = tx_baud_cnt + 1
        /\ tx_baud_cnt # CYCLE \div 2 => AtRest'
      BY <1>1, <1>5, RestNext
  <2>2. Progress = 2 + tx_baud_cnt /\ Progress' = 2 + (tx_baud_cnt + 1)
      BY <1>5, <2>1 DEF Progress
  <2>3. Progress <= CYCLE \div 2 + 1 => tx_baud_cnt # CYCLE \div 2
      BY <1>1, <2>2
  <2> QED BY <1>1, <1>5, <2>1, <2>2, <2>3
<1> QED BY <1>1, <1>2, <1>3, <1>4, <1>5

LEMMA SendKeeps ==
    ASSUME BitIsLong, KnownRequests, TopInv, UartTopNext, Keeps
    PROVE  SendInv'
<1>1. /\ timer \in Nat /\ waiting \in Nat /\ CYCLE \in Nat /\ CYCLE \div 2 \in Nat
      /\ step' = step /\ Told' = Told /\ Len(Told) \in Nat
  <2>1. Len(Told) = 1 \/ Len(Told) = 4
      BY CountedIs
  <2> QED BY <2>1, TxFacts, Numbers, HostKeeps DEF TopInv, HostTypes
<1>2. CASE Wait
  <2>1. /\ out = <<>> /\ out' = <<>> /\ bit' = bit /\ bit = 0 /\ timer <= waiting
        /\ waiting' = IF Answered THEN 0 ELSE waiting + 1
      BY <1>2 DEF Wait, TopInv, SendInv
  <2>2. timer' <= waiting'
    <3>1. CASE Answered
      <4>1. timer = 0 /\ AtRest
          BY <3>1, AllAnswered
      <4>2. timer' = 0
          BY <4>1, HearAtRest
      <4> QED BY <2>1, <3>1, <4>2
    <3>2. CASE ~Answered
      <4>1. timer' \in {0, timer + 1}
          BY <1>1 DEF UartTopNext, Listen
      <4> QED BY <1>1, <2>1, <3>2, <4>1
    <3> QED BY <3>1, <3>2
  <2> QED BY <2>1, <2>2 DEF SendInv
<1>3. CASE Shift
  <2>1. /\ out # <<>> /\ out \in Seq(Byte) /\ Len(out) \in Nat /\ Len(out) >= 1
        /\ step > 0 /\ left > 0 /\ left \in Nat /\ got = <<>> /\ timer = 0 /\ waiting' = 0
        /\ ShiftHolds \/ ShiftBit \/ ShiftNext \/ ShiftLast
        /\ \A i \in 1 .. Len(out) - 1 : Tail(out)[i] = out[i + 1]
        /\ Len(Tail(out)) = Len(out) - 1
      BY <1>3, ShiftCases
  <2>2. /\ Len(out) <= Len(Told)
        /\ \A i \in 1 .. Len(out) : out[i] = Told[Len(Told) - Len(out) + i]
        /\ Taken => /\ Len(out) = 1 /\ bit = 9 /\ AtRest
                    /\ left + Progress + CYCLE \div 2 + 8 <= CYCLE
      BY <2>1 DEF TopInv, SendInv
  <2>3. AtRest
      BY <2>2, Untaken
  <2>4. timer' = 0 /\ got' = <<>>
      BY <2>1, <2>3, HearAtRest, HostKeeps DEF Take
  <2>5. CASE ShiftLast
      BY <2>1, <2>4, <2>5 DEF SendInv, ShiftLast
  <2>6. CASE ShiftHolds \/ ShiftBit \/ ShiftNext
    <3>1. out' # <<>> /\ left' > 0
        BY <1>1, <2>1, <2>6, Numbers DEF ShiftHolds, ShiftBit, ShiftNext
    <3>2. /\ Len(out') <= Len(Told)
          /\ \A i \in 1 .. Len(out') : out'[i] = Told[Len(Told) - Len(out') + i]
      <4>1. CASE ShiftNext
        <5>1. out' = Tail(out) /\ Len(out') = Len(out) - 1
            BY <2>1, <4>1 DEF ShiftNext
        <5>2. ASSUME NEW i \in 1 .. Len(out')
              PROVE  out'[i] = Told[Len(Told) - Len(out') + i]
          <6>1. i \in 1 .. Len(out) - 1 /\ i + 1 \in 1 .. Len(out)
              BY <2>1, <5>1
          <6>2. out'[i] = out[i + 1] /\ out[i + 1] = Told[Len(Told) - Len(out) + (i + 1)]
              BY <2>1, <2>2, <5>1, <6>1
          <6>3. Len(Told) - Len(out) + (i + 1) = Len(Told) - Len(out') + i
              BY <1>1, <2>1, <5>1
          <6> QED BY <6>2, <6>3
        <5> QED BY <1>1, <2>1, <2>2, <5>1, <5>2
      <4>2. CASE ShiftHolds \/ ShiftBit
        <5>1. out' = out
            BY <4>2 DEF ShiftHolds, ShiftBit
        <5> QED BY <2>2, <5>1
      <4> QED BY <2>6, <4>1, <4>2
    <3>3. ASSUME Taken'
          PROVE  /\ Len(out') = 1 /\ bit' = 9 /\ AtRest'
                 /\ left' + Progress' + CYCLE \div 2 + 8 <= CYCLE
      <4>1. /\ Progress \in Nat /\ Progress' \in Nat /\ Progress' <= Progress + 1
            /\ Progress <= CYCLE \div 2 + 1 => AtRest'
            /\ tx_baud_valid = 0 /\ o_data_valid = 0 => Progress' <= 1 /\ AtRest'
          BY <2>1, <2>3, ProgressStep
      <4>2. ASSUME Len(out) = 1, bit = 9
            PROVE  Len(out') = 1 /\ bit' = 9 /\ left' = left - 1 /\ left >= 1
        <5>1. ShiftHolds
            BY <2>6, <4>2 DEF ShiftBit, ShiftNext
        <5> QED BY <2>1, <4>2, <5>1 DEF ShiftHolds
      <4>3. CASE Taken
        <5>1. Len(out') = 1 /\ bit' = 9 /\ left' = left - 1 /\ left >= 1
            BY <2>2, <4>2, <4>3
        <5>2. left + Progress + CYCLE \div 2 + 8 <= CYCLE
            BY <2>2, <4>3
        <5>3. CYCLE <= 2 * (CYCLE \div 2) + 1
            BY Numbers
        <5>4. Progress <= CYCLE \div 2 + 1
            BY <1>1, <2>1, <4>1, <5>1, <5>2, <5>3
        <5>5. left' + Progress' + CYCLE \div 2 + 8 <= CYCLE
          <6>1. left \in Nat /\ CYCLE \in Nat /\ CYCLE \div 2 \in Nat
              BY <1>1, <2>1
          <6>2. Progress \in Nat /\ Progress' \in Nat /\ Progress' <= Progress + 1
              BY <4>1
          <6>3. \A l, p, q, h, c \in Nat :
                    l >= 1 /\ q <= p + 1 /\ l + p + h + 8 <= c => (l - 1) + q + h + 8 <= c
              OBVIOUS
          <6>4. (left - 1) + Progress' + CYCLE \div 2 + 8 <= CYCLE
              BY <5>1, <5>2, <6>1, <6>2, <6>3
          <6> QED BY <5>1, <6>4
        <5> QED BY <4>1, <5>1, <5>4, <5>5
      <4>4. CASE ~Taken
        <5>1. o_rx_done = 1 /\ Begun = Counted + 1 /\ Len(out) = 1
          <6>1. /\ Counted' = Counted + o_rx_done /\ o_rx_done \in {0, 1} /\ Counted \in Nat
                /\ Begun \in Nat /\ Begun <= Len(Told) /\ Counted <= Begun
                /\ Begun = Len(Told) + 1 - Len(out)
                /\ o_rx_done = 1 => Counted < Begun
              BY <2>1, KeepsStep, KeepFacts, CountedIs, ByteDelivered DEF KeepsPace
          <6>2. Counted' = Len(Told)
              BY <1>1, <3>3 DEF Counted
          <6>3. Counted < Len(Told)
            <7>1. step \in 1 .. 3 => Counted < 4 /\ Len(Told) = 4
              <8> SUFFICES ASSUME step \in 1 .. 3 PROVE Counted < 4 /\ Len(Told) = 4
                  OBVIOUS
              <8>1. Counted = rx_byte_cnt - 4 * (step - 1)
                  BY <4>4, CountedIs
              <8>2. rx_byte_cnt \in 4 * (step - 1) .. 4 * step - 1
                  BY <4>4 DEF TopInv, StepInv
              <8>3. Len(Told) = 4
                  BY KeepFacts
              <8> QED BY <8>1, <8>2, <8>3
            <7>2. step > 3 => Counted = 0 /\ Len(Told) = 1
                BY <4>4, CountedIs, KeepFacts
            <7>3. step \in 0 .. 5
                BY KeepFacts
            <7>4. step > 0
                BY <2>1
            <7>5. CASE step \in 1 .. 3
                BY <7>1, <7>5
            <7>6. CASE step > 3
                BY <7>2, <7>6
            <7> QED BY <7>3, <7>4, <7>5, <7>6
          <6>4. o_rx_done = 1
              BY <6>1, <6>2, <6>3
          <6> QED BY <1>1, <2>1, <6>1, <6>2, <6>4
        <5>2. bit = 9 /\ left + CYCLE \div 2 + 8 <= CYCLE
            BY <2>1, <5>1, LastDelivered
        <5>3. Len(out') = 1 /\ bit' = 9 /\ left' = left - 1 /\ left >= 1
            BY <4>2, <5>1, <5>2
        <5>4. Progress' <= 1 /\ AtRest'
            BY <4>1, <4>4, Untaken
        <5>5. left' + Progress' + CYCLE \div 2 + 8 <= CYCLE
          <6>1. left \in Nat /\ CYCLE \in Nat /\ CYCLE \div 2 \in Nat /\ Progress' \in Nat
              BY <1>1, <2>1, <4>1
          <6>2. \A l, q, h, c \in Nat :
                    l >= 1 /\ q <= 1 /\ l + h + 8 <= c => (l - 1) + q + h + 8 <= c
              OBVIOUS
          <6>3. (left - 1) + Progress' + CYCLE \div 2 + 8 <= CYCLE
              BY <5>2, <5>3, <5>4, <6>1, <6>2
          <6> QED BY <5>3, <6>3
        <5> QED BY <5>3, <5>4, <5>5
      <4> QED BY <4>3, <4>4
    <3> QED BY <1>1, <2>1, <2>4, <3>1, <3>2, <3>3 DEF SendInv
  <2> QED BY <2>1, <2>5, <2>6
<1> QED BY <1>2, <1>3 DEF Keeps

LEMMA SendTurns ==
    ASSUME BitIsLong, TopInv, UartTopNext, Turns
    PROVE  SendInv'
<1>1. got' = <<>> /\ timer' = 0 /\ waiting' = 0 /\ (step' = 0 \/ ~Taken')
    BY HostTurns, TurnsStep
<1>2. CASE Send
  <2>1. /\ out' # <<>> /\ out' \in Seq(Byte) /\ Told' = out' /\ left' = CYCLE /\ step' \in 1 .. 5
        /\ Len(out') \in Nat
      BY <1>2, SendsAll, LenProperties
  <2>2. ~Taken' /\ step' > 0 /\ left' > 0
      BY <1>1, <2>1, Numbers
  <2>3. \A i \in 1 .. Len(out') : out'[i] = Told'[Len(Told') - Len(out') + i]
    <3>1. \A i \in 1 .. Len(out') : Len(out') - Len(out') + i = i
        BY <2>1
    <3> QED BY <2>1, <3>1
  <2>4. Len(out') <= Len(Told')
      BY <2>1
  <2> QED BY <1>1, <2>1, <2>2, <2>3, <2>4 DEF SendInv
<1>3. CASE NextRequest
  <2>1. out = <<>> /\ out' = <<>> /\ bit' = bit
      BY <1>3 DEF NextRequest, Answered
  <2>2. bit = 0
      BY <2>1 DEF TopInv, SendInv
  <2> QED BY <1>1, <2>1, <2>2 DEF SendInv
<1> QED BY <1>2, <1>3 DEF Turns


-----------------------------------------------------------------------------
(* The invariant of the design is inductive.                               *)

LEMMA TopStep ==
    ASSUME BitIsLong, KnownRequests, TopInv, UartTopNext
    PROVE  TopInv'
<1>1. IInv' /\ L!RxLineInv' /\ L!TxLineInv' /\ HostTypes'
    BY TopClock, RxLineInvHere, TxLineInvHere, HostTypesStep
<1>2. CASE Keeps
  <2>1. SendInv' /\ RegisterInv' /\ AnswerInv'
      BY <1>2, SendKeeps, RegisterKeeps, AnswerKeeps
  <2>2. StepInv' /\ Begun' \in 0 .. 4 /\ Counted' \in 0 .. Begun'
      BY <1>2, BegunKeeps DEF KeepsPace
  <2> QED BY <1>1, <2>1, <2>2 DEF TopInv
<1>3. CASE Turns
  <2>1. SendInv' /\ RegisterInv' /\ AnswerInv' /\ StepInv'
      BY <1>3, SendTurns, RegisterTurns, AnswerTurns, TurnsStep
  <2>2. Begun' \in 0 .. 4 /\ Counted' \in 0 .. Begun'
      BY <1>3, BegunTurns
  <2> QED BY <1>1, <2>1, <2>2 DEF TopInv
<1> QED BY <1>2, <1>3, HostCases

LEMMA TopStays ==
    ASSUME BitIsLong, TopInv, UNCHANGED uartTopVars
    PROVE  TopInv'
<1>1. /\ UNCHANGED coreVars /\ UNCHANGED rxVars /\ UNCHANGED txVars
      /\ UNCHANGED <<step, request, out, bit, left, got, heard, timer, waiting>>
    BY DEF uartTopVars, fpgaVars, hostVars
<1>2. UNCHANGED <<o_data_valid, o_data_tx, state_count, state, rx_byte_cnt, tx_byte_cnt,
                  calc_done, nice_req_inst>>
    BY <1>1 DEF coreVars, reqVars, calcVars, portVars
<1>3. UNCHANGED <<tx_state, tx_baud_cnt, tx_baud_valid, o_uart_tx>>
    BY <1>1 DEF txVars
<1>4. UNCHANGED <<Told, AtRest, Need, Expected>>
    BY <1>1, <1>3 DEF Told, Transmission, AtRest, Need, Expected
<1>5. UNCHANGED <<Closing, Opening>>
    BY <1>1, <1>2, <1>3, <1>4 DEF Closing, Opening
<1>6. UNCHANGED Pend
    BY <1>5 DEF Pend
<1>7. UNCHANGED <<Total, Taken, Answered>>
    BY <1>1, <1>2, <1>4, <1>6 DEF Total, Taken, Answered
<1>8. UNCHANGED <<Begun, Counted>>
    BY <1>1, <1>2, <1>4, <1>7 DEF Begun, Counted
<1>9. UNCHANGED <<LineState, LineLeft, LineData, Underway, Frame, Sent>>
    BY <1>1, <1>4, <1>6, <1>7, <1>8 DEF LineState, LineLeft, LineData, Underway, Frame, Sent
<1>10. IInv'
    BY <1>1, InvStep DEF TopInv
<1>11. L!RxLineInv'
  <2>1. L!lineVars' = L!lineVars
    <3>1. /\ L!rxVars' = L!rxVars
          /\ LineState' = LineState /\ bit' = bit /\ LineLeft' = LineLeft
          /\ LineData' = LineData /\ Begun' = Begun /\ Underway' = Underway
        BY <1>1, <1>8, <1>9 DEF L!rxVars, rxVars, L!rxLine, rxLine
    <3> QED BY <3>1 DEF L!lineVars, L!wireVars
  <2>2. L!RxLineInv
      BY DEF TopInv
  <2> QED BY <2>1, <2>2, UartAssumption, Numbers, L!RxLineInvStays
<1>12. L!TxLineInv'
  <2>1. L!txVars' = L!txVars /\ L!portVars' = L!portVars /\ L!hostVars' = L!hostVars
    <3>1. <<heard, timer, Frame>>' = <<heard, timer, Frame>>
        BY <1>1, <1>9
    <3>2. <<o_data_valid, Bits(o_data_tx), state_count>>' = <<o_data_valid, Bits(o_data_tx), state_count>>
        BY <1>2 DEF Bits
    <3> QED BY <1>1, <3>1, <3>2 DEF L!txVars, txVars, L!portVars, L!hostVars
  <2>2. L!txLineVars' = L!txLineVars
      BY <1>9, <2>1, Numbers DEF L!txLineVars
  <2>3. L!TxLineInv
      BY DEF TopInv
  <2> QED BY <2>2, <2>3, ClocksAgreeHere, UartAssumption, Numbers, L!TxLineInvStep
<1>13. HostTypes'
    BY <1>1 DEF TopInv, HostTypes
<1>14. SendInv'
  <2>1. Progress' = Progress
      BY <1>2, <1>3 DEF Progress
  <2> QED BY <1>1, <1>4, <1>7, <2>1 DEF TopInv, SendInv
<1>15. StepInv'
  <2>1. (Computing' <=> Computing) /\ (StartedFor(1)' <=> StartedFor(1)) /\ (StartedFor(2)' <=> StartedFor(2))
      BY <1>2, <1>3 DEF Computing, StartedFor
  <2> QED BY <1>1, <1>2, <1>3, <1>4, <1>6, <1>7, <2>1 DEF TopInv, StepInv
<1>16. RegisterInv'
  <2>1. Loaded' = Loaded
      BY <1>1, <1>2, <1>7 DEF Loaded, Kept
  <2> QED BY <1>1, <1>2, <2>1 DEF TopInv, RegisterInv
<1>17. AnswerInv'
    BY <1>1, <1>2, <1>4, <1>6 DEF TopInv, AnswerInv, Says, Bits
<1>18. Begun' \in 0 .. 4 /\ Counted' \in 0 .. Begun'
    BY <1>8 DEF TopInv
<1> QED BY <1>10, <1>11, <1>12, <1>13, <1>14, <1>15, <1>16, <1>17, <1>18 DEF TopInv


(* After power-up both lines are at rest and the host has asked nothing.   *)
LEMMA TopInitInv ==
    ASSUME UartTopInit
    PROVE  TopInv
<1>1. /\ step = 0 /\ request \in Requests /\ out = <<>> /\ bit = 0 /\ left = 0
      /\ got = <<>> /\ heard = <<>> /\ timer = 0 /\ waiting = 0
      /\ state = "IDLE" /\ rx_byte_cnt = 0 /\ tx_byte_cnt = 0 /\ calc_done = 0
      /\ o_data_tx = 0 /\ o_data_valid = 0 /\ state_count = 0
      /\ tx_state = "IDLE" /\ tx_baud_valid = 0
    BY DEF UartTopInit, CoreInit, TxInit
<1>2. IInv
    BY InitInv DEF UartTopInit
<1>3. /\ Told = <<READ>> /\ Told \in Seq(Byte) /\ Len(Told) = 1 /\ Need = 0 /\ Begun = 1 /\ Counted = 1
      /\ Answered /\ Pend = <<>> /\ Total = 0
  <2>1. Told = <<READ>> /\ Told \in Seq(Byte) /\ Len(Told) = 1 /\ Told[1] = READ /\ READ \in Byte
      BY <1>1 DEF Told, READ, Byte
  <2>2. Need = 0 /\ Answered
      BY <1>1 DEF Need, Answered
  <2>3. Begun = 1 /\ Counted = 1
      BY <1>1, <2>1 DEF Begun, Counted
  <2>4. Pend = <<>>
      BY <1>1 DEF Pend, Closing, Opening
  <2>5. Total = 0
      BY <1>1, <2>4 DEF Total
  <2> QED BY <2>1, <2>2, <2>3, <2>4, <2>5
<1>4. L!RxLineInv
  <2>1. LineState = "idle" /\ LineLeft = 0
      BY <1>1, <1>3 DEF LineState, LineLeft
  <2>2. LineData \in Data /\ Data = L!Data
    <3>1. LineData = Bits(READ) /\ READ \in Byte
        BY <1>1, <1>3 DEF LineData, READ, Byte
    <3> QED BY <3>1, BitsType DEF Data, L!Data
  <2>3. Underway = <<>>
    <3>1. Underway = Way(Told, Counted, Begun)
        BY DEF Underway, Way
    <3>2. Counted \in Nat /\ Begun \in Nat /\ Counted <= Begun /\ Begun <= Len(Told) /\ Counted = Begun
        BY <1>3
    <3>3. Way(Told, Counted, Begun) = <<>>
        BY <1>3, <3>2, WayIs
    <3> QED BY <3>1, <3>3
  <2>4. L!RxInit
      BY DEF UartTopInit, RxInit, L!RxInit, NoData, L!NoData
  <2>5. L!LineRests
      BY <1>1, <1>3, <2>1, <2>2, <2>3, <2>4 DEF L!LineRests
  <2> QED BY <2>5, UartAssumption, Numbers, L!RxLineInvAtRest
<1>5. L!TxLineInv
  <2>1. Bits(o_data_tx) = L!NoData
    <3>1. \A i \in 1 .. 8 : (0 \div Pow2[i]) % 2 = 0
      <4>1. \A i \in 1 .. 8 : Pow2[i] \in Nat \ {0}
          BY DEF Pow2
      <4> QED BY <4>1
    <3> QED BY <1>1, <3>1, Numbers DEF Bits, L!NoData
  <2>2. L!TxInit
      BY DEF UartTopInit, TxInit, L!TxInit, NoData, L!NoData
  <2>3. Frame = <<>> /\ Sent = <<>>
      BY <1>1, <1>3 DEF Frame, Sent
  <2>4. L!TxLineInit
      BY <1>1, <2>1, <2>2, <2>3 DEF L!TxLineInit
  <2> QED BY <2>4, UartAssumption, Numbers, L!TxLineInvInit
<1>6. HostTypes
    BY <1>1, Numbers DEF HostTypes
<1>7. SendInv
    BY <1>1 DEF SendInv
<1>8. StepInv
    BY <1>1, <1>3 DEF StepInv
<1>9. RegisterInv
  <2>1. Loaded = 0
      BY <1>1 DEF Loaded
  <2> QED BY <2>1 DEF RegisterInv
<1>10. AnswerInv
    BY <1>1, <1>3 DEF AnswerInv
<1> QED BY <1>2, <1>3, <1>4, <1>5, <1>6, <1>7, <1>8, <1>9, <1>10 DEF TopInv


(* What the host has heard are the bytes it was owed, and no more.         *)
LEMMA HeardIsRight ==
    ASSUME BitIsLong, TopInv
    PROVE  AnswersRight
<1>1. /\ step \in 0 .. 5 /\ got \in Seq(Byte) /\ Len(got) \in Nat
      /\ \A i \in 1 .. Len(got) : Says(i, got[i])
    BY DEF TopInv, HostTypes, AnswerInv
<1>2. Len(got) <= Need
  <2>1. Total <= Need /\ Len(Pend) \in Nat
      BY PendType DEF TopInv, StepInv
  <2>2. Need \in Nat
      BY DEF Need
  <2> QED BY <1>1, <2>1, <2>2 DEF Total
<1>3. got = <<>> \/ Len(got) >= 1
    BY <1>1, EmptySeq
<1>4. Len(got) = 1 => got = <<got[1]>> /\ Says(1, got[1])
  <2>1. SUFFICES ASSUME Len(got) = 1 PROVE got = <<got[1]>> /\ Says(1, got[1])
      OBVIOUS
  <2> QED BY <1>1, <2>1
<1>5. CASE step = 0
    BY <1>1, <1>2, <1>3, <1>5 DEF Need, AnswersRight
<1>6. CASE step \in 1 .. 3
  <2>1. got = <<>> \/ Len(got) = 1
    <3>1. Need = 1
        BY <1>6 DEF Need
    <3>2. Len(got) \in Nat /\ Len(got) <= 1
        BY <1>1, <1>2, <3>1
    <3> QED BY <1>3, <3>2
  <2>2. got \in {<<>>, <<ACK>>}
    <3>1. Len(got) = 1 => got[1] = ACK
        BY <1>4, <1>6 DEF Says
    <3>2. CASE got = <<>>
        BY <3>2
    <3>3. CASE Len(got) = 1
      <4>1. got = <<got[1]>> /\ got[1] = ACK
          BY <1>4, <3>1, <3>3
      <4>2. got = <<ACK>>
          BY <4>1, Zenon
      <4> QED BY <4>2
    <3> QED BY <2>1, <3>2, <3>3
  <2>3. step # 0 /\ step # 4 /\ step # 5
      BY <1>6
  <2> QED BY <1>6, <2>2, <2>3 DEF AnswersRight
<1>7. CASE step = 4
  <2>1. got = <<>> \/ Len(got) = 1
    <3>1. Need = 1
        BY <1>7 DEF Need
    <3>2. Len(got) \in Nat /\ Len(got) <= 1
        BY <1>1, <1>2, <3>1
    <3> QED BY <1>3, <3>2
  <2>2. got \in {<<>>, <<0>>, <<1>>}
      BY <1>4, <1>7, <2>1 DEF Says
  <2> QED BY <1>7, <2>2 DEF AnswersRight
<1>8. CASE step = 5
  <2>1. Len(got) <= 5
      BY <1>2, <1>8 DEF Need
  <2>2. \A i \in 1 .. Len(got) : got[i] = Expected[i] /\ Expected[i] \in Byte
      BY <1>1, <1>8 DEF Says
  <2>3. /\ SubSeq(Expected, 1, Len(got)) \in Seq(Byte)
        /\ Len(SubSeq(Expected, 1, Len(got))) = Len(got)
        /\ \A i \in 1 .. Len(got) : SubSeq(Expected, 1, Len(got))[i] = Expected[i]
    <3>1. /\ 1 \in Int /\ Len(got) \in Int /\ Len(got) - 1 + 1 = Len(got)
          /\ (IF 1 <= Len(got) THEN Len(got) - 1 + 1 ELSE 0) = Len(got)
          /\ \A i \in 1 .. Len(got) : 1 + i - 1 = i
        BY <1>1
    <3> QED BY <2>2, <3>1, SubSeqProperties
  <2>4. got = SubSeq(Expected, 1, Len(got))
      BY <1>1, <2>2, <2>3, SeqEqual
  <2> QED BY <1>8, <2>1, <2>4 DEF AnswersRight
<1> QED BY <1>1, <1>5, <1>6, <1>7, <1>8


(* From power-up on the design and its host satisfy the invariant.         *)
LEMMA TopAlways == BitIsLong /\ KnownRequests => (UartTopSpec => []TopInv)
<1> SUFFICES ASSUME BitIsLong /\ KnownRequests PROVE UartTopSpec => []TopInv
    OBVIOUS
<1>1. UartTopInit => TopInv
    BY TopInitInv
<1>2. TopInv /\ [UartTopNext]_uartTopVars => TopInv'
    BY TopStep, TopStays
<1> QED BY <1>1, <1>2, PTL DEF UartTopSpec

(* AnswersRight: over the wires of uart_top.v and two serial lines the     *)
(* words of a request are acknowledged, polls are answered 0 or 1, and a   *)
(* read brings the result and the latency of this very request, whatever   *)
(* the requests before it, the operands, the pauses of the host and the    *)
(* length of a bit.                                                        *)
THEOREM AnswersAlwaysRight == BitIsLong /\ KnownRequests => (UartTopSpec => []AnswersRight)
<1> SUFFICES ASSUME BitIsLong /\ KnownRequests PROVE UartTopSpec => []AnswersRight
    OBVIOUS
<1>1. TopInv => AnswersRight
    BY HeardIsRight
<1> QED BY <1>1, TopAlways, PTL

(* ByteFindsCoreReady: no byte of a host that waits for its answers        *)
(* reaches nice_core in a state that would drop it or mix it with another. *)
THEOREM BytesFindCoreReady == BitIsLong /\ KnownRequests => (UartTopSpec => []ByteFindsCoreReady)
<1> SUFFICES ASSUME BitIsLong /\ KnownRequests PROVE UartTopSpec => []ByteFindsCoreReady
    OBVIOUS
<1>1. TopInv => ByteFindsCoreReady
    BY CoreReady
<1> QED BY <1>1, TopAlways, PTL


-----------------------------------------------------------------------------
(* How long the host waits.                                                *)

(* A byte takes half a bit before its frame, nine bits and a half to its   *)
(* stop bit, and the clocks of the handshake.                              *)
PerByte == 9 * CYCLE + 2 * (CYCLE \div 2) + 4

LagInv ==
    waiting <= Len(got) * PerByte + 2
               + (IF timer = 0 /\ AtRest THEN Progress ELSE CYCLE \div 2 + 3 + timer)

(* A host that waits has been heard but for its last clock: the receiver   *)
(* is never later than the last stop bit by more than one clock.           *)
LEMMA AskedInTime ==
    ASSUME BitIsLong, TopInv, out = <<>>, step > 0, ~Taken
    PROVE  waiting <= 1
<1>1. Underway # <<>>
  <2>1. /\ Told \in Seq(Byte)
        /\ Len(Told) = 1 \/ Len(Told) = 4
        /\ Begun = Len(Told) /\ Begun \in Nat /\ Counted \in Nat
      BY CountedIs, ToldIs DEF TopInv
  <2>2. Counted < Begun
    <3>1. step \in 0 .. 5 /\ StepInv
        BY DEF TopInv, HostTypes
    <3>2. CASE step \in 1 .. 3
      <4>1. Counted = rx_byte_cnt - 4 * (step - 1) /\ Len(Told) = 4
          BY <3>2, CountedIs, ToldIs DEF TopInv
      <4>2. rx_byte_cnt \in 4 * (step - 1) .. 4 * step - 1
          BY <3>1, <3>2 DEF StepInv
      <4> QED BY <2>1, <3>2, <4>1, <4>2
    <3>3. CASE step > 3
      <4>1. Counted = 0
          BY <3>3, CountedIs
      <4> QED BY <2>1, <4>1
    <3> QED BY <3>1, <3>2, <3>3
  <2>3. Underway = Way(Told, Counted, Begun)
      BY DEF Underway, Way
  <2>4. Len(Way(Told, Counted, Begun)) = Begun - Counted /\ Begun - Counted > 0
    <3>1. Counted <= Begun /\ Begun <= Len(Told) /\ Begun - Counted > 0
        BY <2>1, <2>2
    <3> QED BY <2>1, <3>1, WayIs
  <2>5. Len(<<>>) = 0
      OBVIOUS
  <2> QED BY <2>3, <2>4, <2>5
<1>2. /\ L!RxInv /\ L!WireTypes /\ L!PhaseInv /\ L!ExpectedInv /\ LineState = "idle"
      /\ waiting \in Nat
    BY DEF TopInv, L!RxLineInv, LineState, HostTypes
<1>3. ~L!Fresh
    BY <1>2 DEF L!Fresh
<1>4. L!Undone
  <2>1. Underway \in Seq(L!Data) /\ Len(Underway) = L!Owed
      BY <1>2 DEF L!ExpectedInv
  <2>2. Len(Underway) > 0
      BY <1>1, <2>1, EmptySeq
  <2> QED BY <1>3, <2>1, <2>2 DEF L!Owed
<1>5. L!RxTime \in Nat /\ L!RxTime <= 9 * CYCLE + CYCLE \div 2 + 1
  <2>1. L!RxTime \in Nat /\ (L!Done <=> L!RxTime > L!Begin(L!StopBit) + L!Half + 1)
      BY <1>2, UartAssumption, Numbers, L!RxTimes
  <2>2. ~L!Done
      BY <1>4 DEF L!Undone
  <2> QED BY <2>1, <2>2, LineNumbers, Numbers
<1>6. L!Edge(L!FrameLen) + L!Paused <= L!RxTime + 7 + L!Late(Begun)
  <2>1. L!Receiving
      BY <1>4 DEF L!Undone
  <2> QED BY <1>2, <2>1 DEF L!PhaseInv
<1>7. L!Late(Begun) \in Nat /\ L!Late(Begun) <= 6
  <2>1. L!Begin(L!FrameLen) = 10 * CYCLE /\ L!Edge(L!FrameLen) = 10 * CYCLE
      BY LineNumbers, Numbers DEF L!FrameLen, L!Begin, L!Edge
  <2>2. L!Loss = 2
      BY <2>1, Numbers DEF L!Loss
  <2>3. Begun \in 1 .. 4
    <3>1. Begun = Len(Told) /\ (Len(Told) = 1 \/ Len(Told) = 4)
        BY CountedIs
    <3> QED BY <3>1
  <2>4. L!Late(Begun) = (Begun - 1) * 2
      BY <2>2 DEF L!Late
  <2> QED BY <2>3, <2>4
<1>8. L!Edge(L!FrameLen) = 10 * CYCLE /\ L!Paused = CYCLE - LineLeft
    BY LineNumbers, Numbers DEF L!FrameLen, L!Edge, L!Paused
<1>9. LineLeft = IF waiting < CYCLE THEN CYCLE - waiting ELSE 0
  <2>1. ~Answered
      BY AllAnswered
  <2> QED BY <2>1 DEF LineLeft
<1>10. CYCLE \in Nat /\ CYCLE \div 2 \in Nat /\ CYCLE \div 2 + 13 <= CYCLE
    BY Numbers DEF BitIsLong
<1>11. 10 * CYCLE + L!Paused <= 9 * CYCLE + CYCLE \div 2 + 1 + 7 + 6
  <2>1. L!Paused \in Int
      BY <1>2, <1>8, <1>9, <1>10
  <2> QED BY <1>5, <1>6, <1>7, <1>8, <1>10, <2>1
<1>12. L!Paused <= 1
  <2>1. L!Paused \in Int
      BY <1>2, <1>8, <1>9, <1>10
  <2> QED BY <1>10, <1>11, <2>1
<1>13. CASE waiting < CYCLE
    BY <1>2, <1>8, <1>9, <1>10, <1>12, <1>13
<1>14. CASE ~(waiting < CYCLE)
    BY <1>2, <1>8, <1>9, <1>10, <1>12, <1>14, Numbers
<1> QED BY <1>13, <1>14


(* A question that has been taken is answered in the next clock: whenever  *)
(* more is to come and nothing is under way, the core offers a byte.       *)
LEMMA AnswersAtOnce ==
    ASSUME BitIsLong, TopInv, UartTopNext, Taken, Pend = <<>>, out = <<>>, ~Answered
    PROVE  o_data_valid' = 1
<1>1. /\ o_data_valid = 0 /\ o_state_0 = 0 /\ timer = 0
      /\ Clock(o_rx_done, Value(o_uart_data), o_state_0) /\ IInv /\ o_state_0 \in Bit
      /\ step \in 0 .. 5 /\ StepInv /\ Len(got) \in Nat
    BY QuietPort, TopClock DEF TopInv, HostTypes
<1>2. Len(got) # Need /\ Len(Pend) = 0 /\ Total = Len(got) /\ Len(got) <= Need
  <2>1. Len(got) # Need
      BY <1>1 DEF Answered
  <2>2. Len(Pend) = 0
      OBVIOUS
  <2>3. Total = Len(got)
      BY <1>1, <2>2 DEF Total
  <2> QED BY <1>1, <2>1, <2>2, <2>3 DEF StepInv
<1>3. CASE state = "TX_ONE"
  <2>1. \/ Offer(ACK)
        \/ o_data_valid = 1
        \/ o_state_0 = 1
      BY <1>1, <1>3, OneClock
  <2> QED BY <1>1, <2>1 DEF Offer
<1>4. CASE state = "TX_DATA"
  <2>1. tx_byte_cnt = Total /\ Need = 5
    <3>1. step = 5
        BY <1>1, <1>4 DEF StepInv, Computing, SM3States, SM4States
    <3> QED BY <1>1, <1>4, <3>1 DEF StepInv, Need, Computing, SM3States, SM4States
  <2>2. tx_byte_cnt # 5
      BY <1>2, <2>1
  <2>3. Offer(ReplyByte(tx_byte_cnt))
      BY <1>1, <1>4, <2>2, DataClock
  <2> QED BY <2>3 DEF Offer
<1>5. CASE state \notin {"TX_ONE", "TX_DATA"}
  <2>1. got # <<>>
      BY <1>5 DEF Taken
  <2>2. Len(got) >= 1
      BY <1>1, <2>1, EmptySeq DEF TopInv, HostTypes
  <2>3. step = 5
    <3>1. step = 0 => Need = 0
        BY DEF Need
    <3>2. step \in 1 .. 4 => Need = 1
        BY DEF Need
    <3> QED BY <1>1, <1>2, <2>2, <3>1, <3>2
  <2>4. state = "IDLE" /\ Total = 5
      BY <1>1, <1>5, <2>3 DEF StepInv
  <2>5. Need = 5
      BY <2>3 DEF Need
  <2> QED BY <1>2, <2>4, <2>5
<1> QED BY <1>3, <1>4, <1>5

(* A clock of the handshake, when there is one.                            *)
LEMMA ProgressGoesOn ==
    ASSUME BitIsLong, TopInv, UartTopNext, AtRest, timer = 0,
           tx_baud_valid = 1 \/ o_data_valid = 1 \/ o_data_valid' = 1
    PROVE  AtRest' => Progress' = Progress + 1
<1>1. /\ tx_state \in {"IDLE", "START"} /\ o_data_valid \in {0, 1} /\ tx_baud_valid \in {0, 1}
      /\ tx_baud_valid = 0 => tx_state = "IDLE"
  <2>1. tx_state # "END"
    <3>1. 9 * CYCLE # 0
        BY Numbers
    <3> QED BY <3>1, TxFacts
  <2>2. tx_state \in {"IDLE", "START"}
      BY <2>1 DEF AtRest
  <2> QED BY <2>1, <2>2, TxFacts
<1>2. CASE tx_baud_valid = 0 /\ o_data_valid = 0
  <2>1. tx_baud_valid' = 0
      BY <1>1, <1>2, RestNext
  <2> QED BY <1>2, <2>1 DEF Progress
<1>3. CASE tx_baud_valid = 0 /\ o_data_valid = 1
  <2>1. tx_baud_valid' = 1 /\ tx_state' = "IDLE"
      BY <1>1, <1>3, RestNext
  <2> QED BY <1>3, <2>1 DEF Progress
<1>4. CASE tx_baud_valid = 1 /\ tx_state = "IDLE"
  <2>1. tx_baud_valid' = 1 /\ tx_state' = "START" /\ tx_baud_cnt' = 1
      BY <1>1, <1>4, RestNext
  <2> QED BY <1>4, <2>1 DEF Progress
<1>5. CASE tx_baud_valid = 1 /\ tx_state = "START"
  <2>1. tx_baud_valid' = 1 /\ tx_state' = "START" /\ tx_baud_cnt' = tx_baud_cnt + 1
      BY <1>1, <1>5, RestNext
  <2>2. tx_baud_cnt \in Nat
      BY TxFacts
  <2>3. Progress = 2 + tx_baud_cnt /\ Progress' = 2 + (tx_baud_cnt + 1)
      BY <1>5, <2>1 DEF Progress
  <2> QED BY <2>2, <2>3
<1> QED BY <1>1, <1>2, <1>3, <1>4, <1>5

(* How far it can be when nothing of it is heard.                          *)
LEMMA ProgressIs ==
    ASSUME BitIsLong, TopInv, AtRest, timer = 0
    PROVE  /\ Progress \in Nat /\ Progress <= CYCLE \div 2 + 2
           /\ Pend = <<>> => Progress = 0
           /\ Pend # <<>> => tx_baud_valid = 1 \/ o_data_valid = 1
<1>1. /\ tx_state \in {"IDLE", "START"} /\ o_data_valid \in {0, 1} /\ tx_baud_valid \in {0, 1}
      /\ tx_state = "START" => tx_baud_cnt \in 1 .. CYCLE \div 2
      /\ CYCLE \div 2 \in Nat
  <2>1. tx_state # "END"
    <3>1. 9 * CYCLE # 0
        BY Numbers
    <3> QED BY <3>1, TxFacts
  <2> QED BY <2>1, TxFacts, Numbers DEF AtRest
<1>2. Progress \in Nat /\ Progress <= CYCLE \div 2 + 2
  <2>1. CASE tx_baud_valid = 0
      BY <1>1, <2>1 DEF Progress
  <2>2. CASE tx_baud_valid = 1 /\ tx_state = "IDLE"
      BY <1>1, <2>2 DEF Progress
  <2>3. CASE tx_baud_valid = 1 /\ tx_state = "START"
    <3>1. Progress = 2 + tx_baud_cnt
        BY <2>3 DEF Progress
    <3> QED BY <1>1, <2>3, <3>1
  <2> QED BY <1>1, <2>1, <2>2, <2>3
<1>3. Pend = <<>> => Progress = 0
    BY QuietPort DEF Progress
<1>4. Pend # <<>> => tx_baud_valid = 1 \/ o_data_valid = 1
    BY DEF Pend, Closing, Opening
<1> QED BY <1>2, <1>3, <1>4


LEMMA LagNumbers ==
    /\ PerByte \in Nat /\ PerByte <= 10 * CYCLE + 4
    /\ PerByte = 9 * CYCLE + CYCLE \div 2 + (CYCLE \div 2 + 4)
    /\ \A n \in Nat : n * PerByte \in Nat /\ (n + 1) * PerByte = n * PerByte + PerByte
<1>1. PerByte \in Nat /\ PerByte = 9 * CYCLE + CYCLE \div 2 + (CYCLE \div 2 + 4)
    BY Numbers DEF PerByte
<1>2. 2 * (CYCLE \div 2) <= CYCLE
    BY Numbers
<1>3. PerByte <= 10 * CYCLE + 4
    BY <1>1, <1>2, Numbers
<1>4. \A n \in Nat : n * PerByte \in Nat /\ (n + 1) * PerByte = n * PerByte + PerByte
    BY <1>1
<1> QED BY <1>1, <1>3, <1>4

LEMMA LagStep ==
    ASSUME BitIsLong, TopInv, LagInv, UartTopNext, TopInv'
    PROVE  LagInv'
<1> DEFINE Since == IF timer = 0 /\ AtRest THEN Progress ELSE CYCLE \div 2 + 3 + timer
           Base == Len(got) * PerByte + 2
<1>0. Base' = Len(got') * PerByte + 2
    BY DEF PerByte
<1>1. /\ waiting \in Nat /\ waiting' \in Nat /\ timer \in Nat /\ timer' \in Nat
      /\ Len(got) \in Nat /\ Len(got') \in Nat /\ CYCLE \div 2 \in Nat /\ Progress' \in Nat
  <2>1. waiting \in Nat /\ waiting' \in Nat /\ Len(got) \in Nat /\ Len(got') \in Nat
      BY DEF TopInv, HostTypes
  <2>2. timer \in Nat /\ timer' \in Nat
      BY DEF TopInv, L!TxLineInv, L!TxLineTypes
  <2>3. tx_baud_cnt' \in Nat
    <3>1. L!TxTypeOK'
        BY DEF TopInv, L!TxLineInv, L!TxInv
    <3> QED BY <3>1, Numbers DEF L!TxTypeOK
  <2>4. \/ Progress' = 0
        \/ Progress' = 1
        \/ Progress' = 2
        \/ Progress' = 2 + tx_baud_cnt'
      BY DEF Progress
  <2>5. Progress' \in Nat
      BY <2>3, <2>4
  <2> QED BY <2>1, <2>2, <2>5, Numbers
<1>2. waiting <= Base + Since /\ Base \in Nat /\ Base' \in Nat /\ Since' \in Nat
  <2>1. Base \in Nat /\ Base' \in Nat
    <3>1. Len(got) * PerByte \in Nat /\ Len(got') * PerByte \in Nat
        BY <1>1, LagNumbers
    <3> QED BY <1>0, <3>1
  <2>2. Since' \in Nat
      BY <1>1
  <2> QED BY <2>1, <2>2 DEF LagInv
<1>3. SUFFICES waiting' <= Base' + Since'
    BY DEF LagInv
<1>4. CASE waiting' = 0
    BY <1>2, <1>4
<1>5. CASE waiting' # 0
  <2>1. /\ out = <<>> /\ ~Answered /\ waiting' = waiting + 1 /\ Keeps /\ Wait
    <3>1. ~Turns
        BY <1>5, HostTurns
    <3>2. Keeps /\ ~Shift
        BY <1>5, <3>1, HostCases, ShiftCases
    <3>3. Wait
        BY <3>2 DEF Keeps
    <3> QED BY <1>5, <3>2, <3>3 DEF Wait
  <2>2. got' = IF ByteHeard THEN Append(got, Value(SubSeq(heard, 2, 9))) ELSE got
      BY <2>1, HostKeeps DEF Take
  <2>3. step > 0
    <3>1. step \in 0 .. 5 /\ Total <= Need /\ Len(Pend) \in Nat
        BY PendType DEF TopInv, HostTypes, StepInv
    <3>2. ASSUME step = 0 PROVE FALSE
      <4>1. Need = 0
          BY <3>2 DEF Need
      <4>2. Len(got) = 0 /\ Len(Pend) = 0
          BY <1>1, <3>1, <4>1 DEF Total
      <4>3. Pend \in Seq(Data)
          BY PendType
      <4>4. Pend = <<>>
          BY <4>2, <4>3, EmptySeq
      <4>5. timer = 0
          BY <4>4, QuietPort
      <4> QED BY <2>1, <4>1, <4>2, <4>5 DEF Answered
    <3> QED BY <3>1, <3>2
  <2>4. CASE ~Taken
    <3>1. waiting <= 1
        BY <2>1, <2>3, <2>4, AskedInTime
    <3>2. Base' >= 2
      <4>1. Len(got') * PerByte \in Nat
          BY <1>1, LagNumbers
      <4> QED BY <1>0, <4>1
    <3> QED BY <1>1, <1>2, <2>1, <3>1, <3>2
  <2>5. CASE Taken /\ AtRest /\ timer = 0
    <3>1. ~ByteHeard /\ timer' = 0 /\ Base' = Base
        BY <2>2, <2>5, HearAtRest
    <3>2. waiting <= Base + Progress
        BY <1>2, <2>5
    <3>3. tx_baud_valid = 1 \/ o_data_valid = 1 \/ o_data_valid' = 1
        BY <2>1, <2>5, ProgressIs, AnswersAtOnce
    <3>4. CASE AtRest'
      <4>1. Since' = Progress + 1
          BY <2>5, <3>1, <3>3, <3>4, ProgressGoesOn
      <4> QED BY <1>1, <1>2, <2>1, <2>5, <3>1, <3>2, <4>1, ProgressIs
    <3>5. CASE ~AtRest'
      <4>1. Since' = CYCLE \div 2 + 3 + 0
          BY <3>1, <3>5
      <4>2. Progress \in Nat /\ Progress <= CYCLE \div 2 + 2
          BY <2>5, ProgressIs
      <4> QED BY <1>1, <1>2, <2>1, <3>1, <3>2, <4>1, <4>2
    <3> QED BY <3>4, <3>5
  <2>6. CASE (AtRest /\ timer > 0 /\ ~ByteHeard) \/ ~AtRest
    <3>1. timer' = timer + 1 /\ Base' = Base
        BY <2>2, <2>6, HearAtRest, HearInFrame
    <3>2. Since' = CYCLE \div 2 + 3 + (timer + 1) /\ Since = CYCLE \div 2 + 3 + timer
        BY <1>1, <2>6, <3>1
    <3> QED BY <1>1, <1>2, <2>1, <3>1, <3>2
  <2>7. CASE AtRest /\ timer > 0 /\ ByteHeard
    <3>1. timer = 9 * CYCLE + CYCLE \div 2 /\ timer' = 0
        BY <2>7, HearAtRest
    <3>2. Len(got') = Len(got) + 1
      <4>1. got \in Seq(Byte) /\ got' = Append(got, Value(SubSeq(heard, 2, 9)))
          BY <2>2, <2>7 DEF TopInv, HostTypes
      <4> QED BY <4>1
    <3>3. Base' = Base + PerByte
      <4>1. /\ (Len(got) + 1) * PerByte = Len(got) * PerByte + PerByte
            /\ Len(got) * PerByte \in Nat /\ PerByte \in Nat
          BY <1>1, LagNumbers
      <4>2. Base' = (Len(got) + 1) * PerByte + 2
          BY <1>0, <3>2
      <4> QED BY <4>1, <4>2
    <3>4. waiting <= Base + (CYCLE \div 2 + 3 + timer)
        BY <1>2, <2>7
    <3>5. waiting + 1 <= Base'
        BY <1>1, <1>2, <3>1, <3>3, <3>4, LagNumbers, Numbers
    <3> QED BY <1>1, <1>2, <2>1, <3>5
  <2> QED BY <1>1, <2>4, <2>5, <2>6, <2>7
<1> QED BY <1>4, <1>5


(* The bytes heard, the one on the line, and the handshake of the next one *)
(* are never more than the answer.                                         *)
LEMMA LagInTime ==
    ASSUME BitIsLong, TopInv, LagInv
    PROVE  AnswersInTime
<1>1. /\ waiting \in Nat /\ timer \in Nat /\ Len(got) \in Nat /\ Len(Pend) \in Nat
      /\ CYCLE \in Nat /\ CYCLE >= 25 /\ CYCLE \div 2 \in Nat
      /\ Len(got) + Len(Pend) <= Need
  <2>1. CYCLE >= 25
      BY Numbers DEF BitIsLong
  <2>2. timer \in Nat /\ Len(Pend) \in Nat
      BY PendType DEF TopInv, L!TxLineInv, L!TxLineTypes
  <2> QED BY <2>1, <2>2, Numbers DEF TopInv, HostTypes, StepInv, Total
<1>2. Need \in {0, 1, 5}
    BY DEF Need
<1>3. Need * PerByte + 2 <= Need * 10 * CYCLE + CYCLE
  <2>1. PerByte \in Nat /\ PerByte <= 10 * CYCLE + 4
      BY LagNumbers
  <2>2. CASE Need = 0
      BY <1>1, <2>1, <2>2
  <2>3. CASE Need = 1
      BY <1>1, <2>1, <2>3
  <2>4. CASE Need = 5
      BY <1>1, <2>1, <2>4
  <2> QED BY <1>2, <2>2, <2>3, <2>4
<1>4. \A n \in Nat : n + 1 <= Need => n * PerByte + PerByte <= Need * PerByte
  <2>1. PerByte \in Nat
      BY LagNumbers
  <2>2. CASE Need = 0
      BY <2>2
  <2>3. CASE Need = 1
      BY <2>1, <2>3
  <2>4. CASE Need = 5
    <3> SUFFICES ASSUME NEW n \in Nat, n + 1 <= 5
                 PROVE  n * PerByte + PerByte <= 5 * PerByte
        BY <2>4
    <3>1. n = 0 \/ n = 1 \/ n = 2 \/ n = 3 \/ n = 4
        OBVIOUS
    <3> QED BY <2>1, <3>1
  <2> QED BY <1>2, <2>2, <2>3, <2>4
<1>5. CASE timer = 0 /\ AtRest /\ Pend = <<>>
  <2>1. Progress = 0
      BY <1>5, ProgressIs
  <2>2. waiting <= Len(got) * PerByte + 2 + 0
      BY <1>5, <2>1 DEF LagInv
  <2>3. Len(got) * PerByte <= Need * PerByte
    <3>1. Len(got) <= Need /\ Need \in Nat /\ PerByte \in Nat
        BY <1>1, <1>2, LagNumbers
    <3>2. CASE Len(got) = Need
        BY <3>1, <3>2
    <3>3. CASE Len(got) + 1 <= Need
      <4>1. Len(got) * PerByte + PerByte <= Need * PerByte /\ Len(got) * PerByte \in Nat
          BY <1>1, <1>4, <3>3, LagNumbers
      <4>2. Need * PerByte \in Nat
          BY <3>1, LagNumbers
      <4> QED BY <3>1, <4>1, <4>2
    <3> QED BY <1>1, <3>1, <3>2, <3>3
  <2>4. Len(got) * PerByte \in Nat /\ Need * PerByte \in Nat /\ Need * 10 * CYCLE \in Nat
    <3>1. Need \in Nat /\ 10 * CYCLE \in Nat
        BY <1>1, <1>2
    <3> QED BY <1>1, <1>2, <3>1, LagNumbers
  <2> QED BY <1>1, <1>3, <2>2, <2>3, <2>4 DEF AnswersInTime
<1>6. CASE ~(timer = 0 /\ AtRest /\ Pend = <<>>)
  <2>1. Len(got) + 1 <= Need
    <3>1. Pend # <<>>
      <4>1. timer = 0 /\ AtRest => Pend # <<>>
          BY <1>6
      <4>2. ~(timer = 0 /\ AtRest) => Pend # <<>>
          BY QuietPort
      <4> QED BY <4>1, <4>2
    <3>2. Len(Pend) >= 1
        BY <1>1, <3>1, PendType, EmptySeq
    <3> QED BY <1>1, <1>2, <3>2
  <2>2. waiting <= Len(got) * PerByte + 2 + PerByte
    <3>1. Len(got) * PerByte \in Nat /\ PerByte = 9 * CYCLE + CYCLE \div 2 + (CYCLE \div 2 + 4)
        BY <1>1, LagNumbers
    <3>2. CASE timer = 0 /\ AtRest
      <4>1. Progress \in Nat /\ Progress <= CYCLE \div 2 + 2
          BY <3>2, ProgressIs
      <4>2. waiting <= Len(got) * PerByte + 2 + Progress
          BY <3>2 DEF LagInv
      <4> QED BY <1>1, <3>1, <4>1, <4>2
    <3>3. CASE ~(timer = 0 /\ AtRest)
      <4>1. waiting <= Len(got) * PerByte + 2 + (CYCLE \div 2 + 3 + timer)
          BY <3>3 DEF LagInv
      <4>2. timer <= 9 * CYCLE + CYCLE \div 2
        <5>1. CASE timer = 0
            BY <1>1, <5>1
        <5>2. CASE timer > 0
          <6>1. Len(heard) \in Nat /\ Len(heard) <= 9 /\ heard \in Seq({0, 1})
              BY <5>2, TxFacts
          <6>2. timer <= Len(heard) * CYCLE + CYCLE \div 2
              BY <5>2 DEF TopInv, L!TxLineInv, L!TimerInv, L!Due
          <6>3. Len(heard) * CYCLE \in Nat /\ Len(heard) * CYCLE <= 9 * CYCLE
            <7>1. \A n \in Nat : n <= 9 => n * CYCLE \in Nat /\ n * CYCLE <= 9 * CYCLE
                BY <1>1
            <7> QED BY <6>1, <7>1
          <6> QED BY <1>1, <6>2, <6>3
        <5> QED BY <1>1, <5>1, <5>2
      <4> QED BY <1>1, <3>1, <4>1, <4>2
    <3> QED BY <3>2, <3>3
  <2>3. Len(got) * PerByte + PerByte <= Need * PerByte
      BY <1>1, <1>4, <2>1
  <2>4. Len(got) * PerByte \in Nat /\ Need * PerByte \in Nat /\ Need * 10 * CYCLE \in Nat /\ PerByte \in Nat
    <3>1. Need \in Nat /\ 10 * CYCLE \in Nat
        BY <1>1, <1>2
    <3> QED BY <1>1, <1>2, <3>1, LagNumbers
  <2> QED BY <1>1, <1>3, <2>2, <2>3, <2>4 DEF AnswersInTime
<1> QED BY <1>5, <1>6


(* AnswersInTime: a host that asks waits for an answer at most as long as  *)
(* the frames of its bytes take, and one bit, whatever the core computes   *)
(* and whichever byte of the transmission the receiver found late.         *)
THEOREM AnswersAlwaysInTime == BitIsLong /\ KnownRequests => (UartTopSpec => []AnswersInTime)
<1> SUFFICES ASSUME BitIsLong /\ KnownRequests PROVE UartTopSpec => []AnswersInTime
    OBVIOUS
<1>1. UartTopInit => LagInv
  <2> SUFFICES ASSUME UartTopInit PROVE LagInv
      OBVIOUS
  <2>1. waiting = 0 /\ timer = 0 /\ got = <<>> /\ tx_baud_cnt = 0
      BY DEF UartTopInit, TxInit
  <2>2. \/ Progress = 0
        \/ Progress = 1
        \/ Progress = 2
        \/ Progress = 2 + tx_baud_cnt
      BY DEF Progress
  <2>3. Progress \in Nat /\ CYCLE \div 2 \in Nat
      BY <2>1, <2>2, Numbers
  <2>4. Len(got) * PerByte = 0
      BY <2>1, LagNumbers
  <2> QED BY <2>1, <2>3, <2>4 DEF LagInv
<1>2. TopInv /\ TopInv' /\ LagInv /\ [UartTopNext]_uartTopVars => LagInv'
  <2>1. ASSUME TopInv, TopInv', LagInv, UartTopNext PROVE LagInv'
      BY <2>1, LagStep
  <2>2. ASSUME LagInv, UNCHANGED uartTopVars PROVE LagInv'
    <3>1. UNCHANGED <<waiting, got, timer, tx_state, tx_baud_cnt, tx_baud_valid, o_data_valid>>
        BY <2>2 DEF uartTopVars, fpgaVars, hostVars, txVars, coreVars, portVars
    <3>2. UNCHANGED <<AtRest, Progress>> /\ PerByte' = PerByte
        BY <3>1 DEF AtRest, Progress, PerByte
    <3> QED BY <2>2, <3>1, <3>2 DEF LagInv
  <2> QED BY <2>1, <2>2
<1>3. TopInv /\ LagInv => AnswersInTime
    BY LagInTime
<1> QED BY <1>1, <1>2, <1>3, TopAlways, PTL DEF UartTopSpec
=============================================================================
