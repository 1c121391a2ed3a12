---------------------------- MODULE Lines_proofs -----------------------------
(***************************************************************************)
(* The two serial lines of the design, for every number of clocks per bit  *)
(* at either end, every number of data bits and either parity: first the   *)
(* receiver, to which every byte the host sends is delivered once, in      *)
(* order and unchanged, for every burst, pause and glitch within the       *)
(* bounds of RxClocksAgree; then the transmitter and the host that listens *)
(* to it; then the two together.                                           *)
(***************************************************************************)
EXTENDS MCLines, UartTx_proofs, FiniteSetTheorems

-----------------------------------------------------------------------------
(* The receiver at the end of its line.                                    *)

FrameLen == StopBit + 1
Edge(j)  == j * HOSTCYCLE       \* the clock of a frame at which its bit j begins

(* A receiver that has waited for the end of a frame may find the start bit*)
(* of the next one late; how late the n-th frame of a burst may be found.  *)
Loss == IF Begin(FrameLen) + 2 > Edge(FrameLen) THEN Begin(FrameLen) + 2 - Edge(FrameLen) ELSE 0
Late(n) == (n - 1) * Loss

(* The drift the receiver bears.  It sees a start bit after 6 clocks.  Then*)
(* the sample of every bit, late as it may be, falls into its bit; the     *)
(* receiver waits for the next start bit no earlier than in the stop bit,  *)
(* and before the pause after a burst is over; and a glitch is over when   *)
(* the start bit is checked, and forgotten when the pause after it is over.*)
RxClocksAgree ==
    /\ \A j \in 0 .. StopBit - 1 : /\ Edge(j) <= Begin(j) + Half + 6
                                   /\ Begin(j) + Half + 6 + Late(BURST) < Edge(j + 1)
    /\ Edge(StopBit) <= Begin(FrameLen) + 6
    /\ Begin(FrameLen) + 7 + Late(BURST) < Edge(FrameLen) + QUIET
    /\ GLITCH <= Half + 6 /\ Half + 4 < QUIET

(* The parity check of uart_rx.v is right for odd parity only.             *)
ParityChecked == PARITY_ON = 1 => PARITY_TYPE = 1

(* The clocks since the frame on the wire began, and since the pause did.  *)
Age == Edge(bit) + HOSTCYCLE - left
Paused == QUIET - left

(* The bit the receiver is in, and the clocks since it saw the start bit.  *)
RxBit ==
    IF rx_state = "START" THEN 0
    ELSE IF rx_state = "DATA" THEN (IF rx_baud_cnt \in 1 .. Half THEN r_rcv_cnt + 1 ELSE r_rcv_cnt)
    ELSE IF rx_state = "PARITY" THEN DATA_WIDTH + 1
    ELSE StopBit
Place == IF rx_baud_cnt = 0 THEN CYCLE ELSE rx_baud_cnt
RxTime == IF rx_state = "IDLE" THEN 0 ELSE Begin(RxBit) + Place

Free == rx_baud_valid = 0
Busy == rx_baud_valid = 1

(* The control of the receiver by itself, whatever the line does.          *)
RxBaudInv ==
    /\ Free => rx_state \in {"IDLE", "START"}
    /\ Busy /\ rx_state # "IDLE" => (rx_baud_pulse = 1 <=> rx_baud_cnt = Half)
    /\ Busy /\ rx_state = "IDLE" => rx_baud_cnt = 0
    /\ o_rx_done = 1 => rx_state = "END" /\ rx_baud_cnt = Half + 1
RxCountInv ==
    /\ rx_state = "START" \/ (rx_state = "IDLE" /\ Busy) => r_rcv_cnt = 0 /\ rx_parity = 0
    /\ rx_state = "DATA" => IF rx_baud_cnt \in 1 .. Half THEN r_rcv_cnt < DATA_WIDTH
                                                        ELSE r_rcv_cnt > 0
    /\ rx_state = "PARITY" => PARITY_ON = 1
    /\ rx_state \in {"PARITY", "END"} => r_rcv_cnt = DATA_WIDTH

RxInv == RxTypeOK /\ RxBaudInv /\ RxCountInv

WireTypes ==
    /\ wire \in {"idle", "frame", "glitch"} /\ bit \in 0 .. StopBit
    /\ hdata \in Data /\ burst \in 0 .. BURST
    /\ wire = "idle" => left \in 0 .. QUIET
    /\ wire = "frame" => left \in 1 .. HOSTCYCLE /\ burst >= 1
    /\ wire = "glitch" => left \in 1 .. GLITCH /\ burst = BURST

BitLevel(j) ==
    IF j = 0 THEN 0 ELSE IF j \in 1 .. DATA_WIDTH THEN hdata[j]
    ELSE IF j = StopBit THEN 1 ELSE ParityBit(hdata)

(* What the receiver remembers of the line: its last six clocks.           *)
SyncInv ==
    /\ wire = "frame" =>
         sync_uart_rx = IF left < HOSTCYCLE THEN BitLevel(bit)
                        ELSE IF bit = 0 THEN 1 ELSE BitLevel(bit - 1)
    /\ wire = "idle" /\ (burst < BURST \/ left < QUIET) => sync_uart_rx = 1
    /\ wire = "glitch" /\ sync_uart_rx = 0 => left + 1 <= GLITCH
FlagInv ==
    \A i \in 1 .. 5 :
        /\ wire = "frame" /\ bit = 0 =>
             r_flag_rcv_start[i] = IF HOSTCYCLE - left >= 7 - i THEN 0 ELSE 1
        /\ wire = "frame" /\ bit = StopBit /\ HOSTCYCLE - left >= 7 - i => r_flag_rcv_start[i] = 1
        /\ wire = "idle" /\ (burst < BURST \/ Paused >= 7 - i) => r_flag_rcv_start[i] = 1
        /\ wire = "glitch" /\ r_flag_rcv_start[i] = 0 => left + 7 - i <= GLITCH

(* What a busy receiver is busy with: a glitch, or a frame, which may be   *)
(* the one before the frame on the wire; that one is fresh.                *)
FalseStarting == Busy /\ wire # "frame" /\ RxTime <= Half
Receiving == Busy /\ ~FalseStarting
Fresh == wire = "frame" /\ (IF Busy THEN Age < RxTime + 7 ELSE Age < HOSTCYCLE)
Done == rx_state = "END" /\ (rx_baud_cnt = 0 \/ rx_baud_cnt > Half + 1)
Undone == Receiving /\ ~Done

(* How far the receiver and the line can be apart.                         *)
PhaseInv ==
    /\ Free /\ rx_state = "START" => wire = "idle" /\ burst = BURST /\ Paused <= Half + 3
    /\ Free /\ wire = "frame" =>
         Age <= 6 + Late(burst) \/ Edge(StopBit) + 2 <= Age
    /\ FalseStarting /\ wire = "glitch" => RxTime + 7 + left <= GLITCH
    /\ FalseStarting /\ wire = "idle" =>
         burst = BURST /\ RxTime < Half + Paused /\ Paused <= RxTime + 2
    /\ Receiving => wire # "glitch"
    /\ Receiving /\ wire = "frame" /\ ~Fresh => Age <= RxTime + 7 + Late(burst)
    /\ Receiving /\ wire = "idle" =>
         burst >= 1 /\ Edge(FrameLen) + Paused <= RxTime + 7 + Late(burst)
    /\ Receiving /\ Fresh =>
         burst >= 2 /\ Edge(FrameLen) + Age <= RxTime + 7 + Late(burst - 1)

(* The bytes sent and not delivered: the one being received, the fresh one.*)
Owed == (IF Undone THEN 1 ELSE 0) + (IF Fresh THEN 1 ELSE 0)
ExpectedInv ==
    /\ expected \in Seq(Data) /\ Len(expected) = Owed
    /\ Fresh \/ (Undone /\ wire = "frame") => expected[Len(expected)] = hdata

(* What has been received of it.                                           *)
OnesTo(d, k) == Cardinality({i \in 1 .. k : d[i] = 1})
Shifted(r, k, d) == \A i \in 1 .. k : r[DATA_WIDTH - k + i] = d[i]

DataInv ==
    Undone =>
        /\ Shifted(r_data_rcv, r_rcv_cnt, Head(expected))
        /\ rx_parity = OnesTo(Head(expected), r_rcv_cnt) % 2
        /\ rx_state = "PARITY" /\ rx_baud_cnt \notin 1 .. Half => o_ld_parity = 1
        /\ rx_state = "END" /\ PARITY_ON = 1 => o_ld_parity = 1
        /\ rx_state = "END" /\ rx_baud_cnt = Half + 1 =>
             o_rx_done = 1 /\ o_uart_data = Head(expected)

RxLineInv ==
    RxInv /\ WireTypes /\ SyncInv /\ FlagInv /\ PhaseInv /\ ExpectedInv /\ DataInv

-----------------------------------------------------------------------------
(* The control of the receiver, and its registers.                         *)

LEMMA ShiftIn ==
    ASSUME NEW n \in Nat, n >= 1, NEW r \in [1 .. n -> {0, 1}], NEW b \in {0, 1}
    PROVE  /\ Append(Tail(r), b) \in [1 .. n -> {0, 1}]
           /\ \A k \in 1 .. n - 1 : Append(Tail(r), b)[k] = r[k + 1]
           /\ Append(Tail(r), b)[n] = b
<1>1. r \in Seq({0, 1}) /\ Len(r) = n
    OBVIOUS
<1>2. /\ Tail(r) \in Seq({0, 1}) /\ Len(Tail(r)) = n - 1
      /\ \A k \in 1 .. n - 1 : Tail(r)[k] = r[k + 1]
    BY <1>1
<1> DEFINE t == Tail(r)
<1> HIDE DEF t
<1>3. t \in Seq({0, 1}) /\ Len(t) = n - 1
    BY <1>2 DEF t
<1>4. /\ Append(t, b) \in Seq({0, 1}) /\ Len(Append(t, b)) = n
      /\ \A k \in 1 .. n - 1 : Append(t, b)[k] = t[k]
      /\ Append(t, b)[n] = b
    BY <1>3
<1>5. Append(t, b) \in [1 .. n -> {0, 1}]
    BY <1>4, LenProperties
<1> QED BY <1>2, <1>4, <1>5 DEF t

LEMMA FlagType ==
    ASSUME NEW r \in [1 .. 5 -> {0, 1}], NEW b \in {0, 1}
    PROVE  /\ Append(Tail(r), b) \in [1 .. 5 -> {0, 1}]
           /\ \A k \in 1 .. 4 : Append(Tail(r), b)[k] = r[k + 1]
           /\ Append(Tail(r), b)[5] = b
<1>1. PICK n \in Nat : n = 5
    OBVIOUS
<1>2. r \in [1 .. n -> {0, 1}] /\ n >= 1 /\ n - 1 = 4
    BY <1>1
<1>3. /\ Append(Tail(r), b) \in [1 .. n -> {0, 1}]
      /\ \A k \in 1 .. n - 1 : Append(Tail(r), b)[k] = r[k + 1]
      /\ Append(Tail(r), b)[n] = b
    BY <1>2, ShiftIn
<1> QED BY <1>1, <1>2, <1>3

LEMMA RxInvInit == RxInit => RxInv
<1> SUFFICES ASSUME RxInit PROVE RxInv
    OBVIOUS
<1>1. NoData \in Data
    BY DEF NoData, Data
<1>2. r_flag_rcv_start \in [1 .. 5 -> {0, 1}]
    BY DEF RxInit
<1>3. RxTypeOK
    BY <1>1, <1>2, HalfBit DEF RxInit, RxTypeOK
<1>4. RxBaudInv
    BY DEF RxInit, RxBaudInv, Free, Busy
<1>5. RxCountInv
    BY DEF RxInit, RxCountInv, Busy
<1> QED BY <1>3, <1>4, <1>5 DEF RxInv

(* The registers of the two counters and of the line.                      *)
LEMMA RxBaudStep ==
    ASSUME RxTypeOK, NEW rx \in {0, 1}, RxClock(rx)
    PROVE  /\ rx_baud_cnt' = IF Free \/ rx_baud_cnt = CYCLE - 1 THEN 0 ELSE rx_baud_cnt + 1
           /\ rx_baud_cnt' \in 0 .. CYCLE - 1 /\ rx_baud_pulse' \in {0, 1}
           /\ rx_baud_pulse' = 1 <=> rx_baud_cnt = Half - 1
           /\ rx_state' = IF Free THEN "IDLE" ELSE IF rx_baud_cnt = 0 THEN RxAfter ELSE rx_state
           /\ sync_uart_rx' = rx /\ r_flag_rcv_start' = Append(Tail(r_flag_rcv_start), sync_uart_rx)
           /\ sync_uart_rx' \in {0, 1} /\ r_flag_rcv_start' \in [1 .. 5 -> {0, 1}]
<1>1. RxBaud /\ RxMove /\ Sample(rx)
    BY DEF RxClock
<1>2. /\ rx_baud_cnt' = IF Free \/ rx_baud_cnt = CYCLE - 1 THEN 0 ELSE rx_baud_cnt + 1
      /\ rx_baud_pulse' = IF rx_baud_cnt = Half - 1 THEN 1 ELSE 0
      /\ rx_state' = IF Free THEN "IDLE" ELSE IF rx_baud_cnt = 0 THEN RxAfter ELSE rx_state
    BY <1>1 DEF RxBaud, RxMove, Free, Half
<1>3. rx_baud_cnt' \in 0 .. CYCLE - 1
    BY <1>2, HalfBit DEF RxTypeOK
<1>4. sync_uart_rx' = rx /\ r_flag_rcv_start' = Append(Tail(r_flag_rcv_start), sync_uart_rx)
    BY <1>1 DEF Sample
<1>5. r_flag_rcv_start' \in [1 .. 5 -> {0, 1}]
    BY <1>4, FlagType DEF RxTypeOK
<1> QED BY <1>2, <1>3, <1>4, <1>5

LEMMA RxInvStep ==
    ASSUME RxInv, NEW rx \in {0, 1}, RxClock(rx)
    PROVE  RxInv'
<1>1. RxTypeOK /\ RxBaudInv /\ RxCountInv
    BY DEF RxInv
<1>2. /\ rx_baud_cnt' = IF Free \/ rx_baud_cnt = CYCLE - 1 THEN 0 ELSE rx_baud_cnt + 1
      /\ rx_baud_cnt' \in 0 .. CYCLE - 1 /\ rx_baud_pulse' \in {0, 1}
      /\ rx_baud_pulse' = 1 <=> rx_baud_cnt = Half - 1
      /\ rx_state' = IF Free THEN "IDLE" ELSE IF rx_baud_cnt = 0 THEN RxAfter ELSE rx_state
      /\ sync_uart_rx' \in {0, 1} /\ r_flag_rcv_start' \in [1 .. 5 -> {0, 1}]
    BY <1>1, RxBaudStep
<1>3. CASE RxIdle
  <2>1. /\ rx_state = "IDLE" /\ r_rcv_cnt' = 0 /\ r_data_rcv' = NoData /\ rx_parity' = 0
        /\ o_rx_done' = 0 /\ rx_baud_valid' = (IF StartSeen THEN 1 ELSE rx_baud_valid)
        /\ o_uart_data' = o_uart_data /\ o_ld_parity' = o_ld_parity
      BY <1>3 DEF RxIdle
  <2>2. rx_state' = IF Free \/ rx_baud_cnt # 0 THEN "IDLE" ELSE "START"
      BY <1>2, <2>1 DEF RxAfter
  <2>3. NoData \in Data
      BY DEF NoData, Data
  <2>4. RxTypeOK'
      BY <1>1, <1>2, <2>1, <2>2, <2>3, HalfBit DEF RxTypeOK
  <2>5. RxBaudInv'
      BY <1>1, <1>2, <2>1, <2>2, HalfBit DEF RxTypeOK, RxBaudInv, Free, Busy
  <2>6. RxCountInv'
      BY <1>1, <1>2, <2>1, <2>2, HalfBit DEF RxTypeOK, RxCountInv, RxBaudInv, Free, Busy
  <2> QED BY <2>4, <2>5, <2>6 DEF RxInv
<1>4. CASE RxStart
  <2>1. /\ rx_state = "START" /\ rx_baud_valid' = (IF FalseStart THEN 0 ELSE rx_baud_valid)
        /\ UNCHANGED <<r_rcv_cnt, r_data_rcv, rx_parity, o_uart_data, o_ld_parity, o_rx_done>>
      BY <1>4 DEF RxStart
  <2>2. rx_state' = IF Free THEN "IDLE" ELSE IF rx_baud_cnt = 0 THEN "DATA" ELSE "START"
      BY <1>2, <2>1 DEF RxAfter
  <2>3. rx_baud_valid' = 0 => Free \/ rx_baud_cnt = Half
      BY <1>1, <2>1 DEF RxTypeOK, RxBaudInv, FalseStart, Free, Busy
  <2>4. RxTypeOK'
      BY <1>1, <1>2, <2>1, <2>2 DEF RxTypeOK
  <2>5. o_rx_done' = 0 /\ r_rcv_cnt' = 0 /\ rx_parity' = 0
      BY <1>1, <2>1 DEF RxTypeOK, RxBaudInv, RxCountInv
  <2>6. RxBaudInv'
      BY <1>1, <1>2, <2>1, <2>2, <2>3, <2>4, <2>5, HalfBit DEF RxTypeOK, RxBaudInv, Free, Busy
  <2>7. RxCountInv'
      BY <1>1, <1>2, <2>1, <2>2, <2>5, HalfBit DEF RxTypeOK, RxCountInv, RxBaudInv, Free, Busy
  <2> QED BY <2>4, <2>6, <2>7 DEF RxInv
<1>5. CASE RxData
  <2>1. /\ rx_state = "DATA" /\ Busy /\ rx_baud_valid' = rx_baud_valid
        /\ o_uart_data' = o_uart_data /\ o_ld_parity' = o_ld_parity /\ o_rx_done' = o_rx_done
      BY <1>1, <1>5 DEF RxData, RxTypeOK, RxBaudInv, Free, Busy
  <2>2. rx_state' = IF rx_baud_cnt # 0 \/ r_rcv_cnt # DATA_WIDTH THEN "DATA"
                    ELSE IF PARITY_ON = 0 THEN "END" ELSE "PARITY"
      BY <1>2, <2>1 DEF RxAfter, Free, Busy
  <2>3. o_rx_done' = 0
      BY <1>1, <2>1 DEF RxTypeOK, RxBaudInv
  <2>4. CASE rx_baud_pulse = 1
    <3>1. /\ r_data_rcv' = Append(Tail(r_data_rcv), sync_uart_rx)
          /\ r_rcv_cnt' = (r_rcv_cnt + 1) % 16
          /\ rx_parity' = (rx_parity + sync_uart_rx) % 2
        BY <1>5, <2>4 DEF RxData
    <3>2. rx_baud_cnt = Half /\ rx_baud_cnt' = Half + 1 /\ r_rcv_cnt < DATA_WIDTH
        BY <1>1, <1>2, <2>1, <2>4, HalfBit DEF RxBaudInv, RxCountInv, Free, Busy
    <3>3. r_rcv_cnt' = r_rcv_cnt + 1 /\ r_rcv_cnt \in Nat
        BY <1>1, <3>1, <3>2, HalfBit DEF RxTypeOK
    <3>4. r_data_rcv' \in Data /\ rx_parity' \in {0, 1}
        BY <1>1, <3>1, ShiftType DEF RxTypeOK
    <3>5. rx_state' = "DATA"
        BY <2>2, <3>2, HalfBit
    <3>6. RxTypeOK'
        BY <1>1, <1>2, <2>1, <3>2, <3>3, <3>4, <3>5, HalfBit DEF RxTypeOK
    <3>7. RxBaudInv' /\ RxCountInv'
        BY <1>1, <1>2, <2>1, <2>3, <3>2, <3>3, <3>5, <3>6, HalfBit
           DEF RxTypeOK, RxBaudInv, RxCountInv, Free, Busy
    <3> QED BY <3>6, <3>7 DEF RxInv
  <2>5. CASE rx_baud_pulse # 1
    <3>1. UNCHANGED <<r_data_rcv, r_rcv_cnt, rx_parity>>
        BY <1>1, <1>5, <2>5 DEF RxData, RxTypeOK
    <3>2. rx_baud_cnt # Half
        BY <1>1, <2>1, <2>5 DEF RxBaudInv
    <3>3. RxTypeOK'
        BY <1>1, <1>2, <2>1, <2>2, <2>3, <3>1 DEF RxTypeOK
    <3>4. RxBaudInv'
        BY <1>1, <1>2, <2>1, <2>2, <2>3, <3>2, <3>3, HalfBit DEF RxTypeOK, RxBaudInv, Free, Busy
    <3>5. RxCountInv'
      <4>1. /\ r_rcv_cnt' = r_rcv_cnt
            /\ rx_baud_cnt' = IF rx_baud_cnt = CYCLE - 1 THEN 0 ELSE rx_baud_cnt + 1
          BY <1>2, <2>1, <3>1 DEF Free, Busy
      <4>2. rx_state' = "DATA" => IF rx_baud_cnt' \in 1 .. Half THEN r_rcv_cnt' < DATA_WIDTH
                                                              ELSE r_rcv_cnt' > 0
          BY <1>1, <2>1, <2>2, <3>2, <4>1, HalfBit DEF RxTypeOK, RxCountInv
      <4>3. rx_state' \in {"PARITY", "END"} => r_rcv_cnt' = DATA_WIDTH
          BY <2>2, <4>1
      <4>4. rx_state' = "PARITY" => PARITY_ON = 1
          BY <2>2, FrameFormat
      <4> QED BY <2>2, <4>2, <4>3, <4>4 DEF RxCountInv
    <3> QED BY <3>3, <3>4, <3>5 DEF RxInv
  <2> QED BY <2>4, <2>5
<1>6. CASE RxParity
  <2>1. /\ rx_state = "PARITY" /\ Busy /\ rx_baud_valid' = rx_baud_valid
        /\ UNCHANGED <<r_rcv_cnt, r_data_rcv, rx_parity, o_uart_data, o_rx_done>>
      BY <1>1, <1>6 DEF RxParity, RxTypeOK, RxBaudInv, Free, Busy
  <2>2. o_ld_parity' \in {0, 1}
      BY <1>1, <1>6 DEF RxParity, RxTypeOK
  <2>3. rx_state' = IF rx_baud_cnt = 0 THEN "END" ELSE "PARITY"
      BY <1>2, <2>1 DEF RxAfter, Free, Busy
  <2>4. o_rx_done' = 0
      BY <1>1, <2>1 DEF RxTypeOK, RxBaudInv
  <2>5. RxTypeOK'
      BY <1>1, <1>2, <2>1, <2>2, <2>3 DEF RxTypeOK
  <2>6. RxBaudInv' /\ RxCountInv'
      BY <1>1, <1>2, <2>1, <2>3, <2>4, <2>5, HalfBit
         DEF RxTypeOK, RxBaudInv, RxCountInv, Free, Busy
  <2> QED BY <2>5, <2>6 DEF RxInv
<1>7. CASE RxEnd
  <2>1. /\ rx_state = "END" /\ Busy
        /\ rx_baud_valid' = (IF rx_baud_cnt = 0 THEN 0 ELSE rx_baud_valid)
        /\ UNCHANGED <<r_rcv_cnt, r_data_rcv, rx_parity, o_ld_parity>>
        /\ o_rx_done' = RxDone
      BY <1>1, <1>7 DEF RxEnd, RxTypeOK, RxBaudInv, Free, Busy
  <2>2. rx_state' = IF rx_baud_cnt = 0 THEN "IDLE" ELSE "END"
      BY <1>2, <2>1 DEF RxAfter, Free, Busy
  <2>3. o_uart_data' \in Data
      BY <1>1, <1>7 DEF RxEnd, RxTypeOK
  <2>4. o_rx_done' \in {0, 1} /\ (o_rx_done' = 1 => rx_baud_cnt = Half)
    <3>1. CASE rx_baud_pulse = 1
        BY <1>1, <2>1, <3>1 DEF RxDone, RxTypeOK, RxBaudInv
    <3>2. CASE rx_baud_pulse = 0
        BY <2>1, <3>2 DEF RxDone
    <3> QED BY <1>1, <3>1, <3>2 DEF RxTypeOK
  <2>5. RxTypeOK'
      BY <1>1, <1>2, <2>1, <2>2, <2>3, <2>4 DEF RxTypeOK
  <2>6. RxBaudInv'
      BY <1>1, <1>2, <2>1, <2>2, <2>4, <2>5, HalfBit DEF RxTypeOK, RxBaudInv, Free, Busy
  <2>7. RxCountInv'
      BY <1>1, <1>2, <2>1, <2>2, <2>5, HalfBit DEF RxTypeOK, RxCountInv, Free, Busy
  <2> QED BY <2>5, <2>6, <2>7 DEF RxInv
<1> QED BY <1>3, <1>4, <1>5, <1>6, <1>7 DEF RxClock

-----------------------------------------------------------------------------
(* The line: the ones of a byte, its parity bit, and the level of a bit.   *)

LEMMA OnesCount ==
    ASSUME NEW d \in Data
    PROVE  /\ OnesTo(d, 0) = 0 /\ OnesTo(d, DATA_WIDTH) = Ones(d)
           /\ \A k \in 0 .. DATA_WIDTH : OnesTo(d, k) \in Nat
           /\ \A k \in 0 .. DATA_WIDTH - 1 : OnesTo(d, k + 1) = OnesTo(d, k) + d[k + 1]
           /\ Ones(d) \in Nat /\ ParityBit(d) \in {0, 1}
<1>1. DATA_WIDTH \in Nat /\ DOMAIN d = 1 .. DATA_WIDTH
    BY HalfBit DEF Data
<1>2. ASSUME NEW k \in 0 .. DATA_WIDTH
      PROVE  IsFiniteSet({i \in 1 .. k : d[i] = 1}) /\ OnesTo(d, k) \in Nat
  <2>1. IsFiniteSet(1 .. k)
      BY <1>1, FS_Interval
  <2>2. IsFiniteSet({i \in 1 .. k : d[i] = 1})
      BY <2>1, FS_Subset
  <2> QED BY <2>2, FS_CardinalityType DEF OnesTo
<1>3. OnesTo(d, 0) = 0
  <2>1. {i \in 1 .. 0 : d[i] = 1} = {}
      OBVIOUS
  <2> QED BY <2>1, FS_EmptySet DEF OnesTo
<1>4. OnesTo(d, DATA_WIDTH) = Ones(d)
    BY <1>1 DEF OnesTo, Ones
<1>5. ASSUME NEW k \in 0 .. DATA_WIDTH - 1
      PROVE  OnesTo(d, k + 1) = OnesTo(d, k) + d[k + 1]
  <2> DEFINE S == {i \in 1 .. k : d[i] = 1}
  <2>1. k \in 0 .. DATA_WIDTH /\ k \in Nat /\ k + 1 \in 1 .. DATA_WIDTH
      BY <1>1
  <2>2. IsFiniteSet(S) /\ Cardinality(S) = OnesTo(d, k) /\ Cardinality(S) \in Nat
      BY <1>2, <2>1 DEF OnesTo
  <2>3. d[k + 1] \in {0, 1}
      BY <2>1 DEF Data
  <2>4. CASE d[k + 1] = 1
    <3>1. {i \in 1 .. k + 1 : d[i] = 1} = S \cup {k + 1} /\ k + 1 \notin S
        BY <2>1, <2>4
    <3>2. Cardinality(S \cup {k + 1}) = Cardinality(S) + 1
        BY <2>2, <3>1, FS_AddElement
    <3> QED BY <2>2, <2>4, <3>1, <3>2 DEF OnesTo
  <2>5. CASE d[k + 1] = 0
    <3>1. {i \in 1 .. k + 1 : d[i] = 1} = S
        BY <2>1, <2>5
    <3> QED BY <2>2, <2>5, <3>1 DEF OnesTo
  <2> QED BY <2>3, <2>4, <2>5
<1>6. Ones(d) \in Nat
  <2>1. DATA_WIDTH \in 0 .. DATA_WIDTH
      BY <1>1
  <2> QED BY <1>2, <1>4, <2>1
<1>7. ParityBit(d) \in {0, 1}
    BY <1>6, FrameFormat DEF ParityBit
<1> QED BY <1>2, <1>3, <1>4, <1>5, <1>6, <1>7

LEMMA LevelIs ==
    ASSUME WireTypes
    PROVE  /\ wire = "idle" => Level = 1
           /\ wire = "glitch" => Level = 0
           /\ wire = "frame" => Level = BitLevel(bit)
           /\ Level \in {0, 1} /\ StopBit \in Nat /\ StopBit = DATA_WIDTH + PARITY_ON + 1
<1>1. DATA_WIDTH \in Nat /\ StopBit \in Nat /\ StopBit = DATA_WIDTH + PARITY_ON + 1
    BY FrameFormat DEF StopBit
<1>2. wire = "idle" => Level = 1
    BY DEF Level
<1>3. wire = "glitch" => Level = 0
    BY DEF Level
<1>4. wire = "frame" => Level = BitLevel(bit)
  <2> SUFFICES ASSUME wire = "frame" PROVE Level = BitLevel(bit)
      OBVIOUS
  <2>1. CASE bit = 0
    <3>1. bit \notin 1 .. DATA_WIDTH /\ bit # StopBit
        BY <1>1, <2>1, FrameFormat
    <3> QED BY <2>1, <3>1 DEF Level, BitLevel
  <2>2. CASE bit \in 1 .. DATA_WIDTH
      BY <1>1, <2>2, FrameFormat DEF Level, BitLevel, StopBit
  <2>3. CASE bit = StopBit
      BY <1>1, <2>3, FrameFormat DEF Level, BitLevel
  <2>4. CASE bit # 0 /\ bit \notin 1 .. DATA_WIDTH /\ bit # StopBit
      BY <2>4 DEF Level, BitLevel
  <2> QED BY <2>1, <2>2, <2>3, <2>4
<1>5. BitLevel(bit) \in {0, 1}
  <2>1. hdata \in Data /\ ParityBit(hdata) \in {0, 1}
      BY OnesCount DEF WireTypes
  <2> QED BY <2>1 DEF BitLevel, Data
<1> QED BY <1>1, <1>2, <1>3, <1>4, <1>5 DEF WireTypes

LEMMA WireTypesStep ==
    ASSUME WireTypes, LineNext
    PROVE  WireTypes'
<1>1. /\ HOSTCYCLE \in Nat /\ HOSTCYCLE >= 1 /\ BURST \in Nat /\ BURST >= 1
      /\ QUIET \in Nat /\ GLITCH \in Nat /\ StopBit \in Nat
    BY LineAssumption, LevelIs
<1>2. StopBit' = StopBit /\ Data' = Data
    BY DEF StopBit, Data
<1> USE <1>1, <1>2 DEF WireTypes
<1>3. CASE \E d \in Data : StartFrame(d)
    BY <1>3 DEF StartFrame, FrameOver
<1>4. CASE NextBit
    BY <1>4 DEF NextBit
<1>5. CASE Pause
    BY <1>5 DEF Pause, FrameOver
<1>6. CASE StartGlitch
    BY <1>6 DEF StartGlitch
<1>7. CASE Hold
  <2>1. wire' = wire /\ bit' = bit /\ hdata' = hdata /\ burst' = burst
      BY <1>7 DEF Hold
  <2>2. left' = (IF left > 0 THEN left - 1 ELSE 0) /\ (left > 1 \/ wire = "idle")
      BY <1>7 DEF Hold
  <2> QED BY <2>1, <2>2
<1> QED BY <1>3, <1>4, <1>5, <1>6, <1>7 DEF LineNext

(* The clocks of the line and of the receiver.                             *)
LEMMA LateGrows ==
    /\ Loss \in Nat /\ Late(1) = 0 /\ Begin(FrameLen) + 2 <= Edge(FrameLen) + Loss
    /\ \A n \in 1 .. BURST : /\ Late(n) \in Nat /\ Late(n) <= Late(BURST)
                             /\ Late(n + 1) = Late(n) + Loss
<1>1. StopBit \in Nat /\ FrameLen \in Nat /\ CYCLE \in Nat /\ HOSTCYCLE \in Nat /\ BURST \in Nat
  <2>1. StopBit \in Nat
      BY FrameFormat DEF StopBit
  <2>2. FrameLen \in Nat
      BY <2>1 DEF FrameLen
  <2> QED BY <2>1, <2>2, HalfBit, LineAssumption
<1>2. Begin(FrameLen) \in Nat /\ Edge(FrameLen) \in Nat
    BY <1>1 DEF Begin, Edge
<1>3. Loss \in Nat /\ Begin(FrameLen) + 2 <= Edge(FrameLen) + Loss
    BY <1>2 DEF Loss
<1>4. Late(1) = 0
    BY <1>3 DEF Late
<1>5. ASSUME NEW n \in 1 .. BURST
      PROVE  Late(n) \in Nat /\ Late(n) <= Late(BURST) /\ Late(n + 1) = Late(n) + Loss
  <2>1. n - 1 \in Nat /\ BURST - 1 \in Nat /\ n - 1 <= BURST - 1
      BY <1>1
  <2>2. Late(n) \in Nat /\ Late(n + 1) = Late(n) + Loss
      BY <1>3, <2>1 DEF Late
  <2>3. Late(n) <= Late(BURST)
      BY <1>3, <2>1, Monotone DEF Late
  <2> QED BY <2>2, <2>3
<1> QED BY <1>3, <1>4, <1>5

LEMMA Edges ==
    /\ StopBit \in Nat /\ StopBit = DATA_WIDTH + PARITY_ON + 1 /\ StopBit >= 2
    /\ StopBit > DATA_WIDTH /\ FrameLen = StopBit + 1 /\ HOSTCYCLE \in Nat
    /\ \A j \in Nat : /\ Edge(j) \in Nat /\ Edge(j + 1) = Edge(j) + HOSTCYCLE
                      /\ Begin(j) \in Nat /\ Begin(j + 1) = Begin(j) + CYCLE
    /\ \A a, b \in Nat : a <= b => Edge(a) <= Edge(b) /\ Begin(a) <= Begin(b)
    /\ Edge(0) = 0 /\ Begin(0) = 0 /\ Edge(FrameLen) = Edge(StopBit) + HOSTCYCLE
    /\ Begin(FrameLen) = Begin(StopBit) + CYCLE
<1>1. StopBit \in Nat /\ StopBit = DATA_WIDTH + PARITY_ON + 1 /\ StopBit >= 2
      /\ StopBit > DATA_WIDTH /\ FrameLen = StopBit + 1 /\ HOSTCYCLE \in Nat /\ CYCLE \in Nat
    BY HalfBit, FrameFormat, LineAssumption DEF FrameLen, StopBit
<1>2. \A j \in Nat : /\ Edge(j) \in Nat /\ Edge(j + 1) = Edge(j) + HOSTCYCLE
                     /\ Begin(j) \in Nat /\ Begin(j + 1) = Begin(j) + CYCLE
    BY <1>1 DEF Edge, Begin
<1>3. \A a, b \in Nat : a <= b => Edge(a) <= Edge(b) /\ Begin(a) <= Begin(b)
    BY <1>1, Monotone DEF Edge, Begin
<1>4. Edge(0) = 0 /\ Begin(0) = 0
    BY <1>1 DEF Edge, Begin
<1> QED BY <1>1, <1>2, <1>3, <1>4

(* The clocks that agree, told of the whole frame.                         *)
LEMMA RxClocks ==
    ASSUME RxClocksAgree
    PROVE  /\ Half + 6 + Late(BURST) < HOSTCYCLE /\ Late(BURST) \in Nat /\ BURST \in Nat
           /\ Edge(StopBit) <= Begin(FrameLen) + 6
           /\ Begin(FrameLen) + 7 + Late(BURST) < Edge(FrameLen) + QUIET
           /\ GLITCH <= Half + 6 /\ Half + 4 < QUIET /\ QUIET \in Nat /\ GLITCH \in Nat
           /\ \A j \in 0 .. StopBit - 1 :
                 Begin(j) + Half + 8 + Late(BURST) + HOSTCYCLE <= Edge(FrameLen) + 1
<1>1. BURST \in Nat /\ BURST \in 1 .. BURST /\ QUIET \in Nat /\ GLITCH \in Nat
    BY LineAssumption
<1>2. Late(BURST) \in Nat
    BY <1>1, LateGrows
<1>3. Half + 6 + Late(BURST) < HOSTCYCLE
  <2>1. Edge(1) = HOSTCYCLE /\ 0 \in 0 .. StopBit - 1 /\ 0 + 1 = 1
      BY Edges DEF Edge
  <2> QED BY <1>2, <2>1, Edges, HalfBit DEF RxClocksAgree
<1>4. ASSUME NEW j \in 0 .. StopBit - 1
      PROVE  Begin(j) + Half + 8 + Late(BURST) + HOSTCYCLE <= Edge(FrameLen) + 1
  <2>1. j \in Nat /\ j + 1 \in Nat /\ j + 1 <= StopBit
      BY Edges
  <2>2. Begin(j) + Half + 6 + Late(BURST) < Edge(j + 1)
      BY DEF RxClocksAgree
  <2>3. Edge(j + 1) <= Edge(StopBit)
      BY <2>1, Edges
  <2>4. Begin(j) \in Nat /\ Edge(j + 1) \in Nat /\ Edge(StopBit) \in Nat
      BY <2>1, Edges
  <2>5. Edge(FrameLen) = Edge(StopBit) + HOSTCYCLE /\ HOSTCYCLE \in Nat /\ Half \in Nat
      BY Edges, HalfBit
  <2> QED BY <1>2, <2>2, <2>3, <2>4, <2>5
<1> QED BY <1>1, <1>2, <1>3, <1>4 DEF RxClocksAgree

(* A sample of the receiver is the bit it means to take.                   *)
LEMMA SampleIs ==
    ASSUME RxClocksAgree, WireTypes, SyncInv, wire = "frame",
           NEW j \in 0 .. StopBit - 1, NEW t \in Nat, t = Begin(j) + Half,
           t + 7 <= Age, Age <= t + 7 + Late(BURST)
    PROVE  sync_uart_rx = BitLevel(j)
<1>1. /\ j \in Nat /\ j + 1 \in Nat /\ bit \in Nat /\ bit + 1 \in Nat /\ left \in 1 .. HOSTCYCLE
      /\ HOSTCYCLE \in Nat
    BY Edges DEF WireTypes
<1>2. /\ Edge(j) \in Nat /\ Edge(j + 1) = Edge(j) + HOSTCYCLE
      /\ Edge(bit) \in Nat /\ Edge(bit + 1) = Edge(bit) + HOSTCYCLE
    BY <1>1, Edges
<1>3. Age = Edge(bit) + HOSTCYCLE - left /\ Age \in Nat
    BY <1>1, <1>2 DEF Age
<1>4. Edge(j) + 1 <= Age /\ Age <= Edge(j + 1)
  <2>1. /\ Edge(j) <= Begin(j) + Half + 6
        /\ Begin(j) + Half + 6 + Late(BURST) < Edge(j + 1)
      BY DEF RxClocksAgree
  <2>2. Begin(j) \in Nat /\ Half \in Nat /\ Late(BURST) \in Nat
      BY <1>1, Edges, HalfBit, RxClocks
  <2> QED BY <1>1, <1>2, <1>3, <2>1, <2>2
<1>5. ~(bit + 1 <= j)
  <2>1. bit + 1 <= j => Edge(bit + 1) <= Edge(j)
      BY <1>1, Edges
  <2> QED BY <1>1, <1>2, <1>3, <1>4, <2>1
<1>6. ~(j + 2 <= bit)
  <2>1. (j + 1) + 1 \in Nat /\ Edge((j + 1) + 1) = Edge(j + 1) + HOSTCYCLE
      BY <1>1, Edges
  <2>2. j + 2 <= bit => Edge((j + 1) + 1) <= Edge(bit)
      BY <1>1, <2>1, Edges
  <2>3. HOSTCYCLE > 0
      BY <1>1
  <2> QED BY <1>1, <1>2, <1>3, <1>4, <2>1, <2>2, <2>3
<1>7. CASE bit = j
  <2>1. left < HOSTCYCLE
      BY <1>1, <1>2, <1>3, <1>4, <1>7
  <2> QED BY <1>7, <2>1 DEF SyncInv
<1>8. CASE bit = j + 1
  <2>1. left = HOSTCYCLE
      BY <1>1, <1>2, <1>3, <1>4, <1>8
  <2>2. bit # 0 /\ bit - 1 = j
      BY <1>1, <1>8
  <2> QED BY <1>1, <2>1, <2>2 DEF SyncInv
<1> QED BY <1>1, <1>5, <1>6, <1>7, <1>8

(* What the receiver remembers of the line.                                *)
LEMMA SyncStep ==
    ASSUME RxClocksAgree, RxInv, WireTypes, SyncInv, LineNext
    PROVE  SyncInv'
<1>1. /\ HOSTCYCLE \in Nat /\ HOSTCYCLE >= 9 /\ StopBit \in Nat /\ StopBit >= 2
      /\ StopBit > DATA_WIDTH /\ DATA_WIDTH \in Nat /\ GLITCH \in Nat /\ QUIET \in Nat
  <2>1. Half + 6 + Late(BURST) < HOSTCYCLE /\ Late(BURST) \in Nat /\ GLITCH \in Nat /\ QUIET \in Nat
      BY RxClocks
  <2>2. HOSTCYCLE \in Nat /\ StopBit \in Nat /\ StopBit >= 2 /\ StopBit > DATA_WIDTH
      BY Edges
  <2> QED BY <2>1, <2>2, HalfBit
<1>2. /\ sync_uart_rx' = Level
      /\ wire = "idle" => Level = 1
      /\ wire = "glitch" => Level = 0
      /\ wire = "frame" => Level = BitLevel(bit)
    BY LevelIs, RxBaudStep DEF LineNext, RxInv
<1>3. BitLevel(StopBit) = 1
    BY <1>1 DEF BitLevel
<1>4. FrameOver => Level = 1
    BY <1>2, <1>3 DEF FrameOver
<1>5. /\ bit \in Nat /\ wire \in {"idle", "frame", "glitch"}
      /\ wire = "frame" => left \in 1 .. HOSTCYCLE
      /\ wire = "idle" => left \in Nat
      /\ wire = "glitch" => left \in 1 .. GLITCH /\ burst = BURST
    BY <1>1 DEF WireTypes
<1>6. CASE \E d \in Data : StartFrame(d)
  <2>1. wire' = "frame" /\ bit' = 0 /\ left' = HOSTCYCLE /\ Level = 1
      BY <1>2, <1>4, <1>6 DEF StartFrame
  <2> QED BY <1>1, <1>2, <2>1 DEF SyncInv
<1>7. CASE NextBit
  <2>1. wire = "frame" /\ wire' = "frame" /\ bit' = bit + 1 /\ left' = HOSTCYCLE /\ hdata' = hdata
      BY <1>7 DEF NextBit
  <2>2. bit' # 0 /\ bit' - 1 = bit
      BY <1>5, <2>1
  <2>3. BitLevel(bit - 1)' = BitLevel(bit)
      BY <2>1, <2>2 DEF BitLevel, StopBit, ParityBit, Ones
  <2> QED BY <1>1, <1>2, <2>1, <2>2, <2>3 DEF SyncInv
<1>8. CASE Pause
  <2>1. wire' = "idle" /\ left' = QUIET /\ burst' = burst /\ (FrameOver \/ wire = "glitch")
      BY <1>8 DEF Pause
  <2>2. CASE FrameOver
    <3>1. sync_uart_rx' = 1
        BY <1>2, <1>4, <2>2
    <3> QED BY <2>1, <3>1 DEF SyncInv
  <2>3. CASE wire = "glitch"
    <3>1. ~(burst' < BURST \/ left' < QUIET)
        BY <1>1, <1>5, <2>1, <2>3, LineAssumption
    <3> QED BY <2>1, <3>1 DEF SyncInv
  <2> QED BY <2>1, <2>2, <2>3
<1>9. CASE StartGlitch
  <2>1. wire = "idle" /\ wire' = "glitch"
      BY <1>9 DEF StartGlitch
  <2> QED BY <1>2, <2>1 DEF SyncInv
<1>10. CASE Hold
  <2>1. /\ left' = (IF left > 0 THEN left - 1 ELSE 0) /\ (left > 1 \/ wire = "idle")
        /\ wire' = wire /\ bit' = bit /\ hdata' = hdata /\ burst' = burst
      BY <1>10 DEF Hold
  <2>2. BitLevel(bit)' = BitLevel(bit)
      BY <2>1 DEF BitLevel, StopBit, ParityBit, Ones
  <2>3. CASE wire = "frame"
      BY <1>1, <1>2, <1>5, <2>1, <2>2, <2>3 DEF SyncInv
  <2>4. CASE wire = "idle"
      BY <1>2, <2>1, <2>4 DEF SyncInv
  <2>5. CASE wire = "glitch"
      BY <1>1, <1>5, <2>1, <2>5 DEF SyncInv
  <2> QED BY <1>5, <2>3, <2>4, <2>5
<1> QED BY <1>6, <1>7, <1>8, <1>9, <1>10 DEF LineNext

(* A line that is about to carry a new frame has been high for six clocks. *)
LEMMA LineHigh ==
    ASSUME RxClocksAgree, WireTypes, SyncInv, FlagInv,
           FrameOver \/ (wire = "idle" /\ (burst < BURST \/ left = 0))
    PROVE  sync_uart_rx = 1 /\ \A i \in 1 .. 5 : r_flag_rcv_start[i] = 1
<1>1. /\ HOSTCYCLE \in Nat /\ HOSTCYCLE >= 9 /\ QUIET \in Nat /\ QUIET >= 7
  <2>1. Half + 6 + Late(BURST) < HOSTCYCLE /\ Late(BURST) \in Nat /\ QUIET \in Nat /\ Half + 4 < QUIET
      BY RxClocks
  <2> QED BY <2>1, Edges, HalfBit
<1>2. CASE FrameOver
  <2>1. wire = "frame" /\ bit = StopBit /\ left = 1
      BY <1>2 DEF FrameOver
  <2>2. BitLevel(bit) = 1
    <3>1. StopBit # 0 /\ StopBit \notin 1 .. DATA_WIDTH
        BY FrameFormat DEF StopBit
    <3> QED BY <2>1, <3>1 DEF BitLevel
  <2>3. sync_uart_rx = 1
      BY <1>1, <2>1, <2>2 DEF SyncInv
  <2>4. ASSUME NEW i \in 1 .. 5 PROVE r_flag_rcv_start[i] = 1
      BY <1>1, <2>1 DEF FlagInv
  <2> QED BY <2>3, <2>4
<1>3. CASE wire = "idle" /\ (burst < BURST \/ left = 0)
  <2>1. sync_uart_rx = 1
      BY <1>1, <1>3 DEF SyncInv
  <2>2. ASSUME NEW i \in 1 .. 5 PROVE r_flag_rcv_start[i] = 1
      BY <1>1, <1>3 DEF FlagInv, Paused
  <2> QED BY <2>1, <2>2
<1> QED BY <1>2, <1>3

LEMMA FlagStep ==
    ASSUME RxClocksAgree, RxInv, WireTypes, SyncInv, FlagInv, LineNext
    PROVE  FlagInv'
<1>1. /\ HOSTCYCLE \in Nat /\ HOSTCYCLE >= 9 /\ StopBit \in Nat /\ StopBit >= 2
      /\ GLITCH \in Nat /\ QUIET \in Nat /\ QUIET >= 7
  <2>1. /\ Half + 6 + Late(BURST) < HOSTCYCLE /\ Late(BURST) \in Nat
        /\ GLITCH \in Nat /\ QUIET \in Nat /\ Half + 4 < QUIET
      BY RxClocks
  <2> QED BY <2>1, Edges, HalfBit
<1>2. /\ \A i \in 1 .. 4 : r_flag_rcv_start'[i] = r_flag_rcv_start[i + 1]
      /\ r_flag_rcv_start'[5] = sync_uart_rx
  <2>1. r_flag_rcv_start' = Append(Tail(r_flag_rcv_start), sync_uart_rx)
      BY LevelIs, RxBaudStep DEF LineNext, RxInv
  <2>2. r_flag_rcv_start \in [1 .. 5 -> {0, 1}] /\ sync_uart_rx \in {0, 1}
      BY DEF RxInv, RxTypeOK
  <2> QED BY <2>1, <2>2, FlagType
<1>3. /\ bit \in Nat /\ wire \in {"idle", "frame", "glitch"}
      /\ wire = "frame" => left \in 1 .. HOSTCYCLE
      /\ wire = "idle" => left \in 0 .. QUIET
      /\ wire = "glitch" => left \in 1 .. GLITCH /\ burst = BURST
    BY <1>1 DEF WireTypes
<1>4. SUFFICES ASSUME NEW i \in 1 .. 5
      PROVE  /\ wire' = "frame" /\ bit' = 0 =>
                  r_flag_rcv_start'[i] = IF HOSTCYCLE - left' >= 7 - i THEN 0 ELSE 1
             /\ wire' = "frame" /\ bit' = StopBit /\ HOSTCYCLE - left' >= 7 - i =>
                  r_flag_rcv_start'[i] = 1
             /\ wire' = "idle" /\ (burst' < BURST \/ QUIET - left' >= 7 - i) =>
                  r_flag_rcv_start'[i] = 1
             /\ wire' = "glitch" /\ r_flag_rcv_start'[i] = 0 => left' + 7 - i <= GLITCH
    BY DEF FlagInv, Paused, StopBit
<1>5. /\ i < 5 => i + 1 \in 1 .. 5 /\ r_flag_rcv_start'[i] = r_flag_rcv_start[i + 1]
      /\ i = 5 => r_flag_rcv_start'[i] = sync_uart_rx
    BY <1>2
<1>6. FrameOver \/ (wire = "idle" /\ (burst < BURST \/ left = 0)) => r_flag_rcv_start'[i] = 1
    BY <1>5, LineHigh
<1>7. CASE \E d \in Data : StartFrame(d)
  <2>1. wire' = "frame" /\ bit' = 0 /\ left' = HOSTCYCLE /\ r_flag_rcv_start'[i] = 1
      BY <1>6, <1>7 DEF StartFrame
  <2> QED BY <1>1, <2>1
<1>8. CASE NextBit
  <2>1. wire' = "frame" /\ bit' # 0 /\ left' = HOSTCYCLE
      BY <1>3, <1>8 DEF NextBit
  <2> QED BY <1>1, <2>1
<1>9. CASE Pause
  <2>1. wire' = "idle" /\ left' = QUIET /\ burst' = burst /\ (FrameOver \/ wire = "glitch")
      BY <1>9 DEF Pause
  <2>2. CASE FrameOver
      BY <1>6, <2>1, <2>2
  <2>3. CASE wire = "glitch"
    <3>1. ~(burst' < BURST \/ QUIET - left' >= 7 - i)
        BY <1>1, <1>3, <2>1, <2>3, LineAssumption
    <3> QED BY <2>1, <3>1
  <2> QED BY <2>1, <2>2, <2>3
<1>10. CASE StartGlitch
  <2>1. wire = "idle" /\ left = 0 /\ wire' = "glitch"
      BY <1>10 DEF StartGlitch
  <2> QED BY <1>6, <2>1
<1>11. CASE Hold
  <2>1. /\ left' = (IF left > 0 THEN left - 1 ELSE 0) /\ (left > 1 \/ wire = "idle")
        /\ wire' = wire /\ bit' = bit /\ hdata' = hdata /\ burst' = burst
      BY <1>11 DEF Hold
  <2>2. CASE wire = "frame" /\ bit = 0
    <3>1. sync_uart_rx = IF left < HOSTCYCLE THEN 0 ELSE 1
        BY <2>2 DEF SyncInv, BitLevel
    <3>2. i < 5 => r_flag_rcv_start[i + 1] = IF HOSTCYCLE - left >= 7 - (i + 1) THEN 0 ELSE 1
        BY <1>5, <2>2 DEF FlagInv
    <3> QED BY <1>1, <1>3, <1>5, <2>1, <2>2, <3>1, <3>2
  <2>3. CASE wire = "frame" /\ bit = StopBit
    <3>1. left < HOSTCYCLE => sync_uart_rx = 1
      <4>1. StopBit # 0 /\ StopBit \notin 1 .. DATA_WIDTH
          BY FrameFormat DEF StopBit
      <4>2. BitLevel(bit) = 1
          BY <2>3, <4>1 DEF BitLevel
      <4> QED BY <2>3, <4>2 DEF SyncInv
    <3>2. i < 5 /\ HOSTCYCLE - left >= 7 - (i + 1) => r_flag_rcv_start[i + 1] = 1
        BY <1>5, <2>3 DEF FlagInv
    <3> QED BY <1>1, <1>3, <1>5, <2>1, <2>3, <3>1, <3>2
  <2>4. CASE wire = "idle"
    <3>1. burst < BURST \/ left < QUIET => sync_uart_rx = 1
        BY <2>4 DEF SyncInv
    <3>2. i < 5 /\ (burst < BURST \/ QUIET - left >= 7 - (i + 1)) => r_flag_rcv_start[i + 1] = 1
        BY <1>5, <2>4 DEF FlagInv, Paused
    <3> QED BY <1>1, <1>3, <1>5, <2>1, <2>4, <3>1, <3>2
  <2>5. CASE wire = "glitch"
    <3>1. sync_uart_rx = 0 => left + 1 <= GLITCH
        BY <2>5 DEF SyncInv
    <3>2. i < 5 /\ r_flag_rcv_start[i + 1] = 0 => left + 7 - (i + 1) <= GLITCH
        BY <1>5, <2>5 DEF FlagInv
    <3> QED BY <1>1, <1>3, <1>5, <2>1, <2>5, <3>1, <3>2
  <2> QED BY <1>3, <2>1, <2>2, <2>3, <2>4, <2>5
<1> QED BY <1>7, <1>8, <1>9, <1>10, <1>11 DEF LineNext

-----------------------------------------------------------------------------
(* How the clocks of the receiver go.                                      *)

LEMMA FrameClocks ==
    /\ CYCLE \in Nat /\ Half \in Nat /\ Half >= 2 /\ Half + 1 < CYCLE
    /\ StopBit \in Nat /\ Begin(0) = 0 /\ Begin(StopBit) \in Nat /\ CYCLE <= Begin(StopBit)
    /\ Begin(FrameLen) \in Nat /\ Begin(FrameLen) = Begin(StopBit) + CYCLE
    /\ \A j \in 0 .. StopBit - 1 : Begin(j) \in Nat /\ Begin(j) + CYCLE <= Begin(StopBit)
    /\ \A j \in 1 .. StopBit : Begin(j) \in Nat /\ CYCLE <= Begin(j)
<1>1. /\ CYCLE \in Nat /\ Half \in Nat /\ Half >= 2 /\ Half + 1 < CYCLE
      /\ StopBit \in Nat /\ StopBit >= 2 /\ Begin(0) = 0 /\ 0 \in Nat /\ 1 \in Nat
      /\ Begin(FrameLen) = Begin(StopBit) + CYCLE
    BY HalfBit, Edges
<1>2. Begin(StopBit) \in Nat /\ Begin(1) = CYCLE
  <2>1. Begin(0 + 1) = Begin(0) + CYCLE /\ 0 + 1 = 1
      BY <1>1, Edges
  <2> QED BY <1>1, <2>1, Edges
<1>3. ASSUME NEW j \in 0 .. StopBit - 1
      PROVE  Begin(j) \in Nat /\ Begin(j) + CYCLE <= Begin(StopBit)
  <2>1. j \in Nat /\ j + 1 \in Nat /\ j + 1 <= StopBit
      BY <1>1
  <2>2. Begin(j + 1) = Begin(j) + CYCLE /\ Begin(j) \in Nat /\ Begin(j + 1) <= Begin(StopBit)
      BY <1>1, <2>1, Edges
  <2> QED BY <2>2
<1>4. ASSUME NEW j \in 1 .. StopBit
      PROVE  Begin(j) \in Nat /\ CYCLE <= Begin(j)
  <2>1. j \in Nat /\ 1 <= j
      BY <1>1
  <2>2. Begin(1) <= Begin(j) /\ Begin(j) \in Nat
      BY <1>1, <2>1, Edges
  <2> QED BY <1>2, <2>2
<1>5. CYCLE <= Begin(StopBit)
    BY <1>1, <1>4
<1> QED BY <1>1, <1>2, <1>3, <1>4, <1>5

LEMMA RxBits ==
    ASSUME RxInv
    PROVE  /\ rx_state \in {"IDLE", "START", "DATA", "PARITY", "END"} /\ rx_baud_cnt \in 0 .. CYCLE - 1
           /\ Place \in 1 .. CYCLE
           /\ rx_baud_cnt = 0 => Place = CYCLE
           /\ rx_baud_cnt # 0 => Place = rx_baud_cnt
           /\ rx_state = "START" => RxBit = 0
           /\ rx_state = "DATA" => RxBit \in 1 .. StopBit - 1 /\ RxBit \in 1 .. DATA_WIDTH
           /\ rx_state = "PARITY" => RxBit \in 1 .. StopBit - 1 /\ RxBit = DATA_WIDTH + 1
           /\ rx_state = "END" => RxBit = StopBit
<1>1. /\ rx_state \in {"IDLE", "START", "DATA", "PARITY", "END"} /\ rx_baud_cnt \in 0 .. CYCLE - 1
      /\ r_rcv_cnt \in 0 .. DATA_WIDTH
    BY DEF RxInv, RxTypeOK
<1>2. /\ CYCLE \in Nat /\ CYCLE >= 1 /\ DATA_WIDTH \in Nat /\ StopBit \in Nat
      /\ StopBit = DATA_WIDTH + PARITY_ON + 1 /\ PARITY_ON \in {0, 1}
  <2>1. CYCLE \in Nat /\ CYCLE >= 1 /\ DATA_WIDTH \in Nat
      BY HalfBit
  <2>2. PARITY_ON \in {0, 1}
      BY FrameFormat
  <2> QED BY <2>1, <2>2 DEF StopBit
<1>3. Place \in 1 .. CYCLE /\ (rx_baud_cnt = 0 => Place = CYCLE)
      /\ (rx_baud_cnt # 0 => Place = rx_baud_cnt)
    BY <1>1, <1>2 DEF Place
<1>4. rx_state = "START" => RxBit = 0
    BY DEF RxBit
<1>5. rx_state = "DATA" => RxBit \in 1 .. DATA_WIDTH
  <2>1. CASE rx_baud_cnt \in 1 .. Half
    <3>1. rx_state = "DATA" => RxBit = r_rcv_cnt + 1 /\ r_rcv_cnt < DATA_WIDTH
        BY <2>1 DEF RxBit, RxInv, RxCountInv
    <3> QED BY <1>1, <1>2, <3>1
  <2>2. CASE rx_baud_cnt \notin 1 .. Half
    <3>1. rx_state = "DATA" => RxBit = r_rcv_cnt /\ r_rcv_cnt > 0
        BY <2>2 DEF RxBit, RxInv, RxCountInv
    <3> QED BY <1>1, <1>2, <3>1
  <2> QED BY <2>1, <2>2
<1>6. rx_state = "PARITY" => RxBit = DATA_WIDTH + 1 /\ PARITY_ON = 1
    BY DEF RxBit, RxInv, RxCountInv
<1>7. rx_state = "END" => RxBit = StopBit
    BY DEF RxBit
<1> QED BY <1>1, <1>2, <1>3, <1>4, <1>5, <1>6, <1>7

(* What the clock since the start bit says of the state.                   *)
LEMMA RxTimes ==
    ASSUME RxInv
    PROVE  /\ RxTime \in Nat /\ RxTime <= Begin(FrameLen)
           /\ rx_state = "IDLE" => RxTime = 0
           /\ rx_state = "START" => RxTime = Place
           /\ rx_state \in {"START", "DATA", "PARITY"} => RxTime <= Begin(StopBit)
           /\ rx_state \in {"DATA", "PARITY"} => RxTime > CYCLE
           /\ rx_state = "END" => RxTime = Begin(StopBit) + Place
           /\ RxTime = Half => rx_state = "START" /\ rx_baud_cnt = Half
           /\ RxTime = Begin(FrameLen) <=> rx_state = "END" /\ rx_baud_cnt = 0
           /\ Done <=> RxTime > Begin(StopBit) + Half + 1
           /\ rx_state = "END" /\ rx_baud_cnt = Half + 1 <=> RxTime = Begin(StopBit) + Half + 1
<1>1. /\ rx_state \in {"IDLE", "START", "DATA", "PARITY", "END"} /\ rx_baud_cnt \in 0 .. CYCLE - 1
      /\ Place \in 1 .. CYCLE
      /\ rx_baud_cnt = 0 => Place = CYCLE
      /\ rx_baud_cnt # 0 => Place = rx_baud_cnt
    BY RxBits
<1>2. /\ CYCLE \in Nat /\ Half \in Nat /\ Half >= 2 /\ Half + 1 < CYCLE
      /\ Begin(0) = 0 /\ Begin(StopBit) \in Nat /\ CYCLE <= Begin(StopBit)
      /\ Begin(FrameLen) \in Nat /\ Begin(FrameLen) = Begin(StopBit) + CYCLE
    BY FrameClocks
<1>3. CASE rx_state = "IDLE"
  <2>1. RxTime = 0
      BY <1>3 DEF RxTime
  <2> QED BY <1>2, <1>3, <2>1 DEF Done
<1>4. CASE rx_state = "START"
  <2>1. RxTime = Place
    <3>1. RxTime = Begin(0) + Place
        BY <1>4, RxBits DEF RxTime
    <3> QED BY <1>1, <1>2, <3>1
  <2> QED BY <1>1, <1>2, <1>4, <2>1 DEF Done
<1>5. CASE rx_state \in {"DATA", "PARITY"}
  <2>1. PICK j \in 1 .. StopBit - 1 : RxTime = Begin(j) + Place
    <3>1. RxBit \in 1 .. StopBit - 1 /\ RxTime = Begin(RxBit) + Place
        BY <1>5, RxBits DEF RxTime
    <3> QED BY <3>1
  <2>2. Begin(j) \in Nat /\ Begin(j) + CYCLE <= Begin(StopBit) /\ CYCLE <= Begin(j)
    <3>1. StopBit \in Nat /\ j \in 0 .. StopBit - 1 /\ j \in 1 .. StopBit
        BY FrameClocks
    <3> QED BY <3>1, FrameClocks
  <2> QED BY <1>1, <1>2, <1>5, <2>1, <2>2 DEF Done
<1>6. CASE rx_state = "END"
  <2>1. RxTime = Begin(StopBit) + Place
      BY <1>6, RxBits DEF RxTime
  <2> QED BY <1>1, <1>2, <1>6, <2>1 DEF Done
<1> QED BY <1>1, <1>3, <1>4, <1>5, <1>6

LEMMA RxTimeStep ==
    ASSUME RxInv, NEW rx \in {0, 1}, RxClock(rx)
    PROVE  /\ Free /\ rx_state = "IDLE" =>
                rx_state' = "IDLE" /\ RxTime' = 0 /\ (Busy' <=> StartSeen) /\ (Free' <=> ~StartSeen)
           /\ Free /\ rx_state = "START" => Free' /\ rx_state' = "IDLE"
           /\ Busy /\ RxTime = Half /\ sync_uart_rx = 1 => Free' /\ rx_state' = "START"
           /\ Busy /\ RxTime = Begin(FrameLen) => Free' /\ rx_state' = "IDLE"
           /\ Busy /\ RxTime # Begin(FrameLen) /\ ~(RxTime = Half /\ sync_uart_rx = 1) =>
                Busy' /\ RxTime' = RxTime + 1
<1>1. /\ rx_baud_cnt' = IF Free \/ rx_baud_cnt = CYCLE - 1 THEN 0 ELSE rx_baud_cnt + 1
      /\ rx_state' = IF Free THEN "IDLE" ELSE IF rx_baud_cnt = 0 THEN RxAfter ELSE rx_state
    BY RxBaudStep DEF RxInv
<1>2. /\ rx_state \in {"IDLE", "START", "DATA", "PARITY", "END"} /\ rx_baud_cnt \in 0 .. CYCLE - 1
      /\ Place \in 1 .. CYCLE
      /\ rx_baud_cnt = 0 => Place = CYCLE
      /\ rx_baud_cnt # 0 => Place = rx_baud_cnt
      /\ rx_baud_valid \in {0, 1} /\ r_rcv_cnt \in 0 .. DATA_WIDTH
    BY RxBits DEF RxInv, RxTypeOK
<1>3. /\ CYCLE \in Nat /\ Half \in Nat /\ Half >= 2 /\ Half + 1 < CYCLE /\ DATA_WIDTH \in 1 .. 15
      /\ Begin(0) = 0 /\ Begin(StopBit) \in Nat /\ CYCLE <= Begin(StopBit)
      /\ Begin(FrameLen) = Begin(StopBit) + CYCLE
    BY HalfBit, FrameClocks
<1>4. /\ rx_baud_cnt' = 0 => Place' = CYCLE
      /\ rx_baud_cnt' # 0 => Place' = rx_baud_cnt'
    BY DEF Place
<1>5. /\ rx_state' = "IDLE" => RxTime' = 0
      /\ rx_state' = "START" => RxTime' = Begin(0) + Place'
      /\ rx_state' = "DATA" /\ rx_baud_cnt' \in 1 .. Half => RxTime' = Begin(r_rcv_cnt' + 1) + Place'
      /\ rx_state' = "DATA" /\ rx_baud_cnt' \notin 1 .. Half => RxTime' = Begin(r_rcv_cnt') + Place'
      /\ rx_state' = "PARITY" => RxTime' = Begin(DATA_WIDTH + 1) + Place'
      /\ rx_state' = "END" => RxTime' = Begin(StopBit) + Place'
    BY DEF RxTime, RxBit, Begin, StopBit
<1>6. CASE rx_state = "IDLE"
  <2>1. RxIdle
      BY <1>6 DEF RxClock, RxIdle, RxStart, RxData, RxParity, RxEnd
  <2>2. rx_baud_valid' = IF StartSeen THEN 1 ELSE rx_baud_valid
      BY <2>1 DEF RxIdle
  <2>3. RxTime = 0 /\ RxTime # Begin(FrameLen) /\ RxTime # Half
      BY <1>3, <1>6, RxTimes
  <2>4. CASE Free
    <3>1. rx_state' = "IDLE" /\ RxTime' = 0
        BY <1>1, <1>5, <2>4
    <3> QED BY <1>6, <2>2, <2>4, <3>1 DEF Free, Busy
  <2>5. CASE Busy
    <3>1. rx_baud_cnt = 0 /\ ~Free
        BY <1>6, <2>5 DEF RxInv, RxBaudInv, Free, Busy
    <3>2. rx_state' = "START" /\ rx_baud_cnt' = 1 /\ Busy'
        BY <1>1, <1>3, <1>6, <2>2, <2>5, <3>1 DEF RxAfter, Busy
    <3>3. RxTime' = 1
        BY <1>3, <1>4, <1>5, <3>2
    <3> QED BY <1>6, <2>3, <2>5, <3>1, <3>2, <3>3
  <2> QED BY <1>2, <2>4, <2>5 DEF Free, Busy
<1>7. CASE rx_state = "START"
  <2>1. RxStart
      BY <1>7 DEF RxClock, RxIdle, RxStart, RxData, RxParity, RxEnd
  <2>2. rx_baud_valid' = (IF FalseStart THEN 0 ELSE rx_baud_valid) /\ r_rcv_cnt' = r_rcv_cnt
      BY <2>1 DEF RxStart
  <2>3. RxTime = Place /\ RxTime # Begin(FrameLen)
      BY <1>2, <1>3, <1>7, RxTimes
  <2>4. CASE Free
    <3>1. rx_state' = "IDLE" /\ Free'
        BY <1>1, <2>2, <2>4 DEF Free
    <3> QED BY <1>7, <2>4, <3>1 DEF Free, Busy
  <2>5. CASE Busy
    <3>1. ~Free /\ (FalseStart <=> RxTime = Half /\ sync_uart_rx = 1)
      <4>1. rx_baud_pulse = 1 <=> rx_baud_cnt = Half
          BY <1>7, <2>5 DEF RxInv, RxBaudInv
      <4> QED BY <1>2, <1>3, <2>3, <2>5, <4>1 DEF FalseStart, Free, Busy
    <3>2. rx_baud_cnt # 0 => rx_state' = "START" /\ RxTime' = Place'
        BY <1>1, <1>2, <1>3, <1>4, <1>5, <1>7, <3>1
    <3>3. rx_baud_cnt # 0 /\ rx_baud_cnt # CYCLE - 1 => Place' = Place + 1
        BY <1>1, <1>2, <1>3, <1>4, <3>1
    <3>4. rx_baud_cnt = CYCLE - 1 => Place' = Place + 1
        BY <1>1, <1>2, <1>3, <1>4, <3>1
    <3>5. rx_baud_cnt = 0 => RxTime' = RxTime + 1
      <4> SUFFICES ASSUME rx_baud_cnt = 0 PROVE RxTime' = RxTime + 1
          OBVIOUS
      <4>1. rx_state' = "DATA" /\ rx_baud_cnt' = 1
          BY <1>1, <1>3, <1>7, <3>1 DEF RxAfter
      <4>2. r_rcv_cnt' + 1 = 1
          BY <1>7, <2>2 DEF RxInv, RxCountInv
      <4>3. Begin(1) = CYCLE
          BY <1>3 DEF Begin
      <4>4. RxTime' = Begin(1) + 1
          BY <1>3, <1>4, <1>5, <4>1, <4>2
      <4> QED BY <1>2, <1>3, <2>3, <4>3, <4>4
    <3>6. RxTime = Half => rx_state' = "START"
        BY <1>2, <1>3, <2>3, <3>2
    <3> QED BY <1>7, <2>2, <2>3, <2>5, <3>1, <3>2, <3>3, <3>4, <3>5, <3>6 DEF Free, Busy
  <2> QED BY <1>2, <2>4, <2>5 DEF Free, Busy
<1>8. CASE rx_state = "DATA"
  <2>1. RxData
      BY <1>8 DEF RxClock, RxIdle, RxStart, RxData, RxParity, RxEnd
  <2>2. Busy /\ ~Free /\ Busy'
    <3>1. rx_baud_valid # 0
        BY <1>8 DEF RxInv, RxBaudInv, Free
    <3>2. rx_baud_valid' = rx_baud_valid
        BY <2>1 DEF RxData
    <3> QED BY <1>2, <3>1, <3>2 DEF Free, Busy
  <2>3. RxTime # Begin(FrameLen) /\ RxTime # Half
      BY <1>8, RxTimes
  <2>4. /\ rx_baud_cnt \in 1 .. Half => RxTime = Begin(r_rcv_cnt + 1) + Place
        /\ rx_baud_cnt \notin 1 .. Half => RxTime = Begin(r_rcv_cnt) + Place
      BY <1>8 DEF RxTime, RxBit
  <2>5. Begin(r_rcv_cnt) \in Nat /\ Begin(r_rcv_cnt + 1) = Begin(r_rcv_cnt) + CYCLE
    <3>1. r_rcv_cnt \in Nat
        BY <1>2, <1>3
    <3> QED BY <3>1, Edges
  <2>6. rx_baud_pulse = 1 <=> rx_baud_cnt = Half
      BY <1>8, <2>2 DEF RxInv, RxBaudInv
  <2>7. CASE rx_baud_cnt = 0
    <3>1. r_rcv_cnt' = r_rcv_cnt
        BY <1>3, <2>1, <2>6, <2>7 DEF RxData
    <3>2. RxTime = Begin(r_rcv_cnt + 1)
        BY <1>2, <1>3, <2>4, <2>5, <2>7
    <3>3. rx_baud_cnt' = 1 /\ rx_state' = RxAfter /\ Place' = 1
        BY <1>1, <1>3, <1>4, <2>2, <2>7
    <3>4. RxTime' = Begin(r_rcv_cnt + 1) + 1
      <4>1. CASE r_rcv_cnt # DATA_WIDTH
        <5>1. rx_state' = "DATA"
            BY <1>8, <3>3, <4>1 DEF RxAfter
        <5> QED BY <1>3, <1>5, <3>1, <3>3, <5>1
      <4>2. CASE r_rcv_cnt = DATA_WIDTH /\ PARITY_ON = 0
        <5>1. rx_state' = "END"
            BY <1>8, <3>3, <4>2 DEF RxAfter
        <5>2. StopBit = DATA_WIDTH + 1
            BY <1>3, <4>2 DEF StopBit
        <5> QED BY <1>5, <3>3, <4>2, <5>1, <5>2
      <4>3. CASE r_rcv_cnt = DATA_WIDTH /\ PARITY_ON # 0
        <5>1. rx_state' = "PARITY"
            BY <1>8, <3>3, <4>3 DEF RxAfter
        <5> QED BY <1>5, <3>3, <4>3, <5>1
      <4> QED BY <4>1, <4>2, <4>3
    <3> QED BY <1>8, <2>2, <2>3, <3>2, <3>4
  <2>8. CASE rx_baud_cnt # 0
    <3>1. rx_state' = "DATA"
        BY <1>1, <1>8, <2>2, <2>8
    <3>2. Place' = Place + 1
        BY <1>1, <1>2, <1>3, <1>4, <2>2, <2>8
    <3>3. CASE rx_baud_cnt = Half
      <4>1. r_rcv_cnt' = r_rcv_cnt + 1
        <5>1. r_rcv_cnt' = (r_rcv_cnt + 1) % 16
            BY <2>1, <2>6, <3>3 DEF RxData
        <5>2. r_rcv_cnt < DATA_WIDTH
            BY <1>3, <1>8, <3>3 DEF RxInv, RxCountInv
        <5> QED BY <1>2, <1>3, <5>1, <5>2
      <4>2. rx_baud_cnt' = Half + 1
          BY <1>1, <1>3, <2>2, <3>3
      <4>3. RxTime = Begin(r_rcv_cnt + 1) + Place /\ RxTime' = Begin(r_rcv_cnt') + Place'
          BY <1>3, <1>5, <2>4, <3>1, <3>3, <4>2
      <4>4. RxTime' = RxTime + 1
          BY <1>2, <1>3, <2>5, <3>2, <4>1, <4>3
      <4> QED BY <1>8, <2>2, <2>3, <4>4
    <3>4. CASE rx_baud_cnt # Half
      <4>1. r_rcv_cnt' = r_rcv_cnt
        <5>1. rx_baud_pulse # 1
            BY <2>6, <3>4
        <5> QED BY <2>1, <5>1 DEF RxData
      <4>2. rx_baud_cnt' \in 1 .. Half <=> rx_baud_cnt \in 1 .. Half
          BY <1>1, <1>2, <1>3, <2>2, <2>8, <3>4
      <4>3. CASE rx_baud_cnt \in 1 .. Half
        <5>1. RxTime = Begin(r_rcv_cnt + 1) + Place /\ RxTime' = Begin(r_rcv_cnt + 1) + Place'
            BY <1>5, <2>4, <3>1, <4>1, <4>2, <4>3
        <5> QED BY <1>2, <1>3, <1>8, <2>2, <2>3, <2>5, <3>2, <5>1
      <4>4. CASE rx_baud_cnt \notin 1 .. Half
        <5>1. RxTime = Begin(r_rcv_cnt) + Place /\ RxTime' = Begin(r_rcv_cnt) + Place'
            BY <1>5, <2>4, <3>1, <4>1, <4>2, <4>4
        <5> QED BY <1>2, <1>3, <1>8, <2>2, <2>3, <2>5, <3>2, <5>1
      <4> QED BY <4>3, <4>4
    <3> QED BY <3>3, <3>4
  <2> QED BY <2>7, <2>8
<1>9. CASE rx_state = "PARITY"
  <2>1. RxParity
      BY <1>9 DEF RxClock, RxIdle, RxStart, RxData, RxParity, RxEnd
  <2>2. Busy /\ ~Free /\ Busy'
    <3>1. rx_baud_valid # 0
        BY <1>9 DEF RxInv, RxBaudInv, Free
    <3>2. rx_baud_valid' = rx_baud_valid
        BY <2>1 DEF RxParity
    <3> QED BY <1>2, <3>1, <3>2 DEF Free, Busy
  <2>3. RxTime # Begin(FrameLen) /\ RxTime # Half
      BY <1>9, RxTimes
  <2>4. RxTime = Begin(DATA_WIDTH + 1) + Place
      BY <1>9 DEF RxTime, RxBit
  <2>5. StopBit = DATA_WIDTH + 1 + 1 /\ DATA_WIDTH + 1 \in Nat
    <3>1. PARITY_ON = 1
        BY <1>9 DEF RxInv, RxCountInv
    <3> QED BY <1>3, <3>1 DEF StopBit
  <2>6. Begin(DATA_WIDTH + 1) \in Nat /\ Begin(StopBit) = Begin(DATA_WIDTH + 1) + CYCLE
      BY <2>5, Edges
  <2>7. CASE rx_baud_cnt = 0
    <3>1. rx_state' = "END" /\ Place' = 1
        BY <1>1, <1>3, <1>4, <1>9, <2>2, <2>7 DEF RxAfter
    <3> QED BY <1>2, <1>3, <1>5, <1>9, <2>2, <2>3, <2>4, <2>6, <2>7, <3>1
  <2>8. CASE rx_baud_cnt # 0
    <3>1. rx_state' = "PARITY" /\ Place' = Place + 1
        BY <1>1, <1>2, <1>3, <1>4, <1>9, <2>2, <2>8
    <3> QED BY <1>2, <1>3, <1>5, <1>9, <2>2, <2>3, <2>4, <2>6, <3>1
  <2> QED BY <2>7, <2>8
<1>10. CASE rx_state = "END"
  <2>1. RxEnd
      BY <1>10 DEF RxClock, RxIdle, RxStart, RxData, RxParity, RxEnd
  <2>2. Busy /\ ~Free
    <3>1. rx_baud_valid # 0
        BY <1>10 DEF RxInv, RxBaudInv, Free
    <3> QED BY <1>2, <3>1 DEF Free, Busy
  <2>3. rx_baud_valid' = IF rx_baud_cnt = 0 THEN 0 ELSE rx_baud_valid
      BY <2>1 DEF RxEnd
  <2>4. RxTime # Half /\ RxTime = Begin(StopBit) + Place
        /\ (RxTime = Begin(FrameLen) <=> rx_baud_cnt = 0)
      BY <1>10, RxTimes
  <2>5. CASE rx_baud_cnt = 0
    <3>1. Free' /\ rx_state' = "IDLE"
        BY <1>1, <1>10, <2>2, <2>3, <2>5 DEF RxAfter, Free
    <3> QED BY <1>10, <2>2, <2>4, <2>5, <3>1
  <2>6. CASE rx_baud_cnt # 0
    <3>1. Busy' /\ rx_state' = "END" /\ Place' = Place + 1
        BY <1>1, <1>2, <1>3, <1>4, <1>10, <2>2, <2>3, <2>6 DEF Busy
    <3>2. RxTime' = RxTime + 1
        BY <1>2, <1>3, <1>5, <2>4, <3>1
    <3> QED BY <1>10, <2>2, <2>4, <2>6, <3>1, <3>2
  <2> QED BY <2>5, <2>6
<1> QED BY <1>2, <1>6, <1>7, <1>8, <1>9, <1>10

-----------------------------------------------------------------------------
(* The steps of the line, told by the age of the frame and of the pause.   *)

FrameBegins ==
    /\ wire' = "frame" /\ Age' = 0
    /\ hdata' \in Data /\ expected' = Append(Undelivered, hdata')
    /\ \/ wire = "idle" /\ Paused = QUIET /\ burst' = 1
       \/ (wire = "idle" \/ FrameOver) /\ burst < BURST /\ burst' = burst + 1
FrameGoesOn ==
    /\ wire = "frame" /\ wire' = "frame" /\ Age' = Age + 1
    /\ expected' = Undelivered /\ UNCHANGED <<hdata, burst>>
FrameEnds ==
    /\ FrameOver /\ wire' = "idle" /\ Paused' = 0
    /\ expected' = Undelivered /\ UNCHANGED burst
Rests ==
    /\ wire = "idle" /\ wire' = "idle"
    /\ Paused' = IF Paused < QUIET THEN Paused + 1 ELSE Paused
    /\ expected' = Undelivered /\ UNCHANGED burst
GlitchBegins ==
    /\ wire = "idle" /\ wire' = "glitch" /\ Paused = QUIET
    /\ expected' = Undelivered
GlitchGoesOn ==
    /\ wire = "glitch" /\ wire' = "glitch" /\ left' = left - 1
    /\ expected' = Undelivered /\ UNCHANGED burst
GlitchEnds ==
    /\ wire = "glitch" /\ left = 1 /\ wire' = "idle" /\ Paused' = 0
    /\ expected' = Undelivered /\ UNCHANGED burst

LEMMA WireAge ==
    ASSUME WireTypes
    PROVE  /\ wire = "frame" =>
                /\ Age \in Nat /\ Age < Edge(FrameLen) /\ burst \in 1 .. BURST
                /\ bit = 0 => Age = HOSTCYCLE - left
                /\ Age < HOSTCYCLE => bit = 0
                /\ bit = StopBit <=> Edge(StopBit) <= Age
                /\ bit = StopBit => Age = Edge(StopBit) + HOSTCYCLE - left
                /\ FrameOver <=> Age = Edge(FrameLen) - 1
           /\ wire = "idle" => Paused \in 0 .. QUIET /\ left = QUIET - Paused
           /\ burst \in 0 .. BURST /\ BURST \in Nat /\ QUIET \in Nat
<1>1. /\ wire \in {"idle", "frame", "glitch"} /\ bit \in 0 .. StopBit /\ burst \in 0 .. BURST
      /\ wire = "idle" => left \in 0 .. QUIET
      /\ wire = "frame" => left \in 1 .. HOSTCYCLE /\ burst >= 1
    BY DEF WireTypes
<1>2. /\ StopBit \in Nat /\ HOSTCYCLE \in Nat /\ BURST \in Nat /\ QUIET \in Nat
      /\ Edge(0) = 0 /\ Edge(StopBit) \in Nat /\ Edge(FrameLen) = Edge(StopBit) + HOSTCYCLE
    BY Edges, LineAssumption
<1>3. bit \in Nat /\ bit + 1 \in Nat
    BY <1>1, <1>2
<1>4. Edge(bit) \in Nat /\ Edge(bit + 1) = Edge(bit) + HOSTCYCLE
    BY <1>3, Edges
<1>5. bit # StopBit => Edge(bit) + HOSTCYCLE <= Edge(StopBit)
  <2>1. bit # StopBit => bit + 1 <= StopBit
      BY <1>1, <1>2
  <2>2. bit + 1 <= StopBit => Edge(bit + 1) <= Edge(StopBit)
      BY <1>2, <1>3, Edges
  <2> QED BY <1>4, <2>1, <2>2
<1>6. bit # 0 => HOSTCYCLE <= Edge(bit)
  <2>1. Edge(0 + 1) = Edge(0) + HOSTCYCLE /\ 0 + 1 = 1
      BY Edges
  <2>2. bit # 0 => Edge(1) <= Edge(bit)
      BY <1>3, Edges
  <2> QED BY <1>2, <2>1, <2>2
<1>7. wire = "frame" =>
         /\ Age \in Nat /\ Age < Edge(FrameLen) /\ burst \in 1 .. BURST
         /\ bit = 0 => Age = HOSTCYCLE - left
         /\ Age < HOSTCYCLE => bit = 0
  <2> SUFFICES ASSUME wire = "frame" PROVE
         /\ Age \in Nat /\ Age < Edge(FrameLen) /\ burst \in 1 .. BURST
         /\ bit = 0 => Age = HOSTCYCLE - left
         /\ Age < HOSTCYCLE => bit = 0
      OBVIOUS
  <2>1. Age = Edge(bit) + HOSTCYCLE - left /\ left \in 1 .. HOSTCYCLE
      BY <1>1 DEF Age
  <2> QED BY <1>1, <1>2, <1>4, <1>5, <1>6, <2>1
<1>8. wire = "frame" =>
         /\ bit = StopBit <=> Edge(StopBit) <= Age
         /\ bit = StopBit => Age = Edge(StopBit) + HOSTCYCLE - left
         /\ FrameOver <=> Age = Edge(FrameLen) - 1
  <2> SUFFICES ASSUME wire = "frame" PROVE
         /\ bit = StopBit <=> Edge(StopBit) <= Age
         /\ bit = StopBit => Age = Edge(StopBit) + HOSTCYCLE - left
         /\ FrameOver <=> Age = Edge(FrameLen) - 1
      OBVIOUS
  <2>1. Age = Edge(bit) + HOSTCYCLE - left /\ left \in 1 .. HOSTCYCLE
      BY <1>1 DEF Age
  <2>2. FrameOver <=> bit = StopBit /\ left = 1
      BY DEF FrameOver
  <2>3. CASE bit = StopBit
      BY <1>2, <2>1, <2>2, <2>3
  <2>4. CASE bit # StopBit
      BY <1>2, <1>4, <1>5, <2>1, <2>2, <2>4
  <2> QED BY <2>3, <2>4
<1>9. wire = "idle" => Paused \in 0 .. QUIET /\ left = QUIET - Paused
    BY <1>1, <1>2 DEF Paused
<1> QED BY <1>1, <1>2, <1>7, <1>8, <1>9

LEMMA WireSteps ==
    ASSUME WireTypes, LineNext
    PROVE  \/ FrameBegins \/ FrameGoesOn \/ FrameEnds \/ Rests
           \/ GlitchBegins \/ GlitchGoesOn \/ GlitchEnds
<1>1. /\ HOSTCYCLE \in Nat /\ StopBit \in Nat /\ QUIET \in Nat /\ GLITCH \in Nat
      /\ Edge(0) = 0
    BY Edges, LineAssumption
<1>2. /\ wire \in {"idle", "frame", "glitch"} /\ bit \in Nat
      /\ wire = "idle" => left \in 0 .. QUIET
      /\ wire = "frame" => left \in 1 .. HOSTCYCLE
      /\ wire = "glitch" => left \in 1 .. GLITCH
    BY <1>1 DEF WireTypes
<1>3. Edge(bit) \in Nat /\ Edge(bit + 1) = Edge(bit) + HOSTCYCLE
    BY <1>2, Edges
<1>4. Age' = Edge(bit') + HOSTCYCLE - left' /\ Paused' = QUIET - left'
    BY DEF Age, Paused, Edge
<1>5. CASE \E d \in Data : StartFrame(d)
  <2>1. Age' = 0
      BY <1>1, <1>4, <1>5 DEF StartFrame
  <2>2. wire = "idle" /\ left = 0 => Paused = QUIET
      BY <1>1 DEF Paused
  <2> QED BY <1>5, <2>1, <2>2 DEF StartFrame, FrameBegins
<1>6. CASE NextBit
  <2>1. Age = Edge(bit) + HOSTCYCLE - 1 /\ Age' = Edge(bit + 1) + HOSTCYCLE - HOSTCYCLE
      BY <1>4, <1>6 DEF NextBit, Age
  <2>2. Age' = Age + 1
      BY <1>1, <1>3, <2>1
  <2> QED BY <1>6, <2>2 DEF NextBit, FrameGoesOn
<1>7. CASE Pause
  <2>1. Paused' = 0
      BY <1>1, <1>4, <1>7 DEF Pause
  <2> QED BY <1>7, <2>1 DEF Pause, FrameEnds, GlitchEnds
<1>8. CASE StartGlitch
    BY <1>1, <1>8 DEF StartGlitch, GlitchBegins, Paused
<1>9. CASE Hold
  <2>1. /\ left' = (IF left > 0 THEN left - 1 ELSE 0) /\ (left > 1 \/ wire = "idle")
        /\ wire' = wire /\ bit' = bit /\ hdata' = hdata /\ burst' = burst /\ expected' = Undelivered
      BY <1>9 DEF Hold
  <2>2. CASE wire = "frame"
    <3>1. Age' = Age + 1
        BY <1>1, <1>2, <1>3, <1>4, <2>1, <2>2 DEF Age
    <3> QED BY <2>1, <2>2, <3>1 DEF FrameGoesOn
  <2>3. CASE wire = "idle"
    <3>1. Paused' = IF Paused < QUIET THEN Paused + 1 ELSE Paused
        BY <1>1, <1>2, <1>4, <2>1, <2>3 DEF Paused
    <3> QED BY <2>1, <2>3, <3>1 DEF Rests
  <2>4. CASE wire = "glitch"
    <3>1. left' = left - 1
        BY <1>2, <2>1, <2>4
    <3> QED BY <2>1, <2>4, <3>1 DEF GlitchGoesOn
  <2> QED BY <1>2, <2>2, <2>3, <2>4
<1> QED BY <1>5, <1>6, <1>7, <1>8, <1>9 DEF LineNext

(* When the receiver sees a start bit.                                     *)
LEMMA StartSeenWhen ==
    ASSUME RxClocksAgree, RxInv, WireTypes, FlagInv
    PROVE  /\ wire = "frame" /\ Age >= 6 /\ Age < HOSTCYCLE => StartSeen
           /\ StartSeen /\ wire = "frame" /\ Age < HOSTCYCLE => Age >= 6
           /\ StartSeen /\ wire = "frame" => Age < Edge(StopBit) + 2
           /\ StartSeen /\ wire = "idle" => burst = BURST /\ Paused < 2
           /\ StartSeen /\ wire = "glitch" => left + 6 <= GLITCH
<1>1. StartSeen <=> \A i \in 1 .. 5 : r_flag_rcv_start[i] = 0
  <2>1. r_flag_rcv_start \in [1 .. 5 -> {0, 1}]
      BY DEF RxInv, RxTypeOK
  <2> QED BY <2>1 DEF StartSeen
<1>2. HOSTCYCLE \in Nat /\ BURST \in Nat /\ burst \in 0 .. BURST /\ GLITCH \in Nat /\ Edge(StopBit) \in Nat
    BY Edges, LineAssumption DEF WireTypes
<1>3. ASSUME wire = "frame", Age >= 6, Age < HOSTCYCLE PROVE StartSeen
  <2>1. bit = 0 /\ HOSTCYCLE - left >= 6
      BY <1>2, <1>3, WireAge
  <2>2. ASSUME NEW i \in 1 .. 5 PROVE r_flag_rcv_start[i] = 0
    <3>1. HOSTCYCLE - left >= 7 - i
        BY <1>2, <1>3, <2>1 DEF WireTypes
    <3> QED BY <1>3, <2>1, <3>1 DEF FlagInv
  <2> QED BY <1>1, <2>2
<1>4. ASSUME StartSeen, wire = "frame", Age < HOSTCYCLE PROVE Age >= 6
  <2>1. bit = 0 /\ Age = HOSTCYCLE - left
      BY <1>4, WireAge
  <2>2. 1 \in 1 .. 5 /\ r_flag_rcv_start[1] = 0
      BY <1>1, <1>4
  <2>3. HOSTCYCLE - left >= 7 - 1
      BY <1>4, <2>1, <2>2 DEF FlagInv
  <2> QED BY <2>1, <2>3
<1>5. ASSUME StartSeen, wire = "frame" PROVE Age < Edge(StopBit) + 2
  <2>1. 5 \in 1 .. 5 /\ r_flag_rcv_start[5] = 0
      BY <1>1, <1>5
  <2>2. ~(bit = StopBit /\ HOSTCYCLE - left >= 7 - 5)
      BY <1>5, <2>1 DEF FlagInv
  <2> QED BY <1>2, <1>5, <2>2, WireAge DEF WireTypes
<1>6. ASSUME StartSeen, wire = "idle" PROVE burst = BURST /\ Paused < 2
  <2>1. 5 \in 1 .. 5 /\ r_flag_rcv_start[5] = 0
      BY <1>1, <1>6
  <2>2. ~(burst < BURST \/ Paused >= 7 - 5)
      BY <1>6, <2>1 DEF FlagInv
  <2> QED BY <1>2, <1>6, <2>2, WireAge
<1>7. ASSUME StartSeen, wire = "glitch" PROVE left + 6 <= GLITCH
  <2>1. 1 \in 1 .. 5 /\ r_flag_rcv_start[1] = 0
      BY <1>1, <1>7
  <2>2. left + 7 - 1 <= GLITCH
      BY <1>7, <2>1 DEF FlagInv
  <2> QED BY <1>2, <1>7, <2>2 DEF WireTypes
<1> QED BY <1>3, <1>4, <1>5, <1>6, <1>7

-----------------------------------------------------------------------------
(* The receiver and the line together.  Accounted: a step owes one byte    *)
(* more when a frame begins, and one less when a byte is delivered.        *)

Accounted ==
    /\ FrameBegins => Fresh' /\ Owed' + o_rx_done = Owed + 1
    /\ ~FrameBegins =>
          /\ Owed' + o_rx_done = Owed
          /\ Fresh' \/ (Undone' /\ wire' = "frame") =>
                wire = "frame" /\ (Fresh \/ Undone) /\ hdata' = hdata
    /\ Undone' => (Undone /\ o_rx_done = 0) \/ rx_state' = "IDLE"

(* The numbers of RxClocksAgree that the steps need.                       *)
LEMMA RxNumbers ==
    ASSUME RxClocksAgree, WireTypes
    PROVE  /\ HOSTCYCLE \in Nat /\ Half \in Nat /\ Half >= 2 /\ QUIET \in Nat /\ GLITCH \in Nat
           /\ Begin(StopBit) \in Nat /\ Half + 1 < Begin(StopBit)
           /\ Begin(FrameLen) \in Nat /\ Begin(StopBit) + Half + 1 < Begin(FrameLen)
           /\ Edge(StopBit) \in Nat /\ Edge(FrameLen) = Edge(StopBit) + HOSTCYCLE
           /\ Loss \in Nat /\ Begin(FrameLen) + 2 <= Edge(FrameLen) + Loss
           /\ burst \in 0 .. BURST /\ BURST \in Nat
           /\ \A n \in 1 .. BURST : Late(n) \in Nat /\ Late(n + 1) = Late(n) + Loss
           /\ burst >= 1 => /\ Late(burst) \in Nat /\ Late(burst + 1) = Late(burst) + Loss
                            /\ Half + 6 + Late(burst) < HOSTCYCLE
                            /\ Begin(FrameLen) + 7 + Late(burst) < Edge(FrameLen) + QUIET
                            /\ Half + 7 + Late(burst) + HOSTCYCLE <= Edge(FrameLen)
           /\ burst >= 2 => /\ burst - 1 \in Nat /\ Late(burst - 1) \in Nat
                            /\ Late(burst) = Late(burst - 1) + Loss
           /\ Half + 6 < HOSTCYCLE /\ Edge(StopBit) <= Begin(FrameLen) + 6
           /\ GLITCH <= Half + 6 /\ Half + 4 < QUIET
<1>1. /\ HOSTCYCLE \in Nat /\ Half \in Nat /\ Half >= 2 /\ QUIET \in Nat /\ GLITCH \in Nat
      /\ Begin(StopBit) \in Nat /\ Half + 1 < Begin(StopBit)
      /\ Begin(FrameLen) \in Nat /\ Begin(StopBit) + Half + 1 < Begin(FrameLen)
      /\ StopBit \in Nat /\ StopBit >= 2 /\ Edge(FrameLen) = Edge(StopBit) + HOSTCYCLE
      /\ BURST \in Nat /\ burst \in 0 .. BURST
  <2>1. /\ HOSTCYCLE \in Nat /\ StopBit \in Nat /\ StopBit >= 2
        /\ Edge(FrameLen) = Edge(StopBit) + HOSTCYCLE
      BY Edges
  <2>2. QUIET \in Nat /\ GLITCH \in Nat /\ BURST \in Nat /\ burst \in 0 .. BURST
      BY LineAssumption DEF WireTypes
  <2>3. /\ Half \in Nat /\ Half >= 2 /\ Half + 1 < CYCLE /\ CYCLE \in Nat
        /\ Begin(StopBit) \in Nat /\ CYCLE <= Begin(StopBit)
        /\ Begin(FrameLen) \in Nat /\ Begin(FrameLen) = Begin(StopBit) + CYCLE
      BY FrameClocks
  <2> QED BY <2>1, <2>2, <2>3
<1>2. Edge(StopBit) \in Nat
    BY <1>1, Edges
<1>3. /\ Half + 6 + Late(BURST) < HOSTCYCLE /\ Late(BURST) \in Nat
      /\ Edge(StopBit) <= Begin(FrameLen) + 6
      /\ Begin(FrameLen) + 7 + Late(BURST) < Edge(FrameLen) + QUIET
      /\ GLITCH <= Half + 6 /\ Half + 4 < QUIET
    BY RxClocks
<1>4. Half + 7 + Late(BURST) + HOSTCYCLE <= Edge(FrameLen)
  <2>1. 0 \in 0 .. StopBit - 1 /\ Begin(0) = 0
      BY <1>1, Edges
  <2>2. Begin(0) + Half + 8 + Late(BURST) + HOSTCYCLE <= Edge(FrameLen) + 1
      BY <2>1, RxClocks
  <2> QED BY <1>1, <1>2, <1>3, <2>1, <2>2
<1>5. /\ Loss \in Nat /\ Begin(FrameLen) + 2 <= Edge(FrameLen) + Loss
      /\ \A n \in 1 .. BURST : /\ Late(n) \in Nat /\ Late(n) <= Late(BURST)
                               /\ Late(n + 1) = Late(n) + Loss
    BY LateGrows
<1>6. burst >= 1 => Late(burst) \in Nat /\ Late(burst) <= Late(BURST)
                    /\ Late(burst + 1) = Late(burst) + Loss
    BY <1>1, <1>5
<1>7. burst >= 2 => /\ burst - 1 \in Nat /\ Late(burst - 1) \in Nat
                    /\ Late(burst) = Late(burst - 1) + Loss
  <2> SUFFICES ASSUME burst >= 2 PROVE /\ burst - 1 \in Nat /\ Late(burst - 1) \in Nat
                                       /\ Late(burst) = Late(burst - 1) + Loss
      OBVIOUS
  <2>1. burst - 1 \in 1 .. BURST /\ (burst - 1) + 1 = burst
      BY <1>1
  <2>2. Late(burst - 1) \in Nat /\ Late((burst - 1) + 1) = Late(burst - 1) + Loss
      BY <1>5, <2>1
  <2> QED BY <2>1, <2>2
<1>8. burst >= 1 => /\ Half + 6 + Late(burst) < HOSTCYCLE
                    /\ Begin(FrameLen) + 7 + Late(burst) < Edge(FrameLen) + QUIET
                    /\ Half + 7 + Late(burst) + HOSTCYCLE <= Edge(FrameLen)
    BY <1>1, <1>2, <1>3, <1>4, <1>6
<1>9. Half + 6 < HOSTCYCLE
    BY <1>1, <1>3
<1> QED BY <1>1, <1>2, <1>3, <1>5, <1>6, <1>7, <1>8, <1>9

LEMMA FrameAges ==
    ASSUME RxClocksAgree, WireTypes
    PROVE  /\ wire = "frame" /\ FrameOver => Age = Edge(FrameLen) - 1 /\ HOSTCYCLE <= Age
           /\ FrameBegins => wire' = "frame" /\ Age' = 0 /\ burst' \in 1 .. BURST /\ Late(burst') \in Nat
<1>1. wire = "frame" /\ FrameOver => Age = Edge(FrameLen) - 1 /\ burst >= 1 /\ burst \in 0 .. BURST
    BY WireAge
<1>2. burst >= 1 => /\ Half + 7 + Late(burst) + HOSTCYCLE <= Edge(FrameLen) /\ Late(burst) \in Nat
                    /\ Half \in Nat /\ HOSTCYCLE \in Nat
                    /\ Edge(FrameLen) = Edge(StopBit) + HOSTCYCLE /\ Edge(StopBit) \in Nat
    BY RxNumbers
<1>3. FrameBegins => burst' \in 1 .. BURST
  <2>1. BURST \in Nat /\ BURST >= 1 /\ burst \in 0 .. BURST
      BY LineAssumption, WireAge
  <2> QED BY <2>1 DEF FrameBegins
<1>4. FrameBegins => Late(burst') \in Nat
  <2>1. \A n \in 1 .. BURST : Late(n) \in Nat
      BY LateGrows
  <2> QED BY <1>3, <2>1
<1> QED BY <1>1, <1>2, <1>3, <1>4 DEF FrameBegins

(* What the parts of the invariant say of the next state.                  *)
LEMMA PhaseNext ==
    /\ PhaseInv' <=>
          /\ Free' /\ rx_state' = "START" => wire' = "idle" /\ burst' = BURST /\ Paused' <= Half + 3
          /\ Free' /\ wire' = "frame" => Age' <= 6 + Late(burst') \/ Edge(StopBit) + 2 <= Age'
          /\ FalseStarting' /\ wire' = "glitch" => RxTime' + 7 + left' <= GLITCH
          /\ FalseStarting' /\ wire' = "idle" =>
                burst' = BURST /\ RxTime' < Half + Paused' /\ Paused' <= RxTime' + 2
          /\ Receiving' => wire' # "glitch"
          /\ Receiving' /\ wire' = "frame" /\ ~Fresh' => Age' <= RxTime' + 7 + Late(burst')
          /\ Receiving' /\ wire' = "idle" =>
                burst' >= 1 /\ Edge(FrameLen) + Paused' <= RxTime' + 7 + Late(burst')
          /\ Receiving' /\ Fresh' =>
                burst' >= 2 /\ Edge(FrameLen) + Age' <= RxTime' + 7 + Late(burst' - 1)
    /\ FalseStarting' <=> Busy' /\ wire' # "frame" /\ RxTime' <= Half
    /\ Receiving' <=> Busy' /\ ~FalseStarting'
    /\ Fresh' <=> wire' = "frame" /\ (IF Busy' THEN Age' < RxTime' + 7 ELSE Age' < HOSTCYCLE)
<1>1. Half' = Half /\ Edge(StopBit)' = Edge(StopBit) /\ Edge(FrameLen)' = Edge(FrameLen)
    BY DEF Half, Edge, StopBit, FrameLen
<1>2. Late(burst)' = Late(burst') /\ Late(burst - 1)' = Late(burst' - 1)
    BY DEF Late, Loss, Edge, Begin, FrameLen, StopBit
<1>3. FalseStarting' <=> Busy' /\ wire' # "frame" /\ RxTime' <= Half
    BY <1>1 DEF FalseStarting
<1>4. Receiving' <=> Busy' /\ ~FalseStarting'
    BY DEF Receiving
<1>5. Fresh' <=> wire' = "frame" /\ (IF Busy' THEN Age' < RxTime' + 7 ELSE Age' < HOSTCYCLE)
    BY DEF Fresh
<1> QED BY <1>1, <1>2, <1>3, <1>4, <1>5 DEF PhaseInv

LEMMA RxTimesInv ==
    RxInv => /\ RxTime \in Nat /\ (Free \/ Busy) /\ ~(Free /\ Busy)
             /\ Undone <=> Receiving /\ RxTime <= Begin(StopBit) + Half + 1
<1> SUFFICES ASSUME RxInv
    PROVE  /\ RxTime \in Nat /\ (Free \/ Busy) /\ ~(Free /\ Busy)
           /\ Undone <=> Receiving /\ RxTime <= Begin(StopBit) + Half + 1
    OBVIOUS
<1>1. RxTime \in Nat /\ (Done <=> RxTime > Begin(StopBit) + Half + 1)
      /\ Begin(StopBit) \in Nat /\ Half \in Nat
    BY RxTimes, FrameClocks
<1>2. (Free \/ Busy) /\ ~(Free /\ Busy)
    BY DEF RxInv, RxTypeOK, Free, Busy
<1> QED BY <1>1, <1>2 DEF Undone

LEMMA UndoneNext ==
    ASSUME RxInv'
    PROVE  /\ RxTime' \in Nat /\ (Free' <=> ~Busy')
           /\ Undone' <=> Receiving' /\ RxTime' <= Begin(StopBit) + Half + 1
<1>1. ( /\ RxTime \in Nat /\ (Free \/ Busy) /\ ~(Free /\ Busy)
        /\ Undone <=> Receiving /\ RxTime <= Begin(StopBit) + Half + 1 )'
    BY RxTimesInv, PTL
<1>2. Half' = Half /\ Begin(StopBit)' = Begin(StopBit)
    BY DEF Half, Begin, StopBit
<1> QED BY <1>1, <1>2

(* When the done flag is up.                                               *)
LEMMA DoneFlag ==
    ASSUME RxInv, DataInv
    PROVE  /\ o_rx_done \in {0, 1}
           /\ o_rx_done = 1 => RxTime = Begin(StopBit) + Half + 1 /\ Busy
           /\ Receiving /\ RxTime = Begin(StopBit) + Half + 1 => o_rx_done = 1
<1>1. o_rx_done \in {0, 1} /\ Begin(StopBit) \in Nat /\ Half \in Nat
    BY FrameClocks DEF RxInv, RxTypeOK
<1>2. o_rx_done = 1 => rx_state = "END" /\ rx_baud_cnt = Half + 1
    BY DEF RxInv, RxBaudInv
<1>3. rx_state = "END" /\ rx_baud_cnt = Half + 1 <=> RxTime = Begin(StopBit) + Half + 1
    BY RxTimes
<1>4. rx_state = "END" => Busy
    BY DEF RxInv, RxTypeOK, RxBaudInv, Free, Busy
<1>5. Receiving /\ RxTime = Begin(StopBit) + Half + 1 => Undone
    BY <1>1, RxTimesInv
<1> QED BY <1>1, <1>2, <1>3, <1>4, <1>5 DEF DataInv

(* The receiver waits for a start bit.                                     *)
LEMMA PhaseWaiting ==
    ASSUME RxClocksAgree, RxInv, WireTypes, FlagInv, PhaseInv, DataInv, LineNext,
           Free, rx_state = "IDLE"
    PROVE  PhaseInv' /\ Accounted
<1>1. /\ rx_state' = "IDLE" /\ RxTime' = 0 /\ (Busy' <=> StartSeen) /\ (Free' <=> ~StartSeen)
      /\ RxInv'
    BY LevelIs, RxTimeStep, RxInvStep DEF LineNext
<1>2. /\ o_rx_done = 0 /\ ~Busy /\ ~Receiving /\ ~Undone
      /\ Fresh <=> wire = "frame" /\ Age < HOSTCYCLE
    BY DoneFlag DEF Free, Busy, Receiving, Undone, Fresh
<1>3. Undone' <=> Receiving' /\ RxTime' <= Begin(StopBit) + Half + 1
    BY <1>1, UndoneNext
<1>4. wire = "frame" => Age <= 6 + Late(burst) \/ Edge(StopBit) + 2 <= Age
    BY DEF PhaseInv
<1>5. FrameBegins => wire' = "frame" /\ Age' = 0 /\ burst' \in 1 .. BURST /\ Late(burst') \in Nat
    BY FrameAges
<1>6. CASE ~StartSeen
  <2>1. ~Busy' /\ ~FalseStarting' /\ ~Receiving' /\ ~Undone'
        /\ (Fresh' <=> wire' = "frame" /\ Age' < HOSTCYCLE)
      BY <1>1, <1>3, <1>6, PhaseNext DEF Free, Busy
  <2>2. SUFFICES /\ wire' = "frame" => Age' <= 6 + Late(burst') \/ Edge(StopBit) + 2 <= Age'
                 /\ Accounted
      BY <1>1, <2>1, PhaseNext
  <2>3. CASE FrameBegins
    <3>1. ~Fresh
      <4>1. HOSTCYCLE \in Nat /\ (wire = "frame" => Age \in Nat)
          BY RxNumbers, WireAge
      <4> QED BY <1>2, <2>3, <4>1, FrameAges DEF FrameBegins
    <3> QED BY <1>2, <1>5, <2>1, <2>3, <3>1, RxNumbers DEF Accounted, Owed
  <2>4. CASE FrameGoesOn
    <3>1. wire = "frame" /\ wire' = "frame" /\ Age' = Age + 1 /\ hdata' = hdata /\ burst' = burst
        BY <2>4 DEF FrameGoesOn
    <3>2. Age < 6 \/ Edge(StopBit) + 2 <= Age
      <4>1. Age < 6 \/ Age >= HOSTCYCLE
          BY <1>6, <3>1, WireAge, StartSeenWhen, RxNumbers
      <4> QED BY <1>4, <3>1, <4>1, WireAge, RxNumbers
    <3>3. Age' <= 6 + Late(burst') \/ Edge(StopBit) + 2 <= Age'
        BY <3>1, <3>2, WireAge, RxNumbers
    <3>4. Fresh' <=> Fresh
      <4>1. Edge(StopBit) >= HOSTCYCLE
          BY RxNumbers, WireAge, Edges
      <4> QED BY <1>2, <2>1, <3>1, <3>2, <4>1, WireAge, RxNumbers
    <3>5. ~FrameBegins
        BY <3>1, WireAge DEF FrameBegins
    <3> QED BY <1>2, <2>1, <3>1, <3>3, <3>4, <3>5 DEF Accounted, Owed
  <2>5. CASE FrameEnds
    <3>1. wire' # "frame" /\ ~FrameBegins /\ ~Fresh' /\ ~Fresh
        BY <1>2, <2>1, <2>5, WireAge, RxNumbers DEF FrameEnds, FrameBegins, FrameOver
    <3> QED BY <1>2, <2>1, <3>1 DEF Accounted, Owed
  <2>6. CASE Rests \/ GlitchBegins \/ GlitchGoesOn \/ GlitchEnds
    <3>1. wire # "frame" /\ wire' # "frame" /\ ~FrameBegins /\ ~Fresh' /\ ~Fresh
        BY <1>2, <2>1, <2>6 DEF Rests, GlitchBegins, GlitchGoesOn, GlitchEnds, FrameBegins
    <3> QED BY <1>2, <2>1, <3>1 DEF Accounted, Owed
  <2> QED BY <2>3, <2>4, <2>5, <2>6, WireSteps
<1>7. CASE StartSeen
  <2>1. Busy' /\ ~Free'
      BY <1>1, <1>7
  <2>2. CASE wire = "frame"
    <3>1. Age >= 6 /\ Age <= 6 + Late(burst) /\ Fresh
        BY <1>2, <1>4, <1>7, <2>2, StartSeenWhen, WireAge, RxNumbers
    <3>2. ~FrameOver
        BY <2>2, <3>1, WireAge, RxNumbers
    <3>3. wire' = "frame" /\ Age' = Age + 1 /\ hdata' = hdata /\ burst' = burst
        BY <2>2, <3>2, WireSteps DEF FrameBegins, FrameGoesOn, FrameEnds, Rests, GlitchBegins,
                                     GlitchGoesOn, GlitchEnds
    <3>4. ~FalseStarting' /\ Receiving' /\ ~Fresh' /\ Undone'
        BY <1>1, <1>3, <2>1, <2>2, <3>1, <3>3, PhaseNext, WireAge, RxNumbers
    <3>5. PhaseInv'
        BY <1>1, <2>1, <2>2, <3>1, <3>3, <3>4, PhaseNext, WireAge, RxNumbers
    <3>6. ~FrameBegins
        BY <2>2, <3>3, WireAge DEF FrameBegins
    <3> QED BY <1>1, <1>2, <2>2, <3>1, <3>3, <3>4, <3>5, <3>6 DEF Accounted, Owed
  <2>3. CASE wire = "idle"
    <3>1. burst = BURST /\ Paused < 2
        BY <1>7, <2>3, StartSeenWhen
    <3>2. wire' = "idle" /\ Paused' = Paused + 1 /\ burst' = burst
      <4>1. Paused # QUIET /\ Paused < QUIET /\ ~(burst < BURST) /\ ~FrameOver
          BY <2>3, <3>1, WireAge, RxNumbers DEF FrameOver
      <4>2. ~FrameBegins /\ ~FrameGoesOn /\ ~FrameEnds /\ ~GlitchBegins /\ ~GlitchGoesOn /\ ~GlitchEnds
          BY <2>3, <4>1
             DEF FrameBegins, FrameGoesOn, FrameEnds, GlitchBegins, GlitchGoesOn, GlitchEnds
      <4> QED BY <4>1, <4>2, WireSteps DEF Rests
    <3>3. FalseStarting' /\ ~Receiving' /\ ~Fresh' /\ ~Fresh /\ ~Undone' /\ ~FrameBegins
        BY <1>1, <1>2, <1>3, <2>1, <2>3, <3>2, PhaseNext, RxNumbers DEF FrameBegins
    <3>4. PhaseInv'
        BY <1>1, <2>1, <2>3, <3>1, <3>2, <3>3, PhaseNext, WireAge, RxNumbers
    <3> QED BY <1>2, <3>2, <3>3, <3>4 DEF Accounted, Owed
  <2>4. CASE wire = "glitch"
    <3>1. left + 6 <= GLITCH /\ burst = BURST /\ left \in Nat /\ left >= 1
        BY <1>7, <2>4, StartSeenWhen DEF WireTypes
    <3>2. /\ burst' = burst
          /\ (wire' = "glitch" /\ left' = left - 1) \/ (wire' = "idle" /\ left = 1 /\ Paused' = 0)
        BY <2>4, WireSteps
           DEF FrameBegins, FrameGoesOn, FrameEnds, Rests, GlitchBegins,
               GlitchGoesOn, GlitchEnds, FrameOver
    <3>3. FalseStarting' /\ ~Receiving' /\ ~Fresh' /\ ~Fresh /\ ~Undone' /\ ~FrameBegins
      <4>1. wire' # "frame" /\ wire # "frame"
          BY <2>4, <3>2
      <4> QED BY <1>1, <1>2, <1>3, <2>1, <4>1, PhaseNext, RxNumbers DEF FrameBegins
    <3>4. PhaseInv'
        BY <1>1, <2>1, <2>4, <3>1, <3>2, <3>3, PhaseNext, RxNumbers
    <3> QED BY <1>2, <3>2, <3>3, <3>4 DEF Accounted, Owed
  <2> QED BY <2>2, <2>3, <2>4 DEF WireTypes
<1> QED BY <1>6, <1>7

(* The receiver checks the start bit of a glitch, or forgets the glitch.   *)
LEMMA PhaseGlitch ==
    ASSUME RxClocksAgree, RxInv, WireTypes, SyncInv, PhaseInv, DataInv, LineNext,
           (Free /\ rx_state = "START") \/ FalseStarting
    PROVE  PhaseInv' /\ Accounted
<1>1. RxInv' /\ RxTime \in Nat /\ (Busy <=> ~Free)
      /\ (Free /\ rx_state = "START" => Free' /\ rx_state' = "IDLE")
      /\ (Busy /\ RxTime = Half /\ sync_uart_rx = 1 => Free' /\ rx_state' = "START")
      /\ (Busy /\ RxTime # Begin(FrameLen) /\ ~(RxTime = Half /\ sync_uart_rx = 1) =>
              Busy' /\ RxTime' = RxTime + 1)
    BY LevelIs, RxTimeStep, RxInvStep, RxTimesInv DEF LineNext
<1>2. (Free' <=> ~Busy') /\ (Undone' <=> Receiving' /\ RxTime' <= Begin(StopBit) + Half + 1)
    BY <1>1, UndoneNext
<1>3. wire # "frame" /\ ~Receiving /\ ~Fresh /\ ~Undone /\ o_rx_done = 0
  <2>1. wire # "frame" /\ ~Receiving
      BY <1>1 DEF PhaseInv, FalseStarting, Receiving
  <2>2. o_rx_done = 0
      BY <1>1, DoneFlag, RxNumbers DEF FalseStarting
  <2> QED BY <2>1, <2>2 DEF Fresh, Undone
<1>4. ASSUME wire' # "frame", ~Receiving' PROVE Accounted
  <2>1. ~Fresh' /\ ~Undone' /\ ~FrameBegins
      BY <1>2, <1>4, PhaseNext DEF FrameBegins
  <2> QED BY <1>3, <2>1 DEF Accounted, Owed
<1>5. wire = "idle" /\ burst = BURST /\ Paused < QUIET =>
         wire' = "idle" /\ Paused' = Paused + 1 /\ burst' = burst
  <2> SUFFICES ASSUME wire = "idle", burst = BURST, Paused < QUIET
      PROVE  wire' = "idle" /\ Paused' = Paused + 1 /\ burst' = burst
      OBVIOUS
  <2>1. Paused # QUIET /\ ~(burst < BURST) /\ ~FrameOver
      BY WireAge, RxNumbers DEF FrameOver
  <2>2. ~FrameBegins /\ ~FrameGoesOn /\ ~FrameEnds /\ ~GlitchBegins /\ ~GlitchGoesOn /\ ~GlitchEnds
      BY <2>1 DEF FrameBegins, FrameGoesOn, FrameEnds, GlitchBegins, GlitchGoesOn, GlitchEnds
  <2> QED BY <2>2, WireSteps DEF Rests
<1>6. CASE Free /\ rx_state = "START"
  <2>1. wire = "idle" /\ burst = BURST /\ Paused <= Half + 3
      BY <1>6 DEF PhaseInv
  <2>2. wire' = "idle"
      BY <1>5, <2>1, WireAge, RxNumbers
  <2>3. ~Busy' /\ rx_state' = "IDLE" /\ ~Receiving' /\ ~FalseStarting'
      BY <1>1, <1>2, <1>6, PhaseNext
  <2> QED BY <1>4, <2>2, <2>3, PhaseNext
<1>7. CASE FalseStarting /\ wire = "glitch"
  <2>1. RxTime + 7 + left <= GLITCH /\ burst = BURST /\ left \in Nat /\ left >= 1
      BY <1>7, RxNumbers DEF PhaseInv, WireTypes
  <2>2. RxTime + 2 <= Half /\ RxTime # Begin(FrameLen)
      BY <1>1, <2>1, RxNumbers
  <2>3. Busy' /\ ~Free' /\ RxTime' = RxTime + 1
      BY <1>1, <1>2, <1>7, <2>2, RxNumbers DEF FalseStarting
  <2>4. /\ burst' = burst /\ wire' # "frame"
        /\ (wire' = "glitch" /\ left' = left - 1) \/ (wire' = "idle" /\ left = 1 /\ Paused' = 0)
    <3>1. ~FrameBegins /\ ~FrameGoesOn /\ ~FrameEnds /\ ~Rests /\ ~GlitchBegins
        BY <1>7 DEF FrameBegins, FrameGoesOn, FrameEnds, Rests, GlitchBegins, FrameOver
    <3> QED BY <3>1, WireSteps DEF GlitchGoesOn, GlitchEnds
  <2>5. FalseStarting' /\ ~Receiving'
      BY <1>1, <2>2, <2>3, <2>4, PhaseNext, RxNumbers
  <2>6. ~Fresh'
      BY <2>4, PhaseNext
  <2>7. PhaseInv'
      BY <1>1, <2>1, <2>2, <2>3, <2>4, <2>5, PhaseNext, RxNumbers
  <2> QED BY <1>4, <2>4, <2>5, <2>7
<1>8. CASE FalseStarting /\ wire = "idle"
  <2>1. /\ burst = BURST /\ RxTime < Half + Paused /\ Paused <= RxTime + 2 /\ RxTime <= Half
        /\ Paused \in Nat
      BY <1>8, WireAge DEF PhaseInv, FalseStarting
  <2>2. wire' = "idle" /\ Paused' = Paused + 1 /\ burst' = burst /\ Paused < QUIET
      BY <1>1, <1>5, <1>8, <2>1, RxNumbers
  <2>3. CASE RxTime = Half
    <3>1. sync_uart_rx = 1
        BY <1>8, <2>1, <2>2, <2>3, WireAge, RxNumbers DEF SyncInv
    <3>2. Free' /\ ~Busy' /\ rx_state' = "START" /\ ~Receiving' /\ ~FalseStarting'
        BY <1>1, <1>2, <1>8, <2>3, <3>1, PhaseNext DEF FalseStarting
    <3>3. PhaseInv'
        BY <2>1, <2>2, <2>3, <3>2, PhaseNext, RxNumbers
    <3> QED BY <1>4, <2>2, <3>2, <3>3
  <2>4. CASE RxTime # Half
    <3>1. RxTime < Half /\ RxTime # Begin(FrameLen)
        BY <1>1, <2>1, <2>4, RxNumbers
    <3>2. Busy' /\ ~Free' /\ RxTime' = RxTime + 1
        BY <1>1, <1>2, <1>8, <2>4, <3>1 DEF FalseStarting
    <3>3. FalseStarting' /\ ~Receiving'
        BY <1>1, <2>2, <3>1, <3>2, PhaseNext, RxNumbers
    <3>4. PhaseInv'
        BY <1>1, <2>1, <2>2, <3>2, <3>3, PhaseNext, RxNumbers
    <3> QED BY <1>4, <2>2, <3>3, <3>4
  <2> QED BY <2>3, <2>4
<1> QED BY <1>3, <1>6, <1>7, <1>8 DEF WireTypes

(* A receiver in a frame delivers the byte of the frame once.              *)
LEMMA UndoneStep ==
    ASSUME RxInv, RxInv', WireTypes, RxClocksAgree, DataInv, Receiving,
           \/ RxTime = Begin(FrameLen) /\ Free'
           \/ RxTime # Begin(FrameLen) /\ RxTime' = RxTime + 1 /\ Receiving'
    PROVE  /\ (IF Undone' THEN 1 ELSE 0) + o_rx_done = (IF Undone THEN 1 ELSE 0)
           /\ Undone' => Undone /\ o_rx_done = 0
           /\ RxTime = Begin(FrameLen) => ~Undone /\ ~Undone' /\ o_rx_done = 0
<1>1. /\ RxTime \in Nat /\ (Undone <=> Receiving /\ RxTime <= Begin(StopBit) + Half + 1)
      /\ (Undone' <=> Receiving' /\ RxTime' <= Begin(StopBit) + Half + 1) /\ (Free' <=> ~Busy')
    BY RxTimesInv, UndoneNext
<1>2. /\ o_rx_done \in {0, 1} /\ (o_rx_done = 1 <=> RxTime = Begin(StopBit) + Half + 1)
    BY DoneFlag
<1>3. /\ Begin(StopBit) \in Nat /\ Half \in Nat /\ Begin(FrameLen) \in Nat
      /\ Begin(StopBit) + Half + 1 < Begin(FrameLen)
    BY RxNumbers
<1>4. Free' => ~Receiving'
    BY <1>1, PhaseNext
<1>5. CASE RxTime = Begin(FrameLen) /\ Free'
  <2>1. ~Undone /\ ~Undone' /\ o_rx_done = 0
      BY <1>1, <1>2, <1>3, <1>4, <1>5
  <2> QED BY <2>1
<1>6. CASE RxTime # Begin(FrameLen) /\ RxTime' = RxTime + 1 /\ Receiving'
  <2>1. (Undone <=> RxTime <= Begin(StopBit) + Half + 1) /\ (Undone' <=> RxTime < Begin(StopBit) + Half + 1)
      BY <1>1, <1>3, <1>6
  <2> QED BY <1>1, <1>2, <1>3, <1>6, <2>1
<1> QED BY <1>5, <1>6

(* The receiver is in the frame on the wire.                               *)
LEMMA PhaseInFrame ==
    ASSUME RxClocksAgree, RxInv, WireTypes, SyncInv, PhaseInv, DataInv, LineNext,
           Receiving, wire = "frame", ~Fresh
    PROVE  PhaseInv' /\ Accounted
<1>1. /\ RxInv' /\ RxTime \in Nat /\ Busy
      /\ (RxTime = Begin(FrameLen) => Free' /\ rx_state' = "IDLE")
      /\ (RxTime # Begin(FrameLen) /\ ~(RxTime = Half /\ sync_uart_rx = 1) =>
              Busy' /\ RxTime' = RxTime + 1)
    BY LevelIs, RxTimeStep, RxInvStep, RxTimesInv DEF LineNext, Receiving
<1>2. Free' <=> ~Busy'
    BY <1>1, UndoneNext
<1>3. /\ RxTime + 7 <= Age /\ Age <= RxTime + 7 + Late(burst) /\ burst >= 1 /\ Age \in Nat
      /\ Late(burst) \in Nat /\ Late(burst) <= Late(BURST) /\ Late(BURST) \in Nat
  <2>1. burst \in 1 .. BURST /\ Age \in Nat
      BY WireAge
  <2>2. Late(burst) \in Nat /\ Late(burst) <= Late(BURST) /\ Late(BURST) \in Nat
      BY <2>1, LateGrows, RxClocks
  <2>3. ~(Age < RxTime + 7)
      BY <1>1 DEF Fresh
  <2> QED BY <1>1, <2>1, <2>2, <2>3 DEF PhaseInv
<1>4. RxTime = Half => sync_uart_rx # 1
  <2>1. 0 \in 0 .. StopBit - 1 /\ Begin(0) = 0 /\ Half \in Nat
      BY Edges, RxNumbers
  <2>2. RxTime = Half => RxTime = Begin(0) + Half
      BY <1>1, <2>1
  <2>3. Age <= RxTime + 7 + Late(BURST)
      BY <1>1, <1>3
  <2>4. RxTime = Half => sync_uart_rx = BitLevel(0)
      BY <1>1, <1>3, <2>1, <2>2, <2>3, SampleIs
  <2> QED BY <2>4 DEF BitLevel
<1>5. CASE RxTime = Begin(FrameLen)
  <2>1. Free' /\ ~Busy' /\ rx_state' = "IDLE" /\ ~Receiving' /\ ~FalseStarting'
      BY <1>1, <1>2, <1>5, PhaseNext
  <2>2. ~Undone /\ ~Undone' /\ o_rx_done = 0
      BY <1>1, <1>5, <2>1, UndoneStep
  <2>3. Fresh' <=> wire' = "frame" /\ Age' < HOSTCYCLE
      BY <2>1, PhaseNext
  <2>4. Edge(StopBit) + 1 <= Age
      BY <1>1, <1>3, <1>5, RxNumbers
  <2>5. CASE FrameBegins
    <3>1. Age' = 0 /\ wire' = "frame" /\ Fresh' /\ Late(burst') \in Nat
        BY <2>3, <2>5, FrameAges, RxNumbers
    <3>2. PhaseInv'
        BY <2>1, <3>1, PhaseNext
    <3> QED BY <2>2, <2>5, <3>1, <3>2 DEF Accounted, Owed
  <2>6. CASE FrameGoesOn
    <3>1. wire' = "frame" /\ Age' = Age + 1 /\ Edge(StopBit) + 2 <= Age'
        BY <1>3, <2>4, <2>6, RxNumbers DEF FrameGoesOn
    <3>2. ~FrameBegins
        BY <1>3, <3>1 DEF FrameBegins
    <3>3. PhaseInv'
        BY <2>1, <3>1, PhaseNext
    <3>4. ~Fresh'
      <4>1. HOSTCYCLE <= Edge(StopBit)
        <5>1. Edge(1) = HOSTCYCLE /\ 1 \in Nat /\ StopBit \in Nat /\ 1 <= StopBit
            BY Edges DEF Edge
        <5> QED BY <5>1, Edges
      <4> QED BY <2>3, <3>1, <4>1, RxNumbers
    <3> QED BY <2>2, <3>2, <3>3, <3>4 DEF Accounted, Owed
  <2>7. CASE FrameEnds
    <3>1. wire' # "frame" /\ ~FrameBegins /\ ~Fresh'
        BY <2>3, <2>7 DEF FrameEnds, FrameBegins
    <3>2. PhaseInv'
        BY <2>1, <3>1, PhaseNext
    <3> QED BY <2>2, <3>1, <3>2 DEF Accounted, Owed
  <2> QED BY <2>5, <2>6, <2>7, WireSteps DEF Rests, GlitchBegins, GlitchGoesOn, GlitchEnds
<1>6. CASE RxTime # Begin(FrameLen)
  <2>1. Busy' /\ ~Free' /\ RxTime' = RxTime + 1
      BY <1>1, <1>2, <1>4, <1>6
  <2>2. CASE FrameBegins
    <3>1. /\ wire' = "frame" /\ Age' = 0 /\ FrameOver /\ burst < BURST /\ burst' = burst + 1
          /\ Age = Edge(FrameLen) - 1
        BY <2>2, WireAge DEF FrameBegins
    <3>2. Fresh' /\ Receiving' /\ ~FalseStarting'
        BY <1>1, <2>1, <3>1, PhaseNext
    <3>3. burst' >= 2 /\ Edge(FrameLen) + Age' <= RxTime' + 7 + Late(burst' - 1)
      <4>1. burst' - 1 = burst /\ burst' >= 2
          BY <1>3, <3>1, WireAge
      <4> QED BY <1>1, <1>3, <2>1, <3>1, <4>1, RxNumbers
    <3>4. PhaseInv'
        BY <2>1, <3>1, <3>2, <3>3, PhaseNext
    <3>5. /\ (IF Undone' THEN 1 ELSE 0) + o_rx_done = (IF Undone THEN 1 ELSE 0)
          /\ Undone' => Undone /\ o_rx_done = 0
          /\ o_rx_done \in {0, 1}
        BY <1>1, <1>6, <2>1, <3>2, UndoneStep, DoneFlag
    <3>6. Owed' + o_rx_done = Owed + 1
        BY <3>2, <3>5 DEF Owed
    <3> QED BY <2>2, <3>2, <3>4, <3>5, <3>6 DEF Accounted
  <2>3. CASE FrameGoesOn
    <3>1. wire' = "frame" /\ Age' = Age + 1 /\ hdata' = hdata /\ burst' = burst
        BY <2>3 DEF FrameGoesOn
    <3>2. ~Fresh' /\ Receiving' /\ ~FalseStarting' /\ Age' <= RxTime' + 7 + Late(burst')
        BY <1>1, <1>3, <2>1, <3>1, PhaseNext
    <3>3. PhaseInv'
        BY <2>1, <3>1, <3>2, PhaseNext
    <3>4. ~FrameBegins
        BY <1>3, <3>1 DEF FrameBegins
    <3> QED BY <1>1, <1>6, <2>1, <3>1, <3>2, <3>3, <3>4, UndoneStep DEF Accounted, Owed
  <2>4. CASE FrameEnds
    <3>1. wire' = "idle" /\ Paused' = 0 /\ burst' = burst /\ Age = Edge(FrameLen) - 1
        BY <2>4, WireAge DEF FrameEnds
    <3>2. Half < RxTime'
        BY <1>1, <1>3, <2>1, <3>1, RxNumbers
    <3>3. ~Fresh' /\ Receiving' /\ ~FalseStarting'
        BY <1>1, <2>1, <3>1, <3>2, PhaseNext, RxNumbers
    <3>4. burst' >= 1 /\ Edge(FrameLen) + Paused' <= RxTime' + 7 + Late(burst')
        BY <1>1, <1>3, <2>1, <3>1, RxNumbers
    <3>5. PhaseInv'
        BY <2>1, <3>1, <3>3, <3>4, PhaseNext
    <3>6. ~FrameBegins
        BY <3>1 DEF FrameBegins
    <3> QED BY <1>1, <1>6, <2>1, <3>1, <3>3, <3>5, <3>6, UndoneStep DEF Accounted, Owed
  <2> QED BY <2>2, <2>3, <2>4, WireSteps DEF Rests, GlitchBegins, GlitchGoesOn, GlitchEnds
<1> QED BY <1>5, <1>6

(* The receiver is in the frame that is over on the wire.                  *)
LEMMA PhaseAfterFrame ==
    ASSUME RxClocksAgree, RxInv, WireTypes, PhaseInv, DataInv, LineNext,
           Receiving, wire = "idle" \/ Fresh
    PROVE  PhaseInv' /\ Accounted
<1>1. /\ RxInv' /\ RxTime \in Nat /\ Busy /\ RxTime <= Begin(FrameLen)
      /\ (RxTime = Begin(FrameLen) => Free' /\ rx_state' = "IDLE")
      /\ (RxTime # Begin(FrameLen) /\ ~(RxTime = Half /\ sync_uart_rx = 1) =>
              Busy' /\ RxTime' = RxTime + 1)
    BY LevelIs, RxTimeStep, RxInvStep, RxTimesInv, RxTimes DEF LineNext, Receiving
<1>2. Free' <=> ~Busy'
    BY <1>1, UndoneNext
<1>3. CASE wire = "idle"
  <2>1. /\ burst >= 1 /\ Edge(FrameLen) + Paused <= RxTime + 7 + Late(burst) /\ Half < RxTime
        /\ Paused \in 0 .. QUIET
      BY <1>1, <1>3, WireAge, RxNumbers DEF PhaseInv, Receiving, FalseStarting
  <2>2. Paused < QUIET
      BY <1>1, <2>1, RxNumbers
  <2>3. ~Fresh
      BY <1>3 DEF Fresh
  <2>4. FrameBegins \/ Rests
    <3>1. ~FrameGoesOn /\ ~FrameEnds /\ ~GlitchBegins /\ ~GlitchGoesOn /\ ~GlitchEnds
        BY <1>3, <2>2, RxNumbers
           DEF FrameGoesOn, FrameEnds, FrameOver, GlitchBegins, GlitchGoesOn, GlitchEnds
    <3> QED BY <3>1, WireSteps
  <2>5. FrameBegins => wire' = "frame" /\ Age' = 0 /\ burst < BURST /\ burst' = burst + 1
                       /\ Late(burst') \in Nat
    <3>1. ~(Paused = QUIET)
        BY <2>1, <2>2
    <3> QED BY <3>1, FrameAges DEF FrameBegins
  <2>6. Rests => wire' = "idle" /\ Paused' = Paused + 1 /\ burst' = burst /\ ~FrameBegins
      BY <2>2 DEF Rests, FrameBegins
  <2>7. CASE RxTime = Begin(FrameLen)
    <3>1. Free' /\ ~Busy' /\ rx_state' = "IDLE" /\ ~Receiving' /\ ~FalseStarting'
        BY <1>1, <1>2, <2>7, PhaseNext
    <3>2. ~Undone /\ ~Undone' /\ o_rx_done = 0
        BY <1>1, <2>7, <3>1, UndoneStep
    <3>3. Fresh' <=> wire' = "frame" /\ Age' < HOSTCYCLE
        BY <3>1, PhaseNext
    <3>4. CASE FrameBegins
      <4>1. Fresh'
          BY <2>5, <3>3, <3>4, RxNumbers
      <4>2. PhaseInv'
          BY <2>5, <3>1, <3>4, PhaseNext
      <4> QED BY <2>3, <3>2, <3>4, <4>1, <4>2 DEF Accounted, Owed
    <3>5. CASE Rests
      <4>1. ~Fresh' /\ wire' = "idle"
          BY <2>6, <3>3, <3>5
      <4>2. PhaseInv'
          BY <2>6, <3>1, <3>5, PhaseNext
      <4> QED BY <2>3, <2>6, <3>2, <3>5, <4>1, <4>2 DEF Accounted, Owed
    <3> QED BY <2>4, <3>4, <3>5
  <2>8. CASE RxTime # Begin(FrameLen)
    <3>1. Busy' /\ ~Free' /\ RxTime' = RxTime + 1
        BY <1>1, <1>2, <2>1, <2>8, RxNumbers
    <3>2. Receiving' /\ ~FalseStarting'
        BY <1>1, <2>1, <3>1, PhaseNext, RxNumbers
    <3>3. CASE FrameBegins
      <4>1. Fresh'
          BY <1>1, <2>5, <3>1, <3>3, PhaseNext
      <4>2. burst' >= 2 /\ Edge(FrameLen) + Age' <= RxTime' + 7 + Late(burst' - 1)
        <5>1. burst' - 1 = burst /\ burst' >= 2
            BY <2>1, <2>5, <3>3, WireAge
        <5> QED BY <1>1, <2>1, <2>5, <3>1, <3>3, <5>1, RxNumbers
      <4>3. PhaseInv'
          BY <2>5, <3>1, <3>2, <3>3, <4>1, <4>2, PhaseNext
      <4>4. /\ (IF Undone' THEN 1 ELSE 0) + o_rx_done = (IF Undone THEN 1 ELSE 0)
            /\ Undone' => Undone /\ o_rx_done = 0
            /\ o_rx_done \in {0, 1}
          BY <1>1, <2>8, <3>1, <3>2, UndoneStep, DoneFlag
      <4>5. Owed' + o_rx_done = Owed + 1
          BY <2>3, <4>1, <4>4 DEF Owed
      <4> QED BY <3>3, <4>1, <4>3, <4>4, <4>5 DEF Accounted
    <3>4. CASE Rests
      <4>1. ~Fresh' /\ wire' = "idle"
          BY <2>6, <3>4, PhaseNext
      <4>2. burst' >= 1 /\ Edge(FrameLen) + Paused' <= RxTime' + 7 + Late(burst')
          BY <1>1, <2>1, <2>6, <3>1, <3>4, RxNumbers
      <4>3. PhaseInv'
          BY <3>1, <3>2, <4>1, <4>2, PhaseNext
      <4> QED BY <1>1, <2>3, <2>6, <2>8, <3>1, <3>2, <3>4, <4>1, <4>3, UndoneStep DEF Accounted, Owed
    <3> QED BY <2>4, <3>3, <3>4
  <2> QED BY <2>7, <2>8
<1>4. CASE Fresh
  <2>1. /\ wire = "frame" /\ Age < RxTime + 7 /\ burst >= 2 /\ Age \in Nat
        /\ Edge(FrameLen) + Age <= RxTime + 7 + Late(burst - 1)
      BY <1>1, <1>4, WireAge DEF PhaseInv, Fresh
  <2>2. Age <= 5 + Late(burst) /\ Age + 1 < HOSTCYCLE /\ Half < RxTime
      BY <1>1, <2>1, RxNumbers
  <2>3. ~FrameOver
      BY <2>1, <2>2, FrameAges, RxNumbers
  <2>4. wire' = "frame" /\ Age' = Age + 1 /\ hdata' = hdata /\ burst' = burst
    <3>1. ~FrameBegins /\ ~FrameEnds /\ ~Rests /\ ~GlitchBegins /\ ~GlitchGoesOn /\ ~GlitchEnds
        BY <2>1, <2>3 DEF FrameBegins, FrameEnds, Rests, GlitchBegins, GlitchGoesOn, GlitchEnds
    <3> QED BY <3>1, WireSteps DEF FrameGoesOn
  <2>5. ~FrameBegins
      BY <2>1, <2>4 DEF FrameBegins
  <2>6. CASE RxTime = Begin(FrameLen)
    <3>1. Free' /\ ~Busy' /\ rx_state' = "IDLE" /\ ~Receiving' /\ ~FalseStarting'
        BY <1>1, <1>2, <2>6, PhaseNext
    <3>2. ~Undone /\ ~Undone' /\ o_rx_done = 0
        BY <1>1, <2>6, <3>1, UndoneStep
    <3>3. Fresh' /\ Age' <= 6 + Late(burst')
        BY <2>1, <2>2, <2>4, <3>1, PhaseNext, RxNumbers
    <3>4. PhaseInv'
        BY <3>1, <3>3, PhaseNext
    <3> QED BY <1>4, <2>1, <2>4, <2>5, <3>2, <3>3, <3>4 DEF Accounted, Owed
  <2>7. CASE RxTime # Begin(FrameLen)
    <3>1. Busy' /\ ~Free' /\ RxTime' = RxTime + 1
        BY <1>1, <1>2, <2>2, <2>7, RxNumbers
    <3>2. Receiving' /\ ~FalseStarting' /\ Fresh'
        BY <1>1, <2>1, <2>4, <3>1, PhaseNext
    <3>3. PhaseInv'
        BY <1>1, <2>1, <2>4, <3>1, <3>2, PhaseNext, RxNumbers
    <3>4. /\ (IF Undone' THEN 1 ELSE 0) + o_rx_done = (IF Undone THEN 1 ELSE 0)
          /\ Undone' => Undone /\ o_rx_done = 0
          /\ o_rx_done \in {0, 1}
        BY <1>1, <2>7, <3>1, <3>2, UndoneStep, DoneFlag
    <3>5. Owed' + o_rx_done = Owed
        BY <1>4, <3>2, <3>4 DEF Owed
    <3> QED BY <1>4, <2>1, <2>4, <2>5, <3>3, <3>4, <3>5 DEF Accounted
  <2> QED BY <2>6, <2>7
<1> QED BY <1>3, <1>4

(* The bytes still to be delivered.                                        *)
LEMMA ExpectedStep ==
    ASSUME RxClocksAgree, RxInv, WireTypes, ExpectedInv, DataInv, Accounted, LineNext
    PROVE  /\ ExpectedInv'
           /\ Undone => expected # <<>> /\ Head(expected) \in Data
           /\ Undone /\ o_rx_done = 0 => Head(expected') = Head(expected)
<1>1. /\ expected \in Seq(Data) /\ Len(expected) = Owed /\ o_rx_done \in {0, 1}
      /\ Owed \in Nat /\ (Undone => Owed >= 1)
    BY DoneFlag DEF ExpectedInv, Owed
<1>2. o_rx_done = 1 => Undone
  <2>1. o_rx_done = 1 => Receiving /\ RxTime <= Begin(StopBit) + Half + 1
      BY DoneFlag, RxNumbers DEF Receiving, FalseStarting
  <2> QED BY <2>1, RxTimesInv
<1>3. /\ Undelivered \in Seq(Data) /\ Len(Undelivered) + o_rx_done = Owed
      /\ \A k \in 1 .. Len(Undelivered) : Undelivered[k] = expected[k + o_rx_done]
  <2>1. CASE o_rx_done = 1
    <3>1. Undelivered = Tail(expected) /\ expected # <<>>
        BY <1>1, <1>2, <2>1 DEF Undelivered
    <3> QED BY <1>1, <2>1, <3>1
  <2>2. CASE o_rx_done = 0
    <3>1. Undelivered = expected
        BY <2>2 DEF Undelivered
    <3> QED BY <1>1, <2>2, <3>1
  <2> QED BY <1>1, <2>1, <2>2
<1>4. Data' = Data /\ (ExpectedInv' <=>
         /\ expected' \in Seq(Data) /\ Len(expected') = Owed'
         /\ Fresh' \/ (Undone' /\ wire' = "frame") => expected'[Len(expected')] = hdata')
    BY DEF ExpectedInv, Data
<1>5. CASE FrameBegins
  <2>1. expected' = Append(Undelivered, hdata') /\ hdata' \in Data /\ Owed' + o_rx_done = Owed + 1
      BY <1>5 DEF FrameBegins, Accounted
  <2>2. /\ expected' \in Seq(Data) /\ Len(expected') = Len(Undelivered) + 1
        /\ expected'[Len(expected')] = hdata'
      BY <1>3, <2>1
  <2>3. Owed' \in Nat /\ Len(Undelivered) \in Nat
      BY <1>3 DEF Owed
  <2>4. Len(expected') = Owed'
    <3>1. Len(Undelivered) + o_rx_done = Owed /\ Owed' + o_rx_done = Owed + 1
        BY <1>3, <2>1
    <3>2. Owed' \in Nat /\ Owed \in Nat /\ Len(Undelivered) \in Nat /\ o_rx_done \in Nat
        BY <1>1, <2>3
    <3>3. PICK m \in Nat, n \in Nat : m = Owed' /\ n = Len(Undelivered)
        BY <3>2
    <3>4. n + o_rx_done = Owed /\ m + o_rx_done = Owed + 1
        BY <3>1, <3>3
    <3>5. m = n + 1
        BY <3>2, <3>4
    <3> QED BY <2>2, <3>3, <3>5
  <2>5. Undone /\ o_rx_done = 0 => Head(expected') = Head(expected)
      BY <1>1, <1>3, <2>1 DEF Undelivered
  <2> QED BY <1>1, <1>4, <2>2, <2>4, <2>5
<1>6. CASE ~FrameBegins
  <2>1. expected' = Undelivered
      BY <1>6, WireSteps DEF FrameGoesOn, FrameEnds, Rests, GlitchBegins, GlitchGoesOn, GlitchEnds
  <2>2. /\ Owed' + o_rx_done = Owed
        /\ Fresh' \/ (Undone' /\ wire' = "frame") =>
              wire = "frame" /\ (Fresh \/ Undone) /\ hdata' = hdata
      BY <1>6 DEF Accounted
  <2>3. Owed' \in Nat /\ (Fresh' \/ Undone' => Owed' >= 1)
      BY DEF Owed
  <2>4. Len(expected') = Owed'
      BY <1>1, <1>3, <2>1, <2>2, <2>3
  <2>5. Fresh' \/ (Undone' /\ wire' = "frame") => expected'[Len(expected')] = hdata'
    <3> SUFFICES ASSUME Fresh' \/ (Undone' /\ wire' = "frame")
                 PROVE  expected'[Len(expected')] = hdata'
        OBVIOUS
    <3>1. hdata' = hdata /\ expected[Len(expected)] = hdata
        BY <2>2 DEF ExpectedInv
    <3>2. Len(Undelivered) \in Nat /\ Len(Undelivered) >= 1
        BY <1>3, <2>1, <2>3, <2>4
    <3>3. Len(Undelivered) \in 1 .. Len(Undelivered) /\ Len(Undelivered) + o_rx_done = Len(expected)
        BY <1>1, <1>3, <3>2
    <3> QED BY <1>3, <2>1, <3>1, <3>3
  <2>6. Undone /\ o_rx_done = 0 => Head(expected') = Head(expected)
      BY <2>1 DEF Undelivered
  <2> QED BY <1>1, <1>3, <1>4, <2>1, <2>4, <2>5, <2>6
<1> QED BY <1>5, <1>6

(* What the receiver samples is the byte it owes.                          *)
LEMMA SampledBit ==
    ASSUME RxClocksAgree, RxInv, WireTypes, SyncInv, PhaseInv, ExpectedInv, Undone,
           NEW j \in 0 .. StopBit - 1, RxTime = Begin(j) + Half
    PROVE  Head(expected) = hdata /\ hdata \in Data /\ sync_uart_rx = BitLevel(j)
<1>1. /\ Receiving /\ Busy /\ RxTime \in Nat
      /\ Begin(j) \in Nat /\ Half \in Nat /\ Late(BURST) \in Nat
      /\ Begin(j) + Half + 8 + Late(BURST) + HOSTCYCLE <= Edge(FrameLen) + 1
      /\ HOSTCYCLE \in Nat /\ HOSTCYCLE > 0 /\ Edge(FrameLen) \in Nat
  <2>1. Begin(j) \in Nat
      BY FrameClocks
  <2>2. Edge(FrameLen) \in Nat /\ HOSTCYCLE \in Nat /\ HOSTCYCLE > 0 /\ Half \in Nat
      BY RxNumbers
  <2>3. /\ Begin(j) + Half + 8 + Late(BURST) + HOSTCYCLE <= Edge(FrameLen) + 1
        /\ Late(BURST) \in Nat
      BY RxClocks
  <2> QED BY <2>1, <2>2, <2>3, RxTimesInv DEF Undone, Receiving
<1>2. \A n \in 1 .. BURST : Late(n) \in Nat /\ Late(n) <= Late(BURST)
    BY LateGrows
<1>3. wire # "idle"
  <2> SUFFICES ASSUME wire = "idle" PROVE FALSE
      OBVIOUS
  <2>1. burst \in 1 .. BURST /\ Edge(FrameLen) + Paused <= RxTime + 7 + Late(burst) /\ Paused \in Nat
      BY <1>1, WireAge DEF PhaseInv
  <2>2. Late(burst) \in Nat /\ Late(burst) <= Late(BURST)
      BY <1>2, <2>1
  <2> QED BY <1>1, <2>1, <2>2
<1>4. ~Fresh
  <2> SUFFICES ASSUME Fresh PROVE FALSE
      OBVIOUS
  <2>1. /\ burst \in 1 .. BURST /\ burst >= 2 /\ Age \in Nat
        /\ Edge(FrameLen) + Age <= RxTime + 7 + Late(burst - 1)
      BY <1>1, WireAge DEF PhaseInv, Fresh
  <2>2. burst - 1 \in 1 .. BURST
      BY <2>1, WireAge
  <2>3. Late(burst - 1) \in Nat /\ Late(burst - 1) <= Late(BURST)
      BY <1>2, <2>2
  <2> QED BY <1>1, <2>1, <2>3
<1>5. wire = "frame"
    BY <1>1, <1>3 DEF PhaseInv, WireTypes
<1>6. Head(expected) = hdata /\ hdata \in Data
  <2>1. Len(expected) = 1 /\ expected[Len(expected)] = hdata
      BY <1>4, <1>5 DEF ExpectedInv, Owed
  <2> QED BY <2>1 DEF WireTypes
<1>7. RxTime + 7 <= Age /\ Age <= RxTime + 7 + Late(BURST)
  <2>1. burst \in 1 .. BURST /\ Age \in Nat
      BY <1>5, WireAge
  <2>2. Late(burst) \in Nat /\ Late(burst) <= Late(BURST)
      BY <1>2, <2>1
  <2>3. Age <= RxTime + 7 + Late(burst)
      BY <1>1, <1>4, <1>5 DEF PhaseInv
  <2>4. ~(Age < RxTime + 7)
      BY <1>1, <1>4, <1>5 DEF Fresh
  <2> QED BY <1>1, <2>1, <2>2, <2>3, <2>4
<1>8. sync_uart_rx = BitLevel(j)
    BY <1>1, <1>5, <1>7, SampleIs
<1> QED BY <1>6, <1>8

LEMMA DataNext ==
    DataInv' <=>
        (Undone' =>
            /\ Shifted(r_data_rcv', r_rcv_cnt', Head(expected'))
            /\ rx_parity' = OnesTo(Head(expected'), r_rcv_cnt') % 2
            /\ rx_state' = "PARITY" /\ rx_baud_cnt' \notin 1 .. Half => o_ld_parity' = 1
            /\ rx_state' = "END" /\ PARITY_ON = 1 => o_ld_parity' = 1
            /\ rx_state' = "END" /\ rx_baud_cnt' = Half + 1 =>
                  o_rx_done' = 1 /\ o_uart_data' = Head(expected'))
BY DEF DataInv, OnesTo, Shifted, Half

(* A bit shifted into the register and into the parity.                    *)
LEMMA ShiftBit ==
    ASSUME NEW d \in Data, NEW r \in Data, NEW k \in 0 .. DATA_WIDTH - 1, NEW p,
           Shifted(r, k, d), p = OnesTo(d, k) % 2
    PROVE  /\ Shifted(Append(Tail(r), d[k + 1]), k + 1, d)
           /\ (p + d[k + 1]) % 2 = OnesTo(d, k + 1) % 2
<1>1. DATA_WIDTH \in Nat /\ k \in Nat /\ k + 1 \in 1 .. DATA_WIDTH /\ d[k + 1] \in {0, 1}
    BY HalfBit DEF Data
<1>2. /\ \A i \in 1 .. DATA_WIDTH - 1 : Append(Tail(r), d[k + 1])[i] = r[i + 1]
      /\ Append(Tail(r), d[k + 1])[DATA_WIDTH] = d[k + 1]
    BY <1>1, ShiftType
<1>3. ASSUME NEW i \in 1 .. k + 1
      PROVE  Append(Tail(r), d[k + 1])[DATA_WIDTH - (k + 1) + i] = d[i]
  <2>1. CASE i = k + 1
    <3>1. DATA_WIDTH - (k + 1) + i = DATA_WIDTH
        BY <1>1, <2>1
    <3> QED BY <1>2, <2>1, <3>1
  <2>2. CASE i # k + 1
    <3> DEFINE at == DATA_WIDTH - (k + 1) + i
    <3>1. i \in 1 .. k /\ at \in 1 .. DATA_WIDTH - 1 /\ at + 1 = DATA_WIDTH - k + i
        BY <1>1, <2>2
    <3>2. Append(Tail(r), d[k + 1])[at] = r[at + 1]
        BY <1>2, <3>1
    <3>3. r[DATA_WIDTH - k + i] = d[i]
        BY <3>1 DEF Shifted
    <3> QED BY <3>1, <3>2, <3>3
  <2> QED BY <2>1, <2>2
<1>4. OnesTo(d, k + 1) = OnesTo(d, k) + d[k + 1] /\ OnesTo(d, k) \in Nat
  <2>1. k \in 0 .. DATA_WIDTH
      BY <1>1
  <2> QED BY <2>1, OnesCount
<1>5. (p + d[k + 1]) % 2 = OnesTo(d, k + 1) % 2
    BY <1>1, <1>4
<1> QED BY <1>3, <1>5 DEF Shifted

LEMMA AllShifted ==
    ASSUME NEW d \in Data, NEW r \in Data, Shifted(r, DATA_WIDTH, d)
    PROVE  r = d
<1>1. ASSUME NEW i \in 1 .. DATA_WIDTH PROVE r[i] = d[i]
  <2>1. DATA_WIDTH - DATA_WIDTH + i = i
      BY HalfBit
  <2>2. r[DATA_WIDTH - DATA_WIDTH + i] = d[i]
      BY DEF Shifted
  <2> QED BY <2>1, <2>2
<1>2. r = [i \in 1 .. DATA_WIDTH |-> r[i]] /\ d = [i \in 1 .. DATA_WIDTH |-> d[i]]
    BY DEF Data
<1> QED BY <1>1, <1>2, Zenon

LEMMA DataStep ==
    ASSUME RxClocksAgree, ParityChecked, RxInv, RxInv', WireTypes, SyncInv, PhaseInv, ExpectedInv,
           DataInv, Accounted, LineNext, ExpectedInv'
    PROVE  DataInv'
<1> SUFFICES ASSUME Undone'
             PROVE  /\ Shifted(r_data_rcv', r_rcv_cnt', Head(expected'))
                    /\ rx_parity' = OnesTo(Head(expected'), r_rcv_cnt') % 2
                    /\ rx_state' = "PARITY" /\ rx_baud_cnt' \notin 1 .. Half => o_ld_parity' = 1
                    /\ rx_state' = "END" /\ PARITY_ON = 1 => o_ld_parity' = 1
                    /\ rx_state' = "END" /\ rx_baud_cnt' = Half + 1 =>
                          o_rx_done' = 1 /\ o_uart_data' = Head(expected')
    BY DataNext
<1>1. RxClock(Level) /\ Level \in {0, 1} /\ Busy'
    BY LevelIs, RxTimesInv, UndoneNext, PhaseNext DEF LineNext
<1>2. /\ rx_baud_cnt' = IF Free \/ rx_baud_cnt = CYCLE - 1 THEN 0 ELSE rx_baud_cnt + 1
      /\ rx_state' = IF Free THEN "IDLE" ELSE IF rx_baud_cnt = 0 THEN RxAfter ELSE rx_state
    BY <1>1, RxBaudStep DEF RxInv
<1>3. /\ CYCLE \in Nat /\ Half \in Nat /\ Half >= 2 /\ Half + 1 < CYCLE /\ DATA_WIDTH \in 1 .. 15
      /\ PARITY_ON \in {0, 1}
    BY HalfBit, FrameFormat
<1>4. ASSUME r_rcv_cnt' = 0, rx_parity' = 0, rx_state' \notin {"PARITY", "END"}
      PROVE  /\ Shifted(r_data_rcv', r_rcv_cnt', Head(expected'))
             /\ rx_parity' = OnesTo(Head(expected'), r_rcv_cnt') % 2
  <2>1. {i \in 1 .. 0 : Head(expected')[i] = 1} = {}
      OBVIOUS
  <2>2. OnesTo(Head(expected'), 0) = 0
      BY <2>1, FS_EmptySet DEF OnesTo
  <2> QED BY <1>4, <2>2 DEF Shifted
<1>5. CASE rx_state' = "IDLE"
  <2>1. r_rcv_cnt' = 0 /\ rx_parity' = 0
      BY <1>1, <1>5 DEF RxInv, RxCountInv
  <2> QED BY <1>4, <1>5, <2>1
<1>6. CASE rx_state' # "IDLE"
  <2>1. Undone /\ o_rx_done = 0 /\ ~Free /\ Busy
      BY <1>2, <1>6, RxTimesInv DEF Accounted
  <2>2. PICK d \in Data : Head(expected) = d /\ Head(expected') = d
      BY <2>1, ExpectedStep
  <2>3. /\ Shifted(r_data_rcv, r_rcv_cnt, d)
        /\ rx_parity = OnesTo(d, r_rcv_cnt) % 2
        /\ rx_state = "PARITY" /\ rx_baud_cnt \notin 1 .. Half => o_ld_parity = 1
        /\ rx_state = "END" /\ PARITY_ON = 1 => o_ld_parity = 1
      BY <2>1, <2>2 DEF DataInv
  <2>4. /\ rx_state \in {"IDLE", "START", "DATA", "PARITY", "END"} /\ rx_baud_cnt \in 0 .. CYCLE - 1
        /\ r_rcv_cnt \in 0 .. DATA_WIDTH /\ r_data_rcv \in Data /\ sync_uart_rx \in {0, 1}
        /\ rx_baud_pulse \in {0, 1}
        /\ rx_state # "IDLE" => (rx_baud_pulse = 1 <=> rx_baud_cnt = Half)
      BY <2>1 DEF RxInv, RxTypeOK, RxBaudInv
  <2>5. rx_baud_cnt' = 0 \/ rx_baud_cnt' = rx_baud_cnt + 1
      BY <1>2, <2>1
  <2>6. CASE rx_state \in {"IDLE", "START"}
    <3>1. RxIdle \/ RxStart
        BY <1>1, <2>6 DEF RxClock, RxData, RxParity, RxEnd
    <3>2. r_rcv_cnt = 0 /\ rx_parity = 0
        BY <2>1, <2>6 DEF RxInv, RxCountInv
    <3>3. r_rcv_cnt' = 0 /\ rx_parity' = 0
        BY <3>1, <3>2 DEF RxIdle, RxStart
    <3>4. rx_state' \notin {"PARITY", "END"}
        BY <1>2, <2>6 DEF RxAfter
    <3> QED BY <1>4, <3>3, <3>4
  <2>7. CASE rx_state = "DATA"
    <3>1. RxData
        BY <1>1, <2>7 DEF RxClock, RxIdle, RxStart, RxParity, RxEnd
    <3>2. CASE rx_baud_cnt = Half
      <4>1. /\ r_data_rcv' = Append(Tail(r_data_rcv), sync_uart_rx)
            /\ r_rcv_cnt' = (r_rcv_cnt + 1) % 16
            /\ rx_parity' = (rx_parity + sync_uart_rx) % 2
          BY <2>4, <2>7, <3>1, <3>2 DEF RxData
      <4>2. r_rcv_cnt \in 0 .. DATA_WIDTH - 1 /\ r_rcv_cnt' = r_rcv_cnt + 1
        <5>1. r_rcv_cnt < DATA_WIDTH
            BY <1>3, <2>7, <3>2 DEF RxInv, RxCountInv
        <5> QED BY <1>3, <2>4, <4>1, <5>1
      <4>3. sync_uart_rx = d[r_rcv_cnt + 1]
        <5>1. RxTime = Begin(r_rcv_cnt + 1) + Half
            BY <1>3, <2>7, <3>2 DEF RxTime, RxBit, Place
        <5>2. r_rcv_cnt + 1 \in 1 .. DATA_WIDTH /\ r_rcv_cnt + 1 \in 0 .. StopBit - 1
            BY <1>3, <4>2 DEF StopBit
        <5>3. hdata = d /\ sync_uart_rx = BitLevel(r_rcv_cnt + 1)
            BY <2>1, <2>2, <5>1, <5>2, SampledBit
        <5> QED BY <1>3, <5>2, <5>3 DEF BitLevel
      <4>4. /\ Shifted(Append(Tail(r_data_rcv), d[r_rcv_cnt + 1]), r_rcv_cnt + 1, d)
            /\ (rx_parity + d[r_rcv_cnt + 1]) % 2 = OnesTo(d, r_rcv_cnt + 1) % 2
          BY <2>3, <2>4, <4>2, ShiftBit
      <4>5. rx_state' = "DATA"
          BY <1>2, <1>3, <2>1, <2>7, <3>2
      <4> QED BY <2>2, <4>1, <4>2, <4>3, <4>4, <4>5
    <3>3. CASE rx_baud_cnt # Half
      <4>1. UNCHANGED <<r_data_rcv, r_rcv_cnt, rx_parity>>
          BY <2>4, <2>7, <3>1, <3>3 DEF RxData
      <4>2. rx_state' # "DATA" => rx_baud_cnt' = 1
          BY <1>2, <1>3, <2>1, <2>7
      <4>3. rx_state' = "END" => PARITY_ON = 0
          BY <1>2, <2>1, <2>7 DEF RxAfter
      <4> QED BY <1>3, <2>2, <2>3, <4>1, <4>2, <4>3
    <3> QED BY <3>2, <3>3
  <2>8. CASE rx_state = "PARITY"
    <3>1. RxParity
        BY <1>1, <2>8 DEF RxClock, RxIdle, RxStart, RxData, RxEnd
    <3>2. UNCHANGED <<r_data_rcv, r_rcv_cnt, rx_parity>>
        BY <3>1 DEF RxParity
    <3>3. rx_baud_cnt = Half => o_ld_parity' = 1
      <4> SUFFICES ASSUME rx_baud_cnt = Half PROVE o_ld_parity' = 1
          OBVIOUS
      <4>1. PARITY_ON = 1 /\ PARITY_TYPE = 1 /\ r_rcv_cnt = DATA_WIDTH
          BY <2>8 DEF RxInv, RxCountInv, ParityChecked
      <4>2. StopBit = DATA_WIDTH + 2 /\ DATA_WIDTH + 1 \in 0 .. StopBit - 1
          BY <1>3, <4>1 DEF StopBit
      <4>3. RxTime = Begin(DATA_WIDTH + 1) + Half
          BY <1>3, <2>8 DEF RxTime, RxBit, Place
      <4>4. hdata = d /\ sync_uart_rx = BitLevel(DATA_WIDTH + 1)
          BY <2>1, <2>2, <4>2, <4>3, SampledBit
      <4>5. sync_uart_rx = ParityBit(d)
          BY <1>3, <4>2, <4>4 DEF BitLevel
      <4>6. rx_parity = Ones(d) % 2 /\ Ones(d) \in Nat
          BY <2>3, <4>1, OnesCount
      <4>7. ParityRight
          BY <4>1, <4>5, <4>6 DEF ParityRight, ParityBit
      <4> QED BY <2>4, <2>8, <3>1, <4>7 DEF RxParity
    <3>4. rx_baud_cnt # Half => o_ld_parity' = o_ld_parity
        BY <2>4, <2>8, <3>1 DEF RxParity
    <3>5. rx_state' \in {"PARITY", "END"} /\ (rx_state' = "END" => rx_baud_cnt = 0 /\ rx_baud_cnt' = 1)
        BY <1>2, <1>3, <2>1, <2>8 DEF RxAfter
    <3>6. rx_state' = "PARITY" => rx_baud_cnt # 0
        BY <1>2, <2>1, <2>8 DEF RxAfter
    <3>7. rx_baud_cnt \in 1 .. Half - 1 => rx_baud_cnt' \in 1 .. Half
        BY <1>2, <1>3, <2>1
    <3>8. rx_state' = "PARITY" /\ rx_baud_cnt' \notin 1 .. Half => o_ld_parity' = 1
        BY <1>3, <2>3, <2>4, <2>8, <3>3, <3>4, <3>6, <3>7
    <3>9. rx_state' = "END" => o_ld_parity' = 1 /\ rx_baud_cnt' # Half + 1
        BY <1>3, <2>3, <2>8, <3>4, <3>5
    <3> QED BY <2>2, <2>3, <3>2, <3>8, <3>9
  <2>9. CASE rx_state = "END"
    <3>1. RxEnd
        BY <1>1, <2>9 DEF RxClock, RxIdle, RxStart, RxData, RxParity
    <3>2. UNCHANGED <<r_data_rcv, r_rcv_cnt, rx_parity, o_ld_parity>>
        BY <3>1 DEF RxEnd
    <3>3. rx_state' = "END"
        BY <1>2, <1>6, <2>1, <2>9 DEF RxAfter
    <3>4. rx_baud_cnt' = Half + 1 => rx_baud_cnt = Half
        BY <1>3, <2>4, <2>5
    <3>5. rx_baud_cnt = Half => o_rx_done' = 1 /\ o_uart_data' = r_data_rcv
        BY <1>3, <2>3, <2>4, <2>9, <3>1 DEF RxEnd, RxDone
    <3>6. r_data_rcv = d
      <4>1. r_rcv_cnt = DATA_WIDTH
          BY <2>9 DEF RxInv, RxCountInv
      <4> QED BY <2>3, <2>4, <4>1, AllShifted
    <3> QED BY <2>2, <2>3, <2>9, <3>2, <3>3, <3>4, <3>5, <3>6
  <2> QED BY <2>4, <2>6, <2>7, <2>8, <2>9
<1> QED BY <1>5, <1>6

(* The line at rest, before the first byte.                                *)
LineRests ==
    /\ RxInit
    /\ wire = "idle" /\ bit = 0 /\ left = 0 /\ hdata \in Data /\ burst \in 0 .. BURST
    /\ expected = <<>>

LEMMA RxLineInvAtRest == LineRests => RxLineInv
<1> SUFFICES ASSUME LineRests PROVE RxLineInv
    OBVIOUS
<1>1. RxInv
    BY RxInvInit DEF LineRests
<1>2. wire = "idle" /\ bit = 0 /\ left = 0 /\ hdata \in Data /\ burst \in 0 .. BURST
      /\ expected = <<>>
    BY DEF LineRests
<1>3. sync_uart_rx = 1 /\ r_flag_rcv_start = <<1, 1, 1, 1, 1>> /\ Free /\ ~Busy /\ rx_state = "IDLE"
    BY DEF LineRests, RxInit, Free, Busy
<1>4. WireTypes
  <2>1. StopBit \in Nat /\ QUIET \in Nat
      BY Edges, LineAssumption
  <2> QED BY <1>2, <2>1 DEF WireTypes
<1>5. SyncInv /\ FlagInv
    BY <1>2, <1>3 DEF SyncInv, FlagInv
<1>6. ~Receiving /\ ~Undone /\ ~Fresh /\ ~FalseStarting
    BY <1>2, <1>3 DEF Receiving, Undone, Fresh, FalseStarting
<1>7. PhaseInv
    BY <1>2, <1>3, <1>6 DEF PhaseInv
<1>8. ExpectedInv
    BY <1>2, <1>6 DEF ExpectedInv, Owed
<1>9. DataInv
    BY <1>6 DEF DataInv
<1> QED BY <1>1, <1>4, <1>5, <1>7, <1>8, <1>9 DEF RxLineInv

LEMMA RxLineInvInit == LineInit => RxLineInv
<1> SUFFICES ASSUME LineInit PROVE LineRests
    BY RxLineInvAtRest
<1>1. NoData \in Data
    BY DEF NoData, Data
<1>2. BURST \in Nat
    BY LineAssumption
<1> QED BY <1>1, <1>2 DEF LineInit, LineRests

LEMMA RxLineInvStep ==
    ASSUME RxClocksAgree, ParityChecked, RxLineInv, LineNext
    PROVE  RxLineInv'
<1>1. RxInv /\ WireTypes /\ SyncInv /\ FlagInv /\ PhaseInv /\ ExpectedInv /\ DataInv
    BY DEF RxLineInv
<1>2. RxInv' /\ WireTypes'
    BY <1>1, LevelIs, RxInvStep, WireTypesStep DEF LineNext
<1>3. SyncInv' /\ FlagInv'
    BY <1>1, SyncStep, FlagStep
<1>4. PhaseInv' /\ Accounted
  <2>1. CASE Free /\ rx_state = "IDLE"
      BY <1>1, <2>1, PhaseWaiting
  <2>2. CASE (Free /\ rx_state = "START") \/ FalseStarting
      BY <1>1, <2>2, PhaseGlitch
  <2>3. CASE Receiving
    <3>1. CASE wire = "frame" /\ ~Fresh
        BY <1>1, <2>3, <3>1, PhaseInFrame
    <3>2. CASE wire = "idle" \/ Fresh
        BY <1>1, <2>3, <3>2, PhaseAfterFrame
    <3> QED BY <1>1, <2>3, <3>1, <3>2 DEF PhaseInv, WireTypes
  <2> QED BY <1>1, <2>1, <2>2, <2>3, RxTimesInv DEF Receiving, RxInv, RxBaudInv
<1>5. ExpectedInv'
    BY <1>1, <1>4, ExpectedStep
<1>6. DataInv'
    BY <1>1, <1>2, <1>4, <1>5, DataStep
<1> QED BY <1>2, <1>3, <1>4, <1>5, <1>6 DEF RxLineInv

LEMMA RxLineInvStays ==
    ASSUME RxLineInv, UNCHANGED lineVars
    PROVE  RxLineInv'
<1>1. /\ UNCHANGED <<sync_uart_rx, r_flag_rcv_start, rx_state, rx_baud_valid, rx_baud_cnt,
                     rx_baud_pulse, r_rcv_cnt, r_data_rcv, rx_parity, o_uart_data,
                     o_ld_parity, o_rx_done>>
      /\ UNCHANGED <<wire, bit, left, hdata, burst, expected>>
    BY DEF lineVars, rxVars, rxLine, wireVars
<1>2. RxInv'
    BY <1>1 DEF RxLineInv, RxInv, RxTypeOK, RxBaudInv, RxCountInv, Free, Busy
<1>3. WireTypes' /\ SyncInv' /\ FlagInv'
    BY <1>1 DEF RxLineInv, WireTypes, SyncInv, FlagInv, BitLevel, ParityBit, Ones, Paused
<1>4. /\ RxTime' = RxTime /\ Age' = Age /\ Paused' = Paused
      /\ (Free' <=> Free) /\ (Busy' <=> Busy) /\ (Done' <=> Done)
    BY <1>1 DEF RxTime, RxBit, Place, Age, Paused, Free, Busy, Done
<1>5. (FalseStarting' <=> FalseStarting) /\ (Receiving' <=> Receiving) /\ (Fresh' <=> Fresh)
      /\ (Undone' <=> Undone)
    BY <1>1, <1>4 DEF FalseStarting, Receiving, Fresh, Undone
<1>6. PhaseInv'
    BY <1>1, <1>4, <1>5 DEF RxLineInv, PhaseInv
<1>7. ExpectedInv'
    BY <1>1, <1>5 DEF RxLineInv, ExpectedInv, Owed
<1>8. DataInv'
    BY <1>1, <1>5 DEF RxLineInv, DataInv, Shifted, OnesTo
<1> QED BY <1>2, <1>3, <1>6, <1>7, <1>8 DEF RxLineInv

LEMMA RxLineAlways == RxClocksAgree /\ ParityChecked => (LineSpec => []RxLineInv)
<1> SUFFICES ASSUME RxClocksAgree /\ ParityChecked PROVE LineSpec => []RxLineInv
    OBVIOUS
<1>1. RxLineInv /\ [LineNext]_lineVars => RxLineInv'
    BY RxLineInvStep, RxLineInvStays
<1> QED BY RxLineInvInit, <1>1, PTL DEF LineSpec

-----------------------------------------------------------------------------
(* The hypotheses are met: at equal clocks each frame of a burst is found  *)
(* two clocks later than the one before, so a burst that is short enough   *)
(* for half a bit, a pause longer than half a bit, and glitches of up to   *)
(* half a bit are within what the receiver bears.                          *)
THEOREM EqualHostClocks ==
    /\ HOSTCYCLE = CYCLE /\ Half + 4 + 2 * BURST < CYCLE
    /\ 5 + 2 * BURST < QUIET /\ Half + 4 < QUIET /\ GLITCH <= Half + 6
    => RxClocksAgree
<1> SUFFICES ASSUME HOSTCYCLE = CYCLE, Half + 4 + 2 * BURST < CYCLE, 5 + 2 * BURST < QUIET,
                    Half + 4 < QUIET, GLITCH <= Half + 6
             PROVE  RxClocksAgree
    OBVIOUS
<1>1. \A j \in Nat : Edge(j) = Begin(j) /\ Begin(j) \in Nat /\ Begin(j + 1) = Begin(j) + CYCLE
    BY Edges DEF Edge, Begin
<1>2. CYCLE \in Nat /\ Half \in Nat /\ StopBit \in Nat /\ FrameLen \in Nat /\ BURST \in Nat
      /\ BURST >= 1 /\ QUIET \in Nat /\ Begin(FrameLen) = Begin(StopBit) + CYCLE
  <2>1. StopBit \in Nat /\ FrameLen = StopBit + 1 /\ Begin(FrameLen) = Begin(StopBit) + CYCLE
      BY Edges
  <2>2. FrameLen \in Nat
      BY <2>1
  <2>3. BURST \in Nat /\ BURST >= 1 /\ QUIET \in Nat
      BY LineAssumption
  <2>4. CYCLE \in Nat /\ Half \in Nat
      BY HalfBit
  <2> QED BY <2>1, <2>2, <2>3, <2>4
<1>3. Late(BURST) = 2 * BURST - 2
  <2>1. Edge(FrameLen) = Begin(FrameLen) /\ Begin(FrameLen) \in Nat
      BY <1>1, <1>2
  <2>2. Loss = 2
      BY <2>1 DEF Loss
  <2> QED BY <1>2, <2>2 DEF Late
<1>4. ASSUME NEW j \in 0 .. StopBit - 1
      PROVE  Edge(j) <= Begin(j) + Half + 6 /\ Begin(j) + Half + 6 + Late(BURST) < Edge(j + 1)
  <2>1. j \in Nat /\ j + 1 \in Nat
      BY <1>2
  <2>2. Edge(j) = Begin(j) /\ Begin(j) \in Nat /\ Edge(j + 1) = Begin(j) + CYCLE
      BY <1>1, <2>1
  <2> QED BY <1>2, <1>3, <2>2
<1>5. /\ Edge(StopBit) <= Begin(FrameLen) + 6
      /\ Begin(FrameLen) + 7 + Late(BURST) < Edge(FrameLen) + QUIET
  <2>1. Edge(StopBit) = Begin(StopBit) /\ Edge(FrameLen) = Begin(FrameLen) /\ Begin(StopBit) \in Nat
      BY <1>1, <1>2
  <2> QED BY <1>2, <1>3, <2>1
<1> QED BY <1>4, <1>5 DEF RxClocksAgree

LEMMA DeliveredRight ==
    ASSUME RxClocksAgree, RxLineInv
    PROVE  Delivered
<1> SUFFICES ASSUME o_rx_done = 1
             PROVE  expected # <<>> /\ o_uart_data = Head(expected)
    BY DEF Delivered
<1>1. RxInv /\ WireTypes /\ ExpectedInv /\ DataInv
    BY DEF RxLineInv
<1>2. RxTime = Begin(StopBit) + Half + 1 /\ Receiving
    BY <1>1, DoneFlag, RxNumbers DEF Receiving, FalseStarting
<1>3. Undone
    BY <1>1, <1>2, RxTimesInv, RxNumbers
<1>4. rx_state = "END" /\ rx_baud_cnt = Half + 1
    BY <1>1 DEF RxInv, RxBaudInv
<1>5. expected # <<>>
  <2>1. expected \in Seq(Data) /\ Len(expected) >= 1
      BY <1>1, <1>3 DEF ExpectedInv, Owed
  <2> QED BY <2>1
<1> QED BY <1>1, <1>3, <1>4, <1>5 DEF DataInv

(* Every clock with o_rx_done high hands nice_core the oldest byte the host*)
(* sent and that was not delivered yet, unchanged; a glitch delivers none. *)
(* So it is for every drift, burst and glitch that RxClocksAgree admits.   *)
THEOREM BytesArriveRight == RxClocksAgree /\ ParityChecked => (LineSpec => []Delivered)
<1> SUFFICES ASSUME RxClocksAgree /\ ParityChecked PROVE LineSpec => []Delivered
    OBVIOUS
<1> QED BY DeliveredRight, RxLineAlways, PTL

(* Once the line has been quiet for a pause, every byte the host sent has  *)
(* been delivered: the receiver misses no start bit, not even of frames    *)
(* that follow each other without a pause.                                 *)
THEOREM NoByteMissed == RxClocksAgree /\ ParityChecked => (LineSpec => []NoneLost)
<1> SUFFICES ASSUME RxClocksAgree /\ ParityChecked PROVE LineSpec => []NoneLost
    OBVIOUS
<1>1. RxLineInv => NoneLost
  <2> SUFFICES ASSUME RxLineInv, wire = "idle", left = 0 PROVE expected = <<>>
      BY DEF NoneLost
  <2>1. RxInv /\ WireTypes /\ PhaseInv /\ ExpectedInv
      BY DEF RxLineInv
  <2>2. Paused = QUIET /\ RxTime \in Nat /\ RxTime <= Begin(FrameLen)
      BY <2>1, RxTimes, RxNumbers DEF Paused
  <2>3. ~Receiving
      BY <2>1, <2>2, RxNumbers DEF PhaseInv
  <2>4. expected \in Seq(Data) /\ Len(expected) = 0
      BY <2>1, <2>3 DEF ExpectedInv, Owed, Undone, Fresh
  <2> QED BY <2>4
<1> QED BY <1>1, RxLineAlways, PTL

-----------------------------------------------------------------------------
(* The transmitter and the host that listens to it.                        *)

(* The clock of the host at which its sample of bit j is due, counted from *)
(* the falling edge of the start bit.                                      *)
Due(j) == j * RECVCYCLE + RECVCYCLE \div 2
LastBit == FrameBits - 1

(* The drift between the two clocks the transmitter leaves: each sample    *)
(* falls into its bit.  The stop bit is not a whole bit: the next start bit*)
(* may begin Half + 5 clocks after it.                                     *)
ClocksAgree ==
    /\ \A j \in 0 .. LastBit : Begin(j) < Due(j)
    /\ \A j \in 0 .. LastBit - 1 : Due(j) < Begin(j + 1)
    /\ Due(LastBit) <= Begin(LastBit) + Half + 4

(* The line rests, or the stop bit is on it: no start bit has begun.       *)
Resting ==
    \/ tx_state = "IDLE"
    \/ tx_state = "START" /\ tx_baud_cnt \in 1 .. Half
    \/ tx_state = "END" /\ tx_baud_valid = 0

(* The bit on the line in a frame, and for how many clocks it has been.    *)
BitNo ==
    IF tx_state \in {"START", "DATA"} THEN r_tx_cnt
    ELSE IF tx_state = "PARITY" /\ tx_baud_cnt \in 1 .. Half THEN DATA_WIDTH
    ELSE LastBit - 1
Since ==
    IF tx_baud_cnt > Half THEN tx_baud_cnt - (Half + 1) ELSE tx_baud_cnt + CYCLE - (Half + 1)

(* What nice_core has offered and the host has not completed: the frame    *)
(* the host is in comes first.                                             *)
Pending == IF got = <<>> THEN unsent ELSE Tail(unsent)
Offered == valid = 1 \/ tx_baud_valid = 1
Flight  == IF tx_state = "IDLE" /\ tx_baud_valid = 0 THEN data ELSE r_data_tx

(* The host has heard the start bit and the first bits of d.               *)
HeardOf(d) ==
    \A i \in 1 .. Len(heard) : /\ i = 1 => heard[i] = 0
                               /\ i \in 2 .. DATA_WIDTH + 1 => heard[i] = d[i - 1]

PortInv ==
    /\ count = valid
    /\ tx_baud_valid = 1 => o_state_0 = 1
    /\ tx_state # "IDLE" => o_state_0 = 1 /\ valid = 0
    /\ tx_state = "IDLE" /\ tx_baud_valid = 1 => valid = 1 /\ data = r_data_tx
    /\ tx_state = "IDLE" /\ tx_baud_valid = 0 /\ o_state_0 = 1 =>
         valid = 0 /\ timer = Begin(LastBit) + 1

(* The host's timer says how many bits it has sampled.                     *)
TimerInv ==
    /\ Len(heard) <= FrameBits
    /\ timer > 0 => /\ Len(heard) <= LastBit
                    /\ timer <= Due(Len(heard)) /\ Due(Len(heard)) < timer + RECVCYCLE
                    /\ Pending # <<>> /\ HeardOf(Head(Pending)) /\ got = <<>>

FrameInv ==
    ~Resting =>
        /\ Len(Pending) = 1 /\ timer = Begin(BitNo) + Since
        /\ tx_state \in {"START", "DATA"} =>
             \A i \in 1 .. DATA_WIDTH - r_tx_cnt : r_data_tx[i] = Head(Pending)[r_tx_cnt + i]
        /\ BitNo = 0 => o_uart_tx = 0
        /\ BitNo \in 1 .. DATA_WIDTH => o_uart_tx = Head(Pending)[BitNo]

(* While the line rests the host may still be in the last frame: how far   *)
(* it is bounds how far the handshake for the next byte can be.            *)
RestInv ==
    Resting =>
        /\ o_uart_tx = 1
        /\ tx_state = "END" => timer = Begin(LastBit)
        /\ Len(Pending) = (IF timer > 0 THEN 1 ELSE 0) + (IF Offered THEN 1 ELSE 0)
        /\ Offered => Pending[Len(Pending)] = Flight
        /\ tx_state = "IDLE" /\ timer > 0 => timer > Begin(LastBit)
        /\ tx_state = "IDLE" /\ timer > 0 /\ o_state_0 = 0 => timer >= Begin(LastBit) + 2 + valid
        /\ tx_state = "IDLE" /\ timer > 0 /\ tx_baud_valid = 1 => timer >= Begin(LastBit) + 4
        /\ tx_state = "START" /\ timer > 0 => timer >= Begin(LastBit) + 4 + tx_baud_cnt

GotInv ==
    got # <<>> =>
        /\ Len(got) = 1 /\ timer = 0 /\ unsent # <<>> /\ Len(got[1]) = FrameBits
        /\ got[1][1] = 0 /\ got[1][FrameBits] = 1
        /\ \A i \in 1 .. DATA_WIDTH : got[1][i + 1] = Head(unsent)[i]

TxLineTypes ==
    /\ valid \in {0, 1} /\ data \in Data
    /\ unsent \in Seq(Data) /\ heard \in Seq({0, 1}) /\ timer \in Nat

TxLineInv ==
    TxInv /\ TxLineTypes /\ PortInv /\ TimerInv /\ FrameInv /\ RestInv /\ GotInv

-----------------------------------------------------------------------------
(* The clocks of the two ends.                                             *)

(* Where in the frame the samples are.                                     *)
LEMMA Clocks ==
    ASSUME ClocksAgree
    PROVE  /\ LastBit \in Nat /\ LastBit >= 2 /\ LastBit = DATA_WIDTH + PARITY_ON + 1
           /\ \A j \in Nat : /\ Begin(j) \in Nat /\ Begin(j + 1) = Begin(j) + CYCLE
                              /\ Due(j) \in Nat /\ Due(j + 1) = Due(j) + RECVCYCLE
           /\ Begin(0) = 0 /\ Due(0) > 0 /\ Due(0) < RECVCYCLE /\ RECVCYCLE \in Nat
           /\ \A h, b \in 0 .. LastBit :
                 Begin(b) <= Due(h) /\ Due(h) < Begin(b) + CYCLE /\ b < LastBit => h = b
           /\ \A h \in 0 .. LastBit :
                 Begin(LastBit) <= Due(h) => h = LastBit /\ Begin(LastBit) < Due(h)
           /\ Due(LastBit) <= Begin(LastBit) + Half + 4
<1>1. LastBit \in Nat /\ LastBit >= 2 /\ LastBit = DATA_WIDTH + PARITY_ON + 1
    BY FrameFormat DEF LastBit, FrameBits
<1>2. CYCLE \in Nat /\ RECVCYCLE \in Nat \ {0} /\ RECVCYCLE \div 2 \in Nat
    BY HalfBit, FrameFormat, TxLineAssumption
<1>3. \A j \in Nat : /\ Begin(j) \in Nat /\ Begin(j + 1) = Begin(j) + CYCLE
                     /\ Due(j) \in Nat /\ Due(j + 1) = Due(j) + RECVCYCLE
    BY <1>2 DEF Begin, Due
<1>4. Begin(0) = 0 /\ Due(0) > 0 /\ Due(0) < RECVCYCLE
    BY <1>1, <1>2 DEF Begin, Due, ClocksAgree
<1>5. \A a, b \in Nat : a <= b => Begin(a) <= Begin(b)
    BY <1>2, Monotone DEF Begin
<1>6. ASSUME NEW h \in 0 .. LastBit, NEW b \in 0 .. LastBit, b < LastBit,
             Begin(b) <= Due(h), Due(h) < Begin(b) + CYCLE
      PROVE  h = b
  <2>1. CASE h < b
    <3>1. h \in 0 .. LastBit - 1 /\ h \in Nat /\ b \in Nat /\ h + 1 \in Nat /\ h + 1 <= b
        BY <1>1, <1>6, <2>1
    <3>2. Due(h) < Begin(h + 1) /\ Begin(h + 1) <= Begin(b)
        BY <1>5, <3>1 DEF ClocksAgree
    <3> QED BY <1>3, <1>6, <3>1, <3>2
  <2>2. CASE b < h
    <3>1. h \in Nat /\ b \in Nat /\ b + 1 \in Nat /\ b + 1 <= h
        BY <1>1, <1>6, <2>2
    <3>2. Begin(b + 1) <= Begin(h) /\ Begin(h) < Due(h)
        BY <1>5, <3>1 DEF ClocksAgree
    <3> QED BY <1>3, <1>6, <3>1, <3>2
  <2> QED BY <1>1, <2>1, <2>2
<1>7. ASSUME NEW h \in 0 .. LastBit, Begin(LastBit) <= Due(h)
      PROVE  h = LastBit /\ Begin(LastBit) < Due(h)
  <2>1. CASE h < LastBit
    <3>1. h \in 0 .. LastBit - 1 /\ h \in Nat /\ h + 1 \in Nat /\ h + 1 <= LastBit
        BY <1>1, <2>1
    <3>2. Due(h) < Begin(h + 1) /\ Begin(h + 1) <= Begin(LastBit)
        BY <1>1, <1>5, <3>1 DEF ClocksAgree
    <3> QED BY <1>1, <1>3, <1>7, <3>1, <3>2
  <2>2. CASE h = LastBit
      BY <2>2 DEF ClocksAgree
  <2> QED BY <1>1, <2>1, <2>2
<1>8. Due(LastBit) <= Begin(LastBit) + Half + 4
    BY DEF ClocksAgree
<1> QED BY <1>1, <1>2, <1>3, <1>4, <1>6, <1>7, <1>8

LEMMA StopBegins == Begin(LastBit) \in Nat /\ Begin(LastBit) > 0
<1>1. LastBit \in Nat /\ LastBit >= 1
    BY FrameFormat DEF LastBit, FrameBits
<1>2. 1 * CYCLE <= LastBit * CYCLE
    BY <1>1, HalfBit, Monotone
<1>3. LastBit * CYCLE \in Nat
    BY <1>1, HalfBit
<1> QED BY <1>2, <1>3, HalfBit DEF Begin

(* The host samples when the next sample is due (timer counts clocks).     *)
LEMMA SampleTime ==
    ASSUME NEW h \in Nat, timer \in Nat, timer > 0,
           timer <= Due(h), Due(h) < timer + RECVCYCLE
    PROVE  SampleDue <=> timer = Due(h)
<1> DEFINE R == RECVCYCLE
           q == timer \div R
           m == timer % R
<1>1. R \in Nat \ {0} /\ R \div 2 \in 0 .. R - 1
    BY TxLineAssumption
<1>2. q \in Nat /\ m \in 0 .. R - 1 /\ timer = q * R + m
    BY <1>1
<1>3. Due(h) = h * R + R \div 2 /\ h * R \in Nat /\ q * R \in Nat
    BY <1>1, <1>2 DEF Due
<1>4. SampleDue <=> m = R \div 2
    BY DEF SampleDue
<1> HIDE DEF q, m, R
<1>5. h + 1 <= q => h * R + R <= q * R
  <2>1. h + 1 <= q => (h + 1) * R <= q * R
      BY <1>1, <1>2, Monotone
  <2>2. (h + 1) * R = h * R + R
      BY <1>1
  <2> QED BY <2>1, <2>2
<1>6. q + 1 <= h => q * R + R <= h * R
  <2>1. q + 1 <= h => (q + 1) * R <= h * R
      BY <1>1, <1>2, Monotone
  <2>2. (q + 1) * R = q * R + R
      BY <1>1, <1>2
  <2> QED BY <2>1, <2>2
<1>7. timer <= Due(h) /\ Due(h) < timer + R
    BY DEF R
<1>8. CASE h = q
    BY <1>1, <1>2, <1>3, <1>4, <1>8
<1>9. CASE h + 1 <= q
    BY <1>1, <1>2, <1>3, <1>4, <1>5, <1>7, <1>9
<1>10. CASE q + 1 <= h
    BY <1>1, <1>2, <1>3, <1>4, <1>6, <1>7, <1>10
<1> QED BY <1>2, <1>8, <1>9, <1>10

(* The bit on the line while a frame is sent, and what a clock does to it. *)
LEMMA BitRange ==
    ASSUME TxInv, ~Resting
    PROVE  /\ LastBit \in Nat /\ BitNo \in 0 .. LastBit - 1 /\ Since \in 0 .. CYCLE - 1
           /\ tx_baud_pulse = 1 <=> Since = CYCLE - 1
           /\ tx_baud_valid = 1 /\ tx_state # "IDLE"
<1> USE HalfBit, FrameFormat DEF TxInv, TxTypeOK, BaudInv, CountInv, Resting
<1>1. tx_baud_valid = 1 /\ tx_state # "IDLE" /\ LastBit = DATA_WIDTH + PARITY_ON + 1
    BY DEF LastBit, FrameBits
<1>2. BitNo \in 0 .. LastBit - 1
    BY <1>1 DEF BitNo
<1>3. Since \in 0 .. CYCLE - 1 /\ (tx_baud_cnt = Half <=> Since = CYCLE - 1)
    BY <1>1 DEF Since
<1> QED BY <1>1, <1>2, <1>3

LEMMA BitGoesOn ==
    ASSUME TxInv, ~Resting, tx_baud_pulse = 0,
           NEW v, NEW d \in Data, TxClock(v, d)
    PROVE  /\ ~Resting' /\ BitNo' = BitNo /\ Since' = Since + 1
           /\ o_uart_tx' = o_uart_tx /\ r_data_tx' = r_data_tx /\ r_tx_cnt' = r_tx_cnt
           /\ o_state_0' = o_state_0 /\ tx_baud_valid' = 1 /\ tx_state' # "IDLE"
           /\ tx_state' \in {"START", "DATA"} => tx_state \in {"START", "DATA"}
<1>1. TxTypeOK /\ TxBaud /\ TxMove
    BY DEF TxInv, TxClock
<1>2. tx_baud_valid = 1 /\ tx_state # "IDLE" /\ Since < CYCLE - 1 /\ tx_baud_cnt # Half
    BY BitRange, HalfBit DEF TxInv, TxTypeOK, BaudInv
<1>3. LastBit = DATA_WIDTH + PARITY_ON + 1
    BY FrameFormat DEF LastBit, FrameBits
<1>10. tx_baud_cnt' = IF tx_baud_cnt = CYCLE - 1 THEN 0 ELSE tx_baud_cnt + 1
    BY <1>1, <1>2 DEF TxBaud
<1>11. tx_state' = IF tx_baud_cnt = 0 THEN TxAfter ELSE tx_state
    BY <1>1, <1>2 DEF TxMove
<1> USE <1>2, <1>10, <1>11, HalfBit, FrameFormat
<1>4. Since' = Since + 1
    BY <1>1 DEF Since, TxTypeOK
<1>5. CASE TxStart
  <2>1. /\ UNCHANGED <<o_uart_tx, tx_baud_valid, r_tx_cnt, r_data_tx, tx_parity, o_state_0>>
        /\ tx_state = "START" /\ r_tx_cnt = 0
      BY <1>5 DEF TxStart, TxInv, CountInv
  <2>2. tx_state' = IF tx_baud_cnt = 0 THEN "DATA" ELSE "START"
      BY <2>1 DEF TxAfter
  <2>3. ~Resting' /\ BitNo' = BitNo
      BY <1>1, <2>1, <2>2 DEF TxTypeOK, Resting, BitNo
  <2> QED BY <1>4, <2>1, <2>2, <2>3
<1>6. CASE TxData
  <2>1. /\ o_uart_tx' = o_uart_tx /\ r_tx_cnt' = r_tx_cnt /\ r_data_tx' = r_data_tx
        /\ tx_baud_valid' = tx_baud_valid /\ o_state_0' = o_state_0
        /\ tx_state = "DATA"
      BY <1>6 DEF TxData
  <2>2. tx_state' = IF tx_baud_cnt # 0 \/ r_tx_cnt # DATA_WIDTH THEN "DATA"
                    ELSE IF PARITY_ON = 0 THEN "END" ELSE "PARITY"
      BY <2>1 DEF TxAfter
  <2>3. ~Resting' /\ BitNo' = BitNo
      BY <1>1, <1>3, <2>1, <2>2 DEF TxInv, CountInv, TxTypeOK, Resting, BitNo
  <2> QED BY <1>4, <2>1, <2>2, <2>3
<1>7. CASE TxParity
  <2>1. /\ o_uart_tx' = o_uart_tx /\ r_tx_cnt' = r_tx_cnt /\ r_data_tx' = r_data_tx
        /\ tx_baud_valid' = tx_baud_valid /\ o_state_0' = o_state_0
        /\ tx_state = "PARITY"
      BY <1>7 DEF TxParity
  <2>4. PARITY_ON = 1
      BY <2>1 DEF TxInv, CountInv
  <2>2. tx_state' = IF tx_baud_cnt = 0 THEN "END" ELSE "PARITY"
      BY <2>1 DEF TxAfter
  <2>3. ~Resting' /\ BitNo' = BitNo
      BY <1>1, <1>3, <2>1, <2>2, <2>4 DEF TxTypeOK, Resting, BitNo
  <2> QED BY <1>4, <2>1, <2>2, <2>3
<1>8. CASE TxEnd
  <2>1. /\ o_uart_tx' = o_uart_tx /\ r_tx_cnt' = r_tx_cnt /\ r_data_tx' = r_data_tx
        /\ tx_baud_valid' = tx_baud_valid /\ o_state_0' = o_state_0
        /\ tx_state = "END" /\ tx_baud_cnt # 0
      BY <1>8 DEF TxEnd, TxInv, BaudInv
  <2> QED BY <1>4, <2>1 DEF Resting, BitNo
<1>9. ~TxIdle(v, d)
    BY DEF TxIdle
<1> QED BY <1>5, <1>6, <1>7, <1>8, <1>9 DEF TxClock

LEMMA BitEnds ==
    ASSUME TxInv, ~Resting, tx_baud_pulse = 1,
           NEW v, NEW d \in Data, TxClock(v, d)
    PROVE  /\ o_state_0' = o_state_0 /\ tx_state' # "IDLE"
           /\ \/ /\ Resting' /\ BitNo = LastBit - 1
                 /\ tx_state' = "END" /\ tx_baud_valid' = 0 /\ o_uart_tx' = 1
              \/ /\ ~Resting' /\ BitNo' = BitNo + 1 /\ Since' = 0 /\ tx_baud_valid' = 1
                 /\ tx_state' = tx_state
                 /\ \/ /\ tx_state = "DATA" /\ r_tx_cnt = BitNo /\ r_tx_cnt' = r_tx_cnt + 1
                       /\ r_tx_cnt < DATA_WIDTH /\ o_uart_tx' = r_data_tx[1]
                       /\ r_data_tx' = Append(Tail(r_data_tx), 0)
                    \/ tx_state = "PARITY" /\ BitNo = DATA_WIDTH
<1>1. TxTypeOK /\ TxBaud /\ TxMove
    BY DEF TxInv, TxClock
<1>2. tx_baud_valid = 1 /\ tx_state # "IDLE" /\ tx_baud_cnt = Half
    BY BitRange, HalfBit DEF TxInv, TxTypeOK, BaudInv
<1>3. LastBit = DATA_WIDTH + PARITY_ON + 1
    BY FrameFormat DEF LastBit, FrameBits
<1>4. Since' = 0 /\ tx_baud_cnt' = Half + 1 /\ tx_state' = tx_state
    BY <1>1, <1>2, HalfBit, BaudStep DEF Since, TxTypeOK, TxMove
<1>5. tx_state # "START" /\ tx_baud_cnt \in 1 .. Half /\ ~(tx_baud_pulse = 0)
    BY <1>2, HalfBit DEF Resting
<1>6. CASE TxData
  <2>1. tx_state = "DATA" /\ tx_baud_valid' = tx_baud_valid /\ o_state_0' = o_state_0
      BY <1>6 DEF TxData
  <2>2. /\ r_tx_cnt' = (r_tx_cnt + 1) % 16 /\ o_uart_tx' = r_data_tx[1]
        /\ r_data_tx' = Append(Tail(r_data_tx), 0)
      BY <1>5, <1>6 DEF TxData
  <2>3. r_tx_cnt < DATA_WIDTH /\ r_tx_cnt \in Nat
      BY <1>1, <1>5, <2>1 DEF TxInv, TxTypeOK, CountInv
  <2>4. r_tx_cnt' = r_tx_cnt + 1
      BY <2>2, <2>3, HalfBit
  <2>5. ~Resting' /\ BitNo = r_tx_cnt /\ BitNo' = r_tx_cnt'
      BY <1>4, <2>1 DEF Resting, BitNo
  <2> QED BY <1>2, <1>4, <2>1, <2>2, <2>3, <2>4, <2>5
<1>7. CASE TxParity
  <2>1. /\ tx_state = "PARITY"
        /\ tx_baud_valid' = tx_baud_valid /\ o_state_0' = o_state_0
      BY <1>7 DEF TxParity
  <2>2. PARITY_ON = 1
      BY <2>1 DEF TxInv, CountInv
  <2>3. ~Resting' /\ BitNo = DATA_WIDTH /\ BitNo' = BitNo + 1
      BY <1>2, <1>3, <1>4, <2>1, <2>2, HalfBit DEF Resting, BitNo
  <2> QED BY <1>2, <1>4, <2>1, <2>3
<1>8. CASE TxEnd
  <2>1. /\ tx_state = "END" /\ o_uart_tx' = 1 /\ tx_baud_valid' = 0 /\ o_state_0' = o_state_0
      BY <1>8 DEF TxEnd
  <2>2. Resting' /\ BitNo = LastBit - 1
      BY <1>4, <2>1 DEF Resting, BitNo
  <2> QED BY <1>4, <2>1, <2>2
<1>9. ~TxIdle(v, d) /\ ~TxStart
    BY <1>2, <1>5 DEF TxIdle, TxStart
<1> QED BY <1>6, <1>7, <1>8, <1>9 DEF TxClock

(* The clocks between two frames, in their order: END, IDLE without and    *)
(* with a byte on offer, IDLE with the byte taken, START.                  *)
LEMMA RestGoesOn ==
    ASSUME TxInv, Resting, NEW v \in {0, 1}, NEW d \in Data, TxClock(v, d)
    PROVE  /\ tx_state = "END" =>
                /\ tx_state' = "IDLE" /\ tx_baud_valid' = 0 /\ Resting'
                /\ (o_uart_tx = 1 => o_uart_tx' = 1) /\ o_state_0' = o_state_0
           /\ tx_state = "IDLE" =>
                /\ Resting' /\ o_uart_tx' = 1
                /\ o_state_0' = v /\ tx_baud_valid' = (IF v = 1 THEN 1 ELSE tx_baud_valid)
                /\ r_data_tx' = (IF v = 1 THEN d ELSE r_data_tx)
                /\ tx_baud_valid = 0 => tx_state' = "IDLE"
                /\ tx_baud_valid = 1 => tx_state' = "START" /\ tx_baud_cnt' = 1
           /\ tx_state = "START" =>
                /\ tx_state' = "START" /\ UNCHANGED <<tx_baud_valid, r_data_tx, o_state_0>>
                /\ tx_baud_valid = 1 /\ tx_baud_cnt' = tx_baud_cnt + 1
                /\ tx_baud_cnt # Half => Resting' /\ o_uart_tx' = o_uart_tx
                /\ tx_baud_cnt = Half =>
                     ~Resting' /\ o_uart_tx' = 0 /\ BitNo' = 0 /\ Since' = 0 /\ r_tx_cnt' = 0
<1>1. TxTypeOK /\ TxBaud /\ TxMove
    BY DEF TxInv, TxClock
<1> USE <1>1, HalfBit, BaudStep
<1>2. CASE tx_state = "END"
  <2>1. tx_baud_valid = 0 /\ TxEnd
      BY <1>2 DEF TxClock, TxIdle, TxStart, TxData, TxParity, TxEnd, Resting
  <2>2. tx_state' = "IDLE" /\ tx_baud_valid' = 0 /\ o_state_0' = o_state_0
      BY <2>1 DEF TxEnd, TxMove
  <2> QED BY <1>2, <2>1, <2>2 DEF TxEnd, Resting
<1>3. CASE tx_state = "IDLE"
  <2>1. TxIdle(v, d)
      BY <1>3 DEF TxClock, TxIdle, TxStart, TxData, TxParity, TxEnd
  <2>2. tx_baud_cnt = 0
      BY <1>3 DEF TxInv, BaudInv
  <2> QED BY <1>3, <2>1, <2>2 DEF TxIdle, TxMove, TxAfter, Resting, TxTypeOK
<1>4. CASE tx_state = "START"
  <2>1. TxStart
      BY <1>4 DEF TxClock, TxIdle, TxStart, TxData, TxParity, TxEnd
  <2>2. tx_baud_valid = 1 /\ r_tx_cnt = 0 /\ tx_baud_cnt \in 1 .. Half
      BY <1>4 DEF TxInv, BaudInv, CountInv, Resting, TxTypeOK
  <2>3. tx_baud_pulse = 1 <=> tx_baud_cnt = Half
      BY <2>2 DEF TxInv, BaudInv
  <2> QED BY <1>4, <2>1, <2>2, <2>3 DEF TxStart, TxMove, Resting, TxTypeOK, BitNo, Since
<1> QED BY <1>2, <1>3, <1>4 DEF Resting

(* What the host does in a clock, told from the bits it has heard.         *)
LEMMA HostStep ==
    ASSUME ClocksAgree, TxLineTypes, TimerInv, HostClock
    PROVE  /\ timer = 0 =>
                /\ heard' = <<>> /\ got' = <<>>
                /\ timer' = IF o_uart_tx = 0 THEN 1 ELSE 0
           /\ timer > 0 =>
                /\ timer # Due(Len(heard)) => heard' = heard /\ timer' = timer + 1 /\ got' = <<>>
                /\ timer = Due(Len(heard)) /\ Len(heard) < LastBit =>
                     heard' = Append(heard, o_uart_tx) /\ timer' = timer + 1 /\ got' = <<>>
                /\ timer = Due(Len(heard)) /\ Len(heard) = LastBit =>
                     timer' = 0 /\ heard' = Append(heard, o_uart_tx)
                     /\ got' = <<Append(heard, o_uart_tx)>>
<1>1. timer \in Nat /\ Len(heard) \in Nat /\ LastBit \in Nat /\ FrameBits = LastBit + 1
  <2>1. FrameBits \in Nat
      BY FrameFormat DEF FrameBits
  <2>2. LastBit \in Nat
      BY Clocks
  <2> QED BY <2>1, <2>2, LenProperties DEF TxLineTypes, LastBit
<1>2. CASE timer = 0
    BY <1>2 DEF HostClock, Listen, SampleBit, FrameHeard, SampleDue
<1>3. CASE timer > 0
  <2>1. SampleDue <=> timer = Due(Len(heard))
      BY <1>1, <1>3, SampleTime DEF TimerInv
  <2>2. FrameHeard <=> timer = Due(Len(heard)) /\ Len(heard) = LastBit
      BY <1>1, <2>1 DEF FrameHeard
  <2>3. /\ heard' = IF SampleDue THEN Append(heard, o_uart_tx) ELSE heard
        /\ timer' = IF FrameHeard THEN 0 ELSE timer + 1
        /\ got' = IF FrameHeard THEN <<Append(heard, o_uart_tx)>> ELSE <<>>
      BY <1>1, <1>3 DEF HostClock, Listen, SampleBit, FrameHeard
  <2> QED BY <1>1, <1>3, <2>1, <2>2, <2>3
<1> QED BY <1>1, <1>2, <1>3

(* Between two frames the host has heard all of the last one but its stop. *)
LEMMA RestHeard ==
    ASSUME ClocksAgree, TxInv, TxLineTypes, TimerInv, RestInv, Resting, timer > 0
    PROVE  Len(heard) = LastBit /\ timer >= Begin(LastBit)
<1>1. /\ timer \in Nat /\ Len(heard) \in 0 .. LastBit /\ LastBit \in Nat
      /\ timer <= Due(Len(heard))
  <2>1. LastBit \in Nat
      BY Clocks
  <2> QED BY <2>1, LenProperties DEF TxLineTypes, TimerInv
<1>2. Begin(LastBit) \in Nat /\ Due(Len(heard)) \in Nat
    BY <1>1, Clocks
<1>3. timer >= Begin(LastBit)
    BY <1>1, <1>2 DEF RestInv, Resting, TxInv, TxTypeOK
<1>4. Begin(LastBit) <= Due(Len(heard))
    BY <1>1, <1>2, <1>3
<1> QED BY <1>1, <1>3, <1>4, Clocks

(* A sample the host takes inside a frame is of the bit on the line.       *)
LEMMA SampleBitNo ==
    ASSUME ClocksAgree, TxLineInv, timer > 0, timer = Due(Len(heard)), ~Resting
    PROVE  BitNo \in 0 .. LastBit /\ BitNo < LastBit /\ Len(heard) = BitNo
<1>1. timer \in Nat /\ Len(heard) \in 0 .. LastBit /\ LastBit \in Nat /\ CYCLE \in Nat
  <2>1. LastBit \in Nat /\ CYCLE \in Nat
      BY Clocks, HalfBit
  <2>2. Len(heard) \in Nat /\ Len(heard) <= LastBit
      BY LenProperties DEF TxLineInv, TxLineTypes, TimerInv
  <2> QED BY <2>1, <2>2 DEF TxLineInv, TxLineTypes
<1>2. BitNo \in 0 .. LastBit - 1 /\ Since \in 0 .. CYCLE - 1
    BY BitRange DEF TxLineInv
<1>3. timer = Begin(BitNo) + Since
    BY DEF TxLineInv, FrameInv
<1>4. BitNo \in Nat /\ Begin(BitNo) \in Nat
  <2>1. BitNo \in Nat
      BY <1>1, <1>2
  <2> QED BY <2>1, Clocks
<1>5. Begin(BitNo) <= Due(Len(heard)) /\ Due(Len(heard)) < Begin(BitNo) + CYCLE
    BY <1>1, <1>2, <1>3, <1>4
<1>6. BitNo \in 0 .. LastBit /\ BitNo < LastBit
    BY <1>1, <1>2
<1> QED BY <1>1, <1>5, <1>6, Clocks

(* A sample the host takes is the bit the transmitter sends.               *)
LEMMA SampleRight ==
    ASSUME ClocksAgree, TxLineInv, timer > 0, timer = Due(Len(heard))
    PROVE  /\ o_uart_tx \in {0, 1}
           /\ Len(heard) = 0 => o_uart_tx = 0
           /\ Len(heard) \in 1 .. DATA_WIDTH => o_uart_tx = Head(Pending)[Len(heard)]
           /\ Len(heard) = LastBit => Resting /\ o_uart_tx = 1
<1>1. /\ timer \in Nat /\ Len(heard) \in 0 .. LastBit /\ LastBit \in Nat
      /\ LastBit = DATA_WIDTH + PARITY_ON + 1 /\ DATA_WIDTH \in Nat /\ PARITY_ON \in Nat
      /\ o_uart_tx \in {0, 1} /\ CYCLE \in Nat
  <2>1. LastBit \in Nat /\ LastBit = DATA_WIDTH + PARITY_ON + 1
      BY Clocks
  <2>2. Len(heard) \in Nat /\ Len(heard) <= LastBit
      BY LenProperties DEF TxLineInv, TxLineTypes, TimerInv
  <2>3. DATA_WIDTH \in Nat /\ PARITY_ON \in Nat /\ CYCLE \in Nat
      BY HalfBit, FrameFormat
  <2>4. timer \in Nat /\ o_uart_tx \in {0, 1}
      BY DEF TxLineInv, TxLineTypes, TxInv, TxTypeOK
  <2> QED BY <2>1, <2>2, <2>3, <2>4
<1>2. CASE Resting
  <2>1. Len(heard) = LastBit /\ o_uart_tx = 1
      BY <1>2, RestHeard DEF TxLineInv, RestInv
  <2> QED BY <1>1, <1>2, <2>1
<1>3. CASE ~Resting
  <2>1. BitNo \in 0 .. LastBit /\ BitNo < LastBit /\ Len(heard) = BitNo
      BY <1>3, SampleBitNo
  <2> QED BY <1>1, <1>3, <2>1 DEF TxLineInv, FrameInv
<1> QED BY <1>2, <1>3

(* Nor does it complete a frame while one is being sent.                   *)
LEMMA NoneHeardInFrame ==
    ASSUME ClocksAgree, TxLineInv, HostClock, ~Resting
    PROVE  /\ got' = <<>> /\ timer' = timer + 1 /\ timer \in Nat
           /\ timer = 0 <=> BitNo = 0 /\ Since = 0
<1>1. BitNo \in 0 .. LastBit - 1 /\ Since \in 0 .. CYCLE - 1 /\ LastBit \in Nat
    BY BitRange DEF TxLineInv
<1>2. timer = Begin(BitNo) + Since /\ Begin(BitNo) \in Nat /\ timer \in Nat
    BY <1>1, Clocks DEF TxLineInv, FrameInv, TxLineTypes
<1>3. timer = 0 <=> BitNo = 0 /\ Since = 0
  <2>1. BitNo = 0 => Begin(BitNo) = 0
      BY Clocks
  <2>2. BitNo # 0 => Begin(BitNo) > 0
    <3>1. ASSUME BitNo # 0 PROVE BitNo - 1 \in Nat /\ BitNo = (BitNo - 1) + 1
        BY <1>1, <3>1
    <3>2. ASSUME BitNo # 0 PROVE Begin(BitNo) = Begin(BitNo - 1) + CYCLE /\ Begin(BitNo - 1) \in Nat
        BY <3>1, <3>2, Clocks
    <3> QED BY <3>2, HalfBit
  <2> QED BY <1>1, <1>2, <2>1, <2>2
<1>4. timer = 0 => o_uart_tx = 0
    BY <1>3 DEF TxLineInv, FrameInv
<1>5. timer > 0 /\ timer = Due(Len(heard)) => Len(heard) # LastBit
    BY SampleRight
<1>6. Len(heard) <= LastBit \/ timer = 0
    BY <1>2 DEF TxLineInv, TimerInv
<1>7. Len(heard) \in Nat
    BY DEF TxLineInv, TxLineTypes
<1> QED BY <1>1, <1>2, <1>3, <1>4, <1>5, <1>6, <1>7, HostStep DEF TxLineInv

(* The port of nice_core: what it adds to the bytes not yet received.      *)
LEMMA PortCases ==
    ASSUME TxLineInv, TxLineClock
    PROVE  /\ Pending \in Seq(Data) /\ unsent' \in Seq(Data)
           /\ valid' \in {0, 1} /\ data' \in Data
           /\ Pending # <<>> => unsent' # <<>> /\ Head(unsent') = Head(Pending)
           /\ \/ \E e \in Data : /\ o_state_0 = 0 /\ valid = 0
                                 /\ data' = e /\ valid' = 1 /\ count' = 1
                                 /\ unsent' = Append(Pending, e)
              \/ /\ data' = data /\ unsent' = Pending
                 /\ valid' = (IF o_state_0 = 1 THEN 0 ELSE valid) /\ count' = valid'
<1>1. unsent \in Seq(Data) /\ valid \in {0, 1} /\ data \in Data /\ count = valid
    BY DEF TxLineInv, TxLineTypes, PortInv
<1>2. Pending \in Seq(Data)
    BY <1>1 DEF TxLineInv, GotInv, Pending
<1>3. CASE \E e \in Data : PortOffer(e)
                /\ unsent' = Append(IF got = <<>> THEN unsent ELSE Tail(unsent), e)
  <2>1. PICK e \in Data : /\ PortOffer(e) /\ unsent' = Append(Pending, e)
      BY <1>3 DEF Pending
  <2>2. unsent' \in Seq(Data)
      BY <1>2, <2>1, AppendProperties
  <2>3. Pending # <<>> => unsent' # <<>> /\ Head(unsent') = Head(Pending)
      BY <1>2, <2>1
  <2> QED BY <1>1, <1>2, <2>1, <2>2, <2>3 DEF PortOffer
<1>4. CASE PortWait /\ unsent' = IF got = <<>> THEN unsent ELSE Tail(unsent)
  <2>1. PortWait /\ unsent' = Pending
      BY <1>4 DEF Pending
  <2> QED BY <1>1, <1>2, <2>1 DEF PortWait
<1> QED BY <1>3, <1>4 DEF TxLineClock

LEMMA HeardNext ==
    ASSUME ClocksAgree, TxLineInv, TxLineClock
    PROVE  TimerInv' /\ GotInv' /\ heard' \in Seq({0, 1}) /\ timer' \in Nat
<1>1. /\ TxLineTypes /\ TimerInv /\ HostClock
      /\ heard \in Seq({0, 1}) /\ timer \in Nat /\ Len(heard) \in Nat
    BY LenProperties DEF TxLineInv, TxLineTypes, TxLineClock
<1>2. /\ RECVCYCLE \in Nat /\ LastBit \in Nat /\ FrameBits = LastBit + 1
      /\ LastBit = DATA_WIDTH + PARITY_ON + 1
  <2>1. FrameBits \in Nat
      BY FrameFormat DEF FrameBits
  <2> QED BY <2>1, Clocks DEF LastBit
<1>3. DATA_WIDTH \in Nat /\ PARITY_ON \in Nat
    BY FrameFormat
<1>4. CASE timer = 0
  <2>1. heard' = <<>> /\ got' = <<>> /\ timer' = IF o_uart_tx = 0 THEN 1 ELSE 0
      BY <1>1, <1>4, HostStep
  <2>2. Pending' = unsent'
      BY <2>1 DEF Pending
  <2>3. o_uart_tx = 0 => unsent' # <<>>
    <3>1. o_uart_tx = 0 => ~Resting
        BY DEF TxLineInv, RestInv
    <3>2. ~Resting => Pending # <<>>
        BY PortCases DEF TxLineInv, FrameInv
    <3> QED BY <3>1, <3>2, PortCases
  <2>4. Due(0) \in Nat /\ Due(0) > 0 /\ Due(0) < RECVCYCLE
      BY Clocks
  <2>5. Len(heard') = 0
      BY <2>1
  <2>6. HeardOf(Head(Pending))'
      BY <2>5 DEF HeardOf
  <2>7. TimerInv'
      BY <1>2, <2>1, <2>2, <2>3, <2>4, <2>5, <2>6 DEF TimerInv
  <2> QED BY <2>1, <2>7 DEF GotInv
<1>5. CASE timer > 0
  <2> DEFINE h == Len(heard)
  <2>1. /\ h \in 0 .. LastBit /\ timer <= Due(h) /\ Due(h) < timer + RECVCYCLE
        /\ Pending # <<>> /\ HeardOf(Head(Pending)) /\ got = <<>>
      BY <1>1, <1>2, <1>5 DEF TimerInv
  <2>2. Due(h) \in Nat /\ Due(h + 1) = Due(h) + RECVCYCLE
      BY <1>1, Clocks
  <2>3. unsent' # <<>> /\ Head(unsent') = Head(Pending)
      BY <2>1, PortCases
  <2>4. CASE timer # Due(h)
    <3>1. heard' = heard /\ timer' = timer + 1 /\ got' = <<>>
        BY <1>1, <1>5, <2>4, HostStep
    <3>2. Pending' = unsent'
        BY <3>1 DEF Pending
    <3>3. HeardOf(Head(Pending))'
        BY <2>1, <2>3, <3>1, <3>2 DEF HeardOf
    <3>4. Due(Len(heard))' = Due(h)
        BY <3>1 DEF Due
    <3>5. TimerInv'
        BY <1>1, <1>2, <2>1, <2>2, <2>3, <2>4, <3>1, <3>2, <3>3, <3>4 DEF TimerInv
    <3> QED BY <1>1, <3>1, <3>5 DEF GotInv
  <2>5. CASE timer = Due(h) /\ h < LastBit
    <3>1. heard' = Append(heard, o_uart_tx) /\ timer' = timer + 1 /\ got' = <<>>
        BY <1>1, <1>5, <2>5, HostStep
    <3>2. Pending' = unsent'
        BY <3>1 DEF Pending
    <3>3. /\ o_uart_tx \in {0, 1}
          /\ h = 0 => o_uart_tx = 0
          /\ h \in 1 .. DATA_WIDTH => o_uart_tx = Head(Pending)[h]
        BY <1>5, <2>5, SampleRight
    <3>4. /\ heard' \in Seq({0, 1}) /\ Len(heard') = h + 1 /\ heard'[h + 1] = o_uart_tx
          /\ \A i \in 1 .. h : heard'[i] = heard[i]
        BY <1>1, <3>1, <3>3
    <3>5. HeardOf(Head(Pending))'
      <4>1. SUFFICES ASSUME NEW i \in 1 .. Len(heard')
                     PROVE  /\ i = 1 => heard'[i] = 0
                            /\ i \in 2 .. DATA_WIDTH + 1 => heard'[i] = Head(Pending)[i - 1]
          BY <2>3, <3>2 DEF HeardOf
      <4>2. CASE i \in 1 .. h
          BY <2>1, <3>4, <4>2 DEF HeardOf
      <4>3. CASE i = h + 1
          BY <1>1, <1>3, <3>3, <3>4, <4>3
      <4> QED BY <1>1, <3>4, <4>2, <4>3
    <3>6. Due(Len(heard))' = Due(h) + RECVCYCLE
        BY <2>2, <3>4 DEF Due
    <3>7. TimerInv'
        BY <1>1, <1>2, <2>1, <2>2, <2>3, <2>5, <3>1, <3>2, <3>4, <3>5, <3>6 DEF TimerInv
    <3> QED BY <1>1, <3>1, <3>4, <3>7 DEF GotInv
  <2>6. CASE timer = Due(h) /\ h = LastBit
    <3>1. /\ timer' = 0 /\ heard' = Append(heard, o_uart_tx)
          /\ got' = <<Append(heard, o_uart_tx)>>
        BY <1>1, <1>5, <2>6, HostStep
    <3>2. o_uart_tx = 1
        BY <1>5, <2>6, SampleRight
    <3>3. /\ heard' \in Seq({0, 1}) /\ Len(heard') = FrameBits /\ heard'[FrameBits] = 1
          /\ \A i \in 1 .. LastBit : heard'[i] = heard[i]
        BY <1>1, <1>2, <2>6, <3>1, <3>2
    <3>4. heard'[1] = 0 /\ \A i \in 1 .. DATA_WIDTH : heard'[i + 1] = Head(unsent')[i]
      <4>1. heard'[1] = 0
          BY <1>2, <1>3, <2>1, <2>6, <3>3 DEF HeardOf
      <4>2. ASSUME NEW i \in 1 .. DATA_WIDTH PROVE heard'[i + 1] = Head(unsent')[i]
        <5>1. i + 1 \in 1 .. LastBit /\ i + 1 \in 2 .. DATA_WIDTH + 1 /\ (i + 1) - 1 = i
            BY <1>2, <1>3
        <5>2. heard[i + 1] = Head(Pending)[(i + 1) - 1]
            BY <2>1, <2>6, <5>1 DEF HeardOf
        <5> QED BY <2>3, <3>3, <5>1, <5>2
      <4> QED BY <4>1, <4>2
    <3>5. Len(got') = 1 /\ got'[1] = heard'
        BY <3>1
    <3>6. GotInv'
        BY <2>3, <3>1, <3>3, <3>4, <3>5 DEF GotInv
    <3>7. TimerInv'
        BY <1>2, <3>1, <3>3 DEF TimerInv
    <3> QED BY <3>1, <3>3, <3>6, <3>7
  <2> QED BY <1>2, <2>1, <2>4, <2>5, <2>6
<1> QED BY <1>1, <1>4, <1>5

(* A clock inside a frame.                                                 *)
LEMMA FrameStep ==
    ASSUME ClocksAgree, TxLineInv, TxLineClock, ~Resting
    PROVE  PortInv' /\ FrameInv' /\ RestInv'
<1>1. /\ TxInv /\ data \in Data /\ TxClock(valid, data) /\ HostClock
      /\ r_data_tx \in Data /\ r_tx_cnt \in Nat /\ DATA_WIDTH \in Nat
  <2>1. TxInv /\ data \in Data /\ TxClock(valid, data) /\ HostClock
      BY DEF TxLineInv, TxLineTypes, TxLineClock
  <2>2. r_data_tx \in Data /\ r_tx_cnt \in 0 .. DATA_WIDTH
      BY <2>1 DEF TxInv, TxTypeOK
  <2> QED BY <2>1, <2>2, HalfBit
<1>2. /\ tx_baud_valid = 1 /\ tx_state # "IDLE" /\ LastBit \in Nat
      /\ BitNo \in 0 .. LastBit - 1 /\ Since \in 0 .. CYCLE - 1
      /\ tx_baud_pulse = 1 <=> Since = CYCLE - 1
    BY <1>1, BitRange
<1>3. o_state_0 = 1 /\ valid = 0
    BY <1>2 DEF TxLineInv, PortInv
<1>4. /\ Len(Pending) = 1 /\ timer = Begin(BitNo) + Since
      /\ tx_state \in {"START", "DATA"} =>
           \A i \in 1 .. DATA_WIDTH - r_tx_cnt : r_data_tx[i] = Head(Pending)[r_tx_cnt + i]
      /\ BitNo = 0 => o_uart_tx = 0
      /\ BitNo \in 1 .. DATA_WIDTH => o_uart_tx = Head(Pending)[BitNo]
    BY DEF TxLineInv, FrameInv
<1>5. got' = <<>> /\ timer' = timer + 1
    BY <1>1, NoneHeardInFrame
<1>6. unsent' = Pending /\ valid' = 0 /\ count' = 0
    BY <1>3, PortCases
<1>7. Pending' = Pending
    BY <1>5, <1>6 DEF Pending
<1>8. BitNo \in Nat /\ Begin(BitNo) \in Nat /\ Begin(BitNo + 1) = Begin(BitNo) + CYCLE
  <2>1. BitNo \in Nat
      BY <1>2
  <2> QED BY <2>1, Clocks
<1>9. CYCLE \in Nat /\ CYCLE >= 4
    BY HalfBit
<1>10. CASE tx_baud_pulse # 1
  <2>1. tx_baud_pulse = 0
      BY <1>1, <1>10 DEF TxInv, TxTypeOK
  <2>2. /\ ~Resting' /\ BitNo' = BitNo /\ Since' = Since + 1
        /\ o_uart_tx' = o_uart_tx /\ r_data_tx' = r_data_tx /\ r_tx_cnt' = r_tx_cnt
        /\ o_state_0' = 1 /\ tx_baud_valid' = 1 /\ tx_state' # "IDLE"
        /\ tx_state' \in {"START", "DATA"} => tx_state \in {"START", "DATA"}
      BY <1>1, <1>3, <2>1, BitGoesOn
  <2>3. timer' = Begin(BitNo)' + Since'
      BY <1>2, <1>4, <1>5, <1>8, <2>2 DEF Begin
  <2>4. FrameInv'
      BY <1>4, <1>7, <2>2, <2>3 DEF FrameInv
  <2>5. PortInv'
      BY <1>6, <2>2 DEF PortInv
  <2> QED BY <2>2, <2>4, <2>5 DEF RestInv
<1>11. CASE tx_baud_pulse = 1
  <2>1. /\ o_state_0' = 1 /\ tx_state' # "IDLE"
        /\ timer' = Begin(BitNo + 1) /\ timer' > 0
      BY <1>1, <1>2, <1>3, <1>4, <1>5, <1>8, <1>9, <1>11, BitEnds
  <2>2. PortInv'
      BY <1>6, <2>1 DEF PortInv
  <2>3. ASSUME Resting', BitNo = LastBit - 1,
               tx_state' = "END", tx_baud_valid' = 0, o_uart_tx' = 1
        PROVE  FrameInv' /\ RestInv'
    <3>1. BitNo + 1 = LastBit
        BY <1>2, <2>3
    <3>2. timer' = Begin(LastBit)
        BY <2>1, <3>1
    <3>3. ~Offered'
        BY <1>6, <2>3 DEF Offered
    <3>4. Begin(LastBit)' = Begin(LastBit)
        BY DEF Begin, LastBit, FrameBits
    <3> QED BY <1>4, <1>7, <2>1, <2>3, <3>2, <3>3, <3>4 DEF FrameInv, RestInv
  <2>4. ASSUME ~Resting', BitNo' = BitNo + 1, Since' = 0, tx_state' = tx_state,
               tx_state = "DATA", r_tx_cnt = BitNo, r_tx_cnt' = r_tx_cnt + 1,
               r_tx_cnt < DATA_WIDTH, o_uart_tx' = r_data_tx[1],
               r_data_tx' = Append(Tail(r_data_tx), 0)
        PROVE  FrameInv' /\ RestInv'
    <3>1. timer' = Begin(BitNo)' + Since'
        BY <1>8, <1>9, <2>1, <2>4 DEF Begin
    <3>2. o_uart_tx' = Head(Pending)[BitNo']
        BY <1>1, <1>4, <2>4
    <3>3. ASSUME NEW i \in 1 .. DATA_WIDTH - r_tx_cnt'
          PROVE  r_data_tx'[i] = Head(Pending)[r_tx_cnt' + i]
      <4>1. i \in 1 .. DATA_WIDTH - 1 /\ i + 1 \in 1 .. DATA_WIDTH - r_tx_cnt
          BY <1>1, <2>4
      <4>2. r_data_tx'[i] = r_data_tx[i + 1]
          BY <1>1, <2>4, <4>1, ShiftType
      <4>3. r_tx_cnt + (i + 1) = r_tx_cnt' + i
          BY <1>1, <2>4
      <4> QED BY <1>4, <2>4, <4>1, <4>2, <4>3
    <3>4. BitNo' # 0
        BY <1>8, <2>4
    <3> QED BY <1>4, <1>7, <2>4, <3>1, <3>2, <3>3, <3>4 DEF FrameInv, RestInv
  <2>5. ASSUME ~Resting', BitNo' = BitNo + 1, Since' = 0, tx_state' = tx_state,
               tx_state = "PARITY", BitNo = DATA_WIDTH
        PROVE  FrameInv' /\ RestInv'
    <3>1. timer' = Begin(BitNo)' + Since'
        BY <1>8, <1>9, <2>1, <2>5 DEF Begin
    <3>2. BitNo' # 0 /\ BitNo' \notin 1 .. DATA_WIDTH
        BY <1>1, <2>5
    <3> QED BY <1>4, <1>7, <2>5, <3>1, <3>2 DEF FrameInv, RestInv
  <2> QED BY <1>1, <1>11, <2>2, <2>3, <2>4, <2>5, BitEnds
<1> QED BY <1>10, <1>11

(* A clock between two frames: what the host and the port add or take away.*)
LEMMA RestHost ==
    ASSUME ClocksAgree, TxLineInv, TxLineClock, Resting
    PROVE  /\ timer \in Nat /\ timer' \in Nat /\ Due(LastBit) \in Nat
           /\ timer = 0 => timer' = 0
           /\ timer > 0 => /\ timer <= Due(LastBit) /\ timer >= Begin(LastBit)
                           /\ timer' = IF timer = Due(LastBit) THEN 0 ELSE timer + 1
           /\ \A base : base = (IF timer > 0 THEN 1 ELSE 0) /\ Len(unsent') >= base =>
                /\ Len(Pending') = Len(unsent') - base + (IF timer' > 0 THEN 1 ELSE 0)
                /\ Len(unsent') > base => Pending'[Len(Pending')] = unsent'[Len(unsent')]
<1>1. /\ timer \in Nat /\ unsent' \in Seq(Data) /\ Len(unsent') \in Nat /\ o_uart_tx = 1
      /\ HostClock /\ TxLineTypes /\ TimerInv /\ TxInv /\ RestInv
  <2>1. timer \in Nat /\ unsent' \in Seq(Data)
      BY PortCases DEF TxLineInv, TxLineTypes
  <2> QED BY <2>1, LenProperties DEF TxLineInv, RestInv, TxLineClock
<1>2. LastBit \in Nat /\ Due(LastBit) \in Nat
    BY Clocks
<1>3. CASE timer = 0
  <2>1. got' = <<>> /\ timer' = 0
      BY <1>1, <1>3, HostStep
  <2>2. Pending' = unsent'
      BY <2>1 DEF Pending
  <2> QED BY <1>1, <1>2, <1>3, <2>1, <2>2
<1>4. CASE timer > 0
  <2>1. Len(heard) = LastBit /\ timer >= Begin(LastBit)
      BY <1>1, <1>4, RestHeard
  <2>2. timer <= Due(LastBit)
      BY <1>1, <1>4, <2>1 DEF TimerInv
  <2>3. CASE timer = Due(LastBit)
    <3>1. timer' = 0 /\ got' = <<Append(heard, o_uart_tx)>>
        BY <1>1, <1>4, <2>1, <2>3, HostStep
    <3>2. Pending' = Tail(unsent')
        BY <3>1 DEF Pending
    <3>3. ASSUME Len(unsent') >= 1
          PROVE  /\ Len(Pending') = Len(unsent') - 1
                 /\ Len(unsent') > 1 => Pending'[Len(Pending')] = unsent'[Len(unsent')]
      <4>1. unsent' # <<>>
          BY <3>3
      <4>2. Len(Tail(unsent')) = Len(unsent') - 1
          BY <1>1, <4>1
      <4>3. ASSUME Len(unsent') > 1
            PROVE  Tail(unsent')[Len(unsent') - 1] = unsent'[Len(unsent')]
          BY <1>1, <4>1, <4>3
      <4> QED BY <3>2, <4>2, <4>3
    <3> QED BY <1>1, <1>2, <1>4, <2>1, <2>2, <2>3, <3>1, <3>3
  <2>4. CASE timer # Due(LastBit)
    <3>1. timer' = timer + 1 /\ got' = <<>>
        BY <1>1, <1>4, <2>1, <2>4, HostStep
    <3>2. Pending' = unsent'
        BY <3>1 DEF Pending
    <3> QED BY <1>1, <1>2, <1>4, <2>1, <2>2, <2>4, <3>1, <3>2
  <2> QED BY <2>3, <2>4
<1> QED BY <1>1, <1>3, <1>4

(* The bytes of the port between two frames: a clock in which nothing is   *)
(* offered, and one in which e is.                                         *)
LEMMA RestKeeps ==
    ASSUME ClocksAgree, TxLineInv, TxLineClock, Resting, unsent' = Pending
    PROVE  /\ Len(Pending') = (IF timer' > 0 THEN 1 ELSE 0) + (IF Offered THEN 1 ELSE 0)
           /\ Offered => Len(Pending') > 0 /\ Pending'[Len(Pending')] = Flight
<1>1. /\ Len(Pending) = (IF timer > 0 THEN 1 ELSE 0) + (IF Offered THEN 1 ELSE 0)
      /\ Offered => Pending[Len(Pending)] = Flight
    BY DEF TxLineInv, RestInv
<1> DEFINE base == IF timer > 0 THEN 1 ELSE 0
<1>2. /\ base = (IF timer > 0 THEN 1 ELSE 0) /\ base \in {0, 1}
      /\ Len(unsent') = base + (IF Offered THEN 1 ELSE 0)
    BY <1>1
<1>3. Len(unsent') >= base /\ (Offered => Len(unsent') > base)
    BY <1>2
<1>4. /\ Len(Pending') = Len(unsent') - base + (IF timer' > 0 THEN 1 ELSE 0)
      /\ Len(unsent') > base => Pending'[Len(Pending')] = unsent'[Len(unsent')]
    BY <1>2, <1>3, RestHost
<1> HIDE DEF base
<1> QED BY <1>1, <1>2, <1>3, <1>4

LEMMA RestTakes ==
    ASSUME ClocksAgree, TxLineInv, TxLineClock, Resting, ~Offered,
           NEW e \in Data, unsent' = Append(Pending, e)
    PROVE  /\ Len(Pending') = (IF timer' > 0 THEN 1 ELSE 0) + 1
           /\ Pending'[Len(Pending')] = e
<1>1. Len(Pending) = IF timer > 0 THEN 1 ELSE 0
    BY DEF TxLineInv, RestInv
<1>2. Pending \in Seq(Data)
    BY PortCases
<1> DEFINE base == IF timer > 0 THEN 1 ELSE 0
<1>3. /\ base = (IF timer > 0 THEN 1 ELSE 0) /\ base \in {0, 1}
      /\ Len(unsent') = base + 1 /\ unsent'[Len(unsent')] = e
    BY <1>1, <1>2
<1>4. Len(unsent') >= base /\ Len(unsent') > base
    BY <1>3
<1>5. /\ Len(Pending') = Len(unsent') - base + (IF timer' > 0 THEN 1 ELSE 0)
      /\ Len(unsent') > base => Pending'[Len(Pending')] = unsent'[Len(unsent')]
    BY <1>3, <1>4, RestHost
<1> HIDE DEF base
<1> QED BY <1>3, <1>4, <1>5

(* A clock between two frames, in the order in which they come.            *)
LEMMA RestStep ==
    ASSUME ClocksAgree, TxLineInv, TxLineClock, Resting
    PROVE  PortInv' /\ FrameInv' /\ RestInv'
<1>1. /\ TxInv /\ TxClock(valid, data) /\ data \in Data /\ valid \in {0, 1} /\ count = valid
      /\ tx_baud_valid \in {0, 1} /\ o_state_0 \in {0, 1} /\ o_uart_tx = 1
    BY DEF TxLineInv, TxLineTypes, TxLineClock, TxInv, TxTypeOK, PortInv, RestInv
<1>2. /\ timer \in Nat /\ timer' \in Nat /\ Due(LastBit) \in Nat /\ Begin(LastBit) \in Nat
      /\ timer = 0 => timer' = 0
      /\ timer > 0 => /\ timer <= Due(LastBit) /\ timer >= Begin(LastBit)
                      /\ timer' = IF timer = Due(LastBit) THEN 0 ELSE timer + 1
      /\ Begin(LastBit) < Due(LastBit) /\ Due(LastBit) <= Begin(LastBit) + Half + 4
      /\ Begin(LastBit) > 0
  <2>1. LastBit \in Nat
      BY Clocks
  <2>2. Begin(LastBit) \in Nat
      BY <2>1, Clocks
  <2>3. Begin(LastBit) < Due(LastBit) /\ Due(LastBit) <= Begin(LastBit) + Half + 4
      BY <2>1 DEF ClocksAgree
  <2> QED BY <2>2, <2>3, StopBegins, RestHost
<1>3. Begin(LastBit)' = Begin(LastBit) /\ Begin(BitNo)' = BitNo' * CYCLE
    BY DEF Begin, LastBit, FrameBits
<1>4. /\ Offered => Pending[Len(Pending)] = Flight
      /\ tx_state = "END" => timer = Begin(LastBit)
      /\ tx_state = "IDLE" /\ timer > 0 => timer > Begin(LastBit)
      /\ tx_state = "IDLE" /\ timer > 0 /\ o_state_0 = 0 => timer >= Begin(LastBit) + 2 + valid
      /\ tx_state = "IDLE" /\ timer > 0 /\ tx_baud_valid = 1 => timer >= Begin(LastBit) + 4
      /\ tx_state = "START" /\ timer > 0 => timer >= Begin(LastBit) + 4 + tx_baud_cnt
    BY DEF TxLineInv, RestInv
<1>5. CASE tx_state = "END"
  <2>1. o_state_0 = 1 /\ valid = 0 /\ tx_baud_valid = 0
      BY <1>1, <1>5 DEF TxLineInv, PortInv, Resting
  <2>2. /\ tx_state' = "IDLE" /\ tx_baud_valid' = 0 /\ Resting' /\ o_uart_tx' = 1 /\ o_state_0' = 1
      BY <1>1, <1>5, <2>1, RestGoesOn
  <2>3. unsent' = Pending /\ valid' = 0 /\ count' = 0
      BY <2>1, PortCases
  <2>4. timer' = Begin(LastBit) + 1 /\ timer' > 0
      BY <1>2, <1>4, <1>5, <2>1
  <2>5. ~Offered /\ ~Offered'
      BY <2>1, <2>2, <2>3 DEF Offered
  <2>6. Len(Pending') = IF timer' > 0 THEN 1 ELSE 0
      BY <2>3, <2>5, RestKeeps
  <2>7. PortInv'
      BY <1>3, <2>2, <2>3, <2>4 DEF PortInv
  <2>8. RestInv'
      BY <1>2, <1>3, <2>2, <2>4, <2>5, <2>6 DEF RestInv
  <2> QED BY <2>2, <2>7, <2>8 DEF FrameInv
<1>6. CASE tx_state = "IDLE" /\ tx_baud_valid = 0 /\ valid = 0
  <2>1. /\ tx_state' = "IDLE" /\ tx_baud_valid' = 0 /\ Resting' /\ o_uart_tx' = 1 /\ o_state_0' = 0
      BY <1>1, <1>6, RestGoesOn
  <2>2. ~Offered
      BY <1>6 DEF Offered
  <2>3. o_state_0 = 1 => timer = Begin(LastBit) + 1
      BY <1>6 DEF TxLineInv, PortInv
  <2>4. ASSUME NEW e \in Data, o_state_0 = 0, valid = 0, data' = e, valid' = 1, count' = 1,
               unsent' = Append(Pending, e)
        PROVE  PortInv' /\ RestInv'
    <3>1. Offered' /\ Flight' = e
        BY <2>1, <2>4 DEF Offered, Flight
    <3>2. /\ Len(Pending') = (IF timer' > 0 THEN 1 ELSE 0) + 1
          /\ Pending'[Len(Pending')] = e
        BY <2>2, <2>4, RestTakes
    <3>3. timer' > 0 => timer' >= Begin(LastBit) + 3
        BY <1>2, <1>4, <1>6, <2>4
    <3>4. PortInv'
        BY <2>1, <2>4 DEF PortInv
    <3> QED BY <1>2, <1>3, <2>1, <2>4, <3>1, <3>2, <3>3, <3>4 DEF RestInv
  <2>5. ASSUME data' = data, unsent' = Pending, valid' = 0, count' = valid'
        PROVE  PortInv' /\ RestInv'
    <3>1. ~Offered'
        BY <2>1, <2>5 DEF Offered
    <3>2. Len(Pending') = IF timer' > 0 THEN 1 ELSE 0
        BY <2>2, <2>5, RestKeeps
    <3>3. timer' > 0 => timer' >= Begin(LastBit) + 2
        BY <1>1, <1>2, <1>4, <1>6, <2>3
    <3>4. PortInv'
        BY <2>1, <2>5 DEF PortInv
    <3> QED BY <1>2, <1>3, <2>1, <2>5, <3>1, <3>2, <3>3, <3>4 DEF RestInv
  <2>6. PortInv' /\ RestInv'
      BY <1>6, <2>4, <2>5, PortCases
  <2> QED BY <2>1, <2>6 DEF FrameInv
<1>7. CASE tx_state = "IDLE" /\ tx_baud_valid = 0 /\ valid = 1
  <2>1. o_state_0 = 0
      BY <1>1, <1>7 DEF TxLineInv, PortInv
  <2>2. /\ tx_state' = "IDLE" /\ tx_baud_valid' = 1 /\ Resting' /\ o_uart_tx' = 1
        /\ o_state_0' = 1 /\ r_data_tx' = data
      BY <1>1, <1>7, RestGoesOn
  <2>3. data' = data /\ unsent' = Pending /\ valid' = 1 /\ count' = 1
      BY <1>7, <2>1, PortCases
  <2>4. Offered /\ Offered' /\ Flight = data /\ Flight' = data
      BY <1>7, <2>2, <2>3 DEF Offered, Flight
  <2>5. /\ Len(Pending') = (IF timer' > 0 THEN 1 ELSE 0) + 1
        /\ Pending'[Len(Pending')] = Flight
      BY <2>3, <2>4, RestKeeps
  <2>6. timer' > 0 => timer' >= Begin(LastBit) + 4
      BY <1>2, <1>4, <1>7, <2>1
  <2>7. PortInv'
      BY <2>2, <2>3 DEF PortInv
  <2>8. RestInv'
      BY <1>2, <1>3, <2>2, <2>3, <2>4, <2>5, <2>6 DEF RestInv
  <2> QED BY <2>2, <2>7, <2>8 DEF FrameInv
<1>8. CASE tx_state = "IDLE" /\ tx_baud_valid = 1
  <2>1. o_state_0 = 1 /\ valid = 1 /\ data = r_data_tx
      BY <1>8 DEF TxLineInv, PortInv
  <2>2. /\ tx_state' = "START" /\ tx_baud_cnt' = 1 /\ tx_baud_valid' = 1 /\ Resting'
        /\ o_uart_tx' = 1 /\ o_state_0' = 1 /\ r_data_tx' = data
      BY <1>1, <1>8, <2>1, RestGoesOn
  <2>3. unsent' = Pending /\ valid' = 0 /\ count' = 0
      BY <2>1, PortCases
  <2>4. Offered /\ Offered' /\ Flight = data /\ Flight' = data
      BY <1>8, <2>1, <2>2 DEF Offered, Flight
  <2>5. /\ Len(Pending') = (IF timer' > 0 THEN 1 ELSE 0) + 1
        /\ Pending'[Len(Pending')] = Flight
      BY <2>3, <2>4, RestKeeps
  <2>6. timer' > 0 => timer' >= Begin(LastBit) + 5
      BY <1>2, <1>4, <1>8
  <2>7. PortInv'
      BY <2>2, <2>3 DEF PortInv
  <2>8. RestInv'
      BY <1>2, <1>3, <2>2, <2>3, <2>4, <2>5, <2>6 DEF RestInv
  <2> QED BY <2>2, <2>7, <2>8 DEF FrameInv
<1>9. CASE tx_state = "START"
  <2>1. o_state_0 = 1 /\ valid = 0
      BY <1>1, <1>9 DEF TxLineInv, PortInv
  <2>2. /\ tx_state' = "START" /\ tx_baud_valid = 1 /\ tx_baud_valid' = 1
        /\ r_data_tx' = r_data_tx /\ o_state_0' = 1 /\ tx_baud_cnt' = tx_baud_cnt + 1
        /\ tx_baud_cnt # Half => Resting' /\ o_uart_tx' = 1
        /\ tx_baud_cnt = Half =>
             ~Resting' /\ o_uart_tx' = 0 /\ BitNo' = 0 /\ Since' = 0 /\ r_tx_cnt' = 0
      BY <1>1, <1>9, <2>1, RestGoesOn
  <2>3. unsent' = Pending /\ valid' = 0 /\ count' = 0
      BY <2>1, PortCases
  <2>4. Offered /\ Offered' /\ Flight = r_data_tx /\ Flight' = r_data_tx
      BY <1>9, <2>2 DEF Offered, Flight
  <2>5. /\ Len(Pending') = (IF timer' > 0 THEN 1 ELSE 0) + 1
        /\ Pending'[Len(Pending')] = r_data_tx
      BY <2>3, <2>4, RestKeeps
  <2>6. PortInv'
      BY <2>2, <2>3 DEF PortInv
  <2>7. tx_baud_cnt \in Nat
      BY <1>9, HalfBit DEF Resting
  <2>8. CASE tx_baud_cnt # Half
    <3>1. timer' > 0 => timer' >= Begin(LastBit) + 4 + tx_baud_cnt'
        BY <1>2, <1>4, <1>9, <2>2, <2>7
    <3> QED BY <1>2, <1>3, <2>2, <2>3, <2>4, <2>5, <2>6, <2>8, <3>1 DEF RestInv, FrameInv
  <2>9. CASE tx_baud_cnt = Half
    <3>1. timer' = 0
        BY <1>2, <1>4, <1>9, <2>7, <2>9
    <3>2. timer' = Begin(BitNo)' + Since'
        BY <1>3, <2>2, <2>9, <3>1, HalfBit
    <3>3. Len(Pending') = 1 /\ Head(Pending') = r_data_tx
        BY <2>5, <3>1
    <3>4. \A i \in 1 .. DATA_WIDTH - r_tx_cnt' : r_data_tx'[i] = Head(Pending')[r_tx_cnt' + i]
        BY <2>2, <2>9, <3>3, HalfBit
    <3> QED BY <2>2, <2>6, <2>9, <3>2, <3>3, <3>4 DEF FrameInv, RestInv
  <2> QED BY <2>8, <2>9
<1> QED BY <1>1, <1>5, <1>6, <1>7, <1>8, <1>9 DEF Resting

LEMMA TxLineInvInit == TxLineInit => TxLineInv
<1> SUFFICES ASSUME TxLineInit PROVE TxLineInv
    OBVIOUS
<1>1. TxInv
    BY TxInvInit DEF TxLineInit
<1>2. /\ tx_state = "IDLE" /\ tx_baud_valid = 0 /\ o_uart_tx = 1 /\ o_state_0 = 0
      /\ valid = 0 /\ count = 0 /\ data = NoData /\ timer = 0
      /\ unsent = <<>> /\ heard = <<>> /\ got = <<>>
    BY DEF TxLineInit, TxInit
<1>3. TxLineTypes
  <2>1. NoData \in Data
      BY DEF NoData, Data
  <2> QED BY <1>2, <2>1 DEF TxLineTypes
<1>4. PortInv
    BY <1>2 DEF PortInv
<1>5. TimerInv
  <2>1. FrameBits \in Nat
      BY FrameFormat DEF FrameBits
  <2> QED BY <1>2, <2>1 DEF TimerInv
<1>6. FrameInv /\ GotInv
    BY <1>2 DEF FrameInv, GotInv, Resting
<1>7. RestInv
    BY <1>2 DEF RestInv, Offered, Pending
<1> QED BY <1>1, <1>3, <1>4, <1>5, <1>6, <1>7 DEF TxLineInv

LEMMA TxLineInvClock ==
    ASSUME ClocksAgree, TxLineInv, TxLineClock
    PROVE  TxLineInv'
<1>1. TxInv'
    BY TxInvStep DEF TxLineInv, TxLineTypes, TxLineClock
<1>2. TimerInv' /\ GotInv' /\ TxLineTypes'
    BY HeardNext, PortCases DEF TxLineTypes
<1>3. PortInv' /\ FrameInv' /\ RestInv'
    BY FrameStep, RestStep
<1> QED BY <1>1, <1>2, <1>3 DEF TxLineInv

LEMMA TxLineInvStep ==
    ASSUME ClocksAgree, TxLineInv, [TxLineNext]_txLineVars
    PROVE  TxLineInv'
<1>1. CASE TxLineNext
    BY <1>1, TxLineInvClock DEF TxLineNext
<1>2. CASE UNCHANGED txLineVars
  <2>1. /\ UNCHANGED <<tx_state, tx_baud_valid, tx_baud_cnt, tx_baud_pulse, r_tx_cnt,
                       r_data_tx, tx_parity, o_uart_tx, o_state_0>>
        /\ UNCHANGED <<valid, data, count, unsent, heard, timer, got>>
      BY <1>2 DEF txLineVars, txVars, portVars, hostVars
  <2>2. TxInv'
      BY <2>1 DEF TxLineInv, TxInv, TxTypeOK, BaudInv, CountInv
  <2>3. TxLineTypes' /\ PortInv' /\ GotInv'
      BY <2>1 DEF TxLineInv, TxLineTypes, PortInv, GotInv
  <2>4. /\ Resting' = Resting /\ BitNo' = BitNo /\ Since' = Since /\ Pending' = Pending
        /\ Offered' = Offered /\ Flight' = Flight
      BY <2>1 DEF Resting, BitNo, Since, Pending, Offered, Flight
  <2>5. TimerInv'
      BY <2>1, <2>4 DEF TxLineInv, TimerInv, HeardOf
  <2>6. FrameInv'
      BY <2>1, <2>4 DEF TxLineInv, FrameInv
  <2>7. RestInv'
      BY <2>1, <2>4 DEF TxLineInv, RestInv
  <2> QED BY <2>2, <2>3, <2>5, <2>6, <2>7 DEF TxLineInv
<1> QED BY <1>1, <1>2

LEMMA TxLineAlways == ClocksAgree => (LinesSpec => []TxLineInv)
<1> SUFFICES ASSUME ClocksAgree PROVE LinesSpec => []TxLineInv
    OBVIOUS
<1>1. LinesInit => TxLineInv
    BY TxLineInvInit DEF LinesInit
<1>2. TxLineInv /\ [LinesNext]_<<side, lineVars, txLineVars>> => TxLineInv'
  <2>1. [LinesNext]_<<side, lineVars, txLineVars>> => [TxLineNext]_txLineVars
      BY DEF LinesNext
  <2> QED BY <2>1, TxLineInvStep
<1> QED BY <1>1, <1>2, PTL DEF LinesSpec

(* The parity bit.  The register holds the parity of the bits sent, and the*)
(* bit on the line, the bit heard and the bit of the frame that is heard   *)
(* are what SentParity says of the byte.                                   *)
ParityCount ==
    /\ tx_state = "START" => tx_parity = 0
    /\ tx_state \in {"DATA", "PARITY"} => tx_parity = OnesTo(Head(Pending), r_tx_cnt) % 2
    /\ tx_state = "PARITY" => r_tx_cnt = DATA_WIDTH
ParityOnLine ==
    ~Resting /\ PARITY_ON = 1 /\ BitNo = DATA_WIDTH + 1 =>
        o_uart_tx = SentParity(Head(Pending))
ParityHeard ==
    timer > 0 /\ PARITY_ON = 1 /\ Len(heard) = LastBit =>
        heard[LastBit] = SentParity(Head(Pending))
ParityGot ==
    got # <<>> /\ PARITY_ON = 1 => got[1][LastBit] = SentParity(Head(unsent))

ParityInv == ParityCount /\ ParityOnLine /\ ParityHeard /\ ParityGot

(* The register in a frame.                                                *)
LEMMA ParityRegister ==
    ASSUME TxInv, ParityCount, NEW v, NEW e, TxClock(v, e), NEW d \in Data,
           ~Resting, Head(Pending) = d, Head(Pending)' = d,
           tx_state = "DATA" /\ tx_baud_pulse = 1 => r_data_tx[1] = d[r_tx_cnt + 1]
    PROVE  ParityCount'
<1>1. TxTypeOK /\ TxMove /\ r_tx_cnt \in 0 .. DATA_WIDTH /\ DATA_WIDTH \in Nat
    BY HalfBit DEF TxInv, TxTypeOK, TxClock
<1>2. tx_baud_valid = 1 /\ tx_state # "IDLE"
    BY BitRange
<1>3. tx_state' = IF tx_baud_cnt = 0 THEN TxAfter ELSE tx_state
    BY <1>1, <1>2 DEF TxMove
<1>4. CASE TxStart
  <2>1. tx_state = "START" /\ tx_parity' = 0 /\ r_tx_cnt' = 0
      BY <1>4 DEF TxStart, TxInv, CountInv, ParityCount
  <2>2. tx_state' \in {"START", "DATA"}
      BY <1>3, <2>1 DEF TxAfter
  <2>3. OnesTo(d, 0) % 2 = 0
      BY OnesCount
  <2> QED BY <2>1, <2>2, <2>3 DEF ParityCount, OnesTo
<1>5. CASE TxData /\ tx_baud_pulse = 1
  <2>1. /\ tx_state = "DATA" /\ tx_baud_cnt = Half /\ r_tx_cnt < DATA_WIDTH
        /\ r_tx_cnt' = (r_tx_cnt + 1) % 16 /\ tx_parity' = (tx_parity + r_data_tx[1]) % 2
    <3>1. tx_state = "DATA" /\ tx_baud_cnt = Half /\ Half >= 2
        BY <1>2, <1>5, HalfBit DEF TxData, TxInv, BaudInv
    <3>2. r_tx_cnt < DATA_WIDTH
        BY <3>1, HalfBit DEF TxInv, CountInv
    <3> QED BY <1>5, <3>1, <3>2 DEF TxData
  <2>2. r_tx_cnt' = r_tx_cnt + 1
      BY <1>1, <2>1, HalfBit
  <2>3. tx_state' = "DATA"
      BY <1>3, <2>1, HalfBit
  <2>4. /\ OnesTo(d, r_tx_cnt + 1) = OnesTo(d, r_tx_cnt) + d[r_tx_cnt + 1]
        /\ OnesTo(d, r_tx_cnt) \in Nat /\ d[r_tx_cnt + 1] \in {0, 1}
    <3>1. r_tx_cnt \in 0 .. DATA_WIDTH - 1 /\ r_tx_cnt + 1 \in 1 .. DATA_WIDTH
        BY <1>1, <2>1
    <3> QED BY <1>1, <3>1, OnesCount DEF Data
  <2>5. tx_parity = OnesTo(d, r_tx_cnt) % 2
      BY <2>1 DEF ParityCount
  <2>6. tx_parity' = OnesTo(d, r_tx_cnt + 1) % 2
      BY <1>5, <2>1, <2>4, <2>5
  <2> QED BY <2>2, <2>3, <2>6 DEF ParityCount, OnesTo
<1>6. CASE TxData /\ tx_baud_pulse # 1
  <2>1. tx_state = "DATA" /\ r_tx_cnt' = r_tx_cnt /\ tx_parity' = tx_parity
      BY <1>6 DEF TxData
  <2>2. /\ tx_state' \in {"DATA", "PARITY", "END"}
        /\ tx_state' = "PARITY" => r_tx_cnt = DATA_WIDTH
      BY <1>3, <2>1 DEF TxAfter
  <2> QED BY <2>1, <2>2 DEF ParityCount, OnesTo
<1>7. CASE TxParity
  <2>1. tx_state = "PARITY" /\ r_tx_cnt' = r_tx_cnt /\ tx_parity' = tx_parity
      BY <1>7 DEF TxParity
  <2>2. tx_state' \in {"PARITY", "END"}
      BY <1>3, <2>1 DEF TxAfter
  <2> QED BY <2>1, <2>2 DEF ParityCount, OnesTo
<1>8. CASE TxEnd
  <2>1. tx_state = "END"
      BY <1>8 DEF TxEnd
  <2>2. tx_state' \in {"IDLE", "END"}
      BY <1>3, <2>1 DEF TxAfter
  <2> QED BY <2>2 DEF ParityCount
<1>9. ~TxIdle(v, e)
    BY <1>2 DEF TxIdle
<1> QED BY <1>4, <1>5, <1>6, <1>7, <1>8, <1>9 DEF TxClock

(* The bit on the line in a frame.                                         *)
LEMMA ParityLevel ==
    ASSUME TxInv, ParityCount, ParityOnLine, NEW v, NEW e \in Data, TxClock(v, e),
           NEW d \in Data, ~Resting, Head(Pending) = d, Head(Pending)' = d
    PROVE  ParityOnLine'
<1>1. TxTypeOK /\ DATA_WIDTH \in Nat
    BY HalfBit DEF TxInv
<1>2. CASE tx_baud_pulse # 1
  <2>1. tx_baud_pulse = 0
      BY <1>1, <1>2 DEF TxTypeOK
  <2>2. BitNo' = BitNo /\ o_uart_tx' = o_uart_tx
      BY <2>1, BitGoesOn
  <2> QED BY <2>2 DEF ParityOnLine, SentParity, Ones
<1>3. CASE tx_baud_pulse = 1
  <2> SUFFICES ASSUME ~Resting', PARITY_ON = 1, BitNo' = DATA_WIDTH + 1
               PROVE  o_uart_tx' = SentParity(d)
      BY DEF ParityOnLine, SentParity, Ones
  <2>1. tx_state = "PARITY"
    <3>1. \/ tx_state = "PARITY"
          \/ BitNo' = BitNo + 1 /\ r_tx_cnt = BitNo /\ r_tx_cnt < DATA_WIDTH
        BY <1>3, BitEnds
    <3>2. r_tx_cnt \in 0 .. DATA_WIDTH
        BY <1>1 DEF TxTypeOK
    <3> QED BY <1>1, <3>1, <3>2
  <2>2. o_uart_tx' = TxParityBit
      BY <1>3, <2>1 DEF TxClock, TxIdle, TxStart, TxData, TxParity, TxEnd
  <2>3. tx_parity = Ones(d) % 2 /\ Ones(d) \in Nat
      BY <2>1, OnesCount DEF ParityCount
  <2>4. PARITY_TYPE \in {0, 1}
      BY UartAssumption
  <2> QED BY <2>2, <2>3, <2>4 DEF TxParityBit, SentParity
<1> QED BY <1>2, <1>3

(* What the host has heard of it.                                          *)
LEMMA ParityAtHost ==
    ASSUME ClocksAgree, TxLineInv, ParityOnLine, ParityHeard, TxLineClock
    PROVE  ParityHeard' /\ ParityGot'
<1>1. /\ TxLineTypes /\ TimerInv /\ HostClock /\ heard \in Seq({0, 1}) /\ timer \in Nat
      /\ Len(heard) \in Nat /\ LastBit \in Nat /\ LastBit >= 2
      /\ LastBit = DATA_WIDTH + PARITY_ON + 1 /\ DATA_WIDTH \in Nat
  <2>1. LastBit \in Nat /\ LastBit >= 2 /\ LastBit = DATA_WIDTH + PARITY_ON + 1 /\ DATA_WIDTH \in Nat
      BY Clocks, FrameFormat
  <2> QED BY <2>1, LenProperties DEF TxLineInv, TxLineTypes, TxLineClock
<1>2. CASE timer = 0
  <2>1. heard' = <<>> /\ got' = <<>>
      BY <1>1, <1>2, HostStep
  <2>2. LastBit' = LastBit /\ Len(heard') = 0
      BY <2>1 DEF LastBit, FrameBits
  <2> QED BY <1>1, <2>1, <2>2 DEF ParityHeard, ParityGot
<1>3. CASE timer > 0
  <2>1. /\ Len(heard) <= LastBit /\ Pending # <<>>
        /\ unsent' # <<>> /\ Head(unsent') = Head(Pending)
      BY <1>1, <1>3, PortCases DEF TimerInv
  <2>2. LastBit' = LastBit
      BY DEF LastBit, FrameBits
  <2>3. CASE timer # Due(Len(heard))
    <3>1. heard' = heard /\ got' = <<>>
        BY <1>1, <1>3, <2>3, HostStep
    <3>2. Pending' = unsent'
        BY <3>1 DEF Pending
    <3> QED BY <1>3, <2>1, <2>2, <3>1, <3>2 DEF ParityHeard, ParityGot, SentParity, Ones
  <2>4. CASE timer = Due(Len(heard)) /\ Len(heard) < LastBit
    <3>1. heard' = Append(heard, o_uart_tx) /\ got' = <<>>
        BY <1>1, <1>3, <2>4, HostStep
    <3>2. Pending' = unsent'
        BY <3>1 DEF Pending
    <3>3. Len(heard') = Len(heard) + 1 /\ heard'[Len(heard) + 1] = o_uart_tx
        BY <1>1, <3>1, SampleRight, <1>3, <2>4
    <3>4. ~Resting
        BY <1>1, <1>3, <2>4, RestHeard DEF TxLineInv
    <3>5. Len(heard) = BitNo
        BY <1>3, <2>4, <3>4, SampleBitNo
    <3>6. ASSUME PARITY_ON = 1, Len(heard') = LastBit
          PROVE  heard'[LastBit] = SentParity(Head(Pending))
      <4>1. BitNo = DATA_WIDTH + 1
          BY <1>1, <3>3, <3>5, <3>6
      <4> QED BY <3>3, <3>4, <3>6, <4>1 DEF ParityOnLine
    <3> QED BY <2>1, <2>2, <3>1, <3>2, <3>6 DEF ParityHeard, ParityGot, SentParity, Ones
  <2>5. CASE timer = Due(Len(heard)) /\ Len(heard) = LastBit
    <3>1. timer' = 0 /\ got' = <<Append(heard, o_uart_tx)>>
        BY <1>1, <1>3, <2>5, HostStep
    <3>2. Append(heard, o_uart_tx)[LastBit] = heard[LastBit]
        BY <1>1, <2>5, SampleRight, <1>3
    <3>3. PARITY_ON = 1 => heard[LastBit] = SentParity(Head(Pending))
        BY <1>3, <2>5 DEF ParityHeard
    <3>4. got'[1][LastBit] = heard[LastBit]
        BY <3>1, <3>2
    <3>5. ParityHeard'
        BY <3>1 DEF ParityHeard
    <3>6. SentParity(Head(unsent')) = SentParity(Head(Pending))
        BY <2>1
    <3>7. PARITY_ON = 1 => got'[1][LastBit] = SentParity(Head(unsent'))
        BY <3>3, <3>4, <3>6
    <3> QED BY <2>2, <3>5, <3>7 DEF ParityGot, SentParity, Ones
  <2> QED BY <1>1, <2>1, <2>3, <2>4, <2>5
<1> QED BY <1>1, <1>2, <1>3

LEMMA ParityInvClock ==
    ASSUME ClocksAgree, TxLineInv, ParityInv, TxLineClock
    PROVE  ParityInv'
<1>1. /\ TxInv /\ TxClock(valid, data) /\ data \in Data /\ valid \in {0, 1} /\ HostClock
      /\ ParityCount /\ ParityOnLine /\ ParityHeard
    BY DEF TxLineInv, TxLineTypes, TxLineClock, ParityInv
<1>2. ParityHeard' /\ ParityGot'
    BY <1>1, ParityAtHost
<1>3. CASE Resting
  <2>1. tx_state \in {"IDLE", "START", "END"}
      BY <1>3 DEF Resting
  <2>2. /\ tx_state' \in {"IDLE", "START"}
        /\ ~Resting' => BitNo' = 0
    <3>1. tx_baud_valid \in {0, 1}
        BY <1>1 DEF TxInv, TxTypeOK
    <3>2. CASE tx_state = "IDLE"
        BY <1>1, <1>3, <3>1, <3>2, RestGoesOn
    <3>3. CASE tx_state = "START"
        BY <1>1, <1>3, <3>3, RestGoesOn
    <3>4. CASE tx_state = "END"
        BY <1>1, <1>3, <3>4, RestGoesOn
    <3> QED BY <2>1, <3>2, <3>3, <3>4
  <2>3. tx_state' = "START" => tx_parity' = 0
    <3>1. CASE tx_state = "IDLE"
        BY <1>1, <3>1 DEF TxClock, TxIdle, TxStart, TxData, TxParity, TxEnd
    <3>2. CASE tx_state = "START"
        BY <1>1, <3>2 DEF TxClock, TxIdle, TxStart, TxData, TxParity, TxEnd, ParityCount
    <3>3. CASE tx_state = "END"
        BY <1>1, <1>3, <3>3, RestGoesOn
    <3> QED BY <2>1, <3>1, <3>2, <3>3
  <2>4. ~(0 = DATA_WIDTH + 1)
      BY HalfBit
  <2> QED BY <1>2, <2>2, <2>3, <2>4 DEF ParityInv, ParityCount, ParityOnLine
<1>4. CASE ~Resting
  <2>1. /\ Len(Pending) = 1 /\ Pending \in Seq(Data)
        /\ tx_state \in {"START", "DATA"} =>
             \A i \in 1 .. DATA_WIDTH - r_tx_cnt : r_data_tx[i] = Head(Pending)[r_tx_cnt + i]
      BY <1>4, PortCases DEF TxLineInv, FrameInv
  <2>2. Pending' = Pending
    <3>1. got' = <<>>
        BY <1>1, <1>4, NoneHeardInFrame
    <3>2. o_state_0 = 1
        BY <1>1, <1>4, BitRange DEF TxLineInv, PortInv
    <3>3. unsent' = Pending
        BY <3>2, PortCases
    <3> QED BY <3>1, <3>3 DEF Pending
  <2>3. PICK d \in Data : d = Head(Pending)
      BY <2>1
  <2>4. tx_state = "DATA" /\ tx_baud_pulse = 1 => r_data_tx[1] = d[r_tx_cnt + 1]
    <3> SUFFICES ASSUME tx_state = "DATA", tx_baud_pulse = 1
                 PROVE  r_data_tx[1] = d[r_tx_cnt + 1]
        OBVIOUS
    <3>1. tx_baud_valid = 1
        BY <1>1, <1>4, BitRange
    <3>2. tx_baud_cnt = Half /\ r_tx_cnt \in Nat
        BY <1>1, <3>1 DEF TxInv, BaudInv, TxTypeOK
    <3>3. r_tx_cnt < DATA_WIDTH /\ DATA_WIDTH \in Nat
        BY <1>1, <3>2, HalfBit DEF TxInv, CountInv
    <3> QED BY <2>1, <2>3, <3>2, <3>3
  <2>5. Head(Pending)' = d
      BY <2>2, <2>3
  <2>6. ParityCount'
      BY <1>1, <1>4, <2>3, <2>4, <2>5, ParityRegister
  <2>7. ParityOnLine'
      BY <1>1, <1>4, <2>3, <2>5, ParityLevel
  <2> QED BY <1>2, <2>6, <2>7 DEF ParityInv
<1> QED BY <1>3, <1>4

LEMMA ParityAlways == ClocksAgree => (LinesSpec => [](TxLineInv /\ ParityInv))
<1> SUFFICES ASSUME ClocksAgree PROVE LinesSpec => [](TxLineInv /\ ParityInv)
    OBVIOUS
<1>1. LinesInit => ParityInv
    BY DEF LinesInit, TxLineInit, TxInit, ParityInv, ParityCount, ParityOnLine,
           ParityHeard, ParityGot, Resting
<1>2. TxLineInv /\ ParityInv /\ [LinesNext]_<<side, lineVars, txLineVars>> => ParityInv'
  <2> SUFFICES ASSUME TxLineInv, ParityInv, [LinesNext]_<<side, lineVars, txLineVars>>
               PROVE  ParityInv'
      OBVIOUS
  <2>1. TxLineClock \/ UNCHANGED txLineVars
      BY DEF LinesNext, TxLineNext
  <2>2. CASE UNCHANGED txLineVars
    <3>1. /\ UNCHANGED <<tx_state, tx_baud_valid, tx_baud_cnt, r_tx_cnt, tx_parity, o_uart_tx>>
          /\ UNCHANGED <<unsent, heard, timer, got>>
        BY <2>2 DEF txLineVars, txVars, portVars, hostVars
    <3>2. Resting' = Resting /\ BitNo' = BitNo /\ Pending' = Pending
        BY <3>1 DEF Resting, BitNo, Pending
    <3>3. ParityCount' /\ ParityOnLine'
        BY <3>1, <3>2 DEF ParityInv, ParityCount, ParityOnLine, OnesTo, SentParity, Ones
    <3>4. ParityHeard' /\ ParityGot'
        BY <3>1, <3>2 DEF ParityInv, ParityHeard, ParityGot, LastBit, FrameBits, SentParity, Ones
    <3> QED BY <3>3, <3>4 DEF ParityInv
  <2> QED BY <2>1, <2>2, ParityInvClock
<1> QED BY <1>1, <1>2, TxLineAlways, PTL DEF LinesSpec

(* A receiver of the host with the transmitter's own clock hears every     *)
(* frame: the hypothesis of the theorems below is met, for every number of *)
(* clocks per bit and every frame.                                         *)
THEOREM EqualClocksAgree == RECVCYCLE = CYCLE => ClocksAgree
<1> SUFFICES ASSUME RECVCYCLE = CYCLE PROVE ClocksAgree
    OBVIOUS
<1>1. CYCLE \in Nat /\ CYCLE >= 4 /\ Half = CYCLE \div 2 /\ Half \in Nat /\ Half >= 2
      /\ Half + 1 < CYCLE
    BY HalfBit DEF Half
<1>2. LastBit \in Nat
    BY FrameFormat DEF LastBit, FrameBits
<1>3. \A j \in Nat : /\ Begin(j) \in Nat /\ Due(j) = Begin(j) + Half
                     /\ Begin(j + 1) = Begin(j) + CYCLE
    BY <1>1 DEF Begin, Due
<1> QED BY <1>1, <1>2, <1>3 DEF ClocksAgree

(* The bytes of the reply reach the host: when the host completes a frame, *)
(* its start bit is 0, its stop bit 1, its data bits are the oldest byte   *)
(* that nice_core has offered and the host has not received, and a parity  *)
(* bit is the one the code sends for this byte.                            *)
THEOREM HostHears == ClocksAgree => (LinesSpec => []Received)
<1> SUFFICES ASSUME ClocksAgree PROVE LinesSpec => []Received
    OBVIOUS
<1>1. TxLineInv /\ ParityInv => Received
  <2> SUFFICES ASSUME TxLineInv, ParityInv, got # <<>>
               PROVE  /\ Len(got) = 1 /\ unsent # <<>> /\ ByteOf(got[1]) = Head(unsent)
                      /\ got[1][1] = 0 /\ got[1][FrameBits] = 1
                      /\ PARITY_ON = 1 => got[1][DATA_WIDTH + 2] = SentParity(Head(unsent))
      BY DEF Received
  <2>1. /\ Len(got) = 1 /\ unsent # <<>> /\ Len(got[1]) = FrameBits
        /\ got[1][1] = 0 /\ got[1][FrameBits] = 1
        /\ \A i \in 1 .. DATA_WIDTH : got[1][i + 1] = Head(unsent)[i]
      BY DEF TxLineInv, GotInv
  <2>2. Head(unsent) \in Data
      BY <2>1 DEF TxLineInv, TxLineTypes
  <2>3. ByteOf(got[1]) = Head(unsent)
      BY <2>1, <2>2, HalfBit DEF ByteOf, Data
  <2>4. PARITY_ON = 1 => LastBit = DATA_WIDTH + 2
      BY FrameFormat DEF LastBit, FrameBits
  <2> QED BY <2>1, <2>3, <2>4 DEF ParityInv, ParityGot
<1> QED BY <1>1, ParityAlways, PTL

(* With parity on, whatever its type, every frame of uart_tx.v fails the   *)
(* check of a uart_rx.v with the same parameters: the one counts the other *)
(* way round.                                                              *)
THEOREM OwnReceiverRejects == ClocksAgree => (LinesSpec => []FailsOwnCheck)
<1> SUFFICES ASSUME ClocksAgree PROVE LinesSpec => []FailsOwnCheck
    OBVIOUS
<1>1. TxLineInv /\ Received => FailsOwnCheck
  <2> SUFFICES ASSUME TxLineInv, Received, NEW i \in DOMAIN got, PARITY_ON = 1
               PROVE  ~OwnCheck(got[i])
      BY DEF FailsOwnCheck
  <2>1. /\ unsent # <<>> /\ ByteOf(got[i]) = Head(unsent)
        /\ got[i][DATA_WIDTH + 2] = SentParity(Head(unsent))
      BY DEF Received
  <2>2. PICK d \in Data : d = Head(unsent)
      BY <2>1 DEF TxLineInv, TxLineTypes
  <2>3. Ones(d) \in Nat /\ PARITY_TYPE \in {0, 1}
      BY OnesCount, UartAssumption
  <2>4. (Ones(d) % 2) + SentParity(d) # PARITY_TYPE
      BY <2>3 DEF SentParity
  <2> QED BY <2>1, <2>2, <2>4 DEF OwnCheck
<1> QED BY <1>1, TxLineAlways, HostHears, PTL

(* The handshake loses no byte: when nothing is on offer, the transmitter  *)
(* is idle and the host listens, every byte offered has been received.     *)
THEOREM HostMissesNone == ClocksAgree => (LinesSpec => []AllHeard)
<1> SUFFICES ASSUME ClocksAgree PROVE LinesSpec => []AllHeard
    OBVIOUS
<1>1. TxLineInv => AllHeard
  <2> SUFFICES ASSUME TxLineInv, valid = 0, o_state_0 = 0, timer = 0, got = <<>>
               PROVE  unsent = <<>>
      BY DEF AllHeard
  <2>1. tx_state = "IDLE" /\ tx_baud_valid # 1
      BY DEF TxLineInv, PortInv
  <2>2. Resting /\ ~Offered
      BY <2>1 DEF Resting, Offered
  <2>3. Len(Pending) = 0 /\ Pending = unsent
      BY <2>2 DEF TxLineInv, RestInv, Pending
  <2> QED BY <2>3 DEF TxLineInv, TxLineTypes
<1> QED BY <1>1, TxLineAlways, PTL

(* A host that has heard the last byte on its way may answer at once: the  *)
(* transmitter has left its frame.                                         *)
THEOREM IdleAfterLastByte == ClocksAgree => (LinesSpec => []IdleWhenHeard)
<1> SUFFICES ASSUME ClocksAgree PROVE LinesSpec => []IdleWhenHeard
    OBVIOUS
<1>1. TxLineInv => IdleWhenHeard
  <2> SUFFICES ASSUME TxLineInv, got # <<>>, Len(unsent) = 1, valid = 0 PROVE o_state_0 = 0
      BY DEF IdleWhenHeard
  <2>1. timer = 0 /\ unsent \in Seq(Data)
      BY DEF TxLineInv, GotInv, TxLineTypes
  <2>2. Len(Pending) = 0
      BY <2>1 DEF Pending
  <2>3. Resting
      BY <2>2 DEF TxLineInv, FrameInv
  <2>4. tx_baud_valid # 1 /\ tx_baud_valid \in {0, 1} /\ o_state_0 \in {0, 1}
    <3>1. ~Offered
        BY <2>1, <2>2, <2>3 DEF TxLineInv, RestInv
    <3> QED BY <3>1 DEF Offered, TxLineInv, TxInv, TxTypeOK
  <2>5. Begin(LastBit) > 0 /\ Begin(LastBit) + 1 > 0
      BY StopBegins
  <2>6. tx_state = "IDLE"
      BY <2>1, <2>3, <2>4, <2>5 DEF TxLineInv, TxInv, BaudInv, RestInv, Resting
  <2> QED BY <2>1, <2>4, <2>5, <2>6 DEF TxLineInv, PortInv
<1> QED BY <1>1, TxLineAlways, PTL
-----------------------------------------------------------------------------
(* Both lines together.                                                    *)

(* The registers of both UARTs keep to their widths and values, whatever   *)
(* the clocks of the host and the noise on the line.                       *)
THEOREM LinesTypes == LinesSpec => []LinesTypeOK
<1> DEFINE TypesInv == RxInv /\ WireTypes /\ TxInv /\ data \in Data
<1>1. LinesInit => TypesInv
  <2> SUFFICES ASSUME LinesInit PROVE TypesInv
      OBVIOUS
  <2>1. RxInv
      BY RxInvInit DEF LinesInit, LineInit
  <2>2. WireTypes
    <3>1. NoData \in Data
        BY DEF NoData, Data
    <3>2. StopBit \in Nat /\ QUIET \in Nat /\ BURST \in Nat
        BY LineAssumption, FrameFormat DEF StopBit
    <3> QED BY <3>1, <3>2 DEF LinesInit, LineInit, WireTypes
  <2>3. TxLineInv
      BY TxLineInvInit DEF LinesInit
  <2> QED BY <2>1, <2>2, <2>3 DEF TxLineInv, TxLineTypes
<1>2. TypesInv /\ [LinesNext]_<<side, lineVars, txLineVars>> => TypesInv'
  <2> SUFFICES ASSUME TypesInv, [LinesNext]_<<side, lineVars, txLineVars>> PROVE TypesInv'
      OBVIOUS
  <2>1. (RxInv /\ WireTypes)'
    <3>1. CASE LineNext
      <4>1. RxClock(Level) /\ Level \in {0, 1}
          BY <3>1, LevelIs DEF LineNext
      <4> QED BY <3>1, <4>1, RxInvStep, WireTypesStep
    <3>2. CASE UNCHANGED lineVars
      <4>1. /\ UNCHANGED <<sync_uart_rx, r_flag_rcv_start, rx_state, rx_baud_valid, rx_baud_cnt,
                           rx_baud_pulse, r_rcv_cnt, r_data_rcv, rx_parity, o_uart_data,
                           o_ld_parity, o_rx_done>>
            /\ UNCHANGED <<wire, bit, left, hdata, burst, expected>>
          BY <3>2 DEF lineVars, rxVars, rxLine, wireVars
      <4>2. RxInv'
          BY <4>1 DEF RxInv, RxTypeOK, RxBaudInv, RxCountInv, Free, Busy
      <4>3. WireTypes'
          BY <4>1 DEF WireTypes
      <4> QED BY <4>2, <4>3
    <3> QED BY <3>1, <3>2 DEF LinesNext
  <2>2. (TxInv /\ data \in Data)'
    <3>1. CASE TxLineNext
      <4>1. TxInv'
          BY <3>1, TxInvStep DEF TxLineNext, TxLineClock
      <4>2. data' \in Data
          BY <3>1 DEF TxLineNext, TxLineClock, PortOffer, PortWait
      <4> QED BY <4>1, <4>2
    <3>2. CASE UNCHANGED txLineVars
      <4>1. UNCHANGED <<tx_state, tx_baud_valid, tx_baud_cnt, tx_baud_pulse, r_tx_cnt,
                        r_data_tx, tx_parity, o_uart_tx, o_state_0, data>>
          BY <3>2 DEF txLineVars, txVars, portVars
      <4> QED BY <4>1 DEF TxInv, TxTypeOK, BaudInv, CountInv
    <3> QED BY <3>1, <3>2 DEF LinesNext
  <2> QED BY <2>1, <2>2
<1>3. TypesInv => LinesTypeOK
    BY DEF RxInv, TxInv, LinesTypeOK
<1> QED BY <1>1, <1>2, <1>3, PTL DEF LinesSpec

(* The receiver of the two lines is the receiver at its own line.          *)
LEMMA ReceiverAtItsLine == LinesSpec => LineSpec
<1>1. LinesInit => LineInit
    BY DEF LinesInit
<1>2. [LinesNext]_<<side, lineVars, txLineVars>> => [LineNext]_lineVars
    BY DEF LinesNext
<1> QED BY <1>1, <1>2, PTL DEF LinesSpec, LineSpec

(* No byte is lost on the way in or on the way out: at rest, the receiver  *)
(* has delivered all the host sent and the host has heard all nice_core    *)
(* offered.                                                                *)
THEOREM NoByteIsLost ==
    RxClocksAgree /\ ParityChecked /\ ClocksAgree => (LinesSpec => []NoByteLost)
<1> SUFFICES ASSUME RxClocksAgree /\ ParityChecked /\ ClocksAgree PROVE LinesSpec => []NoByteLost
    OBVIOUS
<1>1. NoneLost /\ AllHeard => NoByteLost
    BY DEF NoByteLost
<1> QED BY <1>1, NoByteMissed, HostMissesNone, ReceiverAtItsLine, PTL
=============================================================================
