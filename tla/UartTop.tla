------------------------------ MODULE UartTop -------------------------------
(***************************************************************************)
(* The whole FPGA design (uart_top.v): uart_rx, nice_core and uart_tx on   *)
(* one clock, at the end of a serial line.  The host's adapter is external *)
(* and ideal (8N1, CYCLE clocks per bit); the host follows the protocol of *)
(* the driver and the bridge: three words, each answered before the next,  *)
(* polls until the answer is 1, a read, five bytes.  It may pause for any  *)
(* time before each transmission, none at all included.                    *)
(***************************************************************************)
EXTENDS NiceCore, UartRx, UartTx

CONSTANT Requests       \* the requests the host sends: twelve bytes each

ASSUME UartTopAssumption ==
    /\ DATA_WIDTH = 8 /\ PARITY_ON = 0
    /\ Requests \subseteq [1 .. 12 -> Byte]

VARIABLES
    step,           \* 0 between requests, 1..3 words, 4 poll, 5 read
    request,
    out, bit, left, \* bytes to send; bit of the first one on the wire, clocks left
    got,            \* bytes heard since the last transmission
    heard, timer,   \* bits of the frame being heard, clocks since its edge
    waiting         \* clocks since the transmission ended, unanswered

hostVars == <<step, request, out, bit, left, got, heard, timer, waiting>>
fpgaVars == <<coreVars, rxVars, txVars>>
uartTopVars == <<fpgaVars, hostVars>>

Value(bits) == bits[1] + 2 * bits[2] + 4 * bits[3] + 8 * bits[4] + 16 * bits[5]
               + 32 * bits[6] + 64 * bits[7] + 128 * bits[8]

UartTopInit ==
    /\ CoreInit /\ RxInit /\ TxInit
    /\ step = 0 /\ request \in Requests
    /\ out = <<>> /\ bit = 0 /\ left = 0
    /\ got = <<>> /\ heard = <<>> /\ timer = 0 /\ waiting = 0

(* One clock of the design: the wires of uart_top.v.                       *)
Fpga(rx) ==
    /\ RxClock(rx)
    /\ Clock(o_rx_done, Value(o_uart_data), o_state_0)
    /\ TxClock(o_data_valid, Bits(o_data_tx))

-----------------------------------------------------------------------------
(* The host.                                                               *)
Line == IF out = <<>> \/ bit = 9 THEN 1
        ELSE IF bit = 0 THEN 0
        ELSE Bits(Head(out))[bit]

Need == IF step = 5 THEN 5 ELSE IF step = 0 THEN 0 ELSE 1

Answered == out = <<>> /\ Len(got) = Need /\ timer = 0

Transmission(s) ==
    CASE s \in 1 .. 3 -> SubSeq(request, 4 * s - 3, 4 * s)
      [] s = 4 -> <<POLL>>
      [] s = 5 -> <<READ>>

Follows == IF step = 4 /\ got = <<0>> THEN 4 ELSE step + 1

Send ==
    /\ Answered /\ step < 5
    /\ step' = Follows
    /\ out' = Transmission(Follows) /\ bit' = 0 /\ left' = CYCLE
    /\ got' = <<>> /\ waiting' = 0
    /\ UNCHANGED request

NextRequest ==
    /\ Answered /\ step = 5
    /\ step' = 0 /\ request' \in Requests
    /\ got' = <<>> /\ waiting' = 0
    /\ UNCHANGED <<out, bit, left>>

Shift ==
    /\ out # <<>>
    /\ IF left > 1 THEN left' = left - 1 /\ UNCHANGED <<out, bit>>
       ELSE IF bit < 9 THEN left' = CYCLE /\ bit' = bit + 1 /\ UNCHANGED out
       ELSE left' = CYCLE /\ bit' = 0 /\ out' = Tail(out)
    /\ UNCHANGED <<step, request, waiting>>

Wait ==
    /\ out = <<>>
    /\ waiting' = IF Answered THEN 0 ELSE waiting + 1
    /\ UNCHANGED <<step, request, out, bit, left>>

SampleDue == timer > 0 /\ timer % CYCLE = CYCLE \div 2
ByteHeard == SampleDue /\ Len(heard) = 9

Listen ==
    /\ timer' = IF timer = 0 THEN (IF o_uart_tx = 0 THEN 1 ELSE 0)
                ELSE IF ByteHeard THEN 0 ELSE timer + 1
    /\ heard' = IF timer = 0 THEN <<>>
                ELSE IF SampleDue THEN Append(heard, o_uart_tx) ELSE heard

Take == got' = IF ByteHeard THEN Append(got, Value(SubSeq(heard, 2, 9))) ELSE got

UartTopNext ==
    /\ Fpga(Line)
    /\ Listen
    /\ Send \/ NextRequest \/ (Shift /\ Take) \/ (Wait /\ Take)

UartTopSpec == UartTopInit /\ [][UartTopNext]_uartTopVars

-----------------------------------------------------------------------------
(* End to end over the wires: the words are acknowledged with 1, a poll is *)
(* answered 0 or 1, and a read brings the bytes of the result of this very *)
(* request, as the software defines it, and its latency.                   *)
Expected == Custom3(<<request[1], request[2]>>,
                    SubSeq(request, 5, 8), SubSeq(request, 9, 12))
                \o <<IF <<request[1], request[2]>> \in {OpSM3P0, OpSM3P1} THEN 3 ELSE 7>>

AnswersRight ==
    CASE step = 0 -> got = <<>>
      [] step \in 1 .. 3 -> got \in {<<>>, <<ACK>>}
      [] step = 4 -> got \in {<<>>, <<0>>, <<1>>}
      [] step = 5 -> Len(got) <= 5 /\ got = SubSeq(Expected, 1, Len(got))

(* Every answer is complete soon after the question has been sent: within  *)
(* its own frames and one bit more.                                        *)
AnswersInTime == waiting <= Need * 10 * CYCLE + CYCLE

(* A byte of a host that waits for its answers finds the core at rest: the *)
(* transmitter idle, nothing on offer, not in a state that would drop it.  *)
ByteFindsCoreReady ==
    o_rx_done = 1 =>
        /\ o_state_0 = 0 /\ o_data_valid = 0
        /\ state \notin {"TX_ONE", "TX_DATA", "RECV_INST"} /\ rx_byte_cnt < 12
=============================================================================
