------------------------------- MODULE TxLine -------------------------------
(***************************************************************************)
(* The transmitter of the FPGA between the port of nice_core, which holds  *)
(* a byte until it sees the busy signal, and the host's serial adapter.    *)
(* The adapter is not in the repository: it is an ideal receiver that sees *)
(* the falling edge of a start bit, samples every bit in its middle and    *)
(* listens again right after the sample of the stop bit.                   *)
(***************************************************************************)
EXTENDS UartTx

CONSTANT RECVCYCLE      \* transmitter clocks per bit of the host's receiver

ASSUME TxLineAssumption == RECVCYCLE \in Nat \ {0}

VARIABLES
    valid, data,    \* o_data_valid and o_data_tx of nice_core
    count,          \* state_count of nice_core
    unsent,         \* bytes put on offer and not yet received by the host
    heard,          \* bits the host has sampled of the current frame
    timer,          \* clocks since the falling edge, 0 while listening
    got,            \* the byte the host completes in this clock, or none
    high            \* clocks the line has been high, up to CYCLE

portVars == <<valid, data, count>>
hostVars == <<heard, timer, got>>
txLineVars == <<txVars, portVars, unsent, hostVars, high>>

TxLineInit ==
    /\ TxInit
    /\ valid = 0 /\ data = NoData /\ count = 0
    /\ unsent = <<>> /\ heard = <<>> /\ timer = 0 /\ got = <<>> /\ high = CYCLE

(* The port of nice_core: a byte may be offered when the transmitter is    *)
(* idle and none is on offer; the offer ends when the busy signal is seen. *)
PortOffer(d) ==
    /\ o_state_0 = 0 /\ count = 0
    /\ data' = d /\ valid' = 1 /\ count' = 1

PortWait ==
    /\ IF o_state_0 = 1 THEN valid' = 0 /\ count' = 0 ELSE UNCHANGED <<valid, count>>
    /\ UNCHANGED data

SampleDue == timer > 0 /\ timer % RECVCYCLE = RECVCYCLE \div 2
FrameBits == DATA_WIDTH + PARITY_ON + 2

(* The host's receiver.  The bits of a frame are start, data, parity, stop.*)
Listen == timer = 0 /\ timer' = (IF o_uart_tx = 0 THEN 1 ELSE 0) /\ heard' = <<>>

SampleBit ==
    /\ timer > 0
    /\ heard' = IF SampleDue THEN Append(heard, o_uart_tx) ELSE heard
    /\ timer' = IF SampleDue /\ Len(heard) + 1 = FrameBits THEN 0 ELSE timer + 1

FrameHeard == SampleDue /\ Len(heard) + 1 = FrameBits

HostClock ==
    /\ Listen \/ SampleBit
    /\ got' = IF FrameHeard THEN <<Append(heard, o_uart_tx)>> ELSE <<>>

(* The three in one clock: an offer is the next byte the host is to hear.  *)
TxLineClock ==
    /\ TxClock(valid, data)
    /\ HostClock
    /\ \/ \E d \in Data : PortOffer(d) /\ unsent' = Append(IF got = <<>> THEN unsent ELSE Tail(unsent), d)
       \/ PortWait /\ unsent' = IF got = <<>> THEN unsent ELSE Tail(unsent)

TxLineNext ==
    /\ TxLineClock
    /\ high' = IF o_uart_tx = 0 THEN 0 ELSE IF high < CYCLE THEN high + 1 ELSE high

TxLineSpec == TxLineInit /\ [][TxLineNext]_txLineVars

-----------------------------------------------------------------------------
ByteOf(frame) == SubSeq(frame, 2, DATA_WIDTH + 1)

(* The parity bit the code sends makes the count of ones even for          *)
(* PARITY_TYPE 1 and odd for 0.                                            *)
SentParity(d) == (Ones(d) + 1 - PARITY_TYPE) % 2

(* Every byte nice_core offers reaches the host once, in order and framed: *)
(* a frame the host completes carries the oldest byte not yet received,    *)
(* and its parity bit is that of this byte alone.                          *)
Received ==
    \A i \in DOMAIN got :
        /\ unsent # <<>> /\ ByteOf(got[i]) = Head(unsent)
        /\ got[i][1] = 0 /\ got[i][FrameBits] = 1
        /\ PARITY_ON = 1 => got[i][DATA_WIDTH + 2] = SentParity(Head(unsent))

(* The comment on the parameter: 1 is odd parity, 0 even parity.           *)
ParityDocumented ==
    \A i \in DOMAIN got :
        PARITY_ON = 1 => got[i][DATA_WIDTH + 2] = ParityBit(ByteOf(got[i]))

(* When nothing is on offer and the transmitter has long been idle, every  *)
(* byte offered has been received: the handshake loses none.               *)
AllHeard ==
    valid = 0 /\ o_state_0 = 0 /\ high = CYCLE /\ timer = 0 /\ got = <<>> => unsent = <<>>

(* A host that hears a byte may answer at once: by then the transmitter is *)
(* idle again or is already sending the next byte of a reply.              *)
IdleWhenHeard == got # <<>> /\ Len(unsent) = 1 /\ valid = 0 => o_state_0 = 0
=============================================================================
