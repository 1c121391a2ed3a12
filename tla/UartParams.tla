----------------------------- MODULE UartParams -----------------------------
(* The parameters uart_rx.v and uart_tx.v share.                           *)
EXTENDS Naturals, Sequences, FiniteSets

CONSTANTS
    CYCLE,          \* clocks per bit: CLK_FRE * 1000000 / BAUD_RATE
    DATA_WIDTH,
    PARITY_ON,      \* 1: a parity bit follows the data
    PARITY_TYPE     \* 1: odd parity, 0: even parity

ASSUME UartAssumption ==
    /\ CYCLE \in Nat /\ CYCLE >= 4 /\ CYCLE < 2^16
    /\ DATA_WIDTH \in 1 .. 15
    /\ PARITY_ON \in {0, 1} /\ PARITY_TYPE \in {0, 1}

(* A datum is a sequence of bits, least significant first.                 *)
Data   == [1 .. DATA_WIDTH -> {0, 1}]
NoData == [i \in 1 .. DATA_WIDTH |-> 0]

(* The parity bit both files promise and the adapter of the host uses: it  *)
(* makes the count of ones odd (PARITY_TYPE 1) or even (0).                *)
Ones(d) == Cardinality({i \in DOMAIN d : d[i] = 1})
ParityBit(d) == (Ones(d) + PARITY_TYPE) % 2
=============================================================================
