------------------------------ MODULE MCChain -------------------------------
(* The way of one operation from the driver to the core and back, in four  *)
(* parts of growing length, each explored while the others rest:           *)
(*   "core": nice_core alone, with any busy signal and reset at any clock, *)
(*      and a line that carries any opcode byte, polls, reads, and two     *)
(*      values in one byte of each operand;                                *)
(*   "wired": nice_core and its transmitter, with SM3 requests, bytes that *)
(*      look like a poll or a read in every place, and short bits;         *)
(*   "uart_top": the design on its wires, with operands whose bytes are    *)
(*      long runs of zeros and of ones and alternating bits;               *)
(*   "hil": driver, bridge, serial port and core (as in MCVcilHil).        *)
(* Real exclusive or, and a stand-in for the substitution table.           *)
EXTENDS NiceTop, UartTop, MCVcilHil

VARIABLE part

CoreRxAt == [n \in 0 .. 12 |->
    CASE n = 0 -> {POLL, READ, 123}
      [] n = 1 -> {113, 114, 115, 116}
      [] n = 5 -> {1, 200}
      [] n = 10 -> {0, 93}
      [] OTHER -> {n}]

WiredRxAt == [n \in 0 .. 12 |->
    CASE n = 0 -> {POLL, READ, 123}
      [] n = 1 -> {113}
      [] OTHER -> {0}]

Wired == INSTANCE NiceTop WITH RxAt <- WiredRxAt, CYCLE <- 4

MCRequests == {
    <<123, 113, 0, 0, 0, 255, 85, 170, 0, 0, 0, 0>>,
    <<123, 114, 0, 0, 255, 255, 0, 1, 170, 85, 255, 255>>,
    <<123, 115, 0, 0, 170, 0, 127, 128, 1, 255, 128, 0>>,
    <<123, 116, 0, 0, 1, 128, 254, 127, 255, 0, 90, 165>>}

sendVars == <<txVars, pending, i_clk_sys>>
lineVars == <<rxVars, hostVars>>
softVars == <<drvVars, brVars, wireVars, plugged, faults, clk>>

ChainInit ==
    /\ part \in {"core", "wired", "uart_top", "hil"}
    /\ TopInit /\ UartTopInit /\ HilInit
    /\ part # "uart_top" => request = CHOOSE r \in Requests : TRUE
    /\ part # "hil" => call = CHOOSE c \in Calls : TRUE

ChainNext ==
    /\ UNCHANGED part
    /\ \/ part = "core" /\ CoreNext /\ UNCHANGED <<sendVars, lineVars, softVars>>
       \/ part = "wired" /\ Wired!TopNext /\ UNCHANGED <<lineVars, softVars>>
       \/ part = "uart_top" /\ UartTopNext /\ Observe /\ UNCHANGED <<i_clk_sys, softVars>>
       \/ part = "hil" /\ HilNext /\ UNCHANGED <<sendVars, lineVars>>

ChainSpec ==
    /\ ChainInit
    /\ [][ChainNext]_<<part, coreVars, sendVars, lineVars, softVars>>
    /\ part = "wired" => ClockRuns
    /\ part = "hil" => HilFairness

(* The core never stays in the states that send, if its port is answered.  *)
SendingEndsWired == part = "wired" => SendingEnds
=============================================================================
