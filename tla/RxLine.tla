------------------------------- MODULE RxLine -------------------------------
(***************************************************************************)
(* The receiver of the FPGA at the end of a serial line.  The other end is *)
(* the host's serial adapter, which is not in the repository: it is        *)
(* modelled from the settings the host gives it (set_dev: 8N1, 115200), as *)
(* an ideal transmitter of HOSTCYCLE receiver clocks per bit.  The line    *)
(* may also suffer low glitches while it is idle.                          *)
(***************************************************************************)
EXTENDS UartRx

CONSTANTS
    HOSTCYCLE,      \* receiver clocks per bit of the sender
    BURST,          \* bytes the sender may send without a pause
    QUIET,          \* clocks of pause after a burst or a glitch
    GLITCH          \* longest low glitch on the idle line, in clocks

ASSUME LineAssumption ==
    /\ HOSTCYCLE \in Nat \ {0} /\ BURST \in Nat \ {0}
    /\ QUIET \in Nat /\ GLITCH \in Nat

VARIABLES
    wire,           \* "idle", "frame" or "glitch"
    bit, left,      \* the bit of the frame on the wire, and its clocks left;
                    \* on an idle wire, the clocks left of the pause
    hdata, burst,   \* the byte on the wire, and how many since the last pause
    expected        \* bytes sent and not yet delivered

wireVars == <<wire, bit, left, hdata, burst>>
lineVars == <<rxVars, wireVars, expected>>

StopBit  == DATA_WIDTH + PARITY_ON + 1

Level ==
    CASE wire = "idle"   -> 1
      [] wire = "glitch" -> 0
      [] wire = "frame"  -> CASE bit = 0 -> 0
                              [] bit \in 1 .. DATA_WIDTH -> hdata[bit]
                              [] bit = StopBit -> 1
                              [] OTHER -> ParityBit(hdata)

LineInit ==
    /\ RxInit
    /\ wire = "idle" /\ bit = 0 /\ left = 0 /\ hdata = NoData /\ burst = 0
    /\ expected = <<>>

-----------------------------------------------------------------------------
(* The sender.  A frame starts on an idle wire after the pause, or, inside *)
(* a burst, at any time after the last stop bit.                           *)

FrameOver == wire = "frame" /\ bit = StopBit /\ left = 1

(* What nice_core takes from the receiver in this clock.                   *)
Undelivered == IF o_rx_done = 1 THEN Tail(expected) ELSE expected

StartFrame(d) ==
    /\ \/ wire = "idle" /\ left = 0 /\ burst' = 1
       \/ (wire = "idle" \/ FrameOver) /\ burst < BURST /\ burst' = burst + 1
    /\ wire' = "frame" /\ bit' = 0 /\ left' = HOSTCYCLE /\ hdata' = d
    /\ expected' = Append(Undelivered, d)

NextBit ==
    /\ wire = "frame" /\ bit < StopBit /\ left = 1
    /\ bit' = bit + 1 /\ left' = HOSTCYCLE
    /\ expected' = Undelivered
    /\ UNCHANGED <<wire, hdata, burst>>

Pause ==
    /\ FrameOver \/ (wire = "glitch" /\ left = 1)
    /\ wire' = "idle" /\ left' = QUIET /\ bit' = 0
    /\ expected' = Undelivered
    /\ UNCHANGED <<hdata, burst>>

StartGlitch ==
    /\ wire = "idle" /\ left = 0 /\ GLITCH > 0
    /\ wire' = "glitch" /\ left' \in 1 .. GLITCH
    /\ burst' = BURST          \* the next frame waits for the pause
    /\ expected' = Undelivered
    /\ UNCHANGED <<bit, hdata>>

Hold ==
    /\ left' = IF left > 0 THEN left - 1 ELSE 0
    /\ left > 1 \/ wire = "idle"
    /\ expected' = Undelivered
    /\ UNCHANGED <<wire, bit, hdata, burst>>

LineNext ==
    /\ RxClock(Level)
    /\ \/ \E d \in Data : StartFrame(d)
       \/ NextBit \/ Pause \/ StartGlitch \/ Hold

LineSpec == LineInit /\ [][LineNext]_lineVars

-----------------------------------------------------------------------------
(* Every clock with o_rx_done high hands nice_core one byte: it is the     *)
(* oldest byte sent and not yet delivered, unchanged, and only once, and a *)
(* glitch on the line delivers nothing.                                    *)
Delivered == o_rx_done = 1 => expected # <<>> /\ o_uart_data = Head(expected)

(* Once the line has been quiet for a pause, no byte is missing.           *)
NoneLost == wire = "idle" /\ left = 0 => expected = <<>>
=============================================================================
