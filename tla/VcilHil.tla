------------------------------ MODULE VcilHil -------------------------------
(***************************************************************************)
(* Hardware in the loop: a guest program on the virtual platform calls the *)
(* FPGA coprocessor.  The driver (sm3.h, sm4.h) writes five registers of   *)
(* Bridge_Socket_Uart, each followed by a look at addr_state; the bridge   *)
(* turns every write into a conversation over the serial port, and is      *)
(* blocking; the core is NiceCore, clock by clock.                         *)
(*                                                                         *)
(* The serial port, the adapter and the wires are external: bytes travel   *)
(* in order and take any time.  What a byte meets on its arrival at the    *)
(* core, and that a frame outlasts the handshake, is what UartTop shows of *)
(* the design on its wires.                                                *)
(***************************************************************************)
EXTENDS NiceCore, Sequences

CONSTANTS
    Calls,          \* the calls the guest makes: <<opcode, rs1, rs2>>
    CHUNKED,        \* the adapter may hand over part of an answer
    RESTARTS,       \* how often the platform may be killed and started again
    UNPLUGS         \* how often the adapter may vanish

ASSUME HilAssumption ==
    /\ Calls \subseteq Opcodes \X Word \X Word
    /\ CHUNKED \in BOOLEAN /\ RESTARTS \in Nat /\ UNPLUGS \in Nat

VARIABLES
    \* the driver, in guest memory
    pc, k,          \* "idle", "write", "check" or "fetch"; the register, 1..5
    call, rdata, result,
    \* Bridge_Socket_Uart
    bpc,            \* "none", "open", "send" or "await"
    br_state, read_buff,
    \* the tty, the adapter and the wires
    rxbuf, up, down, tx, plugged,
    faults,         \* restarts and unpluggings so far
    clk             \* flips with every edge of the FPGA's clock

drvVars  == <<pc, k, call, rdata, result>>
brVars   == <<bpc, br_state, read_buff>>
wireVars == <<rxbuf, up, down, tx>>
hilVars  == <<coreVars, drvVars, brVars, wireVars, plugged, faults, clk>>

NoByte == 256       \* tx: the transmitter is idle

HilInit ==
    /\ CoreInit
    /\ pc = "idle" /\ k = 1 /\ call \in Calls /\ rdata = 0 /\ result = Zero
    /\ bpc = "none" /\ br_state = 0 /\ read_buff = <<0, 0, 0, 0, 0>>
    /\ rxbuf = <<>> /\ up = <<>> /\ down = <<>> /\ tx = NoByte /\ plugged = TRUE
    /\ faults = [restart |-> 0, unplug |-> 0] /\ clk = 0

-----------------------------------------------------------------------------
(* The driver.  rdata is an uninitialised local: any value at the call.    *)

DrvCall ==
    /\ pc = "idle"
    /\ call' \in Calls /\ rdata' \in 0 .. 5
    /\ pc' = "write" /\ k' = 1
    /\ UNCHANGED <<result, brVars, wireVars, plugged>>

(* writeReg32: the bridge's b_transport runs before the write returns.     *)
DrvWrite ==
    /\ pc = "write" /\ bpc = "none"
    /\ bpc' = "open" /\ pc' = "check"
    /\ read_buff' = IF k = 4 THEN [read_buff EXCEPT ![1] = 0] ELSE read_buff
    /\ UNCHANGED <<k, call, rdata, result, br_state, wireVars, plugged>>

(* while(rdata != k) rdata = readReg32(addr_state)                         *)
DrvCheck ==
    /\ pc = "check" /\ bpc = "none" /\ rdata # k
    /\ rdata' = br_state
    /\ UNCHANGED <<pc, k, call, result, brVars, wireVars, plugged>>

DrvNext ==
    /\ pc = "check" /\ bpc = "none" /\ rdata = k
    /\ IF k < 5 THEN pc' = "write" /\ k' = k + 1 ELSE pc' = "fetch" /\ UNCHANGED k
    /\ UNCHANGED <<call, rdata, result, brVars, wireVars, plugged>>

(* readReg32(addr_y_out_0), the value the call returns; YOut_reversed with *)
(* the bytes in the other order.                                           *)
YOut_reversed == <<read_buff[4], read_buff[3], read_buff[2], read_buff[1]>>
YOut == <<read_buff[1], read_buff[2], read_buff[3], read_buff[4]>>

DrvReturn ==
    /\ pc = "fetch"
    /\ result' = YOut /\ pc' = "idle"
    /\ UNCHANGED <<k, call, rdata, brVars, wireVars, plugged>>

-----------------------------------------------------------------------------
(* The bridge: SM4_write of register k.                                    *)

WriteBuff ==
    CASE k = 1 -> <<call[1][1], call[1][2], 0, 0>>
      [] k = 2 -> call[2]
      [] k = 3 -> call[3]
      [] k = 4 -> <<POLL>>
      [] k = 5 -> <<READ>>

(* open_dev and set_dev: the flush drops what the tty holds.  Their        *)
(* results are ignored.                                                    *)
BrOpen ==
    /\ bpc = "open"
    /\ rxbuf' = <<>> /\ bpc' = "send"
    /\ UNCHANGED <<drvVars, br_state, read_buff, up, down, tx, plugged>>

BrSend ==
    /\ bpc = "send"
    /\ down' = IF plugged THEN down \o WriteBuff ELSE down
    /\ bpc' = "await"
    /\ UNCHANGED <<drvVars, br_state, read_buff, rxbuf, up, tx, plugged>>

(* The answer "not yet" is awaited again without another poll.             *)
Await_noRepoll(n) ==
    /\ bpc = "await"
    /\ read_buff' = [i \in 1 .. 5 |-> IF i <= n THEN rxbuf[i] ELSE read_buff[i]]
    /\ rxbuf' = SubSeq(rxbuf, n + 1, Len(rxbuf))
    /\ IF k = 4 /\ read_buff'[1] # 1
       THEN UNCHANGED <<bpc, br_state>>
       ELSE bpc' = "none" /\ br_state' = k
    /\ UNCHANGED <<drvVars, up, down, tx, plugged>>

(* read returned n bytes.  The poll register goes on until the answer is 1.*)
Await(n) ==
    /\ bpc = "await"
    /\ read_buff' = [i \in 1 .. 5 |-> IF i <= n THEN rxbuf[i] ELSE read_buff[i]]
    /\ rxbuf' = SubSeq(rxbuf, n + 1, Len(rxbuf))
    /\ IF k = 4 /\ read_buff'[1] # 1
       THEN bpc' = "send" /\ UNCHANGED br_state
       ELSE bpc' = "none" /\ br_state' = k
    /\ UNCHANGED <<drvVars, up, down, tx, plugged>>

ReadSize == IF k = 5 THEN 5 ELSE 1

(* A read that found nothing taken for an answer (nread >= 0).             *)
BrRead_nothing ==
    Await(IF Len(rxbuf) < ReadSize THEN Len(rxbuf) ELSE ReadSize)

BrRead ==
    /\ rxbuf # <<>>
    /\ Await(IF Len(rxbuf) < ReadSize THEN Len(rxbuf) ELSE ReadSize)

-----------------------------------------------------------------------------
(* The wires and the adapter.                                              *)

TxBusy == IF tx = NoByte THEN 0 ELSE 1

(* A byte that arrives at the core: during a frame of a reply, otherwise   *)
(* only with the transmitter at rest (UartTop, ByteFindsCoreReady).        *)
Arrives ==
    /\ down # <<>>
    /\ \/ state = "TX_DATA" /\ tx # NoByte
       \/ /\ tx = NoByte /\ o_data_valid = 0 /\ rx_byte_cnt < 12
          /\ state \notin {"TX_ONE", "TX_DATA", "RECV_INST"}

(* One clock of the core; the transmitter takes the byte on offer.         *)
FpgaClock ==
    /\ \/ Arrives /\ Clock(1, Head(down), TxBusy) /\ down' = Tail(down)
       \/ Clock(0, 0, TxBusy) /\ UNCHANGED down
    /\ tx' = IF tx = NoByte /\ o_data_valid = 1 THEN o_data_tx ELSE tx
    /\ clk' = 1 - clk
    /\ UNCHANGED <<drvVars, brVars, rxbuf, up, plugged, faults>>

FrameSent ==
    /\ tx # NoByte /\ o_data_valid = 0
    /\ up' = Append(up, tx) /\ tx' = NoByte
    /\ UNCHANGED <<drvVars, brVars, rxbuf, down, plugged>>

(* The adapter collects bytes and hands them over together once the line   *)
(* has been quiet for its latency timer, or, CHUNKED, at any time.         *)
LineQuiet == tx = NoByte /\ o_data_valid = 0 /\ state # "TX_DATA"

Deliver ==
    /\ up # <<>> /\ (~CHUNKED => LineQuiet)
    /\ rxbuf' = rxbuf \o up /\ up' = <<>>
    /\ UNCHANGED <<drvVars, brVars, down, tx, plugged>>

-----------------------------------------------------------------------------
(* Faults.                                                                 *)

(* The platform is killed and started again; in the middle of a call the   *)
(* operator resets the board as well and waits until the line is quiet.    *)
Restart ==
    /\ faults.restart < RESTARTS
    /\ faults' = [faults EXCEPT !.restart = @ + 1]
    /\ \/ pc = "idle" /\ UNCHANGED <<coreVars, up, down, tx>>
       \/ pc # "idle" /\ Reset /\ up' = <<>> /\ down' = <<>> /\ tx' = NoByte
    /\ pc' = "idle" /\ k' = 1 /\ rdata' = 0
    /\ bpc' = "none" /\ br_state' = 0 /\ read_buff' = <<0, 0, 0, 0, 0>>
    /\ rxbuf' = <<>>
    /\ UNCHANGED <<call, result, plugged, clk>>

(* The adapter vanishes, and what it holds with it.                        *)
Unplug ==
    /\ faults.unplug < UNPLUGS /\ plugged
    /\ faults' = [faults EXCEPT !.unplug = @ + 1]
    /\ plugged' = FALSE /\ up' = <<>> /\ down' = <<>> /\ rxbuf' = <<>>
    /\ UNCHANGED <<drvVars, brVars, tx>>

(* The read of a vanished device fails.  nread is unsigned, so -1 passes   *)
(* for a count of bytes, and nothing has been copied.                      *)
BrReadFails == ~plugged /\ Await(0) /\ UNCHANGED faults

Driver == DrvCheck \/ DrvNext \/ DrvReturn \/ DrvWrite
Bridge == BrOpen \/ BrSend \/ BrRead
Host   == (DrvCall \/ Driver \/ Bridge \/ FrameSent \/ Deliver) /\ UNCHANGED faults
NoClock == UNCHANGED <<coreVars, clk>>

HilNext == (Host /\ NoClock) \/ FpgaClock \/ Restart

(* ... and with an adapter that may vanish.                                *)
HilUnplugNext == HilNext \/ ((Unplug \/ BrReadFails) /\ NoClock)

(* A byte on the way to the core arrives: weak fairness of the clock edge  *)
(* that brings it, written with its guard.                                 *)
WireDelivers == []<>~Arrives \/ []<><<Len(down') < Len(down)>>_down

(* The platform's process runs, the wires and the adapter deliver, and the *)
(* board's oscillator does not stop.                                       *)
HilFairness ==
    /\ WF_<<drvVars, brVars, wireVars>>(Driver /\ NoClock /\ UNCHANGED faults)
    /\ WF_<<drvVars, brVars, wireVars>>(Bridge /\ NoClock /\ UNCHANGED faults)
    /\ WF_wireVars(FrameSent /\ NoClock /\ UNCHANGED faults)
    /\ WF_wireVars(Deliver /\ NoClock /\ UNCHANGED faults)
    /\ WireDelivers
    /\ []<><<clk' # clk>>_clk

HilSpec == HilInit /\ [][HilNext]_hilVars /\ HilFairness

HilUnplugSpec == HilInit /\ [][HilUnplugNext]_hilVars

-----------------------------------------------------------------------------
(* What the guest expects of each call.                                   *)
Operation == [c \in Calls |-> Custom3(c[1], c[2], c[3])]

Promise == INSTANCE CoprocCall WITH busy <- pc # "idle", None <- Zero, Value <- Operation

(* The whole chain, from the driver to the clock of the core, implements   *)
(* the driver's promise: a call returns the value of the operation it      *)
(* asked for, whatever calls and restarts came before.                     *)
KeepsPromise == Promise!Spec

(* ... and every call returns: no loop of the driver (while rdata # k) or  *)
(* of the bridge (while(1) read) waits for a byte that never comes.        *)
CallReturns == Promise!Returns

(* Host and core stay in step: when the bridge speaks, no byte of an       *)
(* earlier answer or question is left anywhere, and the core has counted   *)
(* exactly the words the bridge has sent.                                  *)
InStep ==
    bpc = "send" =>
        /\ rxbuf = <<>> /\ up = <<>> /\ down = <<>> /\ tx = NoByte
        /\ k \in 1 .. 3 => rx_byte_cnt = 4 * (k - 1)
        /\ k \in 4 .. 5 => state \notin {"TX_ONE", "TX_DATA"}

(* The value a call returns is the one of the operation it asked for       *)
(* (sm3.h, sm4.h: "Implements the P0 transformation function ..."): what   *)
(* the code does not keep when an answer comes in parts or the adapter     *)
(* vanishes.                                                               *)
ReturnsOperation ==
    [][DrvReturn => result' = Operation[call]]_hilVars
=============================================================================
