--------------------------- MODULE NiceTop_proofs ----------------------------
(***************************************************************************)
(* The handshake of nice_core and uart_tx for every bit length, every      *)
(* operation and every byte the line brings at any clock: each byte the    *)
(* core offers is sent in one frame.                                       *)
(***************************************************************************)
EXTENDS NiceTop, NiceCore_proofs, UartTx_proofs

(* The phases of the handshake.  What is pending is what is on offer; the  *)
(* offer outlasts the clock in which the transmitter latches it, and is    *)
(* gone in every clock of the frame.                                       *)
HandshakeInv ==
    /\ pending = IF o_data_valid = 1 THEN <<o_data_tx>> ELSE <<>>
    /\ tx_baud_valid = 1 => o_state_0 = 1
    /\ tx_state # "IDLE" => o_state_0 = 1 /\ o_data_valid = 0
    /\ tx_state = "IDLE" /\ tx_baud_valid = 1 => o_data_valid = 1
    /\ tx_state = "IDLE" /\ tx_baud_valid = 0 /\ o_state_0 = 1 => o_data_valid = 0

TopInv == IInv /\ TxInv /\ HandshakeInv

(* The bits of a byte are a datum of the transmitter (uart_top.v:          *)
(* o_data_tx drives i_data_tx).                                            *)
LEMMA BitsType == ASSUME NEW b \in Byte PROVE Bits(b) \in Data
<1>1. \A i \in 1 .. 8 : Pow2[i] \in Nat \ {0}
    BY DEF Pow2
<1>2. \A n \in Nat : n % 2 \in {0, 1}
    OBVIOUS
<1>3. \A i \in 1 .. 8 : (b \div Pow2[i]) \in Nat
    BY <1>1 DEF Byte
<1> QED BY <1>2, <1>3, TopAssumption DEF Bits, Data

LEMMA TopInvInit == TopInit => TopInv
<1> SUFFICES ASSUME TopInit PROVE TopInv
    OBVIOUS
<1>1. IInv /\ TxInv
    BY InitInv, TxInvInit DEF TopInit
<1>2. HandshakeInv
    BY DEF TopInit, CoreInit, TxInit, HandshakeInv
<1> QED BY <1>1, <1>2 DEF TopInv

(* What a clock of the transmitter does to the signals of the handshake.   *)
LEMMA TxHandshake ==
    ASSUME TxInv, NEW v \in Bit, NEW b, TxClock(v, b)
    PROVE  /\ FrameStarts <=> tx_state = "IDLE" /\ tx_baud_valid = 1
           /\ tx_state = "IDLE" =>
                /\ o_state_0' = v
                /\ tx_baud_valid' = IF v = 1 THEN 1 ELSE tx_baud_valid
                /\ tx_state' = IF tx_baud_valid = 1 THEN "START" ELSE "IDLE"
                /\ v = 1 => r_data_tx' = b
           /\ tx_state # "IDLE" =>
                /\ o_state_0' = o_state_0
                /\ tx_baud_valid' = 1 => tx_baud_valid = 1 /\ tx_state' # "IDLE"
<1>1. /\ tx_baud_valid \in {0, 1} /\ tx_baud_pulse \in {0, 1} /\ tx_baud_cnt \in Nat
      /\ BaudInv /\ CountInv /\ TxMove
      /\ tx_state \in {"IDLE", "START", "DATA", "PARITY", "END"}
    BY HalfBit DEF TxInv, TxTypeOK, TxClock
<1>2. CASE tx_state = "IDLE"
    BY <1>1, <1>2
       DEF TxClock, TxIdle, TxStart, TxData, TxParity, TxEnd, TxMove, TxAfter, BaudInv,
           FrameStarts, Bit
<1>3. CASE tx_state \in {"START", "DATA", "PARITY"}
    BY <1>1, <1>3, HalfBit
       DEF TxClock, TxIdle, TxStart, TxData, TxParity, TxEnd, TxMove, TxAfter, BaudInv,
           FrameStarts
<1>4. CASE tx_state = "END"
    BY <1>1, <1>4, HalfBit DEF TxClock, TxIdle, TxStart, TxData, TxParity, TxEnd, TxMove,
           TxAfter, BaudInv, FrameStarts
<1> QED BY <1>1, <1>2, <1>3, <1>4

(* A frame starts for the byte on offer and takes it off the list; the     *)
(* core offers the next one only when the transmitter is at rest.          *)
LEMMA HandshakeStep ==
    ASSUME TopInv, NEW dv \in Bit, NEW d \in Byte, TopClock(dv, d)
    PROVE  /\ HandshakeInv'
           /\ FrameStarts => pending # <<>> /\ r_data_tx' = Bits(Head(pending))
<1>1. /\ o_data_valid \in Bit /\ o_data_valid' \in Bit
      /\ o_state_0 \in Bit /\ tx_baud_valid \in Bit /\ tx_baud_valid' \in Bit
      /\ o_data_tx \in Byte /\ IInv /\ TxInv /\ TxInv'
  <2>1. IInv' /\ TxInv'
      BY ClockInv, TxInvStep, BitsType DEF TopInv, TopClock, IInv, TypeOK, TxInv, TxTypeOK, Bit
  <2> QED BY <2>1 DEF TopInv, IInv, TypeOK, TxInv, TxTypeOK, Bit
<1>2. /\ o_state_0 = 1 => o_data_valid' = 0
      /\ o_state_0 = 0 /\ o_data_valid = 1 => o_data_valid' = 1 /\ UNCHANGED o_data_tx
    BY <1>1, PortStep DEF TopClock
<1>3. /\ FrameStarts <=> tx_state = "IDLE" /\ tx_baud_valid = 1
      /\ tx_state = "IDLE" =>
           /\ o_state_0' = o_data_valid
           /\ tx_baud_valid' = IF o_data_valid = 1 THEN 1 ELSE tx_baud_valid
           /\ tx_state' = IF tx_baud_valid = 1 THEN "START" ELSE "IDLE"
           /\ o_data_valid = 1 => r_data_tx' = Bits(o_data_tx)
      /\ tx_state # "IDLE" =>
           /\ o_state_0' = o_state_0
           /\ tx_baud_valid' = 1 => tx_baud_valid = 1 /\ tx_state' # "IDLE"
    BY <1>1, TxHandshake DEF TopClock
<1>4. HandshakeInv
    BY DEF TopInv
<1>5. FrameStarts => pending = <<o_data_tx>> /\ o_data_valid = 1
    BY <1>3, <1>4 DEF HandshakeInv
<1>6. pending' = IF o_data_valid' = 1 THEN <<o_data_tx'>> ELSE <<>>
  <2>1. CASE FrameStarts
      BY <1>1, <1>2, <1>3, <1>4, <1>5, <2>1 DEF TopClock, Observe, Offered, HandshakeInv, Bit
  <2>2. CASE ~FrameStarts /\ o_data_valid = 1
      BY <1>1, <1>2, <1>3, <1>4, <2>2 DEF TopClock, Observe, Offered, HandshakeInv, Bit
  <2>3. CASE ~FrameStarts /\ o_data_valid = 0
      BY <1>1, <1>2, <1>3, <1>4, <2>3 DEF TopClock, Observe, Offered, HandshakeInv, Bit
  <2> QED BY <1>1, <2>1, <2>2, <2>3 DEF Bit
<1>7. HandshakeInv'
    BY <1>1, <1>2, <1>3, <1>4, <1>6 DEF HandshakeInv, Bit
<1>8. FrameStarts => Head(pending) = o_data_tx /\ pending # <<>>
    BY <1>5
<1> QED BY <1>3, <1>5, <1>7, <1>8

LEMMA TopInvStep == TopInv /\ [TopNext]_topVars => TopInv'
<1> SUFFICES ASSUME TopInv, [TopNext]_topVars PROVE TopInv'
    OBVIOUS
<1>1. ASSUME NEW dv \in Bit, NEW d \in RxAt[rx_byte_cnt], TopClock(dv, d) PROVE TopInv'
  <2>1. /\ d \in Byte /\ o_state_0 \in Bit /\ o_data_tx \in Byte
        /\ IInv /\ TxInv
      BY RxAssumption DEF TopInv, IInv, TypeOK, TxInv, TxTypeOK, Bit
  <2>2. IInv'
      BY <1>1, <2>1, ClockInv DEF TopClock
  <2>3. TxInv'
      BY <1>1, <2>1, TxInvStep, BitsType DEF TopClock
  <2> QED BY <1>1, <2>1, <2>2, <2>3, HandshakeStep DEF TopInv
<1>2. CASE UNCHANGED topVars
  <2>1. UNCHANGED coreVars
      BY <1>2 DEF topVars
  <2>2. IInv'
      BY <2>1, InvStep DEF TopInv
  <2>3. TxInv' /\ HandshakeInv'
      BY <1>2 DEF topVars, coreVars, portVars, txVars, TopInv, TxInv, TxTypeOK, BaudInv,
                  CountInv, HandshakeInv
  <2> QED BY <2>2, <2>3 DEF TopInv
<1> QED BY <1>1, <1>2 DEF TopNext

(* NothingPending: a byte is never offered before the one before it is in  *)
(* a frame, and at rest none is left, for every bit length.                *)
THEOREM NothingStaysPending == TopSpec => []NothingPending
<1>1. TopInv => NothingPending
  <2> SUFFICES ASSUME TopInv PROVE NothingPending
      OBVIOUS
  <2>1. o_data_valid = state_count /\ HandshakeInv
      BY DEF TopInv, IInv
  <2> QED BY <2>1 DEF HandshakeInv, NothingPending
<1> QED BY <1>1, TopInvInit, TopInvStep, PTL DEF TopSpec

(* FramedOnce: a frame starts for the byte on offer only, and with its     *)
(* value, although the transmitter latches the data in two clocks.         *)
THEOREM EachByteFramedOnce == TopSpec => FramedOnce
<1>1. TopInv /\ [TopNext]_topVars
      => [FrameStarts => pending # <<>> /\ r_data_tx' = Bits(Head(pending))]_topVars
  <2> SUFFICES ASSUME TopInv, TopNext, FrameStarts
               PROVE  pending # <<>> /\ r_data_tx' = Bits(Head(pending))
      OBVIOUS
  <2>1. PICK dv \in Bit : \E d \in RxAt[rx_byte_cnt] : TopClock(dv, d)
      BY DEF TopNext
  <2>2. PICK d \in RxAt[rx_byte_cnt] : TopClock(dv, d)
      BY <2>1
  <2>3. d \in Byte
      BY RxAssumption DEF TopInv, IInv, TypeOK
  <2> QED BY <2>2, <2>3, HandshakeStep
<1> QED BY <1>1, TopInvInit, TopInvStep, PTL DEF TopSpec, FramedOnce
=============================================================================
