--------------------------- MODULE VcilHil_proofs ----------------------------
(***************************************************************************)
(* The chain from the guest's driver to the clock of the core keeps the    *)
(* driver's promise, for every set of calls, every exclusive or and        *)
(* substitution table and any number of restarts, if the adapter hands     *)
(* over its answers whole.                                                 *)
(***************************************************************************)
EXTENDS VcilHil, NiceCore_proofs, SequenceTheorems

-----------------------------------------------------------------------------
(* What is where in the chain.                                             *)

HilTypeOK ==
    /\ pc \in {"idle", "write", "check", "fetch"} /\ k \in 1 .. 5 /\ call \in Calls
    /\ bpc \in {"none", "open", "send", "await"}
    /\ read_buff \in [1 .. 5 -> Byte]
    /\ rxbuf \in Seq(Byte) /\ up \in Seq(Byte) /\ down \in Seq(Byte)
    /\ tx \in Byte \cup {NoByte}

(* The byte between the port of the core and the adapter, and with it all  *)
(* that is on the way back to the bridge, oldest first.                    *)
Held   == IF tx # NoByte THEN <<tx>> ELSE IF o_data_valid = 1 THEN <<o_data_tx>> ELSE <<>>
Answer == rxbuf \o up \o Held

(* The twelve bytes of the call, of which the core keeps ten: Taken(n)     *)
(* after n, at the end of its request register.                            *)
Request == <<call[1][1], call[1][2], 0, 0,
             call[2][1], call[2][2], call[2][3], call[2][4],
             call[3][1], call[3][2], call[3][3], call[3][4]>>
Taken(n) == IF n <= 2 THEN n ELSE IF n <= 4 THEN 2 ELSE n - 2
Place(m) == IF m <= 2 THEN m ELSE m + 2
Collected(n) == \A m \in 1 .. Taken(n) : nice_req_inst[10 - Taken(n) + m] = Request[Place(m)]

Calculating == state \in SM3States \cup SM4States
Loaded == opcode = call[1] /\ rs1 = call[2] /\ rs2 = call[3]

(* The core waits for question q of the bridge: for a word with the words  *)
(* before it collected, for a poll with the request in its register, on    *)
(* its way into the calculation or in it, for the read with the result.    *)
ReadyForWord(q) == state = "IDLE" /\ rx_byte_cnt = 4 * (q - 1) /\ Collected(4 * (q - 1))
ReadyForPoll ==
    /\ Loaded
    /\ \/ state \in {"IDLE", "RECV_INST"} /\ rx_byte_cnt = 12
       \/ Calculating /\ rx_byte_cnt = 0
ReadyForRead == Loaded /\ Calculating /\ calc_done = 1 /\ rx_byte_cnt = 0

Ready(q) ==
    /\ q \in 1 .. 3 => ReadyForWord(q)
    /\ q = 4 => ReadyForPoll
    /\ q = 5 => ReadyForRead

(* The question the bridge asks, or will ask next.                         *)
Question ==
    IF pc = "write" \/ (pc = "check" /\ bpc # "none") THEN k
    ELSE IF pc = "check" /\ k < 5 THEN k + 1
    ELSE 1

AtRest == Answer = <<>> /\ down = <<>> /\ Ready(Question)

-----------------------------------------------------------------------------
(* The invariant: the stages of each conversation.                         *)

(* A word: its bytes arrive, the core acknowledges, the answer is there.   *)
WordArrives ==
    /\ state = "IDLE" /\ Answer = <<>> /\ rx_byte_cnt \in 4 * (k - 1) .. 4 * k - 1
    /\ Collected(rx_byte_cnt) /\ Len(down) = 4 * k - rx_byte_cnt
    /\ \A m \in 1 .. Len(down) : down[m] = Request[rx_byte_cnt + m]
WordTaken ==
    /\ state = "TX_ONE" /\ down = <<>> /\ rx_byte_cnt = 4 * k /\ Collected(4 * k)
    /\ rxbuf = <<>> /\ up = <<>>
    /\ IF o_data_valid = 1 THEN Held = <<ACK>> ELSE Held = <<>>
WordAnswered == Ready(k + 1) /\ down = <<>> /\ o_data_valid = 0 /\ Answer = <<ACK>>

(* A poll: 1 is answered only when the result is there.                    *)
PollArrives == down = <<POLL>> /\ Answer = <<>> /\ ReadyForPoll
PollAnswered ==
    /\ down = <<>> /\ ReadyForPoll
    /\ \E b \in Bit : Answer = <<b>> /\ (b = 1 => ReadyForRead)

(* A read: five bytes come, of which the core has offered tx_byte_cnt.     *)
Expected == Custom3(call[1], call[2], call[3])
ReadArrives == down = <<READ>> /\ Answer = <<>> /\ ReadyForRead
Replying ==
    /\ state = "TX_DATA" /\ down = <<>> /\ rxbuf = <<>> /\ Loaded /\ rx_byte_cnt = 0
    /\ Len(Answer) = tx_byte_cnt
    /\ \A m \in 1 .. tx_byte_cnt : m <= 4 => Answer[m] = Expected[m]
Replied ==
    /\ ReadyForWord(1) /\ down = <<>> /\ Held = <<>>
    /\ rxbuf = <<>> \/ up = <<>>
    /\ Len(Answer) = 5 /\ \A m \in 1 .. 4 : Answer[m] = Expected[m]

Conversation ==
    /\ k \in 1 .. 3 => WordArrives \/ WordTaken \/ WordAnswered
    /\ k = 4 => PollArrives \/ PollAnswered
    /\ k = 5 => ReadArrives \/ Replying \/ Replied

(* The bridge has the value the call will return.                          *)
HasResult == pc = "fetch" \/ (pc = "check" /\ k = 5 /\ bpc = "none")

ChainInv ==
    /\ HilTypeOK /\ IInv /\ plugged
    /\ state # "TX_DATA" => tx_byte_cnt = 0
    /\ bpc # "none" => pc = "check"
    /\ IF bpc = "await" THEN Conversation ELSE AtRest
    /\ HasResult => \A m \in 1 .. 4 : read_buff[m] = Expected[m]

-----------------------------------------------------------------------------
(* Calls and answers.                                                      *)

LEMMA CallType ==
    ASSUME HilTypeOK
    PROVE  /\ call[1] \in Opcodes /\ call[2] \in Word /\ call[3] \in Word
           /\ \A m \in 1 .. 12 : Request[m] \in Byte
           /\ call[1] = <<call[1][1], call[1][2]>>
           /\ call[2] = <<call[2][1], call[2][2], call[2][3], call[2][4]>>
           /\ call[3] = <<call[3][1], call[3][2], call[3][3], call[3][4]>>
<1>1. call[1] \in Opcodes /\ call[2] \in Word /\ call[3] \in Word
    BY HilAssumption DEF HilTypeOK
<1>2. call[1] \in {OpSM3P0, OpSM3P1, OpSM4KS, OpSM4ED}
    BY <1>1 DEF Opcodes
<1>3. call[1] \in Byte \X Byte
    BY <1>2 DEF OpSM3P0, OpSM3P1, OpSM4KS, OpSM4ED, Byte
<1>4. /\ call[1][1] \in Byte /\ call[1][2] \in Byte /\ 0 \in Byte
      /\ \A m \in 1 .. 4 : call[2][m] \in Byte /\ call[3][m] \in Byte
  <2>1. call[1][1] \in Byte /\ call[1][2] \in Byte /\ 0 \in Byte
      BY <1>3 DEF Byte
  <2>2. ASSUME NEW w \in Word PROVE \A m \in 1 .. 4 : w[m] \in Byte
      BY DEF Word
  <2> QED BY <1>1, <2>1, <2>2
<1>5. \A m \in 1 .. 12 : Request[m] \in Byte
    BY <1>4 DEF Request
<1> QED BY <1>1, <1>3, <1>5 DEF Word

(* What the driver is to return is a word.                                 *)
LEMMA ExpectedType == ASSUME HilTypeOK PROVE Expected \in Word
<1>1. /\ call[2] \in Word /\ call[3] \in Word
      /\ call[1] \in {OpSM3P0, OpSM3P1, OpSM4KS, OpSM4ED}
    BY CallType DEF Opcodes
<1>2. \A n \in Amounts : Rotl32(call[2], n) \in Word
    BY <1>1, RotlType
<1>3. P0(call[2]) \in Word /\ P1(call[2]) \in Word
  <2>1. Rotl32(call[2], 9) \in Word /\ Rotl32(call[2], 17) \in Word
        /\ Rotl32(call[2], 15) \in Word /\ Rotl32(call[2], 23) \in Word
      BY <1>2 DEF Amounts
  <2> QED BY <1>1, <2>1, XorType DEF P0, P1
<1>4. SM4ks(call[2], call[3]) \in Word /\ SM4ed(call[2], call[3]) \in Word
  <2>1. SM4_LinearKS(SM4_Nonlinear(call[3])) \in Word
        /\ SM4_LinearED(SM4_Nonlinear(call[3])) \in Word
      BY <1>1, NonlinearType, LinearType
  <2> QED BY <1>1, <2>1, XorType DEF SM4ks, SM4ed
<1> QED BY <1>1, <1>3, <1>4, OpcodesDiffer DEF Expected, Custom3

LEMMA HeldType ==
    ASSUME HilTypeOK, TypeOK
    PROVE  /\ Held \in Seq(Byte) /\ Len(Held) <= 1
           /\ Held = <<>> <=> tx = NoByte /\ o_data_valid = 0
           /\ Answer \in Seq(Byte)
           /\ Len(Answer) = Len(rxbuf) + Len(up) + Len(Held)
           /\ Answer = <<>> <=> rxbuf = <<>> /\ up = <<>> /\ Held = <<>>
<1>1. /\ rxbuf \in Seq(Byte) /\ up \in Seq(Byte) /\ o_data_tx \in Byte /\ o_data_valid \in Bit
      /\ tx # NoByte => tx \in Byte
    BY DEF HilTypeOK, TypeOK
<1>2. /\ Held \in Seq(Byte) /\ Len(Held) <= 1
      /\ Held = <<>> <=> tx = NoByte /\ o_data_valid = 0
    BY <1>1 DEF Held, Bit
<1> DEFINE h == Held
<1> HIDE DEF h
<1>3. h \in Seq(Byte)
    BY <1>2 DEF h
<1>4. /\ rxbuf \o up \in Seq(Byte) /\ Len(rxbuf \o up) = Len(rxbuf) + Len(up)
      /\ rxbuf \o up = <<>> <=> rxbuf = <<>> /\ up = <<>>
    BY <1>1, ConcatProperties, EmptySeq
<1>5. /\ (rxbuf \o up) \o h \in Seq(Byte)
      /\ Len((rxbuf \o up) \o h) = Len(rxbuf) + Len(up) + Len(h)
    BY <1>3, <1>4, ConcatProperties
<1>6. (rxbuf \o up) \o h = <<>> <=> rxbuf \o up = <<>> /\ h = <<>>
    BY <1>3, <1>4, ConcatProperties, EmptySeq
<1> QED BY <1>2, <1>4, <1>5, <1>6 DEF Answer, h
-----------------------------------------------------------------------------
(* What one clock of the core does to the stage it is in.                  *)

(* The branches of the case statement by the state (nice_core.v:118-309).  *)
LEMMA BranchOfState ==
    ASSUME NEW dv, NEW d, NEW s0, Clock(dv, d, s0)
    PROVE  /\ state = "IDLE" => IdleByte(dv, d, s0) \/ IdleFull(dv, d, s0) \/ IdleWait(dv, d, s0)
           /\ state = "RECV_INST" => \/ StartSM3(dv, d, s0) \/ StartSM4(dv, d, s0)
                                     \/ RejectInst(dv, d, s0) \/ LeaveInst(dv, d, s0)
           /\ Calculating =>
                \/ Sm3Step1(dv, d, s0) \/ Sm3Step2(dv, d, s0) \/ Sm3Step3(dv, d, s0)
                \/ Sm4Step1(dv, d, s0) \/ Sm4Step2(dv, d, s0) \/ Sm4Step3(dv, d, s0)
           /\ state = "TX_DATA" => TxDataByte(s0) \/ TxDataEnd(s0) \/ TxDataWait(s0)
           /\ state = "TX_ONE" => TxOneSend(s0) \/ TxOneWait(s0)
BY DEF Calculating, SM3States, SM4States, Clock, IdleByte, IdleFull, IdleWait, StartSM3, StartSM4,
       RejectInst, LeaveInst, Sm3Step1, Sm3Step2, Sm3Step3, Sm4Step1, Sm4Step2, Sm4Step3,
       TxDataByte, TxDataEnd, TxDataWait, TxOneSend, TxOneWait

(* Bytes of a reply are counted in TX_DATA only.                           *)
LEMMA ReplyCount ==
    ASSUME NEW dv, NEW d, NEW s0, Clock(dv, d, s0),
           state # "TX_DATA" => tx_byte_cnt = 0
    PROVE  state' # "TX_DATA" => tx_byte_cnt' = 0
BY DEF Clock, IdleByte, IdleFull, IdleWait, StartSM3, StartSM4,
       RejectInst, LeaveInst, Sm3Step1, Sm3Step2, Sm3Step3, Sm4Step1, Sm4Step2, Sm4Step3,
       TxDataByte, TxDataEnd, TxDataWait, TxOneSend, TxOneWait

(* The request register is shifted by an arriving byte only.               *)
LEMMA RequestHeld ==
    ASSUME NEW dv, NEW d, NEW s0, Clock(dv, d, s0), ~IdleByte(dv, d, s0)
    PROVE  UNCHANGED nice_req_inst
BY DEF reqVars, Clock, IdleFull, IdleWait, StartSM3, StartSM4,
       RejectInst, LeaveInst, Sm3Step1, Sm3Step2, Sm3Step3, Sm4Step1, Sm4Step2, Sm4Step3,
       TxDataByte, TxDataEnd, TxDataWait, TxOneSend, TxOneWait

(* The stages of a computation, whether a poll arrives in this clock or no *)
(* byte: it goes on, and a finished one stays.                             *)
LEMMA CalcClock ==
    ASSUME IInv, Calculating, NEW dv, NEW d, NEW s0 \in Bit, Clock(dv, d, s0), d # READ \/ dv = 0
    PROVE  /\ Calculating' /\ UNCHANGED reqVars /\ Port(dv, d, s0)
           /\ calc_done = 1 => calc_done' = 1
<1> USE DEF SM3States, SM4States, Calculating, reqVars, calcVars, ReadTaken
<1>1. calc_done = 1 => state \in {"SM3_STEP3", "SM4_STEP3"}
    BY DEF IInv, Sm3Inv, Sm4Inv
<1>2. CASE Sm3Step1(dv, d, s0) \/ Sm3Step2(dv, d, s0) \/ Sm3Step3(dv, d, s0)
    BY <1>1, <1>2 DEF Sm3Step1, Sm3Step2, Sm3Step3
<1>3. CASE Sm4Step1(dv, d, s0) \/ Sm4Step2(dv, d, s0) \/ Sm4Step3(dv, d, s0)
    BY <1>1, <1>3 DEF Sm4Step1, Sm4Step2, Sm4Step3
<1> QED BY <1>2, <1>3, BranchOfState

(* A clock that brings no byte leaves the core ready for the question it   *)
(* waits for, and offers nothing.                                          *)
LEMMA QuietClock ==
    ASSUME HilTypeOK, IInv, NEW d, NEW s0 \in Bit, Clock(0, d, s0), UNCHANGED call,
           NEW q \in 1 .. 5, Ready(q)
    PROVE  Ready(q)' /\ (o_data_valid = 0 => o_data_valid' = 0)
<1>1. ASSUME Port(0, d, s0) PROVE o_data_valid = 0 => o_data_valid' = 0
    BY <1>1 DEF Port, PollAsked, Release, portVars
<1>2. CASE q \in 1 .. 3
  <2>1. ReadyForWord(q) /\ rx_byte_cnt < 12
      BY <1>2 DEF Ready, ReadyForWord
  <2>2. IdleWait(0, d, s0)
      BY <2>1, BranchOfState DEF ReadyForWord, IdleByte, IdleFull
  <2>3. Port(0, d, s0) /\ UNCHANGED <<state, nice_req_inst, rx_byte_cnt>>
      BY <2>2 DEF IdleWait, reqVars
  <2>4. ReadyForWord(q)'
      BY <2>1, <2>3 DEF ReadyForWord, Collected, Request
  <2> QED BY <1>1, <1>2, <2>3, <2>4 DEF Ready
<1>3. ASSUME UNCHANGED nice_req_inst, Loaded PROVE Loaded'
    BY <1>3, SameRequest DEF Loaded
<1>4. CASE q = 4
  <2>1. Loaded /\ opcode \in Opcodes
      BY <1>4, CallType DEF Ready, ReadyForPoll, Loaded
  <2>2. CASE state = "IDLE" /\ rx_byte_cnt = 12
    <3>1. IdleFull(0, d, s0)
        BY <2>2, BranchOfState DEF IdleByte, IdleWait
    <3> QED BY <1>1, <1>3, <1>4, <2>1, <2>2, <3>1 DEF IdleFull, reqVars, Ready, ReadyForPoll
  <2>3. CASE state = "RECV_INST" /\ rx_byte_cnt = 12
    <3>1. StartSM3(0, d, s0) \/ StartSM4(0, d, s0)
        BY <2>1, <2>3, BranchOfState
           DEF RejectInst, LeaveInst, Opcodes, custom3_sm3p0, custom3_sm3p1, custom3_sm4ks,
               custom3_sm4ed
    <3> QED BY <1>1, <1>3, <1>4, <2>1, <3>1
           DEF StartSM3, StartSM4, Ready, ReadyForPoll, Calculating, SM3States, SM4States
  <2>4. CASE Calculating /\ rx_byte_cnt = 0
      BY <1>1, <1>3, <1>4, <2>1, <2>4, CalcClock DEF Ready, ReadyForPoll, reqVars
  <2> QED BY <1>4, <2>2, <2>3, <2>4 DEF Ready, ReadyForPoll
<1>5. CASE q = 5
  <2>1. Loaded /\ Calculating /\ calc_done = 1 /\ rx_byte_cnt = 0
      BY <1>5 DEF Ready, ReadyForRead
  <2>2. Calculating' /\ UNCHANGED reqVars /\ Port(0, d, s0) /\ calc_done' = 1
      BY <2>1, CalcClock
  <2> QED BY <1>1, <1>3, <1>5, <2>1, <2>2 DEF Ready, ReadyForRead, reqVars
<1> QED BY <1>2, <1>4, <1>5

(* A byte of a word finds its place in the request register: the third and *)
(* fourth are dropped, every other one is shifted in (nice_core.v:128-137).*)
LEMMA CollectByte ==
    ASSUME HilTypeOK, IInv, NEW s0 \in Bit, UNCHANGED call, rx_byte_cnt < 12,
           Collected(rx_byte_cnt), IdleByte(1, Request[rx_byte_cnt + 1], s0)
    PROVE  Collected(rx_byte_cnt)' /\ rx_byte_cnt' = rx_byte_cnt + 1
<1> DEFINE n == rx_byte_cnt
           r == nice_req_inst
           w == Request
<1>1. n \in 0 .. 11 /\ n' = n + 1 /\ w' = w /\ r \in [1 .. 10 -> Byte]
    BY DEF IInv, TypeOK, IdleByte, Request
<1>2. \A m \in 1 .. Taken(n) : r[10 - Taken(n) + m] = w[Place(m)]
    BY DEF Collected
<1> SUFFICES \A m \in 1 .. Taken(n + 1) : r'[10 - Taken(n + 1) + m] = w[Place(m)]
    BY <1>1 DEF Collected
<1>3. CASE n \in {2, 3}
  <2>1. Taken(n + 1) = Taken(n) /\ r' = r
      BY <1>3 DEF Taken, IdleByte
  <2> QED BY <1>2, <2>1
<1>4. CASE n \notin {2, 3}
  <2>1. /\ Taken(n + 1) = Taken(n) + 1 /\ Place(Taken(n) + 1) = n + 1
        /\ Taken(n) \in 0 .. 9
      BY <1>1, <1>4 DEF Taken, Place
  <2>2. /\ \A m \in 1 .. 9 : r'[m] = r[m + 1]
        /\ r'[10] = w[n + 1]
      BY <1>4 DEF IdleByte
  <2> HIDE DEF n, r, w
  <2>3. ASSUME NEW m \in 1 .. Taken(n + 1) PROVE r'[10 - Taken(n + 1) + m] = w[Place(m)]
    <3>1. CASE m = Taken(n) + 1
        BY <2>1, <2>2, <3>1
    <3>2. CASE m \in 1 .. Taken(n)
      <4>1. 10 - Taken(n + 1) + m \in 1 .. 9 /\ 10 - Taken(n + 1) + m + 1 = 10 - Taken(n) + m
          BY <2>1, <3>2
      <4> QED BY <1>2, <2>2, <3>2, <4>1
    <3> QED BY <2>1, <3>1, <3>2
  <2> QED BY <2>3
<1> QED BY <1>3, <1>4

(* With twelve bytes collected the register holds the call.                *)
LEMMA CollectedAll ==
    ASSUME HilTypeOK, Collected(12)
    PROVE  Loaded
<1>1. \A m \in 1 .. 10 : nice_req_inst[m] = Request[Place(m)]
    BY DEF Collected, Taken
<1>2. /\ nice_req_inst[1] = call[1][1] /\ nice_req_inst[2] = call[1][2]
      /\ nice_req_inst[3] = call[2][1] /\ nice_req_inst[4] = call[2][2]
      /\ nice_req_inst[5] = call[2][3] /\ nice_req_inst[6] = call[2][4]
      /\ nice_req_inst[7] = call[3][1] /\ nice_req_inst[8] = call[3][2]
      /\ nice_req_inst[9] = call[3][3] /\ nice_req_inst[10] = call[3][4]
    BY <1>1 DEF Place, Request
<1> QED BY <1>2, CallType DEF Loaded, opcode, rs1, rs2

-----------------------------------------------------------------------------
(* What is on the way back to the bridge.                                  *)

(* The handshake hands each byte on: one that is held stays in the order   *)
(* of the answer until its frame is over, and nothing else comes in.       *)
LEMMA HeldStep ==
    ASSUME HilTypeOK, IInv, NEW dv, NEW d, Clock(dv, d, TxBusy),
           tx' = IF tx = NoByte /\ o_data_valid = 1 THEN o_data_tx ELSE tx
    PROVE  /\ tx' \in Byte \cup {NoByte} /\ TxBusy \in Bit
           /\ Held # <<>> => Held' = Held
           /\ Held = <<>> =>
                TxBusy = 0 /\ Held' = IF o_data_valid' = 1 THEN <<o_data_tx'>> ELSE <<>>
<1>1. /\ o_data_tx \in Byte /\ o_data_valid \in Bit /\ tx \in Byte \cup {NoByte}
      /\ TxBusy \in Bit /\ NoByte \notin Byte
    BY DEF HilTypeOK, IInv, TypeOK, TxBusy, Bit, NoByte, Byte
<1>2. /\ TxBusy = 1 => o_data_valid' = 0
      /\ TxBusy = 0 /\ o_data_valid = 1 => o_data_valid' = 1 /\ UNCHANGED o_data_tx
    BY <1>1, PortStep
<1>3. CASE tx # NoByte
    BY <1>1, <1>2, <1>3 DEF Held, TxBusy
<1>4. CASE tx = NoByte /\ o_data_valid = 1
    BY <1>1, <1>2, <1>4 DEF Held, TxBusy
<1>5. CASE tx = NoByte /\ o_data_valid = 0
    BY <1>1, <1>2, <1>5 DEF Held, TxBusy
<1> QED BY <1>1, <1>3, <1>4, <1>5 DEF Bit

(* The end of a frame and the adapter move bytes within the answer.        *)
LEMMA FrameKeepsAnswer ==
    ASSUME HilTypeOK, IInv, FrameSent, UNCHANGED coreVars
    PROVE  Answer' = Answer /\ HilTypeOK'
<1>1. /\ rxbuf \in Seq(Byte) /\ up \in Seq(Byte) /\ tx \in Byte /\ <<tx>> \in Seq(Byte)
      /\ up' = Append(up, tx) /\ rxbuf' = rxbuf
    BY DEF HilTypeOK, FrameSent, wireVars
<1>2. Held = <<tx>> /\ Held' = <<>>
    BY DEF FrameSent, Held, coreVars, portVars
<1>3. up' = up \o <<tx>> /\ up' \in Seq(Byte)
    BY <1>1, AppendIsConcat, AppendProperties
<1>4. (rxbuf \o up') \o <<>> = rxbuf \o up'
    BY <1>1, <1>3, ConcatProperties, ConcatEmptySeq
<1>5. rxbuf \o (up \o <<tx>>) = (rxbuf \o up) \o <<tx>>
    BY <1>1, ConcatAssociative
<1>6. Answer' = Answer
    BY <1>1, <1>2, <1>3, <1>4, <1>5 DEF Answer
<1> QED BY <1>3, <1>6 DEF HilTypeOK, FrameSent, drvVars, brVars

LEMMA DeliveryKeepsAnswer ==
    ASSUME HilTypeOK, IInv, Deliver, UNCHANGED coreVars
    PROVE  Answer' = Answer /\ HilTypeOK' /\ Held' = Held
<1>1. /\ rxbuf \in Seq(Byte) /\ up \in Seq(Byte) /\ <<>> \in Seq(Byte)
      /\ up' = <<>> /\ rxbuf' = rxbuf \o up
    BY DEF HilTypeOK, Deliver
<1>2. Held' = Held
    BY DEF Deliver, Held, coreVars, portVars
<1>3. rxbuf' \in Seq(Byte) /\ rxbuf' \o up' = rxbuf'
    BY <1>1, ConcatProperties, ConcatEmptySeq
<1>4. Answer' = Answer
    BY <1>1, <1>2, <1>3 DEF Answer
<1> QED BY <1>1, <1>2, <1>3, <1>4 DEF HilTypeOK, Deliver, drvVars, brVars

-----------------------------------------------------------------------------
(* One clock of the FPGA.                                                  *)

(* What every clock keeps, and what it does to the byte that is held.      *)
LEMMA ClockFrame ==
    ASSUME ChainInv, FpgaClock
    PROVE  /\ HilTypeOK' /\ IInv' /\ (state' # "TX_DATA" => tx_byte_cnt' = 0)
           /\ UNCHANGED <<pc, k, call, bpc, read_buff, rxbuf, up, plugged>>
           /\ \/ Clock(0, 0, TxBusy) /\ down' = down
              \/ Arrives /\ Clock(1, Head(down), TxBusy) /\ down' = Tail(down)
           /\ down = <<>> => Clock(0, 0, TxBusy) /\ down' = <<>>
           /\ TxBusy \in Bit
           /\ Held # <<>> => Held' = Held
           /\ Held = <<>> =>
                TxBusy = 0 /\ Held' = IF o_data_valid' = 1 THEN <<o_data_tx'>> ELSE <<>>
           /\ Held' = Held => Answer' = Answer
<1>1. /\ UNCHANGED <<pc, k, call, bpc, read_buff, rxbuf, up, plugged>>
      /\ tx' = IF tx = NoByte /\ o_data_valid = 1 THEN o_data_tx ELSE tx
      /\ HilTypeOK /\ IInv /\ (state # "TX_DATA" => tx_byte_cnt = 0)
    BY DEF FpgaClock, drvVars, brVars, ChainInv
<1>2. /\ \/ Clock(0, 0, TxBusy) /\ down' = down
         \/ Arrives /\ Clock(1, Head(down), TxBusy) /\ down' = Tail(down)
      /\ down = <<>> => Clock(0, 0, TxBusy) /\ down' = <<>>
    BY DEF FpgaClock, Arrives
<1>3. PICK dv \in Bit, d \in Byte : Clock(dv, d, TxBusy)
  <2>1. down \in Seq(Byte) /\ 0 \in Bit /\ 1 \in Bit /\ 0 \in Byte
      BY <1>1 DEF HilTypeOK, Bit, Byte
  <2>2. down # <<>> => Head(down) \in Byte
      BY <2>1
  <2> QED BY <1>2, <2>1, <2>2 DEF Arrives
<1>4. /\ tx' \in Byte \cup {NoByte} /\ TxBusy \in Bit
      /\ Held # <<>> => Held' = Held
      /\ Held = <<>> =>
           TxBusy = 0 /\ Held' = IF o_data_valid' = 1 THEN <<o_data_tx'>> ELSE <<>>
    BY <1>1, <1>3, HeldStep
<1>5. IInv' /\ (state' # "TX_DATA" => tx_byte_cnt' = 0)
    BY <1>1, <1>3, <1>4, ClockInv, ReplyCount
<1>6. down' \in Seq(Byte)
  <2>1. down \in Seq(Byte)
      BY <1>1 DEF HilTypeOK
  <2>2. down # <<>> => Tail(down) \in Seq(Byte)
      BY <2>1
  <2> QED BY <1>2, <2>1, <2>2 DEF Arrives
<1>7. HilTypeOK'
    BY <1>1, <1>4, <1>6 DEF HilTypeOK
<1>8. Held' = Held => Answer' = Answer
    BY <1>1 DEF Answer
<1> QED BY <1>1, <1>2, <1>4, <1>5, <1>7, <1>8

(* Between two bytes for the core nothing comes out of it.                 *)
LEMMA QuietStep ==
    ASSUME ChainInv, FpgaClock, Clock(0, 0, TxBusy), NEW q \in 1 .. 5, Ready(q)
    PROVE  Ready(q)' /\ Answer' = Answer /\ Held' = Held /\ (o_data_valid = 0 => o_data_valid' = 0)
<1>1. /\ TxBusy \in Bit /\ UNCHANGED call
      /\ Held # <<>> => Held' = Held
      /\ Held = <<>> => Held' = IF o_data_valid' = 1 THEN <<o_data_tx'>> ELSE <<>>
      /\ Held' = Held => Answer' = Answer
    BY ClockFrame
<1>2. HilTypeOK /\ IInv /\ TypeOK
    BY DEF ChainInv, IInv
<1>3. Ready(q)' /\ (o_data_valid = 0 => o_data_valid' = 0)
    BY <1>1, <1>2, QuietClock
<1>4. Held = <<>> => o_data_valid = 0
    BY <1>2, HeldType
<1> QED BY <1>1, <1>3, <1>4

LEMMA RestClock ==
    ASSUME ChainInv, FpgaClock, AtRest
    PROVE  AtRest'
<1>1. Question \in 1 .. 5
    BY DEF Question, ChainInv, HilTypeOK
<1>2. Clock(0, 0, TxBusy) /\ down' = <<>> /\ Question' = Question
    BY ClockFrame DEF AtRest, Question
<1>3. PICK q \in 1 .. 5 : q = Question
    BY <1>1
<1>4. Ready(q)' /\ Answer' = Answer
    BY <1>2, <1>3, QuietStep DEF AtRest
<1>5. Ready(Question)'
    BY <1>2, <1>3, <1>4 DEF Ready, ReadyForWord, Collected
<1> QED BY <1>2, <1>4, <1>5 DEF AtRest

(* A word on its way: a byte of it arrives, or none does.                  *)
LEMMA WordArrivesClock ==
    ASSUME ChainInv, FpgaClock, k \in 1 .. 3, WordArrives
    PROVE  (WordArrives \/ WordTaken)'
<1>1. HilTypeOK /\ IInv /\ TypeOK /\ ACK \in Byte
    BY DEF ChainInv, IInv, ACK, Byte
<1>2. /\ UNCHANGED <<k, call, rxbuf, up>> /\ TxBusy = 0
      /\ Held' = IF o_data_valid' = 1 THEN <<o_data_tx'>> ELSE <<>>
      /\ Held' = Held => Answer' = Answer
      /\ Held = <<>> /\ rxbuf = <<>> /\ up = <<>> /\ o_data_valid = 0
      /\ rx_byte_cnt \in 4 * (k - 1) .. 4 * k - 1 /\ rx_byte_cnt \in 0 .. 11
      /\ state = "IDLE" /\ Collected(rx_byte_cnt) /\ Len(down) = 4 * k - rx_byte_cnt
      /\ \A m \in 1 .. Len(down) : down[m] = Request[rx_byte_cnt + m]
      /\ down \in Seq(Byte) /\ Request' = Request
  <2>1. Held = <<>> /\ rxbuf = <<>> /\ up = <<>> /\ o_data_valid = 0
      BY <1>1, HeldType DEF WordArrives
  <2>2. UNCHANGED <<k, call, rxbuf, up>>
      BY ClockFrame
  <2>3. Request' = Request
      BY <2>2 DEF Request
  <2>4. /\ TxBusy = 0 /\ Held' = IF o_data_valid' = 1 THEN <<o_data_tx'>> ELSE <<>>
        /\ Held' = Held => Answer' = Answer
      BY <2>1, ClockFrame
  <2> QED BY <1>1, <2>1, <2>2, <2>3, <2>4 DEF WordArrives, HilTypeOK
<1>3. CASE Clock(0, 0, TxBusy) /\ down' = down
  <2>1. IdleWait(0, 0, 0)
      BY <1>2, <1>3, BranchOfState DEF IdleByte, IdleFull
  <2>2. /\ UNCHANGED <<state, nice_req_inst, rx_byte_cnt>> /\ o_data_valid' = 0
      BY <1>2, <2>1 DEF IdleWait, reqVars, Port, PollAsked, Release, portVars
  <2>3. Answer' = <<>>
      BY <1>2, <2>2 DEF WordArrives
  <2>4. Collected(rx_byte_cnt)'
      BY <1>2, <2>2 DEF Collected
  <2> QED BY <1>2, <1>3, <2>2, <2>3, <2>4 DEF WordArrives
<1>4. CASE Arrives /\ Clock(1, Head(down), TxBusy) /\ down' = Tail(down)
  <2>1. /\ down # <<>> /\ Head(down) = Request[rx_byte_cnt + 1]
        /\ Len(down') = Len(down) - 1 /\ \A m \in 1 .. Len(down') : down'[m] = down[m + 1]
        /\ Len(down) = 1 => down' = <<>>
      BY <1>2, <1>4 DEF Arrives
  <2>2. IdleByte(1, Request[rx_byte_cnt + 1], 0)
      BY <1>2, <1>4, <2>1, BranchOfState DEF IdleWait, IdleFull
  <2>3. Collected(rx_byte_cnt)' /\ rx_byte_cnt' = rx_byte_cnt + 1
      BY <1>1, <1>2, <2>2, CollectByte DEF Bit
  <2>4. /\ o_data_valid' = 0
        /\ state' = IF (rx_byte_cnt + 1) % 4 = 0 THEN "TX_ONE" ELSE "IDLE"
      BY <1>2, <2>2 DEF IdleByte, Port, PollAsked, Release, portVars
  <2>5. Answer' = <<>> /\ Held' = <<>>
      BY <1>2, <2>4 DEF WordArrives
  <2>6. CASE rx_byte_cnt = 4 * k - 1
    <3>1. state' = "TX_ONE" /\ rx_byte_cnt' = 4 * k' /\ down' = <<>>
        BY <1>2, <2>1, <2>3, <2>4, <2>6
    <3>2. Collected(4 * k)'
        BY <2>3, <3>1 DEF Collected
    <3> QED BY <1>2, <2>4, <2>5, <3>1, <3>2 DEF WordTaken
  <2>7. CASE rx_byte_cnt # 4 * k - 1
    <3>1. rx_byte_cnt' \in 4 * (k' - 1) .. 4 * k' - 1 /\ state' = "IDLE"
        BY <1>2, <2>3, <2>4, <2>7
    <3>2. Len(down') = 4 * k' - rx_byte_cnt'
        BY <1>2, <2>1, <2>3
    <3>3. \A m \in 1 .. Len(down') : down'[m] = Request'[rx_byte_cnt' + m]
        BY <1>2, <2>1, <2>3
    <3> QED BY <2>3, <2>5, <3>1, <3>2, <3>3 DEF WordArrives
  <2> QED BY <2>6, <2>7
<1> QED BY <1>3, <1>4, ClockFrame

(* The acknowledgement: offered, taken by the transmitter, and the core is *)
(* ready for the next word or, after the third, for the poll.              *)
LEMMA WordTakenClock ==
    ASSUME ChainInv, FpgaClock, k \in 1 .. 3, WordTaken
    PROVE  (WordTaken \/ WordAnswered)'
<1>1. HilTypeOK /\ IInv /\ TypeOK /\ o_data_valid = state_count
    BY DEF ChainInv, IInv
<1>2. /\ UNCHANGED <<k, call, rxbuf, up>> /\ TxBusy \in Bit
      /\ Clock(0, 0, TxBusy) /\ down' = <<>>
      /\ Held # <<>> => Held' = Held
      /\ Held = <<>> =>
           TxBusy = 0 /\ Held' = IF o_data_valid' = 1 THEN <<o_data_tx'>> ELSE <<>>
      /\ rxbuf = <<>> /\ up = <<>> /\ rx_byte_cnt = 4 * k /\ Collected(4 * k)
      /\ IF o_data_valid = 1 THEN Held = <<ACK>> ELSE Held = <<>>
      /\ Request' = Request
    BY ClockFrame DEF WordTaken, Request
<1>3. Collected(4 * k)' /\ rx_byte_cnt' = 4 * k'
  <2>1. UNCHANGED <<nice_req_inst, rx_byte_cnt>>
      BY <1>2, BranchOfState DEF WordTaken, TxOneSend, TxOneWait, reqVars
  <2> QED BY <1>2, <2>1 DEF Collected
<1>4. CASE TxOneSend(TxBusy)
    BY <1>1, <1>2, <1>3, <1>4 DEF TxOneSend, Offer, WordTaken
<1>5. CASE TxOneWait(TxBusy) /\ TxBusy = 0
  <2>1. UNCHANGED portVars /\ state' = "TX_ONE" /\ o_data_valid = 1
      BY <1>1, <1>5 DEF TxOneWait, Release, WordTaken, TypeOK, Bit
  <2> QED BY <1>2, <1>3, <2>1 DEF WordTaken, portVars
<1>6. CASE TxOneWait(TxBusy) /\ TxBusy = 1
  <2>1. /\ state' = "IDLE" /\ o_data_valid' = 0 /\ Held = <<ACK>> /\ Held' = <<ACK>>
      BY <1>2, <1>6 DEF TxOneWait, Release
  <2>2. Answer' = <<ACK>>
    <3>1. <<ACK>> \in Seq(Byte) /\ <<>> \in Seq(Byte)
        BY DEF ACK, Byte
    <3>2. (<<>> \o <<>>) \o <<ACK>> = <<ACK>>
        BY <3>1, ConcatEmptySeq
    <3> QED BY <1>2, <2>1, <3>2 DEF Answer
  <2>3. PICK q \in 1 .. 3 : q = k
      OBVIOUS
  <2>4. Ready(q + 1)'
    <3>1. CASE q \in 1 .. 2
        BY <1>2, <1>3, <2>1, <2>3, <3>1 DEF Ready, ReadyForWord, Collected
    <3>2. CASE q = 3
      <4>1. HilTypeOK' /\ Collected(12)'
          BY <1>3, <2>3, <3>2, ClockFrame DEF Collected
      <4>2. HilTypeOK' /\ Collected(12)' => Loaded'
          BY CollectedAll, PTL
      <4> QED BY <1>2, <1>3, <2>1, <2>3, <3>2, <4>1, <4>2 DEF Ready, ReadyForPoll
    <3> QED BY <3>1, <3>2
  <2>5. Ready(k + 1)'
      BY <1>2, <2>3, <2>4 DEF Ready, ReadyForWord, Collected
  <2> QED BY <1>2, <2>1, <2>2, <2>5 DEF WordAnswered
<1> QED BY <1>2, <1>4, <1>5, <1>6, BranchOfState DEF WordTaken, Bit

LEMMA WordAnsweredClock ==
    ASSUME ChainInv, FpgaClock, k \in 1 .. 3, WordAnswered
    PROVE  WordAnswered'
<1>1. PICK q \in 2 .. 4 : q = k + 1
    OBVIOUS
<1>2. UNCHANGED k /\ Clock(0, 0, TxBusy) /\ down' = <<>>
    BY ClockFrame DEF WordAnswered
<1>3. Ready(q)' /\ Answer' = Answer /\ o_data_valid' = 0
    BY <1>1, <1>2, QuietStep DEF WordAnswered
<1>4. Ready(k + 1)'
    BY <1>1, <1>2, <1>3 DEF Ready, ReadyForWord, Collected
<1> QED BY <1>2, <1>3, <1>4 DEF WordAnswered

(* A poll arrives during the calculation and is answered at once.          *)
LEMMA PollArrivesClock ==
    ASSUME ChainInv, FpgaClock, k = 4, PollArrives
    PROVE  (PollArrives \/ PollAnswered)'
<1>1. HilTypeOK /\ IInv /\ TypeOK /\ o_data_valid = state_count /\ Ready(4)
    BY DEF ChainInv, IInv, PollArrives, Ready
<1>2. /\ UNCHANGED <<k, call, rxbuf, up>> /\ TxBusy = 0
      /\ Held' = IF o_data_valid' = 1 THEN <<o_data_tx'>> ELSE <<>>
      /\ Held = <<>> /\ rxbuf = <<>> /\ up = <<>> /\ o_data_valid = 0
  <2>1. Held = <<>> /\ rxbuf = <<>> /\ up = <<>> /\ o_data_valid = 0
      BY <1>1, HeldType DEF PollArrives
  <2> QED BY <2>1, ClockFrame
<1>3. CASE Clock(0, 0, TxBusy) /\ down' = down
  <2>1. Ready(4)' /\ Answer' = Answer
      BY <1>1, <1>3, QuietStep
  <2> QED BY <1>3, <2>1 DEF Ready, PollArrives
<1>4. CASE Arrives /\ Clock(1, Head(down), TxBusy) /\ down' = Tail(down)
  <2>1. Clock(1, POLL, 0) /\ down' = <<>>
      BY <1>2, <1>4 DEF PollArrives
  <2>2. Calculating /\ Loaded /\ rx_byte_cnt = 0
      BY <1>2, <1>4 DEF PollArrives, ReadyForPoll, Arrives, Calculating
  <2>3. /\ Calculating' /\ UNCHANGED reqVars /\ Port(1, POLL, 0)
        /\ calc_done = 1 => calc_done' = 1
      BY <1>1, <2>1, <2>2, CalcClock DEF POLL, READ, Bit
  <2>4. Loaded' /\ rx_byte_cnt' = 0
      BY <1>2, <2>2, <2>3, SameRequest DEF Loaded, reqVars
  <2>5. o_data_valid' = 1 /\ o_data_tx' = calc_done
      BY <1>1, <1>2, <2>2, <2>3
         DEF Port, PollAsked, Offer, Calculating, SM3States, SM4States
  <2>6. Answer' = <<calc_done>>
    <3>1. <<calc_done>> \in Seq(Byte) /\ <<>> \in Seq(Byte)
        BY <1>1 DEF TypeOK, Bit, Byte
    <3>2. (<<>> \o <<>>) \o <<calc_done>> = <<calc_done>>
        BY <3>1, ConcatEmptySeq
    <3> QED BY <1>2, <2>5, <3>2 DEF Answer
  <2> QED BY <1>1, <2>1, <2>3, <2>4, <2>6
         DEF PollAnswered, ReadyForPoll, ReadyForRead, TypeOK
<1> QED BY <1>3, <1>4, ClockFrame

LEMMA PollAnsweredClock ==
    ASSUME ChainInv, FpgaClock, k = 4, PollAnswered
    PROVE  PollAnswered'
<1>1. PICK b \in Bit : Answer = <<b>> /\ (b = 1 => ReadyForRead)
    BY DEF PollAnswered
<1>2. Clock(0, 0, TxBusy) /\ down' = <<>>
    BY ClockFrame DEF PollAnswered
<1>3. Ready(4)' /\ Answer' = Answer
    BY <1>2, QuietStep DEF PollAnswered, Ready
<1>4. b = 1 => Ready(5)'
    BY <1>1, <1>2, QuietStep DEF Ready
<1> QED BY <1>1, <1>2, <1>3, <1>4 DEF PollAnswered, Ready

(* The read arrives with the result in place.                              *)
LEMMA ReadArrivesClock ==
    ASSUME ChainInv, FpgaClock, k = 5, ReadArrives
    PROVE  (ReadArrives \/ Replying)'
<1>1. HilTypeOK /\ IInv /\ TypeOK /\ o_data_valid = state_count /\ Ready(5)
    BY DEF ChainInv, IInv, ReadArrives, Ready
<1>2. Held = <<>> /\ rxbuf = <<>> /\ up = <<>> /\ o_data_valid = 0
    BY <1>1, HeldType DEF ReadArrives
<1>3. /\ UNCHANGED <<k, call, rxbuf, up>> /\ TxBusy = 0
      /\ Held' = IF o_data_valid' = 1 THEN <<o_data_tx'>> ELSE <<>>
      /\ Held' = Held => Answer' = Answer
    BY <1>2, ClockFrame
<1>4. CASE Clock(0, 0, TxBusy) /\ down' = down
  <2>1. Ready(5)' /\ Answer' = Answer
      BY <1>1, <1>4, QuietStep
  <2> QED BY <1>4, <2>1 DEF Ready, ReadArrives
<1>5. CASE Arrives /\ Clock(1, Head(down), TxBusy) /\ down' = Tail(down)
  <2>1. Clock(1, READ, 0) /\ down' = <<>>
      BY <1>3, <1>5 DEF ReadArrives
  <2>2. Calculating /\ Loaded /\ rx_byte_cnt = 0 /\ calc_done = 1
      BY DEF ReadArrives, ReadyForRead
  <2>3. state \in {"SM3_STEP3", "SM4_STEP3"} /\ tx_byte_cnt = 0
      BY <1>1, <2>2 DEF Calculating, IInv, Sm3Inv, Sm4Inv, SM3States, SM4States, ChainInv
  <2>4. Sm3Step3(1, READ, 0) \/ Sm4Step3(1, READ, 0)
      BY <2>1, <2>2, <2>3, BranchOfState
         DEF Sm3Step1, Sm3Step2, Sm4Step1, Sm4Step2
  <2>5. /\ state' = "TX_DATA" /\ UNCHANGED reqVars /\ tx_byte_cnt' = 0
        /\ Port(1, READ, 0)
      BY <2>2, <2>3, <2>4 DEF Sm3Step3, Sm4Step3, ReadTaken
  <2>6. o_data_valid' = 0
      BY <1>2, <2>5 DEF Port, PollAsked, POLL, READ, Release, portVars
  <2>7. Loaded' /\ rx_byte_cnt' = 0
      BY <1>3, <2>2, <2>5, SameRequest DEF Loaded, reqVars
  <2>8. Answer' = <<>>
      BY <1>2, <1>3, <2>6 DEF ReadArrives
  <2> QED BY <1>2, <1>3, <2>1, <2>5, <2>7, <2>8 DEF Replying
<1> QED BY <1>4, <1>5, ClockFrame

(* The reply: each byte the core offers is the next one of the result, and *)
(* after the fifth it is ready for the next call.                          *)
LEMMA ReplyingClock ==
    ASSUME ChainInv, FpgaClock, k = 5, Replying
    PROVE  (Replying \/ Replied)'
<1>1. HilTypeOK /\ IInv /\ TypeOK /\ o_data_valid = state_count
    BY DEF ChainInv, IInv
<1>2. /\ UNCHANGED <<k, call, rxbuf, up>> /\ TxBusy \in Bit
      /\ Clock(0, 0, TxBusy) /\ down' = <<>>
      /\ Held # <<>> => Held' = Held
      /\ Held = <<>> =>
           TxBusy = 0 /\ Held' = IF o_data_valid' = 1 THEN <<o_data_tx'>> ELSE <<>>
      /\ Held' = Held => Answer' = Answer
      /\ rxbuf = <<>> /\ tx_byte_cnt \in 0 .. 5
    BY <1>1, ClockFrame DEF Replying, TypeOK
<1>3. Expected' = Expected
    BY <1>2 DEF Expected
<1>4. ASSUME UNCHANGED nice_req_inst PROVE Loaded'
    BY <1>2, <1>4, SameRequest DEF Replying, Loaded
<1>5. CASE TxDataByte(TxBusy)
  <2> DEFINE a == rxbuf \o up
             x == ReplyByte(tx_byte_cnt)
  <2>1. Held = <<>> /\ tx_byte_cnt \in 0 .. 4
      BY <1>1, <1>2, <1>5 DEF TxDataByte, Held, TxBusy
  <2>2. Held' = <<x>> /\ a' = a
      BY <1>2, <1>5, <2>1 DEF TxDataByte, Offer
  <2>3. x \in Byte /\ (tx_byte_cnt < 4 => x = Expected[tx_byte_cnt + 1])
    <3>1. calc_result = Expected
        BY <1>1 DEF IInv, ReplyInv, ReplyReady, Replying, Loaded, Expected
    <3>2. cycle_counter \in Byte /\ \A m \in 1 .. 4 : calc_result[m] \in Byte
        BY <1>1 DEF TypeOK, Word
    <3> QED BY <1>2, <3>1, <3>2 DEF ReplyByte
  <2>4. a \in Seq(Byte) /\ Answer = a /\ Answer' = a \o <<x>>
    <3>1. a \in Seq(Byte)
        BY <1>1, ConcatProperties DEF HilTypeOK
    <3>2. a \o <<>> = a
        BY <3>1, ConcatEmptySeq
    <3> QED BY <2>1, <2>2, <3>1, <3>2 DEF Answer
  <2>5. Len(a) = tx_byte_cnt /\ \A m \in 1 .. tx_byte_cnt : m <= 4 => a[m] = Expected[m]
      BY <2>4 DEF Replying
  <2> HIDE DEF a, x
  <2>6. /\ Len(a \o <<x>>) = tx_byte_cnt + 1
        /\ \A m \in 1 .. tx_byte_cnt : (a \o <<x>>)[m] = a[m]
        /\ (a \o <<x>>)[tx_byte_cnt + 1] = x
    <3>1. <<x>> \in Seq(Byte) /\ Len(<<x>>) = 1 /\ <<x>>[1] = x
        BY <2>3
    <3> QED BY <1>2, <2>4, <2>5, <3>1, ConcatProperties
  <2>7. tx_byte_cnt' = tx_byte_cnt + 1 /\ state' = "TX_DATA" /\ UNCHANGED reqVars
      BY <1>5 DEF TxDataByte, Replying
  <2>8. \A m \in 1 .. tx_byte_cnt' : m <= 4 => Answer'[m] = Expected'[m]
      BY <1>2, <1>3, <2>3, <2>4, <2>5, <2>6, <2>7
  <2>9. Len(Answer') = tx_byte_cnt'
      BY <2>4, <2>6, <2>7
  <2> QED BY <1>2, <1>4, <2>7, <2>8, <2>9 DEF Replying, reqVars
<1>6. CASE TxDataEnd(TxBusy)
  <2>1. Held = <<>> /\ o_data_valid' = 0 /\ tx_byte_cnt = 5
      BY <1>1, <1>2, <1>6 DEF TxDataEnd, Held, TxBusy
  <2>2. Held' = <<>> /\ Answer' = Answer
      BY <1>2, <2>1
  <2>3. state' = "IDLE" /\ rx_byte_cnt' = 0
      BY <1>6 DEF TxDataEnd, Replying, reqVars
  <2>4. Collected(4 * (1 - 1))'
      BY DEF Collected, Taken
  <2>5. ReadyForWord(1)'
      BY <2>3, <2>4 DEF ReadyForWord
  <2> QED BY <1>2, <1>3, <2>1, <2>2, <2>5 DEF Replying, Replied
<1>7. CASE TxDataWait(TxBusy)
  <2>1. Held # <<>>
      BY <1>1, <1>2, <1>7, HeldType DEF TxDataWait
  <2> QED BY <1>2, <1>3, <1>4, <1>7, <2>1 DEF TxDataWait, Replying, reqVars
<1> QED BY <1>2, <1>5, <1>6, <1>7, BranchOfState DEF Replying

LEMMA RepliedClock ==
    ASSUME ChainInv, FpgaClock, k = 5, Replied
    PROVE  Replied'
<1>1. Clock(0, 0, TxBusy) /\ down' = <<>> /\ UNCHANGED <<call, rxbuf, up>>
    BY ClockFrame DEF Replied
<1>2. Ready(1)' /\ Answer' = Answer /\ Held' = Held
    BY <1>1, QuietStep DEF Replied, Ready, ReadyForRead, ReadyForPoll
<1>3. Expected' = Expected
    BY <1>1 DEF Expected
<1> QED BY <1>1, <1>2, <1>3 DEF Replied, Ready

(* The whole invariant through one clock.                                  *)
LEMMA ChainClock == ChainInv /\ FpgaClock => ChainInv'
<1> SUFFICES ASSUME ChainInv, FpgaClock PROVE ChainInv'
    OBVIOUS
<1>1. /\ HilTypeOK' /\ IInv' /\ (state' # "TX_DATA" => tx_byte_cnt' = 0)
      /\ UNCHANGED <<pc, k, call, bpc, read_buff, plugged>>
    BY ClockFrame
<1>2. k \in 1 .. 5
    BY DEF ChainInv, HilTypeOK
<1>3. ASSUME bpc = "await" PROVE Conversation'
  <2>1. CASE k \in 1 .. 3
    <3>1. WordArrives \/ WordTaken \/ WordAnswered
        BY <1>3, <2>1 DEF ChainInv, Conversation
    <3>2. (WordArrives \/ WordTaken \/ WordAnswered)'
        BY <2>1, <3>1, WordArrivesClock, WordTakenClock, WordAnsweredClock
    <3> QED BY <1>1, <2>1, <3>2 DEF Conversation
  <2>2. CASE k = 4
      BY <1>1, <1>3, <2>2, PollArrivesClock, PollAnsweredClock DEF ChainInv, Conversation
  <2>3. CASE k = 5
      BY <1>1, <1>3, <2>3, ReadArrivesClock, ReplyingClock, RepliedClock
         DEF ChainInv, Conversation
  <2> QED BY <1>2, <2>1, <2>2, <2>3
<1>4. ASSUME bpc # "await" PROVE AtRest'
    BY <1>4, RestClock DEF ChainInv
<1>5. HasResult' = HasResult /\ Expected' = Expected
    BY <1>1 DEF HasResult, Expected
<1> QED BY <1>1, <1>3, <1>4, <1>5 DEF ChainInv

-----------------------------------------------------------------------------
(* The steps of the driver, the bridge and the adapter.                    *)

LEMMA ChainInit == HilInit => ChainInv
<1> SUFFICES ASSUME HilInit PROVE ChainInv
    OBVIOUS
<1>1. IInv
    BY InitInv DEF HilInit
<1>2. <<0, 0, 0, 0, 0>> \in [1 .. 5 -> Byte] /\ <<>> \in Seq(Byte)
    BY DEF Byte
<1>3. HilTypeOK
    BY <1>2 DEF HilInit, HilTypeOK
<1>4. Held = <<>> /\ Answer = <<>>
  <2>1. (<<>> \o <<>>) \o <<>> = <<>>
      BY <1>2, ConcatEmptySeq
  <2> QED BY <2>1 DEF HilInit, CoreInit, Held, Answer
<1>5. Ready(1)
    BY DEF HilInit, CoreInit, Ready, ReadyForWord, Collected, Taken
<1>6. AtRest /\ (state # "TX_DATA" => tx_byte_cnt = 0)
    BY <1>4, <1>5 DEF AtRest, Question, HilInit, CoreInit
<1> QED BY <1>1, <1>3, <1>6 DEF ChainInv, HasResult, HilInit

(* While the core does not move, what it waits for stays the same.         *)
LEMMA SameStage ==
    ASSUME UNCHANGED coreVars, UNCHANGED call, NEW q
    PROVE  /\ Ready(q)' <=> Ready(q)
           /\ ReadyForPoll' <=> ReadyForPoll
           /\ ReadyForRead' <=> ReadyForRead
           /\ Loaded' <=> Loaded
           /\ Expected' = Expected /\ Request' = Request
           /\ Collected(rx_byte_cnt)' <=> Collected(rx_byte_cnt)
           /\ UNCHANGED <<state, rx_byte_cnt, tx_byte_cnt, o_data_valid, o_data_tx>>
<1>1. /\ UNCHANGED <<state, nice_req_inst, rx_byte_cnt, tx_byte_cnt, o_data_valid,
                     o_data_tx, calc_done>>
    BY DEF coreVars, reqVars, portVars, calcVars
<1>2. Request' = Request /\ Expected' = Expected
    BY DEF Request, Expected
<1>3. Loaded' <=> Loaded
    BY <1>1, SameRequest DEF Loaded
<1>4. /\ ReadyForPoll' <=> ReadyForPoll
      /\ ReadyForRead' <=> ReadyForRead
    BY <1>1, <1>3 DEF ReadyForPoll, ReadyForRead, Calculating
<1>5. \A n : Collected(n)' <=> Collected(n)
    BY <1>1, <1>2 DEF Collected
<1>6. Collected(rx_byte_cnt)' <=> Collected(rx_byte_cnt)
    BY <1>1, <1>2 DEF Collected
<1>7. ReadyForWord(q)' <=> ReadyForWord(q)
    BY <1>1, <1>5 DEF ReadyForWord
<1>8. Ready(q)' <=> Ready(q)
    BY <1>4, <1>7 DEF Ready
<1> QED BY <1>1, <1>2, <1>3, <1>4, <1>6, <1>8

(* The same with the wires at rest: the parts of the invariant that a step *)
(* of the driver or of the bridge between two conversations keeps.         *)
LEMMA CoreKept ==
    ASSUME ChainInv, UNCHANGED coreVars
    PROVE  /\ IInv' /\ (state' # "TX_DATA" => tx_byte_cnt' = 0)
           /\ UNCHANGED <<rxbuf, up, tx>> => Answer' = Answer /\ Held' = Held
<1>1. IInv'
    BY InvStep DEF ChainInv
<1>2. UNCHANGED <<state, tx_byte_cnt, o_data_valid, o_data_tx>>
    BY DEF coreVars, portVars
<1>3. UNCHANGED tx => Held' = Held
    BY <1>2 DEF Held
<1>4. UNCHANGED <<rxbuf, up, tx>> => Answer' = Answer
    BY <1>3 DEF Answer
<1> QED BY <1>1, <1>2, <1>3, <1>4 DEF ChainInv

(* A call starts with the core waiting for its first word.                 *)
LEMMA ChainCall ==
    ASSUME ChainInv, DrvCall, UNCHANGED coreVars
    PROVE  ChainInv'
<1>1. bpc = "none" /\ AtRest /\ Question = 1
    BY DEF ChainInv, DrvCall, Question
<1>2. /\ pc' = "write" /\ k' = 1 /\ call' \in Calls
      /\ UNCHANGED <<bpc, read_buff, rxbuf, up, down, tx, plugged>>
    BY DEF DrvCall, brVars, wireVars
<1>3. HilTypeOK'
    BY <1>2 DEF ChainInv, HilTypeOK
<1>4. Ready(1)'
    BY <1>1 DEF AtRest, Ready, ReadyForWord, Collected, Taken, coreVars, reqVars
<1>5. AtRest'
    BY <1>1, <1>2, <1>4, CoreKept DEF AtRest, Question
<1> QED BY <1>1, <1>2, <1>3, <1>5, CoreKept DEF ChainInv, HasResult

(* Every other step of the driver leaves the question as it is.            *)
LEMMA ChainDriver ==
    ASSUME ChainInv, Driver, UNCHANGED coreVars
    PROVE  ChainInv'
<1>1. bpc = "none" /\ AtRest /\ k \in 1 .. 5
    BY DEF ChainInv, HilTypeOK, Driver, DrvCheck, DrvNext, DrvReturn, DrvWrite
<1>2. /\ UNCHANGED <<call, rxbuf, up, down, tx, plugged>>
      /\ pc' \in {"idle", "write", "check", "fetch"} /\ k' \in 1 .. 5
      /\ bpc' \in {"none", "open"} /\ (bpc' # "none" => pc' = "check")
      /\ Question' = Question
    BY <1>1 DEF Driver, DrvCheck, DrvNext, DrvReturn, DrvWrite, drvVars, brVars, wireVars, Question
<1>3. read_buff' \in [1 .. 5 -> Byte] /\ (pc # "write" => read_buff' = read_buff)
  <2>1. read_buff \in [1 .. 5 -> Byte] /\ [read_buff EXCEPT ![1] = 0] \in [1 .. 5 -> Byte]
      BY 0 \in Byte DEF ChainInv, HilTypeOK, Byte
  <2>2. \/ read_buff' = read_buff
        \/ pc = "write" /\ read_buff' = [read_buff EXCEPT ![1] = 0]
      BY DEF Driver, DrvCheck, DrvNext, DrvReturn, DrvWrite, brVars
  <2> QED BY <2>1, <2>2
<1>4. HilTypeOK'
    BY <1>2, <1>3 DEF ChainInv, HilTypeOK
<1>5. Ready(Question)'
  <2>1. PICK q : q = Question
      OBVIOUS
  <2>2. Ready(q)'
      BY <1>1, <1>2, <2>1, SameStage DEF AtRest
  <2> QED BY <1>2, <2>1, <2>2 DEF Ready, ReadyForWord, Collected
<1>6. AtRest'
    BY <1>1, <1>2, <1>5, CoreKept DEF AtRest
<1>7. HasResult' => pc # "write" /\ HasResult
    BY <1>1 DEF HasResult, Driver, DrvCheck, DrvNext, DrvReturn, DrvWrite, brVars
<1>8. HasResult' => \A m \in 1 .. 4 : read_buff'[m] = Expected'[m]
    BY <1>2, <1>3, <1>7, SameStage DEF ChainInv
<1> QED BY <1>2, <1>4, <1>6, <1>8, CoreKept DEF ChainInv

LEMMA ChainOpen ==
    ASSUME ChainInv, BrOpen, UNCHANGED coreVars
    PROVE  ChainInv'
<1>1. AtRest /\ rxbuf = <<>> /\ pc = "check" /\ Question = k
  <2>1. AtRest /\ pc = "check" /\ HilTypeOK /\ TypeOK
      BY DEF ChainInv, IInv, BrOpen
  <2> QED BY <2>1, HeldType DEF AtRest, Question, BrOpen
<1>2. UNCHANGED <<pc, k, call, read_buff, rxbuf, up, down, tx, plugged>> /\ bpc' = "send"
    BY <1>1 DEF BrOpen, drvVars
<1>3. HilTypeOK' /\ Question' = k
    BY <1>1, <1>2 DEF ChainInv, HilTypeOK, Question
<1>4. PICK q : q = k
    OBVIOUS
<1>5. Ready(q)'
    BY <1>1, <1>2, <1>4, SameStage DEF AtRest
<1>6. Ready(Question)'
    BY <1>2, <1>3, <1>4, <1>5 DEF Ready, ReadyForWord, Collected
<1>7. AtRest'
    BY <1>1, <1>2, <1>6, CoreKept DEF AtRest
<1> QED BY <1>1, <1>2, <1>3, <1>7, CoreKept DEF ChainInv, HasResult

(* The bridge speaks to a core that waits for what it says.                *)
LEMMA ChainSend ==
    ASSUME ChainInv, BrSend, UNCHANGED coreVars
    PROVE  ChainInv'
<1>1. /\ AtRest /\ pc = "check" /\ Ready(k) /\ k \in 1 .. 5 /\ HilTypeOK
      /\ down = <<>> /\ Answer = <<>>
    BY DEF ChainInv, BrSend, HilTypeOK, AtRest, Question
<1>2. /\ UNCHANGED <<pc, k, call, read_buff, rxbuf, up, tx, plugged>> /\ bpc' = "await"
      /\ down' = <<>> \o WriteBuff
    BY <1>1 DEF BrSend, drvVars, ChainInv
<1>3. /\ WriteBuff \in Seq(Byte)
      /\ k \in 1 .. 3 => Len(WriteBuff) = 4
                         /\ \A m \in 1 .. 4 : WriteBuff[m] = Request[4 * (k - 1) + m]
  <2>1. CASE k = 1
    <3>1. WriteBuff = <<call[1][1], call[1][2], 0, 0>>
        BY <2>1 DEF WriteBuff
    <3>2. call[1][1] \in Byte /\ call[1][2] \in Byte /\ 0 \in Byte
      <4>1. Request[1] \in Byte /\ Request[2] \in Byte
          BY <1>1, CallType
      <4> QED BY <4>1 DEF Request, Byte
    <3> QED BY <2>1, <3>1, <3>2 DEF Request
  <2>2. CASE k = 2
    <3>1. WriteBuff = <<call[2][1], call[2][2], call[2][3], call[2][4]>>
        BY <1>1, <2>2, CallType DEF WriteBuff
    <3> QED BY <1>1, <2>2, <3>1, CallType DEF Request, Word
  <2>3. CASE k = 3
    <3>1. WriteBuff = <<call[3][1], call[3][2], call[3][3], call[3][4]>>
        BY <1>1, <2>3, CallType DEF WriteBuff
    <3> QED BY <1>1, <2>3, <3>1, CallType DEF Request, Word
  <2>4. CASE k \in {4, 5}
    <3>1. WriteBuff = <<POLL>> \/ WriteBuff = <<READ>>
        BY <2>4 DEF WriteBuff
    <3>2. <<POLL>> \in Seq(Byte) /\ <<READ>> \in Seq(Byte)
        BY DEF POLL, READ, Byte
    <3>3. k \notin 1 .. 3
        BY <2>4
    <3> QED BY <3>1, <3>2, <3>3
  <2> QED BY <1>1, <2>1, <2>2, <2>3, <2>4
<1>4. down' = WriteBuff
    BY <1>2, <1>3, ConcatEmptySeq
<1>5. HilTypeOK'
    BY <1>2, <1>3, <1>4 DEF ChainInv, HilTypeOK
<1>6. Answer' = <<>>
    BY <1>1, <1>2, CoreKept
<1>7. Conversation'
  <2>1. PICK q : q = k
      OBVIOUS
  <2>2. Ready(q)' /\ Request' = Request
      BY <1>1, <1>2, <2>1, SameStage
  <2>3. CASE k \in 1 .. 3
    <3>1. ReadyForWord(q)' /\ q \in 1 .. 3 /\ k' = q
        BY <1>2, <2>1, <2>2, <2>3 DEF Ready
    <3>2. /\ (state = "IDLE")' /\ rx_byte_cnt' = 4 * (k' - 1)
          /\ Collected(rx_byte_cnt)'
        BY <3>1 DEF ReadyForWord, Collected
    <3>3. /\ Len(down') = 4 * k' - rx_byte_cnt'
          /\ \A m \in 1 .. Len(down') : down'[m] = Request'[rx_byte_cnt' + m]
      <4>1. Len(down') = 4 /\ \A m \in 1 .. 4 : down'[m] = Request[4 * (k - 1) + m]
          BY <1>3, <1>4, <2>3
      <4>2. k' = k /\ 4 * k' - rx_byte_cnt' = 4
          BY <1>2, <2>3, <3>2
      <4> QED BY <2>2, <3>2, <4>1, <4>2
    <3>4. WordArrives'
        BY <1>6, <3>1, <3>2, <3>3 DEF WordArrives
    <3> QED BY <1>2, <2>3, <3>4 DEF Conversation
  <2>4. CASE k = 4
    <3>1. down' = <<POLL>> /\ ReadyForPoll'
        BY <1>4, <2>1, <2>2, <2>4 DEF WriteBuff, Ready
    <3> QED BY <1>2, <1>6, <2>4, <3>1 DEF Conversation, PollArrives
  <2>5. CASE k = 5
    <3>1. down' = <<READ>> /\ ReadyForRead'
        BY <1>4, <2>1, <2>2, <2>5 DEF WriteBuff, Ready
    <3> QED BY <1>2, <1>6, <2>5, <3>1 DEF Conversation, ReadArrives
  <2> QED BY <1>1, <2>3, <2>4, <2>5
<1> QED BY <1>1, <1>2, <1>5, <1>7, CoreKept DEF ChainInv, HasResult

(* A read of the bridge finds the whole answer, and nothing behind it.     *)
LEMMA AnswerWhole ==
    ASSUME ChainInv, bpc = "await", rxbuf # <<>>
    PROVE  /\ up = <<>> /\ Held = <<>> /\ down = <<>> /\ Len(rxbuf) = ReadSize
           /\ k \in 1 .. 3 => Ready(k + 1)
           /\ k = 4 => ReadyForPoll /\ (rxbuf[1] = 1 => ReadyForRead)
           /\ k = 5 => ReadyForWord(1) /\ \A m \in 1 .. 4 : rxbuf[m] = Expected[m]
<1>1. HilTypeOK /\ TypeOK /\ Conversation /\ k \in 1 .. 5
    BY DEF ChainInv, IInv, HilTypeOK
<1>2. /\ Answer # <<>> /\ rxbuf \in Seq(Byte) /\ Len(rxbuf) > 0
      /\ Len(Answer) = Len(rxbuf) + Len(up) + Len(Held)
      /\ up \in Seq(Byte) /\ Held \in Seq(Byte)
    BY <1>1, HeldType, EmptySeq DEF HilTypeOK
<1>3. up = <<>> /\ Held = <<>> => Answer = rxbuf
  <2>1. <<>> \in Seq(Byte) /\ rxbuf \o <<>> = rxbuf
      BY <1>2, ConcatEmptySeq
  <2> QED BY <2>1 DEF Answer
<1>4. ASSUME Len(Answer) = 1 PROVE up = <<>> /\ Held = <<>> /\ Len(rxbuf) = 1
  <2>1. /\ Len(up) \in Nat /\ Len(Held) \in Nat /\ Len(rxbuf) \in Nat
        /\ Len(up) = 0 => up = <<>>
        /\ Len(Held) = 0 => Held = <<>>
      BY <1>2, LenProperties, EmptySeq
  <2>2. Len(rxbuf) = 1 /\ Len(up) = 0 /\ Len(Held) = 0
    <3>1. \A a, b, c \in Nat : a > 0 /\ 1 = a + b + c => a = 1 /\ b = 0 /\ c = 0
        OBVIOUS
    <3> QED BY <1>2, <1>4, <2>1, <3>1
  <2> QED BY <2>1, <2>2
<1>5. CASE k \in 1 .. 3
  <2>1. WordAnswered
      BY <1>1, <1>2, <1>5 DEF Conversation, WordArrives, WordTaken
  <2>2. Len(Answer) = 1
      BY <2>1 DEF WordAnswered
  <2> QED BY <1>4, <1>5, <2>1, <2>2 DEF WordAnswered, ReadSize
<1>6. CASE k = 4
  <2>1. PollAnswered
      BY <1>1, <1>2, <1>6 DEF Conversation, PollArrives
  <2>2. PICK b \in Bit : Answer = <<b>> /\ (b = 1 => ReadyForRead)
      BY <2>1 DEF PollAnswered
  <2>3. Len(Answer) = 1 /\ Answer[1] = b
      BY <2>2
  <2> QED BY <1>3, <1>4, <1>6, <2>1, <2>2, <2>3 DEF PollAnswered, ReadSize
<1>7. CASE k = 5
  <2>1. Replied
      BY <1>1, <1>2, <1>7 DEF Conversation, ReadArrives, Replying
  <2>2. up = <<>> /\ Held = <<>>
      BY <2>1 DEF Replied
  <2> QED BY <1>3, <1>7, <2>1, <2>2 DEF Replied, ReadSize
<1> QED BY <1>1, <1>5, <1>6, <1>7

(* A conversation ends with the answer read, or, for a poll that found the *)
(* calculation going on, with the next poll.                               *)
LEMMA ChainRead ==
    ASSUME ChainInv, BrRead, UNCHANGED coreVars
    PROVE  ChainInv'
<1>1. bpc = "await" /\ rxbuf # <<>> /\ pc = "check" /\ k \in 1 .. 5 /\ HilTypeOK /\ TypeOK
    BY DEF ChainInv, HilTypeOK, IInv, BrRead, Await
<1>2. /\ up = <<>> /\ Held = <<>> /\ down = <<>> /\ Len(rxbuf) = ReadSize
      /\ k \in 1 .. 3 => Ready(k + 1)
      /\ k = 4 => ReadyForPoll /\ (rxbuf[1] = 1 => ReadyForRead)
      /\ k = 5 => ReadyForWord(1) /\ \A m \in 1 .. 4 : rxbuf[m] = Expected[m]
    BY <1>1, AnswerWhole
<1>3. ReadSize \in 1 .. 5 /\ (k = 5 => ReadSize = 5)
    BY DEF ReadSize
<1>4. Await(ReadSize)
    BY <1>2, <1>3 DEF BrRead
<1>5. /\ UNCHANGED <<pc, k, call, up, down, tx, plugged>>
      /\ read_buff' = [i \in 1 .. 5 |-> IF i <= ReadSize THEN rxbuf[i] ELSE read_buff[i]]
      /\ rxbuf' = SubSeq(rxbuf, ReadSize + 1, ReadSize)
      /\ IF k = 4 /\ read_buff'[1] # 1 THEN bpc' = "send" ELSE bpc' = "none"
    BY <1>2, <1>4 DEF Await, drvVars
<1>6. rxbuf' = <<>>
    BY <1>1, <1>2, <1>3, <1>5, SubSeqEmpty DEF HilTypeOK
<1>7. read_buff' \in [1 .. 5 -> Byte] /\ read_buff'[1] = rxbuf[1]
      /\ (k = 5 => \A m \in 1 .. 4 : read_buff'[m] = rxbuf[m])
  <2>1. rxbuf \in Seq(Byte) /\ \A i \in 1 .. ReadSize : rxbuf[i] \in Byte
      BY <1>1, <1>2, <1>3, ElementOfSeq DEF HilTypeOK
  <2>2. \A i \in 1 .. 5 : read_buff[i] \in Byte
      BY <1>1 DEF HilTypeOK
  <2> QED BY <1>3, <1>5, <2>1, <2>2
<1>8. HilTypeOK'
  <2>1. <<>> \in Seq(Byte)
      OBVIOUS
  <2> QED BY <1>1, <1>5, <1>6, <1>7, <2>1 DEF HilTypeOK
<1>9. Held' = <<>> /\ Answer' = <<>>
  <2>1. UNCHANGED <<o_data_valid, o_data_tx>>
      BY DEF coreVars, portVars
  <2>2. Held' = <<>>
      BY <1>2, <1>5, <2>1 DEF Held
  <2>3. (<<>> \o <<>>) \o <<>> = <<>>
    <3>1. <<>> \in Seq(Byte)
        OBVIOUS
    <3> QED BY <3>1, ConcatEmptySeq
  <2> QED BY <1>2, <1>5, <1>6, <2>2, <2>3 DEF Answer
<1>10. Ready(Question)'
  <2>1. CASE k \in 1 .. 3
    <3>1. PICK q : q = k + 1
        OBVIOUS
    <3>2. Ready(q)'
        BY <1>2, <1>5, <2>1, <3>1, SameStage
    <3>3. Question' = q
        BY <1>1, <1>5, <2>1, <3>1 DEF Question
    <3> QED BY <3>2, <3>3 DEF Ready, ReadyForWord, Collected
  <2>2. CASE k = 4
    <3>1. Ready(4)' /\ (rxbuf[1] = 1 => Ready(5)')
        BY <1>2, <1>5, <2>2, SameStage DEF Ready
    <3>2. Question' = IF rxbuf[1] = 1 THEN 5 ELSE 4
        BY <1>1, <1>5, <1>7, <2>2 DEF Question
    <3> QED BY <3>1, <3>2 DEF Ready
  <2>3. CASE k = 5
    <3>1. Ready(1)' /\ Question' = 1
        BY <1>1, <1>2, <1>5, <2>3, SameStage DEF Ready, Question
    <3> QED BY <3>1 DEF Ready
  <2> QED BY <1>1, <2>1, <2>2, <2>3
<1>11. AtRest'
    BY <1>2, <1>5, <1>9, <1>10 DEF AtRest
<1>12. HasResult' => \A m \in 1 .. 4 : read_buff'[m] = Expected'[m]
    BY <1>1, <1>2, <1>5, <1>7, SameStage DEF HasResult
<1> QED BY <1>1, <1>5, <1>8, <1>11, <1>12, CoreKept DEF ChainInv

(* The end of a frame and the adapter's delivery: an adapter that waits    *)
(* for a quiet line hands the five bytes of a reply over together.         *)
LEMMA ChainWires ==
    ASSUME ChainInv, ~CHUNKED, FrameSent \/ Deliver, UNCHANGED coreVars
    PROVE  ChainInv'
<1>1. HilTypeOK /\ IInv /\ TypeOK
    BY DEF ChainInv, IInv
<1>2. Answer' = Answer /\ HilTypeOK' /\ UNCHANGED <<pc, k, call, bpc, read_buff, down, plugged>>
    BY <1>1, FrameKeepsAnswer, DeliveryKeepsAnswer
       DEF FrameSent, Deliver, drvVars, brVars
<1>3. /\ FrameSent => Held # <<>> /\ Held' = <<>> /\ UNCHANGED rxbuf /\ o_data_valid = 0
      /\ Deliver => /\ up # <<>> /\ Held = <<>> /\ Held' = <<>> /\ up' = <<>>
                    /\ state # "TX_DATA"
  <2>1. FrameSent => Held # <<>> /\ Held' = <<>> /\ UNCHANGED rxbuf /\ o_data_valid = 0
      BY DEF FrameSent, Held, coreVars, portVars
  <2>2. Deliver => Held = <<>> /\ Held' = <<>>
      BY DEF Deliver, LineQuiet, Held, coreVars, portVars
  <2> QED BY <2>1, <2>2 DEF Deliver, LineQuiet
<1>4. Answer # <<>>
    BY <1>1, <1>3, HeldType
<1>5. bpc = "await" /\ Conversation /\ k \in 1 .. 5
    BY <1>4 DEF ChainInv, AtRest, HilTypeOK
<1>6. Conversation'
  <2>1. CASE k \in 1 .. 3
    <3>1. WordAnswered
        BY <1>3, <1>4, <1>5, <2>1 DEF Conversation, WordArrives, WordTaken
    <3>2. PICK q : q = k + 1
        OBVIOUS
    <3>3. Ready(q)' /\ k' + 1 = q /\ o_data_valid' = 0
        BY <1>2, <3>1, <3>2, SameStage DEF WordAnswered
    <3>4. Ready(k + 1)'
        BY <3>3 DEF Ready, ReadyForWord, Collected
    <3>5. WordAnswered'
        BY <1>2, <3>1, <3>3, <3>4 DEF WordAnswered
    <3> QED BY <1>2, <2>1, <3>5 DEF Conversation
  <2>2. CASE k = 4
    <3>1. PollAnswered
        BY <1>4, <1>5, <2>2 DEF Conversation, PollArrives
    <3>2. PollAnswered'
        BY <1>2, <3>1, SameStage DEF PollAnswered
    <3> QED BY <1>2, <2>2, <3>2 DEF Conversation
  <2>3. CASE k = 5
    <3>1. Replying \/ Replied
        BY <1>4, <1>5, <2>3 DEF Conversation, ReadArrives
    <3>2. CASE Replying
      <4>1. FrameSent /\ up' = Append(up, tx)
          BY <1>3, <3>2 DEF Replying, FrameSent
      <4>2. Replying'
          BY <1>2, <1>3, <3>2, <4>1, SameStage DEF Replying
      <4> QED BY <1>2, <2>3, <4>2 DEF Conversation
    <3>3. CASE Replied
      <4>1. Deliver /\ Ready(1)
          BY <1>3, <3>3 DEF Replied, Ready, ReadyForPoll, ReadyForRead
      <4>2. Ready(1)' /\ Expected' = Expected
          BY <1>2, <4>1, SameStage
      <4>3. ReadyForWord(1)'
          BY <4>2 DEF Ready
      <4>4. Replied'
          BY <1>2, <1>3, <3>3, <4>1, <4>2, <4>3 DEF Replied
      <4> QED BY <1>2, <2>3, <4>4 DEF Conversation
    <3> QED BY <3>1, <3>2, <3>3
  <2> QED BY <1>5, <2>1, <2>2, <2>3
<1>7. HasResult' = HasResult /\ Expected' = Expected
    BY <1>2 DEF HasResult, Expected
<1> QED BY <1>2, <1>5, <1>6, <1>7, CoreKept DEF ChainInv

(* A restart: between two calls the core waits for a first word anyway; in *)
(* the middle of one the board is reset with the platform.                 *)
LEMMA ChainRestart ==
    ASSUME ChainInv, Restart
    PROVE  ChainInv'
<1>1. /\ pc' = "idle" /\ k' = 1 /\ bpc' = "none" /\ rxbuf' = <<>>
      /\ read_buff' = <<0, 0, 0, 0, 0>> /\ UNCHANGED <<call, plugged>>
    BY DEF Restart
<1>2. <<0, 0, 0, 0, 0>> \in [1 .. 5 -> Byte] /\ <<>> \in Seq(Byte) /\ NoByte \in Byte \cup {NoByte}
    BY DEF Byte
<1>3. CASE pc = "idle" /\ UNCHANGED <<coreVars, up, down, tx>>
  <2>1. AtRest /\ Question = 1 /\ HilTypeOK /\ TypeOK
      BY <1>3 DEF ChainInv, IInv, Question
  <2>2. rxbuf = <<>> /\ Ready(1) /\ down = <<>> /\ Answer = <<>>
      BY <2>1, HeldType DEF AtRest
  <2>3. Answer' = <<>> /\ Ready(1)' /\ Question' = 1
      BY <1>1, <1>3, <2>2, CoreKept, SameStage DEF Question
  <2>4. AtRest'
      BY <1>3, <2>2, <2>3 DEF AtRest
  <2>5. HilTypeOK'
      BY <1>1, <1>2, <1>3, <2>1 DEF HilTypeOK
  <2> QED BY <1>1, <1>3, <2>4, <2>5, CoreKept DEF ChainInv, HasResult
<1>4. CASE Reset /\ up' = <<>> /\ down' = <<>> /\ tx' = NoByte
  <2>1. /\ IInv' /\ state' = "IDLE" /\ rx_byte_cnt' = 0 /\ tx_byte_cnt' = 0
        /\ o_data_valid' = 0
      BY <1>4, ResetInv DEF Reset
  <2>2. Ready(1)' /\ Question' = 1
      BY <1>1, <2>1 DEF Ready, ReadyForWord, Collected, Taken, Question
  <2>3. Answer' = <<>>
    <3>1. (<<>> \o <<>>) \o <<>> = <<>>
        BY <1>2, ConcatEmptySeq
    <3> QED BY <1>1, <1>4, <2>1, <3>1 DEF Answer, Held
  <2>4. HilTypeOK'
      BY <1>1, <1>2, <1>4 DEF ChainInv, HilTypeOK
  <2>5. AtRest'
      BY <1>4, <2>2, <2>3 DEF AtRest
  <2> QED BY <1>1, <2>1, <2>4, <2>5 DEF ChainInv, HasResult
<1> QED BY <1>3, <1>4 DEF Restart

LEMMA ChainStutter ==
    ASSUME ChainInv, UNCHANGED hilVars
    PROVE  ChainInv'
<1>1. /\ UNCHANGED coreVars
      /\ UNCHANGED <<pc, k, call, bpc, read_buff, rxbuf, up, down, tx, plugged>>
    BY DEF hilVars, drvVars, brVars, wireVars
<1>2. /\ Answer' = Answer /\ Held' = Held /\ IInv'
      /\ state' # "TX_DATA" => tx_byte_cnt' = 0
    BY <1>1, CoreKept
<1>3. HilTypeOK'
    BY <1>1 DEF ChainInv, HilTypeOK
<1>4. \A q : Ready(q)' <=> Ready(q)
    BY <1>1, SameStage
<1>5. /\ UNCHANGED <<state, nice_req_inst, rx_byte_cnt, tx_byte_cnt, o_data_valid>>
      /\ ReadyForPoll' <=> ReadyForPoll
      /\ ReadyForRead' <=> ReadyForRead
      /\ Loaded' <=> Loaded
      /\ Expected' = Expected /\ Request' = Request
    BY <1>1, SameStage DEF coreVars, reqVars
<1>6. Question' = Question
    BY <1>1 DEF Question
<1>7. AtRest => AtRest'
    BY <1>1, <1>2, <1>4, <1>6 DEF AtRest, Ready, ReadyForWord, Collected
<1>8. WordArrives => WordArrives'
    BY <1>1, <1>2, <1>5 DEF WordArrives, Collected
<1>9. WordTaken => WordTaken'
    BY <1>1, <1>2, <1>5 DEF WordTaken, Collected
<1>10. WordAnswered => WordAnswered'
  <2>1. PICK q : q = k + 1
      OBVIOUS
  <2>2. Ready(q)' <=> Ready(q)
      BY <1>4
  <2> QED BY <1>1, <1>2, <1>5, <2>1, <2>2 DEF WordAnswered, Ready, ReadyForWord, Collected
<1>11. (PollArrives => PollArrives') /\ (PollAnswered => PollAnswered')
    BY <1>1, <1>2, <1>5 DEF PollArrives, PollAnswered
<1>12. ReadArrives => ReadArrives'
    BY <1>1, <1>2, <1>5 DEF ReadArrives
<1>13. Replying => Replying'
    BY <1>1, <1>2, <1>5 DEF Replying
<1>14. Replied => Replied'
    BY <1>1, <1>2, <1>5 DEF Replied, ReadyForWord, Collected
<1>15. Conversation => Conversation'
    BY <1>1, <1>8, <1>9, <1>10, <1>11, <1>12, <1>13, <1>14 DEF Conversation
<1>16. HasResult' = HasResult
    BY <1>1 DEF HasResult
<1> QED BY <1>1, <1>2, <1>3, <1>5, <1>7, <1>15, <1>16 DEF ChainInv

LEMMA ChainStep ==
    ASSUME ~CHUNKED, ChainInv, [HilNext]_hilVars
    PROVE  ChainInv'
<1>1. CASE Host /\ NoClock
  <2>1. UNCHANGED coreVars
      BY <1>1 DEF NoClock
  <2> QED BY <1>1, <2>1, ChainCall, ChainDriver, ChainOpen, ChainSend, ChainRead, ChainWires
          DEF Host, Bridge
<1> QED BY <1>1, ChainClock, ChainRestart, ChainStutter DEF HilNext

-----------------------------------------------------------------------------
(* With an adapter that hands over whole answers (~CHUNKED), every         *)
(* behaviour keeps the driver, the bridge, what is under way and the core  *)
(* in matching stages of the conversation.                                 *)
THEOREM ConversationKept == ~CHUNKED => (HilSpec => []ChainInv)
<1> SUFFICES ASSUME ~CHUNKED PROVE HilSpec => []ChainInv
    OBVIOUS
<1>1. ChainInv /\ [HilNext]_hilVars => ChainInv'
    BY ChainStep
<1> QED BY <1>1, ChainInit, PTL DEF HilSpec

(* InStep: when the bridge speaks, nothing of an earlier answer or         *)
(* question is left on the way and the core has counted the words sent.    *)
THEOREM HostAndCoreInStep == ~CHUNKED => (HilSpec => []InStep)
<1>1. ChainInv => InStep
  <2> SUFFICES ASSUME ChainInv, bpc = "send"
               PROVE  /\ rxbuf = <<>> /\ up = <<>> /\ down = <<>> /\ tx = NoByte
                      /\ k \in 1 .. 3 => rx_byte_cnt = 4 * (k - 1)
                      /\ k \in 4 .. 5 => state \notin {"TX_ONE", "TX_DATA"}
      BY DEF InStep
  <2>1. HilTypeOK /\ TypeOK /\ AtRest /\ Question = k
      BY DEF ChainInv, IInv, Question
  <2>2. rxbuf = <<>> /\ up = <<>> /\ down = <<>> /\ tx = NoByte
      BY <2>1, HeldType DEF AtRest
  <2>3. Ready(k)
      BY <2>1 DEF AtRest
  <2> QED BY <2>2, <2>3 DEF Ready, ReadyForWord, ReadyForPoll, ReadyForRead, Calculating,
                           SM3States, SM4States
<1> QED BY <1>1, ConversationKept, PTL

(* What the driver returns is the value of the call.                       *)
LEMMA ReturnValue ==
    ASSUME ChainInv, DrvReturn
    PROVE  result' = Operation[call]
<1>1. HilTypeOK /\ \A m \in 1 .. 4 : read_buff[m] = Expected[m]
    BY DEF ChainInv, HasResult, DrvReturn
<1>2. Expected = <<Expected[1], Expected[2], Expected[3], Expected[4]>>
    BY <1>1, ExpectedType DEF Word
<1>3. YOut = Expected
    BY <1>1, <1>2 DEF YOut
<1>4. Operation[call] = Expected
    BY <1>1 DEF Operation, Expected, HilTypeOK
<1> QED BY <1>3, <1>4 DEF DrvReturn

(* ReturnsOperation: what hil_short and hil_unplug refute holds with an    *)
(* adapter that stays and hands over whole answers.                        *)
THEOREM OperationReturned == ~CHUNKED => (HilSpec => ReturnsOperation)
<1>1. ChainInv /\ [HilNext]_hilVars => [DrvReturn => result' = Operation[call]]_hilVars
    BY ReturnValue
<1> QED BY <1>1, ConversationKept, PTL DEF HilSpec, ReturnsOperation

(* KeepsPromise: the chain implements the promise of the driver, step by   *)
(* step: the call, its return with the value of the operation asked for,   *)
(* and the restart that abandons it; every other step is invisible.        *)
THEOREM PromiseIsKept == ~CHUNKED => (HilSpec => KeepsPromise)
<1>1. HilInit => Promise!Init
    BY DEF HilInit, Promise!Init
<1>2. ChainInv /\ [HilNext]_hilVars => [Promise!Next]_Promise!callVars
  <2> SUFFICES ASSUME ChainInv, [HilNext]_hilVars
               PROVE  [Promise!Next]_Promise!callVars
      OBVIOUS
  <2> USE DEF Promise!Next, Promise!callVars
  <2>1. CASE DrvCall
      BY <2>1 DEF DrvCall, Promise!Call
  <2>2. CASE DrvReturn
      BY <2>2, ReturnValue DEF DrvReturn, Promise!Return
  <2>3. CASE Restart
      BY <2>3 DEF Restart, Promise!Abandon
  <2>4. CASE DrvCheck \/ DrvNext \/ DrvWrite
      BY <2>4 DEF DrvCheck, DrvNext, DrvWrite
  <2>5. CASE Bridge
      BY <2>5 DEF Bridge, BrOpen, BrSend, BrRead, Await, drvVars
  <2>6. CASE FrameSent \/ Deliver \/ FpgaClock
      BY <2>6 DEF FrameSent, Deliver, FpgaClock, drvVars
  <2>7. CASE UNCHANGED hilVars
      BY <2>7 DEF hilVars, drvVars
  <2> QED BY <2>1, <2>2, <2>3, <2>4, <2>5, <2>6, <2>7 DEF HilNext, Host, Driver
<1> QED BY <1>1, <1>2, ConversationKept, PTL DEF HilSpec, KeepsPromise, Promise!Spec
=============================================================================
