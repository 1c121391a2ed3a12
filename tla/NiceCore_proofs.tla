--------------------------- MODULE NiceCore_proofs ---------------------------
(***************************************************************************)
(* Proofs about the FPGA core for every byte the line may carry, at every  *)
(* clock, with the transmitter busy or idle at will, and for every         *)
(* exclusive or and substitution table that satisfy the assumptions.       *)
(***************************************************************************)
EXTENDS NiceCore, TLAPS

(* What the pipeline registers hold in each state of the core.             *)
SM3Loaded ==
    /\ opcode \in {OpSM3P0, OpSM3P1} /\ sm3_rs1 = rs1
    /\ op_ssm3_p0 = custom3_sm3p0 /\ op_ssm3_p1 = custom3_sm3p1

SM4Loaded ==
    /\ opcode \in {OpSM4KS, OpSM4ED} /\ sm4_rs1 = rs1 /\ sm4_rs2 = rs2
    /\ op_ssm4_ks = custom3_sm4ks /\ op_ssm4_ed = custom3_sm4ed

(* After k substitutions the k low bytes of rs2 are done, shifted in from  *)
(* the high end of sm4_sbox_out.                                           *)
Substituted(k) ==
    /\ k > 0 => sm4_sbox_out[1] = SM4_Sbox(rs2[5 - k])
    /\ k > 1 => sm4_sbox_out[2] = SM4_Sbox(rs2[6 - k])
    /\ k > 2 => sm4_sbox_out[3] = SM4_Sbox(rs2[7 - k])
    /\ k > 3 => sm4_sbox_out[4] = SM4_Sbox(rs2[8 - k])

Rot1(x) == IF opcode = OpSM3P0 THEN Rotl32(x, 9) ELSE Rotl32(x, 15)
Rot2(x) == IF opcode = OpSM3P0 THEN Rotl32(x, 17) ELSE Rotl32(x, 23)
Lin(x)  == IF opcode = OpSM4KS THEN SM4_LinearKS(x) ELSE SM4_LinearED(x)

IdleInv == state \in {"IDLE", "RECV_INST", "TX_ONE"} => calc_done = 0 /\ cycle_counter = 0

Sm3Inv ==
    /\ state \in SM3States => SM3Loaded
    /\ state = "SM3_STEP1" => cycle_counter = 0 /\ calc_done = 0
    /\ state = "SM3_STEP2" =>
         cycle_counter = 1 /\ calc_done = 0 /\ sm3_temp1 = Rot1(rs1)
    /\ state = "SM3_STEP3" =>
         /\ sm3_temp1 = Rot1(rs1) /\ sm3_temp2 = Rot2(rs1)
         /\ calc_done = 0 => cycle_counter = 2

Sm4Inv ==
    /\ state \in SM4States => SM4Loaded
    /\ state # "SM4_STEP1" => sbox_sel = 0
    /\ state = "SM4_STEP1" =>
         cycle_counter = sbox_sel /\ calc_done = 0 /\ Substituted(sbox_sel)
    /\ state = "SM4_STEP2" => cycle_counter = 5 /\ calc_done = 0 /\ Substituted(4)
    /\ state = "SM4_STEP3" =>
         /\ sm4_linear_temp = Lin(SM4_Nonlinear(rs2))
         /\ calc_done = 0 => cycle_counter = 6

ReplyInv ==
    ReplyReady => /\ opcode \in Opcodes
                  /\ calc_result = Custom3(opcode, rs1, rs2)
                  /\ cycle_counter = IF opcode \in {OpSM3P0, OpSM3P1} THEN 3 ELSE 7

IInv == TypeOK /\ IdleInv /\ Sm3Inv /\ Sm4Inv /\ ReplyInv /\ o_data_valid = state_count

-----------------------------------------------------------------------------
(* Operators on words.                                                     *)

(* The bits a rotation by r moves between two bytes (SM3_Rotl32,           *)
(* SM4_Rotl32 in nice.h) form a byte.                                      *)
LEMMA SpillType ==
    ASSUME NEW r \in 0 .. 7, NEW hi \in Byte, NEW lo \in Byte
    PROVE  Spill(r, hi, lo) \in Byte
<1>1. Pow2[r + 1] \in Nat /\ Pow2[9 - r] \in Nat \ {0}
  BY DEF Pow2
<1>2. \A p \in Nat, q \in Nat \ {0} : (hi * p + lo \div q) % 256 \in Byte
  <2>1. SUFFICES ASSUME NEW p \in Nat, NEW q \in Nat \ {0}
                 PROVE  (hi * p + lo \div q) % 256 \in Byte
    OBVIOUS
  <2>2. hi * p \in Nat /\ lo \div q \in Nat
    BY DEF Byte
  <2> QED BY <2>2 DEF Byte
<1> QED BY <1>1, <1>2 DEF Spill

Amounts == {2, 9, 10, 13, 15, 17, 18, 23, 24}

(* A rotation by any of the amounts nice_core.v uses maps words to words.  *)
LEMMA RotlType ==
    ASSUME NEW w \in Word, NEW n \in Amounts
    PROVE  Rotl32(w, n) \in Word
<1>1. \A i \in 1 .. 9 : w[Cyc(i)] \in Byte
  <2>1. SUFFICES ASSUME NEW i \in 1 .. 9 PROVE w[Cyc(i)] \in Byte
    OBVIOUS
  <2>2. Cyc(i) \in 1 .. 4
    BY DEF Cyc
  <2>3. \A k \in 1 .. 4 : w[k] \in Byte
    BY DEF Word
  <2> QED BY <2>2, <2>3
<1>2. n \div 8 \in 0 .. 3 /\ n % 8 \in 0 .. 7
  BY DEF Amounts
<1>3. \A i \in 1 .. 4 :
        Spill(n % 8, w[Cyc(i + n \div 8)], w[Cyc(i + n \div 8 + 1)]) \in Byte
  <2>1. SUFFICES ASSUME NEW i \in 1 .. 4
                 PROVE  Spill(n % 8, w[Cyc(i + n \div 8)], w[Cyc(i + n \div 8 + 1)]) \in Byte
    OBVIOUS
  <2>2. i + n \div 8 \in 1 .. 9 /\ i + n \div 8 + 1 \in 1 .. 9
    BY <1>2
  <2> QED BY <1>1, <1>2, <2>2, SpillType
<1> QED BY <1>3 DEF Rotl32, Word

(* The exclusive or of two words is a word.                                *)
LEMMA XorType ==
    ASSUME NEW v \in Word, NEW w \in Word
    PROVE  XorW(v, w) \in Word /\ XorW(v, w) = XorW(w, v)
BY XorAssumption DEF XorW, Word

(* The substitution of the four bytes of a word (SM4_Nonlinear) is a word. *)
LEMMA NonlinearType ==
    ASSUME NEW w \in Word
    PROVE  SM4_Nonlinear(w) \in Word
BY SboxAssumption DEF SM4_Nonlinear, Word

(* Both linear transforms of SM4 (SM4_Linear) map words to words.          *)
LEMMA LinearType ==
    ASSUME NEW w \in Word
    PROVE  SM4_LinearKS(w) \in Word /\ SM4_LinearED(w) \in Word
<1>1. \A n \in Amounts : Rotl32(w, n) \in Word
  BY RotlType
<1>2. Rotl32(w, 13) \in Word /\ Rotl32(w, 23) \in Word
  BY <1>1 DEF Amounts
<1>3. Rotl32(w, 2) \in Word /\ Rotl32(w, 10) \in Word
      /\ Rotl32(w, 18) \in Word /\ Rotl32(w, 24) \in Word
  BY <1>1 DEF Amounts
<1>4. SM4_LinearKS(w) \in Word
  BY <1>2, XorType DEF SM4_LinearKS
<1>5. SM4_LinearED(w) \in Word
  BY <1>3, XorType DEF SM4_LinearED
<1> QED BY <1>4, <1>5

-----------------------------------------------------------------------------
(* Type correctness.                                                       *)

(* The operand wires rs1 and rs2 of the request register are words.        *)
LEMMA OperandType == TypeOK => rs1 \in Word /\ rs2 \in Word
BY DEF TypeOK, rs1, rs2, Word

(* The reset value of a register is a word.                                *)
LEMMA ZeroType ==
    Zero \in Word /\ <<0, 0, 0, 0, 0, 0, 0, 0, 0, 0>> \in [1 .. 10 -> Byte]
<1>1. 0 \in Byte
  BY DEF Byte
<1> QED BY <1>1 DEF Zero, Word

(* The registers after power-up satisfy the invariant.                     *)
LEMMA InitInv == CoreInit => IInv
<1> SUFFICES ASSUME CoreInit PROVE IInv
  OBVIOUS
<1>1. TypeOK
  <2>1. /\ op_ssm3_p0 \in BOOLEAN /\ op_ssm3_p1 \in BOOLEAN
        /\ op_ssm4_ks \in BOOLEAN /\ op_ssm4_ed \in BOOLEAN
    BY DEF CoreInit
  <2>2. /\ sm3_rs1 \in Word /\ sm3_temp1 \in Word /\ sm3_temp2 \in Word
        /\ sm4_rs1 \in Word /\ sm4_rs2 \in Word
        /\ sm4_sbox_out \in Word /\ sm4_linear_temp \in Word /\ calc_result \in Word
    BY ZeroType DEF CoreInit
  <2>3. nice_req_inst \in [1 .. 10 -> Byte] /\ cycle_counter \in Byte /\ o_data_tx \in Byte
    BY ZeroType, 0 \in Byte DEF CoreInit
  <2>4. /\ state \in States /\ rx_byte_cnt \in 0 .. 12 /\ sbox_sel \in 0 .. 4
        /\ calc_done \in Bit /\ o_data_valid \in Bit /\ state_count \in Bit
        /\ tx_byte_cnt \in 0 .. 5
    BY DEF CoreInit, States, Bit
  <2> QED BY <2>1, <2>2, <2>3, <2>4 DEF TypeOK
<1>2. IdleInv /\ Sm3Inv /\ Sm4Inv /\ ReplyInv /\ o_data_valid = state_count
  BY DEF CoreInit, IdleInv, Sm3Inv, Sm4Inv, ReplyInv, ReplyReady, SM3States, SM4States
<1> QED BY <1>1, <1>2 DEF IInv

(* The asynchronous reset (nice_rst_n low) establishes the invariant.      *)
LEMMA ResetInv == Reset => IInv'
<1>1. Reset => CoreInit'
  BY DEF Reset, CoreInit
<1>2. CoreInit' => IInv'
  BY InitInv, PTL
<1> QED BY <1>1, <1>2

(* The port keeps its types whether a poll is answered or a byte released. *)
LEMMA PortType ==
    ASSUME TypeOK, NEW dv \in Bit, NEW d, NEW s0 \in Bit, Port(dv, d, s0)
    PROVE  o_data_tx' \in Byte /\ o_data_valid' \in Bit /\ state_count' \in Bit
BY DEF TypeOK, Port, Offer, Release, portVars, Bit, Byte

(* The cycle counter stays a byte.                                         *)
LEMMA CountType ==
    ASSUME TypeOK, Count
    PROVE  cycle_counter' \in Byte
BY DEF TypeOK, Count, Byte

(* Every edge of the clock preserves the types of all registers, whatever  *)
(* byte it brings and whether or not the transmitter is busy.              *)
LEMMA TypeClock ==
    ASSUME TypeOK, NEW dv \in Bit, NEW s0 \in Bit, NEW d \in Byte, Clock(dv, d, s0)
    PROVE  TypeOK'
<1> USE DEF reqVars, sm3Vars, sm4Vars, calcVars
<1>1. CASE IdleByte(dv, d, s0)
  BY <1>1, PortType, CountType DEF TypeOK, IdleByte, States
<1>2. CASE IdleFull(dv, d, s0)
  BY <1>2, PortType, CountType DEF TypeOK, IdleFull, States
<1>3. CASE IdleWait(dv, d, s0)
  BY <1>3, PortType, CountType DEF TypeOK, IdleWait, States
<1>4. CASE StartSM3(dv, d, s0)
  BY <1>4, PortType, CountType, OperandType
     DEF TypeOK, StartSM3, States, SM3States, custom3_sm3p0, custom3_sm3p1
<1>5. CASE StartSM4(dv, d, s0)
  BY <1>5, PortType, CountType, OperandType
     DEF TypeOK, StartSM4, States, SM4States, custom3_sm4ks, custom3_sm4ed
<1>6. CASE RejectInst(dv, d, s0)
  BY <1>6, PortType, CountType DEF TypeOK, RejectInst
<1>7. CASE LeaveInst(dv, d, s0)
  BY <1>7, PortType, CountType DEF TypeOK, LeaveInst, States
<1>8. CASE Sm3Step1(dv, d, s0)
  <2>1. sm3_temp1' \in Word
    <3>1. sm3_temp1' \in {Rotl32(sm3_rs1, 9), Rotl32(sm3_rs1, 15), Zero}
      BY <1>8 DEF Sm3Step1
    <3>2. Rotl32(sm3_rs1, 9) \in Word /\ Rotl32(sm3_rs1, 15) \in Word
      BY RotlType DEF TypeOK, Amounts
    <3>3. Zero \in Word
      BY ZeroType
    <3> QED BY <3>1, <3>2, <3>3
  <2> QED BY <2>1, <1>8, PortType, CountType DEF TypeOK, Sm3Step1, States, SM3States
<1>9. CASE Sm3Step2(dv, d, s0)
  <2>1. sm3_temp2' \in Word
    <3>1. sm3_temp2' \in {Rotl32(sm3_rs1, 17), Rotl32(sm3_rs1, 23), Zero}
      BY <1>9 DEF Sm3Step2
    <3>2. Rotl32(sm3_rs1, 17) \in Word /\ Rotl32(sm3_rs1, 23) \in Word
      BY RotlType DEF TypeOK, Amounts
    <3>3. Zero \in Word
      BY ZeroType
    <3> QED BY <3>1, <3>2, <3>3
  <2> QED BY <2>1, <1>9, PortType, CountType DEF TypeOK, Sm3Step2, States, SM3States
<1>10. CASE Sm3Step3(dv, d, s0)
  <2>1. calc_result' \in Word
    BY <1>10, XorType DEF Sm3Step3, TypeOK
  <2> QED BY <2>1, <1>10, PortType, CountType DEF TypeOK, Sm3Step3, States, Bit
<1>11. CASE Sm4Step1(dv, d, s0)
  <2>1. /\ sm4_sbox_out' \in Word /\ sbox_sel' \in 0 .. 4
        /\ state' \in {"SM4_STEP1", "SM4_STEP2"}
    <3>1. CASE SboxDone
      BY <3>1, <1>11 DEF Sm4Step1, TypeOK
    <3>2. CASE ~SboxDone
      <4>1. sbox_in \in Byte
        BY DEF sbox_in, TypeOK, Word, Byte
      <4>2. SM4_Sbox(sbox_in) \in Byte
        BY <4>1, SboxAssumption
      <4>3. sbox_sel' \in 0 .. 4
        BY <3>2, <1>11 DEF Sm4Step1, TypeOK, SboxDone
      <4> QED BY <3>2, <4>2, <4>3, <1>11 DEF Sm4Step1, TypeOK, Word
    <3> QED BY <3>1, <3>2
  <2> QED BY <2>1, <1>11, PortType, CountType DEF TypeOK, Sm4Step1, States, SM4States
<1>12. CASE Sm4Step2(dv, d, s0)
  <2>1. sm4_linear_temp' \in Word
    <3>1. sm4_linear_temp' \in {SM4_LinearKS(sm4_sbox_out), SM4_LinearED(sm4_sbox_out), Zero}
      BY <1>12 DEF Sm4Step2, SM4_LinearKS, SM4_LinearED
    <3>2. Zero \in Word
      BY ZeroType
    <3> QED BY <3>1, <3>2, LinearType DEF TypeOK
  <2> QED BY <2>1, <1>12, PortType, CountType DEF TypeOK, Sm4Step2, States, SM4States
<1>13. CASE Sm4Step3(dv, d, s0)
  <2>1. calc_result' \in Word
    BY <1>13, XorType DEF Sm4Step3, TypeOK
  <2> QED BY <2>1, <1>13, PortType, CountType DEF TypeOK, Sm4Step3, States, Bit
<1>14. CASE TxDataByte(s0)
  <2>1. ReplyByte(tx_byte_cnt) \in Byte
    BY <1>14 DEF TxDataByte, ReplyByte, TypeOK, Word
  <2> QED BY <2>1, <1>14 DEF TypeOK, TxDataByte, Offer, Bit
<1>15. CASE TxDataEnd(s0)
  BY <1>15 DEF TypeOK, TxDataEnd, States, Bit, Byte
<1>16. CASE TxDataWait(s0)
  BY <1>16 DEF TypeOK, TxDataWait, Release, portVars, Bit
<1>17. CASE TxOneSend(s0)
  BY <1>17 DEF TypeOK, TxOneSend, Offer, ACK, Bit, Byte
<1>18. CASE TxOneWait(s0)
  BY <1>18 DEF TypeOK, TxOneWait, Release, portVars, Bit, States
<1> QED BY <1>1, <1>2, <1>3, <1>4, <1>5, <1>6, <1>7, <1>8, <1>9, <1>10, <1>11,
           <1>12, <1>13, <1>14, <1>15, <1>16, <1>17, <1>18 DEF Clock

(* Every edge, reset included, preserves the types of all registers.       *)
LEMMA TypeStep ==
    ASSUME TypeOK, [CoreNext]_coreVars
    PROVE  TypeOK'
<1> USE DEF reqVars, sm3Vars, sm4Vars, calcVars
<1>1. CASE UNCHANGED coreVars
  BY <1>1 DEF TypeOK, coreVars, portVars
<1>2. CASE Reset
  BY <1>2, ResetInv DEF IInv
<1>3. ASSUME NEW dv \in Bit, NEW s0 \in Bit, NEW d \in Byte, Clock(dv, d, s0)
      PROVE  TypeOK'
  BY <1>3, TypeClock
<1>4. \A n \in 0 .. 12 : RxAt[n] \subseteq Byte
  BY RxAssumption
<1> QED BY <1>1, <1>2, <1>3, <1>4 DEF CoreNext, TypeOK

(* Type correctness of the core (TypeOK): no register leaves its width and *)
(* the counters stay within the values the case statements cover.          *)
THEOREM TypeCorrect == CoreSpec => []TypeOK
<1>1. CoreInit => TypeOK
  BY InitInv DEF IInv
<1>2. TypeOK /\ [CoreNext]_coreVars => TypeOK'
  BY TypeStep
<1> QED BY <1>1, <1>2, PTL DEF CoreSpec

-----------------------------------------------------------------------------
(* The pipeline invariant.                                                 *)

(* No two requests have the same opcode bytes.                             *)
LEMMA OpcodesDiffer ==
    /\ OpSM3P0 # OpSM3P1 /\ OpSM3P0 # OpSM4KS /\ OpSM3P0 # OpSM4ED
    /\ OpSM3P1 # OpSM4KS /\ OpSM3P1 # OpSM4ED /\ OpSM4KS # OpSM4ED
BY DEF OpSM3P0, OpSM3P1, OpSM4KS, OpSM4ED

(* What the two last pipeline stages compute is the software definition.   *)
(* The three exclusive ors of SM3_STEP3 give P0 or P1 of the operand, by   *)
(* the opcode.                                                             *)
LEMMA SM3Result ==
    ASSUME TypeOK, opcode \in {OpSM3P0, OpSM3P1}
    PROVE  XorW(XorW(rs1, Rot1(rs1)), Rot2(rs1)) = Custom3(opcode, rs1, rs2)
BY OpcodesDiffer DEF Rot1, Rot2, Custom3, P0, P1

(* The exclusive or of SM4_STEP3 gives the SM4 step of the operands, by    *)
(* the opcode.                                                             *)
LEMMA SM4Result ==
    ASSUME TypeOK, opcode \in {OpSM4KS, OpSM4ED}
    PROVE  XorW(Lin(SM4_Nonlinear(rs2)), rs1) = Custom3(opcode, rs1, rs2)
<1>1. rs1 \in Word /\ SM4_Nonlinear(rs2) \in Word
  BY OperandType, NonlinearType
<1>2. Lin(SM4_Nonlinear(rs2)) \in Word
  BY <1>1, LinearType DEF Lin
<1>3. XorW(Lin(SM4_Nonlinear(rs2)), rs1) = XorW(rs1, Lin(SM4_Nonlinear(rs2)))
  BY <1>1, <1>2, XorType
<1> QED BY <1>3, OpcodesDiffer DEF Lin, Custom3, SM4ks, SM4ed

(* After four substitutions the shift register sm4_sbox_out holds the      *)
(* substituted word, its bytes in order.                                   *)
LEMMA SubstitutedAll ==
    ASSUME TypeOK, Substituted(4)
    PROVE  sm4_sbox_out = SM4_Nonlinear(rs2)
BY DEF TypeOK, Word, Substituted, SM4_Nonlinear

(* The request register is the same before and after every clock of the    *)
(* computation and of the reply.                                           *)
LEMMA SameRequest ==
    ASSUME UNCHANGED nice_req_inst
    PROVE  /\ opcode' = opcode /\ rs1' = rs1 /\ rs2' = rs2
           /\ custom3_sm3p0' = custom3_sm3p0 /\ custom3_sm3p1' = custom3_sm3p1
           /\ custom3_sm4ks' = custom3_sm4ks /\ custom3_sm4ed' = custom3_sm4ed
BY DEF opcode, rs1, rs2, custom3_sm3p0, custom3_sm3p1, custom3_sm4ks, custom3_sm4ed

(* The valid line and state_count move together in every branch of the     *)
(* port.                                                                   *)
LEMMA PortInv ==
    ASSUME IInv, NEW dv \in Bit, NEW d, NEW s0 \in Bit, Port(dv, d, s0)
    PROVE  o_data_valid' = state_count'
BY DEF IInv, Port, Offer, Release, portVars

(* Every edge of the clock preserves the invariant of the pipeline.        *)
LEMMA ClockInv ==
    ASSUME IInv, NEW dv \in Bit, NEW s0 \in Bit, NEW d \in Byte, Clock(dv, d, s0)
    PROVE  IInv'
<1>0. TypeOK /\ TypeOK'
  BY TypeClock DEF IInv
<1> USE DEF reqVars, sm3Vars, sm4Vars, calcVars
<1>1. CASE IdleByte(dv, d, s0)
  BY <1>0, <1>1, PortInv
     DEF IInv, IdleByte, Count, IdleInv, Sm3Inv, Sm4Inv, ReplyInv, ReplyReady, SM3States, SM4States
<1>2. CASE IdleFull(dv, d, s0)
  BY <1>0, <1>2, PortInv
     DEF IInv, IdleFull, Count, IdleInv, Sm3Inv, Sm4Inv, ReplyInv, ReplyReady, SM3States, SM4States
<1>3. CASE IdleWait(dv, d, s0)
  BY <1>0, <1>3, PortInv
     DEF IInv, IdleWait, Count, IdleInv, Sm3Inv, Sm4Inv, ReplyInv, ReplyReady, SM3States, SM4States
<1>4. CASE StartSM3(dv, d, s0)
  <2>1. SM3Loaded'
    BY <1>4, SameRequest DEF StartSM3, SM3Loaded, custom3_sm3p0, custom3_sm3p1
  <2> QED BY <1>0, <1>4, <2>1, PortInv
     DEF IInv, StartSM3, Count, IdleInv, Sm3Inv, Sm4Inv, ReplyInv, ReplyReady, SM3States, SM4States
<1>5. CASE StartSM4(dv, d, s0)
  <2>1. SM4Loaded'
    BY <1>5, SameRequest DEF StartSM4, SM4Loaded, custom3_sm4ks, custom3_sm4ed
  <2>2. sbox_sel' = 0 /\ Substituted(0)'
    BY <1>5 DEF StartSM4, IInv, Sm4Inv, Substituted
  <2> QED BY <1>0, <1>5, <2>1, <2>2, PortInv
     DEF IInv, StartSM4, Count, IdleInv, Sm3Inv, Sm4Inv, ReplyInv, ReplyReady, SM3States, SM4States
<1>6. CASE RejectInst(dv, d, s0)
  BY <1>0, <1>6, PortInv
     DEF IInv, RejectInst, Count, IdleInv, Sm3Inv, Sm4Inv, ReplyInv, ReplyReady, SM3States, SM4States
<1>7. CASE LeaveInst(dv, d, s0)
  BY <1>0, <1>7, PortInv
     DEF IInv, LeaveInst, Count, IdleInv, Sm3Inv, Sm4Inv, ReplyInv, ReplyReady, SM3States, SM4States
<1>8. CASE Sm3Step1(dv, d, s0)
  <2>1. SM3Loaded /\ SM3Loaded' /\ opcode' = opcode /\ rs1' = rs1
    BY <1>8, SameRequest DEF Sm3Step1, SM3Loaded, IInv, Sm3Inv, SM3States
  <2>2. (sm3_temp1 = Rot1(rs1))'
    BY <1>8, <2>1, OpcodesDiffer DEF Sm3Step1, SM3Loaded, Rot1, custom3_sm3p0, custom3_sm3p1
  <2> QED BY <1>0, <1>8, <2>1, <2>2, PortInv
     DEF IInv, Sm3Step1, Count, IdleInv, Sm3Inv, Sm4Inv, ReplyInv, ReplyReady, SM3States, SM4States
<1>9. CASE Sm3Step2(dv, d, s0)
  <2>1. SM3Loaded /\ SM3Loaded' /\ opcode' = opcode /\ rs1' = rs1
    BY <1>9, SameRequest DEF Sm3Step2, SM3Loaded, IInv, Sm3Inv, SM3States
  <2>2. (sm3_temp1 = Rot1(rs1))'
    BY <1>9, <2>1 DEF Sm3Step2, Rot1, IInv, Sm3Inv
  <2>3. (sm3_temp2 = Rot2(rs1))'
    BY <1>9, <2>1, OpcodesDiffer DEF Sm3Step2, SM3Loaded, Rot2, custom3_sm3p0, custom3_sm3p1
  <2> QED BY <1>0, <1>9, <2>1, <2>2, <2>3, PortInv
     DEF IInv, Sm3Step2, Count, IdleInv, Sm3Inv, Sm4Inv, ReplyInv, ReplyReady, SM3States, SM4States
<1>10. CASE Sm3Step3(dv, d, s0)
  <2>1. /\ SM3Loaded /\ SM3Loaded'
        /\ opcode' = opcode /\ rs1' = rs1 /\ rs2' = rs2
    BY <1>10, SameRequest DEF Sm3Step3, SM3Loaded, IInv, Sm3Inv, SM3States
  <2>2. (sm3_temp1 = Rot1(rs1) /\ sm3_temp2 = Rot2(rs1))'
    BY <1>10, <2>1 DEF Sm3Step3, Rot1, Rot2, IInv, Sm3Inv
  <2>3. calc_result' = Custom3(opcode, rs1, rs2)
    BY <1>10, <1>0, <2>1, SM3Result DEF Sm3Step3, SM3Loaded, IInv, Sm3Inv
  <2>4. cycle_counter' = 3 /\ calc_done' = 1 /\ state' \in {"SM3_STEP3", "TX_DATA"}
    BY <1>10, <1>0, <2>1, OpcodesDiffer
       DEF Sm3Step3, Count, IInv, TypeOK, Bit, Sm3Inv, ReplyInv, ReplyReady, SM3Loaded,
           SM3States
  <2>5. ReplyInv'
    BY <2>1, <2>3, <2>4 DEF ReplyInv, Custom3, SM3Loaded, Opcodes
  <2> QED BY <1>0, <1>10, <2>1, <2>2, <2>4, <2>5, PortInv
     DEF IInv, Sm3Step3, IdleInv, Sm3Inv, Sm4Inv, SM3States, SM4States
<1>11. CASE Sm4Step1(dv, d, s0)
  <2>1. SM4Loaded /\ SM4Loaded' /\ rs2' = rs2
    BY <1>11, SameRequest DEF Sm4Step1, SM4Loaded, IInv, Sm4Inv, SM4States
  <2>2. cycle_counter = sbox_sel /\ cycle_counter' = cycle_counter + 1 /\ calc_done' = 0
        /\ o_data_valid' = state_count'
    BY <1>11, <1>0, PortInv DEF Sm4Step1, Count, IInv, Sm4Inv, TypeOK, SM4States
  <2>3. CASE SboxDone
    <3>1. Substituted(4)'
      BY <2>3, <1>11, <2>1 DEF Sm4Step1, SboxDone, IInv, Sm4Inv, Substituted
    <3> QED BY <1>0, <1>11, <2>1, <2>2, <2>3, <3>1
       DEF IInv, Sm4Step1, SboxDone, IdleInv, Sm3Inv, Sm4Inv, ReplyInv, ReplyReady, SM3States, SM4States
  <2>4. CASE ~SboxDone
    <3>1. sbox_sel \in 0 .. 3 /\ sbox_sel' = sbox_sel + 1 /\ Substituted(sbox_sel)
      BY <2>4, <1>0, <1>11 DEF Sm4Step1, SboxDone, TypeOK, IInv, Sm4Inv
    <3>2. sbox_in = rs2[4 - sbox_sel]
      BY <3>1, <2>1 DEF sbox_in, SM4Loaded
    <3>3. /\ sm4_sbox_out'[1] = SM4_Sbox(rs2[4 - sbox_sel])
          /\ sm4_sbox_out'[2] = sm4_sbox_out[1]
          /\ sm4_sbox_out'[3] = sm4_sbox_out[2]
          /\ sm4_sbox_out'[4] = sm4_sbox_out[3]
      BY <2>4, <1>11, <3>2 DEF Sm4Step1
    <3>4. Substituted(sbox_sel)'
      BY <3>1, <3>3, <2>1 DEF Substituted
    <3> QED BY <1>0, <1>11, <2>1, <2>2, <2>4, <3>1, <3>4
       DEF IInv, Sm4Step1, IdleInv, Sm3Inv, Sm4Inv, ReplyInv, ReplyReady, SM3States, SM4States
  <2> QED BY <2>3, <2>4
<1>12. CASE Sm4Step2(dv, d, s0)
  <2>1. SM4Loaded /\ SM4Loaded' /\ opcode' = opcode /\ rs2' = rs2
    BY <1>12, SameRequest DEF Sm4Step2, SM4Loaded, IInv, Sm4Inv, SM4States
  <2>2. sm4_sbox_out = SM4_Nonlinear(rs2)
    BY <1>12, <1>0, SubstitutedAll DEF Sm4Step2, IInv, Sm4Inv
  <2>3. sm4_linear_temp' = Lin(sm4_sbox_out)
    BY <1>12, <2>1, OpcodesDiffer
       DEF Sm4Step2, SM4Loaded, Lin, SM4_LinearKS, SM4_LinearED, custom3_sm4ks, custom3_sm4ed
  <2>4. (sm4_linear_temp = Lin(SM4_Nonlinear(rs2)))'
    BY <2>1, <2>2, <2>3 DEF Lin
  <2> QED BY <1>0, <1>12, <2>1, <2>4, PortInv
     DEF IInv, Sm4Step2, Count, IdleInv, Sm3Inv, Sm4Inv, ReplyInv, ReplyReady, SM3States, SM4States
<1>13. CASE Sm4Step3(dv, d, s0)
  <2>1. /\ SM4Loaded /\ SM4Loaded'
        /\ opcode' = opcode /\ rs1' = rs1 /\ rs2' = rs2
    BY <1>13, SameRequest DEF Sm4Step3, SM4Loaded, IInv, Sm4Inv, SM4States
  <2>2. (sm4_linear_temp = Lin(SM4_Nonlinear(rs2)))'
    BY <1>13, <2>1 DEF Sm4Step3, Lin, IInv, Sm4Inv
  <2>3. calc_result' = Custom3(opcode, rs1, rs2)
    BY <1>13, <1>0, <2>1, SM4Result DEF Sm4Step3, SM4Loaded, IInv, Sm4Inv
  <2>4. cycle_counter' = 7 /\ calc_done' = 1 /\ state' \in {"SM4_STEP3", "TX_DATA"}
    BY <1>13, <1>0, <2>1, OpcodesDiffer
       DEF Sm4Step3, Count, IInv, TypeOK, Bit, Sm4Inv, ReplyInv, ReplyReady, SM4Loaded,
           SM4States
  <2>5. ReplyInv'
    BY <2>1, <2>3, <2>4, OpcodesDiffer DEF ReplyInv, Custom3, SM4Loaded, Opcodes
  <2> QED BY <1>0, <1>13, <2>1, <2>2, <2>4, <2>5, PortInv
     DEF IInv, Sm4Step3, IdleInv, Sm3Inv, Sm4Inv, SM3States, SM4States
<1>14. CASE TxDataByte(s0)
  BY <1>0, <1>14, SameRequest
     DEF IInv, TxDataByte, Offer, IdleInv, Sm3Inv, Sm4Inv, ReplyInv, ReplyReady,
         Custom3, SM3States, SM4States
<1>15. CASE TxDataEnd(s0)
  BY <1>0, <1>15
     DEF IInv, TxDataEnd, IdleInv, Sm3Inv, Sm4Inv, ReplyInv, ReplyReady, SM3States, SM4States
<1>16. CASE TxDataWait(s0)
  BY <1>0, <1>16, SameRequest
     DEF IInv, TxDataWait, Release, portVars, IdleInv, Sm3Inv, Sm4Inv, ReplyInv, ReplyReady,
         Custom3, SM3States, SM4States
<1>17. CASE TxOneSend(s0)
  BY <1>0, <1>17
     DEF IInv, TxOneSend, Offer, IdleInv, Sm3Inv, Sm4Inv, ReplyInv, ReplyReady,
         SM3States, SM4States
<1>18. CASE TxOneWait(s0)
  BY <1>0, <1>18
     DEF IInv, TxOneWait, Release, portVars, IdleInv, Sm3Inv, Sm4Inv, ReplyInv, ReplyReady,
         SM3States, SM4States
<1> QED BY <1>1, <1>2, <1>3, <1>4, <1>5, <1>6, <1>7, <1>8, <1>9, <1>10, <1>11,
           <1>12, <1>13, <1>14, <1>15, <1>16, <1>17, <1>18 DEF Clock

(* Every edge of the clock and every reset preserves the invariant.        *)
LEMMA InvStep ==
    ASSUME IInv, [CoreNext]_coreVars
    PROVE  IInv'
<1>0. TypeOK /\ TypeOK'
  BY TypeStep DEF IInv
<1> USE DEF reqVars, sm3Vars, sm4Vars, calcVars
<1>1. CASE UNCHANGED coreVars
  <2>1. UNCHANGED nice_req_inst
    BY <1>1 DEF coreVars
  <2> QED BY <1>0, <1>1, <2>1, SameRequest
    DEF IInv, IdleInv, Sm3Inv, Sm4Inv, ReplyInv, ReplyReady, SM3Loaded, SM4Loaded,
        Substituted, Rot1, Rot2, Lin, coreVars, portVars
<1>2. CASE Reset
  BY <1>2, ResetInv
<1>3. ASSUME NEW dv \in Bit, NEW s0 \in Bit, NEW d \in Byte, Clock(dv, d, s0)
      PROVE  IInv'
  BY <1>3, ClockInv
<1>4. \A n \in 0 .. 12 : RxAt[n] \subseteq Byte
  BY RxAssumption
<1> QED BY <1>1, <1>2, <1>3, <1>4, <1>0 DEF CoreNext, TypeOK

(* The invariant of the calculation pipeline: in each state of nice_core.v *)
(* the intermediate registers hold the part of the operation that the      *)
(* earlier states computed for the request in the request register, and    *)
(* the counter the clocks that took.                                       *)
THEOREM InductiveInvariant == CoreSpec => []IInv
<1>1. IInv /\ [CoreNext]_coreVars => IInv'
  BY InvStep
<1> QED BY InitInv, <1>1, PTL DEF CoreSpec

(* ResultCorrect: whatever arrives during the computation, the result the  *)
(* core announces and sends is the one the software definition gives for   *)
(* the request it holds, for every substitution table and operand.         *)
THEOREM ResultIsCorrect == CoreSpec => []ResultCorrect
<1>1. IInv => ResultCorrect
  BY DEF IInv, ReplyInv, ResultCorrect
<1> QED BY InductiveInvariant, <1>1, PTL

(* LatencyExact: the count sent behind the result is exactly 3 clocks for  *)
(* SM3 and 7 for SM4, whatever the polls, reads and resets before.         *)
THEOREM LatencyIsExact == CoreSpec => []LatencyExact
<1>1. IInv => LatencyExact
  BY DEF IInv, ReplyInv, LatencyExact
<1> QED BY InductiveInvariant, <1>1, PTL

(* A byte on offer stays as it is until the clock that sees the            *)
(* transmitter busy, which takes it back; nothing is offered in such a     *)
(* clock (nice_core.v:107-115 and the states that send).                   *)
LEMMA PortStep ==
    ASSUME IInv, NEW dv, NEW d, NEW s0 \in Bit, Clock(dv, d, s0)
    PROVE  /\ s0 = 1 => o_data_valid' = 0
           /\ s0 = 0 /\ o_data_valid = 1 => o_data_valid' = 1 /\ UNCHANGED o_data_tx
<1>1. o_data_valid \in Bit /\ o_data_valid = state_count
  BY DEF IInv, TypeOK
<1>2. ASSUME Release(s0)
      PROVE  /\ s0 = 1 => o_data_valid' = 0
             /\ s0 = 0 => UNCHANGED <<o_data_valid, o_data_tx>>
  BY <1>2 DEF Release, portVars
<1>3. ASSUME Port(dv, d, s0)
      PROVE  /\ s0 = 1 => o_data_valid' = 0
             /\ s0 = 0 /\ o_data_valid = 1 => UNCHANGED <<o_data_valid, o_data_tx>>
  BY <1>1, <1>2, <1>3 DEF Port, PollAsked
<1> QED BY <1>1, <1>2, <1>3
     DEF Bit, Clock, IdleByte, IdleFull, IdleWait, StartSM3, StartSM4, RejectInst, LeaveInst,
         Sm3Step1, Sm3Step2, Sm3Step3, Sm4Step1, Sm4Step2, Sm4Step3,
         TxDataByte, TxDataEnd, TxDataWait, TxOneSend, TxOneWait

(* OfferHeld: a byte on offer to the transmitter never changes before it   *)
(* is taken, because the valid line and state_count move together.         *)
THEOREM OfferIsHeld == CoreSpec => OfferHeld
<1>1. ASSUME IInv, [CoreNext]_coreVars
      PROVE  [o_data_valid = 1 /\ o_data_valid' = 1 => UNCHANGED o_data_tx]_coreVars
  <2>1. SUFFICES ASSUME CoreNext, o_data_valid = 1, o_data_valid' = 1
                 PROVE  UNCHANGED o_data_tx
    BY <1>1
  <2>2. PICK dv \in Bit, s0 \in Bit : \E d \in RxAt[rx_byte_cnt] : Clock(dv, d, s0)
    BY <2>1 DEF CoreNext, Reset
  <2>3. PICK d \in RxAt[rx_byte_cnt] : Clock(dv, d, s0)
    BY <2>2
  <2> QED BY <1>1, <2>1, <2>3, PortStep DEF Bit
<1> QED BY InductiveInvariant, <1>1, PTL DEF CoreSpec, OfferHeld
=============================================================================
