-------------------------- MODULE Software_proofs --------------------------
(***************************************************************************)
(* Proofs about the guest programs and the simulator that runs them.  The  *)
(* guest: the read of a counter, the cipher, the padding of the hash, and  *)
(* the instruction bridge beneath them.  The simulator: traps for every    *)
(* set of interrupts and exceptions, every delegation and every program;   *)
(* the hart thread for every quantum and every reservation window, in the  *)
(* build without PIPELINE_TIMING; the floating-point state for every set   *)
(* of flags.                                                               *)
(***************************************************************************)
EXTENDS NiceHil, CounterRead, Sm4, Sm3Padding, Trap, Hart, Fpu, SequenceTheorems, TLAPS

-----------------------------------------------------------------------------
(* The read of a counter, for a low half of any size.                      *)

(* What the routine knows after each of its reads: until the high half     *)
(* moves on, the low half read lies between the counter's first value and  *)
(* its present one.                                                        *)
ReadSoFar ==
    /\ at # "high0" => began \preceq counter
    /\ at \in {"low", "high", "again"} => high0 = began.high
    /\ at = "high" /\ counter.high = high0 => began.low <= low /\ low <= counter.low
    /\ at = "again" => high0 < high /\ high <= counter.high
    /\ at = "return" => began \preceq full /\ full \preceq counter

CounterInv == CounterTypeOK /\ ReadSoFar

(* CounterInv holds in the first state of a guest that has read nothing.   *)
LEMMA CounterInvInit == CounterInit => CounterInv
BY CounterAssumption DEF CounterInit, CounterInv, CounterTypeOK, ReadSoFar, Values, Reads

(* Every CSR read, and every tick between two of them, preserves it.       *)
LEMMA CounterInvNext == CounterInv /\ [CounterNext]_counterVars => CounterInv'
<1> SUFFICES ASSUME CounterInv, [CounterNext]_counterVars PROVE CounterInv'
    OBVIOUS
<1>0. /\ counter.high \in Nat /\ counter.low \in Nat
      /\ began.high \in Nat /\ began.low \in Nat
      /\ high \in Nat /\ low \in Nat /\ high0 \in Nat
      /\ HIGHS \in Nat /\ Half \in Nat
    BY CounterAssumption DEF CounterInv, CounterTypeOK, Values
<1>1. CASE Count
  <2>1. PICK v \in Values : counter \preceq v /\ counter' = v
      BY <1>1 DEF Count
  <2>2. v.high \in Nat /\ v.low \in Nat
      BY CounterAssumption DEF Values
  <2>3. CounterTypeOK'
      BY <1>1, <2>1 DEF Count, CounterInv, CounterTypeOK
  <2>4. ReadSoFar'
      BY <1>0, <1>1, <2>1, <2>2 DEF Count, CounterInv, ReadSoFar, \preceq, full
  <2> QED BY <2>3, <2>4 DEF CounterInv
<1>2. CASE ReadHigh0
    BY <1>0, <1>2 DEF ReadHigh0, CounterInv, CounterTypeOK, ReadSoFar, Values, Reads, \preceq
<1>3. CASE ReadLow
    BY <1>0, <1>3 DEF ReadLow, CounterInv, CounterTypeOK, ReadSoFar, Values, Reads, \preceq
<1>4. CASE ReadHigh
    BY <1>0, <1>4 DEF ReadHigh, CounterInv, CounterTypeOK, ReadSoFar, Values, Reads, \preceq, full
<1>5. CASE ReadLowAgain
    BY <1>0, <1>5 DEF ReadLowAgain, CounterInv, CounterTypeOK, ReadSoFar, Values, Reads, \preceq, full
<1>6. CASE UNCHANGED counterVars
    BY <1>6 DEF counterVars, CounterInv, CounterTypeOK, ReadSoFar, full
<1> QED BY <1>1, <1>2, <1>3, <1>4, <1>5, <1>6 DEF CounterNext

(* The value __get_rv_cycle and its siblings return is one the counter     *)
(* passed while it was read, for every width of the counter's halves.      *)
THEOREM CounterRight == CounterSpec => []ReadInInterval
<1>1. CounterInv => ReadInInterval
    BY DEF CounterInv, ReadSoFar, ReadInInterval
<1> QED BY <1>1, CounterInvInit, CounterInvNext, PTL DEF CounterSpec

-----------------------------------------------------------------------------
(* The cipher, for any number of rounds and any round function.            *)

(* What the encryption makes of round n.                                   *)
Mixed(n) == custom3_sm4ed(X[n], X[n + 1] (+) X[n + 2] (+) X[n + 3] (+) rk[n])

(* Which words the encryption has made, and which of them the decryption   *)
(* has found again.                                                        *)
Sm4Progress ==
    /\ phase # "key" => \A n \in 0 .. 3 : X[n] = cipher[n]
    /\ phase = "encrypt" => \A n \in 0 .. (Rounds - 1) : n < i => X[n + 4] = Mixed(n)
    /\ phase \in {"decrypt", "done"} => \A n \in 0 .. (Rounds - 1) : X[n + 4] = Mixed(n)
    /\ phase = "decrypt" => \A n \in 0 .. (i + 3) : Y[n] = X[Rounds + 3 - n]
    /\ phase = "done" => \A n \in Index : Y[n] = X[Rounds + 3 - n]

Sm4Inv == Sm4TypeOK /\ Sm4Progress

(* A round undoes itself when it is given its operands in reverse.         *)
LEMMA RoundInverts ==
    ASSUME NEW w, NEW a, NEW b, NEW c, NEW k
    PROVE  custom3_sm4ed(custom3_sm4ed(w, a (+) b (+) c (+) k), c (+) b (+) a (+) k) = w
<1>1. c (+) b (+) a (+) k = a (+) b (+) c (+) k
    BY DEF (+)
<1>2. \A e : (w (+) e) (+) e = w
    BY DEF (+)
<1> QED BY <1>1, <1>2 DEF custom3_sm4ed

(* The instructions return words.                                          *)
LEMMA InstructionsType ==
    ASSUME NEW w \in Words, NEW t
    PROVE  custom3_sm4ks(w, t) \in Words /\ custom3_sm4ed(w, t) \in Words
BY DEF Words, custom3_sm4ks, custom3_sm4ed, (+)

LEMMA Sm4InvInit == Sm4Init => Sm4Inv
<1> SUFFICES ASSUME Sm4Init PROVE Sm4Inv
    OBVIOUS
<1>1. PICK key \in Keys : K = First([n \in 0 .. 3 |-> key[n] (+) SM4_FK[n]])
    BY DEF Sm4Init
<1>2. [n \in 0 .. 3 |-> key[n] (+) SM4_FK[n]] \in Quads
    BY Sm4Assumption DEF Quads, Words, (+)
<1>3. K \in [Index -> Words]
    BY <1>1, <1>2, Sm4Assumption DEF First, Quads, Words, Index
<1>4. cipher \in Quads /\ Rounds \in Nat \ {0}
    BY Sm4Assumption DEF Sm4Init
<1>5. Sm4TypeOK
    BY <1>3, <1>4 DEF Sm4Init, Sm4TypeOK, Empty, Words
<1>6. Sm4Progress
    BY DEF Sm4Init, Sm4Progress
<1> QED BY <1>5, <1>6 DEF Sm4Inv

(* Every iteration of the three loops preserves Sm4Inv.                    *)
LEMMA Sm4InvNext == Sm4Inv /\ [Sm4Next]_sm4Vars => Sm4Inv'
<1> SUFFICES ASSUME Sm4Inv, [Sm4Next]_sm4Vars PROVE Sm4Inv'
    OBVIOUS
<1>0. /\ Rounds \in Nat \ {0} /\ i \in 0 .. (Rounds - 1) /\ cipher \in Quads
      /\ K \in [Index -> Words] /\ X \in [Index -> Words] /\ Y \in [Index -> Words]
      /\ rk \in [0 .. (Rounds - 1) -> Words]
    BY Sm4Assumption DEF Sm4Inv, Sm4TypeOK
<1>a. \A q \in Quads : First(q) \in [Index -> Words] /\ \A n \in 0 .. 3 : First(q)[n] = q[n]
    BY <1>0 DEF First, Quads, Words, Index
<1>1. CASE ExpandKey
  <2>1. K' \in [Index -> Words] /\ rk' \in [0 .. (Rounds - 1) -> Words]
      BY <1>0, <1>1, InstructionsType DEF ExpandKey, Index
  <2>2. CASE i + 1 < Rounds
    <3>1. phase' = "key" /\ i' = i + 1 /\ UNCHANGED <<X, Y, cipher>>
        BY <1>1, <2>2 DEF ExpandKey, Advance
    <3> QED BY <1>0, <2>1, <2>2, <3>1 DEF Sm4Inv, Sm4TypeOK, Sm4Progress
  <2>3. CASE ~(i + 1 < Rounds)
    <3>1. phase' = "encrypt" /\ i' = 0 /\ X' = First(cipher) /\ UNCHANGED <<Y, cipher>>
        BY <1>1, <2>3 DEF ExpandKey, Advance
    <3> QED BY <1>0, <1>a, <2>1, <3>1 DEF Sm4Inv, Sm4TypeOK, Sm4Progress
  <2> QED BY <2>2, <2>3
<1>2. CASE Encrypt
  <2> DEFINE E == custom3_sm4ed(X[i], Temp(X, rk[i]))
  <2>1. X' = [X EXCEPT ![i + 4] = E] /\ UNCHANGED <<K, rk, cipher>> /\ phase = "encrypt"
      BY <1>2 DEF Encrypt
  <2>2. E \in Words /\ i + 4 \in Index /\ i \in Index
      BY <1>0, InstructionsType DEF Index
  <2>3. X' \in [Index -> Words] /\ X'[i + 4] = E
        /\ \A n \in Index : n # i + 4 => X'[n] = X[n]
      BY <1>0, <2>1, <2>2
  <2>4. \A n \in 0 .. 3 : X'[n] = cipher[n]
      BY <1>0, <2>1, <2>3 DEF Sm4Inv, Sm4Progress, Index
  <2>5. \A n \in 0 .. (Rounds - 1) : n = i => Mixed(n)' = E
    <3>1. /\ X'[i] = X[i] /\ X'[i + 1] = X[i + 1]
          /\ X'[i + 2] = X[i + 2] /\ X'[i + 3] = X[i + 3]
        BY <1>0, <2>3 DEF Index
    <3> QED BY <2>1, <3>1 DEF Mixed, Temp
  <2>6. \A n \in 0 .. (Rounds - 1) : n < i => Mixed(n)' = Mixed(n) /\ X'[n + 4] = X[n + 4]
      BY <1>0, <2>1, <2>3 DEF Mixed, Index
  <2>7. \A n \in 0 .. (Rounds - 1) : n < i + 1 => X'[n + 4] = Mixed(n)'
    <3> SUFFICES ASSUME NEW n \in 0 .. (Rounds - 1), n < i + 1 PROVE X'[n + 4] = Mixed(n)'
        OBVIOUS
    <3>1. CASE n < i
        BY <2>1, <2>6, <3>1 DEF Sm4Inv, Sm4Progress
    <3>2. CASE n = i
        BY <2>3, <2>5, <3>2
    <3> QED BY <1>0, <3>1, <3>2
  <2>8. CASE i + 1 < Rounds
    <3>1. phase' = "encrypt" /\ i' = i + 1 /\ Y' = Y
        BY <1>2, <2>8 DEF Encrypt, Advance
    <3>2. Sm4TypeOK'
        BY <1>0, <2>1, <2>3, <2>8, <3>1 DEF Sm4TypeOK
    <3>3. Sm4Progress'
        BY <2>1, <2>4, <2>7, <3>1 DEF Sm4Progress, Mixed
    <3> QED BY <3>2, <3>3 DEF Sm4Inv
  <2>9. CASE ~(i + 1 < Rounds)
    <3> DEFINE last == [n \in 0 .. 3 |-> X'[Rounds + 3 - n]]
    <3>1. phase' = "decrypt" /\ i' = 0 /\ Y' = First(last)
        BY <1>2, <2>9 DEF Encrypt, Advance
    <3>2. last \in Quads
        BY <1>0, <2>3 DEF Quads, Index
    <3>3. Y' \in [Index -> Words] /\ \A n \in 0 .. 3 : Y'[n] = X'[Rounds + 3 - n]
        BY <1>a, <3>1, <3>2
    <3>4. Sm4TypeOK'
        BY <1>0, <2>1, <2>3, <3>1, <3>3 DEF Sm4TypeOK
    <3>5. \A n \in 0 .. (Rounds - 1) : X'[n + 4] = Mixed(n)'
        BY <1>0, <2>7, <2>9
    <3>6. Sm4Progress'
        BY <2>1, <2>4, <3>1, <3>3, <3>5 DEF Sm4Progress, Mixed
    <3> QED BY <3>4, <3>6 DEF Sm4Inv
  <2> QED BY <2>8, <2>9
<1>3. CASE Decrypt
  <2> DEFINE m == Rounds - 1 - i
             D == custom3_sm4ed(Y[i], Temp(Y, RoundKey(i)))
  <2>1. Y' = [Y EXCEPT ![i + 4] = D] /\ UNCHANGED <<K, X, rk, cipher>> /\ phase = "decrypt"
      BY <1>3 DEF Decrypt
  <2>2. D \in Words /\ i + 4 \in Index
      BY <1>0, InstructionsType DEF Index
  <2>3. Y' \in [Index -> Words] /\ Y'[i + 4] = D
        /\ \A n \in Index : n # i + 4 => Y'[n] = Y[n]
      BY <1>0, <2>1, <2>2
  <2>4. m \in 0 .. (Rounds - 1)
      BY <1>0
  <2>5. /\ Y[i] = X[m + 4] /\ Y[i + 1] = X[m + 3]
        /\ Y[i + 2] = X[m + 2] /\ Y[i + 3] = X[m + 1]
      BY <1>0, <2>1 DEF Sm4Inv, Sm4Progress
  <2>6. X[m + 4] = Mixed(m)
      BY <2>1, <2>4 DEF Sm4Inv, Sm4Progress
  <2>7. D = X[m]
      BY <2>5, <2>6, RoundInverts DEF Mixed, Temp, RoundKey
  <2>8. \A n \in 0 .. (i + 4) : Y'[n] = X[Rounds + 3 - n]
    <3> SUFFICES ASSUME NEW n \in 0 .. (i + 4) PROVE Y'[n] = X[Rounds + 3 - n]
        OBVIOUS
    <3>1. CASE n = i + 4
        BY <1>0, <2>3, <2>7, <3>1
    <3>2. CASE n # i + 4
        BY <1>0, <2>1, <2>3, <3>2 DEF Sm4Inv, Sm4Progress, Index
    <3> QED BY <3>1, <3>2
  <2>9. (phase # "key" => \A n \in 0 .. 3 : X[n] = cipher[n])'
        /\ \A n \in 0 .. (Rounds - 1) : X'[n + 4] = Mixed(n)'
      BY <2>1 DEF Sm4Inv, Sm4Progress, Mixed
  <2>10. CASE i + 1 < Rounds
    <3>1. phase' = "decrypt" /\ i' = i + 1
        BY <1>3, <2>1, <2>10 DEF Decrypt, Advance
    <3>2. Sm4TypeOK'
        BY <1>0, <2>1, <2>3, <2>10, <3>1 DEF Sm4TypeOK
    <3>3. i' + 3 = i + 4
        BY <1>0, <3>1
    <3>4. Sm4Progress'
        BY <2>1, <2>8, <2>9, <3>1, <3>3 DEF Sm4Progress
    <3> QED BY <3>2, <3>4 DEF Sm4Inv
  <2>11. CASE ~(i + 1 < Rounds)
    <3>1. phase' = "done" /\ i' = 0
        BY <1>3, <2>11 DEF Decrypt, Advance
    <3>2. Sm4TypeOK'
        BY <1>0, <2>1, <2>3, <3>1 DEF Sm4TypeOK
    <3>3. Index = 0 .. (i + 4)
        BY <1>0, <2>11 DEF Index
    <3>4. Sm4Progress'
        BY <2>1, <2>8, <2>9, <3>1, <3>3 DEF Sm4Progress
    <3> QED BY <3>2, <3>4 DEF Sm4Inv
  <2> QED BY <2>10, <2>11
<1>4. CASE UNCHANGED sm4Vars
    BY <1>4 DEF sm4Vars, Sm4Inv, Sm4TypeOK, Sm4Progress, Mixed
<1> QED BY <1>1, <1>2, <1>3, <1>4 DEF Sm4Next

(* sm4_nice decrypts what it has encrypted, whatever the coprocessor's two *)
(* instructions mix into their first operand, the key and the block.       *)
THEOREM CipherInverts == Sm4Spec => []DecryptInverts
<1>1. ASSUME Sm4Inv PROVE DecryptInverts
  <2> SUFFICES ASSUME phase = "done" PROVE Result(Y) = cipher
      BY DEF DecryptInverts
  <2>1. \A n \in 0 .. 3 : Y[Rounds + 3 - n] = cipher[n]
      BY <1>1, Sm4Assumption DEF Sm4Inv, Sm4Progress, Index
  <2> QED BY <1>1, <2>1 DEF Result, Sm4Inv, Sm4TypeOK, Quads
<1> QED BY <1>1, Sm4InvInit, Sm4InvNext, PTL DEF Sm4Spec

-----------------------------------------------------------------------------
(* The padding of the hash, for a message of any length.                   *)

LEMMA Blocks64 ==
    ASSUME NEW d \in Nat
    PROVE  d \div 64 \in Nat /\ 64 * (d \div 64) <= d /\ d < 64 * (d \div 64) + 64
OBVIOUS

(* SM3_nice always has room for the message, the mark and the length, and  *)
(* hashes the number of blocks of the standard, or one more: exactly when  *)
(* message, mark and length fill their blocks.                             *)
THEOREM PaddingFits ==
    ASSUME NEW len \in Nat
    PROVE  /\ len + 9 <= 64 * NumBlocks(len)
           /\ LengthIndex(len, 8) >= len
           /\ NumBlocks(len) = (len + 9 + 63) \div 64 <=> (len + 9) % 64 # 0
           /\ NumBlocks(len) <= (len + 9 + 63) \div 64 + 1
<1> DEFINE d == len + 1 + 8 + 64
           b == NumBlocks(len)
<1>1. b \in Nat /\ 64 * b <= d /\ d < 64 * b + 64
    BY Blocks64 DEF NumBlocks
<1>2. len + 9 <= 64 * b
    BY <1>1
<1>3. LengthIndex(len, 8) >= len
    BY <1>1, <1>2 DEF LengthIndex
<1> QED BY <1>1, <1>2, <1>3 DEF NumBlocks
-----------------------------------------------------------------------------
(* The instruction bridge, for any number of instructions and unplugs.     *)

(* What the adapter hands over is still the same stream of bytes.          *)
LEMMA HandedOver ==
    ASSUME received \in Seq(Bytes), line \in Seq(Bytes), NEW n \in 1 .. Len(line)
    PROVE  /\ received \o SubSeq(line, 1, n) \in Seq(Bytes)
           /\ SubSeq(line, n + 1, Len(line)) \in Seq(Bytes)
           /\ (received \o SubSeq(line, 1, n)) \o SubSeq(line, n + 1, Len(line)) = received \o line
<1>1. SubSeq(line, 1, n) \in Seq(Bytes) /\ SubSeq(line, n + 1, Len(line)) \in Seq(Bytes)
    OBVIOUS
<1>2. SubSeq(line, 1, n) \o SubSeq(line, n + 1, Len(line)) = line
  <2>1. /\ 1 \in 1 .. Len(line) + 1 /\ n \in (1 - 1) .. Len(line) /\ Len(line) \in n .. Len(line)
      BY LenProperties
  <2>2. SubSeq(line, 1, n) \o SubSeq(line, n + 1, Len(line)) = SubSeq(line, 1, Len(line))
      BY <2>1, ConcatAdjacentSubSeq
  <2> QED BY <2>2, SubSeqFull
<1>3. ASSUME NEW a \in Seq(Bytes), NEW b \in Seq(Bytes), a \o b = line
      PROVE  received \o a \in Seq(Bytes) /\ (received \o a) \o b = received \o line
  <2>1. (received \o a) \o b = received \o (a \o b)
      OBVIOUS
  <2> QED BY <1>3, <2>1
<1> QED BY <1>1, <1>2, <1>3, Zenon

(* Five bytes received are all of a reply of five bytes.                   *)
LEMMA WholeReply ==
    ASSUME NEW S, NEW r \in Seq(S), NEW l \in Seq(S), NEW w \in Seq(S),
           r \o l = w, Len(w) = 5, Len(r) >= 5
    PROVE  r = w /\ l = <<>>
<1>1. Len(r) + Len(l) = 5
    BY ConcatProperties
<1>2. Len(l) = 0 /\ l = <<>>
    BY <1>1, EmptySeq, LenProperties
<1> QED BY <1>2, ConcatEmptySeq

(* Nothing but the reply is on its way to an instruction that found the    *)
(* line empty, and until there is a glitch every instruction finds it so.  *)
OnlyReply ==
    \/ received = <<>> /\ line = <<>>
    \/ ~core /\ received \o line = Reply(calls)

BridgeInv ==
    /\ NiceHilTypeOK
    /\ pc = "waiting" => calls > 0
    /\ pc = "waiting" /\ clean => OnlyReply
    /\ ~glitch => /\ pc = "ready" => received = <<>> /\ line = <<>> /\ ~core
                  /\ pc = "waiting" => clean
    /\ RightWithoutGlitch /\ FlushRestores

LEMMA ReplyType ==
    ASSUME NEW c \in 0 .. CALLS
    PROVE  Reply(c) \in Seq(Bytes) /\ Reply(c) \in [1 .. 5 -> Bytes] /\ Len(Reply(c)) = 5
<1>1. Reply(c) \in [1 .. 5 -> Bytes]
    BY DEF Reply, Bytes
<1>2. Reply(c) \in Seq(Bytes)
  <2>1. Seq(Bytes) = UNION {[1 .. n -> Bytes] : n \in Nat}
      BY SeqDef
  <2> QED BY <1>1, <2>1
<1>3. Len(Reply(c)) \in Nat /\ 1 .. Len(Reply(c)) = 1 .. 5
    BY <1>1, <1>2, LenProperties
<1> QED BY <1>1, <1>2, <1>3

LEMMA BridgeInvInit == NiceHilInit => BridgeInv
<1> SUFFICES ASSUME NiceHilInit PROVE BridgeInv
    OBVIOUS
<1>1. CALLS \in Nat /\ UNPLUGS \in Nat
    BY NiceHilAssumption
<1>2. Zeros \in [1 .. 5 -> Bytes]
    BY <1>1 DEF Zeros, Bytes
<1>3. NiceHilTypeOK
  <2>1. <<>> \in Seq(Bytes)
      BY EmptySeq
  <2>2. read_buff \in [Objects -> [1 .. 5 -> Bytes]]
      BY <1>2 DEF NiceHilInit
  <2>3. /\ calls \in 0 .. CALLS /\ unplugs \in 0 .. UNPLUGS
        /\ pc = "ready" /\ fd = "failed" /\ object \in Objects
      BY <1>1 DEF NiceHilInit
  <2>4. {device, core, clean, whole, glitch} \subseteq BOOLEAN
      BY Zenon DEF NiceHilInit
  <2>5. line \in Seq(Bytes) /\ received \in Seq(Bytes)
      BY <2>1 DEF NiceHilInit
  <2> QED BY <2>2, <2>3, <2>4, <2>5 DEF NiceHilTypeOK
<1> QED BY <1>3 DEF NiceHilInit, BridgeInv, RightWithoutGlitch, FlushRestores

(* The end of the read loop preserves it: five bytes are the whole reply,  *)
(* and fewer are a glitch.                                                 *)
LEMMA BridgeInvReturn ==
    ASSUME BridgeInv, pc = "waiting", NEW n \in 0 .. 5, NEW counted \in BOOLEAN,
           n <= Len(received), Charged(n, counted), Return(n, counted)
    PROVE  BridgeInv'
<1>1. /\ received \in Seq(Bytes) /\ line \in Seq(Bytes) /\ calls \in 0 .. CALLS
      /\ CALLS \in Nat /\ object \in Objects /\ calls > 0
      /\ read_buff \in [Objects -> [1 .. 5 -> Bytes]]
    BY NiceHilAssumption DEF BridgeInv, NiceHilTypeOK
<1> DEFINE buff == [k \in 1 .. 5 |-> IF k <= n THEN received[k] ELSE read_buff[object][k]]
<1>2. buff \in [1 .. 5 -> Bytes] /\ read_buff' = [read_buff EXCEPT ![object] = buff]
    BY <1>1 DEF Return
<1>3. received' \in Seq(Bytes)
    BY <1>1 DEF Return
<1>4. NiceHilTypeOK'
    BY <1>1, <1>2, <1>3 DEF BridgeInv, NiceHilTypeOK, Return
<1>5. CASE n = 5 /\ clean
  <2>1. received = Reply(calls) /\ line = <<>> /\ ~core
    <3>1. received # <<>>
        BY <1>1, <1>5, EmptySeq
    <3>2. received \o line = Reply(calls) /\ ~core
        BY <1>5, <3>1 DEF BridgeInv, OnlyReply
    <3> QED BY <1>1, <1>5, <3>2, ReplyType, WholeReply
  <2>2. received' = <<>>
    <3>1. Len(received) = 5
        BY <1>1, <2>1, ReplyType
    <3>2. received' = SubSeq(received, 6, 5)
        BY <1>5, <3>1 DEF Return
    <3> QED BY <3>2, SubSeqEmpty
  <2>3. read_buff'[object] = Reply(calls)
      BY <1>1, <1>2, <1>5, <2>1, ReplyType DEF Reply
  <2>4. pc' = "ready"
      BY <1>1, <1>5, <2>1 DEF Charged, MayFail, Reply, Return
  <2> QED BY <1>4, <1>5, <2>1, <2>2, <2>3, <2>4
          DEF Return, BridgeInv, RightWithoutGlitch, FlushRestores
<1>6. CASE ~(n = 5 /\ clean)
  <2>1. glitch' /\ ~(whole' /\ clean') /\ pc' # "waiting"
    <3>1. n < 5 \/ (n = 5 /\ ~clean)
        BY <1>6
    <3>2. (n < 5) => ~(n = 5)
        OBVIOUS
    <3>3. ~clean => glitch
        BY DEF BridgeInv
    <3> QED BY <3>1, <3>2, <3>3, Zenon DEF Return
  <2> QED BY <1>4, <2>1 DEF BridgeInv, RightWithoutGlitch, FlushRestores
<1> QED BY <1>5, <1>6

LEMMA BridgeInvNext == BridgeInv /\ [NiceHilNext]_nhVars => BridgeInv'
<1> SUFFICES ASSUME BridgeInv, [NiceHilNext]_nhVars PROVE BridgeInv'
    OBVIOUS
<1>0. /\ received \in Seq(Bytes) /\ line \in Seq(Bytes) /\ calls \in 0 .. CALLS
      /\ CALLS \in Nat /\ UNPLUGS \in Nat /\ unplugs \in 0 .. UNPLUGS
    BY NiceHilAssumption DEF BridgeInv, NiceHilTypeOK
<1>1. ASSUME NEW o \in Objects, Issue(o) PROVE BridgeInv'
  <2>1. received' = <<>> /\ received' \in Seq(Bytes) /\ calls' \in 0 .. CALLS /\ calls' > 0
      BY <1>0, <1>1, EmptySeq DEF Issue, set_dev
  <2>2. NiceHilTypeOK'
      BY <1>1, <2>1 DEF BridgeInv, NiceHilTypeOK, Issue
  <2> QED BY <1>1, <2>1, <2>2
          DEF Issue, BridgeInv, OnlyReply, RightWithoutGlitch, FlushRestores
<1>2. CASE ReadReply
  <2>1. PICK counted \in BOOLEAN :
            Charged(Least(5, Len(received)), counted) /\ Return(Least(5, Len(received)), counted)
      BY <1>2 DEF ReadReply
  <2>2. Least(5, Len(received)) \in 0 .. 5 /\ Least(5, Len(received)) <= Len(received)
    <3>1. Len(received) \in Nat
        BY <1>0, LenProperties
    <3>2. \A k \in Nat : Least(5, k) \in 0 .. 5 /\ Least(5, k) <= k
        BY DEF Least
    <3> QED BY <3>1, <3>2
  <2> QED BY <1>2, <2>1, <2>2, BridgeInvReturn DEF ReadReply
<1>3. CASE ReadError
  <2>1. PICK counted \in BOOLEAN : Charged(0, counted) /\ Return(0, counted)
      BY <1>3 DEF ReadError
  <2>2. 0 <= Len(received)
      BY <1>0, LenProperties
  <2> QED BY <1>3, <2>1, <2>2, BridgeInvReturn DEF ReadError
<1>4. CASE Answer
  <2>1. line' \in Seq(Bytes)
      BY <1>0, <1>4, ReplyType, ConcatProperties DEF Answer
  <2>2. NiceHilTypeOK'
      BY <1>4, <2>1 DEF BridgeInv, NiceHilTypeOK, Answer
  <2>3. Reply(calls)' = Reply(calls)
      BY <1>4 DEF Answer, Reply
  <2>4. OnlyReply => OnlyReply'
    <3>1. <<>> \o (<<>> \o Reply(calls)) = Reply(calls)
        BY <1>0, ReplyType, ConcatEmptySeq
    <3> QED BY <1>4, <2>3, <3>1 DEF OnlyReply, Answer
  <2> QED BY <1>4, <2>2, <2>3, <2>4 DEF Answer, BridgeInv, RightWithoutGlitch, FlushRestores
<1>5. CASE Arrive
  <2>1. PICK n \in 1 .. Len(line) : /\ received' = received \o SubSeq(line, 1, n)
                                    /\ line' = SubSeq(line, n + 1, Len(line))
      BY <1>5 DEF Arrive
  <2>2. /\ received' \in Seq(Bytes) /\ line' \in Seq(Bytes)
        /\ received' \o line' = received \o line
    <3>1. n \in 1 .. Len(line)
        BY <2>1
    <3>2. /\ received \o SubSeq(line, 1, n) \in Seq(Bytes)
          /\ SubSeq(line, n + 1, Len(line)) \in Seq(Bytes)
          /\ (received \o SubSeq(line, 1, n)) \o SubSeq(line, n + 1, Len(line)) = received \o line
        BY <1>0, <3>1, HandedOver, Zenon
    <3> QED BY <2>1, <3>2
  <2>3. NiceHilTypeOK'
      BY <1>5, <2>2 DEF BridgeInv, NiceHilTypeOK, Arrive
  <2>4. line # <<>>
      BY <1>0, <2>1, EmptySeq
  <2>5. Reply(calls)' = Reply(calls)
      BY <1>5 DEF Arrive, Reply
  <2> QED BY <1>5, <2>2, <2>3, <2>4, <2>5
          DEF Arrive, BridgeInv, OnlyReply, RightWithoutGlitch, FlushRestores
<1>6. CASE Unplug
  <2>1. NiceHilTypeOK'
    <3>1. <<>> \in Seq(Bytes)
        BY EmptySeq
    <3>2. unplugs' \in 0 .. UNPLUGS
        BY <1>0, <1>6 DEF Unplug
    <3> QED BY <1>6, <3>1, <3>2 DEF BridgeInv, NiceHilTypeOK, Unplug
  <2>2. Reply(calls)' = Reply(calls)
      BY <1>6 DEF Unplug, Reply
  <2> QED BY <1>6, <2>1, <2>2
          DEF Unplug, BridgeInv, OnlyReply, RightWithoutGlitch, FlushRestores
<1>7. CASE Plug
  <2>1. NiceHilTypeOK'
      BY <1>7 DEF BridgeInv, NiceHilTypeOK, Plug
  <2>2. Reply(calls)' = Reply(calls)
      BY <1>7 DEF Plug, Reply
  <2> QED BY <1>7, <2>1, <2>2
          DEF Plug, BridgeInv, OnlyReply, RightWithoutGlitch, FlushRestores
<1>8. CASE UNCHANGED nhVars
    BY <1>8 DEF nhVars, BridgeInv, NiceHilTypeOK, OnlyReply, RightWithoutGlitch,
                FlushRestores, Reply
<1> QED BY <1>1, <1>2, <1>3, <1>4, <1>5, <1>6, <1>7, <1>8 DEF NiceHilNext, ReadFails

(* Until nice.h reads a reply short or its port fails, every instruction   *)
(* gets the coprocessor's answer to it.                                    *)
THEOREM BridgeRight == NiceHilSpec => []RightWithoutGlitch
<1>1. BridgeInv => RightWithoutGlitch
    BY DEF BridgeInv
<1> QED BY <1>1, BridgeInvInit, BridgeInvNext, PTL DEF NiceHilSpec

(* After a short read too, every instruction that finds the line empty and *)
(* reads five bytes gets its own answer: the flush of set_dev repairs it.  *)
THEOREM FlushRepairs == NiceHilSpec => []FlushRestores
<1>1. BridgeInv => FlushRestores
    BY DEF BridgeInv
<1> QED BY <1>1, BridgeInvInit, BridgeInvNext, PTL DEF NiceHilSpec

-----------------------------------------------------------------------------
(* Privilege and traps.                                                    *)

HartType ==
    [prv : Levels, pc : Places, ie : [Modes -> BOOLEAN], pie : [Modes -> BOOLEAN],
     mpp : Levels, spp : {UserMode, SupervisorMode}, epc : [Modes -> Places],
     mie : SUBSET Irqs, mip : SUBSET Irqs, deleg : Delegs]

(* ContextKept of a hart and a history.                                    *)
KeptFor(h, c, m) ==
    c[m] # NoCtx =>
        /\ h.epc[m] = c[m].pc /\ h.pie[m] = c[m].ie
        /\ ~(m = SupervisorMode /\ c[m].prv = ReservedMode) =>
              c[m].prv <= m /\ PrevPrv(h, m) = c[m].prv

Kept(h, c) == \A m \in Modes : KeptFor(h, c, m)

History == [Modes -> [pc : Places \cup {"none"}, prv : Levels \cup {NoneMode}, ie : BOOLEAN]]

Good(h, c) == h \in HartType /\ c \in History /\ Kept(h, c)

TrapInv ==
    /\ Good(hart, ctx) /\ writes \in 0 .. WRITES
    /\ stop \in {"no", "assert", "unknown"}

USE DEF UserMode, SupervisorMode, MachineMode, Modes, ReservedMode

-----------------------------------------------------------------------------
LEMMA LevelsAre == Levels \subseteq 0 .. 3 /\ Modes \subseteq Levels
BY TrapAssumption DEF Levels

(* A trap that leads to mode t leaves a mode that is not more privileged,  *)
(* or it is a trap from the reserved level to the supervisor.              *)
Leads(h, t) == h.prv <= t \/ (t = SupervisorMode /\ h.prv = ReservedMode)

(* An interrupt leads to a mode at least as privileged as the one it       *)
(* leaves.                                                                 *)
LEMMA TargetIsAbove ==
    ASSUME NEW h \in HartType, TargetMode(h) # NoneMode
    PROVE  TargetMode(h) \in Modes /\ h.prv <= TargetMode(h)
<1>1. h.prv \in 0 .. 3
    BY LevelsAre DEF HartType
<1> QED
    BY <1>1 DEF TargetMode, NoneMode, Enabled

LEMMA TrapIsAbove ==
    ASSUME NEW h \in HartType, NEW r, ~(TrapMode(h, r) = UserMode /\ h.prv # UserMode)
    PROVE  TrapMode(h, r) \in Modes /\ Leads(h, TrapMode(h, r))
<1>1. h.prv \in 0 .. 3
    BY LevelsAre DEF HartType
<1> QED
    BY <1>1 DEF TrapMode, Leads

(* The switch to a handler of mode t keeps the types, and what it saves is *)
(* what the history remembers; other modes are not touched.                *)
LEMMA SwitchType ==
    ASSUME NEW h \in HartType, NEW t \in Modes
    PROVE  SwitchTo(h, t) \in HartType
<1>1. h.prv \in Levels /\ t \in Levels /\ h.prv \in 0 .. 3
    BY LevelsAre DEF HartType
<1>2. h.prv % 2 \in {UserMode, SupervisorMode}
    BY <1>1
<1> QED
    BY <1>1, <1>2 DEF SwitchTo, HartType, Places

LEMMA SwitchKept ==
    ASSUME NEW h, NEW c, NEW t \in Modes, Good(h, c), Leads(h, t)
    PROVE  Good(SwitchTo(h, t), Saves(c, h, t))
<1> DEFINE g == SwitchTo(h, t)
           d == Saves(c, h, t)
<1>1. h \in HartType /\ c \in History /\ Kept(h, c)
    BY DEF Good
<1>2. g \in HartType
    BY <1>1, SwitchType
<1>3. d \in History
    BY <1>1 DEF Saves, History, HartType
<1>4. ASSUME NEW m \in Modes, m # t PROVE KeptFor(g, d, m)
    <2>1. d[m] = c[m]
        BY <1>1, <1>4 DEF Saves, History
    <2>2. g.epc[m] = h.epc[m] /\ g.pie[m] = h.pie[m]
        BY <1>1, <1>4 DEF SwitchTo, HartType
    <2>3. PrevPrv(g, m) = PrevPrv(h, m)
        BY <1>1, <1>4 DEF SwitchTo, HartType, PrevPrv
    <2> QED
        BY <1>1, <2>1, <2>2, <2>3 DEF Kept, KeptFor
<1>5. KeptFor(g, d, t)
    <2>1. d[t] = [pc |-> h.pc, prv |-> h.prv, ie |-> h.ie[t]]
        BY <1>1 DEF Saves, History
    <2>2. g.epc[t] = h.pc /\ g.pie[t] = h.ie[t]
        BY <1>1 DEF SwitchTo, HartType
    <2>3. ASSUME ~(t = SupervisorMode /\ h.prv = ReservedMode)
          PROVE  h.prv <= t /\ PrevPrv(g, t) = h.prv
        <3>1. h.prv \in 0 .. 3 /\ h.prv <= t
            BY <1>1, <2>3, LevelsAre DEF HartType, Leads
        <3>2. (t = UserMode => h.prv = UserMode) /\ (t = SupervisorMode => h.prv % 2 = h.prv)
            BY <3>1
        <3> QED
            BY <1>1, <3>1, <3>2 DEF SwitchTo, HartType, PrevPrv
    <2> QED
        BY <2>1, <2>2, <2>3 DEF KeptFor
<1> QED
    BY <1>2, <1>3, <1>4, <1>5 DEF Good, Kept
-----------------------------------------------------------------------------
(* The two ends of a step.                                                 *)
LEMMA CompletesKeeps ==
    ASSUME NEW h, NEW c, Good(h, c), Completes(h, c)
    PROVE  Good(hart, ctx)' /\ stop' = stop
<1>1. CASE TargetMode(h) = NoneMode
    BY <1>1 DEF Completes
<1>2. CASE TargetMode(h) # NoneMode
    <2>1. TargetMode(h) \in Modes /\ h.prv <= TargetMode(h)
        BY <1>2, TargetIsAbove DEF Good
    <2>2. hart' = SwitchTo(h, TargetMode(h)) /\ ctx' = Saves(c, h, TargetMode(h)) /\ stop' = stop
        BY <1>2 DEF Completes
    <2>3. Good(SwitchTo(h, TargetMode(h)), Saves(c, h, TargetMode(h)))
        BY <2>1, SwitchKept DEF Leads
    <2> QED
        BY <2>2, <2>3
<1> QED
    BY <1>1, <1>2

LEMMA RaisesKeeps ==
    ASSUME NEW r, Good(hart, ctx), Raises(r)
    PROVE  Good(hart, ctx)' /\ stop' \in {stop, "assert"}
<1>1. CASE TrapMode(hart, r) = UserMode /\ hart.prv # UserMode
    BY <1>1 DEF Raises
<1>2. CASE ~(TrapMode(hart, r) = UserMode /\ hart.prv # UserMode)
    <2>1. TrapMode(hart, r) \in Modes /\ Leads(hart, TrapMode(hart, r))
        BY <1>2, TrapIsAbove DEF Good
    <2>2. /\ hart' = SwitchTo(hart, TrapMode(hart, r)) /\ ctx' = Saves(ctx, hart, TrapMode(hart, r))
          /\ stop' = stop
        BY <1>2 DEF Raises
    <2>3. Good(SwitchTo(hart, TrapMode(hart, r)), Saves(ctx, hart, TrapMode(hart, r)))
        BY <2>1, SwitchKept
    <2> QED
        BY <2>2, <2>3
<1> QED
    BY <1>1, <1>2

(* A hart that differs from a good one only in what belongs to mode m is   *)
(* good once the history of m is forgotten.                                *)
Elsewhere(g, m) ==
    \A o \in Modes \ {m} :
        g.epc[o] = hart.epc[o] /\ g.pie[o] = hart.pie[o] /\ PrevPrv(g, o) = PrevPrv(hart, o)

LEMMA ForgetsKept ==
    ASSUME NEW m \in Modes, NEW g \in HartType, Good(hart, ctx), Elsewhere(g, m)
    PROVE  Good(g, Forgets(m))
<1>1. ctx \in History /\ Kept(hart, ctx)
    BY DEF Good
<1>2. NoCtx \in [pc : Places \cup {"none"}, prv : Levels \cup {NoneMode}, ie : BOOLEAN]
    BY DEF NoCtx
<1>3. Forgets(m) \in History
    BY <1>1, <1>2 DEF Forgets, History
<1>4. Forgets(m)[m] = NoCtx /\ \A o \in Modes \ {m} : Forgets(m)[o] = ctx[o]
    BY <1>1 DEF Forgets, History
<1>5. ASSUME NEW o \in Modes PROVE KeptFor(g, Forgets(m), o)
    BY <1>1, <1>4, <1>5 DEF Elsewhere, Kept, KeptFor
<1> QED
    BY <1>3, <1>5 DEF Good, Kept

(* A hart that differs in nothing that is saved is good with the history   *)
(* as it is.                                                               *)
LEMMA SameKept ==
    ASSUME NEW g \in HartType, Good(hart, ctx),
           g.epc = hart.epc, g.pie = hart.pie, g.mpp = hart.mpp, g.spp = hart.spp
    PROVE  Good(g, ctx)
BY DEF Good, Kept, KeptFor, PrevPrv

LEMMA ReturnType ==
    ASSUME NEW h \in HartType, NEW m \in Modes
    PROVE  ReturnFrom(h, m) \in HartType
BY LevelsAre DEF ReturnFrom, HartType, Places

LEMMA ReturnElsewhere ==
    ASSUME hart \in HartType, NEW m \in Modes
    PROVE  Elsewhere(ReturnFrom(hart, m), m)
BY DEF ReturnFrom, HartType, Elsewhere, PrevPrv
-----------------------------------------------------------------------------
LEMMA TrapInitial == TrapInit => TrapInv
<1> SUFFICES ASSUME TrapInit PROVE TrapInv
    OBVIOUS
<1>1. writes \in 0 .. WRITES
    BY TrapAssumption DEF TrapInit
<1>2. hart \in HartType
    BY DEF TrapInit, HartType, Places, Levels
<1>3. ctx \in History /\ \A m \in Modes : ctx[m] = NoCtx
    BY DEF TrapInit, History, NoCtx
<1> QED
    BY <1>1, <1>2, <1>3 DEF TrapInit, TrapInv, Good, Kept, KeptFor

(* The instructions that write a CSR: one step per field.                  *)
LEMMA CsrKeeps ==
    ASSUME NEW g, NEW c, Good(g, c), CsrWrite(g, c), TrapInv
    PROVE  TrapInv'
<1>1. PICK n \in Successors(g) : Completes(n, c)
    BY DEF CsrWrite
<1>2. Good(n, c)
    BY DEF Successors, Good, Kept, KeptFor, PrevPrv, HartType, Places
<1>3. writes' \in 0 .. WRITES
    BY TrapAssumption DEF CsrWrite, TrapInv
<1> QED
    BY <1>1, <1>2, <1>3, CompletesKeeps DEF TrapInv

LEMMA ContextWriteKeeps ==
    ASSUME TrapInv, NEW m \in Modes, WriteContext(m)
    PROVE  TrapInv'
<1>1. Good(hart, ctx) /\ hart \in HartType /\ writes \in 0 .. WRITES
    BY DEF TrapInv, Good
<1>2. PICK b \in BOOLEAN, p \in Code, v \in MppValues, w \in {UserMode, SupervisorMode} :
         \/ CsrWrite([hart EXCEPT !.pie[m] = b], Forgets(m))
         \/ CsrWrite([hart EXCEPT !.epc[m] = p], Forgets(m))
         \/ m = MachineMode /\ CsrWrite([hart EXCEPT !.mpp = v], Forgets(m))
         \/ m = SupervisorMode /\ CsrWrite([hart EXCEPT !.spp = w], Forgets(m))
    BY DEF WriteContext
<1>3. CASE CsrWrite([hart EXCEPT !.pie[m] = b], Forgets(m))
    <2>1. [hart EXCEPT !.pie[m] = b] \in HartType
        BY <1>1 DEF HartType
    <2>2. Elsewhere([hart EXCEPT !.pie[m] = b], m)
        BY <1>1 DEF HartType, Elsewhere, PrevPrv
    <2> QED
        BY <1>1, <1>3, <2>1, <2>2, ForgetsKept, CsrKeeps
<1>4. CASE CsrWrite([hart EXCEPT !.epc[m] = p], Forgets(m))
    <2>1. [hart EXCEPT !.epc[m] = p] \in HartType
        BY <1>1 DEF HartType, Places
    <2>2. Elsewhere([hart EXCEPT !.epc[m] = p], m)
        BY <1>1 DEF HartType, Elsewhere, PrevPrv
    <2> QED
        BY <1>1, <1>4, <2>1, <2>2, ForgetsKept, CsrKeeps
<1>5. CASE m = MachineMode /\ CsrWrite([hart EXCEPT !.mpp = v], Forgets(m))
    <2>1. [hart EXCEPT !.mpp = v] \in HartType
        BY <1>1 DEF HartType, Levels
    <2>2. Elsewhere([hart EXCEPT !.mpp = v], m)
        BY <1>1, <1>5 DEF HartType, Elsewhere, PrevPrv
    <2> QED
        BY <1>1, <1>5, <2>1, <2>2, ForgetsKept, CsrKeeps
<1>6. CASE m = SupervisorMode /\ CsrWrite([hart EXCEPT !.spp = w], Forgets(m))
    <2>1. [hart EXCEPT !.spp = w] \in HartType
        BY <1>1, <1>6 DEF HartType
    <2>2. Elsewhere([hart EXCEPT !.spp = w], m)
        BY <1>1, <1>6 DEF HartType, Elsewhere, PrevPrv
    <2> QED
        BY <1>1, <1>6, <2>1, <2>2, ForgetsKept, CsrKeeps
<1> QED
    BY <1>2, <1>3, <1>4, <1>5, <1>6

LEMMA CsrStep == ASSUME TrapInv, WriteCsr PROVE TrapInv'
<1>1. Good(hart, ctx) /\ hart \in HartType /\ writes \in 0 .. WRITES
    BY DEF TrapInv, Good
<1>2. ASSUME NEW m \in Modes, WriteEnable(m) PROVE TrapInv'
    <2>1. PICK b \in BOOLEAN : CsrWrite([hart EXCEPT !.ie[m] = b], ctx)
        BY <1>2 DEF WriteEnable
    <2> DEFINE g == [hart EXCEPT !.ie[m] = b]
    <2>2. g \in HartType /\ g.epc = hart.epc /\ g.pie = hart.pie /\ g.mpp = hart.mpp /\ g.spp = hart.spp
        BY <1>1 DEF HartType
    <2> QED
        BY <1>1, <2>1, <2>2, SameKept, CsrKeeps
<1>3. ASSUME NEW n \in Irqs, WriteMie(n) PROVE TrapInv'
    <2> DEFINE g == [hart EXCEPT !.mie = Toggle(@, n)]
    <2>1. g \in HartType /\ g.epc = hart.epc /\ g.pie = hart.pie /\ g.mpp = hart.mpp /\ g.spp = hart.spp
        BY <1>1 DEF HartType, Toggle
    <2> QED
        BY <1>1, <1>3, <2>1, SameKept, CsrKeeps DEF WriteMie
<1>4. ASSUME NEW n \in Irqs, WriteMip(n) PROVE TrapInv'
    <2> DEFINE g == [hart EXCEPT !.mip = Toggle(@, n)]
    <2>1. g \in HartType /\ g.epc = hart.epc /\ g.pie = hart.pie /\ g.mpp = hart.mpp /\ g.spp = hart.spp
        BY <1>1 DEF HartType, Toggle
    <2> QED
        BY <1>1, <1>4, <2>1, SameKept, CsrKeeps DEF WriteMip
<1>5. ASSUME WriteDeleg PROVE TrapInv'
    <2>1. PICK d \in Delegs : CsrWrite([hart EXCEPT !.deleg = d], ctx)
        BY <1>5 DEF WriteDeleg
    <2> DEFINE g == [hart EXCEPT !.deleg = d]
    <2>2. g \in HartType /\ g.epc = hart.epc /\ g.pie = hart.pie /\ g.mpp = hart.mpp /\ g.spp = hart.spp
        BY <1>1 DEF HartType
    <2> QED
        BY <1>1, <2>1, <2>2, SameKept, CsrKeeps
<1>6. ASSUME WriteIllegal PROVE TrapInv'
    BY <1>1, <1>6, RaisesKeeps DEF WriteIllegal, TrapInv
<1> QED
    BY <1>2, <1>3, <1>4, <1>5, <1>6, ContextWriteKeeps DEF WriteCsr
LEMMA XretKeeps ==
    ASSUME Good(hart, ctx), NEW m \in Modes, Xret(m)
    PROVE  Good(hart, ctx)' /\ stop' \in {stop, "assert"}
<1>1. CASE Raises(EXC_ILLEGAL_INSTR)
    BY <1>1, RaisesKeeps
<1>2. CASE Completes(ReturnFrom(hart, m), Forgets(m))
    <2>1. hart \in HartType
        BY DEF Good
    <2>2. Good(ReturnFrom(hart, m), Forgets(m))
        BY <2>1, ReturnType, ReturnElsewhere, ForgetsKept
    <2> QED
        BY <1>2, <2>2, CompletesKeeps
<1> QED
    BY <1>1, <1>2 DEF Xret

LEMMA TrapStep == TrapInv /\ [TrapNext]_trapVars => TrapInv'
<1> SUFFICES ASSUME TrapInv, [TrapNext]_trapVars PROVE TrapInv'
    OBVIOUS
<1>1. Good(hart, ctx) /\ hart \in HartType /\ writes \in 0 .. WRITES
    BY DEF TrapInv, Good
<1>2. CASE Plain /\ UNCHANGED writes
    <2>1. PICK p \in Code : Completes([hart EXCEPT !.pc = p], ctx)
        BY <1>2 DEF Plain
    <2> DEFINE g == [hart EXCEPT !.pc = p]
    <2>2. g \in HartType /\ g.epc = hart.epc /\ g.pie = hart.pie /\ g.mpp = hart.mpp /\ g.spp = hart.spp
        BY <1>1 DEF HartType, Places
    <2> QED
        BY <1>1, <1>2, <2>1, <2>2, SameKept, CompletesKeeps DEF TrapInv
<1>3. CASE Exception /\ UNCHANGED writes
    BY <1>1, <1>3, RaisesKeeps DEF Exception, TrapInv
<1>8. CASE UnknownCall /\ UNCHANGED writes
    BY <1>1, <1>8 DEF UnknownCall, TrapInv
<1>4. CASE (Mret \/ Sret \/ Uret) /\ UNCHANGED writes
    BY <1>1, <1>4, XretKeeps DEF Mret, Sret, Uret, TrapInv
<1>5. CASE WriteCsr
    BY <1>5, CsrStep
<1>6. CASE \E n \in Wired : Line(n) /\ UNCHANGED writes
    <2>1. PICK n \in Wired : Line(n) /\ UNCHANGED writes
        BY <1>6
    <2> DEFINE g == [hart EXCEPT !.mip = Toggle(@, n)]
    <2>2. g \in HartType /\ g.epc = hart.epc /\ g.pie = hart.pie /\ g.mpp = hart.mpp /\ g.spp = hart.spp
        BY <1>1, <2>1 DEF HartType, Toggle, Wired
    <2>3. hart' = g /\ ctx' = ctx /\ writes' = writes /\ stop' = stop
        BY <2>1 DEF Line
    <2> QED
        BY <1>1, <2>2, <2>3, SameKept DEF TrapInv
<1>7. CASE UNCHANGED trapVars
    BY <1>1, <1>7 DEF trapVars, TrapInv
<1> QED
    BY <1>2, <1>3, <1>4, <1>5, <1>6, <1>7, <1>8 DEF TrapNext

(* The invariant, for every guest, platform and delegation.                *)
THEOREM TrapInvariant == TrapSpec => []TrapInv
<1> QED
    BY TrapInitial, TrapStep, PTL DEF TrapSpec

(* All fields keep their types, whatever is written to mpp: spp is left    *)
(* with one bit even by a trap from the reserved level.                    *)
THEOREM TrapTypeCorrect == TrapSpec => []TrapTypeOK
<1>1. TrapInv => TrapTypeOK
    BY DEF TrapInv, Good, HartType, TrapTypeOK
<1> QED
    BY <1>1, TrapInvariant, PTL

(* What handlers have saved survives the traps and returns of other modes, *)
(* and but for a supervisor's handler of a trap from the reserved level    *)
(* they are at least as privileged as what they have interrupted.          *)
THEOREM ContextsSurvive == TrapSpec => []ContextKept
<1>1. TrapInv => ContextKept
    BY DEF TrapInv, Good, Kept, KeptFor, ContextKept, Truncated
<1> QED
    BY <1>1, TrapInvariant, PTL

(* A guest that never writes the reserved level to mpp meets the assertion *)
(* of prepare_trap; the run trap_reserved shows one that does, and fails.  *)
THEOREM AssertionHoldsWithin ==
    ASSUME MppValues \subseteq Modes
    PROVE  TrapSpec => []AssertionHolds
<1>1. Levels = Modes
    BY DEF Levels
<1>2. ASSUME NEW r, TrapInv, AssertionHolds, Raises(r) PROVE AssertionHolds'
    <2>1. hart.prv \in Modes
        BY <1>1, <1>2 DEF TrapInv, Good, HartType
    <2>2. ~(TrapMode(hart, r) = UserMode /\ hart.prv # UserMode)
        BY <2>1 DEF TrapMode
    <2> QED
        BY <1>2, <2>2 DEF Raises, AssertionHolds
<1>3. ASSUME NEW h, NEW c, AssertionHolds, Completes(h, c) PROVE AssertionHolds'
    BY <1>3 DEF Completes, AssertionHolds
<1>4. ASSUME NEW g, NEW c, AssertionHolds, CsrWrite(g, c) PROVE AssertionHolds'
    BY <1>3, <1>4 DEF CsrWrite
<1>5. ASSUME TrapInv, AssertionHolds, NEW m \in Modes, Xret(m) PROVE AssertionHolds'
    BY <1>2, <1>3, <1>5 DEF Xret
<1>6. ASSUME TrapInv, AssertionHolds, WriteCsr PROVE AssertionHolds'
    <2>1. ASSUME NEW m \in Modes, WriteEnable(m) PROVE AssertionHolds'
        BY <1>4, <1>6, <2>1 DEF WriteEnable
    <2>2. ASSUME NEW m \in Modes, WriteContext(m) PROVE AssertionHolds'
        BY <1>4, <1>6, <2>2 DEF WriteContext
    <2>3. ASSUME NEW n \in Irqs, WriteMie(n) \/ WriteMip(n) PROVE AssertionHolds'
        BY <1>4, <1>6, <2>3 DEF WriteMie, WriteMip
    <2>4. ASSUME WriteDeleg PROVE AssertionHolds'
        BY <1>4, <1>6, <2>4 DEF WriteDeleg
    <2>5. ASSUME WriteIllegal PROVE AssertionHolds'
        BY <1>2, <1>6, <2>5 DEF WriteIllegal
    <2> QED
        BY <1>6, <2>1, <2>2, <2>3, <2>4, <2>5 DEF WriteCsr
<1>7. TrapInv /\ AssertionHolds /\ [TrapNext]_trapVars => AssertionHolds'
    <2> SUFFICES ASSUME TrapInv, AssertionHolds, [TrapNext]_trapVars PROVE AssertionHolds'
        OBVIOUS
    <2>1. CASE Plain
        BY <1>3, <2>1 DEF Plain
    <2>2. CASE Exception
        BY <1>2, <2>2 DEF Exception
    <2>3. CASE UnknownCall
        BY <2>3 DEF UnknownCall, AssertionHolds
    <2>4. CASE Mret \/ Sret \/ Uret
        BY <1>5, <2>4 DEF Mret, Sret, Uret
    <2>5. CASE WriteCsr
        BY <1>6, <2>5
    <2>6. CASE \E n \in Wired : Line(n)
        BY <2>6 DEF Line, AssertionHolds
    <2>7. CASE UNCHANGED trapVars
        BY <2>7 DEF trapVars, AssertionHolds
    <2> QED
        BY <2>1, <2>2, <2>3, <2>4, <2>5, <2>6, <2>7 DEF TrapNext
<1>8. TrapInit => AssertionHolds
    BY DEF TrapInit, AssertionHolds
<1> QED
    BY <1>7, <1>8, TrapInvariant, PTL DEF TrapSpec
-----------------------------------------------------------------------------
(* An instruction that completes leaves nothing due: what is due before    *)
(* the look at the interrupts is due for the mode that takes it, or for a  *)
(* less privileged one.                                                    *)
LEMMA DueIsTaken ==
    ASSUME NEW h \in HartType, NEW m \in Modes, Due(h, m)
    PROVE  TargetMode(h) # NoneMode /\ m <= TargetMode(h)
<1>1. h.prv \in 0 .. 3
    BY LevelsAre DEF HartType
<1> QED
    BY <1>1 DEF Due, TargetMode, Enabled, NoneMode

LEMMA SwitchDue ==
    ASSUME NEW h \in HartType, NEW t \in Modes, h.prv <= t, NEW m \in Modes,
           Due(SwitchTo(h, t), m)
    PROVE  Due(h, m) /\ m > t
<1> DEFINE g == SwitchTo(h, t)
<1>1. g.prv = t /\ g.ie[t] = FALSE /\ g.mie = h.mie /\ g.mip = h.mip /\ g.deleg = h.deleg
    BY DEF SwitchTo, HartType
<1>2. m > t
    BY <1>1 DEF Due
<1>3. m > h.prv
    <2>1. h.prv \in 0 .. 3
        BY LevelsAre DEF HartType
    <2> QED
        BY <1>2, <2>1
<1> QED
    BY <1>1, <1>2, <1>3 DEF Due

LEMMA CompletesTakesDue ==
    ASSUME NEW h \in HartType, NEW c, Completes(h, c)
    PROVE  \A m \in Modes : ~Due(hart', m)
<1>1. CASE TargetMode(h) = NoneMode
    BY <1>1, DueIsTaken DEF Completes
<1>2. CASE TargetMode(h) # NoneMode
    <2>1. TargetMode(h) \in Modes /\ h.prv <= TargetMode(h)
        BY <1>2, TargetIsAbove
    <2>2. hart' = SwitchTo(h, TargetMode(h))
        BY <1>2 DEF Completes
    <2>3. ASSUME NEW m \in Modes, Due(SwitchTo(h, TargetMode(h)), m) PROVE FALSE
        <3>1. Due(h, m) /\ m > TargetMode(h)
            BY <2>1, <2>3, SwitchDue
        <3>2. m <= TargetMode(h)
            BY <3>1, DueIsTaken
        <3> QED
            BY <2>1, <3>1, <3>2
    <2> QED
        BY <2>2, <2>3
<1> QED
    BY <1>1, <1>2

(* No due interrupt is left behind an instruction that completes.          *)
THEOREM NoInterruptPassedOver == TrapSpec => NoneLeft
<1>1. ASSUME TrapInv, Plain PROVE \A m \in Modes : ~Due(hart', m)
    <2>1. PICK p \in Code : Completes([hart EXCEPT !.pc = p], ctx)
        BY <1>1 DEF Plain
    <2>2. [hart EXCEPT !.pc = p] \in HartType
        BY <1>1 DEF TrapInv, Good, HartType, Places
    <2> QED
        BY <2>1, <2>2, CompletesTakesDue
<1>2. ASSUME TrapInv, Mret PROVE \A m \in Modes : ~Due(hart', m)
    <2>1. Completes(ReturnFrom(hart, MachineMode), Forgets(MachineMode))
        BY <1>2 DEF Mret, Xret
    <2>2. ReturnFrom(hart, MachineMode) \in HartType
        BY <1>2, ReturnType DEF TrapInv, Good
    <2> QED
        BY <2>1, <2>2, CompletesTakesDue
<1>3. ASSUME TrapInv, NEW n \in Modes, WriteEnable(n) PROVE \A m \in Modes : ~Due(hart', m)
    <2>1. PICK b \in BOOLEAN : CsrWrite([hart EXCEPT !.ie[n] = b], ctx)
        BY <1>3 DEF WriteEnable
    <2>2. PICK g \in Successors([hart EXCEPT !.ie[n] = b]) : Completes(g, ctx)
        BY <2>1 DEF CsrWrite
    <2>3. g \in HartType
        <3>1. PICK p \in Code : g = [[hart EXCEPT !.ie[n] = b] EXCEPT !.pc = p]
            BY <2>2 DEF Successors
        <3>2. [hart EXCEPT !.ie[n] = b] \in HartType
            BY <1>3 DEF TrapInv, Good, HartType
        <3> QED
            BY <3>1, <3>2 DEF HartType, Places
    <2> QED
        BY <2>2, <2>3, CompletesTakesDue
<1>4. TrapInv => [(\E m \in Modes : Due(hart', m))
                    => ~(Plain \/ Mret \/ \E m \in Modes : WriteEnable(m))]_trapVars
    BY <1>1, <1>2, <1>3
<1> QED
    BY <1>4, TrapInvariant, PTL DEF NoneLeft

(* A return goes on with what has been interrupted.                        *)
THEOREM ReturnsResume == TrapSpec => Resumes
<1>1. ASSUME TrapInv, NEW m \in Modes, Xret(m), ctx[m] # NoCtx, ~Truncated(m),
             ~(m = SupervisorMode /\ hart.prv = m /\ TSR)
      PROVE  \/ hart'.pc = ctx[m].pc /\ hart'.prv = ctx[m].prv /\ hart'.ie[m] = ctx[m].ie
             \/ \E t \in Modes : ctx'[t] = [pc |-> ctx[m].pc, prv |-> ctx[m].prv,
                                            ie |-> IF t = m THEN ctx[m].ie ELSE hart.ie[t]]
    <2> DEFINE h == ReturnFrom(hart, m)
    <2>1. Completes(h, Forgets(m))
        BY <1>1 DEF Xret
    <2>2. hart \in HartType /\ ctx \in History /\ KeptFor(hart, ctx, m)
        BY <1>1 DEF TrapInv, Good, Kept
    <2>3. h \in HartType
        BY <2>2, ReturnType
    <2>4. h.pc = ctx[m].pc /\ h.ie[m] = ctx[m].ie
        BY <1>1, <2>2 DEF ReturnFrom, HartType, KeptFor
    <2>5. h.prv = ctx[m].prv
        BY <1>1, <2>2 DEF ReturnFrom, HartType, KeptFor, PrevPrv, Truncated
    <2>6. \A t \in Modes \ {m} : h.ie[t] = hart.ie[t]
        BY <2>2 DEF ReturnFrom, HartType
    <2>7. CASE TargetMode(h) = NoneMode
        BY <2>1, <2>4, <2>5, <2>7 DEF Completes
    <2>8. CASE TargetMode(h) # NoneMode
        <3> DEFINE t == TargetMode(h)
        <3>1. t \in Modes /\ ctx' = Saves(Forgets(m), h, t)
            BY <2>1, <2>3, <2>8, TargetIsAbove DEF Completes
        <3>2. ctx'[t] = [pc |-> h.pc, prv |-> h.prv, ie |-> h.ie[t]]
            BY <2>2, <3>1 DEF Saves, Forgets, History
        <3> QED
            BY <2>4, <2>5, <2>6, <3>1, <3>2
    <2> QED
        BY <2>7, <2>8
<1>2. TrapInv => [\A m \in Modes :
         ctx[m] # NoCtx /\ ~Truncated(m)
           /\ ~(m = SupervisorMode /\ hart.prv = m /\ TSR) /\ Xret(m) =>
            \/ hart'.pc = ctx[m].pc /\ hart'.prv = ctx[m].prv /\ hart'.ie[m] = ctx[m].ie
            \/ \E t \in Modes : ctx'[t] = [pc |-> ctx[m].pc, prv |-> ctx[m].prv,
                                           ie |-> IF t = m THEN ctx[m].ie ELSE hart.ie[t]]]_trapVars
    BY <1>1
<1> QED
    BY <1>2, TrapInvariant, PTL DEF Resumes

-----------------------------------------------------------------------------
(* The hart thread.                                                        *)

(* The lock while it is held: the instructions it has been held for and    *)
(* those the counter still allows make up the window, and the hart has     *)
(* used up its quantum only since the reservation began.                   *)
Lock ==
    /\ lock <=> lr_sc_counter > 0
    /\ ~lock => held = 0
    /\ lock => held + lr_sc_counter <= LRWINDOW /\ local < QUANTUM + Slowest * held

(* How far ahead the hart is when the bus is free.                         *)
Ahead ==
    /\ thread = "run" /\ ~lock => local < QUANTUM
    /\ thread \in {"wfi", "woken"} => local < QUANTUM + Slowest * (LRWINDOW - 1)

HartInv ==
    /\ HartTypeOK /\ local < AHEAD
    /\ Lock /\ Ahead
    /\ thread \in {"sync", "wfi", "woken"} => ~lock

-----------------------------------------------------------------------------
(* What an instruction may leave to the accounting: the counter c and the  *)
(* lock l.                                                                 *)
Leaves(c, l) ==
    /\ c \in 0 .. LRWINDOW /\ l \in BOOLEAN /\ (l <=> c > 0)
    /\ held \in 0 .. HELD /\ local \in 0 .. AHEAD
    /\ l => held + c <= LRWINDOW /\ local < QUANTUM + Slowest * held
    /\ ~l => local < QUANTUM + Slowest * (LRWINDOW - 1)

(* What the accounting and the choice to wait make of it.                  *)
Accounted ==
    /\ lr_sc_counter' \in 0 .. LRWINDOW /\ lock' \in BOOLEAN
    /\ held' \in 0 .. HELD /\ local' \in 0 .. AHEAD /\ local' < AHEAD
    /\ lock' <=> lr_sc_counter' > 0
    /\ ~lock' => held' = 0
    /\ lock' => held' + lr_sc_counter' <= LRWINDOW /\ local' < QUANTUM + Slowest * held'

LEMMA WithinWindow ==
    ASSUME NEW h \in Nat, NEW r \in Nat, NEW w \in Nat, r > 0, h + r <= w,
           NEW q \in Nat, NEW t \in Nat, t < q + 8 * h
    PROVE  h < w /\ t < q + w * 8 /\ q + w * 8 \in Nat
OBVIOUS

LEMMA AccountKeeps ==
    ASSUME NEW c, NEW l, Leaves(c, l), Account(c, l)
    PROVE  Accounted
<1> USE DEF Slowest, HELD, AHEAD
<1> QUANTUM \in Nat /\ LRWINDOW \in Nat /\ QUANTUM > 0 /\ LRWINDOW > 0
    BY HartAssumption
<1>1. PICK n \in instr_cycles : local' = UpTo(local + n, AHEAD)
    BY DEF Account
<1>2. /\ lr_sc_counter' = (IF c = 0 THEN 0 ELSE c - 1)
      /\ lock' = (l /\ c # 1)
      /\ held' = IF lock' THEN UpTo(held + 1, HELD) ELSE 0
    BY DEF Account, CountDown
<1>3. n \in 1 .. 8 /\ local' <= local + n /\ local' \in Nat
    BY <1>1 DEF instr_cycles, UpTo, Leaves
<1>4. CASE l /\ c # 1
    <2>a. c \in 0 .. LRWINDOW /\ c > 0 /\ c # 1
        BY <1>4, Zenon DEF Leaves
    <2>b. lock' = TRUE
        BY <1>2, <1>4, Zenon
    <2>1. c \in 2 .. LRWINDOW /\ lr_sc_counter' = c - 1
        BY <1>2, <2>a
    <2>2. held + c <= LRWINDOW /\ held \in Nat /\ local < QUANTUM + 8 * held
        BY <1>4 DEF Leaves
    <2>3. held' = held + 1
        BY <1>2, <2>b, <2>1, <2>2 DEF UpTo
    <2>4. held' + lr_sc_counter' <= LRWINDOW /\ held' \in 0 .. HELD
        BY <2>1, <2>2, <2>3
    <2>5. local' < QUANTUM + 8 * held'
        BY <1>3, <2>2, <2>3 DEF Leaves
    <2>6. local' < AHEAD /\ local' \in 0 .. AHEAD
        <3>1. held' \in Nat
            BY <2>4
        <3>2. lr_sc_counter' \in Nat /\ lr_sc_counter' > 0
            BY <2>1
        <3>3. local' < QUANTUM + LRWINDOW * 8 /\ QUANTUM + LRWINDOW * 8 \in Nat
            BY <1>3, <2>4, <2>5, <3>1, <3>2, WithinWindow
        <3> QED
            BY <1>3, <3>3
    <2>7. lr_sc_counter' \in 0 .. LRWINDOW /\ lr_sc_counter' > 0
        BY <2>1
    <2> QED
        BY <2>b, <2>4, <2>5, <2>6, <2>7, Zenon DEF Accounted
<1>5. CASE ~(l /\ c # 1)
    <2>a. lock' = FALSE
        BY <1>2, <1>5, Zenon
    <2>b. l <=> c > 0
        BY Zenon DEF Leaves
    <2>c. c = 0 \/ c = 1
        <3>1. CASE l
            BY <1>5, <3>1
        <3>2. CASE ~l
            <4>1. ~(c > 0) /\ c \in 0 .. LRWINDOW
                BY <2>b, <3>2, Zenon DEF Leaves
            <4> QED
                BY <4>1
        <3> QED
            BY <3>1, <3>2
    <2>1. lr_sc_counter' = 0 /\ lock' = FALSE /\ held' = 0
        BY <1>2, <2>a, <2>c
    <2>2. local < QUANTUM + 8 * (LRWINDOW - 1)
        BY <1>5 DEF Leaves
    <2>3. local' < AHEAD /\ local' \in 0 .. AHEAD
        BY <1>3, <2>2 DEF Leaves
    <2>4. 0 \in 0 .. LRWINDOW /\ 0 \in 0 .. HELD /\ ~(0 > 0)
        OBVIOUS
    <2> QED
        BY <2>1, <2>3, <2>4, Zenon DEF Accounted
<1> QED
    BY <1>4, <1>5

FlagTypes == {mip', mie', ie', wfi_event'} \subseteq BOOLEAN

LEMMA GoesKeeps ==
    ASSUME Accounted, FlagTypes, Goes
    PROVE  HartInv'
<1>1. HartTypeOK'
    BY Zenon DEF HartTypeOK, Accounted, FlagTypes, Goes
<1>2. Lock' /\ (local < AHEAD)'
    BY Zenon DEF Lock, Accounted, AHEAD
<1>3. CASE NeedsSync
    <2>1. thread' = "sync"
        BY <1>3 DEF Goes
    <2>2. ~(lr_sc_counter' > 0)
        BY <1>3 DEF NeedsSync
    <2>3. ~lock'
        BY <2>2, Zenon DEF Accounted
    <2> QED
        BY <1>1, <1>2, <2>1, <2>3 DEF HartInv, Ahead
<1>4. CASE ~NeedsSync
    <2>1. thread' = "run"
        BY <1>4 DEF Goes
    <2>2. ASSUME ~lock' PROVE local' < QUANTUM
        <3>1. lr_sc_counter' = 0
            <4>1. lr_sc_counter' \in 0 .. LRWINDOW /\ ~(lr_sc_counter' > 0)
                BY <2>2, Zenon DEF Accounted
            <4> QED
                BY <4>1, HartAssumption
        <3>2. ~(local' >= QUANTUM) /\ local' \in 0 .. AHEAD
            BY <1>4, <3>1, Zenon DEF NeedsSync, Accounted
        <3> QED
            BY <3>2, HartAssumption DEF AHEAD, Slowest
    <2> QED
        BY <1>1, <1>2, <2>1, <2>2 DEF HartInv, Ahead
<1> QED
    BY <1>3, <1>4
(* In every state of the invariant the three pairs the instructions use    *)
(* may be left.                                                            *)
LEMMA LeavesNothing ==
    ASSUME HartInv, thread \in {"run", "woken"}
    PROVE  Leaves(0, FALSE)
<1>1. held \in 0 .. HELD /\ local \in 0 .. AHEAD /\ lr_sc_counter \in 0 .. LRWINDOW
    BY DEF HartInv, HartTypeOK
<1>2. local < QUANTUM + Slowest * (LRWINDOW - 1)
    <2>1. CASE thread = "woken"
        BY <2>1, Zenon DEF HartInv, Ahead
    <2>2. CASE thread = "run" /\ ~lock
        <3>1. local < QUANTUM
            BY <2>2, Zenon DEF HartInv, Ahead
        <3> QED
            BY <1>1, <3>1, HartAssumption DEF Slowest, AHEAD
    <2>3. CASE lock
        <3>1. lr_sc_counter > 0 /\ held + lr_sc_counter <= LRWINDOW /\ local < QUANTUM + Slowest * held
            BY <2>3, Zenon DEF HartInv, Lock
        <3> QED
            BY <1>1, <3>1, HartAssumption DEF Slowest, AHEAD, HELD
    <2> QED
        BY <2>1, <2>2, <2>3
<1>3. 0 \in 0 .. LRWINDOW /\ ~(0 > 0)
    BY HartAssumption
<1> QED
    BY <1>1, <1>2, <1>3, Zenon DEF Leaves

LEMMA LeavesAsItIs ==
    ASSUME HartInv, thread \in {"run", "woken"}
    PROVE  Leaves(lr_sc_counter, lock)
<1>1. held \in 0 .. HELD /\ local \in 0 .. AHEAD /\ lr_sc_counter \in 0 .. LRWINDOW
    BY DEF HartInv, HartTypeOK
<1>2. lock \in BOOLEAN
    BY Zenon DEF HartInv, HartTypeOK
<1>3. local < QUANTUM + Slowest * (LRWINDOW - 1)
    BY LeavesNothing, Zenon DEF Leaves
<1> QED
    BY <1>1, <1>2, <1>3, Zenon DEF Leaves, HartInv, Lock

LEMMA LeavesReserved ==
    ASSUME HartInv, thread = "run", ~TIMED
    PROVE  Leaves(Window, TRUE)
<1>1. CASE lr_sc_counter = 0
    <2>1. Window = LRWINDOW
        BY <1>1 DEF Window
    <2>2. ~lock
        <3>1. ~(lr_sc_counter > 0)
            BY <1>1
        <3> QED
            BY <3>1, Zenon DEF HartInv, Lock
    <2>3. held = 0 /\ local < QUANTUM /\ local \in 0 .. AHEAD
        BY <2>2, Zenon DEF HartInv, Lock, Ahead, HartTypeOK
    <2>4. /\ LRWINDOW \in 0 .. LRWINDOW /\ LRWINDOW > 0 /\ held \in 0 .. HELD
          /\ held + LRWINDOW <= LRWINDOW /\ local < QUANTUM + Slowest * held
        BY <2>3, HartAssumption DEF HELD, AHEAD, Slowest
    <2> QED
        BY <2>1, <2>3, <2>4, Zenon DEF Leaves
<1>2. CASE lr_sc_counter # 0
    <2>1. Window = lr_sc_counter
        BY <1>2 DEF Window
    <2>2. lr_sc_counter > 0
        BY <1>2, HartAssumption DEF HartInv, HartTypeOK
    <2>3. lock = TRUE
        BY <2>2, Zenon DEF HartInv, Lock, HartTypeOK
    <2> QED
        BY <2>1, <2>3, LeavesAsItIs
<1> QED
    BY <1>1, <1>2

LEMMA FinishesKeeps ==
    ASSUME NEW c, NEW l, NEW a \in BOOLEAN, NEW b \in BOOLEAN,
           HartTypeOK, Leaves(c, l), Leaves(0, FALSE), Finishes(c, l, a, b),
           Touches \/ Quiet
    PROVE  Accounted /\ FlagTypes
<1>1. {mip', mie', ie', wfi_event'} \subseteq BOOLEAN
    <2>1. mip' \in BOOLEAN /\ wfi_event' \in BOOLEAN
        BY Zenon DEF Touches, Quiet, HartTypeOK
    <2>2. mie' \in BOOLEAN /\ ie' \in BOOLEAN
        BY Zenon DEF Finishes
    <2> QED
        BY <2>1, <2>2, Zenon
<1>2. Account(0, FALSE) \/ Account(c, l)
    BY Zenon DEF Finishes
<1> QED
    BY <1>1, <1>2, AccountKeeps, Zenon DEF FlagTypes
-----------------------------------------------------------------------------
LEMMA HartInitial == HartInit => HartInv
<1> SUFFICES ASSUME HartInit PROVE HartInv
    OBVIOUS
<1>1. /\ 0 \in 0 .. LRWINDOW /\ 0 \in 0 .. HELD /\ 0 \in 0 .. AHEAD
      /\ 0 < AHEAD /\ 0 < QUANTUM /\ ~(0 > 0)
    BY HartAssumption DEF HELD, AHEAD, Slowest
<1> QED
    BY <1>1, Zenon DEF HartInit, HartInv, HartTypeOK, Lock, Ahead

LEMMA HartStep == ASSUME ~TIMED PROVE HartInv /\ [HartNext]_hartVars => HartInv'
<1> SUFFICES ASSUME HartInv, [HartNext]_hartVars PROVE HartInv'
    OBVIOUS
<1>1. HartTypeOK
    BY DEF HartInv
<1>2. mie \in BOOLEAN /\ ie \in BOOLEAN
    BY <1>1, Zenon DEF HartTypeOK
<1>3. CASE Ordinary
    <2>1. PICK a \in BOOLEAN, b \in BOOLEAN : Finishes(lr_sc_counter, lock, a, b)
        BY <1>3, Zenon DEF Ordinary
    <2>2. thread = "run" /\ Touches /\ Goes
        BY <1>3, Zenon DEF Ordinary, Accesses
    <2> QED
        BY <1>1, <2>1, <2>2, LeavesNothing, LeavesAsItIs, FinishesKeeps, GoesKeeps
<1>4. CASE Trap
    <2>1. thread = "run" /\ Account(0, FALSE) /\ Goes
        BY <1>4, Zenon DEF Trap, Running
    <2>2. FlagTypes
        BY <1>1, <1>4, Zenon DEF Trap, Running, Quiet, HartTypeOK, FlagTypes
    <2> QED
        BY <2>1, <2>2, LeavesNothing, AccountKeeps, GoesKeeps
<1>5. CASE LoadReserved
    <2>1. thread = "run" /\ Touches /\ Goes /\ Finishes(Window, TRUE, mie, ie)
        BY <1>5, Zenon DEF LoadReserved, Accesses
    <2> QED
        BY <1>1, <1>2, <2>1, LeavesNothing, LeavesReserved, FinishesKeeps, GoesKeeps
<1>6. CASE StoreConditional
    <2>1. thread = "run" /\ Touches /\ Goes /\ Finishes(0, FALSE, mie, ie)
        BY <1>6, Zenon DEF StoreConditional, Accesses
    <2> QED
        BY <1>1, <1>2, <2>1, LeavesNothing, FinishesKeeps, GoesKeeps
<1>7. CASE WaitForInterrupt
    <2>1. thread = "run" /\ Quiet
        BY <1>7, Zenon DEF WaitForInterrupt, Running
    <2>2. CASE MustWait /\ thread' = "wfi" /\ Frees /\ UNCHANGED <<mie, ie, local>>
        <3>1. /\ 0 \in 0 .. LRWINDOW /\ 0 \in 0 .. HELD /\ ~(0 > 0)
            BY HartAssumption DEF HELD
        <3>2. local < QUANTUM + Slowest * (LRWINDOW - 1)
            BY <2>1, LeavesNothing, Zenon DEF Leaves
        <3>3. HartTypeOK'
            BY <1>1, <2>1, <2>2, <3>1, Zenon DEF HartTypeOK, Frees, Quiet
        <3> QED
            BY <2>2, <3>1, <3>2, <3>3, Zenon DEF HartInv, Lock, Ahead, Frees, AHEAD
    <2>3. CASE Finishes(0, FALSE, mie, ie) /\ Goes
        BY <1>1, <1>2, <2>1, <2>3, LeavesNothing, FinishesKeeps, GoesKeeps
    <2> QED
        BY <1>7, <2>2, <2>3 DEF WaitForInterrupt
<1>8. CASE Stop
    <2>1. /\ thread = "run" /\ Quiet /\ thread' = "ended"
          /\ Finishes(lr_sc_counter, lock, mie, ie)
        BY <1>8, Zenon DEF Stop, Running
    <2>2. Accounted /\ FlagTypes
        BY <1>1, <1>2, <2>1, LeavesNothing, LeavesAsItIs, FinishesKeeps
    <2> QED
        BY <2>1, <2>2, Zenon DEF Accounted, FlagTypes, HartInv, HartTypeOK, Lock, Ahead, AHEAD
<1>9. CASE Resume
    <2>1. /\ thread = "woken" /\ Quiet /\ Goes
          /\ Finishes(lr_sc_counter, lock, mie, ie)
        BY <1>9, Zenon DEF Resume
    <2> QED
        BY <1>1, <1>2, <2>1, LeavesNothing, LeavesAsItIs, FinishesKeeps, GoesKeeps
<1>10. CASE SyncReturns
    <2>1. 0 < AHEAD /\ 0 < QUANTUM /\ 0 \in 0 .. AHEAD
        BY HartAssumption DEF AHEAD, Slowest
    <2> QED
        BY <1>10, <2>1, Zenon DEF SyncReturns, irqVars, lockVars, HartInv, HartTypeOK, Lock, Ahead, AHEAD
<1>11. CASE Delta
    BY <1>11, Zenon DEF Delta, irqVars, lockVars, HartInv, HartTypeOK, Lock, Ahead, AHEAD
<1>12. CASE Clear
    BY <1>12, Zenon DEF Clear, Waits, lockVars, HartInv, HartTypeOK, Lock, Ahead, AHEAD
<1>13. CASE \E status \in BOOLEAN : Trigger(status)
    <2>1. PICK status \in BOOLEAN : Trigger(status)
        BY <1>13
    <2>2. mip' \in BOOLEAN /\ wfi_event' \in BOOLEAN /\ UNCHANGED <<thread, mie, ie, lockVars, local>>
        BY <2>1, Zenon DEF Trigger
    <2> QED
        BY <2>2, Zenon DEF lockVars, HartInv, HartTypeOK, Lock, Ahead, AHEAD
<1>14. CASE UNCHANGED hartVars
    BY <1>14, Zenon DEF hartVars, irqVars, lockVars, HartInv, HartTypeOK, Lock, Ahead, AHEAD
<1> QED
    BY <1>3, <1>4, <1>5, <1>6, <1>7, <1>8, <1>9, <1>10, <1>11, <1>12, <1>13, <1>14
    DEF HartNext, RunStep, Kernel
(* The invariant of the thread: without PIPELINE_TIMING it holds for every *)
(* quantum and every reservation window.                                   *)
THEOREM HartInvariant == ASSUME ~TIMED PROVE HartSpec => []HartInv
<1>1. HartInit => HartInv
    BY HartInitial
<1>2. HartInv /\ [HartNext]_hartVars => HartInv'
    BY HartStep
<1> QED
    BY <1>1, <1>2, PTL DEF HartSpec

(* Counters and flags keep their ranges; in particular the reservation's   *)
(* counter never runs below zero (the assertion of                         *)
(* performance_and_sync_update).                                           *)
THEOREM HartTypeCorrect == ASSUME ~TIMED PROVE HartSpec => []HartTypeOK
<1>1. HartInv => HartTypeOK
    BY Zenon DEF HartInv
<1> QED
    BY <1>1, HartInvariant, PTL

(* The hart never waits for time or an interrupt with the bus locked.      *)
THEOREM NeverWaitsLocked == ASSUME ~TIMED PROVE HartSpec => []LockNeverAcrossWait
<1>1. HartInv => LockNeverAcrossWait
    BY Zenon DEF HartInv, Lock, LockNeverAcrossWait
<1> QED
    BY <1>1, HartInvariant, PTL

(* A reservation holds the bus for at most the window of instructions.     *)
THEOREM ReservationEnds == ASSUME ~TIMED PROVE HartSpec => []LockBounded
<1>1. HartInv => LockBounded
    <2> SUFFICES ASSUME HartInv PROVE LockBounded
        OBVIOUS
    <2>1. held \in 0 .. HELD /\ lr_sc_counter \in 0 .. LRWINDOW
        BY DEF HartInv, HartTypeOK
    <2>2. CASE lock
        <3>1. lr_sc_counter > 0 /\ held + lr_sc_counter <= LRWINDOW
            BY <2>2, Zenon DEF HartInv, Lock
        <3> QED
            BY <2>1, <3>1, HartAssumption DEF LockBounded, HELD
    <2>3. CASE ~lock
        <3>1. held = 0
            BY <2>3, Zenon DEF HartInv, Lock
        <3> QED
            BY <3>1, HartAssumption DEF LockBounded, HELD
    <2> QED
        BY <2>2, <2>3
<1> QED
    BY <1>1, HartInvariant, PTL

(* The hart is never further ahead of the simulated time than a quantum    *)
(* and a reservation of the slowest instructions.                          *)
THEOREM DecouplingBounded == ASSUME ~TIMED PROVE HartSpec => []AheadBounded
<1>1. HartInv => AheadBounded
    BY Zenon DEF HartInv, AheadBounded
<1> QED
    BY <1>1, HartInvariant, PTL

-----------------------------------------------------------------------------
(* The floating-point state.                                               *)

(* Every instruction and every write of a CSR preserves what the next one  *)
(* relies on.                                                              *)
FpuInv == FpuTypeOK /\ NoFlagLost /\ UnsavedIsDirty

LEMMA FpuInvInit == FpuInit => FpuInv
BY DEF FpuInit, FpuInv, FpuTypeOK, NoFlagLost, UnsavedIsDirty, States

LEMMA FpuInvNext == FpuInv /\ [FpuNext]_fpuVars => FpuInv'
<1> SUFFICES ASSUME FpuInv, [FpuNext]_fpuVars PROVE FpuInv'
    OBVIOUS
<1> USE DEF FpuInv, FpuTypeOK, NoFlagLost, UnsavedIsDirty, States
<1>1. ASSUME NEW es \in SUBSET Flags, NEW rm \in 0 .. 7, Compute(rm, es) PROVE FpuInv'
    BY <1>1 DEF Compute, fp_setup_rm, fp_finish_instr, fp_update_exception_flags,
                FRM_RMM, FRM_DYN
<1>2. ASSUME NEW es \in SUBSET Flags, MinMax(es) PROVE FpuInv'
    BY <1>2 DEF MinMax, fp_finish_instr, fp_update_exception_flags
<1>3. CASE SignInject
    BY <1>3 DEF SignInject
<1>4. ASSUME NEW es \in SUBSET Flags, Compare(es) PROVE FpuInv'
    BY <1>4 DEF Compare, fp_update_exception_flags
<1>5. CASE LoadFp
    BY <1>5 DEF LoadFp
<1>6. ASSUME NEW es \in SUBSET Flags, NEW mode \in 0 .. 7, WriteFcsr(es, mode) PROVE FpuInv'
    BY <1>6 DEF WriteFcsr
<1>7. ASSUME NEW es \in SUBSET Flags, WriteFflags(es) PROVE FpuInv'
    BY <1>6, <1>7 DEF WriteFflags
<1>8. ASSUME NEW mode \in 0 .. 7, WriteFrm(mode) PROVE FpuInv'
    BY <1>8 DEF WriteFrm
<1>9. ASSUME NEW state \in States, WriteStatus(state) PROVE FpuInv'
    BY <1>9 DEF WriteStatus
<1>10. CASE UNCHANGED fpuVars
    BY <1>10 DEF fpuVars
<1> QED BY <1>1, <1>2, <1>3, <1>4, <1>5, <1>6, <1>7, <1>8, <1>9, <1>10 DEF FpuNext

(* For any set of exceptions: the assertion of fp_prepare_instr holds, and *)
(* fcsr has every exception raised.                                        *)
THEOREM NoFlagIsLost == FpuSpec => []NoFlagLost
<1>1. FpuInv => NoFlagLost
    BY DEF FpuInv
<1> QED BY <1>1, FpuInvInit, FpuInvNext, PTL DEF FpuSpec

(* A guest that trusts mstatus.fs saves all that an operation has computed *)
(* (fp_finish_instr marks it dirty in every path that computes).           *)
THEOREM UnsavedStaysDirty == FpuSpec => []UnsavedIsDirty
<1>1. FpuInv => UnsavedIsDirty
    BY DEF FpuInv
<1> QED BY <1>1, FpuInvInit, FpuInvNext, PTL DEF FpuSpec
=============================================================================
