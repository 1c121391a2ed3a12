--------------------------- MODULE Timing_proofs ---------------------------
(***************************************************************************)
(* Proofs about the timing model: the branch predictor, for tables, a      *)
(* stack, histories and counters of any size; the instruction cache, where *)
(* one mark a set is all of least-recently-used replacement, for any       *)
(* number of sets and heads; and the pipeline, for any registers, delays,  *)
(* accesses and stalls.                                                    *)
(***************************************************************************)
EXTENDS Predictor, ICache, Pipeline, SequenceTheorems, TLAPS

-----------------------------------------------------------------------------
(* The return-address stack.                                               *)

Frames == [link : Nat, high : Nat]

(* A frame the guest has not nested RasSize calls above is still in it.    *)
RasKeeps ==
    \A p \in 1 .. Len(calls) :
        /\ calls[p].high >= Len(calls) + 1 - p
        /\ calls[p].high <= RasSize => Len(RAS) >= Len(calls) + 1 - p

RasInv ==
    /\ RAS \in Seq(Nat) /\ Len(RAS) <= RasSize
    /\ calls \in Seq(Frames)
    /\ RasIsTop /\ RasKeeps

LEMMA PopProperties ==
    ASSUME NEW S, NEW q \in Seq(S), Len(q) > 0
    PROVE  /\ pop(q) \in Seq(S) /\ Len(pop(q)) = Len(q) - 1
           /\ \A k \in 1 .. (Len(q) - 1) : pop(q)[k] = q[k]
<1> DEFINE m == Len(q) - 1
           t == SubSeq(q, 1, m)
<1>1. m \in Nat /\ \A k \in 1 .. m : q[k] \in S
    BY LenProperties
<1> HIDE DEF m
<1>2. /\ t \in Seq(S) /\ Len(t) = IF 1 <= m THEN m - 1 + 1 ELSE 0
      /\ \A k \in 1 .. m - 1 + 1 : t[k] = q[1 + k - 1]
    BY <1>1, SubSeqProperties
<1>3. Len(t) = m /\ \A k \in 1 .. m : t[k] = q[k]
    BY <1>1, <1>2
<1> QED BY <1>2, <1>3 DEF pop, m

(* What push leaves of a stack that is full, and of one that is not.       *)
LEMMA PushProperties ==
    ASSUME NEW q \in Seq(Nat), NEW x \in Nat, Len(q) <= RasSize
    PROVE  LET r == push(q, x)
           IN  /\ r \in Seq(Nat) /\ Len(r) = IF Len(q) < RasSize THEN Len(q) + 1 ELSE RasSize
               /\ r[Len(r)] = x
               /\ \A k \in 1 .. (Len(r) - 1) : r[k] = q[k + Len(q) + 1 - Len(r)]
<1> DEFINE a == Append(q, x)
<1>1. /\ a \in Seq(Nat) /\ Len(a) = Len(q) + 1 /\ a[Len(q) + 1] = x
      /\ \A k \in 1 .. Len(q) : a[k] = q[k]
    OBVIOUS
<1>2. RasSize \in Nat \ {0} /\ Len(q) \in Nat
    BY PredictorAssumption
<1>3. CASE Len(q) < RasSize
  <2>1. push(q, x) = a
      BY <1>1, <1>2, <1>3 DEF push
  <2> QED BY <1>1, <1>2, <1>3, <2>1
<1>4. CASE ~(Len(q) < RasSize)
  <2>1. push(q, x) = Tail(a)
      BY <1>1, <1>2, <1>4 DEF push
  <2>2. /\ Tail(a) \in Seq(Nat) /\ Len(Tail(a)) = Len(q)
        /\ \A k \in 1 .. Len(q) : Tail(a)[k] = a[k + 1]
      BY <1>1, <1>2, <1>4
  <2>3. Len(Tail(a)) = RasSize
      BY <1>2, <1>4, <2>2
  <2>4. \A k \in 1 .. (RasSize - 1) : Tail(a)[k] = q[k + 1]
      BY <1>1, <1>2, <2>2, <2>3
  <2>5. Tail(a)[RasSize] = x
      BY <1>1, <1>2, <2>2, <2>3
  <2> HIDE DEF a
  <2> QED BY <1>2, <1>4, <2>1, <2>2, <2>3, <2>4, <2>5
<1> QED BY <1>3, <1>4

LEMMA RasInvInit == PredictorInit => RasInv
BY PredictorAssumption DEF PredictorInit, RasInv, RasIsTop, RasKeeps

LEMMA RasInvCall ==
    ASSUME RasInv, NEW pc \in Calls, NEW target, Call(pc, target)
    PROVE  RasInv'
<1> DEFINE n == Len(calls)
           link == pc + 4
           raised == [i \in 1 .. n |-> [calls[i] EXCEPT !.high = IF @ < n + 2 - i
                                                                 THEN n + 2 - i ELSE @]]
<1>0. /\ n \in Nat /\ link \in Nat /\ RasSize \in Nat \ {0} /\ Len(RAS) \in Nat
      /\ \A i \in 1 .. n : calls[i] \in Frames /\ calls[i].high \in Nat /\ calls[i].link \in Nat
  <2>1. calls \in Seq(Frames) /\ RAS \in Seq(Nat)
      BY DEF RasInv
  <2>2. n \in Nat /\ Len(RAS) \in Nat /\ \A i \in 1 .. n : calls[i] \in Frames
      BY <2>1, LenProperties
  <2>3. link \in Nat /\ RasSize \in Nat \ {0}
      BY PredictorAssumption
  <2> QED BY <2>2, <2>3 DEF Frames
<1>1. raised \in Seq(Frames) /\ Len(raised) = n
    BY <1>0 DEF Frames
<1>2. \A i \in 1 .. n : /\ raised[i].link = calls[i].link
                        /\ raised[i].high = IF calls[i].high < n + 2 - i
                                            THEN n + 2 - i ELSE calls[i].high
    BY <1>0 DEF Frames
<1> HIDE DEF raised
<1>3. /\ calls' \in Seq(Frames) /\ Len(calls') = n + 1
      /\ calls'[n + 1] = [link |-> link, high |-> 1]
      /\ \A i \in 1 .. n : calls'[i] = raised[i]
    BY <1>0, <1>1 DEF Call, Frames, raised
<1>4. /\ RAS' \in Seq(Nat)
      /\ Len(RAS') = IF Len(RAS) < RasSize THEN Len(RAS) + 1 ELSE RasSize
      /\ RAS'[Len(RAS')] = link
      /\ \A k \in 1 .. (Len(RAS') - 1) : RAS'[k] = RAS[k + Len(RAS) + 1 - Len(RAS')]
    BY <1>0, PushProperties DEF Call, RasInv
<1>5. RasIsTop'
  <2> DEFINE s == Len(RAS)
             m == Len(RAS')
  <2>1. s <= n /\ s <= RasSize /\ \A k \in 1 .. s : RAS[k] = calls[n - s + k].link
      BY <1>0 DEF RasInv, RasIsTop
  <2>2. m \in Nat \ {0} /\ m <= s + 1 /\ m <= n + 1
      BY <1>0, <1>4, <2>1
  <2>3. ASSUME NEW i \in 1 .. m PROVE RAS'[i] = calls'[n + 1 - m + i].link
    <3>1. CASE i = m
        BY <1>0, <1>3, <1>4, <2>2, <3>1
    <3>2. CASE i # m
      <4> DEFINE k == i + s + 1 - m
                 p == n + 1 - m + i
      <4>1. i \in 1 .. (m - 1) /\ k \in 1 .. s /\ p \in 1 .. n /\ n - s + k = p
          BY <1>0, <2>1, <2>2, <3>2
      <4>2. RAS'[i] = RAS[k] /\ RAS[k] = calls[p].link
          BY <1>4, <2>1, <4>1
      <4>3. calls'[p].link = calls[p].link
          BY <1>2, <1>3, <4>1
      <4> QED BY <4>2, <4>3
    <3> QED BY <3>1, <3>2
  <2> QED BY <1>3, <2>2, <2>3 DEF RasIsTop
<1>6. RasKeeps'
  <2> DEFINE s == Len(RAS)
             m == Len(RAS')
  <2>1. s <= RasSize /\ m = IF s < RasSize THEN s + 1 ELSE RasSize
      BY <1>4 DEF RasInv
  <2>2. \A p \in 1 .. n : calls[p].high >= n + 1 - p /\ (calls[p].high <= RasSize => s >= n + 1 - p)
      BY DEF RasInv, RasKeeps
  <2>3. ASSUME NEW p \in 1 .. (n + 1)
        PROVE  /\ calls'[p].high >= n + 2 - p
               /\ calls'[p].high <= RasSize => m >= n + 2 - p
    <3>1. CASE p = n + 1
        BY <1>0, <1>3, <2>1, <3>1
    <3>2. CASE p # n + 1
      <4>1. p \in 1 .. n
          BY <1>0, <3>2
      <4>2. calls'[p].high = IF calls[p].high < n + 2 - p THEN n + 2 - p ELSE calls[p].high
          BY <1>2, <1>3, <4>1
      <4>3. /\ calls[p].high \in Nat /\ calls[p].high >= n + 1 - p
            /\ calls[p].high <= RasSize => s >= n + 1 - p
          BY <1>0, <2>2, <4>1
      <4>4. s \in Nat /\ n \in Nat /\ RasSize \in Nat
          BY <1>0
      <4> HIDE DEF n, s, m
      <4> QED BY <2>1, <4>1, <4>2, <4>3, <4>4
    <3> QED BY <3>1, <3>2
  <2>4. Len(calls') + 1 = n + 2
      BY <1>0, <1>3
  <2> QED BY <1>3, <2>3, <2>4 DEF RasKeeps
<1> QED BY <1>0, <1>3, <1>4, <1>5, <1>6 DEF RasInv

LEMMA RasInvReturn ==
    ASSUME RasInv, NEW pc \in Returns, Return(pc)
    PROVE  RasInv'
<1> DEFINE n == Len(calls)
           s == Len(RAS)
<1>0. /\ n \in Nat \ {0} /\ RasSize \in Nat \ {0} /\ s \in Nat
    BY PredictorAssumption, LenProperties, EmptySeq DEF RasInv, Return
<1>1. calls' \in Seq(Frames) /\ Len(calls') = n - 1 /\ \A i \in 1 .. (n - 1) : calls'[i] = calls[i]
    BY <1>0, PopProperties DEF Return, RasInv
<1>2. \A i \in 1 .. n : calls[i].high \in Nat
  <2>1. \A i \in 1 .. n : calls[i] \in Frames
      BY LenProperties DEF RasInv
  <2> QED BY <2>1 DEF Frames
<1>3. CASE RAS = <<>>
    BY <1>0, <1>1, <1>2, <1>3 DEF Return, RasInv, RasIsTop, RasKeeps
<1>4. CASE RAS # <<>>
  <2>1. s > 0
      BY <1>0, <1>4, EmptySeq DEF RasInv
  <2>2. RAS' \in Seq(Nat) /\ Len(RAS') = s - 1 /\ \A i \in 1 .. (s - 1) : RAS'[i] = RAS[i]
      BY <1>0, <1>4, <2>1, PopProperties DEF Return, RasInv
  <2>3. RasIsTop'
    <3>1. s <= n /\ \A i \in 1 .. s : RAS[i] = calls[n - s + i].link
        BY DEF RasInv, RasIsTop
    <3>2. ASSUME NEW i \in 1 .. (s - 1) PROVE RAS'[i] = calls'[(n - 1) - (s - 1) + i].link
      <4>1. (n - 1) - (s - 1) + i = n - s + i /\ n - s + i \in 1 .. (n - 1) /\ i \in 1 .. s
          BY <1>0, <3>1
      <4> QED BY <1>1, <2>2, <3>1, <4>1
    <3> QED BY <1>0, <1>1, <2>2, <3>1, <3>2 DEF RasIsTop
  <2>4. RasKeeps'
    <3>1. ASSUME NEW p \in 1 .. (n - 1)
          PROVE  /\ calls'[p].high >= n - p
                 /\ calls'[p].high <= RasSize => s - 1 >= n - p
      <4>1. p \in 1 .. n /\ calls'[p] = calls[p] /\ calls[p].high \in Nat
          BY <1>0, <1>1, <1>2
      <4>2. calls[p].high >= n + 1 - p /\ (calls[p].high <= RasSize => s >= n + 1 - p)
          BY <4>1 DEF RasInv, RasKeeps
      <4> HIDE DEF n, s
      <4> QED BY <1>0, <4>1, <4>2
    <3>2. 1 .. Len(calls') = 1 .. (n - 1) /\ \A p \in 1 .. (n - 1) : Len(calls') + 1 - p = n - p
        BY <1>0, <1>1
    <3>3. Len(RAS') = s - 1
        BY <2>2
    <3> HIDE DEF n, s
    <3> QED BY <3>1, <3>2, <3>3 DEF RasKeeps
  <2> QED BY <1>0, <1>1, <2>2, <2>3, <2>4 DEF RasInv
<1> QED BY <1>3, <1>4

LEMMA RasInvNext == RasInv /\ [PredictorNext]_predictorVars => RasInv'
<1> SUFFICES ASSUME RasInv, [PredictorNext]_predictorVars PROVE RasInv'
    OBVIOUS
<1>1. CASE UNCHANGED <<RAS, calls>>
    BY <1>1 DEF RasInv, RasIsTop, RasKeeps
<1>2. ASSUME NEW pc \in Branches, NEW taken \in BOOLEAN, update_branch_prediction(pc, taken)
      PROVE  RasInv'
    BY <1>1, <1>2 DEF update_branch_prediction
<1>3. ASSUME NEW pc \in Jumps, NEW target \in Targets, Jump(pc, target) PROVE RasInv'
    BY <1>1, <1>3 DEF Jump
<1>4. ASSUME NEW pc \in Calls, NEW target \in Targets, Call(pc, target) PROVE RasInv'
    BY <1>4, RasInvCall
<1>5. ASSUME NEW pc \in Returns, Return(pc) PROVE RasInv'
    BY <1>5, RasInvReturn
<1>6. CASE UNCHANGED predictorVars
    BY <1>1, <1>6 DEF predictorVars
<1> QED BY <1>2, <1>3, <1>4, <1>5, <1>6 DEF PredictorNext

(* A return from a function that has not nested RasSize calls is free,     *)
(* however deep the calls outside of it.                                   *)
THEOREM ReturnsPredicted == PredictorSpec => ShallowReturnsFree
<1>1. RasInv /\ [PredictorNext]_predictorVars =>
          [\A pc \in Returns :
              Return(pc) /\ back(calls).high <= RasSize => penalty' = 0]_predictorVars
  <2> SUFFICES ASSUME RasInv, NEW pc \in Returns, Return(pc), back(calls).high <= RasSize
               PROVE  penalty' = 0
      OBVIOUS
  <2>1. Len(calls) \in Nat \ {0} /\ Len(RAS) \in Nat
      BY LenProperties, EmptySeq DEF RasInv, Return
  <2>2. Len(RAS) >= 1
      BY <2>1 DEF RasInv, RasKeeps, back
  <2>3. RAS # <<>> /\ back(RAS) = back(calls).link
      BY <2>1, <2>2, EmptySeq DEF RasInv, RasIsTop, back
  <2> QED BY <2>3 DEF Return
<1> QED BY <1>1, RasInvInit, RasInvNext, PTL DEF PredictorSpec, ShallowReturnsFree
-----------------------------------------------------------------------------
(* The branch history table.                                               *)

H == NumHistoryBits
Streaks == [taken : BOOLEAN, n : 0 .. (H + CounterThreshold)]
Constant(taken) == [i \in 1 .. H |-> taken]

(* What a streak of outcomes leaves in the entry it goes to: its last      *)
(* outcomes in the history and, once they fill it, the counter they moved. *)
Trained(e, s) ==
    /\ \A i \in 1 .. H : i + s.n > H => e.history[i] = s.taken
    /\ s.n > H /\ s.taken = TRUE => e.counters[Constant(TRUE)] >= s.n - H
    /\ s.n > H /\ s.taken = FALSE =>
           e.counters[Constant(FALSE)] <= CounterMax - (s.n - H)

(* The streak after one more outcome.                                      *)
After(s, taken) ==
    [taken |-> taken,
     n |-> IF taken = s.taken /\ s.n > 0
           THEN (IF s.n < H + CounterThreshold THEN s.n + 1 ELSE s.n)
           ELSE 1]

LearnInv ==
    /\ BTB \in [BtbTags -> Nat] /\ BHT \in [BhtTags -> Entries]
    /\ streak \in [Branches -> Streaks]
    /\ \A b \in Branches :
           /\ streak[b].n >= 1 /\ streak[b].taken = TRUE =>
                  BTB[BtbTag(b)] = BranchTarget[b]
           /\ Trained(BHT[BhtTag(b)], streak[b])

LEMMA Sizes ==
    /\ H \in Nat \ {0} /\ CounterThreshold \in Nat \ {0} /\ CounterMax \in Nat \ {0}
    /\ CounterMax = 2 * CounterThreshold - 1 /\ CounterMax >= CounterThreshold
    /\ \A taken \in BOOLEAN : Constant(taken) \in Histories
BY PredictorAssumption DEF H, CounterMax, Constant, Histories

LEMMA CountRange ==
    ASSUME NEW c \in 0 .. CounterMax, NEW taken \in BOOLEAN
    PROVE  /\ count(c, taken) \in 0 .. CounterMax
           /\ taken = TRUE => count(c, taken) = CounterMax \/ count(c, taken) = c + 1
           /\ taken = FALSE => count(c, taken) = 0 \/ count(c, taken) = c - 1
<1>1. CASE taken = TRUE
    BY <1>1, Sizes DEF count
<1>2. CASE taken = FALSE
    BY <1>2, Sizes DEF count
<1> QED BY <1>1, <1>2

LEMMA HistoryTyped ==
    ASSUME NEW e \in Entries, NEW taken \in BOOLEAN
    PROVE  /\ update_history(e, taken) \in Entries
           /\ \A i \in 1 .. H : update_history(e, taken).history[i] =
                  IF i = H THEN taken ELSE e.history[i + 1]
           /\ update_history(e, taken).counters =
                  [e.counters EXCEPT ![e.history] = count(@, taken)]
           /\ e.history \in Histories
<1> DEFINE u == update_history(e, taken)
<1>1. /\ e.history \in [1 .. H -> BOOLEAN] /\ e.counters \in [Histories -> 0 .. CounterMax]
      /\ Histories = [1 .. H -> BOOLEAN]
    BY DEF Entries, Histories, H
<1>2. u.history = [i \in 1 .. H |-> IF i = H THEN taken ELSE e.history[i + 1]]
      /\ u.counters = [e.counters EXCEPT ![e.history] = count(@, taken)]
      /\ u = [history |-> u.history, counters |-> u.counters]
    BY DEF update_history, H
<1>3. u.history \in Histories
  <2>1. \A i \in 1 .. H : i # H => i + 1 \in 1 .. H
      BY Sizes
  <2>2. \A i \in 1 .. H : (IF i = H THEN taken ELSE e.history[i + 1]) \in BOOLEAN
    <3> SUFFICES ASSUME NEW i \in 1 .. H
                 PROVE  (IF i = H THEN taken ELSE e.history[i + 1]) \in BOOLEAN
        OBVIOUS
    <3>1. CASE i = H
        BY <3>1
    <3>2. CASE i # H
      <4>1. e.history[i + 1] \in BOOLEAN
          BY <1>1, <2>1, <3>2
      <4> QED BY <3>2, <4>1, Zenon
    <3> QED BY <3>1, <3>2
  <2> QED BY <1>1, <1>2, <2>2
<1>4. u.counters \in [Histories -> 0 .. CounterMax]
  <2>1. e.history \in Histories /\ e.counters[e.history] \in 0 .. CounterMax
      BY <1>1
  <2>2. count(e.counters[e.history], taken) \in 0 .. CounterMax
      BY <2>1, CountRange
  <2> QED BY <1>1, <1>2, <2>1, <2>2
<1> QED BY <1>1, <1>2, <1>3, <1>4 DEF Entries

LEMMA OneMoreOutcome ==
    ASSUME NEW e \in Entries, NEW s \in Streaks, Trained(e, s), NEW taken \in BOOLEAN
    PROVE  /\ After(s, taken) \in Streaks
           /\ Trained(update_history(e, taken), After(s, taken))
<1> DEFINE u == update_history(e, taken)
           x == After(s, taken)
           T == CounterThreshold
<1>1. /\ s.n \in 0 .. (H + T) /\ s.taken \in BOOLEAN
      /\ H \in Nat \ {0} /\ T \in Nat \ {0} /\ CounterMax \in Nat \ {0}
      /\ CounterMax = 2 * T - 1 /\ CounterMax >= T
    BY Sizes DEF Streaks
<1>2. /\ x.taken = taken
      /\ x.n = IF taken = s.taken /\ s.n > 0 THEN (IF s.n < H + T THEN s.n + 1 ELSE s.n) ELSE 1
      /\ x = [taken |-> x.taken, n |-> x.n]
    BY DEF After
<1>3. x.n \in 1 .. (H + T)
    BY <1>1, <1>2
<1>4. x \in Streaks
    BY <1>1, <1>2, <1>3 DEF Streaks
<1>5. /\ \A i \in 1 .. H : u.history[i] = IF i = H THEN taken ELSE e.history[i + 1]
      /\ u.counters = [e.counters EXCEPT ![e.history] = count(@, taken)]
      /\ e.history \in Histories /\ e.counters \in [Histories -> 0 .. CounterMax]
      /\ \A h \in Histories : e.counters[h] \in 0 .. CounterMax
    BY HistoryTyped DEF Entries
<1> HIDE DEF u, x, T
<1>6. \A i \in 1 .. H : i + x.n > H => u.history[i] = x.taken
  <2> SUFFICES ASSUME NEW i \in 1 .. H, i + x.n > H PROVE u.history[i] = taken
      BY <1>2
  <2>1. CASE i = H
      BY <1>5, <2>1
  <2>2. CASE i # H
    <3>1. i + 1 \in 1 .. H /\ x.n # 1
        BY <1>1, <1>3, <2>2
    <3>2. taken = s.taken /\ (i + 1) + s.n > H
        BY <1>1, <1>2, <1>3, <3>1
    <3>3. e.history[i + 1] = s.taken
        BY <3>1, <3>2 DEF Trained
    <3> QED BY <1>5, <2>2, <3>2, <3>3
  <2> QED BY <2>1, <2>2
<1>7. ASSUME x.n > H
      PROVE  /\ taken = s.taken /\ s.n >= H /\ s.n > 0
             /\ e.history = Constant(taken)
             /\ u.counters[Constant(taken)] = count(e.counters[Constant(taken)], taken)
             /\ e.counters[Constant(taken)] \in 0 .. CounterMax
  <2>1. taken = s.taken /\ s.n >= H /\ s.n > 0
      BY <1>1, <1>2, <1>7
  <2>2. \A i \in 1 .. H : e.history[i] = taken
      BY <1>1, <2>1 DEF Trained
  <2>3. e.history = Constant(taken)
      BY <1>5, <2>2 DEF Constant, Histories, H
  <2>4. u.counters[Constant(taken)] = count(e.counters[Constant(taken)], taken)
      BY <1>5, <2>3
  <2> QED BY <1>5, <2>1, <2>3, <2>4
<1>8. ASSUME x.n > H, taken = TRUE PROVE u.counters[Constant(TRUE)] >= x.n - H
  <2> DEFINE c == e.counters[Constant(TRUE)]
             d == u.counters[Constant(TRUE)]
  <2>1. /\ d = count(c, TRUE) /\ c \in 0 .. CounterMax
        /\ s.taken = TRUE /\ s.n >= H /\ s.n > 0
      BY <1>7, <1>8
  <2>2. s.n > H => c >= s.n - H
      BY <2>1 DEF Trained
  <2>3. d = CounterMax \/ d = c + 1
      BY <2>1, CountRange
  <2>4. x.n = IF s.n < H + T THEN s.n + 1 ELSE s.n
      BY <1>2, <1>8, <2>1
  <2>a. c \in 0 .. CounterMax /\ s.n >= H
      BY <2>1, Zenon
  <2>b. s.n \in Nat
      BY <1>1
  <2>5. s.n \in Nat /\ c \in 0 .. CounterMax /\ s.n >= H
      BY <2>a, <2>b, Zenon
  <2> HIDE DEF c, d
  <2>6. d >= x.n - H
    <3>1. CASE s.n = H
        BY <1>1, <2>3, <2>4, <2>5, <3>1
    <3>2. CASE s.n > H
        BY <1>1, <2>2, <2>3, <2>4, <2>5, <3>2
    <3> QED BY <1>1, <2>5, <3>1, <3>2
  <2> QED BY <2>6 DEF d
<1>9. ASSUME x.n > H, taken = FALSE
      PROVE  u.counters[Constant(FALSE)] <= CounterMax - (x.n - H)
  <2> DEFINE c == e.counters[Constant(FALSE)]
             d == u.counters[Constant(FALSE)]
  <2>1. /\ d = count(c, FALSE) /\ c \in 0 .. CounterMax
        /\ s.taken = FALSE /\ s.n >= H /\ s.n > 0
      BY <1>7, <1>9
  <2>2. s.n > H => c <= CounterMax - (s.n - H)
      BY <2>1 DEF Trained
  <2>3. d = 0 \/ d = c - 1
      BY <2>1, CountRange
  <2>4. x.n = IF s.n < H + T THEN s.n + 1 ELSE s.n
      BY <1>2, <1>9, <2>1
  <2>a. c \in 0 .. CounterMax /\ s.n >= H
      BY <2>1, Zenon
  <2>b. s.n \in Nat
      BY <1>1
  <2>5. s.n \in Nat /\ c \in 0 .. CounterMax /\ s.n >= H
      BY <2>a, <2>b, Zenon
  <2> HIDE DEF c, d
  <2>6. d <= CounterMax - (x.n - H)
    <3>1. CASE s.n = H
        BY <1>1, <2>3, <2>4, <2>5, <3>1
    <3>2. CASE s.n > H
        BY <1>1, <2>2, <2>3, <2>4, <2>5, <3>2
    <3> QED BY <1>1, <2>5, <3>1, <3>2
  <2> QED BY <2>6 DEF d
<1>10. Trained(u, x)
    BY <1>2, <1>6, <1>8, <1>9 DEF Trained
<1> QED BY <1>4, <1>10 DEF u, x

(* A streak that has been ended says nothing.                              *)
LEMMA Untrained ==
    ASSUME NEW e, NEW s, s.n = 0
    PROVE  Trained(e, s)
<1>1. H \in Nat \ {0}
    BY Sizes
<1>2. ~(s.n > H) /\ \A i \in 1 .. H : ~(i + s.n > H)
    BY <1>1
<1> QED BY <1>2, Zenon DEF Trained

LEMMA LearnInit == PredictorInit => LearnInv
<1> SUFFICES ASSUME PredictorInit PROVE LearnInv
    OBVIOUS
<1>1. BTB \in [BtbTags -> Nat]
    BY DEF PredictorInit
<1>2. BHT \in [BhtTags -> Entries]
  <2>1. /\ [i \in 1 .. NumHistoryBits |-> FALSE] \in Histories
        /\ [h \in Histories |-> 0] \in [Histories -> 0 .. CounterMax]
      BY Sizes DEF Histories
  <2> QED BY <2>1 DEF PredictorInit, Entries
<1>3. streak \in [Branches -> Streaks] /\ \A b \in Branches : streak[b].n = 0
  <2>1. [taken |-> FALSE, n |-> 0] \in Streaks
      BY Sizes DEF Streaks
  <2> QED BY <2>1 DEF PredictorInit
<1>4. \A b \in Branches : ~(streak[b].n >= 1)
  <2>1. ~(0 >= 1) /\ \A b \in Branches : streak[b].n = 0
      BY <1>3
  <2> QED BY <2>1
<1> QED BY <1>1, <1>2, <1>3, <1>4, Untrained DEF LearnInv

(* A branch keeps what it has learnt when its entries are left alone, and  *)
(* forgets when they are not.                                              *)
Undisturbed(b, pc) ==
    \/ streak'[b].n = 0
    \/ /\ streak'[b] = streak[b] /\ BHT'[BhtTag(b)] = BHT[BhtTag(b)]
       /\ BTB'[BtbTag(b)] = BTB[BtbTag(b)]

LEMMA KeepsOrForgets ==
    ASSUME LearnInv, NEW b \in Branches, NEW pc, Undisturbed(b, pc)
    PROVE  /\ streak'[b].n >= 1 /\ streak'[b].taken = TRUE =>
                  BTB'[BtbTag(b)] = BranchTarget[b]
           /\ Trained(BHT'[BhtTag(b)], streak'[b])
<1>1. CASE streak'[b].n = 0
  <2>1. ~(streak'[b].n >= 1)
      BY <1>1
  <2> QED BY <1>1, <2>1, Untrained
<1>2. CASE /\ streak'[b] = streak[b] /\ BHT'[BhtTag(b)] = BHT[BhtTag(b)]
           /\ BTB'[BtbTag(b)] = BTB[BtbTag(b)]
    BY <1>2 DEF LearnInv
<1> QED BY <1>1, <1>2 DEF Undisturbed

LEMMA TagsOf ==
    /\ \A pc \in Sources : BtbTag(pc) \in BtbTags
    /\ \A pc \in Branches : pc \in Sources /\ BhtTag(pc) \in BhtTags
BY DEF BtbTags, BhtTags, Sources

LEMMA BrokenTyped ==
    ASSUME streak \in [Branches -> Streaks], NEW bs
    PROVE  /\ Broken(bs) \in [Branches -> Streaks]
           /\ \A b \in Branches : IF b \in bs THEN Broken(bs)[b].n = 0
                                             ELSE Broken(bs)[b] = streak[b]
<1>1. \A b \in Branches : /\ [streak[b] EXCEPT !.n = 0] \in Streaks
                          /\ [streak[b] EXCEPT !.n = 0].n = 0
    BY Sizes DEF Streaks
<1> QED BY <1>1 DEF Broken

LEMMA LearnJump ==
    ASSUME LearnInv, NEW pc \in Sources \ Branches, NEW target \in Nat,
           do_jump(pc, target), UNCHANGED BHT
    PROVE  LearnInv'
<1> DEFINE bs == Disturbed(pc, TRUE, FALSE)
<1>1. BTB' \in [BtbTags -> Nat] /\ BHT' \in [BhtTags -> Entries]
    BY DEF LearnInv, do_jump
<1>2. streak' = Broken(bs) /\ streak' \in [Branches -> Streaks]
    BY BrokenTyped DEF LearnInv, do_jump
<1>3. ASSUME NEW b \in Branches PROVE Undisturbed(b, pc)
  <2>1. CASE BtbTag(b) = BtbTag(pc)
    <3>1. b \in bs
        BY <2>1 DEF Disturbed
    <3>2. streak'[b].n = 0
        BY <1>2, <3>1, BrokenTyped DEF LearnInv
    <3> QED BY <3>2 DEF Undisturbed
  <2>2. CASE BtbTag(b) # BtbTag(pc)
    <3>1. b \notin bs
        BY <2>2 DEF Disturbed
    <3>2. streak'[b] = streak[b]
        BY <1>2, <3>1, BrokenTyped DEF LearnInv
    <3>3. BTB'[BtbTag(b)] = BTB[BtbTag(b)]
        BY <2>2, TagsOf DEF do_jump, LearnInv
    <3> QED BY <3>2, <3>3 DEF Undisturbed
  <2> QED BY <2>1, <2>2
<1>4. \A b \in Branches :
          /\ streak'[b].n >= 1 /\ streak'[b].taken = TRUE =>
                 BTB'[BtbTag(b)] = BranchTarget[b]
          /\ Trained(BHT'[BhtTag(b)], streak'[b])
    BY <1>3, KeepsOrForgets
<1> QED BY <1>1, <1>2, <1>4 DEF LearnInv, Trained

LEMMA LearnBranch ==
    ASSUME LearnInv, NEW pc \in Branches, NEW taken \in BOOLEAN,
           update_branch_prediction(pc, taken)
    PROVE  LearnInv'
<1> DEFINE bs == Disturbed(pc, taken, TRUE)
           e == BHT[BhtTag(pc)]
<1>0. /\ BtbTag(pc) \in BtbTags /\ BhtTag(pc) \in BhtTags /\ BranchTarget[pc] \in Nat
      /\ e \in Entries /\ streak[pc] \in Streaks /\ Trained(e, streak[pc])
    BY TagsOf, PredictorAssumption DEF LearnInv
<1>1. /\ BTB' = IF taken THEN [BTB EXCEPT ![BtbTag(pc)] = BranchTarget[pc]] ELSE BTB
      /\ BHT' = [BHT EXCEPT ![BhtTag(pc)] = update_history(e, taken)]
      /\ streak' = [Broken(bs) EXCEPT ![pc] = After(Broken(bs)[pc], taken)]
    BY DEF update_branch_prediction, After, H
<1>2. /\ Broken(bs) \in [Branches -> Streaks]
      /\ \A b \in Branches : IF b \in bs THEN Broken(bs)[b].n = 0
                                        ELSE Broken(bs)[b] = streak[b]
      /\ pc \notin bs
    BY BrokenTyped DEF LearnInv, Disturbed
<1>3. /\ update_history(e, taken) \in Entries /\ After(streak[pc], taken) \in Streaks
      /\ Trained(update_history(e, taken), After(streak[pc], taken))
    BY <1>0, HistoryTyped, OneMoreOutcome
<1> HIDE DEF bs, e
<1>4. streak' = [Broken(bs) EXCEPT ![pc] = After(streak[pc], taken)]
    BY <1>1, <1>2
<1>5. streak' \in [Branches -> Streaks]
    BY <1>2, <1>3, <1>4
<1>6. BHT' \in [BhtTags -> Entries]
    BY <1>1, <1>3 DEF LearnInv
<1>7. BTB' \in [BtbTags -> Nat]
  <2>1. CASE taken = TRUE
      BY <1>0, <1>1, <2>1 DEF LearnInv
  <2>2. CASE taken = FALSE
      BY <1>1, <2>2 DEF LearnInv
  <2> QED BY <2>1, <2>2
<1>8. ASSUME NEW b \in Branches, b # pc PROVE Undisturbed(b, pc)
  <2>1. CASE b \in bs
    <3>1. streak'[b].n = 0
        BY <1>2, <1>4, <1>8, <2>1
    <3> QED BY <3>1 DEF Undisturbed
  <2>2. CASE b \notin bs
    <3>1. BhtTag(b) # BhtTag(pc) /\ (taken = TRUE => BtbTag(b) # BtbTag(pc))
        BY <1>8, <2>2 DEF Disturbed, bs
    <3>2. streak'[b] = streak[b]
        BY <1>2, <1>4, <1>8, <2>2
    <3>3. BHT'[BhtTag(b)] = BHT[BhtTag(b)]
        BY <1>1, <3>1, TagsOf DEF LearnInv
    <3>4. BTB'[BtbTag(b)] = BTB[BtbTag(b)]
      <4>1. CASE taken = TRUE
          BY <1>1, <3>1, <4>1, TagsOf DEF LearnInv
      <4>2. CASE taken = FALSE
          BY <1>1, <4>2
      <4> QED BY <4>1, <4>2
    <3> QED BY <3>2, <3>3, <3>4 DEF Undisturbed
  <2> QED BY <2>1, <2>2
<1>9. /\ streak'[pc] = After(streak[pc], taken)
      /\ BHT'[BhtTag(pc)] = update_history(e, taken)
    BY <1>0, <1>1, <1>2, <1>4 DEF LearnInv
<1>10. streak'[pc].n >= 1 /\ streak'[pc].taken = TRUE => BTB'[BtbTag(pc)] = BranchTarget[pc]
  <2>1. streak'[pc].taken = taken
      BY <1>9 DEF After
  <2>2. CASE taken = TRUE
      BY <1>0, <1>1, <2>2 DEF LearnInv
  <2>3. CASE taken = FALSE
      BY <2>1, <2>3
  <2> QED BY <2>2, <2>3
<1>11. ASSUME NEW b \in Branches
       PROVE  /\ streak'[b].n >= 1 /\ streak'[b].taken = TRUE =>
                     BTB'[BtbTag(b)] = BranchTarget[b]
              /\ Trained(BHT'[BhtTag(b)], streak'[b])
  <2>1. CASE b = pc
      BY <1>3, <1>9, <1>10, <2>1
  <2>2. CASE b # pc
      BY <1>8, <2>2, KeepsOrForgets
  <2> QED BY <2>1, <2>2
<1> QED BY <1>5, <1>6, <1>7, <1>11 DEF LearnInv, Trained

LEMMA LearnNext == RasInv /\ LearnInv /\ [PredictorNext]_predictorVars => LearnInv'
<1> SUFFICES ASSUME RasInv, LearnInv, [PredictorNext]_predictorVars PROVE LearnInv'
    OBVIOUS
<1>0. /\ Jumps \cup Calls \cup Returns \subseteq Sources \ Branches
      /\ Targets \subseteq Nat
    BY PredictorAssumption DEF Sources
<1>1. CASE UNCHANGED <<BTB, BHT, streak>>
    BY <1>1 DEF LearnInv, Trained
<1>2. ASSUME NEW pc \in Branches, NEW taken \in BOOLEAN, update_branch_prediction(pc, taken)
      PROVE  LearnInv'
    BY <1>2, LearnBranch
<1>3. ASSUME NEW pc \in Jumps, NEW target \in Targets, Jump(pc, target) PROVE LearnInv'
    BY <1>0, <1>3, LearnJump DEF Jump
<1>4. ASSUME NEW pc \in Calls, NEW target \in Targets, Call(pc, target) PROVE LearnInv'
    BY <1>0, <1>4, LearnJump DEF Call
<1>5. ASSUME NEW pc \in Returns, Return(pc) PROVE LearnInv'
  <2>1. CASE UNCHANGED <<BTB, streak>>
      BY <1>1, <1>5, <2>1 DEF Return
  <2>2. CASE do_jump(pc, back(calls).link)
    <3>1. Len(calls) \in Nat \ {0} /\ calls \in Seq(Frames)
        BY <1>5, LenProperties, EmptySeq DEF RasInv, Return
    <3>2. back(calls) \in Frames
        BY <3>1 DEF back
    <3>3. back(calls).link \in Nat
        BY <3>2 DEF Frames
    <3> QED BY <1>0, <1>5, <2>2, <3>3, LearnJump DEF Return
  <2> QED BY <1>5, <2>1, <2>2 DEF Return
<1>6. CASE UNCHANGED predictorVars
    BY <1>1, <1>6 DEF predictorVars
<1> QED BY <1>2, <1>3, <1>4, <1>5, <1>6 DEF PredictorNext

(* A branch that has gone the same way for as long as its history and half *)
(* its counter's range, undisturbed, is predicted: with any sizes.         *)
THEOREM BranchesLearnt == PredictorSpec => Learns
<1>1. RasInv /\ LearnInv /\ [PredictorNext]_predictorVars =>
          [\A pc \in Branches, taken \in BOOLEAN :
              /\ update_branch_prediction(pc, taken)
              /\ streak[pc].n = NumHistoryBits + CounterThreshold
              /\ streak[pc].taken = taken
              => penalty' = 0]_predictorVars
  <2> SUFFICES ASSUME LearnInv, NEW pc \in Branches, NEW taken \in BOOLEAN,
                      update_branch_prediction(pc, taken),
                      streak[pc].n = H + CounterThreshold, streak[pc].taken = taken
               PROVE  penalty' = 0
      BY DEF H
  <2> DEFINE e == BHT[BhtTag(pc)]
             c == e.counters[Constant(taken)]
  <2>1. /\ e \in Entries /\ e.history \in Histories /\ Trained(e, streak[pc])
        /\ e.counters \in [Histories -> 0 .. CounterMax]
        /\ streak[pc].n >= 1 /\ streak[pc].n > H /\ streak[pc].n - H = CounterThreshold
        /\ \A i \in 1 .. H : i + streak[pc].n > H
    <3>1. e \in Entries /\ Trained(e, streak[pc])
        BY TagsOf DEF LearnInv
    <3>2. /\ streak[pc].n >= 1 /\ streak[pc].n > H /\ streak[pc].n - H = CounterThreshold
          /\ \A i \in 1 .. H : i + streak[pc].n > H
        BY Sizes
    <3> QED BY <3>1, <3>2 DEF Entries
  <2>2. e.history = Constant(taken)
    <3>1. \A i \in 1 .. H : e.history[i] = taken
        BY <2>1 DEF Trained
    <3> QED BY <2>1, <3>1 DEF Constant, Histories, H
  <2>3. c \in 0 .. CounterMax
      BY <2>1, Sizes
  <2>4. CASE taken = TRUE
    <3>1. c >= CounterThreshold
        BY <2>1, <2>4 DEF Trained
    <3>2. predict_branch_taken(e)
        BY <2>2, <3>1 DEF predict_branch_taken
    <3>3. BTB[BtbTag(pc)] = BranchTarget[pc]
        BY <2>1, <2>4 DEF LearnInv
    <3> QED BY <2>4, <3>2, <3>3 DEF update_branch_prediction
  <2>5. CASE taken = FALSE
    <3>1. c <= CounterMax - CounterThreshold
        BY <2>1, <2>5 DEF Trained
    <3>2. ~(c >= CounterThreshold)
        BY <2>3, <3>1, Sizes
    <3>3. ~predict_branch_taken(e)
        BY <2>2, <3>2 DEF predict_branch_taken
    <3> QED BY <2>5, <3>3 DEF update_branch_prediction
  <2> QED BY <2>4, <2>5
<1>2. PredictorInit => RasInv /\ LearnInv
    BY RasInvInit, LearnInit
<1>3. RasInv /\ LearnInv /\ [PredictorNext]_predictorVars => RasInv' /\ LearnInv'
    BY RasInvNext, LearnNext
<1> QED BY <1>1, <1>2, <1>3, PTL DEF PredictorSpec, Learns

-----------------------------------------------------------------------------
(* The instruction cache.                                                  *)

(* The lines hold heads of the guest's code.                               *)
THEOREM ICacheTyped == ICacheSpec => []ICacheTypeOK
<1>1. ICacheInit => ICacheTypeOK
  <2>1. [first |-> Cold, second |-> Cold, stat |-> FALSE] \in CacheLines
      BY ICacheAssumption DEF CacheLines
  <2> QED BY <2>1, Zenon DEF ICacheInit, ICacheTypeOK
<1>2. ICacheTypeOK /\ [ICacheNext]_icacheVars => ICacheTypeOK'
  <2> SUFFICES ASSUME ICacheTypeOK, [ICacheNext]_icacheVars PROVE ICacheTypeOK'
      OBVIOUS
  <2>1. ASSUME NEW t \in Tags, NEW h \in Heads, load_instr(t, h) PROVE ICacheTypeOK'
    <3>1. lines' \in [Tags -> CacheLines]
        BY <2>1 DEF ICacheTypeOK, CacheLines, load_instr, Victim
    <3>2. missed' \in BOOLEAN
        BY <2>1, Zenon DEF load_instr
    <3> QED BY <3>1, <3>2 DEF ICacheTypeOK
  <2>2. CASE UNCHANGED icacheVars
      BY <2>2 DEF icacheVars, ICacheTypeOK
  <2> QED BY <2>1, <2>2 DEF ICacheNext
<1> QED BY <1>1, <1>2, PTL DEF ICacheSpec

Newer(line) == IF line.stat THEN line.first ELSE line.second
Older(line) == IF line.stat THEN line.second ELSE line.first

(* A fetch that finds its line marks it the latest, and one that does not  *)
(* gives the older of the two lines away.                                  *)
LEMMA FetchIsAsk ==
    ASSUME ICacheTypeOK, NEW t \in Tags, NEW h \in Heads, load_instr(t, h)
    PROVE  Lru!Ask(t, h)
<1> DEFINE line == lines[t]
           new  == IF line.first = h THEN [line EXCEPT !.stat = TRUE]
                   ELSE IF line.second = h THEN [line EXCEPT !.stat = FALSE]
                   ELSE [Victim(line, h) EXCEPT !.stat = ~line.stat]
<1>1. line \in CacheLines /\ lines' = [lines EXCEPT ![t] = new]
    BY DEF ICacheTypeOK, load_instr
<1>2. /\ Newer(new) = h
      /\ Older(new) = IF h = Newer(line) THEN Older(line) ELSE Newer(line)
      /\ h \in {line.first, line.second} <=> h \in {Newer(line), Older(line)}
    BY <1>1 DEF CacheLines, Newer, Older, Victim
<1>3. [s \in Tags |-> Newer(lines'[s])] = [[s \in Tags |-> Newer(lines[s])] EXCEPT ![t] = h]
    BY <1>1, <1>2 DEF ICacheTypeOK
<1>4. [s \in Tags |-> Older(lines'[s])]
         = [[s \in Tags |-> Older(lines[s])] EXCEPT
               ![t] = IF h = Newer(line) THEN @ ELSE Newer(line)]
    BY <1>1, <1>2 DEF ICacheTypeOK
<1>5. missed' = (h \notin {Newer(line), Older(line)})
    BY <1>2, Zenon DEF load_instr
<1> QED BY <1>3, <1>4, <1>5 DEF Lru!Ask, Newer, Older

(* The instruction cache of timing.h evicts the line that was asked for    *)
(* longest ago, and stalls for exactly the lines it has evicted so.        *)
THEOREM CacheIsLru == ICacheSpec => EvictsOldest
<1>1. ICacheInit => Lru!Init
    BY DEF ICacheInit, Lru!Init
<1>2. ICacheTypeOK /\ [ICacheNext]_icacheVars => [Lru!Next]_(Lru!vars)
  <2> SUFFICES ASSUME ICacheTypeOK, [ICacheNext]_icacheVars PROVE [Lru!Next]_(Lru!vars)
      OBVIOUS
  <2>1. ASSUME NEW t \in Tags, NEW h \in Heads, load_instr(t, h) PROVE Lru!Next
      BY <2>1, FetchIsAsk DEF Lru!Next
  <2>2. CASE UNCHANGED icacheVars
      BY <2>2 DEF icacheVars, Lru!vars
  <2> QED BY <2>1, <2>2 DEF ICacheNext
<1> QED BY <1>1, <1>2, ICacheTyped, PTL DEF ICacheSpec, EvictsOldest, Lru!Spec

-----------------------------------------------------------------------------
(* The pipeline.                                                           *)

USE PipelineAssumption

Sound(p) ==
    /\ p \in Pipes /\ p.ok
    /\ \A s \in p.stores : s.latency = 1

(* q is p after n cycles in which nothing new was started.  Every store is *)
(* over within one.                                                        *)
Moved(p, q, n) ==
    /\ Sound(q)
    /\ q.num_total_cycles = p.num_total_cycles + n
    /\ \A r \in Regs : q.lat[r] = Left(p.lat[r], n)
    /\ \A u \in Units : q.unit[u] = Left(p.unit[u], n)
    /\ n = 0 => q.stores = p.stores
    /\ n > 0 => q.stores = {}

PipeInv == Sound(pipe) /\ OneStorePending

-----------------------------------------------------------------------------
(* Waiting.                                                                *)

LEMMA AdvanceMoves ==
    ASSUME NEW p, Sound(p), NEW n \in Nat \ {0}
    PROVE  Moved(p, advance(p, n), n)
<1> DEFINE q == advance(p, n)
<1>1. p.lat \in [Regs -> Nat] /\ p.unit \in [Units -> Nat]
      /\ p.num_total_cycles \in Nat /\ p.ok \in BOOLEAN
    BY DEF Sound, Pipes
<1>2. /\ q.lat = [r \in Regs |-> Left(p.lat[r], n)]
      /\ q.unit = [u \in Units |-> Left(p.unit[u], n)]
      /\ q.num_total_cycles = p.num_total_cycles + n
    BY DEF advance
<1>3. q.lat \in [Regs -> Nat] /\ q.unit \in [Units -> Nat]
    BY <1>1, <1>2 DEF Left
<1>4. q.stores = {}
    <2>1. {x \in p.stores : x.latency > n} = {}
        BY DEF Sound
    <2> QED BY <2>1 DEF advance
<1>5. q.ok = (p.ok /\ n > 0) /\ n > 0
    BY DEF advance
<1>6. q.ok /\ q.ok \in BOOLEAN
    BY <1>5, Zenon DEF Sound
<1>7. q \in Pipes
    BY <1>1, <1>2, <1>3, <1>4, <1>6 DEF Pipes, advance
<1> QED BY <1>1, <1>2, <1>4, <1>6, <1>7 DEF Moved, Sound

LEMMA StillMoves ==
    ASSUME NEW p, Sound(p)
    PROVE  Moved(p, p, 0)
BY DEF Moved, Sound, Pipes, Left

LEMMA WaitMoves ==
    ASSUME NEW p, Sound(p), NEW n \in Nat
    PROVE  Moved(p, Wait(p, n), n)
<1>1. CASE n = 0
    BY <1>1, StillMoves DEF Wait
<1>2. CASE n # 0
    BY <1>2, AdvanceMoves DEF Wait
<1> QED BY <1>1, <1>2

LEMMA MovedTwice ==
    ASSUME NEW p, NEW q, NEW r, Sound(p), NEW m \in Nat, NEW n \in Nat,
           Moved(p, q, m), Moved(q, r, n)
    PROVE  Moved(p, r, m + n)
<1>1. \A x \in Nat : Left(Left(x, m), n) = Left(x, m + n)
    BY DEF Left
<1>2. p \in Pipes /\ q \in Pipes /\ r \in Pipes
    BY DEF Moved, Sound
<1>3. /\ p.lat \in [Regs -> Nat] /\ p.unit \in [Units -> Nat]
      /\ p.num_total_cycles \in Nat
    BY <1>2 DEF Pipes
<1>4. \A g \in Regs : r.lat[g] = Left(p.lat[g], m + n)
    BY <1>1, <1>3 DEF Moved
<1>5. \A u \in Units : r.unit[u] = Left(p.unit[u], m + n)
    BY <1>1, <1>3 DEF Moved
<1>6. r.num_total_cycles = p.num_total_cycles + (m + n)
    BY <1>3 DEF Moved
<1>7. /\ m + n = 0 => r.stores = p.stores
      /\ m + n > 0 => r.stores = {}
    BY DEF Moved
<1> QED BY <1>4, <1>5, <1>6, <1>7 DEF Moved

-----------------------------------------------------------------------------
(* m cycles are what an instruction that uses registers rs has to wait.    *)
First(m, rs) ==
    /\ m = 0 \/ \E r \in rs : m = pipe.lat[r]
    /\ \A r \in rs : m >= pipe.lat[r]

Ready(q, rs) == \E m \in Nat : Moved(pipe, q, m) /\ First(m, rs)

LEMMA ReadyAtOnce == ASSUME Sound(pipe) PROVE Ready(pipe, {})
BY StillMoves DEF Ready, First

LEMMA ReadyAccess ==
    ASSUME Sound(pipe), NEW q, NEW rs \in SUBSET Regs, Ready(q, rs), NEW r \in Regs
    PROVE  Ready(access_register(q, r), rs \cup {r})
<1>1. PICK m \in Nat : Moved(pipe, q, m) /\ First(m, rs)
    BY DEF Ready
<1>2. Sound(q) /\ q.lat[r] \in Nat /\ q.lat[r] = Left(pipe.lat[r], m)
    BY <1>1 DEF Moved, Sound, Pipes
<1>3. Moved(q, access_register(q, r), q.lat[r])
    BY <1>2, WaitMoves DEF access_register
<1>4. Moved(pipe, access_register(q, r), m + q.lat[r])
    BY <1>1, <1>2, <1>3, MovedTwice
<1>5. pipe.lat \in [Regs -> Nat]
    BY DEF Sound, Pipes
<1>6. First(m + q.lat[r], rs \cup {r})
    BY <1>1, <1>2, <1>5 DEF First, Left
<1> QED BY <1>2, <1>4, <1>6 DEF Ready

LEMMA ReadyRead ==
    ASSUME Sound(pipe), NEW a \in Regs, NEW b \in Regs
    PROVE  Ready(Read(pipe, a, b), {a, b})
<1>1. Ready(access_register(pipe, a), {} \cup {a})
    BY ReadyAtOnce, ReadyAccess
<1>2. Ready(access_register(access_register(pipe, a), b), ({} \cup {a}) \cup {b})
    BY <1>1, ReadyAccess
<1> QED BY <1>2 DEF Read

LEMMA ReadyReadWrite ==
    ASSUME Sound(pipe), NEW a \in Regs, NEW b \in Regs, NEW rd \in Regs
    PROVE  Ready(access_register(Read(pipe, a, b), rd), {a, b, rd})
<1>1. Ready(access_register(Read(pipe, a, b), rd), {a, b} \cup {rd})
    BY ReadyRead, ReadyAccess
<1> QED BY <1>1

LEMMA ReadyOnce ==
    ASSUME Sound(pipe), NEW r \in Regs
    PROVE  Ready(access_register(pipe, r), {r})
<1>1. Ready(access_register(pipe, r), {} \cup {r})
    BY ReadyAtOnce, ReadyAccess
<1> QED BY <1>1

(* Nothing of what was waited for is still due.                            *)
LEMMA ReadyIsFree ==
    ASSUME Sound(pipe), NEW q, NEW rs \in SUBSET Regs, Ready(q, rs), NEW r \in rs
    PROVE  Sound(q) /\ q.lat[r] = 0
<1>1. PICK m \in Nat : Moved(pipe, q, m) /\ First(m, rs)
    BY DEF Ready
<1>2. pipe.lat[r] \in Nat
    BY DEF Sound, Pipes
<1> QED BY <1>1, <1>2 DEF Moved, First, Left

-----------------------------------------------------------------------------
(* The same in absolute time.                                              *)
Due == [r \in Regs |-> pipe.num_total_cycles + pipe.lat[r]]
UnitDue == [u \in Units |-> pipe.num_total_cycles + pipe.unit[u]]
Bs == UNION {r.start .. (r.end - 1) : r \in Ranges}
BytesDue == [b \in Bs |-> pipe.num_total_cycles + ByteDue(b)]

LEMMA FirstInTime ==
    ASSUME Sound(pipe), NEW rs \in SUBSET Regs, NEW m \in Nat, First(m, rs)
    PROVE  LET now == pipe.num_total_cycles
           IN  /\ now + m \in {now} \cup {Due[r] : r \in rs}
               /\ Abs!FirstAfter(now + m, {Due[r] : r \in rs})
<1>1. pipe.num_total_cycles \in Nat /\ pipe.lat \in [Regs -> Nat]
    BY DEF Sound, Pipes
<1>2. \A r \in rs : Due[r] = pipe.num_total_cycles + pipe.lat[r]
    BY DEF Due
<1> QED BY <1>1, <1>2 DEF First, Abs!FirstAfter

LEMMA ByteTypes ==
    ASSUME NEW b PROVE ByteDue(b) \in {0, 1}
BY DEF ByteDue

(* An operation without a result, of k cycles.                             *)
LEMMA PlainStep ==
    ASSUME Sound(pipe), NEW q, NEW rs \in SUBSET Regs, Ready(q, rs),
           NEW k \in Nat \ {0}, Moved(q, pipe', k)
    PROVE  PipeInv' /\ Abs!Plain(rs, k)
<1>1. PICK m \in Nat : Moved(pipe, q, m) /\ First(m, rs)
    BY DEF Ready
<1> DEFINE now == pipe.num_total_cycles
           t == now + m
<1>2. Moved(pipe, pipe', m + k)
    BY <1>1, MovedTwice
<1>3. /\ now \in Nat /\ pipe.lat \in [Regs -> Nat] /\ pipe.unit \in [Units -> Nat]
      /\ pipe'.stores = {} /\ Sound(pipe)'
    BY <1>2 DEF Moved, Sound, Pipes
<1>4. PipeInv'
    BY <1>3 DEF PipeInv, OneStorePending
<1>5. pipe'.num_total_cycles = t + k
    BY <1>2, <1>3 DEF Moved
<1>6. \A r \in Regs : t + k + pipe'.lat[r] = Abs!Later(Due[r], t + k)
    BY <1>2, <1>3 DEF Moved, Left, Abs!Later, Due
<1>7. \A u \in Units : t + k + pipe'.unit[u] = Abs!Later(UnitDue[u], t + k)
    BY <1>2, <1>3 DEF Moved, Left, Abs!Later, UnitDue
<1>8. \A b \in Bs : t + k + ByteDue(b)' = Abs!Later(BytesDue[b], t + k)
  <2>1. \A b \in Bs : ByteDue(b)' = 0
      BY <1>3 DEF ByteDue
  <2> QED BY <1>3, <2>1, ByteTypes DEF Abs!Later, BytesDue
<1>9. Abs!At(t + k, Due, UnitDue, BytesDue)
    BY <1>5, <1>6, <1>7, <1>8 DEF Abs!At, Abs!Units, Abs!Bytes, Abs!BytesOf, Bs, Units
<1> QED BY <1>1, <1>4, <1>9, FirstInTime
        DEF Abs!Plain, Abs!Units, Abs!Bytes, Abs!BytesOf, Due, UnitDue, BytesDue, Bs, Units

-----------------------------------------------------------------------------
(* A delay left on a register that is free breaks no assertion.            *)
LEMMA ResultLeft ==
    ASSUME NEW q, Sound(q), NEW rd \in Regs, q.lat[rd] = 0, NEW n \in Nat \ {0}
    PROVE  LET p == add_result_latency(q, rd, n)
           IN  /\ Sound(p)
               /\ p.lat = [q.lat EXCEPT ![rd] = n]
               /\ p.unit = q.unit /\ p.stores = q.stores
               /\ p.num_total_cycles = q.num_total_cycles
<1> DEFINE p == add_result_latency(q, rd, n)
<1>1. q \in Pipes
    BY DEF Sound
<1>2. /\ p.lat = [q.lat EXCEPT ![rd] = n]
      /\ p.unit = q.unit /\ p.stores = q.stores
      /\ p.num_total_cycles = q.num_total_cycles
      /\ p = [q EXCEPT !.lat = p.lat, !.ok = p.ok]
    BY <1>1 DEF add_result_latency, Pipes
<1>3. p.ok = (q.ok /\ q.lat[rd] = 0 /\ n > 0) /\ n > 0
    BY <1>1 DEF add_result_latency, Pipes
<1>4. p.ok /\ p.ok \in BOOLEAN
    BY <1>3, Zenon DEF Sound
<1>5. p.lat \in [Regs -> Nat]
    BY <1>1, <1>2 DEF Pipes
<1>6. p \in Pipes
    BY <1>1, <1>2, <1>4, <1>5 DEF Pipes
<1> QED BY <1>2, <1>4, <1>6 DEF Sound

(* An operation whose result takes n cycles.                               *)
LEMMA DelayedStep ==
    ASSUME Sound(pipe), NEW q, NEW rs \in SUBSET Regs, Ready(q, rs),
           NEW rd \in rs, NEW n \in Nat \ {0},
           pipe' = advance(add_result_latency(q, rd, n), 1)
    PROVE  PipeInv' /\ Abs!Delayed(rs, rd, n)
<1>1. PICK m \in Nat : Moved(pipe, q, m) /\ First(m, rs)
    BY DEF Ready
<1> DEFINE now == pipe.num_total_cycles
           t == now + m
           p == add_result_latency(q, rd, n)
<1>2. Sound(q) /\ q.lat[rd] = 0
    BY ReadyIsFree
<1>3. /\ Sound(p)
      /\ p.lat = [q.lat EXCEPT ![rd] = n]
      /\ p.unit = q.unit /\ p.stores = q.stores
      /\ p.num_total_cycles = q.num_total_cycles
    BY <1>2, ResultLeft
<1>4. Moved(p, pipe', 1)
    BY <1>3, AdvanceMoves
<1> HIDE DEF p
<1>5. /\ now \in Nat /\ pipe.lat \in [Regs -> Nat] /\ pipe.unit \in [Units -> Nat]
      /\ q.lat \in [Regs -> Nat] /\ q.unit \in [Units -> Nat]
      /\ pipe'.stores = {} /\ Sound(pipe)'
    BY <1>2, <1>4 DEF Moved, Sound, Pipes
<1>6. PipeInv'
    BY <1>5 DEF PipeInv, OneStorePending
<1>7. pipe'.num_total_cycles = t + 1
    BY <1>1, <1>3, <1>4, <1>5 DEF Moved
<1>8. \A r \in Regs : pipe'.lat[r] = IF r = rd THEN n - 1 ELSE Left(pipe.lat[r], m + 1)
    BY <1>1, <1>3, <1>4, <1>5 DEF Moved, Left
<1>9. \A u \in Units : pipe'.unit[u] = Left(pipe.unit[u], m + 1)
    BY <1>1, <1>3, <1>4, <1>5 DEF Moved, Left
<1> DEFINE regs == [Due EXCEPT ![rd] = t + n]
<1>10. \A r \in Regs : t + 1 + pipe'.lat[r] = Abs!Later(regs[r], t + 1)
    BY <1>5, <1>8 DEF Left, Abs!Later, Due
<1>11. \A u \in Units : t + 1 + pipe'.unit[u] = Abs!Later(UnitDue[u], t + 1)
    BY <1>5, <1>9 DEF Left, Abs!Later, UnitDue
<1>12. \A b \in Bs : t + 1 + ByteDue(b)' = Abs!Later(BytesDue[b], t + 1)
  <2>1. \A b \in Bs : ByteDue(b)' = 0
      BY <1>5 DEF ByteDue
  <2> QED BY <1>5, <2>1, ByteTypes DEF Abs!Later, BytesDue
<1> HIDE DEF regs
<1>13. Abs!At(t + 1, regs, UnitDue, BytesDue)
    BY <1>7, <1>10, <1>11, <1>12 DEF Abs!At, Abs!Units, Abs!Bytes, Abs!BytesOf, Bs, Units
<1> QED BY <1>1, <1>6, <1>13, FirstInTime
        DEF Abs!Delayed, Abs!Units, Abs!Bytes, Abs!BytesOf, Due, UnitDue, BytesDue, Bs,
            Units, regs

(* A multiplication or a division: it waits for its unit as well.          *)
LEMMA InUnitStep ==
    ASSUME Sound(pipe), NEW q, NEW rs \in SUBSET Regs, Ready(q, rs),
           NEW rd \in rs, NEW u \in Units, NEW n \in Nat \ {0},
           pipe' = advance(add_result_latency(reserve(q, u, n), rd, n + 1), 1)
    PROVE  PipeInv' /\ Abs!InUnit(u, rs, rd, n)
<1>1. PICK l \in Nat : Moved(pipe, q, l) /\ First(l, rs)
    BY DEF Ready
<1> DEFINE now == pipe.num_total_cycles
           m == l + q.unit[u]
           t == now + m
           w == Wait(q, q.unit[u])
           v == reserve(q, u, n)
           p == add_result_latency(v, rd, n + 1)
<1>2. Sound(q) /\ q.lat[rd] = 0
    BY ReadyIsFree
<1>3. /\ now \in Nat /\ pipe.lat \in [Regs -> Nat] /\ pipe.unit \in [Units -> Nat]
      /\ q.lat \in [Regs -> Nat] /\ q.unit \in [Units -> Nat]
    BY <1>2 DEF Sound, Pipes
<1>4. m \in Nat /\ Moved(q, w, q.unit[u])
    BY <1>2, <1>3, WaitMoves
<1> HIDE DEF w, m
<1>5. Moved(pipe, w, m)
    BY <1>1, <1>3, <1>4, MovedTwice DEF m
<1>6. w \in Pipes /\ w.ok /\ w.unit[u] = 0 /\ w.lat[rd] = 0
    BY <1>2, <1>3, <1>4 DEF Moved, Sound, Left
<1>7. /\ v.lat = w.lat /\ v.unit = [w.unit EXCEPT ![u] = n] /\ v.stores = w.stores
      /\ v.num_total_cycles = w.num_total_cycles
      /\ v = [w EXCEPT !.unit = v.unit, !.ok = v.ok]
    BY <1>6 DEF reserve, w, Pipes
<1>8. v.ok = (w.ok /\ w.unit[u] = 0 /\ n > 0) /\ n > 0
    BY <1>6 DEF reserve, w, Pipes
<1>9. v.ok /\ v.ok \in BOOLEAN
    BY <1>6, <1>8, Zenon
<1>10. Sound(v)
  <2>1. v.unit \in [Units -> Nat]
      BY <1>6, <1>7 DEF Pipes
  <2>2. v \in Pipes
      BY <1>6, <1>7, <1>9, <2>1 DEF Pipes
  <2> QED BY <1>5, <1>7, <1>9, <2>2 DEF Moved, Sound
<1> HIDE DEF v
<1>a. n + 1 \in Nat \ {0} /\ v.lat[rd] = 0
    BY <1>6, <1>7
<1>11. /\ Sound(p)
       /\ p.lat = [v.lat EXCEPT ![rd] = n + 1]
       /\ p.unit = v.unit /\ p.stores = v.stores
       /\ p.num_total_cycles = v.num_total_cycles
    BY <1>10, <1>a, ResultLeft
<1>12. Moved(p, pipe', 1)
    BY <1>11, AdvanceMoves DEF v
<1> HIDE DEF p
<1>13. /\ w.lat \in [Regs -> Nat] /\ w.unit \in [Units -> Nat]
       /\ pipe'.stores = {} /\ Sound(pipe)'
    BY <1>6, <1>12 DEF Moved, Sound, Pipes
<1>14. PipeInv'
    BY <1>13 DEF PipeInv, OneStorePending
<1>15. pipe'.num_total_cycles = t + 1
    BY <1>3, <1>4, <1>5, <1>7, <1>11, <1>12 DEF Moved
<1>16. \A r \in Regs : pipe'.lat[r] = IF r = rd THEN n ELSE Left(pipe.lat[r], m + 1)
    BY <1>3, <1>4, <1>5, <1>7, <1>11, <1>12, <1>13 DEF Moved, Left
<1>17. \A x \in Units : pipe'.unit[x] = IF x = u THEN n - 1 ELSE Left(pipe.unit[x], m + 1)
    BY <1>3, <1>4, <1>5, <1>7, <1>11, <1>12, <1>13 DEF Moved, Left
<1> DEFINE regs == [Due EXCEPT ![rd] = t + n + 1]
           units == [UnitDue EXCEPT ![u] = t + n]
<1>18. \A r \in Regs : t + 1 + pipe'.lat[r] = Abs!Later(regs[r], t + 1)
    BY <1>3, <1>4, <1>16 DEF Left, Abs!Later, Due
<1>19. \A x \in Units : t + 1 + pipe'.unit[x] = Abs!Later(units[x], t + 1)
    BY <1>3, <1>4, <1>17 DEF Left, Abs!Later, UnitDue
<1>20. \A b \in Bs : t + 1 + ByteDue(b)' = Abs!Later(BytesDue[b], t + 1)
  <2>1. \A b \in Bs : ByteDue(b)' = 0
      BY <1>13 DEF ByteDue
  <2> QED BY <1>3, <1>4, <2>1, ByteTypes DEF Abs!Later, BytesDue
<1> HIDE DEF regs, units
<1>21. Abs!At(t + 1, regs, units, BytesDue)
    BY <1>15, <1>18, <1>19, <1>20 DEF Abs!At, Abs!Units, Abs!Bytes, Abs!BytesOf, Bs, Units
<1> DEFINE times == {Due[r] : r \in rs} \cup {UnitDue[u]}
<1>22. t \in {now} \cup times /\ Abs!FirstAfter(t, times)
  <2>1. \A r \in rs : Due[r] = now + pipe.lat[r]
      BY DEF Due
  <2>2. UnitDue[u] = now + pipe.unit[u]
      BY DEF UnitDue
  <2>3. q.unit[u] = Left(pipe.unit[u], l)
      BY <1>1 DEF Moved
  <2> QED BY <1>1, <1>3, <2>1, <2>2, <2>3 DEF First, Abs!FirstAfter, Left, m
<1> QED BY <1>14, <1>21, <1>22
        DEF Abs!InUnit, Abs!Units, Abs!Bytes, Abs!BytesOf, Due, UnitDue, BytesDue, Bs,
            Units, regs, units

(* A store.                                                                *)
LEMMA StoreStep ==
    ASSUME Sound(pipe), NEW q, NEW rs \in SUBSET Regs, Ready(q, rs),
           NEW range \in Ranges, pipe' = advance(reserve_store(q, range), 1)
    PROVE  PipeInv' /\ Abs!Store(rs, range)
<1>1. PICK m \in Nat : Moved(pipe, q, m) /\ First(m, rs)
    BY DEF Ready
<1> DEFINE now == pipe.num_total_cycles
           t == now + m
           p == reserve_store(q, range)
<1>2. Sound(q) /\ q \in Pipes
    BY <1>1 DEF Moved, Sound
<1>3. /\ now \in Nat /\ pipe.lat \in [Regs -> Nat] /\ pipe.unit \in [Units -> Nat]
      /\ q.lat \in [Regs -> Nat] /\ q.unit \in [Units -> Nat]
      /\ q.num_total_cycles = now + m
    BY <1>1, <1>2 DEF Moved, Sound, Pipes
<1>4. /\ p.lat = q.lat /\ p.unit = q.unit /\ p.num_total_cycles = q.num_total_cycles
      /\ p.stores = q.stores \cup {[range |-> range, latency |-> 2]}
    BY <1>2 DEF reserve_store, Pipes
<1>5. p.ok = q.ok
    BY <1>2 DEF reserve_store, Pipes
<1> HIDE DEF p
<1>6. /\ pipe'.lat = [r \in Regs |-> Left(q.lat[r], 1)]
      /\ pipe'.unit = [u \in Units |-> Left(q.unit[u], 1)]
      /\ pipe'.num_total_cycles = t + 1
      /\ pipe' = [lat |-> pipe'.lat, unit |-> pipe'.unit, stores |-> pipe'.stores,
                  num_total_cycles |-> pipe'.num_total_cycles, ok |-> pipe'.ok]
    BY <1>3, <1>4 DEF advance, p
<1>7. pipe'.stores = {[range |-> range, latency |-> 1]}
  <2>1. {x \in p.stores : x.latency > 1} = {[range |-> range, latency |-> 2]}
      BY <1>2, <1>4 DEF Sound
  <2>2. pipe'.stores = {[range |-> s.range, latency |-> s.latency - 1] :
                            s \in {x \in p.stores : x.latency > 1}}
      BY DEF advance, p
  <2>3. pipe'.stores = {[range |-> s.range, latency |-> s.latency - 1] :
                            s \in {[range |-> range, latency |-> 2]}}
      BY <2>1, <2>2
  <2> QED BY <2>3
<1>8. pipe'.ok /\ pipe'.ok \in BOOLEAN
  <2>1. pipe'.ok = (p.ok /\ 1 > 0) /\ 1 > 0
      BY DEF advance, p
  <2> QED BY <1>2, <1>5, <2>1, Zenon DEF Sound
<1>9. pipe'.lat \in [Regs -> Nat] /\ pipe'.unit \in [Units -> Nat]
    BY <1>3, <1>6 DEF Left
<1>10. (pipe \in Pipes)'
    BY <1>3, <1>6, <1>7, <1>8, <1>9 DEF Pipes
<1>11. PipeInv'
    BY <1>7, <1>8, <1>10 DEF PipeInv, Sound, OneStorePending
<1>12. \A r \in Regs : t + 1 + pipe'.lat[r] = Abs!Later(Due[r], t + 1)
    BY <1>1, <1>3, <1>6 DEF Moved, Left, Abs!Later, Due
<1>13. \A u \in Units : t + 1 + pipe'.unit[u] = Abs!Later(UnitDue[u], t + 1)
    BY <1>1, <1>3, <1>6 DEF Moved, Left, Abs!Later, UnitDue
<1>14. \A b \in Bs : t + 1 + ByteDue(b)'
                        = Abs!Later(Abs!Written(BytesDue, range, t + 2)[b], t + 1)
  <2>1. range.start \in Nat /\ range.end \in Nat /\ Bs \subseteq Nat
      BY DEF Bs
  <2>2. \A b \in Bs : ByteDue(b)' = IF b \in range.start .. (range.end - 1) THEN 1 ELSE 0
    <3> TAKE b \in Bs
    <3>1. (\E s \in pipe'.stores : s.range.start <= b /\ b < s.range.end)
            <=> (range.start <= b /\ b < range.end)
      <4>1. [range |-> range, latency |-> 1] \in pipe'.stores
            /\ [range |-> range, latency |-> 1].range = range
          BY <1>7
      <4>2. \A s \in pipe'.stores : s.range = range
          BY <1>7
      <4> QED BY <4>1, <4>2, Zenon
    <3>2. ByteDue(b)' = IF range.start <= b /\ b < range.end THEN 1 ELSE 0
        BY <3>1 DEF ByteDue
    <3> QED BY <2>1, <3>2
  <2>3. \A b \in Bs : Abs!Written(BytesDue, range, t + 2)[b]
                        = IF b \in range.start .. (range.end - 1) THEN t + 2 ELSE BytesDue[b]
      BY DEF Abs!Written, Abs!Bytes, Abs!BytesOf, Bs
  <2> QED BY <1>3, <2>2, <2>3, ByteTypes DEF Abs!Later, BytesDue
<1>15. Abs!At(t + 1, Due, UnitDue, Abs!Written(BytesDue, range, t + 2))
    BY <1>6, <1>12, <1>13, <1>14 DEF Abs!At, Abs!Units, Abs!Bytes, Abs!BytesOf, Bs, Units
<1>16. t \in {now} \cup {Due[r] : r \in rs} /\ Abs!FirstAfter(t, {Due[r] : r \in rs})
    BY <1>1, FirstInTime
<1>17. Abs!Store(rs, range)
    BY <1>15, <1>16, Zenon DEF Abs!Store, Abs!At, Due, UnitDue, BytesDue, Bs
<1> QED BY <1>11, <1>17

(* A store and a load overlap when they have a byte in common.             *)
LEMMA OverlapsInAByte ==
    ASSUME NEW r \in Ranges, NEW other \in Ranges
    PROVE  Overlaps(r, other) <=>
               \E b \in other.start .. (other.end - 1) : r.start <= b /\ b < r.end
<1>1. /\ r.start \in Nat /\ r.end \in Nat /\ r.start < r.end
      /\ other.start \in Nat /\ other.end \in Nat /\ other.start < other.end
    OBVIOUS
<1>2. CASE other.start < r.start
  <2>1. ASSUME other.end > r.start
        PROVE  r.start \in other.start .. (other.end - 1) /\ r.start < r.end
      BY <1>1, <1>2, <2>1
  <2> QED BY <1>1, <1>2, <2>1 DEF Overlaps
<1>3. CASE ~(other.start < r.start)
  <2>1. other.start \in other.start .. (other.end - 1) /\ r.start <= other.start
      BY <1>1, <1>3
  <2> QED BY <1>1, <1>3, <2>1 DEF Overlaps
<1> QED BY <1>2, <1>3

(* The cycles a load waits for a store, and what that means for the bytes. *)
Behind(q, range) == IF has_store_reservation(q, range) THEN 1 ELSE 0

LEMMA BehindAStore ==
    ASSUME Sound(pipe), NEW q, NEW m \in Nat, Moved(pipe, q, m), NEW range \in Ranges
    PROVE  LET t == pipe.num_total_cycles + m
               u == t + Behind(q, range)
           IN  /\ u \in {t} \cup {BytesDue[b] : b \in Abs!BytesOf(range)}
               /\ u >= t /\ \A b \in Abs!BytesOf(range) : u >= BytesDue[b]
<1> DEFINE now == pipe.num_total_cycles
           B == range.start .. (range.end - 1)
<1>1. now \in Nat /\ q.stores \in SUBSET [range : Ranges, latency : Nat]
    BY DEF Moved, Sound, Pipes
<1>2. B \subseteq Bs /\ Abs!BytesOf(range) = B
    BY DEF Bs, Abs!BytesOf
<1>3. \A b \in B : BytesDue[b] = now + ByteDue(b)
    BY <1>2 DEF BytesDue
<1>4. has_store_reservation(q, range) <=>
          \E b \in B : \E s \in q.stores : s.range.start <= b /\ b < s.range.end
    BY <1>1, OverlapsInAByte DEF has_store_reservation
<1>5. m = 0 => \A b \in B : ByteDue(b) =
          IF \E s \in q.stores : s.range.start <= b /\ b < s.range.end THEN 1 ELSE 0
    BY DEF Moved, ByteDue
<1>6. CASE has_store_reservation(q, range)
  <2>1. m = 0 /\ Behind(q, range) = 1
      BY <1>4, <1>6 DEF Moved, Behind
  <2>2. PICK b \in B : ByteDue(b) = 1
      BY <1>4, <1>5, <1>6, <2>1
  <2>3. BytesDue[b] = now + 1
      BY <1>3, <2>2
  <2> QED BY <1>1, <1>2, <1>3, <2>1, <2>2, <2>3, ByteTypes
<1>7. CASE ~has_store_reservation(q, range)
  <2>1. Behind(q, range) = 0
      BY <1>7 DEF Behind
  <2>2. m = 0 => \A b \in B : ByteDue(b) = 0
      BY <1>4, <1>5, <1>7
  <2> QED BY <1>1, <1>2, <1>3, <2>1, <2>2, ByteTypes
<1> QED BY <1>6, <1>7

(* A load.                                                                 *)
LEMMA LoadStep ==
    ASSUME Sound(pipe), NEW q, NEW rs \in SUBSET Regs, Ready(q, rs),
           NEW rd \in rs, NEW range \in Ranges,
           pipe' = advance(do_load(q, range, rd), 1)
    PROVE  PipeInv' /\ Abs!Load(rs, range, rd)
<1>1. PICK m \in Nat : Moved(pipe, q, m) /\ First(m, rs)
    BY DEF Ready
<1> DEFINE now == pipe.num_total_cycles
           hit == has_store_reservation(q, range)
           e == Behind(q, range)
           t == now + m
           u == t + e
           w == IF hit THEN advance(q, 1) ELSE q
           n == LoadCycles + IF hit /\ Size(range) < 4 THEN 1 ELSE 0
           p == add_result_latency(w, rd, n)
<1>2. Sound(q) /\ q.lat[rd] = 0
    BY ReadyIsFree
<1>3. /\ e \in {0, 1} /\ (hit <=> e = 1) /\ n \in Nat \ {0}
      /\ n = LoadCycles + IF u > t /\ range.end - range.start < 4 THEN 1 ELSE 0
  <2>1. e \in {0, 1} /\ (hit <=> e = 1)
      BY DEF Behind
  <2>2. now \in Nat
      BY DEF Sound, Pipes
  <2> HIDE DEF e, hit
  <2> QED BY <2>1, <2>2 DEF Size
<1>4. Moved(q, w, e)
    BY <1>2, AdvanceMoves, StillMoves DEF Behind
<1>5. Moved(pipe, w, m + e)
    BY <1>1, <1>3, <1>4, MovedTwice
<1>6. Sound(w) /\ w.lat[rd] = 0
    BY <1>2, <1>3, <1>4 DEF Moved, Left
<1>7. pipe' = advance(p, 1)
    BY DEF do_load
<1> HIDE DEF w, n, e
<1>8. /\ Sound(p)
      /\ p.lat = [w.lat EXCEPT ![rd] = n]
      /\ p.unit = w.unit /\ p.stores = w.stores
      /\ p.num_total_cycles = w.num_total_cycles
    BY <1>3, <1>6, ResultLeft
<1>9. Moved(p, pipe', 1)
    BY <1>7, <1>8, AdvanceMoves
<1> HIDE DEF p
<1>10. /\ now \in Nat /\ pipe.lat \in [Regs -> Nat] /\ pipe.unit \in [Units -> Nat]
       /\ w.lat \in [Regs -> Nat] /\ w.unit \in [Units -> Nat]
       /\ pipe'.stores = {} /\ Sound(pipe)'
    BY <1>6, <1>9 DEF Moved, Sound, Pipes
<1>11. PipeInv'
    BY <1>10 DEF PipeInv, OneStorePending
<1>12. pipe'.num_total_cycles = u + 1
    BY <1>3, <1>5, <1>8, <1>9, <1>10 DEF Moved
<1>13. \A r \in Regs : pipe'.lat[r] = IF r = rd THEN n - 1 ELSE Left(pipe.lat[r], m + e + 1)
    BY <1>3, <1>5, <1>8, <1>9, <1>10 DEF Moved, Left
<1>14. \A x \in Units : pipe'.unit[x] = Left(pipe.unit[x], m + e + 1)
    BY <1>3, <1>5, <1>8, <1>9, <1>10 DEF Moved, Left
<1> DEFINE regs == [Due EXCEPT ![rd] = u + n]
<1>15. \A r \in Regs : u + 1 + pipe'.lat[r] = Abs!Later(regs[r], u + 1)
    BY <1>3, <1>10, <1>13 DEF Left, Abs!Later, Due
<1>16. \A x \in Units : u + 1 + pipe'.unit[x] = Abs!Later(UnitDue[x], u + 1)
    BY <1>3, <1>10, <1>14 DEF Left, Abs!Later, UnitDue
<1>17. \A b \in Bs : u + 1 + ByteDue(b)' = Abs!Later(BytesDue[b], u + 1)
  <2>1. \A b \in Bs : ByteDue(b)' = 0
      BY <1>10 DEF ByteDue
  <2> QED BY <1>3, <1>10, <2>1, ByteTypes DEF Abs!Later, BytesDue
<1> HIDE DEF regs
<1>18. Abs!At(u + 1, regs, UnitDue, BytesDue)
    BY <1>12, <1>15, <1>16, <1>17 DEF Abs!At, Abs!Units, Abs!Bytes, Abs!BytesOf, Bs, Units
<1>19. t \in {now} \cup {Due[r] : r \in rs} /\ Abs!FirstAfter(t, {Due[r] : r \in rs})
    BY <1>1, FirstInTime
<1>20. /\ u \in {t} \cup {BytesDue[b] : b \in Abs!BytesOf(range)}
       /\ u >= t /\ \A b \in Abs!BytesOf(range) : u >= BytesDue[b]
    BY <1>1, BehindAStore DEF e
<1>21. Abs!At(u + 1,
              [Due EXCEPT ![rd] = u + LoadCycles +
                  IF u > t /\ range.end - range.start < 4 THEN 1 ELSE 0],
              UnitDue, BytesDue)
  <2>1. u + n = u + LoadCycles + IF u > t /\ range.end - range.start < 4 THEN 1 ELSE 0
      BY <1>3, <1>10
  <2>2. regs = [Due EXCEPT ![rd] = u + LoadCycles +
                  IF u > t /\ range.end - range.start < 4 THEN 1 ELSE 0]
      BY <2>1, Zenon DEF regs
  <2> QED BY <1>18, <2>2, Zenon
<1>22. Abs!Load(rs, range, rd)
    BY <1>19, <1>20, <1>21, Zenon
       DEF Abs!Load, Due, UnitDue, BytesDue, Bs
<1> QED BY <1>11, <1>22
-----------------------------------------------------------------------------
(* Every instruction.                                                      *)

LEMMA InstructionSound ==
    ASSUME PipeInv, PipelineNext
    PROVE  PipeInv' /\ Abs!Next
<1>0. Sound(pipe) /\ Zero \in Regs
      /\ 1 \in Nat \ {0} /\ \A n \in Stalls : n \in Nat \ {0} /\ n + 1 \in Nat \ {0}
    BY DEF PipeInv
<1>1. ASSUME NEW q, NEW rs \in SUBSET Regs, Ready(q, rs), pipe' = advance(q, 1)
      PROVE  PipeInv' /\ Abs!Plain(rs, 1)
  <2>1. PICK m \in Nat : Moved(pipe, q, m)
      BY <1>1 DEF Ready
  <2>2. Sound(q)
      BY <2>1 DEF Moved
  <2>3. Moved(q, advance(q, 1), 1)
      BY <1>0, <2>2, AdvanceMoves
  <2>4. Moved(q, pipe', 1)
      BY <1>1, <2>3
  <2> QED BY <1>0, <1>1, <2>4, PlainStep
<1>2. ASSUME NEW a \in Regs, NEW b \in Regs, NEW rd \in Regs, Alu(a, b, rd)
      PROVE  PipeInv' /\ Abs!Next
  <2>1. PipeInv' /\ Abs!Plain({a, b, rd}, 1)
      BY <1>0, <1>1, <1>2, ReadyReadWrite DEF Alu, Retire
  <2>2. op' = <<"alu", a, b, rd>>
      BY <1>2 DEF Alu, Retire
  <2> QED BY <2>1, <2>2, Zenon DEF Abs!Next
<1>3. ASSUME NEW a \in Regs, NEW b \in Regs, NEW rd \in Regs, Mult(a, b, rd)
      PROVE  PipeInv' /\ Abs!Next
  <2>1. PipeInv' /\ Abs!InUnit("mult", {a, b, rd}, rd, MultCycles)
      BY <1>0, <1>3, ReadyReadWrite, InUnitStep DEF Mult, Retire, Units
  <2>2. op' = <<"mult", a, b, rd>>
      BY <1>3 DEF Mult, Retire
  <2> QED BY <2>1, <2>2, Zenon DEF Abs!Next
<1>4. ASSUME NEW a \in Regs, NEW b \in Regs, NEW rd \in Regs, Div(a, b, rd)
      PROVE  PipeInv' /\ Abs!Next
  <2>1. PipeInv' /\ Abs!InUnit("div", {a, b, rd}, rd, DivCycles)
      BY <1>0, <1>4, ReadyReadWrite, InUnitStep DEF Div, Retire, Units
  <2>2. op' = <<"div", a, b, rd>>
      BY <1>4 DEF Div, Retire
  <2> QED BY <2>1, <2>2, Zenon DEF Abs!Next
<1>5. ASSUME NEW a \in Regs, NEW b \in Regs, Branch(a, b)
      PROVE  PipeInv' /\ Abs!Next
  <2>1. PipeInv' /\ Abs!Plain({a, b}, 1)
      BY <1>0, <1>1, <1>5, ReadyRead DEF Branch, Retire
  <2>2. op' = <<"branch", a, b>>
      BY <1>5 DEF Branch, Retire
  <2> QED BY <2>1, <2>2, Zenon DEF Abs!Next
<1>6. ASSUME Other PROVE PipeInv' /\ Abs!Next
  <2>1. PipeInv' /\ Abs!Plain({}, 1)
      BY <1>0, <1>1, <1>6, ReadyAtOnce DEF Other, Retire
  <2>2. op' = <<"other">>
      BY <1>6 DEF Other, Retire
  <2> QED BY <2>1, <2>2, Zenon DEF Abs!Next
<1>7. ASSUME NEW a \in Regs, NEW b \in Regs, NEW range \in Ranges, Store(a, b, range)
      PROVE  PipeInv' /\ Abs!Next
  <2>1. PipeInv' /\ Abs!Store({a, b}, range)
      BY <1>0, <1>7, ReadyRead, StoreStep DEF Store, Retire
  <2>2. op' = <<"store", a, b, range>>
      BY <1>7 DEF Store, Retire
  <2> QED BY <2>1, <2>2, Zenon DEF Abs!Next
<1>8. ASSUME NEW a \in Regs, NEW rd \in Regs, NEW range \in Ranges, Load(a, range, rd)
      PROVE  PipeInv' /\ Abs!Next
  <2>1. Ready(access_register(access_register(pipe, a), rd), {a, rd})
      BY <1>0, ReadyRead DEF Read
  <2>2. PipeInv' /\ Abs!Load({a, rd}, range, rd)
      BY <1>0, <1>8, <2>1, LoadStep DEF Load, Retire
  <2>3. op' = <<"load", a, range, rd>>
      BY <1>8 DEF Load, Retire
  <2> QED BY <2>2, <2>3, Zenon DEF Abs!Next
<1>9. ASSUME NEW a \in Regs, NEW rd \in Regs, Csr(a, rd)
      PROVE  PipeInv' /\ Abs!Next
  <2>1. op' = <<"csr", a, rd>>
      BY <1>9 DEF Csr, Retire
  <2>2. CASE rd = Zero
    <3>1. PipeInv' /\ Abs!Plain({a}, 1)
        BY <1>0, <1>1, <1>9, <2>2, ReadyOnce DEF Csr, Retire
    <3> QED BY <2>1, <2>2, <3>1, Zenon DEF Abs!Next
  <2>3. CASE rd # Zero
    <3>1. Ready(access_register(access_register(pipe, a), rd), {a, rd})
        BY <1>0, ReadyRead DEF Read
    <3>2. PipeInv' /\ Abs!Delayed({a, rd}, rd, CsrCycles)
        BY <1>0, <1>9, <2>3, <3>1, DelayedStep DEF Csr, Retire
    <3> QED BY <2>1, <2>3, <3>2, Zenon DEF Abs!Next
  <2> QED BY <2>2, <2>3
<1>10. ASSUME NEW rd \in Regs, Link(rd) PROVE PipeInv' /\ Abs!Next
  <2>1. PipeInv' /\ Abs!Plain({rd}, 1)
      BY <1>0, <1>1, <1>10, ReadyOnce DEF Link, Retire
  <2>2. op' = <<"link", rd>>
      BY <1>10 DEF Link, Retire
  <2> QED BY <2>1, <2>2, Zenon DEF Abs!Next
<1>11. ASSUME NEW a \in Regs, NEW b \in Regs, NEW rd \in Regs, NEW n \in Stalls,
              Custom3(a, b, rd, n)
       PROVE  PipeInv' /\ Abs!Next
  <2> DEFINE q == access_register(Read(pipe, a, b), rd)
  <2>1. Ready(q, {a, b, rd})
      BY <1>0, ReadyReadWrite
  <2>2. pipe' = advance(advance(q, n), 1) /\ op' = <<"custom3", a, b, rd, n>>
      BY <1>11 DEF Custom3, Retire
  <2>3. Sound(q) /\ n \in Nat \ {0} /\ n + 1 \in Nat \ {0}
      BY <1>0, <2>1 DEF Ready, Moved
  <2>4. Moved(q, pipe', n + 1)
    <3>1. Moved(q, advance(q, n), n)
        BY <2>3, AdvanceMoves
    <3>2. Moved(advance(q, n), advance(advance(q, n), 1), 1)
        BY <1>0, <3>1, AdvanceMoves DEF Moved
    <3> QED BY <2>2, <2>3, <3>1, <3>2, MovedTwice
  <2>5. PipeInv' /\ Abs!Plain({a, b, rd}, n + 1)
      BY <1>0, <2>1, <2>3, <2>4, PlainStep
  <2> QED BY <2>2, <2>5, Zenon DEF Abs!Next
<1>12. ASSUME NEW n \in Stalls, Fetch(n) PROVE PipeInv' /\ Abs!Next
  <2>1. Moved(pipe, pipe', n)
      BY <1>0, <1>12, AdvanceMoves DEF Fetch
  <2>2. PipeInv' /\ Abs!Plain({}, n)
      BY <1>0, <2>1, ReadyAtOnce, PlainStep
  <2>3. op' = <<"fetch", n>>
      BY <1>12 DEF Fetch
  <2> QED BY <2>2, <2>3, Zenon DEF Abs!Next
<1> QED
    BY <1>2, <1>3, <1>4, <1>5, <1>6, <1>7, <1>8, <1>9, <1>10, <1>11, <1>12
    DEF PipelineNext

LEMMA PipelineStarts == PipelineInit => PipeInv /\ Abs!Init
<1> SUFFICES ASSUME PipelineInit PROVE PipeInv /\ Abs!Init
    OBVIOUS
<1>1. PipeInv
    BY DEF PipelineInit, PipeInv, Sound, OneStorePending, Pipes
<1>2. Abs!Init
    BY DEF PipelineInit, Abs!Init, Abs!Units, Abs!Bytes, Abs!BytesOf, Units, ByteDue
<1> QED BY <1>1, <1>2

-----------------------------------------------------------------------------
(* Whatever the program, the pipeline's tables keep their types, no        *)
(* assertion of timing.h fails, and at most one store is pending between   *)
(* two instructions, for one cycle.                                        *)
THEOREM PipelineRight ==
    PipelineSpec => [](PipelineTypeOK /\ AssertionsHold /\ OneStorePending)
<1>1. PipelineInit => PipeInv
    BY PipelineStarts
<1>2. PipeInv /\ [PipelineNext]_pipelineVars => PipeInv'
  <2>1. PipeInv /\ PipelineNext => PipeInv'
      BY InstructionSound
  <2>2. PipeInv /\ UNCHANGED pipelineVars => PipeInv'
      BY DEF pipelineVars, PipeInv, Sound, OneStorePending
  <2> QED BY <2>1, <2>2
<1>3. PipeInv => PipelineTypeOK /\ AssertionsHold /\ OneStorePending
    BY DEF PipeInv, Sound, PipelineTypeOK, AssertionsHold
<1> QED BY <1>1, <1>2, <1>3, PTL DEF PipelineSpec

(* The pipeline of timing.h, which counts delays down and stalls for one   *)
(* operand after the other, implements ReadyTimes: every instruction       *)
(* starts in the first cycle in which all it uses is ready.                *)
THEOREM PipelineImplementsReadyTimes == PipelineSpec => AsSoonAsReady
<1>1. PipelineInit => PipeInv /\ Abs!Init
    BY PipelineStarts
<1>2. PipeInv /\ [PipelineNext]_pipelineVars => PipeInv' /\ [Abs!Next]_Abs!vars
  <2>1. PipeInv /\ PipelineNext => PipeInv' /\ Abs!Next
      BY InstructionSound
  <2>2. PipeInv /\ UNCHANGED pipelineVars => PipeInv' /\ UNCHANGED Abs!vars
      BY DEF pipelineVars, PipeInv, Sound, OneStorePending, Abs!vars, ByteDue
  <2> QED BY <2>1, <2>2
<1> QED BY <1>1, <1>2, PTL DEF PipelineSpec, AsSoonAsReady, Abs!Spec
=============================================================================
