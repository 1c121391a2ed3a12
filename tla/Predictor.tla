----------------------------- MODULE Predictor ------------------------------
(***************************************************************************)
(* HiFive1BranchPredictor (timing.h) and its callers, the branches, JAL    *)
(* and JALR of iss.cpp: a return-address stack, a table of targets (BTB)   *)
(* and a table of branch histories with a counter for each (BHT).  The     *)
(* guest calls and returns in stack order; its branches and jumps are      *)
(* arbitrary.                                                              *)
(***************************************************************************)
EXTENDS Naturals, Sequences

CONSTANTS
    Branches,       \* addresses of branch instructions
    BranchTarget,   \* where each leads when it is taken
    Jumps, Calls, Returns,  \* addresses of jumps, calls and returns
    Targets,        \* where a jump or a call may lead
    BtbEntries, BhtEntries, \* 40 and 128
    RasSize,        \* 2
    NumHistoryBits, \* 3
    CounterThreshold,       \* 2: half of the counter's range
    DEPTH           \* bound: calls nested

ASSUME PredictorAssumption ==
    /\ Branches \cup Jumps \cup Calls \cup Returns \cup Targets \subseteq Nat
    /\ Branches \cap (Jumps \cup Calls \cup Returns) = {}
    /\ BranchTarget \in [Branches -> Nat]
    /\ BtbEntries \in Nat \ {0} /\ BhtEntries \in Nat \ {0}
    /\ RasSize \in Nat \ {0} /\ NumHistoryBits \in Nat \ {0}
    /\ CounterThreshold \in Nat \ {0} /\ DEPTH \in Nat

VARIABLES
    RAS, BTB, BHT,
    penalty,    \* the cycles the instruction just executed was charged
    calls,      \* history: the guest's call stack, each frame with its link
                \* and the depth reached above it since it was entered
    streak      \* history: the last outcome of each branch and how often it
                \* has come in a row with nothing else using its entries

predictorVars == <<RAS, BTB, BHT, penalty, calls, streak>>

BranchMispredictionPenalty == 3
CounterMax == 2 * CounterThreshold - 1

BtbTag(pc) == pc % BtbEntries
BhtTag(pc) == pc % BhtEntries

Sources == Branches \cup Jumps \cup Calls \cup Returns
BtbTags == {BtbTag(pc) : pc \in Sources}
BhtTags == {BhtTag(pc) : pc \in Branches}
Histories == [1 .. NumHistoryBits -> BOOLEAN]
Entries == [history : Histories, counters : [Histories -> 0 .. CounterMax]]

PredictorInit ==
    /\ RAS = <<>>
    /\ BTB = [t \in BtbTags |-> 0]
    /\ BHT = [t \in BhtTags |->
                 [history |-> [i \in 1 .. NumHistoryBits |-> FALSE],
                  counters |-> [h \in Histories |-> 0]]]
    /\ penalty = 0
    /\ calls = <<>>
    /\ streak = [pc \in Branches |-> [taken |-> FALSE, n |-> 0]]

-----------------------------------------------------------------------------
(* The newest entry is not stored when the stack is full.                  *)
push_full(q, link) == IF Len(q) = RasSize THEN q ELSE Append(q, link)

(* The oldest entry is dropped when the stack is full.                     *)
push(q, link) ==
    LET r == Append(q, link) IN IF Len(r) > RasSize THEN Tail(r) ELSE r

pop(q) == SubSeq(q, 1, Len(q) - 1)
back(q) == q[Len(q)]

predict_branch_taken(e) == e.counters[e.history] >= CounterThreshold

(* A counter that wraps instead of saturating.                             *)
count_wrapping(c, taken) ==
    IF taken THEN (c + 1) % (CounterMax + 1)
    ELSE IF c = 0 THEN CounterMax ELSE c - 1

(* Counters saturate at both ends.                                         *)
count(c, taken) ==
    IF taken THEN (IF c < CounterMax THEN c + 1 ELSE c)
    ELSE IF c > 0 THEN c - 1 ELSE c

(* update_history: the counter of the present history, then the history,   *)
(* whose newest outcome enters at the high end.                            *)
update_history(e, taken) ==
    [history |-> [i \in 1 .. NumHistoryBits |->
                     IF i = NumHistoryBits THEN taken ELSE e.history[i + 1]],
     counters |-> [e.counters EXCEPT ![e.history] = count(@, taken)]]

(* Other instructions at pc's entries end the streak of every branch that  *)
(* shares them.                                                            *)
Disturbed(pc, btb, bht) ==
    {b \in Branches \ {pc} : \/ btb /\ BtbTag(b) = BtbTag(pc)
                             \/ bht /\ BhtTag(b) = BhtTag(pc)}

Broken(bs) == [b \in Branches |-> IF b \in bs THEN [streak[b] EXCEPT !.n = 0] ELSE streak[b]]

(* do_jump: the target table is asked and, if it is wrong, corrected.      *)
do_jump(pc, target) ==
    /\ penalty' = IF BTB[BtbTag(pc)] # target THEN BranchMispredictionPenalty ELSE 0
    /\ BTB' = [BTB EXCEPT ![BtbTag(pc)] = target]
    /\ streak' = Broken(Disturbed(pc, TRUE, FALSE))

-----------------------------------------------------------------------------
(* A branch, taken or not.                                                 *)
update_branch_prediction(pc, taken) ==
    LET e == BHT[BhtTag(pc)]
        target == BranchTarget[pc]
        hit == predict_branch_taken(e) /\ BTB[BtbTag(pc)] = target
        right == IF taken THEN hit ELSE ~predict_branch_taken(e)
    IN  /\ penalty' = IF right THEN 0 ELSE BranchMispredictionPenalty
        /\ BTB' = IF taken THEN [BTB EXCEPT ![BtbTag(pc)] = target] ELSE BTB
        /\ BHT' = [BHT EXCEPT ![BhtTag(pc)] = update_history(e, taken)]
        /\ streak' = [Broken(Disturbed(pc, taken, TRUE)) EXCEPT
                         ![pc] = [taken |-> taken,
                                  n |-> IF taken = @.taken /\ @.n > 0
                                        THEN (IF @.n < NumHistoryBits + CounterThreshold
                                              THEN @.n + 1 ELSE @.n)
                                        ELSE 1]]
        /\ UNCHANGED <<RAS, calls>>

(* JAL and JALR with a link register other than ra.                        *)
Jump(pc, target) == do_jump(pc, target) /\ UNCHANGED <<RAS, BHT, calls>>

(* do_call: JAL or JALR with rd = ra.                                      *)
Call(pc, target) ==
    /\ Len(calls) < DEPTH
    /\ do_jump(pc, target)
    /\ RAS' = push(RAS, pc + 4)
    /\ calls' = Append([i \in 1 .. Len(calls) |->
                           [calls[i] EXCEPT !.high = IF @ < Len(calls) + 2 - i
                                                     THEN Len(calls) + 2 - i ELSE @]],
                       [link |-> pc + 4, high |-> 1])
    /\ UNCHANGED BHT

(* do_ret: JALR through ra.  The stack is popped even if it is wrong.      *)
Return(pc) ==
    /\ calls # <<>>
    /\ LET target == back(calls).link
       IN  IF RAS = <<>> \/ back(RAS) # target
           THEN do_jump(pc, target)
           ELSE penalty' = 0 /\ UNCHANGED <<BTB, streak>>
    /\ RAS' = IF RAS = <<>> THEN RAS ELSE pop(RAS)
    /\ calls' = pop(calls)
    /\ UNCHANGED BHT

PredictorNext ==
    \/ \E pc \in Branches, taken \in BOOLEAN : update_branch_prediction(pc, taken)
    \/ \E pc \in Jumps, target \in Targets : Jump(pc, target)
    \/ \E pc \in Calls, target \in Targets : Call(pc, target)
    \/ \E pc \in Returns : Return(pc)

PredictorSpec == PredictorInit /\ [][PredictorNext]_predictorVars

-----------------------------------------------------------------------------
PredictorTypeOK ==
    /\ RAS \in Seq(Nat) /\ Len(RAS) <= RasSize
    /\ BTB \in [BtbTags -> Nat]
    /\ BHT \in [BhtTags -> Entries]
    /\ penalty \in {0, BranchMispredictionPenalty}
    /\ calls \in Seq([link : Nat, high : Nat])
    /\ streak \in [Branches -> [taken : BOOLEAN,
                                n : 0 .. (NumHistoryBits + CounterThreshold)]]

(* The return-address stack is the top of the guest's call stack: what an  *)
(* overflow drops is never confused with what is kept.                     *)
RasIsTop ==
    /\ Len(RAS) <= Len(calls)
    /\ \A i \in 1 .. Len(RAS) : RAS[i] = calls[Len(calls) - Len(RAS) + i].link

(* A return from a function above which fewer than RasSize calls were ever *)
(* nested is predicted, whatever was called and returned in between        *)
(* (do_call, do_ret).                                                      *)
ShallowReturnsFree ==
    [][\A pc \in Returns :
          Return(pc) /\ back(calls).high <= RasSize => penalty' = 0]_predictorVars

(* A branch that has gone the same way NumHistoryBits + CounterThreshold   *)
(* times in a row with no other instruction at its table entries is        *)
(* predicted the next time it does (update_branch_prediction).             *)
Learns ==
    [][\A pc \in Branches, taken \in BOOLEAN :
          /\ update_branch_prediction(pc, taken)
          /\ streak[pc].n = NumHistoryBits + CounterThreshold
          /\ streak[pc].taken = taken
          => penalty' = 0]_predictorVars
=============================================================================
