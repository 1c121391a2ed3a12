------------------------------ MODULE Pipeline ------------------------------
(***************************************************************************)
(* HiFive1PipelineTiming (timing.h), with the delays of the E203, as the   *)
(* simulator's instructions use it (iss.cpp).  The pipeline holds how many *)
(* cycles each register, the multiplier, the divider and each store still  *)
(* need; an instruction stalls for what it uses, leaves its own delays and *)
(* takes one cycle.  A latency of 0 stands for an entry that is not there. *)
(***************************************************************************)
EXTENDS Naturals

CONSTANTS
    Regs, Zero,                         \* integer registers, x0 among them
    Ranges,                             \* [start, end) of the guest's accesses
    MultCycles, DivCycles, CsrCycles,   \* 17, 33 and 5 for the E203
    LoadCycles,                         \* 2
    Stalls,                             \* stalls of predictor, cache, coprocessor
    CYCLES                              \* bound: cycles a run is followed for

ASSUME PipelineAssumption ==
    /\ Zero \in Regs
    /\ Ranges \subseteq {r \in [start : Nat, end : Nat] : r.start < r.end}
    /\ MultCycles \in Nat \ {0} /\ DivCycles \in Nat \ {0}
    /\ CsrCycles \in Nat \ {0} /\ LoadCycles \in Nat \ {0}
    /\ Stalls \subseteq Nat \ {0} /\ CYCLES \in Nat

VARIABLES
    pipe,       \* the pipeline's tables and its cycle counter
    op          \* history: the instruction just executed

pipelineVars == <<pipe, op>>

Units == {"mult", "div"}

Pipes == [lat : [Regs -> Nat], unit : [Units -> Nat],
          stores : SUBSET [range : Ranges, latency : Nat],
          num_total_cycles : Nat, ok : BOOLEAN]

(* num_total_cycles has no initial value in the code: what it starts from  *)
(* counts as 0 here.                                                       *)
PipelineInit ==
    /\ pipe = [lat |-> [r \in Regs |-> 0], unit |-> [u \in Units |-> 0],
               stores |-> {}, num_total_cycles |-> 0, ok |-> TRUE]
    /\ op = <<"none">>

-----------------------------------------------------------------------------
(* Range::overlaps and Range::size.                                        *)
Overlaps(r, other) ==
    IF other.start < r.start THEN other.end > r.start ELSE r.end > other.start

Size(r) == r.end - r.start

Left(latency, n) == IF latency > n THEN latency - n ELSE 0

(* advance: ok holds as long as no assertion has failed.                   *)
advance(p, n) ==
    [lat |-> [r \in Regs |-> Left(p.lat[r], n)],
     unit |-> [u \in Units |-> Left(p.unit[u], n)],
     stores |-> {[range |-> s.range, latency |-> s.latency - n] :
                     s \in {x \in p.stores : x.latency > n}},
     num_total_cycles |-> p.num_total_cycles + n,
     ok |-> p.ok /\ n > 0]

Wait(p, n) == IF n > 0 THEN advance(p, n) ELSE p

(* access_register: every read and write of a register waits for it.       *)
access_register(p, r) == Wait(p, p.lat[r])

(* add_result_latency: asserts that the register has no entry yet.         *)
add_result_latency(p, rd, n) ==
    [p EXCEPT !.lat[rd] = n, !.ok = @ /\ p.lat[rd] = 0 /\ n > 0]

(* A unit reserved without waiting for the operation it is busy with.      *)
reserve_nowait(p, u, n) ==
    [p EXCEPT !.unit[u] = n, !.ok = @ /\ n > 0]

(* reserve_mult, reserve_div: there is one multiplier and one divider.     *)
reserve(p, u, n) ==
    LET q == Wait(p, p.unit[u])
    IN  [q EXCEPT !.unit[u] = n, !.ok = @ /\ q.unit[u] = 0 /\ n > 0]

(* reserve_store called with one cycle more than the store takes.          *)
reserve_store_longer(p, range) ==
    [p EXCEPT !.stores = @ \cup {[range |-> range, latency |-> 3]}]

reserve_store(p, range) ==
    [p EXCEPT !.stores = @ \cup {[range |-> range, latency |-> 2]}]

has_store_reservation(p, range) == \E s \in p.stores : Overlaps(s.range, range)

(* do_load: a load that overlaps a pending store waits a cycle, and takes  *)
(* one more if it is not of a whole word.                                  *)
do_load(p, range, rd) ==
    LET hit == has_store_reservation(p, range)
    IN  add_result_latency(IF hit THEN advance(p, 1) ELSE p, rd,
                           LoadCycles + IF hit /\ Size(range) < 4 THEN 1 ELSE 0)

-----------------------------------------------------------------------------
(* The instructions.  The order in which two operands are read is left to  *)
(* the compiler; an instruction with one operand reads it as both.         *)
Read(p, a, b) == access_register(access_register(p, a), b)

(* performance_and_sync_update: one cycle for the instruction itself.      *)
Retire(i, p) ==
    /\ pipe.num_total_cycles < CYCLES
    /\ pipe' = advance(p, 1)
    /\ op' = i

(* The operands of an instruction read without waiting for them.           *)
Alu_direct(a, b, rd) == Retire(<<"alu", a, b, rd>>, access_register(pipe, rd))

Alu(a, b, rd) == Retire(<<"alu", a, b, rd>>, access_register(Read(pipe, a, b), rd))

(* LUI, AUIPC, JAL, and JALR, which takes its operand from regs directly.  *)
Link(rd) == Retire(<<"link", rd>>, access_register(pipe, rd))

(* FENCE, xRET, WFI, CSRRWI with x0, the floating-point instructions: no   *)
(* register is accounted for.                                              *)
Other == Retire(<<"other">>, pipe)

(* A branch, and any instruction that traps after reading its operands.    *)
Branch(a, b) == Retire(<<"branch", a, b>>, Read(pipe, a, b))

Store(a, b, range) ==
    Retire(<<"store", a, b, range>>, reserve_store(Read(pipe, a, b), range))

(* A load that leaves its delay on rd without having waited for rd.        *)
Load_nowait(a, range, rd) ==
    Retire(<<"load", a, range, rd>>, do_load(access_register(pipe, a), range, rd))

(* LB .. LHU and LR_W: rd is written, and waited for, before it is given   *)
(* its delay.                                                              *)
Load(a, range, rd) ==
    Retire(<<"load", a, range, rd>>,
           do_load(access_register(access_register(pipe, a), rd), range, rd))

(* CSRRW .. CSRRCI: a result for x0 is dropped before the pipeline sees    *)
(* it.  The forms without an operand wait for rd alone: a is rd.           *)
Csr(a, rd) ==
    LET p == access_register(pipe, a)
    IN  Retire(<<"csr", a, rd>>,
               IF rd = Zero THEN p
               ELSE add_result_latency(access_register(p, rd), rd, CsrCycles))

Mult(a, b, rd) ==
    LET p == access_register(Read(pipe, a, b), rd)
    IN  Retire(<<"mult", a, b, rd>>,
               add_result_latency(reserve(p, "mult", MultCycles), rd, MultCycles + 1))

Div(a, b, rd) ==
    LET p == access_register(Read(pipe, a, b), rd)
    IN  Retire(<<"div", a, b, rd>>,
               add_result_latency(reserve(p, "div", DivCycles), rd, DivCycles + 1))

(* A stall after an instruction's registers: a mispredicted branch, or the *)
(* cycles the coprocessor has counted.                                     *)
Custom3(a, b, rd, n) ==
    Retire(<<"custom3", a, b, rd, n>>,
           advance(access_register(Read(pipe, a, b), rd), n))

(* A stall before them: a line the instruction cache has to load.          *)
Fetch(n) ==
    /\ pipe.num_total_cycles < CYCLES
    /\ pipe' = advance(pipe, n)
    /\ op' = <<"fetch", n>>

PipelineNext ==
    \/ \E a, b, rd \in Regs : Alu(a, b, rd) \/ Mult(a, b, rd) \/ Div(a, b, rd)
    \/ \E a, b \in Regs : Branch(a, b)
    \/ Other
    \/ \E a, b \in Regs, r \in Ranges : Store(a, b, r)
    \/ \E a, rd \in Regs, r \in Ranges : Load(a, r, rd)
    \/ \E a, rd \in Regs : Csr(a, rd)
    \/ \E rd \in Regs : Link(rd)
    \/ \E a, b, rd \in Regs, n \in Stalls : Custom3(a, b, rd, n)
    \/ \E n \in Stalls : Fetch(n)

PipelineSpec == PipelineInit /\ [][PipelineNext]_pipelineVars

-----------------------------------------------------------------------------
PipelineTypeOK == pipe \in Pipes

(* No assertion of timing.h ever fails: a register has no second entry and *)
(* a unit no second operation, whatever the program; every instruction     *)
(* writes its register, and so waits for it, before it leaves a delay.     *)
AssertionsHold == pipe.ok

(* Between two instructions at most one store is pending, and for one      *)
(* cycle: the one cycle a load waits for it (do_load) is always enough.    *)
OneStorePending ==
    \A s, t \in pipe.stores : s = t /\ s.latency = 1

(* What the pipeline promises is ReadyTimes: an operation starts as soon   *)
(* as everything it uses is ready, never before and never later, and its   *)
(* result is ready its latency after that, however the waits that precede  *)
(* it interleave with the delays already counted down.                     *)
ByteDue(b) ==
    IF \E s \in pipe.stores : s.range.start <= b /\ b < s.range.end THEN 1 ELSE 0

Abs == INSTANCE ReadyTimes WITH
    now <- pipe.num_total_cycles,
    due <- [r \in Regs |-> pipe.num_total_cycles + pipe.lat[r]],
    unitDue <- [u \in Units |-> pipe.num_total_cycles + pipe.unit[u]],
    byteDue <- [b \in UNION {r.start .. (r.end - 1) : r \in Ranges} |->
                    pipe.num_total_cycles + ByteDue(b)]

AsSoonAsReady == Abs!Spec
=============================================================================
