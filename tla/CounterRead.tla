---------------------------- MODULE CounterRead -----------------------------
(***************************************************************************)
(* __get_rv_instret, __get_rv_cycle and __get_rv_time of the guest         *)
(* programs (core_feature_base.h): a counter of two halves, of which one   *)
(* instruction reads one (get_csr_value, iss.cpp), read while it runs.     *)
(* Between two of the reads any time may pass: the pipeline stalls, a trap *)
(* handler runs, the clock is real time.  The high half does not overflow. *)
(***************************************************************************)
EXTENDS Naturals

CONSTANTS
    Half,       \* values of the low half: 2^32
    HIGHS       \* bound: the highest value of the high half

ASSUME CounterAssumption == Half \in Nat \ {0} /\ HIGHS \in Nat

VARIABLES
    counter,    \* its two halves
    at,         \* the next read of the routine, "return" after the last one
    high0, low, high,
    began       \* history: the counter at the first read

counterVars == <<counter, at, high0, low, high, began>>

Values == [high : 0 .. HIGHS, low : 0 .. (Half - 1)]
Reads == {"high0", "low", "high", "again", "return"}

(* v is not later than w.                                                  *)
v \preceq w == v.high < w.high \/ (v.high = w.high /\ v.low <= w.low)

CounterInit ==
    /\ counter \in Values /\ began = counter
    /\ at = "high0"
    /\ high0 = 0 /\ low = 0 /\ high = 0

(* The simulator counts cycles, instructions or time.                      *)
Count ==
    /\ \E v \in Values : counter \preceq v /\ v # counter /\ counter' = v
    /\ UNCHANGED <<at, high0, low, high, began>>

-----------------------------------------------------------------------------
(* One CSR read each, of the routine called at any time.                   *)
ReadHigh0 ==
    /\ at \in {"high0", "return"}
    /\ high0' = counter.high /\ began' = counter
    /\ at' = "low"
    /\ UNCHANGED <<counter, low, high>>

ReadLow ==
    /\ at = "low"
    /\ low' = counter.low
    /\ at' = "high"
    /\ UNCHANGED <<counter, high0, high, began>>

(* The low half kept although the high half has changed.                   *)
ReadHigh_kept ==
    /\ at = "high"
    /\ high' = counter.high
    /\ at' = "return"
    /\ UNCHANGED <<counter, high0, low, began>>

(* The low half is read once more if the high half has changed.            *)
ReadHigh ==
    /\ at = "high"
    /\ high' = counter.high
    /\ at' = IF high0 # high' THEN "again" ELSE "return"
    /\ UNCHANGED <<counter, high0, low, began>>

ReadLowAgain ==
    /\ at = "again"
    /\ low' = counter.low
    /\ at' = "return"
    /\ UNCHANGED <<counter, high0, high, began>>

full == [high |-> high, low |-> low]

CounterNext == Count \/ ReadHigh0 \/ ReadLow \/ ReadHigh \/ ReadLowAgain

CounterSpec == CounterInit /\ [][CounterNext]_counterVars

-----------------------------------------------------------------------------
CounterTypeOK ==
    /\ counter \in Values /\ began \in Values
    /\ at \in Reads
    /\ high0 \in 0 .. HIGHS /\ high \in 0 .. HIGHS
    /\ low \in 0 .. (Half - 1)

(* However long the read takes, its value lies between the counter at its  *)
(* first CSR read and the counter when it returns: it never mixes the      *)
(* halves of two moments into one the counter never was near.              *)
ReadInInterval == at = "return" => began \preceq full /\ full \preceq counter
=============================================================================
