----------------------------- MODULE ReadyTimes -----------------------------
(***************************************************************************)
(* What a pipeline model promises, in absolute time: the cycle each        *)
(* register, each unit and each byte of memory is ready.  An operation     *)
(* starts at the first cycle at which all it uses is ready.                *)
(***************************************************************************)
EXTENDS Naturals

CONSTANTS Regs, Zero, Ranges, MultCycles, DivCycles, CsrCycles, LoadCycles,
          Stalls, CYCLES

Units == {"mult", "div"}
BytesOf(r) == r.start .. (r.end - 1)
Bytes == UNION {BytesOf(r) : r \in Ranges}

VARIABLES
    now,        \* the cycle
    due, unitDue, byteDue,
    op          \* the instruction just executed

vars == <<now, due, unitDue, byteDue, op>>

Init == /\ now = 0
        /\ due = [r \in Regs |-> 0]
        /\ unitDue = [u \in Units |-> 0]
        /\ byteDue = [b \in Bytes |-> 0]
        /\ op = <<"none">>

Later(t, u) == IF t > u THEN t ELSE u

(* t is the first cycle from now on that no given time comes after.         *)
FirstAfter(t, times) ==
    /\ t = now \/ t \in times
    /\ t >= now /\ \A x \in times : t >= x

(* The cycle is now t; what is ready before is ready now.                  *)
At(t, regs, units, bytes) ==
    /\ now' = t
    /\ due' = [r \in Regs |-> Later(regs[r], t)]
    /\ unitDue' = [u \in Units |-> Later(units[u], t)]
    /\ byteDue' = [b \in Bytes |-> Later(bytes[b], t)]

(* The operation starts once registers rs are ready and takes n cycles.    *)
Plain(rs, n) ==
    \E t \in {now} \cup {due[r] : r \in rs} :
        /\ FirstAfter(t, {due[r] : r \in rs})
        /\ At(t + n, due, unitDue, byteDue)

(* Its result is ready latency cycles after its start.                     *)
Delayed(rs, rd, latency) ==
    \E t \in {now} \cup {due[r] : r \in rs} :
        /\ FirstAfter(t, {due[r] : r \in rs})
        /\ At(t + 1, [due EXCEPT ![rd] = t + latency], unitDue, byteDue)

(* Unit u is busy until a cycle before the result is ready.                *)
InUnit(u, rs, rd, cycles) ==
    LET times == {due[r] : r \in rs} \cup {unitDue[u]}
    IN  \E t \in {now} \cup times :
           /\ FirstAfter(t, times)
           /\ At(t + 1, [due EXCEPT ![rd] = t + cycles + 1],
                 [unitDue EXCEPT ![u] = t + cycles], byteDue)

Written(bytes, range, t) ==
    [b \in Bytes |-> IF b \in BytesOf(range) THEN t ELSE bytes[b]]

(* The bytes are ready two cycles after the store has started.             *)
Store(rs, range) ==
    \E t \in {now} \cup {due[r] : r \in rs} :
        /\ FirstAfter(t, {due[r] : r \in rs})
        /\ At(t + 1, due, unitDue, Written(byteDue, range, t + 2))

(* A load starts when its bytes are ready as well; one that had to wait    *)
(* for them takes a cycle longer unless it is of a whole word.             *)
Load(rs, range, rd) ==
    \E t \in {now} \cup {due[r] : r \in rs} :
        /\ FirstAfter(t, {due[r] : r \in rs})
        /\ \E u \in {t} \cup {byteDue[b] : b \in BytesOf(range)} :
              /\ u >= t /\ \A b \in BytesOf(range) : u >= byteDue[b]
              /\ At(u + 1,
                    [due EXCEPT ![rd] = u + LoadCycles +
                        IF u > t /\ range.end - range.start < 4 THEN 1 ELSE 0],
                    unitDue, byteDue)

Next ==
    \/ \E a, b, rd \in Regs :
           \/ op' = <<"alu", a, b, rd>> /\ Plain({a, b, rd}, 1)
           \/ op' = <<"mult", a, b, rd>> /\ InUnit("mult", {a, b, rd}, rd, MultCycles)
           \/ op' = <<"div", a, b, rd>> /\ InUnit("div", {a, b, rd}, rd, DivCycles)
    \/ \E a, b \in Regs : op' = <<"branch", a, b>> /\ Plain({a, b}, 1)
    \/ op' = <<"other">> /\ Plain({}, 1)
    \/ \E a, b \in Regs, r \in Ranges :
           op' = <<"store", a, b, r>> /\ Store({a, b}, r)
    \/ \E a, rd \in Regs, r \in Ranges :
           op' = <<"load", a, r, rd>> /\ Load({a, rd}, r, rd)
    \/ \E a, rd \in Regs :
           /\ op' = <<"csr", a, rd>>
           /\ \/ rd # Zero /\ Delayed({a, rd}, rd, CsrCycles)
              \/ rd = Zero /\ Plain({a}, 1)
    \/ \E rd \in Regs : op' = <<"link", rd>> /\ Plain({rd}, 1)
    \/ \E a, b, rd \in Regs, n \in Stalls :
           op' = <<"custom3", a, b, rd, n>> /\ Plain({a, b, rd}, n + 1)
    \/ \E n \in Stalls : op' = <<"fetch", n>> /\ Plain({}, n)

Spec == Init /\ [][Next]_vars
=============================================================================
