----------------------------- MODULE CoprocCall -----------------------------
(***************************************************************************)
(* What the guest's driver promises its caller: custom3_sm3p0, _sm3p1,     *)
(* _sm4ks and _sm4ed return the value of the operation, every time, unless *)
(* the caller itself is killed.                                            *)
(***************************************************************************)
CONSTANTS
    Calls,      \* the calls the guest makes
    Value,      \* Value[c]: the value of call c
    None        \* the result before the first return

VARIABLES busy, call, result

callVars == <<busy, call, result>>

Init == busy = FALSE /\ call \in Calls /\ result = None

Call ==
    /\ ~busy
    /\ busy' = TRUE /\ call' \in Calls
    /\ UNCHANGED result

Return ==
    /\ busy
    /\ busy' = FALSE /\ result' = Value[call]
    /\ UNCHANGED call

(* The caller is gone before the call has returned.                        *)
Abandon == busy /\ busy' = FALSE /\ UNCHANGED <<call, result>>

Next == Call \/ Return \/ Abandon

Spec == Init /\ [][Next]_callVars

(* Every call returns.                                                     *)
Returns == busy ~> ~busy
=============================================================================
