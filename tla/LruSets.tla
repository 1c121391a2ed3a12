------------------------------ MODULE LruSets -------------------------------
(***************************************************************************)
(* A two-way set-associative cache with least-recently-used replacement:   *)
(* each set holds the last two heads asked for, the latest first.          *)
(***************************************************************************)
CONSTANTS Sets, Heads, Cold

VARIABLES latest, other, miss

vars == <<latest, other, miss>>

Init == /\ latest = [s \in Sets |-> Cold]
        /\ other = [s \in Sets |-> Cold]
        /\ miss = FALSE

Ask(s, h) ==
    /\ miss' = (h \notin {latest[s], other[s]})
    /\ latest' = [latest EXCEPT ![s] = h]
    /\ other' = [other EXCEPT ![s] = IF h = latest[s] THEN @ ELSE latest[s]]

Next == \E s \in Sets, h \in Heads : Ask(s, h)

Spec == Init /\ [][Next]_vars
=============================================================================
