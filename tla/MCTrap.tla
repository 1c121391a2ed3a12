------------------------------- MODULE MCTrap -------------------------------
(* Instance of Trap for TLC: a timer interrupt (7) and a supervisor        *)
(* external interrupt (9); illegal instructions (2) and environment calls  *)
(* of the user (8).  The guest writes user mode and the reserved level to  *)
(* mpp; the other levels come there by traps.                              *)
EXTENDS Trap

MCDelegs == {
    [mi |-> {7, 9}, si |-> {9}, me |-> {2}, se |-> {}],
    [mi |-> {9}, si |-> {}, me |-> {2, 8}, se |-> {2, 8}]}
=============================================================================
