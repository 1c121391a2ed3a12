------------------------------- MODULE MCHart -------------------------------
(* Hart with the reservation window of the code and a quantum of 40        *)
(* cycles: a reservation may end before, at and long after its end.        *)
EXTENDS Hart

MCLrWindow == 17
MCQuantum == 40
=============================================================================
