----------------------------- MODULE MCVcilHil ------------------------------
(* Instance of VcilHil for TLC: the four operations, called in any order,  *)
(* with operand bytes that look like polls, reads and answers.             *)
EXTENDS VcilHil, Bitwise

MCXorB(a, b) == a ^^ b
MCSbox(b) == (b * 5 + 29) % 256
MCRxAt == [n \in 0 .. 12 |-> Byte]

MCCalls == {
    <<OpSM3P0, <<255, 0, 1, 255>>, <<0, 0, 0, 0>>>>,
    <<OpSM3P1, <<1, 255, 255, 0>>, <<0, 0, 0, 0>>>>,
    <<OpSM4KS, <<0, 123, 113, 1>>, <<1, 0, 255, 255>>>>,
    <<OpSM4ED, <<123, 1, 0, 114>>, <<255, 255, 0, 16>>>>}
(* Two calls are enough where faults multiply the states.                  *)
MCTwoCalls == {
    <<OpSM3P0, <<255, 0, 1, 255>>, <<0, 0, 0, 0>>>>,
    <<OpSM4KS, <<0, 123, 113, 1>>, <<1, 0, 255, 255>>>>}
=============================================================================
