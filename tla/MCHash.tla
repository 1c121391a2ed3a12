------------------------------- MODULE MCHash -------------------------------
(* The hash of a message of 55 bytes, which fills one block exactly with   *)
(* its mark and its length.                                                *)
EXTENDS Sm3

MCXorB(a, b) == a ^^ b
MCSbox(b) == b

Full == [n \in 1 .. 55 |-> 97]
MCMessages == {Full}

MCDigest == [m \in MCMessages |->
    <<<<40, 131, 55, 238>>, <<245, 30, 236, 98>>, <<231, 84, 77, 114>>, <<112, 66, 76, 141>>,
      <<190, 101, 98, 84>>, <<201, 152, 82, 135>>, <<10, 115, 178, 69>>, <<58, 106, 127, 177>>>>]
=============================================================================
