----------------------------- MODULE MCGrspwPath -----------------------------
(* Instances of GrspwPath for TLC. *)
EXTENDS GrspwPath

(* No header, headers whose first byte is their length, and another.       *)
SomeHeaders == {<<>>, <<2, 9>>, <<1, 9, 9>>}
SomePayloads == {<<>>, <<5, 6, 7, 8>>}
TwoHeaders == {<<>>, <<1, 9>>}

(* Empty, received whole, cut, and for another node.                       *)
SomePackets ==
  {[header |-> <<>>, data |-> d] : d \in {<<>>, <<254, 4, 5, 6, 7>>, <<17>>}}
  \cup {[header |-> <<2, 3>>, data |-> <<254, 4>>]}
NoPackets == {}

(* A time code with the value of the node address: an empty packet behind  *)
(* it is accepted.                                                         *)
SomeTimes == {254}

(* No flag, and those of a data CRC error and an error end of packet.      *)
SomeFlags == {{}, {RxDC, RxEP}}
=============================================================================
