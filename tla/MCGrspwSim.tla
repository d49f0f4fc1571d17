------------------------------ MODULE MCGrspwSim ------------------------------
(***************************************************************************)
(* Instances of GrspwSim for TLC: what the guest writes and what the       *)
(* device sends of its own accord.                                         *)
(***************************************************************************)
EXTENDS GrspwSim

CONSTANTS l1, l2

Write(r, b) == [reg |-> r, bits |-> b, num |-> 0]
WriteNum(r, n) == [reg |-> r, bits |-> {}, num |-> n]
DataFor(l, a, n) == [num |-> n, link |-> l, pword |-> "data", addr |-> a]

(* Transmission on two links, while time codes keep the rx thread busy.    *)
TxWrites == {Write("chn", {"TE"})}
TxSends == {[num |-> 1, link |-> l1, pword |-> "time", addr |-> 0]}

(* Reception, while the guest starts and disables the link, ticks and sets *)
(* the time.                                                               *)
RxWrites == {Write("chn", {"RD", "RE"}), Write("ctr", {"LS"}), Write("ctr", {"LD", "TI"}),
             WriteNum("tim", 3)}
RxSends == {DataFor(l1, 254, 1)}

(* Everything at once, on one link, and a change of the node address.      *)
MixWrites == {Write("chn", {"RD", "RE", "TE"})}
LiveWrites == MixWrites \cup {WriteNum("ndr", 7)}
MixSends == {DataFor(l1, 254, 1)}

=============================================================================
