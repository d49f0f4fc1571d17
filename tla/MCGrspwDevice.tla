----------------------------- MODULE MCGrspwDevice -----------------------------
(* Instances of GrspwDevice for TLC. *)
EXTENDS GrspwDevice

Write(r, b) == [reg |-> r, bits |-> b, num |-> 0]
WriteNum(r, n) == [reg |-> r, bits |-> {}, num |-> n]
DataOf(a, n) == [num |-> 0, pword |-> "data", addr |-> a, len |-> n]
TimeOf(t) == [num |-> t, pword |-> "time", addr |-> 0, len |-> 0]

(* Transmission and reception through the rings. *)
RingWrites == {Write("chn", {"TI", "RD", "RE", "TE"}), Write("chn", {"RE", "AT", "PR", "PS"}),
               WriteNum("rxl", 8), WriteNum("ndr", 1), WriteNum("tim", 300)}
RingIncoming == {DataOf(254, 8), DataOf(1, 8)}

(* The control register with everything it resets, starts and disables.    *)
LinkWrites == {Write("ctr", b) : b \in SUBSET {"LS", "LD", "RS", "TI"}}
              \cup {Write("ctr", {"TQ", "OPM"}), Write("chn", {"TI", "RD", "RE", "TE"}),
                    Write("str", {"EE", "TO"}), WriteNum("txd", 0), WriteNum("rxd", 0)}
LinkIncoming == {DataOf(7, 0), TimeOf(63)}

(* A reset, and the driver that starts again. *)
ResetWrites == {Write("ctr", {"RS"}), Write("chn", {"TE"}), WriteNum("txd", 0)}

TxOnly == {Write("chn", {"TE"})}
Nothing == {}
=============================================================================
