----------------------------- MODULE StopAndWait -----------------------------
(***************************************************************************)
(* What the transmitter promises whoever uses the links: one packet at a   *)
(* time on all of them together, answered before the next one starts.      *)
(*                                                                         *)
(* There is one token.  It is the packet on its way to the device, then    *)
(* the answer the device owes, then the ack on its way back.  The device   *)
(* may lose it.  The sender is busy with a link from the send on, and only *)
(* an ack ends that: if the ack comes before the sender listens, nothing   *)
(* ends it.                                                                *)
(***************************************************************************)
CONSTANTS Links, NoLink

VARIABLES
  busy,   (* the link the sender waits for, or NoLink *)
  token   (* what there is of the packet and its ack  *)

vars == <<busy, token>>

TypeOK == busy \in Links \cup {NoLink} /\ token \in {"none", "packet", "owed", "ack"}

Init == busy = NoLink /\ token = "none"

Send(l) == busy = NoLink /\ token = "none" /\ busy' = l /\ token' = "packet"
Deliver == token = "packet" /\ token' = "owed" /\ UNCHANGED busy
Answer  == token = "owed" /\ token' = "ack" /\ UNCHANGED busy
Forget  == token = "owed" /\ token' = "none" /\ UNCHANGED busy
Accept  == token = "ack" /\ token' = "none" /\ busy' \in {busy, NoLink}

Next == (\E l \in Links : Send(l)) \/ Deliver \/ Answer \/ Forget \/ Accept

Spec == Init /\ [][Next]_vars
==============================================================================
