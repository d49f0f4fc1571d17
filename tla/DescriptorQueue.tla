--------------------------- MODULE DescriptorQueue ---------------------------
(***************************************************************************)
(* What the device promises the driver about one direction of a link: the  *)
(* table of descriptors is a queue.  A descriptor the driver arms is used  *)
(* once, after those armed before it, and until then it stays armed.  Only *)
(* the driver's reset takes descriptors back unused.                       *)
(***************************************************************************)
EXTENDS Sequences

CONSTANT Index   (* the descriptors of the table *)

VARIABLES
  queue,         (* the descriptors armed and not used, oldest first *)
  armed          (* the descriptors the driver finds still armed     *)

vars == <<queue, armed>>

Init == queue = <<>> /\ armed = {}

Arm(i) == i \notin armed /\ queue' = Append(queue, i) /\ armed' = armed \cup {i}
Use    == queue # <<>> /\ queue' = Tail(queue) /\ armed' = armed \ {Head(queue)}
Reset  == queue' = <<>> /\ armed' = {}

Next == (\E i \in Index : Arm(i)) \/ Use \/ Reset

Spec == Init /\ [][Next]_vars
==============================================================================
