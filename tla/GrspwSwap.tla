------------------------------ MODULE GrspwSwap ------------------------------
(***************************************************************************)
(* endianness_swap of grlib_utilgrspw: the loop that turns the words of    *)
(* the big-endian guest into words of the little-endian host and back.     *)
(* Groups of four bytes are reversed, then what is left of a group.        *)
(***************************************************************************)
EXTENDS GrspwRegs

CONSTANT MaxLen   (* bound: the longest buffer *)

ASSUME SwapAssumption == MaxLen \in Nat

Cells == 0..MaxLen          (* a buffer, and the byte that follows it *)
Memory == [Cells -> Byte]

VARIABLES
  src, dest, len,           (* the parameters                         *)
  byte, i,                  (* the locals: bytes left and place       *)
  old                       (* history: dest before the call          *)

swap == <<src, dest, len, byte, i, old>>

SwapInit ==
  /\ src \in Memory /\ dest \in Memory /\ old = dest
  /\ len = 0 /\ byte = 0 /\ i = 0

Call(bytes, n) ==
  /\ byte = 0
  /\ src' = bytes
  /\ len' = n
  /\ byte' = n
  /\ i' = 0
  /\ old' = dest
  /\ UNCHANGED dest

Advance(n) == byte' = byte - n /\ i' = i + n /\ UNCHANGED <<src, len, old>>

(* Mutant: the two middle bytes stay where they are. *)
SwapHalves ==
  /\ byte >= 4
  /\ dest' = [dest EXCEPT ![i] = src[i + 3], ![i + 1] = src[i + 1],
                          ![i + 2] = src[i + 2], ![i + 3] = src[i]]
  /\ Advance(4)

SwapFour ==
  /\ byte >= 4
  /\ dest' = [dest EXCEPT ![i] = src[i + 3], ![i + 1] = src[i + 2],
                          ![i + 2] = src[i + 1], ![i + 3] = src[i]]
  /\ Advance(4)

SwapThree ==
  /\ byte = 3
  /\ dest' = [dest EXCEPT ![i] = src[i + 2], ![i + 1] = src[i + 1], ![i + 2] = src[i]]
  /\ Advance(3)

(* The second byte goes one place too far. *)
SwapTwo ==
  /\ byte = 2
  /\ dest' = [dest EXCEPT ![i] = src[i + 1], ![i + 2] = src[i]]
  /\ Advance(2)

SwapOne ==
  /\ byte = 1
  /\ dest' = [dest EXCEPT ![i] = src[i]]
  /\ Advance(1)

SwapNext ==
  \/ \E bytes \in Memory, n \in 0..MaxLen : Call(bytes, n)
  \/ SwapFour \/ SwapThree \/ SwapTwo \/ SwapOne

SwapSpec == SwapInit /\ [][SwapNext]_swap

----------------------------------------------------------------------------
(* The place a byte comes from: the mirror of its place in its group.      *)
Group(k) == 4 * (k \div 4)
GroupSize(k) == IF len - Group(k) < 4 THEN len - Group(k) ELSE 4
Mirror(k) == 2 * Group(k) + GroupSize(k) - 1 - k

(* A call that has ended reversed every group and wrote nothing else,      *)
(* unless two bytes are left over: comgrspw swaps 4, 8 and 16 bytes.       *)
WordsSwapped ==
  byte = 0 /\ len % 4 # 2 =>
    \A k \in Cells : dest[k] = IF k < len THEN src[Mirror(k)] ELSE old[k]

(* Two bytes left over: the first of them lands right, the other leaves    *)
(* the buffer and its own place keeps what it held.                        *)
TwoByteTail ==
  byte = 0 /\ len % 4 = 2 =>
    dest[len - 2] = src[len - 1] /\ dest[len - 1] = old[len - 1] /\ dest[len] = src[len - 2]
=============================================================================
