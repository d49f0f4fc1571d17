------------------------------ MODULE GrspwRegs ------------------------------
(***************************************************************************)
(* The register words of a GRSPW link, as the register file of             *)
(* grlib_reggrspw and the bit helpers of grlib_utilgrspw see them.         *)
(*                                                                         *)
(* A flag register (SPWCTR, SPWSTR, SPWCHN) is the set of its bits that    *)
(* are '1'; a mask is a set of bits too.  SPWCHN and SPWCTR both have bits *)
(* called RD, RE and TI: they live in different registers and never meet.  *)
(* Reserved bits are written by no handler and are left out.               *)
(***************************************************************************)
EXTENDS Integers

CONSTANT TimeCodes   (* values of the time counter: 64, or fewer in a run *)

ASSUME TimeAssumption == TimeCodes \in {4, 64}

checkbit(reg, mask) == mask \subseteq reg
setbit(reg, mask) == reg \cup mask
clearbit(reg, mask) == reg \ mask
deposit(reg, mask, value) == (reg \ mask) \cup (value \cap mask)

----------------------------------------------------------------------------
(* SPWCTR *)
CtrReadOnly  == {"RA", "RX", "RC"}
CtrNotReset  == {"AS", "LS", "LD"}
CtrSelfClear == {"RS", "TI"}
CtrClearSet  == {"RD", "RE", "TR", "TT", "LI", "TQ", "OPM", "IE"}
CtrBits == CtrReadOnly \cup CtrNotReset \cup CtrSelfClear \cup CtrClearSet

(* SPWSTR: the link state is the 3-bit field LS2 LS1 LS0; 5 is "run". *)
LinkState == {"LS2", "LS1", "LS0"}
LinkRun   == {"LS2", "LS0"}
StrClear  == {"EE", "IA", "WE", "PE", "DE", "ER", "CE", "TO"}
StrBits   == LinkState \cup StrClear

(* SPWCHN *)
ChnNotReset  == {"AI", "RI", "TI"}
ChnSelfClear == {"RD", "AT", "TE"}
ChnClearSet  == {"LE", "NS", "RX", "RE"}
ChnClear     == {"RA", "TA", "PR", "PS"}
ChnBits == ChnNotReset \cup ChnSelfClear \cup ChnClearSet \cup ChnClear

Bits == CtrBits \cup StrBits \cup ChnBits

(* SPWTIM: control flags above a counter of TimeCodes values, a bit field. *)
Byte == 0..255
TickedTime(tim) == (tim \div TimeCodes) * TimeCodes + ((tim + 1) % TimeCodes)

(* The descriptor tables and the walk through them. *)
NbTxDescriptor == 64
NbRxDescriptor == 128

(* Mutants: WR is ignored; the index does not wrap by itself; it advances  *)
(* twice.                                                                  *)
SuccessorIgnoresWrap(cur, wrap, size) == (cur + 1) % size
SuccessorUnbounded(cur, wrap, size) == IF wrap THEN 0 ELSE cur + 1
SuccessorTwice(cur, wrap, size) == IF wrap THEN 0 ELSE (cur + 2) % size

Successor(cur, wrap, size) == IF wrap THEN 0 ELSE (cur + 1) % size
=============================================================================
