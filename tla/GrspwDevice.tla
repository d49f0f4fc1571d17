------------------------------ MODULE GrspwDevice ------------------------------
(***************************************************************************)
(* One GRSPW link, one register write or one incoming message at a time:   *)
(* the register file with its reset, the descriptor tables behind SPWTXD   *)
(* and SPWRXD, and the truncation of packets.                              *)
(*                                                                         *)
(* Every action is a whole handler, and a transmission gets its ack before *)
(* anything else happens.  So nothing is said here of what depends on the  *)
(* steps of a handler, such as link state and status bits, which the other *)
(* thread may change in between: GrspwSim has the steps.  The interrupt    *)
(* line is left out.                                                       *)
(*                                                                         *)
(* The guest is a driver: it arms descriptors in ring order, sets WR in    *)
(* the last of them, and after a reset starts again from index 0.          *)
(***************************************************************************)
EXTENDS GrspwRegs, Sequences

CONSTANTS
  Rmap,                (* has this core RMAP, as core 3 and core 4 do?     *)
  C_NB_TX_DESCRIPTOR, C_NB_RX_DESCRIPTOR,   (* the sizes of the tables     *)
  TxRing, RxRing,      (* the descriptors the driver uses                  *)
  WrapBit,             (* does the driver set WR in the last descriptor?   *)
  MaxArmed,            (* bound: descriptors the driver arms ahead         *)
  Lengths,             (* lengths of packets and values of SPWRXL          *)
  BufferAddress,       (* address of a transmit buffer in guest RAM        *)
  GuestWrites,         (* register writes the driver makes                 *)
  Incoming             (* messages the device sends                        *)

WriteRegs == {"ctr", "str", "chn", "tim", "ndr", "rxl", "txd", "rxd"}

ASSUME DeviceAssumption ==
  /\ Rmap \in BOOLEAN /\ WrapBit \in BOOLEAN
  /\ C_NB_TX_DESCRIPTOR \in Nat \ {0} /\ C_NB_RX_DESCRIPTOR \in Nat \ {0}
  /\ TxRing \in 1..C_NB_TX_DESCRIPTOR /\ RxRing \in 1..C_NB_RX_DESCRIPTOR
  /\ MaxArmed \in Nat
  /\ Lengths \subseteq Nat
  /\ BufferAddress \in Nat
  /\ GuestWrites \subseteq [reg : WriteRegs, bits : SUBSET Bits, num : Nat]
  /\ Incoming \subseteq [pword : {"data", "time"}, addr : Byte, len : Lengths, num : Byte]

VARIABLES
  reg,                 (* the registers                                    *)
  txd_cur, rxd_cur,    (* the device's own descriptor indices              *)
  txram, rxram,        (* the descriptor tables in guest RAM               *)
  crashed,             (* a wild index was used                            *)
  txarmed, rxarmed     (* history: indices armed and not used, in order    *)

vars == <<reg, txd_cur, rxd_cur, txram, rxram, crashed, txarmed, rxarmed>>
tx == <<txd_cur, txram, txarmed>>
rx == <<rxd_cur, rxram, rxarmed>>

(* Descriptors the driver has not written yet. *)
TxFree == [en |-> FALSE, wr |-> FALSE, len |-> 0, data |-> 0]
RxFree == [en |-> FALSE, wr |-> FALSE, ep |-> FALSE, tr |-> FALSE, len |-> 0]

----------------------------------------------------------------------------
(* The handlers of grlib_reggrspw: functions from registers to registers.  *)

(* A table register with base 0 points at no table of the driver's.        *)
Unprogrammed == [base |-> FALSE, sel |-> 0]

ResetCtr == IF Rmap THEN {"RA", "RC", "RE", "LS"} ELSE {"RE", "LS"}

reset_registers(r) ==
  [ctr |-> clearbit(setbit(r.ctr \cap CtrNotReset, ResetCtr), {"RS"}),
   str |-> {}, chn |-> r.chn \cap ChnNotReset, tim |-> 0, ndr |-> 254, rxl |-> 0,
   txd |-> Unprogrammed, rxd |-> Unprogrammed]

TickIn(r) == [r EXCEPT !.tim = TickedTime(@), !.ctr = clearbit(@, {"TI"})]

LinkStart(r) == [r EXCEPT !.str = deposit(@, LinkState, LinkRun), !.ctr = clearbit(@, {"LD"})]
LinkDisable(r) == [r EXCEPT !.str = deposit(@, LinkState, {}), !.ctr = clearbit(@, {"LS"})]

(* clearset | set, with set = reg | ...: no old bit of SPWCTR is cleared.  *)
write_ctr(r, v) ==
  LET stored  == [r EXCEPT !.ctr = deposit(@, CtrClearSet \cup CtrNotReset, v)
                                   \cup setbit(@, v \cap CtrSelfClear)]
      reset   == IF "RS" \in v THEN reset_registers(stored) ELSE stored
      ticked  == IF "TI" \in v THEN TickIn(reset) ELSE reset
      started == IF "LS" \in v THEN LinkStart(ticked) ELSE ticked
  IN  IF "LD" \in v THEN LinkDisable(started) ELSE started

write_str(r, v) == [r EXCEPT !.str = clearbit(@, v \cap StrClear)]

write_chn(r, v) ==
  LET stored == setbit(deposit(r.chn, ChnClearSet \cup ChnNotReset, v), v \cap ChnSelfClear)
      abort  == IF "AT" \in v THEN {"TE", "AT"} ELSE {}
  IN  [r EXCEPT !.chn = clearbit(stored, abort \cup (v \cap ChnClear))]

write_registers(w) ==
  CASE w.reg = "ctr" -> write_ctr(reg, w.bits)
    [] w.reg = "str" -> write_str(reg, w.bits)
    [] w.reg = "chn" -> write_chn(reg, w.bits)
    [] w.reg = "ndr" -> [reg EXCEPT !.ndr = w.num % 256]
    [] w.reg = "tim" -> [reg EXCEPT !.tim = w.num % 256]
    [] w.reg = "rxl" -> [reg EXCEPT !.rxl = ((w.num \div 4) % 2^23) * 4]
    [] w.reg = "txd" -> [reg EXCEPT !.txd = [base |-> TRUE, sel |-> w.num % C_NB_TX_DESCRIPTOR]]
    [] w.reg = "rxd" -> [reg EXCEPT !.rxd = [base |-> TRUE, sel |-> w.num % C_NB_RX_DESCRIPTOR]]

----------------------------------------------------------------------------
(* Registers after grlib_apbgrspw_init; the driver has set up its tables.  *)
InitReg ==
  [reset_registers([ctr |-> {}, str |-> {}, chn |-> {}, tim |-> 0, ndr |-> 0, rxl |-> 0,
                    txd |-> Unprogrammed, rxd |-> Unprogrammed])
   EXCEPT !.txd.base = TRUE, !.rxd.base = TRUE]

Init ==
  /\ reg = InitReg
  /\ txd_cur = 0
  /\ rxd_cur = 0
  /\ txram = [i \in 0..(C_NB_TX_DESCRIPTOR - 1) |-> TxFree]
  /\ rxram = [i \in 0..(C_NB_RX_DESCRIPTOR - 1) |-> RxFree]
  /\ crashed = FALSE
  /\ txarmed = <<>>
  /\ rxarmed = <<>>

----------------------------------------------------------------------------
(* The driver arms the descriptor after the last one it armed; when none   *)
(* is in use that is the one the table register points at.                 *)
NextToArm(armed, sel, ring) ==
  IF armed = <<>> THEN sel ELSE (armed[Len(armed)] + 1) % ring

(* The driver's record of its ring once the device has used descriptor i:  *)
(* the properties below say that it is always the oldest one.              *)
Used(armed, i) == IF armed # <<>> /\ Head(armed) = i THEN Tail(armed) ELSE armed

GuestArmTx(len) ==
  LET i == NextToArm(txarmed, reg.txd.sel, TxRing) IN
  /\ ~crashed
  /\ reg.txd.base
  /\ i < TxRing
  /\ ~txram[i].en
  /\ Len(txarmed) < MaxArmed
  /\ txram' = [txram EXCEPT ![i] = [en |-> TRUE, wr |-> WrapBit /\ i = TxRing - 1,
                                    len |-> len, data |-> BufferAddress]]
  /\ txarmed' = Append(txarmed, i)
  /\ UNCHANGED <<reg, txd_cur, rx, crashed>>

GuestArmRx ==
  LET i == NextToArm(rxarmed, reg.rxd.sel, RxRing) IN
  /\ ~crashed
  /\ reg.rxd.base
  /\ i < RxRing
  /\ ~rxram[i].en
  /\ Len(rxarmed) < MaxArmed
  /\ rxram' = [rxram EXCEPT ![i] = [RxFree EXCEPT !.en = TRUE, !.wr = WrapBit /\ i = RxRing - 1]]
  /\ rxarmed' = Append(rxarmed, i)
  /\ UNCHANGED <<reg, rxd_cur, tx, crashed>>

(* Mutant: the array has an entry less, and the overlap comes one earlier. *)
OverlapsEarlier == txd_cur >= C_NB_TX_DESCRIPTOR - 2

(***************************************************************************)
(* grlib_comgrspw_txenable.  The descriptor is read at the address in      *)
(* SPWTXD into txd_map[txd_cur], an array of 8-byte entries that receives  *)
(* a 16-byte descriptor: at the last index its length and its buffer       *)
(* address land on txd_cur and rxd_cur, which follow the array.            *)
(***************************************************************************)
Overlaps == txd_cur = C_NB_TX_DESCRIPTOR - 1

txenable(r) ==
  LET d    == txram[r.txd.sel]
      cur  == IF Overlaps THEN d.len ELSE txd_cur
      next == Successor(cur, d.wr, C_NB_TX_DESCRIPTOR)
  IN
  CASE ~checkbit(r.chn, {"TE"}) ->
         /\ reg' = r
         /\ UNCHANGED <<tx, rx>>
    [] checkbit(r.chn, {"TE"}) /\ ~d.en ->
         /\ reg' = [r EXCEPT !.chn = clearbit(@, {"TE"})]
         /\ txd_cur' = cur
         /\ rxd_cur' = IF Overlaps THEN d.data ELSE rxd_cur
         /\ UNCHANGED <<txram, txarmed, rxram, rxarmed>>
    [] OTHER ->
         /\ reg' = [r EXCEPT !.chn = setbit(@, {"PS"}), !.txd.sel = next]
         /\ txd_cur' = next
         /\ rxd_cur' = IF Overlaps THEN d.data ELSE rxd_cur
         /\ txram' = [txram EXCEPT ![r.txd.sel].en = FALSE]
         /\ txarmed' = Used(txarmed, r.txd.sel)
         /\ UNCHANGED <<rxram, rxarmed>>

(* grlib_apbgrspw_write.  The driver gives each direction a table once     *)
(* after a reset, before it enables the direction.                         *)
GuestWrite(w) ==
  /\ ~crashed
  /\ "RS" \notin w.bits
  /\ w.reg = "chn" /\ "TE" \in w.bits => reg.txd.base
  /\ w.reg = "chn" /\ "RD" \in w.bits => reg.rxd.base
  /\ w.reg = "txd" => ~reg.txd.base
  /\ w.reg = "rxd" => ~reg.rxd.base
  /\ txenable(write_registers(w))
  /\ UNCHANGED crashed

(* A write that resets the node; the driver then forgets its descriptors.  *)
(* TE is clear after a reset: txenable does nothing.                       *)
GuestReset(w) ==
  /\ ~crashed
  /\ w.reg = "ctr" /\ "RS" \in w.bits
  /\ reg' = write_registers(w)
  /\ txram' = [i \in DOMAIN txram |-> TxFree]
  /\ rxram' = [i \in DOMAIN rxram |-> RxFree]
  /\ txarmed' = <<>>
  /\ rxarmed' = <<>>
  /\ UNCHANGED <<txd_cur, rxd_cur, crashed>>

----------------------------------------------------------------------------
Discard == UNCHANGED <<reg, tx, rx, crashed>>

Accepted(m) ==
  /\ checkbit(reg.chn, {"RE"})
  /\ checkbit(reg.ctr, {"OPM"}) \/ reg.ndr = m.addr
  /\ checkbit(reg.chn, {"RD"})

(* grlib_comgrspw_rxenable.  ep is the flag nothing initialises; rxd_cur   *)
(* indexes rxd_map, so a value the overlap above left there is fatal.      *)
rxenable(m, ep) ==
  LET sel  == reg.rxd.sel
      d    == rxram[sel]
      next == Successor(rxd_cur, d.wr, C_NB_RX_DESCRIPTOR)
  IN
  /\ ~crashed
  /\ m.pword = "data"
  /\ \/ ~Accepted(m) /\ Discard
     \/ /\ Accepted(m)
        /\ rxd_cur >= C_NB_RX_DESCRIPTOR
        /\ crashed' = TRUE
        /\ UNCHANGED <<reg, tx, rx>>
     \/ /\ Accepted(m)
        /\ rxd_cur < C_NB_RX_DESCRIPTOR
        /\ ~d.en
        /\ reg' = [reg EXCEPT !.chn = clearbit(@, {"RD"})]
        /\ UNCHANGED <<tx, rx, crashed>>
     \/ /\ Accepted(m)
        /\ rxd_cur < C_NB_RX_DESCRIPTOR
        /\ d.en
        /\ reg' = [reg EXCEPT !.chn = setbit(@, {"PR"}),
                              !.str = IF ep THEN setbit(@, {"EE"}) ELSE @,
                              !.rxd.sel = next]
        /\ rxram' = [rxram EXCEPT ![sel] =
             [d EXCEPT !.en = FALSE, !.ep = @ \/ ep, !.tr = @ \/ m.len > reg.rxl,
                       !.len = IF m.len > reg.rxl THEN reg.rxl ELSE m.len]]
        /\ rxd_cur' = next
        /\ rxarmed' = Used(rxarmed, sel)
        /\ UNCHANGED <<tx, crashed>>

(* grlib_comgrspw_rxtimecode *)
rxtimecode(m) ==
  /\ ~crashed
  /\ m.pword = "time"
  /\ \/ reg.tim >= m.num /\ Discard
     \/ /\ reg.tim < m.num
        /\ reg' = [reg EXCEPT !.tim = m.num, !.str = setbit(@, {"TO"})]
        /\ UNCHANGED <<tx, rx, crashed>>

----------------------------------------------------------------------------
Next ==
  \/ \E len \in Lengths : GuestArmTx(len)
  \/ GuestArmRx
  \/ \E w \in GuestWrites : GuestWrite(w)
  \/ \E w \in GuestWrites : GuestReset(w)
  \/ \E m \in Incoming, ep \in BOOLEAN : rxenable(m, ep)
  \/ \E m \in Incoming : rxtimecode(m)

Spec == Init /\ [][Next]_vars

----------------------------------------------------------------------------
TxIndex == 0..(C_NB_TX_DESCRIPTOR - 1)
RxIndex == 0..(C_NB_RX_DESCRIPTOR - 1)

Registers ==
  [ctr : SUBSET Bits, str : SUBSET Bits, chn : SUBSET Bits, tim : Byte, ndr : Byte, rxl : Nat,
   txd : [base : BOOLEAN, sel : TxIndex], rxd : [base : BOOLEAN, sel : RxIndex]]
TxDescriptor == [en : BOOLEAN, wr : BOOLEAN, len : Nat, data : Nat]
RxDescriptor == [en : BOOLEAN, wr : BOOLEAN, ep : BOOLEAN, tr : BOOLEAN, len : Nat]

(* The table registers always select a descriptor of the tables, whatever  *)
(* becomes of the device's own indices.                                    *)
DeviceTypeOK ==
  /\ reg \in Registers
  /\ txd_cur \in Nat /\ rxd_cur \in Nat
  /\ txram \in [TxIndex -> TxDescriptor]
  /\ rxram \in [RxIndex -> RxDescriptor]
  /\ crashed \in BOOLEAN
  /\ txarmed \in Seq(TxIndex) /\ rxarmed \in Seq(RxIndex)

(* Descriptors are used in the order the driver armed them: the table      *)
(* register points at the oldest one still armed.                          *)
TxInOrder == txarmed # <<>> => Head(txarmed) = reg.txd.sel
RxInOrder == rxarmed # <<>> => Head(rxarmed) = reg.rxd.sel

(* The same as the driver sees it in its RAM: each table is a queue, used  *)
(* in order, each descriptor once, and none is given back unused.          *)
TxTable == INSTANCE DescriptorQueue
             WITH Index <- TxIndex, queue <- txarmed, armed <- {i \in TxIndex : txram[i].en}
RxTable == INSTANCE DescriptorQueue
             WITH Index <- RxIndex, queue <- rxarmed, armed <- {i \in RxIndex : rxram[i].en}
TxTableIsQueue == TxTable!Spec
RxTableIsQueue == RxTable!Spec

(* The register the guest reads and the index the device advances agree.   *)
CursorsAgree == txd_cur = reg.txd.sel /\ rxd_cur = reg.rxd.sel
=============================================================================
