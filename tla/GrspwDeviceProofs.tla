-------------------------- MODULE GrspwDeviceProofs --------------------------
(***************************************************************************)
(* Proofs about GrspwDevice, for tables of every size, every driver and    *)
(* every device.                                                           *)
(***************************************************************************)
EXTENDS GrspwDevice, TLAPS

(* The register handlers keep the registers well formed. *)
LEMMA ResetType ==
  ASSUME NEW r \in Registers
  PROVE  reset_registers(r) \in Registers
<1>1. 0 \in TxIndex /\ 0 \in RxIndex
  BY DeviceAssumption DEF TxIndex, RxIndex
<1>2. Unprogrammed \in [base : BOOLEAN, sel : TxIndex] /\ Unprogrammed \in [base : BOOLEAN, sel : RxIndex]
  BY <1>1 DEF Unprogrammed
<1>3. ResetCtr \subseteq Bits
  BY DEF ResetCtr, Bits, CtrBits, CtrReadOnly, CtrClearSet, CtrNotReset
<1>4. clearbit(setbit(r.ctr \cap CtrNotReset, ResetCtr), {"RS"}) \in SUBSET Bits
  BY <1>3 DEF Registers, clearbit, setbit
<1>5. r.chn \cap ChnNotReset \in SUBSET Bits
  BY DEF Registers
<1>6. 254 \in Byte /\ 0 \in Byte
  BY DEF Byte
<1> QED
  BY <1>2, <1>4, <1>5, <1>6 DEF reset_registers, Registers

LEMMA TickInType ==
  ASSUME NEW r \in Registers
  PROVE  TickIn(r) \in Registers
<1>1. TickedTime(r.tim) \in Byte
  BY TimeAssumption DEF Registers, TickedTime, Byte
<1> QED
  BY <1>1 DEF TickIn, Registers, clearbit

LEMMA LinkStartType ==
  ASSUME NEW r \in Registers
  PROVE  LinkStart(r) \in Registers
BY DEF LinkStart, Registers, deposit, clearbit, LinkRun, LinkState, Bits, StrBits

LEMMA LinkDisableType ==
  ASSUME NEW r \in Registers
  PROVE  LinkDisable(r) \in Registers
BY DEF LinkDisable, Registers, deposit, clearbit

(* SPWCTR as the handler stores it before it acts on the bits written. *)
Stored(r, v) == [r EXCEPT !.ctr = deposit(@, CtrClearSet \cup CtrNotReset, v)
                                  \cup setbit(@, v \cap CtrSelfClear)]

LEMMA StoredType ==
  ASSUME NEW r \in Registers, NEW v \in SUBSET Bits
  PROVE  Stored(r, v) \in Registers
BY DEF Stored, Registers, deposit, setbit

(* The stages of write_ctr, one for each bit it acts on. *)
Reset(r, v) == IF "RS" \in v THEN reset_registers(r) ELSE r
Tick(r, v) == IF "TI" \in v THEN TickIn(r) ELSE r
Start(r, v) == IF "LS" \in v THEN LinkStart(r) ELSE r
Disable(r, v) == IF "LD" \in v THEN LinkDisable(r) ELSE r

LEMMA WriteCtrStages ==
  ASSUME NEW r, NEW v
  PROVE  write_ctr(r, v) = Disable(Start(Tick(Reset(Stored(r, v), v), v), v), v)
BY DEF write_ctr, Stored, Reset, Tick, Start, Disable

LEMMA WriteCtrType ==
  ASSUME NEW r \in Registers, NEW v \in SUBSET Bits
  PROVE  write_ctr(r, v) \in Registers
<1>1. Stored(r, v) \in Registers
  BY StoredType
<1>2. Reset(Stored(r, v), v) \in Registers
  BY <1>1, ResetType DEF Reset
<1>3. Tick(Reset(Stored(r, v), v), v) \in Registers
  BY <1>2, TickInType DEF Tick
<1>4. Start(Tick(Reset(Stored(r, v), v), v), v) \in Registers
  BY <1>3, LinkStartType DEF Start
<1> QED
  BY <1>4, LinkDisableType, WriteCtrStages DEF Disable

LEMMA WriteStrType ==
  ASSUME NEW r \in Registers, NEW v \in SUBSET Bits
  PROVE  write_str(r, v) \in Registers
BY DEF write_str, Registers, clearbit

LEMMA WriteChnType ==
  ASSUME NEW r \in Registers, NEW v \in SUBSET Bits
  PROVE  write_chn(r, v) \in Registers
BY DEF write_chn, Registers, clearbit, setbit, deposit

LEMMA WriteType ==
  ASSUME DeviceTypeOK, NEW w \in GuestWrites
  PROVE  write_registers(w) \in Registers
<1>1. reg \in Registers /\ w.bits \in SUBSET Bits /\ w.num \in Nat /\ w.reg \in WriteRegs
  BY DeviceAssumption DEF DeviceTypeOK
<1>2. w.num % 256 \in Byte
  BY <1>1 DEF Byte
<1>3. w.num % C_NB_TX_DESCRIPTOR \in TxIndex /\ w.num % C_NB_RX_DESCRIPTOR \in RxIndex
  BY <1>1, DeviceAssumption DEF TxIndex, RxIndex
<1>4. w.reg \in {"ctr", "str", "chn"} => write_registers(w) \in Registers
  BY <1>1, WriteCtrType, WriteStrType, WriteChnType DEF write_registers
<1>5. w.reg \in {"ndr", "tim", "rxl"} => write_registers(w) \in Registers
  <2>1. ((w.num \div 4) % 2^23) * 4 \in Nat
    <3>1. w.num \div 4 \in Nat /\ 2^23 = 8388608
      BY <1>1
    <3> QED
      BY <3>1
  <2> QED
    BY <1>1, <1>2, <2>1 DEF write_registers, Registers
<1>6. w.reg \in {"txd", "rxd"} => write_registers(w) \in Registers
  BY <1>1, <1>3 DEF write_registers, Registers
<1> QED
  BY <1>1, <1>4, <1>5, <1>6 DEF WriteRegs

----------------------------------------------------------------------------
(* The walk through a table stays in the table. *)
LEMMA SuccessorType ==
  ASSUME NEW cur \in Nat, NEW wrap \in BOOLEAN, NEW size \in Nat \ {0}
  PROVE  Successor(cur, wrap, size) \in 0..(size - 1)
BY DEF Successor

LEMMA UsedType ==
  ASSUME NEW S, NEW s \in Seq(S), NEW i
  PROVE  Used(s, i) \in Seq(S)
BY DEF Used

(* Where the driver arms its next descriptor: in its own ring. *)
LEMMA ArmedIndex ==
  ASSUME NEW size \in Nat \ {0}, NEW ring \in 1..size, NEW sel \in 0..(size - 1),
         NEW armed \in Seq(0..(size - 1))
  PROVE  NextToArm(armed, sel, ring) \in 0..(size - 1)
<1>1. armed = <<>> \/ armed[Len(armed)] \in 0..(size - 1)
  OBVIOUS
<1> QED
  BY <1>1 DEF NextToArm

----------------------------------------------------------------------------
(* DeviceTypeOK is inductive: every handler keeps it.                            *)
LEMMA InitInv == Init => DeviceTypeOK
<1> SUFFICES ASSUME Init PROVE DeviceTypeOK
  OBVIOUS
<1> DEFINE zero == [ctr |-> {}, str |-> {}, chn |-> {}, tim |-> 0, ndr |-> 0, rxl |-> 0,
                    txd |-> Unprogrammed, rxd |-> Unprogrammed]
<1>1. 0 \in TxIndex /\ 0 \in RxIndex /\ 0 \in Byte
  BY DeviceAssumption DEF TxIndex, RxIndex, Byte
<1>2. zero \in Registers
  BY <1>1 DEF Unprogrammed, Registers
<1>3. reset_registers(zero) \in Registers
  BY <1>2, ResetType
<1>4. reg = [reset_registers(zero) EXCEPT !.txd.base = TRUE, !.rxd.base = TRUE]
  BY DEF Init, InitReg
<1>5. reg \in Registers
  BY <1>3, <1>4 DEF Registers
<1>6. txram \in [TxIndex -> TxDescriptor] /\ rxram \in [RxIndex -> RxDescriptor]
  BY DEF Init, TxFree, RxFree, TxDescriptor, RxDescriptor, TxIndex, RxIndex
<1>7. txarmed \in Seq(TxIndex) /\ rxarmed \in Seq(RxIndex)
  BY DEF Init
<1>8. crashed = FALSE /\ txd_cur = 0 /\ rxd_cur = 0
  BY DEF Init
<1> QED
  BY <1>5, <1>6, <1>7, <1>8 DEF DeviceTypeOK

(* txenable, whichever way it goes, for any well-formed registers.         *)
LEMMA TxEnableInv ==
  ASSUME DeviceTypeOK, NEW r \in Registers, txenable(r), UNCHANGED crashed
  PROVE  DeviceTypeOK'
<1> DEFINE d == txram[r.txd.sel]
<1> DEFINE cur == IF Overlaps THEN d.len ELSE txd_cur
<1> DEFINE next == Successor(cur, d.wr, C_NB_TX_DESCRIPTOR)
<1>1. r.txd.sel \in TxIndex /\ d \in TxDescriptor
  BY DEF Registers, DeviceTypeOK
<1>2. cur \in Nat /\ d.data \in Nat /\ d.wr \in BOOLEAN
  BY <1>1 DEF TxDescriptor, DeviceTypeOK
<1>3. next \in TxIndex /\ next \in Nat
  <2>1. next \in 0..(C_NB_TX_DESCRIPTOR - 1)
    BY <1>2, SuccessorType, DeviceAssumption
  <2> QED
    BY <2>1, DeviceAssumption DEF TxIndex
<1>4. CASE ~checkbit(r.chn, {"TE"})
  <2>1. reg' = r /\ UNCHANGED <<tx, rx, crashed>>
    BY <1>4 DEF txenable
  <2> QED
    BY <2>1 DEF DeviceTypeOK, tx, rx
<1>5. CASE checkbit(r.chn, {"TE"}) /\ ~d.en
  <2>1. /\ reg' = [r EXCEPT !.chn = clearbit(@, {"TE"})]
        /\ txd_cur' = cur
        /\ rxd_cur' = IF Overlaps THEN d.data ELSE rxd_cur
        /\ UNCHANGED <<txram, txarmed, rxram, rxarmed, crashed>>
    BY <1>5 DEF txenable
  <2>2. reg' \in Registers
    BY <2>1 DEF Registers, clearbit
  <2> QED
    BY <1>2, <2>1, <2>2 DEF DeviceTypeOK
<1>6. CASE checkbit(r.chn, {"TE"}) /\ d.en
  <2>1. /\ reg' = [r EXCEPT !.chn = setbit(@, {"PS"}), !.txd.sel = next]
        /\ txd_cur' = next
        /\ rxd_cur' = IF Overlaps THEN d.data ELSE rxd_cur
        /\ txram' = [txram EXCEPT ![r.txd.sel].en = FALSE]
        /\ txarmed' = Used(txarmed, r.txd.sel)
        /\ UNCHANGED <<rxram, rxarmed, crashed>>
    BY <1>6 DEF txenable
  <2>2. reg' \in Registers
    BY <1>3, <2>1 DEF Registers, setbit, Bits, ChnBits, ChnClear
  <2>3. txram' \in [TxIndex -> TxDescriptor]
    BY <1>1, <2>1 DEF DeviceTypeOK, TxDescriptor
  <2>4. txarmed' \in Seq(TxIndex)
    BY <2>1, UsedType DEF DeviceTypeOK
  <2>5. txd_cur' \in Nat /\ rxd_cur' \in Nat
    BY <1>2, <1>3, <2>1 DEF DeviceTypeOK
  <2> QED
    BY <2>1, <2>2, <2>3, <2>4, <2>5 DEF DeviceTypeOK
<1> QED
  BY <1>4, <1>5, <1>6

LEMMA GuestInv ==
  ASSUME DeviceTypeOK,
         \/ \E len \in Lengths : GuestArmTx(len)
         \/ GuestArmRx
         \/ \E w \in GuestWrites : GuestWrite(w)
         \/ \E w \in GuestWrites : GuestReset(w)
  PROVE  DeviceTypeOK'
<1>1. ASSUME NEW len \in Lengths, GuestArmTx(len)
      PROVE  DeviceTypeOK'
  <2> DEFINE i == NextToArm(txarmed, reg.txd.sel, TxRing)
  <2>1. i \in TxIndex
    BY ArmedIndex, DeviceAssumption DEF DeviceTypeOK, Registers, TxIndex
  <2>2. len \in Nat /\ BufferAddress \in Nat /\ (WrapBit /\ i = TxRing - 1) \in BOOLEAN
    BY DeviceAssumption
  <2>3. [en |-> TRUE, wr |-> WrapBit /\ i = TxRing - 1, len |-> len,
         data |-> BufferAddress] \in TxDescriptor
    BY <2>2 DEF TxDescriptor
  <2>4. txram' \in [TxIndex -> TxDescriptor]
    BY <1>1, <2>3 DEF GuestArmTx, DeviceTypeOK
  <2>5. txarmed' \in Seq(TxIndex)
    BY <1>1, <2>1 DEF GuestArmTx, DeviceTypeOK
  <2> QED
    BY <1>1, <2>4, <2>5 DEF GuestArmTx, DeviceTypeOK, rx
<1>2. ASSUME GuestArmRx
      PROVE  DeviceTypeOK'
  <2> DEFINE i == NextToArm(rxarmed, reg.rxd.sel, RxRing)
  <2> DEFINE d == [RxFree EXCEPT !.en = TRUE, !.wr = WrapBit /\ i = RxRing - 1]
  <2>1. i \in RxIndex
    BY ArmedIndex, DeviceAssumption DEF DeviceTypeOK, Registers, RxIndex
  <2>2. (WrapBit /\ i = RxRing - 1) \in BOOLEAN
    BY DeviceAssumption
  <2>3. d \in RxDescriptor
    BY <2>2 DEF RxDescriptor, RxFree
  <2>4. rxram' \in [RxIndex -> RxDescriptor]
    BY <1>2, <2>3 DEF GuestArmRx, DeviceTypeOK
  <2>5. rxarmed' \in Seq(RxIndex)
    <3>1. rxarmed' = Append(rxarmed, i) /\ rxarmed \in Seq(RxIndex)
      BY <1>2 DEF GuestArmRx, DeviceTypeOK
    <3> HIDE DEF i
    <3> QED
      BY <2>1, <3>1
  <2> QED
    BY <1>2, <2>4, <2>5 DEF GuestArmRx, DeviceTypeOK, tx
<1>3. ASSUME NEW w \in GuestWrites, GuestWrite(w)
      PROVE  DeviceTypeOK'
  <2>1. write_registers(w) \in Registers
    BY WriteType
  <2>2. txenable(write_registers(w)) /\ UNCHANGED crashed
    BY <1>3 DEF GuestWrite
  <2> QED
    BY <2>1, <2>2, TxEnableInv
<1>4. ASSUME NEW w \in GuestWrites, GuestReset(w)
      PROVE  DeviceTypeOK'
  <2>1. reg' \in Registers
    BY <1>4, WriteType DEF GuestReset
  <2>2. txram' \in [TxIndex -> TxDescriptor] /\ rxram' \in [RxIndex -> RxDescriptor]
    BY <1>4 DEF GuestReset, DeviceTypeOK, TxFree, RxFree, TxDescriptor, RxDescriptor
  <2>3. txarmed' \in Seq(TxIndex) /\ rxarmed' \in Seq(RxIndex)
    BY <1>4 DEF GuestReset
  <2>4. UNCHANGED <<txd_cur, rxd_cur, crashed>>
    BY <1>4 DEF GuestReset
  <2> QED
    BY <2>1, <2>2, <2>3, <2>4 DEF DeviceTypeOK
<1> QED
  BY <1>1, <1>2, <1>3, <1>4

(* The message is one the device sends; its time code is a byte.           *)
LEMMA ReceiveInv ==
  ASSUME DeviceTypeOK, NEW m \in Incoming, NEW ep \in BOOLEAN, rxenable(m, ep)
  PROVE  DeviceTypeOK'
<1> DEFINE sel == reg.rxd.sel
<1> DEFINE d == rxram[sel]
<1> DEFINE next == Successor(rxd_cur, d.wr, C_NB_RX_DESCRIPTOR)
<1>1. sel \in RxIndex /\ d \in RxDescriptor /\ d.wr \in BOOLEAN
  BY DEF Registers, DeviceTypeOK, RxDescriptor
<1>2. next \in RxIndex /\ next \in Nat
  <2>1. next \in 0..(C_NB_RX_DESCRIPTOR - 1)
    BY <1>1, SuccessorType, DeviceAssumption DEF DeviceTypeOK
  <2> QED
    BY <2>1, DeviceAssumption DEF RxIndex
<1>3. CASE ~Accepted(m) /\ Discard
  BY <1>3 DEF Discard, DeviceTypeOK, tx, rx
<1>4. CASE crashed' = TRUE /\ UNCHANGED <<reg, tx, rx>>
  BY <1>4 DEF DeviceTypeOK, tx, rx
<1>5. CASE /\ reg' = [reg EXCEPT !.chn = clearbit(@, {"RD"})]
           /\ UNCHANGED <<tx, rx, crashed>>
  <2>1. reg' \in Registers
    BY <1>5 DEF Registers, DeviceTypeOK, clearbit
  <2> QED
    BY <1>5, <2>1 DEF DeviceTypeOK, tx, rx
<1>6. CASE /\ reg' = [reg EXCEPT !.chn = setbit(@, {"PR"}),
                                 !.str = IF ep THEN setbit(@, {"EE"}) ELSE @,
                                 !.rxd.sel = next]
           /\ rxram' = [rxram EXCEPT ![sel] =
                [d EXCEPT !.en = FALSE, !.ep = @ \/ ep, !.tr = @ \/ m.len > reg.rxl,
                          !.len = IF m.len > reg.rxl THEN reg.rxl ELSE m.len]]
           /\ rxd_cur' = next
           /\ rxarmed' = Used(rxarmed, sel)
           /\ UNCHANGED <<tx, crashed>>
  <2>1. reg' \in Registers
    <3>1. setbit(reg.chn, {"PR"}) \in SUBSET Bits /\ setbit(reg.str, {"EE"}) \in SUBSET Bits
      BY DEF DeviceTypeOK, Registers, setbit, Bits, ChnBits, ChnClear, StrBits, StrClear
    <3> QED
      BY <1>2, <1>6, <3>1 DEF Registers, DeviceTypeOK
  <2>2. m.len \in Nat /\ reg.rxl \in Nat
    BY DeviceAssumption DEF DeviceTypeOK, Registers
  <2>3. rxram' \in [RxIndex -> RxDescriptor]
    <3> DEFINE e == [d EXCEPT !.en = FALSE, !.ep = @ \/ ep, !.tr = @ \/ m.len > reg.rxl,
                              !.len = IF m.len > reg.rxl THEN reg.rxl ELSE m.len]
    <3>1. (d.ep \/ ep) \in BOOLEAN /\ (d.tr \/ m.len > reg.rxl) \in BOOLEAN
      OBVIOUS
    <3>2. e \in RxDescriptor
      BY <1>1, <2>2, <3>1 DEF RxDescriptor
    <3>3. rxram' = [rxram EXCEPT ![sel] = e]
      BY <1>6
    <3> HIDE DEF e
    <3> QED
      BY <1>1, <3>2, <3>3 DEF DeviceTypeOK
  <2>4. rxarmed' \in Seq(RxIndex)
    BY <1>6, UsedType DEF DeviceTypeOK
  <2> QED
    BY <1>2, <1>6, <2>1, <2>3, <2>4 DEF DeviceTypeOK, tx
<1> QED
  BY <1>3, <1>4, <1>5, <1>6 DEF rxenable

LEMMA TimecodeInv ==
  ASSUME DeviceTypeOK, NEW m \in Incoming, rxtimecode(m)
  PROVE  DeviceTypeOK'
<1>1. CASE Discard
  BY <1>1 DEF Discard, DeviceTypeOK, tx, rx
<1>2. CASE /\ reg' = [reg EXCEPT !.tim = m.num, !.str = setbit(@, {"TO"})]
           /\ UNCHANGED <<tx, rx, crashed>>
  <2>1. m.num \in Byte
    BY DeviceAssumption
  <2>2. reg' \in Registers
    BY <1>2, <2>1 DEF DeviceTypeOK, Registers, setbit, Bits, StrBits, StrClear
  <2> QED
    BY <1>2, <2>2 DEF DeviceTypeOK, tx, rx
<1> QED
  BY <1>1, <1>2 DEF rxtimecode

LEMMA StepInv == DeviceTypeOK /\ [Next]_vars => DeviceTypeOK'
<1> SUFFICES ASSUME DeviceTypeOK, [Next]_vars PROVE DeviceTypeOK'
  OBVIOUS
<1>1. CASE UNCHANGED vars
  BY <1>1 DEF vars, DeviceTypeOK
<1>2. CASE Next
  <2>1. ASSUME NEW m \in Incoming, NEW ep \in BOOLEAN, rxenable(m, ep) PROVE DeviceTypeOK'
    BY <2>1, ReceiveInv
  <2>2. ASSUME NEW m \in Incoming, rxtimecode(m) PROVE DeviceTypeOK'
    BY <2>2, TimecodeInv
  <2> QED
    BY <1>2, <2>1, <2>2, GuestInv DEF Next
<1> QED
  BY <1>1, <1>2

(* For tables of every size and every driver that writes what it likes,    *)
(* the registers, the descriptors and the driver's rings keep their types: *)
(* the table registers never select a descriptor outside the tables.       *)
THEOREM DeviceTypeCorrect == Spec => []DeviceTypeOK
  BY InitInv, StepInv, PTL DEF Spec
=============================================================================
