--------------------------- MODULE GrspwSimProofs ---------------------------
(***************************************************************************)
(* Proofs about GrspwSim, for every number of links, ring size and queue   *)
(* size, every set of guest writes and every device.                       *)
(***************************************************************************)
EXTENDS GrspwSim, TLAPS

USE DEF Byte, NbTxDescriptor, NbRxDescriptor, WriteRegs

----------------------------------------------------------------------------
(* What a mask does to a register word stays a register word. *)
LEMMA ModifyType ==
  ASSUME NEW word \in SUBSET Bits, NEW op \in Op
  PROVE  Modify(word, op) \in SUBSET Bits
BY DEF Modify, setbit, clearbit, Op

LEMMA RmwType ==
  ASSUME NEW r \in {"ctr", "str", "chn"}, NEW clr \in SUBSET Bits, NEW set \in SUBSET Bits
  PROVE  Rmw(r, clr, set) \in Op
BY DEF Rmw, Op

LEMMA StoreType ==
  ASSUME NEW r \in {"tim", "ndr", "tick", "timecode"}, NEW n \in Byte
  PROVE  Store(r, n) \in Op
BY DEF Store, Op

LEMMA ClearOneType ==
  ASSUME NEW r \in {"str", "chn"}, NEW v \in SUBSET Bits, NEW b \in Bits
  PROVE  ClearOne(r, v, b) \in Seq(Op)
<1>1. Rmw(r, {b}, {}) \in Op
  BY RmwType
<1> QED
  BY <1>1 DEF ClearOne, When

(* Every register write handler is a list of operations. *)
LEMMA WriteOpsType ==
  ASSUME NEW w \in [reg : WriteRegs, bits : SUBSET Bits, num : Byte]
  PROVE  WriteOps(w) \in Seq(Op)
<1> DEFINE v == w.bits
<1>1. v \in SUBSET Bits
  OBVIOUS
<1>2. CtrOps(v) \in Seq(Op)
  <2>1. Rmw("ctr", {}, v \cap (CtrClearSet \cup CtrNotReset \cup CtrSelfClear)) \in Op
    BY <1>1, RmwType
  <2>2. /\ Store("tick", 0) \in Op
        /\ Store("timecode", 0) \in Op
    BY StoreType
  <2>3. /\ Rmw("ctr", {"TI"}, {}) \in Op
        /\ Rmw("ctr", {"LD"}, {}) \in Op
        /\ Rmw("ctr", {"LS"}, {}) \in Op
    BY RmwType DEF Bits, CtrBits, CtrSelfClear, CtrNotReset
  <2>4. /\ Rmw("str", LinkState, LinkRun) \in Op
        /\ Rmw("str", LinkState, {}) \in Op
    BY RmwType DEF Bits, StrBits, LinkState, LinkRun
  <2>5. When("TI" \in v, <<Store("tick", 0), Store("timecode", 0), Rmw("ctr", {"TI"}, {})>>) \in Seq(Op)
    BY <2>2, <2>3 DEF When
  <2>6. When("LS" \in v, StartOps) \in Seq(Op)
    BY <2>3, <2>4 DEF When, StartOps
  <2>7. When("LD" \in v, DisableOps) \in Seq(Op)
    BY <2>3, <2>4 DEF When, DisableOps
  <2> QED
    BY <2>1, <2>5, <2>6, <2>7 DEF CtrOps
<1>3. StrOps(v) \in Seq(Op)
  <2>1. \A b \in StrClear : ClearOne("str", v, b) \in Seq(Op)
    BY <1>1, ClearOneType DEF Bits, StrBits
  <2> QED
    BY <2>1 DEF StrOps, StrClear
<1>4. ChnOps(v) \in Seq(Op)
  <2> DEFINE written == ChnClearSet \cup ChnNotReset
  <2>1. \A b \in ChnClear : ClearOne("chn", v, b) \in Seq(Op)
    BY <1>1, ClearOneType DEF Bits, ChnBits
  <2>2. Rmw("chn", written, v \cap (written \cup ChnSelfClear)) \in Op
    BY <1>1, RmwType DEF Bits, ChnBits
  <2>3. /\ Rmw("chn", {"TE"}, {}) \in Op
        /\ Rmw("chn", {"AT"}, {}) \in Op
    BY RmwType DEF Bits, ChnBits, ChnSelfClear
  <2>4. When("AT" \in v, <<Rmw("chn", {"TE"}, {}), Rmw("chn", {"AT"}, {})>>) \in Seq(Op)
    BY <2>3 DEF When
  <2> QED
    BY <2>1, <2>2, <2>4 DEF ChnOps, ChnClear
<1>5. w.reg \in {"tim", "ndr"} => <<Store(w.reg, w.num)>> \in Seq(Op)
  BY StoreType
<1> QED
  BY <1>2, <1>3, <1>4, <1>5 DEF WriteOps

(* A tick keeps the two control flags and counts modulo 64. *)
LEMMA TickedTimeType ==
  ASSUME NEW t \in Byte
  PROVE  TickedTime(t) \in Byte
BY TimeAssumption DEF TickedTime

(* The driver's wrap bit keeps the cursor inside the driver's ring. *)
LEMMA SuccessorInRing ==
  ASSUME NEW ring \in Nat, NEW size \in Nat, ring \in 1..size, NEW cur \in 0..(ring - 1)
  PROVE  Successor(cur, cur = ring - 1, size) \in 0..(ring - 1)
<1>1. CASE cur = ring - 1
  BY <1>1 DEF Successor
<1>2. CASE cur # ring - 1
  <2>1. (cur + 1) % size = cur + 1
    BY <1>2
  <2> QED
    BY <1>2, <2>1 DEF Successor
<1> QED
  BY <1>1, <1>2

----------------------------------------------------------------------------
(* Type correctness, action by action. *)
LEMMA PacketType ==
  ASSUME NEW l \in Links, NEW p \in {"ack", "data", "time"}, NEW n \in Byte
  PROVE  Packet(l, p, n) \in Message
BY DEF Packet, Message

LEMMA NoMessageType == NoMessage \in Message
<1>1. Links # {}
  BY SimAssumption
<1>2. AnyLink \in Links
  BY <1>1, Zenon DEF AnyLink
<1> QED
  BY <1>2, PacketType DEF NoMessage

(* The flags the handlers themselves set and clear. *)
LEMMA FlagType == {"TE", "RD", "EE", "PS", "PR", "TO"} \subseteq Bits
BY DEF Bits, ChnBits, StrBits, ChnSelfClear, ChnClear, StrClear

(* What the vCPU thread has in hand while a list of operations runs. *)
LEMMA TodoType ==
  ASSUME TypeOK, HeldDescriptors, vpc \in {"ops", "store", "tick", "timecode"}, todo # <<>>
  PROVE  vlink \in Links /\ Head(todo) \in Op /\ Tail(todo) \in Seq(Op)
<1>1. todo \in Seq(Op) /\ vlink \in Links
  BY DEF TypeOK, VcpuType, HeldDescriptors
<1> QED
  BY <1>1

(* What the rx thread has in hand. *)
LEMMA RmsgType ==
  ASSUME TypeOK
  PROVE  rmsg.link \in Links /\ rmsg.num \in Byte /\ ridx \in 0..(RxRing - 1)
BY DEF TypeOK, RxType, Message

(* What an action leaves alone keeps its type. *)
LEMMA UnchangedType ==
  ASSUME TypeOK
  PROVE  /\ UNCHANGED regs => RegsType'
         /\ UNCHANGED ram => RamType'
         /\ UNCHANGED cursors => CursorsType'
         /\ UNCHANGED queues => QueuesType'
         /\ UNCHANGED vcpu => VcpuType'
         /\ UNCHANGED rx => RxType'
         /\ UNCHANGED <<mutex, recv_ep, dev, history>> => OtherType'
<1>1. UNCHANGED regs => RegsType'
  BY DEF TypeOK, RegsType, regs
<1>2. UNCHANGED ram => RamType'
  BY DEF TypeOK, RamType, ram
<1>3. UNCHANGED cursors => CursorsType'
  BY DEF TypeOK, CursorsType, cursors
<1>4. UNCHANGED queues => QueuesType'
  BY DEF TypeOK, QueuesType, queues
<1>5. UNCHANGED vcpu => VcpuType'
  BY DEF TypeOK, VcpuType, vcpu
<1>6. UNCHANGED rx => RxType'
  BY DEF TypeOK, RxType, rx
<1>7. UNCHANGED <<mutex, recv_ep, dev, history>> => OtherType'
  BY DEF TypeOK, OtherType, history
<1> QED
  BY <1>1, <1>2, <1>3, <1>4, <1>5, <1>6, <1>7

LEMMA GuestArmTx_Type ==
  ASSUME TypeOK, HeldDescriptors, NEW l \in Links, NEW i \in 0..(TxRing - 1), GuestArmTx(l, i)
  PROVE  TypeOK'
<1>1. RamType'
  BY DEF TypeOK, RamType, GuestArmTx, RxDescriptor, RxType, HeldDescriptors, Sent, Receiving
<1>2. OtherType'
  BY DEF TypeOK, OtherType, GuestArmTx, HeldDescriptors, history
<1> QED
  BY <1>1, <1>2, UnchangedType DEF TypeOK, GuestArmTx, regs, ram, cursors, queues, vcpu, rx, history

LEMMA GuestArmRx_Type ==
  ASSUME TypeOK, HeldDescriptors, NEW l \in Links, NEW i \in 0..(RxRing - 1), GuestArmRx(l, i)
  PROVE  TypeOK'
<1>1. RamType'
  BY DEF TypeOK, RamType, GuestArmRx, RxDescriptor, RxType, HeldDescriptors, Sent, Receiving
<1>2. OtherType'
  BY DEF TypeOK, OtherType, GuestArmRx, HeldDescriptors, history
<1> QED
  BY <1>1, <1>2, UnchangedType DEF TypeOK, GuestArmRx, regs, ram, cursors, queues, vcpu, rx, history

LEMMA GuestWrite_Type ==
  ASSUME TypeOK, HeldDescriptors, NEW l \in Links, NEW w \in GuestWrites, GuestWrite(l, w)
  PROVE  TypeOK'
<1>1. VcpuType'
  BY SimAssumption, WriteOpsType DEF TypeOK, VcpuType, VcpuLabels, GuestWrite, HeldDescriptors
<1> QED
  BY <1>1, UnchangedType DEF TypeOK, GuestWrite, regs, ram, cursors, queues, vcpu, rx, history

LEMMA GuestRead_Type ==
  ASSUME TypeOK, HeldDescriptors, GuestRead
  PROVE  TypeOK'
<1>1. VcpuType'
  BY DEF TypeOK, VcpuType, VcpuLabels, GuestRead, HeldDescriptors
<1> QED
  BY <1>1, UnchangedType DEF TypeOK, GuestRead, regs, ram, cursors, queues, vcpu, rx, history

LEMMA ReadLocked_Type ==
  ASSUME TypeOK, HeldDescriptors, ReadLocked
  PROVE  TypeOK'
<1>1. VcpuType'
  BY DEF TypeOK, VcpuType, VcpuLabels, ReadLocked, HeldDescriptors
<1> QED
  BY <1>1, UnchangedType DEF TypeOK, ReadLocked, regs, ram, cursors, queues, vcpu, rx, history

LEMMA OpLoad_Type ==
  ASSUME TypeOK, HeldDescriptors, OpLoad
  PROVE  TypeOK'
<1> vlink \in Links /\ Head(todo) \in Op /\ Tail(todo) \in Seq(Op)
  BY TodoType DEF OpLoad, Executing, TypeOK
<1>1. VcpuType'
  BY DEF TypeOK, VcpuType, VcpuLabels, RegsType, OpLoad
<1> QED
  BY <1>1, UnchangedType DEF TypeOK, OpLoad, regs, ram, cursors, queues, vcpu, rx, history

LEMMA OpStore_Type ==
  ASSUME TypeOK, HeldDescriptors, OpStore
  PROVE  TypeOK'
<1> todo # <<>>
  BY DEF OpStore, HeldDescriptors
<1> vlink \in Links /\ Head(todo) \in Op /\ Tail(todo) \in Seq(Op)
  BY TodoType DEF OpStore
<1>1. RegsType'
  <2> Modify(vbits, Head(todo)) \in SUBSET Bits
    BY ModifyType DEF TypeOK, VcpuType
  <2> QED
    BY DEF TypeOK, RegsType, OpStore
<1>2. VcpuType'
  BY ModifyType DEF TypeOK, VcpuType, VcpuLabels, Executing, OpStore, HeldDescriptors
<1> QED
  BY <1>1, <1>2, UnchangedType DEF TypeOK, OpStore, regs, ram, cursors, queues, vcpu, rx, history

LEMMA OpCtr_Type ==
  ASSUME TypeOK, HeldDescriptors, OpCtr
  PROVE  TypeOK'
<1> vlink \in Links /\ Head(todo) \in Op /\ Tail(todo) \in Seq(Op)
  BY TodoType DEF OpCtr, Executing
<1>1. RegsType'
  <2> Modify(ctr[vlink], Head(todo)) \in SUBSET Bits
    BY ModifyType DEF TypeOK, RegsType
  <2> QED
    BY DEF TypeOK, RegsType, OpCtr
<1>2. VcpuType'
  BY ModifyType DEF TypeOK, VcpuType, VcpuLabels, Executing, OpCtr, HeldDescriptors
<1> QED
  BY <1>1, <1>2, UnchangedType DEF TypeOK, OpCtr, regs, ram, cursors, queues, vcpu, rx, history

LEMMA OpSet_Type ==
  ASSUME TypeOK, HeldDescriptors, OpSet
  PROVE  TypeOK'
<1> vlink \in Links /\ Head(todo) \in Op /\ Tail(todo) \in Seq(Op)
  BY TodoType DEF OpSet, Executing
<1> Head(todo).num \in Byte
  BY DEF Op
<1>1. RegsType'
  BY DEF TypeOK, RegsType, OpSet
<1>2. VcpuType'
  BY DEF TypeOK, VcpuType, VcpuLabels, Executing, Op, OpSet, HeldDescriptors
<1> QED
  BY <1>1, <1>2, UnchangedType DEF TypeOK, OpSet, regs, ram, cursors, queues, vcpu, rx, history

LEMMA OpTimeLoad_Type ==
  ASSUME TypeOK, HeldDescriptors, OpTimeLoad
  PROVE  TypeOK'
<1>1. VcpuType'
  BY DEF TypeOK, VcpuType, VcpuLabels, Executing, RegsType, OpTimeLoad, HeldDescriptors
<1> QED
  BY <1>1, UnchangedType DEF TypeOK, OpTimeLoad, regs, ram, cursors, queues, vcpu, rx, history

LEMMA OpTickStore_Type ==
  ASSUME TypeOK, HeldDescriptors, OpTickStore
  PROVE  TypeOK'
<1> todo # <<>>
  BY DEF OpTickStore, HeldDescriptors
<1> vlink \in Links /\ Head(todo) \in Op /\ Tail(todo) \in Seq(Op)
  BY TodoType DEF OpTickStore
<1>1. RegsType'
  BY TickedTimeType DEF TypeOK, RegsType, VcpuType, OpTickStore
<1>2. VcpuType'
  BY DEF TypeOK, VcpuType, VcpuLabels, OpTickStore
<1> QED
  BY <1>1, <1>2, UnchangedType DEF TypeOK, OpTickStore, regs, ram, cursors, queues, vcpu, rx, history

LEMMA OpTimecode_Type ==
  ASSUME TypeOK, HeldDescriptors, OpTimecode
  PROVE  TypeOK'
<1> vlink \in Links /\ Head(todo) \in Op /\ Tail(todo) \in Seq(Op)
  BY TodoType DEF OpTimecode, HeldDescriptors
<1>1. QueuesType'
  <2> Packet(vlink, "time", vnum) \in Message
    BY PacketType DEF TypeOK, VcpuType
  <2> QED
    BY SimAssumption DEF TypeOK, QueuesType, OpTimecode
<1>2. VcpuType'
  BY DEF TypeOK, VcpuType, VcpuLabels, Executing, Packet, Message, RegsType, OpTimecode, HeldDescriptors
<1> QED
  BY <1>1, <1>2, UnchangedType DEF TypeOK, OpTimecode, regs, ram, cursors, queues, vcpu, rx, history

LEMMA TxEnable_Type ==
  ASSUME TypeOK, HeldDescriptors, TxEnable
  PROVE  TypeOK'
<1>1. VcpuType'
  BY DEF TypeOK, VcpuType, VcpuLabels, OpsDone, TxEnable, HeldDescriptors
<1> QED
  BY <1>1, UnchangedType DEF TypeOK, TxEnable, regs, ram, cursors, queues, vcpu, rx, history

LEMMA TxFetch_Type ==
  ASSUME TypeOK, HeldDescriptors, TxFetch
  PROVE  TypeOK'
<1>1. VcpuType'
  <2> vlink \in Links
    BY DEF TxFetch, HeldDescriptors
  <2> <<Rmw("chn", {"TE"}, {})>> \in Seq(Op)
    BY RmwType, FlagType
  <2> QED
    BY DEF TypeOK, VcpuType, VcpuLabels, CursorsType, TxFetch
<1> QED
  BY <1>1, UnchangedType DEF TypeOK, TxFetch, regs, ram, cursors, queues, vcpu, rx, history

LEMMA TxSend_Type ==
  ASSUME TypeOK, HeldDescriptors, TxSend
  PROVE  TypeOK'
<1> vlink \in Links
  BY DEF TxSend, HeldDescriptors
<1>1. QueuesType'
  <2> Packet(vlink, "data", 0) \in Message
    BY PacketType
  <2> QED
    BY SimAssumption DEF TypeOK, QueuesType, TxSend
<1>2. VcpuType'
  <2> <<Rmw("chn", {}, {"PS"})>> \in Seq(Op)
    BY RmwType, FlagType
  <2> QED
    BY DEF TypeOK, VcpuType, VcpuLabels, TxSend
<1>3. OtherType'
  BY RmwType DEF TypeOK, OtherType, Packet, Message, TxSend, HeldDescriptors, history
<1> QED
  BY <1>1, <1>2, <1>3, UnchangedType DEF TypeOK, TxSend, regs, ram, cursors, queues, vcpu, rx, history

LEMMA TxWait_Type ==
  ASSUME TypeOK, HeldDescriptors, TxWait
  PROVE  TypeOK'
<1>1. CursorsType'
  <2>1. vlink \in Links /\ vidx = txd_cur[vlink]
    BY DEF TxWait, OpsDone, HeldDescriptors, Sent
  <2>2. Successor(txd_cur[vlink], vidx = TxRing - 1, NbTxDescriptor) \in 0..(TxRing - 1)
    BY <2>1, SimAssumption, SuccessorInRing DEF TypeOK, CursorsType
  <2> QED
    BY <2>2 DEF TypeOK, CursorsType, TxWait
<1>2. VcpuType'
  BY SimAssumption, SuccessorInRing DEF TypeOK, VcpuType, VcpuLabels, OpsDone, TxWait, HeldDescriptors
<1>3. OtherType'
  BY SimAssumption, SuccessorInRing DEF TypeOK, OtherType, OpsDone, VcpuType, TxWait, HeldDescriptors, history
<1> QED
  BY <1>1, <1>2, <1>3, UnchangedType DEF TypeOK, TxWait, regs, ram, cursors, queues, vcpu, rx, history

LEMMA TxSpuriousWakeup_Type ==
  ASSUME TypeOK, HeldDescriptors, TxSpuriousWakeup
  PROVE  TypeOK'
<1>1. VcpuType'
  BY DEF TypeOK, VcpuType, VcpuLabels, TxSpuriousWakeup, HeldDescriptors
<1>2. OtherType'
  BY SimAssumption DEF TypeOK, OtherType, TxSpuriousWakeup
<1> QED
  BY <1>1, <1>2, UnchangedType DEF TypeOK, TxSpuriousWakeup, regs, ram, cursors, queues, vcpu, rx, history

LEMMA TxRelock_Type ==
  ASSUME TypeOK, HeldDescriptors, TxRelock
  PROVE  TypeOK'
<1>1. VcpuType'
  BY DEF TypeOK, VcpuType, VcpuLabels, TxRelock, HeldDescriptors
<1>2. OtherType'
  BY DEF TypeOK, OtherType, TxRelock, HeldDescriptors, history
<1> QED
  BY <1>1, <1>2, UnchangedType DEF TypeOK, TxRelock, regs, ram, cursors, queues, vcpu, rx, history

LEMMA TxFinish_Type ==
  ASSUME TypeOK, HeldDescriptors, TxFinish
  PROVE  TypeOK'
<1>1. RamType'
  BY DEF TypeOK, RamType, VcpuType, TxFinish, RxDescriptor, RxType, HeldDescriptors, Sent, Receiving
<1>2. VcpuType'
  BY DEF TypeOK, VcpuType, VcpuLabels, TxFinish, HeldDescriptors
<1> QED
  BY <1>1, <1>2, UnchangedType DEF TypeOK, TxFinish, regs, ram, cursors, queues, vcpu, rx, history

LEMMA TxStop_Type ==
  ASSUME TypeOK, HeldDescriptors, TxStop
  PROVE  TypeOK'
<1>1. VcpuType'
  BY DEF TypeOK, VcpuType, VcpuLabels, OpsDone, TxStop, HeldDescriptors
<1> QED
  BY <1>1, UnchangedType DEF TypeOK, TxStop, regs, ram, cursors, queues, vcpu, rx, history

LEMMA RxReceive_Type ==
  ASSUME TypeOK, HeldDescriptors, RxReceive
  PROVE  TypeOK'
<1> devq \in Seq(Message) /\ devq # <<>>
  BY DEF RxReceive, TypeOK, QueuesType
<1> Head(devq) \in Message /\ Tail(devq) \in Seq(Message) /\ Len(Tail(devq)) <= Len(devq)
  OBVIOUS
<1>1. QueuesType'
  BY SimAssumption DEF TypeOK, QueuesType, RxReceive
<1>2. RxType'
  <2> Head(devq).pword \in {"ack", "data", "time"}
    BY DEF Message
  <2> QED
    BY DEF TypeOK, RxType, RxLabels, RxReceive
<1> QED
  BY <1>1, <1>2, UnchangedType DEF TypeOK, RxReceive, regs, ram, cursors, queues, vcpu, rx, history

LEMMA RxSignal_Type ==
  ASSUME TypeOK, HeldDescriptors, RxSignal
  PROVE  TypeOK'
<1>1. VcpuType'
  BY DEF TypeOK, VcpuType, VcpuLabels, RxReturn, RxSignal, HeldDescriptors
<1>2. RxType'
  BY NoMessageType DEF TypeOK, RxType, RxLabels, RxReturn, RxSignal, NoMessage, Packet, Message, vars
<1> QED
  BY <1>1, <1>2, UnchangedType DEF TypeOK, RxSignal, regs, ram, cursors, queues, vcpu, rx, history

LEMMA RxLoad_Type ==
  ASSUME TypeOK, HeldDescriptors, RxLoad
  PROVE  TypeOK'
<1>1. RxType'
  <2> rbits' \in SUBSET Bits
    BY RmsgType DEF TypeOK, RegsType, RxLoad
  <2> QED
    BY DEF TypeOK, RxType, RxLabels, RxLoad
<1> QED
  BY <1>1, UnchangedType DEF TypeOK, RxLoad, regs, ram, cursors, queues, vcpu, rx, history

LEMMA RxStore_Type ==
  ASSUME TypeOK, HeldDescriptors, RxStore
  PROVE  TypeOK'
<1>1. RegsType'
  BY ModifyType DEF TypeOK, RegsType, RxReturn, RxType, RxStore
<1>2. RxType'
  BY ModifyType, NoMessageType DEF TypeOK, RxType, RxLabels, RxReturn, RxStore, NoMessage, Packet, Message, vars
<1> QED
  BY <1>1, <1>2, UnchangedType DEF TypeOK, RxStore, regs, ram, cursors, queues, vcpu, rx, history

LEMMA RxCheckEnabled_Type ==
  ASSUME TypeOK, HeldDescriptors, RxCheckEnabled
  PROVE  TypeOK'
<1>1. RxType'
  BY NoMessageType DEF TypeOK, RxType, RxLabels, RxCheck, RxReturn, RxCheckEnabled, NoMessage, Packet, Message, vars
<1> QED
  BY <1>1, UnchangedType DEF TypeOK, RxCheckEnabled, RxCheck, regs, ram, cursors, queues, vcpu, rx, history

LEMMA RxCheckAddress_Type ==
  ASSUME TypeOK, HeldDescriptors, RxCheckAddress
  PROVE  TypeOK'
<1>1. RxType'
  BY NoMessageType DEF TypeOK, RxType, RxLabels, RxCheck, RxReturn, RxCheckAddress, NoMessage, Packet, Message, vars
<1> QED
  BY <1>1, UnchangedType DEF TypeOK, RxCheckAddress, RxCheck, regs, ram, cursors, queues, vcpu, rx, history

LEMMA RxCheckAvailable_Type ==
  ASSUME TypeOK, HeldDescriptors, RxCheckAvailable
  PROVE  TypeOK'
<1>1. RxType'
  BY NoMessageType DEF TypeOK, RxType, RxLabels, RxCheck, RxReturn, RxCheckAvailable, NoMessage, Packet, Message, vars
<1> QED
  BY <1>1, UnchangedType DEF TypeOK, RxCheckAvailable, RxCheck, regs, ram, cursors, queues, vcpu, rx, history

LEMMA RxFetch_Type ==
  ASSUME TypeOK, HeldDescriptors, RxFetch
  PROVE  TypeOK'
<1>1. RxType'
  <2> /\ Rmw("chn", {"RD"}, {}) \in Op
      /\ Rmw("str", {}, {"EE"}) \in Op
    BY RmwType, FlagType
  <2> ridx' \in 0..(RxRing - 1)
    BY RmsgType DEF TypeOK, CursorsType, RxFetch
  <2> QED
    BY DEF TypeOK, RxType, RxLabels, RxModify, RxFetch
<1> QED
  BY <1>1, UnchangedType DEF TypeOK, RxFetch, regs, ram, cursors, queues, vcpu, rx, history

LEMMA RxCopy_Type ==
  ASSUME TypeOK, HeldDescriptors, RxCopy
  PROVE  TypeOK'
<1>1. RamType'
  BY RmsgType DEF TypeOK, RamType, RxCopy
<1>2. RxType'
  <2> Rmw("chn", {}, {"PR"}) \in Op
    BY RmwType, FlagType
  <2> QED
    BY DEF TypeOK, RxType, RxLabels, RxModify, RxCopy
<1>3. OtherType'
  BY RmsgType DEF TypeOK, OtherType, RxCopy
<1> QED
  BY <1>1, <1>2, <1>3, UnchangedType DEF TypeOK, RxCopy, regs, ram, cursors, queues, vcpu, rx, history

LEMMA RxGiveBack_Type ==
  ASSUME TypeOK, HeldDescriptors, RxGiveBack
  PROVE  TypeOK'
<1>1. RamType'
  <2> [en |-> FALSE, num |-> rmsg.num] \in RxDescriptor
    BY RmsgType DEF RxDescriptor
  <2> QED
    BY RmsgType DEF TypeOK, RamType, RxGiveBack
<1>2. CursorsType'
  <2>1. ridx = rxd_cur[rmsg.link]
    BY DEF RxGiveBack, HeldDescriptors, Receiving
  <2>2. Successor(rxd_cur[rmsg.link], ridx = RxRing - 1, NbRxDescriptor) \in 0..(RxRing - 1)
    BY <2>1, RmsgType, SimAssumption, SuccessorInRing DEF TypeOK, CursorsType
  <2> QED
    BY <2>2, RmsgType DEF TypeOK, CursorsType, RxGiveBack
<1>3. RxType'
  BY SimAssumption, SuccessorInRing, NoMessageType DEF TypeOK, RxType, RxLabels, RxReturn, RxGiveBack, NoMessage, Packet, Message, vars
<1> QED
  BY <1>1, <1>2, <1>3, UnchangedType DEF TypeOK, RxGiveBack, regs, ram, cursors, queues, vcpu, rx, history

LEMMA RxTimeCompare_Type ==
  ASSUME TypeOK, HeldDescriptors, RxTimeCompare
  PROVE  TypeOK'
<1>1. RxType'
  BY NoMessageType DEF TypeOK, RxType, RxLabels, RxCheck, RxReturn, RxTimeCompare, NoMessage, Packet, Message, vars
<1> QED
  BY <1>1, UnchangedType DEF TypeOK, RxTimeCompare, RxCheck, regs, ram, cursors, queues, vcpu, rx, history

LEMMA RxTimeStore_Type ==
  ASSUME TypeOK, HeldDescriptors, RxTimeStore
  PROVE  TypeOK'
<1>1. RegsType'
  BY RmwType DEF TypeOK, RegsType, RxModify, RxType, Message, RxTimeStore
<1>2. RxType'
  <2> Rmw("str", {}, {"TO"}) \in Op
    BY RmwType, FlagType
  <2> QED
    BY DEF TypeOK, RxType, RxLabels, RxModify, RxTimeStore
<1> QED
  BY <1>1, <1>2, UnchangedType DEF TypeOK, RxTimeStore, regs, ram, cursors, queues, vcpu, rx, history

LEMMA DevReceive_Type ==
  ASSUME TypeOK, HeldDescriptors, DevReceive
  PROVE  TypeOK'
<1> spwq \in Seq(Message) /\ spwq # <<>>
  BY DEF DevReceive, TypeOK, QueuesType
<1> Head(spwq) \in Message /\ Tail(spwq) \in Seq(Message) /\ Len(Tail(spwq)) <= Len(spwq)
  OBVIOUS
<1>1. QueuesType'
  BY SimAssumption DEF TypeOK, QueuesType, DevReceive
<1>2. OtherType'
  BY DEF TypeOK, OtherType, Message, DevReceive, history
<1> QED
  BY <1>1, <1>2, UnchangedType DEF TypeOK, DevReceive, regs, ram, cursors, queues, vcpu, rx, history

LEMMA DevAck_Type ==
  ASSUME TypeOK, HeldDescriptors, DevAck
  PROVE  TypeOK'
<1>1. QueuesType'
  <2> Packet(dev, "ack", 0) \in Message
    BY PacketType DEF TypeOK, OtherType, DevAck
  <2> QED
    BY SimAssumption DEF TypeOK, QueuesType, DevAck
<1>2. OtherType'
  BY DEF TypeOK, OtherType, Packet, Message, DevAck, HeldDescriptors, history
<1> QED
  BY <1>1, <1>2, UnchangedType DEF TypeOK, DevAck, regs, ram, cursors, queues, vcpu, rx, history

LEMMA DevSend_Type ==
  ASSUME TypeOK, HeldDescriptors, NEW m \in DevSends, DevSend(m)
  PROVE  TypeOK'
<1>1. QueuesType'
  BY SimAssumption DEF TypeOK, QueuesType, DevSend, vars
<1> QED
  BY <1>1, UnchangedType DEF TypeOK, DevSend, regs, ram, cursors, queues, vcpu, rx, history

LEMMA DevRestart_Type ==
  ASSUME TypeOK, HeldDescriptors, DevRestart
  PROVE  TypeOK'
<1>1. OtherType'
  BY DEF TypeOK, OtherType, DevRestart, history
<1> QED
  BY <1>1, UnchangedType DEF TypeOK, DevRestart, regs, ram, cursors, queues, vcpu, rx, history

(* The initial values of registers, RAM and threads. *)
LEMMA InitialValues ==
  /\ 0 \in 0..(TxRing - 1) /\ 0 \in 0..(RxRing - 1) /\ QMax \in Nat /\ MaxStrays \in Nat
  /\ {"RE", "LS"} \subseteq Bits
  /\ Rmw("chn", {}, {}) \in Op
<1>1. {"RE", "LS"} \subseteq Bits
  BY DEF Bits, CtrBits, CtrClearSet, CtrNotReset
<1>2. Rmw("chn", {}, {}) \in Op
  BY RmwType
<1> QED
  BY <1>1, <1>2, SimAssumption

LEMMA QemuRestart_Type ==
  ASSUME TypeOK, HeldDescriptors, QemuRestart
  PROVE  TypeOK'
<1>1. RegsType'
  BY InitialValues DEF QemuRestart, Each, RegsType
<1>2. RamType'
  BY DEF QemuRestart, Each, RamType, RxDescriptor
<1>3. CursorsType'
  BY InitialValues DEF QemuRestart, Each, CursorsType
<1>4. VcpuType'
  BY InitialValues DEF QemuRestart, VcpuType, VcpuLabels
<1>5. RxType'
  BY InitialValues, NoMessageType DEF QemuRestart, RxType, RxLabels
<1>6. OtherType'
  BY InitialValues DEF QemuRestart, Each, TypeOK, OtherType
<1> QED
  BY <1>1, <1>2, <1>3, <1>4, <1>5, <1>6, UnchangedType DEF TypeOK, QemuRestart

LEMMA TypeStep ==
  ASSUME TypeOK, HeldDescriptors, [Next]_vars
  PROVE  TypeOK'
<1>1. ASSUME NEW l \in Links, NEW i \in 0..(TxRing - 1), GuestArmTx(l, i)
      PROVE  TypeOK'
  BY <1>1, GuestArmTx_Type
<1>2. ASSUME NEW l \in Links, NEW i \in 0..(RxRing - 1), GuestArmRx(l, i)
      PROVE  TypeOK'
  BY <1>2, GuestArmRx_Type
<1>3. ASSUME NEW l \in Links, NEW w \in GuestWrites, GuestWrite(l, w)
      PROVE  TypeOK'
  BY <1>3, GuestWrite_Type
<1>4. CASE GuestRead
  BY <1>4, GuestRead_Type
<1>5. CASE ReadLocked
  BY <1>5, ReadLocked_Type
<1>6. CASE OpLoad
  BY <1>6, OpLoad_Type
<1>7. CASE OpStore
  BY <1>7, OpStore_Type
<1>8. CASE OpCtr
  BY <1>8, OpCtr_Type
<1>9. CASE OpSet
  BY <1>9, OpSet_Type
<1>10. CASE OpTimeLoad
  BY <1>10, OpTimeLoad_Type
<1>11. CASE OpTickStore
  BY <1>11, OpTickStore_Type
<1>12. CASE OpTimecode
  BY <1>12, OpTimecode_Type
<1>13. CASE TxEnable
  BY <1>13, TxEnable_Type
<1>14. CASE TxFetch
  BY <1>14, TxFetch_Type
<1>15. CASE TxSend
  BY <1>15, TxSend_Type
<1>16. CASE TxWait
  BY <1>16, TxWait_Type
<1>17. CASE TxSpuriousWakeup
  BY <1>17, TxSpuriousWakeup_Type
<1>18. CASE TxRelock
  BY <1>18, TxRelock_Type
<1>19. CASE TxFinish
  BY <1>19, TxFinish_Type
<1>20. CASE TxStop
  BY <1>20, TxStop_Type
<1>21. CASE RxReceive
  BY <1>21, RxReceive_Type
<1>22. CASE RxSignal
  BY <1>22, RxSignal_Type
<1>23. CASE RxLoad
  BY <1>23, RxLoad_Type
<1>24. CASE RxStore
  BY <1>24, RxStore_Type
<1>25. CASE RxCheckEnabled
  BY <1>25, RxCheckEnabled_Type
<1>26. CASE RxCheckAddress
  BY <1>26, RxCheckAddress_Type
<1>27. CASE RxCheckAvailable
  BY <1>27, RxCheckAvailable_Type
<1>28. CASE RxFetch
  BY <1>28, RxFetch_Type
<1>29. CASE RxCopy
  BY <1>29, RxCopy_Type
<1>30. CASE RxGiveBack
  BY <1>30, RxGiveBack_Type
<1>31. CASE RxTimeCompare
  BY <1>31, RxTimeCompare_Type
<1>32. CASE RxTimeStore
  BY <1>32, RxTimeStore_Type
<1>33. CASE DevReceive
  BY <1>33, DevReceive_Type
<1>34. CASE DevAck
  BY <1>34, DevAck_Type
<1>35. ASSUME NEW m \in DevSends, DevSend(m)
      PROVE  TypeOK'
  BY <1>35, DevSend_Type
<1>36. CASE UNCHANGED vars
  BY <1>36, UnchangedType DEF TypeOK, vars, history
<1>37. CASE DevRestart
  BY <1>37, DevRestart_Type
<1>38. CASE QemuRestart
  BY <1>38, QemuRestart_Type
<1> QED
  BY <1>1, <1>2, <1>3, <1>4, <1>5, <1>6, <1>7, <1>8, <1>9, <1>10, <1>11, <1>12, <1>13, <1>14, <1>15, <1>16, <1>17, <1>18, <1>19, <1>20, <1>21, <1>22, <1>23, <1>24, <1>25, <1>26, <1>27, <1>28, <1>29, <1>30, <1>31, <1>32, <1>33, <1>34, <1>35, <1>36, <1>37, <1>38 DEF Next, Guest, Handler, RxThread, Device, Faults

----------------------------------------------------------------------------
(* The descriptors the threads hold. *)
LEMMA RxReceiveLabel ==
  ASSUME TypeOK, RxReceive
  PROVE  /\ rpc' \in {"ack", "enabled", "time"}
         /\ rpc' = "ack" <=> devq[1].pword = "ack"
         /\ rmsg' = devq[1]
<1>1. devq \in Seq(Message) /\ devq # <<>>
  BY DEF RxReceive, TypeOK, QueuesType
<1>2. Head(devq) = devq[1] /\ Head(devq) \in Message
  BY <1>1
<1>3. Head(devq).pword \in {"ack", "data", "time"}
  BY <1>2 DEF Message
<1> QED
  BY <1>2, <1>3 DEF RxReceive

LEMMA HeldStep ==
  ASSUME TypeOK, HeldDescriptors, [Next]_vars
  PROVE  HeldDescriptors'
<1>1. ASSUME NEW l \in Links, NEW i \in 0..(TxRing - 1), GuestArmTx(l, i)
      PROVE  HeldDescriptors'
  BY <1>1 DEF HeldDescriptors, Sent, InFlight, Receiving, GuestArmTx, ram, cursors, vcpu, rx, TypeOK, RamType
<1>2. ASSUME NEW l \in Links, NEW i \in 0..(RxRing - 1), GuestArmRx(l, i)
      PROVE  HeldDescriptors'
  BY <1>2 DEF HeldDescriptors, Sent, InFlight, Receiving, GuestArmRx, ram, cursors, vcpu, rx, TypeOK, RamType
<1>3. ASSUME NEW l \in Links, NEW w \in GuestWrites, GuestWrite(l, w)
      PROVE  HeldDescriptors'
  BY <1>3 DEF HeldDescriptors, Sent, InFlight, Receiving, GuestWrite, ram, cursors, rx
<1>4. CASE GuestRead
  BY <1>4 DEF HeldDescriptors, Sent, InFlight, Receiving, GuestRead, ram, cursors, rx
<1>5. CASE ReadLocked
  BY <1>5 DEF HeldDescriptors, Sent, InFlight, Receiving, ReadLocked, ram, cursors, rx
<1>6. CASE OpLoad
  BY <1>6 DEF HeldDescriptors, Sent, InFlight, Receiving, OpLoad, Executing, ram, cursors, rx
<1>7. CASE OpStore
  BY <1>7 DEF HeldDescriptors, Sent, InFlight, Receiving, OpStore, ram, cursors, rx
<1>8. CASE OpCtr
  BY <1>8 DEF HeldDescriptors, Sent, InFlight, Receiving, OpCtr, Executing, ram, cursors, rx
<1>9. CASE OpSet
  BY <1>9 DEF HeldDescriptors, Sent, InFlight, Receiving, OpSet, Executing, ram, cursors, rx
<1>10. CASE OpTimeLoad
  BY <1>10 DEF HeldDescriptors, Sent, InFlight, Receiving, OpTimeLoad, Executing, ram, cursors, rx
<1>11. CASE OpTickStore
  BY <1>11 DEF HeldDescriptors, Sent, InFlight, Receiving, OpTickStore, ram, cursors, rx
<1>12. CASE OpTimecode
  BY <1>12 DEF HeldDescriptors, Sent, InFlight, Receiving, OpTimecode, Executing, ram, cursors, rx
<1>13. CASE TxEnable
  BY <1>13 DEF HeldDescriptors, Sent, InFlight, Receiving, TxEnable, OpsDone, ram, cursors, rx
<1>14. CASE TxFetch
  BY <1>14 DEF HeldDescriptors, Sent, InFlight, Receiving, TxFetch, ram, cursors, rx
<1>15. CASE TxSend
  BY <1>15 DEF HeldDescriptors, Sent, InFlight, Receiving, TxSend, ram, cursors, rx
<1>16. CASE TxWait
  BY <1>16 DEF HeldDescriptors, Sent, InFlight, Receiving, TxWait, OpsDone, ram, cursors, rx
<1>17. CASE TxSpuriousWakeup
  BY <1>17 DEF HeldDescriptors, Sent, InFlight, Receiving, TxSpuriousWakeup, ram, cursors, rx
<1>18. CASE TxRelock
  BY <1>18 DEF HeldDescriptors, Sent, InFlight, Receiving, TxRelock, ram, cursors, rx
<1>19. CASE TxFinish
  BY <1>19 DEF HeldDescriptors, Sent, InFlight, Receiving, TxFinish, ram, cursors, rx, TypeOK, RamType
<1>20. CASE TxStop
  BY <1>20 DEF HeldDescriptors, Sent, InFlight, Receiving, TxStop, OpsDone, ram, cursors, rx
<1>21. CASE RxReceive
  <2>1. rpc' \in {"ack", "enabled", "time"}
    BY <1>21, RxReceiveLabel
  <2> QED
    BY <1>21, <2>1 DEF HeldDescriptors, Sent, InFlight, Receiving, RxReceive, ram, cursors, vcpu
<1>22. CASE RxSignal
  BY <1>22 DEF HeldDescriptors, Sent, InFlight, Receiving, RxSignal, RxReturn, ram, cursors
<1>23. CASE RxLoad
  BY <1>23 DEF HeldDescriptors, Sent, InFlight, Receiving, RxLoad, ram, cursors, vcpu
<1>24. CASE RxStore
  BY <1>24 DEF HeldDescriptors, Sent, InFlight, Receiving, RxStore, RxReturn, ram, cursors, vcpu, TypeOK, RxType
<1>25. CASE RxCheckEnabled
  BY <1>25 DEF HeldDescriptors, Sent, InFlight, Receiving, RxCheckEnabled, RxCheck, RxReturn, ram, cursors, vcpu
<1>26. CASE RxCheckAddress
  BY <1>26 DEF HeldDescriptors, Sent, InFlight, Receiving, RxCheckAddress, RxCheck, RxReturn, ram, cursors, vcpu
<1>27. CASE RxCheckAvailable
  BY <1>27 DEF HeldDescriptors, Sent, InFlight, Receiving, RxCheckAvailable, RxCheck, RxReturn, ram, cursors, vcpu
<1>28. CASE RxFetch
  BY <1>28 DEF HeldDescriptors, Sent, InFlight, Receiving, RxFetch, RxModify, ram, cursors, vcpu
<1>29. CASE RxCopy
  BY <1>29, RmsgType DEF HeldDescriptors, Sent, InFlight, Receiving, RxCopy, RxModify, ram, cursors, vcpu
<1>30. CASE RxGiveBack
  BY <1>30, RmsgType DEF HeldDescriptors, Sent, InFlight, Receiving, RxGiveBack, RxReturn, ram, cursors, vcpu, TypeOK, RamType
<1>31. CASE RxTimeCompare
  BY <1>31 DEF HeldDescriptors, Sent, InFlight, Receiving, RxTimeCompare, RxCheck, RxReturn, ram, cursors, vcpu
<1>32. CASE RxTimeStore
  BY <1>32 DEF HeldDescriptors, Sent, InFlight, Receiving, RxTimeStore, RxModify, ram, cursors, vcpu
<1>33. CASE DevReceive
  BY <1>33 DEF HeldDescriptors, Sent, InFlight, Receiving, DevReceive, ram, cursors, vcpu, rx
<1>34. CASE DevAck
  BY <1>34 DEF HeldDescriptors, Sent, InFlight, Receiving, DevAck, ram, cursors, vcpu, rx
<1>35. ASSUME NEW m \in DevSends, DevSend(m)
      PROVE  HeldDescriptors'
  BY <1>35 DEF HeldDescriptors, Sent, InFlight, Receiving, DevSend, ram, cursors, vcpu, rx
<1>36. CASE UNCHANGED vars
  BY <1>36 DEF HeldDescriptors, Sent, InFlight, Receiving, ram, cursors, vcpu, rx, vars
<1>37. CASE DevRestart
  BY <1>37 DEF HeldDescriptors, Sent, InFlight, Receiving, DevRestart, ram, cursors, vcpu, rx
<1>38. CASE QemuRestart
  BY <1>38 DEF HeldDescriptors, Sent, InFlight, Receiving, QemuRestart
<1> QED
  BY <1>1, <1>2, <1>3, <1>4, <1>5, <1>6, <1>7, <1>8, <1>9, <1>10, <1>11, <1>12, <1>13, <1>14, <1>15, <1>16, <1>17, <1>18, <1>19, <1>20, <1>21, <1>22, <1>23, <1>24, <1>25, <1>26, <1>27, <1>28, <1>29, <1>30, <1>31, <1>32, <1>33, <1>34, <1>35, <1>36, <1>37, <1>38 DEF Next, Guest, Handler, RxThread, Device, Faults

----------------------------------------------------------------------------
(* Stop and wait. *)
LEMMA RxReceiveAck ==
  ASSUME TypeOK, AckHandshake, RxReceive
  PROVE  AckHandshake'
<1>1. devq \in Seq(Message) /\ devq # <<>> /\ Len(devq) <= QMax /\ QMax \in Nat
  BY SimAssumption DEF RxReceive, TypeOK, QueuesType
<1>2. Head(devq) = devq[1] /\ Len(devq') = Len(devq) - 1 /\ Len(devq) \in Nat \ {0}
  BY <1>1 DEF RxReceive
<1>3. \A i \in 1..Len(devq') : devq'[i] = devq[i + 1] /\ i + 1 \in 1..Len(devq)
  BY <1>1, <1>2 DEF RxReceive
<1>4. \A i \in 1..QMax : AckAt(i)' => i + 1 \in 1..QMax /\ AckAt(i + 1)
  BY <1>1, <1>2, <1>3 DEF AckAt
<1>5. \A i \in 1..QMax : DataAt(i)' = DataAt(i)
  BY DEF DataAt, RxReceive, queues
<1>6. rpc' = "ack" => AckAt(1) /\ rmsg'.link = devq[1].link
  BY <1>1, <1>2, RxReceiveLabel DEF AckAt
<1>7. 1 \in 1..QMax
  BY SimAssumption
<1>8. InFlight' = InFlight /\ dev' = dev /\ vlink' = vlink /\ rpc # "ack" /\ spwq' = spwq
  BY DEF RxReceive, InFlight, Sent, vcpu
<1>9. \A i, j \in 1..QMax : AckAt(i)' /\ AckAt(j)' => i = j
  BY <1>4 DEF AckHandshake
<1>10. \A i \in 1..QMax : AckAt(i)' => devq'[i].link = vlink'
  BY <1>3, <1>4, <1>8 DEF AckHandshake, AckAt
<1>11. rpc' = "ack" => \A i \in 1..QMax : ~AckAt(i)' /\ ~DataAt(i)'
  BY <1>4, <1>5, <1>6, <1>7 DEF AckHandshake
<1>12. rpc' = "ack" => dev = NoLink /\ InFlight /\ rmsg'.link = vlink
  BY <1>6, <1>7 DEF AckHandshake
<1> QED
  BY <1>4, <1>5, <1>8, <1>9, <1>10, <1>11, <1>12 DEF AckHandshake

LEMMA AckStep ==
  ASSUME MaxStrays = 0, TypeOK, HeldDescriptors, AckHandshake, [Next]_vars
  PROVE  AckHandshake'
<1>1. ASSUME NEW l \in Links, NEW i \in 0..(TxRing - 1), GuestArmTx(l, i)
      PROVE  AckHandshake'
  BY <1>1 DEF AckHandshake, DataAt, AckAt, Sent, InFlight, GuestArmTx, queues, vcpu, rx
<1>2. ASSUME NEW l \in Links, NEW i \in 0..(RxRing - 1), GuestArmRx(l, i)
      PROVE  AckHandshake'
  BY <1>2 DEF AckHandshake, DataAt, AckAt, Sent, InFlight, GuestArmRx, queues, vcpu, rx
<1>3. ASSUME NEW l \in Links, NEW w \in GuestWrites, GuestWrite(l, w)
      PROVE  AckHandshake'
  BY <1>3 DEF AckHandshake, DataAt, AckAt, Sent, InFlight, GuestWrite, queues, rx
<1>4. CASE GuestRead
  BY <1>4 DEF AckHandshake, DataAt, AckAt, Sent, InFlight, GuestRead, queues, rx
<1>5. CASE ReadLocked
  BY <1>5 DEF AckHandshake, DataAt, AckAt, Sent, InFlight, ReadLocked, queues, rx
<1>6. CASE OpLoad
  BY <1>6 DEF AckHandshake, DataAt, AckAt, Sent, InFlight, OpLoad, Executing, queues, rx
<1>7. CASE OpStore
  BY <1>7 DEF AckHandshake, DataAt, AckAt, Sent, InFlight, OpStore, queues, rx
<1>8. CASE OpCtr
  BY <1>8 DEF AckHandshake, DataAt, AckAt, Sent, InFlight, OpCtr, Executing, queues, rx
<1>9. CASE OpSet
  BY <1>9 DEF AckHandshake, DataAt, AckAt, Sent, InFlight, OpSet, Executing, queues, rx
<1>10. CASE OpTimeLoad
  BY <1>10 DEF AckHandshake, DataAt, AckAt, Sent, InFlight, OpTimeLoad, Executing, queues, rx
<1>11. CASE OpTickStore
  BY <1>11 DEF AckHandshake, DataAt, AckAt, Sent, InFlight, OpTickStore, queues, rx
<1>12. CASE OpTimecode
  BY <1>12, SimAssumption DEF AckHandshake, DataAt, AckAt, Sent, InFlight, OpTimecode, Executing, queues, rx, TypeOK, QueuesType, Packet
<1>13. CASE TxEnable
  BY <1>13 DEF AckHandshake, DataAt, AckAt, Sent, InFlight, TxEnable, OpsDone, queues, rx
<1>14. CASE TxFetch
  BY <1>14 DEF AckHandshake, DataAt, AckAt, Sent, InFlight, TxFetch, queues, rx
<1>15. CASE TxSend
  BY <1>15, SimAssumption DEF AckHandshake, DataAt, AckAt, Sent, InFlight, TxSend, queues, rx, TypeOK, QueuesType, Packet
<1>16. CASE TxWait
  BY <1>16 DEF AckHandshake, DataAt, AckAt, Sent, InFlight, TxWait, OpsDone, queues, rx
<1>17. CASE TxSpuriousWakeup
  BY <1>17, SimAssumption DEF TxSpuriousWakeup, TypeOK, OtherType
<1>18. CASE TxRelock
  BY <1>18 DEF AckHandshake, DataAt, AckAt, Sent, InFlight, TxRelock, queues, rx
<1>19. CASE TxFinish
  BY <1>19 DEF AckHandshake, DataAt, AckAt, Sent, InFlight, TxFinish, queues, rx
<1>20. CASE TxStop
  BY <1>20 DEF AckHandshake, DataAt, AckAt, Sent, InFlight, TxStop, OpsDone, queues, rx
<1>21. CASE RxReceive
  BY <1>21, RxReceiveAck
<1>22. CASE RxSignal
  BY <1>22 DEF AckHandshake, DataAt, AckAt, Sent, InFlight, RxSignal, RxReturn, queues
<1>23. CASE RxLoad
  BY <1>23 DEF AckHandshake, DataAt, AckAt, Sent, InFlight, RxLoad, queues, vcpu
<1>24. CASE RxStore
  BY <1>24 DEF AckHandshake, DataAt, AckAt, Sent, InFlight, RxStore, RxReturn, queues, vcpu, TypeOK, RxType
<1>25. CASE RxCheckEnabled
  BY <1>25 DEF AckHandshake, DataAt, AckAt, Sent, InFlight, RxCheckEnabled, RxCheck, RxReturn, queues, vcpu
<1>26. CASE RxCheckAddress
  BY <1>26 DEF AckHandshake, DataAt, AckAt, Sent, InFlight, RxCheckAddress, RxCheck, RxReturn, queues, vcpu
<1>27. CASE RxCheckAvailable
  BY <1>27 DEF AckHandshake, DataAt, AckAt, Sent, InFlight, RxCheckAvailable, RxCheck, RxReturn, queues, vcpu
<1>28. CASE RxFetch
  BY <1>28 DEF AckHandshake, DataAt, AckAt, Sent, InFlight, RxFetch, RxModify, queues, vcpu
<1>29. CASE RxCopy
  BY <1>29 DEF AckHandshake, DataAt, AckAt, Sent, InFlight, RxCopy, RxModify, queues, vcpu
<1>30. CASE RxGiveBack
  BY <1>30 DEF AckHandshake, DataAt, AckAt, Sent, InFlight, RxGiveBack, RxReturn, queues, vcpu
<1>31. CASE RxTimeCompare
  <2>1. rpc # "ack" /\ rpc' # "ack"
    BY <1>31 DEF RxTimeCompare, RxCheck, RxReturn
  <2> QED
    BY <1>31, <2>1 DEF AckHandshake, DataAt, AckAt, Sent, InFlight, RxTimeCompare, RxCheck, queues, vcpu
<1>32. CASE RxTimeStore
  BY <1>32 DEF AckHandshake, DataAt, AckAt, Sent, InFlight, RxTimeStore, RxModify, queues, vcpu
<1>33. CASE DevReceive
  BY <1>33, SimAssumption DEF AckHandshake, DataAt, AckAt, Sent, InFlight, DevReceive, queues, vcpu, rx, TypeOK, QueuesType, Message
<1>34. CASE DevAck
  BY <1>34, SimAssumption DEF AckHandshake, DataAt, AckAt, Sent, InFlight, DevAck, queues, vcpu, rx, TypeOK, QueuesType, Packet
<1>35. ASSUME NEW m \in DevSends, DevSend(m)
      PROVE  AckHandshake'
  BY <1>35, SimAssumption DEF AckHandshake, DataAt, AckAt, Sent, InFlight, DevSend, queues, vcpu, rx, TypeOK, QueuesType
<1>36. CASE UNCHANGED vars
  BY <1>36 DEF AckHandshake, DataAt, AckAt, Sent, InFlight, queues, vcpu, rx, vars
<1>37. CASE DevRestart
  BY <1>37 DEF AckHandshake, DataAt, AckAt, Sent, InFlight, DevRestart, queues, vcpu, rx
<1>38. CASE QemuRestart
  BY <1>38, SimAssumption DEF QemuRestart, TypeOK, OtherType
<1> QED
  BY <1>1, <1>2, <1>3, <1>4, <1>5, <1>6, <1>7, <1>8, <1>9, <1>10, <1>11, <1>12, <1>13, <1>14, <1>15, <1>16, <1>17, <1>18, <1>19, <1>20, <1>21, <1>22, <1>23, <1>24, <1>25, <1>26, <1>27, <1>28, <1>29, <1>30, <1>31, <1>32, <1>33, <1>34, <1>35, <1>36, <1>37, <1>38 DEF Next, Guest, Handler, RxThread, Device, Faults

----------------------------------------------------------------------------
(* Receive buffers. *)
LEMMA FilledStep ==
  ASSUME TypeOK, HeldDescriptors, BufferFilled, [Next]_vars
  PROVE  BufferFilled'
<1>1. ASSUME NEW l \in Links, NEW i \in 0..(TxRing - 1), GuestArmTx(l, i)
      PROVE  BufferFilled'
  BY <1>1 DEF BufferFilled, RxUsed, GuestArmTx, ram, rx
<1>2. ASSUME NEW l \in Links, NEW i \in 0..(RxRing - 1), GuestArmRx(l, i)
      PROVE  BufferFilled'
  BY <1>2 DEF BufferFilled, RxUsed, GuestArmRx, ram, rx
<1>3. ASSUME NEW l \in Links, NEW w \in GuestWrites, GuestWrite(l, w)
      PROVE  BufferFilled'
  BY <1>3 DEF BufferFilled, RxUsed, GuestWrite, ram, rx
<1>4. CASE GuestRead
  BY <1>4 DEF BufferFilled, RxUsed, GuestRead, ram, rx
<1>5. CASE ReadLocked
  BY <1>5 DEF BufferFilled, RxUsed, ReadLocked, ram, rx
<1>6. CASE OpLoad
  BY <1>6 DEF BufferFilled, RxUsed, OpLoad, Executing, ram, rx
<1>7. CASE OpStore
  BY <1>7 DEF BufferFilled, RxUsed, OpStore, ram, rx
<1>8. CASE OpCtr
  BY <1>8 DEF BufferFilled, RxUsed, OpCtr, Executing, ram, rx
<1>9. CASE OpSet
  BY <1>9 DEF BufferFilled, RxUsed, OpSet, Executing, ram, rx
<1>10. CASE OpTimeLoad
  BY <1>10 DEF BufferFilled, RxUsed, OpTimeLoad, Executing, ram, rx
<1>11. CASE OpTickStore
  BY <1>11 DEF BufferFilled, RxUsed, OpTickStore, ram, rx
<1>12. CASE OpTimecode
  BY <1>12 DEF BufferFilled, RxUsed, OpTimecode, Executing, ram, rx
<1>13. CASE TxEnable
  BY <1>13 DEF BufferFilled, RxUsed, TxEnable, OpsDone, ram, rx
<1>14. CASE TxFetch
  BY <1>14 DEF BufferFilled, RxUsed, TxFetch, ram, rx
<1>15. CASE TxSend
  BY <1>15 DEF BufferFilled, RxUsed, TxSend, ram, rx
<1>16. CASE TxWait
  BY <1>16 DEF BufferFilled, RxUsed, TxWait, OpsDone, ram, rx
<1>17. CASE TxSpuriousWakeup
  BY <1>17 DEF BufferFilled, RxUsed, TxSpuriousWakeup, ram, rx
<1>18. CASE TxRelock
  BY <1>18 DEF BufferFilled, RxUsed, TxRelock, ram, rx
<1>19. CASE TxFinish
  BY <1>19 DEF BufferFilled, RxUsed, TxFinish, ram, rx
<1>20. CASE TxStop
  BY <1>20 DEF BufferFilled, RxUsed, TxStop, OpsDone, ram, rx
<1>21. CASE RxReceive
  <2>1. rpc' \in {"ack", "enabled", "time"}
    BY <1>21, RxReceiveLabel
  <2> QED
    BY <2>1 DEF BufferFilled, RxUsed
<1>22. CASE RxSignal
  BY <1>22 DEF BufferFilled, RxUsed, RxSignal, RxReturn, ram
<1>23. CASE RxLoad
  BY <1>23 DEF BufferFilled, RxUsed, RxLoad, ram
<1>24. CASE RxStore
  BY <1>24 DEF BufferFilled, RxUsed, RxStore, RxReturn, ram
<1>25. CASE RxCheckEnabled
  BY <1>25 DEF BufferFilled, RxUsed, RxCheckEnabled, RxCheck, RxReturn, ram
<1>26. CASE RxCheckAddress
  BY <1>26 DEF BufferFilled, RxUsed, RxCheckAddress, RxCheck, RxReturn, ram
<1>27. CASE RxCheckAvailable
  BY <1>27 DEF BufferFilled, RxUsed, RxCheckAvailable, RxCheck, RxReturn, ram
<1>28. CASE RxFetch
  BY <1>28 DEF BufferFilled, RxUsed, RxFetch, RxModify, ram
<1>29. CASE RxCopy
  BY <1>29, RmsgType DEF BufferFilled, RxUsed, RxCopy, RxModify, ram, TypeOK, RamType
<1>30. CASE RxGiveBack
  BY <1>30 DEF BufferFilled, RxUsed, RxGiveBack, RxReturn, ram
<1>31. CASE RxTimeCompare
  BY <1>31 DEF BufferFilled, RxUsed, RxTimeCompare, RxCheck, RxReturn, ram
<1>32. CASE RxTimeStore
  BY <1>32 DEF BufferFilled, RxUsed, RxTimeStore, RxModify, ram
<1>33. CASE DevReceive
  BY <1>33 DEF BufferFilled, RxUsed, DevReceive, ram, rx
<1>34. CASE DevAck
  BY <1>34 DEF BufferFilled, RxUsed, DevAck, ram, rx
<1>35. ASSUME NEW m \in DevSends, DevSend(m)
      PROVE  BufferFilled'
  BY <1>35 DEF BufferFilled, RxUsed, DevSend, ram, rx
<1>36. CASE UNCHANGED vars
  BY <1>36 DEF BufferFilled, RxUsed, ram, rx, vars
<1>37. CASE DevRestart
  BY <1>37 DEF BufferFilled, RxUsed, DevRestart, ram, rx
<1>38. CASE QemuRestart
  BY <1>38 DEF BufferFilled, RxUsed, QemuRestart
<1> QED
  BY <1>1, <1>2, <1>3, <1>4, <1>5, <1>6, <1>7, <1>8, <1>9, <1>10, <1>11, <1>12, <1>13, <1>14, <1>15, <1>16, <1>17, <1>18, <1>19, <1>20, <1>21, <1>22, <1>23, <1>24, <1>25, <1>26, <1>27, <1>28, <1>29, <1>30, <1>31, <1>32, <1>33, <1>34, <1>35, <1>36, <1>37, <1>38 DEF Next, Guest, Handler, RxThread, Device, Faults

LEMMA BufferStep ==
  ASSUME TypeOK, HeldDescriptors, BufferFilled, RxBufferComplete, [Next]_vars
  PROVE  RxBufferComplete'
<1>1. ASSUME NEW l \in Links, NEW i \in 0..(TxRing - 1), GuestArmTx(l, i)
      PROVE  RxBufferComplete'
  BY <1>1 DEF RxBufferComplete, GuestArmTx, ram
<1>2. ASSUME NEW l \in Links, NEW i \in 0..(RxRing - 1), GuestArmRx(l, i)
      PROVE  RxBufferComplete'
  BY <1>2 DEF RxBufferComplete, GuestArmRx, ram, TypeOK, RamType
<1>3. ASSUME NEW l \in Links, NEW w \in GuestWrites, GuestWrite(l, w)
      PROVE  RxBufferComplete'
  BY <1>3 DEF RxBufferComplete, GuestWrite, ram
<1>4. CASE GuestRead
  BY <1>4 DEF RxBufferComplete, GuestRead, ram
<1>5. CASE ReadLocked
  BY <1>5 DEF RxBufferComplete, ReadLocked, ram
<1>6. CASE OpLoad
  BY <1>6 DEF RxBufferComplete, OpLoad, Executing, ram
<1>7. CASE OpStore
  BY <1>7 DEF RxBufferComplete, OpStore, ram
<1>8. CASE OpCtr
  BY <1>8 DEF RxBufferComplete, OpCtr, Executing, ram
<1>9. CASE OpSet
  BY <1>9 DEF RxBufferComplete, OpSet, Executing, ram
<1>10. CASE OpTimeLoad
  BY <1>10 DEF RxBufferComplete, OpTimeLoad, Executing, ram
<1>11. CASE OpTickStore
  BY <1>11 DEF RxBufferComplete, OpTickStore, ram
<1>12. CASE OpTimecode
  BY <1>12 DEF RxBufferComplete, OpTimecode, Executing, ram
<1>13. CASE TxEnable
  BY <1>13 DEF RxBufferComplete, TxEnable, OpsDone, ram
<1>14. CASE TxFetch
  BY <1>14 DEF RxBufferComplete, TxFetch, ram
<1>15. CASE TxSend
  BY <1>15 DEF RxBufferComplete, TxSend, ram
<1>16. CASE TxWait
  BY <1>16 DEF RxBufferComplete, TxWait, OpsDone, ram
<1>17. CASE TxSpuriousWakeup
  BY <1>17 DEF RxBufferComplete, TxSpuriousWakeup, ram
<1>18. CASE TxRelock
  BY <1>18 DEF RxBufferComplete, TxRelock, ram
<1>19. CASE TxFinish
  BY <1>19 DEF RxBufferComplete, TxFinish, ram
<1>20. CASE TxStop
  BY <1>20 DEF RxBufferComplete, TxStop, OpsDone, ram
<1>21. CASE RxReceive
  BY <1>21 DEF RxBufferComplete, RxReceive, ram
<1>22. CASE RxSignal
  BY <1>22 DEF RxBufferComplete, RxSignal, RxReturn, ram
<1>23. CASE RxLoad
  BY <1>23 DEF RxBufferComplete, RxLoad, ram
<1>24. CASE RxStore
  BY <1>24 DEF RxBufferComplete, RxStore, RxReturn, ram
<1>25. CASE RxCheckEnabled
  BY <1>25 DEF RxBufferComplete, RxCheckEnabled, RxCheck, RxReturn, ram
<1>26. CASE RxCheckAddress
  BY <1>26 DEF RxBufferComplete, RxCheckAddress, RxCheck, RxReturn, ram
<1>27. CASE RxCheckAvailable
  BY <1>27 DEF RxBufferComplete, RxCheckAvailable, RxCheck, RxReturn, ram
<1>28. CASE RxFetch
  BY <1>28 DEF RxBufferComplete, RxFetch, RxModify, ram
<1>29. CASE RxCopy
  BY <1>29, RmsgType DEF RxBufferComplete, RxCopy, RxModify, ram, TypeOK, RamType, HeldDescriptors, Receiving
<1>30. CASE RxGiveBack
  BY <1>30, RmsgType DEF RxBufferComplete, RxGiveBack, RxReturn, ram, TypeOK, RamType, BufferFilled, RxUsed
<1>31. CASE RxTimeCompare
  BY <1>31 DEF RxBufferComplete, RxTimeCompare, RxCheck, RxReturn, ram
<1>32. CASE RxTimeStore
  BY <1>32 DEF RxBufferComplete, RxTimeStore, RxModify, ram
<1>33. CASE DevReceive
  BY <1>33 DEF RxBufferComplete, DevReceive, ram
<1>34. CASE DevAck
  BY <1>34 DEF RxBufferComplete, DevAck, ram
<1>35. ASSUME NEW m \in DevSends, DevSend(m)
      PROVE  RxBufferComplete'
  BY <1>35 DEF RxBufferComplete, DevSend, ram
<1>36. CASE UNCHANGED vars
  BY <1>36 DEF RxBufferComplete, ram, vars
<1>37. CASE DevRestart
  BY <1>37 DEF RxBufferComplete, DevRestart, ram
<1>38. CASE QemuRestart
  BY <1>38 DEF RxBufferComplete, QemuRestart, Each
<1> QED
  BY <1>1, <1>2, <1>3, <1>4, <1>5, <1>6, <1>7, <1>8, <1>9, <1>10, <1>11, <1>12, <1>13, <1>14, <1>15, <1>16, <1>17, <1>18, <1>19, <1>20, <1>21, <1>22, <1>23, <1>24, <1>25, <1>26, <1>27, <1>28, <1>29, <1>30, <1>31, <1>32, <1>33, <1>34, <1>35, <1>36, <1>37, <1>38 DEF Next, Guest, Handler, RxThread, Device, Faults

----------------------------------------------------------------------------
(* The initial state. *)
LEMMA InitInv ==
  ASSUME Init
  PROVE  TypeOK /\ HeldDescriptors /\ AckHandshake /\ BufferFilled /\ RxBufferComplete
<1>2. RegsType
  BY InitialValues DEF Init, Each, RegsType
<1>3. RamType
  BY DEF Init, Each, RamType, RxDescriptor
<1>4. CursorsType
  BY InitialValues DEF Init, Each, CursorsType
<1>5. QueuesType
  BY InitialValues DEF Init, QueuesType
<1>6. VcpuType
  BY InitialValues DEF Init, VcpuType, VcpuLabels
<1>7. RxType
  BY InitialValues, NoMessageType DEF Init, RxType, RxLabels
<1>8. OtherType
  BY InitialValues DEF Init, Each, OtherType
<1>9. HeldDescriptors
  BY DEF Init, HeldDescriptors, Sent, InFlight, Receiving
<1>10. AckHandshake
  BY DEF Init, AckHandshake, DataAt, AckAt
<1>11. BufferFilled /\ RxBufferComplete
  BY DEF Init, Each, BufferFilled, RxUsed, RxBufferComplete
<1> QED
  BY <1>2, <1>3, <1>4, <1>5, <1>6, <1>7, <1>8, <1>9, <1>10, <1>11 DEF TypeOK

----------------------------------------------------------------------------
(* The cursors stay in the driver's rings and the queues within            *)
(* mq_maxmsg, and every thread's descriptor is the current one of its link *)
(* until the thread gives it back.                                         *)
THEOREM TypeCorrect == Spec => [](TypeOK /\ HeldDescriptors)
<1>1. Init => TypeOK /\ HeldDescriptors
  BY InitInv
<1>2. TypeOK /\ HeldDescriptors /\ [Next]_vars => (TypeOK /\ HeldDescriptors)'
  BY TypeStep, HeldStep
<1> QED
  BY <1>1, <1>2, PTL DEF Spec

(* A descriptor a thread has fetched stays enabled, and the current one of *)
(* its link, until that thread gives it back: the other thread and the     *)
(* guest, which both run meanwhile, never take it away.                    *)
THEOREM DescriptorsHeld == Spec => []HeldDescriptors
<1> QED
  BY TypeCorrect, PTL

(* A wait that only a signal ends is ended by the ack of the very packet   *)
(* it follows: one message of the handshake at most is on its way, and     *)
(* none while the guest runs.                                              *)
THEOREM StopAndWait ==
  ASSUME MaxStrays = 0
  PROVE  Spec => []AckHandshake
<1>1. Init => AckHandshake
  BY InitInv
<1>2. TypeOK /\ HeldDescriptors /\ AckHandshake /\ [Next]_vars => AckHandshake'
  BY AckStep
<1> QED
  BY <1>1, <1>2, TypeCorrect, PTL DEF Spec

(* Whatever the guest does meanwhile, a receive descriptor the guest owns  *)
(* describes the contents of its buffer.                                   *)
THEOREM BuffersComplete == Spec => []RxBufferComplete
<1>1. Init => BufferFilled /\ RxBufferComplete
  BY InitInv
<1>2. /\ TypeOK /\ HeldDescriptors /\ BufferFilled /\ RxBufferComplete
      /\ [Next]_vars
      => (BufferFilled /\ RxBufferComplete)'
  BY FilledStep, BufferStep
<1> QED
  BY <1>1, <1>2, TypeCorrect, PTL DEF Spec




----------------------------------------------------------------------------
(* Refinement. *)
LEMMA SameToken ==
  ASSUME UNCHANGED <<queues, dev>>, (rpc' = "ack") <=> (rpc = "ack"),
         InFlight' <=> InFlight, InFlight => vlink' = vlink
  PROVE  UNCHANGED <<Busy, Token>>
<1>1. PacketQueued' <=> PacketQueued
  BY DEF PacketQueued, DataAt, queues
<1>2. AckQueued' <=> AckQueued
  BY DEF AckQueued, AckAt, queues
<1> QED
  BY <1>1, <1>2 DEF Busy, Token

(* The token is in one place at most, and in none unless a packet is in    *)
(* flight.                                                                 *)
LEMMA OneToken ==
  ASSUME TypeOK, AckHandshake
  PROVE  /\ PacketQueued => InFlight /\ dev = NoLink /\ rpc # "ack" /\ ~AckQueued
         /\ dev # NoLink => InFlight /\ dev = vlink /\ rpc # "ack" /\ ~AckQueued
         /\ rpc = "ack" => InFlight /\ ~AckQueued
         /\ AckQueued => InFlight
<1>1. Len(spwq) \in Nat /\ Len(spwq) <= QMax /\ Len(devq) \in Nat /\ Len(devq) <= QMax /\ QMax \in Nat
  BY SimAssumption DEF TypeOK, QueuesType
<1>2. 1..Len(spwq) \subseteq 1..QMax /\ 1..Len(devq) \subseteq 1..QMax
  BY <1>1
<1> QED
  BY <1>2 DEF AckHandshake, PacketQueued, AckQueued

LEMMA AppendPacket ==
  ASSUME TypeOK, NEW m \in Message, spwq' = Append(spwq, m)
  PROVE  PacketQueued' <=> PacketQueued \/ m.pword = "data"
<1>1. spwq \in Seq(Message) /\ Len(spwq) \in Nat
  BY DEF TypeOK, QueuesType
<1>2. /\ Len(spwq') = Len(spwq) + 1
      /\ spwq'[Len(spwq) + 1] = m
      /\ \A i \in 1..Len(spwq) : spwq'[i] = spwq[i]
  BY <1>1
<1> QED
  BY <1>1, <1>2 DEF PacketQueued, DataAt

LEMMA AppendAck ==
  ASSUME TypeOK, NEW m \in Message, devq' = Append(devq, m)
  PROVE  AckQueued' <=> AckQueued \/ m.pword = "ack"
<1>1. devq \in Seq(Message) /\ Len(devq) \in Nat
  BY DEF TypeOK, QueuesType
<1>2. /\ Len(devq') = Len(devq) + 1
      /\ devq'[Len(devq) + 1] = m
      /\ \A i \in 1..Len(devq) : devq'[i] = devq[i]
  BY <1>1
<1> QED
  BY <1>1, <1>2 DEF AckQueued, AckAt

LEMMA TakePacket ==
  ASSUME TypeOK, AckHandshake, spwq # <<>>, spwq' = Tail(spwq)
  PROVE  /\ Head(spwq).pword = "data" => PacketQueued /\ ~PacketQueued' /\ Head(spwq).link = vlink
         /\ Head(spwq).pword # "data" => (PacketQueued' <=> PacketQueued)
<1>1. spwq \in Seq(Message) /\ Len(spwq) \in Nat \ {0} /\ Len(spwq) <= QMax /\ QMax \in Nat
  BY SimAssumption DEF TypeOK, QueuesType
<1>2. /\ Len(spwq') = Len(spwq) - 1
      /\ Head(spwq) = spwq[1]
      /\ \A i \in 1..Len(spwq') : spwq'[i] = spwq[i + 1]
  BY <1>1
<1>3. CASE spwq[1].pword = "data"
  <2>1. DataAt(1) /\ 1 \in 1..QMax
    BY <1>1, <1>3 DEF DataAt
  <2>2. \A i \in 2..Len(spwq) : ~DataAt(i)
    BY <1>1, <2>1 DEF AckHandshake
  <2>3. \A i \in 1..Len(spwq') : i + 1 \in 2..Len(spwq)
    BY <1>1, <1>2
  <2>4. \A i \in 1..Len(spwq') : ~DataAt(i)'
    BY <1>2, <2>2, <2>3 DEF DataAt
  <2> QED
    BY <1>1, <1>2, <1>3, <2>1, <2>4 DEF PacketQueued, AckHandshake
<1>4. CASE spwq[1].pword # "data"
  <2>1. ASSUME PacketQueued PROVE PacketQueued'
    <3>1. PICK i \in 1..Len(spwq) : DataAt(i)
      BY <2>1 DEF PacketQueued
    <3>2. i # 1 /\ i - 1 \in 1..Len(spwq') /\ spwq'[i - 1] = spwq[i]
      BY <1>1, <1>2, <1>4, <3>1 DEF DataAt
    <3> QED
      BY <3>1, <3>2 DEF PacketQueued, DataAt
  <2>2. ASSUME PacketQueued' PROVE PacketQueued
    <3>1. PICK i \in 1..Len(spwq') : DataAt(i)'
      BY <2>2 DEF PacketQueued
    <3>2. i + 1 \in 1..Len(spwq) /\ spwq[i + 1].pword = "data"
      BY <1>1, <1>2, <3>1 DEF DataAt
    <3> QED
      BY <3>2 DEF PacketQueued, DataAt
  <2> QED
    BY <1>2, <1>4, <2>1, <2>2
<1> QED
  BY <1>3, <1>4

LEMMA TakeAck ==
  ASSUME TypeOK, AckHandshake, devq # <<>>, devq' = Tail(devq)
  PROVE  /\ Head(devq).pword = "ack" => AckQueued /\ ~AckQueued'
         /\ Head(devq).pword # "ack" => (AckQueued' <=> AckQueued)
<1>1. devq \in Seq(Message) /\ Len(devq) \in Nat \ {0} /\ Len(devq) <= QMax /\ QMax \in Nat
  BY SimAssumption DEF TypeOK, QueuesType
<1>2. /\ Len(devq') = Len(devq) - 1
      /\ Head(devq) = devq[1]
      /\ \A i \in 1..Len(devq') : devq'[i] = devq[i + 1]
  BY <1>1
<1>3. CASE devq[1].pword = "ack"
  <2>1. AckAt(1) /\ 1 \in 1..QMax
    BY <1>1, <1>3 DEF AckAt
  <2>2. \A i \in 2..Len(devq) : ~AckAt(i)
    BY <1>1, <2>1 DEF AckHandshake
  <2>3. \A i \in 1..Len(devq') : i + 1 \in 2..Len(devq)
    BY <1>1, <1>2
  <2>4. \A i \in 1..Len(devq') : ~AckAt(i)'
    BY <1>2, <2>2, <2>3 DEF AckAt
  <2> QED
    BY <1>1, <1>2, <1>3, <2>1, <2>4 DEF AckQueued
<1>4. CASE devq[1].pword # "ack"
  <2>1. ASSUME AckQueued PROVE AckQueued'
    <3>1. PICK i \in 1..Len(devq) : AckAt(i)
      BY <2>1 DEF AckQueued
    <3>2. i # 1 /\ i - 1 \in 1..Len(devq') /\ devq'[i - 1] = devq[i]
      BY <1>1, <1>2, <1>4, <3>1 DEF AckAt
    <3> QED
      BY <3>1, <3>2 DEF AckQueued, AckAt
  <2>2. ASSUME AckQueued' PROVE AckQueued
    <3>1. PICK i \in 1..Len(devq') : AckAt(i)'
      BY <2>2 DEF AckQueued
    <3>2. i + 1 \in 1..Len(devq) /\ devq[i + 1].pword = "ack"
      BY <1>1, <1>2, <3>1 DEF AckAt
    <3> QED
      BY <3>2 DEF AckQueued, AckAt
  <2> QED
    BY <1>2, <1>4, <2>1, <2>2
<1> QED
  BY <1>3, <1>4

LEMMA Refines_TxSend ==
  ASSUME TypeOK, HeldDescriptors, AckHandshake, TxSend
  PROVE  SW!Next
<1>1. vlink \in Links /\ ~InFlight /\ InFlight' /\ vlink' = vlink
  BY DEF HeldDescriptors, TxSend, InFlight, Sent
<1>2. Busy = NoLink /\ Token = "none"
  BY <1>1, OneToken DEF Busy, Token
<1>3. PacketQueued'
  <2>1. Packet(vlink, "data", 0) \in Message
    BY <1>1, PacketType
  <2> QED
    BY <2>1, AppendPacket DEF TxSend, Packet
<1>4. Busy' = vlink /\ Token' = "packet"
  BY <1>1, <1>3 DEF Busy, Token
<1> QED
  BY <1>1, <1>2, <1>4 DEF SW!Next, SW!Send

LEMMA Refines_OpTimecode ==
  ASSUME TypeOK, HeldDescriptors, OpTimecode
  PROVE  UNCHANGED <<Busy, Token>>
<1>1. vlink \in Links /\ vnum \in Byte
  BY DEF HeldDescriptors, OpTimecode, TypeOK, VcpuType
<1>2. Packet(vlink, "time", vnum) \in Message /\ Packet(vlink, "time", vnum).pword = "time"
  BY <1>1, PacketType DEF Packet
<1>3. PacketQueued' <=> PacketQueued
  BY <1>2, AppendPacket DEF OpTimecode
<1>4. AckQueued' <=> AckQueued
  BY DEF OpTimecode, AckQueued, AckAt
<1>5. UNCHANGED <<dev, rpc, vlink, InFlight>>
  BY DEF OpTimecode, InFlight, Sent, rx, Executing
<1> QED
  BY <1>3, <1>4, <1>5 DEF Busy, Token

LEMMA Refines_DevReceive ==
  ASSUME TypeOK, HeldDescriptors, AckHandshake, DevReceive
  PROVE  SW!Next \/ UNCHANGED <<Busy, Token>>
<1>1. UNCHANGED <<rpc, Busy, AckQueued>>
  BY DEF DevReceive, Busy, InFlight, Sent, AckQueued, AckAt, vcpu, rx
<1>2. Head(spwq) \in Message
  BY DEF DevReceive, TypeOK, QueuesType
<1>3. CASE Head(spwq).pword = "data"
  <2>1. PacketQueued /\ ~PacketQueued' /\ dev' # NoLink
    BY <1>2, <1>3, TakePacket, SimAssumption DEF DevReceive, Message
  <2>2. Token = "packet" /\ Token' = "owed"
    BY <2>1 DEF Token
  <2> QED
    BY <1>1, <2>2 DEF SW!Next, SW!Deliver
<1>4. CASE Head(spwq).pword # "data"
  <2>1. UNCHANGED dev /\ (PacketQueued' <=> PacketQueued)
    BY <1>4, TakePacket DEF DevReceive
  <2> QED
    BY <1>1, <2>1 DEF Token
<1> QED
  BY <1>3, <1>4

LEMMA Refines_DevAck ==
  ASSUME TypeOK, HeldDescriptors, AckHandshake, DevAck
  PROVE  SW!Next
<1>1. UNCHANGED <<rpc, Busy, PacketQueued>>
  BY DEF DevAck, Busy, InFlight, Sent, PacketQueued, DataAt, vcpu, rx
<1>2. Packet(dev, "ack", 0) \in Message /\ Packet(dev, "ack", 0).pword = "ack"
  <2>1. dev \in Links
    BY DEF DevAck, TypeOK, OtherType
  <2>2. Packet(dev, "ack", 0) \in Message
    BY <2>1, PacketType
  <2> QED
    BY <2>2 DEF Packet
<1>3. AckQueued'
  BY <1>2, AppendAck DEF DevAck
<1>4. ~PacketQueued /\ dev # NoLink /\ dev' = NoLink
  BY OneToken DEF DevAck
<1>5. Token = "owed" /\ Token' = "ack"
  BY <1>1, <1>3, <1>4 DEF Token
<1> QED
  BY <1>1, <1>5 DEF SW!Next, SW!Answer

LEMMA Refines_DevSend ==
  ASSUME TypeOK, NEW m \in DevSends, DevSend(m)
  PROVE  UNCHANGED <<Busy, Token>>
<1>1. UNCHANGED <<rpc, dev, Busy, PacketQueued>>
  BY DEF DevSend, Busy, InFlight, Sent, PacketQueued, DataAt, vcpu, rx
<1>2. AckQueued' <=> AckQueued
  BY AppendAck, SimAssumption DEF DevSend
<1> QED
  BY <1>1, <1>2 DEF Token

LEMMA Refines_DevRestart ==
  ASSUME TypeOK, AckHandshake, DevRestart
  PROVE  SW!Next
<1>1. UNCHANGED <<rpc, Busy, PacketQueued, AckQueued>>
  BY DEF DevRestart, Busy, InFlight, Sent, PacketQueued, AckQueued, DataAt, AckAt, vcpu, rx, queues
<1>2. dev # NoLink /\ dev' = NoLink
  BY DEF DevRestart
<1>3. Token = "owed" /\ Token' = "none"
  BY <1>1, <1>2, OneToken DEF Token
<1> QED
  BY <1>1, <1>3 DEF SW!Next, SW!Forget

LEMMA Refines_RxReceive ==
  ASSUME TypeOK, AckHandshake, RxReceive
  PROVE  UNCHANGED <<Busy, Token>>
<1>1. UNCHANGED <<dev, Busy, PacketQueued>>
  BY DEF RxReceive, Busy, InFlight, Sent, PacketQueued, DataAt, vcpu
<1>2. (rpc' = "ack" <=> Head(devq).pword = "ack") /\ rpc # "ack"
  <2>1. Head(devq) = devq[1]
    BY DEF RxReceive, TypeOK, QueuesType
  <2> QED
    BY <2>1, RxReceiveLabel DEF RxReceive
<1>3. (rpc' = "ack" \/ AckQueued') <=> (rpc = "ack" \/ AckQueued)
  BY <1>2, TakeAck DEF RxReceive
<1> QED
  BY <1>1, <1>3 DEF Token

LEMMA Refines_RxSignal ==
  ASSUME TypeOK, AckHandshake, RxSignal
  PROVE  SW!Next
<1>1. UNCHANGED <<dev, vlink, PacketQueued, AckQueued>>
  BY DEF RxSignal, PacketQueued, AckQueued, DataAt, AckAt, queues
<1>2. rpc = "ack" /\ rpc' # "ack"
  BY DEF RxSignal, RxReturn
<1>3. Token = "ack" /\ Token' = "none"
  BY <1>1, <1>2, OneToken DEF Token
<1>4. Busy' \in {Busy, NoLink}
  BY <1>1 DEF RxSignal, Busy, InFlight, Sent
<1> QED
  BY <1>3, <1>4 DEF SW!Next, SW!Accept

(* Every step is a step of StopAndWait or leaves busy and token alone. *)
LEMMA RefinesStep ==
  ASSUME MaxStrays = 0, TypeOK, HeldDescriptors, AckHandshake, [Next]_vars
  PROVE  [SW!Next]_SW!vars
<1> SUFFICES SW!Next \/ UNCHANGED <<Busy, Token>>
  BY DEF SW!vars
<1>1. ASSUME NEW l \in Links, NEW i \in 0..(TxRing - 1), GuestArmTx(l, i)
      PROVE  UNCHANGED <<Busy, Token>>
  BY <1>1, SameToken DEF GuestArmTx, queues, vcpu, rx, InFlight, Sent
<1>2. ASSUME NEW l \in Links, NEW i \in 0..(RxRing - 1), GuestArmRx(l, i)
      PROVE  UNCHANGED <<Busy, Token>>
  BY <1>2, SameToken DEF GuestArmRx, queues, vcpu, rx, InFlight, Sent
<1>3. ASSUME NEW l \in Links, NEW w \in GuestWrites, GuestWrite(l, w)
      PROVE  UNCHANGED <<Busy, Token>>
  BY <1>3, SameToken DEF GuestWrite, queues, vcpu, rx, InFlight, Sent
<1>4. CASE GuestRead
  BY <1>4, SameToken DEF GuestRead, queues, rx, InFlight, Sent
<1>5. CASE ReadLocked
  BY <1>5, SameToken DEF ReadLocked, queues, rx, InFlight, Sent
<1>6. CASE OpLoad
  BY <1>6, SameToken DEF OpLoad, Executing, queues, rx, InFlight, Sent
<1>7. CASE OpStore
  BY <1>7, SameToken DEF OpStore, queues, rx, InFlight, Sent
<1>8. CASE OpCtr
  BY <1>8, SameToken DEF OpCtr, Executing, queues, rx, InFlight, Sent
<1>9. CASE OpSet
  BY <1>9, SameToken DEF OpSet, Executing, queues, rx, InFlight, Sent
<1>10. CASE OpTimeLoad
  BY <1>10, SameToken DEF OpTimeLoad, Executing, queues, rx, InFlight, Sent
<1>11. CASE OpTickStore
  BY <1>11, SameToken DEF OpTickStore, queues, rx, InFlight, Sent
<1>12. CASE OpTimecode
  BY <1>12, Refines_OpTimecode
<1>13. CASE TxEnable
  BY <1>13, SameToken DEF TxEnable, OpsDone, queues, rx, InFlight, Sent
<1>14. CASE TxFetch
  BY <1>14, SameToken DEF TxFetch, queues, rx, InFlight, Sent
<1>15. CASE TxSend
  BY <1>15, Refines_TxSend
<1>16. CASE TxWait
  BY <1>16, SameToken DEF TxWait, OpsDone, queues, rx, InFlight, Sent
<1>17. CASE TxSpuriousWakeup
  BY <1>17, SimAssumption DEF TxSpuriousWakeup, TypeOK, OtherType
<1>18. CASE TxRelock
  BY <1>18, SameToken DEF TxRelock, queues, rx, InFlight, Sent
<1>19. CASE TxFinish
  BY <1>19, SameToken DEF TxFinish, queues, rx, InFlight, Sent
<1>20. CASE TxStop
  BY <1>20, SameToken DEF TxStop, OpsDone, queues, rx, InFlight, Sent
<1>21. CASE RxReceive
  BY <1>21, Refines_RxReceive
<1>22. CASE RxSignal
  BY <1>22, Refines_RxSignal
<1>23. CASE RxLoad
  BY <1>23, SameToken DEF RxLoad, queues, vcpu, InFlight, Sent
<1>24. CASE RxStore
  BY <1>24, SameToken DEF RxStore, RxReturn, TypeOK, RxType, queues, vcpu, InFlight, Sent
<1>25. CASE RxCheckEnabled
  BY <1>25, SameToken DEF RxCheckEnabled, RxCheck, RxReturn, queues, vcpu, InFlight, Sent
<1>26. CASE RxCheckAddress
  BY <1>26, SameToken DEF RxCheckAddress, RxCheck, RxReturn, queues, vcpu, InFlight, Sent
<1>27. CASE RxCheckAvailable
  BY <1>27, SameToken DEF RxCheckAvailable, RxCheck, RxReturn, queues, vcpu, InFlight, Sent
<1>28. CASE RxFetch
  BY <1>28, SameToken DEF RxFetch, RxModify, queues, vcpu, InFlight, Sent
<1>29. CASE RxCopy
  BY <1>29, SameToken DEF RxCopy, RxModify, queues, vcpu, InFlight, Sent
<1>30. CASE RxGiveBack
  BY <1>30, SameToken DEF RxGiveBack, RxReturn, queues, vcpu, InFlight, Sent
<1>31. CASE RxTimeCompare
  BY <1>31, SameToken DEF RxTimeCompare, RxCheck, RxReturn, queues, vcpu, InFlight, Sent
<1>32. CASE RxTimeStore
  BY <1>32, SameToken DEF RxTimeStore, RxModify, queues, vcpu, InFlight, Sent
<1>33. CASE DevReceive
  BY <1>33, Refines_DevReceive
<1>34. CASE DevAck
  BY <1>34, Refines_DevAck
<1>35. ASSUME NEW m \in DevSends, DevSend(m)
      PROVE  UNCHANGED <<Busy, Token>>
  BY <1>35, Refines_DevSend
<1>36. CASE UNCHANGED vars
  BY <1>36, SameToken DEF vars, queues, vcpu, rx, InFlight, Sent
<1>37. CASE DevRestart
  BY <1>37, Refines_DevRestart
<1>38. CASE QemuRestart
  BY <1>38, SimAssumption DEF QemuRestart, TypeOK, OtherType
<1> QED
  BY <1>1, <1>2, <1>3, <1>4, <1>5, <1>6, <1>7, <1>8, <1>9, <1>10, <1>11, <1>12, <1>13, <1>14, <1>15, <1>16, <1>17, <1>18, <1>19, <1>20, <1>21, <1>22, <1>23, <1>24, <1>25, <1>26, <1>27, <1>28, <1>29, <1>30, <1>31, <1>32, <1>33, <1>34, <1>35, <1>36, <1>37, <1>38 DEF Next, Guest, Handler, RxThread, Device, Faults

(* Where only an ack ends a wait, the threads, the queues and the device   *)
(* implement the abstract stop-and-wait sender.                            *)
THEOREM Refinement ==
  ASSUME MaxStrays = 0
  PROVE  Spec => ImplementsStopAndWait
<1>1. Init => SW!Init
  BY DEF Init, SW!Init, Busy, Token, InFlight, Sent, PacketQueued, AckQueued
<1>2. TypeOK /\ HeldDescriptors /\ AckHandshake /\ [Next]_vars => [SW!Next]_SW!vars
  BY RefinesStep
<1> QED
  BY <1>1, <1>2, TypeCorrect, StopAndWait, PTL DEF Spec, ImplementsStopAndWait, SW!Spec
=============================================================================
