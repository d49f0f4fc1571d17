------------------------------- MODULE GrspwSim -------------------------------
(***************************************************************************)
(* The running simulator: the threads of grlib_coregrspw around the links' *)
(* registers, the descriptor tables in the guest's RAM and the two POSIX   *)
(* message queues.                                                         *)
(*                                                                         *)
(*  - The vCPU thread runs the guest.  An MMIO write runs the register     *)
(*    write handler and then grlib_comgrspw_txenable in the same thread; a *)
(*    transmission ends with a wait on a condition variable for the        *)
(*    device's ack.  An MMIO read takes txthread_mutex.                    *)
(*  - The rx thread takes one message at a time from /devq: an ack signals *)
(*    the condition variable, data runs grlib_comgrspw_rxenable, a time    *)
(*    code runs grlib_comgrspw_rxtimecode.                                 *)
(*  - The device is the peer process on the other side of the queues.      *)
(*                                                                         *)
(* No lock protects the registers, so a read-modify-write of a register    *)
(* word both threads write (SPWSTR, SPWCHN, SPWTIM) is two steps here: the *)
(* load and the store.                                                     *)
(***************************************************************************)
EXTENDS GrspwRegs, Sequences, FiniteSets

CONSTANTS
  Links,          (* the links (cores) in use                              *)
  NoLink,         (* not a link: the device owes no ack                    *)
  TxRing, RxRing, (* descriptors the guest's driver uses; the last has WR  *)
  QMax,           (* mq_maxmsg of both queues                              *)
  GuestWrites,    (* register writes the guest makes                       *)
  DevSends,       (* messages the device sends of its own accord           *)
  MaxStrays,      (* bound: waits that end without their ack               *)
  DeviceRestarts  (* may the device's process restart?                     *)

Message == [link : Links, pword : {"ack", "data", "time"}, addr : Byte, num : Byte]
WriteRegs == {"ctr", "str", "chn", "tim", "ndr"}

ASSUME SimAssumption ==
  /\ Links # {}
  /\ NoLink \notin Links
  /\ TxRing \in 1..(NbTxDescriptor - 1)
  /\ RxRing \in 1..NbRxDescriptor
  /\ QMax \in Nat \ {0}
  /\ GuestWrites \subseteq [reg : WriteRegs, bits : SUBSET Bits, num : Byte]
  /\ \A w \in GuestWrites : w.reg = "ctr" => "RS" \notin w.bits
  /\ DevSends \subseteq {m \in Message : m.pword # "ack"}
  /\ MaxStrays \in Nat
  /\ DeviceRestarts \in BOOLEAN

VARIABLES
  ctr, str, chn, tim, ndr,  (* the registers of each link                  *)
  txram, rxram, rxbuf,      (* descriptors and receive buffers in guest RAM *)
  txd_cur, rxd_cur,         (* the current descriptors of each link        *)
  mutex,                    (* txthread_mutex: "free" or "vcpu"            *)
  spwq, devq,               (* the queues spacewire->device and back       *)
  vpc, vnext, vlink, todo, vbits, vnum, vidx,  (* the vCPU thread          *)
  rpc, rnext, rmsg, rop, rbits, ridx,          (* the rx thread            *)
  recv_ep,                  (* ep of recv_att, which nothing initialises   *)
  dev,                      (* the link the device owes an ack, or NoLink  *)
  txowed, rxowed,           (* history: descriptors armed minus used       *)
  strays                    (* history: waits that ended without their ack *)

regs == <<ctr, str, chn, tim, ndr>>
ram == <<txram, rxram, rxbuf>>
cursors == <<txd_cur, rxd_cur>>
queues == <<spwq, devq>>
vcpu == <<vpc, vnext, vlink, todo, vbits, vnum, vidx>>
rx == <<rpc, rnext, rmsg, rop, rbits, ridx>>
history == <<txowed, rxowed, strays>>
vars == <<regs, ram, cursors, mutex, queues, vcpu, rx, recv_ep, dev, history>>

Packet(l, p, n) == [link |-> l, pword |-> p, addr |-> 0, num |-> n]
AnyLink == CHOOSE l \in Links : TRUE
NoMessage == Packet(AnyLink, "time", 0)

----------------------------------------------------------------------------
(***************************************************************************)
(* A register write handler is a list of operations on register words:     *)
(* clear some bits and set others, or store a number.                      *)
(***************************************************************************)
Op == [reg : WriteRegs \cup {"tick", "timecode"},
       clr : SUBSET Bits, set : SUBSET Bits, num : Byte]

Rmw(r, clr, set) == [reg |-> r, clr |-> clr, set |-> set, num |-> 0]
Store(r, n) == [reg |-> r, clr |-> {}, set |-> {}, num |-> n]
When(cond, ops) == IF cond THEN ops ELSE <<>>
Modify(word, op) == setbit(clearbit(word, op.clr), op.set)

(* Link Start: the link runs and LD is cleared. *)
StartOps == <<Rmw("str", LinkState, LinkRun), Rmw("ctr", {"LD"}, {})>>

(* Mutant: the link state is not reset. *)
DisableOpsLinkRuns == <<Rmw("ctr", {"LS"}, {})>>

(* Link Disable: the link is reset and LS is cleared. *)
DisableOps == <<Rmw("str", LinkState, {}), Rmw("ctr", {"LS"}, {})>>

(* The word stored first is clearset | set with set = reg | ..., so the    *)
(* old bits of SPWCTR all survive it.                                      *)
CtrOps(v) ==
  <<Rmw("ctr", {}, v \cap (CtrClearSet \cup CtrNotReset \cup CtrSelfClear))>>
  \o When("TI" \in v, <<Store("tick", 0), Store("timecode", 0), Rmw("ctr", {"TI"}, {})>>)
  \o When("LS" \in v, StartOps)
  \o When("LD" \in v, DisableOps)

ClearOne(r, v, b) == When(b \in v, <<Rmw(r, {b}, {})>>)

StrOps(v) ==
  ClearOne("str", v, "EE") \o ClearOne("str", v, "IA") \o ClearOne("str", v, "WE")
  \o ClearOne("str", v, "PE") \o ClearOne("str", v, "DE") \o ClearOne("str", v, "ER")
  \o ClearOne("str", v, "CE") \o ClearOne("str", v, "TO")

ChnOps(v) ==
  LET written == ChnClearSet \cup ChnNotReset IN
  <<Rmw("chn", written, v \cap (written \cup ChnSelfClear))>>
  \o When("AT" \in v, <<Rmw("chn", {"TE"}, {}), Rmw("chn", {"AT"}, {})>>)
  \o ClearOne("chn", v, "RA") \o ClearOne("chn", v, "TA")
  \o ClearOne("chn", v, "PR") \o ClearOne("chn", v, "PS")

WriteOps(w) ==
  CASE w.reg = "ctr" -> CtrOps(w.bits)
    [] w.reg = "str" -> StrOps(w.bits)
    [] w.reg = "chn" -> ChnOps(w.bits)
    [] OTHER         -> <<Store(w.reg, w.num)>>

----------------------------------------------------------------------------
Each(x) == [l \in Links |-> x]

(* The links after grlib_apbgrspw_init and the driver's own start: both    *)
(* table registers are programmed.                                         *)
Init ==
  /\ ctr = Each({"RE", "LS"}) /\ str = Each({}) /\ chn = Each({})
  /\ tim = Each(0) /\ ndr = Each(254)
  /\ txram = Each([i \in 0..(TxRing - 1) |-> FALSE])
  /\ rxram = Each([i \in 0..(RxRing - 1) |-> [en |-> FALSE, num |-> 0]])
  /\ rxbuf = Each([i \in 0..(RxRing - 1) |-> 0])
  /\ txd_cur = Each(0) /\ rxd_cur = Each(0)
  /\ mutex = "free"
  /\ vpc = "guest" /\ vnext = "guest" /\ vlink = NoLink /\ todo = <<>>
  /\ vbits = {} /\ vnum = 0 /\ vidx = 0
  /\ rpc = "recv" /\ rnext = "recv" /\ rmsg = NoMessage /\ rop = Rmw("chn", {}, {})
  /\ rbits = {} /\ ridx = 0
  /\ recv_ep \in BOOLEAN
  /\ txowed = Each(0) /\ rxowed = Each(0)
  /\ spwq = <<>> /\ devq = <<>>
  /\ dev = NoLink
  /\ strays = 0

----------------------------------------------------------------------------
(***************************************************************************)
(* The guest, on the vCPU thread.  It touches only descriptors it owns.    *)
(***************************************************************************)
GuestArmTx(l, i) ==
  /\ vpc = "guest"
  /\ ~txram[l][i]
  /\ txram' = [txram EXCEPT ![l][i] = TRUE]
  /\ txowed' = [txowed EXCEPT ![l] = @ + 1]
  /\ UNCHANGED <<regs, rxram, rxbuf, cursors, mutex, queues, vcpu, rx, recv_ep, dev, rxowed, strays>>

GuestArmRx(l, i) ==
  /\ vpc = "guest"
  /\ ~rxram[l][i].en
  /\ rxram' = [rxram EXCEPT ![l][i] = [en |-> TRUE, num |-> 0]]
  /\ rxowed' = [rxowed EXCEPT ![l] = @ + 1]
  /\ UNCHANGED <<regs, txram, rxbuf, cursors, mutex, queues, vcpu, rx, recv_ep, dev, txowed, strays>>

GuestWrite(l, w) ==
  /\ vpc = "guest"
  /\ vpc' = "ops"
  /\ vnext' = "txenable"
  /\ vlink' = l
  /\ todo' = WriteOps(w)
  /\ UNCHANGED <<regs, ram, cursors, mutex, queues, vbits, vnum, vidx, rx, recv_ep, dev, history>>

GuestRead ==
  /\ vpc = "guest"
  /\ vpc' = "rdlock"
  /\ UNCHANGED <<regs, ram, cursors, mutex, queues, vnext, vlink, todo, vbits, vnum, vidx,
                 rx, recv_ep, dev, history>>

(* The mutex is taken and released around the read of one register.  The   *)
(* thread already owning a default mutex blocks on it like any other.      *)
ReadLocked ==
  /\ vpc = "rdlock"
  /\ mutex = "free"
  /\ vpc' = "guest"
  /\ UNCHANGED <<regs, ram, cursors, mutex, queues, vnext, vlink, todo, vbits, vnum, vidx,
                 rx, recv_ep, dev, history>>

----------------------------------------------------------------------------
(* The operations of a handler, one after the other. *)
Executing(r) == vpc = "ops" /\ todo # <<>> /\ Head(todo).reg = r
OpsDone(label) == vpc = "ops" /\ todo = <<>> /\ vnext = label

OpLoad ==
  /\ \/ Executing("str") /\ vbits' = str[vlink]
     \/ Executing("chn") /\ vbits' = chn[vlink]
  /\ vpc' = "store"
  /\ UNCHANGED <<regs, ram, cursors, mutex, queues, vnext, vlink, todo, vnum, vidx,
                 rx, recv_ep, dev, history>>

OpStore ==
  /\ vpc = "store"
  /\ \/ /\ Head(todo).reg = "str"
        /\ str' = [str EXCEPT ![vlink] = Modify(vbits, Head(todo))]
        /\ UNCHANGED chn
     \/ /\ Head(todo).reg = "chn"
        /\ chn' = [chn EXCEPT ![vlink] = Modify(vbits, Head(todo))]
        /\ UNCHANGED str
  /\ vpc' = "ops"
  /\ todo' = Tail(todo)
  /\ vbits' = {}
  /\ UNCHANGED <<ctr, tim, ndr, ram, cursors, mutex, queues, vnext, vlink, vnum, vidx,
                 rx, recv_ep, dev, history>>

(* SPWCTR is written by this thread alone: load and store are one step.    *)
OpCtr ==
  /\ Executing("ctr")
  /\ ctr' = [ctr EXCEPT ![vlink] = Modify(@, Head(todo))]
  /\ todo' = Tail(todo)
  /\ UNCHANGED <<str, chn, tim, ndr, ram, cursors, mutex, queues, vpc, vnext, vlink, vbits,
                 vnum, vidx, rx, recv_ep, dev, history>>

OpSet ==
  /\ \/ /\ Executing("tim")
        /\ tim' = [tim EXCEPT ![vlink] = Head(todo).num]
        /\ UNCHANGED ndr
     \/ /\ Executing("ndr")
        /\ ndr' = [ndr EXCEPT ![vlink] = Head(todo).num]
        /\ UNCHANGED tim
  /\ todo' = Tail(todo)
  /\ UNCHANGED <<ctr, str, chn, ram, cursors, mutex, queues, vpc, vnext, vlink, vbits,
                 vnum, vidx, rx, recv_ep, dev, history>>

(* A tick reads SPWTIM to increment it, and once more to send it. *)
OpTimeLoad ==
  /\ Executing("tick") \/ Executing("timecode")
  /\ vnum' = tim[vlink]
  /\ vpc' = Head(todo).reg
  /\ UNCHANGED <<regs, ram, cursors, mutex, queues, vnext, vlink, todo, vbits, vidx,
                 rx, recv_ep, dev, history>>

OpTickStore ==
  /\ vpc = "tick"
  /\ tim' = [tim EXCEPT ![vlink] = TickedTime(vnum)]
  /\ vpc' = "ops"
  /\ todo' = Tail(todo)
  /\ vnum' = 0
  /\ UNCHANGED <<ctr, str, chn, ndr, ram, cursors, mutex, queues, vnext, vlink, vbits, vidx,
                 rx, recv_ep, dev, history>>

(* Mutant: the time code is queued without waiting for room. *)
OpTimecodeNoRoom ==
  /\ vpc = "timecode"
  /\ spwq' = Append(spwq, Packet(vlink, "time", vnum))
  /\ vpc' = "ops"
  /\ todo' = Tail(todo)
  /\ vnum' = 0
  /\ UNCHANGED <<regs, ram, cursors, mutex, devq, vnext, vlink, vbits, vidx,
                 rx, recv_ep, dev, history>>

(* mq_send blocks while the queue is full; what it sends was read before.  *)
OpTimecode ==
  /\ vpc = "timecode"
  /\ Len(spwq) < QMax
  /\ spwq' = Append(spwq, Packet(vlink, "time", vnum))
  /\ vpc' = "ops"
  /\ todo' = Tail(todo)
  /\ vnum' = 0
  /\ UNCHANGED <<regs, ram, cursors, mutex, devq, vnext, vlink, vbits, vidx,
                 rx, recv_ep, dev, history>>

----------------------------------------------------------------------------
(* grlib_comgrspw_txenable *)
TxEnable ==
  /\ OpsDone("txenable")
  /\ vpc' = IF checkbit(chn[vlink], {"TE"}) THEN "fetch" ELSE "guest"
  /\ UNCHANGED <<regs, ram, cursors, mutex, queues, vnext, vlink, todo, vbits, vnum, vidx,
                 rx, recv_ep, dev, history>>

(* A disabled descriptor ends the transmission: TE is cleared. *)
TxFetch ==
  /\ vpc = "fetch"
  /\ IF txram[vlink][txd_cur[vlink]]
       THEN /\ vpc' = "send"
            /\ UNCHANGED <<vnext, todo>>
       ELSE /\ vpc' = "ops"
            /\ vnext' = "guest"
            /\ todo' = <<Rmw("chn", {"TE"}, {})>>
  /\ vidx' = txd_cur[vlink]
  /\ UNCHANGED <<regs, ram, cursors, mutex, queues, vlink, vbits, vnum, rx, recv_ep, dev, history>>

(* Mutant: the descriptor is given back before the ack is waited for. *)
TxSendGivesBack ==
  /\ vpc = "send"
  /\ Len(spwq) < QMax
  /\ spwq' = Append(spwq, Packet(vlink, "data", 0))
  /\ vpc' = "ops"
  /\ vnext' = "wait"
  /\ todo' = <<Rmw("chn", {}, {"PS"})>>
  /\ txram' = [txram EXCEPT ![vlink][vidx] = FALSE]
  /\ txowed' = [txowed EXCEPT ![vlink] = @ - 1]
  /\ UNCHANGED <<regs, rxram, rxbuf, cursors, mutex, devq, vlink, vbits, vnum, vidx,
                 rx, recv_ep, dev, rxowed, strays>>

TxSend ==
  /\ vpc = "send"
  /\ Len(spwq) < QMax
  /\ spwq' = Append(spwq, Packet(vlink, "data", 0))
  /\ vpc' = "ops"
  /\ vnext' = "wait"
  /\ todo' = <<Rmw("chn", {}, {"PS"})>>
  /\ txowed' = [txowed EXCEPT ![vlink] = @ - 1]
  /\ UNCHANGED <<regs, ram, cursors, mutex, devq, vlink, vbits, vnum, vidx,
                 rx, recv_ep, dev, rxowed, strays>>

(* Mutant: the transmission ends without waiting for the ack. *)
TxWaitSkipped ==
  /\ OpsDone("wait")
  /\ txd_cur' = [txd_cur EXCEPT ![vlink] = Successor(@, vidx = TxRing - 1, NbTxDescriptor)]
  /\ vpc' = "finish"
  /\ UNCHANGED <<regs, ram, rxd_cur, mutex, queues, vnext, vlink, todo, vbits, vnum, vidx,
                 rx, recv_ep, dev, history>>

(* Mutant: the thread waits without releasing the mutex. *)
TxWaitKeepsMutex ==
  /\ OpsDone("wait")
  /\ txd_cur' = [txd_cur EXCEPT ![vlink] = Successor(@, vidx = TxRing - 1, NbTxDescriptor)]
  /\ vpc' = "waiting"
  /\ UNCHANGED <<regs, ram, rxd_cur, mutex, queues, vnext, vlink, todo, vbits, vnum, vidx,
                 rx, recv_ep, dev, history>>

(* Advance to the next descriptor, then wait: the mutex is released,       *)
(* whether or not the thread owned it.                                     *)
TxWait ==
  /\ OpsDone("wait")
  /\ txd_cur' = [txd_cur EXCEPT ![vlink] = Successor(@, vidx = TxRing - 1, NbTxDescriptor)]
  /\ mutex' = "free"
  /\ vpc' = "waiting"
  /\ UNCHANGED <<regs, ram, rxd_cur, queues, vnext, vlink, todo, vbits, vnum, vidx,
                 rx, recv_ep, dev, history>>

TxSpuriousWakeup ==
  /\ vpc = "waiting"
  /\ strays < MaxStrays
  /\ strays' = strays + 1
  /\ vpc' = "relock"
  /\ UNCHANGED <<regs, ram, cursors, mutex, queues, vnext, vlink, todo, vbits, vnum, vidx,
                 rx, recv_ep, dev, txowed, rxowed>>

(* Mutant: the wait is in a loop on a condition that nobody makes true. *)
TxRelockLoops ==
  /\ vpc = "relock"
  /\ mutex = "free"
  /\ vpc' = "waiting"
  /\ UNCHANGED <<regs, ram, cursors, mutex, queues, vnext, vlink, todo, vbits, vnum, vidx,
                 rx, recv_ep, dev, history>>

(* The wait returns with the mutex locked; nothing unlocks it afterwards.  *)
TxRelock ==
  /\ vpc = "relock"
  /\ mutex = "free"
  /\ mutex' = "vcpu"
  /\ vpc' = "finish"
  /\ UNCHANGED <<regs, ram, cursors, queues, vnext, vlink, todo, vbits, vnum, vidx,
                 rx, recv_ep, dev, history>>

(* Mutant: the current descriptor, not the one sent, is given back. *)
TxFinishCurrent ==
  /\ vpc = "finish"
  /\ txram' = [txram EXCEPT ![vlink][txd_cur[vlink]] = FALSE]
  /\ vpc' = "guest"
  /\ UNCHANGED <<regs, rxram, rxbuf, cursors, mutex, queues, vnext, vlink, todo, vbits, vnum,
                 vidx, rx, recv_ep, dev, history>>

(* Mutant: the cleared control word is not written to the guest's RAM. *)
TxFinishNoWrite ==
  /\ vpc = "finish"
  /\ vpc' = "guest"
  /\ UNCHANGED <<regs, ram, cursors, mutex, queues, vnext, vlink, todo, vbits, vnum,
                 vidx, rx, recv_ep, dev, history>>

(* The used descriptor goes back to the guest. *)
TxFinish ==
  /\ vpc = "finish"
  /\ txram' = [txram EXCEPT ![vlink][vidx] = FALSE]
  /\ vpc' = "guest"
  /\ UNCHANGED <<regs, rxram, rxbuf, cursors, mutex, queues, vnext, vlink, todo, vbits, vnum,
                 vidx, rx, recv_ep, dev, history>>

TxStop ==
  /\ OpsDone("guest")
  /\ vpc' = "guest"
  /\ UNCHANGED <<regs, ram, cursors, mutex, queues, vnext, vlink, todo, vbits, vnum, vidx,
                 rx, recv_ep, dev, history>>

----------------------------------------------------------------------------
(***************************************************************************)
(* The rx thread.                                                          *)
(***************************************************************************)
RxReceive ==
  /\ rpc = "recv"
  /\ devq # <<>>
  /\ rmsg' = Head(devq)
  /\ devq' = Tail(devq)
  /\ rpc' = CASE Head(devq).pword = "ack"  -> "ack"
              [] Head(devq).pword = "data" -> "enabled"
              [] Head(devq).pword = "time" -> "time"
  /\ UNCHANGED <<regs, ram, cursors, mutex, spwq, vcpu, rnext, rop, rbits, ridx,
                 recv_ep, dev, history>>

(* The handler returns; what it held of the message is dead. *)
RxReturn == rpc' = "recv" /\ rmsg' = NoMessage

(* Mutant: the mutex is taken around the signal, as manuals recommend. *)
RxSignalLocked ==
  /\ rpc = "ack"
  /\ mutex = "free"
  /\ vpc' = IF vpc = "waiting" THEN "relock" ELSE vpc
  /\ RxReturn
  /\ UNCHANGED <<regs, ram, cursors, mutex, queues, vnext, vlink, todo, vbits, vnum, vidx,
                 rnext, rop, rbits, ridx, recv_ep, dev, history>>

(* pthread_cond_signal reaches a thread that is waiting, or nobody. *)
RxSignal ==
  /\ rpc = "ack"
  /\ vpc' = IF vpc = "waiting" THEN "relock" ELSE vpc
  /\ RxReturn
  /\ UNCHANGED <<regs, ram, cursors, mutex, queues, vnext, vlink, todo, vbits, vnum, vidx,
                 rnext, rop, rbits, ridx, recv_ep, dev, history>>

(* A read-modify-write of this thread: load, store, go on at rnext. *)
RxModify(op, label) == rpc' = "load" /\ rop' = op /\ rnext' = label

RxLoad ==
  /\ rpc = "load"
  /\ rbits' = IF rop.reg = "str" THEN str[rmsg.link] ELSE chn[rmsg.link]
  /\ rpc' = "store"
  /\ UNCHANGED <<regs, ram, cursors, mutex, queues, vcpu, rnext, rmsg, rop, ridx,
                 recv_ep, dev, history>>

RxStore ==
  /\ rpc = "store"
  /\ IF rop.reg = "str"
       THEN str' = [str EXCEPT ![rmsg.link] = Modify(rbits, rop)] /\ UNCHANGED chn
       ELSE chn' = [chn EXCEPT ![rmsg.link] = Modify(rbits, rop)] /\ UNCHANGED str
  /\ rbits' = {}
  /\ IF rnext = "recv" THEN RxReturn ELSE rpc' = rnext /\ UNCHANGED rmsg
  /\ UNCHANGED <<ctr, tim, ndr, ram, cursors, mutex, queues, vcpu, rnext, rop, ridx,
                 recv_ep, dev, history>>

(* grlib_comgrspw_rxenable: the three checks, each at its own moment. *)
RxCheck(here, cond, next) ==
  /\ rpc = here
  /\ IF cond THEN rpc' = next /\ UNCHANGED rmsg ELSE RxReturn
  /\ UNCHANGED <<regs, ram, cursors, mutex, queues, vcpu, rnext, rop, rbits, ridx,
                 recv_ep, dev, history>>

RxCheckEnabled == RxCheck("enabled", checkbit(chn[rmsg.link], {"RE"}), "address")
RxCheckAddress ==
  RxCheck("address", checkbit(ctr[rmsg.link], {"OPM"}) \/ ndr[rmsg.link] = rmsg.addr, "available")
RxCheckAvailable == RxCheck("available", checkbit(chn[rmsg.link], {"RD"}), "fetch")

RxFetch ==
  /\ rpc = "fetch"
  /\ ridx' = rxd_cur[rmsg.link]
  /\ IF ~rxram[rmsg.link][rxd_cur[rmsg.link]].en
       THEN RxModify(Rmw("chn", {"RD"}, {}), "recv")
       ELSE IF recv_ep
         THEN RxModify(Rmw("str", {}, {"EE"}), "copy")
         ELSE rpc' = "copy" /\ UNCHANGED <<rop, rnext>>
  /\ UNCHANGED <<regs, ram, cursors, mutex, queues, vcpu, rmsg, rbits, recv_ep, dev, history>>

(* Mutant: EN is cleared in the guest's RAM together with the copy. *)
RxCopyClearsEn ==
  /\ rpc = "copy"
  /\ rxbuf' = [rxbuf EXCEPT ![rmsg.link][ridx] = rmsg.num]
  /\ rxram' = [rxram EXCEPT ![rmsg.link][ridx].en = FALSE]
  /\ rxowed' = [rxowed EXCEPT ![rmsg.link] = @ - 1]
  /\ RxModify(Rmw("chn", {}, {"PR"}), "giveback")
  /\ UNCHANGED <<regs, txram, cursors, mutex, queues, vcpu, rmsg, rbits, ridx,
                 recv_ep, dev, txowed, strays>>

(* Mutant: the data goes to the first buffer, not to the current one. *)
RxCopyFirst ==
  /\ rpc = "copy"
  /\ rxbuf' = [rxbuf EXCEPT ![rmsg.link][0] = rmsg.num]
  /\ rxowed' = [rxowed EXCEPT ![rmsg.link] = @ - 1]
  /\ RxModify(Rmw("chn", {}, {"PR"}), "giveback")
  /\ UNCHANGED <<regs, txram, rxram, cursors, mutex, queues, vcpu, rmsg, rbits, ridx,
                 recv_ep, dev, txowed, strays>>

RxCopy ==
  /\ rpc = "copy"
  /\ rxbuf' = [rxbuf EXCEPT ![rmsg.link][ridx] = rmsg.num]
  /\ rxowed' = [rxowed EXCEPT ![rmsg.link] = @ - 1]
  /\ RxModify(Rmw("chn", {}, {"PR"}), "giveback")
  /\ UNCHANGED <<regs, txram, rxram, cursors, mutex, queues, vcpu, rmsg, rbits, ridx,
                 recv_ep, dev, txowed, strays>>

(* Mutant: the length is written back with EN still set. *)
RxGiveBackEnabled ==
  /\ rpc = "giveback"
  /\ rxram' = [rxram EXCEPT ![rmsg.link][ridx] = [en |-> TRUE, num |-> rmsg.num]]
  /\ rxd_cur' = [rxd_cur EXCEPT ![rmsg.link] = Successor(@, ridx = RxRing - 1, NbRxDescriptor)]
  /\ RxReturn
  /\ UNCHANGED <<regs, txram, rxbuf, txd_cur, mutex, queues, vcpu, rnext, rop, rbits, ridx,
                 recv_ep, dev, history>>

RxGiveBack ==
  /\ rpc = "giveback"
  /\ rxram' = [rxram EXCEPT ![rmsg.link][ridx] = [en |-> FALSE, num |-> rmsg.num]]
  /\ rxd_cur' = [rxd_cur EXCEPT ![rmsg.link] = Successor(@, ridx = RxRing - 1, NbRxDescriptor)]
  /\ RxReturn
  /\ UNCHANGED <<regs, txram, rxbuf, txd_cur, mutex, queues, vcpu, rnext, rop, rbits, ridx,
                 recv_ep, dev, history>>

(* grlib_comgrspw_rxtimecode *)
RxTimeCompare == RxCheck("time", tim[rmsg.link] < rmsg.num, "settime")

RxTimeStore ==
  /\ rpc = "settime"
  /\ tim' = [tim EXCEPT ![rmsg.link] = rmsg.num]
  /\ RxModify(Rmw("str", {}, {"TO"}), "recv")
  /\ UNCHANGED <<ctr, str, chn, ndr, ram, cursors, mutex, queues, vcpu, rmsg, rbits, ridx,
                 recv_ep, dev, history>>

----------------------------------------------------------------------------
(***************************************************************************)
(* The device: one thread that answers every data message with one ack,    *)
(* and between two messages may send data and time codes of its own.       *)
(***************************************************************************)
DevReceive ==
  /\ dev = NoLink
  /\ spwq # <<>>
  /\ dev' = IF Head(spwq).pword = "data" THEN Head(spwq).link ELSE NoLink
  /\ spwq' = Tail(spwq)
  /\ UNCHANGED <<regs, ram, cursors, mutex, devq, vcpu, rx, recv_ep, history>>

DevAck ==
  /\ dev # NoLink
  /\ Len(devq) < QMax
  /\ devq' = Append(devq, Packet(dev, "ack", 0))
  /\ dev' = NoLink
  /\ UNCHANGED <<regs, ram, cursors, mutex, spwq, vcpu, rx, recv_ep, history>>

DevSend(m) ==
  /\ dev = NoLink
  /\ Len(devq) < QMax
  /\ devq' = Append(devq, m)
  /\ UNCHANGED <<regs, ram, cursors, mutex, spwq, vcpu, rx, recv_ep, dev, history>>

(* The device's process starts again and connects to the queues as they    *)
(* are: the ack it owed is forgotten.                                      *)
DevRestart ==
  /\ DeviceRestarts
  /\ dev # NoLink
  /\ dev' = NoLink
  /\ UNCHANGED <<regs, ram, cursors, mutex, queues, vcpu, rx, recv_ep, history>>

(* QEMU starts again.  POSIX queues outlive their processes, and mq_open   *)
(* without O_EXCL or mq_unlink takes them with what is still in them.      *)
QemuRestart ==
  /\ strays < MaxStrays
  /\ strays' = strays + 1
  /\ ctr' = Each({"RE", "LS"}) /\ str' = Each({}) /\ chn' = Each({})
  /\ tim' = Each(0) /\ ndr' = Each(254)
  /\ txram' = Each([i \in 0..(TxRing - 1) |-> FALSE])
  /\ rxram' = Each([i \in 0..(RxRing - 1) |-> [en |-> FALSE, num |-> 0]])
  /\ rxbuf' = Each([i \in 0..(RxRing - 1) |-> 0])
  /\ txd_cur' = Each(0) /\ rxd_cur' = Each(0)
  /\ mutex' = "free"
  /\ vpc' = "guest" /\ vnext' = "guest" /\ vlink' = NoLink /\ todo' = <<>>
  /\ vbits' = {} /\ vnum' = 0 /\ vidx' = 0
  /\ rpc' = "recv" /\ rnext' = "recv" /\ rmsg' = NoMessage /\ rop' = Rmw("chn", {}, {})
  /\ rbits' = {} /\ ridx' = 0
  /\ recv_ep' \in BOOLEAN
  /\ txowed' = Each(0) /\ rxowed' = Each(0)
  /\ UNCHANGED <<queues, dev>>

----------------------------------------------------------------------------
Guest ==
  \/ \E l \in Links, i \in 0..(TxRing - 1) : GuestArmTx(l, i)
  \/ \E l \in Links, i \in 0..(RxRing - 1) : GuestArmRx(l, i)
  \/ \E l \in Links, w \in GuestWrites : GuestWrite(l, w)
  \/ GuestRead

Handler ==
  \/ ReadLocked
  \/ OpLoad \/ OpStore \/ OpCtr \/ OpSet \/ OpTimeLoad \/ OpTickStore \/ OpTimecode
  \/ TxEnable \/ TxFetch \/ TxSend \/ TxWait \/ TxRelock \/ TxFinish \/ TxStop

RxThread ==
  \/ RxReceive \/ RxSignal \/ RxLoad \/ RxStore
  \/ RxCheckEnabled \/ RxCheckAddress \/ RxCheckAvailable \/ RxFetch \/ RxCopy \/ RxGiveBack
  \/ RxTimeCompare \/ RxTimeStore

Device == DevReceive \/ DevAck \/ \E m \in DevSends : DevSend(m)

Faults == TxSpuriousWakeup \/ DevRestart \/ QemuRestart

Next == Guest \/ Handler \/ RxThread \/ Device \/ Faults

Spec == Init /\ [][Next]_vars

(* The host schedules both threads, and the peer keeps serving its queue.  *)
(* Nothing makes the guest act, a wait end by itself or the peer talk.     *)
Fairness ==
  /\ WF_vars(Handler)
  /\ WF_vars(RxThread)
  /\ WF_vars(DevReceive)
  /\ WF_vars(DevAck)

FairSpec == Spec /\ Fairness

----------------------------------------------------------------------------
(***************************************************************************)
(* Properties.                                                             *)
(***************************************************************************)
VcpuLabels == {"guest", "rdlock", "ops", "store", "tick", "timecode", "fetch", "send",
               "waiting", "relock", "finish"}
RxLabels == {"recv", "ack", "enabled", "address", "available", "fetch", "copy",
             "giveback", "time", "settime", "load", "store"}

RegsType ==
  /\ ctr \in [Links -> SUBSET Bits]
  /\ str \in [Links -> SUBSET Bits]
  /\ chn \in [Links -> SUBSET Bits]
  /\ tim \in [Links -> Byte]
  /\ ndr \in [Links -> Byte]

RxDescriptor == [en : BOOLEAN, num : Byte]
RamType ==
  /\ txram \in [Links -> [0..(TxRing - 1) -> BOOLEAN]]
  /\ rxram \in [Links -> [0..(RxRing - 1) -> RxDescriptor]]
  /\ rxbuf \in [Links -> [0..(RxRing - 1) -> Byte]]

CursorsType ==
  /\ txd_cur \in [Links -> 0..(TxRing - 1)]
  /\ rxd_cur \in [Links -> 0..(RxRing - 1)]

QueuesType ==
  /\ spwq \in Seq(Message) /\ Len(spwq) <= QMax
  /\ devq \in Seq(Message) /\ Len(devq) <= QMax

VcpuType ==
  /\ vpc \in VcpuLabels
  /\ vnext \in {"guest", "txenable", "wait"}
  /\ vlink \in Links \cup {NoLink}
  /\ todo \in Seq(Op)
  /\ vbits \in SUBSET Bits
  /\ vnum \in Byte
  /\ vidx \in 0..(TxRing - 1)

RxType ==
  /\ rpc \in RxLabels
  /\ rnext \in {"recv", "copy", "giveback"}
  /\ rmsg \in Message
  /\ rop \in Op
  /\ rbits \in SUBSET Bits
  /\ ridx \in 0..(RxRing - 1)

OtherType ==
  /\ mutex \in {"free", "vcpu"}
  /\ recv_ep \in BOOLEAN
  /\ dev \in Links \cup {NoLink}
  /\ txowed \in [Links -> Int]
  /\ rxowed \in [Links -> Int]
  /\ strays \in 0..MaxStrays

(* Every variable has its type; the cursors never leave the driver's rings *)
(* and the queues never hold more than mq_maxmsg messages.                 *)
TypeOK ==
  RegsType /\ RamType /\ CursorsType /\ QueuesType /\ VcpuType /\ RxType /\ OtherType

(* A message of the packet/ack handshake, wherever it is. *)
DataAt(i) == i \in 1..Len(spwq) /\ spwq[i].pword = "data"
AckAt(i) == i \in 1..Len(devq) /\ devq[i].pword = "ack"

(* The vCPU thread has sent a packet and its wait has not ended. *)
Sent == vpc \in {"ops", "store", "tick", "timecode"} /\ vnext = "wait"
InFlight == Sent \/ vpc = "waiting"

(* Stop and wait across all links: the packets on their way to the device, *)
(* the ack the device owes, the acks on their way back and the ack the rx  *)
(* thread is handling are one at most, and only while the vCPU thread is   *)
(* between its send and the end of its wait.  So an ack can only end the   *)
(* wait of the transmission it answers, although txwaitack looks at no     *)
(* link id and one condition variable serves four links.                   *)
AckHandshake ==
  /\ \A i, j \in 1..QMax : DataAt(i) /\ DataAt(j) => i = j
  /\ \A i, j \in 1..QMax : AckAt(i) /\ AckAt(j) => i = j
  /\ \A i, j \in 1..QMax : ~(DataAt(i) /\ AckAt(j))
  /\ \A i \in 1..QMax : DataAt(i) => spwq[i].link = vlink
  /\ \A i \in 1..QMax : AckAt(i) => devq[i].link = vlink
  /\ (\E i \in 1..QMax : DataAt(i) \/ AckAt(i)) => InFlight /\ dev = NoLink /\ rpc # "ack"
  /\ dev # NoLink => InFlight /\ dev = vlink /\ rpc # "ack"
  /\ rpc = "ack" => InFlight /\ rmsg.link = vlink

(* The same as an implementation: the two threads, the queues and the      *)
(* device implement StopAndWait, so a wait ends only in the step that      *)
(* takes the ack of the packet last sent, and nothing is sent before that. *)
PacketQueued == \E i \in 1..Len(spwq) : DataAt(i)
AckQueued == \E i \in 1..Len(devq) : AckAt(i)
Token ==
  IF PacketQueued THEN "packet"
  ELSE IF dev # NoLink THEN "owed"
  ELSE IF rpc = "ack" \/ AckQueued THEN "ack"
  ELSE "none"
Busy == IF InFlight THEN vlink ELSE NoLink
SW == INSTANCE StopAndWait WITH busy <- Busy, token <- Token
ImplementsStopAndWait == SW!Spec

(* The rx thread holds the descriptor it fetched until it gives it back. *)
Receiving ==
  \/ rpc \in {"copy", "giveback"}
  \/ rpc \in {"load", "store"} /\ rnext \in {"copy", "giveback"}

(* The index a thread took before its work is still the link's current     *)
(* descriptor when the thread advances the cursor with it, and the         *)
(* descriptor it names is still the device's.                              *)
HeldDescriptors ==
  /\ vpc \notin {"guest", "rdlock"} => vlink \in Links
  /\ vpc \in {"store", "tick", "timecode"} => todo # <<>>
  /\ vpc = "send" \/ Sent => vidx = txd_cur[vlink]
  /\ vpc = "send" \/ InFlight \/ vpc \in {"relock", "finish"} => txram[vlink][vidx]
  /\ Receiving => ridx = rxd_cur[rmsg.link] /\ rxram[rmsg.link][ridx].en

(* Each wait that ends without its ack, and each restart of QEMU, leaves   *)
(* one packet or ack behind at most, and nothing else does: what travels   *)
(* beside the packet being waited for is never more than those.            *)
HandshakeMessages ==
  Cardinality({i \in 1..Len(spwq) : DataAt(i)}) + Cardinality({i \in 1..Len(devq) : AckAt(i)})
  + (IF dev # NoLink THEN 1 ELSE 0) + (IF rpc = "ack" THEN 1 ELSE 0)
StraysBounded == HandshakeMessages <= strays + (IF InFlight THEN 1 ELSE 0)

Armed(table) == Cardinality({i \in DOMAIN table : table[i]})
TxUnanswered(l) == vlink = l /\ (InFlight \/ vpc \in {"relock", "finish"})

(* Each enabled Tx descriptor is sent once: a descriptor that went out is  *)
(* the only one not yet given back, and it is given back.                  *)
TxExactlyOnce ==
  \A l \in Links : txowed[l] = Armed(txram[l]) - (IF TxUnanswered(l) THEN 1 ELSE 0)

(* The rx thread has filled a buffer and has still to say so. *)
RxUsed == rpc = "giveback" \/ (rpc \in {"load", "store"} /\ rnext = "giveback")

(* Its buffer then holds the packet it is about to describe. *)
BufferFilled == RxUsed => rxbuf[rmsg.link][ridx] = rmsg.num

(* Each enabled Rx descriptor takes one packet. *)
RxExactlyOnce ==
  \A l \in Links : rxowed[l] = Cardinality({i \in DOMAIN rxram[l] : rxram[l][i].en})
                                - (IF RxUsed /\ rmsg.link = l THEN 1 ELSE 0)

(* A descriptor in the guest's hands describes what its buffer holds: the  *)
(* data is in RAM before the length and EN = 0 are.                        *)
RxBufferComplete ==
  \A l \in Links : \A i \in 0..(RxRing - 1) :
    ~rxram[l][i].en => rxram[l][i].num = rxbuf[l][i]

(* Is bit b of register r set once the operations ops are done?  The last  *)
(* one that names the bit decides it; word is the register before them.    *)
Names(op, r, b) == op.reg = r /\ b \in op.clr \cup op.set
SetAfter(r, b, ops, word) ==
  IF \E i \in DOMAIN ops : Names(ops[i], r, b)
  THEN \E i \in DOMAIN ops : /\ Names(ops[i], r, b) /\ b \in ops[i].set
                             /\ \A j \in DOMAIN ops : Names(ops[j], r, b) => j <= i
  ELSE b \in word

(* SPWCTR and SPWSTR of a link as the vCPU thread will leave them if       *)
(* nothing comes between its steps; a word it has loaded it will store.    *)
Pending(l) ==
  IF vlink = l /\ vpc \in {"ops", "store", "tick", "timecode"} THEN todo ELSE <<>>
Loaded(l) == vlink = l /\ vpc = "store" /\ Head(todo).reg = "str"
CtrAfter(l, b) == SetAfter("ctr", b, Pending(l), ctr[l])
StrAfter(l, b) == SetAfter("str", b, Pending(l), IF Loaded(l) THEN vbits ELSE str[l])

(* A link that runs was started and not disabled since, and a disabled     *)
(* link is in the reset state.                                             *)
LinkInStep(l) ==
  /\ (\A b \in LinkRun : StrAfter(l, b)) => CtrAfter(l, "LS") /\ ~CtrAfter(l, "LD")
  /\ CtrAfter(l, "LD") => \A b \in LinkState : ~StrAfter(l, b)

(* The rx thread is about to store a flag of SPWSTR in a word whose link   *)
(* state is no longer that of the register.                                *)
StaleLinkStore(l) ==
  /\ rpc = "store" /\ rop.reg = "str" /\ rmsg.link = l
  /\ rbits \cap LinkState # str[l] \cap LinkState

(* Link state and the LS and LD bits are changed by separate steps of the  *)
(* vCPU thread, with any combination of LS and LD in one write and with    *)
(* both threads storing flags in SPWSTR: the one step that can put them at *)
(* odds is a store of the rx thread that brings an older link state back.  *)
LinkLostToStaleStore ==
  [][\A l \in Links : LinkInStep(l) /\ ~LinkInStep(l)' => StaleLinkStore(l)]_vars

(* The rx thread never waits for anybody: a full /devq gets room.          *)
RxNeverStalls == (Len(devq) = QMax) ~> (Len(devq) < QMax)

(* A register write returns, or ends up waiting for an ack: neither a full *)
(* /spwq nor the mutex the thread may hold already blocks it for ever.     *)
WriteReturnsOrWaits == (vpc \notin {"guest", "waiting", "rdlock"}) ~> (vpc \in {"guest", "waiting"})

(* An ack handled while the vCPU thread waits gives the guest its          *)
(* processor back.                                                         *)
AckEndsWait == (vpc = "waiting" /\ rpc = "ack") ~> (vpc = "guest")

(* "upon device ack message, continue Tx thread" (coregrspw.c:86). *)
EveryAckContinues == (vpc = "waiting") ~> (vpc = "guest")

(* A register read returns: "\return The register value" (reggrspw.c:305). *)
ReadReturns == (vpc = "rdlock") ~> (vpc = "guest")

(* "Clear bits: bits are reset when a '1' is written" (reggrspw.c:232):    *)
(* the status bits of SPWCHN and SPWSTR go from 1 to 0 only where a write  *)
(* handler stores the word with such a '1' in hand.                        *)
Requested(l, r) ==
  IF vlink = l /\ vpc = "store" /\ Head(todo).reg = r THEN Head(todo).clr ELSE {}
ClearBitsKept ==
  [][\A l \in Links : /\ (chn[l] \ chn'[l]) \cap ChnClear \subseteq Requested(l, "chn")
                       /\ (str[l] \ str'[l]) \cap StrClear \subseteq Requested(l, "str")]_vars
=============================================================================
