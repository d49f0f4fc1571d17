--------------------------- MODULE GrspwRingProofs ---------------------------
(***************************************************************************)
(* Proofs about the descriptor tables of GrspwDevice: rings of every size  *)
(* shorter than the transmit table, for a driver that sets WR in the last  *)
(* descriptor of its ring and does not reset the node.                     *)
(***************************************************************************)
EXTENDS GrspwDeviceProofs

(* What the theorems assume of the driver. *)
Driver ==
  /\ WrapBit
  /\ TxRing < C_NB_TX_DESCRIPTOR
  /\ \A w \in GuestWrites : ~(w.reg = "ctr" /\ "RS" \in w.bits)

----------------------------------------------------------------------------
(* The driver's record of a ring: it starts at the table register's        *)
(* descriptor, follows the ring, repeats nothing, and names the            *)
(* descriptors the driver finds enabled.                                   *)
Follow(i, ring) == IF i = ring - 1 THEN 0 ELSE i + 1

Ring(armed, enabled, sel, ring) ==
  /\ sel \in 0..(ring - 1)
  /\ \A k \in 1..Len(armed) : armed[k] \in 0..(ring - 1)
  /\ \A k \in 1..(Len(armed) - 1) : armed[k + 1] = Follow(armed[k], ring)
  /\ armed # <<>> => armed[1] = sel
  /\ \A j, k \in 1..Len(armed) : armed[j] = armed[k] => j = k
  /\ enabled = {armed[k] : k \in 1..Len(armed)}

(* The follower of a descriptor is the next one modulo the ring.          *)
LEMMA FollowType ==
  ASSUME NEW ring \in Nat \ {0}, NEW i \in 0..(ring - 1)
  PROVE  /\ Follow(i, ring) \in 0..(ring - 1)
         /\ (i + 1) % ring = Follow(i, ring)
<1>1. CASE i = ring - 1
  <2>1. i + 1 = ring
    BY <1>1
  <2>2. ring % ring = 0
    OBVIOUS
  <2> QED
    BY <1>1, <2>1, <2>2 DEF Follow
<1>2. CASE i # ring - 1
  BY <1>2 DEF Follow
<1> QED
  BY <1>1, <1>2

(* With WR in the last descriptor of the ring the device walks the ring,   *)
(* whatever the size of the table.                                         *)
LEMMA SuccessorFollows ==
  ASSUME NEW size \in Nat \ {0}, NEW ring \in 1..size, NEW i \in 0..(ring - 1),
         NEW wr \in BOOLEAN, wr <=> i = ring - 1
  PROVE  Successor(i, wr, size) = Follow(i, ring)
<1>1. CASE wr
  BY <1>1 DEF Successor, Follow
<1>2. CASE ~wr
  <2>1. i + 1 < size
    BY <1>2
  <2>2. (i + 1) % size = i + 1
    BY <2>1
  <2> QED
    BY <1>2, <2>2 DEF Successor, Follow
<1> QED
  BY <1>1, <1>2

(* The driver arms one more descriptor. *)
LEMMA RingArm ==
  ASSUME NEW S, NEW armed \in Seq(S), NEW enabled, NEW sel \in S, NEW ring \in Nat \ {0},
         Ring(armed, enabled, sel, ring),
         NEW i \in S, i = NextToArm(armed, sel, ring), i \notin enabled
  PROVE  Ring(Append(armed, i), enabled \cup {i}, sel, ring)
<1> DEFINE n == Len(armed)
           a == Append(armed, i)
<1>1. /\ n \in Nat /\ a \in Seq(S) /\ Len(a) = n + 1 /\ a[n + 1] = i
      /\ \A k \in 1..n : a[k] = armed[k]
      /\ armed # <<>> => n > 0
  OBVIOUS
<1>2. i \in 0..(ring - 1) /\ (armed # <<>> => i = Follow(armed[n], ring))
  <2>1. CASE armed = <<>>
    BY <2>1 DEF Ring, NextToArm
  <2>2. CASE armed # <<>>
    <3>1. armed[n] \in 0..(ring - 1)
      BY <2>2, <1>1 DEF Ring
    <3>2. i = (armed[n] + 1) % ring
      BY <2>2 DEF NextToArm
    <3> QED
      BY <3>1, <3>2, FollowType
  <2> QED
    BY <2>1, <2>2
<1>3. \A k \in 1..n : armed[k] # i
  BY DEF Ring
<1> HIDE DEF a, n
<1>4. ASSUME NEW k \in 1..Len(a)
      PROVE  a[k] \in 0..(ring - 1)
  <2>1. k \in 1..n \/ k = n + 1
    BY <1>1
  <2>2. CASE k \in 1..n
    <3>1. armed[k] \in 0..(ring - 1)
      BY <2>2 DEF Ring, n
    <3> QED
      BY <1>1, <2>2, <3>1
  <2>3. CASE k = n + 1
    BY <1>1, <1>2, <2>3
  <2> QED
    BY <2>1, <2>2, <2>3
<1>5. ASSUME NEW k \in 1..(Len(a) - 1)
      PROVE  a[k + 1] = Follow(a[k], ring)
  <2>1. CASE k = n
    BY <2>1, <1>1, <1>2, <1>5 DEF n
  <2>2. CASE k # n
    BY <2>2, <1>1, <1>5 DEF Ring, n
  <2> QED
    BY <2>1, <2>2
<1>6. a[1] = sel
  <2>1. CASE armed = <<>>
    BY <2>1, <1>1 DEF NextToArm, n
  <2>2. CASE armed # <<>>
    BY <2>2, <1>1 DEF Ring
  <2> QED
    BY <2>1, <2>2
<1>7. \A j, k \in 1..Len(a) : a[j] = a[k] => j = k
  <2>1. ASSUME NEW j \in 1..n, NEW k \in 1..n, a[j] = a[k]
        PROVE  j = k
    BY <2>1, <1>1 DEF Ring, n
  <2>2. \A k \in 1..n : a[k] # a[n + 1]
    BY <1>1, <1>3
  <2>3. \A k \in 1..Len(a) : k \in 1..n \/ k = n + 1
    BY <1>1
  <2> QED
    BY <2>1, <2>2, <2>3
<1>8. enabled \cup {i} = {a[k] : k \in 1..Len(a)}
  <2>1. 1..Len(a) = (1..n) \cup {n + 1}
    BY <1>1
  <2>2. enabled = {a[k] : k \in 1..n}
    BY <1>1 DEF Ring, n
  <2> QED
    BY <2>1, <2>2, <1>1
<1> QED
  BY <1>4, <1>5, <1>6, <1>7, <1>8 DEF Ring, a

(* The device uses the descriptor the table register points at: it is the  *)
(* oldest one.                                                             *)
LEMMA RingUse ==
  ASSUME NEW S, NEW armed \in Seq(S), NEW enabled, NEW sel, NEW ring \in Nat \ {0},
         Ring(armed, enabled, sel, ring), sel \in enabled
  PROVE  /\ armed # <<>> /\ Head(armed) = sel
         /\ Used(armed, sel) = Tail(armed)
         /\ Ring(Tail(armed), enabled \ {sel}, Follow(sel, ring), ring)
<1> DEFINE n == Len(armed)
           t == Tail(armed)
<1>1. armed # <<>>
  BY DEF Ring
<1>2. /\ n \in Nat \ {0} /\ Head(armed) = armed[1] /\ t \in Seq(S) /\ Len(t) = n - 1
      /\ \A k \in 1..(n - 1) : t[k] = armed[k + 1]
  BY <1>1
<1>3. Head(armed) = sel
  BY <1>1, <1>2 DEF Ring
<1>4. Used(armed, sel) = t
  BY <1>1, <1>3 DEF Used
<1> HIDE DEF n, t
<1>5. Follow(sel, ring) \in 0..(ring - 1)
  BY FollowType DEF Ring
<1>6. \A k \in 1..Len(t) : t[k] \in 0..(ring - 1)
  BY <1>2 DEF Ring, n
<1>7. ASSUME NEW k \in 1..(Len(t) - 1)
      PROVE  t[k + 1] = Follow(t[k], ring)
  <2>1. /\ k \in 1..(n - 1) /\ k + 1 \in 1..(n - 1)
    BY <1>2, <1>7
  <2>2. t[k] = armed[k + 1] /\ t[k + 1] = armed[(k + 1) + 1] /\ k + 1 \in 1..(Len(armed) - 1)
    BY <1>2, <2>1 DEF n
  <2>3. armed[(k + 1) + 1] = Follow(armed[k + 1], ring)
    BY <2>2 DEF Ring
  <2> QED
    BY <2>2, <2>3
<1>8. t # <<>> => t[1] = Follow(sel, ring)
  BY <1>2, <1>3 DEF Ring, n
<1>9. \A j, k \in 1..Len(t) : t[j] = t[k] => j = k
  <2>1. ASSUME NEW j \in 1..Len(t), NEW k \in 1..Len(t), t[j] = t[k]
        PROVE  j = k
    <3>1. /\ j + 1 \in 1..n /\ k + 1 \in 1..n /\ armed[j + 1] = armed[k + 1]
          /\ j \in Nat /\ k \in Nat
      BY <2>1, <1>2
    <3>2. j + 1 = k + 1
      BY <3>1 DEF Ring, n
    <3> QED
      BY <3>1, <3>2
  <2> QED
    BY <2>1
<1>10. enabled \ {sel} = {t[k] : k \in 1..Len(t)}
  <2>1. \A k \in 1..Len(t) : t[k] \in enabled /\ t[k] # sel
    BY <1>2, <1>3 DEF Ring, n
  <2>2. \A k \in 2..n : armed[k] = t[k - 1]
    BY <1>2
  <2>3. ASSUME NEW i \in enabled, i # sel
        PROVE  \E k \in 1..Len(t) : t[k] = i
    <3>1. PICK k \in 1..n : armed[k] = i
      BY DEF Ring, n
    <3>2. k \in 2..n
      BY <3>1, <2>3, <1>2, <1>3
    <3> QED
      BY <3>1, <3>2, <2>2, <1>2
  <2> QED
    BY <2>1, <2>3
<1> QED
  BY <1>1, <1>3, <1>4, <1>5, <1>6, <1>7, <1>8, <1>9, <1>10 DEF Ring, t

----------------------------------------------------------------------------
(* The inductive invariant: each direction's ring, and the two cursors.    *)
TxEnabled == {i \in TxIndex : txram[i].en}
RxEnabled == {i \in RxIndex : rxram[i].en}

TxRingOK ==
  /\ reg.txd.base /\ txd_cur = reg.txd.sel
  /\ Ring(txarmed, TxEnabled, reg.txd.sel, TxRing)
  /\ \A i \in TxIndex : txram[i].en => (txram[i].wr <=> i = TxRing - 1)

RxRingOK ==
  /\ reg.rxd.base /\ rxd_cur = reg.rxd.sel
  /\ Ring(rxarmed, RxEnabled, reg.rxd.sel, RxRing)
  /\ \A i \in RxIndex : rxram[i].en => (rxram[i].wr <=> i = RxRing - 1)

(* At the start both rings are empty and start at descriptor 0.            *)
LEMMA RingInit ==
  ASSUME Init
  PROVE  TxRingOK /\ RxRingOK
<1>1. TxEnabled = {} /\ RxEnabled = {}
  BY DEF Init, TxEnabled, RxEnabled, TxIndex, RxIndex, TxFree, RxFree
<1>2. /\ reg.txd.base /\ reg.txd.sel = 0 /\ reg.rxd.base /\ reg.rxd.sel = 0
      /\ txd_cur = 0 /\ rxd_cur = 0 /\ txarmed = <<>> /\ rxarmed = <<>>
  BY DEF Init, InitReg, reset_registers, Unprogrammed
<1>3. 0 \in 0..(TxRing - 1) /\ 0 \in 0..(RxRing - 1)
  BY DeviceAssumption
<1>4. Ring(<<>>, {}, 0, TxRing) /\ Ring(<<>>, {}, 0, RxRing)
  BY <1>3 DEF Ring
<1>5. /\ \A i \in TxIndex : ~txram[i].en
      /\ \A i \in RxIndex : ~rxram[i].en
  BY <1>1 DEF TxEnabled, RxEnabled
<1> QED
  BY <1>1, <1>2, <1>4, <1>5 DEF TxRingOK, RxRingOK

(* A step that leaves a direction alone. *)
LEMMA TxRingKept ==
  ASSUME TxRingOK, UNCHANGED <<reg.txd, txd_cur, txram, txarmed>>
  PROVE  TxRingOK' /\ UNCHANGED TxTable!vars
BY DEF TxRingOK, TxEnabled, TxTable!vars

(* The same for the receive direction.                                     *)
LEMMA RxRingKept ==
  ASSUME RxRingOK, UNCHANGED <<reg.rxd, rxd_cur, rxram, rxarmed>>
  PROVE  RxRingOK' /\ UNCHANGED RxTable!vars
BY DEF RxRingOK, RxEnabled, RxTable!vars

(* The driver arms a transmit descriptor.                                  *)
LEMMA TxRingArm ==
  ASSUME Driver, DeviceTypeOK, TxRingOK, NEW len \in Lengths, GuestArmTx(len)
  PROVE  TxRingOK' /\ TxTable!Next
<1> DEFINE i == NextToArm(txarmed, reg.txd.sel, TxRing)
<1>1. i \in TxIndex
  BY ArmedIndex, DeviceAssumption DEF DeviceTypeOK, Registers, TxIndex
<1>2. /\ ~txram[i].en
      /\ txram' = [txram EXCEPT ![i] = [en |-> TRUE, wr |-> WrapBit /\ i = TxRing - 1,
                                        len |-> len, data |-> BufferAddress]]
      /\ txarmed' = Append(txarmed, i)
      /\ UNCHANGED <<reg, txd_cur>>
  BY DEF GuestArmTx
<1> HIDE DEF i
<1>3. TxEnabled' = TxEnabled \cup {i} /\ i \notin TxEnabled
  BY <1>1, <1>2 DEF TxEnabled, DeviceTypeOK
<1>4. \A j \in TxIndex : txram'[j].en => (txram'[j].wr <=> j = TxRing - 1)
  BY <1>1, <1>2 DEF DeviceTypeOK, TxRingOK, Driver
<1>5. Ring(txarmed', TxEnabled', reg.txd.sel, TxRing)
  <2>1. /\ reg.txd.sel \in TxIndex /\ TxRing \in Nat \ {0} /\ txarmed \in Seq(TxIndex)
        /\ Ring(txarmed, TxEnabled, reg.txd.sel, TxRing)
    BY DeviceAssumption DEF TxRingOK, DeviceTypeOK, Registers
  <2>2. i = NextToArm(txarmed, reg.txd.sel, TxRing)
    BY DEF i
  <2>3. Ring(Append(txarmed, i), TxEnabled \cup {i}, reg.txd.sel, TxRing)
    BY <1>1, <1>3, <2>1, <2>2, RingArm
  <2> QED
    BY <1>2, <1>3, <2>3
<1>6. TxTable!Arm(i)
  BY <1>2, <1>3 DEF TxTable!Arm, TxEnabled
<1>7. TxRingOK'
  BY <1>2, <1>4, <1>5 DEF TxRingOK
<1>8. TxTable!Next
  BY <1>1, <1>6 DEF TxTable!Next, TxTable!Arm
<1> QED
  BY <1>7, <1>8

(* The driver arms a receive descriptor.                                   *)
LEMMA RxRingArm ==
  ASSUME Driver, DeviceTypeOK, RxRingOK, GuestArmRx
  PROVE  RxRingOK' /\ RxTable!Next
<1> DEFINE i == NextToArm(rxarmed, reg.rxd.sel, RxRing)
           d == [RxFree EXCEPT !.en = TRUE, !.wr = WrapBit /\ i = RxRing - 1]
<1>1. i \in RxIndex
  BY ArmedIndex, DeviceAssumption DEF DeviceTypeOK, Registers, RxIndex
<1>2. /\ ~rxram[i].en
      /\ rxram' = [rxram EXCEPT ![i] = d]
      /\ rxarmed' = Append(rxarmed, i)
      /\ UNCHANGED <<reg, rxd_cur>>
  BY DEF GuestArmRx
<1>3. d.en /\ (d.wr <=> i = RxRing - 1)
  BY DEF RxFree, Driver
<1> HIDE DEF i, d
<1>4. RxEnabled' = RxEnabled \cup {i} /\ i \notin RxEnabled
  BY <1>1, <1>2, <1>3 DEF RxEnabled, DeviceTypeOK
<1>5. \A j \in RxIndex : rxram'[j].en => (rxram'[j].wr <=> j = RxRing - 1)
  BY <1>1, <1>2, <1>3 DEF DeviceTypeOK, RxRingOK
<1>6. Ring(rxarmed', RxEnabled', reg.rxd.sel, RxRing)
  <2>1. /\ reg.rxd.sel \in RxIndex /\ RxRing \in Nat \ {0} /\ rxarmed \in Seq(RxIndex)
        /\ Ring(rxarmed, RxEnabled, reg.rxd.sel, RxRing)
    BY DeviceAssumption DEF RxRingOK, DeviceTypeOK, Registers
  <2>2. i = NextToArm(rxarmed, reg.rxd.sel, RxRing)
    BY DEF i
  <2>3. Ring(Append(rxarmed, i), RxEnabled \cup {i}, reg.rxd.sel, RxRing)
    BY <1>1, <1>4, <2>1, <2>2, RingArm
  <2> QED
    BY <1>2, <1>4, <2>3
<1>7. RxTable!Arm(i)
  BY <1>2, <1>4 DEF RxTable!Arm, RxEnabled
<1>8. RxRingOK'
  BY <1>2, <1>5, <1>6 DEF RxRingOK
<1>9. RxTable!Next
  BY <1>1, <1>7 DEF RxTable!Next, RxTable!Arm
<1> QED
  BY <1>8, <1>9

(* What using the descriptor the transmit table register points at does. *)
LEMMA TxOldest ==
  ASSUME DeviceTypeOK, TxRingOK, reg.txd.sel \in TxEnabled
  PROVE  /\ txarmed # <<>> /\ Head(txarmed) = reg.txd.sel
         /\ Used(txarmed, reg.txd.sel) = Tail(txarmed)
         /\ Ring(Tail(txarmed), TxEnabled \ {reg.txd.sel}, Follow(reg.txd.sel, TxRing), TxRing)
<1>1. /\ txarmed \in Seq(TxIndex) /\ TxRing \in Nat \ {0}
      /\ Ring(txarmed, TxEnabled, reg.txd.sel, TxRing)
  BY DeviceAssumption DEF TxRingOK, DeviceTypeOK
<1> QED
  BY <1>1, RingUse

(* txenable, for registers that differ from the link's in the flags only:  *)
(* it never reaches the last index of the table, and so never writes over  *)
(* the cursors; a descriptor it uses is the oldest.                        *)
LEMMA TxRingUse ==
  ASSUME Driver, DeviceTypeOK, TxRingOK, RxRingOK, NEW r \in Registers,
         r.txd = reg.txd, r.rxd = reg.rxd, txenable(r)
  PROVE  /\ TxRingOK' /\ (TxTable!Next \/ UNCHANGED TxTable!vars)
         /\ RxRingOK' /\ UNCHANGED RxTable!vars
<1> DEFINE sel == reg.txd.sel
           d == txram[sel]
           next == Successor(sel, d.wr, C_NB_TX_DESCRIPTOR)
<1>1. /\ TxRing \in Nat \ {0} /\ C_NB_TX_DESCRIPTOR \in Nat \ {0}
      /\ TxRing < C_NB_TX_DESCRIPTOR
      /\ sel \in 0..(TxRing - 1) /\ sel \in TxIndex /\ txd_cur = sel
      /\ d \in TxDescriptor
  BY DeviceAssumption DEF TxRingOK, Ring, Driver, DeviceTypeOK, Registers, TxIndex
<1>2. ~Overlaps
  BY <1>1 DEF Overlaps
<1>3. CASE ~checkbit(r.chn, {"TE"})
  <2>1. reg' = r /\ UNCHANGED <<txd_cur, txram, txarmed, rxd_cur, rxram, rxarmed>>
    BY <1>3 DEF txenable, tx, rx
  <2>2. UNCHANGED <<reg.txd, reg.rxd, txd_cur, txram, txarmed, rxd_cur, rxram, rxarmed>>
    BY <2>1
  <2> QED
    BY <2>2, TxRingKept, RxRingKept
<1>4. CASE checkbit(r.chn, {"TE"}) /\ ~d.en
  <2>1. /\ reg' = [r EXCEPT !.chn = clearbit(@, {"TE"})]
        /\ UNCHANGED <<txd_cur, txram, txarmed, rxd_cur, rxram, rxarmed>>
    BY <1>2, <1>4 DEF txenable
  <2>2. reg'.txd = reg.txd /\ reg'.rxd = reg.rxd
    BY <2>1 DEF Registers
  <2>3. UNCHANGED <<reg.txd, reg.rxd, txd_cur, txram, txarmed, rxd_cur, rxram, rxarmed>>
    BY <2>1, <2>2
  <2> QED
    BY <2>3, TxRingKept, RxRingKept
<1>5. CASE checkbit(r.chn, {"TE"}) /\ d.en
  <2>1. /\ reg' = [r EXCEPT !.chn = setbit(@, {"PS"}), !.txd.sel = next]
        /\ txd_cur' = next
        /\ txram' = [txram EXCEPT ![sel].en = FALSE]
        /\ txarmed' = Used(txarmed, sel)
        /\ UNCHANGED <<rxd_cur, rxram, rxarmed>>
    BY <1>1, <1>2, <1>5 DEF txenable
  <2>2. reg'.rxd = reg.rxd /\ reg'.txd.sel = next /\ reg'.txd.base = reg.txd.base
    BY <2>1 DEF Registers
  <2>3. RxRingOK' /\ UNCHANGED RxTable!vars
    BY <2>1, <2>2, RxRingKept
  <2>4. d.wr \in BOOLEAN /\ (d.wr <=> sel = TxRing - 1) /\ sel \in TxEnabled
    BY <1>1, <1>5 DEF TxRingOK, TxDescriptor, TxEnabled
  <2>5. next = Follow(sel, TxRing)
    BY <1>1, <2>4, SuccessorFollows
  <2> HIDE DEF next
  <2>6. TxEnabled' = TxEnabled \ {sel}
    BY <1>1, <2>1 DEF TxEnabled, DeviceTypeOK
  <2>7. /\ txarmed # <<>> /\ Head(txarmed) = sel /\ txarmed' = Tail(txarmed)
        /\ Ring(txarmed', TxEnabled', next, TxRing)
    <3>1. /\ txarmed # <<>> /\ Head(txarmed) = sel /\ Used(txarmed, sel) = Tail(txarmed)
          /\ Ring(Tail(txarmed), TxEnabled \ {sel}, Follow(sel, TxRing), TxRing)
      BY <2>4, TxOldest
    <3> QED
      BY <3>1, <2>1, <2>5, <2>6
  <2>8. \A i \in TxIndex : txram'[i].en => (txram'[i].wr <=> i = TxRing - 1)
    BY <1>1, <2>1 DEF DeviceTypeOK, TxRingOK
  <2>9. TxRingOK'
    BY <2>1, <2>2, <2>7, <2>8 DEF TxRingOK
  <2>10. TxTable!Use
    BY <2>6, <2>7 DEF TxTable!Use, TxEnabled
  <2> QED
    BY <2>3, <2>9, <2>10 DEF TxTable!Next
<1> QED
  BY <1>3, <1>4, <1>5

(* A register write the driver makes touches neither table register.       *)
LEMMA WriteKeepsTables ==
  ASSUME DeviceTypeOK, reg.txd.base, reg.rxd.base, NEW w \in GuestWrites, GuestWrite(w)
  PROVE  write_registers(w).txd = reg.txd /\ write_registers(w).rxd = reg.rxd
<1>1. /\ reg \in Registers /\ w.bits \in SUBSET Bits /\ w.reg \in WriteRegs
      /\ w.reg # "txd" /\ w.reg # "rxd" /\ "RS" \notin w.bits
  BY DeviceAssumption DEF DeviceTypeOK, GuestWrite
<1>2. CASE w.reg = "ctr"
  <2>1. Stored(reg, w.bits) \in Registers /\ Reset(Stored(reg, w.bits), w.bits) = Stored(reg, w.bits)
    BY <1>1, StoredType DEF Reset
  <2>2. Stored(reg, w.bits).txd = reg.txd /\ Stored(reg, w.bits).rxd = reg.rxd
    BY <1>1 DEF Stored, Registers
  <2>3. ASSUME NEW q \in Registers
        PROVE  /\ Tick(q, w.bits).txd = q.txd /\ Tick(q, w.bits).rxd = q.rxd
               /\ Start(q, w.bits).txd = q.txd /\ Start(q, w.bits).rxd = q.rxd
               /\ Disable(q, w.bits).txd = q.txd /\ Disable(q, w.bits).rxd = q.rxd
    BY DEF Tick, TickIn, Start, LinkStart, Disable, LinkDisable, Registers
  <2>4. Tick(Stored(reg, w.bits), w.bits) \in Registers
    BY <2>1, TickInType DEF Tick
  <2>5. Start(Tick(Stored(reg, w.bits), w.bits), w.bits) \in Registers
    BY <2>4, LinkStartType DEF Start
  <2>6. write_registers(w) = Disable(Start(Tick(Stored(reg, w.bits), w.bits), w.bits), w.bits)
    BY <1>2, <2>1, WriteCtrStages DEF write_registers
  <2> QED
    BY <2>1, <2>2, <2>3, <2>4, <2>5, <2>6
<1>3. CASE w.reg \in {"str", "chn", "ndr", "tim", "rxl"}
  BY <1>1, <1>3 DEF write_registers, write_str, write_chn, Registers
<1> QED
  BY <1>1, <1>2, <1>3 DEF WriteRegs

(* What using the descriptor the receive table register points at does. *)
LEMMA RxOldest ==
  ASSUME DeviceTypeOK, RxRingOK, reg.rxd.sel \in RxEnabled
  PROVE  /\ rxarmed # <<>> /\ Head(rxarmed) = reg.rxd.sel
         /\ Used(rxarmed, reg.rxd.sel) = Tail(rxarmed)
         /\ Ring(Tail(rxarmed), RxEnabled \ {reg.rxd.sel}, Follow(reg.rxd.sel, RxRing), RxRing)
<1>1. /\ rxarmed \in Seq(RxIndex) /\ RxRing \in Nat \ {0}
      /\ Ring(rxarmed, RxEnabled, reg.rxd.sel, RxRing)
  BY DeviceAssumption DEF RxRingOK, DeviceTypeOK
<1> QED
  BY <1>1, RingUse

(* rxenable: with the cursor inside the table it cannot crash, and the     *)
(* descriptor it uses is the oldest.                                       *)
LEMMA RxRingUse ==
  ASSUME Driver, DeviceTypeOK, TxRingOK, RxRingOK,
         NEW m \in Incoming, NEW ep \in BOOLEAN, rxenable(m, ep)
  PROVE  /\ TxRingOK' /\ UNCHANGED TxTable!vars
         /\ RxRingOK' /\ (RxTable!Next \/ UNCHANGED RxTable!vars)
<1> DEFINE sel == reg.rxd.sel
           d == rxram[sel]
           next == Successor(sel, d.wr, C_NB_RX_DESCRIPTOR)
<1>1. /\ RxRing \in 1..C_NB_RX_DESCRIPTOR /\ C_NB_RX_DESCRIPTOR \in Nat \ {0}
      /\ sel \in 0..(RxRing - 1) /\ sel \in RxIndex /\ rxd_cur = sel
      /\ d \in RxDescriptor /\ sel \in Nat /\ sel < C_NB_RX_DESCRIPTOR
  BY DeviceAssumption DEF RxRingOK, Ring, DeviceTypeOK, Registers, RxIndex
<1>2. CASE Discard
  <2>1. UNCHANGED <<reg.txd, reg.rxd, txd_cur, txram, txarmed, rxd_cur, rxram, rxarmed>>
    BY <1>2 DEF Discard, tx, rx
  <2> QED
    BY <2>1, TxRingKept, RxRingKept
<1>3. CASE reg' = [reg EXCEPT !.chn = clearbit(@, {"RD"})] /\ UNCHANGED <<tx, rx>>
  <2>1. reg'.txd = reg.txd /\ reg'.rxd = reg.rxd
    BY <1>3 DEF Registers, DeviceTypeOK
  <2>2. UNCHANGED <<reg.txd, reg.rxd, txd_cur, txram, txarmed, rxd_cur, rxram, rxarmed>>
    BY <1>3, <2>1 DEF tx, rx
  <2> QED
    BY <2>2, TxRingKept, RxRingKept
<1>4. CASE /\ d.en
           /\ reg' = [reg EXCEPT !.chn = setbit(@, {"PR"}),
                                 !.str = IF ep THEN setbit(@, {"EE"}) ELSE @,
                                 !.rxd.sel = next]
           /\ rxram' = [rxram EXCEPT ![sel] =
                [d EXCEPT !.en = FALSE, !.ep = @ \/ ep, !.tr = @ \/ m.len > reg.rxl,
                          !.len = IF m.len > reg.rxl THEN reg.rxl ELSE m.len]]
           /\ rxd_cur' = next
           /\ rxarmed' = Used(rxarmed, sel)
           /\ UNCHANGED tx
  <2>1. reg'.txd = reg.txd /\ reg'.rxd.sel = next /\ reg'.rxd.base = reg.rxd.base
    BY <1>4 DEF Registers, DeviceTypeOK
  <2>2. TxRingOK' /\ UNCHANGED TxTable!vars
    <3>1. UNCHANGED <<txd_cur, txram, txarmed>>
      BY <1>4 DEF tx
    <3> QED
      BY <2>1, <3>1, TxRingKept
  <2>3. d.wr \in BOOLEAN /\ (d.wr <=> sel = RxRing - 1) /\ sel \in RxEnabled
    BY <1>1, <1>4 DEF RxRingOK, RxDescriptor, RxEnabled
  <2>4. next = Follow(sel, RxRing)
    BY <1>1, <2>3, SuccessorFollows
  <2> DEFINE e == [d EXCEPT !.en = FALSE, !.ep = @ \/ ep, !.tr = @ \/ m.len > reg.rxl,
                            !.len = IF m.len > reg.rxl THEN reg.rxl ELSE m.len]
  <2>5. rxram' = [rxram EXCEPT ![sel] = e] /\ rxarmed' = Used(rxarmed, sel) /\ rxd_cur' = next
    BY <1>4
  <2>6. ~e.en
    BY <1>1 DEF RxDescriptor
  <2> HIDE DEF next, e
  <2>7. RxEnabled' = RxEnabled \ {sel}
    BY <1>1, <2>5, <2>6 DEF RxEnabled, DeviceTypeOK
  <2>8. /\ rxarmed # <<>> /\ Head(rxarmed) = sel /\ rxarmed' = Tail(rxarmed)
        /\ Ring(rxarmed', RxEnabled', next, RxRing)
    <3>1. /\ rxarmed # <<>> /\ Head(rxarmed) = sel /\ Used(rxarmed, sel) = Tail(rxarmed)
          /\ Ring(Tail(rxarmed), RxEnabled \ {sel}, Follow(sel, RxRing), RxRing)
      BY <2>3, RxOldest
    <3> QED
      BY <3>1, <2>5, <2>4, <2>7
  <2>9. \A i \in RxIndex : rxram'[i].en => (rxram'[i].wr <=> i = RxRing - 1)
    BY <1>1, <2>5, <2>6 DEF DeviceTypeOK, RxRingOK
  <2>10. RxRingOK'
    BY <2>1, <2>5, <2>8, <2>9 DEF RxRingOK
  <2>11. RxTable!Use
    BY <2>7, <2>8 DEF RxTable!Use, RxEnabled
  <2> QED
    BY <2>2, <2>10, <2>11 DEF RxTable!Next
<1> QED
  BY <1>1, <1>2, <1>3, <1>4 DEF rxenable

(* A time code touches no descriptor.                                      *)
LEMMA TimecodeKeepsRings ==
  ASSUME DeviceTypeOK, TxRingOK, RxRingOK, NEW m \in Incoming, rxtimecode(m)
  PROVE  /\ TxRingOK' /\ UNCHANGED TxTable!vars
         /\ RxRingOK' /\ UNCHANGED RxTable!vars
<1>1. reg'.txd = reg.txd /\ reg'.rxd = reg.rxd /\ UNCHANGED <<tx, rx>>
  BY DEF rxtimecode, Discard, Registers, DeviceTypeOK
<1>2. UNCHANGED <<reg.txd, reg.rxd, txd_cur, txram, txarmed, rxd_cur, rxram, rxarmed>>
  BY <1>1 DEF tx, rx
<1> QED
  BY <1>2, TxRingKept, RxRingKept

----------------------------------------------------------------------------
RingInv == DeviceTypeOK /\ TxRingOK /\ RxRingOK

(* Every step preserves the invariant and maps to a step of each queue.    *)
LEMMA RingStep ==
  ASSUME Driver, RingInv, [Next]_vars
  PROVE  RingInv' /\ [TxTable!Next]_TxTable!vars /\ [RxTable!Next]_RxTable!vars
<1>1. DeviceTypeOK /\ TxRingOK /\ RxRingOK /\ DeviceTypeOK'
  BY StepInv DEF RingInv
<1> DEFINE Good == /\ TxRingOK' /\ (TxTable!Next \/ UNCHANGED TxTable!vars)
                   /\ RxRingOK' /\ (RxTable!Next \/ UNCHANGED RxTable!vars)
<1>2. ASSUME NEW len \in Lengths, GuestArmTx(len)
      PROVE  Good
  <2>1. UNCHANGED <<reg.rxd, rxd_cur, rxram, rxarmed>>
    BY <1>2 DEF GuestArmTx, rx
  <2> QED
    BY <1>1, <1>2, <2>1, TxRingArm, RxRingKept
<1>3. ASSUME GuestArmRx
      PROVE  Good
  <2>1. UNCHANGED <<reg.txd, txd_cur, txram, txarmed>>
    BY <1>3 DEF GuestArmRx, tx
  <2> QED
    BY <1>1, <1>3, <2>1, RxRingArm, TxRingKept
<1>4. ASSUME NEW w \in GuestWrites, GuestWrite(w)
      PROVE  Good
  <2>1. write_registers(w) \in Registers
    BY <1>1, WriteType
  <2>2. write_registers(w).txd = reg.txd /\ write_registers(w).rxd = reg.rxd
    BY <1>1, <1>4, WriteKeepsTables DEF TxRingOK, RxRingOK
  <2>3. txenable(write_registers(w))
    BY <1>4 DEF GuestWrite
  <2> QED
    BY <1>1, <2>1, <2>2, <2>3, TxRingUse
<1>5. ASSUME NEW w \in GuestWrites, GuestReset(w)
      PROVE  FALSE
  BY <1>5 DEF GuestReset, Driver
<1>6. ASSUME NEW m \in Incoming, NEW ep \in BOOLEAN, rxenable(m, ep)
      PROVE  Good
  BY <1>1, <1>6, RxRingUse
<1>7. ASSUME NEW m \in Incoming, rxtimecode(m)
      PROVE  Good
  BY <1>1, <1>7, TimecodeKeepsRings
<1>8. CASE UNCHANGED vars
  <2>1. UNCHANGED <<reg.txd, reg.rxd, txd_cur, txram, txarmed, rxd_cur, rxram, rxarmed>>
    BY <1>8 DEF vars
  <2> QED
    BY <1>1, <2>1, TxRingKept, RxRingKept DEF RingInv
<1>9. CASE Next
  <2>1. Good
    BY <1>9, <1>2, <1>3, <1>4, <1>5, <1>6, <1>7 DEF Next
  <2> QED
    BY <1>1, <2>1 DEF RingInv
<1> QED
  BY <1>8, <1>9

(* The initial states satisfy the invariant and map to empty queues.       *)
LEMMA RingInvInit == Init => RingInv /\ TxTable!Init /\ RxTable!Init
<1> SUFFICES ASSUME Init PROVE RingInv /\ TxTable!Init /\ RxTable!Init
  OBVIOUS
<1>1. RingInv
  BY InitInv, RingInit DEF RingInv
<1>2. TxTable!Init /\ RxTable!Init
  BY DEF Init, TxTable!Init, RxTable!Init, TxIndex, RxIndex, TxFree, RxFree
<1> QED
  BY <1>1, <1>2

(* A driver that wraps its ring before the last entry of the table finds   *)
(* the transmit descriptors used in the order it armed them: SPWTXD always *)
(* points at the oldest one.                                               *)
THEOREM TxUsedInOrder == ASSUME Driver PROVE Spec => []TxInOrder
<1>1. RingInv => TxInOrder
  BY DEF RingInv, TxRingOK, Ring, TxInOrder
<1> QED
  BY <1>1, RingInvInit, RingStep, PTL DEF Spec

(* The same of the receive descriptors and SPWRXD.                         *)
THEOREM RxUsedInOrder == ASSUME Driver PROVE Spec => []RxInOrder
<1>1. RingInv => RxInOrder
  BY DEF RingInv, RxRingOK, Ring, RxInOrder
<1> QED
  BY <1>1, RingInvInit, RingStep, PTL DEF Spec

(* For such a driver the device's own indices never leave the registers    *)
(* the guest reads.                                                        *)
THEOREM CursorsStayTogether == ASSUME Driver PROVE Spec => []CursorsAgree
<1>1. RingInv => CursorsAgree
  BY DEF RingInv, TxRingOK, RxRingOK, CursorsAgree
<1> QED
  BY <1>1, RingInvInit, RingStep, PTL DEF Spec

(* For such a driver rxd_cur never leaves rxd_map, whatever addresses its  *)
(* transmit descriptors hold.                                              *)
THEOREM IndicesStayInside == ASSUME Driver PROVE Spec => []~crashed
<1>1. RingInv => rxd_cur < C_NB_RX_DESCRIPTOR
  <2> SUFFICES ASSUME RingInv PROVE rxd_cur < C_NB_RX_DESCRIPTOR
    OBVIOUS
  <2>1. rxd_cur = reg.rxd.sel
    BY DEF RingInv, RxRingOK
  <2>2. reg.rxd.sel \in 0..(C_NB_RX_DESCRIPTOR - 1)
    BY DEF RingInv, DeviceTypeOK, Registers, RxIndex
  <2> QED
    BY <2>1, <2>2, DeviceAssumption
<1>2. RingInv /\ ~crashed /\ [Next]_vars => ~crashed'
  <2> SUFFICES ASSUME rxd_cur < C_NB_RX_DESCRIPTOR, rxd_cur \in Nat, ~crashed, [Next]_vars
               PROVE  ~crashed'
    BY <1>1 DEF RingInv, DeviceTypeOK
  <2>1. ASSUME UNCHANGED crashed PROVE ~crashed'
    BY <2>1
  <2>2. CASE \E len \in Lengths : GuestArmTx(len)
    BY <2>1, <2>2 DEF GuestArmTx
  <2>3. CASE GuestArmRx
    BY <2>1, <2>3 DEF GuestArmRx
  <2>4. CASE \E w \in GuestWrites : GuestWrite(w)
    BY <2>1, <2>4 DEF GuestWrite
  <2>5. CASE \E w \in GuestWrites : GuestReset(w)
    BY <2>1, <2>5 DEF GuestReset
  <2>6. ASSUME NEW m \in Incoming, NEW ep \in BOOLEAN, rxenable(m, ep) PROVE ~crashed'
    <3>1. ~(rxd_cur >= C_NB_RX_DESCRIPTOR)
      BY DeviceAssumption
    <3> QED
      BY <2>1, <2>6, <3>1 DEF rxenable, Discard
  <2>7. CASE \E m \in Incoming : rxtimecode(m)
    BY <2>1, <2>7 DEF rxtimecode, Discard
  <2>8. CASE UNCHANGED vars
    BY <2>1, <2>8 DEF vars
  <2> QED
    BY <2>2, <2>3, <2>4, <2>5, <2>6, <2>7, <2>8 DEF Next
<1>3. Init => ~crashed
  BY DEF Init
<1> QED
  BY <1>1, <1>2, <1>3, RingInvInit, RingStep, PTL DEF Spec

(* The device implements the abstract queue with its transmit table: each  *)
(* step of it uses the oldest descriptor armed, or none.                   *)
THEOREM TxTableImplementsQueue == ASSUME Driver PROVE Spec => TxTableIsQueue
<1>1. RingInv /\ [Next]_vars => RingInv' /\ [TxTable!Next]_TxTable!vars
  BY RingStep
<1> QED
  BY <1>1, RingInvInit, PTL DEF Spec, TxTableIsQueue, TxTable!Spec

(* And with its receive table.                                             *)
THEOREM RxTableImplementsQueue == ASSUME Driver PROVE Spec => RxTableIsQueue
<1>1. RingInv /\ [Next]_vars => RingInv' /\ [RxTable!Next]_RxTable!vars
  BY RingStep
<1> QED
  BY <1>1, RingInvInit, PTL DEF Spec, RxTableIsQueue, RxTable!Spec
=============================================================================
