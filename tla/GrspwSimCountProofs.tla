------------------------- MODULE GrspwSimCountProofs -------------------------
(***************************************************************************)
(* Proofs about what GrspwSim counts: descriptors armed and used, messages *)
(* of the handshake on their way.                                          *)
(***************************************************************************)
EXTENDS GrspwSimProofs, FiniteSetTheorems

----------------------------------------------------------------------------
(* Counting in a table of n entries. *)
LEMMA CountType ==
  ASSUME NEW n \in Nat, NEW S \in SUBSET (0..(n - 1))
  PROVE  IsFiniteSet(S) /\ Cardinality(S) \in Nat
<1>1. IsFiniteSet(0..(n - 1))
  BY FS_Interval
<1>2. IsFiniteSet(S)
  BY <1>1, FS_Subset
<1> QED
  BY <1>2, FS_CardinalityType

(* Adding or taking one member of a finite set changes its cardinality by one. *)
LEMMA CountOne ==
  ASSUME NEW n \in Nat, NEW S \in SUBSET (0..(n - 1)), NEW i
  PROVE  /\ Cardinality(S) \in Nat
         /\ i \notin S => Cardinality(S \cup {i}) = Cardinality(S) + 1
         /\ i \in S => Cardinality(S \ {i}) = Cardinality(S) - 1
BY CountType, FS_AddElement, FS_RemoveElement

(* The entries of a table of flags: one set, one cleared.                  *)
LEMMA ArmedOne ==
  ASSUME NEW n \in Nat, NEW f \in [0..(n - 1) -> BOOLEAN], NEW i \in 0..(n - 1)
  PROVE  /\ Armed(f) \in Nat
         /\ ~f[i] => Armed([f EXCEPT ![i] = TRUE]) = Armed(f) + 1
         /\ f[i] => Armed([f EXCEPT ![i] = FALSE]) = Armed(f) - 1
<1> DEFINE S == {j \in DOMAIN f : f[j]}
<1>1. S \in SUBSET (0..(n - 1))
  OBVIOUS
<1>2. /\ Cardinality(S) \in Nat
      /\ i \notin S => Cardinality(S \cup {i}) = Cardinality(S) + 1
      /\ i \in S => Cardinality(S \ {i}) = Cardinality(S) - 1
  BY <1>1, CountOne
<1>3. ASSUME ~f[i]
      PROVE  /\ {j \in DOMAIN [f EXCEPT ![i] = TRUE] : [f EXCEPT ![i] = TRUE][j]} = S \cup {i}
             /\ i \notin S
  BY <1>3
<1>4. ASSUME f[i]
      PROVE  /\ {j \in DOMAIN [f EXCEPT ![i] = FALSE] : [f EXCEPT ![i] = FALSE][j]} = S \ {i}
             /\ i \in S
  BY <1>4
<1> QED
  BY <1>2, <1>3, <1>4 DEF Armed

(* The number of armed transmit descriptors is a number. *)
LEMMA ArmedType ==
  ASSUME NEW n \in Nat, NEW f \in [0..(n - 1) -> BOOLEAN]
  PROVE  Armed(f) \in Int
<1> DEFINE S == {j \in DOMAIN f : f[j]}
<1>1. S \in SUBSET (0..(n - 1))
  OBVIOUS
<1>2. Cardinality(S) \in Nat
  BY <1>1, CountType
<1> QED
  BY <1>2 DEF Armed

----------------------------------------------------------------------------
(* Each Tx descriptor is sent once. *)
(* The types of the descriptor tables and of the counters. *)
LEMMA TablesTyped ==
  ASSUME TypeOK
  PROVE  /\ TxRing \in Nat /\ RxRing \in Nat
         /\ txram \in [Links -> [0..(TxRing - 1) -> BOOLEAN]]
         /\ rxram \in [Links -> [0..(RxRing - 1) -> RxDescriptor]]
         /\ txowed \in [Links -> Int] /\ rxowed \in [Links -> Int]
<1>1. TxRing \in Nat /\ RxRing \in Nat
  BY SimAssumption
<1>2. /\ txram \in [Links -> [0..(TxRing - 1) -> BOOLEAN]]
      /\ rxram \in [Links -> [0..(RxRing - 1) -> RxDescriptor]]
  BY DEF TypeOK, RamType
<1>3. txowed \in [Links -> Int] /\ rxowed \in [Links -> Int]
  BY DEF TypeOK, OtherType
<1> QED
  BY <1>1, <1>2, <1>3

(* An action that touches neither descriptors nor counters. *)
LEMMA TxKept ==
  ASSUME TxExactlyOnce, UNCHANGED <<txram, txowed>>,
         \A l \in Links : TxUnanswered(l)' <=> TxUnanswered(l)
  PROVE  TxExactlyOnce'
BY DEF TxExactlyOnce

(* Arming a descriptor: one more armed, one more owed. *)
LEMMA TxArmed ==
  ASSUME TypeOK, TxExactlyOnce, NEW l \in Links, NEW i \in 0..(TxRing - 1), GuestArmTx(l, i)
  PROVE  TxExactlyOnce'
<1>1. /\ TxRing \in Nat
      /\ txram \in [Links -> [0..(TxRing - 1) -> BOOLEAN]]
      /\ txowed \in [Links -> Int]
  BY TablesTyped
<1>2. Armed([txram[l] EXCEPT ![i] = TRUE]) = Armed(txram[l]) + 1 /\ Armed(txram[l]) \in Nat
  BY <1>1, ArmedOne DEF GuestArmTx
<1>3. \A k \in Links : ~TxUnanswered(k) /\ ~TxUnanswered(k)'
  BY DEF GuestArmTx, vcpu, TxUnanswered, InFlight, Sent
<1>4. txowed' = [txowed EXCEPT ![l] = @ + 1] /\ txram' = [txram EXCEPT ![l][i] = TRUE]
  BY DEF GuestArmTx
<1>5. \A k \in Links : txowed[k] = Armed(txram[k]) /\ Armed(txram[k]) \in Int
  BY <1>1, <1>3, ArmedType DEF TxExactlyOnce
<1>6. ASSUME NEW k \in Links
      PROVE  txowed'[k] = Armed(txram'[k]) /\ Armed(txram'[k]) \in Int
  <2>1. CASE k = l
    BY <2>1, <1>1, <1>2, <1>4, <1>5
  <2>2. CASE k # l
    BY <2>2, <1>1, <1>4, <1>5
  <2> QED
    BY <2>1, <2>2
<1>7. ASSUME NEW k \in Links
      PROVE  txowed'[k] = Armed(txram'[k]) - (IF TxUnanswered(k)' THEN 1 ELSE 0)
  BY <1>3, <1>6
<1> QED
  BY <1>7 DEF TxExactlyOnce

(* Sending a packet: one less owed, and one unanswered that stays armed. *)
LEMMA TxSent ==
  ASSUME TypeOK, HeldDescriptors, TxExactlyOnce, TxSend
  PROVE  TxExactlyOnce'
<1>1. /\ vlink \in Links /\ TxRing \in Nat
      /\ txram \in [Links -> [0..(TxRing - 1) -> BOOLEAN]]
      /\ txowed \in [Links -> Int]
  BY TablesTyped DEF HeldDescriptors, TxSend
<1>2. \A k \in Links : ~TxUnanswered(k) /\ (TxUnanswered(k)' <=> k = vlink)
  BY DEF TxSend, TxUnanswered, InFlight, Sent
<1>3. txowed' = [txowed EXCEPT ![vlink] = @ - 1] /\ txram' = txram
  BY DEF TxSend, ram
<1>4. \A k \in Links : Armed(txram[k]) \in Int
  BY <1>1, ArmedType
<1>5. \A k \in Links : txowed[k] = Armed(txram[k])
  BY <1>2, <1>4 DEF TxExactlyOnce
<1>6. ASSUME NEW k \in Links
      PROVE  txowed'[k] = Armed(txram'[k]) - (IF TxUnanswered(k)' THEN 1 ELSE 0)
  BY <1>1, <1>2, <1>3, <1>4, <1>5
<1> QED
  BY <1>6 DEF TxExactlyOnce

(* Writing the descriptor back: one less armed, and none unanswered. *)
LEMMA TxGivenBack ==
  ASSUME TypeOK, HeldDescriptors, TxExactlyOnce, TxFinish
  PROVE  TxExactlyOnce'
<1>1. /\ vlink \in Links /\ TxRing \in Nat /\ vidx \in 0..(TxRing - 1)
      /\ txram \in [Links -> [0..(TxRing - 1) -> BOOLEAN]]
      /\ txowed \in [Links -> Int]
  BY TablesTyped DEF TypeOK, VcpuType, HeldDescriptors, TxFinish
<1>2. txram[vlink][vidx]
  BY DEF HeldDescriptors, TxFinish
<1>3. Armed([txram[vlink] EXCEPT ![vidx] = FALSE]) = Armed(txram[vlink]) - 1
  BY <1>1, <1>2, ArmedOne
<1>4. \A k \in Links : ~TxUnanswered(k)' /\ (TxUnanswered(k) <=> k = vlink)
  BY DEF TxFinish, TxUnanswered, InFlight, Sent
<1>5. txowed' = txowed /\ txram' = [txram EXCEPT ![vlink][vidx] = FALSE]
  BY DEF TxFinish, history
<1>6. ASSUME NEW k \in Links
      PROVE  Armed(txram[k]) \in Int /\ Armed(txram'[k]) \in Int
  <2>1. txram' \in [Links -> [0..(TxRing - 1) -> BOOLEAN]]
    BY <1>1, <1>5
  <2> QED
    BY <1>1, <2>1, ArmedType
<1>7. ASSUME NEW k \in Links
      PROVE  txowed[k] = Armed(txram'[k])
  <2>1. CASE k = vlink
    BY <2>1, <1>1, <1>3, <1>4, <1>5, <1>6 DEF TxExactlyOnce
  <2>2. CASE k # vlink
    BY <2>2, <1>1, <1>4, <1>5, <1>6 DEF TxExactlyOnce
  <2> QED
    BY <2>1, <2>2
<1>8. ASSUME NEW k \in Links
      PROVE  txowed'[k] = Armed(txram'[k]) - (IF TxUnanswered(k)' THEN 1 ELSE 0)
  <2>1. ~TxUnanswered(k)'
    BY <1>4
  <2>2. txowed'[k] = Armed(txram'[k]) /\ Armed(txram'[k]) \in Int
    BY <1>5, <1>6, <1>7
  <2> QED
    BY <2>1, <2>2
<1> QED
  BY <1>8 DEF TxExactlyOnce

(* Nothing is armed when QEMU starts. *)
LEMMA NoneArmed ==
  /\ Armed([i \in 0..(TxRing - 1) |-> FALSE]) = 0
  /\ Cardinality({i \in 0..(RxRing - 1) :
                     [j \in 0..(RxRing - 1) |-> [en |-> FALSE, num |-> 0]][i].en}) = 0
<1>1. {i \in DOMAIN [j \in 0..(TxRing - 1) |-> FALSE] : [j \in 0..(TxRing - 1) |-> FALSE][i]} = {}
  OBVIOUS
<1>2. {i \in 0..(RxRing - 1) :
         [j \in 0..(RxRing - 1) |-> [en |-> FALSE, num |-> 0]][i].en} = {}
  OBVIOUS
<1> QED
  BY <1>1, <1>2, FS_EmptySet DEF Armed

(* At the start no descriptor is armed and none is owed. *)
LEMMA TxStarted ==
  ASSUME txram = Each([i \in 0..(TxRing - 1) |-> FALSE]), txowed = Each(0), vpc = "guest"
  PROVE  TxExactlyOnce
<1>1. \A l \in Links : ~TxUnanswered(l)
  BY DEF TxUnanswered, InFlight, Sent
<1> QED
  BY <1>1, NoneArmed DEF TxExactlyOnce, Each

(* After a restart of QEMU the same. *)
LEMMA TxRestarted ==
  ASSUME QemuRestart
  PROVE  TxExactlyOnce'
<1>1. \A l \in Links : ~TxUnanswered(l)'
  BY DEF QemuRestart, TxUnanswered, InFlight, Sent
<1> QED
  BY <1>1, NoneArmed DEF QemuRestart, TxExactlyOnce, Each

(* Every action keeps the count; only those above touch it. *)
LEMMA TxCountStep ==
  ASSUME TypeOK, HeldDescriptors, TxExactlyOnce, [Next]_vars
  PROVE  TxExactlyOnce'
<1>1. ASSUME NEW l \in Links, NEW i \in 0..(TxRing - 1), GuestArmTx(l, i)
      PROVE  TxExactlyOnce'
  BY <1>1, TxArmed
<1>2. ASSUME NEW l \in Links, NEW i \in 0..(RxRing - 1), GuestArmRx(l, i)
      PROVE  TxExactlyOnce'
  BY <1>2, TxKept DEF GuestArmRx, ram, vcpu, history, TxUnanswered, InFlight, Sent
<1>3. ASSUME NEW l \in Links, NEW w \in GuestWrites, GuestWrite(l, w)
      PROVE  TxExactlyOnce'
  BY <1>3, TxKept DEF GuestWrite, ram, vcpu, history, TxUnanswered, InFlight, Sent
<1>4. CASE GuestRead
  BY <1>4, TxKept DEF GuestRead, ram, vcpu, history, TxUnanswered, InFlight, Sent
<1>5. CASE ReadLocked
  BY <1>5, TxKept DEF ReadLocked, ram, vcpu, history, TxUnanswered, InFlight, Sent
<1>6. CASE OpLoad
  BY <1>6, TxKept DEF OpLoad, Executing, ram, vcpu, history, TxUnanswered, InFlight, Sent
<1>7. CASE OpStore
  BY <1>7, TxKept DEF OpStore, ram, vcpu, history, TxUnanswered, InFlight, Sent
<1>8. CASE OpCtr
  BY <1>8, TxKept DEF OpCtr, Executing, ram, vcpu, history, TxUnanswered, InFlight, Sent
<1>9. CASE OpSet
  BY <1>9, TxKept DEF OpSet, Executing, ram, vcpu, history, TxUnanswered, InFlight, Sent
<1>10. CASE OpTimeLoad
  BY <1>10, TxKept DEF OpTimeLoad, Executing, ram, vcpu, history, TxUnanswered, InFlight, Sent
<1>11. CASE OpTickStore
  BY <1>11, TxKept DEF OpTickStore, ram, vcpu, history, TxUnanswered, InFlight, Sent
<1>12. CASE OpTimecode
  BY <1>12, TxKept DEF OpTimecode, Executing, ram, vcpu, history, TxUnanswered, InFlight, Sent
<1>13. CASE TxEnable
  BY <1>13, TxKept DEF TxEnable, OpsDone, ram, vcpu, history, TxUnanswered, InFlight, Sent
<1>14. CASE TxFetch
  BY <1>14, TxKept DEF TxFetch, ram, vcpu, history, TxUnanswered, InFlight, Sent
<1>15. CASE TxSend
  BY <1>15, TxSent
<1>16. CASE TxWait
  BY <1>16, TxKept DEF TxWait, OpsDone, ram, vcpu, history, TxUnanswered, InFlight, Sent
<1>17. CASE TxSpuriousWakeup
  BY <1>17, TxKept DEF TxSpuriousWakeup, ram, vcpu, history, TxUnanswered, InFlight, Sent
<1>18. CASE TxRelock
  BY <1>18, TxKept DEF TxRelock, ram, vcpu, history, TxUnanswered, InFlight, Sent
<1>19. CASE TxFinish
  BY <1>19, TxGivenBack
<1>20. CASE TxStop
  BY <1>20, TxKept DEF TxStop, OpsDone, ram, vcpu, history, TxUnanswered, InFlight, Sent
<1>21. CASE RxReceive
  BY <1>21, TxKept DEF RxReceive, ram, vcpu, history, TxUnanswered, InFlight, Sent
<1>22. CASE RxSignal
  BY <1>22, TxKept DEF RxSignal, RxReturn, ram, vcpu, history, TxUnanswered, InFlight, Sent
<1>23. CASE RxLoad
  BY <1>23, TxKept DEF RxLoad, ram, vcpu, history, TxUnanswered, InFlight, Sent
<1>24. CASE RxStore
  BY <1>24, TxKept DEF RxStore, RxReturn, ram, vcpu, history, TxUnanswered, InFlight, Sent
<1>25. CASE RxCheckEnabled
  BY <1>25, TxKept DEF RxCheckEnabled, RxCheck, RxReturn, ram, vcpu, history, TxUnanswered, InFlight, Sent
<1>26. CASE RxCheckAddress
  BY <1>26, TxKept DEF RxCheckAddress, RxCheck, RxReturn, ram, vcpu, history, TxUnanswered, InFlight, Sent
<1>27. CASE RxCheckAvailable
  BY <1>27, TxKept DEF RxCheckAvailable, RxCheck, RxReturn, ram, vcpu, history, TxUnanswered, InFlight, Sent
<1>28. CASE RxFetch
  BY <1>28, TxKept DEF RxFetch, RxModify, ram, vcpu, history, TxUnanswered, InFlight, Sent
<1>29. CASE RxCopy
  BY <1>29, TxKept DEF RxCopy, RxModify, ram, vcpu, history, TxUnanswered, InFlight, Sent
<1>30. CASE RxGiveBack
  BY <1>30, TxKept DEF RxGiveBack, RxReturn, ram, vcpu, history, TxUnanswered, InFlight, Sent
<1>31. CASE RxTimeCompare
  BY <1>31, TxKept DEF RxTimeCompare, RxCheck, RxReturn, ram, vcpu, history, TxUnanswered, InFlight, Sent
<1>32. CASE RxTimeStore
  BY <1>32, TxKept DEF RxTimeStore, RxModify, ram, vcpu, history, TxUnanswered, InFlight, Sent
<1>33. CASE DevReceive
  BY <1>33, TxKept DEF DevReceive, ram, vcpu, history, TxUnanswered, InFlight, Sent
<1>34. CASE DevAck
  BY <1>34, TxKept DEF DevAck, ram, vcpu, history, TxUnanswered, InFlight, Sent
<1>35. CASE DevRestart
  BY <1>35, TxKept DEF DevRestart, ram, vcpu, history, TxUnanswered, InFlight, Sent
<1>36. CASE QemuRestart
  BY <1>36, TxRestarted
<1>37. ASSUME NEW m \in DevSends, DevSend(m)
      PROVE  TxExactlyOnce'
  BY <1>37, TxKept DEF DevSend, ram, vcpu, history, TxUnanswered, InFlight, Sent
<1>38. CASE UNCHANGED vars
  BY <1>38, TxKept DEF vars, ram, vcpu, history, TxUnanswered, InFlight, Sent
<1> QED
  BY <1>1, <1>2, <1>3, <1>4, <1>5, <1>6, <1>7, <1>8, <1>9, <1>10, <1>11, <1>12, <1>13, <1>14, <1>15, <1>16, <1>17, <1>18, <1>19,
     <1>20, <1>21, <1>22, <1>23, <1>24, <1>25, <1>26, <1>27, <1>28, <1>29, <1>30, <1>31, <1>32, <1>33, <1>34, <1>35, <1>36, <1>37, <1>38
     DEF Next, Guest, Handler, RxThread, Device, Faults

(* Every transmit descriptor the guest arms goes out once and is given     *)
(* back once, whatever the rx thread and the device do meanwhile.          *)
THEOREM SentOnce == Spec => []TxExactlyOnce
<1>1. Init => TxExactlyOnce
  BY TxStarted DEF Init
<1>2. TypeOK /\ HeldDescriptors /\ TxExactlyOnce /\ [Next]_vars => TxExactlyOnce'
  BY TxCountStep
<1> QED
  BY <1>1, <1>2, TypeCorrect, PTL DEF Spec

----------------------------------------------------------------------------
(* Each Rx descriptor takes one packet. *)
Enabled(table) == {i \in DOMAIN table : table[i].en}

(* Changing the EN of one descriptor changes the number enabled by one. *)
LEMMA EnabledOne ==
  ASSUME NEW n \in Nat, NEW t \in [0..(n - 1) -> RxDescriptor],
         NEW i \in 0..(n - 1), NEW d \in RxDescriptor
  PROVE  LET u == [t EXCEPT ![i] = d] IN
         /\ Cardinality(Enabled(t)) \in Int
         /\ ~t[i].en /\ d.en => Cardinality(Enabled(u)) = Cardinality(Enabled(t)) + 1
         /\ t[i].en /\ ~d.en => Cardinality(Enabled(u)) = Cardinality(Enabled(t)) - 1
<1> DEFINE u == [t EXCEPT ![i] = d]
<1>1. Enabled(t) \in SUBSET (0..(n - 1))
  BY DEF Enabled
<1>2. /\ Cardinality(Enabled(t)) \in Nat
      /\ i \notin Enabled(t) => Cardinality(Enabled(t) \cup {i}) = Cardinality(Enabled(t)) + 1
      /\ i \in Enabled(t) => Cardinality(Enabled(t) \ {i}) = Cardinality(Enabled(t)) - 1
  BY <1>1, CountOne
<1>3. ASSUME ~t[i].en, d.en
      PROVE  Cardinality(Enabled(u)) = Cardinality(Enabled(t)) + 1
  <2>1. Enabled(u) = Enabled(t) \cup {i} /\ i \notin Enabled(t)
    BY <1>3 DEF Enabled
  <2> QED
    BY <2>1, <1>2
<1>4. ASSUME t[i].en, ~d.en
      PROVE  Cardinality(Enabled(u)) = Cardinality(Enabled(t)) - 1
  <2>1. Enabled(u) = Enabled(t) \ {i} /\ i \in Enabled(t)
    BY <1>4 DEF Enabled
  <2> QED
    BY <2>1, <1>2
<1>5. Cardinality(Enabled(t)) \in Int
  BY <1>2
<1> QED
  BY <1>3, <1>4, <1>5

(* The number of enabled receive descriptors is a number. *)
LEMMA EnabledType ==
  ASSUME NEW n \in Nat, NEW t \in [0..(n - 1) -> RxDescriptor]
  PROVE  Cardinality(Enabled(t)) \in Int
<1>1. Enabled(t) \in SUBSET (0..(n - 1))
  BY DEF Enabled
<1>2. Cardinality(Enabled(t)) \in Nat
  BY <1>1, CountType
<1> QED
  BY <1>2

(* An action that touches neither descriptors nor counters. *)
LEMMA RxKept ==
  ASSUME RxExactlyOnce, UNCHANGED <<rxram, rxowed>>,
         \A l \in Links : (RxUsed /\ rmsg.link = l)' <=> (RxUsed /\ rmsg.link = l)
  PROVE  RxExactlyOnce'
BY DEF RxExactlyOnce

(* Arming a descriptor: one more enabled, one more owed. *)
LEMMA RxArmed ==
  ASSUME TypeOK, RxExactlyOnce, NEW l \in Links, NEW i \in 0..(RxRing - 1), GuestArmRx(l, i)
  PROVE  RxExactlyOnce'
<1> DEFINE d == [en |-> TRUE, num |-> 0]
<1>1. /\ RxRing \in Nat
      /\ rxram \in [Links -> [0..(RxRing - 1) -> RxDescriptor]]
      /\ rxowed \in [Links -> Int]
      /\ d \in RxDescriptor
  BY TablesTyped DEF RxDescriptor, Byte
<1>2. /\ rxowed' = [rxowed EXCEPT ![l] = @ + 1]
      /\ rxram' = [rxram EXCEPT ![l][i] = d]
      /\ ~rxram[l][i].en
      /\ rmsg' = rmsg /\ (RxUsed' <=> RxUsed)
  BY DEF GuestArmRx, rx, RxUsed
<1>3. Cardinality(Enabled([rxram[l] EXCEPT ![i] = d])) = Cardinality(Enabled(rxram[l])) + 1
  BY <1>1, <1>2, EnabledOne
<1>4. \A k \in Links : Cardinality(Enabled(rxram[k])) \in Int
  BY <1>1, EnabledType
<1>5. \A k \in Links : rxowed[k] = Cardinality(Enabled(rxram[k]))
                                   - (IF RxUsed /\ rmsg.link = k THEN 1 ELSE 0)
  BY DEF RxExactlyOnce, Enabled
<1>6. ASSUME NEW k \in Links
      PROVE  rxowed'[k] = Cardinality(Enabled(rxram'[k]))
                          - (IF (RxUsed /\ rmsg.link = k)' THEN 1 ELSE 0)
  <2>1. CASE k = l
    BY <2>1, <1>1, <1>2, <1>3, <1>4, <1>5
  <2>2. CASE k # l
    BY <2>2, <1>1, <1>2, <1>4, <1>5
  <2> QED
    BY <2>1, <2>2
<1> QED
  BY <1>6 DEF RxExactlyOnce, Enabled

(* Copying a packet: one less owed, and one used that is still enabled. *)
LEMMA RxFilled ==
  ASSUME TypeOK, RxExactlyOnce, RxCopy
  PROVE  RxExactlyOnce'
<1>1. /\ rmsg.link \in Links /\ RxRing \in Nat
      /\ rxram \in [Links -> [0..(RxRing - 1) -> RxDescriptor]]
      /\ rxowed \in [Links -> Int]
  BY TablesTyped, RmsgType
<1>2. /\ rxowed' = [rxowed EXCEPT ![rmsg.link] = @ - 1]
      /\ rxram' = rxram
      /\ rmsg' = rmsg /\ ~RxUsed /\ RxUsed'
  BY DEF RxCopy, RxModify, RxUsed
<1>3. \A k \in Links : Cardinality(Enabled(rxram[k])) \in Int
  BY <1>1, EnabledType
<1>4. \A k \in Links : rxowed[k] = Cardinality(Enabled(rxram[k]))
  BY <1>2, <1>3 DEF RxExactlyOnce, Enabled
<1>5. ASSUME NEW k \in Links
      PROVE  rxowed'[k] = Cardinality(Enabled(rxram'[k]))
                          - (IF (RxUsed /\ rmsg.link = k)' THEN 1 ELSE 0)
  BY <1>1, <1>2, <1>3, <1>4
<1> QED
  BY <1>5 DEF RxExactlyOnce, Enabled

(* Writing the descriptor back: one less enabled, and none in use. *)
LEMMA RxGivenBack ==
  ASSUME TypeOK, HeldDescriptors, RxExactlyOnce, RxGiveBack
  PROVE  RxExactlyOnce'
<1> DEFINE l == rmsg.link
           d == [en |-> FALSE, num |-> rmsg.num]
<1>1. /\ l \in Links /\ RxRing \in Nat /\ ridx \in 0..(RxRing - 1)
      /\ rxram \in [Links -> [0..(RxRing - 1) -> RxDescriptor]]
      /\ rxowed \in [Links -> Int]
      /\ d \in RxDescriptor
  BY TablesTyped, RmsgType DEF RxDescriptor
<1>2. /\ rxowed' = rxowed
      /\ rxram' = [rxram EXCEPT ![l][ridx] = d]
      /\ RxUsed /\ ~RxUsed'
  BY DEF RxGiveBack, RxReturn, RxUsed, history
<1>3. rxram[l][ridx].en
  BY DEF HeldDescriptors, Receiving, RxGiveBack
<1>4. Cardinality(Enabled([rxram[l] EXCEPT ![ridx] = d])) = Cardinality(Enabled(rxram[l])) - 1
  BY <1>1, <1>3, EnabledOne
<1>5. \A k \in Links : Cardinality(Enabled(rxram[k])) \in Int
  BY <1>1, EnabledType
<1>6. \A k \in Links : rxowed[k] = Cardinality(Enabled(rxram[k])) - (IF l = k THEN 1 ELSE 0)
  BY <1>2 DEF RxExactlyOnce, Enabled
<1>7. ASSUME NEW k \in Links
      PROVE  rxowed'[k] = Cardinality(Enabled(rxram'[k]))
                          - (IF (RxUsed /\ rmsg.link = k)' THEN 1 ELSE 0)
  <2>1. CASE k = l
    <3>1. rxram'[k] = [rxram[l] EXCEPT ![ridx] = d]
      BY <2>1, <1>1, <1>2
    <3>2. rxowed'[k] = Cardinality(Enabled(rxram[l])) - 1
      BY <2>1, <1>1, <1>2, <1>6
    <3>3. rxowed'[k] = Cardinality(Enabled(rxram'[k])) /\ rxowed'[k] \in Int
      BY <3>1, <3>2, <2>1, <1>1, <1>2, <1>4
    <3> QED
      BY <3>3, <1>2
  <2>2. CASE k # l
    BY <2>2, <1>1, <1>2, <1>5, <1>6
  <2> QED
    BY <2>1, <2>2
<1> QED
  BY <1>7 DEF RxExactlyOnce, Enabled

(* At the start no descriptor is enabled and none is owed. *)
LEMMA RxStarted ==
  ASSUME Init
  PROVE  RxExactlyOnce
<1>1. ~RxUsed
  BY DEF Init, RxUsed
<1> QED
  BY <1>1, NoneArmed DEF Init, RxExactlyOnce, Each

(* After a restart of QEMU the same. *)
LEMMA RxRestarted ==
  ASSUME QemuRestart
  PROVE  RxExactlyOnce'
<1>1. ~RxUsed'
  BY DEF QemuRestart, RxUsed
<1> QED
  BY <1>1, NoneArmed DEF QemuRestart, RxExactlyOnce, Each

(* Every action keeps the count; only those above touch it. *)
LEMMA RxCountStep ==
  ASSUME TypeOK, HeldDescriptors, RxExactlyOnce, [Next]_vars
  PROVE  RxExactlyOnce'
<1>1. ASSUME NEW l \in Links, NEW i \in 0..(TxRing - 1), GuestArmTx(l, i)
      PROVE  RxExactlyOnce'
  BY <1>1, RxKept DEF GuestArmTx, ram, rx, history, RxUsed
<1>2. ASSUME NEW l \in Links, NEW i \in 0..(RxRing - 1), GuestArmRx(l, i)
      PROVE  RxExactlyOnce'
  BY <1>2, RxArmed
<1>3. ASSUME NEW l \in Links, NEW w \in GuestWrites, GuestWrite(l, w)
      PROVE  RxExactlyOnce'
  BY <1>3, RxKept DEF GuestWrite, ram, rx, history, RxUsed
<1>4. CASE GuestRead
  BY <1>4, RxKept DEF GuestRead, ram, rx, history, RxUsed
<1>5. CASE ReadLocked
  BY <1>5, RxKept DEF ReadLocked, ram, rx, history, RxUsed
<1>6. CASE OpLoad
  BY <1>6, RxKept DEF OpLoad, Executing, ram, rx, history, RxUsed
<1>7. CASE OpStore
  BY <1>7, RxKept DEF OpStore, ram, rx, history, RxUsed
<1>8. CASE OpCtr
  BY <1>8, RxKept DEF OpCtr, Executing, ram, rx, history, RxUsed
<1>9. CASE OpSet
  BY <1>9, RxKept DEF OpSet, Executing, ram, rx, history, RxUsed
<1>10. CASE OpTimeLoad
  BY <1>10, RxKept DEF OpTimeLoad, Executing, ram, rx, history, RxUsed
<1>11. CASE OpTickStore
  BY <1>11, RxKept DEF OpTickStore, ram, rx, history, RxUsed
<1>12. CASE OpTimecode
  BY <1>12, RxKept DEF OpTimecode, Executing, ram, rx, history, RxUsed
<1>13. CASE TxEnable
  BY <1>13, RxKept DEF TxEnable, OpsDone, ram, rx, history, RxUsed
<1>14. CASE TxFetch
  BY <1>14, RxKept DEF TxFetch, ram, rx, history, RxUsed
<1>15. CASE TxSend
  BY <1>15, RxKept DEF TxSend, ram, rx, history, RxUsed
<1>16. CASE TxWait
  BY <1>16, RxKept DEF TxWait, OpsDone, ram, rx, history, RxUsed
<1>17. CASE TxSpuriousWakeup
  BY <1>17, RxKept DEF TxSpuriousWakeup, ram, rx, history, RxUsed
<1>18. CASE TxRelock
  BY <1>18, RxKept DEF TxRelock, ram, rx, history, RxUsed
<1>19. CASE TxFinish
  BY <1>19, RxKept DEF TxFinish, ram, rx, history, RxUsed
<1>20. CASE TxStop
  BY <1>20, RxKept DEF TxStop, OpsDone, ram, rx, history, RxUsed
<1>21. CASE RxReceive
  BY <1>21, RxKept, RxReceiveLabel DEF RxReceive, ram, history, RxUsed
<1>22. CASE RxSignal
  BY <1>22, RxKept DEF RxSignal, RxReturn, ram, rx, history, RxUsed
<1>23. CASE RxLoad
  BY <1>23, RxKept DEF RxLoad, ram, rx, history, RxUsed
<1>24. CASE RxStore
  BY <1>24, RxKept DEF RxStore, RxReturn, ram, rx, history, RxUsed
<1>25. CASE RxCheckEnabled
  BY <1>25, RxKept DEF RxCheckEnabled, RxCheck, RxReturn, ram, rx, history, RxUsed
<1>26. CASE RxCheckAddress
  BY <1>26, RxKept DEF RxCheckAddress, RxCheck, RxReturn, ram, rx, history, RxUsed
<1>27. CASE RxCheckAvailable
  BY <1>27, RxKept DEF RxCheckAvailable, RxCheck, RxReturn, ram, rx, history, RxUsed
<1>28. CASE RxFetch
  BY <1>28, RxKept DEF RxFetch, RxModify, ram, rx, history, RxUsed
<1>29. CASE RxCopy
  BY <1>29, RxFilled
<1>30. CASE RxGiveBack
  BY <1>30, RxGivenBack
<1>31. CASE RxTimeCompare
  BY <1>31, RxKept DEF RxTimeCompare, RxCheck, RxReturn, ram, rx, history, RxUsed
<1>32. CASE RxTimeStore
  BY <1>32, RxKept DEF RxTimeStore, RxModify, ram, rx, history, RxUsed
<1>33. CASE DevReceive
  BY <1>33, RxKept DEF DevReceive, ram, rx, history, RxUsed
<1>34. CASE DevAck
  BY <1>34, RxKept DEF DevAck, ram, rx, history, RxUsed
<1>35. CASE DevRestart
  BY <1>35, RxKept DEF DevRestart, ram, rx, history, RxUsed
<1>36. CASE QemuRestart
  BY <1>36, RxRestarted
<1>37. ASSUME NEW m \in DevSends, DevSend(m)
      PROVE  RxExactlyOnce'
  BY <1>37, RxKept DEF DevSend, ram, rx, history, RxUsed
<1>38. CASE UNCHANGED vars
  BY <1>38, RxKept DEF vars, ram, rx, history, RxUsed
<1> QED
  BY <1>1, <1>2, <1>3, <1>4, <1>5, <1>6, <1>7, <1>8, <1>9, <1>10, <1>11, <1>12, <1>13, <1>14, <1>15, <1>16, <1>17, <1>18, <1>19,
     <1>20, <1>21, <1>22, <1>23, <1>24, <1>25, <1>26, <1>27, <1>28, <1>29, <1>30, <1>31, <1>32, <1>33, <1>34, <1>35, <1>36, <1>37, <1>38
     DEF Next, Guest, Handler, RxThread, Device, Faults

(* Every receive descriptor the guest arms takes one packet and is given   *)
(* back once.                                                              *)
THEOREM ReceivedOnce == Spec => []RxExactlyOnce
<1>1. Init => RxExactlyOnce
  BY RxStarted
<1>2. TypeOK /\ HeldDescriptors /\ RxExactlyOnce /\ [Next]_vars => RxExactlyOnce'
  BY RxCountStep
<1> QED
  BY <1>1, <1>2, TypeCorrect, PTL DEF Spec

----------------------------------------------------------------------------
(* What a queue holds of one kind of message. *)
Marked(q, p) == {i \in 1..Len(q) : i \in 1..Len(q) /\ q[i].pword = p}
Count(q, p) == Cardinality(Marked(q, p))

(* The number of messages of a kind in a queue is a number. *)
LEMMA MarkedType ==
  ASSUME NEW q \in Seq(Message), NEW p
  PROVE  IsFiniteSet(Marked(q, p)) /\ Count(q, p) \in Nat
<1>1. IsFiniteSet(1..Len(q))
  BY FS_Interval
<1>2. Marked(q, p) \in SUBSET (1..Len(q))
  BY DEF Marked
<1>3. IsFiniteSet(Marked(q, p))
  BY <1>1, <1>2, FS_Subset
<1> QED
  BY <1>3, FS_CardinalityType DEF Count

(* A message sent adds one to the count of its kind. *)
LEMMA MarkedAppend ==
  ASSUME NEW q \in Seq(Message), NEW m \in Message, NEW p
  PROVE  Count(Append(q, m), p) = IF m.pword = p THEN Count(q, p) + 1 ELSE Count(q, p)
<1>1. /\ Append(q, m) \in Seq(Message) /\ Len(Append(q, m)) = Len(q) + 1
      /\ Append(q, m)[Len(q) + 1] = m
      /\ \A i \in 1..Len(q) : Append(q, m)[i] = q[i]
  OBVIOUS
<1>2. CASE m.pword = p
  <2>1. Marked(Append(q, m), p) = Marked(q, p) \cup {Len(q) + 1}
    BY <1>1, <1>2 DEF Marked
  <2>2. Len(q) + 1 \notin Marked(q, p)
    BY DEF Marked
  <2>3. IsFiniteSet(Marked(q, p))
    BY MarkedType
  <2>4. Cardinality(Marked(q, p) \cup {Len(q) + 1}) = Cardinality(Marked(q, p)) + 1
    BY <2>2, <2>3, FS_AddElement
  <2> QED
    BY <1>2, <2>1, <2>4 DEF Count
<1>3. CASE m.pword # p
  <2>1. Marked(Append(q, m), p) = Marked(q, p)
    BY <1>1, <1>3 DEF Marked
  <2> QED
    BY <1>3, <2>1 DEF Count
<1> QED
  BY <1>2, <1>3

(* Taking the first message takes it out of the count. *)
LEMMA MarkedTail ==
  ASSUME NEW q \in Seq(Message), q # <<>>, NEW p
  PROVE  /\ q[1].pword = p => Count(Tail(q), p) <= Count(q, p) - 1
         /\ Count(Tail(q), p) <= Count(q, p)
<1> DEFINE S == Marked(Tail(q), p)
           T == Marked(q, p) \ {1}
           f == [i \in S |-> i + 1]
<1>1. /\ Tail(q) \in Seq(Message) /\ Len(Tail(q)) = Len(q) - 1
      /\ \A i \in 1..Len(Tail(q)) : Tail(q)[i] = q[i + 1]
  OBVIOUS
<1>2. \A i \in S : i \in Nat /\ i + 1 \in T
  BY <1>1 DEF Marked
<1>3. f \in Injection(S, T)
  <2>1. f \in [S -> T]
    BY <1>2
  <2>2. \A i, j \in S : f[i] = f[j] => i = j
    BY <1>2
  <2> QED
    BY <2>1, <2>2 DEF Injection, IsInjective
<1>4. IsFiniteSet(Marked(q, p)) /\ Count(q, p) \in Nat /\ Count(Tail(q), p) \in Nat
  BY <1>1, MarkedType
<1>5. /\ IsFiniteSet(T)
      /\ Cardinality(T) = IF 1 \in Marked(q, p) THEN Count(q, p) - 1 ELSE Count(q, p)
  BY <1>4, FS_RemoveElement DEF Count
<1>6. Count(Tail(q), p) <= Cardinality(T)
  BY <1>3, <1>5, FS_Injection DEF Count
<1>7. q[1].pword = p => 1 \in Marked(q, p)
  BY DEF Marked
<1> QED
  BY <1>4, <1>5, <1>6, <1>7

----------------------------------------------------------------------------
(* The messages of the handshake. *)
Owed == IF dev # NoLink THEN 1 ELSE 0
Handled == IF rpc = "ack" THEN 1 ELSE 0
Waited == IF InFlight THEN 1 ELSE 0

(* The messages StraysBounded counts, as a sum over the places they can be. *)
LEMMA HandshakeCount ==
  HandshakeMessages = Count(spwq, "data") + Count(devq, "ack") + Owed + Handled
BY DEF HandshakeMessages, Count, Marked, DataAt, AckAt, Owed, Handled

(* The types of the counts. *)
LEMMA CountsType ==
  ASSUME TypeOK
  PROVE  /\ spwq \in Seq(Message) /\ devq \in Seq(Message)
         /\ Count(spwq, "data") \in Nat /\ Count(devq, "ack") \in Nat
         /\ strays \in Nat
BY MarkedType, SimAssumption DEF TypeOK, QueuesType, OtherType

(* A step that lowers what is on its way, or pays for what it adds. *)
LEMMA StraysPaid ==
  ASSUME TypeOK, TypeOK', StraysBounded,
         Count(spwq, "data")' + Count(devq, "ack")' + Owed' + Handled'
           - (Count(spwq, "data") + Count(devq, "ack") + Owed + Handled)
         <= strays' + Waited' - (strays + Waited)
  PROVE  StraysBounded'
<1>1. /\ Count(spwq, "data") \in Nat /\ Count(devq, "ack") \in Nat /\ strays \in Nat
      /\ Owed \in Nat /\ Handled \in Nat /\ Waited \in Nat
  BY CountsType DEF Owed, Handled, Waited
<1>2. /\ Count(spwq, "data")' \in Nat /\ Count(devq, "ack")' \in Nat /\ strays' \in Nat
      /\ Owed' \in Nat /\ Handled' \in Nat /\ Waited' \in Nat
  <2>1. /\ spwq' \in Seq(Message) /\ devq' \in Seq(Message) /\ strays' \in Nat
    BY SimAssumption DEF TypeOK, QueuesType, OtherType
  <2> QED
    BY <2>1, MarkedType DEF Owed, Handled, Waited
<1>3. Count(spwq, "data") + Count(devq, "ack") + Owed + Handled <= strays + Waited
  BY HandshakeCount DEF StraysBounded, Waited
<1>4. (Count(spwq, "data") + Count(devq, "ack") + Owed + Handled)' <= (strays + Waited)'
  BY <1>1, <1>2, <1>3
<1>5. HandshakeMessages' = (Count(spwq, "data") + Count(devq, "ack") + Owed + Handled)'
  BY DEF HandshakeMessages, Count, Marked, DataAt, AckAt, Owed, Handled
<1> QED
  BY <1>4, <1>5 DEF StraysBounded, Waited

(* An action that touches none of these places. *)
LEMMA StraysKept ==
  ASSUME StraysBounded, UNCHANGED <<queues, dev, strays>>,
         (rpc' = "ack") <=> (rpc = "ack"), InFlight' <=> InFlight
  PROVE  StraysBounded'
BY DEF StraysBounded, HandshakeMessages, DataAt, AckAt, queues

(* A packet sent is paid for by the wait that starts. *)
LEMMA Strays_TxSend ==
  ASSUME TypeOK, TypeOK', StraysBounded, HeldDescriptors, TxSend
  PROVE  StraysBounded'
<1>1. Packet(vlink, "data", 0) \in Message /\ Packet(vlink, "data", 0).pword = "data"
  <2>1. vlink \in Links /\ 0 \in Byte
    BY DEF TxSend, HeldDescriptors, Byte
  <2> QED
    BY <2>1, PacketType DEF Packet
<1>2. Count(spwq', "data") = Count(spwq, "data") + 1 /\ devq' = devq
  BY <1>1, CountsType, MarkedAppend DEF TxSend
<1>3. UNCHANGED <<Owed, Handled, strays>> /\ Waited = 0 /\ Waited' = 1
  BY DEF TxSend, rx, Owed, Handled, Waited, InFlight, Sent
<1>4. Count(spwq, "data") \in Nat /\ Count(devq, "ack") \in Nat /\ strays \in Nat
  BY CountsType
<1>5. Count(spwq, "data")' + Count(devq, "ack")' + Owed' + Handled'
        - (Count(spwq, "data") + Count(devq, "ack") + Owed + Handled)
        <= strays' + Waited' - (strays + Waited)
  BY <1>2, <1>3, <1>4 DEF Owed, Handled
<1> QED
  BY <1>5, StraysPaid

(* A time code is neither packet nor ack. *)
LEMMA Strays_OpTimecode ==
  ASSUME TypeOK, TypeOK', StraysBounded, HeldDescriptors, OpTimecode
  PROVE  StraysBounded'
<1> DEFINE m == Packet(vlink, "time", vnum)
<1>1. m \in Message /\ m.pword # "data"
  BY PacketType DEF OpTimecode, HeldDescriptors, TypeOK, VcpuType, Packet
<1>2. Count(spwq', "data") = Count(spwq, "data") /\ devq' = devq
  BY <1>1, CountsType, MarkedAppend DEF OpTimecode
<1>3. UNCHANGED <<Owed, Handled, strays, Waited>>
  BY DEF OpTimecode, Executing, rx, history, Owed, Handled, Waited, InFlight, Sent
<1>4. Count(spwq, "data") \in Nat /\ Count(devq, "ack") \in Nat /\ strays \in Nat
  BY CountsType
<1>5. Count(spwq, "data")' + Count(devq, "ack")' + Owed' + Handled'
        - (Count(spwq, "data") + Count(devq, "ack") + Owed + Handled)
        <= strays' + Waited' - (strays + Waited)
  BY <1>2, <1>3, <1>4 DEF Owed, Handled, Waited
<1> QED
  BY <1>5, StraysPaid

(* A wait given up is one stray more. *)
LEMMA Strays_TxSpuriousWakeup ==
  ASSUME TypeOK, TypeOK', StraysBounded, TxSpuriousWakeup
  PROVE  StraysBounded'
<1>1. /\ spwq' = spwq /\ devq' = devq /\ Owed' = Owed /\ Handled' = Handled
      /\ strays' = strays + 1
  BY DEF TxSpuriousWakeup, queues, rx, Owed, Handled
<1>2. Waited = 1 /\ Waited' = 0
  BY DEF TxSpuriousWakeup, Waited, InFlight, Sent
<1>3. Owed \in Nat /\ Handled \in Nat
  BY DEF Owed, Handled
<1>4. Count(spwq', "data") = Count(spwq, "data") /\ Count(devq', "ack") = Count(devq, "ack")
  BY <1>1
<1>5. Count(spwq, "data") \in Nat /\ Count(devq, "ack") \in Nat /\ strays \in Nat
  BY CountsType
<1>6. Count(spwq, "data")' + Count(devq, "ack")' + Owed' + Handled'
        - (Count(spwq, "data") + Count(devq, "ack") + Owed + Handled)
        <= strays' + Waited' - (strays + Waited)
  BY <1>1, <1>2, <1>3, <1>4, <1>5
<1> QED
  BY <1>6, StraysPaid

(* An ack goes from the queue into the hands of the rx thread. *)
LEMMA Strays_RxReceive ==
  ASSUME TypeOK, TypeOK', StraysBounded, RxReceive
  PROVE  StraysBounded'
<1>1. devq # <<>> /\ devq' = Tail(devq) /\ spwq' = spwq
  BY DEF RxReceive
<1>2. /\ devq[1].pword = "ack" => Count(devq', "ack") <= Count(devq, "ack") - 1
      /\ Count(devq', "ack") <= Count(devq, "ack")
  BY <1>1, CountsType, MarkedTail
<1>3. Handled = 0 /\ (Handled' = 0 \/ (Handled' = 1 /\ devq[1].pword = "ack"))
  BY RxReceiveLabel DEF RxReceive, Handled
<1>4. UNCHANGED <<Owed, strays, Waited>>
  BY DEF RxReceive, vcpu, history, Owed, Waited, InFlight, Sent
<1>5. Count(devq', "ack") \in Nat
  BY MarkedType DEF TypeOK, QueuesType
<1>6. Count(spwq, "data") \in Nat /\ Count(devq, "ack") \in Nat /\ strays \in Nat
  BY CountsType
<1>7. Count(spwq, "data")' + Count(devq, "ack")' + Owed' + Handled'
        - (Count(spwq, "data") + Count(devq, "ack") + Owed + Handled)
        <= strays' + Waited' - (strays + Waited)
  BY <1>1, <1>2, <1>3, <1>4, <1>5, <1>6 DEF Owed, Waited
<1> QED
  BY <1>7, StraysPaid

(* The ack leaves its hands; the wait it ends, if any, ends with it. *)
LEMMA Strays_RxSignal ==
  ASSUME TypeOK, TypeOK', StraysBounded, RxSignal
  PROVE  StraysBounded'
<1>1. UNCHANGED <<spwq, devq, Owed, strays>> /\ Handled = 1 /\ Handled' = 0
  BY DEF RxSignal, RxReturn, queues, history, Owed, Handled
<1>2. Waited' = Waited \/ (Waited = 1 /\ Waited' = 0)
  BY DEF RxSignal, Waited, InFlight, Sent
<1>3. Count(spwq, "data") \in Nat /\ Count(devq, "ack") \in Nat /\ strays \in Nat
  BY CountsType
<1>4. Count(spwq, "data")' + Count(devq, "ack")' + Owed' + Handled'
        - (Count(spwq, "data") + Count(devq, "ack") + Owed + Handled)
        <= strays' + Waited' - (strays + Waited)
  BY <1>1, <1>2, <1>3 DEF Owed, Waited
<1> QED
  BY <1>4, StraysPaid

(* A packet becomes the ack the device owes. *)
LEMMA Strays_DevReceive ==
  ASSUME TypeOK, TypeOK', StraysBounded, DevReceive
  PROVE  StraysBounded'
<1>1. spwq # <<>> /\ spwq' = Tail(spwq) /\ devq' = devq
  BY DEF DevReceive
<1>2. /\ spwq[1].pword = "data" => Count(spwq', "data") <= Count(spwq, "data") - 1
      /\ Count(spwq', "data") <= Count(spwq, "data")
  BY <1>1, CountsType, MarkedTail
<1>3. Head(spwq) = spwq[1]
  BY <1>1, CountsType
<1>4. Owed = 0 /\ (Owed' = 0 \/ (Owed' = 1 /\ spwq[1].pword = "data"))
  BY <1>3 DEF DevReceive, Owed
<1>5. UNCHANGED <<Handled, strays, Waited>>
  BY DEF DevReceive, rx, vcpu, history, Handled, Waited, InFlight, Sent
<1>6. Count(spwq', "data") \in Nat
  BY MarkedType DEF TypeOK, QueuesType
<1>7. Count(spwq, "data") \in Nat /\ Count(devq, "ack") \in Nat /\ strays \in Nat
  BY CountsType
<1>8. Count(spwq, "data")' + Count(devq, "ack")' + Owed' + Handled'
        - (Count(spwq, "data") + Count(devq, "ack") + Owed + Handled)
        <= strays' + Waited' - (strays + Waited)
  BY <1>1, <1>2, <1>4, <1>5, <1>6, <1>7 DEF Handled, Waited
<1> QED
  BY <1>8, StraysPaid

(* The ack owed becomes a message. *)
LEMMA Strays_DevAck ==
  ASSUME TypeOK, TypeOK', StraysBounded, DevAck
  PROVE  StraysBounded'
<1>1. Packet(dev, "ack", 0) \in Message /\ Packet(dev, "ack", 0).pword = "ack"
  <2>1. dev \in Links /\ 0 \in Byte
    BY DEF DevAck, TypeOK, OtherType, Byte
  <2> QED
    BY <2>1, PacketType DEF Packet
<1>2. Count(devq', "ack") = Count(devq, "ack") + 1 /\ spwq' = spwq
  BY <1>1, CountsType, MarkedAppend DEF DevAck
<1>3. Owed = 1 /\ Owed' = 0 /\ UNCHANGED <<Handled, strays, Waited>>
  BY DEF DevAck, rx, vcpu, history, Owed, Handled, Waited, InFlight, Sent
<1>4. Count(spwq, "data") \in Nat /\ Count(devq, "ack") \in Nat /\ strays \in Nat
  BY CountsType
<1>5. Count(spwq, "data")' + Count(devq, "ack")' + Owed' + Handled'
        - (Count(spwq, "data") + Count(devq, "ack") + Owed + Handled)
        <= strays' + Waited' - (strays + Waited)
  BY <1>2, <1>3, <1>4 DEF Handled, Waited
<1> QED
  BY <1>5, StraysPaid

(* The device sends packets and time codes only. *)
LEMMA Strays_DevSend ==
  ASSUME TypeOK, TypeOK', StraysBounded, NEW m \in DevSends, DevSend(m)
  PROVE  StraysBounded'
<1>1. m \in Message /\ m.pword # "ack"
  BY SimAssumption
<1>2. Count(devq', "ack") = Count(devq, "ack") /\ spwq' = spwq
  BY <1>1, CountsType, MarkedAppend DEF DevSend
<1>3. UNCHANGED <<Owed, Handled, strays, Waited>>
  BY DEF DevSend, rx, vcpu, history, Owed, Handled, Waited, InFlight, Sent
<1>4. Count(spwq, "data") \in Nat /\ Count(devq, "ack") \in Nat /\ strays \in Nat
  BY CountsType
<1>5. Count(spwq, "data")' + Count(devq, "ack")' + Owed' + Handled'
        - (Count(spwq, "data") + Count(devq, "ack") + Owed + Handled)
        <= strays' + Waited' - (strays + Waited)
  BY <1>2, <1>3, <1>4 DEF Owed, Handled, Waited
<1> QED
  BY <1>5, StraysPaid

(* The device forgets the ack it owes. *)
LEMMA Strays_DevRestart ==
  ASSUME TypeOK, TypeOK', StraysBounded, DevRestart
  PROVE  StraysBounded'
<1>1. UNCHANGED <<spwq, devq, Handled, strays, Waited>> /\ Owed = 1 /\ Owed' = 0
  BY DEF DevRestart, queues, rx, vcpu, history, Owed, Handled, Waited, InFlight, Sent
<1>2. Count(spwq, "data") \in Nat /\ Count(devq, "ack") \in Nat /\ strays \in Nat
  BY CountsType
<1>3. Count(spwq, "data")' + Count(devq, "ack")' + Owed' + Handled'
        - (Count(spwq, "data") + Count(devq, "ack") + Owed + Handled)
        <= strays' + Waited' - (strays + Waited)
  BY <1>1, <1>2 DEF Handled, Waited
<1> QED
  BY <1>3, StraysPaid

(* A restart gives up the wait and drops what the rx thread held. *)
LEMMA Strays_QemuRestart ==
  ASSUME TypeOK, TypeOK', StraysBounded, QemuRestart
  PROVE  StraysBounded'
<1>1. UNCHANGED <<spwq, devq, Owed>> /\ strays' = strays + 1
  BY DEF QemuRestart, queues, Owed
<1>2. Handled \in {0, 1} /\ Handled' = 0 /\ Waited \in {0, 1} /\ Waited' = 0
  BY DEF QemuRestart, Handled, Waited, InFlight, Sent
<1>3. Count(spwq, "data") \in Nat /\ Count(devq, "ack") \in Nat /\ strays \in Nat
  BY CountsType
<1>4. Count(spwq, "data")' + Count(devq, "ack")' + Owed' + Handled'
        - (Count(spwq, "data") + Count(devq, "ack") + Owed + Handled)
        <= strays' + Waited' - (strays + Waited)
  BY <1>1, <1>2, <1>3 DEF Owed
<1> QED
  BY <1>4, StraysPaid

(* Every action keeps the bound. *)
LEMMA StraysStep ==
  ASSUME TypeOK, TypeOK', HeldDescriptors, StraysBounded, [Next]_vars
  PROVE  StraysBounded'
<1>1. ASSUME NEW l \in Links, NEW i \in 0..(TxRing - 1), GuestArmTx(l, i)
      PROVE  StraysBounded'
  BY <1>1, StraysKept DEF GuestArmTx, queues, vcpu, rx, history, InFlight, Sent
<1>2. ASSUME NEW l \in Links, NEW i \in 0..(RxRing - 1), GuestArmRx(l, i)
      PROVE  StraysBounded'
  BY <1>2, StraysKept DEF GuestArmRx, queues, vcpu, rx, history, InFlight, Sent
<1>3. ASSUME NEW l \in Links, NEW w \in GuestWrites, GuestWrite(l, w)
      PROVE  StraysBounded'
  BY <1>3, StraysKept DEF GuestWrite, queues, vcpu, rx, history, InFlight, Sent
<1>4. CASE GuestRead
  BY <1>4, StraysKept DEF GuestRead, queues, vcpu, rx, history, InFlight, Sent
<1>5. CASE ReadLocked
  BY <1>5, StraysKept DEF ReadLocked, queues, vcpu, rx, history, InFlight, Sent
<1>6. CASE OpLoad
  BY <1>6, StraysKept DEF OpLoad, Executing, queues, vcpu, rx, history, InFlight, Sent
<1>7. CASE OpStore
  BY <1>7, StraysKept DEF OpStore, queues, vcpu, rx, history, InFlight, Sent
<1>8. CASE OpCtr
  BY <1>8, StraysKept DEF OpCtr, Executing, queues, vcpu, rx, history, InFlight, Sent
<1>9. CASE OpSet
  BY <1>9, StraysKept DEF OpSet, Executing, queues, vcpu, rx, history, InFlight, Sent
<1>10. CASE OpTimeLoad
  BY <1>10, StraysKept DEF OpTimeLoad, Executing, queues, vcpu, rx, history, InFlight, Sent
<1>11. CASE OpTickStore
  BY <1>11, StraysKept DEF OpTickStore, queues, vcpu, rx, history, InFlight, Sent
<1>12. CASE OpTimecode
  BY <1>12, Strays_OpTimecode
<1>13. CASE TxEnable
  BY <1>13, StraysKept DEF TxEnable, OpsDone, queues, vcpu, rx, history, InFlight, Sent
<1>14. CASE TxFetch
  BY <1>14, StraysKept DEF TxFetch, queues, vcpu, rx, history, InFlight, Sent
<1>15. CASE TxSend
  BY <1>15, Strays_TxSend
<1>16. CASE TxWait
  BY <1>16, StraysKept DEF TxWait, OpsDone, queues, vcpu, rx, history, InFlight, Sent
<1>17. CASE TxSpuriousWakeup
  BY <1>17, Strays_TxSpuriousWakeup
<1>18. CASE TxRelock
  BY <1>18, StraysKept DEF TxRelock, queues, vcpu, rx, history, InFlight, Sent
<1>19. CASE TxFinish
  BY <1>19, StraysKept DEF TxFinish, queues, vcpu, rx, history, InFlight, Sent
<1>20. CASE TxStop
  BY <1>20, StraysKept DEF TxStop, OpsDone, queues, vcpu, rx, history, InFlight, Sent
<1>21. CASE RxReceive
  BY <1>21, Strays_RxReceive
<1>22. CASE RxSignal
  BY <1>22, Strays_RxSignal
<1>23. CASE RxLoad
  BY <1>23, StraysKept DEF RxLoad, queues, vcpu, rx, history, InFlight, Sent
<1>24. CASE RxStore
  BY <1>24, StraysKept DEF RxStore, RxReturn, TypeOK, RxType, vcpu, history, InFlight, Sent
<1>25. CASE RxCheckEnabled
  BY <1>25, StraysKept DEF RxCheckEnabled, RxCheck, RxReturn, queues, vcpu, rx, history, InFlight, Sent
<1>26. CASE RxCheckAddress
  BY <1>26, StraysKept DEF RxCheckAddress, RxCheck, RxReturn, queues, vcpu, rx, history, InFlight, Sent
<1>27. CASE RxCheckAvailable
  BY <1>27, StraysKept DEF RxCheckAvailable, RxCheck, RxReturn, queues, vcpu, rx, history, InFlight, Sent
<1>28. CASE RxFetch
  BY <1>28, StraysKept DEF RxFetch, RxModify, queues, vcpu, rx, history, InFlight, Sent
<1>29. CASE RxCopy
  BY <1>29, StraysKept DEF RxCopy, RxModify, queues, vcpu, rx, history, InFlight, Sent
<1>30. CASE RxGiveBack
  BY <1>30, StraysKept DEF RxGiveBack, RxReturn, queues, vcpu, rx, history, InFlight, Sent
<1>31. CASE RxTimeCompare
  BY <1>31, StraysKept DEF RxTimeCompare, RxCheck, RxReturn, queues, vcpu, rx, history, InFlight, Sent
<1>32. CASE RxTimeStore
  BY <1>32, StraysKept DEF RxTimeStore, RxModify, queues, vcpu, rx, history, InFlight, Sent
<1>33. CASE DevReceive
  BY <1>33, Strays_DevReceive
<1>34. CASE DevAck
  BY <1>34, Strays_DevAck
<1>35. CASE DevRestart
  BY <1>35, Strays_DevRestart
<1>36. CASE QemuRestart
  BY <1>36, Strays_QemuRestart
<1>37. ASSUME NEW m \in DevSends, DevSend(m)
      PROVE  StraysBounded'
  BY <1>37, Strays_DevSend
<1>38. CASE UNCHANGED vars
  BY <1>38, StraysKept DEF vars, queues, vcpu, rx, history, InFlight, Sent
<1> QED
  BY <1>1, <1>2, <1>3, <1>4, <1>5, <1>6, <1>7, <1>8, <1>9, <1>10, <1>11, <1>12, <1>13, <1>14, <1>15, <1>16, <1>17, <1>18, <1>19,
     <1>20, <1>21, <1>22, <1>23, <1>24, <1>25, <1>26, <1>27, <1>28, <1>29, <1>30, <1>31, <1>32, <1>33, <1>34, <1>35, <1>36, <1>37, <1>38
     DEF Next, Guest, Handler, RxThread, Device, Faults

(* At the start nothing is on its way. *)
LEMMA StraysInit ==
  ASSUME Init
  PROVE  StraysBounded
<1>1. spwq = <<>> /\ devq = <<>> /\ strays = 0 /\ Owed = 0 /\ Handled = 0
  BY DEF Init, Owed, Handled
<1>2. Count(spwq, "data") = 0 /\ Count(devq, "ack") = 0
  <2>1. Marked(spwq, "data") = {} /\ Marked(devq, "ack") = {}
    BY <1>1 DEF Marked
  <2> QED
    BY <2>1, FS_EmptySet DEF Count
<1>3. HandshakeMessages = 0
  BY <1>1, <1>2, HandshakeCount
<1> QED
  BY <1>1, <1>3 DEF StraysBounded

(* However many waits end without their ack and however often QEMU or the  *)
(* device restarts, each such fault leaves one message behind at most.     *)
THEOREM FaultsLeaveOneEach == Spec => []StraysBounded
<1>1. Init => StraysBounded
  BY StraysInit
<1>2. /\ TypeOK /\ HeldDescriptors /\ StraysBounded
      /\ (TypeOK /\ HeldDescriptors)'
      /\ [Next]_vars
      => StraysBounded'
  BY StraysStep
<1> QED
  BY <1>1, <1>2, TypeCorrect, PTL DEF Spec
=============================================================================
