--------------------------- MODULE GrspwSwapProofs ---------------------------
(***************************************************************************)
(* The byte swapping of GrspwSwap, for buffers of every length.  The loop  *)
(* invariant says that the i bytes done are in their place and that the    *)
(* byte bytes left are as they were before the call.                       *)
(***************************************************************************)
EXTENDS GrspwSwap, TLAPS

SwapTypeOK ==
  /\ src \in Memory /\ dest \in Memory /\ old \in Memory
  /\ len \in 0..MaxLen /\ byte \in 0..MaxLen /\ i \in 0..MaxLen

(* Two bytes left over were handled last: from then on only TwoByteTail    *)
(* tells where they are.                                                   *)
Tailed == byte = 0 /\ len % 4 = 2

SwapInv ==
  /\ SwapTypeOK
  /\ byte + i = len
  /\ byte = 0 \/ i % 4 = 0
  /\ ~Tailed => \A k \in Cells : dest[k] = IF k < i THEN src[Mirror(k)] ELSE old[k]
  /\ TwoByteTail

(* The groups of four are the same for every buffer they fit in.           *)
LEMMA FullGroup ==
  ASSUME NEW k \in Nat, NEW n \in Nat, n % 4 = 0, n <= k, k < n + 4
  PROVE  Group(k) = n
  BY DEF Group

LEMMA SwapInitInv == SwapInit => SwapInv
<1> SUFFICES ASSUME SwapInit PROVE SwapInv
  OBVIOUS
<1> USE SwapAssumption
<1>1. SwapTypeOK
  BY DEF SwapInit, SwapTypeOK
<1> QED
  BY <1>1 DEF SwapInit, SwapInv, SwapTypeOK, TwoByteTail, Tailed, Cells, Memory

LEMMA CallInv ==
  ASSUME SwapInv, NEW bytes \in Memory, NEW n \in 0..MaxLen, Call(bytes, n)
  PROVE  SwapInv'
<1> USE SwapAssumption
<1>1. SwapTypeOK'
  BY DEF Call, SwapInv, SwapTypeOK
<1> QED
  BY <1>1 DEF Call, SwapInv, SwapTypeOK, TwoByteTail, Tailed, Cells, Memory

(* The mirror of a place in the group the loop is at.                      *)
LEMMA MirrorAt ==
  ASSUME SwapInv, byte # 0, NEW k \in Nat, i <= k, k < i + 4
  PROVE  Mirror(k) = 2 * i + (IF byte < 4 THEN byte ELSE 4) - 1 - k
<1>1. Group(k) = i
  BY FullGroup DEF SwapInv, SwapTypeOK
<1>2. len - i = byte
  BY DEF SwapInv, SwapTypeOK
<1> QED
  BY <1>1, <1>2 DEF Mirror, GroupSize, SwapInv, SwapTypeOK

LEMMA FourInv ==
  ASSUME SwapInv, SwapFour
  PROVE  SwapInv'
<1> USE SwapAssumption
<1>1. /\ i \in Nat /\ byte \in Nat /\ len \in Nat /\ byte >= 4 /\ i % 4 = 0
      /\ byte + i = len /\ len <= MaxLen
  BY DEF SwapInv, SwapTypeOK, SwapFour
<1>2. SwapTypeOK'
  BY <1>1 DEF SwapInv, SwapTypeOK, SwapFour, Advance, Memory, Cells
<1>3. (byte + i = len)' /\ (i % 4 = 0)'
  BY <1>1 DEF SwapFour, Advance
<1>4. ~Tailed'
  BY <1>1, <1>3 DEF Tailed, SwapFour, Advance
<1>5. ASSUME NEW k \in Cells
      PROVE  dest'[k] = IF k < i + 4 THEN src[Mirror(k)] ELSE old[k]
  <2>1. k \in Nat /\ dest \in [Cells -> Byte] /\ ~Tailed
    BY <1>1 DEF Cells, SwapInv, SwapTypeOK, Memory, Tailed
  <2>2. CASE k < i \/ k >= i + 4
    <3>1. dest'[k] = dest[k]
      BY <1>1, <2>1, <2>2 DEF SwapFour
    <3> QED
      BY <1>1, <2>1, <2>2, <3>1 DEF SwapInv
  <2>3. CASE i <= k /\ k < i + 4
    <3>1. Mirror(k) = 2 * i + 3 - k
      BY <1>1, <2>1, <2>3, MirrorAt
    <3>2. k = i \/ k = i + 1 \/ k = i + 2 \/ k = i + 3
      BY <1>1, <2>1, <2>3
    <3>3. dest'[k] = src[2 * i + 3 - k]
      <4>1. CASE k = i
        <5>1. 2 * i + 3 - k = i + 3 /\ dest'[k] = src[i + 3]
          BY <1>1, <2>1, <4>1 DEF SwapFour
        <5> QED BY <5>1
      <4>2. CASE k = i + 1
        <5>1. 2 * i + 3 - k = i + 2 /\ dest'[k] = src[i + 2]
          BY <1>1, <2>1, <4>2 DEF SwapFour
        <5> QED BY <5>1
      <4>3. CASE k = i + 2
        <5>1. 2 * i + 3 - k = i + 1 /\ dest'[k] = src[i + 1]
          BY <1>1, <2>1, <4>3 DEF SwapFour
        <5> QED BY <5>1
      <4>4. CASE k = i + 3
        <5>1. 2 * i + 3 - k = i /\ dest'[k] = src[i]
          BY <1>1, <2>1, <4>4 DEF SwapFour
        <5> QED BY <5>1
      <4> QED
        BY <3>2, <4>1, <4>2, <4>3, <4>4
    <3> QED
      BY <2>3, <3>1, <3>3
  <2> QED
    BY <1>1, <2>1, <2>2, <2>3
<1>6. (\A k \in Cells : dest[k] = IF k < i THEN src[Mirror(k)] ELSE old[k])'
  BY <1>5 DEF SwapFour, Advance, Mirror, Group, GroupSize
<1> QED
  BY <1>2, <1>3, <1>4, <1>6 DEF SwapInv, TwoByteTail, Tailed

LEMMA ThreeInv ==
  ASSUME SwapInv, SwapThree
  PROVE  SwapInv'
<1> USE SwapAssumption
<1>1. /\ i \in Nat /\ len \in Nat /\ byte = 3 /\ i % 4 = 0
      /\ i + 3 = len /\ len <= MaxLen /\ len % 4 # 2
  BY DEF SwapInv, SwapTypeOK, SwapThree
<1>2. SwapTypeOK'
  <2>1. src \in [Cells -> Byte] /\ dest \in [Cells -> Byte]
    BY DEF SwapInv, SwapTypeOK, Memory
  <2>2. src[i] \in Byte /\ src[i + 1] \in Byte /\ src[i + 2] \in Byte
    BY <1>1, <2>1 DEF Cells
  <2>3. dest' \in [Cells -> Byte]
    BY <2>1, <2>2 DEF SwapThree
  <2> QED
    BY <1>1, <2>3 DEF SwapInv, SwapTypeOK, SwapThree, Advance, Memory
<1>3. byte' = 0 /\ i' = len /\ len' = len
  BY <1>1 DEF SwapThree, Advance
<1>4. ~Tailed'
  BY <1>1, <1>3 DEF Tailed
<1>5. ASSUME NEW k \in Cells
      PROVE  dest'[k] = IF k < i + 3 THEN src[Mirror(k)] ELSE old[k]
  <2>1. k \in Nat /\ dest \in [Cells -> Byte] /\ ~Tailed
    BY <1>1 DEF Cells, SwapInv, SwapTypeOK, Memory, Tailed
  <2>2. CASE k < i \/ k >= i + 3
    <3>1. dest'[k] = dest[k]
      BY <1>1, <2>1, <2>2 DEF SwapThree
    <3> QED
      BY <1>1, <2>1, <2>2, <3>1 DEF SwapInv
  <2>3. CASE i <= k /\ k < i + 3
    <3>1. Mirror(k) = 2 * i + 2 - k
      BY <1>1, <2>1, <2>3, MirrorAt
    <3>2. k = i \/ k = i + 1 \/ k = i + 2
      BY <1>1, <2>1, <2>3
    <3>3. dest'[k] = src[2 * i + 2 - k]
      <4>1. CASE k = i
        <5>1. 2 * i + 2 - k = i + 2 /\ dest'[k] = src[i + 2]
          BY <1>1, <2>1, <4>1 DEF SwapThree
        <5> QED BY <5>1
      <4>2. CASE k = i + 1
        <5>1. 2 * i + 2 - k = i + 1 /\ dest'[k] = src[i + 1]
          BY <1>1, <2>1, <4>2 DEF SwapThree
        <5> QED BY <5>1
      <4>3. CASE k = i + 2
        <5>1. 2 * i + 2 - k = i /\ dest'[k] = src[i]
          BY <1>1, <2>1, <4>3 DEF SwapThree
        <5> QED BY <5>1
      <4> QED
        BY <3>2, <4>1, <4>2, <4>3
    <3> QED
      BY <2>3, <3>1, <3>3
  <2> QED
    BY <1>1, <2>1, <2>2, <2>3
<1>6. (\A k \in Cells : dest[k] = IF k < i THEN src[Mirror(k)] ELSE old[k])'
  BY <1>1, <1>5 DEF SwapThree, Advance, Mirror, Group, GroupSize
<1> QED
  BY <1>1, <1>2, <1>3, <1>4, <1>6 DEF SwapInv, TwoByteTail, Tailed

LEMMA TwoInv ==
  ASSUME SwapInv, SwapTwo
  PROVE  SwapInv'
<1> USE SwapAssumption
<1>1. /\ i \in Nat /\ len \in Nat /\ byte = 2 /\ i % 4 = 0
      /\ i + 2 = len /\ len <= MaxLen /\ len % 4 = 2
  BY DEF SwapInv, SwapTypeOK, SwapTwo
<1>2. SwapTypeOK'
  BY <1>1 DEF SwapInv, SwapTypeOK, SwapTwo, Advance, Memory, Cells
<1>3. byte' = 0 /\ i' = len /\ len' = len /\ src' = src /\ old' = old
  BY <1>1 DEF SwapTwo, Advance
<1>4. dest[i + 1] = old[i + 1]
  <2>1. i + 1 \in Cells /\ ~Tailed /\ ~(i + 1 < i)
    BY <1>1 DEF Cells, Tailed
  <2> QED
    BY <2>1 DEF SwapInv
<1>5. dest'[i] = src[i + 1] /\ dest'[i + 1] = old[i + 1] /\ dest'[i + 2] = src[i]
  BY <1>1, <1>4 DEF SwapTwo, SwapInv, SwapTypeOK, Memory, Cells
<1>6. len - 2 = i /\ len - 1 = i + 1 /\ len = i + 2
  BY <1>1
<1>7. TwoByteTail'
  BY <1>3, <1>5, <1>6 DEF TwoByteTail
<1> QED
  BY <1>1, <1>2, <1>3, <1>7 DEF SwapInv, Tailed

LEMMA OneInv ==
  ASSUME SwapInv, SwapOne
  PROVE  SwapInv'
<1> USE SwapAssumption
<1>1. /\ i \in Nat /\ len \in Nat /\ byte = 1 /\ i % 4 = 0
      /\ i + 1 = len /\ len <= MaxLen /\ len % 4 # 2
  BY DEF SwapInv, SwapTypeOK, SwapOne
<1>2. SwapTypeOK'
  BY <1>1 DEF SwapInv, SwapTypeOK, SwapOne, Advance, Memory, Cells
<1>3. byte' = 0 /\ i' = len /\ len' = len
  BY <1>1 DEF SwapOne, Advance
<1>4. ~Tailed'
  BY <1>1, <1>3 DEF Tailed
<1>5. ASSUME NEW k \in Cells
      PROVE  dest'[k] = IF k < i + 1 THEN src[Mirror(k)] ELSE old[k]
  <2>1. k \in Nat /\ dest \in [Cells -> Byte] /\ ~Tailed
    BY <1>1 DEF Cells, SwapInv, SwapTypeOK, Memory, Tailed
  <2>2. CASE k # i
    <3>1. dest'[k] = dest[k]
      BY <1>1, <2>1, <2>2 DEF SwapOne
    <3> QED
      BY <1>1, <2>1, <2>2, <3>1 DEF SwapInv
  <2>3. CASE k = i
    <3>1. Mirror(k) = 2 * i - k /\ 2 * i - k = i
      BY <1>1, <2>1, <2>3, MirrorAt
    <3> QED
      BY <1>1, <2>1, <2>3, <3>1 DEF SwapOne
  <2> QED
    BY <2>2, <2>3
<1>6. (\A k \in Cells : dest[k] = IF k < i THEN src[Mirror(k)] ELSE old[k])'
  BY <1>1, <1>5 DEF SwapOne, Advance, Mirror, Group, GroupSize
<1> QED
  BY <1>1, <1>2, <1>3, <1>4, <1>6 DEF SwapInv, TwoByteTail, Tailed

(* What the invariant says of a call that has ended.                       *)
LEMMA SwapEnds == SwapInv => WordsSwapped /\ TwoByteTail
<1> SUFFICES ASSUME SwapInv PROVE WordsSwapped
  BY DEF SwapInv
<1>1. byte = 0 => i = len
  BY DEF SwapInv, SwapTypeOK
<1> QED
  BY <1>1 DEF SwapInv, WordsSwapped, Tailed

(* Every group of a buffer of any length is reversed and nothing else is   *)
(* written, unless two bytes are left over; then the last byte is lost     *)
(* from the buffer and the byte behind the buffer is overwritten.          *)
THEOREM SwapCorrect == SwapSpec => [](WordsSwapped /\ TwoByteTail)
<1>1. SwapInv /\ [SwapNext]_swap => SwapInv'
  <2> SUFFICES ASSUME SwapInv, [SwapNext]_swap PROVE SwapInv'
    OBVIOUS
  <2>1. CASE UNCHANGED swap
    BY <2>1 DEF swap, SwapInv, SwapTypeOK, Tailed, TwoByteTail, Mirror, Group, GroupSize
  <2> QED
    BY <2>1, CallInv, FourInv, ThreeInv, TwoInv, OneInv DEF SwapNext
<1> QED
  BY SwapInitInv, <1>1, SwapEnds, PTL DEF SwapSpec
=============================================================================
