--------------------------- MODULE GrspwPathProofs ---------------------------
(***************************************************************************)
(* What arrives at the device and in the guest's RAM is what was sent,     *)
(* for packets, buffers and queues of every size.  The inductive           *)
(* invariant, PathInv, follows the bytes: what the running handler has     *)
(* given to the swap is what RAM holds, one packet at most is between the  *)
(* transmitter and the end of its wait, and each message in the device's   *)
(* queue carries the packet recorded for it.                               *)
(***************************************************************************)
EXTENDS GrspwPathLemmas

Ram == [0..(RamSize - 1) -> Byte]

PathTypeOK ==
  /\ SwapInv
  /\ ram \in Ram /\ image \in Ram
  /\ txbuffer \in [0..(C_MAXQ_SIZE - 1) -> Byte]
  /\ waiting \in BOOLEAN /\ owes \in BOOLEAN
  /\ spwq \in Seq(Seq(Byte)) /\ devq \in Seq(Seq(Byte)) /\ offered \in Seq(Seq(Byte))
  /\ given \in Seq(Byte)

(* What the running handler has given to the swap.                         *)
Calls ==
  /\ pc \in {"idle", "txwake", "exited", "txread", "txwrite", "rxread", "rxwrite"}
  /\ pc \in {"idle", "txwake", "exited"} => byte = 0 /\ len = 0
  /\ pc = "txread" => len = 16 /\ \A k \in 0..15 : src[k] = ram[TxTable + k]
  /\ pc = "txwrite" => len = 4 /\ \A k \in 0..3 : src[k] = TxControl[k + 1]
  /\ pc = "rxread" => len = 8 /\ \A k \in 0..7 : src[k] = ram[RxTable + k]
  /\ pc = "rxwrite" => len = 4

(* An enabled transmit descriptor names the driver's buffers.              *)
TxArmed ==
  Has(image[TxTable + 2], TxEN) =>
    /\ image[TxTable + 3] <= HeaderRoom
    /\ Number(Peek(image, TxTable + 4, 4)) = HeaderBuf
    /\ Number(Peek(image, TxTable + 8, 4)) <= DataRoom
    /\ Number(Peek(image, TxTable + 12, 4)) = DataBuf

(* Until it is written back, the descriptor in RAM is the one the host has *)
(* a copy of, and enabled.                                                 *)
TxHeld ==
  waiting \/ pc \in {"txwake", "txwrite"} =>
    /\ Has(ram[TxTable + 2], TxEN)
    /\ txd = <<ram[TxTable + 3], ram[TxTable + 2], ram[TxTable + 1], ram[TxTable]>>

Received == WellFormed(GuestPacket.header) => got = GuestPacket
IsAck(k) == devq[k][2] = Ack

(* One packet at most is under way, and once the device has taken it, it   *)
(* has what the guest sent until the guest sends again.                    *)
Handshake ==
  /\ waiting => pc \in {"idle", "rxread", "rxwrite", "exited"}
  /\ spwq # <<>> =>
       /\ Len(spwq) = 1 /\ waiting /\ ~owes /\ \A k \in 1..Len(devq) : ~IsAck(k)
       /\ WellFormed(GuestPacket.header) => ReceivePacket(spwq[1]) = GuestPacket
  /\ owes => waiting /\ Received /\ \A k \in 1..Len(devq) : ~IsAck(k)
  /\ \A k \in 1..Len(devq) : IsAck(k) =>
       /\ waiting /\ Received
       /\ \A j \in 1..Len(devq) : IsAck(j) => j = k
  /\ pc \in {"txwake", "txwrite"} => Received

InHand == IF pc = "rxread" THEN 1 ELSE 0

(* What the messages of the device carry is what was recorded for them.    *)
Messages ==
  /\ Len(offered) = Len(devq) + InHand
  /\ \A k \in 1..Len(devq) : ReceivePacket(devq[k]).data = offered[k + InHand]
  /\ pc = "rxread" => data = offered[1]

(* An enabled receive descriptor is as the driver wrote it.                *)
RxArmed ==
  Has(ram[RxTable], RxEN) =>
    ram[RxTable] = RxEN + RxWR + RxIE /\ Number(Peek(image, RxTable + 4, 4)) = RxBuf

Size == IF Len(given) > RxMax THEN RxMax ELSE Len(given)

(* Before the control word is written back the packet is in the buffer.    *)
RxPending ==
  pc = "rxwrite" =>
    /\ Has(ram[RxTable], RxEN)
    /\ Peek(ram, RxBuf, Size) = Peek(given, 1, Size)
    /\ src[0] = Size % 256 /\ src[1] = (Size \div 256) % 256 /\ src[2] = Size \div 65536
    /\ src[3] % 16 = RxWR + RxIE /\ (Len(given) > RxMax => Has(src[3], RxTR))

PathInv ==
  /\ PathTypeOK /\ Calls
  /\ TxArmed /\ TxHeld /\ Handshake
  /\ Messages /\ RxArmed /\ RxPending
  /\ RamKept /\ PacketArrives /\ GuestGetsPacket

----------------------------------------------------------------------------
(* Where the tables and buffers are.                                       *)
LEMMA Layout ==
  /\ MaxLen = 16 /\ HeaderRoom \in 0..255 /\ DataRoom \in Nat /\ RxMax \in Nat
  /\ RamSize \in Nat /\ RamSize <= C_SPWTDW2_DATA_LENGTH /\ 24 <= RamSize
  /\ HeaderBuf = 24 /\ DataBuf = 24 + HeaderRoom /\ RxBuf = 24 + HeaderRoom + DataRoom
  /\ RxBuf + RxMax <= RamSize /\ TxTable = 0 /\ RxTable = 16
  BY PathAssumption DEF HeaderBuf, DataBuf, RxBuf, TxTable, RxTable, Byte

(* The loop between two calls.                                             *)
LEMMA SwapStill ==
  ASSUME SwapInv, UNCHANGED swap
  PROVE  SwapInv'
  BY DEF swap, SwapInv, SwapTypeOK, Tailed, TwoByteTail, Mirror, Group, GroupSize

LEMMA BlankType == Blank \in Memory
  BY DEF Blank, Memory, Byte

LEMMA FreedInv ==
  ASSUME SwapInv, byte = 0, Freed
  PROVE  SwapInv'
<1> USE SwapAssumption
<1>1. SwapTypeOK'
  BY BlankType DEF SwapInv, SwapTypeOK, Freed
<1>2. byte' = 0 /\ i' = 0 /\ len' = 0 /\ dest' = old'
  BY DEF Freed
<1> QED
  BY <1>1, <1>2 DEF SwapInv, SwapTypeOK, Tailed, TwoByteTail, Cells, Memory

LEMMA SwapBytesInv ==
  ASSUME SwapInv, NEW bytes \in Seq(Byte), Len(bytes) <= 16, SwapBytes(bytes)
  PROVE  /\ SwapInv' /\ byte = 0 /\ len' = Len(bytes)
         /\ \A k \in 0..(Len(bytes) - 1) : src'[k] = bytes[k + 1]
<1> DEFINE b == [k \in Cells |-> IF k < Len(bytes) THEN bytes[k + 1] ELSE 0]
<1>1. bytes \in [1..Len(bytes) -> Byte]
  BY LenProperties
<1>2. Len(bytes) \in Nat /\ MaxLen \in Nat /\ Len(bytes) <= MaxLen
  BY LenProperties, Layout, SwapAssumption
<1>3. b \in Memory
  <2>1. ASSUME NEW k \in Cells, k < Len(bytes)
        PROVE  bytes[k + 1] \in Byte
    <3>1. k + 1 \in 1..Len(bytes)
      BY <1>2, <2>1 DEF Cells
    <3> QED
      BY <1>1, <3>1
  <2>2. 0 \in Byte
    BY DEF Byte
  <2> QED
    BY <2>1, <2>2 DEF Memory
<1>4. Call(b, Len(bytes))
  BY DEF SwapBytes
<1>5. SwapInv'
  <2>1. Len(bytes) \in 0..MaxLen
    BY <1>2
  <2> HIDE DEF b
  <2> QED
    BY <1>3, <1>4, <2>1, CallInv
<1>6. byte = 0 /\ len' = Len(bytes) /\ src' = b
  BY <1>4 DEF Call
<1> QED
  BY <1>5, <1>6, <1>2 DEF Cells

----------------------------------------------------------------------------
(* The driver's words.                                                     *)
LEMMA WordBytes ==
  ASSUME NEW b \in Byte, NEW n \in Nat, n <= C_SPWTDW2_DATA_LENGTH, NEW k \in 1..4
  PROVE  Word(b, n)[k] \in Byte
<1>1. n % 256 \in Byte /\ (n \div 256) % 256 \in Byte
  BY SMT DEF Byte
<1>2. n \div 65536 \in Byte
  <2>1. n \div 65536 >= 0 /\ n \div 65536 <= 255 /\ n \div 65536 \in Int
    BY SMT DEF C_SPWTDW2_DATA_LENGTH
  <2> QED
    BY <2>1 DEF Byte
<1>3. k = 1 \/ k = 2 \/ k = 3 \/ k = 4
  OBVIOUS
<1> QED
  BY <1>1, <1>2, <1>3 DEF Word

(* What arming a descriptor leaves in RAM.                                 *)
TxWords(m, mem, header, bytes) ==
  /\ m \in Ram /\ m[TxTable + 2] = TxEN + TxWR /\ m[TxTable + 3] = Len(header)
  /\ Number(Peek(m, TxTable + 4, 4)) = HeaderBuf
  /\ Number(Peek(m, TxTable + 8, 4)) = Len(bytes)
  /\ Number(Peek(m, TxTable + 12, 4)) = DataBuf
  /\ Peek(m, HeaderBuf, Len(header)) = header /\ Peek(m, DataBuf, Len(bytes)) = bytes
  /\ \A a \in 0..(RamSize - 1) : a \in 16..23 \/ a >= RxBuf => m[a] = mem[a]

LEMMA ArmTxWords ==
  ASSUME NEW mem \in Ram, NEW header \in Headers, NEW bytes \in Payloads
  PROVE  TxWords(ArmTx(mem, header, bytes), mem, header, bytes)
<1> DEFINE words == << <<0, 0, TxEN + TxWR, Len(header)>>, Pointer(HeaderBuf),
                       Word(0, Len(bytes)), Pointer(DataBuf) >>
           m1 == Poke(mem, HeaderBuf, header)
           m2 == Poke(m1, DataBuf, bytes)
           m3 == PokeWords(m2, TxTable, words)
<1>1. header \in Seq(Byte) /\ Len(header) <= HeaderRoom
      /\ bytes \in Seq(Byte) /\ Len(bytes) <= DataRoom
  BY PathAssumption
<1>2. Len(header) \in Nat /\ Len(bytes) \in Nat
  BY <1>1, LenProperties
<1>3. HeaderBuf \in Nat /\ HeaderBuf <= C_SPWTDW2_DATA_LENGTH
      /\ DataBuf \in Nat /\ DataBuf <= C_SPWTDW2_DATA_LENGTH
      /\ Len(bytes) <= C_SPWTDW2_DATA_LENGTH /\ Len(header) \in Byte
  <2>1. C_SPWTDW2_DATA_LENGTH \in Int
    BY SMT DEF C_SPWTDW2_DATA_LENGTH
  <2>2. HeaderBuf \in Nat /\ HeaderBuf <= RamSize /\ DataBuf \in Nat /\ DataBuf <= RamSize
        /\ DataRoom <= RamSize /\ RamSize \in Nat /\ HeaderRoom <= 255 /\ HeaderRoom \in Nat
    BY Layout
  <2>3. Len(header) \in Byte
    <3>1. Len(header) \in Nat /\ Len(header) <= 255
      BY <1>1, <1>2, <2>2
    <3> QED
      BY <3>1, SmallIsByte
  <2> QED
    BY <1>1, <1>2, <2>1, <2>2, <2>3, Layout
<1>4. Len(words) = 4 /\ words[1] = <<0, 0, TxEN + TxWR, Len(header)>>
      /\ words[2] = Word(64, HeaderBuf) /\ words[3] = Word(0, Len(bytes))
      /\ words[4] = Word(64, DataBuf)
  BY DEF Pointer
<1> HIDE DEF words
<1>5. \A w \in 1..Len(words), b \in 1..4 : words[w][b] \in Byte
  <2> SUFFICES ASSUME NEW w \in 1..4, NEW b \in 1..4 PROVE words[w][b] \in Byte
    BY <1>4
  <2>1. 0 \in Byte /\ 64 \in Byte
    BY DEF Byte
  <2>2. CASE w = 1
    <3>1. words[1][b] = 0 \/ words[1][b] = TxEN + TxWR \/ words[1][b] = Len(header)
      BY <1>4
    <3>2. TxEN + TxWR \in Byte
      BY DEF Byte, TxEN, TxWR
    <3> QED
      BY <1>3, <2>1, <2>2, <3>1, <3>2
  <2>3. CASE w = 2
    BY <1>3, <1>4, <2>1, <2>3, WordBytes
  <2>4. CASE w = 3
    BY <1>2, <1>3, <1>4, <2>1, <2>4, WordBytes
  <2>5. CASE w = 4
    BY <1>3, <1>4, <2>1, <2>5, WordBytes
  <2> QED
    BY <2>2, <2>3, <2>4, <2>5
<1>6. m1 \in Ram
  BY <1>1, <1>3, Layout, PokeType DEF Ram
<1>7. m2 \in Ram
  <2> HIDE DEF m1
  <2>1. DataBuf \in Int /\ RamSize \in Nat
    BY <1>3, Layout
  <2> QED
    BY <1>1, <1>6, <2>1, PokeType DEF Ram
<1>8. ArmTx(mem, header, bytes) = m3
  BY DEF ArmTx, words
<1>9. \A a \in 0..(RamSize - 1) : a < 24 \/ a >= RxBuf => m2[a] = mem[a]
  <2> SUFFICES ASSUME NEW a \in 0..(RamSize - 1), a < 24 \/ a >= RxBuf
               PROVE  m2[a] = mem[a]
    OBVIOUS
  <2>1. a \in DOMAIN mem /\ a \in Int /\ (a < HeaderBuf \/ a >= HeaderBuf + Len(header))
        /\ (a < DataBuf \/ a >= DataBuf + Len(bytes)) /\ HeaderBuf \in Int /\ DataBuf \in Int
    BY <1>1, <1>2, Layout DEF Ram
  <2>2. m1[a] = mem[a]
    BY <1>2, <2>1, PokeOut
  <2>3. a \in DOMAIN m1
    BY <1>6, <2>1 DEF Ram
  <2> HIDE DEF m1
  <2>4. m2[a] = m1[a]
    BY <1>2, <2>1, <2>3, PokeOut
  <2> QED
    BY <2>2, <2>4
<1> HIDE DEF m2
<1>10. TxTable \in Int /\ TxTable = 0 /\ \A a \in 0..15 : a \in DOMAIN m2
  BY <1>7, Layout DEF Ram
<1>11. m3 \in Ram
  <2>1. Len(words) \in Nat /\ RamSize \in Nat
    BY <1>4, Layout
  <2> QED
    BY <1>5, <1>7, <1>10, <2>1, PokeWordsType DEF Ram
<1>12. m3[2] = TxEN + TxWR /\ m3[3] = Len(header)
  <2>1. ASSUME NEW b \in 1..4
        PROVE  m3[b - 1] = words[1][b]
    <3>1. TxTable \in Int /\ Len(words) \in Nat \ {0}
      BY <1>4, <1>10
    <3>2. FirstWord(m3, TxTable, words)
      BY <3>1, PokeFirstWord
    <3>3. TxTable + b - 1 = b - 1 /\ b - 1 \in 0..(RamSize - 1)
      BY <1>10, Layout
    <3> HIDE DEF m3
    <3>4. TxTable + b - 1 \in DOMAIN m3
      BY <1>11, <3>3 DEF Ram
    <3> QED
      BY <3>2, <3>3, <3>4 DEF FirstWord
  <2>2. m3[3 - 1] = words[1][3] /\ m3[4 - 1] = words[1][4]
    BY <2>1
  <2> QED
    BY <1>4, <2>2
<1>13. ASSUME NEW w \in 1..4
       PROVE  Number(Peek(m3, 4 * (w - 1), 4)) = Number(words[w])
  <2>1. Len(words) \in Nat /\ w \in 1..Len(words)
        /\ \A b \in 1..4 : TxTable + 4 * (w - 1) + b - 1 \in DOMAIN m2
    BY <1>4, <1>10
  <2>2. Number(Peek(m3, TxTable + 4 * (w - 1), 4)) = Number(words[w])
    BY <1>10, <2>1, PokeWordsNumber
  <2>3. TxTable + 4 * (w - 1) = 4 * (w - 1)
    BY <1>10
  <2> QED
    BY <2>2, <2>3
<1>14. \A a \in 0..(RamSize - 1) : a >= 16 => m3[a] = m2[a]
  <2> SUFFICES ASSUME NEW a \in 0..(RamSize - 1), a >= 16 PROVE m3[a] = m2[a]
    OBVIOUS
  <2>1. a \in DOMAIN m2 /\ a >= TxTable + 4 * Len(words) /\ Len(words) \in Nat
    BY <1>4, <1>7, <1>10 DEF Ram
  <2> QED
    BY <1>10, <2>1, PokeWordsOut
<1> HIDE DEF m3
<1>15. Number(Peek(m3, 4, 4)) = HeaderBuf /\ Number(Peek(m3, 8, 4)) = Len(bytes)
       /\ Number(Peek(m3, 12, 4)) = DataBuf
  <2>1. Number(Peek(m3, 4 * (2 - 1), 4)) = Number(words[2])
        /\ Number(Peek(m3, 4 * (3 - 1), 4)) = Number(words[3])
        /\ Number(Peek(m3, 4 * (4 - 1), 4)) = Number(words[4])
    BY <1>13
  <2>2. 4 * (2 - 1) = 4 /\ 4 * (3 - 1) = 8 /\ 4 * (4 - 1) = 12
    OBVIOUS
  <2>3. Number(words[2]) = HeaderBuf /\ Number(words[3]) = Len(bytes)
        /\ Number(words[4]) = DataBuf
    BY <1>2, <1>3, <1>4, WordRound
  <2> QED
    BY <2>1, <2>2, <2>3
<1>16. \A a \in 0..(RamSize - 1) : a \in 16..23 \/ a >= RxBuf => m3[a] = mem[a]
  BY <1>9, <1>14, Layout
<1>17. Peek(m3, HeaderBuf, Len(header)) = header
  <2>1. ASSUME NEW k \in 1..Len(header)
        PROVE  m3[HeaderBuf + k - 1] = header[k]
    <3> DEFINE a == HeaderBuf + k - 1
    <3>1. /\ a \in 0..(RamSize - 1) /\ a >= 16 /\ a < DataBuf /\ HeaderBuf <= a
          /\ a < HeaderBuf + Len(header) /\ a - HeaderBuf + 1 = k
      BY <1>1, <1>2, Layout
    <3>2. a \in DOMAIN mem /\ a \in DOMAIN m1 /\ a \in Int /\ HeaderBuf \in Int /\ DataBuf \in Int
      BY <1>3, <1>6, <3>1 DEF Ram
    <3> HIDE DEF a
    <3>3. m1[a] = header[a - HeaderBuf + 1]
      BY <1>2, <3>1, <3>2, PokeIn
    <3> HIDE DEF m1
    <3>4. m2[a] = m1[a]
      BY <1>2, <3>1, <3>2, PokeOut DEF m2
    <3>5. m3[a] = header[k]
      BY <1>14, <3>1, <3>3, <3>4
    <3> QED
      BY <3>5 DEF a
  <2> QED
    BY <1>1, <1>3, <2>1, PeekWhole
<1>18. Peek(m3, DataBuf, Len(bytes)) = bytes
  <2>1. ASSUME NEW k \in 1..Len(bytes)
        PROVE  m3[DataBuf + k - 1] = bytes[k]
    <3> DEFINE a == DataBuf + k - 1
    <3>1. /\ a \in 0..(RamSize - 1) /\ a >= 16 /\ DataBuf <= a
          /\ a < DataBuf + Len(bytes) /\ a - DataBuf + 1 = k
      BY <1>1, <1>2, Layout
    <3>2. a \in DOMAIN m1 /\ a \in Int /\ DataBuf \in Int
      BY <1>3, <1>6, <3>1 DEF Ram
    <3> HIDE DEF a, m1
    <3>3. m2[a] = bytes[a - DataBuf + 1]
      BY <1>2, <3>1, <3>2, PokeIn DEF m2
    <3>4. m3[a] = bytes[k]
      BY <1>14, <3>1, <3>3
    <3> QED
      BY <3>4 DEF a
  <2> QED
    BY <1>1, <1>3, <2>1, PeekWhole
<1> QED
  BY <1>8, <1>10, <1>11, <1>12, <1>15, <1>16, <1>17, <1>18 DEF TxWords

RxWords(m, mem) ==
  /\ m \in Ram /\ m[RxTable] = RxEN + RxWR + RxIE
  /\ Number(Peek(m, RxTable + 4, 4)) = RxBuf
  /\ \A a \in 0..(RamSize - 1) : a \notin 16..23 => m[a] = mem[a]

LEMMA ArmRxWords ==
  ASSUME NEW mem \in Ram
  PROVE  RxWords(ArmRx(mem), mem)
<1> DEFINE words == << Word(RxEN + RxWR + RxIE, 0), Pointer(RxBuf) >>
           m == PokeWords(mem, RxTable, words)
<1>1. RxBuf \in Nat /\ RxBuf <= C_SPWTDW2_DATA_LENGTH
  <2>1. C_SPWTDW2_DATA_LENGTH \in Int
    BY SMT DEF C_SPWTDW2_DATA_LENGTH
  <2>2. RxBuf \in Nat /\ RxBuf <= RamSize /\ RamSize \in Nat
    BY Layout
  <2> QED
    BY <2>1, <2>2, Layout
<1>2. Len(words) = 2 /\ words[1] = Word(RxEN + RxWR + RxIE, 0) /\ words[2] = Word(64, RxBuf)
  BY DEF Pointer
<1> HIDE DEF words
<1>3. \A w \in 1..Len(words), b \in 1..4 : words[w][b] \in Byte
  <2> SUFFICES ASSUME NEW w \in 1..2, NEW b \in 1..4 PROVE words[w][b] \in Byte
    BY <1>2
  <2>1. RxEN + RxWR + RxIE \in Byte /\ 64 \in Byte
    BY DEF Byte, RxEN, RxWR, RxIE
  <2>2. 0 \in Nat /\ 0 <= C_SPWTDW2_DATA_LENGTH
    BY SMT DEF C_SPWTDW2_DATA_LENGTH
  <2>3. CASE w = 1
    BY <1>2, <2>1, <2>2, <2>3, WordBytes
  <2>4. CASE w = 2
    BY <1>1, <1>2, <2>1, <2>4, WordBytes
  <2> QED
    BY <2>3, <2>4
<1>4. RxTable \in Int /\ RxTable = 16 /\ RamSize \in Nat /\ \A a \in 16..23 : a \in DOMAIN mem
  BY Layout DEF Ram
<1>5. Len(words) \in Nat
  BY <1>2
<1>6. m \in Ram
  BY <1>3, <1>4, <1>5, PokeWordsType DEF Ram
<1>7. m[RxTable] = RxEN + RxWR + RxIE
  <2>1. ASSUME NEW b \in 1..4
        PROVE  m[15 + b] = words[1][b]
    <3>0. RxTable \in Int /\ Len(words) \in Nat \ {0}
      BY <1>2, <1>4
    <3>1. FirstWord(m, RxTable, words)
      BY <3>0, PokeFirstWord
    <3>2. RxTable + b - 1 = 15 + b /\ 15 + b \in 0..(RamSize - 1)
      BY <1>4, Layout
    <3>3. RxTable + b - 1 \in DOMAIN m
      BY <1>6, <3>2 DEF Ram
    <3> HIDE DEF m
    <3> QED
      BY <3>1, <3>2, <3>3 DEF FirstWord
  <2>2. m[15 + 1] = words[1][1]
    BY <2>1
  <2>3. words[1][1] = RxEN + RxWR + RxIE
    BY <1>2 DEF Word
  <2> QED
    BY <1>4, <2>2, <2>3
<1>8. Number(Peek(m, RxTable + 4, 4)) = RxBuf
  <2>1. 2 \in 1..Len(words) /\ RxTable + 4 * (2 - 1) = RxTable + 4
        /\ \A b \in 1..4 : RxTable + 4 * (2 - 1) + b - 1 \in DOMAIN mem
    BY <1>2, <1>4
  <2>2. Number(Peek(m, RxTable + 4 * (2 - 1), 4)) = Number(words[2])
    BY <1>4, <1>5, <2>1, PokeWordsNumber
  <2>3. Number(words[2]) = RxBuf
    BY <1>1, <1>2, WordRound
  <2> QED
    BY <2>1, <2>2, <2>3
<1>9. \A a \in 0..(RamSize - 1) : a \notin 16..23 => m[a] = mem[a]
  <2> SUFFICES ASSUME NEW a \in 0..(RamSize - 1), a \notin 16..23 PROVE m[a] = mem[a]
    OBVIOUS
  <2>1. a \in DOMAIN mem /\ a \in Int /\ (a < RxTable \/ a >= RxTable + 4 * Len(words))
    <3>1. DOMAIN mem = 0..(RamSize - 1) /\ a \in Int
      BY <1>4 DEF Ram
    <3>2. a < 16 \/ a >= 24
      BY <3>1
    <3> QED
      BY <1>2, <1>4, <3>1, <3>2
  <2>2. RxTable \in Int /\ Len(words) \in Nat
    BY <1>4, <1>5
  <2> QED
    BY <2>1, <2>2, PokeWordsOut
<1>10. ArmRx(mem) = m
  BY DEF ArmRx, words
<1> HIDE DEF m
<1> QED
  BY <1>6, <1>7, <1>8, <1>9, <1>10 DEF RxWords

(* What is written into RAM and into its history leaves no new difference. *)
LEMMA ArmTxSame ==
  ASSUME NEW mem \in Ram, NEW other \in Ram, NEW header, NEW bytes, NEW a \in 0..(RamSize - 1)
  PROVE  \/ ArmTx(mem, header, bytes)[a] = ArmTx(other, header, bytes)[a]
         \/ ArmTx(mem, header, bytes)[a] = mem[a] /\ ArmTx(other, header, bytes)[a] = other[a]
<1> DEFINE m1 == Poke(mem, HeaderBuf, header)
           o1 == Poke(other, HeaderBuf, header)
           m2 == Poke(m1, DataBuf, bytes)
           o2 == Poke(o1, DataBuf, bytes)
<1>1. a \in DOMAIN mem /\ DOMAIN other = DOMAIN mem
  BY DEF Ram
<1>2. /\ DOMAIN m1 = DOMAIN mem /\ DOMAIN o1 = DOMAIN m1
      /\ m1[a] = o1[a] \/ (m1[a] = mem[a] /\ o1[a] = other[a])
  BY <1>1, PokeSame
<1> HIDE DEF m1, o1
<1>3. /\ DOMAIN m2 = DOMAIN m1 /\ DOMAIN o2 = DOMAIN m2
      /\ m2[a] = o2[a] \/ (m2[a] = m1[a] /\ o2[a] = o1[a])
  BY <1>1, <1>2, PokeSame
<1> HIDE DEF m2, o2
<1> DEFINE words == << <<0, 0, TxEN + TxWR, Len(header)>>, Pointer(HeaderBuf),
                       Word(0, Len(bytes)), Pointer(DataBuf) >>
           m3 == PokeWords(m2, TxTable, words)
           o3 == PokeWords(o2, TxTable, words)
<1>4. ArmTx(mem, header, bytes) = m3 /\ ArmTx(other, header, bytes) = o3
  BY DEF ArmTx, m1, m2, o1, o2
<1> HIDE DEF words
<1>5. m3[a] = o3[a] \/ (m3[a] = m2[a] /\ o3[a] = o2[a])
  BY <1>1, <1>2, <1>3, PokeWordsSame
<1> QED
  BY <1>2, <1>3, <1>4, <1>5

----------------------------------------------------------------------------
(* What a step that leaves RAM, or the queues, alone preserves.            *)
LEMMA RamStill ==
  ASSUME PathInv, UNCHANGED ram, UNCHANGED image
  PROVE  /\ TxArmed' /\ RxArmed' /\ RamKept'
         /\ UNCHANGED got => PacketArrives'
         /\ UNCHANGED given => GuestGetsPacket'
<1>1. TxArmed' /\ RxArmed'
  BY DEF PathInv, TxArmed, RxArmed
<1>2. RamKept'
  BY DEF PathInv, RamKept
<1>3. UNCHANGED got => PacketArrives'
  BY DEF PathInv, PacketArrives, TxDone, Armed, GuestPacket
<1>4. UNCHANGED given => GuestGetsPacket'
  BY DEF PathInv, GuestGetsPacket, RxDone, Armed
<1> QED
  BY <1>1, <1>2, <1>3, <1>4

LEMMA HandshakeStill ==
  ASSUME Handshake, UNCHANGED waiting, UNCHANGED spwq, UNCHANGED devq, UNCHANGED owes,
         UNCHANGED image, UNCHANGED got,
         waiting => pc' \in {"idle", "rxread", "rxwrite", "exited"},
         pc' \in {"txwake", "txwrite"} => pc \in {"txwake", "txwrite"}
  PROVE  Handshake'
<1>1. GuestPacket' = GuestPacket
  BY DEF GuestPacket
<1>2. Received' = Received
  BY <1>1 DEF Received
<1>3. \A k : IsAck(k)' = IsAck(k)
  BY DEF IsAck
<1> HIDE DEF Received, IsAck
<1> QED
  BY <1>1, <1>2, <1>3 DEF Handshake

LEMMA MessagesStill ==
  ASSUME Messages, UNCHANGED devq, UNCHANGED offered, pc # "rxread", pc' # "rxread"
  PROVE  Messages'
  BY DEF Messages, InHand

LEMMA TxHeldStill ==
  ASSUME TxHeld, UNCHANGED txd, UNCHANGED waiting,
         \A a \in 0..3 : ram'[a] = ram[a],
         pc' \in {"txwake", "txwrite"} => pc \in {"txwake", "txwrite"}
  PROVE  TxHeld'
<1>1. ram'[TxTable] = ram[TxTable] /\ ram'[TxTable + 1] = ram[TxTable + 1]
      /\ ram'[TxTable + 2] = ram[TxTable + 2] /\ ram'[TxTable + 3] = ram[TxTable + 3]
  BY DEF TxTable
<1> QED
  BY <1>1 DEF TxHeld

(* A descriptor is read.                                                   *)
LEMMA ReadBytes ==
  ASSUME PathTypeOK, NEW at \in Nat, NEW n \in Nat, at + n <= 24, n <= 16,
         SwapBytes(Peek(ram, at, n))
  PROVE  SwapInv' /\ len' = n /\ \A k \in 0..(n - 1) : src'[k] = ram[at + k]
<1> DEFINE bytes == Peek(ram, at, n)
<1>1. \A k \in 1..n : ram[at + k - 1] \in Byte
  <2> SUFFICES ASSUME NEW k \in 1..n PROVE ram[at + k - 1] \in Byte
    OBVIOUS
  <2>1. at + k - 1 \in 0..(RamSize - 1)
    <3>1. RamSize \in Nat /\ 24 <= RamSize
      BY Layout
    <3> QED
      BY <3>1
  <2> QED
    BY <2>1 DEF PathTypeOK, Ram
<1>2. bytes \in Seq(Byte) /\ Len(bytes) = n
  <2>1. bytes \in [1..n -> Byte]
    BY <1>1 DEF Peek
  <2> QED
    BY <2>1, LenProperties
<1>3. \A k \in 0..(n - 1) : bytes[k + 1] = ram[at + k]
  <2> SUFFICES ASSUME NEW k \in 0..(n - 1) PROVE bytes[k + 1] = ram[at + k]
    OBVIOUS
  <2>1. k + 1 \in 1..n /\ at + (k + 1) - 1 = at + k
    OBVIOUS
  <2> QED
    BY <2>1 DEF Peek
<1>4. SwapBytes(bytes)
  OBVIOUS
<1> HIDE DEF bytes
<1>5. SwapInv' /\ len' = n /\ \A k \in 0..(n - 1) : src'[k] = bytes[k + 1]
  BY <1>2, <1>4, SwapBytesInv DEF PathTypeOK
<1> QED
  BY <1>3, <1>5

----------------------------------------------------------------------------
(* The steps, one by one.                                                  *)
LEMMA SwapWordsInv ==
  ASSUME PathInv, SwapWords
  PROVE  PathInv'
<1> USE DEF PathInv
<1>1. UNCHANGED <<ram, pc, waiting, spwq, devq, owes, image, got, offered, given>>
      /\ UNCHANGED <<txbuffer, txd, data>> /\ SwapFour
  BY DEF SwapWords, host, queues, history
<1>2. byte # 0 /\ src' = src /\ len' = len
  BY DEF SwapWords, SwapFour, Advance
<1>3. PathTypeOK'
  BY <1>1, FourInv DEF PathTypeOK
<1>4. Calls'
  BY <1>1, <1>2 DEF Calls, TxControl
<1>5. TxHeld'
  BY <1>1 DEF TxHeld
<1>6. Handshake'
  BY <1>1, HandshakeStill DEF Handshake
<1>7. Messages' /\ RxPending'
  BY <1>1, <1>2 DEF Messages, InHand, RxPending, Size
<1> QED
  BY <1>1, <1>3, <1>4, <1>5, <1>6, <1>7, RamStill

LEMMA TxReadInv ==
  ASSUME PathInv, TxRead
  PROVE  PathInv'
<1> USE DEF PathInv
<1>1. UNCHANGED <<ram, waiting, spwq, devq, owes, image, got, offered, given>>
      /\ UNCHANGED <<txbuffer, txd, data>> /\ pc = "idle" /\ ~waiting /\ pc' = "txread"
  BY DEF TxRead, host, queues, history, Running
<1>2. SwapInv' /\ len' = 16 /\ \A k \in 0..15 : src'[k] = ram[0 + k]
  <2>1. SwapBytes(Peek(ram, 0, 16))
    BY DEF TxRead, TxTable
  <2>2. SwapInv' /\ len' = 16 /\ \A k \in 0..(16 - 1) : src'[k] = ram[0 + k]
    BY <2>1, ReadBytes
  <2> QED
    BY <2>2
<1>3. PathTypeOK'
  BY <1>1, <1>2 DEF PathTypeOK
<1>4. Calls'
  BY <1>1, <1>2 DEF Calls, TxTable
<1>5. TxHeld' /\ RxPending'
  BY <1>1 DEF TxHeld, RxPending
<1>6. Handshake'
  BY <1>1, HandshakeStill
<1>7. Messages'
  BY <1>1, MessagesStill
<1> QED
  BY <1>1, <1>3, <1>4, <1>5, <1>6, <1>7, RamStill

LEMMA TxNothingInv ==
  ASSUME PathInv, TxNothing
  PROVE  PathInv'
<1> USE DEF PathInv
<1>1. UNCHANGED <<ram, waiting, spwq, devq, owes, image, got, offered, given>>
      /\ UNCHANGED <<txbuffer, txd, data>> /\ pc = "txread" /\ byte = 0 /\ pc' = "idle" /\ Freed
  BY DEF TxNothing, host, queues, history, Running
<1>2. ~waiting
  BY <1>1 DEF Handshake
<1>3. PathTypeOK'
  BY <1>1, FreedInv DEF PathTypeOK
<1>4. Calls'
  BY <1>1 DEF Calls, Freed
<1>5. TxHeld' /\ RxPending'
  BY <1>1, <1>2 DEF TxHeld, RxPending
<1>6. Handshake'
  BY <1>1, HandshakeStill
<1>7. Messages'
  BY <1>1, MessagesStill
<1> QED
  BY <1>1, <1>3, <1>4, <1>5, <1>6, <1>7, RamStill

LEMMA TxFatalInv ==
  ASSUME PathInv, TxFatal
  PROVE  PathInv'
<1> USE DEF PathInv
<1>1. UNCHANGED <<ram, waiting, spwq, devq, owes, image, got, offered, given>>
      /\ UNCHANGED <<txbuffer, txd, data>> /\ pc = "txread" /\ byte = 0 /\ pc' = "exited" /\ Freed
  BY DEF TxFatal, host, queues, history, Running
<1>2. ~waiting
  BY <1>1 DEF Handshake
<1>3. PathTypeOK'
  BY <1>1, FreedInv DEF PathTypeOK
<1>4. Calls'
  BY <1>1 DEF Calls, Freed
<1>5. TxHeld' /\ RxPending'
  BY <1>1, <1>2 DEF TxHeld, RxPending
<1>6. Handshake'
  BY <1>1, HandshakeStill
<1>7. Messages'
  BY <1>1, MessagesStill
<1> QED
  BY <1>1, <1>3, <1>4, <1>5, <1>6, <1>7, RamStill

(* The control word as the transmitter writes it back: EN cleared.         *)
LEMMA TxControlBytes ==
  ASSUME PathTypeOK, TxHeld, pc \in {"txwake", "txwrite"}
  PROVE  /\ TxControl \in Seq(Byte) /\ Len(TxControl) = 4
         /\ TxControl[1] = ram[3] /\ TxControl[2] = Without(ram[2], TxEN)
         /\ TxControl[3] = ram[1] /\ TxControl[4] = ram[0]
<1>1. ram[0] \in Byte /\ ram[1] \in Byte /\ ram[2] \in Byte /\ ram[3] \in Byte
  <2>1. 0 \in 0..(RamSize - 1) /\ 1 \in 0..(RamSize - 1)
        /\ 2 \in 0..(RamSize - 1) /\ 3 \in 0..(RamSize - 1)
    BY Layout
  <2> QED
    BY <2>1 DEF PathTypeOK, Ram
<1>2. txd = <<ram[3], ram[2], ram[1], ram[0]>>
  BY DEF TxHeld, TxTable
<1>3. Without(ram[2], TxEN) \in Byte
  BY <1>1, WithoutBit
<1>4. TxControl = <<ram[3], Without(ram[2], TxEN), ram[1], ram[0]>>
  BY <1>2 DEF TxControl
<1> HIDE DEF TxControl
<1> QED
  BY <1>1, <1>3, <1>4

LEMMA TxDisableInv ==
  ASSUME PathInv, TxDisable
  PROVE  PathInv'
<1> USE DEF PathInv
<1>1. UNCHANGED <<ram, waiting, spwq, devq, owes, image, got, offered, given>>
      /\ UNCHANGED <<txbuffer, txd, data>> /\ pc = "txwake" /\ pc' = "txwrite"
      /\ SwapBytes(TxControl)
  BY DEF TxDisable, host, queues, history, Running
<1>2. ~waiting
  BY <1>1 DEF Handshake
<1>3. TxControl \in Seq(Byte) /\ Len(TxControl) = 4
  BY <1>1, TxControlBytes
<1>4. SwapInv' /\ len' = 4 /\ \A k \in 0..3 : src'[k] = TxControl[k + 1]
  <2> DEFINE bytes == TxControl
  <2>1. SwapInv /\ bytes \in Seq(Byte) /\ Len(bytes) = 4 /\ Len(bytes) <= 16 /\ SwapBytes(bytes)
    BY <1>1, <1>3 DEF PathTypeOK
  <2> HIDE DEF bytes
  <2>2. SwapInv' /\ len' = Len(bytes) /\ \A k \in 0..(Len(bytes) - 1) : src'[k] = bytes[k + 1]
    BY <2>1, SwapBytesInv
  <2>3. SwapInv' /\ len' = 4 /\ \A k \in 0..3 : src'[k] = bytes[k + 1]
    BY <2>1, <2>2
  <2> QED
    BY <2>3 DEF bytes
<1>5. PathTypeOK'
  BY <1>1, <1>4 DEF PathTypeOK
<1>6. TxControl' = TxControl
  BY <1>1 DEF TxControl
<1>7. Calls'
  BY <1>1, <1>4, <1>6 DEF Calls
<1>8. TxHeld' /\ RxPending'
  BY <1>1 DEF TxHeld, RxPending
<1>9. Handshake'
  BY <1>1, <1>2, HandshakeStill
<1>10. Messages'
  BY <1>1, MessagesStill
<1> QED
  BY <1>1, <1>5, <1>7, <1>8, <1>9, <1>10, RamStill

(* A control word is written back with its bytes reversed.                 *)
LEMMA WriteBack ==
  ASSUME PathTypeOK, byte = 0, len = 4, NEW at \in Nat, at + 4 <= 24,
         ram' = Poke(ram, at, Swapped)
  PROVE  /\ ram' \in Ram
         /\ \A k \in 0..3 : ram'[at + k] = src[3 - k]
         /\ \A a \in 0..(RamSize - 1) : a < at \/ a >= at + 4 => ram'[a] = ram[a]
<1>1. \A k \in 1..4 : Swapped[k] = src[4 - k]
  <2> SUFFICES ASSUME NEW k \in 1..4 PROVE Swapped[k] = src[4 - k]
    OBVIOUS
  <2>1. Swapped[k] = dest[0 + k - 1]
    BY DEF Swapped, Peek
  <2>2. SwapInv /\ len % 4 = 0 /\ 4 * 0 + 4 <= len /\ 0 \in Nat
    BY DEF PathTypeOK
  <2>3. dest[4 * 0 + k - 1] = src[4 * 0 + 4 - k]
    BY <2>2, SwappedByte
  <2>4. 4 * 0 + k - 1 = 0 + k - 1 /\ 4 * 0 + 4 - k = 4 - k
    OBVIOUS
  <2> QED
    BY <2>1, <2>3, <2>4
<1>2. Swapped \in Seq(Byte) /\ Len(Swapped) = 4
  <2>1. ASSUME NEW k \in 1..4
        PROVE  Swapped[k] \in Byte
    <3>1. 4 - k \in Cells
      BY Layout DEF Cells
    <3> QED
      BY <1>1, <3>1 DEF PathTypeOK, SwapInv, SwapTypeOK, Memory
  <2>2. Swapped \in [1..4 -> Byte]
    BY <2>1 DEF Swapped, Peek
  <2> QED
    BY <2>2, LenProperties
<1> HIDE DEF Swapped
<1>3. RamSize \in Nat /\ 24 <= RamSize /\ ram \in [0..(RamSize - 1) -> Byte]
      /\ DOMAIN ram = 0..(RamSize - 1)
  <2>1. ram \in [0..(RamSize - 1) -> Byte]
    BY DEF PathTypeOK, Ram
  <2> QED
    BY <2>1, Layout
<1>4. ram' \in Ram
  BY <1>2, <1>3, PokeType DEF Ram
<1>5. ASSUME NEW k \in 0..3
      PROVE  ram'[at + k] = src[3 - k]
  <2>1. at + k \in DOMAIN ram /\ at + k \in Int /\ at <= at + k /\ at + k < at + Len(Swapped)
        /\ Len(Swapped) \in Nat /\ (at + k) - at + 1 = k + 1
    BY <1>2, <1>3
  <2>2. ram'[at + k] = Swapped[(at + k) - at + 1]
    <3> DEFINE a == at + k
    <3>1. a \in DOMAIN ram /\ a \in Int /\ at <= a /\ a < at + Len(Swapped)
          /\ Len(Swapped) \in Nat /\ at \in Int
      BY <2>1
    <3> HIDE DEF a
    <3>2. Poke(ram, at, Swapped)[a] = Swapped[a - at + 1]
      BY <3>1, PokeIn
    <3> QED
      BY <3>2 DEF a
  <2>3. Swapped[k + 1] = src[4 - (k + 1)]
    BY <1>1
  <2> QED
    BY <2>1, <2>2, <2>3
<1>6. ASSUME NEW a \in 0..(RamSize - 1), a < at \/ a >= at + 4
      PROVE  ram'[a] = ram[a]
  <2>1. a \in DOMAIN ram /\ (a < at \/ a >= at + Len(Swapped)) /\ Len(Swapped) \in Nat
    BY <1>2, <1>3, <1>6
  <2> QED
    BY <2>1, PokeOut
<1> QED
  BY <1>4, <1>5, <1>6

(* What RamKept says of one place.                                         *)
LEMMA KeptOutside ==
  ASSUME PathTypeOK, RamKept, NEW a \in 0..(RamSize - 1), a # 2, a \notin 16..19, a < RxBuf
  PROVE  ram[a] = image[a]
<1>1. DOMAIN ram = 0..(RamSize - 1)
  BY DEF PathTypeOK, Ram
<1>2. a # TxTable + 2 /\ a \notin RxTable..(RxTable + 3) /\ a \notin RxBuf..(RxBuf + RxMax - 1)
  BY Layout
<1> QED
  BY <1>1, <1>2 DEF RamKept

LEMMA EnabledKept ==
  ASSUME PathTypeOK, RamKept, Has(ram[TxTable + 2], TxEN)
  PROVE  image[TxTable + 2] = ram[TxTable + 2]
<1> DEFINE a == TxTable + 2
<1>1. a \in DOMAIN ram /\ a \notin RxTable..(RxTable + 3) /\ a \notin RxBuf..(RxBuf + RxMax - 1)
      /\ image[a] \in Byte
  BY Layout DEF PathTypeOK, Ram
<1>2. ~Has(Without(image[a], TxEN), TxEN)
  BY <1>1, WithoutBit
<1> HIDE DEF a
<1>3. ram[a] # image[a] => ram[a] = Without(image[a], TxEN)
  BY <1>1 DEF RamKept
<1> QED
  BY <1>2, <1>3 DEF a

(* RamKept, after a write of the engines or of the guest.                  *)
LEMMA KeptAfter ==
  ASSUME ram' \in Ram,
         \A a \in 0..(RamSize - 1) : ram'[a] # image'[a] =>
           \/ a = TxTable + 2 /\ ram'[a] = Without(image'[a], TxEN)
           \/ a \in RxTable..(RxTable + 3)
           \/ a \in RxBuf..(RxBuf + RxMax - 1)
  PROVE  RamKept'
<1>1. DOMAIN ram' = 0..(RamSize - 1)
  BY DEF Ram
<1> QED
  BY <1>1 DEF RamKept

(* The receive side, where nothing of it is written.                       *)
LEMMA RxStill ==
  ASSUME PathInv, ram' \in Ram, image' \in Ram, UNCHANGED given, UNCHANGED src,
         \A a \in 0..(RamSize - 1) :
           a \in 16..23 \/ a >= RxBuf => ram'[a] = ram[a] /\ image'[a] = image[a]
  PROVE  RxArmed' /\ GuestGetsPacket'
<1>1. /\ ram'[RxTable] = ram[RxTable] /\ image'[RxTable] = image[RxTable]
      /\ \A k \in 0..7 : ram'[RxTable + k] = ram[RxTable + k]
      /\ \A k \in 0..7 : image'[RxTable + k] = image[RxTable + k]
  BY Layout
<1>2. Peek(ram', RxTable, 4) = Peek(ram, RxTable, 4)
      /\ Peek(image', RxTable + 4, 4) = Peek(image, RxTable + 4, 4)
  BY <1>1, Layout DEF Peek
<1>3. ASSUME NEW n \in Nat, n <= RxMax
      PROVE  Peek(ram', RxBuf, n) = Peek(ram, RxBuf, n)
  <2>1. ASSUME NEW k \in 1..n
        PROVE  ram'[RxBuf + k - 1] = ram[RxBuf + k - 1]
    <3>1. RxBuf + k - 1 \in 0..(RamSize - 1) /\ RxBuf + k - 1 >= RxBuf
      BY <1>3, Layout
    <3> QED
      BY <3>1
  <2> QED
    BY <2>1 DEF Peek
<1>4. Size \in Nat /\ Size <= RxMax /\ Size' = Size
  BY Layout, LenProperties DEF PathInv, PathTypeOK, Size
<1>5. Peek(ram', RxBuf, Size) = Peek(ram, RxBuf, Size)
  BY <1>3, <1>4
<1>6. RxArmed'
  BY <1>1, <1>2 DEF PathInv, RxArmed
<1>7. GuestGetsPacket'
  BY <1>1, <1>2, <1>4, <1>5 DEF PathInv, GuestGetsPacket, RxDone, Armed, Size
<1> QED
  BY <1>6, <1>7

LEMMA TxWriteBackInv ==
  ASSUME PathInv, TxWriteBack
  PROVE  PathInv'
<1> USE DEF PathInv
<1>1. UNCHANGED <<waiting, spwq, devq, owes, image, got, offered, given>>
      /\ UNCHANGED <<txbuffer, txd, data>> /\ pc = "txwrite" /\ byte = 0 /\ pc' = "idle" /\ Freed
      /\ ram' = Poke(ram, TxTable, Swapped)
  BY DEF TxWriteBack, host, queues, history, Running
<1>2. ~waiting /\ Received
  BY <1>1 DEF Handshake
<1>3. len = 4 /\ \A k \in 0..3 : src[k] = TxControl[k + 1]
  BY <1>1 DEF Calls
<1>4. ram' \in Ram /\ (\A k \in 0..3 : ram'[0 + k] = src[3 - k])
      /\ \A a \in 0..(RamSize - 1) : a < 0 \/ a >= 0 + 4 => ram'[a] = ram[a]
  <2>1. ram' = Poke(ram, 0, Swapped)
    BY <1>1 DEF TxTable
  <2> QED
    BY <1>1, <1>3, <2>1, WriteBack
<1>5. ram'[0] = ram[0] /\ ram'[1] = ram[1] /\ ram'[2] = Without(ram[2], TxEN) /\ ram'[3] = ram[3]
  <2>1. ram'[0 + 0] = src[3 - 0] /\ ram'[0 + 1] = src[3 - 1] /\ ram'[0 + 2] = src[3 - 2]
        /\ ram'[0 + 3] = src[3 - 3]
    BY <1>4
  <2>2. src[0] = TxControl[0 + 1] /\ src[1] = TxControl[1 + 1] /\ src[2] = TxControl[2 + 1]
        /\ src[3] = TxControl[3 + 1]
    BY <1>3
  <2>3. TxControl[1] = ram[3] /\ TxControl[2] = Without(ram[2], TxEN)
        /\ TxControl[3] = ram[1] /\ TxControl[4] = ram[0]
    BY <1>1, TxControlBytes
  <2> QED
    BY <2>1, <2>2, <2>3
<1>6. \A a \in 0..(RamSize - 1) : a # 2 => ram'[a] = ram[a]
  <2> SUFFICES ASSUME NEW a \in 0..(RamSize - 1), a # 2 PROVE ram'[a] = ram[a]
    OBVIOUS
  <2>1. CASE a >= 4
    BY <1>4, <2>1
  <2>2. CASE a = 0 \/ a = 1 \/ a = 3
    BY <1>5, <2>2
  <2> QED
    BY <2>1, <2>2
<1>7. PathTypeOK'
  BY <1>1, <1>4, FreedInv DEF PathTypeOK
<1>8. Calls'
  BY <1>1 DEF Calls, Freed
<1>9. TxHeld' /\ RxPending'
  BY <1>1, <1>2 DEF TxHeld, RxPending
<1>10. Handshake'
  BY <1>1, HandshakeStill
<1>11. Messages'
  BY <1>1, MessagesStill
<1>12. TxArmed' /\ PacketArrives'
  BY <1>1, <1>2 DEF TxArmed, PacketArrives, Received, GuestPacket
<1>13. RxArmed' /\ GuestGetsPacket'
  <2>1. ram'[RxTable] = ram[RxTable] /\ \A k \in 1..4 : ram'[RxTable + k - 1] = ram[RxTable + k - 1]
    BY <1>6, Layout
  <2>2. Peek(ram', RxTable, 4) = Peek(ram, RxTable, 4)
    BY <2>1 DEF Peek
  <2>3. ASSUME NEW n \in Nat, n <= RxMax
        PROVE  Peek(ram', RxBuf, n) = Peek(ram, RxBuf, n)
    <3>1. ASSUME NEW k \in 1..n
          PROVE  ram'[RxBuf + k - 1] = ram[RxBuf + k - 1]
      <4>1. RxBuf + k - 1 \in 0..(RamSize - 1) /\ RxBuf + k - 1 # 2
        BY <2>3, Layout
      <4> QED
        BY <1>6, <4>1
    <3> QED
      BY <3>1 DEF Peek
  <2>4. Size \in Nat /\ Size <= RxMax
    BY Layout, LenProperties DEF PathTypeOK, Size
  <2>5. Peek(ram', RxBuf, Size) = Peek(ram, RxBuf, Size)
    BY <2>3, <2>4
  <2> QED
    BY <1>1, <2>1, <2>2, <2>5 DEF RxArmed, GuestGetsPacket, RxDone, Armed, Size
<1>14. RamKept'
  <2>1. ASSUME NEW a \in 0..(RamSize - 1), ram'[a] # image'[a]
        PROVE  \/ a = TxTable + 2 /\ ram'[a] = Without(image'[a], TxEN)
               \/ a \in RxTable..(RxTable + 3)
               \/ a \in RxBuf..(RxBuf + RxMax - 1)
    <3>1. CASE a = 2
      <4>1. TxTable + 2 = 2
        BY DEF TxTable
      <4>2. Has(ram[2], TxEN)
        BY <1>1, <4>1 DEF TxHeld
      <4>3. image[2] = ram[2]
        BY <4>1, <4>2, EnabledKept
      <4> QED
        BY <1>1, <1>5, <3>1, <4>1, <4>3
    <3>2. CASE a # 2
      <4>1. ram[a] # image[a] /\ a \in DOMAIN ram /\ a # TxTable + 2
        BY <1>1, <1>6, <2>1, <3>2 DEF PathTypeOK, Ram, TxTable
      <4> QED
        BY <4>1 DEF RamKept
    <3> QED
      BY <3>1, <3>2
  <2> QED
    BY <1>4, <2>1, KeptAfter
<1> QED
  BY <1>7, <1>8, <1>9, <1>10, <1>11, <1>12, <1>13, <1>14

LEMMA GuestArmTxInv ==
  ASSUME PathInv, NEW header \in Headers, NEW bytes \in Payloads, GuestArmTx(header, bytes)
  PROVE  PathInv'
<1> USE DEF PathInv
<1>1. UNCHANGED <<waiting, spwq, devq, owes, got, offered, given, pc>> /\ UNCHANGED swap
      /\ UNCHANGED <<txbuffer, txd, data>> /\ pc = "idle" /\ byte = 0 /\ ~waiting
      /\ ram' = ArmTx(ram, header, bytes) /\ image' = ArmTx(image, header, bytes)
  BY DEF GuestArmTx, host, queues, Running
<1>2. UNCHANGED <<byte, len, src>>
  BY <1>1 DEF swap
<1>3. TxWords(ram', ram, header, bytes) /\ TxWords(image', image, header, bytes)
  BY <1>1, ArmTxWords DEF PathTypeOK
<1>4. PathTypeOK'
  BY <1>1, <1>3, SwapStill DEF PathTypeOK, TxWords
<1>5. Calls'
  BY <1>1, <1>2 DEF Calls
<1>6. TxHeld' /\ RxPending'
  BY <1>1 DEF TxHeld, RxPending
<1>7. Handshake'
  <2>1. spwq = <<>> /\ ~owes /\ \A k \in 1..Len(devq) : ~IsAck(k)
    BY <1>1 DEF Handshake
  <2>2. \A k : IsAck(k)' = IsAck(k)
    BY <1>1 DEF IsAck
  <2> QED
    BY <1>1, <2>1, <2>2 DEF Handshake
<1>8. Messages'
  BY <1>1, MessagesStill
<1>9. RxArmed' /\ GuestGetsPacket'
  <2>1. \A a \in 0..(RamSize - 1) :
           a \in 16..23 \/ a >= RxBuf => ram'[a] = ram[a] /\ image'[a] = image[a]
    BY <1>3 DEF TxWords
  <2> QED
    BY <1>1, <1>2, <1>4, <2>1, RxStill DEF PathTypeOK
<1>10. TxArmed'
  <2>1. Len(header) <= HeaderRoom /\ Len(bytes) <= DataRoom
    BY PathAssumption
  <2> QED
    BY <1>3, <2>1 DEF TxWords, TxArmed
<1>11. PacketArrives'
  <2>1. Has(TxEN + TxWR, TxEN)
    BY DEF Has, TxEN, TxWR
  <2> QED
    BY <1>3, <2>1 DEF PacketArrives, TxDone, Armed, TxWords
<1>12. RamKept'
  <2>1. ASSUME NEW a \in 0..(RamSize - 1), ram'[a] # image'[a]
        PROVE  \/ a = TxTable + 2 /\ ram'[a] = Without(image'[a], TxEN)
               \/ a \in RxTable..(RxTable + 3)
               \/ a \in RxBuf..(RxBuf + RxMax - 1)
    <3>1. ram'[a] = ram[a] /\ image'[a] = image[a]
      BY <1>1, <2>1, ArmTxSame DEF PathTypeOK
    <3>2. a \in DOMAIN ram
      BY DEF PathTypeOK, Ram
    <3> QED
      BY <2>1, <3>1, <3>2 DEF RamKept
  <2> QED
    BY <1>3, <2>1, KeptAfter DEF TxWords
<1> QED
  BY <1>4, <1>5, <1>6, <1>7, <1>8, <1>9, <1>10, <1>11, <1>12
(* The first message is taken from the device's queue.                     *)
LEMMA TailFacts ==
  ASSUME NEW s \in Seq(Seq(Byte)), s # <<>>
  PROVE  /\ Tail(s) \in Seq(Seq(Byte)) /\ Len(Tail(s)) = Len(s) - 1 /\ Len(s) \in Nat
         /\ Len(s) >= 1 /\ Head(s) = s[1] /\ s[1] \in Seq(Byte)
         /\ \A k \in 1..(Len(s) - 1) : Tail(s)[k] = s[k + 1]
<1>1. Len(s) \in Nat /\ Len(s) # 0
  BY EmptySeq, LenProperties
<1>2. s[1] \in Seq(Byte)
  BY <1>1, ElementOfSeq
<1> QED
  BY <1>1, <1>2, HeadTailProperties

LEMMA AcksAfterTail ==
  ASSUME PathTypeOK, devq # <<>>, devq' = Tail(devq)
  PROVE  /\ Len(devq') = Len(devq) - 1 /\ Len(devq) \in Nat
         /\ \A k \in 1..Len(devq') : IsAck(k)' = IsAck(k + 1) /\ k + 1 \in 1..Len(devq)
<1>1. /\ Len(devq') = Len(devq) - 1 /\ Len(devq) \in Nat
      /\ \A k \in 1..(Len(devq) - 1) : devq'[k] = devq[k + 1]
  BY TailFacts DEF PathTypeOK
<1> QED
  BY <1>1 DEF IsAck

LEMMA HandshakeTail ==
  ASSUME PathTypeOK, Handshake, devq # <<>>, devq' = Tail(devq), UNCHANGED waiting,
         UNCHANGED spwq, UNCHANGED owes, UNCHANGED image, UNCHANGED got,
         pc' \in {"idle", "rxread", "rxwrite", "exited"}
  PROVE  Handshake'
<1>1. /\ Len(devq') = Len(devq) - 1 /\ Len(devq) \in Nat
      /\ \A k \in 1..Len(devq') : IsAck(k)' = IsAck(k + 1) /\ k + 1 \in 1..Len(devq)
  BY AcksAfterTail
<1>2. GuestPacket' = GuestPacket
  BY DEF GuestPacket
<1>3. Received' = Received
  BY <1>2 DEF Received
<1> HIDE DEF Received, IsAck
<1>4. (\A k \in 1..Len(devq) : ~IsAck(k)) => \A k \in 1..Len(devq') : ~IsAck(k)'
  BY <1>1
<1>5. \A k \in 1..Len(devq') : IsAck(k)' =>
        waiting' /\ Received' /\ \A j \in 1..Len(devq') : IsAck(j)' => j = k
  <2> SUFFICES ASSUME NEW k \in 1..Len(devq'), IsAck(k)'
               PROVE  waiting' /\ Received' /\ \A j \in 1..Len(devq') : IsAck(j)' => j = k
    OBVIOUS
  <2>1. IsAck(k + 1) /\ k + 1 \in 1..Len(devq)
    BY <1>1
  <2>2. waiting /\ Received /\ \A j \in 1..Len(devq) : IsAck(j) => j = k + 1
    BY <2>1 DEF Handshake
  <2>3. ASSUME NEW j \in 1..Len(devq'), IsAck(j)'
        PROVE  j = k
    <3>1. j + 1 = k + 1
      BY <1>1, <2>2, <2>3
    <3> QED
      BY <3>1
  <2> QED
    BY <1>3, <2>2, <2>3
<1>6. owes' => waiting' /\ Received' /\ \A k \in 1..Len(devq') : ~IsAck(k)'
  BY <1>3, <1>4 DEF Handshake
<1>7. spwq' # <<>> =>
       /\ Len(spwq') = 1 /\ waiting' /\ ~owes' /\ \A k \in 1..Len(devq') : ~IsAck(k)'
       /\ WellFormed(GuestPacket'.header) => ReceivePacket(spwq'[1]) = GuestPacket'
  BY <1>2, <1>4 DEF Handshake
<1>8. /\ waiting' => pc' \in {"idle", "rxread", "rxwrite", "exited"}
      /\ pc' \in {"txwake", "txwrite"} => Received'
  OBVIOUS
<1> QED
  BY <1>5, <1>6, <1>7, <1>8 DEF Handshake

(* A message is taken while none is in hand, with what was offered in it.  *)
LEMMA MessagesTail ==
  ASSUME PathTypeOK, Messages, devq # <<>>, devq' = Tail(devq), offered' = Tail(offered),
         pc # "rxread", pc' # "rxread"
  PROVE  Messages'
<1>1. Len(offered) = Len(devq) /\ \A k \in 1..Len(devq) : ReceivePacket(devq[k]).data = offered[k + 0]
  BY LenProperties DEF Messages, InHand, PathTypeOK
<1>2. /\ Len(devq') = Len(devq) - 1 /\ Len(devq) \in Nat /\ Len(devq) >= 1
      /\ \A k \in 1..(Len(devq) - 1) : devq'[k] = devq[k + 1]
  BY TailFacts DEF PathTypeOK
<1>3. offered # <<>>
  BY <1>1, <1>2, EmptySeq
<1>4. /\ Len(offered') = Len(offered) - 1
      /\ \A k \in 1..(Len(offered) - 1) : offered'[k] = offered[k + 1]
  BY <1>3, TailFacts DEF PathTypeOK
<1>5. ASSUME NEW k \in 1..Len(devq')
      PROVE  ReceivePacket(devq'[k]).data = offered'[k + 0]
  <2>1. k + 1 \in 1..Len(devq) /\ k \in 1..(Len(offered) - 1) /\ k \in 1..(Len(devq) - 1)
        /\ (k + 1) + 0 = k + 1 /\ k + 0 = k
    BY <1>1, <1>2
  <2>2. ReceivePacket(devq[k + 1]).data = offered[(k + 1) + 0]
    BY <1>1, <2>1
  <2>3. devq'[k] = devq[k + 1] /\ offered'[k] = offered[k + 1]
    BY <1>2, <1>4, <2>1
  <2> QED
    BY <2>1, <2>2, <2>3
<1>6. Len(offered') = Len(devq') + 0
  BY <1>1, <1>2, <1>4
<1>7. InHand' = 0
  BY DEF InHand
<1> QED
  BY <1>5, <1>6, <1>7 DEF Messages

LEMMA TakenType ==
  ASSUME PathTypeOK, Messages, devq # <<>>, devq' = Tail(devq), offered' = Tail(offered),
         pc # "rxread"
  PROVE  devq' \in Seq(Seq(Byte)) /\ offered' \in Seq(Seq(Byte))
<1>1. Len(offered) = Len(devq) /\ Len(devq) # 0 /\ offered # <<>>
  BY EmptySeq, LenProperties DEF Messages, InHand, PathTypeOK
<1> QED
  BY <1>1, TailFacts DEF PathTypeOK

LEMMA RxFatalInv ==
  ASSUME PathInv, RxFatal
  PROVE  PathInv'
<1> USE DEF PathInv
<1>1. UNCHANGED <<ram, waiting, spwq, owes, image, got, given>> /\ UNCHANGED swap
      /\ UNCHANGED <<txbuffer, txd, data>> /\ pc = "idle" /\ byte = 0 /\ pc' = "exited"
      /\ devq # <<>> /\ devq' = Tail(devq) /\ offered' = Tail(offered)
  BY DEF RxFatal, host, Running
<1>2. UNCHANGED <<byte, len, src>>
  BY <1>1 DEF swap
<1>3. Messages'
  BY <1>1, MessagesTail
<1>4. devq' \in Seq(Seq(Byte)) /\ offered' \in Seq(Seq(Byte))
  BY <1>1, TakenType
<1>5. PathTypeOK'
  BY <1>1, <1>4, SwapStill DEF PathTypeOK
<1>6. Calls'
  BY <1>1, <1>2 DEF Calls
<1>7. TxHeld' /\ RxPending'
  BY <1>1 DEF TxHeld, RxPending
<1>8. Handshake'
  BY <1>1, HandshakeTail
<1> QED
  BY <1>1, <1>3, <1>5, <1>6, <1>7, <1>8, RamStill

LEMMA RxAckInv ==
  ASSUME PathInv, RxAck
  PROVE  PathInv'
<1> USE DEF PathInv
<1>1. UNCHANGED <<ram, spwq, owes, image, got, given>> /\ UNCHANGED swap
      /\ UNCHANGED <<txbuffer, txd, data>> /\ pc = "idle" /\ byte = 0
      /\ pc' = (IF waiting THEN "txwake" ELSE "idle") /\ waiting' = FALSE
      /\ devq # <<>> /\ devq' = Tail(devq) /\ offered' = Tail(offered)
      /\ Head(devq)[2] = Ack
  BY DEF RxAck, Receives, host, Running
<1>2. UNCHANGED <<byte, len, src>>
  BY <1>1 DEF swap
<1>3. Messages'
  BY <1>1, MessagesTail
<1>4. devq' \in Seq(Seq(Byte)) /\ offered' \in Seq(Seq(Byte))
  BY <1>1, TakenType
<1>5. PathTypeOK'
  BY <1>1, <1>4, SwapStill DEF PathTypeOK
<1>6. 1 \in 1..Len(devq) /\ IsAck(1)
  BY <1>1, TailFacts DEF PathTypeOK, IsAck
<1>7. waiting /\ Received /\ ~owes /\ spwq = <<>> /\ \A j \in 1..Len(devq) : IsAck(j) => j = 1
  BY <1>6 DEF Handshake
<1>8. Calls'
  BY <1>1, <1>2 DEF Calls
<1>9. TxHeld' /\ RxPending'
  BY <1>1, <1>7 DEF TxHeld, RxPending
<1>10. Handshake'
  <2>1. /\ Len(devq') = Len(devq) - 1 /\ Len(devq) \in Nat
        /\ \A k \in 1..Len(devq') : IsAck(k)' = IsAck(k + 1) /\ k + 1 \in 1..Len(devq)
    BY <1>1, AcksAfterTail
  <2> HIDE DEF IsAck
  <2>2. ASSUME NEW k \in 1..Len(devq')
        PROVE  ~IsAck(k)'
    <3>1. k + 1 # 1
      BY <2>1
    <3> QED
      BY <1>7, <2>1, <3>1
  <2>3. Received'
    BY <1>1, <1>7 DEF Received, GuestPacket
  <2> QED
    BY <1>1, <1>7, <2>2, <2>3 DEF Handshake
<1> QED
  BY <1>1, <1>3, <1>5, <1>8, <1>9, <1>10, RamStill

(* A data or time message the guest sees nothing of.                       *)
LEMMA RxDropInv ==
  ASSUME PathInv, NEW pword \in {Data, Time}, RxTake(pword), Drop
  PROVE  PathInv'
<1> USE DEF PathInv
<1>1. UNCHANGED <<ram, waiting, spwq, owes, image, got, given, pc>> /\ UNCHANGED swap
      /\ UNCHANGED <<txbuffer, txd, data>> /\ pc = "idle"
      /\ devq # <<>> /\ devq' = Tail(devq) /\ offered' = Tail(offered)
  BY DEF RxTake, Drop, Receives, Running
<1>2. UNCHANGED <<byte, len, src>>
  BY <1>1 DEF swap
<1>3. Messages'
  BY <1>1, MessagesTail
<1>4. devq' \in Seq(Seq(Byte)) /\ offered' \in Seq(Seq(Byte))
  BY <1>1, TakenType
<1>5. PathTypeOK'
  BY <1>1, <1>4, SwapStill DEF PathTypeOK
<1>6. Calls'
  BY <1>1, <1>2 DEF Calls
<1>7. TxHeld' /\ RxPending'
  BY <1>1 DEF TxHeld, RxPending
<1>8. Handshake'
  BY <1>1, HandshakeTail
<1> QED
  BY <1>1, <1>3, <1>5, <1>6, <1>7, <1>8, RamStill
(* A data message for this node: the receive descriptor is read.           *)
LEMMA RxReadInv ==
  ASSUME PathInv, RxRead
  PROVE  PathInv'
<1> USE DEF PathInv
<1>1. UNCHANGED <<ram, waiting, spwq, owes, image, got, given, offered>>
      /\ UNCHANGED <<txbuffer, txd>> /\ pc = "idle" /\ pc' = "rxread"
      /\ devq # <<>> /\ devq' = Tail(devq) /\ data' = ReceivePacket(Head(devq)).data
  BY DEF RxRead, RxTake, Receives, Running, RxPacket
<1>2. SwapInv' /\ len' = 8 /\ \A k \in 0..7 : src'[k] = ram[16 + k]
  <2>1. SwapBytes(Peek(ram, 16, 8))
    BY DEF RxRead, RxTable
  <2>2. SwapInv' /\ len' = 8 /\ \A k \in 0..(8 - 1) : src'[k] = ram[16 + k]
    BY <2>1, ReadBytes
  <2> QED
    BY <2>2
<1>3. /\ devq' \in Seq(Seq(Byte)) /\ Len(devq') = Len(devq) - 1 /\ Len(devq) \in Nat
      /\ Len(devq) >= 1 /\ Head(devq) = devq[1]
      /\ \A k \in 1..(Len(devq) - 1) : devq'[k] = devq[k + 1]
  BY <1>1, TailFacts DEF PathTypeOK
<1>4. Messages'
  <2>1. Len(offered) = Len(devq) /\ \A k \in 1..Len(devq) : ReceivePacket(devq[k]).data = offered[k + 0]
    BY <1>1, LenProperties DEF Messages, InHand, PathTypeOK
  <2>2. ASSUME NEW k \in 1..Len(devq')
        PROVE  ReceivePacket(devq'[k]).data = offered'[k + 1]
    <3>1. k + 1 \in 1..Len(devq) /\ k \in 1..(Len(devq) - 1) /\ (k + 1) + 0 = k + 1
      BY <1>3
    <3>2. ReceivePacket(devq[k + 1]).data = offered[(k + 1) + 0]
      BY <2>1, <3>1
    <3> QED
      BY <1>1, <1>3, <3>1, <3>2
  <2>3. data' = offered'[1]
    <3>1. 1 \in 1..Len(devq) /\ 1 + 0 = 1
      BY <1>3
    <3>2. ReceivePacket(devq[1]).data = offered[1 + 0]
      BY <2>1, <3>1
    <3> QED
      BY <1>1, <1>3, <3>1, <3>2
  <2>4. Len(offered') = Len(devq') + 1
    BY <1>1, <1>3, <2>1
  <2>5. InHand' = 1
    BY <1>1 DEF InHand
  <2> QED
    BY <2>2, <2>3, <2>4, <2>5 DEF Messages
<1>5. PathTypeOK'
  BY <1>1, <1>2, <1>3 DEF PathTypeOK
<1>6. Calls'
  BY <1>1, <1>2 DEF Calls, RxTable
<1>7. TxHeld' /\ RxPending'
  BY <1>1 DEF TxHeld, RxPending
<1>8. Handshake'
  BY <1>1, HandshakeTail
<1> QED
  BY <1>1, <1>4, <1>5, <1>6, <1>7, <1>8, RamStill

(* The packet in hand is given up or delivered: it is the first of offered.*)
LEMMA InHandTail ==
  ASSUME PathTypeOK, Messages, pc = "rxread", UNCHANGED devq, offered' = Tail(offered),
         pc' # "rxread"
  PROVE  /\ Messages' /\ offered' \in Seq(Seq(Byte))
         /\ data \in Seq(Byte) /\ data = Head(offered)
<1>1. Len(offered) = Len(devq) + 1 /\ data = offered[1] /\ Len(devq) \in Nat
      /\ \A k \in 1..Len(devq) : ReceivePacket(devq[k]).data = offered[k + 1]
  BY LenProperties DEF Messages, InHand, PathTypeOK
<1>2. offered # <<>>
  BY <1>1, EmptySeq
<1>3. /\ offered' \in Seq(Seq(Byte)) /\ Len(offered') = Len(offered) - 1
      /\ Head(offered) = offered[1] /\ offered[1] \in Seq(Byte)
      /\ \A k \in 1..(Len(offered) - 1) : offered'[k] = offered[k + 1]
  BY <1>2, TailFacts DEF PathTypeOK
<1>4. ASSUME NEW k \in 1..Len(devq')
      PROVE  ReceivePacket(devq'[k]).data = offered'[k + 0]
  <2>1. k \in 1..Len(devq) /\ k \in 1..(Len(offered) - 1) /\ k + 0 = k
    BY <1>1
  <2> QED
    BY <1>1, <1>3, <2>1
<1>5. Len(offered') = Len(devq') + 0
  BY <1>1, <1>3
<1>6. InHand' = 0
  BY DEF InHand
<1> QED
  BY <1>1, <1>3, <1>4, <1>5, <1>6 DEF Messages

LEMMA RxNothingInv ==
  ASSUME PathInv, RxNothing
  PROVE  PathInv'
<1> USE DEF PathInv
<1>1. UNCHANGED <<ram, waiting, spwq, devq, owes, image, got, given>>
      /\ UNCHANGED <<txbuffer, txd>> /\ pc = "rxread" /\ byte = 0 /\ pc' = "idle" /\ Freed
      /\ offered' = Tail(offered)
  BY DEF RxNothing, queues, Running
<1>2. Messages' /\ offered' \in Seq(Seq(Byte))
  BY <1>1, InHandTail
<1>3. PathTypeOK'
  BY <1>1, <1>2, FreedInv DEF PathTypeOK
<1>4. Calls'
  BY <1>1 DEF Calls, Freed
<1>5. TxHeld' /\ RxPending'
  BY <1>1 DEF TxHeld, RxPending
<1>6. Handshake'
  BY <1>1, HandshakeStill
<1> QED
  BY <1>1, <1>2, <1>3, <1>4, <1>5, <1>6, RamStill

(* The control word of a delivered packet.                                 *)
LEMMA RxControlBytes ==
  ASSUME PathTypeOK, NEW att, data \in Seq(Byte), HostWord(0)[4] = RxEN + RxWR + RxIE
  PROVE  /\ RxLength \in Nat /\ RxLength <= RxMax /\ RxLength <= Len(data)
         /\ RxControl(att) \in Seq(Byte) /\ Len(RxControl(att)) = 4
         /\ RxControl(att)[1] = RxLength % 256
         /\ RxControl(att)[2] = (RxLength \div 256) % 256
         /\ RxControl(att)[3] = RxLength \div 65536
         /\ RxControl(att)[4] % 16 = RxWR + RxIE
         /\ Len(data) > RxMax => Has(RxControl(att)[4], RxTR)
<1> DEFINE n == RxLength
           b == Without(RxFlags(RxEN + RxWR + RxIE, att), RxEN)
<1>1. n \in Nat /\ n <= RxMax /\ n <= Len(data)
  BY Layout, LenProperties DEF RxLength, Truncated
<1>2. b \in Byte /\ b % 16 = RxWR + RxIE /\ (Truncated => Has(b, RxTR))
  BY FlagsGivenBack
<1>3. RxControl(att) = [LittleBytes(n) EXCEPT ![4] = b]
  BY DEF RxControl
<1> HIDE DEF n, b
<1>4. n <= C_SPWTDW2_DATA_LENGTH
  <2>1. C_SPWTDW2_DATA_LENGTH \in Int
    BY SMT DEF C_SPWTDW2_DATA_LENGTH
  <2>2. RxBuf \in Nat /\ RxMax \in Nat /\ RamSize \in Nat
    BY Layout
  <2> QED
    BY <1>1, <2>1, <2>2, Layout
<1>5. n % 256 \in Byte /\ (n \div 256) % 256 \in Byte
  BY <1>1, SMT DEF Byte
<1>6. n \div 65536 \in Byte /\ (n \div 65536) % 256 = n \div 65536
  <2> DEFINE q == n \div 65536
  <2>1. q \in Nat /\ q <= 255 /\ q % 256 = q
    BY <1>1, <1>4, SMT DEF C_SPWTDW2_DATA_LENGTH
  <2> HIDE DEF q
  <2>2. q \in Byte
    BY <2>1, SmallIsByte
  <2> QED
    BY <2>1, <2>2 DEF q
<1>7. RxControl(att) = <<n % 256, (n \div 256) % 256, n \div 65536, b>>
  BY <1>3, <1>6 DEF LittleBytes
<1> HIDE DEF RxControl
<1>8. RxControl(att) \in Seq(Byte) /\ Len(RxControl(att)) = 4
  BY <1>2, <1>5, <1>6, <1>7
<1>9. RxControl(att)[1] = n % 256 /\ RxControl(att)[2] = (n \div 256) % 256
      /\ RxControl(att)[3] = n \div 65536 /\ RxControl(att)[4] = b
  BY <1>7
<1> QED
  BY <1>1, <1>2, <1>8, <1>9 DEF n, Truncated

(* The packet as it lands in the receive buffer.                           *)
LEMMA Delivered ==
  ASSUME PathTypeOK, data \in Seq(Byte), NEW n \in Nat, n <= RxMax, n <= Len(data),
         ram' = Poke(ram, RxBuf, Peek(data, 1, n))
  PROVE  /\ ram' \in Ram
         /\ Peek(ram', RxBuf, n) = Peek(data, 1, n)
         /\ \A a \in 0..(RamSize - 1) :
              a \notin RxBuf..(RxBuf + RxMax - 1) => ram'[a] = ram[a]
<1> DEFINE bytes == Peek(data, 1, n)
<1>1. bytes \in Seq(Byte) /\ Len(bytes) = n
  <2>1. ASSUME NEW k \in 1..n
        PROVE  data[1 + k - 1] \in Byte
    <3>1. 1 + k - 1 \in 1..Len(data)
      BY LenProperties
    <3> QED
      BY <3>1, ElementOfSeq
  <2>2. bytes \in [1..n -> Byte]
    BY <2>1 DEF Peek
  <2> QED
    BY <2>2, LenProperties
<1>2. bytes = [k \in 1..n |-> bytes[k]]
  BY DEF Peek
<1>3. ram' = Poke(ram, RxBuf, bytes)
  OBVIOUS
<1> HIDE DEF bytes
<1>4. RamSize \in Nat /\ RxBuf \in Nat /\ RxMax \in Nat /\ RxBuf + RxMax <= RamSize
      /\ ram \in [0..(RamSize - 1) -> Byte] /\ DOMAIN ram = 0..(RamSize - 1)
  <2>1. ram \in [0..(RamSize - 1) -> Byte]
    BY DEF PathTypeOK, Ram
  <2> QED
    BY <2>1, Layout
<1>5. ram' \in Ram
  BY <1>1, <1>3, <1>4, PokeType DEF Ram
<1>6. ASSUME NEW k \in 1..n
      PROVE  ram'[RxBuf + k - 1] = bytes[k]
  <2> DEFINE a == RxBuf + k - 1
  <2>1. a \in DOMAIN ram /\ a \in Int /\ RxBuf <= a /\ a < RxBuf + Len(bytes)
        /\ Len(bytes) \in Nat /\ RxBuf \in Int /\ a - RxBuf + 1 = k
    BY <1>1, <1>4
  <2> HIDE DEF a
  <2>2. Poke(ram, RxBuf, bytes)[a] = bytes[a - RxBuf + 1]
    BY <2>1, PokeIn
  <2> QED
    BY <1>3, <2>1, <2>2 DEF a
<1>7. Peek(ram', RxBuf, n) = bytes
  BY <1>2, <1>6 DEF Peek
<1>8. ASSUME NEW a \in 0..(RamSize - 1), a \notin RxBuf..(RxBuf + RxMax - 1)
      PROVE  ram'[a] = ram[a]
  <2>1. a \in DOMAIN ram /\ a \in Int /\ (a < RxBuf \/ a >= RxBuf + Len(bytes))
        /\ Len(bytes) \in Nat /\ RxBuf \in Int
    BY <1>1, <1>4, <1>8
  <2> QED
    BY <1>3, <2>1, PokeOut
<1> QED
  BY <1>5, <1>7, <1>8 DEF bytes
(* The packet is delivered, and its control word given to the swap.        *)
LEMMA RxDeliverInv ==
  ASSUME PathInv, NEW att \in RecvAtt, RxDeliver(att)
  PROVE  PathInv'
<1> USE DEF PathInv
<1>1. UNCHANGED <<waiting, spwq, devq, owes, image, got>> /\ UNCHANGED <<txbuffer, txd>>
      /\ pc = "rxread" /\ byte = 0 /\ pc' = "rxwrite" /\ Has(HostWord(0)[4], RxEN)
      /\ ram' = Poke(ram, HostNumber(HostWord(1)), Peek(data, 1, RxLength))
      /\ SwapBytes(RxControl(att))
      /\ given' = Head(offered) /\ offered' = Tail(offered)
  BY DEF RxDeliver, queues, Running
<1>2. SwapInv /\ len = 8 /\ \A k \in 0..7 : src[k] = ram[RxTable + k]
  BY <1>1 DEF Calls, PathTypeOK
<1>3. ram[RxTable] = RxEN + RxWR + RxIE /\ Has(ram[RxTable], RxEN)
      /\ HostWord(0)[4] = RxEN + RxWR + RxIE
      /\ Number(Peek(image, RxTable + 4, 4)) = RxBuf
  <2>1. len % 4 = 0 /\ 4 * 0 + 4 <= len /\ 0 \in Nat /\ 4 * 0 + 4 - 4 = 0
    BY <1>2
  <2>2. HostWord(0)[4] = src[4 * 0 + 4 - 4]
    BY <1>1, <1>2, <2>1, HostWordByte
  <2>3. src[0] = ram[RxTable]
    BY <1>2, Layout
  <2> QED
    BY <1>1, <2>1, <2>2, <2>3 DEF RxArmed
<1>4. HostNumber(HostWord(1)) = RxBuf
  <2>1. len % 4 = 0 /\ 4 * 1 + 4 <= len /\ 1 \in Nat /\ 20 \in Int
    BY <1>2
  <2>2. ASSUME NEW k \in 0..3
        PROVE  src[4 * 1 + k] = ram[20 + k]
    <3>1. 4 * 1 + k \in 0..7 /\ RxTable + (4 * 1 + k) = 20 + k
      BY Layout
    <3> QED
      BY <1>2, <3>1
  <2>3. HostNumber(HostWord(1)) = Number(Peek(ram, 20, 4))
    BY <1>1, <1>2, <2>1, <2>2, HostReadsNumber
  <2>4. ASSUME NEW k \in 1..4
        PROVE  ram[20 + k - 1] = image[20 + k - 1]
    <3>1. RamSize \in Nat /\ 24 <= RamSize /\ RxBuf \in Int /\ RxBuf >= 24
      BY Layout
    <3> DEFINE a == 20 + k - 1
    <3>2. a \in 0..(RamSize - 1) /\ a # 2 /\ a \notin 16..19 /\ a < RxBuf
      BY <3>1
    <3> HIDE DEF a
    <3>3. ram[a] = image[a]
      BY <3>2, KeptOutside
    <3> QED
      BY <3>3 DEF a
  <2>5. Peek(ram, 20, 4) = Peek(image, 20, 4)
    BY <2>4 DEF Peek
  <2>6. RxTable + 4 = 20
    BY Layout
  <2> QED
    BY <1>3, <2>3, <2>5, <2>6
<1>5. Messages' /\ offered' \in Seq(Seq(Byte)) /\ data \in Seq(Byte) /\ given' = data
  BY <1>1, InHandTail
<1> DEFINE word == RxControl(att)
<1>6. /\ RxLength \in Nat /\ RxLength <= RxMax /\ RxLength <= Len(data)
      /\ word \in Seq(Byte) /\ Len(word) = 4
      /\ word[1] = RxLength % 256 /\ word[2] = (RxLength \div 256) % 256
      /\ word[3] = RxLength \div 65536 /\ word[4] % 16 = RxWR + RxIE
      /\ Len(data) > RxMax => Has(word[4], RxTR)
  BY <1>3, <1>5, RxControlBytes
<1>7. SwapBytes(word)
  BY <1>1
<1> HIDE DEF word
<1>8. SwapInv' /\ len' = 4 /\ src'[0] = word[1] /\ src'[1] = word[2]
      /\ src'[2] = word[3] /\ src'[3] = word[4]
  <2>1. SwapInv' /\ len' = Len(word) /\ \A k \in 0..(Len(word) - 1) : src'[k] = word[k + 1]
    <3>1. SwapInv /\ word \in Seq(Byte) /\ Len(word) <= 16 /\ SwapBytes(word)
      BY <1>2, <1>6, <1>7
    <3> QED
      BY <3>1, SwapBytesInv
  <2>2. src'[0] = word[0 + 1] /\ src'[1] = word[1 + 1] /\ src'[2] = word[2 + 1]
        /\ src'[3] = word[3 + 1]
    BY <1>6, <2>1
  <2> QED
    BY <1>6, <2>1, <2>2
<1>9. ram' \in Ram /\ Peek(ram', RxBuf, RxLength) = Peek(data, 1, RxLength)
      /\ \A a \in 0..(RamSize - 1) : a \notin RxBuf..(RxBuf + RxMax - 1) => ram'[a] = ram[a]
  <2> DEFINE n == RxLength
  <2>1. n \in Nat /\ n <= RxMax /\ n <= Len(data) /\ ram' = Poke(ram, RxBuf, Peek(data, 1, n))
    BY <1>1, <1>4, <1>6
  <2> HIDE DEF n
  <2>2. ram' \in Ram /\ Peek(ram', RxBuf, n) = Peek(data, 1, n)
        /\ \A a \in 0..(RamSize - 1) : a \notin RxBuf..(RxBuf + RxMax - 1) => ram'[a] = ram[a]
    BY <1>5, <2>1, Delivered
  <2> QED
    BY <2>2 DEF n
<1>10. ASSUME NEW a \in 0..23
       PROVE  ram'[a] = ram[a]
  <2>1. a \in 0..(RamSize - 1) /\ a \notin RxBuf..(RxBuf + RxMax - 1)
    BY Layout
  <2> QED
    BY <1>9, <2>1
<1>11. ram'[RxTable] = ram[RxTable] /\ ram'[TxTable + 2] = ram[TxTable + 2]
  BY <1>10, Layout
<1>12. Size' = RxLength
  BY <1>5 DEF Size, RxLength, Truncated
<1>13. PathTypeOK'
  BY <1>1, <1>5, <1>8, <1>9 DEF PathTypeOK
<1>14. Calls'
  BY <1>1, <1>8 DEF Calls
<1>15. TxHeld'
  BY <1>1, <1>10, TxHeldStill
<1>16. Handshake'
  BY <1>1, HandshakeStill
<1>17. RxPending'
  BY <1>3, <1>5, <1>6, <1>8, <1>9, <1>11, <1>12 DEF RxPending
<1>18. TxArmed' /\ RxArmed'
  BY <1>1, <1>3, <1>11 DEF TxArmed, RxArmed
<1>19. GuestGetsPacket' /\ PacketArrives'
  BY <1>1, <1>3, <1>11 DEF GuestGetsPacket, RxDone, PacketArrives, TxDone, Armed, GuestPacket
<1>20. RamKept'
  <2>1. ASSUME NEW a \in 0..(RamSize - 1), ram'[a] # image'[a]
        PROVE  \/ a = TxTable + 2 /\ ram'[a] = Without(image'[a], TxEN)
               \/ a \in RxTable..(RxTable + 3)
               \/ a \in RxBuf..(RxBuf + RxMax - 1)
    <3> SUFFICES ASSUME a \notin RxBuf..(RxBuf + RxMax - 1)
                 PROVE  \/ a = TxTable + 2 /\ ram'[a] = Without(image'[a], TxEN)
                        \/ a \in RxTable..(RxTable + 3)
      OBVIOUS
    <3>1. ram'[a] = ram[a] /\ a \in DOMAIN ram
      BY <1>9 DEF PathTypeOK, Ram
    <3> QED
      BY <1>1, <2>1, <3>1 DEF RamKept
  <2> QED
    BY <1>9, <2>1, KeptAfter
<1> QED
  BY <1>5, <1>13, <1>14, <1>15, <1>16, <1>17, <1>18, <1>19, <1>20

(* WR and IE, and no EN.                                                   *)
LEMMA GivenBack ==
  ASSUME NEW b \in Byte, b % 16 = RxWR + RxIE
  PROVE  ~Has(b, RxEN)
<1>1. b \in Nat /\ b % 16 = 12
  BY DEF RxWR, RxIE, Byte
<1>2. (b \div 2) % 2 = 0
  <2>1. b = 16 * (b \div 16) + 12 /\ b \div 16 \in Nat
    BY <1>1
  <2>2. b \div 2 = 2 * (4 * (b \div 16) + 3)
    BY <2>1
  <2> QED
    BY <2>1, <2>2
<1> QED
  BY <1>2 DEF Has, RxEN

(* The receive descriptor is given back.                                   *)
LEMMA RxWriteBackInv ==
  ASSUME PathInv, RxWriteBack
  PROVE  PathInv'
<1> USE DEF PathInv
<1>1. UNCHANGED <<waiting, spwq, devq, owes, image, got, offered, given>>
      /\ UNCHANGED <<txbuffer, txd, data>> /\ pc = "rxwrite" /\ byte = 0 /\ pc' = "idle" /\ Freed
      /\ ram' = Poke(ram, 16, Swapped)
  BY DEF RxWriteBack, host, queues, history, Running, RxTable
<1>2. len = 4
  BY <1>1 DEF Calls
<1>3. ram' \in Ram /\ (\A k \in 0..3 : ram'[16 + k] = src[3 - k])
      /\ \A a \in 0..(RamSize - 1) : a < 16 \/ a >= 16 + 4 => ram'[a] = ram[a]
  BY <1>1, <1>2, WriteBack
<1>4. ram'[16] = src[3] /\ ram'[17] = src[2] /\ ram'[18] = src[1] /\ ram'[19] = src[0]
  <2>1. ram'[16 + 0] = src[3 - 0] /\ ram'[16 + 1] = src[3 - 1] /\ ram'[16 + 2] = src[3 - 2]
        /\ ram'[16 + 3] = src[3 - 3]
    BY <1>3
  <2> QED
    BY <2>1
<1>5. /\ Peek(ram, RxBuf, Size) = Peek(given, 1, Size)
      /\ src[0] = Size % 256 /\ src[1] = (Size \div 256) % 256 /\ src[2] = Size \div 65536
      /\ src[3] % 16 = RxWR + RxIE /\ (Len(given) > RxMax => Has(src[3], RxTR))
  BY <1>1 DEF RxPending
<1>6. PathTypeOK'
  BY <1>1, <1>3, FreedInv DEF PathTypeOK
<1>7. Calls'
  BY <1>1 DEF Calls, Freed
<1>8. ASSUME NEW a \in 0..3
      PROVE  ram'[a] = ram[a]
  <2>1. a \in 0..(RamSize - 1) /\ a < 16
    BY Layout
  <2> QED
    BY <1>3, <2>1
<1>9. TxHeld' /\ RxPending'
  BY <1>1, <1>8, TxHeldStill DEF RxPending
<1>10. Handshake'
  BY <1>1, HandshakeStill
<1>11. Messages'
  BY <1>1, MessagesStill
<1>12. TxArmed' /\ PacketArrives'
  <2>1. ram'[TxTable + 2] = ram[TxTable + 2]
    BY <1>8, Layout
  <2> QED
    BY <1>1, <2>1 DEF TxArmed, PacketArrives, TxDone, Armed, GuestPacket
<1>13. RxArmed'
  <2>1. src[3] \in Byte
    <3>1. 3 \in Cells
      BY Layout DEF Cells
    <3> QED
      BY <3>1 DEF PathTypeOK, SwapInv, SwapTypeOK, Memory
  <2>2. ~Has(src[3], RxEN)
    BY <1>5, <2>1, GivenBack
  <2>3. RxTable = 16
    BY Layout
  <2> QED
    BY <1>4, <2>2, <2>3 DEF RxArmed
<1>14. GuestGetsPacket'
  <2>1. Size \in Nat /\ Size <= RxMax /\ Size' = Size
    BY <1>1, Layout, LenProperties DEF PathTypeOK, Size
  <2>2. Peek(ram', RxBuf, Size) = Peek(given, 1, Size)
    <3>1. ASSUME NEW k \in 1..Size
          PROVE  ram'[RxBuf + k - 1] = ram[RxBuf + k - 1]
      <4>1. RxBuf + k - 1 \in 0..(RamSize - 1) /\ RxBuf + k - 1 >= 20
        BY <2>1, Layout
      <4> QED
        BY <1>3, <4>1
    <3>2. Peek(ram', RxBuf, Size) = Peek(ram, RxBuf, Size)
      BY <3>1 DEF Peek
    <3> QED
      BY <1>5, <3>2
  <2>3. Peek(ram', RxTable, 4) = Word(ram'[RxTable], Size)
    <3>1. RxTable = 16
      BY Layout
    <3>2. Peek(ram', 16, 4) = <<ram'[16], ram'[17], ram'[18], ram'[19]>>
      BY DEF Peek
    <3> QED
      BY <1>4, <1>5, <3>1, <3>2 DEF Word
  <2>4. ram'[RxTable] = src[3]
    BY <1>4, Layout
  <2> QED
    BY <1>1, <1>5, <2>2, <2>3, <2>4 DEF GuestGetsPacket, Size
<1>15. RamKept'
  <2>1. ASSUME NEW a \in 0..(RamSize - 1), ram'[a] # image'[a]
        PROVE  \/ a = TxTable + 2 /\ ram'[a] = Without(image'[a], TxEN)
               \/ a \in RxTable..(RxTable + 3)
               \/ a \in RxBuf..(RxBuf + RxMax - 1)
    <3>1. CASE a \in 16..19
      BY <3>1, Layout
    <3>2. CASE a \notin 16..19
      <4>1. ram'[a] = ram[a] /\ a \in DOMAIN ram
        BY <1>3, <3>2 DEF PathTypeOK, Ram
      <4> QED
        BY <1>1, <2>1, <4>1 DEF RamKept
    <3> QED
      BY <3>1, <3>2
  <2> QED
    BY <1>3, <2>1, KeptAfter
<1> QED
  BY <1>6, <1>7, <1>9, <1>10, <1>11, <1>12, <1>13, <1>14, <1>15
(* The device takes the packet: this is when it has what the guest sent.   *)
LEMMA PeerReceiveInv ==
  ASSUME PathInv, PeerReceive
  PROVE  PathInv'
<1> USE DEF PathInv
<1>1. UNCHANGED <<ram, pc, waiting, devq, image, offered, given>> /\ UNCHANGED swap
      /\ UNCHANGED <<txbuffer, txd, data>> /\ spwq # <<>> /\ spwq' = Tail(spwq) /\ owes' = TRUE
      /\ got' = ReceivePacket(Head(spwq))
  BY DEF PeerReceive, host
<1>2. UNCHANGED <<byte, len, src>>
  BY <1>1 DEF swap
<1>3. Len(spwq) = 1 /\ waiting /\ (\A k \in 1..Len(devq) : ~IsAck(k))
      /\ (WellFormed(GuestPacket.header) => ReceivePacket(spwq[1]) = GuestPacket)
  BY <1>1 DEF Handshake
<1>4. spwq' \in Seq(Seq(Byte)) /\ spwq' = <<>> /\ Head(spwq) = spwq[1]
  <2>1. /\ Tail(spwq) \in Seq(Seq(Byte)) /\ Len(Tail(spwq)) = Len(spwq) - 1
        /\ Head(spwq) = spwq[1]
    BY <1>1, TailFacts DEF PathTypeOK
  <2> QED
    BY <1>1, <1>3, <2>1, EmptySeq
<1>5. PathTypeOK'
  BY <1>1, <1>4, SwapStill DEF PathTypeOK
<1>6. Calls'
  BY <1>1, <1>2 DEF Calls, TxControl
<1>7. TxHeld' /\ Messages'
  BY <1>1 DEF TxHeld, Messages, InHand
<1>8. RxPending'
  BY <1>1, <1>2 DEF RxPending, Size
<1>9. Received'
  BY <1>1, <1>3, <1>4 DEF Received, GuestPacket
<1>10. Handshake'
  <2>1. \A k : IsAck(k)' = IsAck(k)
    BY <1>1 DEF IsAck
  <2> HIDE DEF IsAck, Received
  <2>2. Len(devq') = Len(devq) /\ waiting' /\ pc' \in {"idle", "rxread", "rxwrite", "exited"}
    BY <1>1, <1>3 DEF Handshake
  <2> QED
    BY <1>3, <1>4, <1>9, <2>1, <2>2 DEF Handshake
<1>11. PacketArrives'
  <2>1. Has(ram'[TxTable + 2], TxEN)
    BY <1>1, <1>3 DEF TxHeld
  <2> QED
    BY <2>1 DEF PacketArrives, TxDone, Armed
<1> QED
  BY <1>1, <1>5, <1>6, <1>7, <1>8, <1>10, <1>11, RamStill

(* The device puts a message in its queue.                                 *)
LEMMA AppendFacts ==
  ASSUME NEW s \in Seq(Seq(Byte)), NEW m \in Seq(Byte)
  PROVE  /\ Append(s, m) \in Seq(Seq(Byte)) /\ Len(Append(s, m)) = Len(s) + 1
         /\ Append(s, m)[Len(s) + 1] = m /\ Len(s) \in Nat
         /\ \A k \in 1..Len(s) : Append(s, m)[k] = s[k]
  BY AppendProperties, LenProperties

LEMMA MessagesAppend ==
  ASSUME PathTypeOK, Messages, NEW m \in Seq(Byte), NEW d \in Seq(Byte),
         ReceivePacket(m).data = d, devq' = Append(devq, m), offered' = Append(offered, d),
         UNCHANGED pc, UNCHANGED data
  PROVE  Messages' /\ devq' \in Seq(Seq(Byte)) /\ offered' \in Seq(Seq(Byte))
<1>1. Len(offered) = Len(devq) + InHand /\ InHand \in {0, 1}
      /\ (\A k \in 1..Len(devq) : ReceivePacket(devq[k]).data = offered[k + InHand])
      /\ (pc = "rxread" => data = offered[1] /\ InHand = 1)
  BY DEF Messages, InHand
<1>2. InHand' = InHand
  BY DEF InHand
<1> HIDE DEF InHand
<1>3. /\ devq' \in Seq(Seq(Byte)) /\ Len(devq') = Len(devq) + 1 /\ Len(devq) \in Nat
      /\ devq'[Len(devq) + 1] = m /\ \A k \in 1..Len(devq) : devq'[k] = devq[k]
  BY AppendFacts DEF PathTypeOK
<1>4. /\ offered' \in Seq(Seq(Byte)) /\ Len(offered') = Len(offered) + 1 /\ Len(offered) \in Nat
      /\ offered'[Len(offered) + 1] = d /\ \A k \in 1..Len(offered) : offered'[k] = offered[k]
  BY AppendFacts DEF PathTypeOK
<1>5. ASSUME NEW k \in 1..Len(devq')
      PROVE  ReceivePacket(devq'[k]).data = offered'[k + InHand]
  <2>1. CASE k \in 1..Len(devq)
    <3>1. k + InHand \in 1..Len(offered)
      BY <1>1, <1>3, <2>1
    <3>2. devq'[k] = devq[k] /\ offered'[k + InHand] = offered[k + InHand]
      BY <1>3, <1>4, <2>1, <3>1
    <3> QED
      BY <1>1, <2>1, <3>2
  <2>2. CASE k = Len(devq) + 1
    <3>1. k + InHand = Len(offered) + 1
      BY <1>1, <1>3, <2>2
    <3> QED
      BY <1>3, <1>4, <2>2, <3>1
  <2>3. k \in 1..(Len(devq) + 1)
    BY <1>3
  <2>4. k \in 1..Len(devq) \/ k = Len(devq) + 1
    BY <1>3, <2>3
  <2> QED
    BY <2>1, <2>2, <2>4
<1>6. Len(offered') = Len(devq') + InHand
  BY <1>1, <1>3, <1>4
<1>7. pc' = "rxread" => data' = offered'[1]
  <2> SUFFICES ASSUME pc = "rxread" PROVE data = offered'[1]
    OBVIOUS
  <2>1. data = offered[1] /\ 1 \in 1..Len(offered)
    BY <1>1, <1>3
  <2> QED
    BY <1>4, <2>1
<1> QED
  BY <1>2, <1>3, <1>4, <1>5, <1>6, <1>7 DEF Messages

(* What every step of the device that sends leaves alone.                  *)
LEMMA PeerStill ==
  ASSUME PathInv, UNCHANGED <<ram, host, pc, waiting, spwq, image, got, given>>, UNCHANGED swap,
         owes' \in BOOLEAN, devq' \in Seq(Seq(Byte)), offered' \in Seq(Seq(Byte)),
         Messages', Handshake'
  PROVE  PathInv'
<1> USE DEF PathInv
<1>1. UNCHANGED <<byte, len, src>> /\ UNCHANGED <<txbuffer, txd, data>>
  BY DEF swap, host
<1>2. PathTypeOK'
  BY <1>1, SwapStill DEF PathTypeOK
<1>3. Calls'
  BY <1>1 DEF Calls, TxControl
<1>4. TxHeld' /\ RxPending'
  BY <1>1 DEF TxHeld, RxPending, Size
<1> QED
  BY <1>2, <1>3, <1>4, RamStill

(* The peer's packets and time codes can be put in messages.               *)
LEMMA PeerPacketType ==
  ASSUME NEW p \in PeerPackets
  PROVE  /\ p \in [header : Seq(Byte), data : Seq(Byte)] /\ WellFormed(p.header)
         /\ Len(p.header) \in Byte /\ Len(p.data) <= C_SPWTDW2_DATA_LENGTH /\ p.data \in Seq(Byte)
<1>1. /\ p \in [header : Seq(Byte), data : Seq(Byte)] /\ WellFormed(p.header)
      /\ PacketSize(p.header, p.data) <= C_MAXQ_SIZE
      /\ C_MAXQ_SIZE \in Nat /\ C_MAXQ_SIZE <= C_SPWTDW2_DATA_LENGTH
  BY PathAssumption
<1>2. p.header \in Seq(Byte) /\ p.data \in Seq(Byte)
  BY <1>1
<1>3. Len(p.header) \in Nat /\ Len(p.data) \in Nat
  BY <1>2, LenProperties
<1>4. Len(p.header) \in Byte
  <2>1. CASE p.header = <<>>
    BY <2>1 DEF Byte
  <2>2. CASE p.header # <<>>
    <3>1. 1 \in 1..Len(p.header) /\ p.header[1] = Len(p.header)
      BY <1>1, <1>2, <1>3, <2>2, EmptySeq DEF WellFormed
    <3> QED
      BY <1>2, <3>1, ElementOfSeq
  <2> QED
    BY <2>1, <2>2
<1>5. Len(p.data) <= C_SPWTDW2_DATA_LENGTH
  <2>1. C_SPWTDW2_DATA_LENGTH \in Int
    BY SMT DEF C_SPWTDW2_DATA_LENGTH
  <2>2. Len(p.data) <= C_MAXQ_SIZE
    BY <1>1, <1>3 DEF PacketSize
  <2> QED
    BY <1>1, <1>3, <2>1, <2>2
<1> QED
  BY <1>1, <1>2, <1>4, <1>5

LEMMA TimePacketType ==
  ASSUME NEW code \in PeerTimes
  PROVE  LET p == TimePacket(code)
         IN  /\ p \in [header : Seq(Byte), data : Seq(Byte)] /\ WellFormed(p.header)
             /\ Len(p.header) \in Byte /\ Len(p.data) <= C_SPWTDW2_DATA_LENGTH /\ p.data \in Seq(Byte)
<1>1. 1 <= C_SPWTDW2_DATA_LENGTH
  BY SMT DEF C_SPWTDW2_DATA_LENGTH
<1>2. code \in Byte /\ 0 \in Byte
  BY PathAssumption DEF Byte
<1>3. <<code>> \in Seq(Byte) /\ Len(<<code>>) = 1
  BY <1>2
<1> QED
  BY <1>1, <1>2, <1>3 DEF TimePacket, WellFormed

LEMMA PeerAckInv ==
  ASSUME PathInv, PeerAck
  PROVE  PathInv'
<1> USE DEF PathInv
<1> DEFINE m == Message(Id, Ack, NoPacket)
<1>1. UNCHANGED <<ram, host, pc, waiting, spwq, image, got, given>> /\ UNCHANGED swap
      /\ owes /\ owes' = FALSE /\ devq' = Append(devq, m) /\ offered' = Append(offered, <<>>)
  BY DEF PeerAck
<1>2. m \in Seq(Byte) /\ m[2] = Ack /\ ReceivePacket(m).data = <<>>
  <2> DEFINE p == NoPacket
  <2>1. 0 <= C_SPWTDW2_DATA_LENGTH
    BY SMT DEF C_SPWTDW2_DATA_LENGTH
  <2>2. Id \in Byte /\ Ack \in Byte /\ 0 \in Byte
    BY DEF Id, Ack, Byte
  <2>3. p \in [header : Seq(Byte), data : Seq(Byte)]
        /\ WellFormed(p.header) /\ p.data = <<>> /\ p.header = <<>>
    BY DEF NoPacket, WellFormed
  <2> HIDE DEF p
  <2>4. Len(p.header) \in Byte /\ Len(p.data) <= C_SPWTDW2_DATA_LENGTH
    BY <2>1, <2>2, <2>3
  <2>5. LET message == Message(Id, Ack, p)
        IN  message[2] = Ack /\ message \in Seq(Byte) /\ ReceivePacket(message).data = p.data
    BY <2>2, <2>3, <2>4, DeviceMessageDecoded
  <2> QED
    BY <2>3, <2>5 DEF p
<1> HIDE DEF m
<1>3. <<>> \in Seq(Byte) /\ UNCHANGED data
  BY <1>1 DEF host
<1>4. Messages' /\ devq' \in Seq(Seq(Byte)) /\ offered' \in Seq(Seq(Byte))
  BY <1>1, <1>2, <1>3, MessagesAppend
<1>5. waiting /\ Received /\ spwq = <<>> /\ \A k \in 1..Len(devq) : ~IsAck(k)
  BY <1>1 DEF Handshake
<1>6. Handshake'
  <2>1. /\ Len(devq') = Len(devq) + 1 /\ Len(devq) \in Nat
        /\ \A k \in 1..Len(devq) : devq'[k] = devq[k]
    BY <1>1, <1>2, AppendFacts DEF PathTypeOK
  <2>2. \A k \in 1..Len(devq) : ~IsAck(k)'
    BY <1>5, <2>1 DEF IsAck
  <2>3. Received'
    BY <1>1, <1>5 DEF Received, GuestPacket
  <2> HIDE DEF IsAck, Received
  <2>4. \A k \in 1..Len(devq') : IsAck(k)' => k = Len(devq) + 1
    BY <2>1, <2>2
  <2>5. waiting' /\ spwq' = <<>> /\ ~owes' /\ pc' \in {"idle", "rxread", "rxwrite", "exited"}
    BY <1>1, <1>5 DEF Handshake
  <2> QED
    BY <2>3, <2>4, <2>5 DEF Handshake
<1> QED
  BY <1>1, <1>4, <1>6, PeerStill

LEMMA PeerSendInv ==
  ASSUME PathInv, NEW id \in {Id, e_grspw_corenb}, NEW pword \in {Data, Time},
         NEW p \in PeerPackets \cup {TimePacket(code) : code \in PeerTimes}, PeerSend(id, pword, p)
  PROVE  PathInv'
<1> USE DEF PathInv
<1> DEFINE m == Message(id, pword, p)
           d == p.data
<1>1. UNCHANGED <<ram, host, pc, waiting, spwq, owes, image, got, given>> /\ UNCHANGED swap
      /\ devq' = Append(devq, m) /\ offered' = Append(offered, d)
  BY DEF PeerSend
<1>2. m \in Seq(Byte) /\ m[2] = pword /\ ReceivePacket(m).data = d /\ d \in Seq(Byte)
  <2>1. id \in Byte /\ pword \in Byte
    BY DEF Id, e_grspw_corenb, Data, Time, Byte
  <2>2. /\ p \in [header : Seq(Byte), data : Seq(Byte)] /\ WellFormed(p.header)
        /\ Len(p.header) \in Byte /\ Len(p.data) <= C_SPWTDW2_DATA_LENGTH /\ p.data \in Seq(Byte)
    BY PeerPacketType, TimePacketType
  <2> QED
    BY <2>1, <2>2, DeviceMessageDecoded
<1> HIDE DEF m, d
<1>3. UNCHANGED data
  BY <1>1 DEF host
<1>4. Messages' /\ devq' \in Seq(Seq(Byte)) /\ offered' \in Seq(Seq(Byte))
  BY <1>1, <1>2, <1>3, MessagesAppend
<1>5. Handshake'
  <2>1. /\ Len(devq') = Len(devq) + 1 /\ Len(devq) \in Nat /\ devq'[Len(devq) + 1] = m
        /\ \A k \in 1..Len(devq) : devq'[k] = devq[k]
    BY <1>1, <1>2, AppendFacts DEF PathTypeOK
  <2>2. \A k \in 1..Len(devq) : IsAck(k)' = IsAck(k)
    BY <2>1 DEF IsAck
  <2>3. ASSUME NEW k, k = Len(devq) + 1
        PROVE  ~IsAck(k)'
    <3>1. pword # Ack
      BY DEF Data, Time, Ack
    <3> QED
      BY <1>2, <2>1, <2>3, <3>1 DEF IsAck
  <2>4. Received' = Received /\ GuestPacket' = GuestPacket
    BY <1>1 DEF Received, GuestPacket
  <2> HIDE DEF IsAck, Received, GuestPacket
  <2>5. ASSUME NEW k \in 1..Len(devq'), IsAck(k)'
        PROVE  k \in 1..Len(devq) /\ IsAck(k)
    <3>1. k \in 1..(Len(devq) + 1) /\ k # Len(devq) + 1
      BY <2>1, <2>3, <2>5
    <3>2. k \in 1..Len(devq)
      BY <2>1, <3>1
    <3> QED
      BY <2>2, <2>5, <3>2
  <2>6. \A k \in 1..Len(devq') : IsAck(k)' =>
          waiting' /\ Received' /\ \A j \in 1..Len(devq') : IsAck(j)' => j = k
    BY <1>1, <2>4, <2>5 DEF Handshake
  <2> QED
    BY <1>1, <2>4, <2>5, <2>6 DEF Handshake
<1> QED
  BY <1>1, <1>4, <1>5, PeerStill DEF PathTypeOK
(* What arming a receive descriptor leaves of a difference.                *)
LEMMA ArmRxSame ==
  ASSUME NEW mem \in Ram, NEW other \in Ram, NEW a \in 0..(RamSize - 1)
  PROVE  \/ ArmRx(mem)[a] = ArmRx(other)[a]
         \/ ArmRx(mem)[a] = mem[a] /\ ArmRx(other)[a] = other[a]
<1>1. a \in DOMAIN mem /\ DOMAIN other = DOMAIN mem
  BY DEF Ram
<1> QED
  BY <1>1, PokeWordsSame DEF ArmRx

LEMMA ImageByte ==
  ASSUME PathTypeOK, NEW at \in 0..20
  PROVE  image[at] \in Nat
<1>1. at \in 0..(RamSize - 1)
  <2>1. RamSize \in Nat /\ 24 <= RamSize
    BY Layout
  <2> QED
    BY <2>1
<1>2. image[at] \in Byte
  BY <1>1 DEF PathTypeOK, Ram
<1> QED
  BY <1>2 DEF Byte

(* The number of a word of the guest.                                      *)
LEMMA ImageNumber ==
  ASSUME PathTypeOK, NEW at \in 0..20
  PROVE  Number(Peek(image, at, 4)) \in Nat
<1>1. ASSUME NEW k \in 1..4
      PROVE  Peek(image, at, 4)[k] \in Nat
  <2>1. at + k - 1 \in 0..(RamSize - 1)
    <3>1. RamSize \in Nat /\ 24 <= RamSize
      BY Layout
    <3> QED
      BY <3>1
  <2>2. image[at + k - 1] \in Byte
    BY <2>1 DEF PathTypeOK, Ram
  <2> QED
    BY <2>2 DEF Peek, Byte
<1> DEFINE w == Peek(image, at, 4)
<1>2. w[2] \in Nat /\ w[3] \in Nat /\ w[4] \in Nat
  BY <1>1
<1> HIDE DEF w
<1>3. Number(w) \in Nat
  BY <1>2, SMT DEF Number
<1> QED
  BY <1>3 DEF w

(* The receive descriptor is armed elsewhere than a packet lies.           *)
LEMMA PacketStill ==
  ASSUME PathTypeOK, TxArmed, Has(image[TxTable + 2], TxEN),
         \A a \in 0..(RamSize - 1) : a \notin 16..23 => image'[a] = image[a]
  PROVE  GuestPacket' = GuestPacket
<1>1. /\ image[TxTable + 3] <= HeaderRoom /\ image[TxTable + 3] \in Nat
      /\ Number(Peek(image, TxTable + 8, 4)) <= DataRoom
  <2>1. TxTable + 3 \in 0..20
    BY Layout
  <2>2. image[TxTable + 3] \in Nat
    BY <2>1, ImageByte
  <2> QED
    BY <2>2 DEF TxArmed
<1>2. Peek(image', HeaderBuf, image[TxTable + 3]) = Peek(image, HeaderBuf, image[TxTable + 3])
  <2>1. ASSUME NEW k \in 1..image[TxTable + 3]
        PROVE  image'[HeaderBuf + k - 1] = image[HeaderBuf + k - 1]
    <3>1. HeaderBuf + k - 1 \in 0..(RamSize - 1) /\ HeaderBuf + k - 1 \notin 16..23
      BY <1>1, Layout
    <3> QED
      BY <3>1
  <2> QED
    BY <2>1 DEF Peek
<1> DEFINE n == Number(Peek(image, TxTable + 8, 4))
<1>3. n \in Nat /\ n <= DataRoom
  <2>1. TxTable + 8 \in 0..20
    BY Layout
  <2> QED
    BY <1>1, <2>1, ImageNumber
<1> HIDE DEF n
<1>4. Peek(image', DataBuf, n) = Peek(image, DataBuf, n)
  <2>1. ASSUME NEW k \in 1..n
        PROVE  image'[DataBuf + k - 1] = image[DataBuf + k - 1]
    <3>1. DataBuf + k - 1 \in 0..(RamSize - 1) /\ DataBuf + k - 1 \notin 16..23
      BY <1>3, Layout
    <3> QED
      BY <3>1
  <2> QED
    BY <2>1 DEF Peek
<1>5. /\ image'[TxTable + 3] = image[TxTable + 3]
      /\ Peek(image', TxTable + 8, 4) = Peek(image, TxTable + 8, 4)
  <2>1. \A k \in 0..15 : image'[k] = image[k]
    BY Layout
  <2> QED
    BY <2>1, Layout DEF Peek
<1> QED
  BY <1>2, <1>4, <1>5 DEF GuestPacket, n

LEMMA GuestArmRxInv ==
  ASSUME PathInv, GuestArmRx
  PROVE  PathInv'
<1> USE DEF PathInv
<1>1. UNCHANGED <<waiting, spwq, devq, owes, got, offered, given, pc>> /\ UNCHANGED swap
      /\ UNCHANGED <<txbuffer, txd, data>> /\ pc = "idle" /\ byte = 0 /\ ~waiting
      /\ ram' = ArmRx(ram) /\ image' = ArmRx(image)
  BY DEF GuestArmRx, host, queues, Running
<1>2. UNCHANGED <<byte, len, src>>
  BY <1>1 DEF swap
<1>3. RxWords(ram', ram) /\ RxWords(image', image)
  BY <1>1, ArmRxWords DEF PathTypeOK
<1>4. PathTypeOK'
  BY <1>1, <1>3, SwapStill DEF PathTypeOK, RxWords
<1>5. Calls'
  BY <1>1, <1>2 DEF Calls
<1>6. TxHeld' /\ RxPending'
  BY <1>1 DEF TxHeld, RxPending
<1>7. Handshake'
  <2>1. spwq = <<>> /\ ~owes /\ \A k \in 1..Len(devq) : ~IsAck(k)
    BY <1>1 DEF Handshake
  <2>2. \A k : IsAck(k)' = IsAck(k)
    BY <1>1 DEF IsAck
  <2> QED
    BY <1>1, <2>1, <2>2 DEF Handshake
<1>8. Messages'
  BY <1>1, MessagesStill
<1>9. RxArmed' /\ GuestGetsPacket'
  <2>1. Has(RxEN + RxWR + RxIE, RxEN)
    BY DEF Has, RxEN, RxWR, RxIE
  <2> QED
    BY <1>3, <2>1 DEF RxWords, RxArmed, GuestGetsPacket, RxDone, Armed
<1>10. \A a \in 0..(RamSize - 1) : a \notin 16..23 => ram'[a] = ram[a] /\ image'[a] = image[a]
  BY <1>3 DEF RxWords
<1>11. /\ image'[TxTable + 2] = image[TxTable + 2] /\ image'[TxTable + 3] = image[TxTable + 3]
       /\ ram'[TxTable + 2] = ram[TxTable + 2]
       /\ \A k \in 0..15 : image'[k] = image[k]
  <2>1. \A k \in 0..15 : ram'[k] = ram[k] /\ image'[k] = image[k]
    BY <1>10, Layout
  <2> QED
    BY <2>1, Layout
<1>12. /\ Peek(image', TxTable + 4, 4) = Peek(image, TxTable + 4, 4)
       /\ Peek(image', TxTable + 8, 4) = Peek(image, TxTable + 8, 4)
       /\ Peek(image', TxTable + 12, 4) = Peek(image, TxTable + 12, 4)
  BY <1>11, Layout DEF Peek
<1>13. TxArmed'
  BY <1>11, <1>12 DEF TxArmed
<1>14. PacketArrives'
  <2> SUFFICES ASSUME Has(image[TxTable + 2], TxEN) PROVE GuestPacket' = GuestPacket
    BY <1>1, <1>11 DEF PacketArrives, TxDone, Armed
  <2> QED
    BY <1>3, PacketStill DEF RxWords
<1>15. RamKept'
  <2>1. ASSUME NEW a \in 0..(RamSize - 1), ram'[a] # image'[a]
        PROVE  \/ a = TxTable + 2 /\ ram'[a] = Without(image'[a], TxEN)
               \/ a \in RxTable..(RxTable + 3)
               \/ a \in RxBuf..(RxBuf + RxMax - 1)
    <3>1. ram'[a] = ram[a] /\ image'[a] = image[a]
      BY <1>1, <2>1, ArmRxSame DEF PathTypeOK
    <3>2. a \in DOMAIN ram
      BY DEF PathTypeOK, Ram
    <3> QED
      BY <2>1, <3>1, <3>2 DEF RamKept
  <2> QED
    BY <1>3, <2>1, KeptAfter DEF RxWords
<1> QED
  BY <1>4, <1>5, <1>6, <1>7, <1>8, <1>9, <1>13, <1>14, <1>15

(* What the transmitter reads is the packet of the guest.                  *)
LEMMA ReadPacket ==
  ASSUME PathInv, Running("txread"), Has(HostWord(0)[2], TxEN)
  PROVE  /\ Has(ram[TxTable + 2], TxEN)
         /\ HostWord(0) = <<ram[TxTable + 3], ram[TxTable + 2], ram[TxTable + 1], ram[TxTable]>>
         /\ TxHeader = GuestPacket.header /\ TxData = GuestPacket.data
         /\ TxHeader \in Seq(Byte) /\ Len(TxHeader) <= HeaderRoom
         /\ TxData \in Seq(Byte) /\ Len(TxData) <= DataRoom
<1> USE DEF PathInv
<1>1. SwapInv /\ byte = 0 /\ len = 16 /\ len % 4 = 0 /\ \A k \in 0..15 : src[k] = ram[k]
  <2>1. pc = "txread" /\ byte = 0
    BY DEF Running
  <2>2. len = 16 /\ \A k \in 0..15 : src[k] = ram[TxTable + k]
    BY <2>1 DEF Calls
  <2>3. \A k \in 0..15 : TxTable + k = k
    BY Layout
  <2> QED
    BY <2>1, <2>2, <2>3 DEF PathTypeOK
<1>2. HostWord(0)[1] = ram[3] /\ HostWord(0)[2] = ram[2] /\ HostWord(0)[3] = ram[1]
      /\ HostWord(0)[4] = ram[0]
  <2>1. ASSUME NEW k \in 1..4
        PROVE  HostWord(0)[k] = ram[4 - k]
    <3>1. 4 * 0 + 4 <= len /\ 0 \in Nat /\ 4 * 0 + 4 - k = 4 - k /\ 4 - k \in 0..15
      BY <1>1
    <3>2. HostWord(0)[k] = src[4 * 0 + 4 - k]
      BY <1>1, <3>1, HostWordByte
    <3> QED
      BY <1>1, <3>1, <3>2
  <2>2. HostWord(0)[1] = ram[4 - 1] /\ HostWord(0)[2] = ram[4 - 2] /\ HostWord(0)[3] = ram[4 - 3]
        /\ HostWord(0)[4] = ram[4 - 4]
    BY <2>1
  <2> QED
    BY <2>2
<1>3. HostWord(0) = <<ram[3], ram[2], ram[1], ram[0]>>
  <2>1. HostWord(0) = <<HostWord(0)[1], HostWord(0)[2], HostWord(0)[3], HostWord(0)[4]>>
    BY DEF HostWord, Peek
  <2> QED
    BY <1>2, <2>1
<1>4. TxTable + 2 = 2 /\ TxTable + 3 = 3 /\ TxTable + 1 = 1 /\ TxTable = 0
  BY Layout
<1>5. Has(ram[2], TxEN)
  BY <1>2
<1>6. image[2] = ram[2]
  BY <1>4, <1>5, EnabledKept
<1>7. \A a \in 3..15 : ram[a] = image[a]
  <2> SUFFICES ASSUME NEW a \in 3..15 PROVE ram[a] = image[a]
    OBVIOUS
  <2>1. a \in 0..(RamSize - 1) /\ a # 2 /\ a \notin 16..19 /\ a < RxBuf
    BY Layout
  <2> QED
    BY <2>1, KeptOutside
<1>8. image[3] <= HeaderRoom /\ image[3] \in Nat
  /\ Number(Peek(image, 4, 4)) = HeaderBuf
  /\ Number(Peek(image, 8, 4)) <= DataRoom /\ Number(Peek(image, 8, 4)) \in Nat
  /\ Number(Peek(image, 12, 4)) = DataBuf
  <2>1. TxTable + 4 = 4 /\ TxTable + 8 = 8 /\ TxTable + 12 = 12 /\ 3 \in 0..(RamSize - 1)
    BY Layout
  <2>2. Number(Peek(image, 8, 4)) \in Nat
    BY <2>1, ImageNumber
  <2>3. image[3] \in Nat
    BY ImageByte
  <2> QED
    BY <1>4, <1>5, <1>6, <2>1, <2>2, <2>3 DEF TxArmed
<1>9. ASSUME NEW n \in 1..3
      PROVE  HostNumber(HostWord(n)) = Number(Peek(image, 4 * n, 4))
  <2>1. n \in Nat /\ 4 * n + 4 <= len /\ 4 * n \in Int
    BY <1>1
  <2>2. \A k \in 0..3 : src[4 * n + k] = ram[4 * n + k]
    <3> SUFFICES ASSUME NEW k \in 0..3 PROVE src[4 * n + k] = ram[4 * n + k]
      OBVIOUS
    <3>1. 4 * n + k \in 0..15
      OBVIOUS
    <3> QED
      BY <1>1, <3>1
  <2>3. HostNumber(HostWord(n)) = Number(Peek(ram, 4 * n, 4))
    <3> DEFINE at == 4 * n
    <3>1. at \in Int /\ \A k \in 0..3 : src[4 * n + k] = ram[at + k]
      BY <2>1, <2>2
    <3> HIDE DEF at
    <3>2. HostNumber(HostWord(n)) = Number(Peek(ram, at, 4))
      BY <1>1, <2>1, <3>1, HostReadsNumber
    <3> QED
      BY <3>2 DEF at
  <2>4. \A k \in 1..4 : ram[4 * n + k - 1] = image[4 * n + k - 1]
    <3> SUFFICES ASSUME NEW k \in 1..4 PROVE ram[4 * n + k - 1] = image[4 * n + k - 1]
      OBVIOUS
    <3>1. 4 * n + k - 1 \in 3..15
      OBVIOUS
    <3> QED
      BY <1>7, <3>1
  <2>5. Peek(ram, 4 * n, 4) = Peek(image, 4 * n, 4)
    BY <2>4 DEF Peek
  <2> QED
    BY <2>3, <2>5
<1>10. HostNumber(HostWord(1)) = HeaderBuf /\ HostNumber(HostWord(2)) = Number(Peek(image, 8, 4))
       /\ HostNumber(HostWord(3)) = DataBuf
  <2>1. HostNumber(HostWord(1)) = Number(Peek(image, 4 * 1, 4))
        /\ HostNumber(HostWord(2)) = Number(Peek(image, 4 * 2, 4))
        /\ HostNumber(HostWord(3)) = Number(Peek(image, 4 * 3, 4))
    BY <1>9
  <2> QED
    BY <1>8, <2>1
<1> DEFINE h == image[3]
           n == Number(Peek(image, 8, 4))
<1>11. TxHeader = Peek(ram, HeaderBuf, h) /\ TxData = Peek(ram, DataBuf, n)
       /\ GuestPacket = [header |-> Peek(image, HeaderBuf, h), data |-> Peek(image, DataBuf, n)]
  <2>1. TxTable + 8 = 8 /\ ram[3] = image[3]
    BY <1>4, <1>7
  <2> QED
    BY <1>2, <1>4, <1>10, <2>1 DEF TxHeader, TxData, GuestPacket
<1>12. h \in Nat /\ h <= HeaderRoom /\ n \in Nat /\ n <= DataRoom
  BY <1>8
<1> HIDE DEF h, n
<1>13. ASSUME NEW a \in Nat, a >= 24, a < RxBuf
       PROVE  ram[a] = image[a] /\ ram[a] \in Byte
  <2>1. a \in 0..(RamSize - 1) /\ a # 2 /\ a \notin 16..19
    BY <1>13, Layout
  <2> QED
    BY <1>13, <2>1, KeptOutside DEF PathTypeOK, Ram
<1>14. Peek(ram, HeaderBuf, h) = Peek(image, HeaderBuf, h)
       /\ Peek(ram, HeaderBuf, h) \in [1..h -> Byte]
  <2>1. ASSUME NEW k \in 1..h
        PROVE  ram[HeaderBuf + k - 1] = image[HeaderBuf + k - 1] /\ ram[HeaderBuf + k - 1] \in Byte
    <3>1. HeaderBuf + k - 1 \in Nat /\ HeaderBuf + k - 1 >= 24 /\ HeaderBuf + k - 1 < RxBuf
      BY <1>12, Layout
    <3> QED
      BY <1>13, <3>1
  <2> QED
    BY <2>1 DEF Peek
<1>15. Peek(ram, DataBuf, n) = Peek(image, DataBuf, n)
       /\ Peek(ram, DataBuf, n) \in [1..n -> Byte]
  <2>1. ASSUME NEW k \in 1..n
        PROVE  ram[DataBuf + k - 1] = image[DataBuf + k - 1] /\ ram[DataBuf + k - 1] \in Byte
    <3>1. DataBuf + k - 1 \in Nat /\ DataBuf + k - 1 >= 24 /\ DataBuf + k - 1 < RxBuf
      BY <1>12, Layout
    <3> QED
      BY <1>13, <3>1
  <2> QED
    BY <2>1 DEF Peek
<1>16. TxHeader \in Seq(Byte) /\ Len(TxHeader) = h
  BY <1>11, <1>12, <1>14, LenProperties
<1>17. TxData \in Seq(Byte) /\ Len(TxData) = n
  BY <1>11, <1>12, <1>15, LenProperties
<1>18. TxHeader = GuestPacket.header /\ TxData = GuestPacket.data
  BY <1>11, <1>14, <1>15
<1> QED
  BY <1>3, <1>4, <1>5, <1>12, <1>16, <1>17, <1>18
(* The packet is sent as a message that the device decodes to the packet.  *)
LEMMA TxSendInv ==
  ASSUME PathInv, TxSend
  PROVE  PathInv'
<1> USE DEF PathInv
<1> DEFINE h == TxHeader
           d == TxData
           sent == SendPacket(txbuffer, Id, Data, h, d)
           m == Peek(sent, 0, PacketSize(h, d))
<1>1. UNCHANGED <<ram, devq, owes, image, got, offered, given>> /\ UNCHANGED data
      /\ Running("txread") /\ pc' = "idle" /\ Freed /\ waiting' = TRUE
      /\ Has(HostWord(0)[2], TxEN) /\ PacketSize(h, d) <= C_MAXQ_SIZE
      /\ txbuffer' = sent /\ spwq' = Append(spwq, Peek(txbuffer', 0, PacketSize(h, d)))
      /\ txd' = HostWord(0)
  BY DEF TxSend, history, Fits
<1>2. spwq' = Append(spwq, m) /\ pc = "txread" /\ byte = 0
  BY <1>1 DEF Running
<1>3. /\ Has(ram[TxTable + 2], TxEN)
      /\ HostWord(0) = <<ram[TxTable + 3], ram[TxTable + 2], ram[TxTable + 1], ram[TxTable]>>
      /\ h = GuestPacket.header /\ d = GuestPacket.data
      /\ h \in Seq(Byte) /\ Len(h) <= HeaderRoom
      /\ d \in Seq(Byte) /\ Len(d) <= DataRoom
  BY <1>1, ReadPacket
<1>4. Len(h) \in Byte /\ Len(d) <= C_SPWTDW2_DATA_LENGTH
  <2>1. C_SPWTDW2_DATA_LENGTH \in Int
    BY SMT DEF C_SPWTDW2_DATA_LENGTH
  <2> HIDE DEF h, d
  <2>2. Len(h) \in Nat /\ Len(d) \in Nat
    BY <1>3, LenProperties
  <2>3. HeaderRoom \in Nat /\ HeaderRoom <= 255 /\ DataRoom \in Nat /\ RamSize \in Nat
        /\ DataRoom <= RamSize /\ RamSize <= C_SPWTDW2_DATA_LENGTH
    BY Layout
  <2>4. Len(h) <= 255
    BY <1>3, <2>2, <2>3
  <2>5. Len(h) \in Byte
    BY <2>2, <2>4, SmallIsByte
  <2>6. Len(d) <= C_SPWTDW2_DATA_LENGTH
    BY <1>3, <2>1, <2>2, <2>3
  <2> QED
    BY <2>5, <2>6
<1>5. Id \in Byte /\ Data \in Byte /\ Data # Ack /\ C_MAXQ_SIZE \in Nat
      /\ txbuffer \in [0..(C_MAXQ_SIZE - 1) -> Byte]
  BY PathAssumption DEF Id, Data, Ack, Byte, PathTypeOK
<1> HIDE DEF h, d
<1>6. Carries(m, Id, Data, h, d)
  BY <1>1, <1>3, <1>4, <1>5, MessageDecoded
<1>7. sent \in [0..(C_MAXQ_SIZE - 1) -> Byte]
  BY <1>1, <1>3, <1>4, <1>5, SendPacketParts
<1> HIDE DEF sent, m
<1>8. ~waiting
  BY <1>2 DEF Handshake
<1>9. spwq = <<>> /\ ~owes /\ \A k \in 1..Len(devq) : ~IsAck(k)
  BY <1>8 DEF Handshake
<1>10. m \in Seq(Byte) /\ (WellFormed(h) => ReceivePacket(m) = [header |-> h, data |-> d])
  BY <1>6 DEF Carries
<1>11. spwq' \in Seq(Seq(Byte)) /\ Len(spwq') = 1 /\ spwq'[1] = m
  <2>1. spwq \in Seq(Seq(Byte)) /\ Len(spwq) = 0
    BY <1>9 DEF PathTypeOK
  <2>2. spwq' \in Seq(Seq(Byte)) /\ Len(spwq') = Len(spwq) + 1 /\ spwq'[Len(spwq) + 1] = m
    BY <1>2, <1>10, <2>1, AppendFacts
  <2> QED
    BY <2>1, <2>2
<1>12. PathTypeOK'
  BY <1>1, <1>2, <1>7, <1>11, FreedInv DEF PathTypeOK
<1>13. Calls'
  BY <1>1, <1>2 DEF Calls, Freed
<1>14. TxHeld' /\ RxPending'
  BY <1>1, <1>3 DEF TxHeld, RxPending
<1>15. Handshake'
  <2>1. GuestPacket' = GuestPacket
    BY <1>1 DEF GuestPacket
  <2>2. GuestPacket = [header |-> GuestPacket.header, data |-> GuestPacket.data]
    BY DEF GuestPacket
  <2>3. WellFormed(GuestPacket.header) => ReceivePacket(spwq'[1]) = GuestPacket
    BY <1>3, <1>10, <1>11, <2>2
  <2>4. \A k : IsAck(k)' = IsAck(k)
    BY <1>1 DEF IsAck
  <2>5. \A k \in 1..Len(devq') : ~IsAck(k)'
    BY <1>1, <1>9, <2>4
  <2> HIDE DEF IsAck
  <2> QED
    BY <1>1, <1>9, <1>11, <2>1, <2>3, <2>5 DEF Handshake
<1>16. Messages'
  BY <1>1, <1>2, MessagesStill
<1> QED
  BY <1>1, <1>12, <1>13, <1>14, <1>15, <1>16, RamStill

----------------------------------------------------------------------------
(* The invariant holds of a blank RAM and empty queues.                    *)
LEMMA PathInit == Init => PathInv
<1> SUFFICES ASSUME Init PROVE PathInv
  OBVIOUS
<1>1. /\ src = Blank /\ dest = Blank /\ old = Blank /\ len = 0 /\ byte = 0 /\ i = 0
      /\ ram = Zeros(RamSize) /\ image = ram /\ txbuffer = Zeros(C_MAXQ_SIZE)
      /\ pc = "idle" /\ waiting = FALSE /\ spwq = <<>> /\ devq = <<>> /\ owes = FALSE
      /\ offered = <<>> /\ given = <<>>
  BY DEF Init
<1>2. SwapInv
  BY <1>1, BlankType, SwapInitInv DEF SwapInit
<1>3. ram \in Ram /\ txbuffer \in [0..(C_MAXQ_SIZE - 1) -> Byte]
  BY <1>1 DEF Zeros, Ram, Byte
<1>4. ~Has(ram[TxTable + 2], TxEN) /\ ~Has(ram[RxTable], RxEN)
  <2>1. ram[TxTable + 2] = 0 /\ ram[RxTable] = 0
    <3>1. TxTable + 2 \in 0..(RamSize - 1) /\ RxTable \in 0..(RamSize - 1)
      BY Layout
    <3> QED
      BY <1>1, <3>1 DEF Zeros
  <2>2. ~Has(0, TxEN) /\ ~Has(0, RxEN)
    BY DEF Has, TxEN, RxEN
  <2> QED
    BY <2>1, <2>2
<1>5. PathTypeOK
  <2>1. ram \in Ram /\ image \in Ram
    BY <1>1, <1>3
  <2>2. waiting \in BOOLEAN /\ owes \in BOOLEAN
    BY <1>1
  <2>3. /\ spwq \in Seq(Seq(Byte)) /\ devq \in Seq(Seq(Byte)) /\ offered \in Seq(Seq(Byte))
        /\ given \in Seq(Byte)
    BY <1>1
  <2> QED
    BY <1>2, <1>3, <2>1, <2>2, <2>3 DEF PathTypeOK
<1>6. Calls /\ TxHeld /\ Handshake /\ Messages /\ RxPending
  BY <1>1 DEF Calls, TxHeld, Handshake, Messages, InHand, RxPending
<1>7. TxArmed /\ RxArmed /\ PacketArrives /\ GuestGetsPacket /\ RamKept
  BY <1>1, <1>4 DEF TxArmed, RxArmed, PacketArrives, GuestGetsPacket, TxDone, RxDone, Armed, RamKept
<1> QED
  BY <1>5, <1>6, <1>7 DEF PathInv

LEMMA PathStutters ==
  ASSUME PathInv, UNCHANGED vars
  PROVE  PathInv'
<1> USE DEF PathInv
<1>1. UNCHANGED <<ram, host, pc, waiting, spwq, image, got, given>> /\ UNCHANGED swap
      /\ UNCHANGED <<owes, devq, offered, data>>
  BY DEF vars, queues, history, host
<1>2. owes' \in BOOLEAN /\ devq' \in Seq(Seq(Byte)) /\ offered' \in Seq(Seq(Byte))
  BY <1>1 DEF PathTypeOK
<1>3. Messages'
  BY <1>1 DEF Messages, InHand
<1>4. Handshake'
  BY <1>1, HandshakeStill DEF Handshake
<1> QED
  BY <1>1, <1>2, <1>3, <1>4, PeerStill

(* Every step keeps the invariant.                                         *)
LEMMA PathNext == PathInv /\ [Next]_vars => PathInv'
<1> SUFFICES ASSUME PathInv, [Next]_vars PROVE PathInv'
  OBVIOUS
<1>1. CASE SwapWords
  BY <1>1, SwapWordsInv
<1>2. CASE \E header \in Headers, bytes \in Payloads : GuestArmTx(header, bytes)
  BY <1>2, GuestArmTxInv
<1>3. CASE GuestArmRx
  BY <1>3, GuestArmRxInv
<1>4. CASE TxRead \/ TxNothing \/ TxSend \/ TxFatal \/ TxDisable \/ TxWriteBack
  BY <1>4, TxReadInv, TxNothingInv, TxSendInv, TxFatalInv, TxDisableInv, TxWriteBackInv
<1>5. CASE RxFatal \/ RxAck \/ RxRead \/ RxNothing \/ RxWriteBack
  BY <1>5, RxFatalInv, RxAckInv, RxReadInv, RxNothingInv, RxWriteBackInv
<1>6. CASE RxTime \/ RxDiscard
  BY <1>6, RxDropInv DEF RxTime, RxDiscard
<1>7. CASE \E att \in RecvAtt : RxDeliver(att)
  BY <1>7, RxDeliverInv
<1>8. CASE PeerReceive \/ PeerAck
  BY <1>8, PeerReceiveInv, PeerAckInv
<1>9. CASE \/ \E id \in {Id, e_grspw_corenb}, p \in PeerPackets : PeerSend(id, Data, p)
           \/ \E code \in PeerTimes : PeerSend(Id, Time, TimePacket(code))
  BY <1>9, PeerSendInv
<1>10. CASE UNCHANGED vars
  BY <1>10, PathStutters
<1> QED
  BY <1>1, <1>2, <1>3, <1>4, <1>5, <1>6, <1>7, <1>8, <1>9, <1>10 DEF Next

LEMMA PathInvariant == Spec => []PathInv
  BY PathInit, PathNext, PTL DEF Spec

(* When grlib_comgrspw_txenable gives a descriptor back, the device has    *)
(* decoded the packet the guest put in RAM, whatever it is: its bytes went *)
(* through both byte orders, the buffer that still holds the last message, *)
(* and the message.                                                        *)
THEOREM PacketReachesDevice == Spec => []PacketArrives
<1>1. PathInv => PacketArrives
  BY DEF PathInv
<1> QED
  BY <1>1, PathInvariant, PTL

(* When grlib_comgrspw_rxenable gives a descriptor back, the guest has the *)
(* packet the device sent, as far as SPWRXL allows, with its length and    *)
(* flags, whatever recv_att was.                                           *)
THEOREM PacketReachesGuest == Spec => []GuestGetsPacket
<1>1. PathInv => GuestGetsPacket
  BY DEF PathInv
<1> QED
  BY <1>1, PathInvariant, PTL

(* The engines write nothing into RAM but what their descriptors give them.*)
THEOREM RamIsKept == Spec => []RamKept
<1>1. PathInv => RamKept
  BY DEF PathInv
<1> QED
  BY <1>1, PathInvariant, PTL

(* Every call the engines make of the swap reverses the words they give it,*)
(* and nothing else: they never leave two bytes over.                      *)
THEOREM EnginesSwapWords == Spec => [](WordsSwapped /\ len % 4 = 0)
<1>1. PathInv => WordsSwapped /\ len % 4 = 0
  <2> SUFFICES ASSUME PathInv PROVE WordsSwapped /\ len % 4 = 0
    OBVIOUS
  <2>1. WordsSwapped
    BY SwapEnds DEF PathInv, PathTypeOK
  <2>2. len = 0 \/ len = 4 \/ len = 8 \/ len = 16
    BY DEF PathInv, Calls
  <2>3. len % 4 = 0
    BY <2>2
  <2> QED
    BY <2>1, <2>3
<1> QED
  BY <1>1, PathInvariant, PTL

(* An armed descriptor and the buffers it names hold a packet the driver   *)
(* was asked to send.                                                      *)
Meant ==
  Has(image[TxTable + 2], TxEN) =>
    GuestPacket.header \in Headers /\ GuestPacket.data \in Payloads

LEMMA ArmedIsMeant ==
  ASSUME PathInv, NEW header \in Headers, NEW bytes \in Payloads, GuestArmTx(header, bytes)
  PROVE  Meant'
<1>1. image \in Ram /\ image' = ArmTx(image, header, bytes)
  BY DEF PathInv, PathTypeOK, GuestArmTx
<1>2. TxWords(image', image, header, bytes)
  BY <1>1, ArmTxWords
<1>3. Peek(image', HeaderBuf, image'[TxTable + 3]) = header
  BY <1>2 DEF TxWords
<1>4. Peek(image', DataBuf, Number(Peek(image', TxTable + 8, 4))) = bytes
  BY <1>2 DEF TxWords
<1> QED
  BY <1>3, <1>4 DEF Meant, GuestPacket

LEMMA MeantStays ==
  ASSUME PathInv, Meant, GuestArmRx
  PROVE  Meant'
<1>1. image \in Ram /\ image' = ArmRx(image)
  BY DEF PathInv, PathTypeOK, GuestArmRx
<1>2. \A a \in 0..(RamSize - 1) : a \notin 16..23 => image'[a] = image[a]
  BY <1>1, ArmRxWords DEF RxWords
<1>3. image'[TxTable + 2] = image[TxTable + 2]
  BY <1>2, Layout
<1>4. CASE Has(image[TxTable + 2], TxEN)
  <2>1. GuestPacket' = GuestPacket
    BY <1>2, <1>4, PacketStill DEF PathInv
  <2> QED
    BY <1>4, <2>1 DEF Meant
<1> QED
  BY <1>3, <1>4 DEF Meant

LEMMA MeantNext == PathInv /\ Meant /\ [Next]_vars => Meant'
<1> SUFFICES ASSUME PathInv, Meant, [Next]_vars PROVE Meant'
  OBVIOUS
<1>1. CASE \E header \in Headers, bytes \in Payloads : GuestArmTx(header, bytes)
  BY <1>1, ArmedIsMeant
<1>2. CASE GuestArmRx
  BY <1>2, MeantStays
<1>3. ASSUME UNCHANGED image PROVE Meant'
  BY <1>3 DEF Meant, GuestPacket
<1>4. CASE SwapWords \/ UNCHANGED vars
  BY <1>3, <1>4 DEF SwapWords, vars, history
<1>5. CASE TxRead \/ TxNothing \/ TxSend \/ TxFatal \/ TxDisable \/ TxWriteBack
  BY <1>3, <1>5 DEF TxRead, TxNothing, TxSend, TxFatal, TxDisable, TxWriteBack, history
<1>6. CASE RxFatal \/ RxAck \/ RxTime \/ RxDiscard \/ RxRead \/ RxNothing \/ RxWriteBack
  BY <1>3, <1>6 DEF RxFatal, RxAck, RxTime, RxDiscard, RxRead, RxTake, RxNothing, RxWriteBack, history
<1>7. CASE \E att \in RecvAtt : RxDeliver(att)
  BY <1>3, <1>7 DEF RxDeliver
<1>8. CASE PeerReceive \/ PeerAck
  BY <1>3, <1>8 DEF PeerReceive, PeerAck
<1>9. CASE \/ \E id \in {Id, e_grspw_corenb}, p \in PeerPackets : PeerSend(id, Data, p)
           \/ \E code \in PeerTimes : PeerSend(Id, Time, TimePacket(code))
  BY <1>3, <1>9 DEF PeerSend
<1> QED
  BY <1>1, <1>2, <1>4, <1>5, <1>6, <1>7, <1>8, <1>9 DEF Next

LEMMA MeantInit == Init => Meant
<1> SUFFICES ASSUME Init PROVE ~Has(image[TxTable + 2], TxEN)
  BY DEF Meant
<1>1. TxTable + 2 \in 0..(RamSize - 1)
  BY Layout
<1>2. image[TxTable + 2] = 0
  BY <1>1 DEF Init, Zeros
<1> QED
  BY <1>2 DEF Has, TxEN

(* A driver whose headers all begin with their own length loses nothing:   *)
(* at each write-back of grlib_comgrspw_txenable the device has the header *)
(* that grlib_mqgrspw_receive_packet promises it, and header and data are  *)
(* those of a packet the driver was asked to send.                         *)
THEOREM LengthFirstHeadersArrive ==
  ASSUME \A header \in Headers : WellFormed(header)
  PROVE  Spec => [](HeaderArrives /\ (TxDone => got.header \in Headers /\ got.data \in Payloads))
<1>1. PathInv /\ Meant =>
        HeaderArrives /\ (TxDone => got.header \in Headers /\ got.data \in Payloads)
  BY DEF PathInv, PacketArrives, Meant, HeaderArrives, TxDone, Armed
<1> QED
  BY <1>1, MeantInit, MeantNext, PathInvariant, PTL DEF Spec
=============================================================================
