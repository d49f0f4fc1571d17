--------------------------- MODULE GrspwPathLemmas ---------------------------
(***************************************************************************)
(* What the operators of GrspwPath return: bytes read and written, numbers *)
(* as bytes, bits of a byte, and the messages of grlib_mqgrspw, which are  *)
(* decoded to the packet they were made of.                                *)
(***************************************************************************)
EXTENDS GrspwPath, GrspwSwapProofs, SequenceTheorems

----------------------------------------------------------------------------
(* Reading and writing bytes.                                              *)
LEMMA PeekAt ==
  ASSUME NEW mem, NEW at, NEW n, NEW k \in 1..n
  PROVE  Peek(mem, at, n)[k] = mem[at + k - 1]
  BY DEF Peek

LEMMA PeekSeq ==
  ASSUME NEW mem, NEW at \in Int, NEW n \in Nat,
         \A k \in 1..n : mem[at + k - 1] \in Byte
  PROVE  Peek(mem, at, n) \in Seq(Byte) /\ Len(Peek(mem, at, n)) = n
<1>1. Peek(mem, at, n) \in [1..n -> Byte]
  BY DEF Peek
<1> QED
  BY <1>1, LenProperties

LEMMA PeekSame ==
  ASSUME NEW mem, NEW at \in Int, NEW n, NEW other, NEW from \in Int,
         \A k \in 1..n : mem[at + k - 1] = other[from + k - 1]
  PROVE  Peek(mem, at, n) = Peek(other, from, n)
  BY DEF Peek

(* What has the elements of a sequence in their places is the sequence.    *)
LEMMA PeekWhole ==
  ASSUME NEW s \in Seq(Byte), NEW mem, NEW at \in Int,
         \A k \in 1..Len(s) : mem[at + k - 1] = s[k]
  PROVE  Peek(mem, at, Len(s)) = s
<1>1. s \in [1..Len(s) -> Byte]
  BY LenProperties
<1> QED
  BY <1>1 DEF Peek

LEMMA PokeIn ==
  ASSUME NEW mem, NEW at \in Int, NEW bytes, Len(bytes) \in Nat,
         NEW a \in DOMAIN mem, a \in Int, at <= a, a < at + Len(bytes)
  PROVE  Poke(mem, at, bytes)[a] = bytes[a - at + 1]
<1>1. a \in at..(at + Len(bytes) - 1)
  OBVIOUS
<1> QED
  BY <1>1 DEF Poke

LEMMA PokeOut ==
  ASSUME NEW mem, NEW at \in Int, NEW bytes, Len(bytes) \in Nat,
         NEW a \in DOMAIN mem, a \in Int, a < at \/ a >= at + Len(bytes)
  PROVE  Poke(mem, at, bytes)[a] = mem[a]
<1>1. a \notin at..(at + Len(bytes) - 1)
  OBVIOUS
<1> QED
  BY <1>1 DEF Poke

(* The same write to two memories leaves no new difference.                *)
LEMMA PokeSame ==
  ASSUME NEW m, NEW o, DOMAIN o = DOMAIN m, NEW at, NEW bytes, NEW a \in DOMAIN m
  PROVE  /\ DOMAIN Poke(m, at, bytes) = DOMAIN m
         /\ DOMAIN Poke(o, at, bytes) = DOMAIN Poke(m, at, bytes)
         /\ \/ Poke(m, at, bytes)[a] = Poke(o, at, bytes)[a]
            \/ (Poke(m, at, bytes)[a] = m[a] /\ Poke(o, at, bytes)[a] = o[a])
  BY DEF Poke

LEMMA PokeType ==
  ASSUME NEW n \in Nat, NEW mem \in [0..(n - 1) -> Byte], NEW at \in Int, NEW bytes \in Seq(Byte)
  PROVE  Poke(mem, at, bytes) \in [0..(n - 1) -> Byte]
<1>1. bytes \in [1..Len(bytes) -> Byte] /\ Len(bytes) \in Nat
  BY LenProperties
<1>2. ASSUME NEW k \in 0..(n - 1), k \in at..(at + Len(bytes) - 1)
      PROVE  bytes[k - at + 1] \in Byte
  <2>1. k - at + 1 \in 1..Len(bytes)
    BY <1>1, <1>2
  <2> QED
    BY <1>1, <2>1
<1> QED
  BY <1>2 DEF Poke

----------------------------------------------------------------------------
(* Numbers as bytes.                                                       *)
LEMMA SmallIsByte ==
  ASSUME NEW n \in Nat, n <= 255
  PROVE  n \in Byte
  BY DEF Byte

LEMMA LittleBytesSeq ==
  ASSUME NEW n \in Nat, n <= C_SPWTDW2_DATA_LENGTH
  PROVE  LittleBytes(n) \in Seq(Byte) /\ Len(LittleBytes(n)) = 4
<1>1. n \in Nat /\ n <= 16777215
  BY SMT DEF C_SPWTDW2_DATA_LENGTH
<1>2. n \div 16777216 = 0
  BY <1>1, SMT
<1>3. n % 256 \in Byte /\ (n \div 256) % 256 \in Byte /\ (n \div 65536) % 256 \in Byte
  BY <1>1, SMT DEF Byte
<1> QED
  BY <1>2, <1>3, SMT DEF LittleBytes, Byte

LEMMA LittleRound ==
  ASSUME NEW n \in Nat, n <= C_SPWTDW2_DATA_LENGTH
  PROVE  Little(LittleBytes(n)) = n
<1> DEFINE a == n % 256
           b == (n \div 256) % 256
           c == (n \div 65536) % 256
           d == n \div 16777216
<1>1. n = a + 256 * (n \div 256)
  BY SMT
<1>2. n \div 256 = b + 256 * (n \div 65536)
  BY SMT
<1>3. n \div 65536 = c + 256 * d
  BY SMT
<1>4. a \in Int /\ b \in Int /\ c \in Int /\ d \in Int
  BY SMT
<1>5. n = a + 256 * b + 65536 * c + 16777216 * d
  <2> HIDE DEF a, b, c, d
  <2> QED BY <1>1, <1>2, <1>3, <1>4, SMT
<1> QED
  BY <1>5, SMT DEF Little, LittleBytes

LEMMA WordRound ==
  ASSUME NEW b, NEW n \in Nat, n <= C_SPWTDW2_DATA_LENGTH
  PROVE  Number(Word(b, n)) = n
<1>1. n = (n % 256) + 256 * (n \div 256)
  BY SMT
<1>2. n \div 256 = ((n \div 256) % 256) + 256 * (n \div 65536)
  BY SMT
<1> QED
  BY <1>1, <1>2, SMT DEF Number, Word

----------------------------------------------------------------------------
(* Writing words.                                                          *)
LEMMA PokeWordsIn ==
  ASSUME NEW mem, NEW at \in Int, NEW words, Len(words) \in Nat,
         NEW w \in 1..Len(words), NEW b \in 1..4,
         NEW k \in DOMAIN mem, k = at + 4 * (w - 1) + b - 1
  PROVE  PokeWords(mem, at, words)[k] = words[w][b]
<1>1. k \in at..(at + 4 * Len(words) - 1)
  OBVIOUS
<1>2. (k - at) \div 4 = w - 1 /\ (k - at) % 4 = b - 1
  OBVIOUS
<1>3. (k - at) \div 4 + 1 = w /\ ((k - at) % 4) + 1 = b
  BY <1>2
<1>4. PokeWords(mem, at, words)[k] = words[(k - at) \div 4 + 1][((k - at) % 4) + 1]
  BY <1>1 DEF PokeWords
<1> QED
  BY <1>3, <1>4

(* The first word.                                                         *)
FirstWord(m, at, words) == \A b \in 1..4 : at + b - 1 \in DOMAIN m => m[at + b - 1] = words[1][b]

LEMMA PokeFirstWord ==
  ASSUME NEW mem, NEW at \in Int, NEW words, Len(words) \in Nat \ {0}
  PROVE  FirstWord(PokeWords(mem, at, words), at, words)
<1> DEFINE m == PokeWords(mem, at, words)
<1>1. ASSUME NEW b \in 1..4, at + b - 1 \in DOMAIN m
      PROVE  m[at + b - 1] = words[1][b]
  <2> DEFINE k == at + b - 1
  <2>1. k \in DOMAIN mem
    BY <1>1 DEF PokeWords
  <2>2. k \in at..(at + 4 * Len(words) - 1) /\ k - at = b - 1
    OBVIOUS
  <2> HIDE DEF k
  <2>3. (b - 1) \div 4 + 1 = 1 /\ ((b - 1) % 4) + 1 = b
    OBVIOUS
  <2>4. m[k] = words[(k - at) \div 4 + 1][((k - at) % 4) + 1]
    BY <2>1, <2>2 DEF PokeWords
  <2> QED
    BY <2>2, <2>3, <2>4 DEF k
<1> QED
  BY <1>1 DEF FirstWord

LEMMA PokeWordsOut ==
  ASSUME NEW mem, NEW at \in Int, NEW words, Len(words) \in Nat,
         NEW a \in DOMAIN mem, a \in Int, a < at \/ a >= at + 4 * Len(words)
  PROVE  PokeWords(mem, at, words)[a] = mem[a]
<1>1. a \notin at..(at + 4 * Len(words) - 1)
  OBVIOUS
<1> QED
  BY <1>1 DEF PokeWords

LEMMA PokeWordsType ==
  ASSUME NEW n \in Nat, NEW mem \in [0..(n - 1) -> Byte], NEW at \in Int, NEW words,
         Len(words) \in Nat, \A w \in 1..Len(words), b \in 1..4 : words[w][b] \in Byte
  PROVE  PokeWords(mem, at, words) \in [0..(n - 1) -> Byte]
<1>1. ASSUME NEW k \in 0..(n - 1), k \in at..(at + 4 * Len(words) - 1)
      PROVE  words[(k - at) \div 4 + 1][((k - at) % 4) + 1] \in Byte
  <2>1. (k - at) \div 4 + 1 \in 1..Len(words) /\ ((k - at) % 4) + 1 \in 1..4
    BY <1>1
  <2> QED
    BY <2>1
<1> QED
  BY <1>1 DEF PokeWords

LEMMA PokeWordsSame ==
  ASSUME NEW m, NEW o, DOMAIN o = DOMAIN m, NEW at, NEW words, NEW a \in DOMAIN m
  PROVE  \/ PokeWords(m, at, words)[a] = PokeWords(o, at, words)[a]
         \/ (PokeWords(m, at, words)[a] = m[a] /\ PokeWords(o, at, words)[a] = o[a])
  BY DEF PokeWords

(* A word that was written holds its number.                               *)
LEMMA PokeWordsNumber ==
  ASSUME NEW mem, NEW at \in Int, NEW words, Len(words) \in Nat,
         NEW w \in 1..Len(words), \A b \in 1..4 : at + 4 * (w - 1) + b - 1 \in DOMAIN mem
  PROVE  Number(Peek(PokeWords(mem, at, words), at + 4 * (w - 1), 4)) = Number(words[w])
<1> DEFINE p == Peek(PokeWords(mem, at, words), at + 4 * (w - 1), 4)
<1>1. ASSUME NEW b \in 1..4
      PROVE  p[b] = words[w][b]
  <2> DEFINE m == PokeWords(mem, at, words)
             from == at + 4 * (w - 1)
  <2>1. m[from + b - 1] = words[w][b]
    <3> DEFINE k == at + 4 * (w - 1) + b - 1
    <3>1. k \in DOMAIN mem /\ k = at + 4 * (w - 1) + b - 1
      OBVIOUS
    <3> HIDE DEF k
    <3>2. PokeWords(mem, at, words)[k] = words[w][b]
      BY <3>1, PokeWordsIn
    <3> QED
      BY <3>1, <3>2
  <2>2. p = Peek(m, from, 4)
    OBVIOUS
  <2> HIDE DEF m, from, p
  <2>3. p[b] = m[from + b - 1]
    BY <2>2, PeekAt
  <2> QED
    BY <2>1, <2>3
<1> HIDE DEF p
<1>2. p[2] = words[w][2] /\ p[3] = words[w][3] /\ p[4] = words[w][4]
  BY <1>1
<1> QED
  BY <1>2 DEF Number, p

----------------------------------------------------------------------------
(* Bits of a byte.                                                         *)
LEMMA WithoutBit ==
  ASSUME NEW b \in Byte, NEW bit \in {TxEN, RxEN}
  PROVE  Without(b, bit) \in Byte /\ ~Has(Without(b, bit), bit)
<1>1. CASE bit = TxEN
  BY <1>1 DEF Without, Has, Byte, TxEN, RxEN
<1>2. CASE bit = RxEN
  BY <1>2 DEF Without, Has, Byte, TxEN, RxEN
<1> QED
  BY <1>1, <1>2

LEMMA WithBit ==
  ASSUME NEW b \in Byte, NEW bit \in {RxTR, RxDC, RxHC, RxEP}
  PROVE  /\ With(b, bit) \in Byte /\ With(b, bit) % 16 = b % 16
         /\ Has(b, RxTR) \/ bit = RxTR => Has(With(b, bit), RxTR)
<1> USE DEF RxTR, RxDC, RxHC, RxEP
<1>1. CASE bit = RxTR
  BY <1>1 DEF With, Has, Byte
<1>2. CASE bit = RxDC
  BY <1>2 DEF With, Has, Byte
<1>3. CASE bit = RxHC
  BY <1>3 DEF With, Has, Byte
<1>4. CASE bit = RxEP
  BY <1>4 DEF With, Has, Byte
<1> QED
  BY <1>1, <1>2, <1>3, <1>4

LEMMA FlagKept ==
  ASSUME NEW b \in Byte, NEW bit \in {RxTR, RxDC, RxHC, RxEP}, NEW att
  PROVE  /\ RxFlag(b, bit, att) \in Byte /\ RxFlag(b, bit, att) % 16 = b % 16
         /\ Has(b, RxTR) \/ (bit = RxTR /\ Truncated) => Has(RxFlag(b, bit, att), RxTR)
  BY WithBit DEF RxFlag

(* The flags a receive descriptor is given back with: WR and IE as the     *)
(* guest set them, no EN, and TR if the packet was cut.                    *)
LEMMA FlagsGivenBack ==
  ASSUME NEW att
  PROVE  LET b == Without(RxFlags(RxEN + RxWR + RxIE, att), RxEN)
         IN  b \in Byte /\ b % 16 = RxWR + RxIE /\ (Truncated => Has(b, RxTR))
<1> DEFINE f0 == RxEN + RxWR + RxIE
           f1 == RxFlag(f0, RxTR, att)
           f2 == RxFlag(f1, RxDC, att)
           f3 == RxFlag(f2, RxHC, att)
           f4 == RxFlag(f3, RxEP, att)
<1>0. f0 \in Byte /\ f0 % 16 = 14
  BY DEF RxEN, RxWR, RxIE, Byte
<1> HIDE DEF f0
<1>1. f1 \in Byte /\ f1 % 16 = 14 /\ (Truncated => Has(f1, RxTR))
  BY <1>0, FlagKept
<1> HIDE DEF f1
<1>2. f2 \in Byte /\ f2 % 16 = 14 /\ (Truncated => Has(f2, RxTR))
  BY <1>1, FlagKept
<1> HIDE DEF f2
<1>3. f3 \in Byte /\ f3 % 16 = 14 /\ (Truncated => Has(f3, RxTR))
  BY <1>2, FlagKept
<1> HIDE DEF f3
<1>4. f4 \in Byte /\ f4 % 16 = 14 /\ (Truncated => Has(f4, RxTR))
  BY <1>3, FlagKept
<1>5. RxFlags(f0, att) = Without(f4, 1)
  BY DEF RxFlags, f1, f2, f3
<1> HIDE DEF f4
<1>6. Without(f4, 1) = f4
  BY <1>4 DEF Without, Has, Byte
<1>7. Without(f4, RxEN) = f4 - 2
  BY <1>4 DEF Without, Has, Byte, RxEN
<1>8. f4 - 2 \in Byte /\ (f4 - 2) % 16 = 12
  BY <1>4 DEF Byte
<1>9. Has(f4, RxTR) => Has(f4 - 2, RxTR)
  BY <1>4 DEF Has, Byte, RxTR
<1> QED
  BY <1>4, <1>5, <1>6, <1>7, <1>8, <1>9 DEF f0, RxWR, RxIE

----------------------------------------------------------------------------
(* A word the host has read is the word in RAM with its bytes reversed.    *)
LEMMA SwappedByte ==
  ASSUME SwapInv, byte = 0, len % 4 = 0, NEW n \in Nat, 4 * n + 4 <= len, NEW k \in 1..4
  PROVE  dest[4 * n + k - 1] = src[4 * n + 4 - k]
<1> DEFINE c == 4 * n + k - 1
<1>1. len \in Nat /\ len <= MaxLen /\ MaxLen \in Nat /\ i = len
  BY SwapAssumption DEF SwapInv, SwapTypeOK
<1>2. c \in Cells /\ c < i /\ c \in Nat /\ 4 * n <= c /\ c < 4 * n + 4 /\ (4 * n) % 4 = 0
  BY <1>1 DEF Cells
<1>3. dest[c] = src[Mirror(c)]
  <2>1. ~Tailed
    BY DEF Tailed
  <2> QED
    BY <1>1, <1>2, <2>1 DEF SwapInv
<1>4. Group(c) = 4 * n
  BY <1>2, FullGroup
<1>5. Mirror(c) = 4 * n + 4 - k
  BY <1>1, <1>4 DEF Mirror, GroupSize
<1> QED
  BY <1>3, <1>5

LEMMA HostWordByte ==
  ASSUME SwapInv, byte = 0, len % 4 = 0, NEW n \in Nat, 4 * n + 4 <= len, NEW k \in 1..4
  PROVE  HostWord(n)[k] = src[4 * n + 4 - k]
<1>1. HostWord(n)[k] = dest[4 * n + k - 1]
  BY DEF HostWord, Peek
<1> QED
  BY <1>1, SwappedByte

(* The host reads the number that is in RAM.                               *)
LEMMA HostReadsNumber ==
  ASSUME SwapInv, byte = 0, len % 4 = 0, NEW n \in Nat, 4 * n + 4 <= len,
         NEW at \in Int, \A k \in 0..3 : src[4 * n + k] = ram[at + k]
  PROVE  HostNumber(HostWord(n)) = Number(Peek(ram, at, 4))
<1>1. HostWord(n)[1] = src[4 * n + 3] /\ HostWord(n)[2] = src[4 * n + 2]
      /\ HostWord(n)[3] = src[4 * n + 1]
  BY HostWordByte
<1>2. Peek(ram, at, 4)[2] = ram[at + 1] /\ Peek(ram, at, 4)[3] = ram[at + 2]
      /\ Peek(ram, at, 4)[4] = ram[at + 3]
  BY DEF Peek
<1>3. src[4 * n + 1] \in Int /\ src[4 * n + 2] \in Int /\ src[4 * n + 3] \in Int
  <2>1. 4 * n + 1 \in Cells /\ 4 * n + 2 \in Cells /\ 4 * n + 3 \in Cells
    BY SwapAssumption DEF Cells, SwapInv, SwapTypeOK
  <2>2. \A a \in Cells : src[a] \in Byte
    BY DEF SwapInv, SwapTypeOK, Memory
  <2>3. \A b \in Byte : b \in Int
    BY DEF Byte
  <2> QED
    BY <2>1, <2>2, <2>3
<1>4. HostWord(n)[1] = Peek(ram, at, 4)[4] /\ HostWord(n)[2] = Peek(ram, at, 4)[3]
      /\ HostWord(n)[3] = Peek(ram, at, 4)[2]
  BY <1>1, <1>2
<1> QED
  BY <1>1, <1>3, <1>4 DEF HostNumber, Number

----------------------------------------------------------------------------
(* Messages.                                                               *)
LEMMA PacketSizeType ==
  ASSUME NEW header \in Seq(Byte), NEW bytes \in Seq(Byte)
  PROVE  PacketSize(header, bytes) \in Nat
  BY LenProperties DEF PacketSize

(* The parts of a message, at the places where grlib_mqgrspw_send_packet   *)
(* puts them.                                                              *)
Holds(m, id, pword, header, bytes) ==
  /\ m[0] = id /\ m[1] = pword
  /\ WellFormed(header) => m[2] = Len(header)
  /\ \A k \in 1..Len(header) : m[k + 1] = header[k]
  /\ \A k \in 1..4 : m[Len(header) + k + 2] = LittleBytes(Len(bytes))[k]
  /\ \A k \in 1..Len(bytes) : m[Len(header) + k + 6] = bytes[k]

(* grlib_mqgrspw_send_packet fills its buffer, whatever was in it.         *)
LEMMA SendPacketParts ==
  ASSUME NEW n \in Nat, NEW buf \in [0..(n - 1) -> Byte], NEW id \in Byte, NEW pword \in Byte,
         NEW header \in Seq(Byte), Len(header) \in Byte,
         NEW bytes \in Seq(Byte), Len(bytes) <= C_SPWTDW2_DATA_LENGTH,
         PacketSize(header, bytes) <= n
  PROVE  LET m == SendPacket(buf, id, pword, header, bytes)
         IN  m \in [0..(n - 1) -> Byte] /\ Holds(m, id, pword, header, bytes)
<1> DEFINE h == Len(header)
           d == Len(bytes)
           first == <<id, pword, h>>
           size == LittleBytes(d)
           b1 == Poke(buf, 0, first)
           b2 == Poke(b1, 2, header)
           b3 == Poke(b2, 3 + h, size)
           b4 == Poke(b3, 7 + h, bytes)
<1>1. h \in Nat /\ d \in Nat /\ 7 + h + d <= n
  BY LenProperties DEF PacketSize
<1>2. first \in Seq(Byte) /\ Len(first) = 3 /\ first[1] = id /\ first[2] = pword /\ first[3] = h
  OBVIOUS
<1>3. size \in Seq(Byte) /\ Len(size) = 4
  BY <1>1, LittleBytesSeq
<1>4. SendPacket(buf, id, pword, header, bytes) = b4
  BY DEF SendPacket
<1> HIDE DEF first, size
<1>5. b1 \in [0..(n - 1) -> Byte]
  BY <1>2, PokeType
<1>6. b1[0] = id /\ b1[1] = pword /\ b1[2] = h
  <2>1. 0 \in DOMAIN buf /\ 1 \in DOMAIN buf /\ 2 \in DOMAIN buf
    BY <1>1
  <2>2. ASSUME NEW a \in 0..2
        PROVE  b1[a] = first[a + 1]
    <3>1. a \in DOMAIN buf /\ a < 0 + Len(first) /\ Len(first) \in Nat /\ a - 0 + 1 = a + 1
      BY <1>2, <2>1
    <3>2. b1[a] = first[a - 0 + 1]
      BY <3>1, PokeIn
    <3> QED
      BY <3>1, <3>2
  <2>3. b1[0] = first[0 + 1] /\ b1[1] = first[1 + 1] /\ b1[2] = first[2 + 1]
    BY <2>2
  <2> QED
    BY <1>2, <2>3
<1> HIDE DEF b1
<1>7. b2 \in [0..(n - 1) -> Byte]
  BY <1>5, PokeType
<1>8. b2[0] = id /\ b2[1] = pword
  <2>1. ASSUME NEW a \in 0..1
        PROVE  b2[a] = b1[a]
    <3>1. a \in DOMAIN b1 /\ a \in Int /\ a < 2 /\ 2 \in Int /\ h \in Nat
      BY <1>1, <1>5
    <3> QED
      BY <3>1, PokeOut
  <2>2. b2[0] = b1[0] /\ b2[1] = b1[1]
    BY <2>1
  <2> QED
    BY <1>6, <2>2
<1>9. \A k \in 1..h : b2[k + 1] = header[k]
  <2> SUFFICES ASSUME NEW k \in 1..h PROVE b2[k + 1] = header[k]
    OBVIOUS
  <2> DEFINE a == k + 1
  <2>1. a \in DOMAIN b1 /\ 2 <= a /\ a < 2 + h /\ a \in Int /\ 2 \in Int /\ h \in Nat
        /\ a - 2 + 1 = k
    BY <1>1, <1>5
  <2> HIDE DEF a
  <2>2. b2[a] = header[a - 2 + 1]
    BY <2>1, PokeIn
  <2> QED
    BY <2>1, <2>2 DEF a
<1>10. WellFormed(header) => b2[2] = h
  <2>1. CASE h = 0
    <3> DEFINE a == 2
    <3>1. a \in DOMAIN b1 /\ a \in Int /\ a >= 2 + h /\ 2 \in Int /\ h \in Nat
      BY <1>1, <1>5, <2>1
    <3> HIDE DEF a
    <3>2. b2[a] = b1[a]
      BY <3>1, PokeOut
    <3>3. b2[2] = b1[2]
      BY <3>2 DEF a
    <3> QED
      BY <1>6, <2>1, <3>3
  <2>2. CASE h # 0
    <3>1. b2[1 + 1] = header[1]
      BY <1>1, <1>9, <2>2
    <3> QED
      BY <2>2, <3>1 DEF WellFormed
  <2> QED
    BY <2>1, <2>2
<1> HIDE DEF b2
<1>11. b3 \in [0..(n - 1) -> Byte]
  <2>1. 3 + h \in Int
    BY <1>1
  <2> QED
    BY <1>3, <1>7, <2>1, PokeType
<1>12. \A a \in 0..(h + 2) : b3[a] = b2[a]
  <2> SUFFICES ASSUME NEW a \in 0..(h + 2) PROVE b3[a] = b2[a]
    OBVIOUS
  <2> DEFINE at == 3 + h
  <2>1. a \in DOMAIN b2 /\ a \in Int /\ a < at /\ at \in Int /\ Len(size) \in Nat
    BY <1>1, <1>3, <1>7
  <2> HIDE DEF at
  <2>2. Poke(b2, at, size)[a] = b2[a]
    BY <2>1, PokeOut
  <2> QED
    BY <2>2 DEF at
<1>13. \A k \in 1..4 : b3[h + k + 2] = size[k]
  <2> SUFFICES ASSUME NEW k \in 1..4 PROVE b3[h + k + 2] = size[k]
    OBVIOUS
  <2>1. h + k + 2 \in DOMAIN b2 /\ 3 + h <= h + k + 2 /\ h + k + 2 < 3 + h + Len(size)
        /\ h + k + 2 \in Int /\ 3 + h \in Int
    BY <1>1, <1>3, <1>7
  <2>2. b3[h + k + 2] = size[(h + k + 2) - (3 + h) + 1]
    <3> DEFINE a == h + k + 2
               at == 3 + h
    <3>1. a \in DOMAIN b2 /\ at <= a /\ a < at + Len(size) /\ a \in Int /\ at \in Int
          /\ Len(size) \in Nat
      BY <1>3, <2>1
    <3> HIDE DEF a, at
    <3>2. Poke(b2, at, size)[a] = size[a - at + 1]
      BY <3>1, PokeIn
    <3> QED
      BY <3>2 DEF a, at
  <2>3. (h + k + 2) - (3 + h) + 1 = k
    BY <1>1
  <2> QED
    BY <2>2, <2>3
<1> HIDE DEF b3
<1>14. b4 \in [0..(n - 1) -> Byte]
  <2>1. 7 + h \in Int
    BY <1>1
  <2> QED
    BY <1>11, <2>1, PokeType
<1>15. \A a \in 0..(h + 6) : b4[a] = b3[a]
  <2> SUFFICES ASSUME NEW a \in 0..(h + 6) PROVE b4[a] = b3[a]
    OBVIOUS
  <2> DEFINE at == 7 + h
  <2>1. a \in DOMAIN b3 /\ a \in Int /\ a < at /\ at \in Int /\ d \in Nat
    BY <1>1, <1>11
  <2> HIDE DEF at
  <2>2. Poke(b3, at, bytes)[a] = b3[a]
    BY <2>1, PokeOut
  <2> QED
    BY <2>2 DEF at
<1>16. \A k \in 1..d : b4[h + k + 6] = bytes[k]
  <2> SUFFICES ASSUME NEW k \in 1..d PROVE b4[h + k + 6] = bytes[k]
    OBVIOUS
  <2> DEFINE a == h + k + 6
             at == 7 + h
  <2>1. a \in DOMAIN b3 /\ at <= a /\ a < at + d /\ a \in Int /\ at \in Int /\ d \in Nat
        /\ a - at + 1 = k
    BY <1>1, <1>11
  <2> HIDE DEF a, at
  <2>2. Poke(b3, at, bytes)[a] = bytes[a - at + 1]
    BY <2>1, PokeIn
  <2> QED
    BY <2>1, <2>2 DEF a, at
<1> HIDE DEF b4, h, d
<1>17. b4[0] = id /\ b4[1] = pword /\ (WellFormed(header) => b4[2] = h)
  BY <1>1, <1>8, <1>10, <1>12, <1>15
<1>18. ASSUME NEW k \in 1..h
       PROVE  b4[k + 1] = header[k]
  <2>1. k + 1 \in 0..(h + 2) /\ k + 1 \in 0..(h + 6)
    BY <1>1
  <2> QED
    BY <1>9, <1>12, <1>15, <2>1
<1>19. ASSUME NEW k \in 1..4
       PROVE  b4[h + k + 2] = size[k]
  <2>1. h + k + 2 \in 0..(h + 6)
    BY <1>1
  <2> QED
    BY <1>13, <1>15, <2>1
<1> QED
  BY <1>4, <1>14, <1>16, <1>17, <1>18, <1>19 DEF h, d, size, Holds

(* The receiver of a message takes it for the packet it was made of, if    *)
(* the first byte of the header is its length.                             *)
Carries(m, id, pword, header, bytes) ==
  /\ m \in Seq(Byte) /\ m[1] = id /\ m[2] = pword
  /\ WellFormed(header) => ReceivePacket(m) = [header |-> header, data |-> bytes]

(* Every message that fits the queue carries what was put into it.         *)
LEMMA MessageDecoded ==
  ASSUME NEW n \in Nat, NEW buf \in [0..(n - 1) -> Byte], NEW id \in Byte, NEW pword \in Byte,
         NEW header \in Seq(Byte), Len(header) \in Byte,
         NEW bytes \in Seq(Byte), Len(bytes) <= C_SPWTDW2_DATA_LENGTH,
         PacketSize(header, bytes) <= n
  PROVE  Carries(Peek(SendPacket(buf, id, pword, header, bytes), 0, PacketSize(header, bytes)),
                 id, pword, header, bytes)
<1> DEFINE h == Len(header)
           d == Len(bytes)
           sent == SendPacket(buf, id, pword, header, bytes)
           size == PacketSize(header, bytes)
           m == Peek(sent, 0, size)
<1>1. h \in Nat /\ d \in Nat /\ size = 7 + h + d /\ size <= n
  BY LenProperties DEF PacketSize
<1>2. sent \in [0..(n - 1) -> Byte] /\ Holds(sent, id, pword, header, bytes)
  BY SendPacketParts
<1> HIDE DEF sent, size
<1>3. /\ sent[0] = id /\ sent[1] = pword
      /\ WellFormed(header) => sent[2] = h
      /\ \A k \in 1..h : sent[k + 1] = header[k]
      /\ \A k \in 1..4 : sent[h + k + 2] = LittleBytes(d)[k]
      /\ \A k \in 1..d : sent[h + k + 6] = bytes[k]
  BY <1>2 DEF Holds
<1>4. m \in Seq(Byte) /\ Len(m) = size
  <2>1. \A k \in 1..size : sent[0 + k - 1] \in Byte
    BY <1>1, <1>2
  <2>2. m \in [1..size -> Byte]
    BY <2>1 DEF Peek
  <2> QED
    BY <1>1, <2>2, LenProperties
<1>5. \A k \in 1..size : m[k] = sent[k - 1]
  BY <1>1 DEF Peek
<1> HIDE DEF m
<1>6. m[1] = id /\ m[2] = pword /\ (WellFormed(header) => m[3] = h)
  <2>1. 1 \in 1..size /\ 2 \in 1..size /\ 3 \in 1..size
    BY <1>1
  <2>2. m[1] = sent[1 - 1] /\ m[2] = sent[2 - 1] /\ m[3] = sent[3 - 1]
    BY <1>5, <2>1
  <2> QED
    BY <1>3, <2>2
<1>7. Part(m, 4 + h, 4) = LittleBytes(d)
  <2>1. LittleBytes(d) \in Seq(Byte) /\ Len(LittleBytes(d)) = 4
    BY <1>1, LittleBytesSeq
  <2>2. ASSUME NEW k \in 1..4
        PROVE  m[4 + h + k - 1] = LittleBytes(d)[k]
    <3>1. 4 + h + k - 1 \in 1..size /\ (4 + h + k - 1) - 1 = h + k + 2
      BY <1>1
    <3> QED
      BY <1>3, <1>5, <3>1
  <2>3. Peek(m, 4 + h, 4) = LittleBytes(d)
    <3> DEFINE s == LittleBytes(d)
               at == 4 + h
    <3>1. at \in Int /\ s \in Seq(Byte) /\ Len(s) = 4 /\ \A k \in 1..Len(s) : m[at + k - 1] = s[k]
      BY <1>1, <2>1, <2>2
    <3> HIDE DEF s, at
    <3>2. Peek(m, at, Len(s)) = s
      BY <3>1, PeekWhole
    <3> QED
      BY <3>1, <3>2 DEF s, at
  <2>4. 4 + h + 4 - 1 <= Len(m)
    BY <1>1, <1>4
  <2> QED
    BY <2>3, <2>4 DEF Part
<1>8. Part(m, 8 + h, d) = bytes
  <2>1. ASSUME NEW k \in 1..d
        PROVE  m[8 + h + k - 1] = bytes[k]
    <3>1. 8 + h + k - 1 \in 1..size /\ (8 + h + k - 1) - 1 = h + k + 6
      BY <1>1
    <3> QED
      BY <1>3, <1>5, <3>1
  <2>2. Peek(m, 8 + h, d) = bytes
    <3> DEFINE at == 8 + h
    <3>1. at \in Int /\ \A k \in 1..d : m[at + k - 1] = bytes[k]
      BY <1>1, <2>1
    <3> HIDE DEF at
    <3>2. Peek(m, at, d) = bytes
      BY <3>1, PeekWhole
    <3> QED
      BY <3>2 DEF at
  <2>3. 8 + h + d - 1 <= Len(m)
    BY <1>1, <1>4
  <2> QED
    BY <2>2, <2>3 DEF Part
<1>9. Part(m, 3, h) = header
  <2>1. ASSUME NEW k \in 1..h
        PROVE  m[3 + k - 1] = header[k]
    <3>1. 3 + k - 1 \in 1..size /\ (3 + k - 1) - 1 = k + 1
      BY <1>1
    <3> QED
      BY <1>3, <1>5, <3>1
  <2>2. Peek(m, 3, h) = header
    <3> DEFINE at == 3
    <3>1. at \in Int /\ \A k \in 1..h : m[at + k - 1] = header[k]
      BY <2>1
    <3> HIDE DEF at
    <3>2. Peek(m, at, h) = header
      BY <3>1, PeekWhole
    <3> QED
      BY <3>2 DEF at
  <2>3. 3 + h - 1 <= Len(m)
    BY <1>1, <1>4
  <2> QED
    BY <2>2, <2>3 DEF Part
<1>10. LittleBytes(d) # Unknown
  <2>1. Len(LittleBytes(d)) = 4
    BY <1>1, LittleBytesSeq
  <2>2. Len(Unknown) = 1
    BY DEF Unknown
  <2>3. Len(LittleBytes(d)) # Len(Unknown)
    BY <2>1, <2>2
  <2> QED
    BY <2>3
<1>11. Little(LittleBytes(d)) = d
  BY <1>1, LittleRound
<1> HIDE DEF h, d
<1>12. ASSUME WellFormed(header)
       PROVE  ReceivePacket(m) = [header |-> header, data |-> bytes]
  <2>1. m[3] = h
    BY <1>6, <1>12
  <2> QED
    BY <1>7, <1>8, <1>9, <1>10, <1>11, <2>1 DEF ReceivePacket
<1> QED
  BY <1>4, <1>6, <1>12 DEF m, sent, size, Carries

(* A message of the device.                                                *)
LEMMA DeviceMessageDecoded ==
  ASSUME NEW id \in Byte, NEW pword \in Byte, NEW p \in [header : Seq(Byte), data : Seq(Byte)],
         WellFormed(p.header), Len(p.header) \in Byte, Len(p.data) <= C_SPWTDW2_DATA_LENGTH
  PROVE  LET m == Message(id, pword, p)
         IN  m \in Seq(Byte) /\ m[1] = id /\ m[2] = pword /\ ReceivePacket(m).data = p.data
<1> DEFINE size == PacketSize(p.header, p.data)
           m == Peek(SendPacket(Zeros(size), id, pword, p.header, p.data), 0, size)
<1>1. p.header \in Seq(Byte) /\ p.data \in Seq(Byte)
  OBVIOUS
<1>2. size \in Nat
  BY <1>1, PacketSizeType
<1>3. Zeros(size) \in [0..(size - 1) -> Byte]
  BY DEF Zeros, Byte
<1>4. m \in Seq(Byte) /\ m[1] = id /\ m[2] = pword
      /\ ReceivePacket(m) = [header |-> p.header, data |-> p.data]
  <2> DEFINE buf == Zeros(size)
             header == p.header
             bytes == p.data
  <2>1. /\ buf \in [0..(size - 1) -> Byte] /\ header \in Seq(Byte) /\ bytes \in Seq(Byte)
        /\ WellFormed(header) /\ Len(header) \in Byte /\ Len(bytes) <= C_SPWTDW2_DATA_LENGTH
        /\ size = PacketSize(header, bytes) /\ size <= size
    BY <1>1, <1>2, <1>3
  <2>2. m = Peek(SendPacket(buf, id, pword, header, bytes), 0, PacketSize(header, bytes))
    OBVIOUS
  <2> HIDE DEF buf, header, bytes, size, m
  <2>3. Carries(m, id, pword, header, bytes)
    BY <1>2, <2>1, <2>2, MessageDecoded
  <2>4. m \in Seq(Byte) /\ m[1] = id /\ m[2] = pword
        /\ ReceivePacket(m) = [header |-> header, data |-> bytes]
    BY <2>1, <2>3 DEF Carries
  <2> QED
    BY <2>4 DEF header, bytes
<1> QED
  BY <1>4 DEF Message
=============================================================================
