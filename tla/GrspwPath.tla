------------------------------ MODULE GrspwPath ------------------------------
(***************************************************************************)
(* The bytes of a packet on their way between guest RAM and the device:    *)
(* the big-endian descriptors in RAM, the little-endian copies the engines *)
(* of grlib_comgrspw decode, and the messages grlib_mqgrspw puts together  *)
(* and takes apart.                                                        *)
(*                                                                         *)
(* One link with one transmit and one receive descriptor, both with WR:    *)
(* how the rings are walked is the matter of GrspwDevice, how the threads  *)
(* meet that of GrspwSim.  Here a handler runs without the other thread,   *)
(* except while the transmitter waits for its ack.                         *)
(*                                                                         *)
(* A buffer is a function from places to bytes, a message a sequence of    *)
(* bytes.  A word of RAM is swapped by the loop of GrspwSwap, step by      *)
(* step; the engines swap 4, 8 and 16 bytes, so only SwapFour ever runs.   *)
(***************************************************************************)
EXTENDS GrspwSwap, Sequences

CONSTANTS
  Headers, Payloads,   (* headers and data of the packets the guest sends  *)
  PeerPackets,         (* the packets the device sends                     *)
  PeerTimes,           (* the time codes the device sends                  *)
  HeaderRoom, DataRoom,  (* lengths of the driver's transmit buffers       *)
  RamSize,             (* bytes of guest RAM                               *)
  RxMax,               (* SPWRXL: the longest packet that is received      *)
  Ndr,                 (* SPWNDR: the node address; OPM is not set         *)
  RecvAtt,             (* values of the uninitialised recv_att, as the     *)
                       (* flags they set in a descriptor                   *)
  C_MAXQ_SIZE,         (* the longest message of a queue                   *)
  QMax                 (* bound: messages in the device's queue            *)

(* Guest RAM starts at 0x40000000; the driver's tables and buffers in it.  *)
TxTable == 0
RxTable == 16
HeaderBuf == 24
DataBuf == HeaderBuf + HeaderRoom
RxBuf == DataBuf + DataRoom

(* Byte 1 of SPWTDW0 holds EN, WR and IE, byte 3 of SPWTRW0 the flags.     *)
TxEN == 16
TxWR == 32
RxEN == 2
RxWR == 4
RxIE == 8
RxEP == 16
RxHC == 32
RxDC == 64
RxTR == 128

(* The mask of a length: 24 bits. *)
C_SPWTDW2_DATA_LENGTH == 16777215

PacketSize(header, bytes) == 7 + Len(header) + Len(bytes)

(* The layout of a message has room for a header only if the first byte of *)
(* the header is its length.                                               *)
WellFormed(header) == header = <<>> \/ header[1] = Len(header)

ASSUME PathAssumption ==
  /\ MaxLen = 16
  /\ HeaderRoom \in Byte /\ DataRoom \in Nat
  /\ RamSize \in Nat /\ RamSize <= C_SPWTDW2_DATA_LENGTH
  /\ RxMax \in Nat /\ RxMax % 4 = 0 /\ RxBuf + RxMax <= RamSize
  /\ Headers \subseteq {h \in Seq(Byte) : Len(h) <= HeaderRoom}
  /\ Payloads \subseteq {b \in Seq(Byte) : Len(b) <= DataRoom}
  /\ PeerPackets \subseteq
       {p \in [header : Seq(Byte), data : Seq(Byte)] :
          WellFormed(p.header) /\ PacketSize(p.header, p.data) <= C_MAXQ_SIZE}
  /\ PeerTimes \subseteq Byte
  /\ Ndr \in Byte /\ RecvAtt \subseteq SUBSET {RxTR, RxDC, RxHC, RxEP}
  /\ C_MAXQ_SIZE \in Nat /\ 8 <= C_MAXQ_SIZE /\ C_MAXQ_SIZE <= C_SPWTDW2_DATA_LENGTH
  /\ QMax \in Nat

NoPacket == [header |-> <<>>, data |-> <<>>]

VARIABLES
  ram,                 (* guest RAM                                        *)
  txbuffer,            (* of grlib_mqgrspw: the last message sent          *)
  txd,                 (* host copy of the control word being transmitted  *)
  data,                (* the packet rxenable is called with               *)
  node,                (* g_rxdata[0], which an empty packet leaves alone  *)
  rd,                  (* are RE and RD of SPWCHN set?                     *)
  pc, waiting,         (* the running handler; does txenable wait?         *)
  spwq, devq, owes,    (* the queues; does the device owe an ack?          *)
  image,               (* history: RAM as the guest wrote it               *)
  got,                 (* history: the last packet the device decoded      *)
  offered, given       (* history: what the messages of devq carry, before  *)
                       (* them what rxenable has read; the one delivered   *)

host == <<txbuffer, txd, data, node, rd>>
queues == <<spwq, devq, owes>>
history == <<image, got, offered, given>>
vars == <<swap, ram, host, pc, waiting, queues, history>>

----------------------------------------------------------------------------
Peek(mem, at, n) == [k \in 1..n |-> mem[at + k - 1]]
Poke(mem, at, bytes) ==
  [k \in DOMAIN mem |-> IF k \in at..(at + Len(bytes) - 1) THEN bytes[k - at + 1] ELSE mem[k]]

Zeros(n) == [k \in 0..(n - 1) |-> 0]
Little(w) == w[1] + 256 * w[2] + 65536 * w[3] + 16777216 * w[4]
LittleBytes(n) == <<n % 256, (n \div 256) % 256, (n \div 65536) % 256, n \div 16777216>>

(* A word as the guest writes it: one byte, and a number of 24 bits.  The  *)
(* number of a word of the guest, and of a word the host has swapped; it   *)
(* is a length, or the place in RAM a pointer points to.                   *)
Word(b, n) == <<b, n \div 65536, (n \div 256) % 256, n % 256>>
Number(w) == 65536 * w[2] + 256 * w[3] + w[4]
HostNumber(w) == w[1] + 256 * w[2] + 65536 * w[3]
Pointer(place) == Word(64, place)

(* Bits of one byte of a control word.                                     *)
Has(b, bit) == (b \div bit) % 2 = 1
With(b, bit) == IF Has(b, bit) THEN b ELSE b + bit
Without(b, bit) == IF Has(b, bit) THEN b - bit ELSE b

(* The link, and the number of links. *)
Id == 1
e_grspw_corenb == 4

Ack == 0
Data == 1
Time == 2

(* Mutant: the header is put after its length, on the sending side only. *)
SendPacketAfterLength(buf, id, pword, header, bytes) ==
  LET start == Poke(Poke(buf, 0, <<id, pword, Len(header)>>), 3, header)
  IN  Poke(Poke(start, 3 + Len(header), LittleBytes(Len(bytes))), 7 + Len(header), bytes)

(* grlib_mqgrspw_send_packet: the header is copied over its own length,    *)
(* and the byte after it keeps what an earlier message left there.         *)
SendPacket(buf, id, pword, header, bytes) ==
  LET start == Poke(Poke(buf, 0, <<id, pword, Len(header)>>), 2, header)
  IN  Poke(Poke(start, 3 + Len(header), LittleBytes(Len(bytes))), 7 + Len(header), bytes)

(* What the device puts in a queue; its own buffer's leftovers are zeros.  *)
Message(id, pword, p) ==
  LET size == PacketSize(p.header, p.data)
  IN  Peek(SendPacket(Zeros(size), id, pword, p.header, p.data), 0, size)

(* grlib_mqgrspw_receive_packet: the header from its length byte on.  What *)
(* is read past the message is left over from earlier ones: Unknown.       *)
Unknown == <<-1>>
Part(m, from, n) == IF from + n - 1 <= Len(m) THEN Peek(m, from, n) ELSE Unknown
ReceivePacket(m) ==
  LET size == Part(m, 4 + m[3], 4)
  IN  [header |-> Part(m, 3, m[3]),
       data |-> IF size = Unknown THEN Unknown ELSE Part(m, 8 + m[3], Little(size))]

----------------------------------------------------------------------------
Blank == [k \in Cells |-> 0]

Init ==
  /\ src = Blank /\ dest = Blank /\ old = Blank
  /\ len = 0 /\ byte = 0 /\ i = 0
  /\ ram = Zeros(RamSize) /\ image = ram
  /\ txbuffer = Zeros(C_MAXQ_SIZE)
  /\ txd = <<0, 0, 0, 0>> /\ data = <<>> /\ node = 0 /\ rd = FALSE
  /\ pc = "idle" /\ waiting = FALSE
  /\ spwq = <<>> /\ devq = <<>> /\ owes = FALSE
  /\ got = NoPacket /\ offered = <<>> /\ given = <<>>

(* read_leon3_ram and write_leon3_ram with e_true: swap some bytes, and    *)
(* use what came of them; then the temporary buffer is freed.              *)
SwapBytes(bytes) == Call([k \in Cells |-> IF k < Len(bytes) THEN bytes[k + 1] ELSE 0], Len(bytes))
Swapped == Peek(dest, 0, len)
HostWord(n) == Peek(dest, 4 * n, 4)
Freed ==
  /\ src' = Blank /\ dest' = Blank /\ old' = Blank
  /\ len' = 0 /\ i' = 0 /\ UNCHANGED byte

Running(p) == pc = p /\ byte = 0

SwapWords == SwapFour /\ UNCHANGED <<ram, host, pc, waiting, queues, history>>

----------------------------------------------------------------------------
(* The driver.  It fills buffers and a descriptor that is not in use; when *)
(* it has armed the receive descriptor it sets RE and RD.                  *)
PokeWords(mem, at, words) ==
  [k \in DOMAIN mem |->
     IF k \in at..(at + 4 * Len(words) - 1)
     THEN words[(k - at) \div 4 + 1][((k - at) % 4) + 1] ELSE mem[k]]

ArmTx(mem, header, bytes) ==
  PokeWords(Poke(Poke(mem, HeaderBuf, header), DataBuf, bytes), TxTable,
            << <<0, 0, TxEN + TxWR, Len(header)>>, Pointer(HeaderBuf),
               Word(0, Len(bytes)), Pointer(DataBuf) >>)

GuestArmTx(header, bytes) ==
  /\ Running("idle") /\ ~waiting /\ ~Has(ram[TxTable + 2], TxEN)
  /\ ram' = ArmTx(ram, header, bytes)
  /\ image' = ArmTx(image, header, bytes)
  /\ UNCHANGED <<swap, host, pc, waiting, queues, got, offered, given>>

ArmRx(mem) == PokeWords(mem, RxTable, << Word(RxEN + RxWR + RxIE, 0), Pointer(RxBuf) >>)

GuestArmRx ==
  /\ Running("idle") /\ ~waiting /\ ~Has(ram[RxTable], RxEN)
  /\ ram' = ArmRx(ram)
  /\ image' = ArmRx(image)
  /\ rd' = TRUE
  /\ UNCHANGED <<swap, txbuffer, txd, data, node, pc, waiting, queues, got, offered, given>>

----------------------------------------------------------------------------
(* grlib_comgrspw_txenable, after a write of a register while TE is set.   *)
TxRead ==
  /\ Running("idle") /\ ~waiting
  /\ SwapBytes(Peek(ram, TxTable, 16))
  /\ pc' = "txread"
  /\ UNCHANGED <<ram, host, waiting, queues, history>>

TxNothing ==
  /\ Running("txread") /\ ~Has(HostWord(0)[2], TxEN)
  /\ pc' = "idle"
  /\ Freed
  /\ UNCHANGED <<ram, host, waiting, queues, history>>

TxHeader == Peek(ram, HostNumber(HostWord(1)), HostWord(0)[1])
TxData == Peek(ram, HostNumber(HostWord(3)), HostNumber(HostWord(2)))
Fits == PacketSize(TxHeader, TxData) <= C_MAXQ_SIZE

TxSend ==
  /\ Running("txread") /\ Has(HostWord(0)[2], TxEN) /\ Fits
  /\ txbuffer' = SendPacket(txbuffer, Id, Data, TxHeader, TxData)
  /\ spwq' = Append(spwq, Peek(txbuffer', 0, PacketSize(TxHeader, TxData)))
  /\ txd' = HostWord(0)
  /\ waiting' = TRUE
  /\ pc' = "idle"
  /\ Freed
  /\ UNCHANGED <<ram, data, node, rd, devq, owes, history>>

(* mq_send refuses the message and CHECK_FATAL ends the program.           *)
TxFatal ==
  /\ Running("txread") /\ Has(HostWord(0)[2], TxEN) /\ ~Fits
  /\ pc' = "exited"
  /\ Freed
  /\ UNCHANGED <<ram, host, waiting, queues, history>>

(* Mutant: the control word is written back as the host has it. *)
TxControlUnswapped == LET w == [txd EXCEPT ![2] = Without(@, TxEN)] IN <<w[4], w[3], w[2], w[1]>>

TxControl == [txd EXCEPT ![2] = Without(@, TxEN)]

TxDisable ==
  /\ Running("txwake")
  /\ SwapBytes(TxControl)
  /\ pc' = "txwrite"
  /\ UNCHANGED <<ram, host, waiting, queues, history>>

TxWriteBack ==
  /\ Running("txwrite")
  /\ ram' = Poke(ram, TxTable, Swapped)
  /\ pc' = "idle"
  /\ Freed
  /\ UNCHANGED <<host, waiting, queues, history>>

----------------------------------------------------------------------------
(* The rx thread takes a message.                                          *)
Receives(pword) ==
  /\ Running("idle") /\ devq # <<>>
  /\ Head(devq)[1] < e_grspw_corenb /\ Head(devq)[2] = pword

(* A link there is none of: CHECK_FATAL ends the program.                  *)
RxFatal ==
  /\ Running("idle") /\ devq # <<>> /\ Head(devq)[1] >= e_grspw_corenb
  /\ pc' = "exited"
  /\ devq' = Tail(devq) /\ offered' = Tail(offered)
  /\ UNCHANGED <<swap, ram, host, waiting, spwq, owes, image, got, given>>

RxAck ==
  /\ Receives(Ack)
  /\ devq' = Tail(devq) /\ offered' = Tail(offered)
  /\ waiting' = FALSE
  /\ pc' = IF waiting THEN "txwake" ELSE "idle"
  /\ UNCHANGED <<swap, ram, host, spwq, owes, image, got, given>>

RxPacket == ReceivePacket(Head(devq)).data
RxNode == IF RxPacket = <<>> THEN node ELSE Head(RxPacket)

RxTake(pword) ==
  /\ Receives(pword)
  /\ devq' = Tail(devq)
  /\ node' = RxNode
  /\ UNCHANGED <<ram, txbuffer, txd, rd, waiting, spwq, owes, image, got>>

Drop ==
  /\ offered' = Tail(offered)
  /\ UNCHANGED <<swap, pc, data, given>>

(* The time code stays in g_rxdata; what SPWTIM makes of it is the matter  *)
(* of GrspwSim.                                                            *)
RxTime == RxTake(Time) /\ Drop

RxDiscard == RxTake(Data) /\ (~rd \/ RxNode # Ndr) /\ Drop

(* The receiver is on and the node address fits: the descriptor is read.   *)
RxRead ==
  /\ RxTake(Data) /\ rd /\ RxNode = Ndr
  /\ SwapBytes(Peek(ram, RxTable, 8))
  /\ data' = RxPacket
  /\ pc' = "rxread"
  /\ UNCHANGED <<offered, given>>

(* The descriptor is not enabled: RD is cleared.                           *)
RxNothing ==
  /\ Running("rxread") /\ ~Has(HostWord(0)[4], RxEN)
  /\ offered' = Tail(offered)
  /\ pc' = "idle"
  /\ data' = <<>> /\ rd' = FALSE
  /\ Freed
  /\ UNCHANGED <<ram, txbuffer, txd, node, waiting, queues, image, got, given>>

Truncated == Len(data) > RxMax
RxLength == IF Truncated THEN RxMax ELSE Len(data)

(* The bits recv_att and truncation set, then the length field of 25 bits. *)
RxFlag(b, bit, att) == IF bit \in att \/ (bit = RxTR /\ Truncated) THEN With(b, bit) ELSE b
RxFlags(b, att) ==
  LET set == RxFlag(RxFlag(RxFlag(RxFlag(b, RxTR, att), RxDC, att), RxHC, att), RxEP, att)
  IN  Without(set, 1)

(* Mutant: the length of the packet before it was truncated. *)
RxControlWholeLength(att) ==
  [LittleBytes(Len(data)) EXCEPT ![4] = Without(RxFlags(HostWord(0)[4], att), RxEN)]

(* The control word: the length deposited, EN cleared.                     *)
RxControl(att) ==
  [LittleBytes(RxLength) EXCEPT ![4] = Without(RxFlags(HostWord(0)[4], att), RxEN)]

RxDeliver(att) ==
  /\ Running("rxread") /\ Has(HostWord(0)[4], RxEN)
  /\ ram' = Poke(ram, HostNumber(HostWord(1)), Peek(data, 1, RxLength))
  /\ SwapBytes(RxControl(att))
  /\ data' = <<>>
  /\ given' = Head(offered)
  /\ offered' = Tail(offered)
  /\ pc' = "rxwrite"
  /\ UNCHANGED <<txbuffer, txd, node, rd, waiting, queues, image, got>>

RxWriteBack ==
  /\ Running("rxwrite")
  /\ ram' = Poke(ram, RxTable, Swapped)
  /\ pc' = "idle"
  /\ Freed
  /\ UNCHANGED <<host, waiting, queues, history>>

----------------------------------------------------------------------------
(* The device, at the other end of the queues.                             *)
PeerReceive ==
  /\ pc # "exited" /\ spwq # <<>> /\ ~owes
  /\ got' = ReceivePacket(Head(spwq))
  /\ spwq' = Tail(spwq)
  /\ owes' = TRUE
  /\ UNCHANGED <<swap, ram, host, pc, waiting, devq, image, offered, given>>

PeerAck ==
  /\ pc # "exited" /\ owes /\ Len(devq) < QMax
  /\ devq' = Append(devq, Message(Id, Ack, NoPacket))
  /\ offered' = Append(offered, <<>>)
  /\ owes' = FALSE
  /\ UNCHANGED <<swap, ram, host, pc, waiting, spwq, image, got, given>>

TimePacket(code) == [header |-> <<>>, data |-> <<code>>]

PeerSend(id, pword, p) ==
  /\ pc # "exited" /\ Len(devq) < QMax
  /\ devq' = Append(devq, Message(id, pword, p))
  /\ offered' = Append(offered, p.data)
  /\ UNCHANGED <<swap, ram, host, pc, waiting, spwq, owes, image, got, given>>

Next ==
  \/ SwapWords
  \/ \E header \in Headers, bytes \in Payloads : GuestArmTx(header, bytes)
  \/ GuestArmRx
  \/ TxRead \/ TxNothing \/ TxSend \/ TxFatal \/ TxDisable \/ TxWriteBack
  \/ RxFatal \/ RxAck \/ RxTime \/ RxDiscard \/ RxRead \/ RxNothing
  \/ \E att \in RecvAtt : RxDeliver(att)
  \/ RxWriteBack
  \/ PeerReceive \/ PeerAck
  \/ \E id \in {Id, e_grspw_corenb}, p \in PeerPackets : PeerSend(id, Data, p)
  \/ \E code \in PeerTimes : PeerSend(Id, Time, TimePacket(code))

Spec == Init /\ [][Next]_vars

----------------------------------------------------------------------------
Armed(mem, place, bit) == Has(mem[place], bit)
TxDone == Armed(image, TxTable + 2, TxEN) /\ ~Armed(ram, TxTable + 2, TxEN)
RxDone == Armed(image, RxTable, RxEN) /\ ~Armed(ram, RxTable, RxEN)

GuestPacket == [header |-> Peek(image, HeaderBuf, image[TxTable + 3]),
                data |-> Peek(image, DataBuf, Number(Peek(image, TxTable + 8, 4)))]

(* When txenable has given a descriptor back, the device has decoded the   *)
(* very packet the guest put in RAM: through both byte orders and the      *)
(* message.                                                                *)
PacketArrives == TxDone /\ WellFormed(GuestPacket.header) => got = GuestPacket

(* "the header content" is what grlib_mqgrspw_receive_packet returns       *)
(* (grlib_mqgrspw.c:142): the header the guest gave its packet.            *)
HeaderArrives == TxDone => got.header = GuestPacket.header

(* When rxenable has given a descriptor back, RAM holds the packet the     *)
(* device sent, as far as SPWRXL allows, its length in the byte order of   *)
(* the guest, TR if it was cut, and the WR and IE the guest had set.       *)
GuestGetsPacket ==
  RxDone =>
    LET flags == ram[RxTable]
        size  == IF Len(given) > RxMax THEN RxMax ELSE Len(given)
    IN  /\ Peek(ram, RxBuf, size) = Peek(given, 1, size)
        /\ Peek(ram, RxTable, 4) = Word(flags, size)
        /\ Len(given) > RxMax => Has(flags, RxTR)
        /\ flags % 16 = RxWR + RxIE

(* The engines write nothing into RAM but the EN bit of a transmit         *)
(* descriptor, the control word of a receive descriptor and as much of its *)
(* buffer as SPWRXL allows.                                                *)
RamKept ==
  \A a \in DOMAIN ram : ram[a] # image[a] =>
    \/ a = TxTable + 2 /\ ram[a] = Without(image[a], TxEN)
    \/ a \in RxTable..(RxTable + 3)
    \/ a \in RxBuf..(RxBuf + RxMax - 1)
=============================================================================
