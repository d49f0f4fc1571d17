# GRSPW simulator: TLA+ models and proofs

The repository is a QEMU plugin for the Leon3 that simulates Gaisler's GRSPW
SpaceWire interface: four links ("cores") with memory-mapped registers and DMA
descriptor tables in guest RAM, joined by two POSIX message queues to a remote
application that plays the device at the other end of the links. This directory
models its concurrent core and its register and descriptor logic, checks them
with TLC and proves their main invariants with TLAPS.

File names below are those of `src/grspw/` without the prefix `grlib_`.

## The system

| Part | State | Operations | Interacts with |
|---|---|---|---|
| APB glue (`apbgrspw.c`) | four cores in one device | MMIO read (under `txthread_mutex`), MMIO write (register write, then `txenable`), init; its reset does nothing | called by the guest on the vCPU thread |
| Register file (`reggrspw.c/.h`) | SPWCTR, SPWSTR, SPWNDR, SPWTIM, SPWCHN, SPWRXL, SPWTXD, SPWRXD, and SPWCLK, SPWKEY, SPWTDR that decide nothing | one write handler per register, reset by the RS bit, read | both threads read and write it, without a lock |
| Transfer engines (`comgrspw.c/.h`) | `txd_cur`, `rxd_cur`, `txd_map`, `rxd_map` per link | `txenable` (vCPU), `rxenable` and `rxtimecode` (rx thread) | guest RAM, registers, interrupt line, queues |
| Core (`coregrspw.c`) | rx thread, `txthread_mutex`, `txthread_wait_txack` | loop over `/devq`; `txwaitack`; lock and unlock | one condition variable for four links |
| Message queues (`mqgrspw.c/.h`) | `/spwq` and `/devq`, 10 messages each | blocking send and receive of packet, ack and time code | the peer process |
| RAM access, byte swapping, bit helpers (`utilgrspw.c`) | none | read and write RAM, `endianness_swap`, `checkbit`... | |
| Peer device | the ack it owes | takes a message, acknowledges data, sends data and time codes | external; only its queue API is in the repository |
| Logging, headers, test program | | | nothing depends on them |

What makes it hard. A transmission runs on the guest's own thread and stops it
until the peer's ack has come back through the other thread. No lock protects
the registers: a read-modify-write of a word both threads write can lose either
update. The condition variable has neither a predicate nor the mutex around its
signal, and is shared by all links. Two indices walk each descriptor table, the
guest-visible register's and the device's own. `PROJECT.json` lists these hazards at
their lines.

What makes each part correct:
- core and queues: packets and acks of different transmissions never mix; a
  blocked thread is blocked on something that will happen;
- transfer engines: each armed descriptor is used exactly once, in the order it
  was armed, and given back after its data;
- register file: status bits are cleared only by a guest that asks for it; the link
  state of SPWSTR and the link bits of SPWCTR agree; the table registers select descriptors inside the tables;
- message layout and RAM access: each side finds the packet the other one sent,
  and nothing else in RAM changes.

## Modules

| Module | What it is |
|---|---|
| `GrspwRegs` | registers as sets of bits, SPWTIM as a number, the step from one descriptor to the next; masks are those of `reggrspw.h` |
| `GrspwSim` | the two threads, the queues and the device, interleaved, with restarts |
| `GrspwDevice` | one link, each handler one action: reset, every register the handlers treat specially, truncation, and the overlap of the transmit descriptor array with the indices that follow it |
| `GrspwSwap` | the loop of `endianness_swap`, for every length |
| `GrspwPath` | a packet as bytes, from guest RAM through descriptors and messages to the device and back; the loop of `GrspwSwap` is its subroutine |
| `StopAndWait` | abstract: what `GrspwSim` promises about packets and acks |
| `DescriptorQueue` | abstract: what `GrspwDevice` promises about each descriptor table |
| `MCGrspwSim`, `MCGrspwDevice`, `MCGrspwPath` | what the guest writes and what the peer sends in each run |
| `GrspwSimProofs`, `GrspwSimCountProofs`, `GrspwSimLinkProofs`, `GrspwDeviceProofs`, `GrspwRingProofs`, `GrspwSwapProofs`, `GrspwPathProofs` | theorems and proofs |
| `GrspwPathLemmas` | what the byte operators of `GrspwPath` do, for `GrspwPathProofs` |

`GrspwRegs` is extended by all three detailed models. `GrspwSim` has the threads and
forgets the tables and the bytes, `GrspwDevice` has the tables, `GrspwPath` the bytes; each
assumes of the others only what a run there shows (`CursorsAgree` in `GrspwSim`; the
one-packet-at-a-time handshake in `GrspwDevice` and `GrspwPath`).

Definitions that a comment calls a mutant are plausible mistakes in the
definition that follows. They are not part of any specification; each shows
that some property would notice.

### GrspwSim

The vCPU thread is `vpc` with its locals (`vlink`, `todo`, `vbits`, `vnum`, `vidx`),
the rx thread is `rpc` with its own (`rmsg`, `rop`, `rbits`, `ridx`). A write handler is
a list `todo` of operations on register words (`WriteOps`). An operation on a word that
both threads write (SPWSTR, SPWCHN, SPWTIM) is two steps, a load and a store;
on SPWCTR and SPWNDR, which only the vCPU thread writes, it is one. A tick reads SPWTIM twice,
to increment it and to send it; the second value is in `vnum` while `mq_send` waits for room.

| Code | Actions |
|---|---|
| `apbgrspw_write`, `reggrspw_write_*` | `GuestWrite`, `OpLoad`, `OpStore`, `OpCtr`, `OpSet`, `OpTimeLoad`, `OpTickStore`, `OpTimecode` |
| `apbgrspw_read` | `GuestRead`, `ReadLocked` |
| `comgrspw_txenable` | `TxEnable`, `TxFetch`, `TxSend`, `TxWait`, `TxRelock`, `TxFinish`, `TxStop` |
| `coregrspw_rxthread` | `RxReceive`, `RxSignal` |
| `comgrspw_rxenable` | `RxCheckEnabled`, `RxCheckAddress`, `RxCheckAvailable`, `RxFetch`, `RxCopy`, `RxLoad`, `RxStore`, `RxGiveBack` |
| `comgrspw_rxtimecode` | `RxTimeCompare`, `RxTimeStore`, `RxLoad`, `RxStore` |
| peer | `DevReceive`, `DevAck`, `DevSend` |

Abstractions: a packet is its first byte (the address) and one number; the
table registers hold what `txd_cur` and `rxd_cur` hold, because the driver programs
them once, with index 0, before the model starts (`GrspwDevice` has them apart, and
`CursorsAgree` is the fact used here); the guest rings stop short of transmit
index 63, where `GrspwDevice` shows what goes wrong; no write has RS. SPWTIM counts modulo
`TimeCodes`, 64 in the code and 4 in the runs: nothing depends on the number, only on the wrap. The uninitialised
`recv_att.ep` is arbitrary from the start. `pthread_cond_wait` releases the mutex
even when its caller does not own it, which is what a default mutex does. The guest
touches only descriptors whose EN is 0. `txowed` and `rxowed` are history variables:
descriptors armed minus descriptors used.

Faults, each switched on by a constant:
- `DevRestart` (`DeviceRestarts`): the device's process starts again and connects to the
  queues as they are. It forgets the ack it owes; messages in the queues stay.
- `QemuRestart`: everything of QEMU and the guest is as in `Init`, the queues keep their
  messages, because `mq_open` without `mq_unlink` finds the old queue.
- `TxSpuriousWakeup`: the wait returns without a signal, which POSIX allows.

The last two are what can leave a message of an earlier transmission behind; together they
happen at most `MaxStrays` times (`strays` counts them).

`SW == INSTANCE StopAndWait` maps the state to one token (the packet in `/spwq`, the ack the
device owes, the ack in `/devq` or in the rx thread's hands) and to the link the vCPU thread is
busy with. Each step of `GrspwSim` is then a step of that abstract sender or a stutter.

### GrspwDevice

The registers are one record; the handlers of `reggrspw.c` are functions from
such records to such records with the names they have in the code.
`txenable`, `rxenable` and `rxtimecode` are whole actions, so a transmission's ack comes
before anything else. The table size, 64 and 128 in the code, is a constant.
The driver arms descriptors in ring order, sets WR in the last one when
`WrapBit` says so, gives each direction a table once after a reset and then starts at the
index it wrote. A buffer address that lands on `rxd_cur` indexes `rxd_map` far outside it:
`crashed` is the end of such a run.

Because its handlers are atomic, this module says nothing of what another thread may change
between two steps of one: link state and link bits, status bits and interrupts. The first two are
properties of `GrspwSim`; the interrupt line is not modelled. What the module is for, the walk through the tables,
is touched by one thread in each direction.

`TxTable` and `RxTable` are instances of `DescriptorQueue`: the indices armed and not used, in
order, and the set of indices whose EN the driver finds set. The abstract queue is used from
its head only, one descriptor at a time, and no descriptor is given back unused.

### GrspwSwap and GrspwPath

`GrspwSwap` has the parameters and locals of `endianness_swap` as variables and one action for
each branch of its loop. A two-byte tail goes wrong in the code (`utilgrspw.c:59` writes
`dest[i + 2]`); `WordsSwapped` is about all other lengths and `TwoByteTail` about that one.
The transfer engines swap 16, 8 and 4 bytes, so `GrspwPath` runs the loop with `SwapFour` only,
and the tails are covered by the proof alone.

`GrspwPath` has one transmit and one receive descriptor, both with WR.

| Code | Actions |
|---|---|
| `comgrspw_txenable` | `TxRead`, `TxNothing`, `TxSend`, `TxFatal`, `TxDisable`, `TxWriteBack` |
| `coregrspw_rxthread`, `comgrspw_rxenable` | `RxAck`, `RxTime`, `RxFatal`, `RxDiscard`, `RxRead`, `RxNothing`, `RxDeliver`, `RxWriteBack` |
| `endianness_swap` | `SwapWords` |
| `mqgrspw_send_packet`, `mqgrspw_receive_packet` | the operators `SendPacket`, `ReceivePacket` |
| guest, peer | `GuestArmTx`, `GuestArmRx`; `PeerReceive`, `PeerAck`, `PeerSend` |

A handler runs by itself except during the wait for the ack, when the rx thread runs.
`txbuffer` keeps what earlier messages left in it, and `node` is `g_rxdata[0]`, by which an empty
packet is accepted: the first byte of an earlier packet, or a time code. `rd` says whether RE and RD
of SPWCHN are set: the driver sets both when it has armed the receive descriptor, and a packet that finds the
descriptor not enabled clears RD. A receiver that is led past the end of a message reads `Unknown`. The
uninitialised `recv_att` is any of the sets `RecvAtt` of the four flags it can set in a descriptor.
The driver has its tables and its three buffers (`HeaderRoom`, `DataRoom` and `RxMax` bytes) one behind
the other in RAM, which starts at 0x40000000, and gives a descriptor no more than fits its buffer.
`RxMax` is a multiple of four, as the mask of SPWRXL makes it. `image` is RAM as the guest wrote it,
`offered` what the messages of `/devq` carry, with the packet in the rx thread's hands at its front,
and `given` the packet last delivered. The peer
knows the layout: the headers it sends, which QEMU receives and never uses, carry their length in their
first byte. The temporary buffer of a swap is blank once it is freed. `CHECK_FATAL`
ends the program (`exited`), so the runs of this module do not check for deadlock.

## Runs

| Run | Instance | Shows |
|---|---|---|
| `SimTx` | 2 links, rings and queues of 2, device restarts | `AckHandshake`, `HeldDescriptors`, `TxExactlyOnce` and the refinement of `StopAndWait`, with time codes in between |
| `SimRx` | 1 link, ring of 2, queues of 1; LS, LD with TI, and writes of SPWTIM | `RxExactlyOnce`, `RxBufferComplete`, `HeldDescriptors`, `TypeOK`, with a handler blocked on a full queue; `LinkLostToStaleStore` |
| `SimLive` | 1 link, rings and queues of 1, one stray message, device restarts, writes of SPWNDR, fairness | `RxNeverStalls`, `WriteReturnsOrWaits`, `AckEndsWait`, `TxExactlyOnce`, `StraysBounded` |
| `DevRing` | tables of 4, rings of 3 with WR | `TxInOrder`, `RxInOrder`, `CursorsAgree`, and the two refinements of `DescriptorQueue` |
| `DevLink` | tables of 2 used to the last descriptor, no WR, all combinations of RS, LS, LD, TI | `DeviceTypeOK`: the table registers stay inside the tables, wherever the overlap takes the indices |
| `Path` | headers of 0, 2 and 3 bytes, data of 0 and 4, SPWRXL 4, messages of at most 13 bytes, a time code equal to the node address | `PacketArrives`, `GuestGetsPacket`, `RamKept`, `WordsSwapped` |

The bounds. Two links are enough to confuse an ack of one with a wait of the other:
the code never tells more than two apart. A ring of two has a current
descriptor and another one, a ring of one wraps at each step, and a queue of one is full
after one message. Rings shorter than the table separate the wrap by WR
from the wrap by index. Time codes need only the neighbourhood of their wrap, so four of them do.
One stray message (`MaxStrays` 1) is enough for an old ack to meet a new wait; the stray
is what the bound limits, the number of transmissions is not limited. In `Path` a packet
fits SPWRXL or is one byte too long, and a message of 14 bytes is one too long for the queue.
Deadlock is checked in every run but `DevLink`, whose `crashed` ends a behaviour, and the two
of `GrspwPath`. In the Sim
runs it cannot happen, because the peer can always send something: a guest that
has stopped for good is a matter of liveness.

Fairness (`SimLive`, `SimLostAck`, `SimReadHangs`): weak fairness of the vCPU
thread's steps inside a handler and of the rx thread (the host schedules both), and
of the peer's receive and ack (it serves its queue). The guest need never
act, a wait need never end by itself, no fault need happen, and the peer need never send
anything of its own.

Runs that show a disagreement between the code and what it says:

| Run | Property violated | What happens |
|---|---|---|
| `SimLostAck` | `EveryAckContinues` | the ack is signalled before the wait starts; the guest stops |
| `SimReadHangs` | `ReadReturns` | after the first transmission a register read locks a mutex its own thread holds |
| `SimLostFlag` | `ClearBitsKept` | a write handler stores back a value from before the rx thread set a flag |
| `DevReset` | `TxInOrder` | `txd_cur` survives a reset and takes SPWTXD past armed descriptors |
| `DevOverlap` | `TxInOrder` | descriptor 63's length and address overwrite the indices |
| `PathHeader` | `HeaderArrives` | the first byte of a header is taken for its length |

`AckHandshake` and `EveryAckContinues` together say precisely what is wrong with the
missing predicate: an ack is never taken for another transmission's, it is only lost.
With stray messages `AckHandshake` no longer holds, and should not: an old ack ends a new wait.
`StraysBounded` is what remains, one stray message for each fault and no more, and `TxExactlyOnce`
holds all the same: every descriptor that is given back was sent.

`SimLostFlag` and `LinkLostToStaleStore` are about the same unlocked read-modify-writes. The link state lives in the word
the rx thread sets TO and EE in (`comgrspw.c:184`, `283`), and Link Start and Link Disable change it
and the LS and LD bits in separate steps (`reggrspw.c:92-95`, `101-104`). So the two do come apart: the rx thread loads
SPWSTR, the guest disables the link, and the store brings the running state back. `LinkLostToStaleStore` says that nothing else
can do it: what the remaining steps of a write will leave (`CtrAfter`, `StrAfter`) is a link
in step after every action but such a store, also when LS, LD and TI are in one write. `SimRx` writes
LS, and LD together with TI; the proof covers every combination.

What the repository says of its register bits and its code does not do, without a run of its own, because one line decides it:
- bits of SPWCTR "can be set with a '1' or reset with a '0'" (`reggrspw.h:49`; `reggrspw.c:230`), but the word stored is the
  union of the old one and the new one (`reggrspw.c:68-70`);
- LS and LD are bits that "can only be reset by a spacewire GRSPW reset" (`reggrspw.h:47`; `reggrspw.c:231`), but
  each clears the other (`reggrspw.c:95`, `104`);
- RI is the receive interrupt enable (`reggrspw.h:164`), but `rxenable` looks at TI (`comgrspw.c:215`).

The models follow the code in the first two and leave the interrupt line out.

## Proofs

All theorems hold for every value of the constants that satisfies the assumption of
its model: `SimAssumption` and `DeviceAssumption` (finite or infinite sets of links, any queue bound,
any ring within the tables, any set of guest writes and device messages), `SwapAssumption`
(any length) and `PathAssumption` (any packets that fit the driver's buffers, a header buffer of at most 255 bytes
as its length has eight bits, other lengths within 24 bits, device packets that fit the queue and whose header
carries its length). The theorems of `GrspwRingProofs` assume the driver described there.

`GrspwSimProofs`:
- `TypeCorrect`: `Spec => [](TypeOK /\ HeldDescriptors)`. Neither is inductive without
  the other: the cursors stay inside the driver's rings because the index that decides the
  wrap was taken from the cursor itself, and that is `HeldDescriptors`. `DescriptorsHeld` states that half by itself.
- `StopAndWait`: for `MaxStrays = 0`, `Spec => []AckHandshake`, whether or not the device restarts. The property is
  stated by positions in the queues so that it is its own strengthening, with type
  correctness: each action moves the one token (packet, owed ack, ack, ack being handled)
  to its next place.
- `Refinement`: for `MaxStrays = 0`, `Spec => ImplementsStopAndWait`, one lemma per action that
  moves the token, from `StopAndWait` and `TypeCorrect` as invariants.
- `BuffersComplete`: `Spec => []RxBufferComplete`, with `BufferFilled` as strengthening:
  between the copy and the write-back the buffer holds the packet, whatever
  the vCPU thread does meanwhile.

`GrspwSimCountProofs` has the counting invariants, in every interleaving and with every fault. Each
is inductive with `TypeOK` and `HeldDescriptors`; the lemmas say what one action does to a cardinality.
- `SentOnce`: `Spec => []TxExactlyOnce`, and `ReceivedOnce`: `Spec => []RxExactlyOnce`. Four kinds of action
  count in each: arming, the hand-over (send or copy), the write-back, and a restart. That the
  write-back clears a descriptor that is still enabled is `HeldDescriptors`.
- `FaultsLeaveOneEach`: `Spec => []StraysBounded`. `StraysPaid` is the argument: an action that puts a
  message under way starts a wait, and one that gives up a wait counts a stray.

`GrspwSimLinkProofs` proves `LinkLostOnlyToStaleStore`: `Spec => LinkLostToStaleStore`. `SetAfter` is the value a
list of operations leaves in a bit. `FirstDone` says that doing the first of them leaves the same bit in the end, so the steps of a
write do not change `CtrAfter` and `StrAfter`; `WriteInStep` that every list of `WriteOps` leads from a link in step to a link in
step, whatever bits of SPWCTR it writes; and a store of the rx thread whose copy of the link state is not out of date changes
nothing they look at. `LinkHeld` is the invariant these need: the step under way is the first operation still to be done, and the rx thread's
own operations name no bit of the link state.

`GrspwDeviceProofs` proves `DeviceTypeCorrect`: `Spec => []DeviceTypeOK`, from one lemma about each register
handler. It is inductive as it stands: the table registers stay inside the tables even
after the overlap has overwritten the device's indices.

`GrspwRingProofs` is about a driver (`Driver`) that sets WR in the last descriptor of its ring, keeps its
transmit ring shorter than the table and never writes RS. The runs `DevReset` and
`DevOverlap` show that the last two are needed. The inductive invariant `RingInv` says for each direction
that the driver's record of its ring starts at the descriptor the table register selects, follows the
ring without repetition and names exactly the enabled descriptors (`Ring`), that WR is where the ring
ends, and that the device's index is the register's. From `RingArm` and `RingUse`, lemmas about any such record:
- `TxUsedInOrder`, `RxUsedInOrder`: `TxInOrder` and `RxInOrder`;
- `CursorsStayTogether`: `CursorsAgree`;
- `IndicesStayInside`: `rxd_cur` never leaves `rxd_map` (`~crashed`);
- `TxTableImplementsQueue`, `RxTableImplementsQueue`: each table implements `DescriptorQueue`.

`GrspwSwapProofs` proves `SwapCorrect`: for buffers of every length, every group of four bytes and
a tail of one or three is reversed and nothing else is written; a tail of two loses its
last byte to the place behind the buffer. The loop invariant `SwapInv` says that the first `i` bytes
are in place and the others are as before.

`GrspwPathProofs` proves one inductive invariant of the byte-level model, `PathInv`, with one lemma
per action:
- `PacketReachesDevice`: `Spec => []PacketArrives`;
- `PacketReachesGuest`: `Spec => []GuestGetsPacket`;
- `RamIsKept`: `Spec => []RamKept`;
- `EnginesSwapWords`: `Spec => [](WordsSwapped /\ len % 4 = 0)`: at no call is there a tail of two bytes;
- `LengthFirstHeadersArrive`: if each of the driver's headers begins with its own length, `HeaderArrives` holds, and
  what the device has decoded is a header and data the driver was asked to send (`Meant`: arming a descriptor leaves them in the buffers it names).

None of these is inductive. `PacketArrives` speaks of the moment a descriptor is given back, and
why it holds then began when it was armed: as long as EN is set in RAM, the words of the table are those of
`image` and name the driver's buffers, whose bytes are those of `image` too (`TxArmed`); the bytes a call of the swap was given
are those of RAM at the time, which nobody writes before the call ends (`Calls`, with `SwapInv` of `GrspwSwapProofs`);
from the sending to the write-back the descriptor stays
armed and `txd` is its control word (`TxHeld`); at most one packet is under way, its message decodes to
the guest's packet, and once it is decoded `got` is that packet (`Handshake`). On the other side each message of `/devq` decodes to its entry of
`offered` (`Messages`), an enabled receive descriptor names the receive buffer (`RxArmed`), and
between delivery and write-back the buffer holds the packet while the control word is in the
swap's hands (`RxPending`). `GrspwPathLemmas` has the facts about the operators: what a write to RAM
leaves alone, that a number survives both byte orders, what the bit operations do to the other bits of a byte, and that
`ReceivePacket` undoes `SendPacket` for every length, whatever the buffer held before. The last needs a
header whose first byte is its length, hence `WellFormed` in `PacketArrives`; `PathHeader` shows a header
without it.

Only model-checked: the liveness properties `RxNeverStalls`, `WriteReturnsOrWaits` and `AckEndsWait`, which
are out of the prover's reach. Every safety property, action property and refinement that a passing run checks is
stated by a theorem.

## Not modelled

- RS and the table registers during traffic: in `GrspwDevice` a reset finds no other handler under
  way. In `GrspwSim` a reset between the steps of the rx thread would take `CursorsAgree` away,
  on which its model of the tables rests;
- the decode of an MMIO address into core and register, two masks of one expression;
- the pulses of the interrupt line (`comgrspw.c:107`, `218`, `289`): they change nothing of the repository's own. In the code a
  pulse comes some steps after its status bit is set, and a racing read-modify-write may take the bit away in
  between; that it can is what `SimLostFlag` shows;
- several descriptors and both threads at the level of bytes: `GrspwPath` has one descriptor in each
  direction and no handler beside another;
- SPWCLK, SPWKEY, SPWTDR: stored and read back;
- `coregrspw_txthread` and `txwakeup`: never started, never called; closing and unlinking the
  queues, which follows the rx thread's endless loop;
- the no-spill branches of `rxenable`: they only warn;
- logging, QEMU registration, the hand test.

## What is left

1. `GrspwSim` with table registers and device indices apart, so that RS may come at any moment.
2. Several descriptors in `GrspwPath`.
