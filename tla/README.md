# libTcIPCCtrl in TLA+

libTcIPCCtrl is a C library (`src/src`, `src/include`) through which a program
exchanges messages with another processor over an IPC character device.  A
message is two 16-bit commands and up to 512 bytes of data; on the line it is a
packet with a start code, a length and a CRC.  This directory holds the TLA+
model of the library: the modules, what TLC checks about them, and what is
proved with TLAPS.  Paths below are relative to the directory that holds `src`
and `tla`.

## 1. The system

```
 msg_send (any thread)                          IPC_ReceivedData_cb
   | tc_package_send                                   ^
   v                                                   | tc_parser_decoder
 write ring --WriteThread--> device --ReadThread--> read ring --ParserThread--> parserHandle
```

| component | state | operations | made correct by |
|---|---|---|---|
| ring buffer, `tc-buffer.c` | `Head`, `Tail`, bytes, a mutex | push, overwriting push, pop, flush, sizes, one-byte forms | being a bounded FIFO queue; an overwriting push keeps the newest bytes |
| packet format and checksum, `tc-ipc-protocol.h`, `tc-package.c`, `tc-crc.c` | none | build a packet, CRC16 | both ends agreeing on layout and CRC; damage being noticed |
| decoder, `tc-parser.c` | buffer of 1024 bytes, `offset`, `dataSize`, state, header | free space, address, push size, decode | delivering what was sent, in order, whatever the portions; staying inside its bytes; resynchronising |
| parser thread, `tc-parser-thread.c` | run flag, thread | fetch from the read ring, decode; start, stop, init, release | every byte of the ring reaching the decoder once and in order |
| read thread, `tc-read-thread.c` | run flag, thread, 520 bytes | read from the device, push; start, stop | losing bytes only when the ring is full |
| write thread, `tc-write-thread.c` | run flag, thread, 512 bytes | pop, write to the device; start, stop | every byte popped reaching the device, in order |
| read/write control, `tc-rw-control.c` | file descriptor, rings, mutexes | init, release, write data, read data, available size | rings used under their mutex |
| public interface, `tc-ipc-ctrl.c` | the handle | open, send, close, debug level | no thread outliving the handle |
| device wrapper, `tc-ipc-dev.c` | none | open, set parameters, status, read, write, close | (forwards to the driver) |
| logging, `tc-ipc-ctrl-log.h` | debug level | print | (no other state depends on it) |

Interaction.  Four kinds of threads meet in the two rings: senders and
`WriteThread` in the write ring, `ReadThread` and `ParserThread` in the read
ring.  Each ring has a mutex, but the code takes it only for some accesses: all
pops and all pushes of the senders, and the *overwriting* push of `ReadThread`.
The sizes (`tc_buffer_data_available`, `tc_buffer_free_space`) are read without
it by `WriteThread`, `ParserThread` and `ReadThread`, and `ReadThread`'s plain
push takes no lock.  The parser calls the user's callback in its own thread.
(`tc_ipc_control_init` passes the initialised mutexes by value into the rings;
the platform's mutexes are plain memory, so the copies work and the model has
one mutex per ring.)

Hard behaviours: decisions taken before the lock and used under it; pushes
without the lock next to pops with it; rings that overflow at arbitrary byte
boundaries, so packets arrive without their head or tail; portions that cut
packets; a decoder state that outlives the bytes it describes; length fields of
16 bits in a buffer of 1024 bytes; writes the device takes in part or not at all,
after their bytes have left the ring; and start, failure and stop of three
threads over one handle, also from the callback that one of them runs.
`PROJECT.json` lists each at its line under "hazards".

## 2. Modules

| module | what it is |
|---|---|
| `TcBuffer` | the position arithmetic and two-part copies of `tc-buffer.c`, as operators |
| `ByteQueue` | the abstract specification of a ring: a bounded FIFO queue of bytes |
| `RingBuffer` | one ring used by one thread at a time, one action per function |
| `Protocol` | packet layout, the packet `tc_package_send` builds, and the messages it takes (`Sendable`) |
| `TcCrc`, `CrcCheck` | `tc_CRC16` with its table; a state machine that runs it next to the bitwise division, and on a damaged copy of the message |
| `Parser` | parser thread and decoder, the read ring being a FIFO queue |
| `ReceivePath` | `ReadThread` and `ParserThread` on the read ring, one action per shared access |
| `SendPath` | senders and `WriteThread` on the write ring, one action per shared access |
| `ByteChannel` | the abstract specification of the sending side: a queue before the line that may lose its oldest bytes and the rest of a write |
| `ByteStream` | the abstract specification of the receiving side: a queue behind the line that a forced push fills with the newest bytes |
| `EndToEnd` | messages through write ring, line and read ring into the decoder of `Parser`, each thread's turn one action |
| `Lifecycle` | one handle: open, close, failures, the three threads and the callback |
| `TcBufferProofs`, `RingBufferProofs`, `ParserProofs`, `SendPathProofs`, `ReceivePathProofs`, `EndToEndProofs`, `LifecycleProofs`, `CrcProofs` | the theorems (section 5) |
| `MC*` | the instances TLC checks |

How they fit together.  `RingBuffer`, `ReceivePath` and `SendPath` use the same
operators of `TcBuffer`: the first applies a C function in one step, which is
justified where the function runs alone or under the mutex, the others split it
at its shared accesses.  `Parser` replaces the read ring by the queue that
`RingBuffer` implements; `EndToEnd` replaces the sending side by the channel
that `SendPath` implements (its `Send` is `Accept` and its `Write` is `Take`
with `Transmit`, the ready device being a matter of when), and between it and
the decoder of `Parser` it has the line, a stream of bytes, and the read ring.
In `Lifecycle` a turn of a thread is one step, and of what it moves only the
number of bytes in the write ring is kept.

### RingBuffer
Variables `head`, `tail`, `pBuffer` are the fields of `TC_RINGBUF`; `result` is
what the last function returned and the bytes it gave its caller.  Actions carry
the names of the functions (`PushBuffer` is `tc_push_buffer`, and so on);
`WriteData` is `tc_ipc_write_data`, which chooses between the two pushes under
the mutex.  The write ring sees blocks of up to 520 bytes, the ring has 16384;
`BlockAssumption` asks only that a block is smaller than the ring.
`FlushByte` is given sizes up to `MaxBufferSize`: beyond that the code's single
modulo clips by chance; no caller exists.  `tc_push_one_byte_overwrite` has no
caller either.  It increments `Head` without the modulo (`tc-buffer.c:73`), and
the lemma `OneByteOverwriteLeavesBuffer` shows that it takes `Head` out of a ring
of any size; it is kept out of `Spec`, so that this defect does not hide the
behaviour of the functions the library uses.

### Parser
`data`, `offset`, `dataSize`, `parserState`, `parserData` are the fields of
`parserHandle`.  `Fetch` is the turn of `ParserThread` up to the call of the
decoder (available size, free space, pop, `tc_parser_push_size`); each branch of
the decoder's loop body is one action with the loop's condition as its guard
(`InLoop`); `Compact` is the code behind the loop.  `parserData.data` always
points at `inBuffer[9]` when it is used and is not a variable.
`ipc_parser_handle_init` leaves `parserData` uninitialised; it is written in
state Hader before any state reads it, so its initial value is immaterial.
What the line brings is chosen in the initial state: `traffic.chunks` are the
portions `ReadThread` reads and `traffic.sent` the messages behind them;
`WholeAssumption` says what traffic of kind "whole" is: each portion one packet
with noise before it in which no packet seems to start.
`delivered` collects the messages given to the callback.
`BacklogFits` says that a turn of `ParserThread` can fetch all the read ring
holds.  It is no invariant, only a condition under which the order of delivery
is shown: the rings have 16384 slots and the decoder's buffer 1024, so a parser
thread that has fallen behind fetches a part of a packet, and the next fetch
destroys it (`RemainderKept`, section 4).
Three 16-bit casts are kept (`inBufferLen`, `crcOffset`, and the length field
itself); the model assumes only that the buffer is smaller than 2^16.

### ReceivePath
The device yields the bytes 1, 2, 3, ...; a byte's value tells its place.  Each
thread is a sequence of accesses: `ReadThread` reads, checks the space without
the lock, then pushes without the lock (`Push`) or overwrites under it
(`Overwrite`), and its stores to the bytes, to `Tail` and to `Head` are actions
of their own; `ParserThread` loads `Head`, loads `Tail`, takes the lock, pops
(copy, then store of `Head`) and unlocks.  `StoresInOrder` says whether a thread
sees the stores of the other in program order; the code has no barrier on the
unlocked push, so both are checked.  The copies of one `memcpy` pair are one
action: between two threads that keep to disjoint slots this loses nothing, and
that they keep to them is what `NoTornPop` and `LossOnlyByOverflow` show.
`Held` is the ring as the push under way will leave it, without the bytes the
pop under way has copied: the value of the abstract queue of `ByteStream`.
`Room` is the set of values `tc_parser_freeSpace` takes.  A room of 0 is left to
`Parser`, where it is reached by the decoder's own doing.

### SendPath
Bytes are numbered in the order in which the senders get the mutex of the ring.
`WriteData` is `tc_ipc_write_data` up to its copy, `StoreTail` and `StoreHead`
are its stores in either order (`WriteThread` may see them so), `Unlock` gives
the mutex back; which thread sends, and how many wait, makes no difference.
`WriteThread` loads `Head`, loads `Tail` and fixes the size of its pop
(`LoadTail`), asks for the status, pops under the mutex, and writes.  `Write`
chooses how many bytes the device takes: all, some or none; the code only logs
the difference.  A pop that failed would leave `writeBufs` as it was, and the
model has it so; that it never happens is `PopNeverFails`.  `line`, `dropped`
and `unwritten` are history.  `Held` is the ring as the push under way will
leave it, the value of the abstract queue.

### EndToEnd
One action per turn of a thread.  `Send` puts a packet, made by `Package`, into
the write ring; of what does not fit the newest bytes stay.  `Write` is a turn of
`WriteThread`: `PopSize` bytes leave the ring, and the device takes any number
`n` of them.  What it takes goes to the end of `wire`.  `Read` is a turn of
`ReadThread`: the read returns any number of the bytes at the front of `wire`, up
to `ReadSize`.  Nothing ties reads to writes, so a read cuts packets no write
cut, and may hold the ends of several writes.  It is an overwriting push when the
read ring is full.  `Take` is a turn of `ParserThread`, `Fetch` of `Parser`: it
may come between any two reads, or late, and then it fetches as much as the
decoder has room for, which cuts packets too.  `Decoder` is a step of the decoder.

A byte under way is a record of its message and its position in the packet;
`arrived` is the read ring in these terms, and `ring` of `Parser` the same with
the bytes' values.  The histories are `lost` (the messages of which a ring dropped,
or the device refused, a byte), `cut` (a fetch took a part of a packet; `Whole`
says of bytes that they are whole packets), `overrun` (the read ring has
overflowed) and `due` (what must have been delivered when a call of the decoder
ends that began in state Idle on whole packets).

### Lifecycle
`api` is the next step of open or close.  Every step of open may fail; what
`Fail` does is what the code does: it frees the handle and undoes nothing else.
The three starts differ, as in the code: `tc_start_readthread` clears its flag
when the thread cannot be created, `tc_start_writethread` does not, and for the
parser thread the positive error number of `pthread_create` counts as success.
`Stop` clears a flag that is set and goes on to `Join`.  A thread alternates
between the check of its flag and its work; a flag in memory that has been freed
reads as anything.  The parser's work may be the callback, which may send, or
close: then the join of the thread with itself is refused at once (EDEADLK, the
behaviour of the platform's `pthread_join`), close goes on to free everything,
and the thread runs on in freed memory.
The client's part is stated at the head of the module: it closes once, and uses
the handle from when it has it until it closes it.
`queue` is the number of bytes in the write ring: `Send` adds a packet, as much
as fits (a full ring drops its oldest), and `PopChunk` takes `Popped` of them
away, whatever becomes of the write.  A turn with an empty ring, or a device that
is not ready, is `WriteNothing`.  What the device makes of the bytes is the
subject of `SendPath`.

## 3. Runs

| run | instance | shows |
|---|---|---|
| `ring` | 4 slots, blocks of 0..3 bytes, 2 byte values | `ImplementsByteQueue`: every function has the effect and result of the queue operation. Every pair of positions, every wrap and every overflow of a block occurs |
| `parser` | buffer 48; 2 packets with noise or 3 in whole portions, 2 packets cut anywhere and a third, 5 damaged lengths before 4 good packets, and a packet with a length and no data | the decoder's safety (`ReadsOnlyValidBytes`, `HoldsPartialPacket`, `WedgedOnlyByLength`, `WedgeIsPermanent`), `DecoderReturns`, and what is delivered of whole portions (`WholeInOrder`, `WholeAllDelivered`) |
| `parser_remainder`, `parser_wedge` | the cut and the damaged packets alone | violations: `RemainderKept`, `NeverWedged` |
| `parser_forgery` | 4 packets, the second cut anywhere, its end read with the third; nothing is lost | violation: `DeliversOnlySent` |
| `receive` | 4 slots, 7 bytes, reads of 1..3 bytes, room 1 or 3 | all properties of `ReceivePath` with stores in order, among them that it implements `ByteStream` (`ImplementsByteStream`); those about positions and memory are proved for any order (section 5) |
| `receive_stale` | the same | violation: `NoByteTwice` |
| `receive_unordered` | the same, stores in any order | violation: `LossOnlyByOverflow` |
| `send` | 4 slots, 7 bytes in packets of 1 and 3, writes of up to 2, a device that is ready or not and takes any part of a write | `ImplementsByteChannel` (refinement), `EveryByteAccounted`, `PopNeverFails`, `RingDrained` |
| `end_to_end` | 3 or 4 messages; write ring 28, writes up to 26, reads up to 26, read ring 36, buffer 30, and one write that fails or is partial or one read that returns less than it could | `UncutInOrder`, `Resynchronises`, `SurvivorsDelivered` |
| `lifecycle` | a failure of any step of open, 2 messages of 3 bytes, a ring of 5, chunks of 2, close from the client or the callback | who outlives what (`MemoryOutlivesThreads`, `DeviceOutlivesThreads`), `JoinsOnlyCreated`, `OpenServes`, `CloseReleasesAll`; `CloseEnds`, `SentLeavesRing` |
| `crc` | 5 byte values, 6 error patterns, 4 bytes | `TableIsTheDivision`: the messages use all 256 entries; `BurstChangesChecksum` |

Bounds.  The ring's code depends only on how the positions, the sizes and the
end of the buffer compare, and on a ring of 4 slots each comparison occurs with
each outcome, and with equality.  Seven bytes let the rings of `receive` and
`send` overflow twice and go round twice; packets of 3 bytes fill the ring of
`send` exactly, and they leave it in two writes, or three.  The decoder uses
the real CRC and the real layout (packets of 12 and 14 bytes); in `parser` its
buffer of 48 holds three of them, so that a kept packet, a fetch that is cut by
the free space, and a full buffer occur.  The damaged lengths are a shorter one (2), the
two around the size of the buffer (37 fits exactly, 38 does not), a larger one
(300), and the one that makes 16-bit sums wrap (65535).  In `end_to_end` the write
ring of 28 bytes overflows with the third packet, in the middle of a packet or
between two, depending on the sizes of the messages; a write of 26 holds two
packets exactly, or cuts one, and so does a read, whose portions differ from those
of the writes as soon as two writes meet on the line, or one read falls short.  The
decoder's buffer of 30 is smaller than the read ring of 36, and that smaller than
all packets together: a parser thread that comes late fetches a part of a packet,
and the read ring overflows.  Of the four messages the fourth has the packet size
of the second, which is what it takes to deliver a message under the header of
another; this happens in the run, with no byte lost, and is what the condition
`~cut` of `UncutInOrder` keeps out.  In `lifecycle` two messages of 3 bytes
overflow the ring of 5, and the last chunk of 2 is not full.  `MCParser`
precomputes the checksums of what its traffic can contain.

Deadlock is not checked where the environment ends: the device has yielded all
its bytes, the traffic is used up, or the handle is closed, and nothing is left
to do.  In `ring` and `send` there is always something to do, and it is checked.

Fairness.  The liveness properties assume that each thread that can take a step
takes one eventually (`WF`).  The code justifies it: a turn of each thread
sleeps 5 ms and never blocks longer, the mutex is held for a copy only, and no
thread waits for the mutex while holding another.  In `ReceivePath`, `Read` is
part of the fair reader: a device that falls silent is the end of the bounded
stream, and `NewestTaken` speaks of each prefix.  The threads that compete for a
mutex need no more than `WF`: senders and reader, which could win it again and
again, bring a bounded number of bytes, and the other thread sleeps outside the
mutex.  Strong fairness is assumed in one place, of `PopChunk` in `Lifecycle`: the
device may stop being ready again and again, but not for ever, and `WriteThread`,
which asks every 5 ms, then finds it ready some time.  In `EndToEnd` the turns of
the three threads (`Write`, `Read`, `Take \/ Decoder`) are fair.
Nobody has to send (`Send` and `WriteData` are not fair) and the device may stay
busy: `RingDrained` assumes that it becomes ready for good.  In `Lifecycle` the
threads' work is fair, which says two things about the outside: `read` returns
(the driver's timeout `COM_VTIME`), and the callback returns (but not before its
own close has).  Sending and
closing are the client's choice and never fair.

## 4. What the violations show

| run | the code | what says otherwise |
|---|---|---|
| `parser_remainder` | `tc-parser.c:112` fetches to `data[offset]`, over the bytes kept from a cut packet | `tc-parser.c:102` counts those bytes as occupied |
| `parser_forgery` | `tc-parser.c:256` delivers the header of one packet with the payload of another; that packets are cut is enough | the comparison of `tc-parser.c:241` |
| `parser_wedge` | `tc-parser.c:206` waits for more bytes than the buffer can hold | `tc-ipc-protocol.h:32`: no packet exceeds 520 bytes |
| `receive_stale` | `tc-read-thread.c:69` checks the space before the lock, and `Head` moves back | `tc-buffer.h:39`: `Head; //read position` |
| `receive_unordered` | `tc-read-thread.c:77` pushes without lock or barrier | `tc-buffer.h:40`: `Tail; //write position` |

The passing runs delimit them: bytes repeat *only* after a stale check
(`RepeatsOnlyAfterStaleCheck`), the buffer fills up *only* through a length
field (`WedgedOnlyByLength`), with stores in order bytes are lost *only* by
overflow (`LossOnlyByOverflow`), and the unlocked sizes never make a push or a
pop fail (`PushNeverRefused`, `PopNeverFails`).

How a message nobody sent comes about, with packets P1, P2 and B of 14 bytes, and
all bytes arriving: the fetches take P1 with the first 12 bytes of P2, then the
other 2 with a shorter packet, then B.  The second fetch overwrites the start of
what was kept of P2 and is counted behind it, the checksum does not match, and the
decoder goes on in bytes that hold the head of P2 once more.  It waits in state
Data with that header; B, at the start of the buffer, has the right length and
its own checksum, and is delivered with the commands of P2.  A packet is cut by a write, by a read
(which returns what has come in, up to 520 bytes), by the free space of the decoder
when its thread is behind, or because it comes between two reads.  What is true
in spite of this is:

- as long as every fetch takes whole packets, and the read ring does not overflow,
  the callback gets exactly messages that lost no byte, in order
  (`UncutInOrder`), and gets all of them in the end (`SurvivorsDelivered`),
  whatever the write ring dropped, the device refused, and writes and reads cut;
- after a cut, a call of the decoder that starts in state Idle on whole packets
  delivers exactly these (`Resynchronises`).  A header that waits in state Data is
  the only thing that does harm to packets that come later.

What the code does that its users may not expect, and no text of the repository
denies, is written into the properties of `Lifecycle` as exceptions, and nothing
beyond them occurs: an open that fails at the write thread or at the decoder's
handle frees the memory the threads it started still use, and leaves the device
open from the third step on; an open without a parser thread reports success
(`tc-parser-thread.c:140` takes only a negative error for a failure, and
`pthread_create` reports a positive one); a close from the callback frees what
the parser thread still uses; and close drops the bytes that are still in the
write ring (the exception of `SentLeavesRing`).

## 5. Proofs

All proofs hold for every value of the constants under the named assumptions.

*`TcBufferProofs`* (from `MaxBufferSizeAssumption`: at least 2 slots).  Where a
two-part copy puts each byte (`StoredAt`, `TakenAt`), and what that means for
`Contents`: a push appends (`PushAppends`), advancing `Head` drops the oldest
bytes (`AdvanceDrops`), a pop takes the oldest (`PopTakesOldest`), an
overwriting push keeps the newest (`OverwriteKeepsNewest`).

*`RingBufferProofs`* (adding `BlockAssumption`: blocks smaller than the ring).
`TypeCorrect`; the type invariant is inductive.  `Implementation`: `Spec`
implements `ByteQueue!Spec` with the contents of the ring as the queue; one
lemma per function maps its step to a step of the queue or a stutter.

*`ParserProofs`* (from `MaxSizeAssumption`: the buffer holds a minimum packet
and is smaller than 2^16, and `TrafficAssumption`: the line carries bytes; the
checksum function is arbitrary).  None of the decoder's invariants is inductive
alone: that the reads of state CRC are in bounds depends on what state Data
established, one turn of the loop earlier.  `DecoderInvariant` says so: states
other than Idle have seen a minimum packet, state CRC the whole packet, and the
loop is left early only in state Data for want of bytes.  `InvariantInit` and
`InvariantStep`, with one lemma per action, prove it; `TypeCorrect`,
`NoReadBeyondData`, `KeepsLessThanAPacket` and `OnlyLengthWedges` follow from it,
and with `OversizedStep` the action property `WedgeNeverEnds`.

*Delivery, in `ParserProofs`* (adding `WholeAssumption`).  What the decoder
delivers is shown against a *stream*: all the bytes that have come off the line,
counted from 0, and for each packet in them its place and the number of its
message (`IsStream`: the packets follow each other, and what lies between them
is noise in which no packet seems to start).  `Follows` says where the decoder
stands in it: the first packets of the stream are `Handed` to the callback, the
buffer holds (`Held`) the stream from the decoder's `Place` to the end of the
last packet fetched, and a state other than Idle means that `Place` is the start
of a packet, with in state CRC its very header in `parserData` (`Recognised`).  One lemma per action shows that it stays
so: noise is skipped byte by byte, the start of a packet is never skipped
(`SkipFollows`), in state Data the packet is complete, its checksum is that of
`Package` (`MessageOfPacket`), and the message is the one sent.  A fetch takes
whole packets of the stream (`TakesUpTo`, `FetchFollows`), and more whole packets
make the stream longer (`JoinedStream`, `FollowsJoined`).
`WholeDelivery` follows: the stream so far is the portions so far.  Nothing is
asked of the checksum function, since every packet that arrives is a whole one.
The theorem is about behaviours that satisfy `[]BacklogFits`, and must be: a
fetch that cannot take the last packet entirely is where the order ends.

*`SendPathProofs`* (from `SendAssumption`: packets smaller than the ring, writes
of at least one byte; any number of bytes).  `PopFindsItsBytes` is not
inductive: the size was computed from a `Head` and a `Tail` loaded at different
times, and packets come and overwrite in between.  `SendInvariant` says why it
works: from the first load on, either `Head` has not moved, and the ring can
only have filled, or a push has overwritten, and the ring is full and stays so
until the pop (`SizeIsThere`); and it says what the stores still to come will
do (`PushUnderWay`).  `Implementation` maps each step to `ByteChannel`, with the
lemmas of `TcBufferProofs`: `WriteDataAccepts`, `PopTakes`, `WriteTransmits`,
everything else stutters.  `AllAccounted` rests on `AccountInvariant`: the ring
holds consecutive numbers up to the last one accepted, so what has left it are
the numbers from 1 on, each in one of four places.

*`ReceivePathProofs`* (from `ReceiveAssumption`: reads smaller than the ring,
pops of at least one byte; any number of bytes).  The properties speak of
moments at which nobody is in the middle of a push or a pop, so none is
inductive.  `ReceiveInvariant` describes every moment, in four parts beside the
types:

- `MutualExclusion`: who stores and copies at each place, and under which lock;
- `PushUnderWay`: what the stores still to come will do.  An overwriting push
  leaves a full ring (`Waiting`), a plain one has the room it checked;
- `SizeIsThere`: the bytes a pop finds under the mutex (`Ready`) are never fewer
  than the size computed before from two unlocked loads: as in `SendPath`,
  either `Head` has not moved since, or the ring has been filled to the brim;
- `MemoryNumbered`: *all* slots, those behind `Tail` that were popped long ago
  included, hold the newest bytes pushed.  An overwriting push whose check is out
  of date, because the parser has made room since, moves `Head` *back* over slots
  that were popped, and the ring is a run of consecutive bytes all the same
  because of what these slots still hold.

None of this needs the stores of a thread to become visible in program order:
`TypeCorrect`, `NoPushRefused`, `NoPopFails` and `NewestKept` hold for both
values of `StoresInOrder`.  What the parser *takes* does need it, as the run
`receive_unordered` shows, so `OnlyOverflowLoses`, `OnlyStaleRepeats` and
`PopsWhole` assume `StoresInOrder`.  Their `OrderInvariant` adds that a push
without the lock stores its bytes before its `Tail` (`ProgramOrder`), so that
a copy of the parser never meets a slot being written, and `TakenInOrder`: until
the ring overflows, the parser has taken exactly the bytes that left it, in order;
until a check is stale, no byte twice and none that is still in the ring.
`Implementation` puts it together: each access maps to a step of `ByteStream` or
a stutter (`PushAccepts`, `OverwriteForces`, `CopyTakes`, and `CountsStay` for
all others), because at every moment `Held` is the run of numbers from the first
byte neither taken nor lost to the last one pushed (`HeldNumbered`).

*`EndToEndProofs`* (adding `PacketsAssumption`: the traffic is what
`tc_package_send` makes of the messages, and `EndToEndAssumption`: sizes are
positive).  The decoder does not choose its input: that the read ring holds bytes
follows from what is on the line, that from the write ring, and that from the packets,
through every overflow, partial write, short read and late fetch.
`SystemInvariant` joins `DecoderInvariant` with `TransportInvariant`: no ring holds
more than it has room for, each byte under way is one of an accepted message
(`Owned`), and `ring` holds the values of `arrived` (`RingHoldsArrived`).  One lemma
per action (`SendKeeps`, `WriteKeeps`, `ReadKeeps`, `TakeKeeps`, `DecoderKeeps`)
shows it inductive, and `SystemCorrect` states it for `SystemSpec`.  What the run
`parser` checks of the decoder with chosen traffic, `SystemTypeCorrect`,
`SystemReadsValid`, `SystemKeepsPartial`, `SystemLengthWedges` and
`SystemWedgeNeverEnds` prove in the composed system.

`UncutDelivery` is `UncutInOrder` for `SystemSpec`, for every size of rings,
buffer, writes and reads, every number of messages, overflows and failures, and
every checksum function; nothing is assumed of the backlog, since a fetch the free
space has cut sets `cut`.  The argument is about the order of bytes.  One byte is
`Before` another if its message was sent earlier, or its position in the same
packet is smaller; each of `arrived`, `wire` and `writeRing` is `Sorted`, and each
`Precedes` the next (`InOrder`).  Dropping bytes, taking them from the front and
adding a new packet behind keep this (`Split`, `JoinSorted`, `OverwriteSorted`,
`Passing`, `AddedLast`).  A message that lost a byte never has all of them under
way again (`LostGone`).

These two hold whatever is cut, and they are what makes a fetch of whole bytes
valuable: bytes that are sorted and `Whole` are packets one behind the other, and
nothing else.  `Ranking` orders the finite set of their messages, `Blocks` and
`Frame` find each packet's place, and `WholeStream` makes a stream without noise
of them, the `IsStream` of `ParserProofs`.  By `LostGone` it has no packet that lost a byte
(`WholeNotLost`), and by `InOrder` its packets are later than all that were
fetched before (`WholeBefore`).  So as long as `cut` is false there is a stream of
all that has been fetched, with growing numbers of messages that lost nothing,
which the decoder `Follows` (`Delivering`); `TakeUncut` joins the fetched stream to
it, and `UncutDelivers` reads the property off.

The invariants `WholeInvariant` and `UncutInvariant` assert that streams exist,
which TLC cannot enumerate; the properties they imply are what the runs `parser`
and `end_to_end` check.  `BacklogFits`, on which `WholeInOrder` depends, holds of
all whole traffic of the run `parser` (three packets fit the buffer).

*`CrcProofs`* (from `InputAssumption` and `TableAssumption`; messages of any
length over any bytes, any errors).  `TableAssumption` is a statement about the
table's 256 numbers: each is the division of its index, and no two
have the same low byte.  TLC evaluates it in full, entry by entry, in the run
`crc`; the proofs know nothing else of the table.  `TableDivides`: `XorByteBits`
to `SameWord` reduce `Xor` to the bits of its arguments, `ShiftOfXor` shows
that a shift of the register distributes over it, and so the division of a byte
splits into the entry of the high byte and the shifted low byte (`StepDivides`).
`BurstChangesChecksum` is not inductive: a second damaged byte could make different
checksums equal again.  `CrcInvariant` adds that while the burst may go
on, the two differ in their low bytes.  The first damaged byte sees to
that, because it selects another entry, and entries differ in their low bytes
(`DamageShows`).  The second byte, whatever it is, then either selects the same
entry, and the low bytes show in the high bytes of the new values, or another one,
and the new low bytes differ (`LowDifferenceStays`).  An intact byte never makes
different checksums equal (`DifferenceStays`).

Only model-checked:

- `Resynchronises`: what the decoder does with the bytes of two packets one
  over the other depends on the checksums, before it is in state Idle again.  The
  property is about the call after that, which starts with bytes it has kept;
  TLC checks it with the real checksum for the messages of the run;
- what the decoder's theorems say of the checksum function: nothing, they hold
  for any.  `tc_CRC16` on a sequence is a fold of `CrcStep`, beyond the provers
  as an induction over data; `CrcCheck` therefore makes each byte a step;
- all liveness, which is out of the provers' reach with `ENABLED`: `NewestTaken`,
  `RingDrained`, `DecoderReturns`, `WholeAllDelivered`, `SurvivorsDelivered`,
  `CloseEnds`, `SentLeavesRing`.

## 6. Not modelled, and the plan

- In `EndToEnd` the read ring keeps its newest bytes when it overflows.  That a
  stale check of the space can move `Head` back over bytes already read, which
  then repeat, is in `ReceivePath` only; the properties of `EndToEnd` say nothing
  once the read ring has overflowed (`overrun`), except `Resynchronises`.
- Memory beyond an array: a payload longer than `sendBuf` has room for is the
  client's error in `tc_package_send`, which does not look; the model starts from
  packets that fit.  Freed memory is modelled by the values a flag read from it
  may have.
- NULL arguments: each function returns an error at once, except
  `tc_ipc_ctrl_msg_send`, which returns an uninitialised value.
- `ipc_read`, `ipc_flush` and `ipc_ping_test` have no caller.  The driver behind the
  device file is external: it takes any part of a write, yields any bytes and is
  ready or not.
- Logging and the build files have no behaviour to model.

What is left of the plan: proofs that `EndToEnd`, whose `Write` is two steps of
the channel and whose `Read` and `Take` are single turns, loses and sends only
what `ByteChannel` and `ByteStream` allow, so that its link with `SendPath` and
`ReceivePath` is more than a matter of reading them; and a proof of
`Resynchronises`.
