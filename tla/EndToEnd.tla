------------------------------ MODULE EndToEnd ------------------------------
(***************************************************************************)
(* Messages from one end of the line to the callback at the other: the     *)
(* sending side (tc_package_send, the write ring, WriteThread), the line,  *)
(* ReadThread with the read ring, and the parser thread and decoder of     *)
(* Parser.                                                                 *)
(*                                                                         *)
(* The sending side is the byte channel that SendPath implements: it loses *)
(* the oldest bytes when the write ring overflows and what a write does    *)
(* not take, and nothing else.  The line is a stream of bytes: nothing     *)
(* ties the portions that are read, or fetched by the parser thread, to    *)
(* those that were written.                                                *)
(*                                                                         *)
(* A byte under way is the place it was sent from, the number of its       *)
(* message and its position in the packet.  An element of Traffic has no   *)
(* chunks here but a field packets, what tc_package_send makes of the      *)
(* messages sent.                                                          *)
(***************************************************************************)
EXTENDS Parser

CONSTANTS RingBytes,       \* the bytes the write ring holds (16383 in the code)
          WriteSize,       \* IPC_WRITE_SIZE (512 in the code)
          ReadSize,        \* TMM_READ_SIZE (520 in the code)
          ReadRingBytes,   \* the bytes the read ring holds (16383 in the code)
          MaxFaults        \* bound: the number of writes that fail or are partial,
                           \* and of reads that return less than they could

ASSUME EndToEndAssumption ==
    /\ RingBytes \in Nat \ {0} /\ WriteSize \in Nat \ {0}
    /\ ReadSize \in Nat \ {0} /\ ReadRingBytes \in Nat \ {0}
    /\ MaxFaults \in Nat

\* The messages are ones tc_package_send takes.
ASSUME PacketsAssumption == \A t \in Traffic :
    /\ t.chunks = << >>
    /\ t.packets \in Seq(Seq(Byte))
    /\ Len(t.packets) = Len(t.sent)
    /\ \A i \in 1 .. Len(t.sent) : Sendable(t.sent[i]) /\ t.packets[i] = Packet(t.sent[i])

VARIABLES
    writeRing,   \* the bytes in the write ring, oldest first
    wire,        \* the bytes the device took and ReadThread has not read
    arrived,     \* the bytes in the read ring; ring has their values
    accepted,    \* how many messages msg_send has accepted
    faults,      \* how many writes and reads have been short
    lost,        \* history: the messages of which a byte was lost
    cut,         \* history: a fetch of the parser took a part of a packet
    overrun,     \* history: the read ring has overflowed
    due          \* history: what is delivered when the call of the decoder ends
                 \* that began in state Idle with whole packets; else empty

transport == <<writeRing, wire, arrived, accepted, faults, lost, cut, overrun, due>>
system == <<vars, transport>>

SystemInit ==
    /\ Init
    /\ writeRing = << >> /\ wire = << >> /\ arrived = << >>
    /\ accepted = 0 /\ faults = 0
    /\ lost = {} /\ cut = FALSE /\ overrun = FALSE /\ due = {}

Owners(bytes) == {bytes[i].owner : i \in DOMAIN bytes}

Value(b) == traffic.packets[b.owner][b.at]

\* What an overwriting push leaves of the bytes in a ring of the given size with
\* the new ones behind them, and what it drops.
Newest(bytes, size) ==
    SubSeq(bytes, 1 + (IF Len(bytes) > size THEN Len(bytes) - size ELSE 0), Len(bytes))

Dropped(bytes, size) == SubSeq(bytes, 1, Len(bytes) - size)

\* tc_package_send and tc_ipc_write_data: the newest bytes are kept.
Send ==
    /\ accepted < Len(traffic.packets)
    /\ LET packet == traffic.packets[accepted + 1]
           all    == writeRing \o [i \in DOMAIN packet |-> [owner |-> accepted + 1, at |-> i]]
       IN  /\ writeRing' = Newest(all, RingBytes)
           /\ lost' = lost \cup Owners(Dropped(all, RingBytes))
    /\ accepted' = accepted + 1
    /\ UNCHANGED <<vars, wire, arrived, faults, cut, overrun, due>>

\* Mutant of PopSize: WriteThread waits until there is a full chunk.
PopSizeFullChunk == IF Len(writeRing) < WriteSize THEN 0 ELSE WriteSize

PopSize == Minimum(Len(writeRing), WriteSize)

\* Mutant of AfterWrite: a chunk the device did not take is written again.
AfterWriteRetries(n) ==
    SubSeq(writeRing, (IF n < PopSize THEN 1 ELSE PopSize + 1), Len(writeRing))

\* The chunk is popped before it is written, whatever the device takes of it.
AfterWrite(n) == SubSeq(writeRing, PopSize + 1, Len(writeRing))

\* A turn of WriteThread in which the device takes n of the bytes popped.  When
\* the device is not ready nothing changes.
Write ==
    /\ writeRing # << >>
    /\ \E n \in 0 .. PopSize :
          /\ n < PopSize => faults < MaxFaults
          /\ wire' = wire \o SubSeq(writeRing, 1, n)
          /\ writeRing' = AfterWrite(n)
          /\ lost' = lost \cup Owners(SubSeq(writeRing, n + 1, PopSize))
          /\ faults' = IF n < PopSize THEN faults + 1 ELSE faults
    /\ UNCHANGED <<vars, arrived, accepted, cut, overrun, due>>

\* A turn of ReadThread: the read returns n of the bytes on the line.  What a
\* stale check of the free space can do when the read ring is full is the
\* subject of ReceivePath; here the push keeps the newest bytes.
Read ==
    /\ wire # << >>
    /\ LET size == Minimum(Len(wire), ReadSize)
       IN  \E n \in 1 .. size :
              LET all == arrived \o SubSeq(wire, 1, n)
              IN  /\ n < size => faults < MaxFaults
                  /\ arrived' = Newest(all, ReadRingBytes)
                  /\ ring' = Newest(ring \o [i \in 1 .. n |-> Value(wire[i])], ReadRingBytes)
                  /\ wire' = SubSeq(wire, n + 1, Len(wire))
                  /\ lost' = lost \cup Owners(Dropped(all, ReadRingBytes))
                  /\ overrun' = (overrun \/ Len(all) > ReadRingBytes)
                  /\ faults' = IF n < size THEN faults + 1 ELSE faults
    /\ UNCHANGED <<handle, pc, stop, coming, delivered, traffic, writeRing, accepted, cut, due>>

\* The bytes are those of whole packets.
Whole(bytes) ==
    \A m \in Owners(bytes) : \A k \in DOMAIN traffic.packets[m] :
        \E i \in DOMAIN bytes : bytes[i] = [owner |-> m, at |-> k]

\* The messages with the given numbers, in the order in which they were sent.
MessagesOf(numbers) ==
    LET ordered == SelectSeq([i \in 1 .. accepted |-> i], LAMBDA i : i \in numbers)
    IN  [i \in DOMAIN ordered |-> traffic.sent[ordered[i]]]

\* A turn of the parser thread up to the call of the decoder, with the histories.
Take ==
    /\ Fetch
    /\ LET size    == Minimum(Len(ring), FreeSpace)
           fetched == SubSeq(arrived, 1, size)
       IN  /\ arrived' = SubSeq(arrived, size + 1, Len(arrived))
           /\ cut' = (cut \/ ~Whole(fetched))
           /\ due' = IF parserState = "Idle" /\ Whole(fetched)
                     THEN {delivered \o MessagesOf(Owners(fetched))} ELSE {}
    /\ UNCHANGED <<writeRing, wire, accepted, faults, lost, overrun>>

Decoder == (Decode \/ Compact) /\ UNCHANGED transport

SystemNext == Send \/ Write \/ Read \/ Take \/ Decoder

SystemSpec == SystemInit /\ [][SystemNext]_system

\* The threads at both ends take their turns; nobody has to send.
FairSystem ==
    /\ SystemSpec
    /\ WF_system(Write)
    /\ WF_system(Read)
    /\ WF_system(Take \/ Decoder)

-----------------------------------------------------------------------------
\* What the callback got are messages that were sent and lost no byte, in the
\* order in which they were sent and none twice.
DeliversSurvivors ==
    \E number \in [DOMAIN delivered -> (1 .. accepted) \ lost] :
        /\ \A i \in DOMAIN delivered : delivered[i] = traffic.sent[number[i]]
        /\ \A i \in DOMAIN delivered : \A j \in 1 .. i - 1 : number[j] < number[i]

(* Whatever is lost of other messages, as long as every fetch of the       *)
(* parser thread takes whole packets, the callback gets nothing but whole  *)
(* survivors in order and none twice.  Which writes, reads and fetches the *)
(* bytes went through does not matter, only where the last ones cut.  A    *)
(* read ring that overflowed may repeat bytes (ReceivePath), and then      *)
(* nothing is said.  This needs nothing of the checksum.                   *)
UncutInOrder == ~cut /\ ~overrun => DeliversSurvivors

(* A message that lost no byte reaches the callback, even after whole      *)
(* packets were lost, unless a fetch took a part of a packet, because a    *)
(* write, a read or a full buffer cut it or because the parser thread came *)
(* between two reads, or the read ring overflowed.                         *)
SurvivorsDelivered ==
    <>[](cut \/ overrun \/ delivered = MessagesOf((1 .. accepted) \ lost))

(* The decoder recovers: whatever was cut, lost or forged before, and      *)
(* whatever bytes it kept, a call that begins in state Idle on a fetch of  *)
(* whole packets gives the callback exactly their messages, in order.  It  *)
(* is only through a header that waits in state Data that a cut can harm   *)
(* whole packets that are fetched after it.                                *)
Resynchronises == pc = "fetch" /\ due # {} => delivered \in due
=============================================================================
