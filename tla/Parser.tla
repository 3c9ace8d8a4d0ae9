------------------------------- MODULE Parser -------------------------------
(***************************************************************************)
(* The receiving end of the protocol: the parser thread                    *)
(* (tc-parser-thread.c) that moves bytes from the read ring into the       *)
(* buffer of the parserHandle, and tc_parser_decoder (tc-parser.c) that    *)
(* finds the packets in that buffer and gives them to the callback.        *)
(*                                                                         *)
(* Each turn of the decoder's loop is one action.  The read ring is the    *)
(* FIFO queue RingBuffer implements; what the read thread puts into it,    *)
(* and in which portions, is chosen in the initial state from the constant *)
(* Traffic.                                                                *)
(***************************************************************************)
EXTENDS Protocol

CONSTANTS MaxSize,     \* TMM_PARSER_BUF_SIZE (1024 in the code)
          Traffic      \* the line traffic: records of
                       \*   chunks: the portions the read thread reads, in order
                       \*   sent:   the messages whose packets they carry
                       \*   kind:   "whole" when each portion is the packet of
                       \*           one message with noise before it

\* inBufferLen is a uint16_t, so the buffer must not be larger than that.
ASSUME MaxSizeAssumption == MaxSize \in MinPacket .. WORDS - 1

ASSUME TrafficAssumption == \A t \in Traffic : t.chunks \in Seq(Seq(Byte))

\* At chunk[i] the decoder sees the start of a packet.
CodesAt(chunk, i) == SubSeq(chunk, i, i + 2) = <<SYNC, START1, START2>>

\* Noise in which no packet seems to start, and the packet of m.
WholePortion(chunk, m) ==
    \E k \in 0 .. Len(chunk) :
        /\ SubSeq(chunk, k + 1, Len(chunk)) = Packet(m)
        /\ \A i \in 1 .. k : ~CodesAt(chunk, i)

ASSUME WholeAssumption == \A t \in Traffic : t.kind = "whole" =>
    /\ Len(t.chunks) = Len(t.sent)
    /\ \A i \in 1 .. Len(t.sent) :
          /\ Sendable(t.sent[i])
          /\ WholePortion(t.chunks[i], t.sent[i])

VARIABLES
    data,          \* parserHandle.data
    offset,        \* parserHandle.offset: where decoding goes on
    dataSize,      \* parserHandle.dataSize: the end of the valid bytes
    parserState,   \* parserHandle.parserState
    parserData,    \* parserHandle.parserData: cmd1, cmd2, length
    pc,            \* where the thread is: "fetch" or "decode"
    stop,          \* the local of that name in tc_parser_decoder
    ring,          \* the bytes in the read ring
    coming,        \* the chunks not read yet
    delivered,     \* the messages given to the callback, in order
    traffic        \* the chosen element of Traffic; never changes

handle == <<data, offset, dataSize, parserState, parserData>>
line == <<ring, coming, traffic>>
vars == <<handle, pc, stop, line, delivered>>

DecodeState == {"Idle", "Sync", "Start", "Hader", "Data", "CRC"}

Minimum(a, b) == IF a < b THEN a ELSE b

Cleared == [cmd1 |-> 0, cmd2 |-> 0, length |-> 0]

-----------------------------------------------------------------------------
\* ipc_parser_handle_init.  It leaves parserData uninitialized; the decoder
\* sets it in state Hader before any state that reads it.
Init ==
    /\ data = [i \in 0 .. MaxSize - 1 |-> 0]
    /\ offset = 0
    /\ dataSize = 0
    /\ parserState = "Idle"
    /\ parserData = Cleared
    /\ pc = "fetch"
    /\ stop = FALSE
    /\ traffic \in Traffic
    /\ coming = traffic.chunks
    /\ ring = << >>
    /\ delivered = << >>

\* The read thread has read the next chunk from the device and pushed it.
Arrive ==
    /\ coming # << >>
    /\ ring' = ring \o Head(coming)
    /\ coming' = Tail(coming)
    /\ UNCHANGED <<handle, pc, stop, delivered, traffic>>

-----------------------------------------------------------------------------
(* One turn of the parser thread up to the call of the decoder.            *)

\* Mutant of FreeSpace: the bytes already in the buffer are not counted.
FreeSpaceOfEmpty == MaxSize - offset

\* tc_parser_freeSpace
FreeSpace == MaxSize - (offset + dataSize)

\* tc_parser_BufAddr, as an index of data.
BufAddr == offset

Fetch ==
    /\ pc = "fetch"
    /\ Len(ring) > 0
    /\ LET readSize == Minimum(Len(ring), FreeSpace)
       IN  /\ data' = [i \in DOMAIN data |->
                          IF i \in BufAddr .. BufAddr + readSize - 1
                          THEN ring[i - BufAddr + 1] ELSE data[i]]
           /\ ring' = SubSeq(ring, readSize + 1, Len(ring))
           /\ dataSize' = dataSize + readSize
    /\ pc' = "decode"
    /\ UNCHANGED <<offset, parserState, parserData, stop, coming, delivered, traffic>>

-----------------------------------------------------------------------------
(* tc_parser_decoder: one action per branch of the loop body.              *)

Remaining == dataSize - offset

\* inBuffer[k] and the two-byte field at inBuffer[k], inBuffer[k + 1]
At(k) == data[offset + k]
WordAt(k) == Word(At(k), At(k + 1))

InLoop(state) ==
    /\ pc = "decode"
    /\ ~stop
    /\ offset < dataSize
    /\ MinPacket <= Remaining
    /\ parserState = state

\* A state that looks for one code byte: go on to the next state or give up
\* on this position.
SkipByte ==
    /\ parserState' = "Idle"
    /\ offset' = offset + 1

Match(state, at, code, next) ==
    /\ InLoop(state)
    /\ \/ /\ At(at) = code
          /\ parserState' = next
          /\ UNCHANGED offset
       \/ /\ At(at) # code
          /\ SkipByte
    /\ UNCHANGED <<data, dataSize, parserData, pc, stop, line, delivered>>

DecodeIdle  == Match("Idle", SYNC_OFFSET, SYNC, "Sync")
DecodeSync  == Match("Sync", START1_OFFSET, START1, "Start")
DecodeStart == Match("Start", START2_OFFSET, START2, "Hader")

DecodeHader ==
    /\ InLoop("Hader")
    /\ parserData' = [cmd1   |-> WordAt(CMD1_OFFSET),
                      cmd2   |-> WordAt(CMD2_OFFSET),
                      length |-> WordAt(LENGTH_OFFSET)]
    /\ parserState' = "Data"
    /\ UNCHANGED <<data, offset, dataSize, pc, stop, line, delivered>>

\* Mutant of IpcDataSize: the data byte in MinPacket is counted twice.
IpcDataSizeUncorrected == parserData.length

\* The whole packet must be in the buffer; a packet has a dummy data byte
\* when its length is 0.
IpcDataSize == IF parserData.length > 0 THEN parserData.length - 1 ELSE 0

\* Mutants of DecodeData: the size of the packet is truncated to 16 bits, and
\* the loop is not left for want of bytes.
DecodeDataTruncated ==
    /\ InLoop("Data")
    /\ \/ /\ U16(Remaining) >= U16(IpcDataSize + MinPacket)
          /\ parserState' = "CRC"
          /\ UNCHANGED stop
       \/ /\ U16(Remaining) < U16(IpcDataSize + MinPacket)
          /\ stop' = TRUE
          /\ UNCHANGED parserState
    /\ UNCHANGED <<data, offset, dataSize, parserData, pc, line, delivered>>

DecodeDataNoStop ==
    /\ InLoop("Data")
    /\ U16(Remaining) >= IpcDataSize + MinPacket
    /\ parserState' = "CRC"
    /\ UNCHANGED <<data, offset, dataSize, parserData, pc, stop, line, delivered>>

DecodeData ==
    /\ InLoop("Data")
    /\ \/ /\ U16(Remaining) >= IpcDataSize + MinPacket
          /\ parserState' = "CRC"
          /\ UNCHANGED stop
       \/ /\ U16(Remaining) < IpcDataSize + MinPacket
          /\ stop' = TRUE
          /\ UNCHANGED parserState
    /\ UNCHANGED <<data, offset, dataSize, parserData, pc, line, delivered>>

\* Mutant of CrcOffset: the dummy byte of an empty packet is forgotten.
CrcOffsetNoDummy == U16(parserData.length + DATA_OFFSET)

CrcOffset ==
    IF parserData.length > 0 THEN U16(parserData.length + DATA_OFFSET) ELSE DATA_OFFSET + 1

Message == [cmd1 |-> parserData.cmd1, cmd2 |-> parserData.cmd2,
            data |-> [i \in 1 .. parserData.length |-> At(DATA_OFFSET + i - 1)]]

CrcMatches == WordAt(CrcOffset) = CRC16([i \in 1 .. CrcOffset |-> At(i - 1)])

\* The packet is consumed whether or not its checksum is right.  That the
\* bytes are there was established in state Data, in the same call.
DecodeCRC ==
    /\ InLoop("CRC")
    /\ LET complete == U16(Remaining) >= CrcOffset + 2
       IN  /\ delivered' = IF complete /\ CrcMatches THEN Append(delivered, Message)
                                                    ELSE delivered
           /\ parserState' = IF complete THEN "Idle" ELSE parserState
           /\ parserData' = IF complete THEN Cleared ELSE parserData
           /\ offset' = IF complete THEN offset + CrcOffset + 2 ELSE offset
           /\ stop' = ~complete
    /\ UNCHANGED <<data, dataSize, pc, line>>

Compacted(state) ==
    /\ data' = [i \in DOMAIN data |-> IF i < Remaining THEN data[i + offset] ELSE data[i]]
    /\ offset' = 0
    /\ dataSize' = Remaining
    /\ parserState' = state
    /\ stop' = FALSE
    /\ pc' = "fetch"
    /\ UNCHANGED <<parserData, line, delivered>>

\* Mutants of Compact: the state is reset at the end of a call, and the loop is
\* left after one packet.
CompactResets ==
    /\ pc = "decode"
    /\ stop \/ offset >= dataSize \/ Remaining < MinPacket
    /\ Compacted("Idle")

CompactAfterPacket ==
    /\ pc = "decode"
    /\ \/ stop \/ offset >= dataSize \/ Remaining < MinPacket
       \/ offset > 0 /\ parserState = "Idle"
    /\ Compacted(parserState)

\* The end of the decoder: the bytes not consumed move to the front.
Compact ==
    /\ pc = "decode"
    /\ stop \/ offset >= dataSize \/ Remaining < MinPacket
    /\ Compacted(parserState)

Decode ==
    DecodeIdle \/ DecodeSync \/ DecodeStart \/ DecodeHader \/ DecodeData \/ DecodeCRC

Next == Arrive \/ Fetch \/ Decode \/ Compact

Spec == Init /\ [][Next]_vars

\* The threads run again and again: neither sleeps more than 5 ms, and the
\* decoder calls nothing that blocks.
FairSpec == Spec /\ WF_vars(Arrive) /\ WF_vars(Fetch \/ Decode \/ Compact)

-----------------------------------------------------------------------------
TypeOK ==
    /\ data \in [0 .. MaxSize - 1 -> Byte]
    /\ offset \in 0 .. MaxSize
    /\ dataSize \in 0 .. MaxSize
    /\ parserState \in DecodeState
    /\ parserData \in [cmd1 : U16Value, cmd2 : U16Value, length : U16Value]
    /\ pc \in {"fetch", "decode"}
    /\ stop \in BOOLEAN
    /\ ring \in Seq(Byte)
    /\ coming \in Seq(Seq(Byte))

(* The decoder never looks past the bytes it was given: offset does not    *)
(* overtake dataSize (remainSize would be a huge unsigned number), and     *)
(* when the checksum is compared and the message handed to the callback,   *)
(* header, payload and checksum all lie before dataSize, and crcOffset was *)
(* not truncated to 16 bits.                                               *)
ReadsOnlyValidBytes ==
    /\ offset <= dataSize
    /\ InLoop("CRC") =>
          /\ CrcOffset + 2 <= Remaining
          /\ DATA_OFFSET + parserData.length <= CrcOffset

(* Between two calls of the decoder the buffer holds less than a packet:   *)
(* in state Idle too few bytes for any packet, in state Data too few for   *)
(* the packet whose header was read.  No other state survives a call.      *)
HoldsPartialPacket ==
    pc = "fetch" =>
        /\ offset = 0
        /\ \/ parserState = "Idle" /\ dataSize < MinPacket
           \/ parserState = "Data" /\ dataSize < IpcDataSize + MinPacket

\* The parser has no room for another byte.
Wedged == pc = "fetch" /\ FreeSpace = 0

\* The buffer is full of a packet that is larger than the buffer.
Oversized ==
    /\ parserState = "Data"
    /\ offset = 0 /\ dataSize = MaxSize
    /\ parserData.length + 11 > MaxSize

(* The buffer fills up only when the length field of a header announces a  *)
(* packet larger than the buffer; noise, cut packets and bad checksums     *)
(* never fill it.                                                          *)
WedgedOnlyByLength == Wedged => Oversized

(* Nothing resets the decoder then: no byte that arrives later is decoded  *)
(* and no message is delivered, ever.                                      *)
WedgeIsPermanent == [][Oversized => Oversized' /\ delivered' = delivered]_vars

(* Only messages that were sent are delivered, whatever the fragmentation  *)
(* and corruption on the way does to the buffer.                           *)
DeliversOnlySent == \A i \in DOMAIN delivered : \E j \in DOMAIN traffic.sent :
                 delivered[i] = traffic.sent[j]

\* What is in the read ring can be fetched at once into an empty buffer.
BacklogFits == Len(ring) <= MaxSize

(* When every portion holds a whole packet, the callback gets the messages *)
(* in the order in which they were sent, none twice and none left out,     *)
(* with any noise before them.  That needs BacklogFits at all times, which *)
(* the theorem assumes and the traffic of the run guarantees.              *)
WholeInOrder == traffic.kind = "whole" => delivered = SubSeq(traffic.sent, 1, Len(delivered))

(* Every message in a whole portion reaches the callback, noise or not.    *)
(* This, too, needs BacklogFits at all times: a backlog larger than the    *)
(* buffer is fetched in parts, and the decoder loses packets at the cut.   *)
(* The traffic of the run guarantees it.                                   *)
WholeAllDelivered == <>(traffic.kind = "whole" => delivered = traffic.sent)

(* A call of the decoder ends: each turn of its loop consumes bytes, goes  *)
(* on to the next state, or stops.                                         *)
DecoderReturns == pc = "decode" ~> pc = "fetch"

(* The bytes the decoder keeps for the next call, and that                 *)
(* tc_parser_freeSpace counts as occupied, are still there after the next  *)
(* fetch.                                                                  *)
RemainderKept ==
    [][pc = "fetch" /\ pc' = "decode" =>
          \A i \in offset .. dataSize - 1 : data'[i] = data[i]]_vars

(* The decoder always has room for more bytes.                             *)
NeverWedged == ~Wedged
=============================================================================
