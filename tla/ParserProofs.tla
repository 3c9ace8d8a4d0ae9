---------------------------- MODULE ParserProofs ----------------------------
(***************************************************************************)
(* The decoder of tc-parser.c for every traffic and every buffer size its  *)
(* 16-bit lengths can describe: it stays inside the bytes it was given,    *)
(* and the only thing that fills its buffer is a length field; and as long *)
(* as a fetch can take what is in the read ring, it delivers exactly the   *)
(* packets of the stream of bytes that come off the line, in order.        *)
(***************************************************************************)
EXTENDS Parser, SequenceTheorems, TLAPS

\* The packet whose header was read is complete in the buffer.
Complete == Remaining >= IpcDataSize + MinPacket

(* The inductive invariant.  What the decoder knows at the end of a turn   *)
(* of its loop it never loses before the next one: a state other than Idle *)
(* has seen a whole minimum packet, state CRC the whole packet, and the    *)
(* loop is only left early for want of the rest of a packet.               *)
DecoderInvariant ==
    /\ TypeOK
    /\ offset <= dataSize
    /\ parserState # "Idle" => MinPacket <= Remaining
    /\ parserState = "CRC" => Complete
    /\ stop => pc = "decode" /\ parserState = "Data" /\ ~Complete
    /\ pc = "fetch" =>
          /\ offset = 0
          /\ \/ parserState = "Idle" /\ dataSize < MinPacket
             \/ parserState = "Data" /\ ~Complete

-----------------------------------------------------------------------------
\* MaxSize, MinPacket and WORDS as the arithmetic below needs them.
LEMMA Sizes ==
    /\ MinPacket = 12
    /\ WORDS \in Nat /\ WORDS > 12
    /\ MaxSize \in Nat /\ 12 <= MaxSize /\ MaxSize < WORDS
  <1>1. MinPacket = 12 /\ WORDS \in Nat /\ WORDS > 12
    BY DEF MinPacket, WORDS
  <1>2. MaxSize \in MinPacket .. WORDS - 1
    BY MaxSizeAssumption
  <1>3. QED BY <1>1, <1>2

\* The range of a number of 16 bits, as the arithmetic below needs it.
LEMMA U16Range ==
    ASSUME NEW x
    PROVE  x \in U16Value <=> x \in Int /\ 0 <= x /\ x <= 65535
  <1>1. WORDS \in Nat
    BY DEF WORDS
  <1>2. x \in U16Value <=> x \in Int /\ 0 <= x /\ x <= WORDS - 1
    BY <1>1 DEF U16Value
  <1>3. QED BY <1>2 DEF WORDS

\* A number below the modulus is its own remainder.
LEMMA ModSmall ==
    ASSUME NEW M \in Nat, M > 0, NEW x \in 0 .. M - 1
    PROVE  x % M = x
  OBVIOUS

\* A number of 16 bits is not truncated.
LEMMA U16Small ==
    ASSUME NEW x \in 0 .. WORDS - 1
    PROVE  U16(x) = x
  BY Sizes, ModSmall DEF U16

\* The two bytes of a field make a 16-bit word.
LEMMA WordType ==
    ASSUME NEW high \in Byte, NEW low \in Byte
    PROVE  Word(high, low) \in U16Value
  <1>1. /\ high \in Int /\ 0 <= high /\ high <= 255
        /\ low \in Int /\ 0 <= low /\ low <= 255
    BY DEF Byte
  <1> DEFINE word == high * 256 + low
  <1>2. word \in Int /\ 0 <= word /\ word <= 65535
    BY <1>1
  <1> HIDE DEF word
  <1>3. word \in U16Value
    BY <1>2, U16Range
  <1>4. QED BY <1>3 DEF Word, word

\* The size the decoder waits for.
LEMMA IpcDataSizeType ==
    ASSUME TypeOK
    PROVE  /\ parserData.length \in 0 .. WORDS - 1
           /\ IpcDataSize \in 0 .. WORDS - 2
           /\ parserData.length > 0 => IpcDataSize = parserData.length - 1
           /\ parserData.length = 0 => IpcDataSize = 0
  <1>1. parserData.length \in 0 .. WORDS - 1
    BY DEF TypeOK, U16Value
  <1>2. QED BY <1>1, Sizes DEF IpcDataSize

\* While a turn of the loop is possible, what is left is not truncated.
LEMMA LoopRemaining ==
    ASSUME DecoderInvariant
    PROVE  /\ Remaining \in 0 .. MaxSize
           /\ Remaining \in 0 .. WORDS - 1
           /\ U16(Remaining) = Remaining
  <1>1. Remaining \in 0 .. MaxSize
    BY Sizes DEF DecoderInvariant, TypeOK, Remaining
  <1>2. Remaining \in 0 .. WORDS - 1
    BY <1>1, Sizes
  <1>3. QED BY <1>1, <1>2, U16Small

\* In state CRC the checksum ends where the packet ends.
LEMMA ChecksumPlace ==
    ASSUME DecoderInvariant, parserState = "CRC"
    PROVE  /\ CrcOffset \in 0 .. WORDS - 1
           /\ CrcOffset + 2 = IpcDataSize + MinPacket
           /\ DATA_OFFSET + parserData.length <= CrcOffset
           /\ CrcOffset + 2 <= Remaining
  <1>1. /\ IpcDataSize + 12 <= Remaining
        /\ IpcDataSize \in Nat /\ Remaining \in 0 .. WORDS - 1
        /\ parserData.length \in Nat
        /\ parserData.length > 0 => IpcDataSize = parserData.length - 1
        /\ parserData.length = 0 => IpcDataSize = 0
    BY LoopRemaining, Sizes, IpcDataSizeType DEF DecoderInvariant, Complete
  <1>2. CASE parserData.length > 0
    <2>1. parserData.length + DATA_OFFSET \in 0 .. WORDS - 1
      BY <1>1, <1>2, Sizes DEF DATA_OFFSET
    <2>2. CrcOffset = parserData.length + DATA_OFFSET
      BY <1>2, <2>1, U16Small DEF CrcOffset
    <2>3. QED BY <1>1, <1>2, <2>1, <2>2, Sizes DEF DATA_OFFSET
  <1>3. CASE parserData.length = 0
    BY <1>1, <1>3, Sizes DEF CrcOffset, DATA_OFFSET
  <1>4. QED BY <1>1, <1>2, <1>3

-----------------------------------------------------------------------------
LEMMA InvariantInit == Init => DecoderInvariant
  <1> SUFFICES ASSUME Init
               PROVE  DecoderInvariant
    OBVIOUS
  <1>1. data \in [0 .. MaxSize - 1 -> Byte] /\ 0 \in 0 .. MaxSize
    BY Sizes DEF Init, Byte
  <1>2. parserData \in [cmd1 : U16Value, cmd2 : U16Value, length : U16Value]
    BY Sizes DEF Init, Cleared, U16Value
  <1>3. ring \in Seq(Byte) /\ coming \in Seq(Seq(Byte))
    BY TrafficAssumption DEF Init, Byte
  <1>4. TypeOK
    BY <1>1, <1>2, <1>3 DEF Init, TypeOK, DecodeState
  <1>5. 0 < MinPacket
    BY Sizes
  <1>6. QED
    BY <1>4, <1>5 DEF Init, DecoderInvariant

\* What an action that leaves the handle alone preserves.
LEMMA InvariantArrive == DecoderInvariant /\ Arrive => DecoderInvariant'
  <1> SUFFICES ASSUME DecoderInvariant, Arrive
               PROVE  DecoderInvariant'
    OBVIOUS
  <1>1. Head(coming) \in Seq(Byte) /\ Tail(coming) \in Seq(Seq(Byte))
    BY DEF DecoderInvariant, TypeOK, Arrive
  <1>2. ring' \in Seq(Byte) /\ coming' \in Seq(Seq(Byte))
    BY <1>1, ConcatProperties DEF DecoderInvariant, TypeOK, Arrive
  <1>3. QED
    BY <1>2 DEF Arrive, handle, DecoderInvariant, TypeOK, Complete, Remaining, IpcDataSize

\* A fetch fills at most the free space.
LEMMA InvariantFetch == DecoderInvariant /\ Fetch => DecoderInvariant'
  <1> SUFFICES ASSUME DecoderInvariant, Fetch
               PROVE  DecoderInvariant'
    OBVIOUS
  <1> DEFINE size == Minimum(Len(ring), FreeSpace)
  <1>1. /\ offset = 0 /\ dataSize \in 0 .. MaxSize /\ ring \in Seq(Byte) /\ Len(ring) \in Nat
        /\ data \in [0 .. MaxSize - 1 -> Byte]
    BY DEF Fetch, DecoderInvariant, TypeOK
  <1>2. size \in 0 .. MaxSize - dataSize /\ size <= Len(ring)
    BY <1>1, Sizes DEF Minimum, FreeSpace
  <1>3. /\ dataSize' = dataSize + size /\ ring' = SubSeq(ring, size + 1, Len(ring))
        /\ data' = [i \in DOMAIN data |-> IF i \in BufAddr .. BufAddr + size - 1
                                           THEN ring[i - BufAddr + 1] ELSE data[i]]
        /\ pc' = "decode" /\ stop' = stop
        /\ UNCHANGED <<offset, parserState, parserData, coming>>
    BY DEF Fetch
  <1>4. data' \in [0 .. MaxSize - 1 -> Byte]
    <2>1. ASSUME NEW i \in 0 .. MaxSize - 1, i \in BufAddr .. BufAddr + size - 1
          PROVE  ring[i - BufAddr + 1] \in Byte
      <3>1. i - BufAddr + 1 \in 1 .. Len(ring)
        BY <1>1, <1>2, <2>1, Sizes DEF BufAddr
      <3>2. QED BY <1>1, <3>1, ElementOfSeq
    <2> HIDE DEF size
    <2>2. QED BY <1>1, <1>3, <2>1
  <1>5. ring' \in Seq(Byte)
    <2>1. \A i \in size + 1 .. Len(ring) : ring[i] \in Byte
      <3>1. \A i \in size + 1 .. Len(ring) : i \in 1 .. Len(ring)
        BY <1>1, <1>2, Sizes
      <3>2. QED BY <1>1, <3>1, ElementOfSeq
    <2>2. size + 1 \in Int /\ Len(ring) \in Int
      BY <1>1, <1>2, Sizes
    <2> HIDE DEF size
    <2>3. QED BY <1>3, <2>1, <2>2, SubSeqProperties
  <1>6. dataSize' \in 0 .. MaxSize /\ dataSize <= dataSize'
    BY <1>1, <1>2, <1>3, Sizes
  <1>7. TypeOK'
    BY <1>3, <1>4, <1>5, <1>6 DEF DecoderInvariant, TypeOK
  <1> HIDE DEF size
  <1>8. ~stop /\ parserState \in {"Idle", "Data"}
    BY DEF Fetch, DecoderInvariant
  <1>9. QED
    BY <1>1, <1>3, <1>6, <1>7, <1>8, Sizes DEF DecoderInvariant, Remaining, Complete

-----------------------------------------------------------------------------
\* A turn of the loop is only taken before the loop has been left.
LEMMA InLoopFacts ==
    ASSUME DecoderInvariant, NEW s, InLoop(s)
    PROVE  /\ pc = "decode" /\ stop = FALSE /\ parserState = s
           /\ offset \in Nat /\ dataSize \in 0 .. MaxSize
           /\ Remaining = dataSize - offset
           /\ offset + 12 <= dataSize
           /\ Remaining \in Nat /\ 12 <= Remaining
  BY Sizes DEF DecoderInvariant, TypeOK, InLoop, Remaining

\* Every byte the decoder reads in the loop is a byte.
LEMMA AtType ==
    ASSUME DecoderInvariant, NEW s, InLoop(s), NEW k \in Nat, k < Remaining
    PROVE  At(k) \in Byte
  <1>1. /\ offset \in Nat /\ dataSize \in 0 .. MaxSize
        /\ Remaining = dataSize - offset
    BY InLoopFacts
  <1>2. offset + k \in 0 .. MaxSize - 1
    BY <1>1, Sizes
  <1>3. QED BY <1>2 DEF At, DecoderInvariant, TypeOK

\* The three states that look for a code byte.
LEMMA InvariantMatch ==
    ASSUME DecoderInvariant,
           NEW s \in {"Idle", "Sync", "Start"}, NEW k, NEW code,
           NEW next \in {"Sync", "Start", "Hader"}, Match(s, k, code, next)
    PROVE  DecoderInvariant'
  <1>1. /\ InLoop(s)
        /\ UNCHANGED <<data, dataSize, parserData, pc, stop, ring, coming>>
        /\ \/ parserState' = next /\ offset' = offset
           \/ parserState' = "Idle" /\ offset' = offset + 1
    BY DEF Match, SkipByte, line
  <1>2. /\ pc = "decode" /\ stop = FALSE
        /\ offset \in Nat /\ dataSize \in 0 .. MaxSize
        /\ offset + 12 <= dataSize
    BY <1>1, InLoopFacts
  <1>3. offset' \in 0 .. MaxSize /\ offset' <= dataSize'
    BY <1>1, <1>2, Sizes
  <1>4. parserState' # "Idle" => MinPacket <= Remaining'
    BY <1>1, <1>2, Sizes DEF Remaining
  <1>5. parserState' \in {"Idle", "Sync", "Start", "Hader"}
    BY <1>1
  <1>6. TypeOK'
    BY <1>1, <1>3, <1>5 DEF DecoderInvariant, TypeOK, DecodeState
  <1>7. QED
    BY <1>1, <1>2, <1>3, <1>4, <1>5, <1>6 DEF DecoderInvariant

\* The header is inside the minimum packet.
LEMMA InvariantHader == DecoderInvariant /\ DecodeHader => DecoderInvariant'
  <1> SUFFICES ASSUME DecoderInvariant, DecodeHader
               PROVE  DecoderInvariant'
    OBVIOUS
  <1>1. /\ InLoop("Hader")
        /\ UNCHANGED <<data, offset, dataSize, pc, stop, ring, coming>>
        /\ parserState' = "Data"
        /\ parserData' = [cmd1   |-> WordAt(CMD1_OFFSET),
                          cmd2   |-> WordAt(CMD2_OFFSET),
                          length |-> WordAt(LENGTH_OFFSET)]
    BY DEF DecodeHader, line
  <1>2. pc = "decode" /\ stop = FALSE /\ 12 <= Remaining /\ Remaining \in Nat
    BY <1>1, InLoopFacts
  <1>3. \A k \in 0 .. 10 : WordAt(k) \in U16Value
    <2> TAKE k \in 0 .. 10
    <2>1. At(k) \in Byte /\ At(k + 1) \in Byte
      BY <1>1, <1>2, AtType
    <2>2. QED BY <2>1, WordType DEF WordAt
  <1>4. parserData' \in [cmd1 : U16Value, cmd2 : U16Value, length : U16Value]
    BY <1>1, <1>3 DEF CMD1_OFFSET, CMD2_OFFSET, LENGTH_OFFSET
  <1>5. TypeOK'
    BY <1>1, <1>4 DEF DecoderInvariant, TypeOK, DecodeState
  <1>6. MinPacket <= Remaining'
    BY <1>1, <1>2, Sizes DEF Remaining
  <1>7. QED
    BY <1>1, <1>2, <1>5, <1>6 DEF DecoderInvariant

\* State Data lets the loop go on exactly when the packet is complete.
LEMMA InvariantData == DecoderInvariant /\ DecodeData => DecoderInvariant'
  <1> SUFFICES ASSUME DecoderInvariant, DecodeData
               PROVE  DecoderInvariant'
    OBVIOUS
  <1>1. /\ InLoop("Data")
        /\ UNCHANGED <<data, offset, dataSize, parserData, pc, ring, coming>>
        /\ \/ Remaining >= IpcDataSize + MinPacket /\ parserState' = "CRC" /\ stop' = stop
           \/ /\ Remaining < IpcDataSize + MinPacket
              /\ stop' = TRUE /\ parserState' = parserState
    BY LoopRemaining DEF DecodeData, line
  <1>2. /\ pc = "decode" /\ stop = FALSE /\ parserState = "Data"
        /\ 12 <= Remaining /\ Remaining \in Nat
    BY <1>1, InLoopFacts
  <1>3. Remaining' = Remaining /\ IpcDataSize' = IpcDataSize
    BY <1>1 DEF Remaining, IpcDataSize
  <1>4. TypeOK'
    BY <1>1, <1>2 DEF DecoderInvariant, TypeOK, DecodeState
  <1>5. IpcDataSize + MinPacket \in Nat
    BY IpcDataSizeType, Sizes DEF DecoderInvariant
  <1>6. CASE parserState' = "CRC" /\ stop' = stop /\ Remaining >= IpcDataSize + MinPacket
    BY <1>1, <1>2, <1>3, <1>4, <1>6, Sizes DEF DecoderInvariant, Complete
  <1>7. CASE stop' = TRUE /\ parserState' = parserState /\ Remaining < IpcDataSize + MinPacket
    BY <1>1, <1>2, <1>3, <1>4, <1>5, <1>7, Sizes DEF DecoderInvariant, Complete
  <1>8. QED BY <1>1, <1>6, <1>7

\* State CRC always finds the packet complete, so it always consumes it.
LEMMA InvariantCRC == DecoderInvariant /\ DecodeCRC => DecoderInvariant'
  <1> SUFFICES ASSUME DecoderInvariant, DecodeCRC
               PROVE  DecoderInvariant'
    OBVIOUS
  <1>1. InLoop("CRC") /\ parserState = "CRC"
    BY DEF DecodeCRC, InLoop
  <1>2. /\ CrcOffset \in Nat /\ CrcOffset + 2 <= Remaining
        /\ U16(Remaining) = Remaining /\ Remaining \in Nat
    BY <1>1, ChecksumPlace, LoopRemaining, Sizes
  <1>3. U16(Remaining) >= CrcOffset + 2
    BY <1>2
  <1>4. /\ parserState' = "Idle" /\ parserData' = Cleared
        /\ offset' = offset + CrcOffset + 2 /\ stop' = FALSE
        /\ UNCHANGED <<data, dataSize, pc, ring, coming>>
    BY <1>3 DEF DecodeCRC, line
  <1>5. pc = "decode" /\ offset \in Nat /\ dataSize \in 0 .. MaxSize
        /\ Remaining = dataSize - offset
    BY <1>1, InLoopFacts
  <1>6. offset' \in 0 .. MaxSize /\ offset' <= dataSize'
    BY <1>2, <1>4, <1>5, Sizes
  <1>7. parserData' \in [cmd1 : U16Value, cmd2 : U16Value, length : U16Value]
    BY <1>4, Sizes DEF Cleared, U16Value
  <1>8. TypeOK'
    BY <1>4, <1>6, <1>7 DEF DecoderInvariant, TypeOK, DecodeState
  <1>9. QED
    BY <1>4, <1>5, <1>6, <1>8 DEF DecoderInvariant

\* The bytes left over move to the front; in state Idle they are fewer than a
\* minimum packet because the loop was not left early.
LEMMA InvariantCompact == DecoderInvariant /\ Compact => DecoderInvariant'
  <1> SUFFICES ASSUME DecoderInvariant, Compact
               PROVE  DecoderInvariant'
    OBVIOUS
  <1>1. /\ pc = "decode" /\ (stop \/ offset >= dataSize \/ Remaining < MinPacket)
        /\ data' = [i \in DOMAIN data |-> IF i < Remaining THEN data[i + offset] ELSE data[i]]
        /\ offset' = 0 /\ dataSize' = Remaining /\ stop' = FALSE /\ pc' = "fetch"
        /\ UNCHANGED <<parserState, parserData, ring, coming>>
    BY DEF Compact, Compacted, line
  <1>2. /\ offset \in 0 .. MaxSize /\ dataSize \in 0 .. MaxSize /\ offset <= dataSize
        /\ Remaining = dataSize - offset /\ Remaining \in 0 .. MaxSize
        /\ data \in [0 .. MaxSize - 1 -> Byte]
    BY LoopRemaining DEF DecoderInvariant, TypeOK, Remaining
  <1>3. data' \in [0 .. MaxSize - 1 -> Byte]
    <2>1. ASSUME NEW i \in 0 .. MaxSize - 1, i < Remaining
          PROVE  data[i + offset] \in Byte
      <3>1. i + offset \in 0 .. MaxSize - 1
        BY <1>2, <2>1, Sizes
      <3>2. QED BY <1>2, <3>1
    <2>2. QED BY <1>1, <1>2, <2>1
  <1>4. TypeOK'
    <2>1. offset' \in 0 .. MaxSize /\ dataSize' \in 0 .. MaxSize
      BY <1>1, <1>2, Sizes
    <2>2. QED BY <1>1, <1>3, <2>1 DEF DecoderInvariant, TypeOK
  <1>5. Remaining' = Remaining /\ IpcDataSize' = IpcDataSize /\ dataSize' = Remaining
    BY <1>1, <1>2 DEF Remaining, IpcDataSize
  <1>6. CASE parserState = "Idle"
    <2>1. Remaining < MinPacket
      BY <1>1, <1>2, <1>6, Sizes DEF DecoderInvariant
    <2>2. QED BY <1>1, <1>2, <1>4, <1>6, <2>1, Sizes DEF DecoderInvariant
  <1>7. CASE parserState # "Idle"
    <2>1. MinPacket <= Remaining
      BY <1>7 DEF DecoderInvariant
    <2>2. stop
      BY <1>1, <1>2, <2>1, Sizes
    <2>3. parserState = "Data" /\ ~Complete
      BY <2>2 DEF DecoderInvariant
    <2>4. ~Complete'
      BY <1>5, <2>3 DEF Complete
    <2>5. QED BY <1>1, <1>2, <1>4, <1>5, <2>1, <2>3, <2>4, Sizes DEF DecoderInvariant
  <1>8. QED BY <1>6, <1>7

LEMMA InvariantStep == DecoderInvariant /\ [Next]_vars => DecoderInvariant'
  <1> SUFFICES ASSUME DecoderInvariant, [Next]_vars
               PROVE  DecoderInvariant'
    OBVIOUS
  <1>1. CASE Arrive      BY <1>1, InvariantArrive
  <1>2. CASE Fetch       BY <1>2, InvariantFetch
  <1>3. CASE DecodeIdle  BY <1>3, InvariantMatch DEF DecodeIdle
  <1>4. CASE DecodeSync  BY <1>4, InvariantMatch DEF DecodeSync
  <1>5. CASE DecodeStart BY <1>5, InvariantMatch DEF DecodeStart
  <1>6. CASE DecodeHader BY <1>6, InvariantHader
  <1>7. CASE DecodeData  BY <1>7, InvariantData
  <1>8. CASE DecodeCRC   BY <1>8, InvariantCRC
  <1>9. CASE Compact     BY <1>9, InvariantCompact
  <1>10. CASE UNCHANGED vars
    BY <1>10 DEF vars, handle, line, DecoderInvariant, TypeOK, Complete, Remaining, IpcDataSize
  <1>11. QED
    BY <1>1, <1>2, <1>3, <1>4, <1>5, <1>6, <1>7, <1>8, <1>9, <1>10 DEF Next, Decode

(* The decoder's invariant, and with it the types of its state, holds for  *)
(* every buffer size, every traffic and every checksum function.           *)
THEOREM DecoderCorrect == Spec => []DecoderInvariant
  <1>1. QED BY InvariantInit, InvariantStep, PTL DEF Spec

(* The handle of the parser keeps its types: the offsets stay inside the   *)
(* buffer and the header fields are 16 bits wide.                          *)
THEOREM TypeCorrect == Spec => []TypeOK
  <1>1. DecoderInvariant => TypeOK
    BY DEF DecoderInvariant
  <1>2. QED BY <1>1, DecoderCorrect, PTL

-----------------------------------------------------------------------------
\* State CRC reads inside the packet that state Data found complete.
LEMMA ReadsValid ==
    ASSUME DecoderInvariant
    PROVE  ReadsOnlyValidBytes
  <1>1. offset <= dataSize
    BY DEF DecoderInvariant
  <1>2. ASSUME InLoop("CRC")
        PROVE  CrcOffset + 2 <= Remaining /\ DATA_OFFSET + parserData.length <= CrcOffset
    <2>1. parserState = "CRC"
      BY <1>2 DEF InLoop
    <2>2. QED BY <2>1, ChecksumPlace
  <1>3. QED BY <1>1, <1>2 DEF ReadsOnlyValidBytes

(* When tc_parser_decoder compares the checksum and calls the callback,    *)
(* everything it reads lies before dataSize, and crcOffset, a uint16_t,    *)
(* was not truncated, whatever the length field said.                      *)
THEOREM NoReadBeyondData == Spec => []ReadsOnlyValidBytes
  BY ReadsValid, DecoderCorrect, PTL

\* The loop leaves less than a packet behind.
LEMMA KeepsPartial ==
    ASSUME DecoderInvariant
    PROVE  HoldsPartialPacket
  <1> SUFFICES ASSUME pc = "fetch"
               PROVE  /\ offset = 0
                      /\ \/ parserState = "Idle" /\ dataSize < MinPacket
                         \/ parserState = "Data" /\ dataSize < IpcDataSize + MinPacket
    BY DEF HoldsPartialPacket
  <1>1. TypeOK /\ offset = 0 /\ dataSize \in Nat
    BY Sizes DEF DecoderInvariant, TypeOK
  <1>2. Remaining = dataSize
    BY <1>1 DEF Remaining
  <1>3. IpcDataSize + MinPacket \in Nat
    BY <1>1, IpcDataSizeType, Sizes
  <1>4. ~Complete => dataSize < IpcDataSize + MinPacket
    BY <1>1, <1>2, <1>3 DEF Complete
  <1>5. QED BY <1>1, <1>4 DEF DecoderInvariant

(* Between two calls tc_parser_decoder keeps less than one packet, and is  *)
(* in state Idle or Data.                                                  *)
THEOREM KeepsLessThanAPacket == Spec => []HoldsPartialPacket
  BY KeepsPartial, DecoderCorrect, PTL

\* What fills the buffer is less than one packet, which is then oversized.
LEMMA LengthWedges ==
    ASSUME DecoderInvariant
    PROVE  WedgedOnlyByLength
  <1> SUFFICES ASSUME pc = "fetch", FreeSpace = 0
               PROVE  Oversized
    BY DEF WedgedOnlyByLength, Wedged
  <1>1. TypeOK /\ offset = 0 /\ dataSize \in Nat
    BY Sizes DEF DecoderInvariant, TypeOK
  <1>2. dataSize = MaxSize /\ Remaining = MaxSize
    BY <1>1, Sizes DEF FreeSpace, Remaining
  <1>3. parserState = "Data" /\ ~Complete
    BY <1>2, Sizes DEF DecoderInvariant
  <1>4. /\ parserData.length \in Nat /\ IpcDataSize \in Nat
        /\ parserData.length > 0 => IpcDataSize = parserData.length - 1
        /\ parserData.length = 0 => IpcDataSize = 0
    BY <1>1, IpcDataSizeType, Sizes
  <1>5. MaxSize < IpcDataSize + 12
    BY <1>2, <1>3, <1>4, Sizes DEF Complete
  <1>6. parserData.length + 11 > MaxSize
    BY <1>4, <1>5, Sizes
  <1>7. QED BY <1>1, <1>2, <1>3, <1>6 DEF Oversized

(* A full buffer means that the header at its front announced a packet     *)
(* larger than the buffer: no other traffic can fill it.                   *)
THEOREM OnlyLengthWedges == Spec => []WedgedOnlyByLength
  BY LengthWedges, DecoderCorrect, PTL

-----------------------------------------------------------------------------
\* With a full buffer and an incomplete packet, a turn of the parser thread
\* fetches nothing, stops in state Data, and moves nothing.
LEMMA OversizedStep ==
    ASSUME DecoderInvariant, Oversized, [Next]_vars
    PROVE  Oversized' /\ delivered' = delivered
  <1>1. /\ parserState = "Data" /\ offset = 0 /\ dataSize = MaxSize
        /\ parserData.length + 11 > MaxSize
    BY DEF Oversized
  <1>2. TypeOK
    BY DEF DecoderInvariant
  <1>3. /\ parserData.length \in Nat /\ IpcDataSize \in Nat
        /\ parserData.length > 0 => IpcDataSize = parserData.length - 1
        /\ parserData.length = 0 => IpcDataSize = 0
    BY <1>2, IpcDataSizeType, Sizes
  <1>4. Remaining = MaxSize
    BY <1>1, Sizes DEF Remaining
  <1>5. SUFFICES /\ parserState' = parserState /\ offset' = 0 /\ dataSize' = MaxSize
                 /\ parserData' = parserData /\ delivered' = delivered
    BY <1>1 DEF Oversized
  <1>6. CASE Arrive
    BY <1>1, <1>6 DEF Arrive, handle
  <1>7. CASE Fetch
    <2>1. FreeSpace = 0 /\ ring \in Seq(Byte)
      BY <1>1, <1>2, Sizes DEF FreeSpace, TypeOK
    <2>2. Minimum(Len(ring), FreeSpace) = 0
      BY <2>1, <1>7 DEF Fetch, Minimum
    <2>3. QED BY <1>1, <1>7, <2>2, Sizes DEF Fetch
  <1>8. CASE DecodeData
    <2>1. U16(Remaining) = Remaining
      BY LoopRemaining
    <2>2. ~(U16(Remaining) >= IpcDataSize + MinPacket)
      BY <1>1, <1>3, <1>4, <2>1, Sizes
    <2>3. QED BY <1>1, <1>8, <2>2 DEF DecodeData
  <1>9. CASE Compact
    BY <1>1, <1>4, <1>9 DEF Compact, Compacted
  <1>10. CASE DecodeIdle \/ DecodeSync \/ DecodeStart \/ DecodeHader \/ DecodeCRC
    BY <1>1, <1>10
       DEF DecodeIdle, DecodeSync, DecodeStart, DecodeHader, DecodeCRC, Match, InLoop
  <1>11. CASE UNCHANGED vars
    BY <1>1, <1>11 DEF vars, handle
  <1>12. QED
    BY <1>6, <1>7, <1>8, <1>9, <1>10, <1>11 DEF Next, Decode

(* Once the buffer is full of an oversized packet, nothing the line brings *)
(* makes the decoder deliver a message again.                              *)
THEOREM WedgeNeverEnds == Spec => WedgeIsPermanent
  <1>1. DecoderInvariant /\ [Next]_vars => [Oversized => Oversized' /\ delivered' = delivered]_vars
    BY OversizedStep
  <1>2. QED BY <1>1, DecoderCorrect, PTL DEF Spec, WedgeIsPermanent

-----------------------------------------------------------------------------
(* The packets of the messages that are sent, and where they lie in the    *)
(* stream of bytes that has come off the line.                             *)

\* A 16-bit word is put together from its two bytes again.
LEMMA WordOfBytes ==
    ASSUME NEW x \in U16Value
    PROVE  /\ High(x) \in Byte /\ Low(x) \in Byte
           /\ Word(High(x), Low(x)) = x
  <1>1. x \in Nat /\ x < 65536
    BY U16Range
  <1> DEFINE q == x \div 256
             r == x % 256
  <1>2. q \in Int /\ r \in Int /\ q * 256 + r = x
    BY <1>1, SMTT(60)
  <1>3. 0 <= r /\ r <= 255
    BY <1>1
  <1>4. High(x) = q /\ Low(x) = r
    BY DEF High, Low
  <1>5. Word(q, r) = q * 256 + r
    BY DEF Word
  <1> HIDE DEF q, r
  <1>6. 0 <= q /\ q <= 255
    BY <1>1, <1>2, <1>3
  <1>7. q \in Byte /\ r \in Byte
    BY <1>2, <1>3, <1>6 DEF Byte
  <1>8. Word(q, r) = x
    BY <1>2, <1>5
  <1>9. QED BY <1>4, <1>7, <1>8, Zenon

\* The packet of a message up to its checksum.
Body(m) == HeaderAndBody(m.cmd1, m.cmd2, m.data, Len(m.data))

LEMMA BodyShape ==
    ASSUME NEW m, Sendable(m)
    PROVE  /\ Body(m) \in Seq(Byte)
           /\ Len(Body(m)) = 9 + (IF Len(m.data) > 0 THEN Len(m.data) ELSE 1)
           /\ Body(m)[1] = SYNC /\ Body(m)[2] = START1 /\ Body(m)[3] = START2
           /\ Word(Body(m)[4], Body(m)[5]) = m.cmd1
           /\ Word(Body(m)[6], Body(m)[7]) = m.cmd2
           /\ Word(Body(m)[8], Body(m)[9]) = Len(m.data)
           /\ \A i \in 1 .. Len(m.data) : Body(m)[9 + i] = m.data[i]
  <1> DEFINE L == Len(m.data)
             head == <<SYNC, START1, START2, High(m.cmd1), Low(m.cmd1), High(m.cmd2),
                       Low(m.cmd2), High(L), Low(L)>>
             body == IF L > 0 /\ m.data # NoBuffer THEN SubSeq(m.data, 1, L) ELSE <<0>>
  <1>1. m.cmd1 \in U16Value /\ m.cmd2 \in U16Value /\ L \in U16Value /\ m.data \in Seq(Byte)
    BY DEF Sendable
  <1>2. L \in Nat
    BY <1>1
  <1>3. SYNC \in Byte /\ START1 \in Byte /\ START2 \in Byte /\ 0 \in Byte
    BY DEF SYNC, START1, START2, Byte
  <1>4. head \in Seq(Byte) /\ Len(head) = 9
    <2>1. /\ High(m.cmd1) \in Byte /\ Low(m.cmd1) \in Byte
          /\ High(m.cmd2) \in Byte /\ Low(m.cmd2) \in Byte
          /\ High(L) \in Byte /\ Low(L) \in Byte
      BY <1>1, WordOfBytes
    <2>2. QED BY <1>3, <2>1
  <1>5. /\ body \in Seq(Byte) /\ Len(body) = (IF L > 0 THEN L ELSE 1)
        /\ \A i \in 1 .. L : body[i] = m.data[i]
    <2>1. CASE L > 0
      <3>1. m.data # << >>
        BY <2>1
      <3>2. body = SubSeq(m.data, 1, L)
        BY <2>1, <3>1 DEF NoBuffer
      <3>3. \A i \in 1 .. L : m.data[i] \in Byte
        BY <1>1, ElementOfSeq
      <3>4. QED BY <1>2, <2>1, <3>2, <3>3, SubSeqProperties
    <2>2. CASE L = 0
      BY <1>3, <2>2
    <2>3. QED BY <1>2, <2>1, <2>2
  <1>6. Body(m) = head \o body
    BY DEF Body, HeaderAndBody
  <1>7. /\ head[1] = SYNC /\ head[2] = START1 /\ head[3] = START2
        /\ head[4] = High(m.cmd1) /\ head[5] = Low(m.cmd1)
        /\ head[6] = High(m.cmd2) /\ head[7] = Low(m.cmd2)
        /\ head[8] = High(L) /\ head[9] = Low(L)
    OBVIOUS
  <1> HIDE DEF head, body
  <1>8. /\ Body(m) \in Seq(Byte)
        /\ Len(Body(m)) = 9 + Len(body)
        /\ \A i \in 1 .. 9 + Len(body) : Body(m)[i] = IF i <= 9 THEN head[i] ELSE body[i - 9]
    <2>1. body \in Seq(Byte)
      BY <1>5
    <2>2. /\ head \o body \in Seq(Byte)
          /\ Len(head \o body) = Len(head) + Len(body)
          /\ \A i \in 1 .. Len(head) + Len(body) :
                (head \o body)[i] = IF i <= Len(head) THEN head[i] ELSE body[i - Len(head)]
      BY <1>4, <2>1, ConcatProperties
    <2>3. QED BY <1>4, <1>6, <2>2, Zenon
  <1> DEFINE lb == Len(body)
  <1>l. lb \in Nat
    BY <1>2, <1>5
  <1> HIDE DEF lb
  <1>9. \A i \in 1 .. 9 : Body(m)[i] = head[i]
    <2>1. \A i \in 1 .. 9 : i \in 1 .. 9 + lb /\ i <= 9
      BY <1>l
    <2>2. QED BY <1>8, <2>1, Zenon DEF lb
  <1>10. \A i \in 1 .. L : Body(m)[9 + i] = m.data[i]
    <2> TAKE i \in 1 .. L
    <2>1. 9 + i \in 1 .. 9 + Len(body) /\ ~(9 + i <= 9) /\ 9 + i - 9 = i
      BY <1>2, <1>5
    <2>2. QED BY <1>5, <1>8, <2>1
  <1>11. /\ Word(head[4], head[5]) = m.cmd1
         /\ Word(head[6], head[7]) = m.cmd2
         /\ Word(head[8], head[9]) = L
    BY <1>1, <1>7, WordOfBytes
  <1>12. /\ 1 \in 1 .. 9 /\ 2 \in 1 .. 9 /\ 3 \in 1 .. 9 /\ 4 \in 1 .. 9 /\ 5 \in 1 .. 9
         /\ 6 \in 1 .. 9 /\ 7 \in 1 .. 9 /\ 8 \in 1 .. 9 /\ 9 \in 1 .. 9
    OBVIOUS
  <1>13. /\ Body(m)[1] = SYNC /\ Body(m)[2] = START1 /\ Body(m)[3] = START2
         /\ Body(m)[4] = head[4] /\ Body(m)[5] = head[5] /\ Body(m)[6] = head[6]
         /\ Body(m)[7] = head[7] /\ Body(m)[8] = head[8] /\ Body(m)[9] = head[9]
    BY <1>7, <1>9, <1>12, Zenon
  <1>14. Len(Body(m)) = 9 + (IF L > 0 THEN L ELSE 1)
    BY <1>5, <1>8, Zenon
  <1> HIDE DEF L
  <1>15. /\ Word(Body(m)[4], Body(m)[5]) = m.cmd1
         /\ Word(Body(m)[6], Body(m)[7]) = m.cmd2
         /\ Word(Body(m)[8], Body(m)[9]) = L
    BY <1>11, <1>13, Zenon
  <1>16. QED BY <1>8, <1>10, <1>13, <1>14, <1>15, Zenon DEF L

LEMMA PacketShape ==
    ASSUME NEW m, Sendable(m)
    PROVE  /\ Packet(m) \in Seq(Byte)
           /\ Len(Packet(m)) = Len(Body(m)) + 2
           /\ Len(Body(m)) \in Nat
           /\ MinPacket <= Len(Packet(m))
           /\ \A i \in 1 .. Len(Body(m)) : Packet(m)[i] = Body(m)[i]
           /\ Word(Packet(m)[Len(Body(m)) + 1], Packet(m)[Len(Body(m)) + 2]) = CRC16(Body(m))
  <1> DEFINE crc == CRC16(Body(m))
             tail == <<High(crc), Low(crc)>>
             n == Len(Body(m))
  <1>1. crc \in U16Value /\ Len(m.data) \in U16Value
    BY DEF Sendable, Body
  <1>2. High(crc) \in Byte /\ Low(crc) \in Byte /\ Word(High(crc), Low(crc)) = crc
    <2> HIDE DEF crc
    <2>1. QED BY <1>1, WordOfBytes
  <1>3. Packet(m) = Body(m) \o tail
    BY DEF Packet, Package, Body
  <1> HIDE DEF crc
  <1>4. tail \in Seq(Byte) /\ Len(tail) = 2 /\ tail[1] = High(crc) /\ tail[2] = Low(crc)
    BY <1>2
  <1> HIDE DEF tail
  <1>5. Len(m.data) \in Nat
    BY <1>1 DEF U16Value
  <1>6. Body(m) \in Seq(Byte) /\ n \in Nat /\ n >= 10
    <2>1. Body(m) \in Seq(Byte) /\ n = 9 + (IF Len(m.data) > 0 THEN Len(m.data) ELSE 1)
      BY BodyShape
    <2> HIDE DEF n
    <2>2. QED BY <1>5, <2>1
  <1>7. /\ Packet(m) \in Seq(Byte) /\ Len(Packet(m)) = n + 2
        /\ \A i \in 1 .. n + 2 : Packet(m)[i] = IF i <= n THEN Body(m)[i] ELSE tail[i - n]
    <2>1. /\ Body(m) \o tail \in Seq(Byte)
          /\ Len(Body(m) \o tail) = n + Len(tail)
          /\ \A i \in 1 .. n + Len(tail) :
                (Body(m) \o tail)[i] = IF i <= n THEN Body(m)[i] ELSE tail[i - n]
      BY <1>4, <1>6, ConcatProperties
    <2>2. QED BY <1>3, <1>4, <2>1, Zenon
  <1> HIDE DEF n
  <1>8. Packet(m)[n + 1] = tail[1] /\ Packet(m)[n + 2] = tail[2]
    <2>1. /\ n + 1 \in 1 .. n + 2 /\ ~(n + 1 <= n) /\ (n + 1) - n = 1
          /\ n + 2 \in 1 .. n + 2 /\ ~(n + 2 <= n) /\ (n + 2) - n = 2
      BY <1>6
    <2>2. \A i \in 1 .. n + 2 : ~(i <= n) => Packet(m)[i] = tail[i - n]
      BY <1>7
    <2>3. Packet(m)[n + 1] = tail[(n + 1) - n]
      BY <2>1, <2>2, Zenon
    <2>4. Packet(m)[n + 2] = tail[(n + 2) - n]
      BY <2>1, <2>2, Zenon
    <2>5. QED BY <2>1, <2>3, <2>4, Zenon
  <1>9. Word(Packet(m)[n + 1], Packet(m)[n + 2]) = crc
    BY <1>2, <1>4, <1>8
  <1>10. \A i \in 1 .. n : Packet(m)[i] = Body(m)[i]
    BY <1>6, <1>7
  <1>11. QED BY <1>6, <1>7, <1>9, <1>10, Sizes DEF n, crc

\* A packet seems to start at byte p.
StartsAt(byte, p) == byte[p] = SYNC /\ byte[p + 1] = START1 /\ byte[p + 2] = START2

(* A stream: the bytes that have come off the line, counted from 0, and    *)
(* the n packets in them.  Packet i is that of the message of the given    *)
(* number and lies from start[i] to end[i]; the bytes between end[i - 1]   *)
(* and start[i] are noise in which no packet seems to start.               *)
PacketIn(st, i, m) ==
    /\ Sendable(m)
    /\ st.end[i - 1] <= st.start[i]
    /\ st.end[i] = st.start[i] + Len(Packet(m))
    /\ \A k \in 1 .. Len(Packet(m)) : st.byte[st.start[i] + (k - 1)] = Packet(m)[k]
    /\ \A p \in st.end[i - 1] .. st.start[i] - 1 : ~StartsAt(st.byte, p)

IsStream(st, sent) ==
    /\ st.n \in Nat
    /\ st.byte \in [Nat -> Byte]
    /\ st.number \in [1 .. st.n -> 1 .. Len(sent)]
    /\ st.start \in [1 .. st.n -> Nat]
    /\ st.end \in [0 .. st.n -> Nat]
    /\ st.end[0] = 0
    /\ \A i \in 1 .. st.n : PacketIn(st, i, sent[st.number[i]])
    /\ \A i, j \in 0 .. st.n : i <= j => st.end[i] <= st.end[j]

\* The packets of a stream.
LEMMA PacketOfStream ==
    ASSUME NEW sent, NEW st, IsStream(st, sent), NEW i \in 1 .. st.n
    PROVE  /\ PacketIn(st, i, sent[st.number[i]])
           /\ st.number[i] \in 1 .. Len(sent)
           /\ st.start[i] \in Nat /\ st.end[i] \in Nat /\ st.end[i - 1] \in Nat
           /\ st.end[i] <= st.end[st.n]
  <1>1. st.n \in Nat /\ i \in 0 .. st.n /\ i - 1 \in 0 .. st.n /\ st.n \in 0 .. st.n /\ i <= st.n
    BY DEF IsStream
  <1>2. QED BY <1>1 DEF IsStream

\* The packet of m up to its checksum lies at s, and the data in it.
BodyAt(st, s, m) == \A k \in 0 .. Len(Body(m)) - 1 : st.byte[s + k] = Body(m)[k + 1]
DataAt(st, s, m) == \A k \in 1 .. Len(m.data) : st.byte[s + (8 + k)] = m.data[k]

\* The packet of m lies from s to e.
WholeAt(st, s, e, m) ==
    /\ Sendable(m) /\ Len(Body(m)) \in Nat
    /\ e = s + Len(Body(m)) + 2 /\ MinPacket <= Len(Body(m)) + 2
    /\ BodyAt(st, s, m)
    /\ Word(st.byte[s + Len(Body(m))], st.byte[s + Len(Body(m)) + 1]) = CRC16(Body(m))
    /\ StartsAt(st.byte, s)

\* The header at s is that of m, and the data of m follows it.
HeaderAt(st, s, m) ==
    /\ Word(st.byte[s + 3], st.byte[s + 4]) = m.cmd1
    /\ Word(st.byte[s + 5], st.byte[s + 6]) = m.cmd2
    /\ Word(st.byte[s + 7], st.byte[s + 8]) = Len(m.data)
    /\ Len(m.data) \in 0 .. WORDS - 1
    /\ Len(Body(m)) = 9 + (IF Len(m.data) > 0 THEN Len(m.data) ELSE 1)
    /\ DataAt(st, s, m)

\* A packet in a stream, as far as the decoder looks at it.
LEMMA PacketBytes ==
    ASSUME NEW st, NEW i, NEW m, PacketIn(st, i, m), st.start[i] \in Nat
    PROVE  WholeAt(st, st.start[i], st.end[i], m)
  <1> DEFINE s == st.start[i]
             b == Len(Body(m))
  <1>1. /\ Sendable(m)
        /\ st.end[i] = s + Len(Packet(m))
        /\ \A k \in 1 .. Len(Packet(m)) : st.byte[s + (k - 1)] = Packet(m)[k]
    BY DEF PacketIn
  <1>2. /\ b \in Nat /\ Len(Packet(m)) = b + 2 /\ MinPacket <= b + 2
        /\ \A k \in 1 .. b : Packet(m)[k] = Body(m)[k]
        /\ Word(Packet(m)[b + 1], Packet(m)[b + 2]) = CRC16(Body(m))
    BY <1>1, PacketShape
  <1> HIDE DEF b, s
  <1>3. b >= 10 /\ s \in Nat
    BY <1>2, Sizes DEF s
  <1>4. \A k \in 0 .. b + 1 : st.byte[s + k] = Packet(m)[k + 1]
    <2> TAKE k \in 0 .. b + 1
    <2>1. k + 1 \in 1 .. Len(Packet(m)) /\ (k + 1) - 1 = k
      BY <1>2
    <2>2. st.byte[s + ((k + 1) - 1)] = Packet(m)[k + 1]
      BY <1>1, <2>1, Zenon
    <2>3. QED BY <2>1, <2>2
  <1>5. \A k \in 0 .. b - 1 : st.byte[s + k] = Body(m)[k + 1]
    <2> TAKE k \in 0 .. b - 1
    <2>1. k \in 0 .. b + 1 /\ k + 1 \in 1 .. b
      BY <1>2
    <2>2. QED BY <1>2, <1>4, <2>1
  <1>6. Word(st.byte[s + b], st.byte[s + b + 1]) = CRC16(Body(m))
    <2>1. b \in 0 .. b + 1 /\ b + 1 \in 0 .. b + 1 /\ (b + 1) + 1 = b + 2 /\ s + b + 1 = s + (b + 1)
      BY <1>3, <1>2
    <2>2. st.byte[s + b] = Packet(m)[b + 1]
      BY <1>4, <2>1
    <2>3. st.byte[s + (b + 1)] = Packet(m)[(b + 1) + 1]
      BY <1>4, <2>1, Zenon
    <2>4. QED BY <1>2, <2>1, <2>2, <2>3
  <1>7. StartsAt(st.byte, s)
    <2>1. 0 \in 0 .. b - 1 /\ 1 \in 0 .. b - 1 /\ 2 \in 0 .. b - 1
      BY <1>2, <1>3
    <2>2. /\ st.byte[s + 0] = Body(m)[0 + 1]
          /\ st.byte[s + 1] = Body(m)[1 + 1]
          /\ st.byte[s + 2] = Body(m)[2 + 1]
      BY <1>5, <2>1
    <2>3. Body(m)[1] = SYNC /\ Body(m)[2] = START1 /\ Body(m)[3] = START2
      BY <1>1, BodyShape
    <2>4. QED BY <1>3, <2>2, <2>3 DEF StartsAt
  <1>8. st.end[i] = s + b + 2
    <2>1. s \in Nat /\ b \in Nat /\ Len(Packet(m)) = b + 2 /\ st.end[i] = s + Len(Packet(m))
      BY <1>1, <1>2, <1>3
    <2>2. QED BY <2>1
  <1>9. BodyAt(st, s, m)
    BY <1>5 DEF BodyAt, b
  <1>10. WholeAt(st, s, st.end[i], m)
    BY <1>1, <1>2, <1>6, <1>7, <1>8, <1>9, Zenon DEF WholeAt, b
  <1>11. QED BY <1>10 DEF s

LEMMA StartOfPacket ==
    ASSUME NEW sent, NEW st, IsStream(st, sent), NEW i \in 1 .. st.n
    PROVE  StartsAt(st.byte, st.start[i])
  <1> DEFINE m == sent[st.number[i]]
  <1>1. PacketIn(st, i, m) /\ st.start[i] \in Nat
    BY PacketOfStream
  <1> HIDE DEF m
  <1>2. WholeAt(st, st.start[i], st.end[i], m)
    BY <1>1, PacketBytes, Zenon
  <1>3. QED BY <1>2, Zenon DEF WholeAt

\* What the header of that packet says.
LEMMA HeaderBytes ==
    ASSUME NEW st, NEW i, NEW m, PacketIn(st, i, m), st.start[i] \in Nat
    PROVE  HeaderAt(st, st.start[i], m)
  <1> DEFINE s == st.start[i]
             b == Len(Body(m))
  <1>1. /\ Sendable(m) /\ s \in Nat /\ b \in Nat
        /\ \A k \in 0 .. b - 1 : st.byte[s + k] = Body(m)[k + 1]
    <2>1. WholeAt(st, s, st.end[i], m)
      BY PacketBytes, Zenon
    <2> HIDE DEF s
    <2>2. Sendable(m) /\ b \in Nat /\ BodyAt(st, s, m)
      BY <2>1, Zenon DEF WholeAt
    <2>3. QED BY <2>2, Zenon DEF s, BodyAt
  <1>2. Len(m.data) \in 0 .. WORDS - 1
    BY <1>1 DEF Sendable, U16Value
  <1>3. Len(m.data) \in Nat
    BY <1>2, Sizes
  <1>4. b = 9 + (IF Len(m.data) > 0 THEN Len(m.data) ELSE 1)
    BY <1>1, BodyShape
  <1>5. /\ Word(Body(m)[4], Body(m)[5]) = m.cmd1
        /\ Word(Body(m)[6], Body(m)[7]) = m.cmd2
        /\ Word(Body(m)[8], Body(m)[9]) = Len(m.data)
        /\ \A k \in 1 .. Len(m.data) : Body(m)[9 + k] = m.data[k]
    BY <1>1, BodyShape
  <1> HIDE DEF b, s
  <1>6. /\ st.byte[s + 3] = Body(m)[4] /\ st.byte[s + 4] = Body(m)[5]
        /\ st.byte[s + 5] = Body(m)[6] /\ st.byte[s + 6] = Body(m)[7]
        /\ st.byte[s + 7] = Body(m)[8] /\ st.byte[s + 8] = Body(m)[9]
    <2>1. \A k \in {3, 4, 5, 6, 7, 8} : k \in 0 .. b - 1
      <3>1. b \in Nat /\ b >= 10
        BY <1>1, <1>3, <1>4
      <3>2. QED BY <3>1
    <2>2. \A k \in {3, 4, 5, 6, 7, 8} : st.byte[s + k] = Body(m)[k + 1]
      BY <1>1, <2>1
    <2>3. QED BY <2>2
  <1>7. \A k \in 1 .. Len(m.data) : st.byte[s + (8 + k)] = m.data[k]
    <2> TAKE k \in 1 .. Len(m.data)
    <2>1. 8 + k \in 0 .. b - 1 /\ (8 + k) + 1 = 9 + k
      BY <1>1, <1>3, <1>4
    <2>2. st.byte[s + (8 + k)] = Body(m)[(8 + k) + 1]
      BY <1>1, <2>1, Zenon
    <2>3. QED BY <1>5, <2>1, <2>2
  <1>8. DataAt(st, s, m)
    BY <1>7 DEF DataAt
  <1>9. HeaderAt(st, s, m)
    BY <1>2, <1>4, <1>5, <1>6, <1>8, Zenon DEF HeaderAt, b
  <1>10. QED BY <1>9 DEF s

-----------------------------------------------------------------------------
(* The decoder at work on a stream.                                        *)

AnyMessage == [cmd1 : U16Value, cmd2 : U16Value, data : Seq(Byte)]

\* The bytes of the first f packets have been fetched; this is the place in the
\* stream of the byte at offset.
Place(st, f) == st.end[f] - Remaining

\* The callback got the messages of the first packets of the stream.
Handed(st, f) ==
    /\ delivered \in Seq(AnyMessage) /\ Len(delivered) <= f
    /\ \A i \in 1 .. Len(delivered) : delivered[i] = traffic.sent[st.number[i]]

\* The buffer holds the rest of what was fetched, and the next packet starts
\* there or later.
Held(st, f) ==
    /\ st.end[Len(delivered)] <= Place(st, f)
    /\ Len(delivered) < f => Place(st, f) <= st.start[Len(delivered) + 1]
    /\ \A k \in 0 .. Remaining - 1 : At(k) = st.byte[Place(st, f) + k]

\* What the decoder has seen of the bytes at p.
Recognised(st, p) ==
    /\ parserState \in {"Sync", "Start", "Hader"} => st.byte[p] = SYNC
    /\ parserState \in {"Start", "Hader"} => st.byte[p + 1] = START1
    /\ parserState = "Hader" => st.byte[p + 2] = START2
    /\ parserState \in {"Data", "CRC"} =>
          LET i == Len(delivered) + 1
              m == traffic.sent[st.number[i]]
          IN  /\ p = st.start[i]
              /\ parserData = [cmd1 |-> m.cmd1, cmd2 |-> m.cmd2, length |-> Len(m.data)]

(* The decoder follows the stream: each packet is handed over when the     *)
(* decoder comes to its end, and nothing is left of the last one when the  *)
(* decoder returns.                                                        *)
Follows(st, f) ==
    /\ f \in 0 .. st.n
    /\ Handed(st, f) /\ Held(st, f)
    /\ Recognised(st, Place(st, f))
    /\ stop = FALSE
    /\ pc = "fetch" => Remaining = 0 /\ parserState = "Idle"

\* The places above are numbers.
LEMMA PlacesType ==
    ASSUME DecoderInvariant, NEW st, IsStream(st, traffic.sent), NEW f, Follows(st, f)
    PROVE  LET d == Len(delivered) IN
           /\ d \in Nat /\ d \in 0 .. st.n /\ f \in Nat /\ st.n \in Nat /\ d <= f /\ f <= st.n
           /\ Remaining \in Nat /\ offset \in Nat /\ dataSize \in Nat
           /\ Place(st, f) \in Nat
           /\ st.end[d] \in Nat /\ st.end[f] \in Nat /\ st.end[st.n] \in Nat
           /\ st.end[f] <= st.end[st.n]
           /\ st.end[d] <= Place(st, f)
           /\ Place(st, f) + Remaining = st.end[f]
  <1> DEFINE d == Len(delivered)
  <1>1. f \in Nat /\ st.n \in Nat /\ f <= st.n /\ f \in 0 .. st.n /\ st.n \in 0 .. st.n
    BY DEF IsStream, Follows
  <1>2. d \in Nat /\ d <= f
    <2>1. delivered \in Seq(AnyMessage) /\ Len(delivered) <= f
      BY DEF Follows, Handed
    <2>2. Len(delivered) \in Nat
      BY <2>1, LenProperties
    <2>3. QED BY <2>1, <2>2
  <1> HIDE DEF d
  <1>3. d \in 0 .. st.n
    BY <1>1, <1>2
  <1>4. st.end[d] \in Nat /\ st.end[f] \in Nat /\ st.end[st.n] \in Nat /\ st.end[f] <= st.end[st.n]
    BY <1>1, <1>3 DEF IsStream
  <1>5. Remaining \in Nat /\ offset \in Nat /\ dataSize \in Nat
    BY LoopRemaining, Sizes DEF DecoderInvariant, TypeOK
  <1>6. st.end[d] <= Place(st, f)
    BY DEF Follows, Held, d
  <1>7. Place(st, f) \in Nat /\ Place(st, f) + Remaining = st.end[f]
    BY <1>4, <1>5, <1>6 DEF Place
  <1>8. QED BY <1>1, <1>2, <1>3, <1>4, <1>5, <1>6, <1>7 DEF d

\* A turn of the decoder's loop finds a whole packet in the buffer.
LEMMA LoopInStream ==
    ASSUME DecoderInvariant, NEW st, IsStream(st, traffic.sent), NEW f, Follows(st, f),
           NEW state, InLoop(state)
    PROVE  LET i == Len(delivered) + 1 IN
           /\ Len(delivered) < f /\ i \in 1 .. st.n /\ i \in 0 .. st.n
           /\ st.start[i] \in Nat /\ st.end[i] \in Nat
           /\ Place(st, f) <= st.start[i]
           /\ Place(st, f) \in st.end[Len(delivered)] .. st.start[i]
           /\ st.end[i] <= Place(st, f) + Remaining
           /\ \A k \in 0 .. 11 : At(k) = st.byte[Place(st, f) + k]
  <1> DEFINE d == Len(delivered)
             i == d + 1
             at == Place(st, f)
  <1>1. /\ d \in Nat /\ f \in Nat /\ st.n \in Nat /\ d <= f /\ f <= st.n
        /\ Remaining \in Nat /\ at \in Nat
        /\ st.end[d] \in Nat /\ st.end[f] \in Nat
        /\ st.end[d] <= at /\ at + Remaining = st.end[f]
    BY PlacesType
  <1> HIDE DEF at, d
  <1>2. 12 <= Remaining
    BY Sizes DEF InLoop
  <1>3. d # f
    BY <1>1, <1>2
  <1>4. d < f /\ i \in 1 .. st.n /\ i \in 0 .. st.n /\ i <= f /\ f \in 0 .. st.n
    BY <1>1, <1>3
  <1>5. st.start[i] \in Nat /\ st.end[i] \in Nat /\ st.end[i] <= st.end[f]
    BY <1>4 DEF IsStream
  <1>6. at <= st.start[i]
    BY <1>4 DEF Follows, Held, at, d
  <1>7. \A k \in 0 .. 11 : At(k) = st.byte[at + k]
    <2>1. \A k \in 0 .. Remaining - 1 : At(k) = st.byte[at + k]
      BY DEF Follows, Held, at
    <2>2. \A k \in 0 .. 11 : k \in 0 .. Remaining - 1
      BY <1>1, <1>2
    <2>3. QED BY <2>1, <2>2
  <1>8. at \in st.end[d] .. st.start[i] /\ st.end[i] <= at + Remaining
    BY <1>1, <1>5, <1>6
  <1>9. QED BY <1>4, <1>5, <1>6, <1>7, <1>8 DEF at, d

\* The decoder gives up a place where no packet starts.
LEMMA SkipFollows ==
    ASSUME DecoderInvariant, NEW st, IsStream(st, traffic.sent), NEW f, Follows(st, f),
           NEW state, InLoop(state), SkipByte,
           UNCHANGED <<data, dataSize, parserData, pc, stop, line, delivered>>,
           Place(st, f) # st.start[Len(delivered) + 1]
    PROVE  Follows(st, f)'
  <1> DEFINE d == Len(delivered)
             i == d + 1
             at == Place(st, f)
  <1>1. /\ d < f /\ i \in 1 .. st.n
        /\ st.start[i] \in Nat /\ at <= st.start[i] /\ at # st.start[i]
        /\ \A k \in 0 .. 11 : At(k) = st.byte[at + k]
    BY LoopInStream
  <1>2. /\ Remaining \in Nat /\ at \in Nat /\ st.end[f] \in Nat /\ st.end[d] \in Nat
        /\ st.end[d] <= at /\ at + Remaining = st.end[f]
        /\ offset \in Nat /\ dataSize \in Nat
    BY PlacesType
  <1>3. /\ offset' = offset + 1 /\ dataSize' = dataSize /\ data' = data
        /\ parserState' = "Idle" /\ pc' = pc /\ stop' = stop
        /\ delivered' = delivered /\ traffic' = traffic
    BY DEF SkipByte, line
  <1>4. Remaining' = Remaining - 1
    BY <1>2, <1>3 DEF Remaining
  <1>5. Place(st, f)' = at + 1
    <2> DEFINE last == st.end[f]
    <2>1. last - (Remaining - 1) = (last - Remaining) + 1
      <3>1. last \in Nat /\ Remaining \in Nat
        BY <1>2, Zenon
      <3> HIDE DEF last
      <3>2. QED BY <3>1
    <2>2. QED BY <1>4, <2>1 DEF Place
  <1>6. \A k \in 0 .. Remaining - 1 : At(k) = st.byte[at + k]
    BY DEF Follows, Held
  <1>7. \A k \in 0 .. Remaining' - 1 : At(k)' = st.byte[Place(st, f)' + k]
    <2> TAKE k \in 0 .. Remaining' - 1
    <2> HIDE DEF at
    <2>1. k + 1 \in 0 .. Remaining - 1 /\ at + 1 + k = at + (k + 1)
          /\ offset + 1 + k = offset + (k + 1)
      BY <1>2, <1>4
    <2>2. At(k + 1) = st.byte[at + (k + 1)]
      BY <1>6, <2>1, Zenon
    <2>3. At(k)' = At(k + 1)
      BY <1>3, <2>1 DEF At
    <2>4. QED BY <1>5, <2>1, <2>2, <2>3
  <1>8. Held(st, f)'
    <2>1. st.end[d] <= at + 1 /\ at + 1 <= st.start[i]
      <3>1. /\ st.start[i] \in Nat /\ at <= st.start[i] /\ at # st.start[i]
            /\ at \in Nat /\ st.end[d] \in Nat /\ st.end[d] <= at
        BY <1>1, <1>2
      <3> HIDE DEF at, i, d
      <3>2. QED BY <3>1
    <2>2. QED BY <1>3, <1>5, <1>7, <2>1 DEF Held
  <1>9. Recognised(st, Place(st, f))'
    BY <1>3 DEF Recognised
  <1>10. /\ f \in 0 .. st.n /\ Handed(st, f)' /\ stop' = FALSE
         /\ pc' # "fetch"
    BY <1>3 DEF Follows, Handed, InLoop
  <1>11. QED BY <1>8, <1>9, <1>10 DEF Follows

\* The decoder goes on to its next state at the same place.
LEMMA StayFollows ==
    ASSUME NEW st, NEW f, Follows(st, f), pc # "fetch",
           UNCHANGED <<data, offset, dataSize, pc, stop, line, delivered>>,
           Place(st, f)' = Place(st, f) => Recognised(st, Place(st, f))'
    PROVE  Follows(st, f)'
  <1>1. /\ data' = data /\ offset' = offset /\ dataSize' = dataSize /\ pc' = pc
        /\ stop' = stop /\ delivered' = delivered /\ traffic' = traffic
    BY DEF line
  <1>2. Place(st, f)' = Place(st, f)
    BY <1>1 DEF Place, Remaining
  <1>3. Held(st, f)'
    BY <1>1, <1>2 DEF Follows, Held, At, Remaining
  <1>4. /\ f \in 0 .. st.n /\ Handed(st, f)' /\ stop' = FALSE
        /\ pc' # "fetch"
    BY <1>1 DEF Follows, Handed
  <1>5. QED BY <1>2, <1>3, <1>4 DEF Follows

\* The decoder compares one code byte.
LEMMA IdleFollows ==
    ASSUME DecoderInvariant, NEW st, IsStream(st, traffic.sent), NEW f, Follows(st, f),
           DecodeIdle
    PROVE  Follows(st, f)'
  <1> DEFINE i == Len(delivered) + 1
             at == Place(st, f)
  <1>1. InLoop("Idle") /\ UNCHANGED <<data, dataSize, parserData, pc, stop, line, delivered>>
    BY DEF DecodeIdle, Match
  <1>2. i \in 1 .. st.n /\ at \in Nat /\ At(0) = st.byte[at + 0]
    <2>1. i \in 1 .. st.n /\ \A k \in 0 .. 11 : At(k) = st.byte[at + k]
      BY <1>1, LoopInStream
    <2>2. at \in Nat
      BY PlacesType
    <2>3. QED BY <2>1, <2>2
  <1>3. At(0) = st.byte[at]
    BY <1>2
  <1>4. StartsAt(st.byte, st.start[i])
    BY <1>2, StartOfPacket
  <1>5. CASE At(0) = SYNC /\ parserState' = "Sync" /\ UNCHANGED offset
    <2>1. at' = at => Recognised(st, at)'
      BY <1>3, <1>5 DEF Recognised
    <2>2. QED BY <1>1, <1>5, <2>1, StayFollows DEF InLoop
  <1>6. CASE At(0) # SYNC /\ SkipByte
    <2>1. at # st.start[i]
      BY <1>3, <1>4, <1>6 DEF StartsAt
    <2>2. QED BY <1>1, <1>6, <2>1, SkipFollows
  <1>7. QED BY <1>5, <1>6 DEF DecodeIdle, Match, SYNC_OFFSET

LEMMA SyncFollows ==
    ASSUME DecoderInvariant, NEW st, IsStream(st, traffic.sent), NEW f, Follows(st, f),
           DecodeSync
    PROVE  Follows(st, f)'
  <1> DEFINE i == Len(delivered) + 1
             at == Place(st, f)
  <1>1. InLoop("Sync") /\ UNCHANGED <<data, dataSize, parserData, pc, stop, line, delivered>>
    BY DEF DecodeSync, Match
  <1>2. i \in 1 .. st.n /\ At(1) = st.byte[at + 1]
    <2>1. i \in 1 .. st.n /\ \A k \in 0 .. 11 : At(k) = st.byte[at + k]
      BY <1>1, LoopInStream
    <2>2. QED BY <2>1
  <1>3. st.byte[at] = SYNC
    BY <1>1 DEF Follows, Recognised, InLoop
  <1>4. StartsAt(st.byte, st.start[i])
    BY <1>2, StartOfPacket
  <1>5. CASE At(1) = START1 /\ parserState' = "Start" /\ UNCHANGED offset
    <2>1. at' = at => Recognised(st, at)'
      BY <1>2, <1>3, <1>5 DEF Recognised
    <2>2. QED BY <1>1, <1>5, <2>1, StayFollows DEF InLoop
  <1>6. CASE At(1) # START1 /\ SkipByte
    <2>1. at # st.start[i]
      BY <1>2, <1>4, <1>6 DEF StartsAt
    <2>2. QED BY <1>1, <1>6, <2>1, SkipFollows
  <1>7. QED BY <1>5, <1>6 DEF DecodeSync, Match, START1_OFFSET

LEMMA StartFollows ==
    ASSUME DecoderInvariant, NEW st, IsStream(st, traffic.sent), NEW f, Follows(st, f),
           DecodeStart
    PROVE  Follows(st, f)'
  <1> DEFINE i == Len(delivered) + 1
             at == Place(st, f)
  <1>1. InLoop("Start") /\ UNCHANGED <<data, dataSize, parserData, pc, stop, line, delivered>>
    BY DEF DecodeStart, Match
  <1>2. i \in 1 .. st.n /\ At(2) = st.byte[at + 2]
    <2>1. i \in 1 .. st.n /\ \A k \in 0 .. 11 : At(k) = st.byte[at + k]
      BY <1>1, LoopInStream
    <2>2. QED BY <2>1
  <1>3. st.byte[at] = SYNC /\ st.byte[at + 1] = START1
    BY <1>1 DEF Follows, Recognised, InLoop
  <1>4. StartsAt(st.byte, st.start[i])
    BY <1>2, StartOfPacket
  <1>5. CASE At(2) = START2 /\ parserState' = "Hader" /\ UNCHANGED offset
    <2>1. at' = at => Recognised(st, at)'
      BY <1>2, <1>3, <1>5 DEF Recognised
    <2>2. QED BY <1>1, <1>5, <2>1, StayFollows DEF InLoop
  <1>6. CASE At(2) # START2 /\ SkipByte
    <2>1. at # st.start[i]
      BY <1>2, <1>4, <1>6 DEF StartsAt
    <2>2. QED BY <1>1, <1>6, <2>1, SkipFollows
  <1>7. QED BY <1>5, <1>6 DEF DecodeStart, Match, START2_OFFSET

\* With all three code bytes seen, the place is the start of a packet, and what
\* is read next is its header.
LEMMA HaderFollows ==
    ASSUME DecoderInvariant, NEW st, IsStream(st, traffic.sent), NEW f, Follows(st, f),
           DecodeHader
    PROVE  Follows(st, f)'
  <1> DEFINE d == Len(delivered)
             i == d + 1
             at == Place(st, f)
             m == traffic.sent[st.number[i]]
  <1>1. InLoop("Hader") /\ UNCHANGED <<data, offset, dataSize, pc, stop, line, delivered>>
    BY DEF DecodeHader
  <1>2. /\ i \in 1 .. st.n /\ at \in st.end[d] .. st.start[i] /\ st.start[i] \in Nat
        /\ \A k \in 0 .. 11 : At(k) = st.byte[at + k]
    BY <1>1, LoopInStream
  <1>3. StartsAt(st.byte, at)
    BY <1>1 DEF Follows, Recognised, InLoop, StartsAt
  <1>4. i - 1 = d /\ at \in Nat /\ st.end[d] \in Nat
    BY PlacesType
  <1>5. \A p \in st.end[i - 1] .. st.start[i] - 1 : ~StartsAt(st.byte, p)
    BY <1>2, PacketOfStream DEF PacketIn
  <1>6. at = st.start[i]
    <2>1. at \notin st.end[d] .. st.start[i] - 1
      BY <1>3, <1>4, <1>5
    <2> HIDE DEF at, i, d
    <2>2. QED BY <1>2, <1>4, <2>1
  <1>7. /\ Word(st.byte[at + 3], st.byte[at + 4]) = m.cmd1
        /\ Word(st.byte[at + 5], st.byte[at + 6]) = m.cmd2
        /\ Word(st.byte[at + 7], st.byte[at + 8]) = Len(m.data)
    <2>1. PacketIn(st, i, m) /\ st.start[i] \in Nat
      BY <1>2, PacketOfStream
    <2> HIDE DEF at, m, i
    <2>2. HeaderAt(st, at, m)
      BY <1>6, <2>1, HeaderBytes, Zenon
    <2>3. QED BY <2>2, Zenon DEF HeaderAt
  <1>8. /\ WordAt(3) = m.cmd1 /\ WordAt(5) = m.cmd2 /\ WordAt(7) = Len(m.data)
    <2>1. /\ At(3) = st.byte[at + 3] /\ At(4) = st.byte[at + 4]
          /\ At(5) = st.byte[at + 5] /\ At(6) = st.byte[at + 6]
          /\ At(7) = st.byte[at + 7] /\ At(8) = st.byte[at + 8]
      BY <1>2
    <2>2. 3 + 1 = 4 /\ 5 + 1 = 6 /\ 7 + 1 = 8
      OBVIOUS
    <2>3. WordAt(3) = Word(At(3), At(4)) /\ WordAt(5) = Word(At(5), At(6))
          /\ WordAt(7) = Word(At(7), At(8))
      BY <2>2 DEF WordAt
    <2>4. QED BY <1>7, <2>1, <2>3
  <1>9. parserData' = [cmd1 |-> m.cmd1, cmd2 |-> m.cmd2, length |-> Len(m.data)]
    BY <1>8 DEF DecodeHader, CMD1_OFFSET, CMD2_OFFSET, LENGTH_OFFSET
  <1>10. at' = at => Recognised(st, at)'
    <2>1. parserState' = "Data" /\ delivered' = delivered /\ traffic' = traffic
      BY DEF DecodeHader, line
    <2>2. QED BY <1>6, <1>9, <2>1 DEF Recognised
  <1>11. QED BY <1>1, <1>10, StayFollows DEF InLoop

\* The packet is complete, so the loop is not left.
LEMMA DataFollows ==
    ASSUME DecoderInvariant, NEW st, IsStream(st, traffic.sent), NEW f, Follows(st, f),
           DecodeData
    PROVE  Follows(st, f)'
  <1> DEFINE d == Len(delivered)
             i == d + 1
             at == Place(st, f)
             m == traffic.sent[st.number[i]]
  <1>1. InLoop("Data") /\ UNCHANGED <<data, offset, dataSize, parserData, pc, line, delivered>>
    BY DEF DecodeData
  <1>2. i \in 1 .. st.n /\ st.end[i] <= at + Remaining
    BY <1>1, LoopInStream
  <1>3. at = st.start[i] /\ parserData.length = Len(m.data)
    BY <1>1 DEF Follows, Recognised, InLoop
  <1>4. /\ Len(Body(m)) = 9 + (IF Len(m.data) > 0 THEN Len(m.data) ELSE 1)
        /\ st.end[i] = at + Len(Body(m)) + 2 /\ at \in Nat
    <2>1. PacketIn(st, i, m) /\ st.start[i] \in Nat
      BY <1>2, PacketOfStream
    <2> HIDE DEF at, m, i
    <2>2. HeaderAt(st, at, m) /\ WholeAt(st, at, st.end[i], m) /\ at \in Nat
      BY <1>3, <2>1, HeaderBytes, PacketBytes, Zenon
    <2>3. QED BY <2>2, Zenon DEF HeaderAt, WholeAt
  <1>5. IpcDataSize + MinPacket = Len(Body(m)) + 2 /\ Len(Body(m)) \in Nat
    <2>1. /\ Len(m.data) \in Nat
          /\ Len(m.data) > 0 => IpcDataSize = Len(m.data) - 1
          /\ Len(m.data) = 0 => IpcDataSize = 0
      BY <1>3, IpcDataSizeType, Sizes DEF DecoderInvariant
    <2>2. CASE Len(m.data) > 0
      <3> DEFINE L == Len(m.data)
                 b == Len(Body(m))
      <3>1. L \in Nat /\ L > 0 /\ IpcDataSize = L - 1 /\ b = 9 + L /\ MinPacket = 12
        BY <1>4, <2>1, <2>2, Sizes
      <3> HIDE DEF L, b
      <3>2. IpcDataSize + MinPacket = b + 2 /\ b \in Nat
        BY <3>1
      <3>3. QED BY <3>2 DEF b
    <2>3. CASE Len(m.data) = 0
      <3>1. IpcDataSize = 0 /\ Len(Body(m)) = 10 /\ MinPacket = 12
        BY <1>4, <2>1, <2>3, Sizes
      <3>2. QED BY <3>1
    <2>4. QED BY <2>1, <2>2, <2>3
  <1>6. Remaining \in Nat /\ U16(Remaining) = Remaining
    BY LoopRemaining, Sizes
  <1>7. U16(Remaining) >= IpcDataSize + MinPacket
    <2> HIDE DEF at, m, i
    <2>1. QED BY <1>2, <1>4, <1>5, <1>6
  <1>8. parserState' = "CRC" /\ UNCHANGED stop
    <2>1. ~(U16(Remaining) < IpcDataSize + MinPacket)
      BY <1>5, <1>6, <1>7
    <2>2. QED BY <2>1 DEF DecodeData
  <1>9. at' = at => Recognised(st, at)'
    <2>1. delivered' = delivered /\ traffic' = traffic /\ parserData' = parserData
          /\ parserState = "Data"
      BY <1>1 DEF InLoop, line
    <2>2. QED BY <1>8, <2>1 DEF Recognised, Follows
  <1>10. QED BY <1>1, <1>8, <1>9, StayFollows DEF InLoop

\* Packet i is the one that the decoder comes to, and m its message.
Coming(st, i, m) == i = Len(delivered) + 1 /\ m = traffic.sent[st.number[i]]

\* The end of a packet: its checksum is right, and its message is handed over.
LEMMA MessageOfPacket ==
    ASSUME DecoderInvariant, NEW st, IsStream(st, traffic.sent), NEW f, Follows(st, f),
           InLoop("CRC"), NEW i, NEW m, Coming(st, i, m)
    PROVE  /\ CrcOffset = Len(Body(m)) /\ Len(Body(m)) \in Nat
           /\ U16(Remaining) >= CrcOffset + 2
           /\ st.end[i] = Place(st, f) + CrcOffset + 2
           /\ CrcMatches
           /\ Message = m
  <1> DEFINE at == Place(st, f)
             s == st.start[i]
             b == Len(Body(m))
             L == Len(m.data)
  <1>1. i \in 1 .. st.n /\ st.end[i] <= at + Remaining
    BY LoopInStream DEF Coming
  <1>2. /\ at = s
        /\ parserData = [cmd1 |-> m.cmd1, cmd2 |-> m.cmd2, length |-> L]
    BY DEF Follows, Recognised, InLoop, Coming
  <1>p. PacketIn(st, i, m) /\ s \in Nat
    BY <1>1, PacketOfStream DEF Coming
  <1>h. HeaderAt(st, s, m) /\ WholeAt(st, s, st.end[i], m)
    BY <1>p, HeaderBytes, PacketBytes, Zenon
  <1> HIDE DEF s
  <1>3. /\ L \in 0 .. WORDS - 1
        /\ b = 9 + (IF L > 0 THEN L ELSE 1)
        /\ DataAt(st, s, m)
    BY <1>h, Zenon DEF HeaderAt
  <1>4. /\ b \in Nat /\ Sendable(m)
        /\ st.end[i] = s + b + 2
        /\ BodyAt(st, s, m)
        /\ Word(st.byte[s + b], st.byte[s + b + 1]) = CRC16(Body(m))
    BY <1>h, Zenon DEF WholeAt
  <1> HIDE DEF at, b
  <1>n. s \in Nat /\ b \in Nat
    BY <1>p, <1>4
  <1>5. L \in Nat /\ (L > 0 => b = 9 + L) /\ (L = 0 => b = 10)
    <2>1. L \in Nat
      BY <1>3, Sizes
    <2> HIDE DEF L
    <2>2. QED BY <1>3, <2>1
  <1>6. CrcOffset = b
    <2>1. /\ CrcOffset \in Nat /\ CrcOffset + 2 = IpcDataSize + MinPacket
      BY ChecksumPlace, Sizes DEF InLoop
    <2>2. /\ L > 0 => IpcDataSize = L - 1
          /\ L = 0 => IpcDataSize = 0
      BY <1>2, IpcDataSizeType DEF DecoderInvariant
    <2>3. MinPacket = 12 /\ b \in Nat
      BY <1>n, Sizes
    <2> HIDE DEF L
    <2>4. CASE L > 0
      BY <1>5, <2>1, <2>2, <2>3, <2>4
    <2>5. CASE L = 0
      BY <1>5, <2>1, <2>2, <2>3, <2>5
    <2>6. QED BY <1>5, <2>4, <2>5
  <1>7. U16(Remaining) >= CrcOffset + 2 /\ Remaining \in Nat /\ CrcOffset + 2 <= Remaining
    BY ChecksumPlace, LoopRemaining, Sizes DEF InLoop
  <1>8. \A k \in 0 .. b + 1 : At(k) = st.byte[s + k]
    <2>1. \A k \in 0 .. Remaining - 1 : At(k) = st.byte[at + k]
      BY DEF Follows, Held, at
    <2>2. \A k \in 0 .. b + 1 : k \in 0 .. Remaining - 1
      BY <1>4, <1>6, <1>7
    <2>3. QED BY <1>2, <2>1, <2>2
  <1>9. CrcMatches
    <2>1. WordAt(b) = CRC16(Body(m))
      <3>1. b \in 0 .. b + 1 /\ b + 1 \in 0 .. b + 1 /\ s + b + 1 = s + (b + 1)
        BY <1>n
      <3>2. At(b) = st.byte[s + b] /\ At(b + 1) = st.byte[s + (b + 1)]
        BY <1>8, <3>1
      <3>3. QED BY <1>4, <3>1, <3>2 DEF WordAt
    <2>2. [k \in 1 .. b |-> At(k - 1)] = Body(m)
      <3>1. Body(m) \in Seq(Byte)
        BY <1>4, BodyShape
      <3>2. Body(m) = [k \in 1 .. b |-> Body(m)[k]]
        BY <3>1 DEF b
      <3>3. \A k \in 1 .. b : At(k - 1) = Body(m)[k]
        <4> TAKE k \in 1 .. b
        <4>1. k - 1 \in 0 .. b - 1 /\ k - 1 \in 0 .. b + 1 /\ (k - 1) + 1 = k
          BY <1>n
        <4>2. At(k - 1) = st.byte[s + (k - 1)]
          BY <1>8, <4>1, Zenon
        <4>3. st.byte[s + (k - 1)] = Body(m)[(k - 1) + 1]
          BY <1>4, <4>1, Zenon DEF BodyAt, b
        <4>4. QED BY <4>1, <4>2, <4>3
      <3>4. QED BY <3>2, <3>3
    <2>3. QED BY <1>6, <2>1, <2>2 DEF CrcMatches
  <1>10. Message = m
    <2>1. m = [cmd1 |-> m.cmd1, cmd2 |-> m.cmd2, data |-> m.data] /\ m.data \in Seq(Byte)
      BY <1>4 DEF Sendable
    <2>2. m.data = [k \in 1 .. L |-> m.data[k]]
      BY <2>1
    <2>3. \A k \in 1 .. L : At(DATA_OFFSET + k - 1) = m.data[k]
      <3> TAKE k \in 1 .. L
      <3>1. 8 + k \in 0 .. b + 1 /\ DATA_OFFSET + k - 1 = 8 + k
        <4>1. L \in Int /\ b \in Int /\ (L > 0 => b = 9 + L)
          BY <1>n, <1>5
        <4> HIDE DEF L
        <4>2. k \in Int /\ 1 <= k /\ k <= L
          BY <4>1
        <4>3. DATA_OFFSET = 9
          BY DEF DATA_OFFSET
        <4>4. DATA_OFFSET + k - 1 = 8 + k
          BY <4>2, <4>3
        <4>5. 0 <= 8 + k /\ 8 + k <= b + 1 /\ 8 + k \in Int
          BY <4>1, <4>2
        <4>6. QED BY <4>1, <4>4, <4>5
      <3>2. At(8 + k) = st.byte[s + (8 + k)]
        BY <1>8, <3>1, Zenon
      <3>3. st.byte[s + (8 + k)] = m.data[k]
        BY <1>3, ZenonT(120) DEF DataAt
      <3>4. QED BY <3>1, <3>2, <3>3, Zenon
    <2>4. [k \in 1 .. L |-> At(DATA_OFFSET + k - 1)] = m.data
      <3>1. [k \in 1 .. L |-> At(DATA_OFFSET + k - 1)] = [k \in 1 .. L |-> m.data[k]]
        BY <2>3, Zenon
      <3>2. QED BY <2>2, <3>1, Zenon
    <2>5. QED BY <1>2, <2>1, <2>4 DEF Message
  <1>11. QED BY <1>2, <1>4, <1>6, <1>7, <1>9, <1>10 DEF at, b

LEMMA CRCFollows ==
    ASSUME DecoderInvariant, NEW st, IsStream(st, traffic.sent), NEW f, Follows(st, f),
           DecodeCRC
    PROVE  Follows(st, f)'
  <1> DEFINE d == Len(delivered)
             i == d + 1
             at == Place(st, f)
             m == traffic.sent[st.number[i]]
             size == CrcOffset + 2
  <1>1. InLoop("CRC") /\ UNCHANGED <<data, dataSize, pc, line>>
    BY DEF DecodeCRC
  <1>2. /\ d < f /\ i \in 1 .. st.n /\ st.end[i] \in Nat /\ st.end[i] <= at + Remaining
    BY <1>1, LoopInStream
  <1>3. /\ d \in Nat /\ f \in Nat /\ st.n \in Nat /\ f <= st.n
        /\ Remaining \in Nat /\ at \in Nat /\ offset \in Nat /\ dataSize \in Nat
        /\ st.end[f] \in Nat /\ at + Remaining = st.end[f]
    BY PlacesType
  <1>4. /\ CrcOffset \in Nat /\ U16(Remaining) >= CrcOffset + 2
        /\ st.end[i] = at + CrcOffset + 2 /\ CrcMatches /\ Message = m
    <2>1. InLoop("CRC") /\ Coming(st, i, m)
      BY <1>1 DEF Coming
    <2> HIDE DEF i, m, at
    <2>2. /\ CrcOffset = Len(Body(m)) /\ Len(Body(m)) \in Nat
          /\ U16(Remaining) >= CrcOffset + 2
          /\ st.end[i] = Place(st, f) + CrcOffset + 2
          /\ CrcMatches /\ Message = m
      BY <2>1, MessageOfPacket, Zenon
    <2>3. CrcOffset \in Nat
      BY <2>2, Zenon
    <2>4. QED BY <2>2, <2>3, Zenon DEF at
  <1>5. /\ delivered' = Append(delivered, m)
        /\ parserState' = "Idle" /\ stop' = FALSE
        /\ offset' = offset + CrcOffset + 2
    BY <1>4 DEF DecodeCRC
  <1>6. data' = data /\ dataSize' = dataSize /\ pc' = pc /\ traffic' = traffic
    BY <1>1 DEF line
  <1>7. size \in Nat /\ offset' = offset + size /\ st.end[i] = at + size /\ size <= Remaining
    <2>1. offset + CrcOffset + 2 = offset + size /\ at + CrcOffset + 2 = at + size /\ size \in Nat
      <3>1. CrcOffset \in Nat /\ offset \in Nat /\ at \in Nat
        BY <1>3, <1>4
      <3> HIDE DEF at
      <3>2. QED BY <3>1
    <2>2. offset' = offset + size /\ st.end[i] = at + size
      BY <1>4, <1>5, <2>1, Zenon
    <2>3. at \in Nat /\ Remaining \in Nat /\ at + size <= at + Remaining
      BY <1>2, <1>3, <2>2
    <2> HIDE DEF size, at, i
    <2>4. size <= Remaining
      BY <2>1, <2>3
    <2>5. QED BY <2>1, <2>2, <2>4
  <1> HIDE DEF size
  <1>8. Remaining' = Remaining - size
    BY <1>3, <1>6, <1>7 DEF Remaining
  <1>9. Place(st, f)' = at + size
    <2> DEFINE last == st.end[f]
    <2>1. last - (Remaining - size) = (last - Remaining) + size
      <3>1. last \in Nat /\ Remaining \in Nat /\ size \in Nat
        BY <1>3, <1>7, Zenon
      <3> HIDE DEF last
      <3>2. QED BY <3>1
    <2>2. QED BY <1>8, <2>1 DEF Place
  <1>10. m \in AnyMessage
    <2>1. PacketIn(st, i, m)
      BY <1>2, PacketOfStream
    <2> HIDE DEF m
    <2>2. QED BY <2>1 DEF PacketIn, Sendable, AnyMessage
  <1>11. /\ delivered' \in Seq(AnyMessage) /\ Len(delivered') = i
         /\ \A j \in 1 .. d : delivered'[j] = delivered[j]
         /\ delivered'[i] = m
    <2>1. delivered \in Seq(AnyMessage)
      BY DEF Follows, Handed
    <2> HIDE DEF m
    <2>2. QED BY <1>5, <1>10, <2>1, AppendProperties
  <1>12. Handed(st, f)'
    <2>1. i <= f
      <3> HIDE DEF d
      <3>1. QED BY <1>2, <1>3
    <2>2. \A j \in 1 .. d : delivered[j] = traffic.sent[st.number[j]]
      BY DEF Follows, Handed
    <2>3. \A j \in 1 .. i : j \in 1 .. d \/ j = i
      <3>1. d \in Nat
        BY <1>3, Zenon
      <3> HIDE DEF d
      <3>2. QED BY <3>1
    <2>4. \A j \in 1 .. i : delivered'[j] = traffic.sent[st.number[j]]
      BY <1>11, <2>2, <2>3
    <2>5. QED BY <1>6, <1>11, <2>1, <2>4 DEF Handed
  <1>13. \A k \in 0 .. Remaining' - 1 : At(k)' = st.byte[Place(st, f)' + k]
    <2> TAKE k \in 0 .. Remaining' - 1
    <2>1. \A j \in 0 .. Remaining - 1 : At(j) = st.byte[at + j]
      BY DEF Follows, Held
    <2> HIDE DEF at
    <2>2. /\ k + size \in 0 .. Remaining - 1 /\ (at + size) + k = at + (k + size)
          /\ (offset + size) + k = offset + (k + size)
      BY <1>3, <1>7, <1>8
    <2>3. At(k + size) = st.byte[at + (k + size)]
      BY <2>1, <2>2, Zenon
    <2>4. At(k)' = At(k + size)
      BY <1>6, <1>7, <2>2 DEF At
    <2>5. QED BY <1>9, <2>2, <2>3, <2>4
  <1>14. Held(st, f)'
    <2>1. i < f => st.end[i] <= st.start[i + 1]
      <3> SUFFICES ASSUME i < f PROVE st.end[i] <= st.start[i + 1]
        OBVIOUS
      <3>1. i + 1 \in 1 .. st.n /\ (i + 1) - 1 = i
        <4>1. d \in Nat /\ f \in Nat /\ st.n \in Nat /\ f <= st.n
          BY <1>3, Zenon
        <4> HIDE DEF d
        <4>2. QED BY <4>1
      <3>2. st.end[(i + 1) - 1] <= st.start[i + 1]
        BY <3>1, PacketOfStream DEF PacketIn
      <3>3. QED BY <3>1, <3>2
    <2>2. Place(st, f)' = st.end[i]
      BY <1>7, <1>9
    <2>3. st.end[i] <= st.end[i]
      BY <1>2
    <2>4. QED BY <1>11, <1>13, <2>1, <2>2, <2>3 DEF Held
  <1>15. Recognised(st, Place(st, f))'
    BY <1>5 DEF Recognised
  <1>16. f \in 0 .. st.n /\ pc' # "fetch"
    BY <1>1, <1>6 DEF Follows, InLoop
  <1>17. QED BY <1>5, <1>12, <1>14, <1>15, <1>16 DEF Follows

\* The decoder returns when it has come to the end of what was fetched.
LEMMA CompactFollows ==
    ASSUME DecoderInvariant, NEW st, IsStream(st, traffic.sent), NEW f, Follows(st, f),
           Compact
    PROVE  Follows(st, f)'
  <1> DEFINE d == Len(delivered)
             at == Place(st, f)
  <1>1. /\ stop' = FALSE /\ pc' = "fetch" /\ offset' = 0 /\ dataSize' = Remaining
        /\ parserState' = parserState /\ parserData' = parserData
        /\ traffic' = traffic /\ delivered' = delivered
    BY DEF Compact, Compacted, line
  <1>2. /\ d \in Nat /\ f \in Nat /\ st.n \in Nat /\ f <= st.n /\ d <= f
        /\ Remaining \in Nat /\ at \in Nat /\ offset \in Nat /\ dataSize \in Nat
        /\ st.end[d] \in Nat /\ st.end[f] \in Nat
        /\ st.end[d] <= at /\ at + Remaining = st.end[f]
    BY PlacesType
  <1>3. Remaining < 12
    BY <1>2, Sizes DEF Compact, Follows, Remaining
  <1>4. d = f
    <2> SUFFICES ASSUME d # f PROVE FALSE
      OBVIOUS
    <2> DEFINE i == d + 1
               m == traffic.sent[st.number[i]]
    <2>1. d < f /\ i \in 1 .. st.n /\ i \in 0 .. st.n /\ f \in 0 .. st.n /\ i <= f
      <3>1. d \in Nat /\ f \in Nat /\ st.n \in Nat /\ f <= st.n /\ d <= f /\ d # f
        BY <1>2, Zenon
      <3> HIDE DEF d
      <3>2. QED BY <3>1
    <2>2. PacketIn(st, i, m) /\ st.start[i] \in Nat /\ st.end[i] \in Nat
      BY <2>1, PacketOfStream
    <2>3. st.end[i] <= st.end[f]
      BY <2>1 DEF IsStream
    <2>4. at <= st.start[i]
      BY <2>1 DEF Follows, Held
    <2> HIDE DEF at, m, d, i
    <2>5. st.end[i] = st.start[i] + Len(Body(m)) + 2 /\ 12 <= Len(Body(m)) + 2 /\ Len(Body(m)) \in Nat
      <3>1. WholeAt(st, st.start[i], st.end[i], m)
        BY <2>2, PacketBytes, Zenon
      <3>2. QED BY <3>1, Sizes DEF WholeAt
    <2> DEFINE b == Len(Body(m))
               s == st.start[i]
               e == st.end[i]
               last == st.end[f]
    <2>6. /\ b \in Nat /\ s \in Nat /\ e \in Nat /\ last \in Nat
          /\ at \in Nat /\ Remaining \in Nat
      BY <1>2, <2>2, <2>5, Zenon
    <2>7. e = s + b + 2 /\ 12 <= b + 2 /\ e <= last /\ at <= s /\ at + Remaining = last
      BY <1>2, <2>3, <2>4, <2>5, Zenon
    <2> HIDE DEF b, s, e, last
    <2>8. QED BY <1>3, <2>6, <2>7
  <1>5. Remaining = 0 /\ at = st.end[f]
    <2>1. st.end[f] <= at
      BY <1>2, <1>4
    <2> DEFINE last == st.end[f]
    <2>2. /\ last \in Nat /\ at \in Nat /\ Remaining \in Nat
          /\ last <= at /\ at + Remaining = last
      BY <1>2, <2>1, Zenon
    <2> HIDE DEF at, d, last
    <2>3. Remaining = 0 /\ at = last
      BY <2>2
    <2>4. QED BY <2>3 DEF last
  <1>6. Remaining' = 0
    BY <1>1, <1>5 DEF Remaining
  <1>7. Place(st, f)' = at
    BY <1>2, <1>5, <1>6 DEF Place
  <1>8. Held(st, f)'
    <2>1. ~(d < f) /\ st.end[d] <= at
      BY <1>2, <1>4
    <2>2. \A k \in 0 .. Remaining' - 1 : FALSE
      BY <1>6
    <2>3. QED BY <1>1, <1>7, <2>1, <2>2 DEF Held
  <1>9. parserState = "Idle"
    <2>1. ~(MinPacket <= Remaining)
      BY <1>5, Sizes
    <2>2. QED BY <2>1 DEF DecoderInvariant
  <1>10. Recognised(st, Place(st, f))'
    BY <1>1, <1>9 DEF Recognised
  <1>11. f \in 0 .. st.n /\ Handed(st, f)'
    BY <1>1 DEF Follows, Handed
  <1>12. QED BY <1>1, <1>6, <1>8, <1>9, <1>10, <1>11 DEF Follows

\* The bytes that the next fetch takes are those of the packets from f up to g.
Fetched == Minimum(Len(ring), FreeSpace)

TakesUpTo(st, f, g) ==
    /\ Fetched = st.end[g] - st.end[f]
    /\ \A k \in 0 .. Fetched - 1 : ring[k + 1] = st.byte[st.end[f] + k]

LEMMA FetchFollows ==
    ASSUME DecoderInvariant, NEW st, IsStream(st, traffic.sent), NEW f, Follows(st, f),
           NEW g \in f .. st.n, TakesUpTo(st, f, g), Fetch
    PROVE  Follows(st, g)'
  <1> DEFINE d == Len(delivered)
             at == Place(st, f)
  <1>1. /\ data' = [i \in DOMAIN data |->
                       IF i \in BufAddr .. BufAddr + Fetched - 1
                       THEN ring[i - BufAddr + 1] ELSE data[i]]
        /\ dataSize' = dataSize + Fetched
        /\ pc' = "decode" /\ offset' = offset /\ parserState' = parserState
        /\ stop' = stop /\ delivered' = delivered /\ traffic' = traffic
    BY DEF Fetch, Fetched
  <1>2. /\ d \in Nat /\ f \in Nat /\ st.n \in Nat /\ f <= st.n /\ d <= f /\ d \in 0 .. st.n
        /\ Remaining \in Nat /\ at \in Nat /\ offset \in Nat /\ dataSize \in Nat
        /\ st.end[d] \in Nat /\ st.end[f] \in Nat
        /\ st.end[d] <= at /\ at + Remaining = st.end[f]
    BY PlacesType
  <1>3. Remaining = 0 /\ parserState = "Idle" /\ offset = 0 /\ at = st.end[f]
    <2>1. Remaining = 0 /\ parserState = "Idle" /\ offset = 0
      BY DEF Follows, Fetch, DecoderInvariant
    <2> HIDE DEF at
    <2>2. QED BY <1>2, <2>1
  <1>4. dataSize = 0
    BY <1>2, <1>3 DEF Remaining
  <1>5. Fetched \in Nat /\ Fetched <= MaxSize
    <2>1. ring \in Seq(Byte) /\ Len(ring) \in Nat
      BY LenProperties DEF DecoderInvariant, TypeOK
    <2>2. QED BY <1>3, <1>4, <2>1, Sizes DEF FreeSpace, Minimum, Fetched
  <1>6. g \in Nat /\ f <= g /\ g <= st.n /\ g \in 0 .. st.n /\ st.end[g] \in Nat
    <2>1. g \in Nat /\ f <= g /\ g <= st.n /\ g \in 0 .. st.n
      BY <1>2
    <2>2. QED BY <2>1 DEF IsStream
  <1>7. /\ Fetched = st.end[g] - st.end[f]
        /\ \A k \in 0 .. Fetched - 1 : ring[k + 1] = st.byte[st.end[f] + k]
    BY DEF TakesUpTo
  <1>8. dataSize' = Fetched /\ Remaining' = Fetched
    BY <1>1, <1>3, <1>4, <1>5 DEF Remaining
  <1>9. Place(st, g)' = st.end[f]
    <2> DEFINE last == st.end[g]
               e == st.end[f]
    <2>1. Place(st, g)' = last - Fetched
      BY <1>1, <1>8 DEF Place
    <2>2. last \in Nat /\ e \in Nat /\ Fetched = last - e
      BY <1>2, <1>6, <1>7, Zenon
    <2> HIDE DEF last, e
    <2>3. last - Fetched = e
      BY <2>2
    <2>4. QED BY <2>1, <2>3, Zenon DEF e
  <1>10. \A k \in 0 .. Fetched - 1 : At(k)' = st.byte[st.end[f] + k]
    <2> TAKE k \in 0 .. Fetched - 1
    <2>1. k \in DOMAIN data
      <3>1. DOMAIN data = 0 .. MaxSize - 1
        BY DEF DecoderInvariant, TypeOK
      <3>2. QED BY <1>5, <3>1, Sizes
    <2>2. k \in 0 .. 0 + Fetched - 1 /\ k - 0 + 1 = k + 1 /\ 0 + k = k
      BY <1>5
    <2>3. data'[k] = ring[k + 1]
      BY <1>1, <1>3, <2>1, <2>2 DEF BufAddr
    <2>4. At(k)' = data'[k]
      BY <1>1, <1>3, <2>2 DEF At
    <2>5. QED BY <1>7, <2>3, <2>4
  <1>11. Held(st, g)'
    <2>1. st.end[d] <= st.end[f]
      <3> HIDE DEF at
      <3>1. QED BY <1>2, <1>3
    <2>2. d < g => st.end[f] <= st.start[d + 1]
      <3> SUFFICES ASSUME d < g PROVE st.end[f] <= st.start[d + 1]
        OBVIOUS
      <3>1. CASE d < f
        <4>1. at <= st.start[d + 1]
          BY <3>1 DEF Follows, Held
        <4>2. QED BY <1>3, <4>1
      <3>2. CASE d = f
        <4>1. d + 1 \in 1 .. st.n /\ (d + 1) - 1 = d
          <5>1. d \in Nat /\ st.n \in Nat /\ g \in Nat /\ g <= st.n
            BY <1>2, <1>6, Zenon
          <5> HIDE DEF d
          <5>2. QED BY <5>1
        <4>2. st.end[(d + 1) - 1] <= st.start[d + 1]
          BY <4>1, PacketOfStream DEF PacketIn
        <4>3. QED BY <3>2, <4>1, <4>2
      <3>3. QED BY <1>2, <3>1, <3>2
    <2>3. QED BY <1>1, <1>8, <1>9, <1>10, <2>1, <2>2 DEF Held
  <1>12. Handed(st, g)'
    <2>1. d <= g
      <3> HIDE DEF d
      <3>1. QED BY <1>2, <1>6
    <2>2. QED BY <1>1, <2>1 DEF Follows, Handed
  <1>13. Recognised(st, Place(st, g))' /\ stop' = FALSE
    BY <1>1, <1>3 DEF Follows, Recognised
  <1>14. QED BY <1>1, <1>6, <1>11, <1>12, <1>13 DEF Follows

\* One turn of the decoder.
LEMMA DecoderFollows ==
    ASSUME DecoderInvariant, NEW st, IsStream(st, traffic.sent), NEW f, Follows(st, f),
           Decode \/ Compact
    PROVE  Follows(st, f)'
  <1>1. CASE Compact
    BY <1>1, CompactFollows
  <1>2. CASE Decode
    BY <1>2, IdleFollows, SyncFollows, StartFollows, HaderFollows, DataFollows, CRCFollows
       DEF Decode
  <1>3. QED BY <1>1, <1>2

-----------------------------------------------------------------------------
(* Bytes that come off the line make the stream longer.                    *)

\* The stream st and after it the stream more.
Joined(st, more) ==
    LET size == st.end[st.n]
    IN  [n      |-> st.n + more.n,
         byte   |-> [p \in Nat |-> IF p < size THEN st.byte[p] ELSE more.byte[p - size]],
         number |-> [i \in 1 .. st.n + more.n |->
                       IF i <= st.n THEN st.number[i] ELSE more.number[i - st.n]],
         start  |-> [i \in 1 .. st.n + more.n |->
                       IF i <= st.n THEN st.start[i] ELSE size + more.start[i - st.n]],
         end    |-> [i \in 0 .. st.n + more.n |->
                       IF i <= st.n THEN st.end[i] ELSE size + more.end[i - st.n]]]

\* Each part of the joined stream is where it was, or moved as a whole.
JoinType(all, sent) ==
    /\ all.byte \in [Nat -> Byte]
    /\ all.number \in [1 .. all.n -> 1 .. Len(sent)]
    /\ all.start \in [1 .. all.n -> Nat]
    /\ all.end \in [0 .. all.n -> Nat]

JoinBytes(all, st, more, size) ==
    /\ \A p \in Nat : p < size => all.byte[p] = st.byte[p]
    /\ \A p \in Nat : all.byte[size + p] = more.byte[p]

JoinFirst(all, st) ==
    /\ \A i \in 1 .. st.n : all.number[i] = st.number[i] /\ all.start[i] = st.start[i]
    /\ \A i \in 0 .. st.n : all.end[i] = st.end[i]

JoinSecond(all, st, more, size) ==
    /\ \A i \in 1 .. more.n : all.number[st.n + i] = more.number[i]
                              /\ all.start[st.n + i] = size + more.start[i]
    /\ \A i \in 0 .. more.n : all.end[st.n + i] = size + more.end[i]

IsJoin(all, st, more, size, sent) ==
    /\ all.n = st.n + more.n
    /\ JoinType(all, sent)
    /\ JoinBytes(all, st, more, size)
    /\ JoinFirst(all, st)
    /\ JoinSecond(all, st, more, size)

LEMMA JoinedParts ==
    ASSUME NEW sent, NEW st, IsStream(st, sent), NEW more, IsStream(more, sent)
    PROVE  /\ st.n \in Nat /\ more.n \in Nat /\ st.end[st.n] \in Nat
           /\ IsJoin(Joined(st, more), st, more, st.end[st.n], sent)
  <1> DEFINE all == Joined(st, more)
             size == st.end[st.n]
  <1>1. st.n \in Nat /\ more.n \in Nat /\ all.n = st.n + more.n
    BY DEF IsStream, Joined
  <1>2. /\ size \in Nat /\ more.end[0] = 0
        /\ st.byte \in [Nat -> Byte] /\ more.byte \in [Nat -> Byte]
        /\ st.number \in [1 .. st.n -> 1 .. Len(sent)]
        /\ more.number \in [1 .. more.n -> 1 .. Len(sent)]
        /\ st.start \in [1 .. st.n -> Nat] /\ more.start \in [1 .. more.n -> Nat]
        /\ st.end \in [0 .. st.n -> Nat] /\ more.end \in [0 .. more.n -> Nat]
    <2>1. st.n \in 0 .. st.n
      BY <1>1
    <2>2. QED BY <2>1 DEF IsStream
  <1>3. /\ all.byte = [p \in Nat |-> IF p < size THEN st.byte[p] ELSE more.byte[p - size]]
        /\ all.number = [i \in 1 .. st.n + more.n |->
                           IF i <= st.n THEN st.number[i] ELSE more.number[i - st.n]]
        /\ all.start = [i \in 1 .. st.n + more.n |->
                          IF i <= st.n THEN st.start[i] ELSE size + more.start[i - st.n]]
        /\ all.end = [i \in 0 .. st.n + more.n |->
                        IF i <= st.n THEN st.end[i] ELSE size + more.end[i - st.n]]
    BY DEF Joined
  <1> HIDE DEF all, size
  <1> DEFINE n1 == st.n
             n2 == more.n
  <1>n. n1 \in Nat /\ n2 \in Nat /\ size \in Nat
    BY <1>1, <1>2
  <1>4. /\ \A p \in Nat : p < size => all.byte[p] = st.byte[p]
        /\ \A p \in Nat : all.byte[size + p] = more.byte[p]
        /\ all.byte \in [Nat -> Byte]
    <2>1. \A p \in Nat : size + p \in Nat /\ ~(size + p < size) /\ (size + p) - size = p
      BY <1>n
    <2>2. \A p \in Nat : all.byte[size + p] = more.byte[(size + p) - size]
      BY <1>3, <2>1
    <2>3. \A p \in Nat : ~(p < size) => p - size \in Nat
      BY <1>n
    <2>4. \A p \in Nat : p < size => all.byte[p] = st.byte[p]
      BY <1>3
    <2>5. \A p \in Nat : all.byte[size + p] = more.byte[p]
      BY <2>1, <2>2
    <2>6. \A p \in Nat : (IF p < size THEN st.byte[p] ELSE more.byte[p - size]) \in Byte
      BY <1>2, <2>3
    <2>7. all.byte \in [Nat -> Byte]
      BY <1>3, <2>6
    <2>8. QED BY <2>4, <2>5, <2>7
  <1>5. /\ \A i \in 1 .. st.n : i \in 1 .. st.n + more.n /\ i <= st.n
        /\ \A i \in 0 .. st.n : i \in 0 .. st.n + more.n /\ i <= st.n
        /\ \A i \in 1 .. more.n : /\ st.n + i \in 1 .. st.n + more.n /\ ~(st.n + i <= st.n)
                                  /\ (st.n + i) - st.n = i
        /\ \A i \in 1 .. st.n + more.n : ~(i <= st.n) => i - st.n \in 1 .. more.n
    BY <1>1
  <1>6. \A i \in 1 .. st.n : all.number[i] = st.number[i] /\ all.start[i] = st.start[i]
    BY <1>3, <1>5
  <1>7. \A i \in 0 .. st.n : all.end[i] = st.end[i]
    BY <1>3, <1>5
  <1>8. \A i \in 1 .. more.n : all.number[st.n + i] = more.number[i]
                               /\ all.start[st.n + i] = size + more.start[i]
    <2> TAKE i \in 1 .. more.n
    <2>1. /\ all.number[st.n + i] = more.number[(st.n + i) - st.n]
          /\ all.start[st.n + i] = size + more.start[(st.n + i) - st.n]
      BY <1>3, <1>5
    <2>2. QED BY <1>5, <2>1
  <1>9. \A i \in 0 .. more.n : all.end[st.n + i] = size + more.end[i]
    <2> TAKE i \in 0 .. more.n
    <2>1. CASE i = 0
      <3>1. st.n \in 0 .. st.n /\ st.n + i = st.n /\ size + 0 = size
        BY <1>1, <1>n, <2>1
      <3>2. all.end[st.n] = st.end[st.n] /\ more.end[0] = 0
        BY <1>2, <1>7, <3>1, Zenon
      <3>3. all.end[st.n] = size
        BY <3>2, Zenon DEF size
      <3>4. QED BY <2>1, <3>1, <3>2, <3>3, Zenon
    <2>2. CASE i # 0
      <3>1. i \in 1 .. more.n /\ st.n + i \in 0 .. st.n + more.n
        BY <1>1, <2>2
      <3>2. all.end[st.n + i] = size + more.end[(st.n + i) - st.n]
        BY <1>3, <1>5, <3>1
      <3>3. QED BY <1>5, <3>1, <3>2
    <2>3. QED BY <2>1, <2>2
  <1>10. all.number \in [1 .. all.n -> 1 .. Len(sent)]
    <2>1. \A i \in 1 .. st.n + more.n :
             (IF i <= st.n THEN st.number[i] ELSE more.number[i - st.n]) \in 1 .. Len(sent)
      <3> TAKE i \in 1 .. st.n + more.n
      <3>1. CASE i <= st.n
        <4>1. i \in 1 .. st.n
          BY <1>1, <3>1
        <4>2. QED BY <1>2, <3>1, <4>1
      <3>2. CASE ~(i <= st.n)
        <4>1. i - st.n \in 1 .. more.n
          BY <1>5, <3>2
        <4>2. QED BY <1>2, <3>2, <4>1
      <3>3. QED BY <3>1, <3>2
    <2>2. QED BY <1>1, <1>3, <2>1
  <1>11. all.start \in [1 .. all.n -> Nat] /\ all.end \in [0 .. all.n -> Nat]
    <2>1. \A i \in 1 .. st.n + more.n :
             (IF i <= st.n THEN st.start[i] ELSE size + more.start[i - st.n]) \in Nat
      <3> TAKE i \in 1 .. st.n + more.n
      <3>1. CASE i <= st.n
        <4>1. i \in 1 .. st.n
          BY <1>1, <3>1
        <4>2. QED BY <1>2, <3>1, <4>1
      <3>2. CASE ~(i <= st.n)
        <4>1. more.start[i - st.n] \in Nat
          BY <1>2, <1>5, <3>2
        <4>2. QED BY <1>2, <3>2, <4>1
      <3>3. QED BY <3>1, <3>2
    <2>2. \A i \in 0 .. st.n + more.n :
             (IF i <= st.n THEN st.end[i] ELSE size + more.end[i - st.n]) \in Nat
      <3> TAKE i \in 0 .. st.n + more.n
      <3>1. CASE i <= st.n
        <4>1. i \in 0 .. st.n
          BY <1>1, <3>1
        <4>2. QED BY <1>2, <3>1, <4>1
      <3>2. CASE ~(i <= st.n)
        <4>1. i - st.n \in 0 .. more.n
          BY <1>1, <3>2
        <4>2. more.end[i - st.n] \in Nat
          BY <1>2, <4>1
        <4>3. QED BY <1>2, <3>2, <4>2
      <3>3. QED BY <3>1, <3>2
    <2>3. QED BY <1>1, <1>3, <2>1, <2>2
  <1>12. JoinType(all, sent)
    BY <1>4, <1>10, <1>11, Zenon DEF JoinType
  <1>13. JoinBytes(all, st, more, size)
    BY <1>4, Zenon DEF JoinBytes
  <1>14. JoinFirst(all, st)
    BY <1>6, <1>7, Zenon DEF JoinFirst
  <1>15. JoinSecond(all, st, more, size)
    BY <1>8, <1>9, Zenon DEF JoinSecond
  <1>16. IsJoin(all, st, more, size, sent)
    BY <1>1, <1>12, <1>13, <1>14, <1>15, Zenon DEF IsJoin
  <1>17. QED BY <1>1, <1>2, <1>16, Zenon DEF all, size

\* A packet lies where it lay when the same bytes are moved by a distance.
LEMMA PacketMoved ==
    ASSUME NEW st, NEW i, NEW all, NEW j, NEW m, NEW size \in Int, PacketIn(st, i, m),
           st.start[i] \in Nat, st.end[i - 1] \in Nat,
           all.start[j] = size + st.start[i], all.end[j] = size + st.end[i],
           all.end[j - 1] = size + st.end[i - 1],
           \A p \in st.end[i - 1] .. st.end[i] - 1 : all.byte[size + p] = st.byte[p]
    PROVE  PacketIn(all, j, m)
  <1> DEFINE s == st.start[i]
             e == st.end[i]
             b == st.end[i - 1]
             L == Len(Packet(m))
  <1>1. /\ Sendable(m) /\ b <= s /\ e = s + L
        /\ \A k \in 1 .. L : st.byte[s + (k - 1)] = Packet(m)[k]
        /\ \A p \in b .. s - 1 : ~StartsAt(st.byte, p)
    BY DEF PacketIn
  <1>2. L \in Nat /\ L >= 12
    BY <1>1, PacketShape, Sizes
  <1> HIDE DEF s, e, b, L
  <1>3. s \in Nat /\ b \in Nat /\ e \in Nat
    <2>1. s \in Nat /\ b \in Nat
      BY DEF s, b
    <2>2. QED BY <1>1, <1>2, <2>1
  <1>4. \A p \in b .. e - 1 : all.byte[size + p] = st.byte[p]
    BY DEF b, e
  <1>5. \A k \in 1 .. L : all.byte[(size + s) + (k - 1)] = Packet(m)[k]
    <2> TAKE k \in 1 .. L
    <2>1. s + (k - 1) \in b .. e - 1 /\ (size + s) + (k - 1) = size + (s + (k - 1))
      BY <1>1, <1>2, <1>3
    <2>2. all.byte[size + (s + (k - 1))] = st.byte[s + (k - 1)]
      BY <1>4, <2>1, Zenon
    <2>3. QED BY <1>1, <2>1, <2>2
  <1>6. \A p \in size + b .. (size + s) - 1 : ~StartsAt(all.byte, p)
    <2> TAKE p \in size + b .. (size + s) - 1
    <2> DEFINE q == p - size
    <2>1. /\ q \in b .. s - 1 /\ p = size + q
          /\ p + 1 = size + (q + 1) /\ p + 2 = size + (q + 2)
          /\ q \in b .. e - 1 /\ q + 1 \in b .. e - 1 /\ q + 2 \in b .. e - 1
      BY <1>1, <1>2, <1>3
    <2> HIDE DEF q
    <2>2. /\ all.byte[size + q] = st.byte[q]
          /\ all.byte[size + (q + 1)] = st.byte[q + 1]
          /\ all.byte[size + (q + 2)] = st.byte[q + 2]
      BY <1>4, <2>1, Zenon
    <2>3. ~StartsAt(st.byte, q)
      BY <1>1, <2>1
    <2>4. QED BY <2>1, <2>2, <2>3 DEF StartsAt
  <1>7. size + b <= size + s /\ size + e = (size + s) + L
    BY <1>1, <1>2, <1>3
  <1>8. all.start[j] = size + s /\ all.end[j] = size + e /\ all.end[j - 1] = size + b
    BY DEF s, e, b
  <1>9. QED BY <1>1, <1>5, <1>6, <1>7, <1>8 DEF PacketIn, L

LEMMA JoinedStream ==
    ASSUME NEW sent, NEW st, IsStream(st, sent), NEW more, IsStream(more, sent)
    PROVE  IsStream(Joined(st, more), sent)
  <1> DEFINE all == Joined(st, more)
             size == st.end[st.n]
  <1>1. all = Joined(st, more) /\ size = st.end[st.n]
    OBVIOUS
  <1>2. /\ st.n \in Nat /\ more.n \in Nat /\ size \in Nat
        /\ IsJoin(all, st, more, size, sent)
    BY JoinedParts, Zenon
  <1> HIDE DEF all, size
  <1>3. st.n \in Nat /\ more.n \in Nat /\ size \in Nat /\ all.n = st.n + more.n
    BY <1>2 DEF IsJoin
  <1>4. all.end[0] = 0
    <2>1. 0 \in 0 .. st.n /\ st.end[0] = 0
      BY <1>3 DEF IsStream
    <2>2. QED BY <1>2, <2>1 DEF IsJoin, JoinFirst
  <1>5. \A i \in 1 .. all.n : i \in 1 .. st.n \/ i - st.n \in 1 .. more.n
    BY <1>3
  <1>6. \A i \in 1 .. all.n : PacketIn(all, i, sent[all.number[i]])
    <2> TAKE i \in 1 .. all.n
    <2>1. CASE i \in 1 .. st.n
      <3> DEFINE m == sent[st.number[i]]
      <3>1. i \in 0 .. st.n /\ i - 1 \in 0 .. st.n
        BY <1>3, <2>1
      <3>2. /\ PacketIn(st, i, m) /\ st.start[i] \in Nat /\ st.end[i - 1] \in Nat
            /\ st.end[i] \in Nat /\ st.end[i] <= size
        BY <1>1, <2>1, PacketOfStream
      <3>3. /\ all.start[i] = 0 + st.start[i] /\ all.end[i] = 0 + st.end[i]
            /\ all.end[i - 1] = 0 + st.end[i - 1] /\ sent[all.number[i]] = m
        <4>1. /\ all.start[i] = st.start[i] /\ all.end[i] = st.end[i]
              /\ all.end[i - 1] = st.end[i - 1] /\ all.number[i] = st.number[i]
          BY <1>2, <2>1, <3>1, Zenon DEF IsJoin, JoinFirst
        <4>2. QED BY <3>2, <4>1
      <3>4. \A p \in st.end[i - 1] .. st.end[i] - 1 : all.byte[0 + p] = st.byte[p]
        <4> TAKE p \in st.end[i - 1] .. st.end[i] - 1
        <4>1. p \in Nat /\ 0 + p = p /\ p < size
          BY <1>3, <3>2
        <4>2. QED BY <1>2, <4>1 DEF IsJoin, JoinBytes
      <3> HIDE DEF m
      <3>5. PacketIn(all, i, m)
        BY <3>2, <3>3, <3>4, PacketMoved
      <3>6. QED BY <3>3, <3>5
    <2>2. CASE i - st.n \in 1 .. more.n
      <3> DEFINE j == i - st.n
                 m == sent[more.number[j]]
      <3>1. /\ j \in 1 .. more.n /\ j \in 0 .. more.n /\ j - 1 \in 0 .. more.n
            /\ i = st.n + j /\ i - 1 = st.n + (j - 1)
        BY <1>3, <2>2
      <3> HIDE DEF j
      <3>2. /\ PacketIn(more, j, m) /\ more.start[j] \in Nat
            /\ more.end[j - 1] \in Nat /\ more.end[j] \in Nat
        BY <3>1, PacketOfStream
      <3>3. /\ all.start[i] = size + more.start[j] /\ all.end[i] = size + more.end[j]
            /\ all.end[i - 1] = size + more.end[j - 1] /\ sent[all.number[i]] = m
        BY <1>2, <3>1, Zenon DEF IsJoin, JoinSecond
      <3>4. \A p \in more.end[j - 1] .. more.end[j] - 1 : all.byte[size + p] = more.byte[p]
        <4>1. \A p \in more.end[j - 1] .. more.end[j] - 1 : p \in Nat
          BY <3>2
        <4>2. QED BY <1>2, <4>1, Zenon DEF IsJoin, JoinBytes
      <3> HIDE DEF m
      <3>5. size \in Int
        BY <1>3
      <3>6. PacketIn(all, i, m)
        BY <3>2, <3>3, <3>4, <3>5, PacketMoved
      <3>7. QED BY <3>3, <3>6
    <2>3. QED BY <1>5, <2>1, <2>2
  <1>7. \A i, j \in 0 .. all.n : i <= j => all.end[i] <= all.end[j]
    <2>1. /\ \A i, j \in 0 .. st.n : i <= j => st.end[i] <= st.end[j]
          /\ \A i, j \in 0 .. more.n : i <= j => more.end[i] <= more.end[j]
          /\ \A i \in 0 .. more.n : more.end[i] \in Nat
          /\ \A i \in 0 .. st.n : st.end[i] \in Nat
      BY DEF IsStream
    <2> TAKE i \in 0 .. all.n, j \in 0 .. all.n
    <2> SUFFICES ASSUME i <= j PROVE all.end[i] <= all.end[j]
      OBVIOUS
    <2>2. CASE j <= st.n
      <3>1. i \in 0 .. st.n /\ j \in 0 .. st.n
        BY <1>3, <2>2
      <3>2. st.end[i] <= st.end[j]
        BY <2>1, <3>1
      <3>3. QED BY <1>2, <3>1, <3>2, Zenon DEF IsJoin, JoinFirst
    <2>3. CASE i <= st.n /\ ~(j <= st.n)
      <3>1. i \in 0 .. st.n /\ st.n \in 0 .. st.n /\ j - st.n \in 0 .. more.n /\ j = st.n + (j - st.n)
        BY <1>3, <2>3
      <3>2. st.end[i] <= size /\ st.end[i] \in Nat
        BY <1>1, <2>1, <3>1
      <3>3. all.end[i] = st.end[i]
        BY <1>2, <3>1, Zenon DEF IsJoin, JoinFirst
      <3>4. all.end[j] = size + more.end[j - st.n] /\ more.end[j - st.n] \in Nat
        <4>1. all.end[st.n + (j - st.n)] = size + more.end[j - st.n]
          BY <1>2, <3>1, Zenon DEF IsJoin, JoinSecond
        <4>2. more.end[j - st.n] \in Nat
          BY <2>1, <3>1
        <4>3. QED BY <3>1, <4>1, <4>2
      <3>5. QED BY <1>3, <3>2, <3>3, <3>4
    <2>4. CASE ~(i <= st.n)
      <3> DEFINE k == i - st.n
                 l == j - st.n
      <3>1. /\ k \in 0 .. more.n /\ l \in 0 .. more.n /\ k <= l
            /\ i = st.n + k /\ j = st.n + l
        BY <1>3, <2>4
      <3> HIDE DEF k, l
      <3>2. more.end[k] <= more.end[l] /\ more.end[k] \in Nat /\ more.end[l] \in Nat
        BY <2>1, <3>1, Zenon
      <3>3. all.end[st.n + k] = size + more.end[k] /\ all.end[st.n + l] = size + more.end[l]
        BY <1>2, <3>1, Zenon DEF IsJoin, JoinSecond
      <3>4. size + more.end[k] <= size + more.end[l]
        BY <1>3, <3>2
      <3>5. QED BY <3>1, <3>3, <3>4, Zenon
    <2>5. QED BY <2>2, <2>3, <2>4
  <1>8. all.n \in Nat
    BY <1>3
  <1>9. IsStream(all, sent)
    BY <1>2, <1>4, <1>6, <1>7, <1>8, Zenon DEF IsStream, IsJoin, JoinType
  <1>10. QED BY <1>1, <1>9

\* A portion whose bytes are those of a stream.
Carries(chunk, st) ==
    /\ chunk \in Seq(Byte)
    /\ Len(chunk) = st.end[st.n]
    /\ \A k \in 0 .. Len(chunk) - 1 : chunk[k + 1] = st.byte[k]

\* A longer stream leaves the decoder where it is.
LEMMA FollowsJoined ==
    ASSUME DecoderInvariant, NEW st, IsStream(st, traffic.sent), NEW f, Follows(st, f),
           NEW more, IsStream(more, traffic.sent)
    PROVE  Follows(Joined(st, more), f)
  <1> DEFINE d == Len(delivered)
             at == Place(st, f)
             size == st.end[st.n]
             all == Joined(st, more)
  <1>1. /\ d \in Nat /\ d \in 0 .. st.n /\ f \in Nat /\ st.n \in Nat /\ d <= f /\ f <= st.n
        /\ Remaining \in Nat /\ at \in Nat
        /\ st.end[d] \in Nat /\ st.end[f] \in Nat /\ size \in Nat
        /\ st.end[f] <= size /\ st.end[d] <= at /\ at + Remaining = st.end[f]
    BY PlacesType
  <1>2. all = Joined(st, more) /\ size = st.end[st.n]
    OBVIOUS
  <1>3. more.n \in Nat /\ IsJoin(all, st, more, size, traffic.sent)
    BY JoinedParts, Zenon
  <1> HIDE DEF all, size
  <1>4. /\ all.n = st.n + more.n /\ f \in 0 .. all.n
        /\ f \in 0 .. st.n /\ d \in 0 .. st.n /\ more.n \in 0 .. more.n
    <2>1. all.n = st.n + more.n /\ more.n \in Nat
      BY <1>3 DEF IsJoin
    <2>2. f \in Nat /\ st.n \in Nat /\ d \in Nat /\ d <= f /\ f <= st.n
      BY <1>1
    <2> HIDE DEF d
    <2>3. QED BY <2>1, <2>2
  <1>5. all.end[f] = st.end[f] /\ all.end[d] = st.end[d]
    BY <1>3, <1>4, Zenon DEF IsJoin, JoinFirst
  <1>6. Place(all, f) = at
    BY <1>5 DEF Place
  <1>7. Handed(all, f)
    <2>1. \A i \in 1 .. d : i \in 1 .. st.n
      <3>1. d \in Nat /\ f \in Nat /\ st.n \in Nat /\ d <= f /\ f <= st.n
        BY <1>1, Zenon
      <3> HIDE DEF d
      <3>2. QED BY <3>1
    <2>2. \A i \in 1 .. d : all.number[i] = st.number[i]
      BY <1>3, <2>1, Zenon DEF IsJoin, JoinFirst
    <2>3. QED BY <2>2 DEF Follows, Handed
  <1>8. d < f => all.start[d + 1] = st.start[d + 1] /\ all.number[d + 1] = st.number[d + 1]
    <2>1. d < f => d + 1 \in 1 .. st.n
      <3>1. d \in Nat /\ f \in Nat /\ st.n \in Nat /\ f <= st.n
        BY <1>1, Zenon
      <3> HIDE DEF d
      <3>2. QED BY <3>1
    <2>2. QED BY <1>3, <2>1, Zenon DEF IsJoin, JoinFirst
  <1>9. \A p \in Nat : p < st.end[f] => all.byte[p] = st.byte[p]
    <2> DEFINE last == st.end[f]
    <2>1. \A p \in Nat : p < last => p < size
      <3>1. last \in Nat /\ size \in Nat /\ last <= size
        BY <1>1, Zenon
      <3> HIDE DEF last
      <3>2. QED BY <3>1
    <2>2. QED BY <1>3, <2>1, Zenon DEF IsJoin, JoinBytes
  <1>10. Held(all, f)
    <2>1. \A k \in 0 .. Remaining - 1 : At(k) = all.byte[at + k]
      <3> TAKE k \in 0 .. Remaining - 1
      <3>1. At(k) = st.byte[at + k]
        BY DEF Follows, Held
      <3> HIDE DEF at
      <3>2. at + k \in Nat /\ at + k < st.end[f]
        <4> DEFINE last == st.end[f]
        <4>1. last \in Nat /\ at \in Nat /\ Remaining \in Nat /\ at + Remaining = last
          BY <1>1, Zenon
        <4> HIDE DEF last
        <4>2. at + k \in Nat /\ at + k < last
          BY <4>1
        <4>3. QED BY <4>2 DEF last
      <3>3. all.byte[at + k] = st.byte[at + k]
        BY <1>9, <3>2
      <3>4. QED BY <3>1, <3>3
    <2>2. st.end[d] <= at /\ (d < f => at <= st.start[d + 1])
      BY DEF Follows, Held
    <2>3. QED BY <1>5, <1>6, <1>8, <2>1, <2>2 DEF Held
  <1>11. Recognised(all, at)
    <2>1. CASE parserState = "Idle"
      BY <2>1 DEF Recognised
    <2>2. CASE parserState # "Idle"
      <3>1. 12 <= Remaining
        BY <2>2, Sizes DEF DecoderInvariant
      <3>2. Recognised(st, at)
        BY DEF Follows
      <3> HIDE DEF at
      <3>3. d < f
        BY <1>1, <3>1
      <3>4. /\ at \in Nat /\ at + 1 \in Nat /\ at + 2 \in Nat
            /\ at < st.end[f] /\ at + 1 < st.end[f] /\ at + 2 < st.end[f]
        BY <1>1, <3>1
      <3>5. /\ all.byte[at] = st.byte[at] /\ all.byte[at + 1] = st.byte[at + 1]
            /\ all.byte[at + 2] = st.byte[at + 2]
        BY <1>9, <3>4
      <3>6. all.start[d + 1] = st.start[d + 1] /\ all.number[d + 1] = st.number[d + 1]
        BY <1>8, <3>3
      <3>7. QED BY <3>2, <3>5, <3>6 DEF Recognised
    <2>3. QED BY <2>1, <2>2
  <1>12. stop = FALSE /\ (pc = "fetch" => Remaining = 0 /\ parserState = "Idle")
    BY DEF Follows
  <1>13. Follows(all, f)
    <2> HIDE DEF at
    <2>1. Recognised(all, Place(all, f))
      BY <1>6, <1>11
    <2>2. f \in 0 .. all.n
      BY <1>4
    <2>3. QED BY <2>1, <2>2, <1>7, <1>10, <1>12, Zenon DEF Follows
  <1>14. QED BY <1>2, <1>13

\* Bytes that move in the read ring leave the decoder where it is.
LEMMA FollowsFrame ==
    ASSUME NEW st, NEW f, Follows(st, f), UNCHANGED <<handle, pc, stop, delivered, traffic>>
    PROVE  Follows(st, f)'
  <1>1. /\ data' = data /\ offset' = offset /\ dataSize' = dataSize
        /\ parserState' = parserState /\ parserData' = parserData /\ pc' = pc /\ stop' = stop
        /\ delivered' = delivered /\ traffic' = traffic
    BY DEF handle
  <1>2. Remaining' = Remaining /\ Place(st, f)' = Place(st, f)
    BY <1>1 DEF Remaining, Place
  <1>3. Handed(st, f)' /\ Held(st, f)' /\ Recognised(st, Place(st, f))'
    BY <1>1, <1>2 DEF Follows, Handed, Held, Recognised, At
  <1>4. QED BY <1>1, <1>2, <1>3 DEF Follows

\* The stream that is one packet, of message nr, behind k bytes of noise.
Single(chunk, k, nr) ==
    [n      |-> 1,
     byte   |-> [p \in Nat |-> IF p < Len(chunk) THEN chunk[p + 1] ELSE 0],
     number |-> [i \in 1 .. 1 |-> nr],
     start  |-> [i \in 1 .. 1 |-> k],
     end    |-> [i \in 0 .. 1 |-> IF i = 0 THEN 0 ELSE Len(chunk)]]

LEMMA SingleStream ==
    ASSUME NEW sent, NEW nr \in 1 .. Len(sent), Sendable(sent[nr]), NEW chunk \in Seq(Byte),
           NEW k \in 0 .. Len(chunk), SubSeq(chunk, k + 1, Len(chunk)) = Packet(sent[nr]),
           \A i \in 1 .. k : ~CodesAt(chunk, i)
    PROVE  /\ IsStream(Single(chunk, k, nr), sent)
           /\ Carries(chunk, Single(chunk, k, nr))
  <1> DEFINE st == Single(chunk, k, nr)
             m == sent[nr]
             L == Len(chunk)
             P == Len(Packet(m))
  <1>1. L \in Nat /\ \A i \in 1 .. L : chunk[i] \in Byte
    BY LenProperties
  <1>2. /\ st.n = 1
        /\ st.byte = [p \in Nat |-> IF p < L THEN chunk[p + 1] ELSE 0]
        /\ st.number = [i \in 1 .. 1 |-> nr]
        /\ st.start = [i \in 1 .. 1 |-> k]
        /\ st.end = [i \in 0 .. 1 |-> IF i = 0 THEN 0 ELSE L]
    BY DEF Single
  <1>3. P \in Nat /\ 12 <= P
    BY PacketShape, LenProperties, Sizes
  <1>4. k \in Nat /\ k <= L
    BY <1>1
  <1>5. /\ P = (L - (k + 1)) + 1
        /\ \A j \in 1 .. P : Packet(m)[j] = chunk[(k + 1) + j - 1]
    <2>1. \A i \in k + 1 .. L : chunk[i] \in Byte
      BY <1>1, <1>4
    <2>2. k + 1 \in Int /\ L \in Int
      BY <1>1, <1>4
    <2> DEFINE sub == SubSeq(chunk, k + 1, L)
    <2>3. /\ Len(sub) = IF k + 1 <= L THEN L - (k + 1) + 1 ELSE 0
          /\ \A j \in 1 .. L - (k + 1) + 1 : sub[j] = chunk[(k + 1) + j - 1]
      BY <2>1, <2>2, SubSeqProperties
    <2>4. sub = Packet(m)
      OBVIOUS
    <2> HIDE DEF sub, m
    <2>5. P = IF k + 1 <= L THEN L - (k + 1) + 1 ELSE 0
      BY <2>3, <2>4
    <2> HIDE DEF P, L
    <2>6. P = L - (k + 1) + 1
      BY <1>3, <2>5
    <2>7. QED BY <2>3, <2>4, <2>6 DEF P
  <1> HIDE DEF st, m, L, P
  <1>6. L = k + P
    BY <1>1, <1>3, <1>4, <1>5
  <1>7. \A p \in Nat : p < L => st.byte[p] = chunk[p + 1]
    BY <1>2
  <1>8. st.byte \in [Nat -> Byte]
    <2>1. \A p \in Nat : (IF p < L THEN chunk[p + 1] ELSE 0) \in Byte
      <3> TAKE p \in Nat
      <3>1. p < L => p + 1 \in 1 .. L
        BY <1>1
      <3>2. QED BY <1>1, <3>1 DEF Byte
    <2>2. QED BY <1>2, <2>1
  <1>9. /\ st.number[1] = nr /\ st.start[1] = k /\ st.end[0] = 0 /\ st.end[1] = L
        /\ st.number \in [1 .. st.n -> 1 .. Len(sent)]
        /\ st.start \in [1 .. st.n -> Nat] /\ st.end \in [0 .. st.n -> Nat]
    BY <1>1, <1>2, <1>4
  <1>10. \A j \in 1 .. P : st.byte[k + (j - 1)] = Packet(m)[j]
    <2> TAKE j \in 1 .. P
    <2>1. k + (j - 1) \in Nat /\ k + (j - 1) < L /\ (k + (j - 1)) + 1 = (k + 1) + j - 1
      BY <1>3, <1>4, <1>6
    <2>2. st.byte[k + (j - 1)] = chunk[(k + (j - 1)) + 1]
      BY <1>7, <2>1, Zenon
    <2>3. QED BY <1>5, <2>1, <2>2
  <1>11. \A p \in 0 .. k - 1 : ~StartsAt(st.byte, p)
    <2> TAKE p \in 0 .. k - 1
    <2> SUFFICES ASSUME StartsAt(st.byte, p) PROVE FALSE
      OBVIOUS
    <2>1. /\ p \in Nat /\ p < L /\ p + 1 \in Nat /\ p + 1 < L /\ p + 2 \in Nat /\ p + 2 < L
          /\ p + 1 \in 1 .. k /\ (p + 1) + 1 = p + 2 /\ (p + 2) + 1 = p + 3 /\ (p + 1) + 2 = p + 3
          /\ p + 3 \in 1 .. L
      BY <1>3, <1>4, <1>6
    <2>2. st.byte[p] = chunk[p + 1] /\ st.byte[p + 1] = chunk[p + 2] /\ st.byte[p + 2] = chunk[p + 3]
      BY <1>7, <2>1
    <2>3. chunk[p + 1] = SYNC /\ chunk[p + 2] = START1 /\ chunk[p + 3] = START2
      BY <2>2 DEF StartsAt
    <2>4. SubSeq(chunk, p + 1, p + 3) = <<SYNC, START1, START2>>
      <3> DEFINE sub == SubSeq(chunk, p + 1, p + 3)
      <3>1. \A i \in p + 1 .. p + 3 : chunk[i] \in Byte
        BY <1>1, <2>1
      <3>2. p + 1 \in Int /\ p + 3 \in Int /\ p + 1 <= p + 3 /\ p + 3 - (p + 1) + 1 = 3
        BY <2>1
      <3>3. /\ sub \in Seq(Byte)
            /\ Len(sub) = IF p + 1 <= p + 3 THEN p + 3 - (p + 1) + 1 ELSE 0
            /\ \A j \in 1 .. p + 3 - (p + 1) + 1 : sub[j] = chunk[(p + 1) + j - 1]
        BY <3>1, <3>2, SubSeqProperties
      <3> HIDE DEF sub
      <3>4. sub \in Seq(Byte) /\ Len(sub) = 3 /\ \A j \in 1 .. 3 : sub[j] = chunk[(p + 1) + j - 1]
        <4>1. Len(sub) = 3
          BY <3>2, <3>3, Zenon
        <4>2. 1 .. p + 3 - (p + 1) + 1 = 1 .. 3
          BY <3>2, Zenon
        <4>3. QED BY <3>3, <4>1, <4>2, Zenon
      <3>5. (p + 1) + 1 - 1 = p + 1 /\ (p + 1) + 2 - 1 = p + 2 /\ (p + 1) + 3 - 1 = p + 3
        BY <2>1
      <3>6. sub[1] = SYNC /\ sub[2] = START1 /\ sub[3] = START2
        <4>1. 1 \in 1 .. 3 /\ 2 \in 1 .. 3 /\ 3 \in 1 .. 3
          OBVIOUS
        <4>2. /\ sub[1] = chunk[(p + 1) + 1 - 1] /\ sub[2] = chunk[(p + 1) + 2 - 1]
              /\ sub[3] = chunk[(p + 1) + 3 - 1]
          BY <3>4, <4>1, Zenon
        <4>3. QED BY <2>3, <3>5, <4>2, Zenon
      <3>7. sub = <<SYNC, START1, START2>>
        BY <3>4, <3>6
      <3>8. QED BY <3>7 DEF sub
    <2>5. CodesAt(chunk, p + 1)
      BY <2>1, <2>4 DEF CodesAt
    <2>6. QED BY <2>1, <2>5
  <1>12. PacketIn(st, 1, sent[st.number[1]])
    <2>1. /\ Sendable(m) /\ st.end[1 - 1] = 0 /\ st.start[1] = k /\ st.end[1] = k + P /\ 0 <= k
          /\ sent[st.number[1]] = m
      BY <1>4, <1>6, <1>9 DEF m
    <2>2. QED BY <1>10, <1>11, <2>1 DEF PacketIn, P
  <1>13. IsStream(st, sent)
    <2>1. st.n \in Nat /\ \A i \in 1 .. st.n : i = 1
      BY <1>2
    <2>2. \A i \in 1 .. st.n : PacketIn(st, i, sent[st.number[i]])
      BY <1>12, <2>1
    <2>3. \A i, j \in 0 .. st.n : i <= j => st.end[i] <= st.end[j]
      <3>1. \A i \in 0 .. st.n : i = 0 \/ i = 1
        BY <1>2
      <3>2. 0 <= 0 /\ L <= L /\ 0 <= L /\ ~(1 <= 0)
        BY <1>1
      <3>3. QED BY <1>9, <3>1, <3>2
    <2>4. QED BY <1>8, <1>9, <2>1, <2>2, <2>3 DEF IsStream
  <1>14. Carries(chunk, st)
    <2>1. \A j \in 0 .. L - 1 : chunk[j + 1] = st.byte[j]
      <3> TAKE j \in 0 .. L - 1
      <3>1. j \in Nat /\ j < L
        BY <1>1
      <3>2. QED BY <1>7, <3>1
    <2>2. QED BY <1>2, <1>9, <2>1 DEF Carries, L
  <1>15. QED BY <1>13, <1>14 DEF st

\* No byte has come yet.
NoStream == [n |-> 0, byte |-> [p \in Nat |-> 0], number |-> << >>, start |-> << >>,
             end |-> [i \in 0 .. 0 |-> 0]]

LEMMA InitFollows ==
    Init => IsStream(NoStream, traffic.sent) /\ Follows(NoStream, 0)
  <1> SUFFICES ASSUME Init
               PROVE  IsStream(NoStream, traffic.sent) /\ Follows(NoStream, 0)
    OBVIOUS
  <1>1. /\ NoStream.n = 0 /\ NoStream.byte = [p \in Nat |-> 0]
        /\ NoStream.number = << >> /\ NoStream.start = << >> /\ NoStream.end = [i \in 0 .. 0 |-> 0]
        /\ NoStream.end[0] = 0
    BY DEF NoStream
  <1>2. IsStream(NoStream, traffic.sent)
    <2>1. NoStream.byte \in [Nat -> Byte]
      BY <1>1 DEF Byte
    <2>2. << >> \in [1 .. 0 -> Nat] /\ << >> \in [1 .. 0 -> 1 .. Len(traffic.sent)]
      OBVIOUS
    <2>3. NoStream.end \in [0 .. 0 -> Nat] /\ \A i \in 0 .. 0 : i = 0
      BY <1>1
    <2>4. QED BY <1>1, <2>1, <2>2, <2>3 DEF IsStream
  <1>3. /\ ring = << >> /\ delivered = << >> /\ offset = 0 /\ dataSize = 0 /\ stop = FALSE
        /\ parserState = "Idle" /\ Remaining = 0
    BY DEF Init, Remaining
  <1>4. Place(NoStream, 0) = 0
    BY <1>1, <1>3 DEF Place
  <1>5. Handed(NoStream, 0)
    BY <1>1, <1>3 DEF Handed
  <1>6. Held(NoStream, 0)
    BY <1>1, <1>3, <1>4 DEF Held
  <1>7. Recognised(NoStream, Place(NoStream, 0))
    BY <1>3 DEF Recognised
  <1>8. QED BY <1>1, <1>2, <1>3, <1>5, <1>6, <1>7 DEF Follows

-----------------------------------------------------------------------------
(* Every portion a whole packet.                                           *)

\* The read ring holds the packets not fetched yet.
Queued(st, f) ==
    /\ Len(ring) = st.end[st.n] - st.end[f]
    /\ \A k \in 0 .. Len(ring) - 1 : ring[k + 1] = st.byte[st.end[f] + k]

\* The stream is that of the first portions, and the decoder follows it.
WholeSoFar(st, f) ==
    /\ IsStream(st, traffic.sent) /\ Follows(st, f) /\ Queued(st, f)
    /\ \A i \in 1 .. st.n : st.number[i] = i
    /\ Len(coming) = Len(traffic.chunks) - st.n
    /\ \A i \in 1 .. Len(coming) : coming[i] = traffic.chunks[st.n + i]

WholeInvariant ==
    /\ traffic \in Traffic
    /\ traffic.kind = "whole" => \E st, f : WholeSoFar(st, f)

LEMMA WholeInit == Init => WholeInvariant
  <1> SUFFICES ASSUME Init
               PROVE  WholeSoFar(NoStream, 0) /\ traffic \in Traffic
    BY DEF WholeInvariant
  <1>1. traffic \in Traffic /\ coming = traffic.chunks /\ NoStream.n = 0
    BY DEF Init, NoStream
  <1>2. coming \in Seq(Seq(Byte))
    BY <1>1, TrafficAssumption
  <1>3. Len(coming) \in Nat
    BY <1>2, LenProperties
  <1>4. Queued(NoStream, 0)
    BY DEF Queued, NoStream, Init
  <1>5. QED BY <1>1, <1>3, <1>4, InitFollows DEF WholeSoFar

\* Everything in the read ring is fetched at once.
LEMMA WholeFetch ==
    ASSUME DecoderInvariant, BacklogFits, NEW st, NEW f, WholeSoFar(st, f), Fetch
    PROVE  WholeSoFar(st, st.n)'
  <1> DEFINE e == st.end[f]
             last == st.end[st.n]
             r == Len(ring)
  <1>1. IsStream(st, traffic.sent) /\ Follows(st, f) /\ Queued(st, f)
    BY DEF WholeSoFar
  <1>2. f \in Nat /\ st.n \in Nat /\ f <= st.n /\ e \in Nat /\ last \in Nat
    BY <1>1, PlacesType
  <1>3. r \in Nat /\ ring \in Seq(Byte)
    BY LenProperties DEF DecoderInvariant, TypeOK
  <1>4. Fetched = r
    <2>1. Remaining = 0 /\ offset = 0 /\ dataSize \in Nat
      BY <1>1, Sizes DEF Follows, Fetch, DecoderInvariant, TypeOK
    <2>2. dataSize = 0
      BY <2>1 DEF Remaining
    <2>3. QED BY <1>3, <2>1, <2>2, Sizes DEF FreeSpace, Minimum, BacklogFits, Fetched
  <1>5. TakesUpTo(st, f, st.n) /\ st.n \in f .. st.n
    BY <1>1, <1>2, <1>4 DEF TakesUpTo, Queued
  <1>6. Follows(st, st.n)'
    BY <1>1, <1>5, FetchFollows
  <1>7. Queued(st, st.n)'
    <2>1. ring' = SubSeq(ring, r + 1, r)
      BY <1>4 DEF Fetch, Fetched
    <2>2. r + 1 \in Int /\ r \in Int /\ r + 1 > r
      BY <1>3
    <2>3. ring' = << >>
      BY <2>1, <2>2, SubSeqEmpty
    <2>4. last - last = 0
      BY <1>2
    <2>5. QED BY <2>3, <2>4 DEF Queued
  <1>8. coming' = coming /\ traffic' = traffic
    BY DEF Fetch
  <1>9. QED BY <1>6, <1>7, <1>8 DEF WholeSoFar

\* The decoder's steps leave the line alone.
LEMMA WholeDecoder ==
    ASSUME DecoderInvariant, NEW st, NEW f, WholeSoFar(st, f), Decode \/ Compact
    PROVE  WholeSoFar(st, f)'
  <1>1. Follows(st, f)'
    BY DecoderFollows DEF WholeSoFar
  <1>2. ring' = ring /\ coming' = coming /\ traffic' = traffic
    BY DEF Decode, DecodeIdle, DecodeSync, DecodeStart, Match, DecodeHader, DecodeData,
           DecodeCRC, Compact, Compacted, line
  <1>3. QED BY <1>1, <1>2 DEF WholeSoFar, Queued

\* What is queued when a portion comes off the line.
LEMMA QueuedJoined ==
    ASSUME DecoderInvariant, NEW st, IsStream(st, traffic.sent), NEW f, Follows(st, f),
           Queued(st, f), NEW more, IsStream(more, traffic.sent), Arrive,
           Carries(Head(coming), more)
    PROVE  Queued(Joined(st, more), f)'
  <1> DEFINE chunk == Head(coming)
             size == st.end[st.n]
             all == Joined(st, more)
  <1>1. ring' = ring \o chunk
    BY DEF Arrive
  <1>2. /\ f \in Nat /\ st.n \in Nat /\ f <= st.n
        /\ st.end[f] \in Nat /\ size \in Nat /\ st.end[f] <= size
    BY PlacesType
  <1>3. /\ ring \in Seq(Byte) /\ chunk \in Seq(Byte) /\ Len(chunk) = more.end[more.n]
        /\ \A k \in 0 .. Len(chunk) - 1 : chunk[k + 1] = more.byte[k]
    BY DEF DecoderInvariant, TypeOK, Carries
  <1> HIDE DEF chunk
  <1>4. /\ Len(ring) \in Nat /\ Len(chunk) \in Nat
        /\ Len(ring') = Len(ring) + Len(chunk)
        /\ \A i \in 1 .. Len(ring) + Len(chunk) :
              ring'[i] = IF i <= Len(ring) THEN ring[i] ELSE chunk[i - Len(ring)]
    <2>1. Len(ring) \in Nat /\ Len(chunk) \in Nat
      BY <1>3, LenProperties, Zenon
    <2>2. /\ Len(ring \o chunk) = Len(ring) + Len(chunk)
          /\ \A i \in 1 .. Len(ring) + Len(chunk) :
                (ring \o chunk)[i] = IF i <= Len(ring) THEN ring[i] ELSE chunk[i - Len(ring)]
      BY <1>3, ConcatProperties, ZenonT(60)
    <2>3. QED BY <1>1, <2>1, <2>2, Zenon
  <1>5. all = Joined(st, more) /\ size = st.end[st.n]
    OBVIOUS
  <1>6. more.n \in Nat /\ IsJoin(all, st, more, size, traffic.sent)
    BY JoinedParts, Zenon
  <1> HIDE DEF all, size
  <1>7. f \in 0 .. st.n /\ more.n \in 0 .. more.n
    BY <1>2, <1>6
  <1>8. all.end[f] = st.end[f] /\ all.end[all.n] = size + more.end[more.n]
    <2>1. all.end[st.n + more.n] = size + more.end[more.n] /\ all.n = st.n + more.n
      BY <1>6, <1>7, Zenon DEF IsJoin, JoinSecond
    <2>2. QED BY <1>6, <1>7, <2>1, Zenon DEF IsJoin, JoinFirst
  <1>9. Queued(all, f)'
    <2> DEFINE e == st.end[f]
    <2>1. /\ Len(ring) = size - e
          /\ \A k \in 0 .. Len(ring) - 1 : ring[k + 1] = st.byte[e + k]
      BY <1>5 DEF Queued
    <2>2. e \in Nat /\ more.end[more.n] \in Nat /\ e <= size /\ size \in Nat
      BY <1>2, <1>3, <1>4
    <2> HIDE DEF e
    <2>3. Len(ring') = all.end[all.n] - e
      <3> DEFINE r == Len(ring)
                 c == Len(chunk)
      <3>1. r \in Nat /\ c \in Nat /\ e \in Nat /\ size \in Nat /\ r = size - e
        BY <1>4, <2>1, <2>2, Zenon
      <3>2. Len(ring') = r + c /\ all.end[all.n] = size + c
        BY <1>3, <1>4, <1>8, Zenon
      <3> HIDE DEF r, c
      <3>3. r + c = (size + c) - e
        BY <3>1
      <3>4. QED BY <3>2, <3>3, Zenon
    <2>4. \A k \in 0 .. Len(ring') - 1 : ring'[k + 1] = all.byte[e + k]
      <3> TAKE k \in 0 .. Len(ring') - 1
      <3>1. k + 1 \in 1 .. Len(ring) + Len(chunk) /\ k \in Nat
        BY <1>4
      <3>2. CASE k < Len(ring)
        <4>1. k + 1 <= Len(ring) /\ k \in 0 .. Len(ring) - 1 /\ e + k \in Nat /\ e + k < size
          <5>1. k \in Nat /\ Len(ring) \in Nat /\ e \in Nat /\ size \in Nat /\ Len(ring) = size - e
            BY <1>4, <2>1, <2>2, <3>1
          <5>2. QED BY <3>2, <5>1
        <4>2. all.byte[e + k] = st.byte[e + k]
          BY <1>6, <4>1, Zenon DEF IsJoin, JoinBytes
        <4>3. QED BY <1>4, <2>1, <3>1, <4>1, <4>2
      <3>3. CASE ~(k < Len(ring))
        <4> DEFINE q == k - Len(ring)
        <4>1. /\ ~(k + 1 <= Len(ring)) /\ q \in 0 .. Len(chunk) - 1 /\ q \in Nat
              /\ (k + 1) - Len(ring) = q + 1 /\ e + k = size + q
          <5>1. /\ k \in Nat /\ Len(ring) \in Nat /\ e \in Nat /\ size \in Nat
                /\ Len(ring) = size - e /\ Len(chunk) \in Nat /\ k + 1 <= Len(ring) + Len(chunk)
            BY <1>4, <2>1, <2>2, <3>1
          <5>2. QED BY <3>3, <5>1
        <4> HIDE DEF q
        <4>2. ring'[k + 1] = chunk[q + 1]
          BY <1>4, <3>1, <4>1
        <4>3. chunk[q + 1] = more.byte[q]
          BY <1>3, <4>1
        <4>4. all.byte[size + q] = more.byte[q]
          BY <1>6, <4>1, Zenon DEF IsJoin, JoinBytes
        <4>5. QED BY <4>1, <4>2, <4>3, <4>4
      <3>4. QED BY <3>2, <3>3
    <2>5. QED BY <1>8, <2>3, <2>4 DEF Queued, e
  <1>10. QED BY <1>5, <1>9

\* The next portion holds the packet of the next message.
LEMMA WholeArrive ==
    ASSUME DecoderInvariant, traffic \in Traffic, traffic.kind = "whole", NEW st, NEW f,
           WholeSoFar(st, f), Arrive
    PROVE  \E all : WholeSoFar(all, f)'
  <1> DEFINE chunk == Head(coming)
             n == st.n + 1
             sent == traffic.sent
  <1>1. /\ coming # << >> /\ coming' = Tail(coming) /\ traffic' = traffic
        /\ coming \in Seq(Seq(Byte))
    BY DEF Arrive, DecoderInvariant, TypeOK
  <1>2. /\ chunk \in Seq(Byte) /\ chunk = coming[1] /\ Len(coming) \in Nat /\ Len(coming) >= 1
        /\ Len(coming') = Len(coming) - 1
        /\ \A i \in 1 .. Len(coming') : coming'[i] = coming[i + 1]
    BY <1>1, HeadTailProperties, LenProperties
  <1>3. /\ IsStream(st, sent) /\ Follows(st, f) /\ Queued(st, f)
        /\ \A i \in 1 .. st.n : st.number[i] = i
        /\ Len(coming) = Len(traffic.chunks) - st.n
        /\ \A i \in 1 .. Len(coming) : coming[i] = traffic.chunks[st.n + i]
    BY DEF WholeSoFar
  <1>4. traffic.chunks \in Seq(Seq(Byte)) /\ Len(traffic.chunks) \in Nat
    BY TrafficAssumption, LenProperties
  <1>5. st.n \in Nat /\ n \in 1 .. Len(traffic.chunks)
    <2> DEFINE lc == Len(coming)
               lt == Len(traffic.chunks)
               sn == st.n
    <2>1. sn \in Nat /\ lc \in Nat /\ lt \in Nat /\ lc >= 1 /\ lc = lt - sn
      BY <1>2, <1>3, <1>4, Zenon DEF IsStream
    <2> HIDE DEF lc, lt, sn
    <2>2. sn + 1 \in 1 .. lt
      BY <2>1
    <2>3. QED BY <2>1, <2>2, Zenon DEF sn, lt
  <1>6. n \in 1 .. Len(sent) /\ Sendable(sent[n]) /\ WholePortion(traffic.chunks[n], sent[n])
    BY <1>5, WholeAssumption
  <1>7. chunk = traffic.chunks[n]
    BY <1>2, <1>3
  <1> HIDE DEF chunk, n, sent
  <1>8. PICK k \in 0 .. Len(chunk) :
           /\ SubSeq(chunk, k + 1, Len(chunk)) = Packet(sent[n])
           /\ \A i \in 1 .. k : ~CodesAt(chunk, i)
    BY <1>6, <1>7 DEF WholePortion
  <1>9. PICK more : /\ IsStream(more, sent) /\ Carries(Head(coming), more)
                     /\ more.n = 1 /\ more.number[1] = n
    <2>1. IsStream(Single(chunk, k, n), sent) /\ Carries(chunk, Single(chunk, k, n))
      BY <1>2, <1>6, <1>8, SingleStream
    <2>2. Single(chunk, k, n).n = 1 /\ Single(chunk, k, n).number[1] = n
      BY DEF Single
    <2>3. QED BY <2>1, <2>2 DEF chunk
  <1> DEFINE all == Joined(st, more)
  <1>10. IsStream(all, sent) /\ Follows(all, f)' /\ Queued(all, f)'
    <2>1. IsStream(all, sent)
      BY <1>3, <1>9, JoinedStream
    <2>2. Follows(all, f)
      BY <1>3, <1>9, FollowsJoined DEF sent
    <2>3. Follows(all, f)'
      BY <2>2, FollowsFrame DEF Arrive
    <2>4. Queued(all, f)'
      BY <1>3, <1>9, QueuedJoined DEF sent
    <2>5. QED BY <2>1, <2>3, <2>4
  <1>11. IsJoin(all, st, more, st.end[st.n], sent)
    BY <1>3, <1>9, JoinedParts, Zenon
  <1> HIDE DEF all
  <1>13. all.n = st.n + 1 /\ \A i \in 1 .. all.n : all.number[i] = i
    <2>1. /\ all.n = st.n + 1
          /\ \A i \in 1 .. st.n : all.number[i] = i
          /\ all.number[st.n + 1] = n
      <3>1. more.n = 1 /\ more.number[1] = n /\ 1 \in 1 .. 1
        BY <1>9
      <3>2. all.number[st.n + 1] = more.number[1]
        BY <1>11, <3>1, Zenon DEF IsJoin, JoinSecond
      <3>3. \A i \in 1 .. st.n : all.number[i] = st.number[i]
        BY <1>11, Zenon DEF IsJoin, JoinFirst
      <3>4. \A i \in 1 .. st.n : st.number[i] = i
        BY <1>3, Zenon
      <3>5. all.n = st.n + more.n
        BY <1>11, Zenon DEF IsJoin
      <3>6. QED BY <3>1, <3>2, <3>3, <3>4, <3>5, Zenon
    <2>2. \A i \in 1 .. st.n + 1 : i \in 1 .. st.n \/ i = st.n + 1
      <3>1. st.n \in Nat
        BY <1>5, Zenon
      <3>2. QED BY <3>1
    <2>3. QED BY <2>1, <2>2, Zenon DEF n
  <1>14. /\ Len(coming') = Len(traffic.chunks) - all.n
         /\ \A i \in 1 .. Len(coming') : coming'[i] = traffic.chunks[all.n + i]
    <2>1. Len(coming') = Len(traffic.chunks) - all.n
      <3>1. /\ Len(coming) \in Nat /\ Len(coming') = Len(coming) - 1
            /\ st.n \in Nat /\ all.n = st.n + 1
            /\ Len(traffic.chunks) \in Nat /\ Len(coming) = Len(traffic.chunks) - st.n
        BY <1>2, <1>3, <1>4, <1>5, <1>13, Zenon
      <3> DEFINE lc == Len(coming)
                 lt == Len(traffic.chunks)
                 sn == st.n
      <3>2. lc \in Nat /\ sn \in Nat /\ lt \in Nat /\ lc = lt - sn
        BY <3>1, Zenon
      <3> HIDE DEF lc, lt, sn
      <3>3. lc - 1 = lt - (sn + 1)
        BY <3>2
      <3>4. QED BY <3>1, <3>3, Zenon DEF lc, lt, sn
    <2>2. \A i \in 1 .. Len(coming') : i + 1 \in 1 .. Len(coming) /\ st.n + (i + 1) = all.n + i
      <3>1. /\ Len(coming) \in Nat /\ Len(coming') = Len(coming) - 1
            /\ st.n \in Nat /\ all.n = st.n + 1
        BY <1>2, <1>5, <1>13, Zenon
      <3> TAKE i \in 1 .. Len(coming')
      <3> DEFINE lc == Len(coming)
                 sn == st.n
      <3>2. lc \in Nat /\ sn \in Nat /\ i \in 1 .. lc - 1 /\ all.n = sn + 1
        BY <3>1, Zenon
      <3> HIDE DEF lc, sn
      <3>3. i + 1 \in 1 .. lc /\ sn + (i + 1) = (sn + 1) + i
        BY <3>2
      <3>4. QED BY <3>2, <3>3, Zenon DEF lc, sn
    <2>3. \A i \in 1 .. Len(coming') : coming[i + 1] = traffic.chunks[st.n + (i + 1)]
      BY <1>3, <2>2
    <2>4. QED BY <1>2, <2>1, <2>2, <2>3
  <1>15. WholeSoFar(all, f)'
    BY <1>1, <1>10, <1>13, <1>14 DEF WholeSoFar, sent
  <1>16. QED BY <1>15

LEMMA WholeStep ==
    DecoderInvariant /\ BacklogFits /\ WholeInvariant /\ [Next]_vars => WholeInvariant'
  <1> SUFFICES ASSUME DecoderInvariant, BacklogFits, WholeInvariant, [Next]_vars
               PROVE  WholeInvariant'
    OBVIOUS
  <1>1. traffic' = traffic
    BY DEF Next, Arrive, Fetch, Decode, DecodeIdle, DecodeSync, DecodeStart, Match, DecodeHader,
           DecodeData, DecodeCRC, Compact, Compacted, line, vars
  <1>2. CASE traffic.kind # "whole"
    BY <1>1, <1>2 DEF WholeInvariant
  <1>3. CASE traffic.kind = "whole"
    <2>1. PICK st, f : WholeSoFar(st, f)
      BY <1>3 DEF WholeInvariant
    <2>2. \E all, g : WholeSoFar(all, g)'
      <3>1. CASE Arrive
        BY <1>3, <2>1, <3>1, WholeArrive DEF WholeInvariant
      <3>2. CASE Fetch
        BY <2>1, <3>2, WholeFetch
      <3>3. CASE Decode \/ Compact
        BY <2>1, <3>3, WholeDecoder
      <3>4. CASE UNCHANGED vars
        <4>1. /\ UNCHANGED <<handle, pc, stop, delivered, traffic>>
              /\ ring' = ring /\ coming' = coming
          BY <3>4 DEF vars, line
        <4>2. Follows(st, f)'
          BY <2>1, <4>1, FollowsFrame DEF WholeSoFar
        <4>3. WholeSoFar(st, f)'
          BY <2>1, <4>1, <4>2 DEF WholeSoFar, Queued
        <4>4. QED BY <4>3
      <3>5. QED BY <3>1, <3>2, <3>3, <3>4 DEF Next
    <2>3. QED BY <1>1, <2>2 DEF WholeInvariant
  <1>4. QED BY <1>2, <1>3

LEMMA WholeDelivers == WholeInvariant => WholeInOrder
  <1> SUFFICES ASSUME WholeInvariant, traffic.kind = "whole"
               PROVE  delivered = SubSeq(traffic.sent, 1, Len(delivered))
    BY DEF WholeInOrder
  <1> DEFINE sent == traffic.sent
             d == Len(delivered)
             sub == SubSeq(sent, 1, d)
  <1>1. PICK st, f : WholeSoFar(st, f)
    BY DEF WholeInvariant
  <1>2. /\ IsStream(st, sent)
        /\ \A i \in 1 .. st.n : st.number[i] = i
        /\ f \in 0 .. st.n
        /\ delivered \in Seq(AnyMessage) /\ d <= f
        /\ \A i \in 1 .. d : delivered[i] = sent[st.number[i]]
    BY <1>1 DEF WholeSoFar, Follows, Handed
  <1>3. d \in Nat /\ st.n \in Nat /\ DOMAIN delivered = 1 .. d
        /\ \A i \in 1 .. d : delivered[i] \in AnyMessage
    BY <1>2, LenProperties DEF IsStream
  <1> HIDE DEF d, sent
  <1>4. \A i \in 1 .. d : delivered[i] = sent[i]
    <2>1. \A i \in 1 .. d : i \in 1 .. st.n
      BY <1>2, <1>3
    <2>2. QED BY <1>2, <2>1
  <1>5. \A i \in 1 .. d : sent[i] \in AnyMessage
    BY <1>3, <1>4
  <1>6. 1 \in Int /\ d \in Int
    BY <1>3
  <1>7. /\ sub \in Seq(AnyMessage)
        /\ Len(sub) = IF 1 <= d THEN d - 1 + 1 ELSE 0
        /\ \A i \in 1 .. d - 1 + 1 : sub[i] = sent[1 + i - 1]
    BY <1>5, <1>6, SubSeqProperties
  <1> HIDE DEF sub
  <1>8. Len(sub) = d /\ \A i \in 1 .. d : 1 + i - 1 = i
    BY <1>3, <1>7
  <1>9. d - 1 + 1 = d
    BY <1>3
  <1>10. \A i \in 1 .. d : sub[i] = delivered[i]
    BY <1>4, <1>7, <1>8, <1>9
  <1>11. sub = delivered
    BY <1>2, <1>7, <1>8, <1>10 DEF d
  <1>12. QED BY <1>11 DEF sub, d, sent

(* As long as every backlog fits the parser's buffer, portions that each   *)
(* hold one whole packet give the callback the messages in order, for      *)
(* every buffer size, every noise in which no packet seems to start and    *)
(* every checksum function.                                                *)
THEOREM WholeDelivery == Spec /\ []BacklogFits => []WholeInOrder
  <1>1. QED BY DecoderCorrect, WholeInit, WholeStep, WholeDelivers, PTL DEF Spec
=============================================================================
