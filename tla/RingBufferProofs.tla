-------------------------- MODULE RingBufferProofs --------------------------
(***************************************************************************)
(* A ring of any size, with blocks of any size below it, keeps its         *)
(* positions in the buffer and implements the byte queue.                  *)
(***************************************************************************)
EXTENDS RingBuffer, TcBufferProofs

\* A block is a sequence of at most MaxBlock bytes, so it fits an empty ring.
LEMMA BlockType ==
    ASSUME NEW bytes \in Block
    PROVE  bytes \in Seq(Byte) /\ Len(bytes) \in 0 .. MaxBlock
  BY BlockAssumption DEF Block

LEMMA BlockFits ==
    /\ MaxBlock \in Nat \ {0}
    /\ MaxBufferSize \in Nat
    /\ MaxBlock < MaxBufferSize
    /\ \A n \in 0 .. MaxBlock : n \in 0 .. MaxBufferSize - 1 /\ n \in 0 .. MaxBufferSize
  BY BlockAssumption, MaxBufferSizeAssumption

\* A one-byte push is a push of a block of one byte.
LEMMA OneByteIsBlock ==
    ASSUME NEW mem \in [Slots -> Byte], NEW pos \in Slots, NEW data \in Byte
    PROVE  /\ <<data>> \in Block
           /\ Len(<<data>>) = 1
           /\ Stored(mem, pos, <<data>>) = [mem EXCEPT ![pos] = data]
           /\ NextSlot(pos) = Advanced(pos, 1)
  <1>1. <<data>> \in [1 .. 1 -> Byte] /\ 1 \in 0 .. MaxBlock
    BY BlockFits
  <1>2. NextSlot(pos) = Advanced(pos, 1)
    BY NextSlotType, AdvancedType, MaxBufferSizeAssumption
  <1>3. Stored(mem, pos, <<data>>) = [mem EXCEPT ![pos] = data]
    <2>1. PICK block \in Seq(Byte) : block = <<data>>
      <3>1. <<data>> \in Seq(Byte)
        OBVIOUS
      <3>2. QED BY <3>1, Zenon
    <2>2. Len(block) = 1 /\ block[1] = data /\ Len(block) < MaxBufferSize
      BY <2>1, MaxBufferSizeAssumption
    <2>3. PICK new : new = Stored(mem, pos, block)
      OBVIOUS
    <2>4. /\ new \in [Slots -> Byte]
          /\ \A k \in 0 .. MaxBufferSize - 1 :
                new[SlotAfter(pos, k)] = IF k < Len(block) THEN block[k + 1] ELSE mem[SlotAfter(pos, k)]
      <3>1. IsStored(new, Byte, mem, pos, block)
        BY <2>2, <2>3, StoredAt, Zenon
      <3>2. QED BY <3>1, Zenon DEF IsStored
    <2>5. ASSUME NEW i \in Slots
          PROVE  new[i] = IF i = pos THEN data ELSE mem[i]
      <3>1. PICK k \in 0 .. MaxBufferSize - 1 : i = SlotAfter(pos, k) /\ (k = 0 <=> i = pos)
        <4> DEFINE k == IF i >= pos THEN i - pos ELSE i - pos + MaxBufferSize
        <4>1. k \in 0 .. MaxBufferSize - 1 /\ i = SlotAfter(pos, k) /\ (k = 0 <=> i = pos)
          BY MaxBufferSizeAssumption DEF SlotAfter, Slots
        <4>2. QED BY <4>1
      <3>2. QED BY <2>2, <2>4, <3>1
    <2>6. QED BY <2>1, <2>3, <2>4, <2>5
  <1>4. QED BY <1>1, <1>2, <1>3 DEF Block

-----------------------------------------------------------------------------
\* The positions and the bytes after the operations that change them.
LEMMA OperationsType ==
    ASSUME TypeOK, NEW bytes \in Block, NEW size \in 0 .. MaxBlock
    PROVE  /\ Stored(pBuffer, tail, bytes) \in [Slots -> Byte]
           /\ Advanced(tail, Len(bytes)) \in Slots
           /\ HeadAfterOverwrite(Advanced(tail, Len(bytes))) \in Slots
           /\ Advanced(head, size) \in Slots
           /\ Taken(pBuffer, head, size) \in Seq(Byte)
  <1>1. bytes \in Seq(Byte) /\ Len(bytes) < MaxBufferSize /\ Len(bytes) \in 0 .. MaxBufferSize
    BY BlockType, BlockFits
  <1>2. size \in 0 .. MaxBufferSize - 1 /\ size \in 0 .. MaxBufferSize
    BY BlockFits
  <1>3. Advanced(tail, Len(bytes)) \in Slots /\ Advanced(head, size) \in Slots
    BY <1>1, <1>2, AdvancedType DEF TypeOK
  <1>4. Stored(pBuffer, tail, bytes) \in [Slots -> Byte]
    <2>1. pBuffer \in [Slots -> Byte] /\ tail \in Slots
      BY Zenon DEF TypeOK
    <2>2. IsStored(Stored(pBuffer, tail, bytes), Byte, pBuffer, tail, bytes)
      BY <1>1, <2>1, StoredAt, Zenon
    <2>3. QED BY <2>2, Zenon DEF IsStored
  <1>5. Taken(pBuffer, head, size) \in Seq(Byte)
    <2>1. pBuffer \in [Slots -> Byte] /\ head \in Slots
      BY Zenon DEF TypeOK
    <2>2. Reads(Taken(pBuffer, head, size), Byte, pBuffer, head, size)
      BY <1>2, <2>1, TakenAt, Zenon
    <2>3. QED BY <2>2, Zenon DEF Reads
  <1>6. QED BY <1>3, <1>4, <1>5, NextSlotType

\* What a function returns is of the right type.
LEMMA ReturnsType ==
    ASSUME NEW ret \in Int, NEW bytes \in Seq(Byte), Returns(ret, bytes)
    PROVE  result' \in [ret : Int, bytes : Seq(Byte)]
  BY DEF Returns

LEMMA CodesType ==
    /\ TC_BUFFER_OK \in Int /\ TC_BUFFER_ERROR \in Int
    /\ TC_BUFFER_FULL \in Int /\ TC_BUFFER_EMPTY \in Int
    /\ << >> \in Seq(Byte)
  BY DEF TC_BUFFER_OK, TC_BUFFER_ERROR, TC_BUFFER_FULL, TC_BUFFER_EMPTY

\* Every position stays a slot of the buffer, whatever the calls and in
\* whatever order: no function of tc-buffer.c but the one-byte overwriting
\* push takes Head or Tail out of it.
THEOREM TypeCorrect == Spec => []TypeOK
  <1>1. Init => TypeOK
    BY BlockAssumption, MaxBufferSizeAssumption, CodesType DEF Init, TypeOK, Slots
  <1>2. TypeOK /\ [Next]_vars => TypeOK'
    <2> SUFFICES ASSUME TypeOK, [Next]_vars
                 PROVE  TypeOK'
      OBVIOUS
    <2>1. ASSUME NEW bytes \in Block, PushBuffer(bytes)
          PROVE  TypeOK'
      <3>1. Len(bytes) \in Int /\ 0 \in 0 .. MaxBlock
        BY BlockType, BlockFits
      <3>2. result' \in [ret : Int, bytes : Seq(Byte)]
        BY <2>1, <3>1, CodesType, ReturnsType DEF PushBuffer
      <3>3. head' \in Slots /\ tail' \in Slots /\ pBuffer' \in [Slots -> Byte]
        BY <2>1, <3>1, OperationsType DEF PushBuffer, TypeOK
      <3>4. QED BY <3>2, <3>3 DEF TypeOK
    <2>2. ASSUME NEW bytes \in Block, PushBufferOverwrite(bytes)
          PROVE  TypeOK'
      <3>1. Len(bytes) \in Int /\ 0 \in 0 .. MaxBlock
        BY BlockType, BlockFits
      <3>2. result' \in [ret : Int, bytes : Seq(Byte)]
        BY <2>2, <3>1, CodesType, ReturnsType DEF PushBufferOverwrite
      <3>3. head' \in Slots /\ tail' \in Slots /\ pBuffer' \in [Slots -> Byte]
        BY <2>2, <3>1, OperationsType DEF PushBufferOverwrite
      <3>4. QED BY <3>2, <3>3 DEF TypeOK
    <2>3. ASSUME NEW size \in 0 .. MaxBlock, PopBuffer(size)
          PROVE  TypeOK'
      <3>1. << >> \in Block
        BY BlockFits DEF Block
      <3>2. Taken(pBuffer, head, size) \in Seq(Byte) /\ Advanced(head, size) \in Slots
        BY <3>1, OperationsType
      <3>3. result' \in [ret : Int, bytes : Seq(Byte)]
        BY <2>3, <3>2, CodesType, ReturnsType DEF PopBuffer
      <3>4. head' \in Slots /\ tail' \in Slots /\ pBuffer' \in [Slots -> Byte]
        BY <2>3, <3>2 DEF PopBuffer, TypeOK
      <3>5. QED BY <3>3, <3>4 DEF TypeOK
    <2>4. ASSUME NEW data \in Byte, PushOneByte(data)
          PROVE  TypeOK'
      <3>1. result' \in [ret : Int, bytes : Seq(Byte)]
        BY <2>4, CodesType, ReturnsType DEF PushOneByte
      <3>2. head' \in Slots /\ tail' \in Slots /\ pBuffer' \in [Slots -> Byte]
        BY <2>4, NextSlotType DEF PushOneByte, TypeOK
      <3>3. QED BY <3>1, <3>2 DEF TypeOK
    <2>5. ASSUME PopOneByte
          PROVE  TypeOK'
      <3>1. ASSUME NEW data \in ReadAt(head)
            PROVE  <<data>> \in Seq(Byte)
        <4>1. data \in Byte
          BY DEF ReadAt, TypeOK
        <4>2. QED BY <4>1
      <3>2. result' \in [ret : Int, bytes : Seq(Byte)]
        BY <2>5, <3>1, CodesType, ReturnsType DEF PopOneByte
      <3>3. head' \in Slots /\ tail' \in Slots /\ pBuffer' \in [Slots -> Byte]
        BY <2>5, NextSlotType DEF PopOneByte, TypeOK
      <3>4. QED BY <3>2, <3>3 DEF TypeOK
    <2>6. ASSUME Flush
          PROVE  TypeOK'
      <3>1. result' \in [ret : Int, bytes : Seq(Byte)]
        BY <2>6, CodesType, ReturnsType DEF Flush
      <3>2. QED BY <2>6, <3>1, MaxBufferSizeAssumption DEF Flush, TypeOK, Slots
    <2>7. ASSUME NEW size \in 0 .. MaxBufferSize, FlushByte(size)
          PROVE  TypeOK'
      <3>1. result' \in [ret : Int, bytes : Seq(Byte)]
        BY <2>7, CodesType, ReturnsType DEF FlushByte
      <3>2. HeadAfterFlush(head, tail, size) \in Slots
        <4> DEFINE n == DataAvailable(head, tail)
                   k == IF size <= n THEN size ELSE n
        <4>1. k \in 0 .. MaxBufferSize
          BY SizesType, MaxBufferSizeAssumption DEF TypeOK
        <4>2. HeadAfterFlush(head, tail, size) = SlotAfter(head, k)
          BY FlushedHead DEF TypeOK
        <4>3. QED BY <4>1, <4>2, SlotModulo DEF TypeOK
      <3>3. QED BY <2>7, <3>1, <3>2 DEF FlushByte, TypeOK
    <2>8. CASE UNCHANGED vars
      BY <2>8 DEF vars, TypeOK
    <2>9. QED
      BY <2>1, <2>2, <2>3, <2>4, <2>5, <2>6, <2>7, <2>8 DEF Next, WriteData
  <1>3. QED BY <1>1, <1>2, PTL DEF Spec

\* The function Spec leaves out: a full ring whose oldest byte is in the last slot
\* gets a Head behind the buffer, whatever the size of the ring.
LEMMA OneByteOverwriteLeavesBuffer ==
    ASSUME TypeOK, NEW data \in Byte, head = MaxBufferSize - 1, NextSlot(tail) = head,
           PushOneByteOverwrite(data)
    PROVE  head' \notin Slots
  BY MaxBufferSizeAssumption DEF PushOneByteOverwrite, Slots

-----------------------------------------------------------------------------
(* The refinement.  The bytes between Head and Tail are the abstract queue. *)

\* The contents of a well-typed ring.
LEMMA ContentsType ==
    ASSUME TypeOK
    PROVE  /\ Contents(pBuffer, head, tail) \in Seq(Byte)
           /\ Len(Contents(pBuffer, head, tail)) = DataAvailable(head, tail)
           /\ DataAvailable(head, tail) \in 0 .. MaxBufferSize - 1
           /\ FreeSpace(head, tail) = MaxBufferSize - 1 - DataAvailable(head, tail)
           /\ tail = head <=> Contents(pBuffer, head, tail) = << >>
  <1>1. /\ Contents(pBuffer, head, tail) \in Seq(Byte)
        /\ Len(Contents(pBuffer, head, tail)) = DataAvailable(head, tail)
    <2>1. pBuffer \in [Slots -> Byte] /\ head \in Slots /\ tail \in Slots
      BY Zenon DEF TypeOK
    <2>2. Reads(Contents(pBuffer, head, tail), Byte, pBuffer, head, DataAvailable(head, tail))
      BY <2>1, ContentsAt, Zenon
    <2>3. QED BY <2>2, Zenon DEF Reads
  <1>2. /\ DataAvailable(head, tail) \in 0 .. MaxBufferSize - 1
        /\ FreeSpace(head, tail) = MaxBufferSize - 1 - DataAvailable(head, tail)
        /\ tail = head <=> DataAvailable(head, tail) = 0
    BY SizesType DEF TypeOK
  <1>3. QED BY <1>1, <1>2, EmptySeq

\* A plain push is an Enqueue or, when it does not fit, a Refuse.
LEMMA PushRefines ==
    ASSUME TypeOK, NEW bytes \in Block, PushBuffer(bytes)
    PROVE  Queue!Enqueue(bytes, Len(bytes)) \/ Queue!Refuse(bytes)
  <1> DEFINE old == Contents(pBuffer, head, tail)
  <1>1. /\ bytes \in Seq(Byte) /\ Len(bytes) \in Nat
        /\ MaxBufferSize \in Nat
    BY BlockType, BlockFits
  <1>2. CASE FreeSpace(head, tail) >= Len(bytes)
    <2>1. /\ head' = head /\ tail' = Advanced(tail, Len(bytes))
          /\ pBuffer' = Stored(pBuffer, tail, bytes)
          /\ Returns(Len(bytes), << >>)
      BY <1>1, <1>2, ContentsType DEF PushBuffer
    <2>2. Contents(pBuffer', head', tail') = old \o bytes
      <3>1. pBuffer \in [Slots -> Byte] /\ head \in Slots /\ tail \in Slots
        BY Zenon DEF TypeOK
      <3>2. Len(bytes) <= FreeSpace(head, tail)
        BY <1>2
      <3>3. Appends(pBuffer, head, tail, bytes)
        BY <1>1, <3>1, <3>2, PushAppends, Zenon
      <3>4. QED BY <2>1, <3>3, Zenon DEF Appends
    <2>3. Len(old) + Len(bytes) <= MaxBufferSize - 1
      BY <1>1, <1>2, ContentsType
    <2>4. QED BY <2>1, <2>2, <2>3 DEF Queue!Enqueue, Queue!Returns, Returns
  <1>3. CASE FreeSpace(head, tail) < Len(bytes)
    <2>1. UNCHANGED <<head, tail, pBuffer>> /\ Returns(TC_BUFFER_FULL, << >>)
      BY <1>1, <1>3, ContentsType DEF PushBuffer
    <2>2. Contents(pBuffer', head', tail') = old
      BY <2>1
    <2>3. Len(old) + Len(bytes) > MaxBufferSize - 1
      BY <1>1, <1>3, ContentsType
    <2>4. QED
      BY <2>1, <2>2, <2>3
      DEF Queue!Refuse, Queue!Returns, Returns, Queue!FULL, TC_BUFFER_FULL
  <1>4. QED BY <1>1, <1>2, <1>3, ContentsType

\* An overwriting push of a block that does not fit is a Replace.
LEMMA OverwriteRefines ==
    ASSUME TypeOK, NEW bytes \in Block, Len(bytes) > FreeSpace(head, tail),
           PushBufferOverwrite(bytes)
    PROVE  Queue!Replace(bytes, Len(bytes))
  <1> DEFINE old == Contents(pBuffer, head, tail)
             all == old \o bytes
  <1>1. /\ bytes \in Seq(Byte) /\ Len(bytes) \in Nat
        /\ Len(bytes) < MaxBufferSize /\ MaxBufferSize \in Nat
    BY BlockType, BlockFits
  <1>2. /\ tail' = Advanced(tail, Len(bytes)) /\ head' = HeadAfterOverwrite(tail')
        /\ pBuffer' = Stored(pBuffer, tail, bytes)
        /\ Returns(Len(bytes), << >>)
    BY DEF PushBufferOverwrite
  <1>3. Contents(pBuffer', head', tail') =
            SubSeq(all, Len(all) - (MaxBufferSize - 1) + 1, Len(all))
    <2>1. pBuffer \in [Slots -> Byte] /\ head \in Slots /\ tail \in Slots
      BY Zenon DEF TypeOK
    <2>2. KeepsNewest(pBuffer, head, tail, bytes)
      BY <1>1, <2>1, OverwriteKeepsNewest, Zenon
    <2>3. QED BY <1>2, <2>2, Zenon DEF KeepsNewest
  <1>4. Len(old) + Len(bytes) > MaxBufferSize - 1
    BY <1>1, ContentsType
  <1>5. QED
    BY <1>2, <1>3, <1>4 DEF Queue!Replace, Queue!Newest, Queue!Returns, Returns

\* A pop is a Take or takes nothing.
LEMMA PopRefines ==
    ASSUME TypeOK, NEW size \in 0 .. MaxBlock, PopBuffer(size)
    PROVE  Queue!Take(size) \/ Queue!TakeNothing(size)
  <1> DEFINE old == Contents(pBuffer, head, tail)
             n   == DataAvailable(head, tail)
  <1>1. n \in Nat /\ size \in Nat /\ n = Len(old)
    BY BlockFits, ContentsType
  <1>2. CASE tail # head /\ n >= size
    <2>1. /\ UNCHANGED <<tail, pBuffer>> /\ head' = Advanced(head, size)
          /\ Returns(TC_BUFFER_OK, Taken(pBuffer, head, size))
      BY <1>1, <1>2 DEF PopBuffer
    <2>2. size \in 0 .. n /\ size \in 0 .. MaxBufferSize
      BY <1>1, <1>2, BlockFits
    <2>3. head' = SlotAfter(head, size)
      BY <2>1, <2>2, AdvancedType DEF TypeOK
    <2>4. Contents(pBuffer', head', tail') = SubSeq(old, size + 1, Len(old))
      <3>1. pBuffer \in [Slots -> Byte] /\ head \in Slots /\ tail \in Slots
        BY Zenon DEF TypeOK
      <3>2. Contents(pBuffer, SlotAfter(head, size), tail) = SubSeq(old, size + 1, n)
        BY <2>2, <3>1, AdvanceDrops, Zenon
      <3> HIDE DEF old, n
      <3>3. Contents(pBuffer', head', tail') = Contents(pBuffer, SlotAfter(head, size), tail)
        BY <2>1, <2>3, Zenon
      <3>4. QED BY <1>1, <3>2, <3>3, Zenon
    <2>5. Taken(pBuffer, head, size) = SubSeq(old, 1, size)
      BY <2>2, PopTakesOldest DEF TypeOK
    <2>6. old # << >> /\ size <= Len(old)
      BY <1>1, <1>2, ContentsType
    <2>7. QED
      BY <2>1, <2>4, <2>5, <2>6
      DEF Queue!Take, Queue!Drop, Queue!Returns, Returns, Queue!OK, TC_BUFFER_OK
  <1>3. CASE tail = head \/ n < size
    <2>1. /\ UNCHANGED <<head, tail, pBuffer>>
          /\ Returns(IF tail = head THEN TC_BUFFER_EMPTY ELSE TC_BUFFER_ERROR, << >>)
      BY <1>1, <1>3 DEF PopBuffer
    <2>2. Contents(pBuffer', head', tail') = old
      BY <2>1
    <2>3. tail = head <=> old = << >>
      BY ContentsType
    <2>4. old = << >> \/ size > Len(old)
      BY <1>1, <1>3, <2>3
    <2>5. QED
      BY <2>1, <2>2, <2>3, <2>4
      DEF Queue!TakeNothing, Queue!Returns, Returns, Queue!EMPTY, Queue!ERROR,
          TC_BUFFER_EMPTY, TC_BUFFER_ERROR
  <1>4. QED BY <1>1, <1>2, <1>3

\* A one-byte push is an Enqueue of a block of one byte.
LEMMA PushOneRefines ==
    ASSUME TypeOK, NEW data \in Byte, PushOneByte(data)
    PROVE  Queue!Enqueue(<<data>>, Queue!OK) \/ Queue!Refuse(<<data>>)
  <1> DEFINE old == Contents(pBuffer, head, tail)
  <1>1. PICK block \in Seq(Byte) : block = <<data>>
    <2>1. <<data>> \in Seq(Byte)
      OBVIOUS
    <2>2. QED BY <2>1, Zenon
  <1>2. /\ Len(block) = 1
        /\ Stored(pBuffer, tail, block) = [pBuffer EXCEPT ![tail] = data]
        /\ NextSlot(tail) = Advanced(tail, 1)
    BY <1>1, OneByteIsBlock DEF TypeOK
  <1>3. NextSlot(tail) = head <=> FreeSpace(head, tail) = 0
    <2>1. head \in Slots /\ tail \in Slots
      BY Zenon DEF TypeOK
    <2>2. NextSlot(tail) = SlotAfter(tail, 1)
      BY <2>1, NextSlotType, Zenon
    <2>3. SlotAfter(tail, 1) = head <=> FreeSpace(head, tail) = 0
      BY <2>1, MaxBufferSizeAssumption DEF FreeSpace, SlotAfter, Slots
    <2>4. QED BY <2>2, <2>3, Zenon
  <1>4. /\ Len(old) \in Nat /\ MaxBufferSize \in Nat
        /\ FreeSpace(head, tail) = MaxBufferSize - 1 - Len(old)
        /\ FreeSpace(head, tail) \in Nat
    BY ContentsType, BlockFits
  <1>5. CASE NextSlot(tail) # head
    <2>1. /\ head' = head /\ tail' = Advanced(tail, Len(block))
          /\ pBuffer' = Stored(pBuffer, tail, block)
          /\ Returns(TC_BUFFER_OK, << >>)
      BY <1>2, <1>5 DEF PushOneByte
    <2>2. Len(block) <= FreeSpace(head, tail)
      BY <1>2, <1>3, <1>4, <1>5
    <2>3. Contents(pBuffer', head', tail') = old \o block
      <3>1. pBuffer \in [Slots -> Byte] /\ head \in Slots /\ tail \in Slots
        BY Zenon DEF TypeOK
      <3>2. Appends(pBuffer, head, tail, block)
        BY <2>2, <3>1, PushAppends, Zenon
      <3>3. QED BY <2>1, <3>2, Zenon DEF Appends
    <2>4. Len(old) + Len(block) <= MaxBufferSize - 1
      BY <1>2, <1>4, <2>2
    <2>5. QED
      BY <1>1, <2>1, <2>3, <2>4
      DEF Queue!Enqueue, Queue!Returns, Returns, Queue!OK, TC_BUFFER_OK
  <1>6. CASE NextSlot(tail) = head
    <2>1. UNCHANGED <<head, tail, pBuffer>> /\ Returns(TC_BUFFER_FULL, << >>)
      BY <1>6 DEF PushOneByte
    <2>2. Contents(pBuffer', head', tail') = old
      BY <2>1
    <2>3. Len(old) + Len(block) > MaxBufferSize - 1
      BY <1>2, <1>3, <1>4, <1>6
    <2>4. QED
      BY <1>1, <2>1, <2>2, <2>3
      DEF Queue!Refuse, Queue!Returns, Returns, Queue!FULL, TC_BUFFER_FULL
  <1>7. QED BY <1>5, <1>6

\* A one-byte pop is a Take of one byte.
LEMMA PopOneRefines ==
    ASSUME TypeOK, PopOneByte
    PROVE  Queue!Take(1) \/ Queue!TakeNothing(1)
  <1> DEFINE old == Contents(pBuffer, head, tail)
             n   == DataAvailable(head, tail)
  <1>1. n \in Nat /\ n = Len(old) /\ (tail = head <=> old = << >>) /\ (tail = head <=> n = 0)
    BY ContentsType, SizesType DEF TypeOK
  <1>2. CASE tail # head
    <2>1. /\ UNCHANGED <<tail, pBuffer>> /\ head' = SlotAfter(head, 1)
          /\ Returns(TC_BUFFER_OK, <<pBuffer[head]>>)
      BY <1>2, NextSlotType DEF PopOneByte, ReadAt, TypeOK
    <2>2. 1 \in 0 .. n
      BY <1>1, <1>2
    <2>3. Contents(pBuffer', head', tail') = SubSeq(old, 1 + 1, Len(old))
      <3>1. pBuffer \in [Slots -> Byte] /\ head \in Slots /\ tail \in Slots
        BY Zenon DEF TypeOK
      <3>2. Contents(pBuffer, SlotAfter(head, 1), tail) = SubSeq(old, 1 + 1, n)
        BY <2>2, <3>1, AdvanceDrops, Zenon
      <3> HIDE DEF old, n
      <3>3. Contents(pBuffer', head', tail') = Contents(pBuffer, SlotAfter(head, 1), tail)
        BY <2>1, Zenon
      <3>4. QED BY <1>1, <3>2, <3>3, Zenon
    <2>4. SubSeq(old, 1, 1) = <<pBuffer[head]>>
      <3>1. old \in Seq(Byte) /\ old[1] = pBuffer[SlotAfter(head, 1 - 1)]
        <4>1. pBuffer \in [Slots -> Byte] /\ head \in Slots /\ tail \in Slots
          BY Zenon DEF TypeOK
        <4>2. Reads(old, Byte, pBuffer, head, n)
          BY <4>1, ContentsAt, Zenon
        <4> HIDE DEF old, n
        <4>3. old \in Seq(Byte) /\ \A i \in 1 .. n : old[i] = pBuffer[SlotAfter(head, i - 1)]
          BY <4>2, Zenon DEF Reads
        <4>4. 1 \in 1 .. n
          BY <1>1, <1>2
        <4>5. QED BY <4>3, <4>4, Zenon
      <3>2. SlotAfter(head, 1 - 1) = head
        BY MaxBufferSizeAssumption DEF SlotAfter, Slots, TypeOK
      <3>3. 1 \in 1 .. Len(old)
        BY <1>1, <1>2
      <3> HIDE DEF old
      <3>4. SubSeq(old, 1, 1) = <<old[1]>>
        <4>1. 0 \in Nat /\ 1 \in 0 .. Len(old) /\ 0 + 1 = 1 /\ 1 - 0 = 1
          BY <3>3
        <4>2. /\ SubSeq(old, 1, 1) \in Seq(Byte) /\ Len(SubSeq(old, 1, 1)) = 1
              /\ SubSeq(old, 1, 1)[1] = old[1]
          <5>1. IsPiece(SubSeq(old, 1, 1), Byte, old, 0, 1)
            BY <3>1, <4>1, PieceOfSeq, Zenon
          <5>2. QED BY <4>1, <5>1 DEF IsPiece
        <4>3. PICK one \in Seq(Byte) : one = SubSeq(old, 1, 1)
          BY <4>2, Zenon
        <4>4. Len(one) = 1 /\ one[1] = old[1]
          BY <4>2, <4>3
        <4>5. one = <<old[1]>>
          <5>1. DOMAIN one = 1 .. 1
            BY <4>4
          <5>2. QED BY <4>4, <5>1
        <4>6. QED BY <4>3, <4>5
      <3>5. QED BY <3>1, <3>2, <3>4
    <2>5. old # << >> /\ 1 <= Len(old)
      BY <1>1, <1>2
    <2>6. QED
      BY <2>1, <2>3, <2>4, <2>5
      DEF Queue!Take, Queue!Drop, Queue!Returns, Returns, Queue!OK, TC_BUFFER_OK
  <1>3. CASE tail = head
    <2>1. UNCHANGED <<head, tail, pBuffer>> /\ Returns(TC_BUFFER_EMPTY, << >>)
      BY <1>3 DEF PopOneByte
    <2>2. Contents(pBuffer', head', tail') = old
      BY <2>1
    <2>3. QED
      BY <1>1, <1>3, <2>1, <2>2
      DEF Queue!TakeNothing, Queue!Returns, Returns, Queue!EMPTY, TC_BUFFER_EMPTY
  <1>4. QED BY <1>2, <1>3

\* Both flushes discard bytes from the front.
LEMMA FlushRefines ==
    ASSUME TypeOK,
           Flush \/ \E size \in 0 .. MaxBufferSize : FlushByte(size)
    PROVE  \E n \in 0 .. Len(Contents(pBuffer, head, tail)) : Queue!Discard(n)
  <1> DEFINE old == Contents(pBuffer, head, tail)
             n   == DataAvailable(head, tail)
  <1>1. old \in Seq(Byte) /\ Len(old) \in Nat /\ n = Len(old)
    BY ContentsType
  <1>2. CASE Flush
    <2>1. pBuffer' \in [Slots -> Byte] /\ head' = 0 /\ tail' = 0 /\ 0 \in Slots
      BY <1>2, MaxBufferSizeAssumption DEF Flush, TypeOK, Slots
    <2>2. DataAvailable(head', tail') = 0
      BY <2>1 DEF DataAvailable
    <2>3. /\ Contents(pBuffer', head', tail') \in Seq(Byte)
          /\ Len(Contents(pBuffer', head', tail')) = 0
      <3>1. Reads(Contents(pBuffer', head', tail'), Byte, pBuffer', head',
                  DataAvailable(head', tail'))
        BY <2>1, ContentsAt, Zenon
      <3>2. QED BY <2>2, <3>1, Zenon DEF Reads
    <2>4. Contents(pBuffer', head', tail') = << >>
      BY <2>3, EmptySeq
    <2>5. SubSeq(old, Len(old) + 1, Len(old)) = << >>
      <3>1. Len(old) + 1 \in Int /\ Len(old) \in Int /\ Len(old) < Len(old) + 1
        BY <1>1
      <3>2. QED BY <3>1, SubSeqEmpty
    <2>6. Returns(TC_BUFFER_OK, << >>)
      BY <1>2 DEF Flush
    <2>7. Queue!Discard(Len(old))
      BY <1>1, <2>4, <2>5, <2>6
      DEF Queue!Discard, Queue!Drop, Queue!Returns, Returns, Queue!OK, TC_BUFFER_OK
    <2>8. Len(old) \in 0 .. Len(old)
      BY <1>1
    <2>9. QED BY <2>7, <2>8
  <1>3. ASSUME NEW size \in 0 .. MaxBufferSize, FlushByte(size)
        PROVE  \E k \in 0 .. Len(old) : Queue!Discard(k)
    <2>1. PICK k \in 0 .. n : k = IF size <= n THEN size ELSE n
      BY <1>1
    <2>2. /\ head' = SlotAfter(head, k) /\ tail' = tail /\ pBuffer' = pBuffer
          /\ Returns(TC_BUFFER_OK, << >>)
      BY <1>3, <2>1, FlushedHead DEF FlushByte, TypeOK
    <2>3. Contents(pBuffer', head', tail') = SubSeq(old, k + 1, Len(old))
      <3>1. pBuffer \in [Slots -> Byte] /\ head \in Slots /\ tail \in Slots
        BY Zenon DEF TypeOK
      <3>2. Contents(pBuffer, SlotAfter(head, k), tail) = SubSeq(old, k + 1, n)
        BY <3>1, AdvanceDrops, Zenon
      <3> HIDE DEF old, n
      <3>3. QED BY <1>1, <2>2, <3>2, Zenon
    <2>4. k <= Len(old) /\ k \in 0 .. Len(old)
      BY <1>1
    <2>5. Queue!Discard(k)
      BY <2>2, <2>3, <2>4
      DEF Queue!Discard, Queue!Drop, Queue!Returns, Returns, Queue!OK, TC_BUFFER_OK
    <2>6. QED BY <2>4, <2>5
  <1>4. QED BY <1>2, <1>3

\* The ring of tc-buffer.c, of any size, is a bounded first-in first-out queue
\* of one byte less: pushes append, overwriting pushes keep the newest bytes,
\* pops take the oldest, and every result is the one the queue gives.
THEOREM Implementation == Spec => ImplementsByteQueue
  <1>1. Init => Queue!Init
    <2> SUFFICES ASSUME Init
                 PROVE  Queue!Init
      OBVIOUS
    <2>1. pBuffer \in [Slots -> Byte] /\ head = 0 /\ tail = 0 /\ 0 \in Slots
      BY BlockAssumption, MaxBufferSizeAssumption DEF Init, Slots
    <2>2. DataAvailable(head, tail) = 0
      BY <2>1 DEF DataAvailable
    <2>3. Contents(pBuffer, head, tail) = << >>
      <3>1. Reads(Contents(pBuffer, head, tail), Byte, pBuffer, head,
                  DataAvailable(head, tail))
        BY <2>1, ContentsAt, Zenon
      <3>2. /\ Contents(pBuffer, head, tail) \in Seq(Byte)
            /\ Len(Contents(pBuffer, head, tail)) = 0
        BY <2>2, <3>1, Zenon DEF Reads
      <3>3. QED BY <3>2, EmptySeq, Zenon
    <2>4. QED BY <2>3 DEF Init, Queue!Init, Queue!OK, TC_BUFFER_OK
  <1>2. TypeOK /\ [Next]_vars => [Queue!Next]_Queue!vars
    <2> SUFFICES ASSUME TypeOK, [Next]_vars
                 PROVE  [Queue!Next]_Queue!vars
      OBVIOUS
    <2>0. Queue!Block = Block /\ 1 \in 0 .. MaxBlock
      BY BlockFits DEF Queue!Block, Block
    <2>1. ASSUME NEW bytes \in Block, PushBuffer(bytes)
          PROVE  Queue!Next
      BY <2>0, <2>1, PushRefines DEF Queue!Next
    <2>2. ASSUME NEW bytes \in Block, WriteData(bytes)
          PROVE  Queue!Next
      <3>1. CASE PushBuffer(bytes)
        BY <2>1, <3>1
      <3>2. CASE Len(bytes) > FreeSpace(head, tail) /\ PushBufferOverwrite(bytes)
        BY <2>0, <3>2, OverwriteRefines DEF Queue!Next
      <3>3. QED BY <2>2, <3>1, <3>2 DEF WriteData
    <2>3. ASSUME NEW size \in 0 .. MaxBlock, PopBuffer(size)
          PROVE  Queue!Next
      BY <2>3, PopRefines DEF Queue!Next
    <2>4. ASSUME NEW data \in Byte, PushOneByte(data)
          PROVE  Queue!Next
      <3>1. <<data>> \in Block
        BY OneByteIsBlock DEF TypeOK
      <3>2. QED BY <2>0, <2>4, <3>1, PushOneRefines DEF Queue!Next
    <2>5. ASSUME PopOneByte
          PROVE  Queue!Next
      BY <2>0, <2>5, PopOneRefines DEF Queue!Next
    <2>6. ASSUME Flush \/ \E size \in 0 .. MaxBufferSize : FlushByte(size)
          PROVE  Queue!Next
      BY <2>6, FlushRefines DEF Queue!Next
    <2>7. CASE UNCHANGED vars
      BY <2>7 DEF vars, Queue!vars
    <2>8. QED
      BY <2>1, <2>2, <2>3, <2>4, <2>5, <2>6, <2>7 DEF Next
  <1>3. QED BY <1>1, <1>2, TypeCorrect, PTL DEF Spec, ImplementsByteQueue, Queue!Spec
=============================================================================
