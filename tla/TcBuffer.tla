------------------------------ MODULE TcBuffer ------------------------------
(***************************************************************************)
(* The arithmetic of TC_RINGBUF (tc-buffer.c): positions, sizes and the    *)
(* two-part memcpy of a block that wraps around the end of pBuffer.        *)
(*                                                                         *)
(* Every operator takes the positions and the memory as arguments, so that *)
(* the sequential module RingBuffer can apply a whole C function in one    *)
(* step, and the modules of the threads can apply the same function one    *)
(* shared access at a time.                                                *)
(*                                                                         *)
(* Positions are uint32_t and sizes int32_t in the code.  The rings of the *)
(* library hold 16384 bytes and its blocks at most 520, so no sum below    *)
(* reaches 2^31 and plain integers are exact.                              *)
(***************************************************************************)
EXTENDS Integers, Sequences

CONSTANT MaxBufferSize     \* TC_RINGBUF.MaxBufferSize

\* A ring of one slot can never hold a byte: head = tail means empty.
ASSUME MaxBufferSizeAssumption == MaxBufferSize \in Nat \ {0, 1}

TC_BUFFER_OK    == 0
TC_BUFFER_ERROR == -1
TC_BUFFER_FULL  == -2
TC_BUFFER_EMPTY == -3

Slots == 0 .. MaxBufferSize - 1

-----------------------------------------------------------------------------
(* Sizes: tc_buffer_data_available and tc_buffer_free_space.               *)

DataAvailable(head, tail) ==
    IF tail >= head THEN tail - head
                    ELSE MaxBufferSize - (head - tail)

\* One slot is always left empty, to tell a full ring from an empty one.
FreeSpace(head, tail) ==
    IF tail < head THEN head - tail - 1
                   ELSE MaxBufferSize - (tail - head) - 1

-----------------------------------------------------------------------------
(* Blocks: the copies and position updates of tc_push_buffer,              *)
(* tc_push_buffer_overwrite and tc_pop_buffer.                             *)

\* memcpy(&mem[pos], bytes, Len(bytes))
CopyIn(mem, pos, bytes) ==
    [i \in DOMAIN mem |->
        IF i \in pos .. pos + Len(bytes) - 1 THEN bytes[i - pos + 1] ELSE mem[i]]

\* Mutant of Stored: the part of the block behind the wrap is not copied.
StoredWithoutWrap(mem, tail, bytes) == CopyIn(mem, tail, bytes)

\* pBuffer after the copy of a block at position tail.
Stored(mem, tail, bytes) ==
    LET continuousSize == MaxBufferSize - tail
    IN  IF continuousSize > Len(bytes)
        THEN CopyIn(mem, tail, bytes)
        ELSE CopyIn(CopyIn(mem, tail, SubSeq(bytes, 1, continuousSize)),
                    0, SubSeq(bytes, continuousSize + 1, Len(bytes)))

\* Mutant of Advanced: >= for >.
AdvancedOntoEnd(pos, size) ==
    IF MaxBufferSize - pos >= size THEN pos + size
                                   ELSE size - (MaxBufferSize - pos)

\* A position after size bytes have been copied from it on.
Advanced(pos, size) ==
    IF MaxBufferSize - pos > size THEN pos + size
                                  ELSE size - (MaxBufferSize - pos)

\* The size bytes tc_pop_buffer copies out of pBuffer from head on.
Taken(mem, head, size) ==
    LET continuousSize == MaxBufferSize - head
    IN  [i \in 1 .. size |->
            IF i <= continuousSize THEN mem[head + i - 1]
                                   ELSE mem[i - continuousSize - 1]]

\* The slot after pos, as the one-byte operations and the overwriting push
\* compute it.
NextSlot(pos) == (pos + 1) % MaxBufferSize

\* Mutants of HeadAfterOverwrite: no empty slot, and no wrap.
HeadOnTail(tail) == tail
HeadNotWrapped(tail) == tail + 1

\* Head after tc_push_buffer_overwrite: the slot after the new tail, which
\* makes the ring hold MaxBufferSize - 1 bytes whatever it held before.
HeadAfterOverwrite(tail) == NextSlot(tail)

\* Head after tc_buffer_flush_byte(size).
HeadAfterFlush(head, tail, size) ==
    LET temp    == head + size
        wrapped == temp % MaxBufferSize
    IN  IF tail < head
        THEN IF temp < MaxBufferSize THEN temp
             ELSE IF tail <= wrapped THEN tail ELSE wrapped
        ELSE IF tail <= temp THEN tail ELSE temp

\* The bytes a ring holds, oldest first: the abstract value of the ring.
Contents(mem, head, tail) ==
    [i \in 1 .. DataAvailable(head, tail) |-> mem[(head + i - 1) % MaxBufferSize]]
=============================================================================
