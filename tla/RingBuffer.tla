----------------------------- MODULE RingBuffer -----------------------------
(***************************************************************************)
(* One TC_RINGBUF (tc-buffer.c) used by one thread at a time: a state      *)
(* machine with one action per function of the buffer, and the function    *)
(* tc_ipc_write_data through which every packet enters the write ring.     *)
(*                                                                         *)
(* What the threads of the library add (unlocked pushes, sizes read before *)
(* the lock is taken) is the subject of ReceivePath; here each function    *)
(* runs alone, which is what its own code assumes.                         *)
(***************************************************************************)
EXTENDS TcBuffer

CONSTANTS Byte,       \* the values a byte takes (0..255 in the code)
          Blank,      \* the byte the memory is filled with before the first push
          MaxBlock    \* the size of the largest block (520 in the code)

\* The library's rings are larger than any block it pushes: 16384 and 520.
ASSUME BlockAssumption ==
    /\ Blank \in Byte
    /\ MaxBlock \in Nat \ {0}
    /\ MaxBlock < MaxBufferSize

VARIABLES head,      \* TC_RINGBUF.Head, the read position
          tail,      \* TC_RINGBUF.Tail, the write position
          pBuffer,   \* the bytes of the buffer
          result     \* what the last function returned and gave its caller

vars == <<head, tail, pBuffer, result>>

Block == UNION {[1 .. n -> Byte] : n \in 0 .. MaxBlock}

Returns(ret, bytes) == result' = [ret |-> ret, bytes |-> bytes]

TypeOK ==
    /\ head \in Slots
    /\ tail \in Slots
    /\ pBuffer \in [Slots -> Byte]
    /\ result \in [ret : Int, bytes : Seq(Byte)]

-----------------------------------------------------------------------------
\* tc_buffer_init; the handle that holds the buffers is cleared by memset.
Init ==
    /\ head = 0
    /\ tail = 0
    /\ pBuffer = [i \in Slots |-> Blank]
    /\ result = [ret |-> TC_BUFFER_OK, bytes |-> << >>]

PushBuffer(bytes) ==
    \/ /\ FreeSpace(head, tail) >= Len(bytes)
       /\ pBuffer' = Stored(pBuffer, tail, bytes)
       /\ tail' = Advanced(tail, Len(bytes))
       /\ Returns(Len(bytes), << >>)
       /\ UNCHANGED head
    \/ /\ FreeSpace(head, tail) < Len(bytes)
       /\ Returns(TC_BUFFER_FULL, << >>)
       /\ UNCHANGED <<head, tail, pBuffer>>

PushBufferOverwrite(bytes) ==
    /\ pBuffer' = Stored(pBuffer, tail, bytes)
    /\ tail' = Advanced(tail, Len(bytes))
    /\ head' = HeadAfterOverwrite(tail')
    /\ Returns(Len(bytes), << >>)

\* tc_ipc_write_data, under the mutex of the ring.
WriteData(bytes) ==
    \/ /\ Len(bytes) > FreeSpace(head, tail)
       /\ PushBufferOverwrite(bytes)
    \/ /\ Len(bytes) <= FreeSpace(head, tail)
       /\ PushBuffer(bytes)

PopBuffer(size) ==
    \/ /\ tail = head
       /\ Returns(TC_BUFFER_EMPTY, << >>)
       /\ UNCHANGED <<head, tail, pBuffer>>
    \/ /\ tail # head
       /\ DataAvailable(head, tail) >= size
       /\ head' = Advanced(head, size)
       /\ Returns(TC_BUFFER_OK, Taken(pBuffer, head, size))
       /\ UNCHANGED <<tail, pBuffer>>
    \/ /\ tail # head
       /\ DataAvailable(head, tail) < size
       /\ Returns(TC_BUFFER_ERROR, << >>)
       /\ UNCHANGED <<head, tail, pBuffer>>

-----------------------------------------------------------------------------
(* The functions of tc-buffer.c that the library itself does not call.     *)

PushOneByte(data) ==
    \/ /\ NextSlot(tail) = head
       /\ Returns(TC_BUFFER_FULL, << >>)
       /\ UNCHANGED <<head, tail, pBuffer>>
    \/ /\ NextSlot(tail) # head
       /\ pBuffer' = [pBuffer EXCEPT ![tail] = data]
       /\ tail' = NextSlot(tail)
       /\ Returns(TC_BUFFER_OK, << >>)
       /\ UNCHANGED head

\* Reading slot MaxBufferSize is reading past the end of the buffer: any byte.
ReadAt(pos) == IF pos \in Slots THEN {pBuffer[pos]} ELSE Byte

PopOneByte ==
    \/ /\ tail = head
       /\ Returns(TC_BUFFER_EMPTY, << >>)
       /\ UNCHANGED <<head, tail, pBuffer>>
    \/ /\ tail # head
       /\ \E data \in ReadAt(head) : Returns(TC_BUFFER_OK, <<data>>)
       /\ head' = NextSlot(head)
       /\ UNCHANGED <<tail, pBuffer>>

Flush ==
    /\ head' = 0
    /\ tail' = 0
    /\ Returns(TC_BUFFER_OK, << >>)
    /\ UNCHANGED pBuffer

FlushByte(size) ==
    /\ head' = HeadAfterFlush(head, tail, size)
    /\ Returns(TC_BUFFER_OK, << >>)
    /\ UNCHANGED <<tail, pBuffer>>

\* Head is incremented without the wrap that every other update applies: it may
\* leave the buffer.  The library has no caller, and Spec leaves the function out.
PushOneByteOverwrite(data) ==
    /\ pBuffer' = [pBuffer EXCEPT ![tail] = data]
    /\ tail' = NextSlot(tail)
    /\ head' = IF NextSlot(tail) = head THEN head + 1 ELSE head
    /\ Returns(TC_BUFFER_OK, << >>)

-----------------------------------------------------------------------------
(* The flushed size is at most MaxBufferSize: tc_buffer_flush_byte takes   *)
(* its sum modulo the size of the ring once, which clips a larger size     *)
(* only by chance.                                                         *)
Next ==
    \/ \E bytes \in Block : PushBuffer(bytes) \/ WriteData(bytes)
    \/ \E size \in 0 .. MaxBlock : PopBuffer(size)
    \/ \E data \in Byte : PushOneByte(data)
    \/ PopOneByte
    \/ Flush
    \/ \E size \in 0 .. MaxBufferSize : FlushByte(size)

Spec == Init /\ [][Next]_vars

-----------------------------------------------------------------------------
(* The ring is a bounded FIFO queue of MaxBufferSize - 1 bytes: every      *)
(* function has, on the bytes between head and tail, the effect and the    *)
(* result ByteQueue gives the operation.  In particular an overwriting     *)
(* write keeps exactly the newest bytes, in order, wherever the block, the *)
(* old content and the new head fall with respect to the end of pBuffer.   *)
Queue == INSTANCE ByteQueue WITH
            Capacity <- MaxBufferSize - 1,
            queue    <- Contents(pBuffer, head, tail)

ImplementsByteQueue == Queue!Spec
=============================================================================
