------------------------------ MODULE SendPath ------------------------------
(***************************************************************************)
(* The write ring between the threads that send messages and WriteThread   *)
(* (tc-write-thread.c).  tc_ipc_ctrl_msg_send builds a packet on the       *)
(* stack of its caller and puts it into the ring with tc_ipc_write_data,   *)
(* under the mutex of the ring; WriteThread reads the size of what is in   *)
(* the ring without the mutex, asks the device whether it is ready, pops   *)
(* that many bytes under the mutex and writes them to the device.          *)
(*                                                                         *)
(* One action is one access to what another thread may access: Head and    *)
(* Tail, which are also read without the mutex, and the mutex.  pBuffer is *)
(* only touched under the mutex, so its copies belong to the step that     *)
(* takes it; WriteThread's pop, whose changes no other thread reads        *)
(* without the mutex, is one action.  Which thread sends makes no          *)
(* difference; a sender that waits for the mutex is one that has not       *)
(* called yet.                                                             *)
(*                                                                         *)
(* Bytes are numbered in the order in which the senders get the mutex.     *)
(***************************************************************************)
EXTENDS TcBuffer

CONSTANTS StreamLength,   \* bound: the number of bytes accepted from the senders
          PacketSizes,    \* the sizes of their packets (12 .. 520 in the code)
          WriteSize       \* IPC_WRITE_SIZE, the most bytes one write takes

\* The library's rings are larger than any packet: 16384 and 520.
ASSUME SendAssumption ==
    /\ StreamLength \in Nat
    /\ PacketSizes \subseteq 1 .. MaxBufferSize - 1
    /\ WriteSize \in Nat \ {0}

VARIABLES
    head, tail, pBuffer,   \* writeRingCtrl and its bytes
    mutex,                 \* its mutex: "free" or "sender"
    accepted,              \* how many bytes the senders have put into the ring
    after,                 \* Tail as the push under way will leave it
    stores,                \* the stores that push has not made yet
    writer,                \* where WriteThread is
    from,                  \* the Head it loaded last
    size,                  \* writeSize
    writeBufs,             \* its local buffer
    ready,                 \* the device's answer to IOCTL_IPC_ISREADY
    line,                  \* history: the bytes the device took, in order
    dropped,               \* history: the bytes an overflow cost
    unwritten              \* history: the bytes a write did not take

ring == <<head, tail, pBuffer>>
senderVars == <<mutex, accepted, after, stores>>
writerVars == <<writer, from, size, writeBufs>>
history == <<line, dropped, unwritten>>
vars == <<ring, senderVars, writerVars, ready, history>>

Least(a, b) == IF a < b THEN a ELSE b

\* 0 is no byte: what memory holds before anything was written to it.
Init ==
    /\ head = 0 /\ tail = 0
    /\ pBuffer = [i \in Slots |-> 0]
    /\ mutex = "free" /\ accepted = 0 /\ after = 0 /\ stores = {}
    /\ writer = "load head" /\ from = 0 /\ size = 0
    /\ writeBufs = [i \in 1 .. WriteSize |-> 0]
    /\ ready \in BOOLEAN
    /\ line = << >> /\ dropped = {} /\ unwritten = {}

-----------------------------------------------------------------------------
(* A sender.                                                               *)

\* The push of tc_ipc_write_data: the bytes are copied, the stores to Tail
\* and, when the block does not fit, to Head are still to come.
Push(n) ==
    LET packet == [i \in 1 .. n |-> accepted + i]
        excess == n - FreeSpace(head, tail)
    IN  /\ accepted + n <= StreamLength
        /\ pBuffer' = Stored(pBuffer, tail, packet)
        /\ after' = Advanced(tail, n)
        /\ stores' = IF excess > 0 THEN {"tail", "head"} ELSE {"tail"}
        /\ accepted' = accepted + n
        /\ dropped' = dropped \cup {Contents(pBuffer, head, tail)[i] : i \in 1 .. excess}
        /\ UNCHANGED <<head, tail, writerVars, ready, line, unwritten>>

\* Mutant of WriteData: the mutex is not waited for.
WriteDataUnlocked(n) ==
    /\ mutex' = "sender"
    /\ Push(n)

WriteData(n) ==
    /\ mutex = "free"
    /\ mutex' = "sender"
    /\ Push(n)

\* The two stores; a thread without the mutex may see them in either order.
StoreTail ==
    /\ "tail" \in stores
    /\ tail' = after
    /\ stores' = stores \ {"tail"}
    /\ UNCHANGED <<head, pBuffer, mutex, accepted, after, writerVars, ready, history>>

StoreHead ==
    /\ "head" \in stores
    /\ head' = HeadAfterOverwrite(after)
    /\ stores' = stores \ {"head"}
    /\ UNCHANGED <<tail, pBuffer, mutex, accepted, after, writerVars, ready, history>>

\* Mutant of Unlock: the mutex is given back before the push is complete.
UnlockEarly ==
    /\ mutex = "sender"
    /\ mutex' = "free"
    /\ UNCHANGED <<ring, accepted, after, stores, writerVars, ready, history>>

Unlock ==
    /\ mutex = "sender"
    /\ stores = {}
    /\ mutex' = "free"
    /\ UNCHANGED <<ring, accepted, after, stores, writerVars, ready, history>>

Finish == StoreTail \/ StoreHead \/ Unlock

Sender == (\E n \in PacketSizes : WriteData(n)) \/ Finish

-----------------------------------------------------------------------------
(* WriteThread.                                                            *)

\* tc_buffer_data_available loads Head, then Tail, without the mutex.
LoadHead ==
    /\ writer = "load head"
    /\ from' = head
    /\ writer' = "load tail"
    /\ UNCHANGED <<ring, senderVars, size, writeBufs, ready, history>>

\* Mutant of LoadTail: the thread waits for a full chunk.
LoadTailOfChunk ==
    /\ writer = "load tail"
    /\ size' = Least(DataAvailable(from, tail), WriteSize)
    /\ writer' = IF size' = WriteSize THEN "status" ELSE "load head"
    /\ UNCHANGED <<ring, senderVars, from, writeBufs, ready, history>>

LoadTail ==
    /\ writer = "load tail"
    /\ size' = Least(DataAvailable(from, tail), WriteSize)
    /\ writer' = IF size' # 0 THEN "status" ELSE "load head"
    /\ UNCHANGED <<ring, senderVars, from, writeBufs, ready, history>>

\* ipc_status
CheckStatus ==
    /\ writer = "status"
    /\ writer' = IF ready THEN "pop" ELSE "load head"
    /\ UNCHANGED <<ring, senderVars, from, size, writeBufs, ready, history>>

\* The bytes tc_pop_buffer is asked for are there.
PopSucceeds == tail # head /\ DataAvailable(head, tail) >= size

\* The result of the pop is ignored: if it failed, writeBufs would keep the
\* bytes of an earlier turn.
Pop ==
    /\ writer = "pop"
    /\ mutex = "free"
    /\ \/ /\ PopSucceeds
          /\ writeBufs' = [i \in 1 .. WriteSize |->
                              IF i <= size THEN Taken(pBuffer, head, size)[i] ELSE writeBufs[i]]
          /\ head' = Advanced(head, size)
       \/ /\ ~PopSucceeds
          /\ UNCHANGED <<writeBufs, head>>
    /\ writer' = "write"
    /\ UNCHANGED <<tail, pBuffer, senderVars, from, size, ready, history>>

\* ipc_write: the device takes all bytes, some, or none; the rest is gone.
Write ==
    /\ writer = "write"
    /\ \E n \in 0 .. size :
          /\ line' = line \o SubSeq(writeBufs, 1, n)
          /\ unwritten' = unwritten \cup {writeBufs[i] : i \in n + 1 .. size}
    /\ writer' = "load head"
    /\ UNCHANGED <<ring, senderVars, from, size, writeBufs, ready, dropped>>

WriteThread == LoadHead \/ LoadTail \/ CheckStatus \/ Pop \/ Write

-----------------------------------------------------------------------------
\* The processor at the other end starts, or restarts.
ReadyChanges ==
    /\ ready' = ~ready
    /\ UNCHANGED <<ring, senderVars, writerVars, history>>

Next == Sender \/ WriteThread \/ ReadyChanges

Spec == Init /\ [][Next]_vars

\* A sender that has the mutex goes on; WriteThread sleeps 5 ms a turn.
FairSpec == Spec /\ WF_vars(Finish) /\ WF_vars(WriteThread)

-----------------------------------------------------------------------------
\* The ring as it will be when the push under way is complete.
TailAfterPush == IF "tail" \in stores THEN after ELSE tail
HeadAfterPush == IF "head" \in stores THEN HeadAfterOverwrite(after) ELSE head
Held == Contents(pBuffer, HeadAfterPush, TailAfterPush)

InFlight == IF writer = "write" THEN SubSeq(writeBufs, 1, size) ELSE << >>

TypeOK ==
    /\ head \in Slots /\ tail \in Slots /\ after \in Slots /\ from \in Slots
    /\ pBuffer \in [Slots -> 0 .. StreamLength]
    /\ mutex \in {"free", "sender"}
    /\ accepted \in 0 .. StreamLength
    /\ stores \subseteq {"tail", "head"}
    /\ writer \in {"load head", "load tail", "status", "pop", "write"}
    /\ size \in 0 .. Least(WriteSize, MaxBufferSize - 1)
    /\ writeBufs \in [1 .. WriteSize -> 0 .. StreamLength]
    /\ ready \in BOOLEAN
    /\ line \in Seq(0 .. StreamLength)
    /\ dropped \subseteq 0 .. StreamLength
    /\ unwritten \subseteq 0 .. StreamLength

(* The size WriteThread computed from two unlocked loads, before it asked  *)
(* for the status, is still in the ring when it pops, whatever the senders *)
(* pushed or overwrote in between: it never writes old bytes of writeBufs. *)
PopNeverFails == writer = "pop" /\ mutex = "free" => PopSucceeds

(* The sending side is the byte channel of ByteChannel: a packet is        *)
(* accepted as one block, when its sender gets the mutex; bytes are taken  *)
(* for transmission oldest first; nothing is repeated or out of order.     *)
Channel == INSTANCE ByteChannel WITH
              Capacity <- MaxBufferSize - 1,
              Blocks   <- PacketSizes,
              MaxChunk <- WriteSize,
              waiting  <- Held,
              flight   <- InFlight,
              out      <- line

ImplementsByteChannel == Channel!Spec

(* Every byte a sender was told is accepted is in exactly one place: on    *)
(* the line, being written, in the ring, or lost, and then an overflow or  *)
(* a write of the device is to blame for that very byte.                   *)
EveryByteAccounted ==
    LET places == <<{line[i] : i \in DOMAIN line},
                    {InFlight[i] : i \in DOMAIN InFlight},
                    {Held[i] : i \in DOMAIN Held}, dropped, unwritten>>
    IN  /\ UNION {places[i] : i \in DOMAIN places} = 1 .. accepted
        /\ \A i, j \in DOMAIN places : i # j => places[i] \cap places[j] = {}

(* When the device stays ready, every accepted byte leaves the ring, also  *)
(* the last ones, that do not fill a chunk and that nothing follows.       *)
RingDrained == <>[]ready => []<>(Held = << >> /\ InFlight = << >>)
=============================================================================
