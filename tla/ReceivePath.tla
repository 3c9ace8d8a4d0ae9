---------------------------- MODULE ReceivePath ----------------------------
(***************************************************************************)
(* The read ring between its two threads: ReadThread (tc-read-thread.c)    *)
(* pushes what it reads from the device, ParserThread (tc-parser-thread.c) *)
(* pops it into the buffer of the decoder.  Only the pop and the           *)
(* overwriting push take the mutex of the ring; the free-space check, the  *)
(* plain push and the size the parser asks for do not.  One action is one  *)
(* access to Head, Tail, the bytes or the mutex.                           *)
(*                                                                         *)
(* The bytes on the line are numbered 1, 2, 3, ... in the order in which   *)
(* the device yields them, so the value of a byte tells where it belongs.  *)
(***************************************************************************)
EXTENDS TcBuffer

CONSTANTS StreamLength,   \* bound: the number of bytes the device yields
          MaxRead,        \* TMM_READ_SIZE, the most bytes one read returns
          Room,           \* the values tc_parser_freeSpace takes
          StoresInOrder   \* do the threads see each other's stores in program order?

ASSUME ReceiveAssumption ==
    /\ StreamLength \in Nat
    /\ MaxRead \in 1 .. MaxBufferSize - 1
    /\ Room \subseteq Nat \ {0}
    /\ StoresInOrder \in BOOLEAN

VARIABLES
    head, tail, pBuffer,   \* readRingCtrl and its bytes
    mutex,                 \* its mutex: "free", "reader" or "parser"
    received,              \* how many bytes ReadThread has read
    reader,                \* where ReadThread is
    chunk,                 \* readBufs, the bytes it read last
    at,                    \* Tail when its push began
    stores,                \* the stores its push has not made yet
    parser,                \* where ParserThread is
    from,                  \* the Head it loaded last
    size,                  \* readSize, the bytes it will pop
    takes,                 \* the effects its pop has not had yet
    got,                   \* history: the bytes the parser took, in order
    overwritten,           \* history: the ring overflowed
    stale                  \* history: it was overwritten although the bytes would fit

ring == <<head, tail, pBuffer>>
readerVars == <<received, reader, chunk, at, stores>>
parserVars == <<parser, from, size, takes>>
history == <<got, overwritten, stale>>
vars == <<ring, mutex, readerVars, parserVars, history>>

Least(a, b) == IF a < b THEN a ELSE b

Init ==
    /\ head = 0 /\ tail = 0
    /\ pBuffer = [i \in Slots |-> 0]
    /\ mutex = "free"
    /\ received = 0
    /\ reader = "read" /\ chunk = << >> /\ at = 0 /\ stores = {}
    /\ parser = "load head" /\ from = 0 /\ size = 0 /\ takes = {}
    /\ got = << >>
    /\ overwritten = FALSE /\ stale = FALSE

-----------------------------------------------------------------------------
(* ReadThread.                                                             *)

\* read() returned n bytes.
Read ==
    /\ reader = "read"
    /\ \E n \in 1 .. Least(MaxRead, StreamLength - received) :
          /\ chunk' = [i \in 1 .. n |-> received + i]
          /\ received' = received + n
    /\ reader' = "check"
    /\ UNCHANGED <<ring, mutex, at, stores, parserVars, history>>

\* Mutant of CheckSpace: the slot that stays empty is forgotten.
CheckSpaceOffByOne ==
    /\ reader = "check"
    /\ reader' = IF Len(chunk) > FreeSpace(head, tail) + 1 THEN "lock" ELSE "push"
    /\ UNCHANGED <<ring, mutex, received, chunk, at, stores, parserVars, history>>

\* The choice between the two pushes, made without the mutex.
CheckSpace ==
    /\ reader = "check"
    /\ reader' = IF Len(chunk) > FreeSpace(head, tail) THEN "lock" ELSE "push"
    /\ UNCHANGED <<ring, mutex, received, chunk, at, stores, parserVars, history>>

BeginPush(pending) ==
    /\ at' = tail
    /\ stores' = pending
    /\ reader' = "store"

\* tc_push_buffer checks the space again; its result FULL is ignored and the
\* bytes are gone.
Push ==
    /\ reader = "push"
    /\ IF FreeSpace(head, tail) >= Len(chunk)
       THEN BeginPush({"data", "tail"})
       ELSE reader' = "read" /\ UNCHANGED <<at, stores>>
    /\ UNCHANGED <<ring, mutex, received, chunk, parserVars, history>>

\* Mutant of Overwrite: the mutex is not waited for.
OverwriteUnlocked ==
    /\ reader = "lock"
    /\ BeginPush({"data", "tail", "head"})
    /\ overwritten' = TRUE
    /\ stale' = (stale \/ Len(chunk) <= FreeSpace(head, tail))
    /\ UNCHANGED <<ring, mutex, received, chunk, parserVars, got>>

Overwrite ==
    /\ reader = "lock"
    /\ mutex = "free"
    /\ mutex' = "reader"
    /\ BeginPush({"data", "tail", "head"})
    /\ overwritten' = TRUE
    /\ stale' = (stale \/ Len(chunk) <= FreeSpace(head, tail))
    /\ UNCHANGED <<ring, received, chunk, parserVars, got>>

\* The stores of a push, in program order or in any order.
Store(what, before) ==
    /\ what \in stores
    /\ StoresInOrder => stores \cap before = {}
    /\ stores' = stores \ {what}
    /\ UNCHANGED <<mutex, received, reader, chunk, at, parserVars, history>>

StoreData ==
    /\ Store("data", {})
    /\ pBuffer' = Stored(pBuffer, at, chunk)
    /\ UNCHANGED <<head, tail>>

\* Mutant of StoreTail: the bytes are announced before they are there.
StoreTailFirst ==
    /\ Store("tail", {})
    /\ tail' = Advanced(at, Len(chunk))
    /\ UNCHANGED <<head, pBuffer>>

StoreTail ==
    /\ Store("tail", {"data"})
    /\ tail' = Advanced(at, Len(chunk))
    /\ UNCHANGED <<head, pBuffer>>

StoreHead ==
    /\ Store("head", {"data", "tail"})
    /\ head' = HeadAfterOverwrite(Advanced(at, Len(chunk)))
    /\ UNCHANGED <<tail, pBuffer>>

\* The push returns, and the mutex is unlocked if it was taken.
PushDone ==
    /\ reader = "store"
    /\ stores = {}
    /\ reader' = "read"
    /\ mutex' = IF mutex = "reader" THEN "free" ELSE mutex
    /\ UNCHANGED <<ring, received, chunk, at, stores, parserVars, history>>

ReadThread ==
    Read \/ CheckSpace \/ Push \/ Overwrite \/ StoreData \/ StoreTail \/ StoreHead \/ PushDone

-----------------------------------------------------------------------------
(* ParserThread.                                                           *)

\* tc_ipc_read_available_size loads Head, then Tail, without the mutex.
LoadHead ==
    /\ parser = "load head"
    /\ from' = head
    /\ parser' = "load tail"
    /\ UNCHANGED <<ring, mutex, readerVars, size, takes, history>>

\* Mutant of LoadTail: a single byte is not asked for.
LoadTailOfTwo ==
    /\ parser = "load tail"
    /\ LET availableSize == DataAvailable(from, tail)
       IN  \/ /\ availableSize > 1
              /\ \E parserSize \in Room : size' = Least(availableSize, parserSize)
              /\ parser' = "lock"
           \/ /\ availableSize <= 1
              /\ parser' = "load head"
              /\ UNCHANGED size
    /\ UNCHANGED <<ring, mutex, readerVars, from, takes, history>>

LoadTail ==
    /\ parser = "load tail"
    /\ LET availableSize == DataAvailable(from, tail)
       IN  \/ /\ availableSize > 0
              /\ \E parserSize \in Room : size' = Least(availableSize, parserSize)
              /\ parser' = "lock"
           \/ /\ availableSize = 0
              /\ parser' = "load head"
              /\ UNCHANGED size
    /\ UNCHANGED <<ring, mutex, readerVars, from, takes, history>>

LockRing ==
    /\ parser = "lock"
    /\ mutex = "free"
    /\ mutex' = "parser"
    /\ parser' = "pop"
    /\ UNCHANGED <<ring, readerVars, from, size, takes, history>>

\* The bytes tc_pop_buffer is asked for are there.
PopSucceeds == tail # head /\ DataAvailable(head, tail) >= size

Pop ==
    /\ parser = "pop"
    /\ from' = head
    /\ takes' = IF PopSucceeds THEN {"copy", "head"} ELSE {}
    /\ parser' = "take"
    /\ UNCHANGED <<ring, mutex, readerVars, size, history>>

CopyOut ==
    /\ "copy" \in takes
    /\ takes' = takes \ {"copy"}
    /\ got' = got \o Taken(pBuffer, from, size)
    /\ UNCHANGED <<ring, mutex, readerVars, parser, from, size, overwritten, stale>>

\* Mutant of AdvanceHead: the bytes are given up before they are copied.
AdvanceHeadEarly ==
    /\ "head" \in takes
    /\ takes' = takes \ {"head"}
    /\ head' = Advanced(from, size)
    /\ UNCHANGED <<tail, pBuffer, mutex, readerVars, parser, from, size, history>>

AdvanceHead ==
    /\ "head" \in takes
    /\ StoresInOrder => "copy" \notin takes
    /\ takes' = takes \ {"head"}
    /\ head' = Advanced(from, size)
    /\ UNCHANGED <<tail, pBuffer, mutex, readerVars, parser, from, size, history>>

PopDone ==
    /\ parser = "take"
    /\ takes = {}
    /\ mutex' = "free"
    /\ parser' = "load head"
    /\ UNCHANGED <<ring, readerVars, from, size, takes, history>>

ParserThread ==
    LoadHead \/ LoadTail \/ LockRing \/ Pop \/ CopyOut \/ AdvanceHead \/ PopDone

-----------------------------------------------------------------------------
Next == ReadThread \/ ParserThread

Spec == Init /\ [][Next]_vars

\* Each thread sleeps 5 ms a turn and holds the mutex only to copy.
FairSpec == Spec /\ WF_vars(ReadThread) /\ WF_vars(ParserThread)

-----------------------------------------------------------------------------
\* The ring as it will be when the push under way is complete, without the
\* bytes that the pop under way has copied.
End == Advanced(at, Len(chunk))
BytesAfterPush == IF "data" \in stores THEN Stored(pBuffer, at, chunk) ELSE pBuffer
TailAfterPush == IF "tail" \in stores THEN End ELSE tail
HeadAfterPush == IF "head" \in stores THEN HeadAfterOverwrite(End) ELSE head
HeadAfterTake == IF takes = {"head"} THEN Advanced(from, size) ELSE HeadAfterPush
Held == Contents(BytesAfterPush, HeadAfterTake, TailAfterPush)

\* The number of the last byte pushed.
Pushed == IF reader \in {"check", "push", "lock"} THEN received - Len(chunk) ELSE received

-----------------------------------------------------------------------------
TypeOK ==
    /\ head \in Slots /\ tail \in Slots /\ at \in Slots /\ from \in Slots
    /\ pBuffer \in [Slots -> 0 .. StreamLength]
    /\ mutex \in {"free", "reader", "parser"}
    /\ received \in 0 .. StreamLength
    /\ chunk \in Seq(1 .. StreamLength) /\ Len(chunk) <= MaxRead
    /\ stores \subseteq {"data", "tail", "head"}
    /\ reader \in {"read", "check", "push", "lock", "store"}
    /\ parser \in {"load head", "load tail", "lock", "pop", "take"}
    /\ size \in 0 .. MaxBufferSize - 1
    /\ takes \subseteq {"copy", "head"}
    /\ got \in Seq(0 .. StreamLength)
    /\ overwritten \in BOOLEAN /\ stale \in BOOLEAN

(* tc_push_buffer never refuses the bytes ReadThread gives it after its    *)
(* unlocked check, whose result the parser can only make too pessimistic:  *)
(* ReadThread ignores the result FULL, so refused bytes would vanish.      *)
PushNeverRefused == reader = "push" => FreeSpace(head, tail) >= Len(chunk)

(* tc_pop_buffer never fails under the mutex for the size computed from    *)
(* two unlocked loads, although the ring may be overwritten between the    *)
(* loads or after them.                                                    *)
PopNeverFails == parser = "pop" => PopSucceeds

(* Whenever no push or pop is under way, the ring holds the newest bytes   *)
(* pushed: consecutive bytes of the line, up to the last one pushed, even  *)
(* after overflows.                                                        *)
RingHoldsNewest ==
    reader # "store" /\ parser # "take" =>
        LET pushed == IF reader = "read" THEN received ELSE received - Len(chunk)
            n      == DataAvailable(head, tail)
        IN  Contents(pBuffer, head, tail) = [i \in 1 .. n |-> pushed - n + i]

(* The receiving side is the byte stream of ByteStream, although a push    *)
(* and a pop are many steps and only some of them hold the mutex: a block  *)
(* is accepted when its push begins, bytes are taken when they are copied, *)
(* and between the two threads no byte is lost, torn or out of order but   *)
(* by an overwriting push.                                                 *)
Stream == INSTANCE ByteStream WITH
              Capacity <- MaxBufferSize - 1,
              MaxBlock <- MaxRead,
              accepted <- Pushed,
              waiting  <- Held

ImplementsByteStream == Stream!Spec

(* The bytes of one pop are consecutive bytes of the line: neither push    *)
(* changes them while they are copied out.                                 *)
NoTornPop ==
    [][\A i \in Len(got) + 1 .. Len(got') - 1 : got'[i + 1] = got'[i] + 1]_vars

(* As long as the ring has not overflowed, the parser gets every byte      *)
(* exactly once and in order, although the pushes take no lock.            *)
LossOnlyByOverflow == ~overwritten => got = [i \in 1 .. Len(got) |-> i]

(* No byte is given to the parser twice, ...                               *)
NoByteTwice == \A i \in 1 .. Len(got) - 1 : got[i] < got[i + 1]

(* ... unless ReadThread overwrote the ring on the strength of a free      *)
(* space that had grown before it took the mutex.                          *)
RepeatsOnlyAfterStaleCheck == ~stale => NoByteTwice

(* When the line falls silent, the last byte read reaches the parser.      *)
NewestTaken ==
    \A k \in 1 .. StreamLength :
        received = k ~> \/ received > k
                        \/ got # << >> /\ got[Len(got)] = k
=============================================================================
