------------------------- MODULE ReceivePathProofs -------------------------
(***************************************************************************)
(* The receiving side, for a ring, reads and pops of any size.  Three      *)
(* facts carry it.  The slots behind Tail always hold the newest bytes     *)
(* pushed, the ones already popped included, so that even an overwriting   *)
(* push that was not needed leaves a ring of consecutive bytes.  What the  *)
(* parser finds under the mutex never falls below the size it computed     *)
(* without it.  And a push that takes no lock stores only in slots that    *)
(* are free before its Tail is stored.  The first two hold in whatever     *)
(* order the stores become visible, the last needs the program order.      *)
(***************************************************************************)
EXTENDS ReceivePath, TcBufferProofs

\* How many bytes the push under way leaves in the ring.
Waiting == DataAvailable(HeadAfterPush, TailAfterPush)

\* The bytes a pop finds as soon as it holds the mutex.
Ready == IF mutex = "reader" THEN MaxBufferSize - 1 ELSE DataAvailable(head, tail)

MutualExclusion ==
    /\ stores # {} => reader = "store"
    /\ mutex = "reader" => reader = "store"
    /\ "head" \in stores => mutex = "reader"
    /\ mutex = "parser" <=> parser \in {"pop", "take"}
    /\ takes # {} => parser = "take"

ChunkNumbered ==
    reader # "read" =>
        /\ Len(chunk) \in 1 .. received
        /\ \A i \in 1 .. Len(chunk) : chunk[i] = received - Len(chunk) + i

PushUnderWay ==
    /\ mutex = "reader" => Waiting = MaxBufferSize - 1
    /\ "head" \in stores => TailAfterPush = End
    /\ "tail" \in stores => tail = at
    /\ "tail" \in stores /\ mutex # "reader" => Len(chunk) <= FreeSpace(head, tail)
    /\ reader = "push" => Len(chunk) <= FreeSpace(head, tail)
    /\ reader = "lock" => MaxBufferSize <= received
    /\ Waiting <= Pushed

SizeIsThere ==
    /\ parser = "load tail" => Ready = MaxBufferSize - 1 \/ from = head
    /\ parser \in {"lock", "pop"} => size \in 1 .. Ready
    /\ "head" \in takes => from = head /\ size \in 1 .. Ready

\* All slots hold the newest bytes, ending just before Tail.
MemoryNumbered ==
    \A k \in 0 .. MaxBufferSize - 1 :
        MaxBufferSize <= Pushed + k =>
            BytesAfterPush[SlotAfter(TailAfterPush, k)] = Pushed + k + 1 - MaxBufferSize

ReceiveInvariant ==
    /\ TypeOK /\ MutualExclusion /\ ChunkNumbered
    /\ PushUnderWay /\ SizeIsThere /\ MemoryNumbered

-----------------------------------------------------------------------------
(* Types.                                                                  *)

\* A value of a byte: its number, or 0.
Value == 0 .. StreamLength

LEMMA ConstantsType ==
    /\ StreamLength \in Nat /\ MaxRead \in 1 .. MaxBufferSize - 1
    /\ MaxBufferSize \in Nat \ {0, 1} /\ 0 \in Slots
    /\ \A n \in Room : n \in Nat \ {0}
  BY ReceiveAssumption, MaxBufferSizeAssumption DEF Slots

LEMMA MaxReadType == MaxRead \in Nat /\ MaxRead <= MaxBufferSize - 1 /\ MaxBufferSize \in Nat
  BY ReceiveAssumption, MaxBufferSizeAssumption

LEMMA LeastType ==
    ASSUME NEW a \in Nat, NEW b \in Nat \ {0}
    PROVE  /\ Least(a, b) \in 0 .. a
           /\ a > 0 => Least(a, b) \in 1 .. a
  BY DEF Least

\* The bytes of a read, and any block pushed, fit into the ring.
LEMMA ChunkType ==
    ASSUME TypeOK
    PROVE  /\ chunk \in Seq(Value) /\ Len(chunk) \in 0 .. MaxBufferSize - 1
           /\ pBuffer \in [Slots -> Value]
  <1>1. chunk \in Seq(1 .. StreamLength) /\ Len(chunk) <= MaxRead
    BY DEF TypeOK
  <1>2. 1 .. StreamLength \subseteq Value
    BY ConstantsType DEF Value
  <1>3. chunk \in Seq(Value)
    <2>1. chunk \in [1 .. Len(chunk) -> 1 .. StreamLength] /\ Len(chunk) \in Nat
      BY <1>1, LenProperties
    <2>2. chunk \in [1 .. Len(chunk) -> Value]
      BY <1>2, <2>1
    <2> QED
      BY <2>1, <2>2
  <1>4. Len(chunk) \in 0 .. MaxBufferSize - 1
    <2>1. Len(chunk) \in Nat /\ Len(chunk) <= MaxRead
      BY <1>1
    <2> QED
      BY <2>1, MaxReadType
  <1> QED
    BY <1>3, <1>4 DEF TypeOK, Value

LEMMA TypeInit == Init => TypeOK
  <1> SUFFICES ASSUME Init
               PROVE  TypeOK
    OBVIOUS
  <1>1. 0 \in Slots /\ 0 \in 0 .. StreamLength /\ 0 \in 0 .. MaxBufferSize - 1 /\ 0 <= MaxRead
    BY ConstantsType
  <1>2. pBuffer = [i \in Slots |-> 0] /\ size = 0 /\ received = 0 /\ chunk = << >> /\ got = << >>
    BY DEF Init
  <1>3. /\ pBuffer \in [Slots -> 0 .. StreamLength]
        /\ chunk \in Seq(1 .. StreamLength) /\ Len(chunk) <= MaxRead
        /\ got \in Seq(0 .. StreamLength)
    BY <1>1, <1>2
  <1> QED
    BY <1>1, <1>2, <1>3 DEF Init, TypeOK

LEMMA ReadType ==
    ASSUME TypeOK, Read
    PROVE  TypeOK'
  <1>1. PICK n \in 1 .. Least(MaxRead, StreamLength - received) :
            chunk' = [i \in 1 .. n |-> received + i] /\ received' = received + n
    BY DEF Read
  <1>2. /\ StreamLength \in Nat /\ received \in Nat /\ MaxRead \in Nat
        /\ n \in Nat /\ n <= MaxRead /\ received + n <= StreamLength
    <2>1. StreamLength \in Nat /\ received \in 0 .. StreamLength /\ MaxRead \in Nat
      BY ConstantsType, MaxReadType DEF TypeOK
    <2> QED
      BY <2>1 DEF Least
  <1>3. \A i \in 1 .. n : received + i \in 1 .. StreamLength
    BY <1>2
  <1>4. chunk' \in Seq(1 .. StreamLength) /\ Len(chunk') = n
    BY <1>1, <1>2, <1>3
  <1>5. received' \in 0 .. StreamLength
    BY <1>1, <1>2
  <1>6. /\ UNCHANGED <<head, tail, pBuffer, mutex, at, stores, parserVars, history>>
        /\ reader' = "check"
    BY DEF Read, ring
  <1> QED
    BY <1>2, <1>4, <1>5, <1>6 DEF TypeOK, parserVars, history

LEMMA StoresType ==
    ASSUME TypeOK, StoreData \/ StoreTail \/ StoreHead
    PROVE  TypeOK'
  <1>1. /\ UNCHANGED <<mutex, received, reader, chunk, at, parserVars, history>>
        /\ stores' \subseteq stores
    BY DEF StoreData, StoreTail, StoreHead, Store
  <1>2. /\ chunk \in Seq(Value) /\ Len(chunk) \in 0 .. MaxBufferSize - 1
        /\ pBuffer \in [Slots -> Value]
    BY ChunkType
  <1>3. at \in Slots /\ MaxBufferSize \in Nat
    BY ConstantsType DEF TypeOK
  <1>4. Advanced(at, Len(chunk)) \in Slots
    BY <1>2, <1>3, AdvancedType
  <1>5. HeadAfterOverwrite(Advanced(at, Len(chunk))) \in Slots
    BY <1>4, NextSlotType
  <1>6. Stored(pBuffer, at, chunk) \in [Slots -> Value]
    <2>1. Len(chunk) < MaxBufferSize
      BY <1>2, <1>3
    <2>2. IsStored(Stored(pBuffer, at, chunk), Value, pBuffer, at, chunk)
      BY <1>2, <1>3, <2>1, StoredAt, Zenon
    <2> QED
      BY <2>2, Zenon DEF IsStored
  <1>7. head' \in Slots /\ tail' \in Slots /\ pBuffer' \in [Slots -> Value]
    BY <1>2, <1>4, <1>5, <1>6 DEF StoreData, StoreTail, StoreHead, TypeOK
  <1> QED
    BY <1>1, <1>7 DEF TypeOK, parserVars, history, Value

LEMMA LoadTailType ==
    ASSUME TypeOK, LoadTail
    PROVE  TypeOK'
  <1>1. DataAvailable(from, tail) \in 0 .. MaxBufferSize - 1 /\ MaxBufferSize \in Nat
    BY SizesType, ConstantsType DEF TypeOK
  <1>2. size' \in 0 .. MaxBufferSize - 1 /\ parser' \in {"load head", "lock"}
    <2>1. CASE size' = size
      BY <2>1 DEF LoadTail, TypeOK
    <2>2. CASE \E parserSize \in Room : size' = Least(DataAvailable(from, tail), parserSize)
      <3>1. size' \in 0 .. DataAvailable(from, tail)
        BY <1>1, <2>2, ConstantsType, LeastType
      <3>2. size' \in 0 .. MaxBufferSize - 1
        BY <1>1, <3>1
      <3> QED
        BY <3>2 DEF LoadTail
    <2> QED
      BY <2>1, <2>2 DEF LoadTail
  <1> QED
    BY <1>2 DEF LoadTail, TypeOK, ring, readerVars, history

LEMMA CopyOutType ==
    ASSUME TypeOK, CopyOut
    PROVE  TypeOK'
  <1>1. pBuffer \in [Slots -> Value] /\ from \in Slots /\ size \in 0 .. MaxBufferSize - 1
        /\ got \in Seq(Value)
    BY DEF TypeOK, Value
  <1>2. Taken(pBuffer, from, size) \in Seq(Value)
    <2>1. Reads(Taken(pBuffer, from, size), Value, pBuffer, from, size)
      BY <1>1, TakenAt, Zenon
    <2> QED
      BY <2>1, Zenon DEF Reads
  <1>3. got' \in Seq(Value)
    BY <1>1, <1>2 DEF CopyOut
  <1> QED
    BY <1>3 DEF CopyOut, TypeOK, Value, ring, readerVars

LEMMA AdvanceHeadType ==
    ASSUME TypeOK, AdvanceHead
    PROVE  TypeOK'
  <1>1. from \in Slots /\ size \in 0 .. MaxBufferSize - 1 /\ MaxBufferSize \in Nat
    BY ConstantsType DEF TypeOK
  <1>2. size \in 0 .. MaxBufferSize
    BY <1>1
  <1>3. Advanced(from, size) \in Slots
    BY <1>1, <1>2, AdvancedType
  <1> QED
    BY <1>3 DEF AdvanceHead, TypeOK, readerVars, history

LEMMA TypeStep == TypeOK /\ [Next]_vars => TypeOK'
  <1> SUFFICES ASSUME TypeOK, [Next]_vars
               PROVE  TypeOK'
    OBVIOUS
  <1>1. CASE CheckSpace
    BY <1>1 DEF CheckSpace, TypeOK, ring, parserVars, history
  <1>2. CASE Push
    BY <1>2 DEF Push, BeginPush, TypeOK, ring, parserVars, history
  <1>3. CASE Overwrite
    BY <1>3 DEF Overwrite, BeginPush, TypeOK, ring, parserVars
  <1>4. CASE PushDone
    BY <1>4 DEF PushDone, TypeOK, ring, parserVars, history
  <1>5. CASE LoadHead
    BY <1>5 DEF LoadHead, TypeOK, ring, readerVars, history
  <1>6. CASE LockRing
    BY <1>6 DEF LockRing, TypeOK, ring, readerVars, history
  <1>7. CASE Pop
    BY <1>7 DEF Pop, TypeOK, ring, readerVars, history
  <1>8. CASE PopDone
    BY <1>8 DEF PopDone, TypeOK, ring, readerVars, history
  <1>9. CASE UNCHANGED vars
    BY <1>9 DEF TypeOK, vars, ring, readerVars, parserVars, history
  <1> QED
    BY <1>1, <1>2, <1>3, <1>4, <1>5, <1>6, <1>7, <1>8, <1>9,
       ReadType, StoresType, LoadTailType, CopyOutType, AdvanceHeadType
    DEF Next, ReadThread, ParserThread

(* Every variable has its type, in whatever order the stores become        *)
(* visible: Head and Tail stay in the buffer, and so does every copy.      *)
THEOREM TypeCorrect == Spec => []TypeOK
  BY TypeInit, TypeStep, PTL DEF Spec

-----------------------------------------------------------------------------
(* What the ring looks like in the middle of a push or a pop.              *)

LEMMA RingType ==
    ASSUME TypeOK
    PROVE  /\ End \in Slots /\ HeadAfterPush \in Slots /\ TailAfterPush \in Slots
           /\ BytesAfterPush \in [Slots -> Value]
           /\ Waiting \in 0 .. MaxBufferSize - 1 /\ Ready \in 0 .. MaxBufferSize - 1
  <1>1. /\ chunk \in Seq(Value) /\ Len(chunk) \in 0 .. MaxBufferSize - 1
        /\ pBuffer \in [Slots -> Value]
    BY ChunkType
  <1>2. head \in Slots /\ tail \in Slots /\ at \in Slots /\ MaxBufferSize \in Nat \ {0}
    BY ConstantsType DEF TypeOK
  <1>3. Len(chunk) \in 0 .. MaxBufferSize /\ Len(chunk) < MaxBufferSize
    BY <1>1, <1>2
  <1>4. End \in Slots
    BY <1>2, <1>3, AdvancedType DEF End
  <1>5. HeadAfterPush \in Slots /\ TailAfterPush \in Slots
    BY <1>2, <1>4, OverwrittenSize DEF HeadAfterPush, TailAfterPush
  <1>6. BytesAfterPush \in [Slots -> Value]
    <2>1. chunk \in Seq(Value) /\ pBuffer \in [Slots -> Value]
      BY <1>1
    <2>2. IsStored(Stored(pBuffer, at, chunk), Value, pBuffer, at, chunk)
      BY <1>2, <1>3, <2>1, StoredAt, Zenon
    <2> QED
      BY <2>1, <2>2, Zenon DEF IsStored, BytesAfterPush
  <1>7. Waiting \in 0 .. MaxBufferSize - 1
    BY <1>5, SizesType DEF Waiting
  <1>8. Ready \in 0 .. MaxBufferSize - 1
    BY <1>2, SizesType DEF Ready
  <1> QED
    BY <1>4, <1>5, <1>6, <1>7, <1>8

LEMMA PushedType ==
    ASSUME TypeOK, ChunkNumbered
    PROVE  /\ Pushed \in Nat /\ received \in Nat /\ Len(chunk) \in Nat
           /\ reader # "read" => Len(chunk) >= 1 /\ Len(chunk) <= received
           /\ reader \in {"check", "push", "lock"} => Pushed = received - Len(chunk)
           /\ reader \in {"read", "store"} => Pushed = received
  <1>1. received \in Nat /\ Len(chunk) \in Nat
    <2>1. received \in 0 .. StreamLength /\ StreamLength \in Nat
      BY ConstantsType DEF TypeOK
    <2>2. Len(chunk) \in 0 .. MaxBufferSize - 1 /\ MaxBufferSize \in Nat
      BY ChunkType, MaxReadType
    <2> QED
      BY <2>1, <2>2
  <1>2. reader # "read" => Len(chunk) >= 1 /\ Len(chunk) <= received
    BY <1>1 DEF ChunkNumbered
  <1>3. Len(chunk) <= received => received - Len(chunk) \in Nat
    BY <1>1
  <1> QED
    BY <1>1, <1>2, <1>3 DEF Pushed

\* A plain push under way adds its bytes to those the parser finds now.
LEMMA PlainPushSizes ==
    ASSUME TypeOK, MutualExclusion, ChunkNumbered, PushUnderWay,
           mutex # "reader", "tail" \in stores
    PROVE  /\ HeadAfterPush = head /\ TailAfterPush = End /\ at = tail
           /\ Waiting = Ready + Len(chunk) /\ Ready = DataAvailable(head, tail)
           /\ Len(chunk) \in 1 .. MaxBufferSize - 1
  <1>1. HeadAfterPush = head /\ TailAfterPush = End /\ Ready = DataAvailable(head, tail)
    BY DEF HeadAfterPush, TailAfterPush, Ready, MutualExclusion
  <1>2. reader # "read" /\ End = Advanced(tail, Len(chunk)) /\ Len(chunk) <= FreeSpace(head, tail)
        /\ at = tail
    BY DEF MutualExclusion, PushUnderWay, End
  <1>3. Len(chunk) >= 1 /\ Len(chunk) \in 0 .. MaxBufferSize - 1 /\ MaxBufferSize \in Nat
    BY <1>2, PushedType, ChunkType, ConstantsType
  <1>4. Len(chunk) \in 1 .. MaxBufferSize - 1
    BY <1>3
  <1>5. head \in Slots /\ tail \in Slots
    BY DEF TypeOK
  <1>6. DataAvailable(head, Advanced(tail, Len(chunk))) = DataAvailable(head, tail) + Len(chunk)
    BY <1>2, <1>4, <1>5, PushedSize
  <1> QED
    BY <1>1, <1>2, <1>4, <1>6 DEF Waiting

\* The parser finds no more than the ring will hold.
LEMMA ReadyIsWaiting ==
    ASSUME TypeOK, MutualExclusion, ChunkNumbered, PushUnderWay
    PROVE  Ready <= Waiting
  <1>1. Ready \in Nat /\ Waiting \in Nat /\ Len(chunk) \in Nat
    BY RingType, ChunkType, ConstantsType
  <1>2. CASE mutex = "reader"
    BY <1>1, <1>2 DEF PushUnderWay, Ready
  <1>3. CASE mutex # "reader" /\ "tail" \in stores
    BY <1>1, <1>3, PlainPushSizes
  <1>4. CASE mutex # "reader" /\ "tail" \notin stores
    <2>1. Ready = Waiting
      BY <1>4 DEF MutualExclusion, Ready, Waiting, HeadAfterPush, TailAfterPush
    <2> QED
      BY <1>1, <2>1
  <1> QED
    BY <1>2, <1>3, <1>4

\* The slot i places after Head holds byte number i of the ring.
LEMMA RingNumbered ==
    ASSUME TypeOK, ChunkNumbered, MemoryNumbered, Waiting <= Pushed, NEW i \in 1 .. Waiting
    PROVE  BytesAfterPush[SlotAfter(HeadAfterPush, i - 1)] = Pushed - Waiting + i
  <1>1. /\ Waiting \in 0 .. MaxBufferSize - 1 /\ Pushed \in Nat /\ MaxBufferSize \in Nat
        /\ HeadAfterPush \in Slots /\ TailAfterPush \in Slots
    BY RingType, PushedType, ConstantsType
  <1> DEFINE k == (MaxBufferSize - Waiting) + (i - 1)
  <1>2. k \in 0 .. MaxBufferSize - 1 /\ i - 1 \in 0 .. Waiting - 1 /\ MaxBufferSize <= Pushed + k
        /\ Pushed + k + 1 - MaxBufferSize = Pushed - Waiting + i
    BY <1>1
  <1>3. TailAfterPush = SlotAfter(HeadAfterPush, Waiting)
    BY <1>1, SizesType DEF Waiting
  <1>4. SlotAfter(HeadAfterPush, i - 1) = SlotAfter(TailAfterPush, k)
    BY <1>1, <1>2, <1>3, SlotBehind
  <1> QED
    BY <1>2, <1>4 DEF MemoryNumbered

\* A block of the next numbers, pushed behind the newest bytes.
LEMMA PushNumbers ==
    ASSUME NEW mem \in [Slots -> Value], NEW t \in Slots, NEW bytes \in Seq(Value),
           Len(bytes) \in 0 .. MaxBufferSize - 1, NEW p \in Nat,
           \A k \in 0 .. MaxBufferSize - 1 :
               MaxBufferSize <= p + k => mem[SlotAfter(t, k)] = p + k + 1 - MaxBufferSize,
           \A i \in 1 .. Len(bytes) : bytes[i] = p + i,
           NEW k \in 0 .. MaxBufferSize - 1, MaxBufferSize <= (p + Len(bytes)) + k
    PROVE  Stored(mem, t, bytes)[SlotAfter(Advanced(t, Len(bytes)), k)]
               = (p + Len(bytes)) + k + 1 - MaxBufferSize
  <1> DEFINE m == Len(bytes)
             new == Stored(mem, t, bytes)
  <1>1. m \in 0 .. MaxBufferSize - 1 /\ MaxBufferSize \in Nat /\ m < MaxBufferSize
        /\ m \in 0 .. MaxBufferSize
    BY ConstantsType
  <1>2. Advanced(t, m) = SlotAfter(t, m)
    BY <1>1, AdvancedType
  <1>3. \A j \in 0 .. MaxBufferSize - 1 :
            new[SlotAfter(t, j)] = IF j < m THEN bytes[j + 1] ELSE mem[SlotAfter(t, j)]
    <2>1. IsStored(new, Value, mem, t, bytes)
      BY <1>1, StoredAt, Zenon
    <2> HIDE DEF new
    <2> QED
      BY <2>1, Zenon DEF IsStored
  <1> HIDE DEF new
  <1>4. CASE m + k < MaxBufferSize
    <2>1. m + k \in 0 .. MaxBufferSize - 1 /\ ~(m + k < m) /\ k \in 0 .. MaxBufferSize - m
          /\ MaxBufferSize <= p + (m + k)
          /\ p + (m + k) + 1 - MaxBufferSize = (p + m) + k + 1 - MaxBufferSize
      BY <1>1, <1>4
    <2>2. SlotAfter(SlotAfter(t, m), k) = SlotAfter(t, m + k)
      BY <1>1, <2>1, SlotAfterTwice
    <2>3. new[SlotAfter(t, m + k)] = mem[SlotAfter(t, m + k)]
      BY <1>3, <2>1
    <2>4. mem[SlotAfter(t, m + k)] = p + (m + k) + 1 - MaxBufferSize
      BY <2>1
    <2> QED
      BY <1>2, <2>1, <2>2, <2>3, <2>4 DEF new
  <1>5. CASE MaxBufferSize <= m + k
    <2> DEFINE j == m + k - MaxBufferSize
    <2>1. j \in 0 .. MaxBufferSize - 1 /\ j < m /\ j + 1 \in 1 .. m
          /\ p + (j + 1) = (p + m) + k + 1 - MaxBufferSize
      BY <1>1, <1>5
    <2>2. SlotAfter(SlotAfter(t, m), k) = SlotAfter(t, j)
      BY <1>1, <1>5 DEF SlotAfter, Slots
    <2>3. new[SlotAfter(t, j)] = bytes[j + 1]
      BY <1>3, <2>1
    <2>4. bytes[j + 1] = p + (j + 1)
      BY <2>1
    <2> QED
      BY <1>2, <2>1, <2>2, <2>3, <2>4 DEF new
  <1> QED
    BY <1>1, <1>4, <1>5

-----------------------------------------------------------------------------
(* Every step keeps the invariant.                                         *)

LEMMA InvariantInit == Init => ReceiveInvariant
  <1> SUFFICES ASSUME Init
               PROVE  ReceiveInvariant
    OBVIOUS
  <1>1. TypeOK
    BY TypeInit
  <1>2. MutualExclusion /\ ChunkNumbered /\ SizeIsThere
    BY DEF Init, MutualExclusion, ChunkNumbered, SizeIsThere
  <1>3. Waiting = 0 /\ Pushed = 0
    <2>1. Waiting = DataAvailable(0, 0) /\ Pushed = 0
      BY DEF Init, Waiting, HeadAfterPush, TailAfterPush, Pushed
    <2> QED
      BY <2>1 DEF DataAvailable
  <1>4. PushUnderWay
    <2>1. Waiting <= Pushed
      BY <1>3
    <2> QED
      BY <2>1 DEF Init, PushUnderWay
  <1>5. MemoryNumbered
    BY <1>3, ConstantsType DEF MemoryNumbered
  <1> QED
    BY <1>1, <1>2, <1>4, <1>5 DEF ReceiveInvariant

\* The steps of ParserThread that leave the ring alone.
LEMMA LooksKeepRing ==
    ASSUME ReceiveInvariant, UNCHANGED <<ring, readerVars>>,
           mutex' = "reader" <=> mutex = "reader"
    PROVE  /\ ChunkNumbered' /\ PushUnderWay' /\ MemoryNumbered'
           /\ Ready' = Ready /\ Waiting' = Waiting /\ Pushed' = Pushed
  <1>1. UNCHANGED <<head, tail, pBuffer, received, reader, chunk, at, stores>>
    BY DEF ring, readerVars
  <1>2. /\ HeadAfterPush' = HeadAfterPush /\ TailAfterPush' = TailAfterPush /\ End' = End
        /\ BytesAfterPush' = BytesAfterPush
        /\ Ready' = Ready /\ Waiting' = Waiting /\ Pushed' = Pushed
    BY <1>1 DEF HeadAfterPush, TailAfterPush, End, BytesAfterPush, Waiting, Ready, Pushed
  <1>3. ChunkNumbered'
    BY <1>1 DEF ReceiveInvariant, ChunkNumbered
  <1>4. PushUnderWay'
    BY <1>1, <1>2 DEF ReceiveInvariant, PushUnderWay
  <1>5. MemoryNumbered'
    BY <1>2 DEF ReceiveInvariant, MemoryNumbered
  <1> QED
    BY <1>2, <1>3, <1>4, <1>5

LEMMA LooksKeep ==
    ASSUME ReceiveInvariant, TypeOK', UNCHANGED <<ring, readerVars>>,
           mutex' = "reader" <=> mutex = "reader",
           MutualExclusion', SizeIsThere'
    PROVE  ReceiveInvariant'
  BY LooksKeepRing DEF ReceiveInvariant

LEMMA LoadHeadKeeps ==
    ASSUME ReceiveInvariant, TypeOK', LoadHead
    PROVE  ReceiveInvariant'
  <1>1. UNCHANGED <<ring, readerVars, mutex, size, takes>> /\ head' = head
        /\ from' = head /\ parser = "load head" /\ parser' = "load tail"
    BY DEF LoadHead, ring
  <1>2. MutualExclusion'
    BY <1>1 DEF ReceiveInvariant, MutualExclusion, readerVars
  <1>3. takes = {}
    BY <1>1 DEF ReceiveInvariant, MutualExclusion
  <1>4. SizeIsThere'
    BY <1>1, <1>3 DEF SizeIsThere
  <1> QED
    BY <1>1, <1>2, <1>4, LooksKeep

\* The size computed from a Head and a Tail loaded at different times.
LEMMA LoadTailKeeps ==
    ASSUME ReceiveInvariant, TypeOK', LoadTail
    PROVE  ReceiveInvariant'
  <1>1. UNCHANGED <<ring, readerVars, mutex, from, takes>>
        /\ parser = "load tail" /\ parser' \in {"load head", "lock"} /\ takes = {}
    BY DEF LoadTail, ReceiveInvariant, MutualExclusion
  <1>2. MutualExclusion'
    BY <1>1 DEF ReceiveInvariant, MutualExclusion, readerVars
  <1>3. parser' = "lock" => size' \in 1 .. Ready
    <2> SUFFICES ASSUME parser' = "lock"
                 PROVE  size' \in 1 .. Ready
      OBVIOUS
    <2>1. PICK parserSize \in Room :
             DataAvailable(from, tail) > 0 /\ size' = Least(DataAvailable(from, tail), parserSize)
      BY DEF LoadTail
    <2>2. DataAvailable(from, tail) \in 0 .. MaxBufferSize - 1 /\ DataAvailable(from, tail) \in Nat
          /\ MaxBufferSize \in Nat
      <3>1. DataAvailable(from, tail) \in 0 .. MaxBufferSize - 1 /\ MaxBufferSize \in Nat
        BY SizesType, MaxReadType DEF ReceiveInvariant, TypeOK
      <3> QED
        BY <3>1
    <2>3. size' \in 1 .. DataAvailable(from, tail)
      BY <2>1, <2>2, LeastType, ConstantsType
    <2>4. Ready = MaxBufferSize - 1 \/ from = head
      BY <1>1 DEF ReceiveInvariant, SizeIsThere
    <2>5. Ready = MaxBufferSize - 1 \/ Ready = DataAvailable(from, tail)
      BY <2>4 DEF Ready
    <2> QED
      BY <2>2, <2>3, <2>5
  <1>4. SizeIsThere'
    <2>1. Ready' = Ready
      BY <1>1, LooksKeepRing
    <2> QED
      BY <1>1, <1>3, <2>1 DEF SizeIsThere
  <1> QED
    BY <1>1, <1>2, <1>4, LooksKeep

LEMMA LockRingKeeps ==
    ASSUME ReceiveInvariant, TypeOK', LockRing
    PROVE  ReceiveInvariant'
  <1>1. UNCHANGED <<ring, readerVars, from, size, takes>> /\ mutex = "free" /\ mutex' = "parser"
        /\ parser = "lock" /\ parser' = "pop"
    BY DEF LockRing
  <1>2. MutualExclusion'
    BY <1>1 DEF ReceiveInvariant, MutualExclusion, readerVars
  <1>3. Ready' = Ready /\ takes = {}
    BY <1>1, LooksKeepRing DEF ReceiveInvariant, MutualExclusion
  <1>4. SizeIsThere'
    BY <1>1, <1>3 DEF ReceiveInvariant, SizeIsThere
  <1> QED
    BY <1>1, <1>2, <1>4, LooksKeep

LEMMA PopKeeps ==
    ASSUME ReceiveInvariant, TypeOK', Pop
    PROVE  ReceiveInvariant'
  <1>1. UNCHANGED <<ring, readerVars, mutex, size>> /\ head' = head /\ from' = head
        /\ parser = "pop" /\ parser' = "take"
    BY DEF Pop, ring
  <1>2. MutualExclusion'
    BY <1>1 DEF ReceiveInvariant, MutualExclusion, readerVars
  <1>3. Ready' = Ready /\ size \in 1 .. Ready
    BY <1>1, LooksKeepRing DEF ReceiveInvariant, SizeIsThere
  <1>4. SizeIsThere'
    BY <1>1, <1>3 DEF SizeIsThere
  <1> QED
    BY <1>1, <1>2, <1>4, LooksKeep

LEMMA CopyOutKeeps ==
    ASSUME ReceiveInvariant, TypeOK', CopyOut
    PROVE  ReceiveInvariant'
  <1>1. UNCHANGED <<ring, readerVars, mutex, parser, from, size>> /\ head' = head
        /\ takes' \subseteq takes
    BY DEF CopyOut, ring
  <1>2. MutualExclusion'
    BY <1>1 DEF ReceiveInvariant, MutualExclusion, readerVars
  <1>3. Ready' = Ready
    BY <1>1, LooksKeepRing
  <1>4. SizeIsThere'
    BY <1>1, <1>3 DEF ReceiveInvariant, SizeIsThere
  <1> QED
    BY <1>1, <1>2, <1>4, LooksKeep

LEMMA PopDoneKeeps ==
    ASSUME ReceiveInvariant, TypeOK', PopDone
    PROVE  ReceiveInvariant'
  <1>1. UNCHANGED <<ring, readerVars, from, size, takes>> /\ mutex' = "free" /\ takes = {}
        /\ parser = "take" /\ parser' = "load head"
    BY DEF PopDone
  <1>2. MutualExclusion' /\ mutex = "parser"
    BY <1>1 DEF ReceiveInvariant, MutualExclusion, readerVars
  <1>3. SizeIsThere'
    BY <1>1 DEF SizeIsThere
  <1> QED
    BY <1>1, <1>2, <1>3, LooksKeep

\* A pop moves Head over bytes that are there for everybody.
LEMMA AdvanceHeadSizes ==
    ASSUME ReceiveInvariant, AdvanceHead
    PROVE  /\ HeadAfterPush = head /\ HeadAfterPush' = head' /\ TailAfterPush' = TailAfterPush
           /\ size \in 1 .. Ready /\ size <= Waiting /\ mutex = "parser"
           /\ head' = SlotAfter(head, size)
           /\ Waiting' = Waiting - size /\ Ready' = Ready - size
           /\ FreeSpace(head', tail) = FreeSpace(head, tail) + size
  <1>1. /\ "head" \in takes /\ mutex = "parser" /\ "head" \notin stores
        /\ from = head /\ size \in 1 .. Ready /\ Ready <= Waiting
    BY ReadyIsWaiting DEF AdvanceHead, ReceiveInvariant, MutualExclusion, SizeIsThere
  <1>2. UNCHANGED <<tail, mutex, chunk, at, stores>> /\ head' = Advanced(head, size)
    BY <1>1 DEF AdvanceHead, readerVars
  <1>3. /\ HeadAfterPush = head /\ HeadAfterPush' = head' /\ TailAfterPush' = TailAfterPush
        /\ Ready = DataAvailable(head, tail) /\ Ready' = DataAvailable(head', tail)
    BY <1>1, <1>2 DEF HeadAfterPush, TailAfterPush, End, Ready
  <1>4. head \in Slots /\ tail \in Slots /\ TailAfterPush \in Slots
        /\ Ready \in 0 .. MaxBufferSize - 1 /\ Waiting \in 0 .. MaxBufferSize - 1
        /\ MaxBufferSize \in Nat
    BY RingType, MaxReadType DEF ReceiveInvariant, TypeOK
  <1>5. /\ size \in 0 .. DataAvailable(head, tail) /\ size <= Waiting
        /\ size \in 0 .. DataAvailable(head, TailAfterPush)
    BY <1>1, <1>3, <1>4 DEF Waiting
  <1>6. head' = SlotAfter(head, size) /\ Ready' = Ready - size /\ head' \in Slots
    BY <1>2, <1>3, <1>4, <1>5, PoppedSize
  <1>7. Waiting' = Waiting - size
    BY <1>2, <1>3, <1>4, <1>5, PoppedSize DEF Waiting
  <1>8. FreeSpace(head', tail) = FreeSpace(head, tail) + size
    <2>1. /\ FreeSpace(head', tail) = MaxBufferSize - 1 - Ready'
          /\ FreeSpace(head, tail) = MaxBufferSize - 1 - Ready
      <3>1. FreeSpace(head', tail) = MaxBufferSize - 1 - DataAvailable(head', tail)
        BY <1>4, <1>6, SizesType
      <3>2. FreeSpace(head, tail) = MaxBufferSize - 1 - DataAvailable(head, tail)
        BY <1>4, SizesType
      <3> QED
        BY <1>3, <3>1, <3>2
    <2>2. /\ Ready \in Int /\ size \in Int /\ MaxBufferSize \in Int
          /\ Ready' = Ready - size
      <3>1. Ready \in 0 .. MaxBufferSize - 1 /\ size \in 1 .. Ready /\ MaxBufferSize \in Nat
        BY <1>1, <1>4
      <3> QED
        BY <1>6, <3>1
    <2> QED
      BY <2>1, <2>2
  <1> QED
    BY <1>1, <1>3, <1>5, <1>6, <1>7, <1>8

LEMMA AdvanceHeadKeeps ==
    ASSUME ReceiveInvariant, TypeOK', AdvanceHead
    PROVE  ReceiveInvariant'
  <1>1. UNCHANGED <<tail, pBuffer, mutex, received, reader, chunk, at, stores, parser, from, size>>
        /\ takes' = takes \ {"head"} /\ parser = "take"
    BY DEF AdvanceHead, readerVars, ReceiveInvariant, MutualExclusion
  <1>2. MutualExclusion'
    BY <1>1 DEF ReceiveInvariant, MutualExclusion
  <1>3. ChunkNumbered'
    BY <1>1 DEF ReceiveInvariant, ChunkNumbered
  <1>4. BytesAfterPush' = BytesAfterPush /\ End' = End /\ Pushed' = Pushed
    BY <1>1 DEF BytesAfterPush, End, Pushed
  <1>5. PushUnderWay'
    <2>1. /\ Waiting \in Nat /\ Pushed \in Nat /\ Len(chunk) \in Nat /\ size \in Nat
          /\ FreeSpace(head, tail) \in Int
      <3>1. /\ Waiting \in 0 .. MaxBufferSize - 1 /\ Ready \in 0 .. MaxBufferSize - 1
            /\ Pushed \in Nat /\ Len(chunk) \in Nat /\ size \in 1 .. Ready /\ MaxBufferSize \in Nat
        BY RingType, PushedType, AdvanceHeadSizes, MaxReadType DEF ReceiveInvariant
      <3>2. FreeSpace(head, tail) = MaxBufferSize - 1 - DataAvailable(head, tail)
            /\ DataAvailable(head, tail) \in 0 .. MaxBufferSize - 1
        BY SizesType DEF ReceiveInvariant, TypeOK
      <3> QED
        BY <3>1, <3>2
    <2>2. Len(chunk) <= FreeSpace(head, tail) => Len(chunk') <= FreeSpace(head', tail')
      BY <1>1, <2>1, AdvanceHeadSizes
    <2>3. Waiting <= Pushed => Waiting' <= Pushed'
      BY <1>4, <2>1, AdvanceHeadSizes
    <2> QED
      BY <1>1, <1>4, <2>2, <2>3, AdvanceHeadSizes DEF ReceiveInvariant, PushUnderWay
  <1>6. SizeIsThere'
    BY <1>1 DEF SizeIsThere
  <1>7. MemoryNumbered'
    BY <1>4, AdvanceHeadSizes DEF ReceiveInvariant, MemoryNumbered
  <1> QED
    BY <1>2, <1>3, <1>5, <1>6, <1>7 DEF ReceiveInvariant

\* Where the steps of ReadThread leave the sizes the parser works with.
LEMMA SizeStays ==
    ASSUME ReceiveInvariant, TypeOK', UNCHANGED parserVars, Ready <= Ready',
           head' = head \/ (Ready' = MaxBufferSize - 1 /\ takes = {})
    PROVE  SizeIsThere'
  <1>1. UNCHANGED <<parser, from, size, takes>>
    BY DEF parserVars
  <1>2. /\ Ready \in 0 .. MaxBufferSize - 1 /\ Ready' \in 0 .. MaxBufferSize - 1
        /\ MaxBufferSize \in Nat
    <2>1. /\ DataAvailable(head', tail') \in 0 .. MaxBufferSize - 1
          /\ MaxBufferSize - 1 \in 0 .. MaxBufferSize - 1
      <3>1. head' \in Slots /\ tail' \in Slots
        BY DEF TypeOK
      <3> QED
        BY <3>1, SizesType, MaxBufferSizeAssumption
    <2>2. Ready' \in 0 .. MaxBufferSize - 1
      BY <2>1 DEF Ready
    <2> QED
      BY <2>2, RingType, MaxReadType DEF ReceiveInvariant
  <1>3. Ready = MaxBufferSize - 1 => Ready' = MaxBufferSize - 1
    BY <1>2
  <1>4. size \in 1 .. Ready => size' \in 1 .. Ready'
    BY <1>1, <1>2
  <1>5. parser' = "load tail" => Ready' = MaxBufferSize - 1 \/ from' = head'
    BY <1>1, <1>3 DEF ReceiveInvariant, SizeIsThere
  <1>6. parser' \in {"lock", "pop"} => size' \in 1 .. Ready'
    BY <1>1, <1>4 DEF ReceiveInvariant, SizeIsThere
  <1>7. "head" \in takes' => from' = head' /\ size' \in 1 .. Ready'
    BY <1>1, <1>4 DEF ReceiveInvariant, SizeIsThere
  <1> QED
    BY <1>5, <1>6, <1>7 DEF SizeIsThere

LEMMA ReadKeeps ==
    ASSUME ReceiveInvariant, TypeOK', Read
    PROVE  ReceiveInvariant'
  <1>1. UNCHANGED <<head, tail, pBuffer, mutex, at, stores, parserVars>>
        /\ reader = "read" /\ reader' = "check" /\ stores = {}
    BY DEF Read, ring, ReceiveInvariant, MutualExclusion
  <1>2. PICK n \in 1 .. Least(MaxRead, StreamLength - received) :
            chunk' = [i \in 1 .. n |-> received + i] /\ received' = received + n
    BY DEF Read
  <1>3. n \in Nat /\ n >= 1 /\ received \in Nat
    <2>1. received \in 0 .. StreamLength /\ StreamLength \in Nat /\ MaxRead \in Nat
      BY ConstantsType, MaxReadType DEF ReceiveInvariant, TypeOK
    <2> QED
      BY <2>1 DEF Least
  <1>4. Len(chunk') = n /\ n \in 1 .. received' /\ received' - n = received
    BY <1>2, <1>3
  <1>5. MutualExclusion'
    BY <1>1 DEF ReceiveInvariant, MutualExclusion, parserVars
  <1>6. ChunkNumbered'
    BY <1>2, <1>4 DEF ChunkNumbered
  <1>7. /\ TailAfterPush' = TailAfterPush /\ BytesAfterPush' = BytesAfterPush
        /\ Waiting' = Waiting /\ Pushed' = Pushed /\ Ready' = Ready
    BY <1>1, <1>4
    DEF TailAfterPush, HeadAfterPush, BytesAfterPush, Waiting, Pushed, Ready
  <1>8. mutex # "reader"
    BY <1>1 DEF ReceiveInvariant, MutualExclusion
  <1>9. PushUnderWay'
    BY <1>1, <1>7, <1>8 DEF ReceiveInvariant, PushUnderWay
  <1>10. SizeIsThere'
    BY <1>1, <1>7 DEF ReceiveInvariant, SizeIsThere, parserVars
  <1>11. MemoryNumbered'
    BY <1>7 DEF ReceiveInvariant, MemoryNumbered
  <1> QED
    BY <1>5, <1>6, <1>9, <1>10, <1>11 DEF ReceiveInvariant

LEMMA CheckSpaceKeeps ==
    ASSUME ReceiveInvariant, TypeOK', CheckSpace
    PROVE  ReceiveInvariant'
  <1>1. UNCHANGED <<head, tail, pBuffer, mutex, received, chunk, at, stores, parserVars>>
        /\ reader = "check" /\ stores = {} /\ mutex # "reader"
        /\ reader' = (IF Len(chunk) > FreeSpace(head, tail) THEN "lock" ELSE "push")
    BY DEF CheckSpace, ring, ReceiveInvariant, MutualExclusion
  <1>2. reader' \in {"lock", "push"}
    BY <1>1
  <1>3. MutualExclusion'
    BY <1>1, <1>2 DEF ReceiveInvariant, MutualExclusion, parserVars
  <1>4. ChunkNumbered'
    BY <1>1 DEF ReceiveInvariant, ChunkNumbered
  <1>5. /\ TailAfterPush' = TailAfterPush /\ BytesAfterPush' = BytesAfterPush
        /\ Waiting' = Waiting /\ Pushed' = Pushed /\ Ready' = Ready
    BY <1>1, <1>2
    DEF TailAfterPush, HeadAfterPush, BytesAfterPush, Waiting, Pushed, Ready, End
  <1>6. PushUnderWay'
    <2>1. /\ Len(chunk) \in Nat /\ received \in Nat /\ MaxBufferSize \in Nat
          /\ Pushed = received - Len(chunk) /\ Waiting \in Nat
          /\ FreeSpace(head, tail) = MaxBufferSize - 1 - Waiting
          /\ Waiting <= Pushed
      <3>1. Waiting = DataAvailable(head, tail)
        BY <1>1 DEF Waiting, HeadAfterPush, TailAfterPush
      <3>2. /\ DataAvailable(head, tail) \in 0 .. MaxBufferSize - 1 /\ MaxBufferSize \in Nat
            /\ FreeSpace(head, tail) = MaxBufferSize - 1 - DataAvailable(head, tail)
        BY SizesType, MaxReadType DEF ReceiveInvariant, TypeOK
      <3>3. DataAvailable(head, tail) \in Nat
        BY <3>2
      <3>4. Len(chunk) \in Nat /\ received \in Nat /\ Pushed = received - Len(chunk)
        BY <1>1, PushedType DEF ReceiveInvariant
      <3> QED
        BY <3>1, <3>2, <3>3, <3>4 DEF ReceiveInvariant, PushUnderWay
    <2>2. CASE Len(chunk) > FreeSpace(head, tail)
      <3>1. MaxBufferSize <= received
        BY <2>1, <2>2
      <3> QED
        BY <1>1, <1>5, <2>2, <3>1 DEF ReceiveInvariant, PushUnderWay
    <2>3. CASE ~(Len(chunk) > FreeSpace(head, tail))
      <3>1. Len(chunk) <= FreeSpace(head, tail)
        BY <2>1, <2>3
      <3> QED
        BY <1>1, <1>5, <2>3, <3>1 DEF ReceiveInvariant, PushUnderWay
    <2> QED
      BY <2>2, <2>3
  <1>7. SizeIsThere'
    BY <1>1, <1>5 DEF ReceiveInvariant, SizeIsThere, parserVars
  <1>8. MemoryNumbered'
    BY <1>5 DEF ReceiveInvariant, MemoryNumbered
  <1> QED
    BY <1>3, <1>4, <1>6, <1>7, <1>8 DEF ReceiveInvariant

\* As soon as a push begins, the ring it will leave holds the next numbers.
LEMMA BeginPushNumbers ==
    ASSUME ReceiveInvariant, reader \in {"push", "lock"}, BeginPush(stores'),
           {"data", "tail"} \subseteq stores', UNCHANGED <<ring, received, chunk>>
    PROVE  /\ TailAfterPush' = End' /\ End' = Advanced(tail, Len(chunk)) /\ tail' = at'
           /\ Pushed' = received' /\ Pushed = received - Len(chunk)
           /\ ChunkNumbered' /\ MemoryNumbered'
  <1>1. UNCHANGED <<head, tail, pBuffer, received, chunk>> /\ stores = {} /\ at' = tail
        /\ reader' = "store"
    BY DEF BeginPush, ring, ReceiveInvariant, MutualExclusion
  <1>2. /\ TailAfterPush' = End' /\ End' = Advanced(tail, Len(chunk))
        /\ TailAfterPush = tail /\ BytesAfterPush = pBuffer
        /\ BytesAfterPush' = Stored(pBuffer, tail, chunk)
    BY <1>1 DEF TailAfterPush, End, BytesAfterPush
  <1>3. Pushed' = received' /\ Pushed = received - Len(chunk)
    BY <1>1 DEF Pushed
  <1>4. ChunkNumbered'
    BY <1>1 DEF ReceiveInvariant, ChunkNumbered
  <1>5. /\ Pushed \in Nat /\ Len(chunk) \in Nat /\ Pushed' = Pushed + Len(chunk)
        /\ \A i \in 1 .. Len(chunk) : chunk[i] = Pushed + i
    <2>1. Pushed \in Nat /\ received \in Nat /\ Len(chunk) \in Nat
      BY PushedType DEF ReceiveInvariant
    <2>2. \A i \in 1 .. Len(chunk) : chunk[i] = received - Len(chunk) + i
      BY <1>1 DEF ReceiveInvariant, ChunkNumbered
    <2> QED
      BY <1>1, <1>3, <2>1, <2>2
  <1>6. /\ pBuffer \in [Slots -> Value] /\ tail \in Slots /\ chunk \in Seq(Value)
        /\ Len(chunk) \in 0 .. MaxBufferSize - 1
    BY ChunkType DEF ReceiveInvariant, TypeOK
  <1>7. \A k \in 0 .. MaxBufferSize - 1 :
            MaxBufferSize <= Pushed + k =>
                pBuffer[SlotAfter(tail, k)] = Pushed + k + 1 - MaxBufferSize
    BY <1>2 DEF ReceiveInvariant, MemoryNumbered
  <1>8. \A k \in 0 .. MaxBufferSize - 1 :
            MaxBufferSize <= (Pushed + Len(chunk)) + k =>
               Stored(pBuffer, tail, chunk)[SlotAfter(Advanced(tail, Len(chunk)), k)]
                   = (Pushed + Len(chunk)) + k + 1 - MaxBufferSize
    BY <1>5, <1>6, <1>7, PushNumbers
  <1>9. MemoryNumbered'
    BY <1>2, <1>5, <1>8 DEF MemoryNumbered
  <1> QED
    BY <1>1, <1>2, <1>3, <1>4, <1>9

\* The plain push, which is never refused.
LEMMA PushKeeps ==
    ASSUME ReceiveInvariant, TypeOK', Push
    PROVE  ReceiveInvariant'
  <1>1. /\ UNCHANGED <<ring, mutex, received, chunk, parserVars>>
        /\ reader = "push" /\ stores = {} /\ mutex # "reader"
    BY DEF Push, ReceiveInvariant, MutualExclusion
  <1>2. Len(chunk) <= FreeSpace(head, tail) /\ FreeSpace(head, tail) >= Len(chunk)
    <2>1. Len(chunk) <= FreeSpace(head, tail)
      BY <1>1 DEF ReceiveInvariant, PushUnderWay
    <2>2. Len(chunk) \in Nat /\ FreeSpace(head, tail) \in Int
      <3>1. /\ FreeSpace(head, tail) = MaxBufferSize - 1 - DataAvailable(head, tail)
            /\ DataAvailable(head, tail) \in 0 .. MaxBufferSize - 1
        BY SizesType DEF ReceiveInvariant, TypeOK
      <3>2. Len(chunk) \in Nat /\ MaxBufferSize \in Nat
        BY PushedType, MaxReadType DEF ReceiveInvariant
      <3> QED
        BY <3>1, <3>2
    <2> QED
      BY <2>1, <2>2
  <1>3. BeginPush(stores') /\ stores' = {"data", "tail"}
    BY <1>2 DEF Push, BeginPush
  <1>4. reader' = "store" /\ head' = head /\ tail' = tail /\ at' = tail
    BY <1>1, <1>3 DEF BeginPush, ring
  <1>5. /\ TailAfterPush' = End' /\ End' = Advanced(tail, Len(chunk))
        /\ Pushed' = received' /\ Pushed = received - Len(chunk)
        /\ ChunkNumbered' /\ MemoryNumbered'
    BY <1>1, <1>3, BeginPushNumbers
  <1>6. MutualExclusion'
    BY <1>1, <1>3, <1>4 DEF ReceiveInvariant, MutualExclusion, parserVars
  <1>7. Ready' = Ready
    BY <1>1, <1>4 DEF Ready
  <1>8. Waiting' = Waiting + Len(chunk)
    <2>1. Waiting = DataAvailable(head, tail)
      BY <1>1 DEF Waiting, HeadAfterPush, TailAfterPush
    <2>2. Waiting' = DataAvailable(head, Advanced(tail, Len(chunk)))
      BY <1>3, <1>4, <1>5 DEF Waiting, HeadAfterPush
    <2>3. head \in Slots /\ tail \in Slots /\ Len(chunk) \in 1 .. MaxBufferSize - 1
      <3>1. /\ Len(chunk) \in 0 .. MaxBufferSize - 1 /\ Len(chunk) >= 1
            /\ MaxBufferSize \in Nat
        BY <1>1, ChunkType, PushedType, MaxReadType DEF ReceiveInvariant
      <3>2. Len(chunk) \in 1 .. MaxBufferSize - 1
        BY <3>1
      <3> QED
        BY <3>2 DEF ReceiveInvariant, TypeOK
    <2> QED
      BY <1>2, <2>1, <2>2, <2>3, PushedSize
  <1>9. Waiting' <= Pushed'
    <2>1. /\ received' = received /\ received \in Nat /\ Len(chunk) \in Nat /\ Waiting \in Nat
          /\ Pushed \in Nat /\ Waiting <= Pushed
      <3>1. Waiting \in 0 .. MaxBufferSize - 1 /\ MaxBufferSize \in Nat
        BY RingType, MaxReadType DEF ReceiveInvariant
      <3>2. Waiting \in Nat
        BY <3>1
      <3> QED
        BY <1>1, <3>2, PushedType DEF ReceiveInvariant, PushUnderWay
    <2> QED
      BY <1>5, <1>8, <2>1
  <1>10. PushUnderWay'
    BY <1>1, <1>2, <1>3, <1>4, <1>9 DEF PushUnderWay
  <1>11. SizeIsThere'
    BY <1>1, <1>4, <1>7 DEF ReceiveInvariant, SizeIsThere, parserVars
  <1> QED
    BY <1>5, <1>6, <1>10, <1>11 DEF ReceiveInvariant

\* The overwriting push leaves the ring full, whether it had to or not.
LEMMA OverwriteKeeps ==
    ASSUME ReceiveInvariant, TypeOK', Overwrite
    PROVE  ReceiveInvariant'
  <1>1. /\ UNCHANGED <<ring, received, chunk, parserVars>> /\ reader = "lock" /\ stores = {}
        /\ mutex = "free" /\ mutex' = "reader"
        /\ BeginPush(stores') /\ stores' = {"data", "tail", "head"}
    BY DEF Overwrite, BeginPush, ReceiveInvariant, MutualExclusion
  <1>2. reader' = "store" /\ head' = head /\ tail' = tail /\ at' = tail
    BY <1>1 DEF BeginPush, ring
  <1>3. /\ TailAfterPush' = End' /\ End' = Advanced(tail, Len(chunk))
        /\ Pushed' = received' /\ Pushed = received - Len(chunk)
        /\ ChunkNumbered' /\ MemoryNumbered'
    BY <1>1, BeginPushNumbers
  <1>4. MutualExclusion' /\ parser \notin {"pop", "take"} /\ takes = {}
    BY <1>1, <1>2 DEF ReceiveInvariant, MutualExclusion, parserVars
  <1>5. Waiting' = MaxBufferSize - 1
    <2>1. Waiting' = DataAvailable(HeadAfterOverwrite(End'), End')
      BY <1>1, <1>3 DEF Waiting, HeadAfterPush
    <2>2. End' \in Slots
      <3>1. tail \in Slots /\ Len(chunk) \in 0 .. MaxBufferSize - 1 /\ MaxBufferSize \in Nat
        BY ChunkType, MaxReadType DEF ReceiveInvariant, TypeOK
      <3>2. Len(chunk) \in 0 .. MaxBufferSize
        BY <3>1
      <3> QED
        BY <1>3, <3>1, <3>2, AdvancedType
    <2> QED
      BY <2>1, <2>2, OverwrittenSize
  <1>6. Waiting' <= Pushed'
    <2>1. MaxBufferSize <= received /\ received' = received
      BY <1>1 DEF ReceiveInvariant, PushUnderWay
    <2>2. received \in Nat /\ MaxBufferSize \in Nat
      BY PushedType, MaxReadType DEF ReceiveInvariant
    <2> QED
      BY <1>3, <1>5, <2>1, <2>2
  <1>7. PushUnderWay'
    BY <1>1, <1>2, <1>3, <1>5, <1>6 DEF PushUnderWay
  <1>8. Ready' = MaxBufferSize - 1 /\ Ready <= Ready'
    <2>1. Ready' = MaxBufferSize - 1
      BY <1>1 DEF Ready
    <2>2. Ready \in 0 .. MaxBufferSize - 1 /\ MaxBufferSize \in Nat
      BY RingType, MaxReadType DEF ReceiveInvariant
    <2> QED
      BY <2>1, <2>2
  <1>9. SizeIsThere'
    BY <1>1, <1>2, <1>8, SizeStays
  <1> QED
    BY <1>3, <1>4, <1>7, <1>9 DEF ReceiveInvariant

\* The stores of a push change the ring, but not what it will be.
LEMMA StoresKeepRing ==
    ASSUME ReceiveInvariant, StoreData \/ StoreTail \/ StoreHead
    PROVE  /\ HeadAfterPush' = HeadAfterPush /\ TailAfterPush' = TailAfterPush /\ End' = End
           /\ BytesAfterPush' = BytesAfterPush /\ Waiting' = Waiting /\ Pushed' = Pushed
  <1>1. UNCHANGED <<mutex, received, reader, chunk, at, parserVars, history>>
    BY DEF StoreData, StoreTail, StoreHead, Store
  <1>2. Pushed' = Pushed /\ End' = End
    BY <1>1 DEF Pushed, End
  <1>3. CASE StoreData
    <2>1. /\ "data" \in stores /\ stores' = stores \ {"data"} /\ head' = head /\ tail' = tail
          /\ pBuffer' = Stored(pBuffer, at, chunk)
      BY <1>3 DEF StoreData, Store
    <2>2. BytesAfterPush' = BytesAfterPush
      BY <1>1, <2>1 DEF BytesAfterPush
    <2>3. HeadAfterPush' = HeadAfterPush /\ TailAfterPush' = TailAfterPush
      BY <1>2, <2>1 DEF HeadAfterPush, TailAfterPush
    <2> QED
      BY <1>2, <2>2, <2>3 DEF Waiting
  <1>4. CASE StoreTail
    <2>1. /\ "tail" \in stores /\ stores' = stores \ {"tail"} /\ head' = head
          /\ pBuffer' = pBuffer /\ tail' = End
      BY <1>4 DEF StoreTail, Store, End
    <2>2. BytesAfterPush' = BytesAfterPush
      BY <1>1, <2>1 DEF BytesAfterPush
    <2>3. HeadAfterPush' = HeadAfterPush /\ TailAfterPush' = TailAfterPush
      BY <1>2, <2>1 DEF HeadAfterPush, TailAfterPush
    <2> QED
      BY <1>2, <2>2, <2>3 DEF Waiting
  <1>5. CASE StoreHead
    <2>1. /\ "head" \in stores /\ stores' = stores \ {"head"} /\ tail' = tail
          /\ pBuffer' = pBuffer /\ head' = HeadAfterOverwrite(End)
      BY <1>5 DEF StoreHead, Store, End
    <2>2. BytesAfterPush' = BytesAfterPush
      BY <1>1, <2>1 DEF BytesAfterPush
    <2>3. HeadAfterPush' = HeadAfterPush /\ TailAfterPush' = TailAfterPush
      BY <1>2, <2>1 DEF HeadAfterPush, TailAfterPush
    <2> QED
      BY <1>2, <2>2, <2>3 DEF Waiting
  <1> QED
    BY <1>3, <1>4, <1>5

LEMMA StoresKeep ==
    ASSUME ReceiveInvariant, TypeOK', StoreData \/ StoreTail \/ StoreHead
    PROVE  ReceiveInvariant'
  <1>1. /\ UNCHANGED <<mutex, received, reader, chunk, at, parserVars>>
        /\ stores' \subseteq stores /\ stores # {} /\ reader = "store"
    BY DEF StoreData, StoreTail, StoreHead, Store, ReceiveInvariant, MutualExclusion
  <1>2. MutualExclusion'
    BY <1>1 DEF ReceiveInvariant, MutualExclusion, parserVars
  <1>3. ChunkNumbered'
    BY <1>1 DEF ReceiveInvariant, ChunkNumbered
  <1>4. MemoryNumbered'
    BY StoresKeepRing DEF ReceiveInvariant, MemoryNumbered
  <1>5. "tail" \in stores' => tail' = tail
    BY DEF StoreData, StoreTail, StoreHead, Store
  <1>6. head' = head \/ mutex = "reader"
    BY DEF StoreData, StoreTail, StoreHead, Store, ReceiveInvariant, MutualExclusion
  <1>7. PushUnderWay'
    BY <1>1, <1>5, <1>6, StoresKeepRing DEF ReceiveInvariant, PushUnderWay
  <1>8. Ready <= Ready'
    <2>1. /\ Ready \in Nat /\ Waiting \in Nat /\ Len(chunk) \in Nat /\ MaxBufferSize \in Nat
      <3>1. /\ Ready \in 0 .. MaxBufferSize - 1 /\ Waiting \in 0 .. MaxBufferSize - 1
            /\ MaxBufferSize \in Nat /\ Len(chunk) \in Nat
        BY RingType, PushedType, MaxReadType DEF ReceiveInvariant
      <3> QED
        BY <3>1
    <2>2. CASE Ready' = Ready
      BY <2>1, <2>2
    <2>3. CASE Ready' # Ready
      <3>1. mutex # "reader" /\ StoreTail /\ "tail" \in stores
        BY <1>1, <1>6, <2>3 DEF Ready, StoreData, StoreTail, StoreHead, Store
      <3>2. /\ HeadAfterPush = head /\ Waiting = Ready + Len(chunk) /\ TailAfterPush = End
        BY <3>1, PlainPushSizes DEF ReceiveInvariant
      <3>3. Ready' = Waiting
        BY <1>1, <3>1, <3>2 DEF Ready, Waiting, StoreTail, End
      <3> QED
        BY <2>1, <3>2, <3>3
    <2> QED
      BY <2>2, <2>3
  <1>9. head' = head \/ (Ready' = MaxBufferSize - 1 /\ takes = {})
    BY <1>1, <1>6 DEF Ready, ReceiveInvariant, MutualExclusion
  <1>10. SizeIsThere'
    BY <1>1, <1>8, <1>9, SizeStays
  <1> QED
    BY <1>2, <1>3, <1>4, <1>7, <1>10 DEF ReceiveInvariant

LEMMA PushDoneKeeps ==
    ASSUME ReceiveInvariant, TypeOK', PushDone
    PROVE  ReceiveInvariant'
  <1>1. /\ UNCHANGED <<head, tail, pBuffer, received, chunk, at, stores, parserVars>>
        /\ reader = "store" /\ reader' = "read" /\ stores = {} /\ mutex' # "reader"
        /\ mutex' = mutex \/ (mutex = "reader" /\ mutex' = "free")
    BY DEF PushDone, ring
  <1>2. MutualExclusion'
    BY <1>1 DEF ReceiveInvariant, MutualExclusion, parserVars
  <1>3. ChunkNumbered'
    BY <1>1 DEF ChunkNumbered
  <1>4. /\ TailAfterPush' = TailAfterPush /\ BytesAfterPush' = BytesAfterPush
        /\ Waiting' = Waiting /\ Pushed' = Pushed /\ Waiting = DataAvailable(head, tail)
    BY <1>1 DEF TailAfterPush, HeadAfterPush, BytesAfterPush, Waiting, Pushed
  <1>5. PushUnderWay'
    BY <1>1, <1>4 DEF ReceiveInvariant, PushUnderWay
  <1>6. Ready' = Ready
    <2>1. mutex = "reader" => Waiting = MaxBufferSize - 1
      BY DEF ReceiveInvariant, PushUnderWay
    <2> QED
      BY <1>1, <1>4, <2>1 DEF Ready
  <1>7. SizeIsThere'
    BY <1>1, <1>6 DEF ReceiveInvariant, SizeIsThere, parserVars
  <1>8. MemoryNumbered'
    BY <1>4 DEF ReceiveInvariant, MemoryNumbered
  <1> QED
    BY <1>2, <1>3, <1>5, <1>7, <1>8 DEF ReceiveInvariant

LEMMA InvariantStep == ReceiveInvariant /\ [Next]_vars => ReceiveInvariant'
  <1> SUFFICES ASSUME ReceiveInvariant, [Next]_vars
               PROVE  ReceiveInvariant'
    OBVIOUS
  <1>1. TypeOK'
    BY TypeStep DEF ReceiveInvariant
  <1>2. CASE ReadThread
    BY <1>1, <1>2, ReadKeeps, CheckSpaceKeeps, PushKeeps, OverwriteKeeps, StoresKeep, PushDoneKeeps
    DEF ReadThread
  <1>3. CASE ParserThread
    BY <1>1, <1>3, LoadHeadKeeps, LoadTailKeeps, LockRingKeeps, PopKeeps, CopyOutKeeps,
       AdvanceHeadKeeps, PopDoneKeeps
    DEF ParserThread
  <1>4. CASE UNCHANGED vars
    <2>1. UNCHANGED <<ring, readerVars, mutex, parserVars>> /\ head' = head
      BY <1>4 DEF vars, ring
    <2>2. MutualExclusion'
      BY <2>1 DEF ReceiveInvariant, MutualExclusion, readerVars, parserVars
    <2>3. SizeIsThere'
      BY <2>1, LooksKeepRing DEF ReceiveInvariant, SizeIsThere, parserVars
    <2> QED
      BY <1>1, <2>1, <2>2, <2>3, LooksKeep
  <1> QED
    BY <1>2, <1>3, <1>4 DEF Next

(* The invariant of the receiving side, for every ring, read and pop size  *)
(* and every number of bytes, in whatever order the stores become visible. *)
THEOREM ReceiveCorrect == Spec => []ReceiveInvariant
  BY InvariantInit, InvariantStep, PTL DEF Spec

(* The bytes ReadThread pushes without the mutex always fit, so that       *)
(* tc_push_buffer never refuses them, in whatever order the stores of the  *)
(* threads become visible.                                                 *)
THEOREM NoPushRefused == Spec => []PushNeverRefused
  <1>1. ReceiveInvariant => PushNeverRefused
    <2> SUFFICES ASSUME ReceiveInvariant, reader = "push"
                 PROVE  FreeSpace(head, tail) >= Len(chunk)
      BY DEF PushNeverRefused
    <2>1. Len(chunk) <= FreeSpace(head, tail)
      BY DEF ReceiveInvariant, PushUnderWay
    <2>2. Len(chunk) \in Nat /\ FreeSpace(head, tail) \in Int
      <3>1. /\ FreeSpace(head, tail) = MaxBufferSize - 1 - DataAvailable(head, tail)
            /\ DataAvailable(head, tail) \in 0 .. MaxBufferSize - 1
        BY SizesType DEF ReceiveInvariant, TypeOK
      <3>2. Len(chunk) \in Nat /\ MaxBufferSize \in Nat
        BY PushedType, MaxReadType DEF ReceiveInvariant
      <3> QED
        BY <3>1, <3>2
    <2> QED
      BY <2>1, <2>2
  <1> QED
    BY <1>1, ReceiveCorrect, PTL

(* The parser finds at least the bytes it computed from two unlocked       *)
(* loads, however often the ring is overwritten in between, in whatever    *)
(* order the stores become visible.                                        *)
THEOREM NoPopFails == Spec => []PopNeverFails
  <1>1. ReceiveInvariant => PopNeverFails
    <2> SUFFICES ASSUME ReceiveInvariant, parser = "pop"
                 PROVE  PopSucceeds
      BY DEF PopNeverFails
    <2>1. Ready = DataAvailable(head, tail) /\ size \in 1 .. Ready
      BY DEF ReceiveInvariant, MutualExclusion, SizeIsThere, Ready
    <2>2. /\ DataAvailable(head, tail) \in 0 .. MaxBufferSize - 1 /\ MaxBufferSize \in Nat
          /\ tail = head <=> DataAvailable(head, tail) = 0
      BY SizesType, MaxReadType DEF ReceiveInvariant, TypeOK
    <2>3. DataAvailable(head, tail) >= size /\ DataAvailable(head, tail) # 0
      BY <2>1, <2>2
    <2> QED
      BY <2>2, <2>3 DEF PopSucceeds
  <1> QED
    BY <1>1, ReceiveCorrect, PTL

(* Between pushes the ring holds consecutive bytes up to the last one      *)
(* pushed, even after an overwriting push that brought back bytes which    *)
(* were popped before.                                                     *)
THEOREM NewestKept == Spec => []RingHoldsNewest
  <1>1. ReceiveInvariant => RingHoldsNewest
    <2> SUFFICES ASSUME ReceiveInvariant, reader # "store", parser # "take"
                 PROVE  LET pushed == IF reader = "read" THEN received ELSE received - Len(chunk)
                            n      == DataAvailable(head, tail)
                        IN  Contents(pBuffer, head, tail) = [i \in 1 .. n |-> pushed - n + i]
      BY DEF RingHoldsNewest
    <2>1. Pushed = IF reader = "read" THEN received ELSE received - Len(chunk)
      BY DEF ReceiveInvariant, TypeOK, Pushed
    <2>2. /\ HeadAfterPush = head /\ TailAfterPush = tail /\ BytesAfterPush = pBuffer
          /\ Waiting = DataAvailable(head, tail)
      BY DEF ReceiveInvariant, MutualExclusion, HeadAfterPush, TailAfterPush, BytesAfterPush,
             Waiting
    <2>3. \A i \in 1 .. Waiting : pBuffer[SlotAfter(head, i - 1)] = Pushed - Waiting + i
      BY <2>2, RingNumbered DEF ReceiveInvariant, PushUnderWay
    <2>4. /\ Contents(pBuffer, head, tail) \in Seq(Value)
          /\ Len(Contents(pBuffer, head, tail)) = Waiting
          /\ \A i \in 1 .. Waiting :
                Contents(pBuffer, head, tail)[i] = pBuffer[SlotAfter(head, i - 1)]
      <3>1. pBuffer \in [Slots -> Value] /\ head \in Slots /\ tail \in Slots
        BY ChunkType DEF ReceiveInvariant, TypeOK
      <3>2. Reads(Contents(pBuffer, head, tail), Value, pBuffer, head, DataAvailable(head, tail))
        BY <3>1, ContentsAt, Zenon
      <3> QED
        BY <2>2, <3>2, Zenon DEF Reads
    <2>5. Contents(pBuffer, head, tail) \in [1 .. Waiting -> Value]
      BY <2>4, LenProperties
    <2>6. Contents(pBuffer, head, tail) = [i \in 1 .. Waiting |-> Pushed - Waiting + i]
      BY <2>3, <2>4, <2>5
    <2> QED
      BY <2>1, <2>2, <2>6
  <1> QED
    BY <1>1, ReceiveCorrect, PTL

-----------------------------------------------------------------------------
(* What the parser gets, when the threads see each other's stores in       *)
(* program order.                                                          *)

\* The number of bytes that have left the ring, and of those taken or lost.
Departed == Pushed - Waiting
Consumed == Departed + (IF takes = {"head"} THEN size ELSE 0)

ProgramOrder ==
    /\ "data" \in stores => "tail" \in stores
    /\ "copy" \in takes => "head" \in takes

TakenInOrder ==
    /\ ~stale => NoByteTwice /\ \A i \in 1 .. Len(got) : got[i] <= Consumed
    /\ ~overwritten => /\ Len(got) = Consumed
                       /\ \A i \in 1 .. Len(got) : got[i] = i

OrderInvariant == ProgramOrder /\ TakenInOrder

LEMMA ProgramOrderStep ==
    StoresInOrder /\ MutualExclusion /\ ProgramOrder /\ [Next]_vars => ProgramOrder'
  <1> SUFFICES ASSUME StoresInOrder, MutualExclusion, ProgramOrder, [Next]_vars
               PROVE  ProgramOrder'
    OBVIOUS
  <1>1. CASE StoreData \/ StoreTail \/ StoreHead
    BY <1>1 DEF StoreData, StoreTail, StoreHead, Store, ProgramOrder, parserVars
  <1>2. CASE Push \/ Overwrite
    BY <1>2 DEF Push, Overwrite, BeginPush, ProgramOrder, parserVars
  <1>3. CASE Pop \/ CopyOut \/ AdvanceHead
    BY <1>3 DEF Pop, CopyOut, AdvanceHead, ProgramOrder, readerVars
  <1>4. CASE Read \/ CheckSpace \/ PushDone
    BY <1>4 DEF Read, CheckSpace, PushDone, ProgramOrder, parserVars
  <1>5. CASE LoadHead \/ LoadTail \/ LockRing \/ PopDone \/ UNCHANGED vars
    BY <1>5
    DEF LoadHead, LoadTail, LockRing, PopDone, ProgramOrder, readerVars, parserVars, vars
  <1> QED
    BY <1>1, <1>2, <1>3, <1>4, <1>5 DEF Next, ReadThread, ParserThread

\* A pop copies the oldest bytes of the ring: the stores of a plain push
\* under way go to slots the pop does not read.
LEMMA CopiedBytes ==
    ASSUME ReceiveInvariant, ProgramOrder, "copy" \in takes
    PROVE  /\ "head" \in takes /\ size \in 1 .. Waiting
           /\ Taken(pBuffer, from, size) \in Seq(Value)
           /\ Len(Taken(pBuffer, from, size)) = size
           /\ \A i \in 1 .. size : Taken(pBuffer, from, size)[i] = Departed + i
  <1>1. /\ "head" \in takes /\ from = head /\ size \in 1 .. Ready /\ mutex = "parser"
        /\ HeadAfterPush = head
    BY DEF ReceiveInvariant, ProgramOrder, SizeIsThere, MutualExclusion, HeadAfterPush
  <1>2. /\ Ready \in 0 .. MaxBufferSize - 1 /\ Waiting \in 0 .. MaxBufferSize - 1
        /\ Ready <= Waiting /\ MaxBufferSize \in Nat /\ head \in Slots /\ tail \in Slots
        /\ Ready = DataAvailable(head, tail)
    BY <1>1, RingType, ReadyIsWaiting, MaxReadType DEF ReceiveInvariant, TypeOK, Ready
  <1>3. size \in 1 .. Waiting /\ size \in 0 .. MaxBufferSize - 1
    <2>1. size \in 1 .. Ready
      BY <1>1
    <2> QED
      BY <1>2, <2>1
  <1>4. /\ Taken(pBuffer, head, size) \in Seq(Value)
        /\ Len(Taken(pBuffer, head, size)) = size
        /\ \A i \in 1 .. size : Taken(pBuffer, head, size)[i] = pBuffer[SlotAfter(head, i - 1)]
    <2>1. pBuffer \in [Slots -> Value]
      BY ChunkType, Zenon DEF ReceiveInvariant
    <2>2. Reads(Taken(pBuffer, head, size), Value, pBuffer, head, size)
      BY <1>2, <1>3, <2>1, TakenAt, Zenon
    <2> QED
      BY <2>2, Zenon DEF Reads
  <1>5. ASSUME NEW i \in 1 .. size
        PROVE  BytesAfterPush[SlotAfter(head, i - 1)] = pBuffer[SlotAfter(head, i - 1)]
    <2>1. CASE "data" \notin stores
      BY <2>1 DEF BytesAfterPush
    <2>2. CASE "data" \in stores
      <3>1. "tail" \in stores /\ mutex # "reader" /\ BytesAfterPush = Stored(pBuffer, at, chunk)
        BY <1>1, <2>2 DEF ProgramOrder, BytesAfterPush
      <3>2. at = tail /\ Waiting = Ready + Len(chunk) /\ Len(chunk) \in 1 .. MaxBufferSize - 1
        BY <3>1, PlainPushSizes DEF ReceiveInvariant
      <3> DEFINE k == (MaxBufferSize - Ready) + (i - 1)
      <3>3. /\ k \in 0 .. MaxBufferSize - 1 /\ ~(k < Len(chunk)) /\ i - 1 \in 0 .. Ready - 1
            /\ Len(chunk) < MaxBufferSize
        <4>1. size \in 1 .. Ready
          BY <1>1
        <4> QED
          <5> DEFINE l == Len(chunk)
          <5>1. /\ i \in 1 .. size /\ size \in 1 .. Ready /\ Ready \in 0 .. MaxBufferSize - 1
                /\ Waiting \in 0 .. MaxBufferSize - 1 /\ MaxBufferSize \in Nat
                /\ Waiting = Ready + l /\ l \in 1 .. MaxBufferSize - 1
            BY <1>2, <3>2, <4>1, Zenon
          <5> HIDE DEF l
          <5>2. /\ k \in 0 .. MaxBufferSize - 1 /\ ~(k < l) /\ i - 1 \in 0 .. Ready - 1
                /\ l < MaxBufferSize
            BY <5>1
          <5> QED
            BY <5>2, Zenon DEF l
      <3>4. tail = SlotAfter(head, Ready)
        BY <1>2, SizesType
      <3>5. SlotAfter(head, i - 1) = SlotAfter(tail, k)
        <4>1. SlotAfter(head, i - 1)
                  = SlotAfter(SlotAfter(head, Ready), MaxBufferSize - Ready + (i - 1))
          BY <1>2, <3>3, SlotBehind, Zenon
        <4> QED
          BY <3>4, <4>1
      <3> HIDE DEF k
      <3>6. Stored(pBuffer, tail, chunk)[SlotAfter(tail, k)] = pBuffer[SlotAfter(tail, k)]
        <4>1. pBuffer \in [Slots -> Value] /\ chunk \in Seq(Value)
          BY ChunkType, Zenon DEF ReceiveInvariant
        <4>2. IsStored(Stored(pBuffer, tail, chunk), Value, pBuffer, tail, chunk)
          BY <1>2, <3>3, <4>1, StoredAt, Zenon
        <4> QED
          BY <3>3, <4>2, Zenon DEF IsStored
      <3> QED
        BY <3>1, <3>2, <3>5, <3>6
    <2> QED
      BY <2>1, <2>2
  <1>6. \A i \in 1 .. Waiting : BytesAfterPush[SlotAfter(head, i - 1)] = Pushed - Waiting + i
    BY <1>1, RingNumbered DEF ReceiveInvariant, PushUnderWay
  <1>7. ASSUME NEW i \in 1 .. size
        PROVE  Taken(pBuffer, head, size)[i] = Departed + i
    <2>1. i \in 1 .. Waiting
      BY <1>2, <1>3
    <2> QED
      BY <1>4, <1>5, <1>6, <2>1 DEF Departed
  <1> QED
    BY <1>1, <1>3, <1>4, <1>7

LEMMA PushedStays ==
    ASSUME ReceiveInvariant, [Next]_vars, ~Push, ~Overwrite
    PROVE  Pushed' = Pushed
  <1>1. CASE Read
    <2>1. PICK n \in 1 .. Least(MaxRead, StreamLength - received) :
              chunk' = [i \in 1 .. n |-> received + i] /\ received' = received + n
      BY <1>1 DEF Read
    <2>2. n \in Nat /\ received \in Nat
      <3>1. received \in 0 .. StreamLength /\ StreamLength \in Nat /\ MaxRead \in Nat
        BY ConstantsType, MaxReadType DEF ReceiveInvariant, TypeOK
      <3> QED
        BY <3>1 DEF Least
    <2>3. received' - Len(chunk') = received
      BY <2>1, <2>2
    <2> QED
      BY <1>1, <2>3 DEF Read, Pushed
  <1>2. CASE CheckSpace
    <2>1. reader = "check" /\ reader' \in {"lock", "push"} /\ UNCHANGED <<received, chunk>>
      BY <1>2 DEF CheckSpace
    <2> QED
      BY <2>1 DEF Pushed
  <1>3. CASE StoreData \/ StoreTail \/ StoreHead
    BY <1>3, StoresKeepRing
  <1>4. CASE PushDone
    BY <1>4 DEF PushDone, Pushed
  <1>5. CASE ParserThread \/ UNCHANGED vars
    BY <1>5 DEF ParserThread, LoadHead, LoadTail, LockRing, Pop, CopyOut, AdvanceHead, PopDone,
                vars, readerVars, Pushed
  <1> QED
    BY <1>1, <1>2, <1>3, <1>4, <1>5 DEF Next, ReadThread

\* The steps that neither push, nor take, nor give up a byte.
LEMMA ConsumedStays ==
    ASSUME OrderInvariant, UNCHANGED history, Consumed' = Consumed, ProgramOrder'
    PROVE  OrderInvariant'
  <1>1. got' = got /\ overwritten' = overwritten /\ stale' = stale
    BY DEF history
  <1>2. NoByteTwice => NoByteTwice'
    BY <1>1 DEF NoByteTwice
  <1> QED
    BY <1>1, <1>2 DEF OrderInvariant, TakenInOrder

\* A push that keeps the ring's bytes loses none; one that overwrites although
\* the bytes would not fit loses some that were not taken.
LEMMA PushCounts ==
    ASSUME ReceiveInvariant, Push
    PROVE  /\ UNCHANGED history /\ Consumed' = Consumed
           /\ Pushed' = Pushed + Len(chunk) /\ Waiting' = Waiting + Len(chunk)
           /\ takes' = takes /\ size' = size
  <1>1. /\ reader = "push" /\ stores = {} /\ UNCHANGED <<head, tail, chunk, parserVars, history>>
        /\ received' = received
    BY DEF Push, ring, ReceiveInvariant, MutualExclusion
  <1>2. Len(chunk) <= FreeSpace(head, tail)
    BY <1>1 DEF ReceiveInvariant, PushUnderWay
  <1>3. /\ head \in Slots /\ tail \in Slots /\ Len(chunk) \in 1 .. MaxBufferSize - 1
        /\ MaxBufferSize \in Nat /\ Len(chunk) \in Nat /\ received \in Nat
        /\ Pushed = received - Len(chunk)
    <2>1. /\ Len(chunk) \in 0 .. MaxBufferSize - 1 /\ Len(chunk) >= 1 /\ MaxBufferSize \in Nat
          /\ received \in Nat /\ Len(chunk) \in Nat /\ Pushed = received - Len(chunk)
      BY <1>1, ChunkType, PushedType, MaxReadType DEF ReceiveInvariant
    <2>2. Len(chunk) \in 1 .. MaxBufferSize - 1
      BY <2>1
    <2> QED
      BY <2>1, <2>2 DEF ReceiveInvariant, TypeOK
  <1>4. /\ FreeSpace(head, tail) = MaxBufferSize - 1 - DataAvailable(head, tail)
        /\ DataAvailable(head, tail) \in 0 .. MaxBufferSize - 1
    BY <1>3, SizesType
  <1>5. FreeSpace(head, tail) >= Len(chunk)
    BY <1>2, <1>3, <1>4
  <1>6. stores' = {"data", "tail"} /\ at' = tail /\ reader' = "store"
    BY <1>5 DEF Push, BeginPush
  <1>7. Waiting = DataAvailable(head, tail)
    BY <1>1 DEF Waiting, HeadAfterPush, TailAfterPush
  <1>8. Waiting' = DataAvailable(head, Advanced(tail, Len(chunk))) /\ Pushed' = received
    BY <1>1, <1>6 DEF Waiting, HeadAfterPush, TailAfterPush, End, Pushed
  <1>9. Waiting' = Waiting + Len(chunk)
    BY <1>2, <1>3, <1>7, <1>8, PushedSize
  <1>10. Departed' = Departed
    <2>1. Waiting \in Int
      BY <1>4, <1>7
    <2> QED
      BY <1>3, <1>8, <1>9, <2>1 DEF Departed
  <1>11. Consumed' = Consumed
    BY <1>1, <1>10 DEF Consumed, parserVars
  <1>12. Pushed' = Pushed + Len(chunk)
    BY <1>3, <1>8
  <1> QED
    BY <1>1, <1>9, <1>11, <1>12 DEF parserVars

LEMMA PushTakes ==
    ASSUME ReceiveInvariant, OrderInvariant, Push, ProgramOrder'
    PROVE  OrderInvariant'
  BY PushCounts, ConsumedStays

LEMMA OverwriteCounts ==
    ASSUME ReceiveInvariant, Overwrite
    PROVE  /\ UNCHANGED got /\ takes = {} /\ takes' = {}
           /\ Pushed' = Pushed + Len(chunk) /\ Waiting' = MaxBufferSize - 1
  <1>1. /\ reader = "lock" /\ stores = {} /\ takes = {} /\ takes' = takes /\ got' = got
        /\ UNCHANGED <<head, tail, chunk>> /\ received' = received
        /\ overwritten' = TRUE /\ stale' = (stale \/ Len(chunk) <= FreeSpace(head, tail))
        /\ stores' = {"data", "tail", "head"} /\ at' = tail /\ reader' = "store"
    BY DEF Overwrite, BeginPush, ring, parserVars, ReceiveInvariant, MutualExclusion
  <1>2. /\ head \in Slots /\ tail \in Slots /\ MaxBufferSize \in Nat /\ Len(chunk) \in Nat
        /\ received \in Nat /\ Pushed = received - Len(chunk)
    BY <1>1, PushedType, MaxReadType DEF ReceiveInvariant, TypeOK
  <1>3. /\ FreeSpace(head, tail) = MaxBufferSize - 1 - DataAvailable(head, tail)
        /\ DataAvailable(head, tail) \in 0 .. MaxBufferSize - 1
    BY <1>2, SizesType
  <1>4. Waiting = DataAvailable(head, tail) /\ Pushed' = received
    BY <1>1 DEF Waiting, HeadAfterPush, TailAfterPush, Pushed
  <1>5. Waiting' = MaxBufferSize - 1
    <2>1. Waiting' = DataAvailable(HeadAfterOverwrite(Advanced(tail, Len(chunk))),
                                   Advanced(tail, Len(chunk)))
      BY <1>1 DEF Waiting, HeadAfterPush, TailAfterPush, End
    <2>2. Advanced(tail, Len(chunk)) \in Slots
      <3>1. Len(chunk) \in 0 .. MaxBufferSize - 1
        BY ChunkType DEF ReceiveInvariant
      <3>2. Len(chunk) \in 0 .. MaxBufferSize
        BY <1>2, <3>1
      <3> QED
        BY <1>2, <3>2, AdvancedType
    <2> QED
      BY <2>1, <2>2, OverwrittenSize
  <1>6. Pushed' = Pushed + Len(chunk)
    BY <1>2, <1>4
  <1> QED
    BY <1>1, <1>5, <1>6

LEMMA OverwriteTakes ==
    ASSUME ReceiveInvariant, OrderInvariant, Overwrite, ProgramOrder'
    PROVE  OrderInvariant'
  <1>1. /\ reader = "lock" /\ stores = {} /\ takes = {} /\ takes' = takes /\ got' = got
        /\ UNCHANGED <<head, tail, chunk>> /\ received' = received
        /\ overwritten' = TRUE /\ stale' = (stale \/ Len(chunk) <= FreeSpace(head, tail))
        /\ stores' = {"data", "tail", "head"} /\ at' = tail /\ reader' = "store"
    BY DEF Overwrite, BeginPush, ring, parserVars, ReceiveInvariant, MutualExclusion
  <1>2. /\ head \in Slots /\ tail \in Slots /\ MaxBufferSize \in Nat /\ Len(chunk) \in Nat
        /\ received \in Nat /\ Pushed = received - Len(chunk)
    BY <1>1, PushedType, MaxReadType DEF ReceiveInvariant, TypeOK
  <1>3. /\ FreeSpace(head, tail) = MaxBufferSize - 1 - DataAvailable(head, tail)
        /\ DataAvailable(head, tail) \in 0 .. MaxBufferSize - 1
    BY <1>2, SizesType
  <1>4. Waiting = DataAvailable(head, tail) /\ Pushed' = received
    BY <1>1 DEF Waiting, HeadAfterPush, TailAfterPush, Pushed
  <1>5. Waiting' = MaxBufferSize - 1
    BY OverwriteCounts
  <1>6. ASSUME ~stale'
        PROVE  Consumed <= Consumed' /\ Consumed \in Int /\ Consumed' \in Int
    <2>1. ~(Len(chunk) <= FreeSpace(head, tail))
      BY <1>1, <1>6
    <2>2. Departed <= Departed' /\ Departed \in Int /\ Departed' \in Int
      BY <1>2, <1>3, <1>4, <1>5, <2>1 DEF Departed
    <2>3. takes # {"head"} /\ takes' # {"head"}
      BY <1>1
    <2>4. Consumed = Departed + 0
      BY <2>3 DEF Consumed
    <2>5. Consumed' = Departed' + 0
      BY <2>3 DEF Consumed
    <2>6. \A d \in Int : d + 0 = d
      OBVIOUS
    <2>7. Consumed = Departed /\ Consumed' = Departed'
      BY <2>2, <2>4, <2>5, <2>6, Zenon
    <2> QED
      BY <2>2, <2>7
  <1>7. ASSUME ~stale', NEW i \in 1 .. Len(got)
        PROVE  got[i] <= Consumed'
    <2>1. ~stale
      BY <1>1, <1>7
    <2>2. got[i] <= Consumed
      BY <2>1 DEF OrderInvariant, TakenInOrder
    <2>3. got[i] \in Int
      <3>1. got \in Seq(0 .. StreamLength)
        BY DEF ReceiveInvariant, TypeOK
      <3>2. got[i] \in 0 .. StreamLength
        BY <3>1, ElementOfSeq
      <3> QED
        BY <3>2, ConstantsType
    <2> QED
      BY <1>6, <1>7, <2>2, <2>3
  <1>8. ~stale' => NoByteTwice'
    BY <1>1 DEF OrderInvariant, TakenInOrder, NoByteTwice
  <1> QED
    BY <1>1, <1>7, <1>8 DEF OrderInvariant, TakenInOrder

\* The copy of a pop appends the bytes after those taken or lost.
LEMMA CopyOutCounts ==
    ASSUME ReceiveInvariant, ProgramOrder, CopyOut
    PROVE  LET new == Taken(pBuffer, from, size)
           IN  /\ got' = got \o new /\ Pushed' = Pushed
               /\ Consumed' = Consumed + size /\ size \in 1 .. Pushed - Consumed
               /\ new \in Seq(Value) /\ Len(new) = size
               /\ \A i \in 1 .. size : new[i] = Consumed + i
  <1> DEFINE new == Taken(pBuffer, from, size)
  <1>1. /\ "copy" \in takes /\ takes' = takes \ {"copy"} /\ takes \subseteq {"copy", "head"}
        /\ got' = got \o new /\ overwritten' = overwritten /\ stale' = stale
        /\ UNCHANGED <<ring, readerVars, size>>
    BY DEF CopyOut, ReceiveInvariant, TypeOK
  <1>2. /\ "head" \in takes /\ size \in 1 .. Waiting /\ new \in Seq(Value) /\ Len(new) = size
        /\ \A i \in 1 .. size : new[i] = Departed + i
    BY <1>1, CopiedBytes
  <1>3. takes # {"head"} /\ takes' = {"head"}
    <2>1. takes = {"copy", "head"} /\ "copy" # "head"
      BY <1>1, <1>2
    <2> QED
      BY <1>1, <2>1
  <1>4. /\ Departed \in Nat /\ Waiting \in 0 .. MaxBufferSize - 1 /\ MaxBufferSize \in Nat
    <2>1. /\ Waiting \in 0 .. MaxBufferSize - 1 /\ MaxBufferSize \in Nat /\ Pushed \in Nat
          /\ Waiting <= Pushed
      BY RingType, PushedType, MaxReadType DEF ReceiveInvariant, PushUnderWay
    <2> QED
      BY <2>1 DEF Departed
  <1>5. Departed' = Departed
    BY <1>1 DEF Departed, Pushed, Waiting, HeadAfterPush, TailAfterPush, End, ring, readerVars
  <1>6. Consumed = Departed /\ Consumed' = Departed + size /\ size \in Nat
    <2>1. Consumed = Departed + 0 /\ Consumed' = Departed + size
      BY <1>1, <1>3, <1>5 DEF Consumed
    <2>2. size \in Nat
      BY <1>2, <1>4
    <2> QED
      BY <1>4, <2>1, <2>2
  <1>7. Pushed' = Pushed
    BY <1>1 DEF Pushed, readerVars
  <1>8. size \in 1 .. Pushed - Consumed
    <2>1. Pushed - Consumed = Waiting
      <3>1. Pushed \in Nat /\ Departed = Pushed - Waiting
        BY PushedType DEF ReceiveInvariant, Departed
      <3> QED
        BY <1>4, <1>6, <3>1
    <2> QED
      BY <1>2, <2>1
  <1> HIDE DEF new
  <1>9. /\ got' = got \o new /\ Consumed' = Consumed + size
        /\ new \in Seq(Value) /\ Len(new) = size
        /\ \A i \in 1 .. size : new[i] = Consumed + i
    BY <1>1, <1>2, <1>6
  <1> QED
    BY <1>7, <1>8, <1>9 DEF new

LEMMA CopyOutTakes ==
    ASSUME ReceiveInvariant, OrderInvariant, CopyOut, ProgramOrder'
    PROVE  OrderInvariant'
  <1> DEFINE new == Taken(pBuffer, from, size)
  <1>1. /\ "copy" \in takes /\ takes' = takes \ {"copy"} /\ takes \subseteq {"copy", "head"}
        /\ got' = got \o new /\ overwritten' = overwritten /\ stale' = stale
        /\ UNCHANGED <<ring, readerVars, size>>
    BY DEF CopyOut, ReceiveInvariant, TypeOK
  <1>2. /\ "head" \in takes /\ size \in 1 .. Waiting /\ new \in Seq(Value) /\ Len(new) = size
        /\ \A i \in 1 .. size : new[i] = Departed + i
    BY <1>1, CopiedBytes DEF OrderInvariant
  <1>3. takes # {"head"} /\ takes' = {"head"}
    <2>1. takes = {"copy", "head"} /\ "copy" # "head"
      BY <1>1, <1>2
    <2> QED
      BY <1>1, <2>1
  <1>4. /\ Departed \in Nat /\ Waiting \in 0 .. MaxBufferSize - 1 /\ MaxBufferSize \in Nat
    <2>1. /\ Waiting \in 0 .. MaxBufferSize - 1 /\ MaxBufferSize \in Nat /\ Pushed \in Nat
          /\ Waiting <= Pushed
      BY RingType, PushedType, MaxReadType DEF ReceiveInvariant, PushUnderWay
    <2> QED
      BY <2>1 DEF Departed
  <1>5. Departed' = Departed
    BY <1>1 DEF Departed, Pushed, Waiting, HeadAfterPush, TailAfterPush, End, ring, readerVars
  <1>6. Consumed = Departed /\ Consumed' = Departed + size /\ size \in Nat
    <2>1. Consumed = Departed + 0 /\ Consumed' = Departed + size
      BY <1>1, <1>3, <1>5 DEF Consumed
    <2>2. size \in Nat
      BY <1>2, <1>4
    <2> QED
      BY <1>4, <2>1, <2>2
  <1>7. got \in Seq(Value) /\ Len(got) \in Nat /\ \A i \in 1 .. Len(got) : got[i] \in Nat
    <2>1. got \in Seq(Value)
      BY DEF ReceiveInvariant, TypeOK, Value
    <2>2. \A i \in 1 .. Len(got) : got[i] \in Value
      BY <2>1, ElementOfSeq
    <2> QED
      BY <2>1, <2>2, ConstantsType DEF Value
  <1> HIDE DEF new
  <1>8. /\ Len(got') = Len(got) + size
        /\ \A i \in 1 .. Len(got) : got'[i] = got[i]
        /\ \A i \in Len(got) + 1 .. Len(got) + size : got'[i] = Departed + (i - Len(got))
    <2>1. /\ Len(got') = Len(got) + size
          /\ \A i \in 1 .. Len(got) + size :
                got'[i] = IF i <= Len(got) THEN got[i] ELSE new[i - Len(got)]
      <3>1. got' = got \o new /\ got \in Seq(Value) /\ new \in Seq(Value) /\ Len(new) = size
        BY <1>1, <1>2, <1>7
      <3>2. IsConcat(got', Value, got, new)
        BY <3>1, ConcatOfSeqs, Zenon
      <3> QED
        BY <3>1, <3>2, Zenon DEF IsConcat
    <2>2. ASSUME NEW i \in 1 .. Len(got)
          PROVE  got'[i] = got[i]
      BY <1>6, <1>7, <2>1
    <2>3. ASSUME NEW i \in Len(got) + 1 .. Len(got) + size
          PROVE  got'[i] = Departed + (i - Len(got))
      <3>1. i - Len(got) \in 1 .. size /\ i \in 1 .. Len(got) + size /\ ~(i <= Len(got))
        BY <1>6, <1>7
      <3> QED
        BY <1>2, <2>1, <3>1
    <2> QED
      BY <2>1, <2>2, <2>3
  <1>9. ASSUME ~stale
        PROVE  NoByteTwice' /\ \A i \in 1 .. Len(got') : got'[i] <= Consumed'
    <2>1. NoByteTwice /\ \A i \in 1 .. Len(got) : got[i] <= Departed
      BY <1>6, <1>9 DEF OrderInvariant, TakenInOrder
    <2>2. ASSUME NEW i \in 1 .. Len(got')
          PROVE  got'[i] <= Consumed'
      <3>1. CASE i \in 1 .. Len(got)
        BY <1>4, <1>6, <1>7, <1>8, <2>1, <3>1
      <3>2. CASE i \in Len(got) + 1 .. Len(got) + size
        BY <1>4, <1>6, <1>7, <1>8, <3>2
      <3> QED
        BY <1>6, <1>7, <1>8, <3>1, <3>2
    <2>3. ASSUME NEW i \in 1 .. Len(got') - 1
          PROVE  got'[i] < got'[i + 1]
      <3>1. CASE i + 1 <= Len(got)
        <4>1. i \in 1 .. Len(got) - 1 /\ i \in 1 .. Len(got) /\ i + 1 \in 1 .. Len(got)
          BY <1>6, <1>7, <1>8, <3>1
        <4> QED
          BY <1>8, <2>1, <4>1 DEF NoByteTwice
      <3>2. CASE i = Len(got)
        <4>1. i \in 1 .. Len(got) /\ i + 1 \in Len(got) + 1 .. Len(got) + size
          BY <1>6, <1>7, <1>8, <3>2
        <4>2. got'[i] = got[i] /\ got[i] <= Departed /\ got[i] \in Nat
          BY <1>7, <1>8, <2>1, <4>1
        <4>3. got'[i + 1] = Departed + ((i + 1) - Len(got)) /\ (i + 1) - Len(got) = 1
          BY <1>7, <1>8, <3>2, <4>1
        <4> QED
          BY <1>4, <4>2, <4>3
      <3>3. CASE i > Len(got)
        <4>1. /\ i \in Len(got) + 1 .. Len(got) + size
              /\ i + 1 \in Len(got) + 1 .. Len(got) + size
          BY <1>6, <1>7, <1>8, <3>3
        <4>2. /\ got'[i] = Departed + (i - Len(got))
              /\ got'[i + 1] = Departed + ((i + 1) - Len(got))
          BY <1>8, <4>1
        <4> QED
          BY <1>4, <1>7, <4>2
      <3> QED
        BY <1>6, <1>7, <1>8, <3>1, <3>2, <3>3
    <2> QED
      BY <2>2, <2>3 DEF NoByteTwice
  <1>10. ASSUME ~overwritten
         PROVE  Len(got') = Consumed' /\ \A i \in 1 .. Len(got') : got'[i] = i
    <2>1. Len(got) = Departed /\ \A i \in 1 .. Len(got) : got[i] = i
      BY <1>6, <1>10 DEF OrderInvariant, TakenInOrder
    <2>2. ASSUME NEW i \in 1 .. Len(got')
          PROVE  got'[i] = i
      <3>1. CASE i \in 1 .. Len(got)
        BY <1>8, <2>1, <3>1
      <3>2. CASE i \in Len(got) + 1 .. Len(got) + size
        BY <1>4, <1>6, <1>7, <1>8, <2>1, <3>2
      <3> QED
        BY <1>6, <1>7, <1>8, <3>1, <3>2
    <2> QED
      BY <1>6, <1>8, <2>1, <2>2
  <1> QED
    BY <1>1, <1>9, <1>10 DEF OrderInvariant, TakenInOrder

\* The bytes a pop gives up have been copied.
LEMMA AdvanceHeadCounts ==
    ASSUME ReceiveInvariant, StoresInOrder, AdvanceHead
    PROVE  UNCHANGED history /\ Consumed' = Consumed
  <1>1. /\ "head" \in takes /\ "copy" \notin takes /\ takes \subseteq {"copy", "head"}
        /\ takes' = takes \ {"head"} /\ UNCHANGED <<readerVars, history>>
    BY DEF AdvanceHead, ReceiveInvariant, TypeOK
  <1>2. takes = {"head"} /\ takes' # {"head"}
    BY <1>1
  <1>3. Waiting' = Waiting - size /\ Pushed' = Pushed /\ size \in 1 .. Ready
    BY <1>1, AdvanceHeadSizes DEF Pushed, readerVars
  <1>4. Waiting \in Int /\ Pushed \in Int /\ size \in Int
    <2>1. /\ Waiting \in 0 .. MaxBufferSize - 1 /\ Ready \in 0 .. MaxBufferSize - 1
          /\ MaxBufferSize \in Nat /\ Pushed \in Nat
      BY RingType, PushedType, MaxReadType DEF ReceiveInvariant
    <2> QED
      BY <1>3, <2>1
  <1>5. Departed' = Departed + size /\ Departed \in Int
    BY <1>3, <1>4 DEF Departed
  <1>6. Consumed = Departed + size /\ Consumed' = Departed' + 0
    BY <1>2 DEF Consumed
  <1>7. \A d \in Int : d + 0 = d
    OBVIOUS
  <1>8. Departed + size \in Int
    BY <1>4, <1>5
  <1>9. Consumed' = Consumed
    BY <1>5, <1>6, <1>7, <1>8, Zenon
  <1> QED
    BY <1>1, <1>9

\* Only a push or a copy changes what has been consumed or taken.
LEMMA CountsStay ==
    ASSUME StoresInOrder, ReceiveInvariant, [Next]_vars, ~Push, ~Overwrite, ~CopyOut
    PROVE  UNCHANGED history /\ Consumed' = Consumed
  <1>1. CASE AdvanceHead
    BY <1>1, AdvanceHeadCounts
  <1>2. CASE StoreData \/ StoreTail \/ StoreHead
    <2>1. Departed' = Departed /\ UNCHANGED <<parserVars, history>>
      BY <1>2, StoresKeepRing DEF Departed, StoreData, StoreTail, StoreHead, Store
    <2>2. Consumed' = Consumed
      BY <2>1 DEF Consumed, parserVars
    <2> QED
      BY <2>1, <2>2
  <1>3. CASE Read \/ CheckSpace \/ PushDone
    <2>1. Pushed' = Pushed
      BY <1>3, PushedStays DEF Read, CheckSpace, PushDone, Push, Overwrite
    <2>2. /\ UNCHANGED <<ring, at, stores, parserVars, history>>
          /\ stores = {}
      BY <1>3 DEF Read, CheckSpace, PushDone, ReceiveInvariant, MutualExclusion
    <2>3. Waiting' = Waiting
      BY <2>2 DEF Waiting, HeadAfterPush, TailAfterPush, ring
    <2>4. Consumed' = Consumed
      BY <2>1, <2>2, <2>3 DEF Consumed, Departed, parserVars
    <2> QED
      BY <2>2, <2>4
  <1>4. CASE LoadHead \/ LoadTail \/ LockRing \/ Pop \/ PopDone \/ UNCHANGED vars
    <2>1. /\ UNCHANGED <<ring, readerVars, history>>
          /\ \/ takes' # {"head"} /\ takes # {"head"}
             \/ UNCHANGED <<takes, size>>
      <3>1. CASE Pop
        <4>1. takes' = {"copy", "head"} \/ takes' = {}
          BY <3>1 DEF Pop
        <4>2. takes = {}
          BY <3>1 DEF Pop, ReceiveInvariant, MutualExclusion
        <4>3. {"copy", "head"} # {"head"} /\ {} # {"head"}
          OBVIOUS
        <4> QED
          BY <3>1, <4>1, <4>2, <4>3 DEF Pop
      <3>2. CASE LoadTail
        <4>1. takes = {} /\ takes' = takes
          BY <3>2 DEF LoadTail, ReceiveInvariant, MutualExclusion
        <4> QED
          BY <3>2, <4>1 DEF LoadTail
      <3>3. CASE LoadHead \/ LockRing \/ PopDone \/ UNCHANGED vars
        BY <3>3 DEF LoadHead, LockRing, PopDone, vars, parserVars
      <3> QED
        BY <1>4, <3>1, <3>2, <3>3
    <2>2. Departed' = Departed
      BY <2>1
      DEF Departed, Pushed, Waiting, HeadAfterPush, TailAfterPush, End, ring, readerVars
    <2>3. Consumed' = Consumed
      BY <2>1, <2>2 DEF Consumed
    <2> QED
      BY <2>1, <2>3
  <1> QED
    BY <1>1, <1>2, <1>3, <1>4 DEF Next, ReadThread, ParserThread

LEMMA OrderStep ==
    StoresInOrder /\ ReceiveInvariant /\ OrderInvariant /\ [Next]_vars => OrderInvariant'
  <1> SUFFICES ASSUME StoresInOrder, ReceiveInvariant, OrderInvariant, [Next]_vars
               PROVE  OrderInvariant'
    OBVIOUS
  <1>1. ProgramOrder'
    BY ProgramOrderStep DEF ReceiveInvariant, OrderInvariant
  <1>2. CASE Push \/ Overwrite \/ CopyOut
    BY <1>1, <1>2, PushTakes, OverwriteTakes, CopyOutTakes
  <1>3. CASE ~Push /\ ~Overwrite /\ ~CopyOut
    BY <1>1, <1>3, CountsStay, ConsumedStays
  <1> QED
    BY <1>2, <1>3

LEMMA OrderInit == Init => OrderInvariant
  <1> SUFFICES ASSUME Init
               PROVE  OrderInvariant
    OBVIOUS
  <1>1. got = << >> /\ stores = {} /\ takes = {}
    BY DEF Init
  <1>2. Consumed = 0
    <2>1. Departed = 0 - DataAvailable(0, 0) /\ takes # {"head"}
      BY <1>1 DEF Init, Departed, Pushed, Waiting, HeadAfterPush, TailAfterPush
    <2>2. Departed = 0
      BY <2>1 DEF DataAvailable
    <2>3. Consumed = Departed + 0
      BY <2>1 DEF Consumed
    <2> QED
      BY <2>2, <2>3
  <1>3. Len(got) = Consumed /\ NoByteTwice
    BY <1>1, <1>2 DEF NoByteTwice
  <1>4. 1 .. Len(got) = {}
    BY <1>1
  <1> QED
    BY <1>1, <1>3, <1>4 DEF OrderInvariant, ProgramOrder, TakenInOrder

LEMMA OrderCorrect == ASSUME StoresInOrder PROVE Spec => []OrderInvariant
  <1>1. ReceiveInvariant /\ OrderInvariant /\ [Next]_vars => OrderInvariant'
    BY OrderStep
  <1> QED
    BY <1>1, OrderInit, ReceiveCorrect, PTL DEF Spec

(* As long as the ring never overflowed the parser gets every byte once    *)
(* and in order, although the pushes take no lock: the only assumption is  *)
(* that each thread sees the stores of the other in program order.         *)
THEOREM OnlyOverflowLoses == ASSUME StoresInOrder PROVE Spec => []LossOnlyByOverflow
  <1>1. ReceiveInvariant /\ OrderInvariant => LossOnlyByOverflow
    <2> SUFFICES ASSUME ReceiveInvariant, OrderInvariant, ~overwritten
                 PROVE  got = [i \in 1 .. Len(got) |-> i]
      BY DEF LossOnlyByOverflow
    <2>1. got \in Seq(0 .. StreamLength)
      BY DEF ReceiveInvariant, TypeOK
    <2>2. got \in [1 .. Len(got) -> 0 .. StreamLength]
      BY <2>1, LenProperties
    <2>3. \A i \in 1 .. Len(got) : got[i] = i
      BY DEF OrderInvariant, TakenInOrder
    <2> QED
      BY <2>2, <2>3
  <1> QED
    BY <1>1, ReceiveCorrect, OrderCorrect, PTL

(* Overflows lose bytes, but bring none back: a byte can only reach the    *)
(* parser twice after an overwriting push whose free-space check was out   *)
(* of date when it got the mutex.                                          *)
THEOREM OnlyStaleRepeats == ASSUME StoresInOrder PROVE Spec => []RepeatsOnlyAfterStaleCheck
  <1>1. OrderInvariant => RepeatsOnlyAfterStaleCheck
    BY DEF OrderInvariant, TakenInOrder, RepeatsOnlyAfterStaleCheck
  <1> QED
    BY <1>1, OrderCorrect, PTL

(* Every pop takes consecutive bytes of the line: no push changes them     *)
(* while they are copied out, be it a plain or an overwriting one.         *)
THEOREM PopsWhole == ASSUME StoresInOrder PROVE Spec => NoTornPop
  <1>1. ReceiveInvariant /\ OrderInvariant /\ [Next]_vars =>
            [\A i \in Len(got) + 1 .. Len(got') - 1 : got'[i + 1] = got'[i] + 1]_vars
    <2> SUFFICES ASSUME ReceiveInvariant, OrderInvariant, [Next]_vars,
                        NEW i \in Len(got) + 1 .. Len(got') - 1
                 PROVE  got'[i + 1] = got'[i] + 1
      OBVIOUS
    <2>1. got \in Seq(Value) /\ Len(got) \in Nat
      <3>1. got \in Seq(Value)
        BY DEF ReceiveInvariant, TypeOK, Value
      <3> QED
        BY <3>1
    <2>2. got' # got
      BY <2>1
    <2>3. CopyOut
      BY <2>2
      DEF Next, ReadThread, ParserThread, Read, CheckSpace, Push, Overwrite, StoreData,
          StoreTail, StoreHead, Store, PushDone, LoadHead, LoadTail, LockRing, Pop,
          AdvanceHead, PopDone, vars, history
    <2> DEFINE new == Taken(pBuffer, from, size)
    <2>4. /\ new \in Seq(Value) /\ Len(new) = size /\ size \in 1 .. Waiting
          /\ \A j \in 1 .. size : new[j] = Departed + j
      BY <2>3, CopiedBytes DEF CopyOut, OrderInvariant
    <2>5. Departed \in Int /\ size \in Nat
      <3>1. /\ Waiting \in 0 .. MaxBufferSize - 1 /\ MaxBufferSize \in Nat /\ Pushed \in Nat
        BY RingType, PushedType, MaxReadType DEF ReceiveInvariant
      <3> QED
        BY <2>4, <3>1 DEF Departed
    <2>6. got' = got \o new
      BY <2>3 DEF CopyOut
    <2> HIDE DEF new
    <2>7. /\ Len(got') = Len(got) + size
          /\ \A j \in 1 .. Len(got) + size :
                got'[j] = IF j <= Len(got) THEN got[j] ELSE new[j - Len(got)]
      <3>1. IsConcat(got', Value, got, new)
        BY <2>1, <2>4, <2>6, ConcatOfSeqs, Zenon
      <3> QED
        BY <2>4, <3>1, Zenon DEF IsConcat
    <2>8. /\ i - Len(got) \in 1 .. size /\ (i + 1) - Len(got) \in 1 .. size
          /\ i \in 1 .. Len(got) + size /\ i + 1 \in 1 .. Len(got) + size
          /\ ~(i <= Len(got)) /\ ~(i + 1 <= Len(got))
      BY <2>1, <2>5, <2>7
    <2>9. /\ got'[i] = Departed + (i - Len(got))
          /\ got'[i + 1] = Departed + ((i + 1) - Len(got))
      BY <2>4, <2>7, <2>8
    <2> QED
      BY <2>1, <2>5, <2>8, <2>9
  <1> QED
    BY <1>1, ReceiveCorrect, OrderCorrect, PTL DEF Spec, NoTornPop

-----------------------------------------------------------------------------
(* The receiving side as a stream of bytes.                                *)

\* Consecutive numbers, their concatenation and their pieces.
LEMMA NumberedType ==
    ASSUME NEW c \in Nat, NEW n \in Nat
    PROVE  /\ Stream!Numbered(c, n) \in Seq(Nat)
           /\ Len(Stream!Numbered(c, n)) = n
           /\ \A i \in 1 .. n : Stream!Numbered(c, n)[i] = c + i
  BY DEF Stream!Numbered

\* A sequence of consecutive numbers is given by its start and its length.
LEMMA NumberedIs ==
    ASSUME NEW c \in Nat, NEW n \in Nat, NEW s \in Seq(Nat), Len(s) = n,
           \A i \in 1 .. n : s[i] = c + i
    PROVE  s = Stream!Numbered(c, n)
  <1> DEFINE t == Stream!Numbered(c, n)
  <1>1. t \in Seq(Nat) /\ Len(t) = n /\ \A i \in 1 .. n : t[i] = c + i
    BY NumberedType
  <1> HIDE DEF t
  <1>2. \A i \in 1 .. Len(s) : s[i] = t[i]
    BY <1>1
  <1>3. s = t
    BY <1>1, <1>2, SeqEqual
  <1> QED
    BY <1>3 DEF t

\* Two stretches of consecutive numbers, one after the other, are one.
Adjoin(c, a, b) ==
    Stream!Numbered(c, a) \o Stream!Numbered(c + a, b) = Stream!Numbered(c, a + b)

LEMMA NumberedConcat ==
    ASSUME NEW c \in Nat, NEW a \in Nat, NEW b \in Nat
    PROVE  Adjoin(c, a, b)
  <1> DEFINE first  == Stream!Numbered(c, a)
             second == Stream!Numbered(c + a, b)
             all    == first \o second
  <1>1. /\ first \in Seq(Nat) /\ Len(first) = a /\ \A i \in 1 .. a : first[i] = c + i
        /\ second \in Seq(Nat) /\ Len(second) = b /\ \A i \in 1 .. b : second[i] = (c + a) + i
    <2>1. c + a \in Nat
      OBVIOUS
    <2> QED
      BY <2>1, NumberedType, Zenon
  <1> HIDE DEF first, second
  <1>2. /\ all \in Seq(Nat) /\ Len(all) = a + b
        /\ \A i \in 1 .. a + b : all[i] = IF i <= a THEN first[i] ELSE second[i - a]
    <2>1. IsConcat(all, Nat, first, second)
      BY <1>1, ConcatOfSeqs, Zenon
    <2> HIDE DEF all
    <2> QED
      BY <1>1, <2>1, Zenon DEF IsConcat
  <1>3. ASSUME NEW i \in 1 .. a + b
        PROVE  all[i] = c + i
    <2>1. CASE i <= a
      <3>1. i \in 1 .. a
        BY <2>1
      <3> QED
        BY <1>1, <1>2, <2>1, <3>1
    <2>2. CASE ~(i <= a)
      <3>1. i - a \in 1 .. b /\ (c + a) + (i - a) = c + i
        BY <2>2
      <3> QED
        BY <1>1, <1>2, <2>2, <3>1
    <2> QED
      BY <2>1, <2>2
  <1> HIDE DEF all
  <1>4. all = Stream!Numbered(c, a + b)
    <2>1. a + b \in Nat
      OBVIOUS
    <2> QED
      BY <1>2, <1>3, <2>1, NumberedIs
  <1> QED
    BY <1>4, Zenon DEF all, first, second, Adjoin

\* The first k of n consecutive numbers, and the others.
Divides(c, n, k) ==
    /\ SubSeq(Stream!Numbered(c, n), 1, k) = Stream!Numbered(c, k)
    /\ SubSeq(Stream!Numbered(c, n), k + 1, n) = Stream!Numbered(c + k, n - k)

LEMMA NumberedPieces ==
    ASSUME NEW c \in Nat, NEW n \in Nat, NEW k \in 0 .. n
    PROVE  Divides(c, n, k)
  <1> DEFINE s     == Stream!Numbered(c, n)
             front == SubSeq(s, 0 + 1, k)
             rest  == SubSeq(s, k + 1, n)
  <1>1. s \in Seq(Nat) /\ Len(s) = n /\ \A i \in 1 .. n : s[i] = c + i
    BY NumberedType
  <1> HIDE DEF s
  <1>2. /\ front \in Seq(Nat) /\ Len(front) = k - 0 /\ \A i \in 1 .. k - 0 : front[i] = s[0 + i]
        /\ rest \in Seq(Nat) /\ Len(rest) = n - k /\ \A i \in 1 .. n - k : rest[i] = s[k + i]
    <2>1. s \in Seq(Nat) /\ 0 \in Nat /\ k \in 0 .. Len(s)
      BY <1>1
    <2>2. s \in Seq(Nat) /\ k \in Nat /\ n \in k .. Len(s)
      BY <1>1
    <2>3. front \in Seq(Nat) /\ Len(front) = k - 0 /\ \A i \in 1 .. k - 0 : front[i] = s[0 + i]
      <3>1. IsPiece(front, Nat, s, 0, k)
        BY <2>1, PieceOfSeq, Zenon
      <3> HIDE DEF front
      <3> QED
        BY <3>1, Zenon DEF IsPiece
    <2>4. rest \in Seq(Nat) /\ Len(rest) = n - k /\ \A i \in 1 .. n - k : rest[i] = s[k + i]
      <3>1. IsPiece(rest, Nat, s, k, n)
        BY <2>2, PieceOfSeq, Zenon
      <3> HIDE DEF rest
      <3> QED
        BY <3>1, Zenon DEF IsPiece
    <2> QED
      BY <2>3, <2>4
  <1> HIDE DEF front, rest
  <1>3. /\ k \in Nat /\ n - k \in Nat /\ c + k \in Nat /\ k - 0 = k
        /\ \A i \in 1 .. k : 0 + i = i /\ i \in 1 .. n
        /\ \A i \in 1 .. n - k : k + i \in 1 .. n /\ c + (k + i) = (c + k) + i
    OBVIOUS
  <1>4. front = Stream!Numbered(c, k)
    <2>1. Len(front) = k /\ \A i \in 1 .. k : front[i] = c + i
      BY <1>1, <1>2, <1>3
    <2> QED
      BY <1>2, <1>3, <2>1, NumberedIs
  <1>5. rest = Stream!Numbered(c + k, n - k)
    <2>1. \A i \in 1 .. n - k : rest[i] = (c + k) + i
      BY <1>1, <1>2, <1>3
    <2> QED
      BY <1>2, <1>3, <2>1, NumberedIs
  <1> QED
    BY <1>4, <1>5 DEF front, rest, s, Divides

\* The bytes that wait follow those the parser has taken or lost, up to the
\* last one pushed.
HeldNumbered ==
    /\ Consumed \in Nat /\ Pushed \in Nat /\ Consumed <= Pushed
    /\ Pushed - Consumed <= MaxBufferSize - 1
    /\ Held = Stream!Numbered(Consumed, Pushed - Consumed)

LEMMA HeldIsNumbered == ReceiveInvariant => HeldNumbered
  <1> SUFFICES ASSUME ReceiveInvariant
               PROVE  HeldNumbered
    OBVIOUS
  <1> DEFINE whole == Contents(BytesAfterPush, HeadAfterPush, TailAfterPush)
  <1>1. /\ HeadAfterPush \in Slots /\ TailAfterPush \in Slots
        /\ BytesAfterPush \in [Slots -> Nat]
        /\ Waiting \in 0 .. MaxBufferSize - 1 /\ MaxBufferSize \in Nat
        /\ Pushed \in Nat /\ Waiting <= Pushed
        /\ Waiting = DataAvailable(HeadAfterPush, TailAfterPush)
    <2>1. Value \subseteq Nat
      BY ConstantsType DEF Value
    <2> QED
      BY <2>1, RingType, PushedType, MaxReadType DEF ReceiveInvariant, PushUnderWay, Waiting
  <1>2. Waiting \in Nat /\ Departed \in Nat /\ Departed = Pushed - Waiting
    BY <1>1 DEF Departed
  <1>3. \A i \in 1 .. Waiting :
            BytesAfterPush[SlotAfter(HeadAfterPush, i - 1)] = Departed + i
    <2>1. \A i \in 1 .. Waiting :
              BytesAfterPush[SlotAfter(HeadAfterPush, i - 1)] = Pushed - Waiting + i
      BY RingNumbered DEF ReceiveInvariant, PushUnderWay
    <2> QED
      BY <2>1, <1>2
  <1>4. whole = Stream!Numbered(Departed, Waiting)
    <2>1. /\ Stream!Numbered(Departed, Waiting) \in Seq(Nat)
          /\ Len(Stream!Numbered(Departed, Waiting)) = Waiting
          /\ \A i \in 1 .. Waiting : Stream!Numbered(Departed, Waiting)[i] = Departed + i
      BY <1>2, NumberedType
    <2> QED
      <3> DEFINE number == Stream!Numbered(Departed, Waiting)
      <3> HIDE DEF number
      <3>1. \A i \in 1 .. Waiting : number[i] = BytesAfterPush[SlotAfter(HeadAfterPush, i - 1)]
        BY <1>3, <2>1, Zenon DEF number
      <3>2. Reads(number, Nat, BytesAfterPush, HeadAfterPush,
                  DataAvailable(HeadAfterPush, TailAfterPush))
        BY <1>1, <2>1, <3>1, Zenon DEF Reads, number
      <3>3. whole = number
        BY <1>1, <3>2, ContentsAre, Zenon
      <3> QED
        BY <3>3, Zenon DEF number
  <1>5. CASE takes # {"head"}
    <2>1. Consumed = Departed + 0 /\ Held = whole
      BY <1>5 DEF Consumed, Held, HeadAfterTake
    <2>2. Consumed = Departed
      BY <1>2, <2>1
    <2>3. /\ Pushed - Consumed = Waiting /\ Consumed <= Pushed /\ Consumed \in Nat
          /\ Pushed - Consumed <= MaxBufferSize - 1
      BY <1>1, <1>2, <2>2
    <2> QED
      BY <1>1, <1>4, <2>1, <2>2, <2>3 DEF HeldNumbered
  <1>6. CASE takes = {"head"}
    <2>1. /\ from = head /\ size \in 1 .. Ready /\ HeadAfterPush = head
      BY <1>6 DEF ReceiveInvariant, SizeIsThere, MutualExclusion, HeadAfterPush
    <2>2. size \in 0 .. Waiting
      <3>1. Ready <= Waiting /\ Ready \in Nat
        <4>1. Ready <= Waiting
          BY ReadyIsWaiting DEF ReceiveInvariant
        <4>2. Ready \in 0 .. MaxBufferSize - 1
          BY RingType DEF ReceiveInvariant
        <4> QED
          BY <4>1, <4>2
      <3> QED
        BY <1>2, <2>1, <3>1
    <2>3. HeadAfterTake = SlotAfter(HeadAfterPush, size)
      BY <1>1, <1>6, <2>1, <2>2, PoppedSize DEF HeadAfterTake
    <2>4. Held = SubSeq(whole, size + 1, Waiting)
      <3> DEFINE h == HeadAfterPush
                 t == TailAfterPush
      <3>1. size \in 0 .. DataAvailable(h, t)
        BY <1>1, <2>2, Zenon
      <3>2. Contents(BytesAfterPush, SlotAfter(h, size), t)
                = SubSeq(whole, size + 1, DataAvailable(h, t))
        BY <1>1, <3>1, AdvanceDrops, Zenon
      <3> QED
        BY <1>1, <2>3, <3>2, Zenon DEF Held
    <2> HIDE DEF whole
    <2>5. Held = Stream!Numbered(Departed + size, Waiting - size)
      <3>1. Divides(Departed, Waiting, size)
        BY <1>2, <2>2, NumberedPieces, Zenon
      <3> QED
        BY <1>4, <2>4, <3>1, Zenon DEF Divides
    <2>6. Consumed = Departed + size
      BY <1>6 DEF Consumed
    <2>7. /\ Pushed - Consumed = Waiting - size /\ Consumed <= Pushed /\ Consumed \in Nat
          /\ Pushed - Consumed <= MaxBufferSize - 1
      BY <1>1, <1>2, <2>2, <2>6
    <2> QED
      BY <1>1, <2>5, <2>6, <2>7 DEF HeldNumbered
  <1> QED
    BY <1>5, <1>6

\* A plain push is accepted whole.
LEMMA PushAccepts ==
    ASSUME ReceiveInvariant, HeldNumbered, HeldNumbered', Push
    PROVE  Len(chunk) \in 1 .. MaxRead /\ Stream!Accept(Len(chunk))
  <1> DEFINE n == Len(chunk)
             w == Pushed - Consumed
  <1>1. n \in 1 .. MaxRead /\ n \in Nat
    <2>1. reader = "push"
      BY DEF Push
    <2>2. n \in Nat /\ n >= 1 /\ n <= MaxRead /\ MaxRead \in Nat
      BY <2>1, PushedType, MaxReadType DEF ReceiveInvariant, TypeOK
    <2> QED
      BY <2>2
  <1>2. Consumed' = Consumed /\ Pushed' = Pushed + n /\ got' = got
    BY PushCounts DEF history
  <1> HIDE DEF n
  <1>3. /\ Consumed \in Nat /\ Pushed \in Nat /\ w \in Nat
        /\ Consumed + w = Pushed /\ (Pushed + n) - Consumed = w + n
        /\ w + n <= MaxBufferSize - 1
    <2>1. Consumed \in Nat /\ Pushed \in Nat /\ Consumed <= Pushed
      BY DEF HeldNumbered
    <2>2. (Pushed + n) - Consumed <= MaxBufferSize - 1
      BY <1>2 DEF HeldNumbered
    <2>3. w \in Nat /\ Consumed + w = Pushed /\ (Pushed + n) - Consumed = w + n
      BY <1>1, <2>1
    <2> QED
      BY <2>1, <2>2, <2>3
  <1>4. Held = Stream!Numbered(Consumed, w) /\ Held' = Stream!Numbered(Consumed, w + n)
    BY <1>2, <1>3 DEF HeldNumbered, Stream!Numbered
  <1> HIDE DEF w
  <1>5. Held' = Held \o Stream!Numbered(Pushed, n)
    <2>1. Stream!Numbered(Consumed, w) \o Stream!Numbered(Consumed + w, n)
              = Stream!Numbered(Consumed, w + n)
      <3>1. Adjoin(Consumed, w, n)
        BY <1>1, <1>3, NumberedConcat, Zenon
      <3> QED
        BY <3>1, Zenon DEF Adjoin
    <2> QED
      BY <1>3, <1>4, <2>1
  <1>6. Len(Held) + n <= MaxBufferSize - 1
    BY <1>3, <1>4, NumberedType
  <1> QED
    BY <1>1, <1>2, <1>5, <1>6 DEF Stream!Accept, n

\* An overwriting push leaves the queue full of the newest bytes.
LEMMA OverwriteForces ==
    ASSUME ReceiveInvariant, HeldNumbered', Overwrite
    PROVE  Len(chunk) \in 1 .. MaxRead /\ Stream!Force(Len(chunk))
  <1> DEFINE n   == Len(chunk)
             cap == MaxBufferSize - 1
  <1>1. n \in 1 .. MaxRead /\ n \in Nat /\ cap \in Nat
    <2>1. reader = "lock"
      BY DEF Overwrite
    <2>2. n \in Nat /\ n >= 1 /\ n <= MaxRead /\ MaxRead \in Nat
      BY <2>1, PushedType, MaxReadType DEF ReceiveInvariant, TypeOK
    <2>3. cap \in Nat
      BY MaxBufferSizeAssumption
    <2> QED
      BY <2>2, <2>3
  <1>2. Waiting' = cap /\ Pushed' = Pushed + n /\ takes' # {"head"} /\ got' = got
    BY OverwriteCounts DEF history
  <1> HIDE DEF n, cap
  <1>3. Pushed' \in Nat /\ Consumed' = (Pushed' - cap) + 0 /\ Consumed' \in Nat
    BY <1>2 DEF HeldNumbered, Consumed, Departed
  <1>4. Consumed' = (Pushed + n) - cap /\ Pushed' - Consumed' = cap /\ Pushed + n >= cap
    BY <1>1, <1>2, <1>3
  <1>5. Held' = Stream!Numbered((Pushed + n) - cap, cap)
    BY <1>4 DEF HeldNumbered, Stream!Numbered
  <1>6. /\ Pushed + n >= cap /\ Held' = Stream!Numbered(Pushed + n - cap, cap)
        /\ Pushed' = Pushed + n /\ UNCHANGED got
    <2>1. Pushed \in Nat
      BY PushedType DEF ReceiveInvariant
    <2>2. Pushed + n - cap = (Pushed + n) - cap
      BY <1>1, <2>1
    <2> QED
      BY <1>2, <1>4, <1>5, <2>2
  <1>7. Stream!Force(n)
    BY <1>6 DEF Stream!Force, cap
  <1> QED
    BY <1>1, <1>7 DEF n

\* The copy of a pop takes the front of the queue.
LEMMA CopyTakes ==
    ASSUME ReceiveInvariant, ProgramOrder, HeldNumbered, HeldNumbered', CopyOut
    PROVE  size \in 1 .. MaxBufferSize - 1 /\ Stream!Take(size)
  <1> DEFINE new == Taken(pBuffer, from, size)
             w   == Pushed - Consumed
  <1>1. /\ got' = got \o new /\ Pushed' = Pushed
        /\ Consumed' = Consumed + size /\ size \in 1 .. w
        /\ new \in Seq(Value) /\ Len(new) = size
        /\ \A i \in 1 .. size : new[i] = Consumed + i
    BY CopyOutCounts
  <1> HIDE DEF new
  <1>2. /\ Consumed \in Nat /\ w \in Nat /\ w <= MaxBufferSize - 1 /\ MaxBufferSize \in Nat
        /\ Held = Stream!Numbered(Consumed, w)
    BY MaxReadType DEF HeldNumbered
  <1>3. size \in Nat /\ size \in 0 .. w /\ size \in 1 .. MaxBufferSize - 1
    BY <1>1, <1>2
  <1>4. Pushed' - Consumed' = w - size
    BY <1>1, <1>2, <1>3 DEF HeldNumbered
  <1>5. Held' = Stream!Numbered(Consumed + size, w - size)
    BY <1>1, <1>4 DEF HeldNumbered, Stream!Numbered
  <1> HIDE DEF w
  <1>6. new = Stream!Numbered(Consumed, size)
    <2>1. new \in Seq(Nat)
      <3>1. Value \subseteq Nat
        BY ConstantsType DEF Value
      <3> QED
        BY <1>1, <3>1, SeqMonotonic
    <2> QED
      BY <1>1, <1>2, <1>3, <2>1, NumberedIs
  <1>7. /\ SubSeq(Held, 1, size) = new /\ SubSeq(Held, size + 1, w) = Held'
        /\ Len(Held) = w
    <2>1. Divides(Consumed, w, size)
      BY <1>2, <1>3, NumberedPieces, Zenon
    <2>2. Len(Held) = w
      BY <1>2, NumberedType, Zenon
    <2> QED
      BY <1>2, <1>5, <1>6, <2>1, <2>2, Zenon DEF Divides
  <1>8. /\ size <= Len(Held) /\ got' = got \o SubSeq(Held, 1, size)
        /\ Held' = SubSeq(Held, size + 1, Len(Held)) /\ UNCHANGED Pushed
    <2>1. size <= w
      BY <1>2, <1>3
    <2> QED
      BY <1>1, <1>7, <2>1, Zenon
  <1>9. Stream!Take(size)
    BY <1>8 DEF Stream!Take
  <1> QED
    BY <1>3, <1>9

(* The receiving side implements the stream, with stores seen in program   *)
(* order: a push is accepted when it begins, although its bytes and its    *)
(* Tail appear later and without the mutex, and a pop takes its bytes when *)
(* it copies them; every other access leaves the stream alone.             *)
THEOREM Implementation == ASSUME StoresInOrder PROVE Spec => ImplementsByteStream
  <1>1. Init => Stream!Init
    <2> SUFFICES ASSUME Init
                 PROVE  Stream!Init
      OBVIOUS
    <2>1. Pushed = 0 /\ got = << >>
      BY DEF Init, Pushed
    <2>2. HeldNumbered
      BY InvariantInit, HeldIsNumbered
    <2>3. Pushed - Consumed = 0
      BY <2>1, <2>2 DEF HeldNumbered
    <2>4. Held = << >>
      <3>1. Held = Stream!Numbered(Consumed, 0)
        BY <2>2, <2>3 DEF HeldNumbered
      <3>2. Held \in Seq(Nat) /\ Len(Held) = 0
        BY <2>2, <3>1, NumberedType DEF HeldNumbered
      <3> QED
        BY <3>2, EmptySeq
    <2> QED
      BY <2>1, <2>4 DEF Stream!Init
  <1>2. ReceiveInvariant /\ ReceiveInvariant' => HeldNumbered /\ HeldNumbered'
    BY HeldIsNumbered, PTL
  <1>3. /\ ReceiveInvariant /\ OrderInvariant /\ HeldNumbered /\ HeldNumbered' /\ [Next]_vars
        => [Stream!Next]_Stream!vars
    <2> SUFFICES ASSUME ReceiveInvariant, OrderInvariant, HeldNumbered, HeldNumbered',
                        [Next]_vars
                 PROVE  [Stream!Next]_Stream!vars
      OBVIOUS
    <2>1. CASE Push
      BY <2>1, PushAccepts DEF Stream!Next
    <2>2. CASE Overwrite
      BY <2>2, OverwriteForces DEF Stream!Next
    <2>3. CASE CopyOut
      BY <2>3, CopyTakes DEF Stream!Next, OrderInvariant
    <2>4. CASE ~Push /\ ~Overwrite /\ ~CopyOut
      <3>1. Consumed' = Consumed /\ Pushed' = Pushed /\ got' = got
        BY <2>4, CountsStay, PushedStays DEF history
      <3>2. Held' = Held
        BY <3>1 DEF HeldNumbered, Stream!Numbered
      <3> QED
        BY <3>1, <3>2 DEF Stream!vars
    <2> QED
      BY <2>1, <2>2, <2>3, <2>4
  <1> QED
    BY <1>1, <1>2, <1>3, ReceiveCorrect, OrderCorrect, PTL
    DEF Spec, ImplementsByteStream, Stream!Spec
=============================================================================
