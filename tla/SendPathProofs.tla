--------------------------- MODULE SendPathProofs ---------------------------
(***************************************************************************)
(* The sending side, for a ring, packets and writes of any size.  That the *)
(* pop finds the bytes whose number WriteThread computed without the mutex *)
(* rests on this: from the first unlocked load on, either Head has not     *)
(* moved and the ring only fills up, or a push has overwritten and the     *)
(* ring is full and stays so until the pop.  That no byte gets lost        *)
(* unnoticed rests on the ring holding consecutive numbers.                *)
(***************************************************************************)
EXTENDS SendPath, TcBufferProofs

\* The bytes in the ring, the push under way included.
Waiting == DataAvailable(HeadAfterPush, TailAfterPush)

Full == Waiting = MaxBufferSize - 1

PushUnderWay ==
    /\ mutex = "free" => stores = {}
    /\ "head" \in stores => TailAfterPush = after
    /\ "tail" \in stores => Full \/ DataAvailable(HeadAfterPush, tail) <= Waiting

SizeIsThere ==
    /\ writer = "load tail" => Full \/ from = HeadAfterPush
    /\ writer \in {"status", "pop"} => size \in 1 .. Waiting
    /\ writer = "write" => size >= 1

SendInvariant == TypeOK /\ PushUnderWay /\ SizeIsThere

-----------------------------------------------------------------------------
(* Sizes and types.                                                        *)

\* A value of a byte: its number, or 0.
Value == 0 .. StreamLength

LEMMA ConstantsType ==
    /\ StreamLength \in Nat /\ WriteSize \in Nat \ {0} /\ MaxBufferSize \in Nat \ {0, 1}
    /\ \A n \in PacketSizes : n \in 1 .. MaxBufferSize - 1
    /\ 0 \in Slots
  BY SendAssumption, MaxBufferSizeAssumption DEF Slots

LEMMA PacketType ==
    ASSUME TypeOK, NEW n \in PacketSizes, accepted + n <= StreamLength
    PROVE  /\ [i \in 1 .. n |-> accepted + i] \in Seq(Value)
           /\ Len([i \in 1 .. n |-> accepted + i]) = n
  <1>0. n \in 1 .. MaxBufferSize - 1 /\ accepted \in 0 .. StreamLength
    BY ConstantsType DEF TypeOK
  <1>1. n \in Nat /\ accepted \in Nat /\ StreamLength \in Nat
    BY <1>0, ConstantsType
  <1>2. \A i \in 1 .. n : accepted + i \in Value
    BY <1>1 DEF Value
  <1> QED
    BY <1>1, <1>2

\* The ring as the push under way leaves it.
LEMMA AfterPushType ==
    ASSUME TypeOK
    PROVE  /\ HeadAfterPush \in Slots /\ TailAfterPush \in Slots
           /\ Waiting \in 0 .. MaxBufferSize - 1
  BY OverwrittenSize, SizesType DEF TypeOK, HeadAfterPush, TailAfterPush, Waiting

\* With an overwriting push under way the ring is as good as full.
LEMMA OverwriteFills ==
    ASSUME TypeOK, PushUnderWay, "head" \in stores
    PROVE  Full
  BY OverwrittenSize DEF TypeOK, PushUnderWay, Full, Waiting, HeadAfterPush

-----------------------------------------------------------------------------
(* Every step keeps the invariant.                                         *)

LEMMA InvariantInit == Init => SendInvariant
  <1> SUFFICES ASSUME Init
               PROVE  SendInvariant
    OBVIOUS
  <1>1. TypeOK
    <2>1. /\ StreamLength \in Nat /\ WriteSize \in Nat \ {0} /\ MaxBufferSize \in Nat \ {0, 1}
          /\ 0 \in Slots /\ 0 \in 0 .. StreamLength
      BY ConstantsType
    <2>2. /\ pBuffer = [i \in Slots |-> 0] /\ writeBufs = [i \in 1 .. WriteSize |-> 0]
          /\ size = 0 /\ line = << >> /\ accepted = 0
      BY DEF Init
    <2>3. /\ pBuffer \in [Slots -> 0 .. StreamLength]
          /\ writeBufs \in [1 .. WriteSize -> 0 .. StreamLength]
          /\ line \in Seq(0 .. StreamLength)
      BY <2>1, <2>2
    <2>4. size \in 0 .. Least(WriteSize, MaxBufferSize - 1) /\ accepted \in 0 .. StreamLength
      BY <2>1, <2>2 DEF Least
    <2> QED
      BY <2>1, <2>3, <2>4 DEF Init, TypeOK
  <1>2. PushUnderWay /\ SizeIsThere
    BY DEF Init, PushUnderWay, SizeIsThere
  <1> QED
    BY <1>1, <1>2 DEF SendInvariant

\* What is in the ring only changes by a whole packet and a whole pop.
LEMMA FinishKeepsRing ==
    ASSUME TypeOK, PushUnderWay, Finish
    PROVE  /\ HeadAfterPush' = HeadAfterPush /\ TailAfterPush' = TailAfterPush
           /\ Waiting' = Waiting
  <1>1. CASE StoreTail
    BY <1>1 DEF StoreTail, HeadAfterPush, TailAfterPush, Waiting
  <1>2. CASE StoreHead
    BY <1>2 DEF StoreHead, HeadAfterPush, TailAfterPush, Waiting
  <1>3. CASE Unlock
    BY <1>3 DEF Unlock, ring, HeadAfterPush, TailAfterPush, Waiting
  <1> QED
    BY <1>1, <1>2, <1>3 DEF Finish

LEMMA FinishKeeps ==
    ASSUME SendInvariant, Finish
    PROVE  SendInvariant'
  <1>1. TypeOK'
    <2>1. TypeOK /\ UNCHANGED <<pBuffer, accepted, after, writerVars, ready, history>>
      BY DEF SendInvariant, Finish, StoreTail, StoreHead, Unlock, ring
    <2>2. /\ head' \in Slots /\ tail' \in Slots
          /\ mutex' \in {"free", "sender"} /\ stores' \subseteq {"tail", "head"}
      BY <2>1, OverwrittenSize DEF TypeOK, Finish, StoreTail, StoreHead, Unlock, ring
    <2> QED
      BY <2>1, <2>2 DEF TypeOK, writerVars, history
  <1>2. PushUnderWay'
    <2>1. (mutex = "free" => stores = {})'
      BY DEF SendInvariant, PushUnderWay, Finish, StoreTail, StoreHead, Unlock
    <2>2. ("head" \in stores => TailAfterPush = after)'
      BY FinishKeepsRing
      DEF SendInvariant, PushUnderWay, Finish, StoreTail, StoreHead, Unlock
    <2>3. ("tail" \in stores => Full \/ DataAvailable(HeadAfterPush, tail) <= Waiting)'
      BY FinishKeepsRing
      DEF SendInvariant, PushUnderWay, Finish, StoreTail, StoreHead, Unlock, Full
    <2> QED
      BY <2>1, <2>2, <2>3 DEF PushUnderWay
  <1>3. SizeIsThere'
    BY FinishKeepsRing
    DEF SendInvariant, SizeIsThere, Finish, StoreTail, StoreHead, Unlock, Full, writerVars
  <1> QED
    BY <1>1, <1>2, <1>3 DEF SendInvariant

\* A packet fits behind what is in the ring, or fills it.
LEMMA WriteDataSizes ==
    ASSUME SendInvariant, NEW n \in PacketSizes, WriteData(n)
    PROVE  /\ Full' \/ (HeadAfterPush' = HeadAfterPush /\ Waiting' = Waiting + n)
           /\ Waiting' \in Waiting .. MaxBufferSize - 1
           /\ "head" \in stores' => Full'
           /\ TailAfterPush' = after' /\ after' \in Slots
  <1>1. /\ stores = {} /\ head \in Slots /\ tail \in Slots
        /\ head' = head /\ tail' = tail /\ after' = Advanced(tail, n)
        /\ stores' = IF n - FreeSpace(head, tail) > 0 THEN {"tail", "head"} ELSE {"tail"}
    BY DEF SendInvariant, TypeOK, PushUnderWay, WriteData, Push
  <1>2. n \in 1 .. MaxBufferSize - 1 /\ n \in 0 .. MaxBufferSize /\ MaxBufferSize \in Nat
    BY ConstantsType
  <1>3. Waiting = DataAvailable(head, tail) /\ HeadAfterPush = head
    BY <1>1 DEF Waiting, HeadAfterPush, TailAfterPush
  <1>4. after' \in Slots /\ TailAfterPush' = after'
    BY <1>1, <1>2, AdvancedType DEF TailAfterPush
  <1>5. /\ DataAvailable(head, tail) \in 0 .. MaxBufferSize - 1
        /\ FreeSpace(head, tail) = MaxBufferSize - 1 - DataAvailable(head, tail)
    BY <1>1, SizesType
  <1>6. CASE n > FreeSpace(head, tail)
    <2>1. "head" \in stores'
      BY <1>1, <1>2, <1>5, <1>6
    <2>2. Waiting' = MaxBufferSize - 1
      BY <1>4, <2>1, OverwrittenSize DEF Waiting, HeadAfterPush
    <2> QED
      BY <1>2, <1>3, <1>4, <1>5, <2>2 DEF Full
  <1>7. CASE n <= FreeSpace(head, tail)
    <2>1. stores' = {"tail"}
      BY <1>1, <1>2, <1>5, <1>7
    <2>2. HeadAfterPush' = head
      BY <1>1, <2>1 DEF HeadAfterPush
    <2>3. Waiting' = DataAvailable(head, tail) + n
      BY <1>1, <1>2, <1>4, <1>7, <2>2, PushedSize DEF Waiting
    <2>4. Waiting' = Waiting + n /\ Waiting' \in Waiting .. MaxBufferSize - 1
      BY <1>2, <1>3, <1>5, <1>7, <2>3
    <2>5. "head" \notin stores'
      BY <2>1
    <2> QED
      BY <1>3, <1>4, <2>2, <2>4, <2>5
  <1> QED
    BY <1>2, <1>5, <1>6, <1>7

LEMMA WriteDataKeeps ==
    ASSUME SendInvariant, NEW n \in PacketSizes, WriteData(n)
    PROVE  SendInvariant'
  <1>0. TypeOK /\ Push(n) /\ mutex' = "sender" /\ stores = {} /\ n \in 1 .. MaxBufferSize - 1
    BY ConstantsType DEF SendInvariant, WriteData, PushUnderWay
  <1>1. TypeOK'
    <2> DEFINE packet == [i \in 1 .. n |-> accepted + i]
    <2>1. packet \in Seq(Value) /\ Len(packet) = n /\ Len(packet) < MaxBufferSize
      BY <1>0, PacketType, ConstantsType DEF Push
    <2>2. pBuffer \in [Slots -> Value] /\ head \in Slots /\ tail \in Slots
      BY <1>0 DEF TypeOK, Value
    <2>3. pBuffer' = Stored(pBuffer, tail, packet)
      BY <1>0 DEF Push
    <2> HIDE DEF packet
    <2>4. pBuffer' \in [Slots -> 0 .. StreamLength]
      <3>1. IsStored(pBuffer', Value, pBuffer, tail, packet)
        BY <2>1, <2>2, <2>3, StoredAt, Zenon
      <3> QED
        BY <3>1, Zenon DEF IsStored, Value
    <2>5. dropped' \subseteq 0 .. StreamLength
      <3> DEFINE excess == n - FreeSpace(head, tail)
      <3>1. \A i \in 1 .. excess : i \in 1 .. DataAvailable(head, tail)
        BY <1>0, <2>2, SizesType, ConstantsType
      <3>2. /\ Contents(pBuffer, head, tail) \in Seq(Value)
            /\ Len(Contents(pBuffer, head, tail)) = DataAvailable(head, tail)
        <4>1. Reads(Contents(pBuffer, head, tail), Value, pBuffer, head, DataAvailable(head, tail))
          BY <2>2, ContentsAt, Zenon
        <4> QED
          BY <4>1, Zenon DEF Reads
      <3>3. \A i \in 1 .. excess : Contents(pBuffer, head, tail)[i] \in Value
        BY <3>1, <3>2, ElementOfSeq
      <3>4. dropped' = dropped \cup {Contents(pBuffer, head, tail)[i] : i \in 1 .. excess}
        BY <1>0 DEF Push
      <3>5. dropped \subseteq Value
        BY <1>0 DEF TypeOK, Value
      <3> HIDE DEF excess
      <3> QED
        BY <3>3, <3>4, <3>5 DEF Value
    <2>6. accepted' \in 0 .. StreamLength
      <3>1. accepted \in 0 .. StreamLength
        BY <1>0 DEF TypeOK
      <3> QED
        BY <1>0, <3>1, ConstantsType DEF Push
    <2>7. after' \in Slots
      BY WriteDataSizes
    <2>8. stores' \subseteq {"tail", "head"}
      BY <1>0 DEF Push
    <2>9. UNCHANGED <<head, tail, from, size, writer, writeBufs, ready, line, unwritten>>
      BY <1>0 DEF Push, writerVars
    <2> QED
      BY <1>0, <2>4, <2>5, <2>6, <2>7, <2>8, <2>9 DEF TypeOK
  <1>2. PushUnderWay'
    <2>1. head' = head /\ tail' = tail /\ TailAfterPush = tail
      BY <1>0 DEF Push, TailAfterPush
    <2>2. Full' \/ DataAvailable(HeadAfterPush', tail') <= Waiting'
      BY <2>1, WriteDataSizes DEF Waiting
    <2> QED
      BY <1>0, <2>2, WriteDataSizes DEF PushUnderWay
  <1>3. SizeIsThere'
    <2>1. UNCHANGED <<from, size, writer>>
      BY <1>0 DEF Push, writerVars
    <2>2. Waiting \in 0 .. MaxBufferSize - 1 /\ Waiting' \in Waiting .. MaxBufferSize - 1
      BY <1>0, AfterPushType, WriteDataSizes
    <2>3. Full => Full'
      BY <2>2, WriteDataSizes, ConstantsType DEF Full
    <2>4. writer \in {"status", "pop"} => size \in 1 .. Waiting'
      <3>1. writer \in {"status", "pop"} => size \in 1 .. Waiting
        BY DEF SendInvariant, SizeIsThere
      <3> QED
        BY <2>2, <3>1, WriteDataSizes, ConstantsType
    <2> QED
      BY <2>1, <2>3, <2>4, WriteDataSizes DEF SendInvariant, SizeIsThere
  <1> QED
    BY <1>1, <1>2, <1>3 DEF SendInvariant

\* The steps of WriteThread up to the pop change neither the ring nor the push.
LEMMA LooksKeepRing ==
    ASSUME UNCHANGED <<ring, senderVars>>
    PROVE  /\ HeadAfterPush' = HeadAfterPush /\ TailAfterPush' = TailAfterPush
           /\ Waiting' = Waiting /\ (Full' <=> Full)
           /\ PushUnderWay => PushUnderWay'
  BY DEF ring, senderVars, HeadAfterPush, TailAfterPush, Waiting, Full, PushUnderWay

LEMMA LeastType ==
    ASSUME NEW a \in Nat, NEW b \in Nat, NEW m \in Nat, a <= m
    PROVE  Least(a, b) \in 0 .. Least(b, m) /\ Least(a, b) \in 0 .. a
  BY DEF Least

\* The size computed from a Head and a Tail loaded at different times.
LEMMA LoadedSize ==
    ASSUME TypeOK, PushUnderWay, Full \/ from = HeadAfterPush
    PROVE  /\ DataAvailable(from, tail) \in 0 .. Waiting
           /\ Least(DataAvailable(from, tail), WriteSize)
                  \in 0 .. Least(WriteSize, MaxBufferSize - 1)
           /\ Least(DataAvailable(from, tail), WriteSize) \in 0 .. Waiting
  <1>1. /\ DataAvailable(from, tail) \in 0 .. MaxBufferSize - 1
        /\ Waiting \in 0 .. MaxBufferSize - 1
    BY SizesType, AfterPushType DEF TypeOK
  <1>2. WriteSize \in Nat \ {0} /\ MaxBufferSize \in Nat
    BY ConstantsType
  <1>3. DataAvailable(from, tail) <= Waiting
    <2>1. CASE Full
      BY <1>1, <1>2, <2>1 DEF Full
    <2>2. CASE ~Full
      <3>1. from = HeadAfterPush
        BY <2>2
      <3>2. CASE "tail" \in stores
        BY <2>2, <3>1, <3>2 DEF PushUnderWay
      <3>3. CASE "tail" \notin stores
        <4>1. Waiting = DataAvailable(from, tail)
          BY <3>1, <3>3 DEF Waiting, TailAfterPush
        <4> QED
          BY <1>1, <1>2, <4>1
      <3> QED
        BY <3>2, <3>3
    <2> QED
      BY <2>1, <2>2
  <1> DEFINE d == DataAvailable(from, tail)
             w == Waiting
             m == MaxBufferSize - 1
  <1>4. d \in Nat /\ w \in Nat /\ m \in Nat /\ d <= m /\ d <= w
    BY <1>1, <1>2, <1>3
  <1> HIDE DEF d, w, m
  <1>5. /\ Least(d, WriteSize) \in 0 .. Least(WriteSize, m)
        /\ Least(d, WriteSize) \in 0 .. d
    BY <1>2, <1>4, LeastType
  <1>6. d \in 0 .. w /\ Least(d, WriteSize) \in 0 .. w
    BY <1>4, <1>5
  <1> QED
    BY <1>5, <1>6 DEF d, w, m

\* The bytes a pop takes, and what it leaves in the ring.
LEMMA PopSizes ==
    ASSUME SendInvariant, Pop
    PROVE  /\ PopSucceeds
           /\ stores = {} /\ HeadAfterPush = head /\ TailAfterPush = tail
           /\ size \in 1 .. DataAvailable(head, tail) /\ size \in 1 .. WriteSize
           /\ head' = Advanced(head, size) /\ head' \in Slots
  <1>1. /\ stores = {} /\ size \in 1 .. Waiting /\ head \in Slots /\ tail \in Slots
        /\ size \in 0 .. Least(WriteSize, MaxBufferSize - 1)
    BY DEF SendInvariant, TypeOK, PushUnderWay, SizeIsThere, Pop
  <1>2. HeadAfterPush = head /\ TailAfterPush = tail /\ Waiting = DataAvailable(head, tail)
    BY <1>1 DEF HeadAfterPush, TailAfterPush, Waiting
  <1>3. DataAvailable(head, tail) \in 0 .. MaxBufferSize - 1 /\ MaxBufferSize \in Nat
        /\ (tail = head <=> DataAvailable(head, tail) = 0) /\ WriteSize \in Nat
    BY <1>1, SizesType, ConstantsType
  <1>4. PopSucceeds /\ size \in 1 .. DataAvailable(head, tail) /\ size \in 1 .. WriteSize
    BY <1>1, <1>2, <1>3 DEF PopSucceeds, Least
  <1>5. head' = Advanced(head, size)
    BY <1>4 DEF Pop
  <1>6. Advanced(head, size) \in Slots
    BY <1>1, <1>3, <1>4, PoppedSize
  <1> QED
    BY <1>1, <1>2, <1>4, <1>5, <1>6

LEMMA PopKeeps ==
    ASSUME SendInvariant, Pop
    PROVE  SendInvariant'
  <1>1. TypeOK'
    <2>1. TypeOK /\ UNCHANGED <<tail, pBuffer, senderVars, from, size, ready, history>>
      BY DEF SendInvariant, Pop
    <2>2. size \in 1 .. MaxBufferSize - 1 /\ size \in 0 .. MaxBufferSize - 1
      <3>1. size \in 1 .. DataAvailable(head, tail) /\ MaxBufferSize \in Nat
        BY PopSizes, ConstantsType
      <3>2. DataAvailable(head, tail) \in 0 .. MaxBufferSize - 1
        BY <2>1, SizesType DEF TypeOK
      <3> QED
        BY <3>1, <3>2
    <2>3. /\ Taken(pBuffer, head, size) \in Seq(Value)
          /\ Len(Taken(pBuffer, head, size)) = size
      <3>1. pBuffer \in [Slots -> Value] /\ head \in Slots
        BY <2>1, Zenon DEF TypeOK, Value
      <3>2. Reads(Taken(pBuffer, head, size), Value, pBuffer, head, size)
        BY <2>2, <3>1, TakenAt, Zenon
      <3> QED
        BY <3>2, Zenon DEF Reads
    <2>4. \A i \in 1 .. size : Taken(pBuffer, head, size)[i] \in Value
      BY <2>3, ElementOfSeq
    <2>5. writeBufs' = [i \in 1 .. WriteSize |->
                           IF i <= size THEN Taken(pBuffer, head, size)[i] ELSE writeBufs[i]]
      BY PopSizes DEF Pop
    <2>6. \A i \in 1 .. WriteSize : i <= size => i \in 1 .. size
      BY <2>2
    <2>7. writeBufs' \in [1 .. WriteSize -> Value]
      BY <2>1, <2>4, <2>5, <2>6 DEF TypeOK, Value
    <2>8. writer' = "write"
      BY DEF Pop
    <2> QED
      BY <2>1, <2>7, <2>8, PopSizes DEF TypeOK, Value, senderVars, history
  <1>2. PushUnderWay' /\ SizeIsThere'
    <2>1. stores' = {} /\ writer' = "write" /\ size' = size
      BY PopSizes DEF Pop, senderVars
    <2> QED
      BY <2>1, PopSizes DEF PushUnderWay, SizeIsThere
  <1> QED
    BY <1>1, <1>2 DEF SendInvariant

LEMMA WriteThreadKeeps ==
    ASSUME SendInvariant, WriteThread
    PROVE  SendInvariant'
  <1>0. TypeOK /\ PushUnderWay /\ SizeIsThere
    BY DEF SendInvariant
  <1>1. CASE LoadHead
    <2>1. /\ UNCHANGED <<ring, senderVars>> /\ from' = head /\ writer' = "load tail"
          /\ UNCHANGED <<size, writeBufs, ready, history>>
      BY <1>1 DEF LoadHead
    <2>2. Full \/ head = HeadAfterPush
      BY <1>0, OverwriteFills DEF HeadAfterPush
    <2>3. TypeOK'
      BY <1>0, <2>1 DEF TypeOK, ring, senderVars, history
    <2>4. PushUnderWay' /\ SizeIsThere'
      BY <1>0, <2>1, <2>2, LooksKeepRing DEF SizeIsThere
    <2> QED
      BY <2>3, <2>4 DEF SendInvariant
  <1>2. CASE LoadTail
    <2>1. /\ UNCHANGED <<ring, senderVars>> /\ size' = Least(DataAvailable(from, tail), WriteSize)
          /\ UNCHANGED <<from, writeBufs, ready, history>>
          /\ writer = "load tail" /\ writer' = IF size' # 0 THEN "status" ELSE "load head"
      BY <1>2 DEF LoadTail
    <2>2. size' \in 0 .. Least(WriteSize, MaxBufferSize - 1) /\ size' \in 0 .. Waiting
      BY <1>0, <2>1, LoadedSize DEF SizeIsThere
    <2>3. TypeOK'
      BY <1>0, <2>1, <2>2 DEF TypeOK, ring, senderVars, history
    <2>4. Waiting \in Nat /\ (size' # 0 => size' \in 1 .. Waiting)
      BY <1>0, <2>2, AfterPushType, ConstantsType
    <2>5. PushUnderWay' /\ SizeIsThere'
      BY <1>0, <2>1, <2>4, LooksKeepRing DEF SizeIsThere
    <2> QED
      BY <2>3, <2>5 DEF SendInvariant
  <1>3. CASE CheckStatus
    <2>1. /\ UNCHANGED <<ring, senderVars, from, size, writeBufs, ready, history>>
          /\ writer = "status" /\ writer' = IF ready THEN "pop" ELSE "load head"
      BY <1>3 DEF CheckStatus
    <2>2. TypeOK'
      BY <1>0, <2>1 DEF TypeOK, ring, senderVars, history
    <2>3. PushUnderWay' /\ SizeIsThere'
      BY <1>0, <2>1, LooksKeepRing DEF SizeIsThere
    <2> QED
      BY <2>2, <2>3 DEF SendInvariant
  <1>4. CASE Pop
    BY <1>4, PopKeeps
  <1>5. CASE Write
    <2>1. /\ UNCHANGED <<ring, senderVars, from, size, writeBufs, ready, dropped>>
          /\ writer = "write" /\ writer' = "load head"
      BY <1>5 DEF Write
    <2>2. PICK n \in 0 .. size :
              /\ line' = line \o SubSeq(writeBufs, 1, n)
              /\ unwritten' = unwritten \cup {writeBufs[i] : i \in n + 1 .. size}
      BY <1>5 DEF Write
    <2>3. /\ size \in 0 .. WriteSize /\ n \in 0 .. WriteSize
          /\ \A i \in n + 1 .. size : i \in 1 .. WriteSize
      <3>1. size \in 0 .. Least(WriteSize, MaxBufferSize - 1)
        BY <1>0 DEF TypeOK
      <3>2. WriteSize \in Nat /\ MaxBufferSize \in Nat \ {0, 1}
        BY ConstantsType
      <3>3. size \in 0 .. WriteSize
        BY <3>1, <3>2 DEF Least
      <3> QED
        BY <3>2, <3>3
    <2>4. writeBufs \in Seq(Value) /\ Len(writeBufs) = WriteSize
      <3>1. writeBufs \in [1 .. WriteSize -> Value] /\ WriteSize \in Nat
        BY <1>0, ConstantsType DEF TypeOK, Value
      <3> QED
        BY <3>1
    <2>5. SubSeq(writeBufs, 1, n) \in Seq(Value)
      <3>1. 0 \in Nat /\ n \in 0 .. Len(writeBufs) /\ 0 + 1 = 1
        BY <2>3, <2>4
      <3>2. IsPiece(SubSeq(writeBufs, 0 + 1, n), Value, writeBufs, 0, n)
        BY <2>4, <3>1, PieceOfSeq, Zenon
      <3> QED
        BY <3>1, <3>2, Zenon DEF IsPiece
    <2>6. line' \in Seq(0 .. StreamLength)
      <3>1. line \in Seq(Value)
        BY <1>0 DEF TypeOK, Value
      <3> QED
        BY <2>2, <2>5, <3>1 DEF Value
    <2>7. unwritten' \subseteq 0 .. StreamLength
      BY <1>0, <2>2, <2>3 DEF TypeOK
    <2>8. TypeOK'
      BY <1>0, <2>1, <2>6, <2>7 DEF TypeOK, ring, senderVars
    <2>9. PushUnderWay' /\ SizeIsThere'
      BY <1>0, <2>1, LooksKeepRing DEF SizeIsThere
    <2> QED
      BY <2>8, <2>9 DEF SendInvariant
  <1> QED
    BY <1>1, <1>2, <1>3, <1>4, <1>5 DEF WriteThread

LEMMA InvariantStep == SendInvariant /\ [Next]_vars => SendInvariant'
  <1> SUFFICES ASSUME SendInvariant, [Next]_vars
               PROVE  SendInvariant'
    OBVIOUS
  <1>1. ASSUME UNCHANGED <<ring, senderVars, writerVars, history>>, ready' \in BOOLEAN
        PROVE  SendInvariant'
    <2>1. TypeOK'
      BY <1>1 DEF SendInvariant, TypeOK, ring, senderVars, writerVars, history
    <2>2. PushUnderWay' /\ SizeIsThere'
      BY <1>1, LooksKeepRing DEF SendInvariant, SizeIsThere, writerVars
    <2> QED
      BY <2>1, <2>2 DEF SendInvariant
  <1>2. CASE ReadyChanges
    BY <1>1, <1>2 DEF ReadyChanges
  <1>3. CASE UNCHANGED vars
    BY <1>1, <1>3 DEF vars, SendInvariant, TypeOK
  <1> QED
    BY <1>2, <1>3, FinishKeeps, WriteDataKeeps, WriteThreadKeeps DEF Next, Sender

-----------------------------------------------------------------------------
(* The invariant of the sending side.                                      *)
THEOREM SendCorrect == Spec => []SendInvariant
  BY InvariantInit, InvariantStep, PTL DEF Spec

(* Positions, sizes and bytes keep their types.                            *)
THEOREM TypeCorrect == Spec => []TypeOK
  BY SendCorrect, PTL DEF SendInvariant

(* The bytes whose number WriteThread computed from two unlocked loads are *)
(* there when it pops them, for every ring, packet and write size.         *)
THEOREM PopFindsItsBytes == Spec => []PopNeverFails
  <1>1. SendInvariant => PopNeverFails
    <2> SUFFICES ASSUME SendInvariant, writer = "pop", mutex = "free"
                 PROVE  PopSucceeds
      BY DEF PopNeverFails
    <2>1. stores = {} /\ size \in 1 .. Waiting /\ head \in Slots /\ tail \in Slots
      BY DEF SendInvariant, TypeOK, PushUnderWay, SizeIsThere
    <2>2. Waiting = DataAvailable(head, tail)
      BY <2>1 DEF HeadAfterPush, TailAfterPush, Waiting
    <2>3. DataAvailable(head, tail) \in Nat /\ (tail = head <=> DataAvailable(head, tail) = 0)
      BY <2>1, SizesType, ConstantsType
    <2> QED
      BY <2>1, <2>2, <2>3 DEF PopSucceeds
  <1> QED
    BY <1>1, SendCorrect, PTL

-----------------------------------------------------------------------------
(* The sending side implements the byte channel.                           *)

\* The values of the channel's variables.
LEMMA ChannelType ==
    ASSUME TypeOK
    PROVE  /\ Held \in Seq(Value) /\ Len(Held) = Waiting
           /\ writeBufs \in Seq(Value) /\ Len(writeBufs) = WriteSize
           /\ size \in 0 .. WriteSize /\ accepted \in Nat
  <1>1. pBuffer \in [Slots -> Value]
    BY DEF TypeOK, Value
  <1>2. Held \in Seq(Value) /\ Len(Held) = Waiting
    <2>1. HeadAfterPush \in Slots /\ TailAfterPush \in Slots
      BY AfterPushType, Zenon
    <2>2. Reads(Held, Value, pBuffer, HeadAfterPush, Waiting)
      BY <1>1, <2>1, ContentsAt, Zenon DEF Held, Waiting
    <2> QED
      BY <2>2, Zenon DEF Reads
  <1>3. WriteSize \in Nat /\ MaxBufferSize \in Nat \ {0, 1} /\ StreamLength \in Nat
    BY ConstantsType
  <1>4. writeBufs \in Seq(Value) /\ Len(writeBufs) = WriteSize
    <2>1. writeBufs \in [1 .. WriteSize -> Value]
      BY DEF TypeOK, Value
    <2> QED
      BY <1>3, <2>1
  <1>5. size \in 0 .. WriteSize
    <2>1. size \in 0 .. Least(WriteSize, MaxBufferSize - 1)
      BY DEF TypeOK
    <2> QED
      BY <1>3, <2>1 DEF Least
  <1>6. accepted \in Nat
    <2>1. accepted \in 0 .. StreamLength
      BY DEF TypeOK
    <2> QED
      BY <1>3, <2>1
  <1> QED
    BY <1>2, <1>4, <1>5, <1>6

\* A packet is accepted as one block.
LEMMA WriteDataAccepts ==
    ASSUME SendInvariant, NEW n \in PacketSizes, WriteData(n)
    PROVE  Channel!Accept(n)
  <1> DEFINE packet == [i \in 1 .. n |-> accepted + i]
  <1>1. /\ TypeOK /\ stores = {} /\ head \in Slots /\ tail \in Slots
        /\ pBuffer \in [Slots -> Value]
        /\ head' = head /\ tail' = tail /\ after' = Advanced(tail, n)
        /\ stores' = IF n - FreeSpace(head, tail) > 0 THEN {"tail", "head"} ELSE {"tail"}
        /\ pBuffer' = Stored(pBuffer, tail, packet)
        /\ accepted' = accepted + n
        /\ UNCHANGED <<writer, size, writeBufs, line>>
    BY DEF SendInvariant, TypeOK, PushUnderWay, WriteData, Push, Value, writerVars
  <1>2. /\ packet \in Seq(Value) /\ Len(packet) = n
        /\ n \in 1 .. MaxBufferSize - 1 /\ MaxBufferSize \in Nat
    BY <1>1, PacketType, ConstantsType DEF WriteData, Push
  <1>3. Channel!Numbered(accepted, n) = packet
    BY DEF Channel!Numbered
  <1> HIDE DEF packet
  <1>4. Held = Contents(pBuffer, head, tail)
    BY <1>1 DEF Held, HeadAfterPush, TailAfterPush
  <1>5. TailAfterPush' = after'
    BY WriteDataSizes
  <1>6. /\ Held \in Seq(Value) /\ Len(Held) = DataAvailable(head, tail)
        /\ Len(Held \o packet) = DataAvailable(head, tail) + n
        /\ FreeSpace(head, tail) = MaxBufferSize - 1 - DataAvailable(head, tail)
        /\ DataAvailable(head, tail) \in 0 .. MaxBufferSize - 1
    <2>1. /\ Held \in Seq(Value) /\ Len(Held) = DataAvailable(head, tail)
          /\ FreeSpace(head, tail) = MaxBufferSize - 1 - DataAvailable(head, tail)
          /\ DataAvailable(head, tail) \in 0 .. MaxBufferSize - 1
      <3>1. /\ Contents(pBuffer, head, tail) \in Seq(Value)
            /\ Len(Contents(pBuffer, head, tail)) = DataAvailable(head, tail)
        <4>1. Reads(Contents(pBuffer, head, tail), Value, pBuffer, head, DataAvailable(head, tail))
          BY <1>1, ContentsAt, Zenon
        <4> QED
          BY <4>1, Zenon DEF Reads
      <3>2. /\ FreeSpace(head, tail) = MaxBufferSize - 1 - DataAvailable(head, tail)
            /\ DataAvailable(head, tail) \in 0 .. MaxBufferSize - 1
        BY <1>1, SizesType
      <3> QED
        BY <1>4, <3>1, <3>2
    <2>2. Len(Held \o packet) = Len(Held) + Len(packet)
      BY <1>2, <2>1
    <2> QED
      BY <1>2, <2>1, <2>2
  <1>7. Held' = Channel!Newest(Held \o packet, MaxBufferSize - 1)
    <2>1. CASE n <= FreeSpace(head, tail)
      <3>1. stores' = {"tail"}
        BY <1>1, <1>2, <1>6, <2>1
      <3>2. HeadAfterPush' = head
        BY <1>1, <3>1 DEF HeadAfterPush
      <3>3. Held' = Contents(Stored(pBuffer, tail, packet), head, Advanced(tail, n))
        BY <1>1, <1>5, <3>2 DEF Held
      <3>4. Held' = Held \o packet
        <4>1. Appends(pBuffer, head, tail, packet)
          BY <1>1, <1>2, <2>1, PushAppends, Zenon
        <4> QED
          BY <1>2, <1>4, <3>3, <4>1, Zenon DEF Appends
      <3> QED
        BY <1>2, <1>6, <2>1, <3>4 DEF Channel!Newest
    <2>2. CASE n > FreeSpace(head, tail)
      <3>1. "head" \in stores'
        BY <1>1, <1>2, <1>6, <2>2
      <3>2. HeadAfterPush' = HeadAfterOverwrite(after')
        BY <3>1 DEF HeadAfterPush
      <3>3. Held' = Contents(Stored(pBuffer, tail, packet),
                             HeadAfterOverwrite(Advanced(tail, n)), Advanced(tail, n))
        BY <1>1, <1>5, <3>2 DEF Held
      <3>4. Len(packet) < MaxBufferSize /\ Len(packet) > FreeSpace(head, tail)
        BY <1>2, <2>2
      <3>5. Held' = SubSeq(Held \o packet, Len(Held \o packet) - (MaxBufferSize - 1) + 1,
                           Len(Held \o packet))
        <4>1. KeepsNewest(pBuffer, head, tail, packet)
          BY <1>1, <1>2, <3>4, OverwriteKeepsNewest, Zenon
        <4> QED
          BY <1>2, <1>4, <3>3, <4>1, Zenon DEF KeepsNewest
      <3>6. ~(Len(Held \o packet) <= MaxBufferSize - 1)
        BY <1>2, <1>6, <2>2
      <3> QED
        BY <3>5, <3>6 DEF Channel!Newest
    <2> QED
      BY <1>2, <1>6, <2>1, <2>2
  <1>8. UNCHANGED <<InFlight, line>>
    BY <1>1 DEF InFlight
  <1> QED
    BY <1>1, <1>3, <1>7, <1>8 DEF Channel!Accept

\* A pop takes bytes for transmission.
LEMMA PopTakes ==
    ASSUME SendInvariant, Pop
    PROVE  size \in 1 .. WriteSize /\ Channel!Take(size)
  <1>1. /\ TypeOK /\ head \in Slots /\ tail \in Slots /\ pBuffer \in [Slots -> Value]
        /\ writer = "pop" /\ writer' = "write"
        /\ UNCHANGED <<tail, pBuffer, stores, after, size, accepted, line>>
    BY DEF SendInvariant, TypeOK, Pop, Value, senderVars, history
  <1>2. /\ stores = {} /\ size \in 1 .. DataAvailable(head, tail) /\ size \in 1 .. WriteSize
        /\ head' = Advanced(head, size) /\ PopSucceeds
        /\ size \in 0 .. DataAvailable(head, tail)
        /\ DataAvailable(head, tail) \in 0 .. MaxBufferSize - 1 /\ MaxBufferSize \in Nat
    <2>1. /\ stores = {} /\ size \in 1 .. DataAvailable(head, tail) /\ size \in 1 .. WriteSize
          /\ head' = Advanced(head, size) /\ PopSucceeds
      BY PopSizes
    <2>2. DataAvailable(head, tail) \in 0 .. MaxBufferSize - 1 /\ MaxBufferSize \in Nat
      BY <1>1, SizesType, ConstantsType
    <2> QED
      BY <2>1, <2>2
  <1>3. Held = Contents(pBuffer, head, tail)
    BY <1>2 DEF Held, HeadAfterPush, TailAfterPush
  <1>4. Len(Held) = DataAvailable(head, tail) /\ Held \in Seq(Value)
    <2>1. Reads(Held, Value, pBuffer, head, DataAvailable(head, tail))
      BY <1>1, <1>3, ContentsAt, Zenon
    <2> QED
      BY <2>1, Zenon DEF Reads
  <1>5. Held' = SubSeq(Held, size + 1, Len(Held))
    <2>1. Held' = Contents(pBuffer, Advanced(head, size), tail)
      BY <1>1, <1>2 DEF Held, HeadAfterPush, TailAfterPush
    <2>2. Advanced(head, size) = SlotAfter(head, size)
      BY <1>1, <1>2, PoppedSize
    <2> QED
      <3>1. Contents(pBuffer, SlotAfter(head, size), tail)
                = SubSeq(Contents(pBuffer, head, tail), size + 1, DataAvailable(head, tail))
        BY <1>1, <1>2, AdvanceDrops, Zenon
      <3> QED
        BY <1>3, <1>4, <2>1, <2>2, <3>1, Zenon
  <1>6. InFlight' = SubSeq(Held, 1, size)
    <2> DEFINE popped == Taken(pBuffer, head, size)
    <2>1. popped = SubSeq(Held, 1, size)
      BY <1>1, <1>2, <1>3, PopTakesOldest
    <2>2. popped \in Seq(Value) /\ Len(popped) = size
      <3>1. size \in 0 .. MaxBufferSize - 1
        BY <1>2
      <3> QED
        <4>1. Reads(popped, Value, pBuffer, head, size)
          BY <1>1, <3>1, TakenAt, Zenon
        <4> QED
          BY <4>1, Zenon DEF Reads
    <2>3. writeBufs' = [i \in 1 .. WriteSize |-> IF i <= size THEN popped[i] ELSE writeBufs[i]]
      BY <1>2 DEF Pop
    <2> HIDE DEF popped
    <2>4. /\ writeBufs \in Seq(Value) /\ Len(writeBufs) = WriteSize /\ WriteSize \in Nat
          /\ size \in 0 .. WriteSize /\ size \in Nat
      BY <1>1, <1>2, ChannelType, ConstantsType
    <2>5. SubSeq(writeBufs', 1, size) = popped
      BY <2>2, <2>3, <2>4
    <2> QED
      BY <1>1, <2>1, <2>5 DEF InFlight
  <1>7. InFlight = << >>
    BY <1>1 DEF InFlight
  <1> QED
    BY <1>1, <1>2, <1>4, <1>5, <1>6, <1>7 DEF Channel!Take

\* A write transmits what the device takes.
LEMMA WriteTransmits ==
    ASSUME SendInvariant, Write
    PROVE  \E n \in 0 .. WriteSize : Channel!Transmit(n)
  <1>1. PICK n \in 0 .. size : line' = line \o SubSeq(writeBufs, 1, n)
    BY DEF Write
  <1>2. /\ TypeOK /\ writer = "write" /\ writer' = "load head"
        /\ UNCHANGED <<ring, senderVars>>
    BY DEF SendInvariant, Write
  <1>3. /\ writeBufs \in Seq(Value) /\ Len(writeBufs) = WriteSize /\ WriteSize \in Nat
        /\ size \in 0 .. WriteSize /\ n \in 0 .. WriteSize /\ n <= size
    <2>1. /\ writeBufs \in Seq(Value) /\ Len(writeBufs) = WriteSize /\ WriteSize \in Nat
          /\ size \in 0 .. WriteSize
      BY <1>2, ChannelType, ConstantsType
    <2> QED
      BY <1>1, <2>1
  <1>4. InFlight = SubSeq(writeBufs, 1, size) /\ InFlight' = << >>
    BY <1>2 DEF InFlight
  <1>5. /\ Len(SubSeq(writeBufs, 1, size)) = size
        /\ SubSeq(SubSeq(writeBufs, 1, size), 1, n) = SubSeq(writeBufs, 1, n)
    BY <1>3
  <1>6. Held' = Held /\ accepted' = accepted
    BY <1>2, LooksKeepRing DEF Held, ring, senderVars
  <1> QED
    BY <1>1, <1>3, <1>4, <1>5, <1>6 DEF Channel!Transmit

(* Whatever senders and WriteThread do, the sending side is a bounded      *)
(* queue that loses only its oldest bytes and the rest of a write, for     *)
(* every ring, packet and write size.                                      *)
THEOREM Implementation == Spec => ImplementsByteChannel
  <1>1. Init => Channel!Init
    <2> SUFFICES ASSUME Init
                 PROVE  Channel!Init
      OBVIOUS
    <2>1. /\ head = 0 /\ tail = 0 /\ stores = {} /\ accepted = 0 /\ line = << >>
          /\ writer = "load head"
      BY DEF Init
    <2>2. TypeOK
      BY InvariantInit DEF SendInvariant
    <2>3. Waiting = 0
      <3>1. HeadAfterPush = 0 /\ TailAfterPush = 0
        BY <2>1 DEF HeadAfterPush, TailAfterPush
      <3>2. DataAvailable(0, 0) = 0
        BY DEF DataAvailable
      <3> QED
        BY <3>1, <3>2 DEF Waiting
    <2>4. Held = << >>
      BY <2>2, <2>3, ChannelType, EmptySeq
    <2> QED
      BY <2>1, <2>4 DEF Channel!Init, InFlight
  <1>2. SendInvariant /\ [Next]_vars => [Channel!Next]_Channel!vars
    <2> SUFFICES ASSUME SendInvariant, [Next]_vars
                 PROVE  [Channel!Next]_Channel!vars
      OBVIOUS
    <2>1. CASE \E n \in PacketSizes : WriteData(n)
      BY <2>1, WriteDataAccepts DEF Channel!Next
    <2>2. CASE Finish
      <3>1. HeadAfterPush' = HeadAfterPush /\ TailAfterPush' = TailAfterPush
        BY <2>2, FinishKeepsRing DEF SendInvariant
      <3>2. UNCHANGED <<pBuffer, accepted, writer, size, writeBufs, line>>
        BY <2>2 DEF Finish, StoreTail, StoreHead, Unlock, ring, writerVars, history
      <3> QED
        BY <3>1, <3>2 DEF Held, InFlight, Channel!vars
    <2>3. CASE LoadHead \/ LoadTail \/ CheckStatus \/ ReadyChanges
      <3>1. UNCHANGED <<ring, senderVars, line>> /\ InFlight' = InFlight
        BY <2>3 DEF LoadHead, LoadTail, CheckStatus, ReadyChanges, InFlight, writerVars, history
      <3> QED
        BY <3>1, LooksKeepRing DEF Held, ring, senderVars, Channel!vars
    <2>4. CASE Pop
      BY <2>4, PopTakes DEF Channel!Next
    <2>5. CASE Write
      BY <2>5, WriteTransmits DEF Channel!Next
    <2>6. CASE UNCHANGED vars
      <3>1. UNCHANGED <<ring, senderVars, line>> /\ InFlight' = InFlight
        BY <2>6 DEF vars, InFlight, writerVars, history
      <3> QED
        BY <3>1, LooksKeepRing DEF Held, ring, senderVars, Channel!vars
    <2> QED
      BY <2>1, <2>2, <2>3, <2>4, <2>5, <2>6 DEF Next, Sender, WriteThread
  <1> QED
    BY <1>1, <1>2, SendCorrect, PTL DEF Spec, ImplementsByteChannel, Channel!Spec

-----------------------------------------------------------------------------
(* Every accepted byte is in one place.  The bytes in the ring are the     *)
(* newest ones, without a gap; so those that have left it are the numbers  *)
(* from 1 on, and the invariant says where each of them went.              *)

Elements(s) == {s[i] : i \in DOMAIN s}

\* How many bytes have left the ring.
Departed == accepted - Waiting

RingNumbered ==
    /\ Departed \in Nat
    /\ \A i \in 1 .. Waiting : Held[i] = Departed + i

FlightDistinct ==
    writer = "write" => \A i, j \in 1 .. size : writeBufs[i] = writeBufs[j] => i = j

\* Each part that an action changes is disjoint from the others.
Apart(A, B, C, D) ==
    /\ A \cap B = {} /\ A \cap C = {} /\ A \cap D = {}
    /\ B \cap C = {} /\ B \cap D = {} /\ C \cap D = {}

\* The numbers up to k are each in one of four places.
Places(A, B, C, D, k) ==
    /\ A \cup B \cup C \cup D = 1 .. k
    /\ Apart(A, B, C, D)

DepartedOnce ==
    Places(Elements(line), Elements(InFlight), dropped, unwritten, Departed)

AccountInvariant == RingNumbered /\ FlightDistinct /\ DepartedOnce

LEMMA ElementsOfPrefix ==
    ASSUME NEW S, NEW s \in Seq(S), NEW n \in 0 .. Len(s)
    PROVE  Elements(SubSeq(s, 1, n)) = {s[i] : i \in 1 .. n}
  <1>1. DOMAIN SubSeq(s, 1, n) = 1 .. n /\ \A i \in 1 .. n : SubSeq(s, 1, n)[i] = s[i]
    OBVIOUS
  <1> QED
    BY <1>1 DEF Elements

\* all has the elements of s and those of t.
HasElements(all, s, t) == Elements(all) = Elements(s) \cup Elements(t)

LEMMA ElementsOfAppend ==
    ASSUME NEW S, NEW s \in Seq(S), NEW t \in Seq(S)
    PROVE  HasElements(s \o t, s, t)
  <1>1. /\ Len(s) \in Nat /\ Len(t) \in Nat
        /\ DOMAIN s = 1 .. Len(s) /\ DOMAIN t = 1 .. Len(t)
        /\ DOMAIN (s \o t) = 1 .. Len(s) + Len(t)
        /\ \A i \in 1 .. Len(s) : (s \o t)[i] = s[i]
        /\ \A i \in 1 .. Len(t) : (s \o t)[Len(s) + i] = t[i]
    OBVIOUS
  <1>2. ASSUME NEW x \in Elements(s \o t)
        PROVE  x \in Elements(s) \cup Elements(t)
    <2>1. PICK i \in 1 .. Len(s) + Len(t) : x = (s \o t)[i]
      BY <1>1 DEF Elements
    <2>2. CASE i <= Len(s)
      BY <1>1, <2>1, <2>2 DEF Elements
    <2>3. CASE i > Len(s)
      <3>1. i - Len(s) \in 1 .. Len(t) /\ i = Len(s) + (i - Len(s))
        BY <1>1, <2>3
      <3>2. x = t[i - Len(s)]
        BY <1>1, <2>1, <3>1
      <3> QED
        BY <1>1, <3>1, <3>2 DEF Elements
    <2> QED
      BY <1>1, <2>2, <2>3
  <1>3. ASSUME NEW x \in Elements(s)
        PROVE  x \in Elements(s \o t)
    BY <1>1 DEF Elements
  <1>4. ASSUME NEW x \in Elements(t)
        PROVE  x \in Elements(s \o t)
    <2>1. PICK i \in 1 .. Len(t) : x = t[i]
      BY <1>1 DEF Elements
    <2>2. Len(s) + i \in 1 .. Len(s) + Len(t)
      BY <1>1
    <2> QED
      BY <1>1, <2>1, <2>2 DEF Elements
  <1> QED
    BY <1>2, <1>3, <1>4 DEF HasElements

\* Numbers above those that have departed go to one of the four places.
LEMMA NewOnesApart ==
    ASSUME NEW A, NEW B, NEW C, NEW D, NEW k \in Nat, NEW m \in Nat, k <= m,
           Places(A, B, C, D, k)
    PROVE  /\ Places(A, B, C \cup (k + 1 .. m), D, m)
           /\ B = {} => Places(A, k + 1 .. m, C, D, m)
  <1>1. (1 .. k) \cup (k + 1 .. m) = 1 .. m /\ (1 .. k) \cap (k + 1 .. m) = {}
    OBVIOUS
  <1> QED
    BY <1>1, Zenon DEF Places, Apart

LEMMA AccountInit == Init => AccountInvariant
  <1> SUFFICES ASSUME Init
               PROVE  AccountInvariant
    OBVIOUS
  <1>1. head = 0 /\ tail = 0 /\ accepted = 0
    BY DEF Init
  <1>2. stores = {} /\ dropped = {} /\ unwritten = {} /\ line = << >>
    BY DEF Init
  <1>3. writer # "write"
    BY DEF Init
  <1>4. Waiting = 0
    <2>1. HeadAfterPush = 0 /\ TailAfterPush = 0
      BY <1>1, <1>2 DEF HeadAfterPush, TailAfterPush
    <2>2. DataAvailable(0, 0) = 0
      BY DEF DataAvailable
    <2> QED
      BY <2>1, <2>2 DEF Waiting
  <1>5. Departed = 0
    BY <1>1, <1>4 DEF Departed
  <1>6. RingNumbered
    BY <1>4, <1>5 DEF RingNumbered
  <1>7. FlightDistinct
    BY <1>3 DEF FlightDistinct
  <1>8. DepartedOnce
    <2>1. Elements(<< >>) = {}
      BY DEF Elements
    <2>2. Elements(line) = {} /\ Elements(InFlight) = {}
      BY <1>2, <1>3, <2>1 DEF InFlight
    <2>3. 1 .. Departed = {}
      BY <1>5
    <2> QED
      BY <1>2, <2>2, <2>3 DEF DepartedOnce, Places, Apart
  <1> QED
    BY <1>6, <1>7, <1>8 DEF AccountInvariant

\* A step that moves no byte.
LEMMA AccountStays ==
    ASSUME AccountInvariant,
           UNCHANGED <<accepted, Waiting, Held, InFlight, line, dropped, unwritten>>,
           writer' # "write" \/ UNCHANGED <<writer, size, writeBufs>>
    PROVE  AccountInvariant'
  <1>1. Departed' = Departed
    BY DEF Departed
  <1> QED
    BY <1>1 DEF AccountInvariant, RingNumbered, FlightDistinct, DepartedOnce

\* What an overflow drops are the oldest bytes of the ring.
LEMMA WriteDataAccounts ==
    ASSUME SendInvariant, AccountInvariant, NEW n \in PacketSizes, WriteData(n)
    PROVE  AccountInvariant'
  <1> DEFINE cap    == MaxBufferSize - 1
             packet == [i \in 1 .. n |-> accepted + i]
             all    == Held \o packet
             excess == n - FreeSpace(head, tail)
  <1>1. /\ TypeOK /\ stores = {} /\ head \in Slots /\ tail \in Slots
        /\ accepted' = accepted + n
        /\ dropped' = dropped \cup {Contents(pBuffer, head, tail)[i] : i \in 1 .. excess}
        /\ UNCHANGED <<writer, size, writeBufs, line, unwritten>>
    BY DEF SendInvariant, PushUnderWay, WriteData, Push, TypeOK, writerVars
  <1>2. /\ packet \in Seq(Value) /\ Len(packet) = n /\ n \in 1 .. cap /\ cap \in Nat
        /\ \A i \in 1 .. n : packet[i] = accepted + i
    BY <1>1, PacketType, ConstantsType DEF WriteData, Push
  <1>3. /\ Held' = Channel!Newest(all, cap) /\ InFlight' = InFlight
    <2>1. Channel!Accept(n) /\ Channel!Numbered(accepted, n) = packet
      BY WriteDataAccepts DEF Channel!Numbered
    <2> QED
      BY <2>1 DEF Channel!Accept
  <1>4. /\ Held = Contents(pBuffer, head, tail) /\ Waiting = DataAvailable(head, tail)
    BY <1>1 DEF Held, Waiting, HeadAfterPush, TailAfterPush
  <1>5. FreeSpace(head, tail) = cap - DataAvailable(head, tail)
    BY <1>1, SizesType
  <1>6. /\ Held \in Seq(Value) /\ Len(Held) = Waiting /\ accepted \in Nat
        /\ Waiting \in 0 .. cap
    BY <1>1, ChannelType, AfterPushType
  <1>7. /\ Departed = accepted - Waiting /\ Departed \in Nat
        /\ \A i \in 1 .. Waiting : Held[i] = Departed + i
    BY DEF AccountInvariant, RingNumbered, Departed
  <1>8. excess = n - (cap - Waiting)
    BY <1>4, <1>5
  <1>9. Len(Held') = Waiting'
    <2>1. TypeOK'
      BY WriteDataKeeps DEF SendInvariant
    <2>2. pBuffer' \in [Slots -> Value]
      BY <2>1 DEF TypeOK, Value
    <2>3. HeadAfterPush' \in Slots /\ TailAfterPush' \in Slots
      BY <2>1, OverwrittenSize DEF TypeOK, HeadAfterPush, TailAfterPush
    <2> QED
      <3>1. Reads(Held', Value, pBuffer', HeadAfterPush', Waiting')
        BY <2>2, <2>3, ContentsAt, Zenon DEF Held, Waiting
      <3> QED
        BY <3>1, Zenon DEF Reads
  <1> HIDE DEF packet, excess, cap
  <1>10. /\ Len(all) = Waiting + n /\ all \in Seq(Value)
         /\ \A i \in 1 .. Waiting + n : all[i] = Departed + i
    <2>1. Len(all) = Waiting + n /\ all \in Seq(Value)
      BY <1>2, <1>6
    <2>2. ASSUME NEW i \in 1 .. Waiting + n
          PROVE  all[i] = Departed + i
      <3>1. CASE i <= Waiting
        BY <1>2, <1>6, <1>7, <3>1
      <3>2. CASE i > Waiting
        <4>1. i - Waiting \in 1 .. n
          BY <1>2, <1>6, <3>2
        <4>2. \A k \in 1 .. Len(packet) : (Held \o packet)[Len(Held) + k] = packet[k]
          <5>1. Held \in Seq(Value) /\ packet \in Seq(Value)
            BY <1>2, <1>6
          <5> QED
            BY <5>1
        <4>3. i = Len(Held) + (i - Waiting)
          BY <1>2, <1>6
        <4>4. all[i] = packet[i - Waiting]
          BY <1>2, <4>1, <4>2, <4>3
        <4> QED
          BY <1>2, <1>6, <1>7, <4>1, <4>4
      <3> QED
        BY <1>2, <1>6, <3>1, <3>2
    <2> QED
      BY <2>1, <2>2
  <1>11. FlightDistinct'
    BY <1>1 DEF AccountInvariant, FlightDistinct
  <1>12. CASE excess <= 0
    <2>1. Held' = all
      BY <1>2, <1>3, <1>6, <1>8, <1>10, <1>12 DEF Channel!Newest
    <2>2. Waiting' = Waiting + n /\ Departed' = Departed
      BY <1>1, <1>2, <1>6, <1>7, <1>9, <1>10, <2>1 DEF Departed
    <2>3. RingNumbered'
      BY <1>7, <1>10, <2>1, <2>2 DEF RingNumbered
    <2>4. dropped' = dropped
      <3>1. 1 .. excess = {}
        BY <1>2, <1>6, <1>8, <1>12
      <3> QED
        BY <1>1, <3>1
    <2>5. DepartedOnce'
      BY <1>1, <1>3, <2>2, <2>4 DEF AccountInvariant, DepartedOnce
    <2> QED
      BY <1>11, <2>3, <2>5 DEF AccountInvariant
  <1>13. CASE excess > 0
    <2>1. excess \in 1 .. Waiting /\ excess + cap = Waiting + n
      BY <1>2, <1>6, <1>8, <1>13
    <2>2. Held' = SubSeq(all, excess + 1, Waiting + n)
      <3>1. ~(Len(all) <= cap) /\ Len(all) - cap + 1 = excess + 1
        BY <1>2, <1>6, <1>10, <2>1
      <3> QED
        BY <1>3, <1>10, <3>1 DEF Channel!Newest
    <2>3. Len(Held') = cap /\ \A i \in 1 .. cap : Held'[i] = all[excess + i]
      <3>1. excess \in Nat /\ Waiting + n \in excess .. Len(all) /\ (Waiting + n) - excess = cap
        BY <1>2, <1>6, <1>10, <2>1
      <3>2. /\ Len(SubSeq(all, excess + 1, Waiting + n)) = (Waiting + n) - excess
            /\ \A i \in 1 .. (Waiting + n) - excess :
                  SubSeq(all, excess + 1, Waiting + n)[i] = all[excess + i]
        <4>1. all \in Seq(Value) /\ excess \in Nat /\ Waiting + n \in excess .. Len(all)
          BY <1>10, <3>1
        <4> HIDE DEF all
        <4> QED
          <5>1. IsPiece(SubSeq(all, excess + 1, Waiting + n), Value, all, excess, Waiting + n)
            BY <4>1, PieceOfSeq, Zenon
          <5> QED
            BY <5>1 DEF IsPiece
      <3> QED
        BY <2>2, <3>1, <3>2
    <2>4. Waiting' = cap /\ Departed' = Departed + excess /\ Departed' \in Nat
      BY <1>1, <1>2, <1>6, <1>7, <1>9, <2>1, <2>3 DEF Departed
    <2>5. RingNumbered'
      <3>1. ASSUME NEW i \in 1 .. cap
            PROVE  Held'[i] = Departed' + i
        <4>1. excess + i \in 1 .. Waiting + n
          BY <1>2, <1>6, <2>1
        <4>2. all[excess + i] = Departed + (excess + i)
          BY <1>10, <4>1
        <4> QED
          BY <1>2, <1>6, <1>7, <2>1, <2>3, <2>4, <4>2
      <3> QED
        BY <2>4, <3>1 DEF RingNumbered
    <2>6. dropped' = dropped \cup (Departed + 1 .. Departed')
      <3>1. {Held[i] : i \in 1 .. excess} = Departed + 1 .. Departed + excess
        <4>1. \A i \in 1 .. excess : Held[i] = Departed + i
          BY <1>6, <1>7, <2>1
        <4>2. ASSUME NEW x \in Departed + 1 .. Departed + excess
              PROVE  \E i \in 1 .. excess : x = Held[i]
          <5>1. x - Departed \in 1 .. excess /\ x = Departed + (x - Departed)
            BY <1>6, <1>7, <2>1
          <5> QED
            BY <4>1, <5>1
        <4>3. \A i \in 1 .. excess : Departed + i \in Departed + 1 .. Departed + excess
          BY <1>6, <1>7, <2>1
        <4> QED
          BY <4>1, <4>2, <4>3
      <3> QED
        BY <1>1, <1>4, <2>4, <3>1
    <2>7. DepartedOnce'
      <3>1. /\ Elements(line)' = Elements(line) /\ Elements(InFlight)' = Elements(InFlight)
            /\ unwritten' = unwritten
        BY <1>1, <1>3 DEF Elements
      <3>2. Departed \in Nat /\ Departed' \in Nat /\ Departed <= Departed'
        BY <1>2, <1>6, <1>7, <2>1, <2>4
      <3>3. DepartedOnce
        BY DEF AccountInvariant
      <3> QED
        <4> DEFINE left == dropped \cup (Departed + 1 .. Departed')
        <4>1. Places(Elements(line), Elements(InFlight), left, unwritten, Departed')
          BY <3>2, <3>3, NewOnesApart, Zenon DEF DepartedOnce
        <4> QED
          BY <2>6, <3>1, <4>1, Zenon DEF DepartedOnce
    <2> QED
      BY <1>11, <2>5, <2>7 DEF AccountInvariant
  <1> QED
    BY <1>2, <1>6, <1>8, <1>12, <1>13

\* What a pop takes is in flight.
LEMMA PopAccounts ==
    ASSUME SendInvariant, AccountInvariant, Pop
    PROVE  AccountInvariant'
  <1>1. /\ TypeOK /\ writer = "pop" /\ writer' = "write"
        /\ UNCHANGED <<size, accepted, line, dropped, unwritten>>
    BY DEF SendInvariant, Pop, senderVars, history
  <1>2. /\ InFlight = << >> /\ Elements(InFlight) = {}
        /\ InFlight' = SubSeq(writeBufs', 1, size)
    <2>1. InFlight = << >> /\ InFlight' = SubSeq(writeBufs', 1, size)
      BY <1>1 DEF InFlight
    <2> QED
      BY <2>1 DEF Elements
  <1>3. /\ size \in 1 .. WriteSize
        /\ Held' = SubSeq(Held, size + 1, Len(Held)) /\ InFlight' = SubSeq(Held, 1, size)
    BY PopTakes DEF Channel!Take
  <1>4. /\ Held \in Seq(Value) /\ Len(Held) = Waiting /\ accepted \in Nat /\ WriteSize \in Nat
        /\ writeBufs' \in Seq(Value) /\ Len(writeBufs') = WriteSize
        /\ Len(Held') = Waiting' /\ Waiting \in Nat
    <2>1. /\ Held \in Seq(Value) /\ Len(Held) = Waiting /\ accepted \in Nat
          /\ WriteSize \in Nat /\ Waiting \in 0 .. MaxBufferSize - 1 /\ MaxBufferSize \in Nat
      BY <1>1, ChannelType, AfterPushType, ConstantsType
    <2>2. TypeOK'
      BY PopKeeps DEF SendInvariant
    <2>3. writeBufs' \in [1 .. WriteSize -> Value]
      BY <2>2 DEF TypeOK, Value
    <2>4. writeBufs' \in Seq(Value) /\ Len(writeBufs') = WriteSize
      BY <2>1, <2>3
    <2>5. /\ pBuffer' \in [Slots -> Value] /\ stores' = {}
          /\ head' \in Slots /\ tail' \in Slots
      BY <2>2, PopSizes DEF TypeOK, Value, Pop, senderVars
    <2>6. Len(Held') = Waiting'
      <3>1. HeadAfterPush' = head' /\ TailAfterPush' = tail'
        BY <2>5 DEF HeadAfterPush, TailAfterPush
      <3>2. Reads(Held', Value, pBuffer', HeadAfterPush', Waiting')
        BY <2>5, <3>1, ContentsAt, Zenon DEF Held, Waiting
      <3> QED
        BY <3>2, Zenon DEF Reads
    <2> QED
      BY <2>1, <2>4, <2>6
  <1>5. size \in 1 .. Waiting
    <2>1. size \in 1 .. Waiting
      BY <1>1 DEF SendInvariant, SizeIsThere
    <2> QED
      BY <2>1
  <1>6. /\ Departed = accepted - Waiting /\ Departed \in Nat
        /\ \A i \in 1 .. Waiting : Held[i] = Departed + i
    BY DEF AccountInvariant, RingNumbered, Departed
  <1>7. /\ Len(Held') = Waiting - size
        /\ \A i \in 1 .. Waiting - size : Held'[i] = Held[size + i]
    <2>1. size \in Nat /\ Len(Held) \in size .. Len(Held)
      BY <1>3, <1>4, <1>5
    <2> QED
      <3>1. IsPiece(Held', Value, Held, size, Len(Held))
        BY <1>3, <1>4, <2>1, PieceOfSeq, Zenon
      <3> QED
        BY <1>4, <3>1, Zenon DEF IsPiece
  <1>8. Departed' = Departed + size /\ Departed' \in Nat /\ size \in Nat
    BY <1>1, <1>4, <1>5, <1>6, <1>7 DEF Departed
  <1>9. \A i \in 1 .. size : SubSeq(Held, 1, size)[i] = Departed + i
    BY <1>4, <1>5, <1>6
  <1>10. RingNumbered'
    <2>1. ASSUME NEW i \in 1 .. Waiting'
          PROVE  Held'[i] = Departed' + i
      <3>1. i \in 1 .. Waiting - size /\ size + i \in 1 .. Waiting /\ i \in Nat
        BY <1>4, <1>5, <1>7
      <3>2. Held'[i] = Departed + (size + i)
        BY <1>6, <1>7, <3>1
      <3> QED
        BY <1>6, <1>8, <3>1, <3>2
    <2> QED
      BY <1>8, <2>1 DEF RingNumbered
  <1>11. FlightDistinct'
    <2>1. size \in 0 .. Len(writeBufs')
      BY <1>3, <1>4
    <2>2. \A i \in 1 .. size : SubSeq(writeBufs', 1, size)[i] = writeBufs'[i]
      BY <1>4, <2>1
    <2>3. \A i \in 1 .. size : writeBufs'[i] = Departed + i
      BY <1>2, <1>3, <1>9, <2>2
    <2>4. \A i, j \in 1 .. size : writeBufs'[i] = writeBufs'[j] => i = j
      BY <1>6, <1>8, <2>3
    <2> QED
      BY <1>1, <2>4 DEF FlightDistinct
  <1>12. Elements(InFlight)' = Departed + 1 .. Departed'
    <2>1. size \in 0 .. Len(Held)
      BY <1>4, <1>5
    <2>2. Elements(SubSeq(Held, 1, size)) = {Held[i] : i \in 1 .. size}
      BY <1>4, <2>1, ElementsOfPrefix
    <2>3. \A i \in 1 .. size : Held[i] = Departed + i
      BY <1>4, <1>5, <1>6
    <2>4. ASSUME NEW x \in Departed + 1 .. Departed + size
          PROVE  \E i \in 1 .. size : x = Held[i]
      <3>1. x - Departed \in 1 .. size /\ x = Departed + (x - Departed)
        BY <1>6, <1>8
      <3> QED
        BY <2>3, <3>1
    <2>5. \A i \in 1 .. size : Departed + i \in Departed + 1 .. Departed + size
      BY <1>6, <1>8
    <2>6. {Held[i] : i \in 1 .. size} = Departed + 1 .. Departed + size
      BY <2>3, <2>4, <2>5
    <2>7. Elements(InFlight)' = Elements(SubSeq(Held, 1, size))
      BY <1>3 DEF Elements
    <2> QED
      BY <1>8, <2>2, <2>6, <2>7
  <1>13. DepartedOnce'
    <2>1. Elements(line)' = Elements(line)
      BY <1>1 DEF Elements
    <2>2. Departed \in Nat /\ Departed' \in Nat /\ Departed <= Departed'
      BY <1>6, <1>8
    <2>3. DepartedOnce
      BY DEF AccountInvariant
    <2>4. Places(Elements(line), Departed + 1 .. Departed', dropped, unwritten, Departed')
      <3>1. Places(Elements(line), {}, dropped, unwritten, Departed)
        BY <1>2, <2>3, Zenon DEF DepartedOnce
      <3> QED
        BY <2>2, <3>1, NewOnesApart, Zenon
    <2> QED
      BY <1>1, <1>12, <2>1, <2>4 DEF DepartedOnce
  <1> QED
    BY <1>10, <1>11, <1>13 DEF AccountInvariant

\* What the device takes is on the line, and the rest of the write is lost.
LEMMA WriteAccounts ==
    ASSUME SendInvariant, AccountInvariant, Write
    PROVE  AccountInvariant'
  <1>1. PICK n \in 0 .. size :
            /\ line' = line \o SubSeq(writeBufs, 1, n)
            /\ unwritten' = unwritten \cup {writeBufs[i] : i \in n + 1 .. size}
    BY DEF Write
  <1>2. /\ TypeOK /\ writer = "write" /\ writer' = "load head"
        /\ UNCHANGED <<ring, senderVars, dropped>>
    BY DEF SendInvariant, Write
  <1>3. /\ writeBufs \in Seq(Value) /\ line \in Seq(Value)
        /\ size \in 0 .. Len(writeBufs) /\ n \in 0 .. Len(writeBufs)
        /\ n \in Nat /\ size \in Nat /\ n <= size
    <2>1. /\ writeBufs \in Seq(Value) /\ Len(writeBufs) = WriteSize /\ WriteSize \in Nat
          /\ size \in 0 .. WriteSize
      BY <1>2, ChannelType, ConstantsType
    <2>2. line \in Seq(Value)
      BY <1>2 DEF TypeOK, Value
    <2> QED
      BY <1>1, <2>1, <2>2
  <1> DEFINE X == {writeBufs[i] : i \in 1 .. n}
             Y == {writeBufs[i] : i \in n + 1 .. size}
  <1>4. Elements(InFlight) = X \cup Y
    <2>1. Elements(InFlight) = {writeBufs[i] : i \in 1 .. size}
      <3>1. InFlight = SubSeq(writeBufs, 1, size)
        BY <1>2 DEF InFlight
      <3> QED
        BY <1>3, <3>1, ElementsOfPrefix
    <2>2. 1 .. size = (1 .. n) \cup (n + 1 .. size)
      BY <1>3
    <2> QED
      BY <2>1, <2>2
  <1>5. X \cap Y = {}
    <2>1. \A i, j \in 1 .. size : writeBufs[i] = writeBufs[j] => i = j
      BY <1>2 DEF AccountInvariant, FlightDistinct
    <2>2. ASSUME NEW i \in 1 .. n, NEW j \in n + 1 .. size
          PROVE  i \in 1 .. size /\ j \in 1 .. size /\ i # j
      BY <1>3
    <2>3. \A i \in 1 .. n : \A j \in n + 1 .. size : writeBufs[i] # writeBufs[j]
      BY <2>1, <2>2
    <2> QED
      BY <2>3
  <1>6. Elements(line)' = Elements(line) \cup X
    <2>1. Elements(line)' = Elements(line \o SubSeq(writeBufs, 1, n))
      BY <1>1 DEF Elements
    <2>2. SubSeq(writeBufs, 1, n) \in Seq(Value)
      BY <1>3
    <2>3. Elements(SubSeq(writeBufs, 1, n)) = X
      BY <1>3, ElementsOfPrefix
    <2>4. Elements(line \o SubSeq(writeBufs, 1, n))
              = Elements(line) \cup Elements(SubSeq(writeBufs, 1, n))
      <3>1. line \in Seq(Value)
        BY <1>3, Zenon
      <3> DEFINE rest == SubSeq(writeBufs, 1, n)
      <3>2. rest \in Seq(Value)
        BY <2>2
      <3> HIDE DEF rest
      <3>3. HasElements(line \o rest, line, rest)
        BY <3>1, <3>2, ElementsOfAppend, Zenon
      <3> QED
        BY <3>3, Zenon DEF rest, HasElements
    <2> QED
      BY <2>1, <2>3, <2>4
  <1>7. Elements(InFlight)' = {}
    <2>1. InFlight' = << >>
      BY <1>2 DEF InFlight
    <2> QED
      BY <2>1 DEF Elements
  <1>8. Held' = Held /\ Waiting' = Waiting /\ accepted' = accepted
    BY <1>2, LooksKeepRing DEF Held, ring, senderVars
  <1>9. RingNumbered' /\ FlightDistinct'
    BY <1>2, <1>8 DEF AccountInvariant, RingNumbered, FlightDistinct, Departed
  <1>10. DepartedOnce'
    <2>1. Departed' = Departed
      BY <1>8 DEF Departed
    <2>2. DepartedOnce
      BY DEF AccountInvariant
    <2>3. unwritten' = unwritten \cup Y /\ dropped' = dropped
      BY <1>1, <1>2
    <2> HIDE DEF X, Y
    <2>4. /\ (Elements(line) \cup X) \cup {} \cup dropped \cup (unwritten \cup Y) = 1 .. Departed
          /\ Apart(Elements(line) \cup X, {}, dropped, unwritten \cup Y)
      BY <1>4, <1>5, <2>2, Zenon DEF DepartedOnce, Places, Apart
    <2> QED
      BY <1>6, <1>7, <2>1, <2>3, <2>4, Zenon DEF DepartedOnce, Places
  <1> QED
    BY <1>9, <1>10 DEF AccountInvariant

LEMMA AccountStep == SendInvariant /\ AccountInvariant /\ [Next]_vars => AccountInvariant'
  <1> SUFFICES ASSUME SendInvariant, AccountInvariant, [Next]_vars
               PROVE  AccountInvariant'
    OBVIOUS
  <1>1. CASE Finish
    <2>1. /\ HeadAfterPush' = HeadAfterPush /\ TailAfterPush' = TailAfterPush
          /\ Waiting' = Waiting
      BY <1>1, FinishKeepsRing DEF SendInvariant
    <2>2. UNCHANGED <<pBuffer, accepted, writer, size, writeBufs, line, dropped, unwritten>>
      BY <1>1 DEF Finish, StoreTail, StoreHead, Unlock, ring, writerVars, history
    <2>3. Held' = Held /\ InFlight' = InFlight
      BY <2>1, <2>2 DEF Held, InFlight
    <2> QED
      BY <2>1, <2>2, <2>3, AccountStays
  <1>2. CASE LoadHead \/ LoadTail \/ CheckStatus \/ ReadyChanges \/ UNCHANGED vars
    <2>1. /\ UNCHANGED <<ring, senderVars, line, dropped, unwritten>> /\ InFlight' = InFlight
          /\ writer' # "write" \/ UNCHANGED <<writer, size, writeBufs>>
      BY <1>2
      DEF LoadHead, LoadTail, CheckStatus, ReadyChanges, InFlight, vars, writerVars, history
    <2>2. Held' = Held /\ Waiting' = Waiting /\ accepted' = accepted
      BY <2>1, LooksKeepRing DEF Held, ring, senderVars
    <2> QED
      BY <2>1, <2>2, AccountStays
  <1> QED
    BY <1>1, <1>2, WriteDataAccounts, PopAccounts, WriteAccounts DEF Next, Sender, WriteThread

(* Every byte accepted from a sender is in exactly one place, on the line, *)
(* being written, in the ring or lost, for every ring, packet and write    *)
(* size.                                                                   *)
THEOREM AllAccounted == Spec => []EveryByteAccounted
  <1>1. SendInvariant /\ AccountInvariant => EveryByteAccounted
    <2> SUFFICES ASSUME SendInvariant, AccountInvariant
                 PROVE  EveryByteAccounted
      OBVIOUS
    <2> DEFINE L == Elements(line)
               F == Elements(InFlight)
               H == Elements(Held)
    <2>1. /\ Held \in Seq(Value) /\ Len(Held) = Waiting /\ DOMAIN Held = 1 .. Waiting
          /\ accepted \in Nat /\ Waiting \in Nat
      <3>1. /\ Held \in Seq(Value) /\ Len(Held) = Waiting /\ accepted \in Nat
            /\ Waiting \in 0 .. MaxBufferSize - 1 /\ MaxBufferSize \in Nat
        BY ChannelType, AfterPushType, ConstantsType DEF SendInvariant
      <3> QED
        BY <3>1
    <2>2. /\ Departed = accepted - Waiting /\ Departed \in Nat
          /\ \A i \in 1 .. Waiting : Held[i] = Departed + i
      BY DEF AccountInvariant, RingNumbered, Departed
    <2>3. H = Departed + 1 .. accepted
      <3>1. ASSUME NEW x \in Departed + 1 .. accepted
            PROVE  \E i \in 1 .. Waiting : x = Held[i]
        <4>1. x - Departed \in 1 .. Waiting /\ x = Departed + (x - Departed)
          BY <2>1, <2>2
        <4> QED
          BY <2>2, <4>1
      <3>2. \A i \in 1 .. Waiting : Departed + i \in Departed + 1 .. accepted
        BY <2>1, <2>2
      <3>3. {Held[i] : i \in 1 .. Waiting} = Departed + 1 .. accepted
        BY <2>2, <3>1, <3>2
      <3> QED
        BY <2>1, <3>3 DEF Elements
    <2>4. L \cup F \cup dropped \cup unwritten = 1 .. Departed /\ Apart(L, F, dropped, unwritten)
      BY Zenon DEF AccountInvariant, DepartedOnce, Places
    <2>5. (1 .. Departed) \cup H = 1 .. accepted /\ (1 .. Departed) \cap H = {}
      BY <2>1, <2>2, <2>3
    <2> HIDE DEF L, F, H
    <2>6. /\ L \cup F \cup H \cup dropped \cup unwritten = 1 .. accepted
          /\ Apart(L, F, dropped, unwritten)
          /\ H \cap L = {} /\ H \cap F = {} /\ H \cap dropped = {} /\ H \cap unwritten = {}
      BY <2>4, <2>5, Zenon
    <2> DEFINE places == <<L, F, H, dropped, unwritten>>
    <2>7. /\ DOMAIN places = {1, 2, 3, 4, 5}
          /\ places[1] = L /\ places[2] = F /\ places[3] = H
          /\ places[4] = dropped /\ places[5] = unwritten
      OBVIOUS
    <2> HIDE DEF places
    <2>8. UNION {places[i] : i \in DOMAIN places} = 1 .. accepted
      <3>1. UNION {places[i] : i \in DOMAIN places} = L \cup F \cup H \cup dropped \cup unwritten
        BY <2>7
      <3> QED
        BY <2>6, <3>1
    <2>9. \A i, j \in DOMAIN places : i # j => places[i] \cap places[j] = {}
      BY <2>6, <2>7 DEF Apart
    <2> QED
      BY <2>8, <2>9 DEF EveryByteAccounted, places, L, F, H, Elements
  <1> QED
    BY <1>1, AccountInit, AccountStep, SendCorrect, PTL DEF Spec
=============================================================================
