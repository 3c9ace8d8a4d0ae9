--------------------------- MODULE TcBufferProofs ---------------------------
(***************************************************************************)
(* What the operators of TcBuffer compute, for a ring of any size: the     *)
(* positions stay in the buffer, and pushes and pops of blocks are the     *)
(* concatenations and cuts of a sequence, wherever they wrap.              *)
(***************************************************************************)
EXTENDS TcBuffer, SequenceTheorems, TLAPS

\* The slot k places after pos.
SlotAfter(pos, k) == IF pos + k < MaxBufferSize THEN pos + k ELSE pos + k - MaxBufferSize

\* new is mem with bytes copied into its slots from pos on.
IsCopied(new, S, mem, pos, bytes) ==
    /\ new \in [Slots -> S]
    /\ \A i \in Slots :
          new[i] = IF i >= pos /\ i < pos + Len(bytes) THEN bytes[i - pos + 1] ELSE mem[i]

\* new is mem with bytes pushed at tail, seen from there.
IsStored(new, S, mem, tail, bytes) ==
    /\ new \in [Slots -> S]
    /\ \A k \in 0 .. MaxBufferSize - 1 :
          new[SlotAfter(tail, k)] = IF k < Len(bytes) THEN bytes[k + 1] ELSE mem[SlotAfter(tail, k)]

\* seq is what the n slots of mem from head on hold.
Reads(seq, S, mem, head, n) ==
    /\ seq \in Seq(S)
    /\ Len(seq) = n
    /\ \A i \in 1 .. n : seq[i] = mem[SlotAfter(head, i - 1)]

\* piece is s without its first a elements and those after the b-th.
IsPiece(piece, S, s, a, b) ==
    /\ piece \in Seq(S)
    /\ Len(piece) = b - a
    /\ \A i \in 1 .. b - a : piece[i] = s[a + i]

\* all is s followed by t.
IsConcat(all, S, s, t) ==
    /\ all \in Seq(S)
    /\ Len(all) = Len(s) + Len(t)
    /\ \A i \in 1 .. Len(s) + Len(t) :
          all[i] = IF i <= Len(s) THEN s[i] ELSE t[i - Len(s)]

\* A plain push of bytes appends them to the contents.
Appends(mem, head, tail, bytes) ==
    Contents(Stored(mem, tail, bytes), head, Advanced(tail, Len(bytes)))
        = Contents(mem, head, tail) \o bytes

\* An overwriting push of bytes keeps the newest bytes a ring can hold.
KeepsNewest(mem, head, tail, bytes) ==
    LET all == Contents(mem, head, tail) \o bytes
    IN  Contents(Stored(mem, tail, bytes),
                 HeadAfterOverwrite(Advanced(tail, Len(bytes))), Advanced(tail, Len(bytes)))
            = SubSeq(all, Len(all) - (MaxBufferSize - 1) + 1, Len(all))

\* A position plus at most one lap wraps at most once.
LEMMA SlotModulo ==
    ASSUME NEW pos \in Slots, NEW k \in 0 .. MaxBufferSize
    PROVE  /\ (pos + k) % MaxBufferSize = SlotAfter(pos, k)
           /\ SlotAfter(pos, k) \in Slots
  <1> DEFINE M == MaxBufferSize
             x == pos + k
  <1>1. M \in Nat /\ M > 1 /\ x \in Nat /\ x < 2 * M
    BY MaxBufferSizeAssumption DEF Slots
  <1>2. CASE x < M
    BY <1>1, <1>2 DEF SlotAfter, Slots
  <1>3. CASE x >= M
    <2>1. x % M = (x - M) % M
      BY <1>1
    <2>2. QED BY <1>1, <1>3, <2>1 DEF SlotAfter, Slots
  <1>4. QED BY <1>1, <1>2, <1>3

\* The slot after a position, and Head after an overwriting push, are slots.
LEMMA NextSlotType ==
    ASSUME NEW pos \in Slots
    PROVE  /\ NextSlot(pos) = SlotAfter(pos, 1)
           /\ NextSlot(pos) \in Slots
           /\ HeadAfterOverwrite(pos) = NextSlot(pos)
  BY SlotModulo, MaxBufferSizeAssumption DEF NextSlot, HeadAfterOverwrite, Slots

\* A position moves past a block of up to MaxBufferSize bytes to a slot.
LEMMA AdvancedType ==
    ASSUME NEW pos \in Slots, NEW size \in 0 .. MaxBufferSize
    PROVE  /\ Advanced(pos, size) = SlotAfter(pos, size)
           /\ Advanced(pos, size) \in Slots
  BY MaxBufferSizeAssumption DEF Advanced, SlotAfter, Slots

\* A ring always has one slot that is neither used nor free.
LEMMA SizesType ==
    ASSUME NEW head \in Slots, NEW tail \in Slots
    PROVE  /\ DataAvailable(head, tail) \in 0 .. MaxBufferSize - 1
           /\ FreeSpace(head, tail) = MaxBufferSize - 1 - DataAvailable(head, tail)
           /\ tail = SlotAfter(head, DataAvailable(head, tail))
           /\ tail = head <=> DataAvailable(head, tail) = 0
  BY MaxBufferSizeAssumption DEF DataAvailable, FreeSpace, SlotAfter, Slots

\* The number of bytes between two positions that are n slots apart.
LEMMA AvailableAfter ==
    ASSUME NEW head \in Slots, NEW n \in 0 .. MaxBufferSize - 1
    PROVE  DataAvailable(head, SlotAfter(head, n)) = n
  BY MaxBufferSizeAssumption DEF DataAvailable, SlotAfter, Slots

\* tc_buffer_flush_byte moves the read position over the flushed bytes, or
\* over all of them when there are fewer.
LEMMA FlushedHead ==
    ASSUME NEW head \in Slots, NEW tail \in Slots, NEW size \in 0 .. MaxBufferSize
    PROVE  LET n == DataAvailable(head, tail)
           IN  HeadAfterFlush(head, tail, size) =
                   SlotAfter(head, IF size <= n THEN size ELSE n)
  <1>1. (head + size) % MaxBufferSize = SlotAfter(head, size)
    BY SlotModulo
  <1>2. QED
    BY <1>1, MaxBufferSizeAssumption
    DEF HeadAfterFlush, DataAvailable, SlotAfter, Slots

-----------------------------------------------------------------------------
\* Copying a block into the memory, part by part.
LEMMA CopyInAt ==
    ASSUME NEW S, NEW mem \in [Slots -> S], NEW pos \in Slots, NEW bytes \in Seq(S),
           pos + Len(bytes) <= MaxBufferSize
    PROVE  IsCopied(CopyIn(mem, pos, bytes), S, mem, pos, bytes)
  <1>1. \A i \in Slots : i \in pos .. pos + Len(bytes) - 1 <=> i >= pos /\ i < pos + Len(bytes)
    BY DEF Slots
  <1>2. ASSUME NEW i \in Slots, i >= pos, i < pos + Len(bytes)
        PROVE  bytes[i - pos + 1] \in S
    <2>1. i - pos + 1 \in 1 .. Len(bytes)
      BY <1>2 DEF Slots
    <2>2. QED BY <2>1, ElementOfSeq
  <1>3. QED BY <1>1, <1>2 DEF CopyIn, IsCopied

\* What the memory holds k slots after the position a block was pushed at.
LEMMA StoredAt ==
    ASSUME NEW S, NEW mem \in [Slots -> S], NEW tail \in Slots, NEW bytes \in Seq(S),
           Len(bytes) < MaxBufferSize
    PROVE  IsStored(Stored(mem, tail, bytes), S, mem, tail, bytes)
  <1> DEFINE room  == MaxBufferSize - tail
             first == SubSeq(bytes, 1, room)
             rest  == SubSeq(bytes, room + 1, Len(bytes))
             once  == CopyIn(mem, tail, first)
  <1>1. /\ room \in 1 .. MaxBufferSize
        /\ Len(bytes) \in Nat
        /\ MaxBufferSize \in Nat
    BY MaxBufferSizeAssumption DEF Slots
  <1>2. CASE room > Len(bytes)
    <2>1. Stored(mem, tail, bytes) = CopyIn(mem, tail, bytes)
      BY <1>2 DEF Stored
    <2>2. tail + Len(bytes) <= MaxBufferSize
      BY <1>1, <1>2 DEF Slots
    <2>3. IsCopied(Stored(mem, tail, bytes), S, mem, tail, bytes)
      BY <2>1, <2>2, CopyInAt, Zenon
    <2> DEFINE new == Stored(mem, tail, bytes)
    <2> HIDE DEF new, room
    <2>4. /\ new \in [Slots -> S]
          /\ \A i \in Slots :
                new[i] = IF i >= tail /\ i < tail + Len(bytes) THEN bytes[i - tail + 1] ELSE mem[i]
      BY <2>3, Zenon DEF IsCopied, new
    <2>5. ASSUME NEW k \in 0 .. MaxBufferSize - 1
          PROVE  new[SlotAfter(tail, k)] =
                     IF k < Len(bytes) THEN bytes[k + 1] ELSE mem[SlotAfter(tail, k)]
      <3> DEFINE i == SlotAfter(tail, k)
      <3>1. i \in Slots /\ (k < Len(bytes) <=> i >= tail /\ i < tail + Len(bytes))
        BY <1>1, <2>2, MaxBufferSizeAssumption DEF SlotAfter, Slots
      <3>2. k < Len(bytes) => i - tail + 1 = k + 1
        BY <1>1, <2>2, MaxBufferSizeAssumption DEF SlotAfter, Slots
      <3> HIDE DEF i
      <3>3. new[i] = IF k < Len(bytes) THEN bytes[k + 1] ELSE mem[i]
        BY <2>4, <3>1, <3>2
      <3>4. QED BY <3>3 DEF i
    <2>6. QED BY <2>4, <2>5 DEF IsStored, new
  <1>3. CASE room <= Len(bytes)
    <2>1. Stored(mem, tail, bytes) = CopyIn(once, 0, rest)
      BY <1>1, <1>3 DEF Stored
    <2>2. /\ first \in Seq(S)
          /\ Len(first) = room
          /\ \A i \in 1 .. room : first[i] = bytes[i]
      BY <1>1, <1>3, SubSeqProperties
    <2>3. /\ rest \in Seq(S)
          /\ Len(rest) = Len(bytes) - room
          /\ \A i \in 1 .. Len(bytes) - room : rest[i] = bytes[room + i]
      BY <1>1, <1>3, SubSeqProperties
    <2>4. /\ once \in [Slots -> S]
          /\ \A i \in Slots : once[i] = IF i >= tail THEN bytes[i - tail + 1] ELSE mem[i]
      <3> HIDE DEF first
      <3>1. /\ once \in [Slots -> S]
            /\ \A i \in Slots : once[i] =
                  IF i >= tail /\ i < tail + room THEN first[i - tail + 1] ELSE mem[i]
        <4>1. tail + Len(first) <= MaxBufferSize
          BY <1>1, <2>2 DEF Slots
        <4>2. IsCopied(once, S, mem, tail, first)
          BY <2>2, <4>1, CopyInAt, Zenon
        <4>3. QED BY <2>2, <4>2, Zenon DEF IsCopied
      <3>2. ASSUME NEW i \in Slots, i >= tail
            PROVE  i < tail + room /\ i - tail + 1 \in 1 .. room
        BY <1>1, <3>2 DEF Slots
      <3> HIDE DEF once, room
      <3>3. QED BY <2>2, <3>1, <3>2
    <2>5. /\ Stored(mem, tail, bytes) \in [Slots -> S]
          /\ \A i \in Slots : Stored(mem, tail, bytes)[i] =
                IF i < Len(bytes) - room THEN bytes[room + i + 1] ELSE once[i]
      <3> HIDE DEF once, rest
      <3>1. 0 \in Slots /\ 0 + Len(rest) <= MaxBufferSize
        BY <1>1, <2>3, MaxBufferSizeAssumption DEF Slots
      <3>2. /\ CopyIn(once, 0, rest) \in [Slots -> S]
            /\ \A i \in Slots : CopyIn(once, 0, rest)[i] =
                  IF i >= 0 /\ i < 0 + Len(rest) THEN rest[i - 0 + 1] ELSE once[i]
        <4>1. IsCopied(CopyIn(once, 0, rest), S, once, 0, rest)
          BY <2>3, <2>4, <3>1, CopyInAt, Zenon
        <4>2. QED BY <4>1, Zenon DEF IsCopied
      <3>3. ASSUME NEW i \in Slots
            PROVE  CopyIn(once, 0, rest)[i] =
                       IF i < Len(bytes) - room THEN bytes[room + i + 1] ELSE once[i]
        <4>1. i \in Nat /\ i - 0 + 1 = i + 1 /\ 0 + Len(rest) = Len(rest)
          BY <1>1, <2>3 DEF Slots
        <4>2. CASE i < Len(bytes) - room
          <5>1. CopyIn(once, 0, rest)[i] = rest[i + 1]
            BY <2>3, <3>2, <4>1, <4>2
          <5>2. i + 1 \in 1 .. Len(bytes) - room /\ room + (i + 1) = room + i + 1
            BY <1>1, <4>1, <4>2
          <5>3. rest[i + 1] = bytes[room + i + 1]
            BY <2>3, <5>2
          <5>4. QED BY <4>2, <5>1, <5>3
        <4>3. CASE ~(i < Len(bytes) - room)
          BY <2>3, <3>2, <4>1, <4>3
        <4>4. QED BY <4>2, <4>3
      <3>4. QED BY <2>1, <3>2, <3>3
    <2>6. ASSUME NEW k \in 0 .. MaxBufferSize - 1
          PROVE  Stored(mem, tail, bytes)[SlotAfter(tail, k)] =
                     IF k < Len(bytes) THEN bytes[k + 1] ELSE mem[SlotAfter(tail, k)]
      <3> HIDE DEF once, rest, first
      <3>1. CASE k < room
        BY <1>1, <1>3, <2>4, <2>5, <3>1 DEF SlotAfter, Slots
      <3>2. CASE k >= room
        <4>1. SlotAfter(tail, k) = k - room /\ k - room \in Slots
          BY <1>1, <3>2 DEF SlotAfter, Slots
        <4>2. k - room < tail
          BY <1>1 DEF Slots
        <4>3. QED BY <1>1, <1>3, <2>4, <2>5, <3>2, <4>1, <4>2 DEF Slots
      <3>3. QED BY <1>1, <3>1, <3>2
    <2>7. QED BY <2>5, <2>6, Zenon DEF IsStored
  <1>4. QED BY <1>1, <1>2, <1>3

-----------------------------------------------------------------------------
\* Two sequences one after the other.
LEMMA ConcatOfSeqs ==
    ASSUME NEW S, NEW s \in Seq(S), NEW t \in Seq(S)
    PROVE  IsConcat(s \o t, S, s, t)
  BY ConcatProperties DEF IsConcat

\* A piece of a sequence.
LEMMA PieceOfSeq ==
    ASSUME NEW S, NEW s \in Seq(S), NEW a \in Nat, NEW b \in a .. Len(s)
    PROVE  IsPiece(SubSeq(s, a + 1, b), S, s, a, b)
  <1>1. ASSUME NEW i \in a + 1 .. b
        PROVE  s[i] \in S
    <2>1. i \in 1 .. Len(s)
      OBVIOUS
    <2>2. QED BY <2>1, ElementOfSeq
  <1>2. a + 1 \in Int /\ b \in Int
    OBVIOUS
  <1>3. /\ SubSeq(s, a + 1, b) \in Seq(S)
        /\ Len(SubSeq(s, a + 1, b)) = IF a + 1 <= b THEN b - (a + 1) + 1 ELSE 0
        /\ \A i \in 1 .. b - (a + 1) + 1 : SubSeq(s, a + 1, b)[i] = s[a + 1 + i - 1]
    BY <1>1, <1>2, SubSeqProperties
  <1> DEFINE piece == SubSeq(s, a + 1, b)
  <1> HIDE DEF piece
  <1>4. a \in Nat /\ b \in Nat /\ a <= b
    OBVIOUS
  <1>5. /\ (IF a + 1 <= b THEN b - (a + 1) + 1 ELSE 0) = b - a
        /\ b - (a + 1) + 1 = b - a
        /\ \A i \in 1 .. b - a : a + 1 + i - 1 = a + i
    BY <1>4
  <1>6. /\ piece \in Seq(S)
        /\ Len(piece) = b - a
        /\ \A i \in 1 .. b - a : piece[i] = s[a + 1 + i - 1]
    BY <1>3, <1>5 DEF piece
  <1>7. \A i \in 1 .. b - a : piece[i] = s[a + i]
    BY <1>5, <1>6, Zenon
  <1>8. QED BY <1>6, <1>7, Zenon DEF IsPiece, piece

\* Two moves of together at most one lap are one move.
LEMMA SlotAfterTwice ==
    ASSUME NEW pos \in Slots, NEW j \in 0 .. MaxBufferSize, NEW k \in 0 .. MaxBufferSize - j
    PROVE  SlotAfter(SlotAfter(pos, j), k) = SlotAfter(pos, j + k)
  BY MaxBufferSizeAssumption DEF SlotAfter, Slots

\* The slot j places after pos, seen from the position n places after pos when
\* that position has gone past it.
LEMMA SlotBehind ==
    ASSUME NEW pos \in Slots, NEW n \in 0 .. MaxBufferSize - 1, NEW j \in 0 .. n - 1
    PROVE  SlotAfter(pos, j) = SlotAfter(SlotAfter(pos, n), MaxBufferSize - n + j)
  BY MaxBufferSizeAssumption DEF SlotAfter, Slots

\* A push that fits makes the ring hold n bytes more.
LEMMA PushedSize ==
    ASSUME NEW h \in Slots, NEW t \in Slots, NEW n \in 1 .. MaxBufferSize - 1,
           n <= FreeSpace(h, t)
    PROVE  DataAvailable(h, Advanced(t, n)) = DataAvailable(h, t) + n
  <1> DEFINE d == DataAvailable(h, t)
  <1>1. d \in 0 .. MaxBufferSize - 1 /\ d + n <= MaxBufferSize - 1 /\ t = SlotAfter(h, d)
    BY SizesType, MaxBufferSizeAssumption
  <1>2. MaxBufferSize \in Nat
    BY MaxBufferSizeAssumption
  <1> HIDE DEF d
  <1>3. /\ d \in 0 .. MaxBufferSize /\ n \in 0 .. MaxBufferSize - d /\ n \in 0 .. MaxBufferSize
        /\ d + n \in 0 .. MaxBufferSize - 1
    BY <1>1, <1>2
  <1>4. Advanced(t, n) = SlotAfter(h, d + n)
    BY <1>1, <1>3, AdvancedType, SlotAfterTwice
  <1>5. DataAvailable(h, SlotAfter(h, d + n)) = d + n
    BY <1>3, AvailableAfter
  <1> QED
    BY <1>4, <1>5 DEF d

\* An overwriting push leaves the ring full.
LEMMA OverwrittenSize ==
    ASSUME NEW t \in Slots
    PROVE  /\ HeadAfterOverwrite(t) \in Slots
           /\ DataAvailable(HeadAfterOverwrite(t), t) = MaxBufferSize - 1
  <1>1. HeadAfterOverwrite(t) \in Slots /\ HeadAfterOverwrite(t) = SlotAfter(t, 1)
    BY NextSlotType
  <1>2. DataAvailable(SlotAfter(t, 1), t) = MaxBufferSize - 1
    BY MaxBufferSizeAssumption DEF DataAvailable, SlotAfter, Slots
  <1> QED
    BY <1>1, <1>2

\* A pop of n bytes leaves n bytes less.
LEMMA PoppedSize ==
    ASSUME NEW h \in Slots, NEW t \in Slots, NEW n \in 0 .. DataAvailable(h, t)
    PROVE  /\ Advanced(h, n) = SlotAfter(h, n)
           /\ Advanced(h, n) \in Slots
           /\ DataAvailable(Advanced(h, n), t) = DataAvailable(h, t) - n
  <1>1. DataAvailable(h, t) \in 0 .. MaxBufferSize - 1 /\ MaxBufferSize \in Nat
    BY SizesType, MaxBufferSizeAssumption
  <1>2. n \in 0 .. MaxBufferSize
    BY <1>1
  <1>3. Advanced(h, n) = SlotAfter(h, n) /\ Advanced(h, n) \in Slots
    BY <1>2, AdvancedType
  <1>4. DataAvailable(SlotAfter(h, n), t) = DataAvailable(h, t) - n
    BY MaxBufferSizeAssumption DEF DataAvailable, SlotAfter, Slots
  <1> QED
    BY <1>3, <1>4

\* The contents of a ring as a sequence.
LEMMA ContentsAt ==
    ASSUME NEW S, NEW mem \in [Slots -> S], NEW head \in Slots, NEW tail \in Slots
    PROVE  Reads(Contents(mem, head, tail), S, mem, head, DataAvailable(head, tail))
  <1> DEFINE n == DataAvailable(head, tail)
  <1>1. n \in 0 .. MaxBufferSize - 1 /\ MaxBufferSize \in Nat
    BY SizesType, MaxBufferSizeAssumption
  <1> HIDE DEF n
  <1>2. ASSUME NEW i \in 1 .. n
        PROVE  /\ (head + i - 1) % MaxBufferSize = SlotAfter(head, i - 1)
               /\ SlotAfter(head, i - 1) \in Slots
    <2>1. i - 1 \in 0 .. MaxBufferSize /\ head + i - 1 = head + (i - 1)
      BY <1>1 DEF Slots
    <2>2. QED BY <2>1, SlotModulo
  <1>3. Contents(mem, head, tail) = [i \in 1 .. n |-> mem[(head + i - 1) % MaxBufferSize]]
    BY DEF Contents, n
  <1>4. Contents(mem, head, tail) \in [1 .. n -> S]
    BY <1>2, <1>3
  <1>5. n \in Nat
    BY <1>1
  <1>6. QED BY <1>2, <1>3, <1>4, <1>5 DEF n, Reads

\* The bytes a pop copies out, as a sequence.
LEMMA TakenAt ==
    ASSUME NEW S, NEW mem \in [Slots -> S], NEW head \in Slots,
           NEW size \in 0 .. MaxBufferSize - 1
    PROVE  Reads(Taken(mem, head, size), S, mem, head, size)
  <1> DEFINE t == Taken(mem, head, size)
  <1>1. t = [i \in 1 .. size |-> mem[SlotAfter(head, i - 1)]]
    <2>1. ASSUME NEW i \in 1 .. size
          PROVE  SlotAfter(head, i - 1) =
                     IF i <= MaxBufferSize - head THEN head + i - 1
                                                  ELSE i - (MaxBufferSize - head) - 1
      BY MaxBufferSizeAssumption DEF SlotAfter, Slots
    <2>2. QED BY <2>1 DEF Taken
  <1>2. \A i \in 1 .. size : SlotAfter(head, i - 1) \in Slots
    BY SlotModulo, MaxBufferSizeAssumption
  <1>3. t \in [1 .. size -> S]
    BY <1>1, <1>2
  <1>4. QED BY <1>1, <1>3 DEF Reads

-----------------------------------------------------------------------------
\* A plain push appends its block to the contents.
LEMMA PushAppends ==
    ASSUME NEW S, NEW mem \in [Slots -> S], NEW head \in Slots, NEW tail \in Slots,
           NEW bytes \in Seq(S), Len(bytes) <= FreeSpace(head, tail)
    PROVE  Appends(mem, head, tail, bytes)
  <1> DEFINE n    == DataAvailable(head, tail)
             m    == Len(bytes)
             new  == Stored(mem, tail, bytes)
             end  == Advanced(tail, m)
             lhs  == Contents(new, head, end)
             old  == Contents(mem, head, tail)
  <1>1. /\ n \in 0 .. MaxBufferSize - 1 /\ m \in Nat /\ n + m <= MaxBufferSize - 1
        /\ MaxBufferSize \in Nat /\ tail = SlotAfter(head, n)
    BY SizesType, MaxBufferSizeAssumption
  <1>2. end \in Slots /\ end = SlotAfter(head, n + m)
    <2>1. m \in 0 .. MaxBufferSize - n /\ m \in 0 .. MaxBufferSize /\ n \in 0 .. MaxBufferSize
      BY <1>1
    <2>2. QED BY <1>1, <2>1, AdvancedType, SlotAfterTwice
  <1>3. DataAvailable(head, end) = n + m
    <2>1. n + m \in 0 .. MaxBufferSize - 1
      BY <1>1
    <2>2. QED BY <1>2, <2>1, AvailableAfter
  <1>4. /\ new \in [Slots -> S]
        /\ \A k \in 0 .. MaxBufferSize - 1 :
              new[SlotAfter(tail, k)] = IF k < m THEN bytes[k + 1] ELSE mem[SlotAfter(tail, k)]
    <2>1. m < MaxBufferSize
      BY <1>1
    <2>2. IsStored(new, S, mem, tail, bytes)
      BY <2>1, StoredAt, Zenon
    <2> HIDE DEF new
    <2>3. QED BY <2>2, Zenon DEF IsStored
  <1> HIDE DEF n, m, new, end
  <1>5. /\ lhs \in Seq(S) /\ Len(lhs) = n + m
        /\ \A i \in 1 .. n + m : lhs[i] = new[SlotAfter(head, i - 1)]
    <2>1. Reads(lhs, S, new, head, DataAvailable(head, end))
      BY <1>2, <1>4, ContentsAt, Zenon
    <2>2. QED BY <1>3, <2>1, Zenon DEF Reads
  <1>6. /\ old \in Seq(S) /\ Len(old) = n
        /\ \A i \in 1 .. n : old[i] = mem[SlotAfter(head, i - 1)]
    <2>1. Reads(old, S, mem, head, n)
      BY ContentsAt, Zenon DEF n
    <2> HIDE DEF old
    <2>2. QED BY <2>1, Zenon DEF Reads
  <1> HIDE DEF lhs, old
  <1>7. ASSUME NEW i \in 1 .. n
        PROVE  lhs[i] = old[i]
    <2> DEFINE k == MaxBufferSize - n + (i - 1)
    <2>1. k \in 0 .. MaxBufferSize - 1 /\ ~(k < m) /\ i - 1 \in 0 .. n - 1 /\ i \in 1 .. n + m
      BY <1>1
    <2>2. SlotAfter(head, i - 1) = SlotAfter(tail, k)
      BY <1>1, <2>1, SlotBehind
    <2>3. new[SlotAfter(tail, k)] = mem[SlotAfter(tail, k)]
      BY <1>4, <2>1, Zenon
    <2> HIDE DEF k
    <2>4. QED BY <1>5, <1>6, <2>1, <2>2, <2>3, Zenon
  <1>8. ASSUME NEW i \in n + 1 .. n + m
        PROVE  lhs[i] = bytes[i - n]
    <2> DEFINE k == i - 1 - n
    <2>1. /\ k \in 0 .. MaxBufferSize - 1 /\ k < m /\ i \in 1 .. n + m
          /\ n + k = i - 1 /\ k + 1 = i - n
          /\ n \in 0 .. MaxBufferSize /\ k \in 0 .. MaxBufferSize - n
      BY <1>1
    <2>2. SlotAfter(tail, k) = SlotAfter(head, i - 1)
      BY <1>1, <2>1, SlotAfterTwice
    <2>3. new[SlotAfter(tail, k)] = bytes[k + 1]
      BY <1>4, <2>1, Zenon
    <2> HIDE DEF k
    <2>4. QED BY <1>5, <2>1, <2>2, <2>3, Zenon
  <1>9. /\ old \o bytes \in Seq(S)
        /\ Len(old \o bytes) = n + m
        /\ \A i \in 1 .. n + m : (old \o bytes)[i] = IF i <= n THEN old[i] ELSE bytes[i - n]
    <2>1. IsConcat(old \o bytes, S, old, bytes)
      BY <1>6, ConcatOfSeqs, Zenon
    <2> DEFINE all == old \o bytes
    <2> HIDE DEF all
    <2>2. Len(bytes) = m
      BY Zenon DEF m
    <2>3. QED BY <1>6, <2>1, <2>2, Zenon DEF IsConcat, all
  <1>10. ASSUME NEW i \in 1 .. n + m
         PROVE  lhs[i] = (old \o bytes)[i]
    <2>1. CASE i <= n
      BY <1>1, <1>7, <1>9, <2>1
    <2>2. CASE ~(i <= n)
      <3>1. i \in n + 1 .. n + m
        BY <1>1, <2>2
      <3>2. QED BY <1>8, <1>9, <2>2, <3>1
    <2>3. QED BY <2>1, <2>2
  <1>11. lhs = old \o bytes
    BY <1>5, <1>9, <1>10, SeqEqual
  <1>12. QED BY <1>11 DEF lhs, old, new, end, m, Appends

\* A pop or a flush that moves the read position over size bytes cuts them
\* off the contents, ...
LEMMA AdvanceDrops ==
    ASSUME NEW S, NEW mem \in [Slots -> S], NEW head \in Slots, NEW tail \in Slots,
           NEW size \in 0 .. DataAvailable(head, tail)
    PROVE  Contents(mem, SlotAfter(head, size), tail)
               = SubSeq(Contents(mem, head, tail), size + 1, DataAvailable(head, tail))
  <1> DEFINE n    == DataAvailable(head, tail)
             next == SlotAfter(head, size)
             lhs  == Contents(mem, next, tail)
             old  == Contents(mem, head, tail)
             rhs  == SubSeq(old, size + 1, n)
  <1>1. /\ n \in 0 .. MaxBufferSize - 1 /\ size \in 0 .. n /\ size \in Nat
        /\ MaxBufferSize \in Nat /\ tail = SlotAfter(head, n)
    BY SizesType, MaxBufferSizeAssumption
  <1> HIDE DEF n
  <1>2. next \in Slots
    <2>1. size \in 0 .. MaxBufferSize
      BY <1>1
    <2>2. QED BY <2>1, SlotModulo
  <1>3. DataAvailable(next, tail) = n - size
    <2>1. /\ size \in 0 .. MaxBufferSize /\ n - size \in 0 .. MaxBufferSize - size
          /\ n - size \in 0 .. MaxBufferSize - 1 /\ size + (n - size) = n
      BY <1>1
    <2>2. SlotAfter(next, n - size) = tail
      BY <1>1, <2>1, SlotAfterTwice
    <2>3. QED BY <1>2, <2>1, <2>2, AvailableAfter
  <1> HIDE DEF next
  <1>4. /\ lhs \in Seq(S) /\ Len(lhs) = n - size
        /\ \A i \in 1 .. n - size : lhs[i] = mem[SlotAfter(next, i - 1)]
    <2>1. Reads(lhs, S, mem, next, DataAvailable(next, tail))
      BY <1>2, ContentsAt, Zenon
    <2> HIDE DEF lhs
    <2>2. QED BY <1>3, <2>1, Zenon DEF Reads
  <1>5. /\ old \in Seq(S) /\ Len(old) = n
        /\ \A i \in 1 .. n : old[i] = mem[SlotAfter(head, i - 1)]
    <2>1. Reads(old, S, mem, head, n)
      BY ContentsAt, Zenon DEF n
    <2> HIDE DEF old
    <2>2. QED BY <2>1, Zenon DEF Reads
  <1> HIDE DEF lhs, old
  <1>6. /\ rhs \in Seq(S) /\ Len(rhs) = n - size
        /\ \A i \in 1 .. n - size : rhs[i] = old[size + i]
    <2>1. size \in Nat /\ n \in size .. Len(old)
      BY <1>1, <1>5
    <2>2. IsPiece(rhs, S, old, size, n)
      BY <1>5, <2>1, PieceOfSeq, Zenon
    <2> HIDE DEF rhs
    <2>3. QED BY <2>2, Zenon DEF IsPiece
  <1> HIDE DEF rhs
  <1>7. ASSUME NEW i \in 1 .. n - size
        PROVE  lhs[i] = rhs[i]
    <2>1. /\ size \in 0 .. MaxBufferSize /\ i - 1 \in 0 .. MaxBufferSize - size
          /\ size + i \in 1 .. n /\ size + (i - 1) = size + i - 1
      BY <1>1
    <2>2. SlotAfter(next, i - 1) = SlotAfter(head, size + i - 1)
      BY <2>1, SlotAfterTwice DEF next
    <2>3. old[size + i] = mem[SlotAfter(head, size + i - 1)]
      BY <1>5, <2>1
    <2>4. QED BY <1>4, <1>6, <2>2, <2>3
  <1>8. lhs = rhs
    BY <1>4, <1>6, <1>7, SeqEqual
  <1>9. QED BY <1>8 DEF lhs, rhs, old, next, n

\* ... and a pop hands out what was cut off.
LEMMA PopTakesOldest ==
    ASSUME NEW S, NEW mem \in [Slots -> S], NEW head \in Slots, NEW tail \in Slots,
           NEW size \in 0 .. DataAvailable(head, tail)
    PROVE  Taken(mem, head, size) = SubSeq(Contents(mem, head, tail), 1, size)
  <1> DEFINE n   == DataAvailable(head, tail)
             old == Contents(mem, head, tail)
             lhs == Taken(mem, head, size)
             rhs == SubSeq(old, 1, size)
  <1>1. n \in 0 .. MaxBufferSize - 1 /\ size \in 0 .. n /\ MaxBufferSize \in Nat
    BY SizesType, MaxBufferSizeAssumption
  <1>2. /\ old \in Seq(S) /\ Len(old) = n
        /\ \A i \in 1 .. n : old[i] = mem[SlotAfter(head, i - 1)]
    <2>1. Reads(old, S, mem, head, n)
      BY ContentsAt, Zenon
    <2> HIDE DEF n, old
    <2>2. QED BY <2>1, Zenon DEF Reads
  <1> HIDE DEF n, old
  <1>3. /\ lhs \in Seq(S) /\ Len(lhs) = size
        /\ \A i \in 1 .. size : lhs[i] = mem[SlotAfter(head, i - 1)]
    <2>1. size \in 0 .. MaxBufferSize - 1
      BY <1>1
    <2>2. Reads(lhs, S, mem, head, size)
      BY <2>1, TakenAt, Zenon
    <2> HIDE DEF lhs
    <2>3. QED BY <2>2, Zenon DEF Reads
  <1> HIDE DEF lhs
  <1>4. /\ rhs \in Seq(S) /\ Len(rhs) = size
        /\ \A i \in 1 .. size : rhs[i] = old[i]
    <2>1. 0 \in Nat /\ size \in 0 .. Len(old) /\ size - 0 = size /\ 0 + 1 = 1
      BY <1>1, <1>2
    <2>2. \A i \in 1 .. size : 0 + i = i
      BY <1>1
    <2>3. IsPiece(rhs, S, old, 0, size)
      BY <1>2, <2>1, PieceOfSeq, Zenon
    <2> HIDE DEF rhs
    <2>4. /\ rhs \in Seq(S) /\ Len(rhs) = size - 0
          /\ \A i \in 1 .. size - 0 : rhs[i] = old[0 + i]
      BY <2>3, Zenon DEF IsPiece
    <2>5. QED BY <2>1, <2>2, <2>4, Zenon
  <1> HIDE DEF rhs
  <1>5. \A i \in 1 .. size : lhs[i] = rhs[i]
    <2>1. \A i \in 1 .. size : i \in 1 .. n
      BY <1>1
    <2>2. QED BY <1>2, <1>3, <1>4, <2>1, Zenon
  <1>6. lhs = rhs
    BY <1>3, <1>4, <1>5, SeqEqual
  <1>7. QED BY <1>6 DEF lhs, rhs, old

\* A ring whose slots hold the bytes of a sequence, one after the other.
LEMMA ContentsAre ==
    ASSUME NEW S, NEW mem \in [Slots -> S], NEW head \in Slots, NEW tail \in Slots,
           NEW s, Reads(s, S, mem, head, DataAvailable(head, tail))
    PROVE  Contents(mem, head, tail) = s
  <1> DEFINE c == Contents(mem, head, tail)
             n == DataAvailable(head, tail)
  <1>1. Reads(c, S, mem, head, n)
    BY ContentsAt, Zenon
  <1> HIDE DEF c
  <1>2. c = s
    <2>1. /\ c \in Seq(S) /\ s \in Seq(S) /\ Len(c) = n /\ Len(s) = n
          /\ \A i \in 1 .. n : c[i] = mem[SlotAfter(head, i - 1)]
          /\ \A i \in 1 .. n : s[i] = mem[SlotAfter(head, i - 1)]
      BY <1>1, Zenon DEF Reads
    <2> HIDE DEF n
    <2>2. Len(c) = Len(s) /\ \A i \in 1 .. Len(c) : c[i] = s[i]
      BY <2>1, Zenon
    <2>3. QED BY <2>1, <2>2, SeqEqual, Zenon
  <1>3. QED BY <1>2 DEF c

\* An overwriting push of a block that does not fit keeps the newest
\* MaxBufferSize - 1 of all bytes.
LEMMA OverwriteKeepsNewest ==
    ASSUME NEW S, NEW mem \in [Slots -> S], NEW head \in Slots, NEW tail \in Slots,
           NEW bytes \in Seq(S),
           Len(bytes) < MaxBufferSize, Len(bytes) > FreeSpace(head, tail)
    PROVE  KeepsNewest(mem, head, tail, bytes)
  <1>a. PICK end : end = Advanced(tail, Len(bytes))
    OBVIOUS
  <1>b. PICK all : all = Contents(mem, head, tail) \o bytes
    OBVIOUS
  <1>1. PICK n \in 0 .. MaxBufferSize - 1 : n = DataAvailable(head, tail)
    BY SizesType
  <1>2. PICK m \in 0 .. MaxBufferSize - 1 : m = Len(bytes)
    BY MaxBufferSizeAssumption
  <1>3. PICK drop \in Nat : drop + MaxBufferSize = n + m + 1
    <2>1. FreeSpace(head, tail) = MaxBufferSize - 1 - n
      BY <1>1, SizesType, Zenon
    <2>2. m > MaxBufferSize - 1 - n /\ MaxBufferSize \in Nat
      BY <1>2, <2>1, MaxBufferSizeAssumption
    <2>3. n + m + 1 - MaxBufferSize \in Nat
      BY <2>2
    <2>4. QED BY <2>3, MaxBufferSizeAssumption
  <1>4. PICK old \in Seq(S) : old = Contents(mem, head, tail)
    BY ContentsAt, Zenon DEF Reads
  <1>5. Len(old) = n /\ \A i \in 1 .. n : old[i] = mem[SlotAfter(head, i - 1)]
    <2>1. Reads(old, S, mem, head, n)
      BY <1>1, <1>4, ContentsAt, Zenon
    <2>2. QED BY <2>1, Zenon DEF Reads
  <1>6. /\ all \in Seq(S)
        /\ Len(all) = n + m
        /\ all = old \o bytes
    BY <1>b, <1>2, <1>4, <1>5, ConcatProperties
  <1>7. PICK new \in [Slots -> S] : new = Stored(mem, tail, bytes)
    BY StoredAt, Zenon DEF IsStored
  <1>8. \A k \in 0 .. MaxBufferSize - 1 :
            new[SlotAfter(tail, k)] = IF k < m THEN bytes[k + 1] ELSE mem[SlotAfter(tail, k)]
    <2>1. IsStored(new, S, mem, tail, bytes)
      BY <1>7, StoredAt, Zenon
    <2>2. QED BY <1>2, <2>1, Zenon DEF IsStored
  <1>9. tail = SlotAfter(head, n)
    BY <1>1, SizesType
  <1>10. end \in Slots /\ end = SlotAfter(tail, m)
    BY <1>a, <1>2, AdvancedType, MaxBufferSizeAssumption
  <1>11. PICK start \in Slots : start = HeadAfterOverwrite(end)
    BY <1>10, NextSlotType
  <1>12. start = SlotAfter(tail, m + 1)
    <2>1. start = SlotAfter(end, 1)
      BY <1>10, <1>11, NextSlotType
    <2>2. m \in 0 .. MaxBufferSize /\ 1 \in 0 .. MaxBufferSize - m
      BY MaxBufferSizeAssumption
    <2>3. QED BY <1>10, <2>1, <2>2, SlotAfterTwice
  <1>13. DataAvailable(start, end) = MaxBufferSize - 1
    BY <1>10, <1>12, MaxBufferSizeAssumption DEF DataAvailable, SlotAfter, Slots
  <1>14. PICK kept : kept = SubSeq(all, drop + 1, n + m)
    OBVIOUS
  <1>15. /\ kept \in Seq(S)
         /\ Len(kept) = MaxBufferSize - 1
         /\ \A i \in 1 .. MaxBufferSize - 1 : kept[i] = all[drop + i]
    <2>1. n + m \in drop .. Len(all) /\ n + m - drop = MaxBufferSize - 1
      BY <1>3, <1>6, MaxBufferSizeAssumption
    <2> DEFINE last == n + m
    <2>2. IsPiece(kept, S, all, drop, last)
      BY <1>6, <1>14, <2>1, PieceOfSeq, Zenon
    <2>3. last - drop = MaxBufferSize - 1
      BY <2>1
    <2> HIDE DEF last
    <2>4. QED BY <2>2, <2>3, Zenon DEF IsPiece
  <1>16. ASSUME NEW i \in 1 .. MaxBufferSize - 1
         PROVE  new[SlotAfter(start, i - 1)] = kept[i]
    <2>1. MaxBufferSize \in Nat /\ MaxBufferSize > 1 /\ drop + i \in 1 .. n + m
      BY <1>3, MaxBufferSizeAssumption
    <2>2. kept[i] = IF drop + i <= n THEN old[drop + i] ELSE bytes[drop + i - n]
      <3>1. /\ Len(old) = n /\ Len(bytes) = m
            /\ kept[i] = (old \o bytes)[drop + i]
        BY <1>2, <1>5, <1>6, <1>15
      <3>2. \A j \in 1 .. n + m : (old \o bytes)[j] = IF j <= n THEN old[j] ELSE bytes[j - n]
        <4>1. IsConcat(old \o bytes, S, old, bytes)
          BY ConcatOfSeqs, Zenon
        <4>2. QED BY <3>1, <4>1, Zenon DEF IsConcat
      <3>3. QED BY <2>1, <3>1, <3>2
    <2>3. CASE drop + i <= n
      <3>1. /\ drop + i \in 1 .. n /\ drop + i - 1 \in 0 .. n - 1
            /\ m + i \in 0 .. MaxBufferSize - 1 /\ ~(m + i < m)
            /\ MaxBufferSize - n + (drop + i - 1) = m + i
        BY <1>3, <2>1, <2>3
      <3>2. SlotAfter(head, drop + i - 1) = SlotAfter(tail, m + i)
        BY <1>9, <3>1, SlotBehind
      <3>3. SlotAfter(start, i - 1) = SlotAfter(tail, m + i)
        BY <1>12, <2>1, <3>1 DEF SlotAfter, Slots
      <3>4. new[SlotAfter(tail, m + i)] = mem[SlotAfter(tail, m + i)]
        BY <1>8, <3>1
      <3>5. old[drop + i] = mem[SlotAfter(head, drop + i - 1)]
        BY <1>5, <3>1
      <3>6. QED BY <2>2, <2>3, <3>2, <3>3, <3>4, <3>5
    <2>4. CASE ~(drop + i <= n)
      <3> DEFINE k == drop + i - n - 1
      <3>1. /\ k \in 0 .. MaxBufferSize - 1 /\ k < m /\ k + 1 = drop + i - n
            /\ k = m + i - MaxBufferSize
        BY <1>3, <2>1, <2>4
      <3>2. SlotAfter(start, i - 1) = SlotAfter(tail, k)
        BY <1>12, <2>1, <3>1 DEF SlotAfter, Slots
      <3>3. new[SlotAfter(tail, k)] = bytes[k + 1]
        BY <1>8, <3>1
      <3>4. QED BY <2>2, <2>4, <3>1, <3>2, <3>3
    <2>5. QED BY <2>3, <2>4
  <1>17. Contents(new, start, end) = kept
    <2>1. Reads(kept, S, new, start, DataAvailable(start, end))
      BY <1>13, <1>15, <1>16 DEF Reads
    <2>2. QED BY <1>10, <2>1, ContentsAre, Zenon
  <1>18. kept = SubSeq(all, Len(all) - (MaxBufferSize - 1) + 1, Len(all))
    <2>1. drop + 1 = Len(all) - (MaxBufferSize - 1) + 1
      BY <1>3, <1>6, MaxBufferSizeAssumption
    <2>2. QED BY <1>6, <1>14, <2>1
  <1>19. QED BY <1>a, <1>b, <1>7, <1>11, <1>17, <1>18, Zenon DEF KeepsNewest
=============================================================================
