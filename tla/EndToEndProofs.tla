--------------------------- MODULE EndToEndProofs ---------------------------
(***************************************************************************)
(* The decoder behind the whole path from the other end: whatever the      *)
(* rings lose, the device refuses and the writes, reads and fetches cut,   *)
(* what ParserProofs shows of the decoder holds in the composed system;    *)
(* and as long as no fetch takes a part of a packet, what is delivered are *)
(* messages that lost nothing, in order.                                   *)
(***************************************************************************)
EXTENDS EndToEnd, ParserProofs, FiniteSetTheorems, FunctionTheorems

\* The bytes of the messages accepted so far.
Owned == {b \in [owner : 1 .. accepted, at : Nat] : b.at \in DOMAIN traffic.packets[b.owner]}

\* The bytes in the read ring are those that arrived.
RingHoldsArrived ==
    /\ Len(ring) = Len(arrived)
    /\ \A i \in 1 .. Len(arrived) : ring[i] = Value(arrived[i])

(* The way to the decoder: rings that never hold more than they have room  *)
(* for, and in them and on the line only bytes of messages that were       *)
(* accepted; the histories name only such messages.                        *)
TransportInvariant ==
    /\ traffic \in Traffic
    /\ coming = << >>
    /\ accepted \in 0 .. Len(traffic.packets)
    /\ faults \in 0 .. MaxFaults
    /\ writeRing \in Seq(Owned) /\ Len(writeRing) <= RingBytes
    /\ wire \in Seq(Owned)
    /\ arrived \in Seq(Owned) /\ Len(arrived) <= ReadRingBytes
    /\ RingHoldsArrived
    /\ lost \in SUBSET (1 .. accepted)
    /\ cut \in BOOLEAN /\ overrun \in BOOLEAN

(* The inductive invariant of the composed system.  The decoder is given   *)
(* bytes only because the line carries bytes: neither half is inductive    *)
(* alone.                                                                  *)
SystemInvariant == DecoderInvariant /\ TransportInvariant

-----------------------------------------------------------------------------
(* Sequences.                                                              *)

\* A piece of a sequence, and where its elements are in the whole.
LEMMA Piece ==
    ASSUME NEW S, NEW s \in Seq(S), NEW m \in Nat, NEW n \in Int, m >= 1, n <= Len(s)
    PROVE  /\ SubSeq(s, m, n) \in Seq(S)
           /\ Len(SubSeq(s, m, n)) = IF m <= n THEN n - m + 1 ELSE 0
           /\ \A i \in 1 .. n - m + 1 : SubSeq(s, m, n)[i] = s[m + i - 1]
  <1>1. \A i \in m .. n : s[i] \in S
    <2>1. \A i \in m .. n : i \in 1 .. Len(s)
      <3>1. Len(s) \in Nat
        OBVIOUS
      <3>2. QED BY <3>1
    <2>2. QED BY <2>1, ElementOfSeq
  <1>2. m \in Int
    OBVIOUS
  <1>3. QED BY <1>1, <1>2, SubSeqProperties

\* The first elements of a sequence, and the others.
LEMMA Front ==
    ASSUME NEW S, NEW s \in Seq(S), NEW n \in 0 .. Len(s)
    PROVE  /\ SubSeq(s, 1, n) \in Seq(S) /\ Len(SubSeq(s, 1, n)) = n
           /\ \A i \in 1 .. n : SubSeq(s, 1, n)[i] = s[i]
  <1>1. Len(s) \in Nat /\ n \in Int /\ n <= Len(s) /\ n >= 0
    BY LenProperties
  <1>2. /\ SubSeq(s, 1, n) \in Seq(S)
        /\ Len(SubSeq(s, 1, n)) = IF 1 <= n THEN n - 1 + 1 ELSE 0
        /\ \A i \in 1 .. n - 1 + 1 : SubSeq(s, 1, n)[i] = s[1 + i - 1]
    BY <1>1, Piece
  <1>3. n - 1 + 1 = n /\ (IF 1 <= n THEN n - 1 + 1 ELSE 0) = n
        /\ \A i \in 1 .. n : 1 + i - 1 = i
    BY <1>1
  <1>4. QED BY <1>2, <1>3

LEMMA Rest ==
    ASSUME NEW S, NEW s \in Seq(S), NEW n \in 0 .. Len(s)
    PROVE  /\ Len(s) \in Nat
           /\ SubSeq(s, n + 1, Len(s)) \in Seq(S)
           /\ Len(SubSeq(s, n + 1, Len(s))) = Len(s) - n
           /\ \A i \in 1 .. Len(s) - n : SubSeq(s, n + 1, Len(s))[i] = s[n + i]
  <1> DEFINE L == Len(s)
             rest == SubSeq(s, n + 1, L)
  <1>1. L \in Nat /\ L \in Int /\ L <= L /\ n \in Nat /\ n <= L /\ n + 1 \in Nat /\ n + 1 >= 1
    BY LenProperties
  <1>2. /\ rest \in Seq(S)
        /\ Len(rest) = IF n + 1 <= L THEN L - (n + 1) + 1 ELSE 0
        /\ \A i \in 1 .. L - (n + 1) + 1 : rest[i] = s[(n + 1) + i - 1]
    BY <1>1, Piece
  <1> HIDE DEF L, rest
  <1>3. /\ L - (n + 1) + 1 = L - n
        /\ (IF n + 1 <= L THEN L - (n + 1) + 1 ELSE 0) = L - n
        /\ \A i \in 1 .. L - n : (n + 1) + i - 1 = n + i
    BY <1>1
  <1>4. /\ rest \in Seq(S) /\ Len(rest) = L - n
        /\ \A i \in 1 .. L - n : rest[i] = s[n + i]
    BY <1>2, <1>3
  <1>5. QED BY <1>1, <1>4 DEF L, rest

\* How many of the oldest bytes a ring of the given size has no room for.
Excess(s, size) == IF Len(s) > size THEN Len(s) - size ELSE 0

\* An overwriting push drops the oldest bytes and keeps the others.
LEMMA Overwrite ==
    ASSUME NEW S, NEW s \in Seq(S), NEW size \in Nat
    PROVE  /\ Len(s) \in Nat /\ Excess(s, size) \in 0 .. Len(s)
           /\ Newest(s, size) = SubSeq(s, Excess(s, size) + 1, Len(s))
           /\ Dropped(s, size) = SubSeq(s, 1, Excess(s, size))
           /\ Dropped(s, size) \in Seq(S)
           /\ Newest(s, size) \in Seq(S)
           /\ Len(Newest(s, size)) = Len(s) - Excess(s, size)
           /\ Len(Newest(s, size)) <= size
           /\ \A i \in 1 .. Len(s) - Excess(s, size) :
                 Newest(s, size)[i] = s[Excess(s, size) + i]
  <1> DEFINE L == Len(s)
             e == Excess(s, size)
  <1>1. L \in Nat
    BY LenProperties
  <1>2. e = IF L > size THEN L - size ELSE 0
    BY DEF Excess
  <1>3. e \in Nat /\ e \in 0 .. L /\ L - e <= size /\ 1 + e = e + 1
    BY <1>1, <1>2
  <1>4. Newest(s, size) = SubSeq(s, e + 1, L)
    BY <1>2, <1>3 DEF Newest
  <1>5. Dropped(s, size) = SubSeq(s, 1, e)
    <2>1. CASE L > size
      BY <1>2, <2>1 DEF Dropped
    <2>2. CASE ~(L > size)
      <3>1. L - size < 1 /\ L - size \in Int /\ 0 < 1 /\ 0 \in Int /\ 1 \in Int
        BY <1>1, <2>2
      <3>2. SubSeq(s, 1, L - size) = << >> /\ SubSeq(s, 1, 0) = << >>
        BY <3>1, SubSeqEmpty
      <3>3. QED BY <1>2, <2>2, <3>2 DEF Dropped
    <2>3. QED BY <2>1, <2>2
  <1> HIDE DEF e
  <1>6. /\ SubSeq(s, e + 1, L) \in Seq(S)
        /\ Len(SubSeq(s, e + 1, L)) = L - e
        /\ \A i \in 1 .. L - e : SubSeq(s, e + 1, L)[i] = s[e + i]
    BY <1>3, Rest
  <1>7. SubSeq(s, 1, e) \in Seq(S)
    BY <1>3, Front
  <1>8. QED BY <1>1, <1>3, <1>4, <1>5, <1>6, <1>7 DEF e

\* A sequence that is s with t behind it.
IsBoth(all, S, s, t) ==
    /\ all \in Seq(S) /\ Len(s) \in Nat /\ Len(t) \in Nat
    /\ Len(all) = Len(s) + Len(t)
    /\ \A i \in 1 .. Len(s) : all[i] = s[i]
    /\ \A i \in 1 .. Len(t) : all[Len(s) + i] = t[i]

LEMMA Behind ==
    ASSUME NEW S, NEW s \in Seq(S), NEW t \in Seq(S)
    PROVE  IsBoth(s \o t, S, s, t)
  <1>1. Len(s) \in Nat /\ Len(t) \in Nat
    BY LenProperties
  <1>2. /\ s \o t \in Seq(S) /\ Len(s \o t) = Len(s) + Len(t)
        /\ \A i \in 1 .. Len(s) + Len(t) :
              (s \o t)[i] = IF i <= Len(s) THEN s[i] ELSE t[i - Len(s)]
    BY ConcatProperties, ZenonT(60)
  <1>3. \A i \in 1 .. Len(s) : i \in 1 .. Len(s) + Len(t) /\ i <= Len(s)
    BY <1>1
  <1>4. \A i \in 1 .. Len(t) : /\ Len(s) + i \in 1 .. Len(s) + Len(t)
                               /\ ~(Len(s) + i <= Len(s)) /\ (Len(s) + i) - Len(s) = i
    BY <1>1
  <1>5. QED BY <1>1, <1>2, <1>3, <1>4 DEF IsBoth

\* The owners of bytes.
LEMMA OwnersType ==
    ASSUME NEW S, NEW s \in Seq(S)
    PROVE  \A m \in Owners(s) : \E b \in S : m = b.owner
  <1>1. \A i \in DOMAIN s : s[i] \in S
    BY LenProperties, ElementOfSeq
  <1>2. QED BY <1>1 DEF Owners

\* What the values of bytes are.
LEMMA ValueType ==
    ASSUME traffic \in Traffic, accepted \in 0 .. Len(traffic.packets)
    PROVE  \A b \in Owned : Value(b) \in Byte
  <1>1. traffic.packets \in Seq(Seq(Byte)) /\ Len(traffic.packets) \in Nat
    BY PacketsAssumption, LenProperties
  <1>2. \A m \in 1 .. accepted : m \in 1 .. Len(traffic.packets)
    BY <1>1
  <1>3. \A m \in 1 .. accepted : traffic.packets[m] \in Seq(Byte)
    BY <1>1, <1>2, ElementOfSeq
  <1>4. \A m \in 1 .. accepted : \A k \in DOMAIN traffic.packets[m] :
           traffic.packets[m][k] \in Byte
    BY <1>3, LenProperties, ElementOfSeq
  <1>5. QED BY <1>4 DEF Owned, Value

\* The decoder's invariant speaks of these variables only.
LEMMA DecoderFrame ==
    ASSUME DecoderInvariant, UNCHANGED <<handle, pc, stop, coming>>, ring' \in Seq(Byte)
    PROVE  DecoderInvariant'
  BY DEF handle, DecoderInvariant, TypeOK, Complete, Remaining, IpcDataSize

-----------------------------------------------------------------------------
LEMMA SystemInvariantInit == SystemInit => SystemInvariant
  <1> SUFFICES ASSUME SystemInit
               PROVE  SystemInvariant
    OBVIOUS
  <1>1. DecoderInvariant
    BY InvariantInit DEF SystemInit
  <1>2. traffic \in Traffic /\ coming = << >> /\ traffic.packets \in Seq(Seq(Byte))
    BY PacketsAssumption DEF SystemInit, Init
  <1>3. accepted \in 0 .. Len(traffic.packets)
    BY <1>2 DEF SystemInit
  <1>4. faults \in 0 .. MaxFaults
    BY EndToEndAssumption DEF SystemInit
  <1>5. << >> \in Seq(Owned) /\ Len(<< >>) = 0 /\ 0 <= RingBytes /\ 0 <= ReadRingBytes
    BY EndToEndAssumption
  <1>6. RingHoldsArrived
    BY DEF SystemInit, Init, RingHoldsArrived
  <1>7. QED
    BY <1>1, <1>2, <1>3, <1>4, <1>5, <1>6 DEF SystemInit, SystemInvariant, TransportInvariant

\* The packet sent next.
Added == [i \in DOMAIN traffic.packets[accepted + 1] |-> [owner |-> accepted + 1, at |-> i]]

LEMMA SendParts ==
    ASSUME TransportInvariant, Send
    PROVE  /\ accepted \in Nat /\ accepted + 1 \in 1 .. Len(traffic.packets)
           /\ accepted' = accepted + 1 /\ traffic' = traffic
           /\ Owned \subseteq Owned' /\ writeRing \in Seq(Owned') /\ Added \in Seq(Owned')
           /\ \A i \in DOMAIN Added : Added[i] = [owner |-> accepted + 1, at |-> i]
  <1>1. accepted < Len(traffic.packets)
    BY DEF Send
  <1>2. traffic.packets \in Seq(Seq(Byte)) /\ Len(traffic.packets) \in Nat
    BY PacketsAssumption, LenProperties DEF TransportInvariant
  <1>3. accepted \in Nat /\ accepted + 1 \in 1 .. Len(traffic.packets)
    BY <1>1, <1>2 DEF TransportInvariant
  <1>4. accepted' = accepted + 1 /\ traffic' = traffic
    BY DEF Send, vars, line
  <1> DEFINE packet == traffic.packets[accepted + 1]
  <1>5. packet \in Seq(Byte) /\ DOMAIN packet = 1 .. Len(packet) /\ Len(packet) \in Nat
    BY <1>2, <1>3, ElementOfSeq, LenProperties
  <1>6. Owned \subseteq Owned'
    <2>1. \A m \in 1 .. accepted : m \in 1 .. accepted + 1
      BY <1>3
    <2>2. QED BY <1>4, <2>1 DEF Owned
  <1>7. Added \in Seq(Owned')
    <2>1. \A i \in 1 .. Len(packet) : [owner |-> accepted + 1, at |-> i] \in Owned'
      <3>1. accepted + 1 \in 1 .. accepted + 1
        BY <1>3
      <3>2. \A i \in 1 .. Len(packet) : i \in Nat /\ i \in DOMAIN packet
        BY <1>5
      <3>3. QED BY <1>4, <3>1, <3>2 DEF Owned
    <2>2. Added = [i \in 1 .. Len(packet) |-> [owner |-> accepted + 1, at |-> i]]
      BY <1>5 DEF Added
    <2> HIDE DEF packet
    <2>3. [i \in 1 .. Len(packet) |-> [owner |-> accepted + 1, at |-> i]] \in Seq(Owned')
      BY <1>5, <2>1, IsASeq
    <2>4. QED BY <2>2, <2>3
  <1>8. writeRing \in Seq(Owned')
    BY <1>6, SeqMonotonic DEF TransportInvariant
  <1>9. QED BY <1>3, <1>4, <1>6, <1>7, <1>8 DEF Added

\* tc_ipc_write_data puts a whole packet behind the bytes in the ring and
\* gives up the oldest that have no room.
LEMMA SendKeeps == SystemInvariant /\ Send => SystemInvariant'
  <1> SUFFICES ASSUME SystemInvariant, Send
               PROVE  SystemInvariant'
    OBVIOUS
  <1> DEFINE all == writeRing \o Added
  <1>1. /\ writeRing' = Newest(all, RingBytes)
        /\ lost' = lost \cup Owners(Dropped(all, RingBytes))
        /\ UNCHANGED <<vars, wire, arrived, faults, cut, overrun, due>>
    BY DEF Send, Added
  <1>2. TransportInvariant /\ DecoderInvariant
    BY DEF SystemInvariant
  <1>3. /\ accepted \in Nat /\ accepted + 1 \in 1 .. Len(traffic.packets)
        /\ accepted' = accepted + 1 /\ traffic' = traffic
        /\ Owned \subseteq Owned' /\ writeRing \in Seq(Owned') /\ Added \in Seq(Owned')
    BY <1>2, SendParts
  <1>4. all \in Seq(Owned')
    BY <1>3, ConcatProperties
  <1> HIDE DEF all
  <1>5. /\ writeRing' \in Seq(Owned') /\ Len(writeRing') <= RingBytes
        /\ Dropped(all, RingBytes) \in Seq(Owned')
    <2>1. RingBytes \in Nat
      BY EndToEndAssumption
    <2>2. QED BY <1>1, <1>4, <2>1, Overwrite
  <1>6. lost' \in SUBSET (1 .. accepted')
    <2>1. Owners(Dropped(all, RingBytes)) \in SUBSET (1 .. accepted')
      <3>1. \A b \in Owned' : b.owner \in 1 .. accepted'
        BY DEF Owned
      <3>2. \A m \in Owners(Dropped(all, RingBytes)) : \E b \in Owned' : m = b.owner
        BY <1>5, OwnersType
      <3>3. QED BY <3>1, <3>2
    <2>2. 1 .. accepted \subseteq 1 .. accepted'
      BY <1>3
    <2>3. QED BY <1>1, <1>2, <2>1, <2>2 DEF TransportInvariant
  <1>7. DecoderInvariant'
    <2>1. UNCHANGED <<handle, pc, stop, coming>> /\ ring' \in Seq(Byte)
      BY <1>1, <1>2 DEF vars, line, DecoderInvariant, TypeOK
    <2>2. QED BY <1>2, <2>1, DecoderFrame
  <1>8. wire' \in Seq(Owned') /\ arrived' \in Seq(Owned')
    <2>1. wire \in Seq(Owned') /\ arrived \in Seq(Owned')
      BY <1>2, <1>3, SeqMonotonic DEF TransportInvariant
    <2>2. QED BY <1>1, <2>1
  <1>9. accepted' \in 0 .. Len(traffic'.packets)
    <2>1. Len(traffic.packets) \in Nat
      BY <1>2, PacketsAssumption, LenProperties DEF TransportInvariant
    <2>2. QED BY <1>3, <2>1
  <1>10. RingHoldsArrived'
    BY <1>1, <1>2, <1>3 DEF TransportInvariant, RingHoldsArrived, Value, vars, line
  <1>11. traffic' \in Traffic /\ coming' = << >> /\ faults' \in 0 .. MaxFaults
         /\ cut' \in BOOLEAN /\ overrun' \in BOOLEAN /\ Len(arrived') <= ReadRingBytes
    BY <1>1, <1>2, <1>3 DEF TransportInvariant, vars, line
  <1>12. QED
    BY <1>5, <1>6, <1>7, <1>8, <1>9, <1>10, <1>11 DEF SystemInvariant, TransportInvariant

\* The bytes that a turn of WriteThread pops, of which the device takes n.
LEMMA WriteParts ==
    ASSUME TransportInvariant, Write
    PROVE  /\ PopSize \in 0 .. Len(writeRing) /\ Len(writeRing) \in Nat
           /\ UNCHANGED <<vars, arrived, accepted, cut, overrun, due>>
           /\ writeRing' = SubSeq(writeRing, PopSize + 1, Len(writeRing))
           /\ \E n \in 0 .. PopSize :
                 /\ wire' = wire \o SubSeq(writeRing, 1, n)
                 /\ lost' = lost \cup Owners(SubSeq(writeRing, n + 1, PopSize))
                 /\ n < PopSize => faults < MaxFaults
                 /\ faults' = IF n < PopSize THEN faults + 1 ELSE faults
  <1>1. Len(writeRing) \in Nat
    BY LenProperties DEF TransportInvariant
  <1>2. PopSize \in 0 .. Len(writeRing)
    BY <1>1, EndToEndAssumption DEF PopSize, Minimum
  <1>3. QED BY <1>1, <1>2 DEF Write, AfterWrite

\* A turn of WriteThread, whatever part of its bytes the device takes.
LEMMA WriteKeeps == SystemInvariant /\ Write => SystemInvariant'
  <1> SUFFICES ASSUME SystemInvariant, Write
               PROVE  SystemInvariant'
    OBVIOUS
  <1>1. TransportInvariant /\ DecoderInvariant
    BY DEF SystemInvariant
  <1>2. /\ PopSize \in 0 .. Len(writeRing) /\ Len(writeRing) \in Nat
        /\ UNCHANGED <<vars, arrived, accepted, cut, overrun, due>>
        /\ writeRing' = SubSeq(writeRing, PopSize + 1, Len(writeRing))
    BY <1>1, WriteParts
  <1>3. PICK n \in 0 .. PopSize :
              /\ wire' = wire \o SubSeq(writeRing, 1, n)
              /\ lost' = lost \cup Owners(SubSeq(writeRing, n + 1, PopSize))
              /\ n < PopSize => faults < MaxFaults
              /\ faults' = IF n < PopSize THEN faults + 1 ELSE faults
    BY <1>1, WriteParts
  <1>4. /\ n \in Nat /\ n <= PopSize /\ PopSize \in Nat /\ PopSize <= Len(writeRing)
        /\ n <= Len(writeRing)
    BY <1>2
  <1>5. UNCHANGED <<handle, pc, stop, ring, coming, traffic, accepted>>
    BY <1>2 DEF vars, line
  <1>6. Owned' = Owned
    BY <1>5 DEF Owned
  <1>7. writeRing \in Seq(Owned) /\ wire \in Seq(Owned)
    BY <1>1 DEF TransportInvariant
  <1>8. writeRing' \in Seq(Owned) /\ Len(writeRing') <= RingBytes
    <2>1. writeRing' \in Seq(Owned) /\ Len(writeRing') = Len(writeRing) - PopSize
      BY <1>2, <1>7, Rest
    <2>2. Len(writeRing) <= RingBytes /\ RingBytes \in Nat
      BY <1>1, EndToEndAssumption DEF TransportInvariant
    <2>3. QED BY <1>2, <1>4, <2>1, <2>2
  <1>9. wire' \in Seq(Owned)
    <2>1. SubSeq(writeRing, 1, n) \in Seq(Owned)
      BY <1>2, <1>4, <1>7, Front
    <2>2. QED BY <1>3, <1>7, <2>1, ConcatProperties
  <1>10. lost' \in SUBSET (1 .. accepted)
    <2>1. n + 1 \in Nat /\ n + 1 >= 1 /\ PopSize \in Int
      BY <1>4
    <2>2. SubSeq(writeRing, n + 1, PopSize) \in Seq(Owned)
      BY <1>4, <1>7, <2>1, Piece
    <2>3. Owners(SubSeq(writeRing, n + 1, PopSize)) \in SUBSET (1 .. accepted)
      <3>1. \A b \in Owned : b.owner \in 1 .. accepted
        BY DEF Owned
      <3>2. \A m \in Owners(SubSeq(writeRing, n + 1, PopSize)) : \E b \in Owned : m = b.owner
        BY <2>2, OwnersType
      <3>3. QED BY <3>1, <3>2
    <2>4. QED BY <1>1, <1>3, <2>3 DEF TransportInvariant
  <1>11. faults' \in 0 .. MaxFaults
    BY <1>1, <1>3, EndToEndAssumption DEF TransportInvariant
  <1>12. DecoderInvariant'
    <2>1. ring' \in Seq(Byte)
      BY <1>1, <1>5 DEF DecoderInvariant, TypeOK
    <2>2. QED BY <1>1, <1>5, <2>1, DecoderFrame
  <1>13. RingHoldsArrived'
    BY <1>1, <1>2, <1>5 DEF TransportInvariant, RingHoldsArrived, Value
  <1>14. QED
    BY <1>1, <1>2, <1>5, <1>6, <1>8, <1>9, <1>10, <1>11, <1>12, <1>13
       DEF SystemInvariant, TransportInvariant

\* The bytes that a turn of ReadThread takes off the line.
LEMMA ReadParts ==
    ASSUME TransportInvariant, Read
    PROVE  /\ UNCHANGED <<handle, pc, stop, coming, delivered, traffic, writeRing, accepted,
                          cut, due>>
           /\ \E n \in 0 .. Len(wire) :
                 LET portion == SubSeq(wire, 1, n)
                     all     == arrived \o portion
                 IN  /\ portion \in Seq(Owned) /\ Len(portion) = n
                     /\ \A i \in 1 .. n : portion[i] = wire[i]
                     /\ all \in Seq(Owned)
                     /\ wire' = SubSeq(wire, n + 1, Len(wire))
                     /\ arrived' = Newest(all, ReadRingBytes)
                     /\ ring' = Newest(ring \o [i \in 1 .. n |-> Value(wire[i])],
                                       ReadRingBytes)
                     /\ lost' = lost \cup Owners(Dropped(all, ReadRingBytes))
                     /\ overrun' \in BOOLEAN
                     /\ faults' \in 0 .. MaxFaults
  <1>1. UNCHANGED <<handle, pc, stop, coming, delivered, traffic, writeRing, accepted, cut, due>>
    BY DEF Read
  <1>2. PICK n \in 1 .. Minimum(Len(wire), ReadSize) :
           LET all == arrived \o SubSeq(wire, 1, n)
           IN  /\ n < Minimum(Len(wire), ReadSize) => faults < MaxFaults
               /\ arrived' = Newest(all, ReadRingBytes)
               /\ ring' = Newest(ring \o [i \in 1 .. n |-> Value(wire[i])], ReadRingBytes)
               /\ wire' = SubSeq(wire, n + 1, Len(wire))
               /\ lost' = lost \cup Owners(Dropped(all, ReadRingBytes))
               /\ overrun' = (overrun \/ Len(all) > ReadRingBytes)
               /\ faults' = IF n < Minimum(Len(wire), ReadSize) THEN faults + 1 ELSE faults
    BY DEF Read
  <1>3. wire \in Seq(Owned) /\ Len(wire) \in Nat /\ arrived \in Seq(Owned)
    BY LenProperties DEF TransportInvariant
  <1>4. n \in Nat /\ n \in 0 .. Len(wire) /\ n <= Len(wire) /\ n \in Int
    BY <1>3, EndToEndAssumption DEF Minimum
  <1> DEFINE portion == SubSeq(wire, 1, n)
             all     == arrived \o portion
  <1>5. /\ portion \in Seq(Owned) /\ Len(portion) = n
        /\ \A i \in 1 .. n : portion[i] = wire[i]
    BY <1>3, <1>4, Front
  <1>6. all \in Seq(Owned)
    BY <1>3, <1>5, ConcatProperties
  <1>7. faults' \in 0 .. MaxFaults
    BY <1>2, EndToEndAssumption DEF TransportInvariant
  <1>8. overrun' \in BOOLEAN
    BY <1>2
  <1>9. QED BY <1>1, <1>2, <1>4, <1>5, <1>6, <1>7, <1>8

\* The values of the bytes read come after those in the read ring.
LEMMA ReadValues ==
    ASSUME TransportInvariant, DecoderInvariant, NEW n \in 0 .. Len(wire)
    PROVE  LET all    == arrived \o SubSeq(wire, 1, n)
               values == ring \o [i \in 1 .. n |-> Value(wire[i])]
           IN  /\ all \in Seq(Owned) /\ values \in Seq(Byte)
               /\ Len(values) = Len(all)
               /\ \A i \in 1 .. Len(all) : values[i] = Value(all[i])
  <1> DEFINE portion == SubSeq(wire, 1, n)
             all     == arrived \o portion
             added   == [i \in 1 .. n |-> Value(wire[i])]
             values  == ring \o added
             a       == Len(arrived)
  <1>1. /\ wire \in Seq(Owned) /\ Len(wire) \in Nat /\ arrived \in Seq(Owned)
        /\ ring \in Seq(Byte) /\ Len(ring) = a /\ a \in Nat
        /\ \A i \in 1 .. a : ring[i] = Value(arrived[i])
    BY LenProperties DEF TransportInvariant, RingHoldsArrived, DecoderInvariant, TypeOK
  <1>2. n \in Nat /\ n <= Len(wire)
    BY <1>1
  <1>3. /\ portion \in Seq(Owned) /\ Len(portion) = n
        /\ \A i \in 1 .. n : portion[i] = wire[i]
    BY <1>1, Front
  <1>4. added \in Seq(Byte) /\ Len(added) = n /\ \A i \in 1 .. n : added[i] = Value(wire[i])
    <2>1. \A i \in 1 .. n : i \in 1 .. Len(wire)
      BY <1>1, <1>2
    <2>2. \A i \in 1 .. n : Value(wire[i]) \in Byte
      BY <1>1, <2>1, ElementOfSeq, ValueType DEF TransportInvariant
    <2>3. added \in Seq(Byte)
      BY <1>2, <2>2, IsASeq
    <2>4. Len(added) = n
      BY <1>2
    <2>5. QED BY <2>3, <2>4
  <1> HIDE DEF portion, added, a
  <1>5. /\ all \in Seq(Owned) /\ Len(all) = a + n
        /\ \A i \in 1 .. a : all[i] = arrived[i]
        /\ \A i \in 1 .. n : all[a + i] = portion[i]
    <2>1. arrived \in Seq(Owned) /\ portion \in Seq(Owned)
      BY <1>1, <1>3
    <2>2. IsBoth(all, Owned, arrived, portion)
      BY <2>1, Behind, Zenon
    <2>3. QED BY <1>3, <2>2 DEF a, IsBoth
  <1>6. /\ values \in Seq(Byte) /\ Len(values) = a + n
        /\ \A i \in 1 .. a : values[i] = ring[i]
        /\ \A i \in 1 .. n : values[a + i] = added[i]
    <2>1. ring \in Seq(Byte) /\ added \in Seq(Byte)
      BY <1>1, <1>4
    <2>2. IsBoth(values, Byte, ring, added)
      BY <2>1, Behind, Zenon
    <2>3. QED BY <1>1, <1>4, <2>2 DEF IsBoth
  <1> HIDE DEF all, values
  <1>7. \A i \in 1 .. a + n : values[i] = Value(all[i])
    <2> TAKE i \in 1 .. a + n
    <2>1. CASE i <= a
      <3>1. i \in 1 .. a
        BY <1>1, <2>1
      <3>2. QED BY <1>1, <1>5, <1>6, <3>1
    <2>2. CASE ~(i <= a)
      <3> DEFINE k == i - a
      <3>1. k \in 1 .. n /\ a + k = i
        BY <1>1, <1>2, <2>2
      <3> HIDE DEF k
      <3>2. values[a + k] = Value(wire[k]) /\ all[a + k] = wire[k]
        BY <1>3, <1>4, <1>5, <1>6, <3>1
      <3>3. QED BY <3>1, <3>2
    <2>3. QED BY <2>1, <2>2
  <1>8. QED BY <1>5, <1>6, <1>7 DEF all, values, portion, added

\* A turn of ReadThread, however many bytes the read returns.
LEMMA ReadKeeps == SystemInvariant /\ Read => SystemInvariant'
  <1> SUFFICES ASSUME SystemInvariant, Read
               PROVE  SystemInvariant'
    OBVIOUS
  <1>1. TransportInvariant /\ DecoderInvariant
    BY DEF SystemInvariant
  <1>2. UNCHANGED <<handle, pc, stop, coming, delivered, traffic, writeRing, accepted, cut, due>>
    BY <1>1, ReadParts
  <1>3. PICK n \in 0 .. Len(wire) :
           LET all == arrived \o SubSeq(wire, 1, n)
           IN  /\ all \in Seq(Owned)
               /\ wire' = SubSeq(wire, n + 1, Len(wire))
               /\ arrived' = Newest(all, ReadRingBytes)
               /\ ring' = Newest(ring \o [i \in 1 .. n |-> Value(wire[i])], ReadRingBytes)
               /\ lost' = lost \cup Owners(Dropped(all, ReadRingBytes))
               /\ overrun' \in BOOLEAN
               /\ faults' \in 0 .. MaxFaults
    BY <1>1, ReadParts
  <1> DEFINE all    == arrived \o SubSeq(wire, 1, n)
             values == ring \o [i \in 1 .. n |-> Value(wire[i])]
             e      == Excess(all, ReadRingBytes)
  <1>4. /\ all \in Seq(Owned) /\ values \in Seq(Byte) /\ Len(values) = Len(all)
        /\ \A i \in 1 .. Len(all) : values[i] = Value(all[i])
    BY <1>1, ReadValues
  <1>5. arrived' = Newest(all, ReadRingBytes) /\ ring' = Newest(values, ReadRingBytes)
        /\ lost' = lost \cup Owners(Dropped(all, ReadRingBytes))
    BY <1>3
  <1> HIDE DEF all, values
  <1>6. ReadRingBytes \in Nat
    BY EndToEndAssumption
  <1>7. /\ Len(all) \in Nat /\ e \in 0 .. Len(all)
        /\ Dropped(all, ReadRingBytes) = SubSeq(all, 1, e)
        /\ arrived' \in Seq(Owned) /\ Len(arrived') = Len(all) - e
        /\ Len(arrived') <= ReadRingBytes
        /\ \A i \in 1 .. Len(all) - e : arrived'[i] = all[e + i]
    BY <1>4, <1>5, <1>6, Overwrite
  <1>8. /\ Excess(values, ReadRingBytes) = e
        /\ ring' \in Seq(Byte) /\ Len(ring') = Len(all) - e
        /\ \A i \in 1 .. Len(all) - e : ring'[i] = values[e + i]
    <2>1. Excess(values, ReadRingBytes) = e
      BY <1>4 DEF Excess
    <2>2. /\ ring' \in Seq(Byte) /\ Len(ring') = Len(values) - e
          /\ \A i \in 1 .. Len(values) - e : ring'[i] = values[e + i]
      <3>1. /\ Newest(values, ReadRingBytes) \in Seq(Byte)
            /\ Len(Newest(values, ReadRingBytes))
                  = Len(values) - Excess(values, ReadRingBytes)
            /\ \A i \in 1 .. Len(values) - Excess(values, ReadRingBytes) :
                  Newest(values, ReadRingBytes)[i]
                     = values[Excess(values, ReadRingBytes) + i]
        BY <1>4, <1>6, Overwrite, Zenon
      <3>2. QED BY <1>5, <2>1, <3>1
    <2>3. QED BY <1>4, <2>1, <2>2
  <1> HIDE DEF e
  <1>9. RingHoldsArrived'
    <2>1. \A i \in 1 .. Len(all) - e : e + i \in 1 .. Len(all)
      BY <1>7
    <2>2. \A i \in 1 .. Len(all) - e : ring'[i] = Value(arrived'[i])
      BY <1>4, <1>7, <1>8, <2>1
    <2>3. \A i \in 1 .. Len(all) - e : ring'[i] = Value(arrived[i])'
      BY <1>2, <2>2 DEF Value
    <2>4. QED BY <1>7, <1>8, <2>3 DEF RingHoldsArrived
  <1>10. Owned' = Owned /\ accepted' = accepted /\ traffic' = traffic
    BY <1>2 DEF Owned
  <1>11. wire' \in Seq(Owned)
    <2>1. wire \in Seq(Owned)
      BY <1>1 DEF TransportInvariant
    <2>2. QED BY <1>3, <2>1, Rest
  <1>12. lost' \in SUBSET (1 .. accepted)
    <2>1. SubSeq(all, 1, e) \in Seq(Owned)
      BY <1>4, <1>7, Front
    <2>2. Owners(Dropped(all, ReadRingBytes)) \in SUBSET (1 .. accepted)
      <3>1. \A b \in Owned : b.owner \in 1 .. accepted
        BY DEF Owned
      <3>2. \A m \in Owners(SubSeq(all, 1, e)) : \E b \in Owned : m = b.owner
        BY <2>1, OwnersType
      <3>3. QED BY <1>7, <3>1, <3>2
    <2>3. QED BY <1>1, <1>5, <2>2 DEF TransportInvariant
  <1>13. DecoderInvariant'
    BY <1>1, <1>2, <1>8, DecoderFrame
  <1>14. QED
    BY <1>1, <1>2, <1>3, <1>7, <1>9, <1>10, <1>11, <1>12, <1>13
       DEF SystemInvariant, TransportInvariant

\* The bytes the parser thread fetches are the oldest that arrived.
LEMMA TakeParts ==
    ASSUME TransportInvariant, DecoderInvariant, Take
    PROVE  /\ Fetch /\ Fetched \in 0 .. Len(arrived) /\ Len(arrived) \in Nat
           /\ arrived' = SubSeq(arrived, Fetched + 1, Len(arrived))
           /\ ring' = SubSeq(ring, Fetched + 1, Len(ring))
           /\ cut' = (cut \/ ~Whole(SubSeq(arrived, 1, Fetched)))
           /\ UNCHANGED <<writeRing, wire, accepted, faults, lost, overrun, coming, traffic>>
  <1>1. Fetch /\ UNCHANGED <<writeRing, wire, accepted, faults, lost, overrun>>
        /\ arrived' = SubSeq(arrived, Fetched + 1, Len(arrived))
        /\ cut' = (cut \/ ~Whole(SubSeq(arrived, 1, Fetched)))
    BY DEF Take, Fetched
  <1>2. ring' = SubSeq(ring, Fetched + 1, Len(ring)) /\ coming' = coming /\ traffic' = traffic
    BY <1>1 DEF Fetch, Fetched
  <1>3. Len(arrived) \in Nat /\ Len(ring) = Len(arrived)
    BY LenProperties DEF TransportInvariant, RingHoldsArrived
  <1>4. Fetched \in 0 .. Len(arrived)
    <2>1. offset = 0 /\ dataSize \in 0 .. MaxSize
      BY <1>1, DecoderInvariant DEF Fetch, DecoderInvariant, TypeOK
    <2>2. FreeSpace \in Nat
      BY <2>1, Sizes DEF FreeSpace
    <2>3. QED BY <1>3, <2>2 DEF Fetched, Minimum
  <1>5. QED BY <1>1, <1>2, <1>3, <1>4

LEMMA TakeKeeps == SystemInvariant /\ Take => SystemInvariant'
  <1> SUFFICES ASSUME SystemInvariant, Take
               PROVE  SystemInvariant'
    OBVIOUS
  <1> DEFINE n == Fetched
             L == Len(arrived)
  <1>1. TransportInvariant /\ DecoderInvariant
    BY DEF SystemInvariant
  <1>2. /\ Fetch /\ n \in 0 .. L /\ L \in Nat
        /\ arrived' = SubSeq(arrived, n + 1, L)
        /\ ring' = SubSeq(ring, n + 1, Len(ring))
        /\ cut' \in BOOLEAN
        /\ UNCHANGED <<writeRing, wire, accepted, faults, lost, overrun, coming, traffic>>
    <2>1. cut' = (cut \/ ~Whole(SubSeq(arrived, 1, n)))
      BY <1>1, TakeParts
    <2>2. QED BY <1>1, <2>1, TakeParts
  <1>3. DecoderInvariant'
    BY <1>1, <1>2, InvariantFetch
  <1>4. /\ arrived \in Seq(Owned) /\ ring \in Seq(Byte) /\ Len(ring) = L
        /\ L <= ReadRingBytes
        /\ \A i \in 1 .. L : ring[i] = Value(arrived[i])
    BY <1>1 DEF TransportInvariant, RingHoldsArrived, DecoderInvariant, TypeOK
  <1> HIDE DEF n
  <1>5. /\ arrived' \in Seq(Owned) /\ Len(arrived') = L - n
        /\ \A i \in 1 .. L - n : arrived'[i] = arrived[n + i]
    BY <1>2, <1>4, Rest
  <1>6. /\ Len(ring') = L - n
        /\ \A i \in 1 .. L - n : ring'[i] = ring[n + i]
    <2> HIDE DEF L
    <2>1. n \in 0 .. Len(ring)
      BY <1>2, <1>4
    <2>2. QED BY <1>2, <1>4, <2>1, Rest
  <1> HIDE DEF L
  <1>7. RingHoldsArrived'
    <2>1. \A i \in 1 .. L - n : n + i \in 1 .. L
      BY <1>2
    <2>2. \A i \in 1 .. L - n : ring'[i] = Value(arrived[i])'
      BY <1>2, <1>4, <1>5, <1>6, <2>1, SMTT(30) DEF Value
    <2>3. QED BY <1>5, <1>6, <2>2 DEF RingHoldsArrived
  <1>8. Owned' = Owned
    BY <1>2 DEF Owned
  <1>9. Len(arrived') <= ReadRingBytes
    <2>1. ReadRingBytes \in Nat
      BY EndToEndAssumption
    <2>2. QED BY <1>2, <1>4, <1>5, <2>1
  <1>10. QED
    BY <1>1, <1>2, <1>3, <1>5, <1>7, <1>8, <1>9 DEF SystemInvariant, TransportInvariant

\* The decoder leaves the way to it alone.
LEMMA DecoderKeeps == SystemInvariant /\ Decoder => SystemInvariant'
  <1> SUFFICES ASSUME SystemInvariant, Decoder
               PROVE  SystemInvariant'
    OBVIOUS
  <1>1. DecoderInvariant'
    BY InvariantStep DEF SystemInvariant, Decoder, Next
  <1>2. UNCHANGED <<ring, coming, traffic>>
    BY DEF Decoder, Decode, DecodeIdle, DecodeSync, DecodeStart, Match,
           DecodeHader, DecodeData, DecodeCRC, Compact, Compacted, line
  <1>3. UNCHANGED <<writeRing, wire, arrived, accepted, faults, lost, cut, overrun>>
    BY DEF Decoder, transport
  <1>4. QED
    BY <1>1, <1>2, <1>3
       DEF SystemInvariant, TransportInvariant, Owned, RingHoldsArrived, Value

LEMMA SystemInvariantStep == SystemInvariant /\ [SystemNext]_system => SystemInvariant'
  <1>1. ASSUME SystemInvariant, UNCHANGED system
        PROVE  SystemInvariant'
    <2>1. DecoderInvariant'
      BY <1>1, InvariantStep DEF SystemInvariant, system
    <2>2. UNCHANGED <<ring, coming, traffic, writeRing, wire, arrived, accepted, faults, lost,
                      cut, overrun>>
      BY <1>1 DEF system, transport, vars, line
    <2>3. QED
      BY <1>1, <2>1, <2>2
         DEF SystemInvariant, TransportInvariant, Owned, RingHoldsArrived, Value
  <1>2. QED
    BY <1>1, SendKeeps, WriteKeeps, ReadKeeps, TakeKeeps, DecoderKeeps DEF SystemNext

-----------------------------------------------------------------------------
(* The invariant of the composed system: the write ring and the read ring  *)
(* never hold more than they have room for, what is in them and on the     *)
(* line are bytes of accepted messages, and the decoder's invariant        *)
(* survives every way in which the rings overflow and the writes, reads    *)
(* and fetches cut, shorten or drop what they hold.                        *)
THEOREM SystemCorrect == SystemSpec => []SystemInvariant
  BY SystemInvariantInit, SystemInvariantStep, PTL DEF SystemSpec

(* With messages sent through it, the decoder's offsets stay inside its    *)
(* buffer and its header fields are 16 bits wide.                          *)
THEOREM SystemTypeCorrect == SystemSpec => []TypeOK
  <1>1. SystemInvariant => TypeOK
    BY DEF SystemInvariant, DecoderInvariant
  <1>2. QED BY <1>1, SystemCorrect, PTL

(* Behind any write ring and any device, tc_parser_decoder reads only      *)
(* bytes before dataSize.                                                  *)
THEOREM SystemReadsValid == SystemSpec => []ReadsOnlyValidBytes
  <1>1. SystemInvariant => ReadsOnlyValidBytes
    BY ReadsValid DEF SystemInvariant
  <1>2. QED BY <1>1, SystemCorrect, PTL

(* However the writes cut the packets, what tc_parser_decoder keeps for    *)
(* its next call is less than one packet.                                  *)
THEOREM SystemKeepsPartial == SystemSpec => []HoldsPartialPacket
  <1>1. SystemInvariant => HoldsPartialPacket
    BY KeepsPartial DEF SystemInvariant
  <1>2. QED BY <1>1, SystemCorrect, PTL

(* No loss in the write ring or on the line fills the decoder's buffer,    *)
(* unless it makes a header announce a packet larger than the buffer.      *)
THEOREM SystemLengthWedges == SystemSpec => []WedgedOnlyByLength
  <1>1. SystemInvariant => WedgedOnlyByLength
    BY LengthWedges DEF SystemInvariant
  <1>2. QED BY <1>1, SystemCorrect, PTL

(* No message sent later frees a decoder whose buffer is full of an        *)
(* oversized packet: nothing is delivered again.                           *)
THEOREM SystemWedgeNeverEnds == SystemSpec => WedgeIsPermanent
  <1>1. ASSUME SystemInvariant, [SystemNext]_system
        PROVE  [Oversized => Oversized' /\ delivered' = delivered]_vars
    <2> SUFFICES ASSUME Oversized
                 PROVE  Oversized' /\ delivered' = delivered
      OBVIOUS
    <2>1. CASE Send
      BY <2>1 DEF Send, vars, handle, Oversized
    <2>2. CASE Write
      BY <2>2 DEF Write, vars, handle, Oversized
    <2>3. CASE Read
      BY <2>3 DEF Read, handle, Oversized
    <2>4. CASE Take \/ Decoder \/ UNCHANGED system
      BY <1>1, <2>4, OversizedStep DEF Take, Decoder, Next, system, SystemInvariant
    <2>5. QED BY <1>1, <2>1, <2>2, <2>3, <2>4 DEF SystemNext
  <1>2. QED BY <1>1, SystemCorrect, PTL DEF SystemSpec, WedgeIsPermanent

-----------------------------------------------------------------------------
(* The order of the bytes.                                                 *)

\* Byte a was sent before byte b.
Before(a, b) == a.owner < b.owner \/ (a.owner = b.owner /\ a.at < b.at)

Sorted(s) == \A i, j \in DOMAIN s : i < j => Before(s[i], s[j])

Precedes(s, t) == \A a \in Range(s), b \in Range(t) : Before(a, b)

\* The elements of s with the numbers lo + 1 to hi.
LEMMA Middle ==
    ASSUME NEW S, NEW s \in Seq(S), NEW lo \in 0 .. Len(s), NEW hi \in lo .. Len(s)
    PROVE  LET t == SubSeq(s, lo + 1, hi) IN
           /\ t \in Seq(S) /\ Len(t) = hi - lo
           /\ \A i \in 1 .. hi - lo : t[i] = s[lo + i]
  <1> DEFINE t == SubSeq(s, lo + 1, hi)
  <1>1. /\ Len(s) \in Nat /\ lo \in Nat /\ hi \in Nat /\ hi \in Int /\ lo <= hi /\ hi <= Len(s)
        /\ lo + 1 \in Nat /\ lo + 1 >= 1
    <2>1. Len(s) \in Nat
      BY LenProperties
    <2>2. QED BY <2>1
  <1>2. /\ t \in Seq(S)
        /\ Len(t) = IF lo + 1 <= hi THEN hi - (lo + 1) + 1 ELSE 0
        /\ \A i \in 1 .. hi - (lo + 1) + 1 : t[i] = s[(lo + 1) + i - 1]
    BY <1>1, Piece
  <1> HIDE DEF t
  <1>3. /\ hi - (lo + 1) + 1 = hi - lo
        /\ (IF lo + 1 <= hi THEN hi - (lo + 1) + 1 ELSE 0) = hi - lo
        /\ \A i \in 1 .. hi - lo : (lo + 1) + i - 1 = lo + i
    BY <1>1
  <1>4. /\ t \in Seq(S) /\ Len(t) = hi - lo
        /\ \A i \in 1 .. hi - lo : t[i] = s[lo + i]
    BY <1>2, <1>3
  <1>5. QED BY <1>4 DEF t

\* A piece of sorted bytes is sorted, and these are the bytes in it.
LEMMA MiddleSorted ==
    ASSUME NEW S, NEW s \in Seq(S), Sorted(s), NEW lo \in 0 .. Len(s), NEW hi \in lo .. Len(s)
    PROVE  /\ Sorted(SubSeq(s, lo + 1, hi))
           /\ Range(SubSeq(s, lo + 1, hi)) = {s[i] : i \in lo + 1 .. hi}
  <1> DEFINE t == SubSeq(s, lo + 1, hi)
  <1>1. /\ t \in Seq(S) /\ Len(t) = hi - lo
        /\ \A i \in 1 .. hi - lo : t[i] = s[lo + i]
    BY Middle
  <1> HIDE DEF t
  <1>2. Len(s) \in Nat /\ lo \in Nat /\ hi \in Nat /\ lo <= hi /\ hi <= Len(s)
    <2>1. Len(s) \in Nat
      BY LenProperties
    <2>2. QED BY <2>1
  <1>3. DOMAIN t = 1 .. hi - lo /\ DOMAIN s = 1 .. Len(s)
    BY <1>1, LenProperties
  <1>4. Sorted(t)
    <2> SUFFICES ASSUME NEW i \in 1 .. hi - lo, NEW j \in 1 .. hi - lo, i < j
                 PROVE  Before(t[i], t[j])
      BY <1>3 DEF Sorted
    <2>1. lo + i \in 1 .. Len(s) /\ lo + j \in 1 .. Len(s) /\ lo + i < lo + j
      BY <1>2
    <2>2. Before(s[lo + i], s[lo + j])
      BY <1>3, <2>1 DEF Sorted
    <2>3. QED BY <1>1, <2>2
  <1>5. Range(t) = {s[i] : i \in lo + 1 .. hi}
    <2>1. \A i \in 1 .. hi - lo : lo + i \in lo + 1 .. hi
      BY <1>2
    <2>2. \A i \in lo + 1 .. hi : i - lo \in 1 .. hi - lo /\ lo + (i - lo) = i
      BY <1>2
    <2>3. Range(t) = {t[i] : i \in 1 .. hi - lo}
      BY <1>3 DEF Range
    <2>4. \A i \in 1 .. hi - lo : t[i] \in {s[j] : j \in lo + 1 .. hi}
      BY <1>1, <2>1
    <2>5. \A j \in lo + 1 .. hi : s[j] \in {t[i] : i \in 1 .. hi - lo}
      BY <1>1, <2>2
    <2>6. QED BY <2>3, <2>4, <2>5
  <1>6. QED BY <1>4, <1>5 DEF t

\* Sorted bytes in three pieces.
IsSplit(s, a, b, c) ==
    /\ Sorted(a) /\ Sorted(b) /\ Sorted(c)
    /\ Precedes(a, b) /\ Precedes(a, c) /\ Precedes(b, c)
    /\ Range(s) = Range(a) \cup Range(b) \cup Range(c)

LEMMA Split ==
    ASSUME NEW S, NEW s \in Seq(S), Sorted(s), NEW lo \in 0 .. Len(s), NEW hi \in lo .. Len(s)
    PROVE  IsSplit(s, SubSeq(s, 1, lo), SubSeq(s, lo + 1, hi), SubSeq(s, hi + 1, Len(s)))
  <1> DEFINE L == Len(s)
             a == SubSeq(s, 1, lo)
             b == SubSeq(s, lo + 1, hi)
             c == SubSeq(s, hi + 1, L)
  <1>1. L \in Nat /\ lo \in Nat /\ hi \in Nat /\ lo <= hi /\ hi <= L /\ DOMAIN s = 1 .. L
    <2>1. L \in Nat /\ DOMAIN s = 1 .. L
      BY LenProperties
    <2>2. QED BY <2>1
  <1>2. 0 \in 0 .. L /\ lo \in 0 .. L /\ hi \in 0 .. L /\ L \in hi .. L /\ 0 + 1 = 1
    BY <1>1
  <1>3. Sorted(a) /\ Range(a) = {s[i] : i \in 1 .. lo}
    <2>1. Sorted(SubSeq(s, 0 + 1, lo)) /\ Range(SubSeq(s, 0 + 1, lo)) = {s[i] : i \in 0 + 1 .. lo}
      BY <1>2, MiddleSorted
    <2>2. QED BY <1>2, <2>1
  <1>4. Sorted(b) /\ Range(b) = {s[i] : i \in lo + 1 .. hi}
    BY MiddleSorted
  <1>5. Sorted(c) /\ Range(c) = {s[i] : i \in hi + 1 .. L}
    BY <1>2, MiddleSorted
  <1> HIDE DEF L, a, b, c
  <1>6. /\ \A i \in 1 .. lo, j \in lo + 1 .. hi : i < j /\ i \in 1 .. L /\ j \in 1 .. L
        /\ \A i \in 1 .. lo, j \in hi + 1 .. L : i < j /\ i \in 1 .. L /\ j \in 1 .. L
        /\ \A i \in lo + 1 .. hi, j \in hi + 1 .. L : i < j /\ i \in 1 .. L /\ j \in 1 .. L
    BY <1>1
  <1>7. \A i, j \in 1 .. L : i < j => Before(s[i], s[j])
    BY <1>1 DEF Sorted
  <1>8. Precedes(a, b) /\ Precedes(a, c) /\ Precedes(b, c)
    BY <1>3, <1>4, <1>5, <1>6, <1>7 DEF Precedes
  <1>9. Range(s) = Range(a) \cup Range(b) \cup Range(c)
    <2>1. Range(s) = {s[i] : i \in 1 .. L}
      BY <1>1 DEF Range
    <2>2. 1 .. L = (1 .. lo) \cup (lo + 1 .. hi) \cup (hi + 1 .. L)
      BY <1>1
    <2>3. QED BY <1>3, <1>4, <1>5, <2>1, <2>2
  <1>10. QED BY <1>3, <1>4, <1>5, <1>8, <1>9 DEF IsSplit, L, a, b, c

\* Sorted bytes behind sorted bytes that were sent before them.
LEMMA JoinSorted ==
    ASSUME NEW S, NEW s \in Seq(S), NEW t \in Seq(S), Sorted(s), Sorted(t), Precedes(s, t)
    PROVE  Sorted(s \o t) /\ Range(s \o t) = Range(s) \cup Range(t)
  <1> DEFINE all == s \o t
             m == Len(s)
             n == Len(t)
  <1>1. IsBoth(all, S, s, t)
    BY Behind
  <1> HIDE DEF all, m, n
  <1>2. /\ m \in Nat /\ n \in Nat /\ DOMAIN all = 1 .. m + n
        /\ DOMAIN s = 1 .. m /\ DOMAIN t = 1 .. n
        /\ \A i \in 1 .. m : all[i] = s[i]
        /\ \A i \in 1 .. n : all[m + i] = t[i]
    BY <1>1, LenProperties DEF IsBoth, m, n
  <1>3. \A i \in 1 .. m + n : i \in 1 .. m \/ (i - m \in 1 .. n /\ m + (i - m) = i)
    BY <1>2
  <1>4. Range(all) = Range(s) \cup Range(t)
    <2>1. /\ Range(all) = {all[i] : i \in 1 .. m + n}
          /\ Range(s) = {s[i] : i \in 1 .. m} /\ Range(t) = {t[i] : i \in 1 .. n}
      BY <1>2 DEF Range
    <2>2. \A i \in 1 .. m + n : all[i] \in Range(s) \cup Range(t)
      <3> TAKE i \in 1 .. m + n
      <3>1. CASE i \in 1 .. m
        BY <1>2, <2>1, <3>1
      <3>2. CASE i - m \in 1 .. n /\ m + (i - m) = i
        BY <1>2, <2>1, <3>2
      <3>3. QED BY <1>3, <3>1, <3>2
    <2>3. /\ \A i \in 1 .. m : i \in 1 .. m + n
          /\ \A i \in 1 .. n : m + i \in 1 .. m + n
      BY <1>2
    <2>4. \A i \in 1 .. m : s[i] \in Range(all)
      BY <1>2, <2>1, <2>3
    <2>5. \A i \in 1 .. n : t[i] \in Range(all)
      BY <1>2, <2>1, <2>3
    <2>6. QED BY <2>1, <2>2, <2>4, <2>5
  <1>5. Sorted(all)
    <2> SUFFICES ASSUME NEW i \in 1 .. m + n, NEW j \in 1 .. m + n, i < j
                 PROVE  Before(all[i], all[j])
      BY <1>2 DEF Sorted
    <2>1. CASE j \in 1 .. m
      <3>1. i \in 1 .. m
        BY <1>2, <2>1
      <3>2. Before(s[i], s[j])
        BY <1>2, <2>1, <3>1 DEF Sorted
      <3>3. QED BY <1>2, <2>1, <3>1, <3>2
    <2>2. CASE i \in 1 .. m /\ ~(j \in 1 .. m)
      <3>1. j - m \in 1 .. n /\ m + (j - m) = j
        BY <1>3, <2>2
      <3>2. s[i] \in Range(s) /\ t[j - m] \in Range(t)
        BY <1>2, <2>2, <3>1 DEF Range
      <3>3. Before(s[i], t[j - m])
        BY <3>2 DEF Precedes
      <3>4. all[i] = s[i] /\ all[j] = t[j - m]
        BY <1>2, <2>2, <3>1
      <3>5. QED BY <3>3, <3>4
    <2>3. CASE ~(i \in 1 .. m) /\ ~(j \in 1 .. m)
      <3>1. /\ i - m \in 1 .. n /\ m + (i - m) = i
            /\ j - m \in 1 .. n /\ m + (j - m) = j
        BY <1>3, <2>3
      <3>2. i - m < j - m
        BY <1>2
      <3>3. Before(t[i - m], t[j - m])
        BY <1>2, <3>1, <3>2 DEF Sorted
      <3>4. all[i] = t[i - m] /\ all[j] = t[j - m]
        BY <1>2, <3>1
      <3>5. QED BY <3>3, <3>4
    <2>4. QED BY <2>1, <2>2, <2>3
  <1>6. QED BY <1>4, <1>5 DEF all

-----------------------------------------------------------------------------
(* Whole packets, one behind the other, are a stream without noise.        *)

\* The elements of B in ascending order.
Enumerates(pos, n, B) ==
    /\ pos \in [1 .. n -> B]
    /\ \A i, j \in 1 .. n : i < j => pos[i] < pos[j]
    /\ \A b \in B : \E i \in 1 .. n : pos[i] = b

\* A finite set of numbers has such an order: an element's rank is the number
\* of elements up to it.
LEMMA Ranking ==
    ASSUME NEW B \in SUBSET Nat, IsFiniteSet(B)
    PROVE  Cardinality(B) \in Nat /\ \E pos : Enumerates(pos, Cardinality(B), B)
  <1> DEFINE n == Cardinality(B)
             UpTo(b) == {x \in B : x <= b}
             rank == [b \in B |-> Cardinality(UpTo(b))]
  <1>1. n \in Nat
    BY FS_CardinalityType
  <1>2. \A b \in B : IsFiniteSet(UpTo(b)) /\ Cardinality(UpTo(b)) <= n
    <2> TAKE b \in B
    <2>1. UpTo(b) \in SUBSET B
      OBVIOUS
    <2> HIDE DEF UpTo
    <2>2. QED BY <2>1, FS_Subset
  <1>3. \A b \in B : Cardinality(UpTo(b)) \in Nat /\ Cardinality(UpTo(b)) # 0
    <2> TAKE b \in B
    <2>1. b \in UpTo(b)
      OBVIOUS
    <2>2. IsFiniteSet(UpTo(b))
      BY <1>2
    <2> HIDE DEF UpTo
    <2>3. Cardinality(UpTo(b)) \in Nat
      BY <2>2, FS_CardinalityType
    <2>4. Cardinality(UpTo(b)) # 0
      BY <2>1, <2>2, FS_EmptySet
    <2>5. QED BY <2>3, <2>4
  <1>4. \A a, b \in B : a < b => Cardinality(UpTo(a)) < Cardinality(UpTo(b))
    <2> SUFFICES ASSUME NEW a \in B, NEW b \in B, a < b
                 PROVE  Cardinality(UpTo(a)) < Cardinality(UpTo(b))
      OBVIOUS
    <2>1. UpTo(a) \in SUBSET UpTo(b) /\ b \in UpTo(b) /\ b \notin UpTo(a)
      <3>1. \A x \in B : x <= a => x <= b
        OBVIOUS
      <3>2. b <= b /\ ~(b <= a)
        OBVIOUS
      <3>3. QED BY <3>1, <3>2
    <2>2. /\ IsFiniteSet(UpTo(b)) /\ Cardinality(UpTo(a)) \in Nat
          /\ Cardinality(UpTo(b)) \in Nat
      BY <1>2, <1>3
    <2> HIDE DEF UpTo
    <2>3. /\ Cardinality(UpTo(a)) <= Cardinality(UpTo(b))
          /\ Cardinality(UpTo(b)) = Cardinality(UpTo(a)) => UpTo(b) = UpTo(a)
      BY <2>1, <2>2, FS_Subset
    <2>4. QED BY <2>1, <2>2, <2>3
  <1> HIDE DEF UpTo, n
  <1>5. rank \in [B -> 1 .. n]
    <2>1. \A b \in B : Cardinality(UpTo(b)) \in 1 .. n
      BY <1>1, <1>2, <1>3
    <2>2. QED BY <2>1
  <1>6. \A a, b \in B : a < b => rank[a] < rank[b]
    BY <1>4
  <1> HIDE DEF rank
  <1>7. \A b \in B : rank[b] \in 1 .. n
    BY <1>5
  <1>8. \A a, b \in B : rank[a] = rank[b] => a = b
    <2> SUFFICES ASSUME NEW a \in B, NEW b \in B, rank[a] = rank[b], a # b
                 PROVE  FALSE
      OBVIOUS
    <2>1. a < b \/ b < a
      OBVIOUS
    <2>2. rank[a] < rank[b] \/ rank[b] < rank[a]
      BY <1>6, <2>1
    <2>3. QED BY <1>1, <1>7, <2>2
  <1>9. rank \in Surjection(B, 1 .. n)
    <2>1. rank \in Injection(B, 1 .. n)
      BY <1>5, <1>8, Fun_IsInj
    <2>2. IsFiniteSet(1 .. n) /\ Cardinality(1 .. n) = n
      <3>1. /\ IsFiniteSet(1 .. n)
            /\ Cardinality(1 .. n) = IF 1 > n THEN 0 ELSE n - 1 + 1
        BY <1>1, FS_Interval
      <3>2. QED BY <1>1, <3>1
    <2>3. QED BY <2>1, <2>2, FS_Injection DEF n
  <1>10. \A i \in 1 .. n : \E b \in B : rank[b] = i
    BY <1>9, Fun_SurjectionProperties
  <1> DEFINE pos == [i \in 1 .. n |-> CHOOSE b \in B : rank[b] = i]
  <1>11. pos \in [1 .. n -> B] /\ \A i \in 1 .. n : pos[i] \in B /\ rank[pos[i]] = i
    <2>1. \A i \in 1 .. n : /\ (CHOOSE b \in B : rank[b] = i) \in B
                            /\ rank[CHOOSE b \in B : rank[b] = i] = i
      BY <1>10
    <2>2. QED BY <2>1
  <1> HIDE DEF pos
  <1>12. \A i, j \in 1 .. n : i < j => pos[i] < pos[j]
    <2> SUFFICES ASSUME NEW i \in 1 .. n, NEW j \in 1 .. n, i < j, ~(pos[i] < pos[j])
                 PROVE  FALSE
      OBVIOUS
    <2>1. pos[i] \in Nat /\ pos[j] \in Nat /\ rank[pos[i]] = i /\ rank[pos[j]] = j
          /\ pos[i] \in B /\ pos[j] \in B
      BY <1>11
    <2>2. pos[j] < pos[i] \/ pos[i] = pos[j]
      BY <2>1
    <2>3. CASE pos[i] = pos[j]
      BY <1>1, <2>1, <2>3
    <2>4. CASE pos[j] < pos[i]
      <3>1. rank[pos[j]] < rank[pos[i]]
        BY <1>6, <2>1, <2>4
      <3>2. j < i
        BY <2>1, <3>1
      <3>3. QED BY <1>1, <3>2
    <2>5. QED BY <2>2, <2>3, <2>4
  <1>13. \A b \in B : \E i \in 1 .. n : pos[i] = b
    <2> TAKE b \in B
    <2>1. rank[b] \in 1 .. n
      BY <1>7
    <2>2. pos[rank[b]] \in B /\ rank[pos[rank[b]]] = rank[b]
      BY <1>11, <2>1
    <2>3. pos[rank[b]] = b
      BY <1>8, <2>2
    <2>4. QED BY <2>1, <2>3
  <1>14. QED BY <1>1, <1>11, <1>12, <1>13 DEF Enumerates, n

\* What the bytes of accepted messages are.
LEMMA OwnedType ==
    ASSUME traffic \in Traffic, accepted \in 0 .. Len(traffic.packets), NEW b \in Owned
    PROVE  /\ b = [owner |-> b.owner, at |-> b.at]
           /\ b.owner \in 1 .. accepted /\ b.owner \in 1 .. Len(traffic.sent) /\ b.owner \in Nat
           /\ traffic.packets[b.owner] = Packet(traffic.sent[b.owner])
           /\ Sendable(traffic.sent[b.owner])
           /\ DOMAIN traffic.packets[b.owner] = 1 .. Len(traffic.packets[b.owner])
           /\ Len(traffic.packets[b.owner]) \in Nat
           /\ b.at \in 1 .. Len(traffic.packets[b.owner]) /\ b.at \in Nat
  <1>1. /\ traffic.packets \in Seq(Seq(Byte)) /\ Len(traffic.packets) = Len(traffic.sent)
        /\ \A i \in 1 .. Len(traffic.sent) :
              /\ Sendable(traffic.sent[i])
              /\ traffic.packets[i] = Packet(traffic.sent[i])
    BY PacketsAssumption
  <1>2. Len(traffic.packets) \in Nat
    BY <1>1, LenProperties
  <1>3. /\ b = [owner |-> b.owner, at |-> b.at]
        /\ b.owner \in 1 .. accepted /\ b.at \in Nat
        /\ b.at \in DOMAIN traffic.packets[b.owner]
    BY DEF Owned
  <1>4. b.owner \in 1 .. Len(traffic.packets) /\ b.owner \in Nat
    BY <1>2, <1>3
  <1>5. traffic.packets[b.owner] \in Seq(Byte)
    BY <1>1, <1>4, ElementOfSeq
  <1>6. /\ DOMAIN traffic.packets[b.owner] = 1 .. Len(traffic.packets[b.owner])
        /\ Len(traffic.packets[b.owner]) \in Nat
    BY <1>5, LenProperties
  <1>7. QED BY <1>1, <1>3, <1>4, <1>6

\* The packet of message m lies in F from place p.
BlockAt(F, p, m) ==
    \A k \in 1 .. Len(traffic.packets[m]) :
        /\ p + (k - 1) \in 1 .. Len(F)
        /\ F[p + (k - 1)] = [owner |-> m, at |-> k]

\* Where the bytes of message m are in F.
Index(F, m) ==
    [k \in 1 .. Len(traffic.packets[m]) |->
        CHOOSE i \in 1 .. Len(F) : F[i] = [owner |-> m, at |-> k]]

LEMMA IndexType ==
    ASSUME traffic \in Traffic, accepted \in 0 .. Len(traffic.packets),
           NEW F \in Seq(Owned), Sorted(F), Whole(F), NEW i \in 1 .. Len(F)
    PROVE  LET m == F[i].owner IN
           /\ \A k \in 1 .. Len(traffic.packets[m]) :
                 /\ Index(F, m)[k] \in 1 .. Len(F)
                 /\ F[Index(F, m)[k]] = [owner |-> m, at |-> k]
           /\ \A k, l \in 1 .. Len(traffic.packets[m]) :
                 k < l => Index(F, m)[k] < Index(F, m)[l]
           /\ Index(F, m)[F[i].at] = i
  <1> DEFINE m == F[i].owner
             size == Len(traffic.packets[m])
             index == Index(F, m)
  <1>1. Len(F) \in Nat /\ DOMAIN F = 1 .. Len(F) /\ F[i] \in Owned
    BY LenProperties, ElementOfSeq
  <1>2. /\ F[i] = [owner |-> m, at |-> F[i].at]
        /\ DOMAIN traffic.packets[m] = 1 .. size /\ size \in Nat /\ m \in Nat
        /\ F[i].at \in 1 .. size
    BY <1>1, OwnedType
  <1>3. \A k \in 1 .. size : \E j \in 1 .. Len(F) : F[j] = [owner |-> m, at |-> k]
    <2>1. m \in Owners(F)
      BY <1>1 DEF Owners
    <2>2. QED BY <1>1, <1>2, <2>1, SMTT(30) DEF Whole
  <1>4. \A k \in 1 .. size : index[k] \in 1 .. Len(F) /\ F[index[k]] = [owner |-> m, at |-> k]
    <2> TAKE k \in 1 .. size
    <2>1. index[k] = CHOOSE j \in 1 .. Len(F) : F[j] = [owner |-> m, at |-> k]
      BY DEF Index
    <2>2. QED BY <1>3, <2>1
  <1> HIDE DEF index, m, size
  <1>5. \A j, l \in 1 .. Len(F) : j < l => Before(F[j], F[l])
    BY <1>1 DEF Sorted
  <1>6. \A k, l \in 1 .. size : k < l => index[k] < index[l]
    <2> SUFFICES ASSUME NEW k \in 1 .. size, NEW l \in 1 .. size, k < l, ~(index[k] < index[l])
                 PROVE  FALSE
      OBVIOUS
    <2>1. /\ index[k] \in 1 .. Len(F) /\ F[index[k]] = [owner |-> m, at |-> k]
          /\ index[l] \in 1 .. Len(F) /\ F[index[l]] = [owner |-> m, at |-> l]
      BY <1>4
    <2>2. index[l] < index[k] \/ index[l] = index[k]
      BY <1>1, <2>1
    <2>3. CASE index[l] = index[k]
      <3>1. [owner |-> m, at |-> k] = [owner |-> m, at |-> l]
        BY <2>1, <2>3
      <3>2. k = l
        BY <3>1
      <3>3. QED BY <1>2, <3>2
    <2>4. CASE index[l] < index[k]
      <3>1. Before(F[index[l]], F[index[k]])
        BY <1>5, <2>1, <2>4
      <3>2. m < m \/ (m = m /\ l < k)
        BY <2>1, <3>1 DEF Before
      <3>3. QED BY <1>2, <3>2
    <2>5. QED BY <2>2, <2>3, <2>4
  <1>7. index[F[i].at] = i
    <2> DEFINE j == index[F[i].at]
    <2>1. j \in 1 .. Len(F) /\ F[j] = F[i]
      BY <1>2, <1>4
    <2> HIDE DEF j
    <2>2. ~Before(F[i], F[i])
      BY <1>2 DEF Before
    <2>3. ~(j < i) /\ ~(i < j)
      BY <1>5, <2>1, <2>2
    <2>4. j = i
      BY <1>1, <2>1, <2>3
    <2>5. QED BY <2>4 DEF j
  <1>8. QED BY <1>4, <1>6, <1>7 DEF index, m, size

\* The bytes of a message lie side by side: nothing sorts between two of them.
LEMMA Blocks ==
    ASSUME traffic \in Traffic, accepted \in 0 .. Len(traffic.packets),
           NEW F \in Seq(Owned), Sorted(F), Whole(F), NEW i \in 1 .. Len(F)
    PROVE  BlockAt(F, i - (F[i].at - 1), F[i].owner)
  <1> DEFINE m == F[i].owner
             size == Len(traffic.packets[m])
             index == Index(F, m)
             p == index[1]
  <1>1. Len(F) \in Nat /\ DOMAIN F = 1 .. Len(F) /\ F[i] \in Owned
    BY LenProperties, ElementOfSeq
  <1>2. size \in Nat /\ m \in Nat /\ F[i].at \in 1 .. size
    BY <1>1, OwnedType
  <1>3. /\ \A k \in 1 .. size : /\ index[k] \in 1 .. Len(F)
                                /\ F[index[k]] = [owner |-> m, at |-> k]
        /\ \A k, l \in 1 .. size : k < l => index[k] < index[l]
        /\ index[F[i].at] = i
    BY IndexType
  <1>4. \A j \in 1 .. Len(F) : F[j].owner \in Nat /\ F[j].at \in Nat
    <2> TAKE j \in 1 .. Len(F)
    <2>1. F[j] \in Owned
      BY ElementOfSeq
    <2>2. QED BY <2>1, OwnedType
  <1>5. \A j, l \in 1 .. Len(F) : j < l => Before(F[j], F[l])
    BY <1>1 DEF Sorted
  <1> HIDE DEF m, size, index
  <1>6. 1 \in 1 .. size
    BY <1>2
  <1>7. p \in 1 .. Len(F) /\ p \in Nat /\ F[p] = [owner |-> m, at |-> 1]
    BY <1>1, <1>3, <1>6
  <1> HIDE DEF p
  <1>8. ASSUME NEW k \in 1 .. size
        PROVE  index[k] = p + (k - 1)
    <2> DEFINE q == index[k]
               g == [j \in p .. q |-> F[j].at]
    <2>1. k \in Nat /\ k >= 1 /\ q \in 1 .. Len(F) /\ q \in Nat /\ F[q] = [owner |-> m, at |-> k]
      BY <1>1, <1>2, <1>3
    <2>2. p <= q
      <3>1. k = 1 \/ 1 < k
        BY <2>1
      <3>2. CASE k = 1
        BY <1>7, <3>2 DEF p
      <3>3. CASE 1 < k
        BY <1>3, <1>6, <1>7, <2>1, <3>3 DEF p
      <3>4. QED BY <3>1, <3>2, <3>3
    <2> HIDE DEF q
    <2>3. \A j \in p .. q : /\ j \in 1 .. Len(F)
                            /\ j = p \/ p < j
                            /\ j = q \/ j < q
      BY <1>1, <1>7, <2>1
    <2>4. \A j \in p .. q : F[j].owner = m /\ F[j].at \in 1 .. k
      <3> TAKE j \in p .. q
      <3>1. F[j].owner \in Nat /\ F[j].at \in Nat /\ m \in Nat
        BY <1>2, <1>4, <2>3
      <3>2. F[p].owner = m /\ F[p].at = 1 /\ F[q].owner = m /\ F[q].at = k
        BY <1>7, <2>1
      <3>3. j = p \/ Before(F[p], F[j])
        BY <1>5, <1>7, <2>3
      <3>4. j = q \/ Before(F[j], F[q])
        BY <1>5, <2>1, <2>3
      <3>5. m <= F[j].owner /\ (F[j].owner = m => 1 <= F[j].at)
        BY <3>1, <3>2, <3>3, SMTT(30) DEF Before
      <3>6. F[j].owner <= m /\ (F[j].owner = m => F[j].at <= k)
        BY <2>1, <3>1, <3>2, <3>4, SMTT(30) DEF Before
      <3>7. QED BY <2>1, <3>1, <3>5, <3>6
    <2>5. g \in [p .. q -> 1 .. k]
      BY <2>4
    <2>6. \A a, b \in p .. q : g[a] = g[b] => a = b
      <3> SUFFICES ASSUME NEW a \in p .. q, NEW b \in p .. q, F[a].at = F[b].at, a # b
                   PROVE  FALSE
        OBVIOUS
      <3>1. a < b \/ b < a
        BY <1>7, <2>1
      <3>2. Before(F[a], F[b]) \/ Before(F[b], F[a])
        BY <1>5, <2>3, <3>1
      <3>3. F[a].owner = F[b].owner /\ F[a].owner \in Nat /\ F[a].at \in Nat
        BY <1>4, <2>3, <2>4
      <3>4. QED BY <3>2, <3>3 DEF Before
    <2>7. \A t \in 1 .. k : \E j \in p .. q : g[j] = t
      <3> TAKE t \in 1 .. k
      <3>1. t \in 1 .. size /\ (t = 1 \/ 1 < t) /\ (t = k \/ t < k)
        BY <1>2, <2>1
      <3>2. /\ index[t] \in 1 .. Len(F) /\ F[index[t]] = [owner |-> m, at |-> t]
            /\ p <= index[t] /\ index[t] <= q
        <4>1. index[t] \in 1 .. Len(F) /\ F[index[t]] = [owner |-> m, at |-> t]
          BY <1>3, <3>1
        <4>2. t = 1 \/ index[1] < index[t]
          BY <1>3, <1>6, <3>1
        <4>3. t = k \/ index[t] < index[k]
          BY <1>3, <3>1
        <4>4. index[1] = p /\ index[k] = q
          BY DEF p, q
        <4>5. QED BY <1>1, <1>7, <2>1, <4>1, <4>2, <4>3, <4>4
      <3>3. index[t] \in p .. q
        BY <1>1, <1>7, <2>1, <3>2
      <3>4. g[index[t]] = t
        BY <3>2, <3>3
      <3>5. QED BY <3>3, <3>4
    <2>8. Cardinality(1 .. k) = Cardinality(p .. q)
      <3> HIDE DEF g
      <3>1. g \in Bijection(p .. q, 1 .. k)
        BY <2>5, <2>6, <2>7, Fun_IsBij
      <3>2. ExistsBijection(p .. q, 1 .. k)
        BY <3>1 DEF ExistsBijection
      <3>3. IsFiniteSet(p .. q)
        BY <1>7, <2>1, FS_Interval
      <3>4. QED BY <3>2, <3>3, FS_Bijection
    <2>9. Cardinality(1 .. k) = k /\ Cardinality(p .. q) = q - p + 1
      <3>1. 1 \in Int /\ k \in Int /\ p \in Int /\ q \in Int
        BY <1>7, <2>1
      <3>2. Cardinality(1 .. k) = IF 1 > k THEN 0 ELSE k - 1 + 1
        BY <3>1, FS_Interval
      <3>3. Cardinality(p .. q) = IF p > q THEN 0 ELSE q - p + 1
        BY <3>1, FS_Interval
      <3>4. QED BY <1>7, <2>1, <2>2, <3>2, <3>3
    <2>10. q = p + (k - 1)
      BY <1>7, <2>1, <2>8, <2>9
    <2>11. QED BY <2>10 DEF q
  <1>9. p = i - (F[i].at - 1)
    <2>1. i = p + (F[i].at - 1)
      BY <1>2, <1>3, <1>8
    <2>2. F[i].at \in Nat
      BY <1>2
    <2>3. QED BY <1>1, <1>7, <2>1, <2>2
  <1>10. BlockAt(F, p, m)
    <2>1. \A k \in 1 .. size : p + (k - 1) \in 1 .. Len(F)
                               /\ F[p + (k - 1)] = [owner |-> m, at |-> k]
      BY <1>3, <1>8
    <2>2. QED BY <2>1 DEF BlockAt, size
  <1>11. QED BY <1>9, <1>10 DEF m


\* Where the packets in F start, the last place being the end of F.
IsFrame(F, pos, n) ==
    /\ n \in Nat
    /\ \A i \in 1 .. n + 1 : pos[i] \in 1 .. Len(F) + 1
    /\ \A i, j \in 1 .. n + 1 : i < j => pos[i] < pos[j]
    /\ pos[1] = 1 /\ pos[n + 1] = Len(F) + 1
    /\ \A i \in 1 .. n :
          /\ pos[i] \in 1 .. Len(F) /\ F[pos[i]].at = 1
          /\ BlockAt(F, pos[i], F[pos[i]].owner)
          /\ pos[i + 1] = pos[i] + Len(traffic.packets[F[pos[i]].owner])

\* Behind the last byte of a packet another packet starts.
LEMMA NextStart ==
    ASSUME traffic \in Traffic, accepted \in 0 .. Len(traffic.packets),
           NEW F \in Seq(Owned), Sorted(F), Whole(F), NEW p \in 1 .. Len(F), F[p].at = 1
    PROVE  LET size == Len(traffic.packets[F[p].owner]) IN
           /\ BlockAt(F, p, F[p].owner)
           /\ size \in Nat /\ size >= 1 /\ p + size \in 1 .. Len(F) + 1
           /\ p + size <= Len(F) => F[p + size].at = 1
  <1> DEFINE m == F[p].owner
             size == Len(traffic.packets[m])
             q == p + size
  <1>1. Len(F) \in Nat /\ p \in Nat /\ F[p] \in Owned
    BY LenProperties, ElementOfSeq
  <1>2. size \in Nat /\ 1 \in 1 .. size
    BY <1>1, OwnedType
  <1>3. BlockAt(F, p, m)
    <2>1. BlockAt(F, p - (F[p].at - 1), m)
      BY Blocks
    <2>2. p - (F[p].at - 1) = p
      BY <1>1
    <2>3. QED BY <2>1, <2>2
  <1> HIDE DEF m
  <1>4. \A k \in 1 .. size : /\ p + (k - 1) \in 1 .. Len(F)
                             /\ F[p + (k - 1)] = [owner |-> m, at |-> k]
    BY <1>3 DEF BlockAt
  <1> HIDE DEF size
  <1>5. /\ size >= 1 /\ q \in 1 .. Len(F) + 1 /\ q - 1 \in 1 .. Len(F)
        /\ F[q - 1] = [owner |-> m, at |-> size]
    <2>1. size \in 1 .. size /\ p + (size - 1) = q - 1 /\ q \in Nat
      BY <1>1, <1>2
    <2>2. q - 1 \in 1 .. Len(F) /\ F[q - 1] = [owner |-> m, at |-> size]
      BY <1>4, <2>1
    <2>3. QED BY <1>1, <1>2, <2>1, <2>2, SMTT(30)
  <1> HIDE DEF q
  <1>6. ASSUME q <= Len(F)
        PROVE  F[q].at = 1
    <2> DEFINE o == F[q].owner
               a == F[q].at
    <2>1. q \in 1 .. Len(F)
      BY <1>1, <1>5, <1>6
    <2>2. F[q] \in Owned
      BY <2>1, ElementOfSeq
    <2>3. a \in 1 .. Len(traffic.packets[o]) /\ Len(traffic.packets[o]) \in Nat /\ a \in Nat
      BY <2>2, OwnedType
    <2>4. BlockAt(F, q - (a - 1), o)
      BY <2>1, Blocks
    <2> HIDE DEF o, a
    <2> SUFFICES ASSUME a # 1
                 PROVE  FALSE
      BY DEF a
    <2>5. a - 1 \in 1 .. Len(traffic.packets[o]) /\ q - (a - 1) + ((a - 1) - 1) = q - 1
      BY <2>1, <2>3
    <2>6. F[q - 1] = [owner |-> o, at |-> a - 1]
      BY <2>4, <2>5 DEF BlockAt
    <2>7. o = m /\ a - 1 = size
      <3>1. [owner |-> o, at |-> a - 1] = [owner |-> m, at |-> size]
        BY <1>5, <2>6
      <3>2. /\ [owner |-> o, at |-> a - 1].owner = o /\ [owner |-> o, at |-> a - 1].at = a - 1
            /\ [owner |-> m, at |-> size].owner = m /\ [owner |-> m, at |-> size].at = size
        OBVIOUS
      <3>3. QED BY <3>1, <3>2
    <2>8. Len(traffic.packets[o]) = size
      BY <2>7 DEF size
    <2>9. QED BY <1>2, <2>3, <2>7, <2>8
  <1>7. QED BY <1>2, <1>3, <1>5, <1>6 DEF q, size, m

LEMMA Frame ==
    ASSUME traffic \in Traffic, accepted \in 0 .. Len(traffic.packets),
           NEW F \in Seq(Owned), Sorted(F), Whole(F)
    PROVE  \E n, pos : IsFrame(F, pos, n)
  <1> DEFINE L == Len(F)
             B == {i \in 1 .. L + 1 : i <= L => F[i].at = 1}
             n == Cardinality(B) - 1
  <1>1. L \in Nat
    BY LenProperties
  <1> HIDE DEF L
  <1>2. B \in SUBSET Nat /\ B \in SUBSET (1 .. L + 1) /\ L + 1 \in B
    BY <1>1
  <1> HIDE DEF B
  <1>3. IsFiniteSet(B)
    <2>1. 1 \in Int /\ L + 1 \in Int
      BY <1>1
    <2>2. IsFiniteSet(1 .. L + 1)
      BY <2>1, FS_Interval
    <2>3. QED BY <1>2, <2>2, FS_Subset
  <1>4. PICK pos : Enumerates(pos, Cardinality(B), B)
    BY <1>2, <1>3, Ranking
  <1>5. Cardinality(B) \in Nat /\ Cardinality(B) # 0
    BY <1>2, <1>3, FS_CardinalityType, FS_EmptySet
  <1>6. n \in Nat /\ Cardinality(B) = n + 1
    BY <1>5
  <1> HIDE DEF n
  <1>7. /\ \A i \in 1 .. n + 1 : pos[i] \in B /\ pos[i] \in 1 .. L + 1
        /\ \A i, j \in 1 .. n + 1 : i < j => pos[i] < pos[j]
        /\ \A b \in B : \E i \in 1 .. n + 1 : pos[i] = b
    BY <1>2, <1>4, <1>6 DEF Enumerates
  <1>8. 1 \in 1 .. n + 1 /\ n + 1 \in 1 .. n + 1
    BY <1>6
  <1>9. pos[n + 1] = L + 1
    <2>1. PICK i \in 1 .. n + 1 : pos[i] = L + 1
      BY <1>2, <1>7
    <2>2. i = n + 1 \/ pos[i] < pos[n + 1]
      <3>1. i = n + 1 \/ i < n + 1
        BY <1>6
      <3>2. QED BY <1>7, <1>8, <3>1
    <2>3. pos[n + 1] \in 1 .. L + 1
      BY <1>7, <1>8
    <2>4. QED BY <1>1, <2>1, <2>2, <2>3
  <1>10. pos[1] = 1
    <2>1. 1 \in B
      <3>1. CASE L = 0
        BY <1>2, <3>1
      <3>2. CASE L # 0
        <4>1. 1 \in 1 .. Len(F) /\ 1 \in 1 .. L + 1
          BY <1>1, <3>2 DEF L
        <4>2. BlockAt(F, 1 - (F[1].at - 1), F[1].owner)
          BY <4>1, Blocks
        <4>3. F[1] \in Owned
          BY <4>1, ElementOfSeq
        <4>4. /\ Len(traffic.packets[F[1].owner]) \in Nat /\ F[1].at \in Nat
              /\ F[1].at \in 1 .. Len(traffic.packets[F[1].owner])
          BY <4>3, OwnedType
        <4>5. 1 \in 1 .. Len(traffic.packets[F[1].owner])
          BY <4>4
        <4>6. 1 - (F[1].at - 1) + (1 - 1) \in 1 .. Len(F)
          BY <4>2, <4>5 DEF BlockAt
        <4>7. F[1].at = 1
          BY <4>4, <4>6
        <4>8. QED BY <4>1, <4>7 DEF B
      <3>3. QED BY <3>1, <3>2
    <2>2. PICK i \in 1 .. n + 1 : pos[i] = 1
      BY <1>7, <2>1
    <2>3. i = 1 \/ pos[1] < pos[i]
      <3>1. i = 1 \/ 1 < i
        BY <1>6
      <3>2. QED BY <1>7, <1>8, <3>1
    <2>4. pos[1] \in 1 .. L + 1
      BY <1>7, <1>8
    <2>5. QED BY <1>1, <2>2, <2>3, <2>4
  <1>11. ASSUME NEW i \in 1 .. n
         PROVE  /\ pos[i] \in 1 .. L /\ F[pos[i]].at = 1
                /\ BlockAt(F, pos[i], F[pos[i]].owner)
                /\ pos[i + 1] = pos[i] + Len(traffic.packets[F[pos[i]].owner])
    <2> DEFINE p == pos[i]
               r == pos[i + 1]
               m == F[p].owner
               size == Len(traffic.packets[m])
               q == p + size
    <2>1. i \in 1 .. n + 1 /\ i + 1 \in 1 .. n + 1 /\ i < n + 1 /\ i < i + 1
      BY <1>6
    <2>2. p \in B /\ p \in 1 .. L + 1 /\ p < L + 1 /\ r \in B /\ r \in 1 .. L + 1 /\ p < r
      BY <1>7, <1>8, <1>9, <2>1
    <2>3. p \in 1 .. L /\ p <= L
      BY <1>1, <2>2
    <2>4. F[p].at = 1
      BY <2>2, <2>3 DEF B
    <2>5. /\ BlockAt(F, p, m) /\ size \in Nat /\ size >= 1 /\ q \in 1 .. Len(F) + 1
          /\ q <= Len(F) => F[q].at = 1
      BY <2>3, <2>4, NextStart DEF L
    <2> HIDE DEF p, m, size, q, r
    <2>6. q \in B
      BY <2>5 DEF B, L
    <2>7. PICK j \in 1 .. n + 1 : pos[j] = q
      BY <1>7, <2>6
    <2>8. p < q
      BY <1>1, <2>3, <2>5 DEF q
    <2>9. j = i + 1 \/ i + 1 < j
      <3>1. i = j \/ i < j \/ j < i
        BY <1>6, <2>1
      <3>2. i = j => q = p
        BY <2>7 DEF p
      <3>3. j < i => q < p
        BY <1>7, <2>1, <2>7 DEF p
      <3>4. i < j
        BY <1>1, <2>3, <2>5, <2>8, <3>1, <3>2, <3>3
      <3>5. QED BY <1>6, <3>4
    <2>10. ASSUME i + 1 < j
           PROVE  FALSE
      <3>1. r < q
        BY <1>7, <2>1, <2>7, <2>10 DEF r
      <3>2. /\ r <= L /\ (r - p) + 1 \in 1 .. size /\ p + (((r - p) + 1) - 1) = r
            /\ (r - p) + 1 # 1
        BY <1>1, <2>2, <2>3, <2>5, <3>1 DEF q, L
      <3>3. F[r] = [owner |-> m, at |-> (r - p) + 1]
        BY <2>5, <3>2 DEF BlockAt, size
      <3>4. F[r].at = 1
        BY <2>2, <3>2 DEF B
      <3>5. QED BY <3>2, <3>3, <3>4
    <2>11. r = q
      BY <2>7, <2>9, <2>10 DEF r
    <2>12. QED BY <2>3, <2>4, <2>5, <2>11 DEF p, m, size, q, r
  <1>12. IsFrame(F, pos, n)
    BY <1>6, <1>7, <1>9, <1>10, <1>11 DEF IsFrame, L
  <1>13. QED BY <1>12

\* The packets in F, starting at the given places.
Framing(F, pos, n) ==
    [n      |-> n,
     byte   |-> [p \in Nat |-> IF p < Len(F) THEN Value(F[p + 1]) ELSE 0],
     number |-> [i \in 1 .. n |-> F[pos[i]].owner],
     start  |-> [i \in 1 .. n |-> pos[i] - 1],
     end    |-> [i \in 0 .. n |-> pos[i + 1] - 1]]

\* A stream of the bytes in F, their messages in the order in which they were sent.
StreamOf(st, F) ==
    /\ IsStream(st, traffic.sent)
    /\ st.end[st.n] = Len(F)
    /\ \A k \in 0 .. Len(F) - 1 : st.byte[k] = Value(F[k + 1])
    /\ \A i, j \in 1 .. st.n : i < j => st.number[i] < st.number[j]
    /\ \A i \in 1 .. st.n : st.number[i] \in Owners(F)

LEMMA FramingPacket ==
    ASSUME traffic \in Traffic, accepted \in 0 .. Len(traffic.packets),
           NEW F \in Seq(Owned), NEW pos, NEW n, IsFrame(F, pos, n), NEW i \in 1 .. n
    PROVE  LET st == Framing(F, pos, n)
               m  == F[pos[i]].owner
           IN  /\ m \in 1 .. Len(traffic.sent) /\ m \in Owners(F)
               /\ st.number[i] = m
               /\ PacketIn(st, i, traffic.sent[m])
  <1> DEFINE st == Framing(F, pos, n)
             m == F[pos[i]].owner
             size == Len(traffic.packets[m])
             p == pos[i]
  <1>1. /\ Len(F) \in Nat /\ DOMAIN F = 1 .. Len(F) /\ n \in Nat
        /\ p \in 1 .. Len(F) /\ BlockAt(F, p, m) /\ pos[i + 1] = p + size
    BY LenProperties DEF IsFrame
  <1>2. F[p] \in Owned
    BY <1>1, ElementOfSeq
  <1>3. /\ m \in 1 .. Len(traffic.sent) /\ traffic.packets[m] = Packet(traffic.sent[m])
        /\ Sendable(traffic.sent[m]) /\ size \in Nat
    BY <1>2, OwnedType
  <1>4. m \in Owners(F)
    BY <1>1 DEF Owners
  <1>5. /\ st.byte = [q \in Nat |-> IF q < Len(F) THEN Value(F[q + 1]) ELSE 0]
        /\ st.number[i] = m /\ st.start[i] = p - 1
        /\ st.end[i - 1] = pos[(i - 1) + 1] - 1 /\ st.end[i] = pos[i + 1] - 1
    <2>1. i - 1 \in 0 .. n /\ i \in 0 .. n
      BY <1>1
    <2>2. QED BY <2>1 DEF Framing
  <1> HIDE DEF st, m, p
  <1>6. /\ st.end[i - 1] = p - 1 /\ st.end[i] = (p - 1) + size /\ p \in Nat /\ p - 1 \in Nat
    <2>1. (i - 1) + 1 = i
      BY <1>1
    <2>2. st.end[i - 1] = p - 1 /\ st.end[i] = (p + size) - 1
      BY <1>1, <1>5, <2>1 DEF p
    <2>3. p \in Nat /\ p - 1 \in Nat /\ (p + size) - 1 = (p - 1) + size
      BY <1>1, <1>3
    <2>4. QED BY <2>2, <2>3
  <1>7. \A k \in 1 .. size : st.byte[(p - 1) + (k - 1)] = traffic.packets[m][k]
    <2> TAKE k \in 1 .. size
    <2>1. p + (k - 1) \in 1 .. Len(F) /\ F[p + (k - 1)] = [owner |-> m, at |-> k]
      BY <1>1 DEF BlockAt
    <2>2. /\ (p - 1) + (k - 1) \in Nat /\ (p - 1) + (k - 1) < Len(F)
          /\ ((p - 1) + (k - 1)) + 1 = p + (k - 1)
      BY <1>1, <1>3, <1>6, <2>1
    <2>3. st.byte[(p - 1) + (k - 1)] = Value(F[p + (k - 1)])
      BY <1>5, <2>2
    <2>4. Value([owner |-> m, at |-> k]) = traffic.packets[m][k]
      BY DEF Value
    <2>5. QED BY <2>1, <2>3, <2>4
  <1>8. PacketIn(st, i, traffic.sent[m])
    <2>1. \A q \in st.end[i - 1] .. st.start[i] - 1 : ~StartsAt(st.byte, q)
      <3>1. st.end[i - 1] = p - 1 /\ st.start[i] = p - 1 /\ ~(p - 1 <= (p - 1) - 1)
        BY <1>5, <1>6
      <3>2. QED BY <1>6, <3>1
    <2>2. st.end[i - 1] <= st.start[i] /\ st.end[i] = st.start[i] + size
      BY <1>5, <1>6
    <2>3. \A k \in 1 .. size :
             st.byte[st.start[i] + (k - 1)] = traffic.packets[m][k]
      BY <1>5, <1>7
    <2> HIDE DEF size
    <2>4. size = Len(Packet(traffic.sent[m]))
      BY <1>3 DEF size
    <2>5. QED BY <1>3, <2>1, <2>2, <2>3, <2>4, Zenon DEF PacketIn
  <1>9. QED BY <1>3, <1>4, <1>5, <1>8 DEF st, m, p

LEMMA FramingStream ==
    ASSUME traffic \in Traffic, accepted \in 0 .. Len(traffic.packets),
           NEW F \in Seq(Owned), Sorted(F), NEW pos, NEW n, IsFrame(F, pos, n)
    PROVE  StreamOf(Framing(F, pos, n), F)
  <1> DEFINE st == Framing(F, pos, n)
             L == Len(F)
  <1>1. /\ L \in Nat /\ DOMAIN F = 1 .. L /\ n \in Nat
        /\ \A i \in 1 .. n + 1 : pos[i] \in 1 .. L + 1
        /\ \A i, j \in 1 .. n + 1 : i < j => pos[i] < pos[j]
        /\ pos[1] = 1 /\ pos[n + 1] = L + 1
        /\ \A i \in 1 .. n : pos[i] \in 1 .. L /\ F[pos[i]].at = 1
    BY LenProperties DEF IsFrame
  <1>2. \A i \in 1 .. n : /\ F[pos[i]].owner \in 1 .. Len(traffic.sent)
                          /\ F[pos[i]].owner \in Owners(F)
                          /\ st.number[i] = F[pos[i]].owner
                          /\ PacketIn(st, i, traffic.sent[F[pos[i]].owner])
    BY FramingPacket
  <1>3. /\ st.n = n
        /\ st.byte = [p \in Nat |-> IF p < L THEN Value(F[p + 1]) ELSE 0]
        /\ st.number = [i \in 1 .. n |-> F[pos[i]].owner]
        /\ st.start = [i \in 1 .. n |-> pos[i] - 1]
        /\ st.end = [i \in 0 .. n |-> pos[i + 1] - 1]
    BY DEF Framing
  <1> HIDE DEF st, L
  <1>4. st.byte \in [Nat -> Byte]
    <2>1. \A p \in Nat : (IF p < L THEN Value(F[p + 1]) ELSE 0) \in Byte
      <3> TAKE p \in Nat
      <3>1. CASE p < L
        <4>1. p + 1 \in 1 .. Len(F)
          BY <1>1, <3>1 DEF L
        <4>2. F[p + 1] \in Owned
          BY <4>1, ElementOfSeq
        <4>3. QED BY <3>1, <4>2, ValueType
      <3>2. CASE ~(p < L)
        BY <3>2 DEF Byte
      <3>3. QED BY <3>1, <3>2
    <2>2. QED BY <1>3, <2>1
  <1>5. st.number \in [1 .. n -> 1 .. Len(traffic.sent)]
    BY <1>2, <1>3
  <1>6. st.start \in [1 .. n -> Nat] /\ st.end \in [0 .. n -> Nat]
    <2>1. \A i \in 1 .. n : pos[i] - 1 \in Nat
      BY <1>1
    <2>2. \A i \in 0 .. n : pos[i + 1] - 1 \in Nat
      <3> TAKE i \in 0 .. n
      <3>1. i + 1 \in 1 .. n + 1
        BY <1>1
      <3>2. pos[i + 1] \in 1 .. L + 1
        BY <1>1, <3>1
      <3>3. QED BY <1>1, <3>2
    <2>3. QED BY <1>3, <2>1, <2>2
  <1>7. st.end[0] = 0 /\ st.end[n] = L
    <2>1. 0 \in 0 .. n /\ n \in 0 .. n /\ 0 + 1 = 1 /\ (L + 1) - 1 = L
      BY <1>1
    <2>2. st.end[0] = pos[0 + 1] - 1 /\ st.end[n] = pos[n + 1] - 1
      BY <1>3, <2>1
    <2>3. QED BY <1>1, <2>1, <2>2
  <1>8. \A i, j \in 0 .. n : i <= j => st.end[i] <= st.end[j]
    <2> SUFFICES ASSUME NEW i \in 0 .. n, NEW j \in 0 .. n, i <= j
                 PROVE  st.end[i] <= st.end[j]
      OBVIOUS
    <2>1. i = j \/ i + 1 < j + 1
      BY <1>1
    <2>2. i + 1 \in 1 .. n + 1 /\ j + 1 \in 1 .. n + 1
      BY <1>1
    <2>3. /\ pos[i + 1] \in 1 .. L + 1 /\ pos[j + 1] \in 1 .. L + 1
          /\ i = j \/ pos[i + 1] < pos[j + 1]
      BY <1>1, <2>1, <2>2
    <2>4. st.end[i] = pos[i + 1] - 1 /\ st.end[j] = pos[j + 1] - 1
      BY <1>3
    <2>5. QED BY <1>1, <2>3, <2>4, SMTT(30)
  <1>9. IsStream(st, traffic.sent)
    <2>1. \A i \in 1 .. st.n : PacketIn(st, i, traffic.sent[st.number[i]])
      BY <1>2, <1>3
    <2>2. QED BY <1>1, <1>3, <1>4, <1>5, <1>6, <1>7, <1>8, <2>1, Zenon DEF IsStream
  <1>10. \A k \in 0 .. L - 1 : st.byte[k] = Value(F[k + 1])
    <2>1. \A k \in 0 .. L - 1 : k \in Nat /\ k < L
      BY <1>1
    <2>2. QED BY <1>3, <2>1
  <1>11. \A i, j \in 1 .. n : i < j => st.number[i] < st.number[j]
    <2> SUFFICES ASSUME NEW i \in 1 .. n, NEW j \in 1 .. n, i < j
                 PROVE  st.number[i] < st.number[j]
      OBVIOUS
    <2>1. i \in 1 .. n + 1 /\ j \in 1 .. n + 1
      BY <1>1
    <2>2. pos[i] < pos[j] /\ pos[i] \in DOMAIN F /\ pos[j] \in DOMAIN F
      BY <1>1, <2>1
    <2>3. Before(F[pos[i]], F[pos[j]])
      BY <2>2 DEF Sorted
    <2>4. F[pos[i]].at = 1 /\ F[pos[j]].at = 1
      BY <1>1
    <2>5. F[pos[i]].owner < F[pos[j]].owner
      BY <2>3, <2>4 DEF Before
    <2>6. QED BY <1>2, <2>5
  <1>12. StreamOf(st, F)
    BY <1>2, <1>3, <1>7, <1>9, <1>10, <1>11 DEF StreamOf, L
  <1>13. QED BY <1>12 DEF st

LEMMA WholeStream ==
    ASSUME traffic \in Traffic, accepted \in 0 .. Len(traffic.packets),
           NEW F \in Seq(Owned), Sorted(F), Whole(F)
    PROVE  \E st : StreamOf(st, F)
  BY Frame, FramingStream, Zenon

-----------------------------------------------------------------------------
(* What is delivered when no fetch takes a part of a packet.               *)

\* The bytes on their way to the decoder's buffer.
Flying == Range(arrived) \cup Range(wire) \cup Range(writeRing)

\* They are in the order in which they were sent, and none is there twice.
InOrder ==
    /\ Sorted(arrived) /\ Sorted(wire) /\ Sorted(writeRing)
    /\ Precedes(arrived, wire) /\ Precedes(arrived, writeRing) /\ Precedes(wire, writeRing)

\* A message that lost a byte does not get it back.
LostGone ==
    \A m \in lost : \E k \in DOMAIN traffic.packets[m] : [owner |-> m, at |-> k] \notin Flying

(* What was fetched so far are the packets of messages that lost nothing,  *)
(* in order, and the decoder follows their stream.                         *)
Delivering(st) ==
    /\ IsStream(st, traffic.sent)
    /\ Follows(st, st.n)
    /\ \A i, j \in 1 .. st.n : i < j => st.number[i] < st.number[j]
    /\ \A i \in 1 .. st.n : st.number[i] \in (1 .. accepted) \ lost
    /\ \A i \in 1 .. st.n : \A b \in Flying : st.number[i] < b.owner

(* Order and loss are kept by every step, whatever is cut; without them    *)
(* the stream of whole packets would not be known to have no message twice *)
(* and none of those that lost a byte.                                     *)
UncutInvariant ==
    /\ InOrder
    /\ LostGone
    /\ ~cut => \E st : Delivering(st)

LEMMA UncutInit == SystemInit => UncutInvariant
  <1> SUFFICES ASSUME SystemInit
               PROVE  UncutInvariant
    OBVIOUS
  <1>1. /\ arrived = << >> /\ wire = << >> /\ writeRing = << >> /\ lost = {}
        /\ DOMAIN << >> = {}
    BY DEF SystemInit
  <1>2. Range(arrived) = {} /\ Range(wire) = {} /\ Range(writeRing) = {}
    BY <1>1 DEF Range
  <1>3. InOrder /\ LostGone
    BY <1>1, <1>2 DEF InOrder, LostGone, Sorted, Precedes
  <1>4. Delivering(NoStream)
    <2>1. NoStream.n = 0 /\ \A i \in 1 .. 0 : FALSE
      BY DEF NoStream
    <2>2. IsStream(NoStream, traffic.sent) /\ Follows(NoStream, NoStream.n)
      BY <2>1, InitFollows DEF SystemInit
    <2>3. QED BY <2>1, <2>2 DEF Delivering
  <1>5. QED BY <1>3, <1>4 DEF UncutInvariant

\* The bytes under way are those of accepted messages.
LEMMA FlyingType ==
    TransportInvariant => /\ Range(arrived) \subseteq Owned /\ Range(wire) \subseteq Owned
                          /\ Range(writeRing) \subseteq Owned /\ Flying \subseteq Owned
  <1> SUFFICES ASSUME TransportInvariant
               PROVE  /\ Range(arrived) \subseteq Owned /\ Range(wire) \subseteq Owned
                      /\ Range(writeRing) \subseteq Owned /\ Flying \subseteq Owned
    OBVIOUS
  <1>1. arrived \in Seq(Owned) /\ wire \in Seq(Owned) /\ writeRing \in Seq(Owned)
    BY DEF TransportInvariant
  <1>2. ASSUME NEW s \in Seq(Owned)
        PROVE  Range(s) \subseteq Owned
    BY LenProperties, ElementOfSeq DEF Range
  <1>3. QED BY <1>1, <1>2 DEF Flying

\* No byte is both before and after.
LEMMA Apart ==
    ASSUME NEW s, NEW t, Precedes(s, t), NEW b, b \in Range(s), b \in Range(t),
           b.owner \in Nat, b.at \in Nat
    PROVE  FALSE
  <1>1. Before(b, b)
    BY DEF Precedes
  <1>2. QED BY <1>1 DEF Before

LEMMA OwnerRange == ASSUME NEW s PROVE Owners(s) = {b.owner : b \in Range(s)}
  BY DEF Owners, Range

(* A step of the transport: the bytes of D are lost, those of New come.    *)
LEMMA Passing ==
    ASSUME TransportInvariant, TransportInvariant', LostGone, ~cut => \E st : Delivering(st),
           UNCHANGED <<handle, pc, stop, delivered, traffic, cut>>,
           accepted <= accepted', NEW New, NEW D,
           Flying' \subseteq Flying \cup New, Range(D) \subseteq Flying \cup New,
           Range(D) \subseteq Owned', Range(D) \cap Flying' = {},
           \A b \in New : b.owner = accepted + 1, lost' = lost \cup Owners(D)
    PROVE  LostGone' /\ (~cut' => \E st : Delivering(st)')
  <1>1. /\ accepted \in Nat /\ accepted' \in Nat /\ lost \in SUBSET (1 .. accepted)
        /\ traffic' = traffic /\ cut' = cut
    <2>1. Len(traffic.packets) \in Nat /\ Len(traffic'.packets) \in Nat
      BY PacketsAssumption, LenProperties DEF TransportInvariant
    <2>2. QED BY <2>1 DEF TransportInvariant
  <1>2. Owners(D) = {b.owner : b \in Range(D)}
    BY OwnerRange
  <1>3. LostGone'
    <2> SUFFICES ASSUME NEW m \in lost'
                 PROVE  \E k \in DOMAIN traffic.packets[m] : [owner |-> m, at |-> k] \notin Flying'
      BY <1>1 DEF LostGone
    <2>1. CASE m \in lost
      <3>1. PICK k \in DOMAIN traffic.packets[m] : [owner |-> m, at |-> k] \notin Flying
        BY <2>1 DEF LostGone
      <3>2. m # accepted + 1
        BY <1>1, <2>1
      <3>3. [owner |-> m, at |-> k] \notin New
        BY <3>2
      <3>4. QED BY <3>1, <3>3
    <2>2. CASE m \in Owners(D)
      <3>1. PICK b \in Range(D) : m = b.owner
        BY <1>2, <2>2
      <3>2. b = [owner |-> m, at |-> b.at] /\ b.at \in DOMAIN traffic.packets[m]
        BY <1>1, <3>1 DEF Owned
      <3>3. QED BY <3>1, <3>2
    <2>3. QED BY <2>1, <2>2
  <1>4. ASSUME ~cut'
        PROVE  \E st : Delivering(st)'
    <2>1. PICK st : Delivering(st)
      BY <1>1, <1>4
    <2>2. Follows(st, st.n)'
      BY <2>1, FollowsFrame DEF Delivering
    <2>3. /\ IsStream(st, traffic'.sent)
          /\ \A i, j \in 1 .. st.n : i < j => st.number[i] < st.number[j]
          /\ \A i \in 1 .. st.n : st.number[i] \in (1 .. accepted) \ lost
          /\ \A i \in 1 .. st.n : \A b \in Flying : st.number[i] < b.owner
      BY <1>1, <2>1 DEF Delivering
    <2>4. \A i \in 1 .. st.n : \A b \in Flying \cup New : st.number[i] < b.owner
      BY <1>1, <2>3
    <2>5. \A i \in 1 .. st.n : st.number[i] \in (1 .. accepted') \ lost'
      <3> TAKE i \in 1 .. st.n
      <3>1. st.number[i] \in 1 .. accepted /\ st.number[i] \notin lost
        BY <2>3
      <3>2. st.number[i] \in 1 .. accepted' /\ st.number[i] \in Nat
        BY <1>1, <3>1
      <3>3. ASSUME NEW b \in Range(D), st.number[i] = b.owner
            PROVE  FALSE
        <4>1. st.number[i] < st.number[i]
          BY <2>4, <3>3
        <4>2. QED BY <3>2, <4>1
      <3>4. QED BY <1>2, <3>1, <3>2, <3>3
    <2>6. \A i \in 1 .. st.n : \A b \in Flying' : st.number[i] < b.owner
      BY <2>4
    <2>7. Delivering(st)'
      BY <2>2, <2>3, <2>5, <2>6 DEF Delivering
    <2>8. QED BY <2>7
  <1>5. QED BY <1>3, <1>4

\* An overwriting push drops what was sent before the bytes it keeps.
LEMMA OverwriteSorted ==
    ASSUME NEW S, NEW s \in Seq(S), Sorted(s), NEW size \in Nat
    PROVE  /\ Sorted(Newest(s, size)) /\ Precedes(Dropped(s, size), Newest(s, size))
           /\ Range(s) = Range(Dropped(s, size)) \cup Range(Newest(s, size))
  <1> DEFINE e == Excess(s, size)
             a == SubSeq(s, 1, e)
             b == SubSeq(s, e + 1, e)
             c == SubSeq(s, e + 1, Len(s))
  <1>1. Len(s) \in Nat /\ e \in 0 .. Len(s) /\ Newest(s, size) = c /\ Dropped(s, size) = a
    BY Overwrite
  <1> HIDE DEF e
  <1>2. e \in e .. Len(s) /\ e + 1 \in Int /\ e \in Int /\ e + 1 > e
    BY <1>1
  <1>3. IsSplit(s, a, b, c)
    BY <1>1, <1>2, Split
  <1>4. b = << >>
    BY <1>2, SubSeqEmpty
  <1>5. Range(b) = {}
    <2>1. DOMAIN << >> = {}
      OBVIOUS
    <2>2. QED BY <1>4, <2>1 DEF Range
  <1>6. QED BY <1>1, <1>3, <1>5, Zenon DEF IsSplit

\* The new packet is sent after everything that is under way.
LEMMA AddedLast ==
    ASSUME TransportInvariant, Send
    PROVE  /\ Sorted(Added)
           /\ \A b \in Range(Added) : b.owner = accepted + 1
           /\ \A a \in Flying, b \in Range(Added) : Before(a, b)
  <1>1. /\ accepted \in Nat /\ Added \in Seq(Owned')
        /\ \A i \in DOMAIN Added : Added[i] = [owner |-> accepted + 1, at |-> i]
    BY SendParts
  <1>2. DOMAIN Added = 1 .. Len(Added) /\ Len(Added) \in Nat
    BY <1>1, LenProperties
  <1>3. Sorted(Added)
    <2>1. \A i, j \in DOMAIN Added : i < j => Before(Added[i], Added[j])
      BY <1>1, <1>2 DEF Before
    <2>2. QED BY <2>1 DEF Sorted
  <1>4. \A b \in Range(Added) : b.owner = accepted + 1
    BY <1>1 DEF Range
  <1>5. \A a \in Flying, b \in Range(Added) : Before(a, b)
    <2> TAKE a \in Flying, b \in Range(Added)
    <2>1. a.owner \in 1 .. accepted
      BY FlyingType DEF Owned
    <2>2. a.owner < accepted + 1
      BY <1>1, <2>1
    <2>3. QED BY <1>4, <2>2 DEF Before
  <1>6. QED BY <1>3, <1>4, <1>5

LEMMA SendUncut ==
    ASSUME TransportInvariant, TransportInvariant', UncutInvariant, Send
    PROVE  UncutInvariant'
  <1> DEFINE all == writeRing \o Added
             D == Dropped(all, RingBytes)
  <1>1. /\ writeRing' = Newest(all, RingBytes) /\ lost' = lost \cup Owners(D)
        /\ arrived' = arrived /\ wire' = wire /\ cut' = cut
        /\ UNCHANGED <<handle, pc, stop, delivered, traffic>>
    BY DEF Send, Added, vars, line
  <1>2. /\ accepted \in Nat /\ accepted' = accepted + 1
        /\ writeRing \in Seq(Owned') /\ Added \in Seq(Owned')
    BY SendParts
  <1>3. /\ Sorted(Added)
        /\ \A b \in Range(Added) : b.owner = accepted + 1
        /\ \A a \in Flying, b \in Range(Added) : Before(a, b)
    BY AddedLast
  <1>4. InOrder /\ LostGone /\ (~cut => \E st : Delivering(st))
    BY DEF UncutInvariant
  <1>5. all \in Seq(Owned') /\ Sorted(all) /\ Range(all) = Range(writeRing) \cup Range(Added)
    <2>1. Precedes(writeRing, Added)
      BY <1>3 DEF Precedes, Flying
    <2>2. QED BY <1>2, <1>3, <1>4, <2>1, JoinSorted, ConcatProperties DEF InOrder
  <1> HIDE DEF all
  <1>6. /\ Sorted(writeRing') /\ Precedes(D, writeRing')
        /\ Range(all) = Range(D) \cup Range(writeRing')
    <2>1. RingBytes \in Nat
      BY EndToEndAssumption
    <2>2. QED BY <1>1, <1>5, <2>1, OverwriteSorted
  <1> HIDE DEF D
  <1>7. /\ \A a \in Range(arrived), b \in Range(all) : Before(a, b)
        /\ \A a \in Range(wire), b \in Range(all) : Before(a, b)
    BY <1>3, <1>4, <1>5 DEF Flying, InOrder, Precedes
  <1>8. InOrder'
    <2>1. Precedes(arrived, writeRing') /\ Precedes(wire, writeRing')
      BY <1>6, <1>7 DEF Precedes
    <2>2. Sorted(arrived) /\ Sorted(wire) /\ Precedes(arrived, wire)
      BY <1>4 DEF InOrder
    <2>3. Sorted(arrived') /\ Sorted(wire') /\ Sorted(writeRing') /\ Precedes(arrived', wire')
          /\ Precedes(arrived', writeRing') /\ Precedes(wire', writeRing')
      BY <1>1, <1>6, <2>1, <2>2
    <2>4. QED BY <2>3 DEF InOrder, Sorted, Precedes
  <1>9. Range(D) \subseteq Owned'
    <2>1. \A s \in Seq(Owned') : Range(s) \subseteq Owned'
      BY LenProperties, ElementOfSeq DEF Range
    <2>2. QED BY <1>5, <1>6, <2>1
  <1>10. Range(D) \cap Flying' = {}
    <2> SUFFICES ASSUME NEW b \in Range(D), b \in Flying'
                 PROVE  FALSE
      OBVIOUS
    <2>1. b.owner \in Nat /\ b.at \in Nat
      <3>1. b \in Owned' /\ accepted' \in Nat
        BY <1>2, <1>9
      <3>2. QED BY <3>1 DEF Owned
    <2>2. b \in Range(all)
      BY <1>6
    <2>3. CASE b \in Range(writeRing')
      BY <1>6, <2>1, <2>3, Apart
    <2>4. CASE b \in Range(arrived) \/ b \in Range(wire)
      <3>1. Before(b, b)
        BY <1>7, <2>2, <2>4
      <3>2. QED BY <2>1, <3>1 DEF Before
    <2>5. Flying' = Range(arrived) \cup Range(wire) \cup Range(writeRing')
      BY <1>1 DEF Flying, Range
    <2>6. QED BY <2>3, <2>4, <2>5
  <1>11. Flying' \subseteq Flying \cup Range(Added) /\ Range(D) \subseteq Flying \cup Range(Added)
    <2>1. Flying' = Range(arrived) \cup Range(wire) \cup Range(writeRing')
      BY <1>1 DEF Flying, Range
    <2>2. QED BY <1>5, <1>6, <2>1 DEF Flying
  <1>12. accepted <= accepted'
    BY <1>2
  <1>13. LostGone' /\ (~cut' => \E st : Delivering(st)')
    BY <1>1, <1>3, <1>4, <1>9, <1>10, <1>11, <1>12, Passing
  <1>14. QED BY <1>8, <1>13 DEF UncutInvariant

\* The device takes the oldest n of the bytes popped, and the rest is lost.
LEMMA WriteUncut ==
    ASSUME TransportInvariant, TransportInvariant', UncutInvariant, Write
    PROVE  UncutInvariant'
  <1>1. /\ PopSize \in 0 .. Len(writeRing) /\ Len(writeRing) \in Nat
        /\ writeRing' = SubSeq(writeRing, PopSize + 1, Len(writeRing))
        /\ arrived' = arrived /\ accepted' = accepted /\ cut' = cut
        /\ UNCHANGED <<handle, pc, stop, delivered, traffic>>
    <2>1. UNCHANGED <<vars, arrived, accepted, cut, overrun, due>>
      BY WriteParts
    <2>2. QED BY <2>1, WriteParts DEF vars, line
  <1>2. PICK n \in 0 .. PopSize :
              /\ wire' = wire \o SubSeq(writeRing, 1, n)
              /\ lost' = lost \cup Owners(SubSeq(writeRing, n + 1, PopSize))
    BY WriteParts
  <1> DEFINE a == SubSeq(writeRing, 1, n)
             D == SubSeq(writeRing, n + 1, PopSize)
  <1>3. InOrder /\ LostGone /\ (~cut => \E st : Delivering(st))
    BY DEF UncutInvariant
  <1>4. wire \in Seq(Owned) /\ writeRing \in Seq(Owned) /\ accepted \in Nat
    <2>1. Len(traffic.packets) \in Nat
      BY PacketsAssumption, LenProperties DEF TransportInvariant
    <2>2. QED BY <2>1 DEF TransportInvariant
  <1>5. n \in 0 .. Len(writeRing) /\ PopSize \in n .. Len(writeRing)
    BY <1>1
  <1>6. IsSplit(writeRing, a, D, writeRing') /\ a \in Seq(Owned)
    <2>1. Sorted(writeRing)
      BY <1>3 DEF InOrder
    <2>2. IsSplit(writeRing, a, D, SubSeq(writeRing, PopSize + 1, Len(writeRing)))
      BY <1>4, <1>5, <2>1, Split
    <2>3. QED BY <1>1, <1>4, <1>5, <2>2, Front
  <1>7. wire' = wire \o a /\ lost' = lost \cup Owners(D)
    BY <1>2
  <1> HIDE DEF a, D
  <1>8. /\ Sorted(a) /\ Sorted(writeRing')
        /\ Precedes(a, D) /\ Precedes(a, writeRing') /\ Precedes(D, writeRing')
        /\ Range(writeRing) = Range(a) \cup Range(D) \cup Range(writeRing')
    BY <1>6 DEF IsSplit
  <1>9. /\ Sorted(arrived) /\ Sorted(wire) /\ Precedes(arrived, wire)
        /\ Precedes(arrived, writeRing) /\ Precedes(wire, writeRing)
    BY <1>3 DEF InOrder
  <1>10. /\ Precedes(wire, a) /\ Precedes(arrived, a)
         /\ Precedes(wire, D) /\ Precedes(arrived, D)
         /\ Precedes(wire, writeRing') /\ Precedes(arrived, writeRing')
    BY <1>8, <1>9 DEF Precedes
  <1>11. Sorted(wire') /\ Range(wire') = Range(wire) \cup Range(a)
    BY <1>4, <1>6, <1>7, <1>8, <1>9, <1>10, JoinSorted
  <1>12. InOrder'
    <2>1. Precedes(arrived, wire') /\ Precedes(wire', writeRing')
      BY <1>8, <1>9, <1>10, <1>11 DEF Precedes
    <2>2. Sorted(arrived') /\ Sorted(wire') /\ Sorted(writeRing') /\ Precedes(arrived', wire')
          /\ Precedes(arrived', writeRing') /\ Precedes(wire', writeRing')
      BY <1>1, <1>8, <1>9, <1>10, <1>11, <2>1
    <2>3. QED BY <2>2 DEF InOrder, Sorted, Precedes
  <1>13. Flying' = Range(arrived) \cup Range(wire) \cup Range(a) \cup Range(writeRing')
    <2>1. Flying' = Range(arrived') \cup Range(wire') \cup Range(writeRing')
      BY DEF Flying, Range
    <2>2. QED BY <1>1, <1>11, <2>1
  <1>14. /\ Flying' \subseteq Flying \cup {} /\ Range(D) \subseteq Flying \cup {}
         /\ Range(D) \subseteq Owned'
    <2>1. Owned' = Owned
      BY <1>1 DEF Owned
    <2>2. Flying \subseteq Owned
      BY FlyingType
    <2>3. QED BY <1>8, <1>13, <2>1, <2>2 DEF Flying
  <1>15. Range(D) \cap Flying' = {}
    <2> SUFFICES ASSUME NEW b \in Range(D), b \in Flying'
                 PROVE  FALSE
      OBVIOUS
    <2>1. b.owner \in Nat /\ b.at \in Nat
      <3>1. b \in Owned' /\ accepted' \in Nat
        BY <1>1, <1>4, <1>14
      <3>2. QED BY <3>1 DEF Owned
    <2>2. \/ b \in Range(arrived) \/ b \in Range(wire)
          \/ b \in Range(a) \/ b \in Range(writeRing')
      BY <1>13
    <2>3. QED BY <1>8, <1>10, <2>1, <2>2, Apart
  <1>16. accepted <= accepted'
    BY <1>1, <1>4
  <1>17. \A b \in {} : b.owner = accepted + 1
    OBVIOUS
  <1>18. LostGone' /\ (~cut' => \E st : Delivering(st)')
    BY <1>1, <1>3, <1>7, <1>14, <1>15, <1>16, <1>17, Passing
  <1>19. QED BY <1>12, <1>18 DEF UncutInvariant

\* What ReadThread reads comes after what is in the read ring.
LEMMA ReadUncut ==
    ASSUME TransportInvariant, TransportInvariant', UncutInvariant, Read
    PROVE  UncutInvariant'
  <1>1. /\ writeRing' = writeRing /\ accepted' = accepted /\ cut' = cut
        /\ UNCHANGED <<handle, pc, stop, delivered, traffic>>
    BY ReadParts
  <1>2. PICK n \in 0 .. Len(wire) :
           LET all == arrived \o SubSeq(wire, 1, n)
           IN  /\ SubSeq(wire, 1, n) \in Seq(Owned)
               /\ all \in Seq(Owned)
               /\ wire' = SubSeq(wire, n + 1, Len(wire))
               /\ arrived' = Newest(all, ReadRingBytes)
               /\ lost' = lost \cup Owners(Dropped(all, ReadRingBytes))
    BY ReadParts
  <1> DEFINE a == SubSeq(wire, 1, n)
             none == SubSeq(wire, n + 1, n)
             all == arrived \o a
             D == Dropped(all, ReadRingBytes)
  <1>3. InOrder /\ LostGone /\ (~cut => \E st : Delivering(st))
    BY DEF UncutInvariant
  <1>4. /\ wire \in Seq(Owned) /\ Len(wire) \in Nat /\ arrived \in Seq(Owned)
        /\ accepted \in Nat
    <2>1. Len(traffic.packets) \in Nat
      BY PacketsAssumption, LenProperties DEF TransportInvariant
    <2>2. QED BY <2>1, LenProperties DEF TransportInvariant
  <1>5. /\ n \in 0 .. Len(wire) /\ n \in n .. Len(wire)
    BY <1>4
  <1>6. IsSplit(wire, a, none, wire')
    <2>1. Sorted(wire)
      BY <1>3 DEF InOrder
    <2>2. IsSplit(wire, a, none, SubSeq(wire, n + 1, Len(wire)))
      BY <1>4, <1>5, <2>1, Split
    <2>3. QED BY <1>2, <2>2
  <1>7. /\ a \in Seq(Owned) /\ all \in Seq(Owned)
        /\ arrived' = Newest(all, ReadRingBytes) /\ lost' = lost \cup Owners(D)
    BY <1>2
  <1> HIDE DEF none
  <1>8. /\ Sorted(a) /\ Sorted(wire') /\ Precedes(a, wire')
        /\ Range(a) \subseteq Range(wire) /\ Range(wire') \subseteq Range(wire)
    <2> HIDE DEF a
    <2>1. QED BY <1>6 DEF IsSplit
  <1> HIDE DEF a
  <1>9. /\ Sorted(arrived) /\ Sorted(writeRing) /\ Precedes(arrived, wire)
        /\ Precedes(arrived, writeRing) /\ Precedes(wire, writeRing)
    BY <1>3 DEF InOrder
  <1>10. Sorted(all) /\ Range(all) = Range(arrived) \cup Range(a)
    <2>1. Precedes(arrived, a)
      BY <1>8, <1>9 DEF Precedes
    <2>2. QED BY <1>4, <1>7, <1>8, <1>9, <2>1, JoinSorted
  <1> HIDE DEF all
  <1>11. /\ Sorted(arrived') /\ Precedes(D, arrived')
         /\ Range(all) = Range(D) \cup Range(arrived')
    <2>1. ReadRingBytes \in Nat
      BY EndToEndAssumption
    <2>2. QED BY <1>7, <1>10, <2>1, OverwriteSorted
  <1> HIDE DEF D
  <1>12. /\ Precedes(all, wire') /\ Precedes(all, writeRing) /\ Precedes(wire', writeRing)
    BY <1>8, <1>9, <1>10 DEF Precedes
  <1>13. InOrder'
    <2>1. Precedes(arrived', wire') /\ Precedes(arrived', writeRing)
      BY <1>11, <1>12 DEF Precedes
    <2>2. Sorted(arrived') /\ Sorted(wire') /\ Sorted(writeRing') /\ Precedes(arrived', wire')
          /\ Precedes(arrived', writeRing') /\ Precedes(wire', writeRing')
      BY <1>1, <1>8, <1>9, <1>11, <1>12, <2>1
    <2>3. QED BY <2>2 DEF InOrder, Sorted, Precedes
  <1>14. Flying' = Range(arrived') \cup Range(wire') \cup Range(writeRing)
    <2>1. Flying' = Range(arrived') \cup Range(wire') \cup Range(writeRing')
      BY DEF Flying, Range
    <2>2. QED BY <1>1, <2>1
  <1>15. /\ Flying' \subseteq Flying \cup {} /\ Range(D) \subseteq Flying \cup {}
         /\ Range(D) \subseteq Owned'
    <2>1. Owned' = Owned
      BY <1>1 DEF Owned
    <2>2. Flying \subseteq Owned
      BY FlyingType
    <2>3. QED BY <1>8, <1>10, <1>11, <1>14, <2>1, <2>2 DEF Flying
  <1>16. Range(D) \cap Flying' = {}
    <2> SUFFICES ASSUME NEW b \in Range(D), b \in Flying'
                 PROVE  FALSE
      OBVIOUS
    <2>1. b.owner \in Nat /\ b.at \in Nat
      <3>1. b \in Owned' /\ accepted' \in Nat
        BY <1>1, <1>4, <1>15
      <3>2. QED BY <3>1 DEF Owned
    <2>2. b \in Range(all)
      BY <1>11
    <2>3. b \in Range(arrived') \/ b \in Range(wire') \/ b \in Range(writeRing)
      BY <1>14
    <2>4. QED BY <1>11, <1>12, <2>1, <2>2, <2>3, Apart
  <1>17. accepted <= accepted'
    BY <1>1, <1>4
  <1>18. \A b \in {} : b.owner = accepted + 1
    OBVIOUS
  <1>19. LostGone' /\ (~cut' => \E st : Delivering(st)')
    BY <1>1, <1>3, <1>7, <1>15, <1>16, <1>17, <1>18, Passing
  <1>20. QED BY <1>13, <1>19 DEF UncutInvariant

\* A message with a byte among whole packets lost nothing.
LEMMA WholeNotLost ==
    ASSUME LostGone, NEW F, Whole(F), Range(F) \subseteq Flying, NEW m \in Owners(F)
    PROVE  m \notin lost
  <1> SUFFICES ASSUME m \in lost
               PROVE  FALSE
    OBVIOUS
  <1>1. PICK k \in DOMAIN traffic.packets[m] : [owner |-> m, at |-> k] \notin Flying
    BY DEF LostGone
  <1>2. \E i \in DOMAIN F : F[i] = [owner |-> m, at |-> k]
    BY <1>1 DEF Whole
  <1>3. [owner |-> m, at |-> k] \in Range(F)
    BY <1>2 DEF Range
  <1>4. QED BY <1>1, <1>3

\* What comes after whole packets is of later messages.
LEMMA WholeBefore ==
    ASSUME TransportInvariant, NEW F \in Seq(Owned), Whole(F), NEW m \in Owners(F),
           NEW b \in Owned, \A a \in Range(F) : Before(a, b)
    PROVE  m < b.owner
  <1> DEFINE size == Len(traffic.packets[m])
  <1>1. /\ b.owner \in Nat /\ b.at \in Nat /\ b.at \in 1 .. Len(traffic.packets[b.owner])
    BY OwnedType DEF TransportInvariant
  <1>2. PICK c \in Owned : m = c.owner
    BY OwnersType
  <1>3. /\ m \in Nat /\ size \in Nat /\ size \in DOMAIN traffic.packets[m]
    <2>1. /\ m \in Nat /\ size \in Nat /\ c.at \in 1 .. size
          /\ DOMAIN traffic.packets[m] = 1 .. size
      BY <1>2, OwnedType DEF TransportInvariant
    <2>2. QED BY <2>1
  <1>4. [owner |-> m, at |-> size] \in Range(F)
    <2>1. \E i \in DOMAIN F : F[i] = [owner |-> m, at |-> size]
      BY <1>3 DEF Whole
    <2>2. QED BY <2>1 DEF Range
  <1>5. m < b.owner \/ (m = b.owner /\ size < b.at)
    BY <1>4 DEF Before
  <1>6. QED BY <1>1, <1>3, <1>5

\* Whole packets that the parser thread fetches are the next ones of the stream.
LEMMA FetchStream ==
    ASSUME SystemInvariant, UncutInvariant, Fetch, Fetched \in 0 .. Len(arrived), NEW st,
           Delivering(st), NEW more, StreamOf(more, SubSeq(arrived, 1, Fetched))
    PROVE  /\ IsStream(Joined(st, more), traffic.sent)
           /\ Follows(Joined(st, more), Joined(st, more).n)'
  <1> DEFINE F == SubSeq(arrived, 1, Fetched)
             all == Joined(st, more)
             size == st.end[st.n]
             L == Fetched
  <1>1. /\ DecoderInvariant /\ TransportInvariant
        /\ IsStream(st, traffic.sent) /\ Follows(st, st.n)
        /\ IsStream(more, traffic.sent)
    BY DEF SystemInvariant, Delivering, StreamOf
  <1>2. IsStream(all, traffic.sent)
    BY <1>1, JoinedStream
  <1>3. Follows(all, st.n)
    BY <1>1, FollowsJoined
  <1>4. /\ st.n \in Nat /\ more.n \in Nat /\ size \in Nat
        /\ IsJoin(all, st, more, size, traffic.sent)
    BY <1>1, JoinedParts, Zenon
  <1>5. /\ arrived \in Seq(Owned) /\ Len(ring) = Len(arrived) /\ Len(arrived) \in Nat
        /\ \A i \in 1 .. Len(arrived) : ring[i] = Value(arrived[i])
    BY <1>1, LenProperties DEF TransportInvariant, RingHoldsArrived
  <1>6. L \in Nat /\ F \in Seq(Owned) /\ Len(F) = L /\ \A i \in 1 .. L : F[i] = arrived[i]
    BY <1>5, Front
  <1>7. /\ more.end[more.n] = L
        /\ \A k \in 0 .. L - 1 : more.byte[k] = Value(F[k + 1])
    BY <1>6 DEF StreamOf
  <1> HIDE DEF all, size, L, F
  <1>8. /\ all.n = st.n + more.n /\ all.n \in st.n .. all.n
        /\ all.end[st.n] = size /\ all.end[all.n] = size + L
    <2>1. all.n = st.n + more.n
      BY <1>4 DEF IsJoin
    <2>2. st.n \in 0 .. st.n /\ more.n \in 0 .. more.n /\ all.n \in st.n .. all.n
      BY <1>4, <2>1
    <2>3. all.end[st.n] = st.end[st.n] /\ all.end[st.n + more.n] = size + more.end[more.n]
      BY <1>4, <2>2, Zenon DEF IsJoin, JoinFirst, JoinSecond
    <2>4. QED BY <1>7, <2>1, <2>2, <2>3 DEF size
  <1>9. TakesUpTo(all, st.n, all.n)
    <2>1. L = all.end[all.n] - all.end[st.n]
      BY <1>4, <1>6, <1>8
    <2>2. \A k \in 0 .. L - 1 : ring[k + 1] = all.byte[size + k]
      <3> TAKE k \in 0 .. L - 1
      <3>1. k \in Nat /\ k + 1 \in 1 .. L /\ k + 1 \in 1 .. Len(arrived)
        BY <1>5, <1>6 DEF L
      <3>2. all.byte[size + k] = more.byte[k]
        BY <1>4, <3>1, Zenon DEF IsJoin, JoinBytes
      <3>3. ring[k + 1] = Value(F[k + 1])
        BY <1>5, <1>6, <3>1
      <3>4. QED BY <1>7, <3>2, <3>3
    <2>3. QED BY <1>8, <2>1, <2>2 DEF TakesUpTo, L
  <1>10. Follows(all, all.n)'
    BY <1>1, <1>2, <1>3, <1>8, <1>9, FetchFollows
  <1>11. QED BY <1>2, <1>10 DEF all

\* The messages of the bytes fetched come after those fetched before them and
\* before those still under way.
LEMMA FetchNumbers ==
    ASSUME SystemInvariant, UncutInvariant, NEW F \in Seq(Owned), Whole(F),
           Range(F) \subseteq Flying, NEW Later \in SUBSET Flying,
           \A a \in Range(F), b \in Later : Before(a, b),
           NEW st, Delivering(st), NEW more, StreamOf(more, F)
    PROVE  LET all == Joined(st, more) IN
           /\ \A i, j \in 1 .. all.n : i < j => all.number[i] < all.number[j]
           /\ \A i \in 1 .. all.n : all.number[i] \in (1 .. accepted) \ lost
           /\ \A i \in 1 .. all.n : \A b \in Later : all.number[i] < b.owner
  <1> DEFINE all == Joined(st, more)
             s == st.n
             t == more.n
  <1>1. /\ TransportInvariant /\ LostGone
        /\ IsStream(st, traffic.sent) /\ IsStream(more, traffic.sent)
    BY DEF SystemInvariant, UncutInvariant, Delivering, StreamOf
  <1>2. /\ s \in Nat /\ t \in Nat
        /\ IsJoin(all, st, more, st.end[s], traffic.sent)
    BY <1>1, JoinedParts, Zenon
  <1> HIDE DEF all, s, t
  <1>3. /\ all.n = s + t
        /\ \A i \in 1 .. s : all.number[i] = st.number[i]
        /\ \A i \in 1 .. t : all.number[s + i] = more.number[i]
    BY <1>2, Zenon DEF IsJoin, JoinFirst, JoinSecond, s, t
  <1>4. /\ \A i, j \in 1 .. s : i < j => st.number[i] < st.number[j]
        /\ \A i \in 1 .. s : st.number[i] \in (1 .. accepted) \ lost
        /\ \A i \in 1 .. s : \A b \in Flying : st.number[i] < b.owner
    BY DEF Delivering, s
  <1>5. /\ \A i, j \in 1 .. t : i < j => more.number[i] < more.number[j]
        /\ \A i \in 1 .. t : more.number[i] \in Owners(F)
    BY DEF StreamOf, t
  <1>6. \A m \in Owners(F) : /\ m \in (1 .. accepted) \ lost
                             /\ \A b \in Later : m < b.owner
                             /\ \E b \in Flying : m = b.owner
    <2> TAKE m \in Owners(F)
    <2>1. PICK b \in Range(F) : m = b.owner
      BY OwnerRange
    <2>2. b \in Flying /\ b \in Owned
      BY <1>1, <2>1, FlyingType
    <2>3. m \in 1 .. accepted
      BY <2>1, <2>2 DEF Owned
    <2>4. m \notin lost
      BY <1>1, WholeNotLost
    <2>5. \A c \in Later : m < c.owner
      <3> TAKE c \in Later
      <3>1. c \in Owned
        BY <1>1, FlyingType
      <3>2. QED BY <1>1, <3>1, WholeBefore
    <2>6. QED BY <2>1, <2>2, <2>3, <2>4, <2>5
  <1>7. \A i \in 1 .. s + t : i \in 1 .. s \/ (i - s \in 1 .. t /\ s + (i - s) = i)
    BY <1>2
  <1>8. \A i \in 1 .. s + t : \/ i \in 1 .. s /\ all.number[i] = st.number[i]
                              \/ /\ i - s \in 1 .. t
                                 /\ all.number[i] = more.number[i - s]
    <2> TAKE i \in 1 .. s + t
    <2>1. CASE i \in 1 .. s
      BY <1>3, <2>1
    <2>2. CASE i - s \in 1 .. t /\ s + (i - s) = i
      <3>1. all.number[s + (i - s)] = more.number[i - s]
        BY <1>3, <2>2
      <3>2. QED BY <2>2, <3>1
    <2>3. QED BY <1>7, <2>1, <2>2
  <1>9. \A i \in 1 .. s + t : /\ all.number[i] \in (1 .. accepted) \ lost
                              /\ \A b \in Later : all.number[i] < b.owner
    <2> TAKE i \in 1 .. s + t
    <2>1. CASE i \in 1 .. s /\ all.number[i] = st.number[i]
      BY <1>4, <2>1
    <2>2. CASE i - s \in 1 .. t /\ all.number[i] = more.number[i - s]
      BY <1>5, <1>6, <2>2
    <2>3. QED BY <1>8, <2>1, <2>2
  <1>10. ASSUME NEW i \in 1 .. s + t, NEW j \in 1 .. s + t, i < j
         PROVE  all.number[i] < all.number[j]
    <2>1. CASE j \in 1 .. s /\ all.number[j] = st.number[j]
      <3>1. i \in 1 .. s
        BY <1>2, <1>10, <2>1
      <3>2. all.number[i] = st.number[i]
        BY <1>3, <3>1
      <3>3. QED BY <1>4, <1>10, <2>1, <3>1, <3>2
    <2>2. CASE j - s \in 1 .. t /\ all.number[j] = more.number[j - s]
      <3>1. CASE i \in 1 .. s /\ all.number[i] = st.number[i]
        <4>1. PICK b \in Flying : more.number[j - s] = b.owner
          BY <1>5, <1>6, <2>2
        <4>2. QED BY <1>4, <2>2, <3>1, <4>1
      <3>2. CASE i - s \in 1 .. t /\ all.number[i] = more.number[i - s]
        <4>1. i - s < j - s
          BY <1>2, <1>10
        <4>2. QED BY <1>5, <2>2, <3>2, <4>1
      <3>3. QED BY <1>8, <3>1, <3>2
    <2>3. QED BY <1>8, <2>1, <2>2
  <1>11. QED BY <1>3, <1>9, <1>10 DEF all

LEMMA TakeUncut ==
    ASSUME SystemInvariant, UncutInvariant, Take
    PROVE  UncutInvariant'
  <1> DEFINE F == SubSeq(arrived, 1, Fetched)
             none == SubSeq(arrived, Fetched + 1, Fetched)
  <1>1. TransportInvariant /\ DecoderInvariant
    BY DEF SystemInvariant
  <1>2. /\ Fetch /\ Fetched \in 0 .. Len(arrived) /\ Len(arrived) \in Nat
        /\ arrived' = SubSeq(arrived, Fetched + 1, Len(arrived))
        /\ cut' = (cut \/ ~Whole(F))
        /\ writeRing' = writeRing /\ wire' = wire /\ accepted' = accepted
        /\ lost' = lost /\ traffic' = traffic
    BY <1>1, TakeParts
  <1>3. InOrder /\ LostGone /\ (~cut => \E st : Delivering(st))
    BY DEF UncutInvariant
  <1>4. arrived \in Seq(Owned) /\ F \in Seq(Owned)
    BY <1>1, <1>2, Front DEF TransportInvariant
  <1>5. IsSplit(arrived, F, none, arrived')
    <2>1. Sorted(arrived) /\ Fetched \in Fetched .. Len(arrived)
      BY <1>2, <1>3 DEF InOrder
    <2>2. IsSplit(arrived, F, none, SubSeq(arrived, Fetched + 1, Len(arrived)))
      BY <1>2, <1>4, <2>1, Split
    <2>3. QED BY <1>2, <2>2
  <1> HIDE DEF none
  <1>6. /\ Sorted(F) /\ Sorted(arrived') /\ Precedes(F, arrived')
        /\ Range(F) \subseteq Range(arrived) /\ Range(arrived') \subseteq Range(arrived)
    <2> HIDE DEF F
    <2>1. QED BY <1>5 DEF IsSplit
  <1>7. /\ Sorted(wire) /\ Sorted(writeRing) /\ Precedes(arrived, wire)
        /\ Precedes(arrived, writeRing) /\ Precedes(wire, writeRing)
    BY <1>3 DEF InOrder
  <1>8. InOrder'
    <2>1. Precedes(arrived', wire) /\ Precedes(arrived', writeRing)
      BY <1>6, <1>7 DEF Precedes
    <2>2. Sorted(arrived') /\ Sorted(wire') /\ Sorted(writeRing') /\ Precedes(arrived', wire')
          /\ Precedes(arrived', writeRing') /\ Precedes(wire', writeRing')
      BY <1>2, <1>6, <1>7, <2>1
    <2>3. QED BY <2>2 DEF InOrder, Sorted, Precedes
  <1>9. Flying' = Range(arrived') \cup Range(wire) \cup Range(writeRing)
    <2>1. Flying' = Range(arrived') \cup Range(wire') \cup Range(writeRing')
      BY DEF Flying, Range
    <2>2. QED BY <1>2, <2>1
  <1>10. Flying' \subseteq Flying /\ Range(F) \subseteq Flying
    BY <1>6, <1>9 DEF Flying
  <1>11. \A a \in Range(F), b \in Flying' : Before(a, b)
    BY <1>6, <1>7, <1>9 DEF Precedes
  <1>12. LostGone'
    BY <1>2, <1>3, <1>10 DEF LostGone
  <1>13. ASSUME ~cut'
         PROVE  \E st : Delivering(st)'
    <2>1. ~cut /\ Whole(F)
      BY <1>2, <1>13
    <2>2. PICK st : Delivering(st)
      BY <1>3, <2>1
    <2>3. PICK more : StreamOf(more, F)
      BY <1>1, <1>4, <1>6, <2>1, WholeStream DEF TransportInvariant
    <2> DEFINE all == Joined(st, more)
    <2>4. IsStream(all, traffic.sent) /\ Follows(all, all.n)'
      BY <1>2, <2>2, <2>3, FetchStream
    <2>5. /\ \A i, j \in 1 .. all.n : i < j => all.number[i] < all.number[j]
          /\ \A i \in 1 .. all.n : all.number[i] \in (1 .. accepted) \ lost
          /\ \A i \in 1 .. all.n : \A b \in Flying' : all.number[i] < b.owner
      <3> HIDE DEF F
      <3>1. QED BY <1>4, <1>10, <1>11, <2>1, <2>2, <2>3, FetchNumbers
    <2> HIDE DEF all
    <2>6. Delivering(all)'
      BY <1>2, <2>4, <2>5 DEF Delivering
    <2>7. QED BY <2>6
  <1>14. QED BY <1>8, <1>12, <1>13 DEF UncutInvariant

LEMMA DecoderUncut ==
    ASSUME SystemInvariant, UncutInvariant, Decoder
    PROVE  UncutInvariant'
  <1>1. UNCHANGED <<writeRing, wire, arrived, accepted, lost, cut>> /\ (Decode \/ Compact)
    BY DEF Decoder, transport
  <1>2. traffic' = traffic
    BY <1>1 DEF Decode, DecodeIdle, DecodeSync, DecodeStart, Match,
                DecodeHader, DecodeData, DecodeCRC, Compact, Compacted, line
  <1>3. InOrder' /\ LostGone' /\ Flying' = Flying
    BY <1>1, <1>2 DEF UncutInvariant, InOrder, LostGone, Flying, Sorted, Precedes, Range
  <1>4. ASSUME ~cut'
        PROVE  \E st : Delivering(st)'
    <2>1. PICK st : Delivering(st)
      BY <1>1, <1>4 DEF UncutInvariant
    <2>2. Follows(st, st.n)'
      BY <1>1, <2>1, DecoderFollows DEF Delivering, SystemInvariant
    <2>3. Delivering(st)'
      BY <1>1, <1>2, <1>3, <2>1, <2>2 DEF Delivering
    <2>4. QED BY <2>3
  <1>5. QED BY <1>3, <1>4 DEF UncutInvariant

LEMMA UncutStep ==
    SystemInvariant /\ SystemInvariant' /\ UncutInvariant /\ [SystemNext]_system
       => UncutInvariant'
  <1> SUFFICES ASSUME SystemInvariant, SystemInvariant', UncutInvariant, [SystemNext]_system
               PROVE  UncutInvariant'
    OBVIOUS
  <1>1. TransportInvariant /\ TransportInvariant'
    BY DEF SystemInvariant
  <1>2. CASE UNCHANGED system
    <2>1. /\ UNCHANGED <<handle, pc, stop, delivered, traffic>>
          /\ UNCHANGED <<writeRing, wire, arrived, accepted, lost, cut>>
      BY <1>2 DEF system, vars, line, transport
    <2>2. InOrder' /\ LostGone' /\ Flying' = Flying
      BY <2>1 DEF UncutInvariant, InOrder, LostGone, Flying, Sorted, Precedes, Range
    <2>3. ASSUME ~cut'
          PROVE  \E st : Delivering(st)'
      <3>1. PICK st : Delivering(st)
        BY <2>1, <2>3 DEF UncutInvariant
      <3>2. Follows(st, st.n)'
        BY <2>1, <3>1, FollowsFrame DEF Delivering
      <3>3. Delivering(st)'
        BY <2>1, <2>2, <3>1, <3>2 DEF Delivering
      <3>4. QED BY <3>3
    <2>4. QED BY <2>2, <2>3 DEF UncutInvariant
  <1>3. CASE Send
    BY <1>1, <1>3, SendUncut
  <1>4. CASE Write
    BY <1>1, <1>4, WriteUncut
  <1>5. CASE Read
    BY <1>1, <1>5, ReadUncut
  <1>6. CASE Take
    BY <1>6, TakeUncut
  <1>7. CASE Decoder
    BY <1>7, DecoderUncut
  <1>8. QED BY <1>2, <1>3, <1>4, <1>5, <1>6, <1>7 DEF SystemNext

LEMMA UncutDelivers == UncutInvariant => UncutInOrder
  <1> SUFFICES ASSUME UncutInvariant, ~cut
               PROVE  DeliversSurvivors
    BY DEF UncutInOrder
  <1>1. PICK st : Delivering(st)
    BY DEF UncutInvariant
  <1> DEFINE d == Len(delivered)
             number == [i \in DOMAIN delivered |-> st.number[i]]
  <1>2. /\ st.n \in Nat /\ delivered \in Seq(AnyMessage) /\ d <= st.n
        /\ \A i \in 1 .. d : delivered[i] = traffic.sent[st.number[i]]
        /\ \A i, j \in 1 .. st.n : i < j => st.number[i] < st.number[j]
        /\ \A i \in 1 .. st.n : st.number[i] \in (1 .. accepted) \ lost
    BY <1>1 DEF Delivering, Follows, Handed, IsStream
  <1>3. d \in Nat /\ DOMAIN delivered = 1 .. d
    BY <1>2, LenProperties
  <1> HIDE DEF d
  <1>4. \A i \in 1 .. d : i \in 1 .. st.n /\ number[i] = st.number[i]
    BY <1>2, <1>3
  <1>5. number \in [DOMAIN delivered -> (1 .. accepted) \ lost]
    BY <1>2, <1>3, <1>4
  <1> HIDE DEF number
  <1>6. \A i \in DOMAIN delivered : delivered[i] = traffic.sent[number[i]]
    BY <1>2, <1>3, <1>4
  <1>7. \A i \in DOMAIN delivered : \A j \in 1 .. i - 1 : number[j] < number[i]
    <2> TAKE i \in DOMAIN delivered
    <2> TAKE j \in 1 .. i - 1
    <2>1. i \in 1 .. d /\ j \in 1 .. d /\ j < i
      BY <1>3
    <2>2. QED BY <1>2, <1>4, <2>1
  <1>8. QED BY <1>5, <1>6, <1>7 DEF DeliversSurvivors

(* Whatever the rings lose, the device refuses and the writes and reads    *)
(* cut: as long as every fetch of the parser thread takes whole packets,   *)
(* the callback gets only messages that lost nothing, in the order in      *)
(* which they were sent and none twice, for every size of the rings, the   *)
(* chunks and the buffer and every checksum function.                      *)
THEOREM UncutDelivery == SystemSpec => []UncutInOrder
  BY SystemCorrect, UncutInit, UncutStep, UncutDelivers, PTL DEF SystemSpec
=============================================================================
