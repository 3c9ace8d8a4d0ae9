----------------------------- MODULE CrcProofs ------------------------------
(***************************************************************************)
(* The checksum of tc-crc.c for messages of any length over any bytes: it  *)
(* is the remainder of the division by the polynomial, and an error burst  *)
(* within two adjacent bytes always changes it.  Of the table only what    *)
(* TableAssumption says is used, which TLC evaluates entry by entry.       *)
(***************************************************************************)
EXTENDS CrcCheck, TLAPS

\* The bits of a byte, and of a word without its top bit, by their weights.
ByteWeights == {1, 2, 4, 8, 16, 32, 64, 128}
LowWeights  == ByteWeights \cup {256, 512, 1024, 2048, 4096, 8192, 16384}
WordWeights == LowWeights \cup {32768}

Bit(a, weight) == (a \div weight) % 2

-----------------------------------------------------------------------------
(* Numbers and their bits.                                                 *)

\* The ranges as inequalities, which the arithmetic below needs.
LEMMA ByteRange ==
    ASSUME NEW x
    PROVE  x \in OneByte <=> x \in Int /\ 0 <= x /\ x <= 255
  BY DEF OneByte

LEMMA WordRange ==
    ASSUME NEW x
    PROVE  x \in OneWord <=> x \in Int /\ 0 <= x /\ x <= 65535
  <1>1. CODES \in Nat
    BY DEF CODES
  <1>2. x \in OneWord <=> x \in Int /\ 0 <= x /\ x <= CODES - 1
    BY <1>1 DEF OneWord
  <1>3. QED BY <1>2 DEF CODES

LEMMA BitType ==
    ASSUME NEW a \in Nat, NEW weight \in WordWeights
    PROVE  a \div weight \in Nat /\ Bit(a, weight) \in {0, 1}
  BY DEF Bit, WordWeights, LowWeights, ByteWeights

\* Halving a quotient doubles the divisor.
LEMMA HalfOfQuotient ==
    ASSUME NEW a \in Nat, NEW weight \in LowWeights
    PROVE  (a \div weight) \div 2 = a \div (2 * weight)
  BY DEF LowWeights, ByteWeights

\* A number and its half.
LEMMA Halves ==
    ASSUME NEW a \in Nat
    PROVE  a = 2 * (a \div 2) + (a % 2)
  OBVIOUS

LEMMA TwoParts ==
    ASSUME NEW b \in {0, 1}, NEW t \in Nat
    PROVE  (b + 2 * t) \div 2 = t /\ (b + 2 * t) % 2 = b /\ b + 2 * t \in Nat
  OBVIOUS

LEMMA NextBit ==
    ASSUME NEW a \in Nat, NEW weight \in LowWeights
    PROVE  Bit(a, weight) = (a \div weight) - 2 * (a \div (2 * weight))
  BY HalfOfQuotient, Halves, BitType DEF Bit, WordWeights

\* A byte is the sum of its bits.
LEMMA ByteIsSum ==
    ASSUME NEW a \in OneByte
    PROVE  a = Bit(a, 1) + 2 * Bit(a, 2) + 4 * Bit(a, 4) + 8 * Bit(a, 8) + 16 * Bit(a, 16)
               + 32 * Bit(a, 32) + 64 * Bit(a, 64) + 128 * Bit(a, 128)
  <1> DEFINE q(weight) == a \div weight
  <1>1. a \in Nat /\ q(1) = a /\ q(256) = 0
    BY DEF OneByte
  <1>2. \A weight \in ByteWeights :
            q(weight) \in Nat /\ Bit(a, weight) = q(weight) - 2 * q(2 * weight)
    BY <1>1, NextBit, BitType DEF LowWeights, WordWeights
  <1> HIDE DEF q
  <1>3. /\ Bit(a, 1) = a - 2 * q(2)         /\ q(2) \in Nat
        /\ Bit(a, 2) = q(2) - 2 * q(4)      /\ q(4) \in Nat
        /\ Bit(a, 4) = q(4) - 2 * q(8)      /\ q(8) \in Nat
        /\ Bit(a, 8) = q(8) - 2 * q(16)     /\ q(16) \in Nat
        /\ Bit(a, 16) = q(16) - 2 * q(32)   /\ q(32) \in Nat
        /\ Bit(a, 32) = q(32) - 2 * q(64)   /\ q(64) \in Nat
        /\ Bit(a, 64) = q(64) - 2 * q(128)  /\ q(128) \in Nat
        /\ Bit(a, 128) = q(128) - 2 * 0
    BY <1>1, <1>2 DEF ByteWeights
  <1>4. QED BY <1>1, <1>3

\* Bytes with the same bits are the same.
LEMMA SameByte ==
    ASSUME NEW a \in OneByte, NEW b \in OneByte,
           \A weight \in ByteWeights : Bit(a, weight) = Bit(b, weight)
    PROVE  a = b
  BY ByteIsSum DEF ByteWeights

\* The bits of a sum of bits.
LEMMA BitsOfSum ==
    ASSUME NEW b1 \in {0, 1}, NEW b2 \in {0, 1}, NEW b4 \in {0, 1}, NEW b8 \in {0, 1},
           NEW b16 \in {0, 1}, NEW b32 \in {0, 1}, NEW b64 \in {0, 1}, NEW b128 \in {0, 1},
           NEW s, s = b1 + 2 * b2 + 4 * b4 + 8 * b8 + 16 * b16 + 32 * b32 + 64 * b64 + 128 * b128
    PROVE  /\ s \in OneByte
           /\ Bit(s, 1) = b1 /\ Bit(s, 2) = b2 /\ Bit(s, 4) = b4 /\ Bit(s, 8) = b8
           /\ Bit(s, 16) = b16 /\ Bit(s, 32) = b32 /\ Bit(s, 64) = b64 /\ Bit(s, 128) = b128
  <1> DEFINE t64 == b64 + 2 * b128
             t32 == b32 + 2 * t64
             t16 == b16 + 2 * t32
             t8  == b8 + 2 * t16
             t4  == b4 + 2 * t8
             t2  == b2 + 2 * t4
  <1>1. b128 \in Nat /\ t64 \in Nat /\ t32 \in Nat /\ t16 \in Nat /\ t8 \in Nat /\ t4 \in Nat /\ t2 \in Nat
    OBVIOUS
  <1>2. s = b1 + 2 * t2 /\ s \in OneByte /\ s \in Nat
    BY DEF OneByte
  <1>3. s \div 1 = s
    BY <1>2
  <1>4. s \div 2 = t2 /\ s % 2 = b1
    <2> HIDE DEF t2
    <2>1. QED BY <1>1, <1>2, TwoParts
  <1>5. s \div 4 = t4 /\ t2 % 2 = b2
    <2>1. (s \div 2) \div 2 = s \div 4
      BY <1>2, HalfOfQuotient DEF LowWeights, ByteWeights
    <2> HIDE DEF t4
    <2>2. QED BY <1>1, <1>4, <2>1, TwoParts
  <1>6. s \div 8 = t8 /\ t4 % 2 = b4
    <2>1. (s \div 4) \div 2 = s \div 8
      BY <1>2, HalfOfQuotient DEF LowWeights, ByteWeights
    <2> HIDE DEF t8
    <2>2. QED BY <1>1, <1>5, <2>1, TwoParts
  <1>7. s \div 16 = t16 /\ t8 % 2 = b8
    <2>1. (s \div 8) \div 2 = s \div 16
      BY <1>2, HalfOfQuotient DEF LowWeights, ByteWeights
    <2> HIDE DEF t16
    <2>2. QED BY <1>1, <1>6, <2>1, TwoParts
  <1>8. s \div 32 = t32 /\ t16 % 2 = b16
    <2>1. (s \div 16) \div 2 = s \div 32
      BY <1>2, HalfOfQuotient DEF LowWeights, ByteWeights
    <2> HIDE DEF t32
    <2>2. QED BY <1>1, <1>7, <2>1, TwoParts
  <1>9. s \div 64 = t64 /\ t32 % 2 = b32
    <2>1. (s \div 32) \div 2 = s \div 64
      BY <1>2, HalfOfQuotient DEF LowWeights, ByteWeights
    <2> HIDE DEF t64
    <2>2. QED BY <1>1, <1>8, <2>1, TwoParts
  <1>10. s \div 128 = b128 /\ t64 % 2 = b64
    <2>1. (s \div 64) \div 2 = s \div 128
      BY <1>2, HalfOfQuotient DEF LowWeights, ByteWeights
    <2>2. QED BY <1>1, <1>9, <2>1, TwoParts
  <1>11. b128 % 2 = b128
    OBVIOUS
  <1> HIDE DEF t2, t4, t8, t16, t32, t64
  <1>12. QED
    BY <1>2, <1>3, <1>4, <1>5, <1>6, <1>7, <1>8, <1>9, <1>10, <1>11 DEF Bit

-----------------------------------------------------------------------------
(* XOR of bytes.                                                           *)

\* The XOR of two bits.
Differ(x, y) == IF x = y THEN 0 ELSE 1

LEMMA XorBitIs ==
    ASSUME NEW a, NEW b, NEW weight \in ByteWeights
    PROVE  XorBit(a, b, weight) = weight * Differ(Bit(a, weight), Bit(b, weight))
  BY DEF XorBit, Differ, Bit, ByteWeights

LEMMA XorByteBits ==
    ASSUME NEW a, NEW b
    PROVE  /\ XorByte(a, b) \in OneByte
           /\ \A weight \in ByteWeights :
                 Bit(XorByte(a, b), weight) = Differ(Bit(a, weight), Bit(b, weight))
  <1> DEFINE d(weight) == Differ(Bit(a, weight), Bit(b, weight))
  <1>1. \A weight \in ByteWeights : d(weight) \in {0, 1}
    BY DEF Differ
  <1>2. \A weight \in ByteWeights : XorBit(a, b, weight) = weight * d(weight)
    BY XorBitIs
  <1> HIDE DEF d
  <1>3. /\ d(1) \in {0, 1} /\ d(2) \in {0, 1} /\ d(4) \in {0, 1} /\ d(8) \in {0, 1}
        /\ d(16) \in {0, 1} /\ d(32) \in {0, 1} /\ d(64) \in {0, 1} /\ d(128) \in {0, 1}
    BY <1>1 DEF ByteWeights
  <1>4. XorByte(a, b) = 1 * d(1) + 2 * d(2) + 4 * d(4) + 8 * d(8) + 16 * d(16) + 32 * d(32)
                        + 64 * d(64) + 128 * d(128)
    BY <1>2 DEF XorByte, ByteWeights
  <1>5. XorByte(a, b) = d(1) + 2 * d(2) + 4 * d(4) + 8 * d(8) + 16 * d(16) + 32 * d(32)
                        + 64 * d(64) + 128 * d(128)
    BY <1>3, <1>4
  <1>6. /\ XorByte(a, b) \in OneByte
        /\ Bit(XorByte(a, b), 1) = d(1) /\ Bit(XorByte(a, b), 2) = d(2)
        /\ Bit(XorByte(a, b), 4) = d(4) /\ Bit(XorByte(a, b), 8) = d(8)
        /\ Bit(XorByte(a, b), 16) = d(16) /\ Bit(XorByte(a, b), 32) = d(32)
        /\ Bit(XorByte(a, b), 64) = d(64) /\ Bit(XorByte(a, b), 128) = d(128)
    BY <1>3, <1>5, BitsOfSum
  <1>7. QED BY <1>6 DEF d, ByteWeights

\* XOR of bytes is commutative, associative, and has the neutral element 0.
LEMMA XorByteSame ==
    ASSUME NEW a \in OneByte, NEW b \in OneByte, NEW c \in OneByte
    PROVE  /\ XorByte(a, b) \in OneByte
           /\ XorByte(a, b) = XorByte(b, a)
           /\ XorByte(XorByte(a, b), c) = XorByte(XorByte(a, c), b)
           /\ XorByte(a, 0) = a
  <1>1. \A weight \in ByteWeights :
            /\ Bit(a, weight) \in {0, 1} /\ Bit(b, weight) \in {0, 1} /\ Bit(c, weight) \in {0, 1}
            /\ Bit(0, weight) = 0
    <2>1. a \in Nat /\ b \in Nat /\ c \in Nat
      BY DEF OneByte
    <2>2. \A weight \in ByteWeights : Bit(0, weight) = 0
      BY DEF Bit, ByteWeights
    <2>3. QED BY <2>1, <2>2, BitType DEF WordWeights, LowWeights
  <1>2. XorByte(a, b) = XorByte(b, a)
    <2>1. \A weight \in ByteWeights : Bit(XorByte(a, b), weight) = Bit(XorByte(b, a), weight)
      BY XorByteBits DEF Differ
    <2>2. QED BY <2>1, XorByteBits, SameByte
  <1>3. XorByte(XorByte(a, b), c) = XorByte(XorByte(a, c), b)
    <2>1. \A weight \in ByteWeights :
              Bit(XorByte(XorByte(a, b), c), weight) = Bit(XorByte(XorByte(a, c), b), weight)
      BY <1>1, XorByteBits DEF Differ
    <2>2. QED BY <2>1, XorByteBits, SameByte
  <1>4. XorByte(a, 0) = a
    <2>1. \A weight \in ByteWeights : Bit(XorByte(a, 0), weight) = Bit(a, weight)
      BY <1>1, XorByteBits DEF Differ
    <2>2. QED BY <2>1, XorByteBits, SameByte
  <1>5. QED BY <1>2, <1>3, <1>4, XorByteBits

\* XOR with the same byte loses nothing.
LEMMA XorByteCancels ==
    ASSUME NEW a \in OneByte, NEW b \in OneByte, NEW c \in OneByte,
           XorByte(a, b) = XorByte(a, c)
    PROVE  b = c
  <1>1. \A weight \in ByteWeights :
            /\ Bit(a, weight) \in {0, 1} /\ Bit(b, weight) \in {0, 1} /\ Bit(c, weight) \in {0, 1}
    BY BitType DEF WordWeights, LowWeights, OneByte
  <1>2. \A weight \in ByteWeights :
            Differ(Bit(a, weight), Bit(b, weight)) = Differ(Bit(a, weight), Bit(c, weight))
    BY XorByteBits
  <1>3. \A weight \in ByteWeights : Bit(b, weight) = Bit(c, weight)
    BY <1>1, <1>2 DEF Differ
  <1>4. QED BY <1>3, SameByte

\* XOR with an error pattern changes a byte.
LEMMA ErrorChanges ==
    ASSUME NEW b \in OneByte, NEW e \in OneByte, e # 0
    PROVE  XorByte(b, e) # b
  <1>1. 0 \in OneByte
    BY DEF OneByte
  <1>2. QED BY <1>1, XorByteSame, XorByteCancels

-----------------------------------------------------------------------------
(* XOR of words: the XOR of their bytes.                                   *)

LEMMA WordParts ==
    ASSUME NEW a \in OneWord
    PROVE  /\ a \div 256 \in OneByte /\ a % 256 \in OneByte
           /\ a = 256 * (a \div 256) + (a % 256)
  <1>1. a \in Int /\ 0 <= a /\ a <= 65535
    BY ByteRange, WordRange
  <1>2. /\ a \div 256 \in Int /\ 0 <= a \div 256 /\ a \div 256 <= 255
        /\ a % 256 \in Int /\ 0 <= a % 256 /\ a % 256 <= 255
        /\ a = 256 * (a \div 256) + (a % 256)
    BY <1>1
  <1>3. QED BY <1>2, ByteRange, WordRange

LEMMA PartsOfWord ==
    ASSUME NEW h \in OneByte, NEW l \in OneByte
    PROVE  /\ l + 256 * h \in OneWord
           /\ (l + 256 * h) \div 256 = h /\ (l + 256 * h) % 256 = l
  <1> DEFINE s == l + 256 * h
  <1>1. h \in Int /\ 0 <= h /\ h <= 255 /\ l \in Int /\ 0 <= l /\ l <= 255
    BY ByteRange, WordRange
  <1>2. s \in Int /\ 0 <= s /\ s <= 65535
    BY <1>1
  <1>3. \A q, r \in Int : 0 <= r /\ r <= 255 /\ s = 256 * q + r => q = h /\ r = l
    BY <1>1
  <1> HIDE DEF s
  <1>4. s \in OneWord
    BY <1>2, ByteRange, WordRange
  <1>5. /\ s \div 256 \in Int /\ s % 256 \in Int
        /\ 0 <= s % 256 /\ s % 256 <= 255
        /\ s = 256 * (s \div 256) + (s % 256)
    BY <1>2
  <1>6. s \div 256 = h /\ s % 256 = l
    BY <1>3, <1>5
  <1>7. QED BY <1>4, <1>6 DEF s

LEMMA XorParts ==
    ASSUME NEW a \in OneWord, NEW b \in OneWord
    PROVE  /\ Xor(a, b) \in OneWord
           /\ Xor(a, b) \div 256 = XorByte(a \div 256, b \div 256)
           /\ Xor(a, b) % 256 = XorByte(a % 256, b % 256)
  <1>1. /\ a % 256 \in OneByte /\ b % 256 \in OneByte
        /\ a \div 256 \in OneByte /\ b \div 256 \in OneByte
    BY WordParts
  <1>2. XorByte(a % 256, b % 256) \in OneByte /\ XorByte(a \div 256, b \div 256) \in OneByte
    BY XorByteBits
  <1>3. QED BY <1>2, PartsOfWord DEF Xor

\* The same for words whose bytes are known by other names.
LEMMA XorOfBytes ==
    ASSUME NEW a, NEW b, NEW ah, NEW al, NEW bh, NEW bl,
           a \div 256 = ah, a % 256 = al, b \div 256 = bh, b % 256 = bl
    PROVE  Xor(a, b) = XorByte(al, bl) + 256 * XorByte(ah, bh)
  BY DEF Xor

LEMMA XorPartsAre ==
    ASSUME NEW a \in OneWord, NEW b \in OneWord, NEW ah, NEW al, NEW bh, NEW bl,
           a \div 256 = ah, a % 256 = al, b \div 256 = bh, b % 256 = bl
    PROVE  /\ Xor(a, b) \in OneWord
           /\ Xor(a, b) \div 256 = XorByte(ah, bh)
           /\ Xor(a, b) % 256 = XorByte(al, bl)
  BY XorParts

\* A word and its bytes determine each other.
LEMMA SameWord ==
    ASSUME NEW a \in OneWord, NEW b \in OneWord,
           a \div 256 = b \div 256, a % 256 = b % 256
    PROVE  a = b
  <1>1. \A h, l : b \div 256 = h /\ b % 256 = l => b = 256 * h + l
    BY WordParts
  <1>2. b = 256 * (a \div 256) + (a % 256)
    BY <1>1
  <1>3. QED BY <1>2, WordParts

\* XOR of words is commutative, associative, and has the neutral element 0.
LEMMA XorSame ==
    ASSUME NEW a \in OneWord, NEW b \in OneWord, NEW c \in OneWord
    PROVE  /\ Xor(a, b) = Xor(b, a)
           /\ Xor(Xor(a, b), c) = Xor(Xor(a, c), b)
           /\ Xor(a, 0) = a
  <1>1. /\ a \div 256 \in OneByte /\ b \div 256 \in OneByte /\ c \div 256 \in OneByte
        /\ a % 256 \in OneByte /\ b % 256 \in OneByte /\ c % 256 \in OneByte
    BY WordParts
  <1>2. 0 \in OneWord /\ 0 \div 256 = 0 /\ 0 % 256 = 0
    BY WordRange
  <1>3. Xor(a, b) = Xor(b, a)
    <2>1. /\ Xor(a, b) \div 256 = Xor(b, a) \div 256
          /\ Xor(a, b) % 256 = Xor(b, a) % 256
      BY <1>1, XorParts, XorByteSame
    <2>2. QED BY <2>1, XorParts, SameWord
  <1>4. Xor(Xor(a, b), c) = Xor(Xor(a, c), b)
    <2>1. /\ Xor(Xor(a, b), c) \div 256 = Xor(Xor(a, c), b) \div 256
          /\ Xor(Xor(a, b), c) % 256 = Xor(Xor(a, c), b) % 256
      BY <1>1, XorParts, XorByteSame
    <2>2. QED BY <2>1, XorParts, SameWord
  <1>5. Xor(a, 0) = a
    <2>1. /\ Xor(a, 0) \in OneWord
          /\ Xor(a, 0) \div 256 = XorByte(a \div 256, 0)
          /\ Xor(a, 0) % 256 = XorByte(a % 256, 0)
      BY <1>2, XorPartsAre
    <2>2. XorByte(a \div 256, 0) = a \div 256 /\ XorByte(a % 256, 0) = a % 256
      BY <1>1, XorByteSame
    <2>3. QED BY <2>1, <2>2, SameWord
  <1>6. QED BY <1>3, <1>4, <1>5

\* The word that has a byte on top of another, and those with one of them only.
LEMMA WordIsXor ==
    ASSUME NEW h \in OneByte, NEW l \in OneByte
    PROVE  /\ h * 256 \in OneWord /\ l \in OneWord
           /\ (h * 256) \div 256 = h /\ (h * 256) % 256 = 0
           /\ l \div 256 = 0 /\ l % 256 = l
           /\ Xor(h * 256, l) = l + 256 * h
  <1>1. h \in Int /\ l \in Int /\ h * 256 = 0 + 256 * h /\ l = l + 256 * 0 /\ 0 \in OneByte
    BY ByteRange
  <1>2. h * 256 \in OneWord /\ (h * 256) \div 256 = h /\ (h * 256) % 256 = 0
    BY <1>1, PartsOfWord
  <1>3. l \in OneWord /\ l \div 256 = 0 /\ l % 256 = l
    <2>1. l + 256 * 0 \in OneWord /\ (l + 256 * 0) \div 256 = 0 /\ (l + 256 * 0) % 256 = l
      BY <1>1, PartsOfWord
    <2>2. l + 256 * 0 = l
      BY <1>1
    <2>3. QED BY <2>1, <2>2
  <1>4. Xor(h * 256, l) = XorByte(0, l) + 256 * XorByte(h, 0)
    BY <1>2, <1>3, XorOfBytes
  <1>5. XorByte(0, l) = l /\ XorByte(h, 0) = h
    BY <1>1, XorByteSame
  <1>6. QED BY <1>2, <1>3, <1>4, <1>5

-----------------------------------------------------------------------------
(* One turn of the loop of tc_CRC16.                                       *)

\* The byte that selects the entry of the table: temp8.
Index(crcCode, byte) == XorByte(crcCode \div 256, byte)
Entry(crcCode, byte) == crc16Table[Index(crcCode, byte) + 1]

LEMMA EntryType ==
    ASSUME NEW crcCode \in OneWord, NEW byte \in OneByte
    PROVE  Index(crcCode, byte) \in OneByte /\ Entry(crcCode, byte) \in OneWord
  BY XorByteBits, TableAssumption DEF Index, Entry

\* crcCode << 8, as a uint16_t.
LEMMA ShiftedCode ==
    ASSUME NEW crcCode \in OneWord
    PROVE  (crcCode * 256) % CODES = (crcCode % 256) * 256
  <1>1. crcCode \in Int /\ 0 <= crcCode /\ crcCode <= 65535
    BY WordRange
  <1>2. (crcCode * 256) % 65536 = (crcCode % 256) * 256
    BY <1>1
  <1>3. QED BY <1>2 DEF CODES

LEMMA StepIs ==
    ASSUME NEW crcCode \in OneWord, NEW byte \in OneByte
    PROVE  CrcStep(crcCode, byte) = Xor(Entry(crcCode, byte), (crcCode % 256) * 256)
  <1>1. \A shifted : (crcCode * 256) % CODES = shifted =>
            CrcStep(crcCode, byte) = Xor(Entry(crcCode, byte), shifted)
    BY DEF CrcStep, Entry, Index
  <1>2. QED BY <1>1, ShiftedCode

\* The low byte of crcCode becomes the high one, the entry gives the new low one.
LEMMA StepParts ==
    ASSUME NEW crcCode \in OneWord, NEW byte \in OneByte
    PROVE  /\ CrcStep(crcCode, byte) \in OneWord
           /\ CrcStep(crcCode, byte) % 256 = Entry(crcCode, byte) % 256
           /\ CrcStep(crcCode, byte) \div 256
                 = XorByte(Entry(crcCode, byte) \div 256, crcCode % 256)
  <1> DEFINE entry == Entry(crcCode, byte)
             low   == crcCode % 256
  <1>1. entry \in OneWord /\ low \in OneByte
    BY EntryType, WordParts
  <1>2. CrcStep(crcCode, byte) = Xor(entry, low * 256)
    BY StepIs
  <1> HIDE DEF entry, low
  <1>3. low * 256 \in OneWord /\ (low * 256) \div 256 = low /\ (low * 256) % 256 = 0
    BY <1>1, WordIsXor
  <1>4. entry % 256 \in OneByte /\ entry \div 256 \in OneByte
    BY <1>1, WordParts
  <1>5. XorByte(entry % 256, 0) = entry % 256
    BY <1>4, XorByteSame
  <1>6. /\ Xor(entry, low * 256) \in OneWord
        /\ Xor(entry, low * 256) % 256 = XorByte(entry % 256, 0)
        /\ Xor(entry, low * 256) \div 256 = XorByte(entry \div 256, low)
    BY <1>1, <1>3, XorPartsAre
  <1>7. QED BY <1>2, <1>5, <1>6 DEF entry, low

\* Entries selected by different bytes leave different low bytes behind.
LEMMA IndexShows ==
    ASSUME NEW c \in OneWord, NEW d \in OneWord, NEW x \in OneByte, NEW y \in OneByte,
           Index(c, x) # Index(d, y)
    PROVE  CrcStep(c, x) % 256 # CrcStep(d, y) % 256
  <1>1. Entry(c, x) % 256 # Entry(d, y) % 256
    BY EntryType, TableAssumption DEF Entry
  <1>2. QED BY <1>1, StepParts

\* What the same byte does to two different codes.
LEMMA DifferenceStays ==
    ASSUME NEW c \in OneWord, NEW d \in OneWord, NEW x \in OneByte, c # d
    PROVE  CrcStep(c, x) # CrcStep(d, x)
  <1>1. /\ c \div 256 \in OneByte /\ c % 256 \in OneByte
        /\ d \div 256 \in OneByte /\ d % 256 \in OneByte
    BY WordParts
  <1>2. CASE Index(c, x) # Index(d, x)
    BY <1>2, IndexShows
  <1>3. CASE Index(c, x) = Index(d, x)
    <2>1. c \div 256 = d \div 256
      <3>1. XorByte(x, c \div 256) = XorByte(x, d \div 256)
        BY <1>1, <1>3, XorByteSame DEF Index
      <3>2. QED BY <1>1, <3>1, XorByteCancels
    <2>2. c % 256 # d % 256
      BY <2>1, SameWord
    <2>3. Entry(c, x) = Entry(d, x) /\ Entry(c, x) \div 256 \in OneByte
      BY <1>3, EntryType, WordParts DEF Entry
    <2>4. CrcStep(c, x) \div 256 # CrcStep(d, x) \div 256
      <3>1. XorByte(Entry(c, x) \div 256, c % 256) # XorByte(Entry(c, x) \div 256, d % 256)
        BY <1>1, <2>2, <2>3, XorByteCancels
      <3>2. QED BY <2>3, <3>1, StepParts
    <2>5. QED BY <2>4
  <1>4. QED BY <1>2, <1>3

\* After a different low byte, no byte makes the codes the same.
LEMMA LowDifferenceStays ==
    ASSUME NEW c \in OneWord, NEW d \in OneWord, NEW x \in OneByte, NEW y \in OneByte,
           c % 256 # d % 256
    PROVE  CrcStep(c, x) # CrcStep(d, y)
  <1>1. c % 256 \in OneByte /\ d % 256 \in OneByte
    BY WordParts
  <1>2. CASE Index(c, x) # Index(d, y)
    BY <1>2, IndexShows
  <1>3. CASE Index(c, x) = Index(d, y)
    <2>1. Entry(c, x) = Entry(d, y) /\ Entry(c, x) \div 256 \in OneByte
      BY <1>3, EntryType, WordParts DEF Entry
    <2>2. XorByte(Entry(c, x) \div 256, c % 256) # XorByte(Entry(c, x) \div 256, d % 256)
      BY <1>1, <2>1, XorByteCancels
    <2>3. CrcStep(c, x) \div 256 # CrcStep(d, y) \div 256
      BY <2>1, <2>2, StepParts
    <2>4. QED BY <2>3
  <1>4. QED BY <1>2, <1>3

\* The first damaged byte shows in the low byte of the code.
LEMMA DamageShows ==
    ASSUME NEW c \in OneWord, NEW x \in OneByte, NEW e \in OneByte, e # 0
    PROVE  CrcStep(c, x) % 256 # CrcStep(c, XorByte(x, e)) % 256
  <1>1. XorByte(x, e) \in OneByte /\ XorByte(x, e) # x /\ c \div 256 \in OneByte
    BY XorByteBits, ErrorChanges, WordParts
  <1>2. Index(c, x) # Index(c, XorByte(x, e))
    BY <1>1, XorByteCancels DEF Index
  <1>3. QED BY <1>1, <1>2, IndexShows

-----------------------------------------------------------------------------
(* The shift register of the reference.                                    *)

\* A byte shifted left by one, with a bit shifted in.
ShiftIn(x, bit) == (2 * x + bit) % 256

\* A bit moves into x at the bottom and one out at the top, and y stays.
MovesOut(x, bit, top, y) == 2 * x + bit = 256 * top + y

\* Each bit of y is the next lower one of x, and the lowest is the given one.
BitsMovedUp(x, bit, y) ==
    /\ Bit(y, 1) = bit
    /\ \A weight \in ByteWeights \ {128} : Bit(y, 2 * weight) = Bit(x, weight)

LEMMA ShiftInBits ==
    ASSUME NEW x \in OneByte, NEW bit \in {0, 1}
    PROVE  /\ ShiftIn(x, bit) \in OneByte
           /\ MovesOut(x, bit, Bit(x, 128), ShiftIn(x, bit))
           /\ BitsMovedUp(x, bit, ShiftIn(x, bit))
  <1> DEFINE b(weight) == Bit(x, weight)
             s == bit + 2 * b(1) + 4 * b(2) + 8 * b(4) + 16 * b(8) + 32 * b(16) + 64 * b(32)
                  + 128 * b(64)
  <1>1. \A weight \in ByteWeights : b(weight) \in {0, 1}
    BY BitType, ByteRange DEF WordWeights, LowWeights
  <1>2. x = b(1) + 2 * b(2) + 4 * b(4) + 8 * b(8) + 16 * b(16) + 32 * b(32) + 64 * b(64)
            + 128 * b(128)
    BY ByteIsSum
  <1> HIDE DEF b
  <1>3. /\ b(1) \in {0, 1} /\ b(2) \in {0, 1} /\ b(4) \in {0, 1} /\ b(8) \in {0, 1}
        /\ b(16) \in {0, 1} /\ b(32) \in {0, 1} /\ b(64) \in {0, 1} /\ b(128) \in {0, 1}
    BY <1>1 DEF ByteWeights
  <1>4. /\ s \in OneByte
        /\ Bit(s, 1) = bit /\ Bit(s, 2) = b(1) /\ Bit(s, 4) = b(2) /\ Bit(s, 8) = b(4)
        /\ Bit(s, 16) = b(8) /\ Bit(s, 32) = b(16) /\ Bit(s, 64) = b(32) /\ Bit(s, 128) = b(64)
    BY <1>3, BitsOfSum
  <1>5. 2 * x + bit = s + 256 * b(128)
    BY <1>2, <1>3
  <1> HIDE DEF s
  <1>6. b(128) \in OneByte
    BY <1>3, ByteRange
  <1>7. ShiftIn(x, bit) = s
    BY <1>4, <1>5, <1>6, PartsOfWord DEF ShiftIn
  <1>8. s + 256 * b(128) = 256 * b(128) + s
    BY <1>3, <1>4, ByteRange
  <1>9. \A weight \in ByteWeights \ {128} : Bit(s, 2 * weight) = b(weight)
    BY <1>4 DEF ByteWeights
  <1>10. BitsMovedUp(x, bit, s)
    BY <1>4, <1>9 DEF BitsMovedUp, b
  <1>11. MovesOut(x, bit, b(128), s)
    BY <1>5, <1>8 DEF MovesOut
  <1>12. QED BY <1>4, <1>7, <1>10, <1>11 DEF b

LEMMA XorOfShifts ==
    ASSUME NEW x \in OneByte, NEW y \in OneByte, NEW c \in {0, 1}, NEW d \in {0, 1}
    PROVE  XorByte(ShiftIn(x, c), ShiftIn(y, d)) = ShiftIn(XorByte(x, y), Differ(c, d))
  <1> DEFINE l == XorByte(ShiftIn(x, c), ShiftIn(y, d))
             r == ShiftIn(XorByte(x, y), Differ(c, d))
  <1>1. XorByte(x, y) \in OneByte /\ Differ(c, d) \in {0, 1}
    BY XorByteBits DEF Differ
  <1>2. Bit(l, 1) = Bit(r, 1)
    <2>1. 1 \in ByteWeights
      BY DEF ByteWeights
    <2>2. Bit(l, 1) = Differ(Bit(ShiftIn(x, c), 1), Bit(ShiftIn(y, d), 1))
      BY <2>1, XorByteBits
    <2>3. QED BY <1>1, <2>2, ShiftInBits DEF BitsMovedUp
  <1>3. \A weight \in ByteWeights \ {128} : Bit(l, 2 * weight) = Bit(r, 2 * weight)
    <2> TAKE weight \in ByteWeights \ {128}
    <2>1. 2 * weight \in ByteWeights
      BY DEF ByteWeights
    <2>2. Bit(l, 2 * weight) = Differ(Bit(ShiftIn(x, c), 2 * weight), Bit(ShiftIn(y, d), 2 * weight))
      BY <2>1, XorByteBits
    <2>3. Bit(l, 2 * weight) = Differ(Bit(x, weight), Bit(y, weight))
      BY <2>2, ShiftInBits DEF BitsMovedUp
    <2>4. Bit(r, 2 * weight) = Bit(XorByte(x, y), weight)
      BY <1>1, ShiftInBits DEF BitsMovedUp
    <2>5. QED BY <2>3, <2>4, XorByteBits
  <1>4. l \in OneByte /\ r \in OneByte
    BY <1>1, XorByteBits, ShiftInBits
  <1> HIDE DEF l, r
  <1>5. \A weight \in ByteWeights : Bit(l, weight) = Bit(r, weight)
    <2>1. /\ Bit(l, 2 * 1) = Bit(r, 2 * 1) /\ Bit(l, 2 * 2) = Bit(r, 2 * 2)
          /\ Bit(l, 2 * 4) = Bit(r, 2 * 4) /\ Bit(l, 2 * 8) = Bit(r, 2 * 8)
          /\ Bit(l, 2 * 16) = Bit(r, 2 * 16) /\ Bit(l, 2 * 32) = Bit(r, 2 * 32)
          /\ Bit(l, 2 * 64) = Bit(r, 2 * 64)
      BY <1>3 DEF ByteWeights
    <2>2. /\ Bit(l, 2) = Bit(r, 2) /\ Bit(l, 4) = Bit(r, 4) /\ Bit(l, 8) = Bit(r, 8)
          /\ Bit(l, 16) = Bit(r, 16) /\ Bit(l, 32) = Bit(r, 32) /\ Bit(l, 64) = Bit(r, 64)
          /\ Bit(l, 128) = Bit(r, 128)
      BY <2>1
    <2>3. QED BY <1>2, <2>2 DEF ByteWeights
  <1>6. l = r
    BY <1>4, <1>5, SameByte
  <1>7. QED BY <1>6 DEF l, r

Double(a) == (a * 2) % CODES

\* The top bit of the low byte is shifted into the high one.
LEMMA DoubleParts ==
    ASSUME NEW a \in OneWord
    PROVE  /\ Double(a) \in OneWord
           /\ Double(a) % 256 = ShiftIn(a % 256, 0)
           /\ Double(a) \div 256 = ShiftIn(a \div 256, Bit(a % 256, 128))
  <1> DEFINE h == a \div 256
             l == a % 256
             t == Bit(l, 128)
             u == Bit(h, 128)
             lo == ShiftIn(l, 0)
             hi == ShiftIn(h, t)
  <1>1. h \in OneByte /\ l \in OneByte /\ a = 256 * h + l
    BY WordParts
  <1> HIDE DEF h, l
  <1>2. t \in {0, 1} /\ u \in {0, 1}
    BY <1>1, BitType, ByteRange DEF WordWeights, LowWeights, ByteWeights
  <1> HIDE DEF t, u
  <1>3. lo \in OneByte /\ MovesOut(l, 0, t, lo)
    BY <1>1, ShiftInBits DEF t
  <1>4. hi \in OneByte /\ MovesOut(h, t, u, hi)
    BY <1>1, <1>2, ShiftInBits DEF u
  <1> HIDE DEF lo, hi
  <1>5. /\ h \in Int /\ l \in Int /\ t \in Int /\ u \in Int
        /\ lo \in Int /\ 0 <= lo /\ lo <= 255
        /\ hi \in Int /\ 0 <= hi /\ hi <= 255
    BY <1>1, <1>2, <1>3, <1>4, ByteRange
  <1>6. a * 2 = 65536 * u + (lo + 256 * hi)
    BY <1>1, <1>3, <1>4, <1>5 DEF MovesOut
  <1>7. (65536 * u + (lo + 256 * hi)) % 65536 = lo + 256 * hi
    BY <1>5
  <1>8. Double(a) = lo + 256 * hi
    BY <1>6, <1>7 DEF Double, CODES
  <1>9. QED BY <1>3, <1>4, <1>8, PartsOfWord DEF lo, hi, h, l, t

LEMMA DoubleOfXor ==
    ASSUME NEW a \in OneWord, NEW b \in OneWord
    PROVE  Double(Xor(a, b)) = Xor(Double(a), Double(b))
  <1> DEFINE x == Xor(a, b)
             al == a % 256
             bl == b % 256
             ah == a \div 256
             bh == b \div 256
  <1>1. x \in OneWord /\ x % 256 = XorByte(al, bl) /\ x \div 256 = XorByte(ah, bh)
    BY XorParts
  <1>2. al \in OneByte /\ bl \in OneByte /\ ah \in OneByte /\ bh \in OneByte
    BY WordParts
  <1>3. /\ Double(a) \in OneWord /\ Double(a) % 256 = ShiftIn(al, 0)
        /\ Double(a) \div 256 = ShiftIn(ah, Bit(al, 128))
        /\ Double(b) \in OneWord /\ Double(b) % 256 = ShiftIn(bl, 0)
        /\ Double(b) \div 256 = ShiftIn(bh, Bit(bl, 128))
        /\ Double(x) \in OneWord /\ Double(x) % 256 = ShiftIn(x % 256, 0)
        /\ Double(x) \div 256 = ShiftIn(x \div 256, Bit(x % 256, 128))
    BY <1>1, DoubleParts
  <1> HIDE DEF x, al, bl, ah, bh
  <1>4. /\ Xor(Double(a), Double(b)) \in OneWord
        /\ Xor(Double(a), Double(b)) % 256 = XorByte(ShiftIn(al, 0), ShiftIn(bl, 0))
        /\ Xor(Double(a), Double(b)) \div 256
              = XorByte(ShiftIn(ah, Bit(al, 128)), ShiftIn(bh, Bit(bl, 128)))
    BY <1>3, XorParts
  <1>5. XorByte(ShiftIn(al, 0), ShiftIn(bl, 0)) = ShiftIn(x % 256, 0)
    <2>1. Differ(0, 0) = 0
      BY DEF Differ
    <2>2. QED BY <1>1, <1>2, <2>1, XorOfShifts
  <1>6. XorByte(ShiftIn(ah, Bit(al, 128)), ShiftIn(bh, Bit(bl, 128)))
           = ShiftIn(x \div 256, Bit(x % 256, 128))
    <2>1. Bit(al, 128) \in {0, 1} /\ Bit(bl, 128) \in {0, 1} /\ 128 \in ByteWeights
      BY <1>2, BitType, ByteRange DEF WordWeights, LowWeights, ByteWeights
    <2>2. Bit(x % 256, 128) = Differ(Bit(al, 128), Bit(bl, 128))
      BY <1>1, <2>1, XorByteBits
    <2>3. QED BY <1>1, <1>2, <2>1, <2>2, XorOfShifts
  <1>7. Double(x) = Xor(Double(a), Double(b))
    BY <1>3, <1>4, <1>5, <1>6, SameWord
  <1>8. QED BY <1>7 DEF x

\* XOR with a number that has no top bit keeps the top bit.
LEMMA TopOfXor ==
    ASSUME NEW a \in OneWord, NEW m \in OneWord, m < 32768
    PROVE  Xor(a, m) >= 32768 <=> a >= 32768
  <1>1. \A x \in OneWord : x >= 32768 <=> Bit(x \div 256, 128) = 1
    <2> TAKE x \in OneWord
    <2>1. x \in Int /\ 0 <= x /\ x <= 65535
      BY WordRange
    <2>2. x >= 32768 <=> x \div 256 >= 128
      BY <2>1
    <2>3. x \div 256 \in Int /\ 0 <= x \div 256 /\ x \div 256 <= 255
      BY <2>1
    <2>4. \A h \in Int : 0 <= h /\ h <= 255 => (h >= 128 <=> (h \div 128) % 2 = 1)
      OBVIOUS
    <2>5. QED BY <2>2, <2>3, <2>4 DEF Bit
  <1>2. Xor(a, m) \in OneWord /\ Xor(a, m) \div 256 = XorByte(a \div 256, m \div 256)
    BY XorParts
  <1>3. 128 \in ByteWeights /\ Bit(a \div 256, 128) \in {0, 1} /\ Bit(m \div 256, 128) \in {0, 1}
    BY WordParts, BitType, ByteRange DEF WordWeights, LowWeights, ByteWeights
  <1>4. Bit(m \div 256, 128) = 0
    <2>1. m \in Int
      BY WordRange
    <2>2. ~(m >= 32768)
      BY <2>1
    <2>3. QED BY <1>1, <1>3, <2>2
  <1>5. Bit(Xor(a, m) \div 256, 128) = Bit(a \div 256, 128)
    BY <1>2, <1>3, <1>4, XorByteBits DEF Differ
  <1>6. QED BY <1>1, <1>2, <1>5

LEMMA ShiftOneIs ==
    ASSUME NEW a \in OneWord
    PROVE  /\ ShiftOne(a) = IF a >= 32768 THEN Xor(Double(a), \h1021) ELSE Double(a)
           /\ ShiftOne(a) \in OneWord
  <1>1. \h1021 \in OneWord
    BY WordRange
  <1>2. CODES \div 2 = 32768
    BY DEF CODES
  <1>3. ShiftOne(a) = IF a >= 32768 THEN Xor(Double(a), \h1021) ELSE Double(a)
    BY <1>2 DEF ShiftOne, Double
  <1>4. QED BY <1>1, <1>3, DoubleParts, XorParts

\* As long as its top bit is 0, what is added to the register is only shifted.
LEMMA ShiftOfXor ==
    ASSUME NEW a \in OneWord, NEW m \in OneWord, m < 32768
    PROVE  ShiftOne(Xor(a, m)) = Xor(ShiftOne(a), 2 * m) /\ 2 * m \in OneWord
  <1>1. Xor(a, m) \in OneWord /\ \h1021 \in OneWord
        /\ Double(a) \in OneWord /\ Double(m) \in OneWord
    BY WordRange, XorParts, DoubleParts
  <1>2. Double(m) = 2 * m
    <2>1. m \in Int /\ 0 <= m
      BY WordRange
    <2>2. (m * 2) % 65536 = 2 * m
      BY <2>1
    <2>3. QED BY <2>2 DEF Double, CODES
  <1>3. Double(Xor(a, m)) = Xor(Double(a), Double(m))
    BY DoubleOfXor
  <1>4. Xor(Xor(Double(a), Double(m)), \h1021) = Xor(Xor(Double(a), \h1021), Double(m))
    BY <1>1, XorSame
  <1>5. Xor(a, m) >= 32768 <=> a >= 32768
    BY TopOfXor
  <1>6. CASE a >= 32768
    <2>1. ShiftOne(Xor(a, m)) = Xor(Double(Xor(a, m)), \h1021)
      BY <1>1, <1>5, <1>6, ShiftOneIs
    <2>2. ShiftOne(a) = Xor(Double(a), \h1021)
      BY <1>6, ShiftOneIs
    <2>3. QED BY <1>1, <1>2, <1>3, <1>4, <2>1, <2>2
  <1>7. CASE ~(a >= 32768)
    <2>1. ShiftOne(Xor(a, m)) = Double(Xor(a, m))
      BY <1>1, <1>5, <1>7, ShiftOneIs
    <2>2. ShiftOne(a) = Double(a)
      BY <1>7, ShiftOneIs
    <2>3. QED BY <1>1, <1>2, <1>3, <2>1, <2>2
  <1>8. QED BY <1>6, <1>7

LEMMA ShiftTwoOfXor ==
    ASSUME NEW a \in OneWord, NEW m \in OneWord, m < 16384
    PROVE  /\ ShiftTwo(Xor(a, m)) = Xor(ShiftTwo(a), 4 * m)
           /\ 4 * m \in OneWord /\ ShiftTwo(a) \in OneWord
  <1>1. m \in Int /\ m < 32768 /\ 2 * m < 32768 /\ 2 * (2 * m) = 4 * m
    BY WordRange
  <1>2. ShiftOne(Xor(a, m)) = Xor(ShiftOne(a), 2 * m) /\ 2 * m \in OneWord
    BY <1>1, ShiftOfXor
  <1>3. ShiftOne(a) \in OneWord /\ ShiftOne(ShiftOne(a)) \in OneWord
    BY ShiftOneIs
  <1>4. /\ ShiftOne(Xor(ShiftOne(a), 2 * m)) = Xor(ShiftOne(ShiftOne(a)), 2 * (2 * m))
        /\ 2 * (2 * m) \in OneWord
    <2> DEFINE b == ShiftOne(a)
               n == 2 * m
    <2>1. b \in OneWord /\ n \in OneWord /\ n < 32768
      BY <1>1, <1>2, <1>3
    <2> HIDE DEF b, n
    <2>2. ShiftOne(Xor(b, n)) = Xor(ShiftOne(b), 2 * n) /\ 2 * n \in OneWord
      BY <2>1, ShiftOfXor
    <2>3. QED BY <2>2 DEF b, n
  <1>5. QED BY <1>1, <1>2, <1>3, <1>4 DEF ShiftTwo

LEMMA ShiftFourOfXor ==
    ASSUME NEW a \in OneWord, NEW m \in OneWord, m < 4096
    PROVE  /\ ShiftFour(Xor(a, m)) = Xor(ShiftFour(a), 16 * m)
           /\ 16 * m \in OneWord /\ ShiftFour(a) \in OneWord
  <1>1. m \in Int /\ m < 16384 /\ 4 * m < 16384 /\ 4 * (4 * m) = 16 * m
    BY WordRange
  <1>2. ShiftTwo(Xor(a, m)) = Xor(ShiftTwo(a), 4 * m) /\ 4 * m \in OneWord /\ ShiftTwo(a) \in OneWord
    BY <1>1, ShiftTwoOfXor
  <1>3. /\ ShiftTwo(Xor(ShiftTwo(a), 4 * m)) = Xor(ShiftTwo(ShiftTwo(a)), 4 * (4 * m))
        /\ 4 * (4 * m) \in OneWord /\ ShiftTwo(ShiftTwo(a)) \in OneWord
    <2> DEFINE b == ShiftTwo(a)
               n == 4 * m
    <2>1. b \in OneWord /\ n \in OneWord /\ n < 16384
      BY <1>1, <1>2
    <2> HIDE DEF b, n
    <2>2. /\ ShiftTwo(Xor(b, n)) = Xor(ShiftTwo(b), 4 * n)
          /\ 4 * n \in OneWord /\ ShiftTwo(b) \in OneWord
      BY <2>1, ShiftTwoOfXor
    <2>3. QED BY <2>2 DEF b, n
  <1>4. QED BY <1>1, <1>2, <1>3 DEF ShiftFour

(* A turn of the loop of tc_CRC16 divides one byte: the entry of the table *)
(* is the remainder of the byte at the top, and the low byte of the        *)
(* register only moves up.                                                 *)
LEMMA StepDivides ==
    ASSUME NEW c \in OneWord, NEW byte \in OneByte
    PROVE  CrcStep(c, byte) = DivideByte(c, byte)
  <1> DEFINE i == Index(c, byte)
             low == c % 256
             top == i * 256
  <1>1. low \in OneByte /\ c \div 256 \in OneByte /\ i \in OneByte
    BY WordParts, EntryType
  <1>2. /\ byte * 256 \in OneWord /\ (byte * 256) \div 256 = byte /\ (byte * 256) % 256 = 0
        /\ top \in OneWord /\ top \div 256 = i /\ top % 256 = 0
        /\ low \in OneWord /\ low \div 256 = 0 /\ low % 256 = low
        /\ Xor(top, low) = low + 256 * i
    BY <1>1, WordIsXor
  <1>3. Xor(c, byte * 256) = low + 256 * i
    <2>1. Xor(c, byte * 256) = XorByte(c % 256, 0) + 256 * XorByte(c \div 256, byte)
      BY <1>2, XorOfBytes
    <2>2. XorByte(c % 256, 0) = low
      BY <1>1, XorByteSame
    <2>3. QED BY <2>1, <2>2 DEF Index
  <1>4. 0 \in OneWord /\ Xor(0, top) = top
    BY <1>2, WordRange, XorSame
  <1> HIDE DEF i, low, top
  <1>5. low \in Int /\ low < 4096 /\ 16 * low < 4096 /\ 16 * (16 * low) = low * 256
    BY <1>1, ByteRange
  <1>6. /\ ShiftFour(Xor(top, low)) = Xor(ShiftFour(top), 16 * low)
        /\ 16 * low \in OneWord /\ ShiftFour(top) \in OneWord
    BY <1>2, <1>5, ShiftFourOfXor
  <1>7. ShiftFour(Xor(ShiftFour(top), 16 * low)) = Xor(ShiftFour(ShiftFour(top)), 16 * (16 * low))
    BY <1>5, <1>6, ShiftFourOfXor
  <1>8. DivideByte(c, byte) = Xor(ShiftFour(ShiftFour(top)), low * 256)
    BY <1>2, <1>3, <1>5, <1>6, <1>7 DEF DivideByte
  <1>9. ShiftFour(ShiftFour(top)) = Entry(c, byte)
    <2>1. DivideByte(0, i) = ShiftFour(ShiftFour(top))
      BY <1>4 DEF DivideByte, top
    <2>2. crc16Table[i + 1] = DivideByte(0, i)
      BY <1>1, TableAssumption
    <2>3. QED BY <2>1, <2>2 DEF Entry, i
  <1>10. QED BY <1>8, <1>9, StepIs DEF low

-----------------------------------------------------------------------------
(* The inductive invariant.  That the codes of the sent and the received   *)
(* message differ is not enough: while the burst may still go on, their    *)
(* low bytes differ, so that no second byte can undo the first.            *)
CrcInvariant ==
    /\ TypeOK
    /\ crc = division
    /\ damaged = {} => crc = received
    /\ damaged # {} => crc # received
    /\ damaged # {} /\ damaged \subseteq {length} => crc % 256 # received % 256

LEMMA InvariantInit == Init => CrcInvariant
  <1> SUFFICES ASSUME Init
               PROVE  CrcInvariant
    OBVIOUS
  <1>1. 0 \in OneWord /\ 0 \in 0 .. MaxLength
    BY WordRange, InputAssumption
  <1>2. QED BY <1>1 DEF Init, CrcInvariant, TypeOK

\* The two runs of tc_CRC16 and the division after one more byte.
LEMMA FeedKeeps ==
    ASSUME CrcInvariant, NEW sent \in OneByte, NEW arrived \in OneByte, Feed(sent, arrived)
    PROVE  /\ crc' = CrcStep(crc, sent) /\ received' = CrcStep(received, arrived)
           /\ crc' \in OneWord /\ received' \in OneWord /\ division' \in OneWord
           /\ crc' = division'
           /\ length \in Nat /\ length' = length + 1 /\ length' \in 0 .. MaxLength
  <1>1. crc \in OneWord /\ received \in OneWord /\ crc = division /\ length \in 0 .. MaxLength
    BY DEF CrcInvariant, TypeOK
  <1>2. /\ crc' = CrcStep(crc, sent) /\ received' = CrcStep(received, arrived)
        /\ division' = DivideByte(division, sent)
        /\ length < MaxLength /\ length' = length + 1
    BY DEF Feed
  <1>3. crc' \in OneWord /\ received' \in OneWord
    BY <1>1, <1>2, StepParts
  <1>4. crc' = division'
    BY <1>1, <1>2, StepDivides
  <1>5. length \in Nat /\ length' \in 0 .. MaxLength
    BY <1>1, <1>2, InputAssumption
  <1>6. QED BY <1>2, <1>3, <1>4, <1>5

LEMMA IntactKeeps ==
    ASSUME CrcInvariant, NEW byte \in InputByte, Intact(byte)
    PROVE  CrcInvariant'
  <1>1. byte \in OneByte /\ Feed(byte, byte) /\ damaged' = damaged
    BY InputAssumption DEF Intact
  <1>2. /\ crc' = CrcStep(crc, byte) /\ received' = CrcStep(received, byte)
        /\ crc' \in OneWord /\ received' \in OneWord /\ division' \in OneWord
        /\ crc' = division'
        /\ length \in Nat /\ length' = length + 1 /\ length' \in 0 .. MaxLength
    BY <1>1, FeedKeeps
  <1>3. damaged \subseteq 1 .. length /\ crc \in OneWord /\ received \in OneWord
    BY DEF CrcInvariant, TypeOK
  <1>4. TypeOK'
    <2>1. 1 .. length \subseteq 1 .. length'
      BY <1>2
    <2>2. QED BY <1>1, <1>2, <1>3, <2>1 DEF TypeOK
  <1>5. damaged = {} => crc' = received'
    BY <1>2 DEF CrcInvariant
  <1>6. damaged # {} => crc' # received'
    BY <1>1, <1>2, <1>3, DifferenceStays DEF CrcInvariant
  <1>7. ~(damaged # {} /\ damaged \subseteq {length'})
    <2>1. length' \notin 1 .. length
      BY <1>2
    <2>2. QED BY <1>3, <2>1
  <1>8. QED BY <1>1, <1>2, <1>4, <1>5, <1>6, <1>7 DEF CrcInvariant

LEMMA CorruptKeeps ==
    ASSUME CrcInvariant, NEW byte \in InputByte, NEW error \in Errors, Corrupt(byte, error)
    PROVE  CrcInvariant'
  <1> DEFINE arrived == XorByte(byte, error)
  <1>1. /\ byte \in OneByte /\ error \in OneByte /\ error # 0 /\ arrived \in OneByte
        /\ Feed(byte, arrived) /\ damaged' = damaged \cup {length + 1} /\ damaged \subseteq {length}
    BY InputAssumption, XorByteBits DEF Corrupt
  <1>2. /\ crc' = CrcStep(crc, byte) /\ received' = CrcStep(received, arrived)
        /\ crc' \in OneWord /\ received' \in OneWord /\ division' \in OneWord
        /\ crc' = division'
        /\ length \in Nat /\ length' = length + 1 /\ length' \in 0 .. MaxLength
    BY <1>1, FeedKeeps
  <1>3. damaged \subseteq 1 .. length /\ crc \in OneWord /\ received \in OneWord
    BY DEF CrcInvariant, TypeOK
  <1>4. TypeOK'
    <2>1. 1 .. length \subseteq 1 .. length' /\ length + 1 \in 1 .. length'
      BY <1>2
    <2>2. damaged' \subseteq 1 .. length'
      BY <1>1, <1>3, <2>1
    <2>3. QED BY <1>2, <2>2 DEF TypeOK
  <1>5. damaged' # {}
    BY <1>1
  <1>6. CASE damaged = {}
    <2>1. crc = received
      BY <1>6 DEF CrcInvariant
    <2>2. CrcStep(crc, byte) % 256 # CrcStep(crc, XorByte(byte, error)) % 256
      BY <1>1, <1>3, DamageShows
    <2>3. received' = CrcStep(crc, XorByte(byte, error))
      BY <1>2, <2>1
    <2>4. crc' % 256 # received' % 256
      BY <1>2, <2>2, <2>3
    <2>5. QED BY <1>2, <1>4, <1>5, <2>4 DEF CrcInvariant
  <1>7. CASE damaged # {}
    <2>1. crc % 256 # received % 256
      BY <1>1, <1>7 DEF CrcInvariant
    <2>2. crc' # received'
      BY <1>1, <1>2, <1>3, <2>1, LowDifferenceStays
    <2>3. ~(damaged' \subseteq {length'})
      <3>1. PICK d \in damaged : d \in 1 .. length
        BY <1>3, <1>7
      <3>2. d # length'
        BY <1>2, <3>1
      <3>3. QED BY <1>1, <3>1, <3>2
    <2>4. QED BY <1>2, <1>4, <1>5, <2>2, <2>3 DEF CrcInvariant
  <1>8. QED BY <1>6, <1>7

LEMMA InvariantStep == CrcInvariant /\ [Next]_vars => CrcInvariant'
  <1>1. ASSUME CrcInvariant, UNCHANGED vars
        PROVE  CrcInvariant'
    BY <1>1 DEF vars, CrcInvariant, TypeOK
  <1>2. QED BY <1>1, IntactKeeps, CorruptKeeps DEF Next

-----------------------------------------------------------------------------
(* For messages of any length over any bytes, with any error burst: the    *)
(* checksum of tc_CRC16 is the remainder of the division, and the burst    *)
(* changes it, in the low byte while it may still go on.                   *)
THEOREM CrcCorrect == Spec => []CrcInvariant
  BY InvariantInit, InvariantStep, PTL DEF Spec

(* crcCode stays a 16-bit word.                                            *)
THEOREM TypeCorrect == Spec => []TypeOK
  <1>1. CrcInvariant => TypeOK
    BY DEF CrcInvariant
  <1>2. QED BY <1>1, CrcCorrect, PTL

(* The table-driven tc_CRC16 computes the CRC with the polynomial          *)
(* x^16 + x^12 + x^5 + 1.                                                  *)
THEOREM TableDivides == Spec => []TableIsTheDivision
  <1>1. CrcInvariant => TableIsTheDivision
    BY DEF CrcInvariant, TableIsTheDivision
  <1>2. QED BY <1>1, CrcCorrect, PTL

(* tc_CRC16 distinguishes a message from one that was damaged within two   *)
(* adjacent bytes, and so does it any extensions of both by the same bytes. *)
THEOREM BurstDetected == Spec => []BurstChangesChecksum
  <1>1. CrcInvariant => BurstChangesChecksum
    BY DEF CrcInvariant, BurstChangesChecksum
  <1>2. QED BY <1>1, CrcCorrect, PTL
=============================================================================
