------------------------------ MODULE CrcCheck ------------------------------
(***************************************************************************)
(* tc_CRC16 next to the bit-by-bit definition of the CRC with polynomial   *)
(* x^16 + x^12 + x^5 + 1 that its table is meant to speed up.  The state   *)
(* machine runs both over a message, and tc_CRC16 over a copy of it that   *)
(* the line may corrupt in one place.                                      *)
(***************************************************************************)
EXTENDS TcCrc

CONSTANTS InputByte,    \* the bytes a message is made of
          Errors,       \* the non-zero patterns the line may XOR onto a byte
          MaxLength     \* bound: the length of the longest message

ASSUME InputAssumption ==
    /\ InputByte \subseteq OneByte
    /\ Errors \subseteq OneByte \ {0}
    /\ MaxLength \in Nat

(* Reference: a byte enters at the top of the register, which is then      *)
(* shifted out bit by bit, subtracting the polynomial 0x1021 when the bit  *)
(* that leaves is 1.                                                       *)

ShiftOne(register) ==
    LET doubled == (register * 2) % CODES
    IN  IF register >= CODES \div 2 THEN Xor(doubled, \h1021) ELSE doubled

ShiftTwo(register)  == ShiftOne(ShiftOne(register))
ShiftFour(register) == ShiftTwo(ShiftTwo(register))

DivideByte(register, byte) == ShiftFour(ShiftFour(Xor(register, byte * 256)))

(* The 256 entries of the table, all of which TLC evaluates here: an entry *)
(* is the remainder of its own index, and no two end in the same byte.     *)
ASSUME TableAssumption ==
    /\ \A i \in OneByte : crc16Table[i + 1] \in OneWord
    /\ \A i \in OneByte : crc16Table[i + 1] = DivideByte(0, i)
    /\ \A i, j \in OneByte : i # j => crc16Table[i + 1] % 256 # crc16Table[j + 1] % 256

-----------------------------------------------------------------------------
VARIABLES crc,       \* tc_CRC16 of the bytes sent so far
          division,  \* the remainder of the division of the same bytes
          received,  \* tc_CRC16 of the bytes as they arrived
          length,    \* how many bytes were sent
          damaged    \* positions of the corrupted bytes

vars == <<crc, division, received, length, damaged>>

TypeOK ==
    /\ crc \in OneWord /\ division \in OneWord /\ received \in OneWord
    /\ length \in 0 .. MaxLength
    /\ damaged \subseteq 1 .. length

Init == crc = 0 /\ division = 0 /\ received = 0 /\ length = 0 /\ damaged = {}

Feed(sent, arrived) ==
    /\ length < MaxLength
    /\ crc' = CrcStep(crc, sent)
    /\ division' = DivideByte(division, sent)
    /\ received' = CrcStep(received, arrived)
    /\ length' = length + 1

\* A byte that arrives as it was sent.
Intact(byte) ==
    /\ Feed(byte, byte)
    /\ UNCHANGED damaged

\* An error burst spans at most two adjacent bytes.
Corrupt(byte, error) ==
    /\ damaged \subseteq {length}
    /\ Feed(byte, XorByte(byte, error))
    /\ damaged' = damaged \cup {length + 1}

Next ==
    \E byte \in InputByte :
        \/ Intact(byte)
        \/ \E error \in Errors : Corrupt(byte, error)

Spec == Init /\ [][Next]_vars

(* The table, and the way tc_CRC16 indexes it, compute the remainder of    *)
(* the division by the polynomial, for every message; that a wrong entry   *)
(* cannot hide, the messages must use all of them.                         *)
TableIsTheDivision == crc = division

(* Whatever is damaged within two adjacent bytes changes the checksum of   *)
(* the message and of every extension of it.  The comparison of crcSrc and *)
(* crcDst in tc_parser_decoder cannot miss it when the length field is     *)
(* intact; a damaged length moves the range that is compared, and of that  *)
(* this says nothing.                                                      *)
BurstChangesChecksum == damaged # {} => crc # received
=============================================================================
