------------------------------ MODULE Protocol ------------------------------
(***************************************************************************)
(* The packet format (tc-ipc-protocol.h) and the packet tc_package_send    *)
(* builds (tc-package.c).  Bytes are 0..255, words 0..65535, and a block   *)
(* of bytes is a sequence.  An offset of the protocol is counted from 0,   *)
(* as in the code.                                                         *)
(***************************************************************************)
EXTENDS Integers, Sequences

CONSTANT CRC16(_)     \* tc_CRC16(bytes, Len(bytes), 0)

SYNC == 255           \* IPC_SYNC_CODE
START1 == 85          \* IPC_FIRST_START_CODE
START2 == 170         \* IPC_SECOND_START_CODE

\* Mutant of MinPacket: a byte too many.
MinPacketTooLarge == 13

MinPacket == 12       \* IPC_MINIMUM_PACKET_SIZE: header, one data byte, CRC

\* IPC_PROTOCOL_OFFSET; each two-byte field is named by its high byte.
SYNC_OFFSET   == 0
START1_OFFSET == 1
START2_OFFSET == 2
CMD1_OFFSET   == 3
CMD2_OFFSET   == 5
LENGTH_OFFSET == 7
DATA_OFFSET   == 9

WORDS == 65536        \* the number of values of a uint16_t

Byte == 0 .. 255
U16Value == 0 .. WORDS - 1

U16(x) == x % WORDS

High(word) == word \div 256
Low(word)  == word % 256
Word(high, low) == high * 256 + low

NoBuffer == << >>     \* NULL

\* The bytes of the packet of a command pair and a payload, up to the checksum.
\* Without a payload one dummy byte is sent that the length field does not
\* count; the length field holds the length the caller gave, also when it gave
\* no buffer.
HeaderAndBody(cmd1, cmd2, buf, length) ==
    <<SYNC, START1, START2, High(cmd1), Low(cmd1), High(cmd2), Low(cmd2),
      High(length), Low(length)>>
    \o (IF length > 0 /\ buf # NoBuffer THEN SubSeq(buf, 1, length) ELSE <<0>>)

Package(cmd1, cmd2, buf, length) ==
    LET sent == HeaderAndBody(cmd1, cmd2, buf, length)
    IN  sent \o <<High(CRC16(sent)), Low(CRC16(sent))>>

\* The packet of a message, and the messages tc_package_send takes: the commands,
\* the length of the data and the checksum are each a uint16_t.
Packet(m) == Package(m.cmd1, m.cmd2, m.data, Len(m.data))

Sendable(m) ==
    /\ m \in [cmd1 : U16Value, cmd2 : U16Value, data : Seq(Byte)]
    /\ Len(m.data) \in U16Value
    /\ CRC16(HeaderAndBody(m.cmd1, m.cmd2, m.data, Len(m.data))) \in U16Value
=============================================================================
