------------------------------- MODULE TcCrc --------------------------------
(***************************************************************************)
(* tc_CRC16 (tc-crc.c): the table-driven checksum over the packets.        *)
(***************************************************************************)
EXTENDS Integers, Sequences, SequencesExt

\* crc16Table; the entry for i is at index i + 1.
crc16Table == <<
    \h0000, \h1021, \h2042, \h3063, \h4084, \h50a5, \h60c6, \h70e7, \h8108, \h9129, \ha14a, \hb16b,
    \hc18c, \hd1ad, \he1ce, \hf1ef, \h1231, \h0210, \h3273, \h2252, \h52b5, \h4294, \h72f7, \h62d6,
    \h9339, \h8318, \hb37b, \ha35a, \hd3bd, \hc39c, \hf3ff, \he3de, \h2462, \h3443, \h0420, \h1401,
    \h64e6, \h74c7, \h44a4, \h5485, \ha56a, \hb54b, \h8528, \h9509, \he5ee, \hf5cf, \hc5ac, \hd58d,
    \h3653, \h2672, \h1611, \h0630, \h76d7, \h66f6, \h5695, \h46b4, \hb75b, \ha77a, \h9719, \h8738,
    \hf7df, \he7fe, \hd79d, \hc7bc, \h48c4, \h58e5, \h6886, \h78a7, \h0840, \h1861, \h2802, \h3823,
    \hc9cc, \hd9ed, \he98e, \hf9af, \h8948, \h9969, \ha90a, \hb92b, \h5af5, \h4ad4, \h7ab7, \h6a96,
    \h1a71, \h0a50, \h3a33, \h2a12, \hdbfd, \hcbdc, \hfbbf, \heb9e, \h9b79, \h8b58, \hbb3b, \hab1a,
    \h6ca6, \h7c87, \h4ce4, \h5cc5, \h2c22, \h3c03, \h0c60, \h1c41, \hedae, \hfd8f, \hcdec, \hddcd,
    \had2a, \hbd0b, \h8d68, \h9d49, \h7e97, \h6eb6, \h5ed5, \h4ef4, \h3e13, \h2e32, \h1e51, \h0e70,
    \hff9f, \hefbe, \hdfdd, \hcffc, \hbf1b, \haf3a, \h9f59, \h8f78, \h9188, \h81a9, \hb1ca, \ha1eb,
    \hd10c, \hc12d, \hf14e, \he16f, \h1080, \h00a1, \h30c2, \h20e3, \h5004, \h4025, \h7046, \h6067,
    \h83b9, \h9398, \ha3fb, \hb3da, \hc33d, \hd31c, \he37f, \hf35e, \h02b1, \h1290, \h22f3, \h32d2,
    \h4235, \h5214, \h6277, \h7256, \hb5ea, \ha5cb, \h95a8, \h8589, \hf56e, \he54f, \hd52c, \hc50d,
    \h34e2, \h24c3, \h14a0, \h0481, \h7466, \h6447, \h5424, \h4405, \ha7db, \hb7fa, \h8799, \h97b8,
    \he75f, \hf77e, \hc71d, \hd73c, \h26d3, \h36f2, \h0691, \h16b0, \h6657, \h7676, \h4615, \h5634,
    \hd94c, \hc96d, \hf90e, \he92f, \h99c8, \h89e9, \hb98a, \ha9ab, \h5844, \h4865, \h7806, \h6827,
    \h18c0, \h08e1, \h3882, \h28a3, \hcb7d, \hdb5c, \heb3f, \hfb1e, \h8bf9, \h9bd8, \habbb, \hbb9a,
    \h4a75, \h5a54, \h6a37, \h7a16, \h0af1, \h1ad0, \h2ab3, \h3a92, \hfd2e, \hed0f, \hdd6c, \hcd4d,
    \hbdaa, \had8b, \h9de8, \h8dc9, \h7c26, \h6c07, \h5c64, \h4c45, \h3ca2, \h2c83, \h1ce0, \h0cc1,
    \hef1f, \hff3e, \hcf5d, \hdf7c, \haf9b, \hbfba, \h8fd9, \h9ff8, \h6e17, \h7e36, \h4e55, \h5e74,
    \h2e93, \h3eb2, \h0ed1, \h1ef0 >>

CODES == 65536     \* the number of values of crcCode, a uint16_t

OneByte == 0 .. 255
OneWord == 0 .. CODES - 1

\* The bit of that weight in the XOR of a and b.
XorBit(a, b, weight) == IF (a \div weight) % 2 = (b \div weight) % 2 THEN 0 ELSE weight

\* The XOR of two bytes, and of two words.
XorByte(a, b) ==
    XorBit(a, b, 1) + XorBit(a, b, 2) + XorBit(a, b, 4) + XorBit(a, b, 8)
    + XorBit(a, b, 16) + XorBit(a, b, 32) + XorBit(a, b, 64) + XorBit(a, b, 128)
Xor(a, b) == XorByte(a % 256, b % 256) + 256 * XorByte(a \div 256, b \div 256)

\* Mutants of CrcStep: the low byte selects the entry, crcCode is wider than 16
\* bits, and crcCode is not carried on.
CrcStepLowByte(crcCode, byte) ==
    Xor(crc16Table[XorByte(crcCode % 256, byte) + 1], (crcCode * 256) % CODES)
CrcStepWide(crcCode, byte) ==
    Xor(crc16Table[XorByte(crcCode \div 256, byte) + 1], (crcCode * 256) % CODES)
    + CODES * (crcCode \div 256)
CrcStepForgets(crcCode, byte) == crc16Table[XorByte(crcCode \div 256, byte) + 1]

\* One turn of the loop: temp8 selects the entry, and crcCode is a uint16_t.
CrcStep(crcCode, byte) ==
    LET temp8 == XorByte(crcCode \div 256, byte)
    IN  Xor(crc16Table[temp8 + 1], (crcCode * 256) % CODES)

\* The turn is a function so that TLC evaluates its arguments only once.
tc_CRC16(buffer, init) ==
    LET turn == [crcCode \in OneWord, byte \in OneByte |-> CrcStep(crcCode, byte)]
    IN  FoldLeft(LAMBDA crcCode, byte : turn[crcCode, byte], init, buffer)
=============================================================================
