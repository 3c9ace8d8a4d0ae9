---------------------------- MODULE MCRingBuffer ----------------------------
(***************************************************************************)
(* RingBuffer on a ring of MCSize slots, blocks of up to MCSize - 1 bytes  *)
(* and a two-letter alphabet: every pair of positions, every wrap of a     *)
(* block and every amount of overflow occurs.                              *)
(***************************************************************************)
EXTENDS RingBuffer

MCSize == 4
MCBlock == 3
MCByte == {0, 1}
MCBlank == 0
=============================================================================
