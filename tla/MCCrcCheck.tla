----------------------------- MODULE MCCrcCheck -----------------------------
(***************************************************************************)
(* CrcCheck with five byte values, chosen so that messages of up to four   *)
(* of them use every entry of the table, and errors of one or more bits.   *)
(***************************************************************************)
EXTENDS CrcCheck

FewBytes == {0, 1, 85, 170, 255}
SomeErrors == {1, 2, 16, 128, 129, 255}
=============================================================================
