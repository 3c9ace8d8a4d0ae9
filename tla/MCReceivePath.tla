--------------------------- MODULE MCReceivePath ---------------------------
(***************************************************************************)
(* ReceivePath with a ring of 4 slots and reads of up to 3 bytes: pushes   *)
(* wrap, fill the ring exactly and overflow it, and the parser takes a     *)
(* part of the ring or all of it.                                          *)
(***************************************************************************)
EXTENDS ReceivePath

MCRoom == {1, 3}
=============================================================================
