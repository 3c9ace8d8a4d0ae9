----------------------------- MODULE MCSendPath -----------------------------
(***************************************************************************)
(* SendPath with a ring of 4 slots, packets of 1 and 3 bytes and writes of *)
(* up to 2: packets wrap, fill the ring exactly, overflow it and are       *)
(* written in several chunks, and the size a pop was computed for becomes  *)
(* stale by pushes that fit and by pushes that overwrite.                  *)
(***************************************************************************)
EXTENDS SendPath

MCPacketSizes == {1, 3}
=============================================================================
