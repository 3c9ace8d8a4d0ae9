----------------------------- MODULE ByteStream -----------------------------
(***************************************************************************)
(* What the receiving side promises the decoder: a bounded queue of bytes  *)
(* behind the line.  A block that does not fit may push out the oldest     *)
(* bytes waiting; and once the queue has been filled by force, what waits  *)
(* is the newest of all bytes accepted, those that were taken before       *)
(* included.  What is taken is always the front of the queue, in order.    *)
(*                                                                         *)
(* Bytes are numbered 1, 2, 3, ... in the order in which they are accepted. *)
(***************************************************************************)
EXTENDS Integers, Sequences

CONSTANTS Capacity,   \* the number of bytes that can wait
          MaxBlock    \* the most bytes accepted at once

VARIABLES accepted,   \* how many bytes have been accepted
          waiting,    \* the bytes in the queue
          got         \* the bytes taken, in order

vars == <<accepted, waiting, got>>

Numbered(from, n) == [i \in 1 .. n |-> from + i]

Init == accepted = 0 /\ waiting = << >> /\ got = << >>

Accept(n) ==
    /\ Len(waiting) + n <= Capacity
    /\ waiting' = waiting \o Numbered(accepted, n)
    /\ accepted' = accepted + n
    /\ UNCHANGED got

\* The queue is full of the newest bytes, whatever waited before.
Force(n) ==
    /\ accepted + n >= Capacity
    /\ waiting' = Numbered(accepted + n - Capacity, Capacity)
    /\ accepted' = accepted + n
    /\ UNCHANGED got

Take(n) ==
    /\ n <= Len(waiting)
    /\ got' = got \o SubSeq(waiting, 1, n)
    /\ waiting' = SubSeq(waiting, n + 1, Len(waiting))
    /\ UNCHANGED accepted

Next ==
    \/ \E n \in 1 .. MaxBlock : Accept(n) \/ Force(n)
    \/ \E n \in 1 .. Capacity : Take(n)

Spec == Init /\ [][Next]_vars
=============================================================================
