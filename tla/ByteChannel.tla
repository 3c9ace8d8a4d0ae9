----------------------------- MODULE ByteChannel -----------------------------
(***************************************************************************)
(* What the sending side promises its callers: a bounded queue of bytes    *)
(* in front of the line.  It may lose the oldest waiting bytes when it     *)
(* overflows, and the rest of the bytes it is transmitting when the device *)
(* takes only some of them.  It loses nothing else, and it never repeats,  *)
(* reorders or invents a byte.                                             *)
(*                                                                         *)
(* Bytes are numbered 1, 2, 3, ... in the order in which they are accepted. *)
(***************************************************************************)
EXTENDS Integers, Sequences

CONSTANTS Capacity,   \* the number of bytes that can wait
          Blocks,     \* the sizes of the blocks accepted
          MaxChunk    \* the most bytes taken for one transmission

VARIABLES accepted,   \* how many bytes have been accepted
          waiting,    \* the bytes in the queue
          flight,     \* the bytes taken for transmission
          out         \* the bytes on the line

vars == <<accepted, waiting, flight, out>>

Newest(s, n) == IF Len(s) <= n THEN s ELSE SubSeq(s, Len(s) - n + 1, Len(s))

Numbered(from, n) == [i \in 1 .. n |-> from + i]

Init ==
    /\ accepted = 0
    /\ waiting = << >> /\ flight = << >> /\ out = << >>

Accept(n) ==
    /\ waiting' = Newest(waiting \o Numbered(accepted, n), Capacity)
    /\ accepted' = accepted + n
    /\ UNCHANGED <<flight, out>>

Take(n) ==
    /\ flight = << >>
    /\ n <= Len(waiting)
    /\ flight' = SubSeq(waiting, 1, n)
    /\ waiting' = SubSeq(waiting, n + 1, Len(waiting))
    /\ UNCHANGED <<accepted, out>>

\* The device takes the first n bytes of the transmission.
Transmit(n) ==
    /\ n <= Len(flight)
    /\ out' = out \o SubSeq(flight, 1, n)
    /\ flight' = << >>
    /\ UNCHANGED <<accepted, waiting>>

Next ==
    \/ \E n \in Blocks : Accept(n)
    \/ \E n \in 1 .. MaxChunk : Take(n)
    \/ \E n \in 0 .. MaxChunk : Transmit(n)

Spec == Init /\ [][Next]_vars
=============================================================================
