----------------------------- MODULE ByteQueue ------------------------------
(***************************************************************************)
(* What TC_RINGBUF promises the code that uses it: a bounded first-in      *)
(* first-out queue of bytes.  A plain push of a block that does not fit is *)
(* refused, an overwriting one drops the oldest bytes, and a pop takes the *)
(* whole block it asks for or nothing.                                     *)
(*                                                                         *)
(* result is the outcome of the last operation: the value the C function   *)
(* returns and the bytes it hands to its caller.                           *)
(***************************************************************************)
EXTENDS Integers, Sequences

CONSTANTS Byte,       \* the values a byte takes
          Capacity,   \* the number of bytes the queue can hold
          MaxBlock    \* the size of the largest block pushed or popped

VARIABLES queue, result

vars == <<queue, result>>

OK    == 0
ERROR == -1
FULL  == -2
EMPTY == -3

Block == UNION {[1 .. n -> Byte] : n \in 0 .. MaxBlock}

Returns(ret, bytes) == result' = [ret |-> ret, bytes |-> bytes]

\* The last n elements of s.
Newest(s, n) == SubSeq(s, Len(s) - n + 1, Len(s))

Drop(n) == SubSeq(queue, n + 1, Len(queue))

-----------------------------------------------------------------------------
Init ==
    /\ queue = << >>
    /\ result = [ret |-> OK, bytes |-> << >>]

\* A push that fits; it returns ret.
Enqueue(bytes, ret) ==
    /\ Len(queue) + Len(bytes) <= Capacity
    /\ queue' = queue \o bytes
    /\ Returns(ret, << >>)

\* A push that does not fit and changes nothing.
Refuse(bytes) ==
    /\ Len(queue) + Len(bytes) > Capacity
    /\ Returns(FULL, << >>)
    /\ UNCHANGED queue

\* A push that does not fit and drops the oldest bytes.
Replace(bytes, ret) ==
    /\ Len(queue) + Len(bytes) > Capacity
    /\ queue' = Newest(queue \o bytes, Capacity)
    /\ Returns(ret, << >>)

Take(n) ==
    /\ queue # << >>
    /\ n <= Len(queue)
    /\ queue' = Drop(n)
    /\ Returns(OK, SubSeq(queue, 1, n))

\* A pop of more than there is: EMPTY when there is nothing, ERROR otherwise.
TakeNothing(n) ==
    /\ queue = << >> \/ n > Len(queue)
    /\ Returns(IF queue = << >> THEN EMPTY ELSE ERROR, << >>)
    /\ UNCHANGED queue

\* Bytes thrown away from the front; it has no result.
Discard(n) ==
    /\ n <= Len(queue)
    /\ queue' = Drop(n)
    /\ Returns(OK, << >>)

Next ==
    \/ \E bytes \in Block : \E ret \in {OK, Len(bytes)} :
            Enqueue(bytes, ret) \/ Replace(bytes, ret)
    \/ \E bytes \in Block : Refuse(bytes)
    \/ \E n \in 0 .. MaxBlock : Take(n) \/ TakeNothing(n)
    \/ \E n \in 0 .. Len(queue) : Discard(n)

Spec == Init /\ [][Next]_vars
=============================================================================
