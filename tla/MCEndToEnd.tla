----------------------------- MODULE MCEndToEnd -----------------------------
(***************************************************************************)
(* EndToEnd with the messages of MCParser, three or four of them.  The     *)
(* write ring overflows with the third packet in it, in the middle of a    *)
(* packet or, when packets have the same size, between two; writes, reads  *)
(* and fetches cut a packet or not; the read ring is larger than the       *)
(* decoder's buffer and smaller than all packets together.                 *)
(***************************************************************************)
EXTENDS EndToEnd, MCParser

\* A message whose packet has the size of Payload's.
Other == [cmd1 |-> 4, cmd2 |-> 5, data |-> <<6, 7, 8>>]

SentTraffic ==
    {[kind |-> "sent", chunks |-> << >>, sent |-> sent,
      packets |-> [i \in DOMAIN sent |-> Packet(sent[i])]] :
        sent \in {<<Short, Payload, Empty>>, <<Empty, Short, Payload>>,
                <<Payload, Payload, Short, Other>>}}
=============================================================================
