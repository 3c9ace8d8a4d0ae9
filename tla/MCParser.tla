------------------------------ MODULE MCParser ------------------------------
(***************************************************************************)
(* Parser with the real checksum, the real packet format and a buffer of   *)
(* a few packets.  Three messages: an empty one, one with one data byte,   *)
(* and one whose payload looks like the start of a packet.                 *)
(***************************************************************************)
EXTENDS Parser, TcCrc

Empty   == [cmd1 |-> 1,   cmd2 |-> 2,     data |-> << >>]
Short   == [cmd1 |-> 258, cmd2 |-> 65535, data |-> <<7>>]
Payload == [cmd1 |-> 3,   cmd2 |-> 0,     data |-> <<SYNC, START1, START2>>]

Messages == {Empty, Short, Payload}

\* The checksums of the messages' packets, computed once for all states.
KnownCrc ==
    [bytes \in {HeaderAndBody(m.cmd1, m.cmd2, m.data, Len(m.data)) : m \in Messages} |->
        tc_CRC16(bytes, 0)]

MCCrc(bytes) == IF bytes \in DOMAIN KnownCrc THEN KnownCrc[bytes] ELSE tc_CRC16(bytes, 0)

\* Bytes between packets; none of them is a complete start code.
Noises == {<< >>, <<SYNC>>, <<SYNC, START1>>, <<0, SYNC>>}

\* Packets read one per portion, with noise before them.
Clean(sent, noise) ==
    [kind |-> "whole", chunks |-> [i \in DOMAIN sent |-> noise[i] \o Packet(sent[i])],
     sent |-> sent]

WholeTraffic ==
    {Clean(sent, noise) : sent \in [1 .. 2 -> Messages], noise \in [1 .. 2 -> Noises]}
    \cup {Clean(sent, [i \in 1 .. 3 |-> << >>]) : sent \in [1 .. 3 -> Messages]}

\* Two packets cut at any place, and a third one after them.
SplitTraffic ==
    UNION {LET bytes == Packet(ms[1]) \o Packet(ms[2])
           IN  {[kind   |-> "split",
                 chunks |-> <<SubSeq(bytes, 1, cut), SubSeq(bytes, cut + 1, Len(bytes)),
                              Packet(Short)>>,
                 sent   |-> <<ms[1], ms[2], Short>>] : cut \in 1 .. Len(bytes) - 1} :
           ms \in [1 .. 2 -> Messages]}

\* A packet whose length field was damaged on the line, and good ones until the
\* buffer is full.  The lengths announce less than was sent, a packet that just
\* fits the buffer, one that just does not, and far more.
BadLengths == {2, 37, 38, 300, 65535}

WithLength(packet, length) ==
    [packet EXCEPT ![LENGTH_OFFSET + 1] = High(length), ![LENGTH_OFFSET + 2] = Low(length)]

DamagedTraffic ==
    {[kind   |-> "damaged",
      chunks |-> <<WithLength(Packet(m), length), Packet(Empty), Packet(Short),
                   Packet(Payload), Packet(Short)>>,
      sent   |-> <<m, Empty, Short, Payload, Short>>] :
        m \in Messages, length \in BadLengths}

\* A message sent without its buffer but with its length, then two others.
HollowTraffic ==
    {[kind   |-> "hollow",
      chunks |-> <<Package(9, 9, NoBuffer, length), Packet(m), Packet(Short)>>,
      sent   |-> <<m, Short>>] : m \in Messages, length \in {2, 30}}

\* Two packets cut into two portions at any place of the second one, the end of it
\* read together with a third packet, and a fourth one of the size of the second.
\* No byte is lost.
CutTraffic ==
    LET second == [cmd1 |-> 3, cmd2 |-> 0, data |-> <<1, 2, 3>>]
        last   == [cmd1 |-> 4, cmd2 |-> 5, data |-> <<6, 7, 8>>]
    IN  {[kind   |-> "cut",
          chunks |-> <<Packet(Payload) \o SubSeq(Packet(second), 1, k),
                       SubSeq(Packet(second), k + 1, Len(Packet(second))) \o Packet(Short),
                       Packet(last)>>,
          sent   |-> <<Payload, second, Short, last>>] : k \in 1 .. Len(Packet(second)) - 1}

AllTraffic == WholeTraffic \cup SplitTraffic \cup DamagedTraffic \cup HollowTraffic

BufferSize == 48
=============================================================================
