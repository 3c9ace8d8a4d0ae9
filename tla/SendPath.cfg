\* Senders and WriteThread; the device may fail and stop being ready.
CONSTANTS
    MaxBufferSize = 4
    StreamLength = 7
    PacketSizes <- MCPacketSizes
    WriteSize = 2
SPECIFICATION FairSpec
INVARIANTS TypeOK PopNeverFails EveryByteAccounted
PROPERTIES ImplementsByteChannel RingDrained
