\* A handle with a failure of every step of open; it ends closed or failed.
CONSTANTS
    MaxMessages = 2
    PacketSize = 3
    RingBytes = 5
    WriteSize = 2
SPECIFICATION FairSpec
INVARIANTS TypeOK MemoryOutlivesThreads DeviceOutlivesThreads JoinsOnlyCreated OpenServes CloseReleasesAll
PROPERTIES CloseEnds SentLeavesRing
CHECK_DEADLOCK FALSE
