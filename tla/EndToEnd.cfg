\* Messages sent through the whole system.
CONSTANTS
    MaxSize = 30
    Traffic <- SentTraffic
    CRC16 <- MCCrc
    RingBytes = 28
    WriteSize = 26
    ReadSize = 26
    ReadRingBytes = 36
    MaxFaults = 1
SPECIFICATION FairSystem
INVARIANTS UncutInOrder Resynchronises
PROPERTIES SurvivorsDelivered
CHECK_DEADLOCK FALSE
