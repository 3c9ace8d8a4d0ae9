\* The bytes kept from a cut packet are overwritten by the next fetch.
CONSTANTS
    MaxSize <- BufferSize
    Traffic <- SplitTraffic
    CRC16 <- MCCrc
SPECIFICATION Spec
PROPERTY RemainderKept
CHECK_DEADLOCK FALSE
