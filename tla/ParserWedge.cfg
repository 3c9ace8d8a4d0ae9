\* A length field beyond the protocol's maximum stops the parser for good.
CONSTANTS
    MaxSize <- BufferSize
    Traffic <- DamagedTraffic
    CRC16 <- MCCrc
SPECIFICATION Spec
INVARIANT NeverWedged
CHECK_DEADLOCK FALSE
