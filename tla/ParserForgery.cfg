\* A header outlives the packet it was read from.
CONSTANTS
    MaxSize <- BufferSize
    Traffic <- CutTraffic
    CRC16 <- MCCrc
SPECIFICATION Spec
INVARIANT DeliversOnlySent
CHECK_DEADLOCK FALSE
