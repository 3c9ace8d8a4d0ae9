\* Noise, cut and damaged packets, and packets without their data.
CONSTANTS
    MaxSize <- BufferSize
    Traffic <- AllTraffic
    CRC16 <- MCCrc
SPECIFICATION FairSpec
INVARIANTS TypeOK ReadsOnlyValidBytes HoldsPartialPacket WedgedOnlyByLength WholeInOrder
PROPERTIES WedgeIsPermanent DecoderReturns WholeAllDelivered
CHECK_DEADLOCK FALSE
