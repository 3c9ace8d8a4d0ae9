\* RingBuffer implements ByteQueue.
CONSTANTS
    MaxBufferSize <- MCSize
    MaxBlock <- MCBlock
    Byte <- MCByte
    Blank <- MCBlank
SPECIFICATION Spec
INVARIANT TypeOK
PROPERTY ImplementsByteQueue
