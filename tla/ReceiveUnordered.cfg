\* The stores of the unlocked push become visible in any order.
CONSTANTS
    MaxBufferSize = 4
    StreamLength = 7
    MaxRead = 3
    Room <- MCRoom
    StoresInOrder = FALSE
SPECIFICATION Spec
INVARIANT LossOnlyByOverflow
CHECK_DEADLOCK FALSE
