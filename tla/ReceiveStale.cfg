\* The free space read before the mutex is taken is out of date when it is used.
CONSTANTS
    MaxBufferSize = 4
    StreamLength = 7
    MaxRead = 3
    Room <- MCRoom
    StoresInOrder = TRUE
SPECIFICATION Spec
INVARIANT NoByteTwice
CHECK_DEADLOCK FALSE
