\* Both threads, stores seen in program order.
CONSTANTS
    MaxBufferSize = 4
    StreamLength = 7
    MaxRead = 3
    Room <- MCRoom
    StoresInOrder = TRUE
SPECIFICATION FairSpec
INVARIANTS TypeOK PushNeverRefused PopNeverFails RingHoldsNewest LossOnlyByOverflow RepeatsOnlyAfterStaleCheck
PROPERTIES NoTornPop ImplementsByteStream NewestTaken
CHECK_DEADLOCK FALSE
