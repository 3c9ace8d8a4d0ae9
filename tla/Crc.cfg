CONSTANTS
    InputByte <- FewBytes
    Errors <- SomeErrors
    MaxLength = 4
SPECIFICATION Spec
INVARIANTS TypeOK TableIsTheDivision BurstChangesChecksum
CHECK_DEADLOCK FALSE
