SPECIFICATION ContentSpec
CONSTANTS
    BlockBytes = 4
    PageBytes = 1
    FirstPage = 4
    LastPage = 16
    CapacityUnit = 4
    MaxCapacity = 16
    MaxLevels = 3
    NoCachedTag = NoCachedTag
    NobodysBytes = NobodysBytes
    Messages <- MCMessages
    Fields <- MCFields
INVARIANTS
    ParsesWhatWasWritten
    ReportsOneTag
    ReadsWhatWasWritten
    RecordsAreTheTags
    MissHasCause
CHECK_DEADLOCK FALSE
