SPECIFICATION FairProcess
CONSTANTS
    Keyboards <- MCKeyboards
    Codes <- MCCodes
    Preferred = {"board"}
    MaxUnread = 2
    ExitDelay = 1
    ShutdownTimeout = 2
    MaxSignals = 2
INVARIANTS
    ForcedOnlyAfterTimeout
PROPERTIES
    QuitIsPhysical
    EndsWhenAsked
CHECK_DEADLOCK FALSE
