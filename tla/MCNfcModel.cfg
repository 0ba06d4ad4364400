SPECIFICATION ModelFairSpec
CONSTANTS
    Identities = {a}
    Contents = {x, y}
    NoTag = NoTag
    PresentConfirmations = 1
    RemoveConfirmations = 1
    RemoveDebounce = 0
    EventCapacity = 1
    Callers = {ui}
    UiThread = ui
    CommandCapacity = 2
    MaxStep = 0
    MaxRuns = 2
    MaxPosts = 2
    MaxSessions = 1
    MaxDropped = 1
    EventsPerTick = 2
INVARIANTS
    ScreenShowsTheTag
    ScreenShowsTheState
PROPERTIES
    ImplementsReaderStatus
    InitializingEnds
    ModelStopReturns
CHECK_DEADLOCK FALSE
