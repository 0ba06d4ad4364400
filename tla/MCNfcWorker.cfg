SPECIFICATION Spec
CONSTANTS
    Identities = {a, b}
    Contents = {x}
    NoTag = NoTag
    PresentConfirmations = 2
    RemoveConfirmations = 1
    RemoveDebounce = 0
    EventCapacity = 1
    Callers = {c1, c2}
    CommandCapacity = 2
    MaxStep = 0
    MaxRuns = 2
    MaxPosts = 3
    MaxSessions = 2
    MaxDropped = 1
SYMMETRY Symmetry
INVARIANTS
    NoLostWakeup
    RetryHasOwner
    InStepAndAtRest
PROPERTIES
    AnnouncesSessions
