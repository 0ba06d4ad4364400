SPECIFICATION Spec
CONSTANTS
    Identities = {a, b}
    Contents = {x, y}
    NoTag = NoTag
    PresentConfirmations = 2
    RemoveConfirmations = 3
    RemoveDebounce = 2
    MaxPolls = 6
    MaxStep = 2
SYMMETRY Symmetry
INVARIANTS
    PresentedOnlyIfAgreed
    RemovedOnlyIfAbsent
    FilterIsPrompt
PROPERTY
    ImplementsSessions
CHECK_DEADLOCK FALSE
