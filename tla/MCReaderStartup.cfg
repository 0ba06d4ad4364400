SPECIFICATION StartupSpec
CONSTANTS
    Procs = {p, q}
    Me = p
    MaxCalls = 2
    None = None
INVARIANTS
    LeavesMachineClean
    LinesInOrder
    LoadedOnce
    LockEndsWithStage
CHECK_DEADLOCK FALSE
