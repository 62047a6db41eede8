SPECIFICATION Spec
CONSTANTS
    Cpus = {0, 1}
    ProcSlots = {1, 2, 3}
    ThreadSlots = {1, 2, 3}
    MaxPid = 3
    LateCalls = FALSE
INVARIANTS  NoFreeUnderFoot ExitStatusKept WaiterNotMissed ReapHintCovers
CHECK_DEADLOCK FALSE
