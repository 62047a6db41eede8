\* Two CPUs, equal priorities, no rebalancing.
CONSTANTS
    NumCpus = 2
    i0 = i0
    i1 = i1
    i2 = i2
    UserThreads = {u1, u2}
    KernelThreads = {k1}
    Idle <- MCIdleOf
    WaitQueues = {w1}
    NoThread = NoThread
    NoQueue = NoQueue
    Priorities <- MCPriorities
    InitPriority <- MCEqualPriority
    TIMESLICE_REALTIME = 4
    TIMESLICE_HIGH = 3
    TIMESLICE_DEFAULT = 2
    TIMESLICE_LOW = 2
    BoostEnabled = FALSE
    MaxSleep = 1
    MaxWork = 1
SPECIFICATION FairSpec
PROPERTIES NobodyStarves WorkGetsItsCpu
