\* Three CPUs, two programs and a kernel thread, with rebalancing.
CONSTANTS
    NumCpus = 3
    i0 = i0
    i1 = i1
    i2 = i2
    UserThreads = {u1, u2}
    KernelThreads = {k1}
    Idle <- MCIdleOf
    WaitQueues = {w1}
    NoThread = NoThread
    NoQueue = NoQueue
    Priorities <- MCPriorities
    InitPriority <- MCInitPriority
    TIMESLICE_REALTIME = 4
    TIMESLICE_HIGH = 3
    TIMESLICE_DEFAULT = 1
    TIMESLICE_LOW = 2
    BoostEnabled = TRUE
    MaxSleep = 1
    MaxWork = 1
SPECIFICATION SchedulerSpec
SYMMETRY MCSymmetry
INVARIANTS LinkedOnce NoThreadLost RunningIsCurrent
