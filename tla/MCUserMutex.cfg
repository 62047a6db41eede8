\* Three threads of one process; the mutex and the condition share a bucket.
\* When every thread waits for a signal the process stops.
CONSTANTS
    p1 = p1
    M = M
    C = C
    Pids = {p1}
    Threads = {t1, t2, t3}
    PidOf <- MCPidOf
    Addrs = {M, C}
    BadAddrs = {}
    Buckets = {0}
    FutexHash <- MCHash
    Words = {0, 1, 2}
    MaxTimeout = 1
    NoAddr = NoAddr
    Forever = Forever
    MaxSeq = 2
    TimedCalls = TRUE
SPECIFICATION SyncSpec
INVARIANTS UserMutualExclusion NoLostWakeup SignalNotLost
SYMMETRY MCSymmetry
CHECK_DEADLOCK FALSE
