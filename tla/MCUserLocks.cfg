\* Four threads of one process that read and write, or wait and post and
\* initialise.  When every thread waits for a post the process stops.
CONSTANTS
    p1 = p1
    L = L
    S = S
    O = O
    RW_WRITER = 8
    InitialCount = 1
    MaxCount = 2
    Pids = {p1}
    Threads = {t1, t2, t3, t4}
    PidOf <- MCPidOf
    Addrs = {L, S, O}
    BadAddrs = {}
    Buckets = {0}
    FutexHash <- MCHash
    Words = {0,1,2,3,4,5,6,7,8,9,10,11,12,13,14,15,16,17,18,19,20,21,22,23,24,25,26,27,28,29,30,31,32}
    MaxTimeout = 1
    NoAddr = NoAddr
    Forever = Forever
SPECIFICATION MCSpec
INVARIANTS ReadersAndWriter ParkedWillWake NoIdleToken OnceIsOnce
SYMMETRY MCSymmetry
CHECK_DEADLOCK FALSE
