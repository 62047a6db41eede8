\* Two processes whose words at one address are in different buckets.  Every
\* process may end, so the system may stop.
CONSTANTS
    t1 = t1
    t2 = t2
    t3 = t3
    p1 = p1
    p2 = p2
    a1 = a1
    a2 = a2
    Pids = {p1, p2}
    Threads = {t1, t2, t3}
    PidOf <- MCPidOf
    Addrs = {a1, a2}
    BadAddrs = {bad}
    Buckets = {0, 1}
    FutexHash <- MCHash
    Words = {0, 1}
    MaxTimeout = 1
    NoAddr = NoAddr
    Forever = Forever
SPECIFICATION FairSpec
 
PROPERTIES WakeIsNotTimeout TimedWaitEnds
CHECK_DEADLOCK FALSE
