\* Five threads on one mutex; two belong to processes that may be killed at any
\* point, one unlocks what it does not hold.  A mutex whose holder was killed
\* stays held, so the system may stop.
CONSTANTS
    Threads = {t1, t2, t3, t4, t5}
    Mortal = {t1, t2}
    Stray = {t3}
    NoThread = NoThread
SPECIFICATION FairSpec
INVARIANTS MutualExclusion NoStrandedWaiter
PROPERTIES WaitersProgress
CHECK_DEADLOCK FALSE
