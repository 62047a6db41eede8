\* Two APs; one tile set that two calls use after each other; two job slots.
\* A process may end and an AP may crash, so the system may stop.
CONSTANTS
    APs = {1, 2}
    Callers = {c1}
    Sets = {1}
    Helpers = {1}
    TileCounts = {1, 2, 3}
    Mixes <- MCMixes
    Jobs = {1, 2}
    Procs = {p1}
    Capacity = 1
    Concurrent = FALSE
    Nobody = Nobody
SPECIFICATION FairSpec
INVARIANTS CallIsWhole 
PROPERTIES CallReturns
CHECK_DEADLOCK FALSE
