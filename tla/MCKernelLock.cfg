SPECIFICATION Spec
CONSTANTS
    Cpus = {c1, c2}
    ThreadSet = {t1, t2, t3}
    NoCpu = NoCpu
    NullThread = NullThread
    MaxNest = 3
SYMMETRY Symmetry
INVARIANTS
    MutualExclusion
    DepthIsNesting
    OneCpuPerThread
