\* The same pool, whatever the threads read in ret_.
CONSTANTS
    OpThreads = {t1, t2, t3}
    OpObjects = {o1, o2, o3, o4}
    OpNull = OpNull
    OpSize = 2
    OpMaxWanted = 3
SYMMETRY PoolSymmetry
SPECIFICATION OpSpec
INVARIANT
    DeletesOnlyRejected
CHECK_DEADLOCK FALSE
