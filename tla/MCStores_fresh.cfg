\* Two threads on two connections.
CONSTANTS
    t1 = t1
    t2 = t2
    t3 = t3
    p1 = p1
    p2 = p2
    a1 = a1
    a2 = a2
    a3 = a3
    DbThreads = {t1, t2}
    DbConnNums = 2
    DbMaxFails = 0
    DbStatements = 2
    DmThreads = {t1, t2}
    DmObjects = {o1, o2, o3}
    DmNull = DmNull
    DmConnCount = 2
    DmQueryCount = 2
    OrThreads = {t1, t2, t3}
    OrConnNums = 2
    BmProcs = {p1, p2}
    BmMaxUin <- MaxUins
    BmByte = 2
    FrMax = 7
    FrField = 2
    FrModes = {"text", "len", "bin", "ctext", "clen"}
    FrStreams <- Streams
    OpThreads = {t1, t2}
    OpObjects = {a1, a2, a3}
    OpNull = OpNull
    OpSize = 2
    OpMaxWanted = 3
    AppMaxChildren = 2
    AppNums = {0, 2}
SYMMETRY ThreadSymmetry
SPECIFICATION Spec
INVARIANT
    DmFreshKept
CHECK_DEADLOCK FALSE
