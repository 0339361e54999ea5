\* Two threads use a pool of two connections, as two ips or as two of one.
CONSTANTS
    t1 = t1
    t2 = t2
    t3 = t3
    c1 = c1
    c2 = c2
    ExThreads = {t1, t2}
    ExSizes <- Sizes
    ExMaxFails = 0
    ExRoom = 2
    ExMaxParts = 2
    AsyThreads = {t1, t2}
    AsyClients = {c1, c2}
    AsyFds = {3, 4}
    AsyMaxSeq = 3
    AsyMaxRecord = 1
    AsyQueue = 1
    CliThreads = {t1, t2, t3}
    CliNobody = none
    CliFds = {3, 4}
    CliSlotCount = 2
    CliServers = 3
    CliBad = {1}
SYMMETRY Symmetry
SPECIFICATION Spec
INVARIANTS
    ConnectionsTypeOK
    ExConnectionHeld
    ExOwnAnswer
    AsyOnlyOwner
    AsyOneConnection
    AsyRecordFirst
    CliSound
CHECK_DEADLOCK FALSE
