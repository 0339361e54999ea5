\* One descriptor, a UDP client and two workers; every thread keeps running.
CONSTANTS
    Fds = {f1}
    Workers = {w1, w2}
    Peers = {p1}
    QueCap = 1
    ReqPoolSize = 4
    AckPoolSize = 2
    PipeCap = 2
    UseTimer = FALSE
    SeqMod = 2
    MaxConns = 2
    MaxReqs = 2
    MaxBatch = 2
SPECIFICATION FairSpec
PROPERTY
    EveryRequestSettled
CHECK_DEADLOCK FALSE
