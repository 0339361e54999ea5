\* A notification pipe with room for one notification.
CONSTANTS
    Fds = {f1}
    Workers = {w1, w2}
    Peers = {p1}
    QueCap = 2
    ReqPoolSize = 4
    AckPoolSize = 3
    PipeCap = 1
    UseTimer = FALSE
    SeqMod = 2
    MaxConns = 0
    MaxReqs = 3
    MaxBatch = 1
SPECIFICATION Spec
INVARIANT
    NotifyNeverBlocksReactor
CHECK_DEADLOCK FALSE
