\* One PriProAck object, two requests at most.
CONSTANTS
    Fds = {f1}
    Workers = {w1}
    Peers = {p1}
    QueCap = 2
    ReqPoolSize = 4
    AckPoolSize = 1
    PipeCap = 2
    UseTimer = FALSE
    SeqMod = 2
    MaxConns = 0
    MaxReqs = 2
    MaxBatch = 1
SPECIFICATION Spec
INVARIANT
    EveryRequestCounted
CHECK_DEADLOCK FALSE
