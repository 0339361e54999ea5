\* One descriptor used by two connections in turn, two workers.
CONSTANTS
    Fds = {f1}
    Workers = {w1, w2}
    Peers = {}
    QueCap = 1
    ReqPoolSize = 4
    AckPoolSize = 2
    PipeCap = 2
    UseTimer = FALSE
    SeqMod = 2
    MaxConns = 2
    MaxReqs = 3
    MaxBatch = 2
SYMMETRY WorkerSymmetry
SPECIFICATION Spec
INVARIANTS
    TypeOK
    AckOwnedOnce
    ReqConserved
    ReplyToAsker
    PutqOwnsAck
    BusinessCounted
PROPERTIES
    DropsOnlyOrphans
    ImplementsService
CHECK_DEADLOCK FALSE
