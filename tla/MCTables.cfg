\* Three batches of two sub-requests for a table of one record; a hash table
\* of three nodes, one bucket and two keys.
CONSTANTS
    Threads = {t1, t2}
    MaxBatch = 3
    Total = 2
    QueCap = 2
    MaxRecords = 1
    LruMax = 3
    LruBuckets = 1
    LruValues = {0, 1}
    LruKeys <- Keys
    LruMaxLost = 1
    LruMaxAfter = 2
SPECIFICATION TablesSpec
INVARIANTS
    TypeOK
    CountedOnce
    AllAccounted
    FullIsOnly
    TableBounded
    LruTypeOK
    LruSound
PROPERTIES
    EvictsWhenCrowded
    EveryBatchAnswered
    LruKeepsPromise
CHECK_DEADLOCK FALSE
