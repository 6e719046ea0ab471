SPECIFICATION FairSpec
CONSTANTS
    Records = {p1, p2, p3}
    Flushes = {f1}
    Closes = {c1}
    Sizes = {1, 3}
    BatchSize = 2
    QueueSize = 2
    MaxBatchBytes = 5
    MaxQueueBytes = 4
    Nobody = Nobody
INVARIANTS
    TypeOK
    LimitsKept
    EachRecordOnceInOrder
    FlushedMeansSent
PROPERTIES
    ImplementsPipe
    CloseCompletes
CHECK_DEADLOCK FALSE
