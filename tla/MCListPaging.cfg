SPECIFICATION Spec
CONSTANTS
    Versions <- MCVersions
    Batches <- MCBatches
    Documents <- MCDocuments
    Limit = 1
    MaxTime = 2
    MaxWrites = 3
INVARIANTS
    TypeOK
    NothingSkipped
    NothingRepeated
    OneDocument
    RefusedOnlyAfterWrite
CHECK_DEADLOCK FALSE
