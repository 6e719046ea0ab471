SPECIFICATION Spec
CONSTANTS
    Versions <- CopyVersions
    Batches <- CopyBatches
    Documents <- MCDocuments
    Limit = 1
    MaxTime = 2
    MaxWrites = 2
INVARIANT NoItemSkipped
CHECK_DEADLOCK FALSE
