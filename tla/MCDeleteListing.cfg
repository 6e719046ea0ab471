SPECIFICATION FairSpec
CONSTANTS
    Deletes = {d1, d2}
    Channels = {c1, c2}
    PoolSize = 2
    Nobody = Nobody
INVARIANTS
    TypeOK
    ConnectionsAccounted
    ListingCoversCascade
PROPERTIES
    EveryRequestReturns
CHECK_DEADLOCK FALSE
