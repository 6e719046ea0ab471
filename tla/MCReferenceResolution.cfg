SPECIFICATION Spec
CONSTANTS
    u = u
    v = v
    w = w
    x = x
    Requests = {r1, r2}
    Texts = {"u", " u", "v", "w", "x", "uuu"}
    Long = {"uuu"}
    Remote = {u}
    Local = {v, w, x}
    Trim <- MCTrim
    Documents <- MCDocuments
    Ids = {1, 2}
    LocalId <- MCLocalId
    Bodies <- MCBodies
    MaxRefs = 3
    Limit = 2
    Budget = 4
    MaxMoves = 1
    Down = Down
    Gone = Gone
    NoRow = NoRow
    Nothing = Nothing
SYMMETRY Symmetry
INVARIANTS
    TypeOK
    OneMeaningPerURI
    MemoryBounded
    OriginIsAuthoritative
    SourcesServed
CHECK_DEADLOCK FALSE
