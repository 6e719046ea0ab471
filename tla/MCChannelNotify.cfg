SPECIFICATION Spec
CONSTANTS
    r1 = r1
    r2 = r2
    c1 = c1
    c2 = c2
    p1 = p1
    Requests = {r1, r2}
    Channels = {c1, c2}
    Playlists = {p1}
    Clients = {k1, k2}
    Concurrency = 1
    None = None
    Ops <- MCOps
    Start <- MCStart
INVARIANTS
    TypeOK
    ConsumersCatchUp
    TagTellsChange
SYMMETRY Symmetry
CHECK_DEADLOCK FALSE
