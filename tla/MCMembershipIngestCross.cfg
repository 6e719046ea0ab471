SPECIFICATION Spec
CONSTANTS
    s = s
    t = t
    w = w
    Requests = {r1, r2}
    Playlists = {1, 2, 3, 4}
    Channels = {c, d}
    Slugs = {s, t}
    References <- CrossReferences
    Documents <- CrossDocuments
    Uris = {1}
    Elsewhere = Elsewhere
    Nobody = Nobody
    NoRow = NoRow
SYMMETRY Symmetry
INVARIANT NoDeadlock
CHECK_DEADLOCK FALSE
