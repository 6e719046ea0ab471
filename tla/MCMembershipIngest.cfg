SPECIFICATION Spec
CONSTANTS
    s = s
    t = t
    w = w
    Requests = {r1, r2, r3, r4}
    Playlists = {1, 2, 3}
    Channels = {c, d}
    Slugs = {s, t, w}
    References <- MCReferences
    Documents <- MCDocuments
    Uris = {1}
    Elsewhere = Elsewhere
    Nobody = Nobody
    NoRow = NoRow
SYMMETRY Symmetry
INVARIANTS
    TypeOK
    MembersFollowDocument
    LinksHold
    RefusedStoresNothing
    OnlyRowsDeadlock
PROPERTIES
    ImplementsFeed
CHECK_DEADLOCK FALSE
