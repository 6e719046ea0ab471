SPECIFICATION Spec
CONSTANTS
    a = a
    b = b
    f = f
    Keys = {a, b, f}
    Feed = f
    NoKey = NoKey
    NoRow = NoRow
    Idle = Idle
    Done = Done
    Requests = {r1, r2}
    MaxVersions = 3
    Submissions <- MCSubmissions
INVARIANTS
    TypeOK
    ExactlyOneOwner
    EachOwnerMayEditAlone
PROPERTIES
    OwnersOnlyGrow
    OwnersConsent
    OnlyOwnersChangeIt
SYMMETRY Symmetry
CHECK_DEADLOCK FALSE
