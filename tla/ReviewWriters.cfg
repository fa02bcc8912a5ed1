SPECIFICATION Spec
CONSTANTS
    a = a
    b = b
    t = t
    u = u
    d1 = d1
    d2 = d2
    Paths = {a, b, t}
    Organized = {t}
    Documents = {d1, d2}
    Uploaded = {d1}
    MaxDecisions = 3
    MaxFailures = 1
    NoFile = NoFile
    NoRow = NoRow
    CloudKey = CloudKey
SYMMETRY Symmetry
INVARIANTS
    TypeOK
    MovesAreApproved
    StatusFollowsDecisions
    MovedMeansHistory
    MovedRowsAreRemembered
PROPERTIES
    OriginStands
    NothingLost
    HistoryIsTrue
