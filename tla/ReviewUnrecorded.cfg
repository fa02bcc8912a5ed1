SPECIFICATION Spec
CONSTANTS
    a = a
    b = b
    t = t
    u = u
    d1 = d1
    d2 = d2
    Paths = {a, b, t}
    Organized = {t}
    Documents = {d1, d2}
    Uploaded = {d1}
    MaxDecisions = 2
    MaxFailures = 0
    NoFile = NoFile
    NoRow = NoRow
    CloudKey = CloudKey
INVARIANTS
    MovesAreRecorded
