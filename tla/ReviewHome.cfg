SPECIFICATION Spec
CONSTANTS
    a = a
    b = b
    t = t
    u = u
    d1 = d1
    d2 = d2
    Paths = {a, b, t, u}
    Organized = {t, u}
    Documents = {d1, d2}
    Uploaded = {}
    MaxDecisions = 3
    MaxFailures = 0
    NoFile = NoFile
    NoRow = NoRow
    CloudKey = CloudKey
PROPERTIES
    RestoreGoesHome
