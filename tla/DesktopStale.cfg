SPECIFICATION Spec
CONSTANTS
    a = a
    b = b
    z = z
    c1 = c1
    c2 = c2
    c3 = c3
    inv = inv
    oth = oth
    unc = unc
    s1 = s1
    q1 = q1
    q2 = q2
    e1 = e1
    e2 = e2
    num = num
    iss = iss
    v1 = v1
    v2 = v2
    m1 = m1
    m2 = m2
    good = good
    abstains = abstains
    uncited = uncited
    repeated = repeated
    unsure = unsure
    foreign = foreign
    endless = endless
    Commands = {}
    Disks <- MCDisks
    Revisions <- MCRevisions
    Classes = {inv, oth, unc}
    Unclassified = unc
    SegmentIds = {s1}
    Quotes = {q1, q2}
    EvidenceIds = {e1, e2}
    Fields = {num, iss}
    Values = {v1, v2}
    Missing = Missing
    Backfilled <- MCBackfilled
    Priority <- MCPriority
    MaxParts = 2
    MaxShown = 1
    Paths = {a, b, z}
    Order <- MCOrder
    Contents = {c1, c2}
    Pdfs = {c1, c2}
    Absent = Absent
    Reading <- MCReading
    NoText = NoText
    Replies = {good, abstains, uncited, foreign}
    Offered <- MCOffered
    Offers <- MCOffers
    Nothing = Nothing
    MaxTries = 1
    MaxAttempts = 2
    Limit = 2
    MaxEdits = 1
    Shells = {"cockpit"}
    Place <- MCPlace
PROPERTIES
    ApprovedAsShown
CHECK_DEADLOCK FALSE
