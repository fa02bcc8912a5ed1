SPECIFICATION FairSpec
CONSTANTS
    a = a
    b = b
    x = x
    y = y
    r1 = r1
    r2 = r2
    c1 = c1
    c2 = c2
    Absent = Absent
    Partial = Partial
    NoResult = NoResult
    N = 1
    Runners = {r1, r2}
    Paths <- OnePaths
    Contents = {c1, c2}
    Src <- OneSrc
    Dst <- OneDst
    Op = "COPY"
    Window = 1
    MaxClock = 1
    MaxEdits = 1
    MaxCrashes = 1
PROPERTIES
    ApprovedItemsSettle
    MutationIsIntended
    NeverOverwrites
CHECK_DEADLOCK FALSE
