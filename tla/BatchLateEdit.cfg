SPECIFICATION Spec
CONSTANTS
    a = a
    b = b
    x = x
    y = y
    r1 = r1
    r2 = r2
    c1 = c1
    c2 = c2
    Absent = Absent
    Partial = Partial
    NoResult = NoResult
    N = 1
    Runners = {r1}
    Paths <- OnePaths
    Contents = {c1, c2}
    Src <- OneSrc
    Dst <- OneDst
    Op = "MOVE"
    Window = 1
    MaxClock = 1
    MaxEdits = 1
    MaxCrashes = 0
SYMMETRY Symmetry
INVARIANTS
    ApprovedContentOnly
CHECK_DEADLOCK FALSE
