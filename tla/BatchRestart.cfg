SPECIFICATION Spec
CONSTANTS
    a = a
    b = b
    x = x
    y = y
    r1 = r1
    r2 = r2
    c1 = c1
    c2 = c2
    Absent = Absent
    Partial = Partial
    NoResult = NoResult
    N = 2
    Runners = {r1}
    Paths <- ApartPaths
    Contents = {c1, c2}
    Src <- ApartSrc
    Dst <- ApartDst
    Op = "MOVE"
    Window = 1
    MaxClock = 2
    MaxEdits = 0
    MaxCrashes = 2
SYMMETRY Symmetry
INVARIANTS
    TypeOK
    BlockedIsUntouched
CHECK_DEADLOCK FALSE
