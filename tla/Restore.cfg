SPECIFICATION Spec
CONSTANTS
    a = a
    x = x
    y = y
    r1 = r1
    r2 = r2
    c1 = c1
    c2 = c2
    Absent = Absent
    Partial = Partial
    N = 2
    Calls = {r1, r2}
    Paths = {a, x, y}
    Contents = {c1, c2}
    Original <- MCOriginal
    Current <- MCCurrent
    Op <- MCOp
    Window = 1
    MaxClock = 1
    MaxEdits = 1
    MaxFaults = 1
SYMMETRY Symmetry
INVARIANTS
    TypeOK
    OnePlaceEach
PROPERTIES
    ChangesAreApproved
    LossNeedsALateEdit
    SuccessIsRestored
    RestoredOnce
