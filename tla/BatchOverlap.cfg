SPECIFICATION Spec
CONSTANTS
    a = a
    b = b
    x = x
    y = y
    r1 = r1
    r2 = r2
    c1 = c1
    c2 = c2
    Absent = Absent
    Partial = Partial
    NoResult = NoResult
    N = 2
    Runners = {r1, r2}
    Paths <- SharedPaths
    Contents = {c1, c2}
    Src <- SharedSrc
    Dst <- SharedDst
    Op = "MOVE"
    Window = 1
    MaxClock = 1
    MaxEdits = 0
    MaxCrashes = 2
SYMMETRY Symmetry
INVARIANTS
    SuccessIsReal
    AuditAgreesWithLedger
    ReportAgreesWithLedger
    IntentOrResult
PROPERTIES
    NothingLost
    TerminalResultStable
    KeepsPromise
CHECK_DEADLOCK FALSE
