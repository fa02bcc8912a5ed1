SPECIFICATION Spec
CONSTANTS
    ws1 = ws1
    ws2 = ws2
    k1 = k1
    k2 = k2
    a = a
    b = b
    big = big
    j1 = j1
    j2 = j2
    w1 = w1
    w2 = w2
    Workspaces = {ws1, ws2}
    Keys = {k1, k2}
    WorkspaceOf <- TwoWorkspaces
    Contents = {a, b}
    Oversized = {}
    Classes = {"invoice", "other"}
    Jobs = {j1, j2}
    Requests <- SingleRequests
    Workers = {w1, w2}
    MaxItems = 1
    BatchSize = 1
    MaxReceives = 2
    MemoryConfigured = TRUE
    MaxPuts = 2
    MaxTroubles = 1
    MaxDuplicates = 1
    Nothing = Nothing
    NoRequest = NoRequest
    NoRow = NoRow
    NoResult = NoResult
SYMMETRY Symmetry
INVARIANTS
    TypeOK
    WorkspacesKeepApart
    SingleDeliveriesAgree
PROPERTIES
    KeepsPromise
CHECK_DEADLOCK FALSE
