SPECIFICATION FairSpec
CONSTANTS
    ws1 = ws1
    ws2 = ws2
    k1 = k1
    k2 = k2
    a = a
    b = b
    big = big
    j1 = j1
    j2 = j2
    w1 = w1
    w2 = w2
    Workspaces = {ws1}
    Keys = {k1, k2}
    WorkspaceOf <- OneWorkspace
    Contents = {a, big}
    Oversized = {big}
    Classes = {"invoice"}
    Jobs = {j1, j2}
    Requests <- Overlapping
    Workers = {w1}
    MaxItems = 2
    BatchSize = 2
    MaxReceives = 3
    MemoryConfigured = FALSE
    MaxPuts = 2
    MaxTroubles = 2
    MaxDuplicates = 0
    Nothing = Nothing
    NoRequest = NoRequest
    NoRow = NoRow
    NoResult = NoResult
INVARIANTS
    ResultsAnswerTheirJob
PROPERTIES
    JobsSettle
    SoundJobsFinish
CHECK_DEADLOCK FALSE
