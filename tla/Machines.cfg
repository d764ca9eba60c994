SPECIFICATION Spec
CONSTANTS
    p1 = p1  p2 = p2  k1 = k1  k2 = k2  g1 = g1  none = none
    Process = {p1, p2}
    Request <- MCRequest
    Key = {k1, k2}
    Group = {g1}
    None = none
    MaxStarts = 2
    MaxFaults = 1
    Room = {r1, r2}
    Payload <- MCPayload
    Caption = {"none", "run", "approval"}
    MaxRecords = 2
    MaxMishaps = 1
    Text <- MCText
    CharLimit = 3
    DisplayMode = {"normal"}
    Tries = 2
    Launches = 2
    Media = 1
    MaxEvents = 1
    MaxSlips = 2
    Desk = {d1, d2}
    Repo = {q1, q2}
    TreeName = {n1, n2}
    MaxTrees = 2
    MaxTreeFaults = 2
    l1 = l1  l2 = l2  l3 = l3  t1 = t1  t2 = t2
    Local = {l1, l2, l3}
    Short = {t1, t2}
    ShortOf <- MCShortOf
    NotifyLimit = 1
    MaxScans = 3
    MaxHiccups = 1
SYMMETRY Symmetry
INVARIANTS AccountHasKey ReportIsTrue FilesAccounted NoFileFoldedAway SentIsWhole AnswerComesLast ToldIsKept ShownIsResumed
PROPERTIES GroupsStay SetupHeals RecordsStay
CHECK_DEADLOCK FALSE
