CONSTANTS
    k1 = k1
    k2 = k2
    p1 = p1
    u1 = u1
    None = None
    Kinds = {k1, k2}
    Payloads = {p1}
    Urls = {u1}
    Requests <- CallbackRequests
    Keys = {key1}
    Workers = {w1}
    KindSets <- AnyKind
    Results = {}
    Messages = {}
    MaxAttempts = 1
    ReportedAttempts = {None, 1}
    LeaseDuration = 1
    Retention = 1
    MaxPruned = 1
    MaxJobs = 2
    MaxTime = 1
    MaxBehind = 1
    ClockMayStepBack = TRUE
SPECIFICATION Spec
INVARIANTS
    KeysConsistent
    IdsBelowNext
PROPERTIES
    ExpiredLeaseTakenBack
