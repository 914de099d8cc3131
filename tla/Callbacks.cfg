CONSTANTS
    k1 = k1
    p1 = p1
    u1 = u1
    None = None
    Kinds = {k1}
    Payloads = {p1}
    Urls = {u1}
    Requests <- CallbackRequests
    Keys = {}
    Workers = {w1}
    KindSets <- AnyKind
    Results = {r1}
    Messages = {m1}
    MaxAttempts = 1
    ReportedAttempts = {None}
    LeaseDuration = 1
    Retention = 1
    MaxPruned = 1
    MaxJobs = 1
    MaxTime = 1
    MaxBehind = 2
    ClockMayStepBack = FALSE
    Tasks = {t1, t2}
    CallbackMaxAttempts = 2
    MaxRestarts = 1
SPECIFICATION CallbacksSpec
INVARIANTS
    CallbacksTypeOK
    ToldOutcomeIsFinal
    OneDeliveryAtATime
PROPERTIES
    PrunedAfterDelivery
    PendingCallbackDelivered
