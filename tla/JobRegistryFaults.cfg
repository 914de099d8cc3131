CONSTANTS
    k1 = k1
    k2 = k2
    p1 = p1
    u1 = u1
    None = None
    Kinds = {k1, k2}
    Payloads = {p1}
    Urls = {u1}
    Requests <- PlainRequests
    Keys = {}
    Workers = {w1}
    KindSets <- AnyKind
    Results = {r1}
    Messages = {m1}
    MaxAttempts = 2
    ReportedAttempts = {None, 1, 2}
    LeaseDuration = 1
    Retention = 1
    MaxPruned = 1
    MaxJobs = 2
    MaxTime = 1
    MaxBehind = 2
    ClockMayStepBack = FALSE
SPECIFICATION Spec
INVARIANTS
    TypeOK
    QueueConsistent
    LeaseConsistent
    AcknowledgedKept
    AttemptsNotForgotten
PROPERTIES
    TerminalFinal
    ImplementsLifecycle
