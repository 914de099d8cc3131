CONSTANTS
    k1 = k1
    p1 = p1
    pool1 = pool1
    None = None
    Kinds = {k1}
    Payloads = {p1}
    Urls = {}
    Requests <- PlainRequests
    Keys = {}
    Workers = {w1}
    KindSets <- NoKindSets
    Results = {r1}
    Messages = {m1}
    MaxAttempts = 2
    ReportedAttempts = {None, 1, 2}
    LeaseDuration = 1
    Retention = 1
    MaxPruned = 1
    MaxJobs = 1
    MaxTime = 2
    MaxBehind = 1
    ClockMayStepBack = FALSE
    Unlimited = Unlimited
    Handlers = {h1, h2}
    Pools = {pool1}
    WorkloadPools <- NoPolicy
    Profiles <- OneSlot
    MayDisconnect = FALSE
    MayRestart = FALSE
SPECIFICATION SchedulerSpec
SYMMETRY Symmetry
INVARIANTS
    NoPhantomSlots
