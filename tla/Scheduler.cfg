CONSTANTS
    k1 = k1
    p1 = p1
    pool1 = pool1
    None = None
    Kinds = {k1}
    Payloads = {p1}
    Urls = {}
    Requests <- PlainRequests
    Keys = {}
    Workers = {w1}
    KindSets <- NoKindSets
    Results = {r1}
    Messages = {}
    MaxAttempts = 2
    ReportedAttempts = {1}
    LeaseDuration = 1
    Retention = 2
    MaxPruned = 1
    MaxJobs = 2
    MaxTime = 2
    MaxBehind = 0
    ClockMayStepBack = FALSE
    Unlimited = Unlimited
    Handlers = {h1, h2}
    Pools = {pool1}
    WorkloadPools <- NoPolicy
    Profiles <- OneSlot
    MayDisconnect = TRUE
    MayRestart = TRUE
SPECIFICATION SchedulerSpec
SYMMETRY Symmetry
INVARIANTS
    SlotsCoverWork
    NoPhantomSlots
    CapacityRespected
