CONSTANTS
    k1 = k1
    k2 = k2
    p1 = p1
    pool1 = pool1
    pool2 = pool2
    w1 = w1
    w2 = w2
    None = None
    Kinds = {k1, k2}
    Payloads = {p1}
    Urls = {}
    Requests <- MixedRequests
    Keys = {}
    Workers = {w1, w2}
    KindSets <- NoKindSets
    Results = {}
    Messages = {m1}
    MaxAttempts = 2
    ReportedAttempts = {1}
    LeaseDuration = 1
    Retention = 1
    MaxPruned = 1
    MaxJobs = 2
    MaxTime = 0
    MaxBehind = 0
    ClockMayStepBack = FALSE
    Unlimited = Unlimited
    Handlers = {h1}
    Pools = {pool1, pool2}
    WorkloadPools <- OnePoolOnly
    Profiles <- TwoProfiles
    MayDisconnect = FALSE
    MayRestart = FALSE
    WorkerOrder <- BothWorkers
SPECIFICATION SchedulerSpec
INVARIANTS
    PreviewIsNextClaim
