CONSTANTS
    None = None
    Unlimited = Unlimited
    Kinds = {"vision_analysis", "embed_batch", "index_build", "cluster"}
    Payloads = {"payload"}
    Urls = {"url"}
    Requests <- Empty
    Keys = {}
    Workers = {"a", "b", "c"}
    KindSets <- Empty
    Results = {}
    Messages = {}
    MaxAttempts = 3
    ReportedAttempts = {}
    LeaseDuration = 2
    Retention = 0
    MaxPruned = 2
    MaxJobs = 6
    MaxTime = 0
    MaxBehind = 0
    ClockMayStepBack = FALSE
    Handlers = {"server"}
    Server = "server"
    Pools = {"default", "vision", "peer"}
    WorkloadPools <- VisionPools
    Profiles <- Empty
    MayDisconnect = FALSE
    MayRestart = TRUE
    WorkerOrder <- WorkerIds
    Tests <- AllTests
SPECIFICATION ScenarioSpec
INVARIANTS
    TestsAgree
