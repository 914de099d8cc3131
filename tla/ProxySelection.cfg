CONSTANTS
    n1 = n1
    n2 = n2
    main = main
    spare = spare
    t1 = t1
    NoNode = NoNode
    NoLoad = NoLoad
    NoThread = NoThread
    BackendConfig <- RankedBackends
    WorkloadPools <- EmbeddingPools
    Kinds <- RankedKinds
    Limit <- OneEach
    Threads = {t1}
    ResourceAware = TRUE
    RequiredVram <- EmbeddingMemory
    ReportKeys <- SomeReports
    VramSizes = {0, 1}
    Loads = {NoLoad, 0}
    FailureThreshold = 1
    Requests = {r1}
    MayDisconnect = TRUE
SPECIFICATION ProxySpec
INVARIANTS
    SentInPreferenceOrder
    GivesUpWhenExhausted
    SentWhereItFits
    OutcomeTellsStory
