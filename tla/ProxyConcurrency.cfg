CONSTANTS
    n1 = n1
    n2 = n2
    main = main
    spare = spare
    t1 = t1
    NoNode = NoNode
    NoLoad = NoLoad
    NoThread = NoThread
    BackendConfig <- SharedBackends
    WorkloadPools <- NoPools
    Kinds <- SharedKinds
    Limit <- OneEach
    Threads = {t1}
    ResourceAware = FALSE
    RequiredVram <- NoMemory
    ReportKeys <- NoReports
    VramSizes = {0}
    Loads <- NoLoads
    FailureThreshold = 2
    Requests = {r1, r2}
    MayDisconnect = TRUE
SPECIFICATION ProxySpec
INVARIANTS
    TrippedRemembers
    ProxyTypeOK
    GaugeWithinLimit
    AffinityServes
    OriginFallbackIsReal
PROPERTIES
    TrialFailureReopens
    NoBackendTriedTwice
    RequestEnds
    OnlyBackendsDelay
