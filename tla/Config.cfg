CONSTANTS
    Malformed = Malformed
    None = None
    PoolNames <- SortedNames
    Cases <- AllCases
SPECIFICATION ConfigSpec
CHECK_DEADLOCK FALSE
INVARIANTS
    ReferencesResolve
    StrictLeavesNothingOpen
    DefaultPolicyReachesBackends
    ConfigTestsAgree
