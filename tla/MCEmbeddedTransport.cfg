SPECIFICATION TransportSpec
CONSTANTS
    r1 = r1
    r2 = r2
    Resources = {r1, r2}
    Edited = {r1}
    ProviderConfigs <- MCProvider
    ResourceConfigs <- MCResource
    Steady = {2, 14}
    Kinds <- MCKinds
    MaxRounds = 2
    MaxInt = 100000
INVARIANTS
    CrashesOnlyThere
    RenderedIsConfigured
    AnswersAsSent
    ResolvedIsOwnElseDefault
    AppliedIsComplete
CHECK_DEADLOCK FALSE
