SPECIFICATION HSpec
CONSTANTS
    NoObject = NoObject
    NoProgram = NoProgram
    NoKey = NoKey
    Keys <- MCKeys
    Objects <- MCObjects
    Specs <- AllSpecs
    Namespaced = TRUE
    MinBackoff = 1
    MinCycle = 1
    RequestTimeout = 2
    Prompt = FALSE
    Latency = 0
    MaxChanges = 2
    MaxFaults = 2
    Horizon = 4
INVARIANTS
    TypeOK
    CacheIsSnapshot
    VerdictOfSnapshot
    ErrorResetsSettle
    SettlesOnSight
    VacuousSuccessWarned
    LastIsTracked
    FinalProgressReported
    WakeIsTimely
    WatchStopped
    OneUnauthorizedRetry
PROPERTIES
    NoBusyWait
