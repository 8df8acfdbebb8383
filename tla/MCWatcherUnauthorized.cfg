SPECIFICATION HSpec
CONSTANTS
    NoObject = NoObject
    NoProgram = NoProgram
    NoKey = NoKey
    Keys <- MCKeys
    Objects <- MCObjects
    Specs <- OneSpec
    Namespaced = TRUE
    MinBackoff = 1
    MinCycle = 1
    RequestTimeout = 2
    Prompt = TRUE
    Latency = 0
    MaxChanges = 1
    MaxFaults = 2
    Horizon = 5
INVARIANTS
    WatchUnauthorizedEnds
