SPECIFICATION HSpec
CONSTANTS
    NoObject = NoObject
    NoProgram = NoProgram
    NoKey = NoKey
    Keys <- MCKeys
    Objects <- MCObjects
    Specs <- AllSpecs
    Namespaced = TRUE
    MinBackoff = 1
    MinCycle = 1
    RequestTimeout = 2
    Prompt = TRUE
    Latency = 1
    MaxChanges = 1
    MaxFaults = 2
    Horizon = 5
INVARIANTS
    NoSuccessAfterDeadline
