SPECIFICATION FairSpec
CONSTANTS
    NoObject = NoObject
    NoProgram = NoProgram
    NoKey = NoKey
    Keys <- MCKeys
    Objects <- MCObjects
    Specs <- AllSpecs
    Namespaced = TRUE
    MinBackoff = 1
    MinCycle = 1
    RequestTimeout = 1
    Prompt = TRUE
    Latency = 5
    MaxChanges = 1
    MaxFaults = 2
    Horizon = 5
PROPERTIES
    Termination
    ImplementsContract
