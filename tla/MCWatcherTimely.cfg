SPECIFICATION HSpec
CONSTANTS
    NoObject = NoObject
    NoProgram = NoProgram
    NoKey = NoKey
    Keys <- MCKeys
    Objects <- MCObjects
    Specs <- LongerSpecs
    Namespaced = TRUE
    MinBackoff = 1
    MinCycle = 2
    RequestTimeout = 2
    Prompt = TRUE
    Latency = 0
    MaxChanges = 2
    MaxFaults = 2
    Horizon = 8
INVARIANTS
    NoMissedVerdict
    SettlesOnTime
    NeverSilent
PROPERTIES
    RelistsArePaced
