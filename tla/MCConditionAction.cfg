\* The life of the action from two edits of a valid configuration.  After
\* Invoke nothing is left to do, so the system may stop.
SPECIFICATION Spec
CONSTANTS
    NoObject = NoObject
    NoProgram = NoProgram
    Null = Null
    Unknown = Unknown
    Bad = Bad
    NoSpec = NoSpec
    Written <- MCWritten
    Values <- MCValues
    Snapshots <- MCSnapshots
    ProviderValues <- MCProviderValues
    Kubeconfigs <- MCKubeconfigs
    Home <- MCHome
    URL <- MCURL
    Secure <- MCSecure
    Localhost = "http://localhost"
    PodHost = "https://pod"
    PodToken = "token-pod"
    MaxEdits = 2
INVARIANTS
    ErrorsStand
    RunsOnlyValidSpecs
    WarningsStand
    IgnoredMeansIgnored
    NeverGuessed
    NoFalseRefusal
CHECK_DEADLOCK FALSE
