\* In a pod, with kubeconfig files named that give no server.
SPECIFICATION Spec
CONSTANTS
    NoObject = NoObject
    NoProgram = NoProgram
    Null = Null
    Unknown = Unknown
    Bad = Bad
    NoSpec = NoSpec
    Written <- MCWritten
    Values <- MCValues
    Snapshots <- MCSnapshots
    ProviderValues <- MCProviderValues
    Kubeconfigs <- MCKubeconfigs
    Home <- MCHome
    URL <- MCURL
    Secure <- MCSecure
    Localhost = "http://localhost"
    PodHost = "https://pod"
    PodToken = "token-pod"
    MaxEdits = 2
INVARIANT InClusterOnlyUnconfigured
CHECK_DEADLOCK FALSE
