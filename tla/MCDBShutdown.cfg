\* One SIGTERM, nothing else goes wrong.
SPECIFICATION SafetySpec
CONSTANTS
    p = p
    q = q
    r = r
    x = x
    Ids <- MCIdsWithTwins
    Poison <- NoPoison
    MaxRetries = 0
    MaxFaults = 0
    RepublishAccepted = TRUE
    MaxCrashes = 0
    MaxShutdowns = 1
    RowKey <- MCRowKey
    BatchSize = 2
    MaxDbFaults = 0
INVARIANT
    ShutdownKeepsRows
