\* Two prices, a message that cannot be decoded, and a batch of two; one
\* failing transaction, one crash, one SIGTERM.
SPECIFICATION Spec
CONSTANTS
    p = p
    q = q
    r = r
    x = x
    Ids <- MCIds
    Poison <- MCPoison
    MaxRetries = 0
    MaxFaults = 0
    RepublishAccepted = TRUE
    MaxCrashes = 1
    MaxShutdowns = 1
    RowKey <- MCRowKey
    BatchSize = 2
    MaxDbFaults = 1
INVARIANTS
    TypeOK
    AcceptedIsKept
    LossBound
PROPERTIES
    ImplementsReader
    AcceptedIsStored
