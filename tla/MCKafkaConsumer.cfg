\* A poison message and a good one; two failures of handlers or writes, one crash and
\* one SIGTERM.
SPECIFICATION Spec
CONSTANTS
    m1 = m1
    m2 = m2
    Ids <- MCIds
    Poison <- MCPoison
    MaxRetries = 1
    MaxFaults = 2
    RepublishAccepted = TRUE
    MaxCrashes = 1
    MaxShutdowns = 1
INVARIANTS
    TypeOK
    RetryIsInLog
    DeadWereRetried
PROPERTIES
    CommitsOnlySettled
    WorkIsRedelivered
    CommittedNeverRegresses
    EveryMessageIsDecided
