\* A healthy broker and one SIGTERM; nothing else goes wrong.
SPECIFICATION SafetySpec
CONSTANTS
    m1 = m1
    m2 = m2
    Ids <- MCIds
    Poison <- NoPoison
    MaxRetries = 1
    MaxFaults = 0
    RepublishAccepted = TRUE
    MaxCrashes = 0
    MaxShutdowns = 1
INVARIANT
    CommittedIsNotLost
