\* A writer that refuses messages with a topic of their own; nothing else goes
\* wrong.
SPECIFICATION SafetySpec
CONSTANTS
    m1 = m1
    m2 = m2
    Ids <- MCIds
    Poison <- MCPoison
    MaxRetries = 1
    MaxFaults = 0
    RepublishAccepted = FALSE
    MaxCrashes = 0
    MaxShutdowns = 0
INVARIANT
    DeadWereRetried
