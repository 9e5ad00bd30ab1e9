\* A stream of prices or alerts, or two readers of /prices, at one address with two tokens.
SPECIFICATION APISpec
CONSTANTS
    wide = wide
    bell = bell
    get1 = get1
    get2 = get2
    BTC = BTC
    home = home
    None = None
    PriceClients <- MCPriceClients
    AlertClients <- MCAlertClients
    Readers <- MCReaders
    Requests <- MCRequests
    Addresses <- MCAddresses
    AddressOf <- MCAddressOf
    Buckets <- MCBuckets
    Scenarios <- MCScenarios
    Symbols <- MCSymbols
    Subscribed <- MCSubscribed
    Capacity = 1
    MaxSSEClients = 1
    MaxMessages <- MCMessages
    Rate = 2
    Burst = 2
    Idle = 1
    MaxDelay = 1
INVARIANT
    APITypeOK
PROPERTIES
    ReadYourStream
    ImplementsQuota
    AddressIsForgotten
    ClientCatchesUp
    ShutdownEndsWithoutClients
CHECK_DEADLOCK FALSE
