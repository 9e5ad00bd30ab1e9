\* Three clients for two slots; two prices and an alert.
SPECIFICATION SafetySpec
CONSTANTS
    wide = wide
    narrow = narrow
    bell = bell
    BTC = BTC
    ETH = ETH
    PriceClients <- MCPriceClients
    AlertClients <- MCAlertClients
    Symbols <- MCSymbols
    Subscribed <- SubscribedOf
    Capacity = 2
    MaxSSEClients = 2
    MaxMessages <- MCMessages
INVARIANTS
    TypeOK
    NoSendOnClosedChannel
    NoGapAtConnect
    SlotsAreExact
    ChannelInOrder
CHECK_DEADLOCK FALSE
