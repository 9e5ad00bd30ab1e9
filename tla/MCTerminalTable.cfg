\* The table of one symbol; two prices, and a server that stays up.
SPECIFICATION Spec
CONSTANTS
    BTC = BTC
    ETH = ETH
    Screens <- TableOnly
    Symbols <- OneSymbol
    Asked <- AskedFor
    Slots = 3
    MaxMessages = 2
    MaxRows = 2
    MaxRefreshes = 2
    MaxStops = 0
PROPERTY
    TableFollows
CHECK_DEADLOCK FALSE
