\* All screens; two messages of each symbol, and a server that stops once.
SPECIFICATION Spec
CONSTANTS
    BTC = BTC
    ETH = ETH
    Screens <- MCScreens
    Symbols <- MCSymbols
    Asked <- AskedFor
    Slots = 3
    MaxMessages = 2
    MaxRows = 2
    MaxRefreshes = 2
    MaxStops = 1
INVARIANTS
    TypeOK
    OneThread
PROPERTIES
    ScreenNeverGoesBack
    FirstPriceArrives
CHECK_DEADLOCK FALSE
