SPECIFICATION Spec
CONSTANTS
    BTC = BTC
    ETH = ETH
    d = d
    a = a
    b = b
    Symbols <- MCSymbols
    Prices <- MCPrices
    DefaultRules <- MCDefaultRules
    PostedRules <- MCPostedRules
    MaxRules = 4
INVARIANTS
    TypeOK
    FlagsAreExact
    NoDuplicateWithoutTwins
    EvaluateIsTheLoop
PROPERTY
    NoCrossingMissed
