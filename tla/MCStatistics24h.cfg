\* Three polls that CoinGecko does not answer, a day of one poll and a window of one
\* event; nothing goes wrong behind the producer.
SPECIFICATION PipelineSpec
CONSTANTS
    x = x
    BTC = BTC
    Ids <- MCIds
    Poison <- MCPoison
    Event <- MCEvent
    MaxRetries = 1
    MaxFaults = 0
    RepublishAccepted = TRUE
    MaxCrashes = 0
    MaxShutdowns = 0
    WindowSize = 1
    BasePrices <- MCBasePrices
    Answers <- NoAnswers
    Walks <- MCWalks
    PricesBy <- MCPricesBy
    MaxCopies = 1
    MaxPolls = 3
    MaxStops = 0
    MaxTroubles = 0
    Day = 1
INVARIANT
    StatisticsAreOfTheDay
CHECK_DEADLOCK FALSE
