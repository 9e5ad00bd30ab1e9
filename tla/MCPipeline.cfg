\* Two polls, a window of two; one failing publish of an aggregate, and one crash of
\* the aggregator, one stop of the producer, or one write that succeeds twice.
SPECIFICATION PipelineSpec
CONSTANTS
    x = x
    BTC = BTC
    Ids <- MCIds
    Poison <- MCPoison
    Event <- MCEvent
    MaxRetries = 1
    MaxFaults = 1
    RepublishAccepted = TRUE
    MaxCrashes = 1
    MaxShutdowns = 0
    WindowSize = 2
    BasePrices <- MCBasePrices
    Answers <- MCAnswers
    Walks <- MCWalks
    PricesBy <- MCPricesBy
    MaxCopies = 2
    MaxPolls = 2
    MaxStops = 1
    MaxTroubles = 1
    Day = 2
INVARIANTS
    PipelineTypeOK
    AggregatesAreRight
    HandledIsPublished
    RepeatsBound
    AggregatedInOrder
    ZeroNeedsBlank
    SimulatedContinues
CHECK_DEADLOCK FALSE
