--------------------------- MODULE PriceProducer ---------------------------
(***************************************************************************)
(* services/price-producer: at every poll one request to CoinGecko, or     *)
(* simulated prices when it fails, and then one event for each symbol that *)
(* has a price, published one after the other.                             *)
(*                                                                         *)
(* Prices are integers.  An answer maps the symbols it mentions to prices, *)
(* and to 0 where it has no "usd".  The topic is left to the module that   *)
(* composes this one: n is how many copies of an event reach it.           *)
(***************************************************************************)
EXTENDS Integers

CONSTANTS
    BasePrices, \* the built-in price of each symbol of SYMBOLS
    Answers,    \* what CoinGecko may answer
    Walks,      \* the changes of a random walk
    MaxCopies,  \* how often a write reaches the topic (MaxAttempts of kafka-go)
    MaxPolls,   \* bound: how often prices are polled
    MaxStops    \* bound: how often the process is killed or asked to stop

VARIABLES
    phase,      \* "down", "fetch", "publish", or "wait" for the ticker
    cache,      \* pp.cache, a function on the symbols it has
    todo,       \* the events that are still to be published
    polls,      \* how many polls have been made, by whatever process
    since,      \* history: the number of the process's first poll
    blanked,    \* history: the symbols ever answered without a price
    stopping,   \* the context is cancelled
    stops

vars == <<phase, cache, todo, polls, since, blanked, stopping, stops>>

Nothing == [s \in {} |-> 0]

Init ==
    /\ phase = "down"
    /\ cache = Nothing
    /\ todo = {}
    /\ polls = 0 /\ since = 1
    /\ blanked = {}
    /\ stopping = FALSE /\ stops = 0

Step(from, to) == phase = from /\ phase' = to

\* main, and the initial fetch of run.
Start ==
    /\ Step("down", "fetch")
    /\ polls < MaxPolls
    /\ cache' = Nothing
    /\ todo' = {}
    /\ since' = polls + 1
    /\ stopping' = FALSE
    /\ UNCHANGED <<polls, blanked, stops>>

\* The events of one poll.
EventsOf(prices, exchange) ==
    {[symbol |-> s, price |-> prices[s], exchange |-> exchange, volume |-> 1,
      poll |-> polls + 1, since |-> since] : s \in DOMAIN prices}

\* pp.cache after prices have been written to it.
Remembered(prices) ==
    [s \in DOMAIN prices \cup DOMAIN cache |->
        IF s \in DOMAIN prices THEN prices[s] ELSE cache[s]]

\* Variant: what is fetched is not remembered.
FetchUncached ==
    /\ Step("fetch", "publish")
    /\ ~stopping
    /\ \E answer \in Answers :
          /\ todo' = todo \cup EventsOf(answer, "coingecko")
          /\ blanked' = blanked \cup {s \in DOMAIN answer : answer[s] = 0}
    /\ polls' = polls + 1
    /\ UNCHANGED <<cache, since, stopping, stops>>

\* fetchFromCoinGecko succeeds; under a cancelled context it cannot.
Fetch ==
    /\ Step("fetch", "publish")
    /\ ~stopping
    /\ \E answer \in Answers :
          /\ cache' = Remembered(answer)
          /\ todo' = todo \cup EventsOf(answer, "coingecko")
          /\ blanked' = blanked \cup {s \in DOMAIN answer : answer[s] = 0}
    /\ polls' = polls + 1
    /\ UNCHANGED <<since, stopping, stops>>

\* base + change, where change is at most 0.5% of base, up or down.
WalksFrom(base) ==
    {base + (IF w * 200 <= base /\ -w * 200 <= base THEN w ELSE 0) : w \in Walks}

\* Variant: a symbol that is not in the cache is not looked for elsewhere.
SimulateUnchecked ==
    LET from(s) == IF s \in DOMAIN cache THEN cache[s] ELSE 0
        walks   == {p \in [DOMAIN BasePrices -> UNION {WalksFrom(from(s)) :
                                                   s \in DOMAIN BasePrices}] :
                       \A s \in DOMAIN BasePrices : p[s] \in WalksFrom(from(s))}
    IN  /\ Step("fetch", "publish")
        /\ \E prices \in walks :
              /\ cache' = Remembered(prices)
              /\ todo' = todo \cup EventsOf(prices, "simulated")
        /\ polls' = polls + 1
        /\ UNCHANGED <<since, blanked, stopping, stops>>

\* fetchFromCoinGecko fails: simulatePrices.
Simulate ==
    LET from(s) == IF s \in DOMAIN cache THEN cache[s] ELSE BasePrices[s]
        walks   == {p \in [DOMAIN BasePrices -> UNION {WalksFrom(from(s)) :
                                                   s \in DOMAIN BasePrices}] :
                       \A s \in DOMAIN BasePrices : p[s] \in WalksFrom(from(s))}
    IN  /\ Step("fetch", "publish")
        /\ \E prices \in walks :
              /\ cache' = Remembered(prices)
              /\ todo' = todo \cup EventsOf(prices, "simulated")
        /\ polls' = polls + 1
        /\ UNCHANGED <<since, blanked, stopping, stops>>

Publish(e, n) ==
    /\ phase = "publish" /\ e \in todo
    /\ n \in 1..MaxCopies
    /\ ~stopping
    /\ todo' = todo \ {e}
    /\ UNCHANGED <<phase, cache, polls, since, blanked, stopping, stops>>

\* Variant: the event is tried again at the next poll.
PublishFailsForNow(e, n) ==
    /\ phase = "publish" /\ e \in todo
    /\ n = 0
    /\ phase' = "wait"
    /\ UNCHANGED <<cache, todo, polls, since, blanked, stopping, stops>>

\* Publish returns an error, which is logged: the event is given up, but may
\* be in the topic.  Under a cancelled context that is the rule.
PublishFails(e, n) ==
    /\ phase = "publish" /\ e \in todo
    /\ n \in 0..MaxCopies
    /\ todo' = todo \ {e}
    /\ UNCHANGED <<phase, cache, polls, since, blanked, stopping, stops>>

\* fetchAndPublish returns to the select of run.
EndPoll ==
    /\ Step("publish", "wait")
    /\ todo = {}
    /\ UNCHANGED <<cache, todo, polls, since, blanked, stopping, stops>>

\* case <-ticker.C, which may be chosen though the context is cancelled.
NextPoll ==
    /\ Step("wait", "fetch")
    /\ polls < MaxPolls
    /\ UNCHANGED <<cache, todo, polls, since, blanked, stopping, stops>>

\* case <-ctx.Done()
Exit ==
    /\ Step("wait", "down")
    /\ stopping
    /\ UNCHANGED <<cache, todo, polls, since, blanked, stopping, stops>>

\* SIGINT or SIGTERM.
Signal ==
    /\ phase # "down" /\ ~stopping /\ stops < MaxStops
    /\ stopping' = TRUE
    /\ stops' = stops + 1
    /\ UNCHANGED <<phase, cache, todo, polls, since, blanked>>

\* The process is killed.
Kill ==
    /\ phase # "down" /\ stops < MaxStops
    /\ phase' = "down"
    /\ stops' = stops + 1
    /\ UNCHANGED <<cache, todo, polls, since, blanked, stopping>>

\* The steps that publish nothing.
Silent ==
    \/ Start \/ Fetch \/ Simulate \/ EndPoll \/ NextPoll
    \/ Exit \/ Signal \/ Kill

----------------------------------------------------------------------------

TypeOK ==
    /\ phase \in {"down", "fetch", "publish", "wait"}
    /\ DOMAIN cache \subseteq DOMAIN BasePrices
    /\ phase = "wait" => todo = {}
    /\ polls \in 0..MaxPolls /\ since \in 1..MaxPolls
    /\ blanked \subseteq DOMAIN BasePrices
    /\ stopping \in BOOLEAN /\ stops \in 0..MaxStops

=============================================================================
