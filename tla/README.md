# Termino in TLA+

A verification project for Termino, the crypto price pipeline in this
repository: TLA+ modules of its components, TLC configurations that check them
on small instances, and theorems that TLAPS proves for every instance.

## The system

```
price-producer -> [price-events] -> price-aggregator -> [aggregated-prices]
      -> db-writer      -> PostgreSQL
      -> alert-service  -> [price-alerts] -> streaming-api -> SSE clients
      -> streaming-api  -> Redis, SSE clients
```

The services are processes that share nothing but Kafka topics (keyed by
symbol), a table and a cache. Each consumes through the same loop,
`pkg/kafka/consumer.go`. What it writes to a topic waits for an acknowledgement.

| Component | State | Operations | What makes it correct |
|---|---|---|---|
| consume loop, dead letter queue (`pkg/kafka`) | offset of the group, offset noted for the next commit, message in hand, `retry-count` header | fetch, handle, republish, dead letter, commit, close | a commit passes only messages that were dealt with, and unfinished work is redelivered; failing messages are retried a bounded number of times and end in the queue; offsets do not go back |
| database writer | `batch`, `mu`, an open transaction, the table | `addToBatch`, `flush`, `flushLocked`, ticker | an accepted price is in the batch or in the table; no row twice; the loop is not blocked |
| alert engine and service | `rules`, `fired` | `Evaluate`, `AddRule`, `RemoveRule`, publish | one alert for each crossing |
| streaming API | `clients`, `latest`, a channel per client, the counter of `MaxSSEClients` | two consume handlers, `broadcast`, stream handlers, `removeClient`, shutdown | no send on a closed channel, no gap at connect, exact counter, nobody blocked by a slow client |
| rate limiter | visitors with a bucket each | `getVisitor`, `Allow`, `cleanup` | forgetting visitors gives no address more tokens, or fewer, than one bucket kept for ever |
| Redis cache, `/prices`, `/history` | hash of the latest prices | `SetPrice`, `GetPrices`, `handleLatestPrices`, `handleHistory` | `/prices` is not behind what the streams have shown |
| price aggregator | window per symbol | `Add`, publish | what an aggregate says of its window is true of the last events the process was given; a failed publish is not committed away |
| price producer | cache of last prices | poll, simulate, publish | simulated prices continue the last ones; events leave in the order of the polls |
| terminal client | model of the TUI, commands and messages in flight, its streams | `Update`, `connectSSE`, `fetchHistory` | one command at a time, shows the newest price, never goes back |

Interactions: handlers run inside the consume loop, so a handler that waits or
fails is the loop waiting or failing. `flushLocked` is called by the handler and
by a ticker goroutine under one mutex. Stream handlers are goroutines of the HTTP
server and meet the broadcasts of two consume loops at one RWMutex. On SIGTERM
each service cancels the one context that its loop, handler and writes share.

What is hard: commits that are noted first and sent later; crashes and SIGTERM in
the middle of a message; writes that fail after having taken effect; two
goroutines at one batch; clients that come and go during broadcasts; rules that
change between prices; a limiter that is used after the mutex is released; three
copies of a price that are written one after the other. `PROJECT.json` lists
these hazards, each at its line, with the properties aimed at it or the reason
why none is there yet.

## Modules

`KafkaConsumer` is one partition, one process of a group, and the broker. An
offset `n` is the `n`-th message; `pc` is where `Consume` is; `pos` the last
fetched offset; `stash` what `CommitMessages` has noted and the reader's
background loop has not sent; `handled`, `retried`, `dead` and `dropped` record
what became of each offset. One action per branch of the code: `Fetch`,
`HandlerOk`, `HandlerErr`, `Retry`, `RetryFails`, `RetriesExhausted`, `SendToDLQ`,
`SendToDLQFails`, `Commit`, `CommitError`, the two exits; and `Crash`, `Cancel`
(SIGTERM), `Start`. A write that fails may have taken effect.
`RepublishAccepted` says whether the writer takes a message that names a topic:
TRUE is what the code counts on, FALSE what the pinned kafka-go does.

`DBWriter` composes the loop (`Reader == INSTANCE KafkaConsumer`) with the batch:
its handler is `AddReturns` or `AddFlushes`, the ticker `TickerFlush` and
`TickerEnds`; a transaction is a step that applies it in the database and a step
in which `Commit` returns, so that an error can hide a commit. The property
`ImplementsReader` is the refinement: the service's every step is a step of the
loop or a stutter, and its fairness gives the loop the loop's, so what holds of
`KafkaConsumer` holds of the writer: no lock or transaction stops it.

`AlertEngine` has the rules as a sequence and `fired` as the set of keys. The
loop over the rules is a closed form (`FiredAfter`, `AlertsOf`), which the
invariant `EvaluateIsTheLoop` compares with a fold that follows the code rule by
rule; that they agree is also proved. Alerts wait for their publishing by the
position of their rule (`alerts`). Publishing is a step per alert, so requests
come in between. Prices and thresholds are integers in thousandths, because the
code compares them exactly and remembers them in hundredths.

`StreamingServer` has the two consume loops (`feed`), the clients' goroutines
(`phase`), the counter of `MaxSSEClients`, and the RWMutex: a broadcast holds the
read lock over a step per client, registering and removing need it free. The
clients' channels are sequences of message numbers. A connection is `accepted`
before it is judged by the rate limiter, which this module leaves open
(`Arrive`, `TurnAway`). There are finitely many connections in a behaviour
(`StreamingAssumption`), as many as one likes.

`RequestQuota` is what the rate limiter promises: each address has one token
bucket, for ever, and a request that finds no token is refused. `RateLimiter` is
the code: `visitors` maps addresses to limiters, `Ask` is `getVisitor` under the
mutex, `Pass` and `Refuse` are `Allow` after it (the request holds the limiter,
`held`, for up to `MaxDelay` ticks), `Sweep` is `cleanup`, `Tick` is time.
`ImplementsQuota` is the refinement; `QuotaOf` maps a visitor to the tokens of its
bucket, and an address without one to a full bucket. Its assumption
`RefillAssumption` says that a bucket is full before its visitor is forgotten:
10 tokens a second, 20 tokens and three minutes satisfy it, and so does every
configuration with `RATE_LIMIT_PER_SEC * 180 >= RATE_LIMIT_BURST`, as long as no
request takes more than a second from one line of `Middleware` to the next.

`StreamingAPI` is the whole service: it extends `RateLimiter`, instantiates
`StreamingServer`, and adds the Redis hash (`redis`, with writes that timed out
and may still arrive, `late`) and the requests for `/prices` (`reader`, `answer`).
The price handler writes memory (`HandlePrice`), Redis (`SetPrice`,
`SetPriceFails`) and then broadcasts (`Feeding`), each a step of its own, and a
request reads Redis, or memory if that fails or has nothing. A price is the
number of its message; the hash may hold prices of an earlier process (0).
`ReadYourStream` compares an answer with the messages whose broadcast has begun (`Announced`).

`Aggregator` composes the loop with `PriceAggregator`: `windows` holds the message
ids of each window, `basePrice` what the change is counted from. `ComputeAggregate`
is the fold of the code; the handler adds and publishes (`AddAndPublish`), adds
and fails to publish, with or without effect (`PublishFails`), or cannot decode
(`DecodeFails`). A restart begins with empty windows, which `from` remembers, so
that `AggregatesAreRight` can say of every aggregate in the topic, from the log
alone, what it should say of its window. The change is not of the window:
`StatisticsAreOfTheDay` (below) is about what the documents say of it. Prices are
integers.

`PriceProducer` is a poll after the other: `Fetch` (an answer, which may mention
a symbol without a price) or `Simulate` (a walk from the cached or the built-in
price) fills `todo`, and the events in it are published one by one (`Publish`,
`PublishFails`, with a number of copies that reach the topic), until `EndPoll`.
`Pipeline` composes it with `Aggregator`: the topic between them is the `log` of the
aggregator's loop, and an event is its own message id. `PricesBy` says which
prices there can be after each poll, so that `PipelineAssumption` can require a
message for every event that the producer may make. `Day` is how many polls there
are in 24 hours; only the run about a day depends on it.

`TerminalClient` has the event loops of the price table, of `watch`, of
`alerts` and of the `history`, which asks again when the user presses r. A Bubble
Tea program handles one message at a time and returns a command, which ends in a
message: `flight` is the bag of both. `connectSSE` is
`Dial` (before the response) and `Read` (waiting for data); it returns with the
first message and leaves the stream open, which costs a slot of the server
(`open`) until the server ends it. The server is reduced to its slots, its latest
prices, and its stops, after which it may broadcast messages again.

The theorems are in the modules whose names end with `Proofs`, each of which
extends the module it is about. `MC*` modules give the constants values. An
operator whose comment begins with "Variant" is a bug that the properties must
notice; no specification uses it.

## Runs

| Run | Instance | Shows |
|---|---|---|
| `kafka_consumer` | a good and a poison message, 1 retry, 2 faults, 1 crash, 1 SIGTERM | commits pass settled messages only and do not go back, unfinished work is redelivered, retries stay in the partition, every message is decided |
| `db_writer` | 3 messages (one undecodable), batch of 2, 1 database fault, 1 crash, 1 SIGTERM | accepted prices are kept, bounds of batch and loss, refinement of the loop, progress |
| `alert_engine` | 3 prices, 4 rules at a time, two of which share a key | flags mean what they should, no crossing missed, closed form equals loop |
| `streaming_server` | 3 clients for 2 slots, 2 symbols, 2 prices, 1 alert, channels of 2 | safety of connect, broadcast, leave and count; channels hold messages in order |
| `streaming_api` | one address with a stream of prices or of alerts, or with two requests for `/prices`, or with one and no Redis; 2 prices, 2 tokens, rate 2, idle time and delay of 1 | `/prices` is not behind the streams, the limiter implements the quota, visitors are forgotten, the newest price arrives or the channel was full, shutdown ends when clients leave |
| `pipeline` | 2 polls of a symbol, answers with and without a price, 1 undecodable message, window of 2, 1 retry, 1 fault, and 1 crash, stop or doubled write | aggregates are those of a window of what the process was given, in the order of the prices; commits hide no failed publish; what counts twice; where zeros and jumps come from |
| `terminal_client` | the 4 screens, 2 symbols with 2 messages each, 3 slots, 1 stop, 2 rows and refreshes | commands neither multiply nor run out, `watch` and `history` do not go back, the first price is shown |

The bounds are small and reach the interesting cases: one retry gives a message
a first attempt, a republished copy and the dead letter queue; two faults make
republishing and dead letter write fail for the same message; a batch of two has
a row waiting while the handler flushes and the ticker competes; a channel of two
has a message behind another (`streaming_server`), and one of one is full at the
second message (`streaming_api`); three connections for two slots race at the
counter; a window of two is full when a republished copy of an event arrives as
the third; three slots are taken by streams that the screens have left; two
requests at one address meet in a bucket of two, one of them delayed while
`cleanup` runs.

Some bounds cut behaviours that no property needs. In `StreamingAPI`, `Scenarios`
says which connections come in one behaviour, because streams and `/prices` meet
only in the limiter; a write to Redis that times out arrives late only if another
can overtake it. In `Pipeline`, the undecodable message comes first or not at
all, and crashes, stops and doubled writes are one of `MaxTroubles`. The
aggregator has no SIGTERM there: its handler fails in a shutdown as it does by a
fault. Symmetry is not used: the liveness properties forbid it.

Some properties have exceptions that the code makes true.

- `CommitsOnlySettled` counts the first commit of a group from where the process
  that makes it has started, and `WorkIsRedelivered` is about groups that have
  committed: without a committed offset a process starts at the end of the
  partition (`StartOffset: kafka.LastOffset`, consumer.go:31), and what one before
  it had fetched is skipped and passed by the next commit. For the same reason
  `EveryMessageIsDecided` is about messages that the process is in time for.
- `NoDuplicateWithoutTwins` leaves out rules that have shared a key: the key has the
  threshold in two decimals (alertengine.go:67), and of two rules with almost the
  same threshold, at prices between the two, one deletes the flag (91) that the
  other sets, so that the other fires at every such price. The rules of
  `MCAlertEngine` and its price 100002 are such; `NoCrossingMissed` holds all the
  same.
- `ReadYourStream` leaves out symbols whose `SetPrice` failed or was overtaken, or
  which Redis has forgotten: the handler ignores the error, nothing expires, and
  `/prices` serves the old price until the next.
- `AggregatedInOrder` leaves out redeliveries and republished copies, which carry an
  old price behind a newer one. The README of the repository promises the order
  per symbol (lines 57 and 138); a writer that took republished messages would
  break it, the pinned one takes none.
- `ScreenNeverGoesBack` leaves out a second r while an answer is on its way.
- `FirstPriceArrives` leaves out a server without a free slot.

Two properties are about what the code counts on, `RepublishAccepted = TRUE`:
`RetryIsInLog` and `DeadWereRetried` check the retry loop as it is written. With the
pinned kafka-go nothing is ever republished (`consumer_no_retry`).

That every event is aggregated is not a run of its own: the loop decides every
message (`EveryMessageIsDecided`) and counts none as handled without its aggregate
(`HandledIsPublished`).

Five runs show the code doing otherwise than a document or comment says:

| Run | Property violated | What happens |
|---|---|---|
| `consumer_shutdown` | `CommittedIsNotLost` | SIGTERM during a message: handler and dead letter write fail with the cancelled context, the offset is committed |
| `consumer_no_retry` | `DeadWereRetried` | the republishing is refused, so the first failure goes to the queue |
| `db_shutdown` | `ShutdownKeepsRows` | the last flush uses the cancelled context; committed prices in the batch are lost |
| `statistics_24h` | `StatisticsAreOfTheDay` | the change is counted from the first price of the process, however old, and the "24h High" and "24h Low" are those of 100 events, some eight minutes |
| `terminal_table` | `TableFollows` | after its first message the table neither reads on nor connects again |

## Fairness

The consume loop is weakly fair: it is a goroutine. `Fetch` is strongly fair: a
broker may refuse fetches, but not every one forever. Commits are sent (the
reader's loop ticks), and a stopped service is started again (`restart:
unless-stopped` in `docker-compose.yml`). In `DBWriter` the ticker ticks and a
transaction commits or fails. In `StreamingServer` the goroutines of clients are
strongly fair, because Go's RWMutex does not withhold the write lock from a
waiting goroutine forever, and because a client that stays reads its stream.
Nothing is assumed of arrivals, crashes, signals, or of clients leaving, which
also stands for the timeouts of the HTTP server that may end a stream; the end of
a shutdown is therefore claimed only once the clients have left
(`ShutdownEndsWithoutClients`).

`StreamingAPI` has the fairness of `StreamingServer`, of the handlers of `/prices`,
of calls to Redis, which have timeouts, of time and of `cleanup`, which sleeps a
minute and runs. `Pipeline` has safety properties only. In
`TerminalClient` commands run, ticks come, messages get their turn, and the
server is started again. Connecting is strongly fair: a server that is up with a
free slot may refuse some requests (the rate limiter's 429) but not all, because
a client waits 3 s after a failure. Nothing is assumed of prices, of streams that
end, or of the user.

Deadlock is checked but for `StreamingServer` and `StreamingAPI`, which end when
the process exits, `Pipeline`, which ends when its polls are used up, and
`TerminalClient`, whose user may quit.

## Proofs

Those of `KafkaConsumerProofs` are for any finite or infinite set of messages,
any `MaxRetries` and any number of faults, crashes and shutdowns; they use its
assumption `ConsumerAssumption` only.

That a commit passes settled messages only does not follow from the step that
makes it: the committed offset moves to `stash`, which moved to `pos` some steps
before. `ConsumerInv` says how far the process has got (`Frontier`: `pos`, or the
message before while one is in hand), that everything behind `base`, where the
process that found no offset has started, up to the frontier is settled, and that
`committed <= stash <= Frontier`. Those hold over a crash because `stash` is lost
with the process and `committed` is not, and over a restart because `pos` begins
at `committed`. `RetryIsInLog` and the part for faultless executions complete it.
`NextOK` has one step per action; the properties follow from the invariant:

| Theorem | States |
|---|---|
| `ConsumerInvariant` | `ConsumerInv` always holds |
| `TypeCorrect` | the type invariant |
| `CommitsPassSettledOnly` | `CommitsOnlySettled`, an action property |
| `WorkRedelivered` | `WorkIsRedelivered`, an action property |
| `RetriesStayInLog` | `RetryIsInLog` |
| `LossNeedsAFault` | `CommittedIsNotLost`, which is about messages behind `base`, without faults and shutdowns |
| `QueuedAsTheWriterAllows` | `DeadWereRetried` if the writer takes republished messages, `NothingIsRepublished` if it refuses them |
| `CommitsAreMonotonic` | `CommittedNeverRegresses` |

Those of `RateLimiterProofs` are for any sets of addresses and connections, any
rate, burst, idle time and delay that satisfy `LimiterAssumption` and
`RefillAssumption`. That a visitor which `cleanup` deletes has a full bucket is not
inductive: `LimiterInv` adds that two addresses never share a bucket
(`OwnBuckets`), that a request holds the bucket its address still has, whose
visitor was seen since (`HeldIsKnown`), and that a visitor which was not seen for
longer than a request can hold a bucket has had the tokens of each tick since
(`Rested`). From the last and `RefillAssumption` follows `IdleIsFull`, so that
`Sweep` is a stutter of `RequestQuota`; every other action is the action of the same
name.

| Theorem | States |
|---|---|
| `LimiterInvariant` | `LimiterInv` always holds |
| `TypeCorrect` | the type invariant: no bucket above its size |
| `HeldStaysKnown` | `HeldIsKnown`: the limiter from `getVisitor` is the address's still at `Allow` |
| `QuotaImplemented` | `ImplementsQuota` |

Those of `DBWriterProofs` are for any batch size, queue, rows, retry limit and
number of faults, crashes and shutdowns (`DBWriterAssumption`). Every step is first
shown to be a step or a stutter of the consume loop, so `ConsumerInv` comes from
`KafkaConsumerProofs`; it is not proved twice. `AcceptedIsKept` is not inductive:
while the handler writes a full batch, the price it was called for is in the batch
but not accepted, and a transaction of either goroutine may be applied and still
report an error. `BatchInv` says who holds the mutex over what, `KeptInv` where
each accepted price is, and `OwedInv` counts the prices that a stop lost and no
redelivery has brought back: a stop adds at most what the batch can hold of
accepted prices, `BatchSize - 1` and one more for each failed transaction.

| Theorem | States |
|---|---|
| `WriterInvariant` | `WriterInv` always holds |
| `TypeCorrect` | the type invariant |
| `AcceptedKept` | `AcceptedIsKept` |
| `LossBounded` | `LossBound` |
| `ReaderImplemented` | the steps of `ImplementsReader`: all of it but the fairness |

Those of `AlertEngineProofs` are for any default and posted rules, prices in `Nat`
and number of rules (`AlertAssumption`). `EngineInv` adds to the two properties that
as long as `twins` is FALSE no two rules share a key; a key that is removed is
then the key of no other rule, and an evaluation changes the flag of a rule by
that rule only. A crossing begins with a cleared flag (`FlagsAreExact`), and of
the rules of its key the first that is triggered raises an alert (`FirstRaises`):
that is `CrossingRaised`.

`LoopIsClosedForm` ties the closed form to the code: the loop goes through the rules in
order, and what it raises and which flags it leaves is what `AlertsOf` and
`FiredAfter` say, for any number of rules. The library's induction theorems cannot be
used here, so induction is over a set: if the numbers at which a statement fails
were not empty, there would be a least one (`UpToNumber`). `Progress` is that
statement: after `n` rules the loop has the alerts at positions up to `n` and has
decided the flags of those rules' keys. Of two rules with one key the later one decides.
`RaisesUnlessSet` and `Resets` say what one turn does to them.

| Theorem | States |
|---|---|
| `EngineInvariant` | `EngineInv` always holds |
| `TypeCorrect` | the type invariant |
| `FlagsExact` | `FlagsAreExact` |
| `NoDuplicate` | `NoDuplicateWithoutTwins` |
| `CrossingRaised` | `NoCrossingMissed`, an action property |
| `LoopIsClosedForm` | `EvaluateIsTheLoop` |

Those of `StreamingServerProofs` are for any finite set of connections, any
subscriptions, channel capacity, `MaxSSEClients` and number of messages
(`StreamingAssumption`). `HubInv` ties the client map and the closed channels to
where each goroutine is, `TodoInv` says that a broadcast only tries registered
clients: removing needs the lock that the broadcast holds, so nothing it tries is
closed. `SlotsAreExact` needs `SlotInv`: the counter is the number of connections
that count, and of those not more than `n` were given a number up to `n`,
however they race, so that not more than `MaxSSEClients` are let in. `LatestInv`
and `QueueInv` (what is in a channel is older than what is coming) carry
`NoGapAtConnect` and `ChannelInOrder`.

| Theorem | States |
|---|---|
| `ServerInvariant` | `ServerInv` always holds |
| `TypeCorrect` | the type invariant |
| `NeverSendsOnClosed` | `NoSendOnClosedChannel` |
| `SlotsExact` | `SlotsAreExact` |
| `NoGap` | `NoGapAtConnect` |
| `InOrder` | `ChannelInOrder` |

Those of `StreamingAPIProofs` are for any constants that satisfy `APIAssumption` and
the two of the limiter. The composition keeps the invariants of its parts: each
of its steps is a step or a stutter of the limiter and one of the server, which
the first lemmas show, and so `LimiterInv` and `ServerInv` are taken from the
modules where they are proved. `CacheInv` is new: if Redis answered at the start
(`NewClient`), each price that the handler is done with is in the hash, or a newer
one, unless its symbol is stale. `ReadYourStream`
follows from it for answers of Redis and from `LatestInv` for answers from memory.

| Theorem | States |
|---|---|
| `APIInvariant` | `APIInv` always holds |
| `APITypeCorrect` | `APITypeOK` |
| `APIImplementsQuota` | `ImplementsQuota` |
| `APIImplementsServer` | the steps of `StreamingServer`, without its fairness |
| `APIReadsItsStream` | `ReadYourStream`, an action property |

Those of `TerminalClientProofs` are for any screens, symbols, slots and numbers
of messages, rows, refreshes and stops (`ClientAssumption`). `flight` is a bag, and
a command in it is one of its `Threads`; the lemmas on bags say what handling a
message does to these. `OneThread` is kept by itself once `KindInv` excludes
answers of the history to other screens. For `ScreenNeverGoesBack`, `WatchInv` says
that what is on its way lies between what is shown and what the server has, and
`HistoryInv` that there is one answer at a time, unless r was pressed too soon.

| Theorem | States |
|---|---|
| `ClientInvariant` | `ClientInv` always holds |
| `TypeCorrect` | the type invariant |
| `OneThreadKept` | `OneThread` |
| `NeverGoesBack` | `ScreenNeverGoesBack`, an action property |

Those of `PipelineProofs` are for any prices, answers, walks, window size, retry
limit and number of copies, polls, faults, crashes and stops
(`AggregatorAssumption`, `PipelineAssumption`). The steps of the aggregator are
steps of the consume loop, and a write of the producer only appends to its
topic, so `ConsumerInv` comes from `KafkaConsumerProofs` again. The rest of
`PipelineInv` has a part for each question:

- `ProducerInv`, `MadeInv`, `SimulatedInv`: all events of the last poll are in the
  cache, so that a simulated price continues them; an event that was made stays
  made when it is given up, published twice or republished.
- `OrderInv`: messages that are no copies are in the order of the polls.
  `AggregatedInOrder` follows, because an aggregate is that of a message.
- `AggregateInv`: aggregates are of events in the topic, and a change of 1% or more
  without a percentage needs a base price of zero, which is `blanked`.
- `CopyInv`, `WindowInv`: a copy is behind its original and was bought by a fault
  or a shutdown, and the messages of a window were delivered at offsets that
  increase. So the repeated events of a window sit at different offsets, each a
  copy or a doubled write, which is `RepeatsBound`.

`AggregatesAreRight` has an invariant of its own, `GivenInv /\ RightInv`, which
rests on `PipelineInv`:

- `GivenInv`: the window of a symbol is the last `WindowSize` of the events behind
  `from` that the handler has been given, in their order, and the base price is
  that of the first ever given behind `from`, which is why
  `StatisticsAreOfTheDay` fails.
  The offsets of a window are not kept by the code: the invariant says that there
  are some which increase and which cover every event that is not older than the
  window. TLC checked it before it was proved.
- `RightInv`: what each aggregate in the topic says of a window is that of the
  events at those offsets. It stays so as the topic grows, because nothing behind
  an offset changes.

Between them lie two folds: `ComputeAggregate` goes through the window in order,
`AggregatesAreRight` sums over a set of offsets. `SumExists` and `SumIsUnique` say
that the sum over a set of offsets does not depend on the order; `TotalsAre`, by
induction over the window as above, that the fold has that sum, the extremes and
the exchanges; `WindowIsLatest` that the offsets of the window are those with
fewer than `WindowSize` successors.

| Theorem | States |
|---|---|
| `PipelineInvariant` | `PipelineInv` always holds |
| `PipelineTypeCorrect` | `PipelineTypeOK` |
| `PublishedWhenHandled` | `HandledIsPublished` |
| `InOrder` | `AggregatedInOrder` |
| `RepeatsBounded` | `RepeatsBound` |
| `ZeroFromBlank` | `ZeroNeedsBlank` |
| `SimulatedOK` | `SimulatedContinues` |
| `WindowsInvariant` | `GivenInv` and `RightInv` always hold |
| `AggregatesRight` | `AggregatesAreRight` |

Every safety property of the passing runs is proved. Only model-checked is
liveness, which is out of the prover's reach: `EveryMessageIsDecided`,
`AcceptedIsStored`, `AddressIsForgotten`, `ClientCatchesUp`,
`ShutdownEndsWithoutClients`, `FirstPriceArrives`, and with it the fairness that
`ImplementsReader` asks for beside the steps. Proved but not checked in a run are the
invariants that only the proofs need.

## Plan

Done: the modules above, and the proofs of every safety property of the passing
runs. Left are two questions that need state which the modules do
not have: the alert topic, for alerts that are dropped when publishing fails, and
several members of a group.

## Not modelled

JSON, metrics, logging, configuration and the text of the terminal screens: they
decide nothing. The internals of Kafka, PostgreSQL and Redis are modelled from
how the code uses them, and so is the token bucket of `golang.org/x/time/rate`, whose
tokens come in ticks here and continuously there. Rebalancing between instances of
a group is left out: a partition has one owner at a time, and its process is
`KafkaConsumer`. Creating topics and tables are calls at start. `SetPricesTTL`,
`GetPrice` and `Close` are called by no service.

## Running

```
tlc -config MCKafkaConsumer.cfg MCKafkaConsumer
tlapm KafkaConsumerProofs.tla
```
