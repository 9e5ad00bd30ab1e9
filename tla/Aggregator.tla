----------------------------- MODULE Aggregator -----------------------------
(***************************************************************************)
(* services/price-aggregator: the consume loop of KafkaConsumer whose      *)
(* handler adds each price event to the window of its symbol               *)
(* (internal/domain/aggregator.go) and then publishes the aggregate of the *)
(* window.  The window is kept in memory, and adding is not undone when    *)
(* publishing fails.                                                       *)
(*                                                                         *)
(* Adding and publishing are one step: the window is read by the handler   *)
(* only, so that nothing can tell a crash or a signal between them from    *)
(* one before.  Prices are integers; the average is kept as its sum, and   *)
(* the percentage is rounded down.                                         *)
(***************************************************************************)
EXTENDS Integers, Sequences, FiniteSetsExt, SequencesExt

CONSTANTS
    Ids, Poison, MaxRetries, MaxFaults, RepublishAccepted, MaxCrashes,
    MaxShutdowns,   \* of the consume loop
    Event,          \* the price event that a message holds
    WindowSize      \* how many events a window keeps (100)

ASSUME AggregatorAssumption ==
    /\ WindowSize \in Nat \ {0}
    /\ Poison \subseteq Ids /\ DOMAIN Event = Ids \ Poison
    /\ \A i \in DOMAIN Event : Event[i].price \in Nat /\ Event[i].volume \in Nat
    /\ MaxRetries \in Nat /\ MaxFaults \in Nat /\ RepublishAccepted \in BOOLEAN
    /\ MaxCrashes \in Nat /\ MaxShutdowns \in Nat

VARIABLES
    log, committed, pc, pos, stash, cancelled, base,
    handled, retried, dead, dropped,
    faults, crashes, shutdowns

Reader == INSTANCE KafkaConsumer

VARIABLES
    windows,    \* a.windows: the messages whose events are in each window
    basePrice,  \* BasePrice of each window, NoPrice if there is no window
    aggregated, \* the topic the aggregates go to
    from        \* history: the offset the process began behind

loopVars == <<log, committed, pc, pos, stash, cancelled, base,
              handled, retried, dead, dropped, faults, crashes, shutdowns>>
aggVars == <<windows, basePrice, aggregated, from>>
vars == <<loopVars, aggVars>>

Symbols == {Event[i].symbol : i \in DOMAIN Event}
Prices == {Event[i].price : i \in DOMAIN Event}
NoPrice == -1

NoWindows == [s \in Symbols |-> <<>>]
NoPrices == [s \in Symbols |-> NoPrice]

Init ==
    /\ Reader!Init
    /\ windows = NoWindows
    /\ basePrice = NoPrices
    /\ aggregated = <<>>
    /\ from = 0

----------------------------------------------------------------------------
(* PriceAggregator. *)

\* What computeAggregate keeps of one event after another.
AddUp(acc, p) ==
    [sum       |-> acc.sum + p.price,
     volume    |-> acc.volume + p.volume,
     exchanges |-> acc.exchanges \cup {p.exchange},
     high      |-> IF p.price > acc.high THEN p.price ELSE acc.high,
     low       |-> IF p.price < acc.low THEN p.price ELSE acc.low]

Totals(w, high, low) ==
    FoldLeft(AddUp, [sum |-> 0, volume |-> 0, exchanges |-> {},
                     high |-> high, low |-> low], w)

\* Variant: high and low start at zero.
ComputeFromZero(w, first) ==
    LET all  == Totals(w, 0, 0)
        last == w[Len(w)].price
    IN  [price |-> last, sum |-> all.sum, count |-> Len(w),
         high |-> all.high, low |-> all.low, volume |-> all.volume,
         exchangeCount |-> Cardinality(all.exchanges),
         change |-> last - first,
         changePct |-> IF first > 0 THEN ((last - first) * 100) \div first ELSE 0]

\* The aggregate of a window's events, first being its base price.
ComputeAggregate(w, first) ==
    LET all  == Totals(w, w[1].price, w[1].price)
        last == w[Len(w)].price
    IN  [price |-> last, sum |-> all.sum, count |-> Len(w),
         high |-> all.high, low |-> all.low, volume |-> all.volume,
         exchangeCount |-> Cardinality(all.exchanges),
         change |-> last - first,
         changePct |-> IF first > 0 THEN ((last - first) * 100) \div first ELSE 0]

\* Variant: the window keeps one event too many.
LastOfMore(n, w) ==
    IF Len(w) > n + 1 THEN SubSeq(w, Len(w) - n, Len(w)) ELSE w

LastOf(n, w) == IF Len(w) > n THEN SubSeq(w, Len(w) - n + 1, Len(w)) ELSE w

\* Add: the window of the message's symbol, and its base price, afterwards.
Incoming == log[pos].id
Symbol == Event[Incoming].symbol
WindowAfter == LastOf(WindowSize, Append(windows[Symbol], Incoming))
BaseAfter ==
    IF basePrice[Symbol] = NoPrice THEN Event[Incoming].price ELSE basePrice[Symbol]
Aggregate ==
    ComputeAggregate([k \in DOMAIN WindowAfter |-> Event[WindowAfter[k]]], BaseAfter)

Add ==
    /\ windows' = [windows EXCEPT ![Symbol] = WindowAfter]
    /\ basePrice' = [basePrice EXCEPT ![Symbol] = BaseAfter]
    /\ UNCHANGED from

----------------------------------------------------------------------------
(* The service. *)

Published == Append(aggregated, [offset |-> pos, from |-> from, agg |-> Aggregate])

\* The handler adds the event, and the aggregate is published.
AddAndPublish ==
    /\ pc = "handler"
    /\ Incoming \notin Poison
    /\ Add
    /\ aggregated' = Published
    /\ Reader!HandlerOk

\* Variant: an aggregate that cannot be published is logged, and the handler
\* returns nil.
PublishFailsUnnoticed ==
    /\ pc = "handler"
    /\ Incoming \notin Poison
    /\ Add
    /\ Reader!HandlerOk
    /\ UNCHANGED aggregated

\* The handler adds the event and returns the error of Publish, after which
\* the aggregate may be in the topic all the same.
PublishFails ==
    /\ pc = "handler"
    /\ Incoming \notin Poison
    /\ Add
    /\ aggregated' \in {aggregated, Published}
    /\ Reader!HandlerErr

\* The handler returns an error before it adds anything.
DecodeFails ==
    /\ pc = "handler"
    /\ Incoming \in Poison
    /\ Reader!HandlerErr /\ UNCHANGED faults
    /\ UNCHANGED aggVars

\* Variant: the windows outlive the process.
StartWithWindows ==
    /\ Reader!Start
    /\ from' = pos'
    /\ UNCHANGED <<windows, basePrice, aggregated>>

\* The process starts with empty windows.
Start ==
    /\ Reader!Start
    /\ windows' = NoWindows
    /\ basePrice' = NoPrices
    /\ from' = pos'
    /\ UNCHANGED aggregated

Fetch == Reader!Fetch /\ UNCHANGED aggVars

\* The steps of the loop outside the handler.
LoopStep == pc # "handler" /\ Reader!Consume /\ UNCHANGED aggVars

Environment ==
    /\ \/ \E i \in Ids : Reader!Produce(i)
       \/ Reader!Crash \/ Reader!Cancel
    /\ UNCHANGED aggVars

FlushCommits == Reader!FlushCommits /\ UNCHANGED aggVars

Loop == Fetch \/ LoopStep \/ AddAndPublish \/ PublishFails \/ DecodeFails

Next == Environment \/ FlushCommits \/ Start \/ Loop

Spec == Init /\ [][Next]_vars

----------------------------------------------------------------------------
(* Properties. *)

TypeOK ==
    /\ Reader!TypeOK
    /\ windows \in [Symbols -> Seq(DOMAIN Event)]
    /\ \A s \in Symbols :
          /\ Len(windows[s]) <= WindowSize
          /\ \A k \in DOMAIN windows[s] : Event[windows[s][k]].symbol = s
    /\ basePrice \in [Symbols -> Prices \cup {NoPrice}]
    /\ from \in 0..Len(log)

\* The offsets behind f and up to o whose events are of o's symbol.
SameSymbol(f, o) ==
    {n \in (f + 1)..o : /\ log[n].id \notin Poison
                        /\ Event[log[n].id].symbol = Event[log[o].id].symbol}

\* Those of them that have fewer than WindowSize successors.
Recent(f, o) ==
    {n \in SameSymbol(f, o) :
        Cardinality({k \in SameSymbol(f, o) : k > n}) < WindowSize}

\* What an aggregate says of the window is that of the last WindowSize events of
\* its symbol that its process had been given, each counted once for each
\* delivery, whatever publishing failed before: price, count, sums, extremes and
\* number of exchanges.  Its change is not of the window: see StatisticsAreOfTheDay.
IsAggregateOf(agg, f, o) ==
    LET price(n)  == Event[log[n].id].price
        volume(n) == Event[log[n].id].volume
        recent    == Recent(f, o)
    IN  /\ agg.price = price(o)
        /\ agg.count = Cardinality(recent)
        /\ agg.sum = MapThenSumSet(price, recent)
        /\ agg.volume = MapThenSumSet(volume, recent)
        /\ agg.high = Max({price(n) : n \in recent})
        /\ agg.low = Min({price(n) : n \in recent})
        /\ agg.exchangeCount = Cardinality({Event[log[n].id].exchange : n \in recent})
AggregatesAreRight ==
    \A n \in DOMAIN aggregated :
        IsAggregateOf(aggregated[n].agg, aggregated[n].from, aggregated[n].offset)

\* An event that the consume loop counts as handled has its aggregate in the
\* topic: no commit hides a publish that failed.
HandledIsPublished ==
    \A o \in handled : \E n \in DOMAIN aggregated : aggregated[n].offset = o

=============================================================================
