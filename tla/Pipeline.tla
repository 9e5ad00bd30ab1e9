------------------------------ MODULE Pipeline ------------------------------
(***************************************************************************)
(* The price producer in front of the aggregator: the topic price-events   *)
(* is the log of the aggregator's consume loop, and the events in it are   *)
(* the producer's, beside messages of others that cannot be decoded.       *)
(***************************************************************************)
EXTENDS Aggregator

CONSTANTS
    BasePrices, Answers, Walks, MaxCopies, MaxPolls, MaxStops,  \* of PriceProducer
    PricesBy,   \* the prices there may be after each number of polls
    MaxTroubles, \* bound: crashes, signals and repeated writes together
    Day         \* how many polls there are in 24 hours (17280, one every 5 s)

VARIABLES
    phase, cache, todo, polls, since, blanked, stopping, stops

Producer == INSTANCE PriceProducer

ASSUME DayAssumption == Day \in Nat \ {0}

\* The built-in prices are positive, answers mention the symbols asked for,
\* and every event of the producer is a message of the topic.
ASSUME PipelineAssumption ==
    /\ \A s \in DOMAIN BasePrices : BasePrices[s] \in Nat \ {0}
    /\ \A answer \in Answers :
          /\ DOMAIN answer \subseteq DOMAIN BasePrices
          /\ \A s \in DOMAIN answer : answer[s] \in Nat
    /\ Walks \subseteq Int
    /\ MaxCopies \in Nat /\ MaxPolls \in Nat \ {0} /\ MaxStops \in Nat
    /\ PricesBy \in [0..MaxPolls -> SUBSET Nat]
    /\ \A n \in 1..MaxPolls :
          /\ \A answer \in Answers :
                \A s \in DOMAIN answer : answer[s] \in PricesBy[n]
          /\ \A p \in PricesBy[n - 1] \cup {BasePrices[s] : s \in DOMAIN BasePrices} :
                {p} \cup Producer!WalksFrom(p) \subseteq PricesBy[n]
          /\ [symbol : DOMAIN BasePrices, price : PricesBy[n], volume : {1},
              exchange : {"coingecko", "simulated"}, poll : {n}, since : 1..n]
             \subseteq DOMAIN Event
    /\ \A e \in DOMAIN Event : Event[e] = e /\ e.poll \in Nat /\ e.since \in Nat

producerVars == <<phase, cache, todo, polls, since, blanked, stopping, stops>>
pipelineVars == <<vars, producerVars>>

PipelineInit == Init /\ Producer!Init

----------------------------------------------------------------------------

\* An event is published, in n copies: Produce of the consume loop, n times.
Appended(e, n) ==
    /\ log' = log \o [k \in 1..n |-> [id |-> e, retry |-> 0]]
    /\ UNCHANGED <<committed, pc, pos, stash, cancelled, base, handled, retried,
                   dead, dropped, faults, crashes, shutdowns, aggVars>>

Publishing ==
    \E e \in todo, n \in 0..MaxCopies :
        /\ Producer!Publish(e, n) \/ Producer!PublishFails(e, n)
        /\ Appended(e, n)

Producing == Publishing \/ (Producer!Silent /\ UNCHANGED vars)

\* A message that is no price event; bound: as the first of the topic.
Foreign == log = <<>> /\ (\E i \in Poison : Reader!Produce(i)) /\ UNCHANGED aggVars

Stopping == (Reader!Crash \/ Reader!Cancel) /\ UNCHANGED aggVars

Aggregating == Stopping \/ FlushCommits \/ Start \/ Loop

\* The offsets that hold a second copy from the producer.
Repeats == {o \in DOMAIN log : \E q \in 1..(o - 1) : log[q] = log[o] /\ log[o].retry = 0}
Troubles == crashes + shutdowns + stops + Cardinality(Repeats)

PipelineNext ==
    /\ \/ Producing
       \/ (Foreign \/ Aggregating) /\ UNCHANGED producerVars
    /\ Troubles' <= MaxTroubles

PipelineSpec == PipelineInit /\ [][PipelineNext]_pipelineVars

----------------------------------------------------------------------------
(* Properties. *)

PipelineTypeOK ==
    /\ TypeOK
    /\ Producer!TypeOK
    /\ todo \subseteq DOMAIN Event

IsEvent(o) == log[o].id \notin Poison
EventAt(o) == Event[log[o].id]

\* Aggregates are published in the order of the prices: an older price follows
\* a newer one of its symbol only from a copy that the aggregator republished
\* after a failure, or because the event is delivered again after a restart.
AggregatedInOrder ==
    \A m, n \in DOMAIN aggregated :
        LET old == aggregated[n].offset  new == aggregated[m].offset
        IN  m < n /\ EventAt(old).symbol = EventAt(new).symbol
              /\ EventAt(old).poll < EventAt(new).poll
              => log[old].retry > 0 \/ old < new

\* An event counts more than once in a window only if publishing its aggregate
\* failed, by itself or in a shutdown, or the producer's write reached the topic
\* twice: that messages are delivered again after a crash does not add to it.
Repeated(s) ==
    {k \in DOMAIN windows[s] : \E j \in 1..(k - 1) : windows[s][j] = windows[s][k]}
RepeatsBound ==
    \A s \in Symbols :
        Cardinality(Repeated(s)) <= faults + shutdowns + Cardinality(Repeats)

\* An answer without a price is the only source of the price zero, and of an
\* aggregate that shows no percentage for a change of 1% or more: with a base
\* price of zero it never will.
ZeroNeedsBlank ==
    /\ \A o \in DOMAIN log :
          IsEvent(o) /\ EventAt(o).price = 0 => EventAt(o).symbol \in blanked
    /\ \A n \in DOMAIN aggregated :
          LET agg  == aggregated[n].agg
              size == IF agg.change < 0 THEN -agg.change ELSE agg.change
          IN  agg.change # 0 /\ size * 100 >= agg.price - agg.change
                  /\ agg.changePct = 0
              => EventAt(aggregated[n].offset).symbol \in blanked

\* Simulated prices continue what the process published at the poll before,
\* fetched or simulated, within 0.5%; only at its first poll is there a jump,
\* to the built-in prices.
Within(p, q) == (p - q) * 200 <= q /\ (q - p) * 200 <= q
SimulatedContinues ==
    \A o \in DOMAIN log : IsEvent(o) /\ EventAt(o).exchange = "simulated" =>
        LET e == EventAt(o)
        IN  /\ e.poll = e.since => Within(e.price, BasePrices[e.symbol])
            /\ \A q \in DOMAIN log :
                  /\ IsEvent(q) /\ EventAt(q).symbol = e.symbol
                  /\ EventAt(q).since = e.since /\ EventAt(q).poll = e.poll - 1
                  => Within(e.price, EventAt(q).price)

\* Once a process has been given prices of a symbol for longer than a day, one
\* of them a day ago, the change of the symbol's aggregates is from a price that
\* is no older, and no price of that day is above their high or below their low:
\* so Change24h, the comment on BasePrice and the labels "24h High" and "24h Low".
StatisticsAreOfTheDay ==
    \A n \in DOMAIN aggregated :
        LET agg    == aggregated[n].agg
            o      == aggregated[n].offset
            given  == SameSymbol(aggregated[n].from, o)
            age(q) == EventAt(o).poll - EventAt(q).poll
            day    == {q \in given : age(q) <= Day}
        IN  (\E q \in given : age(q) = Day) /\ day # given =>
                /\ \E q \in day : agg.change = EventAt(o).price - EventAt(q).price
                /\ \A q \in day : EventAt(q).price \in agg.low..agg.high

=============================================================================
