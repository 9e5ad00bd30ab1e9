--------------------------- MODULE PipelineProofs ---------------------------
(***************************************************************************)
(* The producer, the topic and the aggregator, for any prices, walks,      *)
(* window, retry limit and number of faults, crashes and stops.            *)
(*                                                                         *)
(* PipelineInv has a part for each thing that the properties are about:    *)
(* the producer's memory, the events of the polls, their order in the      *)
(* topic, the aggregates, and the copies.  GivenInv and RightInv, at the   *)
(* end of the module, say what the windows hold and that the aggregates    *)
(* are those of such windows; they need to know what the folds of          *)
(* computeAggregate and of AggregatesAreRight return, which the lemmas on  *)
(* sums say of any number of events.                                       *)
(***************************************************************************)
EXTENDS Pipeline, FiniteSetTheorems, SequenceTheorems, WellFoundedInduction, TLAPS

Consumer == INSTANCE KafkaConsumerProofs

\* The events that the producer has made and not given up unpublished.
Made == {e \in DOMAIN Event : e \in todo \/ \E o \in DOMAIN log : log[o].id = e}

\* What the producer remembers, and how far it is.
ProducerInv ==
    /\ phase \in {"fetch", "wait"} => todo = {}
    /\ phase = "fetch" => polls < MaxPolls
    /\ since <= polls + 1
    /\ phase # "down" /\ since = polls + 1 => DOMAIN cache = {}
    /\ \A s \in DOMAIN cache :
          /\ polls > 0 /\ cache[s] \in PricesBy[polls]
          /\ cache[s] = 0 => s \in blanked

\* The events of the last poll are those in the cache.
MadeInv ==
    /\ \A e \in todo : phase = "publish" => e.poll = polls
    /\ \A e \in Made :
          /\ e.since <= e.poll /\ e.poll <= polls
          /\ e.price = 0 => e.symbol \in blanked
          /\ e.since = since /\ e.poll = polls =>
                e.symbol \in DOMAIN cache /\ cache[e.symbol] = e.price

Continues(e) ==
    /\ e.poll = e.since => Within(e.price, BasePrices[e.symbol])
    /\ \A d \in Made :
          d.symbol = e.symbol /\ d.since = e.since /\ d.poll = e.poll - 1
             => Within(e.price, d.price)
SimulatedInv == \A e \in Made : e.exchange = "simulated" => Continues(e)

\* What is in the topic for the first time is in the order of the polls.
OrderInv ==
    \A o, q \in DOMAIN log :
        IsEvent(o) /\ IsEvent(q) /\ log[o].retry = 0 /\ EventAt(o).poll < EventAt(q).poll
           => o < q

ZeroIsBlank(agg, s) ==
    LET size == IF agg.change < 0 THEN -agg.change ELSE agg.change
    IN  agg.change # 0 /\ size * 100 >= agg.price - agg.change /\ agg.changePct = 0
           => s \in blanked

IsShown(r) ==
    /\ r.offset \in DOMAIN log /\ IsEvent(r.offset)
    /\ ZeroIsBlank(r.agg, EventAt(r.offset).symbol)

AggregateInv ==
    /\ aggregated \in Seq({aggregated[n] : n \in DOMAIN aggregated})
    /\ HandledIsPublished
    /\ \A n \in DOMAIN aggregated : IsShown(aggregated[n])
    /\ \A s \in Symbols : basePrice[s] = 0 => s \in blanked

\* A copy is behind its original.  The copies of events that the loop has
\* republished, and the one more that a failing or a cancelled process may
\* still add, are bought by a fault or a shutdown each.
Copies == {o \in DOMAIN log : IsEvent(o) /\ log[o].retry > 0}
MayCopy ==
    \/ pc = "failure" /\ Incoming \notin Poison
    \/ cancelled /\ pc \in {"fetch", "handler"}
CopyInv ==
    /\ \A o \in DOMAIN log : \E q \in 1..o : log[q] = [id |-> log[o].id, retry |-> 0]
    /\ Cardinality(Copies) + (IF MayCopy THEN 1 ELSE 0) <= faults + shutdowns

\* The messages of a window were delivered by this process at offsets that
\* follow one another.
Delivered == IF pc = "handler" THEN pos - 1 ELSE pos
IsAt(offs, w) ==
    /\ \A j, k \in DOMAIN w : j < k => offs[j] < offs[k]
    /\ \A k \in DOMAIN w : offs[k] <= Delivered /\ log[offs[k]].id = w[k]
WindowInv ==
    \A s \in Symbols :
        \E offs \in [DOMAIN windows[s] -> DOMAIN log] : IsAt(offs, windows[s])

PipelineInv ==
    /\ PipelineTypeOK /\ Reader!ConsumerInv
    /\ ProducerInv /\ MadeInv /\ SimulatedInv
    /\ OrderInv /\ AggregateInv /\ CopyInv /\ WindowInv

----------------------------------------------------------------------------
(* The consume loop in the aggregator. *)

\* KafkaConsumerProofs is about the same loop, under another name.
LEMMA SameLoop ==
    /\ Consumer!Init = Reader!Init
    /\ [Consumer!Next]_(Consumer!vars) <=> [Reader!Next]_(Reader!vars)
    /\ Consumer!ConsumerInv <=> Reader!ConsumerInv
    /\ Consumer!ConsumerInv' <=> Reader!ConsumerInv'
<1>1. Consumer!vars = Reader!vars /\ (UNCHANGED Consumer!vars <=> UNCHANGED Reader!vars)
  BY DEF Consumer!vars, Reader!vars, Consumer!topicVars, Reader!topicVars,
         Consumer!readerVars, Reader!readerVars, Consumer!fateVars, Reader!fateVars,
         Consumer!stopVars, Reader!stopVars
<1>2. Consumer!Init = Reader!Init
  BY DEF Consumer!Init, Reader!Init, Consumer!NoOffset, Reader!NoOffset
<1>3. Consumer!Next <=> Reader!Next
  BY DEF Consumer!Next, Reader!Next, Consumer!Produce, Reader!Produce,
         Consumer!Start, Reader!Start, Consumer!Crash, Reader!Crash,
         Consumer!Cancel, Reader!Cancel, Consumer!FlushCommits, Reader!FlushCommits,
         Consumer!Consume, Reader!Consume, Consumer!BeginFetch, Reader!BeginFetch,
         Consumer!ExitClosing, Reader!ExitClosing, Consumer!Fetch, Reader!Fetch,
         Consumer!FetchError, Reader!FetchError,
         Consumer!ExitFetching, Reader!ExitFetching,
         Consumer!HandlerOk, Reader!HandlerOk, Consumer!HandlerErr, Reader!HandlerErr,
         Consumer!HandleFailure, Reader!HandleFailure, Consumer!Retry, Reader!Retry,
         Consumer!RetryFails, Reader!RetryFails,
         Consumer!RetriesExhausted, Reader!RetriesExhausted,
         Consumer!SendToDLQ, Reader!SendToDLQ,
         Consumer!SendToDLQFails, Reader!SendToDLQFails,
         Consumer!Commit, Reader!Commit, Consumer!CommitError, Reader!CommitError,
         Consumer!Fail, Reader!Fail, Consumer!Goto, Reader!Goto,
         Consumer!Republished, Reader!Republished, Consumer!NoOffset, Reader!NoOffset,
         Consumer!topicVars, Reader!topicVars, Consumer!readerVars, Reader!readerVars,
         Consumer!fateVars, Reader!fateVars, Consumer!stopVars, Reader!stopVars
<1>4. /\ Consumer!ConsumerInv <=> Reader!ConsumerInv
      /\ Consumer!ConsumerInv' <=> Reader!ConsumerInv'
  BY DEF Consumer!ConsumerInv, Reader!ConsumerInv, Consumer!TypeOK, Reader!TypeOK,
         Consumer!ReaderInv, Reader!ReaderInv, Consumer!OffsetInv, Reader!OffsetInv,
         Consumer!RetryIsInLog, Reader!RetryIsInLog,
         Consumer!FaultlessInv, Reader!FaultlessInv,
         Consumer!Message, Reader!Message, Consumer!Phase, Reader!Phase,
         Consumer!SettledUpTo, Reader!SettledUpTo, Consumer!Settled, Reader!Settled,
         Consumer!Frontier, Reader!Frontier, Consumer!InHand, Reader!InHand,
         Consumer!NoOffset, Reader!NoOffset
<1> QED BY <1>1, <1>2, <1>3, <1>4

\* The loop keeps its invariant by itself.
LEMMA LoopInvariant ==
    /\ Reader!Init => Reader!ConsumerInv
    /\ Reader!ConsumerInv /\ [Reader!Next]_(Reader!vars) => Reader!ConsumerInv'
<1>1. /\ Poison \subseteq Ids /\ MaxRetries \in Nat /\ MaxFaults \in Nat
      /\ RepublishAccepted \in BOOLEAN /\ MaxCrashes \in Nat /\ MaxShutdowns \in Nat
  BY AggregatorAssumption DEF AggregatorAssumption
<1>2. Consumer!Init => Consumer!ConsumerInv
  BY <1>1, Consumer!InitOK
<1>3. Consumer!ConsumerInv /\ [Consumer!Next]_(Consumer!vars) => Consumer!ConsumerInv'
  BY <1>1, Consumer!NextOK
<1> QED BY <1>2, <1>3, SameLoop

\* What the parts of the invariant say of the message in hand and of events.
LEMMA LoopFacts ==
    ASSUME Reader!ConsumerInv
    PROVE  /\ log \in Seq(Reader!Message) /\ DOMAIN log = 1..Len(log) /\ Len(log) \in Nat
           /\ \A o \in DOMAIN log :
                 /\ log[o] \in [id : Ids, retry : 0..MaxRetries]
                 /\ log[o].id \in Ids /\ log[o].retry \in Nat
                 /\ IsEvent(o) => log[o].id \in DOMAIN Event /\ EventAt(o) = log[o].id
           /\ pos \in Nat
           /\ pc \in {"handler", "failure", "dlq", "commit"} => pos \in DOMAIN log
           /\ handled \subseteq DOMAIN log
           /\ faults \in Nat /\ shutdowns \in Nat /\ cancelled \in BOOLEAN
<1>1. Reader!TypeOK
  BY DEF Reader!ConsumerInv
<1>2. ASSUME NEW o \in DOMAIN log
      PROVE  /\ log[o] \in [id : Ids, retry : 0..MaxRetries]
             /\ log[o].id \in Ids /\ log[o].retry \in Nat
             /\ IsEvent(o) => log[o].id \in DOMAIN Event /\ EventAt(o) = log[o].id
  <2>1. log[o] \in [id : Ids, retry : 0..MaxRetries]
    <3>1. log \in Seq(Reader!Message)
      BY <1>1 DEF Reader!TypeOK
    <3>2. log[o] \in Reader!Message
      BY <3>1
    <3> QED BY <3>2 DEF Reader!Message
  <2>2. log[o].id \in Ids /\ log[o].retry \in 0..MaxRetries
    BY <2>1
  <2>3. IsEvent(o) => log[o].id \in DOMAIN Event
    BY <2>2, AggregatorAssumption DEF AggregatorAssumption, IsEvent
  <2>4. IsEvent(o) => EventAt(o) = log[o].id
    BY <2>3, PipelineAssumption DEF PipelineAssumption, EventAt
  <2> QED BY <2>1, <2>2, <2>3, <2>4, AggregatorAssumption DEF AggregatorAssumption
<1>3. pc \in {"handler", "failure", "dlq", "commit"} => pos \in DOMAIN log
  BY <1>1 DEF Reader!TypeOK, Reader!ConsumerInv, Reader!ReaderInv, Reader!InHand
<1>4. faults \in Nat /\ shutdowns \in Nat
  BY <1>1, AggregatorAssumption DEF Reader!TypeOK, AggregatorAssumption
<1> QED BY <1>1, <1>2, <1>3, <1>4 DEF Reader!TypeOK

----------------------------------------------------------------------------
(* What a step does to the topic. *)

LEMMA EventsAfter ==
    ASSUME Reader!ConsumerInv'
    PROVE  /\ log' \in Seq(Reader!Message) /\ DOMAIN log' = 1..Len(log') /\ Len(log') \in Nat
           /\ \A o \in DOMAIN log' :
                 /\ log'[o] \in [id : Ids, retry : 0..MaxRetries]
                 /\ IsEvent(o)' => log'[o].id \in DOMAIN Event /\ EventAt(o)' = log'[o].id
<1>1. log' \in Seq(Reader!Message)
  BY DEF Reader!ConsumerInv, Reader!TypeOK, Reader!Message
<1>2. \A o \in DOMAIN log' : log'[o] \in Reader!Message
  BY <1>1
<1>3. \A o \in DOMAIN log' : log'[o] \in [id : Ids, retry : 0..MaxRetries]
  BY <1>2 DEF Reader!Message
<1>4. \A o \in DOMAIN log' : IsEvent(o)' => log'[o].id \in DOMAIN Event
  BY <1>3, AggregatorAssumption DEF AggregatorAssumption, IsEvent
<1>5. \A o \in DOMAIN log' : IsEvent(o)' => EventAt(o)' = log'[o].id
  BY <1>4, PipelineAssumption DEF PipelineAssumption, EventAt
<1> QED BY <1>1, <1>3, <1>4, <1>5

\* A write appends copies of one message to the topic and changes nothing else
\* of the loop's.
LEMMA AppendsKeepLoop ==
    ASSUME Reader!ConsumerInv, NEW e \in Ids, NEW n \in Nat, Appended(e, n)
    PROVE  /\ Reader!ConsumerInv'
           /\ log' \in Seq(Reader!Message) /\ Len(log') = Len(log) + n
           /\ \A o \in DOMAIN log : log'[o] = log[o]
           /\ \A o \in DOMAIN log' : o > Len(log) => log'[o] = [id |-> e, retry |-> 0]
<1> DEFINE new == [k \in 1..n |-> [id |-> e, retry |-> 0]]
<1>1. /\ Reader!TypeOK /\ Reader!ReaderInv /\ Reader!OffsetInv
      /\ Reader!RetryIsInLog /\ Reader!FaultlessInv
  BY DEF Reader!ConsumerInv
<1>2. /\ log \in Seq(Reader!Message) /\ DOMAIN log = 1..Len(log) /\ Len(log) \in Nat
      /\ pos \in Nat /\ base \in 0..Len(log)
  BY <1>1, LoopFacts DEF Reader!TypeOK
<1>3. new \in Seq(Reader!Message) /\ Len(new) = n
  <2>1. [id |-> e, retry |-> 0] \in Reader!Message
    BY AggregatorAssumption DEF AggregatorAssumption, Reader!Message
  <2> QED BY <2>1
<1>4. /\ log' = log \o new
      /\ UNCHANGED <<committed, pc, pos, stash, cancelled, base, handled, retried,
                     dead, dropped, faults, crashes, shutdowns>>
  BY DEF Appended
<1>5. /\ log' \in Seq(Reader!Message) /\ Len(log') = Len(log) + n
      /\ DOMAIN log' = 1..(Len(log) + n)
      /\ \A o \in DOMAIN log : log'[o] = log[o]
      /\ \A o \in DOMAIN log' : o > Len(log) => log'[o] = new[o - Len(log)]
  <2> HIDE DEF new
  <2>1. /\ log \o new \in Seq(Reader!Message) /\ Len(log \o new) = Len(log) + n
        /\ \A o \in 1..(Len(log) + n) :
              (log \o new)[o] = IF o <= Len(log) THEN log[o] ELSE new[o - Len(log)]
    BY <1>2, <1>3, ConcatProperties
  <2>2. DOMAIN (log \o new) = 1..(Len(log) + n)
    BY <2>1
  <2> QED BY <1>2, <1>4, <2>1, <2>2
<1>6. \A o \in DOMAIN log' : o > Len(log) => log'[o] = [id |-> e, retry |-> 0]
  <2> SUFFICES ASSUME NEW o \in DOMAIN log', o > Len(log)
               PROVE  log'[o] = [id |-> e, retry |-> 0]
    OBVIOUS
  <2>1. o - Len(log) \in 1..n
    BY <1>2, <1>5
  <2> QED BY <1>5, <2>1
<1> HIDE DEF new
<1>7. DOMAIN log \subseteq DOMAIN log' /\ Len(log') >= Len(log) /\ Len(log') \in Nat
  BY <1>2, <1>5
<1>8. Reader!TypeOK'
  BY <1>1, <1>2, <1>4, <1>5, <1>7 DEF Reader!TypeOK
<1>9. Reader!ReaderInv' /\ Reader!OffsetInv'
  BY <1>1, <1>2, <1>4, <1>5, <1>7
     DEF Reader!TypeOK, Reader!ReaderInv, Reader!OffsetInv, Reader!SettledUpTo,
         Reader!Frontier, Reader!InHand, Reader!Settled, Reader!NoOffset
<1>10. Reader!RetryIsInLog'
  <2>1. SUFFICES ASSUME NEW o \in retried
                 PROVE  \E c \in (o + 1)..Len(log') :
                            log'[c] = [log'[o] EXCEPT !.retry = @ + 1]
    BY <1>4 DEF Reader!RetryIsInLog
  <2>2. PICK c \in (o + 1)..Len(log) : log[c] = [log[o] EXCEPT !.retry = @ + 1]
    BY <1>1 DEF Reader!RetryIsInLog
  <2>3. o \in DOMAIN log /\ c \in DOMAIN log /\ c \in (o + 1)..Len(log')
    BY <1>1, <1>2, <1>7, <2>2 DEF Reader!TypeOK
  <2> QED BY <1>5, <2>2, <2>3
<1>11. Reader!FaultlessInv'
  <2>1. pc = "dlq" => pos \in DOMAIN log
    BY LoopFacts
  <2> QED BY <1>1, <1>4, <1>5, <2>1 DEF Reader!TypeOK, Reader!FaultlessInv
<1>12. Reader!ConsumerInv'
  BY <1>8, <1>9, <1>10, <1>11 DEF Reader!ConsumerInv
<1> QED BY <1>5, <1>6, <1>12

\* The aggregator's own steps are steps of the loop.
LEMMA AggregatingImplements ==
    Foreign \/ Aggregating => Reader!Next
<1> SUFFICES ASSUME Foreign \/ Aggregating PROVE Reader!Next
  OBVIOUS
<1>1. CASE Foreign
  BY <1>1, AggregatorAssumption DEF Foreign, Reader!Next, AggregatorAssumption
<1>2. CASE Stopping \/ FlushCommits \/ Start
  BY <1>2 DEF Stopping, FlushCommits, Start, Reader!Next
<1>3. CASE Fetch \/ LoopStep
  BY <1>3 DEF Fetch, LoopStep, Reader!Next, Reader!Consume
<1>4. CASE AddAndPublish \/ PublishFails
  BY <1>4 DEF AddAndPublish, PublishFails, Reader!Next, Reader!Consume
<1>5. CASE DecodeFails
  BY <1>5 DEF DecodeFails, Reader!Next, Reader!Consume
<1> QED BY <1>1, <1>2, <1>3, <1>4, <1>5 DEF Aggregating, Loop

\* They append nothing, or the copy of a message that was rejected.
LEMMA AggregatingLog ==
    Aggregating => \/ UNCHANGED log
                   \/ pc = "failure" /\ log' = Append(log, Reader!Republished)
<1> SUFFICES ASSUME Aggregating
             PROVE  \/ UNCHANGED log
                    \/ pc = "failure" /\ log' = Append(log, Reader!Republished)
  OBVIOUS
<1> USE DEF Reader!topicVars, Reader!Goto
<1>1. CASE Stopping \/ FlushCommits \/ Start \/ Fetch
  BY <1>1 DEF Stopping, FlushCommits, Start, Fetch, Reader!Crash, Reader!Cancel,
              Reader!FlushCommits, Reader!Start, Reader!Fetch
<1>2. CASE AddAndPublish \/ PublishFails \/ DecodeFails
  BY <1>2 DEF AddAndPublish, PublishFails, DecodeFails, Reader!HandlerOk, Reader!HandlerErr
<1>3. CASE LoopStep
  BY <1>3 DEF LoopStep, Reader!Consume, Reader!BeginFetch, Reader!ExitClosing,
              Reader!Fetch, Reader!FetchError, Reader!ExitFetching, Reader!HandlerOk,
              Reader!HandlerErr, Reader!HandleFailure, Reader!Retry, Reader!RetryFails,
              Reader!RetriesExhausted, Reader!SendToDLQ, Reader!SendToDLQFails,
              Reader!Commit, Reader!CommitError
<1> QED BY <1>1, <1>2, <1>3 DEF Aggregating, Loop

\* Who moves in a step.
LEMMA StepKinds ==
    [PipelineNext]_pipelineVars =>
        \/ Publishing
        \/ Producer!Silent /\ UNCHANGED vars
        \/ (Foreign \/ Aggregating) /\ UNCHANGED producerVars
        \/ UNCHANGED vars /\ UNCHANGED producerVars
BY DEF PipelineNext, Producing, pipelineVars

\* What a message is that a step appends.
NewIs(o) ==
    \/ phase = "publish" /\ log'[o].id \in todo /\ log'[o].retry = 0
    \/ log'[o].id \in Poison /\ log'[o].retry = 0
    \/ pc = "failure" /\ o = Len(log) + 1 /\ log'[o] = Reader!Republished
TopicGrows ==
    /\ \A o \in DOMAIN log : o \in DOMAIN log' /\ log'[o] = log[o]
    /\ \A o \in DOMAIN log' : o \notin DOMAIN log => o > Len(log) /\ NewIs(o)

LEMMA TopicStep ==
    ASSUME Reader!ConsumerInv, todo \subseteq DOMAIN Event, [PipelineNext]_pipelineVars
    PROVE  Reader!ConsumerInv' /\ TopicGrows
<1>1. /\ log \in Seq(Reader!Message) /\ DOMAIN log = 1..Len(log) /\ Len(log) \in Nat
      /\ pc = "failure" => pos \in DOMAIN log
  BY LoopFacts
<1>2. ASSUME NEW m, log' = Append(log, m)
      PROVE  /\ \A o \in DOMAIN log : o \in DOMAIN log' /\ log'[o] = log[o]
             /\ \A o \in DOMAIN log' : o \notin DOMAIN log => o = Len(log) + 1 /\ log'[o] = m
  <2>1. log \in Seq(Reader!Message \cup {m}) /\ m \in Reader!Message \cup {m}
    <3>1. \A o \in 1..Len(log) : log[o] \in Reader!Message
      BY <1>1
    <3> QED BY <1>1, <3>1
  <2> HIDE <1>2
  <2>2. DOMAIN Append(log, m) = 1..(Len(log) + 1)
    BY <2>1
  <2>3. \A o \in 1..(Len(log) + 1) :
            Append(log, m)[o] = IF o <= Len(log) THEN log[o] ELSE m
    BY <2>1
  <2> QED BY <1>1, <1>2, <2>2, <2>3
<1>3. UNCHANGED log => TopicGrows
  BY <1>1 DEF TopicGrows
<1>4. CASE Publishing
  <2>1. PICK e \in todo, n \in 0..MaxCopies :
            (Producer!Publish(e, n) \/ Producer!PublishFails(e, n)) /\ Appended(e, n)
    BY <1>4 DEF Publishing
  <2>2. e \in Ids /\ n \in Nat /\ phase = "publish"
    BY <2>1, AggregatorAssumption, PipelineAssumption
       DEF AggregatorAssumption, PipelineAssumption, Producer!Publish,
           Producer!PublishFails
  <2>3. /\ Reader!ConsumerInv'
        /\ log' \in Seq(Reader!Message) /\ Len(log') = Len(log) + n
        /\ \A o \in DOMAIN log : log'[o] = log[o]
        /\ \A o \in DOMAIN log' : o > Len(log) => log'[o] = [id |-> e, retry |-> 0]
    BY <2>1, <2>2, AppendsKeepLoop
  <2>4. DOMAIN log' = 1..(Len(log) + n)
    BY <2>3
  <2>5. \A o \in DOMAIN log' : o \notin DOMAIN log => o > Len(log) /\ NewIs(o)
    BY <1>1, <2>2, <2>3, <2>4 DEF NewIs
  <2> QED BY <1>1, <2>2, <2>3, <2>4, <2>5 DEF TopicGrows
<1>5. CASE UNCHANGED vars
  <2>1. UNCHANGED Reader!vars /\ UNCHANGED log
    BY <1>5 DEF vars, loopVars, Reader!vars, Reader!topicVars, Reader!readerVars,
                Reader!fateVars, Reader!stopVars
  <2> QED BY <1>3, <2>1, LoopInvariant
<1>6. CASE Foreign
  <2>1. PICK i \in Poison : Reader!Produce(i)
    BY <1>6 DEF Foreign
  <2>2. log' = Append(log, [id |-> i, retry |-> 0])
    BY <2>1 DEF Reader!Produce
  <2>3. TopicGrows
    BY <1>1, <1>2, <2>2 DEF TopicGrows, NewIs
  <2> QED BY <1>6, <2>3, AggregatingImplements, LoopInvariant
<1>7. CASE Aggregating
  <2>1. TopicGrows
    BY <1>1, <1>2, <1>3, <1>7, AggregatingLog DEF TopicGrows, NewIs
  <2> QED BY <1>7, <2>1, AggregatingImplements, LoopInvariant
<1> QED BY <1>4, <1>5, <1>6, <1>7, StepKinds

----------------------------------------------------------------------------
(* The producer. *)

\* The random walk.
LEMMA WalkOK ==
    ASSUME Producer!TypeOK, polls < MaxPolls,
           NEW p \in PricesBy[polls] \cup {BasePrices[s] : s \in DOMAIN BasePrices},
           NEW q \in Producer!WalksFrom(p)
    PROVE  q \in PricesBy[polls + 1] /\ q \in Nat /\ Within(q, p) /\ (q = 0 => p = 0)
<1>1. polls + 1 \in 1..MaxPolls /\ polls \in 0..MaxPolls /\ (polls + 1) - 1 = polls
  BY PipelineAssumption DEF PipelineAssumption, Producer!TypeOK
<1>2. p \in Nat
  BY <1>1, PipelineAssumption DEF PipelineAssumption
<1>3. q \in PricesBy[polls + 1]
  <2>1. \A n \in 1..MaxPolls :
            \A r \in PricesBy[n - 1] \cup {BasePrices[s] : s \in DOMAIN BasePrices} :
                {r} \cup Producer!WalksFrom(r) \subseteq PricesBy[n]
    BY PipelineAssumption DEF PipelineAssumption
  <2> QED BY <1>1, <2>1
<1>4. q \in Nat
  BY <1>1, <1>3, PipelineAssumption DEF PipelineAssumption
<1>5. PICK w \in Walks : q = p + (IF w * 200 <= p /\ -w * 200 <= p THEN w ELSE 0)
  BY DEF Producer!WalksFrom
<1>6. w \in Int
  BY PipelineAssumption DEF PipelineAssumption
<1>7. Within(q, p) /\ (q = 0 => p = 0)
  <2>1. CASE w * 200 <= p /\ -w * 200 <= p
    BY <1>2, <1>5, <1>6, <2>1 DEF Within
  <2>2. CASE ~(w * 200 <= p /\ -w * 200 <= p)
    BY <1>2, <1>5, <1>6, <2>2 DEF Within
  <2> QED BY <2>1, <2>2
<1> QED BY <1>3, <1>4, <1>7

\* What the two ways of getting prices have in common.
Polled(prices, exchange) ==
    /\ phase = "fetch" /\ phase' = "publish"
    /\ DOMAIN prices \subseteq DOMAIN BasePrices
    /\ cache' = Producer!Remembered(prices)
    /\ todo' = todo \cup Producer!EventsOf(prices, exchange)
    /\ polls' = polls + 1
    /\ UNCHANGED <<since, stopping, stops>>
    /\ blanked \subseteq blanked' /\ blanked' \subseteq DOMAIN BasePrices
    /\ \A s \in DOMAIN prices :
          /\ prices[s] \in PricesBy[polls + 1]
          /\ prices[s] = 0 => s \in blanked'
          /\ exchange = "simulated" =>
                Within(prices[s], IF s \in DOMAIN cache THEN cache[s] ELSE BasePrices[s])

LEMMA PollStep ==
    ASSUME Producer!TypeOK, ProducerInv, Producer!Fetch \/ Producer!Simulate
    PROVE  \E prices : \E exchange \in {"coingecko", "simulated"} : Polled(prices, exchange)
<1>1. polls + 1 \in 1..MaxPolls /\ polls < MaxPolls
  BY PipelineAssumption
     DEF PipelineAssumption, Producer!TypeOK, ProducerInv, Producer!Fetch,
         Producer!Simulate, Producer!Step
<1>2. CASE Producer!Fetch
  <2>1. PICK answer \in Answers :
            /\ cache' = Producer!Remembered(answer)
            /\ todo' = todo \cup Producer!EventsOf(answer, "coingecko")
            /\ blanked' = blanked \cup {s \in DOMAIN answer : answer[s] = 0}
    BY <1>2 DEF Producer!Fetch
  <2>2. /\ DOMAIN answer \subseteq DOMAIN BasePrices
        /\ \A s \in DOMAIN answer : answer[s] \in PricesBy[polls + 1]
    BY <1>1, PipelineAssumption DEF PipelineAssumption
  <2>3. Polled(answer, "coingecko")
    BY <1>2, <2>1, <2>2 DEF Polled, Producer!Fetch, Producer!Step, Producer!TypeOK
  <2> QED BY <2>3
<1>3. CASE Producer!Simulate
  <2> DEFINE From(s) == IF s \in DOMAIN cache THEN cache[s] ELSE BasePrices[s]
  <2>1. PICK prices :
            /\ DOMAIN prices = DOMAIN BasePrices
            /\ \A s \in DOMAIN BasePrices : prices[s] \in Producer!WalksFrom(From(s))
            /\ cache' = Producer!Remembered(prices)
            /\ todo' = todo \cup Producer!EventsOf(prices, "simulated")
    BY <1>3 DEF Producer!Simulate
  <2>2. ASSUME NEW s \in DOMAIN BasePrices
        PROVE  /\ prices[s] \in PricesBy[polls + 1]
               /\ Within(prices[s], From(s))
               /\ prices[s] = 0 => s \in blanked
    <3>1. From(s) \in PricesBy[polls] \cup {BasePrices[r] : r \in DOMAIN BasePrices}
      BY DEF ProducerInv
    <3>2. From(s) = 0 => s \in blanked
      BY PipelineAssumption DEF ProducerInv, PipelineAssumption
    <3> HIDE DEF From
    <3> QED BY <1>1, <2>1, <3>1, <3>2, WalkOK
  <2>3. Polled(prices, "simulated")
    BY <1>3, <2>1, <2>2 DEF Polled, Producer!Simulate, Producer!Step, Producer!TypeOK
  <2> QED BY <2>3
<1> QED BY <1>2, <1>3

\* The events of a poll.
LEMMA PolledEvents ==
    ASSUME Producer!TypeOK, ProducerInv, NEW prices,
           NEW exchange \in {"coingecko", "simulated"}, Polled(prices, exchange)
    PROVE  /\ todo' = Producer!EventsOf(prices, exchange)
           /\ todo' \subseteq DOMAIN Event
           /\ \A e \in todo' :
                 /\ e.symbol \in DOMAIN prices /\ e.price = prices[e.symbol]
                 /\ e.exchange = exchange
                 /\ e.poll = polls + 1 /\ e.since = since
<1>1. todo' = Producer!EventsOf(prices, exchange)
  BY DEF Polled, ProducerInv
<1>2. polls + 1 \in 1..MaxPolls /\ since \in 1..(polls + 1)
  BY PipelineAssumption
     DEF PipelineAssumption, Producer!TypeOK, ProducerInv, Polled
<1>3. ASSUME NEW s \in DOMAIN prices
      PROVE  [symbol |-> s, price |-> prices[s], exchange |-> exchange, volume |-> 1,
              poll |-> polls + 1, since |-> since] \in DOMAIN Event
  <2>1. [symbol |-> s, price |-> prices[s], exchange |-> exchange, volume |-> 1,
         poll |-> polls + 1, since |-> since]
          \in [symbol : DOMAIN BasePrices, price : PricesBy[polls + 1], volume : {1},
               exchange : {"coingecko", "simulated"}, poll : {polls + 1},
               since : 1..(polls + 1)]
    BY <1>2 DEF Polled
  <2>2. [symbol : DOMAIN BasePrices, price : PricesBy[polls + 1], volume : {1},
         exchange : {"coingecko", "simulated"}, poll : {polls + 1},
         since : 1..(polls + 1)] \subseteq DOMAIN Event
    BY <1>2, PipelineAssumption DEF PipelineAssumption
  <2> QED BY <2>1, <2>2
<1> QED BY <1>1, <1>3 DEF Producer!EventsOf

LEMMA ProducerStep ==
    ASSUME PipelineTypeOK, ProducerInv, [PipelineNext]_pipelineVars
    PROVE  ProducerInv' /\ Producer!TypeOK' /\ todo' \subseteq DOMAIN Event
<1>1. /\ Producer!TypeOK /\ todo \subseteq DOMAIN Event
      /\ polls \in 0..MaxPolls /\ since \in 1..MaxPolls /\ MaxPolls \in Nat
  BY PipelineAssumption DEF PipelineTypeOK, Producer!TypeOK, PipelineAssumption
<1>2. CASE UNCHANGED producerVars
  BY <1>1, <1>2 DEF producerVars, ProducerInv, Producer!TypeOK
<1>3. CASE Publishing
  BY <1>1, <1>3
     DEF Publishing, Producer!Publish, Producer!PublishFails, ProducerInv,
         Producer!TypeOK
<1>4. CASE Producer!Start
  <2>1. /\ phase' = "fetch" /\ todo' = {} /\ since' = polls + 1 /\ polls < MaxPolls
        /\ stopping' = FALSE /\ UNCHANGED <<polls, blanked, stops>>
        /\ DOMAIN cache' = {}
    BY <1>4 DEF Producer!Start, Producer!Step, Producer!Nothing
  <2>2. ProducerInv'
    BY <1>1, <2>1 DEF ProducerInv
  <2>3. Producer!TypeOK'
    <3>1. since' \in 1..MaxPolls /\ polls' \in 0..MaxPolls
      BY <1>1, <2>1
    <3>2. stopping' \in BOOLEAN
      BY <2>1
    <3>3. blanked' \subseteq DOMAIN BasePrices /\ stops' \in 0..MaxStops
      BY <1>1, <2>1 DEF Producer!TypeOK
    <3>4. DOMAIN cache' \subseteq DOMAIN BasePrices /\ phase' = "fetch"
      BY <2>1
    <3> QED BY <3>1, <3>2, <3>3, <3>4 DEF Producer!TypeOK
  <2> QED BY <2>1, <2>2, <2>3
<1>5. CASE Producer!Fetch \/ Producer!Simulate
  <2>0. PICK prices : \E exchange \in {"coingecko", "simulated"} : Polled(prices, exchange)
    BY <1>1, <1>5, PollStep
  <2>1. PICK exchange \in {"coingecko", "simulated"} : Polled(prices, exchange)
    BY <2>0
  <2>2. /\ DOMAIN cache' = DOMAIN prices \cup DOMAIN cache
        /\ \A s \in DOMAIN cache' :
              cache'[s] = IF s \in DOMAIN prices THEN prices[s] ELSE cache[s]
    BY <2>1 DEF Polled, Producer!Remembered
  <2>3. polls + 1 \in 1..MaxPolls /\ phase' = "publish" /\ polls' = polls + 1
    BY <1>1, <2>1 DEF Polled, ProducerInv
  <2>4. ASSUME NEW p \in PricesBy[polls]
        PROVE  p \in PricesBy[polls + 1]
    <3>1. \A n \in 1..MaxPolls :
              \A r \in PricesBy[n - 1] \cup {BasePrices[s] : s \in DOMAIN BasePrices} :
                  {r} \cup Producer!WalksFrom(r) \subseteq PricesBy[n]
      BY PipelineAssumption DEF PipelineAssumption
    <3> QED BY <1>1, <2>3, <3>1
  <2>5. \A s \in DOMAIN cache' :
            cache'[s] \in PricesBy[polls'] /\ (cache'[s] = 0 => s \in blanked')
    BY <2>1, <2>2, <2>3, <2>4 DEF Polled, ProducerInv
  <2>6. ProducerInv'
    BY <1>1, <2>1, <2>3, <2>5 DEF Polled, ProducerInv
  <2>7. Producer!TypeOK'
    BY <1>1, <2>1, <2>2, <2>3 DEF Polled, Producer!TypeOK
  <2> QED BY <1>1, <2>1, <2>6, <2>7, PolledEvents
<1>6. CASE Producer!EndPoll \/ Producer!NextPoll \/ Producer!Exit
  BY <1>1, <1>6
     DEF Producer!EndPoll, Producer!NextPoll, Producer!Exit, Producer!Step,
         ProducerInv, Producer!TypeOK
<1>7. CASE Producer!Signal \/ Producer!Kill
  <2>1. /\ UNCHANGED <<cache, todo, polls, since, blanked>>
        /\ phase' \in {phase, "down"} /\ phase # "down"
        /\ stops < MaxStops /\ stops' = stops + 1
    BY <1>7 DEF Producer!Signal, Producer!Kill
  <2>2. stopping' \in BOOLEAN
    BY <1>1, <1>7 DEF Producer!Signal, Producer!Kill, Producer!TypeOK
  <2>3. stops' \in 0..MaxStops
    BY <1>1, <2>1, PipelineAssumption DEF Producer!TypeOK, PipelineAssumption
  <2>4. ProducerInv'
    BY <1>1, <2>1 DEF ProducerInv
  <2>5. Producer!TypeOK'
    BY <1>1, <2>1, <2>2, <2>3 DEF Producer!TypeOK
  <2> QED BY <1>1, <2>1, <2>4, <2>5
<1> QED BY <1>2, <1>3, <1>4, <1>5, <1>6, <1>7, StepKinds DEF Producer!Silent

----------------------------------------------------------------------------
(* The events. *)

\* Copies are of events that were there.
LEMMA MadeBefore ==
    ASSUME Reader!ConsumerInv, todo \subseteq DOMAIN Event, [PipelineNext]_pipelineVars,
           NEW e \in Made', e \notin Made
    PROVE  e \in todo' /\ e \notin todo
<1>1. TopicGrows
  BY TopicStep
<1>2. e \in DOMAIN Event /\ e \notin todo /\ \A o \in DOMAIN log : log[o].id # e
  BY DEF Made
<1>3. ASSUME NEW o \in DOMAIN log', log'[o].id = e
      PROVE  FALSE
  <2>1. NewIs(o)
    BY <1>1, <1>2, <1>3 DEF TopicGrows
  <2>2. CASE log'[o].id \in todo \/ log'[o].id \in Poison
    BY <1>2, <1>3, <2>2, AggregatorAssumption DEF AggregatorAssumption
  <2>3. CASE pc = "failure" /\ log'[o] = Reader!Republished
    <3>1. pos \in DOMAIN log /\ log[pos] \in [id : Ids, retry : 0..MaxRetries]
      BY <2>3, LoopFacts
    <3>2. Reader!Republished.id = log[pos].id
      BY <3>1 DEF Reader!Republished
    <3> QED BY <1>2, <1>3, <2>3, <3>1, <3>2
  <2> QED BY <2>1, <2>2, <2>3 DEF NewIs
<1> QED BY <1>2, <1>3 DEF Made

LEMMA MadeFacts ==
    ASSUME NEW e \in Made
    PROVE  e \in DOMAIN Event /\ e.poll \in Nat /\ e.since \in Nat /\ e.price \in Nat
BY AggregatorAssumption, PipelineAssumption
   DEF Made, AggregatorAssumption, PipelineAssumption

LEMMA MadeStep ==
    ASSUME PipelineTypeOK, Reader!ConsumerInv, ProducerInv, MadeInv, SimulatedInv,
           [PipelineNext]_pipelineVars
    PROVE  MadeInv' /\ SimulatedInv'
<1>1. /\ Producer!TypeOK /\ todo \subseteq DOMAIN Event
      /\ polls \in Nat /\ since \in Nat
  BY PipelineAssumption DEF PipelineTypeOK, Producer!TypeOK, PipelineAssumption
<1>2. todo' \subseteq todo => Made' \subseteq Made
  BY <1>1, MadeBefore
<1>3. \A e \in Made : e.poll \in Nat /\ e.since \in Nat /\ e.price \in Nat
  BY MadeFacts
<1>4. CASE /\ todo' \subseteq todo /\ UNCHANGED <<cache, polls, since, blanked>>
           /\ phase' = "publish" => phase = "publish"
  <2>1. MadeInv'
    BY <1>2, <1>4 DEF MadeInv
  <2>2. SimulatedInv'
    BY <1>2, <1>4 DEF SimulatedInv, Continues, Within
  <2> QED BY <2>1, <2>2
<1>5. CASE Producer!Start
  <2>1. todo' = {} /\ since' = polls + 1 /\ UNCHANGED <<polls, blanked>> /\ phase' = "fetch"
    BY <1>5 DEF Producer!Start, Producer!Step
  <2>2. Made' \subseteq Made
    BY <1>2, <2>1
  <2>3. ASSUME NEW e \in Made
        PROVE  e.since # since'
    BY <1>1, <1>3, <2>1 DEF MadeInv
  <2>4. MadeInv'
    BY <2>1, <2>2, <2>3 DEF MadeInv
  <2>5. SimulatedInv'
    BY <2>2 DEF SimulatedInv, Continues, Within
  <2> QED BY <2>4, <2>5
<1>6. CASE Producer!Fetch \/ Producer!Simulate
  <2>0. PICK prices : \E exchange \in {"coingecko", "simulated"} : Polled(prices, exchange)
    BY <1>1, <1>6, PollStep
  <2>1. PICK exchange \in {"coingecko", "simulated"} : Polled(prices, exchange)
    BY <2>0
  <2>2. \A e \in Made' : e \notin Made => e \in todo'
    BY <1>1, MadeBefore
  <2>3. \A e \in todo' :
            /\ e.symbol \in DOMAIN prices /\ e.price = prices[e.symbol]
            /\ e.exchange = exchange
            /\ e.poll = polls + 1 /\ e.since = since
    BY <1>1, <2>1, PolledEvents
  <2>4. /\ polls' = polls + 1 /\ since' = since /\ blanked \subseteq blanked'
        /\ phase = "fetch" /\ since <= polls + 1
    BY <2>1 DEF Polled, ProducerInv
  <2>5. /\ DOMAIN cache' = DOMAIN prices \cup DOMAIN cache
        /\ \A s \in DOMAIN prices : cache'[s] = prices[s]
    BY <2>1 DEF Polled, Producer!Remembered
  <2>6. MadeInv'
    <3>1. ASSUME NEW e \in Made', e \in todo'
          PROVE  /\ e.since <= e.poll /\ e.poll <= polls'
                 /\ e.price = 0 => e.symbol \in blanked'
                 /\ e.symbol \in DOMAIN cache' /\ cache'[e.symbol] = e.price
      BY <1>1, <2>1, <2>3, <2>4, <2>5, <3>1 DEF Polled
    <3>2. ASSUME NEW e \in Made
          PROVE  /\ e.since <= e.poll /\ e.poll <= polls' /\ e.poll # polls'
                 /\ e.price = 0 => e.symbol \in blanked'
      BY <1>1, <1>3, <2>4 DEF MadeInv
    <3>3. \A e \in todo' : e.poll = polls'
      BY <2>3, <2>4
    <3> QED BY <2>2, <3>1, <3>2, <3>3 DEF MadeInv
  <2>7. ASSUME NEW e \in Made', e.exchange = "simulated"
        PROVE  Continues(e)'
    <3>1. CASE e \in Made /\ e \notin todo'
      <4>1. Continues(e) /\ e.poll <= polls
        BY <2>7, <3>1 DEF SimulatedInv, MadeInv
      <4>2. ASSUME NEW d \in Made', d \notin Made
            PROVE  d.poll # e.poll - 1
        <5>1. d.poll = polls + 1
          BY <2>2, <2>3, <4>2
        <5>2. e.poll \in Nat /\ e.poll <= polls
          BY <1>3, <3>1, <4>1
        <5> QED BY <1>1, <5>1, <5>2
      <4> QED BY <4>1, <4>2 DEF Continues, Within
    <3>2. CASE e \in todo'
      <4>1. /\ e.symbol \in DOMAIN prices /\ e.price = prices[e.symbol]
            /\ e.poll = polls + 1 /\ e.since = since /\ exchange = "simulated"
        BY <2>3, <2>7, <3>2
      <4>2. Within(e.price, IF e.symbol \in DOMAIN cache THEN cache[e.symbol]
                            ELSE BasePrices[e.symbol])
        BY <2>1, <4>1 DEF Polled
      <4>3. e.poll = e.since => Within(e.price, BasePrices[e.symbol])
        BY <2>4, <4>1, <4>2 DEF ProducerInv
      <4>4. ASSUME NEW d \in Made', d.symbol = e.symbol, d.since = e.since,
                   d.poll = e.poll - 1
            PROVE  Within(e.price, d.price)
        <5>1. d.poll # polls + 1 /\ d.poll = polls
          BY <1>1, <4>1, <4>4
        <5>2. d \in Made
          BY <2>2, <2>3, <5>1
        <5>3. e.symbol \in DOMAIN cache /\ cache[e.symbol] = d.price
          BY <4>1, <4>4, <5>1, <5>2 DEF MadeInv
        <5> QED BY <4>2, <5>3
      <4> QED BY <4>3, <4>4 DEF Continues, Within
    <3> QED BY <2>2, <3>1, <3>2
  <2> QED BY <2>6, <2>7 DEF SimulatedInv
<1>7. \/ /\ todo' \subseteq todo /\ UNCHANGED <<cache, polls, since, blanked>>
         /\ phase' = "publish" => phase = "publish"
      \/ Producer!Start \/ Producer!Fetch \/ Producer!Simulate
  <2>1. CASE UNCHANGED producerVars
    BY <2>1 DEF producerVars
  <2>2. CASE Publishing
    BY <2>2 DEF Publishing, Producer!Publish, Producer!PublishFails
  <2>3. CASE Producer!EndPoll \/ Producer!NextPoll \/ Producer!Exit
    BY <2>3 DEF Producer!EndPoll, Producer!NextPoll, Producer!Exit, Producer!Step
  <2>4. CASE Producer!Signal \/ Producer!Kill
    BY <2>4 DEF Producer!Signal, Producer!Kill
  <2> QED BY <2>1, <2>2, <2>3, <2>4, StepKinds DEF Producer!Silent
<1> QED BY <1>4, <1>5, <1>6, <1>7

----------------------------------------------------------------------------
(* The order of the topic. *)

LEMMA OrderStep ==
    ASSUME PipelineTypeOK, Reader!ConsumerInv, ProducerInv, MadeInv, OrderInv,
           [PipelineNext]_pipelineVars
    PROVE  OrderInv'
<1>1. TopicGrows /\ Reader!ConsumerInv'
  BY TopicStep DEF PipelineTypeOK
<1>2. polls \in Nat
  BY PipelineAssumption DEF PipelineTypeOK, Producer!TypeOK, PipelineAssumption
<1>3. /\ DOMAIN log = 1..Len(log) /\ Len(log) \in Nat
      /\ \A o \in DOMAIN log : IsEvent(o) => EventAt(o) = log[o].id
  BY LoopFacts
<1>4. \A o \in DOMAIN log' : IsEvent(o)' => EventAt(o)' = log'[o].id
  BY <1>1, EventsAfter
<1>5. ASSUME NEW o \in DOMAIN log', NEW q \in DOMAIN log', IsEvent(o)', IsEvent(q)',
             log'[o].retry = 0, EventAt(o)'.poll < EventAt(q)'.poll
      PROVE  o < q
  <2>1. CASE o \in DOMAIN log /\ q \in DOMAIN log
    BY <1>1, <1>3, <1>4, <1>5, <2>1 DEF OrderInv, TopicGrows, IsEvent
  <2>2. CASE o \in DOMAIN log /\ q \notin DOMAIN log
    BY <1>1, <1>3, <2>2 DEF TopicGrows
  <2>3. CASE o \notin DOMAIN log
    <3>1. NewIs(o)
      BY <1>1, <2>3 DEF TopicGrows
    <3>2. log'[o] # Reader!Republished \/ pc # "failure"
      <4>1. pc = "failure" => /\ pos \in DOMAIN log
                              /\ log[pos] \in [id : Ids, retry : 0..MaxRetries]
                              /\ log[pos].retry \in Nat
        BY LoopFacts
      <4>2. pc = "failure" => Reader!Republished.retry = log[pos].retry + 1
        BY <4>1 DEF Reader!Republished
      <4> QED BY <1>5, <4>1, <4>2
    <3>3. phase = "publish" /\ log'[o].id \in todo
      BY <1>5, <3>1, <3>2 DEF NewIs, IsEvent
    <3>4. EventAt(o)'.poll = polls
      BY <1>4, <1>5, <3>3 DEF MadeInv
    <3>5. log'[q].id \in Made'
      BY <1>1, <1>5, EventsAfter DEF Made
    <3>6. log'[q].id \in Made \/ log'[q].id \in todo'
      BY <3>5, MadeBefore DEF PipelineTypeOK
    <3>7. log'[q].id \in Made
      <4>1. todo' \subseteq todo
        <5>1. CASE Publishing
          BY <5>1 DEF Publishing, Producer!Publish, Producer!PublishFails
        <5>2. CASE UNCHANGED vars
          BY <1>5, <2>3, <5>2 DEF vars, loopVars
        <5>3. CASE UNCHANGED producerVars
          BY <5>3 DEF producerVars
        <5> QED BY <5>1, <5>2, <5>3, StepKinds
      <4> QED BY <3>6, <4>1 DEF Made, PipelineTypeOK
    <3>8. log'[q].id.poll <= polls /\ log'[q].id.poll \in Nat
      BY <3>7, MadeFacts DEF MadeInv
    <3> QED BY <1>2, <1>4, <1>5, <3>4, <3>8
  <2> QED BY <2>1, <2>2, <2>3
<1> QED BY <1>5 DEF OrderInv

----------------------------------------------------------------------------
(* The aggregates. *)

\* A change of 1% or more shows as a percentage, unless it is from nothing.
LEMMA PercentageOK ==
    ASSUME NEW change \in Int, NEW first \in Nat, first > 0,
           (IF change < 0 THEN -change ELSE change) * 100 >= first
    PROVE  (change * 100) \div first # 0
<1>1. PICK q \in Int : q = (change * 100) \div first
  OBVIOUS
<1>2. q * first <= change * 100 /\ change * 100 < q * first + first
  BY <1>1
<1>3. q = 0 => FALSE
  BY <1>2
<1> QED BY <1>1, <1>3

LEMMA LastOfOK ==
    ASSUME NEW S, NEW w \in Seq(S), NEW n \in Nat \ {0}, Len(w) > 0
    PROVE  /\ LastOf(n, w) \in Seq(S)
           /\ Len(LastOf(n, w)) \in 1..n /\ Len(LastOf(n, w)) <= Len(w)
           /\ \A k \in 1..Len(LastOf(n, w)) :
                 LastOf(n, w)[k] = w[k + (Len(w) - Len(LastOf(n, w)))]
<1>1. CASE Len(w) <= n
  <2>1. LastOf(n, w) = w /\ Len(w) \in 1..n
    BY <1>1 DEF LastOf
  <2>2. \A k \in 1..Len(w) : k + (Len(w) - Len(w)) = k
    BY <2>1
  <2> QED BY <2>1, <2>2
<1>2. CASE Len(w) > n
  <2>1. LastOf(n, w) = SubSeq(w, Len(w) - n + 1, Len(w))
    BY <1>2 DEF LastOf
  <2>2. \A i \in (Len(w) - n + 1)..Len(w) : w[i] \in S
    BY <1>2
  <2>3. /\ SubSeq(w, Len(w) - n + 1, Len(w)) \in Seq(S)
        /\ Len(SubSeq(w, Len(w) - n + 1, Len(w))) = n
        /\ \A k \in 1..n : SubSeq(w, Len(w) - n + 1, Len(w))[k] = w[k + (Len(w) - n)]
    BY <1>2, <2>2, SubSeqProperties
  <2> QED BY <1>2, <2>1, <2>3
<1> QED BY <1>1, <1>2

\* What the handler of a price event works on, and its window afterwards.
Adding == AddAndPublish \/ PublishFails
LEMMA AddingFacts ==
    ASSUME PipelineTypeOK, Reader!ConsumerInv, Adding
    PROVE  /\ pos \in DOMAIN log /\ IsEvent(pos)
           /\ Incoming = log[pos].id /\ Incoming \in DOMAIN Event
           /\ Incoming \in Made /\ EventAt(pos) = Incoming /\ Event[Incoming] = Incoming
           /\ Symbol = Incoming.symbol /\ Symbol \in Symbols
           /\ Incoming.price \in Nat /\ Incoming.price \in Prices
           /\ WindowAfter \in Seq(DOMAIN Event)
           /\ Len(WindowAfter) \in 1..WindowSize
           /\ Len(WindowAfter) <= Len(windows[Symbol]) + 1
           /\ WindowAfter[Len(WindowAfter)] = Incoming
           /\ \A k \in 1..(Len(WindowAfter) - 1) :
                 LET j == k + (Len(windows[Symbol]) + 1 - Len(WindowAfter))
                 IN  j \in 1..Len(windows[Symbol]) /\ WindowAfter[k] = windows[Symbol][j]
<1>1. pc = "handler" /\ Incoming \notin Poison
  BY DEF Adding, AddAndPublish, PublishFails
<1>2. pos \in DOMAIN log /\ IsEvent(pos) /\ Incoming = log[pos].id
  BY <1>1, LoopFacts DEF Incoming, IsEvent
<1>3. Incoming \in DOMAIN Event /\ EventAt(pos) = Incoming /\ Event[Incoming] = Incoming
  BY <1>2, LoopFacts DEF EventAt
<1>4. Symbol = Incoming.symbol /\ Symbol \in Symbols
  BY <1>3 DEF Symbol, Symbols
<1>5. Incoming.price \in Nat /\ Incoming.price \in Prices
  BY <1>3, AggregatorAssumption DEF AggregatorAssumption, Prices
<1>6. Incoming \in Made
  BY <1>2, <1>3 DEF Made
<1>7. windows[Symbol] \in Seq(DOMAIN Event) /\ Len(windows[Symbol]) \in Nat
  BY <1>4 DEF PipelineTypeOK, TypeOK
<1> DEFINE w == Append(windows[Symbol], Incoming)
<1>8. /\ w \in Seq(DOMAIN Event) /\ Len(w) = Len(windows[Symbol]) + 1
      /\ w[Len(w)] = Incoming
      /\ \A k \in 1..Len(windows[Symbol]) : w[k] = windows[Symbol][k]
  BY <1>3, <1>7
<1>9. WindowAfter = LastOf(WindowSize, w) /\ WindowSize \in Nat \ {0}
  BY AggregatorAssumption DEF WindowAfter, AggregatorAssumption
<1> HIDE DEF w
<1>10. /\ WindowAfter \in Seq(DOMAIN Event)
       /\ Len(WindowAfter) \in 1..WindowSize /\ Len(WindowAfter) <= Len(w)
       /\ \A k \in 1..Len(WindowAfter) : WindowAfter[k] = w[k + (Len(w) - Len(WindowAfter))]
  <2>0. w \in Seq(DOMAIN Event) /\ Len(w) > 0 /\ WindowSize \in Nat \ {0}
    BY <1>7, <1>8, <1>9
  <2>1. /\ LastOf(WindowSize, w) \in Seq(DOMAIN Event)
        /\ Len(LastOf(WindowSize, w)) \in 1..WindowSize
        /\ Len(LastOf(WindowSize, w)) <= Len(w)
        /\ \A k \in 1..Len(LastOf(WindowSize, w)) :
              LastOf(WindowSize, w)[k] = w[k + (Len(w) - Len(LastOf(WindowSize, w)))]
    BY ONLY <2>0, LastOfOK
  <2> QED BY <1>9, <2>1
<1>11. Len(WindowAfter) \in Nat \ {0}
  BY <1>9, <1>10
<1>12. WindowAfter[Len(WindowAfter)] = Incoming
  <2>1. Len(WindowAfter) + (Len(w) - Len(WindowAfter)) = Len(w)
    BY <1>7, <1>8, <1>11
  <2>2. WindowAfter[Len(WindowAfter)] = w[Len(WindowAfter) + (Len(w) - Len(WindowAfter))]
    BY <1>10, <1>11
  <2> QED BY <1>8, <2>1, <2>2
<1>13. ASSUME NEW k \in 1..(Len(WindowAfter) - 1), NEW j,
              j = k + (Len(windows[Symbol]) + 1 - Len(WindowAfter))
       PROVE  j \in 1..Len(windows[Symbol]) /\ WindowAfter[k] = windows[Symbol][j]
  <2>1. j = k + (Len(w) - Len(WindowAfter)) /\ j \in 1..Len(windows[Symbol])
    BY <1>7, <1>8, <1>10, <1>11, <1>13
  <2>2. WindowAfter[k] = w[j]
    BY <1>10, <1>11, <2>1
  <2> QED BY <1>8, <2>1, <2>2
<1> QED BY <1>2, <1>3, <1>4, <1>5, <1>6, <1>7, <1>8, <1>10, <1>12, <1>13

\* The steps of the pipeline, as far as the aggregator's own state goes.
LEMMA AggregatorKinds ==
    [PipelineNext]_pipelineVars =>
        Adding \/ Start \/ (UNCHANGED aggVars /\ UNCHANGED handled)
<1> SUFFICES ASSUME [PipelineNext]_pipelineVars
             PROVE  Adding \/ Start \/ (UNCHANGED aggVars /\ UNCHANGED handled)
  OBVIOUS
<1>1. CASE UNCHANGED vars
  BY <1>1 DEF vars, loopVars
<1>2. CASE Publishing
  BY <1>2 DEF Publishing, Appended
<1>3. CASE Foreign \/ Stopping \/ FlushCommits \/ Fetch \/ DecodeFails
  BY <1>3 DEF Foreign, Stopping, FlushCommits, Fetch, DecodeFails, Reader!Produce,
              Reader!Crash, Reader!Cancel, Reader!FlushCommits, Reader!Fetch,
              Reader!HandlerErr, Reader!fateVars
<1>4. CASE LoopStep
  BY <1>4 DEF LoopStep, Reader!Consume, Reader!BeginFetch, Reader!ExitClosing,
              Reader!Fetch, Reader!FetchError, Reader!ExitFetching, Reader!HandlerOk,
              Reader!HandlerErr, Reader!HandleFailure, Reader!Retry, Reader!RetryFails,
              Reader!RetriesExhausted, Reader!SendToDLQ, Reader!SendToDLQFails,
              Reader!Commit, Reader!CommitError, Reader!fateVars, Reader!Goto
<1> QED BY <1>1, <1>2, <1>3, <1>4, StepKinds DEF Aggregating, Loop, Adding

LEMMA BlankedGrows == [PipelineNext]_pipelineVars => blanked \subseteq blanked'
<1> SUFFICES ASSUME [PipelineNext]_pipelineVars PROVE blanked \subseteq blanked'
  OBVIOUS
<1>1. CASE UNCHANGED producerVars
  BY <1>1 DEF producerVars
<1>2. CASE Publishing
  BY <1>2 DEF Publishing, Producer!Publish, Producer!PublishFails
<1>3. CASE Producer!Silent
  BY <1>3 DEF Producer!Silent, Producer!Start, Producer!Fetch, Producer!Simulate,
              Producer!EndPoll, Producer!NextPoll, Producer!Exit, Producer!Signal,
              Producer!Kill
<1> QED BY <1>1, <1>2, <1>3, StepKinds

\* The aggregate that the handler computes.
LEMMA NewAggregate ==
    ASSUME PipelineTypeOK, Reader!ConsumerInv, MadeInv, AggregateInv, Adding
    PROVE  /\ ZeroIsBlank(Aggregate, Symbol)
           /\ BaseAfter \in Prices /\ (BaseAfter = 0 => Symbol \in blanked)
<1>1. /\ Symbol = Incoming.symbol /\ Symbol \in Symbols /\ Incoming \in Made
      /\ Incoming.price \in Nat /\ Incoming.price \in Prices
      /\ Event[Incoming] = Incoming
      /\ WindowAfter \in Seq(DOMAIN Event) /\ Len(WindowAfter) \in 1..WindowSize
      /\ WindowAfter[Len(WindowAfter)] = Incoming
  BY AddingFacts
<1>2. Prices \subseteq Nat
  BY AggregatorAssumption DEF AggregatorAssumption, Prices
<1>3. BaseAfter \in Prices
  BY <1>1 DEF BaseAfter, PipelineTypeOK, TypeOK
<1>4. BaseAfter = 0 => Symbol \in blanked
  BY <1>1 DEF BaseAfter, AggregateInv, MadeInv
<1> DEFINE w == [k \in DOMAIN WindowAfter |-> Event[WindowAfter[k]]]
           change == Incoming.price - BaseAfter
<1>5. w[Len(w)].price = Incoming.price
  <2>1. Len(WindowAfter) \in Nat \ {0} /\ DOMAIN WindowAfter = 1..Len(WindowAfter)
    BY <1>1, AggregatorAssumption DEF AggregatorAssumption
  <2>2. w \in [1..Len(WindowAfter) -> {Event[i] : i \in DOMAIN Event}]
    BY <1>1, <2>1
  <2>3. w \in Seq({Event[i] : i \in DOMAIN Event}) /\ Len(w) = Len(WindowAfter)
    BY <2>1, <2>2
  <2>4. w[Len(WindowAfter)] = Incoming
    BY <1>1, <2>1
  <2> QED BY <2>3, <2>4
<1>6. /\ Aggregate.change = change /\ Aggregate.price = Incoming.price
      /\ Aggregate.changePct = IF BaseAfter > 0 THEN (change * 100) \div BaseAfter ELSE 0
  <2>1. Aggregate = ComputeAggregate(w, BaseAfter)
    BY DEF Aggregate
  <2> HIDE DEF w
  <2> QED BY <1>5, <2>1 DEF ComputeAggregate
<1>7. ASSUME BaseAfter > 0, (IF change < 0 THEN -change ELSE change) * 100 >= BaseAfter
      PROVE  (change * 100) \div BaseAfter # 0
  <2>1. change \in Int /\ BaseAfter \in Nat
    BY <1>1, <1>2, <1>3
  <2> HIDE DEF change
  <2> QED BY <1>7, <2>1, PercentageOK
<1>8. BaseAfter \in Nat /\ Incoming.price - change = BaseAfter
  BY <1>1, <1>2, <1>3
<1> HIDE DEF change
<1> QED BY <1>3, <1>4, <1>6, <1>7, <1>8 DEF ZeroIsBlank

\* Start and the handlers are all that changes windows and base prices.
LEMMA TypeStep ==
    ASSUME PipelineTypeOK, Reader!ConsumerInv, ProducerInv, MadeInv, AggregateInv,
           [PipelineNext]_pipelineVars
    PROVE  PipelineTypeOK'
<1>1. Reader!ConsumerInv' /\ TopicGrows
  BY TopicStep DEF PipelineTypeOK
<1>2. Producer!TypeOK' /\ todo' \subseteq DOMAIN Event
  BY ProducerStep
<1>3. Reader!TypeOK'
  BY <1>1 DEF Reader!ConsumerInv
<1>4. /\ windows \in [Symbols -> Seq(DOMAIN Event)]
      /\ \A s \in Symbols :
            /\ Len(windows[s]) <= WindowSize
            /\ \A k \in DOMAIN windows[s] : Event[windows[s][k]].symbol = s
      /\ basePrice \in [Symbols -> Prices \cup {NoPrice}]
      /\ from \in 0..Len(log)
  BY DEF PipelineTypeOK, TypeOK
<1>5. Len(log) <= Len(log') /\ Len(log) \in Nat /\ Len(log') \in Nat
  <2>1. /\ DOMAIN log = 1..Len(log) /\ Len(log) \in Nat
        /\ DOMAIN log' = 1..Len(log') /\ Len(log') \in Nat
        /\ \A o \in DOMAIN log : o \in DOMAIN log'
    BY <1>1, LoopFacts, EventsAfter DEF TopicGrows
  <2> QED BY <2>1
<1>6. CASE UNCHANGED aggVars
  BY <1>2, <1>3, <1>4, <1>5, <1>6 DEF aggVars, PipelineTypeOK, TypeOK
<1>7. CASE Start
  <2>1. from' \in 0..Len(log')
    <3>1. pc' # "down" /\ from' = pos'
      BY <1>7 DEF Start, Reader!Start, Reader!Goto
    <3> QED BY <1>1, <1>3, <3>1 DEF Reader!ConsumerInv, Reader!ReaderInv, Reader!TypeOK
  <2>2. windows' = NoWindows /\ basePrice' = NoPrices
    BY <1>7 DEF Start
  <2>3. /\ windows' \in [Symbols -> Seq(DOMAIN Event)]
        /\ \A s \in Symbols :
              /\ Len(windows'[s]) <= WindowSize
              /\ \A k \in DOMAIN windows'[s] : Event[windows'[s][k]].symbol = s
    BY <2>2, AggregatorAssumption DEF NoWindows, AggregatorAssumption
  <2>4. basePrice' \in [Symbols -> Prices \cup {NoPrice}]
    BY <2>2 DEF NoPrices
  <2> QED BY <1>2, <1>3, <2>1, <2>3, <2>4 DEF PipelineTypeOK, TypeOK
<1>8. CASE Adding
  <2>1. /\ windows' = [windows EXCEPT ![Symbol] = WindowAfter]
        /\ basePrice' = [basePrice EXCEPT ![Symbol] = BaseAfter]
        /\ from' = from
    BY <1>8 DEF Adding, AddAndPublish, PublishFails, Add
  <2>2. /\ Symbol \in Symbols /\ Symbol = Incoming.symbol
        /\ Event[Incoming] = Incoming
        /\ WindowAfter \in Seq(DOMAIN Event)
        /\ Len(WindowAfter) \in 1..WindowSize
        /\ WindowAfter[Len(WindowAfter)] = Incoming
        /\ \A k \in 1..(Len(WindowAfter) - 1) :
              LET j == k + (Len(windows[Symbol]) + 1 - Len(WindowAfter))
              IN  j \in 1..Len(windows[Symbol]) /\ WindowAfter[k] = windows[Symbol][j]
    BY <1>8, AddingFacts
  <2>3. BaseAfter \in Prices
    BY <1>8, NewAggregate
  <2>4. WindowSize \in Nat
    BY AggregatorAssumption DEF AggregatorAssumption
  <2>5. ASSUME NEW k \in DOMAIN WindowAfter
        PROVE  Event[WindowAfter[k]].symbol = Symbol
    <3>1. k \in 1..Len(WindowAfter) /\ Len(WindowAfter) \in Nat
      BY <2>2, <2>4
    <3>2. CASE k = Len(WindowAfter)
      BY <2>2, <3>2
    <3>3. CASE k \in 1..(Len(WindowAfter) - 1)
      <4>1. PICK j \in 1..Len(windows[Symbol]) : WindowAfter[k] = windows[Symbol][j]
        BY <2>2, <3>3
      <4>2. j \in DOMAIN windows[Symbol]
        BY <1>4, <2>2
      <4> QED BY <1>4, <2>2, <4>1, <4>2
    <3> QED BY <3>1, <3>2, <3>3
  <2>6. windows' \in [Symbols -> Seq(DOMAIN Event)]
    BY <1>4, <2>1, <2>2
  <2>7. ASSUME NEW s \in Symbols
        PROVE  /\ Len(windows'[s]) <= WindowSize
               /\ \A k \in DOMAIN windows'[s] : Event[windows'[s][k]].symbol = s
    <3>1. CASE s = Symbol
      <4>1. windows'[s] = WindowAfter
        BY <1>4, <2>1, <3>1
      <4> QED BY <2>2, <2>4, <2>5, <3>1, <4>1
    <3>2. CASE s # Symbol
      <4>1. windows'[s] = windows[s]
        BY <1>4, <2>1, <3>2
      <4> QED BY <1>4, <4>1
    <3> QED BY <3>1, <3>2
  <2>8. basePrice' \in [Symbols -> Prices \cup {NoPrice}]
    BY <1>4, <2>1, <2>3
  <2>9. from' \in 0..Len(log')
    BY <1>4, <1>5, <2>1
  <2> QED BY <1>2, <1>3, <2>6, <2>7, <2>8, <2>9 DEF PipelineTypeOK, TypeOK
<1> QED BY <1>6, <1>7, <1>8, AggregatorKinds

LEMMA AppendElements ==
    ASSUME NEW S, NEW s \in Seq(S), NEW e, NEW t, t = Append(s, e)
    PROVE  /\ t \in Seq({t[n] : n \in DOMAIN t})
           /\ DOMAIN s = 1..Len(s) /\ Len(s) \in Nat
           /\ DOMAIN t = 1..(Len(s) + 1) /\ t[Len(s) + 1] = e
           /\ \A n \in DOMAIN s : t[n] = s[n]
<1>1. s \in Seq(S \cup {e}) /\ DOMAIN s = 1..Len(s) /\ Len(s) \in Nat
  <2>1. \A n \in 1..Len(s) : s[n] \in S
    OBVIOUS
  <2> QED BY <2>1
<1>2. /\ Append(s, e) \in Seq(S \cup {e}) /\ Len(Append(s, e)) = Len(s) + 1
      /\ Append(s, e)[Len(s) + 1] = e
      /\ \A n \in 1..Len(s) : Append(s, e)[n] = s[n]
  BY <1>1
<1>3. DOMAIN t = 1..Len(t) /\ Len(t) \in Nat /\ t \in Seq(S \cup {e})
  BY <1>2
<1>4. t \in Seq({t[n] : n \in DOMAIN t})
  <2>1. \A n \in 1..Len(t) : t[n] \in {t[m] : m \in DOMAIN t}
    BY <1>3
  <2> QED BY <1>3, <2>1
<1> QED BY <1>1, <1>2, <1>3, <1>4

LEMMA AggregateStep ==
    ASSUME PipelineTypeOK, Reader!ConsumerInv, ProducerInv, MadeInv, AggregateInv,
           [PipelineNext]_pipelineVars
    PROVE  AggregateInv'
<1>1. Reader!ConsumerInv' /\ TopicGrows
  BY TopicStep DEF PipelineTypeOK
<1>2. blanked \subseteq blanked'
  BY BlankedGrows
<1>3. ASSUME NEW o \in DOMAIN log, IsEvent(o)
      PROVE  o \in DOMAIN log' /\ IsEvent(o)' /\ EventAt(o)' = EventAt(o)
  <2>1. o \in DOMAIN log' /\ log'[o] = log[o]
    BY <1>1 DEF TopicGrows
  <2> QED BY <1>3, <2>1 DEF IsEvent, EventAt
<1>4. \A agg, s : ZeroIsBlank(agg, s) => ZeroIsBlank(agg, s)'
  BY <1>2 DEF ZeroIsBlank
<1>5. ASSUME NEW r, IsShown(r)
      PROVE  IsShown(r)'
  BY <1>3, <1>4, <1>5 DEF IsShown
<1>6. /\ aggregated \in Seq({aggregated[n] : n \in DOMAIN aggregated})
      /\ HandledIsPublished
      /\ \A n \in DOMAIN aggregated : IsShown(aggregated[n])
      /\ \A s \in Symbols : basePrice[s] = 0 => s \in blanked
  BY DEF AggregateInv
<1>7. CASE /\ UNCHANGED <<aggregated, handled>>
           /\ \A s \in Symbols : basePrice'[s] = 0 => basePrice[s] = 0
  <2>1. \A n \in DOMAIN aggregated' : IsShown(aggregated[n])'
    <3> SUFFICES ASSUME NEW n \in DOMAIN aggregated PROVE IsShown(aggregated[n])'
      BY <1>7
    <3>1. PICK r : r = aggregated[n] /\ r = aggregated'[n]
      BY <1>7
    <3>2. IsShown(r)'
      BY <1>5, <1>6, <3>1
    <3> QED BY <3>1, <3>2
  <2>2. \A s \in Symbols : basePrice'[s] = 0 => s \in blanked'
    BY <1>2, <1>6, <1>7
  <2>3. HandledIsPublished' /\ aggregated' \in Seq({aggregated'[n] : n \in DOMAIN aggregated'})
    BY <1>6, <1>7 DEF HandledIsPublished
  <2> QED BY <2>1, <2>2, <2>3 DEF AggregateInv
<1>8. CASE Start
  <2>1. UNCHANGED <<aggregated, handled>> /\ basePrice' = NoPrices
    BY <1>8 DEF Start, Reader!Start, Reader!fateVars
  <2> QED BY <1>7, <2>1 DEF NoPrices, NoPrice
<1>9. CASE UNCHANGED aggVars /\ UNCHANGED handled
  BY <1>7, <1>9 DEF aggVars
<1>10. CASE Adding
  <2> DEFINE new == [offset |-> pos, from |-> from, agg |-> Aggregate]
  <2>1. /\ pos \in DOMAIN log /\ IsEvent(pos) /\ EventAt(pos).symbol = Symbol
        /\ Symbol \in Symbols
    BY <1>10, AddingFacts
  <2>2. IsShown(new) /\ new.offset = pos
    BY <1>10, <2>1, NewAggregate DEF IsShown
  <2>3. /\ aggregated' \in {aggregated, Append(aggregated, new)}
        /\ \/ UNCHANGED handled
           \/ handled' = handled \cup {pos} /\ aggregated' = Append(aggregated, new)
        /\ basePrice' = [basePrice EXCEPT ![Symbol] = BaseAfter]
    BY <1>10 DEF Adding, AddAndPublish, PublishFails, Published, Add,
                 Reader!HandlerOk, Reader!HandlerErr, Reader!fateVars
  <2> HIDE DEF new
  <2>4. \A s \in Symbols : basePrice'[s] = 0 => s \in blanked'
    <3>1. BaseAfter = 0 => Symbol \in blanked
      BY <1>10, NewAggregate
    <3>2. basePrice \in [Symbols -> Prices \cup {NoPrice}]
      BY DEF PipelineTypeOK, TypeOK
    <3> QED BY <1>2, <1>6, <2>3, <3>1, <3>2
  <2>5. CASE aggregated' = aggregated /\ aggregated' # Append(aggregated, new)
    <3>1. handled' = handled
      BY <2>3, <2>5
    <3>2. /\ aggregated' \in Seq({aggregated'[n] : n \in DOMAIN aggregated'})
          /\ HandledIsPublished'
      BY <1>6, <2>5, <3>1 DEF HandledIsPublished
    <3>3. \A n \in DOMAIN aggregated' : IsShown(aggregated[n])'
      <4> SUFFICES ASSUME NEW n \in DOMAIN aggregated PROVE IsShown(aggregated[n])'
        BY <2>5
      <4>1. PICK r : r = aggregated[n] /\ r = aggregated'[n]
        BY <2>5
      <4>2. IsShown(r)'
        BY <1>5, <1>6, <4>1
      <4> QED BY <4>1, <4>2
    <3> QED BY <2>4, <3>2, <3>3 DEF AggregateInv
  <2>6. CASE aggregated' = Append(aggregated, new)
    <3>1. /\ aggregated' \in Seq({aggregated'[n] : n \in DOMAIN aggregated'})
          /\ DOMAIN aggregated = 1..Len(aggregated) /\ Len(aggregated) \in Nat
          /\ DOMAIN aggregated' = 1..(Len(aggregated) + 1)
          /\ aggregated'[Len(aggregated) + 1] = new
          /\ \A n \in DOMAIN aggregated : aggregated'[n] = aggregated[n]
      BY <1>6, <2>6, AppendElements
    <3>2. \A n \in DOMAIN aggregated' : IsShown(aggregated[n])'
      <4> SUFFICES ASSUME NEW n \in DOMAIN aggregated' PROVE IsShown(aggregated[n])'
        OBVIOUS
      <4>1. PICK r : r = aggregated'[n]
        OBVIOUS
      <4>2. IsShown(r)
        <5>1. n \in DOMAIN aggregated \/ n = Len(aggregated) + 1
          BY <3>1
        <5> QED BY <1>6, <2>2, <3>1, <4>1, <5>1
      <4>3. IsShown(r)'
        BY <1>5, <4>2
      <4> QED BY <4>1, <4>3
    <3>3. HandledIsPublished'
      <4> SUFFICES ASSUME NEW o \in handled'
                   PROVE  \E n \in DOMAIN aggregated' : aggregated'[n].offset = o
        BY DEF HandledIsPublished
      <4>1. CASE o \in handled
        <5>1. PICK n \in DOMAIN aggregated : aggregated[n].offset = o
          BY <1>6, <4>1 DEF HandledIsPublished
        <5> QED BY <3>1, <5>1
      <4>2. CASE o = pos
        BY <2>2, <3>1, <4>2
      <4> QED BY <2>3, <4>1, <4>2
    <3> QED BY <2>4, <3>1, <3>2, <3>3 DEF AggregateInv
  <2> QED BY <2>3, <2>5, <2>6
<1> QED BY <1>8, <1>9, <1>10, AggregatorKinds

----------------------------------------------------------------------------
(* The copies. *)

\* What a step does to the loop's place, and to the counters of faults and of
\* shutdowns.
Stays == UNCHANGED <<pc, pos, cancelled, faults, shutdowns>>
Stopped == pc' = "down" /\ UNCHANGED <<log, pos, cancelled, faults, shutdowns>>
Signalled == shutdowns' = shutdowns + 1 /\ UNCHANGED <<log, pc, pos, faults>>
Handles ==
    /\ pc = "handler" /\ UNCHANGED <<log, pos, cancelled, shutdowns>>
    /\ \/ pc' = "commit" /\ UNCHANGED faults
       \/ pc' = "failure" /\ cancelled /\ UNCHANGED faults
       \/ pc' = "failure" /\ faults' = faults + 1
Rejects ==
    /\ pc = "handler" /\ pc' = "failure" /\ Incoming \in Poison
    /\ UNCHANGED <<log, pos, cancelled, faults, shutdowns>>
Takes ==
    /\ pc = "fetch" /\ pc' = "handler" /\ pos' = pos + 1
    /\ UNCHANGED <<log, cancelled, faults, shutdowns>>
Fails ==
    /\ pc = "failure" /\ pc' \in {"commit", "dlq"}
    /\ UNCHANGED <<pos, cancelled, shutdowns>> /\ faults' \in {faults, faults + 1}
    /\ log' \in {log, Append(log, Reader!Republished)}
GoesOn ==
    /\ pc \notin {"down", "handler"} /\ pc' \notin {"handler", "failure"}
    /\ (pc' = "fetch" => ~cancelled)
    /\ UNCHANGED <<log, pos, cancelled, shutdowns>> /\ faults' \in {faults, faults + 1}

LEMMA Moves ==
    [PipelineNext]_pipelineVars =>
        \/ Stays /\ UNCHANGED log
        \/ Stays /\ (Publishing \/ Foreign)
        \/ Start /\ pc = "down" /\ pc' = "loop" /\ UNCHANGED <<log, faults, shutdowns>>
        \/ Adding /\ Handles
        \/ ~Adding /\ (Stopped \/ Signalled \/ Rejects \/ Takes \/ Fails \/ GoesOn)
<1> SUFFICES ASSUME [PipelineNext]_pipelineVars
             PROVE  \/ Stays /\ UNCHANGED log
                    \/ Stays /\ (Publishing \/ Foreign)
                    \/ Start /\ pc = "down" /\ pc' = "loop"
                             /\ UNCHANGED <<log, faults, shutdowns>>
                    \/ Adding /\ Handles
                    \/ ~Adding /\ (Stopped \/ Signalled \/ Rejects \/ Takes \/ Fails \/ GoesOn)
  OBVIOUS
<1> USE DEF Reader!Goto, Reader!topicVars, Reader!readerVars, Reader!stopVars
<1>1. CASE UNCHANGED vars
  BY <1>1 DEF vars, loopVars, Stays
<1>2. CASE Publishing
  BY <1>2 DEF Publishing, Appended, Stays
<1>3. CASE Foreign
  BY <1>3 DEF Foreign, Reader!Produce, Stays
<1>4. CASE FlushCommits
  BY <1>4 DEF FlushCommits, Reader!FlushCommits, Stays
<1>5. CASE Start
  BY <1>5 DEF Start, Reader!Start
<1>6. CASE Adding
  BY <1>6 DEF Adding, AddAndPublish, PublishFails, Reader!HandlerOk,
              Reader!HandlerErr, Reader!Fail, Handles, Incoming
<1>7. CASE ~Adding /\ (Stopping \/ DecodeFails \/ Fetch)
  BY <1>7 DEF Stopping, DecodeFails, Fetch, Reader!Crash, Reader!Cancel,
              Reader!HandlerErr, Reader!Fetch, Stopped, Signalled, Rejects, Takes
<1>8. CASE ~Adding /\ LoopStep
  <2>1. CASE Reader!Fetch
    BY <1>8, <2>1 DEF Reader!Fetch, Takes
  <2>2. CASE Reader!HandleFailure
    BY <1>8, <2>2
       DEF Reader!HandleFailure, Reader!Retry, Reader!RetryFails,
           Reader!RetriesExhausted, Reader!Fail, Fails
  <2>3. CASE Reader!BeginFetch \/ Reader!ExitClosing \/ Reader!FetchError
                \/ Reader!ExitFetching
    BY <1>8, <2>3
       DEF Reader!BeginFetch, Reader!ExitClosing, Reader!FetchError,
           Reader!ExitFetching, GoesOn
  <2>4. CASE Reader!SendToDLQ \/ Reader!SendToDLQFails \/ Reader!Commit
                \/ Reader!CommitError
    BY <1>8, <2>4
       DEF Reader!SendToDLQ, Reader!SendToDLQFails, Reader!Fail, Reader!Commit,
           Reader!CommitError, GoesOn
  <2>5. pc # "handler" /\ Reader!Consume
    BY <1>8 DEF LoopStep
  <2>6. CASE Reader!HandlerOk \/ Reader!HandlerErr
    BY <2>5, <2>6 DEF Reader!HandlerOk, Reader!HandlerErr
  <2> QED BY <2>1, <2>2, <2>3, <2>4, <2>5, <2>6 DEF Reader!Consume
<1> QED BY <1>1, <1>2, <1>3, <1>4, <1>5, <1>6, <1>7, <1>8, StepKinds
        DEF Aggregating, Loop, Adding

\* A message that the producer or another service writes is no copy.
LEMMA WritesAreFresh ==
    ASSUME PipelineTypeOK, Reader!ConsumerInv, Publishing \/ Foreign,
           NEW o \in DOMAIN log', o > Len(log)
    PROVE  log'[o].retry = 0
<1>1. log \in Seq(Reader!Message)
  BY LoopFacts
<1>2. CASE Publishing
  <2>1. PICK e \in todo, n \in 0..MaxCopies : Appended(e, n)
    BY <1>2 DEF Publishing
  <2>2. e \in Ids /\ n \in Nat
    BY AggregatorAssumption, PipelineAssumption
       DEF AggregatorAssumption, PipelineAssumption, PipelineTypeOK
  <2>3. log'[o] = [id |-> e, retry |-> 0]
    BY <2>1, <2>2, AppendsKeepLoop
  <2> QED BY <2>3
<1>3. CASE Foreign
  <2>1. PICK i \in Poison : log' = Append(log, [id |-> i, retry |-> 0])
    BY <1>3 DEF Foreign, Reader!Produce
  <2>2. log' = <<[id |-> i, retry |-> 0]>>
    BY <1>3, <2>1 DEF Foreign
  <2>3. o = 1
    BY <2>2
  <2> QED BY <2>2, <2>3
<1> QED BY <1>2, <1>3

LEMMA CopyStep ==
    ASSUME PipelineTypeOK, Reader!ConsumerInv, CopyInv, [PipelineNext]_pipelineVars
    PROVE  CopyInv'
<1>1. TopicGrows /\ Reader!ConsumerInv'
  BY TopicStep DEF PipelineTypeOK
<1>2. /\ DOMAIN log = 1..Len(log) /\ Len(log) \in Nat
      /\ faults \in Nat /\ shutdowns \in Nat
      /\ pc \in {"handler", "failure"} => pos \in DOMAIN log
      /\ \A o \in DOMAIN log : log[o] \in [id : Ids, retry : 0..MaxRetries]
  BY LoopFacts
<1>3. /\ DOMAIN log' = 1..Len(log') /\ Len(log') \in Nat
      /\ \A o \in DOMAIN log' : log'[o] \in [id : Ids, retry : 0..MaxRetries]
  BY <1>1, EventsAfter
<1>r. pc = "failure" => /\ Reader!Republished.id = log[pos].id
                        /\ Reader!Republished.retry = log[pos].retry + 1
  BY <1>2 DEF Reader!Republished
<1>4. \A o \in DOMAIN log' : \E q \in 1..o : log'[q] = [id |-> log'[o].id, retry |-> 0]
  <2> SUFFICES ASSUME NEW o \in DOMAIN log'
               PROVE  \E q \in 1..o : log'[q] = [id |-> log'[o].id, retry |-> 0]
    OBVIOUS
  <2>1. CASE o \in DOMAIN log
    <3>1. PICK q \in 1..o : log[q] = [id |-> log[o].id, retry |-> 0]
      BY <2>1 DEF CopyInv
    <3>2. q \in DOMAIN log
      BY <1>2, <2>1
    <3> QED BY <1>1, <2>1, <3>1, <3>2 DEF TopicGrows
  <2>2. CASE o \notin DOMAIN log /\ log'[o].retry = 0
    <3>1. log'[o] = [id |-> log'[o].id, retry |-> 0]
      BY <1>3, <2>2
    <3>2. o \in 1..o
      BY <1>3
    <3> QED BY <3>1, <3>2
  <2>3. CASE o \notin DOMAIN log /\ pc = "failure" /\ log'[o] = Reader!Republished
    <3>1. pos \in DOMAIN log /\ o > Len(log)
      BY <1>1, <1>2, <2>3 DEF TopicGrows
    <3>2. PICK q \in 1..pos : log[q] = [id |-> log[pos].id, retry |-> 0]
      BY <3>1 DEF CopyInv
    <3>3. q \in DOMAIN log /\ q \in 1..o
      BY <1>2, <1>3, <3>1
    <3> QED BY <1>1, <1>r, <2>3, <3>2, <3>3 DEF TopicGrows
  <2> QED BY <1>1, <2>1, <2>2, <2>3 DEF TopicGrows, NewIs
<1>5. Copies \subseteq 1..Len(log) /\ IsFiniteSet(Copies) /\ Cardinality(Copies) \in Nat
  <2>1. IsFiniteSet(1..Len(log))
    BY <1>2, FS_Interval
  <2>2. Copies \subseteq 1..Len(log)
    BY <1>2 DEF Copies
  <2> QED BY <2>1, <2>2, FS_Subset, FS_CardinalityType
<1>6. ASSUME NEW o \in Copies', o \notin Copies
      PROVE  pc = "failure" /\ o = Len(log) + 1 /\ Incoming \notin Poison
  <2>1. o \in DOMAIN log' /\ log'[o].retry > 0 /\ log'[o].id \notin Poison
    BY <1>6 DEF Copies, IsEvent
  <2>2. o \notin DOMAIN log
    BY <1>1, <1>6, <2>1 DEF TopicGrows, Copies, IsEvent
  <2>3. pc = "failure" /\ o = Len(log) + 1 /\ log'[o] = Reader!Republished
    BY <1>1, <2>1, <2>2 DEF TopicGrows, NewIs
  <2> QED BY <1>r, <2>1, <2>3 DEF Incoming
<1>7. Copies' \subseteq Copies => IsFiniteSet(Copies') /\ Cardinality(Copies') <= Cardinality(Copies)
  BY <1>5, FS_Subset
<1>8. Copies' \subseteq Copies \cup {Len(log) + 1} =>
          Cardinality(Copies') <= Cardinality(Copies) + 1
  <2>1. Len(log) + 1 \notin Copies
    BY <1>2, <1>5
  <2>2. /\ IsFiniteSet(Copies \cup {Len(log) + 1})
        /\ Cardinality(Copies \cup {Len(log) + 1}) = Cardinality(Copies) + 1
    BY <1>5, <2>1, FS_AddElement
  <2> QED BY <2>2, FS_Subset
<1>9. Cardinality(Copies') \in Nat /\ IsFiniteSet(Copies')
  <2>1. Copies' \subseteq 1..Len(log') /\ IsFiniteSet(1..Len(log'))
    BY <1>3, FS_Interval DEF Copies
  <2> QED BY <2>1, FS_Subset, FS_CardinalityType
<1>c. PICK Count \in Nat : Count = Cardinality(Copies)
  BY <1>5
<1>d. PICK After \in Nat : After = Cardinality(Copies')
  BY <1>9
<1>m. PICK May \in {0, 1} : May = IF MayCopy THEN 1 ELSE 0
  OBVIOUS
<1>e. PICK MayAfter \in {0, 1} : MayAfter = IF MayCopy' THEN 1 ELSE 0
  OBVIOUS
<1>10. Count + May <= faults + shutdowns
  BY <1>c, <1>m DEF CopyInv
<1>11. /\ pc # "failure" => After <= Count
       /\ After <= Count + 1
       /\ pc = "failure" /\ Incoming \in Poison => After <= Count
  BY <1>6, <1>7, <1>8, <1>c, <1>d
<1>12. pc = "failure" /\ UNCHANGED pos => Incoming' = Incoming
  BY <1>1, <1>2 DEF TopicGrows, Incoming
<1>f. faults' \in Nat /\ shutdowns' \in Nat
  BY <1>1, AggregatorAssumption
     DEF Reader!ConsumerInv, Reader!TypeOK, AggregatorAssumption
<1>g. PICK f \in Nat : f = faults'
  BY <1>f
<1>h. PICK s \in Nat : s = shutdowns'
  BY <1>f
<1>n. /\ faults \in Nat /\ shutdowns \in Nat /\ f \in Nat /\ s \in Nat
      /\ Count \in Nat /\ After \in Nat /\ May \in {0, 1} /\ MayAfter \in {0, 1}
      /\ Count + May <= faults + shutdowns
  BY <1>2, <1>c, <1>d, <1>m, <1>e, <1>g, <1>h, <1>10
<1>13. Copies' \subseteq Copies /\ (MayCopy' => MayCopy)
          /\ faults' >= faults /\ shutdowns' >= shutdowns
       => After + MayAfter <= f + s
  <2> SUFFICES ASSUME Copies' \subseteq Copies, MayCopy' => MayCopy,
                      faults' >= faults, shutdowns' >= shutdowns
               PROVE  After + MayAfter <= f + s
    OBVIOUS
  <2>1. After <= Count /\ MayAfter <= May
    BY <1>7, <1>c, <1>d, <1>m, <1>e
  <2>2. f >= faults /\ s >= shutdowns
    BY <1>g, <1>h
  <2> QED BY <1>n, <2>1, <2>2
<1>14. UNCHANGED log => Copies' \subseteq Copies /\ After <= Count
  <2>1. UNCHANGED log => Copies' \subseteq Copies
    BY DEF Copies, IsEvent
  <2> QED BY <1>7, <1>c, <1>d, <2>1
<1>15. After + MayAfter <= f + s
  <2>1. CASE Stays /\ UNCHANGED log
    <3>1. MayCopy' => MayCopy
      BY <1>12, <2>1 DEF Stays, MayCopy
    <3> QED BY <1>2, <1>13, <1>14, <2>1, <3>1 DEF Stays
  <2>2. CASE Stays /\ (Publishing \/ Foreign)
    <3>1. MayCopy' => MayCopy
      BY <1>12, <2>2 DEF Stays, MayCopy
    <3>2. Copies' \subseteq Copies
      <4>1. ASSUME NEW o \in Copies', o \notin Copies
            PROVE  FALSE
        <5>1. o \in DOMAIN log' /\ log'[o].retry > 0 /\ o > Len(log)
          BY <1>2, <1>6, <4>1 DEF Copies
        <5>2. log'[o].retry = 0
          BY <2>2, <5>1, WritesAreFresh
        <5> QED BY <5>1, <5>2
      <4> QED BY <4>1
    <3> QED BY <1>2, <1>13, <2>2, <3>1, <3>2 DEF Stays
  <2>3. CASE pc' = "loop" /\ UNCHANGED <<log, faults, shutdowns>>
    <3>1. ~MayCopy'
      BY <2>3 DEF MayCopy
    <3> QED BY <1>2, <1>13, <1>14, <2>3, <3>1
  <2>4. CASE Stopped
    <3>1. ~MayCopy'
      BY <2>4 DEF MayCopy, Stopped
    <3> QED BY <1>2, <1>13, <1>14, <2>4, <3>1 DEF Stopped
  <2>5. CASE Signalled
    <3>1. After <= Count
      BY <1>14, <2>5 DEF Signalled
    <3>2. f = faults /\ s = shutdowns + 1
      BY <1>g, <1>h, <2>5 DEF Signalled
    <3> QED BY <1>n, <3>1, <3>2
  <2>6. CASE Handles
    <3>1. After <= Count
      BY <1>14, <2>6 DEF Handles
    <3>2. CASE pc' = "commit" /\ UNCHANGED faults
      <4>1. ~MayCopy'
        BY <3>2 DEF MayCopy
      <4> QED BY <1>2, <1>13, <1>14, <2>6, <3>2, <4>1 DEF Handles
    <3>3. CASE cancelled /\ UNCHANGED faults
      <4>1. MayCopy
        BY <2>6, <3>3 DEF MayCopy, Handles
      <4> QED BY <1>2, <1>13, <1>14, <2>6, <3>3, <4>1 DEF Handles
    <3>4. CASE faults' = faults + 1
      <4>1. f = faults + 1 /\ s = shutdowns
        BY <1>g, <1>h, <2>6, <3>4 DEF Handles
      <4> QED BY <1>n, <3>1, <4>1
    <3> QED BY <2>6, <3>2, <3>3, <3>4 DEF Handles
  <2>7. CASE Rejects
    <3>1. ~MayCopy'
      BY <2>7 DEF MayCopy, Rejects, Incoming
    <3> QED BY <1>2, <1>13, <1>14, <2>7, <3>1 DEF Rejects
  <2>8. CASE Takes
    <3>1. MayCopy' => MayCopy
      BY <2>8 DEF MayCopy, Takes
    <3> QED BY <1>2, <1>13, <1>14, <2>8, <3>1 DEF Takes
  <2>9. CASE Fails
    <3>1. ~MayCopy' /\ faults' >= faults /\ shutdowns' = shutdowns
      BY <1>2, <2>9 DEF MayCopy, Fails
    <3>2. CASE Incoming \in Poison
      <4>1. Copies' \subseteq Copies
        BY <1>6, <3>2
      <4> QED BY <1>2, <1>13, <3>1, <4>1
    <3>3. CASE Incoming \notin Poison
      <4>1. MayCopy
        BY <2>9, <3>3 DEF MayCopy, Fails
      <4>2. May = 1 /\ MayAfter = 0 /\ After <= Count + 1
        BY <1>m, <1>e, <1>11, <3>1, <4>1
      <4>3. f >= faults /\ s = shutdowns
        BY <1>g, <1>h, <3>1
      <4> QED BY <1>n, <4>2, <4>3
    <3> QED BY <3>2, <3>3
  <2>10. CASE GoesOn
    <3>1. MayCopy' => FALSE
      BY <2>10 DEF MayCopy, GoesOn
    <3>2. faults' >= faults /\ shutdowns' = shutdowns /\ UNCHANGED log
      BY <1>2, <2>10 DEF GoesOn
    <3> QED BY <1>2, <1>13, <1>14, <3>1, <3>2
  <2> QED BY <2>1, <2>2, <2>3, <2>4, <2>5, <2>6, <2>7, <2>8, <2>9, <2>10, Moves
<1> QED BY <1>4, <1>15, <1>d, <1>e, <1>g, <1>h DEF CopyInv

\* The offsets of a window that moves on: those of the messages it keeps, and p.
Rises(offs, n) == \A j, k \in 1..n : j < k => offs[j] < offs[k]
Below(offs, n, p) == \A k \in 1..n : offs[k] < p
Keeps(n, m, shift) == \A k \in 1..(n - 1) : k + shift \in 1..m
Continued(offs, old, n, shift, p) ==
    /\ offs[n] = p
    /\ \A k \in 1..(n - 1) : offs[k] = old[k + shift]
    /\ \A k \in 1..n : offs[k] <= p
LEMMA OneMoreOffset ==
    ASSUME NEW size \in Nat, NEW m \in Nat, NEW n \in Nat, n > 0, NEW shift \in Int,
           NEW p \in 1..size, NEW old \in [1..m -> 1..size],
           Rises(old, m), Below(old, m, p), Keeps(n, m, shift)
    PROVE  \E offs \in [1..n -> 1..size] :
              Rises(offs, n) /\ Continued(offs, old, n, shift, p)
<1> USE DEF Rises, Below, Keeps, Continued
<1> DEFINE offs == [k \in 1..n |-> IF k = n THEN p ELSE old[k + shift]]
<1>1. offs[n] = p /\ \A k \in 1..(n - 1) : offs[k] = old[k + shift]
  OBVIOUS
<1>2. \A k \in 1..n : k = n \/ k \in 1..(n - 1)
  OBVIOUS
<1>3. offs \in [1..n -> 1..size]
  BY <1>2
<1> HIDE DEF offs
<1>4. \A k \in 1..(n - 1) : offs[k] < p
  BY <1>1
<1>5. ASSUME NEW j \in 1..n, NEW k \in 1..n, j < k PROVE offs[j] < offs[k]
  <2>1. j \in 1..(n - 1)
    BY <1>5
  <2>2. CASE k = n
    BY <1>1, <1>4, <2>1, <2>2
  <2>3. CASE k \in 1..(n - 1)
    <3>1. j + shift \in 1..m /\ k + shift \in 1..m
      BY <2>1, <2>3
    <3>2. j + shift < k + shift
      BY ONLY <1>5, n \in Nat, shift \in Int, j \in 1..n, k \in 1..n
    <3>3. old[j + shift] < old[k + shift]
      BY <3>1, <3>2
    <3> QED BY <1>1, <2>1, <2>3, <3>3
  <2> QED BY <1>2, <2>2, <2>3
<1>6. \A k \in 1..n : offs[k] <= p
  <2>1. \A k \in 1..n : offs[k] \in 1..size
    BY <1>3
  <2> QED BY <1>1, <1>2, <1>4, <2>1
<1> QED BY <1>1, <1>3, <1>5, <1>6

LEMMA WindowStep ==
    ASSUME PipelineTypeOK, Reader!ConsumerInv, WindowInv, [PipelineNext]_pipelineVars
    PROVE  WindowInv'
<1>1. TopicGrows
  BY TopicStep DEF PipelineTypeOK
<1>2. pos \in Nat /\ DOMAIN log = 1..Len(log) /\ Len(log) \in Nat
  BY LoopFacts
<1>3. ASSUME NEW w, NEW offs \in [DOMAIN w -> DOMAIN log], IsAt(offs, w),
             Delivered <= Delivered', Delivered \in Int, Delivered' \in Int
      PROVE  offs \in [DOMAIN w -> DOMAIN log'] /\ IsAt(offs, w)'
  <2>1. \A k \in DOMAIN w : offs[k] \in DOMAIN log /\ offs[k] \in Int
    BY <1>2
  <2>2. \A k \in DOMAIN w : offs[k] \in DOMAIN log' /\ log'[offs[k]] = log[offs[k]]
    BY <1>1, <2>1 DEF TopicGrows
  <2>3. \A k \in DOMAIN w : offs[k] <= Delivered'
    <3>1. PICK d \in Int : d = Delivered'
      BY <1>3
    <3> QED BY <1>3, <2>1, <3>1 DEF IsAt
  <2> QED BY <1>3, <2>2, <2>3 DEF IsAt
<1>4. Delivered \in Int
  BY <1>2 DEF Delivered
<1>5. CASE Start
  <2>1. windows' = [s \in Symbols |-> <<>>]
    BY <1>5 DEF Start, NoWindows
  <2> SUFFICES ASSUME NEW s \in Symbols
               PROVE  \E offs \in [DOMAIN windows'[s] -> DOMAIN log'] :
                          IsAt(offs, windows[s])'
    BY DEF WindowInv
  <2>2. windows'[s] = <<>> /\ DOMAIN windows'[s] = {}
    BY <2>1
  <2>3. PICK offs : offs = [k \in {} |-> 0]
    OBVIOUS
  <2>4. offs \in [DOMAIN windows'[s] -> DOMAIN log']
    BY <2>2, <2>3
  <2>5. IsAt(offs, windows[s])'
    BY <2>2 DEF IsAt
  <2> QED BY <2>4, <2>5
<1>6. CASE UNCHANGED windows /\ Delivered <= Delivered' /\ Delivered' \in Int
  <2> SUFFICES ASSUME NEW s \in Symbols
               PROVE  \E offs \in [DOMAIN windows'[s] -> DOMAIN log'] :
                          IsAt(offs, windows[s])'
    BY DEF WindowInv
  <2>1. PICK offs \in [DOMAIN windows[s] -> DOMAIN log] : IsAt(offs, windows[s])
    BY DEF WindowInv
  <2>2. PICK w : w = windows[s] /\ w = windows'[s]
    BY <1>6
  <2>3. offs \in [DOMAIN w -> DOMAIN log'] /\ IsAt(offs, w)'
    BY <1>3, <1>4, <1>6, <2>1, <2>2
  <2> QED BY <2>2, <2>3
<1>7. CASE Adding
  <2>1. /\ pc = "handler" /\ pc' # "handler" /\ UNCHANGED <<log, pos>>
        /\ windows' = [windows EXCEPT ![Symbol] = WindowAfter]
    BY <1>7 DEF Adding, AddAndPublish, PublishFails, Add, Reader!HandlerOk,
                Reader!HandlerErr, Reader!Goto, Reader!topicVars, Reader!readerVars
  <2>2. Delivered = pos - 1 /\ Delivered' = pos
    BY <2>1 DEF Delivered
  <2> SUFFICES ASSUME NEW s \in Symbols
               PROVE  \E offs \in [DOMAIN windows'[s] -> DOMAIN log'] :
                          IsAt(offs, windows[s])'
    BY DEF WindowInv
  <2>3. windows \in [Symbols -> Seq(DOMAIN Event)]
    BY DEF PipelineTypeOK, TypeOK
  <2>4. PICK old \in [DOMAIN windows[s] -> DOMAIN log] : IsAt(old, windows[s])
    BY DEF WindowInv
  <2>5. CASE s # Symbol
    <3>1. PICK w : w = windows[s] /\ w = windows'[s]
      BY <2>1, <2>3, <2>5
    <3>2. old \in [DOMAIN w -> DOMAIN log'] /\ IsAt(old, w)'
      BY <1>2, <1>3, <2>2, <2>4, <3>1
    <3> QED BY <3>1, <3>2
  <2>6. CASE s = Symbol
    <3>1. PICK w : w = windows[s]
      OBVIOUS
    <3>2. PICK v : v = WindowAfter /\ v = windows'[s]
      BY <2>1, <2>3, <2>6
    <3>3. /\ pos \in DOMAIN log /\ log[pos].id = Incoming
          /\ v \in Seq(DOMAIN Event) /\ v[Len(v)] = Incoming
          /\ Len(v) \in 1..WindowSize
          /\ \A k \in 1..(Len(v) - 1) :
                LET j == k + (Len(w) + 1 - Len(v))
                IN  j \in 1..Len(w) /\ v[k] = w[j]
      BY <1>7, <2>6, <3>1, <3>2, AddingFacts
    <3>4. /\ DOMAIN w = 1..Len(w) /\ Len(w) \in Nat
          /\ DOMAIN v = 1..Len(v) /\ Len(v) \in Nat
      BY <2>3, <3>1, <3>3
    <3>n. Len(v) > 0
      BY <3>3, AggregatorAssumption DEF AggregatorAssumption
    <3>5. old \in [1..Len(w) -> DOMAIN log] /\ IsAt(old, w)
      BY <2>4, <3>1, <3>4
    <3>6. PICK m \in Nat : m = Len(w)
      BY <3>4
    <3>6n. PICK n \in Nat : n = Len(v) /\ n > 0
      BY <3>4, <3>n
    <3>7. PICK shift \in Int : shift = m + 1 - n
      OBVIOUS
    <3>8. \A k \in 1..(n - 1) : k + shift \in 1..m /\ v[k] = w[k + shift]
      <4> SUFFICES ASSUME NEW k \in 1..(n - 1)
                   PROVE  k + shift \in 1..m /\ v[k] = w[k + shift]
        OBVIOUS
      <4>1. k + (Len(w) + 1 - Len(v)) = k + shift
        BY <3>6, <3>6n, <3>7
      <4> QED BY <3>3, <3>6, <3>6n, <4>1
    <3>9. /\ \A j, k \in 1..m : j < k => old[j] < old[k]
          /\ \A k \in 1..m : old[k] <= pos - 1 /\ log[old[k]].id = w[k]
      BY <2>2, <3>4, <3>5, <3>6, <3>6n DEF IsAt
    <3>10. old \in [1..m -> 1..Len(log)] /\ pos \in 1..Len(log)
      BY <1>2, <3>3, <3>5, <3>6, <3>6n
    <3>11. \A k \in 1..m : old[k] < pos
      BY <1>2, <3>9, <3>10
    <3>12. PICK offs \in [1..n -> 1..Len(log)] :
              /\ offs[n] = pos
              /\ \A k \in 1..(n - 1) : offs[k] = old[k + shift]
              /\ \A j, k \in 1..n : j < k => offs[j] < offs[k]
              /\ \A k \in 1..n : offs[k] <= pos
      <4>1. Len(log) \in Nat /\ m \in Nat /\ n \in Nat /\ n > 0 /\ shift \in Int
        BY <1>2, <3>6, <3>6n, <3>7
      <4>2. Rises(old, m) /\ Below(old, m, pos) /\ Keeps(n, m, shift)
        BY <3>8, <3>9, <3>11 DEF Rises, Below, Keeps
      <4>3. \E offs \in [1..n -> 1..Len(log)] :
               Rises(offs, n) /\ Continued(offs, old, n, shift, pos)
        BY ONLY <3>10, <4>1, <4>2, OneMoreOffset
      <4> QED BY <4>3 DEF Rises, Continued
    <3>13. \A k \in 1..n : log[offs[k]].id = v[k]
      <4> SUFFICES ASSUME NEW k \in 1..n PROVE log[offs[k]].id = v[k]
        OBVIOUS
      <4>1. CASE k = n
        BY <3>3, <3>6, <3>6n, <3>12, <4>1
      <4>2. CASE k \in 1..(n - 1)
        BY <3>8, <3>9, <3>12, <4>2
      <4> QED BY <3>6, <3>6n, <4>1, <4>2
    <3>14. DOMAIN v = 1..n
      BY <3>4, <3>6, <3>6n
    <3>15. IsAt(offs, v)'
      BY <2>1, <2>2, <3>12, <3>13, <3>14 DEF IsAt
    <3>16. offs \in [DOMAIN v -> DOMAIN log']
      BY <1>2, <2>1, <3>12, <3>14
    <3> QED BY <3>2, <3>15, <3>16
  <2> QED BY <2>5, <2>6
<1>8. CASE UNCHANGED aggVars
  <2>1. UNCHANGED windows
    BY <1>8 DEF aggVars
  <2>2. CASE pos' = pos /\ (pc' = pc \/ pc' # "handler")
    BY <1>2, <1>6, <2>1, <2>2 DEF Delivered
  <2>3. CASE Takes
    <3>1. pc # "handler" /\ pc' = "handler" /\ pos' = pos + 1
      BY <2>3 DEF Takes
    <3>2. PICK p \in Nat : p = pos' /\ p - 1 = pos
      BY <1>2, <3>1
    <3>3. Delivered = pos /\ Delivered' = p - 1
      BY <3>1, <3>2 DEF Delivered
    <3>4. Delivered' = pos
      BY <3>2, <3>3
    <3> QED BY <1>2, <1>6, <2>1, <3>3, <3>4
  <2>4. \/ pos' = pos /\ (pc' = pc \/ pc' # "handler")
        \/ Takes \/ Start
    <3>1. CASE Stays
      BY <3>1 DEF Stays
    <3>2. CASE Handles \/ Stopped \/ Signalled \/ Rejects
      BY <3>2 DEF Handles, Stopped, Signalled, Rejects
    <3>3. CASE Fails \/ GoesOn
      BY <3>3 DEF Fails, GoesOn
    <3> QED BY <3>1, <3>2, <3>3, Moves
  <2> QED BY <1>5, <2>2, <2>3, <2>4
<1> QED BY <1>5, <1>7, <1>8, AggregatorKinds

----------------------------------------------------------------------------
(* The invariant. *)

LEMMA PipelineInitOK == PipelineInit => PipelineInv
<1> SUFFICES ASSUME PipelineInit PROVE PipelineInv
  OBVIOUS
<1>1. Init /\ Producer!Init /\ Reader!Init
  BY DEF PipelineInit, Init
<1>2. Reader!ConsumerInv
  BY <1>1, LoopInvariant
<1>3. /\ log = <<>> /\ DOMAIN log = {} /\ Len(log) = 0
      /\ pc = "down" /\ cancelled = FALSE /\ handled = {}
      /\ faults = 0 /\ shutdowns = 0
  BY <1>1 DEF Reader!Init
<1>4. /\ windows = NoWindows /\ basePrice = NoPrices
      /\ aggregated = <<>> /\ DOMAIN aggregated = {} /\ from = 0
  BY <1>1 DEF Init
<1>5. /\ phase = "down" /\ DOMAIN cache = {} /\ todo = {} /\ polls = 0 /\ since = 1
      /\ blanked = {} /\ stopping = FALSE /\ stops = 0
  BY <1>1 DEF Producer!Init, Producer!Nothing
<1>6. TypeOK
  <2>1. Reader!TypeOK
    BY <1>2 DEF Reader!ConsumerInv
  <2>2. windows \in [Symbols -> Seq(DOMAIN Event)]
    BY <1>4 DEF NoWindows
  <2>3. \A s \in Symbols : Len(windows[s]) = 0 /\ DOMAIN windows[s] = {}
    BY <1>4 DEF NoWindows
  <2>4. basePrice \in [Symbols -> Prices \cup {NoPrice}]
    BY <1>4 DEF NoPrices
  <2>5. WindowSize \in Nat
    BY AggregatorAssumption DEF AggregatorAssumption
  <2> QED BY <1>3, <1>4, <2>1, <2>2, <2>3, <2>4, <2>5 DEF TypeOK
<1>7. Producer!TypeOK
  <2>1. MaxPolls \in Nat /\ MaxPolls # 0 /\ MaxStops \in Nat
    BY PipelineAssumption DEF PipelineAssumption
  <2>2. polls \in 0..MaxPolls /\ since \in 1..MaxPolls /\ stops \in 0..MaxStops
    BY <1>5, <2>1
  <2>3. stopping \in BOOLEAN /\ blanked \subseteq DOMAIN BasePrices
        /\ DOMAIN cache \subseteq DOMAIN BasePrices
    BY <1>5
  <2> QED BY <1>5, <2>2, <2>3 DEF Producer!TypeOK
<1>8. PipelineTypeOK
  BY <1>5, <1>6, <1>7 DEF PipelineTypeOK
<1>9. ProducerInv
  BY <1>5, PipelineAssumption DEF ProducerInv, PipelineAssumption
<1>10. Made = {}
  BY <1>3, <1>5 DEF Made
<1>11. MadeInv /\ SimulatedInv
  BY <1>5, <1>10 DEF MadeInv, SimulatedInv
<1>12. OrderInv
  BY <1>3 DEF OrderInv
<1>13. AggregateInv
  <2>1. aggregated \in Seq({aggregated[n] : n \in DOMAIN aggregated})
    BY <1>4
  <2>2. HandledIsPublished /\ \A n \in DOMAIN aggregated : IsShown(aggregated[n])
    BY <1>3, <1>4 DEF HandledIsPublished
  <2>3. \A s \in Symbols : basePrice[s] # 0
    BY <1>4 DEF NoPrices, NoPrice
  <2> QED BY <2>1, <2>2, <2>3 DEF AggregateInv
<1>14. CopyInv
  <2>1. Copies = {} /\ ~MayCopy
    BY <1>3 DEF Copies, MayCopy
  <2>2. Cardinality(Copies) = 0
    BY <2>1, FS_EmptySet
  <2> QED BY <1>3, <2>1, <2>2 DEF CopyInv
<1>15. WindowInv
  <2> SUFFICES ASSUME NEW s \in Symbols
               PROVE  \E offs \in [DOMAIN windows[s] -> DOMAIN log] : IsAt(offs, windows[s])
    BY DEF WindowInv
  <2>1. DOMAIN windows[s] = {}
    BY <1>4 DEF NoWindows
  <2>2. PICK offs : offs = [k \in {} |-> 0]
    OBVIOUS
  <2>3. offs \in [DOMAIN windows[s] -> DOMAIN log]
    BY <2>1, <2>2
  <2>4. IsAt(offs, windows[s])
    BY <2>1 DEF IsAt
  <2> QED BY <2>3, <2>4
<1> QED BY <1>2, <1>8, <1>9, <1>11, <1>12, <1>13, <1>14, <1>15 DEF PipelineInv

LEMMA PipelineNextOK == PipelineInv /\ [PipelineNext]_pipelineVars => PipelineInv'
<1> SUFFICES ASSUME PipelineInv, [PipelineNext]_pipelineVars PROVE PipelineInv'
  OBVIOUS
<1>1. /\ PipelineTypeOK /\ Reader!ConsumerInv /\ ProducerInv /\ MadeInv /\ SimulatedInv
      /\ OrderInv /\ AggregateInv /\ CopyInv /\ WindowInv
  BY DEF PipelineInv
<1>2. Reader!ConsumerInv'
  BY <1>1, TopicStep DEF PipelineTypeOK
<1>3. PipelineTypeOK'
  BY <1>1, TypeStep
<1>4. ProducerInv'
  BY <1>1, ProducerStep
<1>5. MadeInv' /\ SimulatedInv'
  BY <1>1, MadeStep
<1>6. OrderInv'
  BY <1>1, OrderStep
<1>7. AggregateInv'
  BY <1>1, AggregateStep
<1>8. CopyInv'
  BY <1>1, CopyStep
<1>9. WindowInv'
  BY <1>1, WindowStep
<1> QED BY <1>2, <1>3, <1>4, <1>5, <1>6, <1>7, <1>8, <1>9 DEF PipelineInv

\* The topic, the windows and the aggregates hold what the producer made, in
\* its order, and every copy is accounted for.
THEOREM PipelineInvariant == PipelineSpec => []PipelineInv
BY PipelineInitOK, PipelineNextOK, PTL DEF PipelineSpec

----------------------------------------------------------------------------
(* What the invariant says of the properties. *)

\* The variables of the producer, the topic and the aggregator have their types.
THEOREM PipelineTypeCorrect == PipelineSpec => []PipelineTypeOK
<1>1. PipelineInv => PipelineTypeOK
  BY DEF PipelineInv
<1> QED BY <1>1, PipelineInvariant, PTL

\* No commit hides a publish that failed: what the loop counts as handled has
\* its aggregate in the topic.
THEOREM PublishedWhenHandled == PipelineSpec => []HandledIsPublished
<1>1. PipelineInv => HandledIsPublished
  BY DEF PipelineInv, AggregateInv
<1> QED BY <1>1, PipelineInvariant, PTL

\* Aggregates of a symbol go back in time only for republished copies and for
\* events that are delivered again.
THEOREM InOrder == PipelineSpec => []AggregatedInOrder
<1>1. PipelineInv => AggregatedInOrder
  <2> SUFFICES ASSUME PipelineInv, NEW m \in DOMAIN aggregated, NEW n \in DOMAIN aggregated,
                      NEW old, old = aggregated[n].offset,
                      NEW new, new = aggregated[m].offset,
                      EventAt(old).poll < EventAt(new).poll
               PROVE  log[old].retry > 0 \/ old < new
    BY DEF AggregatedInOrder
  <2>1. Reader!ConsumerInv /\ OrderInv /\ IsShown(aggregated[m]) /\ IsShown(aggregated[n])
    BY DEF PipelineInv, AggregateInv
  <2>2. /\ old \in DOMAIN log /\ IsEvent(old)
        /\ new \in DOMAIN log /\ IsEvent(new)
    BY <2>1 DEF IsShown
  <2>3. log[old].retry \in Nat
    BY <2>1, <2>2, LoopFacts
  <2>4. log[old].retry = 0 => old < new
    BY <2>1, <2>2 DEF OrderInv
  <2> QED BY <2>3, <2>4
<1> QED BY <1>1, PipelineInvariant, PTL

\* The offset at which a repeated event of a window was delivered holds a
\* second write of the producer or a copy.
LEMMA RepeatIsAccountedFor ==
    ASSUME PipelineInv, NEW s \in Symbols,
           NEW offs \in [DOMAIN windows[s] -> DOMAIN log], IsAt(offs, windows[s]),
           NEW k \in Repeated(s)
    PROVE  offs[k] \in Repeats \cup Copies
<1>1. Reader!ConsumerInv /\ CopyInv /\ windows[s] \in Seq(DOMAIN Event)
  BY DEF PipelineInv, PipelineTypeOK, TypeOK
<1>2. PICK j \in 1..(k - 1) : windows[s][j] = windows[s][k]
  BY DEF Repeated
<1>3. /\ k \in DOMAIN windows[s] /\ k \in Nat
      /\ j \in DOMAIN windows[s] /\ j < k /\ windows[s][k] \in DOMAIN Event
  <2>1. /\ DOMAIN windows[s] = 1..Len(windows[s]) /\ Len(windows[s]) \in Nat
        /\ k \in DOMAIN windows[s]
    BY <1>1 DEF Repeated
  <2> QED BY <1>1, <1>2, <2>1
<1> DEFINE old == offs[j]
           new == offs[k]
<1>4. /\ old \in DOMAIN log /\ new \in DOMAIN log /\ old < new
      /\ log[old].id = windows[s][k] /\ log[new].id = windows[s][k]
  BY <1>2, <1>3 DEF IsAt
<1> HIDE DEF old, new
<1>5. /\ log[new] \in [id : Ids, retry : 0..MaxRetries] /\ log[new].retry \in Nat
      /\ DOMAIN log = 1..Len(log) /\ Len(log) \in Nat
  BY <1>1, <1>4, LoopFacts
<1>6. CASE log[new].retry > 0
  <2>1. IsEvent(new)
    BY <1>3, <1>4, AggregatorAssumption DEF AggregatorAssumption, IsEvent
  <2>2. new \in Copies
    BY <1>4, <1>6, <2>1 DEF Copies
  <2> QED BY <2>2 DEF new
<1>7. CASE log[new].retry = 0
  <2>1. PICK q \in 1..old : log[q] = [id |-> log[old].id, retry |-> 0]
    BY <1>1, <1>4 DEF CopyInv
  <2>2. q \in 1..(new - 1)
    BY <1>4, <1>5, <2>1
  <2>3. log[new] = [id |-> log[new].id, retry |-> 0]
    BY <1>5, <1>7
  <2>4. log[q] = log[new]
    BY <1>4, <2>1, <2>3
  <2>5. new \in Repeats
    BY <1>4, <1>7, <2>2, <2>4 DEF Repeats
  <2> QED BY <2>5 DEF new
<1> QED BY <1>5, <1>6, <1>7

\* A window counts an event more than once only for a failed publish, a
\* shutdown, or a second write by the producer, one each.
THEOREM RepeatsBounded == PipelineSpec => []RepeatsBound
<1>1. PipelineInv => RepeatsBound
  <2> SUFFICES ASSUME PipelineInv, NEW s \in Symbols
               PROVE  Cardinality(Repeated(s)) <= faults + shutdowns + Cardinality(Repeats)
    BY DEF RepeatsBound
  <2>1. Reader!ConsumerInv /\ CopyInv /\ WindowInv
    BY DEF PipelineInv
  <2>2. PICK offs \in [DOMAIN windows[s] -> DOMAIN log] : IsAt(offs, windows[s])
    BY <2>1 DEF WindowInv
  <2>3. /\ DOMAIN log = 1..Len(log) /\ Len(log) \in Nat
        /\ faults \in Nat /\ shutdowns \in Nat
    BY <2>1, LoopFacts
  <2>4. IsFiniteSet(Repeats) /\ IsFiniteSet(Copies)
    <3>1. IsFiniteSet(DOMAIN log)
      BY <2>3, FS_Interval
    <3>2. Repeats \in SUBSET DOMAIN log /\ Copies \in SUBSET DOMAIN log
      BY DEF Repeats, Copies
    <3> QED BY <3>1, <3>2, FS_Subset
  <2>5. /\ IsFiniteSet(Repeats \cup Copies)
        /\ Cardinality(Repeats \cup Copies) <= Cardinality(Repeats) + Cardinality(Copies)
    <3>1. IsFiniteSet(Repeats \cap Copies)
      <4>1. Repeats \cap Copies \in SUBSET Repeats
        OBVIOUS
      <4> QED BY ONLY <2>4, <4>1, FS_Subset
    <3>2. /\ Cardinality(Repeats) \in Nat /\ Cardinality(Copies) \in Nat
          /\ Cardinality(Repeats \cap Copies) \in Nat
      BY <2>4, <3>1, FS_CardinalityType
    <3>3. /\ IsFiniteSet(Repeats \cup Copies)
          /\ Cardinality(Repeats \cup Copies) =
                Cardinality(Repeats) + Cardinality(Copies) - Cardinality(Repeats \cap Copies)
      BY ONLY <2>4, FS_Union
    <3> QED BY <3>2, <3>3
  <2> DEFINE f == [k \in Repeated(s) |-> offs[k]]
  <2>6. f \in [Repeated(s) -> Repeats \cup Copies]
    BY <2>2, RepeatIsAccountedFor
  <2>7. ASSUME NEW j \in Repeated(s), NEW k \in Repeated(s), j < k
        PROVE  f[j] # f[k]
    <3>1. j \in DOMAIN windows[s] /\ k \in DOMAIN windows[s]
      BY DEF Repeated
    <3>2. offs[j] < offs[k] /\ offs[j] \in Nat /\ offs[k] \in Nat
      BY <2>2, <2>3, <2>7, <3>1 DEF IsAt
    <3> QED BY <3>2
  <2>8. \A j, k \in Repeated(s) : j # k => j < k \/ k < j
    <3>1. windows[s] \in Seq(DOMAIN Event)
      BY DEF PipelineInv, PipelineTypeOK, TypeOK
    <3>2. \A k \in Repeated(s) : k \in Nat
      BY <3>1 DEF Repeated
    <3> QED BY <3>2
  <2> HIDE DEF f
  <2>9. f \in Injection(Repeated(s), Repeats \cup Copies)
    <3>1. \A j, k \in Repeated(s) : f[j] = f[k] => j = k
      BY <2>7, <2>8
    <3> QED BY <2>6, <3>1 DEF Injection, IsInjective
  <2>10. Cardinality(Repeated(s)) <= Cardinality(Repeats \cup Copies)
         /\ IsFiniteSet(Repeated(s))
    BY ONLY <2>5, <2>9, FS_Injection
  <2>11. Cardinality(Copies) <= faults + shutdowns
    <3>1. Cardinality(Copies) \in Nat
      BY <2>4, FS_CardinalityType
    <3> QED BY <2>1, <2>3, <3>1 DEF CopyInv
  <2>12. /\ Cardinality(Repeated(s)) \in Nat /\ Cardinality(Repeats \cup Copies) \in Nat
         /\ Cardinality(Repeats) \in Nat /\ Cardinality(Copies) \in Nat
    BY <2>4, <2>5, <2>10, FS_CardinalityType
  <2> QED BY <2>3, <2>5, <2>10, <2>11, <2>12
<1> QED BY <1>1, PipelineInvariant, PTL

\* Only an answer without a price makes an event of price zero, and an
\* aggregate without the percentage of its change.
THEOREM ZeroFromBlank == PipelineSpec => []ZeroNeedsBlank
<1>1. PipelineInv => ZeroNeedsBlank
  <2> SUFFICES ASSUME PipelineInv PROVE ZeroNeedsBlank
    OBVIOUS
  <2>1. /\ Reader!ConsumerInv /\ MadeInv
        /\ \A n \in DOMAIN aggregated : IsShown(aggregated[n])
    BY DEF PipelineInv, AggregateInv
  <2>2. ASSUME NEW o \in DOMAIN log, IsEvent(o), EventAt(o).price = 0
        PROVE  EventAt(o).symbol \in blanked
    <3>1. EventAt(o) \in Made
      BY <2>1, <2>2, LoopFacts DEF Made
    <3> QED BY <2>1, <2>2, <3>1 DEF MadeInv
  <2>3. \A n \in DOMAIN aggregated :
           ZeroIsBlank(aggregated[n].agg, EventAt(aggregated[n].offset).symbol)
    BY <2>1 DEF IsShown
  <2> QED BY <2>2, <2>3 DEF ZeroNeedsBlank, ZeroIsBlank
<1> QED BY <1>1, PipelineInvariant, PTL

\* Simulated prices continue those of the poll before.
THEOREM SimulatedOK == PipelineSpec => []SimulatedContinues
<1>1. PipelineInv => SimulatedContinues
  <2> SUFFICES ASSUME PipelineInv, NEW o \in DOMAIN log, IsEvent(o),
                      EventAt(o).exchange = "simulated"
               PROVE  /\ EventAt(o).poll = EventAt(o).since =>
                            Within(EventAt(o).price, BasePrices[EventAt(o).symbol])
                      /\ \A q \in DOMAIN log :
                            /\ IsEvent(q) /\ EventAt(q).symbol = EventAt(o).symbol
                            /\ EventAt(q).since = EventAt(o).since
                            /\ EventAt(q).poll = EventAt(o).poll - 1
                            => Within(EventAt(o).price, EventAt(q).price)
    BY DEF SimulatedContinues
  <2>1. Reader!ConsumerInv /\ SimulatedInv
    BY DEF PipelineInv
  <2>2. \A q \in DOMAIN log : IsEvent(q) => EventAt(q) \in Made
    BY <2>1, LoopFacts DEF Made
  <2>3. Continues(EventAt(o))
    BY <2>1, <2>2 DEF SimulatedInv
  <2> QED BY <2>2, <2>3 DEF Continues
<1> QED BY <1>1, PipelineInvariant, PTL


----------------------------------------------------------------------------
(* Sets of numbers, and sums over them. *)

\* A set of numbers that is not empty has a least one.
LEMMA FirstOf ==
    ASSUME NEW S \in SUBSET Nat, S # {}
    PROVE  \E n \in S : \A m \in S : n <= m
<1> DEFINE R == OpToRel(<, Nat)
<1>1. IsWellFoundedOn(R, Nat)
  BY NatLessThanWellFounded
<1>2. \A m, n \in Nat : m < n => <<m, n>> \in R
  BY DEF OpToRel
<1> HIDE DEF R
<1>3. PICK n \in S : \A m \in S : <<m, n>> \notin R
  BY <1>1, WFMin
<1>4. \A m \in S : ~(m < n)
  BY <1>2, <1>3
<1> QED BY <1>4

\* What holds of zero and of the successor of each number it holds of.
LEMMA UpToNumber ==
    ASSUME NEW S, NEW n \in Nat, 0 \in S,
           \A m \in Nat : m < n /\ m \in S => m + 1 \in S
    PROVE  n \in S
<1> SUFFICES ASSUME n \notin S PROVE FALSE
  OBVIOUS
<1> DEFINE missing == {m \in 0..n : m \notin S}
<1>1. missing \in SUBSET Nat /\ missing # {}
  OBVIOUS
<1>2. PICK m \in missing : \A k \in missing : m <= k
  BY <1>1, FirstOf
<1>3. m \in 0..n /\ m # 0 /\ m \notin S
  BY <1>2
<1>4. m - 1 \in Nat /\ m - 1 < n /\ (m - 1) + 1 = m /\ m - 1 \in 0..n
  BY <1>3
<1>5. m - 1 \notin missing
  BY <1>2, <1>3, <1>4
<1>6. m - 1 \in S
  BY <1>4, <1>5
<1> QED BY <1>3, <1>4, <1>6

\* The greatest and the least of a set of numbers.
LEMMA MaxIs ==
    ASSUME NEW S \in SUBSET Nat, NEW m \in S, \A k \in S : k <= m
    PROVE  Max(S) = m
<1>1. \A k \in S : m >= k
  OBVIOUS
<1>2. Max(S) \in S /\ \A k \in S : Max(S) >= k
  BY <1>1 DEF Max
<1>3. Max(S) \in Nat /\ m \in Nat /\ m >= Max(S) /\ Max(S) >= m
  BY <1>1, <1>2
<1> QED BY <1>3

LEMMA MinIs ==
    ASSUME NEW S \in SUBSET Nat, NEW m \in S, \A k \in S : m <= k
    PROVE  Min(S) = m
<1>1. Min(S) \in S /\ \A k \in S : Min(S) <= k
  BY DEF Min
<1>2. Min(S) \in Nat /\ m \in Nat /\ m <= Min(S) /\ Min(S) <= m
  BY <1>1
<1> QED BY <1>2

\* G adds f up, over every set of the first n numbers, in whatever order.
IsSum(G, f, n) ==
    /\ G \in [SUBSET (1..n) -> Nat]
    /\ G[{}] = 0
    /\ \A S \in SUBSET (1..n) : \A k \in S : G[S] = f[k] + G[S \ {k}]

LEMMA SumExists ==
    ASSUME NEW n \in Nat, NEW f, \A k \in 1..n : f[k] \in Nat
    PROVE  \E G : IsSum(G, f, n)
<1> DEFINE good == {m \in Nat : m <= n => \E G : IsSum(G, f, m)}
<1>1. 0 \in good
  <2> DEFINE G == [S \in SUBSET (1..0) |-> 0]
  <2>1. \A S \in SUBSET (1..0) : S = {}
    OBVIOUS
  <2>2. IsSum(G, f, 0)
    BY <2>1 DEF IsSum
  <2> QED BY <2>2
<1>2. ASSUME NEW m \in Nat, m < n, m \in good PROVE m + 1 \in good
  <2>1. PICK G : IsSum(G, f, m)
    BY <1>2
  <2>2. m + 1 \in 1..n /\ f[m + 1] \in Nat /\ \A k \in 1..m : f[k] \in Nat
    BY <1>2
  <2> DEFINE more == [S \in SUBSET (1..(m + 1)) |->
                        IF m + 1 \in S THEN f[m + 1] + G[S \ {m + 1}] ELSE G[S]]
  <2>3. \A S \in SUBSET (1..(m + 1)) :
            /\ S \ {m + 1} \in SUBSET (1..m)
            /\ m + 1 \notin S => S \in SUBSET (1..m)
    <3>1. \A k \in 1..(m + 1) : k # m + 1 => k \in 1..m
      OBVIOUS
    <3> QED BY <3>1
  <2>4. more \in [SUBSET (1..(m + 1)) -> Nat]
    BY <2>1, <2>2, <2>3 DEF IsSum
  <2>5. more[{}] = 0
    BY <2>1 DEF IsSum
  <2>6. ASSUME NEW S \in SUBSET (1..(m + 1)), NEW k \in S
        PROVE  more[S] = f[k] + more[S \ {k}]
    <3>1. S \ {k} \in SUBSET (1..(m + 1))
      OBVIOUS
    <3>2. CASE k = m + 1
      <4>1. more[S \ {k}] = G[S \ {m + 1}]
        BY <3>1, <3>2
      <4>2. more[S] = f[m + 1] + G[S \ {m + 1}]
        BY <3>2
      <4> HIDE DEF more
      <4> QED BY <3>2, <4>1, <4>2
    <3>3. CASE k # m + 1 /\ m + 1 \in S
      <4>1. more[S] = f[m + 1] + G[S \ {m + 1}]
        BY <3>3
      <4>2. more[S \ {k}] = f[m + 1] + G[(S \ {k}) \ {m + 1}]
        BY <3>1, <3>3
      <4>3. (S \ {k}) \ {m + 1} = (S \ {m + 1}) \ {k} /\ k \in S \ {m + 1}
        BY <3>3
      <4>4. G[S \ {m + 1}] = f[k] + G[(S \ {m + 1}) \ {k}]
        BY <2>1, <2>3, <4>3 DEF IsSum
      <4>5. /\ f[k] \in Nat /\ G[(S \ {m + 1}) \ {k}] \in Nat
        <5>1. k \in 1..m
          BY <2>3, <4>3
        <5>2. (S \ {m + 1}) \ {k} \in SUBSET (1..m)
          BY <2>3
        <5> QED BY <2>1, <2>2, <5>1, <5>2 DEF IsSum
      <4> HIDE DEF more
      <4> QED BY <2>2, <4>1, <4>2, <4>3, <4>4, <4>5
    <3>4. CASE m + 1 \notin S
      <4>1. more[S] = G[S] /\ more[S \ {k}] = G[S \ {k}]
        BY <3>1, <3>4
      <4>2. G[S] = f[k] + G[S \ {k}]
        BY <2>1, <2>3, <3>4 DEF IsSum
      <4> HIDE DEF more
      <4> QED BY <4>1, <4>2
    <3> QED BY <3>2, <3>3, <3>4
  <2> HIDE DEF more
  <2>7. IsSum(more, f, m + 1)
    BY <2>4, <2>5, <2>6 DEF IsSum
  <2> QED BY <2>7
<1> HIDE DEF good
<1>3. n \in good
  BY <1>1, <1>2, UpToNumber
<1> QED BY <1>3 DEF good

\* What MapThenSumSet iterates, taking any element first.
AddsUp(it, f, W) ==
    it = [S \in SUBSET W |->
            IF S = {} THEN 0
                      ELSE f[CHOOSE k \in S : TRUE] + it[S \ {CHOOSE k \in S : TRUE}]]

LEMMA SumIsUnique ==
    ASSUME NEW n \in Nat, NEW f, NEW G, IsSum(G, f, n),
           NEW W \in SUBSET (1..n), NEW it, AddsUp(it, f, W)
    PROVE  it[W] = G[W]
<1> DEFINE good == {m \in Nat : \A S \in SUBSET W :
                        Cardinality(S) = m => it[S] = G[S]}
<1>1. \A S \in SUBSET W : IsFiniteSet(S)
  <2>1. IsFiniteSet(1..n)
    BY FS_Interval
  <2>2. \A S \in SUBSET W : S \in SUBSET (1..n)
    OBVIOUS
  <2> QED BY <2>1, <2>2, FS_Subset
<1>2. 0 \in good
  <2>1. \A S \in SUBSET W : Cardinality(S) = 0 => S = {}
    BY <1>1, FS_EmptySet
  <2>2. it[{}] = 0 /\ G[{}] = 0
    BY DEF AddsUp, IsSum
  <2> QED BY <2>1, <2>2
<1>3. ASSUME NEW m \in Nat, m \in good PROVE m + 1 \in good
  <2> SUFFICES ASSUME NEW S \in SUBSET W, Cardinality(S) = m + 1
               PROVE  it[S] = G[S]
    OBVIOUS
  <2>1. S # {}
    BY FS_EmptySet
  <2>2. PICK k : k = CHOOSE j \in S : TRUE
    OBVIOUS
  <2>3. k \in S
    BY <2>1, <2>2
  <2>4. S \ {k} \in SUBSET W /\ Cardinality(S \ {k}) = m
    <3>1. Cardinality(S \ {k}) = Cardinality(S) - 1
      BY <1>1, <2>3, FS_RemoveElement
    <3>2. (m + 1) - 1 = m
      OBVIOUS
    <3>3. S \ {k} \in SUBSET W
      OBVIOUS
    <3> QED BY <3>1, <3>2, <3>3
  <2>5. it[S] = f[k] + it[S \ {k}]
    BY <2>1, <2>2 DEF AddsUp
  <2>6. it[S \ {k}] = G[S \ {k}]
    BY <1>3, <2>4
  <2>7. G[S] = f[k] + G[S \ {k}]
    <3>1. S \in SUBSET (1..n)
      OBVIOUS
    <3> QED BY <2>3, <3>1 DEF IsSum
  <2> QED BY <2>5, <2>6, <2>7
<1>4. Cardinality(W) \in Nat
  BY <1>1, FS_CardinalityType
<1> HIDE DEF good
<1>5. Cardinality(W) \in good
  BY <1>2, <1>3, <1>4, UpToNumber
<1> QED BY <1>5 DEF good

\* The sums in the topic l.
PriceAt(l, n) == Event[l[n].id].price
VolumeAt(l, n) == Event[l[n].id].volume
ExchangeAt(l, n) == Event[l[n].id].exchange
PriceSum(l, W) == LET price(n) == PriceAt(l, n) IN MapThenSumSet(price, W)
VolumeSum(l, W) == LET volume(n) == VolumeAt(l, n) IN MapThenSumSet(volume, W)
Agree(l, W, p, v) == \A k \in W : PriceAt(l, k) = p[k] /\ VolumeAt(l, k) = v[k]

\* P and V add up the prices and volumes in W.
AreSums(P, V, l, W, n) ==
    /\ n \in Nat /\ W \in SUBSET (1..n)
    /\ \E p, v : IsSum(P, p, n) /\ IsSum(V, v, n) /\ Agree(l, W, p, v)
LEMMA SumsAre ==
    ASSUME NEW P, NEW V, NEW l, NEW W, NEW n, AreSums(P, V, l, W, n)
    PROVE  PriceSum(l, W) = P[W] /\ VolumeSum(l, W) = V[W]
<1>n. n \in Nat /\ W \in SUBSET (1..n)
  BY DEF AreSums
<1>s. PICK p, v : IsSum(P, p, n) /\ IsSum(V, v, n) /\ Agree(l, W, p, v)
  BY DEF AreSums
<1> DEFINE prices(it) == it = [S \in SUBSET W |->
        IF S = {} THEN 0 ELSE PriceAt(l, CHOOSE k \in S : TRUE)
                                + it[S \ {CHOOSE k \in S : TRUE}]]
           volumes(it) == it = [S \in SUBSET W |->
        IF S = {} THEN 0 ELSE VolumeAt(l, CHOOSE k \in S : TRUE)
                                + it[S \ {CHOOSE k \in S : TRUE}]]
<1>1. \A S \in SUBSET W : S # {} => (CHOOSE k \in S : TRUE) \in W
  <2> TAKE S \in SUBSET W
  <2>1. S # {} => (CHOOSE k \in S : TRUE) \in S
    OBVIOUS
  <2> QED BY <2>1
<1>2. \A it : prices(it) <=> AddsUp(it, p, W)
  BY <1>s, <1>1 DEF AddsUp, Agree
<1>3. \A it : volumes(it) <=> AddsUp(it, v, W)
  BY <1>s, <1>1 DEF AddsUp, Agree
<1>4. PriceSum(l, W) = (CHOOSE it : prices(it))[W]
  BY DEF PriceSum, MapThenSumSet, MapThenFoldSet
<1>5. VolumeSum(l, W) = (CHOOSE it : volumes(it))[W]
  BY DEF VolumeSum, MapThenSumSet, MapThenFoldSet
<1>6. ASSUME NEW G, NEW f, IsSum(G, f, n) PROVE \E it : AddsUp(it, f, W)
  <2> DEFINE it == [S \in SUBSET W |-> G[S]]
  <2>1. ASSUME NEW S \in SUBSET W, S # {}
        PROVE  it[S] = f[CHOOSE k \in S : TRUE] + it[S \ {CHOOSE k \in S : TRUE}]
    <3>1. PICK k : k = CHOOSE j \in S : TRUE
      OBVIOUS
    <3>2. k \in S /\ S \in SUBSET (1..n)
      BY <1>n, <2>1, <3>1
    <3>3. G[S] = f[k] + G[S \ {k}]
      BY <1>6, <3>2 DEF IsSum
    <3>4. it[S] = G[S] /\ it[S \ {k}] = G[S \ {k}]
      OBVIOUS
    <3> HIDE DEF it
    <3> QED BY <3>1, <3>3, <3>4
  <2>2. it[{}] = 0
    BY <1>6 DEF IsSum
  <2>3. it = [S \in SUBSET W |-> it[S]]
    OBVIOUS
  <2> HIDE DEF it
  <2>4. AddsUp(it, f, W)
    BY <2>1, <2>2, <2>3 DEF AddsUp
  <2> QED BY <2>4
<1> HIDE DEF prices, volumes
<1>7. AddsUp(CHOOSE it : prices(it), p, W) /\ AddsUp(CHOOSE it : volumes(it), v, W)
  <2>1. \E it : prices(it)
    BY <1>s, <1>2, <1>6
  <2>2. \E it : volumes(it)
    BY <1>s, <1>3, <1>6
  <2>3. prices(CHOOSE it : prices(it))
    BY <2>1
  <2>4. volumes(CHOOSE it : volumes(it))
    BY <2>2
  <2> QED BY <1>2, <1>3, <2>3, <2>4
<1> QED BY <1>n, <1>s, <1>4, <1>5, <1>7, SumIsUnique

----------------------------------------------------------------------------
(* The loop of computeAggregate over a window w of m events: AddUp is      *)
(* folded over w, beginning with acc.                                      *)

IsFold(it, w, m, acc) ==
    it = [S \in SUBSET (1..m) |->
            IF S = {} THEN acc ELSE AddUp(it[S \ {Max(S)}], w[Max(S)])]

LEMMA FoldExists ==
    ASSUME NEW n \in Nat, NEW w, NEW acc
    PROVE  \E it : IsFold(it, w, n, acc)
<1> DEFINE good == {m \in Nat : \E it : IsFold(it, w, m, acc)}
<1>1. 0 \in good
  <2> DEFINE it == [S \in SUBSET (1..0) |-> acc]
  <2>1. \A S \in SUBSET (1..0) : S = {}
    OBVIOUS
  <2>2. IsFold(it, w, 0, acc)
    BY <2>1 DEF IsFold
  <2> QED BY <2>2
<1>2. ASSUME NEW m \in Nat, m \in good PROVE m + 1 \in good
  <2>1. PICK it : IsFold(it, w, m, acc)
    BY <1>2
  <2> DEFINE more == [S \in SUBSET (1..(m + 1)) |->
                        IF m + 1 \in S THEN AddUp(it[S \ {m + 1}], w[m + 1])
                                       ELSE it[S]]
  <2>2. ASSUME NEW S \in SUBSET (1..(m + 1))
        PROVE  more[S] = IF S = {} THEN acc
                         ELSE AddUp(more[S \ {Max(S)}], w[Max(S)])
    <3>1. CASE m + 1 \in S
      <4>1. Max(S) = m + 1
        <5>1. S \in SUBSET Nat /\ \A k \in S : k <= m + 1
          OBVIOUS
        <5> QED BY <3>1, <5>1, MaxIs
      <4>2. S \ {m + 1} \in SUBSET (1..(m + 1)) /\ m + 1 \notin S \ {m + 1}
        OBVIOUS
      <4>3. more[S \ {m + 1}] = it[S \ {m + 1}]
        BY <4>2
      <4>4. more[S] = AddUp(it[S \ {m + 1}], w[m + 1])
        BY <3>1
      <4> HIDE DEF more
      <4> QED BY <3>1, <4>1, <4>3, <4>4
    <3>2. CASE m + 1 \notin S
      <4>1. S \in SUBSET (1..m)
        <5>1. \A k \in S : k \in 1..(m + 1) /\ k # m + 1
          BY <3>2
        <5>2. \A k \in 1..(m + 1) : k # m + 1 => k \in 1..m
          OBVIOUS
        <5> QED BY <5>1, <5>2
      <4>2. /\ S \ {Max(S)} \in SUBSET (1..(m + 1))
            /\ m + 1 \notin S \ {Max(S)}
        BY <3>2
      <4>3. more[S] = it[S] /\ more[S \ {Max(S)}] = it[S \ {Max(S)}]
        BY <3>2, <4>2
      <4>4. it[S] = IF S = {} THEN acc ELSE AddUp(it[S \ {Max(S)}], w[Max(S)])
        BY <2>1, <4>1 DEF IsFold
      <4> HIDE DEF more
      <4> QED BY <4>3, <4>4
    <3> QED BY <3>1, <3>2
  <2>3. more = [S \in SUBSET (1..(m + 1)) |-> more[S]]
    OBVIOUS
  <2> HIDE DEF more
  <2>4. IsFold(more, w, m + 1, acc)
    BY <2>2, <2>3 DEF IsFold
  <2> QED BY <2>4
<1> HIDE DEF good
<1>3. n \in good
  BY <1>1, <1>2, UpToNumber
<1> QED BY <1>3 DEF good

\* What has been added up behind the first k events of the window, which are
\* those at the offsets offs, when p adds up prices and v adds up volumes.
Upto(offs, k) == {offs[j] : j \in 1..k}
IsTotal(acc, w, offs, k, p, v, first) ==
    /\ acc.sum = p[Upto(offs, k)] /\ acc.volume = v[Upto(offs, k)]
    /\ acc.exchanges = {w[j].exchange : j \in 1..k}
    /\ acc.high \in {first} \cup {w[j].price : j \in 1..k}
    /\ \A j \in 1..k : w[j].price <= acc.high
    /\ acc.low \in {first} \cup {w[j].price : j \in 1..k}
    /\ \A j \in 1..k : acc.low <= w[j].price

Nothing(first) == [sum |-> 0, volume |-> 0, exchanges |-> {},
                   high |-> first, low |-> first]

LEMMA AddUpOK ==
    ASSUME NEW n \in Nat, NEW m \in Nat, NEW k \in Nat, k < m,
           NEW offs \in [1..m -> 1..n], Rises(offs, m), NEW w,
           NEW f, NEW g, NEW p, NEW v, IsSum(p, f, n), IsSum(v, g, n),
           \A j \in 1..m : /\ w[j].price = f[offs[j]] /\ w[j].price \in Nat
                           /\ w[j].volume = g[offs[j]] /\ w[j].volume \in Nat,
           NEW first \in Nat, NEW acc, IsTotal(acc, w, offs, k, p, v, first)
    PROVE  IsTotal(AddUp(acc, w[k + 1]), w, offs, k + 1, p, v, first)
<1>1. k + 1 \in 1..m /\ \A j \in 1..(k + 1) : j \in 1..m /\ (j = k + 1 \/ j \in 1..k)
  OBVIOUS
<1>2. \A j \in 1..k : j \in 1..m /\ j \in 1..(k + 1)
  OBVIOUS
<1>3. Upto(offs, k + 1) \in SUBSET (1..n) /\ offs[k + 1] \in Upto(offs, k + 1)
  BY <1>1 DEF Upto
<1>4. Upto(offs, k + 1) \ {offs[k + 1]} = Upto(offs, k)
  <2>1. \A j \in 1..k : offs[j] # offs[k + 1]
    <3>1. \A j \in 1..k : j < k + 1
      OBVIOUS
    <3>2. \A j \in 1..k : offs[j] < offs[k + 1] /\ offs[j] \in Nat /\ offs[k + 1] \in Nat
      BY <1>1, <1>2, <3>1 DEF Rises
    <3> QED BY <3>2
  <2> QED BY <1>1, <1>2, <2>1 DEF Upto
<1>5. /\ p[Upto(offs, k + 1)] = f[offs[k + 1]] + p[Upto(offs, k)]
      /\ v[Upto(offs, k + 1)] = g[offs[k + 1]] + v[Upto(offs, k)]
  <2>1. PICK S, x : S = Upto(offs, k + 1) /\ x = offs[k + 1]
    OBVIOUS
  <2>2. S \in SUBSET (1..n) /\ x \in S /\ S \ {x} = Upto(offs, k)
    BY <1>3, <1>4, <2>1
  <2>3. p[S] = f[x] + p[S \ {x}] /\ v[S] = g[x] + v[S \ {x}]
    BY <2>2 DEF IsSum
  <2> QED BY <2>1, <2>2, <2>3
<1>6. p[Upto(offs, k)] \in Nat /\ v[Upto(offs, k)] \in Nat
  <2>1. Upto(offs, k) \in SUBSET (1..n)
    BY <1>2 DEF Upto
  <2> QED BY <2>1 DEF IsSum
<1> DEFINE e == w[k + 1]
           next == AddUp(acc, e)
<1>7. /\ next.sum = acc.sum + e.price /\ next.volume = acc.volume + e.volume
      /\ next.exchanges = acc.exchanges \cup {e.exchange}
      /\ next.high = IF e.price > acc.high THEN e.price ELSE acc.high
      /\ next.low = IF e.price < acc.low THEN e.price ELSE acc.low
  BY DEF AddUp
<1>8. /\ e.price = f[offs[k + 1]] /\ e.price \in Nat
      /\ e.volume = g[offs[k + 1]] /\ e.volume \in Nat
  BY <1>1
<1> HIDE DEF next
<1>9. next.sum = p[Upto(offs, k + 1)] /\ next.volume = v[Upto(offs, k + 1)]
  BY <1>5, <1>6, <1>7, <1>8 DEF IsTotal
<1>10. next.exchanges = {w[j].exchange : j \in 1..(k + 1)}
  <2>1. {w[j].exchange : j \in 1..(k + 1)} = {w[j].exchange : j \in 1..k} \cup {e.exchange}
    BY <1>1, <1>2
  <2> QED BY <1>7, <2>1 DEF IsTotal
<1>11. acc.high \in Nat /\ acc.low \in Nat
  BY <1>2 DEF IsTotal
<1>12. /\ next.high \in {first} \cup {w[j].price : j \in 1..(k + 1)}
       /\ \A j \in 1..(k + 1) : w[j].price <= next.high
  <2>1. next.high \in {first} \cup {w[j].price : j \in 1..(k + 1)}
    BY <1>1, <1>2, <1>7 DEF IsTotal
  <2>2. ASSUME NEW j \in 1..(k + 1) PROVE w[j].price <= next.high
    <3>1. w[j].price \in Nat
      BY <1>1
    <3>2. acc.high <= next.high /\ e.price <= next.high
      BY <1>7, <1>8, <1>11
    <3>3. next.high \in Nat
      BY <1>7, <1>8, <1>11
    <3>4. CASE j = k + 1
      BY <3>2, <3>4
    <3>5. CASE j \in 1..k
      <4>1. w[j].price <= acc.high
        BY <3>5 DEF IsTotal
      <4> QED BY <1>11, <3>1, <3>2, <3>3, <4>1
    <3> QED BY <1>1, <3>4, <3>5
  <2> QED BY <2>1, <2>2
<1>13. /\ next.low \in {first} \cup {w[j].price : j \in 1..(k + 1)}
       /\ \A j \in 1..(k + 1) : next.low <= w[j].price
  <2>1. next.low \in {first} \cup {w[j].price : j \in 1..(k + 1)}
    BY <1>1, <1>2, <1>7 DEF IsTotal
  <2>2. ASSUME NEW j \in 1..(k + 1) PROVE next.low <= w[j].price
    <3>1. w[j].price \in Nat
      BY <1>1
    <3>2. next.low <= acc.low /\ next.low <= e.price
      BY <1>7, <1>8, <1>11
    <3>3. next.low \in Nat
      BY <1>7, <1>8, <1>11
    <3>4. CASE j = k + 1
      BY <3>2, <3>4
    <3>5. CASE j \in 1..k
      <4>1. acc.low <= w[j].price
        BY <3>5 DEF IsTotal
      <4> QED BY <1>11, <3>1, <3>2, <3>3, <4>1
    <3> QED BY <1>1, <3>4, <3>5
  <2> QED BY <2>1, <2>2
<1> QED BY <1>9, <1>10, <1>12, <1>13 DEF IsTotal, next

\* Of the whole window, the loop computes the totals.
LEMMA TotalsAre ==
    ASSUME NEW n \in Nat, NEW m \in Nat,
           NEW offs \in [1..m -> 1..n], Rises(offs, m), NEW w, DOMAIN w = 1..m,
           NEW f, NEW g, NEW p, NEW v, IsSum(p, f, n), IsSum(v, g, n),
           \A j \in 1..m : /\ w[j].price = f[offs[j]] /\ w[j].price \in Nat
                           /\ w[j].volume = g[offs[j]] /\ w[j].volume \in Nat,
           NEW first \in Nat
    PROVE  IsTotal(Totals(w, first, first), w, offs, m, p, v, first)
<1> DEFINE folds(it) == it = [S \in SUBSET (1..m) |->
              IF S = {} THEN Nothing(first) ELSE AddUp(it[S \ {Max(S)}], w[Max(S)])]
<1>1. \A it : folds(it) <=> IsFold(it, w, m, Nothing(first))
  BY DEF IsFold
<1>2. \E it : folds(it)
  BY <1>1, FoldExists
<1>3. Totals(w, first, first) = (CHOOSE it : folds(it))[1..m]
  BY DEF Totals, FoldLeft, MapThenFoldSet, Nothing
<1> HIDE DEF folds
<1>4. folds(CHOOSE it : folds(it))
  BY <1>2
<1>5. PICK it : /\ IsFold(it, w, m, Nothing(first))
                /\ Totals(w, first, first) = it[1..m]
  BY <1>1, <1>3, <1>4
<1> DEFINE good == {k \in Nat : k <= m => IsTotal(it[1..k], w, offs, k, p, v, first)}
<1>6. 0 \in good
  <2>1. 1..0 = {} /\ {} \in SUBSET (1..m)
    OBVIOUS
  <2>2. it[1..0] = Nothing(first)
    BY <1>5, <2>1 DEF IsFold
  <2>3. Upto(offs, 0) = {} /\ p[{}] = 0 /\ v[{}] = 0
    BY <2>1 DEF Upto, IsSum
  <2>4. IsTotal(Nothing(first), w, offs, 0, p, v, first)
    BY <2>1, <2>3 DEF IsTotal, Nothing
  <2> QED BY <2>2, <2>4
<1>7. ASSUME NEW k \in Nat, k < m, k \in good PROVE k + 1 \in good
  <2>1. IsTotal(it[1..k], w, offs, k, p, v, first)
    BY <1>7
  <2>2. 1..(k + 1) \in SUBSET (1..m) /\ k + 1 \in 1..(k + 1)
    <3>1. \A j \in 1..(k + 1) : j \in 1..m
      BY <1>7
    <3>2. k + 1 \in 1..(k + 1)
      OBVIOUS
    <3> QED BY <3>1, <3>2
  <2>3. Max(1..(k + 1)) = k + 1
    <3>1. 1..(k + 1) \in SUBSET Nat /\ \A j \in 1..(k + 1) : j <= k + 1
      OBVIOUS
    <3> QED BY <2>2, <3>1, MaxIs
  <2>4. (1..(k + 1)) \ {k + 1} = 1..k
    OBVIOUS
  <2>5. it[1..(k + 1)] = AddUp(it[(1..(k + 1)) \ {Max(1..(k + 1))}], w[Max(1..(k + 1))])
    BY <1>5, <2>2 DEF IsFold
  <2>6. it[1..(k + 1)] = AddUp(it[1..k], w[k + 1])
    BY <2>3, <2>4, <2>5
  <2>7. IsTotal(AddUp(it[1..k], w[k + 1]), w, offs, k + 1, p, v, first)
    BY <1>7, <2>1, AddUpOK
  <2> QED BY <2>6, <2>7
<1> HIDE DEF good
<1>8. m \in good
  BY <1>6, <1>7, UpToNumber
<1> QED BY <1>5, <1>8 DEF good

----------------------------------------------------------------------------
(* The window and the recent events. *)

\* A window w, whose events are those at the offsets offs in the topic l, is
\* what is left of the events at given.
IsWindowOf(l, offs, w, given) ==
    /\ \A j, k \in DOMAIN w : j < k => offs[j] < offs[k]
    /\ \A k \in DOMAIN w : l[offs[k]].id = w[k]
    /\ \A o \in given : \/ \E k \in DOMAIN w : offs[k] = o
                        \/ Len(w) = WindowSize /\ o < offs[1]

Latest(given) ==
    {o \in given : Cardinality({k \in given : k > o}) < WindowSize}

LEMMA OffsetsCount ==
    ASSUME NEW n \in Nat, NEW m \in Nat, NEW offs \in [1..m -> 1..n], Rises(offs, m)
    PROVE  IsFiniteSet(Upto(offs, m)) /\ Cardinality(Upto(offs, m)) = m
<1> DEFINE good == {k \in Nat : k <= m => /\ IsFiniteSet(Upto(offs, k))
                                          /\ Cardinality(Upto(offs, k)) = k}
<1>1. 0 \in good
  <2>1. Upto(offs, 0) = {}
    BY DEF Upto
  <2> QED BY <2>1, FS_EmptySet
<1>2. ASSUME NEW k \in Nat, k < m, k \in good PROVE k + 1 \in good
  <2>1. IsFiniteSet(Upto(offs, k)) /\ Cardinality(Upto(offs, k)) = k
    BY <1>2
  <2>2. k + 1 \in 1..m /\ \A j \in 1..(k + 1) : j = k + 1 \/ j \in 1..k
    BY <1>2
  <2>3. \A j \in 1..k : j \in 1..(k + 1) /\ j \in 1..m /\ j < k + 1
    BY <1>2
  <2>4. Upto(offs, k + 1) = Upto(offs, k) \cup {offs[k + 1]}
    <3>1. k + 1 \in 1..(k + 1)
      OBVIOUS
    <3> QED BY <2>2, <2>3, <3>1 DEF Upto
  <2>5. offs[k + 1] \notin Upto(offs, k)
    <3>1. \A j \in 1..k : offs[j] < offs[k + 1] /\ offs[j] \in Nat /\ offs[k + 1] \in Nat
      BY <2>2, <2>3 DEF Rises
    <3>2. \A j \in 1..k : offs[j] # offs[k + 1]
      BY <3>1
    <3> QED BY <3>2 DEF Upto
  <2>6. /\ IsFiniteSet(Upto(offs, k) \cup {offs[k + 1]})
        /\ Cardinality(Upto(offs, k) \cup {offs[k + 1]}) = Cardinality(Upto(offs, k)) + 1
    BY <2>1, <2>5, FS_AddElement
  <2>7. IsFiniteSet(Upto(offs, k + 1)) /\ Cardinality(Upto(offs, k + 1)) = k + 1
    BY <2>1, <2>4, <2>6
  <2> QED BY <2>7
<1> HIDE DEF good
<1>3. m \in good
  BY <1>1, <1>2, UpToNumber
<1> QED BY <1>3 DEF good

\* The events of a window are the recent ones.
LEMMA WindowIsLatest ==
    ASSUME NEW n \in Nat, NEW given \in SUBSET (1..n), NEW m \in Nat,
           m > 0, m <= WindowSize,
           NEW offs \in [1..m -> given], Rises(offs, m),
           \A o \in given : o \in Upto(offs, m) \/ (m = WindowSize /\ o < offs[1])
    PROVE  Latest(given) = Upto(offs, m)
<1>1. WindowSize \in Nat
  BY AggregatorAssumption DEF AggregatorAssumption
<1>2. offs \in [1..m -> 1..n] /\ 1 \in 1..m
  <2>1. \A o \in given : o \in 1..n
    OBVIOUS
  <2>2. 1 \in 1..m
    OBVIOUS
  <2> QED BY <2>1, <2>2
<1>3. IsFiniteSet(Upto(offs, m)) /\ Cardinality(Upto(offs, m)) = m
  BY <1>2, OffsetsCount
<1>4. Upto(offs, m) \subseteq given
  BY DEF Upto
<1>5. IsFiniteSet(given)
  <2>1. IsFiniteSet(1..n)
    BY FS_Interval
  <2> QED BY <2>1, FS_Subset
<1>6. ASSUME NEW o \in given
      PROVE  LET later == {k \in given : k > o}
             IN  IsFiniteSet(later) /\ Cardinality(later) \in Nat
  BY <1>5, FS_Subset, FS_CardinalityType
<1>7. ASSUME NEW o \in Upto(offs, m)
      PROVE  Cardinality({k \in given : k > o}) < WindowSize
  <2> DEFINE later == {k \in given : k > o}
  <2>1. PICK j \in 1..m : o = offs[j]
    BY DEF Upto
  <2>2. o \in given /\ o \in Nat /\ offs[1] \in Nat /\ offs[1] <= o
    <3>1. CASE j = 1
      BY <1>2, <1>4, <2>1, <3>1
    <3>2. CASE j > 1
      BY <1>2, <1>4, <2>1, <3>2 DEF Rises
    <3> QED BY <3>1, <3>2
  <2>3. \A k \in given : k > o => k \in Upto(offs, m) /\ k # o
    BY <2>2
  <2>4. later \in SUBSET (Upto(offs, m) \ {o})
    BY <2>3
  <2>5. /\ IsFiniteSet(Upto(offs, m) \ {o})
        /\ Cardinality(Upto(offs, m) \ {o}) = m - 1
    BY <1>3, FS_RemoveElement
  <2>6. Cardinality(later) <= m - 1
    BY <2>4, <2>5, FS_Subset
  <2>7. Cardinality(later) \in Nat
    BY <1>6, <2>2
  <2> HIDE DEF later
  <2>8. Cardinality(later) < WindowSize
    BY <1>1, <2>6, <2>7
  <2> QED BY <2>8 DEF later
<1>8. ASSUME NEW o \in given, o \notin Upto(offs, m)
      PROVE  ~(Cardinality({k \in given : k > o}) < WindowSize)
  <2> DEFINE later == {k \in given : k > o}
  <2>1. m = WindowSize /\ o < offs[1]
    BY <1>8
  <2>2. \A j \in 1..m : offs[j] > o
    <3> TAKE j \in 1..m
    <3>1. offs[j] \in Nat /\ offs[1] \in Nat /\ o \in Nat
      BY <1>2
    <3>2. offs[1] <= offs[j]
      <4>1. CASE j = 1
        BY <3>1, <4>1
      <4>2. CASE j > 1
        BY <1>2, <3>1, <4>2 DEF Rises
      <4> QED BY <4>1, <4>2
    <3> QED BY <2>1, <3>1, <3>2
  <2>3. Upto(offs, m) \in SUBSET later
    BY <1>4, <2>2 DEF Upto
  <2>4. IsFiniteSet(later) /\ Cardinality(later) \in Nat
    BY <1>6
  <2>5. Cardinality(Upto(offs, m)) <= Cardinality(later)
    BY <2>3, <2>4, FS_Subset
  <2> HIDE DEF later
  <2>6. ~(Cardinality(later) < WindowSize)
    BY <1>1, <1>3, <2>1, <2>4, <2>5
  <2> QED BY <2>6 DEF later
<1> QED BY <1>4, <1>7, <1>8 DEF Latest

----------------------------------------------------------------------------
(* What a right aggregate is, of the topic l. *)

SameIn(l, f, o) ==
    {n \in (f + 1)..o : /\ l[n].id \notin Poison
                        /\ Event[l[n].id].symbol = Event[l[o].id].symbol}
AggregateIn(l, agg, f, o) ==
    LET recent == Latest(SameIn(l, f, o))
    IN  /\ agg.price = PriceAt(l, o)
        /\ agg.count = Cardinality(recent)
        /\ agg.sum = PriceSum(l, recent)
        /\ agg.volume = VolumeSum(l, recent)
        /\ agg.high = Max({PriceAt(l, n) : n \in recent})
        /\ agg.low = Min({PriceAt(l, n) : n \in recent})
        /\ agg.exchangeCount = Cardinality({ExchangeAt(l, n) : n \in recent})

SameAggregates == \A agg, f, o : IsAggregateOf(agg, f, o) <=> AggregateIn(log, agg, f, o)
LEMMA AggregateInLog == SameAggregates
<1>1. \A f, o : SameSymbol(f, o) = SameIn(log, f, o)
  BY DEF SameSymbol, SameIn
<1>2. \A f, o : Recent(f, o) = Latest(SameIn(log, f, o))
  BY <1>1 DEF Recent, Latest
<1>3. ASSUME NEW agg, NEW f, NEW o
      PROVE  IsAggregateOf(agg, f, o) <=> AggregateIn(log, agg, f, o)
  BY <1>1, <1>2 DEF IsAggregateOf, AggregateIn, PriceAt, VolumeAt, ExchangeAt,
                         PriceSum, VolumeSum
<1> QED BY <1>3 DEF SameAggregates


\* An aggregate stays right as the topic grows.
LEMMA StaysRight ==
    ASSUME NEW l, NEW k, NEW agg, NEW f \in Nat, NEW o \in Nat, f < o,
           \A n \in 1..o : k[n] = l[n] /\ l[n].id \in Ids,
           l[o].id \notin Poison, AggregateIn(l, agg, f, o)
    PROVE  AggregateIn(k, agg, f, o)
<1> DEFINE same == SameIn(l, f, o)
<1>1. same \in SUBSET (1..o) /\ o \in same
  BY DEF SameIn
<1>2. SameIn(k, f, o) = same
  <2>1. \A n \in (f + 1)..o : n \in 1..o
    OBVIOUS
  <2>2. k[o] = l[o] /\ \A n \in (f + 1)..o : k[n] = l[n]
    BY <1>1, <2>1
  <2> QED BY <2>2 DEF SameIn
<1>3. \A n \in 1..o : PriceAt(k, n) = PriceAt(l, n) /\ VolumeAt(k, n) = VolumeAt(l, n)
  BY DEF PriceAt, VolumeAt
<1>4. \A n \in same : l[n].id \notin Poison
  BY DEF SameIn
<1> HIDE DEF same
<1> DEFINE recent == Latest(same)
<1>5. recent \in SUBSET (1..o) /\ \A n \in recent : n \in same
  BY <1>1 DEF Latest
<1>6. PriceSum(k, recent) = PriceSum(l, recent) /\ VolumeSum(k, recent) = VolumeSum(l, recent)
  <2> DEFINE prices == [n \in 1..o |-> IF l[n].id \in Poison THEN 0 ELSE PriceAt(l, n)]
             volumes == [n \in 1..o |-> IF l[n].id \in Poison THEN 0 ELSE VolumeAt(l, n)]
  <2>1. \A n \in 1..o : prices[n] \in Nat /\ volumes[n] \in Nat
    BY AggregatorAssumption DEF AggregatorAssumption, PriceAt, VolumeAt
  <2>2. Agree(l, recent, prices, volumes) /\ Agree(k, recent, prices, volumes)
    BY <1>3, <1>4, <1>5 DEF Agree
  <2> HIDE DEF prices, volumes, recent
  <2>3. PICK P : IsSum(P, prices, o)
    BY <2>1, SumExists
  <2>4. PICK V : IsSum(V, volumes, o)
    BY <2>1, SumExists
  <2>5. AreSums(P, V, l, recent, o) /\ AreSums(P, V, k, recent, o)
    BY <1>5, <2>2, <2>3, <2>4 DEF AreSums
  <2>6. PriceSum(l, recent) = P[recent] /\ VolumeSum(l, recent) = V[recent]
    BY ONLY <2>5, SumsAre
  <2>7. PriceSum(k, recent) = P[recent] /\ VolumeSum(k, recent) = V[recent]
    BY ONLY <2>5, SumsAre
  <2> QED BY <2>6, <2>7
<1>7. PriceAt(k, o) = PriceAt(l, o)
  BY <1>1, <1>3
<1>8. /\ {PriceAt(k, n) : n \in recent} = {PriceAt(l, n) : n \in recent}
      /\ {ExchangeAt(k, n) : n \in recent} = {ExchangeAt(l, n) : n \in recent}
  BY <1>3, <1>5 DEF ExchangeAt
<1>9. AggregateIn(l, agg, f, o) <=>
         /\ agg.price = PriceAt(l, o)
         /\ agg.count = Cardinality(recent)
         /\ agg.sum = PriceSum(l, recent)
         /\ agg.volume = VolumeSum(l, recent)
         /\ agg.high = Max({PriceAt(l, n) : n \in recent})
         /\ agg.low = Min({PriceAt(l, n) : n \in recent})
         /\ agg.exchangeCount = Cardinality({ExchangeAt(l, n) : n \in recent})
  BY DEF AggregateIn, same
<1>10. AggregateIn(k, agg, f, o) <=>
         /\ agg.price = PriceAt(k, o)
         /\ agg.count = Cardinality(recent)
         /\ agg.sum = PriceSum(k, recent)
         /\ agg.volume = VolumeSum(k, recent)
         /\ agg.high = Max({PriceAt(k, n) : n \in recent})
         /\ agg.low = Min({PriceAt(k, n) : n \in recent})
         /\ agg.exchangeCount = Cardinality({ExchangeAt(k, n) : n \in recent})
  BY <1>2 DEF AggregateIn
<1> HIDE DEF recent
<1> QED BY <1>6, <1>7, <1>8, <1>9, <1>10

----------------------------------------------------------------------------
(* The windows of a running process. *)

\* The events of a symbol that this process has added.
Given(s) == {n \in (from + 1)..Delivered : IsEvent(n) /\ EventAt(n).symbol = s}
GivenInv ==
    pc # "down" =>
        /\ from <= Delivered
        /\ \A s \in Symbols :
              /\ \E offs \in [DOMAIN windows[s] -> Given(s)] :
                    IsWindowOf(log, offs, windows[s], Given(s))
              /\ basePrice[s] = IF Given(s) = {} THEN NoPrice
                                ELSE PriceAt(log, Min(Given(s)))

IsRight(l, r) ==
    r.from \in 0..(r.offset - 1) /\ AggregateIn(l, r.agg, r.from, r.offset)
RightInv == \A n \in DOMAIN aggregated : IsRight(log, aggregated[n])

\* The window that moves on, constants of it: its m or n events are those at
\* old and then at offs.
Covers(offs, m, given) ==
    \A o \in given : \/ \E k \in 1..m : offs[k] = o
                     \/ m = WindowSize /\ o < offs[1]
LEMMA StillCovers ==
    ASSUME NEW size \in Nat, NEW m \in Nat, NEW n \in Nat, n > 0, NEW shift \in Int,
           shift = m + 1 - n, m <= WindowSize,
           n = IF m + 1 > WindowSize THEN WindowSize ELSE m + 1,
           NEW p \in 1..size, NEW old \in [1..m -> 1..size],
           NEW offs \in [1..n -> 1..size], Rises(old, m), Below(old, m, p),
           Continued(offs, old, n, shift, p), NEW given \in SUBSET Nat,
           Covers(old, m, given)
    PROVE  Covers(offs, n, given \cup {p})
<1>1. WindowSize \in Nat /\ WindowSize > 0
  BY AggregatorAssumption DEF AggregatorAssumption
<1>2. offs[n] = p /\ n \in 1..n /\ \A k \in 1..(n - 1) : offs[k] = old[k + shift]
  BY DEF Continued
<1>3. CASE m < WindowSize
  <2>1. shift = 0 /\ n = m + 1
    BY <1>1, <1>3
  <2>2. \A k \in 1..m : k \in 1..n /\ k \in 1..(n - 1) /\ k + shift = k
    BY <2>1
  <2>3. \A k \in 1..m : k \in 1..n /\ offs[k] = old[k]
    BY <1>2, <2>2
  <2>4. m # WindowSize
    BY <1>1, <1>3
  <2> QED BY <1>2, <2>3, <2>4 DEF Covers
<1>4. CASE m = WindowSize
  <2>1. shift = 1 /\ n = m /\ 1 \in 1..m
    BY <1>1, <1>4
  <2>2. old[1] < offs[1]
    <3>1. CASE n = 1
      <4>1. offs[1] = p /\ old[1] < p
        BY <1>2, <2>1, <3>1 DEF Below
      <4> QED BY <4>1
    <3>2. CASE n > 1
      <4>1. 1 \in 1..(n - 1) /\ 2 \in 1..m /\ 1 + shift = 2
        BY <2>1, <3>2
      <4>2. offs[1] = old[2]
        BY <1>2, <4>1
      <4>3. old[1] < old[2]
        BY <2>1, <4>1 DEF Rises
      <4> QED BY <4>2, <4>3
    <3> QED BY <3>1, <3>2
  <2>3. ASSUME NEW o \in given PROVE (\E k \in 1..n : offs[k] = o) \/ o < offs[1]
    <3>1. CASE o < old[1]
      <4>1. o \in Nat /\ old[1] \in Nat /\ offs[1] \in Nat
        BY <2>1
      <4> QED BY <2>2, <3>1, <4>1
    <3>2. CASE \E k \in 1..m : old[k] = o
      <4>1. PICK k \in 1..m : old[k] = o
        BY <3>2
      <4>2. CASE k = 1
        BY <2>2, <4>1, <4>2
      <4>3. CASE k # 1
        <5>1. k - 1 \in 1..(n - 1) /\ (k - 1) + shift = k /\ k - 1 \in 1..n
          BY <2>1, <4>3
        <5>2. offs[k - 1] = old[k]
          BY <1>2, <5>1
        <5> QED BY <4>1, <5>1, <5>2
      <4> QED BY <4>2, <4>3
    <3> QED BY <3>1, <3>2 DEF Covers
  <2> QED BY <1>2, <1>4, <2>1, <2>3 DEF Covers
<1> QED BY <1>1, <1>3, <1>4

\* How long the window is afterwards.
LEMMA WindowLength ==
    ASSUME PipelineTypeOK, Reader!ConsumerInv, Adding
    PROVE  /\ Len(windows[Symbol]) \in Nat /\ Len(windows[Symbol]) <= WindowSize
           /\ Len(WindowAfter) = IF Len(windows[Symbol]) + 1 > WindowSize
                                 THEN WindowSize ELSE Len(windows[Symbol]) + 1
<1>1. Symbol \in Symbols /\ Incoming \in DOMAIN Event
  BY AddingFacts
<1>2. WindowSize \in Nat /\ WindowSize > 0
  BY AggregatorAssumption DEF AggregatorAssumption
<1>3. /\ windows[Symbol] \in Seq(DOMAIN Event) /\ Len(windows[Symbol]) \in Nat
      /\ Len(windows[Symbol]) <= WindowSize
  BY <1>1 DEF PipelineTypeOK, TypeOK
<1> DEFINE w == Append(windows[Symbol], Incoming)
<1>4. w \in Seq(DOMAIN Event) /\ Len(w) = Len(windows[Symbol]) + 1
  BY <1>1, <1>3
<1>5. WindowAfter = IF Len(w) > WindowSize
                    THEN SubSeq(w, Len(w) - WindowSize + 1, Len(w)) ELSE w
  BY DEF WindowAfter, LastOf
<1> HIDE DEF w
<1>6. CASE Len(w) > WindowSize
  <2>1. \A i \in (Len(w) - WindowSize + 1)..Len(w) : w[i] \in DOMAIN Event
    <3>1. \A i \in 1..Len(w) : w[i] \in DOMAIN Event
      BY <1>4
    <3>2. \A i \in (Len(w) - WindowSize + 1)..Len(w) : i \in 1..Len(w)
      BY <1>2, <1>3, <1>4, <1>6
    <3> QED BY <3>1, <3>2
  <2>2. Len(SubSeq(w, Len(w) - WindowSize + 1, Len(w))) = WindowSize
    BY <1>2, <1>3, <1>4, <1>6, <2>1, SubSeqProperties
  <2> QED BY <1>3, <1>4, <1>5, <1>6, <2>2
<1>7. CASE ~(Len(w) > WindowSize)
  BY <1>3, <1>4, <1>5, <1>7
<1> QED BY <1>6, <1>7

\* The message in hand is behind what has been added of its symbol.
LEMMA GivenAfter ==
    ASSUME PipelineTypeOK, Reader!ConsumerInv, GivenInv, Adding
    PROVE  /\ from \in Nat /\ from < pos
           /\ Given(Symbol) \in SUBSET (1..Len(log))
           /\ \A o \in Given(Symbol) : o < pos
           /\ SameIn(log, from, pos) = Given(Symbol) \cup {pos}
<1>1. /\ pos \in DOMAIN log /\ IsEvent(pos) /\ EventAt(pos).symbol = Symbol
      /\ Incoming = log[pos].id
  BY AddingFacts
<1>2. DOMAIN log = 1..Len(log) /\ Len(log) \in Nat /\ pos \in Nat
  BY LoopFacts
<1>3. pc = "handler"
  BY DEF Adding, AddAndPublish, PublishFails
<1>4. Delivered = pos - 1
  BY <1>3 DEF Delivered
<1>5. from \in Nat /\ from <= pos - 1
  BY <1>2, <1>3, <1>4 DEF GivenInv, PipelineTypeOK, TypeOK
<1>6. \A o \in (from + 1)..pos : o = pos \/ o \in (from + 1)..(pos - 1)
  BY <1>2, <1>5
<1>7. \A o \in (from + 1)..(pos - 1) : o \in (from + 1)..pos /\ o < pos /\ o \in 1..Len(log)
  BY <1>1, <1>2, <1>5
<1>8. pos \in (from + 1)..pos
  BY <1>2, <1>5
<1>9. SameIn(log, from, pos) = Given(Symbol) \cup {pos}
  <2>1. Given(Symbol)
          = {o \in (from + 1)..(pos - 1) : IsEvent(o) /\ EventAt(o).symbol = Symbol}
    BY <1>4 DEF Given
  <2>2. SameIn(log, from, pos)
          = {o \in (from + 1)..pos : IsEvent(o) /\ EventAt(o).symbol = Symbol}
    BY <1>1 DEF SameIn, IsEvent, EventAt
  <2> QED BY <1>1, <1>6, <1>7, <1>8, <2>1, <2>2
<1>10. \A o \in Given(Symbol) : o < pos /\ o \in 1..Len(log)
  BY <1>4, <1>7 DEF Given
<1> QED BY <1>2, <1>5, <1>9, <1>10

\* The window afterwards is what is left of what has been added, with the new
\* event; and its base price that of the first.
LEMMA WindowMovesOn ==
    ASSUME PipelineTypeOK, Reader!ConsumerInv, GivenInv, Adding
    PROVE  /\ \E offs \in [1..Len(WindowAfter) -> Given(Symbol) \cup {pos}] :
                  /\ Rises(offs, Len(WindowAfter))
                  /\ Covers(offs, Len(WindowAfter), Given(Symbol) \cup {pos})
                  /\ \A k \in 1..Len(WindowAfter) : log[offs[k]].id = WindowAfter[k]
           /\ BaseAfter = PriceAt(log, Min(Given(Symbol) \cup {pos}))
<1>1. /\ pos \in DOMAIN log /\ log[pos].id = Incoming /\ Symbol \in Symbols
      /\ WindowAfter \in Seq(DOMAIN Event) /\ Len(WindowAfter) \in 1..WindowSize
      /\ WindowAfter[Len(WindowAfter)] = Incoming
      /\ \A k \in 1..(Len(WindowAfter) - 1) :
            LET j == k + (Len(windows[Symbol]) + 1 - Len(WindowAfter))
            IN  j \in 1..Len(windows[Symbol]) /\ WindowAfter[k] = windows[Symbol][j]
  BY AddingFacts
<1>2. /\ Len(windows[Symbol]) \in Nat /\ Len(windows[Symbol]) <= WindowSize
      /\ Len(WindowAfter) = IF Len(windows[Symbol]) + 1 > WindowSize
                            THEN WindowSize ELSE Len(windows[Symbol]) + 1
  BY WindowLength
<1>3. DOMAIN log = 1..Len(log) /\ Len(log) \in Nat
  BY LoopFacts
<1>4. /\ Given(Symbol) \in SUBSET (1..Len(log)) /\ \A o \in Given(Symbol) : o < pos
  BY GivenAfter
<1>5. pc # "down"
  BY DEF Adding, AddAndPublish, PublishFails
<1>6. windows[Symbol] \in Seq(DOMAIN Event)
  BY <1>1 DEF PipelineTypeOK, TypeOK
<1>7. PICK w : w = windows[Symbol]
  OBVIOUS
<1>8. PICK m \in Nat : m = Len(w) /\ m <= WindowSize /\ DOMAIN w = 1..m
  BY <1>2, <1>6, <1>7
<1>9. PICK n \in Nat : n = Len(WindowAfter) /\ n > 0
  BY <1>1, AggregatorAssumption DEF AggregatorAssumption
<1>10. PICK given : given = Given(Symbol)
  OBVIOUS
<1>11. PICK old \in [1..m -> given] : IsWindowOf(log, old, w, given)
  BY <1>1, <1>5, <1>7, <1>8, <1>10 DEF GivenInv
<1>12. PICK shift \in Int : shift = m + 1 - n
  OBVIOUS
<1>13. given \in SUBSET (1..Len(log)) /\ given \in SUBSET Nat /\ \A o \in given : o < pos
  BY <1>3, <1>4, <1>10
<1>14. old \in [1..m -> 1..Len(log)] /\ pos \in 1..Len(log)
  BY <1>1, <1>3, <1>11, <1>13
<1>15. \A k \in 1..(n - 1) : k + shift \in 1..m /\ WindowAfter[k] = w[k + shift]
  <2> SUFFICES ASSUME NEW k \in 1..(n - 1)
               PROVE  k + shift \in 1..m /\ WindowAfter[k] = w[k + shift]
    OBVIOUS
  <2>1. k + (Len(windows[Symbol]) + 1 - Len(WindowAfter)) = k + shift
    BY <1>7, <1>8, <1>9, <1>12
  <2> QED BY <1>1, <1>7, <1>8, <1>9, <2>1
<1>16. Rises(old, m) /\ Below(old, m, pos) /\ Keeps(n, m, shift) /\ Covers(old, m, given)
  <2>1. Rises(old, m)
    BY <1>8, <1>11 DEF IsWindowOf, Rises
  <2>2. Below(old, m, pos)
    BY <1>11, <1>13 DEF Below
  <2>3. Keeps(n, m, shift)
    BY <1>15 DEF Keeps
  <2>4. Covers(old, m, given)
    BY <1>8, <1>11 DEF IsWindowOf, Covers
  <2> QED BY <2>1, <2>2, <2>3, <2>4
<1>17. PICK offs \in [1..n -> 1..Len(log)] :
          Rises(offs, n) /\ Continued(offs, old, n, shift, pos)
  <2>1. \E offs \in [1..n -> 1..Len(log)] :
           Rises(offs, n) /\ Continued(offs, old, n, shift, pos)
    BY ONLY <1>3, <1>8, <1>9, <1>12, <1>14, <1>16, OneMoreOffset
  <2> QED BY <2>1
<1>18. n = IF m + 1 > WindowSize THEN WindowSize ELSE m + 1
  BY <1>2, <1>7, <1>8, <1>9
<1>19. Covers(offs, n, given \cup {pos})
  <2>1. /\ Len(log) \in Nat /\ m \in Nat /\ n \in Nat /\ n > 0 /\ shift \in Int
        /\ shift = m + 1 - n /\ m <= WindowSize
    BY <1>3, <1>8, <1>9, <1>12
  <2> QED BY <1>13, <1>14, <1>16, <1>17, <1>18, <2>1, StillCovers
<1>20. \A k \in 1..n : k = n \/ k \in 1..(n - 1)
  OBVIOUS
<1>21. \A k \in 1..n : offs[k] \in given \cup {pos} /\ log[offs[k]].id = WindowAfter[k]
  <2> TAKE k \in 1..n
  <2>1. CASE k = n
    BY <1>1, <1>9, <1>17, <2>1 DEF Continued
  <2>2. CASE k \in 1..(n - 1)
    <3>1. offs[k] = old[k + shift] /\ k + shift \in 1..m
      BY <1>15, <1>17, <2>2 DEF Continued
    <3>2. log[old[k + shift]].id = w[k + shift]
      BY <1>8, <1>11, <3>1 DEF IsWindowOf
    <3> QED BY <1>11, <1>15, <2>2, <3>1, <3>2
  <2> QED BY <1>20, <2>1, <2>2
<1>22. offs \in [1..n -> given \cup {pos}]
  BY <1>17, <1>21
<1>23. BaseAfter = PriceAt(log, Min(given \cup {pos}))
  <2>1. basePrice[Symbol] = IF given = {} THEN NoPrice ELSE PriceAt(log, Min(given))
    BY <1>1, <1>5, <1>10 DEF GivenInv
  <2>2. Event[Incoming].price = PriceAt(log, pos) /\ pos \in Nat
    BY <1>1, <1>3 DEF PriceAt
  <2>3. CASE given = {}
    <3>1. Min(given \cup {pos}) = pos
      BY <2>2, <2>3, MinIs
    <3> QED BY <2>1, <2>2, <2>3, <3>1 DEF BaseAfter
  <2>4. CASE given # {}
    <3>1. PICK o \in given : \A k \in given : o <= k
      BY <1>13, <2>4, FirstOf
    <3>2. Min(given) = o
      BY <1>13, <3>1, MinIs
    <3>3. \A k \in given \cup {pos} : o <= k
      BY <1>13, <2>2, <3>1
    <3>4. given \cup {pos} \in SUBSET Nat
      BY <1>13, <2>2
    <3>5. Min(given \cup {pos}) = o
      BY <3>1, <3>3, <3>4, MinIs
    <3>6. PriceAt(log, o) # NoPrice
      <4>1. o \in DOMAIN log /\ IsEvent(o)
        BY <1>3, <1>10, <1>13, <3>1 DEF Given
      <4>2. log[o].id \in DOMAIN Event
        BY <4>1, LoopFacts
      <4>3. PriceAt(log, o) \in Nat
        BY <4>2, AggregatorAssumption DEF AggregatorAssumption, PriceAt
      <4> QED BY <4>3 DEF NoPrice
    <3> QED BY <2>1, <2>4, <3>2, <3>5, <3>6 DEF BaseAfter
  <2> QED BY <2>3, <2>4
<1> QED BY <1>9, <1>10, <1>17, <1>19, <1>21, <1>22, <1>23

\* The aggregate that the handler computes is right.
LEMMA NewIsRight ==
    ASSUME PipelineTypeOK, Reader!ConsumerInv, GivenInv, Adding
    PROVE  IsRight(log, [offset |-> pos, from |-> from, agg |-> Aggregate])
<1>1. /\ pos \in DOMAIN log /\ log[pos].id = Incoming /\ IsEvent(pos)
      /\ WindowAfter \in Seq(DOMAIN Event) /\ Len(WindowAfter) \in 1..WindowSize
      /\ WindowAfter[Len(WindowAfter)] = Incoming
  BY AddingFacts
<1>2. DOMAIN log = 1..Len(log)
  BY LoopFacts
<1>3. PICK n \in Nat : n = Len(log)
  BY LoopFacts
<1>4. PICK m \in Nat : /\ m = Len(WindowAfter) /\ m > 0 /\ m <= WindowSize
                       /\ DOMAIN WindowAfter = 1..m
  BY <1>1, AggregatorAssumption DEF AggregatorAssumption
<1>5. PICK given : given = SameIn(log, from, pos)
  OBVIOUS
<1>6. given = Given(Symbol) \cup {pos} /\ from \in Nat /\ from < pos
  BY <1>5, GivenAfter
<1>7. given \in SUBSET (1..n)
  BY <1>1, <1>2, <1>3, <1>6, GivenAfter
<1>8. \E offs \in [1..m -> given] :
         /\ Rises(offs, m) /\ Covers(offs, m, given)
         /\ \A k \in 1..m : log[offs[k]].id = WindowAfter[k]
  BY <1>4, <1>6, WindowMovesOn
<1>9. PICK offs \in [1..m -> given] :
         /\ Rises(offs, m) /\ Covers(offs, m, given)
         /\ \A k \in 1..m : log[offs[k]].id = WindowAfter[k]
  BY <1>8
<1>10. offs \in [1..m -> 1..n]
  BY <1>7, <1>9
<1> DEFINE recent == Upto(offs, m)
           w == [k \in DOMAIN WindowAfter |-> Event[WindowAfter[k]]]
           prices == [k \in 1..n |-> IF IsEvent(k) THEN PriceAt(log, k) ELSE 0]
           volumes == [k \in 1..n |-> IF IsEvent(k) THEN VolumeAt(log, k) ELSE 0]
<1>11. Latest(given) = recent
  <2>1. \A o \in given : o \in Upto(offs, m) \/ (m = WindowSize /\ o < offs[1])
    BY <1>9 DEF Covers, Upto
  <2> QED BY <1>4, <1>7, <1>9, <2>1, WindowIsLatest
<1>12. IsFiniteSet(recent) /\ Cardinality(recent) = m
  BY <1>9, <1>10, OffsetsCount
<1>13. \A k \in 1..n : prices[k] \in Nat /\ volumes[k] \in Nat
  <2> SUFFICES ASSUME NEW k \in 1..n, IsEvent(k)
               PROVE  PriceAt(log, k) \in Nat /\ VolumeAt(log, k) \in Nat
    OBVIOUS
  <2>1. log[k].id \in DOMAIN Event
    BY <1>2, <1>3, LoopFacts
  <2> QED BY <2>1, AggregatorAssumption DEF AggregatorAssumption, PriceAt, VolumeAt
<1>14. \A k \in recent : k \in 1..n /\ IsEvent(k)
  <2>1. \A k \in recent : k \in given
    BY <1>9 DEF Upto
  <2> QED BY <1>5, <1>7, <2>1 DEF SameIn, IsEvent
<1>15. recent \in SUBSET (1..n) /\ Agree(log, recent, prices, volumes)
  BY <1>14 DEF Agree
<1>16. ASSUME NEW j \in 1..m
       PROVE  /\ offs[j] \in recent
              /\ w[j] = Event[log[offs[j]].id]
              /\ w[j].price = prices[offs[j]] /\ w[j].price \in Nat
              /\ w[j].volume = volumes[offs[j]] /\ w[j].volume \in Nat
              /\ w[j].price = PriceAt(log, offs[j])
  <2>1. offs[j] \in recent
    BY DEF Upto
  <2>2. w[j] = Event[log[offs[j]].id]
    BY <1>4, <1>9
  <2>3. offs[j] \in 1..n /\ IsEvent(offs[j])
    BY <1>14, <2>1
  <2>4. prices[offs[j]] = PriceAt(log, offs[j]) /\ volumes[offs[j]] = VolumeAt(log, offs[j])
    BY <2>3
  <2> HIDE DEF w, prices, volumes, recent
  <2> QED BY <1>13, <2>1, <2>2, <2>3, <2>4 DEF PriceAt, VolumeAt
<1>17. DOMAIN w = 1..m /\ Len(w) = m
  <2>1. DOMAIN w = 1..m
    BY <1>4
  <2>2. w \in Seq({w[k] : k \in 1..m})
    BY <2>1
  <2> QED BY <2>1, <2>2
<1>18. recent = {offs[j] : j \in 1..m}
  BY DEF Upto
<1> HIDE DEF w, prices, volumes, recent
<1>19. PICK P : IsSum(P, prices, n)
  BY <1>13, SumExists
<1>20. PICK V : IsSum(V, volumes, n)
  BY <1>13, SumExists
<1>21. PriceSum(log, recent) = P[recent] /\ VolumeSum(log, recent) = V[recent]
  <2>1. AreSums(P, V, log, recent, n)
    BY <1>15, <1>19, <1>20 DEF AreSums
  <2> QED BY ONLY <2>1, SumsAre
<1>22. PICK all : all = Totals(w, w[1].price, w[1].price)
  OBVIOUS
<1>23. IsTotal(all, w, offs, m, P, V, w[1].price)
  <2>1. 1 \in 1..m
    BY <1>4
  <2>2. w[1].price \in Nat
    BY <1>16, <2>1
  <2>3. \A j \in 1..m : /\ w[j].price = prices[offs[j]] /\ w[j].price \in Nat
                        /\ w[j].volume = volumes[offs[j]] /\ w[j].volume \in Nat
    BY <1>16
  <2>4. IsTotal(Totals(w, w[1].price, w[1].price), w, offs, m, P, V, w[1].price)
    BY <1>9, <1>10, <1>17, <1>19, <1>20, <2>2, <2>3, TotalsAre
  <2> QED BY <1>22, <2>4
<1>24. {w[j].price : j \in 1..m} = {PriceAt(log, k) : k \in recent}
  BY <1>16, <1>18
<1>25. all.high = Max({PriceAt(log, k) : k \in recent})
  <2>1. 1 \in 1..m
    BY <1>4
  <2>2. all.high \in {w[j].price : j \in 1..m}
    BY <1>23, <2>1 DEF IsTotal
  <2>3. \A h \in {w[j].price : j \in 1..m} : h <= all.high
    BY <1>23 DEF IsTotal
  <2>4. {w[j].price : j \in 1..m} \in SUBSET Nat
    BY <1>16
  <2>5. Max({w[j].price : j \in 1..m}) = all.high
    BY <2>2, <2>3, <2>4, MaxIs
  <2> QED BY <1>24, <2>5
<1>26. all.low = Min({PriceAt(log, k) : k \in recent})
  <2>1. 1 \in 1..m
    BY <1>4
  <2>2. all.low \in {w[j].price : j \in 1..m}
    BY <1>23, <2>1 DEF IsTotal
  <2>3. \A h \in {w[j].price : j \in 1..m} : all.low <= h
    BY <1>23 DEF IsTotal
  <2>4. {w[j].price : j \in 1..m} \in SUBSET Nat
    BY <1>16
  <2>5. Min({w[j].price : j \in 1..m}) = all.low
    BY <2>2, <2>3, <2>4, MinIs
  <2> QED BY <1>24, <2>5
<1>27. all.exchanges = {ExchangeAt(log, k) : k \in recent}
  <2>1. all.exchanges = {w[j].exchange : j \in 1..m}
    BY <1>23 DEF IsTotal
  <2>2. \A j \in 1..m : w[j].exchange = ExchangeAt(log, offs[j])
    BY <1>16 DEF ExchangeAt
  <2>3. {w[j].exchange : j \in 1..m} = {ExchangeAt(log, offs[j]) : j \in 1..m}
    BY <2>2
  <2> QED BY <1>18, <2>1, <2>3
<1>28. all.sum = P[recent] /\ all.volume = V[recent]
  BY <1>23 DEF IsTotal, recent
<1>29. w[m].price = PriceAt(log, pos)
  <2>1. m \in 1..m /\ WindowAfter[m] = Incoming
    BY <1>1, <1>4
  <2>2. w[m] = Event[Incoming]
    BY <1>4, <2>1 DEF w
  <2> QED BY <1>1, <2>2 DEF PriceAt
<1>30. Aggregate = ComputeAggregate(w, BaseAfter)
  BY DEF Aggregate, w
<1>31. /\ Aggregate.price = w[m].price /\ Aggregate.sum = all.sum /\ Aggregate.count = m
       /\ Aggregate.high = all.high /\ Aggregate.low = all.low
       /\ Aggregate.volume = all.volume
       /\ Aggregate.exchangeCount = Cardinality(all.exchanges)
  BY <1>17, <1>22, <1>30 DEF ComputeAggregate
<1>32. AggregateIn(log, Aggregate, from, pos)
  <2>1. Aggregate.price = PriceAt(log, pos)
    BY <1>29, <1>31
  <2>2. Aggregate.count = Cardinality(recent)
    BY <1>12, <1>31
  <2>3. Aggregate.sum = PriceSum(log, recent) /\ Aggregate.volume = VolumeSum(log, recent)
    BY <1>21, <1>28, <1>31
  <2>4. /\ Aggregate.high = Max({PriceAt(log, k) : k \in recent})
        /\ Aggregate.low = Min({PriceAt(log, k) : k \in recent})
    BY <1>25, <1>26, <1>31
  <2>5. Aggregate.exchangeCount = Cardinality({ExchangeAt(log, k) : k \in recent})
    BY <1>27, <1>31
  <2> QED BY <1>5, <1>11, <2>1, <2>2, <2>3, <2>4, <2>5 DEF AggregateIn
<1>33. from \in 0..(pos - 1)
  BY <1>1, <1>2, <1>6, LoopFacts
<1> QED BY <1>32, <1>33 DEF IsRight

\* How far the process is, afterwards.
LEMMA DeliveredAfter ==
    ASSUME PipelineTypeOK, Reader!ConsumerInv, [PipelineNext]_pipelineVars,
           ~Adding, ~Start, pc' # "down"
    PROVE  /\ pc # "down" /\ UNCHANGED aggVars
           /\ \/ Delivered' = Delivered
              \/ Delivered = pos - 1 /\ Delivered' = pos /\ ~IsEvent(pos)
<1>1. pos \in Nat
  BY LoopFacts
<1>2. UNCHANGED aggVars
  BY AggregatorKinds
<1>3. CASE Stays \/ Signalled
  <2>1. pc' = pc /\ pos' = pos
    BY <1>3 DEF Stays, Signalled
  <2>2. Delivered' = Delivered
    BY <2>1 DEF Delivered
  <2> QED BY <1>2, <2>1, <2>2
<1>4. CASE Stopped
  BY <1>4 DEF Stopped
<1>5. CASE Rejects
  <2>1. pc = "handler" /\ pc' = "failure" /\ pos' = pos /\ ~IsEvent(pos)
    BY <1>5 DEF Rejects, Incoming, IsEvent
  <2> QED BY <1>2, <2>1 DEF Delivered
<1>6. CASE Takes
  <2>1. pc = "fetch" /\ pc' = "handler" /\ pos' = pos + 1
    BY <1>6 DEF Takes
  <2>2. PICK p \in Nat : p = pos' /\ p - 1 = pos
    BY <1>1, <2>1
  <2>3. Delivered = pos /\ Delivered' = p - 1
    BY <2>1, <2>2 DEF Delivered
  <2> QED BY <1>2, <2>1, <2>2, <2>3
<1>7. CASE Fails \/ GoesOn
  BY <1>2, <1>7 DEF Fails, GoesOn, Delivered
<1> QED BY <1>2, <1>3, <1>4, <1>5, <1>6, <1>7, Moves

\* What holds of the events of a symbol, in topics that agree on them.
LEMMA GivenInTopic ==
    ASSUME NEW l, NEW k, NEW given, NEW w, NEW offs \in [DOMAIN w -> given],
           \A o \in given : k[o] = l[o], IsWindowOf(l, offs, w, given)
    PROVE  IsWindowOf(k, offs, w, given)
BY DEF IsWindowOf

GivenOK(l, s, w, b, given) ==
    /\ \E offs \in [DOMAIN w -> given] : IsWindowOf(l, offs, w, given)
    /\ b = IF given = {} THEN NoPrice ELSE PriceAt(l, Min(given))

LEMMA GivenStays ==
    ASSUME NEW l, NEW k, NEW given \in SUBSET Nat, NEW s, NEW w, NEW b,
           \A o \in given : k[o] = l[o], GivenOK(l, s, w, b, given)
    PROVE  GivenOK(k, s, w, b, given)
<1>1. \E offs \in [DOMAIN w -> given] : IsWindowOf(k, offs, w, given)
  <2>1. PICK offs \in [DOMAIN w -> given] : IsWindowOf(l, offs, w, given)
    BY DEF GivenOK
  <2> QED BY <2>1, GivenInTopic
<1>2. given # {} => PriceAt(k, Min(given)) = PriceAt(l, Min(given))
  <2> SUFFICES ASSUME given # {} PROVE PriceAt(k, Min(given)) = PriceAt(l, Min(given))
    OBVIOUS
  <2>1. PICK m \in given : \A o \in given : m <= o
    BY FirstOf
  <2>2. Min(given) = m
    BY <2>1, MinIs
  <2> QED BY <2>1, <2>2 DEF PriceAt
<1> QED BY <1>1, <1>2 DEF GivenOK

LEMMA GivenStep ==
    ASSUME PipelineTypeOK, Reader!ConsumerInv, todo \subseteq DOMAIN Event, GivenInv,
           [PipelineNext]_pipelineVars
    PROVE  GivenInv'
<1>1. TopicGrows
  BY TopicStep
<1>2. /\ DOMAIN log = 1..Len(log) /\ Len(log) \in Nat /\ pos \in Nat /\ from \in Nat
      /\ pc # "down" => pos <= Len(log)
  BY LoopFacts
     DEF PipelineTypeOK, TypeOK, Reader!ConsumerInv, Reader!ReaderInv, Reader!TypeOK
<1>3. pc # "down" => Delivered \in Int /\ Delivered <= pos /\ Delivered <= Len(log)
  BY <1>2 DEF Delivered
<1>4. ASSUME NEW s, pc # "down"
      PROVE  Given(s) \in SUBSET (1..Len(log)) /\ Given(s) \in SUBSET Nat
             /\ \A o \in Given(s) : log'[o] = log[o] /\ o \in DOMAIN log
  <2>1. \A o \in (from + 1)..Delivered : o \in 1..Len(log)
    BY <1>2, <1>3, <1>4
  <2> QED BY <1>1, <1>2, <2>1 DEF Given, TopicGrows
<1>5. ASSUME NEW s \in Symbols, pc # "down"
      PROVE  GivenOK(log', s, windows[s], basePrice[s], Given(s))
  <2>1. GivenOK(log, s, windows[s], basePrice[s], Given(s))
    BY <1>5 DEF GivenInv, GivenOK
  <2> QED BY <1>4, <1>5, <2>1, GivenStays
<1>6. (/\ from' <= Delivered'
       /\ \A s \in Symbols : GivenOK(log', s, windows'[s], basePrice'[s], Given(s)'))
        => GivenInv'
  BY DEF GivenInv, GivenOK
<1>7. CASE pc' = "down"
  BY <1>7 DEF GivenInv
<1>8. CASE Start
  <2>1. /\ pc' = "loop" /\ from' = pos'
        /\ windows' = NoWindows /\ basePrice' = NoPrices
    BY <1>8 DEF Start, Reader!Start, Reader!Goto
  <2>2. pos' \in Nat
    BY TopicStep DEF Reader!ConsumerInv, Reader!TypeOK
  <2>3. Delivered' = pos' /\ from' <= Delivered'
    BY <2>1, <2>2 DEF Delivered
  <2>4. PICK p \in Nat : p = pos'
    BY <2>2
  <2>5. \A s : Given(s)' = {}
    <3>1. (p + 1)..p = {}
      OBVIOUS
    <3>2. (from' + 1)..Delivered' = {}
      BY <2>1, <2>3, <2>4, <3>1
    <3> QED BY <3>2 DEF Given
  <2>6. ASSUME NEW s \in Symbols
        PROVE  GivenOK(log', s, windows'[s], basePrice'[s], Given(s)')
    <3>1. windows'[s] = <<>> /\ DOMAIN windows'[s] = {} /\ basePrice'[s] = NoPrice
      BY <2>1 DEF NoWindows, NoPrices
    <3>2. PICK offs : offs = [k \in {} |-> 0]
      OBVIOUS
    <3>3. offs \in [DOMAIN windows'[s] -> {}]
      BY <3>1, <3>2
    <3>4. IsWindowOf(log', offs, windows'[s], {})
      BY <3>1 DEF IsWindowOf
    <3> QED BY <2>5, <3>1, <3>3, <3>4 DEF GivenOK
  <2> QED BY <1>6, <2>3, <2>6
<1>9. CASE Adding
  <2>1. /\ pc = "handler" /\ pc' # "handler" /\ UNCHANGED <<log, pos, from>>
        /\ windows' = [windows EXCEPT ![Symbol] = WindowAfter]
        /\ basePrice' = [basePrice EXCEPT ![Symbol] = BaseAfter]
    BY <1>9 DEF Adding, AddAndPublish, PublishFails, Add, Reader!HandlerOk,
                Reader!HandlerErr, Reader!Goto, Reader!topicVars, Reader!readerVars
  <2>2. Delivered = pos - 1 /\ Delivered' = pos
    BY <2>1 DEF Delivered
  <2>3. from < pos /\ SameIn(log, from, pos) = Given(Symbol) \cup {pos}
    BY <1>9, GivenAfter
  <2>4. from' <= Delivered'
    BY <1>2, <2>1, <2>2, <2>3
  <2>5. /\ pos \in DOMAIN log /\ IsEvent(pos) /\ EventAt(pos).symbol = Symbol
        /\ Symbol \in Symbols
    BY <1>9, AddingFacts
  <2>6. \A s : Given(s)' = {o \in (from + 1)..pos : IsEvent(o) /\ EventAt(o).symbol = s}
    BY <2>1, <2>2 DEF Given, IsEvent, EventAt
  <2>7. \A o \in (from + 1)..pos : o = pos \/ o \in (from + 1)..(pos - 1)
    BY <1>2
  <2>8. \A o \in (from + 1)..(pos - 1) : o \in (from + 1)..pos
    BY <1>2
  <2>9. windows \in [Symbols -> Seq(DOMAIN Event)] /\ DOMAIN basePrice = Symbols
    BY DEF PipelineTypeOK, TypeOK
  <2>10. ASSUME NEW s \in Symbols
         PROVE  GivenOK(log', s, windows'[s], basePrice'[s], Given(s)')
    <3>1. CASE s # Symbol
      <4>1. Given(s)' = Given(s)
        BY <2>2, <2>5, <2>6, <2>7, <2>8, <3>1 DEF Given
      <4>2. windows'[s] = windows[s] /\ basePrice'[s] = basePrice[s]
        BY <2>1, <2>9, <3>1
      <4> QED BY <1>5, <2>1, <4>1, <4>2
    <3>2. CASE s = Symbol
      <4>1. Given(s)' = Given(Symbol) \cup {pos}
        <5>1. SameIn(log, from, pos)
                = {o \in (from + 1)..pos : IsEvent(o) /\ EventAt(o).symbol = Symbol}
          BY <2>5 DEF SameIn, IsEvent, EventAt
        <5> QED BY <2>3, <2>6, <3>2, <5>1
      <4>2. windows'[s] = WindowAfter /\ basePrice'[s] = BaseAfter
        BY <2>1, <2>5, <2>9, <3>2
      <4>3. PICK given : given = Given(Symbol) \cup {pos}
        OBVIOUS
      <4>4. WindowAfter \in Seq(DOMAIN Event) /\ Len(WindowAfter) \in Nat
        BY <1>9, AddingFacts
      <4>5. PICK v, m : v = WindowAfter /\ m = Len(v) /\ DOMAIN v = 1..m
        BY <4>4
      <4>6. PICK offs \in [1..m -> given] :
               /\ Rises(offs, m) /\ Covers(offs, m, given)
               /\ \A k \in 1..m : log[offs[k]].id = v[k]
        BY <1>9, <4>3, <4>5, WindowMovesOn
      <4>7. IsWindowOf(log, offs, v, given)
        BY <4>5, <4>6 DEF IsWindowOf, Rises, Covers
      <4>8. BaseAfter = PriceAt(log, Min(given)) /\ given # {}
        BY <1>9, <4>3, WindowMovesOn
      <4>9. GivenOK(log, s, v, BaseAfter, given)
        BY <4>5, <4>6, <4>7, <4>8 DEF GivenOK
      <4> QED BY <2>1, <4>1, <4>2, <4>3, <4>5, <4>9
    <3> QED BY <3>1, <3>2
  <2> QED BY <1>6, <2>4, <2>10
<1>10. CASE ~Adding /\ ~Start /\ pc' # "down"
  <2>1. /\ pc # "down" /\ UNCHANGED <<windows, basePrice, from>>
        /\ \/ Delivered' = Delivered
           \/ Delivered = pos - 1 /\ Delivered' = pos /\ ~IsEvent(pos)
    BY <1>10, DeliveredAfter DEF aggVars
  <2>2. from' <= Delivered'
    <3>1. from <= Delivered
      BY <2>1 DEF GivenInv
    <3> QED BY <1>2, <2>1, <3>1
  <2>3. \A o \in (from + 1)..Delivered :
           o \in DOMAIN log /\ IsEvent(o)' = IsEvent(o) /\ EventAt(o)' = EventAt(o)
    <3>1. \A o \in (from + 1)..Delivered : o \in DOMAIN log
      BY <1>2, <1>3, <2>1
    <3> QED BY <1>1, <3>1 DEF TopicGrows, IsEvent, EventAt
  <2>4. ASSUME NEW s PROVE Given(s)' = Given(s)
    <3>1. CASE Delivered' = Delivered
      <4>1. Given(s)' = {o \in (from + 1)..Delivered : IsEvent(o)' /\ (EventAt(o).symbol)' = s}
        BY <2>1, <3>1 DEF Given
      <4> QED BY <2>3, <4>1 DEF Given
    <3>2. CASE Delivered = pos - 1 /\ Delivered' = pos /\ ~IsEvent(pos)
      <4>1. Given(s)' = {o \in (from + 1)..pos : IsEvent(o)' /\ (EventAt(o).symbol)' = s}
        BY <2>1, <3>2 DEF Given
      <4>2. \A o \in (from + 1)..pos : o = pos \/ o \in (from + 1)..(pos - 1)
        BY <1>2
      <4>3. \A o \in (from + 1)..(pos - 1) : o \in (from + 1)..pos
        BY <1>2
      <4>4. PICK p \in Nat : p = pos
        BY <1>2
      <4>5. ~IsEvent(p)' \/ p \notin (from + 1)..p
        <5>1. p \in (from + 1)..p => p \in DOMAIN log
          BY <1>2, <2>1, <4>4
        <5> QED BY <1>1, <3>2, <4>4, <5>1 DEF TopicGrows, IsEvent
      <4>6. \A o \in (from + 1)..pos :
               IsEvent(o)' /\ (EventAt(o).symbol)' = s => o \in (from + 1)..(pos - 1)
        BY <4>2, <4>4, <4>5
      <4>7. Given(s)' = {o \in (from + 1)..(pos - 1) : IsEvent(o)' /\ (EventAt(o).symbol)' = s}
        BY <4>1, <4>3, <4>6
      <4>8. \A o \in (from + 1)..(pos - 1) :
               (IsEvent(o)' <=> IsEvent(o)) /\ EventAt(o)' = EventAt(o)
        BY <2>3, <3>2
      <4> QED BY <3>2, <4>7, <4>8 DEF Given
    <3> QED BY <2>1, <3>1, <3>2
  <2>5. ASSUME NEW s \in Symbols
        PROVE  GivenOK(log', s, windows'[s], basePrice'[s], Given(s)')
    BY <1>5, <2>1, <2>4
  <2> QED BY <1>6, <2>2, <2>5
<1> QED BY <1>7, <1>8, <1>9, <1>10

----------------------------------------------------------------------------
(* The aggregates in the topic. *)

\* What was right of the topic is right of the topic that has grown.
LEMMA RightAfter ==
    ASSUME PipelineTypeOK, Reader!ConsumerInv, [PipelineNext]_pipelineVars,
           NEW r, IsRight(log, r), IsShown(r)
    PROVE  IsRight(log', r)
<1>1. PICK f, o : f = r.from /\ o = r.offset
  OBVIOUS
<1>2. o \in DOMAIN log /\ IsEvent(o) /\ f \in 0..(o - 1) /\ AggregateIn(log, r.agg, f, o)
  BY <1>1 DEF IsRight, IsShown
<1>3. DOMAIN log = 1..Len(log) /\ Len(log) \in Nat
  BY LoopFacts
<1>4. o \in Nat /\ f \in Nat /\ f < o
  BY <1>2, <1>3
<1>5. \A n \in 1..o : n \in DOMAIN log
  BY <1>2, <1>3
<1>6. TopicGrows
  BY TopicStep DEF PipelineTypeOK
<1>7. \A n \in 1..o : log'[n] = log[n] /\ log[n].id \in Ids
  BY <1>5, <1>6, LoopFacts DEF TopicGrows
<1>8. log[o].id \notin Poison
  BY <1>2 DEF IsEvent
<1>9. AggregateIn(log', r.agg, f, o)
  BY <1>2, <1>4, <1>7, <1>8, StaysRight
<1> QED BY <1>1, <1>2, <1>9 DEF IsRight

LEMMA RightStep ==
    ASSUME PipelineTypeOK, Reader!ConsumerInv, AggregateInv, GivenInv, RightInv,
           [PipelineNext]_pipelineVars
    PROVE  RightInv'
<1>1. \A n \in DOMAIN aggregated : IsRight(log', aggregated[n])
  <2> TAKE n \in DOMAIN aggregated
  <2>1. IsRight(log, aggregated[n]) /\ IsShown(aggregated[n])
    BY DEF RightInv, AggregateInv
  <2> QED BY <2>1, RightAfter
<1>2. RightInv' <=> \A n \in DOMAIN aggregated' : IsRight(log', aggregated'[n])
  BY DEF RightInv, IsRight
<1>3. CASE UNCHANGED aggregated
  BY <1>1, <1>2, <1>3
<1>4. CASE Start \/ UNCHANGED aggVars
  <2>1. UNCHANGED aggregated
    BY <1>4 DEF Start, aggVars
  <2> QED BY <1>3, <2>1
<1>5. CASE Adding
  <2>1. PICK new : new = [offset |-> pos, from |-> from, agg |-> Aggregate]
    OBVIOUS
  <2>2. aggregated' \in {aggregated, Append(aggregated, new)} /\ UNCHANGED log
    BY <1>5, <2>1
       DEF Adding, AddAndPublish, PublishFails, Published, Reader!HandlerOk,
           Reader!HandlerErr, Reader!topicVars
  <2>3. IsRight(log', new)
    BY <1>5, <2>1, <2>2, NewIsRight
  <2>4. CASE aggregated' = Append(aggregated, new)
    <3>1. aggregated \in Seq({aggregated[n] : n \in DOMAIN aggregated})
      BY DEF AggregateInv
    <3>2. /\ DOMAIN aggregated = 1..Len(aggregated) /\ Len(aggregated) \in Nat
          /\ DOMAIN aggregated' = 1..(Len(aggregated) + 1)
          /\ aggregated'[Len(aggregated) + 1] = new
          /\ \A n \in DOMAIN aggregated : aggregated'[n] = aggregated[n]
      BY <2>4, <3>1, AppendElements
    <3>3. \A n \in DOMAIN aggregated' : n \in DOMAIN aggregated \/ n = Len(aggregated) + 1
      BY <3>2
    <3> QED BY <1>1, <1>2, <2>3, <3>2, <3>3
  <2> QED BY <1>3, <2>2, <2>4
<1> QED BY <1>4, <1>5, AggregatorKinds

\* While a process runs, the window of each symbol holds the last WindowSize
\* events of the symbol that the process was given, and its base price is that
\* of the first of all these, for as long as it runs; and what an aggregate in
\* the topic says of a window is that of such a window, of whichever process
\* published it.
THEOREM WindowsInvariant == PipelineSpec => [](GivenInv /\ RightInv)
<1>1. PipelineInit => GivenInv /\ RightInv
  <2> SUFFICES ASSUME PipelineInit PROVE GivenInv /\ RightInv
    OBVIOUS
  <2>1. pc = "down" /\ DOMAIN aggregated = {}
    BY DEF PipelineInit, Init, Reader!Init
  <2> QED BY <2>1 DEF GivenInv, RightInv
<1>2. PipelineInv /\ GivenInv /\ RightInv /\ [PipelineNext]_pipelineVars
        => (GivenInv /\ RightInv)'
  <2> SUFFICES ASSUME PipelineInv, GivenInv, RightInv, [PipelineNext]_pipelineVars
               PROVE  GivenInv' /\ RightInv'
    OBVIOUS
  <2>1. PipelineTypeOK /\ Reader!ConsumerInv /\ AggregateInv /\ todo \subseteq DOMAIN Event
    BY DEF PipelineInv, PipelineTypeOK
  <2>2. GivenInv'
    BY <2>1, GivenStep
  <2>3. RightInv'
    BY <2>1, RightStep
  <2> QED BY <2>2, <2>3
<1> QED BY <1>1, <1>2, PipelineInvariant, PTL DEF PipelineSpec

\* What every aggregate in the topic says of its window is that of the last
\* WindowSize events of its symbol that its process had been given, each counted
\* once for each delivery, whatever publishing failed before: price, count,
\* sums, extremes and number of exchanges.
THEOREM AggregatesRight == PipelineSpec => []AggregatesAreRight
<1>1. RightInv => AggregatesAreRight
  <2> SUFFICES ASSUME RightInv, NEW n \in DOMAIN aggregated
               PROVE  IsAggregateOf(aggregated[n].agg, aggregated[n].from,
                                    aggregated[n].offset)
    BY DEF AggregatesAreRight
  <2>1. AggregateIn(log, aggregated[n].agg, aggregated[n].from, aggregated[n].offset)
    BY DEF RightInv, IsRight
  <2> QED BY <2>1, AggregateInLog DEF SameAggregates
<1> QED BY <1>1, WindowsInvariant, PTL
=============================================================================
