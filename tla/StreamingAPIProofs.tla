------------------------- MODULE StreamingAPIProofs -------------------------
(***************************************************************************)
(* Safety of the whole streaming API.  Every step of it is a step of the   *)
(* limiter or leaves the limiter alone, and the same for the broadcast and *)
(* its streams, so that what is proved of these holds of the composition;  *)
(* what is added is the cache in Redis, and GET /prices.                   *)
(***************************************************************************)
EXTENDS StreamingAPI, RateLimiterProofs, Sequences

Hub == INSTANCE StreamingServerProofs

\* The messages that SetPrice is done with, well or not.
Settled ==
    1..(IF feed["prices"] = "handler" /\ ~cached THEN Number - 1 ELSE Number)

\* Redis is behind on no symbol but the stale ones.
CacheInv ==
    connected =>
        \A n \in Settled :
            \/ symbol[n] \in stale
            \/ symbol[n] \in DOMAIN redis /\ redis[symbol[n]] >= n

\* Redis is asked only if it answered at the start.
ReaderInv == \A r \in Readers : reader[r] = "redis" => connected

APIInv == APITypeOK /\ LimiterInv /\ Hub!ServerInv /\ CacheInv /\ ReaderInv

----------------------------------------------------------------------------
(* The broadcast and the streams in this composition. *)

\* The parts count in the same way.
LEMMA SameCounting ==
    \A S : /\ Hub!Cardinality(S) = Server!Cardinality(S)
           /\ Hub!IsFiniteSet(S) <=> IsFiniteSet(S)
BY DEF Hub!Cardinality, Server!Cardinality, Hub!IsFiniteSet, IsFiniteSet

\* StreamingServerProofs is about the same server, under another name.
LEMMA SameServer ==
    /\ Hub!Init <=> Server!Init
    /\ [Hub!Next]_(Hub!vars) <=> [Server!Next]_(Server!vars)
    /\ Hub!TypeOK <=> Server!TypeOK
    /\ Hub!TypeOK' <=> Server!TypeOK'
    /\ Hub!Feeds = Server!Feeds /\ Hub!Clients = Server!Clients
<1>1. /\ Hub!Feeds = Server!Feeds /\ Hub!Clients = Server!Clients
      /\ Hub!vars = Server!vars /\ (UNCHANGED Hub!vars <=> UNCHANGED Server!vars)
  BY DEF Hub!Feeds, Server!Feeds, Hub!Clients, Server!Clients, Hub!vars, Server!vars,
         Hub!feedVars, Server!feedVars, Hub!connVars, Server!connVars,
         Hub!hubVars, Server!hubVars
<1>2. Hub!Init <=> Server!Init
  BY <1>1 DEF Hub!Init, Server!Init
<1>3. /\ Hub!TypeOK <=> Server!TypeOK
      /\ Hub!TypeOK' <=> Server!TypeOK'
  BY SameCounting
  DEF Hub!TypeOK, Server!TypeOK, Hub!Connected, Server!Connected,
      Hub!Feeds, Server!Feeds, Hub!Clients, Server!Clients
<1>4. Hub!Next <=> Server!Next
  <2>1. \A f : Hub!Feeding(f) <=> Server!Feeding(f)
    BY DEF Hub!Feeding, Server!Feeding, Hub!BeginBroadcast, Server!BeginBroadcast,
           Hub!EndBroadcast, Server!EndBroadcast, Hub!StopFeed, Server!StopFeed,
           Hub!Send, Server!Send, Hub!Audience, Server!Audience, Hub!Wants,
           Server!Wants, Hub!Clients, Server!Clients,
           Hub!connVars, Server!connVars, Hub!hubVars, Server!hubVars
  <2>2. \A c : Hub!Serving(c) <=> Server!Serving(c)
    BY DEF Hub!Serving, Server!Serving, Hub!TurnAway, Server!TurnAway,
           Hub!Arrive, Server!Arrive, Hub!Admit, Server!Admit, Hub!Reject,
           Server!Reject, Hub!Register, Server!Register, Hub!Snapshot,
           Server!Snapshot, Hub!Deliver, Server!Deliver, Hub!RemoveClient,
           Server!RemoveClient, Hub!Release, Server!Release, Hub!Step, Server!Step,
           Hub!Unlocked, Server!Unlocked, Hub!Wants, Server!Wants, Hub!Feeds,
           Server!Feeds, Hub!feedVars, Server!feedVars, Hub!connVars,
           Server!connVars, Hub!hubVars, Server!hubVars
  <2>3. /\ \A s : Hub!HandlePrice(s) <=> Server!HandlePrice(s)
        /\ Hub!HandleAlert <=> Server!HandleAlert
        /\ \A c : Hub!Accept(c) <=> Server!Accept(c)
        /\ \A c : Hub!Disconnect(c) <=> Server!Disconnect(c)
        /\ Hub!Signal <=> Server!Signal
        /\ Hub!Exit <=> Server!Exit
    BY DEF Hub!HandlePrice, Server!HandlePrice, Hub!HandleAlert, Server!HandleAlert,
           Hub!Accept, Server!Accept, Hub!Disconnect, Server!Disconnect,
           Hub!Signal, Server!Signal, Hub!Exit, Server!Exit, Hub!Step, Server!Step,
           Hub!Unlocked, Server!Unlocked, Hub!Feeds, Server!Feeds,
           Hub!Clients, Server!Clients, Hub!feedVars, Server!feedVars,
           Hub!connVars, Server!connVars, Hub!hubVars, Server!hubVars
  <2> QED BY <1>1, <2>1, <2>2, <2>3 DEF Hub!Next, Server!Next
<1> QED BY <1>1, <1>2, <1>3, <1>4

\* The server keeps its invariant by itself.
LEMMA ServerKeeps ==
    /\ Server!Init => Hub!ServerInv
    /\ Hub!ServerInv /\ [Server!Next]_(Server!vars) => Hub!ServerInv'
<1>1. /\ Hub!IsFiniteSet(PriceClients) /\ Hub!IsFiniteSet(AlertClients)
      /\ PriceClients \cap AlertClients = {}
      /\ Subscribed \in [PriceClients -> SUBSET Symbols]
      /\ Capacity \in Nat \ {0}
      /\ MaxSSEClients \in Nat
      /\ MaxMessages \in [Hub!Feeds -> Nat]
  BY APIAssumption, SameServer, SameCounting DEF APIAssumption
<1>2. Hub!Init => Hub!ServerInv
  BY <1>1, Hub!InitOK
<1>3. Hub!ServerInv /\ [Hub!Next]_(Hub!vars) => Hub!ServerInv'
  BY <1>1, Hub!NextOK
<1> QED BY <1>2, <1>3, SameServer

\* Every step of the service is one of the server, or leaves the server alone.
LEMMA ServerSteps == [APINext]_apiVars => [Server!Next]_(Server!vars)
<1> SUFFICES ASSUME [APINext]_apiVars PROVE [Server!Next]_(Server!vars)
  OBVIOUS
<1>1. UNCHANGED serverVars => UNCHANGED Server!vars
  BY DEF serverVars, Server!vars, Server!feedVars, Server!connVars, Server!hubVars
<1>2. CASE HandlePrice \/ HandleAlert
  BY <1>2 DEF HandlePrice, HandleAlert, Server!Next
<1>3. CASE SetPrice \/ SetPriceFails \/ LateWrite \/ RedisForgets
  BY <1>1, <1>3 DEF SetPrice, SetPriceFails, AtSetPrice, LateWrite, RedisForgets
<1>4. CASE \E f \in Server!Feeds : Feeding(f)
  BY <1>4 DEF Feeding, Server!Next
<1>5. CASE \E r \in Readers : AskPrices(r) \/ Reading(r)
  BY <1>1, <1>5 DEF AskPrices, Reading, RefusePrices, EnterPrices, GetPrices,
                    GetPricesFails, ReadLatest, FinishPrices
<1>6. CASE \E c \in Server!Clients :
              Accept(c) \/ Serving(c) \/ Outside(Server!Disconnect(c))
  BY <1>6 DEF Accept, Serving, Outside, Server!Next, Server!Serving
<1>7. CASE Outside(Server!Signal) \/ Exit
  BY <1>7 DEF Outside, Exit, Server!Next
<1>8. CASE Clock(Tick) \/ Clock(Sweep)
  BY <1>1, <1>8 DEF Clock
<1>9. CASE UNCHANGED apiVars
  BY <1>1, <1>9 DEF apiVars
<1> QED BY <1>2, <1>3, <1>4, <1>5, <1>6, <1>7, <1>8, <1>9 DEF APINext

\* Every step of the service is one of the limiter, or leaves the limiter alone.
LEMMA LimiterSteps == [APINext]_apiVars => [Next]_vars
<1> SUFFICES ASSUME [APINext]_apiVars PROVE [Next]_vars
  OBVIOUS
<1>1. UNCHANGED limiterVars => UNCHANGED vars
  BY DEF limiterVars
<1>2. Readers \subseteq Requests /\ Server!Clients \subseteq Requests
  BY APIAssumption DEF APIAssumption
<1>3. CASE HandlePrice \/ HandleAlert
  BY <1>1, <1>3 DEF HandlePrice, HandleAlert
<1>4. CASE SetPrice \/ SetPriceFails \/ LateWrite \/ RedisForgets
  BY <1>1, <1>4 DEF SetPrice, SetPriceFails, AtSetPrice, LateWrite, RedisForgets
<1>5. CASE \E f \in Server!Feeds : Feeding(f)
  BY <1>1, <1>5 DEF Feeding
<1>6. CASE \E r \in Readers : AskPrices(r) \/ Reading(r)
  BY <1>1, <1>2, <1>6 DEF AskPrices, Reading, RefusePrices, EnterPrices, GetPrices,
                          GetPricesFails, ReadLatest, FinishPrices, Next
<1>7. CASE \E c \in Server!Clients :
              Accept(c) \/ Serving(c) \/ Outside(Server!Disconnect(c))
  BY <1>1, <1>2, <1>7 DEF Accept, Serving, Outside, Next
<1>8. CASE Outside(Server!Signal) \/ Exit
  BY <1>1, <1>8 DEF Outside, Exit
<1>9. CASE Clock(Tick) \/ Clock(Sweep)
  BY <1>9 DEF Clock, Next
<1>10. CASE UNCHANGED apiVars
  BY <1>1, <1>10 DEF apiVars
<1> QED BY <1>3, <1>4, <1>5, <1>6, <1>7, <1>8, <1>9, <1>10 DEF APINext

----------------------------------------------------------------------------
(* The cache and GET /prices. *)

\* APITypeOK but for the types of the parts.
CacheTypeOK ==
    /\ <<coming, connected>> \in Scenarios /\ cached \in BOOLEAN
    /\ DOMAIN redis \subseteq Symbols /\ \A s \in DOMAIN redis : redis[s] \in Values
    /\ late \subseteq Symbols \X Values /\ stale \subseteq Symbols
    /\ reader \in [Readers -> {"off", "redis", "memory", "answered"}]
    /\ \A r \in Readers : held[r] # None => reader[r] = "off"
    /\ answer \in [Readers -> [Symbols -> Values]]

\* The messages of prices, and what is the newest of each symbol.
LEMMA ServerSays ==
    ASSUME Hub!ServerInv
    PROVE  /\ Number \in Nat /\ MaxMessages["prices"] \in Nat
           /\ Number <= MaxMessages["prices"] /\ Number \in Values
           /\ symbol \in Seq(Symbols) /\ Len(symbol) = Number
           /\ \A n \in 1..Number : symbol[n] \in Symbols /\ latest[symbol[n]] >= n
           /\ feed["prices"] = "handler" =>
                  Number > 0 /\ Number \in 1..Number /\ symbol[Number] \in Symbols
           /\ latest \in [Symbols -> Values]
           /\ feed \in [Server!Feeds -> {"idle", "handler", "broadcast", "stopped"}]
           /\ count \in [Server!Feeds -> Nat] /\ Server!Feeds = {"prices", "alerts"}
<1>1. Server!TypeOK /\ Hub!TodoInv /\ Hub!LatestInv
  BY SameServer DEF Hub!ServerInv
<1>2. Server!Feeds = {"prices", "alerts"} /\ Hub!Feeds = Server!Feeds
  BY SameServer DEF Server!Feeds
<1>3. /\ feed \in [Server!Feeds -> {"idle", "handler", "broadcast", "stopped"}]
      /\ count \in [Server!Feeds -> Nat]
      /\ \A f \in Server!Feeds : count[f] <= MaxMessages[f]
      /\ symbol \in Seq(Symbols) /\ Len(symbol) = count["prices"]
      /\ latest \in [Symbols -> 0..count["prices"]]
  BY <1>1 DEF Server!TypeOK
<1>4. MaxMessages["prices"] \in Nat
  BY <1>2, APIAssumption DEF APIAssumption
<1>5. /\ Number \in Nat /\ Number <= MaxMessages["prices"] /\ Number \in Values
      /\ Len(symbol) = Number /\ 0..Number \subseteq Values
  BY <1>2, <1>3, <1>4 DEF Number, Values
<1>6. latest \in [Symbols -> Values]
  BY <1>3, <1>5 DEF Number
<1>7. \A n \in 1..Number : symbol[n] \in Symbols /\ latest[symbol[n]] >= n
  BY <1>1, <1>3, <1>5 DEF Hub!LatestInv
<1>8. feed["prices"] = "handler" =>
          Number > 0 /\ Number \in 1..Number /\ symbol[Number] \in Symbols
  BY <1>1, <1>2, <1>5, <1>7 DEF Hub!TodoInv, Number
<1> QED BY <1>2, <1>3, <1>4, <1>5, <1>6, <1>7, <1>8

\* A step that neither touches the cache nor settles another message.
LEMMA Quiet ==
    ASSUME APIInv, UNCHANGED <<cacheVars, cached, readerVars, symbol>>,
           Settled' \subseteq Settled,
           \A r \in Readers : held'[r] # None => held[r] # None
    PROVE  CacheTypeOK' /\ CacheInv' /\ ReaderInv'
<1>1. CacheTypeOK /\ CacheInv /\ ReaderInv
  BY DEF APIInv, APITypeOK, CacheTypeOK
<1>2. UNCHANGED <<coming, connected, redis, late, stale, reader, answer>>
  BY DEF cacheVars, readerVars
<1>3. CacheTypeOK'
  BY <1>1, <1>2 DEF CacheTypeOK, Values
<1>4. CacheInv'
  BY <1>1, <1>2 DEF CacheInv
<1>5. ReaderInv'
  BY <1>1, <1>2 DEF ReaderInv
<1> QED BY <1>3, <1>4, <1>5

\* What the server does by itself, and the clock.
LEMMA ServerQuiet ==
    ASSUME APIInv,
           \/ HandleAlert \/ Exit \/ Clock(Tick) \/ Clock(Sweep)
           \/ \E f \in Server!Feeds : Feeding(f)
           \/ Outside(Server!Signal)
           \/ \E c \in Server!Clients :
                 Accept(c) \/ Serving(c) \/ Outside(Server!Disconnect(c))
           \/ UNCHANGED apiVars
    PROVE  CacheTypeOK' /\ CacheInv' /\ ReaderInv'
<1>1. Hub!ServerInv /\ TypeOK
  BY DEF APIInv, APITypeOK
<1>2. /\ feed \in [Server!Feeds -> {"idle", "handler", "broadcast", "stopped"}]
      /\ count \in [Server!Feeds -> Nat] /\ Server!Feeds = {"prices", "alerts"}
  BY <1>1, ServerSays
<1>3. ASSUME UNCHANGED <<cacheVars, cached, readerVars, symbol>>,
             feed'["prices"] = feed["prices"], Number' = Number,
             \A r \in Readers : held'[r] # None => held[r] # None
      PROVE  CacheTypeOK' /\ CacheInv' /\ ReaderInv'
  BY <1>3, Quiet DEF Settled
<1>4. CASE HandleAlert
  <2>1. /\ feed'["prices"] = feed["prices"] /\ count'["prices"] = count["prices"]
        /\ UNCHANGED <<symbol, cacheVars, cached, readerVars, held>>
    BY <1>2, <1>4 DEF HandleAlert, Server!HandleAlert, limiterVars, vars
  <2> QED BY <2>1, <1>3 DEF Number
<1>5. CASE \E f \in Server!Feeds : Feeding(f)
  <2>1. PICK f \in Server!Feeds : Feeding(f)
    BY <1>5
  <2>2. /\ UNCHANGED <<symbol, count, cacheVars, cached, readerVars, held>>
        /\ \E to : feed' = [feed EXCEPT ![f] = to] /\ to # "handler"
        /\ f = "prices" /\ feed[f] = "handler" => cached
    <3>1. /\ Server!Feeding(f)
          /\ f = "prices" /\ feed[f] = "handler" => cached
          /\ UNCHANGED <<cacheVars, cached, readerVars, held>>
      BY <2>1 DEF Feeding, limiterVars, vars
    <3>2. CASE Server!BeginBroadcast(f) \/ Server!EndBroadcast(f) \/ Server!StopFeed(f)
      BY <3>1, <3>2 DEF Server!BeginBroadcast, Server!EndBroadcast, Server!StopFeed
    <3>3. CASE \E c \in Server!Clients : Server!Send(f, c)
      <4>1. /\ UNCHANGED <<symbol, count, feed>> /\ feed[f] = "broadcast"
        BY <3>3 DEF Server!Send
      <4>2. feed' = [feed EXCEPT ![f] = "broadcast"]
        BY <1>2, <4>1
      <4> QED BY <3>1, <4>1, <4>2
    <3> QED BY <3>1, <3>2, <3>3 DEF Server!Feeding
  <2>3. Settled' \subseteq Settled
    BY <1>1, <1>2, <2>2, ServerSays DEF Settled, Number
  <2> QED BY <2>2, <2>3, Quiet
<1>6. CASE \/ Exit \/ Outside(Server!Signal)
           \/ \E c \in Server!Clients : Outside(Server!Disconnect(c))
  <2>1. UNCHANGED <<symbol, feed, count, cacheVars, cached, readerVars, held>>
    BY <1>6 DEF Exit, Outside, Server!Exit, Server!Signal, Server!Disconnect,
                Server!feedVars, limiterVars, vars
  <2> QED BY <2>1, <1>3 DEF Number
<1>7. CASE Clock(Tick) \/ Clock(Sweep)
  <2>1. UNCHANGED <<symbol, feed, count, cacheVars, cached, readerVars, held>>
    BY <1>7 DEF Clock, Tick, Sweep, serverVars
  <2> QED BY <2>1, <1>3 DEF Number
<1>8. ASSUME NEW c \in Server!Clients, Accept(c) \/ Serving(c)
      PROVE  CacheTypeOK' /\ CacheInv' /\ ReaderInv'
  <2>1. UNCHANGED <<symbol, feed, count, cacheVars, cached, readerVars>>
    BY <1>8 DEF Accept, Serving, Server!Accept, Server!Arrive, Server!TurnAway,
                Server!Serving, Server!Admit, Server!Reject, Server!Register,
                Server!Snapshot, Server!Deliver, Server!RemoveClient,
                Server!Release, Server!feedVars
  <2>2. held' = held \/ \E b : held' = [held EXCEPT ![c] = b]
    BY <1>8 DEF Accept, Serving, Ask, Pass, Refuse, Judged, limiterVars, vars
  <2>3. \A r \in Readers : held'[r] # None => held[r] # None
    BY <1>1, <2>2, APIAssumption DEF APIAssumption, TypeOK
  <2> QED BY <2>1, <2>3, <1>3 DEF Number
<1>9. CASE UNCHANGED apiVars
  <2>1. UNCHANGED <<symbol, feed, count, cacheVars, cached, readerVars, held>>
    BY <1>9 DEF apiVars, serverVars, limiterVars, vars
  <2> QED BY <2>1, <1>3 DEF Number
<1> QED BY <1>4, <1>5, <1>6, <1>7, <1>8, <1>9

\* A price arrives: nobody has tried to cache it yet.
LEMMA HandlePriceOK ==
    ASSUME APIInv, HandlePrice
    PROVE  CacheTypeOK' /\ CacheInv' /\ ReaderInv'
<1>1. Hub!ServerInv /\ CacheTypeOK /\ CacheInv /\ ReaderInv
  BY DEF APIInv, APITypeOK, CacheTypeOK
<1>2. PICK s \in Symbols : Server!HandlePrice(s)
  BY DEF HandlePrice
<1>3. /\ UNCHANGED <<coming, connected, redis, late, stale, reader, answer, held>>
      /\ cached' = ~connected
  BY DEF HandlePrice, cacheVars, readerVars, limiterVars, vars
<1>4. /\ feed["prices"] = "idle" /\ feed'["prices"] = "handler"
      /\ symbol' = Append(symbol, s) /\ Number' = Number + 1
  BY <1>1, <1>2, ServerSays DEF Server!HandlePrice, Number
<1>5. CacheTypeOK' /\ ReaderInv'
  <2>1. cached' \in BOOLEAN
    BY <1>1, <1>3, APIAssumption DEF CacheTypeOK, APIAssumption
  <2> QED BY <1>1, <1>3, <2>1 DEF CacheTypeOK, Values, ReaderInv
<1>6. CacheInv'
  <2>1. ASSUME connected, NEW n \in Settled'
        PROVE  n \in Settled /\ symbol'[n] = symbol[n]
    <3>1. /\ Number \in Nat /\ symbol \in Seq(Symbols) /\ Len(symbol) = Number
      BY <1>1, ServerSays
    <3>2. ~cached'
      BY ONLY <1>3, <2>1, Zenon
    <3>3. n \in 1..Number
      BY <1>4, <3>1, <3>2 DEF Settled
    <3> QED BY <1>4, <3>1, <3>3 DEF Settled
  <2> QED BY <1>1, <1>3, <2>1 DEF CacheInv
<1> QED BY <1>5, <1>6

\* SetPrice is tried once for each message, and is the message's symbol's; if it
\* fails that symbol is stale.
LEMMA SetPriceOK ==
    ASSUME APIInv, SetPrice \/ SetPriceFails
    PROVE  CacheTypeOK' /\ CacheInv' /\ ReaderInv'
<1> DEFINE t == symbol[Number]
<1>1. Hub!ServerInv /\ CacheTypeOK /\ CacheInv /\ ReaderInv
  BY DEF APIInv, APITypeOK, CacheTypeOK
<1>2. /\ feed["prices"] = "handler" /\ ~cached /\ cached' = TRUE
      /\ UNCHANGED <<feed, count, symbol, coming, connected, reader, answer, held>>
  BY DEF SetPrice, SetPriceFails, AtSetPrice, serverVars, readerVars, limiterVars, vars
<1>3. /\ Number \in Nat /\ Number \in Values /\ Number \in 1..Number
      /\ t \in Symbols /\ \A n \in 1..Number : symbol[n] \in Symbols
      /\ Number' = Number
  BY <1>1, <1>2, ServerSays DEF Number
<1>4. /\ DOMAIN Written = DOMAIN redis \cup {t} /\ Written[t] = Number
      /\ \A s \in DOMAIN redis : s # t => Written[s] = redis[s]
  BY DEF Written, HSet
<1>5. /\ redis' \in {redis, Written} /\ late' \subseteq late \cup {<<t, Number>>}
      /\ \/ redis' = Written /\ stale' = stale \ {t}
         \/ stale' = stale \cup {t}
  BY DEF SetPrice, SetPriceFails
<1> HIDE DEF t
<1>6. /\ DOMAIN redis' \subseteq Symbols
      /\ \A s \in DOMAIN redis' : redis'[s] \in Values
  BY <1>1, <1>3, <1>4, <1>5 DEF CacheTypeOK
<1>7. CacheTypeOK' /\ ReaderInv'
  <2>1. late' \subseteq Symbols \X Values /\ stale' \subseteq Symbols
    BY <1>1, <1>3, <1>5 DEF CacheTypeOK
  <2>2. <<coming, connected>>' \in Scenarios /\ cached' \in BOOLEAN
    BY <1>1, <1>2 DEF CacheTypeOK
  <2> QED BY <1>1, <1>2, <1>6, <2>1, <2>2 DEF CacheTypeOK, Values, ReaderInv
<1>8. CacheInv'
  <2> SUFFICES ASSUME connected, NEW n \in Settled'
               PROVE  \/ symbol[n] \in stale'
                      \/ symbol[n] \in DOMAIN redis' /\ redis'[symbol[n]] >= n
    BY <1>2 DEF CacheInv
  <2>1. n \in 1..Number /\ (n # Number => n \in Settled)
    BY <1>2, <1>3 DEF Settled
  <2>2. CASE symbol[n] = t
    <3>1. CASE redis' = Written /\ stale' = stale \ {t}
      BY <1>3, <1>4, <2>1, <2>2, <3>1
    <3>2. CASE stale' = stale \cup {t}
      BY <2>2, <3>2
    <3> QED BY <1>5, <3>1, <3>2
  <2>3. CASE symbol[n] # t
    <3>1. n # Number
      BY <2>3 DEF t
    <3>2. \/ symbol[n] \in stale
          \/ symbol[n] \in DOMAIN redis /\ redis[symbol[n]] >= n
      BY <1>1, <2>1, <3>1 DEF CacheInv
    <3> QED BY <1>4, <1>5, <2>3, <3>2
  <2> QED BY <2>2, <2>3
<1> QED BY <1>7, <1>8

\* What Redis does by itself makes a symbol stale.
LEMMA RedisOK ==
    ASSUME APIInv, LateWrite \/ RedisForgets
    PROVE  CacheTypeOK' /\ CacheInv' /\ ReaderInv'
<1>1. Hub!ServerInv /\ CacheTypeOK /\ CacheInv /\ ReaderInv
  BY DEF APIInv, APITypeOK, CacheTypeOK
<1>2. UNCHANGED <<feed, count, symbol, coming, connected, cached, reader, answer, held>>
  BY DEF LateWrite, RedisForgets, serverVars, readerVars, limiterVars, vars
<1>3. Settled' = Settled /\ \A n \in Settled : symbol[n] \in Symbols
  BY <1>1, <1>2, ServerSays DEF Settled, Number
<1>4. CASE LateWrite
  <2>1. PICK w \in late : /\ redis' = HSet(w[1], w[2])
                          /\ late' = late \ {w} /\ stale' = stale \cup {w[1]}
    BY <1>4 DEF LateWrite
  <2>2. w[1] \in Symbols /\ w[2] \in Values
    BY <1>1 DEF CacheTypeOK
  <2>3. /\ DOMAIN redis' = DOMAIN redis \cup {w[1]} /\ redis'[w[1]] = w[2]
        /\ \A s \in DOMAIN redis : s # w[1] => redis'[s] = redis[s]
    BY <2>1 DEF HSet
  <2>4. CacheTypeOK' /\ ReaderInv'
    <3>1. /\ DOMAIN redis' \subseteq Symbols
          /\ \A s \in DOMAIN redis' : redis'[s] \in Values
          /\ late' \subseteq Symbols \X Values /\ stale' \subseteq Symbols
      BY <1>1, <2>1, <2>2, <2>3 DEF CacheTypeOK
    <3> QED BY <1>1, <1>2, <3>1 DEF CacheTypeOK, Values, ReaderInv
  <2>5. CacheInv'
    BY <1>1, <1>2, <1>3, <2>1, <2>3 DEF CacheInv
  <2> QED BY <2>4, <2>5
<1>5. CASE RedisForgets
  <2>1. redis' = Empty /\ stale' = Symbols /\ late' = late
    BY <1>5 DEF RedisForgets
  <2>2. CacheTypeOK' /\ ReaderInv'
    BY <1>1, <1>2, <2>1 DEF CacheTypeOK, Values, ReaderInv, Empty
  <2>3. CacheInv'
    BY <1>2, <1>3, <2>1 DEF CacheInv
  <2> QED BY <2>2, <2>3
<1> QED BY <1>4, <1>5

\* GET /prices reads the cache, if there is one, and else the memory.
LEMMA ReadingOK ==
    ASSUME APIInv, NEW r \in Readers, AskPrices(r) \/ Reading(r)
    PROVE  CacheTypeOK' /\ CacheInv' /\ ReaderInv'
<1>1. Hub!ServerInv /\ CacheTypeOK /\ CacheInv /\ ReaderInv /\ TypeOK
  BY DEF APIInv, APITypeOK, CacheTypeOK
<1>2. /\ UNCHANGED <<feed, count, symbol, latest>>
      /\ UNCHANGED <<coming, connected, cached, redis, late, stale>>
  BY DEF AskPrices, Reading, RefusePrices, EnterPrices, GetPrices, GetPricesFails,
         ReadLatest, FinishPrices, serverVars, cacheVars
<1>3. CacheInv'
  BY <1>1, <1>2 DEF CacheInv, Settled, Number
<1>4. /\ reader' \in [Readers -> {"off", "redis", "memory", "answered"}]
      /\ answer' \in [Readers -> [Symbols -> Values]]
      /\ \A q \in Readers : held'[q] # None => reader'[q] = "off"
      /\ \A q \in Readers : reader'[q] = "redis" => reader[q] = "redis" \/ connected
  <2>1. /\ reader \in [Readers -> {"off", "redis", "memory", "answered"}]
        /\ answer \in [Readers -> [Symbols -> Values]]
        /\ \A q \in Readers : held[q] # None => reader[q] = "off"
        /\ r \in Requests /\ DOMAIN held = Requests /\ Readers \subseteq Requests
    BY <1>1, APIAssumption DEF CacheTypeOK, TypeOK, APIAssumption
  <2>2. NoPrices \in [Symbols -> Values] /\ latest \in [Symbols -> Values]
    <3>1. MaxMessages["prices"] \in Nat
      BY <1>1, ServerSays
    <3> QED BY <1>1, <3>1, ServerSays DEF NoPrices, Values
  <2>3. CASE AskPrices(r)
    <3>1. reader[r] = "off" /\ reader' = reader /\ answer' = answer
      BY <2>3 DEF AskPrices, readerVars
    <3>2. \A q \in Readers : q # r => held'[q] = held[q]
      BY <2>1, <2>3 DEF AskPrices, Ask
    <3> QED BY <2>1, <3>1, <3>2
  <2>4. CASE RefusePrices(r)
    <3>1. /\ reader' = reader /\ answer' = answer
          /\ held' = [held EXCEPT ![r] = None]
      BY <2>4 DEF RefusePrices, Refuse, Judged, readerVars
    <3> QED BY <2>1, <3>1
  <2>5. CASE EnterPrices(r)
    <3>1. /\ answer' = answer /\ held' = [held EXCEPT ![r] = None]
          /\ reader' = [reader EXCEPT ![r] = IF connected THEN "redis" ELSE "memory"]
      BY <2>5 DEF EnterPrices, Pass, Judged, At
    <3> QED BY <2>1, <3>1
  <2>6. ASSUME NEW to \in {"off", "memory", "answered"},
               reader[r] # "off", reader' = [reader EXCEPT ![r] = to],
               held' = held, NEW a \in [Symbols -> Values],
               answer' = answer \/ answer' = [answer EXCEPT ![r] = a]
        PROVE  /\ reader' \in [Readers -> {"off", "redis", "memory", "answered"}]
               /\ answer' \in [Readers -> [Symbols -> Values]]
               /\ \A q \in Readers : held'[q] # None => reader'[q] = "off"
               /\ \A q \in Readers : reader'[q] = "redis" => reader[q] = "redis"
    BY <2>1, <2>6
  <2>7. CASE GetPrices(r)
    <3> DEFINE a == [s \in Symbols |-> IF s \in DOMAIN redis THEN redis[s] ELSE 0]
    <3>1. a \in [Symbols -> Values]
      BY <1>1, <2>2 DEF CacheTypeOK, NoPrices
    <3>2. /\ reader[r] # "off" /\ reader' = [reader EXCEPT ![r] = "answered"]
          /\ held' = held /\ answer' = [answer EXCEPT ![r] = a]
      BY <2>7 DEF GetPrices, At, limiterVars, vars
    <3> HIDE DEF a
    <3> QED BY <2>6, <3>1, <3>2
  <2>8. CASE GetPricesFails(r)
    <3>1. /\ reader[r] # "off" /\ reader' = [reader EXCEPT ![r] = "memory"]
          /\ held' = held /\ answer' = answer
      BY <2>8 DEF GetPricesFails, At, limiterVars, vars
    <3> QED BY <2>2, <2>6, <3>1
  <2>9. CASE ReadLatest(r)
    <3>1. /\ reader[r] # "off" /\ reader' = [reader EXCEPT ![r] = "answered"]
          /\ held' = held /\ answer' = [answer EXCEPT ![r] = latest]
      BY <2>9 DEF ReadLatest, At, limiterVars, vars
    <3> QED BY <2>2, <2>6, <3>1
  <2>10. CASE FinishPrices(r)
    <3>1. /\ reader[r] # "off" /\ reader' = [reader EXCEPT ![r] = "off"]
          /\ held' = held /\ answer' = [answer EXCEPT ![r] = NoPrices]
      BY <2>10 DEF FinishPrices, At, limiterVars, vars
    <3> QED BY <2>2, <2>6, <3>1
  <2> QED BY <2>3, <2>4, <2>5, <2>7, <2>8, <2>9, <2>10 DEF Reading
<1>5. CacheTypeOK'
  BY <1>1, <1>2, <1>4 DEF CacheTypeOK, Values
<1>6. ReaderInv'
  BY <1>1, <1>2, <1>4 DEF ReaderInv
<1> QED BY <1>3, <1>5, <1>6

----------------------------------------------------------------------------
(* The service. *)

\* The service starts with nothing cached that it has got.
LEMMA APIInitOK == ASSUME APIInit PROVE APIInv
<1>1. LimiterInv /\ TypeOK
  BY InitInv DEF APIInit, LimiterInv
<1>2. Hub!ServerInv /\ Server!TypeOK
  BY ServerKeeps, SameServer DEF APIInit, Hub!ServerInv
<1>3. Number = 0 /\ feed["prices"] = "idle"
  BY SameServer DEF APIInit, Server!Init, Server!Feeds, Number
<1>4. NoPrices \in [Symbols -> Values] /\ 0 \in Values
  BY <1>2, ServerSays DEF NoPrices, Values
<1>5. CacheTypeOK
  <2>1. <<coming, connected>> \in Scenarios
    <3>1. PICK scenario \in Scenarios : coming = scenario[1] /\ connected = scenario[2]
      BY DEF APIInit
    <3>2. scenario = <<scenario[1], scenario[2]>>
      BY APIAssumption DEF APIAssumption
    <3> QED BY <3>1, <3>2
  <2>2. /\ DOMAIN redis \subseteq Symbols
        /\ \A s \in DOMAIN redis : redis[s] \in Values
    BY <1>4 DEF APIInit, Empty, NoPrices
  <2>3. \A r \in Readers : held[r] = None
    BY APIAssumption DEF APIAssumption, APIInit, Init
  <2> QED BY <1>4, <2>1, <2>2, <2>3 DEF APIInit, CacheTypeOK
<1>6. CacheInv /\ ReaderInv
  BY <1>3 DEF CacheInv, ReaderInv, Settled, APIInit
<1> QED BY <1>1, <1>2, <1>5, <1>6 DEF APIInv, APITypeOK, CacheTypeOK

\* Every step of the service keeps the invariant: that of the limiter, that of
\* the server, and what is said of the cache.
LEMMA APINextOK == ASSUME APIInv, [APINext]_apiVars PROVE APIInv'
<1>1. LimiterInv'
  BY LimiterSteps, StepInv DEF APIInv
<1>2. Hub!ServerInv'
  BY ServerSteps, ServerKeeps DEF APIInv
<1>3. TypeOK' /\ Server!TypeOK'
  BY <1>1, <1>2, SameServer DEF LimiterInv, Hub!ServerInv
<1>4. CacheTypeOK' /\ CacheInv' /\ ReaderInv'
  <2>1. CASE HandlePrice
    BY <2>1, HandlePriceOK
  <2>2. CASE SetPrice \/ SetPriceFails
    BY <2>2, SetPriceOK
  <2>3. CASE LateWrite \/ RedisForgets
    BY <2>3, RedisOK
  <2>4. CASE \E r \in Readers : AskPrices(r) \/ Reading(r)
    BY <2>4, ReadingOK
  <2>5. CASE \/ HandleAlert \/ Exit \/ Clock(Tick) \/ Clock(Sweep)
             \/ \E f \in Server!Feeds : Feeding(f)
             \/ Outside(Server!Signal)
             \/ \E c \in Server!Clients :
                   Accept(c) \/ Serving(c) \/ Outside(Server!Disconnect(c))
             \/ UNCHANGED apiVars
    BY <2>5, ServerQuiet
  <2> QED BY <2>1, <2>2, <2>3, <2>4, <2>5 DEF APINext
<1> QED BY <1>1, <1>2, <1>3, <1>4 DEF APIInv, APITypeOK, CacheTypeOK

\* The invariant of the whole service.
THEOREM APIInvariant == APISpec => []APIInv
BY APIInitOK, APINextOK, PTL DEF APISpec

\* Everything has its type; while a reader is judged it has no answer yet.
THEOREM APITypeCorrect == APISpec => []APITypeOK
<1>1. APIInv => APITypeOK
  BY DEF APIInv
<1> QED BY <1>1, APIInvariant, PTL

\* In front of the streams and of /prices (middleware.Middleware around the mux)
\* the limiter is still one token bucket for each address.
THEOREM APIImplementsQuota == APISpec => ImplementsQuota
<1>1. APIInit => Init
  BY DEF APIInit
<1>2. APISpec => Spec
  BY <1>1, LimiterSteps, PTL DEF APISpec, Spec
<1> QED BY <1>2, QuotaImplemented, PTL

\* Behind the limiter, with the cache and with GET /prices, the broadcast and
\* its streams are those of StreamingServer: what is proved of them holds here.
THEOREM APIImplementsServer == APISpec => Server!SafetySpec
<1>1. APIInit => Server!Init
  BY DEF APIInit
<1> QED BY <1>1, ServerSteps, PTL DEF APISpec, Server!SafetySpec

\* GET /prices is not behind the streams (handleLatestPrices, and the handler
\* that broadcasts after SetPrice), but for stale symbols.
THEOREM APIReadsItsStream == APISpec => ReadYourStream
<1>1. ASSUME APIInv, [APINext]_apiVars
      PROVE  [\A r \in Readers : reader[r] # "answered" /\ reader'[r] = "answered" =>
                 \A n \in Announced :
                     symbol[n] \in stale \/ answer'[r][symbol[n]] >= n]_apiVars
  <2> SUFFICES ASSUME APINext, NEW r \in Readers,
                      reader[r] # "answered", reader'[r] = "answered",
                      NEW n \in Announced, symbol[n] \notin stale
               PROVE  answer'[r][symbol[n]] >= n
    BY <1>1
  <2>1. Hub!ServerInv /\ CacheTypeOK /\ CacheInv /\ ReaderInv
    BY <1>1 DEF APIInv, APITypeOK, CacheTypeOK
  <2>2. n \in Settled /\ n \in 1..Number
    BY <2>1, ServerSays DEF Announced, Settled
  <2>3. symbol[n] \in Symbols /\ latest[symbol[n]] >= n
    BY <2>1, <2>2, ServerSays
  <2>4. reader \in [Readers -> {"off", "redis", "memory", "answered"}]
    BY <2>1 DEF CacheTypeOK
  <2>5. GetPrices(r) \/ ReadLatest(r)
    <3>1. reader' # reader
      OBVIOUS
    <3>2. PICK q \in Readers : Reading(q)
      BY <3>1 DEF APINext, HandlePrice, HandleAlert, SetPrice, SetPriceFails, AtSetPrice,
                  LateWrite, RedisForgets, Feeding, AskPrices, Accept, Serving,
                  Outside, Exit, Clock, readerVars
    <3>3. CASE RefusePrices(q)
      BY <3>1, <3>3 DEF RefusePrices, readerVars
    <3>4. CASE EnterPrices(q) \/ GetPricesFails(q) \/ FinishPrices(q)
      <4>1. \E to \in {"off", "redis", "memory"} : reader' = [reader EXCEPT ![q] = to]
        BY <3>4 DEF EnterPrices, GetPricesFails, FinishPrices, At
      <4> QED BY <2>4, <4>1
    <3>5. CASE GetPrices(q) \/ ReadLatest(q)
      <4>1. reader' = [reader EXCEPT ![q] = "answered"]
        BY <3>5 DEF GetPrices, ReadLatest, At
      <4>2. q = r
        BY <2>4, <4>1
      <4> QED BY <3>5, <4>2
    <3> QED BY <3>2, <3>3, <3>4, <3>5 DEF Reading
  <2>6. CASE GetPrices(r)
    <3>1. answer'[r][symbol[n]] =
              IF symbol[n] \in DOMAIN redis THEN redis[symbol[n]] ELSE 0
      BY <2>1, <2>3, <2>6 DEF GetPrices, CacheTypeOK
    <3>2. connected
      BY <2>1, <2>6 DEF GetPrices, At, ReaderInv
    <3>3. symbol[n] \in DOMAIN redis /\ redis[symbol[n]] >= n
      BY <2>1, <2>2, <3>2 DEF CacheInv
    <3> QED BY <3>1, <3>3
  <2>7. CASE ReadLatest(r)
    BY <2>1, <2>3, <2>7 DEF ReadLatest, CacheTypeOK
  <2> QED BY <2>5, <2>6, <2>7
<1> QED BY <1>1, APIInvariant, PTL DEF APISpec, ReadYourStream
=============================================================================
