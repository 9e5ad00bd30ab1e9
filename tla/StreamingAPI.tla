---------------------------- MODULE StreamingAPI ----------------------------
(***************************************************************************)
(* The whole of services/streaming-api: the broadcast and the streams of   *)
(* StreamingServer behind the RateLimiter, with the price cache in Redis   *)
(* (pkg/redis/client.go) that the consume handler writes and GET /prices   *)
(* reads (handleLatestPrices).                                             *)
(*                                                                         *)
(* A price is the number of its message; 0 is a price that an earlier      *)
(* process left in Redis.  The hash is a function on the symbols it has.   *)
(***************************************************************************)
EXTENDS RateLimiter, FiniteSets

CONSTANTS
    PriceClients, AlertClients, Symbols, Subscribed, Capacity, MaxSSEClients,
    MaxMessages,    \* of StreamingServer
    Readers,        \* connections that ask for /prices
    Scenarios       \* bound: which connections come, and whether Redis answered
                    \* at the start, one pair a behaviour

VARIABLES
    feed, count, symbol, todo, latest, phase, current, active, clients, chan,
    closed, got, skipped, server

Server == INSTANCE StreamingServer

VARIABLES
    coming,     \* the connections that come
    connected,  \* server.redis # nil: Redis answered when the service started
    redis,      \* the hash latest_prices
    late,       \* the writes that timed out and may reach Redis yet
    stale,      \* history: the symbols whose field was not last written by a
                \* SetPrice that succeeded
    cached,     \* the handler has done with SetPrice for its message
    reader,     \* where each GET /prices is
    answer      \* the prices it answers

cacheVars == <<coming, connected, redis, late, stale>>
readerVars == <<reader, answer>>
limiterVars == vars
serverVars == <<feed, count, symbol, todo, latest, phase, current, active,
                clients, chan, closed, got, skipped, server>>
apiVars == <<limiterVars, serverVars, cacheVars, cached, readerVars>>

ASSUME APIAssumption ==
    /\ IsFiniteSet(PriceClients) /\ IsFiniteSet(AlertClients)
    /\ PriceClients \cap AlertClients = {}
    /\ Subscribed \in [PriceClients -> SUBSET Symbols]
    /\ Capacity \in Nat \ {0}
    /\ MaxSSEClients \in Nat
    /\ MaxMessages \in [Server!Feeds -> Nat]
    /\ Readers \cap Server!Clients = {}
    /\ Requests = Readers \cup Server!Clients
    /\ Scenarios \subseteq (SUBSET Requests) \X BOOLEAN

Empty == [s \in {} |-> 0]
NoPrices == [s \in Symbols |-> 0]

APIInit ==
    /\ Init /\ Server!Init
    /\ \E scenario \in Scenarios :
          coming = scenario[1] /\ connected = scenario[2]
    /\ redis \in {Empty, NoPrices}
    /\ late = {}
    /\ stale = {}
    /\ cached = TRUE
    /\ reader = [r \in Readers |-> "off"]
    /\ answer = [r \in Readers |-> NoPrices]

----------------------------------------------------------------------------
(* The consume handler and Redis. *)

Number == count["prices"]

HandlePrice ==
    /\ server # "exited"
    /\ \E s \in Symbols : Server!HandlePrice(s)
    /\ cached' = ~connected
    /\ UNCHANGED <<limiterVars, cacheVars, readerVars>>

\* Bound: alerts come only where one of their clients does.
HandleAlert ==
    /\ server # "exited" /\ coming \cap AlertClients # {}
    /\ Server!HandleAlert
    /\ UNCHANGED <<limiterVars, cacheVars, cached, readerVars>>

AtSetPrice ==
    /\ server # "exited"
    /\ feed["prices"] = "handler" /\ ~cached
    /\ cached' = TRUE
    /\ UNCHANGED <<limiterVars, serverVars, coming, connected, readerVars>>

\* HSET latest_prices of one field.
HSet(s, n) == [t \in DOMAIN redis \cup {s} |-> IF t = s THEN n ELSE redis[t]]

Written == HSet(symbol[Number], Number)

\* The price is in the hash; the ttl is not used.
SetPrice ==
    /\ AtSetPrice
    /\ redis' = Written
    /\ stale' = stale \ {symbol[Number]}
    /\ UNCHANGED late

\* A warning is logged; a cancelled context fails like a timeout.  The write
\* may reach Redis all the same, now or, which only matters if another can
\* overtake it, later.
SetPriceFails ==
    /\ AtSetPrice
    /\ stale' = stale \cup {symbol[Number]}
    /\ \/ redis' \in {redis, Written} /\ UNCHANGED late
       \/ /\ Number < MaxMessages["prices"]
          /\ late' = late \cup {<<symbol[Number], Number>>}
          /\ UNCHANGED redis

LateWrite ==
    /\ server # "exited"
    /\ \E w \in late :
          /\ redis' = HSet(w[1], w[2])
          /\ late' = late \ {w}
          /\ stale' = stale \cup {w[1]}
    /\ UNCHANGED <<limiterVars, serverVars, coming, connected, cached, readerVars>>

\* Redis is restarted without its data.
RedisForgets ==
    /\ server # "exited"
    /\ redis # Empty
    /\ redis' = Empty
    /\ stale' = Symbols
    /\ UNCHANGED <<limiterVars, serverVars, coming, connected, late, cached, readerVars>>

\* Variant: the price is cached in a goroutine of its own.
FeedingAhead(f) ==
    /\ Server!Feeding(f)
    /\ UNCHANGED <<limiterVars, cacheVars, cached, readerVars>>

\* A price is broadcast when SetPrice is done.
Feeding(f) ==
    /\ Server!Feeding(f)
    /\ f = "prices" /\ feed[f] = "handler" => cached
    /\ UNCHANGED <<limiterVars, cacheVars, cached, readerVars>>

----------------------------------------------------------------------------
(* GET /prices. *)

At(r, from, to) == reader[r] = from /\ reader' = [reader EXCEPT ![r] = to]

AskPrices(r) ==
    /\ server = "up" /\ r \in coming
    /\ reader[r] = "off"
    /\ Ask(r)
    /\ UNCHANGED <<serverVars, cacheVars, cached, readerVars>>

RefusePrices(r) ==
    /\ Refuse(r)
    /\ UNCHANGED <<serverVars, cacheVars, cached, readerVars>>

\* handleLatestPrices is called.
EnterPrices(r) ==
    /\ Pass(r)
    /\ At(r, "off", IF connected THEN "redis" ELSE "memory")
    /\ UNCHANGED <<serverVars, cacheVars, cached, answer>>

\* HGETALL has prices: X-Cache: HIT.
GetPrices(r) ==
    /\ At(r, "redis", "answered")
    /\ redis # Empty
    /\ answer' = [answer EXCEPT ![r] =
                     [s \in Symbols |-> IF s \in DOMAIN redis THEN redis[s] ELSE 0]]
    /\ UNCHANGED <<limiterVars, serverVars, cacheVars, cached>>

\* HGETALL fails, or the hash is empty.
GetPricesFails(r) ==
    /\ At(r, "redis", "memory")
    /\ UNCHANGED <<limiterVars, serverVars, cacheVars, cached, answer>>

\* s.latest under the read lock: X-Cache: MISS.
ReadLatest(r) ==
    /\ At(r, "memory", "answered")
    /\ answer' = [answer EXCEPT ![r] = latest]
    /\ UNCHANGED <<limiterVars, serverVars, cacheVars, cached>>

FinishPrices(r) ==
    /\ At(r, "answered", "off")
    /\ answer' = [answer EXCEPT ![r] = NoPrices]
    /\ UNCHANGED <<limiterVars, serverVars, cacheVars, cached>>

Reading(r) ==
    \/ RefusePrices(r) \/ EnterPrices(r)
    \/ GetPrices(r) \/ GetPricesFails(r) \/ ReadLatest(r) \/ FinishPrices(r)

----------------------------------------------------------------------------
(* The streams, behind the rate limiter. *)

Accept(c) ==
    /\ c \in coming
    /\ Server!Accept(c) /\ Ask(c)
    /\ UNCHANGED <<cacheVars, cached, readerVars>>

Serving(c) ==
    /\ \/ Server!Arrive(c) /\ Pass(c)
       \/ Server!TurnAway(c) /\ Refuse(c)
       \/ phase[c] # "accepted" /\ Server!Serving(c) /\ UNCHANGED limiterVars
    /\ UNCHANGED <<cacheVars, cached, readerVars>>

\* Requests come to an end, signals arrive, the server exits.
Outside(A) == A /\ UNCHANGED <<limiterVars, cacheVars, cached, readerVars>>

\* Shutdown waits for the handlers of /prices as well.
Exit ==
    /\ \A r \in Readers : reader[r] = "off" /\ held[r] = None
    /\ Outside(Server!Exit)

Clock(A) == server # "exited" /\ A /\ UNCHANGED <<serverVars, cacheVars, cached, readerVars>>

APINext ==
    \/ HandlePrice \/ HandleAlert
    \/ SetPrice \/ SetPriceFails \/ LateWrite \/ RedisForgets
    \/ \E f \in Server!Feeds : Feeding(f)
    \/ \E r \in Readers : AskPrices(r) \/ Reading(r)
    \/ \E c \in Server!Clients : Accept(c) \/ Serving(c) \/ Outside(Server!Disconnect(c))
    \/ Outside(Server!Signal) \/ Exit
    \/ Clock(Tick) \/ Clock(Sweep)

\* The fairness of StreamingServer; the handlers of /prices run too, calls to
\* Redis end, time passes, and cleanup wakes up.
APIFairness ==
    /\ WF_apiVars(SetPrice \/ SetPriceFails \/ Feeding("prices"))
    /\ WF_apiVars(Feeding("alerts"))
    /\ \A c \in Server!Clients : SF_apiVars(Serving(c))
    /\ \A r \in Readers : WF_apiVars(Reading(r))
    /\ WF_apiVars(Exit)
    /\ WF_apiVars(Clock(Tick)) /\ WF_apiVars(Clock(Sweep))

APISpec == APIInit /\ [][APINext]_apiVars /\ APIFairness

----------------------------------------------------------------------------
(* Properties. *)

Values == 0..MaxMessages["prices"]

APITypeOK ==
    /\ TypeOK /\ Server!TypeOK
    /\ <<coming, connected>> \in Scenarios /\ cached \in BOOLEAN
    /\ DOMAIN redis \subseteq Symbols /\ \A s \in DOMAIN redis : redis[s] \in Values
    /\ late \subseteq Symbols \X Values /\ stale \subseteq Symbols
    /\ reader \in [Readers -> {"off", "redis", "memory", "answered"}]
    /\ \A r \in Readers : held[r] # None => reader[r] = "off"
    /\ answer \in [Readers -> [Symbols -> Values]]

\* The prices whose broadcast has begun: what a stream may have shown.
Announced == 1..(IF feed["prices"] = "handler" THEN Number - 1 ELSE Number)

\* GET /prices is not behind the streams: for every symbol it answers a price
\* at least as new as any whose broadcast has begun when it looks, in Redis or
\* in memory; except for a symbol whose last SetPrice failed or
\* was overtaken by a late write, or that Redis has forgotten.
ReadYourStream ==
    [][\A r \in Readers : reader[r] # "answered" /\ reader'[r] = "answered" =>
           \A n \in Announced :
               symbol[n] \in stale \/ answer'[r][symbol[n]] >= n]_apiVars

\* The visitors do not pile up: an address that stops asking is forgotten.
AddressIsForgotten ==
    \A a \in Addresses :
        []<>(\/ visitors[a] = None \/ server = "exited"
             \/ \E r \in Requests : held[r] # None /\ AddressOf[r] = a)

\* The promises of StreamingServer hold behind the rate limiter and with the
\* cache: neither keeps a client or the shutdown waiting.
ClientCatchesUp == Server!ClientCatchesUp
ShutdownEndsWithoutClients == Server!ShutdownEndsWithoutClients

=============================================================================
