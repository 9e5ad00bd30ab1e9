-------------------------- MODULE StreamingServer --------------------------
(***************************************************************************)
(* The streaming API (services/streaming-api/main.go and                   *)
(* pkg/middleware/maxclients.go): two consume loops, of prices and of      *)
(* alerts, broadcast to the channels of the connected clients; each client *)
(* has a goroutine that passes the rate limiter and the counter of         *)
(* MaxSSEClients, registers, writes the latest prices and then what        *)
(* arrives on its channel; SIGTERM stops the loops and shuts the HTTP      *)
(* server down.                                                            *)
(*                                                                         *)
(* Messages are numbered in the order of their topic.  A section of code   *)
(* under the write lock is one step that needs the lock free of readers; a *)
(* broadcast holds the read lock over a step for each client.  The         *)
(* snapshot is one step: it is under the read lock and reads only what the *)
(* write lock guards.                                                      *)
(***************************************************************************)
EXTENDS Integers, Sequences, FiniteSets

CONSTANTS
    PriceClients, AlertClients,  \* connections to /stream and /stream/alerts
    Symbols,
    Subscribed,    \* the symbols each price client asks for, {} for all
    Capacity,      \* of a client's channel (64)
    MaxSSEClients, \* MAX_SSE_CLIENTS
    MaxMessages    \* bound: how many messages each topic has

Clients == PriceClients \cup AlertClients
Feeds == {"prices", "alerts"}

ASSUME StreamingAssumption ==
    /\ IsFiniteSet(PriceClients) /\ IsFiniteSet(AlertClients)
    /\ PriceClients \cap AlertClients = {}
    /\ Subscribed \in [PriceClients -> SUBSET Symbols]
    /\ Capacity \in Nat \ {0}
    /\ MaxSSEClients \in Nat
    /\ MaxMessages \in [Feeds -> Nat]

VARIABLES
    feed,      \* where each consume loop is: "idle", "handler", "broadcast"
               \* with the read lock held, or "stopped"
    count,     \* how many messages each loop has got
    symbol,    \* the symbol of each price message so far
    todo,      \* the clients that a broadcast has still to try
    latest,    \* s.latest: the last message of each symbol, 0 for none
    phase,     \* where each client's goroutine is
    current,   \* what active.Add(1) returned to it
    active,    \* the counter of MaxSSEClients
    clients,   \* s.clients
    chan,      \* the channel of each client
    closed,    \* those whose channel is closed
    got,       \* history: the messages written to a client
    skipped,   \* history: the messages its full channel had no room for
    server     \* "up", "draining" in httpServer.Shutdown, or "exited"

feedVars == <<feed, count, symbol, todo>>
connVars == <<phase, current, active>>
hubVars == <<clients, chan, closed, got, skipped>>
vars == <<feedVars, latest, connVars, hubVars, server>>

Init ==
    /\ feed = [f \in Feeds |-> "idle"]
    /\ count = [f \in Feeds |-> 0]
    /\ symbol = <<>>
    /\ todo = [f \in Feeds |-> {}]
    /\ latest = [s \in Symbols |-> 0]
    /\ phase = [c \in Clients |-> "off"]
    /\ current = [c \in Clients |-> 0]
    /\ active = 0
    /\ clients = {} /\ closed = {}
    /\ chan = [c \in Clients |-> <<>>]
    /\ got = [c \in Clients |-> {}]
    /\ skipped = [c \in Clients |-> {}]
    /\ server = "up"

\* What mu.Lock() waits for.
Unlocked == \A f \in Feeds : feed[f] # "broadcast"

Wants(c, s) == c \in PriceClients /\ (Subscribed[c] = {} \/ s \in Subscribed[c])

\* The clients that a broadcast of feed f does not pass over.
Audience(f) ==
    IF f = "alerts" THEN clients \cap AlertClients
    ELSE {c \in clients : Wants(c, symbol[count["prices"]])}

----------------------------------------------------------------------------
(* The consume loops. *)

\* A price arrives: server.latest[price.Symbol] = *price.
HandlePrice(s) ==
    /\ feed["prices"] = "idle" /\ count["prices"] < MaxMessages["prices"]
    /\ Unlocked
    /\ feed' = [feed EXCEPT !["prices"] = "handler"]
    /\ count' = [count EXCEPT !["prices"] = @ + 1]
    /\ symbol' = Append(symbol, s)
    /\ latest' = [latest EXCEPT ![s] = count'["prices"]]
    /\ UNCHANGED <<todo, connVars, hubVars, server>>

HandleAlert ==
    /\ feed["alerts"] = "idle" /\ count["alerts"] < MaxMessages["alerts"]
    /\ feed' = [feed EXCEPT !["alerts"] = "handler"]
    /\ count' = [count EXCEPT !["alerts"] = @ + 1]
    /\ UNCHANGED <<symbol, todo, latest, connVars, hubVars, server>>

\* Variant: the handler returns when SetPrice fails.
BeginBroadcastIfCached(f) ==
    /\ feed[f] = "handler"
    /\ \/ feed' = [feed EXCEPT ![f] = "idle"] /\ UNCHANGED todo
       \/ /\ feed' = [feed EXCEPT ![f] = "broadcast"]
          /\ todo' = [todo EXCEPT ![f] = Audience(f)]
    /\ UNCHANGED <<count, symbol, latest, connVars, hubVars, server>>

\* The read lock is taken; for a price when SetPrice is done or has failed.
BeginBroadcast(f) ==
    /\ feed[f] = "handler"
    /\ feed' = [feed EXCEPT ![f] = "broadcast"]
    /\ todo' = [todo EXCEPT ![f] = Audience(f)]
    /\ UNCHANGED <<count, symbol, latest, connVars, hubVars, server>>

\* Variant: ch <- data without a default.
SendBlocking(f, c) ==
    /\ feed[f] = "broadcast" /\ c \in todo[f]
    /\ Len(chan[c]) < Capacity
    /\ todo' = [todo EXCEPT ![f] = @ \ {c}]
    /\ chan' = [chan EXCEPT ![c] = Append(@, count[f])]
    /\ UNCHANGED <<feed, count, symbol, latest, connVars, clients, closed, got,
                   skipped, server>>

\* Variant: a goroutine for each message sends it, and those of one client
\* overtake one another.
SendFromGoroutine(f, c) ==
    /\ feed[f] = "broadcast" /\ c \in todo[f]
    /\ Len(chan[c]) < Capacity
    /\ todo' = [todo EXCEPT ![f] = @ \ {c}]
    /\ \E k \in 0..Len(chan[c]) :
          chan' = [chan EXCEPT ![c] =
                      SubSeq(@, 1, k) \o <<count[f]>> \o SubSeq(@, k + 1, Len(@))]
    /\ UNCHANGED <<feed, count, symbol, latest, connVars, clients, closed, got,
                   skipped, server>>

\* select { case ch <- data: default: }
Send(f, c) ==
    /\ feed[f] = "broadcast" /\ c \in todo[f]
    /\ todo' = [todo EXCEPT ![f] = @ \ {c}]
    /\ IF Len(chan[c]) < Capacity
       THEN chan' = [chan EXCEPT ![c] = Append(@, count[f])] /\ UNCHANGED skipped
       ELSE skipped' = [skipped EXCEPT ![c] = @ \cup {count[f]}] /\ UNCHANGED chan
    /\ UNCHANGED <<feed, count, symbol, latest, connVars, clients, closed, got, server>>

EndBroadcast(f) ==
    /\ feed[f] = "broadcast" /\ todo[f] = {}
    /\ feed' = [feed EXCEPT ![f] = "idle"]
    /\ UNCHANGED <<count, symbol, todo, latest, connVars, hubVars, server>>

\* Consume sees the cancelled context.
StopFeed(f) ==
    /\ server = "draining"
    /\ feed[f] = "idle"
    /\ feed' = [feed EXCEPT ![f] = "stopped"]
    /\ UNCHANGED <<count, symbol, todo, latest, connVars, hubVars, server>>

----------------------------------------------------------------------------
(* MaxSSEClients. *)

Step(c, from, to) == phase[c] = from /\ phase' = [phase EXCEPT ![c] = to]

\* A connection is accepted and its request read.
Accept(c) ==
    /\ server = "up"
    /\ Step(c, "off", "accepted")
    /\ UNCHANGED <<feedVars, latest, current, active, hubVars, server>>

\* The rate limiter answers 429.
TurnAway(c) ==
    /\ Step(c, "accepted", "off")
    /\ UNCHANGED <<feedVars, latest, current, active, hubVars, server>>

\* The rate limiter lets it pass: current := active.Add(1).
Arrive(c) ==
    /\ Step(c, "accepted", "counted")
    /\ active' = active + 1
    /\ current' = [current EXCEPT ![c] = active + 1]
    /\ UNCHANGED <<feedVars, latest, hubVars, server>>

\* Variant: admits one client too many.
AdmitOneMore(c) ==
    /\ Step(c, "counted", "admitted")
    /\ current[c] <= MaxSSEClients + 1
    /\ UNCHANGED <<feedVars, latest, current, active, hubVars, server>>

Admit(c) ==
    /\ Step(c, "counted", "admitted")
    /\ current[c] <= MaxSSEClients
    /\ UNCHANGED <<feedVars, latest, current, active, hubVars, server>>

\* Variant: a rejected connection gives back a slot twice, once deferred.
RejectTwice(c) ==
    /\ Step(c, "counted", "off")
    /\ current[c] > MaxSSEClients
    /\ active' = active - 2
    /\ current' = [current EXCEPT ![c] = 0]
    /\ UNCHANGED <<feedVars, latest, hubVars, server>>

\* active.Add(-1) and 503.
Reject(c) ==
    /\ Step(c, "counted", "off")
    /\ current[c] > MaxSSEClients
    /\ active' = active - 1
    /\ current' = [current EXCEPT ![c] = 0]
    /\ UNCHANGED <<feedVars, latest, hubVars, server>>

----------------------------------------------------------------------------
(* handleStream and handleAlertStream. *)

\* s.clients[ch] = symMap, on a new channel.
Register(c) ==
    /\ Step(c, "admitted", IF c \in PriceClients THEN "registered" ELSE "streaming")
    /\ Unlocked
    /\ clients' = clients \cup {c}
    /\ UNCHANGED <<feedVars, latest, current, active, chan, closed, got,
                   skipped, server>>

\* Variant: the snapshot leaves out symbols without a subscription, so a
\* client of all symbols gets none.
SnapshotOfSubscribed(c) ==
    /\ Step(c, "registered", "streaming")
    /\ got' = [got EXCEPT ![c] = @ \cup {latest[s] : s \in {t \in Subscribed[c] :
                                        latest[t] > 0}}]
    /\ UNCHANGED <<feedVars, latest, current, active, clients, chan, closed,
                   skipped, server>>

\* The latest prices are written under the read lock.
Snapshot(c) ==
    /\ Step(c, "registered", "streaming")
    /\ got' = [got EXCEPT ![c] = @ \cup {latest[s] : s \in {t \in Symbols :
                                        Wants(c, t) /\ latest[t] > 0}}]
    /\ UNCHANGED <<feedVars, latest, current, active, clients, chan, closed,
                   skipped, server>>

\* case data := <-ch: write it.
Deliver(c) ==
    /\ phase[c] = "streaming"
    /\ chan[c] # <<>>
    /\ got' = [got EXCEPT ![c] = @ \cup {Head(chan[c])}]
    /\ chan' = [chan EXCEPT ![c] = Tail(@)]
    /\ UNCHANGED <<feedVars, latest, connVars, clients, closed, skipped, server>>

\* r.Context() is done: the client has gone, or net/http has given up on the
\* connection (ReadTimeout).
Disconnect(c) ==
    /\ Step(c, "streaming", "leaving")
    /\ UNCHANGED <<feedVars, latest, current, active, hubVars, server>>

\* Variant: removeClient without the lock.
RemoveClientUnlocked(c) ==
    /\ Step(c, "leaving", "removed")
    /\ clients' = clients \ {c}
    /\ closed' = closed \cup {c}
    /\ UNCHANGED <<feedVars, latest, current, active, chan, got, skipped, server>>

\* removeClient: delete, close(ch).
RemoveClient(c) ==
    /\ Step(c, "leaving", "removed")
    /\ Unlocked
    /\ clients' = clients \ {c}
    /\ closed' = closed \cup {c}
    /\ UNCHANGED <<feedVars, latest, current, active, chan, got, skipped, server>>

\* The deferred active.Add(-1).  The goroutine and its channel are gone; the
\* client may connect again.
Release(c) ==
    /\ Step(c, "removed", "off")
    /\ active' = active - 1
    /\ current' = [current EXCEPT ![c] = 0]
    /\ chan' = [chan EXCEPT ![c] = <<>>]
    /\ closed' = closed \ {c}
    /\ got' = [got EXCEPT ![c] = {}]
    /\ skipped' = [skipped EXCEPT ![c] = {}]
    /\ UNCHANGED <<feedVars, latest, clients, server>>

----------------------------------------------------------------------------
(* main. *)

\* SIGINT or SIGTERM: cancel(), and Shutdown closes the listener.
Signal ==
    /\ server = "up"
    /\ server' = "draining"
    /\ UNCHANGED <<feedVars, latest, connVars, hubVars>>

\* Shutdown(context.Background()) returns when no handler is running, however
\* long that takes; it does not cancel their requests' contexts.
Exit ==
    /\ server = "draining"
    /\ \A c \in Clients : phase[c] = "off"
    /\ server' = "exited"
    /\ UNCHANGED <<feedVars, latest, connVars, hubVars>>

\* A loop, from a message that has arrived on.
Feeding(f) ==
    /\ server # "exited"
    /\ \/ BeginBroadcast(f) \/ EndBroadcast(f) \/ StopFeed(f)
       \/ \E c \in Clients : Send(f, c)

\* What a client's goroutine does by itself, its client reading.
Serving(c) ==
    \/ TurnAway(c) \/ Arrive(c) \/ Admit(c) \/ Reject(c)
    \/ Register(c) \/ Snapshot(c) \/ Deliver(c)
    \/ RemoveClient(c) \/ Release(c)

Next ==
    \/ server # "exited" /\ ((\E s \in Symbols : HandlePrice(s)) \/ HandleAlert)
    \/ \E f \in Feeds : Feeding(f)
    \/ \E c \in Clients : Accept(c) \/ Disconnect(c) \/ Serving(c)
    \/ Signal \/ Exit

SafetySpec == Init /\ [][Next]_vars

\* Goroutines are scheduled, the write lock is not withheld forever, and the
\* clients read what they are sent.  Nothing is assumed of the arrival of
\* messages, connections or signals, or of clients disconnecting.
Fairness ==
    /\ \A f \in Feeds : WF_vars(Feeding(f))
    /\ \A c \in Clients : SF_vars(Serving(c))
    /\ WF_vars(Exit)

Spec == SafetySpec /\ Fairness

----------------------------------------------------------------------------
(* Properties. *)

Connected == {"admitted", "registered", "streaming", "leaving", "removed"}

TypeOK ==
    /\ feed \in [Feeds -> {"idle", "handler", "broadcast", "stopped"}]
    /\ count \in [Feeds -> Nat] /\ \A f \in Feeds : count[f] <= MaxMessages[f]
    /\ symbol \in Seq(Symbols) /\ Len(symbol) = count["prices"]
    /\ todo \in [Feeds -> SUBSET Clients]
    /\ latest \in [Symbols -> 0..count["prices"]]
    /\ phase \in [Clients -> {"off", "accepted", "counted"} \cup Connected]
    /\ current \in [Clients -> 0..Cardinality(Clients)]
    /\ active \in 0..Cardinality(Clients)
    /\ clients \subseteq Clients /\ closed \subseteq Clients
    /\ chan \in [Clients -> Seq(Nat \ {0})]
    /\ got \in [Clients -> SUBSET Nat] /\ skipped \in [Clients -> SUBSET Nat]
    /\ server \in {"up", "draining", "exited"}

\* A broadcast never has a closed channel ahead of it, though clients leave at
\* any time: sending on it would end the process.
NoSendOnClosedChannel == \A f \in Feeds : todo[f] \cap closed = {}

\* A client that has its snapshot has, for each of its symbols, the newest
\* price, or it is in the client's channel, or the broadcast of it is still to
\* come, or the channel was full: none falls between registering and snapshot.
InSight(c, n) ==
    \/ n \in got[c] \cup skipped[c]
    \/ \E k \in DOMAIN chan[c] : chan[c][k] = n
    \/ n = count["prices"] /\ (feed["prices"] = "handler" \/ c \in todo["prices"])
NoGapAtConnect ==
    \A c \in PriceClients, s \in Symbols :
        phase[c] = "streaming" /\ Wants(c, s) /\ latest[s] > 0
            => InSight(c, latest[s])

\* The slots are exact: however connections race through the counter, at most
\* MaxSSEClients streams are open, and the counter is the number of these and
\* of the connections that are about to be admitted or rejected; none leaks.
SlotsAreExact ==
    /\ Cardinality({c \in Clients : phase[c] \in Connected}) <= MaxSSEClients
    /\ active = Cardinality({c \in Clients : phase[c] \notin {"off", "accepted"}})

\* A channel holds messages in the order of their topic, each once, however
\* slow the client is.
ChannelInOrder ==
    \A c \in Clients : \A i, j \in DOMAIN chan[c] : i < j => chan[c][i] < chan[c][j]

\* A connected client gets the newest price of its symbols, unless it leaves
\* or its channel was full.
ClientCatchesUp ==
    \A c \in PriceClients, s \in Symbols, n \in 1..MaxMessages["prices"] :
        phase[c] = "streaming" /\ Wants(c, s) /\ latest[s] = n
            ~> n \in got[c] \cup skipped[c] \/ phase[c] # "streaming"

\* After SIGTERM the process ends if no stream goes on forever: no broadcast,
\* lock or counter keeps the goroutine of a stream whose context is done.
ShutdownEndsWithoutClients ==
    (server = "draining" ~> server = "exited")
        \/ \E c \in Clients : <>[](phase[c] = "streaming")

=============================================================================
