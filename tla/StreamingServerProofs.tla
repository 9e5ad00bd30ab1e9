----------------------- MODULE StreamingServerProofs -----------------------
(***************************************************************************)
(* Safety of the streaming API for every set of connections, subscription, *)
(* channel capacity, MAX_SSE_CLIENTS and number of messages.  ServerInv is *)
(* inductive; the properties that the runs check follow from it.           *)
(***************************************************************************)
EXTENDS StreamingServer, FiniteSetTheorems, SequenceTheorems, TLAPS

FeedOf(c) == IF c \in PriceClients THEN "prices" ELSE "alerts"

\* The connections that active counts, and those that it gave a number up to n.
Counted == {c \in Clients : phase[c] \notin {"off", "accepted"}}
NumberedUpTo(n) == {c \in Counted : current[c] <= n}

\* The map of clients and the closed channels follow the goroutines.
HubInv ==
    /\ clients = {c \in Clients : phase[c] \in {"registered", "streaming", "leaving"}}
    /\ closed = {c \in Clients : phase[c] = "removed"}
    /\ \A c \in AlertClients : phase[c] # "registered"

\* A broadcast is of a message that was got, to clients that are registered.
TodoInv ==
    /\ \A f \in Feeds : feed[f] # "broadcast" => todo[f] = {}
    /\ \A f \in Feeds : feed[f] \in {"handler", "broadcast"} => count[f] > 0
    /\ \A f \in Feeds : \A c \in todo[f] : c \in clients /\ FeedOf(c) = f

\* However many connections race, at most n of them have a number up to n:
\* a number is given by an addition, and given back only by a subtraction.
SlotInv ==
    /\ active = Cardinality(Counted)
    /\ \A n \in Nat : Cardinality(NumberedUpTo(n)) <= n
    /\ \A c \in Clients : phase[c] \in Connected => current[c] <= MaxSSEClients

\* s.latest has the newest message of each symbol.
LatestInv ==
    /\ \A s \in Symbols : latest[s] > 0 => symbol[latest[s]] = s
    /\ \A n \in 1..Len(symbol) : latest[symbol[n]] >= n

\* The message of c's feed that is not in c's channel yet.
Coming(c) == feed[FeedOf(c)] = "handler" \/ c \in todo[FeedOf(c)]
QueueInv ==
    \A c \in Clients : \A k \in DOMAIN chan[c] :
        /\ chan[c][k] <= count[FeedOf(c)]
        /\ Coming(c) => chan[c][k] < count[FeedOf(c)]

ServerInv ==
    /\ TypeOK /\ HubInv /\ TodoInv /\ SlotInv /\ LatestInv /\ QueueInv
    /\ NoGapAtConnect /\ ChannelInOrder

----------------------------------------------------------------------------
(* What the parts of the state say, and what keeps them. *)

\* There are finitely many connections, so there are finitely many in any set
\* of them.
LEMMA ClientsFinite ==
    /\ IsFiniteSet(Clients) /\ Cardinality(Clients) \in Nat
    /\ \A S \in SUBSET Clients :
          /\ IsFiniteSet(S) /\ Cardinality(S) \in Nat
          /\ Cardinality(S) <= Cardinality(Clients)
<1>1. IsFiniteSet(Clients)
  BY StreamingAssumption, FS_Union DEF StreamingAssumption, Clients
<1>2. Cardinality(Clients) \in Nat
  BY <1>1, FS_CardinalityType
<1>3. ASSUME NEW S \in SUBSET Clients
      PROVE  /\ IsFiniteSet(S) /\ Cardinality(S) \in Nat
             /\ Cardinality(S) <= Cardinality(Clients)
  <2>1. IsFiniteSet(S) /\ Cardinality(S) <= Cardinality(Clients)
    BY <1>1, FS_Subset
  <2> QED BY <2>1, FS_CardinalityType
<1> QED BY <1>1, <1>2, <1>3

\* A connection is of one feed.
LEMMA FeedOfClient ==
    /\ \A c \in Clients : FeedOf(c) \in Feeds
    /\ \A c \in PriceClients : c \in Clients /\ FeedOf(c) = "prices"
    /\ \A c \in AlertClients : c \in Clients /\ FeedOf(c) = "alerts"
BY StreamingAssumption DEF StreamingAssumption, Clients, Feeds, FeedOf

\* A message at the end of a channel.
LEMMA AppendKeeps ==
    ASSUME NEW q \in Seq(Nat \ {0}), NEW n \in Nat \ {0}
    PROVE  /\ Append(q, n) \in Seq(Nat \ {0})
           /\ DOMAIN q = 1..Len(q) /\ Len(q) \in Nat
           /\ DOMAIN Append(q, n) = 1..(Len(q) + 1)
           /\ \A k \in 1..Len(q) : Append(q, n)[k] = q[k]
           /\ Append(q, n)[Len(q) + 1] = n
           /\ \A k \in 1..(Len(q) + 1) : k = Len(q) + 1 \/ k \in 1..Len(q)
OBVIOUS

\* A message taken from the front of a channel.
LEMMA TailKeeps ==
    ASSUME NEW q \in Seq(Nat \ {0}), q # <<>>
    PROVE  /\ Tail(q) \in Seq(Nat \ {0}) /\ Head(q) \in Nat \ {0}
           /\ DOMAIN q = 1..Len(q) /\ Len(q) \in Nat /\ Len(q) > 0
           /\ DOMAIN Tail(q) = 1..(Len(q) - 1)
           /\ \A k \in 1..(Len(q) - 1) : Tail(q)[k] = q[k + 1]
           /\ Head(q) = q[1]
OBVIOUS

\* The counter: a connection that arrives gets a number no other one before it
\* has, and so leaves at most n with a number up to n.
LEMMA SlotGiven ==
    ASSUME TypeOK, SlotInv, NEW c \in Clients, phase[c] = "accepted",
           phase' = [phase EXCEPT ![c] = "counted"],
           active' = active + 1,
           current' = [current EXCEPT ![c] = active + 1]
    PROVE  SlotInv' /\ active' \in 0..Cardinality(Clients)
<1>1. /\ Counted' = Counted \cup {c} /\ c \notin Counted
      /\ Counted \subseteq Clients /\ Counted' \subseteq Clients
  BY DEF Counted, TypeOK
<1>2. Cardinality(Counted') = Cardinality(Counted) + 1
  BY <1>1, ClientsFinite, FS_AddElement
<1>3. active' = Cardinality(Counted') /\ active' \in 0..Cardinality(Clients)
  BY <1>1, <1>2, ClientsFinite DEF SlotInv
<1>4. ASSUME NEW n \in Nat PROVE Cardinality(NumberedUpTo(n)') <= n
  <2>1. NumberedUpTo(n)' \subseteq Counted'
    BY DEF NumberedUpTo
  <2>2. CASE active + 1 <= n
    <3>1. Cardinality(NumberedUpTo(n)') <= Cardinality(Counted')
      BY <2>1, <1>1, ClientsFinite, FS_Subset
    <3>2. Cardinality(NumberedUpTo(n)') \in Nat /\ Cardinality(Counted') \in Nat
      BY <2>1, <1>1, ClientsFinite
    <3> QED BY <1>3, <3>1, <3>2, <2>2
  <2>3. CASE ~(active + 1 <= n)
    <3>1. current'[c] = active + 1 /\ \A d \in Counted : current'[d] = current[d]
      BY <1>1 DEF TypeOK, Counted
    <3>2. NumberedUpTo(n)' = NumberedUpTo(n)
      BY <1>1, <3>1, <2>3 DEF NumberedUpTo
    <3> QED BY <3>2 DEF SlotInv
  <2> QED BY <2>2, <2>3
<1>5. \A d \in Clients : phase'[d] \in Connected => current'[d] <= MaxSSEClients
  BY DEF SlotInv, TypeOK, Connected
<1> QED BY <1>3, <1>4, <1>5 DEF SlotInv

\* A connection that is rejected or leaves gives its slot back.
LEMMA SlotReturned ==
    ASSUME TypeOK, SlotInv, NEW c \in Clients, phase[c] \notin {"off", "accepted"},
           phase' = [phase EXCEPT ![c] = "off"],
           active' = active - 1,
           current' = [current EXCEPT ![c] = 0]
    PROVE  SlotInv' /\ active' \in 0..Cardinality(Clients)
<1>1. /\ Counted' = Counted \ {c} /\ c \in Counted
      /\ Counted \subseteq Clients /\ Counted' \subseteq Clients
  BY DEF Counted, TypeOK
<1>2. Cardinality(Counted') = Cardinality(Counted) - 1
  BY <1>1, ClientsFinite, FS_RemoveElement
<1>3. active' = Cardinality(Counted') /\ active' \in 0..Cardinality(Clients)
  BY <1>1, <1>2, ClientsFinite DEF SlotInv
<1>4. ASSUME NEW n \in Nat PROVE Cardinality(NumberedUpTo(n)') <= n
  <2>1. \A d \in Counted' : current'[d] = current[d]
    BY <1>1 DEF TypeOK
  <2>2. /\ NumberedUpTo(n)' \subseteq NumberedUpTo(n)
        /\ NumberedUpTo(n) \subseteq Clients
    BY <1>1, <2>1 DEF NumberedUpTo
  <2>3. /\ Cardinality(NumberedUpTo(n)') <= Cardinality(NumberedUpTo(n))
        /\ Cardinality(NumberedUpTo(n)') \in Nat
        /\ Cardinality(NumberedUpTo(n)) \in Nat
    BY <2>2, ClientsFinite, FS_Subset
  <2>4. Cardinality(NumberedUpTo(n)) <= n
    BY DEF SlotInv
  <2> QED BY <2>3, <2>4
<1>5. \A d \in Clients : phase'[d] \in Connected => current'[d] <= MaxSSEClients
  BY DEF SlotInv, TypeOK, Connected
<1> QED BY <1>3, <1>4, <1>5 DEF SlotInv

\* Any other step of a connection leaves it counted, or not, as it was.
LEMMA SlotKept ==
    ASSUME TypeOK, SlotInv, NEW c \in Clients, NEW to,
           phase[c] \in {"off", "accepted"} <=> to \in {"off", "accepted"},
           to \in Connected => current[c] <= MaxSSEClients,
           phase' = [phase EXCEPT ![c] = to], UNCHANGED <<current, active>>
    PROVE  SlotInv'
<1>1. Counted' = Counted
  BY DEF Counted, TypeOK
<1>2. \A n \in Nat : NumberedUpTo(n)' = NumberedUpTo(n)
  BY <1>1 DEF NumberedUpTo
<1>3. \A d \in Clients : phase'[d] \in Connected => current'[d] <= MaxSSEClients
  BY DEF SlotInv, TypeOK
<1> QED BY <1>1, <1>2, <1>3 DEF SlotInv

\* What a step leaves true of the parts of the state it does not touch.
LEMMA Untouched ==
    ASSUME ServerInv
    PROVE  /\ UNCHANGED connVars => SlotInv'
           /\ UNCHANGED <<phase, clients, closed>> => HubInv'
           /\ UNCHANGED <<feed, count, todo, clients>> => TodoInv'
           /\ UNCHANGED <<symbol, latest>> => LatestInv'
           /\ UNCHANGED <<feed, count, todo, chan>> => QueueInv'
           /\ UNCHANGED chan => ChannelInOrder'
           /\ /\ UNCHANGED <<feed, count, todo, latest, chan, got, skipped>>
              /\ \A c \in PriceClients :
                    phase'[c] = "streaming" => phase[c] = "streaming"
              => NoGapAtConnect'
<1> USE DEF ServerInv
<1>1. UNCHANGED connVars => SlotInv'
  BY DEF connVars, SlotInv, Counted, NumberedUpTo
<1>2. UNCHANGED <<phase, clients, closed>> => HubInv'
  BY DEF HubInv
<1>3. UNCHANGED <<feed, count, todo, clients>> => TodoInv'
  BY DEF TodoInv
<1>4. UNCHANGED <<symbol, latest>> => LatestInv'
  BY DEF LatestInv
<1>5. UNCHANGED <<feed, count, todo, chan>> => QueueInv'
  BY DEF QueueInv, Coming
<1>6. UNCHANGED chan => ChannelInOrder'
  BY DEF ChannelInOrder
<1>7. ASSUME UNCHANGED <<feed, count, todo, latest, chan, got, skipped>>,
             \A c \in PriceClients :
                phase'[c] = "streaming" => phase[c] = "streaming"
      PROVE  NoGapAtConnect'
  BY <1>7 DEF NoGapAtConnect, InSight
<1> QED BY <1>1, <1>2, <1>3, <1>4, <1>5, <1>6, <1>7

----------------------------------------------------------------------------
(* Each step keeps the invariant. *)

\* The server starts with no connection and no message.
LEMMA InitOK == Init => ServerInv
<1> SUFFICES ASSUME Init PROVE ServerInv
  OBVIOUS
<1>1. TypeOK
  BY ClientsFinite, StreamingAssumption
     DEF Init, TypeOK, StreamingAssumption, Clients, Feeds
<1>2. HubInv /\ TodoInv /\ LatestInv /\ QueueInv /\ NoGapAtConnect /\ ChannelInOrder
  BY DEF Init, HubInv, TodoInv, LatestInv, QueueInv, NoGapAtConnect,
         ChannelInOrder, Clients
<1>3. SlotInv
  <2>1. Counted = {} /\ \A n \in Nat : NumberedUpTo(n) = {}
    BY DEF Init, Counted, NumberedUpTo
  <2>2. Cardinality({}) = 0
    BY FS_EmptySet
  <2>3. \A c \in Clients : phase[c] \notin Connected
    BY DEF Init, Connected
  <2>4. \A n \in Nat : Cardinality(NumberedUpTo(n)) <= n
    BY <2>1, <2>2
  <2> QED BY <2>1, <2>2, <2>3, <2>4 DEF Init, SlotInv
<1> QED BY <1>1, <1>2, <1>3 DEF ServerInv

\* A price that arrives is behind every message of the price channels, and is
\* still to come for each client.
LEMMA HandlePriceOK ==
    ASSUME ServerInv, NEW s \in Symbols, HandlePrice(s)
    PROVE  ServerInv'
<1> USE DEF ServerInv, connVars, hubVars
<1>1. /\ count["prices"] \in Nat /\ count'["prices"] = count["prices"] + 1
      /\ count'["alerts"] = count["alerts"] /\ count \in [Feeds -> Nat]
      /\ feed'["prices"] = "handler" /\ feed'["alerts"] = feed["alerts"]
      /\ count' \in [Feeds -> Nat]
  BY DEF HandlePrice, TypeOK, Feeds
<1>2. /\ symbol \in Seq(Symbols) /\ Len(symbol) = count["prices"]
      /\ symbol' = Append(symbol, s)
      /\ latest' = [latest EXCEPT ![s] = count["prices"] + 1]
      /\ latest \in [Symbols -> 0..count["prices"]]
  BY <1>1 DEF HandlePrice, TypeOK
<1>3. /\ symbol' \in Seq(Symbols) /\ Len(symbol') = count["prices"] + 1
      /\ symbol'[count["prices"] + 1] = s
      /\ \A k \in 1..count["prices"] : symbol'[k] = symbol[k]
  BY <1>2
<1>4. TypeOK'
  <2>1. latest' \in [Symbols -> 0..count'["prices"]]
    BY <1>1, <1>2
  <2>2. \A f \in Feeds : count'[f] <= MaxMessages[f]
    BY <1>1, StreamingAssumption DEF HandlePrice, TypeOK, Feeds, StreamingAssumption
  <2> QED BY <1>1, <1>2, <1>3, <2>1, <2>2 DEF HandlePrice, TypeOK
<1>5. TodoInv'
  BY <1>1 DEF HandlePrice, TodoInv, Feeds
<1>6. LatestInv'
  BY <1>2, <1>3 DEF LatestInv
<1>7. QueueInv'
  <2>1. ASSUME NEW c \in Clients, NEW k \in DOMAIN chan[c]
        PROVE  /\ chan[c][k] <= count'[FeedOf(c)]
               /\ Coming(c)' => chan[c][k] < count'[FeedOf(c)]
    <3>1. chan[c][k] \in Nat
      BY <2>1 DEF TypeOK
    <3>2. chan[c][k] <= count[FeedOf(c)] /\ (Coming(c) => chan[c][k] < count[FeedOf(c)])
      BY DEF QueueInv
    <3>3. CASE FeedOf(c) = "prices"
      BY <1>1, <3>1, <3>2, <3>3
    <3>4. CASE FeedOf(c) = "alerts"
      BY <1>1, <3>2, <3>4 DEF Coming, HandlePrice
    <3> QED BY <3>3, <3>4, FeedOfClient DEF Feeds
  <2> QED BY <2>1 DEF HandlePrice, QueueInv
<1>8. NoGapAtConnect'
  <2> SUFFICES ASSUME NEW c \in PriceClients, NEW t \in Symbols,
                      phase[c] = "streaming", Wants(c, t), latest'[t] > 0
               PROVE  InSight(c, latest[t])'
    BY DEF NoGapAtConnect, HandlePrice, Wants
  <2>1. CASE t = s
    BY <1>1, <1>2, <2>1 DEF InSight
  <2>2. CASE t # s
    <3>1. latest'[t] = latest[t] /\ latest[t] > 0
      BY <1>2, <2>2
    <3>2. InSight(c, latest[t])
      BY <3>1 DEF NoGapAtConnect
    <3>3. feed["prices"] = "idle" /\ todo["prices"] = {}
      BY DEF HandlePrice, TodoInv, Feeds
    <3> QED BY <3>1, <3>2, <3>3 DEF InSight, HandlePrice
  <2> QED BY <2>1, <2>2
<1> QED BY <1>4, <1>5, <1>6, <1>7, <1>8, Untouched DEF HandlePrice

\* An alert that arrives is behind every message of the alert channels.
LEMMA HandleAlertOK ==
    ASSUME ServerInv, HandleAlert
    PROVE  ServerInv'
<1> USE DEF ServerInv, connVars, hubVars
<1>1. /\ count["alerts"] \in Nat /\ count'["alerts"] = count["alerts"] + 1
      /\ count'["prices"] = count["prices"] /\ count' \in [Feeds -> Nat]
      /\ feed'["alerts"] = "handler" /\ feed'["prices"] = feed["prices"]
  BY DEF HandleAlert, TypeOK, Feeds
<1>2. TypeOK'
  <2>1. \A f \in Feeds : count'[f] <= MaxMessages[f]
    BY <1>1, StreamingAssumption DEF HandleAlert, TypeOK, Feeds, StreamingAssumption
  <2> QED BY <1>1, <2>1 DEF HandleAlert, TypeOK
<1>3. TodoInv'
  BY <1>1 DEF HandleAlert, TodoInv, Feeds
<1>4. QueueInv'
  <2>1. ASSUME NEW c \in Clients, NEW k \in DOMAIN chan[c]
        PROVE  /\ chan[c][k] <= count'[FeedOf(c)]
               /\ Coming(c)' => chan[c][k] < count'[FeedOf(c)]
    <3>1. chan[c][k] \in Nat
      BY <2>1 DEF TypeOK
    <3>2. chan[c][k] <= count[FeedOf(c)] /\ (Coming(c) => chan[c][k] < count[FeedOf(c)])
      BY DEF QueueInv
    <3>3. CASE FeedOf(c) = "alerts"
      BY <1>1, <3>1, <3>2, <3>3
    <3>4. CASE FeedOf(c) = "prices"
      BY <1>1, <3>2, <3>4 DEF Coming, HandleAlert
    <3> QED BY <3>3, <3>4, FeedOfClient DEF Feeds
  <2> QED BY <2>1 DEF HandleAlert, QueueInv
<1>5. NoGapAtConnect'
  BY <1>1 DEF NoGapAtConnect, InSight, HandleAlert, Wants
<1> QED BY <1>2, <1>3, <1>4, <1>5, Untouched DEF HandleAlert

\* The lock is taken: the clients that the message is still to come for are
\* those that the broadcast will try.
LEMMA BeginBroadcastOK ==
    ASSUME ServerInv, NEW f \in Feeds, BeginBroadcast(f)
    PROVE  ServerInv'
<1> USE DEF ServerInv, connVars, hubVars
<1>1. /\ feed[f] = "handler" /\ feed' = [feed EXCEPT ![f] = "broadcast"]
      /\ todo' = [todo EXCEPT ![f] = Audience(f)]
  BY DEF BeginBroadcast
<1>2. \A c \in Audience(f) : c \in clients /\ c \in Clients /\ FeedOf(c) = f
  BY FeedOfClient DEF Audience, Wants, TypeOK, Feeds
<1>3. TypeOK'
  BY <1>1, <1>2 DEF BeginBroadcast, TypeOK
<1>4. TodoInv'
  BY <1>1, <1>2 DEF BeginBroadcast, TodoInv, TypeOK
<1>5. QueueInv'
  <2>1. \A c \in Clients : Coming(c)' => Coming(c)
    BY <1>1, FeedOfClient DEF Coming, TypeOK
  <2> QED BY <2>1 DEF QueueInv, BeginBroadcast
<1>6. NoGapAtConnect'
  <2> SUFFICES ASSUME NEW c \in PriceClients, NEW t \in Symbols,
                      phase[c] = "streaming", Wants(c, t), latest[t] > 0
               PROVE  InSight(c, latest[t])'
    BY DEF NoGapAtConnect, BeginBroadcast, Wants
  <2>1. InSight(c, latest[t])
    BY DEF NoGapAtConnect
  <2>2. CASE f = "alerts"
    BY <1>1, <2>1, <2>2 DEF InSight, BeginBroadcast, TypeOK, Feeds
  <2>3. CASE f = "prices" /\ latest[t] = count["prices"]
    <3>1. c \in clients /\ symbol[count["prices"]] = t
      BY <2>3 DEF HubInv, LatestInv, Clients
    <3>2. c \in todo'["prices"]
      BY <1>1, <2>3, <3>1 DEF Audience, TypeOK
    <3> QED BY <2>3, <3>2 DEF InSight, BeginBroadcast
  <2>4. CASE latest[t] # count["prices"]
    BY <2>1, <2>4 DEF InSight, BeginBroadcast
  <2> QED BY <2>2, <2>3, <2>4 DEF Feeds
<1> QED BY <1>3, <1>4, <1>5, <1>6, Untouched DEF BeginBroadcast

\* What is sent to a channel is behind all that is in it; what finds it full
\* is recorded as skipped.
LEMMA SendOK ==
    ASSUME ServerInv, NEW f \in Feeds, NEW c \in Clients, Send(f, c)
    PROVE  ServerInv'
<1> USE DEF ServerInv, connVars, hubVars
<1>1. /\ feed[f] = "broadcast" /\ c \in todo[f] /\ FeedOf(c) = f /\ c \in clients
      /\ todo' = [todo EXCEPT ![f] = @ \ {c}]
      /\ count[f] \in Nat \ {0} /\ chan[c] \in Seq(Nat \ {0})
      /\ UNCHANGED <<feed, count, symbol, latest, connVars, clients, closed, got, server>>
  BY DEF Send, TodoInv, TypeOK
<1>2. \A k \in DOMAIN chan[c] : chan[c][k] < count[f]
  BY <1>1 DEF QueueInv, Coming
<1>3. TodoInv'
  BY <1>1 DEF TodoInv, TypeOK
<1>4. \A d \in Clients : Coming(d)' <=> Coming(d) /\ d # c
  BY <1>1, FeedOfClient DEF Coming, TypeOK
<1>5. CASE /\ chan' = [chan EXCEPT ![c] = Append(@, count[f])]
           /\ UNCHANGED skipped
  <2>1. /\ chan'[c] = Append(chan[c], count[f]) /\ chan \in [Clients -> Seq(Nat \ {0})]
        /\ \A d \in Clients \ {c} : chan'[d] = chan[d]
    BY <1>5 DEF TypeOK
  <2>2. /\ chan'[c] \in Seq(Nat \ {0})
        /\ DOMAIN chan[c] = 1..Len(chan[c]) /\ Len(chan[c]) \in Nat
        /\ DOMAIN chan'[c] = 1..(Len(chan[c]) + 1)
        /\ \A k \in 1..Len(chan[c]) : chan'[c][k] = chan[c][k]
        /\ chan'[c][Len(chan[c]) + 1] = count[f]
        /\ \A k \in DOMAIN chan'[c] :
              k = Len(chan[c]) + 1 \/ k \in DOMAIN chan[c]
    BY <1>1, <2>1, AppendKeeps
  <2>3. TypeOK'
    <3>1. chan' \in [Clients -> Seq(Nat \ {0})]
      BY <1>5, <2>1, <2>2
    <3>2. todo' \in [Feeds -> SUBSET Clients]
      BY <1>1 DEF TypeOK
    <3> QED BY <1>1, <1>5, <3>1, <3>2 DEF TypeOK
  <2>4. QueueInv'
    <3>1. ASSUME NEW d \in Clients, NEW k \in DOMAIN chan'[d]
          PROVE  /\ chan'[d][k] <= count[FeedOf(d)]
                 /\ Coming(d)' => chan'[d][k] < count[FeedOf(d)]
      <4>1. CASE d = c
        <5>1. FeedOf(d) = f /\ count[f] \in Nat /\ ~Coming(d)'
          BY <1>1, <1>4, <4>1
        <5>2. chan'[d][k] = count[f] \/ chan'[d][k] < count[f]
          BY <1>2, <2>2, <3>1, <4>1
        <5>3. chan'[d][k] \in Nat
          BY <2>2, <3>1, <4>1
        <5> QED BY <5>1, <5>2, <5>3
      <4>2. CASE d # c
        BY <1>4, <2>1, <3>1, <4>2 DEF QueueInv
      <4> QED BY <4>1, <4>2
    <3> QED BY <1>1, <3>1 DEF QueueInv
  <2>5. ChannelInOrder'
    <3>1. ASSUME NEW d \in Clients, NEW i \in DOMAIN chan'[d],
                 NEW j \in DOMAIN chan'[d], i < j
          PROVE  chan'[d][i] < chan'[d][j]
      <4>1. CASE d = c /\ j = Len(chan[c]) + 1
        <5>1. i \in DOMAIN chan[c] /\ chan'[c][i] = chan[c][i]
          BY <2>2, <3>1, <4>1
        <5> QED BY <1>2, <2>2, <4>1, <5>1
      <4>2. CASE d = c /\ j # Len(chan[c]) + 1
        <5>1. i \in DOMAIN chan[c] /\ j \in DOMAIN chan[c]
          <6>1. i \in 1..(Len(chan[c]) + 1) /\ j \in DOMAIN chan[c]
            BY <2>2, <3>1, <4>2
          <6> QED BY <2>2, <3>1, <6>1
        <5> QED BY <2>2, <3>1, <4>2, <5>1 DEF ChannelInOrder
      <4>3. CASE d # c
        BY <2>1, <3>1, <4>3 DEF ChannelInOrder
      <4> QED BY <4>1, <4>2, <4>3
    <3> QED BY <3>1 DEF ChannelInOrder
  <2>6. NoGapAtConnect'
    <3> SUFFICES ASSUME NEW d \in PriceClients, NEW t \in Symbols,
                        phase[d] = "streaming", Wants(d, t), latest[t] > 0
                 PROVE  InSight(d, latest[t])'
      BY <1>1 DEF NoGapAtConnect, Wants
    <3>1. InSight(d, latest[t]) /\ d \in Clients
      BY FeedOfClient DEF NoGapAtConnect
    <3>2. CASE d # c
      BY <1>1, <1>5, <2>1, <3>1, <3>2 DEF InSight, TypeOK
    <3>3. CASE d = c
      <4>1. f = "prices"
        BY <1>1, <3>3, FeedOfClient
      <4>2. CASE latest[t] = count["prices"]
        <5>1. Len(chan[c]) + 1 \in DOMAIN chan'[c]
          BY <2>2
        <5> QED BY <1>1, <2>2, <3>3, <4>1, <4>2, <5>1 DEF InSight
      <4>3. CASE latest[t] \in got[c] \cup skipped[c]
        BY <1>1, <1>5, <3>3, <4>3 DEF InSight
      <4>4. CASE \E k \in DOMAIN chan[c] : chan[c][k] = latest[t]
        <5>1. PICK k \in DOMAIN chan[c] : chan[c][k] = latest[t]
          BY <4>4
        <5>2. k \in DOMAIN chan'[c] /\ chan'[c][k] = latest[t]
          BY <2>2, <5>1
        <5> QED BY <1>1, <3>3, <5>2 DEF InSight
      <4> QED BY <3>1, <3>3, <4>2, <4>3, <4>4 DEF InSight
    <3> QED BY <3>2, <3>3
  <2> QED BY <1>1, <1>3, <2>3, <2>4, <2>5, <2>6, Untouched
<1>6. CASE skipped' = [skipped EXCEPT ![c] = @ \cup {count[f]}] /\ UNCHANGED chan
  <2>1. TypeOK'
    BY <1>1, <1>6 DEF TypeOK
  <2>2. QueueInv'
    BY <1>1, <1>4, <1>6 DEF QueueInv
  <2>3. NoGapAtConnect'
    <3> SUFFICES ASSUME NEW d \in PriceClients, NEW t \in Symbols,
                        phase[d] = "streaming", Wants(d, t), latest[t] > 0
                 PROVE  InSight(d, latest[t])'
      BY <1>1 DEF NoGapAtConnect, Wants
    <3>1. InSight(d, latest[t]) /\ d \in Clients
      BY FeedOfClient DEF NoGapAtConnect
    <3>2. skipped'[d] = IF d = c THEN skipped[d] \cup {count[f]} ELSE skipped[d]
      BY <1>6, <3>1 DEF TypeOK
    <3>3. CASE d # c
      BY <1>1, <1>6, <3>1, <3>2, <3>3 DEF InSight, TypeOK
    <3>4. CASE d = c
      <4>1. f = "prices"
        BY <1>1, <3>4, FeedOfClient
      <4> QED BY <1>1, <1>6, <3>1, <3>2, <3>4, <4>1 DEF InSight
    <3> QED BY <3>3, <3>4
  <2> QED BY <1>1, <1>3, <1>6, <2>1, <2>2, <2>3, Untouched
<1> QED BY <1>5, <1>6 DEF Send

\* A broadcast that has tried all its clients, and a loop that stops.
LEMMA LoopOK ==
    ASSUME ServerInv, NEW f \in Feeds, EndBroadcast(f) \/ StopFeed(f)
    PROVE  ServerInv'
<1> USE DEF ServerInv, connVars, hubVars
<1>1. PICK to \in {"idle", "stopped"} : feed' = [feed EXCEPT ![f] = to]
  BY DEF EndBroadcast, StopFeed
<1>2. /\ feed[f] # "handler" /\ todo[f] = {} /\ feed'[f] = to
      /\ \A g \in Feeds \ {f} : feed'[g] = feed[g]
      /\ UNCHANGED <<count, symbol, todo, latest, connVars, hubVars, server>>
  BY <1>1 DEF EndBroadcast, StopFeed, TodoInv, TypeOK
<1>3. TypeOK'
  BY <1>1, <1>2 DEF TypeOK
<1>4. TodoInv'
  BY <1>2 DEF TodoInv
<1>5. QueueInv'
  <2>1. \A c \in Clients : Coming(c)' => Coming(c)
    BY <1>2, FeedOfClient DEF Coming
  <2> QED BY <1>2, <2>1 DEF QueueInv
<1>6. NoGapAtConnect'
  BY <1>2 DEF NoGapAtConnect, InSight, Wants, Feeds
<1> QED BY <1>2, <1>3, <1>4, <1>5, <1>6, Untouched

\* A connection that is not streaming goes from one phase to another: the
\* limiter and the counter have their say before it registers.
LEMMA AdmissionOK ==
    ASSUME ServerInv, NEW c \in Clients,
           Accept(c) \/ TurnAway(c) \/ Arrive(c) \/ Admit(c) \/ Reject(c)
    PROVE  ServerInv'
<1> USE DEF ServerInv, Step, feedVars, hubVars
<1>1. PICK to \in {"off", "accepted", "counted", "admitted"} :
        /\ phase' = [phase EXCEPT ![c] = to]
        /\ phase[c] \in {"off", "accepted", "counted"}
        /\ UNCHANGED <<feedVars, latest, hubVars>>
        /\ server' = server
  BY DEF Accept, TurnAway, Arrive, Admit, Reject
<1>2. /\ phase'[c] = to /\ \A d \in Clients \ {c} : phase'[d] = phase[d]
      /\ phase' \in [Clients -> {"off", "accepted", "counted"} \cup Connected]
  BY <1>1 DEF TypeOK, Connected
<1>3. SlotInv' /\ active' \in 0..Cardinality(Clients)
  <2>1. CASE Accept(c) \/ TurnAway(c)
    <3>1. PICK t \in {"off", "accepted"} :
            /\ phase' = [phase EXCEPT ![c] = t] /\ phase[c] \in {"off", "accepted"}
            /\ UNCHANGED <<current, active>>
      BY <2>1 DEF Accept, TurnAway
    <3> QED BY <3>1, SlotKept DEF Connected, TypeOK
  <2>2. CASE Arrive(c)
    BY <2>2, SlotGiven DEF Arrive
  <2>3. CASE Admit(c)
    BY <2>3, SlotKept DEF Admit, TypeOK
  <2>4. CASE Reject(c)
    BY <2>4, SlotReturned DEF Reject
  <2> QED BY <2>1, <2>2, <2>3, <2>4
<1>4. TypeOK'
  <2>1. current' \in [Clients -> 0..Cardinality(Clients)]
    <3>1. CASE Arrive(c)
      <4>1. current' = [current EXCEPT ![c] = active']
        BY <3>1 DEF Arrive
      <4> QED BY <1>3, <4>1 DEF TypeOK
    <3>2. CASE Reject(c)
      BY <3>2, ClientsFinite DEF Reject, TypeOK
    <3>3. CASE Accept(c) \/ TurnAway(c) \/ Admit(c)
      BY <3>3 DEF Accept, TurnAway, Admit, TypeOK
    <3> QED BY <3>1, <3>2, <3>3
  <2> QED BY <1>1, <1>2, <1>3, <2>1 DEF TypeOK
<1>5. HubInv'
  BY <1>1, <1>2, FeedOfClient DEF HubInv
<1>6. NoGapAtConnect'
  BY <1>1, <1>2, FeedOfClient, Untouched
<1> QED BY <1>1, <1>3, <1>4, <1>5, <1>6, Untouched

\* A connection registers and stops being registered under the write lock, so
\* that no broadcast is under way.
LEMMA RegistrationOK ==
    ASSUME ServerInv, NEW c \in Clients, Register(c) \/ RemoveClient(c)
    PROVE  ServerInv'
<1> USE DEF ServerInv, Step, feedVars, hubVars
<1>1. PICK to \in {"registered", "streaming", "removed"} :
        /\ phase' = [phase EXCEPT ![c] = to]
        /\ phase[c] \in {"admitted", "leaving"}
        /\ UNCHANGED <<feedVars, latest, current, active, chan, got, skipped, server>>
        /\ Unlocked
        /\ to = "removed" \/ to = IF c \in PriceClients THEN "registered" ELSE "streaming"
        /\ clients' = IF to = "removed" THEN clients \ {c} ELSE clients \cup {c}
        /\ closed' = IF to = "removed" THEN closed \cup {c} ELSE closed
  BY DEF Register, RemoveClient
<1>2. /\ phase'[c] = to /\ \A d \in Clients \ {c} : phase'[d] = phase[d]
      /\ phase' \in [Clients -> {"off", "accepted", "counted"} \cup Connected]
  BY <1>1 DEF TypeOK, Connected
<1>3. SlotInv'
  <2>1. current[c] <= MaxSSEClients
    BY <1>1 DEF SlotInv, Connected
  <2> QED BY <1>1, <2>1, SlotKept
<1>4. TypeOK'
  BY <1>1, <1>2 DEF TypeOK
<1>5. HubInv'
  BY <1>1, <1>2, FeedOfClient, StreamingAssumption DEF HubInv, StreamingAssumption
<1>6. TodoInv'
  BY <1>1 DEF TodoInv, Unlocked
<1>7. NoGapAtConnect'
  BY <1>1, <1>2, FeedOfClient, Untouched
<1> QED BY <1>1, <1>3, <1>4, <1>5, <1>6, <1>7, Untouched

\* The snapshot writes the newest price of each of the client's symbols.
LEMMA SnapshotOK ==
    ASSUME ServerInv, NEW c \in Clients, Snapshot(c)
    PROVE  ServerInv'
<1> USE DEF ServerInv, Step, feedVars, connVars, hubVars
<1>1. /\ phase' = [phase EXCEPT ![c] = "streaming"] /\ phase[c] = "registered"
      /\ UNCHANGED <<feedVars, latest, current, active, clients, chan, closed,
                     skipped, server>>
      /\ got' = [got EXCEPT ![c] = @ \cup {latest[s] : s \in {t \in Symbols :
                                            Wants(c, t) /\ latest[t] > 0}}]
  BY DEF Snapshot
<1>2. /\ phase'[c] = "streaming" /\ \A d \in Clients \ {c} : phase'[d] = phase[d]
      /\ phase' \in [Clients -> {"off", "accepted", "counted"} \cup Connected]
      /\ \A d \in Clients \ {c} : got'[d] = got[d]
      /\ \A s \in Symbols : Wants(c, s) /\ latest[s] > 0 => latest[s] \in got'[c]
  BY <1>1 DEF TypeOK, Connected
<1>3. SlotInv'
  <2>1. current[c] <= MaxSSEClients
    BY <1>1 DEF SlotInv, Connected
  <2> QED BY <1>1, <2>1, SlotKept
<1>4. TypeOK'
  <2>1. {latest[s] : s \in {t \in Symbols : Wants(c, t) /\ latest[t] > 0}} \subseteq Nat
    BY DEF TypeOK, Feeds
  <2>2. got' \in [Clients -> SUBSET Nat]
    BY <1>1, <2>1 DEF TypeOK
  <2> QED BY <1>1, <1>2, <2>2 DEF TypeOK
<1>5. HubInv'
  BY <1>1, <1>2, FeedOfClient DEF HubInv
<1>6. NoGapAtConnect'
  <2> SUFFICES ASSUME NEW d \in PriceClients, NEW t \in Symbols,
                      phase'[d] = "streaming", Wants(d, t), latest[t] > 0
               PROVE  InSight(d, latest[t])'
    BY <1>1 DEF NoGapAtConnect, Wants
  <2>1. CASE d = c
    BY <1>1, <1>2, <2>1 DEF InSight
  <2>2. CASE d # c
    BY <1>1, <1>2, <2>2, FeedOfClient DEF NoGapAtConnect, InSight
  <2> QED BY <2>1, <2>2
<1> QED BY <1>1, <1>3, <1>4, <1>5, <1>6, Untouched

\* What a client is written was at the front of its channel.
LEMMA DeliverOK ==
    ASSUME ServerInv, NEW c \in Clients, Deliver(c)
    PROVE  ServerInv'
<1> USE DEF ServerInv, feedVars, connVars, hubVars
<1>1. /\ chan[c] # <<>> /\ chan[c] \in Seq(Nat \ {0})
      /\ chan \in [Clients -> Seq(Nat \ {0})] /\ got \in [Clients -> SUBSET Nat]
      /\ got' = [got EXCEPT ![c] = @ \cup {Head(chan[c])}]
      /\ chan' = [chan EXCEPT ![c] = Tail(@)]
      /\ UNCHANGED <<feedVars, latest, connVars, clients, closed, skipped, server>>
  BY DEF Deliver, TypeOK
<1>2. /\ chan'[c] \in Seq(Nat \ {0}) /\ Head(chan[c]) \in Nat \ {0}
      /\ DOMAIN chan[c] = 1..Len(chan[c]) /\ Len(chan[c]) \in Nat
      /\ Len(chan[c]) > 0
      /\ DOMAIN chan'[c] = 1..(Len(chan[c]) - 1)
      /\ \A k \in 1..(Len(chan[c]) - 1) : chan'[c][k] = chan[c][k + 1]
      /\ Head(chan[c]) = chan[c][1]
  BY <1>1, TailKeeps
<1>3. \A d \in Clients \ {c} : chan'[d] = chan[d] /\ got'[d] = got[d]
  BY <1>1
<1>4. \A k \in DOMAIN chan'[c] :
        k \in Nat /\ k + 1 \in DOMAIN chan[c] /\ chan'[c][k] = chan[c][k + 1]
  BY <1>2
<1>5. TypeOK'
  <2>1. chan' \in [Clients -> Seq(Nat \ {0})] /\ got' \in [Clients -> SUBSET Nat]
    BY <1>1, <1>2
  <2> QED BY <1>1, <2>1 DEF TypeOK
<1>6. QueueInv'
  <2>1. ASSUME NEW d \in Clients, NEW k \in DOMAIN chan'[d]
        PROVE  /\ chan'[d][k] <= count[FeedOf(d)]
               /\ Coming(d) => chan'[d][k] < count[FeedOf(d)]
    <3>1. CASE d = c
      BY <1>4, <2>1, <3>1 DEF QueueInv
    <3>2. CASE d # c
      BY <1>3, <2>1, <3>2 DEF QueueInv
    <3> QED BY <3>1, <3>2
  <2> QED BY <1>1, <2>1 DEF QueueInv, Coming
<1>7. ChannelInOrder'
  <2>1. ASSUME NEW d \in Clients, NEW i \in DOMAIN chan'[d],
               NEW j \in DOMAIN chan'[d], i < j
        PROVE  chan'[d][i] < chan'[d][j]
    <3>1. CASE d = c
      <4>1. i + 1 \in DOMAIN chan[c] /\ j + 1 \in DOMAIN chan[c] /\ i + 1 < j + 1
        BY <1>4, <2>1, <3>1
      <4> QED BY <1>4, <2>1, <3>1, <4>1 DEF ChannelInOrder
    <3>2. CASE d # c
      BY <1>3, <2>1, <3>2 DEF ChannelInOrder
    <3> QED BY <3>1, <3>2
  <2> QED BY <2>1 DEF ChannelInOrder
<1>8. NoGapAtConnect'
  <2> SUFFICES ASSUME NEW d \in PriceClients, NEW t \in Symbols,
                      phase[d] = "streaming", Wants(d, t), latest[t] > 0
               PROVE  InSight(d, latest[t])'
    BY <1>1 DEF NoGapAtConnect, Wants
  <2>1. InSight(d, latest[t]) /\ d \in Clients
    BY FeedOfClient DEF NoGapAtConnect
  <2>2. CASE d # c
    BY <1>1, <1>3, <2>1, <2>2 DEF InSight
  <2>3. CASE d = c
    <3>1. CASE \E k \in DOMAIN chan[c] : chan[c][k] = latest[t]
      <4>1. PICK k \in DOMAIN chan[c] : chan[c][k] = latest[t]
        BY <3>1
      <4>2. CASE k = 1
        BY <1>1, <1>2, <2>3, <4>1, <4>2 DEF InSight
      <4>3. CASE k # 1
        <5>1. k - 1 \in DOMAIN chan'[c] /\ chan'[c][k - 1] = latest[t]
          BY <1>2, <4>1, <4>3
        <5> QED BY <1>1, <2>3, <5>1 DEF InSight
      <4> QED BY <4>2, <4>3
    <3>2. CASE ~\E k \in DOMAIN chan[c] : chan[c][k] = latest[t]
      BY <1>1, <2>1, <2>3, <3>2 DEF InSight
    <3> QED BY <3>1, <3>2
  <2> QED BY <2>2, <2>3
<1> QED BY <1>1, <1>5, <1>6, <1>7, <1>8, Untouched

\* A stream whose context is done stays registered until its goroutine removes
\* it; then its slot is free and its channel gone.
LEMMA LeavingOK ==
    ASSUME ServerInv, NEW c \in Clients, Disconnect(c) \/ Release(c)
    PROVE  ServerInv'
<1> USE DEF ServerInv, Step, feedVars, hubVars
<1>1. CASE Disconnect(c)
  <2>1. /\ phase' = [phase EXCEPT ![c] = "leaving"] /\ phase[c] = "streaming"
        /\ UNCHANGED <<feedVars, latest, current, active, hubVars, server>>
    BY <1>1 DEF Disconnect
  <2>2. /\ phase'[c] = "leaving" /\ \A d \in Clients \ {c} : phase'[d] = phase[d]
        /\ phase' \in [Clients -> {"off", "accepted", "counted"} \cup Connected]
    BY <2>1 DEF TypeOK, Connected
  <2>3. SlotInv'
    <3>1. current[c] <= MaxSSEClients
      BY <2>1 DEF SlotInv, Connected
    <3> QED BY <2>1, <3>1, SlotKept
  <2>4. TypeOK'
    BY <2>1, <2>2 DEF TypeOK
  <2>5. HubInv'
    BY <2>1, <2>2, FeedOfClient DEF HubInv
  <2>6. NoGapAtConnect'
    BY <2>1, <2>2, FeedOfClient, Untouched
  <2> QED BY <2>1, <2>3, <2>4, <2>5, <2>6, Untouched
<1>2. CASE Release(c)
  <2>1. /\ phase' = [phase EXCEPT ![c] = "off"] /\ phase[c] = "removed"
        /\ active' = active - 1
        /\ current' = [current EXCEPT ![c] = 0]
        /\ chan' = [chan EXCEPT ![c] = <<>>]
        /\ closed' = closed \ {c}
        /\ got' = [got EXCEPT ![c] = {}]
        /\ skipped' = [skipped EXCEPT ![c] = {}]
        /\ UNCHANGED <<feedVars, latest, clients, server>>
    BY <1>2 DEF Release
  <2>2. /\ phase'[c] = "off"
        /\ phase' \in [Clients -> {"off", "accepted", "counted"} \cup Connected]
        /\ chan'[c] = <<>>
        /\ \A d \in Clients \ {c} : /\ phase'[d] = phase[d] /\ chan'[d] = chan[d]
                                    /\ got'[d] = got[d] /\ skipped'[d] = skipped[d]
    BY <2>1 DEF TypeOK
  <2>3. SlotInv' /\ active' \in 0..Cardinality(Clients)
    BY <2>1, SlotReturned
  <2>4. TypeOK'
    BY <2>1, <2>2, <2>3, ClientsFinite DEF TypeOK
  <2>5. HubInv'
    BY <2>1, <2>2, FeedOfClient DEF HubInv
  <2>6. TodoInv'
    BY <2>1 DEF TodoInv
  <2>7. QueueInv' /\ ChannelInOrder'
    BY <2>1, <2>2 DEF QueueInv, Coming, ChannelInOrder
  <2>8. NoGapAtConnect'
    BY <2>1, <2>2, FeedOfClient DEF NoGapAtConnect, InSight, Wants
  <2> QED BY <2>1, <2>3, <2>4, <2>5, <2>6, <2>7, <2>8, Untouched
<1> QED BY <1>1, <1>2

\* Every step of the loops, the goroutines and main keeps the invariant.
LEMMA NextOK == ServerInv /\ [Next]_vars => ServerInv'
<1> SUFFICES ASSUME ServerInv, [Next]_vars PROVE ServerInv'
  OBVIOUS
<1>1. ASSUME NEW s \in Symbols, HandlePrice(s) PROVE ServerInv'
  BY <1>1, HandlePriceOK
<1>2. CASE HandleAlert
  BY <1>2, HandleAlertOK
<1>3. ASSUME NEW f \in Feeds, Feeding(f) PROVE ServerInv'
  BY <1>3, BeginBroadcastOK, SendOK, LoopOK DEF Feeding
<1>4. ASSUME NEW c \in Clients, Accept(c) \/ Disconnect(c) \/ Serving(c)
      PROVE  ServerInv'
  BY <1>4, AdmissionOK, RegistrationOK, SnapshotOK, DeliverOK, LeavingOK DEF Serving
<1>5. CASE Signal \/ Exit
  <2>1. UNCHANGED <<feedVars, latest, connVars, hubVars>>
        /\ server' \in {"up", "draining", "exited"}
    BY <1>5 DEF Signal, Exit
  <2>2. TypeOK'
    BY <2>1 DEF ServerInv, TypeOK, feedVars, connVars, hubVars
  <2> QED
    BY <2>1, <2>2, Untouched DEF ServerInv, feedVars, connVars, hubVars
<1>6. CASE UNCHANGED vars
  <2>1. TypeOK'
    BY <1>6 DEF ServerInv, TypeOK, vars, feedVars, connVars, hubVars
  <2> QED
    BY <1>6, <2>1, Untouched DEF ServerInv, vars, feedVars, connVars, hubVars
<1> QED BY <1>1, <1>2, <1>3, <1>4, <1>5, <1>6 DEF Next

----------------------------------------------------------------------------
(* The properties. *)

\* The invariant holds whatever the loops, the clients and the operator do.
THEOREM ServerInvariant == SafetySpec => []ServerInv
<1>1. Init => ServerInv
  BY InitOK
<1>2. ServerInv /\ [Next]_vars => ServerInv'
  BY NextOK
<1> QED BY <1>1, <1>2, PTL DEF SafetySpec

\* The variables keep their types; in particular the counter stays between 0
\* and the number of connections, and latest never is ahead of the topic.
THEOREM TypeCorrect == SafetySpec => []TypeOK
<1>1. ServerInv => TypeOK
  BY DEF ServerInv
<1> QED BY <1>1, ServerInvariant, PTL

\* broadcast and broadcastAlert never send on a channel that removeClient has
\* closed, however many clients come and go while a broadcast is under way.
THEOREM NeverSendsOnClosed == SafetySpec => []NoSendOnClosedChannel
<1>1. ServerInv => NoSendOnClosedChannel
  BY DEF ServerInv, TodoInv, HubInv, NoSendOnClosedChannel
<1> QED BY <1>1, ServerInvariant, PTL

\* MaxSSEClients admits no more streams than it may, and counts what it has to.
THEOREM SlotsExact == SafetySpec => []SlotsAreExact
<1>1. ServerInv => SlotsAreExact
  <2> SUFFICES ASSUME ServerInv PROVE SlotsAreExact
    OBVIOUS
  <2> DEFINE Open == {c \in Clients : phase[c] \in Connected}
  <2>1. MaxSSEClients \in Nat
    BY StreamingAssumption DEF StreamingAssumption
  <2>2. Open \subseteq NumberedUpTo(MaxSSEClients)
    BY DEF ServerInv, SlotInv, NumberedUpTo, Counted, Connected
  <2>3. NumberedUpTo(MaxSSEClients) \subseteq Clients
    BY DEF NumberedUpTo, Counted
  <2>4. Cardinality(NumberedUpTo(MaxSSEClients)) <= MaxSSEClients
    BY <2>1 DEF ServerInv, SlotInv
  <2>5. Cardinality(Open) <= Cardinality(NumberedUpTo(MaxSSEClients))
    BY <2>2, <2>3, ClientsFinite, FS_Subset
  <2>6. Cardinality(Open) \in Nat /\ Cardinality(NumberedUpTo(MaxSSEClients)) \in Nat
    BY <2>2, <2>3, ClientsFinite
  <2>7. Cardinality(Open) <= MaxSSEClients
    BY <2>1, <2>4, <2>5, <2>6
  <2> QED BY <2>7 DEF ServerInv, SlotInv, Counted, SlotsAreExact
<1> QED BY <1>1, ServerInvariant, PTL

\* No price falls between a client's registration and its snapshot.
THEOREM NoGap == SafetySpec => []NoGapAtConnect
<1>1. ServerInv => NoGapAtConnect
  BY DEF ServerInv
<1> QED BY <1>1, ServerInvariant, PTL

\* A client's channel holds messages in the order of their topic, each once.
THEOREM InOrder == SafetySpec => []ChannelInOrder
<1>1. ServerInv => ChannelInOrder
  BY DEF ServerInv
<1> QED BY <1>1, ServerInvariant, PTL
=============================================================================
