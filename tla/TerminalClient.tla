--------------------------- MODULE TerminalClient ---------------------------
(***************************************************************************)
(* The screens of crypto-stream (cli/crypto-stream/ui): the table of       *)
(* prices, the view of one price (watch), the alerts and the history of a  *)
(* price.  Each is a Bubble Tea program: Update handles one message at a   *)
(* time and returns commands, which run as goroutines and end by sending   *)
(* one message.                                                            *)
(*                                                                         *)
(* flight is the bag of these: commands that run and messages that wait.   *)
(* connectSSE ends with the first message of its stream and does not close *)
(* the response, so that the stream keeps its slot of MaxSSEClients until  *)
(* the server ends it or the client's process is gone.  The server is      *)
(* reduced to its slots and its latest prices; a refusal (503, or 429 of   *)
(* the rate limiter) is a response without data lines, which reads as a    *)
(* stream that has closed.  Of the rows that GET /history answers, the     *)
(* newest counts, and rows are numbered as they are stored.                *)
(***************************************************************************)
EXTENDS Integers, Bags, FiniteSets

CONSTANTS
    Screens,      \* the screens to start with
    Symbols,      \* the symbols that the server has prices and alerts of
    Asked,        \* those each screen asks for: one for watch, all for alerts
    Slots,        \* what the other clients leave of MAX_SSE_CLIENTS
    MaxMessages,  \* bound: prices or alerts of a symbol that are broadcast
    MaxRows,      \* bound: rows that are stored for the history
    MaxRefreshes, \* bound: how often the user presses r
    MaxStops      \* bound: how often the server stops

ASSUME ClientAssumption ==
    /\ Screens \subseteq {"prices", "watch", "alerts", "history"}
    /\ Asked \in [Screens -> SUBSET Symbols]
    /\ Slots \in Nat
    /\ MaxMessages \in Nat /\ MaxRows \in Nat /\ MaxRefreshes \in Nat
    /\ MaxStops \in Nat

VARIABLES
    screen,     \* the one that runs, "none" after the user has quit
    connected,  \* m.connected
    shown,      \* m.prices, m.price or m.alerts: the message shown last, by symbol
    row,        \* m.prices of the history: the newest row shown, 0 for none
    refreshes,  \* how often r was pressed
    raced,      \* history: it was pressed while an answer was on its way
    flight,     \* commands and messages
    open,       \* the slots that the client's streams take
    count,      \* the message of each symbol that the server broadcast last
    latest,     \* the server's latest price of each symbol, 0 for none
    stored,     \* the newest row in the database
    up, stops   \* the server runs; how often it has stopped

historyVars == <<row, refreshes, raced>>
clientVars == <<screen, connected, shown, historyVars>>
serverVars == <<count, latest, stored, up, stops>>
vars == <<clientVars, flight, open, serverVars>>

\* connectSSE before and after http.Get, the ticks of 100 ms and 3 s, and
\* fetchHistory.
Dial == [is |-> "dial"]
Read == [is |-> "read"]
Tick == [is |-> "tick"]
Fetch == [is |-> "fetch"]

\* What arrives at Update.
Error == [is |-> "error"]
Price(s, n) == [is |-> "price", symbol |-> s, number |-> n]
Rows(n) == [is |-> "rows", number |-> n]

InFlight(c) == BagIn(c, flight)
Become(c, d) == InFlight(c) /\ flight' = (flight (-) SetToBag({c})) (+) d

Numbers == 0..MaxMessages
None == [s \in Symbols |-> 0]

Init ==
    /\ screen \in Screens
    /\ connected = FALSE
    /\ shown = None
    /\ row = 0 /\ refreshes = 0 /\ raced = FALSE /\ stored = 0
    /\ flight = SetToBag(CASE screen = "prices" -> {Dial, Tick}
                           [] screen = "history" -> {Fetch}
                           [] OTHER -> {Dial})
    /\ open = 0
    /\ count = None /\ latest = None
    /\ up = TRUE /\ stops = 0

----------------------------------------------------------------------------
(* connectSSE and the server. *)

\* http.Get fails, or the response has no data.
DialFails ==
    /\ Become(Dial, SetToBag({Error}))
    /\ UNCHANGED <<clientVars, open, serverVars>>

\* What the stream begins with.
Snapshot ==
    IF screen = "alerts" THEN {}
    ELSE {Price(s, latest[s]) : s \in {t \in Asked[screen] : latest[t] > 0}}

\* Variant: the server counts no slots.
DialAlwaysSucceeds ==
    /\ up
    /\ InFlight(Dial)
    /\ \E c \in IF Snapshot = {} THEN {Read} ELSE Snapshot :
          Become(Dial, SetToBag({c}))
    /\ open' = open + 1
    /\ UNCHANGED <<clientVars, serverVars>>

\* The stream begins with the latest prices, and the first of them is
\* returned; or there is nothing to begin with.
DialSucceeds ==
    /\ up /\ open < Slots
    /\ InFlight(Dial)
    /\ \E c \in IF Snapshot = {} THEN {Read} ELSE Snapshot :
          Become(Dial, SetToBag({c}))
    /\ open' = open + 1
    /\ UNCHANGED <<clientVars, serverVars>>

\* The server ends a stream that is read, or one that no one reads any more.
StreamEnds ==
    /\ open > 0
    /\ open' = open - 1
    /\ \/ Become(Read, SetToBag({Error}))
       \/ (InFlight(Read) => open > flight[Read]) /\ UNCHANGED flight
    /\ UNCHANGED <<clientVars, serverVars>>

\* All that read turn into c.
ReadersGet(c) ==
    IF InFlight(Read)
    THEN flight' = (flight (-) [d \in {Read} |-> flight[Read]])
                       (+) [d \in {c} |-> flight[Read]]
    ELSE UNCHANGED flight

\* A price or an alert is broadcast.
Broadcast(s) ==
    /\ up /\ count[s] < MaxMessages
    /\ count' = [count EXCEPT ![s] = @ + 1]
    /\ latest' = [latest EXCEPT ![s] = count'[s]]
    /\ IF screen # "none" /\ s \in Asked[screen]
       THEN ReadersGet(Price(s, count'[s]))
       ELSE UNCHANGED flight
    /\ UNCHANGED <<clientVars, open, stored, up, stops>>

\* The server stops; it starts again without prices, and messages whose offsets
\* were not committed yet are broadcast again.
ServerStops ==
    /\ up /\ stops < MaxStops
    /\ up' = FALSE /\ stops' = stops + 1
    /\ open' = 0
    /\ latest' = None
    /\ count' \in {c \in [Symbols -> Numbers] : \A s \in Symbols : c[s] <= count[s]}
    /\ ReadersGet(Error)
    /\ UNCHANGED <<clientVars, stored>>

ServerStarts ==
    /\ ~up
    /\ up' = TRUE
    /\ UNCHANGED <<clientVars, flight, open, count, latest, stored, stops>>

----------------------------------------------------------------------------
(* fetchHistory and handleHistory. *)

\* The database writer stores a row; nobody else reads it.
Store ==
    /\ screen = "history" /\ stored < MaxRows
    /\ stored' = stored + 1
    /\ UNCHANGED <<clientVars, flight, open, count, latest, up, stops>>

\* The query answers with the newest rows.
FetchSucceeds ==
    /\ up
    /\ Become(Fetch, SetToBag({Rows(stored)}))
    /\ UNCHANGED <<clientVars, open, serverVars>>

\* No connection, no database, a failing query, 429, or ten seconds.
FetchFails ==
    /\ Become(Fetch, SetToBag({Error}))
    /\ UNCHANGED <<clientVars, open, serverVars>>

ShowRows(n) ==
    /\ Become(Rows(n), EmptyBag)
    /\ row' = n
    /\ UNCHANGED <<screen, connected, shown, refreshes, raced, open, serverVars>>

\* The user presses r, whatever is on its way.
Refresh ==
    /\ screen = "history" /\ refreshes < MaxRefreshes
    /\ refreshes' = refreshes + 1
    /\ raced' = (raced \/ flight # EmptyBag)
    /\ flight' = flight (+) SetToBag({Fetch})
    /\ UNCHANGED <<screen, connected, shown, row, open, serverVars>>

----------------------------------------------------------------------------
(* Update. *)

\* A price or an alert is shown; but for the table, connect again.
Show(s, n) ==
    /\ Become(Price(s, n), IF screen = "prices" THEN EmptyBag ELSE SetToBag({Dial}))
    /\ shown' = [shown EXCEPT ![s] = n]
    /\ connected' = TRUE
    /\ UNCHANGED <<screen, historyVars, open, serverVars>>

\* Variant: connects at once and once more after the tick.
ShowErrorTwice ==
    /\ Become(Error, SetToBag({Dial, Tick}))
    /\ connected' = FALSE
    /\ UNCHANGED <<screen, shown, historyVars, open, serverVars>>

\* Variant: does not try again.
ShowErrorOnly ==
    /\ Become(Error, EmptyBag)
    /\ connected' = FALSE
    /\ UNCHANGED <<screen, shown, historyVars, open, serverVars>>

\* Connect again later; the history waits for the user.
ShowError ==
    /\ Become(Error, IF screen = "history" THEN EmptyBag ELSE SetToBag({Tick}))
    /\ connected' = FALSE
    /\ UNCHANGED <<screen, shown, historyVars, open, serverVars>>

\* Connect; a table that is connected only ticks on.
HandleTick ==
    /\ Become(Tick, SetToBag({IF screen = "prices" /\ connected THEN Tick ELSE Dial}))
    /\ UNCHANGED <<clientVars, open, serverVars>>

\* The user quits: the process ends, and its connections with it.
Quit ==
    /\ screen # "none"
    /\ screen' = "none"
    /\ flight' = EmptyBag
    /\ open' = 0
    /\ UNCHANGED <<connected, shown, historyVars, serverVars>>

Connect == DialFails \/ DialSucceeds
Update ==
    \/ \E s \in Symbols, n \in 1..MaxMessages : Show(s, n)
    \/ ShowError \/ HandleTick
    \/ \E n \in 0..MaxRows : ShowRows(n)

Next ==
    \/ Connect
    \/ Update
    \/ \E s \in Symbols : Broadcast(s)
    \/ StreamEnds \/ ServerStops \/ ServerStarts
    \/ Store \/ FetchSucceeds \/ FetchFails \/ Refresh
    \/ Quit

\* Goroutines run, ticks come, each message gets its turn, and a server that
\* has stopped is started again.  Not every request to a server with a free slot
\* fails: a client waits 3 s after a failure, in which the rate limiter grants
\* it more requests.  Nothing is assumed of prices, streams or the user.
Fairness ==
    /\ WF_vars(Connect) /\ SF_vars(DialSucceeds)
    /\ \A s \in Symbols, n \in 1..MaxMessages : WF_vars(Show(s, n))
    /\ WF_vars(ShowError) /\ WF_vars(HandleTick)
    /\ WF_vars(ServerStarts)

Spec == Init /\ [][Next]_vars /\ Fairness

----------------------------------------------------------------------------
(* Properties. *)

TypeOK ==
    /\ screen \in Screens \cup {"none"}
    /\ connected \in BOOLEAN
    /\ shown \in [Symbols -> Numbers]
    /\ row \in 0..stored /\ stored \in 0..MaxRows /\ refreshes \in 0..MaxRefreshes
    /\ raced \in BOOLEAN
    /\ IsABag(flight)
    /\ BagToSet(flight) \subseteq
          {Dial, Read, Tick, Fetch, Error} \cup {Rows(n) : n \in 0..stored}
              \cup {Price(s, n) : s \in Symbols, n \in Numbers}
    /\ open \in 0..Slots
    /\ count \in [Symbols -> Numbers]
    /\ latest \in [Symbols -> Numbers]
    /\ up \in BOOLEAN /\ stops \in 0..MaxStops

\* What is in a bag, the copies apart.
Threads(bag) == UNION {{c} \X (1..bag[c]) : c \in DOMAIN bag}

\* However often connecting fails, commands neither multiply nor run out: watch
\* and alerts have one that runs or one message that waits, and the table, which
\* begins with two, never has more; the history has one for each refresh.
OneThread ==
    LET threads == Cardinality(Threads(flight))
    IN  /\ screen \in {"watch", "alerts"} => threads = 1
        /\ screen = "prices" => threads <= 2
        /\ screen = "history" => threads <= 1 + refreshes

\* Over its reconnections the view of one price never goes back to an older one,
\* as long as the server does not stop and begin with offsets it has had; nor
\* does the history, unless r was pressed while an answer was on its way.
ScreenNeverGoesBack ==
    [][/\ screen = "watch" /\ stops = 0 => \A s \in Symbols : shown'[s] >= shown[s]
       /\ screen = "history" /\ ~raced => row' >= row]_vars

\* As long as there is a price and a free slot on a server that stays up, the
\* table and the view of one price come to show something.
FirstPriceArrives ==
    screen \in {"prices", "watch"} /\ Snapshot # {}
        ~> shown # None \/ ~up \/ open >= Slots \/ screen = "none"

\* A price of a symbol in the table is shown, unless a newer one arrives, the
\* server stops, or the user quits.
TableFollows ==
    \A s \in Symbols, n \in 1..MaxMessages :
        screen = "prices" /\ latest[s] = n
            ~> shown[s] = n \/ latest[s] # n \/ screen = "none"

=============================================================================
