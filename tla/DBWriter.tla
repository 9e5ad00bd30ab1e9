------------------------------ MODULE DBWriter ------------------------------
(***************************************************************************)
(* services/db-writer: the consume loop of KafkaConsumer whose handler     *)
(* puts each aggregated price into an in-memory batch, and the two         *)
(* goroutines that write the batch to Postgres, the handler itself when    *)
(* the batch is full and a ticker.  A mutex guards the batch and is held   *)
(* over the whole transaction.                                             *)
(*                                                                         *)
(* Postgres is modelled from how the code uses it: a transaction takes     *)
(* effect as a whole or not at all (a failed INSERT aborts it, and Commit  *)
(* then returns an error), an error may hide a commit that did take        *)
(* effect, and a transaction of a cancelled context fails.                 *)
(***************************************************************************)
EXTENDS Integers, Sequences, FiniteSets

CONSTANTS
    Ids, Poison, MaxRetries, MaxFaults, RepublishAccepted, MaxCrashes,
    MaxShutdowns,   \* of the consume loop
    RowKey,         \* the (symbol, timestamp) of a message's row
    BatchSize,      \* how many rows make the handler write the batch (100)
    MaxDbFaults     \* bound: how many transactions the database fails

ASSUME DBWriterAssumption ==
    /\ Poison \subseteq Ids
    /\ MaxRetries \in Nat /\ RepublishAccepted \in BOOLEAN
    /\ MaxFaults \in Nat /\ MaxCrashes \in Nat /\ MaxShutdowns \in Nat
    /\ BatchSize \in Nat \ {0}
    /\ MaxDbFaults \in Nat
    /\ Ids \subseteq DOMAIN RowKey

VARIABLES
    log, committed, pc, pos, stash, cancelled, base,
    handled, retried, dead, dropped,
    faults, crashes, shutdowns

Reader == INSTANCE KafkaConsumer

VARIABLES
    batch,     \* w.batch
    mu,        \* w.mu: "free", or the goroutine that has a transaction open
    applied,   \* the open transaction has taken effect in the database
    ticker,    \* the ticker goroutine is running
    table,     \* prices: how many rows of each key are in it
    dbFaults,
    accepted   \* history: what the handler accepted in this process's life

loopVars == <<log, committed, pc, pos, stash, cancelled, base,
              handled, retried, dead, dropped, faults, crashes, shutdowns>>
batchVars == <<batch, mu, applied>>
writerVars == <<batchVars, ticker, table, dbFaults, accepted>>
vars == <<loopVars, writerVars>>

Keys == {RowKey[i] : i \in Ids}
InBatch(i) == \E n \in DOMAIN batch : batch[n] = i
Stored(i) == table[RowKey[i]] > 0

Init ==
    /\ Reader!Init
    /\ batch = <<>> /\ mu = "free" /\ applied = FALSE
    /\ ticker = FALSE
    /\ table = [k \in Keys |-> 0]
    /\ dbFaults = 0
    /\ accepted = {}

----------------------------------------------------------------------------
(* The consume loop and the process around the batch. *)

Environment ==
    /\ (\E i \in Ids : Reader!Produce(i)) \/ Reader!Cancel
    /\ UNCHANGED writerVars

FlushCommits == Reader!FlushCommits /\ UNCHANGED writerVars

Fetch == Reader!Fetch /\ UNCHANGED writerVars

\* The steps of the loop that leave the batch alone.  The handler of this
\* service fails on messages it cannot decode only.
LoopStep ==
    /\ \/ Reader!BeginFetch \/ Reader!FetchError
       \/ Reader!HandlerErr /\ log[pos].id \in Poison /\ UNCHANGED faults
       \/ Reader!HandleFailure
       \/ Reader!SendToDLQ \/ Reader!SendToDLQFails
       \/ Reader!Commit \/ Reader!CommitError
    /\ UNCHANGED writerVars

Start ==
    /\ Reader!Start
    /\ ticker' = TRUE
    /\ UNCHANGED <<batchVars, table, dbFaults, accepted>>

\* The process ends: main waits for nobody, so the batch is gone and an open
\* transaction has either taken effect or not.
ProcessEnds ==
    /\ batch' = <<>> /\ mu' = "free" /\ applied' = FALSE
    /\ ticker' = FALSE
    /\ accepted' = {}
    /\ UNCHANGED <<table, dbFaults>>

Crash == Reader!Crash /\ ProcessEnds
Exit == (Reader!ExitClosing \/ Reader!ExitFetching) /\ ProcessEnds

----------------------------------------------------------------------------
(* The handler: addToBatch. *)

Added == Append(batch, log[pos].id)

\* Variant: the batch is written when it has more than BatchSize rows.
AddReturnsLate ==
    /\ pc = "handler" /\ mu = "free"
    /\ Len(Added) <= BatchSize
    /\ Reader!HandlerOk
    /\ batch' = Added
    /\ accepted' = accepted \cup {log[pos].id}
    /\ UNCHANGED <<mu, applied, ticker, table, dbFaults>>

\* The batch is not full: the handler returns.
AddReturns ==
    /\ pc = "handler" /\ mu = "free"
    /\ Len(Added) < BatchSize
    /\ Reader!HandlerOk
    /\ batch' = Added
    /\ accepted' = accepted \cup {log[pos].id}
    /\ UNCHANGED <<mu, applied, ticker, table, dbFaults>>

\* The batch is full: the handler writes it before it returns.
AddFlushes ==
    /\ pc = "handler" /\ mu = "free"
    /\ log[pos].id \notin Poison
    /\ Len(Added) >= BatchSize
    /\ batch' = Added
    /\ mu' = "consumer"
    /\ UNCHANGED <<loopVars, applied, ticker, table, dbFaults, accepted>>

----------------------------------------------------------------------------
(* The ticker, and flushLocked. *)

\* The ticker starts a transaction, if there is something to write.
TickerFlush ==
    /\ ticker /\ ~cancelled
    /\ mu = "free" /\ batch # <<>>
    /\ mu' = "ticker"
    /\ UNCHANGED <<loopVars, batch, applied, ticker, table, dbFaults, accepted>>

\* After a shutdown signal the ticker flushes once more, with the cancelled
\* context: BeginTx fails, and the goroutine ends.
TickerEnds ==
    /\ ticker /\ cancelled
    /\ mu = "free"
    /\ ticker' = FALSE
    /\ UNCHANGED <<loopVars, batchVars, table, dbFaults, accepted>>

BatchedWith(k) == {n \in DOMAIN batch : RowKey[batch[n]] = k}

\* Variant: INSERT without ON CONFLICT, into a table without UNIQUE.
InsertedAnyway == [k \in Keys |-> table[k] + Cardinality(BatchedWith(k))]

\* INSERT ... ON CONFLICT DO NOTHING, row by row, into a table that is UNIQUE
\* on (symbol, timestamp): the first row of a key stays, the others vanish.
Inserted ==
    [k \in Keys |-> IF table[k] = 0 /\ BatchedWith(k) # {} THEN 1 ELSE table[k]]

\* The database commits.
TxApplies ==
    /\ mu \in {"ticker", "consumer"} /\ ~applied
    /\ table' = Inserted
    /\ applied' = TRUE
    /\ UNCHANGED <<loopVars, batch, mu, ticker, dbFaults, accepted>>

\* flushLocked is over; the handler, if it is the one, returns.
Unlock ==
    /\ mu # "free"
    /\ mu' = "free" /\ applied' = FALSE
    /\ IF mu = "consumer"
       THEN Reader!HandlerOk /\ accepted' = accepted \cup {log[pos].id}
       ELSE UNCHANGED <<loopVars, accepted>>
    /\ UNCHANGED <<ticker, table>>

\* tx.Commit returned nil: the batch is emptied.
TxCommits ==
    /\ applied
    /\ batch' = <<>>
    /\ Unlock
    /\ UNCHANGED dbFaults

\* A transaction fails by itself, and the ticker's under a cancelled context.
TxFault ==
    \/ dbFaults < MaxDbFaults /\ dbFaults' = dbFaults + 1
    \/ mu = "ticker" /\ cancelled /\ UNCHANGED dbFaults

\* Variant: the batch is emptied whatever Commit returned.
TxFailsAndClears ==
    /\ TxFault
    /\ Unlock
    /\ batch' = <<>>

\* Variant: a message whose batch could not be written is fetched again.
TxFailsAndRefetches ==
    /\ TxFault
    /\ mu' = "free" /\ applied' = FALSE
    /\ IF mu = "consumer"
       THEN Reader!Goto("handler", "loop") /\ pos' = pos - 1
       ELSE UNCHANGED <<pc, pos>>
    /\ UNCHANGED <<log, committed, stash, cancelled, base, handled, retried, dead,
                   dropped, faults, crashes, shutdowns, batch, ticker, table, accepted>>

\* BeginTx, Prepare, an INSERT or Commit returned an error: the batch stays,
\* whether or not the transaction has taken effect.
TxFails ==
    /\ TxFault
    /\ Unlock
    /\ UNCHANGED batch

Flush == TxApplies \/ TxCommits \/ TxFails

Loop == Fetch \/ LoopStep \/ AddReturns \/ AddFlushes \/ Exit

Next ==
    \/ Environment \/ FlushCommits
    \/ Start \/ Crash
    \/ Loop
    \/ TickerFlush \/ TickerEnds
    \/ Flush

SafetySpec == Init /\ [][Next]_vars

\* The fairness of the consume loop, a ticker that ticks, and a database that
\* answers: a transaction commits or fails.
Fairness ==
    /\ WF_vars(Loop) /\ SF_vars(Fetch)
    /\ WF_vars(FlushCommits) /\ WF_vars(Start)
    /\ WF_vars(TickerFlush)
    /\ WF_vars(Flush)

Spec == SafetySpec /\ Fairness

----------------------------------------------------------------------------
(* Properties. *)

\* The types; at most one row per key in the table, for a batch that is written
\* again, or a message that is delivered again, adds nothing; and fewer rows in
\* the batch than make it full, but for one more for each failed transaction.
TypeOK ==
    /\ Reader!TypeOK
    /\ batch \in Seq(Ids)
    /\ mu \in {"free", "ticker", "consumer"}
    /\ applied \in BOOLEAN /\ ticker \in BOOLEAN
    /\ table \in [Keys -> 0..1]
    /\ dbFaults \in 0..MaxDbFaults
    /\ accepted \subseteq Ids
    /\ Len(batch) < BatchSize + dbFaults + IF mu = "consumer" THEN 1 ELSE 0

\* While the process lives, an accepted price is in the batch or in the table:
\* no failed, half failed or falsely failed transaction of either goroutine,
\* and no price that arrives during one, is lost.
AcceptedIsKept == \A i \in accepted : InBatch(i) \/ Stored(i)

\* What a stop of the process can lose: prices that were accepted, whose
\* offsets may be committed, and that are neither in the table nor in the
\* batch.  A crash or a shutdown loses less than a batch.
Lost == {i \in Ids : /\ \E o \in handled : log[o].id = i
                     /\ ~InBatch(i) /\ ~Stored(i)}
LossBound ==
    Cardinality(Lost) <= (crashes + shutdowns) * (BatchSize - 1 + dbFaults)

\* A shutdown on request, with nothing failing, leaves every committed price
\* in the table.
ShutdownKeepsRows ==
    pc = "down" /\ crashes = 0 /\ dbFaults = 0 =>
        \A o \in handled : o <= committed => Stored(log[o].id)

\* An accepted price gets into the table, unless the process stops before.
AcceptedIsStored ==
    \A i \in Ids : i \in accepted ~> Stored(i) \/ cancelled \/ pc = "down"

\* The service is an instance of the consume loop, its fairness included: the
\* mutex and the transactions under it never stop the loop, and what the loop
\* promises by itself (KafkaConsumer) it promises in this service.
ImplementsReader == Reader!Spec

=============================================================================
