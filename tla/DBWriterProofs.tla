--------------------------- MODULE DBWriterProofs ---------------------------
(***************************************************************************)
(* The database writer is an instance of the consume loop, and keeps what  *)
(* it accepts, for every batch size, set of prices and number of faults,   *)
(* crashes and shutdowns.  WriterInv is inductive; what it says of the     *)
(* loop by itself comes from KafkaConsumerProofs.                          *)
(***************************************************************************)
EXTENDS DBWriter, FiniteSetTheorems, SequenceTheorems, TLAPS

Consumer == INSTANCE KafkaConsumerProofs

\* Who holds the mutex, and what a process that is not there holds.
BatchInv ==
    /\ mu = "free" => ~applied
    /\ mu = "consumer" =>
          /\ pc = "handler" /\ log[pos].id \notin Poison
          /\ Len(batch) > 0 /\ batch[Len(batch)] = log[pos].id
    /\ applied => \A n \in DOMAIN batch : Stored(batch[n])
    /\ pc = "down" => batch = <<>> /\ mu = "free" /\ accepted = {}
    /\ cancelled /\ pc # "down" => shutdowns > 0

\* The positions of the batch whose rows are of prices that were accepted: the
\* handler that writes the batch has not returned yet.
ReturnedRows == IF mu = "consumer" THEN Len(batch) - 1 ELSE Len(batch)
Returned == 1..ReturnedRows
KeptInv == \A i \in accepted : Stored(i) \/ \E n \in Returned : batch[n] = i

\* The prices that an earlier process accepted and that are not in the table,
\* unless this one has accepted them again; the losses so far, and how many
\* stops there have been to cause them.
Owed == {i \in Ids : /\ \E o \in handled : log[o].id = i
                     /\ ~Stored(i) /\ i \notin accepted}
Stops == crashes + shutdowns - (IF cancelled /\ pc # "down" THEN 1 ELSE 0)
OwedInv ==
    /\ IsFiniteSet(Owed)
    /\ Cardinality(Owed) <= Stops * (BatchSize - 1 + dbFaults)

WriterInv == TypeOK /\ Reader!ConsumerInv /\ BatchInv /\ KeptInv /\ OwedInv

----------------------------------------------------------------------------
(* The consume loop in this service. *)

\* KafkaConsumerProofs is about the same loop, under another name.
LEMMA SameLoop ==
    /\ Consumer!Init = Reader!Init
    /\ [Consumer!Next]_(Consumer!vars) <=> [Reader!Next]_(Reader!vars)
    /\ Consumer!ConsumerInv <=> Reader!ConsumerInv
    /\ Consumer!ConsumerInv' <=> Reader!ConsumerInv'
<1>1. Consumer!vars = Reader!vars /\ (UNCHANGED Consumer!vars <=> UNCHANGED Reader!vars)
  BY DEF Consumer!vars, Reader!vars, Consumer!topicVars, Reader!topicVars,
         Consumer!readerVars, Reader!readerVars, Consumer!fateVars, Reader!fateVars,
         Consumer!stopVars, Reader!stopVars
<1>2. Consumer!Init = Reader!Init
  BY DEF Consumer!Init, Reader!Init, Consumer!NoOffset, Reader!NoOffset
<1>3. Consumer!Next <=> Reader!Next
  BY DEF Consumer!Next, Reader!Next, Consumer!Produce, Reader!Produce,
         Consumer!Start, Reader!Start, Consumer!Crash, Reader!Crash,
         Consumer!Cancel, Reader!Cancel, Consumer!FlushCommits, Reader!FlushCommits,
         Consumer!Consume, Reader!Consume, Consumer!BeginFetch, Reader!BeginFetch,
         Consumer!ExitClosing, Reader!ExitClosing, Consumer!Fetch, Reader!Fetch,
         Consumer!FetchError, Reader!FetchError,
         Consumer!ExitFetching, Reader!ExitFetching,
         Consumer!HandlerOk, Reader!HandlerOk, Consumer!HandlerErr, Reader!HandlerErr,
         Consumer!HandleFailure, Reader!HandleFailure, Consumer!Retry, Reader!Retry,
         Consumer!RetryFails, Reader!RetryFails,
         Consumer!RetriesExhausted, Reader!RetriesExhausted,
         Consumer!SendToDLQ, Reader!SendToDLQ,
         Consumer!SendToDLQFails, Reader!SendToDLQFails,
         Consumer!Commit, Reader!Commit, Consumer!CommitError, Reader!CommitError,
         Consumer!Fail, Reader!Fail, Consumer!Goto, Reader!Goto,
         Consumer!Republished, Reader!Republished, Consumer!NoOffset, Reader!NoOffset,
         Consumer!topicVars, Reader!topicVars, Consumer!readerVars, Reader!readerVars,
         Consumer!fateVars, Reader!fateVars, Consumer!stopVars, Reader!stopVars
<1>4. /\ Consumer!ConsumerInv <=> Reader!ConsumerInv
      /\ Consumer!ConsumerInv' <=> Reader!ConsumerInv'
  BY DEF Consumer!ConsumerInv, Reader!ConsumerInv, Consumer!TypeOK, Reader!TypeOK,
         Consumer!ReaderInv, Reader!ReaderInv, Consumer!OffsetInv, Reader!OffsetInv,
         Consumer!RetryIsInLog, Reader!RetryIsInLog,
         Consumer!FaultlessInv, Reader!FaultlessInv,
         Consumer!Message, Reader!Message, Consumer!Phase, Reader!Phase,
         Consumer!SettledUpTo, Reader!SettledUpTo, Consumer!Settled, Reader!Settled,
         Consumer!Frontier, Reader!Frontier, Consumer!InHand, Reader!InHand,
         Consumer!NoOffset, Reader!NoOffset
<1> QED BY <1>1, <1>2, <1>3, <1>4

\* The loop keeps its invariant by itself.
LEMMA LoopInvariant ==
    /\ Reader!Init => Reader!ConsumerInv
    /\ Reader!ConsumerInv /\ [Reader!Next]_(Reader!vars) => Reader!ConsumerInv'
<1>1. /\ Poison \subseteq Ids /\ MaxRetries \in Nat /\ MaxFaults \in Nat
      /\ RepublishAccepted \in BOOLEAN /\ MaxCrashes \in Nat /\ MaxShutdowns \in Nat
  BY DBWriterAssumption DEF DBWriterAssumption
<1>2. Consumer!Init => Consumer!ConsumerInv
  BY <1>1, Consumer!InitOK
<1>3. Consumer!ConsumerInv /\ [Consumer!Next]_(Consumer!vars) => Consumer!ConsumerInv'
  BY <1>1, Consumer!NextOK
<1> QED BY <1>2, <1>3, SameLoop

\* Every step of the service is one of the loop, or leaves the loop alone: the
\* handler accepts when its batch has room or its transaction is over.
LEMMA StepImplements == [Next]_vars => [Reader!Next]_(Reader!vars)
<1> SUFFICES ASSUME [Next]_vars PROVE [Reader!Next]_(Reader!vars)
  OBVIOUS
<1>1. UNCHANGED loopVars => UNCHANGED Reader!vars
  BY DEF loopVars, Reader!vars, Reader!topicVars, Reader!readerVars,
         Reader!fateVars, Reader!stopVars
<1>2. CASE Environment \/ FlushCommits \/ Start \/ Crash \/ Fetch \/ LoopStep
           \/ AddReturns \/ Exit
  BY <1>2 DEF Environment, FlushCommits, Start, Crash, Fetch, LoopStep,
              AddReturns, Exit, Reader!Next, Reader!Consume
<1>3. CASE AddFlushes \/ TickerFlush \/ TickerEnds \/ TxApplies
  BY <1>1, <1>3 DEF AddFlushes, TickerFlush, TickerEnds, TxApplies
<1>4. CASE TxCommits \/ TxFails
  BY <1>1, <1>4 DEF TxCommits, TxFails, Unlock, Reader!Next, Reader!Consume
<1>5. CASE UNCHANGED vars
  BY <1>1, <1>5 DEF vars
<1> QED BY <1>2, <1>3, <1>4, <1>5 DEF Next, Loop, Flush

----------------------------------------------------------------------------
(* The operators. *)

\* What the loop's invariant says of the message in hand.
LEMMA LoopFacts ==
    ASSUME Reader!ConsumerInv
    PROVE  /\ Reader!TypeOK /\ log \in Seq(Reader!Message)
           /\ \A o \in DOMAIN log : log[o].id \in Ids
           /\ pc \in {"handler", "failure", "dlq", "commit"} => pos \in DOMAIN log
           /\ handled \subseteq DOMAIN log
           /\ crashes \in Nat /\ shutdowns \in Nat /\ cancelled \in BOOLEAN
<1>1. Reader!TypeOK
  BY DEF Reader!ConsumerInv
<1>2. \A o \in DOMAIN log : log[o].id \in Ids
  <2>1. \A o \in DOMAIN log : log[o] \in Reader!Message
    BY <1>1 DEF Reader!TypeOK
  <2> QED BY <2>1 DEF Reader!Message
<1>3. pc \in {"handler", "failure", "dlq", "commit"} => pos \in DOMAIN log
  BY <1>1 DEF Reader!TypeOK, Reader!ConsumerInv, Reader!ReaderInv, Reader!InHand
<1>4. crashes \in Nat /\ shutdowns \in Nat
  BY <1>1, DBWriterAssumption DEF Reader!TypeOK, DBWriterAssumption
<1> QED BY <1>1, <1>2, <1>3, <1>4 DEF Reader!TypeOK

\* What the types say of the batch, and how many rows an end of the process
\* can take with it.
LEMMA BatchFacts ==
    ASSUME TypeOK, BatchInv
    PROVE  /\ batch \in Seq(Ids) /\ Len(batch) \in Nat /\ DOMAIN batch = 1..Len(batch)
           /\ \A n \in DOMAIN batch : batch[n] \in Ids /\ RowKey[batch[n]] \in Keys
           /\ Returned \subseteq DOMAIN batch /\ IsFiniteSet(Returned)
           /\ Cardinality(Returned) <= BatchSize - 1 + dbFaults
           /\ BatchSize \in Nat \ {0} /\ dbFaults \in Nat
           /\ BatchSize - 1 + dbFaults \in Nat
           /\ Cardinality(Returned) \in Nat
<1>1. batch \in Seq(Ids) /\ Len(batch) \in Nat /\ DOMAIN batch = 1..Len(batch)
  BY DEF TypeOK
<1>2. BatchSize \in Nat \ {0} /\ dbFaults \in Nat /\ BatchSize - 1 + dbFaults \in Nat
  BY DBWriterAssumption DEF DBWriterAssumption, TypeOK
<1>3. \A n \in DOMAIN batch : batch[n] \in Ids /\ RowKey[batch[n]] \in Keys
  BY <1>1 DEF Keys
<1>4. /\ ReturnedRows \in Nat /\ ReturnedRows <= Len(batch)
      /\ ReturnedRows <= BatchSize - 1 + dbFaults
  <2>1. mu = "consumer" => Len(batch) > 0
    BY DEF BatchInv
  <2>2. Len(batch) < BatchSize + dbFaults + IF mu = "consumer" THEN 1 ELSE 0
    BY DEF TypeOK
  <2> QED BY <1>1, <1>2, <2>1, <2>2 DEF ReturnedRows
<1>5. IsFiniteSet(Returned) /\ Cardinality(Returned) = ReturnedRows
  BY <1>4, FS_Interval DEF Returned
<1>6. Returned \subseteq DOMAIN batch
  BY <1>1, <1>4 DEF Returned
<1> QED BY <1>1, <1>2, <1>3, <1>4, <1>5, <1>6

\* How many stops there have been is a number.
LEMMA StopsAreNat ==
    ASSUME Reader!ConsumerInv, BatchInv
    PROVE  Stops \in Nat
BY LoopFacts DEF BatchInv, Stops

\* More of both gives a larger product.
LEMMA LargerProduct ==
    ASSUME NEW a \in Nat, NEW b \in Nat, NEW c \in Nat, NEW d \in Nat,
           a <= c, b <= d
    PROVE  a * b <= c * d /\ a * b \in Nat /\ c * d \in Nat
<1>1. a * b <= a * d
  OBVIOUS
<1>2. a * d <= c * d
  OBVIOUS
<1>3. a * b \in Nat /\ a * d \in Nat /\ c * d \in Nat
  OBVIOUS
<1> QED BY <1>1, <1>2, <1>3

\* One more batch for one more stop.
LEMMA OneMoreStop ==
    ASSUME NEW a \in Nat, NEW b \in Nat
    PROVE  (a + 1) * b = a * b + b
OBVIOUS

\* Losing nothing keeps what has been lost within the bound.
LEMMA NothingLost ==
    ASSUME OwedInv, Owed' \subseteq Owed,
           Stops \in Nat, Stops' \in Nat, Stops <= Stops',
           BatchSize - 1 + dbFaults \in Nat, BatchSize - 1 + dbFaults' \in Nat,
           BatchSize - 1 + dbFaults <= BatchSize - 1 + dbFaults'
    PROVE  OwedInv'
<1>1. /\ IsFiniteSet(Owed') /\ Cardinality(Owed') \in Nat /\ Cardinality(Owed) \in Nat
      /\ Cardinality(Owed') <= Cardinality(Owed)
  BY FS_Subset, FS_CardinalityType DEF OwedInv
<1> DEFINE b == BatchSize - 1 + dbFaults
           d == BatchSize - 1 + dbFaults'
<1>2. Cardinality(Owed) <= Stops * b
  BY DEF OwedInv
<1>3. b \in Nat /\ d \in Nat /\ b <= d
  OBVIOUS
<1> HIDE DEF b, d
<1>4. Stops * b <= Stops' * d /\ Stops * b \in Nat /\ Stops' * d \in Nat
  BY <1>3, LargerProduct
<1>6. Cardinality(Owed') <= Stops' * d
  BY <1>1, <1>2, <1>4
<1> QED BY <1>1, <1>6 DEF OwedInv, d

\* An end of the process loses at most the batch.
LEMMA BatchLost ==
    ASSUME TypeOK, BatchInv, OwedInv,
           Owed' \subseteq Owed \cup {batch[n] : n \in Returned},
           Stops \in Nat, Stops' \in Nat, Stops + 1 <= Stops',
           dbFaults' = dbFaults
    PROVE  OwedInv'
<1> DEFINE b == BatchSize - 1 + dbFaults
           B == {batch[n] : n \in Returned}
<1>1. /\ IsFiniteSet(Returned) /\ Cardinality(Returned) \in Nat
      /\ Cardinality(Returned) <= b /\ b \in Nat
  BY BatchFacts
<1>2. IsFiniteSet(B) /\ Cardinality(B) <= Cardinality(Returned)
  <2> DEFINE f == [n \in Returned |-> batch[n]]
  <2>1. f \in Surjection(Returned, B)
    BY DEF Surjection
  <2> HIDE DEF f, B
  <2> QED BY <1>1, <2>1, FS_Surjection
<1>3. IsFiniteSet(Owed) /\ Cardinality(Owed) \in Nat /\ Cardinality(Owed) <= Stops * b
  BY FS_CardinalityType DEF OwedInv
<1> HIDE DEF b, B
<1>4. IsFiniteSet(B) /\ Cardinality(B) \in Nat /\ Cardinality(B) <= b
  BY <1>1, <1>2, FS_CardinalityType
<1>5. /\ IsFiniteSet(Owed \cup B) /\ Cardinality(Owed \cup B) \in Nat
      /\ Cardinality(Owed \cup B) <= Cardinality(Owed) + Cardinality(B)
  <2>1. /\ IsFiniteSet(Owed \cup B) /\ IsFiniteSet(Owed \cap B)
        /\ Cardinality(Owed \cup B) =
              Cardinality(Owed) + Cardinality(B) - Cardinality(Owed \cap B)
    BY <1>3, <1>4, FS_Union, FS_Intersection
  <2>2. Cardinality(Owed \cap B) \in Nat /\ Cardinality(Owed \cup B) \in Nat
    BY <2>1, FS_CardinalityType
  <2> QED BY <1>3, <1>4, <2>1, <2>2
<1>6. /\ IsFiniteSet(Owed') /\ Cardinality(Owed') \in Nat
      /\ Cardinality(Owed') <= Cardinality(Owed \cup B)
  <2>1. Owed' \subseteq Owed \cup B
    BY DEF B
  <2> QED BY <1>5, <2>1, FS_Subset, FS_CardinalityType
<1>7. (Stops + 1) * b <= Stops' * b
  <2>1. Stops + 1 \in Nat /\ b <= b
    BY <1>1
  <2> QED BY <1>1, <2>1, LargerProduct
<1>8. (Stops + 1) * b = Stops * b + b
  BY <1>1, OneMoreStop
<1>9. Stops * b \in Nat /\ Stops' * b \in Nat
  <2>1. Stops <= Stops /\ Stops' <= Stops' /\ b <= b
    BY <1>1
  <2> QED BY <1>1, <2>1, LargerProduct
<1>10. Cardinality(Owed') <= Stops' * b
  BY <1>1, <1>3, <1>4, <1>5, <1>6, <1>7, <1>8, <1>9
<1> QED BY <1>6, <1>10 DEF OwedInv, b

----------------------------------------------------------------------------
(* The actions. *)

\* The consume loop's part of the invariant, in every step.
LEMMA LoopOK == WriterInv /\ [Next]_vars => Reader!ConsumerInv'
BY StepImplements, LoopInvariant DEF WriterInv

\* A step of the loop, the broker or the operator that leaves the batch alone
\* keeps the messages, and with them what is owed and to whom.
LEMMA QuietOK ==
    ASSUME WriterInv, Reader!ConsumerInv',
           Environment \/ FlushCommits \/ Fetch \/ LoopStep
    PROVE  WriterInv'
<1>i. TypeOK /\ Reader!ConsumerInv /\ BatchInv /\ KeptInv /\ OwedInv
  BY DEF WriterInv
<1>l. /\ log \in Seq(Reader!Message) /\ handled \subseteq DOMAIN log
      /\ pc \in {"handler", "failure", "dlq", "commit"} => pos \in DOMAIN log
      /\ crashes \in Nat /\ shutdowns \in Nat /\ cancelled \in BOOLEAN
  BY <1>i, LoopFacts
<1>w. UNCHANGED writerVars
  BY DEF Environment, FlushCommits, Fetch, LoopStep
<1>1. /\ UNCHANGED <<handled, crashes>> /\ (pc' = "down" <=> pc = "down")
      /\ pc = "handler" /\ log[pos].id \notin Poison => UNCHANGED <<pc, pos>>
  BY DEF Environment, FlushCommits, Fetch, LoopStep, Reader!Goto,
         Reader!Produce, Reader!Cancel, Reader!FlushCommits, Reader!Fetch,
         Reader!BeginFetch, Reader!FetchError, Reader!HandlerErr,
         Reader!HandleFailure, Reader!Retry, Reader!RetryFails,
         Reader!RetriesExhausted, Reader!SendToDLQ, Reader!SendToDLQFails,
         Reader!Commit, Reader!CommitError,
         Reader!topicVars, Reader!readerVars, Reader!fateVars, Reader!stopVars
<1>2. \/ UNCHANGED <<cancelled, shutdowns>>
      \/ /\ pc # "down" /\ ~cancelled /\ cancelled' = TRUE
         /\ shutdowns' = shutdowns + 1
  BY DEF Environment, FlushCommits, Fetch, LoopStep,
         Reader!Produce, Reader!Cancel, Reader!FlushCommits, Reader!Fetch,
         Reader!BeginFetch, Reader!FetchError, Reader!HandlerErr,
         Reader!HandleFailure, Reader!Retry, Reader!RetryFails,
         Reader!RetriesExhausted, Reader!SendToDLQ, Reader!SendToDLQFails,
         Reader!Commit, Reader!CommitError,
         Reader!topicVars, Reader!readerVars, Reader!fateVars, Reader!stopVars
<1>3. \/ log' = log
      \/ \E m : log' = Append(log, m)
  BY DEF Environment, FlushCommits, Fetch, LoopStep,
         Reader!Produce, Reader!Cancel, Reader!FlushCommits, Reader!Fetch,
         Reader!BeginFetch, Reader!FetchError, Reader!HandlerErr,
         Reader!HandleFailure, Reader!Retry, Reader!RetryFails,
         Reader!RetriesExhausted, Reader!SendToDLQ, Reader!SendToDLQFails,
         Reader!Commit, Reader!CommitError,
         Reader!topicVars, Reader!readerVars, Reader!fateVars, Reader!stopVars
<1>4. \A o \in DOMAIN log : log'[o] = log[o]
  BY <1>l, <1>3
<1>5. TypeOK'
  BY <1>i, <1>w DEF TypeOK, writerVars, batchVars, Reader!ConsumerInv
<1>6. BatchInv'
  <2>1. mu = "consumer" =>
          UNCHANGED <<pc, pos>> /\ pos \in DOMAIN log /\ log'[pos] = log[pos]
    BY <1>i, <1>l, <1>1, <1>4 DEF BatchInv
  <2>2. cancelled' /\ pc' # "down" => shutdowns' > 0
    <3>1. CASE UNCHANGED <<cancelled, shutdowns>>
      BY <1>i, <1>1, <3>1 DEF BatchInv
    <3>2. CASE shutdowns' = shutdowns + 1
      BY <1>l, <3>2
    <3> QED BY <1>2, <3>1, <3>2
  <2> QED
    BY <1>i, <1>w, <1>1, <2>1, <2>2
       DEF BatchInv, Stored, writerVars, batchVars
<1>7. KeptInv'
  BY <1>i, <1>w DEF KeptInv, Stored, Returned, ReturnedRows, writerVars, batchVars
<1>8. Owed' \subseteq Owed
  BY <1>l, <1>w, <1>1, <1>4 DEF Owed, Stored, writerVars, batchVars
<1>9. Stops' = Stops
  BY <1>l, <1>1, <1>2 DEF Stops
<1>10. OwedInv'
  <2>1. Stops \in Nat /\ BatchSize - 1 + dbFaults \in Nat
    BY <1>i, StopsAreNat, BatchFacts
  <2>2. dbFaults' = dbFaults
    BY <1>w DEF writerVars
  <2> QED BY <1>i, <1>8, <1>9, <2>1, <2>2, NothingLost
<1> QED BY <1>5, <1>6, <1>7, <1>10 DEF WriterInv


\* A new process has nothing in hand, and an old one left nothing.
LEMMA StartOK == ASSUME WriterInv, Reader!ConsumerInv', Start PROVE WriterInv'
<1>i. TypeOK /\ Reader!ConsumerInv /\ BatchInv /\ KeptInv /\ OwedInv
  BY DEF WriterInv
<1>l. /\ log \in Seq(Reader!Message) /\ handled \subseteq DOMAIN log
      /\ crashes \in Nat /\ shutdowns \in Nat /\ cancelled \in BOOLEAN
  BY <1>i, LoopFacts
<1>1. /\ pc = "down" /\ pc' = "loop" /\ cancelled' = FALSE /\ ticker' = TRUE
      /\ UNCHANGED <<log, handled, crashes, shutdowns>>
      /\ UNCHANGED <<batch, mu, applied, table, dbFaults, accepted>>
  BY DEF Start, Reader!Start, Reader!Goto, Reader!topicVars, Reader!fateVars,
         Reader!stopVars, batchVars
<1>2. TypeOK'
  BY <1>i, <1>1 DEF TypeOK, Reader!ConsumerInv
<1>3. BatchInv' /\ KeptInv'
  BY <1>i, <1>1 DEF BatchInv, KeptInv, Stored, Returned, ReturnedRows
<1>4. Owed' \subseteq Owed
  BY <1>1 DEF Owed, Stored
<1>5. Stops' = Stops
  BY <1>l, <1>1 DEF Stops
<1>6. OwedInv'
  <2>1. Stops \in Nat /\ BatchSize - 1 + dbFaults \in Nat
    BY <1>i, StopsAreNat, BatchFacts
  <2> QED BY <1>i, <1>1, <1>4, <1>5, <2>1, NothingLost
<1> QED BY <1>2, <1>3, <1>6 DEF WriterInv

\* When the process ends, what it accepted and has not stored was in the batch.
LEMMA EndOK == ASSUME WriterInv, Reader!ConsumerInv', Crash \/ Exit PROVE WriterInv'
<1>i. TypeOK /\ Reader!ConsumerInv /\ BatchInv /\ KeptInv /\ OwedInv
  BY DEF WriterInv
<1>l. /\ log \in Seq(Reader!Message) /\ handled \subseteq DOMAIN log
      /\ crashes \in Nat /\ shutdowns \in Nat /\ cancelled \in BOOLEAN
  BY <1>i, LoopFacts
<1>1. /\ pc # "down" /\ pc' = "down"
      /\ UNCHANGED <<log, handled, shutdowns, cancelled, table, dbFaults>>
      /\ \/ crashes' = crashes + 1
         \/ cancelled /\ UNCHANGED crashes
      /\ batch' = <<>> /\ mu' = "free" /\ applied' = FALSE
      /\ ticker' = FALSE /\ accepted' = {}
  BY DEF Crash, Exit, ProcessEnds, Reader!Crash, Reader!ExitClosing,
         Reader!ExitFetching, Reader!Goto, Reader!topicVars, Reader!fateVars,
         Reader!stopVars
<1>2. TypeOK'
  <2>1. batch' \in Seq(Ids) /\ Len(batch') = 0
    BY <1>1
  <2>2. Len(batch') < BatchSize + dbFaults' + IF mu' = "consumer" THEN 1 ELSE 0
    BY <1>i, <1>1, <2>1, BatchFacts
  <2> QED BY <1>i, <1>1, <2>1, <2>2 DEF TypeOK, Reader!ConsumerInv
<1>3. BatchInv' /\ KeptInv'
  BY <1>1 DEF BatchInv, KeptInv
<1>4. Owed' \subseteq Owed \cup {batch[n] : n \in Returned}
  <2> SUFFICES ASSUME NEW i \in Owed'
               PROVE  i \in Owed \/ \E n \in Returned : batch[n] = i
    OBVIOUS
  <2>1. i \in Ids /\ (\E o \in handled : log[o].id = i) /\ ~Stored(i)
    BY <1>1 DEF Owed, Stored
  <2>2. i \in accepted => \E n \in Returned : batch[n] = i
    BY <1>i, <2>1 DEF KeptInv
  <2> QED BY <2>1, <2>2 DEF Owed
<1>5. Stops \in Nat /\ Stops' \in Nat /\ Stops + 1 <= Stops'
  <2>1. Stops \in Nat
    BY <1>i, StopsAreNat
  <2>2. Stops = crashes + shutdowns - (IF cancelled THEN 1 ELSE 0)
    BY <1>1 DEF Stops
  <2>3. Stops' = crashes' + shutdowns
    BY <1>l, <1>1 DEF Stops
  <2>4. CASE crashes' = crashes + 1
    BY <1>l, <2>1, <2>2, <2>3, <2>4
  <2>5. CASE cancelled /\ UNCHANGED crashes
    BY <1>l, <2>1, <2>2, <2>3, <2>5
  <2> QED BY <1>1, <2>4, <2>5
<1>6. OwedInv'
  BY <1>i, <1>1, <1>4, <1>5, BatchLost
<1> QED BY <1>2, <1>3, <1>6 DEF WriterInv

\* A step that the process lives through, with what it does to the losses.
LEMMA OwedOK ==
    ASSUME WriterInv, Owed' \subseteq Owed,
           UNCHANGED <<crashes, shutdowns, cancelled>>,
           pc # "down", pc' # "down", dbFaults' \in Nat, dbFaults <= dbFaults'
    PROVE  OwedInv'
<1>1. TypeOK /\ Reader!ConsumerInv /\ BatchInv /\ OwedInv
  BY DEF WriterInv
<1>2. /\ Stops \in Nat /\ BatchSize - 1 + dbFaults \in Nat
      /\ BatchSize \in Nat \ {0} /\ dbFaults \in Nat
  BY <1>1, StopsAreNat, BatchFacts
<1>3. Stops' = Stops
  BY DEF Stops
<1>4. Stops' \in Nat /\ Stops <= Stops'
  BY <1>2, <1>3
<1>5. /\ BatchSize - 1 + dbFaults' \in Nat
      /\ BatchSize - 1 + dbFaults <= BatchSize - 1 + dbFaults'
  <2>1. \A m \in Nat \ {0}, n, k \in Nat :
            n <= k => m - 1 + k \in Nat /\ m - 1 + n <= m - 1 + k
    OBVIOUS
  <2> QED BY <1>2, <2>1
<1> QED BY <1>1, <1>2, <1>4, <1>5, NothingLost

\* What the handler's return does in the consume loop.
LEMMA AcceptFacts ==
    ASSUME WriterInv, Reader!HandlerOk
    PROVE  /\ pc = "handler" /\ pc' = "commit"
           /\ UNCHANGED <<log, pos, crashes, shutdowns, cancelled>>
           /\ handled' = handled \cup {pos} /\ log[pos].id \in Ids
BY LoopFacts
   DEF WriterInv, Reader!HandlerOk, Reader!Goto, Reader!topicVars,
       Reader!readerVars, Reader!stopVars

\* Adding a row.
LEMMA AddedFacts ==
    ASSUME WriterInv, pc = "handler"
    PROVE  /\ Added \in Seq(Ids) /\ Len(Added) = Len(batch) + 1
           /\ DOMAIN Added = 1..(Len(batch) + 1)
           /\ \A n \in DOMAIN batch : Added[n] = batch[n]
           /\ Added[Len(batch) + 1] = log[pos].id
<1>1. log[pos].id \in Ids /\ batch \in Seq(Ids)
  BY LoopFacts DEF WriterInv, TypeOK
<1> QED BY <1>1, AppendProperties DEF Added

\* The handler that returns at once leaves its price in the batch.
LEMMA AddReturnsOK ==
    ASSUME WriterInv, Reader!ConsumerInv', AddReturns PROVE WriterInv'
<1>i. TypeOK /\ Reader!ConsumerInv /\ BatchInv /\ KeptInv /\ OwedInv
  BY DEF WriterInv
<1>b. /\ Len(batch) \in Nat /\ DOMAIN batch = 1..Len(batch)
      /\ BatchSize \in Nat \ {0} /\ dbFaults \in Nat
  BY <1>i, BatchFacts
<1>1. /\ pc = "handler" /\ mu = "free" /\ Len(Added) < BatchSize
      /\ batch' = Added /\ accepted' = accepted \cup {log[pos].id}
      /\ UNCHANGED <<mu, applied, ticker, table, dbFaults>>
      /\ Reader!HandlerOk
  BY DEF AddReturns
<1>2. /\ pc' = "commit"
      /\ UNCHANGED <<log, pos, crashes, shutdowns, cancelled>>
      /\ handled' = handled \cup {pos} /\ log[pos].id \in Ids
  BY <1>1, AcceptFacts
<1>3. /\ Added \in Seq(Ids) /\ Len(Added) = Len(batch) + 1
      /\ DOMAIN Added = 1..(Len(batch) + 1)
      /\ \A n \in DOMAIN batch : Added[n] = batch[n]
      /\ Added[Len(batch) + 1] = log[pos].id
  BY <1>1, AddedFacts
<1>4. TypeOK'
  <2>1. Len(batch') < BatchSize + dbFaults' + IF mu' = "consumer" THEN 1 ELSE 0
    BY <1>b, <1>1, <1>3
  <2>2. accepted' \subseteq Ids
    BY <1>i, <1>1, <1>2 DEF TypeOK
  <2> QED BY <1>i, <1>1, <1>3, <2>1, <2>2 DEF TypeOK, Reader!ConsumerInv
<1>5. BatchInv'
  BY <1>i, <1>1, <1>2 DEF BatchInv
<1>6. KeptInv'
  <2>1. Returned = 1..Len(batch) /\ Returned' = 1..(Len(batch) + 1)
    BY <1>1, <1>3 DEF Returned, ReturnedRows
  <2>2. \A i \in accepted : Stored(i) \/ \E n \in 1..(Len(batch) + 1) : Added[n] = i
    BY <1>i, <1>b, <1>3, <2>1 DEF KeptInv
  <2>3. Len(batch) + 1 \in 1..(Len(batch) + 1)
    BY <1>b
  <2> QED BY <1>1, <1>3, <2>1, <2>2, <2>3 DEF KeptInv, Stored
<1>7. Owed' \subseteq Owed
  BY <1>1, <1>2 DEF Owed, Stored
<1>8. OwedInv'
  BY <1>b, <1>1, <1>2, <1>7, OwedOK
<1> QED BY <1>4, <1>5, <1>6, <1>8 DEF WriterInv

\* The handler that finds the batch full keeps its price for itself until its
\* transaction is over.
LEMMA AddFlushesOK ==
    ASSUME WriterInv, Reader!ConsumerInv', AddFlushes PROVE WriterInv'
<1>i. TypeOK /\ Reader!ConsumerInv /\ BatchInv /\ KeptInv /\ OwedInv
  BY DEF WriterInv
<1>b. /\ Len(batch) \in Nat /\ DOMAIN batch = 1..Len(batch)
      /\ BatchSize \in Nat \ {0} /\ dbFaults \in Nat
  BY <1>i, BatchFacts
<1>1. /\ pc = "handler" /\ mu = "free" /\ log[pos].id \notin Poison
      /\ batch' = Added /\ mu' = "consumer"
      /\ UNCHANGED <<applied, ticker, table, dbFaults, accepted>>
      /\ UNCHANGED <<log, pc, pos, cancelled, handled, crashes, shutdowns>>
  BY DEF AddFlushes, loopVars
<1>3. /\ Added \in Seq(Ids) /\ Len(Added) = Len(batch) + 1
      /\ DOMAIN Added = 1..(Len(batch) + 1)
      /\ \A n \in DOMAIN batch : Added[n] = batch[n]
      /\ Added[Len(batch) + 1] = log[pos].id
  BY <1>1, AddedFacts
<1>4. TypeOK'
  <2>1. Len(batch) < BatchSize + dbFaults
    BY <1>i, <1>b, <1>1 DEF TypeOK
  <2>2. Len(batch') < BatchSize + dbFaults' + IF mu' = "consumer" THEN 1 ELSE 0
    BY <1>b, <1>1, <1>3, <2>1
  <2> QED BY <1>i, <1>1, <1>3, <2>2 DEF TypeOK, Reader!ConsumerInv
<1>5. BatchInv'
  BY <1>i, <1>b, <1>1, <1>3 DEF BatchInv
<1>6. KeptInv'
  <2>1. Returned = 1..Len(batch) /\ Returned' = 1..Len(batch)
    BY <1>b, <1>1, <1>3 DEF Returned, ReturnedRows
  <2> QED BY <1>i, <1>b, <1>1, <1>3, <2>1 DEF KeptInv, Stored
<1>7. Owed' \subseteq Owed
  BY <1>1 DEF Owed, Stored
<1>8. OwedInv'
  BY <1>b, <1>1, <1>7, OwedOK
<1> QED BY <1>4, <1>5, <1>6, <1>8 DEF WriterInv


\* The ticker takes the mutex, or goes away.
LEMMA TickerOK ==
    ASSUME WriterInv, Reader!ConsumerInv', TickerFlush \/ TickerEnds
    PROVE  WriterInv'
<1>i. TypeOK /\ Reader!ConsumerInv /\ BatchInv /\ KeptInv /\ OwedInv
  BY DEF WriterInv
<1>b. /\ Len(batch) \in Nat /\ BatchSize \in Nat \ {0} /\ dbFaults \in Nat
  BY <1>i, BatchFacts
<1>1. /\ mu = "free" /\ mu' \in {"free", "ticker"} /\ ticker' \in BOOLEAN
      /\ mu' = "ticker" => batch # <<>>
      /\ UNCHANGED <<batch, applied, table, dbFaults, accepted>>
      /\ UNCHANGED <<log, pc, pos, cancelled, handled, crashes, shutdowns>>
  BY DEF TickerFlush, TickerEnds, loopVars, batchVars
<1>2. TypeOK'
  <2>1. Len(batch') < BatchSize + dbFaults' + IF mu' = "consumer" THEN 1 ELSE 0
    BY <1>i, <1>1 DEF TypeOK
  <2> QED BY <1>i, <1>1, <2>1 DEF TypeOK, Reader!ConsumerInv
<1>3. BatchInv' /\ KeptInv'
  BY <1>i, <1>1 DEF BatchInv, KeptInv, Stored, Returned, ReturnedRows
<1>4. OwedInv'
  BY <1>i, <1>1 DEF OwedInv, Owed, Stored, Stops
<1> QED BY <1>2, <1>3, <1>4 DEF WriterInv

\* A commit stores every row of the batch, and takes none out of the table.
LEMMA InsertedFacts ==
    ASSUME TypeOK, BatchInv
    PROVE  /\ Inserted \in [Keys -> 0..1]
           /\ \A i \in Ids : Stored(i) => Inserted[RowKey[i]] > 0
           /\ \A n \in DOMAIN batch : Inserted[RowKey[batch[n]]] > 0
<1>1. table \in [Keys -> 0..1]
  BY DEF TypeOK
<1>2. Inserted \in [Keys -> 0..1]
  BY <1>1 DEF Inserted
<1>3. \A i \in Ids : Stored(i) => Inserted[RowKey[i]] > 0
  <2> SUFFICES ASSUME NEW i \in Ids, Stored(i) PROVE Inserted[RowKey[i]] > 0
    OBVIOUS
  <2>1. RowKey[i] \in Keys
    BY DEF Keys
  <2> QED BY <1>1, <2>1 DEF Inserted, Stored
<1>4. \A n \in DOMAIN batch : Inserted[RowKey[batch[n]]] > 0
  <2> SUFFICES ASSUME NEW n \in DOMAIN batch
               PROVE  Inserted[RowKey[batch[n]]] > 0
    OBVIOUS
  <2> DEFINE k == RowKey[batch[n]]
  <2>1. k \in Keys /\ n \in BatchedWith(k)
    BY BatchFacts DEF BatchedWith
  <2>2. table[k] \in 0..1 /\ Inserted[k] = IF table[k] = 0 THEN 1 ELSE table[k]
    BY <1>1, <2>1 DEF Inserted
  <2> QED BY <2>2
<1> QED BY <1>2, <1>3, <1>4

\* The transaction takes effect.
LEMMA TxAppliesOK ==
    ASSUME WriterInv, Reader!ConsumerInv', TxApplies PROVE WriterInv'
<1>i. TypeOK /\ Reader!ConsumerInv /\ BatchInv /\ KeptInv /\ OwedInv
  BY DEF WriterInv
<1>b. /\ \A n \in DOMAIN batch : batch[n] \in Ids
      /\ BatchSize \in Nat \ {0} /\ dbFaults \in Nat
  BY <1>i, BatchFacts
<1>1. /\ mu \in {"ticker", "consumer"} /\ table' = Inserted /\ applied' = TRUE
      /\ UNCHANGED <<batch, mu, ticker, dbFaults, accepted>>
      /\ UNCHANGED <<log, pc, pos, cancelled, handled, crashes, shutdowns>>
  BY DEF TxApplies, loopVars
<1>2. /\ Inserted \in [Keys -> 0..1]
      /\ \A i \in Ids : Stored(i) => table'[RowKey[i]] > 0
      /\ \A n \in DOMAIN batch : table'[RowKey[batch[n]]] > 0
  BY <1>i, <1>1, InsertedFacts
<1>3. TypeOK'
  BY <1>i, <1>1, <1>2 DEF TypeOK, Reader!ConsumerInv
<1>4. pc # "down"
  BY <1>i, <1>1 DEF BatchInv
<1>5. BatchInv'
  BY <1>i, <1>1, <1>2, <1>4 DEF BatchInv, Stored
<1>6. KeptInv'
  <2>1. accepted \subseteq Ids /\ Returned' = Returned
    BY <1>i, <1>1 DEF TypeOK, Returned, ReturnedRows
  <2> QED BY <1>i, <1>1, <1>2, <2>1 DEF KeptInv, Stored
<1>7. Owed' \subseteq Owed
  BY <1>1, <1>2 DEF Owed, Stored
<1>8. OwedInv'
  BY <1>b, <1>1, <1>4, <1>7, OwedOK
<1> QED BY <1>3, <1>5, <1>6, <1>8 DEF WriterInv

\* What the end of a transaction does, whoever opened it: the handler's price
\* is one of the batch's.
LEMMA UnlockFacts ==
    ASSUME WriterInv, Unlock
    PROVE  /\ pc # "down" /\ pc' # "down" /\ mu' = "free" /\ applied' = FALSE
           /\ UNCHANGED <<ticker, table, log, crashes, shutdowns, cancelled>>
           /\ accepted \subseteq accepted' /\ accepted' \subseteq Ids
           /\ \A i \in accepted' :
                 Stored(i) \/ \E n \in DOMAIN batch : batch[n] = i
           /\ \A o \in handled' : o \in handled \/ log[o].id \in accepted'
<1>i. TypeOK /\ Reader!ConsumerInv /\ BatchInv /\ KeptInv
  BY DEF WriterInv
<1>b. /\ Len(batch) \in Nat /\ DOMAIN batch = 1..Len(batch)
      /\ Returned \subseteq DOMAIN batch
  BY <1>i, BatchFacts
<1>1. /\ pc # "down" /\ mu' = "free" /\ applied' = FALSE /\ UNCHANGED <<ticker, table>>
  BY <1>i DEF Unlock, BatchInv
<1>2. \A i \in accepted : Stored(i) \/ \E n \in DOMAIN batch : batch[n] = i
  BY <1>i, <1>b DEF KeptInv
<1>3. CASE mu = "consumer"
  <2>1. Reader!HandlerOk /\ accepted' = accepted \cup {log[pos].id}
    BY <1>3 DEF Unlock
  <2>2. /\ pc' = "commit" /\ UNCHANGED <<log, crashes, shutdowns, cancelled>>
        /\ handled' = handled \cup {pos} /\ log[pos].id \in Ids
    BY <2>1, AcceptFacts
  <2>3. Len(batch) \in DOMAIN batch /\ batch[Len(batch)] = log[pos].id
    BY <1>i, <1>b, <1>3 DEF BatchInv
  <2>4. accepted \subseteq Ids
    BY <1>i DEF TypeOK
  <2> QED BY <1>1, <1>2, <2>1, <2>2, <2>3, <2>4
<1>4. CASE mu # "consumer"
  <2>1. /\ UNCHANGED <<log, pc, handled, crashes, shutdowns, cancelled, accepted>>
    BY <1>4 DEF Unlock, loopVars
  <2>2. accepted \subseteq Ids
    BY <1>i DEF TypeOK
  <2> QED BY <1>1, <1>2, <2>1, <2>2
<1> QED BY <1>3, <1>4

\* After a commit the batch may go: its rows are in the table.
LEMMA TxCommitsOK ==
    ASSUME WriterInv, Reader!ConsumerInv', TxCommits PROVE WriterInv'
<1>i. TypeOK /\ Reader!ConsumerInv /\ BatchInv /\ KeptInv /\ OwedInv
  BY DEF WriterInv
<1>b. BatchSize \in Nat \ {0} /\ dbFaults \in Nat
  BY <1>i, BatchFacts
<1>1. applied /\ batch' = <<>> /\ Unlock /\ dbFaults' = dbFaults
  BY DEF TxCommits
<1>2. /\ pc # "down" /\ pc' # "down" /\ mu' = "free" /\ applied' = FALSE
      /\ UNCHANGED <<ticker, table, log, crashes, shutdowns, cancelled>>
      /\ accepted \subseteq accepted' /\ accepted' \subseteq Ids
      /\ \A i \in accepted' : Stored(i) \/ \E n \in DOMAIN batch : batch[n] = i
      /\ \A o \in handled' : o \in handled \/ log[o].id \in accepted'
  BY <1>1, UnlockFacts
<1>3. TypeOK'
  <2>1. batch' \in Seq(Ids) /\ Len(batch') = 0
    BY <1>1
  <2>2. Len(batch') < BatchSize + dbFaults' + IF mu' = "consumer" THEN 1 ELSE 0
    BY <1>b, <1>1, <1>2, <2>1
  <2> QED BY <1>i, <1>1, <1>2, <2>1, <2>2 DEF TypeOK, Reader!ConsumerInv
<1>4. BatchInv'
  BY <1>i, <1>2 DEF BatchInv
<1>5. KeptInv'
  <2>1. \A n \in DOMAIN batch : Stored(batch[n])
    BY <1>i, <1>1 DEF BatchInv
  <2> QED BY <1>2, <2>1 DEF KeptInv, Stored
<1>6. Owed' \subseteq Owed
  BY <1>2 DEF Owed, Stored
<1>7. OwedInv'
  BY <1>b, <1>1, <1>2, <1>6, OwedOK
<1> QED BY <1>3, <1>4, <1>5, <1>7 DEF WriterInv

\* After an error the batch stays, the handler's price with it.
LEMMA TxFailsOK ==
    ASSUME WriterInv, Reader!ConsumerInv', TxFails PROVE WriterInv'
<1>i. TypeOK /\ Reader!ConsumerInv /\ BatchInv /\ KeptInv /\ OwedInv
  BY DEF WriterInv
<1>b. /\ Len(batch) \in Nat /\ DOMAIN batch = 1..Len(batch)
      /\ BatchSize \in Nat \ {0} /\ dbFaults \in 0..MaxDbFaults
      /\ MaxDbFaults \in Nat
  BY <1>i, BatchFacts, DBWriterAssumption DEF TypeOK, DBWriterAssumption
<1>1. /\ Unlock /\ UNCHANGED batch
      /\ \/ dbFaults < MaxDbFaults /\ dbFaults' = dbFaults + 1
         \/ mu = "ticker" /\ UNCHANGED dbFaults
  BY DEF TxFails, TxFault
<1>2. /\ pc # "down" /\ pc' # "down" /\ mu' = "free" /\ applied' = FALSE
      /\ UNCHANGED <<ticker, table, log, crashes, shutdowns, cancelled>>
      /\ accepted \subseteq accepted' /\ accepted' \subseteq Ids
      /\ \A i \in accepted' : Stored(i) \/ \E n \in DOMAIN batch : batch[n] = i
      /\ \A o \in handled' : o \in handled \/ log[o].id \in accepted'
  BY <1>1, UnlockFacts
<1>f. dbFaults' \in 0..MaxDbFaults /\ dbFaults <= dbFaults'
  BY <1>b, <1>1
<1>3. TypeOK'
  <2>1. Len(batch) < BatchSize + dbFaults + IF mu = "consumer" THEN 1 ELSE 0
    BY <1>i DEF TypeOK
  <2>2. Len(batch) < BatchSize + dbFaults'
    BY <1>b, <1>1, <2>1
  <2>3. Len(batch') < BatchSize + dbFaults' + IF mu' = "consumer" THEN 1 ELSE 0
    BY <1>b, <1>1, <1>2, <1>f, <2>2
  <2> QED BY <1>i, <1>1, <1>2, <1>f, <2>3 DEF TypeOK, Reader!ConsumerInv
<1>4. BatchInv'
  BY <1>i, <1>2 DEF BatchInv
<1>5. KeptInv'
  <2>1. Returned' = DOMAIN batch
    BY <1>b, <1>1, <1>2 DEF Returned, ReturnedRows
  <2> QED BY <1>1, <1>2, <2>1 DEF KeptInv, Stored
<1>6. Owed' \subseteq Owed
  BY <1>2 DEF Owed, Stored
<1>7. OwedInv'
  BY <1>b, <1>f, <1>2, <1>6, OwedOK
<1> QED BY <1>3, <1>4, <1>5, <1>7 DEF WriterInv

\* Nothing moves.
LEMMA StutterOK ==
    ASSUME WriterInv, Reader!ConsumerInv', UNCHANGED vars PROVE WriterInv'
<1>1. /\ UNCHANGED <<batch, mu, applied, ticker, table, dbFaults, accepted>>
      /\ UNCHANGED <<log, pc, pos, cancelled, handled, crashes, shutdowns>>
  BY DEF vars, loopVars, writerVars, batchVars
<1>2. TypeOK'
  BY <1>1 DEF WriterInv, TypeOK, Reader!ConsumerInv
<1>3. BatchInv' /\ KeptInv' /\ OwedInv'
  BY <1>1 DEF WriterInv, BatchInv, KeptInv, OwedInv, Stored, Returned,
              ReturnedRows, Owed, Stops
<1> QED BY <1>2, <1>3 DEF WriterInv

\* Every step keeps the invariant.
LEMMA NextOK == WriterInv /\ [Next]_vars => WriterInv'
<1> SUFFICES ASSUME WriterInv, [Next]_vars PROVE WriterInv'
  OBVIOUS
<1>1. Reader!ConsumerInv'
  BY LoopOK
<1>2. CASE Environment \/ FlushCommits \/ Fetch \/ LoopStep
  BY <1>1, <1>2, QuietOK
<1>3. CASE Start
  BY <1>1, <1>3, StartOK
<1>4. CASE Crash \/ Exit
  BY <1>1, <1>4, EndOK
<1>5. CASE AddReturns
  BY <1>1, <1>5, AddReturnsOK
<1>6. CASE AddFlushes
  BY <1>1, <1>6, AddFlushesOK
<1>7. CASE TickerFlush \/ TickerEnds
  BY <1>1, <1>7, TickerOK
<1>8. CASE TxApplies
  BY <1>1, <1>8, TxAppliesOK
<1>9. CASE TxCommits
  BY <1>1, <1>9, TxCommitsOK
<1>10. CASE TxFails
  BY <1>1, <1>10, TxFailsOK
<1>11. CASE UNCHANGED vars
  BY <1>1, <1>11, StutterOK
<1> QED
  BY <1>2, <1>3, <1>4, <1>5, <1>6, <1>7, <1>8, <1>9, <1>10, <1>11
     DEF Next, Loop, Flush

\* Nothing has happened yet.
LEMMA InitOK == Init => WriterInv
<1> SUFFICES ASSUME Init PROVE WriterInv
  OBVIOUS
<1>1. Reader!ConsumerInv
  BY LoopInvariant DEF Init
<1>2. TypeOK
  <2>1. 0 \in 0..MaxDbFaults /\ BatchSize \in Nat \ {0}
    BY DBWriterAssumption DEF DBWriterAssumption
  <2>2. batch \in Seq(Ids) /\ Len(batch) = 0
    BY DEF Init
  <2>3. Len(batch) < BatchSize + dbFaults + IF mu = "consumer" THEN 1 ELSE 0
    BY <2>1, <2>2 DEF Init
  <2>4. table \in [Keys -> 0..1]
    BY DEF Init
  <2>5. Reader!TypeOK
    BY <1>1 DEF Reader!ConsumerInv
  <2> QED BY <2>1, <2>2, <2>3, <2>4, <2>5 DEF Init, TypeOK
<1>3. BatchInv /\ KeptInv
  BY DEF Init, Reader!Init, BatchInv, KeptInv
<1>4. OwedInv
  <2>1. Owed = {} /\ Stops = 0
    BY DEF Init, Reader!Init, Owed, Stops
  <2>2. 0 * (BatchSize - 1 + dbFaults) = 0
    BY <1>2, <1>3, BatchFacts
  <2> QED BY <2>1, <2>2, FS_EmptySet DEF OwedInv
<1> QED BY <1>1, <1>2, <1>3, <1>4 DEF WriterInv

----------------------------------------------------------------------------
(* The theorems. *)

\* Over every interleaving of the handler, the ticker, the database and the
\* stops of the process, the inductive invariant holds.
THEOREM WriterInvariant == SafetySpec => []WriterInv
<1> QED BY InitOK, NextOK, PTL DEF SafetySpec

\* The types: at most one row per key however often a batch is written again,
\* and a batch that outgrows its size by no more than the failed transactions.
THEOREM TypeCorrect == SafetySpec => []TypeOK
<1>1. WriterInv => TypeOK
  BY DEF WriterInv
<1> QED BY <1>1, WriterInvariant, PTL

\* An accepted price is in the batch or in the table as long as the process
\* that accepted it lives.
THEOREM AcceptedKept == SafetySpec => []AcceptedIsKept
<1>1. WriterInv => AcceptedIsKept
  <2> SUFFICES ASSUME WriterInv, NEW i \in accepted PROVE InBatch(i) \/ Stored(i)
    BY DEF AcceptedIsKept
  <2>1. Returned \subseteq DOMAIN batch
    BY BatchFacts DEF WriterInv
  <2> QED BY <2>1 DEF WriterInv, KeptInv, InBatch
<1> QED BY <1>1, WriterInvariant, PTL

\* Each crash and each shutdown loses less than a batch, whatever the size of
\* the batch and the number of stops.
THEOREM LossBounded == SafetySpec => []LossBound
<1>1. WriterInv => LossBound
  <2> SUFFICES ASSUME WriterInv PROVE LossBound
    OBVIOUS
  <2>i. TypeOK /\ Reader!ConsumerInv /\ BatchInv /\ KeptInv /\ OwedInv
    BY DEF WriterInv
  <2>1. Lost \subseteq Owed
    <3>1. Returned \subseteq DOMAIN batch
      BY <2>i, BatchFacts
    <3> QED BY <2>i, <3>1 DEF Lost, Owed, KeptInv, InBatch
  <2>2. /\ Cardinality(Lost) \in Nat /\ Cardinality(Owed) \in Nat
        /\ Cardinality(Lost) <= Cardinality(Owed)
    BY <2>i, <2>1, FS_Subset, FS_CardinalityType DEF OwedInv
  <2>3. /\ Stops \in Nat /\ crashes + shutdowns \in Nat /\ Stops <= crashes + shutdowns
    <3>1. crashes \in Nat /\ shutdowns \in Nat
      BY <2>i, LoopFacts
    <3> QED BY <2>i, <3>1, StopsAreNat DEF Stops
  <2> DEFINE b == BatchSize - 1 + dbFaults
  <2>4. b \in Nat /\ b <= b
    BY <2>i, BatchFacts
  <2>5. Cardinality(Owed) <= Stops * b
    BY <2>i DEF OwedInv
  <2> HIDE DEF b
  <2>6. /\ Stops * b <= (crashes + shutdowns) * b
        /\ Stops * b \in Nat /\ (crashes + shutdowns) * b \in Nat
    BY <2>3, <2>4, LargerProduct
  <2>7. Cardinality(Lost) <= (crashes + shutdowns) * b
    BY <2>2, <2>5, <2>6
  <2> QED BY <2>7 DEF LossBound, b
<1> QED BY <1>1, WriterInvariant, PTL

\* The service is an instance of the consume loop: the mutex and the
\* transactions under it never make the loop do what it does not do by itself.
THEOREM ReaderImplemented == SafetySpec => Reader!SafetySpec
<1>1. Init => Reader!Init
  BY DEF Init
<1> QED BY <1>1, StepImplements, PTL DEF SafetySpec, Reader!SafetySpec

=============================================================================
