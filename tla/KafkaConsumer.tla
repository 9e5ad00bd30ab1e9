--------------------------- MODULE KafkaConsumer ---------------------------
(***************************************************************************)
(* The consume loop every service of Termino runs (pkg/kafka/consumer.go): *)
(* fetch a message, hand it to the service's handler, on an error          *)
(* republish it with a higher retry-count or move it to the dead letter    *)
(* queue, then commit its offset.                                          *)
(*                                                                         *)
(* One partition of one topic and the one process of the group that owns   *)
(* it: the loop handles the messages of a partition one at a time, and     *)
(* messages of one symbol share a partition.  Offset n is the n-th message *)
(* of the partition, and a committed offset n says that the first n        *)
(* messages are done with; NoOffset is a group that has committed nothing. *)
(*                                                                         *)
(* What the broker and kafka-go do is modelled from how the code uses it:  *)
(* a write may fail with or without having reached the log, CommitMessages *)
(* only notes the offset (CommitInterval is set) and a background loop     *)
(* sends it later, and a group without a committed offset starts at the    *)
(* end of the partition (StartOffset is LastOffset).  A republished        *)
(* message names the consumed topic (line 110) on a writer made for the    *)
(* dead letter topic: the code counts on the writer taking it, kafka-go    *)
(* 0.4.50 (go.mod) refuses a topic set on both; RepublishAccepted says     *)
(* which of the two.                                                       *)
(***************************************************************************)
EXTENDS Integers, Sequences

CONSTANTS
    Ids,          \* the messages that the topic's producer writes
    Poison,       \* those the handler rejects at every attempt (undecodable)
    MaxRetries,   \* DLQ_MAX_RETRIES
    RepublishAccepted, \* whether the dead letter writer takes a message that
                       \* names a topic of its own
    MaxFaults,    \* bound: how often a handler or a write fails by itself
    MaxCrashes,   \* bound: how often the process is killed
    MaxShutdowns  \* bound: how often it is asked to stop (SIGTERM)

ASSUME ConsumerAssumption ==
    /\ Poison \subseteq Ids
    /\ MaxRetries \in Nat
    /\ MaxFaults \in Nat
    /\ RepublishAccepted \in BOOLEAN
    /\ MaxCrashes \in Nat
    /\ MaxShutdowns \in Nat

NoOffset == -1

Message == [id: Ids, retry: 0..MaxRetries]

\* Where the process is in Consume; "down" when there is no process.
Phase == {"down", "loop", "fetch", "handler", "failure", "dlq", "commit"}

VARIABLES
    log,        \* the partition: every message ever appended, in order
    committed,  \* the offset the broker holds for the group
    pc,         \* the phase of the consume loop
    pos,        \* the last offset fetched; the message in hand, if there is one
    stash,      \* offset noted by CommitMessages and not yet sent to the broker
    cancelled,  \* the process's context is cancelled
    handled,    \* offsets the handler accepted
    retried,    \* offsets republished, the write acknowledged
    dead,       \* offsets with a copy in the dead letter queue
    dropped,    \* offsets given up: the write to the queue failed
    base,       \* where the process that found no committed offset started
    faults, crashes, shutdowns

topicVars == <<log, committed>>
readerVars == <<pos, stash, cancelled, base>>
fateVars == <<handled, retried, dead, dropped>>
stopVars == <<crashes, shutdowns>>
vars == <<topicVars, pc, readerVars, fateVars, faults, stopVars>>

Goto(from, to) == pc = from /\ pc' = to

Settled == handled \cup retried \cup dead \cup dropped

Init ==
    /\ log = <<>>
    /\ committed = NoOffset
    /\ pc = "down"
    /\ pos = 0
    /\ stash = NoOffset
    /\ cancelled = FALSE
    /\ handled = {} /\ retried = {} /\ dead = {} /\ dropped = {}
    /\ base = 0
    /\ faults = 0 /\ crashes = 0 /\ shutdowns = 0

----------------------------------------------------------------------------
(* The broker and the operator. *)

\* Another service publishes a message to the topic.
Produce(i) ==
    /\ \A o \in DOMAIN log : log[o].id # i
    /\ log' = Append(log, [id |-> i, retry |-> 0])
    /\ UNCHANGED <<committed, pc, readerVars, fateVars, faults, stopVars>>

\* Variants, here and below, are bugs that the properties must notice.  A group
\* member that starts at the end of the partition whatever is committed.
StartAtEnd ==
    /\ Goto("down", "loop")
    /\ pos' = Len(log)
    /\ base' = IF committed = NoOffset THEN Len(log) ELSE base
    /\ stash' = NoOffset
    /\ cancelled' = FALSE
    /\ UNCHANGED <<topicVars, fateVars, faults, stopVars>>

\* Variant: one that starts at the beginning of the partition.
StartAtBeginning ==
    /\ Goto("down", "loop")
    /\ pos' = 0 /\ base' = 0
    /\ stash' = NoOffset
    /\ cancelled' = FALSE
    /\ UNCHANGED <<topicVars, fateVars, faults, stopVars>>

\* The process starts, or is started again, and joins the group.
Start ==
    /\ Goto("down", "loop")
    /\ pos' = IF committed = NoOffset THEN Len(log) ELSE committed
    /\ base' = IF committed = NoOffset THEN Len(log) ELSE base
    /\ stash' = NoOffset
    /\ cancelled' = FALSE
    /\ UNCHANGED <<topicVars, fateVars, faults, stopVars>>

\* The process is killed: what was noted and not sent is gone.
Crash ==
    /\ pc # "down"
    /\ crashes < MaxCrashes
    /\ crashes' = crashes + 1
    /\ pc' = "down"
    /\ stash' = NoOffset
    /\ UNCHANGED <<topicVars, pos, cancelled, base, fateVars, faults, shutdowns>>

\* SIGINT or SIGTERM: the service cancels the context Consume runs with.
Cancel ==
    /\ pc # "down"
    /\ ~cancelled
    /\ shutdowns < MaxShutdowns
    /\ shutdowns' = shutdowns + 1
    /\ cancelled' = TRUE
    /\ UNCHANGED <<topicVars, pc, pos, stash, base, fateVars, faults, crashes>>

\* The reader's background loop sends the noted offset to the broker.
FlushCommits ==
    /\ pc # "down"
    /\ stash # NoOffset
    /\ committed' = stash
    /\ stash' = NoOffset
    /\ UNCHANGED <<log, pc, pos, cancelled, base, fateVars, faults, stopVars>>

----------------------------------------------------------------------------
(* Consume. *)

\* for { select { default: FetchMessage ...
BeginFetch ==
    /\ Goto("loop", "fetch")
    /\ ~cancelled
    /\ UNCHANGED <<topicVars, readerVars, fateVars, faults, stopVars>>

\* case <-ctx.Done(): return c.reader.Close(), which sends what was noted, if
\* the broker answers.
ExitClosing ==
    /\ Goto("loop", "down")
    /\ cancelled
    /\ committed' \in {committed, IF stash = NoOffset THEN committed ELSE stash}
    /\ stash' = NoOffset
    /\ UNCHANGED <<log, pos, cancelled, base, fateVars, faults, stopVars>>

\* Variant: ReadMessage, which commits what it returns.
FetchAndCommit ==
    /\ Goto("fetch", "handler")
    /\ pos < Len(log)
    /\ pos' = pos + 1
    /\ stash' = pos + 1
    /\ UNCHANGED <<topicVars, cancelled, base, fateVars, faults, stopVars>>

Fetch ==
    /\ Goto("fetch", "handler")
    /\ pos < Len(log)
    /\ pos' = pos + 1
    /\ UNCHANGED <<topicVars, stash, cancelled, base, fateVars, faults, stopVars>>

\* FetchMessage failed and the context is alive: log it and go round.
FetchError ==
    /\ Goto("fetch", "loop")
    /\ ~cancelled
    /\ UNCHANGED <<topicVars, readerVars, fateVars, faults, stopVars>>

\* FetchMessage returned because of the cancelled context: Consume returns
\* without closing the reader, and main ends the process.
ExitFetching ==
    /\ Goto("fetch", "down")
    /\ cancelled
    /\ stash' = NoOffset
    /\ UNCHANGED <<topicVars, pos, cancelled, base, fateVars, faults, stopVars>>

\* A handler or a write can fail on its own, and under a cancelled context.
Fail ==
    \/ cancelled /\ UNCHANGED faults
    \/ faults < MaxFaults /\ faults' = faults + 1

HandlerOk ==
    /\ Goto("handler", "commit")
    /\ log[pos].id \notin Poison
    /\ handled' = handled \cup {pos}
    /\ UNCHANGED <<topicVars, readerVars, retried, dead, dropped, faults, stopVars>>

\* Variant: a rejected message is fetched again until the handler accepts it.
HandlerErrRefetches ==
    /\ Goto("handler", "loop")
    /\ \/ log[pos].id \in Poison /\ UNCHANGED faults
       \/ Fail
    /\ pos' = pos - 1
    /\ UNCHANGED <<topicVars, stash, cancelled, base, fateVars, stopVars>>

HandlerErr ==
    /\ Goto("handler", "failure")
    /\ \/ log[pos].id \in Poison /\ UNCHANGED faults
       \/ Fail
    /\ UNCHANGED <<topicVars, readerVars, fateVars, stopVars>>

Republished == [log[pos] EXCEPT !.retry = @ + 1]

\* Variant: one retry too many.
RetryPastLimit ==
    /\ Goto("failure", "commit")
    /\ RepublishAccepted
    /\ log[pos].retry <= MaxRetries
    /\ log' = Append(log, Republished)
    /\ retried' = retried \cup {pos}
    /\ UNCHANGED <<committed, readerVars, handled, dead, dropped, faults, stopVars>>

\* Variant: the write does not wait for the broker (Async, or RequireNone).
RetryUnacknowledged ==
    /\ Goto("failure", "commit")
    /\ RepublishAccepted
    /\ log[pos].retry < MaxRetries
    /\ log' \in {log, Append(log, Republished)}
    /\ retried' = retried \cup {pos}
    /\ UNCHANGED <<committed, readerVars, handled, dead, dropped, faults, stopVars>>

\* handleFailure below the retry limit, and the republished copy is
\* acknowledged: done with this offset.
Retry ==
    /\ Goto("failure", "commit")
    /\ RepublishAccepted
    /\ log[pos].retry < MaxRetries
    /\ log' = Append(log, Republished)
    /\ retried' = retried \cup {pos}
    /\ UNCHANGED <<committed, readerVars, handled, dead, dropped, faults, stopVars>>

\* handleFailure below the retry limit, and the write returns an error; when
\* it was not refused outright, the copy may have reached the log.
RetryFails ==
    /\ Goto("failure", "dlq")
    /\ log[pos].retry < MaxRetries
    /\ \/ ~RepublishAccepted /\ UNCHANGED <<log, faults>>
       \/ RepublishAccepted /\ Fail /\ log' \in {log, Append(log, Republished)}
    /\ UNCHANGED <<committed, readerVars, fateVars, stopVars>>

\* Variant: gives up one attempt early.
RetriesExhaustedEarly ==
    /\ Goto("failure", "dlq")
    /\ log[pos].retry + 1 >= MaxRetries
    /\ UNCHANGED <<topicVars, readerVars, fateVars, faults, stopVars>>

RetriesExhausted ==
    /\ Goto("failure", "dlq")
    /\ log[pos].retry >= MaxRetries
    /\ UNCHANGED <<topicVars, readerVars, fateVars, faults, stopVars>>

SendToDLQ ==
    /\ Goto("dlq", "commit")
    /\ dead' = dead \cup {pos}
    /\ UNCHANGED <<topicVars, readerVars, handled, retried, dropped, faults, stopVars>>

\* "CRITICAL: failed to send message to DLQ" is logged, and Consume goes on
\* to commit; the copy may have reached the queue all the same.
SendToDLQFails ==
    /\ Goto("dlq", "commit")
    /\ Fail
    /\ dropped' = dropped \cup {pos}
    /\ dead' \in {dead, dead \cup {pos}}
    /\ UNCHANGED <<topicVars, readerVars, handled, retried, stopVars>>

\* CommitMessages hands the offset to the background loop.
Commit ==
    /\ Goto("commit", "loop")
    /\ stash' = pos
    /\ UNCHANGED <<topicVars, pos, cancelled, base, fateVars, faults, stopVars>>

\* Under a cancelled context CommitMessages may return its error instead,
\* which is only logged.
CommitError ==
    /\ Goto("commit", "loop")
    /\ cancelled
    /\ UNCHANGED <<topicVars, readerVars, fateVars, faults, stopVars>>

HandleFailure == Retry \/ RetryFails \/ RetriesExhausted

Consume ==
    \/ BeginFetch \/ ExitClosing
    \/ Fetch \/ FetchError \/ ExitFetching
    \/ HandlerOk \/ HandlerErr
    \/ HandleFailure
    \/ SendToDLQ \/ SendToDLQFails
    \/ Commit \/ CommitError

Next ==
    \/ \E i \in Ids : Produce(i)
    \/ Start \/ Crash \/ Cancel \/ FlushCommits
    \/ Consume

SafetySpec == Init /\ [][Next]_vars

\* The goroutine is scheduled, the background loop ticks, a stopped service
\* is started again (restart: unless-stopped), and the broker does not refuse
\* every fetch forever.
Fairness ==
    /\ WF_vars(Consume)
    /\ SF_vars(Fetch)
    /\ WF_vars(FlushCommits)
    /\ WF_vars(Start)

Spec == SafetySpec /\ Fairness

----------------------------------------------------------------------------
(* Properties. *)

TypeOK ==
    /\ log \in Seq(Message)
    /\ committed \in Nat \cup {NoOffset}
    /\ pc \in Phase
    /\ pos \in Nat
    /\ stash \in Nat \cup {NoOffset}
    /\ cancelled \in BOOLEAN
    /\ handled \subseteq DOMAIN log
    /\ retried \subseteq DOMAIN log
    /\ dead \subseteq DOMAIN log
    /\ dropped \subseteq DOMAIN log
    /\ base \in 0..Len(log)
    /\ faults \in 0..MaxFaults
    /\ crashes \in 0..MaxCrashes
    /\ shutdowns \in 0..MaxShutdowns

\* Each commit passes only messages that were accepted by the handler,
\* republished, put in the dead letter queue, or given up with a CRITICAL log
\* line: those between the offset committed before and the new one or, at the
\* first commit of the group, those behind where the process that makes it has
\* started.  Commits are noted first and sent later, over crashes and restarts.
\* Not among them is what an earlier process of the group had fetched before any
\* commit: the next one starts at the end (line 31), and its commit passes it.
CommitsOnlySettled ==
    [][LET last == IF committed = NoOffset THEN base ELSE committed
       IN  \A o \in (last + 1)..committed' : o \in Settled']_vars

\* A group that has committed redelivers the work of a process that was killed
\* or stopped: whatever that one had fetched and not dealt with, in the middle
\* of the handler, of the republishing or of the dead letter write, is ahead of
\* the process that is started after it.
WorkIsRedelivered ==
    [][pc = "down" /\ pc' # "down" /\ committed # NoOffset =>
          \A o \in (base + 1)..pos : o \in Settled \/ o > pos']_vars

\* A message counted as republished is in the log again, behind itself, with
\* one more retry: handing a failed message on never loses it and never lets
\* it start over.
RetryIsInLog ==
    \A o \in retried : \E c \in (o + 1)..Len(log) :
        log[c] = [log[o] EXCEPT !.retry = @ + 1]

\* With no fault and no shutdown, a message is in the dead letter queue only
\* after DLQ_MAX_RETRIES attempts to handle it again.
DeadWereRetried ==
    faults = 0 /\ shutdowns = 0 => \A o \in dead : log[o].retry = MaxRetries

\* A message behind base that the committed offset has passed was handled, is
\* in the log again, or is in the dead letter queue: nothing committed is lost.
CommittedIsNotLost ==
    \A o \in (base + 1)..committed : o \in handled \cup retried \cup dead

\* A message is being worked on.
InHand == pc \in {"handler", "failure", "dlq"}

\* The inductive invariant.  Frontier is how far the process has got: all the
\* messages behind base up to it have been dealt with.
Frontier == IF InHand THEN pos - 1 ELSE pos
SettledUpTo(n) == \A o \in (base + 1)..n : o \in Settled

ReaderInv ==
    /\ pc # "down" => pos \in base..Len(log) /\ SettledUpTo(Frontier)
    /\ InHand \/ pc = "commit" => pos > base

OffsetInv ==
    /\ stash # NoOffset =>
          pc # "down" /\ stash \in base..Frontier /\ committed <= stash
    /\ committed # NoOffset =>
          /\ committed \in base..Len(log)
          /\ SettledUpTo(committed)
          /\ pc # "down" => committed <= Frontier

FaultlessInv ==
    faults = 0 /\ shutdowns = 0 =>
        /\ ~cancelled
        /\ dropped = {}
        /\ RepublishAccepted =>
              /\ pc = "dlq" => log[pos].retry = MaxRetries
              /\ \A o \in dead : log[o].retry = MaxRetries

ConsumerInv == TypeOK /\ ReaderInv /\ OffsetInv /\ RetryIsInLog /\ FaultlessInv

\* The group's offset only moves forward, whatever crashes, restarts and
\* delayed commits do.
CommittedNeverRegresses == [][committed' >= committed]_vars

\* Every message that the process is in time for is in the end accepted, in
\* the dead letter queue or given up, through however many republished copies:
\* no failing message is retried forever or blocks the ones behind it.
Decided(i) == \E o \in handled \cup dead \cup dropped : log[o].id = i
Pending(i) == \E o \in DOMAIN log : o > base /\ log[o].id = i
EveryMessageIsDecided ==
    \A i \in Ids : Pending(i) /\ pc # "down" ~> Decided(i) \/ ~Pending(i)
=============================================================================
