------------------------ MODULE KafkaConsumerProofs ------------------------
(***************************************************************************)
(* Safety of the consume loop for every set of messages, retry limit and   *)
(* number of faults, crashes and shutdowns.  ConsumerInv is inductive; the *)
(* properties follow from it.                                              *)
(***************************************************************************)
EXTENDS KafkaConsumer, TLAPS

LEMMA InitOK == Init => ConsumerInv
<1> SUFFICES ASSUME Init PROVE ConsumerInv
  OBVIOUS
<1>1. log \in Seq(Message) /\ Len(log) = 0 /\ DOMAIN log = {}
  BY DEF Init
<1>2. TypeOK
  <2>1. /\ 0 \in 0..MaxFaults /\ 0 \in 0..MaxCrashes /\ 0 \in 0..MaxShutdowns
    BY ConsumerAssumption DEF ConsumerAssumption
  <2>2. base \in 0..Len(log)
    BY <1>1 DEF Init
  <2>3. /\ handled \subseteq DOMAIN log /\ retried \subseteq DOMAIN log
        /\ dead \subseteq DOMAIN log /\ dropped \subseteq DOMAIN log
    BY DEF Init
  <2> QED BY <1>1, <2>1, <2>2, <2>3 DEF Init, TypeOK, Phase
<1>3. ReaderInv /\ OffsetInv /\ RetryIsInLog /\ FaultlessInv
  BY <1>1 DEF Init, ReaderInv, OffsetInv, RetryIsInLog, FaultlessInv, InHand
<1> QED BY <1>2, <1>3 DEF ConsumerInv

\* Appending to the partition keeps every message where it is.
LEMMA AppendKeeps ==
    ASSUME NEW m \in Message, log \in Seq(Message)
    PROVE  /\ Append(log, m) \in Seq(Message)
           /\ Len(Append(log, m)) = Len(log) + 1
           /\ \A o \in DOMAIN log : Append(log, m)[o] = log[o]
           /\ Append(log, m)[Len(log) + 1] = m
           /\ DOMAIN log = 1..Len(log)
           /\ DOMAIN Append(log, m) = 1..(Len(log) + 1)
OBVIOUS

\* What an append to the partition alone leaves true.
LEMMA AppendStep ==
    ASSUME ConsumerInv, NEW m \in Message,
           log' = Append(log, m),
           UNCHANGED <<committed, pc, readerVars, fateVars, faults, stopVars>>
    PROVE  ConsumerInv'
<1>1. /\ log \in Seq(Message) /\ base \in 0..Len(log) /\ pos \in Nat
  BY DEF ConsumerInv, TypeOK
<1>2. /\ log' \in Seq(Message) /\ Len(log') = Len(log) + 1
      /\ \A o \in DOMAIN log : log'[o] = log[o]
      /\ DOMAIN log = 1..Len(log) /\ DOMAIN log' = 1..(Len(log) + 1)
      /\ Len(log) \in Nat
  BY <1>1, AppendKeeps
<1>3. TypeOK'
  BY <1>1, <1>2 DEF ConsumerInv, TypeOK, readerVars, fateVars, stopVars
<1>4. ReaderInv' /\ OffsetInv'
  BY <1>1, <1>2
     DEF ConsumerInv, TypeOK, ReaderInv, OffsetInv, SettledUpTo, Frontier,
         InHand, Settled, readerVars, fateVars, NoOffset
<1>5. RetryIsInLog'
  <2>1. SUFFICES ASSUME NEW o \in retried
                 PROVE  \E c \in (o + 1)..Len(log') :
                            log'[c] = [log'[o] EXCEPT !.retry = @ + 1]
    BY DEF RetryIsInLog, fateVars
  <2>2. PICK c \in (o + 1)..Len(log) : log[c] = [log[o] EXCEPT !.retry = @ + 1]
    BY DEF ConsumerInv, RetryIsInLog
  <2>3. o \in DOMAIN log /\ c \in DOMAIN log /\ c \in (o + 1)..Len(log')
    BY <1>2, <2>2 DEF ConsumerInv, TypeOK
  <2> QED BY <1>2, <2>2, <2>3
<1>6. FaultlessInv'
  <2>1. pc = "dlq" => pos \in DOMAIN log
    BY <1>1, <1>2 DEF ConsumerInv, ReaderInv, InHand
  <2> QED
    BY <1>2, <2>1
       DEF ConsumerInv, TypeOK, FaultlessInv, readerVars, fateVars, stopVars
<1> QED BY <1>3, <1>4, <1>5, <1>6 DEF ConsumerInv

\* Every step of the consume loop, the broker and the operator keeps the
\* invariant.
LEMMA NextOK == ConsumerInv /\ [Next]_vars => ConsumerInv'
<1> SUFFICES ASSUME ConsumerInv, [Next]_vars PROVE ConsumerInv'
  OBVIOUS
<1> USE DEF Goto, topicVars, readerVars, fateVars, stopVars
<1>i. TypeOK /\ ReaderInv /\ OffsetInv /\ RetryIsInLog /\ FaultlessInv
  BY DEF ConsumerInv
<1>t. /\ log \in Seq(Message) /\ committed \in Nat \cup {-1} /\ pc \in Phase
      /\ pos \in Nat /\ stash \in Nat \cup {-1} /\ base \in 0..Len(log)
  BY <1>i DEF TypeOK, NoOffset
<1>0. /\ DOMAIN log = 1..Len(log) /\ Len(log) \in Nat
      /\ InHand \/ pc = "commit" => pos \in DOMAIN log
  BY <1>i, <1>t DEF ReaderInv, InHand
<1>c. /\ MaxRetries \in Nat /\ MaxFaults \in Nat
      /\ MaxCrashes \in Nat /\ MaxShutdowns \in Nat
  BY ConsumerAssumption DEF ConsumerAssumption
<1>m. InHand => /\ log[pos] \in Message
                /\ log[pos].id \in Ids /\ log[pos].retry \in 0..MaxRetries
                /\ Republished = [id |-> log[pos].id, retry |-> log[pos].retry + 1]
  <2>1. InHand => log[pos] \in Message
    BY <1>t, <1>0
  <2> QED BY <2>1 DEF Message, Republished
<1>r. UNCHANGED <<log, retried>> => RetryIsInLog'
  BY <1>i DEF RetryIsInLog
<1>1. ASSUME NEW i \in Ids, Produce(i) PROVE ConsumerInv'
  <2>1. [id |-> i, retry |-> 0] \in Message
    BY ConsumerAssumption DEF ConsumerAssumption, Message
  <2> QED BY <2>1, <1>1, AppendStep DEF Produce
<1>2. CASE Start
  <2>1. TypeOK'
    <3>1. pos' \in Nat /\ base' \in 0..Len(log)
      BY <1>t, <1>0, <1>2 DEF Start, NoOffset
    <3>2. /\ UNCHANGED <<topicVars, fateVars, faults, stopVars>>
          /\ pc' = "loop" /\ stash' = NoOffset /\ cancelled' = FALSE
      BY <1>2 DEF Start
    <3> QED BY <1>i, <3>1, <3>2 DEF TypeOK, Phase
  <2>2. ReaderInv' /\ OffsetInv'
    BY <1>i, <1>t, <1>0, <1>2
       DEF Start, ReaderInv, OffsetInv, SettledUpTo, Settled, Frontier,
           InHand, NoOffset
  <2>3. FaultlessInv'
    BY <1>i, <1>0, <1>2
       DEF Start, FaultlessInv, TypeOK, InHand
  <2> QED BY <1>r, <1>2, <2>1, <2>2, <2>3 DEF Start, ConsumerInv
<1>3. CASE Crash
  <2>1. TypeOK'
    BY <1>i, <1>t, <1>c, <1>0, <1>3
       DEF Crash, TypeOK, NoOffset, Phase, InHand
  <2>2. ReaderInv' /\ OffsetInv'
    BY <1>i, <1>t, <1>0, <1>3
       DEF Crash, ReaderInv, OffsetInv, SettledUpTo, Settled, Frontier,
           InHand, NoOffset
  <2>3. FaultlessInv'
    BY <1>i, <1>0, <1>3
       DEF Crash, FaultlessInv, TypeOK, InHand
  <2> QED BY <1>r, <1>3, <2>1, <2>2, <2>3 DEF Crash, ConsumerInv
<1>4. CASE Cancel
  <2>1. TypeOK'
    BY <1>i, <1>t, <1>c, <1>0, <1>4
       DEF Cancel, TypeOK, NoOffset, Phase, InHand
  <2>2. ReaderInv' /\ OffsetInv'
    BY <1>i, <1>t, <1>0, <1>4
       DEF Cancel, ReaderInv, OffsetInv, SettledUpTo, Settled, Frontier,
           InHand, NoOffset
  <2>3. FaultlessInv'
    BY <1>i, <1>0, <1>4
       DEF Cancel, FaultlessInv, TypeOK, InHand
  <2> QED BY <1>r, <1>4, <2>1, <2>2, <2>3 DEF Cancel, ConsumerInv
<1>5. CASE FlushCommits
  <2>1. TypeOK'
    BY <1>i, <1>t, <1>c, <1>0, <1>5
       DEF FlushCommits, TypeOK, NoOffset, Phase, InHand
  <2>2. ReaderInv' /\ OffsetInv'
    BY <1>i, <1>t, <1>0, <1>5
       DEF FlushCommits, ReaderInv, OffsetInv, SettledUpTo, Settled, Frontier,
           InHand, NoOffset
  <2>3. FaultlessInv'
    BY <1>i, <1>0, <1>5
       DEF FlushCommits, FaultlessInv, TypeOK, InHand
  <2> QED BY <1>r, <1>5, <2>1, <2>2, <2>3 DEF FlushCommits, ConsumerInv
<1>6. CASE BeginFetch
  <2>1. TypeOK'
    BY <1>i, <1>t, <1>c, <1>0, <1>6
       DEF BeginFetch, TypeOK, NoOffset, Phase, InHand
  <2>2. ReaderInv' /\ OffsetInv'
    BY <1>i, <1>t, <1>0, <1>6
       DEF BeginFetch, ReaderInv, OffsetInv, SettledUpTo, Settled, Frontier,
           InHand, NoOffset
  <2>3. FaultlessInv'
    BY <1>i, <1>0, <1>6
       DEF BeginFetch, FaultlessInv, TypeOK, InHand
  <2> QED BY <1>r, <1>6, <2>1, <2>2, <2>3 DEF BeginFetch, ConsumerInv
<1>7. CASE ExitClosing
  <2>1. TypeOK'
    BY <1>i, <1>t, <1>c, <1>0, <1>7
       DEF ExitClosing, TypeOK, NoOffset, Phase, InHand
  <2>2. ReaderInv' /\ OffsetInv'
    BY <1>i, <1>t, <1>0, <1>7
       DEF ExitClosing, ReaderInv, OffsetInv, SettledUpTo, Settled, Frontier,
           InHand, NoOffset
  <2>3. FaultlessInv'
    BY <1>i, <1>0, <1>7
       DEF ExitClosing, FaultlessInv, TypeOK, InHand
  <2> QED BY <1>r, <1>7, <2>1, <2>2, <2>3 DEF ExitClosing, ConsumerInv
<1>8. CASE Fetch
  <2>1. TypeOK'
    BY <1>i, <1>t, <1>c, <1>0, <1>8
       DEF Fetch, TypeOK, NoOffset, Phase, InHand
  <2>2. ReaderInv' /\ OffsetInv'
    BY <1>i, <1>t, <1>0, <1>8
       DEF Fetch, ReaderInv, OffsetInv, SettledUpTo, Settled, Frontier,
           InHand, NoOffset
  <2>3. FaultlessInv'
    BY <1>i, <1>0, <1>8
       DEF Fetch, FaultlessInv, TypeOK, InHand
  <2> QED BY <1>r, <1>8, <2>1, <2>2, <2>3 DEF Fetch, ConsumerInv
<1>9. CASE FetchError
  <2>1. TypeOK'
    BY <1>i, <1>t, <1>c, <1>0, <1>9
       DEF FetchError, TypeOK, NoOffset, Phase, InHand
  <2>2. ReaderInv' /\ OffsetInv'
    BY <1>i, <1>t, <1>0, <1>9
       DEF FetchError, ReaderInv, OffsetInv, SettledUpTo, Settled, Frontier,
           InHand, NoOffset
  <2>3. FaultlessInv'
    BY <1>i, <1>0, <1>9
       DEF FetchError, FaultlessInv, TypeOK, InHand
  <2> QED BY <1>r, <1>9, <2>1, <2>2, <2>3 DEF FetchError, ConsumerInv
<1>10. CASE ExitFetching
  <2>1. TypeOK'
    BY <1>i, <1>t, <1>c, <1>0, <1>10
       DEF ExitFetching, TypeOK, NoOffset, Phase, InHand
  <2>2. ReaderInv' /\ OffsetInv'
    BY <1>i, <1>t, <1>0, <1>10
       DEF ExitFetching, ReaderInv, OffsetInv, SettledUpTo, Settled, Frontier,
           InHand, NoOffset
  <2>3. FaultlessInv'
    BY <1>i, <1>0, <1>10
       DEF ExitFetching, FaultlessInv, TypeOK, InHand
  <2> QED BY <1>r, <1>10, <2>1, <2>2, <2>3 DEF ExitFetching, ConsumerInv
<1>11. CASE HandlerOk
  <2>1. TypeOK'
    BY <1>i, <1>t, <1>c, <1>0, <1>11
       DEF HandlerOk, TypeOK, NoOffset, Phase, InHand
  <2>2. ReaderInv' /\ OffsetInv'
    BY <1>i, <1>t, <1>0, <1>11
       DEF HandlerOk, ReaderInv, OffsetInv, SettledUpTo, Settled, Frontier,
           InHand, NoOffset
  <2>3. FaultlessInv'
    BY <1>i, <1>0, <1>11
       DEF HandlerOk, FaultlessInv, TypeOK, InHand
  <2> QED BY <1>r, <1>11, <2>1, <2>2, <2>3 DEF HandlerOk, ConsumerInv
<1>12. CASE HandlerErr
  <2>1. TypeOK'
    BY <1>i, <1>t, <1>c, <1>0, <1>12
       DEF HandlerErr, Fail, TypeOK, NoOffset, Phase, InHand
  <2>2. ReaderInv' /\ OffsetInv'
    BY <1>i, <1>t, <1>0, <1>12
       DEF HandlerErr, ReaderInv, OffsetInv, SettledUpTo, Settled, Frontier,
           InHand, NoOffset
  <2>3. FaultlessInv'
    BY <1>i, <1>0, <1>12
       DEF HandlerErr, Fail, FaultlessInv, TypeOK, InHand
  <2> QED BY <1>r, <1>12, <2>1, <2>2, <2>3 DEF HandlerErr, ConsumerInv
<1>13. CASE RetriesExhausted
  <2>1. TypeOK'
    BY <1>i, <1>t, <1>c, <1>0, <1>13
       DEF RetriesExhausted, TypeOK, NoOffset, Phase, InHand
  <2>2. ReaderInv' /\ OffsetInv'
    BY <1>i, <1>t, <1>0, <1>13
       DEF RetriesExhausted, ReaderInv, OffsetInv, SettledUpTo, Settled, Frontier,
           InHand, NoOffset
  <2>3. FaultlessInv'
    BY <1>i, <1>0, <1>c, <1>m, <1>13
       DEF RetriesExhausted, FaultlessInv, TypeOK, InHand
  <2> QED BY <1>r, <1>13, <2>1, <2>2, <2>3 DEF RetriesExhausted, ConsumerInv
<1>14. CASE SendToDLQ
  <2>1. TypeOK'
    BY <1>i, <1>t, <1>c, <1>0, <1>14
       DEF SendToDLQ, TypeOK, NoOffset, Phase, InHand
  <2>2. ReaderInv' /\ OffsetInv'
    BY <1>i, <1>t, <1>0, <1>14
       DEF SendToDLQ, ReaderInv, OffsetInv, SettledUpTo, Settled, Frontier,
           InHand, NoOffset
  <2>3. FaultlessInv'
    BY <1>i, <1>0, <1>14
       DEF SendToDLQ, FaultlessInv, TypeOK, InHand
  <2> QED BY <1>r, <1>14, <2>1, <2>2, <2>3 DEF SendToDLQ, ConsumerInv
<1>15. CASE SendToDLQFails
  <2>1. TypeOK'
    BY <1>i, <1>t, <1>c, <1>0, <1>15
       DEF SendToDLQFails, Fail, TypeOK, NoOffset, Phase, InHand
  <2>2. ReaderInv' /\ OffsetInv'
    BY <1>i, <1>t, <1>0, <1>15
       DEF SendToDLQFails, ReaderInv, OffsetInv, SettledUpTo, Settled, Frontier,
           InHand, NoOffset
  <2>3. FaultlessInv'
    BY <1>i, <1>0, <1>15
       DEF SendToDLQFails, Fail, FaultlessInv, TypeOK, InHand
  <2> QED BY <1>r, <1>15, <2>1, <2>2, <2>3 DEF SendToDLQFails, ConsumerInv
<1>16. CASE Commit
  <2>1. TypeOK'
    BY <1>i, <1>t, <1>c, <1>0, <1>16
       DEF Commit, TypeOK, NoOffset, Phase, InHand
  <2>2. ReaderInv' /\ OffsetInv'
    BY <1>i, <1>t, <1>0, <1>16
       DEF Commit, ReaderInv, OffsetInv, SettledUpTo, Settled, Frontier,
           InHand, NoOffset
  <2>3. FaultlessInv'
    BY <1>i, <1>0, <1>16
       DEF Commit, FaultlessInv, TypeOK, InHand
  <2> QED BY <1>r, <1>16, <2>1, <2>2, <2>3 DEF Commit, ConsumerInv
<1>17. CASE CommitError
  <2>1. TypeOK'
    BY <1>i, <1>t, <1>c, <1>0, <1>17
       DEF CommitError, TypeOK, NoOffset, Phase, InHand
  <2>2. ReaderInv' /\ OffsetInv'
    BY <1>i, <1>t, <1>0, <1>17
       DEF CommitError, ReaderInv, OffsetInv, SettledUpTo, Settled, Frontier,
           InHand, NoOffset
  <2>3. FaultlessInv'
    BY <1>i, <1>0, <1>17
       DEF CommitError, FaultlessInv, TypeOK, InHand
  <2> QED BY <1>r, <1>17, <2>1, <2>2, <2>3 DEF CommitError, ConsumerInv
<1>18. CASE Retry
  <2>1. Republished \in Message
    BY <1>c, <1>m, <1>18 DEF Retry, Message, InHand
  <2>2. /\ log' = Append(log, Republished) /\ log' \in Seq(Message)
        /\ Len(log') = Len(log) + 1 /\ DOMAIN log' = 1..(Len(log) + 1)
        /\ log'[Len(log) + 1] = Republished
        /\ \A o \in DOMAIN log : log'[o] = log[o]
    BY <1>t, <1>18, <2>1, AppendKeeps DEF Retry
  <2>3. TypeOK'
    BY <1>i, <1>0, <1>18, <2>2 DEF Retry, TypeOK, Phase, InHand
  <2>4. ReaderInv' /\ OffsetInv'
    BY <1>i, <1>t, <1>0, <1>18, <2>2
       DEF Retry, ReaderInv, OffsetInv, SettledUpTo, Settled, Frontier,
           InHand, NoOffset
  <2>5. RetryIsInLog'
    <3>1. SUFFICES ASSUME NEW o \in retried'
                   PROVE  \E c \in (o + 1)..Len(log') :
                              log'[c] = [log'[o] EXCEPT !.retry = @ + 1]
      BY DEF RetryIsInLog
    <3>2. CASE o = pos
      <4>1. Len(log) + 1 \in (o + 1)..Len(log')
        BY <1>0, <1>18, <2>2, <3>2 DEF Retry, InHand
      <4>2. log'[Len(log) + 1] = [log'[o] EXCEPT !.retry = @ + 1]
        BY <1>0, <1>18, <2>2, <3>2 DEF Retry, Republished, InHand
      <4> QED BY <4>1, <4>2
    <3>3. CASE o \in retried
      <4>1. PICK c \in (o + 1)..Len(log) :
                     log[c] = [log[o] EXCEPT !.retry = @ + 1]
        BY <1>i, <3>3 DEF RetryIsInLog
      <4>2. o \in DOMAIN log /\ c \in DOMAIN log /\ c \in (o + 1)..Len(log')
        BY <1>i, <1>0, <2>2, <3>3, <4>1 DEF TypeOK
      <4> QED BY <2>2, <4>1, <4>2
    <3> QED BY <1>18, <3>2, <3>3 DEF Retry
  <2>6. FaultlessInv'
    BY <1>i, <1>0, <1>18, <2>2 DEF Retry, FaultlessInv, TypeOK
  <2> QED BY <2>3, <2>4, <2>5, <2>6 DEF ConsumerInv
<1>19. CASE RetryFails
  <2>0. /\ Goto("failure", "dlq")
        /\ UNCHANGED <<committed, readerVars, fateVars, stopVars>>
        /\ UNCHANGED faults \/ (faults < MaxFaults /\ faults' = faults + 1)
    <3>1. /\ Goto("failure", "dlq")
          /\ UNCHANGED <<committed, readerVars, fateVars, stopVars>>
          /\ UNCHANGED faults \/ Fail
      BY <1>19 DEF RetryFails
    <3>2. Fail => UNCHANGED faults \/ (faults < MaxFaults /\ faults' = faults + 1)
      BY DEF Fail
    <3> QED BY <3>1, <3>2
  <2>1. Republished \in Message
    BY <1>c, <1>m, <1>19 DEF RetryFails, Message, InHand
  <2>2. /\ log' \in Seq(Message) /\ DOMAIN log' = 1..Len(log')
        /\ Len(log') \in Nat /\ Len(log') >= Len(log)
        /\ \A o \in DOMAIN log : log'[o] = log[o]
    BY <1>t, <1>0, <1>19, <2>1, AppendKeeps DEF RetryFails
  <2>3. TypeOK'
    BY <1>i, <1>c, <1>0, <2>0, <2>2 DEF TypeOK, Phase
  <2>4. ReaderInv' /\ OffsetInv'
    BY <1>i, <1>t, <1>0, <2>0, <2>2
       DEF ReaderInv, OffsetInv, SettledUpTo, Settled, Frontier,
           InHand, NoOffset
  <2>5. RetryIsInLog'
    <3>1. SUFFICES ASSUME NEW o \in retried
                   PROVE  \E c \in (o + 1)..Len(log') :
                              log'[c] = [log'[o] EXCEPT !.retry = @ + 1]
      BY <1>19 DEF RetryFails, RetryIsInLog
    <3>2. PICK c \in (o + 1)..Len(log) :
                   log[c] = [log[o] EXCEPT !.retry = @ + 1]
      BY <1>i DEF RetryIsInLog
    <3>3. o \in DOMAIN log /\ c \in DOMAIN log /\ c \in (o + 1)..Len(log')
      BY <1>i, <1>0, <2>2, <3>2 DEF TypeOK
    <3> QED BY <2>2, <3>2, <3>3
  <2>6. FaultlessInv'
    <3>1. CASE ~RepublishAccepted
      BY <1>i, <1>19, <3>1 DEF RetryFails, FaultlessInv
    <3>2. CASE RepublishAccepted /\ Fail
      <4>1. faults' = 0 /\ shutdowns' = 0 => FALSE
        BY <1>i, <1>19, <3>2 DEF RetryFails, Fail, FaultlessInv, TypeOK
      <4> QED BY <4>1 DEF FaultlessInv
    <3> QED BY <1>19, <3>1, <3>2 DEF RetryFails
  <2> QED BY <2>3, <2>4, <2>5, <2>6 DEF ConsumerInv
<1>20. CASE UNCHANGED vars
  BY <1>20
     DEF vars, ConsumerInv, TypeOK, ReaderInv, OffsetInv, RetryIsInLog,
         FaultlessInv, SettledUpTo, Settled, Frontier, InHand
<1> QED
  BY <1>1, <1>2, <1>3, <1>4, <1>5, <1>6, <1>7, <1>8, <1>9, <1>10, <1>11,
     <1>12, <1>13, <1>14, <1>15, <1>16, <1>17, <1>18, <1>19, <1>20
     DEF Next, Consume, HandleFailure

THEOREM ConsumerInvariant == SafetySpec => []ConsumerInv
<1> QED BY InitOK, NextOK, PTL DEF SafetySpec

\* The variables keep their types: in particular, every offset the process
\* ever records is an offset of the partition, and no message's retry count
\* exceeds DLQ_MAX_RETRIES.
THEOREM TypeCorrect == SafetySpec => []TypeOK
<1>1. ConsumerInv => TypeOK
  BY DEF ConsumerInv
<1> QED BY <1>1, ConsumerInvariant, PTL

\* The two ways in which the group's offset can move, and who moves it.
LEMMA CommitSteps ==
    ASSUME Next
    PROVE  \/ UNCHANGED committed
           \/ /\ stash # NoOffset /\ committed' = stash
              /\ UNCHANGED <<log, fateVars>>
BY DEF Next, Consume, HandleFailure, Produce, Start, Crash, Cancel,
       FlushCommits, BeginFetch, ExitClosing, Fetch, FetchError, ExitFetching,
       HandlerOk, HandlerErr, Retry, RetryFails, RetriesExhausted, SendToDLQ,
       SendToDLQFails, Commit, CommitError, topicVars

\* Over any number of crashes, shutdowns and delayed commits, each commit passes
\* only messages that the consume loop has dealt with: from the offset committed
\* before, or, at the group's first commit, from where the process has started.
THEOREM CommitsPassSettledOnly == SafetySpec => CommitsOnlySettled
<1> DEFINE last == IF committed = NoOffset THEN base ELSE committed
           SettledOnly == \A o \in (last + 1)..committed' : o \in Settled'
<1>1. ConsumerInv /\ [Next]_vars => [SettledOnly]_vars
  <2> SUFFICES ASSUME ConsumerInv, Next, NEW o \in (last + 1)..committed'
               PROVE  o \in Settled'
    BY DEF vars
  <2>t. /\ log \in Seq(Message) /\ base \in 0..Len(log) /\ pos \in Nat
        /\ committed \in Nat \cup {-1} /\ stash \in Nat \cup {-1}
    BY DEF ConsumerInv, TypeOK, NoOffset
  <2>1. CASE UNCHANGED committed
    BY <2>t, <2>1 DEF NoOffset
  <2>2. CASE stash # NoOffset /\ committed' = stash /\ UNCHANGED <<log, fateVars>>
    <3>1. /\ pc # "down" /\ stash \in base..Frontier /\ SettledUpTo(Frontier)
          /\ Frontier \in Int
      BY <2>t, <2>2 DEF ConsumerInv, OffsetInv, ReaderInv, Frontier
    <3>2. base <= last
      BY <2>t DEF ConsumerInv, OffsetInv
    <3>3. o \in (base + 1)..Frontier
      BY <2>t, <2>2, <3>1, <3>2 DEF NoOffset
    <3> QED BY <2>2, <3>1, <3>3 DEF SettledUpTo, Settled, fateVars
  <2> QED BY <2>1, <2>2, CommitSteps
<1>2. CommitsOnlySettled <=> [][SettledOnly]_vars
  BY DEF CommitsOnlySettled
<1> QED BY <1>1, <1>2, ConsumerInvariant, PTL DEF SafetySpec

\* What a process has fetched and not dealt with when it ends is fetched again
\* by the next one, if the group has committed before: the offset is behind it.
THEOREM WorkRedelivered == SafetySpec => WorkIsRedelivered
<1> DEFINE Redelivers ==
             pc = "down" /\ pc' # "down" /\ committed # NoOffset =>
                 \A o \in (base + 1)..pos : o \in Settled \/ o > pos'
<1>1. ConsumerInv /\ [Next]_vars => [Redelivers]_vars
  <2> SUFFICES ASSUME ConsumerInv, Next, pc = "down", pc' # "down",
                      committed # NoOffset, NEW o \in (base + 1)..pos
               PROVE  o \in Settled \/ o > pos'
    BY DEF vars
  <2>1. Start
    BY DEF Next, Consume, HandleFailure, Produce, Crash, Cancel, FlushCommits,
           BeginFetch, ExitClosing, Fetch, FetchError, ExitFetching, HandlerOk,
           HandlerErr, Retry, RetryFails, RetriesExhausted, SendToDLQ,
           SendToDLQFails, Commit, CommitError, Goto
  <2>2. pos' = committed
    BY <2>1 DEF Start
  <2>3. committed \in Int /\ base \in Int /\ pos \in Int /\ SettledUpTo(committed)
    BY DEF ConsumerInv, TypeOK, OffsetInv, NoOffset
  <2> QED BY <2>2, <2>3 DEF SettledUpTo
<1>2. WorkIsRedelivered <=> [][Redelivers]_vars
  BY DEF WorkIsRedelivered
<1> QED BY <1>1, <1>2, ConsumerInvariant, PTL DEF SafetySpec

\* A message counted as republished is in the partition again with one more
\* retry.
THEOREM RetriesStayInLog == SafetySpec => []RetryIsInLog
<1>1. ConsumerInv => RetryIsInLog
  BY DEF ConsumerInv
<1> QED BY <1>1, ConsumerInvariant, PTL

\* Losing a committed message behind base takes a failure or a shutdown: without
\* either, all of those were handled, republished or put in the queue.
THEOREM LossNeedsAFault ==
    SafetySpec => [](faults = 0 /\ shutdowns = 0 => CommittedIsNotLost)
<1>1. ConsumerInv => (faults = 0 /\ shutdowns = 0 => CommittedIsNotLost)
  <2> SUFFICES ASSUME ConsumerInv, faults = 0, shutdowns = 0,
                      NEW o \in (base + 1)..committed
               PROVE  o \in handled \cup retried \cup dead
    BY DEF CommittedIsNotLost
  <2>1. committed # NoOffset
    BY DEF ConsumerInv, TypeOK, NoOffset
  <2>2. o \in Settled
    BY <2>1 DEF ConsumerInv, OffsetInv, SettledUpTo
  <2> QED BY <2>2 DEF ConsumerInv, FaultlessInv, Settled
<1> QED BY <1>1, ConsumerInvariant, PTL

\* What a writer that refuses messages with a topic of their own makes of
\* handleFailure: no message is ever republished, so its first failure is final.
NothingIsRepublished == retried = {} /\ \A o \in DOMAIN log : log[o].retry = 0

LEMMA RefusingWriter ==
    SafetySpec => [](~RepublishAccepted => NothingIsRepublished)
<1> DEFINE Refused == ~RepublishAccepted => NothingIsRepublished
<1>1. Init => Refused
  BY DEF Init, NothingIsRepublished
<1>2. ConsumerInv /\ Refused /\ [Next]_vars => Refused'
  <2> SUFFICES ASSUME ConsumerInv, NothingIsRepublished, [Next]_vars,
                      ~RepublishAccepted
               PROVE  NothingIsRepublished'
    OBVIOUS
  <2>1. CASE \E i \in Ids : Produce(i)
    <3>1. PICK i \in Ids : Produce(i)
      BY <2>1
    <3>2. [id |-> i, retry |-> 0] \in Message /\ log \in Seq(Message)
      BY ConsumerAssumption DEF ConsumerAssumption, Message, ConsumerInv, TypeOK
    <3>3. /\ DOMAIN log = 1..Len(log) /\ DOMAIN log' = 1..(Len(log) + 1)
          /\ Len(log) \in Nat
          /\ \A o \in DOMAIN log : log'[o] = log[o]
          /\ log'[Len(log) + 1].retry = 0
      BY <3>1, <3>2, AppendKeeps DEF Produce
    <3> QED BY <3>1, <3>3 DEF Produce, NothingIsRepublished, fateVars
  <2>2. CASE UNCHANGED <<log, retried>>
    BY <2>2 DEF NothingIsRepublished
  <2>3. (\E i \in Ids : Produce(i)) \/ UNCHANGED <<log, retried>>
    BY DEF Next, Consume, HandleFailure, Start, Crash, Cancel,
           FlushCommits, BeginFetch, ExitClosing, Fetch, FetchError,
           ExitFetching, HandlerOk, HandlerErr, Retry, RetryFails,
           RetriesExhausted, SendToDLQ, SendToDLQFails, Commit, CommitError,
           topicVars, fateVars, vars
  <2> QED BY <2>1, <2>2, <2>3
<1> QED BY <1>1, <1>2, ConsumerInvariant, PTL DEF SafetySpec

\* What is in the dead letter queue, whichever the writer does.  If it takes
\* republished messages, then without a failure or a shutdown only messages that
\* used up DLQ_MAX_RETRIES.  If it refuses them, as kafka-go 0.4.50 does, every
\* one is there from its first failure: none has ever been tried again.
THEOREM QueuedAsTheWriterAllows ==
    SafetySpec =>
        [](IF RepublishAccepted THEN DeadWereRetried ELSE NothingIsRepublished)
<1>1. ConsumerInv /\ (~RepublishAccepted => NothingIsRepublished)
         => IF RepublishAccepted THEN DeadWereRetried ELSE NothingIsRepublished
  BY DEF ConsumerInv, FaultlessInv, DeadWereRetried
<1> QED BY <1>1, ConsumerInvariant, RefusingWriter, PTL

\* The committed offset only moves forward.
THEOREM CommitsAreMonotonic == SafetySpec => CommittedNeverRegresses
<1>1. ConsumerInv /\ [Next]_vars => [committed' >= committed]_vars
  <2> SUFFICES ASSUME ConsumerInv, Next PROVE committed' >= committed
    BY DEF vars
  <2>1. committed \in Int /\ (stash # NoOffset => committed <= stash)
    BY DEF ConsumerInv, TypeOK, OffsetInv, NoOffset
  <2>2. UNCHANGED committed \/ (stash # NoOffset /\ committed' = stash)
    BY CommitSteps
  <2> QED BY <2>1, <2>2
<1> QED BY <1>1, ConsumerInvariant, PTL DEF SafetySpec, CommittedNeverRegresses
=============================================================================
