------------------------- MODULE RateLimiterProofs -------------------------
(***************************************************************************)
(* For any addresses, connections, rate, burst and delay that satisfy the  *)
(* assumptions of RateLimiter, the limiter implements RequestQuota: that   *)
(* cleanup forgets visitors cannot be noticed.                             *)
(***************************************************************************)
EXTENDS RateLimiter, TLAPS

\* Two addresses never share a bucket.
OwnBuckets ==
    \A a, c \in Addresses : visitors[a] # None /\ visitors[a] = visitors[c] => a = c

\* A visitor that was not seen for longer than a request can hold its bucket has
\* had, for each tick since, the tokens of that tick.
Rested ==
    \A a \in Addresses : visitors[a] # None /\ seen[a] > MaxDelay =>
        tokens[visitors[a]] >= Burst
            \/ tokens[visitors[a]] >= Rate * (seen[a] - MaxDelay)

LimiterInv == TypeOK /\ HeldIsKnown /\ OwnBuckets /\ Rested

\* One more tick is worth Rate tokens more.
LEMMA OneMoreTick ==
    ASSUME NEW k \in Nat
    PROVE  /\ Rate * k \in Nat
           /\ Rate * (k + 1) = Rate * k + Rate
BY LimiterAssumption, SMT DEF LimiterAssumption

\* Refilling keeps a bucket within its size and takes nothing from it.
LEMMA RefilledIsMore ==
    ASSUME NEW n \in 0..Burst
    PROVE  /\ Refilled(n) \in 0..Burst
           /\ Refilled(n) >= n
           /\ Refilled(n) = Burst \/ Refilled(n) = n + Rate
BY LimiterAssumption DEF Refilled, LimiterAssumption

\* A visitor that cleanup deletes has a full bucket.
LEMMA IdleIsFull ==
    ASSUME LimiterInv, NEW a \in Addresses, visitors[a] # None, seen[a] > Idle
    PROVE  tokens[visitors[a]] = Burst
<1>1. visitors[a] \in Buckets /\ tokens[visitors[a]] \in 0..Burst
  BY DEF LimiterInv, TypeOK
<1>2. seen[a] = Idle + 1
  BY LimiterAssumption DEF LimiterInv, TypeOK, LimiterAssumption
<1>3. seen[a] > MaxDelay
  BY <1>2, LimiterAssumption, RefillAssumption DEF LimiterAssumption, RefillAssumption
<1>4. \/ tokens[visitors[a]] >= Burst
      \/ tokens[visitors[a]] >= Rate * (seen[a] - MaxDelay)
  BY <1>3 DEF LimiterInv, Rested
<1>5. Rate * (seen[a] - MaxDelay) = Rate * (Idle + 1 - MaxDelay)
  <2>1. seen[a] - MaxDelay = Idle + 1 - MaxDelay
    BY <1>2, LimiterAssumption DEF LimiterAssumption
  <2> QED
    BY <2>1, Zenon
<1>6. /\ Idle + 1 - MaxDelay \in Nat
      /\ Burst \in Nat
      /\ Rate * (Idle + 1 - MaxDelay) >= Burst
  BY LimiterAssumption, RefillAssumption DEF LimiterAssumption, RefillAssumption
<1>7. Rate * (Idle + 1 - MaxDelay) \in Nat
  BY <1>6, OneMoreTick
<1>8. tokens[visitors[a]] >= Burst
  BY <1>1, <1>4, <1>5, <1>6, <1>7
<1> QED
  BY <1>1, <1>6, <1>8

\* Nobody who is about to call Allow has the bucket of such a visitor.
LEMMA IdleIsNotHeld ==
    ASSUME LimiterInv, NEW r \in Requests, held[r] # None
    PROVE  /\ AddressOf[r] \in Addresses
           /\ held[r] \in Buckets
           /\ visitors[AddressOf[r]] = held[r]
           /\ seen[AddressOf[r]] <= age[r]
           /\ age[r] <= MaxDelay
           /\ seen[AddressOf[r]] <= MaxDelay
           /\ seen[AddressOf[r]] <= Idle
<1>1. /\ AddressOf[r] \in Addresses
      /\ held[r] \in Buckets
      /\ age[r] \in 0..MaxDelay
      /\ seen[AddressOf[r]] \in 0..(Idle + 1)
  BY LimiterAssumption DEF LimiterInv, TypeOK, LimiterAssumption
<1>2. visitors[AddressOf[r]] = held[r] /\ seen[AddressOf[r]] <= age[r]
  BY DEF LimiterInv, HeldIsKnown
<1> QED
  BY <1>1, <1>2, LimiterAssumption, RefillAssumption DEF LimiterAssumption, RefillAssumption

\* The invariant holds at the start.
LEMMA InitInv == Init => LimiterInv
BY LimiterAssumption
   DEF Init, LimiterInv, TypeOK, HeldIsKnown, OwnBuckets, Rested, LimiterAssumption

\* What getVisitor returns: the bucket of the address, or a full one that nobody has.
LEMMA AskIs ==
    ASSUME LimiterInv, NEW r \in Requests, Ask(r)
    PROVE  \E b \in Buckets :
             /\ b = visitors[AddressOf[r]] \/ (visitors[AddressOf[r]] = None /\ b \in Free)
             /\ visitors' = [visitors EXCEPT ![AddressOf[r]] = b]
             /\ seen' = [seen EXCEPT ![AddressOf[r]] = 0]
             /\ tokens' = [tokens EXCEPT ![b] =
                              IF visitors[AddressOf[r]] # None THEN @ ELSE Burst]
             /\ held' = [held EXCEPT ![r] = b]
             /\ age' = age
<1>1. AddressOf[r] \in Addresses /\ visitors[AddressOf[r]] \in Buckets \cup {None}
  BY LimiterAssumption DEF LimiterInv, TypeOK, LimiterAssumption
<1>2. CASE visitors[AddressOf[r]] # None
  BY <1>1, <1>2 DEF Ask
<1>3. CASE visitors[AddressOf[r]] = None
  <2>1. Free # {}
    BY <1>3 DEF Ask
  <2>2. (CHOOSE c \in Free : TRUE) \in Free
    BY <2>1
  <2>3. (CHOOSE c \in Free : TRUE) \in Buckets
    BY <2>2 DEF Free
  <2> QED
    BY <1>3, <2>2, <2>3 DEF Ask
<1> QED
  BY <1>2, <1>3

\* A request that arrives preserves the invariant: its address is seen, and the
\* bucket it may get is nobody else's.
LEMMA AskInv ==
    ASSUME LimiterInv, NEW r \in Requests, Ask(r)
    PROVE  LimiterInv'
<1> DEFINE a == AddressOf[r]
<1>1. PICK b \in Buckets :
        /\ b = visitors[a] \/ (visitors[a] = None /\ b \in Free)
        /\ visitors' = [visitors EXCEPT ![a] = b]
        /\ seen' = [seen EXCEPT ![a] = 0]
        /\ tokens' = [tokens EXCEPT ![b] = IF visitors[a] # None THEN @ ELSE Burst]
        /\ held' = [held EXCEPT ![r] = b]
        /\ age' = age
  BY AskIs
<1>2. a \in Addresses /\ b # None /\ Burst \in Nat /\ Idle \in Nat /\ MaxDelay \in Nat
  BY LimiterAssumption DEF LimiterAssumption
<1>3. TypeOK'
  BY <1>1, <1>2 DEF LimiterInv, TypeOK
<1>4. HeldIsKnown'
  <2> SUFFICES ASSUME NEW q \in Requests, held'[q] # None
               PROVE  /\ visitors'[AddressOf[q]] = held'[q]
                      /\ seen'[AddressOf[q]] <= age'[q]
    BY DEF HeldIsKnown
  <2>1. AddressOf[q] \in Addresses /\ age[q] \in 0..MaxDelay
    BY LimiterAssumption DEF LimiterAssumption, LimiterInv, TypeOK
  <2>2. CASE q = r
    BY <1>1, <1>2, <2>1, <2>2 DEF LimiterInv, TypeOK
  <2>3. CASE q # r
    <3>1. held'[q] = held[q] /\ held[q] # None
      BY <1>1, <2>3 DEF LimiterInv, TypeOK
    <3>2. visitors[AddressOf[q]] = held[q] /\ seen[AddressOf[q]] <= age[q]
      BY <3>1 DEF LimiterInv, HeldIsKnown
    <3>3. CASE AddressOf[q] = a
      BY <1>1, <1>2, <2>1, <3>1, <3>2, <3>3 DEF LimiterInv, TypeOK
    <3>4. CASE AddressOf[q] # a
      BY <1>1, <1>2, <2>1, <3>1, <3>2, <3>4 DEF LimiterInv, TypeOK
    <3> QED
      BY <3>3, <3>4
  <2> QED
    BY <2>2, <2>3
<1>5. OwnBuckets'
  BY <1>1, <1>2 DEF LimiterInv, TypeOK, OwnBuckets, Free
<1>6. Rested'
  <2> SUFFICES ASSUME NEW c \in Addresses, visitors'[c] # None, seen'[c] > MaxDelay
               PROVE  \/ tokens'[visitors'[c]] >= Burst
                      \/ tokens'[visitors'[c]] >= Rate * (seen'[c] - MaxDelay)
    BY DEF Rested
  <2>1. c # a
    BY <1>1, <1>2 DEF LimiterInv, TypeOK
  <2>2. visitors'[c] = visitors[c] /\ seen'[c] = seen[c]
    BY <1>1, <2>1 DEF LimiterInv, TypeOK
  <2>3. visitors[c] # b
    BY <1>1, <1>2, <2>1, <2>2 DEF LimiterInv, OwnBuckets, Free
  <2>4. tokens'[visitors'[c]] = tokens[visitors[c]]
    BY <1>1, <2>2, <2>3 DEF LimiterInv, TypeOK
  <2>5. \/ tokens[visitors[c]] >= Burst
        \/ tokens[visitors[c]] >= Rate * (seen[c] - MaxDelay)
    BY <2>2 DEF LimiterInv, Rested
  <2> QED
    BY <2>2, <2>4, <2>5, Zenon
<1> QED
  BY <1>3, <1>4, <1>5, <1>6 DEF LimiterInv

\* A request that is judged preserves the invariant: the bucket it takes from is
\* that of an address that was seen within MaxDelay.
LEMMA JudgedInv ==
    ASSUME LimiterInv, NEW r \in Requests, Pass(r) \/ Refuse(r)
    PROVE  LimiterInv'
<1> DEFINE b == held[r]
<1>1. /\ held[r] # None
      /\ held' = [held EXCEPT ![r] = None]
      /\ age' = [age EXCEPT ![r] = 0]
      /\ visitors' = visitors /\ seen' = seen
  BY DEF Pass, Refuse, Judged
<1>2. /\ AddressOf[r] \in Addresses /\ b \in Buckets
      /\ visitors[AddressOf[r]] = b
      /\ seen[AddressOf[r]] <= MaxDelay
  BY <1>1, IdleIsNotHeld
<1>3. /\ tokens' \in [Buckets -> 0..Burst]
      /\ \A c \in Buckets \ {b} : tokens'[c] = tokens[c]
  <2>1. tokens \in [Buckets -> 0..Burst] /\ Burst \in Nat
    BY LimiterAssumption DEF LimiterAssumption, LimiterInv, TypeOK
  <2>2. CASE tokens[b] > 0 /\ tokens' = [tokens EXCEPT ![b] = @ - 1]
    BY <1>2, <2>1, <2>2
  <2>3. CASE tokens' = tokens
    BY <2>1, <2>3
  <2> QED
    BY <2>2, <2>3 DEF Pass, Refuse
<1>4. MaxDelay \in Nat
  BY LimiterAssumption DEF LimiterAssumption
<1>5. TypeOK'
  BY <1>1, <1>3, <1>4 DEF LimiterInv, TypeOK
<1>6. HeldIsKnown'
  BY <1>1 DEF LimiterInv, TypeOK, HeldIsKnown
<1>7. OwnBuckets'
  BY <1>1 DEF LimiterInv, OwnBuckets
<1>8. Rested'
  <2> SUFFICES ASSUME NEW c \in Addresses, visitors[c] # None, seen[c] > MaxDelay
               PROVE  \/ tokens'[visitors[c]] >= Burst
                      \/ tokens'[visitors[c]] >= Rate * (seen[c] - MaxDelay)
    BY <1>1 DEF Rested
  <2>1. c # AddressOf[r]
    BY <1>2, <1>4 DEF LimiterInv, TypeOK
  <2>2. visitors[c] # b /\ visitors[c] \in Buckets
    BY <1>2, <2>1 DEF LimiterInv, TypeOK, OwnBuckets
  <2>3. tokens'[visitors[c]] = tokens[visitors[c]]
    BY <1>3, <2>2
  <2>4. \/ tokens[visitors[c]] >= Burst
        \/ tokens[visitors[c]] >= Rate * (seen[c] - MaxDelay)
    BY DEF LimiterInv, Rested
  <2> QED
    BY <2>3, <2>4, Zenon
<1> QED
  BY <1>5, <1>6, <1>7, <1>8 DEF LimiterInv

\* cleanup preserves the invariant: it deletes no visitor whose bucket is held.
LEMMA SweepInv ==
    ASSUME LimiterInv, Sweep
    PROVE  LimiterInv'
<1>1. /\ visitors' = [a \in Addresses |-> IF seen[a] > Idle THEN None ELSE visitors[a]]
      /\ seen' = [a \in Addresses |-> IF seen[a] > Idle THEN 0 ELSE seen[a]]
      /\ tokens' = tokens /\ held' = held /\ age' = age
  BY DEF Sweep
<1>2. Idle \in Nat /\ MaxDelay \in Nat
  BY LimiterAssumption DEF LimiterAssumption
<1>3. TypeOK'
  BY <1>1, <1>2 DEF LimiterInv, TypeOK
<1>4. HeldIsKnown'
  <2> SUFFICES ASSUME NEW q \in Requests, held[q] # None
               PROVE  /\ visitors'[AddressOf[q]] = held[q]
                      /\ seen'[AddressOf[q]] <= age[q]
    BY <1>1 DEF HeldIsKnown
  <2>1. /\ AddressOf[q] \in Addresses
        /\ visitors[AddressOf[q]] = held[q]
        /\ seen[AddressOf[q]] <= age[q]
        /\ seen[AddressOf[q]] <= Idle
    BY IdleIsNotHeld
  <2>2. ~(seen[AddressOf[q]] > Idle)
    BY <1>2, <2>1 DEF LimiterInv, TypeOK
  <2> QED
    BY <1>1, <2>1, <2>2
<1>5. OwnBuckets'
  BY <1>1 DEF LimiterInv, OwnBuckets
<1>6. Rested'
  <2> SUFFICES ASSUME NEW c \in Addresses, visitors'[c] # None, seen'[c] > MaxDelay
               PROVE  \/ tokens[visitors'[c]] >= Burst
                      \/ tokens[visitors'[c]] >= Rate * (seen'[c] - MaxDelay)
    BY <1>1 DEF Rested
  <2>1. visitors'[c] = visitors[c] /\ seen'[c] = seen[c]
    BY <1>1
  <2> QED
    BY <2>1 DEF LimiterInv, Rested
<1> QED
  BY <1>3, <1>4, <1>5, <1>6 DEF LimiterInv

\* Time preserves the invariant: a visitor that was not seen gets the tokens of
\* the tick.
LEMMA TickInv ==
    ASSUME LimiterInv, Tick
    PROVE  LimiterInv'
<1>1. /\ \A r \in Requests : held[r] # None => age[r] < MaxDelay
      /\ seen' = [a \in Addresses |->
                     IF visitors[a] # None /\ seen[a] <= Idle THEN seen[a] + 1 ELSE seen[a]]
      /\ tokens' = [b \in Buckets |-> Refilled(tokens[b])]
      /\ age' = [r \in Requests |-> IF held[r] # None THEN age[r] + 1 ELSE age[r]]
      /\ visitors' = visitors /\ held' = held
  BY DEF Tick
<1>2. Idle \in Nat /\ MaxDelay \in Nat /\ Burst \in Nat /\ Rate \in Nat
  BY LimiterAssumption DEF LimiterAssumption
<1>3. TypeOK'
  <2>1. tokens' \in [Buckets -> 0..Burst]
    BY <1>1, RefilledIsMore DEF LimiterInv, TypeOK
  <2>2. seen' \in [Addresses -> 0..(Idle + 1)]
    BY <1>1, <1>2 DEF LimiterInv, TypeOK
  <2>3. age' \in [Requests -> 0..MaxDelay]
    BY <1>1, <1>2 DEF LimiterInv, TypeOK
  <2> QED
    BY <1>1, <2>1, <2>2, <2>3 DEF LimiterInv, TypeOK
<1>4. HeldIsKnown'
  <2> SUFFICES ASSUME NEW q \in Requests, held[q] # None
               PROVE  /\ visitors[AddressOf[q]] = held[q]
                      /\ seen'[AddressOf[q]] <= age'[q]
    BY <1>1 DEF HeldIsKnown
  <2>1. /\ AddressOf[q] \in Addresses
        /\ visitors[AddressOf[q]] = held[q]
        /\ seen[AddressOf[q]] <= age[q]
        /\ seen[AddressOf[q]] \in 0..(Idle + 1)
        /\ age[q] \in 0..MaxDelay
    BY IdleIsNotHeld DEF LimiterInv, TypeOK
  <2>2. age'[q] = age[q] + 1
    BY <1>1
  <2>3. seen'[AddressOf[q]] <= seen[AddressOf[q]] + 1
    BY <1>1, <2>1
  <2>4. seen'[AddressOf[q]] \in 0..(Idle + 1)
    BY <1>3, <2>1 DEF TypeOK
  <2> QED
    BY <2>1, <2>2, <2>3, <2>4
<1>5. OwnBuckets'
  BY <1>1 DEF LimiterInv, OwnBuckets
<1>6. Rested'
  <2> SUFFICES ASSUME NEW c \in Addresses, visitors[c] # None, seen'[c] > MaxDelay
               PROVE  \/ tokens'[visitors[c]] >= Burst
                      \/ tokens'[visitors[c]] >= Rate * (seen'[c] - MaxDelay)
    BY <1>1 DEF Rested
  <2> DEFINE n == tokens[visitors[c]]
             k == seen[c] - MaxDelay
  <2>1. /\ visitors[c] \in Buckets /\ n \in 0..Burst
        /\ seen[c] \in 0..(Idle + 1)
    BY DEF LimiterInv, TypeOK
  <2>2. /\ tokens'[visitors[c]] = Refilled(n)
        /\ Refilled(n) \in 0..Burst /\ Refilled(n) >= n
        /\ Refilled(n) = Burst \/ Refilled(n) = n + Rate
    BY <1>1, <2>1, RefilledIsMore
  <2>3. CASE seen[c] > Idle
    <3>1. n = Burst
      BY <2>3, IdleIsFull
    <3> QED
      BY <1>2, <2>1, <2>2, <3>1
  <2>4. CASE seen[c] <= Idle
    <3>1. seen'[c] = seen[c] + 1
      BY <1>1, <2>4
    <3>2. k \in Nat /\ seen'[c] - MaxDelay = k + 1
      BY <1>2, <2>1, <3>1
    <3>3. /\ Rate * k \in Nat
          /\ Rate * (k + 1) = Rate * k + Rate
      BY <3>2, OneMoreTick
    <3>4. Rate * (seen'[c] - MaxDelay) = Rate * k + Rate
      BY <3>2, <3>3, Zenon
    <3>5. n >= Burst \/ n >= Rate * k
      <4>1. CASE k > 0
        <5>1. seen[c] > MaxDelay
          BY <1>2, <2>1, <4>1
        <5> QED
          BY <5>1 DEF LimiterInv, Rested
      <4>2. CASE k = 0
        <5>1. Rate * 0 = 0
          BY <1>2
        <5>2. Rate * k = 0
          BY <4>2, <5>1, Zenon
        <5> QED
          BY <2>1, <5>2
      <4> QED
        BY <3>2, <4>1, <4>2
    <3> HIDE DEF n, k
    <3>6. Refilled(n) >= Burst \/ Refilled(n) >= Rate * k + Rate
      BY <1>2, <2>1, <2>2, <3>3, <3>5
    <3> QED
      BY <2>2, <3>4, <3>6, Zenon
  <2> QED
    BY <1>2, <2>1, <2>3, <2>4
<1> QED
  BY <1>3, <1>4, <1>5, <1>6 DEF LimiterInv

\* Every step preserves the invariant.
LEMMA StepInv == LimiterInv /\ [Next]_vars => LimiterInv'
<1> SUFFICES ASSUME LimiterInv, [Next]_vars
             PROVE  LimiterInv'
  OBVIOUS
<1>1. CASE Sweep
  BY <1>1, SweepInv
<1>2. CASE Tick
  BY <1>2, TickInv
<1>3. ASSUME NEW r \in Requests, Ask(r)
      PROVE  LimiterInv'
  BY <1>3, AskInv
<1>4. ASSUME NEW r \in Requests, Pass(r) \/ Refuse(r)
      PROVE  LimiterInv'
  BY <1>4, JudgedInv
<1>5. CASE UNCHANGED vars
  BY <1>5 DEF vars, LimiterInv, TypeOK, HeldIsKnown, OwnBuckets, Rested
<1> QED
  BY <1>1, <1>2, <1>3, <1>4, <1>5 DEF Next

\* The inductive invariant of the limiter: visitors have buckets of their own, a
\* request's bucket is its address's, and rest is paid in tokens.
THEOREM LimiterInvariant == Spec => []LimiterInv
BY InitInv, StepInv, PTL DEF Spec

\* The limiter is type correct: no bucket ever holds more than Burst tokens.
THEOREM TypeCorrect == Spec => []TypeOK
<1>1. LimiterInv => TypeOK
  BY DEF LimiterInv
<1> QED
  BY <1>1, LimiterInvariant, PTL

\* The limiter that Middleware took from getVisitor is that of the address still
\* when Allow is called, though the mutex was released between the two.
THEOREM HeldStaysKnown == Spec => []HeldIsKnown
<1>1. LimiterInv => HeldIsKnown
  BY DEF LimiterInv
<1> QED
  BY <1>1, LimiterInvariant, PTL

\* What the visitors and buckets of the start stand for.
LEMMA QuotaInit == Init => Quota!Init
<1> SUFFICES ASSUME Init
             PROVE  Quota!Init
  OBVIOUS
<1>1. QuotaOf = [a \in Addresses |-> Burst]
  BY DEF Init, QuotaOf
<1>2. {r \in Requests : held[r] # None} = {}
  BY DEF Init
<1> QED
  BY <1>1, <1>2 DEF Quota!Init

\* A request that arrives leaves every quota as it is: a new bucket is full, as is
\* that of an address without a visitor.
LEMMA AskImplements ==
    ASSUME LimiterInv, NEW r \in Requests, Ask(r)
    PROVE  Quota!Ask(r)
<1> DEFINE a == AddressOf[r]
<1>1. PICK b \in Buckets :
        /\ b = visitors[a] \/ (visitors[a] = None /\ b \in Free)
        /\ visitors' = [visitors EXCEPT ![a] = b]
        /\ seen' = [seen EXCEPT ![a] = 0]
        /\ tokens' = [tokens EXCEPT ![b] = IF visitors[a] # None THEN @ ELSE Burst]
        /\ held' = [held EXCEPT ![r] = b]
        /\ age' = age
  BY AskIs
<1>2. a \in Addresses /\ b # None /\ held[r] = None
  BY LimiterAssumption DEF LimiterAssumption, Ask
<1>3. ASSUME NEW c \in Addresses
      PROVE  QuotaOf'[c] = QuotaOf[c]
  <2>1. CASE c = a
    BY <1>1, <1>2, <2>1 DEF LimiterInv, TypeOK, QuotaOf
  <2>2. CASE c # a
    <3>1. visitors'[c] = visitors[c] /\ (visitors[c] # None => visitors[c] # b)
      BY <1>1, <1>2, <2>2 DEF LimiterInv, TypeOK, OwnBuckets, Free
    <3>2. visitors[c] # None => tokens'[visitors[c]] = tokens[visitors[c]]
      BY <1>1, <3>1 DEF LimiterInv, TypeOK
    <3> QED
      BY <3>1, <3>2 DEF QuotaOf
  <2> QED
    BY <2>1, <2>2
<1>4. QuotaOf' = QuotaOf
  BY <1>3 DEF QuotaOf
<1>5. {q \in Requests : held'[q] # None} = {q \in Requests : held[q] # None} \cup {r}
  BY <1>1, <1>2 DEF LimiterInv, TypeOK
<1> QED
  BY <1>2, <1>4, <1>5 DEF Quota!Ask

\* What a request that is judged changes.
LEMMA JudgedIs ==
    ASSUME LimiterInv, NEW r \in Requests, Judged(r)
    PROVE  /\ AddressOf[r] \in Addresses
           /\ held[r] = visitors[AddressOf[r]] /\ held[r] # None /\ held[r] \in Buckets
           /\ QuotaOf[AddressOf[r]] = tokens[held[r]]
           /\ {q \in Requests : held'[q] # None} = {q \in Requests : held[q] # None} \ {r}
           /\ visitors' = visitors
<1>1. held[r] # None /\ held' = [held EXCEPT ![r] = None] /\ visitors' = visitors
  BY DEF Judged
<1>2. /\ AddressOf[r] \in Addresses /\ held[r] \in Buckets
      /\ visitors[AddressOf[r]] = held[r]
  BY <1>1, IdleIsNotHeld
<1>3. {q \in Requests : held'[q] # None} = {q \in Requests : held[q] # None} \ {r}
  BY <1>1 DEF LimiterInv, TypeOK
<1> QED
  BY <1>1, <1>2, <1>3 DEF QuotaOf

\* A request that is let through takes a token of its address and of no other.
LEMMA PassImplements ==
    ASSUME LimiterInv, NEW r \in Requests, Pass(r)
    PROVE  Quota!Pass(r)
<1> DEFINE a == AddressOf[r]
<1>1. Judged(r) /\ tokens[held[r]] > 0 /\ tokens' = [tokens EXCEPT ![held[r]] = @ - 1]
  BY DEF Pass
<1>2. /\ a \in Addresses
      /\ held[r] = visitors[a] /\ held[r] # None /\ held[r] \in Buckets
      /\ QuotaOf[a] = tokens[held[r]]
      /\ {q \in Requests : held'[q] # None} = {q \in Requests : held[q] # None} \ {r}
      /\ visitors' = visitors
  BY <1>1, JudgedIs
<1>3. ASSUME NEW c \in Addresses
      PROVE  QuotaOf'[c] = IF c = a THEN QuotaOf[a] - 1 ELSE QuotaOf[c]
  BY <1>1, <1>2 DEF LimiterInv, TypeOK, OwnBuckets, QuotaOf
<1>4. QuotaOf' = [QuotaOf EXCEPT ![a] = @ - 1]
  BY <1>2, <1>3 DEF QuotaOf
<1>5. r \in {q \in Requests : held[q] # None}
  BY <1>2
<1> QED
  BY <1>1, <1>2, <1>4, <1>5 DEF Quota!Pass

\* A request is refused only when its address has nothing left.
LEMMA RefuseImplements ==
    ASSUME LimiterInv, NEW r \in Requests, Refuse(r)
    PROVE  Quota!Refuse(r)
<1>1. Judged(r) /\ tokens[held[r]] = 0 /\ tokens' = tokens
  BY DEF Refuse
<1>2. /\ QuotaOf[AddressOf[r]] = tokens[held[r]] /\ held[r] # None
      /\ {q \in Requests : held'[q] # None} = {q \in Requests : held[q] # None} \ {r}
      /\ visitors' = visitors
  BY <1>1, JudgedIs
<1>3. QuotaOf' = QuotaOf
  BY <1>1, <1>2 DEF QuotaOf
<1>4. r \in {q \in Requests : held[q] # None}
  BY <1>2
<1> QED
  BY <1>1, <1>2, <1>3, <1>4 DEF Quota!Refuse

\* cleanup is not noticed: what it deletes is a full bucket.
LEMMA SweepStutters ==
    ASSUME LimiterInv, Sweep
    PROVE  UNCHANGED Quota!vars
<1>1. /\ visitors' = [a \in Addresses |-> IF seen[a] > Idle THEN None ELSE visitors[a]]
      /\ tokens' = tokens /\ held' = held
  BY DEF Sweep
<1>2. ASSUME NEW c \in Addresses
      PROVE  QuotaOf'[c] = QuotaOf[c]
  <2>1. CASE seen[c] > Idle /\ visitors[c] # None
    BY <1>1, <2>1, IdleIsFull DEF QuotaOf
  <2>2. CASE ~(seen[c] > Idle) \/ visitors[c] = None
    BY <1>1, <2>2 DEF QuotaOf
  <2> QED
    BY <2>1, <2>2
<1>3. QuotaOf' = QuotaOf
  BY <1>2 DEF QuotaOf
<1> QED
  BY <1>1, <1>3 DEF Quota!vars

\* A tick gives every address its tokens, also those without a visitor.
LEMMA TickImplements ==
    ASSUME LimiterInv, Tick
    PROVE  Quota!Tick
<1>1. /\ tokens' = [b \in Buckets |-> Refilled(tokens[b])]
      /\ visitors' = visitors /\ held' = held
  BY DEF Tick
<1>2. Burst \in Nat /\ Rate \in Nat
  BY LimiterAssumption DEF LimiterAssumption
<1>3. Refilled(Burst) = Burst
  BY <1>2 DEF Refilled
<1>4. ASSUME NEW n \in 0..Burst
      PROVE  Quota!Refilled(n) = Refilled(n)
  BY DEF Quota!Refilled, Refilled
<1>5. ASSUME NEW c \in Addresses
      PROVE  QuotaOf'[c] = Quota!Refilled(QuotaOf[c])
  <2>1. CASE visitors[c] # None
    <3>1. visitors[c] \in Buckets /\ tokens[visitors[c]] \in 0..Burst
      BY <2>1 DEF LimiterInv, TypeOK
    <3>2. QuotaOf[c] = tokens[visitors[c]] /\ QuotaOf'[c] = tokens'[visitors[c]]
      BY <1>1, <2>1 DEF QuotaOf
    <3> QED
      BY <1>1, <1>4, <3>1, <3>2
  <2>2. CASE visitors[c] = None
    <3>1. QuotaOf[c] = Burst /\ QuotaOf'[c] = Burst
      BY <1>1, <2>2 DEF QuotaOf
    <3> QED
      BY <1>2, <1>3, <1>4, <3>1
  <2> QED
    BY <2>1, <2>2
<1>6. QuotaOf' = [c \in Addresses |-> Quota!Refilled(QuotaOf[c])]
  BY <1>5 DEF QuotaOf
<1> QED
  BY <1>1, <1>6 DEF Quota!Tick

\* Every step of the limiter is one of the quota, or none.
LEMMA StepImplements == LimiterInv /\ [Next]_vars => [Quota!Next]_(Quota!vars)
<1> SUFFICES ASSUME LimiterInv, [Next]_vars
             PROVE  Quota!Next \/ UNCHANGED Quota!vars
  OBVIOUS
<1>1. CASE Sweep
  BY <1>1, SweepStutters
<1>2. CASE Tick
  BY <1>2, TickImplements DEF Quota!Next
<1>3. ASSUME NEW r \in Requests, Ask(r)
      PROVE  Quota!Next
  BY <1>3, AskImplements DEF Quota!Next
<1>4. ASSUME NEW r \in Requests, Pass(r)
      PROVE  Quota!Next
  BY <1>4, PassImplements DEF Quota!Next
<1>5. ASSUME NEW r \in Requests, Refuse(r)
      PROVE  Quota!Next
  BY <1>5, RefuseImplements DEF Quota!Next
<1>6. CASE UNCHANGED vars
  BY <1>6 DEF vars, Quota!vars, QuotaOf
<1> QED
  BY <1>1, <1>2, <1>3, <1>4, <1>5, <1>6 DEF Next

\* The limiter implements one bucket per address, kept for ever: whatever the
\* interleaving of requests with cleanup, no address gets a token more or fewer.
THEOREM QuotaImplemented == Spec => ImplementsQuota
<1>1. Init => Quota!Init
  BY QuotaInit
<1>2. LimiterInv /\ [Next]_vars => [Quota!Next]_(Quota!vars)
  BY StepImplements
<1> QED
  BY <1>1, <1>2, LimiterInvariant, PTL DEF Spec, ImplementsQuota, Quota!Spec

=============================================================================
