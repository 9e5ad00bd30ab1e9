----------------------------- MODULE RateLimiter -----------------------------
(***************************************************************************)
(* pkg/middleware/ratelimit.go: a map from addresses to visitors, each     *)
(* with a token bucket (golang.org/x/time/rate) and the time it was last   *)
(* seen.  A request looks its bucket up under the mutex and takes a token  *)
(* from it after the mutex is released; cleanup deletes, every minute, the *)
(* visitors that were not seen for three.                                  *)
(*                                                                         *)
(* Time is counted in ticks, in which a bucket gets Rate tokens.  cleanup  *)
(* comes at any time, for its minutes are not those of the visitors.       *)
(***************************************************************************)
EXTENDS Integers

CONSTANTS
    Addresses,
    Requests,   \* the connections, each of which makes one request at a time
    AddressOf,  \* the address of each
    Buckets,    \* the limiters: more than are ever in use
    None,       \* no limiter
    Rate,       \* tokens a tick (RATE_LIMIT_PER_SEC)
    Burst,      \* tokens a bucket holds (RATE_LIMIT_BURST)
    Idle,       \* a visitor not seen for longer is deleted (3 minutes)
    MaxDelay    \* bound: how long a request is between getVisitor and Allow

ASSUME LimiterAssumption ==
    /\ AddressOf \in [Requests -> Addresses]
    /\ None \notin Buckets
    /\ Rate \in Nat /\ Burst \in Nat \ {0}
    /\ Idle \in Nat /\ MaxDelay \in Nat

\* A bucket is full before its visitor is deleted, and nobody is about to
\* use it: with 10 tokens a second, 20 tokens and 180 seconds, unless a
\* request takes three minutes from one line of Middleware to the next.
ASSUME RefillAssumption ==
    /\ MaxDelay <= Idle
    /\ Rate * (Idle + 1 - MaxDelay) >= Burst

VARIABLES
    visitors,   \* rl.visitors: the limiter of each address, None without one
    seen,       \* the ticks since lastSeen, up to Idle + 1
    tokens,     \* what each limiter has
    held,       \* the limiter that Middleware has for each request, or None
    age         \* the ticks it has had it

vars == <<visitors, seen, tokens, held, age>>

Init ==
    /\ visitors = [a \in Addresses |-> None]
    /\ seen = [a \in Addresses |-> 0]
    /\ tokens = [b \in Buckets |-> Burst]
    /\ held = [r \in Requests |-> None]
    /\ age = [r \in Requests |-> 0]

Free ==
    {b \in Buckets : /\ \A a \in Addresses : visitors[a] # b
                     /\ \A r \in Requests : held[r] # b}

\* Variant: a visitor that is known is not marked as seen.
AskUnseen(r) ==
    LET a == AddressOf[r]
        b == IF visitors[a] # None THEN visitors[a] ELSE CHOOSE c \in Free : TRUE
    IN  /\ held[r] = None
        /\ visitors[a] # None \/ Free # {}
        /\ visitors' = [visitors EXCEPT ![a] = b]
        /\ seen' = [seen EXCEPT ![a] = IF visitors[a] # None THEN @ ELSE 0]
        /\ tokens' = [tokens EXCEPT ![b] = IF visitors[a] # None THEN @ ELSE Burst]
        /\ held' = [held EXCEPT ![r] = b]
        /\ UNCHANGED age

\* A request arrives: getVisitor, with a new full bucket if there is none.
Ask(r) ==
    LET a == AddressOf[r]
        b == IF visitors[a] # None THEN visitors[a] ELSE CHOOSE c \in Free : TRUE
    IN  /\ held[r] = None
        /\ visitors[a] # None \/ Free # {}
        /\ visitors' = [visitors EXCEPT ![a] = b]
        /\ seen' = [seen EXCEPT ![a] = 0]
        /\ tokens' = [tokens EXCEPT ![b] = IF visitors[a] # None THEN @ ELSE Burst]
        /\ held' = [held EXCEPT ![r] = b]
        /\ UNCHANGED age

\* The request is judged, and Middleware has done with the limiter.
Judged(r) ==
    /\ held[r] # None
    /\ held' = [held EXCEPT ![r] = None]
    /\ age' = [age EXCEPT ![r] = 0]
    /\ UNCHANGED <<visitors, seen>>

\* limiter.Allow() takes a token: the request goes on to the mux.
Pass(r) ==
    /\ Judged(r)
    /\ tokens[held[r]] > 0
    /\ tokens' = [tokens EXCEPT ![held[r]] = @ - 1]

\* limiter.Allow() finds none: 429.
Refuse(r) ==
    /\ Judged(r)
    /\ tokens[held[r]] = 0
    /\ UNCHANGED tokens

\* Variant: the comparison the other way round.
SweepRecent ==
    /\ \E a \in Addresses : visitors[a] # None /\ seen[a] < Idle
    /\ visitors' = [a \in Addresses |-> IF seen[a] < Idle THEN None ELSE visitors[a]]
    /\ seen' = [a \in Addresses |-> IF seen[a] < Idle THEN 0 ELSE seen[a]]
    /\ UNCHANGED <<tokens, held, age>>

\* cleanup, when there is a visitor to delete.
Sweep ==
    /\ \E a \in Addresses : visitors[a] # None /\ seen[a] > Idle
    /\ visitors' = [a \in Addresses |-> IF seen[a] > Idle THEN None ELSE visitors[a]]
    /\ seen' = [a \in Addresses |-> IF seen[a] > Idle THEN 0 ELSE seen[a]]
    /\ UNCHANGED <<tokens, held, age>>

\* Variant: a bucket without a size.
RefilledWithoutCap(n) == n + Rate

Refilled(n) == IF n + Rate < Burst THEN n + Rate ELSE Burst

Tick ==
    /\ \A r \in Requests : held[r] # None => age[r] < MaxDelay
    /\ seen' = [a \in Addresses |->
                   IF visitors[a] # None /\ seen[a] <= Idle THEN seen[a] + 1 ELSE seen[a]]
    /\ tokens' = [b \in Buckets |-> Refilled(tokens[b])]
    /\ age' = [r \in Requests |-> IF held[r] # None THEN age[r] + 1 ELSE age[r]]
    /\ UNCHANGED <<visitors, held>>

Next ==
    \/ Sweep \/ Tick
    \/ \E r \in Requests : Ask(r) \/ Pass(r) \/ Refuse(r)

Spec == Init /\ [][Next]_vars

----------------------------------------------------------------------------
(* Properties. *)

TypeOK ==
    /\ visitors \in [Addresses -> Buckets \cup {None}]
    /\ seen \in [Addresses -> 0..(Idle + 1)]
    /\ tokens \in [Buckets -> 0..Burst]
    /\ held \in [Requests -> Buckets \cup {None}]
    /\ age \in [Requests -> 0..MaxDelay]

\* What an address can still ask for: a visitor that is deleted comes back
\* with a full bucket.
QuotaOf ==
    [a \in Addresses |-> IF visitors[a] # None THEN tokens[visitors[a]] ELSE Burst]

Quota == INSTANCE RequestQuota
             WITH quota <- QuotaOf, asking <- {r \in Requests : held[r] # None}

\* Forgetting visitors is not noticed: no interleaving of requests, of their
\* delays and of cleanup gives an address more tokens, or fewer, than a bucket
\* of its own that is kept for ever.
ImplementsQuota == Quota!Spec

\* The limiter of a request is that of its address still when Allow is called.
HeldIsKnown ==
    \A r \in Requests : held[r] # None =>
        /\ visitors[AddressOf[r]] = held[r]
        /\ seen[AddressOf[r]] <= age[r]

=============================================================================
