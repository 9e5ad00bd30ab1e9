---------------------------- MODULE RequestQuota ----------------------------
(***************************************************************************)
(* What pkg/middleware/ratelimit.go promises: each address has one token   *)
(* bucket, for ever, and a request of it is let through if there is a      *)
(* token left, and for that token.  How long a request may stand between   *)
(* being read and being judged is not restricted.                          *)
(***************************************************************************)
EXTENDS Integers

CONSTANTS
    Addresses,
    Requests,   \* the connections, each of which makes one request at a time
    AddressOf,  \* the address of each
    Rate,       \* tokens a tick
    Burst       \* tokens a bucket holds

VARIABLES
    quota,      \* the tokens of each address
    asking      \* the connections whose request is being judged

vars == <<quota, asking>>

Refilled(n) == IF n + Rate < Burst THEN n + Rate ELSE Burst

Init ==
    /\ quota = [a \in Addresses |-> Burst]
    /\ asking = {}

Ask(r) ==
    /\ r \notin asking
    /\ asking' = asking \cup {r}
    /\ UNCHANGED quota

Pass(r) ==
    /\ r \in asking /\ quota[AddressOf[r]] > 0
    /\ asking' = asking \ {r}
    /\ quota' = [quota EXCEPT ![AddressOf[r]] = @ - 1]

Refuse(r) ==
    /\ r \in asking /\ quota[AddressOf[r]] = 0
    /\ asking' = asking \ {r}
    /\ UNCHANGED quota

Tick ==
    /\ quota' = [a \in Addresses |-> Refilled(quota[a])]
    /\ UNCHANGED asking

Next == Tick \/ \E r \in Requests : Ask(r) \/ Pass(r) \/ Refuse(r)

Spec == Init /\ [][Next]_vars

=============================================================================
