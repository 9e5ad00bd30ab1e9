---------------------------- MODULE AlertEngine ----------------------------
(***************************************************************************)
(* The alert service: the engine (internal/domain/alertengine.go) under    *)
(* its lock, the handler that evaluates each aggregated price and          *)
(* publishes the alerts one by one, and the rule requests that arrive      *)
(* between any two of those steps (services/alert-service/main.go).        *)
(*                                                                         *)
(* Prices and thresholds are integers in thousandths.  The engine          *)
(* remembers what has fired under a key that holds the threshold with two  *)
(* decimals, so rules may share a key.  "found" is history: what the last  *)
(* evaluation found out about each rule.                                   *)
(***************************************************************************)
EXTENDS Integers, Sequences, FiniteSetsExt, SequencesExt

CONSTANTS
    Symbols,
    Prices,         \* the prices that are evaluated
    DefaultRules,   \* defaultRules of main
    PostedRules,    \* valid bodies of POST /rules; the id is the client's or
                    \* from ruleIDCounter, and nothing makes it unique
    MaxRules        \* bound: how many rules there are at a time

Direction == {"above", "below"}
IsRule(r) ==
    /\ DOMAIN r = {"id", "symbol", "direction", "threshold"}
    /\ r.symbol \in Symbols /\ r.direction \in Direction /\ r.threshold \in Nat

ASSUME AlertAssumption ==
    /\ Prices \subseteq Nat
    /\ DefaultRules \in Seq(Range(DefaultRules))
    /\ \A r \in Range(DefaultRules) \cup PostedRules : IsRule(r)
    /\ MaxRules \in Nat

VARIABLES
    rules,     \* e.rules
    fired,     \* e.fired: the keys that are set
    alerts,    \* what Evaluate returned and the handler has still to publish,
               \* by the positions of their rules, in which order they come
    found,     \* history: for each rule "new", "cold" or "hot"
    twins      \* history: two rules have had the same key at a time

vars == <<rules, fired, alerts, found, twins>>

Rules == Range(DefaultRules) \cup PostedRules
Key(r) == <<r.symbol, r.direction, (r.threshold + 5) \div 10>>
Keys == {Key(r) : r \in Rules}
Alert == [rule: Rules, current: Prices, found: {"new", "cold", "hot"}]

HasTwins(rs) ==
    \E i, j \in DOMAIN rs : i # j /\ Key(rs[i]) = Key(rs[j])

Fresh(rs) == [i \in DOMAIN rs |-> "new"]

Init ==
    /\ rules = DefaultRules
    /\ fired = {}
    /\ alerts = <<>>
    /\ found = Fresh(DefaultRules)
    /\ twins = HasTwins(DefaultRules)

----------------------------------------------------------------------------
(* Evaluate. *)

Triggered(r, p) == IF r.direction = "above" THEN p >= r.threshold
                                            ELSE p <= r.threshold

Concerned(s) == {i \in DOMAIN rules : rules[i].symbol = s}

\* The rules of the same key that the loop has met before rule i, and whether
\* the key is set when it comes to rule i.
Before(i) == {j \in 1..(i - 1) : Key(rules[j]) = Key(rules[i])}
FiredAt(i, p) == IF Before(i) = {} THEN Key(rules[i]) \in fired
                                   ELSE Triggered(rules[Max(Before(i))], p)

\* Variant: an alert at every price that triggers a rule.
RaisesEveryTime(i, s, p) == i \in Concerned(s) /\ Triggered(rules[i], p)

Raises(i, s, p) ==
    i \in Concerned(s) /\ Triggered(rules[i], p) /\ ~FiredAt(i, p)

\* Variant: the flag is never reset.
FiredForGood(s, p) ==
    fired \cup {Key(rules[i]) : i \in {j \in Concerned(s) : Triggered(rules[j], p)}}

\* Variant: a rule that is not triggered resets all flags of its symbol.
FiredBySymbol(s, p) ==
    IF \E i \in Concerned(s) : ~Triggered(rules[i], p)
    THEN {k \in fired : k[1] # s}
    ELSE fired \cup {Key(rules[i]) : i \in Concerned(s)}

\* Variant: the flags are kept by the ids of the rules.
FiredById(s, p) == {rules[i].id : i \in {j \in Concerned(s) : Triggered(rules[j], p)}}

\* The last rule of a key has the last word on its flag.
FiredAfter(s, p) ==
    LET decides == {i \in Concerned(s) : \A j \in Concerned(s) :
                                j > i => Key(rules[j]) # Key(rules[i])}
    IN  (fired \ {Key(rules[i]) : i \in decides})
        \cup {Key(rules[i]) : i \in {j \in decides : Triggered(rules[j], p)}}

FoundAfter(s, p) ==
    [i \in DOMAIN rules |->
        IF i \notin Concerned(s) THEN found[i]
        ELSE IF Triggered(rules[i], p) THEN "hot" ELSE "cold"]

AlertOf(i, p) == [rule |-> rules[i], current |-> p, found |-> found[i]]
AlertsOf(s, p) ==
    [i \in {j \in DOMAIN rules : Raises(j, s, p)} |-> AlertOf(i, p)]

\* A price arrives when the alerts of the one before are dealt with.
Evaluate(s, p) ==
    /\ DOMAIN alerts = {}
    /\ alerts' = AlertsOf(s, p)
    /\ fired' = FiredAfter(s, p)
    /\ found' = FoundAfter(s, p)
    /\ UNCHANGED <<rules, twins>>

\* The next alert is published; if that fails the error is logged and the
\* alert is gone, which changes nothing in the service.
Publish ==
    \E n \in DOMAIN alerts :
        /\ \A m \in DOMAIN alerts : n <= m
        /\ alerts' = Restrict(alerts, DOMAIN alerts \ {n})
        /\ UNCHANGED <<rules, fired, found, twins>>

----------------------------------------------------------------------------
(* The requests, and a restart. *)

AddRule(r) ==
    /\ Len(rules) < MaxRules
    /\ rules' = Append(rules, r)
    /\ found' = Append(found, "new")
    /\ twins' = (twins \/ HasTwins(rules'))
    /\ UNCHANGED <<fired, alerts>>

\* Variant: the flag of the removed rule stays.
RemoveRuleOnly(id) ==
    \E i \in DOMAIN rules :
        /\ rules[i].id = id
        /\ \A j \in 1..(i - 1) : rules[j].id # id
        /\ rules' = RemoveAt(rules, i)
        /\ found' = RemoveAt(found, i)
        /\ UNCHANGED <<fired, alerts, twins>>

\* The first rule with the id goes, and the flag of its key with it.
RemoveRule(id) ==
    \E i \in DOMAIN rules :
        /\ rules[i].id = id
        /\ \A j \in 1..(i - 1) : rules[j].id # id
        /\ rules' = RemoveAt(rules, i)
        /\ found' = RemoveAt(found, i)
        /\ fired' = fired \ {Key(rules[i])}
        /\ UNCHANGED <<alerts, twins>>

\* The process is started again: added rules and flags are gone.
Restart ==
    /\ rules' = DefaultRules
    /\ fired' = {}
    /\ alerts' = <<>>
    /\ found' = Fresh(DefaultRules)
    /\ twins' = HasTwins(DefaultRules)

Next ==
    \/ \E s \in Symbols, p \in Prices : Evaluate(s, p)
    \/ Publish
    \/ \E r \in PostedRules : AddRule(r)
    \/ \E id \in {r.id : r \in Rules} : RemoveRule(id)
    \/ Restart

Spec == Init /\ [][Next]_vars

----------------------------------------------------------------------------
(* Properties. *)

TypeOK ==
    /\ rules \in Seq(Rules)
    /\ fired \subseteq Keys
    /\ alerts \in [DOMAIN alerts -> Alert] /\ DOMAIN alerts \subseteq Nat
    /\ found \in [DOMAIN rules -> {"new", "cold", "hot"}]
    /\ twins \in BOOLEAN

\* A set flag stands for a rule that exists and that the last price of its
\* symbol triggered, whatever rules were added and removed in the meantime: a
\* flag that outlived its rule would silence the next rule of that key.  The
\* other way round as long as no two rules have shared a key: a rule that is
\* still triggered does not fire again.
FlagsAreExact ==
    LET hot == {Key(rules[i]) : i \in {j \in DOMAIN rules : found[j] = "hot"}}
    IN  fired \subseteq hot /\ (twins \/ fired = hot)

\* No crossing is missed: when a price triggers a rule and no rule of that key
\* was triggered before, an alert of that key is raised.
NoCrossingMissed ==
    [][\A s \in Symbols, p \in Prices : Evaluate(s, p) =>
        \A i \in Concerned(s) :
            /\ Triggered(rules[i], p)
            /\ \A j \in DOMAIN rules : Key(rules[j]) = Key(rules[i]) => found[j] # "hot"
            => \E n \in DOMAIN alerts' : Key(alerts'[n].rule) = Key(rules[i])]_vars

\* The closed form above is what the loop of Evaluate computes: for each rule
\* in turn set or delete the flag of its key, and raise an alert.
LoopStep(s, p, acc, i) ==
    IF rules[i].symbol # s THEN acc
    ELSE IF Triggered(rules[i], p)
         THEN IF Key(rules[i]) \in acc.fired THEN acc
              ELSE [fired  |-> acc.fired \cup {Key(rules[i])},
                    alerts |-> [j \in DOMAIN acc.alerts \cup {i} |-> AlertOf(j, p)]]
         ELSE [acc EXCEPT !.fired = @ \ {Key(rules[i])}]
Loop(s, p) ==
    LET step(acc, i) == LoopStep(s, p, acc, i)
    IN  FoldLeftDomain(step, [fired |-> fired, alerts |-> <<>>], rules)
EvaluateIsTheLoop ==
    \A s \in Symbols, p \in Prices :
        Loop(s, p) = [fired |-> FiredAfter(s, p), alerts |-> AlertsOf(s, p)]

\* No alert is of a rule that the price before had triggered.
NoDuplicateAlert == \A n \in DOMAIN alerts : alerts[n].found # "hot"

\* A rule that has fired does not fire again before a price has left it, as long
\* as no two rules have shared a key, whose flag one of them would delete.
NoDuplicateWithoutTwins == ~twins => NoDuplicateAlert

=============================================================================
