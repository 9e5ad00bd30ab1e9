------------------------- MODULE AlertEngineProofs -------------------------
(***************************************************************************)
(* Safety of the alert engine for every set of rules and prices, and every *)
(* order of evaluations, requests and restarts.  EngineInv is inductive.   *)
(***************************************************************************)
EXTENDS AlertEngine, SequenceTheorems, WellFoundedInduction, TLAPS

\* What has been recorded about twins is so, of the rules there are now.
TwinsInv == twins \/ ~HasTwins(rules)

EngineInv == TypeOK /\ TwinsInv /\ FlagsAreExact /\ NoDuplicateWithoutTwins

----------------------------------------------------------------------------
(* The operators. *)

\* A set of positions that is not empty has a first one.
LEMMA FirstOf ==
    ASSUME NEW S \in SUBSET Nat, S # {}
    PROVE  \E n \in S : \A m \in S : n <= m
<1> DEFINE R == OpToRel(<, Nat)
<1>1. IsWellFoundedOn(R, Nat)
  BY NatLessThanWellFounded
<1>2. \A m, n \in Nat : m < n => <<m, n>> \in R
  BY DEF OpToRel
<1> HIDE DEF R
<1>3. PICK n \in S : \A m \in S : <<m, n>> \notin R
  BY <1>1, WFMin
<1>4. \A m \in S : ~(m < n)
  BY <1>2, <1>3
<1> QED BY <1>4

\* A set of positions of a sequence that is not empty has a last one.
LEMMA LastOf ==
    ASSUME NEW n \in Nat, NEW S \in SUBSET (1..n), S # {}
    PROVE  \E m \in S : \A k \in S : k <= m
<1> DEFINE T == {n - k : k \in S}
<1>1. T \in SUBSET Nat /\ T # {}
  <2>1. \A k \in S : k \in 1..n /\ n - k \in Nat
    OBVIOUS
  <2>2. T \subseteq Nat
    BY <2>1
  <2>3. \A k \in S : n - k \in T
    OBVIOUS
  <2> QED BY <2>2, <2>3
<1>2. PICK t \in T : \A u \in T : t <= u
  BY <1>1, FirstOf
<1>3. PICK m \in S : t = n - m
  BY <1>2
<1>4. \A k \in S : n - m <= n - k
  BY <1>2, <1>3
<1> QED BY <1>4

\* What is left of a sequence when position i is taken out of it: every other
\* element, in its order.
Moved(j, i) == IF j < i THEN j ELSE j - 1
LEMMA RemoveAtKeeps ==
    ASSUME NEW S, NEW q \in Seq(S), NEW i \in DOMAIN q
    PROVE  /\ RemoveAt(q, i) \in Seq(S)
           /\ Len(RemoveAt(q, i)) = Len(q) - 1
           /\ \A j \in DOMAIN q \ {i} :
                 /\ Moved(j, i) \in DOMAIN RemoveAt(q, i)
                 /\ RemoveAt(q, i)[Moved(j, i)] = q[j]
           /\ \A k \in DOMAIN RemoveAt(q, i) :
                 \E j \in DOMAIN q \ {i} : k = Moved(j, i)
<1> DEFINE left == SubSeq(q, 1, i - 1)
           right == SubSeq(q, i + 1, Len(q))
<1>1. /\ i \in 1..Len(q) /\ Len(q) \in Nat /\ DOMAIN q = 1..Len(q)
  OBVIOUS
<1>2. /\ left \in Seq(S) /\ Len(left) = i - 1
      /\ \A k \in 1..(i - 1) : left[k] = q[k]
  BY <1>1, SubSeqProperties, ElementOfSeq
<1>3. /\ right \in Seq(S) /\ Len(right) = Len(q) - i
      /\ \A k \in 1..(Len(q) - i) : right[k] = q[k + i]
  BY <1>1, SubSeqProperties, ElementOfSeq
<1>4. RemoveAt(q, i) = left \o right
  BY DEF RemoveAt
<1> HIDE DEF left, right
<1>5. /\ RemoveAt(q, i) \in Seq(S) /\ Len(RemoveAt(q, i)) = Len(q) - 1
      /\ DOMAIN RemoveAt(q, i) = 1..(Len(q) - 1)
      /\ \A k \in 1..(Len(q) - 1) :
            RemoveAt(q, i)[k] = IF k <= i - 1 THEN left[k] ELSE right[k - (i - 1)]
  <2>1. /\ left \o right \in Seq(S)
        /\ Len(left \o right) = Len(left) + Len(right)
        /\ \A k \in 1..(Len(left) + Len(right)) :
              (left \o right)[k] = IF k <= Len(left) THEN left[k]
                                                     ELSE right[k - Len(left)]
    BY <1>2, <1>3, ConcatProperties
  <2>2. Len(left) + Len(right) = Len(q) - 1
    BY <1>1, <1>2, <1>3
  <2> QED BY <1>2, <1>4, <2>1, <2>2, LenProperties
<1>6. ASSUME NEW j \in DOMAIN q \ {i}
      PROVE  /\ Moved(j, i) \in 1..(Len(q) - 1)
             /\ RemoveAt(q, i)[Moved(j, i)] = q[j]
  <2>1. CASE j < i
    BY <1>1, <1>2, <1>5, <2>1 DEF Moved
  <2>2. CASE j > i
    <3>1. j - 1 \in 1..(Len(q) - 1) /\ ~(j - 1 <= i - 1)
      BY <1>1, <2>2
    <3>2. right[j - i] = q[j] /\ j - 1 - (i - 1) = j - i
      BY <1>1, <1>3, <2>2
    <3>3. Moved(j, i) = j - 1
      BY <1>1, <2>2 DEF Moved
    <3> QED BY <1>5, <3>1, <3>2, <3>3
  <2> QED BY <1>1, <2>1, <2>2
<1>7. ASSUME NEW k \in 1..(Len(q) - 1)
      PROVE  \E j \in DOMAIN q \ {i} : k = Moved(j, i)
  <2>1. CASE k < i
    BY <1>1, <2>1 DEF Moved
  <2>2. CASE k >= i
    <3>1. k + 1 \in DOMAIN q \ {i} /\ k = Moved(k + 1, i)
      BY <1>1, <2>2 DEF Moved
    <3> QED BY <3>1
  <2> QED BY <1>1, <2>1, <2>2
<1> QED BY <1>5, <1>6, <1>7

\* The rules are records, and their keys begin with their symbol.
LEMMA RuleFacts ==
    ASSUME TypeOK
    PROVE  /\ DOMAIN rules = 1..Len(rules) /\ Len(rules) \in Nat
           /\ \A i \in DOMAIN rules :
                 /\ rules[i] \in Rules /\ Key(rules[i]) \in Keys
                 /\ Key(rules[i])[1] = rules[i].symbol
           /\ found \in Seq({"new", "cold", "hot"}) /\ Len(found) = Len(rules)
           /\ DOMAIN found = DOMAIN rules
BY DEF TypeOK, Keys, Key

\* Every rule that an evaluation concerns has a rule of its key, perhaps
\* itself, whose word on the flag is the last.
Decides(s) == {i \in Concerned(s) : \A j \in Concerned(s) :
                        j > i => Key(rules[j]) # Key(rules[i])}
LEMMA SomeoneDecides ==
    ASSUME TypeOK, NEW s \in Symbols, NEW i \in Concerned(s)
    PROVE  \E d \in Decides(s) : Key(rules[d]) = Key(rules[i])
<1> DEFINE same == {j \in Concerned(s) : Key(rules[j]) = Key(rules[i])}
<1>1. same \in SUBSET (1..Len(rules)) /\ same # {} /\ Len(rules) \in Nat
  BY RuleFacts DEF Concerned
<1>2. PICK d \in same : \A j \in same : j <= d
  BY <1>1, LastOf
<1>3. d \in Decides(s)
  BY <1>1, <1>2 DEF Decides
<1> QED BY <1>2, <1>3

----------------------------------------------------------------------------
(* Each step keeps the invariant. *)

\* The service starts with the default rules, none of which has fired.
LEMMA InitialRules ==
    /\ DefaultRules \in Seq(Rules)
    /\ Fresh(DefaultRules) \in [DOMAIN DefaultRules -> {"new", "cold", "hot"}]
    /\ \A i \in DOMAIN DefaultRules : Fresh(DefaultRules)[i] = "new"
    /\ HasTwins(DefaultRules) \in BOOLEAN
<1>1. DefaultRules \in Seq(Rules)
  BY AlertAssumption DEF AlertAssumption, Rules
<1> QED BY <1>1 DEF Fresh, HasTwins

\* A price sets and resets the flags of the rules of its symbol: each key as
\* its last rule says.  Without twins that is its only rule, and an alert is
\* raised only if its flag was not set.
LEMMA EvaluateOK ==
    ASSUME EngineInv, NEW s \in Symbols, NEW p \in Prices, Evaluate(s, p)
    PROVE  EngineInv'
<1>i. TypeOK /\ TwinsInv /\ FlagsAreExact
  BY DEF EngineInv
<1>1. /\ UNCHANGED <<rules, twins>>
      /\ alerts' = [i \in {j \in DOMAIN rules : Raises(j, s, p)} |-> AlertOf(i, p)]
      /\ fired' = (fired \ {Key(rules[i]) : i \in Decides(s)})
                  \cup {Key(rules[i]) : i \in {j \in Decides(s) : Triggered(rules[j], p)}}
      /\ found' = FoundAfter(s, p)
  BY DEF Evaluate, AlertsOf, FiredAfter, Decides
<1>2. /\ found' \in [DOMAIN rules -> {"new", "cold", "hot"}]
      /\ \A i \in DOMAIN rules :
            /\ i \notin Concerned(s) => found'[i] = found[i]
            /\ i \in Concerned(s) => (found'[i] = "hot" <=> Triggered(rules[i], p))
  BY <1>i, <1>1 DEF FoundAfter, TypeOK
<1>3. TypeOK'
  <2>1. \A i \in DOMAIN rules : AlertOf(i, p) \in Alert
    BY <1>i, RuleFacts DEF AlertOf, Alert, TypeOK
  <2>2. /\ alerts' \in [DOMAIN alerts' -> Alert]
        /\ DOMAIN alerts' \subseteq Nat
    BY <1>i, <1>1, <2>1, RuleFacts
  <2>3. fired' \subseteq Keys
    BY <1>i, <1>1, RuleFacts DEF TypeOK, Decides, Concerned
  <2> QED BY <1>i, <1>1, <1>2, <2>2, <2>3 DEF TypeOK
<1>4. TwinsInv'
  BY <1>i, <1>1 DEF TwinsInv
<1>5. FlagsAreExact'
  <2> DEFINE hot == {Key(rules[i]) : i \in {j \in DOMAIN rules : found[j] = "hot"}}
             hotter == {Key(rules[i]) : i \in {j \in DOMAIN rules : found'[j] = "hot"}}
  <2>1. ASSUME NEW k \in fired' PROVE k \in hotter
    <3>1. CASE \E i \in Decides(s) : Triggered(rules[i], p) /\ k = Key(rules[i])
      BY <1>2, <3>1 DEF Decides, Concerned
    <3>2. CASE k \in fired /\ \A i \in Decides(s) : k # Key(rules[i])
      <4>1. PICK i \in DOMAIN rules : found[i] = "hot" /\ k = Key(rules[i])
        BY <1>i, <3>2 DEF FlagsAreExact
      <4>2. i \notin Concerned(s)
        BY <1>i, <3>2, <4>1, SomeoneDecides
      <4> QED BY <1>2, <4>1, <4>2
    <3> QED BY <1>1, <2>1, <3>1, <3>2
  <2>2. ASSUME ~twins, NEW i \in DOMAIN rules, found'[i] = "hot"
        PROVE  Key(rules[i]) \in fired'
    <3>1. \A j \in DOMAIN rules : j # i => Key(rules[j]) # Key(rules[i])
      BY <1>i, <2>2 DEF TwinsInv, HasTwins
    <3>2. CASE i \in Concerned(s)
      <4>1. i \in Decides(s) /\ Triggered(rules[i], p)
        <5>1. i \in Nat /\ \A j \in Concerned(s) : j > i => j # i /\ j \in DOMAIN rules
          BY <1>i, RuleFacts DEF Concerned
        <5> QED BY <1>2, <2>2, <3>1, <3>2, <5>1 DEF Decides
      <4> QED BY <1>1, <4>1
    <3>3. CASE i \notin Concerned(s)
      <4>1. Key(rules[i]) \in fired
        BY <1>i, <1>2, <2>2, <3>3 DEF FlagsAreExact
      <4>2. \A j \in Decides(s) : Key(rules[j]) # Key(rules[i])
        BY <3>1, <3>3 DEF Decides, Concerned
      <4> QED BY <1>1, <4>1, <4>2
    <3> QED BY <3>2, <3>3
  <2>3. fired' \subseteq hotter /\ (twins' \/ hotter \subseteq fired')
    BY <1>1, <2>1, <2>2
  <2> QED BY <1>1, <2>3 DEF FlagsAreExact
<1>6. NoDuplicateWithoutTwins'
  <2> SUFFICES ASSUME ~twins, NEW i \in DOMAIN rules, Raises(i, s, p)
               PROVE  found[i] # "hot"
    BY <1>1 DEF NoDuplicateWithoutTwins, NoDuplicateAlert, AlertOf
  <2>1. \A j \in DOMAIN rules : j # i => Key(rules[j]) # Key(rules[i])
    BY <1>i DEF TwinsInv, HasTwins
  <2>2. Before(i) = {}
    BY <1>i, <2>1, RuleFacts DEF Before
  <2>3. Key(rules[i]) \notin fired
    BY <2>2 DEF Raises, FiredAt
  <2> QED BY <1>i, <2>3 DEF FlagsAreExact
<1> QED BY <1>3, <1>4, <1>5, <1>6 DEF EngineInv

\* Publishing takes the first of the alerts that wait.
LEMMA PublishOK ==
    ASSUME EngineInv, Publish
    PROVE  EngineInv'
<1>1. PICK n \in DOMAIN alerts :
        /\ alerts' = [m \in DOMAIN alerts \ {n} |-> alerts[m]]
        /\ UNCHANGED <<rules, fired, found, twins>>
  BY DEF Publish, Restrict
<1>2. /\ DOMAIN alerts' \subseteq DOMAIN alerts
      /\ \A m \in DOMAIN alerts' : alerts'[m] = alerts[m]
  BY <1>1
<1>3. TypeOK'
  BY <1>1, <1>2 DEF EngineInv, TypeOK
<1>4. NoDuplicateWithoutTwins'
  BY <1>1, <1>2 DEF EngineInv, NoDuplicateWithoutTwins, NoDuplicateAlert
<1>5. TwinsInv' /\ FlagsAreExact'
  BY <1>1 DEF EngineInv, TwinsInv, FlagsAreExact
<1> QED BY <1>3, <1>4, <1>5 DEF EngineInv

\* A rule that is added has not fired, though one of its key may have.
LEMMA AddRuleOK ==
    ASSUME EngineInv, NEW r \in PostedRules, AddRule(r)
    PROVE  EngineInv'
<1>i. TypeOK /\ TwinsInv /\ FlagsAreExact
  BY DEF EngineInv
<1>1. /\ rules' = Append(rules, r) /\ found' = Append(found, "new")
      /\ twins' = (twins \/ HasTwins(rules')) /\ UNCHANGED <<fired, alerts>>
  BY DEF AddRule
<1>2. /\ rules \in Seq(Rules) /\ r \in Rules
      /\ found \in Seq({"new", "cold", "hot"}) /\ Len(found) = Len(rules)
      /\ DOMAIN rules = 1..Len(rules) /\ DOMAIN found = 1..Len(rules)
      /\ Len(rules) \in Nat
  BY <1>i, RuleFacts DEF TypeOK, Rules
<1>3. /\ rules' \in Seq(Rules) /\ DOMAIN rules' = 1..(Len(rules) + 1)
      /\ found' \in [DOMAIN rules' -> {"new", "cold", "hot"}]
      /\ \A i \in DOMAIN rules : rules'[i] = rules[i] /\ found'[i] = found[i]
      /\ found'[Len(rules) + 1] = "new"
      /\ \A i \in DOMAIN rules' : i \in DOMAIN rules \/ i = Len(rules) + 1
  <2>1. /\ rules' \in Seq(Rules) /\ Len(rules') = Len(rules) + 1
        /\ \A i \in 1..Len(rules) : rules'[i] = rules[i]
    BY <1>1, <1>2, AppendProperties
  <2>2. /\ found' \in Seq({"new", "cold", "hot"}) /\ Len(found') = Len(rules) + 1
        /\ \A i \in 1..Len(rules) : found'[i] = found[i]
        /\ found'[Len(rules) + 1] = "new"
    BY <1>1, <1>2, AppendProperties
  <2>3. /\ DOMAIN rules' = 1..(Len(rules) + 1)
        /\ found' \in [1..(Len(rules) + 1) -> {"new", "cold", "hot"}]
    BY <2>1, <2>2, LenProperties
  <2> QED BY <1>2, <2>1, <2>2, <2>3
<1>4. TypeOK'
  <2>1. twins' \in BOOLEAN
    BY <1>i, <1>1 DEF HasTwins, TypeOK
  <2> QED BY <1>i, <1>1, <1>3, <2>1 DEF TypeOK
<1>5. TwinsInv'
  BY <1>1 DEF TwinsInv
<1>6. FlagsAreExact'
  <2>1. {Key(rules'[i]) : i \in {j \in DOMAIN rules' : found'[j] = "hot"}}
            = {Key(rules[i]) : i \in {j \in DOMAIN rules : found[j] = "hot"}}
    <3>1. {j \in DOMAIN rules' : found'[j] = "hot"}
              = {j \in DOMAIN rules : found[j] = "hot"}
      BY <1>2, <1>3
    <3> QED BY <1>3, <3>1
  <2> QED BY <1>i, <1>1, <2>1 DEF FlagsAreExact
<1>7. NoDuplicateWithoutTwins'
  BY <1>1 DEF EngineInv, NoDuplicateWithoutTwins, NoDuplicateAlert
<1> QED BY <1>4, <1>5, <1>6, <1>7 DEF EngineInv

\* The flag of a rule's key goes with the rule: what is left set stands for
\* the rules that are left.
LEMMA RemoveRuleOK ==
    ASSUME EngineInv, NEW id, RemoveRule(id)
    PROVE  EngineInv'
<1>i. TypeOK /\ TwinsInv /\ FlagsAreExact
  BY DEF EngineInv
<1>1. PICK i \in DOMAIN rules :
        /\ rules' = RemoveAt(rules, i) /\ found' = RemoveAt(found, i)
        /\ fired' = fired \ {Key(rules[i])} /\ UNCHANGED <<alerts, twins>>
  BY DEF RemoveRule
<1>2. /\ rules \in Seq(Rules) /\ DOMAIN rules = DOMAIN found
      /\ found \in Seq({"new", "cold", "hot"}) /\ Len(found) = Len(rules)
  BY <1>i, RuleFacts DEF TypeOK
<1>3. /\ rules' \in Seq(Rules) /\ Len(rules') = Len(rules) - 1
      /\ found' \in Seq({"new", "cold", "hot"}) /\ Len(found') = Len(rules')
      /\ \A j \in DOMAIN rules \ {i} :
            /\ Moved(j, i) \in DOMAIN rules'
            /\ rules'[Moved(j, i)] = rules[j] /\ found'[Moved(j, i)] = found[j]
      /\ \A k \in DOMAIN rules' : \E j \in DOMAIN rules \ {i} : k = Moved(j, i)
  <2>1. /\ rules' \in Seq(Rules) /\ Len(rules') = Len(rules) - 1
        /\ \A j \in DOMAIN rules \ {i} :
              Moved(j, i) \in DOMAIN rules' /\ rules'[Moved(j, i)] = rules[j]
        /\ \A k \in DOMAIN rules' : \E j \in DOMAIN rules \ {i} : k = Moved(j, i)
    <3>1. rules \in Seq(Rules) /\ rules' = RemoveAt(rules, i)
      BY <1>1, <1>2
    <3>2. /\ RemoveAt(rules, i) \in Seq(Rules)
          /\ Len(RemoveAt(rules, i)) = Len(rules) - 1
      BY <3>1, RemoveAtKeeps
    <3>3. \A j \in DOMAIN rules \ {i} :
             /\ Moved(j, i) \in DOMAIN RemoveAt(rules, i)
             /\ RemoveAt(rules, i)[Moved(j, i)] = rules[j]
      BY <3>1, RemoveAtKeeps
    <3>4. \A k \in DOMAIN RemoveAt(rules, i) :
             \E j \in DOMAIN rules \ {i} : k = Moved(j, i)
      BY <3>1, RemoveAtKeeps
    <3> QED BY ONLY <3>1, <3>2, <3>3, <3>4, Zenon
  <2>2. i \in DOMAIN found
    BY <1>2
  <2>3. /\ found' \in Seq({"new", "cold", "hot"}) /\ Len(found') = Len(found) - 1
        /\ \A j \in DOMAIN found \ {i} : found'[Moved(j, i)] = found[j]
    BY <1>1, <1>2, <2>2, RemoveAtKeeps
  <2> QED BY <1>2, <2>1, <2>3
<1>4. TypeOK'
  <2>1. found' \in [DOMAIN rules' -> {"new", "cold", "hot"}]
    BY <1>3
  <2> QED BY <1>i, <1>1, <1>3, <2>1 DEF TypeOK
<1>5. TwinsInv'
  <2> SUFFICES ASSUME HasTwins(rules') PROVE twins
    BY <1>1 DEF TwinsInv
  <2>1. PICK k \in DOMAIN rules', l \in DOMAIN rules' :
          k # l /\ Key(rules'[k]) = Key(rules'[l])
    BY DEF HasTwins
  <2>2. PICK j \in DOMAIN rules \ {i} : k = Moved(j, i)
    BY <1>3
  <2>3. PICK m \in DOMAIN rules \ {i} : l = Moved(m, i)
    BY <1>3
  <2>4. j # m /\ Key(rules[j]) = Key(rules[m])
    BY <1>3, <2>1, <2>2, <2>3
  <2> QED BY <1>i, <2>4 DEF TwinsInv, HasTwins
<1>6. FlagsAreExact'
  <2>1. ASSUME NEW k \in fired'
        PROVE  \E j \in DOMAIN rules' : found'[j] = "hot" /\ k = Key(rules'[j])
    <3>1. PICK j \in DOMAIN rules : found[j] = "hot" /\ k = Key(rules[j])
      BY <1>i, <1>1, <2>1 DEF FlagsAreExact
    <3>2. j # i
      BY <1>1, <2>1, <3>1
    <3> QED BY <1>3, <3>1, <3>2
  <2>2. ASSUME ~twins, NEW k \in DOMAIN rules', found'[k] = "hot"
        PROVE  Key(rules'[k]) \in fired'
    <3>1. PICK j \in DOMAIN rules \ {i} : k = Moved(j, i)
      BY <1>3
    <3>2. Key(rules[j]) # Key(rules[i])
      BY <1>i, <2>2 DEF TwinsInv, HasTwins
    <3>3. found[j] = "hot" /\ rules'[k] = rules[j]
      BY <1>3, <2>2, <3>1
    <3>4. Key(rules[j]) \in fired
      BY <1>i, <2>2, <3>3 DEF FlagsAreExact
    <3> QED BY <1>1, <3>2, <3>3, <3>4
  <2> QED BY <1>1, <2>1, <2>2 DEF FlagsAreExact
<1>7. NoDuplicateWithoutTwins'
  BY <1>1 DEF EngineInv, NoDuplicateWithoutTwins, NoDuplicateAlert
<1> QED BY <1>4, <1>5, <1>6, <1>7 DEF EngineInv

\* No alerts wait.
LEMMA NothingWaits ==
    <<>> \in [DOMAIN <<>> -> Alert] /\ DOMAIN <<>> \subseteq Nat
<1>1. <<>> \in Seq(Alert) /\ Len(<<>>) = 0
  BY EmptySeq
<1>2. <<>> \in [1..0 -> Alert]
  BY <1>1, LenProperties
<1> QED BY <1>2

\* A start, or a restart, forgets what has fired and what was to be published.
LEMMA StartOK ==
    /\ Init => EngineInv
    /\ Restart => EngineInv'
<1>1. ASSUME Init PROVE EngineInv
  <2>1. TypeOK
    BY <1>1, InitialRules, NothingWaits DEF Init, TypeOK
  <2> QED
    BY <1>1, <2>1, InitialRules
       DEF Init, EngineInv, TwinsInv, FlagsAreExact, NoDuplicateWithoutTwins,
           NoDuplicateAlert
<1>2. ASSUME Restart PROVE EngineInv'
  <2>1. TypeOK'
    BY <1>2, InitialRules, NothingWaits DEF Restart, TypeOK
  <2> QED
    BY <1>2, <2>1, InitialRules
       DEF Restart, EngineInv, TwinsInv, FlagsAreExact, NoDuplicateWithoutTwins,
           NoDuplicateAlert
<1> QED BY <1>1, <1>2

\* Every step of the handler, the requests and the operator keeps the
\* invariant.
LEMMA NextOK == EngineInv /\ [Next]_vars => EngineInv'
<1> SUFFICES ASSUME EngineInv, [Next]_vars PROVE EngineInv'
  OBVIOUS
<1>1. ASSUME NEW s \in Symbols, NEW p \in Prices, Evaluate(s, p) PROVE EngineInv'
  BY <1>1, EvaluateOK
<1>2. CASE Publish
  BY <1>2, PublishOK
<1>3. ASSUME NEW r \in PostedRules, AddRule(r) PROVE EngineInv'
  BY <1>3, AddRuleOK
<1>4. ASSUME NEW id, RemoveRule(id) PROVE EngineInv'
  BY <1>4, RemoveRuleOK
<1>5. CASE Restart
  BY <1>5, StartOK
<1>6. CASE UNCHANGED vars
  BY <1>6 DEF EngineInv, TypeOK, TwinsInv, FlagsAreExact, HasTwins,
              NoDuplicateWithoutTwins, NoDuplicateAlert, vars
<1> QED BY <1>1, <1>2, <1>3, <1>4, <1>5, <1>6 DEF Next

----------------------------------------------------------------------------
(* The properties. *)

\* The invariant holds whatever prices, requests and restarts come.
THEOREM EngineInvariant == Spec => []EngineInv
<1>1. Init => EngineInv
  BY StartOK
<1>2. EngineInv /\ [Next]_vars => EngineInv'
  BY NextOK
<1> QED BY <1>1, <1>2, PTL DEF Spec

\* The rules and flags keep their types: a flag is of a key that a rule has.
THEOREM TypeCorrect == Spec => []TypeOK
<1>1. EngineInv => TypeOK
  BY DEF EngineInv
<1> QED BY <1>1, EngineInvariant, PTL

\* e.fired has the keys of rules that exist and are triggered, however rules
\* were added and removed between evaluations; and all of them while no two
\* rules have shared a key.
THEOREM FlagsExact == Spec => []FlagsAreExact
<1>1. EngineInv => FlagsAreExact
  BY DEF EngineInv
<1> QED BY <1>1, EngineInvariant, PTL

\* An alert is not raised again before a price has left its rule, while no two
\* rules have shared a key.
THEOREM NoDuplicate == Spec => []NoDuplicateWithoutTwins
<1>1. EngineInv => NoDuplicateWithoutTwins
  BY DEF EngineInv
<1> QED BY <1>1, EngineInvariant, PTL

\* When a price triggers a rule and no rule of its key was, the first rule of
\* the key that it triggers raises the alert.
LEMMA FirstRaises ==
    ASSUME EngineInv, NEW s \in Symbols, NEW p \in Prices,
           NEW i \in Concerned(s), Triggered(rules[i], p),
           \A j \in DOMAIN rules : Key(rules[j]) = Key(rules[i]) => found[j] # "hot"
    PROVE  \E m \in DOMAIN rules : Raises(m, s, p) /\ Key(rules[m]) = Key(rules[i])
<1> DEFINE same == {j \in DOMAIN rules : /\ Key(rules[j]) = Key(rules[i])
                                         /\ Triggered(rules[j], p)}
<1>1. TypeOK /\ i \in DOMAIN rules
  BY DEF EngineInv, Concerned
<1>2. same \in SUBSET Nat /\ same # {}
  BY <1>1, RuleFacts
<1>3. PICK m \in same : \A j \in same : m <= j
  BY <1>2, FirstOf
<1>4. /\ m \in DOMAIN rules /\ Key(rules[m]) = Key(rules[i])
      /\ Triggered(rules[m], p) /\ m \in Concerned(s)
  BY <1>1, RuleFacts DEF Concerned
<1>5. \A j \in Before(m) : ~Triggered(rules[j], p)
  <2> SUFFICES ASSUME NEW j \in Before(m), Triggered(rules[j], p) PROVE FALSE
    OBVIOUS
  <2>1. j \in 1..(m - 1) /\ m \in 1..Len(rules) /\ Len(rules) \in Nat
    BY <1>1, <1>4, RuleFacts DEF Before
  <2>2. j \in DOMAIN rules /\ j < m
    BY <1>1, <2>1, RuleFacts
  <2>3. j \in same
    BY <1>4, <2>2 DEF Before
  <2> QED BY <1>3, <2>1, <2>2, <2>3
<1>6. ~FiredAt(m, p)
  <2>1. CASE Before(m) = {}
    <3>1. Key(rules[m]) \notin fired
      BY <1>4 DEF EngineInv, FlagsAreExact
    <3> QED BY <2>1, <3>1 DEF FiredAt
  <2>2. CASE Before(m) # {}
    <3>1. m - 1 \in Nat /\ Before(m) \in SUBSET (1..(m - 1))
      BY <1>1, <1>4, RuleFacts DEF Before
    <3>2. \E k \in Before(m) : \A j \in Before(m) : k >= j
      <4>1. PICK k \in Before(m) : \A j \in Before(m) : j <= k
        BY <2>2, <3>1, LastOf
      <4>2. \A j \in Before(m) : k >= j
        BY <3>1, <4>1
      <4> QED BY <4>2
    <3>3. Max(Before(m)) \in Before(m)
      BY <3>2 DEF Max
    <3> QED BY <1>5, <2>2, <3>3 DEF FiredAt
  <2> QED BY <2>1, <2>2
<1> QED BY <1>4, <1>6 DEF Raises

\* No crossing is missed: no sequence of prices and requests leaves a flag set
\* that keeps a rule from firing when a price comes to trigger it.
THEOREM CrossingRaised == Spec => NoCrossingMissed
<1>1. EngineInv /\ [Next]_vars =>
        [\A s \in Symbols, p \in Prices : Evaluate(s, p) =>
            \A i \in Concerned(s) :
                /\ Triggered(rules[i], p)
                /\ \A j \in DOMAIN rules :
                      Key(rules[j]) = Key(rules[i]) => found[j] # "hot"
                => \E n \in DOMAIN alerts' : Key(alerts'[n].rule) = Key(rules[i])]_vars
  <2> SUFFICES ASSUME EngineInv, NEW s \in Symbols, NEW p \in Prices,
                      Evaluate(s, p), NEW i \in Concerned(s),
                      Triggered(rules[i], p),
                      \A j \in DOMAIN rules :
                         Key(rules[j]) = Key(rules[i]) => found[j] # "hot"
               PROVE  \E n \in DOMAIN alerts' :
                         Key(alerts'[n].rule) = Key(rules[i])
    OBVIOUS
  <2>1. PICK m \in DOMAIN rules :
          Raises(m, s, p) /\ Key(rules[m]) = Key(rules[i])
    BY FirstRaises
  <2>2. m \in DOMAIN alerts' /\ alerts'[m].rule = rules[m]
    BY <2>1 DEF Evaluate, AlertsOf, AlertOf
  <2> QED BY <2>1, <2>2
<1> QED BY <1>1, EngineInvariant, PTL DEF Spec, NoCrossingMissed

----------------------------------------------------------------------------
(* The loop of Evaluate.  LoopStep is folded over the positions of the     *)
(* rules; Progress is what it has computed behind the first k of them.     *)

\* What holds of zero and of the successor of each number it holds of.
LEMMA UpToNumber ==
    ASSUME NEW S, NEW n \in Nat, 0 \in S,
           \A m \in Nat : m < n /\ m \in S => m + 1 \in S
    PROVE  n \in S
<1> SUFFICES ASSUME n \notin S PROVE FALSE
  OBVIOUS
<1> DEFINE missing == {m \in 0..n : m \notin S}
<1>1. missing \in SUBSET Nat /\ missing # {}
  OBVIOUS
<1>2. PICK m \in missing : \A k \in missing : m <= k
  BY <1>1, FirstOf
<1>3. m \in 0..n /\ m # 0 /\ m \notin S
  BY <1>2
<1>4. m - 1 \in Nat /\ m - 1 < n /\ (m - 1) + 1 = m /\ m - 1 \in 0..n
  BY <1>3
<1>5. m - 1 \notin missing
  BY <1>2, <1>3, <1>4
<1>6. m - 1 \in S
  BY <1>4, <1>5
<1> QED BY <1>3, <1>4, <1>6

\* The greatest of a set of positions.
LEMMA MaxIs ==
    ASSUME NEW S \in SUBSET Nat, NEW m \in S, \A k \in S : k <= m
    PROVE  Max(S) = m
<1>1. \A k \in S : m >= k
  OBVIOUS
<1>2. Max(S) \in S /\ \A k \in S : Max(S) >= k
  BY <1>1 DEF Max
<1>3. Max(S) \in Nat /\ m \in Nat /\ m >= Max(S) /\ Max(S) >= m
  BY <1>1, <1>2
<1> QED BY <1>3

\* The function that the fold iterates, on the subsets of the first n rules.
Blank == [fired |-> fired, alerts |-> <<>>]
IsIterate(it, s, p, n) ==
    it = [S \in SUBSET (1..n) |->
            IF S = {} THEN Blank
                      ELSE LoopStep(s, p, it[S \ {Max(S)}], Max(S))]

LEMMA IterateExists ==
    ASSUME NEW s, NEW p, NEW n \in Nat
    PROVE  \E it : IsIterate(it, s, p, n)
<1> DEFINE good == {m \in Nat : \E it : IsIterate(it, s, p, m)}
<1>1. 0 \in good
  <2> DEFINE it == [S \in SUBSET (1..0) |-> Blank]
  <2>1. \A S \in SUBSET (1..0) : S = {}
    OBVIOUS
  <2>2. IsIterate(it, s, p, 0)
    BY <2>1 DEF IsIterate
  <2> QED BY <2>2
<1>2. ASSUME NEW m \in Nat, m \in good PROVE m + 1 \in good
  <2>1. PICK it : IsIterate(it, s, p, m)
    BY <1>2
  <2> DEFINE more == [S \in SUBSET (1..(m + 1)) |->
                        IF m + 1 \in S THEN LoopStep(s, p, it[S \ {m + 1}], m + 1)
                                       ELSE it[S]]
  <2>2. ASSUME NEW S \in SUBSET (1..(m + 1))
        PROVE  more[S] = IF S = {} THEN Blank
                         ELSE LoopStep(s, p, more[S \ {Max(S)}], Max(S))
    <3>1. CASE m + 1 \in S
      <4>1. Max(S) = m + 1
        <5>1. S \in SUBSET Nat /\ \A k \in S : k <= m + 1
          OBVIOUS
        <5> QED BY <3>1, <5>1, MaxIs
      <4>2. S \ {m + 1} \in SUBSET (1..(m + 1)) /\ m + 1 \notin S \ {m + 1}
        OBVIOUS
      <4>3. more[S \ {m + 1}] = it[S \ {m + 1}]
        BY <4>2
      <4>4. more[S] = LoopStep(s, p, it[S \ {m + 1}], m + 1)
        BY <3>1
      <4> HIDE DEF more
      <4> QED BY <3>1, <4>1, <4>3, <4>4
    <3>2. CASE m + 1 \notin S
      <4>1. S \in SUBSET (1..m)
        <5>1. \A k \in S : k \in 1..(m + 1) /\ k # m + 1
          BY <3>2
        <5>2. \A k \in 1..(m + 1) : k # m + 1 => k \in 1..m
          OBVIOUS
        <5> QED BY <5>1, <5>2
      <4>2. /\ S \ {Max(S)} \in SUBSET (1..(m + 1))
            /\ m + 1 \notin S \ {Max(S)}
        BY <3>2
      <4>3. more[S] = it[S] /\ more[S \ {Max(S)}] = it[S \ {Max(S)}]
        BY <3>2, <4>2
      <4>4. it[S] = IF S = {} THEN Blank
                    ELSE LoopStep(s, p, it[S \ {Max(S)}], Max(S))
        BY <2>1, <4>1 DEF IsIterate
      <4> HIDE DEF more
      <4> QED BY <4>3, <4>4
    <3> QED BY <3>1, <3>2
  <2>3. DOMAIN more = SUBSET (1..(m + 1))
    OBVIOUS
  <2>4. more = [S \in SUBSET (1..(m + 1)) |-> more[S]]
    OBVIOUS
  <2> HIDE DEF more
  <2>5. IsIterate(more, s, p, m + 1)
    BY <2>2, <2>4 DEF IsIterate
  <2> QED BY <2>5
<1> HIDE DEF good
<1>3. n \in good
  BY <1>1, <1>2, UpToNumber
<1> QED BY <1>3 DEF good

LEMMA LoopIterates ==
    ASSUME TypeOK, NEW s, NEW p
    PROVE  \E it : /\ IsIterate(it, s, p, Len(rules))
                   /\ Loop(s, p) = it[1..Len(rules)]
<1>1. DOMAIN rules = 1..Len(rules) /\ Len(rules) \in Nat
  BY RuleFacts
<1> DEFINE same(it) == it = [S \in SUBSET (1..Len(rules)) |->
            IF S = {} THEN Blank
                      ELSE LoopStep(s, p, it[S \ {Max(S)}],
                                    [i \in 1..Len(rules) |-> i][Max(S)])]
<1>2. ASSUME NEW S \in SUBSET (1..Len(rules)), S # {}
      PROVE  [i \in 1..Len(rules) |-> i][Max(S)] = Max(S)
  <2>1. PICK m \in S : \A k \in S : k <= m
    BY <1>1, <1>2, LastOf
  <2>2. S \in SUBSET Nat
    BY <1>1
  <2>3. Max(S) = m
    BY <2>1, <2>2, MaxIs
  <2> QED BY <2>3
<1>3. \A it : same(it) <=> IsIterate(it, s, p, Len(rules))
  BY <1>2 DEF IsIterate
<1>4. \E it : same(it)
  BY <1>1, <1>3, IterateExists
<1>5. Loop(s, p) = (CHOOSE it : same(it))[1..Len(rules)]
  BY <1>1 DEF Loop, FoldLeftDomain, FoldLeft, MapThenFoldSet, Blank
<1> HIDE DEF same
<1>6. same(CHOOSE it : same(it))
  BY <1>4
<1> QED BY <1>3, <1>5, <1>6

\* The rules of a key among the first k, and what the loop has computed behind
\* them: the last of them has set or reset the flag.
Met(s, c, k) == {j \in Concerned(s) : j <= k /\ Key(rules[j]) = c}
SetBehind(s, p, k, c) ==
    IF Met(s, c, k) = {} THEN c \in fired
                         ELSE Triggered(rules[Max(Met(s, c, k))], p)
FiredBehind(s, p, k) == {c \in Keys : SetBehind(s, p, k, c)}
RaisedBehind(s, p, k) == {j \in DOMAIN rules : j <= k /\ Raises(j, s, p)}
AlertsBehind(s, p, k) ==
    [i \in RaisedBehind(s, p, k) |-> AlertOf(i, p)]
Progress(s, p, k) ==
    [fired |-> FiredBehind(s, p, k), alerts |-> AlertsBehind(s, p, k)]

\* The loop has met rule k + 1 when it has met it.
LEMMA MetNext ==
    ASSUME TypeOK, NEW s \in Symbols, NEW k \in Nat, k + 1 \in DOMAIN rules, NEW c
    PROVE  /\ k + 1 \in Concerned(s) /\ c = Key(rules[k + 1]) =>
                /\ Met(s, c, k + 1) # {}
                /\ Max(Met(s, c, k + 1)) = k + 1
           /\ k + 1 \notin Concerned(s) \/ c # Key(rules[k + 1]) =>
                Met(s, c, k + 1) = Met(s, c, k)
<1>1. DOMAIN rules = 1..Len(rules) /\ Len(rules) \in Nat
  BY RuleFacts
<1>2. Concerned(s) \subseteq 1..Len(rules)
  BY <1>1 DEF Concerned
<1>3. ASSUME k + 1 \in Concerned(s), c = Key(rules[k + 1])
      PROVE  Met(s, c, k + 1) # {} /\ Max(Met(s, c, k + 1)) = k + 1
  <2>1. k + 1 \in Met(s, c, k + 1) /\ \A j \in Met(s, c, k + 1) : j <= k + 1
    BY <1>3 DEF Met
  <2>2. Met(s, c, k + 1) \in SUBSET Nat
    BY <1>2 DEF Met
  <2> QED BY <2>1, <2>2, MaxIs
<1>4. ASSUME k + 1 \notin Concerned(s) \/ c # Key(rules[k + 1])
      PROVE  Met(s, c, k + 1) = Met(s, c, k)
  <2>1. \A j \in Concerned(s) : j <= k + 1 <=> j <= k \/ j = k + 1
    BY <1>1, <1>2
  <2> QED BY <1>4, <2>1 DEF Met
<1> QED BY <1>3, <1>4

\* When the loop comes to a rule, its flag is what FiredAt says.
LEMMA FlagAtRule ==
    ASSUME TypeOK, NEW s \in Symbols, NEW p, NEW k \in Nat, k + 1 \in Concerned(s)
    PROVE  SetBehind(s, p, k, Key(rules[k + 1])) = FiredAt(k + 1, p)
<1>1. DOMAIN rules = 1..Len(rules) /\ Len(rules) \in Nat
  BY RuleFacts
<1>2. k + 1 \in 1..Len(rules) /\ 1..(k + 1 - 1) = 1..k
  BY <1>1 DEF Concerned
<1>3. \A j \in 1..k : j \in DOMAIN rules
  BY <1>1, <1>2
<1>4. \A j \in DOMAIN rules : Key(rules[j]) = Key(rules[k + 1]) => j \in Concerned(s)
  BY RuleFacts DEF Concerned
<1>5. Before(k + 1) = Met(s, Key(rules[k + 1]), k)
  <2>1. \A j : j \in 1..k <=> j \in DOMAIN rules /\ j <= k
    BY <1>1, <1>2
  <2> QED BY <1>2, <1>4, <2>1 DEF Before, Met, Concerned
<1> QED BY <1>5 DEF SetBehind, FiredAt

LEMMA ProgressStarts ==
    ASSUME TypeOK, NEW s \in Symbols, NEW p
    PROVE  Progress(s, p, 0) = Blank
<1>1. DOMAIN rules = 1..Len(rules) /\ Len(rules) \in Nat
  BY RuleFacts
<1>2. \A c : Met(s, c, 0) = {}
  BY <1>1 DEF Met, Concerned
<1>3. FiredBehind(s, p, 0) = fired
  BY <1>2 DEF FiredBehind, SetBehind, TypeOK
<1>4. AlertsBehind(s, p, 0) = <<>>
  <2>1. {j \in DOMAIN rules : j <= 0 /\ Raises(j, s, p)} = {}
    BY <1>1
  <2>2. <<>> = [i \in {} |-> AlertOf(i, p)]
    <3>1. <<>> \in Seq({}) /\ Len(<<>>) = 0
      BY EmptySeq
    <3>2. <<>> \in [1..0 -> {}]
      BY <3>1, LenProperties
    <3> QED BY <3>2
  <2> QED BY <2>1, <2>2 DEF AlertsBehind, RaisedBehind
<1> QED BY <1>3, <1>4 DEF Progress, Blank

\* A rule for another symbol changes nothing.
LEMMA PassesBy ==
    ASSUME TypeOK, NEW s \in Symbols, NEW p, NEW k \in Nat,
           k + 1 \in DOMAIN rules, k + 1 \notin Concerned(s)
    PROVE  Progress(s, p, k + 1) = Progress(s, p, k)
<1>1. DOMAIN rules = 1..Len(rules) /\ Len(rules) \in Nat
  BY RuleFacts
<1>2. \A c : Met(s, c, k + 1) = Met(s, c, k)
  BY MetNext
<1>3. FiredBehind(s, p, k + 1) = FiredBehind(s, p, k)
  BY <1>2 DEF FiredBehind, SetBehind
<1>4. ~Raises(k + 1, s, p)
  BY DEF Raises
<1>5. \A j \in DOMAIN rules : j <= k + 1 <=> j <= k \/ j = k + 1
  BY <1>1
<1>6. AlertsBehind(s, p, k + 1) = AlertsBehind(s, p, k)
  BY <1>4, <1>5 DEF AlertsBehind, RaisedBehind
<1> QED BY <1>3, <1>6 DEF Progress

\* A rule that the price triggers sets its flag, and raises an alert when the
\* flag was not set.
LEMMA Sets ==
    ASSUME TypeOK, NEW s \in Symbols, NEW p, NEW k \in Nat,
           k + 1 \in Concerned(s), Triggered(rules[k + 1], p)
    PROVE  FiredBehind(s, p, k + 1) = FiredBehind(s, p, k) \cup {Key(rules[k + 1])}
<1>1. k + 1 \in DOMAIN rules /\ Key(rules[k + 1]) \in Keys
  BY RuleFacts DEF Concerned
<1>2. \A c \in Keys : SetBehind(s, p, k + 1, c) <=>
                        SetBehind(s, p, k, c) \/ c = Key(rules[k + 1])
  <2> TAKE c \in Keys
  <2>1. CASE c = Key(rules[k + 1])
    BY <1>1, <2>1, MetNext DEF SetBehind
  <2>2. CASE c # Key(rules[k + 1])
    <3>1. Met(s, c, k + 1) = Met(s, c, k)
      BY <1>1, <2>2, MetNext
    <3> QED BY <2>2, <3>1 DEF SetBehind
  <2> QED BY <2>1, <2>2
<1> QED BY <1>1, <1>2 DEF FiredBehind

LEMMA RaisesUnlessSet ==
    ASSUME TypeOK, NEW s \in Symbols, NEW p, NEW k \in Nat,
           k + 1 \in Concerned(s), Triggered(rules[k + 1], p)
    PROVE  RaisedBehind(s, p, k + 1)
             = IF Key(rules[k + 1]) \in FiredBehind(s, p, k)
               THEN RaisedBehind(s, p, k) ELSE RaisedBehind(s, p, k) \cup {k + 1}
<1>1. /\ DOMAIN rules = 1..Len(rules) /\ Len(rules) \in Nat
      /\ k + 1 \in DOMAIN rules /\ Key(rules[k + 1]) \in Keys
  BY RuleFacts DEF Concerned
<1>2. Raises(k + 1, s, p) <=> Key(rules[k + 1]) \notin FiredBehind(s, p, k)
  BY <1>1, FlagAtRule DEF Raises, FiredBehind
<1>3. \A j \in DOMAIN rules : j <= k + 1 <=> j <= k \/ j = k + 1
  BY <1>1
<1> QED BY <1>1, <1>2, <1>3 DEF RaisedBehind

\* A rule that the price does not trigger resets its flag.
LEMMA Resets ==
    ASSUME TypeOK, NEW s \in Symbols, NEW p, NEW k \in Nat,
           k + 1 \in Concerned(s), ~Triggered(rules[k + 1], p)
    PROVE  /\ FiredBehind(s, p, k + 1) = FiredBehind(s, p, k) \ {Key(rules[k + 1])}
           /\ AlertsBehind(s, p, k + 1) = AlertsBehind(s, p, k)
<1>1. /\ DOMAIN rules = 1..Len(rules) /\ Len(rules) \in Nat
      /\ k + 1 \in DOMAIN rules /\ Key(rules[k + 1]) \in Keys
  BY RuleFacts DEF Concerned
<1>2. \A c \in Keys : SetBehind(s, p, k + 1, c) <=>
                        SetBehind(s, p, k, c) /\ c # Key(rules[k + 1])
  <2> TAKE c \in Keys
  <2>1. CASE c = Key(rules[k + 1])
    BY <1>1, <2>1, MetNext DEF SetBehind
  <2>2. CASE c # Key(rules[k + 1])
    <3>1. Met(s, c, k + 1) = Met(s, c, k)
      BY <1>1, <2>2, MetNext
    <3> QED BY <2>2, <3>1 DEF SetBehind
  <2> QED BY <2>1, <2>2
<1>3. FiredBehind(s, p, k + 1) = FiredBehind(s, p, k) \ {Key(rules[k + 1])}
  BY <1>2 DEF FiredBehind
<1>4. ~Raises(k + 1, s, p)
  BY DEF Raises
<1>5. \A j \in DOMAIN rules : j <= k + 1 <=> j <= k \/ j = k + 1
  BY <1>1
<1>6. AlertsBehind(s, p, k + 1) = AlertsBehind(s, p, k)
  BY <1>4, <1>5 DEF AlertsBehind, RaisedBehind
<1> QED BY <1>3, <1>6

\* One turn of the loop makes one rule of progress.
LEMMA ProgressGoesOn ==
    ASSUME TypeOK, NEW s \in Symbols, NEW p, NEW k \in Nat, k + 1 \in DOMAIN rules
    PROVE  LoopStep(s, p, Progress(s, p, k), k + 1) = Progress(s, p, k + 1)
<1>1. /\ Progress(s, p, k).fired = FiredBehind(s, p, k)
      /\ Progress(s, p, k).alerts = AlertsBehind(s, p, k)
      /\ \A F : [Progress(s, p, k) EXCEPT !.fired = F]
                  = [fired |-> F, alerts |-> AlertsBehind(s, p, k)]
  BY DEF Progress
<1>2. k + 1 \in Concerned(s) <=> rules[k + 1].symbol = s
  BY DEF Concerned
<1>3. CASE rules[k + 1].symbol # s
  BY <1>2, <1>3, PassesBy DEF LoopStep
<1>4. CASE rules[k + 1].symbol = s /\ Triggered(rules[k + 1], p)
  <2>1. FiredBehind(s, p, k + 1) = FiredBehind(s, p, k) \cup {Key(rules[k + 1])}
    BY <1>2, <1>4, Sets
  <2>2. RaisedBehind(s, p, k + 1)
          = IF Key(rules[k + 1]) \in FiredBehind(s, p, k)
            THEN RaisedBehind(s, p, k) ELSE RaisedBehind(s, p, k) \cup {k + 1}
    BY <1>2, <1>4, RaisesUnlessSet
  <2>3. CASE Key(rules[k + 1]) \in FiredBehind(s, p, k)
    <3>1. LoopStep(s, p, Progress(s, p, k), k + 1) = Progress(s, p, k)
      BY <1>1, <1>4, <2>3 DEF LoopStep
    <3>2. FiredBehind(s, p, k + 1) = FiredBehind(s, p, k)
      BY <2>1, <2>3
    <3>3. AlertsBehind(s, p, k + 1) = AlertsBehind(s, p, k)
      BY <2>2, <2>3 DEF AlertsBehind
    <3> QED BY <3>1, <3>2, <3>3 DEF Progress
  <2>4. CASE Key(rules[k + 1]) \notin FiredBehind(s, p, k)
    <3>1. LoopStep(s, p, Progress(s, p, k), k + 1)
            = [fired  |-> FiredBehind(s, p, k) \cup {Key(rules[k + 1])},
               alerts |-> [j \in DOMAIN AlertsBehind(s, p, k) \cup {k + 1}
                             |-> AlertOf(j, p)]]
      BY <1>1, <1>4, <2>4 DEF LoopStep
    <3>2. DOMAIN AlertsBehind(s, p, k) \cup {k + 1} = RaisedBehind(s, p, k + 1)
      BY <2>2, <2>4 DEF AlertsBehind
    <3> QED BY <2>1, <3>1, <3>2 DEF Progress, AlertsBehind
  <2> QED BY <2>3, <2>4
<1>5. CASE rules[k + 1].symbol = s /\ ~Triggered(rules[k + 1], p)
  <2>1. LoopStep(s, p, Progress(s, p, k), k + 1)
          = [fired  |-> FiredBehind(s, p, k) \ {Key(rules[k + 1])},
             alerts |-> AlertsBehind(s, p, k)]
    BY <1>1, <1>5 DEF LoopStep
  <2>2. /\ FiredBehind(s, p, k + 1) = FiredBehind(s, p, k) \ {Key(rules[k + 1])}
        /\ AlertsBehind(s, p, k + 1) = AlertsBehind(s, p, k)
    BY <1>2, <1>5, Resets
  <2> QED BY <2>1, <2>2 DEF Progress
<1> QED BY <1>3, <1>4, <1>5

\* Behind the last rule the loop has computed what Evaluate does.
LEMMA ProgressEnds ==
    ASSUME TypeOK, NEW s \in Symbols, NEW p
    PROVE  Progress(s, p, Len(rules))
             = [fired |-> FiredAfter(s, p), alerts |-> AlertsOf(s, p)]
<1>1. DOMAIN rules = 1..Len(rules) /\ Len(rules) \in Nat
  BY RuleFacts
<1>2. \A j \in DOMAIN rules : j <= Len(rules)
  BY <1>1
<1>3. AlertsBehind(s, p, Len(rules)) = AlertsOf(s, p)
  BY <1>2 DEF AlertsBehind, RaisedBehind, AlertsOf
<1>4. FiredAfter(s, p) = (fired \ {Key(rules[i]) : i \in Decides(s)})
              \cup {Key(rules[i]) : i \in {j \in Decides(s) : Triggered(rules[j], p)}}
  BY DEF FiredAfter, Decides
<1>5. FiredAfter(s, p) \subseteq Keys
  BY <1>4, RuleFacts DEF TypeOK, Decides, Concerned
<1>6. ASSUME NEW c \in Keys
      PROVE  SetBehind(s, p, Len(rules), c) <=> c \in FiredAfter(s, p)
  <2> DEFINE met == {j \in Concerned(s) : Key(rules[j]) = c}
  <2>1. Met(s, c, Len(rules)) = met
    BY <1>2 DEF Met, Concerned
  <2>2. met \in SUBSET (1..Len(rules)) /\ met \in SUBSET Nat
    BY <1>1 DEF Concerned
  <2>3. CASE met = {}
    <3>1. \A i \in Decides(s) : Key(rules[i]) # c
      BY <2>3 DEF Decides
    <3> QED BY <1>4, <2>1, <2>3, <3>1 DEF SetBehind
  <2>4. CASE met # {}
    <3>1. PICK d \in met : \A j \in met : j <= d
      BY <1>1, <2>2, <2>4, LastOf
    <3>2. Max(met) = d
      BY <2>2, <3>1, MaxIs
    <3>3. \A j \in Concerned(s) : j \in 1..Len(rules)
      BY <1>1 DEF Concerned
    <3>4. d \in Decides(s) /\ Key(rules[d]) = c
      BY <1>1, <3>1, <3>3 DEF Decides
    <3>5. \A i \in Decides(s) : Key(rules[i]) = c => i = d
      BY <1>1, <3>1, <3>3, <3>4 DEF Decides
    <3>6. c \in FiredAfter(s, p) <=> Triggered(rules[d], p)
      BY <1>4, <3>4, <3>5
    <3> QED BY <2>1, <2>4, <3>2, <3>6 DEF SetBehind
  <2> QED BY <2>3, <2>4
<1>7. FiredBehind(s, p, Len(rules)) = FiredAfter(s, p)
  BY <1>5, <1>6 DEF FiredBehind
<1> QED BY <1>3, <1>7 DEF Progress

\* What the fold iterates is the progress of the loop.
LEMMA IterateIsProgress ==
    ASSUME TypeOK, NEW s \in Symbols, NEW p, NEW it,
           IsIterate(it, s, p, Len(rules))
    PROVE  it[1..Len(rules)] = Progress(s, p, Len(rules))
<1>1. DOMAIN rules = 1..Len(rules) /\ Len(rules) \in Nat
  BY RuleFacts
<1> DEFINE good == {k \in Nat : k <= Len(rules) => it[1..k] = Progress(s, p, k)}
<1>2. 0 \in good
  <2>1. 1..0 = {} /\ {} \in SUBSET (1..Len(rules))
    OBVIOUS
  <2>2. it[1..0] = Blank
    BY <2>1 DEF IsIterate
  <2> QED BY <2>2, ProgressStarts
<1>3. ASSUME NEW k \in Nat, k < Len(rules), k \in good PROVE k + 1 \in good
  <2>1. k + 1 \in DOMAIN rules /\ it[1..k] = Progress(s, p, k)
    BY <1>1, <1>3
  <2>2. /\ 1..(k + 1) \in SUBSET (1..Len(rules)) /\ 1..(k + 1) # {}
        /\ k + 1 \in 1..(k + 1)
    <3>1. \A j \in 1..(k + 1) : j \in 1..Len(rules)
      BY <1>1, <1>3
    <3>2. k + 1 \in 1..(k + 1)
      OBVIOUS
    <3> QED BY <3>1, <3>2
  <2>3. Max(1..(k + 1)) = k + 1
    <3>1. 1..(k + 1) \in SUBSET Nat /\ \A j \in 1..(k + 1) : j <= k + 1
      OBVIOUS
    <3> QED BY <2>2, <3>1, MaxIs
  <2>4. (1..(k + 1)) \ {k + 1} = 1..k
    OBVIOUS
  <2>5. it[1..(k + 1)] = LoopStep(s, p, it[(1..(k + 1)) \ {Max(1..(k + 1))}],
                                  Max(1..(k + 1)))
    BY <2>2 DEF IsIterate
  <2>6. it[1..(k + 1)] = LoopStep(s, p, Progress(s, p, k), k + 1)
    BY <2>1, <2>3, <2>4, <2>5
  <2>7. it[1..(k + 1)] = Progress(s, p, k + 1)
    BY <2>1, <2>6, ProgressGoesOn
  <2> QED BY <2>7
<1> HIDE DEF good
<1>4. Len(rules) \in good
  BY <1>1, <1>2, <1>3, UpToNumber
<1> QED BY <1>1, <1>4 DEF good

\* The closed form of Evaluate is what its loop over the rules computes, for
\* every number of rules and keys that they share.
THEOREM LoopIsClosedForm == Spec => []EvaluateIsTheLoop
<1>1. EngineInv => EvaluateIsTheLoop
  <2> SUFFICES ASSUME EngineInv, NEW s \in Symbols, NEW p \in Prices
               PROVE  Loop(s, p) = [fired  |-> FiredAfter(s, p),
                                    alerts |-> AlertsOf(s, p)]
    BY DEF EvaluateIsTheLoop
  <2>1. TypeOK
    BY DEF EngineInv
  <2>2. PICK it : /\ IsIterate(it, s, p, Len(rules))
                  /\ Loop(s, p) = it[1..Len(rules)]
    BY <2>1, LoopIterates
  <2>3. it[1..Len(rules)] = Progress(s, p, Len(rules))
    BY <2>1, <2>2, IterateIsProgress
  <2> QED BY <2>1, <2>2, <2>3, ProgressEnds
<1> QED BY <1>1, EngineInvariant, PTL
=============================================================================
