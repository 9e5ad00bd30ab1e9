------------------------ MODULE TerminalClientProofs ------------------------
(***************************************************************************)
(* Safety of the terminal client for every set of symbols, any number of   *)
(* slots, messages, rows, refreshes and server stops.                      *)
(***************************************************************************)
EXTENDS TerminalClient, FiniteSetTheorems, FunctionTheorems, TLAPS

\* The threads can be counted, and there are as many as there should be.
ThreadInv == IsFiniteSet(Threads(flight)) /\ OneThread

\* Only the history asks for rows, and nobody for anything after the user quit.
KindInv ==
    /\ InFlight(Fetch) \/ (\E n \in 0..MaxRows : InFlight(Rows(n)))
          => screen = "history"
    /\ screen = "none" => BagToSet(flight) = {}

\* As long as the server has not stopped, what is on its way to the view of one
\* price is not older than what it shows, and what will come is newer still.
WatchInv ==
    stops = 0 =>
        /\ latest = count
        /\ screen = "watch" => \A s \in Symbols :
              /\ shown[s] <= latest[s]
              /\ \A n \in Numbers : InFlight(Price(s, n)) => n \in shown[s]..latest[s]

\* Unless r was pressed too soon, there is one answer at a time on its way to
\* the history, and it is not older than what is shown.
HistoryInv ==
    screen = "history" /\ ~raced =>
        /\ Cardinality(Threads(flight)) <= 1
        /\ \A n \in 0..MaxRows : InFlight(Rows(n)) => row <= n

ClientInv == TypeOK /\ ThreadInv /\ KindInv /\ WatchInv /\ HistoryInv

----------------------------------------------------------------------------
(* Bags and their threads. *)

\* What is in flight is of one kind.
LEMMA Kinds ==
    /\ Dial # Read /\ Dial # Tick /\ Dial # Fetch /\ Dial # Error
    /\ Read # Tick /\ Read # Fetch /\ Read # Error
    /\ Tick # Fetch /\ Tick # Error /\ Fetch # Error
    /\ \A n : Rows(n) \notin {Dial, Read, Tick, Fetch, Error}
    /\ \A s, n : Price(s, n) \notin {Dial, Read, Tick, Fetch, Error}
    /\ \A s, n, m : Price(s, n) # Rows(m)
    /\ \A n, m : Rows(n) = Rows(m) => n = m
    /\ \A s, t, n, m : Price(s, n) = Price(t, m) => s = t /\ n = m
BY DEF Dial, Read, Tick, Fetch, Error, Price, Rows

\* How many copies of c there are.
Copies(c, B) == IF c \in DOMAIN B THEN B[c] ELSE 0

\* A bag is given by its copies.
LEMMA ThreadsOf ==
    ASSUME NEW B, IsABag(B)
    PROVE  /\ \A c : Copies(c, B) \in Nat
           /\ \A c : c \in DOMAIN B <=> Copies(c, B) > 0
           /\ \A c, k : <<c, k>> \in Threads(B) <=> k \in 1..Copies(c, B)
           /\ \A t \in Threads(B) : t = <<t[1], t[2]>>
<1>1. \A c \in DOMAIN B : B[c] \in Nat /\ B[c] > 0
  BY DEF IsABag
<1>2. \A c : Copies(c, B) \in Nat /\ (c \in DOMAIN B <=> Copies(c, B) > 0)
  BY <1>1 DEF Copies
<1>3. ASSUME NEW c, NEW k
      PROVE  <<c, k>> \in Threads(B) <=> k \in 1..Copies(c, B)
  BY <1>1 DEF Threads, Copies
<1>4. \A t \in Threads(B) : t = <<t[1], t[2]>>
  BY DEF Threads
<1> QED BY <1>2, <1>3, <1>4

\* n copies of c that become copies of d.
Moved(B, c, d, n) == (B (-) [e \in {c} |-> n]) (+) [e \in {d} |-> n]

\* What the bag is then.
LEMMA MovedIs ==
    ASSUME NEW B, IsABag(B), NEW c \in DOMAIN B, NEW d, NEW n \in 1..B[c]
    PROVE  /\ IsABag(Moved(B, c, d, n))
           /\ d \in DOMAIN Moved(B, c, d, n)
           /\ DOMAIN Moved(B, c, d, n) \subseteq DOMAIN B \cup {d}
           /\ \A e : Copies(e, Moved(B, c, d, n)) =
                  IF c = d THEN Copies(e, B)
                  ELSE IF e = c THEN Copies(c, B) - n
                  ELSE IF e = d THEN Copies(d, B) + n ELSE Copies(e, B)
<1> DEFINE R == B (-) [e \in {c} |-> n]
           D == Moved(B, c, d, n)
<1>1. /\ \A e \in DOMAIN B : B[e] \in Nat /\ B[e] > 0
      /\ B[c] \in Nat /\ n \in Nat /\ n > 0 /\ n <= B[c]
  BY DEF IsABag
<1>2. /\ DOMAIN R = {e \in DOMAIN B : e # c \/ B[c] > n}
      /\ \A e \in DOMAIN R : R[e] = IF e = c THEN B[c] - n ELSE B[e]
  BY <1>1 DEF (-)
<1>3. D = [e \in DOMAIN R \cup {d} |->
               (IF e \in DOMAIN R THEN R[e] ELSE 0) + (IF e = d THEN n ELSE 0)]
  BY DEF Moved, (+)
<1> HIDE DEF R, D
<1>4. /\ DOMAIN D = DOMAIN R \cup {d}
      /\ \A e \in DOMAIN D :
            D[e] = (IF e \in DOMAIN R THEN R[e] ELSE 0) + (IF e = d THEN n ELSE 0)
  BY <1>3
<1>5. \A e \in DOMAIN D : D[e] \in Nat /\ D[e] > 0
  BY <1>1, <1>2, <1>4
<1>6. IsABag(D)
  BY <1>3, <1>4, <1>5 DEF IsABag
<1>7. DOMAIN D \subseteq DOMAIN B \cup {d} /\ d \in DOMAIN D
  BY <1>2, <1>4
<1>8. \A e : Copies(e, D) =
          IF c = d THEN Copies(e, B)
          ELSE IF e = c THEN Copies(c, B) - n
          ELSE IF e = d THEN Copies(d, B) + n ELSE Copies(e, B)
  BY <1>1, <1>2, <1>4 DEF Copies
<1> QED BY <1>6, <1>7, <1>8 DEF D

\* That changes which threads there are, and not how many.
LEMMA MovedThreads ==
    ASSUME NEW B, IsABag(B), IsFiniteSet(Threads(B)),
           NEW c \in DOMAIN B, NEW d, NEW n \in 1..B[c]
    PROVE  /\ IsFiniteSet(Threads(Moved(B, c, d, n)))
           /\ Cardinality(Threads(Moved(B, c, d, n))) = Cardinality(Threads(B))
<1> DEFINE D == Moved(B, c, d, n)
           k(e) == Copies(e, B)
<1>1. /\ IsABag(D)
      /\ \A e : Copies(e, D) =
                  IF c = d THEN k(e)
                  ELSE IF e = c THEN k(c) - n
                  ELSE IF e = d THEN k(d) + n ELSE k(e)
  BY MovedIs
<1>2. /\ \A e : k(e) \in Nat
      /\ k(c) = B[c] /\ n \in Nat /\ n > 0 /\ n <= k(c)
  BY ThreadsOf DEF Copies
<1>3. /\ \A e, m : <<e, m>> \in Threads(B) <=> m \in 1..k(e)
      /\ \A t \in Threads(B) : t = <<t[1], t[2]>>
  BY ThreadsOf
<1>4. /\ \A e, m : <<e, m>> \in Threads(D) <=> m \in 1..Copies(e, D)
      /\ \A t \in Threads(D) : t = <<t[1], t[2]>>
  BY <1>1, ThreadsOf
<1> HIDE DEF D, k
<1>5. CASE c = d
  <2>1. \A t : t \in Threads(D) <=> t \in Threads(B)
    BY <1>1, <1>3, <1>4, <1>5
  <2>2. Threads(D) = Threads(B)
    BY <2>1
  <2> QED BY <2>2 DEF D
<1>6. CASE c # d
  <2> DEFINE left == k(c) - n
             moved(t) == t[1] = c /\ t[2] > left
             f == [t \in Threads(B) |->
                      IF moved(t) THEN <<d, k(d) + (t[2] - left)>> ELSE t]
  <2>1. left \in Nat
    BY <1>2
  <2>2. ASSUME NEW t \in Threads(B) PROVE f[t] \in Threads(D)
    <3>1. t = <<t[1], t[2]>> /\ t[2] \in 1..k(t[1])
      BY <1>3
    <3>2. CASE moved(t)
      <4>1. k(d) + (t[2] - left) \in 1..(k(d) + n)
        BY <1>2, <2>1, <3>1, <3>2
      <4> QED BY <1>1, <1>4, <1>6, <3>2, <4>1
    <3>3. CASE ~moved(t)
      <4>1. t[2] \in 1..Copies(t[1], D)
        BY <1>1, <1>2, <1>6, <2>1, <3>1, <3>3
      <4> QED BY <1>4, <3>1, <3>3, <4>1
    <3> QED BY <3>2, <3>3
  <2>3. ASSUME NEW t \in Threads(B), NEW u \in Threads(B), f[t] = f[u]
        PROVE  t = u
    <3>1. /\ t = <<t[1], t[2]>> /\ t[2] \in 1..k(t[1])
          /\ u = <<u[1], u[2]>> /\ u[2] \in 1..k(u[1])
      BY <1>3
    <3>2. CASE moved(t) /\ moved(u)
      BY <1>2, <2>1, <2>3, <3>1, <3>2
    <3>3. CASE moved(t) /\ ~moved(u)
      <4>1. u = <<d, k(d) + (t[2] - left)>>
        BY <2>3, <3>3
      <4>2. u[1] = d /\ u[2] = k(d) + (t[2] - left)
        BY <4>1
      <4> QED BY <1>2, <2>1, <3>1, <3>3, <4>2
    <3>4. CASE ~moved(t) /\ moved(u)
      <4>1. t = <<d, k(d) + (u[2] - left)>>
        BY <2>3, <3>4
      <4>2. t[1] = d /\ t[2] = k(d) + (u[2] - left)
        BY <4>1
      <4> QED BY <1>2, <2>1, <3>1, <3>4, <4>2
    <3>5. CASE ~moved(t) /\ ~moved(u)
      BY <2>3, <3>5
    <3> QED BY <3>2, <3>3, <3>4, <3>5
  <2>4. ASSUME NEW u \in Threads(D) PROVE \E t \in Threads(B) : f[t] = u
    <3>1. u = <<u[1], u[2]>> /\ u[2] \in 1..Copies(u[1], D)
      BY <1>4
    <3>2. CASE u[1] = d /\ u[2] > k(d)
      <4> DEFINE t == <<c, left + (u[2] - k(d))>>
      <4>1. u[2] \in 1..(k(d) + n)
        BY <1>1, <1>6, <3>1, <3>2
      <4>2. left + (u[2] - k(d)) \in 1..k(c) /\ left + (u[2] - k(d)) > left
        BY <1>2, <2>1, <3>2, <4>1
      <4>3. t \in Threads(B) /\ moved(t)
        BY <1>3, <4>2
      <4>4. k(d) + (t[2] - left) = u[2]
        BY <1>2, <2>1, <4>1
      <4>5. f[t] = u
        BY <3>1, <3>2, <4>3, <4>4
      <4> QED BY <4>3, <4>5
    <3>3. CASE ~(u[1] = d /\ u[2] > k(d))
      <4>1. u[2] \in 1..k(u[1]) /\ ~moved(u)
        BY <1>1, <1>2, <1>6, <2>1, <3>1, <3>3
      <4>2. u \in Threads(B)
        BY <1>3, <3>1, <4>1
      <4>3. f[u] = u
        BY <4>1, <4>2
      <4> QED BY <4>2, <4>3
    <3> QED BY <3>2, <3>3
  <2>5. f \in Bijection(Threads(B), Threads(D))
    <3>1. f \in [Threads(B) -> Threads(D)]
      BY <2>2
    <3> HIDE DEF f
    <3> QED BY <2>3, <2>4, <3>1 DEF Bijection, Injection, Surjection, IsInjective
  <2>6. ExistsBijection(Threads(B), Threads(D))
    BY <2>5 DEF ExistsBijection
  <2> QED BY <2>6, FS_Bijection DEF D
<1> QED BY <1>5, <1>6

\* A copy of c that goes away.
LEMMA RemovedThreads ==
    ASSUME NEW B, IsABag(B), IsFiniteSet(Threads(B)), NEW c \in DOMAIN B,
           NEW D, D = (B (-) SetToBag({c})) (+) EmptyBag
    PROVE  /\ IsABag(D) /\ DOMAIN D \subseteq DOMAIN B
           /\ IsFiniteSet(Threads(D))
           /\ Cardinality(Threads(D)) = Cardinality(Threads(B)) - 1
<1> DEFINE R == B (-) SetToBag({c})
<1>1. /\ \A e \in DOMAIN B : B[e] \in Nat /\ B[e] > 0
  BY DEF IsABag
<1>2. /\ DOMAIN R = {e \in DOMAIN B : e # c \/ B[c] > 1}
      /\ \A e \in DOMAIN R : R[e] = IF e = c THEN B[c] - 1 ELSE B[e]
  BY <1>1 DEF (-), SetToBag
<1>3. D = [e \in DOMAIN R |-> (IF e \in DOMAIN R THEN R[e] ELSE 0) + 0]
  BY DEF (+), EmptyBag, SetToBag
<1> HIDE DEF R
<1>4. /\ DOMAIN D = DOMAIN R
      /\ \A e \in DOMAIN D : D[e] = R[e]
  BY <1>1, <1>2, <1>3
<1>5. IsABag(D)
  BY <1>1, <1>2, <1>3, <1>4 DEF IsABag
<1>6. \A e : Copies(e, D) = IF e = c THEN Copies(c, B) - 1 ELSE Copies(e, B)
  BY <1>1, <1>2, <1>4 DEF Copies
<1>7. /\ \A e : Copies(e, B) \in Nat
      /\ Copies(c, B) = B[c] /\ Copies(c, B) > 0
  BY ThreadsOf DEF Copies
<1>8. /\ \A e, m : <<e, m>> \in Threads(B) <=> m \in 1..Copies(e, B)
      /\ \A t \in Threads(B) : t = <<t[1], t[2]>>
  BY ThreadsOf
<1>9. /\ \A e, m : <<e, m>> \in Threads(D) <=> m \in 1..Copies(e, D)
      /\ \A t \in Threads(D) : t = <<t[1], t[2]>>
  BY <1>5, ThreadsOf
<1> DEFINE top == B[c]
<1>10. Threads(D) = Threads(B) \ {<<c, top>>}
  <2>1. ASSUME NEW e, NEW m
        PROVE  m \in 1..Copies(e, D) <=>
                  m \in 1..Copies(e, B) /\ ~(e = c /\ m = top)
    <3>1. CASE e = c
      <4>1. \A k \in Nat \ {0} : m \in 1..(k - 1) <=> m \in 1..k /\ m # k
        OBVIOUS
      <4> QED BY <1>6, <1>7, <3>1, <4>1
    <3>2. CASE e # c
      BY <1>6, <3>2
    <3> QED BY <3>1, <3>2
  <2> HIDE DEF top
  <2>2. \A t : t \in Threads(D) <=> t \in Threads(B) /\ t # <<c, top>>
    BY <1>8, <1>9, <2>1
  <2> QED BY <2>2
<1>11. <<c, top>> \in Threads(B)
  BY <1>7, <1>8
<1>12. /\ IsFiniteSet(Threads(D))
       /\ Cardinality(Threads(D)) = Cardinality(Threads(B)) - 1
  BY <1>10, <1>11, FS_RemoveElement
<1> QED BY <1>2, <1>4, <1>5, <1>12

\* One more copy of d.
LEMMA AddedThreads ==
    ASSUME NEW B, IsABag(B), IsFiniteSet(Threads(B)), NEW d,
           NEW D, D = B (+) SetToBag({d})
    PROVE  /\ IsABag(D) /\ DOMAIN D = DOMAIN B \cup {d}
           /\ IsFiniteSet(Threads(D))
           /\ Cardinality(Threads(D)) = Cardinality(Threads(B)) + 1
<1>1. /\ \A e \in DOMAIN B : B[e] \in Nat /\ B[e] > 0
  BY DEF IsABag
<1>3. D = [e \in DOMAIN B \cup {d} |->
              (IF e \in DOMAIN B THEN B[e] ELSE 0) + (IF e \in {d} THEN 1 ELSE 0)]
  BY DEF (+), SetToBag
<1>4. /\ DOMAIN D = DOMAIN B \cup {d}
      /\ \A e \in DOMAIN D :
            D[e] = (IF e \in DOMAIN B THEN B[e] ELSE 0) + (IF e = d THEN 1 ELSE 0)
  BY <1>3
<1>5. \A e \in DOMAIN D : D[e] \in Nat /\ D[e] > 0
  BY <1>1, <1>4
<1>6. IsABag(D)
  BY <1>3, <1>4, <1>5 DEF IsABag
<1>7. \A e : Copies(e, D) = IF e = d THEN Copies(d, B) + 1 ELSE Copies(e, B)
  BY <1>1, <1>4 DEF Copies
<1>8. \A e : Copies(e, B) \in Nat
  BY ThreadsOf
<1>9. /\ \A e, m : <<e, m>> \in Threads(B) <=> m \in 1..Copies(e, B)
      /\ \A t \in Threads(B) : t = <<t[1], t[2]>>
  BY ThreadsOf
<1>10. /\ \A e, m : <<e, m>> \in Threads(D) <=> m \in 1..Copies(e, D)
       /\ \A t \in Threads(D) : t = <<t[1], t[2]>>
  BY <1>6, ThreadsOf
<1> DEFINE top == Copies(d, B) + 1
<1>11. Threads(D) = Threads(B) \cup {<<d, top>>}
  <2>1. ASSUME NEW e, NEW m
        PROVE  m \in 1..Copies(e, D) <=>
                  m \in 1..Copies(e, B) \/ (e = d /\ m = top)
    <3>1. CASE e = d
      <4>1. \A k \in Nat : m \in 1..(k + 1) <=> m \in 1..k \/ m = k + 1
        OBVIOUS
      <4> QED BY <1>7, <1>8, <3>1, <4>1
    <3>2. CASE e # d
      BY <1>7, <3>2
    <3> QED BY <3>1, <3>2
  <2> HIDE DEF top
  <2>2. \A t : t \in Threads(D) <=> t \in Threads(B) \/ t = <<d, top>>
    BY <1>9, <1>10, <2>1
  <2> QED BY <2>2
<1>12. <<d, top>> \notin Threads(B)
  BY <1>8, <1>9
<1>13. /\ IsFiniteSet(Threads(D))
       /\ Cardinality(Threads(D)) = Cardinality(Threads(B)) + 1
  BY <1>11, <1>12, FS_AddElement
<1> QED BY <1>4, <1>6, <1>13

\* In a bag of one thread there is one thing.
LEMMA Alone ==
    ASSUME NEW B, IsABag(B), IsFiniteSet(Threads(B)), NEW c \in DOMAIN B,
           Cardinality(Threads(B)) <= 1
    PROVE  DOMAIN B = {c}
<1>1. Cardinality(Threads(B)) \in Nat
  BY FS_CardinalityType
<1>2. \A e \in DOMAIN B : <<e, 1>> \in Threads(B)
  <2>1. \A e \in DOMAIN B : Copies(e, B) \in Nat /\ Copies(e, B) > 0
    BY ThreadsOf
  <2> QED BY <2>1, ThreadsOf
<1>3. Cardinality(Threads(B)) # 0
  BY <1>2, FS_EmptySet
<1>4. Cardinality(Threads(B)) = 1
  BY <1>1, <1>3
<1>5. \E t : Threads(B) = {t}
  BY <1>4, FS_Singleton, Zenon
<1> QED BY <1>2, <1>5

\* An empty bag has no threads.
LEMMA NoThreads ==
    ASSUME NEW B, DOMAIN B = {}
    PROVE  /\ Threads(B) = {} /\ IsFiniteSet(Threads(B))
           /\ Cardinality(Threads(B)) = 0
BY FS_EmptySet DEF Threads

----------------------------------------------------------------------------
(* What the steps do to what is in flight. *)

\* As many threads for as many screens and refreshes.
LEMMA ThreadsKept ==
    ASSUME ThreadInv, UNCHANGED <<screen, refreshes>>,
           IsFiniteSet(Threads(flight')),
           Cardinality(Threads(flight')) = Cardinality(Threads(flight))
    PROVE  ThreadInv'
BY DEF ThreadInv, OneThread

\* One command or message becomes another.
LEMMA BecomeOne ==
    ASSUME ClientInv, NEW c, NEW d, Become(c, SetToBag({d})),
           UNCHANGED <<screen, refreshes>>
    PROVE  /\ InFlight(c) /\ screen # "none"
           /\ IsABag(flight') /\ d \in DOMAIN flight'
           /\ DOMAIN flight' \subseteq DOMAIN flight \cup {d}
           /\ Cardinality(Threads(flight')) = Cardinality(Threads(flight))
           /\ ThreadInv'
<1>1. IsABag(flight) /\ IsFiniteSet(Threads(flight))
  BY DEF ClientInv, TypeOK, ThreadInv
<1>2. InFlight(c) /\ c \in DOMAIN flight /\ 1 \in 1..flight[c] /\ screen # "none"
  BY <1>1 DEF Become, InFlight, BagIn, BagToSet, IsABag, ClientInv, KindInv
<1>3. flight' = Moved(flight, c, d, 1)
  BY DEF Become, Moved, SetToBag
<1>4. /\ IsABag(flight') /\ d \in DOMAIN flight'
      /\ DOMAIN flight' \subseteq DOMAIN flight \cup {d}
  BY <1>1, <1>2, <1>3, MovedIs
<1>5. /\ IsFiniteSet(Threads(flight'))
      /\ Cardinality(Threads(flight')) = Cardinality(Threads(flight))
  BY <1>1, <1>2, <1>3, MovedThreads
<1>6. ThreadInv'
  BY <1>5, ThreadsKept DEF ClientInv
<1> QED BY <1>2, <1>4, <1>5, <1>6

\* A message is handled, and no command returned.
LEMMA BecomeNone ==
    ASSUME ClientInv, NEW c, Become(c, EmptyBag)
    PROVE  /\ InFlight(c) /\ screen # "none"
           /\ IsABag(flight') /\ DOMAIN flight' \subseteq DOMAIN flight
           /\ IsFiniteSet(Threads(flight'))
           /\ Cardinality(Threads(flight')) = Cardinality(Threads(flight)) - 1
<1>1. IsABag(flight) /\ IsFiniteSet(Threads(flight))
  BY DEF ClientInv, TypeOK, ThreadInv
<1>2. InFlight(c) /\ c \in DOMAIN flight /\ screen # "none"
  BY DEF Become, InFlight, BagIn, BagToSet, ClientInv, KindInv
<1>3. flight' = (flight (-) SetToBag({c})) (+) EmptyBag
  BY DEF Become
<1> QED BY <1>1, <1>2, <1>3, RemovedThreads

\* What is read gets an answer.
LEMMA ReadersBecome ==
    ASSUME ClientInv, NEW c, ReadersGet(c), UNCHANGED <<screen, refreshes>>
    PROVE  /\ IsABag(flight') /\ DOMAIN flight' \subseteq DOMAIN flight \cup {c}
           /\ Cardinality(Threads(flight')) = Cardinality(Threads(flight))
           /\ ThreadInv' /\ (screen = "none" => flight' = flight)
<1>1. IsABag(flight) /\ IsFiniteSet(Threads(flight))
  BY DEF ClientInv, TypeOK, ThreadInv
<1>2. CASE InFlight(Read)
  <2>1. /\ Read \in DOMAIN flight /\ flight[Read] \in 1..flight[Read]
        /\ screen # "none"
    BY <1>1, <1>2 DEF InFlight, BagIn, BagToSet, IsABag, ClientInv, KindInv
  <2>2. flight' = Moved(flight, Read, c, flight[Read])
    BY <1>2 DEF ReadersGet, Moved
  <2>3. IsABag(flight') /\ DOMAIN flight' \subseteq DOMAIN flight \cup {c}
    BY <1>1, <2>1, <2>2, MovedIs
  <2>4. /\ IsFiniteSet(Threads(flight'))
        /\ Cardinality(Threads(flight')) = Cardinality(Threads(flight))
    BY <1>1, <2>1, <2>2, MovedThreads
  <2>5. ThreadInv'
    BY <2>4, ThreadsKept DEF ClientInv
  <2> QED BY <2>1, <2>3, <2>4, <2>5
<1>3. CASE ~InFlight(Read)
  <2>1. flight' = flight
    BY <1>3 DEF ReadersGet
  <2>2. ThreadInv'
    BY <1>1, <2>1, ThreadsKept DEF ClientInv
  <2> QED BY <1>1, <2>1, <2>2
<1> QED BY <1>2, <1>3

\* The type of what is in flight; Harmless and the steps that follow need it.
LEMMA Flight ==
    ASSUME TypeOK
    PROVE  /\ IsABag(flight) /\ \A c : InFlight(c) <=> c \in DOMAIN flight
           /\ \A n : InFlight(Rows(n)) => n \in 0..stored
           /\ \A s, n : InFlight(Price(s, n)) => s \in Symbols /\ n \in Numbers
<1>1. IsABag(flight) /\ \A c : InFlight(c) <=> c \in DOMAIN flight
  BY DEF TypeOK, InFlight, BagIn, BagToSet
<1>2. \A c \in DOMAIN flight :
          \/ c \in {Dial, Read, Tick, Fetch, Error}
          \/ \E n \in 0..stored : c = Rows(n)
          \/ \E s \in Symbols, n \in Numbers : c = Price(s, n)
  BY DEF TypeOK, BagToSet
<1>3. \A n : InFlight(Rows(n)) => n \in 0..stored
  BY <1>1, <1>2, Kinds
<1>4. \A s, n : InFlight(Price(s, n)) => s \in Symbols /\ n \in Numbers
  BY <1>1, <1>2, Kinds
<1> QED BY <1>1, <1>3, <1>4

\* A step that shows nothing, and puts into flight only what tells nothing.
LEMMA Harmless ==
    ASSUME ClientInv, UNCHANGED <<screen, shown, historyVars>>,
           NEW d \in {Dial, Read, Tick, Error},
           IsABag(flight'), DOMAIN flight' \subseteq DOMAIN flight \cup {d},
           Cardinality(Threads(flight')) <= Cardinality(Threads(flight)),
           ThreadInv', screen = "none" => flight' = flight,
           connected' \in BOOLEAN, open' \in 0..Slots,
           count' \in [Symbols -> Numbers], latest' \in [Symbols -> Numbers],
           up' \in BOOLEAN, stops' \in 0..MaxStops, stored' \in stored..MaxRows,
           stops' = 0 => stops = 0 /\ UNCHANGED <<count, latest>>
    PROVE  ClientInv'
<1>1. TypeOK /\ ThreadInv /\ KindInv /\ WatchInv /\ HistoryInv
  BY DEF ClientInv
<1>2. stored \in Nat /\ stored' \in 0..MaxRows /\ 0..stored \subseteq 0..stored'
  BY <1>1, ClientAssumption DEF TypeOK, ClientAssumption
<1>3. TypeOK'
  <2>1. BagToSet(flight') \subseteq
            {Dial, Read, Tick, Fetch, Error} \cup {Rows(n) : n \in 0..stored'}
                \cup {Price(s, n) : s \in Symbols, n \in Numbers}
    BY <1>1, <1>2 DEF TypeOK, BagToSet
  <2>2. row' \in 0..stored' /\ refreshes' \in 0..MaxRefreshes /\ raced' \in BOOLEAN
    BY <1>1, <1>2 DEF TypeOK, historyVars
  <2>3. screen' \in Screens \cup {"none"} /\ shown' \in [Symbols -> Numbers]
    BY <1>1 DEF TypeOK
  <2> QED BY <1>2, <2>1, <2>2, <2>3 DEF TypeOK
<1>4. /\ \A c : InFlight(c) <=> c \in DOMAIN flight
      /\ \A c : InFlight(c)' <=> c \in DOMAIN flight'
  BY DEF InFlight, BagIn, BagToSet
<1>5. /\ \A n : InFlight(Rows(n))' => InFlight(Rows(n))
      /\ InFlight(Fetch)' => InFlight(Fetch)
      /\ \A s, n : InFlight(Price(s, n))' => InFlight(Price(s, n))
  BY <1>4, Kinds
<1>6. KindInv'
  BY <1>1, <1>5 DEF KindInv, BagToSet
<1>7. WatchInv'
  BY <1>1, <1>5 DEF WatchInv
<1>8. HistoryInv'
  <2>1. Cardinality(Threads(flight)) \in Nat /\ Cardinality(Threads(flight')) \in Nat
    BY <1>1, FS_CardinalityType DEF ThreadInv
  <2> QED BY <1>1, <1>5, <2>1 DEF HistoryInv, historyVars
<1> QED BY <1>3, <1>6, <1>7, <1>8 DEF ClientInv

----------------------------------------------------------------------------
(* The steps. *)

\* The first screen has connected to nothing.
LEMMA InitOK == ASSUME Init PROVE ClientInv
<1> DEFINE S == CASE screen = "prices" -> {Dial, Tick}
                  [] screen = "history" -> {Fetch}
                  [] OTHER -> {Dial}
<1>1. flight = SetToBag(S) /\ screen # "none"
  BY ClientAssumption DEF Init, ClientAssumption
<1>2. /\ screen = "prices" => S = {Dial, Tick}
      /\ screen = "history" => S = {Fetch}
      /\ screen \notin {"prices", "history"} => S = {Dial}
  OBVIOUS
<1> HIDE DEF S
<1>3. DOMAIN flight = S /\ \A c \in S : flight[c] = 1
  BY <1>1 DEF SetToBag
<1>4. IsABag(flight)
  BY <1>1 DEF IsABag, SetToBag
<1>5. /\ \A c : InFlight(c) <=> c \in S
      /\ \A n : ~InFlight(Rows(n))
      /\ \A t, n : ~InFlight(Price(t, n))
      /\ InFlight(Fetch) => screen = "history"
  BY <1>2, <1>3, Kinds DEF InFlight, BagIn, BagToSet
<1>6. TypeOK
  <2>1. BagToSet(flight) \subseteq {Dial, Read, Tick, Fetch, Error}
    BY <1>2, <1>3 DEF BagToSet
  <2>2. None \in [Symbols -> Numbers]
    BY ClientAssumption DEF ClientAssumption, None, Numbers
  <2>3. /\ screen \in Screens \cup {"none"} /\ connected \in BOOLEAN
        /\ raced \in BOOLEAN /\ up \in BOOLEAN
        /\ row = 0 /\ stored = 0 /\ refreshes = 0 /\ open = 0 /\ stops = 0
        /\ shown = None /\ count = None /\ latest = None
    BY DEF Init
  <2>4. /\ 0 \in 0..MaxRows /\ 0 \in 0..MaxRefreshes /\ 0 \in 0..Slots
        /\ 0 \in 0..MaxStops /\ 0 \in 0..0
    BY ClientAssumption DEF ClientAssumption
  <2> QED BY <1>4, <2>1, <2>2, <2>3, <2>4 DEF TypeOK
<1>7. Threads(flight) = {<<c, 1>> : c \in S}
  BY <1>3 DEF Threads
<1>8. /\ IsFiniteSet(Threads(flight))
      /\ Cardinality(Threads(flight)) = IF screen = "prices" THEN 2 ELSE 1
  <2>1. CASE screen = "prices"
    <3>1. Threads(flight) = {<<Dial, 1>>} \cup {<<Tick, 1>>}
      BY <1>2, <1>7, <2>1
    <3>2. IsFiniteSet({<<Dial, 1>>}) /\ Cardinality({<<Dial, 1>>}) = 1
      BY FS_Singleton
    <3>3. <<Tick, 1>> \notin {<<Dial, 1>>}
      BY Kinds
    <3> HIDE DEF Threads
    <3>4. /\ IsFiniteSet(Threads(flight))
          /\ Cardinality(Threads(flight)) = Cardinality({<<Dial, 1>>}) + 1
      BY <3>1, <3>2, <3>3, FS_AddElement
    <3> QED BY <2>1, <3>2, <3>4
  <2>2. CASE screen # "prices"
    <3>1. PICK c : S = {c}
      BY <1>2, <2>2
    <3>2. Threads(flight) = {<<c, 1>>}
      BY <1>7, <3>1
    <3> QED BY <2>2, <3>2, FS_Singleton
  <2> QED BY <2>1, <2>2
<1>9. ThreadInv
  BY <1>8 DEF Init, ThreadInv, OneThread
<1>10. KindInv
  BY <1>1, <1>5 DEF KindInv
<1>11. WatchInv
  BY <1>5, ClientAssumption DEF Init, WatchInv, None, ClientAssumption
<1>12. HistoryInv
  BY <1>5, <1>8 DEF HistoryInv
<1> QED BY <1>6, <1>9, <1>10, <1>11, <1>12 DEF ClientInv

\* A step in which one thing in flight becomes another that tells nothing, and
\* the server does not change.
LEMMA HarmlessBecome ==
    ASSUME ClientInv, NEW c, NEW d \in {Dial, Read, Tick, Error},
           Become(c, SetToBag({d})),
           UNCHANGED <<screen, shown, historyVars, serverVars>>,
           connected' \in BOOLEAN, open' \in 0..Slots
    PROVE  ClientInv'
<1>1. UNCHANGED <<screen, refreshes>>
  BY DEF historyVars
<1>2. /\ screen # "none" /\ IsABag(flight')
      /\ DOMAIN flight' \subseteq DOMAIN flight \cup {d}
      /\ Cardinality(Threads(flight')) = Cardinality(Threads(flight))
      /\ ThreadInv'
  BY <1>1, BecomeOne
<1>3. Cardinality(Threads(flight)) \in Nat
  BY FS_CardinalityType DEF ClientInv, ThreadInv
<1>4. /\ count' \in [Symbols -> Numbers] /\ latest' \in [Symbols -> Numbers]
      /\ up' \in BOOLEAN /\ stops' \in 0..MaxStops /\ stored' \in stored..MaxRows
      /\ stops' = 0 => stops = 0 /\ UNCHANGED <<count, latest>>
  BY ClientAssumption DEF ClientAssumption, ClientInv, TypeOK, serverVars
<1> QED BY <1>2, <1>3, <1>4, Harmless

\* A step that leaves what is in flight alone.
LEMMA HarmlessElse ==
    ASSUME ClientInv, UNCHANGED <<clientVars, flight, count, latest, stops>>,
           open' \in 0..Slots, up' \in BOOLEAN, stored' \in stored..MaxRows
    PROVE  ClientInv'
<1>1. /\ UNCHANGED <<screen, shown, historyVars, connected, flight>>
      /\ UNCHANGED <<screen, refreshes>>
  BY DEF clientVars, historyVars
<1>2. IsABag(flight') /\ DOMAIN flight' \subseteq DOMAIN flight \cup {Dial}
  BY <1>1 DEF ClientInv, TypeOK
<1>3. /\ Cardinality(Threads(flight)) \in Nat
      /\ Cardinality(Threads(flight')) = Cardinality(Threads(flight))
      /\ ThreadInv'
  BY <1>1, FS_CardinalityType, ThreadsKept DEF ClientInv, ThreadInv
<1>4. /\ count' \in [Symbols -> Numbers] /\ latest' \in [Symbols -> Numbers]
      /\ stops' \in 0..MaxStops /\ connected' \in BOOLEAN
      /\ stops' = 0 => stops = 0 /\ UNCHANGED <<count, latest>>
  BY <1>1 DEF ClientInv, TypeOK
<1> QED BY <1>1, <1>2, <1>3, <1>4, Harmless

\* What an answer that shows a price or rows needs, one thing becoming another.
LEMMA MessageArrives ==
    ASSUME ClientInv, NEW c, NEW d, Become(c, SetToBag({d})),
           UNCHANGED <<clientVars, serverVars>>, open' \in 0..Slots,
           \/ \E s \in Symbols : d = Price(s, latest[s]) /\ latest[s] > 0
           \/ screen = "history" /\ c = Fetch /\ d = Rows(stored)
    PROVE  ClientInv'
<1>1. TypeOK /\ ThreadInv /\ KindInv /\ WatchInv /\ HistoryInv
  BY DEF ClientInv
<1>2. /\ UNCHANGED <<screen, connected, shown, row, refreshes, raced>>
      /\ UNCHANGED <<count, latest, stored, up, stops>>
  BY DEF clientVars, serverVars, historyVars
<1>3. /\ screen # "none" /\ IsABag(flight') /\ d \in DOMAIN flight'
      /\ DOMAIN flight' \subseteq DOMAIN flight \cup {d}
      /\ Cardinality(Threads(flight')) = Cardinality(Threads(flight))
      /\ ThreadInv'
  BY <1>2, BecomeOne
<1>4. /\ stored \in Nat /\ stored \in 0..stored /\ row <= stored
      /\ \A s \in Symbols : latest[s] \in Numbers
  BY <1>1 DEF TypeOK
<1>5. TypeOK'
  <2>1. \/ \E n \in 0..stored : d = Rows(n)
        \/ \E s \in Symbols, n \in Numbers : d = Price(s, n)
    BY <1>4
  <2>2. BagToSet(flight') \subseteq
            {Dial, Read, Tick, Fetch, Error} \cup {Rows(n) : n \in 0..stored}
                \cup {Price(s, n) : s \in Symbols, n \in Numbers}
    BY <1>1, <1>3, <2>1 DEF TypeOK, BagToSet
  <2> QED BY <1>1, <1>2, <1>3, <2>2 DEF TypeOK
<1>6. /\ \A e : InFlight(e) <=> e \in DOMAIN flight
      /\ \A e : InFlight(e)' <=> e \in DOMAIN flight'
  BY DEF InFlight, BagIn, BagToSet
<1>7. /\ InFlight(Fetch)' => InFlight(Fetch)
      /\ \A n : InFlight(Rows(n))' =>
            InFlight(Rows(n)) \/ (screen = "history" /\ n = stored)
      /\ \A s \in Symbols : \A n : InFlight(Price(s, n))' =>
            InFlight(Price(s, n)) \/ n = latest[s]
  BY <1>3, <1>6, Kinds
<1>8. KindInv'
  BY <1>1, <1>2, <1>3, <1>7 DEF KindInv
<1>9. WatchInv'
  BY <1>1, <1>2, <1>4, <1>7 DEF WatchInv, TypeOK, Numbers
<1>10. HistoryInv'
  BY <1>1, <1>2, <1>3, <1>4, <1>7 DEF HistoryInv
<1> QED BY <1>3, <1>5, <1>8, <1>9, <1>10 DEF ClientInv

\* A stream begins with a price, or is read.
LEMMA DialSucceedsOK == ASSUME ClientInv, DialSucceeds PROVE ClientInv'
<1>1. open' \in 0..Slots
  BY ClientAssumption DEF ClientAssumption, ClientInv, TypeOK, DialSucceeds
<1>2. PICK c \in IF Snapshot = {} THEN {Read} ELSE Snapshot :
          Become(Dial, SetToBag({c}))
  BY DEF DialSucceeds
<1>3. UNCHANGED <<clientVars, serverVars>>
  BY DEF DialSucceeds
<1>4. CASE Snapshot = {}
  <2>1. c = Read
    BY <1>2, <1>4
  <2>2. /\ UNCHANGED <<screen, shown, historyVars, serverVars>>
        /\ connected' \in BOOLEAN
    BY <1>3 DEF clientVars, ClientInv, TypeOK
  <2> QED BY <1>1, <1>2, <2>1, <2>2, HarmlessBecome
<1>5. CASE Snapshot # {}
  <2>1. screen # "none"
    BY <1>2 DEF Become, InFlight, ClientInv, KindInv, BagIn
  <2>2. Asked[screen] \subseteq Symbols
    BY <2>1, ClientAssumption DEF ClientAssumption, ClientInv, TypeOK
  <2>3. \E s \in Symbols : c = Price(s, latest[s]) /\ latest[s] > 0
    BY <1>2, <1>5, <2>2 DEF Snapshot
  <2> QED BY <1>1, <1>2, <1>3, <2>3, MessageArrives
<1> QED BY <1>4, <1>5

\* A stream ends: its reader gets an error, or no one reads it.
LEMMA StreamEndsOK == ASSUME ClientInv, StreamEnds PROVE ClientInv'
<1>1. open' \in 0..Slots
  BY ClientAssumption DEF ClientAssumption, ClientInv, TypeOK, StreamEnds
<1>2. UNCHANGED <<clientVars, serverVars>>
  BY DEF StreamEnds
<1>3. CASE Become(Read, SetToBag({Error}))
  <2>1. /\ UNCHANGED <<screen, shown, historyVars, serverVars>>
        /\ connected' \in BOOLEAN
    BY <1>2 DEF clientVars, ClientInv, TypeOK
  <2> QED BY <1>1, <1>3, <2>1, HarmlessBecome
<1>4. CASE UNCHANGED flight
  <2>1. /\ UNCHANGED <<clientVars, flight, count, latest, stops>>
        /\ up' \in BOOLEAN /\ stored' \in stored..MaxRows
    BY <1>2, <1>4, ClientAssumption
    DEF clientVars, serverVars, ClientInv, TypeOK, ClientAssumption
  <2> QED BY <1>1, <2>1, HarmlessElse
<1> QED BY <1>3, <1>4 DEF StreamEnds

\* The server goes down, and with it what it has counted.
LEMMA ServerStopsOK == ASSUME ClientInv, ServerStops PROVE ClientInv'
<1>1. /\ ReadersGet(Error) /\ UNCHANGED <<screen, refreshes>>
      /\ UNCHANGED <<screen, shown, historyVars, connected, stored>>
  BY DEF ServerStops, clientVars, historyVars
<1>2. /\ IsABag(flight') /\ DOMAIN flight' \subseteq DOMAIN flight \cup {Error}
      /\ Cardinality(Threads(flight')) = Cardinality(Threads(flight))
      /\ ThreadInv' /\ (screen = "none" => flight' = flight)
  BY <1>1, ReadersBecome
<1>3. Cardinality(Threads(flight)) \in Nat
  BY FS_CardinalityType DEF ClientInv, ThreadInv
<1>4. /\ open' \in 0..Slots /\ connected' \in BOOLEAN /\ up' \in BOOLEAN
      /\ stops' \in 0..MaxStops /\ stops' # 0 /\ stored' \in stored..MaxRows
  <2>1. stops \in 0..MaxStops /\ stored \in 0..MaxRows /\ connected \in BOOLEAN
    BY DEF ClientInv, TypeOK
  <2>2. open' = 0 /\ stops < MaxStops /\ stops' = stops + 1 /\ up' = FALSE
    BY DEF ServerStops
  <2>3. MaxStops \in Nat /\ Slots \in Nat
    BY ClientAssumption DEF ClientAssumption
  <2>4. stops' \in 0..MaxStops /\ stops' # 0 /\ open' \in 0..Slots
    BY <2>1, <2>2, <2>3
  <2>5. stored' = stored /\ stored \in stored..MaxRows
    BY <1>1, <2>1
  <2> QED BY <1>1, <2>1, <2>2, <2>4, <2>5
<1>5. count' \in [Symbols -> Numbers] /\ latest' \in [Symbols -> Numbers]
  BY ClientAssumption DEF ClientAssumption, ServerStops, None, Numbers
<1> QED BY <1>1, <1>2, <1>3, <1>4, <1>5, Harmless

\* A price or an alert is read, or no one reads it.
LEMMA BroadcastOK ==
    ASSUME ClientInv, NEW s \in Symbols, Broadcast(s) PROVE ClientInv'
<1> DEFINE n == count[s] + 1
<1>1. TypeOK /\ ThreadInv /\ KindInv /\ WatchInv /\ HistoryInv
  BY DEF ClientInv
<1>2. n \in Numbers /\ n > count[s]
  BY <1>1, ClientAssumption DEF ClientAssumption, Broadcast, Numbers, TypeOK
<1>3. /\ count' = [count EXCEPT ![s] = n] /\ count'[s] = n
      /\ latest' = [latest EXCEPT ![s] = n]
      /\ UNCHANGED <<screen, connected, shown, row, refreshes, raced>>
      /\ UNCHANGED <<open, stored, up, stops>>
  BY <1>1 DEF Broadcast, TypeOK, clientVars, historyVars
<1>4. \/ screen # "none" /\ ReadersGet(Price(s, n))
      \/ UNCHANGED flight
  BY <1>3 DEF Broadcast
<1> HIDE DEF n
<1>5. /\ IsABag(flight') /\ DOMAIN flight' \subseteq DOMAIN flight \cup {Price(s, n)}
      /\ Cardinality(Threads(flight')) = Cardinality(Threads(flight))
      /\ ThreadInv' /\ (screen = "none" => flight' = flight)
  <2>1. CASE ReadersGet(Price(s, n))
    BY <1>3, <2>1, ReadersBecome
  <2>2. CASE UNCHANGED flight
    <3>1. IsFiniteSet(Threads(flight'))
      BY <1>1, <2>2 DEF ThreadInv
    <3> QED BY <1>1, <1>3, <2>2, <3>1, ThreadsKept DEF TypeOK
  <2> QED BY <1>4, <2>1, <2>2
<1>6. TypeOK'
  <2>1. count' \in [Symbols -> Numbers] /\ latest' \in [Symbols -> Numbers]
    BY <1>1, <1>2, <1>3 DEF TypeOK
  <2>2. BagToSet(flight') \subseteq
            {Dial, Read, Tick, Fetch, Error} \cup {Rows(m) : m \in 0..stored}
                \cup {Price(t, m) : t \in Symbols, m \in Numbers}
    BY <1>1, <1>2, <1>5 DEF TypeOK, BagToSet
  <2> QED BY <1>1, <1>3, <1>5, <2>1, <2>2 DEF TypeOK
<1>7. /\ \A e : InFlight(e) <=> e \in DOMAIN flight
      /\ \A e : InFlight(e)' <=> e \in DOMAIN flight'
  BY DEF InFlight, BagIn, BagToSet
<1>8. /\ InFlight(Fetch)' => InFlight(Fetch)
      /\ \A m : InFlight(Rows(m))' => InFlight(Rows(m))
      /\ \A t, m : InFlight(Price(t, m))' =>
            InFlight(Price(t, m)) \/ (t = s /\ m = n)
  BY <1>5, <1>7, Kinds
<1>9. KindInv'
  BY <1>1, <1>3, <1>5, <1>8 DEF KindInv
<1>10. WatchInv'
  <2> SUFFICES ASSUME stops = 0 PROVE WatchInv'
    BY <1>3 DEF WatchInv
  <2>1. latest' = count' /\ latest[s] < n
    BY <1>1, <1>2, <1>3 DEF WatchInv
  <2>2. ASSUME screen = "watch", NEW t \in Symbols
        PROVE  /\ shown[t] <= latest'[t]
               /\ \A m \in Numbers : InFlight(Price(t, m))' => m \in shown[t]..latest'[t]
    <3>1. /\ shown[t] <= latest[t]
          /\ \A m \in Numbers : InFlight(Price(t, m)) => m \in shown[t]..latest[t]
      BY <1>1, <2>2 DEF WatchInv
    <3>2. /\ latest[t] \in Int /\ latest'[t] \in Int /\ shown[t] \in Int
          /\ latest[t] <= latest'[t] /\ (t = s => latest'[t] = n)
      BY <1>1, <1>2, <1>3, <2>1 DEF TypeOK, Numbers
    <3> QED BY <1>2, <1>8, <3>1, <3>2 DEF Numbers
  <2> QED BY <1>3, <2>1, <2>2 DEF WatchInv
<1>11. HistoryInv'
  BY <1>1, <1>3, <1>5, <1>8 DEF HistoryInv
<1> QED BY <1>5, <1>6, <1>9, <1>10, <1>11 DEF ClientInv

\* A price or an alert is shown; on the view of one price it was alone, so that
\* what arrives later is newer.
LEMMA ShowOK ==
    ASSUME ClientInv, NEW s \in Symbols, NEW n \in 1..MaxMessages, Show(s, n)
    PROVE  ClientInv'
<1>1. TypeOK /\ ThreadInv /\ KindInv /\ WatchInv /\ HistoryInv
  BY DEF ClientInv
<1>2. /\ UNCHANGED <<screen, row, refreshes, raced, open>>
      /\ UNCHANGED <<count, latest, stored, up, stops>>
      /\ connected' = TRUE /\ shown' = [shown EXCEPT ![s] = n]
  BY DEF Show, historyVars, serverVars
<1>3. n \in Numbers
  BY ClientAssumption DEF ClientAssumption, Numbers
<1>4. /\ screen # "none" /\ InFlight(Price(s, n)) /\ IsABag(flight')
      /\ DOMAIN flight' \subseteq DOMAIN flight \cup {Dial}
      /\ Cardinality(Threads(flight')) <= Cardinality(Threads(flight))
      /\ ThreadInv'
  <2>0. Cardinality(Threads(flight)) \in Nat
    BY <1>1, FS_CardinalityType DEF ThreadInv
  <2>1. CASE screen = "prices"
    <3>1. Become(Price(s, n), EmptyBag)
      BY <2>1 DEF Show
    <3>2. /\ InFlight(Price(s, n)) /\ IsABag(flight')
          /\ DOMAIN flight' \subseteq DOMAIN flight
          /\ IsFiniteSet(Threads(flight'))
          /\ Cardinality(Threads(flight')) = Cardinality(Threads(flight)) - 1
      BY <3>1, BecomeNone
    <3>3. ThreadInv'
      BY <1>1, <1>2, <2>0, <2>1, <3>2 DEF ThreadInv, OneThread
    <3> QED BY <2>0, <2>1, <3>2, <3>3
  <2>2. CASE screen # "prices"
    <3>1. Become(Price(s, n), SetToBag({Dial}))
      BY <2>2 DEF Show
    <3>2. UNCHANGED <<screen, refreshes>>
      BY <1>2
    <3>3. /\ screen # "none" /\ InFlight(Price(s, n)) /\ IsABag(flight')
          /\ DOMAIN flight' \subseteq DOMAIN flight \cup {Dial}
          /\ Cardinality(Threads(flight')) = Cardinality(Threads(flight))
          /\ ThreadInv'
      BY <3>1, <3>2, BecomeOne
    <3> QED BY <2>0, <3>3
  <2> QED BY <2>1, <2>2
<1>5. TypeOK'
  <2>1. shown' \in [Symbols -> Numbers]
    BY <1>1, <1>2, <1>3 DEF TypeOK
  <2>2. BagToSet(flight') \subseteq
            {Dial, Read, Tick, Fetch, Error} \cup {Rows(m) : m \in 0..stored}
                \cup {Price(t, m) : t \in Symbols, m \in Numbers}
    BY <1>1, <1>4 DEF TypeOK, BagToSet
  <2> QED BY <1>1, <1>2, <1>4, <2>1, <2>2 DEF TypeOK
<1>6. /\ \A e : InFlight(e) <=> e \in DOMAIN flight
      /\ \A e : InFlight(e)' <=> e \in DOMAIN flight'
  BY DEF InFlight, BagIn, BagToSet
<1>7. /\ InFlight(Fetch)' => InFlight(Fetch)
      /\ \A m : InFlight(Rows(m))' => InFlight(Rows(m))
      /\ \A t, m : InFlight(Price(t, m))' => InFlight(Price(t, m))
  BY <1>4, <1>6, Kinds
<1>8. KindInv'
  BY <1>1, <1>2, <1>4, <1>7 DEF KindInv
<1>9. WatchInv'
  <2> SUFFICES ASSUME stops = 0, screen = "watch" PROVE WatchInv'
    BY <1>1, <1>2 DEF WatchInv
  <2>1. DOMAIN flight = {Price(s, n)}
    <3>1. IsABag(flight) /\ IsFiniteSet(Threads(flight))
      BY <1>1 DEF TypeOK, ThreadInv
    <3>2. Cardinality(Threads(flight)) = 1
      BY <1>1 DEF ThreadInv, OneThread
    <3> QED BY <1>4, <1>6, <3>1, <3>2, Alone
  <2>2. DOMAIN flight' \subseteq {Dial}
    <3>1. Become(Price(s, n), SetToBag({Dial}))
      BY DEF Show
    <3>2. flight' = Moved(flight, Price(s, n), Dial, 1)
      BY <3>1 DEF Become, Moved, SetToBag
    <3>3. IsABag(flight) /\ flight[Price(s, n)] \in Nat /\ flight[Price(s, n)] > 0
      BY <1>1, <2>1 DEF TypeOK, IsABag
    <3>4. flight[Price(s, n)] = 1
      <4>1. \A k : <<Price(s, n), k>> \in Threads(flight)
                      <=> k \in 1..flight[Price(s, n)]
        BY <2>1, <3>3, ThreadsOf DEF Copies
      <4>2. IsFiniteSet(Threads(flight)) /\ Cardinality(Threads(flight)) = 1
        BY <1>1 DEF ThreadInv, OneThread
      <4>3. \E t : Threads(flight) = {t}
        BY <4>2, FS_Singleton, Zenon
      <4>4. flight[Price(s, n)] < 2
        BY <3>3, <4>1, <4>3
      <4> QED BY <3>3, <4>4
    <3>5. /\ IsABag(flight')
          /\ Copies(Price(s, n), flight') = 0
      BY <1>6, <2>1, <3>2, <3>3, <3>4, Kinds, MovedIs DEF Copies
    <3>6. Price(s, n) \notin DOMAIN flight'
      BY <3>5, ThreadsOf
    <3> QED BY <1>4, <2>1, <3>6
  <2>3. \A t, m : ~InFlight(Price(t, m))'
    BY <1>6, <2>2, Kinds
  <2>4. ASSUME NEW t \in Symbols PROVE shown'[t] <= latest'[t]
    <3>1. n \in shown[s]..latest[s]
      BY <1>1, <1>3, <1>4 DEF WatchInv
    <3> QED BY <1>1, <1>2, <3>1 DEF WatchInv, TypeOK
  <2>5. latest' = count'
    BY <1>1, <1>2 DEF WatchInv
  <2> QED BY <2>3, <2>4, <2>5 DEF WatchInv
<1>10. HistoryInv'
  <2>1. Cardinality(Threads(flight)) \in Nat /\ Cardinality(Threads(flight')) \in Nat
    BY <1>1, <1>4, FS_CardinalityType DEF ThreadInv
  <2> QED BY <1>1, <1>2, <1>4, <1>7, <2>1 DEF HistoryInv
<1> QED BY <1>4, <1>5, <1>8, <1>9, <1>10 DEF ClientInv

\* Rows are shown; the only answer, unless r was pressed too soon.
LEMMA ShowRowsOK ==
    ASSUME ClientInv, NEW n \in 0..MaxRows, ShowRows(n)
    PROVE  ClientInv'
<1>1. TypeOK /\ ThreadInv /\ KindInv /\ WatchInv /\ HistoryInv
  BY DEF ClientInv
<1>2. /\ UNCHANGED <<screen, connected, shown, refreshes, raced, open>>
      /\ UNCHANGED <<count, latest, stored, up, stops>>
      /\ row' = n /\ Become(Rows(n), EmptyBag)
  BY DEF ShowRows, serverVars
<1>3. /\ InFlight(Rows(n)) /\ screen = "history"
      /\ IsABag(flight') /\ DOMAIN flight' \subseteq DOMAIN flight
      /\ IsFiniteSet(Threads(flight'))
      /\ Cardinality(Threads(flight')) = Cardinality(Threads(flight)) - 1
  BY <1>1, <1>2, BecomeNone DEF KindInv
<1>4. Cardinality(Threads(flight)) \in Nat /\ Cardinality(Threads(flight')) \in Nat
  BY <1>1, <1>3, FS_CardinalityType DEF ThreadInv
<1>5. ThreadInv'
  <2>1. /\ Cardinality(Threads(flight)) <= 1 + refreshes
        /\ refreshes \in Nat /\ refreshes' = refreshes /\ screen' = "history"
    BY <1>1, <1>2, <1>3 DEF ThreadInv, OneThread, TypeOK
  <2>2. Cardinality(Threads(flight')) <= 1 + refreshes'
    BY <1>3, <1>4, <2>1
  <2> QED BY <1>3, <2>1, <2>2 DEF ThreadInv, OneThread
<1>6. TypeOK'
  <2>1. row' \in 0..stored
    BY <1>1, <1>2, <1>3, Flight
  <2>2. BagToSet(flight') \subseteq
            {Dial, Read, Tick, Fetch, Error} \cup {Rows(m) : m \in 0..stored}
                \cup {Price(t, m) : t \in Symbols, m \in Numbers}
    BY <1>1, <1>3 DEF TypeOK, BagToSet
  <2> QED BY <1>1, <1>2, <1>3, <2>1, <2>2 DEF TypeOK
<1>7. KindInv'
  BY <1>2, <1>3 DEF KindInv
<1>8. WatchInv'
  BY <1>1, <1>2, <1>3 DEF WatchInv
<1>9. HistoryInv'
  <2> SUFFICES ASSUME ~raced PROVE HistoryInv'
    BY <1>2 DEF HistoryInv
  <2>1. Cardinality(Threads(flight)) <= 1
    BY <1>1, <1>3 DEF HistoryInv
  <2>2. Cardinality(Threads(flight')) = 0
    BY <1>3, <1>4, <2>1
  <2>3. Threads(flight') = {}
    BY <1>3, <2>2, FS_EmptySet
  <2>4. \A e : e \notin DOMAIN flight'
    <3>1. ASSUME NEW e \in DOMAIN flight' PROVE FALSE
      <4>1. 1 \in 1..Copies(e, flight')
        BY <1>3, <3>1, ThreadsOf
      <4> QED BY <1>3, <2>3, <4>1, ThreadsOf
    <3> QED BY <3>1
  <2>5. \A m : ~InFlight(Rows(m))'
    BY <2>4 DEF InFlight, BagIn, BagToSet
  <2> QED BY <2>2, <2>5 DEF HistoryInv
<1> QED BY <1>5, <1>6, <1>7, <1>8, <1>9 DEF ClientInv

\* r asks again, whatever is on its way.
LEMMA RefreshOK == ASSUME ClientInv, Refresh PROVE ClientInv'
<1>1. TypeOK /\ ThreadInv /\ KindInv /\ WatchInv /\ HistoryInv
  BY DEF ClientInv
<1>2. /\ UNCHANGED <<screen, connected, shown, row, open>>
      /\ UNCHANGED <<count, latest, stored, up, stops>>
      /\ screen = "history" /\ refreshes < MaxRefreshes /\ refreshes' = refreshes + 1
      /\ raced' = (raced \/ flight # EmptyBag)
      /\ flight' = flight (+) SetToBag({Fetch})
  BY DEF Refresh, serverVars
<1>3. /\ IsABag(flight') /\ DOMAIN flight' = DOMAIN flight \cup {Fetch}
      /\ IsFiniteSet(Threads(flight'))
      /\ Cardinality(Threads(flight')) = Cardinality(Threads(flight)) + 1
  <2>1. IsABag(flight) /\ IsFiniteSet(Threads(flight))
    BY <1>1 DEF TypeOK, ThreadInv
  <2>2. flight' = flight (+) SetToBag({Fetch})
    BY <1>2
  <2> HIDE DEF Fetch
  <2> QED BY ONLY <2>1, <2>2, AddedThreads
<1>4. Cardinality(Threads(flight)) \in Nat
  BY <1>1, FS_CardinalityType DEF ThreadInv
<1>5. ThreadInv'
  <2>1. refreshes \in Nat
    BY <1>1 DEF TypeOK
  <2> QED BY <1>1, <1>2, <1>3, <1>4, <2>1 DEF ThreadInv, OneThread
<1>6. TypeOK'
  <2>1. refreshes' \in 0..MaxRefreshes
    BY <1>1, <1>2, ClientAssumption DEF ClientAssumption, TypeOK
  <2>2. raced' \in BOOLEAN
    BY <1>1, <1>2 DEF TypeOK
  <2>3. BagToSet(flight') \subseteq
            {Dial, Read, Tick, Fetch, Error} \cup {Rows(m) : m \in 0..stored}
                \cup {Price(t, m) : t \in Symbols, m \in Numbers}
    BY <1>1, <1>3 DEF TypeOK, BagToSet
  <2>4. /\ screen' \in Screens \cup {"none"} /\ connected' \in BOOLEAN
        /\ shown' \in [Symbols -> Numbers] /\ row' \in 0..stored'
        /\ stored' \in 0..MaxRows /\ open' \in 0..Slots
        /\ count' \in [Symbols -> Numbers] /\ latest' \in [Symbols -> Numbers]
        /\ up' \in BOOLEAN /\ stops' \in 0..MaxStops /\ stored' = stored
    BY <1>1, <1>2 DEF TypeOK
  <2> QED BY <1>3, <2>1, <2>2, <2>3, <2>4 DEF TypeOK
<1>7. KindInv'
  BY <1>2 DEF KindInv
<1>8. WatchInv'
  BY <1>1, <1>2 DEF WatchInv
<1>9. HistoryInv'
  <2> SUFFICES ASSUME flight = EmptyBag PROVE HistoryInv'
    BY <1>2 DEF HistoryInv
  <2>1. DOMAIN flight = {}
    BY DEF EmptyBag, SetToBag
  <2>2. Cardinality(Threads(flight)) = 0
    BY <2>1, NoThreads
  <2>3. \A m : ~InFlight(Rows(m))'
    BY <1>3, <2>1, Kinds DEF InFlight, BagIn, BagToSet
  <2> QED BY <1>3, <2>2, <2>3 DEF HistoryInv
<1> QED BY <1>5, <1>6, <1>7, <1>8, <1>9 DEF ClientInv

\* Nothing is left of a client that has quit.
LEMMA QuitOK == ASSUME ClientInv, Quit PROVE ClientInv'
<1>1. TypeOK /\ WatchInv
  BY DEF ClientInv
<1>2. /\ UNCHANGED <<connected, shown, row, refreshes, raced>>
      /\ UNCHANGED <<count, latest, stored, up, stops>>
      /\ screen' = "none" /\ flight' = EmptyBag /\ open' = 0
  BY DEF Quit, historyVars, serverVars
<1>3. DOMAIN flight' = {} /\ IsABag(flight')
  BY <1>2 DEF EmptyBag, SetToBag, IsABag
<1>4. TypeOK'
  <2>1. BagToSet(flight') = {} /\ open' \in 0..Slots
    BY <1>2, <1>3, ClientAssumption DEF ClientAssumption, BagToSet
  <2> QED BY <1>1, <1>2, <1>3, <2>1 DEF TypeOK
<1>5. ThreadInv'
  BY <1>2, <1>3, NoThreads DEF ThreadInv, OneThread
<1>6. KindInv'
  BY <1>3 DEF KindInv, InFlight, BagIn, BagToSet
<1>7. WatchInv'
  BY <1>1, <1>2 DEF WatchInv
<1>8. HistoryInv'
  BY <1>2 DEF HistoryInv
<1> QED BY <1>4, <1>5, <1>6, <1>7, <1>8 DEF ClientInv

\* Every step keeps the invariant.
LEMMA NextOK == ASSUME ClientInv, [Next]_vars PROVE ClientInv'
<1>1. /\ open \in 0..Slots /\ connected \in BOOLEAN /\ up \in BOOLEAN
      /\ stored \in stored..MaxRows
  BY DEF ClientInv, TypeOK
<1>2. CASE DialFails
  <2>1. /\ Become(Dial, SetToBag({Error})) /\ open' \in 0..Slots
        /\ connected' \in BOOLEAN
        /\ UNCHANGED <<screen, shown, historyVars, serverVars>>
    BY <1>1, <1>2 DEF DialFails, clientVars
  <2> QED BY <2>1, HarmlessBecome
<1>3. CASE DialSucceeds
  BY <1>3, DialSucceedsOK
<1>4. ASSUME NEW s \in Symbols, NEW n \in 1..MaxMessages, Show(s, n)
      PROVE  ClientInv'
  BY <1>4, ShowOK
<1>5. CASE ShowError
  <2>1. /\ open' \in 0..Slots /\ connected' \in BOOLEAN
        /\ UNCHANGED <<screen, shown, historyVars, serverVars>>
    BY <1>1, <1>5 DEF ShowError
  <2>2. CASE screen = "history"
    <3>1. Become(Error, EmptyBag)
      BY <1>5, <2>2 DEF ShowError
    <3>2. /\ screen # "none"
          /\ IsABag(flight') /\ DOMAIN flight' \subseteq DOMAIN flight \cup {Dial}
          /\ IsFiniteSet(Threads(flight'))
          /\ Cardinality(Threads(flight')) = Cardinality(Threads(flight)) - 1
      BY <3>1, BecomeNone
    <3>3. /\ Cardinality(Threads(flight)) \in Nat
          /\ Cardinality(Threads(flight')) <= Cardinality(Threads(flight))
      BY <3>2, FS_CardinalityType DEF ClientInv, ThreadInv
    <3>4. ThreadInv'
      <4>1. refreshes' = refreshes /\ refreshes \in Nat /\ screen' = screen
        BY <2>1 DEF historyVars, ClientInv, TypeOK
      <4> QED BY <2>2, <3>2, <3>3, <4>1 DEF ClientInv, ThreadInv, OneThread
    <3>5. /\ count' \in [Symbols -> Numbers] /\ latest' \in [Symbols -> Numbers]
          /\ up' \in BOOLEAN /\ stops' \in 0..MaxStops
          /\ stored' \in stored..MaxRows
          /\ stops' = 0 => stops = 0 /\ UNCHANGED <<count, latest>>
      BY <1>1, <2>1 DEF ClientInv, TypeOK, serverVars
    <3> QED BY <2>1, <3>2, <3>3, <3>4, <3>5, Harmless
  <2>3. CASE screen # "history"
    <3>1. Become(Error, SetToBag({Tick}))
      BY <1>5, <2>3 DEF ShowError
    <3> QED BY <2>1, <3>1, HarmlessBecome
  <2> QED BY <2>2, <2>3
<1>6. CASE HandleTick
  <2>1. /\ open' \in 0..Slots /\ connected' \in BOOLEAN
        /\ UNCHANGED <<screen, shown, historyVars, serverVars>>
    BY <1>1, <1>6 DEF HandleTick, clientVars
  <2>2. PICK d \in {Dial, Tick} : Become(Tick, SetToBag({d}))
    BY <1>6 DEF HandleTick
  <2> QED BY <2>1, <2>2, HarmlessBecome
<1>7. ASSUME NEW n \in 0..MaxRows, ShowRows(n)
      PROVE  ClientInv'
  BY <1>7, ShowRowsOK
<1>8. ASSUME NEW s \in Symbols, Broadcast(s)
      PROVE  ClientInv'
  BY <1>8, BroadcastOK
<1>9. CASE StreamEnds
  BY <1>9, StreamEndsOK
<1>10. CASE ServerStops
  BY <1>10, ServerStopsOK
<1>11. CASE ServerStarts
  <2>1. /\ UNCHANGED <<clientVars, flight, count, latest, stops>>
        /\ open' \in 0..Slots /\ up' \in BOOLEAN /\ stored' \in stored..MaxRows
    BY <1>1, <1>11 DEF ServerStarts
  <2> QED BY <2>1, HarmlessElse
<1>12. CASE Store
  <2>1. /\ UNCHANGED <<clientVars, flight, count, latest, stops>>
        /\ open' \in 0..Slots /\ up' \in BOOLEAN
    BY <1>1, <1>12 DEF Store
  <2>2. stored' \in stored..MaxRows
    <3>1. /\ stored \in 0..MaxRows /\ MaxRows \in Nat
          /\ stored < MaxRows /\ stored' = stored + 1
      BY <1>12, ClientAssumption DEF Store, ClientInv, TypeOK, ClientAssumption
    <3> QED BY <3>1
  <2> QED BY <2>1, <2>2, HarmlessElse
<1>13. CASE FetchSucceeds
  <2>1. /\ Become(Fetch, SetToBag({Rows(stored)})) /\ open' \in 0..Slots
        /\ UNCHANGED <<clientVars, serverVars>>
    BY <1>1, <1>13 DEF FetchSucceeds
  <2>2. screen = "history"
    BY <2>1 DEF Become, ClientInv, KindInv
  <2> QED BY <2>1, <2>2, MessageArrives
<1>14. CASE FetchFails
  <2>1. /\ Become(Fetch, SetToBag({Error})) /\ open' \in 0..Slots
        /\ connected' \in BOOLEAN
        /\ UNCHANGED <<screen, shown, historyVars, serverVars>>
    BY <1>1, <1>14 DEF FetchFails, clientVars
  <2> QED BY <2>1, HarmlessBecome
<1>15. CASE Refresh
  BY <1>15, RefreshOK
<1>16. CASE Quit
  BY <1>16, QuitOK
<1>17. CASE UNCHANGED vars
  <2>1. UNCHANGED <<clientVars, flight, open, up, stored, count, latest, stops>>
    BY <1>17 DEF vars, serverVars
  <2> QED BY <1>1, <2>1, HarmlessElse
<1> QED BY <1>2, <1>3, <1>4, <1>5, <1>6, <1>7, <1>8, <1>9, <1>10, <1>11, <1>12,
           <1>13, <1>14, <1>15, <1>16, <1>17 DEF Next, Connect, Update

\* The invariant of the client: what is in flight, how much of it there is, and
\* how new it is against what is shown.
THEOREM ClientInvariant == Spec => []ClientInv
BY InitOK, NextOK, PTL DEF Spec

\* Everything has its type in every behaviour.
THEOREM TypeCorrect == Spec => []TypeOK
<1>1. ClientInv => TypeOK
  BY DEF ClientInv
<1> QED BY <1>1, ClientInvariant, PTL

\* Commands neither multiply nor run out, however often connecting fails
\* (ui/watch.go and ui/alerts.go reconnect by one command at a time).
THEOREM OneThreadKept == Spec => []OneThread
<1>1. ClientInv => OneThread
  BY DEF ClientInv, ThreadInv
<1> QED BY <1>1, ClientInvariant, PTL

\* The view of one price never goes back to an older one, nor does the history.
THEOREM NeverGoesBack == Spec => ScreenNeverGoesBack
<1>1. ASSUME ClientInv, [Next]_vars
      PROVE  [/\ screen = "watch" /\ stops = 0
                     => \A s \in Symbols : shown'[s] >= shown[s]
              /\ screen = "history" /\ ~raced => row' >= row]_vars
  <2> SUFFICES ASSUME Next
               PROVE  /\ screen = "watch" /\ stops = 0
                            => \A s \in Symbols : shown'[s] >= shown[s]
                      /\ screen = "history" /\ ~raced => row' >= row
    BY <1>1
  <2>1. /\ \A s \in Symbols : shown[s] \in Nat
        /\ row \in Nat
    BY <1>1, ClientAssumption
    DEF ClientInv, TypeOK, Numbers, ClientAssumption
  <2>2. ASSUME UNCHANGED <<shown, row>>
        PROVE  /\ \A s \in Symbols : shown'[s] >= shown[s]
               /\ row' >= row
    BY <2>1, <2>2
  <2>3. ASSUME NEW t \in Symbols, NEW n \in 1..MaxMessages, Show(t, n)
        PROVE  /\ screen = "watch" /\ stops = 0
                     => \A s \in Symbols : shown'[s] >= shown[s]
               /\ row' >= row
    <3>1. InFlight(Price(t, n)) /\ n \in Numbers
      BY <2>3, ClientAssumption DEF Show, Become, Numbers, ClientAssumption
    <3>2. screen = "watch" /\ stops = 0 => n >= shown[t]
      BY <1>1, <2>1, <3>1 DEF ClientInv, WatchInv, TypeOK, Numbers
    <3>3. shown' = [shown EXCEPT ![t] = n] /\ row' = row
      BY <2>3 DEF Show, historyVars
    <3> QED BY <1>1, <2>1, <3>2, <3>3 DEF ClientInv, TypeOK
  <2>4. ASSUME NEW n \in 0..MaxRows, ShowRows(n)
        PROVE  /\ \A s \in Symbols : shown'[s] >= shown[s]
               /\ screen = "history" /\ ~raced => row' >= row
    <3>1. InFlight(Rows(n)) /\ row' = n /\ shown' = shown
      BY <2>4 DEF ShowRows, Become
    <3> QED BY <1>1, <2>1, <3>1 DEF ClientInv, HistoryInv
  <2>5. CASE Connect \/ ShowError \/ HandleTick \/ (\E s \in Symbols : Broadcast(s))
    BY <2>2, <2>5 DEF Connect, DialFails, DialSucceeds, ShowError, HandleTick,
                      Broadcast, clientVars, historyVars
  <2>6. CASE StreamEnds \/ ServerStops \/ ServerStarts \/ Store \/ FetchSucceeds
                \/ FetchFails \/ Refresh \/ Quit
    BY <2>2, <2>6 DEF StreamEnds, ServerStops, ServerStarts, Store, FetchSucceeds,
                      FetchFails, Refresh, Quit, clientVars, historyVars
  <2> QED BY <2>3, <2>4, <2>5, <2>6 DEF Next, Update
<1> QED BY <1>1, ClientInvariant, PTL DEF Spec, ScreenNeverGoesBack
=============================================================================
