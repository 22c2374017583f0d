--------------------------- MODULE EventBusProofs ---------------------------
(***************************************************************************)
(* Theorems about the event bus, for any types, patterns with one star,    *)
(* callbacks, history and numbers of events and failures: the index finds  *)
(* what a scan of all subscriptions would find, every callback gets its    *)
(* events once and in order, and failures do not multiply.                 *)
(***************************************************************************)
EXTENDS EventBus, ListsProofs, FiniteSetTheorems, TLAPS

-----------------------------------------------------------------------------
(* How a pattern matches a type                                            *)

\* What the loop of matches compares a segment of the type with: from the star on (its
\* place is n) the pattern is aligned with the end of the type.
Place(p, t, n, i) == IF i <= n THEN i ELSE Len(t) - Len(p) + i

\* The segments of the pattern before pi fit.
Fits(p, t, n, pi) == \A i \in 1..pi - 1 : p[i] = Star \/ p[i] = t[Place(p, t, n, i)]

MatchStep(p, t, ai, pi) ==
    LET at == ai[pi - 1]
        end == Len(t) - Len(p) + pi
    IN IF at \notin 1..Len(t) THEN 0
       ELSE IF p[pi - 1] = Star THEN IF end > at THEN end ELSE 0
       ELSE IF p[pi - 1] = t[at] THEN at + 1 ELSE 0

MatchLoop(p, t, ai, m) == ai = [pi \in 1..m |-> IF pi = 1 THEN 1 ELSE MatchStep(p, t, ai, pi)]

LEMMA MatchLoopExists ==
  ASSUME NEW p, NEW t, Len(p) \in Nat
  PROVE  \E g : MatchLoop(p, t, g, Len(p) + 1)
<1> DEFINE Stuck == {m \in Nat : ~ \E g : MatchLoop(p, t, g, m + 1)}
<1> SUFFICES ASSUME Stuck # {} PROVE FALSE
  OBVIOUS
<1>1. PICK m \in Stuck : \A n \in Stuck : m <= n
  <2>1. Stuck \in SUBSET Nat
    OBVIOUS
  <2> HIDE DEF Stuck
  <2> QED BY <2>1, LeastNat
<1>2. m # 0
  <2>1. MatchLoop(p, t, [pi \in 1..1 |-> 1], 1)
    BY DEF MatchLoop
  <2> QED BY <2>1
<1>3. PICK g : MatchLoop(p, t, g, m)
  <2>1. m - 1 \in Nat /\ m - 1 \notin Stuck
    BY <1>1, <1>2
  <2>2. (m - 1) + 1 = m
    OBVIOUS
  <2> QED BY <2>1, <2>2
<1> DEFINE h == [pi \in 1..m + 1 |-> IF pi = m + 1 THEN MatchStep(p, t, g, m + 1) ELSE g[pi]]
<1>4. ASSUME NEW pi \in 1..m + 1
      PROVE  h[pi] = IF pi = 1 THEN 1 ELSE MatchStep(p, t, h, pi)
  <2>1. CASE pi = m + 1
    <3>1. h[pi - 1] = g[pi - 1] /\ pi # 1
      BY <1>1, <1>2, <2>1
    <3>2. MatchStep(p, t, h, pi) = MatchStep(p, t, g, pi)
      BY <3>1 DEF MatchStep
    <3> QED BY <2>1, <3>1, <3>2
  <2>2. CASE pi # m + 1
    <3>1. pi \in 1..m /\ h[pi] = g[pi] /\ (pi # 1 => h[pi - 1] = g[pi - 1])
      BY <1>1, <2>2
    <3>2. g[pi] = IF pi = 1 THEN 1 ELSE MatchStep(p, t, g, pi)
      BY <1>3, <3>1 DEF MatchLoop
    <3>3. pi # 1 => MatchStep(p, t, h, pi) = MatchStep(p, t, g, pi)
      BY <3>1 DEF MatchStep
    <3> QED BY <3>1, <3>2, <3>3
  <2> QED BY <2>1, <2>2
<1>5. MatchLoop(p, t, h, m + 1)
  <2> DEFINE w == [pi \in 1..m + 1 |-> IF pi = 1 THEN 1 ELSE MatchStep(p, t, h, pi)]
  <2>1. \A pi \in 1..m + 1 : h[pi] = w[pi]
    BY <1>4
  <2>2. h = w
    BY <2>1
  <2> QED BY <2>2 DEF MatchLoop
<1> QED BY <1>5

(* matches: what its loop ends with.                                       *)
LEMMA MatchRuns ==
  ASSUME NEW p, NEW t, Len(p) \in Nat
  PROVE  \E g : /\ MatchLoop(p, t, g, Len(p) + 1)
                /\ Matches(p, t) <=>
                     p = <<Star>> \/ (Len(p) <= Len(t) /\ g[Len(p) + 1] = Len(t) + 1)
<1>1. PICK g : MatchLoop(p, t, g, Len(p) + 1)
  BY MatchLoopExists
<1> DEFINE k == CHOOSE ai : ai = [pi \in 1..Len(p) + 1 |->
                IF pi = 1 THEN 1 ELSE MatchStep(p, t, ai, pi)]
<1>2. Matches(p, t) <=> p = <<Star>> \/ (Len(p) <= Len(t) /\ k[Len(p) + 1] = Len(t) + 1)
  BY DEF Matches, MatchStep
<1>3. k = [pi \in 1..Len(p) + 1 |-> IF pi = 1 THEN 1 ELSE MatchStep(p, t, k, pi)]
  BY <1>1, Zenon DEF MatchLoop
<1> HIDE DEF k
<1>4. MatchLoop(p, t, k, Len(p) + 1)
  BY <1>3, Zenon DEF MatchLoop
<1> QED BY <1>2, <1>4

(* Where the loop is at a segment of a pattern with one star at n, or with *)
(* none and n beyond its end.                                              *)
LEMMA MatchAt ==
  ASSUME NEW T, NEW p \in Seq(T), NEW U, NEW t \in Seq(U), Len(p) <= Len(t),
         NEW n \in 1..Len(p) + 1, \A i \in 1..Len(p) : p[i] = Star <=> i = n,
         NEW g, MatchLoop(p, t, g, Len(p) + 1),
         NEW pi \in 1..Len(p) + 1
  PROVE  g[pi] = IF Fits(p, t, n, pi) THEN Place(p, t, n, pi) ELSE 0
<1> DEFINE Right(i) == g[i] = IF Fits(p, t, n, i) THEN Place(p, t, n, i) ELSE 0
           Wrong == {i \in 1..Len(p) + 1 : ~ Right(i)}
<1>0. Len(p) \in Nat /\ Len(t) \in Nat
  OBVIOUS
<1> SUFFICES ASSUME Wrong # {} PROVE FALSE
  OBVIOUS
<1>2. PICK i \in Wrong : \A j \in Wrong : i <= j
  <2>1. Wrong \in SUBSET Nat
    BY <1>0
  <2> HIDE DEF Wrong
  <2> QED BY <2>1, LeastNat
<1>3. i # 1
  <2>1. 1 \in 1..Len(p) + 1
    BY <1>0
  <2>2. g[1] = 1
    BY <2>1 DEF MatchLoop
  <2>3. Fits(p, t, n, 1) /\ Place(p, t, n, 1) = 1
    BY DEF Fits, Place
  <2> QED BY <2>2, <2>3
<1>4. PICK j \in 1..Len(p) : i = j + 1
  BY <1>0, <1>2, <1>3
<1>5. Right(j)
  <2>1. j \notin Wrong /\ j \in 1..Len(p) + 1
    BY <1>0, <1>2, <1>4
  <2> QED BY <2>1
<1>6. g[i] = MatchStep(p, t, g, i)
  BY <1>0, <1>2, <1>3 DEF MatchLoop
<1>7. i - 1 = j /\ i \in Nat /\ i # 0
  BY <1>0, <1>4
<1>8. Fits(p, t, n, i) <=> Fits(p, t, n, j) /\ (p[j] = Star \/ p[j] = t[Place(p, t, n, j)])
  <2>1. \A k \in 1..i - 1 : k \in 1..j - 1 \/ k = j
    BY <1>0, <1>7
  <2>2. \A k \in 1..j - 1 : k \in 1..i - 1
    BY <1>0, <1>7
  <2>3. j \in 1..i - 1
    BY <1>0, <1>7
  <2> QED BY <2>1, <2>2, <2>3 DEF Fits
<1>9. Place(p, t, n, j) \in 1..Len(t)
  BY <1>0 DEF Place
<1>10. CASE ~ Fits(p, t, n, j)
  <2>1. g[j] = 0 /\ 0 \notin 1..Len(t)
    BY <1>0, <1>5, <1>10
  <2>2. MatchStep(p, t, g, i) = 0
    BY <1>7, <2>1 DEF MatchStep
  <2> QED BY <1>2, <1>6, <1>8, <1>10, <2>2
<1>11. CASE Fits(p, t, n, j)
  <2>1. g[j] = Place(p, t, n, j)
    BY <1>5, <1>11
  <2> DEFINE at == Place(p, t, n, j)
  <2>2. MatchStep(p, t, g, i) =
          IF p[j] = Star THEN IF Len(t) - Len(p) + i > at THEN Len(t) - Len(p) + i ELSE 0
          ELSE IF p[j] = t[at] THEN at + 1 ELSE 0
    BY <1>7, <1>9, <2>1 DEF MatchStep
  <2>3. CASE p[j] = Star
    <3>1. n = j /\ at = j /\ Place(p, t, n, i) = Len(t) - Len(p) + i
      BY <1>0, <1>4, <2>3 DEF Place
    <3>2. Len(t) - Len(p) + i > at
      BY <1>0, <1>4, <3>1
    <3> QED BY <1>2, <1>6, <1>8, <1>11, <2>2, <2>3, <3>1, <3>2
  <2>4. CASE p[j] # Star
    <3>1. Place(p, t, n, i) = at + 1
      BY <1>0, <1>4, <2>4 DEF Place
    <3> QED BY <1>2, <1>6, <1>8, <1>11, <2>2, <2>4, <3>1
  <2> QED BY <2>3, <2>4
<1> QED BY <1>10, <1>11

(* matches implements the documented rule: a star that is not the only     *)
(* segment stands for one or more segments, at any place of the pattern.   *)
THEOREM MatchesAsDocumented ==
  ASSUME NEW p \in Patterns, NEW t \in Types
  PROVE  Matches(p, t) <=> MatchesRule(p, t)
<1>0. /\ p \in Seq(ToSet(p)) /\ t \in Seq(ToSet(t)) /\ Len(p) \in Nat \ {0} /\ Len(t) \in Nat \ {0}
      /\ DOMAIN p = 1..Len(p)
      /\ \A i, j \in 1..Len(p) : p[i] = Star /\ p[j] = Star => i = j
  BY SegmentsAssumption
<1>1. PICK g : /\ MatchLoop(p, t, g, Len(p) + 1)
               /\ Matches(p, t) <=>
                    p = <<Star>> \/ (Len(p) <= Len(t) /\ g[Len(p) + 1] = Len(t) + 1)
  BY <1>0, MatchRuns
<1>2. CASE Star \notin ToSet(p)
  <2>1. MatchesRule(p, t) <=> p = t
    BY <1>2 DEF MatchesRule
  <2>2. p # <<Star>>
    BY <1>2 DEF ToSet
  <2>3. \A i \in 1..Len(p) : p[i] = Star <=> i = Len(p) + 1
    BY <1>0, <1>2 DEF ToSet
  <2> DEFINE n == Len(p) + 1
  <2>4. ASSUME Len(p) <= Len(t) PROVE g[n] = Len(t) + 1 <=> p = t
    <3>1. n \in 1..Len(p) + 1
      BY <1>0
    <3>2. g[n] = IF Fits(p, t, n, n) THEN Place(p, t, n, n) ELSE 0
      BY <1>0, <1>1, <2>3, <2>4, <3>1, MatchAt
    <3>3. Place(p, t, n, n) = Len(p) + 1 /\ Len(p) + 1 # 0 /\ Len(t) + 1 # 0
      BY <1>0 DEF Place
    <3>4. n - 1 = Len(p) /\ \A i \in 1..Len(p) : Place(p, t, n, i) = i
      BY <1>0 DEF Place
    <3>5. Fits(p, t, n, n) <=> \A i \in 1..Len(p) : p[i] = t[i]
      BY <2>3, <3>4 DEF Fits
    <3>6. CASE Len(p) = Len(t) /\ \A i \in 1..Len(p) : p[i] = t[i]
      <4>1. p = t
        BY <1>0, <3>6
      <4> QED BY <3>2, <3>3, <3>5, <3>6, <4>1
    <3>7. CASE ~ (Len(p) = Len(t) /\ \A i \in 1..Len(p) : p[i] = t[i])
      <4>1. p # t
        BY <1>0, <3>7
      <4>2. g[n] # Len(t) + 1
        BY <1>0, <3>2, <3>3, <3>5, <3>7
      <4> QED BY <4>1, <4>2
    <3> QED BY <3>6, <3>7
  <2>5. p = t => Len(p) <= Len(t)
    BY <1>0
  <2> QED BY <1>1, <2>1, <2>2, <2>4, <2>5
<1>3. CASE Star \in ToSet(p)
  <2> DEFINE n == CHOOSE i \in DOMAIN p : p[i] = Star
  <2>1. n \in 1..Len(p) /\ p[n] = Star
    BY <1>0, <1>3 DEF ToSet
  <2>2. MatchesRule(p, t) <=>
          /\ Len(t) >= Len(p)
          /\ \A i \in 1..n - 1 : t[i] = p[i]
          /\ \A i \in n + 1..Len(p) : t[Len(t) - Len(p) + i] = p[i]
    BY <1>3 DEF MatchesRule
  <2> HIDE DEF n
  <2>3. \A i \in 1..Len(p) : p[i] = Star <=> i = n
    BY <1>0, <2>1
  <2>4. ASSUME Len(p) <= Len(t) PROVE g[Len(p) + 1] = Len(t) + 1 <=> MatchesRule(p, t)
    <3>1. n \in 1..Len(p) + 1 /\ Len(p) + 1 \in 1..Len(p) + 1
      BY <1>0, <2>1
    <3>2. g[Len(p) + 1] = IF Fits(p, t, n, Len(p) + 1) THEN Place(p, t, n, Len(p) + 1) ELSE 0
      BY <1>0, <1>1, <2>3, <2>4, <3>1, MatchAt
    <3>3. Place(p, t, n, Len(p) + 1) = Len(t) + 1 /\ Len(t) + 1 # 0
      BY <1>0, <2>1 DEF Place
    <3>4. Fits(p, t, n, Len(p) + 1) <=>
            \A i \in 1..Len(p) : i = n \/ p[i] = t[Place(p, t, n, i)]
      <4>1. (Len(p) + 1) - 1 = Len(p)
        BY <1>0
      <4> QED BY <2>3, <4>1 DEF Fits
    <3>5. \A i \in 1..Len(p) :
             \/ i = n
             \/ i \in 1..n - 1 /\ Place(p, t, n, i) = i
             \/ i \in n + 1..Len(p) /\ Place(p, t, n, i) = Len(t) - Len(p) + i
      BY <1>0, <2>1 DEF Place
    <3>6. \A i \in 1..n - 1 : i \in 1..Len(p) /\ i # n /\ Place(p, t, n, i) = i
      BY <1>0, <2>1 DEF Place
    <3>7. \A i \in n + 1..Len(p) : i \in 1..Len(p) /\ i # n /\ Place(p, t, n, i) = Len(t) - Len(p) + i
      BY <1>0, <2>1 DEF Place
    <3>8. Fits(p, t, n, Len(p) + 1) <=>
            /\ \A i \in 1..n - 1 : t[i] = p[i]
            /\ \A i \in n + 1..Len(p) : t[Len(t) - Len(p) + i] = p[i]
      BY <3>4, <3>5, <3>6, <3>7
    <3>9. Len(t) >= Len(p)
      BY <1>0, <2>4
    <3> QED BY <2>2, <3>2, <3>3, <3>8, <3>9
  <2>5. MatchesRule(p, t) => Len(p) <= Len(t)
    BY <1>0, <2>2
  <2>6. p = <<Star>> => MatchesRule(p, t)
    <3> SUFFICES ASSUME p = <<Star>> PROVE MatchesRule(p, t)
      OBVIOUS
    <3>1. Len(p) = 1 /\ n = 1
      BY <2>1
    <3> QED BY <1>0, <2>2, <3>1
  <2> QED BY <1>1, <2>4, <2>5, <2>6
<1> QED BY <1>2, <1>3

(* Only patterns of the two buckets that match looks at can match.         *)
LEMMA BucketsSuffice ==
  ASSUME NEW p \in Patterns, NEW t \in Types, MatchesRule(p, t)
  PROVE  Head(p) \in {Head(t), Star}
<1>0. /\ p \in Seq(ToSet(p)) /\ t \in Seq(ToSet(t)) /\ Len(p) \in Nat \ {0} /\ Len(t) \in Nat \ {0}
      /\ Head(p) = p[1] /\ Head(t) = t[1] /\ DOMAIN p = 1..Len(p)
  BY SegmentsAssumption
<1>1. CASE Star \notin ToSet(p)
  BY <1>1 DEF MatchesRule
<1>2. CASE Star \in ToSet(p)
  <2> DEFINE n == CHOOSE i \in DOMAIN p : p[i] = Star
  <2>1. n \in 1..Len(p) /\ p[n] = Star
    BY <1>0, <1>2 DEF ToSet
  <2>2. \A i \in 1..n - 1 : t[i] = p[i]
    BY <1>2 DEF MatchesRule
  <2> HIDE DEF n
  <2>3. n # 1 => 1 \in 1..n - 1
    BY <1>0, <2>1
  <2> QED BY <1>0, <2>1, <2>2, <2>3
<1> QED BY <1>1, <1>2

-----------------------------------------------------------------------------
(* The index                                                               *)

Subscriptions == [pattern : Patterns, listeners : Seq(Callbacks)]

\* The index has the patterns of the subscriptions and their listeners, and its numbers
\* are in the order in which the table of the subscriptions got the patterns.
IndexInv ==
    /\ subs \in Seq(Subscriptions)
    /\ \A n \in 1..Len(subs) : subs[n].listeners # <<>>
    /\ index = [listeners |-> index.listeners, order |-> index.order, next |-> index.next]
    /\ index.listeners = [p \in DOMAIN index.listeners |-> index.listeners[p]]
    /\ DOMAIN index.listeners = {subs[n].pattern : n \in 1..Len(subs)}
    /\ DOMAIN index.order = DOMAIN index.listeners
    /\ \A n \in 1..Len(subs) : index.listeners[subs[n].pattern] = subs[n].listeners
    /\ \A m, n \in 1..Len(subs) : m < n => index.order[subs[m].pattern] < index.order[subs[n].pattern]
    /\ index.next \in Nat
    /\ \A n \in 1..Len(subs) :
          index.order[subs[n].pattern] \in Nat /\ index.order[subs[n].pattern] < index.next

\* Each pattern has one place in the table.
LEMMA OnePlace ==
  ASSUME IndexInv, NEW m \in 1..Len(subs), NEW n \in 1..Len(subs), subs[m].pattern = subs[n].pattern
  PROVE  m = n
<1>1. Len(subs) \in Nat /\ index.order[subs[m].pattern] \in Nat /\ index.order[subs[n].pattern] \in Nat
  BY DEF IndexInv
<1>2. ~ (m < n) /\ ~ (n < m)
  BY <1>1 DEF IndexInv
<1> QED BY <1>1, <1>2

LEMMA IndexInvInit == Init => IndexInv
BY DEF Init, IndexInv, EmptyIndex

\* A listener more, of a new pattern or of one that has listeners.
LEMMA SubscribeKeeps ==
  ASSUME IndexInv, NEW p \in Patterns, NEW c \in Callbacks,
         subs' = AddSub(p, c), index' = AddListener(index, p, c)
  PROVE  IndexInv'
<1>0. /\ Len(subs) \in Nat /\ DOMAIN subs = 1..Len(subs)
      /\ p \in DOMAIN index.listeners <=> Places(p) # {}
  BY DEF IndexInv, Places
<1>1. CASE Places(p) = {}
  <2> DEFINE new == [pattern |-> p, listeners |-> <<c>>]
  <2>1. subs' = Append(subs, new) /\ new \in Subscriptions /\ new.listeners # <<>>
    BY <1>1 DEF AddSub, Subscriptions
  <2>2. /\ index' = [listeners |-> Put(index.listeners, p, <<c>>),
                     order |-> Put(index.order, p, index.next), next |-> index.next + 1]
    BY <1>0, <1>1 DEF AddListener
  <2>3. /\ subs' \in Seq(Subscriptions) /\ Len(subs') = Len(subs) + 1 /\ subs'[Len(subs) + 1] = new
        /\ \A n \in 1..Len(subs) : subs'[n] = subs[n] /\ subs[n].pattern # p
        /\ \A n \in 1..Len(subs') : n \in 1..Len(subs) \/ n = Len(subs) + 1
    BY <1>0, <1>1, <2>1 DEF IndexInv, Places
  <2>4. /\ index'.listeners = Put(index.listeners, p, <<c>>)
        /\ index'.order = Put(index.order, p, index.next) /\ index'.next = index.next + 1
    BY <2>2
  <2>5. /\ index'.order[p] = index.next /\ index'.listeners[p] = <<c>>
        /\ \A n \in 1..Len(subs) : /\ index'.order[subs[n].pattern] = index.order[subs[n].pattern]
                                   /\ index'.listeners[subs[n].pattern] = index.listeners[subs[n].pattern]
    BY <2>3, <2>4 DEF Put, IndexInv
  <2>6. DOMAIN index'.listeners = {subs'[n].pattern : n \in 1..Len(subs')}
    <3>1. DOMAIN index'.listeners = {subs[n].pattern : n \in 1..Len(subs)} \cup {p}
      BY <2>4 DEF Put, IndexInv
    <3>2. {subs'[n].pattern : n \in 1..Len(subs')} = {subs[n].pattern : n \in 1..Len(subs)} \cup {p}
      <4>1. \A n \in 1..Len(subs) : n \in 1..Len(subs')
        BY <1>0, <2>3
      <4>2. Len(subs) + 1 \in 1..Len(subs')
        BY <1>0, <2>3
      <4>3. new.pattern = p
        OBVIOUS
      <4> HIDE DEF new
      <4> QED BY <2>3, <4>1, <4>2, <4>3
    <3> QED BY <3>1, <3>2
  <2>7. DOMAIN index'.order = DOMAIN index'.listeners
    BY <2>4 DEF Put, IndexInv
  <2>8. new.pattern = p /\ new.listeners = <<c>>
    OBVIOUS
  <2> HIDE DEF new
  <2>9. \A n \in 1..Len(subs') : /\ index'.listeners[subs'[n].pattern] = subs'[n].listeners
                                 /\ subs'[n].listeners # <<>>
    <3> TAKE n \in 1..Len(subs')
    <3>1. CASE n \in 1..Len(subs)
      BY <2>3, <2>5, <3>1 DEF IndexInv
    <3>2. CASE n = Len(subs) + 1
      BY <2>1, <2>3, <2>5, <2>8, <3>2
    <3> QED BY <2>3, <3>1, <3>2
  <2>10. ASSUME NEW m \in 1..Len(subs'), NEW n \in 1..Len(subs'), m < n
         PROVE  index'.order[subs'[m].pattern] < index'.order[subs'[n].pattern]
    <3>1. m \in 1..Len(subs)
      BY <1>0, <2>3, <2>10
    <3>2. CASE n \in 1..Len(subs)
      BY <2>3, <2>5, <2>10, <3>1, <3>2 DEF IndexInv
    <3>3. CASE n = Len(subs) + 1
      BY <2>3, <2>5, <2>8, <3>1, <3>3 DEF IndexInv
    <3> QED BY <2>3, <3>2, <3>3
  <2>11. \A n \in 1..Len(subs') :
           index'.order[subs'[n].pattern] \in Nat /\ index'.order[subs'[n].pattern] < index'.next
    <3> TAKE n \in 1..Len(subs')
    <3>1. index.next \in Nat
      BY DEF IndexInv
    <3>2. CASE n \in 1..Len(subs)
      <4>1. index.order[subs[n].pattern] \in Nat /\ index.order[subs[n].pattern] < index.next
        BY <3>2 DEF IndexInv
      <4>2. index'.order[subs'[n].pattern] = index.order[subs[n].pattern]
        BY <2>3, <2>5, <3>2
      <4> QED BY <2>4, <3>1, <4>1, <4>2
    <3>3. CASE n = Len(subs) + 1
      BY <2>3, <2>4, <2>5, <2>8, <3>1, <3>3
    <3> QED BY <2>3, <3>2, <3>3
  <2>12. index' = [listeners |-> index'.listeners, order |-> index'.order, next |-> index'.next]
    BY <2>2
  <2>13. index'.next \in Nat
    BY <2>4 DEF IndexInv
  <2>14. index'.listeners = [q \in DOMAIN index'.listeners |-> index'.listeners[q]]
    BY <2>4 DEF Put
  <2> QED BY <2>3, <2>6, <2>7, <2>9, <2>10, <2>11, <2>12, <2>13, <2>14 DEF IndexInv
<1>2. CASE Places(p) # {}
  <2>1. subs' = [n \in 1..Len(subs) |->
           IF n \in Places(p) THEN [subs[n] EXCEPT !.listeners = Append(@, c)] ELSE subs[n]]
    BY <1>0, <1>2 DEF AddSub
  <2>2. index' = [index EXCEPT !.listeners[p] = Append(@, c)]
    BY <1>0, <1>2 DEF AddListener
  <2>3. ASSUME NEW n \in 1..Len(subs)
        PROVE  /\ subs'[n] \in Subscriptions /\ subs'[n].listeners # <<>>
               /\ subs'[n].pattern = subs[n].pattern
               /\ subs'[n].listeners = IF subs[n].pattern = p THEN Append(subs[n].listeners, c)
                                       ELSE subs[n].listeners
    <3>1. subs[n] \in Subscriptions /\ (n \in Places(p) <=> subs[n].pattern = p)
      BY <1>0 DEF IndexInv, Places
    <3>2. subs[n].listeners \in Seq(Callbacks) /\ subs[n].pattern \in Patterns /\ subs[n].listeners # <<>>
      BY <3>1 DEF Subscriptions, IndexInv
    <3>3. Append(subs[n].listeners, c) \in Seq(Callbacks) /\ Append(subs[n].listeners, c) # <<>>
      BY <3>2
    <3>4. subs[n] = [pattern |-> subs[n].pattern, listeners |-> subs[n].listeners]
      BY <3>1 DEF Subscriptions
    <3>5. subs'[n] = IF n \in Places(p) THEN [subs[n] EXCEPT !.listeners = Append(@, c)] ELSE subs[n]
      BY <2>1
    <3>6. CASE n \in Places(p)
      <4>1. subs'[n] = [pattern |-> subs[n].pattern, listeners |-> Append(subs[n].listeners, c)]
        BY <3>4, <3>5, <3>6
      <4> QED BY <3>1, <3>2, <3>3, <3>6, <4>1 DEF Subscriptions
    <3>7. CASE n \notin Places(p)
      BY <3>1, <3>2, <3>5, <3>7
    <3> QED BY <3>6, <3>7
  <2>4. subs' \in Seq(Subscriptions) /\ Len(subs') = Len(subs)
    <3>1. DOMAIN subs' = 1..Len(subs) /\ subs' \in [1..Len(subs) -> Subscriptions]
      BY <2>1, <2>3
    <3> QED BY <1>0, <3>1
  <2>5. /\ index'.order = index.order /\ index'.next = index.next
        /\ index'.listeners = [index.listeners EXCEPT ![p] = Append(@, c)]
        /\ index' = [listeners |-> index'.listeners, order |-> index'.order, next |-> index'.next]
    <3>1. index = [listeners |-> index.listeners, order |-> index.order, next |-> index.next]
      BY DEF IndexInv
    <3> QED BY <2>2, <3>1
  <2>6. DOMAIN index'.listeners = DOMAIN index.listeners
    BY <2>5
  <2>7. {subs'[n].pattern : n \in 1..Len(subs')} = {subs[n].pattern : n \in 1..Len(subs)}
    BY <2>3, <2>4
  <2>8. \A n \in 1..Len(subs') : index'.listeners[subs'[n].pattern] = subs'[n].listeners
    <3> TAKE n \in 1..Len(subs')
    <3>1. n \in 1..Len(subs) /\ subs[n].pattern \in DOMAIN index.listeners
      BY <2>4 DEF IndexInv
    <3>2. index.listeners[subs[n].pattern] = subs[n].listeners
      BY <3>1 DEF IndexInv
    <3> QED BY <2>3, <2>5, <3>1, <3>2
  <2>9. /\ DOMAIN index'.order = DOMAIN index'.listeners
        /\ DOMAIN index'.listeners = {subs'[n].pattern : n \in 1..Len(subs')}
    BY <2>5, <2>6, <2>7 DEF IndexInv
  <2>10. \A m, n \in 1..Len(subs') : m < n => index'.order[subs'[m].pattern] < index'.order[subs'[n].pattern]
    <3> TAKE m, n \in 1..Len(subs')
    <3>1. m < n => index.order[subs[m].pattern] < index.order[subs[n].pattern]
      BY <2>4 DEF IndexInv
    <3>2. subs'[m].pattern = subs[m].pattern /\ subs'[n].pattern = subs[n].pattern
      BY <2>3, <2>4
    <3> QED BY <2>5, <3>1, <3>2, Zenon
  <2>11. /\ index'.next \in Nat
         /\ \A n \in 1..Len(subs') :
              index'.order[subs'[n].pattern] \in Nat /\ index'.order[subs'[n].pattern] < index'.next
    BY <2>3, <2>4, <2>5 DEF IndexInv
  <2>12. \A n \in 1..Len(subs') : subs'[n].listeners # <<>>
    BY <2>3, <2>4
  <2>13. index'.listeners = [q \in DOMAIN index'.listeners |-> index'.listeners[q]]
    BY <2>5
  <2> QED BY <2>4, <2>5, <2>8, <2>9, <2>10, <2>11, <2>12, <2>13 DEF IndexInv
<1> QED BY <1>1, <1>2

\* What remove leaves of a list of listeners.
LEMMA RemovedIs ==
  ASSUME NEW T, NEW s \in Seq(T), NEW x
  PROVE  RemoveFirst(s, x) \in Seq(T)
<1>2. CASE \E i \in 1..Len(s) : s[i] = x
  <2> DEFINE I == {i \in 1..Len(s) : s[i] = x}
  <2>1. I \in SUBSET Nat /\ I # {}
    BY <1>2
  <2>2. PICK m \in I : \A i \in I : m <= i
    BY <2>1, LeastNat
  <2>3. Min(I) \in I
    BY <2>2 DEF Min
  <2>4. RemoveFirst(s, x) = SubSeq(s, 1, Min(I) - 1) \o SubSeq(s, Min(I) + 1, Len(s))
    BY <1>2, <2>1 DEF RemoveFirst, RemoveAt, SelectInSeq
  <2> HIDE DEF I
  <2>5. PICK k \in 1..Len(s) : k = Min(I)
    BY <2>3 DEF I
  <2>6. SubSeq(s, 1, k - 1) \in Seq(T) /\ SubSeq(s, k + 1, Len(s)) \in Seq(T)
    OBVIOUS
  <2> QED BY <2>4, <2>5, <2>6
<1>3. CASE ~ \E i \in 1..Len(s) : s[i] = x
  BY <1>3 DEF RemoveFirst
<1> QED BY <1>2, <1>3

\* A listener less; a pattern without listeners leaves both tables.
LEMMA UnsubscribeKeeps ==
  ASSUME IndexInv, NEW p \in Patterns, NEW c \in Callbacks, Places(p) # {},
         subs' = DropSub(p, c), index' = RemoveListener(index, p, c)
  PROVE  IndexInv'
<1> DEFINE n == CHOOSE k \in Places(p) : TRUE
           rest == RemoveFirst(subs[n].listeners, c)
           others == DOMAIN index.listeners \ {p}
<1>0. /\ Len(subs) \in Nat /\ DOMAIN subs = 1..Len(subs) /\ p \in DOMAIN index.listeners
      /\ n \in 1..Len(subs) /\ subs[n].pattern = p
  BY DEF IndexInv, Places
<1>1. /\ subs' = IF rest = <<>> THEN RemoveAt(subs, n) ELSE [subs EXCEPT ![n].listeners = rest]
  BY DEF DropSub
<1>2. index.listeners[p] = subs[n].listeners
  BY <1>0 DEF IndexInv
<1>3. index' = IF rest # <<>> THEN [index EXCEPT !.listeners[p] = rest]
               ELSE [index EXCEPT !.listeners = Restrict(@, others), !.order = Restrict(@, others)]
  BY <1>0, <1>2 DEF RemoveListener
<1>4. rest \in Seq(Callbacks) /\ subs[n] = [pattern |-> p, listeners |-> subs[n].listeners]
  <2>1. subs[n] \in Subscriptions
    BY <1>0 DEF IndexInv
  <2> QED BY <1>0, <2>1, RemovedIs DEF Subscriptions
<1>5. index = [listeners |-> index.listeners, order |-> index.order, next |-> index.next]
  BY DEF IndexInv
<1>6. \A k \in 1..Len(subs) : subs[k].pattern = p <=> k = n
  BY <1>0, OnePlace
<1> HIDE DEF n, rest
<1>7. CASE rest # <<>>
  <2>1. /\ subs' = [subs EXCEPT ![n].listeners = rest] /\ index' = [index EXCEPT !.listeners[p] = rest]
    BY <1>1, <1>3, <1>7
  <2>2. subs' = [subs EXCEPT ![n] = [pattern |-> p, listeners |-> rest]]
    BY <1>0, <1>4, <2>1
  <2>3. /\ subs' \in Seq(Subscriptions) /\ Len(subs') = Len(subs)
        /\ \A k \in 1..Len(subs) : subs'[k] = IF k = n THEN [pattern |-> p, listeners |-> rest] ELSE subs[k]
    <3>1. [pattern |-> p, listeners |-> rest] \in Subscriptions
      BY <1>4 DEF Subscriptions
    <3> QED BY <1>0, <2>2, <3>1 DEF IndexInv
  <2>4. /\ index'.order = index.order /\ index'.next = index.next
        /\ index'.listeners = [index.listeners EXCEPT ![p] = rest]
        /\ index' = [listeners |-> index'.listeners, order |-> index'.order, next |-> index'.next]
    BY <1>5, <2>1
  <2>5. \A k \in 1..Len(subs) : subs'[k].pattern = subs[k].pattern
    BY <1>0, <2>3
  <2>6. {subs'[k].pattern : k \in 1..Len(subs')} = {subs[k].pattern : k \in 1..Len(subs)}
    BY <2>3, <2>5
  <2>7. \A k \in 1..Len(subs') : /\ index'.listeners[subs'[k].pattern] = subs'[k].listeners
                                 /\ subs'[k].listeners # <<>>
    <3> TAKE k \in 1..Len(subs')
    <3>1. k \in 1..Len(subs) /\ subs[k].pattern \in DOMAIN index.listeners
      BY <2>3 DEF IndexInv
    <3>2. index.listeners[subs[k].pattern] = subs[k].listeners /\ subs[k].listeners # <<>>
      BY <3>1 DEF IndexInv
    <3> QED BY <1>0, <1>6, <1>7, <2>3, <2>4, <3>1, <3>2
  <2>8. DOMAIN index'.listeners = DOMAIN index.listeners
    BY <2>4
  <2>9. /\ DOMAIN index'.order = DOMAIN index'.listeners
        /\ DOMAIN index'.listeners = {subs'[k].pattern : k \in 1..Len(subs')}
    BY <2>4, <2>6, <2>8 DEF IndexInv
  <2>10. \A m, k \in 1..Len(subs') : m < k => index'.order[subs'[m].pattern] < index'.order[subs'[k].pattern]
    <3> TAKE m, k \in 1..Len(subs')
    <3>1. m < k => index.order[subs[m].pattern] < index.order[subs[k].pattern]
      BY <2>3 DEF IndexInv
    <3>2. subs'[m].pattern = subs[m].pattern /\ subs'[k].pattern = subs[k].pattern
      BY <2>3, <2>5
    <3> QED BY <2>4, <3>1, <3>2, Zenon
  <2>11. /\ index'.next \in Nat
         /\ \A k \in 1..Len(subs') :
              index'.order[subs'[k].pattern] \in Nat /\ index'.order[subs'[k].pattern] < index'.next
    BY <2>3, <2>4, <2>5 DEF IndexInv
  <2>12. index'.listeners = [q \in DOMAIN index'.listeners |-> index'.listeners[q]]
    BY <2>4
  <2> QED BY <2>3, <2>4, <2>7, <2>9, <2>10, <2>11, <2>12 DEF IndexInv
<1>8. CASE rest = <<>>
  <2>1. /\ subs' = RemoveAt(subs, n)
        /\ index' = [index EXCEPT !.listeners = Restrict(@, others), !.order = Restrict(@, others)]
    BY <1>1, <1>3, <1>8
  <2> DEFINE was(k) == IF k < n THEN k ELSE k + 1
  <2>2. /\ subs' \in Seq(Subscriptions) /\ Len(subs') = Len(subs) - 1
        /\ \A k \in 1..Len(subs) - 1 : subs'[k] = subs[was(k)]
    <3>1. subs' = SubSeq(subs, 1, n - 1) \o SubSeq(subs, n + 1, Len(subs))
      BY <2>1 DEF RemoveAt
    <3>2. subs \in Seq(Subscriptions)
      BY DEF IndexInv
    <3>3. /\ SubSeq(subs, 1, n - 1) \in Seq(Subscriptions) /\ Len(SubSeq(subs, 1, n - 1)) = n - 1
          /\ \A k \in 1..n - 1 : SubSeq(subs, 1, n - 1)[k] = subs[k]
      BY <1>0, <3>2
    <3>4. /\ SubSeq(subs, n + 1, Len(subs)) \in Seq(Subscriptions)
          /\ Len(SubSeq(subs, n + 1, Len(subs))) = Len(subs) - n
          /\ \A k \in 1..Len(subs) - n : SubSeq(subs, n + 1, Len(subs))[k] = subs[n + k]
      BY <1>0, <3>2, BehindIs
    <3> DEFINE a == SubSeq(subs, 1, n - 1)
               b == SubSeq(subs, n + 1, Len(subs))
    <3> HIDE DEF a, b
    <3>5. /\ a \in Seq(Subscriptions) /\ b \in Seq(Subscriptions) /\ subs' = a \o b
          /\ Len(a) = n - 1 /\ Len(b) = Len(subs) - n
          /\ \A k \in 1..n - 1 : a[k] = subs[k]
          /\ \A k \in 1..Len(subs) - n : b[k] = subs[n + k]
      BY <3>1, <3>3, <3>4 DEF a, b
    <3>6. ASSUME NEW k \in 1..Len(subs) - 1 PROVE (a \o b)[k] = subs[was(k)]
      <4>1. CASE k < n
        BY <1>0, <3>5, <4>1
      <4>2. CASE ~ (k < n)
        <5>1. (a \o b)[k] = b[k - (n - 1)] /\ k - (n - 1) \in 1..Len(subs) - n /\ n + (k - (n - 1)) = k + 1
          BY <1>0, <3>5, <4>2
        <5> QED BY <3>5, <4>2, <5>1
      <4> QED BY <4>1, <4>2
    <3>7. a \o b \in Seq(Subscriptions) /\ Len(a \o b) = Len(subs) - 1
      <4>1. a \o b \in Seq(Subscriptions) /\ Len(a \o b) = Len(a) + Len(b)
        BY <3>5, ConcatProperties
      <4> QED BY <1>0, <3>5, <4>1
    <3> QED BY <3>5, <3>6, <3>7
  <2>3. /\ \A k \in 1..Len(subs') : was(k) \in 1..Len(subs) /\ was(k) # n
        /\ \A k, m \in 1..Len(subs') : k < m => was(k) < was(m)
    BY <1>0, <2>2
  <2>4. \A k \in 1..Len(subs) : k # n => \E m \in 1..Len(subs') : was(m) = k
    <3> SUFFICES ASSUME NEW k \in 1..Len(subs), k # n PROVE \E m \in 1..Len(subs') : was(m) = k
      OBVIOUS
    <3>1. CASE k < n
      <4>1. k \in 1..Len(subs') /\ was(k) = k
        BY <1>0, <2>2, <3>1
      <4> QED BY <4>1
    <3>2. CASE ~ (k < n)
      <4>1. k - 1 \in 1..Len(subs') /\ was(k - 1) = k
        BY <1>0, <2>2, <3>2
      <4> QED BY <4>1
    <3> QED BY <3>1, <3>2
  <2>5. \A k \in 1..Len(subs') : subs'[k] = subs[was(k)]
    BY <2>2
  <2> HIDE DEF was
  <2>6. /\ index'.next = index.next
        /\ index'.listeners = [q \in others |-> index.listeners[q]]
        /\ index'.order = [q \in others |-> index.order[q]]
        /\ index' = [listeners |-> index'.listeners, order |-> index'.order, next |-> index'.next]
    BY <1>5, <2>1 DEF Restrict
  <2>7. {subs'[k].pattern : k \in 1..Len(subs')} = others
    <3>1. ASSUME NEW k \in 1..Len(subs') PROVE subs'[k].pattern \in others
      BY <1>6, <2>3, <2>5 DEF IndexInv
    <3>2. ASSUME NEW q \in others PROVE \E k \in 1..Len(subs') : subs'[k].pattern = q
      <4>1. PICK k \in 1..Len(subs) : subs[k].pattern = q /\ k # n
        BY <1>0 DEF IndexInv
      <4> QED BY <2>4, <2>5, <4>1
    <3> QED BY <3>1, <3>2
  <2>8. \A k \in 1..Len(subs') : subs'[k].pattern \in others
    BY <2>7
  <2>9. \A k \in 1..Len(subs') : /\ index'.listeners[subs'[k].pattern] = index.listeners[subs[was(k)].pattern]
                                 /\ index'.order[subs'[k].pattern] = index.order[subs[was(k)].pattern]
    BY <2>5, <2>6, <2>8
  <2>10. DOMAIN index'.listeners = others /\ DOMAIN index'.order = others
    BY <2>6
  <2> HIDE DEF others
  <2>11. \A k \in 1..Len(subs') : /\ index'.listeners[subs'[k].pattern] = subs'[k].listeners
                                  /\ subs'[k].listeners # <<>>
    BY <2>3, <2>5, <2>9 DEF IndexInv
  <2>12. \A k, m \in 1..Len(subs') : k < m => index'.order[subs'[k].pattern] < index'.order[subs'[m].pattern]
    BY <2>3, <2>9 DEF IndexInv
  <2>13. \A k \in 1..Len(subs') :
           index'.order[subs'[k].pattern] \in Nat /\ index'.order[subs'[k].pattern] < index'.next
    BY <2>3, <2>6, <2>9 DEF IndexInv
  <2>14. index'.next \in Nat
    BY <2>6 DEF IndexInv
  <2>15. index'.listeners = [q \in DOMAIN index'.listeners |-> index'.listeners[q]]
    BY <2>6
  <2> QED BY <2>2, <2>6, <2>7, <2>10, <2>11, <2>12, <2>13, <2>14, <2>15 DEF IndexInv
<1> QED BY <1>7, <1>8

(* match sorts by the number: the order of a list of all the elements whose *)
(* numbers ascend.                                                         *)
LEMMA InOrderIs ==
  ASSUME NEW S, NEW order, NEW k \in Seq(S), \A x \in S : \E i \in 1..Len(k) : k[i] = x,
         \A x \in S : order[x] \in Nat,
         \A i, j \in 1..Len(k) : i < j => order[k[i]] < order[k[j]]
  PROVE  InOrderOf(S, order) = k
<1> DEFINE ordered(s) == ToSet(s) = S /\ \A i, j \in 1..Len(k) : i < j => order[s[i]] < order[s[j]]
<1>0. Len(k) \in Nat /\ DOMAIN k = 1..Len(k) /\ \A i \in 1..Len(k) : k[i] \in S /\ order[k[i]] \in Nat
  OBVIOUS
<1>1. k \in Bijection(1..Len(k), S)
  <2>1. k \in [1..Len(k) -> S]
    BY <1>0
  <2>2. \A i, j \in 1..Len(k) : k[i] = k[j] => i = j
    <3> SUFFICES ASSUME NEW i \in 1..Len(k), NEW j \in 1..Len(k), k[i] = k[j] PROVE i = j
      OBVIOUS
    <3>1. ~ (i < j) /\ ~ (j < i)
      BY <1>0
    <3> QED BY <1>0, <3>1
  <2> QED BY <2>1, <2>2 DEF Bijection, Injection, Surjection, IsInjective
<1>2. Cardinality(S) = Len(k)
  <2>1. IsFiniteSet(1..Len(k)) /\ Cardinality(1..Len(k)) = Len(k)
    <3>1. 1 \in Int /\ Len(k) \in Int /\ (IF 1 > Len(k) THEN 0 ELSE Len(k) - 1 + 1) = Len(k)
      BY <1>0
    <3> QED BY <3>1, FS_Interval
  <2>2. ExistsBijection(1..Len(k), S)
    BY <1>1 DEF ExistsBijection
  <2> QED BY <2>1, <2>2, FS_Bijection
<1>3. k \in [1..Len(k) -> S] /\ ordered(k)
  BY <1>0, <1>1 DEF ToSet, Bijection, Injection
<1> DEFINE s == CHOOSE h \in [1..Len(k) -> S] : ordered(h)
<1>4. s = InOrderOf(S, order)
  BY <1>2 DEF InOrderOf
<1>5. s \in [1..Len(k) -> S] /\ ordered(s)
  BY <1>3
<1> HIDE DEF s
<1> DEFINE Wrong == {i \in 1..Len(k) : s[i] # k[i]}
<1>6. Wrong = {}
  <2> SUFFICES ASSUME Wrong # {} PROVE FALSE
    OBVIOUS
  <2>1. PICK i \in Wrong : \A j \in Wrong : i <= j
    <3>1. Wrong \in SUBSET Nat
      BY <1>0
    <3> HIDE DEF Wrong
    <3> QED BY <3>1, LeastNat
  <2>2. \A j \in 1..Len(k) : j < i => s[j] = k[j]
    <3> SUFFICES ASSUME NEW j \in 1..Len(k), j < i PROVE s[j] = k[j]
      OBVIOUS
    <3>1. j \notin Wrong
      BY <1>0, <2>1
    <3> QED BY <3>1
  <2>3. i \in 1..Len(k) /\ s[i] \in S /\ k[i] \in S /\ s[i] # k[i]
    BY <1>3, <1>5, <2>1
  <2>4. PICK j \in 1..Len(k) : s[j] = k[i]
    <3>1. DOMAIN s = 1..Len(k) /\ k[i] \in ToSet(s)
      BY <1>5, <2>3
    <3> QED BY <3>1 DEF ToSet
  <2>5. PICK m \in 1..Len(k) : k[m] = s[i]
    BY <2>3
  <2>6. i < j
    <3>1. j < i => k[j] = k[i] /\ order[k[j]] < order[k[i]]
      BY <2>2, <2>3, <2>4
    <3>2. ~ (j < i) /\ j # i
      BY <1>0, <2>3, <2>4, <3>1
    <3> QED BY <2>3, <3>2
  <2>7. i < m
    <3>1. m < i => s[m] = s[i] /\ order[s[m]] < order[s[i]]
      BY <1>5, <2>2, <2>3, <2>5
    <3>2. ~ (m < i) /\ m # i
      BY <1>0, <2>3, <2>5, <3>1
    <3> QED BY <2>3, <3>2
  <2>8. order[s[i]] < order[s[j]] /\ order[k[i]] < order[k[m]]
    BY <1>5, <2>3, <2>6, <2>7
  <2>9. PICK a \in Nat, b \in Nat : a = order[s[i]] /\ b = order[k[i]]
    BY <2>3
  <2>10. a < b /\ b < a
    BY <2>4, <2>5, <2>8, <2>9
  <2> QED BY <2>10
<1>7. s = k
  BY <1>3, <1>5, <1>6
<1> QED BY <1>4, <1>7

\* The patterns of the subscriptions that the documented rule matches with a type.
Hits(type) == {p \in DOMAIN index.listeners : MatchesRule(p, type)}

(* match: it returns, in their order, what a scan of the whole table of    *)
(* subscriptions with the documented rule finds.                           *)
LEMMA MatchIs ==
  ASSUME IndexInv, NEW type \in Types
  PROVE  MatchIndex(index, type) = Scan(type) /\ Scan(type) \in Seq(Callbacks)
<1> DEFINE D == DOMAIN index.listeners
           f == index.listeners
           P == [n \in 1..Len(subs) |-> subs[n].pattern]
           k == Kept(P, Hits(type))
<1>0. /\ Len(subs) \in Nat /\ DOMAIN subs = 1..Len(subs) /\ D \subseteq Patterns
      /\ D = {subs[n].pattern : n \in 1..Len(subs)}
  <2>1. Len(subs) \in Nat /\ DOMAIN subs = 1..Len(subs) /\ \A n \in 1..Len(subs) : subs[n] \in Subscriptions
    BY DEF IndexInv
  <2>2. D = {subs[n].pattern : n \in 1..Len(subs)}
    BY DEF IndexInv
  <2>3. \A n \in 1..Len(subs) : subs[n].pattern \in Patterns
    BY <2>1 DEF Subscriptions
  <2> QED BY <2>1, <2>2, <2>3
<1>1. f \in [D -> Seq(Callbacks)]
  <2>1. ASSUME NEW p \in D PROVE f[p] \in Seq(Callbacks)
    <3>1. PICK n \in 1..Len(subs) : p = subs[n].pattern
      BY <1>0
    <3>2. f[p] = subs[n].listeners /\ subs[n] \in Subscriptions
      BY <3>1 DEF IndexInv
    <3> QED BY <3>2 DEF Subscriptions
  <2>2. f = [p \in D |-> f[p]]
    BY DEF IndexInv
  <2> QED BY <2>1, <2>2
<1>2. /\ P \in Seq(D) /\ Len(P) = Len(subs) /\ DOMAIN P = 1..Len(subs)
      /\ \A n \in 1..Len(subs) : P[n] = subs[n].pattern
  <2>1. P \in [1..Len(subs) -> D]
    BY <1>0
  <2> QED BY <1>0, <2>1
<1>3. {p \in D : Head(p) \in {Head(type), Star} /\ Matches(p, type)} = Hits(type)
  <2>1. ASSUME NEW p \in D
        PROVE  MatchesRule(p, type) <=> Head(p) \in {Head(type), Star} /\ Matches(p, type)
    <3>1. p \in Patterns
      BY <1>0
    <3> QED BY <3>1, MatchesAsDocumented, BucketsSuffice
  <2> QED BY <2>1 DEF Hits
<1> HIDE DEF P, f, k
<1>4. InOrderOf(Hits(type), index.order) = k
  <2>1. Filtered(D, P, Hits(type), Len(P), k) /\ Picked(P, Hits(type), Len(P), k)
    BY <1>2, KeptIs, KeptInOrder DEF k
  <2>2. k \in Seq(Hits(type)) /\ Len(k) \in Nat
    <3>1. k \in Seq(D) /\ \A i \in 1..Len(k) : k[i] \in Hits(type)
      BY <2>1 DEF Filtered
    <3> QED BY <3>1
  <2>3. \A x \in Hits(type) : \E i \in 1..Len(k) : k[i] = x
    <3> SUFFICES ASSUME NEW x \in Hits(type) PROVE \E i \in 1..Len(k) : k[i] = x
      OBVIOUS
    <3>1. PICK n \in 1..Len(subs) : P[n] = x
      BY <1>0, <1>2 DEF Hits
    <3> QED BY <1>2, <2>1, <3>1 DEF Filtered
  <2>4. \A x \in Hits(type) : index.order[x] \in Nat
    BY <1>0 DEF Hits, IndexInv
  <2>5. PICK g \in [1..Len(k) -> 1..Len(P)] :
           /\ \A i \in 1..Len(k) : k[i] = P[g[i]] /\ k[i] \in Hits(type)
           /\ \A i, j \in 1..Len(k) : i < j => g[i] < g[j]
    BY <2>1 DEF Picked
  <2>6. \A i, j \in 1..Len(k) : i < j => index.order[k[i]] < index.order[k[j]]
    <3> SUFFICES ASSUME NEW i \in 1..Len(k), NEW j \in 1..Len(k), i < j
                 PROVE  index.order[k[i]] < index.order[k[j]]
      OBVIOUS
    <3>1. g[i] \in 1..Len(subs) /\ g[j] \in 1..Len(subs) /\ g[i] < g[j]
      BY <1>2, <2>5
    <3>2. k[i] = subs[g[i]].pattern /\ k[j] = subs[g[j]].pattern
      BY <1>2, <2>5, <3>1
    <3> QED BY <3>1, <3>2 DEF IndexInv
  <2> QED BY <2>2, <2>3, <2>4, <2>6, InOrderIs
<1>5. MatchIndex(index, type) = Joined([n \in DOMAIN k |-> f[k[n]]])
  BY <1>3, <1>4, Zenon DEF MatchIndex, f
<1> DEFINE whole == [n \in DOMAIN P |-> IF P[n] \in Hits(type) THEN f[P[n]] ELSE <<>>]
<1>6. Joined([n \in DOMAIN k |-> f[k[n]]]) = Joined(whole)
  <2>1. Joined(Images(f, k)) = Joined(ImagesIf(f, P, Hits(type)))
    BY <1>1, <1>2, JoinedKept DEF k
  <2> QED BY <2>1, Zenon DEF Images, ImagesIf
<1>7. whole = [n \in DOMAIN subs |-> IF MatchesRule(subs[n].pattern, type) THEN subs[n].listeners ELSE <<>>]
  <2>1. ASSUME NEW n \in 1..Len(subs)
        PROVE  /\ P[n] \in Hits(type) <=> MatchesRule(subs[n].pattern, type)
               /\ f[P[n]] = subs[n].listeners
    BY <1>0, <1>2 DEF Hits, IndexInv, f
  <2> QED BY <1>0, <1>2, <2>1
<1>8. whole \in Seq(Seq(Callbacks))
  <2>1. ASSUME NEW n \in 1..Len(subs)
        PROVE  (IF P[n] \in Hits(type) THEN f[P[n]] ELSE <<>>) \in Seq(Callbacks)
    BY <1>1, <1>2
  <2>2. whole \in [1..Len(subs) -> Seq(Callbacks)]
    BY <1>2, <2>1
  <2> QED BY <1>0, <2>2
<1> HIDE DEF whole
<1>9. Joined(whole) \in Seq(Callbacks)
  BY <1>8, JoinedIs
<1>10. Scan(type) = Joined(whole)
  BY <1>7, Zenon DEF Scan
<1> QED BY <1>5, <1>6, <1>9, <1>10, Zenon

-----------------------------------------------------------------------------
(* The inductive invariant                                                 *)

\* The events that the tasks of q call c with, in their order.
TasksOf(c) == {t \in Tasks : t.cb = c}
EventsIn(q) == [k \in DOMAIN q |-> q[k].event]
EventsOf(q, c) == EventsIn(Kept(q, TasksOf(c)))

BusTypes ==
    /\ log \in Seq(Types)
    /\ ready \in Seq(Tasks) /\ waiting \subseteq Tasks /\ pending \subseteq Tasks /\ gathered \subseteq Tasks
    /\ due \in [Callbacks -> Seq(Nat)] /\ begun \in [Callbacks -> Seq(Nat)]
    /\ changes \in Nat /\ failures \in 0..MaxFailures
    /\ wait \in {"no", "gathering", "raised", "over", "cancelled"}

\* The history is the end of the log.
HistoryInv ==
    /\ history \in Seq([id : Nat, type : Types])
    /\ Len(history) = IF Len(log) < MaxHistory THEN Len(log) ELSE MaxHistory
    /\ \A i \in 1..Len(history) :
          /\ history[i].id = Len(log) - Len(history) + i
          /\ history[i].type = log[Len(log) - Len(history) + i]

\* What is dispatched and what was called with is in the log.
Logged(t) == t.event \in 1..Len(log) /\ log[t.event] = t.type
LoggedInv ==
    /\ \A t \in Alive : Logged(t)
    /\ \A c \in Callbacks : \A k \in 1..Len(begun[c]) : begun[c][k] \in 1..Len(log)

OrderInv == wait # "cancelled" => \A c \in Callbacks : begun[c] \o EventsOf(ready, c) = due[c]

BusInv == IndexInv /\ BusTypes /\ HistoryInv /\ LoggedInv /\ OrderInv /\ DispatchesTracked

\* A call of a callback with an ordinary event that has not ended may still fail.
OpenCalls == {t \in waiting : t.type # FailureType}
FailInv ==
    /\ IsFiniteSet(waiting) /\ IsFiniteSet(OrdinaryCalls)
    /\ Cardinality(FailureEvents) + Cardinality(OpenCalls) <= Cardinality(OrdinaryCalls)

-----------------------------------------------------------------------------
(* The events of a list of tasks                                           *)

LEMMA EventsInTyped ==
  ASSUME NEW k \in Seq(Tasks)
  PROVE  EventsIn(k) \in Seq(Nat) /\ Len(EventsIn(k)) = Len(k)
<1>1. Len(k) \in Nat /\ DOMAIN k = 1..Len(k) /\ \A i \in 1..Len(k) : k[i] \in Tasks
  OBVIOUS
<1>2. \A t \in Tasks : t.event \in Nat
  BY DEF Tasks
<1>3. EventsIn(k) \in [1..Len(k) -> Nat]
  BY <1>1, <1>2 DEF EventsIn
<1> QED BY <1>1, <1>3

LEMMA EventsTyped ==
  ASSUME NEW q \in Seq(Tasks), NEW c
  PROVE  /\ Kept(q, TasksOf(c)) \in Seq(Tasks) /\ EventsOf(q, c) \in Seq(Nat)
         /\ Len(EventsOf(q, c)) = Len(Kept(q, TasksOf(c)))
<1>1. PICK k \in Seq(Tasks) : k = Kept(q, TasksOf(c))
  BY KeptTyped
<1>2. EventsIn(k) \in Seq(Nat) /\ Len(EventsIn(k)) = Len(k)
  BY EventsInTyped
<1> QED BY <1>1, <1>2, Zenon DEF EventsOf

LEMMA EventsConcat ==
  ASSUME NEW q \in Seq(Tasks), NEW r \in Seq(Tasks), NEW c
  PROVE  EventsOf(q \o r, c) = EventsOf(q, c) \o EventsOf(r, c)
<1>1. Kept(q \o r, TasksOf(c)) = Kept(q, TasksOf(c)) \o Kept(r, TasksOf(c))
  BY KeptConcat
<1>2. PICK k \in Seq(Tasks), l \in Seq(Tasks) : k = Kept(q, TasksOf(c)) /\ l = Kept(r, TasksOf(c))
  BY KeptTyped
<1>3. EventsIn(k \o l) = EventsIn(k) \o EventsIn(l)
  <2>1. /\ k \o l \in Seq(Tasks) /\ Len(k \o l) = Len(k) + Len(l) /\ Len(k) \in Nat /\ Len(l) \in Nat
        /\ \A i \in 1..Len(k) + Len(l) : (k \o l)[i] = IF i <= Len(k) THEN k[i] ELSE l[i - Len(k)]
    BY ConcatProperties
  <2>2. /\ DOMAIN k = 1..Len(k) /\ DOMAIN l = 1..Len(l) /\ DOMAIN (k \o l) = 1..Len(k) + Len(l)
    BY <2>1
  <2>3. PICK a \in Seq(Nat), b \in Seq(Nat) : a = EventsIn(k) /\ b = EventsIn(l)
    BY EventsInTyped
  <2>4. /\ Len(a) = Len(k) /\ Len(b) = Len(l)
        /\ \A i \in 1..Len(k) : a[i] = k[i].event
        /\ \A i \in 1..Len(l) : b[i] = l[i].event
    <3>1. Len(a) = Len(k) /\ Len(b) = Len(l)
      BY <2>3, EventsInTyped
    <3> QED BY <2>2, <2>3, <3>1 DEF EventsIn
  <2>5. /\ EventsIn(k \o l) \in Seq(Nat) /\ Len(EventsIn(k \o l)) = Len(k) + Len(l)
        /\ \A i \in 1..Len(k) + Len(l) : EventsIn(k \o l)[i] = (k \o l)[i].event
    <3>1. EventsIn(k \o l) \in Seq(Nat) /\ Len(EventsIn(k \o l)) = Len(k) + Len(l)
      BY <2>1, EventsInTyped
    <3> QED BY <2>2, <3>1 DEF EventsIn
  <2>6. /\ a \o b \in Seq(Nat) /\ Len(a \o b) = Len(a) + Len(b)
        /\ \A i \in 1..Len(a) + Len(b) : (a \o b)[i] = IF i <= Len(a) THEN a[i] ELSE b[i - Len(a)]
    BY ConcatProperties
  <2>7. ASSUME NEW i \in 1..Len(k) + Len(l) PROVE EventsIn(k \o l)[i] = (a \o b)[i]
    <3>1. CASE i <= Len(k)
      <4>1. i \in 1..Len(k) /\ i <= Len(a) /\ i \in 1..Len(a) + Len(b)
        BY <2>1, <2>4, <3>1
      <4>2. (k \o l)[i] = k[i] /\ (a \o b)[i] = a[i]
        BY <2>1, <2>6, <3>1, <4>1
      <4> QED BY <2>4, <2>5, <4>1, <4>2
    <3>2. CASE ~ (i <= Len(k))
      <4>1. i - Len(k) \in 1..Len(l)
        BY <2>1, <3>2
      <4> QED BY <2>1, <2>4, <2>5, <2>6, <3>2, <4>1
    <3> QED BY <3>1, <3>2
  <2>8. PICK e \in Seq(Nat), h \in Seq(Nat) : e = EventsIn(k \o l) /\ h = a \o b
    BY <2>5, <2>6
  <2>9. Len(e) = Len(h) /\ \A i \in 1..Len(e) : e[i] = h[i]
    BY <2>4, <2>5, <2>6, <2>7, <2>8
  <2>10. e = h
    BY <2>9, SeqEqual
  <2> QED BY <2>3, <2>8, <2>10, Zenon
<1> QED BY <1>1, <1>2, <1>3, Zenon DEF EventsOf

LEMMA EventsOfOne ==
  ASSUME NEW t \in Tasks, NEW c
  PROVE  EventsOf(<<t>>, c) = IF t.cb = c THEN <<t.event>> ELSE <<>>
<1>1. Kept(Append(<<>>, t), TasksOf(c)) =
        IF t \in TasksOf(c) THEN Append(Kept(<<>>, TasksOf(c)), t) ELSE Kept(<<>>, TasksOf(c))
  <2>0. <<>> \in Seq(Tasks)
    OBVIOUS
  <2>1. PICK e \in Seq(Tasks) : e = <<>>
    BY <2>0, Zenon
  <2>2. Kept(Append(e, t), TasksOf(c)) =
          IF t \in TasksOf(c) THEN Append(Kept(e, TasksOf(c)), t) ELSE Kept(e, TasksOf(c))
    BY KeptOfMore
  <2> QED BY <2>1, <2>2, Zenon
<1>2. Append(<<>>, t) = <<t>> /\ Kept(<<>>, TasksOf(c)) = <<>>
  BY KeptOfNone
<1>3. Kept(<<t>>, TasksOf(c)) = IF t.cb = c THEN <<t>> ELSE <<>>
  BY <1>1, <1>2 DEF TasksOf
<1>4. EventsIn(<<t>>) = <<t.event>> /\ EventsIn(<<>>) = <<>>
  BY DEF EventsIn
<1> QED BY <1>3, <1>4, Zenon DEF EventsOf

LEMMA EventsOfNone == \A c : EventsOf(<<>>, c) = <<>>
BY KeptOfNone DEF EventsOf, EventsIn

(* The first task of the ready queue.                                      *)
LEMMA EventsHead ==
  ASSUME NEW q \in Seq(Tasks), q # <<>>, NEW c
  PROVE  EventsOf(q, c) = (IF Head(q).cb = c THEN <<Head(q).event>> ELSE <<>>) \o EventsOf(Tail(q), c)
<1>0. Head(q) \in Tasks /\ Tail(q) \in Seq(Tasks)
  OBVIOUS
<1>1. PICK t \in Tasks, r \in Seq(Tasks) : t = Head(q) /\ r = Tail(q)
  BY <1>0, Zenon
<1>2. q = <<t>> \o r
  BY <1>1
<1>3. PICK o \in Seq(Tasks) : o = <<t>>
  <2>1. <<t>> \in Seq(Tasks)
    OBVIOUS
  <2> QED BY <2>1, Zenon
<1>4. EventsOf(o \o r, c) = EventsOf(o, c) \o EventsOf(r, c)
  BY EventsConcat
<1> QED BY <1>1, <1>2, <1>3, <1>4, EventsOfOne, Zenon

(* A list of tasks that are all for one callback.                          *)
LEMMA EventsOfAll ==
  ASSUME NEW q \in Seq(Tasks), NEW d, \A i \in 1..Len(q) : q[i].cb = d, NEW c
  PROVE  EventsOf(q, c) = IF c = d THEN EventsIn(q) ELSE <<>>
<1>1. CASE c = d
  <2>1. \A i \in 1..Len(q) : q[i] \in TasksOf(c)
    BY <1>1 DEF TasksOf
  <2>2. Kept(q, TasksOf(c)) = q
    BY <2>1, KeptAll
  <2> QED BY <1>1, <2>2, Zenon DEF EventsOf
<1>2. CASE c # d
  <2>1. \A i \in 1..Len(q) : q[i] \notin TasksOf(c)
    BY <1>2 DEF TasksOf
  <2>2. Kept(q, TasksOf(c)) = <<>>
    BY <2>1, KeptNothing
  <2>3. EventsIn(<<>>) = <<>>
    BY DEF EventsIn
  <2> QED BY <1>2, <2>2, <2>3, Zenon DEF EventsOf
<1> QED BY <1>1, <1>2

(* What is in two lists, one after the other.                              *)
LEMMA BothAre ==
  ASSUME NEW T, NEW q \in Seq(T), NEW r \in Seq(T)
  PROVE  q \o r \in Seq(T) /\ \A t \in ToSet(q \o r) : t \in ToSet(q) \/ t \in ToSet(r)
<1>1. /\ q \o r \in Seq(T) /\ Len(q \o r) = Len(q) + Len(r)
      /\ \A i \in 1..Len(q) + Len(r) : (q \o r)[i] = IF i <= Len(q) THEN q[i] ELSE r[i - Len(q)]
  BY ConcatProperties
<1> SUFFICES ASSUME NEW t \in ToSet(q \o r) PROVE t \in ToSet(q) \/ t \in ToSet(r)
  BY <1>1
<1>2. PICK i \in 1..Len(q) + Len(r) : t = (q \o r)[i]
  BY <1>1 DEF ToSet
<1>3. Len(q) \in Nat /\ Len(r) \in Nat /\ DOMAIN q = 1..Len(q) /\ DOMAIN r = 1..Len(r)
  OBVIOUS
<1>4. CASE i <= Len(q)
  <2>1. i \in DOMAIN q /\ t = q[i]
    BY <1>1, <1>2, <1>3, <1>4
  <2> QED BY <2>1 DEF ToSet
<1>5. CASE ~ (i <= Len(q))
  <2>1. i - Len(q) \in DOMAIN r /\ t = r[i - Len(q)]
    BY <1>1, <1>2, <1>3, <1>5
  <2> QED BY <2>1 DEF ToSet
<1> QED BY <1>4, <1>5

-----------------------------------------------------------------------------
(* publish                                                                 *)

(* The history after an event: it stays the end of the log.                *)
LEMMA RememberKeeps ==
  ASSUME HistoryInv, log \in Seq(Types), NEW type \in Types, log' = Append(log, type),
         Remember([id |-> Len(log) + 1, type |-> type])
  PROVE  HistoryInv'
<1> DEFINE Event == [id : Nat, type : Types]
           event == [id |-> Len(log) + 1, type |-> type]
           L == Len(log)
           H == Len(history)
<1>0. /\ MaxHistory \in Nat /\ MaxHistory # 0 /\ L \in Nat /\ H \in Nat /\ history \in Seq(Event)
      /\ H = IF L < MaxHistory THEN L ELSE MaxHistory
      /\ \A i \in 1..H : /\ history[i].id = (L - H) + i
                         /\ history[i].type = log[(L - H) + i]
  <2>1. MaxHistory \in Nat /\ MaxHistory # 0
    BY BusAssumption
  <2>2. history \in Seq(Event)
    BY DEF HistoryInv
  <2>3. L \in Nat /\ H \in Nat
    BY <2>2
  <2>4. /\ H = IF L < MaxHistory THEN L ELSE MaxHistory
        /\ \A i \in 1..H : /\ history[i].id = (L - H) + i
                           /\ history[i].type = log[(L - H) + i]
    BY Zenon DEF HistoryInv
  <2> QED BY <2>1, <2>2, <2>3, <2>4
<1>1. event \in Event /\ event.id = L + 1 /\ event.type = type
  BY <1>0
<1>2. history' = IF H < MaxHistory THEN Append(history, event) ELSE Append(Tail(history), event)
  BY DEF Remember
<1>3. /\ Len(log') = L + 1 /\ log'[L + 1] = type /\ \A i \in 1..L : log'[i] = log[i]
  OBVIOUS
<1> HIDE DEF Event, event
<1>4. CASE H < MaxHistory
  <2>1. history' = Append(history, event) /\ H = L
    BY <1>0, <1>2, <1>4
  <2>2. /\ history' \in Seq(Event) /\ Len(history') = H + 1 /\ history'[H + 1] = event
        /\ \A i \in 1..H : history'[i] = history[i]
    BY <1>0, <1>1, <2>1
  <2>3. Len(history') = IF L + 1 < MaxHistory THEN L + 1 ELSE MaxHistory
    BY <1>0, <1>4, <2>1, <2>2
  <2>4. ASSUME NEW i \in 1..H + 1
        PROVE  history'[i].id = i /\ history'[i].type = log'[i]
    <3>1. CASE i \in 1..H
      <4>1. (L - H) + i = i
        BY <1>0, <2>1
      <4> QED BY <1>0, <1>3, <2>1, <2>2, <3>1, <4>1
    <3>2. CASE i = H + 1
      BY <1>1, <1>3, <2>1, <2>2, <3>2
    <3> QED BY <1>0, <3>1, <3>2
  <2>5. \A i \in 1..Len(history') : (L + 1) - Len(history') + i = i
    BY <1>0, <2>1, <2>2
  <2> QED BY <1>3, <2>2, <2>3, <2>4, <2>5 DEF HistoryInv, Event
<1>5. CASE ~ (H < MaxHistory)
  <2>1. history' = Append(Tail(history), event) /\ H = MaxHistory /\ H # 0 /\ L >= H
    BY <1>0, <1>2, <1>5
  <2>2. /\ Tail(history) \in Seq(Event) /\ Len(Tail(history)) = H - 1
        /\ \A i \in 1..H - 1 : Tail(history)[i] = history[i + 1]
    BY <1>0, <2>1
  <2> DEFINE rest == Tail(history)
  <2> HIDE DEF rest
  <2>3. /\ rest \in Seq(Event) /\ Len(rest) = H - 1 /\ history' = Append(rest, event)
        /\ \A i \in 1..H - 1 : rest[i] = history[i + 1]
    BY <2>1, <2>2 DEF rest
  <2>4. /\ history' \in Seq(Event) /\ Len(history') = H /\ history'[H] = event
        /\ \A i \in 1..H - 1 : history'[i] = history[i + 1]
    <3>1. /\ history' \in Seq(Event) /\ Len(history') = Len(rest) + 1 /\ history'[Len(rest) + 1] = event
          /\ \A i \in 1..Len(rest) : history'[i] = rest[i]
      BY <1>1, <2>3
    <3>2. (H - 1) + 1 = H
      BY <1>0
    <3> QED BY <2>3, <3>1, <3>2
  <2>5. H = IF L + 1 < MaxHistory THEN L + 1 ELSE MaxHistory
    BY <1>0, <2>1
  <2>6. ASSUME NEW i \in 1..H
        PROVE  /\ history'[i].id = (L + 1) - H + i
               /\ history'[i].type = log'[(L + 1) - H + i]
    <3>1. CASE i \in 1..H - 1
      <4>1. /\ i + 1 \in 1..H /\ (L - H) + (i + 1) = (L + 1) - H + i /\ (L - H) + (i + 1) \in 1..L
        <5> HIDE DEF L, H
        <5> QED BY <1>0, <2>1, <3>1
      <4> QED BY <1>0, <1>3, <2>4, <3>1, <4>1
    <3>2. CASE i = H
      <4>1. (L + 1) - H + i = L + 1
        BY <1>0, <3>2
      <4> QED BY <1>1, <1>3, <2>4, <3>2, <4>1
    <3>3. i \in 1..H - 1 \/ i = H
      <4> HIDE DEF L, H
      <4> QED BY <1>0
    <3> QED BY <3>1, <3>2, <3>3
  <2> QED BY <1>3, <2>4, <2>5, <2>6 DEF HistoryInv, Event
<1> QED BY <1>4, <1>5

(* The tasks of an event: one for each listener that matched.              *)
PublishTasks(n, type, targets) == [k \in DOMAIN targets |-> Task(n, type, targets[k], "publish", k)]
Times(k, n) == [i \in DOMAIN k |-> n]

LEMMA NewTasks ==
  ASSUME NEW type \in Types, NEW n \in Nat, NEW targets \in Seq(Callbacks), NEW new,
         new = PublishTasks(n, type, targets)
  PROVE  /\ new \in Seq(Tasks)
         /\ \A t \in ToSet(new) : t.event = n /\ t.type = type
         /\ \A c : EventsOf(new, c) = Times(Kept(targets, {c}), n)
<1>1. /\ Len(targets) \in Nat /\ DOMAIN targets = 1..Len(targets)
      /\ \A k \in 1..Len(targets) : targets[k] \in Callbacks
  OBVIOUS
<1>2. \A k \in 1..Len(targets) :
         /\ new[k] \in Tasks /\ new[k].event = n /\ new[k].type = type /\ new[k].cb = targets[k]
  BY <1>1 DEF PublishTasks, Task, Tasks
<1>3. new \in Seq(Tasks) /\ Len(new) = Len(targets) /\ DOMAIN new = 1..Len(targets)
  <2>1. new \in [1..Len(targets) -> Tasks]
    BY <1>1, <1>2 DEF PublishTasks
  <2> QED BY <1>1, <2>1
<1>4. ASSUME NEW c PROVE EventsOf(new, c) = Times(Kept(targets, {c}), n)
  <2>1. \A i \in 1..Len(new) : new[i] \in TasksOf(c) <=> targets[i] \in {c}
    BY <1>2, <1>3 DEF TasksOf
  <2>2. PICK k \in Seq(Tasks), l \in Seq(Callbacks) : k = Kept(new, TasksOf(c)) /\ l = Kept(targets, {c})
    <3>1. Kept(new, TasksOf(c)) \in Seq(Tasks) /\ Kept(targets, {c}) \in Seq(Callbacks)
      BY <1>3, KeptTyped
    <3> QED BY <3>1, Zenon
  <2>3. Alike(new, TasksOf(c), targets, {c}, Len(new), k, l)
    <3>1. Alike(new, TasksOf(c), targets, {c}, Len(new), Kept(new, TasksOf(c)), Kept(targets, {c}))
      BY <1>3, <2>1, KeptAlike
    <3> QED BY <2>2, <3>1, Zenon
  <2>4. DOMAIN k = DOMAIN l /\ \A i \in DOMAIN k : k[i].event = n
    <3>1. DOMAIN k = 1..Len(k) /\ DOMAIN l = 1..Len(l)
      OBVIOUS
    <3> QED BY <1>2, <1>3, <2>3, <3>1 DEF Alike
  <2>5. EventsIn(k) = Times(l, n)
    BY <2>4 DEF EventsIn, Times
  <2> QED BY <2>2, <2>5, Zenon DEF EventsOf
<1>5. \A t \in ToSet(new) : t.event = n /\ t.type = type
  BY <1>2, <1>3 DEF ToSet
<1> QED BY <1>3, <1>4, <1>5

(* What an event adds: to the log and the history, to the tasks that are   *)
(* ready and, for each callback, the same events to what it is due.        *)
LEMMA EmitIs ==
  ASSUME IndexInv, BusTypes, HistoryInv, NEW type \in Types, NEW queue \in Seq(Tasks), Emit(type, queue)
  PROVE  /\ log' \in Seq(Types) /\ Len(log') = Len(log) + 1 /\ log'[Len(log) + 1] = type
         /\ \A i \in 1..Len(log) : log'[i] = log[i]
         /\ HistoryInv'
         /\ ready' \in Seq(Tasks) /\ pending' \subseteq Tasks /\ due' \in [Callbacks -> Seq(Nat)]
         /\ pending \cap Alive \subseteq pending'
         /\ \A t \in ToSet(ready') : \/ t \in ToSet(queue)
                                     \/ t \in pending' /\ t.event = Len(log) + 1 /\ t.type = type
         /\ \A c \in Callbacks : \E x \in Seq(Nat) :
               EventsOf(ready', c) = EventsOf(queue, c) \o x /\ due'[c] = due[c] \o x
<1> DEFINE n == Len(log) + 1
           targets == MatchIndex(index, type)
           new == PublishTasks(n, type, targets)
           more(c) == Times(Kept(targets, {c}), n)
<1>1. log \in Seq(Types) /\ n \in Nat /\ pending \subseteq Tasks /\ due \in [Callbacks -> Seq(Nat)]
  BY DEF BusTypes
<1>2. targets \in Seq(Callbacks) /\ targets = Scan(type)
  BY MatchIs
<1>3. /\ Remember([id |-> n, type |-> type])
      /\ pending' = (pending \cap Alive) \cup ToSet(new)
      /\ ready' = queue \o new
      /\ log' = Append(log, type)
      /\ due' = [c \in Callbacks |-> due[c] \o [k \in DOMAIN Kept(Scan(type), {c}) |-> n]]
  BY DEF Emit, Track, PublishTasks
<1>4. HistoryInv'
  BY <1>1, <1>3, RememberKeeps
<1>5. log' \in Seq(Types) /\ Len(log') = n /\ log'[n] = type /\ \A i \in 1..Len(log) : log'[i] = log[i]
  BY <1>1, <1>3
<1> HIDE DEF targets, n
<1>6. /\ new \in Seq(Tasks)
      /\ \A t \in ToSet(new) : t.event = n /\ t.type = type
      /\ \A c : EventsOf(new, c) = more(c)
  BY <1>1, <1>2, NewTasks
<1>7. due' = [c \in Callbacks |-> due[c] \o more(c)]
  BY <1>2, <1>3, Zenon DEF Times
<1> HIDE DEF new
<1>8. \A c : more(c) \in Seq(Nat)
  <2> SUFFICES ASSUME NEW c PROVE more(c) \in Seq(Nat)
    OBVIOUS
  <2>1. EventsOf(new, c) \in Seq(Nat)
    BY <1>6, EventsTyped
  <2> QED BY <1>6, <2>1, Zenon
<1> HIDE DEF more
<1>9. ready' \in Seq(Tasks) /\ \A t \in ToSet(ready') : t \in ToSet(queue) \/ t \in ToSet(new)
  BY <1>3, <1>6, BothAre
<1>10. pending' \subseteq Tasks /\ pending \cap Alive \subseteq pending'
  <2>1. ToSet(new) \subseteq Tasks
    <3>1. DOMAIN new = 1..Len(new) /\ \A i \in 1..Len(new) : new[i] \in Tasks
      BY <1>6
    <3> QED BY <3>1 DEF ToSet
  <2> QED BY <1>1, <1>3, <2>1
<1>11. \A t \in ToSet(ready') : \/ t \in ToSet(queue)
                                \/ t \in pending' /\ t.event = n /\ t.type = type
  BY <1>3, <1>6, <1>9
<1>12. due' \in [Callbacks -> Seq(Nat)]
  <2>1. ASSUME NEW c \in Callbacks PROVE due[c] \o more(c) \in Seq(Nat)
    <3>1. due[c] \in Seq(Nat) /\ more(c) \in Seq(Nat)
      BY <1>1, <1>8
    <3> QED BY <3>1
  <2> QED BY <1>7, <2>1
<1>13. ASSUME NEW c \in Callbacks
       PROVE  \E x \in Seq(Nat) : EventsOf(ready', c) = EventsOf(queue, c) \o x /\ due'[c] = due[c] \o x
  <2>1. EventsOf(queue \o new, c) = EventsOf(queue, c) \o EventsOf(new, c)
    BY <1>6, EventsConcat
  <2>2. due'[c] = due[c] \o more(c)
    BY <1>7, Zenon
  <2> QED BY <1>3, <1>6, <1>8, <2>1, <2>2, Zenon
<1> QED BY <1>4, <1>5, <1>9, <1>10, <1>11, <1>12, <1>13 DEF n

\* What a callback's end does to the bus: nothing, or the publication of an event.
Outcome(queue) ==
    \/ \E type \in Types : Emit(type, queue)
    \/ ready' = queue /\ UNCHANGED <<pubVars, due>>

LEMMA OutcomeIs ==
  ASSUME IndexInv, BusTypes, HistoryInv, NEW queue \in Seq(Tasks), Outcome(queue)
  PROVE  /\ log' \in Seq(Types) /\ Len(log) <= Len(log') /\ \A i \in 1..Len(log) : log'[i] = log[i]
         /\ HistoryInv'
         /\ ready' \in Seq(Tasks) /\ pending' \subseteq Tasks /\ due' \in [Callbacks -> Seq(Nat)]
         /\ pending \cap Alive \subseteq pending'
         /\ \A t \in ToSet(ready') :
               \/ t \in ToSet(queue)
               \/ t \in pending' /\ t.event \in 1..Len(log') /\ log'[t.event] = t.type
         /\ \A c \in Callbacks : \E x \in Seq(Nat) :
               EventsOf(ready', c) = EventsOf(queue, c) \o x /\ due'[c] = due[c] \o x
<1>1. ASSUME NEW type \in Types, Emit(type, queue)
      PROVE  /\ log' \in Seq(Types) /\ Len(log) <= Len(log') /\ \A i \in 1..Len(log) : log'[i] = log[i]
             /\ HistoryInv'
             /\ ready' \in Seq(Tasks) /\ pending' \subseteq Tasks /\ due' \in [Callbacks -> Seq(Nat)]
             /\ pending \cap Alive \subseteq pending'
             /\ \A t \in ToSet(ready') :
                   \/ t \in ToSet(queue)
                   \/ t \in pending' /\ t.event \in 1..Len(log') /\ log'[t.event] = t.type
             /\ \A c \in Callbacks : \E x \in Seq(Nat) :
                   EventsOf(ready', c) = EventsOf(queue, c) \o x /\ due'[c] = due[c] \o x
  <2>1. /\ log' \in Seq(Types) /\ Len(log') = Len(log) + 1 /\ log'[Len(log) + 1] = type
        /\ \A i \in 1..Len(log) : log'[i] = log[i]
        /\ HistoryInv'
        /\ ready' \in Seq(Tasks) /\ pending' \subseteq Tasks /\ due' \in [Callbacks -> Seq(Nat)]
        /\ pending \cap Alive \subseteq pending'
        /\ \A t \in ToSet(ready') : \/ t \in ToSet(queue)
                                    \/ t \in pending' /\ t.event = Len(log) + 1 /\ t.type = type
        /\ \A c \in Callbacks : \E x \in Seq(Nat) :
              EventsOf(ready', c) = EventsOf(queue, c) \o x /\ due'[c] = due[c] \o x
    BY <1>1, EmitIs
  <2>2. Len(log) \in Nat /\ Len(log) <= Len(log') /\ Len(log) + 1 \in 1..Len(log')
    <3>1. Len(log) \in Nat
      BY DEF BusTypes
    <3> QED BY <2>1, <3>1
  <2> QED BY <2>1, <2>2
<1>2. ASSUME ready' = queue, UNCHANGED <<pubVars, due>>
      PROVE  /\ log' \in Seq(Types) /\ Len(log) <= Len(log') /\ \A i \in 1..Len(log) : log'[i] = log[i]
             /\ HistoryInv'
             /\ ready' \in Seq(Tasks) /\ pending' \subseteq Tasks /\ due' \in [Callbacks -> Seq(Nat)]
             /\ pending \cap Alive \subseteq pending'
             /\ \A t \in ToSet(ready') :
                   \/ t \in ToSet(queue)
                   \/ t \in pending' /\ t.event \in 1..Len(log') /\ log'[t.event] = t.type
             /\ \A c \in Callbacks : \E x \in Seq(Nat) :
                   EventsOf(ready', c) = EventsOf(queue, c) \o x /\ due'[c] = due[c] \o x
  <2>1. log' = log /\ history' = history /\ pending' = pending /\ due' = due
    BY <1>2 DEF pubVars
  <2>2. /\ log \in Seq(Types) /\ Len(log) \in Nat /\ Len(log) <= Len(log)
        /\ pending \subseteq Tasks /\ due \in [Callbacks -> Seq(Nat)]
    BY DEF BusTypes
  <2>3. HistoryInv'
    BY <2>1 DEF HistoryInv
  <2>4. ASSUME NEW c \in Callbacks
        PROVE  \E x \in Seq(Nat) :
                  EventsOf(ready', c) = EventsOf(queue, c) \o x /\ due'[c] = due[c] \o x
    <3>1. PICK a \in Seq(Nat), b \in Seq(Nat) : a = EventsOf(queue, c) /\ b = due[c]
      <4>1. EventsOf(queue, c) \in Seq(Nat) /\ due[c] \in Seq(Nat)
        BY <2>2, EventsTyped
      <4> QED BY <4>1, Zenon
    <3>2. a \o <<>> = a /\ b \o <<>> = b /\ <<>> \in Seq(Nat)
      OBVIOUS
    <3> QED BY <1>2, <2>1, <3>1, <3>2, Zenon
  <2> QED BY <1>2, <2>1, <2>2, <2>3, <2>4
<1> QED BY <1>1, <1>2 DEF Outcome

-----------------------------------------------------------------------------
(* subscribe_with_replay                                                   *)

(* get_history: the last events of the log, at most limit of them and at   *)
(* most as many as the history keeps.                                      *)
LEMMA RecentIs ==
  ASSUME HistoryInv, log \in Seq(Types), NEW limit \in 1..MaxHistory
  PROVE  \E r \in 0..Len(log) :
            /\ GetHistory(limit) \in Seq([id : Nat, type : Types]) /\ Len(GetHistory(limit)) = r
            /\ \A i \in 1..r : /\ GetHistory(limit)[i] \in ToSet(history)
                               /\ GetHistory(limit)[i].id = Len(log) - r + i
                               /\ GetHistory(limit)[i].type = log[Len(log) - r + i]
            /\ r = limit \/ (r <= limit /\ r = Len(history) /\ (r = Len(log) \/ r = MaxHistory))
<1> DEFINE Event == [id : Nat, type : Types]
           L == Len(log)
           H == Len(history)
<1>0. /\ MaxHistory \in Nat /\ L \in Nat /\ H \in Nat /\ history \in Seq(Event) /\ DOMAIN history = 1..H
      /\ H = IF L < MaxHistory THEN L ELSE MaxHistory
      /\ \A i \in 1..H : /\ history[i].id = (L - H) + i
                         /\ history[i].type = log[(L - H) + i]
  <2>1. MaxHistory \in Nat
    BY BusAssumption
  <2>2. history \in Seq(Event)
    BY DEF HistoryInv
  <2>3. L \in Nat /\ H \in Nat /\ DOMAIN history = 1..H
    BY <2>2
  <2>4. /\ H = IF L < MaxHistory THEN L ELSE MaxHistory
        /\ \A i \in 1..H : /\ history[i].id = (L - H) + i
                           /\ history[i].type = log[(L - H) + i]
    BY Zenon DEF HistoryInv
  <2> QED BY <2>1, <2>2, <2>3, <2>4
<1>1. \A i \in 1..H : history[i] \in ToSet(history)
  BY <1>0 DEF ToSet
<1> HIDE DEF Event
<1>2. CASE limit >= H
  <2>1. GetHistory(limit) = history
    BY <1>2 DEF GetHistory
  <2>2. H \in 0..L /\ (H = L \/ H = MaxHistory) /\ H <= limit
    <3> HIDE DEF H, L
    <3> QED BY <1>0, <1>2
  <2>3. /\ GetHistory(limit) \in Seq(Event) /\ Len(GetHistory(limit)) = H
        /\ \A i \in 1..H : /\ GetHistory(limit)[i] \in ToSet(history)
                           /\ GetHistory(limit)[i].id = (L - H) + i
                           /\ GetHistory(limit)[i].type = log[(L - H) + i]
    BY <1>0, <1>1, <2>1
  <2> QED BY <2>2, <2>3 DEF Event
<1>3. CASE ~ (limit >= H)
  <2> DEFINE m == H - limit
  <2>1. m \in 1..H /\ H - m = limit /\ limit \in 0..L /\ m + 1 = H - limit + 1
    <3> HIDE DEF H, L
    <3> QED BY <1>0, <1>3
  <2>2. GetHistory(limit) = SubSeq(history, m + 1, H)
    BY <1>3 DEF GetHistory
  <2> HIDE DEF m
  <2>3. /\ SubSeq(history, m + 1, H) \in Seq(Event) /\ Len(SubSeq(history, m + 1, H)) = H - m
        /\ \A k \in 1..H - m : SubSeq(history, m + 1, H)[k] = history[m + k]
    BY <1>0, <2>1, BehindIs
  <2>4. \A i \in 1..limit : m + i \in 1..H /\ (L - H) + (m + i) = (L - limit) + i
    <3> HIDE DEF H, L
    <3> QED BY <1>0, <2>1
  <2>5. /\ GetHistory(limit) \in Seq(Event) /\ Len(GetHistory(limit)) = limit
        /\ \A i \in 1..limit : GetHistory(limit)[i] = history[m + i]
    BY <2>1, <2>2, <2>3
  <2>6. \A i \in 1..limit : /\ GetHistory(limit)[i] \in ToSet(history)
                            /\ GetHistory(limit)[i].id = (L - limit) + i
                            /\ GetHistory(limit)[i].type = log[(L - limit) + i]
    BY <1>0, <1>1, <2>4, <2>5
  <2> QED BY <2>1, <2>5, <2>6 DEF Event
<1> QED BY <1>2, <1>3

\* What the replay of limit events to a new subscription takes from the history, and the
\* events that it is to reach.
Replayed(p, limit) == Kept(GetHistory(limit), {e \in ToSet(history) : Matches(p, e.type)})
Reach(limit) == IF limit < MaxHistory THEN limit ELSE MaxHistory
Recent(p, limit) ==
    Kept([n \in DOMAIN log |-> n],
         {n \in DOMAIN log : n + Reach(limit) > Len(log) /\ MatchesRule(p, log[n])})
ReplayTasks(matching, c, nr) ==
    [k \in DOMAIN matching |-> Task(matching[k].id, matching[k].type, c, "replay", nr)]

(* The replay: the tasks are for the events that it reaches, as published. *)
LEMMA ReplayIs ==
  ASSUME BusTypes, HistoryInv, NEW p \in Patterns, NEW c \in Callbacks, NEW limit \in 1..MaxHistory,
         NEW new, new = ReplayTasks(Replayed(p, limit), c, changes),
         NEW recent, recent = Recent(p, limit)
  PROVE  /\ new \in Seq(Tasks) /\ recent \in Seq(Nat)
         /\ \A t \in ToSet(new) : t.by = "replay" /\ t.event \in 1..Len(log) /\ log[t.event] = t.type
         /\ \A d : EventsOf(new, d) = IF d = c THEN recent ELSE <<>>
<1> DEFINE Event == [id : Nat, type : Types]
           L == Len(log)
           reach == Reach(limit)
           matching == Replayed(p, limit)
           gh == GetHistory(limit)
           V == {e \in ToSet(history) : Matches(p, e.type)}
           S == {n \in DOMAIN log : n + reach > Len(log) /\ MatchesRule(p, log[n])}
           all == [n \in DOMAIN log |-> n]
<1>0. log \in Seq(Types) /\ L \in Nat /\ MaxHistory \in Nat /\ DOMAIN log = 1..L /\ limit \in Nat /\ changes \in Nat
  BY BusAssumption DEF BusTypes
<1>1. PICK r \in 0..L :
         /\ gh \in Seq(Event) /\ Len(gh) = r
         /\ \A i \in 1..r : /\ gh[i] \in ToSet(history) /\ gh[i].id = L - r + i
                            /\ gh[i].type = log[L - r + i]
         /\ r = limit \/ (r <= limit /\ r = Len(history) /\ (r = L \/ r = MaxHistory))
  BY <1>0, RecentIs
<1>2. /\ matching = Kept(gh, V) /\ recent = Kept(all, S) /\ new = ReplayTasks(matching, c, changes)
      /\ reach = IF limit < MaxHistory THEN limit ELSE MaxHistory
  BY DEF Replayed, Recent, Reach
<1>3. \A n \in 1..L : n \in S <=> n + reach > L /\ MatchesRule(p, log[n])
  BY <1>0
<1>4. \A i \in 1..r : gh[i] \in V <=> Matches(p, log[L - r + i])
  BY <1>1
<1> DEFINE front == [n \in 1..L - r |-> n]
           back == [i \in 1..r |-> L - r + i]
<1>5. /\ all = front \o back /\ front \in Seq(Nat) /\ back \in Seq(Nat)
      /\ Len(front) = L - r /\ Len(back) = r
      /\ \A i \in 1..L - r : front[i] = i /\ i \in 1..L
      /\ \A i \in 1..r : back[i] = L - r + i /\ back[i] \in 1..L
  <2>1. L - r \in Nat /\ r \in Nat /\ \A i \in 1..r : L - r + i \in Nat /\ L - r + i \in 1..L
    <3> HIDE DEF L
    <3> QED BY <1>0, <1>1
  <2>2. front \in [1..L - r -> Nat] /\ back \in [1..r -> Nat]
    BY <2>1
  <2>3. front \in Seq(Nat) /\ back \in Seq(Nat) /\ Len(front) = L - r /\ Len(back) = r
    BY <2>1, <2>2
  <2>4. PICK a \in Seq(Nat), b \in Seq(Nat), m \in Seq(Nat) : a = front /\ b = back /\ m = all
    <3>1. all \in Seq(Nat)
      BY <1>0
    <3> QED BY <2>3, <3>1, Zenon
  <2>5. Len(m) = L /\ \A n \in 1..L : m[n] = n
    BY <1>0, <2>4
  <2>6. /\ Len(a) = L - r /\ Len(b) = r
        /\ \A i \in 1..L - r : a[i] = i
        /\ \A i \in 1..r : b[i] = L - r + i
    BY <2>3, <2>4
  <2>7. /\ a \o b \in Seq(Nat) /\ Len(a \o b) = Len(a) + Len(b)
        /\ \A i \in 1..Len(a) + Len(b) : (a \o b)[i] = IF i <= Len(a) THEN a[i] ELSE b[i - Len(a)]
    BY ConcatProperties
  <2>8. Len(a) + Len(b) = L
    <3> HIDE DEF L
    <3> QED BY <1>0, <1>1, <2>6
  <2>9. ASSUME NEW i \in 1..L PROVE (a \o b)[i] = m[i]
    <3>1. CASE i <= L - r
      <4>1. i \in 1..L - r
        BY <1>0, <2>1, <3>1
      <4> QED BY <2>5, <2>6, <2>7, <2>8, <3>1, <4>1
    <3>2. CASE ~ (i <= L - r)
      <4>1. i - (L - r) \in 1..r /\ L - r + (i - (L - r)) = i
        <5> HIDE DEF L
        <5> QED BY <1>0, <1>1, <2>1, <3>2
      <4> QED BY <2>5, <2>6, <2>7, <2>8, <3>2, <4>1
    <3> QED BY <3>1, <3>2
  <2>10. a \o b = m
    <3>1. PICK h \in Seq(Nat) : h = a \o b
      BY <2>7, Zenon
    <3>2. Len(h) = Len(m) /\ \A i \in 1..Len(h) : h[i] = m[i]
      BY <2>5, <2>7, <2>8, <2>9, <3>1
    <3>3. h = m
      BY <3>2, SeqEqual
    <3> QED BY <3>1, <3>3
  <2>11. all = front \o back
    BY <2>4, <2>10, Zenon
  <2>12. \A i \in 1..L - r : i \in 1..L
    BY <1>0, <2>1
  <2> HIDE DEF all, front, back
  <2> QED BY <2>1, <2>3, <2>4, <2>6, <2>11, <2>12
<1> HIDE DEF all, front, back, S, V, gh, L, reach, matching
<1>6. Kept(front, S) = <<>>
  <2>1. ASSUME NEW i \in 1..L - r PROVE i \notin S
    <3>1. r < L
      BY <1>0, <1>1
    <3>2. reach <= r
      <4>1. CASE r = limit
        BY <1>0, <1>1, <1>2, <4>1
      <4>2. CASE r = MaxHistory
        BY <1>0, <1>1, <1>2, <4>2
      <4> QED BY <1>0, <1>1, <1>2, <3>1, <4>1, <4>2
    <3>3. reach \in Nat
      BY <1>0, <1>2
    <3>4. ~ (i + reach > L) /\ i \in 1..L
      BY <1>0, <1>1, <3>2, <3>3
    <3> QED BY <1>3, <3>4
  <2> QED BY <1>5, <2>1, KeptNothing
<1>7. recent = Kept(back, S)
  <2>1. Kept(front \o back, S) = Kept(front, S) \o Kept(back, S)
    BY <1>5, KeptConcat
  <2>2. PICK k \in Seq(Nat) : k = Kept(back, S)
    <3>1. Kept(back, S) \in Seq(Nat)
      BY <1>5, KeptTyped
    <3> QED BY <3>1, Zenon
  <2>3. <<>> \o k = k
    OBVIOUS
  <2> QED BY <1>2, <1>5, <1>6, <2>1, <2>2, <2>3, Zenon
<1>8. \A i \in 1..r : back[i] \in S <=> gh[i] \in V
  <2> SUFFICES ASSUME NEW i \in 1..r PROVE back[i] \in S <=> gh[i] \in V
    OBVIOUS
  <2>1. reach \in Nat /\ r <= reach
    BY <1>0, <1>1, <1>2
  <2>2. back[i] + reach > L /\ back[i] \in 1..L /\ log[back[i]] \in Types
    <3>1. back[i] = L - r + i /\ back[i] \in 1..L
      BY <1>5
    <3>2. ASSUME NEW a \in Nat, NEW b \in 1..r, NEW d \in Nat, r <= d
          PROVE  a - r + b + d > a
      BY <1>0, <1>1, <3>2
    <3>3. L - r + i + reach > L
      BY <1>0, <2>1, <3>2
    <3>4. log[back[i]] \in Types
      BY <1>0, <3>1 DEF L
    <3> QED BY <3>1, <3>3, <3>4
  <2>3. MatchesRule(p, log[back[i]]) <=> Matches(p, log[back[i]])
    BY <2>2, MatchesAsDocumented
  <2> QED BY <1>3, <1>4, <1>5, <2>2, <2>3
<1>9. PICK k \in Seq(Nat), l \in Seq(Event) : k = Kept(back, S) /\ l = Kept(gh, V)
  <2>1. Kept(back, S) \in Seq(Nat) /\ Kept(gh, V) \in Seq(Event)
    BY <1>1, <1>5, KeptTyped
  <2> QED BY <2>1, Zenon
<1>10. Alike(back, S, gh, V, r, k, l)
  <2>1. Alike(back, S, gh, V, Len(back), Kept(back, S), Kept(gh, V))
    BY <1>1, <1>5, <1>8, KeptAlike
  <2> QED BY <1>5, <1>9, <2>1, Zenon
<1>11. /\ Len(l) \in Nat /\ Len(k) = Len(l) /\ DOMAIN l = 1..Len(l)
       /\ \A i \in 1..Len(l) : l[i].id = k[i] /\ l[i].id \in 1..L /\ l[i].type = log[l[i].id] /\ l[i].type \in Types
  <2>1. Len(l) \in Nat /\ Len(k) = Len(l) /\ DOMAIN l = 1..Len(l)
    BY <1>10 DEF Alike
  <2>2. ASSUME NEW i \in 1..Len(l)
        PROVE  l[i].id = k[i] /\ l[i].id \in 1..L /\ l[i].type = log[l[i].id] /\ l[i].type \in Types
    <3>1. PICK j \in 1..r : k[i] = back[j] /\ l[i] = gh[j]
      BY <1>10, <2>1 DEF Alike
    <3>2. l[i].id = k[i] /\ l[i].id \in 1..L /\ l[i].type = log[l[i].id]
      BY <1>1, <1>5, <3>1
    <3> QED BY <1>0, <3>2
  <2> QED BY <2>1, <2>2
<1>12. new \in Seq(Tasks) /\ Len(new) = Len(l) /\ DOMAIN new = 1..Len(l)
       /\ \A i \in 1..Len(l) : /\ new[i].event = k[i] /\ new[i].cb = c /\ new[i].by = "replay"
                               /\ new[i].event \in 1..L /\ log[new[i].event] = new[i].type
  <2>1. new = [i \in 1..Len(l) |-> Task(l[i].id, l[i].type, c, "replay", changes)]
    BY <1>2, <1>9, <1>11 DEF ReplayTasks
  <2>2. \A i \in 1..Len(l) : new[i] \in Tasks /\ new[i].event = k[i] /\ new[i].cb = c /\ new[i].by = "replay"
                             /\ new[i].event \in 1..L /\ log[new[i].event] = new[i].type
    <3> SUFFICES ASSUME NEW i \in 1..Len(l)
                 PROVE  new[i] \in Tasks /\ new[i].event = k[i] /\ new[i].cb = c /\ new[i].by = "replay"
                        /\ new[i].event \in 1..L /\ log[new[i].event] = new[i].type
      OBVIOUS
    <3>1. PICK e \in Nat, y \in Types : e = l[i].id /\ y = l[i].type
      <4>1. l[i].id \in Nat /\ l[i].type \in Types
        <5>1. l[i].id \in 1..L /\ l[i].type \in Types
          BY <1>11, Zenon
        <5>2. \A n \in 1..L : n \in Nat
          BY <1>0
        <5> QED BY <5>1, <5>2, Zenon
      <4> QED BY <4>1, Zenon
    <3>2. new[i] = [event |-> e, type |-> y, cb |-> c, by |-> "replay", nr |-> changes]
      BY <2>1, <3>1 DEF Task
    <3>3. new[i] \in Tasks
      BY <1>0, <3>2 DEF Tasks
    <3>4. new[i].event = e /\ new[i].type = y /\ new[i].cb = c /\ new[i].by = "replay"
      BY <3>2
    <3>5. e = k[i] /\ e \in 1..L /\ log[e] = y
      BY <1>11, <3>1
    <3> QED BY <3>3, <3>4, <3>5
  <2>3. new \in [1..Len(l) -> Tasks]
    BY <2>1, <2>2
  <2> QED BY <1>11, <2>2, <2>3
<1>13. EventsIn(new) = k
  <2>1. EventsIn(new) \in Seq(Nat) /\ Len(EventsIn(new)) = Len(k)
    BY <1>11, <1>12, EventsInTyped
  <2>2. \A i \in 1..Len(k) : EventsIn(new)[i] = k[i]
    BY <1>11, <1>12 DEF EventsIn
  <2>3. PICK e \in Seq(Nat) : e = EventsIn(new)
    BY <2>1, Zenon
  <2>4. Len(e) = Len(k) /\ \A i \in 1..Len(e) : e[i] = k[i]
    BY <2>1, <2>2, <2>3
  <2>5. e = k
    BY <2>4, SeqEqual
  <2> QED BY <2>3, <2>5
<1>14. \A d : EventsOf(new, d) = IF d = c THEN recent ELSE <<>>
  <2> SUFFICES ASSUME NEW d PROVE EventsOf(new, d) = IF d = c THEN recent ELSE <<>>
    OBVIOUS
  <2>1. EventsOf(new, d) = IF d = c THEN EventsIn(new) ELSE <<>>
    <3>1. new \in Seq(Tasks) /\ \A i \in 1..Len(new) : new[i].cb = c
      BY <1>12
    <3>2. PICK q \in Seq(Tasks) : q = new
      BY <3>1, Zenon
    <3>3. \A i \in 1..Len(q) : q[i].cb = c
      BY <3>1, <3>2
    <3>4. EventsOf(q, d) = IF d = c THEN EventsIn(q) ELSE <<>>
      BY <3>3, EventsOfAll
    <3> QED BY <3>2, <3>4
  <2> QED BY <1>7, <1>9, <1>13, <2>1
<1>15. \A t \in ToSet(new) : t.by = "replay" /\ t.event \in 1..L /\ log[t.event] = t.type
  <2> SUFFICES ASSUME NEW t \in ToSet(new)
               PROVE  t.by = "replay" /\ t.event \in 1..L /\ log[t.event] = t.type
    OBVIOUS
  <2>1. PICK i \in 1..Len(l) : t = new[i]
    BY <1>12 DEF ToSet
  <2> QED BY <1>12, <2>1
<1> QED BY <1>7, <1>9, <1>12, <1>14, <1>15 DEF L

-----------------------------------------------------------------------------
(* Every step keeps the invariant                                          *)

LEMMA BusInvInit == Init => BusInv
<1> SUFFICES ASSUME Init PROVE BusInv
  OBVIOUS
<1>1. IndexInv
  BY IndexInvInit
<1>2. BusTypes
  <2>1. MaxFailures \in Nat /\ 0 \in 0..MaxFailures
    BY BusAssumption
  <2>2. <<>> \in Seq(Nat) /\ <<>> \in Seq(Types) /\ <<>> \in Seq(Tasks)
    OBVIOUS
  <2> QED BY <2>1, <2>2 DEF Init, BusTypes
<1>3. HistoryInv
  <2>1. MaxHistory \in Nat /\ MaxHistory # 0
    BY BusAssumption
  <2>2. history = <<>> /\ log = <<>> /\ Len(log) = 0 /\ Len(history) = 0
    BY DEF Init
  <2>3. <<>> \in Seq([id : Nat, type : Types])
    OBVIOUS
  <2>4. 0 < MaxHistory
    BY <2>1
  <2> QED BY <2>2, <2>3, <2>4 DEF HistoryInv
<1>4. Alive = {}
  BY DEF Init, Alive, ToSet
<1>5. LoggedInv /\ DispatchesTracked
  BY <1>4 DEF Init, LoggedInv, DispatchesTracked
<1>6. OrderInv
  <2>1. <<>> \o <<>> = <<>>
    OBVIOUS
  <2> QED BY <2>1, EventsOfNone DEF Init, OrderInv
<1> QED BY <1>1, <1>2, <1>3, <1>5, <1>6 DEF BusInv

LEMMA IndexSame ==
  ASSUME IndexInv, subs' = subs, index' = index
  PROVE  IndexInv'
BY ZenonT(60) DEF IndexInv

LEMMA Regrouped == \A a, b, c \in Seq(Nat) : (a \o b) \o c = a \o (b \o c)
BY ConcatAssociative

(* A step that lets tasks of queue go on, and may publish one event.       *)
LEMMA OutcomeKeeps ==
  ASSUME BusInv, NEW queue \in Seq(Tasks), Outcome(queue),
         IndexInv', changes' \in Nat, failures' \in 0..MaxFailures, gathered' \subseteq Tasks,
         wait' \in {"no", "gathering", "raised", "over", "cancelled"},
         ToSet(queue) \subseteq Alive, waiting' \subseteq Alive,
         begun' \in [Callbacks -> Seq(Nat)],
         \A c \in Callbacks : \A k \in 1..Len(begun'[c]) : begun'[c][k] \in 1..Len(log),
         wait' # "cancelled" => \A c \in Callbacks : begun'[c] \o EventsOf(queue, c) = due[c]
  PROVE  BusInv'
<1>1. IndexInv /\ BusTypes /\ HistoryInv /\ LoggedInv /\ DispatchesTracked
  BY DEF BusInv
<1>2. /\ log' \in Seq(Types) /\ Len(log) <= Len(log') /\ \A i \in 1..Len(log) : log'[i] = log[i]
      /\ HistoryInv'
      /\ ready' \in Seq(Tasks) /\ pending' \subseteq Tasks /\ due' \in [Callbacks -> Seq(Nat)]
      /\ pending \cap Alive \subseteq pending'
      /\ \A t \in ToSet(ready') :
            \/ t \in ToSet(queue)
            \/ t \in pending' /\ t.event \in 1..Len(log') /\ log'[t.event] = t.type
      /\ \A c \in Callbacks : \E x \in Seq(Nat) :
            EventsOf(ready', c) = EventsOf(queue, c) \o x /\ due'[c] = due[c] \o x
  BY <1>1, OutcomeIs
<1>3. /\ Len(log) \in Nat /\ Len(log') \in Nat /\ \A i \in 1..Len(log) : i \in 1..Len(log')
      /\ Alive \subseteq Tasks
  <2>1. log \in Seq(Types) /\ ready \in Seq(Tasks) /\ waiting \subseteq Tasks
    BY <1>1 DEF BusTypes
  <2>2. Len(log) \in Nat /\ Len(log') \in Nat
    BY <1>2, <2>1
  <2>3. \A t \in ToSet(ready) : t \in Tasks
    BY <2>1 DEF ToSet
  <2> QED BY <1>2, <2>1, <2>2, <2>3 DEF Alive
<1>4. \A t \in Alive' : t \in Alive \/ (t \in pending' /\ t.event \in 1..Len(log') /\ log'[t.event] = t.type)
  BY <1>2 DEF Alive
<1>5. BusTypes'
  BY <1>2, <1>3 DEF BusTypes
<1>6. LoggedInv'
  <2>1. ASSUME NEW t \in Alive' PROVE Logged(t)'
    BY <1>1, <1>2, <1>3, <1>4, <2>1 DEF LoggedInv, Logged
  <2>2. ASSUME NEW c \in Callbacks, NEW k \in 1..Len(begun'[c]) PROVE begun'[c][k] \in 1..Len(log')
    BY <1>3
  <2> QED BY <2>1, <2>2 DEF LoggedInv
<1>7. DispatchesTracked'
  BY <1>1, <1>2, <1>4 DEF DispatchesTracked
<1>8. OrderInv'
  <2> SUFFICES ASSUME wait' # "cancelled", NEW c \in Callbacks
               PROVE  begun'[c] \o EventsOf(ready', c) = due'[c]
    BY DEF OrderInv
  <2>1. PICK x \in Seq(Nat) : EventsOf(ready', c) = EventsOf(queue, c) \o x /\ due'[c] = due[c] \o x
    BY <1>2
  <2>2. PICK b \in Seq(Nat), e \in Seq(Nat) : b = begun'[c] /\ e = EventsOf(queue, c)
    <3>1. begun'[c] \in Seq(Nat) /\ EventsOf(queue, c) \in Seq(Nat)
      BY EventsTyped
    <3> QED BY <3>1, Zenon
  <2>3. b \o (e \o x) = (b \o e) \o x
    BY Regrouped
  <2>4. b \o e = due[c]
    BY <2>2, Zenon
  <2> QED BY <2>1, <2>2, <2>3, <2>4, Zenon
<1> QED BY <1>1, <1>2, <1>5, <1>6, <1>7, <1>8 DEF BusInv

(* How the call of a callback ends.                                        *)
LEMMA EndingIs ==
  ASSUME BusTypes, NEW t, NEW queue, Return(queue) \/ Fail(t, queue)
  PROVE  /\ Outcome(queue) /\ failures' \in 0..MaxFailures
         /\ wait' \in {"no", "gathering", "raised", "over", "cancelled"}
         /\ wait' # "cancelled" => wait # "cancelled"
<1>1. /\ failures \in 0..MaxFailures /\ wait \in {"no", "gathering", "raised", "over", "cancelled"}
      /\ MaxFailures \in Nat /\ FailureType \in Types
  BY BusAssumption DEF BusTypes
<1>2. CASE Return(queue)
  BY <1>1, <1>2 DEF Return, Outcome
<1>3. CASE Fail(t, queue)
  <2>1. failures' \in 0..MaxFailures
    BY <1>1, <1>3 DEF Fail
  <2>2. Outcome(queue)
    BY <1>1, <1>3 DEF Fail, Outcome
  <2>3. wait' = "raised" \/ wait' = wait
    BY <1>3 DEF Fail
  <2>4. wait = "cancelled" => wait' = wait
    BY <1>3 DEF Fail
  <2> QED BY <1>1, <2>1, <2>2, <2>3, <2>4
<1> QED BY <1>2, <1>3

LEMMA PublishKeeps ==
  ASSUME BusInv, NEW type \in Types, Publish(type)
  PROVE  BusInv'
<1>1. IndexInv /\ BusTypes /\ LoggedInv /\ OrderInv
  BY DEF BusInv
<1>2. /\ subs' = subs /\ index' = index /\ changes' = changes /\ wait' = wait /\ gathered' = gathered
      /\ waiting' = waiting /\ failures' = failures /\ begun' = begun
  BY DEF Publish, subVars, waitVars
<1>3. Outcome(ready)
  BY DEF Publish, Outcome
<1>4. IndexInv'
  BY <1>1, <1>2, IndexSame
<1>5. ready \in Seq(Tasks)
  BY <1>1 DEF BusTypes
<1>6. /\ changes' \in Nat /\ failures' \in 0..MaxFailures /\ gathered' \subseteq Tasks
      /\ wait' \in {"no", "gathering", "raised", "over", "cancelled"}
      /\ begun' \in [Callbacks -> Seq(Nat)]
  BY <1>1, <1>2, Zenon DEF BusTypes
<1>7. ToSet(ready) \subseteq Alive /\ waiting' \subseteq Alive
  BY <1>2 DEF Alive
<1>8. \A c \in Callbacks : \A k \in 1..Len(begun'[c]) : begun'[c][k] \in 1..Len(log)
  BY <1>1, <1>2 DEF LoggedInv
<1>9. wait' # "cancelled" => \A c \in Callbacks : begun'[c] \o EventsOf(ready, c) = due[c]
  BY <1>1, <1>2 DEF OrderInv
<1> QED BY <1>3, <1>4, <1>5, <1>6, <1>7, <1>8, <1>9, OutcomeKeeps

LEMMA BeginKeeps ==
  ASSUME BusInv, Begin
  PROVE  BusInv'
<1>1. IndexInv /\ BusTypes /\ LoggedInv /\ OrderInv
  BY DEF BusInv
<1>2. ready \in Seq(Tasks) /\ ready # <<>> /\ begun \in [Callbacks -> Seq(Nat)] /\ waiting \subseteq Tasks
  BY <1>1 DEF Begin, BusTypes
<1>3. PICK t \in Tasks, queue \in Seq(Tasks) : t = Head(ready) /\ queue = Tail(ready)
  <2>1. Head(ready) \in Tasks /\ Tail(ready) \in Seq(Tasks)
    BY <1>2
  <2> QED BY <2>1, Zenon
<1>4. t \in ToSet(ready) /\ ToSet(queue) \subseteq ToSet(ready)
  <2>1. Len(ready) \in Nat \ {0} /\ DOMAIN ready = 1..Len(ready) /\ t = ready[1]
    BY <1>2, <1>3
  <2>2. Len(queue) = Len(ready) - 1 /\ DOMAIN queue = 1..Len(queue) /\ \A i \in 1..Len(queue) : queue[i] = ready[i + 1]
    BY <1>2, <1>3
  <2>3. ASSUME NEW x \in ToSet(queue) PROVE x \in ToSet(ready)
    <3>1. PICK i \in 1..Len(queue) : x = queue[i]
      BY <2>2 DEF ToSet
    <3>2. i + 1 \in DOMAIN ready /\ x = ready[i + 1]
      BY <2>1, <2>2, <3>1
    <3> QED BY <3>2 DEF ToSet
  <2>4. t \in ToSet(ready)
    BY <2>1 DEF ToSet
  <2> QED BY <2>3, <2>4
<1>5. /\ begun' = [begun EXCEPT ![t.cb] = Append(@, t.event)]
      /\ Return(queue) \/ Fail(t, queue)
      /\ waiting' = waiting \/ waiting' = waiting \cup {t}
      /\ subs' = subs /\ index' = index /\ changes' = changes /\ gathered' = gathered
  BY <1>3 DEF Begin, subVars
<1>6. /\ Outcome(queue) /\ failures' \in 0..MaxFailures
      /\ wait' \in {"no", "gathering", "raised", "over", "cancelled"}
      /\ wait' # "cancelled" => wait # "cancelled"
  BY <1>1, <1>5, EndingIs
<1>7. IndexInv'
  BY <1>1, <1>5, IndexSame
<1>8. changes' \in Nat /\ gathered' \subseteq Tasks
  BY <1>1, <1>5 DEF BusTypes
<1>9. ToSet(queue) \subseteq Alive /\ waiting' \subseteq Alive
  BY <1>4, <1>5 DEF Alive
<1>10. t.event \in Nat /\ t.cb \in Callbacks /\ t.event \in 1..Len(log)
  <2>1. t.event \in Nat /\ t.cb \in Callbacks
    BY DEF Tasks
  <2> QED BY <1>1, <1>4, <2>1 DEF LoggedInv, Logged, Alive
<1>11. ASSUME NEW c \in Callbacks
       PROVE  /\ begun[c] \in Seq(Nat)
              /\ begun'[c] = IF c = t.cb THEN Append(begun[c], t.event) ELSE begun[c]
  BY <1>2, <1>5
<1>12. begun' \in [Callbacks -> Seq(Nat)]
  <2>1. Append(begun[t.cb], t.event) \in Seq(Nat)
    BY <1>2, <1>10
  <2> QED BY <1>2, <1>5, <1>10, <2>1
<1>13. \A c \in Callbacks : \A k \in 1..Len(begun'[c]) : begun'[c][k] \in 1..Len(log)
  <2> SUFFICES ASSUME NEW c \in Callbacks, NEW k \in 1..Len(begun'[c]) PROVE begun'[c][k] \in 1..Len(log)
    OBVIOUS
  <2>1. CASE c = t.cb
    <3>1. PICK b \in Seq(Nat) : b = begun[c] /\ begun'[c] = Append(b, t.event)
      BY <1>11, <2>1, Zenon
    <3>2. CASE k \in 1..Len(b)
      <4>1. begun'[c][k] = begun[c][k] /\ k \in 1..Len(begun[c])
        BY <3>1, <3>2
      <4> QED BY <1>1, <4>1 DEF LoggedInv
    <3>3. CASE k \notin 1..Len(b)
      <4>1. k = Len(b) + 1
        BY <3>1, <3>3
      <4> QED BY <1>10, <3>1, <4>1
    <3> QED BY <3>2, <3>3
  <2>2. CASE c # t.cb
    BY <1>1, <1>11, <2>2 DEF LoggedInv
  <2> QED BY <2>1, <2>2
<1>14. wait' # "cancelled" => \A c \in Callbacks : begun'[c] \o EventsOf(queue, c) = due[c]
  <2> SUFFICES ASSUME wait' # "cancelled", NEW c \in Callbacks
               PROVE  begun'[c] \o EventsOf(queue, c) = due[c]
    OBVIOUS
  <2>1. begun[c] \o EventsOf(ready, c) = due[c]
    BY <1>1, <1>6 DEF OrderInv
  <2>2. EventsOf(ready, c) = (IF t.cb = c THEN <<t.event>> ELSE <<>>) \o EventsOf(queue, c)
    BY <1>2, <1>3, EventsHead
  <2>3. PICK b \in Seq(Nat), e \in Seq(Nat) : b = begun[c] /\ e = EventsOf(queue, c)
    <3>1. begun[c] \in Seq(Nat) /\ EventsOf(queue, c) \in Seq(Nat)
      BY <1>11, EventsTyped
    <3> QED BY <3>1, Zenon
  <2>4. CASE c = t.cb
    <3>1. PICK o \in Seq(Nat) : o = <<t.event>>
      <4>1. <<t.event>> \in Seq(Nat)
        BY <1>10
      <4> QED BY <4>1, Zenon
    <3>2. (b \o o) \o e = b \o (o \o e)
      BY Regrouped
    <3>3. b \o o = Append(b, t.event)
      BY <1>10, <3>1
    <3>4. begun'[c] = b \o o
      BY <1>11, <2>3, <2>4, <3>3, Zenon
    <3>5. EventsOf(ready, c) = o \o e
      BY <2>2, <2>3, <2>4, <3>1, Zenon
    <3> QED BY <2>1, <2>3, <3>2, <3>4, <3>5, Zenon
  <2>5. CASE c # t.cb
    <3>1. <<>> \o e = e
      OBVIOUS
    <3>2. EventsOf(ready, c) = e
      BY <2>2, <2>3, <2>5, <3>1, Zenon
    <3> QED BY <1>11, <2>1, <2>3, <2>5, <3>2, Zenon
  <2> QED BY <2>4, <2>5
<1> QED BY <1>6, <1>7, <1>8, <1>9, <1>12, <1>13, <1>14, OutcomeKeeps

LEMMA EndKeeps ==
  ASSUME BusInv, NEW t \in waiting, End(t)
  PROVE  BusInv'
<1>1. IndexInv /\ BusTypes /\ LoggedInv /\ OrderInv
  BY DEF BusInv
<1>2. /\ waiting' = waiting \ {t}
      /\ Return(ready) \/ Fail(t, ready)
      /\ subs' = subs /\ index' = index /\ changes' = changes /\ gathered' = gathered /\ begun' = begun
  BY DEF End, subVars
<1>3. /\ Outcome(ready) /\ failures' \in 0..MaxFailures
      /\ wait' \in {"no", "gathering", "raised", "over", "cancelled"}
      /\ wait' # "cancelled" => wait # "cancelled"
  BY <1>1, <1>2, EndingIs
<1>4. IndexInv'
  BY <1>1, <1>2, IndexSame
<1>5. ready \in Seq(Tasks)
  BY <1>1 DEF BusTypes
<1>6. changes' \in Nat /\ gathered' \subseteq Tasks /\ begun' \in [Callbacks -> Seq(Nat)]
  BY <1>1, <1>2, Zenon DEF BusTypes
<1>7. ToSet(ready) \subseteq Alive /\ waiting' \subseteq Alive
  BY <1>2 DEF Alive
<1>8. \A c \in Callbacks : \A k \in 1..Len(begun'[c]) : begun'[c][k] \in 1..Len(log)
  BY <1>1, <1>2 DEF LoggedInv
<1>9. wait' # "cancelled" => \A c \in Callbacks : begun'[c] \o EventsOf(ready, c) = due[c]
  BY <1>1, <1>2, <1>3 DEF OrderInv
<1> QED BY <1>3, <1>4, <1>5, <1>6, <1>7, <1>8, <1>9, OutcomeKeeps

(* A step that publishes nothing and starts no task.                       *)
LEMMA QuietKeeps ==
  ASSUME BusInv, IndexInv', changes' \in Nat, UNCHANGED <<pubVars, due, begun, failures>>,
         NEW queue \in Seq(Tasks), ready' = queue, ToSet(queue) \subseteq Alive, waiting' \subseteq Alive,
         gathered' \subseteq Tasks, wait' \in {"no", "gathering", "raised", "over", "cancelled"},
         wait' # "cancelled" => wait # "cancelled" /\ queue = ready
  PROVE  BusInv'
<1>1. BusTypes /\ LoggedInv /\ OrderInv
  BY DEF BusInv
<1>2. Outcome(queue) /\ begun' = begun /\ failures' = failures
  BY DEF Outcome
<1>3. failures' \in 0..MaxFailures /\ begun' \in [Callbacks -> Seq(Nat)]
  BY <1>1, <1>2, Zenon DEF BusTypes
<1>4. \A c \in Callbacks : \A k \in 1..Len(begun'[c]) : begun'[c][k] \in 1..Len(log)
  BY <1>1, <1>2 DEF LoggedInv
<1>5. wait' # "cancelled" => \A c \in Callbacks : begun'[c] \o EventsOf(queue, c) = due[c]
  BY <1>1, <1>2 DEF OrderInv
<1> QED BY <1>2, <1>3, <1>4, <1>5, OutcomeKeeps

LEMMA ChangeKeeps ==
  ASSUME BusInv, NEW p \in Patterns, NEW c \in Callbacks, Subscribe(p, c) \/ Unsubscribe(p, c)
  PROVE  BusInv'
<1>1. IndexInv /\ BusTypes
  BY DEF BusInv
<1>2. /\ changes' = changes + 1 /\ UNCHANGED <<pubVars, due, begun, failures>>
      /\ wait' = wait /\ gathered' = gathered /\ ready' = ready /\ waiting' = waiting
  BY DEF Subscribe, Unsubscribe, Change, waitVars, pubVars
<1>3. IndexInv'
  <2>1. CASE Subscribe(p, c)
    BY <1>1, <2>1, SubscribeKeeps DEF Subscribe
  <2>2. CASE Unsubscribe(p, c)
    BY <1>1, <2>2, UnsubscribeKeeps DEF Unsubscribe
  <2> QED BY <2>1, <2>2
<1>4. /\ changes' \in Nat /\ gathered' \subseteq Tasks /\ ready \in Seq(Tasks)
      /\ wait' \in {"no", "gathering", "raised", "over", "cancelled"}
  BY <1>1, <1>2 DEF BusTypes
<1>5. ToSet(ready) \subseteq Alive /\ waiting' \subseteq Alive
  BY <1>2 DEF Alive
<1> QED BY <1>2, <1>3, <1>4, <1>5, QuietKeeps

LEMMA ReplayKeeps ==
  ASSUME BusInv, NEW p \in Patterns, NEW c \in Callbacks, NEW limit \in 1..MaxHistory,
         SubscribeWithReplay(p, c, limit)
  PROVE  BusInv'
<1> DEFINE recent == Recent(p, limit)
           new == ReplayTasks(Replayed(p, limit), c, changes)
<1>1. IndexInv /\ BusTypes /\ HistoryInv /\ LoggedInv /\ OrderInv /\ DispatchesTracked
  BY DEF BusInv
<1>2. /\ Change /\ subs' = AddSub(p, c) /\ index' = AddListener(index, p, c)
      /\ ready' = ready \o new /\ due' = [due EXCEPT ![c] = @ \o recent]
      /\ UNCHANGED <<waitVars, pubVars, waiting, failures, begun>>
  BY DEF SubscribeWithReplay, ReplayTasks, Replayed, Recent, Reach
<1>3. /\ changes' = changes + 1 /\ wait' = wait /\ gathered' = gathered /\ history' = history
      /\ pending' = pending /\ log' = log /\ waiting' = waiting /\ failures' = failures /\ begun' = begun
  BY <1>2 DEF Change, waitVars, pubVars
<1>4. IndexInv'
  BY <1>1, <1>2, SubscribeKeeps
<1>5. PICK q, s : q = new /\ s = recent
  OBVIOUS
<1>6. /\ q \in Seq(Tasks) /\ s \in Seq(Nat)
      /\ \A t \in ToSet(q) : t.by = "replay" /\ t.event \in 1..Len(log) /\ log[t.event] = t.type
      /\ \A d : EventsOf(q, d) = IF d = c THEN s ELSE <<>>
  BY <1>1, <1>5, ReplayIs
<1>7. ready' = ready \o q /\ due' = [due EXCEPT ![c] = @ \o s]
  BY <1>2, <1>5, Zenon
<1> HIDE DEF recent, new
<1>8. /\ ready \in Seq(Tasks) /\ due \in [Callbacks -> Seq(Nat)] /\ begun \in [Callbacks -> Seq(Nat)]
      /\ log \in Seq(Types) /\ changes \in Nat
  BY <1>1 DEF BusTypes
<1>9. ready' \in Seq(Tasks) /\ \A t \in ToSet(ready') : t \in ToSet(ready) \/ t \in ToSet(q)
  BY <1>6, <1>7, <1>8, BothAre
<1>10. BusTypes'
  <2>1. due' \in [Callbacks -> Seq(Nat)]
    <3>1. due[c] \o s \in Seq(Nat)
      BY <1>6, <1>8
    <3> QED BY <1>7, <1>8, <3>1
  <2>2. changes' \in Nat
    BY <1>3, <1>8
  <2> QED BY <1>1, <1>3, <1>9, <2>1, <2>2, Zenon DEF BusTypes
<1>11. HistoryInv'
  BY <1>1, <1>3 DEF HistoryInv
<1>12. \A t \in Alive' : t \in Alive \/ t \in ToSet(q)
  BY <1>3, <1>9 DEF Alive
<1>13. LoggedInv' /\ DispatchesTracked'
  <2>1. ASSUME NEW t \in Alive' PROVE Logged(t)'
    BY <1>1, <1>3, <1>6, <1>12 DEF LoggedInv, Logged
  <2>2. \A d \in Callbacks : \A k \in 1..Len(begun'[d]) : begun'[d][k] \in 1..Len(log')
    BY <1>1, <1>3 DEF LoggedInv
  <2>3. ASSUME NEW t \in Alive', t.by = "publish" PROVE t \in pending'
    BY <1>1, <1>3, <1>6, <1>12, <2>3 DEF DispatchesTracked
  <2> QED BY <2>1, <2>2, <2>3 DEF LoggedInv, DispatchesTracked
<1>14. OrderInv'
  <2> SUFFICES ASSUME wait' # "cancelled", NEW d \in Callbacks
               PROVE  begun'[d] \o EventsOf(ready', d) = due'[d]
    BY DEF OrderInv
  <2>1. begun[d] \o EventsOf(ready, d) = due[d]
    BY <1>1, <1>3 DEF OrderInv
  <2>2. EventsOf(ready', d) = EventsOf(ready, d) \o (IF d = c THEN s ELSE <<>>)
    <3>1. EventsOf(ready \o q, d) = EventsOf(ready, d) \o EventsOf(q, d)
      BY <1>6, <1>8, EventsConcat
    <3> QED BY <1>6, <1>7, <3>1, Zenon
  <2>3. PICK a \in Seq(Nat), b \in Seq(Nat) : a = begun[d] /\ b = EventsOf(ready, d)
    <3>1. begun[d] \in Seq(Nat) /\ EventsOf(ready, d) \in Seq(Nat)
      BY <1>8, EventsTyped
    <3> QED BY <3>1, Zenon
  <2>4. CASE d = c
    <3>1. due'[d] = due[d] \o s
      BY <1>7, <1>8, <2>4
    <3>2. (a \o b) \o s = a \o (b \o s)
      BY <1>6, Regrouped
    <3> QED BY <1>3, <2>1, <2>2, <2>3, <2>4, <3>1, <3>2, Zenon
  <2>5. CASE d # c
    <3>1. due'[d] = due[d]
      BY <1>7, <1>8, <2>5
    <3>2. b \o <<>> = b
      OBVIOUS
    <3> QED BY <1>3, <2>1, <2>2, <2>3, <2>5, <3>1, <3>2, Zenon
  <2> QED BY <2>4, <2>5
<1> QED BY <1>4, <1>10, <1>11, <1>13, <1>14 DEF BusInv

LEMMA WaitKeeps ==
  ASSUME BusInv, WaitBegin \/ WaitEnd \/ WaitTimeout
  PROVE  BusInv'
<1>1. IndexInv /\ BusTypes
  BY DEF BusInv
<1>2. /\ subs' = subs /\ index' = index /\ changes' = changes
      /\ UNCHANGED <<pubVars, due, begun, failures>>
  BY DEF WaitBegin, WaitEnd, WaitTimeout, subVars
<1>3. IndexInv'
  BY <1>1, <1>2, IndexSame
<1>4. /\ changes' \in Nat /\ ready \in Seq(Tasks) /\ pending \subseteq Tasks /\ waiting \subseteq Tasks
  BY <1>1, <1>2 DEF BusTypes
<1>5. ToSet(ready) \subseteq Alive /\ waiting \subseteq Alive
  BY DEF Alive
<1>6. CASE WaitBegin \/ WaitEnd
  <2>1. /\ ready' = ready /\ waiting' = waiting /\ wait' \in {"gathering", "over"} /\ wait # "cancelled"
        /\ gathered' \subseteq Tasks
    BY <1>4, <1>6 DEF WaitBegin, WaitEnd
  <2> QED BY <1>2, <1>3, <1>4, <1>5, <2>1, QuietKeeps
<1>7. CASE WaitTimeout
  <2> DEFINE left == Kept(ready, ToSet(ready) \ gathered)
  <2>1. ready' = left /\ waiting' = waiting \ gathered /\ wait' = "cancelled" /\ gathered' = {}
    BY <1>7 DEF WaitTimeout
  <2>2. left \in Seq(Tasks) /\ ToSet(left) \subseteq ToSet(ready)
    <3>1. Filtered(Tasks, ready, ToSet(ready) \ gathered, Len(ready), left)
      BY <1>4, KeptIs
    <3>2. left \in Seq(Tasks) /\ \A i \in 1..Len(left) : left[i] \in ToSet(ready) \ gathered
      BY <3>1 DEF Filtered
    <3>3. DOMAIN left = 1..Len(left)
      BY <3>2
    <3> QED BY <3>2, <3>3 DEF ToSet
  <2> HIDE DEF left
  <2> QED BY <1>2, <1>3, <1>4, <1>5, <2>1, <2>2, QuietKeeps
<1> QED BY <1>6, <1>7

LEMMA BusInvStep == BusInv /\ [Next]_vars => BusInv'
<1> SUFFICES ASSUME BusInv, [Next]_vars PROVE BusInv'
  OBVIOUS
<1>1. CASE UNCHANGED vars
  <2>1. /\ subs' = subs /\ index' = index /\ changes' = changes /\ wait' = wait /\ gathered' = gathered
        /\ ready' = ready /\ waiting' = waiting /\ UNCHANGED <<pubVars, due, begun, failures>>
    BY <1>1 DEF vars, subVars, waitVars
  <2>2. IndexInv'
    BY <2>1, IndexSame DEF BusInv
  <2>3. /\ changes' \in Nat /\ gathered' \subseteq Tasks /\ ready \in Seq(Tasks)
        /\ wait' \in {"no", "gathering", "raised", "over", "cancelled"}
    BY <2>1 DEF BusInv, BusTypes
  <2>4. ToSet(ready) \subseteq Alive /\ waiting' \subseteq Alive
    BY <2>1 DEF Alive
  <2> QED BY <2>1, <2>2, <2>3, <2>4, QuietKeeps
<1>2. ASSUME NEW type \in Types \ {FailureType}, Publish(type) PROVE BusInv'
  BY <1>2, PublishKeeps
<1>3. ASSUME NEW p \in Patterns, NEW c \in Callbacks, Subscribe(p, c) \/ Unsubscribe(p, c) PROVE BusInv'
  BY <1>3, ChangeKeeps
<1>4. ASSUME NEW p \in Patterns, NEW c \in Callbacks, NEW limit \in 1..MaxHistory,
             SubscribeWithReplay(p, c, limit)
      PROVE  BusInv'
  BY <1>4, ReplayKeeps
<1>5. ASSUME Begin PROVE BusInv'
  BY <1>5, BeginKeeps
<1>6. ASSUME NEW t \in waiting, End(t) PROVE BusInv'
  BY <1>6, EndKeeps
<1>7. ASSUME WaitBegin \/ WaitEnd \/ WaitTimeout PROVE BusInv'
  BY <1>7, WaitKeeps
<1> QED BY <1>1, <1>2, <1>3, <1>4, <1>5, <1>6, <1>7 DEF Next, Run

LEMMA BusInvariance == Spec => []BusInv
BY BusInvInit, BusInvStep, PTL DEF Spec

(* Every variable of the bus has its type.                                 *)
THEOREM BusTyped == Spec => []TypeOK
<1>1. BusInv => TypeOK
  <2> SUFFICES ASSUME BusInv PROVE TypeOK
    OBVIOUS
  <2>1. IndexInv /\ BusTypes /\ HistoryInv
    BY DEF BusInv
  <2>2. \A n \in DOMAIN subs : subs[n].pattern \in Patterns /\ subs[n].listeners \in Seq(Callbacks) \ {<<>>}
    <3>1. DOMAIN subs = 1..Len(subs) /\ \A n \in 1..Len(subs) : subs[n] \in Subscriptions /\ subs[n].listeners # <<>>
      BY <2>1 DEF IndexInv
    <3> QED BY <3>1 DEF Subscriptions
  <2>3. DOMAIN index.listeners = DOMAIN index.order
    BY <2>1 DEF IndexInv
  <2>4. history \in Seq([id : DOMAIN log, type : Types]) /\ Len(history) <= MaxHistory
    <3> DEFINE Event == [id : Nat, type : Types]
               Kind == [id : DOMAIN log, type : Types]
    <3>1. MaxHistory \in Nat /\ log \in Seq(Types) /\ Len(log) \in Nat /\ DOMAIN log = 1..Len(log)
      BY <2>1, BusAssumption DEF BusTypes
    <3>2. history \in Seq(Event)
      BY <2>1 DEF HistoryInv
    <3>3. /\ Len(history) = IF Len(log) < MaxHistory THEN Len(log) ELSE MaxHistory
          /\ \A i \in 1..Len(history) : history[i].id = Len(log) - Len(history) + i
      BY <2>1, Zenon DEF HistoryInv
    <3>4. /\ Len(history) \in Nat /\ DOMAIN history = 1..Len(history)
          /\ \A i \in 1..Len(history) : history[i] \in Event
      <4> HIDE DEF Event
      <4> QED BY <3>2
    <3>5. ASSUME NEW i \in 1..Len(history) PROVE history[i] \in Kind
      <4>1. history[i] \in Event /\ history[i].id \in 1..Len(log)
        <5>1. ASSUME NEW a \in Nat, NEW b \in Nat, b = IF a < MaxHistory THEN a ELSE MaxHistory, i \in 1..b
              PROVE  a - b + i \in 1..a
          BY <3>1, <5>1
        <5> QED BY <3>1, <3>3, <3>4, <5>1
      <4> QED BY <3>1, <4>1
    <3>6. history \in [1..Len(history) -> Kind]
      <4> HIDE DEF Kind
      <4>1. history = [i \in 1..Len(history) |-> history[i]]
        BY <3>2
      <4> QED BY <3>5, <4>1
    <3>7. history \in Seq(Kind)
      <4> HIDE DEF Kind
      <4> QED BY <3>4, <3>6
    <3> QED BY <3>1, <3>3, <3>4, <3>7
  <2>5. Alive \subseteq Tasks
    <3>1. ready \in Seq(Tasks) /\ waiting \subseteq Tasks
      BY <2>1 DEF BusTypes
    <3>2. \A t \in ToSet(ready) : t \in Tasks
      BY <3>1 DEF ToSet
    <3> QED BY <3>1, <3>2 DEF Alive
  <2> QED BY <2>1, <2>2, <2>3, <2>4, <2>5 DEF TypeOK, BusTypes
<1> QED BY <1>1, BusInvariance, PTL

(* Every callback is called once for each event that it subscribed to, or  *)
(* that its replay reaches, in the order of their publication, whatever    *)
(* subscriptions change and whichever subscribers fail or are slow.        *)
THEOREM OrderKept == Spec => []InOrderOnce
<1>1. BusInv => InOrderOnce
  <2> SUFFICES ASSUME BusInv, wait # "cancelled", NEW c \in Callbacks
               PROVE  LET queued == Kept(ready, {t \in ToSet(ready) : t.cb = c})
                      IN begun[c] \o [k \in DOMAIN queued |-> queued[k].event] = due[c]
    BY DEF InOrderOnce
  <2>1. begun[c] \o EventsOf(ready, c) = due[c]
    BY DEF BusInv, OrderInv
  <2>2. ready \in Seq(Tasks)
    BY DEF BusInv, BusTypes
  <2>3. \A i \in 1..Len(ready) : ready[i] \in {t \in ToSet(ready) : t.cb = c} <=> ready[i] \in TasksOf(c)
    <3>1. DOMAIN ready = 1..Len(ready) /\ \A i \in 1..Len(ready) : ready[i] \in Tasks
      BY <2>2
    <3> QED BY <3>1 DEF ToSet, TasksOf
  <2>4. Kept(ready, {t \in ToSet(ready) : t.cb = c}) = Kept(ready, TasksOf(c))
    BY <2>2, <2>3, KeptSame
  <2> QED BY <2>1, <2>4, Zenon DEF EventsOf, EventsIn
<1> QED BY <1>1, BusInvariance, PTL

(* wait_for_handlers finds every dispatch of publish that has not ended.   *)
THEOREM AllTracked == Spec => []DispatchesTracked
<1>1. BusInv => DispatchesTracked
  BY DEF BusInv
<1> QED BY <1>1, BusInvariance, PTL

-----------------------------------------------------------------------------
(* Failures                                                                *)

\* The calls of callback c with ordinary events.
CallsOf(c) == {k \in 1..Len(begun[c]) : log[begun[c][k]] # FailureType}

LEMMA CallsAre ==
  ASSUME begun \in [Callbacks -> Seq(Nat)]
  PROVE  \A x : x \in OrdinaryCalls <=> \E c \in Callbacks : \E k \in CallsOf(c) : x = <<c, k>>
<1>1. \A c \in Callbacks : DOMAIN begun[c] = 1..Len(begun[c])
  OBVIOUS
<1>2. OrdinaryCalls = UNION {{c} \X CallsOf(c) : c \in Callbacks}
  BY <1>1 DEF OrdinaryCalls, CallsOf
<1>3. \A x : x \in UNION {{c} \X CallsOf(c) : c \in Callbacks}
               <=> \E c \in Callbacks : x \in {c} \X CallsOf(c)
  OBVIOUS
<1>4. \A x, c : x \in {c} \X CallsOf(c) <=> \E k \in CallsOf(c) : x = <<c, k>>
  OBVIOUS
<1> QED BY <1>2, <1>3, <1>4, Zenon

LEMMA CallsAreNext ==
  ASSUME begun' \in [Callbacks -> Seq(Nat)]
  PROVE  \A x : x \in OrdinaryCalls' <=> \E c \in Callbacks : \E k \in CallsOf(c)' : x = <<c, k>>
<1>1. \A c \in Callbacks : DOMAIN begun'[c] = 1..Len(begun'[c])
  OBVIOUS
<1>2. OrdinaryCalls' = UNION {{c} \X CallsOf(c)' : c \in Callbacks}
  BY <1>1 DEF OrdinaryCalls, CallsOf
<1>3. \A x : x \in UNION {{c} \X CallsOf(c)' : c \in Callbacks}
               <=> \E c \in Callbacks : x \in {c} \X CallsOf(c)'
  OBVIOUS
<1>4. \A x, c : x \in {c} \X CallsOf(c)' <=> \E k \in CallsOf(c)' : x = <<c, k>>
  OBVIOUS
<1> QED BY <1>2, <1>3, <1>4, Zenon

(* A step that publishes: what was called with stays ordinary or not.      *)
LEMMA CallsKept ==
  ASSUME BusTypes, LoggedInv, begun' = begun, \A i \in 1..Len(log) : log'[i] = log[i]
  PROVE  OrdinaryCalls' = OrdinaryCalls
<1>1. begun \in [Callbacks -> Seq(Nat)] /\ begun' \in [Callbacks -> Seq(Nat)]
  BY DEF BusTypes
<1>2. ASSUME NEW c \in Callbacks PROVE CallsOf(c)' = CallsOf(c)
  BY DEF LoggedInv, CallsOf
<1> QED BY <1>1, <1>2, CallsAre, CallsAreNext

(* A call that begins is one call more, if its event is ordinary.          *)
LEMMA CallsMore ==
  ASSUME BusTypes, LoggedInv, \A i \in 1..Len(log) : log'[i] = log[i],
         NEW t \in Tasks, Logged(t), begun' = [begun EXCEPT ![t.cb] = Append(@, t.event)],
         IsFiniteSet(OrdinaryCalls)
  PROVE  /\ IsFiniteSet(OrdinaryCalls')
         /\ Cardinality(OrdinaryCalls') =
              Cardinality(OrdinaryCalls) + (IF t.type # FailureType THEN 1 ELSE 0)
<1> DEFINE b == begun[t.cb]
           m == Len(b) + 1
<1>1. /\ begun \in [Callbacks -> Seq(Nat)] /\ t.cb \in Callbacks /\ t.event \in Nat
      /\ t.event \in 1..Len(log) /\ log[t.event] = t.type
  BY DEF BusTypes, Tasks, Logged
<1>2. /\ b \in Seq(Nat) /\ Append(b, t.event) \in Seq(Nat) /\ Len(b) \in Nat
      /\ Len(Append(b, t.event)) = m /\ Append(b, t.event)[m] = t.event
      /\ \A k \in 1..Len(b) : Append(b, t.event)[k] = b[k]
  BY <1>1
<1>3. /\ begun' \in [Callbacks -> Seq(Nat)] /\ begun'[t.cb] = Append(b, t.event)
      /\ \A c \in Callbacks : c # t.cb => begun'[c] = begun[c]
  BY <1>1, <1>2
<1>4. \A c \in Callbacks : \A k \in 1..Len(begun[c]) : log'[begun[c][k]] = log[begun[c][k]]
  BY DEF LoggedInv
<1>5. \A c \in Callbacks : c # t.cb => CallsOf(c)' = CallsOf(c)
  BY <1>3, <1>4 DEF CallsOf
<1>6. log'[t.event] = t.type
  BY <1>1
<1> HIDE DEF b
<1>7. \A k : k \in CallsOf(t.cb)' <=> k \in CallsOf(t.cb) \/ (k = m /\ t.type # FailureType)
  <2>1. \A k : k \in 1..m <=> k \in 1..Len(b) \/ k = m
    BY <1>2
  <2>2. m \notin 1..Len(b)
    BY <1>2
  <2>3. \A k : k \in CallsOf(t.cb) <=> k \in 1..Len(b) /\ log[b[k]] # FailureType
    BY DEF CallsOf, b
  <2>4. \A k : k \in CallsOf(t.cb)' <=> k \in 1..m /\ log'[begun'[t.cb][k]] # FailureType
    BY <1>2, <1>3 DEF CallsOf
  <2>5. \A k \in 1..Len(b) : begun'[t.cb][k] = b[k] /\ log'[b[k]] = log[b[k]]
    BY <1>1, <1>2, <1>3, <1>4 DEF b
  <2>6. log'[begun'[t.cb][m]] = t.type
    BY <1>2, <1>3, <1>6
  <2> HIDE DEF m
  <2> TAKE k
  <2>7. CASE k \in 1..Len(b)
    <3>1. k # m /\ k \in 1..m /\ begun'[t.cb][k] = b[k] /\ log'[b[k]] = log[b[k]]
      BY <2>1, <2>2, <2>5, <2>7
    <3>2. log'[begun'[t.cb][k]] = log[b[k]]
      BY <3>1, Zenon
    <3> QED BY <2>3, <2>4, <2>7, <3>1, <3>2, Zenon
  <2>8. CASE k = m
    BY <2>1, <2>2, <2>3, <2>4, <2>6, <2>8, Zenon
  <2>9. CASE k \notin 1..m
    BY <2>1, <2>3, <2>4, <2>9, Zenon
  <2> QED BY <2>1, <2>7, <2>8, <2>9, Zenon
<1>8. <<t.cb, m>> \notin OrdinaryCalls
  <2>1. m \notin CallsOf(t.cb)
    BY <1>2 DEF CallsOf, b
  <2> QED BY <1>1, <2>1, CallsAre
<1> HIDE DEF m
<1>9. CASE t.type = FailureType
  <2>1. OrdinaryCalls' = OrdinaryCalls
    <3>1. CallsOf(t.cb)' = CallsOf(t.cb)
      BY <1>7, <1>9
    <3>2. \A c \in Callbacks : CallsOf(c)' = CallsOf(c)
      BY <1>5, <3>1
    <3>3. ASSUME NEW x PROVE x \in OrdinaryCalls' <=> x \in OrdinaryCalls
      <4>1. x \in OrdinaryCalls' <=> \E c \in Callbacks : \E k \in CallsOf(c)' : x = <<c, k>>
        BY <1>3, CallsAreNext
      <4>2. x \in OrdinaryCalls <=> \E c \in Callbacks : \E k \in CallsOf(c) : x = <<c, k>>
        BY <1>1, CallsAre
      <4> QED BY <3>2, <4>1, <4>2
    <3> QED BY <3>3
  <2>2. Cardinality(OrdinaryCalls) \in Nat
    BY FS_CardinalityType
  <2> QED BY <1>9, <2>1, <2>2
<1>10. CASE t.type # FailureType
  <2>1. OrdinaryCalls' = OrdinaryCalls \cup {<<t.cb, m>>}
    <3>1. ASSUME NEW x PROVE x \in OrdinaryCalls' <=> x \in OrdinaryCalls \/ x = <<t.cb, m>>
      <4>1. x \in OrdinaryCalls' <=> \E c \in Callbacks : \E k \in CallsOf(c)' : x = <<c, k>>
        BY <1>3, CallsAreNext
      <4>2. x \in OrdinaryCalls <=> \E c \in Callbacks : \E k \in CallsOf(c) : x = <<c, k>>
        BY <1>1, CallsAre
      <4>3. ASSUME NEW c \in Callbacks, NEW k \in CallsOf(c)'
            PROVE  k \in CallsOf(c) \/ (c = t.cb /\ k = m)
        BY <1>5, <1>7
      <4>4. ASSUME NEW c \in Callbacks, NEW k \in CallsOf(c) PROVE k \in CallsOf(c)'
        BY <1>5, <1>7
      <4>5. m \in CallsOf(t.cb)'
        BY <1>7, <1>10
      <4> QED BY <1>1, <4>1, <4>2, <4>3, <4>4, <4>5, Zenon
    <3> QED BY <3>1
  <2> QED BY <1>8, <1>10, <2>1, FS_AddElement
<1> QED BY <1>9, <1>10

(* The failure events after an event more, or none.                        *)
LEMMA FailureCount ==
  ASSUME log \in Seq(Types)
  PROVE  /\ IsFiniteSet(FailureEvents) /\ Cardinality(FailureEvents) \in Nat
         /\ log' = log => Cardinality(FailureEvents') = Cardinality(FailureEvents)
         /\ \A type \in Types : log' = Append(log, type) =>
               Cardinality(FailureEvents') =
                 Cardinality(FailureEvents) + (IF type = FailureType THEN 1 ELSE 0)
<1> DEFINE n == Len(log) + 1
<1>1. Len(log) \in Nat /\ DOMAIN log = 1..Len(log)
  OBVIOUS
<1>2. IsFiniteSet(FailureEvents)
  <2>1. IsFiniteSet(1..Len(log))
    BY <1>1, FS_Interval
  <2>2. FailureEvents \in SUBSET (1..Len(log))
    BY <1>1 DEF FailureEvents
  <2> QED BY <2>1, <2>2, FS_Subset
<1>3. Cardinality(FailureEvents) \in Nat
  BY <1>2, FS_CardinalityType
<1>4. log' = log => FailureEvents' = FailureEvents
  BY DEF FailureEvents
<1>5. ASSUME NEW type \in Types, log' = Append(log, type)
      PROVE  Cardinality(FailureEvents') = Cardinality(FailureEvents) + (IF type = FailureType THEN 1 ELSE 0)
  <2>1. DOMAIN log' = 1..n /\ log'[n] = type /\ \A i \in 1..Len(log) : log'[i] = log[i]
    BY <1>1, <1>5
  <2>2. \A i : i \in 1..n <=> i \in 1..Len(log) \/ i = n
    BY <1>1
  <2>3. n \notin 1..Len(log)
    BY <1>1
  <2> HIDE DEF n
  <2>4. \A i : i \in FailureEvents' <=> i \in FailureEvents \/ (i = n /\ type = FailureType)
    BY <1>1, <2>1, <2>2, <2>3 DEF FailureEvents
  <2>5. CASE type = FailureType
    <3>1. FailureEvents' = FailureEvents \cup {n} /\ n \notin FailureEvents
      BY <1>1, <2>3, <2>4, <2>5 DEF FailureEvents
    <3> QED BY <1>2, <2>5, <3>1, FS_AddElement
  <2>6. CASE type # FailureType
    <3>1. FailureEvents' = FailureEvents
      BY <2>4, <2>6
    <3> QED BY <1>3, <2>6, <3>1
  <2> QED BY <2>5, <2>6
<1> QED BY <1>2, <1>3, <1>4, <1>5

(* The end of a call of a callback: only the failure of an ordinary call   *)
(* publishes, and it publishes one failure event.                          *)
LEMMA EndingCount ==
  ASSUME BusTypes, NEW t \in Tasks, NEW queue, Return(queue) \/ Fail(t, queue)
  PROVE  /\ Cardinality(FailureEvents') \in Nat
         /\ Cardinality(FailureEvents') <=
              Cardinality(FailureEvents) + (IF t.type # FailureType THEN 1 ELSE 0)
         /\ log' \in Seq(Types) /\ \A i \in 1..Len(log) : log'[i] = log[i]
<1>1. log \in Seq(Types) /\ FailureType \in Types
  BY BusAssumption DEF BusTypes
<1>2. log' = log \/ (t.type # FailureType /\ log' = Append(log, FailureType))
  BY DEF Return, Fail, Announced, Emit, pubVars
<1>3. Cardinality(FailureEvents) \in Nat
  BY <1>1, FailureCount
<1>4. CASE log' = log
  BY <1>1, <1>3, <1>4, FailureCount
<1>5. CASE t.type # FailureType /\ log' = Append(log, FailureType)
  <2>1. Cardinality(FailureEvents') = Cardinality(FailureEvents) + 1
    BY <1>1, <1>5, FailureCount
  <2> QED BY <1>1, <1>3, <1>5, <2>1
<1> QED BY <1>2, <1>4, <1>5

LEMMA OpenCount ==
  ASSUME IsFiniteSet(waiting)
  PROVE  IsFiniteSet(OpenCalls) /\ Cardinality(OpenCalls) \in Nat
<1>1. OpenCalls \in SUBSET waiting
  BY DEF OpenCalls
<1>2. IsFiniteSet(OpenCalls)
  BY <1>1, FS_Subset
<1> QED BY <1>2, FS_CardinalityType

LEMMA FailInvInit == Init => FailInv
<1> SUFFICES ASSUME Init PROVE FailInv
  OBVIOUS
<1>1. IsFiniteSet({}) /\ Cardinality({}) = 0
  BY FS_EmptySet
<1>2. OpenCalls = {} /\ waiting = {}
  BY DEF Init, OpenCalls
<1>3. FailureEvents = {}
  BY DEF Init, FailureEvents
<1>4. OrdinaryCalls = {}
  <2>1. \A c \in Callbacks : CallsOf(c) = {}
    BY DEF Init, CallsOf
  <2>2. <<>> \in Seq(Nat)
    OBVIOUS
  <2>3. begun \in [Callbacks -> Seq(Nat)]
    BY <2>2 DEF Init
  <2> QED BY <2>1, <2>3, CallsAre
<1> QED BY <1>1, <1>2, <1>3, <1>4 DEF FailInv

\* A step that publishes no failure, begins no call and lets no more calls wait.
LEMMA NoneFails ==
  ASSUME BusTypes, LoggedInv, FailInv, begun' = begun, waiting' \subseteq waiting,
         \/ log' = log
         \/ \E type \in Types : type # FailureType /\ log' = Append(log, type)
  PROVE  FailInv'
<1>1. log \in Seq(Types)
  BY DEF BusTypes
<1>2. Cardinality(FailureEvents') = Cardinality(FailureEvents) /\ Cardinality(FailureEvents) \in Nat
  BY <1>1, FailureCount
<1>3. \A i \in 1..Len(log) : log'[i] = log[i]
  BY <1>1
<1>4. OrdinaryCalls' = OrdinaryCalls
  BY <1>3, CallsKept
<1>5. /\ IsFiniteSet(waiting')
      /\ Cardinality(OpenCalls') \in Nat /\ Cardinality(OpenCalls') <= Cardinality(OpenCalls)
  <2>1. OpenCalls' \in SUBSET OpenCalls /\ waiting' \in SUBSET waiting
    BY DEF OpenCalls
  <2>2. IsFiniteSet(waiting) /\ IsFiniteSet(OpenCalls)
    BY OpenCount DEF FailInv
  <2>3. IsFiniteSet(OpenCalls') /\ Cardinality(OpenCalls') <= Cardinality(OpenCalls)
    BY <2>1, <2>2, FS_Subset
  <2> QED BY <2>1, <2>2, <2>3, FS_Subset, FS_CardinalityType
<1>6. Cardinality(OpenCalls) \in Nat
  BY OpenCount DEF FailInv
<1>7. IsFiniteSet(OrdinaryCalls) /\ Cardinality(OrdinaryCalls) \in Nat
  BY FS_CardinalityType DEF FailInv
<1>8. Cardinality(FailureEvents') + Cardinality(OpenCalls') <= Cardinality(OrdinaryCalls')
  BY <1>2, <1>4, <1>5, <1>6, <1>7 DEF FailInv
<1> QED BY <1>4, <1>5, <1>7, <1>8 DEF FailInv

LEMMA BeginFails ==
  ASSUME BusTypes, LoggedInv, FailInv, Begin
  PROVE  FailInv'
<1>1. ready \in Seq(Tasks) /\ ready # <<>>
  BY DEF Begin, BusTypes
<1>2. PICK t \in Tasks, queue \in Seq(Tasks) : t = Head(ready) /\ queue = Tail(ready)
  <2>1. Head(ready) \in Tasks /\ Tail(ready) \in Seq(Tasks)
    BY <1>1
  <2> QED BY <2>1, Zenon
<1>3. Logged(t)
  <2>1. t \in ToSet(ready)
    <3>1. 1 \in DOMAIN ready /\ t = ready[1]
      BY <1>1, <1>2
    <3> QED BY <3>1 DEF ToSet
  <2> QED BY <2>1 DEF LoggedInv, Alive
<1> DEFINE one == IF t.type # FailureType THEN 1 ELSE 0
<1>4. /\ begun' = [begun EXCEPT ![t.cb] = Append(@, t.event)]
      /\ \/ Return(queue) /\ waiting' = waiting
         \/ Return(queue) /\ waiting' = waiting \cup {t}
         \/ Fail(t, queue) /\ waiting' = waiting
  BY <1>2 DEF Begin
<1>5. /\ Cardinality(FailureEvents') \in Nat
      /\ Cardinality(FailureEvents') <= Cardinality(FailureEvents) + one
      /\ log' \in Seq(Types) /\ \A i \in 1..Len(log) : log'[i] = log[i]
  BY <1>4, EndingCount
<1>6. IsFiniteSet(waiting) /\ IsFiniteSet(OpenCalls) /\ IsFiniteSet(OrdinaryCalls)
  BY OpenCount DEF FailInv
<1>7. /\ IsFiniteSet(OrdinaryCalls')
      /\ Cardinality(OrdinaryCalls') = Cardinality(OrdinaryCalls) + one
  BY <1>3, <1>4, <1>5, <1>6, CallsMore
<1>8. /\ Cardinality(FailureEvents) \in Nat /\ Cardinality(OpenCalls) \in Nat
      /\ Cardinality(OrdinaryCalls) \in Nat /\ one \in 0..1
  <2>1. log \in Seq(Types)
    BY DEF BusTypes
  <2> QED BY <1>6, <2>1, FailureCount, FS_CardinalityType
<1>9. Cardinality(FailureEvents) + Cardinality(OpenCalls) <= Cardinality(OrdinaryCalls)
  BY DEF FailInv
<1>10. CASE waiting' = waiting
  <2>1. OpenCalls' = OpenCalls
    BY <1>10 DEF OpenCalls
  <2> HIDE DEF one
  <2>2. Cardinality(FailureEvents') + Cardinality(OpenCalls') <= Cardinality(OrdinaryCalls')
    BY <1>5, <1>7, <1>8, <1>9, <2>1
  <2> QED BY <1>6, <1>7, <1>10, <2>2 DEF FailInv
<1>11. CASE Return(queue) /\ waiting' = waiting \cup {t}
  <2>1. Cardinality(FailureEvents') = Cardinality(FailureEvents)
    <3>1. log' = log /\ log \in Seq(Types)
      BY <1>11 DEF Return, pubVars, BusTypes
    <3> QED BY <3>1, FailureCount
  <2>2. IsFiniteSet(waiting')
    BY <1>6, <1>11, FS_AddElement
  <2>3. Cardinality(OpenCalls') \in Nat /\ Cardinality(OpenCalls') <= Cardinality(OpenCalls) + one
    <3>1. CASE t.type = FailureType
      <4>1. OpenCalls' = OpenCalls
        BY <1>11, <3>1 DEF OpenCalls
      <4> QED BY <1>8, <3>1, <4>1
    <3>2. CASE t.type # FailureType
      <4>1. OpenCalls' = OpenCalls \cup {t}
        BY <1>11, <3>2 DEF OpenCalls
      <4>2. Cardinality(OpenCalls') =
              IF t \in OpenCalls THEN Cardinality(OpenCalls) ELSE Cardinality(OpenCalls) + 1
        BY <1>6, <4>1, FS_AddElement
      <4> QED BY <1>8, <3>2, <4>2
    <3> QED BY <3>1, <3>2
  <2> HIDE DEF one
  <2>4. Cardinality(FailureEvents') + Cardinality(OpenCalls') <= Cardinality(OrdinaryCalls')
    BY <1>7, <1>8, <1>9, <2>1, <2>3
  <2> QED BY <1>7, <2>2, <2>4 DEF FailInv
<1> QED BY <1>4, <1>10, <1>11

LEMMA EndFails ==
  ASSUME BusTypes, LoggedInv, FailInv, NEW t \in waiting, End(t)
  PROVE  FailInv'
<1> DEFINE one == IF t.type # FailureType THEN 1 ELSE 0
<1>1. /\ waiting' = waiting \ {t} /\ begun' = begun
      /\ Return(ready) \/ Fail(t, ready)
  BY DEF End
<1>2. t \in Tasks /\ log \in Seq(Types)
  BY DEF BusTypes
<1>3. /\ Cardinality(FailureEvents') \in Nat
      /\ Cardinality(FailureEvents') <= Cardinality(FailureEvents) + one
      /\ log' \in Seq(Types) /\ \A i \in 1..Len(log) : log'[i] = log[i]
  BY <1>1, <1>2, EndingCount
<1>4. OrdinaryCalls' = OrdinaryCalls
  BY <1>1, <1>3, CallsKept
<1>5. IsFiniteSet(waiting) /\ IsFiniteSet(OpenCalls) /\ IsFiniteSet(OrdinaryCalls)
  BY OpenCount DEF FailInv
<1>6. /\ Cardinality(FailureEvents) \in Nat /\ Cardinality(OpenCalls) \in Nat
      /\ Cardinality(OrdinaryCalls) \in Nat /\ one \in 0..1
  BY <1>2, <1>5, FailureCount, FS_CardinalityType
<1>7. Cardinality(FailureEvents) + Cardinality(OpenCalls) <= Cardinality(OrdinaryCalls)
  BY DEF FailInv
<1>8. IsFiniteSet(waiting') /\ Cardinality(OpenCalls') = Cardinality(OpenCalls) - one
  <2>1. IsFiniteSet(waiting')
    BY <1>1, <1>5, FS_RemoveElement
  <2>2. CASE t.type = FailureType
    <3>1. OpenCalls' = OpenCalls
      BY <1>1, <2>2 DEF OpenCalls
    <3> QED BY <1>6, <2>1, <2>2, <3>1
  <2>3. CASE t.type # FailureType
    <3>1. OpenCalls' = OpenCalls \ {t} /\ t \in OpenCalls
      BY <1>1, <2>3 DEF OpenCalls
    <3> QED BY <1>5, <2>1, <2>3, <3>1, FS_RemoveElement
  <2> QED BY <2>2, <2>3
<1> HIDE DEF one
<1>9. Cardinality(FailureEvents') + Cardinality(OpenCalls') <= Cardinality(OrdinaryCalls')
  BY <1>3, <1>4, <1>6, <1>7, <1>8
<1> QED BY <1>4, <1>5, <1>8, <1>9 DEF FailInv

LEMMA FailInvStep == BusInv /\ FailInv /\ [Next]_vars => FailInv'
<1> SUFFICES ASSUME BusInv, FailInv, [Next]_vars PROVE FailInv'
  OBVIOUS
<1>1. BusTypes /\ LoggedInv
  BY DEF BusInv
<1>2. ASSUME begun' = begun, log' = log, waiting' \subseteq waiting PROVE FailInv'
  BY <1>1, <1>2, NoneFails
<1>3. CASE UNCHANGED vars
  BY <1>2, <1>3 DEF vars, pubVars
<1>4. ASSUME NEW type \in Types \ {FailureType}, Publish(type) PROVE FailInv'
  <2>1. begun' = begun /\ waiting' = waiting /\ log' = Append(log, type)
    BY <1>4 DEF Publish, Emit
  <2> QED BY <1>1, <2>1, NoneFails
<1>5. ASSUME NEW p \in Patterns, NEW c \in Callbacks, Subscribe(p, c) \/ Unsubscribe(p, c) PROVE FailInv'
  BY <1>2, <1>5 DEF Subscribe, Unsubscribe, pubVars
<1>6. ASSUME NEW p \in Patterns, NEW c \in Callbacks, NEW limit \in 1..MaxHistory,
             SubscribeWithReplay(p, c, limit)
      PROVE  FailInv'
  BY <1>2, <1>6 DEF SubscribeWithReplay, pubVars
<1>7. ASSUME Begin PROVE FailInv'
  BY <1>1, <1>7, BeginFails
<1>8. ASSUME NEW t \in waiting, End(t) PROVE FailInv'
  BY <1>1, <1>8, EndFails
<1>9. ASSUME WaitBegin \/ WaitEnd \/ WaitTimeout PROVE FailInv'
  BY <1>2, <1>9 DEF WaitBegin, WaitEnd, WaitTimeout, pubVars
<1> QED BY <1>3, <1>4, <1>5, <1>6, <1>7, <1>8, <1>9 DEF Next, Run

(* Failures do not multiply: there are never more failure events than      *)
(* calls of callbacks with ordinary events, whoever subscribes to them.    *)
THEOREM FailuresDoNotMultiply == Spec => []FailuresBounded
<1>1. BusInv /\ FailInv => FailuresBounded
  <2> SUFFICES ASSUME BusInv, FailInv PROVE FailuresBounded
    OBVIOUS
  <2>1. log \in Seq(Types)
    BY DEF BusInv, BusTypes
  <2>2. /\ Cardinality(FailureEvents) \in Nat /\ Cardinality(OpenCalls) \in Nat
        /\ Cardinality(OrdinaryCalls) \in Nat
    BY <2>1, FailureCount, OpenCount, FS_CardinalityType DEF FailInv
  <2>3. Cardinality(FailureEvents) + Cardinality(OpenCalls) <= Cardinality(OrdinaryCalls)
    BY DEF FailInv
  <2> QED BY <2>2, <2>3 DEF FailuresBounded
<1>2. Init => FailInv
  BY FailInvInit
<1>3. BusInv /\ FailInv /\ [Next]_vars => FailInv'
  BY FailInvStep
<1> QED BY <1>1, <1>2, <1>3, BusInvariance, PTL DEF Spec
=============================================================================
