---------------------------- MODULE ListsProofs ----------------------------
(***************************************************************************)
(* What the functions of Lists return, for all lists.  They recurse over a *)
(* list; the arguments go by the least number where a claim could fail.    *)
(***************************************************************************)
EXTENDS Lists, Functions, WellFoundedInduction, SequenceTheorems, TLAPS

(* A property that some number has, a least number has.                    *)
LEMMA LeastNat ==
  ASSUME NEW S \in SUBSET Nat, S # {}
  PROVE  \E n \in S : \A m \in S : n <= m
<1> DEFINE Less == OpToRel(<, Nat)
<1>1. IsWellFoundedOn(Less, Nat)
  BY NatLessThanWellFounded
<1>2. \A n, m \in Nat : m < n => <<m, n>> \in Less
  BY DEF OpToRel
<1> HIDE DEF Less
<1>3. \E n \in S : \A m \in S : ~ (<<m, n>> \in Less)
  BY <1>1, WFMin, Zenon
<1>4. PICK n \in S : \A m \in S : ~ (<<m, n>> \in Less)
  BY <1>3
<1>5. ASSUME NEW m \in S PROVE n <= m
  <2>1. ~ (m < n)
    BY <1>2, <1>4
  <2> QED BY <2>1
<1> QED BY <1>5

-----------------------------------------------------------------------------
(* The loop that builds Kept(s, S): kept is what it holds after each       *)
(* element.                                                                *)
KeptLoop(s, S, kept, m) ==
    kept = [n \in 0..m |-> IF n = 0 THEN <<>>
                           ELSE IF s[n] \in S THEN Append(kept[n - 1], s[n]) ELSE kept[n - 1]]

LEMMA KeptLoopExists ==
  ASSUME NEW s, NEW S, Len(s) \in Nat
  PROVE  \E g : KeptLoop(s, S, g, Len(s))
<1> DEFINE Stuck == {m \in Nat : ~ \E g : KeptLoop(s, S, g, m)}
<1> SUFFICES ASSUME Stuck # {} PROVE FALSE
  OBVIOUS
<1>1. PICK m \in Stuck : \A n \in Stuck : m <= n
  <2>1. Stuck \in SUBSET Nat
    OBVIOUS
  <2> HIDE DEF Stuck
  <2> QED BY <2>1, LeastNat
<1>2. m # 0
  <2>1. KeptLoop(s, S, [n \in 0..0 |-> <<>>], 0)
    BY DEF KeptLoop
  <2> QED BY <2>1
<1>3. PICK g : KeptLoop(s, S, g, m - 1)
  <2>1. m - 1 \in Nat /\ m - 1 \notin Stuck
    BY <1>1, <1>2
  <2> QED BY <2>1
<1> DEFINE last == IF s[m] \in S THEN Append(g[m - 1], s[m]) ELSE g[m - 1]
           h == [n \in 0..m |-> IF n = m THEN last ELSE g[n]]
<1>4. ASSUME NEW n \in 0..m
      PROVE  h[n] = IF n = 0 THEN <<>>
                    ELSE IF s[n] \in S THEN Append(h[n - 1], s[n]) ELSE h[n - 1]
  <2>1. CASE n = m
    BY <1>2, <2>1
  <2>2. CASE n # m
    <3>1. n \in 0..(m - 1)
      BY <1>1, <2>2
    <3>2. h[n] = g[n]
      BY <2>2
    <3>3. n # 0 => h[n - 1] = g[n - 1]
      BY <3>1
    <3>4. g[n] = IF n = 0 THEN <<>>
                 ELSE IF s[n] \in S THEN Append(g[n - 1], s[n]) ELSE g[n - 1]
      BY <1>3, <3>1 DEF KeptLoop
    <3> QED BY <3>2, <3>3, <3>4
  <2> QED BY <2>1, <2>2
<1>5. KeptLoop(s, S, h, m)
  <2> DEFINE w == [n \in 0..m |-> IF n = 0 THEN <<>>
                                  ELSE IF s[n] \in S THEN Append(h[n - 1], s[n]) ELSE h[n - 1]]
  <2>1. \A n \in 0..m : h[n] = w[n]
    BY <1>4
  <2>2. h = w
    BY <2>1
  <2> QED BY <2>2 DEF KeptLoop
<1> QED BY <1>5

(* Kept(s, S) is what the loop ends with.                                  *)
LEMMA KeptRuns ==
  ASSUME NEW s, NEW S, Len(s) \in Nat
  PROVE  \E g : KeptLoop(s, S, g, Len(s)) /\ Kept(s, S) = g[Len(s)]
<1>1. PICK g : KeptLoop(s, S, g, Len(s))
  BY KeptLoopExists
<1> DEFINE k == CHOOSE h : h = [n \in 0..Len(s) |-> IF n = 0 THEN <<>>
                           ELSE IF s[n] \in S THEN Append(h[n - 1], s[n]) ELSE h[n - 1]]
<1>2. Kept(s, S) = k[Len(s)]
  BY DEF Kept
<1>3. k = [n \in 0..Len(s) |-> IF n = 0 THEN <<>>
                           ELSE IF s[n] \in S THEN Append(k[n - 1], s[n]) ELSE k[n - 1]]
  BY <1>1, Zenon DEF KeptLoop
<1> HIDE DEF k
<1>4. KeptLoop(s, S, k, Len(s))
  BY <1>3, Zenon DEF KeptLoop
<1> QED BY <1>2, <1>4

(* A list k that was filtered from the first n elements of s.              *)
Filtered(T, s, S, n, k) ==
    /\ k \in Seq(T)
    /\ \A i \in 1..Len(k) : k[i] \in S /\ \E j \in 1..n : s[j] = k[i]
    /\ \A j \in 1..n : s[j] \in S => \E i \in 1..Len(k) : k[i] = s[j]
    /\ IsInjective(s) => IsInjective(k)

(* What a comprehension returns.                                           *)
LEMMA KeptIs ==
  ASSUME NEW T, NEW s \in Seq(T), NEW S
  PROVE  Filtered(T, s, S, Len(s), Kept(s, S))
<1>0. Len(s) \in Nat
  OBVIOUS
<1>1. PICK k : KeptLoop(s, S, k, Len(s)) /\ Kept(s, S) = k[Len(s)]
  BY <1>0, KeptRuns
<1>2. Kept(s, S) = k[Len(s)]
  BY <1>1
<1>3. k = [n \in 0..Len(s) |-> IF n = 0 THEN <<>>
                           ELSE IF s[n] \in S THEN Append(k[n - 1], s[n]) ELSE k[n - 1]]
  BY <1>1 DEF KeptLoop
<1>4. k[0] = <<>>
  BY <1>0, <1>3
<1>5. \A n \in 1..Len(s) : k[n] = IF s[n] \in S THEN Append(k[n - 1], s[n]) ELSE k[n - 1]
  <2> TAKE n \in 1..Len(s)
  <2>1. n \in 0..Len(s) /\ n # 0
    OBVIOUS
  <2> QED BY <1>3, <2>1
<1> DEFINE Wrong == {n \in 0..Len(s) : ~ Filtered(T, s, S, n, k[n])}
<1>6. Wrong = {}
  <2> SUFFICES ASSUME Wrong # {} PROVE FALSE
    OBVIOUS
  <2>1. PICK n \in Wrong : \A i \in Wrong : n <= i
    <3>1. Wrong \in SUBSET Nat
      OBVIOUS
    <3> HIDE DEF Wrong
    <3> QED BY <3>1, LeastNat
  <2>2. Filtered(T, s, S, 0, k[0])
    BY <1>4 DEF Filtered, IsInjective
  <2>3. n \in 1..Len(s)
    BY <2>2
  <2>4. n - 1 \in 0..Len(s) /\ n - 1 \notin Wrong
    BY <2>1, <2>3
  <2>5. Filtered(T, s, S, n - 1, k[n - 1])
    BY <2>4
  <2> DEFINE old == k[n - 1]
             new == k[n]
  <2>6. s[n] \in T /\ new = IF s[n] \in S THEN Append(old, s[n]) ELSE old
    BY <1>5, <2>3
  <2>7. \A j \in 1..n : j \in 1..(n - 1) \/ j = n
    BY <2>3
  <2>8. \A j \in 1..(n - 1) : j \in 1..n /\ j \in 1..Len(s) /\ j # n
    BY <2>3
  <2> HIDE DEF old, new
  <2>9. CASE s[n] \notin S
    <3>1. new = old /\ Filtered(T, s, S, n - 1, old)
      BY <2>5, <2>6, <2>9 DEF old
    <3>2. Filtered(T, s, S, n, new)
      BY <2>7, <2>8, <2>9, <3>1 DEF Filtered
    <3> QED BY <3>2 DEF new
  <2>10. CASE s[n] \in S
    <3>1. new = Append(old, s[n]) /\ Filtered(T, s, S, n - 1, old)
      BY <2>5, <2>6, <2>10 DEF old
    <3>2. /\ old \in Seq(T) /\ new \in Seq(T) /\ Len(old) \in Nat /\ Len(new) = Len(old) + 1
          /\ new[Len(old) + 1] = s[n] /\ \A i \in 1..Len(old) : new[i] = old[i]
          /\ \A i \in 1..Len(new) : i \in 1..Len(old) \/ i = Len(old) + 1
      BY <2>6, <3>1 DEF Filtered
    <3>3. \A i \in 1..Len(new) : new[i] \in S /\ \E j \in 1..n : s[j] = new[i]
      BY <2>3, <2>8, <2>10, <3>1, <3>2 DEF Filtered
    <3>4. ASSUME NEW j \in 1..n, s[j] \in S PROVE \E i \in 1..Len(new) : new[i] = s[j]
      <4>1. CASE j = n
        BY <3>2, <4>1
      <4>2. CASE j # n
        <5>1. PICK i \in 1..Len(old) : old[i] = s[j]
          BY <2>7, <3>1, <3>4, <4>2 DEF Filtered
        <5> QED BY <3>2, <5>1
      <4> QED BY <4>1, <4>2
    <3>5. ASSUME IsInjective(s) PROVE IsInjective(new)
      <4>1. \A i \in 1..Len(old) : old[i] # s[n]
        <5>1. \A j \in 1..(n - 1) : s[j] # s[n]
          BY <2>3, <2>8, <3>5 DEF IsInjective
        <5> QED BY <3>1, <5>1 DEF Filtered
      <4>2. \A i, j \in 1..Len(old) : old[i] = old[j] => i = j
        BY <3>1, <3>2, <3>5 DEF Filtered, IsInjective
      <4>3. DOMAIN new = 1..Len(new)
        BY <3>2
      <4> QED BY <3>2, <4>1, <4>2, <4>3 DEF IsInjective
    <3>6. Filtered(T, s, S, n, new)
      BY <3>2, <3>3, <3>4, <3>5 DEF Filtered
    <3> QED BY <3>6 DEF new
  <2> QED BY <2>9, <2>10
<1>7. Len(s) \in 0..Len(s)
  BY <1>0
<1> QED BY <1>2, <1>6, <1>7

-----------------------------------------------------------------------------
(* The loop that builds Joined(ss).                                        *)
JoinedLoop(ss, joined, m) ==
    joined = [n \in 0..m |-> IF n = 0 THEN <<>> ELSE joined[n - 1] \o ss[n]]

LEMMA JoinedLoopExists ==
  ASSUME NEW ss, Len(ss) \in Nat
  PROVE  \E g : JoinedLoop(ss, g, Len(ss))
<1> DEFINE Stuck == {m \in Nat : ~ \E g : JoinedLoop(ss, g, m)}
<1> SUFFICES ASSUME Stuck # {} PROVE FALSE
  OBVIOUS
<1>1. PICK m \in Stuck : \A n \in Stuck : m <= n
  <2>1. Stuck \in SUBSET Nat
    OBVIOUS
  <2> HIDE DEF Stuck
  <2> QED BY <2>1, LeastNat
<1>2. m # 0
  <2>1. JoinedLoop(ss, [n \in 0..0 |-> <<>>], 0)
    BY DEF JoinedLoop
  <2> QED BY <2>1
<1>3. PICK g : JoinedLoop(ss, g, m - 1)
  <2>1. m - 1 \in Nat /\ m - 1 \notin Stuck
    BY <1>1, <1>2
  <2> QED BY <2>1
<1> DEFINE h == [n \in 0..m |-> IF n = m THEN g[m - 1] \o ss[m] ELSE g[n]]
<1>4. ASSUME NEW n \in 0..m
      PROVE  h[n] = IF n = 0 THEN <<>> ELSE h[n - 1] \o ss[n]
  <2>1. CASE n = m
    BY <1>2, <2>1
  <2>2. CASE n # m
    <3>1. n \in 0..(m - 1)
      BY <1>1, <2>2
    <3>2. h[n] = g[n]
      BY <2>2
    <3>3. n # 0 => h[n - 1] = g[n - 1]
      BY <3>1
    <3>4. g[n] = IF n = 0 THEN <<>> ELSE g[n - 1] \o ss[n]
      BY <1>3, <3>1 DEF JoinedLoop
    <3> QED BY <3>2, <3>3, <3>4
  <2> QED BY <2>1, <2>2
<1>5. JoinedLoop(ss, h, m)
  <2> DEFINE w == [n \in 0..m |-> IF n = 0 THEN <<>> ELSE h[n - 1] \o ss[n]]
  <2>1. \A n \in 0..m : h[n] = w[n]
    BY <1>4
  <2>2. h = w
    BY <2>1
  <2> QED BY <2>2 DEF JoinedLoop
<1> QED BY <1>5

(* Joined(ss) is what the loop ends with.                                  *)
LEMMA JoinedRuns ==
  ASSUME NEW ss, Len(ss) \in Nat
  PROVE  \E g : JoinedLoop(ss, g, Len(ss)) /\ Joined(ss) = g[Len(ss)]
<1>1. PICK g : JoinedLoop(ss, g, Len(ss))
  BY JoinedLoopExists
<1> DEFINE k == CHOOSE h : h = [n \in 0..Len(ss) |-> IF n = 0 THEN <<>> ELSE h[n - 1] \o ss[n]]
<1>2. Joined(ss) = k[Len(ss)]
  BY DEF Joined
<1>3. k = [n \in 0..Len(ss) |-> IF n = 0 THEN <<>> ELSE k[n - 1] \o ss[n]]
  BY <1>1, Zenon DEF JoinedLoop
<1> HIDE DEF k
<1>4. JoinedLoop(ss, k, Len(ss))
  BY <1>3, Zenon DEF JoinedLoop
<1> QED BY <1>2, <1>4

(* What a chain of extends returns.                                        *)
LEMMA JoinedIs ==
  ASSUME NEW T, NEW ss \in Seq(Seq(T))
  PROVE  Joined(ss) \in Seq(T)
<1>0. Len(ss) \in Nat
  OBVIOUS
<1>1. PICK k : JoinedLoop(ss, k, Len(ss)) /\ Joined(ss) = k[Len(ss)]
  BY <1>0, JoinedRuns
<1>2. Joined(ss) = k[Len(ss)]
  BY <1>1
<1>3. k = [n \in 0..Len(ss) |-> IF n = 0 THEN <<>> ELSE k[n - 1] \o ss[n]]
  BY <1>1 DEF JoinedLoop
<1> DEFINE Wrong == {n \in 0..Len(ss) : k[n] \notin Seq(T)}
<1>4. Wrong = {}
  <2> SUFFICES ASSUME Wrong # {} PROVE FALSE
    OBVIOUS
  <2>1. PICK n \in Wrong : \A i \in Wrong : n <= i
    <3>1. Wrong \in SUBSET Nat
      OBVIOUS
    <3> HIDE DEF Wrong
    <3> QED BY <3>1, LeastNat
  <2>2. k[0] \in Seq(T)
    <3>1. k[0] = <<>>
      BY <1>0, <1>3
    <3> QED BY <3>1
  <2>3. n \in 1..Len(ss)
    BY <2>2
  <2>4. n - 1 \in 0..Len(ss) /\ n - 1 \notin Wrong
    BY <2>1, <2>3
  <2>5. k[n - 1] \in Seq(T) /\ ss[n] \in Seq(T)
    BY <2>3, <2>4
  <2>6. k[n] = k[n - 1] \o ss[n]
    <3>1. n \in 0..Len(ss) /\ n # 0
      BY <2>3
    <3> QED BY <1>3, <3>1
  <2>7. k[n] \in Seq(T)
    BY <2>5, <2>6
  <2> QED BY <2>7
<1>5. Len(ss) \in 0..Len(ss)
  BY <1>0
<1> QED BY <1>2, <1>4, <1>5

-----------------------------------------------------------------------------
(* The first n elements of a list.                                         *)
LEMMA FrontIs ==
  ASSUME NEW T, NEW s \in Seq(T)
  PROVE  /\ SubSeq(s, 1, 0) = <<>> /\ SubSeq(s, 1, Len(s)) = s
         /\ \A n \in 0..Len(s) : SubSeq(s, 1, n) \in Seq(T) /\ Len(SubSeq(s, 1, n)) = n
         /\ \A n \in 1..Len(s) : SubSeq(s, 1, n) = Append(SubSeq(s, 1, n - 1), s[n])
<1>1. SubSeq(s, 1, 0) = <<>> /\ SubSeq(s, 1, Len(s)) = s
  OBVIOUS
<1>2. ASSUME NEW n \in 0..Len(s) PROVE SubSeq(s, 1, n) \in Seq(T) /\ Len(SubSeq(s, 1, n)) = n
  OBVIOUS
<1>3. ASSUME NEW n \in 1..Len(s) PROVE SubSeq(s, 1, n) = Append(SubSeq(s, 1, n - 1), s[n])
  OBVIOUS
<1> QED BY <1>1, <1>2, <1>3

(* What is behind a place of a list.                                       *)
LEMMA BehindIs ==
  ASSUME NEW T, NEW s \in Seq(T), NEW n \in 1..Len(s)
  PROVE  /\ SubSeq(s, n + 1, Len(s)) \in Seq(T) /\ Len(SubSeq(s, n + 1, Len(s))) = Len(s) - n
         /\ \A k \in 1..Len(s) - n : SubSeq(s, n + 1, Len(s))[k] = s[n + k]
<1>1. n + 1 \in Int /\ Len(s) \in Int /\ \A i \in n + 1..Len(s) : s[i] \in T
  OBVIOUS
<1>2. /\ SubSeq(s, n + 1, Len(s)) \in Seq(T)
      /\ Len(SubSeq(s, n + 1, Len(s))) = IF n + 1 <= Len(s) THEN Len(s) - (n + 1) + 1 ELSE 0
      /\ \A i \in 1..Len(s) - (n + 1) + 1 : SubSeq(s, n + 1, Len(s))[i] = s[n + 1 + i - 1]
  BY <1>1, SubSeqProperties
<1>3. ASSUME NEW l \in Nat, n \in 1..l
      PROVE  (IF n + 1 <= l THEN l - (n + 1) + 1 ELSE 0) = l - n
  BY <1>3
<1>4. \A k \in 1..Len(s) - n : k \in 1..Len(s) - (n + 1) + 1 /\ n + 1 + k - 1 = n + k
  OBVIOUS
<1> QED BY <1>2, <1>3, <1>4

(* A comprehension over one element more.                                  *)
LEMMA KeptOfNone == \A S : Kept(<<>>, S) = <<>>
<1> SUFFICES ASSUME NEW S PROVE Kept(<<>>, S) = <<>>
  OBVIOUS
<1>1. PICK g : KeptLoop(<<>>, S, g, 0) /\ Kept(<<>>, S) = g[0]
  BY KeptRuns
<1> QED BY <1>1 DEF KeptLoop

LEMMA KeptOfMore ==
  ASSUME NEW T, NEW s \in Seq(T), NEW x \in T, NEW S
  PROVE  Kept(Append(s, x), S) = IF x \in S THEN Append(Kept(s, S), x) ELSE Kept(s, S)
<1> DEFINE more == Append(s, x)
           m == Len(s)
<1>0. /\ m \in Nat /\ Len(more) = m + 1 /\ more[m + 1] = x
      /\ \A i \in 1..m : more[i] = s[i] /\ i \in 1..m + 1
  OBVIOUS
<1>1. PICK g : KeptLoop(s, S, g, m) /\ Kept(s, S) = g[m]
  BY <1>0, KeptRuns
<1> HIDE DEF more, m
<1>2. PICK h : KeptLoop(more, S, h, m + 1) /\ Kept(more, S) = h[m + 1]
  <2>1. Len(more) \in Nat
    BY <1>0
  <2>2. \E h : KeptLoop(more, S, h, Len(more)) /\ Kept(more, S) = h[Len(more)]
    BY <2>1, KeptRuns
  <2> QED BY <1>0, <2>2
<1>3. /\ g[0] = <<>> /\ h[0] = <<>>
      /\ \A i \in 1..m : g[i] = IF s[i] \in S THEN Append(g[i - 1], s[i]) ELSE g[i - 1]
      /\ \A i \in 1..m + 1 : h[i] = IF more[i] \in S THEN Append(h[i - 1], more[i]) ELSE h[i - 1]
  <2>1. 0 \in 0..m /\ 0 \in 0..m + 1 /\ \A i \in 1..m + 1 : i # 0 /\ i \in 0..m + 1
    BY <1>0
  <2>2. \A i \in 1..m : i # 0 /\ i \in 0..m
    BY <1>0
  <2>3. /\ \A i \in 0..m : g[i] = IF i = 0 THEN <<>>
                          ELSE IF s[i] \in S THEN Append(g[i - 1], s[i]) ELSE g[i - 1]
        /\ \A i \in 0..m + 1 : h[i] = IF i = 0 THEN <<>>
                          ELSE IF more[i] \in S THEN Append(h[i - 1], more[i]) ELSE h[i - 1]
    BY <1>1, <1>2, Zenon DEF KeptLoop
  <2> QED BY <2>1, <2>2, <2>3, Zenon
<1> DEFINE Wrong == {i \in 0..m : g[i] # h[i]}
<1>4. Wrong = {}
  <2> SUFFICES ASSUME Wrong # {} PROVE FALSE
    OBVIOUS
  <2>1. PICK i \in Wrong : \A j \in Wrong : i <= j
    <3>1. Wrong \in SUBSET Nat
      BY <1>0
    <3> HIDE DEF Wrong
    <3> QED BY <3>1, LeastNat
  <2>2. i \in 1..m
    BY <1>0, <1>3
  <2>3. i - 1 \in 0..m /\ i - 1 \notin Wrong
    BY <1>0, <2>1, <2>2
  <2>4. g[i - 1] = h[i - 1] /\ more[i] = s[i]
    BY <1>0, <2>2, <2>3
  <2>5. g[i] = h[i]
    BY <1>0, <1>3, <2>2, <2>4
  <2> QED BY <2>5
<1>5. g[m] = h[m] /\ m + 1 \in 1..m + 1
  BY <1>0, <1>4
<1>6. h[m + 1] = IF x \in S THEN Append(h[m], x) ELSE h[m]
  BY <1>0, <1>3, <1>5
<1> QED BY <1>1, <1>2, <1>5, <1>6 DEF more

LEMMA KeptTyped ==
  ASSUME NEW T, NEW s \in Seq(T), NEW S
  PROVE  Kept(s, S) \in Seq(T)
BY KeptIs DEF Filtered

LEMMA KeptFront ==
  ASSUME NEW T, NEW s \in Seq(T), NEW S, NEW n \in 1..Len(s)
  PROVE  Kept(SubSeq(s, 1, n), S) =
           IF s[n] \in S THEN Append(Kept(SubSeq(s, 1, n - 1), S), s[n])
           ELSE Kept(SubSeq(s, 1, n - 1), S)
<1>1. n - 1 \in 0..Len(s) /\ s[n] \in T
  OBVIOUS
<1>2. SubSeq(s, 1, n - 1) \in Seq(T) /\ SubSeq(s, 1, n) = Append(SubSeq(s, 1, n - 1), s[n])
  BY <1>1, FrontIs
<1>3. PICK u \in Seq(T), x \in T : u = SubSeq(s, 1, n - 1) /\ x = s[n]
  BY <1>1, <1>2
<1>4. Kept(Append(u, x), S) = IF x \in S THEN Append(Kept(u, S), x) ELSE Kept(u, S)
  BY KeptOfMore
<1> QED BY <1>2, <1>3, <1>4, Zenon

LEMMA AppendLast ==
  ASSUME NEW T, NEW s \in Seq(T), NEW t \in Seq(T), NEW x \in T
  PROVE  s \o Append(t, x) = Append(s \o t, x)
OBVIOUS

(* A comprehension over two lists, one after the other.                    *)
LEMMA KeptConcat ==
  ASSUME NEW T, NEW s \in Seq(T), NEW t \in Seq(T), NEW S
  PROVE  Kept(s \o t, S) = Kept(s, S) \o Kept(t, S)
<1> DEFINE front(n) == SubSeq(t, 1, n)
           Wrong == {n \in 0..Len(t) : Kept(s \o front(n), S) # Kept(s, S) \o Kept(front(n), S)}
<1>0. Len(t) \in Nat /\ front(0) = <<>> /\ front(Len(t)) = t
  BY FrontIs
<1>1. Wrong = {}
  <2> SUFFICES ASSUME Wrong # {} PROVE FALSE
    OBVIOUS
  <2>1. PICK n \in Wrong : \A j \in Wrong : n <= j
    <3>1. Wrong \in SUBSET Nat
      BY <1>0
    <3> HIDE DEF Wrong
    <3> QED BY <3>1, LeastNat
  <2>2. n # 0
    <3>1. Kept(s \o <<>>, S) = Kept(s, S) \o <<>>
      <4>1. Kept(s, S) \in Seq(T)
        BY KeptTyped
      <4>2. s \o <<>> = s /\ Kept(s, S) \o <<>> = Kept(s, S)
        BY <4>1
      <4> QED BY <4>2
    <3> QED BY <1>0, <3>1, KeptOfNone
  <2>3. n \in 1..Len(t) /\ n - 1 \in 0..Len(t) /\ n - 1 \notin Wrong
    <3> HIDE DEF front
    <3> QED BY <1>0, <2>1, <2>2
  <2>4. PICK u \in Seq(T), x \in T : u = front(n - 1) /\ x = t[n]
    <3>1. front(n - 1) \in Seq(T) /\ t[n] \in T
      BY <2>3, FrontIs
    <3> QED BY <3>1
  <2>5. front(n) = Append(u, x)
    BY <2>3, <2>4, FrontIs
  <2>6. Kept(s \o u, S) = Kept(s, S) \o Kept(u, S)
    BY <2>3, <2>4
  <2> HIDE DEF front, Wrong
  <2>7. s \o u \in Seq(T) /\ s \o Append(u, x) = Append(s \o u, x)
    BY AppendLast
  <2>8. Kept(s, S) \in Seq(T) /\ Kept(u, S) \in Seq(T)
    BY KeptTyped
  <2>9. Kept(s, S) \o Append(Kept(u, S), x) = Append(Kept(s, S) \o Kept(u, S), x)
    <3>1. PICK a \in Seq(T), b \in Seq(T) : a = Kept(s, S) /\ b = Kept(u, S)
      BY <2>8, Zenon
    <3>2. a \o Append(b, x) = Append(a \o b, x)
      BY AppendLast
    <3> QED BY <3>1, <3>2, Zenon
  <2>10. Kept(s \o front(n), S) = Kept(s, S) \o Kept(front(n), S)
    <3>1. Kept(Append(u, x), S) = IF x \in S THEN Append(Kept(u, S), x) ELSE Kept(u, S)
      BY KeptOfMore
    <3>2. Kept(Append(s \o u, x), S) =
            IF x \in S THEN Append(Kept(s \o u, S), x) ELSE Kept(s \o u, S)
      <4>1. PICK v \in Seq(T) : v = s \o u
        BY <2>7, Zenon
      <4>2. Kept(Append(v, x), S) = IF x \in S THEN Append(Kept(v, S), x) ELSE Kept(v, S)
        BY KeptOfMore
      <4> QED BY <4>1, <4>2, Zenon
    <3>3. CASE x \in S
      BY <2>5, <2>6, <2>7, <2>9, <3>1, <3>2, <3>3, Zenon
    <3>4. CASE x \notin S
      BY <2>5, <2>6, <2>7, <3>1, <3>2, <3>4, Zenon
    <3> QED BY <3>3, <3>4
  <2> QED BY <2>1, <2>10 DEF Wrong
<1>2. Len(t) \in 0..Len(t)
  BY <1>0
<1>3. Kept(s \o front(Len(t)), S) = Kept(s, S) \o Kept(front(Len(t)), S)
  BY <1>1, <1>2
<1> QED BY <1>0, <1>3

(* A comprehension keeps the order of its list: it picks ascending places. *)
Picked(s, S, n, k) ==
    \E f \in [1..Len(k) -> 1..n] :
        /\ \A i \in 1..Len(k) : k[i] = s[f[i]] /\ k[i] \in S
        /\ \A i, j \in 1..Len(k) : i < j => f[i] < f[j]

LEMMA KeptInOrder ==
  ASSUME NEW T, NEW s \in Seq(T), NEW S
  PROVE  Picked(s, S, Len(s), Kept(s, S))
<1> DEFINE k(n) == Kept(SubSeq(s, 1, n), S)
           Wrong == {n \in 0..Len(s) : ~ Picked(s, S, n, k(n))}
<1>0. Len(s) \in Nat /\ k(0) = <<>> /\ k(Len(s)) = Kept(s, S)
  <2>1. SubSeq(s, 1, 0) = <<>> /\ SubSeq(s, 1, Len(s)) = s /\ Len(s) \in Nat
    BY FrontIs
  <2> QED BY <2>1, KeptOfNone, Zenon
<1>1. Wrong = {}
  <2> SUFFICES ASSUME Wrong # {} PROVE FALSE
    OBVIOUS
  <2>1. PICK n \in Wrong : \A j \in Wrong : n <= j
    <3>1. Wrong \in SUBSET Nat
      BY <1>0
    <3> HIDE DEF Wrong
    <3> QED BY <3>1, LeastNat
  <2>2. n # 0
    <3>1. Picked(s, S, 0, <<>>)
      <4>1. <<>> \in [1..Len(<<>>) -> 1..0] /\ 1..Len(<<>>) = {}
        OBVIOUS
      <4> QED BY <4>1 DEF Picked
    <3> QED BY <1>0, <3>1
  <2>3. n \in 1..Len(s) /\ n - 1 \in 0..Len(s) /\ n - 1 \notin Wrong
    BY <1>0, <2>1, <2>2
  <2>4. PICK old \in Seq(T) : old = k(n - 1)
    BY <2>3, FrontIs, KeptTyped
  <2>5. PICK f \in [1..Len(old) -> 1..n - 1] :
          /\ \A i \in 1..Len(old) : old[i] = s[f[i]] /\ old[i] \in S
          /\ \A i, j \in 1..Len(old) : i < j => f[i] < f[j]
    BY <2>3, <2>4 DEF Picked
  <2>6. k(n) = IF s[n] \in S THEN Append(old, s[n]) ELSE old
    BY <2>3, <2>4, KeptFront
  <2> HIDE DEF k
  <2>7. CASE s[n] \notin S
    <3>1. f \in [1..Len(old) -> 1..n]
      BY <2>3
    <3>2. Picked(s, S, n, old)
      BY <2>5, <3>1 DEF Picked
    <3> QED BY <2>1, <2>6, <2>7, <3>2
  <2>8. CASE s[n] \in S
    <3> DEFINE new == Append(old, s[n])
               g == [i \in 1..Len(old) + 1 |-> IF i = Len(old) + 1 THEN n ELSE f[i]]
    <3>1. s[n] \in T /\ Len(old) \in Nat
      BY <2>3
    <3>2. /\ Len(new) = Len(old) + 1 /\ new[Len(old) + 1] = s[n]
          /\ \A i \in 1..Len(old) : new[i] = old[i]
          /\ \A i \in 1..Len(old) + 1 : i \in 1..Len(old) \/ i = Len(old) + 1
      BY <3>1
    <3> HIDE DEF new
    <3>3. g \in [1..Len(new) -> 1..n]
      BY <2>3, <2>5, <3>1, <3>2
    <3>4. \A i \in 1..Len(new) : new[i] = s[g[i]] /\ new[i] \in S
      BY <2>5, <2>8, <3>1, <3>2
    <3>5. \A i, j \in 1..Len(new) : i < j => g[i] < g[j]
      <4> SUFFICES ASSUME NEW i \in 1..Len(new), NEW j \in 1..Len(new), i < j PROVE g[i] < g[j]
        OBVIOUS
      <4>1. i \in 1..Len(old) /\ g[i] = f[i] /\ f[i] \in 1..n - 1
        <5>1. i \in 1..Len(old) /\ i # Len(old) + 1 /\ i \in 1..Len(old) + 1
          BY <3>1, <3>2
        <5> QED BY <2>5, <5>1
      <4>2. CASE j = Len(old) + 1
        BY <2>3, <3>1, <3>2, <4>1, <4>2
      <4>3. CASE j # Len(old) + 1
        BY <2>5, <3>1, <3>2, <4>1, <4>3
      <4> QED BY <4>2, <4>3
    <3> HIDE DEF g
    <3>6. Picked(s, S, n, new)
      BY <3>3, <3>4, <3>5 DEF Picked
    <3> QED BY <2>1, <2>6, <2>8, <3>6 DEF new
  <2> QED BY <2>7, <2>8
<1>2. Len(s) \in 0..Len(s)
  BY <1>0
<1>3. Picked(s, S, Len(s), k(Len(s)))
  BY <1>1, <1>2
<1> QED BY <1>0, <1>3

(* Two lists of one length, of which elements at the same places are kept: *)
(* what is kept of them comes from the same places.                        *)
Alike(s, S, t, V, n, k, l) ==
    /\ Len(k) = Len(l)
    /\ \A i \in 1..Len(k) : \E j \in 1..n : s[j] \in S /\ k[i] = s[j] /\ l[i] = t[j]

LEMMA KeptAlike ==
  ASSUME NEW T, NEW s \in Seq(T), NEW S, NEW U, NEW t \in Seq(U), NEW V,
         Len(s) = Len(t), \A i \in 1..Len(s) : s[i] \in S <=> t[i] \in V
  PROVE  Alike(s, S, t, V, Len(s), Kept(s, S), Kept(t, V))
<1> DEFINE k(n) == Kept(SubSeq(s, 1, n), S)
           l(n) == Kept(SubSeq(t, 1, n), V)
           Wrong == {n \in 0..Len(s) : ~ Alike(s, S, t, V, n, k(n), l(n))}
<1>0. /\ Len(s) \in Nat /\ k(0) = <<>> /\ l(0) = <<>>
      /\ k(Len(s)) = Kept(s, S) /\ l(Len(s)) = Kept(t, V)
  <2>1. /\ SubSeq(s, 1, 0) = <<>> /\ SubSeq(s, 1, Len(s)) = s /\ Len(s) \in Nat
        /\ SubSeq(t, 1, 0) = <<>> /\ SubSeq(t, 1, Len(t)) = t
    BY FrontIs
  <2> QED BY <2>1, KeptOfNone, Zenon
<1>1. Wrong = {}
  <2> SUFFICES ASSUME Wrong # {} PROVE FALSE
    OBVIOUS
  <2>1. PICK n \in Wrong : \A j \in Wrong : n <= j
    <3>1. Wrong \in SUBSET Nat
      BY <1>0
    <3> HIDE DEF Wrong
    <3> QED BY <3>1, LeastNat
  <2>2. n # 0
    BY <1>0 DEF Alike
  <2>3. n \in 1..Len(s) /\ n - 1 \in 0..Len(s) /\ n - 1 \notin Wrong
    BY <1>0, <2>1, <2>2
  <2>4. PICK old \in Seq(T) : old = k(n - 1)
    BY <2>3, FrontIs, KeptTyped
  <2>5. PICK was \in Seq(U) : was = l(n - 1)
    BY <2>3, FrontIs, KeptTyped
  <2>6. Alike(s, S, t, V, n - 1, old, was)
    BY <2>3, <2>4, <2>5
  <2>7. k(n) = IF s[n] \in S THEN Append(old, s[n]) ELSE old
    BY <2>3, <2>4, KeptFront
  <2>8. l(n) = IF s[n] \in S THEN Append(was, t[n]) ELSE was
    BY <2>3, <2>5, KeptFront
  <2>9. \A j \in 1..n - 1 : j \in 1..n
    BY <2>3
  <2> HIDE DEF k, l
  <2>10. CASE s[n] \notin S
    <3>1. Alike(s, S, t, V, n, old, was)
      BY <2>6, <2>9 DEF Alike
    <3> QED BY <2>1, <2>7, <2>8, <2>10, <3>1
  <2>11. CASE s[n] \in S
    <3>1. s[n] \in T /\ t[n] \in U /\ n \in 1..n
      BY <2>3
    <3>2. /\ Len(Append(old, s[n])) = Len(old) + 1 /\ Len(Append(was, t[n])) = Len(was) + 1
          /\ \A i \in 1..Len(old) : Append(old, s[n])[i] = old[i]
          /\ \A i \in 1..Len(was) : Append(was, t[n])[i] = was[i]
          /\ Append(old, s[n])[Len(old) + 1] = s[n] /\ Append(was, t[n])[Len(was) + 1] = t[n]
          /\ \A i \in 1..Len(old) + 1 : i \in 1..Len(old) \/ i = Len(old) + 1
      BY <3>1
    <3>3. Alike(s, S, t, V, n, Append(old, s[n]), Append(was, t[n]))
      <4> DEFINE more == Append(old, s[n])
                 moreWas == Append(was, t[n])
      <4>1. /\ Len(old) = Len(was)
            /\ \A i \in 1..Len(old) : \E j \in 1..n - 1 : s[j] \in S /\ old[i] = s[j] /\ was[i] = t[j]
        BY <2>6 DEF Alike
      <4>2. /\ Len(more) = Len(moreWas) /\ Len(more) = Len(old) + 1
            /\ \A i \in 1..Len(old) : more[i] = old[i] /\ moreWas[i] = was[i]
            /\ more[Len(old) + 1] = s[n] /\ moreWas[Len(old) + 1] = t[n]
        BY <3>2, <4>1
      <4> HIDE DEF more, moreWas
      <4>3. ASSUME NEW i \in 1..Len(old) + 1
            PROVE  \E j \in 1..n : s[j] \in S /\ more[i] = s[j] /\ moreWas[i] = t[j]
        <5>1. CASE i \in 1..Len(old)
          BY <2>9, <4>1, <4>2, <5>1
        <5>2. CASE i = Len(old) + 1
          BY <2>11, <3>1, <4>2, <5>2
        <5> QED BY <3>2, <5>1, <5>2
      <4> QED BY <4>2, <4>3 DEF Alike, more, moreWas
    <3> QED BY <2>1, <2>7, <2>8, <2>11, <3>3
  <2> QED BY <2>10, <2>11
<1>2. Len(s) \in 0..Len(s)
  BY <1>0
<1>3. Alike(s, S, t, V, Len(s), k(Len(s)), l(Len(s)))
  BY <1>1, <1>2
<1> QED BY <1>0, <1>3

(* Only whether the elements of a list are kept matters.                   *)
LEMMA KeptSame ==
  ASSUME NEW T, NEW s \in Seq(T), NEW S, NEW V, \A i \in 1..Len(s) : s[i] \in S <=> s[i] \in V
  PROVE  Kept(s, S) = Kept(s, V)
<1>1. Kept(s, S) \in Seq(T) /\ Kept(s, V) \in Seq(T)
  BY KeptTyped
<1>2. Alike(s, S, s, V, Len(s), Kept(s, S), Kept(s, V))
  BY KeptAlike
<1>3. /\ Len(Kept(s, S)) = Len(Kept(s, V))
      /\ \A i \in 1..Len(Kept(s, S)) : Kept(s, S)[i] = Kept(s, V)[i]
  BY <1>2 DEF Alike
<1> QED BY <1>1, <1>3, SeqEqual

(* A list of which nothing is kept.                                        *)
LEMMA KeptNothing ==
  ASSUME NEW T, NEW s \in Seq(T), NEW S, \A i \in 1..Len(s) : s[i] \notin S
  PROVE  Kept(s, S) = <<>>
<1>1. /\ Kept(s, S) \in Seq(T)
      /\ \A i \in 1..Len(Kept(s, S)) :
           Kept(s, S)[i] \in S /\ \E j \in 1..Len(s) : s[j] = Kept(s, S)[i]
  BY KeptIs DEF Filtered
<1>2. Len(Kept(s, S)) = 0
  <2>1. SUFFICES ASSUME Len(Kept(s, S)) # 0 PROVE FALSE
    OBVIOUS
  <2>2. 1 \in 1..Len(Kept(s, S))
    BY <1>1, <2>1
  <2> QED BY <1>1, <2>2
<1> QED BY <1>1, <1>2

-----------------------------------------------------------------------------
(* A chain of extends with one list more.                                  *)
LEMMA JoinedOfNone == Joined(<<>>) = <<>>
<1>1. PICK g : JoinedLoop(<<>>, g, 0) /\ Joined(<<>>) = g[0]
  BY JoinedRuns
<1> QED BY <1>1 DEF JoinedLoop

LEMMA JoinedOfMore ==
  ASSUME NEW T, NEW ss \in Seq(Seq(T)), NEW x \in Seq(T)
  PROVE  Joined(Append(ss, x)) = Joined(ss) \o x
<1> DEFINE more == Append(ss, x)
           m == Len(ss)
<1>0. /\ m \in Nat /\ Len(more) = m + 1 /\ more[m + 1] = x
      /\ \A i \in 1..m : more[i] = ss[i] /\ i \in 1..m + 1
  OBVIOUS
<1>1. PICK g : JoinedLoop(ss, g, m) /\ Joined(ss) = g[m]
  BY <1>0, JoinedRuns
<1> HIDE DEF more, m
<1>2. PICK h : JoinedLoop(more, h, m + 1) /\ Joined(more) = h[m + 1]
  <2>1. Len(more) \in Nat
    BY <1>0
  <2>2. \E h : JoinedLoop(more, h, Len(more)) /\ Joined(more) = h[Len(more)]
    BY <2>1, JoinedRuns
  <2> QED BY <1>0, <2>2
<1>3. /\ g[0] = <<>> /\ h[0] = <<>>
      /\ \A i \in 1..m : g[i] = g[i - 1] \o ss[i]
      /\ \A i \in 1..m + 1 : h[i] = h[i - 1] \o more[i]
  <2>1. 0 \in 0..m /\ 0 \in 0..m + 1 /\ \A i \in 1..m + 1 : i # 0 /\ i \in 0..m + 1
    BY <1>0
  <2>2. \A i \in 1..m : i # 0 /\ i \in 0..m
    BY <1>0
  <2>3. /\ \A i \in 0..m : g[i] = IF i = 0 THEN <<>> ELSE g[i - 1] \o ss[i]
        /\ \A i \in 0..m + 1 : h[i] = IF i = 0 THEN <<>> ELSE h[i - 1] \o more[i]
    BY <1>1, <1>2, Zenon DEF JoinedLoop
  <2> QED BY <2>1, <2>2, <2>3, Zenon
<1> DEFINE Wrong == {i \in 0..m : g[i] # h[i]}
<1>4. Wrong = {}
  <2> SUFFICES ASSUME Wrong # {} PROVE FALSE
    OBVIOUS
  <2>1. PICK i \in Wrong : \A j \in Wrong : i <= j
    <3>1. Wrong \in SUBSET Nat
      BY <1>0
    <3> HIDE DEF Wrong
    <3> QED BY <3>1, LeastNat
  <2>2. i \in 1..m
    BY <1>0, <1>3
  <2>3. i - 1 \in 0..m /\ i - 1 \notin Wrong
    BY <1>0, <2>1, <2>2
  <2>4. g[i - 1] = h[i - 1] /\ more[i] = ss[i]
    BY <1>0, <2>2, <2>3
  <2>5. g[i] = h[i]
    BY <1>0, <1>3, <2>2, <2>4
  <2> QED BY <2>5
<1>5. g[m] = h[m] /\ m + 1 \in 1..m + 1
  BY <1>0, <1>4
<1>6. h[m + 1] = h[m] \o x
  <2>1. h[m + 1] = h[(m + 1) - 1] \o more[m + 1]
    BY <1>3, <1>5, Zenon
  <2>2. (m + 1) - 1 = m
    BY <1>0
  <2> QED BY <1>0, <2>1, <2>2
<1> QED BY <1>1, <1>2, <1>5, <1>6 DEF more

(* The elements that a comprehension keeps, each replaced by a list: a     *)
(* loop that extends with the list of an element or with nothing.          *)
Images(f, k) == [i \in DOMAIN k |-> f[k[i]]]
ImagesIf(f, s, S) == [n \in DOMAIN s |-> IF s[n] \in S THEN f[s[n]] ELSE <<>>]

LEMMA JoinedKept ==
  ASSUME NEW T, NEW s \in Seq(T), NEW S, NEW U, NEW f \in [T -> Seq(U)]
  PROVE  Joined(Images(f, Kept(s, S))) = Joined(ImagesIf(f, s, S))
<1> DEFINE whole == [n \in DOMAIN s |-> IF s[n] \in S THEN f[s[n]] ELSE <<>>]
           k(n) == Kept(SubSeq(s, 1, n), S)
           A(n) == [i \in DOMAIN k(n) |-> f[k(n)[i]]]
           B(n) == SubSeq(whole, 1, n)
           Wrong == {n \in 0..Len(s) : Joined(A(n)) # Joined(B(n))}
<1>0. Len(s) \in Nat /\ k(0) = <<>> /\ k(Len(s)) = Kept(s, S)
  <2>1. SubSeq(s, 1, 0) = <<>> /\ SubSeq(s, 1, Len(s)) = s /\ Len(s) \in Nat
    BY FrontIs
  <2> QED BY <2>1, KeptOfNone, Zenon
<1>1. whole \in Seq(Seq(U)) /\ Len(whole) = Len(s) /\ \A n \in 1..Len(s) : whole[n] = IF s[n] \in S THEN f[s[n]] ELSE <<>>
  <2>1. DOMAIN s = 1..Len(s) /\ \A n \in 1..Len(s) : s[n] \in T /\ f[s[n]] \in Seq(U)
    OBVIOUS
  <2>2. <<>> \in Seq(U)
    OBVIOUS
  <2>3. whole \in [1..Len(s) -> Seq(U)]
    BY <2>1, <2>2
  <2> QED BY <1>0, <2>1, <2>3
<1>2. \A n \in 0..Len(s) : k(n) \in Seq(T)
  <2> SUFFICES ASSUME NEW n \in 0..Len(s) PROVE k(n) \in Seq(T)
    OBVIOUS
  <2>1. SubSeq(s, 1, n) \in Seq(T)
    BY FrontIs
  <2> QED BY <2>1, KeptTyped
<1>3. \A n \in 0..Len(s) : A(n) \in Seq(Seq(U)) /\ B(n) \in Seq(Seq(U))
  <2> SUFFICES ASSUME NEW n \in 0..Len(s) PROVE A(n) \in Seq(Seq(U)) /\ B(n) \in Seq(Seq(U))
    OBVIOUS
  <2>1. B(n) \in Seq(Seq(U))
    BY <1>1, FrontIs
  <2>2. PICK w \in Seq(T) : w = k(n)
    BY <1>2
  <2>3. [i \in DOMAIN w |-> f[w[i]]] \in Seq(Seq(U))
    <3>1. DOMAIN w = 1..Len(w) /\ Len(w) \in Nat /\ \A i \in 1..Len(w) : f[w[i]] \in Seq(U)
      OBVIOUS
    <3>2. [i \in DOMAIN w |-> f[w[i]]] \in [1..Len(w) -> Seq(U)]
      BY <3>1
    <3> QED BY <3>1, <3>2
  <2> QED BY <2>1, <2>2, <2>3, Zenon
<1>4. A(0) = <<>> /\ B(0) = <<>> /\ B(Len(s)) = whole
  <2>1. B(0) = <<>> /\ B(Len(s)) = whole
    BY <1>1, FrontIs
  <2>2. A(0) = <<>>
    <3>1. DOMAIN k(0) = {}
      BY <1>0
    <3> QED BY <3>1
  <2> QED BY <2>1, <2>2
<1> HIDE DEF whole, k, A, B
<1>5. Wrong = {}
  <2> SUFFICES ASSUME Wrong # {} PROVE FALSE
    OBVIOUS
  <2>1. PICK n \in Wrong : \A j \in Wrong : n <= j
    <3>1. Wrong \in SUBSET Nat
      BY <1>0
    <3> HIDE DEF Wrong
    <3> QED BY <3>1, LeastNat
  <2>2. n # 0
    BY <1>4, <2>1
  <2>3. n \in 1..Len(s) /\ n - 1 \in 0..Len(s) /\ n - 1 \notin Wrong
    BY <1>0, <2>1, <2>2
  <2>4. Joined(A(n - 1)) = Joined(B(n - 1))
    BY <2>3
  <2>5. k(n) = IF s[n] \in S THEN Append(k(n - 1), s[n]) ELSE k(n - 1)
    BY <2>3, KeptFront DEF k
  <2>6. B(n) = Append(B(n - 1), whole[n])
    BY <1>1, <2>3, FrontIs DEF B
  <2>7. PICK b \in Seq(Seq(U)), y \in Seq(U) : b = B(n - 1) /\ y = whole[n]
    <3>1. whole[n] \in Seq(U)
      BY <1>1, <2>3
    <3> QED BY <1>3, <2>3, <3>1
  <2>8. Joined(B(n)) = Joined(B(n - 1)) \o whole[n]
    <3>1. Joined(Append(b, y)) = Joined(b) \o y
      BY JoinedOfMore
    <3> QED BY <2>6, <2>7, <3>1, Zenon
  <2>9. PICK w \in Seq(T), x \in T : w = k(n - 1) /\ x = s[n]
    <3>1. s[n] \in T
      BY <2>3
    <3> QED BY <1>2, <2>3, <3>1
  <2>10. Joined(A(n)) = Joined(A(n - 1)) \o whole[n]
    <3>1. CASE s[n] \in S
      <4>1. k(n) = Append(w, x) /\ whole[n] = f[x]
        BY <1>1, <2>3, <2>5, <2>9, <3>1
      <4>2. PICK a \in Seq(Seq(U)) : a = A(n - 1)
        BY <1>3, <2>3
      <4>3. a = [i \in DOMAIN w |-> f[w[i]]]
        BY <2>9, <4>2 DEF A
      <4>4. A(n) = Append(a, f[x])
        <5>1. A(n) = [i \in DOMAIN Append(w, x) |-> f[Append(w, x)[i]]]
          BY <4>1 DEF A
        <5>2. [i \in DOMAIN Append(w, x) |-> f[Append(w, x)[i]]] = Append(a, f[x])
          BY <4>3
        <5> QED BY <5>1, <5>2, Zenon
      <4>5. Joined(Append(a, f[x])) = Joined(a) \o f[x]
        BY JoinedOfMore
      <4> QED BY <4>1, <4>2, <4>4, <4>5, Zenon
    <3>2. CASE s[n] \notin S
      <4>1. k(n) = k(n - 1) /\ whole[n] = <<>>
        BY <1>1, <2>3, <2>5, <3>2
      <4>2. A(n) = A(n - 1)
        BY <4>1 DEF A
      <4>3. PICK v \in Seq(U) : v = Joined(A(n - 1))
        BY <1>3, <2>3, JoinedIs
      <4>4. v \o <<>> = v
        OBVIOUS
      <4> QED BY <4>1, <4>2, <4>3, <4>4, Zenon
    <3> QED BY <3>1, <3>2
  <2> QED BY <2>1, <2>4, <2>8, <2>10, Zenon
<1>6. Joined(A(Len(s))) = Joined(B(Len(s)))
  <2>1. Len(s) \in 0..Len(s) /\ Len(s) \notin Wrong
    BY <1>0, <1>5
  <2> QED BY <2>1
<1> QED BY <1>0, <1>4, <1>6, Zenon DEF A, whole, Images, ImagesIf

(* A list of which everything is kept.                                     *)
LEMMA KeptAll ==
  ASSUME NEW T, NEW s \in Seq(T), NEW S, \A i \in 1..Len(s) : s[i] \in S
  PROVE  Kept(s, S) = s
<1> DEFINE k(n) == Kept(SubSeq(s, 1, n), S)
           Wrong == {n \in 0..Len(s) : k(n) # SubSeq(s, 1, n)}
<1>0. Len(s) \in Nat /\ k(0) = <<>> /\ k(Len(s)) = Kept(s, S)
  <2>1. SubSeq(s, 1, 0) = <<>> /\ SubSeq(s, 1, Len(s)) = s /\ Len(s) \in Nat
    BY FrontIs
  <2> QED BY <2>1, KeptOfNone, Zenon
<1>1. Wrong = {}
  <2> SUFFICES ASSUME Wrong # {} PROVE FALSE
    OBVIOUS
  <2>1. PICK n \in Wrong : \A j \in Wrong : n <= j
    <3>1. Wrong \in SUBSET Nat
      BY <1>0
    <3> HIDE DEF Wrong
    <3> QED BY <3>1, LeastNat
  <2>2. n # 0
    BY <1>0, <2>1, FrontIs
  <2>3. n \in 1..Len(s) /\ n - 1 \in 0..Len(s) /\ n - 1 \notin Wrong
    <3> HIDE DEF k
    <3> QED BY <1>0, <2>1, <2>2
  <2>4. k(n) = Append(k(n - 1), s[n])
    BY <2>3, KeptFront
  <2>5. SubSeq(s, 1, n) = Append(SubSeq(s, 1, n - 1), s[n])
    BY <2>3, FrontIs
  <2>6. k(n - 1) = SubSeq(s, 1, n - 1)
    BY <2>3
  <2> HIDE DEF k
  <2> QED BY <2>1, <2>4, <2>5, <2>6
<1>2. k(Len(s)) = SubSeq(s, 1, Len(s))
  <2> HIDE DEF k
  <2> QED BY <1>0, <1>1
<1> QED BY <1>0, <1>2, FrontIs
=============================================================================
