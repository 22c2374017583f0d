-------------------------- MODULE LlmRouterProofs --------------------------
(***************************************************************************)
(* The processes together keep the rate of a limited provider, and no call *)
(* goes back to a provider that refused it, for any number of callers,     *)
(* processes and providers, and without bound on time or faults.           *)
(***************************************************************************)
EXTENDS LlmRouter, FiniteSetTheorems, SequenceTheorems, TLAPS

Active == {"slot", "sleep", "asked"}

CallRecords == [pc : {"idle", "done", "failed"} \cup Active, chain : Chains \cup {<<>>},
                at : 0..2, tried : Nat, wait : Nat, refused : SUBSET Providers]

Typed ==
  /\ time \in Nat /\ wall \in Int
  /\ bucket \in [Limited -> [tokens : Int, ts : Int]]
  /\ cooling \in [Processes -> [Providers -> Nat]]
  /\ call \in [Callers -> CallRecords]
  /\ started \in [Limited -> Nat] /\ forgiven \in [Limited -> Int]

\* A call that is under way stands at a target of its chain, and only the first target's
\* provider can have refused it.
CallInv ==
  \A c \in Callers : call[c].pc \in Active =>
    /\ call[c].chain \in Chains /\ call[c].at \in 1..Len(call[c].chain)
    /\ call[c].at = 1 => call[c].refused = {}

Asleep(p) == {c \in Callers : call[c].pc = "sleep" /\ Target(c) = p}

\* The callers whose slot comes within v ticks.
Due(p, v) == {c \in Asleep(p) : call[c].wait <= v}

Sleeping(p) == Cardinality(Asleep(p))
DueBy(p, v) == Cardinality(Due(p, v))

Ticks(n) == n * Interval

\* The slots that were given out cost what the bucket has lost, and no more of them fall
\* due within v ticks than the rate allows until then.
Quota(p) ==
  /\ Ticks(started[p] + Sleeping(p))
       <= Interval + time + forgiven[p] - bucket[p].tokens - Elapsed(bucket[p])
  /\ \A v \in Nat : Ticks(started[p] + DueBy(p, v)) <= Interval + time + v + forgiven[p]

QuotaInv == \A p \in Limited : Quota(p)

IInv == Typed /\ CallInv /\ RefusedOnce /\ QuotaInv

-----------------------------------------------------------------------------
LEMMA Counting ==
  ASSUME NEW m \in Nat, NEW n \in Nat
  PROVE  /\ Ticks(n) \in Int /\ Ticks(0) = 0
         /\ Ticks(n + 1) = Ticks(n) + Interval
         /\ m <= n => Ticks(m) <= Ticks(n)
<1>1. Interval \in Nat
  BY RouterAssumption
<1>2. Ticks(n) \in Int /\ Ticks(0) = 0 /\ Ticks(n + 1) = Ticks(n) + Interval
  BY <1>1 DEF Ticks
<1>3. ASSUME m <= n
      PROVE  Ticks(m) <= Ticks(n)
  <2>1. PICK d \in Nat : n = m + d
    <3>1. n - m \in Nat /\ n = m + (n - m)
      BY <1>3
    <3>2. QED
      BY <3>1
  <2>2. d * Interval \in Nat /\ n * Interval = m * Interval + d * Interval
    BY <1>1, <2>1
  <2>3. m * Interval \in Int
    BY <1>1
  <2>4. QED
    BY <2>2, <2>3 DEF Ticks
<1>4. QED
  BY <1>2, <1>3

\* The sleepers are finitely many.
LEMMA Sleepers ==
  ASSUME NEW p, NEW v
  PROVE  /\ IsFiniteSet(Asleep(p)) /\ IsFiniteSet(Due(p, v))
         /\ Sleeping(p) \in Nat /\ DueBy(p, v) \in Nat /\ DueBy(p, v) <= Sleeping(p)
<1>1. IsFiniteSet(Callers)
  BY RouterAssumption
<1>2. Asleep(p) \in SUBSET Callers /\ Due(p, v) \in SUBSET Asleep(p)
  BY DEF Asleep, Due
<1>3. IsFiniteSet(Asleep(p))
  BY <1>1, <1>2, FS_Subset
<1>4. QED
  BY <1>2, <1>3, FS_Subset, FS_CardinalityType DEF Sleeping, DueBy

\* The smaller of two numbers.
LEMMA SmallerOf ==
  ASSUME NEW a \in Int, NEW b \in Int
  PROVE  Min({a, b}) = IF a <= b THEN a ELSE b
<1>1. \E x \in {a, b} : \A y \in {a, b} : x =< y
  OBVIOUS
<1>2. Min({a, b}) \in {a, b} /\ \A y \in {a, b} : Min({a, b}) =< y
  BY <1>1 DEF Min
<1>3. QED
  BY <1>2

LEMMA LargerOf ==
  ASSUME NEW a \in Nat, NEW b \in Nat
  PROVE  Max({a, b}) \in Nat /\ Max({a, b}) >= b
<1>1. \E x \in {a, b} : \A y \in {a, b} : x >= y
  OBVIOUS
<1>2. Max({a, b}) \in {a, b} /\ \A y \in {a, b} : Max({a, b}) >= y
  BY <1>1 DEF Max
<1>3. QED
  BY <1>2

LEMMA Refilled ==
  ASSUME Typed, NEW p \in Limited
  PROVE  /\ Elapsed(bucket[p]) \in Nat /\ bucket[p].tokens \in Int
         /\ Refill(bucket[p]).ts = wall
         /\ Refill(bucket[p]).tokens \in Int /\ Refill(bucket[p]).tokens <= Interval
         /\ Refill(bucket[p]).tokens <= bucket[p].tokens + Elapsed(bucket[p])
         /\ Refill(bucket[p]) \in [tokens : Int, ts : Int]
<1>1. bucket[p] \in [tokens : Int, ts : Int] /\ wall \in Int /\ Interval \in Nat
  BY RouterAssumption DEF Typed
<1>2. Elapsed(bucket[p]) \in Nat
  BY <1>1 DEF Elapsed
<1>3. Min({Interval, bucket[p].tokens + Elapsed(bucket[p])})
        = IF Interval <= bucket[p].tokens + Elapsed(bucket[p]) THEN Interval
          ELSE bucket[p].tokens + Elapsed(bucket[p])
  BY <1>1, <1>2, SmallerOf
<1>4. QED
  BY <1>1, <1>2, <1>3 DEF Refill

-----------------------------------------------------------------------------
\* Where a call can stand in a chain, and what comes after it.
LEMMA Places ==
  ASSUME NEW l \in 1..2, NEW a \in 1..l
  PROVE  a + 1 \in 1..3 /\ \A m \in (a + 1)..l : a = 1 /\ m = 2 /\ l = 2
OBVIOUS

\* The next target is one from there on that does not cool.
LEMMA Proceeds ==
  ASSUME NEW chain \in Chains, NEW from \in 1..3, NEW cool \in [Providers -> Nat],
         NEW refused \in SUBSET Providers, NEW r, r = NextTarget(chain, from, cool, refused)
  PROVE  /\ r \in CallRecords
         /\ \/ r.pc = "failed"
            \/ /\ r.pc = "slot" /\ r.chain = chain /\ r.at \in from..Len(chain)
               /\ cool[chain[r.at].provider] = 0 /\ r.refused = refused
<1> DEFINE ready == {i \in from..Len(chain) : chain[i].usable /\ cool[chain[i].provider] = 0}
<1>1. Len(chain) \in 1..2 /\ Idle \in CallRecords
  BY RouterAssumption DEF Idle, CallRecords, Active
<1>2. CASE ready = {}
  BY <1>1, <1>2 DEF NextTarget, Idle, CallRecords, Active
<1>3. CASE ready # {}
  <2>1. ready \subseteq 1..2
    BY <1>1
  <2>2. \E x \in ready : \A y \in ready : x =< y
    BY <1>3, <2>1
  <2>3. Min(ready) \in ready
    BY <2>2 DEF Min
  <2>4. Min(ready) \in 1..2
    BY <2>1, <2>3
  <2>5. r = [pc |-> "slot", chain |-> chain, at |-> Min(ready), tried |-> 0, wait |-> 0,
             refused |-> refused]
    BY <1>3 DEF NextTarget
  <2> HIDE DEF ready
  <2>6. /\ r.pc = "slot" /\ r.chain = chain /\ r.at = Min(ready) /\ r.refused = refused
        /\ r \in CallRecords
    BY <2>4, <2>5 DEF CallRecords, Active
  <2>7. QED
    BY <2>3, <2>6 DEF ready
<1>4. QED
  BY <1>2, <1>3

-----------------------------------------------------------------------------
\* What a step does to a call.
Others(c) == \A d \in Callers : d # c => call'[d] = call[d]

Same(c) ==
  /\ call'[c].chain = call[c].chain /\ call'[c].at = call[c].at
  /\ call'[c].refused = call[c].refused

LEMMA Begins ==
  ASSUME Typed, NEW c \in Callers, Begin(c)
  PROVE  /\ call' \in [Callers -> CallRecords] /\ Others(c) /\ call[c].pc = "idle"
         /\ \/ call'[c].pc = "failed"
            \/ /\ call'[c].pc = "slot" /\ call'[c].chain \in Chains
               /\ call'[c].at \in 1..Len(call'[c].chain) /\ call'[c].refused = {}
<1>1. PICK chain \in Chains :
        call' = [call EXCEPT ![c] = NextTarget(chain, 1, cooling[Of[c]], {})]
  BY DEF Begin
<1>2. cooling[Of[c]] \in [Providers -> Nat] /\ call \in [Callers -> CallRecords]
  BY RouterAssumption DEF Typed
<1> DEFINE r == NextTarget(chain, 1, cooling[Of[c]], {})
<1>3. /\ r \in CallRecords
      /\ \/ r.pc = "failed"
         \/ r.pc = "slot" /\ r.chain = chain /\ r.at \in 1..Len(chain) /\ r.refused = {}
  <2>1. r = NextTarget(chain, 1, cooling[Of[c]], {})
    OBVIOUS
  <2> HIDE DEF r
  <2>2. QED
    BY <1>2, <2>1, Proceeds
<1>4. call' = [call EXCEPT ![c] = r] /\ call[c].pc = "idle"
  BY <1>1 DEF Begin
<1> HIDE DEF r
<1>5. QED
  BY <1>2, <1>3, <1>4 DEF Others

LEMMA FallsAsleep ==
  ASSUME Typed, NEW c \in Callers, NEW wait \in Nat, Sleeps(c, wait)
  PROVE  /\ call' \in [Callers -> CallRecords] /\ Others(c) /\ Same(c)
         /\ call'[c].pc = "sleep" /\ call'[c].wait = wait
<1>1. call \in [Callers -> CallRecords] /\ call[c] \in CallRecords
  BY DEF Typed
<1>2. [call[c] EXCEPT !.pc = "sleep"] \in CallRecords
  BY <1>1 DEF CallRecords, Active
<1>3. [[call[c] EXCEPT !.pc = "sleep"] EXCEPT !.wait = wait] \in CallRecords
  BY <1>2 DEF CallRecords
<1>4. call' = [call EXCEPT ![c] = [[call[c] EXCEPT !.pc = "sleep"] EXCEPT !.wait = wait]]
  BY <1>1 DEF Sleeps
<1>5. QED
  BY <1>1, <1>3, <1>4 DEF Others, Same, CallRecords

LEMMA Asks ==
  ASSUME Typed, NEW c \in Callers, Ask(c)
  PROVE  /\ call' \in [Callers -> CallRecords] /\ Others(c) /\ Same(c)
         /\ call[c].pc = "sleep" /\ call[c].wait = 0 /\ call'[c].pc = "asked"
<1>1. call \in [Callers -> CallRecords] /\ call[c] \in CallRecords
  BY DEF Typed
<1>2. [call[c] EXCEPT !.pc = "asked"] \in CallRecords
  BY <1>1 DEF CallRecords, Active
<1>3. [[call[c] EXCEPT !.pc = "asked"] EXCEPT !.tried = call[c].tried + 1] \in CallRecords
  <2>1. call[c].tried + 1 \in Nat
    BY <1>1 DEF CallRecords
  <2>2. QED
    BY <1>2, <2>1 DEF CallRecords
<1>4. call' = [call EXCEPT ![c] = [[call[c] EXCEPT !.pc = "asked"]
                                     EXCEPT !.tried = call[c].tried + 1]]
  BY <1>1 DEF Ask
<1>5. QED
  BY <1>1, <1>3, <1>4 DEF Ask, Others, Same, CallRecords

LEMMA Ticked ==
  ASSUME Typed, Tick
  PROVE  /\ call' \in [Callers -> CallRecords]
         /\ \A c \in Callers : /\ Same(c) /\ call'[c].pc = call[c].pc
                               /\ call'[c].wait = Less(call[c].wait)
         /\ cooling' \in [Processes -> [Providers -> Nat]]
<1>0. \A n \in Nat : Less(n) \in Nat
  BY DEF Less
<1>1. ASSUME NEW c \in Callers
      PROVE  /\ [call[c] EXCEPT !.wait = Less(@)] \in CallRecords
             /\ Same(c) /\ call'[c].pc = call[c].pc /\ call'[c].wait = Less(call[c].wait)
  <2>1. call[c] \in CallRecords /\ call[c].wait \in Nat
    BY DEF Typed, CallRecords
  <2>2. call'[c] = [call[c] EXCEPT !.wait = Less(@)]
    BY DEF Tick
  <2>3. QED
    BY <1>0, <2>1, <2>2 DEF Same, CallRecords
<1>2. call' = [c \in Callers |-> [call[c] EXCEPT !.wait = Less(@)]]
  BY DEF Tick
<1>3. cooling' \in [Processes -> [Providers -> Nat]]
  BY <1>0 DEF Tick, Typed
<1>4. QED
  BY <1>1, <1>2, <1>3

LEMMA Fails ==
  ASSUME Typed, CallInv, NEW c \in Callers, NEW kind \in Kinds, Fail(c, kind)
  PROVE  /\ call' \in [Callers -> CallRecords] /\ Others(c) /\ call[c].pc = "asked"
         /\ cooling' \in [Processes -> [Providers -> Nat]]
         /\ \/ call'[c].pc = "failed"
            \/ call'[c].pc = "slot" /\ Same(c)
            \/ /\ call'[c].pc = "slot" /\ call'[c].chain = call[c].chain
               /\ call[c].at = 1 /\ call'[c].at = 2 /\ Len(call[c].chain) = 2
               /\ Target(c)' \notin call'[c].refused
<1> DEFINE r == Of[c]
           p == Target(c)
           refused == call[c].refused \cup IF kind = "refused" THEN {p} ELSE {}
<1>1. /\ call \in [Callers -> CallRecords] /\ call[c] \in CallRecords /\ call[c].pc = "asked"
      /\ cooling \in [Processes -> [Providers -> Nat]] /\ r \in Processes
      /\ call[c].chain \in Chains /\ call[c].at \in 1..Len(call[c].chain)
      /\ Len(call[c].chain) \in 1..2 /\ call[c].refused \subseteq Providers
  BY RouterAssumption DEF Typed, CallInv, Fail, Active, CallRecords
<1>2. \A i \in 1..Len(call[c].chain) : call[c].chain[i].provider \in Providers
  <2>1. call[c].chain \in Seq([provider : Providers, usable : BOOLEAN])
    BY <1>1, RouterAssumption
  <2>2. \A i \in 1..Len(call[c].chain) :
          call[c].chain[i] \in [provider : Providers, usable : BOOLEAN]
    BY <2>1, ElementOfSeq
  <2>3. QED
    BY <2>2
<1>3. p \in Providers /\ p = call[c].chain[call[c].at].provider
  BY <1>1, <1>2 DEF Target
<1>4. PICK seconds \in Cooldowns(kind) :
        /\ cooling' = [cooling EXCEPT ![r][p] = Max({@, seconds})]
        /\ call' = [call EXCEPT ![c] =
                      IF kind \in Retryable /\ @.tried < Retries THEN [@ EXCEPT !.pc = "slot"]
                      ELSE NextTarget(@.chain, @.at + 1, cooling'[r], refused)]
  BY DEF Fail
<1>5. seconds \in Nat /\ (kind = "refused" => seconds >= 1)
  BY <1>4, RouterAssumption DEF Cooldowns
<1> HIDE DEF r, p
<1>6. /\ cooling' \in [Processes -> [Providers -> Nat]]
      /\ kind = "refused" => cooling'[r][p] >= 1
  <2> DEFINE m == Max({cooling[r][p], seconds})
  <2>1. cooling[r] \in [Providers -> Nat] /\ cooling[r][p] \in Nat
    BY <1>1, <1>3
  <2>2. m \in Nat /\ m >= seconds
    BY <1>5, <2>1, LargerOf
  <2>3. cooling' = [cooling EXCEPT ![r] = [cooling[r] EXCEPT ![p] = m]]
    BY <1>1, <1>4
  <2> HIDE DEF m
  <2>4. cooling'[r] = [cooling[r] EXCEPT ![p] = m] /\ cooling'[r][p] = m
    BY <1>1, <1>3, <2>1, <2>3
  <2>5. [cooling[r] EXCEPT ![p] = m] \in [Providers -> Nat]
    BY <2>1, <2>2
  <2>6. QED
    BY <1>1, <1>5, <2>2, <2>3, <2>4, <2>5
<1>7. CASE kind \in Retryable /\ call[c].tried < Retries
  <2>1. call' = [call EXCEPT ![c] = [call[c] EXCEPT !.pc = "slot"]]
    BY <1>4, <1>7
  <2>2. [call[c] EXCEPT !.pc = "slot"] \in CallRecords
    BY <1>1 DEF CallRecords, Active
  <2>3. QED
    BY <1>1, <1>6, <2>1, <2>2 DEF Others, Same, CallRecords
<1>8. CASE ~(kind \in Retryable /\ call[c].tried < Retries)
  <2> DEFINE n == NextTarget(call[c].chain, call[c].at + 1, cooling'[r], refused)
  <2>1. call' = [call EXCEPT ![c] = n]
    BY <1>4, <1>8
  <2>2. /\ call[c].at + 1 \in 1..3 /\ cooling'[r] \in [Providers -> Nat]
        /\ refused \in SUBSET Providers
    <3>1. call[c].at + 1 \in 1..3
      BY <1>1, Places
    <3>2. cooling'[r] \in [Providers -> Nat]
      BY <1>1, <1>6
    <3>3. refused \in SUBSET Providers
      BY <1>1, <1>3
    <3>4. QED
      BY <3>1, <3>2, <3>3
  <2>3. /\ n \in CallRecords
        /\ \/ n.pc = "failed"
           \/ /\ n.pc = "slot" /\ n.chain = call[c].chain
              /\ n.at \in (call[c].at + 1)..Len(call[c].chain)
              /\ cooling'[r][call[c].chain[n.at].provider] = 0 /\ n.refused = refused
    <3> DEFINE from == call[c].at + 1
               cool == cooling'[r]
               chain == call[c].chain
    <3>1. n = NextTarget(chain, from, cool, refused)
      OBVIOUS
    <3>2. /\ chain \in Chains /\ from \in 1..3 /\ cool \in [Providers -> Nat]
          /\ refused \in SUBSET Providers
      BY <1>1, <2>2
    <3> HIDE DEF refused, n, from, cool, chain
    <3>3. /\ n \in CallRecords
          /\ \/ n.pc = "failed"
             \/ /\ n.pc = "slot" /\ n.chain = chain /\ n.at \in from..Len(chain)
                /\ cool[chain[n.at].provider] = 0 /\ n.refused = refused
      BY <3>1, <3>2, Proceeds
    <3>4. QED
      BY <3>3 DEF from, cool, chain
  <2> HIDE DEF n
  <2>4. call'[c] = n /\ call' \in [Callers -> CallRecords] /\ Others(c)
    BY <1>1, <2>1, <2>3 DEF Others
  <2>5. CASE n.pc = "failed"
    BY <1>1, <1>6, <2>4, <2>5
  <2>6. CASE n.pc # "failed"
    <3>1. call[c].at = 1 /\ n.at = 2 /\ Len(call[c].chain) = 2
      <4>1. n.at \in (call[c].at + 1)..Len(call[c].chain)
        BY <2>3, <2>6
      <4>2. QED
        BY <1>1, <4>1, Places
    <3>2. refused = IF kind = "refused" THEN {p} ELSE {}
      BY <1>1, <3>1 DEF CallInv, Active
    <3>3. call[c].chain[2].provider \notin refused
      BY <1>6, <2>3, <2>6, <3>1, <3>2
    <3>4. Target(c)' = call[c].chain[2].provider
      BY <2>3, <2>4, <2>6, <3>1 DEF Target
    <3>5. QED
      BY <1>1, <1>6, <2>3, <2>4, <2>6, <3>1, <3>3, <3>4
  <2>7. QED
    BY <2>5, <2>6
<1>9. QED
  BY <1>7, <1>8

-----------------------------------------------------------------------------
\* A step keeps types, and calls that go on to targets that have not refused.
LEMMA CallStep ==
  ASSUME Typed, CallInv, RefusedOnce, Next
  PROVE  call' \in [Callers -> CallRecords] /\ CallInv' /\ RefusedOnce'
<1> DEFINE Goal == call' \in [Callers -> CallRecords] /\ CallInv' /\ RefusedOnce'
<1> USE DEF CallInv, RefusedOnce, Active, Target
<1>0. ASSUME NEW c \in Callers, call' \in [Callers -> CallRecords], Others(c), Same(c),
             call[c].pc \in Active
      PROVE  Goal
  BY <1>0 DEF Others, Same
<1>1. ASSUME NEW c \in Callers, Begin(c)
      PROVE  Goal
  BY <1>1, Begins DEF Others
<1>2. ASSUME NEW c \in Callers, Slot(c)
      PROVE  Goal
  <2>1. PICK wait \in Nat : Sleeps(c, wait)
    <3>1. CASE Target(c) \notin Limited
      BY <1>2, <3>1 DEF Slot
    <3>2. CASE Target(c) \in Limited
      <4> DEFINE b == Paid(Refill(bucket[Target(c)]))
      <4>1. Sleeps(c, IF b.tokens >= 0 THEN 0 ELSE -b.tokens)
        BY <1>2, <3>2 DEF Slot
      <4>2. b.tokens \in Int
        BY <3>2, Refilled, RouterAssumption DEF Paid
      <4> HIDE DEF b
      <4>3. QED
        BY <4>1, <4>2
    <3>3. QED
      BY <3>1, <3>2
  <2>2. QED
    BY <1>0, <1>2, <2>1, FallsAsleep DEF Slot
<1>3. ASSUME NEW c \in Callers, SlotFails(c)
      PROVE  Goal
  BY <1>0, <1>3, FallsAsleep DEF SlotFails
<1>4. ASSUME NEW c \in Callers, Crash(c)
      PROVE  Goal
  <2>1. [Idle EXCEPT !.pc = "failed"] \in CallRecords /\ [Idle EXCEPT !.pc = "failed"].pc = "failed"
    BY DEF Idle, CallRecords
  <2>2. \A d \in Callers : call'[d] = call[d] \/ call'[d] = [Idle EXCEPT !.pc = "failed"]
    BY <1>4 DEF Crash
  <2>3. call' \in [Callers -> CallRecords]
    BY <1>4, <2>1 DEF Crash, Typed
  <2>4. \A d \in Callers : call'[d] = call[d] \/ call'[d].pc = "failed"
    BY <2>1, <2>2
  <2>5. QED
    BY <2>3, <2>4
<1>5. ASSUME NEW c \in Callers, Ask(c)
      PROVE  Goal
  BY <1>0, <1>5, Asks
<1>6. ASSUME NEW c \in Callers, Succeed(c)
      PROVE  Goal
  <2>1. [Idle EXCEPT !.pc = "done"] \in CallRecords /\ [Idle EXCEPT !.pc = "done"].pc = "done"
    BY DEF Idle, CallRecords
  <2>2. /\ call' = [call EXCEPT ![c] = [Idle EXCEPT !.pc = "done"]]
        /\ call \in [Callers -> CallRecords]
    BY <1>6 DEF Succeed, Typed
  <2>3. \A d \in Callers : call'[d] = call[d] \/ call'[d].pc = "done"
    BY <2>1, <2>2
  <2>4. call' \in [Callers -> CallRecords]
    BY <2>1, <2>2
  <2>5. QED
    BY <2>3, <2>4
<1>7. ASSUME NEW c \in Callers, NEW kind \in Kinds, Fail(c, kind)
      PROVE  Goal
  <2>1. CASE call'[c].pc = "slot" /\ Same(c)
    BY <1>0, <1>7, <2>1, Fails
  <2>2. CASE call'[c].pc = "failed"
    BY <1>7, <2>2, Fails DEF Others
  <2>3. CASE /\ call'[c].pc = "slot" /\ call'[c].chain = call[c].chain
             /\ call[c].at = 1 /\ call'[c].at = 2 /\ Len(call[c].chain) = 2
             /\ Target(c)' \notin call'[c].refused
    BY <1>7, <2>3, Fails DEF Others
  <2>4. QED
    BY <1>7, <2>1, <2>2, <2>3, Fails
<1>8. CASE Tick
  BY <1>8, Ticked DEF Same
<1>9. CASE StepBack
  BY <1>9 DEF StepBack, Typed
<1>10. QED
  BY <1>1, <1>2, <1>3, <1>4, <1>5, <1>6, <1>7, <1>8, <1>9 DEF Next

-----------------------------------------------------------------------------
(* How a step changes the number of those who sleep.                       *)

LEMMA CountSame ==
  ASSUME NEW c \in Callers, Others(c), call[c].pc # "sleep", call'[c].pc # "sleep",
         NEW p, NEW v
  PROVE  Sleeping(p)' = Sleeping(p) /\ DueBy(p, v)' = DueBy(p, v)
<1>1. Asleep(p)' = Asleep(p)
  BY DEF Others, Asleep, Target
<1>2. \A d \in Asleep(p) : call'[d].wait = call[d].wait
  BY DEF Others, Asleep
<1>3. Due(p, v)' = Due(p, v)
  BY <1>1, <1>2 DEF Due
<1>4. QED
  BY <1>1, <1>3 DEF Sleeping, DueBy

LEMMA CountIn ==
  ASSUME NEW c \in Callers, Others(c), Same(c), call[c].pc # "sleep", call'[c].pc = "sleep",
         NEW p, NEW v
  PROVE  /\ Target(c) # p => Sleeping(p)' = Sleeping(p) /\ DueBy(p, v)' = DueBy(p, v)
         /\ Target(c) = p =>
              /\ Sleeping(p)' = Sleeping(p) + 1
              /\ DueBy(p, v)' = IF call'[c].wait <= v THEN DueBy(p, v) + 1 ELSE DueBy(p, v)
<1>1. Target(c)' = Target(c) /\ c \notin Asleep(p) /\ c \notin Due(p, v)
  BY DEF Same, Target, Asleep, Due
<1>2. Asleep(p)' = IF Target(c) = p THEN Asleep(p) \cup {c} ELSE Asleep(p)
  BY <1>1 DEF Others, Asleep, Target
<1>3. \A d \in Asleep(p) : call'[d].wait = call[d].wait
  BY DEF Others, Asleep
<1>4. Due(p, v)' = IF Target(c) = p /\ call'[c].wait <= v THEN Due(p, v) \cup {c} ELSE Due(p, v)
  BY <1>1, <1>2, <1>3 DEF Due
<1>5. IsFiniteSet(Asleep(p)) /\ IsFiniteSet(Due(p, v))
  BY Sleepers
<1>6. QED
  BY <1>1, <1>2, <1>4, <1>5, FS_AddElement DEF Sleeping, DueBy

LEMMA CountOut ==
  ASSUME Typed, NEW c \in Callers, Ask(c), NEW p, NEW v \in Nat
  PROVE  /\ Target(c) # p => Sleeping(p)' = Sleeping(p) /\ DueBy(p, v)' = DueBy(p, v)
         /\ Target(c) = p => Sleeping(p)' = Sleeping(p) - 1 /\ DueBy(p, v)' = DueBy(p, v) - 1
<1>1. /\ Others(c) /\ call[c].pc = "sleep" /\ call[c].wait = 0 /\ call'[c].pc = "asked"
  BY Asks
<1>2. Asleep(p)' = IF Target(c) = p THEN Asleep(p) \ {c} ELSE Asleep(p)
  BY <1>1 DEF Others, Asleep, Target
<1>3. \A d \in Asleep(p) : d # c => call'[d].wait = call[d].wait
  BY <1>1 DEF Others, Asleep
<1>4. Target(c) = p => c \in Asleep(p) /\ c \in Due(p, v)
  BY <1>1 DEF Asleep, Due
<1>5. Target(c) # p => c \notin Asleep(p)
  BY DEF Asleep
<1>6. Due(p, v)' = IF Target(c) = p THEN Due(p, v) \ {c} ELSE Due(p, v)
  BY <1>2, <1>3, <1>5 DEF Due
<1>7. IsFiniteSet(Asleep(p)) /\ IsFiniteSet(Due(p, v))
  BY Sleepers
<1>8. QED
  BY <1>2, <1>4, <1>6, <1>7, FS_RemoveElement DEF Sleeping, DueBy

LEMMA CountTick ==
  ASSUME Typed, Tick, NEW p, NEW v \in Nat
  PROVE  Sleeping(p)' = Sleeping(p) /\ DueBy(p, v)' = DueBy(p, v + 1)
<1>1. Asleep(p)' = Asleep(p)
  BY Ticked DEF Same, Asleep, Target
<1>2. \A d \in Asleep(p) : call[d].wait \in Nat /\ call'[d].wait = Less(call[d].wait)
  BY Ticked DEF Asleep, Typed, CallRecords
<1>3. \A d \in Asleep(p) : call'[d].wait <= v <=> call[d].wait <= v + 1
  BY <1>2 DEF Less
<1>4. Due(p, v)' = Due(p, v + 1)
  BY <1>1, <1>3 DEF Due
<1>5. QED
  BY <1>1, <1>4 DEF Sleeping, DueBy

LEMMA CountCrash ==
  ASSUME NEW c \in Callers, Crash(c), NEW p, NEW v
  PROVE  /\ Sleeping(p)' \in Nat /\ Sleeping(p)' <= Sleeping(p)
         /\ DueBy(p, v)' \in Nat /\ DueBy(p, v)' <= DueBy(p, v)
<1>1. \A d \in Callers : call'[d] = call[d] \/ call'[d].pc = "failed"
  <2>1. [Idle EXCEPT !.pc = "failed"].pc = "failed"
    BY DEF Idle
  <2>2. QED
    BY <2>1 DEF Crash
<1>2. Asleep(p)' \in SUBSET Asleep(p)
  BY <1>1 DEF Asleep, Target
<1>3. Due(p, v)' \in SUBSET Due(p, v)
  <2>1. \A d \in Asleep(p)' : call'[d] = call[d]
    BY <1>1 DEF Asleep
  <2>2. QED
    BY <1>2, <2>1 DEF Due
<1>4. IsFiniteSet(Asleep(p)) /\ IsFiniteSet(Due(p, v))
  BY Sleepers
<1>5. QED
  BY <1>2, <1>3, <1>4, FS_Subset, FS_CardinalityType DEF Sleeping, DueBy

-----------------------------------------------------------------------------
LEMMA RestTyped ==
  ASSUME Typed, CallInv, Next
  PROVE  /\ time' \in Nat /\ wall' \in Int
         /\ bucket' \in [Limited -> [tokens : Int, ts : Int]]
         /\ cooling' \in [Processes -> [Providers -> Nat]]
         /\ started' \in [Limited -> Nat] /\ forgiven' \in [Limited -> Int]
<1> DEFINE Goal == /\ time' \in Nat /\ wall' \in Int
                   /\ bucket' \in [Limited -> [tokens : Int, ts : Int]]
                   /\ cooling' \in [Processes -> [Providers -> Nat]]
                   /\ started' \in [Limited -> Nat] /\ forgiven' \in [Limited -> Int]
<1>0. /\ time \in Nat /\ wall \in Int /\ bucket \in [Limited -> [tokens : Int, ts : Int]]
      /\ cooling \in [Processes -> [Providers -> Nat]]
      /\ started \in [Limited -> Nat] /\ forgiven \in [Limited -> Int] /\ Interval \in Nat
  BY RouterAssumption DEF Typed
<1>a. Full(wall) \in [tokens : Int, ts : Int]
  BY <1>0 DEF Full
<1>b. \A p \in Limited : /\ Paid(Refill(bucket[p])) \in [tokens : Int, ts : Int]
                         /\ Refill(bucket[p]).tokens \in Int
  BY <1>0, Refilled DEF Paid
<1>1. ASSUME NEW c \in Callers, Begin(c) \/ Succeed(c)
      PROVE  Goal
  BY <1>0, <1>1 DEF Begin, Succeed, history
<1>2. ASSUME NEW c \in Callers, Slot(c)
      PROVE  Goal
  BY <1>0, <1>b, <1>2 DEF Slot, history
<1>3. ASSUME NEW c \in Callers, SlotFails(c)
      PROVE  Goal
  BY <1>0, <1>a, <1>b, <1>3 DEF SlotFails
<1>4. ASSUME NEW c \in Callers, Crash(c)
      PROVE  Goal
  BY <1>0, <1>a, <1>b, <1>4 DEF Crash
<1>5. ASSUME NEW c \in Callers, Ask(c)
      PROVE  Goal
  BY <1>0, <1>5 DEF Ask
<1>6. ASSUME NEW c \in Callers, NEW kind \in Kinds, Fail(c, kind)
      PROVE  Goal
  <2>1. cooling' \in [Processes -> [Providers -> Nat]]
    BY <1>6, Fails
  <2>2. QED
    BY <1>0, <1>6, <2>1 DEF Fail, history
<1>7. CASE Tick
  <2>1. cooling' \in [Processes -> [Providers -> Nat]]
    BY <1>7, Ticked
  <2>2. QED
    BY <1>0, <1>7, <2>1 DEF Tick, history
<1>8. CASE StepBack
  BY <1>0, <1>8 DEF StepBack, history
<1>9. QED
  BY <1>1, <1>2, <1>3, <1>4, <1>5, <1>6, <1>7, <1>8 DEF Next

-----------------------------------------------------------------------------
\* The numbers of a provider, and the rule for their next values.
LEMMA Numbers ==
  ASSUME Typed, NEW p \in Limited, NEW v \in Nat
  PROVE  /\ started[p] \in Nat /\ forgiven[p] \in Int /\ bucket[p].tokens \in Int
         /\ Elapsed(bucket[p]) \in Nat /\ time \in Nat /\ Interval \in Nat
         /\ Sleeping(p) \in Nat /\ DueBy(p, v) \in Nat /\ DueBy(p, v) <= Sleeping(p)
         /\ Ticks(started[p] + Sleeping(p)) \in Int /\ Ticks(started[p] + DueBy(p, v)) \in Int
         /\ Ticks(started[p] + DueBy(p, v)) <= Ticks(started[p] + Sleeping(p))
         /\ Ticks(started[p] + Sleeping(p) + 1) = Ticks(started[p] + Sleeping(p)) + Interval
         /\ Ticks(started[p] + DueBy(p, v) + 1) = Ticks(started[p] + DueBy(p, v)) + Interval
<1>1. started[p] \in Nat /\ forgiven[p] \in Int /\ time \in Nat /\ Interval \in Nat
  BY RouterAssumption DEF Typed
<1>2. bucket[p].tokens \in Int /\ Elapsed(bucket[p]) \in Nat
  BY Refilled
<1>3. Sleeping(p) \in Nat /\ DueBy(p, v) \in Nat /\ DueBy(p, v) <= Sleeping(p)
  BY Sleepers
<1> DEFINE a == started[p] + Sleeping(p)
           d == started[p] + DueBy(p, v)
<1>4. a \in Nat /\ d \in Nat /\ d <= a
  BY <1>1, <1>3
<1> HIDE DEF a, d
<1>5. /\ Ticks(a) \in Int /\ Ticks(d) \in Int /\ Ticks(d) <= Ticks(a)
      /\ Ticks(a + 1) = Ticks(a) + Interval /\ Ticks(d + 1) = Ticks(d) + Interval
  BY <1>4, Counting
<1>6. QED
  BY <1>1, <1>2, <1>3, <1>5 DEF a, d

\* Nothing has changed for a provider but that its bucket may seem less full.
LEMMA QuotaStays ==
  ASSUME NEW p \in Limited, Quota(p),
         \A v \in Nat : Sleeping(p)' = Sleeping(p) /\ DueBy(p, v)' = DueBy(p, v),
         UNCHANGED <<started[p], forgiven[p], bucket[p].tokens, time>>,
         Elapsed(bucket[p])' = Elapsed(bucket[p])
  PROVE  Quota(p)'
BY DEF Quota

\* One more slot of provider p: what the bucket loses pays for it, and who waits for it
\* waits as long as that is worth.
LEMMA OneMore ==
  ASSUME Typed, NEW p \in Limited, Quota(p), Sleeping(p)' = Sleeping(p) + 1,
         NEW w \in Nat,
         \A v \in Nat : DueBy(p, v)' = IF w <= v THEN DueBy(p, v) + 1 ELSE DueBy(p, v),
         UNCHANGED <<started[p], time>>,
         NEW left \in Int, NEW gift \in Int, left = bucket[p].tokens' + Elapsed(bucket[p])',
         bucket[p].tokens' \in Int, Elapsed(bucket[p])' \in Nat,
         forgiven[p]' = forgiven[p] + gift, gift >= 0,
         left <= bucket[p].tokens + Elapsed(bucket[p]) - Interval + gift,
         w >= -left \/ gift >= Interval
  PROVE  Quota(p)'
<1>1. /\ Ticks(started[p] + Sleeping(p))
           <= Interval + time + forgiven[p] - bucket[p].tokens - Elapsed(bucket[p])
      /\ \A v \in Nat :
           Ticks(started[p] + DueBy(p, v)) <= Interval + time + v + forgiven[p]
  BY DEF Quota
<1>2. Ticks(started[p] + Sleeping(p))'
        <= Interval + time' + forgiven[p]' - bucket[p].tokens' - Elapsed(bucket[p])'
  <2>1. Ticks(started[p] + Sleeping(p))' = Ticks(started[p] + Sleeping(p) + 1)
    BY Numbers
  <2>2. QED
    BY <1>1, <2>1, Numbers
<1>3. ASSUME NEW v \in Nat
      PROVE  Ticks(started[p] + DueBy(p, v))' <= (Interval + time + v + forgiven[p])'
  <2>0. Ticks(started[p] + DueBy(p, v)) <= Interval + time + v + forgiven[p]
    BY <1>1
  <2>1. CASE w > v
    <3>1. Ticks(started[p] + DueBy(p, v))' = Ticks(started[p] + DueBy(p, v))
      BY <1>3, <2>1
    <3>2. QED
      BY <2>0, <3>1, Numbers
  <2>2. CASE w <= v
    <3>1. Ticks(started[p] + DueBy(p, v))' = Ticks(started[p] + DueBy(p, v) + 1)
      BY <1>3, <2>2, Numbers
    <3>2. /\ started[p] \in Nat /\ forgiven[p] \in Int /\ bucket[p].tokens \in Int
          /\ Elapsed(bucket[p]) \in Nat /\ time \in Nat /\ Interval \in Nat
          /\ Ticks(started[p] + Sleeping(p)) \in Int /\ Ticks(started[p] + DueBy(p, v)) \in Int
          /\ Ticks(started[p] + DueBy(p, v)) <= Ticks(started[p] + Sleeping(p))
          /\ Ticks(started[p] + DueBy(p, v) + 1) = Ticks(started[p] + DueBy(p, v)) + Interval
      BY Numbers
    <3>3. CASE gift >= Interval
      BY <2>0, <3>1, <3>2, <3>3
    <3>4. CASE w >= -left
      BY <1>1, <2>2, <3>1, <3>2, <3>4
    <3>5. QED
      BY <3>3, <3>4
  <2>3. QED
    BY <2>1, <2>2
<1>4. QED
  BY <1>2, <1>3 DEF Quota

\* A step keeps the slots within the rate.
LEMMA QuotaStep ==
  ASSUME Typed, CallInv, QuotaInv, Next, NEW p \in Limited
  PROVE  Quota(p)'
<1>0. /\ Quota(p) /\ bucket[p] \in [tokens : Int, ts : Int] /\ wall \in Int /\ Interval \in Nat
      /\ bucket \in [Limited -> [tokens : Int, ts : Int]]
      /\ started \in [Limited -> Nat] /\ forgiven \in [Limited -> Int]
  BY RouterAssumption DEF QuotaInv, Typed
<1> DEFINE full == Refill(bucket[p]).tokens
<1>a. /\ full \in Int /\ full <= Interval /\ full <= bucket[p].tokens + Elapsed(bucket[p])
      /\ bucket[p].tokens \in Int /\ Elapsed(bucket[p]) \in Nat
  BY Refilled
<1>b. /\ Paid(Refill(bucket[p])).tokens = full - Interval
      /\ Paid(Refill(bucket[p])).ts = wall
  BY Refilled DEF Paid
<1>c. Full(wall).tokens = Interval /\ Full(wall).ts = wall
  BY DEF Full
<1> HIDE DEF full
<1>1. ASSUME NEW c \in Callers, Begin(c) \/ Succeed(c) \/ \E kind \in Kinds : Fail(c, kind)
      PROVE  Quota(p)'
  <2>1. /\ Others(c) /\ call[c].pc # "sleep" /\ call'[c].pc # "sleep"
        /\ UNCHANGED <<started, forgiven, bucket, time, wall>>
    <3>1. CASE Begin(c)
      BY <3>1, Begins DEF Begin, history
    <3>2. CASE Succeed(c)
      <4>1. call'[c] = [Idle EXCEPT !.pc = "done"] /\ Others(c)
        BY <3>2 DEF Succeed, Typed, Others
      <4>2. [Idle EXCEPT !.pc = "done"].pc = "done"
        BY DEF Idle
      <4>3. QED
        BY <3>2, <4>1, <4>2 DEF Succeed, history
    <3>3. ASSUME NEW kind \in Kinds, Fail(c, kind)
          PROVE  /\ Others(c) /\ call[c].pc # "sleep" /\ call'[c].pc # "sleep"
                 /\ UNCHANGED <<started, forgiven, bucket, time, wall>>
      BY <3>3, Fails DEF Fail, history
    <3>4. QED
      BY <1>1, <3>1, <3>2, <3>3
  <2>2. \A v \in Nat : Sleeping(p)' = Sleeping(p) /\ DueBy(p, v)' = DueBy(p, v)
    BY <2>1, CountSame
  <2>3. Elapsed(bucket[p])' = Elapsed(bucket[p])
    BY <2>1 DEF Elapsed
  <2>4. QED
    BY <1>0, <2>1, <2>2, <2>3, QuotaStays
<1>2. ASSUME NEW c \in Callers, Slot(c)
      PROVE  Quota(p)'
  <2>0. /\ call[c].pc = "slot" /\ UNCHANGED <<time, wall, started, forgiven>>
    BY <1>2 DEF Slot, history
  <2>1. CASE Target(c) = p
    <3> DEFINE b == Paid(Refill(bucket[p]))
               w == IF b.tokens >= 0 THEN 0 ELSE -b.tokens
    <3>1. bucket' = [bucket EXCEPT ![p] = b] /\ Sleeps(c, w)
      BY <1>2, <2>1 DEF Slot
    <3>2. b.tokens = full - Interval /\ b.ts = wall
      BY <1>b
    <3>3. w \in Nat /\ w >= -(full - Interval)
      BY <1>0, <1>a, <3>2
    <3> HIDE DEF w, b
    <3>4. Others(c) /\ Same(c) /\ call'[c].pc = "sleep" /\ call'[c].wait = w
      BY <3>1, <3>3, FallsAsleep
    <3>5. /\ Sleeping(p)' = Sleeping(p) + 1
          /\ \A v \in Nat : DueBy(p, v)' = IF w <= v THEN DueBy(p, v) + 1 ELSE DueBy(p, v)
      BY <2>0, <2>1, <3>4, CountIn
    <3>6. bucket'[p] = b
      BY <1>0, <3>1
    <3>7. bucket[p].tokens' = full - Interval /\ Elapsed(bucket[p])' = 0
      BY <1>0, <2>0, <3>2, <3>6 DEF Elapsed
    <3> DEFINE left == full - Interval
               gift == 0
    <3>8. /\ left \in Int /\ gift \in Int /\ gift >= 0
          /\ left = bucket[p].tokens' + Elapsed(bucket[p])'
          /\ bucket[p].tokens' \in Int /\ Elapsed(bucket[p])' \in Nat
          /\ forgiven[p]' = forgiven[p] + gift
          /\ left <= bucket[p].tokens + Elapsed(bucket[p]) - Interval + gift
          /\ w >= -left
      BY <1>0, <1>a, <2>0, <3>3, <3>7
    <3> HIDE DEF left, gift
    <3>9. QED
      BY <1>0, <2>0, <3>3, <3>5, <3>8, OneMore
  <2>2. CASE Target(c) # p
    <3>1. PICK w \in Nat : Sleeps(c, w)
      <4>1. CASE Target(c) \notin Limited
        BY <1>2, <4>1 DEF Slot
      <4>2. CASE Target(c) \in Limited
        <5> DEFINE b == Paid(Refill(bucket[Target(c)]))
        <5>1. Sleeps(c, IF b.tokens >= 0 THEN 0 ELSE -b.tokens)
          BY <1>2, <4>2 DEF Slot
        <5>2. b.tokens \in Int
          BY <4>2, Refilled, RouterAssumption DEF Paid
        <5> HIDE DEF b
        <5>3. QED
          BY <5>1, <5>2
      <4>3. QED
        BY <4>1, <4>2
    <3>2. Others(c) /\ Same(c) /\ call'[c].pc = "sleep"
      BY <3>1, FallsAsleep
    <3>3. \A v \in Nat : Sleeping(p)' = Sleeping(p) /\ DueBy(p, v)' = DueBy(p, v)
      BY <2>0, <2>2, <3>2, CountIn
    <3>4. bucket'[p] = bucket[p]
      BY <1>0, <1>2, <2>2 DEF Slot
    <3>5. Elapsed(bucket[p])' = Elapsed(bucket[p])
      BY <2>0, <3>4 DEF Elapsed
    <3>6. QED
      BY <1>0, <2>0, <3>3, <3>4, <3>5, QuotaStays
  <2>3. QED
    BY <2>1, <2>2
<1>3. ASSUME NEW c \in Callers, SlotFails(c)
      PROVE  Quota(p)'
  <2>0. /\ call[c].pc = "slot" /\ UNCHANGED <<time, wall, started>> /\ Sleeps(c, 0)
    BY <1>3 DEF SlotFails
  <2>1. Others(c) /\ Same(c) /\ call'[c].pc = "sleep" /\ call'[c].wait = 0
    BY <2>0, FallsAsleep
  <2>2. CASE Target(c) = p
    <3>1. /\ Sleeping(p)' = Sleeping(p) + 1
          /\ \A v \in Nat : DueBy(p, v)' = IF 0 <= v THEN DueBy(p, v) + 1 ELSE DueBy(p, v)
      BY <2>0, <2>1, <2>2, CountIn
    <3>2. CASE bucket' = bucket /\ forgiven' = [forgiven EXCEPT ![p] = @ + Interval]
      <4>1. Elapsed(bucket[p])' = Elapsed(bucket[p])
        BY <2>0, <3>2 DEF Elapsed
      <4> DEFINE left == bucket[p].tokens + Elapsed(bucket[p])
      <4>2. /\ left \in Int /\ left = bucket[p].tokens' + Elapsed(bucket[p])'
            /\ bucket[p].tokens' \in Int /\ Elapsed(bucket[p])' \in Nat
            /\ forgiven[p]' = forgiven[p] + Interval /\ Interval >= 0 /\ Interval \in Int
            /\ left <= bucket[p].tokens + Elapsed(bucket[p]) - Interval + Interval
            /\ Interval >= Interval
        BY <1>0, <1>a, <3>2, <4>1
      <4> HIDE DEF left
      <4>3. QED
        BY <1>0, <2>0, <3>1, <4>2, OneMore
    <3>3. CASE /\ bucket' = [bucket EXCEPT ![p] = Full(wall)]
               /\ forgiven' = [forgiven EXCEPT ![p] = @ + Interval + (Interval - full)]
      <4>1. bucket'[p] = Full(wall)
        BY <1>0, <3>3
      <4>2. bucket[p].tokens' = Interval /\ Elapsed(bucket[p])' = 0
        BY <1>0, <1>c, <2>0, <4>1 DEF Elapsed
      <4> DEFINE gift == Interval + (Interval - full)
      <4>3. /\ Interval \in Int /\ Interval = bucket[p].tokens' + Elapsed(bucket[p])'
            /\ bucket[p].tokens' \in Int /\ Elapsed(bucket[p])' \in Nat
        BY <1>0, <4>2
      <4>4. forgiven[p]' = forgiven[p] + gift
        BY <1>0, <1>a, <3>3
      <4>5. /\ gift \in Int /\ gift >= 0 /\ gift >= Interval
            /\ Interval <= bucket[p].tokens + Elapsed(bucket[p]) - Interval + gift
        BY <1>0, <1>a
      <4> HIDE DEF gift
      <4>6. QED
        BY <1>0, <2>0, <3>1, <4>3, <4>4, <4>5, OneMore
    <3>4. QED
      BY <1>3, <2>2, <3>2, <3>3 DEF SlotFails, full
  <2>3. CASE Target(c) # p
    <3>1. \A v \in Nat : Sleeping(p)' = Sleeping(p) /\ DueBy(p, v)' = DueBy(p, v)
      BY <2>0, <2>1, <2>3, CountIn
    <3>2. bucket'[p] = bucket[p] /\ forgiven'[p] = forgiven[p]
      BY <1>0, <1>3, <2>3 DEF SlotFails
    <3>3. Elapsed(bucket[p])' = Elapsed(bucket[p])
      BY <2>0, <3>2 DEF Elapsed
    <3>4. QED
      BY <1>0, <2>0, <3>1, <3>2, <3>3, QuotaStays
  <2>4. QED
    BY <2>2, <2>3

<1>4. ASSUME NEW c \in Callers, Crash(c)
      PROVE  Quota(p)'
  <2>1. UNCHANGED <<time, wall, started>>
    BY <1>4 DEF Crash
  <2>2. ASSUME NEW v \in Nat
        PROVE  /\ Ticks(started[p] + Sleeping(p))' <= Ticks(started[p] + Sleeping(p))
               /\ Ticks(started[p] + DueBy(p, v))' <= Ticks(started[p] + DueBy(p, v))
               /\ Ticks(started[p] + Sleeping(p))' \in Int
               /\ Ticks(started[p] + DueBy(p, v))' \in Int
    <3>1. /\ Sleeping(p)' \in Nat /\ Sleeping(p)' <= Sleeping(p)
          /\ DueBy(p, v)' \in Nat /\ DueBy(p, v)' <= DueBy(p, v)
      BY <1>4, CountCrash
    <3> DEFINE a == started[p] + Sleeping(p)
               b == started[p]' + Sleeping(p)'
               d == started[p] + DueBy(p, v)
               e == started[p]' + DueBy(p, v)'
    <3>2. a \in Nat /\ b \in Nat /\ d \in Nat /\ e \in Nat /\ b <= a /\ e <= d
      BY <2>1, <3>1, Numbers
    <3> HIDE DEF a, b, d, e
    <3>3. Ticks(b) <= Ticks(a) /\ Ticks(e) <= Ticks(d) /\ Ticks(b) \in Int /\ Ticks(e) \in Int
      BY <3>2, Counting
    <3>4. QED
      BY <3>3 DEF a, b, d, e, Ticks
  <2>3. /\ Ticks(started[p] + Sleeping(p))
             <= Interval + time + forgiven[p] - bucket[p].tokens - Elapsed(bucket[p])
        /\ \A v \in Nat :
             Ticks(started[p] + DueBy(p, v)) <= Interval + time + v + forgiven[p]
    BY <1>0 DEF Quota
  <2>4. ASSUME NEW v \in Nat
        PROVE  Ticks(started[p] + DueBy(p, v))' <= (Interval + time + v + forgiven[p])'
    <3>1. forgiven'[p] \in Int /\ forgiven'[p] >= forgiven[p]
      BY <1>0, <1>4, <1>a DEF Crash, full
    <3>2. QED
      BY <2>1, <2>2, <2>3, <2>4, <3>1, Numbers
  <2>5. Ticks(started[p] + Sleeping(p))'
          <= Interval + time' + forgiven[p]' - bucket[p].tokens' - Elapsed(bucket[p])'
    <3>1. CASE Target(c) = p
      <4>1. /\ bucket' = [bucket EXCEPT ![p] = Full(wall)]
            /\ forgiven' = [forgiven EXCEPT ![p] = @ + Interval - full]
        BY <1>4, <3>1 DEF Crash, full
      <4>2. bucket'[p] = Full(wall)
        BY <1>0, <4>1
      <4>3. bucket[p].tokens' = Interval /\ Elapsed(bucket[p])' = 0
        BY <1>0, <1>c, <2>1, <4>2 DEF Elapsed
      <4>4. forgiven[p]' = forgiven[p] + Interval - full
        BY <1>0, <4>1
      <4>5. QED
        BY <1>a, <2>1, <2>2, <2>3, <4>3, <4>4, Numbers
    <3>2. CASE Target(c) # p
      <4>1. bucket'[p] = bucket[p] /\ forgiven'[p] = forgiven[p]
        BY <1>0, <1>4, <3>2 DEF Crash
      <4>2. Elapsed(bucket[p])' = Elapsed(bucket[p])
        BY <2>1, <4>1 DEF Elapsed
      <4>3. QED
        BY <2>1, <2>2, <2>3, <4>1, <4>2, Numbers
    <3>3. QED
      BY <3>1, <3>2
  <2>6. QED
    BY <2>4, <2>5 DEF Quota
<1>5. ASSUME NEW c \in Callers, Ask(c)
      PROVE  Quota(p)'
  <2>1. /\ UNCHANGED <<bucket, forgiven, time, wall>>
        /\ started[p]' = started[p] + IF p = Target(c) THEN 1 ELSE 0
    BY <1>5 DEF Ask
  <2>2. Elapsed(bucket[p])' = Elapsed(bucket[p])
    BY <2>1 DEF Elapsed
  <2>3. ASSUME NEW v \in Nat
        PROVE  /\ started[p]' + Sleeping(p)' = started[p] + Sleeping(p)
               /\ started[p]' + DueBy(p, v)' = started[p] + DueBy(p, v)
    <3>1. started[p] \in Nat /\ Sleeping(p) \in Nat /\ DueBy(p, v) \in Nat
      BY Numbers
    <3>2. CASE Target(c) = p
      <4>1. Sleeping(p)' = Sleeping(p) - 1 /\ DueBy(p, v)' = DueBy(p, v) - 1
        BY <1>5, <3>2, CountOut
      <4>2. QED
        BY <2>1, <3>1, <3>2, <4>1
    <3>3. CASE Target(c) # p
      <4>1. Sleeping(p)' = Sleeping(p) /\ DueBy(p, v)' = DueBy(p, v)
        BY <1>5, <3>3, CountOut
      <4>2. QED
        BY <2>1, <3>1, <3>3, <4>1
    <3>4. QED
      BY <3>2, <3>3
  <2>4. QED
    BY <1>0, <2>1, <2>2, <2>3 DEF Quota
<1>6. CASE Tick
  <2>1. UNCHANGED <<bucket, forgiven, started>> /\ time' = time + 1 /\ wall' = wall + 1
    BY <1>6 DEF Tick, history
  <2>2. Elapsed(bucket[p])' \in Nat /\ Elapsed(bucket[p])' <= Elapsed(bucket[p]) + 1
    BY <1>0, <2>1 DEF Elapsed
  <2>3. \A v \in Nat : Sleeping(p)' = Sleeping(p) /\ DueBy(p, v)' = DueBy(p, v + 1)
    BY <1>6, CountTick
  <2>4. /\ Ticks(started[p] + Sleeping(p))
             <= Interval + time + forgiven[p] - bucket[p].tokens - Elapsed(bucket[p])
        /\ \A v \in Nat :
             Ticks(started[p] + DueBy(p, v + 1)) <= Interval + time + (v + 1) + forgiven[p]
    BY <1>0 DEF Quota
  <2>5. Ticks(started[p] + Sleeping(p))'
          <= Interval + time' + forgiven[p]' - bucket[p].tokens' - Elapsed(bucket[p])'
    BY <2>1, <2>2, <2>3, <2>4, Numbers
  <2>6. ASSUME NEW v \in Nat
        PROVE  Ticks(started[p] + DueBy(p, v))' <= Interval + time' + v + forgiven[p]'
    BY <2>1, <2>3, <2>4, <2>6, Numbers
  <2>7. QED
    BY <2>5, <2>6 DEF Quota
<1>7. CASE StepBack
  <2>1. UNCHANGED <<bucket, forgiven, started, time, call>> /\ wall' = wall - 1
    BY <1>7 DEF StepBack, history
  <2>2. Elapsed(bucket[p])' \in Nat /\ Elapsed(bucket[p])' <= Elapsed(bucket[p])
    BY <1>0, <2>1 DEF Elapsed
  <2>3. \A v \in Nat : Sleeping(p)' = Sleeping(p) /\ DueBy(p, v)' = DueBy(p, v)
    BY <2>1 DEF Sleeping, DueBy, Due, Asleep, Target
  <2>4. /\ Ticks(started[p] + Sleeping(p))
             <= Interval + time + forgiven[p] - bucket[p].tokens - Elapsed(bucket[p])
        /\ \A v \in Nat :
             Ticks(started[p] + DueBy(p, v)) <= Interval + time + v + forgiven[p]
    BY <1>0 DEF Quota
  <2>5. Ticks(started[p] + Sleeping(p))'
          <= Interval + time' + forgiven[p]' - bucket[p].tokens' - Elapsed(bucket[p])'
    BY <2>1, <2>2, <2>3, <2>4, Numbers
  <2>6. ASSUME NEW v \in Nat
        PROVE  Ticks(started[p] + DueBy(p, v))' <= Interval + time' + v + forgiven[p]'
    BY <2>1, <2>3, <2>4, <2>6
  <2>7. QED
    BY <2>5, <2>6 DEF Quota
<1>8. QED
  BY <1>1, <1>2, <1>3, <1>4, <1>5, <1>6, <1>7 DEF Next

-----------------------------------------------------------------------------
LEMMA Invariance == Spec => []IInv
<1>1. Init => IInv
  <2>1. ASSUME Init
        PROVE  Typed
    <3>1. Idle \in CallRecords
      BY DEF Idle, CallRecords
    <3>2. Full(wall) \in [tokens : Int, ts : Int] /\ wall \in Int
      BY <2>1, RouterAssumption DEF Init, Full
    <3>3. QED
      BY <2>1, <3>1, <3>2 DEF Init, Typed
  <2>2. ASSUME Init
        PROVE  \A c \in Callers : call[c].pc = "idle"
    BY <2>2 DEF Init, Idle
  <2>3. ASSUME Init, NEW p \in Limited
        PROVE  Quota(p)
    <3>1. Asleep(p) = {} /\ \A v : Due(p, v) = {}
      BY <2>2, <2>3 DEF Asleep, Due
    <3>2. Sleeping(p) = 0 /\ \A v : DueBy(p, v) = 0
      BY <3>1, FS_EmptySet DEF Sleeping, DueBy
    <3>3. started[p] = 0 /\ time = 0 /\ forgiven[p] = 0 /\ Interval \in Nat
      BY <2>3, RouterAssumption DEF Init
    <3>4. bucket[p].tokens = Interval /\ Elapsed(bucket[p]) = 0
      BY <2>3, RouterAssumption DEF Init, Full, Elapsed
    <3>5. Ticks(0) = 0
      BY Counting
    <3>6. started[p] + Sleeping(p) = 0 /\ \A v : started[p] + DueBy(p, v) = 0
      BY <3>2, <3>3
    <3>7. QED
      BY <3>3, <3>4, <3>5, <3>6 DEF Quota
  <2>4. QED
    BY <2>1, <2>2, <2>3 DEF IInv, CallInv, RefusedOnce, QuotaInv, Active
<1>2. ASSUME IInv, Next
      PROVE  IInv'
  <2>1. Typed /\ CallInv /\ RefusedOnce /\ QuotaInv
    BY <1>2 DEF IInv
  <2>2. call' \in [Callers -> CallRecords] /\ CallInv' /\ RefusedOnce'
    BY <1>2, <2>1, CallStep
  <2>3. Typed'
    BY <1>2, <2>1, <2>2, RestTyped DEF Typed
  <2>4. QuotaInv'
    BY <1>2, <2>1, QuotaStep DEF QuotaInv
  <2>5. QED
    BY <2>2, <2>3, <2>4 DEF IInv
<1>3. ASSUME IInv, UNCHANGED vars
      PROVE  IInv'
  <2>1. UNCHANGED <<time, wall, bucket, cooling, call, started, forgiven>>
    BY <1>3 DEF vars
  <2>2. Typed' /\ CallInv' /\ RefusedOnce'
    BY <1>3, <2>1 DEF IInv, Typed, CallInv, RefusedOnce, Target
  <2>3. ASSUME NEW p \in Limited
        PROVE  Quota(p)'
    <3>1. /\ Elapsed(bucket[p])' = Elapsed(bucket[p]) /\ Sleeping(p)' = Sleeping(p)
          /\ \A v : DueBy(p, v)' = DueBy(p, v)
      BY <2>1 DEF Elapsed, Sleeping, DueBy, Due, Asleep, Target
    <3>2. Quota(p)
      BY <1>3 DEF IInv, QuotaInv
    <3>3. QED
      BY <2>1, <3>1, <3>2 DEF Quota
  <2>4. QED
    BY <2>2, <2>3 DEF IInv, QuotaInv
<1>4. QED
  BY <1>1, <1>2, <1>3, PTL DEF Spec

(* All processes together ask a limited provider no more often than its     *)
(* rate and the failures of the bucket file allow (QuotaKept).             *)
THEOREM QuotaKeptHolds == Spec => []QuotaKept
<1>1. ASSUME IInv, NEW p \in Limited
      PROVE  started[p] * Interval <= Interval + time + forgiven[p]
  <2>1. Typed /\ Quota(p)
    BY <1>1 DEF IInv, QuotaInv
  <2>2. Ticks(started[p] + DueBy(p, 0)) <= Interval + time + 0 + forgiven[p]
    BY <2>1 DEF Quota
  <2>3. /\ started[p] \in Nat /\ DueBy(p, 0) \in Nat /\ forgiven[p] \in Int /\ time \in Nat
        /\ Interval \in Nat
    BY <2>1, Numbers
  <2> DEFINE d == started[p] + DueBy(p, 0)
  <2>4. d \in Nat /\ started[p] <= d
    BY <2>3
  <2> HIDE DEF d
  <2>5. Ticks(started[p]) <= Ticks(d) /\ Ticks(started[p]) \in Int /\ Ticks(d) \in Int
    BY <2>3, <2>4, Counting
  <2>6. QED
    BY <2>2, <2>3, <2>5 DEF d, Ticks
<1>2. IInv => QuotaKept
  BY <1>1 DEF QuotaKept
<1>3. QED
  BY <1>2, Invariance, PTL

(* No call goes back to a provider that refused it, not even under another *)
(* model name (RefusedOnce).                                               *)
THEOREM RefusedOnceHolds == Spec => []RefusedOnce
BY Invariance, PTL DEF IInv

-----------------------------------------------------------------------------
(* The bounds of the clocks, the buckets and the cool-downs.               *)

\* The wall clock has fallen back by no more than its faults; no bucket is fuller than full.
ClockInv ==
  /\ time <= MaxTime /\ faults \in 0..MaxFaults
  /\ wall <= MaxFaults + time /\ MaxFaults + time <= wall + faults

BucketInv == \A p \in Limited : bucket[p].tokens <= Interval /\ bucket[p].ts >= 0

CoolInv == cooling \in [Processes -> [Providers -> 0..MaxCooldown]]

LEMMA ClockStep ==
  ASSUME Typed, ClockInv, Next
  PROVE  ClockInv'
<1>0. time \in Nat /\ wall \in Int /\ MaxTime \in Nat /\ MaxFaults \in Nat /\ faults \in 0..MaxFaults
  BY RouterAssumption DEF Typed, ClockInv
<1>1. ASSUME NEW c \in Callers, Begin(c) \/ Succeed(c) \/ Slot(c) \/ Ask(c)
      PROVE  ClockInv'
  BY <1>1 DEF Begin, Succeed, Slot, Ask, ClockInv
<1>2. ASSUME NEW c \in Callers, SlotFails(c) \/ Crash(c)
      PROVE  ClockInv'
  <2>1. UNCHANGED <<time, wall>> /\ faults' = faults + 1 /\ faults < MaxFaults
    BY <1>2 DEF SlotFails, Crash
  <2>2. QED
    BY <1>0, <2>1 DEF ClockInv
<1>3. ASSUME NEW c \in Callers, NEW kind \in Kinds, Fail(c, kind)
      PROVE  ClockInv'
  <2>1. UNCHANGED <<time, wall, faults>>
    BY <1>3 DEF Fail
  <2>2. QED
    BY <2>1 DEF ClockInv
<1>4. CASE Tick
  <2>1. time' = time + 1 /\ wall' = wall + 1 /\ faults' = faults /\ time < MaxTime
    BY <1>4 DEF Tick
  <2>2. QED
    BY <1>0, <2>1 DEF ClockInv
<1>5. CASE StepBack
  <2>1. time' = time /\ wall' = wall - 1 /\ faults' = faults + 1 /\ faults < MaxFaults
    BY <1>5 DEF StepBack
  <2>2. QED
    BY <1>0, <2>1 DEF ClockInv
<1>6. QED
  BY <1>1, <1>2, <1>3, <1>4, <1>5 DEF Next

LEMMA BucketStep ==
  ASSUME Typed, ClockInv, BucketInv, Next
  PROVE  BucketInv'
<1>0. /\ bucket \in [Limited -> [tokens : Int, ts : Int]] /\ Interval \in Nat /\ wall \in Int /\ wall >= 0
      /\ Full(wall).tokens = Interval /\ Full(wall).ts = wall
  <2>1. time \in Nat /\ wall \in Int /\ MaxFaults \in Nat /\ faults \in 0..MaxFaults
    BY RouterAssumption DEF Typed, ClockInv
  <2>2. wall >= 0
    BY <2>1 DEF ClockInv
  <2>3. QED
    BY <2>1, <2>2, RouterAssumption DEF Typed, Full
<1>1. \A p \in Limited : Paid(Refill(bucket[p])).tokens <= Interval /\ Paid(Refill(bucket[p])).ts = wall
  <2> SUFFICES ASSUME NEW p \in Limited
               PROVE  Paid(Refill(bucket[p])).tokens <= Interval /\ Paid(Refill(bucket[p])).ts = wall
    OBVIOUS
  <2>1. /\ Refill(bucket[p]).ts = wall /\ Refill(bucket[p]) \in [tokens : Int, ts : Int]
        /\ Refill(bucket[p]).tokens \in Int /\ Refill(bucket[p]).tokens <= Interval
    BY Refilled
  <2>2. Paid(Refill(bucket[p])).tokens = Refill(bucket[p]).tokens - Interval
        /\ Paid(Refill(bucket[p])).ts = wall
    BY <2>1 DEF Paid
  <2>3. QED
    BY <1>0, <2>1, <2>2
<1>2. ASSUME NEW c \in Callers, Begin(c) \/ Succeed(c) \/ Ask(c)
      PROVE  BucketInv'
  BY <1>2 DEF Begin, Succeed, Ask, BucketInv
<1>3. ASSUME NEW c \in Callers, Slot(c)
      PROVE  BucketInv'
  <2>1. CASE Target(c) \in Limited
    <3>1. bucket' = [bucket EXCEPT ![Target(c)] = Paid(Refill(bucket[Target(c)]))]
      BY <1>3, <2>1 DEF Slot
    <3>2. QED
      BY <1>0, <1>1, <2>1, <3>1 DEF BucketInv
  <2>2. CASE Target(c) \notin Limited
    BY <1>3, <2>2 DEF Slot, BucketInv
  <2>3. QED
    BY <2>1, <2>2
<1>4. ASSUME NEW c \in Callers, SlotFails(c) \/ Crash(c)
      PROVE  BucketInv'
  <2>1. Target(c) \in Limited
        /\ (bucket' = bucket \/ bucket' = [bucket EXCEPT ![Target(c)] = Full(wall)])
    BY <1>4 DEF SlotFails, Crash
  <2>2. QED
    BY <1>0, <2>1 DEF BucketInv
<1>5. ASSUME NEW c \in Callers, NEW kind \in Kinds, Fail(c, kind)
      PROVE  BucketInv'
  <2>1. bucket' = bucket
    BY <1>5 DEF Fail
  <2>2. QED
    BY <2>1 DEF BucketInv
<1>6. CASE Tick \/ StepBack
  BY <1>6 DEF Tick, StepBack, BucketInv
<1>7. QED
  BY <1>2, <1>3, <1>4, <1>5, <1>6 DEF Next

LEMMA CoolStep ==
  ASSUME Typed, CoolInv, Next
  PROVE  CoolInv'
<1>1. ASSUME NEW c \in Callers, Begin(c) \/ Succeed(c) \/ Slot(c) \/ Ask(c) \/ SlotFails(c) \/ Crash(c)
      PROVE  CoolInv'
  <2>1. cooling' = cooling
    BY <1>1 DEF Begin, Succeed, Slot, Ask, SlotFails, Crash
  <2>2. QED
    BY <2>1 DEF CoolInv
<1>2. ASSUME NEW c \in Callers, NEW kind \in Kinds, Fail(c, kind)
      PROVE  CoolInv'
  <2>1. PICK seconds \in Cooldowns(kind) :
          cooling' = [cooling EXCEPT ![Of[c]][Target(c)] = Max({@, seconds})]
    BY <1>2 DEF Fail
  <2>2. seconds \in 0..MaxCooldown /\ MaxCooldown \in Nat
    BY RouterAssumption DEF Cooldowns
  <2>3. \A n \in 0..MaxCooldown : Max({n, seconds}) \in 0..MaxCooldown
    <3> SUFFICES ASSUME NEW n \in 0..MaxCooldown PROVE Max({n, seconds}) \in 0..MaxCooldown
      OBVIOUS
    <3>1. \E x \in {n, seconds} : \A y \in {n, seconds} : x >= y
      BY <2>2
    <3>2. Max({n, seconds}) \in {n, seconds}
      BY <3>1 DEF Max
    <3>3. QED
      BY <2>2, <3>2
  <2> DEFINE r == Of[c]
             p == Target(c)
  <2>4. cooling' = [cooling EXCEPT ![r] = [cooling[r] EXCEPT ![p] = Max({cooling[r][p], seconds})]]
    BY <2>1
  <2> HIDE DEF r, p
  <2>5. ASSUME NEW q \in Processes
        PROVE  cooling'[q] \in [Providers -> 0..MaxCooldown]
    <3>1. cooling[q] \in [Providers -> 0..MaxCooldown]
      BY DEF CoolInv
    <3>2. CASE q = r
      <4>1. cooling'[q] = [cooling[q] EXCEPT ![p] = Max({cooling[q][p], seconds})]
        BY <2>4, <3>2 DEF CoolInv
      <4>2. QED
        BY <2>3, <3>1, <4>1
    <3>3. CASE q # r
      BY <2>4, <3>1, <3>3 DEF CoolInv
    <3>4. QED
      BY <3>2, <3>3
  <2>6. cooling' = [q \in Processes |-> cooling'[q]]
    BY <2>4 DEF CoolInv
  <2>7. QED
    BY <2>5, <2>6 DEF CoolInv
<1>3. CASE Tick
  <2>1. \A n \in 0..MaxCooldown : Less(n) \in 0..MaxCooldown
    BY RouterAssumption DEF Less
  <2>2. QED
    BY <1>3, <2>1 DEF Tick, CoolInv
<1>4. CASE StepBack
  BY <1>4 DEF StepBack, CoolInv
<1>5. QED
  BY <1>1, <1>2, <1>3, <1>4 DEF Next

(* Types and bounds: the wall clock never falls below zero, a bucket never *)
(* holds more than a slot's worth, however long nobody asked and whatever  *)
(* the clock and the file do, and no cool-down exceeds the longest.        *)
THEOREM TypeCorrect == Spec => []TypeOK
<1> DEFINE Bounds == ClockInv /\ BucketInv /\ CoolInv
<1>1. Init => Bounds
  <2> SUFFICES ASSUME Init PROVE Bounds
    OBVIOUS
  <2>1. /\ Interval \in Nat /\ MaxTime \in Nat /\ MaxFaults \in Nat /\ MaxCooldown \in Nat
        /\ 0 \in 0..MaxCooldown
    BY RouterAssumption
  <2>2. CoolInv
    BY <2>1 DEF Init, CoolInv
  <2>3. BucketInv
    BY <2>1 DEF Init, Full, BucketInv
  <2>4. ClockInv
    BY <2>1 DEF Init, ClockInv
  <2>5. QED
    BY <2>2, <2>3, <2>4
<1>2. ASSUME IInv, Bounds, [Next]_vars
      PROVE  Bounds'
  <2>1. CASE Next
    BY <1>2, <2>1, ClockStep, BucketStep, CoolStep DEF IInv
  <2>2. CASE UNCHANGED vars
    BY <1>2, <2>2 DEF vars, ClockInv, BucketInv, CoolInv
  <2>3. QED
    BY <1>2, <2>1, <2>2
<1>3. ASSUME IInv, Bounds
      PROVE  TypeOK
  <2>1. time \in 0..MaxTime /\ wall \in 0..(MaxTime + MaxFaults) /\ faults \in 0..MaxFaults
    <3>1. /\ time \in Nat /\ wall \in Int /\ MaxTime \in Nat /\ MaxFaults \in Nat
          /\ faults \in 0..MaxFaults
      BY <1>3, RouterAssumption DEF IInv, Typed, ClockInv
    <3>2. QED
      BY <1>3, <3>1 DEF ClockInv
  <2>2. \A p \in Limited :
          bucket[p].tokens \in Int /\ bucket[p].tokens <= Interval /\ bucket[p].ts \in Nat
    BY <1>3 DEF IInv, Typed, BucketInv
  <2>3. \A c \in Callers :
          /\ call[c].pc \in {"idle", "slot", "sleep", "asked", "done", "failed"}
          /\ call[c].pc \in {"slot", "sleep", "asked"} => call[c].at \in 1..Len(call[c].chain)
    BY <1>3 DEF IInv, Typed, CallInv, CallRecords, Active
  <2>4. QED
    BY <1>3, <2>1, <2>2, <2>3 DEF IInv, Typed, CoolInv, TypeOK
<1> HIDE DEF Bounds
<1>4. QED
  BY <1>1, <1>2, <1>3, Invariance, PTL DEF Spec
=============================================================================
