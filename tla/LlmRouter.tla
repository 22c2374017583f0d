----------------------------- MODULE LlmRouter -----------------------------
(***************************************************************************)
(* Calls of language models: run_with_fallback tries the targets of a      *)
(* chain, set_cooldown makes a process leave a provider alone for a while, *)
(* and FileTokenBucket gives all processes together one slot per interval. *)
(*                                                                         *)
(* A caller is a thread or a task: a step ends where it sleeps, talks to a *)
(* provider or waits for the lock of the bucket file.  Tokens are counted  *)
(* in ticks: a slot costs Interval of them, which is also the capacity.    *)
(***************************************************************************)
EXTENDS Integers, Sequences, FiniteSetsExt

CONSTANTS
    Callers,
    Processes,
    Of,             \* Of[c]: the process of a caller
    Providers,
    Chains,         \* the chains resolve_targets can give: targets, each a provider, and is it usable?
    Limited,        \* the providers with a rate limit
    Interval,       \* 60 / rpm
    Retries,        \* max_retries
    MaxCooldown,    \* cool-downs last 1 to MaxCooldown ticks
    MaxTime,        \* bound on ticks
    MaxFaults       \* bound on failures of the bucket file and steps back of the clock

ASSUME RouterAssumption ==
    /\ {Interval, Retries, MaxCooldown} \subseteq Nat \ {0} /\ {MaxTime, MaxFaults} \subseteq Nat
    /\ Of \in [Callers -> Processes] /\ Limited \subseteq Providers /\ IsFiniteSet(Callers)
    /\ Chains \subseteq Seq([provider : Providers, usable : BOOLEAN])
    /\ \A chain \in Chains : Len(chain) \in 1..2     \* a primary and at most a fallback

VARIABLES
    time,       \* time.monotonic
    wall,       \* time.time
    bucket,     \* of a limited provider: tokens and ts, as the file has them
    cooling,    \* _cooldowns of a process: for how much longer a provider is not to be used
    call,       \* of a caller: where it is in its chain, and who refused it (429 and the like)
    faults,
    started,    \* history: how often a limited provider was asked, by all processes
    forgiven    \* history: tokens a provider's bucket got for nothing when its file failed

vars == <<time, wall, bucket, cooling, call, faults, started, forgiven>>

Full(now) == [tokens |-> Interval, ts |-> now]

Idle == [pc |-> "idle", chain |-> <<>>, at |-> 0, tried |-> 0, wait |-> 0, refused |-> {}]

Init ==
    /\ time = 0 /\ wall = MaxFaults
    /\ bucket = [p \in Limited |-> Full(wall)]
    /\ cooling = [r \in Processes |-> [p \in Providers |-> 0]]
    /\ call = [c \in Callers |-> Idle]
    /\ faults = 0
    /\ started = [p \in Limited |-> 0] /\ forgiven = [p \in Limited |-> 0]

history == <<started, forgiven>>

Target(c) == call[c].chain[call[c].at].provider

\* The next target that has a key and does not cool, if there is one.
NextTarget(chain, from, cool, refused) ==
    LET ready == {i \in from..Len(chain) : chain[i].usable /\ cool[chain[i].provider] = 0} IN
    IF ready = {} THEN [Idle EXCEPT !.pc = "failed"]
    ELSE [pc |-> "slot", chain |-> chain, at |-> Min(ready), tried |-> 0, wait |-> 0, refused |-> refused]

Begin(c) ==
    /\ call[c].pc = "idle"
    /\ \E chain \in Chains : call' = [call EXCEPT ![c] = NextTarget(chain, 1, cooling[Of[c]], {})]
    /\ UNCHANGED <<time, wall, bucket, cooling, faults, history>>

-----------------------------------------------------------------------------
(* FileTokenBucket.consume                                                 *)

Elapsed(b) == IF wall > b.ts THEN wall - b.ts ELSE 0

\* Up to the capacity.  After a step back of the clock nothing is added.
Refill(b) == [tokens |-> Min({Interval, b.tokens + Elapsed(b)}), ts |-> wall]

\* Mutant: who must wait does not pay in advance.
PaidLater(b) == IF b.tokens < Interval THEN b ELSE [b EXCEPT !.tokens = @ - Interval]

\* Paid in advance: each caller that waits has a slot of its own.
Paid(b) == [b EXCEPT !.tokens = @ - Interval]

Sleeps(c, wait) == call' = [call EXCEPT ![c].pc = "sleep", ![c].wait = wait]

Slot(c) ==
    /\ call[c].pc = "slot"
    /\ LET p == Target(c) IN
         IF p \notin Limited THEN Sleeps(c, 0) /\ UNCHANGED bucket
         ELSE LET b == Paid(Refill(bucket[p])) IN
                /\ bucket' = [bucket EXCEPT ![p] = b]
                /\ Sleeps(c, IF b.tokens >= 0 THEN 0 ELSE -b.tokens)
    /\ UNCHANGED <<time, wall, cooling, faults, history>>

\* The file cannot be opened, or is cut off and cannot be written: the caller goes ahead.
\* A file without content counts as full.
SlotFails(c) ==
    /\ call[c].pc = "slot" /\ Target(c) \in Limited /\ faults < MaxFaults
    /\ LET p == Target(c)
           lost == Interval - Refill(bucket[p]).tokens IN
         \/ /\ UNCHANGED bucket
            /\ forgiven' = [forgiven EXCEPT ![p] = @ + Interval]
         \/ /\ bucket' = [bucket EXCEPT ![p] = Full(wall)]
            /\ forgiven' = [forgiven EXCEPT ![p] = @ + Interval + lost]
    /\ faults' = faults + 1
    /\ Sleeps(c, 0)
    /\ UNCHANGED <<time, wall, cooling, started>>

\* A process dies between cutting the file off and writing it.
Crash(c) ==
    /\ call[c].pc = "slot" /\ Target(c) \in Limited /\ faults < MaxFaults
    /\ LET p == Target(c) IN
         /\ bucket' = [bucket EXCEPT ![p] = Full(wall)]
         /\ forgiven' = [forgiven EXCEPT ![p] = @ + Interval - Refill(bucket[p]).tokens]
    /\ faults' = faults + 1
    /\ call' = [d \in Callers |-> IF Of[d] = Of[c] THEN [Idle EXCEPT !.pc = "failed"] ELSE call[d]]
    /\ UNCHANGED <<time, wall, cooling, started>>

-----------------------------------------------------------------------------
(* The attempt                                                             *)

Ask(c) ==
    /\ call[c].pc = "sleep" /\ call[c].wait = 0
    /\ call' = [call EXCEPT ![c].pc = "asked", ![c].tried = @ + 1]
    /\ started' = [p \in Limited |-> started[p] + IF p = Target(c) THEN 1 ELSE 0]
    /\ UNCHANGED <<time, wall, bucket, cooling, faults, forgiven>>

Succeed(c) ==
    /\ call[c].pc = "asked"
    /\ call' = [call EXCEPT ![c] = [Idle EXCEPT !.pc = "done"]]
    /\ UNCHANGED <<time, wall, bucket, cooling, faults, history>>

\* refused: 429 (any Retry-After, cut to 1 second at least), 400, 401, 403, 404.
\* client: other 4xx.  server: 5xx, or no answer.  odd: an answer that cannot be read.
Kinds == {"refused", "client", "server", "odd"}

Retryable == {"server", "odd"}

\* Mutant: Retry-After is taken as it comes.
CooldownsRaw(kind) == IF kind = "odd" THEN {0} ELSE 0..MaxCooldown

Cooldowns(kind) == IF kind = "odd" THEN {0} ELSE 1..MaxCooldown

Fail(c, kind) ==
    /\ call[c].pc = "asked"
    /\ \E seconds \in Cooldowns(kind) :
         LET r == Of[c]
             p == Target(c)
             refused == call[c].refused \cup IF kind = "refused" THEN {p} ELSE {} IN
         /\ cooling' = [cooling EXCEPT ![r][p] = Max({@, seconds})]
         /\ call' = [call EXCEPT ![c] =
                       IF kind \in Retryable /\ @.tried < Retries THEN [@ EXCEPT !.pc = "slot"]
                       ELSE NextTarget(@.chain, @.at + 1, cooling'[r], refused)]
    /\ UNCHANGED <<time, wall, bucket, faults, history>>

-----------------------------------------------------------------------------
Less(n) == IF n = 0 THEN 0 ELSE n - 1

Tick ==
    /\ time < MaxTime
    /\ time' = time + 1 /\ wall' = wall + 1
    /\ cooling' = [r \in Processes |-> [p \in Providers |-> Less(cooling[r][p])]]
    /\ call' = [c \in Callers |-> [call[c] EXCEPT !.wait = Less(@)]]
    /\ UNCHANGED <<bucket, faults, history>>

StepBack ==
    /\ faults < MaxFaults
    /\ wall' = wall - 1 /\ faults' = faults + 1
    /\ UNCHANGED <<time, bucket, cooling, call, history>>

Next ==
    \/ \E c \in Callers :
         \/ Begin(c) \/ Slot(c) \/ SlotFails(c) \/ Crash(c) \/ Ask(c) \/ Succeed(c)
         \/ \E kind \in Kinds : Fail(c, kind)
    \/ Tick \/ StepBack

Spec == Init /\ [][Next]_vars

-----------------------------------------------------------------------------
(* Types; a bucket never holds more than a slot's worth.                   *)
TypeOK ==
    /\ time \in 0..MaxTime /\ wall \in 0..(MaxTime + MaxFaults)
    /\ \A p \in Limited : bucket[p].tokens \in Int /\ bucket[p].tokens <= Interval /\ bucket[p].ts \in Nat
    /\ cooling \in [Processes -> [Providers -> 0..MaxCooldown]]
    /\ \A c \in Callers :
         /\ call[c].pc \in {"idle", "slot", "sleep", "asked", "done", "failed"}
         /\ call[c].pc \in {"slot", "sleep", "asked"} => call[c].at \in 1..Len(call[c].chain)
    /\ faults \in 0..MaxFaults /\ started \in [Limited -> Nat] /\ forgiven \in [Limited -> Int]

(* All processes together ask a limited provider once per interval, and    *)
(* once more at the start, whoever sleeps too long and however the clock   *)
(* steps back; beyond that only what failures of the file gave away.       *)
QuotaKept == \A p \in Limited : started[p] * Interval <= Interval + time + forgiven[p]

(* A provider that refused a call (429, 401, ...) is not asked again for   *)
(* it, not even as the fallback under another model name: the cool-down of *)
(* the first target covers it.                                             *)
RefusedOnce == \A c \in Callers : call[c].pc \in {"slot", "sleep", "asked"} => Target(c) \notin call[c].refused

(* The provider that was hit is not touched again while it cools.          *)
CoolingUntouched ==
    [][\A c \in Callers : call[c].pc = "sleep" /\ call'[c].pc = "asked" => cooling[Of[c]][Target(c)] = 0]_vars
=============================================================================
