------------------------------ MODULE EventBus ------------------------------
(***************************************************************************)
(* event_bus.py: subscriptions, publish, replay and the dispatch tasks of  *)
(* the daemon's event bus.  One event loop runs everything: an action is   *)
(* what happens between two awaits, and tasks start in the order in which  *)
(* they were created (asyncio's ready queue).  What a subscriber does is   *)
(* its outcome: it returns or fails, at once or after awaiting something.  *)
(***************************************************************************)
EXTENDS EventMatch, FiniteSets

CONSTANTS
    Types,          \* event types, the failure event's among them
    FailureType,    \* FAILURE_EVENT_TYPE
    Patterns,       \* patterns of subscriptions
    Callbacks,
    MaxHistory,     \* _MAX_HISTORY
    Strict,         \* TRIMUM_BUS_STRICT
    MaxEvents,      \* bound: events that are published from outside the bus
    MaxChanges,     \* bound: calls of subscribe, subscribe_with_replay and unsubscribe
    MaxFailures     \* bound: callbacks that raise

ASSUME BusAssumption ==
    /\ FailureType \in Types /\ Strict \in BOOLEAN
    /\ MaxHistory \in Nat \ {0} /\ MaxEvents \in Nat /\ MaxChanges \in Nat /\ MaxFailures \in Nat

\* Types and patterns are lists of segments; a pattern has one star at most, as documented.
ASSUME SegmentsAssumption ==
    /\ \A s \in Types \cup Patterns : s \in Seq(ToSet(s)) /\ Len(s) > 0
    /\ \A p \in Patterns : \A i, j \in DOMAIN p : p[i] = Star /\ p[j] = Star => i = j

VARIABLES
    subs,       \* _subscribers: patterns in the order of their insertion, with listeners
    index,      \* _index
    history,    \* _history
    pending,    \* _pending: tasks that publish created
    ready,      \* tasks that have not started, in the order of their creation
    waiting,    \* tasks that await something
    failures,   \* dispatch_failures
    wait,       \* where the call of wait_for_handlers is (bound: one call)
    gathered,   \* the tasks that it gathers
    log,        \* history: the types of all events ever published
    due,        \* history: the events each callback is to be called with
    begun,      \* history: the events each callback was called with
    changes     \* changes of the subscriptions so far

subVars == <<subs, index, changes>>
waitVars == <<wait, gathered>>
pubVars == <<history, pending, log>>
vars == <<subVars, waitVars, pubVars, ready, waiting, failures, due, begun>>

\* A dispatch of event n to callback cb: by publish, to the listener at place number nr,
\* or by the replay of subscription number nr, whose tasks are not in _pending.
Task(n, type, cb, by, nr) == [event |-> n, type |-> type, cb |-> cb, by |-> by, nr |-> nr]
Alive == ToSet(ready) \cup waiting

Init ==
    /\ subs = <<>> /\ index = EmptyIndex /\ history = <<>>
    /\ pending = {} /\ ready = <<>> /\ waiting = {} /\ failures = 0 /\ wait = "no" /\ gathered = {}
    /\ log = <<>>
    /\ due = [c \in Callbacks |-> <<>>] /\ begun = [c \in Callbacks |-> <<>>]
    /\ changes = 0

-----------------------------------------------------------------------------
(* publish                                                                 *)

\* What a scan of the whole table of subscriptions finds.
Scan(type) ==
    Joined([n \in DOMAIN subs |->
        IF MatchesRule(subs[n].pattern, type) THEN subs[n].listeners ELSE <<>>])

Remember(event) ==
    history' = IF Len(history) < MaxHistory THEN Append(history, event) ELSE Append(Tail(history), event)

\* Tasks that are done are dropped, new ones added.
Track(new) == pending' = (pending \cap Alive) \cup ToSet(new)

\* One task per listener; queue is what is ready to run.
Emit(type, queue) ==
    LET n == Len(log) + 1
        targets == MatchIndex(index, type)
        new == [k \in DOMAIN targets |-> Task(n, type, targets[k], "publish", k)]
    IN /\ Remember([id |-> n, type |-> type])
       /\ Track(new)
       /\ ready' = queue \o new
       /\ log' = Append(log, type)
       /\ due' = [c \in Callbacks |->
                     due[c] \o [k \in DOMAIN Kept(Scan(type), {c}) |-> n]]

Publish(type) ==
    /\ Cardinality({n \in DOMAIN log : log[n] # FailureType}) < MaxEvents
    /\ Emit(type, ready)
    /\ UNCHANGED <<subVars, waitVars, waiting, failures, begun>>

-----------------------------------------------------------------------------
(* subscribe, unsubscribe, subscribe_with_replay                           *)

Places(p) == {n \in DOMAIN subs : subs[n].pattern = p}

AddSub(p, c) ==
    IF Places(p) = {} THEN Append(subs, [pattern |-> p, listeners |-> <<c>>])
    ELSE [n \in DOMAIN subs |->
            IF n \in Places(p) THEN [subs[n] EXCEPT !.listeners = Append(@, c)] ELSE subs[n]]

DropSub(p, c) ==
    LET n == CHOOSE k \in Places(p) : TRUE
        rest == RemoveFirst(subs[n].listeners, c)
    IN IF rest = <<>> THEN RemoveAt(subs, n) ELSE [subs EXCEPT ![n].listeners = rest]

Change == changes < MaxChanges /\ changes' = changes + 1

Subscribe(p, c) ==
    /\ Change
    /\ subs' = AddSub(p, c)
    /\ index' = AddListener(index, p, c)
    /\ UNCHANGED <<waitVars, pubVars, ready, waiting, failures, due, begun>>

\* Without a subscription of that pattern it returns at once.
Unsubscribe(p, c) ==
    /\ Change
    /\ Places(p) # {}
    /\ subs' = DropSub(p, c)
    /\ index' = RemoveListener(index, p, c)
    /\ UNCHANGED <<waitVars, pubVars, ready, waiting, failures, due, begun>>

\* Mutant: the new subscription replays from the oldest event that is kept.
GetHistoryOldest(limit) == IF limit >= Len(history) THEN history ELSE SubSeq(history, 1, limit)

GetHistory(limit) == IF limit >= Len(history) THEN history
                     ELSE SubSeq(history, Len(history) - limit + 1, Len(history))

\* The tasks are created first, then the callback is subscribed, without an await between.
SubscribeWithReplay(p, c, limit) ==
    LET matching == Kept(GetHistory(limit), {e \in ToSet(history) : Matches(p, e.type)})
        reach == IF limit < MaxHistory THEN limit ELSE MaxHistory
        recent == Kept([n \in DOMAIN log |-> n],
                       {n \in DOMAIN log : n + reach > Len(log) /\ MatchesRule(p, log[n])})
    IN /\ Change
       /\ subs' = AddSub(p, c)
       /\ index' = AddListener(index, p, c)
       /\ ready' = ready \o [k \in DOMAIN matching |-> Task(matching[k].id, matching[k].type, c, "replay", changes)]
       /\ due' = [due EXCEPT ![c] = @ \o recent]
       /\ UNCHANGED <<waitVars, pubVars, waiting, failures, begun>>

-----------------------------------------------------------------------------
(* _safe_call                                                              *)

\* Mutant: failures of the failure event's own subscribers are announced too.
AnnouncedAlways(t) == MatchIndex(index, FailureType) # <<>>

\* _on_dispatch_failure: whether the failure is published.
Announced(t) == t.type # FailureType /\ MatchIndex(index, FailureType) # <<>>

\* The callback of t, no longer in queue, raised.
Fail(t, queue) ==
    /\ failures < MaxFailures /\ failures' = failures + 1
    /\ wait' = IF Strict /\ wait = "gathering" /\ t \in gathered THEN "raised" ELSE wait
    /\ IF Announced(t) THEN Emit(FailureType, queue)
       ELSE ready' = queue /\ UNCHANGED <<pubVars, due>>

Return(queue) == ready' = queue /\ UNCHANGED <<pubVars, due, failures, wait>>

Begin ==
    /\ ready # <<>>
    /\ LET t == Head(ready) IN
        /\ begun' = [begun EXCEPT ![t.cb] = Append(@, t.event)]
        /\ \/ Return(Tail(ready)) /\ UNCHANGED waiting
           \/ Return(Tail(ready)) /\ waiting' = waiting \cup {t}
           \/ Fail(t, Tail(ready)) /\ UNCHANGED waiting
    /\ UNCHANGED <<subVars, gathered>>

End(t) ==
    /\ waiting' = waiting \ {t}
    /\ Return(ready) \/ Fail(t, ready)
    /\ UNCHANGED <<subVars, gathered, begun>>

-----------------------------------------------------------------------------
(* wait_for_handlers                                                       *)

WaitBegin ==
    /\ wait = "no" /\ pending \cap Alive # {}
    /\ gathered' = pending \cap Alive
    /\ wait' = "gathering"
    /\ UNCHANGED <<subVars, pubVars, ready, waiting, failures, due, begun>>

\* Mutant: an exception of a gathered task is not passed on.
WaitEndAllDone ==
    /\ wait = "gathering" /\ gathered \cap Alive = {}
    /\ wait' = "over" /\ gathered' = {}
    /\ UNCHANGED <<subVars, pubVars, ready, waiting, failures, due, begun>>

\* gather: all are done, or one raised, which leaves the others running.
WaitEnd ==
    /\ wait = "raised" \/ (wait = "gathering" /\ gathered \cap Alive = {})
    /\ wait' = "over" /\ gathered' = {}
    /\ UNCHANGED <<subVars, pubVars, ready, waiting, failures, due, begun>>

\* asyncio.wait_for cancels gather, and gather its tasks.
WaitTimeout ==
    /\ wait = "gathering" /\ gathered \cap Alive # {}
    /\ ready' = Kept(ready, ToSet(ready) \ gathered)
    /\ waiting' = waiting \ gathered
    /\ wait' = "cancelled" /\ gathered' = {}
    /\ UNCHANGED <<subVars, pubVars, failures, due, begun>>

-----------------------------------------------------------------------------
Run == Begin \/ (\E t \in waiting : End(t)) \/ WaitEnd

Next ==
    \/ \E type \in Types \ {FailureType} : Publish(type)
    \/ \E p \in Patterns, c \in Callbacks :
          \/ Subscribe(p, c) \/ Unsubscribe(p, c)
          \/ \E limit \in 1..MaxHistory : SubscribeWithReplay(p, c, limit)
    \/ Run \/ WaitBegin \/ WaitTimeout

Spec == Init /\ [][Next]_vars

\* The event loop runs what is ready, and every callback comes to an end.
FairSpec == Spec /\ WF_vars(Begin) /\ WF_vars(\E t \in waiting : End(t)) /\ WF_vars(WaitEnd)

-----------------------------------------------------------------------------
Tasks == [event : Nat, type : Types, cb : Callbacks, by : {"publish", "replay"}, nr : Nat]

TypeOK ==
    /\ \A n \in DOMAIN subs : subs[n].pattern \in Patterns /\ subs[n].listeners \in Seq(Callbacks) \ {<<>>}
    /\ DOMAIN index.listeners = DOMAIN index.order
    /\ history \in Seq([id : DOMAIN log, type : Types]) /\ Len(history) <= MaxHistory
    /\ pending \subseteq Tasks /\ gathered \subseteq Tasks /\ Alive \subseteq Tasks
    /\ log \in Seq(Types)
    /\ failures \in 0..MaxFailures
    /\ wait \in {"no", "gathering", "raised", "over", "cancelled"}

(* Every callback is called once for each event that it subscribed to, or  *)
(* that its replay reaches, in the order in which the events were          *)
(* published: replay and later events neither overlap nor leave a gap, and *)
(* a failing or slow subscriber takes nothing from the others.             *)
InOrderOnce ==
    wait # "cancelled" => \A c \in Callbacks :
        LET queued == Kept(ready, {t \in ToSet(ready) : t.cb = c})
        IN begun[c] \o [k \in DOMAIN queued |-> queued[k].event] = due[c]

\* The failure events so far, and the calls of callbacks with other events.
FailureEvents == {n \in DOMAIN log : log[n] = FailureType}
OrdinaryCalls ==
    UNION {{c} \X {k \in DOMAIN begun[c] : log[begun[c][k]] # FailureType} : c \in Callbacks}

(* _on_dispatch_failure: failing subscribers of the failure event do not   *)
(* make the bus publish more failure events than ordinary calls failed.    *)
FailuresBounded == Cardinality(FailureEvents) <= Cardinality(OrdinaryCalls)

(* Every dispatch of a published event that has not ended is in _pending,  *)
(* so that wait_for_handlers waits for it.  (Those of a replay are not.)   *)
DispatchesTracked == \A t \in Alive : t.by = "publish" => t \in pending

(* If all callbacks end, the bus comes to rest, and so does a call of      *)
(* wait_for_handlers: failures are not dispatched for ever.                *)
ComesToRest == <>[](ready = <<>> /\ waiting = {} /\ gathered = {})

-----------------------------------------------------------------------------
(* subscribe_with_replay: the documentation promises the last replay_count *)
(* matching events; the code takes the last replay_count events and keeps  *)
(* those that match.                                                       *)
ReplaysMatching ==
    [][\A p \in Patterns, c \in Callbacks, limit \in 1..MaxHistory :
        SubscribeWithReplay(p, c, limit) =>
            LET all == Kept(history, {e \in ToSet(history) : Matches(p, e.type)})
            IN Len(ready') - Len(ready) = (IF limit < Len(all) THEN limit ELSE Len(all))]_vars
=============================================================================
