-------------------------- MODULE WorkflowRuntime --------------------------
(***************************************************************************)
(* workflow_runtime.py: the resident runtime that listens to every event   *)
(* on the bus and starts a run for each step whose trigger matches.        *)
(*                                                                         *)
(* The program is one asyncio loop.  EventBus.publish and the emit_*       *)
(* helpers never suspend: they only queue a task per listener.  A callback *)
(* therefore runs to its end in one step, and so does a run up to its      *)
(* first wait inside WorkflowEngine.run and from there to its return.      *)
(* `ready' is the loop's FIFO of queued tasks: bus callbacks and runs that *)
(* _spawn has created and that have not begun.                             *)
(*                                                                         *)
(* A workflow is its position in the registry; step i of workflow w is the *)
(* key <<w, i>>, and <<w, 0>> stands for run_now (index -1 in the code).   *)
(* Time is kept as the stamps that are younger than the rate window.       *)
(***************************************************************************)
EXTENDS Lists, SequencesExt

CONSTANTS
    Triggers,           \* Triggers[w][i]: the event types step i of w matches
    ExtTypes,           \* event types published by the rest of the system
    EngineOutcomes,     \* statuses WorkflowEngine.run can end with
    MaxRunsPerWindow,   \* max_runs_per_window
    MaxRuns,            \* max_runs: length of the ring of run records
    PersistLimit,       \* runs_max_bytes, counted in records
    MaxRunCount,        \* bound: runs ever started
    MaxInputs,          \* bound: outside events and manual triggers
    MaxQueue            \* bound: length of the loop's queue

ASSUME BoundsAssumption ==
    /\ MaxRunsPerWindow \in Nat \ {0}
    /\ MaxRuns \in Nat \ {0}
    /\ PersistLimit \in Nat \ {0}
    /\ MaxRunCount \in Nat /\ MaxInputs \in Nat /\ MaxQueue \in Nat

ASSUME TriggersAssumption ==
    /\ Triggers \in Seq(Seq(SUBSET (ExtTypes \cup {"triggered", "finished", "skipped", "throttled"})))
    /\ EngineOutcomes \cap {"running", "none"} = {}

VARIABLES
    running,    \* _running, which is also "subscribed to *"
    enabled,    \* registered workflows that take part in event dispatch
    ready,      \* queued tasks of the event loop
    runs,       \* every run ever started: key, cause, status
    runCount,   \* _run_count
    ring,       \* _runs: ids of the runs still in memory
    active,     \* _active_keys
    stamps,     \* _run_times: who started the runs inside the rate window
    disk,       \* workflow-runs.jsonl, as run ids
    archive,    \* workflow-runs.jsonl.1
    inputs,     \* outside events and manual triggers so far
    notices     \* history: callbacks of a throttled event that queued another one (2: or more)

recVars == <<ring, disk, archive>>
vars == <<running, enabled, ready, runs, runCount, ring, active, stamps, disk, archive,
          inputs, notices>>

-----------------------------------------------------------------------------
Workflows == DOMAIN Triggers
NoKey == <<0, 0>>
Keys == UNION {{w} \X (0..Len(Triggers[w])) : w \in Workflows}
RunIds == 1..MaxRunCount
BusTypes == {"triggered", "finished", "skipped", "throttled"}
Outcomes == EngineOutcomes \cup {"cancelled"}
EventTypes == ExtTypes \cup BusTypes \cup {"none"}

\* A queued bus callback: _on_event(event), the event being about one key.
EventTask(type, about) ==
    [kind |-> "event", type |-> type, about |-> about, key |-> NoKey, by |-> "bus"]

\* A queued run of _spawn: its key, who triggered it and by which event.
StartTask(key, by, type, about) ==
    [kind |-> "start", type |-> type, about |-> about, key |-> key, by |-> by]

NoRun == [key |-> NoKey, by |-> "none", type |-> "none", about |-> NoKey,
          spawned |-> FALSE, cancel |-> FALSE, st |-> "none"]

Init ==
    /\ running = FALSE
    /\ enabled \in SUBSET Workflows
    /\ ready = <<>>
    /\ runs = [r \in RunIds |-> NoRun]
    /\ runCount = 0
    /\ ring = <<>>
    /\ active = {}
    /\ stamps = [w \in Workflows |-> <<>>]
    /\ disk = <<>>
    /\ archive = <<>>
    /\ inputs = 0
    /\ notices = 0

-----------------------------------------------------------------------------
(* Registry and life cycle                                                 *)

\* register with enabled true / false, unregister: runs in progress keep their
\* captured definition.
SetEnabled(w) ==
    /\ enabled' = (enabled \ {w}) \cup ({w} \ enabled)
    /\ UNCHANGED <<running, ready, runs, runCount, recVars, active, stamps, inputs, notices>>

\* start: one subscription to "*".
Start ==
    /\ ~ running
    /\ running' = TRUE
    /\ UNCHANGED <<enabled, ready, runs, runCount, recVars, active, stamps, inputs, notices>>

\* Mutant: stop() forgets the runs that are queued and have not begun.
StopRunningOnly ==
    /\ running
    /\ running' = FALSE
    /\ runs' = [r \in RunIds |-> IF runs[r].spawned /\ runs[r].st = "running"
                                   THEN [runs[r] EXCEPT !.cancel = TRUE] ELSE runs[r]]
    /\ UNCHANGED <<enabled, ready, runCount, recVars, active, stamps, inputs, notices>>

\* stop: unsubscribe, then cancel every task of _tasks.  A queued run is cancelled
\* before its first line; a run inside the engine gets CancelledError there.
Stop ==
    /\ running
    /\ running' = FALSE
    /\ ready' = Kept(ready, {t \in ToSet(ready) : t.kind = "event"})
    /\ runs' = [r \in RunIds |-> IF runs[r].spawned /\ runs[r].st = "running"
                                   THEN [runs[r] EXCEPT !.cancel = TRUE] ELSE runs[r]]
    /\ UNCHANGED <<enabled, runCount, recVars, active, stamps, inputs, notices>>

-----------------------------------------------------------------------------
(* Events                                                                  *)

\* EventBus.publish while the runtime is subscribed queues one callback.
Delivered(events) == IF running THEN events ELSE <<>>

\* Some other part of the system publishes an event.
Publish(type) ==
    /\ inputs < MaxInputs
    /\ inputs' = inputs + 1
    /\ ready' = ready \o Delivered(<<EventTask(type, NoKey)>>)
    /\ UNCHANGED <<running, enabled, runs, runCount, recVars, active, stamps, notices>>

\* _rate_limited
RateLimited(w) == Len(stamps[w]) >= MaxRunsPerWindow

\* _matching_steps: type_matches and eval_condition, in the order of the steps.
MatchingSteps(w, type) ==
    Kept([i \in DOMAIN Triggers[w] |-> i], {i \in DOMAIN Triggers[w] : type \in Triggers[w][i]})

\* Mutant: the gate tests another key than the one a run holds.
StepResponseWrongKey(w, i, ev) ==
    IF <<w, 0>> \in active
      THEN EventTask("skipped", <<w, i>>)
      ELSE StartTask(<<w, i>>, "event", ev.type, ev.about)

\* One matching step: skipped while its key is active, otherwise a spawned run.
StepResponse(w, i, ev) ==
    IF <<w, i>> \in active
      THEN EventTask("skipped", <<w, i>>)
      ELSE StartTask(<<w, i>>, "event", ev.type, ev.about)

\* The body of the loop of _on_event for one enabled workflow: the tasks it queues.
Response(w, ev) ==
    IF RateLimited(w)
      THEN <<EventTask("throttled", <<w, 0>>)>>
      ELSE [n \in DOMAIN MatchingSteps(w, ev.type) |->
              StepResponse(w, MatchingSteps(w, ev.type)[n], ev)]

Responses(ev) ==
    Joined([w \in Workflows |-> IF w \in enabled THEN Response(w, ev) ELSE <<>>])

Limited == {w \in enabled : RateLimited(w)}

\* Mutant: a callback that was queued before stop() dispatches after it.
OnEventAlways ==
    /\ ready # <<>> /\ Head(ready).kind = "event"
    /\ Len(ready) <= MaxQueue
    /\ ready' = Tail(ready) \o Responses(Head(ready))
    /\ UNCHANGED <<running, enabled, runs, runCount, recVars, active, stamps, inputs, notices>>

\* _on_event
OnEvent ==
    /\ ready # <<>> /\ Head(ready).kind = "event"
    /\ Len(ready) <= MaxQueue
    /\ ready' = Tail(ready) \o (IF running THEN Responses(Head(ready)) ELSE <<>>)
    /\ notices' = IF running /\ Head(ready).type = "throttled" /\ Limited # {} /\ notices < 2
                    THEN notices + 1 ELSE notices
    /\ UNCHANGED <<running, enabled, runs, runCount, recVars, active, stamps, inputs>>

-----------------------------------------------------------------------------
(* Runs                                                                    *)

\* deque(maxlen=MaxRuns).append
RingAppend(s, r) == IF Len(s) < MaxRuns THEN Append(s, r) ELSE Append(Tail(s), r)

\* _run_definition up to its wait for the engine: record, counters, stamp, key and
\* the workflow.triggered event, in one step.  rest is the queue behind this task.
Begin(key, by, type, about, spawned, rest) ==
    /\ runCount < MaxRunCount
    /\ runCount' = runCount + 1
    /\ runs' = [runs EXCEPT ![runCount + 1] =
                  [key |-> key, by |-> by, type |-> type, about |-> about,
                   spawned |-> spawned, cancel |-> FALSE, st |-> "running"]]
    /\ ring' = RingAppend(ring, runCount + 1)
    /\ stamps' = [stamps EXCEPT ![key[1]] = Append(@, by)]
    /\ active' = active \cup {key}
    /\ ready' = rest \o Delivered(<<EventTask("triggered", key)>>)

\* A spawned run begins.
RunSpawned ==
    /\ ready # <<>> /\ Head(ready).kind = "start"
    /\ LET t == Head(ready) IN Begin(t.key, t.by, t.type, t.about, TRUE, Tail(ready))
    /\ UNCHANGED <<running, enabled, disk, archive, inputs, notices>>

\* trigger(wait=True) and run_now: the caller's own task runs it.
ManualRun(w, i) ==
    /\ inputs < MaxInputs
    /\ inputs' = inputs + 1
    /\ Begin(<<w, i>>, "manual", "none", NoKey, FALSE, ready)
    /\ UNCHANGED <<running, enabled, disk, archive, notices>>

\* trigger(wait=False)
ManualSpawn(w, i) ==
    /\ inputs < MaxInputs
    /\ inputs' = inputs + 1
    /\ ready' = Append(ready, StartTask(<<w, i>>, "manual", "none", NoKey))
    /\ UNCHANGED <<running, enabled, runs, runCount, recVars, active, stamps, notices>>

\* _persist_run: rotate a full file into .1, then append.
Persist(r) ==
    IF Len(disk) >= PersistLimit
      THEN archive' = disk /\ disk' = <<r>>
      ELSE disk' = Append(disk, r) /\ UNCHANGED archive

\* Mutant: the key is not discarded when the run was cancelled.
FinishLeaksCancelled(r, st) ==
    /\ runs[r].st = "running"
    /\ st = "cancelled" => runs[r].cancel
    /\ runs' = [runs EXCEPT ![r].st = st]
    /\ Persist(r)
    /\ ready' = ready \o Delivered(<<EventTask("finished", runs[r].key)>>)
    /\ active' = IF st = "cancelled" THEN active ELSE active \ {runs[r].key}
    /\ UNCHANGED <<running, enabled, runCount, ring, stamps, inputs, notices>>

\* Mutant: a cancelled run is not persisted by its own handler but by its caller.
FinishPersistsTwice(r, st) ==
    /\ runs[r].st = "running"
    /\ st = "cancelled" => runs[r].cancel
    /\ runs' = [runs EXCEPT ![r].st = st]
    /\ IF st = "cancelled" THEN disk' = disk \o <<r, r>> /\ UNCHANGED archive ELSE Persist(r)
    /\ ready' = ready \o Delivered(<<EventTask("finished", runs[r].key)>>)
    /\ active' = active \ {runs[r].key}
    /\ UNCHANGED <<running, enabled, runCount, ring, stamps, inputs, notices>>

\* The engine returns, raises or is cancelled, and _run_definition runs to its end:
\* persist, workflow.finished, discard the key.  The event is only queued here.
Finish(r, st) ==
    /\ runs[r].st = "running"
    /\ st = "cancelled" => runs[r].cancel
    /\ runs' = [runs EXCEPT ![r].st = st]
    /\ Persist(r)
    /\ ready' = ready \o Delivered(<<EventTask("finished", runs[r].key)>>)
    /\ active' = active \ {runs[r].key}
    /\ UNCHANGED <<running, enabled, runCount, ring, stamps, inputs, notices>>

\* The oldest stamp of w leaves the rate window.
Age(w) ==
    /\ stamps[w] # <<>>
    /\ stamps' = [stamps EXCEPT ![w] = Tail(@)]
    /\ UNCHANGED <<running, enabled, ready, runs, runCount, recVars, active, inputs, notices>>

Next ==
    \/ Start \/ Stop
    \/ \E w \in Workflows : SetEnabled(w) \/ Age(w)
    \/ \E type \in ExtTypes : Publish(type)
    \/ OnEvent \/ RunSpawned
    \/ \E w \in Workflows : \E i \in 0..Len(Triggers[w]) : ManualRun(w, i)
    \/ \E w \in Workflows : \E i \in 1..Len(Triggers[w]) : ManualSpawn(w, i)
    \/ \E r \in RunIds, st \in Outcomes : Finish(r, st)

Spec == Init /\ [][Next]_vars

(* The loop takes the next ready task, and the engine's runs end: every    *)
(* node has a timeout and a cancelled one is thrown CancelledError.        *)
Fairness ==
    /\ WF_vars(OnEvent) /\ WF_vars(RunSpawned)
    /\ \A r \in RunIds : WF_vars(\E st \in Outcomes \ {"cancelled"} : Finish(r, st))

FairSpec == Spec /\ Fairness

-----------------------------------------------------------------------------
Task == [kind : {"event", "start"}, type : EventTypes, about : Keys \cup {NoKey},
         key : Keys \cup {NoKey}, by : {"event", "manual", "bus"}]

Run == [key : Keys \cup {NoKey}, by : {"event", "manual", "none"}, type : EventTypes,
        about : Keys \cup {NoKey}, spawned : BOOLEAN, cancel : BOOLEAN,
        st : Outcomes \cup {"running", "none"}]

TypeOK ==
    /\ running \in BOOLEAN
    /\ enabled \subseteq Workflows
    /\ ready \in Seq(Task)
    /\ runs \in [RunIds -> Run]
    /\ runCount \in 0..MaxRunCount
    /\ ring \in Seq(RunIds) /\ Len(ring) <= MaxRuns
    /\ active \subseteq Keys
    /\ stamps \in [Workflows -> Seq({"event", "manual"})]
    /\ disk \in Seq(RunIds)
    /\ archive \in Seq(RunIds)
    /\ inputs \in 0..MaxInputs
    /\ notices \in 0..2

InProgress == {r \in RunIds : runs[r].st = "running"}

(* A key in _active_keys always belongs to a run in progress: whatever the *)
(* overlap of runs and the way they end, no finished or cancelled run      *)
(* leaves its step marked as running, which would skip it for ever.        *)
NoLeakedKey == \A k \in active : \E r \in InProgress : runs[r].key = k

(* After stop() no event starts anything: neither a callback the bus had   *)
(* queued before the unsubscription nor a run that was spawned and had not *)
(* begun (the `if not self._running` return and the cancelled tasks).      *)
QuietWhenStopped ==
    [][~ running =>
         \A r \in RunIds : runs[r].st = "none" /\ runs'[r].st = "running" =>
                             runs'[r].by = "manual"]_vars

(* What _persist_run leaves on disk: only runs that have ended, each once, *)
(* the rotated file before the current one.                                *)
PersistedOnce ==
    /\ \A r \in ToSet(archive \o disk) : runs[r].st \in Outcomes
    /\ IsInjective(archive \o disk)
    /\ \A r \in RunIds : runs[r].st \in Outcomes /\ archive = <<>> => r \in ToSet(disk)

(* Every active key is released: a step is never skipped for ever.         *)
KeyReleased == \A k \in Keys : (k \in active) ~> (k \notin active)

-----------------------------------------------------------------------------
(* The module docstring: a workflow step that is already running and is    *)
(* triggered again is skipped, so no two event runs of one step overlap.   *)
OneRunPerStep ==
    \A q, r \in InProgress :
        runs[q].by = "event" /\ runs[r].by = "event" /\ runs[q].key = runs[r].key => q = r

(* WORKFLOW-EXECUTION-PLAN.md: workflow.finished is sent while the run     *)
(* still counts as running, so a step cannot be triggered by its own end.  *)
NoSelfTrigger ==
    \A r \in RunIds : ~ (runs[r].type = "finished" /\ runs[r].about = runs[r].key)

(* The comment on MAX_RUNS_PER_WINDOW: within the window a workflow runs   *)
(* automatically at most that many times.                                  *)
RateBound ==
    \A w \in Workflows :
        Len(SelectSeq(stamps[w], LAMBDA by : by = "event")) <= MaxRunsPerWindow

(* The rate limiter is there against event storms: its own notice must not *)
(* be answered by another notice.                                          *)
NoticesDontFeedThemselves == notices = 0

(* get_run(): a run in progress can be looked up.                          *)
InProgressFindable == \A r \in InProgress : r \in ToSet(ring)
=============================================================================
