---------------------------- MODULE AgentDriver ----------------------------
(***************************************************************************)
(* The agents of one workflow: WorkflowEventDriver, which starts, tracks   *)
(* and cancels an agent per node and queues the nodes that wait for a      *)
(* person, and AgentManager, which owns the processes.                     *)
(*                                                                         *)
(* Both run on one event loop.  A handler is cut into steps at its awaits: *)
(* the manager's lock, the startup grace of a new process, the engine's    *)
(* socket.  EventBus.publish never suspends, so what it is between stays   *)
(* one step.  The manager holds its lock over a whole stop, health check   *)
(* or cleanup: each is a step; a spawn holds it over the startup grace.    *)
(*                                                                         *)
(* The agent of a node is always called <wf>__<node>: a table of the       *)
(* driver is the set of its nodes.                                         *)
(***************************************************************************)
EXTENDS Naturals, FiniteSets

CONSTANTS
    Nodes,      \* the nodes of the workflow that run an agent
    Tasks,      \* commands the driver can be executing at one time
    Tables,     \* dict objects that can be _agents[wf], one after the other
    Confirms,   \* confirmation requests
    MaxAgents,  \* _max_agents
    None

ASSUME DriverAssumption ==
    /\ MaxAgents \in Nat \ {0}
    /\ None \notin Nodes \cup Tables \cup Tasks

VARIABLES
    rec,        \* AgentManager._agents: the status of each node's agent
    alive,      \* how many processes started for each node run (2: or more)
    lock,       \* the command that holds the manager's lock
    tables,     \* tables[g]: the nodes in table g
    current,    \* WorkflowEventDriver._agents[wf]: a table, or no entry
    subs,       \* SubManager: the nodes with subscriptions
    task,       \* the commands in execution
    confirm,    \* unused, pending (in ConfirmMgr._pending) or gone from there
    bus,        \* events published whose handler has not begun
    telling,    \* nodes whose completion is being told to the engine
    stopped,    \* has stop() been called?
    answered    \* history: confirmations for which a go or a cancel was published

managerVars == <<rec, alive, lock>>
driverVars  == <<tables, current, subs, stopped>>
confirmVars == <<confirm, answered>>
vars == <<managerVars, driverVars, task, confirmVars, bus, telling>>

Doing(op, pc, n, g, todo) == [op |-> op, pc |-> pc, node |-> n, table |-> g, todo |-> todo]

Idle == Doing("none", "idle", None, None, {})

Init ==
    /\ rec = [n \in Nodes |-> "none"] /\ alive = [n \in Nodes |-> 0] /\ lock = None
    /\ tables = [g \in Tables |-> {}] /\ current = None /\ subs = {} /\ stopped = FALSE
    /\ task = [t \in Tasks |-> Idle]
    /\ confirm = [c \in Confirms |-> "unused"] /\ answered = {}
    /\ bus = {} /\ telling = {}

Return(t) == task' = [task EXCEPT ![t] = Idle]
At(t, op, pc) == task[t].op = op /\ task[t].pc = pc
Moves(t, pc) == task' = [task EXCEPT ![t].pc = pc]

-----------------------------------------------------------------------------
(* AgentManager                                                            *)

Records == {n \in Nodes : rec[n] # "none"}

Fewer(n) == IF alive[n] > 0 THEN alive[n] - 1 ELSE 0

\* Mutant: a process that does not stop in time is not killed.
StopNoKill(n) ==
    /\ lock = None
    /\ rec' = IF n \in Records THEN [rec EXCEPT ![n] = "stopped"] ELSE rec
    /\ alive' \in {alive, [alive EXCEPT ![n] = Fewer(n)]}
    /\ UNCHANGED lock

\* stop: terminate, wait, kill.  An agent that is not known is left alone.
Stop(n) ==
    /\ lock = None
    /\ rec' = IF n \in Records THEN [rec EXCEPT ![n] = "stopped"] ELSE rec
    /\ alive' = IF rec[n] = "running" THEN [alive EXCEPT ![n] = Fewer(n)] ELSE alive
    /\ UNCHANGED lock

Dead == {n \in Nodes : rec[n] = "running" /\ alive[n] = 0}

\* _check_all_agents
CheckAgents ==
    /\ lock = None /\ Dead # {}
    /\ rec' = [n \in Nodes |-> IF n \in Dead THEN "failed" ELSE rec[n]]
    /\ UNCHANGED <<alive, lock, driverVars, task, confirmVars, bus, telling>>

\* cleanup, of a record that has ended and is old enough: nothing in the daemon calls it.
Cleanup(n) ==
    /\ lock = None /\ rec[n] \in {"failed", "stopped"}
    /\ rec' = [rec EXCEPT ![n] = "none"]
    /\ UNCHANGED <<alive, lock, driverVars, task, confirmVars, bus, telling>>

\* A process ends by itself.
Exit(n) ==
    /\ alive[n] > 0
    /\ alive' = [alive EXCEPT ![n] = Fewer(n)]
    /\ UNCHANGED <<rec, lock, driverVars, task, confirmVars, bus, telling>>

Refused(n) == Cardinality(Records) >= MaxAgents \/ n \in Records

-----------------------------------------------------------------------------
(* start_agent                                                             *)

\* _agents.setdefault(wf, {}): a fresh table, if there is one left, or the current one.
Table(g) ==
    IF current # None THEN g = current
    ELSE tables[g] = {} /\ \A t \in Tasks : task[t].table # g

\* The table is held from here on, whatever becomes of the entry of the workflow.
StartBegin(t, n) ==
    /\ task[t] = Idle
    /\ \E g \in Tables :
         /\ Table(g)
         /\ current' = g
         /\ LET pc == IF n \in tables[g] THEN "stop" ELSE "spawn" IN
              task' = [task EXCEPT ![t] = Doing("start", pc, n, g, {})]
    /\ UNCHANGED <<managerVars, tables, subs, stopped, confirmVars, bus, telling>>

\* The agent that the table names is stopped; its record stays.
StartStop(t) ==
    /\ At(t, "start", "stop")
    /\ Stop(task[t].node)
    /\ Moves(t, "spawn")
    /\ UNCHANGED <<driverVars, confirmVars, bus, telling>>

\* A confirmation of the agent's start, if the node wants one.
Confirmed ==
    \/ UNCHANGED confirm
    \/ \E c \in Confirms : confirm[c] = "unused" /\ confirm' = [confirm EXCEPT ![c] = "pending"]

\* What follows spawn, whatever it answered: the table, the subscriptions, the
\* confirmation.  Nothing follows the engine's notice of it.
Track(t, n) ==
    /\ tables' = [tables EXCEPT ![task[t].table] = @ \cup {n}]
    /\ subs' = subs \cup {n}
    /\ Confirmed
    /\ Return(t)
    /\ UNCHANGED <<current, stopped, answered, bus, telling>>

\* spawn answers at once: over the limit or known already (FAILED), no script installed
\* (INITIALIZED), or the process could not be started (FAILED).
SpawnAnswers(t) ==
    /\ At(t, "start", "spawn") /\ lock = None
    /\ LET n == task[t].node IN
         /\ IF Refused(n) THEN rec' = rec
            ELSE \E st \in {"initialized", "failed"} : rec' = [rec EXCEPT ![n] = st]
         /\ Track(t, n)
    /\ UNCHANGED <<alive, lock>>

\* ... or it runs, and is given some time to show that it stays.
Launch(t) ==
    /\ At(t, "start", "spawn") /\ lock = None /\ ~Refused(task[t].node)
    /\ alive[task[t].node] < 2
    /\ alive' = [alive EXCEPT ![task[t].node] = @ + 1]
    /\ Moves(t, "grace")
    /\ lock' = t
    /\ UNCHANGED <<rec, driverVars, confirmVars, bus, telling>>

Launched(t) ==
    /\ At(t, "start", "grace")
    /\ LET n == task[t].node IN
         /\ rec' = [rec EXCEPT ![n] = IF alive[n] > 0 THEN "running" ELSE "failed"]
         /\ Track(t, n)
    /\ lock' = None
    /\ UNCHANGED alive

\* The input file cannot be written, or the engine, which runs start_agent inside
\* wait_for(handler, timeout_seconds), cancels it at the await it has reached.
StartEnds(t) ==
    /\ task[t].op = "start" /\ task[t].pc # "grace"
    /\ Return(t)
    /\ UNCHANGED <<managerVars, driverVars, confirmVars, bus, telling>>

\* Cancelled in the startup grace: the process runs on and nothing knows of it.  The model
\* forgets it too.
StartOrphans(t) ==
    /\ At(t, "start", "grace")
    /\ alive' = [alive EXCEPT ![task[t].node] = Fewer(task[t].node)]
    /\ lock' = None
    /\ Return(t)
    /\ UNCHANGED <<rec, driverVars, confirmVars, bus, telling>>

-----------------------------------------------------------------------------
(* cancel_agent, cancel_workflow, stop                                     *)

CancelBegin(t, n) ==
    /\ task[t] = Idle
    /\ current # None /\ n \in tables[current]
    /\ task' = [task EXCEPT ![t] = Doing("cancel", "stop", n, current, {})]
    /\ UNCHANGED <<managerVars, driverVars, confirmVars, bus, telling>>

\* The subscriptions and the entry, in the table found at the beginning, go together.
CancelEnd(t) ==
    /\ At(t, "cancel", "stop")
    /\ Stop(task[t].node)
    /\ subs' = subs \ {task[t].node}
    /\ tables' = [tables EXCEPT ![task[t].table] = @ \ {task[t].node}]
    /\ Return(t)
    /\ UNCHANGED <<current, stopped, confirmVars, bus, telling>>

\* cancel_workflow works on a copy of the table; stop() does the same for each workflow,
\* after it has cancelled the timeout check, and then removes the listeners.
CancelAllBegin(t) ==
    /\ task[t] = Idle
    /\ current # None
    /\ \E op \in {"cancelAll", "shutdown"} :
         /\ task' = [task EXCEPT ![t] = Doing(op, "stop", None, None, tables[current])]
         /\ stopped' = (stopped \/ op = "shutdown")
    /\ UNCHANGED <<managerVars, tables, current, subs, confirmVars, bus, telling>>

CancelAllStep(t, n) ==
    /\ task[t].op \in {"cancelAll", "shutdown"} /\ n \in task[t].todo
    /\ Stop(n)
    /\ subs' = subs \ {n}
    /\ task' = [task EXCEPT ![t].todo = @ \ {n}]
    /\ UNCHANGED <<tables, current, stopped, confirmVars, bus, telling>>

\* The entry of the workflow goes, whichever table it is by now.
CancelAllEnd(t) ==
    /\ task[t].op \in {"cancelAll", "shutdown"} /\ task[t].todo = {}
    /\ current' = None
    /\ Return(t)
    /\ UNCHANGED <<managerVars, tables, subs, stopped, confirmVars, bus, telling>>

-----------------------------------------------------------------------------
(* Completions                                                             *)

Completed(n) == [kind |-> "completed", of |-> n]
Accepted(c)  == [kind |-> "accepted", of |-> c]
Rejected(c)  == [kind |-> "rejected", of |-> c]

\* An agent says that it has completed, while it runs.
Completes(n) ==
    /\ rec[n] \in {"initialized", "running"}
    /\ bus' = bus \cup {Completed(n)}
    /\ UNCHANGED <<managerVars, driverVars, task, confirmVars, telling>>

Listening == stopped => \E t \in Tasks : task[t].op = "shutdown"

Deliver(e) ==
    /\ e \in bus /\ Listening
    /\ bus' = bus \ {e}

\* _on_agent_completed: the engine is told first ...
CompletedBegin(n) ==
    /\ Deliver(Completed(n))
    /\ telling' = telling \cup {n}
    /\ UNCHANGED <<managerVars, driverVars, task, confirmVars>>

\* Mutant: the subscriptions were looked at before the engine was told.
CompletedEndStale(n) ==
    /\ n \in telling
    /\ telling' = telling \ {n}
    /\ tables' = IF current = None THEN tables ELSE [tables EXCEPT ![current] = @ \ {n}]
    /\ UNCHANGED <<managerVars, current, subs, stopped, task, confirmVars, bus>>

\* ... then whatever is tracked for the node by now is forgotten.
CompletedEnd(n) ==
    /\ n \in telling
    /\ telling' = telling \ {n}
    /\ subs' = subs \ {n}
    /\ tables' = IF current = None THEN tables ELSE [tables EXCEPT ![current] = @ \ {n}]
    /\ UNCHANGED <<managerVars, current, stopped, task, confirmVars, bus>>

-----------------------------------------------------------------------------
(* Confirmations                                                           *)

\* The front end publishes an answer, to what is pending or was.
Answer(c, e) ==
    /\ confirm[c] # "unused" /\ c \notin answered
    /\ bus' = bus \cup {e}
    /\ UNCHANGED <<managerVars, driverVars, task, confirmVars, telling>>

Discard(c) == confirm' = IF confirm[c] = "pending" THEN [confirm EXCEPT ![c] = "gone"] ELSE confirm

\* ConfirmMgr.resolve: only what is pending is answered.
Resolve(c, e) ==
    /\ confirm[c] = "pending"
    /\ Discard(c)
    /\ bus' = bus \cup {e}
    /\ UNCHANGED <<managerVars, driverVars, task, answered, telling>>

Pending == {c \in Confirms : confirm[c] = "pending"}

\* _timeout_check rejects what has expired of the pending ones, in one step: no await of
\* it suspends.
TimeoutCheck(S) ==
    /\ ~stopped /\ S # {}
    /\ confirm' = [c \in Confirms |-> IF c \in S THEN "gone" ELSE confirm[c]]
    /\ bus' = bus \cup {Rejected(c) : c \in S}
    /\ UNCHANGED <<managerVars, driverVars, task, answered, telling>>

\* _on_confirm_accepted: a go, whether the request was still pending or not.
OnAccepted(c) ==
    /\ Deliver(Accepted(c))
    /\ Discard(c)
    /\ answered' = answered \cup {c}
    /\ UNCHANGED <<managerVars, driverVars, task, telling>>

\* Mutant: an event about a request that is no longer in the queue is dropped.
OnRejectedPending(c) ==
    /\ Deliver(Rejected(c))
    /\ Discard(c)
    /\ answered' = IF confirm[c] = "pending" THEN answered \cup {c} ELSE answered
    /\ UNCHANGED <<managerVars, driverVars, task, telling>>

\* _on_confirm_rejected: a failed node for the engine, then a cancel for the agent.
OnRejected(c) ==
    /\ Deliver(Rejected(c))
    /\ Discard(c)
    /\ answered' = answered \cup {c}
    /\ UNCHANGED <<managerVars, driverVars, task, telling>>

-----------------------------------------------------------------------------
Manage ==
    \/ CheckAgents
    \/ \E n \in Nodes : Cleanup(n) \/ Exit(n)

Command(t) ==
    \/ \E n \in Nodes : StartBegin(t, n) \/ CancelBegin(t, n) \/ CancelAllStep(t, n)
    \/ StartStop(t) \/ SpawnAnswers(t) \/ Launch(t) \/ Launched(t)
    \/ StartEnds(t) \/ StartOrphans(t)
    \/ CancelEnd(t) \/ CancelAllBegin(t) \/ CancelAllEnd(t)

Completion == \E n \in Nodes : Completes(n) \/ CompletedBegin(n) \/ CompletedEnd(n)

Confirmation ==
    \/ \E S \in SUBSET Pending : TimeoutCheck(S)
    \/ \E c \in Confirms :
         \/ OnAccepted(c) \/ OnRejected(c)
         \/ \E e \in {Accepted(c), Rejected(c)} : Answer(c, e) \/ Resolve(c, e)

Next == Manage \/ (\E t \in Tasks : Command(t)) \/ Completion \/ Confirmation

\* Every request expires, the timeout check goes on, and the loop runs what is published.
Fairness ==
    \A c \in Confirms :
        /\ WF_vars(\E S \in SUBSET Pending : c \in S /\ TimeoutCheck(S))
        /\ WF_vars(OnAccepted(c)) /\ WF_vars(OnRejected(c))

Spec == Init /\ [][Next]_vars /\ Fairness

-----------------------------------------------------------------------------
Events == {Completed(n) : n \in Nodes} \cup {Accepted(c) : c \in Confirms} \cup {Rejected(c) : c \in Confirms}

(* Types, and a lock that is held by the command in its startup grace.     *)
TypeOK ==
    /\ rec \in [Nodes -> {"none", "initialized", "running", "failed", "stopped"}]
    /\ alive \in [Nodes -> 0..2]
    /\ tables \in [Tables -> SUBSET Nodes] /\ current \in Tables \cup {None} /\ subs \subseteq Nodes
    /\ task \in [Tasks -> [op : {"none", "start", "cancel", "cancelAll", "shutdown"},
                           pc : {"idle", "stop", "spawn", "grace"},
                           node : Nodes \cup {None}, table : Tables \cup {None},
                           todo : SUBSET Nodes]]
    /\ confirm \in [Confirms -> {"unused", "pending", "gone"}] /\ answered \subseteq Confirms
    /\ bus \subseteq Events /\ telling \subseteq Nodes /\ stopped \in BOOLEAN
    /\ \A t \in Tasks : lock = t <=> task[t].pc = "grace"

(* A node has one process at most, which runs only as long as the manager  *)
(* has a running record of it, by which it can be listed and stopped,      *)
(* however starts, stops, health checks and cleanups interleave; except    *)
(* for a process whose start was cancelled in its startup grace.           *)
ProcessRecorded ==
    \A n \in Nodes :
        /\ alive[n] <= 1
        /\ alive[n] = 1 => rec[n] = "running" \/ \E t \in Tasks : At(t, "start", "grace") /\ task[t].node = n

(* The subscriptions of a node belong to an entry of a table: none is left *)
(* behind by a completion or a cancellation that overlaps a new start.     *)
SubscriptionsTracked == \A n \in subs : \E g \in Tables : n \in tables[g]

(* Nobody waits for ever: a confirmation gets a go or a cancel, unless the *)
(* driver is stopped.                                                      *)
ConfirmationsEnd == \A c \in Confirms : confirm[c] = "pending" ~> (c \in answered \/ stopped)
=============================================================================
