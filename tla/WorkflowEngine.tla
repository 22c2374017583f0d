--------------------------- MODULE WorkflowEngine ---------------------------
(***************************************************************************)
(* workflow_engine.py: one call of WorkflowEngine.run on a DAG of nodes.   *)
(*                                                                         *)
(* The engine is a coroutine.  It suspends only inside a node's handler,   *)
(* in the sleep after a failed node with retries, and while it gathers a   *)
(* parallel group; everything between two suspensions is one step here.    *)
(* Cancellation reaches it in two ways: the caller sets cancel_event, or   *)
(* cancels the asyncio task that runs it (WorkflowRuntime.stop).           *)
(*                                                                         *)
(* Nodes are numbered in the order of the definition, which is taken to be *)
(* the order of their ids too.                                             *)
(***************************************************************************)
EXTENDS Lists, SequencesExt

CONSTANTS
    Definitions,    \* the workflow definitions that are run
    MaxNodes        \* bound: nodes of a definition

ASSUME DefinitionsAssumption ==
    /\ MaxNodes \in Nat \ {0}
    /\ \A d \in Definitions :
        /\ d.nodes \in 1..MaxNodes
        /\ d.edges \subseteq {e \in (1..d.nodes) \X (1..d.nodes) : e[1] < e[2]}
        /\ d.cond \in [d.edges -> {"always", "on_complete", "on_fail", "expression"}]
        /\ d.parallel \subseteq 1..d.nodes    \* mode = PARALLEL
        /\ d.retries \subseteq 1..d.nodes     \* retry_count > 0
        /\ d.manual \subseteq 1..d.nodes      \* config.auto_run = False
        /\ d.byEvent \in BOOLEAN              \* context triggered_by = "event"

VARIABLES
    wf,         \* the definition being run
    status,     \* NodeRuntime.status
    queue,      \* ready_queue
    completed,  \* completed_nodes
    members,    \* the nodes of the current turn of the loop, in queue order
    pending,    \* members whose task has not begun (parallel group only)
    sleeping,   \* members in the sleep after a failure or a timeout
    phase,      \* "loop", "exec", "done" or "raised"
    result,     \* WorkflowResult.status
    cancel,     \* cancel_event
    taskCancel, \* the task has been cancelled
    execs,      \* history: handler calls of each node
    failed      \* history: nodes with a call that failed or timed out

engineVars == <<wf, status, queue, completed, members, pending, sleeping, phase, result,
          cancel, taskCancel, execs, failed>>

-----------------------------------------------------------------------------
Nodes == 1..wf.nodes
Preds(n) == {m \in Nodes : <<m, n>> \in wf.edges}
Ok == {"completed", "skipped"}
Failing == {"failed", "timeout", "cancelled", "blocked"}
NodeStatus == {"created", "queued", "dispatching", "running"} \cup Ok \cup Failing

\* _is_node_ready
Ready(n) == \A p \in Preds(n) : status[p] \in Ok

\* run and the first lines of _execute_dag: the roots are queued in topological order.
EngineInit ==
    /\ wf \in Definitions
    /\ queue = Kept([n \in Nodes |-> n], {n \in Nodes : Preds(n) = {}})
    /\ status = [n \in Nodes |-> IF Preds(n) = {} THEN "queued" ELSE "created"]
    /\ completed = {} /\ members = <<>> /\ pending = <<>> /\ sleeping = {}
    /\ phase = "loop" /\ result = "running"
    /\ cancel \in BOOLEAN /\ taskCancel = FALSE
    /\ execs = [n \in Nodes |-> 0] /\ failed = {}

-----------------------------------------------------------------------------
(* One node                                                                *)

\* _evaluate_condition: edge p -> n, yes being the sources whose expression is true.
EdgeHolds(p, n, yes) ==
    CASE wf.cond[<<p, n>>] = "always" -> TRUE
      [] wf.cond[<<p, n>>] = "on_complete" -> status[p] = "completed"
      [] wf.cond[<<p, n>>] = "on_fail" -> status[p] \in {"failed", "timeout"}
      [] wf.cond[<<p, n>>] = "expression" -> p \in yes

\* _execute_single_node up to the call of the handler: the statuses it may set.  The
\* first edge that does not hold decides; edges are listed in any order.
EntryStatus(n) ==
    IF cancel THEN {"cancelled"}
    ELSE IF wf.byEvent /\ n \in wf.manual THEN {"skipped"}
    ELSE UNION {LET no == {p \in Preds(n) : ~ EdgeHolds(p, n, yes)}
                IN IF no = {} THEN {"running"}
                   ELSE {IF status[p] \in {"cancelled", "blocked"} THEN "blocked" ELSE "skipped" : p \in no}
                : yes \in SUBSET Preds(n)}

\* Node n enters _execute_single_node; s is the status this leaves it with.
Enter(n, s, st) ==
    /\ s \in EntryStatus(n)
    /\ status' = [st EXCEPT ![n] = s]
    /\ execs' = IF s = "running" THEN [execs EXCEPT ![n] = @ + 1] ELSE execs

\* Mutant: a failed call is repeated after retry_delay without counting the attempts.
EndNodeRetriesForever(n, s) ==
    /\ phase = "exec" /\ Contains(members, n) /\ status[n] = "running"
    /\ IF s = "completed" THEN status' = [status EXCEPT ![n] = s] /\ sleeping' = sleeping
         ELSE status' = status /\ sleeping' = sleeping \cup {n}
    /\ failed' = IF s = "completed" THEN failed ELSE failed \cup {n}
    /\ UNCHANGED <<wf, queue, completed, members, pending, phase, result, cancel, taskCancel, execs>>

\* The handler of n returns, raises or exceeds timeout_seconds.  With retries left the
\* node sleeps for retry_delay and is over.
EndNode(n, s) ==
    /\ phase = "exec" /\ Contains(members, n) /\ status[n] = "running"
    /\ status' = [status EXCEPT ![n] = s]
    /\ failed' = IF s = "completed" THEN failed ELSE failed \cup {n}
    /\ sleeping' = IF s # "completed" /\ n \in wf.retries THEN sleeping \cup {n} ELSE sleeping
    /\ UNCHANGED <<wf, queue, completed, members, pending, phase, result, cancel, taskCancel, execs>>

Wake(n) ==
    /\ n \in sleeping
    /\ sleeping' = sleeping \ {n}
    /\ UNCHANGED <<wf, status, queue, completed, members, pending, phase, result, cancel,
                   taskCancel, execs, failed>>

-----------------------------------------------------------------------------
(* The loop of _execute_dag                                                *)

\* _add_ready_successors with queue q and statuses st: every node outside completed and
\* the queue whose predecessors are done, in the order of the definition.
Fresh(q, st, done) ==
    Kept([n \in Nodes |-> n],
         {n \in Nodes : n \notin done /\ ~ Contains(q, n) /\ \A p \in Preds(n) : st[p] \in Ok})

Enqueue(q, st, done) ==
    /\ queue' = q \o Fresh(q, st, done)
    /\ status' = [n \in Nodes |-> IF st[n] = "created" /\ Contains(Fresh(q, st, done), n)
                                    THEN "queued" ELSE st[n]]

\* The parallel nodes at the head of the queue, and what is behind them.
Heads == SelectInSeq(queue, LAMBDA n : n \notin wf.parallel)
Prefix == IF Heads = 0 THEN queue ELSE SubSeq(queue, 1, Heads - 1)
Behind == SubSeq(queue, Len(Prefix) + 1, Len(queue))
Group == Kept(Prefix, {n \in Nodes : Ready(n)})

InLoop == phase = "loop" /\ queue # <<>> /\ ~ cancel

\* A parallel group: one task per ready node; nodes that are not ready are dropped.
TakeParallel ==
    /\ InLoop /\ Group # <<>>
    /\ queue' = Behind
    /\ pending' = Group
    /\ members' = Group
    /\ status' = [n \in Nodes |-> IF n \in ToSet(Group) THEN "dispatching" ELSE status[n]]
    /\ phase' = "exec"
    /\ UNCHANGED <<wf, completed, sleeping, result, cancel, taskCancel, execs, failed>>

\* The tasks of a group begin in the order in which they were created.
BeginMember(s) ==
    /\ phase = "exec" /\ pending # <<>>
    /\ Enter(Head(pending), s, status)
    /\ pending' = Tail(pending)
    /\ UNCHANGED <<wf, queue, completed, members, sleeping, phase, result, cancel, taskCancel,
                   failed>>

\* A sequential node whose predecessors are done is entered at once.
TakeSequential(s) ==
    /\ InLoop /\ Group = <<>> /\ Behind # <<>> /\ Ready(Head(Behind))
    /\ queue' = Tail(Behind)
    /\ members' = <<Head(Behind)>>
    /\ Enter(Head(Behind), s, status)
    /\ phase' = "exec"
    /\ UNCHANGED <<wf, completed, pending, sleeping, result, cancel, taskCancel, failed>>

\* A sequential node whose predecessors are not done (any more) is blocked.
BlockSequential ==
    /\ InLoop /\ Group = <<>> /\ Behind # <<>> /\ ~ Ready(Head(Behind))
    /\ completed' = completed \cup {Head(Behind)}
    /\ Enqueue(Tail(Behind), [status EXCEPT ![Head(Behind)] = "blocked"], completed')
    /\ UNCHANGED <<wf, members, pending, sleeping, phase, result, cancel, taskCancel, execs, failed>>

\* Only parallel nodes, none of them ready: ready_queue.pop(0) raises IndexError.
PopEmpty ==
    /\ InLoop /\ Group = <<>> /\ Behind = <<>>
    /\ queue' = <<>>
    /\ phase' = "raised"
    /\ UNCHANGED <<wf, status, completed, members, pending, sleeping, result, cancel, taskCancel,
                   execs, failed>>

Quiet == pending = <<>> /\ sleeping = {} /\ \A n \in ToSet(members) : status[n] # "running"

\* Mutant: a node that is over is not recorded in completed.
MembersForgotten ==
    /\ phase = "exec" /\ Quiet
    /\ Enqueue(queue, status, completed)
    /\ phase' = "loop"
    /\ UNCHANGED <<wf, completed, members, pending, sleeping, result, cancel, taskCancel, execs, failed>>

\* Mutant: nothing is queued behind a node that did not complete.
MembersStopAtSkip ==
    /\ phase = "exec" /\ Quiet
    /\ completed' = completed \cup ToSet(members)
    /\ IF \E n \in ToSet(members) : status[n] = "skipped" THEN UNCHANGED <<queue, status>> ELSE Enqueue(queue, status, completed')
    /\ phase' = "loop"
    /\ UNCHANGED <<wf, members, pending, sleeping, result, cancel, taskCancel, execs, failed>>

\* All members are over.  They are added to completed one by one, each followed by
\* _add_ready_successors, so the first call still sees the others outside completed.
MembersDone ==
    /\ phase = "exec" /\ Quiet
    /\ completed' = completed \cup ToSet(members)
    /\ Enqueue(queue, status, completed \cup {Head(members)})
    /\ phase' = "loop"
    /\ UNCHANGED <<wf, members, pending, sleeping, result, cancel, taskCancel, execs, failed>>

\* Mutant: a timeout is left out of the failing statuses.
VerdictIgnoresTimeout ==
    IF cancel THEN "cancelled"
    ELSE IF \E n \in Nodes : status[n] = "blocked" THEN "blocked"
    ELSE IF \E n \in Nodes : status[n] \in Failing \ {"timeout"} THEN "failed"
    ELSE IF \A n \in Nodes : status[n] \in Ok \cup Failing THEN "completed"
    ELSE "running"

\* The final status.
Verdict ==
    IF cancel THEN "cancelled"
    ELSE IF \E n \in Nodes : status[n] = "blocked" THEN "blocked"
    ELSE IF \E n \in Nodes : status[n] \in Failing THEN "failed"
    ELSE IF \A n \in Nodes : status[n] \in Ok \cup Failing THEN "completed"
    ELSE "running"

ReturnResult ==
    /\ phase = "loop" /\ (queue = <<>> \/ cancel)
    /\ result' = Verdict
    /\ phase' = "done"
    /\ UNCHANGED <<wf, status, queue, completed, members, pending, sleeping, cancel, taskCancel,
                   execs, failed>>

-----------------------------------------------------------------------------
(* Cancellation                                                            *)

Suspended == phase = "exec" /\ ~ Quiet

\* The caller sets cancel_event while the engine is suspended.
SetCancel ==
    /\ Suspended /\ ~ cancel
    /\ cancel' = TRUE
    /\ UNCHANGED <<wf, status, queue, completed, members, pending, sleeping, phase, result,
                   taskCancel, execs, failed>>

\* Mutant: the cancelled handler's CancelledError is taken for a completed call.
CancelledStatusCompleted(n) == IF status[n] = "running" THEN "completed" ELSE status[n]

\* The CancelledError of a running handler is caught in _execute_single_node.
CancelledStatus(n) == IF status[n] = "running" THEN "cancelled" ELSE status[n]

\* The task is cancelled.  Awaiting a sequential node's handler the engine goes on with
\* the loop; in the sleep after a failure, or awaiting a group, run() raises.
CancelTask ==
    /\ Suspended /\ ~ taskCancel
    /\ taskCancel' = TRUE
    /\ status' = [n \in Nodes |-> IF Contains(members, n) THEN CancelledStatus(n) ELSE status[n]]
    /\ IF sleeping # {} \/ ToSet(members) \cap wf.parallel # {}
         THEN phase' = "raised" /\ pending' = <<>> /\ sleeping' = {}
         ELSE UNCHANGED <<phase, pending, sleeping>>
    /\ UNCHANGED <<wf, queue, completed, members, result, cancel, execs, failed>>

\* run() has returned or raised.
Over == phase \in {"done", "raised"} /\ UNCHANGED engineVars

Step ==
    \/ \E s \in NodeStatus : BeginMember(s) \/ TakeSequential(s)
    \/ \E n \in Nodes, s \in {"completed", "failed", "timeout"} : EndNode(n, s)
    \/ \E n \in Nodes : Wake(n)
    \/ TakeParallel \/ BlockSequential \/ PopEmpty \/ MembersDone \/ ReturnResult

EngineNext == Step \/ SetCancel \/ CancelTask \/ Over

EngineSpec == EngineInit /\ [][EngineNext]_engineVars

(* The loop runs on, and a handler ends: asyncio.wait_for bounds each call *)
(* by timeout_seconds and asyncio.sleep ends.                              *)
EngineFairSpec == EngineSpec /\ WF_engineVars(Step)

-----------------------------------------------------------------------------
EngineTypeOK ==
    /\ wf \in Definitions
    /\ status \in [Nodes -> NodeStatus]
    /\ queue \in Seq(Nodes)
    /\ completed \subseteq Nodes /\ sleeping \subseteq Nodes
    /\ members \in Seq(Nodes)
    /\ pending \in Seq(Nodes)
    /\ phase \in {"loop", "exec", "done", "raised"}
    /\ result \in {"running", "completed", "failed", "cancelled", "blocked"}
    /\ cancel \in BOOLEAN /\ taskCancel \in BOOLEAN
    /\ execs \in [Nodes -> Nat] /\ failed \subseteq Nodes

(* When run() returns undisturbed nothing was forgotten: every node has a  *)
(* final status or waits behind one that did not succeed, so the result is *)
(* never "running" although edges, skips and conditions may be anything.   *)
NothingLost ==
    phase = "done" /\ ~ cancel =>
        /\ result # "running"
        /\ \A n \in Nodes : status[n] \in Ok \cup Failing \/ \E p \in Preds(n) : status[p] \notin Ok

(* Without parallel groups a failed or timed-out call is never hidden: a   *)
(* result of "completed" means that no call failed and that every node     *)
(* completed or was skipped.                                               *)
FailureReported ==
    wf.parallel = {} /\ phase = "done" /\ result = "completed" =>
        failed = {} /\ \A n \in Nodes : status[n] \in Ok

(* Without parallel groups a node runs, or has run, only after all its     *)
(* predecessors were done, and their statuses still say so.                *)
PredsFirst ==
    wf.parallel = {} =>
        \A n \in Nodes : status[n] \in {"running", "completed", "failed", "timeout"} =>
            \A p \in Preds(n) : status[p] \in Ok

(* NodeStatus docstring: COMPLETED, FAILED, TIMEOUT, CANCELLED, BLOCKED    *)
(* and SKIPPED end the state machine of a node.                            *)
TerminalStays ==
    [][\A n \in Nodes : status[n] \in Ok \cup Failing => status'[n] = status[n]]_engineVars

(* The chains that WorkflowDefV2.to_workflow_definition compiles: once the *)
(* run is cancelled, in either way, no further step is started, although   *)
(* the engine catches the CancelledError and goes on with its loop.        *)
CancelStops ==
    [][wf.edges = {e \in Nodes \X Nodes : e[2] = e[1] + 1} /\ wf.parallel = {} =>
         (cancel \/ taskCancel => execs' = execs)]_engineVars

(* run() ends whatever the handlers do.                                    *)
Terminates == <>(phase \in {"done", "raised"})

-----------------------------------------------------------------------------
(* planner_agent.py tells its model that an on_fail edge starts the node   *)
(* behind it when the one before fails (error handling).                   *)
OnFailRuns ==
    phase = "done" /\ ~ cancel /\ ~ taskCancel =>
        \A e \in wf.edges : wf.cond[e] = "on_fail" /\ e[1] \in failed /\ Preds(e[2]) = {e[1]}
                                => execs[e[2]] > 0

(* WorkflowEngine docstring: timeouts and retries.  A node with retries    *)
(* that failed is called again before the run ends.                        *)
FailedNodesRetried ==
    phase = "done" /\ ~ cancel /\ ~ taskCancel =>
        \A n \in failed \cap wf.retries : execs[n] > 1
=============================================================================
