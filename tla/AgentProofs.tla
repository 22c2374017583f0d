---------------------------- MODULE AgentProofs ----------------------------
(***************************************************************************)
(* Of the agents of a workflow: every process is on record and every       *)
(* subscription belongs to an entry, for any number of nodes and of        *)
(* commands in execution.  Of a coding session and of those who edit       *)
(* beside it: an ok result vouches for its edits, a rollback gives all     *)
(* files back, and a difference turns its own text into the other side,    *)
(* for any files, texts, edits and crashes.  Of delegations,               *)
(* for any number of them and any capability blocks, budgets and limits: a *)
(* child is never freer than its parent, one that is stopped is told as    *)
(* stopped, and nothing is left running.                                   *)
(***************************************************************************)
EXTENDS AgentDriver, CodingSession, Delegation, ListsProofs, FiniteSetTheorems, NaturalsInduction, TLAPS

-----------------------------------------------------------------------------
(* The agents of a workflow.                                               *)

Commands == [op : {"none", "start", "cancel", "cancelAll", "shutdown"},
             pc : {"idle", "stop", "spawn", "grace"},
             node : Nodes \cup {None}, table : Tables \cup {None}, todo : SUBSET Nodes]

\* A command that starts or cancels an agent has its node and the table it found.
TaskInv ==
  \A t \in Tasks :
    /\ task[t].op \in {"start", "cancel"} => task[t].node \in Nodes /\ task[t].table \in Tables
    /\ task[t].pc = "grace" => task[t].op = "start"

\* Who waits for a process to settle holds the lock, so nobody records its agent meanwhile.
GraceInv ==
  \A t \in Tasks : task[t].pc = "grace" => lock = t /\ rec[task[t].node] = "none"

\* The lock of the manager.
LockInv == \A t \in Tasks : lock = t <=> task[t].pc = "grace"

TasksTyped == task \in [Tasks -> Commands]

IInv == TypeOK /\ TaskInv /\ GraceInv /\ ProcessRecorded /\ SubscriptionsTracked

Touches(t) == \A u \in Tasks : u # t => task'[u] = task[u]

LEMMA EventKinds ==
  \A c \in Confirms : Accepted(c) \in Events /\ Rejected(c) \in Events
BY DEF Events

LEMMA Returning ==
  ASSUME TasksTyped, NEW t \in Tasks, Return(t)
  PROVE  task'[t] = Idle /\ Touches(t) /\ TasksTyped'
<1>1. Idle \in Commands
  BY DEF Idle, Doing, Commands
<1>2. QED
  BY <1>1 DEF Return, Touches, TasksTyped

LEMMA Moving ==
  ASSUME TasksTyped, NEW t \in Tasks, NEW pc \in {"spawn", "grace"}, Moves(t, pc)
  PROVE  /\ task'[t].pc = pc /\ task'[t].op = task[t].op /\ task'[t].node = task[t].node
         /\ task'[t].table = task[t].table
         /\ Touches(t) /\ TasksTyped'
<1>1. task[t] \in Commands
  BY DEF TasksTyped
<1>2. [task[t] EXCEPT !.pc = pc] \in Commands
  BY <1>1 DEF Commands
<1>3. task' = [task EXCEPT ![t] = [task[t] EXCEPT !.pc = pc]]
  BY DEF Moves
<1>4. QED
  BY <1>1, <1>2, <1>3 DEF Touches, TasksTyped, Commands

\* A command begins.
LEMMA Beginning ==
  ASSUME TasksTyped, NEW t \in Tasks, NEW r \in Commands, task' = [task EXCEPT ![t] = r]
  PROVE  task'[t] = r /\ Touches(t) /\ TasksTyped'
BY DEF TasksTyped, Touches

\* What has happened to command t when it was begun, and when one agent was stopped.
Begun(t) ==
  /\ Touches(t) /\ TasksTyped' /\ task[t].pc = "idle" /\ task'[t].pc # "grace"
  /\ task'[t].op \in {"start", "cancel"} => task'[t].node \in Nodes /\ task'[t].table \in Tables

Stepped(t) ==
  /\ Touches(t) /\ TasksTyped'
  /\ task'[t].op = task[t].op /\ task'[t].pc = task[t].pc /\ task'[t].node = task[t].node
  /\ task[t].op \notin {"start", "cancel"}

LEMMA StartBegins ==
  ASSUME TypeOK, TasksTyped, NEW t \in Tasks, NEW n \in Nodes, StartBegin(t, n)
  PROVE  Begun(t)
<1>1. PICK g \in Tables :
        LET pc == IF n \in tables[g] THEN "stop" ELSE "spawn" IN
        task' = [task EXCEPT ![t] = Doing("start", pc, n, g, {})]
  BY DEF StartBegin
<1> DEFINE pc == IF n \in tables[g] THEN "stop" ELSE "spawn"
           r == Doing("start", pc, n, g, {})
<1>2. r \in Commands /\ r.op = "start" /\ r.pc # "grace" /\ r.node \in Nodes /\ r.table \in Tables
  BY DEF Doing, Commands
<1>3. task' = [task EXCEPT ![t] = r]
  BY <1>1
<1>4. task'[t] = r /\ Touches(t) /\ TasksTyped'
  <2> HIDE DEF r
  <2>1. QED
    BY <1>2, <1>3, Beginning
<1>5. task[t].pc = "idle"
  BY DEF StartBegin, Idle, Doing
<1> HIDE DEF r
<1>6. QED
  BY <1>2, <1>4, <1>5 DEF Begun

LEMMA CancelBegins ==
  ASSUME TypeOK, TasksTyped, NEW t \in Tasks, NEW n \in Nodes, CancelBegin(t, n)
  PROVE  Begun(t)
<1> DEFINE r == Doing("cancel", "stop", n, current, {})
<1>1. current \in Tables
  BY DEF CancelBegin, TypeOK
<1>2. r \in Commands /\ r.op = "cancel" /\ r.pc # "grace" /\ r.node \in Nodes /\ r.table \in Tables
  BY <1>1 DEF Doing, Commands
<1>3. task' = [task EXCEPT ![t] = r]
  BY DEF CancelBegin
<1>4. task'[t] = r /\ Touches(t) /\ TasksTyped'
  <2> HIDE DEF r
  <2>1. QED
    BY <1>2, <1>3, Beginning
<1>5. task[t].pc = "idle"
  BY DEF CancelBegin, Idle, Doing
<1> HIDE DEF r
<1>6. QED
  BY <1>2, <1>4, <1>5 DEF Begun

LEMMA CancelAllBegins ==
  ASSUME TypeOK, TasksTyped, NEW t \in Tasks, CancelAllBegin(t)
  PROVE  Begun(t)
<1>0. current \in Tables /\ tables[current] \in SUBSET Nodes
  BY DEF CancelAllBegin, TypeOK
<1>1. PICK op \in {"cancelAll", "shutdown"} :
        task' = [task EXCEPT ![t] = Doing(op, "stop", None, None, tables[current])]
  BY DEF CancelAllBegin
<1> DEFINE r == Doing(op, "stop", None, None, tables[current])
<1>2. r \in Commands /\ r.op \notin {"start", "cancel"} /\ r.pc # "grace"
  BY <1>0 DEF Doing, Commands
<1>3. task' = [task EXCEPT ![t] = r]
  BY <1>1
<1>4. task'[t] = r /\ Touches(t) /\ TasksTyped'
  <2> HIDE DEF r
  <2>1. QED
    BY <1>2, <1>3, Beginning
<1>5. task[t].pc = "idle"
  BY DEF CancelAllBegin, Idle, Doing
<1> HIDE DEF r
<1>6. QED
  BY <1>2, <1>4, <1>5 DEF Begun

LEMMA CancelAllSteps ==
  ASSUME TypeOK, TasksTyped, NEW t \in Tasks, NEW n \in Nodes, CancelAllStep(t, n)
  PROVE  Stepped(t)
<1> DEFINE r == [task[t] EXCEPT !.todo = @ \ {n}]
<1>1. task[t] \in Commands /\ task[t].op \in {"cancelAll", "shutdown"} /\ task' = [task EXCEPT ![t] = r]
  BY DEF CancelAllStep, TasksTyped
<1>2. r \in Commands /\ r.op = task[t].op /\ r.pc = task[t].pc /\ r.node = task[t].node
  BY <1>1 DEF Commands
<1>3. task'[t] = r /\ Touches(t) /\ TasksTyped'
  BY <1>1, <1>2, Beginning
<1>4. QED
  BY <1>1, <1>2, <1>3 DEF Stepped

\* A step keeps the commands of their type, with a node and a table where they need them.
LEMMA TaskStep ==
  ASSUME TypeOK, TasksTyped, TaskInv, Next
  PROVE  TasksTyped' /\ TaskInv'
<1> USE DriverAssumption DEF TasksTyped, TaskInv, Touches
<1>1. ASSUME CheckAgents
      PROVE  TasksTyped' /\ TaskInv'
  BY <1>1 DEF CheckAgents
<1>2. ASSUME NEW n \in Nodes, Cleanup(n)
      PROVE  TasksTyped' /\ TaskInv'
  BY <1>2 DEF Cleanup
<1>3. ASSUME NEW n \in Nodes, Exit(n)
      PROVE  TasksTyped' /\ TaskInv'
  BY <1>3 DEF Exit
<1>4. ASSUME NEW t \in Tasks, NEW n \in Nodes, StartBegin(t, n)
      PROVE  TasksTyped' /\ TaskInv'
  BY <1>4, StartBegins DEF Begun
<1>5. ASSUME NEW t \in Tasks, StartStop(t)
      PROVE  TasksTyped' /\ TaskInv'
  BY <1>5, Moving DEF StartStop, At
<1>6. ASSUME NEW t \in Tasks, SpawnAnswers(t)
      PROVE  TasksTyped' /\ TaskInv'
  BY <1>6, Returning DEF SpawnAnswers, Track, Idle, Doing
<1>7. ASSUME NEW t \in Tasks, Launch(t)
      PROVE  TasksTyped' /\ TaskInv'
  BY <1>7, Moving DEF Launch, At
<1>8. ASSUME NEW t \in Tasks, Launched(t)
      PROVE  TasksTyped' /\ TaskInv'
  BY <1>8, Returning DEF Launched, Track, Idle, Doing
<1>9. ASSUME NEW t \in Tasks, StartEnds(t)
      PROVE  TasksTyped' /\ TaskInv'
  BY <1>9, Returning DEF StartEnds, Idle, Doing
<1>10. ASSUME NEW t \in Tasks, StartOrphans(t)
      PROVE  TasksTyped' /\ TaskInv'
  BY <1>10, Returning DEF StartOrphans, Idle, Doing
<1>11. ASSUME NEW t \in Tasks, NEW n \in Nodes, CancelBegin(t, n)
      PROVE  TasksTyped' /\ TaskInv'
  BY <1>11, CancelBegins DEF Begun
<1>12. ASSUME NEW t \in Tasks, CancelEnd(t)
      PROVE  TasksTyped' /\ TaskInv'
  BY <1>12, Returning DEF CancelEnd, Idle, Doing
<1>13. ASSUME NEW t \in Tasks, CancelAllBegin(t)
      PROVE  TasksTyped' /\ TaskInv'
  BY <1>13, CancelAllBegins DEF Begun
<1>14. ASSUME NEW t \in Tasks, NEW n \in Nodes, CancelAllStep(t, n)
      PROVE  TasksTyped' /\ TaskInv'
  BY <1>14, CancelAllSteps DEF Stepped
<1>15. ASSUME NEW t \in Tasks, CancelAllEnd(t)
      PROVE  TasksTyped' /\ TaskInv'
  BY <1>15, Returning DEF CancelAllEnd, Idle, Doing
<1>16. ASSUME NEW n \in Nodes, Completes(n)
      PROVE  TasksTyped' /\ TaskInv'
  BY <1>16 DEF Completes
<1>17. ASSUME NEW n \in Nodes, CompletedBegin(n)
      PROVE  TasksTyped' /\ TaskInv'
  BY <1>17 DEF CompletedBegin
<1>18. ASSUME NEW n \in Nodes, CompletedEnd(n)
      PROVE  TasksTyped' /\ TaskInv'
  BY <1>18 DEF CompletedEnd
<1>19. ASSUME NEW S \in SUBSET Pending, TimeoutCheck(S)
      PROVE  TasksTyped' /\ TaskInv'
  BY <1>19 DEF TimeoutCheck
<1>20. ASSUME NEW c \in Confirms, NEW e \in Events, Answer(c, e)
      PROVE  TasksTyped' /\ TaskInv'
  BY <1>20 DEF Answer
<1>21. ASSUME NEW c \in Confirms, NEW e \in Events, Resolve(c, e)
      PROVE  TasksTyped' /\ TaskInv'
  BY <1>21 DEF Resolve
<1>22. ASSUME NEW c \in Confirms, OnAccepted(c)
      PROVE  TasksTyped' /\ TaskInv'
  BY <1>22 DEF OnAccepted
<1>23. ASSUME NEW c \in Confirms, OnRejected(c)
      PROVE  TasksTyped' /\ TaskInv'
  BY <1>23 DEF OnRejected
<1>24. QED
  BY <1>1, <1>2, <1>3, <1>4, <1>5, <1>6, <1>7, <1>8, <1>9, <1>10, <1>11, <1>12, <1>13,
     <1>14, <1>15, <1>16, <1>17, <1>18, <1>19, <1>20, <1>21, <1>22, <1>23, EventKinds
  DEF Next, Manage, Command, Completion, Confirmation

\* What a stop does to the agent's record and process.
LEMMA Stopping ==
  ASSUME TypeOK, NEW n \in Nodes, Stop(n)
  PROVE  /\ lock = None /\ lock' = lock
         /\ \A m \in Nodes : m # n => rec'[m] = rec[m] /\ alive'[m] = alive[m]
         /\ rec'[n] = IF rec[n] = "none" THEN "none" ELSE "stopped"
         /\ rec[n] # "running" => alive'[n] = alive[n]
         /\ rec[n] = "running" /\ alive[n] <= 1 => alive'[n] = 0
         /\ rec' \in [Nodes -> {"none", "initialized", "running", "failed", "stopped"}]
         /\ alive' \in [Nodes -> 0..2]
<1>1. /\ rec \in [Nodes -> {"none", "initialized", "running", "failed", "stopped"}]
      /\ alive \in [Nodes -> 0..2]
  BY DEF TypeOK
<1>2. rec' = [rec EXCEPT ![n] = IF rec[n] = "none" THEN "none" ELSE "stopped"]
  BY <1>1 DEF Stop, Records
<1>3. alive' = [alive EXCEPT ![n] = IF rec[n] = "running" THEN Fewer(n) ELSE alive[n]]
  BY <1>1 DEF Stop
<1>4. Fewer(n) \in 0..2 /\ (alive[n] <= 1 => Fewer(n) = 0)
  BY <1>1 DEF Fewer
<1>5. QED
  BY <1>1, <1>2, <1>3, <1>4 DEF Stop

LEMMA ManagerTyped ==
  ASSUME TypeOK, TaskInv, Next
  PROVE  /\ rec' \in [Nodes -> {"none", "initialized", "running", "failed", "stopped"}]
         /\ alive' \in [Nodes -> 0..2]
<1> DEFINE Goal == /\ rec' \in [Nodes -> {"none", "initialized", "running", "failed", "stopped"}]
                   /\ alive' \in [Nodes -> 0..2]
<1> USE DEF TypeOK, TaskInv, At, managerVars
<1>1. ASSUME CheckAgents
      PROVE  Goal
  BY <1>1 DEF CheckAgents
<1>2. ASSUME NEW n \in Nodes, Cleanup(n)
      PROVE  Goal
  BY <1>2 DEF Cleanup
<1>3. ASSUME NEW n \in Nodes, Exit(n)
      PROVE  Goal
  BY <1>3 DEF Exit, Fewer
<1>4. ASSUME NEW t \in Tasks, NEW n \in Nodes, StartBegin(t, n)
      PROVE  Goal
  BY <1>4 DEF StartBegin, Table
<1>5. ASSUME NEW t \in Tasks, StartStop(t)
      PROVE  Goal
  BY <1>5, Stopping DEF StartStop
<1>6. ASSUME NEW t \in Tasks, SpawnAnswers(t)
      PROVE  Goal
  BY <1>6 DEF SpawnAnswers, Track, Refused, Records
<1>7. ASSUME NEW t \in Tasks, Launch(t)
      PROVE  Goal
  BY <1>7 DEF Launch, Refused, Records
<1>8. ASSUME NEW t \in Tasks, Launched(t)
      PROVE  Goal
  BY <1>8 DEF Launched, Track
<1>9. ASSUME NEW t \in Tasks, StartEnds(t)
      PROVE  Goal
  BY <1>9 DEF StartEnds
<1>10. ASSUME NEW t \in Tasks, StartOrphans(t)
      PROVE  Goal
  BY <1>10 DEF StartOrphans, Fewer
<1>11. ASSUME NEW t \in Tasks, NEW n \in Nodes, CancelBegin(t, n)
      PROVE  Goal
  BY <1>11 DEF CancelBegin
<1>12. ASSUME NEW t \in Tasks, CancelEnd(t)
      PROVE  Goal
  BY <1>12, Stopping DEF CancelEnd
<1>13. ASSUME NEW t \in Tasks, CancelAllBegin(t)
      PROVE  Goal
  BY <1>13 DEF CancelAllBegin
<1>14. ASSUME NEW t \in Tasks, NEW n \in Nodes, CancelAllStep(t, n)
      PROVE  Goal
  BY <1>14, Stopping DEF CancelAllStep
<1>15. ASSUME NEW t \in Tasks, CancelAllEnd(t)
      PROVE  Goal
  BY <1>15 DEF CancelAllEnd
<1>16. ASSUME NEW n \in Nodes, Completes(n)
      PROVE  Goal
  BY <1>16 DEF Completes
<1>17. ASSUME NEW n \in Nodes, CompletedBegin(n)
      PROVE  Goal
  BY <1>17 DEF CompletedBegin, Deliver
<1>18. ASSUME NEW n \in Nodes, CompletedEnd(n)
      PROVE  Goal
  BY <1>18 DEF CompletedEnd
<1>19. ASSUME NEW S \in SUBSET Pending, TimeoutCheck(S)
      PROVE  Goal
  BY <1>19 DEF TimeoutCheck
<1>20. ASSUME NEW c \in Confirms, NEW e \in Events, Answer(c, e)
      PROVE  Goal
  BY <1>20 DEF Answer
<1>21. ASSUME NEW c \in Confirms, NEW e \in Events, Resolve(c, e)
      PROVE  Goal
  BY <1>21 DEF Resolve, Discard
<1>22. ASSUME NEW c \in Confirms, OnAccepted(c)
      PROVE  Goal
  BY <1>22 DEF OnAccepted, Deliver, Discard
<1>23. ASSUME NEW c \in Confirms, OnRejected(c)
      PROVE  Goal
  BY <1>23 DEF OnRejected, Deliver, Discard
<1>24. QED
  BY <1>1, <1>2, <1>3, <1>4, <1>5, <1>6, <1>7, <1>8, <1>9, <1>10, <1>11, <1>12, <1>13,
     <1>14, <1>15, <1>16, <1>17, <1>18, <1>19, <1>20, <1>21, <1>22, <1>23, EventKinds
  DEF Next, Manage, Command, Completion, Confirmation

LEMMA DriverTyped ==
  ASSUME TypeOK, TaskInv, Next
  PROVE  /\ tables' \in [Tables -> SUBSET Nodes] /\ current' \in Tables \cup {None}
         /\ subs' \subseteq Nodes /\ telling' \subseteq Nodes /\ stopped' \in BOOLEAN
<1> DEFINE Goal == /\ tables' \in [Tables -> SUBSET Nodes] /\ current' \in Tables \cup {None}
                   /\ subs' \subseteq Nodes /\ telling' \subseteq Nodes /\ stopped' \in BOOLEAN
<1> USE DEF TypeOK, TaskInv, At, driverVars
<1>1. ASSUME CheckAgents
      PROVE  Goal
  BY <1>1 DEF CheckAgents
<1>2. ASSUME NEW n \in Nodes, Cleanup(n)
      PROVE  Goal
  BY <1>2 DEF Cleanup
<1>3. ASSUME NEW n \in Nodes, Exit(n)
      PROVE  Goal
  BY <1>3 DEF Exit
<1>4. ASSUME NEW t \in Tasks, NEW n \in Nodes, StartBegin(t, n)
      PROVE  Goal
  BY <1>4 DEF StartBegin, Table
<1>5. ASSUME NEW t \in Tasks, StartStop(t)
      PROVE  Goal
  BY <1>5 DEF StartStop
<1>6. ASSUME NEW t \in Tasks, SpawnAnswers(t)
      PROVE  Goal
  BY <1>6 DEF SpawnAnswers, Track
<1>7. ASSUME NEW t \in Tasks, Launch(t)
      PROVE  Goal
  BY <1>7 DEF Launch
<1>8. ASSUME NEW t \in Tasks, Launched(t)
      PROVE  Goal
  BY <1>8 DEF Launched, Track
<1>9. ASSUME NEW t \in Tasks, StartEnds(t)
      PROVE  Goal
  BY <1>9 DEF StartEnds
<1>10. ASSUME NEW t \in Tasks, StartOrphans(t)
      PROVE  Goal
  BY <1>10 DEF StartOrphans
<1>11. ASSUME NEW t \in Tasks, NEW n \in Nodes, CancelBegin(t, n)
      PROVE  Goal
  BY <1>11 DEF CancelBegin
<1>12. ASSUME NEW t \in Tasks, CancelEnd(t)
      PROVE  Goal
  BY <1>12 DEF CancelEnd
<1>13. ASSUME NEW t \in Tasks, CancelAllBegin(t)
      PROVE  Goal
  BY <1>13 DEF CancelAllBegin
<1>14. ASSUME NEW t \in Tasks, NEW n \in Nodes, CancelAllStep(t, n)
      PROVE  Goal
  BY <1>14 DEF CancelAllStep
<1>15. ASSUME NEW t \in Tasks, CancelAllEnd(t)
      PROVE  Goal
  BY <1>15 DEF CancelAllEnd
<1>16. ASSUME NEW n \in Nodes, Completes(n)
      PROVE  Goal
  BY <1>16 DEF Completes
<1>17. ASSUME NEW n \in Nodes, CompletedBegin(n)
      PROVE  Goal
  BY <1>17 DEF CompletedBegin, Deliver
<1>18. ASSUME NEW n \in Nodes, CompletedEnd(n)
      PROVE  Goal
  BY <1>18 DEF CompletedEnd
<1>19. ASSUME NEW S \in SUBSET Pending, TimeoutCheck(S)
      PROVE  Goal
  BY <1>19 DEF TimeoutCheck
<1>20. ASSUME NEW c \in Confirms, NEW e \in Events, Answer(c, e)
      PROVE  Goal
  BY <1>20 DEF Answer
<1>21. ASSUME NEW c \in Confirms, NEW e \in Events, Resolve(c, e)
      PROVE  Goal
  BY <1>21 DEF Resolve, Discard
<1>22. ASSUME NEW c \in Confirms, OnAccepted(c)
      PROVE  Goal
  BY <1>22 DEF OnAccepted, Deliver, Discard
<1>23. ASSUME NEW c \in Confirms, OnRejected(c)
      PROVE  Goal
  BY <1>23 DEF OnRejected, Deliver, Discard
<1>24. QED
  BY <1>1, <1>2, <1>3, <1>4, <1>5, <1>6, <1>7, <1>8, <1>9, <1>10, <1>11, <1>12, <1>13,
     <1>14, <1>15, <1>16, <1>17, <1>18, <1>19, <1>20, <1>21, <1>22, <1>23, EventKinds
  DEF Next, Manage, Command, Completion, Confirmation

LEMMA EventsTyped ==
  ASSUME TypeOK, Next
  PROVE  /\ confirm' \in [Confirms -> {"unused", "pending", "gone"}] /\ answered' \subseteq Confirms
         /\ bus' \subseteq Events
<1> DEFINE Goal == /\ confirm' \in [Confirms -> {"unused", "pending", "gone"}]
                   /\ answered' \subseteq Confirms /\ bus' \subseteq Events
<1> USE DEF TypeOK, confirmVars
<1>1. ASSUME CheckAgents
      PROVE  Goal
  BY <1>1 DEF CheckAgents
<1>2. ASSUME NEW n \in Nodes, Cleanup(n)
      PROVE  Goal
  BY <1>2 DEF Cleanup
<1>3. ASSUME NEW n \in Nodes, Exit(n)
      PROVE  Goal
  BY <1>3 DEF Exit
<1>4. ASSUME NEW t \in Tasks, NEW n \in Nodes, StartBegin(t, n)
      PROVE  Goal
  BY <1>4 DEF StartBegin
<1>5. ASSUME NEW t \in Tasks, StartStop(t)
      PROVE  Goal
  BY <1>5 DEF StartStop
<1>6. ASSUME NEW t \in Tasks, SpawnAnswers(t)
      PROVE  Goal
  BY <1>6 DEF SpawnAnswers, Track, Confirmed
<1>7. ASSUME NEW t \in Tasks, Launch(t)
      PROVE  Goal
  BY <1>7 DEF Launch
<1>8. ASSUME NEW t \in Tasks, Launched(t)
      PROVE  Goal
  BY <1>8 DEF Launched, Track, Confirmed
<1>9. ASSUME NEW t \in Tasks, StartEnds(t)
      PROVE  Goal
  BY <1>9 DEF StartEnds
<1>10. ASSUME NEW t \in Tasks, StartOrphans(t)
      PROVE  Goal
  BY <1>10 DEF StartOrphans
<1>11. ASSUME NEW t \in Tasks, NEW n \in Nodes, CancelBegin(t, n)
      PROVE  Goal
  BY <1>11 DEF CancelBegin
<1>12. ASSUME NEW t \in Tasks, CancelEnd(t)
      PROVE  Goal
  BY <1>12 DEF CancelEnd
<1>13. ASSUME NEW t \in Tasks, CancelAllBegin(t)
      PROVE  Goal
  BY <1>13 DEF CancelAllBegin
<1>14. ASSUME NEW t \in Tasks, NEW n \in Nodes, CancelAllStep(t, n)
      PROVE  Goal
  BY <1>14 DEF CancelAllStep
<1>15. ASSUME NEW t \in Tasks, CancelAllEnd(t)
      PROVE  Goal
  BY <1>15 DEF CancelAllEnd
<1>16. ASSUME NEW n \in Nodes, Completes(n)
      PROVE  Goal
  BY <1>16 DEF Completes, Events
<1>17. ASSUME NEW n \in Nodes, CompletedBegin(n)
      PROVE  Goal
  BY <1>17 DEF CompletedBegin, Deliver
<1>18. ASSUME NEW n \in Nodes, CompletedEnd(n)
      PROVE  Goal
  BY <1>18 DEF CompletedEnd
<1>19. ASSUME NEW S \in SUBSET Pending, TimeoutCheck(S)
      PROVE  Goal
  BY <1>19 DEF TimeoutCheck, Events, Pending
<1>20. ASSUME NEW c \in Confirms, NEW e \in Events, Answer(c, e)
      PROVE  Goal
  BY <1>20 DEF Answer, Events
<1>21. ASSUME NEW c \in Confirms, NEW e \in Events, Resolve(c, e)
      PROVE  Goal
  BY <1>21 DEF Resolve, Discard, Events
<1>22. ASSUME NEW c \in Confirms, OnAccepted(c)
      PROVE  Goal
  BY <1>22 DEF OnAccepted, Deliver, Discard
<1>23. ASSUME NEW c \in Confirms, OnRejected(c)
      PROVE  Goal
  BY <1>23 DEF OnRejected, Deliver, Discard
<1>24. QED
  BY <1>1, <1>2, <1>3, <1>4, <1>5, <1>6, <1>7, <1>8, <1>9, <1>10, <1>11, <1>12, <1>13,
     <1>14, <1>15, <1>16, <1>17, <1>18, <1>19, <1>20, <1>21, <1>22, <1>23, EventKinds
  DEF Next, Manage, Command, Completion, Confirmation

\* A step keeps every process on record.
LEMMA ProcessStep ==
  ASSUME TypeOK, TasksTyped, TaskInv, GraceInv, ProcessRecorded, Next
  PROVE  LockInv' /\ GraceInv' /\ ProcessRecorded'
<1> DEFINE Goal == LockInv' /\ GraceInv' /\ ProcessRecorded'
<1> USE DriverAssumption DEF TypeOK, TaskInv, LockInv, GraceInv, ProcessRecorded, At, managerVars, Touches
<1>1. ASSUME CheckAgents
      PROVE  Goal
  <2>1. lock = None /\ lock' = lock /\ task' = task /\ alive' = alive
    BY <1>1 DEF CheckAgents
  <2>2. \A n \in Nodes : rec[n] = "none" \/ alive[n] = 1 => rec'[n] = rec[n]
    BY <1>1 DEF CheckAgents, Dead
  <2>3. \A t \in Tasks : task[t].pc # "grace"
    BY <2>1
  <2>4. QED
    BY <2>1, <2>2, <2>3
<1>2. ASSUME NEW n \in Nodes, Cleanup(n)
      PROVE  Goal
  BY <1>2 DEF Cleanup
<1>3. ASSUME NEW n \in Nodes, Exit(n)
      PROVE  Goal
  BY <1>3 DEF Exit, Fewer
<1>4. ASSUME NEW t \in Tasks, NEW n \in Nodes, StartBegin(t, n)
      PROVE  Goal
  <2>1. UNCHANGED <<rec, alive, lock>>
    BY <1>4 DEF StartBegin
  <2>2. Begun(t)
    BY <1>4, StartBegins
  <2>3. QED
    BY <2>1, <2>2 DEF Begun
<1>5. ASSUME NEW t \in Tasks, StartStop(t)
      PROVE  Goal
  BY <1>5, Moving, Stopping DEF StartStop
<1>6. ASSUME NEW t \in Tasks, SpawnAnswers(t)
      PROVE  Goal
  BY <1>6, Returning, SMTT(30) DEF SpawnAnswers, Track, Refused, Records, Idle, Doing
<1>7. ASSUME NEW t \in Tasks, Launch(t)
      PROVE  Goal
  BY <1>7, Moving DEF Launch, Refused, Records
<1>8. ASSUME NEW t \in Tasks, Launched(t)
      PROVE  Goal
  BY <1>8, Returning DEF Launched, Track, Idle, Doing
<1>9. ASSUME NEW t \in Tasks, StartEnds(t)
      PROVE  Goal
  BY <1>9, Returning DEF StartEnds, Idle, Doing
<1>10. ASSUME NEW t \in Tasks, StartOrphans(t)
      PROVE  Goal
  BY <1>10, Returning DEF StartOrphans, Fewer, Idle, Doing
<1>11. ASSUME NEW t \in Tasks, NEW n \in Nodes, CancelBegin(t, n)
      PROVE  Goal
  <2>1. UNCHANGED <<rec, alive, lock>>
    BY <1>11 DEF CancelBegin
  <2>2. Begun(t)
    BY <1>11, CancelBegins
  <2>3. QED
    BY <2>1, <2>2 DEF Begun
<1>12. ASSUME NEW t \in Tasks, CancelEnd(t)
      PROVE  Goal
  BY <1>12, Returning, Stopping DEF CancelEnd, Idle, Doing
<1>13. ASSUME NEW t \in Tasks, CancelAllBegin(t)
      PROVE  Goal
  <2>1. UNCHANGED <<rec, alive, lock>>
    BY <1>13 DEF CancelAllBegin
  <2>2. Begun(t)
    BY <1>13, CancelAllBegins
  <2>3. QED
    BY <2>1, <2>2 DEF Begun
<1>14. ASSUME NEW t \in Tasks, NEW n \in Nodes, CancelAllStep(t, n)
      PROVE  Goal
  BY <1>14, CancelAllSteps, Stopping DEF CancelAllStep, Stepped
<1>15. ASSUME NEW t \in Tasks, CancelAllEnd(t)
      PROVE  Goal
  BY <1>15, Returning DEF CancelAllEnd, Idle, Doing
<1>16. ASSUME NEW n \in Nodes, Completes(n)
      PROVE  Goal
  BY <1>16 DEF Completes
<1>17. ASSUME NEW n \in Nodes, CompletedBegin(n)
      PROVE  Goal
  BY <1>17 DEF CompletedBegin, Deliver
<1>18. ASSUME NEW n \in Nodes, CompletedEnd(n)
      PROVE  Goal
  BY <1>18 DEF CompletedEnd
<1>19. ASSUME NEW S \in SUBSET Pending, TimeoutCheck(S)
      PROVE  Goal
  BY <1>19 DEF TimeoutCheck
<1>20. ASSUME NEW c \in Confirms, NEW e \in Events, Answer(c, e)
      PROVE  Goal
  BY <1>20 DEF Answer
<1>21. ASSUME NEW c \in Confirms, NEW e \in Events, Resolve(c, e)
      PROVE  Goal
  BY <1>21 DEF Resolve, Discard
<1>22. ASSUME NEW c \in Confirms, OnAccepted(c)
      PROVE  Goal
  BY <1>22 DEF OnAccepted, Deliver, Discard
<1>23. ASSUME NEW c \in Confirms, OnRejected(c)
      PROVE  Goal
  BY <1>23 DEF OnRejected, Deliver, Discard
<1>24. QED
  BY <1>1, <1>2, <1>3, <1>4, <1>5, <1>6, <1>7, <1>8, <1>9, <1>10, <1>11, <1>12, <1>13,
     <1>14, <1>15, <1>16, <1>17, <1>18, <1>19, <1>20, <1>21, <1>22, <1>23, EventKinds
  DEF Next, Manage, Command, Completion, Confirmation

\* A step keeps every subscription with an entry.
LEMMA SubscriptionStep ==
  ASSUME TypeOK, TaskInv, SubscriptionsTracked, Next
  PROVE  SubscriptionsTracked'
<1> USE DEF TypeOK, TaskInv, At, SubscriptionsTracked, driverVars
<1>1. ASSUME CheckAgents
      PROVE  SubscriptionsTracked'
  BY <1>1 DEF CheckAgents
<1>2. ASSUME NEW n \in Nodes, Cleanup(n)
      PROVE  SubscriptionsTracked'
  BY <1>2 DEF Cleanup
<1>3. ASSUME NEW n \in Nodes, Exit(n)
      PROVE  SubscriptionsTracked'
  BY <1>3 DEF Exit
<1>4. ASSUME NEW t \in Tasks, NEW n \in Nodes, StartBegin(t, n)
      PROVE  SubscriptionsTracked'
  BY <1>4 DEF StartBegin
<1>5. ASSUME NEW t \in Tasks, StartStop(t)
      PROVE  SubscriptionsTracked'
  BY <1>5 DEF StartStop
<1>6. ASSUME NEW t \in Tasks, SpawnAnswers(t)
      PROVE  SubscriptionsTracked'
  BY <1>6 DEF SpawnAnswers, Track
<1>7. ASSUME NEW t \in Tasks, Launch(t)
      PROVE  SubscriptionsTracked'
  BY <1>7 DEF Launch
<1>8. ASSUME NEW t \in Tasks, Launched(t)
      PROVE  SubscriptionsTracked'
  BY <1>8 DEF Launched, Track
<1>9. ASSUME NEW t \in Tasks, StartEnds(t)
      PROVE  SubscriptionsTracked'
  BY <1>9 DEF StartEnds
<1>10. ASSUME NEW t \in Tasks, StartOrphans(t)
      PROVE  SubscriptionsTracked'
  BY <1>10 DEF StartOrphans
<1>11. ASSUME NEW t \in Tasks, NEW n \in Nodes, CancelBegin(t, n)
      PROVE  SubscriptionsTracked'
  BY <1>11 DEF CancelBegin
<1>12. ASSUME NEW t \in Tasks, CancelEnd(t)
      PROVE  SubscriptionsTracked'
  BY <1>12 DEF CancelEnd
<1>13. ASSUME NEW t \in Tasks, CancelAllBegin(t)
      PROVE  SubscriptionsTracked'
  BY <1>13 DEF CancelAllBegin
<1>14. ASSUME NEW t \in Tasks, NEW n \in Nodes, CancelAllStep(t, n)
      PROVE  SubscriptionsTracked'
  BY <1>14 DEF CancelAllStep
<1>15. ASSUME NEW t \in Tasks, CancelAllEnd(t)
      PROVE  SubscriptionsTracked'
  BY <1>15 DEF CancelAllEnd
<1>16. ASSUME NEW n \in Nodes, Completes(n)
      PROVE  SubscriptionsTracked'
  BY <1>16 DEF Completes
<1>17. ASSUME NEW n \in Nodes, CompletedBegin(n)
      PROVE  SubscriptionsTracked'
  BY <1>17 DEF CompletedBegin
<1>18. ASSUME NEW n \in Nodes, CompletedEnd(n)
      PROVE  SubscriptionsTracked'
  BY <1>18 DEF CompletedEnd
<1>19. ASSUME NEW S \in SUBSET Pending, TimeoutCheck(S)
      PROVE  SubscriptionsTracked'
  BY <1>19 DEF TimeoutCheck
<1>20. ASSUME NEW c \in Confirms, NEW e \in Events, Answer(c, e)
      PROVE  SubscriptionsTracked'
  BY <1>20 DEF Answer
<1>21. ASSUME NEW c \in Confirms, NEW e \in Events, Resolve(c, e)
      PROVE  SubscriptionsTracked'
  BY <1>21 DEF Resolve
<1>22. ASSUME NEW c \in Confirms, OnAccepted(c)
      PROVE  SubscriptionsTracked'
  BY <1>22 DEF OnAccepted
<1>23. ASSUME NEW c \in Confirms, OnRejected(c)
      PROVE  SubscriptionsTracked'
  BY <1>23 DEF OnRejected
<1>24. QED
  BY <1>1, <1>2, <1>3, <1>4, <1>5, <1>6, <1>7, <1>8, <1>9, <1>10, <1>11, <1>12, <1>13,
     <1>14, <1>15, <1>16, <1>17, <1>18, <1>19, <1>20, <1>21, <1>22, <1>23, EventKinds
  DEF Next, Manage, Command, Completion, Confirmation

LEMMA Invariance == Spec => []IInv
<1>1. Init => IInv
  <2>1. ASSUME Init
        PROVE  TypeOK
    <3>1. Idle \in Commands /\ Idle.pc = "idle"
      BY DEF Idle, Doing, Commands
    <3>2. task \in [Tasks -> Commands] /\ \A t \in Tasks : task[t].pc = "idle"
      BY <2>1, <3>1 DEF Init
    <3>3. LockInv
      BY <2>1, <3>2, DriverAssumption DEF Init, LockInv
    <3>4. /\ rec \in [Nodes -> {"none", "initialized", "running", "failed", "stopped"}]
          /\ alive \in [Nodes -> 0..2]
          /\ tables \in [Tables -> SUBSET Nodes] /\ current \in Tables \cup {None}
      BY <2>1 DEF Init
    <3>5. /\ subs \subseteq Nodes /\ telling \subseteq Nodes /\ stopped \in BOOLEAN
          /\ confirm \in [Confirms -> {"unused", "pending", "gone"}]
          /\ answered \subseteq Confirms /\ bus \subseteq Events
      BY <2>1 DEF Init
    <3>6. QED
      BY <3>2, <3>3, <3>4, <3>5 DEF TypeOK, Commands, LockInv
  <2>2. ASSUME Init
        PROVE  TaskInv /\ GraceInv
    BY <2>2 DEF Init, Idle, Doing, TaskInv, GraceInv
  <2>3. ASSUME Init
        PROVE  ProcessRecorded /\ SubscriptionsTracked
    BY <2>3 DEF Init, ProcessRecorded, SubscriptionsTracked
  <2>4. QED
    BY <2>1, <2>2, <2>3 DEF IInv
<1>2. ASSUME IInv, Next
      PROVE  IInv'
  <2>1. TypeOK /\ TaskInv /\ GraceInv /\ ProcessRecorded /\ SubscriptionsTracked
    BY <1>2 DEF IInv
  <2>2. TasksTyped
    BY <2>1 DEF TypeOK, TasksTyped, Commands
  <2>3. TasksTyped' /\ TaskInv'
    BY <1>2, <2>1, <2>2, TaskStep
  <2>4. LockInv' /\ GraceInv' /\ ProcessRecorded'
    BY <1>2, <2>1, <2>2, ProcessStep
  <2>5. SubscriptionsTracked'
    BY <1>2, <2>1, SubscriptionStep
  <2>6. TypeOK'
    BY <1>2, <2>1, <2>3, <2>4, ManagerTyped, DriverTyped, EventsTyped
    DEF TypeOK, TasksTyped, LockInv, Commands
  <2>7. QED
    BY <2>3, <2>4, <2>5, <2>6 DEF IInv
<1>3. ASSUME IInv, UNCHANGED vars
      PROVE  IInv'
  BY <1>3 DEF vars, managerVars, driverVars, confirmVars, IInv, TypeOK, TaskInv, GraceInv,
              ProcessRecorded, SubscriptionsTracked, At
<1>4. QED
  BY <1>1, <1>2, <1>3, PTL DEF Spec

(* Types, and a lock that is held by the command in its startup grace.     *)
THEOREM TypeCorrect == Spec => []TypeOK
BY Invariance, PTL DEF IInv

(* However starts, stops, health checks and cleanups interleave, a node has *)
(* one process at most, and the manager a running record of it, except in  *)
(* its startup grace (ProcessRecorded).                                    *)
THEOREM ProcessRecordedHolds == Spec => []ProcessRecorded
BY Invariance, PTL DEF IInv

(* Completions and cancellations that overlap a new start leave no          *)
(* subscription of a node behind (SubscriptionsTracked).                   *)
THEOREM SubscriptionsTrackedHolds == Spec => []SubscriptionsTracked
BY Invariance, PTL DEF IInv

-----------------------------------------------------------------------------
(* A session that ends ok vouches for its edits.                           *)

\* A session that goes on.
Live == sess.pc \in {"plan", "edit", "check", "close"}

\* The verifications of the edit recorded at i are complete.
Verified(i) ==
  \A k \in 1 .. sess.checks : i + k \in DOMAIN record /\ record[i + k] \in {"green", "red", "unknown"}

\* All that was recorded of the edit at i are verifications, up to check sess.next.
BeingVerified(i) ==
  /\ sess.pc = "check" /\ i + sess.next = Len(record) + 1
  /\ \A k \in 1 .. sess.next - 1 : record[i + k] \in {"green", "red", "unknown"}

\* What was recorded of a session that goes on: each applied edit is followed by all
\* its verifications, but for the one that is being verified, and "done" comes last.
SessionInv ==
  /\ record \in Seq(Recorded)
  /\ sess.pc \in {"off", "plan", "edit", "check", "close", "ended", "died"}
  /\ sess.pc = "off" => record = <<>>
  /\ Live =>
       /\ sess = [pc |-> sess.pc, checks |-> sess.checks, next |-> sess.next,
                  writes |-> sess.writes, left |-> sess.left]
       /\ sess.checks \in Nat
       /\ sess.pc = "check" => sess.next \in 1 .. sess.checks
       /\ \A i \in DOMAIN record : record[i] = "applied" => Verified(i) \/ BeingVerified(i)
       /\ \A i \in DOMAIN record : record[i] = "done" => i = Len(record) /\ sess.pc = "close"
  /\ OkVouches

\* A record that gets one more entry.
LEMMA Grows ==
  ASSUME record \in Seq(Recorded), NEW e \in Recorded, Add(e)
  PROVE  /\ record' \in Seq(Recorded) /\ Len(record') = Len(record) + 1
         /\ DOMAIN record = 1 .. Len(record) /\ DOMAIN record' = 1 .. Len(record) + 1
         /\ \A i \in DOMAIN record : i \in DOMAIN record' /\ record'[i] = record[i]
         /\ record'[Len(record) + 1] = e
         /\ Len(record) \in Nat
BY DEF Add

\* It holds before the session.
LEMMA SessionInvInit == SessionInit => SessionInv
BY DEF SessionInit, Off, SessionInv, Live, OkVouches

\* Every step of the session and of those who edit beside it keeps it.
LEMMA SessionInvStep == SessionInv /\ [SessionNext]_sessionVars => SessionInv'
<1> SUFFICES ASSUME SessionInv, [SessionNext]_sessionVars PROVE SessionInv'
  OBVIOUS
<1> USE DEF SessionInv, Live
\* A step that records nothing and leaves the session in no check.
<1>1. ASSUME UNCHANGED record, sess.pc \in {"plan", "edit"}, sess'.pc \in {"plan", "edit", "close"},
             sess' = [pc |-> sess'.pc, checks |-> sess.checks, next |-> sess'.next,
                      writes |-> sess.writes, left |-> sess'.left]
      PROVE  SessionInv'
  <2>1. sess'.checks = sess.checks /\ ~ sess'.pc \in {"off", "check", "ended"}
    BY <1>1
  <2>2. \A i \in DOMAIN record : Verified(i) => Verified(i)'
    BY <1>1, <2>1 DEF Verified
  <2>3. \A i \in DOMAIN record : ~ BeingVerified(i)
    BY <1>1 DEF BeingVerified
  <2> QED BY <1>1, <2>1, <2>2, <2>3 DEF OkVouches
\* A step that records anything but an applied edit, outside a verification.
<1>2. ASSUME NEW e \in Recorded \ {"applied"}, Add(e), sess.pc \in {"plan", "edit"},
             sess'.pc \in {"plan", "close"}, e = "done" => sess'.pc = "close",
             sess' = [pc |-> sess'.pc, checks |-> sess.checks, next |-> sess'.next,
                      writes |-> sess.writes, left |-> sess'.left]
      PROVE  SessionInv'
  <2>1. sess'.checks = sess.checks /\ ~ sess'.pc \in {"off", "check", "ended"}
    BY <1>2
  <2>2. \A i \in DOMAIN record : Verified(i) => Verified(i)'
    BY <1>2, <2>1, Grows DEF Verified
  <2>3. \A i \in DOMAIN record : ~ BeingVerified(i)
    BY <1>2 DEF BeingVerified
  <2>4. \A i \in DOMAIN record' : record'[i] = "applied" => Verified(i)'
    BY <1>2, <2>2, <2>3, Grows
  <2>5. \A i \in DOMAIN record' : record'[i] = "done" => i = Len(record') /\ sess'.pc = "close"
    BY <1>2, Grows
  <2> QED BY <1>2, <2>1, <2>4, <2>5, Grows DEF OkVouches
<1>3. CASE UNCHANGED sessionVars \/ Others
  <2>1. UNCHANGED <<sess, record>>
    BY <1>3 DEF sessionVars, Others
  <2> QED BY <2>1 DEF OkVouches, Verified, BeingVerified
<1>4. CASE Begin
  <2>1. sess'.pc = "plan" /\ record' = <<>> /\ sess'.checks \in Nat
    BY <1>4, SessionBounds DEF Begin
  <2> QED BY <1>4, <2>1 DEF Begin, OkVouches
<1>5. CASE PlannerDone
  <2>1. Add("done") /\ sess' = [sess EXCEPT !.pc = "close"] /\ sess.pc = "plan"
    BY <1>5 DEF PlannerDone
  <2> QED BY <1>2, <2>1 DEF Recorded
<1>6. CASE OutOfSteps
  BY <1>1, <1>6 DEF OutOfSteps
<1>7. CASE RunStep
  <2>1. PICK response \in Responses : Add(RunStatus(response))
    BY <1>7 DEF RunStep
  <2>2. RunStatus(response) \in Recorded \ {"applied", "done"}
    BY DEF RunStatus, Recorded
  <2>3. sess' = [sess EXCEPT !.left = sess.left - 1] /\ sess.pc = "plan"
    BY <1>7 DEF RunStep
  <2> QED BY <1>2, <2>1, <2>2, <2>3
<1>8. CASE BeginEdit
  <2>1. /\ sess' = [sess EXCEPT !.left = sess.left - 1, !.pc = "edit"] /\ sess.pc = "plan"
        /\ UNCHANGED record
    BY <1>8 DEF BeginEdit
  <2> QED BY <1>1, <2>1
<1>9. CASE EditRejected \/ EditPreviewed
  <2>1. PICK e \in {"rejected", "preview"} : Add(e)
    BY <1>9 DEF EditRejected, EditPreviewed
  <2>2. sess' = [sess EXCEPT !.pc = "plan"] /\ sess.pc = "edit"
    BY <1>9 DEF EditRejected, EditPreviewed
  <2> QED BY <1>2, <2>1, <2>2 DEF Recorded
<1>10. CASE EditFails
  BY <1>10 DEF EditFails, OkVouches
<1>11. CASE EditWrites
  <2>1. UNCHANGED <<sess, record>>
    BY <1>11 DEF EditWrites
  <2> QED BY <2>1 DEF OkVouches, Verified, BeingVerified
\* The first or the next check, or the verification is over.
<1>12. ASSUME NEW e \in {"applied", "green", "red", "unknown"}, Add(e),
              NEW k \in Nat \ {0}, k - 1 <= sess.checks, sess' = NextCheck(k),
              Live, sess.pc # "close",
              e = "applied" => sess.pc = "edit" /\ k = 1,
              e # "applied" => sess.pc = "check" /\ k = sess.next + 1
       PROVE  SessionInv'
  <2>1. /\ sess'.checks = sess.checks /\ sess'.pc \in {"plan", "check"}
        /\ sess'.pc = "check" => sess'.next = k /\ k <= sess.checks
        /\ sess'.pc # "check" => k = sess.checks + 1
        /\ sess' = [pc |-> sess'.pc, checks |-> sess'.checks, next |-> sess'.next,
                    writes |-> sess'.writes, left |-> sess'.left]
    <3>1. /\ sess = [pc |-> sess.pc, checks |-> sess.checks, next |-> sess.next,
                      writes |-> sess.writes, left |-> sess.left]
          /\ sess.checks \in Nat /\ sess' = NextCheck(k)
      BY <1>12
    <3> HIDE DEF SessionInv, Live
    <3>2. CASE k > sess.checks
      <4>1. sess' = [pc |-> "plan", checks |-> sess.checks, next |-> 0,
                      writes |-> sess.writes, left |-> sess.left]
        BY <3>1, <3>2, Zenon DEF NextCheck
      <4> QED BY <1>12, <3>1, <3>2, <4>1
    <3>3. CASE ~ k > sess.checks
      <4>1. sess' = [pc |-> "check", checks |-> sess.checks, next |-> k,
                      writes |-> sess.writes, left |-> sess.left]
        BY <3>1, <3>3 DEF NextCheck
      <4> QED BY <1>12, <3>1, <3>3, <4>1
    <3> QED BY <3>2, <3>3
  <2>2. e \in Recorded
    BY DEF Recorded
  <2>3. \A i \in DOMAIN record : Verified(i) => Verified(i)'
    BY <1>12, <2>1, <2>2, Grows DEF Verified
  <2>4. /\ DOMAIN record = 1 .. Len(record) /\ Len(record) \in Nat
        /\ DOMAIN record' = 1 .. Len(record) + 1 /\ Len(record') = Len(record) + 1
        /\ \A i \in DOMAIN record : record'[i] = record[i]
        /\ record'[Len(record) + 1] = e
    BY <1>12, <2>2, Grows
  <2>5. ASSUME NEW i \in DOMAIN record, BeingVerified(i) PROVE Verified(i)' \/ BeingVerified(i)'
    <3>1. /\ sess.pc = "check" /\ k = sess.next + 1 /\ i + sess.next = Len(record) + 1
          /\ e \in {"green", "red", "unknown"} /\ sess.next \in Nat /\ sess.checks \in Nat
      BY <1>12, <2>5 DEF BeingVerified
    <3> HIDE DEF SessionInv, Live
    <3>2. i + (k - 1) = Len(record') /\ i \in Nat
      BY <2>4, <3>1
    <3>3. \A j \in 1 .. k - 1 : i + j \in DOMAIN record' /\ record'[i + j] \in {"green", "red", "unknown"}
      <4> TAKE j \in 1 .. k - 1
      <4>1. CASE j = k - 1
        <5>1. i + j = Len(record) + 1
          BY <2>4, <3>2, <4>1
        <5> QED BY <2>4, <3>1, <5>1
      <4>2. CASE j # k - 1
        <5>1. j \in 1 .. sess.next - 1 /\ i + j \in 1 .. Len(record)
          <6>1. j \in 1 .. sess.next - 1
            BY <3>1, <4>2
          <6>2. i \in Nat \ {0} /\ i + sess.next = Len(record) + 1 /\ Len(record) \in Nat
            BY <2>4, <2>5, <3>1
          <6>3. PICK next \in Nat : next = sess.next
            BY <3>1
          <6>4. PICK last \in Nat : last = Len(record)
            BY <2>4
          <6>5. i + j \in 1 .. last
            BY <6>1, <6>2, <6>3, <6>4
          <6> QED BY <6>1, <6>4, <6>5
        <5>2. record[i + j] \in {"green", "red", "unknown"}
          BY <2>5, <5>1 DEF BeingVerified
        <5> QED BY <2>4, <5>1, <5>2
      <4> QED BY <4>1, <4>2
    <3>4. CASE sess'.pc = "check"
      BY <2>1, <2>4, <3>2, <3>3, <3>4 DEF BeingVerified
    <3>5. CASE sess'.pc # "check"
      BY <2>1, <3>1, <3>3, <3>5 DEF Verified
    <3> QED BY <3>4, <3>5
  <2>6. ASSUME NEW i, i = Len(record) + 1, e = "applied" PROVE Verified(i)' \/ BeingVerified(i)'
    <3>1. k = 1 /\ sess.checks \in Nat
      BY <1>12, <2>6
    <3> HIDE DEF SessionInv, Live
    <3>2. CASE sess'.pc = "check"
      BY <2>1, <2>4, <2>6, <3>1, <3>2 DEF BeingVerified
    <3>3. CASE sess'.pc # "check"
      BY <2>1, <3>1, <3>3 DEF Verified
    <3> QED BY <3>2, <3>3
  <2>7. \A i \in DOMAIN record' : record'[i] = "applied" => Verified(i)' \/ BeingVerified(i)'
    <3> TAKE i \in DOMAIN record'
    <3>1. \A n \in DOMAIN record : record[n] = "applied" => Verified(n) \/ BeingVerified(n)
      BY <1>12
    <3> HIDE DEF SessionInv, Live
    <3>2. CASE i \in DOMAIN record
      BY <2>3, <2>4, <2>5, <3>1, <3>2
    <3>3. CASE i = Len(record) + 1
      BY <2>4, <2>6, <3>3
    <3> QED BY <2>4, <3>2, <3>3
  <2>8. \A i \in DOMAIN record' : record'[i] # "done"
    BY <1>12, <2>4
  <2> QED BY <1>12, <2>1, <2>2, <2>7, <2>8, Grows DEF OkVouches
<1>13. CASE EditApplied
  BY <1>12, <1>13 DEF EditApplied
<1>14. CASE Check
  <2>1. PICK response \in Responses : Add(Verdict(response))
    BY <1>14 DEF Check
  <2>2. Verdict(response) \in {"green", "red", "unknown"}
    BY DEF Verdict
  <2>3. sess.pc = "check" /\ sess' = NextCheck(sess.next + 1)
    BY <1>14 DEF Check
  <2> QED BY <1>12, <2>1, <2>2, <2>3
<1>15. CASE End
  <2>1. /\ sess' = [pc |-> "ended", checks |-> sess.checks, reason |-> Reason, ok |-> Reason = ""]
        /\ UNCHANGED record /\ sess.pc = "close"
    BY <1>15 DEF End
  <2>2. ASSUME Reason = "" PROVE OkVouches'
    <3>1. ~ Seen({"red"}) /\ ~ Seen({"unknown"}) /\ Seen({"done"})
      BY <2>2, Zenon DEF Reason
    <3>2. \A i \in DOMAIN record : record[i] \notin {"red", "unknown"}
      BY <3>1 DEF Seen, ToSet
    <3>3. PICK i \in DOMAIN record : record[i] = "done"
      BY <3>1 DEF Seen, ToSet
    <3>4. Last(record) = "done"
      BY <2>1, <3>3 DEF Last
    <3>5. \A j \in DOMAIN record : record[j] = "applied" => Verified(j)
      <4>1. \A j \in DOMAIN record : ~ BeingVerified(j)
        BY <2>1 DEF BeingVerified
      <4> QED BY <2>1, <4>1
    <3>6. record' = record /\ sess'.checks = sess.checks
      BY <2>1
    <3> HIDE DEF SessionInv, Live
    <3> QED BY <3>2, <3>4, <3>5, <3>6 DEF OkVouches, Verified
  <2>3. ASSUME Reason # "" PROVE OkVouches'
    BY <2>1, <2>3 DEF OkVouches
  <2> QED BY <2>1, <2>2, <2>3
<1>16. CASE Dies
  <2>1. CASE Away
    <3>1. UNCHANGED <<sess, record>>
      BY <1>16, <2>1 DEF Dies
    <3> QED BY <3>1 DEF OkVouches, Verified, BeingVerified
  <2>2. CASE ~ Away
    BY <1>16, <2>2 DEF Dies, OkVouches
  <2> QED BY <2>1, <2>2
<1> QED BY <1>3, <1>4, <1>5, <1>6, <1>7, <1>8, <1>9, <1>10, <1>11, <1>13, <1>14, <1>15, <1>16 DEF SessionNext

(* A session that ends ok had every check of the project run, and green,   *)
(* right after each edit that reached the disk, whatever the gateway       *)
(* answers and however often the planner goes on (OkVouches).              *)
THEOREM OkVouchesHolds == SessionSpec => []OkVouches
<1>1. SessionInv /\ [SessionNext]_sessionVars => SessionInv'
  BY SessionInvStep
<1>2. SessionInv => OkVouches
  BY DEF SessionInv
<1> QED BY <1>1, <1>2, SessionInvInit, PTL DEF SessionSpec

-----------------------------------------------------------------------------
(* A rollback gives every edited file back.                                *)

\* The entries that a rollback from entry j of the index es reaches before it
\* meets a missing snapshot.
Reach(es, j) == {n \in 1 .. j : \A m \in n .. j : <<m, es[m]>> \in DOMAIN snaps}

\* A rollback that has come down to entry j gives back every file of the index:
\* the oldest snapshot of a file that it will reach holds the original, and a
\* file it will not come to is the original.
GivesBack(es, j) ==
  /\ \A f \in ToSet(es) : (\A n \in Reach(es, j) : es[n] # f) => file[f] = original[f]
  /\ \A n \in Reach(es, j) :
       (\A k \in Reach(es, j) : es[k] = es[n] => n <= k) => snaps[<<n, es[n]>>] = original[es[n]]

\* Where the rollback under way is, or one that is started now would begin.
From == IF RollingBack THEN job.left ELSE Len(Entries)

\* What the place of a job says of the index, the snapshots and the files.
JobInv ==
  /\ job.pc \in {"idle", "rejected", "done", "planned", "truncate_index", "save_index",
                 "truncate_file", "write_file", "restore", "fill", "unlink"}
  /\ job.pc \in {"planned", "truncate_index", "save_index", "truncate_file", "write_file"} =>
       job.file \in Files
  /\ job.pc = "truncate_index" =>
       /\ ~log.torn
       /\ <<Len(Entries) + 1, job.file>> \in DOMAIN snaps
       /\ snaps[<<Len(Entries) + 1, job.file>>] = file[job.file]
  /\ job.pc = "save_index" =>
       /\ log.torn
       /\ Front(job.entries) \in Seq(Files) /\ job.entries = Append(Front(job.entries), job.file)
       /\ <<Len(job.entries), job.file>> \in DOMAIN snaps
       /\ snaps[<<Len(job.entries), job.file>>] = file[job.file]
  /\ job.pc \in {"truncate_file", "write_file"} =>
       /\ job = [pc |-> job.pc, file |-> job.file, new |-> job.new]
       /\ ~log.torn /\ Entries # <<>> /\ Entries[Len(Entries)] = job.file
       /\ There(Len(Entries))
  /\ RollingBack =>
       /\ job = [pc |-> job.pc, left |-> job.left]
       /\ ~log.torn /\ job.left \in 0 .. Len(Entries)
       /\ job.left < Len(Entries) => ~There(Len(Entries))
  /\ job.pc \in {"fill", "unlink"} => job.left > 0 /\ There(job.left)
  /\ job.pc = "unlink" => file[Entries[job.left]] = snaps[Snap(job.left)]

\* Files and their originals by name, and an index that is torn or a list of files.
PatchTypes ==
  /\ DOMAIN file = Files /\ DOMAIN original = Files
  /\ log = Torn \/ (log = Saved(Entries) /\ Entries \in Seq(Files))

\* Why a rollback gives everything back: it could do so at every moment, also
\* while one is under way and while the index is being rewritten.
PatchInv ==
  /\ PatchTypes
  /\ JobInv
  /\ ~interrupted =>
       /\ ~log.torn => GivesBack(Entries, From)
       /\ job.pc = "save_index" => GivesBack(Front(job.entries), Len(Front(job.entries)))

\* A step that leaves the snapshots of the index alone, and all files but the one
\* that is given back first.
LEMMA SameBack ==
  ASSUME NEW es \in Seq(Files), NEW j \in 0 .. Len(es), GivesBack(es, j),
         UNCHANGED original,
         \A n \in 1 .. Len(es) : <<n, es[n]>> \in DOMAIN snaps' <=> <<n, es[n]>> \in DOMAIN snaps,
         \A n \in 1 .. Len(es) : <<n, es[n]>> \in DOMAIN snaps =>
                                 snaps'[<<n, es[n]>>] = snaps[<<n, es[n]>>],
         \A f \in Files : file'[f] = file[f] \/ (j > 0 /\ es[j] = f /\ <<j, es[j]>> \in DOMAIN snaps)
  PROVE  GivesBack(es, j)'
<1>1. Reach(es, j)' = Reach(es, j)
  BY DEF Reach
<1>2. Reach(es, j) \subseteq 1 .. Len(es) /\ \A n \in Reach(es, j) : <<n, es[n]>> \in DOMAIN snaps
  BY DEF Reach
<1>3. ToSet(es) \subseteq Files
  BY DEF ToSet
<1>4. j > 0 /\ <<j, es[j]>> \in DOMAIN snaps => j \in Reach(es, j)
  BY DEF Reach
<1> QED BY <1>1, <1>2, <1>3, <1>4 DEF GivesBack

\* A new entry, whose snapshot is the file as it is now.
LEMMA LongerBack ==
  ASSUME NEW es \in Seq(Files), NEW f \in Files, GivesBack(es, Len(es)),
         <<Len(es) + 1, f>> \in DOMAIN snaps, snaps[<<Len(es) + 1, f>>] = file[f],
         UNCHANGED <<snaps, file>>, f \in DOMAIN original,
         original' = IF Contains(es, f) THEN original ELSE [original EXCEPT ![f] = file[f]]
  PROVE  \A more : more = Append(es, f) => GivesBack(more, Len(more))'
<1> SUFFICES ASSUME NEW more, more = Append(es, f) PROVE GivesBack(more, Len(more))'
  OBVIOUS
<1>1. /\ Len(more) = Len(es) + 1 /\ Len(es) \in Nat /\ more[Len(es) + 1] = f
      /\ \A n \in 1 .. Len(es) : more[n] = es[n]
      /\ DOMAIN more = 1 .. Len(es) + 1 /\ DOMAIN es = 1 .. Len(es)
  OBVIOUS
<1>2. Reach(more, Len(more))' = Reach(es, Len(es)) \cup {Len(es) + 1}
  <2>1. \A n \in 1 .. Len(es) : /\ \A m \in n .. Len(es) : m \in 1 .. Len(es)
                               /\ n .. Len(more) = (n .. Len(es)) \cup {Len(es) + 1}
    BY <1>1
  <2>2. \A n \in 1 .. Len(es) : n \in Reach(more, Len(more))' <=> n \in Reach(es, Len(es))
    BY <1>1, <2>1 DEF Reach
  <2>3. Len(es) + 1 \in Reach(more, Len(more))'
    BY <1>1 DEF Reach
  <2> QED BY <1>1, <2>2, <2>3 DEF Reach
<1>3. Reach(es, Len(es)) \subseteq 1 .. Len(es)
  BY DEF Reach
<1>4. Contains(es, f) <=> f \in ToSet(es)
  BY <1>1 DEF Contains, ToSet
<1>5. ToSet(more) = ToSet(es) \cup {f}
  BY <1>1 DEF ToSet
<1>6. \A g \in ToSet(es) : original'[g] = original[g]
  BY <1>4
<1>7. ASSUME NEW g \in ToSet(more), \A n \in Reach(more, Len(more))' : more[n] # g
      PROVE  file'[g] = original'[g]
  <2>1. g # f /\ g \in ToSet(es) /\ \A n \in Reach(es, Len(es)) : es[n] # g
    BY <1>1, <1>2, <1>3, <1>5, <1>7
  <2> QED BY <1>6, <2>1 DEF GivesBack
<1>8. ASSUME NEW n \in Reach(more, Len(more))',
             \A k \in Reach(more, Len(more))' : more[k] = more[n] => n <= k
      PROVE  snaps'[<<n, more[n]>>] = original'[more[n]]
  <2>1. CASE n \in Reach(es, Len(es))
    <3>1. es[n] = more[n] /\ es[n] \in ToSet(es) /\ \A k \in Reach(es, Len(es)) : es[k] = es[n] => n <= k
      BY <1>1, <1>2, <1>3, <1>8, <2>1 DEF ToSet
    <3>2. snaps[<<n, es[n]>>] = original[es[n]]
      BY <2>1, <3>1 DEF GivesBack
    <3> QED BY <1>6, <3>1, <3>2
  <2>2. CASE n = Len(es) + 1
    <3>1. more[n] = f /\ \A k \in Reach(es, Len(es)) : es[k] # f
      BY <1>1, <1>2, <1>3, <1>8, <2>2
    <3>2. CASE f \in ToSet(es)
      BY <1>4, <2>2, <3>1, <3>2 DEF GivesBack
    <3>3. CASE f \notin ToSet(es)
      BY <1>4, <2>2, <3>1, <3>3
    <3> QED BY <3>2, <3>3
  <2> QED BY <1>2, <2>1, <2>2
<1> QED BY <1>7, <1>8 DEF GivesBack

\* An entry whose file has been filled again loses its snapshot.
LEMMA ShorterBack ==
  ASSUME NEW es \in Seq(Files), NEW j \in 1 .. Len(es), GivesBack(es, j),
         <<j, es[j]>> \in DOMAIN snaps, file[es[j]] = snaps[<<j, es[j]>>],
         UNCHANGED <<file, original>>,
         snaps' = Restrict(snaps, DOMAIN snaps \ {<<j, es[j]>>})
  PROVE  GivesBack(es, j - 1)'
<1>1. /\ DOMAIN snaps' = DOMAIN snaps \ {<<j, es[j]>>}
      /\ \A x \in DOMAIN snaps' : snaps'[x] = snaps[x]
  BY DEF Restrict
<1>2. \A n \in 1 .. j - 1 : <<n, es[n]>> # <<j, es[j]>>
  OBVIOUS
<1>3. \A n \in 1 .. j - 1 : <<n, es[n]>> \in DOMAIN snaps' <=> <<n, es[n]>> \in DOMAIN snaps
  BY <1>1, <1>2
<1>4. Reach(es, j) = Reach(es, j - 1)' \cup {j} /\ Reach(es, j - 1)' \subseteq 1 .. j - 1
  <2>1. j \in Nat \ {0}
    OBVIOUS
  <2>2. ASSUME NEW n \in 1 .. j - 1 PROVE n \in Reach(es, j) <=> n \in Reach(es, j - 1)'
    <3>1. \A m : m \in n .. j <=> m \in n .. j - 1 \/ m = j
      BY <2>1
    <3>2. \A m \in n .. j - 1 : m \in 1 .. j - 1
      BY <2>1
    <3>3. n \in 1 .. j
      BY <2>1
    <3>4. n \in Reach(es, j) <=> \A m \in n .. j : <<m, es[m]>> \in DOMAIN snaps
      BY <3>3 DEF Reach
    <3>5. n \in Reach(es, j - 1)' <=> \A m \in n .. j - 1 : <<m, es[m]>> \in DOMAIN snaps'
      BY DEF Reach
    <3> QED BY <1>3, <3>1, <3>2, <3>4, <3>5
  <2>3. j \in Reach(es, j)
    BY <2>1 DEF Reach
  <2>4. Reach(es, j) \subseteq 1 .. j /\ Reach(es, j - 1)' \subseteq 1 .. j - 1
    BY DEF Reach
  <2>5. \A n \in 1 .. j : n \in 1 .. j - 1 \/ n = j
    BY <2>1
  <2> QED BY <2>2, <2>3, <2>4, <2>5
<1>5. \A n \in Reach(es, j - 1)' : <<n, es[n]>> \in DOMAIN snaps'
  <2>1. j \in Nat \ {0} /\ \A n \in 1 .. j - 1 : n \in n .. j - 1
    OBVIOUS
  <2> QED BY <2>1 DEF Reach
<1>6. ASSUME NEW f \in ToSet(es), \A n \in Reach(es, j - 1)' : es[n] # f
      PROVE  file'[f] = original'[f]
  <2>1. CASE es[j] = f
    <3>1. \A k \in Reach(es, j) : es[k] = es[j] => j <= k
      BY <1>4, <1>6, <2>1
    <3> QED BY <1>4, <2>1, <3>1 DEF GivesBack
  <2>2. CASE es[j] # f
    BY <1>4, <1>6, <2>2 DEF GivesBack
  <2> QED BY <2>1, <2>2
<1>7. ASSUME NEW n \in Reach(es, j - 1)', \A k \in Reach(es, j - 1)' : es[k] = es[n] => n <= k
      PROVE  snaps'[<<n, es[n]>>] = original'[es[n]]
  <2>1. n \in Reach(es, j) /\ \A k \in Reach(es, j) : es[k] = es[n] => n <= k
    BY <1>4, <1>7
  <2>2. snaps'[<<n, es[n]>>] = snaps[<<n, es[n]>>]
    BY <1>1, <1>5
  <2> QED BY <2>1, <2>2 DEF GivesBack
<1> QED BY <1>6, <1>7 DEF GivesBack

\* A rollback that reaches nothing any more has given everything back.
LEMMA AllBack ==
  ASSUME NEW es, NEW j, NEW k, GivesBack(es, j), Reach(es, j) = {}, Reach(es, k)' = {},
         UNCHANGED <<file, original>>
  PROVE  GivesBack(es, k)'
BY DEF GivesBack

\* An index without its newest entry.
LEMMA FrontOfAppend ==
  ASSUME NEW S, NEW es \in Seq(S), NEW x \in S
  PROVE  Front(Append(es, x)) = es
<1>1. Len(Append(es, x)) = Len(es) + 1 /\ Len(es) \in Nat /\ Append(es, x) \in Seq(S)
  OBVIOUS
<1>2. /\ Len(Front(Append(es, x))) = Len(es) /\ Front(Append(es, x)) \in Seq(S)
      /\ \A n \in 1 .. Len(es) : Front(Append(es, x))[n] = es[n]
  BY <1>1 DEF Front
<1> QED BY <1>2

\* What the session and everyone else may do to the files.
PatchMove ==
  \/ StartDifference \/ StartReplacement \/ Preview \/ SnapshotFails \/ EditStep
  \/ StartRollback \/ RollbackStep \/ Crash
  \/ UNCHANGED patchVars

\* A step of the session is one of them.
LEMMA PatchMoves == [SessionNext]_sessionVars => PatchMove
BY DEF SessionNext, sessionVars, PatchMove, Begin, PlannerDone, OutOfSteps, RunStep, BeginEdit, EditRejected,
       EditPreviewed, EditFails, EditWrites, EditApplied, Check, End, Others, Dies

\* It holds when nothing has been edited.
LEMMA PatchInvInit == SessionInit => PatchInv
<1> SUFFICES ASSUME PatchInit PROVE PatchInv
  BY DEF SessionInit
<1>1. log = Saved(<<>>) /\ Entries = <<>> /\ job = [pc |-> "idle"] /\ file = original /\ DOMAIN file = Files
  BY DEF PatchInit, Saved, Entries, NoJob
<1>2. PatchTypes
  BY <1>1 DEF PatchTypes
<1>3. JobInv
  BY <1>1 DEF JobInv, RollingBack
<1>4. GivesBack(Entries, From)
  BY <1>1 DEF GivesBack, From, RollingBack, Reach
<1> QED BY <1>1, <1>2, <1>3, <1>4 DEF PatchInv

\* An edit that computes, fails or is previewed has touched nothing.
LEMMA OnlyTheJob ==
  ASSUME PatchInv, UNCHANGED <<file, snaps, log, original, interrupted>>,
         ~RollingBack, job.pc # "save_index", job'.pc \in {"idle", "rejected", "planned"},
         job'.pc = "planned" => job'.file \in Files
  PROVE  PatchInv'
<1>1. PatchTypes'
  BY DEF PatchInv, PatchTypes, Entries
<1>2. JobInv'
  BY DEF JobInv, RollingBack
<1>3. ~interrupted' /\ ~log'.torn => GivesBack(Entries, From)'
  <2>1. Entries' = Entries /\ From' = Len(Entries) /\ From = Len(Entries)
    BY DEF Entries, From, RollingBack
  <2> QED BY <2>1 DEF PatchInv, GivesBack, Reach
<1> QED BY <1>1, <1>2, <1>3 DEF PatchInv

\* Every step of an edit, of a rollback and of a crash keeps it.
LEMMA PatchInvStep == PatchInv /\ PatchMove => PatchInv'
<1> SUFFICES ASSUME PatchInv, PatchMove PROVE PatchInv'
  OBVIOUS
<1>0. /\ PatchTypes /\ JobInv
      /\ ~interrupted /\ ~log.torn => GivesBack(Entries, From)
      /\ log.torn => log = Torn
      /\ ~log.torn => log = Saved(Entries) /\ Entries \in Seq(Files)
  BY DEF PatchInv, PatchTypes, Torn, Saved
<1>1. CASE StartDifference \/ StartReplacement
  <2>1. PICK f \in Files : \E new, ok, script : Plan(f, new, ok, script)
    BY <1>1 DEF StartDifference, StartReplacement, ApplyDifference, ReplaceAnchor
  <2>2. job'.pc \in {"planned", "rejected"} /\ job'.file = f
    BY <2>1 DEF Plan
  <2> QED BY <1>1, <2>2, OnlyTheJob DEF StartDifference, StartReplacement, Quiet, RollingBack
<1>2. CASE Preview \/ SnapshotFails
  BY <1>2, OnlyTheJob DEF Preview, SnapshotFails, NoJob, RollingBack
<1>3. CASE TakeSnapshot
  <2> DEFINE n == Len(Entries) + 1
  <2>1. /\ ~log.torn /\ job.pc = "planned" /\ job.file \in Files
        /\ Entries \in Seq(Files)
        /\ job' = [pc |-> "truncate_index", file |-> job.file, new |-> job.new]
        /\ UNCHANGED <<file, log, original, interrupted>> /\ Entries' = Entries
    BY <1>0, <1>3 DEF TakeSnapshot, JobInv, Entries
  <2>2. /\ DOMAIN snaps' = DOMAIN snaps \cup {<<n, job.file>>}
        /\ snaps'[<<n, job.file>>] = file[job.file]
        /\ \A x \in DOMAIN snaps : x # <<n, job.file>> => snaps'[x] = snaps[x]
    BY <1>3 DEF TakeSnapshot, Snapshot
  <2>3. JobInv'
    BY <2>1, <2>2 DEF JobInv, RollingBack
  <2>4. PatchTypes'
    BY <1>0, <2>1 DEF PatchTypes
  <2>5. ~interrupted => GivesBack(Entries, From)'
    <3>1. From = Len(Entries) /\ From' = Len(Entries) /\ Len(Entries) \in 0 .. Len(Entries)
      BY <2>1 DEF From, RollingBack
    <3>2. \A k \in 1 .. Len(Entries) : <<k, Entries[k]>> # <<n, job.file>>
      BY <2>1
    <3>3. PICK es \in Seq(Files) : es = Entries
      BY <2>1
    <3>4. ~interrupted => GivesBack(es, Len(es))'
      BY <1>0, <2>1, <2>2, <3>1, <3>2, <3>3, SameBack
    <3> QED BY <2>1, <3>1, <3>3, <3>4 DEF GivesBack, Reach
  <2> QED BY <2>1, <2>3, <2>4, <2>5 DEF PatchInv
<1>4. CASE TruncateIndex
  <2>1. /\ ~log.torn /\ job.pc = "truncate_index" /\ job.file \in Files /\ Entries \in Seq(Files)
        /\ job' = [pc |-> "save_index", file |-> job.file, new |-> job.new,
                   entries |-> Append(Entries, job.file)]
        /\ log' = Torn /\ UNCHANGED <<file, snaps, original, interrupted>>
    BY <1>0, <1>4 DEF TruncateIndex, JobInv
  <2>2. Front(job'.entries) = Entries /\ Len(job'.entries) = Len(Entries) + 1
    BY <2>1, FrontOfAppend
  <2>3. JobInv'
    BY <1>0, <2>1, <2>2 DEF JobInv, RollingBack, Torn
  <2>4. PatchTypes'
    BY <1>0, <2>1 DEF PatchTypes
  <2>5. ~interrupted => GivesBack(Front(job.entries), Len(Front(job.entries)))'
    <3>1. From = Len(Entries)
      BY <2>1 DEF From, RollingBack
    <3>2. Front(job.entries)' = Entries
      BY <2>2 DEF Front
    <3>3. PICK es \in Seq(Files) : es = Entries
      BY <2>1
    <3>4. ~interrupted => GivesBack(es, Len(es))'
      BY <1>0, <2>1, <3>1, <3>3 DEF GivesBack, Reach
    <3> QED BY <3>2, <3>3, <3>4 DEF GivesBack, Reach
  <2> QED BY <2>1, <2>3, <2>4, <2>5 DEF PatchInv, Torn
<1>5. CASE SaveIndex
  <2> DEFINE es == Front(job.entries)
  <2>1. /\ log.torn /\ job.pc = "save_index" /\ job.file \in Files /\ es \in Seq(Files)
        /\ job.entries = Append(es, job.file) /\ job.entries \in Seq(Files)
        /\ Len(job.entries) = Len(es) + 1 /\ Len(es) \in Nat
        /\ job' = [pc |-> "truncate_file", file |-> job.file, new |-> job.new]
        /\ log' = Saved(job.entries) /\ UNCHANGED <<file, snaps, interrupted>>
        /\ original' = IF Contains(es, job.file) THEN original
                       ELSE [original EXCEPT ![job.file] = file[job.file]]
        /\ <<Len(es) + 1, job.file>> \in DOMAIN snaps
        /\ snaps[<<Len(es) + 1, job.file>>] = file[job.file]
    <3>1. /\ log.torn /\ job.pc = "save_index" /\ job.file \in Files /\ es \in Seq(Files)
          /\ job.entries = Append(es, job.file)
          /\ <<Len(job.entries), job.file>> \in DOMAIN snaps
          /\ snaps[<<Len(job.entries), job.file>>] = file[job.file]
      BY <1>0, <1>5 DEF SaveIndex, JobInv
    <3>2. /\ job' = [pc |-> "truncate_file", file |-> job.file, new |-> job.new]
          /\ log' = Saved(job.entries) /\ UNCHANGED <<file, snaps, interrupted>>
          /\ original' = IF Contains(es, job.file) THEN original
                         ELSE [original EXCEPT ![job.file] = file[job.file]]
      BY <1>5 DEF SaveIndex
    <3>3. job.entries \in Seq(Files) /\ Len(job.entries) = Len(es) + 1 /\ Len(es) \in Nat
      <4> HIDE DEF es
      <4> QED BY <3>1
    <3> QED BY <3>1, <3>2, <3>3
  <2>2. Entries' = job.entries /\ ~log'.torn
    BY <2>1 DEF Saved, Entries
  <2>3. /\ Entries'[Len(Entries')] = job.file /\ Entries' # <<>> /\ Len(Entries') = Len(es) + 1
    BY <2>1, <2>2
  <2>4. JobInv'
    BY <2>1, <2>2, <2>3 DEF JobInv, RollingBack, There, Snap
  <2>5. PatchTypes'
    BY <1>0, <2>1, <2>2 DEF PatchTypes
  <2>6. ~interrupted => GivesBack(Entries, From)'
    <3>1. PICK before \in Seq(Files) : before = es
      BY <2>1
    <3>2. PICK more : more = Append(before, job.file)
      OBVIOUS
    <3>3. ~interrupted => GivesBack(before, Len(before))
      BY <2>1, <3>1 DEF PatchInv
    <3>4. ~interrupted => GivesBack(more, Len(more))'
      <4>1. PICK f \in Files : f = job.file
        BY <2>1
      <4> HIDE DEF es
      <4> QED BY <1>0, <2>1, <3>1, <3>2, <3>3, <4>1, LongerBack DEF PatchTypes
    <3>5. Entries' = more /\ From' = Len(Entries')
      BY <2>1, <2>2, <3>1, <3>2 DEF From, RollingBack
    <3> QED BY <3>4, <3>5 DEF GivesBack, Reach
  <2> QED BY <2>1, <2>4, <2>5, <2>6 DEF PatchInv
<1>6. CASE TruncateFile \/ WriteFile
  <2>1. /\ job.pc \in {"truncate_file", "write_file"} /\ job.file \in Files /\ ~log.torn
        /\ Entries \in Seq(Files) /\ Len(Entries) > 0
        /\ Entries[Len(Entries)] = job.file /\ There(Len(Entries))
        /\ UNCHANGED <<snaps, log, original, interrupted>> /\ Entries' = Entries
        /\ job = [pc |-> job.pc, file |-> job.file, new |-> job.new]
    BY <1>0, <1>6 DEF TruncateFile, WriteFile, JobInv, Entries
  <2>2. PICK x : file' = [file EXCEPT ![job.file] = x]
    BY <1>6 DEF TruncateFile, WriteFile
  <2>3. /\ job'.pc \in {"write_file", "done"}
        /\ job'.pc = "write_file" => job' = [pc |-> job'.pc, file |-> job.file, new |-> job.new]
    BY <1>6, <2>1 DEF TruncateFile, WriteFile
  <2>4. JobInv'
    <3>1. There(Len(Entries))'
      BY <2>1 DEF There, Snap
    <3>2. log'.torn = log.torn /\ Entries' # <<>>
      BY <2>1
    <3>3. job'.pc = "write_file" => job'.file = job.file
      BY <2>3
    <3> QED BY <2>1, <2>3, <3>1, <3>2, <3>3 DEF JobInv, RollingBack
  <2>5. PatchTypes'
    BY <1>0, <2>1, <2>2 DEF PatchTypes
  <2>6. ~interrupted => GivesBack(Entries, From)'
    <3>1. From = Len(Entries) /\ From' = Len(Entries) /\ Len(Entries) \in 0 .. Len(Entries)
      BY <2>1, <2>3 DEF From, RollingBack
    <3>2. PICK es \in Seq(Files) : es = Entries
      BY <2>1
    <3>3. \A f \in Files : file'[f] = file[f] \/ f = job.file
      BY <1>0, <2>2 DEF PatchTypes
    <3>4. ~interrupted => GivesBack(es, Len(es))'
      BY <1>0, <2>1, <3>1, <3>2, <3>3, SameBack DEF There, Snap
    <3> QED BY <2>1, <3>1, <3>2, <3>4 DEF GivesBack, Reach
  <2> QED BY <2>1, <2>3, <2>4, <2>5, <2>6 DEF PatchInv
<1>7. CASE StartRollback
  <2>1. /\ ~log.torn /\ job' = [pc |-> "restore", left |-> Len(Entries)] /\ ~RollingBack
        /\ Entries \in Seq(Files) /\ Entries' = Entries
        /\ UNCHANGED <<file, snaps, log, original, interrupted>>
    BY <1>0, <1>7 DEF StartRollback, Quiet, RollingBack, Entries
  <2>2. JobInv'
    BY <2>1 DEF JobInv, RollingBack
  <2>3. PatchTypes'
    BY <1>0, <2>1 DEF PatchTypes
  <2>4. From = Len(Entries) /\ From' = Len(Entries)
    BY <2>1 DEF From, RollingBack
  <2> QED BY <1>0, <2>1, <2>2, <2>3, <2>4 DEF PatchInv, GivesBack, Reach
<1>8. CASE StopRollback
  <2>1. /\ ~log.torn /\ job' = [pc |-> "idle"] /\ job.left \in 0 .. Len(Entries)
        /\ ~(job.left > 0 /\ There(job.left))
        /\ job.left < Len(Entries) => ~There(Len(Entries))
        /\ Entries \in Seq(Files) /\ Entries' = Entries
        /\ UNCHANGED <<file, snaps, log, original, interrupted>> /\ RollingBack
    BY <1>0, <1>8 DEF StopRollback, JobInv, RollingBack, Entries, NoJob
  <2>2. JobInv'
    BY <2>1 DEF JobInv, RollingBack
  <2>3. PatchTypes'
    BY <1>0, <2>1 DEF PatchTypes
  <2>4. From = job.left /\ From' = Len(Entries)
    BY <2>1 DEF From, RollingBack
  <2>5. Reach(Entries, job.left) = {} /\ Reach(Entries, Len(Entries)) = {}
    BY <2>1 DEF Reach, There, Snap
  <2> QED BY <1>0, <2>1, <2>2, <2>3, <2>4, <2>5 DEF PatchInv, GivesBack, Reach
<1>9. CASE RestoreFile \/ FillFile
  <2>1. /\ ~log.torn /\ job.pc \in {"restore", "fill"} /\ RollingBack
        /\ Entries \in Seq(Files) /\ Entries' = Entries
        /\ job = [pc |-> job.pc, left |-> job.left]
        /\ job.left \in 1 .. Len(Entries) /\ There(job.left)
        /\ job.left < Len(Entries) => ~There(Len(Entries))
        /\ UNCHANGED <<snaps, log, original, interrupted>>
    BY <1>0, <1>9 DEF RestoreFile, FillFile, JobInv, RollingBack, Entries
  <2>2. PICK x : /\ file' = [file EXCEPT ![Entries[job.left]] = x]
                 /\ job.pc = "fill" => x = snaps[Snap(job.left)]
    BY <1>9 DEF RestoreFile, FillFile
  <2>3. /\ job'.pc = IF job.pc = "restore" THEN "fill" ELSE "unlink"
        /\ job' = [pc |-> job'.pc, left |-> job.left]
    BY <1>9, <2>1 DEF RestoreFile, FillFile
  <2>4. Entries[job.left] \in Files
    BY <2>1
  <2>5. JobInv'
    <3>1. job.pc = "fill" => file'[Entries[job.left]] = snaps[Snap(job.left)]
      BY <1>0, <2>2, <2>4 DEF PatchTypes
    <3>2. There(job.left)' /\ Snap(job.left)' = Snap(job.left)
      BY <2>1, <2>3 DEF There, Snap
    <3>3. There(Len(Entries))' = There(Len(Entries))
      BY <2>1 DEF There, Snap
    <3> QED BY <2>1, <2>3, <3>1, <3>2, <3>3 DEF JobInv, RollingBack
  <2>6. PatchTypes'
    BY <1>0, <2>1, <2>2 DEF PatchTypes
  <2>7. ~interrupted => GivesBack(Entries, From)'
    <3>1. From = job.left /\ From' = job.left
      BY <2>1, <2>3 DEF From, RollingBack
    <3>2. PICK es \in Seq(Files) : es = Entries
      BY <2>1
    <3>3. PICK j \in 0 .. Len(es) : j = job.left
      BY <2>1, <3>2
    <3>4. \A f \in Files : file'[f] = file[f] \/ f = Entries[job.left]
      BY <1>0, <2>2 DEF PatchTypes
    <3>5. ~interrupted => GivesBack(es, j)'
      BY <1>0, <2>1, <3>1, <3>2, <3>3, <3>4, SameBack DEF There, Snap
    <3> QED BY <2>1, <3>1, <3>2, <3>3, <3>5 DEF GivesBack, Reach
  <2> QED BY <2>1, <2>3, <2>5, <2>6, <2>7 DEF PatchInv
<1>10. CASE UnlinkSnapshot
  <2>1. /\ ~log.torn /\ job.pc = "unlink" /\ RollingBack
        /\ Entries \in Seq(Files) /\ Entries' = Entries
        /\ job.left \in 1 .. Len(Entries) /\ There(job.left)
        /\ file[Entries[job.left]] = snaps[Snap(job.left)]
        /\ job.left < Len(Entries) => ~There(Len(Entries))
        /\ snaps' = Restrict(snaps, DOMAIN snaps \ {Snap(job.left)})
        /\ job' = [pc |-> "restore", left |-> job.left - 1]
        /\ UNCHANGED <<file, log, original, interrupted>>
    BY <1>0, <1>10 DEF UnlinkSnapshot, JobInv, RollingBack, Entries
  <2>2. JobInv'
    <3>1. DOMAIN snaps' = DOMAIN snaps \ {Snap(job.left)}
      BY <2>1 DEF Restrict
    <3>2. ~There(Len(Entries))'
      BY <2>1, <3>1 DEF There, Snap
    <3>3. job'.left \in 0 .. Len(Entries')
      BY <2>1
    <3> QED BY <2>1, <3>2, <3>3 DEF JobInv, RollingBack
  <2>3. PatchTypes'
    BY <1>0, <2>1 DEF PatchTypes
  <2>4. ~interrupted => GivesBack(Entries, From)'
    <3>1. From = job.left /\ From' = job.left - 1
      BY <2>1 DEF From, RollingBack
    <3>2. PICK es \in Seq(Files) : es = Entries
      BY <2>1
    <3>3. PICK j \in 1 .. Len(es) : j = job.left
      BY <2>1, <3>2
    <3>4. ~interrupted => GivesBack(es, j - 1)'
      BY <1>0, <2>1, <3>1, <3>2, <3>3, ShorterBack DEF There, Snap
    <3>5. Entries' = es /\ From' = j - 1
      BY <2>1, <3>1, <3>2, <3>3
    <3> QED BY <3>4, <3>5 DEF GivesBack, Reach
  <2> QED BY <2>1, <2>2, <2>3, <2>4 DEF PatchInv
<1>11. CASE Crash
  <2>1. /\ job' = [pc |-> "idle"] /\ Entries' = Entries
        /\ UNCHANGED <<file, snaps, log, original>>
        /\ ~interrupted' => ~interrupted
    BY <1>11 DEF Crash, Entries, NoJob
  <2>2. JobInv'
    BY <2>1 DEF JobInv, RollingBack
  <2>3. PatchTypes'
    BY <1>0, <2>1 DEF PatchTypes
  <2>4. From' = Len(Entries)
    BY <2>1 DEF From, RollingBack
  <2>5. ~interrupted' /\ ~log.torn => GivesBack(Entries, Len(Entries))
    <3> SUFFICES ASSUME ~interrupted', ~log.torn PROVE GivesBack(Entries, Len(Entries))
      OBVIOUS
    <3>1. CASE From = Len(Entries)
      BY <1>0, <2>1, <3>1
    <3>2. CASE From # Len(Entries)
      <4>1. /\ RollingBack /\ job.left \in 0 .. Len(Entries) /\ job.left < Len(Entries)
            /\ ~There(Len(Entries)) /\ From = job.left /\ Entries \in Seq(Files)
        BY <1>0, <3>2 DEF From, JobInv
      <4>2. \A n \in 1 .. job.left : ~There(n)
        BY <1>11, <4>1 DEF Crash
      <4>3. Reach(Entries, job.left) = {} /\ Reach(Entries, Len(Entries)) = {}
        <5>1. \A n \in 1 .. Len(Entries) : Len(Entries) \in n .. Len(Entries)
          BY <4>1
        <5>2. \A n \in 1 .. job.left : n \in n .. job.left
          BY <4>1
        <5> QED BY <4>1, <4>2, <5>1, <5>2 DEF Reach, There, Snap
      <4> QED BY <1>0, <2>1, <4>1, <4>3 DEF GivesBack
    <3> QED BY <3>1, <3>2
  <2> QED BY <2>1, <2>2, <2>3, <2>4, <2>5 DEF PatchInv, GivesBack, Reach
<1>12. CASE UNCHANGED patchVars
  <2>1. /\ UNCHANGED <<file, snaps, log, job, original, interrupted>>
        /\ Entries' = Entries /\ RollingBack' = RollingBack
    BY <1>12 DEF patchVars, Entries, RollingBack
  <2>2. From' = From
    BY <2>1 DEF From
  <2>3. JobInv'
    BY <1>0, <2>1 DEF JobInv, There, Snap
  <2>4. PatchTypes'
    BY <1>0, <2>1 DEF PatchTypes
  <2>5. ~interrupted' /\ ~log'.torn => GivesBack(Entries, From)'
    BY <1>0, <2>1, <2>2 DEF GivesBack, Reach
  <2>6. ~interrupted' /\ job'.pc = "save_index" =>
          GivesBack(Front(job.entries), Len(Front(job.entries)))'
    BY <2>1 DEF PatchInv, GivesBack, Reach
  <2> QED BY <2>3, <2>4, <2>5, <2>6 DEF PatchInv
<1> QED BY <1>1, <1>2, <1>3, <1>4, <1>5, <1>6, <1>7, <1>8, <1>9, <1>10, <1>11, <1>12
        DEF PatchMove, EditStep, RollbackStep

(* Whatever was edited, rolled back or cut short by a crash, a rollback    *)
(* gives every edited file back as it was before its first edit, for any   *)
(* files, differences and number of edits and crashes (Rollbackable).      *)
THEOREM RollbackGivesBack == SessionSpec => []Rollbackable
<1>1. PatchInv => Rollbackable
  <2> SUFFICES ASSUME PatchInv, ~log.torn, ~interrupted, ~RollingBack, NEW f \in ToSet(Entries)
               PROVE  RolledBack(f) = original[f]
    BY DEF Rollbackable
  <2> DEFINE mine == {n \in Reachable : Entries[n] = f}
  <2>1. GivesBack(Entries, Len(Entries)) /\ Entries \in Seq(Files)
    BY DEF PatchInv, PatchTypes, From, Torn
  <2>2. Reachable = Reach(Entries, Len(Entries)) /\ Reachable \subseteq Nat
    BY <2>1 DEF Reachable, Reach, There, Snap
  <2>3. CASE mine = {}
    BY <2>1, <2>2, <2>3 DEF RolledBack, GivesBack
  <2>4. CASE mine # {}
    <3>1. \E n \in mine : \A m \in mine : n <= m
      <4>1. PICK S \in SUBSET Nat : S = mine
        BY <2>2
      <4> QED BY <2>4, <4>1, LeastNat
    <3>2. Min(mine) \in mine /\ \A m \in mine : Min(mine) <= m
      <4> HIDE DEF mine
      <4> QED BY <3>1, Zenon DEF Min
    <3> QED BY <2>1, <2>2, <2>4, <3>2 DEF RolledBack, GivesBack, Snap
  <2> QED BY <2>3, <2>4
<1>2. PatchInv /\ [SessionNext]_sessionVars => PatchInv'
  BY PatchInvStep, PatchMoves
<1> QED BY <1>1, <1>2, PatchInvInit, PTL DEF SessionSpec

-----------------------------------------------------------------------------
(* Differences: cutting texts and edit scripts                             *)

LEMMA CutAt ==
  ASSUME NEW T, NEW s \in Seq(T), NEW e \in 0 .. Len(s), NEW b \in e .. Len(s)
  PROVE  /\ SubSeq(s, 1, e) \in Seq(T) /\ SubSeq(s, e + 1, b) \in Seq(T) /\ SubSeq(s, 1, b) \in Seq(T)
         /\ Len(SubSeq(s, 1, e)) = e /\ Len(SubSeq(s, e + 1, b)) = b - e
         /\ \A i \in 1 .. b - e : SubSeq(s, e + 1, b)[i] = s[e + i]
         /\ SubSeq(s, 1, b) = SubSeq(s, 1, e) \o SubSeq(s, e + 1, b)
<1>1. /\ e + 1 \in Int /\ b \in Int /\ 1 \in Int /\ Len(s) \in Nat
      /\ \A i \in 1 .. b : s[i] \in T
  OBVIOUS
<1>2. /\ SubSeq(s, 1, e) \in Seq(T) /\ Len(SubSeq(s, 1, e)) = e
      /\ \A i \in 1 .. e : SubSeq(s, 1, e)[i] = s[i]
  BY <1>1
<1>3. /\ SubSeq(s, 1, b) \in Seq(T) /\ Len(SubSeq(s, 1, b)) = b
      /\ \A i \in 1 .. b : SubSeq(s, 1, b)[i] = s[i]
  BY <1>1
<1>4. /\ SubSeq(s, e + 1, b) \in Seq(T) /\ Len(SubSeq(s, e + 1, b)) = b - e
      /\ \A i \in 1 .. b - e : SubSeq(s, e + 1, b)[i] = s[e + i]
  BY <1>1
<1>5. SubSeq(s, 1, b) = SubSeq(s, 1, e) \o SubSeq(s, e + 1, b)
  <2> DEFINE p == SubSeq(s, 1, e)
             q == SubSeq(s, e + 1, b)
             r == SubSeq(s, 1, b)
  <2>1. /\ p \in Seq(T) /\ q \in Seq(T) /\ r \in Seq(T) /\ Len(p) = e /\ Len(q) = b - e /\ Len(r) = b
        /\ \A i \in 1 .. e : p[i] = s[i] /\ r[i] = s[i]
        /\ \A i \in 1 .. b - e : q[i] = s[e + i] /\ r[e + i] = s[e + i]
    BY <1>2, <1>3, <1>4
  <2> HIDE DEF p, q, r
  <2>2. \A i \in 1 .. b : r[i] = (p \o q)[i]
    <3> SUFFICES ASSUME NEW i \in 1 .. b PROVE r[i] = (p \o q)[i]
      OBVIOUS
    <3>0. e \in Nat /\ i \in Nat
      OBVIOUS
    <3>1. CASE i <= e
      BY <2>1, <3>1
    <3>2. CASE i > e
      <4>1. PICK j \in 1 .. b - e : i = e + j
        <5>1. i - e \in 1 .. b - e /\ i = e + (i - e)
          BY <3>2
        <5> QED BY <5>1
      <4>2. (p \o q)[i] = q[j]
        BY <2>1, <3>2, <4>1
      <4> QED BY <2>1, <4>1, <4>2
    <3>3. i <= e \/ i > e
      BY <3>0
    <3> QED BY <3>1, <3>2, <3>3
  <2>3. p \o q \in Seq(T) /\ Len(p \o q) = b
    <3>1. p \o q \in Seq(T) /\ Len(p \o q) = Len(p) + Len(q)
      BY <2>1, ConcatProperties
    <3>2. e + (b - e) = b
      OBVIOUS
    <3> QED BY <2>1, <3>1, <3>2
  <2>4. r = p \o q
    BY <2>1, <2>2, <2>3
  <2> QED BY <2>4 DEF p, q, r
<1> QED BY <1>2, <1>3, <1>4, <1>5

\* What is before, inside and behind a part of a text.
LEMMA PartsOf ==
  ASSUME NEW T, NEW p \in Seq(T), NEW m \in Seq(T), NEW q \in Seq(T)
  PROVE  /\ p \o (m \o q) \in Seq(T) /\ Len(p \o (m \o q)) = Len(p) + Len(m) + Len(q)
         /\ SubSeq(p \o (m \o q), 1, Len(p)) = p
         /\ SubSeq(p \o (m \o q), Len(p) + 1, Len(p) + Len(m)) = m
         /\ SubSeq(p \o (m \o q), Len(p) + Len(m) + 1, Len(p \o (m \o q))) = q
<1> DEFINE w == p \o (m \o q)
           i1 == Len(p)
           i2 == Len(p) + Len(m)
           i3 == Len(p) + Len(m) + Len(q)
<1>1. /\ w \in Seq(T) /\ Len(w) = i3 /\ i1 \in 0 .. i3 /\ i2 \in i1 .. i3 /\ i3 \in Nat
      /\ Len(p) \in Nat /\ Len(m) \in Nat /\ Len(q) \in Nat
      /\ \A i \in 1 .. Len(p) : w[i] = p[i]
      /\ \A i \in 1 .. Len(m) : w[i1 + i] = m[i]
      /\ \A i \in 1 .. Len(q) : w[i2 + i] = q[i]
  OBVIOUS
<1> HIDE DEF w
<1>2. /\ SubSeq(w, 1, i1) \in Seq(T) /\ Len(SubSeq(w, 1, i1)) = i1
      /\ \A i \in 1 .. i1 : SubSeq(w, 1, i1)[i] = w[i]
  BY <1>1, i1 \in 0 .. Len(w), i2 \in i1 .. Len(w), CutAt, FrontIs
<1>3. /\ SubSeq(w, i1 + 1, i2) \in Seq(T) /\ Len(SubSeq(w, i1 + 1, i2)) = i2 - i1
      /\ \A i \in 1 .. i2 - i1 : SubSeq(w, i1 + 1, i2)[i] = w[i1 + i]
  BY <1>1, CutAt
<1>4. /\ SubSeq(w, i2 + 1, i3) \in Seq(T) /\ Len(SubSeq(w, i2 + 1, i3)) = i3 - i2
      /\ \A i \in 1 .. i3 - i2 : SubSeq(w, i2 + 1, i3)[i] = w[i2 + i]
  BY <1>1, CutAt
<1>5. SubSeq(w, 1, i1) = p
  BY <1>1, <1>2
<1>6. SubSeq(w, i1 + 1, i2) = m
  <2> DEFINE u == SubSeq(w, i1 + 1, i2)
  <2>1. u \in Seq(T) /\ Len(u) = Len(m) /\ \A i \in 1 .. Len(m) : u[i] = m[i]
    <3>1. i2 - i1 = Len(m)
      BY <1>1
    <3> QED BY <1>1, <1>3, <3>1
  <2> HIDE DEF u
  <2>2. u = m
    BY <2>1
  <2> QED BY <2>2 DEF u
<1>7. SubSeq(w, i2 + 1, i3) = q
  BY <1>1, <1>4
<1> QED BY <1>1, <1>5, <1>6, <1>7 DEF w

\* A splice replaces the part that it names.
Spliced(p, m, q, out) == Splice(p \o (m \o q), Len(p), Len(m), out)
Around(p, out, q) == (p \o out) \o q

LEMMA SpliceIs ==
  ASSUME NEW p \in Seq(Lines), NEW m \in Seq(Lines), NEW q \in Seq(Lines), NEW out \in Seq(Lines)
  PROVE  Spliced(p, m, q, out) = Around(p, out, q)
<1> DEFINE w == p \o (m \o q)
<1>1. /\ Len(p) \in Nat /\ Len(m) \in Nat /\ Len(q) \in Nat
      /\ Len(w) = Len(p) + Len(m) + Len(q)
      /\ SubSeq(w, 1, Len(p)) = p
      /\ SubSeq(w, Len(p) + Len(m) + 1, Len(w)) = q
  BY PartsOf
<1> HIDE DEF w
<1>2. Least(Len(p), Len(w)) = Len(p)
  <2>1. CASE Len(p) < Len(w)
    BY <2>1 DEF Least
  <2>2. CASE ~(Len(p) < Len(w))
    <3>1. \A i, j, k \in Nat : ~(i < i + j + k) => i + j + k = i
      OBVIOUS
    <3>2. Len(w) = Len(p)
      BY <1>1, <2>2, <3>1
    <3> QED BY <3>2 DEF Least
  <2> QED BY <2>1, <2>2
<1>3. Splice(w, Len(p), Len(m), out) = p \o out \o q
  BY <1>1, <1>2 DEF Splice
<1> QED BY <1>3 DEF Spliced, Around, w

-----------------------------------------------------------------------------
(* The two sides of a script                                               *)

ScriptItems == [tag : Tags, line : Lines]

LEMMA LinesTyped ==
  ASSUME NEW t \in Seq(ScriptItems)
  PROVE  /\ LinesOf(t) \in Seq(Lines) /\ Len(LinesOf(t)) = Len(t)
         /\ \A i \in 1 .. Len(t) : LinesOf(t)[i] = t[i].line
<1>1. Len(t) \in Nat /\ DOMAIN t = 1 .. Len(t) /\ \A i \in 1 .. Len(t) : t[i] \in ScriptItems
  OBVIOUS
<1>2. \A x \in ScriptItems : x.line \in Lines
  BY DEF ScriptItems
<1>3. LinesOf(t) = [i \in 1 .. Len(t) |-> t[i].line]
  BY <1>1 DEF LinesOf
<1> QED BY <1>1, <1>2, <1>3

LEMMA LinesConcat ==
  ASSUME NEW s \in Seq(ScriptItems), NEW t \in Seq(ScriptItems)
  PROVE  LinesOf(s \o t) = LinesOf(s) \o LinesOf(t)
<1> DEFINE a == LinesOf(s)
           b == LinesOf(t)
           c == LinesOf(s \o t)
<1>1. /\ s \o t \in Seq(ScriptItems) /\ Len(s \o t) = Len(s) + Len(t)
      /\ \A i \in 1 .. Len(s) + Len(t) : (s \o t)[i] = IF i <= Len(s) THEN s[i] ELSE t[i - Len(s)]
  BY ConcatProperties
<1>2. /\ c \in Seq(Lines) /\ Len(c) = Len(s) + Len(t)
      /\ \A i \in 1 .. Len(s) + Len(t) : c[i] = (s \o t)[i].line
  BY <1>1, LinesTyped
<1>3. /\ a \in Seq(Lines) /\ Len(a) = Len(s) /\ \A i \in 1 .. Len(s) : a[i] = s[i].line
      /\ b \in Seq(Lines) /\ Len(b) = Len(t) /\ \A i \in 1 .. Len(t) : b[i] = t[i].line
  BY LinesTyped
<1> HIDE DEF a, b, c
<1>4. /\ a \o b \in Seq(Lines) /\ Len(a \o b) = Len(s) + Len(t)
      /\ \A i \in 1 .. Len(s) + Len(t) : (a \o b)[i] = IF i <= Len(s) THEN a[i] ELSE b[i - Len(s)]
  <2>0. a \in Seq(Lines) /\ b \in Seq(Lines)
    BY <1>3
  <2>1. /\ a \o b \in Seq(Lines) /\ Len(a \o b) = Len(a) + Len(b)
        /\ \A i \in 1 .. Len(a) + Len(b) : (a \o b)[i] = IF i <= Len(a) THEN a[i] ELSE b[i - Len(a)]
    BY <2>0, ConcatProperties
  <2> QED BY <1>3, <2>1
<1>5. ASSUME NEW i \in 1 .. Len(s) + Len(t) PROVE c[i] = (a \o b)[i]
  <2>0. Len(s) \in Nat /\ Len(t) \in Nat
    OBVIOUS
  <2>1. CASE i <= Len(s)
    BY <1>1, <1>2, <1>3, <1>4, <2>0, <2>1
  <2>2. CASE ~(i <= Len(s))
    <3>1. i - Len(s) \in 1 .. Len(t)
      BY <2>0, <2>2
    <3>2. c[i] = t[i - Len(s)].line
      BY <1>1, <1>2, <2>2
    <3> QED BY <1>3, <1>4, <2>2, <3>1, <3>2
  <2> QED BY <2>1, <2>2
<1>6. c = a \o b
  <2>1. /\ c \in Seq(Lines) /\ a \o b \in Seq(Lines) /\ Len(c) = Len(a \o b)
        /\ \A i \in 1 .. Len(c) : c[i] = (a \o b)[i]
    BY <1>2, <1>4, <1>5
  <2> QED BY <2>1, SeqEqual
<1> QED BY <1>6 DEF a, b, c

LEMMA SidesTyped ==
  ASSUME NEW t \in Seq(ScriptItems)
  PROVE  /\ OldItems(t) \in Seq(ScriptItems) /\ NewItems(t) \in Seq(ScriptItems)
         /\ OldText(t) \in Seq(Lines) /\ Len(OldText(t)) = Len(OldItems(t))
         /\ NewText(t) \in Seq(Lines) /\ Len(NewText(t)) = Len(NewItems(t))
<1>1. OldItems(t) \in Seq(ScriptItems) /\ NewItems(t) \in Seq(ScriptItems)
  BY KeptTyped DEF OldItems, NewItems
<1> QED BY <1>1, LinesTyped DEF OldText, NewText

LEMMA SidesConcat ==
  ASSUME NEW s \in Seq(ScriptItems), NEW t \in Seq(ScriptItems)
  PROVE  /\ OldText(s \o t) = OldText(s) \o OldText(t)
         /\ NewText(s \o t) = NewText(s) \o NewText(t)
<1>1. /\ OldItems(s \o t) = OldItems(s) \o OldItems(t)
      /\ NewItems(s \o t) = NewItems(s) \o NewItems(t)
  <2>1. \A S : Kept(s \o t, S) = Kept(s, S) \o Kept(t, S)
    BY KeptConcat
  <2> QED BY <2>1, Zenon DEF OldItems, NewItems
<1> QED BY <1>1, SidesTyped, LinesConcat DEF OldText, NewText

\* Where nothing is changed both sides are the same.
LEMMA SameSides ==
  ASSUME NEW t \in Seq(ScriptItems), \A i \in 1 .. Len(t) : t[i].tag = " "
  PROVE  OldText(t) = NewText(t)
<1>1. \A i \in 1 .. Len(t) : /\ t[i] \in [tag : {" ", "-"}, line : Lines]
                             /\ t[i] \in [tag : {" ", "+"}, line : Lines]
  <2> SUFFICES ASSUME NEW i \in 1 .. Len(t)
               PROVE  /\ t[i] \in [tag : {" ", "-"}, line : Lines]
                      /\ t[i] \in [tag : {" ", "+"}, line : Lines]
    OBVIOUS
  <2>1. t[i] \in ScriptItems
    BY ElementOfSeq
  <2> QED BY <2>1 DEF ScriptItems
<1>2. OldItems(t) = t /\ NewItems(t) = t
  BY <1>1, KeptAll DEF OldItems, NewItems
<1> QED BY <1>2 DEF OldText, NewText

\* A part with an item that is not new only has a line of the old side.
LEMMA OldSideThere ==
  ASSUME NEW t \in Seq(ScriptItems), NEW i \in 1 .. Len(t), t[i].tag # "+"
  PROVE  OldItems(t) # <<>>
<1>1. t[i] \in ScriptItems
  OBVIOUS
<1>2. t[i] \in [tag : {" ", "-"}, line : Lines]
  BY <1>1 DEF ScriptItems, Tags
<1>3. \E k \in 1 .. Len(OldItems(t)) : OldItems(t)[k] = t[i]
  <2> DEFINE S == [tag : {" ", "-"}, line : Lines]
  <2>1. Filtered(ScriptItems, t, S, Len(t), Kept(t, S))
    BY KeptIs
  <2>2. OldItems(t) = Kept(t, S)
    BY DEF OldItems
  <2> HIDE DEF S
  <2> QED BY <1>2, <2>1, <2>2 DEF Filtered, S
<1> QED BY <1>3

-----------------------------------------------------------------------------
(* The hunks of a script                                                   *)

Starts(s) == {i \in Near(s) : i - 1 \notin Near(s)}

LEMMA NearIs ==
  ASSUME NEW s \in Seq(ScriptItems)
  PROVE  /\ Near(s) \subseteq 1 .. Len(s)
         /\ \A i \in 1 .. Len(s) : i \notin Near(s) => s[i].tag = " "
         /\ \A i \in Near(s) : s[i].tag # " " =>
              \A j \in 1 .. Len(s) : j = i - 1 \/ j = i + 1 => j \in Near(s)
<1>1. DOMAIN s = 1 .. Len(s) /\ Len(s) \in Nat
  OBVIOUS
<1>2. Near(s) \subseteq 1 .. Len(s)
  BY <1>1 DEF Near
<1>3. ASSUME NEW i \in 1 .. Len(s), i \notin Near(s) PROVE s[i].tag = " "
  <2>1. i - i \in -Context .. Context
    BY ContextAssumption
  <2> QED BY <1>1, <1>3, <2>1 DEF Near
<1>4. ASSUME NEW i \in Near(s), s[i].tag # " ", NEW j \in 1 .. Len(s), j = i - 1 \/ j = i + 1
      PROVE  j \in Near(s)
  <2>1. i \in 1 .. Len(s)
    BY <1>2
  <2>2. j - i \in -Context .. Context
    <3>1. i \in Int /\ j \in Int
      BY <1>1, <2>1
    <3>2. CASE j = i - 1
      BY <3>1, <3>2, ContextAssumption
    <3>3. CASE j = i + 1
      BY <3>1, <3>3, ContextAssumption
    <3> QED BY <1>4, <3>2, <3>3
  <2> QED BY <1>1, <1>4, <2>1, <2>2 DEF Near
<1> QED BY <1>2, <1>3, <1>4

\* A run of positions in Near has a last one.
LEMMA LastFromIs ==
  ASSUME NEW s \in Seq(ScriptItems), NEW a \in Near(s)
  PROVE  /\ LastFrom(s, a) \in a .. Len(s)
         /\ a .. LastFrom(s, a) \subseteq Near(s)
         /\ LastFrom(s, a) + 1 \notin Near(s)
<1>0. Near(s) \subseteq 1 .. Len(s) /\ Len(s) \in Nat /\ DOMAIN s = 1 .. Len(s)
  <2>1. Len(s) \in Nat /\ DOMAIN s = 1 .. Len(s)
    OBVIOUS
  <2> QED BY <2>1, NearIs
<1> DEFINE Outs == {i \in Nat : a <= i /\ i + 1 \notin Near(s)}
<1>1. PICK b \in Outs : \A i \in Outs : b <= i
  <2>1. Len(s) \in Outs
    BY <1>0
  <2>2. Outs \in SUBSET Nat /\ Outs # {}
    BY <2>1
  <2> HIDE DEF Outs
  <2> QED BY <2>2, LeastNat
<1>2. b \in a .. Len(s) /\ b + 1 \notin Near(s)
  BY <1>0, <1>1, Len(s) \in Outs
<1>3. ASSUME NEW i \in a .. b PROVE i \in Near(s)
  <2>1. CASE i = a
    BY <2>1
  <2>2. CASE i # a
    <3>1. i - 1 \in Nat /\ a <= i - 1 /\ i - 1 < b
      BY <1>0, <1>2, <2>2
    <3>2. i - 1 \notin Outs
      BY <1>1, <1>2, <3>1
    <3>3. (i - 1) + 1 = i
      BY <1>0, <1>2
    <3> QED BY <3>1, <3>2, <3>3
  <2> QED BY <2>1, <2>2
<1>4. \E i \in DOMAIN s : a .. i \subseteq Near(s) /\ a =< i /\ i + 1 \notin Near(s)
  BY <1>0, <1>2, <1>3
<1>5. /\ LastFrom(s, a) \in DOMAIN s /\ a .. LastFrom(s, a) \subseteq Near(s)
      /\ a =< LastFrom(s, a) /\ LastFrom(s, a) + 1 \notin Near(s)
  BY <1>4 DEF LastFrom
<1> QED BY <1>0, <1>5

\* Every position of Near is in a hunk: the one with the nearest start before it.
LEMMA StartBefore ==
  ASSUME NEW s \in Seq(ScriptItems), NEW j \in Near(s)
  PROVE  \E a \in Starts(s) : a <= j /\ a .. j \subseteq Near(s)
<1>0. Near(s) \subseteq 1 .. Len(s) /\ Len(s) \in Nat
  <2>1. Len(s) \in Nat
    OBVIOUS
  <2> QED BY <2>1, NearIs
<1> DEFINE Ins == {i \in Nat : i <= j /\ i .. j \subseteq Near(s)}
<1>1. PICK a \in Ins : \A i \in Ins : a <= i
  <2>1. j \in Ins
    BY <1>0
  <2>2. Ins \in SUBSET Nat /\ Ins # {}
    BY <2>1
  <2> HIDE DEF Ins
  <2> QED BY <2>2, LeastNat
<1>2. a <= j /\ a .. j \subseteq Near(s) /\ a \in Near(s)
  BY <1>0, <1>1
<1>3. a - 1 \notin Near(s)
  <2> SUFFICES ASSUME a - 1 \in Near(s) PROVE FALSE
    OBVIOUS
  <2>1. a - 1 \in Nat /\ a \in Nat /\ j \in Nat
    BY <1>0, <1>2
  <2>2. \A i \in a - 1 .. j : i = a - 1 \/ i \in a .. j
    BY <2>1
  <2>3. a - 1 \in Ins
    BY <1>2, <2>1, <2>2
  <2> QED BY <1>1, <2>1, <2>3
<1> QED BY <1>2, <1>3 DEF Starts

LEMMA FirstsAre ==
  ASSUME NEW s \in Seq(ScriptItems)
  PROVE  /\ Firsts(s) \in Seq(1 .. Len(s))
         /\ \A k \in 1 .. Len(Firsts(s)) : Firsts(s)[k] \in Starts(s)
         /\ \A a \in Starts(s) : \E k \in 1 .. Len(Firsts(s)) : Firsts(s)[k] = a
         /\ \A k, l \in 1 .. Len(Firsts(s)) : k < l => Firsts(s)[k] < Firsts(s)[l]
<1> DEFINE T == 1 .. Len(s)
           places == [i \in DOMAIN s |-> i]
<1>0. DOMAIN s = 1 .. Len(s) /\ Len(s) \in Nat
  OBVIOUS
<1>1. places \in Seq(T) /\ Len(places) = Len(s) /\ \A i \in T : places[i] = i
  BY <1>0
<1>2. Firsts(s) = Kept(places, Starts(s))
  BY DEF Firsts, Starts
<1> HIDE DEF places, T
<1>3. Filtered(T, places, Starts(s), Len(s), Firsts(s))
  BY <1>1, <1>2, KeptIs
<1>4. Picked(places, Starts(s), Len(s), Firsts(s))
  BY <1>1, <1>2, KeptInOrder
<1>5. Starts(s) \subseteq T
  BY NearIs DEF Starts, T
<1>6. Firsts(s) \in Seq(T)
  BY <1>3 DEF Filtered
<1>7. ASSUME NEW a \in Starts(s) PROVE \E k \in 1 .. Len(Firsts(s)) : Firsts(s)[k] = a
  <2>1. a \in 1 .. Len(s) /\ places[a] = a
    BY <1>1, <1>5 DEF T
  <2> QED BY <1>3, <2>1 DEF Filtered
<1>8. ASSUME NEW k \in 1 .. Len(Firsts(s)), NEW l \in 1 .. Len(Firsts(s)), k < l
      PROVE  Firsts(s)[k] < Firsts(s)[l]
  <2>1. PICK f \in [1 .. Len(Firsts(s)) -> 1 .. Len(s)] :
          /\ \A i \in 1 .. Len(Firsts(s)) : Firsts(s)[i] = places[f[i]]
          /\ \A i, j \in 1 .. Len(Firsts(s)) : i < j => f[i] < f[j]
    BY <1>4 DEF Picked
  <2>2. Firsts(s)[k] = f[k] /\ Firsts(s)[l] = f[l]
    BY <1>1, <2>1 DEF T
  <2> QED BY <1>8, <2>1, <2>2
<1> QED BY <1>3, <1>6, <1>7, <1>8 DEF Filtered, T

-----------------------------------------------------------------------------
(* A difference carried out on the text that it was made from              *)

\* The text when the hunks up to position e of the script have been carried out.
Halfway(s, e) == NewText(SubSeq(s, 1, e)) \o OldText(SubSeq(s, e + 1, Len(s)))

\* Cut at the hunk that starts at a: what is before, inside and behind it.
LEMMA HunkIs ==
  ASSUME NEW s \in Seq(ScriptItems), NEW a \in Near(s), a - 1 \notin Near(s)
  PROVE  LET b == LastFrom(s, a)
             p == SubSeq(s, 1, a - 1)
             m == SubSeq(s, a, b)
             q == SubSeq(s, b + 1, Len(s))
             hunk == HunkOf(s, a)
         IN  /\ b \in a .. Len(s)
             /\ p \in Seq(ScriptItems) /\ m \in Seq(ScriptItems) /\ q \in Seq(ScriptItems)
             /\ hunk.body = m
             /\ First(hunk) = Len(OldText(p)) + 1
             /\ hunk.start \in {0, First(hunk)}
<1> DEFINE b == LastFrom(s, a)
           p == SubSeq(s, 1, a - 1)
           m == SubSeq(s, a, b)
           q == SubSeq(s, b + 1, Len(s))
           hunk == HunkOf(s, a)
<1>0. Len(s) \in Nat /\ a \in 1 .. Len(s) /\ \A i \in 1 .. Len(s) : s[i] \in ScriptItems
  <2>1. Len(s) \in Nat /\ \A i \in 1 .. Len(s) : s[i] \in ScriptItems
    OBVIOUS
  <2> QED BY <2>1, NearIs
<1>1. b \in a .. Len(s) /\ a .. b \subseteq Near(s)
  BY LastFromIs
<1> HIDE DEF b
<1>2. /\ p \in Seq(ScriptItems) /\ Len(p) = a - 1
      /\ m \in Seq(ScriptItems) /\ Len(m) = b - (a - 1)
      /\ \A i \in 1 .. b - (a - 1) : m[i] = s[(a - 1) + i]
  <2>1. a - 1 \in 0 .. Len(s) /\ b \in a - 1 .. Len(s) /\ (a - 1) + 1 = a
    BY <1>0, <1>1
  <2> QED BY <2>1, CutAt
<1>3. q \in Seq(ScriptItems)
  <2>1. b \in 0 .. Len(s) /\ Len(s) \in b .. Len(s)
    BY <1>0, <1>1
  <2> QED BY <2>1, CutAt
<1>4. hunk.body = m
  BY DEF HunkOf, b
<1>5. hunk.start = IF OldItems(m) = <<>> THEN 0 ELSE Len(OldItems(p)) + 1
  BY DEF HunkOf, b
<1>6. Len(OldText(p)) = Len(OldItems(p)) /\ Len(OldItems(p)) \in Nat
  BY <1>2, SidesTyped, LenProperties
<1> HIDE DEF m, hunk
<1>7. CASE OldItems(m) # <<>>
  BY <1>1, <1>2, <1>3, <1>4, <1>5, <1>6, <1>7 DEF First, m, hunk, b
<1>8. CASE OldItems(m) = <<>>
  <2>1. a = 1
    <3> SUFFICES ASSUME a # 1 PROVE FALSE
      OBVIOUS
    <3>1. 1 \in 1 .. Len(m) /\ m[1] = s[a]
      BY <1>0, <1>1, <1>2
    <3>2. s[a].tag = "+"
      BY <1>2, <1>8, <3>1, OldSideThere
    <3>3. a - 1 \in 1 .. Len(s)
      BY <1>0
    <3>4. a - 1 \in Near(s)
      BY <3>2, <3>3, NearIs
    <3> QED BY <3>4
  <2>2. Len(p) = 0
    BY <1>2, <2>1
  <2>3. p = <<>>
    BY <1>2, <2>2
  <2>4. OldItems(p) = <<>>
    BY <2>3, KeptOfNone DEF OldItems
  <2>5. First(hunk) = 1 /\ hunk.start = 0 /\ Len(OldText(p)) = 0
    BY <1>5, <1>6, <1>8, <2>4 DEF First
  <2> QED BY <1>1, <1>2, <1>3, <1>4, <2>5 DEF m, hunk, b
<1> QED BY <1>7, <1>8

\* A hunk of the script fits its old text.
LEMMA HunkFits ==
  ASSUME NEW s \in Seq(ScriptItems), NEW a \in Near(s), a - 1 \notin Near(s)
  PROVE  Fits(OldText(s), HunkOf(s, a))
<1> DEFINE b == LastFrom(s, a)
           p == SubSeq(s, 1, a - 1)
           m == SubSeq(s, a, b)
           q == SubSeq(s, b + 1, Len(s))
           hunk == HunkOf(s, a)
<1>1. /\ b \in a .. Len(s) /\ p \in Seq(ScriptItems) /\ m \in Seq(ScriptItems) /\ q \in Seq(ScriptItems)
      /\ hunk.body = m /\ First(hunk) = Len(OldText(p)) + 1 /\ hunk.start \in {0, First(hunk)}
  BY HunkIs
<1>2. s = p \o (m \o q)
  <2>1. a \in 1 .. Len(s) /\ Len(s) \in Nat
    <3>1. Len(s) \in Nat
      OBVIOUS
    <3> QED BY <3>1, NearIs
  <2> HIDE DEF b
  <2>2. s = SubSeq(s, 1, a - 1) \o SubSeq(s, a, Len(s))
    <3>1. PICK e \in 0 .. Len(s) : e = a - 1 /\ e + 1 = a /\ Len(s) \in e .. Len(s)
      BY <2>1
    <3>2. SubSeq(s, 1, Len(s)) = SubSeq(s, 1, e) \o SubSeq(s, e + 1, Len(s))
      <4>1. 1 \in 1 .. Len(s) + 1 /\ e \in 1 - 1 .. Len(s) /\ Len(s) \in e .. Len(s)
        BY <2>1, <3>1
      <4> QED BY <4>1, ConcatAdjacentSubSeq
    <3> QED BY <3>1, <3>2, FrontIs
  <2>3. SubSeq(s, a, b) \o SubSeq(s, b + 1, Len(s)) = SubSeq(s, a, Len(s))
    <3>1. a \in 1 .. Len(s) + 1 /\ b \in a - 1 .. Len(s) /\ Len(s) \in b .. Len(s)
      BY <1>1, <2>1
    <3> QED BY <3>1, ConcatAdjacentSubSeq
  <2> QED BY <2>2, <2>3
<1>3. OldText(s) = OldText(p) \o (OldText(m) \o OldText(q))
  <2> HIDE DEF p, m, q
  <2>1. m \o q \in Seq(ScriptItems)
    BY <1>1, ConcatProperties
  <2> QED BY <1>1, <1>2, <2>1, SidesConcat
<1>4. LinesOf(OldItems(hunk.body)) = OldText(m)
  BY <1>1 DEF OldText
<1> DEFINE op == OldText(p)
           om == OldText(m)
           oq == OldText(q)
<1>5. op \in Seq(Lines) /\ om \in Seq(Lines) /\ oq \in Seq(Lines)
  BY <1>1, SidesTyped
<1> HIDE DEF p, m, q, hunk, op, om, oq
<1>6. /\ Len(op \o (om \o oq)) = Len(op) + Len(om) + Len(oq)
      /\ SubSeq(op \o (om \o oq), Len(op) + 1, Len(op) + Len(om)) = om
      /\ Len(op) \in Nat /\ Len(om) \in Nat /\ Len(oq) \in Nat
  BY <1>5, PartsOf, LenProperties
<1>7. First(hunk) = Len(op) + 1 /\ hunk.start \in {0, Len(op) + 1}
  BY <1>1 DEF op
<1>8. /\ First(hunk) + Len(om) - 1 = Len(op) + Len(om)
      /\ hunk.start + Len(om) - 1 =< Len(op) + Len(om) + Len(oq)
  BY <1>6, <1>7
<1>9. OldText(s) = op \o (om \o oq) /\ LinesOf(OldItems(hunk.body)) = om
  BY <1>3, <1>4 DEF op, om, oq
<1>10. Fits(OldText(s), hunk)
  <2>1. Len(op) + Len(om) =< Len(op) + Len(om) + Len(oq)
    BY <1>6
  <2> QED BY <1>6, <1>7, <1>8, <1>9, <2>1 DEF Fits
<1> QED BY <1>10 DEF hunk

\* A hunk that is spliced in where the earlier ones have left the number of lines.
LEMMA HunkMoves ==
  ASSUME NEW s \in Seq(ScriptItems), NEW a \in Near(s), a - 1 \notin Near(s),
         NEW e \in 0 .. a - 1,
         \A i \in e + 1 .. a - 1 : i \notin Near(s),
         Len(NewText(SubSeq(s, 1, e))) = Len(OldText(SubSeq(s, 1, e)))
  PROVE  /\ ApplyHunk(Halfway(s, e), HunkOf(s, a)) = Halfway(s, LastFrom(s, a))
         /\ Len(OldItems(HunkOf(s, a).body)) = Len(NewItems(HunkOf(s, a).body)) =>
              Len(NewText(SubSeq(s, 1, LastFrom(s, a)))) = Len(OldText(SubSeq(s, 1, LastFrom(s, a))))
<1> DEFINE b == LastFrom(s, a)
           o == SubSeq(s, 1, e)
           g == SubSeq(s, e + 1, a - 1)
           p == SubSeq(s, 1, a - 1)
           m == SubSeq(s, a, b)
           q == SubSeq(s, b + 1, Len(s))
           hunk == HunkOf(s, a)
<1>0. /\ Len(s) \in Nat /\ a \in 1 .. Len(s) /\ e \in Nat
  <2>1. Len(s) \in Nat
    OBVIOUS
  <2>2. a \in 1 .. Len(s)
    BY NearIs
  <2> QED BY <2>1, <2>2
<1>1. /\ b \in a .. Len(s) /\ p \in Seq(ScriptItems) /\ m \in Seq(ScriptItems) /\ q \in Seq(ScriptItems)
      /\ hunk.body = m /\ First(hunk) = Len(OldText(p)) + 1
  BY HunkIs
<1> HIDE DEF b
<1>2. /\ o \in Seq(ScriptItems) /\ g \in Seq(ScriptItems) /\ p = o \o g
      /\ Len(g) = (a - 1) - e /\ \A i \in 1 .. (a - 1) - e : g[i] = s[e + i]
  <2>1. PICK c \in e .. Len(s) : c = a - 1
    BY <1>0
  <2>2. e \in 0 .. Len(s)
    BY <1>0
  <2>3. /\ SubSeq(s, 1, e) \in Seq(ScriptItems) /\ SubSeq(s, e + 1, c) \in Seq(ScriptItems)
        /\ Len(SubSeq(s, e + 1, c)) = c - e
        /\ \A i \in 1 .. c - e : SubSeq(s, e + 1, c)[i] = s[e + i]
        /\ SubSeq(s, 1, c) = SubSeq(s, 1, e) \o SubSeq(s, e + 1, c)
    BY <2>2, CutAt
  <2> QED BY <2>1, <2>3
<1>3. OldText(g) = NewText(g)
  <2>1. \A i \in 1 .. Len(g) : g[i].tag = " "
    <3> SUFFICES ASSUME NEW i \in 1 .. Len(g) PROVE g[i].tag = " "
      OBVIOUS
    <3>1. i \in 1 .. (a - 1) - e
      BY <1>2
    <3>2. e + i \in e + 1 .. a - 1 /\ e + i \in 1 .. Len(s) /\ g[i] = s[e + i]
      BY <1>0, <1>2, <3>1
    <3> QED BY <3>2, NearIs
  <2> QED BY <1>2, <2>1, SameSides
<1>4. SubSeq(s, e + 1, Len(s)) = g \o (m \o q)
  <2>1. SubSeq(s, a, b) \o SubSeq(s, b + 1, Len(s)) = SubSeq(s, a, Len(s))
    <3>1. a \in 1 .. Len(s) + 1 /\ b \in a - 1 .. Len(s) /\ Len(s) \in b .. Len(s)
      BY <1>0, <1>1
    <3> QED BY <3>1, ConcatAdjacentSubSeq
  <2>2. SubSeq(s, e + 1, Len(s)) = SubSeq(s, e + 1, a - 1) \o SubSeq(s, a, Len(s))
    <3>1. PICK c \in 0 .. Len(s) : c = a - 1 /\ c + 1 = a
      BY <1>0
    <3>2. e + 1 \in 1 .. Len(s) + 1 /\ c \in (e + 1) - 1 .. Len(s) /\ Len(s) \in c .. Len(s)
      BY <1>0, <3>1
    <3>3. SubSeq(s, e + 1, Len(s)) = SubSeq(s, e + 1, c) \o SubSeq(s, c + 1, Len(s))
      BY <3>2, ConcatAdjacentSubSeq
    <3> QED BY <3>1, <3>3
  <2> QED BY <2>1, <2>2
<1>5. SubSeq(s, 1, b) = p \o m
  <2>1. PICK c \in 0 .. Len(s) : c = a - 1 /\ c + 1 = a
    BY <1>0
  <2>2. 1 \in 1 .. Len(s) + 1 /\ c \in 1 - 1 .. Len(s) /\ b \in c .. Len(s)
    BY <1>0, <1>1, <2>1
  <2>3. SubSeq(s, 1, b) = SubSeq(s, 1, c) \o SubSeq(s, c + 1, b)
    BY <2>2, ConcatAdjacentSubSeq
  <2> QED BY <2>1, <2>3
<1> HIDE DEF o, g, p, m, q, hunk
<1>6. /\ OldText(o) \in Seq(Lines) /\ NewText(o) \in Seq(Lines) /\ OldText(g) \in Seq(Lines)
      /\ NewText(p) \in Seq(Lines) /\ OldText(p) \in Seq(Lines) /\ OldText(q) \in Seq(Lines)
      /\ OldText(m) \in Seq(Lines) /\ NewText(m) \in Seq(Lines)
      /\ Len(OldText(m)) = Len(OldItems(m)) /\ Len(NewText(m)) = Len(NewItems(m))
  BY <1>1, <1>2, SidesTyped
<1>7. /\ NewText(p) = NewText(o) \o NewText(g) /\ OldText(p) = OldText(o) \o OldText(g)
      /\ NewText(p \o m) = NewText(p) \o NewText(m) /\ OldText(p \o m) = OldText(p) \o OldText(m)
      /\ OldText(g \o (m \o q)) = OldText(g) \o (OldText(m) \o OldText(q))
  <2>1. m \o q \in Seq(ScriptItems)
    BY <1>1, ConcatProperties
  <2>2. NewText(p) = NewText(o) \o NewText(g) /\ OldText(p) = OldText(o) \o OldText(g)
    BY <1>2, SidesConcat
  <2>3. NewText(p \o m) = NewText(p) \o NewText(m) /\ OldText(p \o m) = OldText(p) \o OldText(m)
    BY <1>1, SidesConcat
  <2>4. OldText(g \o (m \o q)) = OldText(g) \o OldText(m \o q)
    BY <1>2, <2>1, SidesConcat
  <2>5. OldText(m \o q) = OldText(m) \o OldText(q)
    BY <1>1, SidesConcat
  <2> QED BY <2>2, <2>3, <2>4, <2>5
<1>8. Len(NewText(p)) = Len(OldText(p)) /\ Len(OldText(p)) \in Nat
  <2>1. Len(NewText(o)) = Len(OldText(o))
    BY DEF o
  <2>2. Len(NewText(p)) = Len(NewText(o)) + Len(OldText(g))
    BY <1>3, <1>6, <1>7, ConcatProperties
  <2>3. Len(OldText(p)) = Len(OldText(o)) + Len(OldText(g))
    BY <1>6, <1>7, ConcatProperties
  <2> QED BY <1>6, <2>1, <2>2, <2>3, LenProperties
<1>9. Halfway(s, e) = NewText(p) \o (OldText(m) \o OldText(q))
  <2>1. Halfway(s, e) = NewText(o) \o (NewText(g) \o (OldText(m) \o OldText(q)))
    BY <1>3, <1>4, <1>7 DEF Halfway, o
  <2>2. OldText(m) \o OldText(q) \in Seq(Lines)
    BY <1>6, ConcatProperties
  <2>3. NewText(g) \in Seq(Lines)
    BY <1>3, <1>6
  <2> DEFINE w == OldText(m) \o OldText(q)
  <2>4. w \in Seq(Lines)
    BY <2>2
  <2> HIDE DEF w
  <2>5. (NewText(o) \o NewText(g)) \o w = NewText(o) \o (NewText(g) \o w)
    <3>1. \A x, y, z \in Seq(Lines) : (x \o y) \o z = x \o (y \o z)
      BY ConcatAssociative
    <3>2. NewText(o) \in Seq(Lines) /\ NewText(g) \in Seq(Lines)
      BY <1>6, <2>3
    <3> QED BY <2>4, <3>1, <3>2
  <2> QED BY <1>7, <2>1, <2>5 DEF w
<1>10. ApplyHunk(Halfway(s, e), hunk) = Halfway(s, b)
  <2>1. First(hunk) - 1 = Len(NewText(p))
    BY <1>1, <1>8
  <2>2. LinesOf(NewItems(hunk.body)) = NewText(m) /\ Len(OldItems(hunk.body)) = Len(OldText(m))
    BY <1>1, <1>6 DEF NewText
  <2>3. ApplyHunk(Halfway(s, e), hunk) =
          Splice(NewText(p) \o (OldText(m) \o OldText(q)), Len(NewText(p)), Len(OldText(m)), NewText(m))
    BY <1>9, <2>1, <2>2 DEF ApplyHunk
  <2>4. ApplyHunk(Halfway(s, e), hunk) = (NewText(p) \o NewText(m)) \o OldText(q)
    <3>1. Spliced(NewText(p), OldText(m), OldText(q), NewText(m)) = Around(NewText(p), NewText(m), OldText(q))
      BY <1>6, SpliceIs
    <3> QED BY <2>3, <3>1 DEF Spliced, Around
  <2> QED BY <1>5, <1>7, <2>4 DEF Halfway, q
<1>11. ASSUME Len(OldItems(hunk.body)) = Len(NewItems(hunk.body))
       PROVE  Len(NewText(SubSeq(s, 1, b))) = Len(OldText(SubSeq(s, 1, b)))
  <2>1. Len(OldText(m)) = Len(NewText(m))
    BY <1>1, <1>6, <1>11
  <2>2. Len(NewText(p \o m)) = Len(NewText(p)) + Len(NewText(m))
    BY <1>6, <1>7, ConcatProperties
  <2>3. Len(OldText(p \o m)) = Len(OldText(p)) + Len(OldText(m))
    BY <1>6, <1>7, ConcatProperties
  <2> QED BY <1>5, <1>8, <2>1, <2>2, <2>3
<1> QED BY <1>10, <1>11 DEF b, hunk

\* Where the k-th hunk ends.
EndOf(s, k) == IF k = 0 THEN 0 ELSE LastFrom(s, Firsts(s)[k])

\* Between two hunks, and behind the last one, nothing is near a change.
LEMMA GapBehind ==
  ASSUME NEW s \in Seq(ScriptItems), NEW k \in 0 .. Len(Firsts(s))
  PROVE  LET next == IF k = Len(Firsts(s)) THEN Len(s) + 1 ELSE Firsts(s)[k + 1]
         IN  /\ EndOf(s, k) \in 0 .. next - 1
             /\ \A i \in EndOf(s, k) + 1 .. next - 1 : i \notin Near(s)
<1> DEFINE n == Len(Firsts(s))
           e == EndOf(s, k)
           next == IF k = n THEN Len(s) + 1 ELSE Firsts(s)[k + 1]
<1>1. /\ n \in Nat /\ Len(s) \in Nat
      /\ \A l \in 1 .. n : Firsts(s)[l] \in Starts(s)
      /\ \A a \in Starts(s) : \E l \in 1 .. n : Firsts(s)[l] = a
      /\ \A l, m \in 1 .. n : l < m => Firsts(s)[l] < Firsts(s)[m]
  <2>1. n \in Nat /\ Len(s) \in Nat
    BY FirstsAre, LenProperties
  <2> QED BY <2>1, FirstsAre
<1>2. Starts(s) \subseteq Near(s) /\ Near(s) \subseteq 1 .. Len(s)
  BY NearIs DEF Starts
<1>3. k # 0 => /\ k \in 1 .. n /\ Firsts(s)[k] \in Near(s)
               /\ e \in Firsts(s)[k] .. Len(s)
               /\ Firsts(s)[k] .. e \subseteq Near(s)
               /\ e + 1 \notin Near(s)
  <2> SUFFICES ASSUME k # 0
               PROVE  /\ k \in 1 .. n /\ Firsts(s)[k] \in Near(s)
                      /\ e \in Firsts(s)[k] .. Len(s)
                      /\ Firsts(s)[k] .. e \subseteq Near(s)
                      /\ e + 1 \notin Near(s)
    OBVIOUS
  <2>1. k \in 1 .. n
    BY <1>1
  <2>2. Firsts(s)[k] \in Near(s)
    BY <1>1, <1>2, <2>1
  <2>3. e = LastFrom(s, Firsts(s)[k])
    BY DEF EndOf
  <2> QED BY <2>1, <2>2, <2>3, LastFromIs
<1>4. k = 0 => e = 0
  BY DEF EndOf
<1>5. e \in 0 .. Len(s)
  BY <1>1, <1>2, <1>3, <1>4
<1>6. k # n => k + 1 \in 1 .. n /\ next \in Starts(s) /\ next \in 1 .. Len(s)
  BY <1>1, <1>2
<1> HIDE DEF e
<1>7. e \in 0 .. next - 1
  <2>1. CASE k = n
    BY <1>1, <1>5, <2>1
  <2>2. CASE k # n /\ k = 0
    BY <1>1, <1>4, <1>6, <2>2
  <2>3. CASE k # n /\ k # 0
    <3>1. Firsts(s)[k] < next
      BY <1>1, <1>3, <1>6, <2>3
    <3>2. next - 1 \notin Near(s)
      BY <1>6, <2>3 DEF Starts
    <3>3. ~(next <= e)
      <4> SUFFICES ASSUME next <= e PROVE FALSE
        OBVIOUS
      <4>1. Firsts(s)[k] \in Nat /\ e \in Nat /\ next \in Nat
        BY <1>2, <1>3, <1>5, <1>6, <2>3
      <4>2. next - 1 \in Firsts(s)[k] .. e
        BY <3>1, <4>1
      <4> QED BY <1>3, <2>3, <3>2, <4>2
    <3> QED BY <1>1, <1>5, <1>6, <2>3, <3>3
  <2> QED BY <2>1, <2>2, <2>3
<1>8. ASSUME NEW i \in e + 1 .. next - 1, i \in Near(s) PROVE FALSE
  <2>1. PICK a \in Starts(s) : a <= i /\ a .. i \subseteq Near(s)
    BY <1>8, StartBefore
  <2>2. PICK l \in 1 .. n : Firsts(s)[l] = a
    BY <1>1
  <2>3. a \in Nat /\ i \in Nat /\ e \in Nat /\ next \in Nat /\ e < i /\ i < next
    <3>1. next \in Nat
      BY <1>1, <1>6
    <3> QED BY <1>2, <1>5, <2>1, <3>1
  <2>4. l > k
    <3> SUFFICES ASSUME ~(l > k) PROVE FALSE
      OBVIOUS
    <3>1. k # 0 /\ k \in 1 .. n /\ l <= k
      BY <1>1
    <3>2. a <= Firsts(s)[k]
      <4>1. Firsts(s)[k] \in Nat /\ (l < k \/ l = k)
        BY <1>1, <1>2, <1>3, <3>1
      <4>2. l < k => Firsts(s)[l] < Firsts(s)[k]
        BY <1>1, <3>1
      <4> QED BY <2>2, <2>3, <4>1, <4>2
    <3>3. a <= e
      BY <1>2, <1>3, <2>3, <3>1, <3>2
    <3>4. e + 1 \in a .. i
      BY <2>3, <3>3
    <3> QED BY <1>3, <2>1, <3>1, <3>4
  <2>5. k # n /\ k + 1 \in 1 .. n /\ k + 1 <= l
    BY <1>1, <2>4
  <2>6. next <= a
    <3>1. next = Firsts(s)[k + 1]
      BY <2>5
    <3> QED BY <1>1, <2>2, <2>3, <2>5, <3>1
  <2> QED BY <2>1, <2>3, <2>6
<1> QED BY <1>7, <1>8 DEF e

\* The loop over the hunks.
ApplyLoop(old, hunks, text, m) ==
  text = [k \in 0 .. m |-> IF k = 0 THEN old ELSE ApplyHunk(text[k - 1], hunks[k])]

LEMMA ApplyLoopExists ==
  ASSUME NEW old, NEW hunks, Len(hunks) \in Nat
  PROVE  \E g : ApplyLoop(old, hunks, g, Len(hunks))
<1> DEFINE Stuck == {m \in Nat : ~ \E g : ApplyLoop(old, hunks, g, m)}
<1> SUFFICES ASSUME Stuck # {} PROVE FALSE
  OBVIOUS
<1>1. PICK m \in Stuck : \A k \in Stuck : m <= k
  <2>1. Stuck \in SUBSET Nat
    OBVIOUS
  <2> HIDE DEF Stuck
  <2> QED BY <2>1, LeastNat
<1>2. m # 0
  <2>1. ApplyLoop(old, hunks, [k \in 0 .. 0 |-> old], 0)
    BY DEF ApplyLoop
  <2> QED BY <2>1
<1>3. PICK g : ApplyLoop(old, hunks, g, m - 1)
  <2>1. m - 1 \in Nat /\ m - 1 \notin Stuck
    BY <1>1, <1>2
  <2> QED BY <2>1
<1> DEFINE h == [k \in 0 .. m |-> IF k = m THEN ApplyHunk(g[m - 1], hunks[m]) ELSE g[k]]
<1>4. ASSUME NEW k \in 0 .. m
      PROVE  h[k] = IF k = 0 THEN old ELSE ApplyHunk(h[k - 1], hunks[k])
  <2>1. CASE k = m
    BY <1>2, <2>1
  <2>2. CASE k # m
    <3>1. k \in 0 .. m - 1
      BY <1>1, <2>2
    <3>2. h[k] = g[k]
      BY <2>2
    <3>3. k # 0 => h[k - 1] = g[k - 1]
      BY <3>1
    <3>4. g[k] = IF k = 0 THEN old ELSE ApplyHunk(g[k - 1], hunks[k])
      BY <1>3, <3>1 DEF ApplyLoop
    <3> QED BY <3>2, <3>3, <3>4
  <2> QED BY <2>1, <2>2
<1>5. ApplyLoop(old, hunks, h, m)
  <2> DEFINE w == [k \in 0 .. m |-> IF k = 0 THEN old ELSE ApplyHunk(h[k - 1], hunks[k])]
  <2>1. \A k \in 0 .. m : h[k] = w[k]
    BY <1>4
  <2>2. h = w
    BY <2>1
  <2> QED BY <2>2 DEF ApplyLoop
<1> QED BY <1>5

LEMMA ApplyRuns ==
  ASSUME NEW old, NEW hunks, Len(hunks) \in Nat
  PROVE  \E g : ApplyLoop(old, hunks, g, Len(hunks)) /\ ApplyHunks(old, hunks) = g[Len(hunks)]
<1>1. PICK g : ApplyLoop(old, hunks, g, Len(hunks))
  BY ApplyLoopExists
<1> DEFINE k == CHOOSE h : h = [n \in 0 .. Len(hunks) |->
                                  IF n = 0 THEN old ELSE ApplyHunk(h[n - 1], hunks[n])]
<1>2. ApplyHunks(old, hunks) = k[Len(hunks)]
  BY DEF ApplyHunks
<1>3. k = [n \in 0 .. Len(hunks) |-> IF n = 0 THEN old ELSE ApplyHunk(k[n - 1], hunks[n])]
  BY <1>1, Zenon DEF ApplyLoop
<1> HIDE DEF k
<1>4. ApplyLoop(old, hunks, k, Len(hunks))
  BY <1>3, Zenon DEF ApplyLoop
<1> QED BY <1>2, <1>4

\* A difference fits the text that it was made from, and turns it into the other side if
\* no hunk before the last changes the number of lines.
LEMMA OwnDifferenceApplies ==
  ASSUME NEW s \in Seq(ScriptItems), Level(DiffText(s))
  PROVE  /\ Accepts(OldText(s), DiffText(s))
         /\ ApplyHunks(OldText(s), DiffText(s)) = NewText(s)
<1> DEFINE n == Len(Firsts(s))
           hunks == DiffText(s)
<1>1. /\ n \in Nat /\ Len(s) \in Nat /\ DOMAIN Firsts(s) = 1 .. n
      /\ \A k \in 1 .. n : Firsts(s)[k] \in Near(s) /\ Firsts(s)[k] - 1 \notin Near(s)
                           /\ Firsts(s)[k] \in 1 .. Len(s)
  <2>1. Firsts(s) \in Seq(1 .. Len(s))
    BY FirstsAre
  <2>2. n \in Nat /\ Len(s) \in Nat /\ DOMAIN Firsts(s) = 1 .. n
    BY <2>1, LenProperties
  <2>3. \A k \in 1 .. n : Firsts(s)[k] \in Starts(s)
    BY FirstsAre
  <2> QED BY <2>2, <2>3, NearIs DEF Starts
<1>2. /\ hunks = [k \in 1 .. n |-> HunkOf(s, Firsts(s)[k])]
      /\ Len(hunks) = n
  <2>1. hunks = [k \in 1 .. n |-> HunkOf(s, Firsts(s)[k])]
    BY <1>1 DEF DiffText
  <2> QED BY <1>1, <2>1
<1>3. Accepts(OldText(s), hunks)
  BY <1>1, <1>2, HunkFits DEF Accepts
<1>4. \A k \in 1 .. n - 1 : Len(OldItems(hunks[k].body)) = Len(NewItems(hunks[k].body))
  BY <1>2 DEF Level
<1>5. PICK g : ApplyLoop(OldText(s), hunks, g, n) /\ ApplyHunks(OldText(s), hunks) = g[n]
  BY <1>1, <1>2, ApplyRuns
<1> HIDE DEF n, hunks
<1> DEFINE Even(e) == Len(NewText(SubSeq(s, 1, e))) = Len(OldText(SubSeq(s, 1, e)))
           Good(k) == g[k] = Halfway(s, EndOf(s, k)) /\ (k < n => Even(EndOf(s, k)))
           Wrong == {k \in 0 .. n : ~ Good(k)}
<1>6. Good(0)
  <2>1. /\ SubSeq(s, 1, 0) = <<>> /\ SubSeq(s, 1, Len(s)) = s /\ s \in Seq(ScriptItems)
    BY FrontIs
  <2>2. EndOf(s, 0) = 0 /\ 0 + 1 = 1
    BY DEF EndOf
  <2>3. <<>> \in Seq(ScriptItems) /\ OldItems(<<>>) = <<>> /\ NewItems(<<>>) = <<>>
    <3>1. \A S : Kept(<<>>, S) = <<>>
      BY KeptOfNone
    <3>2. <<>> \in Seq(ScriptItems)
      OBVIOUS
    <3> QED BY <3>1, <3>2, Zenon DEF OldItems, NewItems
  <2>4. OldText(<<>>) = <<>> /\ NewText(<<>>) = <<>>
    BY <2>3 DEF OldText, NewText, LinesOf
  <2>5. Halfway(s, 0) = OldText(s)
    <3>1. OldText(s) \in Seq(Lines)
      BY SidesTyped
    <3> QED BY <2>1, <2>2, <2>4, <3>1, ConcatEmptySeq DEF Halfway
  <2>6. g[0] = OldText(s)
    BY <1>1, <1>5 DEF ApplyLoop, n
  <2> QED BY <2>1, <2>2, <2>4, <2>5, <2>6
<1>7. ASSUME NEW k \in 1 .. n, Good(k - 1) PROVE Good(k)
  <2> DEFINE a == Firsts(s)[k]
             e == EndOf(s, k - 1)
  <2>1. a \in Near(s) /\ a - 1 \notin Near(s) /\ k - 1 \in 0 .. n /\ k - 1 # n /\ (k - 1) + 1 = k /\ k # 0
    BY <1>1 DEF n
  <2>2. e \in 0 .. a - 1 /\ \A i \in e + 1 .. a - 1 : i \notin Near(s)
    BY <2>1, GapBehind DEF n
  <2>3. Even(e)
    <3>1. n \in Nat /\ k \in 1 .. n
      BY <1>1 DEF n
    <3>2. k - 1 < n
      BY <3>1
    <3> QED BY <1>7, <3>2
  <2>4. EndOf(s, k) = LastFrom(s, a)
    BY <2>1 DEF EndOf
  <2>5. hunks[k] = HunkOf(s, a)
    BY <1>2 DEF n
  <2> HIDE DEF a, e
  <2>6. /\ ApplyHunk(Halfway(s, e), HunkOf(s, a)) = Halfway(s, LastFrom(s, a))
        /\ Len(OldItems(HunkOf(s, a).body)) = Len(NewItems(HunkOf(s, a).body)) => Even(LastFrom(s, a))
    BY <2>1, <2>2, <2>3, HunkMoves
  <2>7. g[k] = ApplyHunk(g[k - 1], hunks[k])
    BY <1>1, <1>5, <2>1 DEF ApplyLoop, n
  <2>8. g[k] = Halfway(s, EndOf(s, k))
    BY <1>7, <2>4, <2>5, <2>6, <2>7 DEF e
  <2>9. k < n => Even(EndOf(s, k))
    <3>1. k < n => k \in 1 .. n - 1
      BY <1>1 DEF n
    <3> QED BY <1>4, <2>4, <2>5, <2>6, <3>1
  <2> QED BY <2>8, <2>9
<1>8. Wrong = {}
  <2> SUFFICES ASSUME Wrong # {} PROVE FALSE
    OBVIOUS
  <2>0. n \in Nat
    BY <1>1 DEF n
  <2>1. PICK k \in Wrong : \A i \in Wrong : k <= i
    <3>1. Wrong \in SUBSET Nat
      BY <2>0
    <3> HIDE DEF Wrong
    <3> QED BY <3>1, LeastNat
  <2> HIDE DEF Good
  <2>2. k \in 1 .. n
    BY <1>6, <2>0
  <2>3. Good(k - 1)
    <3>1. k - 1 \in 0 .. n /\ k - 1 < k
      BY <2>0, <2>2
    <3> QED BY <2>1, <2>0, <3>1
  <2> QED BY <1>7, <2>2, <2>3
<1>9. g[n] = NewText(s)
  <2> DEFINE e == EndOf(s, n)
             q == SubSeq(s, e + 1, Len(s))
  <2>1. g[n] = Halfway(s, e)
    <3>1. n \in 0 .. n
      BY <1>1 DEF n
    <3> QED BY <1>8, <3>1
  <2>2. e \in 0 .. Len(s) /\ \A i \in e + 1 .. Len(s) : i \notin Near(s)
    <3>1. n \in 0 .. n /\ (Len(s) + 1) - 1 = Len(s)
      BY <1>1 DEF n
    <3> QED BY <3>1, GapBehind DEF n
  <2> HIDE DEF e
  <2>3. /\ SubSeq(s, 1, e) \in Seq(ScriptItems) /\ q \in Seq(ScriptItems)
        /\ Len(q) = Len(s) - e /\ \A i \in 1 .. Len(s) - e : q[i] = s[e + i]
        /\ SubSeq(s, 1, Len(s)) = SubSeq(s, 1, e) \o q
    <3>1. PICK l \in e .. Len(s) : l = Len(s)
      BY <1>1, <2>2
    <3>2. /\ SubSeq(s, 1, e) \in Seq(ScriptItems) /\ SubSeq(s, e + 1, l) \in Seq(ScriptItems)
          /\ Len(SubSeq(s, e + 1, l)) = l - e
          /\ \A i \in 1 .. l - e : SubSeq(s, e + 1, l)[i] = s[e + i]
          /\ SubSeq(s, 1, l) = SubSeq(s, 1, e) \o SubSeq(s, e + 1, l)
      <4>1. e \in 0 .. Len(s)
        BY <2>2
      <4> QED BY <4>1, CutAt
    <3> QED BY <3>1, <3>2
  <2>4. OldText(q) = NewText(q)
    <3>1. \A i \in 1 .. Len(q) : q[i].tag = " "
      <4> SUFFICES ASSUME NEW i \in 1 .. Len(q) PROVE q[i].tag = " "
        OBVIOUS
      <4>1. i \in 1 .. Len(s) - e
        BY <2>3
      <4>2. e + i \in e + 1 .. Len(s) /\ e + i \in 1 .. Len(s) /\ q[i] = s[e + i]
        BY <1>1, <2>2, <2>3, <4>1
      <4> QED BY <2>2, <4>2, NearIs
    <3> QED BY <2>3, <3>1, SameSides
  <2>5. NewText(s) = NewText(SubSeq(s, 1, e)) \o NewText(q)
    <3>1. SubSeq(s, 1, Len(s)) = s
      BY FrontIs
    <3>2. NewText(SubSeq(s, 1, e) \o q) = NewText(SubSeq(s, 1, e)) \o NewText(q)
      BY <2>3, SidesConcat
    <3> QED BY <2>3, <3>1, <3>2
  <2> QED BY <2>1, <2>4, <2>5 DEF Halfway
<1> QED BY <1>3, <1>5, <1>9 DEF hunks


(* Every difference made from a file's own text turns it into the other    *)
(* side (RoundTrip).                                                       *)

\* What an edit has computed is what apply_difference makes of its script.
ScriptInv ==
  job.pc \in {"planned", "rejected"} /\ job.script # <<>> =>
    /\ job.script \in Scripts
    /\ job.new = IF Accepts(job.old, DiffText(job.script))
                 THEN ApplyHunks(job.old, DiffText(job.script)) ELSE job.old
    /\ job.pc = IF Accepts(job.old, DiffText(job.script)) /\ job.new # job.old
                THEN "planned" ELSE "rejected"

LEMMA ScriptInvStep == PatchInv /\ ScriptInv /\ PatchMove => ScriptInv'
<1> SUFFICES ASSUME PatchInv, ScriptInv, PatchMove PROVE ScriptInv'
  OBVIOUS
<1> DEFINE Elsewhere == job'.pc \notin {"planned", "rejected"}
<1>0. Elsewhere => ScriptInv'
  BY DEF ScriptInv
<1>1. CASE StartDifference
  <2>1. PICK f \in Files, s \in Scripts : ApplyDifference(f, s)
    BY <1>1 DEF StartDifference
  <2> DEFINE ok == Accepts(file[f], DiffText(s))
             new == IF ok THEN ApplyHunks(file[f], DiffText(s)) ELSE file[f]
  <2>2. job' = [pc |-> IF ok /\ new # file[f] THEN "planned" ELSE "rejected",
                file |-> f, old |-> file[f], new |-> new, script |-> s]
    BY <2>1 DEF ApplyDifference, Plan
  <2>3. /\ job'.script = s /\ job'.old = file[f] /\ job'.new = new
        /\ job'.pc = IF ok /\ new # file[f] THEN "planned" ELSE "rejected"
    BY <2>2
  <2> QED BY <2>3 DEF ScriptInv
<1>2. CASE StartReplacement
  <2>1. PICK f \in Files, a \in Lines, r \in Replacements : ReplaceAnchor(f, a, r)
    BY <1>2 DEF StartReplacement
  <2>2. \E new, ok : Plan(f, new, ok, <<>>)
    BY <2>1 DEF ReplaceAnchor
  <2>3. job'.script = <<>>
    BY <2>2 DEF Plan
  <2> QED BY <2>3 DEF ScriptInv
<1>3. CASE Preview \/ SnapshotFails \/ Crash \/ StopRollback
  <2>1. job' = [pc |-> "idle"]
    BY <1>3, Zenon DEF Preview, SnapshotFails, Crash, StopRollback, NoJob
  <2> QED BY <1>0, <2>1
<1>4. CASE TakeSnapshot \/ TruncateIndex \/ SaveIndex \/ WriteFile
  BY <1>0, <1>4 DEF TakeSnapshot, TruncateIndex, SaveIndex, WriteFile
<1>5. CASE StartRollback \/ UnlinkSnapshot
  BY <1>0, <1>5 DEF StartRollback, UnlinkSnapshot
<1>6. CASE TruncateFile
  <2>1. job = [pc |-> job.pc, file |-> job.file, new |-> job.new]
    BY <1>6 DEF TruncateFile, PatchInv, JobInv
  <2>2. job' = [job EXCEPT !.pc = "write_file"]
    BY <1>6 DEF TruncateFile
  <2> QED BY <1>0, <2>1, <2>2
<1>7. CASE RestoreFile
  <2>1. job = [pc |-> job.pc, left |-> job.left]
    BY <1>7 DEF RestoreFile, PatchInv, JobInv, RollingBack
  <2>2. job' = [job EXCEPT !.pc = "fill"]
    BY <1>7 DEF RestoreFile
  <2> QED BY <1>0, <2>1, <2>2
<1>8. CASE FillFile
  <2>1. job = [pc |-> job.pc, left |-> job.left]
    BY <1>8 DEF FillFile, PatchInv, JobInv, RollingBack
  <2>2. job' = [job EXCEPT !.pc = "unlink"]
    BY <1>8 DEF FillFile
  <2> QED BY <1>0, <2>1, <2>2
<1>9. CASE UNCHANGED patchVars
  BY <1>9 DEF ScriptInv, patchVars
<1> QED BY <1>1, <1>2, <1>3, <1>4, <1>5, <1>6, <1>7, <1>8, <1>9 DEF PatchMove, EditStep, RollbackStep

(* A difference that diff_text makes from a file's own text turns the file *)
(* into the other side: apply_difference accepts it and no line is lost,   *)
(* doubled or misplaced, as long as no hunk before the last changes the    *)
(* number of lines; for any lines, width of the context and edit script    *)
(* that difflib may find (RoundTrip).                                      *)
THEOREM RoundTripHolds == SessionSpec => []RoundTrip
<1>1. SessionInit => ScriptInv
  BY DEF SessionInit, PatchInit, NoJob, ScriptInv
<1>2. ScriptInv => RoundTrip
  <2> SUFFICES ASSUME ScriptInv, OwnDifference, Level(DiffText(job.script))
               PROVE  job.pc = "planned" /\ job.new = NewText(job.script)
    BY DEF RoundTrip
  <2>1. /\ job.pc \in {"planned", "rejected"} /\ job.script # <<>>
        /\ job.old = OldText(job.script) /\ OldText(job.script) # NewText(job.script)
    BY DEF OwnDifference
  <2>2. job.script \in Seq(ScriptItems)
    BY <2>1, ScriptsAssumption DEF ScriptInv, IsScript, ScriptItems
  <2>3. PICK s \in Seq(ScriptItems) : s = job.script
    BY <2>2
  <2>4. /\ Accepts(OldText(s), DiffText(s))
        /\ ApplyHunks(OldText(s), DiffText(s)) = NewText(s)
    BY <2>3, OwnDifferenceApplies
  <2> QED BY <2>1, <2>3, <2>4 DEF ScriptInv
<1>3. PatchInv /\ ScriptInv /\ [SessionNext]_sessionVars => ScriptInv'
  BY ScriptInvStep, PatchMoves
<1>4. PatchInv /\ [SessionNext]_sessionVars => PatchInv'
  BY PatchInvStep, PatchMoves
<1> QED BY <1>1, <1>2, <1>3, <1>4, PatchInvInit, PTL DEF SessionSpec


-----------------------------------------------------------------------------
(* The types of an editing session.                                        *)

\* The lines a hunk or a replacement is spliced into stay lines.
LEMMA SpliceTyped ==
  ASSUME NEW lines \in Seq(Lines), NEW out \in Seq(Lines), NEW from \in Nat, NEW n \in Nat
  PROVE  Splice(lines, from, n, out) \in Seq(Lines)
<1> DEFINE l == Least(from, Len(lines))
           r == from + n + 1
           p == SubSeq(lines, 1, l)
           q == SubSeq(lines, r, Len(lines))
<1>1. /\ Len(lines) \in Nat /\ l \in Int /\ l <= Len(lines) /\ r \in Int /\ 1 <= r
      /\ \A i \in 1 .. Len(lines) : lines[i] \in Lines
  BY DEF Least
<1>2. Splice(lines, from, n, out) = (p \o out) \o q
  BY DEF Splice
<1> HIDE DEF l, r
<1>3. p \in Seq(Lines)
  <2>1. 1 \in Int /\ \A i \in 1 .. l : lines[i] \in Lines
    BY <1>1
  <2> QED BY <1>1, <2>1, SubSeqProperties
<1>4. q \in Seq(Lines)
  <2>1. Len(lines) \in Int /\ \A i \in r .. Len(lines) : lines[i] \in Lines
    BY <1>1
  <2> QED BY <1>1, <2>1, SubSeqProperties
<1> HIDE DEF p, q
<1>5. p \o out \in Seq(Lines)
  BY <1>3, ConcatProperties
<1>6. (p \o out) \o q \in Seq(Lines)
  BY <1>4, <1>5, ConcatProperties
<1> QED BY <1>2, <1>6

LEMMA HunkTyped ==
  ASSUME NEW s \in Seq(ScriptItems), NEW a \in Near(s), a - 1 \notin Near(s),
         NEW lines \in Seq(Lines)
  PROVE  ApplyHunk(lines, HunkOf(s, a)) \in Seq(Lines)
<1> DEFINE hunk == HunkOf(s, a)
           p == SubSeq(s, 1, a - 1)
<1>1. /\ p \in Seq(ScriptItems) /\ hunk.body \in Seq(ScriptItems)
      /\ First(hunk) = Len(OldText(p)) + 1
  BY HunkIs
<1> HIDE DEF hunk, p
<1>2. /\ OldItems(hunk.body) \in Seq(ScriptItems) /\ NewText(hunk.body) \in Seq(Lines)
      /\ OldText(p) \in Seq(Lines)
  BY <1>1, SidesTyped
<1>3. First(hunk) - 1 \in Nat /\ Len(OldItems(hunk.body)) \in Nat
  <2>1. Len(OldText(p)) \in Nat
    BY <1>2, LenProperties
  <2>2. Len(OldItems(hunk.body)) \in Nat
    BY <1>2, LenProperties
  <2>3. (Len(OldText(p)) + 1) - 1 \in Nat
    BY <2>1
  <2> QED BY <1>1, <2>2, <2>3
<1>4. ApplyHunk(lines, hunk) =
        Splice(lines, First(hunk) - 1, Len(OldItems(hunk.body)), NewText(hunk.body))
  BY DEF ApplyHunk, NewText
<1> QED BY <1>2, <1>3, <1>4, SpliceTyped DEF hunk

\* The difference of any script leaves a text of lines, whatever the text it is applied to.
LEMMA AppliedTyped ==
  ASSUME NEW s \in Seq(ScriptItems), NEW old \in Seq(Lines)
  PROVE  ApplyHunks(old, DiffText(s)) \in Seq(Lines)
<1> DEFINE n == Len(Firsts(s))
           hunks == DiffText(s)
<1>1. /\ n \in Nat /\ DOMAIN Firsts(s) = 1 .. n
      /\ \A k \in 1 .. n : Firsts(s)[k] \in Near(s) /\ Firsts(s)[k] - 1 \notin Near(s)
  <2>1. Firsts(s) \in Seq(1 .. Len(s))
    BY FirstsAre
  <2>2. n \in Nat /\ DOMAIN Firsts(s) = 1 .. n
    BY <2>1, LenProperties
  <2> QED BY <2>2, FirstsAre DEF Starts
<1>2. /\ hunks = [k \in 1 .. n |-> HunkOf(s, Firsts(s)[k])]
      /\ Len(hunks) = n
  <2>1. hunks = [k \in 1 .. n |-> HunkOf(s, Firsts(s)[k])]
    BY <1>1 DEF DiffText
  <2> QED BY <1>1, <2>1
<1>3. PICK g : ApplyLoop(old, hunks, g, n) /\ ApplyHunks(old, hunks) = g[n]
  BY <1>1, <1>2, ApplyRuns
<1> HIDE DEF n, hunks
<1> DEFINE Wrong == {k \in 0 .. n : g[k] \notin Seq(Lines)}
<1>4. Wrong = {}
  <2> SUFFICES ASSUME Wrong # {} PROVE FALSE
    OBVIOUS
  <2>0. n \in Nat
    BY <1>1 DEF n
  <2>1. PICK k \in Wrong : \A i \in Wrong : k <= i
    <3>1. Wrong \in SUBSET Nat
      BY <2>0
    <3> HIDE DEF Wrong
    <3> QED BY <3>1, LeastNat
  <2>2. g[0] = old
    BY <1>3, <2>0 DEF ApplyLoop
  <2>3. k \in 1 .. n
    BY <2>0, <2>2
  <2>4. g[k - 1] \in Seq(Lines)
    <3>1. k - 1 \in 0 .. n /\ k - 1 < k
      BY <2>0, <2>3
    <3> QED BY <2>1, <2>0, <3>1
  <2>5. g[k] = ApplyHunk(g[k - 1], HunkOf(s, Firsts(s)[k]))
    <3>1. k \in 0 .. n /\ k # 0
      BY <2>0, <2>3
    <3>2. g[k] = ApplyHunk(g[k - 1], hunks[k])
      BY <1>3, <3>1 DEF ApplyLoop
    <3> QED BY <1>2, <2>3, <3>2 DEF n
  <2>6. Firsts(s)[k] \in Near(s) /\ Firsts(s)[k] - 1 \notin Near(s)
    BY <1>1, <2>3 DEF n
  <2>7. g[k] \in Seq(Lines)
    BY <2>4, <2>5, <2>6, HunkTyped
  <2> QED BY <2>1, <2>7
<1> QED
  <2>1. n \in 0 .. n
    BY <1>1 DEF n
  <2> QED BY <1>3, <1>4, <2>1 DEF hunks

\* Everything written or about to be written is a text, and the index has room for the
\* entry of the edit under way.
TextsInv ==
  /\ file \in [Files -> Seq(Lines)]
  /\ DOMAIN snaps \subseteq (1 .. MaxEdits) \X Files
  /\ \A nf \in DOMAIN snaps : snaps[nf] \in Seq(Lines)
  /\ crashes \in 0 .. MaxCrashes
  /\ job.pc \in {"planned", "truncate_index", "save_index", "truncate_file", "write_file"} =>
       job.new \in Seq(Lines)
  /\ Len(Entries) <= MaxEdits
  /\ job.pc \in {"planned", "truncate_index"} => Len(Entries) < MaxEdits
  /\ job.pc = "save_index" => Len(job.entries) <= MaxEdits

LEMMA TextsInvInit == SessionInit => TextsInv
<1> SUFFICES ASSUME PatchInit PROVE TextsInv
  BY DEF SessionInit
<1>1. /\ DOMAIN file = Files /\ \A f \in Files : file[f] \in InitialTexts[f]
      /\ file \in [Files -> UNION {InitialTexts[f] : f \in Files}]
      /\ DOMAIN snaps = {} /\ job.pc = "idle" /\ crashes = 0 /\ Entries = <<>>
  BY DEF PatchInit, Saved, Entries, NoJob
<1>2. file \in [Files -> Seq(Lines)]
  BY <1>1, TextsAssumption DEF Text
<1> QED BY <1>1, <1>2, PatchBounds DEF TextsInv

\* What is computed from the texts of the files is a text.
LEMMA DifferenceTyped ==
  ASSUME TextsInv, NEW f \in Files, NEW s \in Scripts, ApplyDifference(f, s)
  PROVE  job'.new \in Seq(Lines)
<1> DEFINE ok == Accepts(file[f], DiffText(s))
           new == IF ok THEN ApplyHunks(file[f], DiffText(s)) ELSE file[f]
<1>1. file[f] \in Seq(Lines)
  BY DEF TextsInv
<1>2. s \in Seq(ScriptItems)
  BY ScriptsAssumption DEF IsScript, ScriptItems
<1>3. ApplyHunks(file[f], DiffText(s)) \in Seq(Lines)
  BY <1>1, <1>2, AppliedTyped
<1>4. job'.new = new
  BY DEF ApplyDifference, Plan
<1> QED BY <1>1, <1>3, <1>4

LEMMA ReplacementTyped ==
  ASSUME TextsInv, NEW f \in Files, NEW a \in Lines, NEW r \in Replacements, ReplaceAnchor(f, a, r)
  PROVE  job'.new \in Seq(Lines)
<1> DEFINE found == {i \in DOMAIN file[f] : file[f][i] = a}
           i == CHOOSE j \in found : TRUE
           new == Splice(file[f], i - 1, 1, r)
<1>1. file[f] \in Seq(Lines) /\ r \in Seq(Lines)
  BY TextsAssumption DEF TextsInv, Text
<1>2. job'.new = IF Cardinality(found) = 1 THEN new ELSE file[f]
  BY DEF ReplaceAnchor, Plan
<1>3. CASE found = {}
  <2>1. Cardinality({}) = 0
    BY FS_EmptySet
  <2>2. Cardinality(found) # 1
    <3> HIDE DEF found
    <3> QED BY <1>3, <2>1
  <2>3. job'.new = file[f]
    <3> HIDE DEF found, new
    <3> QED BY <1>2, <2>2
  <2> QED BY <1>1, <2>3
<1>4. CASE found # {}
  <2>1. i \in found
    BY <1>4
  <2>2. i - 1 \in Nat
    BY <1>1, <2>1
  <2>3. new \in Seq(Lines)
    <3> HIDE DEF i
    <3> QED BY <1>1, <2>2, SpliceTyped
  <2> QED BY <1>1, <1>2, <2>3
<1> QED BY <1>3, <1>4

\* Every step of an edit, of a rollback and of a crash keeps it.
LEMMA TextsInvStep == PatchInv /\ TextsInv /\ PatchMove => TextsInv'
<1> SUFFICES ASSUME PatchInv, TextsInv, PatchMove PROVE TextsInv'
  OBVIOUS
<1>0. /\ log.torn => log = Torn
      /\ ~log.torn => log = Saved(Entries) /\ Entries \in Seq(Files)
      /\ JobInv
  BY DEF PatchInv, PatchTypes, Torn, Saved
<1>1. CASE StartDifference \/ StartReplacement
  <2>1. /\ job'.new \in Seq(Lines) /\ job'.pc \in {"planned", "rejected"}
        /\ UNCHANGED <<file, snaps, log, crashes>> /\ Len(Entries) < MaxEdits
    <3>1. CASE StartDifference
      <4>1. PICK f \in Files, s \in Scripts : ApplyDifference(f, s)
        BY <3>1 DEF StartDifference
      <4>2. job'.pc \in {"planned", "rejected"}
        BY <4>1 DEF ApplyDifference, Plan
      <4> QED BY <3>1, <4>1, <4>2, DifferenceTyped DEF StartDifference
    <3>2. CASE StartReplacement
      <4>1. PICK f \in Files, a \in Lines, r \in Replacements : ReplaceAnchor(f, a, r)
        BY <3>2 DEF StartReplacement
      <4>2. job'.pc \in {"planned", "rejected"}
        BY <4>1 DEF ReplaceAnchor, Plan
      <4> QED BY <3>2, <4>1, <4>2, ReplacementTyped DEF StartReplacement
    <3> QED BY <1>1, <3>1, <3>2
  <2> QED BY <2>1 DEF TextsInv, Entries
<1>2. CASE Preview \/ SnapshotFails \/ StopRollback
  <2>1. job' = [pc |-> "idle"] /\ UNCHANGED <<file, snaps, log, crashes>>
    BY <1>2, Zenon DEF Preview, SnapshotFails, StopRollback, NoJob
  <2> QED BY <2>1 DEF TextsInv, Entries
<1>3. CASE TakeSnapshot
  <2> DEFINE n == Len(Entries) + 1
  <2>1. /\ ~log.torn /\ job.pc = "planned" /\ job.file \in Files /\ Entries \in Seq(Files)
        /\ job' = [pc |-> "truncate_index", file |-> job.file, new |-> job.new]
        /\ UNCHANGED <<file, log, crashes>>
    BY <1>0, <1>3 DEF TakeSnapshot, JobInv
  <2>2. /\ DOMAIN snaps' = DOMAIN snaps \cup {<<n, job.file>>}
        /\ \A nf \in DOMAIN snaps' :
             snaps'[nf] = IF nf = <<n, job.file>> THEN file[job.file] ELSE snaps[nf]
    BY <1>3 DEF TakeSnapshot, Snapshot
  <2>3. <<n, job.file>> \in (1 .. MaxEdits) \X Files
    <3>1. Len(Entries) \in Nat /\ Len(Entries) < MaxEdits
      BY <2>1, LenProperties DEF TextsInv
    <3> QED BY <2>1, <3>1, PatchBounds
  <2>4. \A nf \in DOMAIN snaps' : snaps'[nf] \in Seq(Lines)
    BY <2>1, <2>2 DEF TextsInv
  <2>5. DOMAIN snaps' \subseteq (1 .. MaxEdits) \X Files
    <3> HIDE DEF n
    <3> QED BY <2>2, <2>3 DEF TextsInv
  <2> QED BY <2>1, <2>4, <2>5 DEF TextsInv, Entries
<1>4. CASE TruncateIndex
  <2>1. /\ ~log.torn /\ job.pc = "truncate_index" /\ job.file \in Files /\ Entries \in Seq(Files)
        /\ job' = [pc |-> "save_index", file |-> job.file, new |-> job.new,
                   entries |-> Append(Entries, job.file)]
        /\ log' = Torn /\ UNCHANGED <<file, snaps, crashes>>
    BY <1>0, <1>4 DEF TruncateIndex, JobInv
  <2>2. Len(job'.entries) = Len(Entries) + 1 /\ Len(Entries) \in Nat
    BY <2>1
  <2>3. Entries' = <<>>
    BY <2>1 DEF Entries, Torn
  <2>4. Len(job'.entries) <= MaxEdits /\ Len(Entries)' <= MaxEdits
    BY <2>1, <2>2, <2>3, PatchBounds DEF TextsInv
  <2> QED BY <2>1, <2>4 DEF TextsInv
<1>5. CASE SaveIndex
  <2>1. /\ job.pc = "save_index" /\ log' = Saved(job.entries)
        /\ job' = [pc |-> "truncate_file", file |-> job.file, new |-> job.new]
        /\ UNCHANGED <<file, snaps, crashes>>
    BY <1>5 DEF SaveIndex
  <2>2. Entries' = job.entries
    BY <2>1 DEF Entries, Saved
  <2> QED BY <2>1, <2>2 DEF TextsInv
<1>6. CASE TruncateFile
  <2>1. job = [pc |-> job.pc, file |-> job.file, new |-> job.new] /\ job.pc = "truncate_file"
    BY <1>6 DEF TruncateFile, PatchInv, JobInv
  <2>2. job' = [job EXCEPT !.pc = "write_file"] /\ UNCHANGED <<snaps, log, crashes>>
        /\ file' = [file EXCEPT ![job.file] = <<>>]
    BY <1>6 DEF TruncateFile
  <2>3. job'.pc = "write_file" /\ job'.new = job.new
    BY <2>1, <2>2
  <2>4. file' \in [Files -> Seq(Lines)]
    <3>1. <<>> \in Seq(Lines)
      OBVIOUS
    <3> QED BY <2>2, <3>1 DEF TextsInv
  <2> QED BY <2>1, <2>2, <2>3, <2>4 DEF TextsInv, Entries
<1>7. CASE WriteFile
  <2>1. /\ job.new \in Seq(Lines) /\ file' = [file EXCEPT ![job.file] = job.new]
        /\ job' = [pc |-> "done"] /\ UNCHANGED <<snaps, log, crashes>>
    BY <1>7 DEF WriteFile, TextsInv
  <2> QED BY <2>1 DEF TextsInv, Entries
<1>8. CASE StartRollback \/ UnlinkSnapshot
  <2>1. /\ job'.pc = "restore" /\ UNCHANGED <<file, log, crashes>>
        /\ DOMAIN snaps' \subseteq DOMAIN snaps
        /\ \A nf \in DOMAIN snaps' : snaps'[nf] = snaps[nf]
    <3>1. CASE StartRollback
      BY <3>1 DEF StartRollback
    <3>2. CASE UnlinkSnapshot
      BY <3>2 DEF UnlinkSnapshot, Restrict
    <3> QED BY <1>8, <3>1, <3>2
  <2>2. DOMAIN snaps' \subseteq (1 .. MaxEdits) \X Files /\ \A nf \in DOMAIN snaps' : snaps'[nf] \in Seq(Lines)
    BY <2>1 DEF TextsInv
  <2> QED BY <2>1, <2>2 DEF TextsInv, Entries
<1>9. CASE RestoreFile
  <2>1. job = [pc |-> job.pc, left |-> job.left]
    BY <1>9 DEF RestoreFile, PatchInv, JobInv, RollingBack
  <2>2. job' = [job EXCEPT !.pc = "fill"] /\ UNCHANGED <<snaps, log, crashes>>
        /\ file' = [file EXCEPT ![Entries[job.left]] = <<>>]
    BY <1>9 DEF RestoreFile
  <2>3. job'.pc = "fill"
    BY <2>1, <2>2
  <2>4. file' \in [Files -> Seq(Lines)]
    <3>1. <<>> \in Seq(Lines)
      OBVIOUS
    <3> QED BY <2>2, <3>1 DEF TextsInv
  <2> QED BY <2>2, <2>3, <2>4 DEF TextsInv, Entries
<1>10. CASE FillFile
  <2>1. job = [pc |-> job.pc, left |-> job.left] /\ There(job.left)
    BY <1>10 DEF FillFile, PatchInv, JobInv, RollingBack
  <2>2. job' = [job EXCEPT !.pc = "unlink"] /\ UNCHANGED <<snaps, log, crashes>>
        /\ file' = [file EXCEPT ![Entries[job.left]] = snaps[Snap(job.left)]]
    BY <1>10 DEF FillFile
  <2>3. job'.pc = "unlink"
    BY <2>1, <2>2
  <2>4. file' \in [Files -> Seq(Lines)]
    <3>1. snaps[Snap(job.left)] \in Seq(Lines)
      BY <2>1 DEF TextsInv, There
    <3> QED BY <2>2, <3>1 DEF TextsInv
  <2> QED BY <2>2, <2>3, <2>4 DEF TextsInv, Entries
<1>11. CASE Crash
  <2>1. /\ job' = [pc |-> "idle"] /\ UNCHANGED <<file, snaps, log>>
        /\ crashes' = crashes + 1 /\ crashes < MaxCrashes
    BY <1>11, Zenon DEF Crash, NoJob
  <2>2. crashes' \in 0 .. MaxCrashes
    BY <2>1, PatchBounds DEF TextsInv
  <2> QED BY <2>1, <2>2 DEF TextsInv, Entries
<1>12. CASE UNCHANGED patchVars
  BY <1>12 DEF patchVars, TextsInv, Entries
<1> QED BY <1>1, <1>2, <1>3, <1>4, <1>5, <1>6, <1>7, <1>8, <1>9, <1>10, <1>11, <1>12
        DEF PatchMove, EditStep, RollbackStep

(* The files, the snapshots and the index of an editing session, and the   *)
(* record of a coding session, keep their types: above all, whatever a     *)
(* difference is applied to, stale or not, what is written is a text, and  *)
(* the index has room for the entry of the edit under way.                 *)
THEOREM SessionTyped == SessionSpec => []SessionTypeOK
<1>1. PatchInv /\ SessionInv /\ TextsInv => SessionTypeOK
  <2> SUFFICES ASSUME PatchInv, SessionInv, TextsInv PROVE SessionTypeOK
    OBVIOUS
  <2>1. log = Torn \/ (~log.torn /\ Entries \in Seq(Files))
    BY DEF PatchInv, PatchTypes, Saved
  <2>2. PatchTypeOK
    BY <2>1 DEF TextsInv, PatchTypeOK
  <2> QED BY <2>2 DEF SessionInv, SessionTypeOK
<1>2. PatchInv /\ TextsInv /\ [SessionNext]_sessionVars => TextsInv'
  BY TextsInvStep, PatchMoves
<1>3. PatchInv /\ [SessionNext]_sessionVars => PatchInv'
  BY PatchInvStep, PatchMoves
<1>4. SessionInv /\ [SessionNext]_sessionVars => SessionInv'
  BY SessionInvStep
<1> QED BY <1>1, <1>2, <1>3, <1>4, TextsInvInit, PatchInvInit, SessionInvInit, PTL DEF SessionSpec

-----------------------------------------------------------------------------
(* A child's capabilities only tighten its parent's.                      *)

\* A text covered by a covered pattern is covered.
LEMMA CoversTransitive ==
  ASSUME NEW p \in Patterns, NEW q \in Patterns \ {Every}, NEW x \in Names,
         Covers(p, q), Covers(q, x)
  PROVE  Covers(p, x)
BY ToolsAssumption DEF Covers, Patterns, Names, Every, Bare, Glob

\* What a child's tools allow, its parent's allow.
LEMMA ToolsTighten ==
  ASSUME NEW parent \in Blocks, NEW request \in Blocks, NEW x \in Names,
         ToolAllowed(x, ChildTools(parent, request))
  PROVE  ToolAllowed(x, parent.tools)
<1>1. CASE Every \in request.tools
  BY <1>1 DEF ChildTools
<1>2. CASE Every \notin request.tools
  <2>1. PICK q \in request.tools : ToolAllowed(q, parent.tools) /\ Covers(q, x)
    BY <1>2 DEF ChildTools, ToolAllowed
  <2>2. PICK p \in parent.tools : Covers(p, q)
    BY <2>1 DEF ToolAllowed
  <2>3. p \in Patterns /\ q \in Patterns \ {Every}
    BY <1>2 DEF Blocks
  <2>4. Covers(p, x)
    BY <2>1, <2>2, <2>3, CoversTransitive
  <2>5. QED
    BY <2>4 DEF ToolAllowed
<1>3. QED
  BY <1>1, <1>2

\* The stricter of two limits is at most each that is set.
LEMMA StricterBinds ==
  ASSUME NEW a \in Nat, NEW b \in Nat, a # 0
  PROVE  Stricter(a, b) # 0 /\ Stricter(a, b) \in Nat /\ Stricter(a, b) =< a
BY DEF Stricter

\* Delegation only tightens: whatever is asked for, a child that is granted
\* gets a block no call passes more easily than the parent's.
THEOREM TightensOnly ==
  ASSUME NEW parent \in Blocks, NEW request \in Blocks,
         Granted(parent, request)
  PROVE  NeverFreer(parent, ChildBlock(parent, request))
<1> DEFINE mine == ChildBlock(parent, request)
<1> SUFFICES ASSUME NEW x \in Names, NEW risk \in Risks, NEW now \in Times
             PROVE  Evaluate(mine, x, risk, now) >= Evaluate(parent, x, risk, now)
  BY DEF NeverFreer
<1>1. parent.readable /\ mine.readable /\ mine.untrusted = parent.untrusted
  BY DEF Granted, ChildBlock
<1>2. ToolAllowed(x, mine.tools) => ToolAllowed(x, parent.tools)
  BY ToolsTighten DEF ChildBlock
<1>3. Expired(parent, now) => Expired(mine, now)
  <2>1. parent.expires_at \in Nat /\ request.expires_at \in Nat /\ now \in Nat
    <3>1. \A block \in Blocks : block.expires_at \in Times \cup {NoEnd}
      BY Zenon DEF Blocks
    <3>2. Times \cup {NoEnd} \subseteq Nat
      BY TimesAssumption DEF NoEnd
    <3>3. QED
      BY <3>1, <3>2, TimesAssumption
  <2>2. mine.expires_at = Stricter(parent.expires_at, request.expires_at)
    BY DEF ChildBlock
  <2>3. QED
    BY <2>1, <2>2, StricterBinds DEF Expired, NoEnd
<1>4. TooRisky(parent, risk) => TooRisky(mine, risk)
  <2>1. parent.max_risk \in Nat /\ request.max_risk \in Nat /\ risk \in Nat
    BY DEF Blocks, Inherit, Risks
  <2>2. mine.max_risk = Stricter(parent.max_risk, request.max_risk)
    BY DEF ChildBlock
  <2>3. parent.max_risk # 0 =>
          mine.max_risk # 0 /\ mine.max_risk \in Nat
            /\ mine.max_risk =< parent.max_risk
    BY <2>1, <2>2, StricterBinds
  <2> HIDE DEF mine
  <2>4. QED
    BY <2>1, <2>3 DEF TooRisky, Inherit
<1> HIDE DEF mine
<1>5. QED
  BY <1>1, <1>2, <1>3, <1>4 DEF Evaluate, Silent, Confirm, Deny

\* Of two limits the stricter is one.
LEMMA StricterIsOne == \A a, b : Stricter(a, b) \in {a, b}
BY DEF Stricter

\* A child's block is a block.
LEMMA ChildBlockIsBlock ==
  ASSUME NEW parent \in Blocks, NEW request \in Blocks
  PROVE  ChildBlock(parent, request) \in Blocks
<1>1. \A block \in Blocks :
        /\ block.tools \in SUBSET Patterns
        /\ block.max_risk \in {Inherit, 1, 2, 3}
        /\ block.expires_at \in Times \cup {NoEnd}
        /\ block.untrusted \in BOOLEAN
  BY Zenon DEF Blocks
<1>2. ChildTools(parent, request) \in SUBSET Patterns
  BY <1>1 DEF ChildTools
<1>3. Stricter(parent.max_risk, request.max_risk) \in {Inherit, 1, 2, 3}
  BY <1>1, StricterIsOne, Zenon
<1>4. Stricter(parent.expires_at, request.expires_at) \in Times \cup {NoEnd}
  <2>1. /\ parent.expires_at \in Times \cup {NoEnd}
        /\ request.expires_at \in Times \cup {NoEnd}
    BY <1>1
  <2>2. QED
    BY StricterIsOne, <2>1
<1>5. QED
  BY <1>1, <1>2, <1>3, <1>4 DEF ChildBlock, Blocks

-----------------------------------------------------------------------------
(* Delegations                                                             *)

\* A plan waiting to be announced is one that was granted.
Planned(d) ==
  stage[d] = "planned" =>
    \E parent \in Parents, request \in Requests :
      Granted(parent, request) /\ blocks[d] = <<parent, ChildBlock(parent, request)>>

\* Where a delegation is says what its child can be.
Life(d) ==
  /\ stage[d] \in {"new", "planned", "assigned", "spawn"} => child[d] = "none"
  /\ stage[d] \in {"final", "classify"} => child[d] # "up"
  /\ stage[d] = "told" /\ status[d] # "crashed" => child[d] # "up"

\* Nothing is stopped, and nothing told, before it is its turn.
Order(d) ==
  /\ stage[d] \in {"new", "planned", "assigned", "spawn", "grace", "wait"}
       => why[d] = "" /\ asked[d] = FALSE
  /\ stage[d] \in {"stop", "stopping", "final"} => why[d] \in {"", "budget", "time"}
  /\ stage[d] \in {"stop", "stopping"} => why[d] # ""
  /\ status[d] = "completed" => stage[d] = "told"
  /\ asked[d] = TRUE => why[d] # ""

\* What is in the usage file is no more than its writer had spent.
FileInv ==
  usage.st = "whole" => usage.by \in Delegations /\ usage.n =< used[usage.by]

\* What was read of a child's own usage is no more than it has spent, and the
\* file never goes back behind it.
Read(d) ==
  seen[d].by = d =>
    /\ seen[d].n =< used[d]
    /\ usage.st = "whole" /\ usage.by = d => seen[d].n =< usage.n

\* All that was read for d was written by its own child.
Own(d) == seen[d].by \in {0, d} /\ known[d].by \in {0, d}

\* A child stopped for its budget has been seen over it, and stays so.
StopKept(d) ==
  /\ why[d] = "budget" => seen[d].by \in Delegations /\ seen[d].n > budget[d]
  /\ stage[d] = "classify" /\ asked[d] = TRUE /\ report[d] = "completed" /\ Own(d)
       => known[d].n > budget[d]
  /\ status[d] = "completed" /\ asked[d] = TRUE => ~Own(d)

Inductive(d) == Planned(d) /\ Life(d) /\ Order(d) /\ Read(d) /\ StopKept(d)

DelegationInv == DelegationTypeOK /\ FileInv /\ \A d \in Delegations : Inductive(d)

\* The functions of the state are over the delegations.
Domains ==
  /\ stage = [d \in Delegations |-> stage[d]] /\ budget = [d \in Delegations |-> budget[d]]
  /\ seen = [d \in Delegations |-> seen[d]] /\ known = [d \in Delegations |-> known[d]]
  /\ why = [d \in Delegations |-> why[d]] /\ report = [d \in Delegations |-> report[d]]
  /\ status = [d \in Delegations |-> status[d]] /\ child = [d \in Delegations |-> child[d]]
  /\ used = [d \in Delegations |-> used[d]] /\ asked = [d \in Delegations |-> asked[d]]
  /\ blocks = [d \in Delegations |-> blocks[d]]

LEMMA DomainsFromType == DelegationTypeOK => Domains
BY DEF DelegationTypeOK, Domains

\* What usages say.
LEMMA UsageFields ==
  ASSUME NEW u \in Usages
  PROVE  u.n \in Nat /\ u.n =< MaxUse /\ u.by \in Delegations \cup {0}
BY BudgetAssumption DEF Usages

\* What a step of one delegation leaves to the others: all but the usage file.
Untouched(e) ==
  /\ stage'[e] = stage[e] /\ blocks'[e] = blocks[e] /\ budget'[e] = budget[e]
  /\ seen'[e] = seen[e] /\ known'[e] = known[e] /\ why'[e] = why[e]
  /\ report'[e] = report[e] /\ status'[e] = status[e]
  /\ child'[e] = child[e] /\ used'[e] = used[e] /\ asked'[e] = asked[e]

StepOf(d) == Parent(d) \/ Cancel(d) \/ Child(d)

\* A step of one delegation leaves the others as they are.
LEMMA OthersUntouched ==
  ASSUME Domains, NEW d \in Delegations, StepOf(d), NEW e \in Delegations, e # d
  PROVE  Untouched(e)
<1> USE DEF Domains, Untouched, plan, reading, result, childVars
<1>1. CASE MakePlan(d)
  BY <1>1 DEF MakePlan, Accept, Reject, Go
<1>2. CASE Assign(d)
  BY <1>2 DEF Assign, Put, Go
<1>3. CASE DiscardUsage(d)
  BY <1>3 DEF DiscardUsage, NotStarted, Go, Absent
<1>4. CASE Spawn(d)
  BY <1>4 DEF Spawn, NotStarted, Go
<1>5. CASE GraceOver(d)
  BY <1>5 DEF GraceOver, NotStarted, Go
<1>6. CASE Exited(d)
  BY <1>6 DEF Exited, Go
<1>7. CASE Look(d)
  BY <1>7 DEF Look, Go
<1>8. CASE Deadline(d)
  BY <1>8 DEF Deadline, Go
<1>9. CASE Terminate(d)
  BY <1>9 DEF Terminate, Go
<1>10. CASE Stopped(d)
  BY <1>10 DEF Stopped, Go
<1>11. CASE ReadFinal(d)
  BY <1>11 DEF ReadFinal, Go
<1>12. CASE TellEnd(d)
  BY <1>12 DEF TellEnd, Put, Judge, Go
<1>13. CASE TellCrash(d)
  BY <1>13 DEF TellCrash, Put, Go
<1>14. CASE Cancel(d)
  BY <1>14 DEF Cancel, Go
<1>15. CASE Spend(d)
  BY <1>15 DEF Spend
<1>16. CASE BeginReport(d)
  BY <1>16 DEF BeginReport, TornBy
<1>17. CASE EndReport(d)
  BY <1>17 DEF EndReport, Whole, TornBy
<1>18. CASE Leave(d)
  BY <1>18 DEF Leave
<1>19. QED
  BY <1>1, <1>2, <1>3, <1>4, <1>5, <1>6, <1>7, <1>8, <1>9, <1>10, <1>11, <1>12, <1>13, <1>14, <1>15, <1>16, <1>17, <1>18 DEF StepOf, Parent, Child

\* A step keeps a child's process where its delegation says.
LEMMA LifeStep ==
  ASSUME Domains, NEW d \in Delegations, StepOf(d), Life(d), Order(d)
  PROVE  Life(d)'
<1> USE DEF Domains, Life, Order, plan, reading, result, childVars
<1>1. CASE MakePlan(d)
  BY <1>1 DEF MakePlan, Accept, Reject, Go
<1>2. CASE Assign(d)
  BY <1>2 DEF Assign, Put, Go
<1>3. CASE DiscardUsage(d)
  BY <1>3 DEF DiscardUsage, NotStarted, Go, Absent
<1>4. CASE Spawn(d)
  BY <1>4 DEF Spawn, NotStarted, Go
<1>5. CASE GraceOver(d)
  BY <1>5 DEF GraceOver, NotStarted, Go
<1>6. CASE Exited(d)
  BY <1>6 DEF Exited, Go
<1>7. CASE Look(d)
  BY <1>7 DEF Look, Go
<1>8. CASE Deadline(d)
  BY <1>8 DEF Deadline, Go
<1>9. CASE Terminate(d)
  BY <1>9 DEF Terminate, Go
<1>10. CASE Stopped(d)
  BY <1>10 DEF Stopped, Go
<1>11. CASE ReadFinal(d)
  BY <1>11 DEF ReadFinal, Go
<1>12. CASE TellEnd(d)
  BY <1>12 DEF TellEnd, Put, Judge, Go
<1>13. CASE TellCrash(d)
  BY <1>13 DEF TellCrash, Put, Go
<1>14. CASE Cancel(d)
  BY <1>14 DEF Cancel, Go
<1>15. CASE Spend(d)
  BY <1>15 DEF Spend
<1>16. CASE BeginReport(d)
  BY <1>16 DEF BeginReport, TornBy
<1>17. CASE EndReport(d)
  BY <1>17 DEF EndReport, Whole, TornBy
<1>18. CASE Leave(d)
  BY <1>18 DEF Leave
<1>19. QED
  BY <1>1, <1>2, <1>3, <1>4, <1>5, <1>6, <1>7, <1>8, <1>9, <1>10, <1>11, <1>12, <1>13, <1>14, <1>15, <1>16, <1>17, <1>18 DEF StepOf, Parent, Child

\* A step keeps the order of stopping and telling.
LEMMA OrderStep ==
  ASSUME Domains, NEW d \in Delegations, StepOf(d), Order(d)
  PROVE  Order(d)'
<1> USE DEF Domains, Order, plan, reading, result, childVars
<1>1. CASE MakePlan(d)
  BY <1>1 DEF MakePlan, Accept, Reject, Go
<1>2. CASE Assign(d)
  BY <1>2 DEF Assign, Put, Go
<1>3. CASE DiscardUsage(d)
  BY <1>3 DEF DiscardUsage, NotStarted, Go, Absent
<1>4. CASE Spawn(d)
  BY <1>4 DEF Spawn, NotStarted, Go
<1>5. CASE GraceOver(d)
  BY <1>5 DEF GraceOver, NotStarted, Go
<1>6. CASE Exited(d)
  BY <1>6 DEF Exited, Go
<1>7. CASE Look(d)
  BY <1>7 DEF Look, Go
<1>8. CASE Deadline(d)
  BY <1>8 DEF Deadline, Go
<1>9. CASE Terminate(d)
  BY <1>9 DEF Terminate, Go
<1>10. CASE Stopped(d)
  BY <1>10 DEF Stopped, Go
<1>11. CASE ReadFinal(d)
  BY <1>11 DEF ReadFinal, Go
<1>12. CASE TellEnd(d)
  BY <1>12 DEF TellEnd, Put, Judge, Go
<1>13. CASE TellCrash(d)
  BY <1>13 DEF TellCrash, Put, Go
<1>14. CASE Cancel(d)
  BY <1>14 DEF Cancel, Go
<1>15. CASE Spend(d)
  BY <1>15 DEF Spend
<1>16. CASE BeginReport(d)
  BY <1>16 DEF BeginReport, TornBy
<1>17. CASE EndReport(d)
  BY <1>17 DEF EndReport, Whole, TornBy
<1>18. CASE Leave(d)
  BY <1>18 DEF Leave
<1>19. QED
  BY <1>1, <1>2, <1>3, <1>4, <1>5, <1>6, <1>7, <1>8, <1>9, <1>10, <1>11, <1>12, <1>13, <1>14, <1>15, <1>16, <1>17, <1>18 DEF StepOf, Parent, Child

\* A step keeps a plan that waits one that was granted.
LEMMA PlannedStep ==
  ASSUME Domains, NEW d \in Delegations, StepOf(d), Planned(d)
  PROVE  Planned(d)'
<1> USE DEF Domains, Planned, plan, reading, result, childVars
<1>1. CASE MakePlan(d)
  BY <1>1 DEF MakePlan, Accept, Reject, Go
<1>2. CASE Assign(d)
  BY <1>2 DEF Assign, Put, Go
<1>3. CASE DiscardUsage(d)
  BY <1>3 DEF DiscardUsage, NotStarted, Go, Absent
<1>4. CASE Spawn(d)
  BY <1>4 DEF Spawn, NotStarted, Go
<1>5. CASE GraceOver(d)
  BY <1>5 DEF GraceOver, NotStarted, Go
<1>6. CASE Exited(d)
  BY <1>6 DEF Exited, Go
<1>7. CASE Look(d)
  BY <1>7 DEF Look, Go
<1>8. CASE Deadline(d)
  BY <1>8 DEF Deadline, Go
<1>9. CASE Terminate(d)
  BY <1>9 DEF Terminate, Go
<1>10. CASE Stopped(d)
  BY <1>10 DEF Stopped, Go
<1>11. CASE ReadFinal(d)
  BY <1>11 DEF ReadFinal, Go
<1>12. CASE TellEnd(d)
  BY <1>12 DEF TellEnd, Put, Judge, Go
<1>13. CASE TellCrash(d)
  BY <1>13 DEF TellCrash, Put, Go
<1>14. CASE Cancel(d)
  BY <1>14 DEF Cancel, Go
<1>15. CASE Spend(d)
  BY <1>15 DEF Spend
<1>16. CASE BeginReport(d)
  BY <1>16 DEF BeginReport, TornBy
<1>17. CASE EndReport(d)
  BY <1>17 DEF EndReport, Whole, TornBy
<1>18. CASE Leave(d)
  BY <1>18 DEF Leave
<1>19. QED
  BY <1>1, <1>2, <1>3, <1>4, <1>5, <1>6, <1>7, <1>8, <1>9, <1>10, <1>11, <1>12, <1>13, <1>14, <1>15, <1>16, <1>17, <1>18 DEF StepOf, Parent, Child

\* What the state holds of numbers.
Numbers(d) ==
  /\ used[d] \in Nat /\ budget[d] \in Nat
  /\ usage.n \in Nat /\ seen[d].n \in Nat /\ known[d].n \in Nat
  /\ usage.by \in Delegations \cup {0} /\ seen[d].by \in Delegations \cup {0}
  /\ known[d].by \in Delegations \cup {0}
  /\ 0 \notin Delegations

LEMMA NumbersFromType ==
  ASSUME DelegationTypeOK, NEW d \in Delegations
  PROVE  Numbers(d)
<1>1. usage \in Usages /\ seen[d] \in Usages /\ known[d] \in Usages
  BY DEF DelegationTypeOK
<1>2. used[d] \in Nat /\ budget[d] \in Nat
  <2>1. used[d] \in 0 .. MaxUse /\ budget[d] \in Nat
    BY DEF DelegationTypeOK
  <2>2. QED
    BY <2>1, BudgetAssumption
<1>3. 0 \notin Delegations
  BY BudgetAssumption
<1>4. QED
  BY <1>1, <1>2, <1>3, UsageFields DEF Numbers

\* What a step can make of the usage file.
LEMMA FileStep ==
  ASSUME Domains, NEW d \in Delegations, StepOf(d)
  PROVE  \/ usage' = usage
         \/ usage' = Absent
         \/ usage' = TornBy(d)
         \/ usage' = Whole(d, used[d]) /\ used' = used /\ seen' = seen
<1> USE DEF plan, reading, result, childVars
<1>1. CASE MakePlan(d)
  BY <1>1 DEF MakePlan, Accept, Reject, Go
<1>2. CASE Assign(d)
  BY <1>2 DEF Assign, Put, Go
<1>3. CASE DiscardUsage(d)
  BY <1>3 DEF DiscardUsage, NotStarted, Go
<1>4. CASE Spawn(d)
  BY <1>4 DEF Spawn, NotStarted, Go
<1>5. CASE GraceOver(d)
  BY <1>5 DEF GraceOver, NotStarted, Go
<1>6. CASE Exited(d)
  BY <1>6 DEF Exited, Go
<1>7. CASE Look(d)
  BY <1>7 DEF Look, Go
<1>8. CASE Deadline(d)
  BY <1>8 DEF Deadline, Go
<1>9. CASE Terminate(d)
  BY <1>9 DEF Terminate, Go
<1>10. CASE Stopped(d)
  BY <1>10 DEF Stopped, Go
<1>11. CASE ReadFinal(d)
  BY <1>11 DEF ReadFinal, Go
<1>12. CASE TellEnd(d)
  BY <1>12 DEF TellEnd, Put, Judge, Go
<1>13. CASE TellCrash(d)
  BY <1>13 DEF TellCrash, Put, Go
<1>14. CASE Cancel(d)
  BY <1>14 DEF Cancel, Go
<1>15. CASE Spend(d)
  BY <1>15 DEF Spend
<1>16. CASE BeginReport(d)
  BY <1>16 DEF BeginReport
<1>17. CASE EndReport(d)
  BY <1>17 DEF EndReport
<1>18. CASE Leave(d)
  BY <1>18 DEF Leave
<1>19. QED
  BY <1>1, <1>2, <1>3, <1>4, <1>5, <1>6, <1>7, <1>8, <1>9, <1>10, <1>11, <1>12, <1>13, <1>14, <1>15, <1>16, <1>17, <1>18 DEF StepOf, Parent, Child

\* What a child has spent only grows.
LEMMA UsedGrows ==
  ASSUME Domains, NEW d \in Delegations, StepOf(d), Numbers(d)
  PROVE  used'[d] \in Nat /\ used'[d] >= used[d]
<1> USE DEF Domains, Numbers, plan, reading, result, childVars
<1>1. CASE MakePlan(d)
  BY <1>1 DEF MakePlan, Accept, Reject, Go
<1>2. CASE Assign(d)
  BY <1>2 DEF Assign, Put, Go
<1>3. CASE DiscardUsage(d)
  BY <1>3 DEF DiscardUsage, NotStarted, Go, Absent
<1>4. CASE Spawn(d)
  BY <1>4 DEF Spawn, NotStarted, Go
<1>5. CASE GraceOver(d)
  BY <1>5 DEF GraceOver, NotStarted, Go
<1>6. CASE Exited(d)
  BY <1>6 DEF Exited, Go
<1>7. CASE Look(d)
  BY <1>7 DEF Look, Go
<1>8. CASE Deadline(d)
  BY <1>8 DEF Deadline, Go
<1>9. CASE Terminate(d)
  BY <1>9 DEF Terminate, Go
<1>10. CASE Stopped(d)
  BY <1>10 DEF Stopped, Go
<1>11. CASE ReadFinal(d)
  BY <1>11 DEF ReadFinal, Go
<1>12. CASE TellEnd(d)
  BY <1>12 DEF TellEnd, Put, Judge, Go
<1>13. CASE TellCrash(d)
  BY <1>13 DEF TellCrash, Put, Go
<1>14. CASE Cancel(d)
  BY <1>14 DEF Cancel, Go
<1>15. CASE Spend(d)
  BY <1>15 DEF Spend
<1>16. CASE BeginReport(d)
  BY <1>16 DEF BeginReport, TornBy
<1>17. CASE EndReport(d)
  BY <1>17 DEF EndReport, Whole, TornBy
<1>18. CASE Leave(d)
  BY <1>18 DEF Leave
<1>19. QED
  BY <1>1, <1>2, <1>3, <1>4, <1>5, <1>6, <1>7, <1>8, <1>9, <1>10, <1>11, <1>12, <1>13, <1>14, <1>15, <1>16, <1>17, <1>18 DEF StepOf, Parent, Child

\* A step keeps the file behind what its writer has spent.
LEMMA FileInvStep ==
  ASSUME DelegationTypeOK, NEW d \in Delegations, StepOf(d), FileInv
  PROVE  FileInv'
<1>1. Domains /\ \A e \in Delegations : Numbers(e)
  BY DomainsFromType, NumbersFromType
<1>2. SUFFICES ASSUME usage'.st = "whole"
               PROVE  usage'.by \in Delegations /\ usage'.n =< used'[usage'.by]
  BY DEF FileInv
<1>3. CASE usage' = usage
  <2>1. usage.by \in Delegations /\ usage.n =< used[usage.by] /\ usage.n \in Nat
    BY <1>1, <1>2, <1>3 DEF FileInv, Numbers
  <2>2. /\ used[usage.by] \in Nat /\ used'[usage.by] \in Nat
        /\ used'[usage.by] >= used[usage.by]
    BY <1>1, <2>1, OthersUntouched, UsedGrows DEF Untouched, Numbers
  <2>3. QED
    BY <1>3, <2>1, <2>2
<1>4. CASE usage' = Whole(d, used[d]) /\ used' = used
  BY <1>1, <1>4 DEF Whole, Numbers
<1>5. QED
  BY <1>1, <1>2, <1>3, <1>4, FileStep DEF Absent, TornBy

\* What was read is read of the file as it is.
LEMMA SeenStep ==
  ASSUME Domains, NEW d \in Delegations, StepOf(d)
  PROVE  \/ seen'[d] = seen[d]
         \/ seen'[d] = usage /\ usage.st = "whole" /\ usage' = usage /\ used' = used
<1> USE DEF Domains, plan, reading, result, childVars
<1>1. CASE MakePlan(d)
  BY <1>1 DEF MakePlan, Accept, Reject, Go
<1>2. CASE Assign(d)
  BY <1>2 DEF Assign, Put, Go
<1>3. CASE DiscardUsage(d)
  BY <1>3 DEF DiscardUsage, NotStarted, Go, Absent
<1>4. CASE Spawn(d)
  BY <1>4 DEF Spawn, NotStarted, Go
<1>5. CASE GraceOver(d)
  BY <1>5 DEF GraceOver, NotStarted, Go
<1>6. CASE Exited(d)
  BY <1>6 DEF Exited, Go
<1>7. CASE Look(d)
  BY <1>7 DEF Look, Go
<1>8. CASE Deadline(d)
  BY <1>8 DEF Deadline, Go
<1>9. CASE Terminate(d)
  BY <1>9 DEF Terminate, Go
<1>10. CASE Stopped(d)
  BY <1>10 DEF Stopped, Go
<1>11. CASE ReadFinal(d)
  BY <1>11 DEF ReadFinal, Go
<1>12. CASE TellEnd(d)
  BY <1>12 DEF TellEnd, Put, Judge, Go
<1>13. CASE TellCrash(d)
  BY <1>13 DEF TellCrash, Put, Go
<1>14. CASE Cancel(d)
  BY <1>14 DEF Cancel, Go
<1>15. CASE Spend(d)
  BY <1>15 DEF Spend
<1>16. CASE BeginReport(d)
  BY <1>16 DEF BeginReport, TornBy
<1>17. CASE EndReport(d)
  BY <1>17 DEF EndReport, Whole, TornBy
<1>18. CASE Leave(d)
  BY <1>18 DEF Leave
<1>19. QED
  BY <1>1, <1>2, <1>3, <1>4, <1>5, <1>6, <1>7, <1>8, <1>9, <1>10, <1>11, <1>12, <1>13, <1>14, <1>15, <1>16, <1>17, <1>18 DEF StepOf, Parent, Child

\* A step keeps a stopped child known as over its budget.
LEMMA StopStep ==
  ASSUME Domains, NEW d \in Delegations, StepOf(d), Numbers(d), FileInv,
         Order(d), Read(d), StopKept(d)
  PROVE  StopKept(d)'
<1> USE DEF Domains, Numbers, FileInv, Order, StopKept, Own, plan, reading, result, childVars
<1>1. CASE MakePlan(d)
  BY <1>1 DEF MakePlan, Accept, Reject, Go
<1>2. CASE Assign(d)
  BY <1>2 DEF Assign, Put, Go
<1>3. CASE DiscardUsage(d)
  BY <1>3 DEF DiscardUsage, NotStarted, Go, Absent
<1>4. CASE Spawn(d)
  BY <1>4 DEF Spawn, NotStarted, Go
<1>5. CASE GraceOver(d)
  BY <1>5 DEF GraceOver, NotStarted, Go
<1>6. CASE Exited(d)
  BY <1>6 DEF Exited, Go
<1>7. CASE Look(d)
  BY <1>7 DEF Look, Go
<1>8. CASE Deadline(d)
  BY <1>8 DEF Deadline, Go
<1>9. CASE Terminate(d)
  <2>1. /\ UNCHANGED <<budget, seen, known, why, report, status>>
        /\ stage'[d] # "classify" /\ status[d] # "completed"
    BY <1>9 DEF Terminate, Go
  <2>2. QED
    BY <2>1
<1>10. CASE Stopped(d)
  BY <1>10 DEF Stopped, Go
<1>11. CASE ReadFinal(d)
  <2>1. UNCHANGED <<budget, seen, why, status, asked, usage>> /\ status[d] # "completed"
    BY <1>11 DEF ReadFinal
  <2>2. known'[d] = (IF usage.st = "whole" THEN usage ELSE seen[d])
    BY <1>11 DEF ReadFinal
  <2>3. report'[d] = "completed" => why[d] # "time"
    BY <1>11 DEF ReadFinal
  <2>4. why[d] \in {"", "budget", "time"} /\ (asked[d] = TRUE => why[d] # "")
    BY <1>11 DEF ReadFinal
  <2>5. ASSUME asked[d] = TRUE, report'[d] = "completed", Own(d)'
        PROVE  known'[d].n > budget[d]
    <3>1. seen[d].by = d /\ seen[d].n > budget[d]
      BY <2>1, <2>3, <2>4, <2>5
    <3>2. CASE usage.st = "whole"
      <4>1. usage.by = d
        BY <2>2, <2>5, <3>2
      <4>2. seen[d].n =< usage.n
        BY <3>1, <3>2, <4>1 DEF Read
      <4>3. known'[d].n = usage.n
        BY <2>2, <3>2
      <4>4. seen[d].n \in Nat /\ usage.n \in Nat /\ budget[d] \in Nat
        OBVIOUS
      <4> HIDE DEF Domains, FileInv, Order, StopKept, Own, Numbers
      <4>5. QED
        BY <3>1, <4>2, <4>3, <4>4
    <3>3. CASE usage.st # "whole"
      BY <2>2, <3>1, <3>3
    <3>4. QED
      BY <3>2, <3>3
  <2>6. QED
    BY <2>1, <2>5
<1>12. CASE TellEnd(d)
  BY <1>12 DEF TellEnd, Put, Judge, Go
<1>13. CASE TellCrash(d)
  BY <1>13 DEF TellCrash, Put, Go
<1>14. CASE Cancel(d)
  BY <1>14 DEF Cancel, Go
<1>15. CASE Spend(d)
  BY <1>15 DEF Spend
<1>16. CASE BeginReport(d)
  BY <1>16 DEF BeginReport, TornBy
<1>17. CASE EndReport(d)
  BY <1>17 DEF EndReport, Whole, TornBy
<1>18. CASE Leave(d)
  BY <1>18 DEF Leave
<1>19. QED
  BY <1>1, <1>2, <1>3, <1>4, <1>5, <1>6, <1>7, <1>8, <1>9, <1>10, <1>11, <1>12, <1>13, <1>14, <1>15, <1>16, <1>17, <1>18 DEF StepOf, Parent, Child

\* A step keeps what was read behind what is in the file and was spent.
LEMMA ReadStep ==
  ASSUME Domains, NEW d \in Delegations, StepOf(d), Numbers(d), FileInv, Read(d)
  PROVE  Read(d)'
<1> USE DEF Numbers, Read
<1>1. used[d] \in Nat /\ used'[d] \in Nat /\ used'[d] >= used[d]
  BY UsedGrows
<1>2. CASE seen'[d] = seen[d] /\ used' = used /\ usage' = Whole(d, used[d])
  BY <1>1, <1>2 DEF Whole
<1>3. CASE seen'[d] = seen[d] /\ (usage' = usage \/ usage'.st # "whole")
  BY <1>1, <1>3
<1>4. CASE seen'[d] = usage /\ usage.st = "whole" /\ usage' = usage /\ used' = used
  BY <1>4 DEF FileInv
<1>5. QED
  BY <1>2, <1>3, <1>4, FileStep, SeenStep DEF Absent, TornBy

\* Another delegation's step keeps it, too.
LEMMA ReadOthers ==
  ASSUME Domains, NEW d \in Delegations, StepOf(d), NEW e \in Delegations, e # d,
         Read(e)
  PROVE  Read(e)'
<1>1. Untouched(e)
  BY OthersUntouched
<1>2. usage' = usage \/ usage'.st # "whole" \/ usage'.by = d
  BY FileStep DEF Absent, TornBy, Whole
<1>3. QED
  BY <1>1, <1>2 DEF Untouched, Read

\* Each part of the invariant, of the delegation that steps and of the others.
LEMMA InductiveStep ==
  ASSUME DelegationTypeOK, FileInv, NEW d \in Delegations, StepOf(d),
         NEW e \in Delegations, Inductive(e)
  PROVE  Inductive(e)'
<1>1. Domains /\ Numbers(e)
  BY DomainsFromType, NumbersFromType
<1>2. CASE e = d
  BY <1>1, <1>2, PlannedStep, LifeStep, OrderStep, ReadStep, StopStep DEF Inductive
<1>3. CASE e # d
  <2>1. Untouched(e) /\ Read(e)'
    BY <1>1, <1>3, OthersUntouched, ReadOthers DEF Inductive
  <2>2. Planned(e)' /\ Life(e)' /\ Order(e)' /\ StopKept(e)'
    BY <2>1 DEF Untouched, Inductive, Planned, Life, Order, StopKept, Own
  <2>3. QED
    BY <2>1, <2>2 DEF Inductive
<1>4. QED
  BY <1>2, <1>3

\* The usages a step makes.
LEMMA UsagesMade ==
  /\ Absent \in Usages
  /\ \A d \in Delegations : TornBy(d) \in Usages
  /\ \A d \in Delegations, n \in 0 .. MaxUse : Whole(d, n) \in Usages
BY BudgetAssumption DEF Absent, TornBy, Whole, Usages

\* The events a step puts.
LEMMA EventsMade ==
  ASSUME DelegationTypeOK, NEW d \in Delegations,
         NEW event \in {"assigned", "completed", "failed"}, Put(d, event)
  PROVE  events' \in [Delegations -> Seq({"assigned", "completed", "failed"})]
<1> DEFINE EventRecords == {"assigned", "completed", "failed"}
<1>1. events \in [Delegations -> Seq(EventRecords)] /\ event \in EventRecords
  BY DEF DelegationTypeOK
<1> HIDE DEF EventRecords
<1>2. Append(events[d], event) \in Seq(EventRecords)
  BY <1>1
<1>3. events' \in [Delegations -> Seq(EventRecords)]
  BY <1>1, <1>2 DEF Put
<1>4. QED
  BY <1>3 DEF EventRecords

\* A step keeps the types.
LEMMA TypeStep ==
  ASSUME DelegationTypeOK, NEW d \in Delegations, StepOf(d)
  PROVE  DelegationTypeOK'
<1> USE DEF DelegationTypeOK, Stages, plan, reading, result, childVars
<1>1. CASE MakePlan(d)
  <2>1. CASE Accept(d)
    <3>1. PICK parent \in Parents, request \in Requests :
            blocks' = [blocks EXCEPT ![d] = <<parent, ChildBlock(parent, request)>>]
      BY <2>1 DEF Accept
    <3>2. <<parent, ChildBlock(parent, request)>> \in Blocks \X Blocks
      BY ChildBlockIsBlock, BlocksAssumption
    <3>3. blocks' \in [Delegations -> {<<>>} \cup (Blocks \X Blocks)]
      BY <3>1, <3>2
    <3>4. budget' \in [Delegations -> Nat]
      <4>1. PICK wanted \in Budgets :
              budget' = [budget EXCEPT ![d] = Stricter(ParentBudget, wanted)]
        BY <2>1 DEF Accept
      <4>2. Stricter(ParentBudget, wanted) \in Nat
        BY BudgetAssumption, StricterIsOne
      <4>3. QED
        BY <4>1, <4>2
    <3>5. QED
      BY <1>1, <2>1, <3>3, <3>4 DEF MakePlan, Accept, Go
  <2>2. CASE Reject(d)
    BY <1>1, <2>2 DEF MakePlan, Reject, Go
  <2>3. QED
    BY <1>1, <2>1, <2>2 DEF MakePlan
<1>2. CASE Assign(d)
  <2>1. events' \in [Delegations -> Seq({"assigned", "completed", "failed"})]
    BY <1>2, EventsMade DEF Assign
  <2>2. QED
    BY <1>2, <2>1 DEF Assign, Go
<1>3. CASE DiscardUsage(d)
  BY <1>3, UsagesMade DEF DiscardUsage, NotStarted, Go
<1>4. CASE Spawn(d)
  BY <1>4 DEF Spawn, NotStarted, Go
<1>5. CASE GraceOver(d)
  BY <1>5 DEF GraceOver, NotStarted, Go
<1>6. CASE Exited(d)
  BY <1>6 DEF Exited, Go
<1>7. CASE Look(d)
  BY <1>7 DEF Look, Go
<1>8. CASE Deadline(d)
  BY <1>8 DEF Deadline, Go
<1>9. CASE Terminate(d)
  BY <1>9 DEF Terminate, Go
<1>10. CASE Stopped(d)
  BY <1>10 DEF Stopped, Go
<1>11. CASE ReadFinal(d)
  BY <1>11 DEF ReadFinal, Go
<1>12. CASE TellEnd(d)
  <2>1. events' \in [Delegations -> Seq({"assigned", "completed", "failed"})]
    BY <1>12, EventsMade DEF TellEnd
  <2>2. Judge(d) \in {"completed", "failed", "budget_exhausted"}
    BY DEF Judge
  <2>3. /\ stage' \in [Delegations -> Stages]
        /\ status' \in [Delegations -> {"", "completed", "failed", "budget_exhausted",
                                        "crashed", "rejected"}]
    <3>1. \/ stage' = [stage EXCEPT ![d] = "told"] /\ status' = [status EXCEPT ![d] = Judge(d)]
          \/ stage' = [stage EXCEPT ![d] = "crash"] /\ status' = status
      BY <1>12 DEF TellEnd, Go
    <3>2. stage' \in [Delegations -> Stages]
      BY <3>1
    <3>3. Judge(d) \in {"", "completed", "failed", "budget_exhausted", "crashed", "rejected"}
      BY <2>2
    <3>4. status' \in [Delegations -> {"", "completed", "failed", "budget_exhausted",
                                       "crashed", "rejected"}]
      BY <3>1, <3>3
    <3>5. QED
      BY <3>2, <3>4
  <2>4. QED
    BY <1>12, <2>1, <2>3 DEF TellEnd
<1>13. CASE TellCrash(d)
  <2>1. events' \in [Delegations -> Seq({"assigned", "completed", "failed"})]
    BY <1>13, EventsMade DEF TellCrash
  <2>2. QED
    BY <1>13, <2>1 DEF TellCrash, Go
<1>14. CASE Cancel(d)
  BY <1>14 DEF Cancel, Go
<1>15. CASE Spend(d)
  <2>1. used[d] \in 0 .. MaxUse
    OBVIOUS
  <2> HIDE DEF DelegationTypeOK
  <2>2. used[d] + 1 \in 0 .. MaxUse
    BY <1>15, <2>1, BudgetAssumption DEF Spend
  <2> USE DEF DelegationTypeOK
  <2>3. used' \in [Delegations -> 0 .. MaxUse]
    BY <1>15, <2>2 DEF Spend
  <2>4. QED
    BY <1>15, <2>3 DEF Spend
<1>16. CASE BeginReport(d)
  BY <1>16, UsagesMade DEF BeginReport
<1>17. CASE EndReport(d)
  BY <1>17, UsagesMade DEF EndReport
<1>18. CASE Leave(d)
  BY <1>18 DEF Leave
<1>19. QED
  BY <1>1, <1>2, <1>3, <1>4, <1>5, <1>6, <1>7, <1>8, <1>9, <1>10, <1>11, <1>12, <1>13, <1>14, <1>15, <1>16, <1>17, <1>18 DEF StepOf, Parent, Child

\* The invariant holds initially and every step keeps it.
LEMMA DelegationInvariance == DelegationSpec => []DelegationInv
<1>1. DelegationInit => DelegationInv
  <2> SUFFICES ASSUME DelegationInit PROVE DelegationInv
    OBVIOUS
  <2>1. DelegationTypeOK
    <3>1. 0 \in 0 .. MaxUse
      BY BudgetAssumption
    <3>2. events \in [Delegations -> Seq({"assigned", "completed", "failed"})]
      <4>1. \A S : <<>> \in Seq(S)
        OBVIOUS
      <4>2. QED
        BY <4>1, Zenon DEF DelegationInit
    <3>3. QED
      BY UsagesMade, <3>1, <3>2 DEF DelegationInit, DelegationTypeOK, Stages
  <2>2. FileInv
    BY DEF DelegationInit, FileInv, Absent
  <2>3. ASSUME NEW d \in Delegations PROVE Inductive(d)
    BY BudgetAssumption
       DEF DelegationInit, Absent, Inductive, Planned, Life, Order, Read, StopKept
  <2>4. QED
    BY <2>1, <2>2, <2>3 DEF DelegationInv
<1>2. DelegationInv /\ [DelegationNext]_delegationVars => DelegationInv'
  <2> SUFFICES ASSUME DelegationInv, [DelegationNext]_delegationVars PROVE DelegationInv'
    OBVIOUS
  <2>1. CASE UNCHANGED delegationVars
    <3>1. DelegationTypeOK' /\ FileInv'
      BY <2>1 DEF delegationVars, plan, reading, result, childVars, DelegationInv, DelegationTypeOK, FileInv
    <3>2. ASSUME NEW d \in Delegations PROVE Inductive(d)'
      BY <2>1 DEF delegationVars, plan, reading, result, childVars, DelegationInv,
         Inductive, Planned, Life, Order, Read, StopKept, Own
    <3>3. QED
      BY <3>1, <3>2 DEF DelegationInv
  <2>2. ASSUME NEW d \in Delegations, StepOf(d)
        PROVE  DelegationInv'
    <3>1. DelegationTypeOK /\ FileInv /\ \A e \in Delegations : Inductive(e)
      BY DEF DelegationInv
    <3>2. DelegationTypeOK' /\ FileInv'
      BY <2>2, <3>1, TypeStep, FileInvStep
    <3>3. \A e \in Delegations : Inductive(e)'
      BY <2>2, <3>1, InductiveStep
    <3>4. QED
      BY <3>2, <3>3 DEF DelegationInv
  <2>3. QED
    BY <2>1, <2>2 DEF DelegationNext, StepOf
<1>3. QED
  BY <1>1, <1>2, PTL DEF DelegationSpec

\* The state is what it is declared to be (delegation, agent_launcher).
THEOREM DelegationTyped == DelegationSpec => []DelegationTypeOK
<1>1. DelegationInv => DelegationTypeOK
  BY DEF DelegationInv
<1>2. QED
  BY <1>1, DelegationInvariance, PTL

\* Whatever is asked for, and however often, no child that plan_delegation
\* accepts is freer than its parent.
THEOREM ChildBoundHolds == DelegationSpec => []ChildBound
<1>1. DelegationInv => ChildBound
  <2> SUFFICES ASSUME DelegationInv, NEW d \in Delegations, stage[d] = "planned"
               PROVE  NeverFreer(blocks[d][1], blocks[d][2])
    BY DEF ChildBound
  <2>1. PICK parent \in Parents, request \in Requests :
          Granted(parent, request) /\ blocks[d] = <<parent, ChildBlock(parent, request)>>
    BY DEF DelegationInv, Inductive, Planned
  <2>2. NeverFreer(parent, ChildBlock(parent, request))
    BY <2>1, BlocksAssumption, TightensOnly
  <2>3. QED
    BY <2>1, <2>2
<1>2. QED
  BY <1>1, DelegationInvariance, PTL

\* A child that was stopped, for its time or its budget, is never told as
\* completed when all that was read of usages was its own.
THEOREM StoppedIsToldHolds == DelegationSpec => []StoppedIsTold
<1>1. DelegationInv => StoppedIsTold
  <2> SUFFICES ASSUME DelegationInv, NEW d \in Delegations,
                      status[d] = "completed", asked[d]
               PROVE  {seen[d].by, known[d].by} \cap (Delegations \ {d}) # {}
    BY DEF StoppedIsTold
  <2>1. asked[d] = TRUE /\ ~Own(d)
    BY DEF DelegationInv, Inductive, StopKept, DelegationTypeOK
  <2>2. Numbers(d)
    BY NumbersFromType DEF DelegationInv
  <2>3. QED
    BY <2>1, <2>2 DEF Own, Numbers
<1>2. QED
  BY <1>1, DelegationInvariance, PTL

\* When the end of a child is told, and not as crashed, its process is gone.
THEOREM NothingLeftRunningHolds == DelegationSpec => []NothingLeftRunning
<1>1. DelegationInv => NothingLeftRunning
  BY DEF DelegationInv, Inductive, Life, NothingLeftRunning
<1>2. QED
  BY <1>1, DelegationInvariance, PTL
=============================================================================
