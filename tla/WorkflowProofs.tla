--------------------------- MODULE WorkflowProofs ---------------------------
(***************************************************************************)
(* Theorems about the workflow engine, for any workflow definitions, and   *)
(* about the runtime that starts runs of it, for any triggers.             *)
(***************************************************************************)
EXTENDS WorkflowEngine, WorkflowRuntime, ListsProofs, FiniteSetTheorems, TLAPS

-----------------------------------------------------------------------------
(* The runtime                                                             *)

(* A task the loop may hold while the runtime is running (on) or stopped:  *)
(* stop() leaves bus callbacks and a caller's triggers, and no event adds  *)
(* a run afterwards.                                                       *)
QueuedTask(on) ==
    {t \in Task : t.kind = "start" =>
        /\ t.key \in Keys
        /\ t.by \in IF on THEN {"event", "manual"} ELSE {"manual"}}

(* Why no key leaks and no run is persisted twice: the ids beyond the      *)
(* counter are unused, so a run that begins disturbs no earlier one.       *)
RunsInv ==
    /\ TypeOK
    /\ ready \in Seq(QueuedTask(running))
    /\ \A r \in RunIds : runs[r].st # "none" <=> r <= runCount
    /\ \A r \in RunIds : runs[r].st # "none" => runs[r].key \in Keys
    /\ NoLeakedKey
    /\ PersistedOnce

LEMMA RunsInvInit == Init => RunsInv
<1> SUFFICES ASSUME Init PROVE RunsInv
  OBVIOUS
<1> USE BoundsAssumption
<1>1. NoRun \in Run
  BY DEF NoRun, Run, EventTypes
<1>2. TypeOK
  <2>1. runs \in [RunIds -> Run] /\ stamps \in [Workflows -> Seq({"event", "manual"})]
    BY <1>1 DEF Init
  <2>2. ready \in Seq(Task) /\ disk \in Seq(RunIds) /\ archive \in Seq(RunIds)
    BY DEF Init
  <2>3. ring \in Seq(RunIds) /\ Len(ring) <= MaxRuns
    BY DEF Init
  <2>4. running \in BOOLEAN /\ enabled \subseteq Workflows /\ active \subseteq Keys
    BY DEF Init
  <2>5. runCount \in 0..MaxRunCount /\ inputs \in 0..MaxInputs /\ notices \in 0..2
    BY DEF Init
  <2> QED BY <2>1, <2>2, <2>3, <2>4, <2>5 DEF TypeOK
<1>3. ready \in Seq(QueuedTask(running))
  BY DEF Init
<1>4. \A r \in RunIds : runs[r].st = "none" /\ ~ (r <= runCount)
  BY DEF Init, NoRun, RunIds
<1>5. NoLeakedKey
  BY DEF Init, NoLeakedKey
<1>6. PersistedOnce
  <2>1. archive \o disk = <<>>
    BY DEF Init
  <2>2. \A r \in RunIds : runs[r].st \notin Outcomes
    BY <1>4, TriggersAssumption DEF Outcomes
  <2> QED BY <2>1, <2>2 DEF PersistedOnce, ToSet, IsInjective
<1> QED BY <1>2, <1>3, <1>4, <1>5, <1>6 DEF RunsInv

(* What _on_event queues: callbacks, and runs of steps by an event.        *)
LEMMA ResponsesAreTasks ==
  ASSUME RunsInv, NEW ev \in Task
  PROVE  Responses(ev) \in Seq(QueuedTask(TRUE))
<1> DEFINE T == QueuedTask(TRUE)
<1>1. \A w \in Workflows : /\ <<w, 0>> \in Keys
                           /\ \A i \in DOMAIN Triggers[w] : <<w, i>> \in Keys
                           /\ Len(Triggers[w]) \in Nat /\ DOMAIN Triggers[w] = 1..Len(Triggers[w])
  BY TriggersAssumption DEF Workflows, Keys
<1>2. \A type \in EventTypes, about \in Keys \cup {NoKey} : EventTask(type, about) \in T
  BY DEF EventTask, QueuedTask, Task
<1>3. \A w \in Workflows : \A i \in DOMAIN Triggers[w] : StepResponse(w, i, ev) \in T
  <2> SUFFICES ASSUME NEW w \in Workflows, NEW i \in DOMAIN Triggers[w]
               PROVE  StepResponse(w, i, ev) \in T
    OBVIOUS
  <2>1. <<w, i>> \in Keys /\ "skipped" \in EventTypes
    BY <1>1 DEF EventTypes, BusTypes
  <2>2. EventTask("skipped", <<w, i>>) \in T
    BY <1>2, <2>1
  <2>3. StartTask(<<w, i>>, "event", ev.type, ev.about) \in T
    BY <2>1 DEF StartTask, QueuedTask, Task
  <2> HIDE DEF T
  <2> QED BY <2>2, <2>3 DEF StepResponse
<1>4. \A w \in Workflows : Response(w, ev) \in Seq(T)
  <2> SUFFICES ASSUME NEW w \in Workflows PROVE Response(w, ev) \in Seq(T)
    OBVIOUS
  <2>1. CASE RateLimited(w)
    <3>1. EventTask("throttled", <<w, 0>>) \in T
      BY <1>1, <1>2 DEF EventTypes, BusTypes
    <3> HIDE DEF T
    <3> QED BY <2>1, <3>1 DEF Response
  <2>2. CASE ~ RateLimited(w)
    <3> DEFINE D == DOMAIN Triggers[w]
               all == [i \in D |-> i]
               S == {i \in D : ev.type \in Triggers[w][i]}
    <3>1. all \in Seq(D)
      BY <1>1
    <3>2. Filtered(D, all, S, Len(all), Kept(all, S))
      BY <3>1, KeptIs
    <3>3. MatchingSteps(w, ev.type) \in Seq(D)
      BY <3>2 DEF Filtered, MatchingSteps
    <3>4. PICK m \in Seq(D) : m = MatchingSteps(w, ev.type)
      BY <3>3
    <3>5. \A n \in 1..Len(m) : m[n] \in D
      BY <3>4
    <3>6. Response(w, ev) = [n \in 1..Len(m) |-> StepResponse(w, m[n], ev)]
      BY <2>2, <3>4 DEF Response
    <3>7. \A n \in 1..Len(m) : StepResponse(w, m[n], ev) \in T
      BY <1>3, <3>5
    <3> HIDE DEF T, D
    <3> QED BY <3>4, <3>6, <3>7
  <2> QED BY <2>1, <2>2
<1> DEFINE ss == [w \in Workflows |-> IF w \in enabled THEN Response(w, ev) ELSE <<>>]
<1>5. ss \in Seq(Seq(T))
  <2>1. Workflows = 1..Len(Triggers) /\ Len(Triggers) \in Nat
    BY TriggersAssumption DEF Workflows
  <2> HIDE DEF T
  <2> QED BY <1>4, <2>1
<1>6. Joined(ss) \in Seq(T)
  BY <1>5, JoinedIs
<1> QED BY <1>6 DEF Responses

LEMMA DeliveredTasks ==
  ASSUME RunsInv, NEW type \in EventTypes, NEW about \in Keys \cup {NoKey}
  PROVE  Delivered(<<EventTask(type, about)>>) \in Seq(QueuedTask(running))
<1>1. EventTask(type, about) \in QueuedTask(running)
  BY DEF EventTask, QueuedTask, Task
<1> QED BY <1>1 DEF Delivered

(* Steps that neither begin nor end a run.                                 *)
LEMMA RunsStay ==
  ASSUME RunsInv, TypeOK', ready' \in Seq(QueuedTask(running')),
         UNCHANGED <<runCount, active, disk, archive>>,
         \A r \in RunIds : runs'[r].st = runs[r].st /\ runs'[r].key = runs[r].key
  PROVE  RunsInv'
<1>1. \A r \in RunIds : runs'[r].st # "none" <=> r <= runCount'
  BY DEF RunsInv
<1>2. \A r \in RunIds : runs'[r].st # "none" => runs'[r].key \in Keys
  BY DEF RunsInv
<1>3. NoLeakedKey'
  <2> SUFFICES ASSUME NEW k \in active PROVE \E r \in RunIds : runs'[r].st = "running" /\ runs'[r].key = k
    BY DEF NoLeakedKey, InProgress
  <2> QED BY DEF RunsInv, NoLeakedKey, InProgress
<1>4. PersistedOnce'
  <2>1. archive' \o disk' = archive \o disk
    OBVIOUS
  <2>2. ToSet(archive \o disk) \subseteq RunIds
    <3>1. archive \o disk \in Seq(RunIds)
      BY DEF RunsInv, TypeOK
    <3> QED BY <3>1 DEF ToSet
  <2> QED BY <2>1, <2>2 DEF RunsInv, PersistedOnce
<1> QED BY <1>1, <1>2, <1>3, <1>4 DEF RunsInv

(* A run begins.                                                           *)
LEMMA BeginKeeps ==
  ASSUME RunsInv,
         NEW key \in Keys, NEW by \in {"event", "manual"}, NEW type \in EventTypes,
         NEW about \in Keys \cup {NoKey}, NEW spawned \in BOOLEAN,
         NEW rest \in Seq(QueuedTask(running)),
         Begin(key, by, type, about, spawned, rest), inputs' \in 0..MaxInputs,
         UNCHANGED <<running, enabled, disk, archive, notices>>
  PROVE  RunsInv'
<1> USE BoundsAssumption, TriggersAssumption
<1> DEFINE new == runCount + 1
           run == [key |-> key, by |-> by, type |-> type, about |-> about,
                   spawned |-> spawned, cancel |-> FALSE, st |-> "running"]
<1>1. new \in RunIds /\ new \in Nat /\ runs[new].st = "none" /\ runCount' = new /\ new <= MaxRunCount
  BY DEF Begin, RunIds, RunsInv, TypeOK
<1>2. run \in Run
  BY DEF Run
<1>3. runs' = [runs EXCEPT ![new] = run]
  BY DEF Begin
<1>4. /\ runs'[new] = run /\ runs' \in [RunIds -> Run]
      /\ \A r \in RunIds \ {new} : runs'[r] = runs[r]
  <2>1. runs \in [RunIds -> Run]
    BY DEF RunsInv, TypeOK
  <2> QED BY <1>1, <1>2, <1>3, <2>1
<1>5. ready' \in Seq(QueuedTask(running')) /\ ready' \in Seq(Task)
  <2>1. PICK d \in Seq(QueuedTask(running)) : d = Delivered(<<EventTask("triggered", key)>>)
    BY DeliveredTasks DEF EventTypes, BusTypes
  <2>2. ready' = rest \o d
    BY <2>1 DEF Begin
  <2>3. ready' \in Seq(QueuedTask(running))
    BY <2>2
  <2>4. QueuedTask(running) \subseteq Task
    BY DEF QueuedTask
  <2> QED BY <2>3, <2>4
<1>6. ring' \in Seq(RunIds) /\ Len(ring') <= MaxRuns
  <2>1. ring \in Seq(RunIds) /\ Len(ring) <= MaxRuns /\ ring' = RingAppend(ring, new)
    BY DEF RunsInv, TypeOK, Begin
  <2>2. CASE Len(ring) < MaxRuns
    BY <1>1, <2>1, <2>2 DEF RingAppend
  <2>3. CASE ~ (Len(ring) < MaxRuns)
    <3>1. ring # <<>>
      BY <2>1, <2>3
    <3>2. Tail(ring) \in Seq(RunIds) /\ Len(Tail(ring)) = Len(ring) - 1
      BY <2>1, <3>1
    <3> QED BY <1>1, <2>1, <2>3, <3>2 DEF RingAppend
  <2> QED BY <2>2, <2>3
<1>7. stamps' \in [Workflows -> Seq({"event", "manual"})]
  <2>1. key[1] \in Workflows
    BY DEF Keys
  <2>2. stamps \in [Workflows -> Seq({"event", "manual"})]
    BY DEF RunsInv, TypeOK
  <2>3. Append(stamps[key[1]], by) \in Seq({"event", "manual"})
    BY <2>1, <2>2
  <2>4. stamps' = [stamps EXCEPT ![key[1]] = Append(stamps[key[1]], by)]
    BY DEF Begin
  <2> QED BY <2>1, <2>2, <2>3, <2>4
<1>8. active' = active \cup {key} /\ active' \subseteq Keys
  BY DEF Begin, RunsInv, TypeOK
<1>9. TypeOK'
  <2>1. runCount' \in 0..MaxRunCount
    BY <1>1
  <2> QED BY <1>4, <1>5, <1>6, <1>7, <1>8, <2>1 DEF RunsInv, TypeOK
<1>10. \A r \in RunIds : runs'[r].st # "none" <=> r <= runCount'
  <2> TAKE r \in RunIds
  <2>1. r \in Nat /\ runCount \in Nat
    BY DEF RunIds, RunsInv, TypeOK
  <2>2. CASE r = new
    BY <1>1, <1>4, <2>2
  <2>3. CASE r # new
    <3>1. r <= new <=> r <= runCount
      BY <2>1, <2>3
    <3> QED BY <1>1, <1>4, <2>3, <3>1 DEF RunsInv
  <2> QED BY <2>2, <2>3
<1>11. \A r \in RunIds : runs'[r].st # "none" => runs'[r].key \in Keys
  BY <1>4 DEF RunsInv
<1>12. NoLeakedKey'
  <2> SUFFICES ASSUME NEW k \in active'
               PROVE  \E r \in RunIds : runs'[r].st = "running" /\ runs'[r].key = k
    BY DEF NoLeakedKey, InProgress
  <2>1. CASE k = key
    BY <1>1, <1>4, <2>1
  <2>2. CASE k # key
    <3>1. PICK r \in RunIds : runs[r].st = "running" /\ runs[r].key = k
      BY <1>8, <2>2 DEF RunsInv, NoLeakedKey, InProgress
    <3> QED BY <1>1, <1>4, <3>1
  <2> QED BY <2>1, <2>2
<1>13. PersistedOnce'
  <2>1. archive' \o disk' = archive \o disk
    OBVIOUS
  <2>2. ToSet(archive \o disk) \subseteq RunIds
    <3>1. archive \o disk \in Seq(RunIds)
      BY DEF RunsInv, TypeOK
    <3> QED BY <3>1 DEF ToSet
  <2>3. runs[new].st \notin Outcomes /\ run.st \notin Outcomes
    BY <1>1 DEF Outcomes
  <2> QED BY <1>4, <2>1, <2>2, <2>3 DEF RunsInv, PersistedOnce
<1> QED BY <1>5, <1>9, <1>10, <1>11, <1>12, <1>13 DEF RunsInv

(* A run ends.                                                             *)
LEMMA FinishKeeps ==
  ASSUME RunsInv, NEW r \in RunIds, NEW st \in Outcomes, Finish(r, st)
  PROVE  RunsInv'
<1> USE BoundsAssumption, TriggersAssumption
<1>1. /\ runs \in [RunIds -> Run] /\ runs[r].st = "running" /\ runs[r].key \in Keys
      /\ runs' = [runs EXCEPT ![r].st = st]
  BY DEF Finish, RunsInv, TypeOK
<1>2. /\ runs' \in [RunIds -> Run] /\ runs'[r].st = st /\ runs'[r].key = runs[r].key
      /\ \A q \in RunIds \ {r} : runs'[q] = runs[q]
  BY <1>1 DEF Run
<1>3. "running" \notin Outcomes /\ "none" \notin Outcomes
  BY DEF Outcomes
<1>4. ready' \in Seq(QueuedTask(running')) /\ ready' \in Seq(Task)
  <2>1. PICK d \in Seq(QueuedTask(running)) : d = Delivered(<<EventTask("finished", runs[r].key)>>)
    BY <1>1, DeliveredTasks DEF EventTypes, BusTypes
  <2>2. ready' = ready \o d /\ ready \in Seq(QueuedTask(running)) /\ running' = running
    BY <2>1 DEF Finish, RunsInv
  <2>3. ready' \in Seq(QueuedTask(running))
    BY <2>2
  <2>4. QueuedTask(running) \subseteq Task
    BY DEF QueuedTask
  <2> QED BY <2>2, <2>3, <2>4
<1>5. disk \in Seq(RunIds) /\ archive \in Seq(RunIds)
  BY DEF RunsInv, TypeOK
<1> DEFINE old == archive \o disk
           new == archive' \o disk'
<1>6. \A q \in ToSet(old) : q \in RunIds /\ q # r /\ runs[q].st \in Outcomes
  <2>1. ToSet(old) \subseteq RunIds
    BY <1>5 DEF ToSet
  <2> QED BY <1>1, <1>3, <2>1 DEF RunsInv, PersistedOnce
<1>7. /\ disk' \in Seq(RunIds) /\ archive' \in Seq(RunIds)
      /\ \/ archive' = disk /\ disk' = <<r>> /\ disk # <<>>
         \/ archive' = archive /\ disk' = Append(disk, r)
  <2>1. CASE Len(disk) >= PersistLimit
    <3>1. disk # <<>>
      BY <1>5, <2>1
    <3>2. archive' = disk /\ disk' = <<r>>
      BY <2>1 DEF Finish, Persist
    <3> QED BY <1>5, <3>1, <3>2
  <2>2. CASE ~ (Len(disk) >= PersistLimit)
    <3>1. archive' = archive /\ disk' = Append(disk, r)
      BY <2>2 DEF Finish, Persist
    <3> QED BY <1>5, <3>1
  <2> QED BY <2>1, <2>2
<1>8. PersistedOnce'
  <2>1. IsInjective(old) /\ DOMAIN old = 1..Len(old) /\ Len(old) = Len(archive) + Len(disk)
    BY <1>5 DEF RunsInv, PersistedOnce
  <2>2. /\ \A i \in 1..Len(archive) : old[i] = archive[i]
        /\ \A i \in 1..Len(disk) : old[Len(archive) + i] = disk[i]
    BY <1>5
  <2>3. CASE archive' = disk /\ disk' = <<r>> /\ disk # <<>>
    <3>1. /\ new = Append(disk, r) /\ DOMAIN new = 1..(Len(disk) + 1) /\ new[Len(disk) + 1] = r
          /\ \A i \in 1..Len(disk) : new[i] = disk[i]
      BY <1>5, <2>3
    <3>2. ASSUME NEW i \in 1..Len(disk) PROVE disk[i] \in ToSet(old) /\ disk[i] # r
      <4>1. disk[i] \in ToSet(old)
        <5>1. Len(archive) + i \in DOMAIN old
          BY <1>5, <2>1
        <5> QED BY <2>2, <5>1 DEF ToSet
      <4> QED BY <1>6, <4>1
    <3>3. \A i, j \in 1..Len(disk) : disk[i] = disk[j] => i = j
      <4> TAKE i, j \in 1..Len(disk)
      <4> HAVE disk[i] = disk[j]
      <4>1. Len(archive) + i \in 1..Len(old) /\ Len(archive) + j \in 1..Len(old)
        BY <1>5, <2>1
      <4>2. Len(archive) + i = Len(archive) + j
        BY <2>1, <2>2, <4>1 DEF IsInjective
      <4> QED BY <1>5, <4>2
    <3>4. IsInjective(new)
      <4>1. \A i \in 1..(Len(disk) + 1) : i \in 1..Len(disk) \/ i = Len(disk) + 1
        BY <1>5
      <4> HIDE DEF new
      <4> QED BY <3>1, <3>2, <3>3, <4>1 DEF IsInjective
    <3>5. ToSet(new) \subseteq ToSet(old) \cup {r}
      <4>1. \A i \in 1..(Len(disk) + 1) : i \in 1..Len(disk) \/ i = Len(disk) + 1
        BY <1>5
      <4> HIDE DEF new, old
      <4> QED BY <3>1, <3>2, <4>1 DEF ToSet
    <3>6. archive' # <<>>
      BY <2>3
    <3> HIDE DEF new, old
    <3>7. \A q \in ToSet(new) : runs'[q].st \in Outcomes
      BY <1>2, <1>6, <3>5
    <3> QED BY <3>4, <3>6, <3>7 DEF PersistedOnce, new
  <2>4. CASE archive' = archive /\ disk' = Append(disk, r)
    <3>1. /\ new \in Seq(RunIds) /\ DOMAIN new = 1..(Len(old) + 1) /\ new[Len(old) + 1] = r
          /\ \A i \in 1..Len(old) : new[i] = old[i]
      <4>1. old \in Seq(RunIds) /\ new = Append(old, r)
        BY <1>5, <2>4
      <4> HIDE DEF old
      <4> QED BY <4>1
    <3>2. \A i \in 1..Len(old) : old[i] \in ToSet(old)
      BY <2>1 DEF ToSet
    <3>3. \A i \in 1..(Len(old) + 1) : i \in 1..Len(old) \/ i = Len(old) + 1
      BY <1>5
    <3>4. IsInjective(new)
      <4> HIDE DEF new, old
      <4> QED BY <1>6, <2>1, <3>1, <3>2, <3>3 DEF IsInjective
    <3>5. ToSet(new) \subseteq ToSet(old) \cup {r}
      <4> HIDE DEF new, old
      <4> QED BY <3>1, <3>2, <3>3 DEF ToSet
    <3>6. ToSet(disk) \cup {r} \subseteq ToSet(disk')
      <4>1. /\ DOMAIN disk = 1..Len(disk) /\ DOMAIN disk' = 1..(Len(disk) + 1)
            /\ disk'[Len(disk) + 1] = r /\ \A i \in 1..Len(disk) : disk'[i] = disk[i]
            /\ Len(disk) \in Nat
        BY <1>5, <2>4
      <4>2. \A i \in 1..Len(disk) : i \in DOMAIN disk'
        BY <4>1
      <4>3. Len(disk) + 1 \in DOMAIN disk'
        BY <4>1
      <4> QED BY <4>1, <4>2, <4>3 DEF ToSet
    <3>7. \A q \in RunIds : runs'[q].st \in Outcomes /\ archive' = <<>> => q \in ToSet(disk')
      BY <1>2, <2>4, <3>6 DEF RunsInv, PersistedOnce
    <3> HIDE DEF new, old
    <3>8. \A q \in ToSet(new) : runs'[q].st \in Outcomes
      BY <1>2, <1>6, <3>5
    <3> QED BY <3>4, <3>7, <3>8 DEF PersistedOnce, new
  <2> QED BY <1>7, <2>3, <2>4
<1>9. TypeOK'
  BY <1>2, <1>4, <1>7 DEF RunsInv, TypeOK, Finish
<1>10. \A q \in RunIds : runs'[q].st # "none" <=> q <= runCount'
  BY <1>1, <1>2, <1>3 DEF RunsInv, Finish
<1>11. \A q \in RunIds : runs'[q].st # "none" => runs'[q].key \in Keys
  BY <1>1, <1>2 DEF RunsInv
<1>12. NoLeakedKey'
  <2> SUFFICES ASSUME NEW k \in active'
               PROVE  \E q \in RunIds : runs'[q].st = "running" /\ runs'[q].key = k
    BY DEF NoLeakedKey, InProgress
  <2>1. k \in active /\ k # runs[r].key
    BY DEF Finish
  <2>2. PICK q \in RunIds : runs[q].st = "running" /\ runs[q].key = k
    BY <2>1 DEF RunsInv, NoLeakedKey, InProgress
  <2> QED BY <1>2, <2>1, <2>2
<1> QED BY <1>4, <1>8, <1>9, <1>10, <1>11, <1>12 DEF RunsInv

(* Every step of the runtime keeps the invariant.                          *)
LEMMA RunsInvStep ==
  ASSUME RunsInv, [Next]_vars
  PROVE  RunsInv'
<1> USE BoundsAssumption, TriggersAssumption
<1>1. /\ ready \in Seq(QueuedTask(running)) /\ ready \in Seq(QueuedTask(TRUE))
      /\ running \in BOOLEAN /\ \A on : QueuedTask(on) \subseteq Task
  <2>1. PICK T, U : T = QueuedTask(running) /\ U = QueuedTask(TRUE)
    OBVIOUS
  <2>2. T \subseteq U
    BY <2>1 DEF QueuedTask
  <2>3. ready \in Seq(T)
    BY <2>1 DEF RunsInv
  <2>4. ready \in Seq(U)
    BY <2>2, <2>3
  <2> QED BY <2>1, <2>3, <2>4 DEF RunsInv, TypeOK, QueuedTask
<1>2. \A w \in Workflows : \A i \in 0..Len(Triggers[w]) : <<w, i>> \in Keys
  BY DEF Keys
<1>3. CASE UNCHANGED vars
  <2>1. TypeOK'
    BY <1>3 DEF RunsInv, TypeOK, vars
  <2>2. ready' \in Seq(QueuedTask(running'))
    BY <1>3 DEF RunsInv, vars
  <2> QED BY <1>3, <2>1, <2>2, RunsStay DEF vars
<1>4. CASE Start
  <2>1. ready' \in Seq(QueuedTask(running'))
    <3>1. ready' = ready /\ running' = TRUE
      BY <1>4 DEF Start
    <3> QED BY <1>1, <3>1
  <2>2. TypeOK'
    BY <1>4 DEF Start, recVars, RunsInv, TypeOK
  <2> QED BY <1>4, <2>1, <2>2, RunsStay DEF Start, recVars
<1>5. CASE Stop
  <2> DEFINE S == {t \in ToSet(ready) : t.kind = "event"}
             k == Kept(ready, S)
  <2>1. /\ runs \in [RunIds -> Run] /\ running' = FALSE /\ ready' = k
        /\ runs' = [r \in RunIds |-> IF runs[r].spawned /\ runs[r].st = "running"
                                      THEN [runs[r] EXCEPT !.cancel = TRUE] ELSE runs[r]]
    BY <1>5 DEF Stop, RunsInv, TypeOK
  <2>2. \A r \in RunIds : /\ runs'[r] \in Run /\ runs'[r].st = runs[r].st
                          /\ runs'[r].key = runs[r].key
    <3> TAKE r \in RunIds
    <3>1. runs[r] \in Run /\ [runs[r] EXCEPT !.cancel = TRUE] \in Run
      BY <2>1 DEF Run
    <3>2. /\ [runs[r] EXCEPT !.cancel = TRUE].st = runs[r].st
          /\ [runs[r] EXCEPT !.cancel = TRUE].key = runs[r].key
      BY <3>1 DEF Run
    <3>3. runs'[r] \in {runs[r], [runs[r] EXCEPT !.cancel = TRUE]}
      BY <2>1
    <3> QED BY <3>1, <3>2, <3>3
  <2>3. runs' \in [RunIds -> Run]
    BY <2>1, <2>2
  <2>4. Filtered(QueuedTask(TRUE), ready, S, Len(ready), k)
    BY <1>1, KeptIs
  <2>5. k \in Seq(QueuedTask(FALSE))
    <3>1. k \in Seq(QueuedTask(TRUE)) /\ \A i \in 1..Len(k) : k[i].kind = "event"
      BY <2>4 DEF Filtered
    <3> HIDE DEF k
    <3>2. PICK T, U : T = QueuedTask(TRUE) /\ U = QueuedTask(FALSE)
      OBVIOUS
    <3>3. \A t \in T : t.kind = "event" => t \in U
      BY <3>2 DEF QueuedTask
    <3>4. k \in Seq(T)
      BY <3>1, <3>2
    <3>5. \A i \in 1..Len(k) : k[i] \in U
      BY <3>1, <3>3, <3>4
    <3>6. k \in Seq(U)
      BY <3>4, <3>5
    <3> QED BY <3>2, <3>6
  <2>6. ready' \in Seq(QueuedTask(running'))
    BY <2>1, <2>5
  <2>7. ready' \in Seq(Task)
    <3>1. PICK U : U = QueuedTask(FALSE)
      OBVIOUS
    <3>2. U \subseteq Task /\ ready' \in Seq(U)
      BY <1>1, <2>1, <2>5, <3>1
    <3> QED BY <3>2
  <2>8. TypeOK'
    BY <1>5, <2>3, <2>7 DEF Stop, recVars, RunsInv, TypeOK
  <2> QED BY <1>5, <2>2, <2>6, <2>8, RunsStay DEF Stop, recVars
<1>6. CASE \E w \in Workflows : SetEnabled(w) \/ Age(w)
  <2> PICK w \in Workflows : SetEnabled(w) \/ Age(w)
    BY <1>6
  <2>1. /\ UNCHANGED <<running, ready, runs, runCount, active, disk, archive, ring, inputs, notices>>
    BY DEF SetEnabled, Age, recVars
  <2>2. enabled' \subseteq Workflows /\ stamps' \in [Workflows -> Seq({"event", "manual"})]
    <3>1. enabled \subseteq Workflows /\ stamps \in [Workflows -> Seq({"event", "manual"})]
      BY DEF RunsInv, TypeOK
    <3>2. CASE SetEnabled(w)
      BY <3>1, <3>2 DEF SetEnabled
    <3>3. CASE Age(w)
      <4>1. /\ stamps[w] \in Seq({"event", "manual"}) /\ stamps[w] # <<>>
            /\ stamps' = [stamps EXCEPT ![w] = Tail(stamps[w])] /\ enabled' = enabled
        BY <3>1, <3>3 DEF Age
      <4>2. Tail(stamps[w]) \in Seq({"event", "manual"})
        BY <4>1
      <4> QED BY <3>1, <4>1, <4>2
    <3> QED BY <3>2, <3>3
  <2>3. TypeOK'
    BY <2>1, <2>2 DEF RunsInv, TypeOK
  <2>4. ready' \in Seq(QueuedTask(running'))
    BY <1>1, <2>1
  <2> QED BY <2>1, <2>3, <2>4, RunsStay
<1>7. CASE \E type \in ExtTypes : Publish(type)
  <2> PICK type \in ExtTypes : Publish(type)
    BY <1>7
  <2>1. PICK d \in Seq(QueuedTask(running)) : d = Delivered(<<EventTask(type, NoKey)>>)
    BY DeliveredTasks DEF EventTypes
  <2>2. ready' = ready \o d /\ running' = running
    BY <2>1 DEF Publish
  <2>3. ready' \in Seq(QueuedTask(running'))
    BY <1>1, <2>2
  <2>4. ready' \in Seq(Task)
    BY <1>1, <2>3
  <2>5. inputs' \in 0..MaxInputs
    BY DEF Publish, RunsInv, TypeOK
  <2>6. TypeOK'
    BY <2>4, <2>5 DEF Publish, recVars, RunsInv, TypeOK
  <2> QED BY <2>3, <2>6, RunsStay DEF Publish, recVars
<1>8. CASE OnEvent
  <2>1. ready # <<>> /\ Head(ready) \in Task /\ Tail(ready) \in Seq(QueuedTask(running))
    <3>1. ready # <<>>
      BY <1>8 DEF OnEvent
    <3> QED BY <1>1, <3>1
  <2>2. PICK d : d = IF running THEN Responses(Head(ready)) ELSE <<>>
    OBVIOUS
  <2>3. d \in Seq(QueuedTask(running))
    <3>1. CASE running
      <4>1. running = TRUE
        BY <3>1 DEF RunsInv, TypeOK
      <4>2. Responses(Head(ready)) \in Seq(QueuedTask(TRUE))
        BY <2>1, ResponsesAreTasks
      <4> QED BY <2>2, <3>1, <4>1, <4>2
    <3>2. CASE ~ running
      BY <2>2, <3>2
    <3> QED BY <3>1, <3>2
  <2>4. ready' = Tail(ready) \o d /\ running' = running
    BY <1>8, <2>2 DEF OnEvent
  <2>5. ready' \in Seq(QueuedTask(running'))
    BY <2>1, <2>3, <2>4
  <2>6. ready' \in Seq(Task)
    BY <1>1, <2>5
  <2>7. notices' \in 0..2
    BY <1>8 DEF OnEvent, RunsInv, TypeOK
  <2>8. TypeOK'
    BY <1>8, <2>6, <2>7 DEF OnEvent, recVars, RunsInv, TypeOK
  <2> QED BY <1>8, <2>5, <2>8, RunsStay DEF OnEvent, recVars
<1>9. CASE RunSpawned
  <2>1. ready # <<>> /\ Head(ready).kind = "start"
    BY <1>9 DEF RunSpawned
  <2>2. PICK t \in QueuedTask(running) : t = Head(ready)
    BY <1>1, <2>1
  <2>3. PICK rest \in Seq(QueuedTask(running)) : rest = Tail(ready)
    <3>1. Tail(ready) \in Seq(QueuedTask(running))
      BY <1>1, <2>1
    <3> QED BY <3>1
  <2>4. /\ t.key \in Keys /\ t.by \in {"event", "manual"} /\ t.type \in EventTypes
        /\ t.about \in Keys \cup {NoKey}
    BY <2>1, <2>2 DEF QueuedTask, Task
  <2>5. Begin(t.key, t.by, t.type, t.about, TRUE, rest)
    BY <1>9, <2>2, <2>3 DEF RunSpawned
  <2>6. inputs' \in 0..MaxInputs
    BY <1>9 DEF RunSpawned, RunsInv, TypeOK
  <2> QED BY <1>9, <2>4, <2>5, <2>6, BeginKeeps DEF RunSpawned
<1>10. CASE \E w \in Workflows : \E i \in 0..Len(Triggers[w]) : ManualRun(w, i)
  <2> PICK w \in Workflows : \E i \in 0..Len(Triggers[w]) : ManualRun(w, i)
    BY <1>10
  <2> PICK i \in 0..Len(Triggers[w]) : ManualRun(w, i)
    OBVIOUS
  <2>1. Begin(<<w, i>>, "manual", "none", NoKey, FALSE, ready) /\ <<w, i>> \in Keys
    BY <1>2 DEF ManualRun
  <2>2. inputs' \in 0..MaxInputs
    BY DEF ManualRun, RunsInv, TypeOK
  <2> QED BY <1>1, <2>1, <2>2, BeginKeeps DEF ManualRun, EventTypes
<1>11. CASE \E w \in Workflows : \E i \in 1..Len(Triggers[w]) : ManualSpawn(w, i)
  <2> PICK w \in Workflows : \E i \in 1..Len(Triggers[w]) : ManualSpawn(w, i)
    BY <1>11
  <2> PICK i \in 1..Len(Triggers[w]) : ManualSpawn(w, i)
    OBVIOUS
  <2>1. PICK t \in QueuedTask(running) : t = StartTask(<<w, i>>, "manual", "none", NoKey)
    <3>1. <<w, i>> \in Keys
      <4>1. Len(Triggers[w]) \in Nat
        BY DEF Workflows
      <4> QED BY <1>2, <4>1
    <3>2. StartTask(<<w, i>>, "manual", "none", NoKey) \in QueuedTask(running)
      BY <3>1 DEF StartTask, QueuedTask, Task, EventTypes
    <3> QED BY <3>2
  <2>2. ready' = Append(ready, t) /\ running' = running
    BY <2>1 DEF ManualSpawn
  <2>3. ready' \in Seq(QueuedTask(running'))
    BY <1>1, <2>2
  <2>4. ready' \in Seq(Task)
    BY <1>1, <2>3
  <2>5. inputs' \in 0..MaxInputs
    BY DEF ManualSpawn, RunsInv, TypeOK
  <2>6. TypeOK'
    BY <2>4, <2>5 DEF ManualSpawn, recVars, RunsInv, TypeOK
  <2> QED BY <2>3, <2>6, RunsStay DEF ManualSpawn, recVars
<1>12. CASE \E r \in RunIds, st \in Outcomes : Finish(r, st)
  BY <1>12, FinishKeeps
<1> QED BY <1>3, <1>4, <1>5, <1>6, <1>7, <1>8, <1>9, <1>10, <1>11, <1>12 DEF Next

(* What a stopped runtime starts.                                          *)
LEMMA QuietStep ==
  ASSUME RunsInv, [Next]_vars, ~ running,
         NEW r \in RunIds, runs[r].st = "none", runs'[r].st = "running"
  PROVE  runs'[r].by = "manual"
<1> USE TriggersAssumption
<1>1. ASSUME NEW key, NEW by, NEW type, NEW about, NEW spawned, NEW rest,
             Begin(key, by, type, about, spawned, rest)
      PROVE  runs'[r].by = by
  <2>1. runs' = [runs EXCEPT ![runCount + 1] =
                  [key |-> key, by |-> by, type |-> type, about |-> about,
                   spawned |-> spawned, cancel |-> FALSE, st |-> "running"]]
    BY <1>1 DEF Begin
  <2>2. runs \in [RunIds -> Run]
    BY DEF RunsInv, TypeOK
  <2> QED BY <2>1, <2>2
<1>2. CASE RunSpawned
  <2>1. ready # <<>> /\ Head(ready).kind = "start"
    BY <1>2 DEF RunSpawned
  <2>2. running = FALSE /\ ready \in Seq(QueuedTask(running))
    BY DEF RunsInv, TypeOK
  <2>3. Head(ready) \in QueuedTask(FALSE)
    <3>1. PICK T : T = QueuedTask(running)
      OBVIOUS
    <3>2. Head(ready) \in T
      BY <2>1, <2>2, <3>1
    <3> QED BY <2>2, <3>1, <3>2
  <2>4. Head(ready).by = "manual"
    BY <2>1, <2>3 DEF QueuedTask
  <2>5. PICK t : t = Head(ready)
    OBVIOUS
  <2>6. Begin(t.key, t.by, t.type, t.about, TRUE, Tail(ready))
    BY <1>2, <2>5 DEF RunSpawned
  <2> QED BY <1>1, <2>4, <2>5, <2>6
<1>3. CASE \E w \in Workflows : \E i \in 0..Len(Triggers[w]) : ManualRun(w, i)
  <2> PICK w \in Workflows : \E i \in 0..Len(Triggers[w]) : ManualRun(w, i)
    BY <1>3
  <2> PICK i \in 0..Len(Triggers[w]) : ManualRun(w, i)
    OBVIOUS
  <2>1. Begin(<<w, i>>, "manual", "none", NoKey, FALSE, ready)
    BY DEF ManualRun
  <2> QED BY <1>1, <2>1
<1>4. CASE \E q \in RunIds, st \in Outcomes : Finish(q, st)
  <2> PICK q \in RunIds, st \in Outcomes : Finish(q, st)
    BY <1>4
  <2>1. /\ runs \in [RunIds -> Run] /\ runs' = [runs EXCEPT ![q].st = st]
        /\ runs[q].st = "running"
    BY DEF Finish, RunsInv, TypeOK
  <2>2. q # r
    BY <2>1
  <2>3. runs'[r] = runs[r]
    BY <2>1, <2>2
  <2> QED BY <2>3
<1>5. CASE Stop
  <2>1. FALSE
    BY <1>5 DEF Stop
  <2> QED BY <2>1
<1>6. CASE \/ UNCHANGED vars \/ Start \/ OnEvent
           \/ \E w \in Workflows : SetEnabled(w) \/ Age(w)
           \/ \E type \in ExtTypes : Publish(type)
           \/ \E w \in Workflows : \E i \in 1..Len(Triggers[w]) : ManualSpawn(w, i)
  <2>1. runs' = runs
    BY <1>6 DEF vars, Start, OnEvent, SetEnabled, Age, Publish, ManualSpawn
  <2> QED BY <2>1
<1> QED BY <1>2, <1>3, <1>4, <1>5, <1>6 DEF Next

THEOREM RunsInvHolds == Spec => []RunsInv
<1>1. Init => RunsInv
  BY RunsInvInit
<1>2. RunsInv /\ [Next]_vars => RunsInv'
  BY RunsInvStep
<1> QED BY <1>1, <1>2, PTL DEF Spec

(* The runtime's variables keep their types, for any triggers and limits.  *)
THEOREM RuntimeTyped == Spec => []TypeOK
<1>1. RunsInv => TypeOK
  BY DEF RunsInv
<1> QED BY <1>1, RunsInvHolds, PTL

(* A key in _active_keys belongs to a run in progress, for any workflows,  *)
(* any number of runs and any order in which they begin and end.           *)
THEOREM KeysAreReleased == Spec => []NoLeakedKey
<1>1. RunsInv => NoLeakedKey
  BY DEF RunsInv
<1> QED BY <1>1, RunsInvHolds, PTL

(* The run log holds each ended run once, for any rotation limit.          *)
THEOREM RunsArePersistedOnce == Spec => []PersistedOnce
<1>1. RunsInv => PersistedOnce
  BY DEF RunsInv
<1> QED BY <1>1, RunsInvHolds, PTL

(* No event starts a run after stop(), whatever was queued before it.      *)
THEOREM StoppedIsQuiet == Spec => QuietWhenStopped
<1>1. RunsInv /\ [Next]_vars =>
        [~ running =>
           \A r \in RunIds : runs[r].st = "none" /\ runs'[r].st = "running" =>
                               runs'[r].by = "manual"]_vars
  BY QuietStep
<1> QED BY <1>1, RunsInvHolds, PTL DEF Spec, QuietWhenStopped

-----------------------------------------------------------------------------
(* The engine: what its operators return                                   *)

LEMMA SmallestIndex ==
  ASSUME NEW I \in SUBSET Nat, I # {}
  PROVE  Min(I) \in I /\ \A i \in I : Min(I) <= i
<1>1. PICK n \in I : \A m \in I : n <= m
  BY LeastNat
<1> QED BY <1>1 DEF Min

(* The definition's nodes and edges.                                       *)
LEMMA DefinitionIs ==
  ASSUME wf \in Definitions
  PROVE  /\ wf.nodes \in Nat \ {0} /\ Nodes = 1..wf.nodes
         /\ \A n \in Nodes : \A p \in Preds(n) : p \in Nodes /\ p < n
         /\ \A n \in Nodes : Preds(n) = {m \in Nodes : <<m, n>> \in wf.edges}
<1>1. /\ wf.nodes \in 1..MaxNodes /\ MaxNodes \in Nat
      /\ wf.edges \subseteq {e \in (1..wf.nodes) \X (1..wf.nodes) : e[1] < e[2]}
  BY DefinitionsAssumption
<1>2. \A m, n : <<m, n>> \in wf.edges => m < n
  BY <1>1
<1> QED BY <1>1, <1>2 DEF Nodes, Preds

(* A comprehension over the nodes, in the order of the definition.         *)
LEMMA NodesKept ==
  ASSUME wf \in Definitions, NEW S
  PROVE  /\ Kept([n \in Nodes |-> n], S) \in Seq(Nodes)
         /\ IsInjective(Kept([n \in Nodes |-> n], S))
         /\ \A n \in Nodes : Contains(Kept([m \in Nodes |-> m], S), n) <=> n \in S
<1> DEFINE all == [n \in Nodes |-> n]
<1>1. wf.nodes \in Nat /\ Nodes = 1..wf.nodes
  BY DefinitionIs
<1>2. all \in Seq(Nodes) /\ Len(all) = wf.nodes /\ IsInjective(all)
  BY <1>1 DEF IsInjective
<1>3. Filtered(Nodes, all, S, Len(all), Kept(all, S))
  BY <1>2, KeptIs
<1>4. \A n \in Nodes : all[n] = n /\ n \in 1..Len(all)
  BY <1>1, <1>2
<1>5. PICK k : k = Kept(all, S)
  OBVIOUS
<1>6. /\ k \in Seq(Nodes) /\ IsInjective(k)
      /\ \A i \in 1..Len(k) : k[i] \in S
      /\ \A j \in 1..Len(all) : all[j] \in S => \E i \in 1..Len(k) : k[i] = all[j]
  BY <1>2, <1>3, <1>5 DEF Filtered
<1>7. \A n \in Nodes : Contains(k, n) <=> n \in S
  BY <1>4, <1>6 DEF Contains
<1> QED BY <1>5, <1>6, <1>7

(* What _add_ready_successors leaves: the nodes that were in the queue, and *)
(* every other one whose predecessors are done.                            *)
LEMMA EnqueueIs ==
  ASSUME wf \in Definitions, NEW q \in Seq(Nodes), NEW st \in [Nodes -> NodeStatus], NEW done,
         Enqueue(q, st, done)
  PROVE  /\ queue' \in Seq(Nodes)
         /\ \A n \in Nodes : Contains(queue', n) <=>
              \/ Contains(q, n)
              \/ n \notin done /\ \A p \in Preds(n) : st[p] \in Ok
         /\ IsInjective(q) => IsInjective(queue')
         /\ status' \in [Nodes -> NodeStatus]
         /\ \A n \in Nodes : \/ status'[n] = st[n]
                             \/ st[n] = "created" /\ status'[n] = "queued"
<1> DEFINE S == {n \in Nodes : n \notin done /\ ~ Contains(q, n) /\ \A p \in Preds(n) : st[p] \in Ok}
<1>1. PICK f : f = Fresh(q, st, done)
  OBVIOUS
<1>2. /\ f \in Seq(Nodes) /\ IsInjective(f)
      /\ \A n \in Nodes : Contains(f, n) <=> n \in S
  BY <1>1, NodesKept DEF Fresh
<1>3. /\ queue' = q \o f
      /\ status' = [n \in Nodes |-> IF st[n] = "created" /\ Contains(f, n) THEN "queued" ELSE st[n]]
  BY <1>1 DEF Enqueue
<1>4. /\ status' \in [Nodes -> NodeStatus]
      /\ \A n \in Nodes : \/ status'[n] = st[n]
                          \/ st[n] = "created" /\ status'[n] = "queued"
  <2>1. "queued" \in NodeStatus
    BY DEF NodeStatus
  <2> QED BY <1>3, <2>1
<1>5. /\ queue' \in Seq(Nodes) /\ Len(queue') = Len(q) + Len(f)
      /\ \A i \in 1..Len(q) : queue'[i] = q[i]
      /\ \A i \in 1..Len(f) : queue'[Len(q) + i] = f[i]
      /\ Len(q) \in Nat /\ Len(f) \in Nat
  BY <1>2, <1>3
<1>6. \A i \in 1..Len(queue') : i \in 1..Len(q) \/ \E j \in 1..Len(f) : i = Len(q) + j
  <2> TAKE i \in 1..Len(queue')
  <2>1. CASE i > Len(q)
    <3>1. i - Len(q) \in 1..Len(f) /\ i = Len(q) + (i - Len(q))
      BY <1>5, <2>1
    <3> QED BY <3>1
  <2>2. CASE ~ (i > Len(q))
    BY <1>5, <2>2
  <2> QED BY <2>1, <2>2
<1>7. /\ \A i \in 1..Len(q) : i \in 1..Len(queue')
      /\ \A i \in 1..Len(f) : Len(q) + i \in 1..Len(queue')
  BY <1>5
<1>8. \A n \in Nodes : Contains(queue', n) <=> Contains(q, n) \/ Contains(f, n)
  <2> TAKE n \in Nodes
  <2>1. Contains(queue', n) => Contains(q, n) \/ Contains(f, n)
    BY <1>5, <1>6 DEF Contains
  <2>2. Contains(q, n) => Contains(queue', n)
    BY <1>5, <1>7 DEF Contains
  <2>3. Contains(f, n) => Contains(queue', n)
    BY <1>5, <1>7 DEF Contains
  <2> QED BY <2>1, <2>2, <2>3
<1>9. ASSUME IsInjective(q) PROVE IsInjective(queue')
  <2>1. \A i \in 1..Len(q), j \in 1..Len(f) : q[i] # f[j]
    <3> TAKE i \in 1..Len(q), j \in 1..Len(f)
    <3>1. f[j] \in Nodes /\ Contains(f, f[j])
      BY <1>2 DEF Contains
    <3>2. ~ Contains(q, f[j])
      BY <1>2, <3>1
    <3> QED BY <3>2 DEF Contains
  <2>2. DOMAIN q = 1..Len(q) /\ DOMAIN f = 1..Len(f) /\ DOMAIN queue' = 1..Len(queue')
    BY <1>2, <1>5
  <2>3. /\ \A i, j \in 1..Len(q) : q[i] = q[j] => i = j
        /\ \A i, j \in 1..Len(f) : f[i] = f[j] => i = j
    BY <1>2, <1>9, <2>2 DEF IsInjective
  <2>4. ASSUME NEW i \in 1..Len(queue'), NEW j \in 1..Len(queue'), queue'[i] = queue'[j]
        PROVE  i = j
    <3>1. CASE i \in 1..Len(q) /\ j \in 1..Len(q)
      BY <1>5, <2>3, <2>4, <3>1
    <3>2. ASSUME i \in 1..Len(q), j \notin 1..Len(q) PROVE FALSE
      <4>1. PICK b \in 1..Len(f) : j = Len(q) + b
        BY <1>6, <3>2
      <4> QED BY <1>5, <2>1, <2>4, <3>2, <4>1
    <3>3. ASSUME i \notin 1..Len(q), j \in 1..Len(q) PROVE FALSE
      <4>1. PICK a \in 1..Len(f) : i = Len(q) + a
        BY <1>6, <3>3
      <4> QED BY <1>5, <2>1, <2>4, <3>3, <4>1
    <3>4. CASE i \notin 1..Len(q) /\ j \notin 1..Len(q)
      <4>1. PICK a \in 1..Len(f) : i = Len(q) + a
        BY <1>6, <3>4
      <4>2. PICK b \in 1..Len(f) : j = Len(q) + b
        BY <1>6, <3>4
      <4>3. f[a] = f[b]
        BY <1>5, <2>4, <4>1, <4>2
      <4>4. a = b
        BY <2>3, <4>3
      <4> QED BY <4>1, <4>2, <4>4
    <3> QED BY <3>1, <3>2, <3>3, <3>4
  <2> QED BY <2>2, <2>4 DEF IsInjective
<1> QED BY <1>2, <1>4, <1>5, <1>8, <1>9

(* The head of the queue and what is behind it.                            *)
LEMMA HeadsAre ==
  ASSUME EngineTypeOK
  PROVE  /\ Heads \in 0..Len(queue)
         /\ Prefix \in Seq(Nodes) /\ Behind \in Seq(Nodes) /\ Group \in Seq(Nodes)
         /\ wf.parallel = {} => Group = <<>> /\ Behind = queue
<1>0. wf \in Definitions /\ queue \in Seq(Nodes) /\ Len(queue) \in Nat
  BY DEF EngineTypeOK
<1> DEFINE I == {i \in 1..Len(queue) : queue[i] \notin wf.parallel}
<1>1. Heads = IF I # {} THEN Min(I) ELSE 0
  BY DEF Heads, SelectInSeq
<1>2. I \in SUBSET Nat
  OBVIOUS
<1>3. I # {} => Min(I) \in I /\ \A i \in I : Min(I) <= i
  BY <1>2, SmallestIndex
<1>4. Heads \in 0..Len(queue)
  BY <1>0, <1>1, <1>3
<1>5. Prefix \in Seq(Nodes) /\ Len(Prefix) \in Nat /\ Len(Prefix) <= Len(queue)
  <2>1. CASE Heads = 0
    BY <1>0, <2>1 DEF Prefix
  <2>2. CASE Heads # 0
    <3>1. Heads - 1 \in 0..Len(queue)
      BY <1>0, <1>4, <2>2
    <3>2. Prefix = SubSeq(queue, 1, Heads - 1)
      BY <2>2 DEF Prefix
    <3>3. SubSeq(queue, 1, Heads - 1) \in Seq(Nodes) /\ Len(SubSeq(queue, 1, Heads - 1)) = Heads - 1
      BY <1>0, <3>1
    <3> QED BY <1>0, <3>1, <3>2, <3>3
  <2> QED BY <2>1, <2>2
<1>6. Behind \in Seq(Nodes)
  <2>1. PICK m \in 1..(Len(queue) + 1) : m = Len(Prefix) + 1
    BY <1>0, <1>5
  <2>2. Behind = SubSeq(queue, m, Len(queue))
    BY <2>1 DEF Behind
  <2> QED BY <1>0, <2>1, <2>2
<1>7. PICK pre \in Seq(Nodes) : pre = Prefix
  BY <1>5
<1>8. Filtered(Nodes, pre, {n \in Nodes : Ready(n)}, Len(pre), Group)
  BY <1>7, KeptIs DEF Group
<1>9. Group \in Seq(Nodes)
  BY <1>8 DEF Filtered
<1>10. ASSUME wf.parallel = {} PROVE Group = <<>> /\ Behind = queue
  <2>1. Prefix = <<>>
    <3>1. CASE queue = <<>>
      <4>1. Prefix = <<>> \/ Heads # 0
        BY <3>1 DEF Prefix
      <4>2. Heads = 0
        BY <1>4, <3>1
      <4> QED BY <4>1, <4>2
    <3>2. CASE queue # <<>>
      <4>1. 1 \in I
        BY <1>0, <1>10, <3>2
      <4>2. Min(I) = 1
        BY <1>3, <4>1
      <4>3. Heads = 1
        BY <1>1, <4>1, <4>2
      <4>4. Prefix = SubSeq(queue, 1, 0)
        BY <4>3 DEF Prefix
      <4> QED BY <1>0, <4>4
    <3> QED BY <3>1, <3>2
  <2>2. Len(pre) = 0
    BY <1>7, <2>1
  <2>3. \A i \in 1..Len(Group) : FALSE
    BY <1>8, <2>2 DEF Filtered
  <2>4. PICK g \in Seq(Nodes) : g = Group
    BY <1>9
  <2>5. g = <<>>
    <3>1. Len(g) = 0
      BY <2>3, <2>4
    <3> QED BY <3>1
  <2>6. Behind = SubSeq(queue, 1, Len(queue))
    BY <1>7, <2>2 DEF Behind
  <2>7. SubSeq(queue, 1, Len(queue)) = queue
    BY <1>0
  <2> QED BY <2>4, <2>5, <2>6, <2>7
<1> QED BY <1>4, <1>5, <1>6, <1>9, <1>10

LEMMA HeadAndTail ==
  ASSUME NEW T, NEW s \in Seq(T), s # <<>>
  PROVE  /\ Head(s) \in ToSet(s) /\ ToSet(Tail(s)) \subseteq ToSet(s)
         /\ ToSet(s) \subseteq ToSet(Tail(s)) \cup {Head(s)}
<1>1. /\ DOMAIN s = 1..Len(s) /\ DOMAIN Tail(s) = 1..(Len(s) - 1) /\ Len(s) \in Nat \ {0}
      /\ Head(s) = s[1] /\ \A i \in 1..(Len(s) - 1) : Tail(s)[i] = s[i + 1]
  OBVIOUS
<1>2. Head(s) \in ToSet(s)
  BY <1>1 DEF ToSet
<1>3. ToSet(Tail(s)) \subseteq ToSet(s)
  <2>1. \A i \in 1..(Len(s) - 1) : i + 1 \in DOMAIN s
    BY <1>1
  <2> QED BY <1>1, <2>1 DEF ToSet
<1>4. ASSUME NEW i \in 1..Len(s), i # 1 PROVE s[i] \in ToSet(Tail(s))
  <2>1. i - 1 \in DOMAIN Tail(s) /\ Tail(s)[i - 1] = s[i]
    BY <1>1, <1>4
  <2> QED BY <2>1 DEF ToSet
<1>5. ToSet(s) \subseteq ToSet(Tail(s)) \cup {Head(s)}
  BY <1>1, <1>4 DEF ToSet
<1> QED BY <1>2, <1>3, <1>5

(* How a node is when _execute_single_node has decided about it.           *)
LEMMA EntryIs ==
  ASSUME NEW n, NEW s \in EntryStatus(n)
  PROVE  s \in {"cancelled", "skipped", "blocked", "running"}
BY DEF EntryStatus

-----------------------------------------------------------------------------
(* The engine: nothing is lost                                             *)

LEMMA EngineTypedInit == EngineInit => EngineTypeOK
<1> SUFFICES ASSUME EngineInit PROVE EngineTypeOK
  OBVIOUS
<1>1. wf \in Definitions
  BY DEF EngineInit
<1>2. queue \in Seq(Nodes)
  BY <1>1, NodesKept DEF EngineInit
<1>3. status \in [Nodes -> NodeStatus] /\ execs \in [Nodes -> Nat]
  BY DEF EngineInit, NodeStatus
<1>4. members \in Seq(Nodes) /\ pending \in Seq(Nodes)
  BY DEF EngineInit
<1>5. completed \subseteq Nodes /\ sleeping \subseteq Nodes /\ failed \subseteq Nodes
  BY DEF EngineInit
<1> QED BY <1>1, <1>2, <1>3, <1>4, <1>5 DEF EngineInit, EngineTypeOK

LEMMA EnterTyped ==
  ASSUME EngineTypeOK, NEW n \in Nodes, NEW s \in NodeStatus, Enter(n, s, status)
  PROVE  /\ status' \in [Nodes -> NodeStatus] /\ execs' \in [Nodes -> Nat]
         /\ status'[n] = s /\ \A m \in Nodes \ {n} : status'[m] = status[m]
         /\ s \in {"cancelled", "skipped", "blocked", "running"}
<1>1. /\ status \in [Nodes -> NodeStatus] /\ execs \in [Nodes -> Nat]
      /\ status' = [status EXCEPT ![n] = s]
      /\ execs' = IF s = "running" THEN [execs EXCEPT ![n] = execs[n] + 1] ELSE execs
  BY DEF EngineTypeOK, Enter
<1>2. s \in EntryStatus(n)
  BY DEF Enter
<1>3. s \in {"cancelled", "skipped", "blocked", "running"}
  BY <1>2, EntryIs
<1>4. execs' \in [Nodes -> Nat]
  BY <1>1
<1> QED BY <1>1, <1>3, <1>4

(* What a step of the loop does to the node it takes, or to the ones that  *)
(* are over.                                                               *)
LEMMA LoopSteps ==
  ASSUME EngineTypeOK
  PROVE  /\ \A s \in NodeStatus : TakeSequential(s) =>
              /\ Head(Behind) \in Nodes /\ Tail(Behind) \in Seq(Nodes)
              /\ Enter(Head(Behind), s, status)
         /\ BlockSequential =>
              /\ Head(Behind) \in Nodes /\ Tail(Behind) \in Seq(Nodes)
              /\ [status EXCEPT ![Head(Behind)] = "blocked"] \in [Nodes -> NodeStatus]
         /\ ToSet(members) \subseteq Nodes /\ ToSet(queue) \subseteq Nodes
<1>1. Behind \in Seq(Nodes)
  BY HeadsAre
<1>2. PICK b \in Seq(Nodes) : b = Behind
  BY <1>1
<1>3. b # <<>> => Head(b) \in Nodes /\ Tail(b) \in Seq(Nodes)
  OBVIOUS
<1>4. "blocked" \in NodeStatus /\ status \in [Nodes -> NodeStatus]
  BY DEF NodeStatus, Failing, EngineTypeOK
<1>5. ToSet(members) \subseteq Nodes /\ ToSet(queue) \subseteq Nodes
  BY DEF EngineTypeOK, ToSet
<1> QED BY <1>2, <1>3, <1>4, <1>5 DEF TakeSequential, BlockSequential

LEMMA EngineTypedStep ==
  ASSUME EngineTypeOK, [EngineNext]_engineVars
  PROVE  EngineTypeOK'
<1> USE DEF EngineTypeOK
<1>1. CASE UNCHANGED engineVars
  BY <1>1 DEF engineVars, Nodes
<1>2. ASSUME NEW s \in NodeStatus, BeginMember(s) PROVE EngineTypeOK'
  <2>1. pending # <<>> /\ Enter(Head(pending), s, status) /\ pending' = Tail(pending)
    BY <1>2 DEF BeginMember
  <2>2. Head(pending) \in Nodes /\ Tail(pending) \in Seq(Nodes)
    BY <2>1
  <2>3. status' \in [Nodes -> NodeStatus] /\ execs' \in [Nodes -> Nat]
    BY <2>1, <2>2, EnterTyped
  <2> QED BY <1>2, <2>1, <2>2, <2>3 DEF BeginMember, Nodes
<1>3. ASSUME NEW s \in NodeStatus, TakeSequential(s) PROVE EngineTypeOK'
  <2>1. /\ Head(Behind) \in Nodes /\ Tail(Behind) \in Seq(Nodes)
        /\ Enter(Head(Behind), s, status)
    BY <1>3, LoopSteps
  <2>2. status' \in [Nodes -> NodeStatus] /\ execs' \in [Nodes -> Nat]
    BY <2>1, EnterTyped
  <2>3. /\ queue' \in Seq(Nodes) /\ members' \in Seq(Nodes) /\ phase' = "exec"
        /\ UNCHANGED <<wf, completed, pending, sleeping, result, cancel, taskCancel, failed>>
    BY <1>3, <2>1 DEF TakeSequential
  <2> QED BY <2>2, <2>3 DEF Nodes
<1>4. ASSUME NEW n \in Nodes, NEW s \in {"completed", "failed", "timeout"}, EndNode(n, s)
      PROVE EngineTypeOK'
  <2>1. s \in NodeStatus
    BY DEF NodeStatus, Ok, Failing
  <2>2. status' \in [Nodes -> NodeStatus] /\ failed' \subseteq Nodes /\ sleeping' \subseteq Nodes
    BY <1>4, <2>1 DEF EndNode
  <2> QED BY <1>4, <2>2 DEF EndNode, Nodes
<1>5. ASSUME NEW n \in Nodes, Wake(n) PROVE EngineTypeOK'
  BY <1>5 DEF Wake, Nodes
<1>6. CASE TakeParallel
  <2>1. Group \in Seq(Nodes) /\ Behind \in Seq(Nodes)
    BY HeadsAre
  <2>2. status' \in [Nodes -> NodeStatus]
    <3>1. "dispatching" \in NodeStatus
      BY DEF NodeStatus
    <3> QED BY <1>6, <3>1 DEF TakeParallel
  <2>3. /\ queue' \in Seq(Nodes) /\ members' \in Seq(Nodes) /\ pending' \in Seq(Nodes)
        /\ phase' = "exec"
        /\ UNCHANGED <<wf, completed, sleeping, result, cancel, taskCancel, execs, failed>>
    BY <1>6, <2>1 DEF TakeParallel
  <2> QED BY <2>2, <2>3 DEF Nodes
<1>7. CASE BlockSequential
  <2>1. PICK n \in Nodes, q \in Seq(Nodes), st \in [Nodes -> NodeStatus] :
           n = Head(Behind) /\ q = Tail(Behind) /\ st = [status EXCEPT ![Head(Behind)] = "blocked"]
    BY <1>7, LoopSteps
  <2>2. completed' \subseteq Nodes /\ Enqueue(q, st, completed')
    BY <1>7, <2>1 DEF BlockSequential
  <2>3. queue' \in Seq(Nodes) /\ status' \in [Nodes -> NodeStatus]
    BY <2>2, EnqueueIs
  <2> QED BY <1>7, <2>2, <2>3 DEF BlockSequential, Nodes
<1>8. CASE PopEmpty
  <2>1. queue' = <<>> /\ phase' = "raised"
    BY <1>8 DEF PopEmpty
  <2>2. queue' \in Seq(Nodes)
    BY <2>1
  <2> QED BY <1>8, <2>1, <2>2 DEF PopEmpty, Nodes
<1>9. CASE MembersDone
  <2>1. Enqueue(queue, status, completed \cup {Head(members)})
    BY <1>9 DEF MembersDone
  <2>2. queue' \in Seq(Nodes) /\ status' \in [Nodes -> NodeStatus]
    BY <2>1, EnqueueIs
  <2>3. completed' \subseteq Nodes
    BY <1>9, LoopSteps DEF MembersDone
  <2> QED BY <1>9, <2>2, <2>3 DEF MembersDone, Nodes
<1>10. CASE ReturnResult
  <2>1. result' \in {"running", "completed", "failed", "cancelled", "blocked"}
    BY <1>10 DEF ReturnResult, Verdict
  <2> QED BY <1>10, <2>1 DEF ReturnResult, Nodes
<1>11. CASE SetCancel
  BY <1>11 DEF SetCancel, Nodes
<1>12. CASE CancelTask
  <2>1. "cancelled" \in NodeStatus
    BY DEF NodeStatus, Failing
  <2>2. status' \in [Nodes -> NodeStatus]
    BY <1>12, <2>1 DEF CancelTask, CancelledStatus
  <2>3. phase' \in {phase, "raised"} /\ pending' \in Seq(Nodes) /\ sleeping' \subseteq Nodes
    <3>1. \/ phase' = "raised" /\ pending' = <<>> /\ sleeping' = {}
          \/ UNCHANGED <<phase, pending, sleeping>>
      BY <1>12 DEF CancelTask
    <3>2. <<>> \in Seq(Nodes)
      OBVIOUS
    <3>3. CASE phase' = "raised" /\ pending' = <<>> /\ sleeping' = {}
      BY <3>2, <3>3
    <3>4. CASE UNCHANGED <<phase, pending, sleeping>>
      BY <3>4
    <3> QED BY <3>1, <3>3, <3>4
  <2>4. taskCancel' = TRUE /\ UNCHANGED <<wf, queue, completed, members, result, cancel, execs, failed>>
    BY <1>12 DEF CancelTask
  <2>5. phase' \in {"loop", "exec", "done", "raised"}
    BY <2>3
  <2> QED BY <2>2, <2>3, <2>4, <2>5 DEF Nodes
<1>13. CASE Over
  BY <1>13 DEF Over, engineVars, Nodes
<1> QED BY <1>1, <1>2, <1>3, <1>4, <1>5, <1>6, <1>7, <1>8, <1>9, <1>10, <1>11, <1>12, <1>13
        DEF EngineNext, Step

(* The nodes of the turn that is going on, or that an exception ended.     *)
InTurn == IF phase \in {"exec", "raised"} THEN ToSet(members) ELSE {}

EndStates == Ok \cup Failing

(* Why nothing is lost: between two turns every node whose predecessors    *)
(* are done is over or in the queue, and a node is over only in an end     *)
(* state.                                                                  *)
EngineInv ==
    /\ EngineTypeOK
    /\ phase = "exec" =>
         /\ members # <<>>
         /\ \A n \in ToSet(members) :
              status[n] \in EndStates \cup {"running"} \/ n \in ToSet(pending)
    /\ phase # "exec" => pending = <<>>
    /\ ToSet(pending) \subseteq ToSet(members)
    /\ \A n \in completed : status[n] \in EndStates \/ n \in InTurn
    /\ phase = "loop" => \A n \in Nodes : Ready(n) => n \in completed \/ Contains(queue, n)
    /\ NothingLost

LEMMA EngineInvInit == EngineInit => EngineInv
<1> SUFFICES ASSUME EngineInit PROVE EngineInv
  OBVIOUS
<1>1. EngineTypeOK
  BY EngineTypedInit
<1>2. phase = "loop" /\ completed = {}
  BY DEF EngineInit
<1>3. ASSUME NEW n \in Nodes, Ready(n) PROVE Contains(queue, n)
  <2>1. status = [m \in Nodes |-> IF Preds(m) = {} THEN "queued" ELSE "created"]
    BY DEF EngineInit
  <2>2. Preds(n) = {}
    BY <1>3, <2>1 DEF Ready, Preds, Ok
  <2> QED BY <2>2, NodesKept DEF EngineInit
<1>4. pending = <<>> /\ ToSet(pending) = {}
  BY DEF EngineInit, ToSet
<1> QED BY <1>1, <1>2, <1>3, <1>4 DEF EngineInv, NothingLost

(* A result is final: were it "running" with nothing left to do, the first *)
(* node without an end state would be waiting for nothing.                 *)
LEMMA ResultIsFinal ==
  ASSUME EngineInv, phase = "loop", queue = <<>>, ~ cancel
  PROVE  /\ Verdict # "running"
         /\ \A n \in Nodes : status[n] \in Ok \cup Failing \/ \E p \in Preds(n) : status[p] \notin Ok
<1>1. wf \in Definitions
  BY DEF EngineInv, EngineTypeOK
<1>2. \A n \in Nodes : ~ Contains(queue, n)
  BY DEF Contains
<1>3. \A n \in Nodes : status[n] \in EndStates \/ ~ Ready(n)
  BY <1>2 DEF EngineInv, InTurn
<1>4. ASSUME Verdict = "running" PROVE FALSE
  <2> DEFINE Open == {n \in Nodes : status[n] \notin EndStates}
  <2>1. \A n \in Nodes : status[n] \notin Failing
    BY <1>4 DEF Verdict
  <2>2. Open # {}
    BY <1>4 DEF Verdict, EndStates
  <2>3. Open \in SUBSET Nat
    BY <1>1, DefinitionIs
  <2>4. PICK n \in Open : \A m \in Open : n <= m
    <3> HIDE DEF Open
    <3> QED BY <2>2, <2>3, LeastNat
  <2>5. \A p \in Preds(n) : p \in Nodes /\ p < n /\ n \in Nat /\ p \in Nat
    BY <1>1, <2>3, DefinitionIs
  <2>6. \A p \in Preds(n) : p \notin Open
    BY <2>3, <2>4, <2>5
  <2>7. Ready(n)
    BY <2>1, <2>5, <2>6 DEF Ready, EndStates
  <2> QED BY <1>3, <2>7
<1>5. \A n \in Nodes : Ready(n) \/ \E p \in Preds(n) : status[p] \notin Ok
  BY DEF Ready
<1> QED BY <1>3, <1>4, <1>5 DEF EndStates

LEMMA EngineInvStep ==
  ASSUME EngineInv, [EngineNext]_engineVars
  PROVE  EngineInv'
<1>1. EngineTypeOK /\ EngineTypeOK' /\ wf \in Definitions
  BY EngineTypedStep DEF EngineInv, EngineTypeOK
<1>2. /\ ToSet(members) \subseteq Nodes /\ completed \subseteq Nodes /\ pending \in Seq(Nodes)
      /\ members \in Seq(Nodes)
  BY <1>1, LoopSteps DEF EngineTypeOK
<1>3. CASE UNCHANGED engineVars
  BY <1>1, <1>3 DEF EngineInv, engineVars, InTurn, NothingLost, Ready, Preds, Nodes
<1>4. ASSUME NEW s \in NodeStatus, BeginMember(s) PROVE EngineInv'
  <2>1. pending # <<>> /\ Enter(Head(pending), s, status) /\ pending' = Tail(pending)
    BY <1>4 DEF BeginMember
  <2>2. PICK n \in Nodes : n = Head(pending)
    BY <1>2, <2>1
  <2>3. /\ status'[n] \in EndStates \cup {"running"}
        /\ \A m \in Nodes \ {n} : status'[m] = status[m]
    BY <1>1, <2>1, <2>2, EnterTyped DEF EndStates, Ok, Failing
  <2>4. /\ n \in ToSet(pending) /\ ToSet(pending') \subseteq ToSet(pending)
        /\ ToSet(pending) \subseteq ToSet(pending') \cup {n}
    BY <1>2, <2>1, <2>2, HeadAndTail
  <2>5. phase = "exec" /\ UNCHANGED <<wf, completed, members, phase>>
    BY <1>4 DEF BeginMember
  <2>6. ToSet(members') = ToSet(members) /\ InTurn' = ToSet(members) /\ InTurn = ToSet(members)
    BY <2>5 DEF InTurn
  <2>7. \A m \in ToSet(members') :
          status'[m] \in EndStates \cup {"running"} \/ m \in ToSet(pending')
    BY <1>2, <2>3, <2>4, <2>5, <2>6 DEF EngineInv
  <2>8. \A m \in completed' : status'[m] \in EndStates \/ m \in InTurn'
    BY <1>2, <2>3, <2>4, <2>5, <2>6 DEF EngineInv
  <2> QED BY <1>1, <2>4, <2>5, <2>6, <2>7, <2>8 DEF EngineInv, NothingLost
<1>5. ASSUME NEW s \in NodeStatus, TakeSequential(s) PROVE EngineInv'
  <2>1. PICK n \in Nodes : n = Head(Behind) /\ Enter(n, s, status)
    BY <1>1, <1>5, LoopSteps
  <2>2. /\ status'[n] \in EndStates \cup {"running"}
        /\ \A m \in Nodes \ {n} : status'[m] = status[m]
    BY <1>1, <2>1, EnterTyped DEF EndStates, Ok, Failing
  <2>3. phase = "loop" /\ phase' = "exec" /\ members' = <<n>> /\ UNCHANGED <<wf, completed, pending>>
    BY <1>5, <2>1 DEF TakeSequential, InLoop
  <2>4. \A m : m \in ToSet(members') <=> m = n
    BY <2>3 DEF ToSet
  <2>5. pending' = <<>> /\ ToSet(pending') = {} /\ InTurn = {} /\ InTurn' = ToSet(members')
    BY <2>3 DEF EngineInv, InTurn, ToSet
  <2>6. members' # <<>>
    BY <2>3
  <2>7. \A m \in completed' : status'[m] \in EndStates \/ m \in InTurn'
    BY <1>2, <2>2, <2>3, <2>4, <2>5 DEF EngineInv
  <2> QED BY <1>1, <2>2, <2>3, <2>4, <2>5, <2>6, <2>7 DEF EngineInv, NothingLost
<1>6. ASSUME NEW n \in Nodes, NEW s \in {"completed", "failed", "timeout"}, EndNode(n, s)
      PROVE EngineInv'
  <2>1. /\ phase = "exec" /\ status' = [status EXCEPT ![n] = s] /\ s \in EndStates
        /\ status \in [Nodes -> NodeStatus]
        /\ UNCHANGED <<wf, completed, members, pending, phase>>
    BY <1>1, <1>6 DEF EndNode, EndStates, Ok, Failing, EngineTypeOK
  <2>2. \A m \in Nodes : status'[m] = status[m] \/ status'[m] \in EndStates
    BY <2>1
  <2>3. ToSet(members') = ToSet(members) /\ ToSet(pending') = ToSet(pending) /\ InTurn' = InTurn
    BY <2>1 DEF InTurn
  <2>4. \A m \in ToSet(members') :
          status'[m] \in EndStates \cup {"running"} \/ m \in ToSet(pending')
    BY <1>2, <2>1, <2>2, <2>3 DEF EngineInv
  <2>5. \A m \in completed' : status'[m] \in EndStates \/ m \in InTurn'
    BY <1>2, <2>1, <2>2, <2>3 DEF EngineInv
  <2> QED BY <1>1, <2>1, <2>3, <2>4, <2>5 DEF EngineInv, NothingLost
<1>7. ASSUME NEW n \in Nodes, Wake(n) PROVE EngineInv'
  <2>1. UNCHANGED <<wf, status, queue, completed, members, pending, phase, result, cancel>>
    BY <1>7 DEF Wake
  <2> QED BY <1>1, <2>1 DEF EngineInv, InTurn, NothingLost, Ready, Preds, Nodes
<1>8. CASE TakeParallel
  <2>1. PICK g \in Seq(Nodes) : g = Group
    BY <1>1, HeadsAre
  <2>2. /\ phase = "loop" /\ phase' = "exec" /\ g # <<>> /\ members' = g /\ pending' = g
        /\ status' = [n \in Nodes |-> IF n \in ToSet(g) THEN "dispatching" ELSE status[n]]
        /\ UNCHANGED <<wf, completed>>
    BY <1>8, <2>1 DEF TakeParallel, InLoop
  <2>3. InTurn = {} /\ InTurn' = ToSet(g)
    BY <2>2 DEF InTurn
  <2>4. \A m \in completed' : status'[m] \in EndStates \/ m \in InTurn'
    BY <1>2, <2>2, <2>3 DEF EngineInv
  <2> QED BY <1>1, <2>2, <2>4 DEF EngineInv, NothingLost
<1>9. CASE BlockSequential
  <2>1. PICK n \in Nodes, q \in Seq(Nodes), st \in [Nodes -> NodeStatus] :
           n = Head(Behind) /\ q = Tail(Behind) /\ st = [status EXCEPT ![n] = "blocked"]
    BY <1>1, <1>9, LoopSteps
  <2>2. /\ Enqueue(q, st, completed') /\ completed' = completed \cup {n}
        /\ phase = "loop" /\ UNCHANGED <<wf, members, pending, phase>>
    BY <1>9, <2>1 DEF BlockSequential, InLoop
  <2>3. /\ \A m \in Nodes : Contains(queue', m) <=>
             Contains(q, m) \/ (m \notin completed' /\ \A p \in Preds(m) : st[p] \in Ok)
        /\ \A m \in Nodes : status'[m] = st[m] \/ (st[m] = "created" /\ status'[m] = "queued")
    BY <1>1, <2>2, EnqueueIs
  <2>4. InTurn = {} /\ InTurn' = {} /\ Nodes' = Nodes /\ \A m : Preds(m)' = Preds(m)
    BY <2>2 DEF InTurn, Nodes, Preds
  <2>5. \A m \in completed' : status'[m] \in EndStates
    <3>1. st[n] = "blocked" /\ \A m \in Nodes \ {n} : st[m] = status[m]
      BY <1>1, <2>1 DEF EngineTypeOK
    <3>2. \A m \in completed : status[m] \in EndStates
      BY <2>4 DEF EngineInv
    <3> QED BY <1>2, <2>2, <2>3, <3>1, <3>2 DEF EndStates, Ok, Failing
  <2>6. ASSUME NEW m \in Nodes, \A p \in Preds(m) : status'[p] \in Ok
        PROVE  m \in completed' \/ Contains(queue', m)
    <3>1. \A p \in Preds(m) : p \in Nodes
      BY DEF Preds
    <3>2. \A p \in Preds(m) : st[p] \in Ok
      BY <2>3, <2>6, <3>1 DEF Ok
    <3> QED BY <2>3, <3>2
  <2>7. \A m \in Nodes' : Ready(m)' => m \in completed' \/ Contains(queue', m)
    BY <2>4, <2>6 DEF Ready
  <2> QED BY <1>1, <2>2, <2>5, <2>7 DEF EngineInv, NothingLost
<1>10. CASE PopEmpty
  <2>1. phase = "loop" /\ phase' = "raised" /\ UNCHANGED <<wf, status, completed, members, pending>>
    BY <1>10 DEF PopEmpty, InLoop
  <2>2. \A m \in completed' : status'[m] \in EndStates \/ m \in InTurn'
    BY <2>1 DEF EngineInv, InTurn
  <2>3. pending' = <<>> /\ ToSet(pending') = {}
    BY <2>1 DEF EngineInv, ToSet
  <2> QED BY <1>1, <2>1, <2>2, <2>3 DEF EngineInv, NothingLost
<1>11. CASE MembersDone
  <2>1. PICK done : done = completed \cup {Head(members)}
    OBVIOUS
  <2>2. /\ Enqueue(queue, status, done) /\ completed' = completed \cup ToSet(members)
        /\ phase = "exec" /\ phase' = "loop" /\ pending = <<>>
        /\ \A n \in ToSet(members) : status[n] # "running"
        /\ UNCHANGED <<wf, members, pending>>
    BY <1>11, <2>1 DEF MembersDone, Quiet
  <2>3. queue \in Seq(Nodes) /\ status \in [Nodes -> NodeStatus]
    BY <1>1 DEF EngineTypeOK
  <2>4. /\ \A m \in Nodes : Contains(queue', m) <=>
             Contains(queue, m) \/ (m \notin done /\ \A p \in Preds(m) : status[p] \in Ok)
        /\ \A m \in Nodes : status'[m] = status[m] \/ (status[m] = "created" /\ status'[m] = "queued")
    BY <1>1, <2>2, <2>3, EnqueueIs
  <2>5. done \subseteq completed'
    <3>1. members # <<>>
      BY <2>2 DEF EngineInv
    <3>2. Head(members) \in ToSet(members)
      BY <1>2, <3>1, HeadAndTail
    <3> QED BY <2>1, <2>2, <3>2
  <2>6. ToSet(pending) = {}
    BY <2>2 DEF ToSet
  <2>7. \A m \in completed' : status'[m] \in EndStates
    <3>1. InTurn = ToSet(members)
      BY <2>2 DEF InTurn
    <3>2. \A m \in ToSet(members) : status[m] \in EndStates
      BY <2>2, <2>6 DEF EngineInv
    <3>3. \A m \in completed' : status[m] \in EndStates
      BY <2>2, <3>1, <3>2 DEF EngineInv
    <3>4. "created" \notin EndStates
      BY DEF EndStates, Ok, Failing
    <3> QED BY <1>2, <2>2, <2>4, <3>3, <3>4
  <2>8. ASSUME NEW m \in Nodes, \A p \in Preds(m) : status'[p] \in Ok
        PROVE  m \in completed' \/ Contains(queue', m)
    <3>1. \A p \in Preds(m) : p \in Nodes
      BY DEF Preds
    <3>2. \A p \in Preds(m) : status[p] \in Ok
      BY <2>4, <2>8, <3>1 DEF Ok
    <3> QED BY <2>4, <2>5, <3>2
  <2>9. Nodes' = Nodes /\ \A m : Preds(m)' = Preds(m)
    BY <2>2 DEF Nodes, Preds
  <2>10. \A m \in Nodes' : Ready(m)' => m \in completed' \/ Contains(queue', m)
    BY <2>8, <2>9 DEF Ready
  <2>11. pending' = <<>> /\ ToSet(pending') = {}
    BY <2>2, <2>6
  <2> QED BY <1>1, <2>2, <2>7, <2>10, <2>11 DEF EngineInv, NothingLost
<1>12. CASE ReturnResult
  <2>1. /\ phase = "loop" /\ phase' = "done" /\ result' = Verdict /\ (queue = <<>> \/ cancel)
        /\ UNCHANGED <<wf, status, queue, completed, members, pending, cancel>>
    BY <1>12 DEF ReturnResult
  <2>2. NothingLost'
    <3>1. ~ cancel => /\ Verdict # "running"
                      /\ \A n \in Nodes : \/ status[n] \in Ok \cup Failing
                                          \/ \E p \in Preds(n) : status[p] \notin Ok
      BY <2>1, ResultIsFinal
    <3>2. Nodes' = Nodes /\ \A m : Preds(m)' = Preds(m)
      BY <2>1 DEF Nodes, Preds
    <3> QED BY <2>1, <3>1, <3>2 DEF NothingLost
  <2>3. InTurn = {} /\ InTurn' = {}
    BY <2>1 DEF InTurn
  <2>4. \A m \in completed' : status'[m] \in EndStates \/ m \in InTurn'
    BY <2>1, <2>3 DEF EngineInv
  <2>5. pending' = <<>> /\ ToSet(pending') = {}
    BY <2>1 DEF EngineInv, ToSet
  <2> QED BY <1>1, <2>1, <2>2, <2>4, <2>5 DEF EngineInv
<1>13. CASE SetCancel
  <2>1. /\ phase = "exec"
        /\ UNCHANGED <<wf, status, queue, completed, members, pending, phase, result>>
    BY <1>13 DEF SetCancel, Suspended
  <2>2. InTurn' = InTurn
    BY <2>1 DEF InTurn
  <2> QED BY <1>1, <2>1, <2>2 DEF EngineInv, NothingLost
<1>14. CASE CancelTask
  <2>1. /\ phase = "exec" /\ UNCHANGED <<wf, queue, completed, members>>
        /\ status' = [n \in Nodes |-> IF Contains(members, n) THEN CancelledStatus(n) ELSE status[n]]
        /\ \/ phase' = "raised" /\ pending' = <<>>
           \/ phase' = "exec" /\ pending' = pending
    BY <1>14 DEF CancelTask, Suspended
  <2>2. /\ InTurn' = ToSet(members) /\ InTurn = ToSet(members) /\ ToSet(members') = ToSet(members)
        /\ pending' = <<>> => ToSet(pending') = {}
    BY <2>1 DEF InTurn, ToSet
  <2>3. \A m \in Nodes : status'[m] = status[m] \/ status'[m] = "cancelled"
    BY <2>1 DEF CancelledStatus
  <2>4. "cancelled" \in EndStates
    BY DEF EndStates, Failing
  <2>5. \A m \in completed' : status'[m] \in EndStates \/ m \in InTurn'
    BY <1>2, <2>1, <2>2, <2>3, <2>4 DEF EngineInv
  <2>6. CASE phase' = "raised" /\ pending' = <<>>
    BY <1>1, <2>2, <2>5, <2>6 DEF EngineInv, NothingLost
  <2>7. CASE phase' = "exec" /\ pending' = pending
    <3>1. \A m \in ToSet(members') :
            status'[m] \in EndStates \cup {"running"} \/ m \in ToSet(pending')
      BY <1>2, <2>1, <2>2, <2>3, <2>4, <2>7 DEF EngineInv
    <3>2. members' # <<>> /\ ToSet(pending') \subseteq ToSet(members')
      BY <2>1, <2>2, <2>7 DEF EngineInv
    <3> QED BY <1>1, <2>5, <2>7, <3>1, <3>2 DEF EngineInv, NothingLost
  <2> QED BY <2>1, <2>6, <2>7
<1>15. CASE Over
  BY <1>1, <1>15 DEF Over, EngineInv, engineVars, InTurn, NothingLost, Ready, Preds, Nodes
<1> QED BY <1>3, <1>4, <1>5, <1>6, <1>7, <1>8, <1>9, <1>10, <1>11, <1>12, <1>13, <1>14, <1>15
        DEF EngineNext, Step

THEOREM EngineInvHolds == EngineSpec => []EngineInv
<1>1. EngineInit => EngineInv
  BY EngineInvInit
<1>2. EngineInv /\ [EngineNext]_engineVars => EngineInv'
  BY EngineInvStep
<1> QED BY <1>1, <1>2, PTL DEF EngineSpec

(* The engine's variables keep their types, for any definitions.           *)
THEOREM EngineTyped == EngineSpec => []EngineTypeOK
<1>1. EngineInv => EngineTypeOK
  BY DEF EngineInv
<1> QED BY <1>1, EngineInvHolds, PTL

(* When run() returns undisturbed every node is over or waits behind one   *)
(* that did not succeed, for any DAG, any conditions and parallel groups.  *)
THEOREM NoNodeIsLost == EngineSpec => []NothingLost
<1>1. EngineInv => NothingLost
  BY DEF EngineInv
<1> QED BY <1>1, EngineInvHolds, PTL

-----------------------------------------------------------------------------
(* The engine without parallel groups                                      *)

Visited == completed \cup InTurn

(* Why a sequential run is faithful: each node is queued once, after its   *)
(* predecessors, and entered once, so what it was found to be stays; and a *)
(* cancelled task leaves a cancelled node behind.                          *)
SequentialInv ==
    /\ pending = <<>>
    /\ IsInjective(queue)
    /\ completed \cap InTurn = {}
    /\ \A n \in ToSet(queue) : n \notin Visited
    /\ \A n \in ToSet(queue) \cup Visited : Ready(n)
    /\ \A n \in Nodes \ Visited : status[n] \in {"created", "queued"}
    /\ \A n \in failed : status[n] \in {"failed", "timeout"}
    /\ phase = "exec" => Len(members) = 1
    /\ taskCancel /\ phase # "raised" => \E c \in Visited : status[c] = "cancelled"
    /\ FailureReported

SerialInv == wf.parallel = {} => SequentialInv

LEMMA SerialInvInit == EngineInit => SerialInv
<1> SUFFICES ASSUME EngineInit PROVE SequentialInv
  BY DEF SerialInv
<1>1. wf \in Definitions /\ EngineTypeOK
  BY EngineTypedInit DEF EngineInit
<1>2. Visited = {} /\ pending = <<>> /\ failed = {} /\ taskCancel = FALSE /\ phase = "loop"
  BY DEF EngineInit, Visited, InTurn
<1>3. IsInjective(queue) /\ \A n \in Nodes : Contains(queue, n) => Preds(n) = {}
  BY <1>1, NodesKept DEF EngineInit
<1>4. \A n \in ToSet(queue) : Ready(n)
  <2>1. \A n \in ToSet(queue) : n \in Nodes /\ Contains(queue, n)
    BY <1>1 DEF EngineTypeOK, ToSet, Contains
  <2> QED BY <1>3, <2>1 DEF Ready
<1>5. \A n \in Nodes : status[n] \in {"created", "queued"}
  BY DEF EngineInit
<1> QED BY <1>2, <1>3, <1>4, <1>5 DEF SequentialInv, Visited, FailureReported

(* Steps that leave every end state alone keep what was found.             *)
LEMMA DoneStays ==
  ASSUME wf' = wf, \A n \in Nodes : status[n] \in Ok => status'[n] = status[n]
  PROVE  \A n \in Nodes : Ready(n) => Ready(n)'
<1>1. Nodes' = Nodes /\ \A n : Preds(n)' = Preds(n) /\ Preds(n) \subseteq Nodes
  BY DEF Nodes, Preds
<1> QED BY <1>1 DEF Ready

LEMMA SerialInvStep ==
  ASSUME EngineInv, EngineTypeOK', SerialInv, [EngineNext]_engineVars
  PROVE  SerialInv'
<1>1. EngineTypeOK /\ wf \in Definitions /\ wf' = wf
  <2>1. wf' = wf
    BY DEF EngineNext, Step, engineVars, BeginMember, TakeSequential, EndNode, Wake, TakeParallel,
           BlockSequential, PopEmpty, MembersDone, ReturnResult, SetCancel, CancelTask, Over
  <2> QED BY <2>1 DEF EngineInv, EngineTypeOK
<1> SUFFICES ASSUME wf.parallel = {} PROVE SequentialInv'
  BY <1>1 DEF SerialInv
<1>2. SequentialInv
  BY DEF SerialInv
<1>3. Group = <<>> /\ Behind = queue
  BY <1>1, HeadsAre
<1>4. /\ ToSet(members) \subseteq Nodes /\ ToSet(queue) \subseteq Nodes
      /\ completed \subseteq Nodes /\ Visited \subseteq Nodes
      /\ queue \in Seq(Nodes) /\ status \in [Nodes -> NodeStatus] /\ members \in Seq(Nodes)
  BY <1>1, LoopSteps DEF EngineTypeOK, Visited, InTurn
<1>5. Nodes' = Nodes /\ \A n : Preds(n)' = Preds(n)
  BY <1>1 DEF Nodes, Preds
<1>6. \A n \in ToSet(queue) : Contains(queue, n)
  BY <1>4 DEF ToSet, Contains
<1>7. CASE UNCHANGED engineVars
  <2>1. UNCHANGED <<Visited, InTurn, FailureReported>>
    BY <1>7 DEF engineVars, Visited, InTurn, FailureReported, Nodes
  <2>2. \A n \in Nodes : Ready(n)' <=> Ready(n)
    BY <1>5, <1>7 DEF Ready, engineVars
  <2> QED BY <1>2, <1>4, <1>5, <1>7, <2>1, <2>2 DEF SequentialInv, engineVars
<1>8. ASSUME NEW s \in NodeStatus, BeginMember(s) PROVE FALSE
  BY <1>2, <1>8 DEF BeginMember, SequentialInv
<1>9. ASSUME TakeParallel \/ PopEmpty PROVE FALSE
  BY <1>3, <1>9 DEF TakeParallel, PopEmpty, InLoop
<1>10. ASSUME BlockSequential PROVE FALSE
  <2>1. queue # <<>> /\ ~ Ready(Head(queue))
    BY <1>3, <1>10 DEF BlockSequential
  <2>2. Head(queue) \in ToSet(queue)
    BY <1>4, <2>1, HeadAndTail
  <2> QED BY <1>2, <2>1, <2>2 DEF SequentialInv
<1>11. ASSUME NEW s \in NodeStatus, TakeSequential(s) PROVE SequentialInv'
  <2>1. queue # <<>> /\ phase = "loop" /\ phase' = "exec"
    BY <1>3, <1>11 DEF TakeSequential, InLoop
  <2>2. PICK n \in Nodes : n = Head(queue)
    BY <1>4, <2>1
  <2>3. /\ Enter(n, s, status) /\ queue' = Tail(queue) /\ members' = <<n>>
        /\ UNCHANGED <<completed, pending, taskCancel, failed>>
    BY <1>3, <1>11, <2>2 DEF TakeSequential
  <2>4. \A m \in Nodes \ {n} : status'[m] = status[m]
    BY <1>1, <2>3, EnterTyped
  <2>5. /\ n \in ToSet(queue) /\ ToSet(queue') \subseteq ToSet(queue)
    BY <1>4, <2>1, <2>2, <2>3, HeadAndTail
  <2>6. n \notin ToSet(queue') /\ IsInjective(queue')
    <3>1. /\ Len(queue) \in Nat \ {0} /\ n = queue[1] /\ DOMAIN queue = 1..Len(queue)
          /\ DOMAIN queue' = 1..(Len(queue) - 1)
          /\ \A i \in 1..(Len(queue) - 1) : queue'[i] = queue[i + 1]
      BY <1>4, <2>1, <2>2, <2>3
    <3>2. \A i, j \in 1..Len(queue) : queue[i] = queue[j] => i = j
      BY <1>2, <3>1 DEF SequentialInv, IsInjective
    <3>3. \A i \in 1..(Len(queue) - 1) : i + 1 \in 1..Len(queue) /\ i + 1 # 1
      BY <3>1
    <3>4. \A i \in 1..(Len(queue) - 1) : queue'[i] # n
      BY <3>1, <3>2, <3>3
    <3>5. \A i, j \in 1..(Len(queue) - 1) : queue'[i] = queue'[j] => i = j
      <4> TAKE i, j \in 1..(Len(queue) - 1)
      <4> HAVE queue'[i] = queue'[j]
      <4>1. i + 1 = j + 1
        BY <3>1, <3>2, <3>3
      <4> QED BY <4>1
    <3> QED BY <3>1, <3>4, <3>5 DEF ToSet, IsInjective
  <2>7. InTurn = {} /\ InTurn' = {n} /\ Visited = completed /\ Visited' = completed \cup {n}
    <3>1. ToSet(members') = {n}
      BY <2>3 DEF ToSet
    <3>2. InTurn = {} /\ InTurn' = {n}
      BY <2>1, <3>1 DEF InTurn
    <3> QED BY <2>3, <3>2 DEF Visited
  <2>8. n \notin Visited /\ status[n] \in {"created", "queued"}
    BY <1>2, <2>5 DEF SequentialInv
  <2>9. \A m \in Nodes : status[m] \in Ok => status'[m] = status[m]
    BY <2>4, <2>8 DEF Ok
  <2>10. \A m \in ToSet(queue') \cup Visited' : Ready(m)'
    <3>1. ToSet(queue') \cup Visited' \subseteq ToSet(queue) \cup Visited
      BY <2>5, <2>7
    <3>2. ToSet(queue') \cup Visited' \subseteq Nodes
      BY <1>4, <3>1
    <3> QED BY <1>1, <1>2, <2>9, <3>1, <3>2, DoneStays DEF SequentialInv
  <2>11. \A m \in failed : m \in Nodes /\ m # n
    BY <1>1, <1>2, <2>8 DEF SequentialInv, EngineTypeOK
  <2>12. taskCancel' => \E c \in Visited' : status'[c] = "cancelled"
    <3>1. ASSUME taskCancel PROVE \E c \in Visited : status[c] = "cancelled"
      BY <1>2, <2>1, <3>1 DEF SequentialInv
    <3> QED BY <1>4, <2>3, <2>4, <2>7, <2>8, <3>1
  <2>13. Len(members') = 1
    BY <2>3
  <2>14. completed' \cap InTurn' = {}
    BY <2>3, <2>7, <2>8
  <2>15. \A m \in ToSet(queue') : m \notin Visited'
    BY <1>2, <2>5, <2>6, <2>7 DEF SequentialInv
  <2>16. \A m \in Nodes' \ Visited' : status'[m] \in {"created", "queued"}
    BY <1>2, <1>5, <2>4, <2>7 DEF SequentialInv
  <2>17. \A m \in failed' : status'[m] \in {"failed", "timeout"}
    BY <1>2, <2>3, <2>4, <2>11 DEF SequentialInv
  <2>18. FailureReported' /\ pending' = <<>>
    BY <1>2, <2>1, <2>3 DEF FailureReported, SequentialInv
  <2> QED BY <2>6, <2>10, <2>12, <2>13, <2>14, <2>15, <2>16, <2>17, <2>18 DEF SequentialInv
<1>12. ASSUME NEW n \in Nodes, NEW s \in {"completed", "failed", "timeout"}, EndNode(n, s)
       PROVE SequentialInv'
  <2>1. /\ phase = "exec" /\ phase' = phase /\ status' = [status EXCEPT ![n] = s]
        /\ status[n] = "running" /\ Contains(members, n)
        /\ failed' = (IF s = "completed" THEN failed ELSE failed \cup {n})
        /\ UNCHANGED <<queue, completed, members, pending, taskCancel>>
    BY <1>12 DEF EndNode
  <2>2. status'[n] = s /\ \A m \in Nodes \ {n} : status'[m] = status[m]
    BY <1>4, <2>1
  <2>3. InTurn' = InTurn /\ Visited' = Visited
    BY <2>1 DEF InTurn, Visited
  <2>4. n \in Visited
    BY <1>4, <2>1 DEF Visited, InTurn, Contains, ToSet
  <2>5. \A m \in Nodes : status[m] \in Ok => status'[m] = status[m]
    BY <2>1, <2>2 DEF Ok
  <2>6. \A m \in ToSet(queue') \cup Visited' : Ready(m)'
    BY <1>1, <1>2, <1>4, <2>1, <2>3, <2>5, DoneStays DEF SequentialInv
  <2>7. \A m \in Nodes' \ Visited' : status'[m] \in {"created", "queued"}
    BY <1>2, <1>5, <2>2, <2>3, <2>4 DEF SequentialInv
  <2>8. \A m \in failed' : status'[m] \in {"failed", "timeout"}
    <3>1. failed \subseteq Nodes /\ n \notin failed
      BY <1>1, <1>2, <2>1 DEF SequentialInv, EngineTypeOK
    <3> QED BY <1>2, <2>1, <2>2, <3>1 DEF SequentialInv
  <2>9. taskCancel' => \E c \in Visited' : status'[c] = "cancelled"
    <3>1. ASSUME taskCancel PROVE \E c \in Visited : status[c] = "cancelled"
      BY <1>2, <2>1, <3>1 DEF SequentialInv
    <3> QED BY <1>4, <2>1, <2>2, <2>3, <3>1
  <2>10. FailureReported'
    BY <2>1 DEF FailureReported
  <2> QED BY <1>2, <2>1, <2>3, <2>6, <2>7, <2>8, <2>9, <2>10 DEF SequentialInv
<1>13. ASSUME NEW n \in Nodes, Wake(n) PROVE SequentialInv'
  <2>1. UNCHANGED <<status, queue, completed, members, pending, phase, result, taskCancel, failed>>
    BY <1>13 DEF Wake
  <2>2. InTurn' = InTurn /\ Visited' = Visited /\ FailureReported' = FailureReported
    BY <1>1, <2>1 DEF InTurn, Visited, FailureReported, Nodes
  <2>3. \A m \in Nodes : Ready(m)' <=> Ready(m)
    BY <1>5, <2>1 DEF Ready
  <2> QED BY <1>2, <1>4, <1>5, <2>1, <2>2, <2>3 DEF SequentialInv
<1>14. CASE MembersDone
  <2>1. Len(members) = 1 /\ DOMAIN members = 1..1
    BY <1>2, <1>4, <1>14 DEF MembersDone, SequentialInv
  <2>2. PICK n \in Nodes : ToSet(members) = {n} /\ Head(members) = n
    <3>1. members[1] \in Nodes /\ Head(members) = members[1]
      <4>1. members # <<>> /\ 1 \in 1..Len(members)
        BY <2>1
      <4> QED BY <1>4, <4>1
    <3>2. ToSet(members) = {members[1]}
      BY <2>1 DEF ToSet
    <3> QED BY <3>1, <3>2
  <2>3. /\ Enqueue(queue, status, completed \cup {n}) /\ completed' = completed \cup {n}
        /\ phase = "exec" /\ phase' = "loop" /\ UNCHANGED <<pending, taskCancel, failed>>
    BY <1>14, <2>2 DEF MembersDone
  <2>4. InTurn = {n} /\ InTurn' = {} /\ Visited = completed' /\ Visited' = completed'
    <3>1. InTurn = {n} /\ InTurn' = {}
      BY <2>2, <2>3 DEF InTurn
    <3> QED BY <2>3, <3>1 DEF Visited
  <2>5. PICK done : done = completed \cup {n}
    OBVIOUS
  <2>6. Enqueue(queue, status, done)
    BY <2>3, <2>5
  <2>7. /\ queue' \in Seq(Nodes) /\ IsInjective(queue')
        /\ \A m \in Nodes : Contains(queue', m) <=>
             Contains(queue, m) \/ (m \notin done /\ \A p \in Preds(m) : status[p] \in Ok)
        /\ \A m \in Nodes : status'[m] = status[m] \/ (status[m] = "created" /\ status'[m] = "queued")
    <3>1. IsInjective(queue)
      BY <1>2 DEF SequentialInv
    <3> QED BY <1>1, <1>4, <2>6, <3>1, EnqueueIs
  <2>8. \A m \in Nodes : status[m] \in Ok => status'[m] = status[m]
    BY <2>7 DEF Ok
  <2>9. ASSUME NEW m \in ToSet(queue')
        PROVE  m \in Nodes /\ m \notin done /\ Ready(m)
    <3>1. m \in Nodes /\ Contains(queue', m)
      BY <2>7 DEF ToSet, Contains
    <3>2. CASE Contains(queue, m)
      <4>1. m \in ToSet(queue)
        BY <1>4, <3>2 DEF ToSet, Contains
      <4> QED BY <1>2, <2>3, <2>4, <2>5, <3>1, <4>1 DEF SequentialInv
    <3>3. CASE ~ Contains(queue, m)
      BY <2>7, <3>1, <3>3 DEF Ready
    <3> QED BY <3>2, <3>3
  <2>10. \A m \in ToSet(queue') \cup Visited' : Ready(m)'
    <3>1. \A m \in Visited' : m \in Nodes /\ Ready(m)
      BY <1>2, <1>4, <2>4 DEF SequentialInv
    <3> QED BY <1>1, <2>8, <2>9, <3>1, DoneStays
  <2>11. \A m \in Nodes' \ Visited' : status'[m] \in {"created", "queued"}
    BY <1>2, <1>5, <2>4, <2>7 DEF SequentialInv
  <2>12. \A m \in failed' : status'[m] \in {"failed", "timeout"}
    BY <1>1, <1>2, <2>3, <2>7 DEF SequentialInv, EngineTypeOK
  <2>13. taskCancel' => \E c \in Visited' : status'[c] = "cancelled"
    <3>1. ASSUME taskCancel PROVE \E c \in Visited : status[c] = "cancelled"
      BY <1>2, <2>3, <3>1 DEF SequentialInv
    <3> QED BY <1>4, <2>3, <2>4, <2>7, <3>1
  <2>14. \A m \in ToSet(queue') : m \notin Visited'
    BY <2>3, <2>4, <2>5, <2>9
  <2>15. FailureReported' /\ pending' = <<>>
    BY <1>2, <2>3 DEF FailureReported, SequentialInv
  <2> QED BY <2>3, <2>4, <2>7, <2>10, <2>11, <2>12, <2>13, <2>14, <2>15 DEF SequentialInv
<1>15. CASE ReturnResult
  <2>1. /\ phase = "loop" /\ phase' = "done" /\ result' = Verdict
        /\ UNCHANGED <<status, queue, completed, members, pending, taskCancel, failed>>
    BY <1>15 DEF ReturnResult
  <2>2. InTurn = {} /\ InTurn' = {} /\ Visited' = Visited
    BY <2>1 DEF InTurn, Visited
  <2>3. \A m \in Nodes : Ready(m)' <=> Ready(m)
    BY <1>5, <2>1 DEF Ready
  <2>4. FailureReported'
    <3> SUFFICES ASSUME Verdict = "completed" PROVE failed = {} /\ \A n \in Nodes : status[n] \in Ok
      BY <1>5, <2>1 DEF FailureReported
    <3>1. \A n \in Nodes : status[n] \notin Failing /\ status[n] \in Ok \cup Failing
      BY DEF Verdict
    <3>2. \A n \in failed : n \in Nodes /\ status[n] \in Failing
      BY <1>1, <1>2 DEF SequentialInv, EngineTypeOK, Failing
    <3> QED BY <3>1, <3>2
  <2> QED BY <1>2, <1>4, <1>5, <2>1, <2>2, <2>3, <2>4 DEF SequentialInv
<1>16. CASE SetCancel
  <2>1. /\ phase = "exec"
        /\ UNCHANGED <<status, queue, completed, members, pending, phase, result, taskCancel, failed>>
    BY <1>16 DEF SetCancel, Suspended
  <2>2. InTurn' = InTurn /\ Visited' = Visited /\ FailureReported'
    BY <2>1 DEF InTurn, Visited, FailureReported
  <2>3. \A m \in Nodes : Ready(m)' <=> Ready(m)
    BY <1>5, <2>1 DEF Ready
  <2> QED BY <1>2, <1>4, <1>5, <2>1, <2>2, <2>3 DEF SequentialInv
<1>17. CASE CancelTask
  <2>1. /\ phase = "exec" /\ UNCHANGED <<queue, completed, members, failed>>
        /\ status' = [m \in Nodes |-> IF Contains(members, m) THEN CancelledStatus(m) ELSE status[m]]
        /\ \/ phase' = "raised" /\ pending' = <<>>
           \/ phase' = "exec" /\ pending' = pending /\ sleeping = {}
        /\ ~ Quiet
    BY <1>17 DEF CancelTask, Suspended
  <2>2. /\ InTurn = ToSet(members) /\ InTurn' = ToSet(members) /\ Visited' = Visited
        /\ phase' # "done" /\ pending' = <<>>
        /\ phase' = "exec" => Len(members') = 1
    BY <1>2, <2>1 DEF InTurn, Visited, SequentialInv
  <2>3. \A m \in Nodes : /\ status'[m] = status[m] \/ (status[m] = "running" /\ status'[m] = "cancelled")
                         /\ status[m] = "running" /\ m \in ToSet(members) => status'[m] = "cancelled"
    BY <1>4, <2>1 DEF CancelledStatus, ToSet, Contains
  <2>4. \A m \in Nodes : status[m] \in Ok => status'[m] = status[m]
    BY <2>3 DEF Ok
  <2>5. \A m \in ToSet(queue') \cup Visited' : Ready(m)'
    BY <1>1, <1>2, <1>4, <2>1, <2>2, <2>4, DoneStays DEF SequentialInv
  <2>6. \A m \in Nodes' \ Visited' : status'[m] \in {"created", "queued"}
    BY <1>2, <1>5, <2>2, <2>3 DEF SequentialInv
  <2>7. \A m \in failed' : status'[m] \in {"failed", "timeout"}
    BY <1>1, <1>2, <2>1, <2>3 DEF SequentialInv, EngineTypeOK
  <2>8. ASSUME phase' # "raised" PROVE \E c \in Visited' : status'[c] = "cancelled"
    <3>1. PICK m \in ToSet(members) : status[m] = "running"
      BY <1>2, <2>1, <2>8 DEF Quiet, SequentialInv
    <3> QED BY <1>4, <2>2, <2>3, <3>1 DEF Visited
  <2>9. FailureReported'
    BY <2>2 DEF FailureReported
  <2> QED BY <1>2, <2>1, <2>2, <2>5, <2>6, <2>7, <2>8, <2>9 DEF SequentialInv
<1>18. CASE Over
  BY <1>7, <1>18 DEF Over
<1> QED BY <1>7, <1>8, <1>9, <1>10, <1>11, <1>12, <1>13, <1>14, <1>15, <1>16, <1>17, <1>18
        DEF EngineNext, Step

THEOREM SerialInvHolds == EngineSpec => [](EngineInv /\ SerialInv)
<1>1. EngineInit => EngineInv /\ SerialInv
  BY EngineInvInit, SerialInvInit
<1>2. EngineInv /\ SerialInv /\ [EngineNext]_engineVars => EngineInv' /\ SerialInv'
  BY EngineInvStep, EngineTypedStep, SerialInvStep DEF EngineInv
<1> QED BY <1>1, <1>2, PTL DEF EngineSpec

(* A result of "completed" hides no failed call, for any DAG of            *)
(* sequential nodes, any conditions and any outcomes.                      *)
THEOREM FailuresAreReported == EngineSpec => []FailureReported
<1>1. SerialInv => FailureReported
  BY DEF SerialInv, SequentialInv, FailureReported
<1> QED BY <1>1, SerialInvHolds, PTL

(* A node of such a DAG runs only after its predecessors are done.         *)
THEOREM PredecessorsComeFirst == EngineSpec => []PredsFirst
<1>1. EngineInv /\ SerialInv => PredsFirst
  <2> SUFFICES ASSUME EngineInv, SequentialInv, NEW n \in Nodes,
                      status[n] \in {"running", "completed", "failed", "timeout"}
               PROVE  \A p \in Preds(n) : status[p] \in Ok
    BY DEF SerialInv, PredsFirst
  <2>1. n \in Visited
    BY DEF SequentialInv
  <2> QED BY <2>1 DEF SequentialInv, Ready
<1> QED BY <1>1, SerialInvHolds, PTL

(* In a chain a visited or queued node has only done nodes before it: the  *)
(* last one that was not would have kept its successor from being queued.  *)
LEMMA ChainIsDone ==
  ASSUME EngineInv, SequentialInv, wf.edges = {e \in Nodes \X Nodes : e[2] = e[1] + 1},
         NEW n \in ToSet(queue) \cup Visited, NEW m \in Nodes, m < n
  PROVE  status[m] \in Ok
<1>1. /\ wf \in Definitions /\ ToSet(queue) \subseteq Nodes /\ Visited \subseteq Nodes
  BY LoopSteps DEF EngineInv, EngineTypeOK, Visited, InTurn
<1>2. Nodes = 1..wf.nodes /\ wf.nodes \in Nat
  BY <1>1, DefinitionIs
<1>3. \A i \in Nodes : i + 1 \in Nodes => i \in Preds(i + 1)
  <2> TAKE i \in Nodes
  <2> HAVE i + 1 \in Nodes
  <2>1. <<i, i + 1>> \in Nodes \X Nodes /\ <<i, i + 1>>[2] = <<i, i + 1>>[1] + 1
    OBVIOUS
  <2>2. <<i, i + 1>> \in wf.edges
    BY <2>1
  <2> QED BY <2>2 DEF Preds
<1>4. n \in Nat /\ m \in Nat /\ n \in Nodes
  <2>1. n \in Nodes
    BY <1>1
  <2> QED BY <1>2, <2>1
<1> DEFINE Late == {i \in Nodes : i < n /\ status[i] \notin Ok}
           Gaps == {n - i : i \in Late}
<1> SUFFICES ASSUME m \in Late PROVE FALSE
  OBVIOUS
<1>5. \A i \in Late : n - i \in Nat
  BY <1>2, <1>4
<1>6. Gaps \in SUBSET Nat /\ Gaps # {}
  BY <1>5
<1>7. PICK g \in Gaps : \A h \in Gaps : g <= h
  <2> HIDE DEF Gaps
  <2> QED BY <1>6, LeastNat
<1>8. PICK i \in Late : g = n - i
  OBVIOUS
<1>9. i \in Nat /\ i + 1 \in Nodes /\ i \in Preds(i + 1)
  BY <1>2, <1>3, <1>4
<1>10. i + 1 \in ToSet(queue) \cup Visited
  <2>1. CASE i + 1 = n
    BY <2>1
  <2>2. CASE i + 1 # n
    <3>1. i + 1 < n
      BY <1>4, <1>9, <2>2
    <3>2. i + 1 \notin Late
      <4>1. ASSUME i + 1 \in Late PROVE FALSE
        <5>1. n - (i + 1) \in Gaps
          BY <4>1
        <5> QED BY <1>4, <1>7, <1>8, <1>9, <5>1
      <4> QED BY <4>1
    <3>3. status[i + 1] \in Ok
      BY <1>9, <3>1, <3>2
    <3> QED BY <1>9, <3>3 DEF SequentialInv, Ok
  <2> QED BY <2>1, <2>2
<1>11. status[i] \in Ok
  BY <1>9, <1>10 DEF SequentialInv, Ready
<1> QED BY <1>11

(* A chain that was cancelled starts no further step, however long it is   *)
(* and whichever way it was cancelled.                                     *)
THEOREM CancelledChainsStop == EngineSpec => CancelStops
<1>1. ASSUME EngineInv, SerialInv, [EngineNext]_engineVars,
             wf.edges = {e \in Nodes \X Nodes : e[2] = e[1] + 1}, wf.parallel = {},
             cancel \/ taskCancel
      PROVE  execs' = execs
  <2>1. SequentialInv /\ EngineTypeOK
    BY <1>1 DEF SerialInv, EngineInv
  <2>2. Group = <<>> /\ Behind = queue
    BY <1>1, <2>1, HeadsAre
  <2>3. ASSUME NEW s \in NodeStatus, TakeSequential(s) PROVE FALSE
    <3>1. queue # <<>> /\ phase = "loop" /\ ~ cancel
      BY <2>2, <2>3 DEF TakeSequential, InLoop
    <3>2. PICK c \in Visited : status[c] = "cancelled"
      BY <1>1, <2>1, <3>1 DEF SequentialInv
    <3>3. PICK n \in ToSet(queue) : TRUE
      BY <2>1, <3>1, HeadAndTail DEF EngineTypeOK
    <3>4. n \in Nodes /\ c \in Nodes /\ n # c /\ n \notin Visited
      BY <2>1, LoopSteps DEF SequentialInv, EngineTypeOK, Visited, InTurn
    <3>5. n \in Nat /\ c \in Nat
      BY <2>1, <3>4, DefinitionIs DEF EngineTypeOK
    <3>6. CASE c < n
      <4>1. status[c] \in Ok
        BY <1>1, <2>1, <3>4, <3>6, ChainIsDone
      <4> QED BY <3>2, <4>1 DEF Ok
    <3>7. CASE n < c
      <4>1. status[n] \in Ok
        BY <1>1, <2>1, <3>4, <3>7, ChainIsDone
      <4> QED BY <2>1, <3>4, <4>1 DEF SequentialInv, Ok
    <3> QED BY <3>4, <3>5, <3>6, <3>7
  <2>4. ASSUME NEW s \in NodeStatus, BeginMember(s) PROVE FALSE
    BY <2>1, <2>4 DEF BeginMember, SequentialInv
  <2> QED BY <1>1, <2>3, <2>4 DEF EngineNext, Step, engineVars, EndNode, Wake, TakeParallel,
           BlockSequential, PopEmpty, MembersDone, ReturnResult, SetCancel, CancelTask, Over
<1>2. EngineInv /\ SerialInv /\ [EngineNext]_engineVars =>
        [wf.edges = {e \in Nodes \X Nodes : e[2] = e[1] + 1} /\ wf.parallel = {} =>
           (cancel \/ taskCancel => execs' = execs)]_engineVars
  BY <1>1
<1> QED BY <1>2, SerialInvHolds, PTL DEF EngineSpec, CancelStops
=============================================================================
