----------------------------- MODULE Delegation -----------------------------
(***************************************************************************)
(* A parent hands a task to a child agent (delegation.delegate) and guards *)
(* the child's process (agent_launcher.run_agent): it plans what the child *)
(* may do and spend, starts it, reads the usage file the child writes,     *)
(* stops a child that spends too much or takes too long, and tells how it  *)
(* ended.                                                                  *)
(*                                                                         *)
(* Delegations are made one after the other under one agent id (a task     *)
(* delegated again), so they share its usage file: a child whose parent    *)
(* was cancelled keeps running, and writing, beside the next one.  Steps   *)
(* and tokens are one number, counted against one budget.                  *)
(***************************************************************************)
EXTENDS Capabilities, Sequences

CONSTANTS Delegations,  \* the delegations, 1 .. n in the order they are made
          Parents,      \* capability blocks of the parent
          Requests,     \* blocks asked for; Unlimited when none is given
          ParentBudget,
          Budgets,      \* budgets asked for
          Timed,        \* the delegations with a time limit (timeout > 0)
          MaxUse        \* bound: what a child can spend

ASSUME BudgetAssumption ==
  /\ ParentBudget \in Nat \ {0} /\ Budgets \subseteq Nat \ {0}
  /\ Delegations \subseteq Nat \ {0} /\ Timed \subseteq Delegations
  /\ MaxUse \in Nat

ASSUME BlocksAssumption == Parents \subseteq Blocks /\ Requests \subseteq Blocks

VARIABLES
  stage,      \* where a delegation is
  blocks,  \* the parent's block and the child's, from the plan to its announcement
  budget,  \* what the child may spend
  seen,    \* the last usage read while the child ran
  known,   \* the usage the result goes by
  why,     \* what stopped the child: "budget", "time" or ""
  report,  \* what run_agent and default_spawn gave back to delegate
  status,  \* what delegate returned
  child,   \* the child's process: "none", "up" or "gone"
  used,    \* what it has spent
  asked,   \* history: its parent told it to stop
  usage,   \* the usage file: "absent", "torn" or "whole", and who wrote it
  events   \* what each delegation has put on the bus

plan      == <<blocks, budget>>
reading   == <<seen, known, why>>
result    == <<report, status>>
childVars == <<child, used, asked>>
delegationVars == <<stage, plan, reading, result, childVars, usage, events>>

Absent == [st |-> "absent", by |-> 0, n |-> 0]
TornBy(d) == [st |-> "torn", by |-> d, n |-> 0]
Whole(d, n) == [st |-> "whole", by |-> d, n |-> n]

Usages == [st : {"absent", "torn", "whole"}, by : Delegations \cup {0},
           n : 0 .. MaxUse]

Stages == {"new", "planned", "assigned", "spawn", "grace", "wait", "stop",
        "stopping", "final", "classify", "crash", "told", "cancelled"}

DelegationTypeOK ==
  /\ stage \in [Delegations -> Stages]
  /\ blocks \in [Delegations -> {<<>>} \cup (Blocks \X Blocks)]
  /\ budget \in [Delegations -> Nat]
  /\ seen \in [Delegations -> Usages] /\ known \in [Delegations -> Usages]
  /\ why \in [Delegations -> {"", "budget", "time"}]
  /\ report \in [Delegations -> {"", "completed", "failed"}]
  /\ status \in [Delegations -> {"", "completed", "failed", "budget_exhausted",
                                 "crashed", "rejected"}]
  /\ child \in [Delegations -> {"none", "up", "gone"}]
  /\ used \in [Delegations -> 0 .. MaxUse]
  /\ asked \in [Delegations -> BOOLEAN]
  /\ usage \in Usages
  /\ events \in [Delegations -> Seq({"assigned", "completed", "failed"})]

DelegationInit ==
  /\ stage = [d \in Delegations |-> "new"]
  /\ blocks = [d \in Delegations |-> <<>>]
  /\ budget = [d \in Delegations |-> 0]
  /\ seen = [d \in Delegations |-> Absent]
  /\ known = [d \in Delegations |-> Absent]
  /\ why = [d \in Delegations |-> ""]
  /\ report = [d \in Delegations |-> ""]
  /\ status = [d \in Delegations |-> ""]
  /\ child = [d \in Delegations |-> "none"]
  /\ used = [d \in Delegations |-> 0]
  /\ asked = [d \in Delegations |-> FALSE]
  /\ usage = Absent
  /\ events = [d \in Delegations |-> <<>>]

Ended(d) == stage[d] \in {"told", "cancelled"}

Go(d, next) == stage' = [stage EXCEPT ![d] = next]

Put(d, event) == events' = [events EXCEPT ![d] = Append(@, event)]

\* The child was not started, or was gone at once.
NotStarted(d) ==
  /\ Go(d, "classify")
  /\ report' = [report EXCEPT ![d] = "failed"]

(***************************************************************************)
(* plan_delegation: pure.  A rejected plan is returned at once, with no    *)
(* event and no process.                                                   *)
(***************************************************************************)
Accept(d) ==
  /\ Go(d, "planned")
  /\ \E parent \in Parents, request \in Requests :
       /\ Granted(parent, request)
       /\ blocks' = [blocks EXCEPT ![d] = <<parent, ChildBlock(parent, request)>>]
  /\ \E wanted \in Budgets :
       budget' = [budget EXCEPT ![d] = Stricter(ParentBudget, wanted)]
  /\ UNCHANGED result

Reject(d) ==
  /\ \E parent \in Parents, request \in Requests : ~Granted(parent, request)
  /\ Go(d, "told")
  /\ status' = [status EXCEPT ![d] = "rejected"]
  /\ UNCHANGED <<plan, report>>

MakePlan(d) ==
  /\ stage[d] = "new"
  /\ \A e \in Delegations : e < d => Ended(e)
  /\ Accept(d) \/ Reject(d)
  /\ UNCHANGED <<reading, childVars, usage, events>>

\* task.assigned goes out before the child is started; a bus that raises
\* ends the delegation as crashed.
Assign(d) ==
  /\ stage[d] = "planned"
  /\ \/ Put(d, "assigned") /\ Go(d, "assigned")
     \/ Go(d, "crash") /\ UNCHANGED events
  /\ blocks' = [blocks EXCEPT ![d] = <<>>]
  /\ UNCHANGED <<budget, reading, result, childVars, usage>>

(***************************************************************************)
(* run_agent.  The usage of an earlier child is removed first; that it     *)
(* cannot be removed is only a warning.  No script, no log file or no      *)
(* sandbox: an error.                                                      *)
(***************************************************************************)
DiscardUsage(d) ==
  /\ stage[d] = "assigned"
  /\ usage' \in {Absent, usage}
  /\ \/ Go(d, "spawn") /\ UNCHANGED report
     \/ NotStarted(d)
  /\ UNCHANGED <<plan, reading, status, childVars, events>>

Spawn(d) ==
  /\ stage[d] = "spawn"
  /\ \/ /\ child' = [child EXCEPT ![d] = "up"]
        /\ Go(d, "grace")
        /\ UNCHANGED report
     \/ NotStarted(d) /\ UNCHANGED child
  /\ UNCHANGED <<plan, reading, status, used, asked, usage, events>>

\* A child that is gone when the startup grace ends never started.
GraceOver(d) ==
  /\ stage[d] = "grace"
  /\ \/ child[d] = "gone" /\ NotStarted(d)
     \/ child[d] = "up" /\ Go(d, "wait") /\ UNCHANGED report
  /\ UNCHANGED <<plan, reading, status, childVars, usage, events>>

(***************************************************************************)
(* _wait_guarded: the exit of the child, the usage file, the time limit.   *)
(* The file may be looked at after the child has gone and before its exit  *)
(* is noticed.                                                             *)
(***************************************************************************)
Exited(d) ==
  /\ stage[d] = "wait" /\ child[d] = "gone"
  /\ Go(d, "final")
  /\ UNCHANGED <<plan, reading, result, childVars, usage, events>>

Look(d) ==
  /\ stage[d] = "wait" /\ usage.st = "whole"
  /\ seen' = [seen EXCEPT ![d] = usage]
  /\ IF usage.n > budget[d]
     THEN Go(d, "stop") /\ why' = [why EXCEPT ![d] = "budget"]
     ELSE UNCHANGED <<stage, why>>
  /\ UNCHANGED <<plan, known, result, childVars, usage, events>>

\* Mutant: the time limit is looked at only once a usage has been read.
DeadlineOnUsage(d) ==
  /\ stage[d] = "wait" /\ d \in Timed /\ seen[d] # Absent
  /\ Go(d, "stop")
  /\ why' = [why EXCEPT ![d] = "time"]
  /\ UNCHANGED <<plan, seen, known, result, childVars, usage, events>>

Deadline(d) ==
  /\ stage[d] = "wait" /\ d \in Timed
  /\ Go(d, "stop")
  /\ why' = [why EXCEPT ![d] = "time"]
  /\ UNCHANGED <<plan, seen, known, result, childVars, usage, events>>

(***************************************************************************)
(* _terminate_via: TERM, a grace, KILL.  Signalling a unit takes another   *)
(* process, and that it cannot be started raises.                          *)
(***************************************************************************)
Terminate(d) ==
  /\ stage[d] = "stop"
  /\ \/ /\ asked' = [asked EXCEPT ![d] = (child[d] = "up")]
        /\ Go(d, "stopping")
     \/ Go(d, "crash") /\ UNCHANGED asked
  /\ UNCHANGED <<plan, reading, result, child, used, usage, events>>

\* Mutant: the grace of the TERM over, no KILL is sent.
StoppedByTerm(d) ==
  /\ stage[d] = "stopping"
  /\ Go(d, "final")
  /\ UNCHANGED <<plan, reading, result, childVars, usage, events>>

Stopped(d) ==
  /\ stage[d] = "stopping"
  /\ child' = [child EXCEPT ![d] = "gone"]
  /\ Go(d, "final")
  /\ UNCHANGED <<plan, reading, result, used, asked, usage, events>>

\* Mutant: the usage file alone, without the last usage seen.
ReadFileOnly(d) ==
  /\ stage[d] = "final"
  /\ Go(d, "classify")
  /\ known' = [known EXCEPT ![d] = IF usage.st = "whole" THEN usage ELSE Absent]
  /\ report' = [report EXCEPT ![d] = IF why[d] = "time" THEN "failed" ELSE "completed"]
  /\ UNCHANGED <<plan, seen, why, status, childVars, usage, events>>

\* The usage file has the last word; when it cannot be read, the last usage
\* seen.
ReadFinal(d) ==
  /\ stage[d] = "final"
  /\ Go(d, "classify")
  /\ known' = [known EXCEPT ![d] = IF usage.st = "whole" THEN usage ELSE seen[d]]
  /\ report' = [report EXCEPT ![d] = IF why[d] = "time" THEN "failed" ELSE "completed"]
  /\ UNCHANGED <<plan, seen, why, status, childVars, usage, events>>

(***************************************************************************)
(* delegate again: the child's report is judged by its usage, not by what  *)
(* stopped it; a bus that raises makes the delegation crashed.             *)
(***************************************************************************)
Judge(d) ==
  IF report[d] # "completed" THEN "failed"
  ELSE IF known[d].n > budget[d] THEN "budget_exhausted"
  ELSE "completed"

TellEnd(d) ==
  /\ stage[d] = "classify"
  /\ \/ /\ Put(d, IF Judge(d) = "completed" THEN "completed" ELSE "failed")
        /\ status' = [status EXCEPT ![d] = Judge(d)]
        /\ Go(d, "told")
     \/ Go(d, "crash") /\ UNCHANGED <<status, events>>
  /\ UNCHANGED <<plan, reading, report, childVars, usage>>

TellCrash(d) ==
  /\ stage[d] = "crash"
  /\ Put(d, "failed") \/ UNCHANGED events
  /\ status' = [status EXCEPT ![d] = "crashed"]
  /\ Go(d, "told")
  /\ UNCHANGED <<plan, reading, report, childVars, usage>>

\* The delegating task is cancelled at an await: nothing catches that, so the
\* child is left to itself and no event says so.
Cancel(d) ==
  /\ stage[d] \in {"spawn", "grace", "wait", "stopping"}
  /\ Go(d, "cancelled")
  /\ UNCHANGED <<plan, reading, result, childVars, usage, events>>

Parent(d) ==
  \/ MakePlan(d) \/ Assign(d) \/ DiscardUsage(d) \/ Spawn(d) \/ GraceOver(d)
  \/ Exited(d) \/ Look(d) \/ Deadline(d)
  \/ Terminate(d) \/ Stopped(d) \/ ReadFinal(d)
  \/ TellEnd(d) \/ TellCrash(d)

(***************************************************************************)
(* The child: external.  It spends, rewrites the usage file (empty until   *)
(* the write is done) and leaves when it likes, asked or not.              *)
(***************************************************************************)
Spend(d) ==
  /\ child[d] = "up" /\ used[d] < MaxUse
  /\ used' = [used EXCEPT ![d] = used[d] + 1]
  /\ UNCHANGED <<stage, plan, reading, result, child, asked, usage, events>>

BeginReport(d) ==
  /\ child[d] = "up"
  /\ usage' = TornBy(d)
  /\ UNCHANGED <<stage, plan, reading, result, childVars, events>>

EndReport(d) ==
  /\ child[d] = "up" /\ usage = TornBy(d)
  /\ usage' = Whole(d, used[d])
  /\ UNCHANGED <<stage, plan, reading, result, childVars, events>>

Leave(d) ==
  /\ child[d] = "up"
  /\ child' = [child EXCEPT ![d] = "gone"]
  /\ UNCHANGED <<stage, plan, reading, result, used, asked, usage, events>>

Child(d) == Spend(d) \/ BeginReport(d) \/ EndReport(d) \/ Leave(d)

DelegationNext == \E d \in Delegations : Parent(d) \/ Cancel(d) \/ Child(d)

\* The event loop runs the parent's next step, its timers and the grace of a
\* stop included.  Nothing is assumed of the child, or of a look at the usage
\* file, and nobody has to delegate.
DelegationFairness ==
  \A d \in Timed :
    /\ WF_delegationVars(Assign(d)) /\ WF_delegationVars(DiscardUsage(d)) /\ WF_delegationVars(Spawn(d))
    /\ WF_delegationVars(GraceOver(d)) /\ WF_delegationVars(Deadline(d)) /\ WF_delegationVars(Terminate(d))
    /\ WF_delegationVars(Exited(d)) /\ WF_delegationVars(Stopped(d)) /\ WF_delegationVars(ReadFinal(d))
    /\ WF_delegationVars(TellEnd(d)) /\ WF_delegationVars(TellCrash(d))

DelegationSpec == DelegationInit /\ [][DelegationNext]_delegationVars /\ DelegationFairness

(***************************************************************************)
(* Properties.                                                             *)
(***************************************************************************)
\* What a child is given is never freer than what its parent has, whatever
\* was asked for (plan_delegation: "只收紧不放宽").
ChildBound ==
  \A d \in Delegations :
    stage[d] = "planned" => NeverFreer(blocks[d][1], blocks[d][2])

\* A child its parent stopped is never told as completed, although delegate
\* does not hear of the stop and judges by the usage alone: the usage that
\* stopped it is still the one known at the end, or a higher one, even when
\* the child died while writing.  Unless a usage read was another child's.
StoppedIsTold ==
  \A d \in Delegations :
    status[d] = "completed" /\ asked[d]
      => {seen[d].by, known[d].by} \cap (Delegations \ {d}) # {}

\* When the parent is told how a child ended, the child's process is gone.
\* Not when the stop itself failed ("crashed").
NothingLeftRunning ==
  \A d \in Delegations :
    stage[d] = "told" /\ status[d] # "crashed" => child[d] # "up"

\* A delegation with a time limit ends, whatever its child does.
DelegationEnds ==
  \A d \in Timed : (stage[d] = "planned") ~> Ended(d)
=============================================================================
