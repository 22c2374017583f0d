---------------------------- MODULE CodingSession ----------------------------
(***************************************************************************)
(* A coding session (coding_agent): the planner hands out steps one by     *)
(* one; a run step goes through the gateway, an edit step through          *)
(* replace_anchor, and an edit that reached the disk is followed by every  *)
(* check of the project (verifier).  At the end the session says whether   *)
(* all went well.  It shares the files and the session index with whoever  *)
(* else edits or rolls back under its session id.                          *)
(*                                                                         *)
(* Left out: skill injection, the edit hook's advice, the text of results. *)
(***************************************************************************)
EXTENDS PatchSession

CONSTANTS Checks,      \* how many checks a project may have
          MaxSteps     \* max_iterations

ASSUME SessionBounds == Checks \subseteq Nat /\ MaxSteps \in Nat

\* sess: where the session is; record: its steps, changes and verifications
\* in the order they were added.
VARIABLES sess, record

sessionVars == <<patchVars, sess, record>>

Off == [pc |-> "off"]

\* What the gateway answers to a command: it ran and exited 0 or not, the
\* shell did not find it, it ran out of time, was refused, was left waiting
\* for an approval; or the call raised.
Responses == {"exit 0", "exit 1", "not found", "timed out", "refused",
              "approval required", "raised"}

\* A time-out comes back from the shell dispatcher as "denied", a command the
\* shell does not find as "error" with code 127.
Denied(response) == response \in {"refused", "timed out"}

RunStatus(response) ==
  CASE response = "exit 0" -> "ok"
    [] Denied(response) -> "denied"
    [] OTHER -> "error"

\* outcome_from_response, verdict_from_outcome and the executor's exceptions.
Verdict(response) ==
  CASE Denied(response) \/ response = "raised" -> "unknown"
    [] response = "exit 0" -> "green"
    [] OTHER -> "red"

Recorded == {"done", "ok", "denied", "error", "rejected", "preview", "applied",
             "green", "red", "unknown"}

SessionTypeOK ==
  /\ PatchTypeOK
  /\ record \in Seq(Recorded)
  /\ sess.pc \in {"off", "plan", "edit", "check", "close", "ended", "died"}

SessionInit == PatchInit /\ sess = Off /\ record = <<>>

Add(event) == record' = Append(record, event)

\* A session that writes, or one whose edits are previews: dry_run or not yes.
Begin ==
  /\ Quiet /\ sess.pc = "off"
  /\ \E n \in Checks, writes \in BOOLEAN :
       sess' = [pc |-> "plan", checks |-> n, next |-> 0, writes |-> writes,
                left |-> MaxSteps]
  /\ UNCHANGED <<patchVars, record>>

\* The loop is over: the planner is done, or the iterations are used up.
PlannerDone ==
  /\ sess.pc = "plan" /\ sess.left > 0
  /\ Add("done")
  /\ sess' = [sess EXCEPT !.pc = "close"]
  /\ UNCHANGED patchVars

OutOfSteps ==
  /\ sess.pc = "plan" /\ sess.left = 0
  /\ sess' = [sess EXCEPT !.pc = "close"]
  /\ UNCHANGED <<patchVars, record>>

\* A run step, or a step of a kind the session does not know: an error.
RunStep ==
  /\ sess.pc = "plan" /\ sess.left > 0
  /\ \E response \in Responses : Add(RunStatus(response))
  /\ sess' = [sess EXCEPT !.left = sess.left - 1]
  /\ UNCHANGED patchVars

BeginEdit ==
  /\ sess.pc = "plan" /\ sess.left > 0
  /\ StartReplacement
  /\ sess' = [sess EXCEPT !.left = sess.left - 1, !.pc = "edit"]
  /\ UNCHANGED record

EditRejected ==
  /\ sess.pc = "edit" /\ job.pc = "rejected"
  /\ Add("rejected")
  /\ sess' = [sess EXCEPT !.pc = "plan"]
  /\ UNCHANGED patchVars

EditPreviewed ==
  /\ sess.pc = "edit" /\ ~sess.writes
  /\ Preview
  /\ Add("preview")
  /\ sess' = [sess EXCEPT !.pc = "plan"]

\* The index does not parse: not a TrimumError, so it ends the session.
EditFails ==
  /\ sess.pc = "edit" /\ sess.writes
  /\ SnapshotFails
  /\ sess' = [pc |-> "died"]
  /\ UNCHANGED record

EditWrites ==
  /\ sess.pc = "edit" /\ sess.writes
  /\ EditStep
  /\ UNCHANGED <<sess, record>>

\* _verify runs after an edit that was applied, one check after the other.
NextCheck(k) == IF k > sess.checks
                THEN [sess EXCEPT !.pc = "plan", !.next = 0]
                ELSE [sess EXCEPT !.pc = "check", !.next = k]

EditApplied ==
  /\ sess.pc = "edit" /\ job.pc = "done"
  /\ Add("applied")
  /\ sess' = NextCheck(1)
  /\ UNCHANGED patchVars

\* Mutant: the first check that is not green ends the verification unrecorded.
CheckStops ==
  /\ sess.pc = "check"
  /\ \E response \in Responses :
       IF Verdict(response) = "green"
       THEN Add("green") /\ sess' = NextCheck(sess.next + 1)
       ELSE UNCHANGED record /\ sess' = NextCheck(sess.checks + 1)
  /\ UNCHANGED patchVars

Check ==
  /\ sess.pc = "check"
  /\ \E response \in Responses : Add(Verdict(response))
  /\ sess' = NextCheck(sess.next + 1)
  /\ UNCHANGED patchVars

Seen(events) == ToSet(record) \cap events # {}

Reason ==
  CASE Seen({"error", "denied"}) -> "step_failed"
    [] Seen({"rejected"}) -> "change_rejected"
    [] Seen({"red"}) -> "verification_red"
    [] Seen({"unknown"}) -> "verification_unknown"
    [] ~Seen({"done"}) -> "iteration_cap"
    [] OTHER -> ""

End ==
  /\ sess.pc = "close"
  /\ sess' = [pc |-> "ended", checks |-> sess.checks, reason |-> Reason,
              ok |-> Reason = ""]
  /\ UNCHANGED <<patchVars, record>>

\* Everyone else: edits and rollbacks while the session is not running; bound:
\* once it has begun, rollbacks only.
Away == sess.pc \in {"off", "ended", "died"}

Others ==
  /\ Away
  /\ \/ sess.pc = "off" /\ StartDifference
     \/ Preview
     \/ SnapshotFails \/ EditStep
     \/ StartRollback \/ RollbackStep
  /\ UNCHANGED <<sess, record>>

\* A crash takes the session with it.
Dies ==
  /\ Crash
  /\ sess' = IF Away THEN sess ELSE [pc |-> "died"]
  /\ UNCHANGED record

SessionNext ==
  \/ Begin \/ PlannerDone \/ OutOfSteps \/ RunStep
  \/ BeginEdit \/ EditRejected \/ EditPreviewed \/ EditFails \/ EditWrites
  \/ EditApplied \/ Check \/ End
  \/ Others \/ Dies

SessionSpec == SessionInit /\ [][SessionNext]_sessionVars

(***************************************************************************)
(* Properties.                                                             *)
(***************************************************************************)
\* A session that ends ok vouches for its edits: the planner said it was
\* done, and after each edit that was applied every check of the project ran
\* and was green before anything else was done.
OkVouches ==
  sess.pc = "ended" /\ sess.ok =>
    /\ Last(record) = "done"
    /\ \A i \in DOMAIN record : record[i] = "applied" =>
         \A k \in 1 .. sess.checks :
           i + k \in DOMAIN record /\ record[i + k] = "green"

\* A check that could not be run is never given a verdict on the code: the
\* head of verifier says a command that does not exist, a time-out and a
\* refusal are "unknown".  Refuted: through the gateway a missing command is
\* the shell's exit code 127 and a command held for approval an exit code of
\* 1, both "red".
UnrunIsUnknown ==
  \A response \in {"not found", "timed out", "refused", "approval required"} :
    Verdict(response) = "unknown"
=============================================================================
