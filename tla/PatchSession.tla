---------------------------- MODULE PatchSession ----------------------------
(***************************************************************************)
(* The write path of patch_ops: an edit (apply_difference or               *)
(* replace_anchor) takes a snapshot of the file, adds an entry to the      *)
(* session's index and overwrites the file; rollback walks the index       *)
(* newest-first.  Every write opens its file with "w", which empties it,   *)
(* and a crash may come between any two steps.  One edit or rollback runs  *)
(* at a time: the calls are synchronous and their callers take turns.      *)
(***************************************************************************)
EXTENDS PatchText, FiniteSets, FiniteSetsExt, SequencesExt, Functions

CONSTANTS Files,        \* the files edited, by name
          Scripts,      \* the edit scripts differences are made of
          StaleScripts, \* those whose difference is applied to any text
          Replacements, \* what replace_anchor puts for an anchor line
          InitialTexts, \* what each file may start with
          MaxEdits,     \* bound: entries in the index
          MaxCrashes    \* bound: crashes

ASSUME PatchBounds == MaxEdits \in Nat /\ MaxCrashes \in Nat

ASSUME ScriptsAssumption == \A s \in Scripts : IsScript(s)

ASSUME TextsAssumption == /\ \A f \in Files : InitialTexts[f] \subseteq Text
                          /\ Replacements \subseteq Text

VARIABLES
  file,        \* the content of each file
  snaps,       \* the snapshot files there are, by number and file
  log,         \* session.json: the file of each entry; torn once truncated
  job,         \* the edit or rollback under way, or the last one
  original,    \* history: each file before the session's first edit of it
  interrupted, \* history: a crash stopped a rollback before its last entry
  crashes

patchVars == <<file, snaps, log, job, original, interrupted, crashes>>

Torn == [torn |-> TRUE, entries |-> <<>>]
Saved(entries) == [torn |-> FALSE, entries |-> entries]

Entries == log.entries

NoJob == [pc |-> "idle"]
Quiet == job.pc \in {"idle", "rejected", "done"}
RollingBack == job.pc \in {"restore", "fill", "unlink"}

PatchTypeOK ==
  /\ file \in [Files -> Seq(Lines)]
  /\ DOMAIN snaps \subseteq (1 .. MaxEdits) \X Files
  /\ \A nf \in DOMAIN snaps : snaps[nf] \in Seq(Lines)
  /\ log = Torn \/ (~log.torn /\ Entries \in Seq(Files))
  /\ crashes \in 0 .. MaxCrashes

PatchInit ==
  /\ file \in [Files -> UNION {InitialTexts[f] : f \in Files}]
  /\ \A f \in Files : file[f] \in InitialTexts[f]
  /\ snaps = <<>>
  /\ log = Saved(<<>>)
  /\ job = NoJob
  /\ original = file
  /\ interrupted = FALSE
  /\ crashes = 0

(***************************************************************************)
(* What an edit computes before it touches the disk.                       *)
(***************************************************************************)
Plan(f, new, ok, script) ==
  job' = [pc |-> IF ok /\ new # file[f] THEN "planned" ELSE "rejected",
          file |-> f, old |-> file[f], new |-> new, script |-> script]

\* apply_difference with the diff of a script, made from this text or another.
ApplyDifference(f, script) ==
  LET hunks == DiffText(script)
      ok    == Accepts(file[f], hunks)
  IN  Plan(f, IF ok THEN ApplyHunks(file[f], hunks) ELSE file[f], ok, script)

\* replace_anchor with count = 1 and a whole line as the anchor.
ReplaceAnchor(f, anchor, replacement) ==
  LET found == {i \in DOMAIN file[f] : file[f][i] = anchor}
      ok    == Cardinality(found) = 1
  IN  Plan(f, IF ok THEN LET i == CHOOSE i \in found : TRUE
                         IN  Splice(file[f], i - 1, 1, replacement)
              ELSE file[f], ok, <<>>)

StartDifference ==
  /\ Quiet /\ Len(Entries) < MaxEdits
  /\ \E f \in Files, s \in Scripts :
       /\ OldText(s) = file[f] \/ s \in StaleScripts
       /\ ApplyDifference(f, s)
  /\ UNCHANGED <<file, snaps, log, original, interrupted, crashes>>

StartReplacement ==
  /\ Quiet /\ Len(Entries) < MaxEdits
  /\ \E f \in Files, a \in Lines, r \in Replacements : ReplaceAnchor(f, a, r)
  /\ UNCHANGED <<file, snaps, log, original, interrupted, crashes>>

\* A dry run returns a preview, a call without a session id is refused.
Preview ==
  /\ job.pc = "planned"
  /\ job' = NoJob
  /\ UNCHANGED <<file, snaps, log, original, interrupted, crashes>>

(***************************************************************************)
(* snapshot: load the index (a truncated one does not parse and the call   *)
(* raises), write the snapshot, then the index; and _write_text.           *)
(***************************************************************************)
SnapshotFails ==
  /\ job.pc = "planned"
  /\ log.torn
  /\ job' = NoJob
  /\ UNCHANGED <<file, snaps, log, original, interrupted, crashes>>

\* The snapshot files with one of f under number n.
Snapshot(n, f) ==
  [nf \in DOMAIN snaps \cup {<<n, f>>} |-> IF nf = <<n, f>> THEN file[f] ELSE snaps[nf]]

\* Mutant: a file that has a snapshot keeps its number.
SnapshotAgain ==
  /\ job.pc = "planned"
  /\ ~log.torn
  /\ LET mine == {n \in DOMAIN Entries : Entries[n] = job.file}
         n == IF mine = {} THEN Len(Entries) + 1 ELSE Min(mine)
     IN  snaps' = Snapshot(n, job.file)
  /\ job' = [pc |-> "truncate_index", file |-> job.file, new |-> job.new]
  /\ UNCHANGED <<file, log, original, interrupted, crashes>>

TakeSnapshot ==
  /\ job.pc = "planned"
  /\ ~log.torn
  /\ snaps' = Snapshot(Len(Entries) + 1, job.file)
  /\ job' = [pc |-> "truncate_index", file |-> job.file, new |-> job.new]
  /\ UNCHANGED <<file, log, original, interrupted, crashes>>

TruncateIndex ==
  /\ job.pc = "truncate_index"
  /\ job' = [pc |-> "save_index", file |-> job.file, new |-> job.new,
             entries |-> Append(Entries, job.file)]
  /\ log' = Torn
  /\ UNCHANGED <<file, snaps, original, interrupted, crashes>>

SaveIndex ==
  /\ job.pc = "save_index"
  /\ log' = Saved(job.entries)
  /\ original' = IF Contains(Front(job.entries), job.file) THEN original
                 ELSE [original EXCEPT ![job.file] = file[job.file]]
  /\ job' = [pc |-> "truncate_file", file |-> job.file, new |-> job.new]
  /\ UNCHANGED <<file, snaps, interrupted, crashes>>

TruncateFile ==
  /\ job.pc = "truncate_file"
  /\ file' = [file EXCEPT ![job.file] = <<>>]
  /\ job' = [job EXCEPT !.pc = "write_file"]
  /\ UNCHANGED <<snaps, log, original, interrupted, crashes>>

WriteFile ==
  /\ job.pc = "write_file"
  /\ file' = [file EXCEPT ![job.file] = job.new]
  /\ job' = [pc |-> "done"]
  /\ UNCHANGED <<snaps, log, original, interrupted, crashes>>

(***************************************************************************)
(* rollback.  A missing or unreadable index raises at once.                *)
(***************************************************************************)
StartRollback ==
  /\ Quiet
  /\ ~log.torn /\ Entries # <<>>
  /\ job' = [pc |-> "restore", left |-> Len(Entries)]
  /\ UNCHANGED <<file, snaps, log, original, interrupted, crashes>>

\* The snapshot an entry names.
Snap(n) == <<n, Entries[n]>>
There(n) == Snap(n) \in DOMAIN snaps

\* The loop is over, or the next snapshot is not there and rollback raises.
StopRollback ==
  /\ job.pc = "restore"
  /\ ~(job.left > 0 /\ There(job.left))
  /\ job' = NoJob
  /\ UNCHANGED <<file, snaps, log, original, interrupted, crashes>>

RestoreFile ==
  /\ job.pc = "restore"
  /\ job.left > 0 /\ There(job.left)
  /\ file' = [file EXCEPT ![Entries[job.left]] = <<>>]
  /\ job' = [job EXCEPT !.pc = "fill"]
  /\ UNCHANGED <<snaps, log, original, interrupted, crashes>>

FillFile ==
  /\ job.pc = "fill"
  /\ file' = [file EXCEPT ![Entries[job.left]] = snaps[Snap(job.left)]]
  /\ job' = [job EXCEPT !.pc = "unlink"]
  /\ UNCHANGED <<snaps, log, original, interrupted, crashes>>

UnlinkSnapshot ==
  /\ job.pc = "unlink"
  /\ snaps' = Restrict(snaps, DOMAIN snaps \ {Snap(job.left)})
  /\ job' = [pc |-> "restore", left |-> job.left - 1]
  /\ UNCHANGED <<file, log, original, interrupted, crashes>>

\* The process dies; files keep what has been written to them.
Crash ==
  /\ ~Quiet
  /\ crashes < MaxCrashes
  /\ crashes' = crashes + 1
  /\ job' = NoJob
  /\ interrupted' = \/ interrupted
                    \/ /\ RollingBack
                       /\ job.left < Len(Entries)
                       /\ \E n \in 1 .. job.left : There(n)
  /\ UNCHANGED <<file, snaps, log, original>>

EditStep == \/ TakeSnapshot \/ TruncateIndex \/ SaveIndex
            \/ TruncateFile \/ WriteFile
RollbackStep == StopRollback \/ RestoreFile \/ FillFile \/ UnlinkSnapshot

(***************************************************************************)
(* Properties.                                                             *)
(***************************************************************************)
\* A difference made by diff_text from a file's own text turns the file into
\* the other side: apply_difference accepts it and no line is lost, doubled
\* or misplaced, as long as no hunk before the last changes the line count.
OwnDifference ==
  /\ job.pc \in {"planned", "rejected"}
  /\ job.script # <<>>
  /\ job.old = OldText(job.script)
  /\ OldText(job.script) # NewText(job.script)

RoundTrip ==
  OwnDifference /\ Level(DiffText(job.script))
    => job.pc = "planned" /\ job.new = NewText(job.script)

\* The same of every pair of texts, as the round-trip tests of
\* test_patch_ops state it: refuted, since _apply_hunks splices a hunk at
\* its offset in the old text after an earlier hunk has moved the lines.
RoundTripAlways ==
  OwnDifference => job.pc = "planned" /\ job.new = NewText(job.script)

\* Where a rollback started now would leave a file: it walks the entries
\* from the newest down to the first whose snapshot is missing.
Reachable == {n \in DOMAIN Entries :
                \A m \in n .. Len(Entries) : There(m)}

RolledBack(f) ==
  LET mine == {n \in Reachable : Entries[n] = f}
  IN  IF mine = {} THEN file[f]
      ELSE snaps[Snap(Min(mine))]

\* Whatever was edited, rolled back or cut short by a crash, a rollback gives
\* every edited file back as it was before its first edit: a snapshot is
\* complete and indexed before its file is overwritten.  Not when a crash
\* left session.json truncated or stopped a rollback half-way, from which
\* the code does not recover.
Rollbackable ==
  ~log.torn /\ ~interrupted /\ ~RollingBack
    => \A f \in ToSet(Entries) : RolledBack(f) = original[f]
=============================================================================
