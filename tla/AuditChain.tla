----------------------------- MODULE AuditChain -----------------------------
(***************************************************************************)
(* audit_store.py, audit_witness.py, audit_watchdog.py and the chain       *)
(* verifier of sec_monitor.py: the hash-chained audit log.  Processes      *)
(* append under a file lock; the daemon's watchdog reads the files in a    *)
(* thread of its own without the lock.  Writers are at the granularity of  *)
(* their file operations, and may be killed or fail between them.          *)
(*                                                                         *)
(* A line of the log is a record.  An hmac is the number of the append     *)
(* that made it (it signs the content, which is unique), 0 is "" and a     *)
(* file that does not exist is the empty sequence.                         *)
(***************************************************************************)
EXTENDS AuditKey, SequencesExt

CONSTANTS
    MaxLines,   \* max_bytes, counted in lines
    MaxAppends, \* bound: calls of append
    MaxFaults   \* bound: kinds of faults in one behaviour

ASSUME AuditBoundsAssumption ==
    /\ MaxLines \in Nat \ {0} /\ MaxAppends \in Nat /\ MaxFaults \in Nat
    /\ NoFile \notin Procs      \* it stands for a lock that nobody holds, too

VARIABLES
    main,       \* audit.jsonl
    bak,        \* audit.jsonl.1
    marker,     \* audit.jsonl.chained: the hmac of the first chained line
    witness,    \* audit-witness.json
    lock,       \* who holds the flock on audit.jsonl.lock
    wpc,        \* where each writer is in append
    line,       \* the record each writer is appending
    count,      \* appends so far
    acked,      \* history: appends that returned True
    faults,     \* history: the kinds of faults that happened
    v           \* the watchdog's verification: what it read, what it found

logVars == <<main, bak, marker, witness>>
writerVars == <<lock, wpc, line, count, acked>>
vars == <<keyVars, logVars, writerVars, faults, v>>

-----------------------------------------------------------------------------
(* Lines                                                                   *)

Kinds == {"chain",      \* a signed line
          "altered",    \* a line with an hmac that does not fit its content
          "legacy",     \* a line without hmac, from before the chain
          "torn",       \* part of a line, without its newline
          "bad"}        \* a line that is not JSON
Lines == [id : 0..MaxAppends, prev : 0..MaxAppends, key : KeyValues \cup {NoFile}, kind : Kinds]

Unsigned(kind) == [id |-> 0, prev |-> 0, key |-> NoFile, kind |-> kind]

HasHmac(r) == r.kind \in {"chain", "altered"}
Malformed(r) == r.kind \in {"torn", "bad"}
Valid(k, r) == r.kind = "chain" /\ r.key = k

\* _last_chained_hmac
LastHmac(f) == LET n == SelectLastInSeq(f, HasHmac) IN IF n = 0 THEN 0 ELSE f[n].id

\* Mutant: the rotation window is forgotten.
PrevHashMainOnly == LastHmac(main)

\* _current_prev_hash: the last line of the log, in the rotation window the last line of
\* the backup, otherwise the last line of the log that has an hmac.
PrevHash ==
    IF main # <<>> /\ HasHmac(Last(main)) THEN Last(main).id
    ELSE IF main = <<>> /\ bak # <<>> /\ HasHmac(Last(bak)) THEN Last(bak).id
    ELSE LastHmac(main)

-----------------------------------------------------------------------------
(* verify_chain                                                            *)

\* Mutant: prev_hash is not compared.
CheckLineUnlinked(k, a, r) ==
    IF Malformed(r) THEN [a EXCEPT !.ok = FALSE]
    ELSE IF ~ HasHmac(r) THEN [a EXCEPT !.ok = @ /\ ~ a.started]
    ELSE [started |-> TRUE, prev |-> r.id, ok |-> a.ok /\ Valid(k, r)]

\* One line of verify_chain_files with tolerate_legacy, allow_missing_anchor and
\* allow_stale_anchor.  With a marker, the first line that has an hmac is taken as the
\* start whether it is the marked one or not; without, it starts the chain as well.
CheckLine(k, a, r) ==
    IF Malformed(r) THEN [a EXCEPT !.ok = FALSE]
    ELSE IF ~ HasHmac(r) THEN [a EXCEPT !.ok = @ /\ ~ a.started]
    ELSE [started |-> TRUE, prev |-> r.id,
          ok |-> a.ok /\ Valid(k, r) /\ (a.started => r.prev = a.prev)]

\* What verify_chain_files knows after each line of f.
Scanned(k, f) ==
    LET after[n \in 0..Len(f)] ==
            IF n = 0 THEN [started |-> FALSE, prev |-> 0, ok |-> TRUE]
            ELSE CheckLine(k, after[n - 1], f[n])
    IN after

\* AuditStore.verify_chain on the lines f with key k and marker start.
Verdict(k, start, f) ==
    LET end == Scanned(k, f)[Len(f)]
    IN IF start = 0 THEN end.ok /\ ~ end.started ELSE end.ok /\ end.started

-----------------------------------------------------------------------------
(* The witness                                                             *)

Seg(f) == [there |-> f # <<>>, lines |-> Len(f), last |-> LastHmac(f)]
NoSeg == Seg(<<>>)
Snapshot(b, m) == [set |-> TRUE, seg |-> [bak |-> Seg(b), main |-> Seg(m)]]
NoWitness == [set |-> FALSE, seg |-> [bak |-> NoSeg, main |-> NoSeg]]
Names == {"bak", "main"}

\* compare_witness: "main" is the last segment that is there now, not the main file.
MainName(w, c) ==
    IF c["main"].there THEN "main" ELSE IF c["bak"].there THEN "bak"
    ELSE IF w["main"].there THEN "main" ELSE "bak"

LegalRotation(w, c) ==
    LET m == MainName(w, c)
        b == CHOOSE n \in Names : n # m
    IN c[b].there /\ c[b].last # 0 /\ c[b].last = w[m].last

\* Mutant: a segment that grew is reported like one that shrank.
FindingsGrowth(w, c) ==
    {n \in Names : w[n].there /\
        IF ~ c[n].there
          THEN ~ (n = MainName(w, c) /\ LegalRotation(w, c))
          ELSE IF c[n].lines = w[n].lines THEN c[n].last # w[n].last ELSE ~ LegalRotation(w, c)}

\* The segments of witness w that compare_witness reports for the files c.  A size is
\* counted in lines only.
Findings(w, c) ==
    {n \in Names : w[n].there /\
        IF ~ c[n].there
          THEN ~ (n = MainName(w, c) /\ LegalRotation(w, c))
          ELSE IF c[n].lines >= w[n].lines
            THEN c[n].lines = w[n].lines /\ c[n].last # w[n].last
            ELSE ~ LegalRotation(w, c)}

-----------------------------------------------------------------------------
Idle == [pc |-> "idle", bak |-> <<>>, there |-> {}, start |-> 0, ok |-> TRUE, found |-> {},
         witness |-> NoWitness, seg |-> NoWitness.seg, clean |-> TRUE]
NoLine == Unsigned("legacy")

Init ==
    /\ KeyInit
    /\ main \in {<<>>, <<Unsigned("legacy")>>}
    /\ bak = <<>> /\ marker = 0 /\ witness = NoWitness
    /\ lock = NoFile
    /\ wpc = [p \in Procs |-> "idle"]
    /\ line = [p \in Procs |-> NoLine]
    /\ count = 0 /\ acked = {} /\ faults = {}
    /\ v = Idle

Fault(kind) ==
    /\ faults' = faults \cup {kind}
    /\ \E n \in 0..MaxFaults : \E f \in [1..n -> faults'] : faults' = {f[i] : i \in 1..n}

At(p, where) == wpc' = [wpc EXCEPT ![p] = where]
Leave(p) == At(p, "idle") /\ lock' = NoFile /\ line' = [line EXCEPT ![p] = NoLine]

\* A rotation makes a verification in progress see two states of the files.
Disturb == v' = [v EXCEPT !.clean = @ /\ v.pc = "idle"]

-----------------------------------------------------------------------------
(* append                                                                  *)

\* Take the lock, read the tail, sign.
AppendBegin(p) ==
    /\ kpc[p] = "done" /\ lock = NoFile /\ count < MaxAppends
    /\ lock' = p
    /\ count' = count + 1
    /\ line' = [line EXCEPT ![p] = [id |-> count + 1, prev |-> PrevHash, key |-> key[p], kind |-> "chain"]]
    /\ At(p, IF Len(main) >= MaxLines THEN "unlink" ELSE "write")
    /\ UNCHANGED <<keyVars, logVars, acked, faults, v>>

\* _rotate_if_needed: backup.unlink, then rename.
RotateUnlink(p) ==
    /\ wpc[p] = "unlink"
    /\ bak' = <<>>
    /\ At(p, "rename")
    /\ Disturb
    /\ UNCHANGED <<keyVars, main, marker, witness, lock, line, count, acked, faults>>

\* Mutant: the log is truncated where it should be renamed.
RotateRenameTruncates(p) ==
    /\ wpc[p] = "rename"
    /\ UNCHANGED bak /\ main' = <<>>
    /\ At(p, "write")
    /\ Disturb
    /\ UNCHANGED <<keyVars, marker, witness, lock, line, count, acked, faults>>

RotateRename(p) ==
    /\ wpc[p] = "rename"
    /\ bak' = main /\ main' = <<>>
    /\ At(p, "write")
    /\ Disturb
    /\ UNCHANGED <<keyVars, marker, witness, lock, line, count, acked, faults>>

\* An OSError of either is logged, and the line goes to the full file.
RotateFails(p) ==
    /\ wpc[p] \in {"unlink", "rename"}
    /\ At(p, "write")
    /\ Fault("rotate")
    /\ UNCHANGED <<keyVars, logVars, lock, line, count, acked, v>>

\* A line that is appended behind a torn one continues it.
AppendLine(p) ==
    /\ wpc[p] = "write"
    /\ main' = IF main # <<>> /\ Last(main).kind = "torn"
                 THEN Append(Front(main), Unsigned("bad")) ELSE Append(main, line[p])
    /\ At(p, "marker")
    /\ UNCHANGED <<keyVars, bak, marker, witness, lock, line, count, acked, faults, v>>

\* The write fails half way (a full disk): append returns False.
AppendTorn(p) ==
    /\ wpc[p] = "write"
    /\ main' = IF main # <<>> /\ Last(main).kind = "torn" THEN main
               ELSE Append(main, Unsigned("torn"))
    /\ Leave(p)
    /\ Fault("torn")
    /\ UNCHANGED <<keyVars, bak, marker, witness, count, acked, v>>

\* The anchor file is written by the first append that finds it missing.
WriteMarker(p) ==
    /\ wpc[p] = "marker"
    /\ marker' = IF marker = 0 THEN line[p].id ELSE marker
    /\ At(p, "witness")
    /\ UNCHANGED <<keyVars, main, bak, witness, lock, line, count, acked, faults, v>>

\* record_witness, release the lock, return True.
WriteWitness(p) ==
    /\ wpc[p] = "witness"
    /\ witness' = Snapshot(bak, main)
    /\ acked' = acked \cup {line[p].id}
    /\ Leave(p)
    /\ UNCHANGED <<keyVars, main, bak, marker, count, faults, v>>

\* The anchor or the witness cannot be written: logged only.
SideFileFails(p) ==
    /\ \/ wpc[p] = "marker" /\ marker = 0 /\ At(p, "witness") /\ UNCHANGED <<lock, line, acked>>
       \/ wpc[p] = "witness" /\ Leave(p) /\ acked' = acked \cup {line[p].id}
    /\ Fault("side file")
    /\ UNCHANGED <<keyVars, logVars, count, v>>

\* A writer is killed; the kernel releases its lock.
Crash(p) ==
    /\ lock = p
    /\ Leave(p)
    /\ Fault("crash")
    /\ UNCHANGED <<keyVars, logVars, count, acked, v>>

\* Something else removes or changes a line of the log.
DamageTo(f) ==
    {[f EXCEPT ![n] = [@ EXCEPT !.kind = "altered"]] : n \in {i \in DOMAIN f : f[i].kind = "chain"}}
      \cup {RemoveAt(f, n) : n \in DOMAIN f}

Damage ==
    /\ \/ \E f \in DamageTo(main) : main' = f /\ UNCHANGED bak
       \/ \E f \in DamageTo(bak) : bak' = f /\ UNCHANGED main
    /\ "damage" \notin faults /\ Fault("damage")
    /\ UNCHANGED <<keyVars, marker, witness, writerVars, v>>

-----------------------------------------------------------------------------
(* AuditWatchdog.verify_once in the process that has key k                 *)

\* A rotation is half done, or the witness is from before the last one: the append that
\* rotated has not written its own, or a seed that was snapshot earlier has replaced it.
Rotating == witness.seg["bak"] # Seg(bak) \/ \E p \in Procs : wpc[p] = "rename"

\* The list of files, then the anchor.
VerifyBegin ==
    /\ v.pc = "idle"
    /\ v' = [Idle EXCEPT !.pc = "marker", !.clean = marker # 0 /\ ~ Rotating,
                         !.there = {n \in Names : Snapshot(bak, main).seg[n].there}]
    /\ UNCHANGED <<keyVars, logVars, writerVars, faults>>

VerifyMarker ==
    /\ v.pc = "marker"
    /\ v' = [v EXCEPT !.pc = "bak", !.start = marker]
    /\ UNCHANGED <<keyVars, logVars, writerVars, faults>>

VerifyBak ==
    /\ v.pc = "bak"
    /\ v' = [v EXCEPT !.pc = "main", !.bak = IF "bak" \in v.there THEN bak ELSE <<>>]
    /\ UNCHANGED <<keyVars, logVars, writerVars, faults>>

VerifyMain(p) ==
    /\ v.pc = "main" /\ kpc[p] = "done"
    /\ LET f == v.bak \o (IF "main" \in v.there THEN main ELSE <<>>) IN
        v' = [Idle EXCEPT !.pc = "witness", !.clean = v.clean, !.ok = Verdict(key[p], v.start, f)]
    /\ UNCHANGED <<keyVars, logVars, writerVars, faults>>

\* _witness_violations: the witness, then a snapshot of each segment.
VerifyWitness ==
    /\ v.pc = "witness"
    /\ v' = [v EXCEPT !.pc = "segment", !.witness = witness]
    /\ UNCHANGED <<keyVars, logVars, writerVars, faults>>

VerifySegment ==
    /\ v.pc = "segment"
    /\ v' = [v EXCEPT !.pc = "compare", !.seg["bak"] = Seg(bak)]
    /\ UNCHANGED <<keyVars, logVars, writerVars, faults>>

\* A witness that is there is compared; otherwise one is made if there is a log.
Current == [v.seg EXCEPT !["main"] = Seg(main)]

VerifyCompare ==
    /\ v.pc = "compare"
    /\ v' = IF ~ v.witness.set /\ (\E n \in Names : Current[n].there)
              THEN [v EXCEPT !.pc = "seed", !.seg = NoWitness.seg]
              ELSE [Idle EXCEPT !.pc = "report", !.clean = v.clean, !.ok = v.ok,
                                !.found = IF v.witness.set THEN Findings(v.witness.seg, Current) ELSE {}]
    /\ UNCHANGED <<keyVars, logVars, writerVars, faults>>

\* record_witness, without the writers' lock: snapshot, then replace the file.
SeedSnapshot ==
    /\ v.pc = "seed"
    /\ v' = [v EXCEPT !.pc = "replace", !.seg = Snapshot(bak, main).seg]
    /\ UNCHANGED <<keyVars, logVars, writerVars, faults>>

SeedReplace ==
    /\ v.pc = "replace"
    /\ witness' = [set |-> TRUE, seg |-> v.seg]
    /\ v' = [Idle EXCEPT !.pc = "report", !.clean = v.clean, !.ok = v.ok]
    /\ UNCHANGED <<keyVars, main, bak, marker, writerVars, faults>>

\* _publish_breach if something was found, then the next round.
Alarm == v.pc = "report" /\ (~ v.ok \/ v.found # {})

Report ==
    /\ v.pc = "report"
    /\ v' = Idle
    /\ UNCHANGED <<keyVars, logVars, writerVars, faults>>

-----------------------------------------------------------------------------
KeyStep == KeyNext /\ UNCHANGED <<logVars, writerVars, faults, v>>

Writer(p) ==
    \/ AppendBegin(p) \/ RotateUnlink(p) \/ RotateRename(p) \/ RotateFails(p)
    \/ AppendLine(p) \/ AppendTorn(p) \/ WriteMarker(p) \/ WriteWitness(p) \/ SideFileFails(p)
    \/ Crash(p)

Next ==
    \/ KeyStep
    \/ \E p \in Procs : Writer(p) \/ VerifyMain(p)
    \/ Damage
    \/ VerifyBegin \/ VerifyMarker \/ VerifyBak \/ VerifyWitness \/ VerifySegment \/ VerifyCompare
    \/ SeedSnapshot \/ SeedReplace \/ Report

Spec == Init /\ [][Next]_vars

-----------------------------------------------------------------------------
TypeOK ==
    /\ KeyTypeOK
    /\ main \in Seq(Lines) /\ bak \in Seq(Lines)
    /\ marker \in 0..MaxAppends
    /\ lock \in Procs \cup {NoFile}
    /\ line \in [Procs -> Lines]
    /\ wpc \in [Procs -> {"idle", "unlink", "rename", "write", "marker", "witness"}]
    /\ count \in 0..MaxAppends /\ acked \subseteq 1..MaxAppends
    /\ v.start \in 0..MaxAppends /\ v.found \subseteq Names

Log == bak \o main
Chained == {i \in DOMAIN Log : HasHmac(Log[i])}
Linked(i, j) == Log[j].prev = Log[i].id
Adjacent(i, j) == i < j /\ \A n \in Chained : ~ (i < n /\ n < j)

(* Whatever writers do, and wherever they are killed or fail to rotate,    *)
(* each chained line of the backup and the log links to the one before it, *)
(* across the rotation too: prev_hash is read anew under the lock.         *)
ChainLinked ==
    faults \cap {"torn", "damage"} = {} =>
        \A i, j \in Chained : Adjacent(i, j) => Linked(i, j)

(* An append that returned True can be read back until a log of MaxLines   *)
(* later lines is rotated: no rotation, also one that fails or is cut off  *)
(* by a crash, loses it earlier.                                           *)
AckedKept ==
    faults \cap {"torn", "damage"} = {} =>
        \A n \in acked : count <= n + MaxLines => \E i \in Chained : Log[i].id = n

\* What verify_chain is to decide: all lines are JSON, the lines with an hmac come last,
\* are signed with k and linked, and there are some if and only if there is an anchor.
Intact(k) ==
    /\ marker # 0 <=> Chained # {}
    /\ \A i \in DOMAIN Log : ~ Malformed(Log[i])
    /\ \A i \in Chained : \A j \in DOMAIN Log : i <= j => j \in Chained
    /\ \A i \in Chained : Valid(k, Log[i])
    /\ \A i, j \in Chained : Adjacent(i, j) => Linked(i, j)

(* verify_chain on unchanging files decides exactly that, whatever was     *)
(* torn, altered or removed.                                               *)
VerdictFaithful ==
    \A p \in Procs : kpc[p] = "done" => (Verdict(key[p], marker, Log) <=> Intact(key[p]))

\* compare_witness recognises a segment by its size only: one of the same size with
\* another last line counts as rewritten.
SameSize(w, c) == \E n \in Names : w[n].there /\ c[n].lines = w[n].lines

(* Without faults the watchdog raises security.audit_breach only if it     *)
(* overlapped a rotation, found a witness from before the last one or ran  *)
(* before the first append was anchored: appends that it merely overlaps   *)
(* do no harm, although it takes no lock.                                  *)
AlarmJustified ==
    Alarm => faults # {} \/ ~ keySound \/ ~ v.clean

-----------------------------------------------------------------------------
(* compare_witness, rule 4: a comparison that finds no main file and the   *)
(* witnessed main file as the backup is in the window of a rotation, and   *)
(* reports nothing.                                                        *)
RotationTolerated ==
    /\ v.pc = "compare" /\ v.witness.set
    /\ ~ Current["main"].there /\ Current["bak"].last # 0
    /\ Current["bak"].last = v.witness.seg["main"].last
    => Findings(v.witness.seg, Current) = {}
=============================================================================
