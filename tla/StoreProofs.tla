---------------------------- MODULE StoreProofs ----------------------------
(***************************************************************************)
(* Theorems about the files that processes share.  Of the audit log, for   *)
(* any number of processes, any rotation limit and any number of appends:  *)
(* the processes sign with one key, the lines are chained, acknowledged    *)
(* lines are kept, verify_chain decides what it should, and the watchdog   *)
(* raises no alarm without a reason.  Of the approvals, for any requests,  *)
(* claims and crashes: a grant goes back to an approval, a claim is won    *)
(* once, and a request on which no two processes have overlapped has a     *)
(* complete file and is granted once.                                      *)
(***************************************************************************)
EXTENDS ApprovalStore, AuditChain, ListsProofs, SequenceTheorems, TLAPS

-----------------------------------------------------------------------------
(* Numbers and sequences                                                   *)

(* The largest of some positions of a sequence exists.                     *)
LEMMA LargestIndex ==
  ASSUME NEW n \in Nat, NEW I \in SUBSET (1..n), I # {}
  PROVE  Max(I) \in I /\ \A i \in I : i <= Max(I)
<1> DEFINE J == {n - i : i \in I}
<1>1. J \in SUBSET Nat /\ J # {}
  <2>1. \A i \in I : n - i \in Nat
    OBVIOUS
  <2> QED BY <2>1
<1>2. PICK j \in J : \A m \in J : j <= m
  BY <1>1, LeastNat
<1>3. PICK i \in I : j = n - i
  OBVIOUS
<1>4. \A m \in I : i >= m
  BY <1>2, <1>3
<1> QED BY <1>4 DEF Max

(* What _last_chained_hmac returns.                                        *)
LEMMA LastHmacIs ==
  ASSUME NEW f \in Seq(Lines)
  PROVE  /\ LastHmac(f) \in 0..MaxAppends
         /\ f # <<>> /\ HasHmac(f[Len(f)]) => LastHmac(f) = f[Len(f)].id
         /\ (\A i \in 1..Len(f) : ~ HasHmac(f[i])) => LastHmac(f) = 0
<1> DEFINE I == {i \in 1..Len(f) : HasHmac(f[i])}
<1>1. SelectLastInSeq(f, HasHmac) = IF I # {} THEN Max(I) ELSE 0
  BY DEF SelectLastInSeq
<1>2. CASE I = {}
  <2>1. LastHmac(f) = 0
    BY <1>1, <1>2 DEF LastHmac
  <2>2. f # <<>> => Len(f) \in 1..Len(f)
    OBVIOUS
  <2> QED BY <1>2, <2>1, <2>2, AuditBoundsAssumption
<1>3. CASE I # {}
  <2>1. Max(I) \in I /\ \A i \in I : i <= Max(I)
    <3>1. Len(f) \in Nat /\ I \in SUBSET (1..Len(f))
      OBVIOUS
    <3> HIDE DEF I
    <3> QED BY <1>3, <3>1, LargestIndex
  <2>2. LastHmac(f) = f[Max(I)].id
    BY <1>1, <1>3, <2>1 DEF LastHmac
  <2>3. f[Max(I)] \in Lines
    BY <2>1
  <2>4. ASSUME HasHmac(f[Len(f)]), f # <<>> PROVE Max(I) = Len(f)
    BY <2>1, <2>4
  <2> QED BY <1>3, <2>1, <2>2, <2>3, <2>4 DEF Lines
<1> QED BY <1>2, <1>3

-----------------------------------------------------------------------------
(* The key                                                                 *)

(* Why the agreement survives each step: once audit.key holds a key no     *)
(* process is, or can come, where it would unlink it, because a process    *)
(* only reads a file that it has seen or failed to create.                 *)
KeyInv ==
    keySound =>
        /\ keyFile # EmptyFile
        /\ \A p \in Procs : /\ kpc[p] \notin {"unlink", "link"}
                            /\ kpc[p] = "read" => keyFile # NoFile
                            /\ kpc[p] = "done" => keyFile # NoFile /\ key[p] = keyFile

(* KeyInv holds before any process has looked at the file.                 *)
LEMMA KeyInvInit == KeyInit => KeyTypeOK /\ KeyInv
BY KeyAssumption DEF KeyInit, KeyTypeOK, KeyInv, KeyValues

(* Each step of resolve_hmac_key keeps it.                                 *)
LEMMA KeyInvStep == KeyTypeOK /\ KeyInv /\ [KeyNext]_keyVars => KeyTypeOK' /\ KeyInv'
<1> SUFFICES ASSUME KeyTypeOK, KeyInv, [KeyNext]_keyVars PROVE KeyTypeOK' /\ KeyInv'
  OBVIOUS
<1> USE KeyAssumption DEF KeyTypeOK, KeyInv, GoTo, Resolve
<1>1. CASE UNCHANGED keyVars
  BY <1>1 DEF keyVars
<1>2. ASSUME NEW p \in Procs, CheckFile(p) PROVE KeyTypeOK' /\ KeyInv'
  BY <1>2 DEF CheckFile
<1>3. ASSUME NEW p \in Procs, CreateFile(p) PROVE KeyTypeOK' /\ KeyInv'
  <2>1. <<p, 1>> \in KeyValues /\ <<p, 1>> \notin {NoFile, EmptyFile}
    BY DEF KeyValues
  <2>2. CASE keyFile = NoFile
    BY <1>3, <2>1, <2>2 DEF CreateFile
  <2>3. CASE keyFile # NoFile
    BY <1>3, <2>3 DEF CreateFile
  <2> QED BY <2>2, <2>3
<1>4. ASSUME NEW p \in Procs, CreateFails(p) PROVE KeyTypeOK' /\ KeyInv'
  BY <1>4 DEF CreateFails
<1>5. ASSUME NEW p \in Procs, ReadFile(p) PROVE KeyTypeOK' /\ KeyInv'
  BY <1>5 DEF ReadFile
<1>6. ASSUME NEW p \in Procs, ReadFails(p) PROVE KeyTypeOK' /\ KeyInv'
  BY <1>6 DEF ReadFails
<1>7. ASSUME NEW p \in Procs, RepairUnlink(p) PROVE KeyTypeOK' /\ KeyInv'
  BY <1>7 DEF RepairUnlink
<1>8. ASSUME NEW p \in Procs, RepairLink(p) PROVE KeyTypeOK' /\ KeyInv'
  <2>1. <<p, 2>> \in KeyValues
    BY DEF KeyValues
  <2> QED BY <1>8, <2>1 DEF RepairLink
<1> QED
  BY <1>1, <1>2, <1>3, <1>4, <1>5, <1>6, <1>7, <1>8 DEF KeyNext

(* resolve_hmac_key hands every process the key that is in audit.key, for  *)
(* every interleaving of any number of processes.                          *)
THEOREM KeysAgree == KeySpec => []KeyAgreement
<1>1. KeyInv => KeyAgreement
  BY DEF KeyInv, KeyAgreement
<1> QED BY <1>1, KeyInvInit, KeyInvStep, PTL DEF KeySpec

-----------------------------------------------------------------------------
(* Types                                                                   *)

Places == {"idle", "unlink", "rename", "write", "marker", "witness"}
Segs == [there : BOOLEAN, lines : Nat, last : 0..MaxAppends]
Witnesses == [set : BOOLEAN, seg : [bak : Segs, main : Segs]]
Rounds == [pc : {"idle", "marker", "bak", "main", "witness", "segment", "compare", "seed",
                 "replace", "report"},
           bak : Seq(Lines), there : SUBSET Names, start : 0..MaxAppends, ok : BOOLEAN,
           found : SUBSET Names, witness : Witnesses, seg : [bak : Segs, main : Segs],
           clean : BOOLEAN]

LogTypes ==
    /\ main \in Seq(Lines) /\ bak \in Seq(Lines)
    /\ marker \in 0..MaxAppends
    /\ lock \in Procs \cup {NoFile}
    /\ line \in [Procs -> Lines]
    /\ wpc \in [Procs -> Places]
    /\ \A p \in Procs : wpc[p] # "idle" => line[p].id # 0
    /\ count \in 0..MaxAppends /\ acked \subseteq 1..MaxAppends
WatchTypes == witness \in Witnesses /\ v \in Rounds

(* The values append and verify_once start from are typed.                 *)
LEMMA SmallTypes ==
  /\ \A kind \in Kinds : Unsigned(kind) \in Lines
  /\ NoSeg \in Segs /\ NoWitness \in Witnesses /\ Idle \in Rounds
  /\ \A f \in Seq(Lines) : Seg(f) \in Segs
<1> USE AuditBoundsAssumption
<1>1. \A kind \in Kinds : Unsigned(kind) \in Lines
  BY DEF Unsigned, Lines
<1>2. \A f \in Seq(Lines) : Seg(f) \in Segs
  BY LastHmacIs DEF Seg, Segs
<1>3. NoSeg \in Segs
  <2>1. <<>> \in Seq(Lines)
    OBVIOUS
  <2> QED BY <1>2, <2>1 DEF NoSeg
<1>4. NoWitness \in Witnesses
  BY <1>3 DEF NoWitness, Witnesses
<1>5. Idle \in Rounds
  BY <1>3, <1>4 DEF Idle, Rounds, NoWitness, Witnesses, Names
<1> QED BY <1>1, <1>2, <1>3, <1>4, <1>5

(* What _current_prev_hash returns.                                        *)
LEMMA PrevHashType == LogTypes => PrevHash \in 0..MaxAppends
<1> SUFFICES ASSUME LogTypes PROVE PrevHash \in 0..MaxAppends
  OBVIOUS
<1>1. \A f \in Seq(Lines) : f # <<>> => Last(f).id \in 0..MaxAppends
  <2>1. ASSUME NEW f \in Seq(Lines), f # <<>> PROVE f[Len(f)] \in Lines
    <3>1. Len(f) \in 1..Len(f)
      BY <2>1
    <3> QED BY <3>1
  <2> QED BY <2>1 DEF Last, Lines
<1> QED BY <1>1, LastHmacIs DEF LogTypes, PrevHash

(* The log starts typed.                                                   *)
LEMMA InitTypes == Init => LogTypes /\ WatchTypes
<1> SUFFICES ASSUME Init PROVE LogTypes /\ WatchTypes
  OBVIOUS
<1>1. Unsigned("legacy") \in Lines
  BY SmallTypes DEF Kinds
<1>2. <<>> \in Seq(Lines) /\ <<Unsigned("legacy")>> \in Seq(Lines)
  BY <1>1
<1>3. LogTypes
  <2>1. main \in Seq(Lines) /\ bak \in Seq(Lines)
    BY <1>2 DEF Init
  <2>2. line \in [Procs -> Lines]
    BY <1>1 DEF Init, NoLine
  <2>3. wpc \in [Procs -> Places] /\ \A p \in Procs : wpc[p] = "idle"
    BY DEF Init, Places
  <2> QED BY <2>1, <2>2, <2>3, AuditBoundsAssumption DEF Init, LogTypes
<1>4. WatchTypes
  BY SmallTypes DEF Init, WatchTypes
<1> QED BY <1>3, <1>4

(* Each step of a writer and each damage leave it typed.                   *)
LEMMA WriterTypes ==
  ASSUME LogTypes, KeyTypeOK, NEW p \in Procs, Writer(p)
  PROVE  LogTypes'
<1> USE AuditBoundsAssumption DEF LogTypes, Places, At
<1>0. /\ \A kind \in Kinds : Unsigned(kind) \in Lines
      /\ NoLine \in Lines /\ Unsigned("bad") \in Lines /\ Unsigned("torn") \in Lines
  BY SmallTypes DEF NoLine, Kinds
<1>1. ASSUME AppendBegin(p) PROVE LogTypes'
  <2> DEFINE new == [id |-> count + 1, prev |-> PrevHash, key |-> key[p], kind |-> "chain"]
  <2>1. new \in Lines
    BY <1>1, PrevHashType DEF AppendBegin, Lines, Kinds, KeyTypeOK
  <2> HIDE DEF new
  <2>2. line' = [line EXCEPT ![p] = new]
    BY <1>1 DEF AppendBegin, new
  <2>3. line' \in [Procs -> Lines]
    BY <2>1, <2>2
  <2>4. wpc' \in [Procs -> Places]
    BY <1>1 DEF AppendBegin
  <2> QED BY <1>1, <2>3, <2>4 DEF AppendBegin, logVars
<1>2. ASSUME RotateUnlink(p) PROVE LogTypes'
  BY <1>2 DEF RotateUnlink
<1>3. ASSUME RotateRename(p) PROVE LogTypes'
  BY <1>3 DEF RotateRename
<1>4. ASSUME RotateFails(p) PROVE LogTypes'
  BY <1>4 DEF RotateFails, logVars
<1>5. ASSUME AppendLine(p) PROVE LogTypes'
  <2>1. main # <<>> => Front(main) \in Seq(Lines)
    BY DEF Front
  <2>2. main' \in Seq(Lines)
    BY <1>0, <1>5, <2>1 DEF AppendLine
  <2> QED BY <1>5, <2>2 DEF AppendLine
<1>6. ASSUME AppendTorn(p) PROVE LogTypes'
  BY <1>0, <1>6 DEF AppendTorn, Leave
<1>7. ASSUME WriteMarker(p) PROVE LogTypes'
  BY <1>7 DEF WriteMarker, Lines
<1>8. ASSUME WriteWitness(p) PROVE LogTypes'
  <2>1. line[p].id \in 1..MaxAppends
    BY <1>8 DEF WriteWitness, Lines
  <2> QED BY <1>0, <1>8, <2>1 DEF WriteWitness, Leave
<1>9. ASSUME SideFileFails(p) PROVE LogTypes'
  <2>1. wpc[p] # "idle" => line[p].id \in 1..MaxAppends
    BY DEF Lines
  <2>2. UNCHANGED <<main, bak, marker, count>>
    BY <1>9 DEF SideFileFails, logVars
  <2>3. CASE wpc[p] = "witness"
    <3>1. /\ wpc' = [wpc EXCEPT ![p] = "idle"] /\ line' = [line EXCEPT ![p] = NoLine]
          /\ lock' = NoFile /\ acked' = acked \cup {line[p].id}
      BY <1>9, <2>3 DEF SideFileFails, Leave
    <3>2. line' \in [Procs -> Lines] /\ wpc' \in [Procs -> Places]
      BY <1>0, <3>1
    <3>3. \A q \in Procs : wpc'[q] # "idle" => line'[q].id # 0
      BY <3>1
    <3> QED BY <2>1, <2>2, <2>3, <3>1, <3>2, <3>3
  <2>4. CASE wpc[p] = "marker"
    BY <1>9, <2>2, <2>4 DEF SideFileFails
  <2> QED BY <1>9, <2>3, <2>4 DEF SideFileFails
<1>10. ASSUME Crash(p) PROVE LogTypes'
  BY <1>0, <1>10 DEF Crash, Leave, logVars
<1> QED
  BY <1>1, <1>2, <1>3, <1>4, <1>5, <1>6, <1>7, <1>8, <1>9, <1>10 DEF Writer

(* A line that something else removes or changes leaves a sequence of      *)
(* lines.                                                                  *)
LEMMA DamageTypes ==
  ASSUME NEW f \in Seq(Lines), NEW g \in DamageTo(f)
  PROVE  g \in Seq(Lines)
<1>1. ASSUME NEW n \in DOMAIN f, g = [f EXCEPT ![n] = [@ EXCEPT !.kind = "altered"]]
      PROVE  g \in Seq(Lines)
  <2> DEFINE r == [f[n] EXCEPT !.kind = "altered"]
  <2>0. f[n] \in Lines
    OBVIOUS
  <2>1. r \in Lines
    BY <2>0 DEF Lines, Kinds
  <2> HIDE DEF r
  <2>2. g = [f EXCEPT ![n] = r]
    BY <1>1 DEF r
  <2> QED BY <2>1, <2>2
<1>2. ASSUME NEW n \in DOMAIN f, g = RemoveAt(f, n) PROVE g \in Seq(Lines)
  BY <1>2 DEF RemoveAt
<1> QED BY <1>1, <1>2 DEF DamageTo

(* verify_chain_files decides with a truth value.                          *)
LEMMA VerdictType == ASSUME NEW k, NEW s, NEW f PROVE Verdict(k, s, f) \in BOOLEAN
BY DEF Verdict

(* Each step of the watchdog keeps its types.                              *)
LEMMA RoundTypes ==
  ASSUME LogTypes, WatchTypes,
         \/ \E p \in Procs : VerifyMain(p)
         \/ VerifyBegin \/ VerifyMarker \/ VerifyBak \/ VerifyWitness \/ VerifySegment
         \/ VerifyCompare \/ SeedSnapshot \/ SeedReplace \/ Report
  PROVE  WatchTypes'
<1> USE DEF LogTypes, WatchTypes
<1>0. /\ NoWitness \in Witnesses /\ NoWitness.seg \in [bak : Segs, main : Segs]
      /\ Idle \in Rounds /\ Seg(bak) \in Segs /\ Seg(main) \in Segs
  BY SmallTypes DEF Witnesses
<1>1. CASE \E p \in Procs : VerifyMain(p)
  <2>1. PICK p \in Procs : VerifyMain(p)
    BY <1>1
  <2> DEFINE ok == Verdict(key[p], v.start,
                          v.bak \o (IF "main" \in v.there THEN main ELSE <<>>))
  <2>2. ok \in BOOLEAN
    BY VerdictType
  <2>3. witness' = witness /\ v' = [Idle EXCEPT !.pc = "witness", !.clean = v.clean, !.ok = ok]
    BY <2>1 DEF VerifyMain, logVars
  <2> HIDE DEF ok
  <2> QED BY <1>0, <2>2, <2>3 DEF Rounds
<1>2. CASE VerifyBegin
  <2>1. {n \in Names : Snapshot(bak, main).seg[n].there} \in SUBSET Names
    OBVIOUS
  <2>2. (marker # 0 /\ ~ Rotating) \in BOOLEAN
    OBVIOUS
  <2> QED BY <1>0, <1>2, <2>1, <2>2 DEF VerifyBegin, Rounds, logVars
<1>3. CASE VerifyMarker
  BY <1>3 DEF VerifyMarker, Rounds, logVars
<1>4. CASE VerifyBak
  <2>1. (IF "bak" \in v.there THEN bak ELSE <<>>) \in Seq(Lines)
    OBVIOUS
  <2> QED BY <1>4, <2>1 DEF VerifyBak, Rounds, logVars
<1>5. CASE VerifyWitness
  BY <1>5 DEF VerifyWitness, Rounds, logVars
<1>6. CASE VerifySegment
  BY <1>0, <1>6 DEF VerifySegment, Rounds, logVars
<1>7. CASE VerifyCompare
  <2>1. Findings(v.witness.seg, Current) \in SUBSET Names
    BY DEF Findings
  <2> QED BY <1>0, <1>7, <2>1 DEF VerifyCompare, Rounds, logVars
<1>8. CASE SeedSnapshot
  BY <1>0, <1>8 DEF SeedSnapshot, Snapshot, Rounds, logVars
<1>9. CASE SeedReplace
  BY <1>0, <1>9 DEF SeedReplace, Rounds, Witnesses
<1>10. CASE Report
  BY <1>0, <1>10 DEF Report, logVars
<1> QED
  BY <1>1, <1>2, <1>3, <1>4, <1>5, <1>6, <1>7, <1>8, <1>9, <1>10

(* A writer's steps keep the watchdog's types.                             *)
LEMMA WriterWatchTypes ==
  ASSUME LogTypes, WatchTypes, NEW p \in Procs, Writer(p)
  PROVE  WatchTypes'
<1> USE DEF LogTypes, WatchTypes
<1>1. Snapshot(bak, main) \in Witnesses
  BY SmallTypes DEF Snapshot, Witnesses
<1>2. v' \in Rounds
  BY DEF Writer, AppendBegin, RotateUnlink, RotateRename, RotateFails, AppendLine, AppendTorn,
         WriteMarker, WriteWitness, SideFileFails, Crash, Disturb, Rounds
<1>3. witness' \in Witnesses
  BY <1>1 DEF Writer, AppendBegin, RotateUnlink, RotateRename, RotateFails, AppendLine, AppendTorn,
         WriteMarker, WriteWitness, SideFileFails, Crash, logVars
<1> QED BY <1>2, <1>3

(* All steps together.                                                     *)
LEMMA StepTypes ==
  KeyTypeOK /\ LogTypes /\ WatchTypes /\ KeyInv /\ [Next]_vars
    => KeyTypeOK' /\ LogTypes' /\ WatchTypes' /\ KeyInv'
<1> SUFFICES ASSUME KeyTypeOK, LogTypes, WatchTypes, KeyInv, [Next]_vars
             PROVE  KeyTypeOK' /\ LogTypes' /\ WatchTypes' /\ KeyInv'
  OBVIOUS
<1>1. CASE KeyStep
  <2>1. LogTypes' /\ WatchTypes'
    BY <1>1 DEF KeyStep, LogTypes, WatchTypes, logVars, writerVars
  <2> QED BY <1>1, <2>1, KeyInvStep DEF KeyStep
<1>2. CASE UNCHANGED keyVars
  <2>0. KeyTypeOK' /\ KeyInv'
    BY <1>2, KeyInvStep
  <2>1. ASSUME NEW p \in Procs, Writer(p) PROVE LogTypes' /\ WatchTypes'
    BY <2>1, WriterTypes, WriterWatchTypes
  <2>2. CASE Damage
    BY <2>0, <2>2, DamageTypes DEF Damage, LogTypes, WatchTypes, writerVars
  <2>3. CASE \/ \E p \in Procs : VerifyMain(p)
             \/ VerifyBegin \/ VerifyMarker \/ VerifyBak \/ VerifyWitness \/ VerifySegment
             \/ VerifyCompare \/ SeedSnapshot \/ SeedReplace \/ Report
    <3>1. WatchTypes'
      BY <2>3, RoundTypes
    <3>2. LogTypes'
      BY <2>3 DEF LogTypes, logVars, writerVars, VerifyMain, VerifyBegin, VerifyMarker, VerifyBak,
         VerifyWitness, VerifySegment, VerifyCompare, SeedSnapshot, SeedReplace, Report
    <3> QED BY <2>0, <3>1, <3>2
  <2>4. CASE UNCHANGED vars
    BY <2>0, <2>4 DEF vars, LogTypes, WatchTypes, logVars, writerVars
  <2>5. CASE KeyStep
    BY <1>1, <2>5
  <2> QED BY <2>0, <2>1, <2>2, <2>3, <2>4, <2>5 DEF Next
<1>3. KeyStep \/ UNCHANGED keyVars
  BY DEF Next, vars, Writer, AppendBegin, RotateUnlink, RotateRename, RotateFails, AppendLine,
         AppendTorn, WriteMarker, WriteWitness, SideFileFails, Crash, Damage, VerifyMain,
         VerifyBegin, VerifyMarker, VerifyBak, VerifyWitness, VerifySegment, VerifyCompare,
         SeedSnapshot, SeedReplace, Report
<1> QED BY <1>1, <1>2, <1>3

-----------------------------------------------------------------------------
(* verify_chain                                                            *)

Fresh == [started |-> FALSE, prev |-> 0, ok |-> TRUE]

\* g is what verify_chain_files knows after each of the first m lines of f.
IsScan(k, f, g, m) ==
    g = [n \in 0..m |-> IF n = 0 THEN Fresh ELSE CheckLine(k, g[n - 1], f[n])]

(* The loop over the lines of f defines its state after each of them.      *)
LEMMA ScanExists ==
  ASSUME NEW k, NEW f, Len(f) \in Nat
  PROVE  \E g : IsScan(k, f, g, Len(f))
<1> DEFINE Stuck == {m \in Nat : ~ \E g : IsScan(k, f, g, m)}
<1> SUFFICES ASSUME Stuck # {} PROVE FALSE
  OBVIOUS
<1>1. PICK m \in Stuck : \A n \in Stuck : m <= n
  <2>1. Stuck \in SUBSET Nat
    OBVIOUS
  <2> HIDE DEF Stuck
  <2> QED BY <2>1, LeastNat
<1>2. m # 0
  <2>1. IsScan(k, f, [n \in 0..0 |-> Fresh], 0)
    BY DEF IsScan
  <2> QED BY <2>1
<1>3. PICK g : IsScan(k, f, g, m - 1)
  <2>1. m - 1 \in Nat /\ m - 1 \notin Stuck
    BY <1>1, <1>2
  <2> QED BY <2>1
<1> DEFINE h == [n \in 0..m |-> IF n = m THEN CheckLine(k, g[m - 1], f[m]) ELSE g[n]]
<1>4. ASSUME NEW n \in 0..m
      PROVE  h[n] = IF n = 0 THEN Fresh ELSE CheckLine(k, h[n - 1], f[n])
  <2>1. CASE n = m
    BY <1>2, <2>1
  <2>2. CASE n # m
    <3>1. n \in 0..(m - 1)
      BY <1>1, <2>2
    <3>2. h[n] = g[n]
      BY <2>2
    <3>3. n # 0 => h[n - 1] = g[n - 1]
      BY <3>1
    <3>4. g[n] = IF n = 0 THEN Fresh ELSE CheckLine(k, g[n - 1], f[n])
      BY <1>3, <3>1 DEF IsScan
    <3> QED BY <3>2, <3>3, <3>4
  <2> QED BY <2>1, <2>2
<1>5. IsScan(k, f, h, m)
  <2> DEFINE w == [n \in 0..m |-> IF n = 0 THEN Fresh ELSE CheckLine(k, h[n - 1], f[n])]
  <2>1. \A n \in 0..m : h[n] = w[n]
    BY <1>4
  <2>2. h = w
    BY <2>1
  <2> QED BY <2>2 DEF IsScan
<1> QED BY <1>5

LEMMA ScannedIs ==
  ASSUME NEW k, NEW f \in Seq(Lines)
  PROVE  /\ Scanned(k, f)[0] = Fresh
         /\ \A n \in 1..Len(f) : Scanned(k, f)[n] = CheckLine(k, Scanned(k, f)[n - 1], f[n])
<1>1. PICK g : IsScan(k, f, g, Len(f))
  <2>1. Len(f) \in Nat
    OBVIOUS
  <2> QED BY <2>1, ScanExists
<1>2. Scanned(k, f)
        = CHOOSE h : h = [n \in 0..Len(f) |->
                            IF n = 0 THEN Fresh ELSE CheckLine(k, h[n - 1], f[n])]
  BY DEF Scanned, Fresh
<1> DEFINE s == Scanned(k, f)
<1>3. s = [n \in 0..Len(f) |-> IF n = 0 THEN Fresh ELSE CheckLine(k, s[n - 1], f[n])]
  BY <1>1, <1>2, Zenon DEF IsScan
<1> HIDE DEF s
<1>4. s[0] = Fresh /\ \A n \in 1..Len(f) : s[n] = CheckLine(k, s[n - 1], f[n])
  <2>1. 0 \in 0..Len(f)
    OBVIOUS
  <2>2. ASSUME NEW n \in 1..Len(f) PROVE s[n] = CheckLine(k, s[n - 1], f[n])
    <3>1. n \in 0..Len(f) /\ n # 0
      OBVIOUS
    <3> QED BY <1>3, <3>1
  <2> QED BY <1>3, <2>1, <2>2
<1> QED BY <1>4 DEF s

\* What verify_chain is to say of the first n lines of f.
Hmacs(f, n) == {i \in 1..n : HasHmac(f[i])}
Next1(f, n, i, j) == i < j /\ \A m \in Hmacs(f, n) : ~ (i < m /\ m < j)
Sound(k, f, n) ==
    /\ \A i \in 1..n : ~ Malformed(f[i])
    /\ \A i \in Hmacs(f, n) : \A j \in 1..n : i <= j => j \in Hmacs(f, n)
    /\ \A i \in Hmacs(f, n) : Valid(k, f[i])
    /\ \A i, j \in Hmacs(f, n) : Next1(f, n, i, j) => f[j].prev = f[i].id

\* What it knows is what it is to say.
Knows(k, f, n, a) ==
    /\ a \in [started : BOOLEAN, prev : 0..MaxAppends, ok : BOOLEAN]
    /\ a.started <=> Hmacs(f, n) # {}
    /\ Sound(k, f, n) /\ a.started => n \in Hmacs(f, n) /\ a.prev = f[n].id
    /\ a.ok <=> Sound(k, f, n)

(* In a sound prefix the lines with an hmac are the last ones, so only     *)
(* neighbours have to be linked.                                           *)
LEMMA SoundStep ==
  ASSUME NEW k, NEW f \in Seq(Lines), NEW n \in 1..Len(f)
  PROVE  Sound(k, f, n) <=>
           /\ Sound(k, f, n - 1)
           /\ ~ Malformed(f[n])
           /\ Hmacs(f, n - 1) # {} => HasHmac(f[n])
           /\ HasHmac(f[n]) => Valid(k, f[n])
           /\ HasHmac(f[n]) /\ Hmacs(f, n - 1) # {} => f[n].prev = f[n - 1].id
<1> DEFINE H == Hmacs(f, n)
           G == Hmacs(f, n - 1)
<1>1. G = {i \in 1..(n - 1) : HasHmac(f[i])} /\ H = {i \in 1..n : HasHmac(f[i])}
  BY DEF Hmacs
<1>2. G \subseteq H /\ \A i \in H : i # n => i \in G
  BY <1>1
<1>3. \A i, j \in G : Next1(f, n, i, j) <=> Next1(f, n - 1, i, j)
  <2>1. \A i, j, m \in 1..n : i < m /\ m < j => m # n
    OBVIOUS
  <2> QED BY <1>1, <1>2, <2>1 DEF Next1
<1>4. ASSUME Sound(k, f, n), G # {}
      PROVE  n \in H /\ (n - 1) \in H /\ f[n].prev = f[n - 1].id
  <2>1. PICK i \in G : TRUE
    BY <1>4
  <2>2. n \in H /\ (n - 1) \in H
    BY <1>1, <1>4, <2>1 DEF Sound
  <2>3. Next1(f, n, n - 1, n)
    BY <1>1 DEF Next1
  <2> QED BY <1>4, <2>2, <2>3 DEF Sound
<1>5. ASSUME Sound(k, f, n) PROVE Sound(k, f, n - 1)
  <2>1. \A i \in 1..(n - 1) : ~ Malformed(f[i])
    BY <1>5 DEF Sound
  <2>2. \A i \in G : \A j \in 1..(n - 1) : i <= j => j \in G
    BY <1>1, <1>5 DEF Sound
  <2>3. \A i \in G : Valid(k, f[i])
    BY <1>2, <1>5 DEF Sound
  <2>4. \A i, j \in G : Next1(f, n - 1, i, j) => f[j].prev = f[i].id
    BY <1>2, <1>3, <1>5 DEF Sound
  <2> QED BY <2>1, <2>2, <2>3, <2>4 DEF Sound
<1>6. ASSUME Sound(k, f, n)
      PROVE  /\ ~ Malformed(f[n]) /\ (HasHmac(f[n]) => Valid(k, f[n]))
             /\ G # {} => HasHmac(f[n])
  <2>1. n \in 1..n
    OBVIOUS
  <2> QED BY <1>1, <1>4, <1>6, <2>1 DEF Sound
<1>7. ASSUME Sound(k, f, n - 1), ~ Malformed(f[n]), G # {} => HasHmac(f[n]),
             HasHmac(f[n]) => Valid(k, f[n]),
             HasHmac(f[n]) /\ G # {} => f[n].prev = f[n - 1].id
      PROVE  Sound(k, f, n)
  <2>1. \A i \in 1..n : ~ Malformed(f[i])
    BY <1>7 DEF Sound
  <2>2. ASSUME NEW i \in H, NEW j \in 1..n, i <= j PROVE j \in H
    <3>1. CASE j = n
      BY <1>1, <1>2, <1>7, <2>2, <3>1
    <3>2. CASE j # n
      BY <1>1, <1>7, <2>2, <3>2 DEF Sound
    <3> QED BY <3>1, <3>2
  <2>3. \A i \in H : Valid(k, f[i])
    BY <1>1, <1>2, <1>7 DEF Sound
  <2>4. ASSUME NEW i \in H, NEW j \in H, Next1(f, n, i, j) PROVE f[j].prev = f[i].id
    <3>1. i \in G
      BY <1>1, <2>4 DEF Next1
    <3>2. CASE j = n
      <4>1. (n - 1) \in G
        BY <1>1, <1>7, <3>1 DEF Sound
      <4>2. i = n - 1
        BY <1>1, <1>2, <2>4, <3>1, <3>2, <4>1 DEF Next1
      <4> QED BY <1>1, <1>7, <3>1, <3>2, <4>2
    <3>3. CASE j # n
      BY <1>2, <1>3, <1>7, <2>4, <3>1, <3>3 DEF Sound
    <3> QED BY <3>2, <3>3
  <2> QED BY <2>1, <2>2, <2>3, <2>4 DEF Sound
<1> QED BY <1>1, <1>4, <1>5, <1>6, <1>7

(* One line of verify_chain_files.                                         *)
LEMMA KnowsStep ==
  ASSUME NEW k, NEW f \in Seq(Lines), NEW n \in 1..Len(f), NEW a, Knows(k, f, n - 1, a)
  PROVE  Knows(k, f, n, CheckLine(k, a, f[n]))
<1> DEFINE b == CheckLine(k, a, f[n])
           r == f[n]
<1>1. /\ Hmacs(f, n) # {} <=> Hmacs(f, n - 1) # {} \/ HasHmac(r)
      /\ n \in Hmacs(f, n) <=> HasHmac(r)
      /\ ~ (HasHmac(r) /\ Malformed(r))
  BY DEF Hmacs, HasHmac, Malformed
<1>2. Sound(k, f, n) <=>
           /\ Sound(k, f, n - 1)
           /\ ~ Malformed(r)
           /\ Hmacs(f, n - 1) # {} => HasHmac(r)
           /\ HasHmac(r) => Valid(k, r)
           /\ HasHmac(r) /\ Hmacs(f, n - 1) # {} => r.prev = f[n - 1].id
  BY SoundStep
<1> HIDE DEF r
<1>3. CASE Malformed(r)
  <2>1. b = [a EXCEPT !.ok = FALSE]
    BY <1>3 DEF CheckLine, r
  <2>2. b.ok = FALSE /\ b.started = a.started /\ ~ Sound(k, f, n)
    BY <1>2, <1>3, <2>1 DEF Knows
  <2>3. b \in [started : BOOLEAN, prev : 0..MaxAppends, ok : BOOLEAN]
    BY <2>1 DEF Knows
  <2> HIDE DEF b
  <2>4. Knows(k, f, n, b)
    BY <1>1, <1>3, <2>2, <2>3 DEF Knows
  <2> QED BY <2>4 DEF b, r
<1>4. CASE ~ Malformed(r) /\ ~ HasHmac(r)
  <2>1. b = [a EXCEPT !.ok = @ /\ ~ a.started]
    BY <1>4 DEF CheckLine, r
  <2>2. b.ok = (a.ok /\ ~ a.started) /\ b.started = a.started
    BY <2>1 DEF Knows
  <2>3. b \in [started : BOOLEAN, prev : 0..MaxAppends, ok : BOOLEAN]
    BY <2>1 DEF Knows
  <2> HIDE DEF b
  <2>4. Knows(k, f, n, b)
    BY <1>1, <1>2, <1>4, <2>2, <2>3 DEF Knows
  <2> QED BY <2>4 DEF b, r
<1>5. CASE HasHmac(r)
  <2>1. b = [started |-> TRUE, prev |-> r.id,
             ok |-> a.ok /\ Valid(k, r) /\ (a.started => r.prev = a.prev)]
    BY <1>1, <1>5 DEF CheckLine, r
  <2>2. b.ok = (a.ok /\ Valid(k, r) /\ (a.started => r.prev = a.prev))
        /\ b.started = TRUE /\ b.prev = r.id
    BY <2>1
  <2>3. b \in [started : BOOLEAN, prev : 0..MaxAppends, ok : BOOLEAN]
    <3>1. f[n] \in Lines
      OBVIOUS
    <3> QED BY <2>1, <3>1 DEF r, Lines
  <2> HIDE DEF b
  <2>4. b.ok <=> Sound(k, f, n)
    BY <1>1, <1>2, <1>5, <2>2 DEF Knows
  <2>5. Knows(k, f, n, b)
    BY <1>1, <1>5, <2>2, <2>3, <2>4 DEF Knows, r
  <2> QED BY <2>5 DEF b, r
<1> QED BY <1>3, <1>4, <1>5

(* The state after each line.                                              *)
LEMMA KnowsAll ==
  ASSUME NEW k, NEW f \in Seq(Lines), NEW n \in 0..Len(f)
  PROVE  Knows(k, f, n, Scanned(k, f)[n])
<1> DEFINE Wrong == {m \in 0..Len(f) : ~ Knows(k, f, m, Scanned(k, f)[m])}
<1> SUFFICES ASSUME Wrong # {} PROVE FALSE
  OBVIOUS
<1>1. PICK m \in Wrong : \A i \in Wrong : m <= i
  <2>1. Wrong \in SUBSET Nat
    OBVIOUS
  <2> HIDE DEF Wrong
  <2> QED BY <2>1, LeastNat
<1>2. Knows(k, f, 0, Fresh)
  BY AuditBoundsAssumption DEF Knows, Fresh, Hmacs, Sound
<1>3. m \in 1..Len(f)
  BY <1>2, ScannedIs
<1>4. Knows(k, f, m - 1, Scanned(k, f)[m - 1])
  <2>1. m - 1 \in 0..Len(f) /\ m - 1 \notin Wrong
    BY <1>1, <1>3
  <2> QED BY <2>1
<1>5. Knows(k, f, m, CheckLine(k, Scanned(k, f)[m - 1], f[m]))
  BY <1>3, <1>4, KnowsStep
<1>6. Scanned(k, f)[m] = CheckLine(k, Scanned(k, f)[m - 1], f[m])
  BY <1>3, ScannedIs
<1> QED BY <1>5, <1>6

(* verify_chain on the lines f decides whether they are sound, and         *)
(* anchored if and only if one of them has an hmac.                        *)
LEMMA VerdictIs ==
  ASSUME NEW k, NEW start, NEW f \in Seq(Lines)
  PROVE  Verdict(k, start, f) <=> /\ Sound(k, f, Len(f))
                                  /\ start # 0 <=> Hmacs(f, Len(f)) # {}
<1>1. Knows(k, f, Len(f), Scanned(k, f)[Len(f)])
  <2>1. Len(f) \in 0..Len(f)
    OBVIOUS
  <2> QED BY <2>1, KnowsAll
<1> QED BY <1>1 DEF Verdict, Knows

(* VerdictFaithful holds of any log.                                       *)
LEMMA FaithfulHolds == LogTypes => VerdictFaithful
<1> SUFFICES ASSUME LogTypes, NEW k PROVE Verdict(k, marker, Log) <=> Intact(k)
  BY DEF VerdictFaithful
<1>1. Log \in Seq(Lines) /\ DOMAIN Log = 1..Len(Log)
  BY DEF LogTypes, Log
<1>2. Chained = Hmacs(Log, Len(Log))
  BY <1>1 DEF Chained, Hmacs
<1>3. \A i, j : Adjacent(i, j) <=> Next1(Log, Len(Log), i, j)
  BY <1>2 DEF Adjacent, Next1
<1>4. Intact(k) <=> Sound(k, Log, Len(Log)) /\ (marker # 0 <=> Chained # {})
  BY <1>1, <1>2, <1>3, Zenon DEF Intact, Sound, Linked
<1> QED BY <1>1, <1>2, <1>4, VerdictIs

-----------------------------------------------------------------------------
(* The chain, as long as nothing tears a line or damages the files         *)

Calm == faults \cap {"torn", "damage"} = {}

(* A legacy line comes first; from then on hmacs link and grow.            *)
GoodLog(f) ==
    /\ \A i \in 1..Len(f) : f[i].kind = "chain" \/ (i = 1 /\ f[i] = Unsigned("legacy"))
    /\ \A i \in 1..Len(f) : i # Len(f) /\ f[i].kind = "chain" => f[i + 1].prev = f[i].id
    /\ \A i, j \in 1..Len(f) : i < j => f[j].id >= f[i].id + (j - i)

EndsWith(f, n) == f # <<>> /\ f[Len(f)].kind = "chain" /\ f[Len(f)].id = n

(* The writer that holds the lock appends the newest line behind the       *)
(* youngest of the log, and unlinks the backup only while the log is long. *)
WriterInv(p) ==
    /\ wpc[p] # "idle" => lock = p /\ line[p].kind = "chain" /\ line[p].id = count
    /\ wpc[p] \in {"unlink", "rename", "write"} =>
         /\ \A i \in 1..Len(Log) : Log[i].id < count
         /\ \A n \in Nat : EndsWith(Log, n) => line[p].prev = n
    /\ wpc[p] = "unlink" => Len(main) >= MaxLines
    /\ wpc[p] = "rename" => bak = <<>> /\ Len(main) >= MaxLines
    /\ wpc[p] \in {"marker", "witness"} => EndsWith(Log, count)

ChainInv ==
    Calm =>
        /\ GoodLog(Log)
        /\ \A i \in 1..Len(Log) : Log[i].id <= count
        /\ \A p \in Procs : WriterInv(p)
        /\ acked \subseteq 1..count
        /\ \A n \in acked : count <= n + MaxLines =>
             \E i \in 1..Len(Log) : Log[i].kind = "chain" /\ Log[i].id = n

(* Reading a log that is a backup and a main file.                         *)
LEMMA Concat ==
  ASSUME NEW b \in Seq(Lines), NEW m \in Seq(Lines)
  PROVE  /\ b \o m \in Seq(Lines) /\ Len(b \o m) = Len(b) + Len(m)
         /\ \A i \in 1..Len(b) : i \in 1..Len(b \o m) /\ (b \o m)[i] = b[i]
         /\ \A i \in 1..Len(m) : Len(b) + i \in 1..Len(b \o m) /\ (b \o m)[Len(b) + i] = m[i]
  OBVIOUS

(* Its two files are good logs themselves.                                 *)
LEMMA GoodParts ==
  ASSUME NEW b \in Seq(Lines), NEW m \in Seq(Lines), GoodLog(b \o m)
  PROVE  GoodLog(b) /\ GoodLog(m)
<1> DEFINE f == b \o m
<1>0. /\ Len(b) \in Nat /\ Len(m) \in Nat /\ Len(f) = Len(b) + Len(m)
      /\ \A i \in 1..Len(b) : i \in 1..Len(f) /\ f[i] = b[i]
      /\ \A i \in 1..Len(m) : Len(b) + i \in 1..Len(f) /\ f[Len(b) + i] = m[i]
  BY Concat
<1>1. GoodLog(f)
  OBVIOUS
<1> HIDE DEF f
<1>2. GoodLog(b)
  <2>1. \A i \in 1..Len(b) : b[i].kind = "chain" \/ (i = 1 /\ b[i] = Unsigned("legacy"))
    BY <1>0, <1>1 DEF GoodLog
  <2>2. ASSUME NEW i \in 1..Len(b), i # Len(b), b[i].kind = "chain" PROVE b[i + 1].prev = b[i].id
    <3>1. i + 1 \in 1..Len(b) /\ i # Len(f)
      BY <1>0, <2>2
    <3> QED BY <1>0, <1>1, <2>2, <3>1 DEF GoodLog
  <2>3. \A i, j \in 1..Len(b) : i < j => b[j].id >= b[i].id + (j - i)
    BY <1>0, <1>1 DEF GoodLog
  <2> QED BY <2>1, <2>2, <2>3 DEF GoodLog
<1>3. GoodLog(m)
  <2>1. ASSUME NEW i \in 1..Len(m)
        PROVE  m[i].kind = "chain" \/ (i = 1 /\ m[i] = Unsigned("legacy"))
    <3>1. Len(b) + i = 1 => i = 1
      BY <1>0
    <3> QED BY <1>0, <1>1, <3>1 DEF GoodLog
  <2>2. ASSUME NEW i \in 1..Len(m), i # Len(m), m[i].kind = "chain" PROVE m[i + 1].prev = m[i].id
    <3>1. i + 1 \in 1..Len(m) /\ Len(b) + i # Len(f) /\ Len(b) + (i + 1) = (Len(b) + i) + 1
      BY <1>0, <2>2
    <3>2. f[Len(b) + i] = m[i] /\ f[(Len(b) + i) + 1] = m[i + 1] /\ Len(b) + i \in 1..Len(f)
      BY <1>0, <3>1
    <3> QED BY <1>1, <2>2, <3>1, <3>2 DEF GoodLog
  <2>3. ASSUME NEW i \in 1..Len(m), NEW j \in 1..Len(m), i < j
        PROVE  m[j].id >= m[i].id + (j - i)
    <3>1. Len(b) + i < Len(b) + j /\ (Len(b) + j) - (Len(b) + i) = j - i
      BY <1>0, <2>3
    <3>2. /\ f[Len(b) + i] = m[i] /\ Len(b) + i \in 1..Len(f)
          /\ f[Len(b) + j] = m[j] /\ Len(b) + j \in 1..Len(f)
      BY <1>0
    <3>3. f[Len(b) + j].id >= f[Len(b) + i].id + ((Len(b) + j) - (Len(b) + i))
      BY <1>1, <3>1, <3>2 DEF GoodLog
    <3> QED BY <3>1, <3>2, <3>3
  <2> QED BY <2>1, <2>2, <2>3 DEF GoodLog
<1> QED BY <1>2, <1>3

(* A younger line that links to the last one extends a good log.           *)
LEMMA GoodAppend ==
  ASSUME NEW f \in Seq(Lines), NEW r \in Lines, GoodLog(f), r.kind = "chain", r.id \in Nat \ {0},
         \A i \in 1..Len(f) : f[i].id < r.id,
         \A n \in Nat : EndsWith(f, n) => r.prev = n
  PROVE  /\ GoodLog(Append(f, r)) /\ EndsWith(Append(f, r), r.id)
         /\ \A i \in 1..Len(Append(f, r)) : Append(f, r)[i].id <= r.id
         /\ \A i \in 1..Len(f) : i \in 1..Len(Append(f, r)) /\ Append(f, r)[i] = f[i]
<1> DEFINE g == Append(f, r)
           L == Len(f)
<1>0. /\ L \in Nat /\ Len(g) = L + 1 /\ g[L + 1] = r /\ g # <<>>
      /\ \A i \in 1..L : i \in 1..Len(g) /\ g[i] = f[i]
      /\ \A i \in 1..Len(g) : i \in 1..L \/ i = L + 1
      /\ \A i \in 1..L : f[i] \in Lines /\ f[i].id \in Nat
  <2>1. \A i \in 1..L : f[i] \in Lines
    OBVIOUS
  <2>2. \A i \in 1..L : f[i].id \in Nat
    BY <2>1, AuditBoundsAssumption DEF Lines
  <2> QED BY <2>1, <2>2
<1> HIDE DEF g
<1>1. EndsWith(g, r.id)
  BY <1>0 DEF EndsWith
<1>2. \A i \in 1..Len(g) : g[i].id <= r.id
  BY <1>0
<1>3. \A i \in 1..Len(g) : g[i].kind = "chain" \/ (i = 1 /\ g[i] = Unsigned("legacy"))
  BY <1>0 DEF GoodLog
<1>4. ASSUME NEW i \in 1..Len(g), i # Len(g), g[i].kind = "chain" PROVE g[i + 1].prev = g[i].id
  <2>1. i \in 1..L /\ g[i] = f[i]
    BY <1>0, <1>4
  <2>2. CASE i = L
    <3>1. EndsWith(f, f[i].id)
      BY <1>0, <1>4, <2>1, <2>2 DEF EndsWith
    <3> QED BY <1>0, <2>1, <2>2, <3>1
  <2>3. CASE i # L
    <3>1. i + 1 \in 1..L
      BY <2>1, <2>3
    <3> QED BY <1>0, <1>4, <2>1, <2>3, <3>1 DEF GoodLog
  <2> QED BY <2>2, <2>3
<1>5. ASSUME NEW i \in 1..Len(g), NEW j \in 1..Len(g), i < j
      PROVE  g[j].id >= g[i].id + (j - i)
  <2>1. i \in 1..L /\ g[i] = f[i]
    BY <1>0, <1>5
  <2>2. CASE j \in 1..L
    BY <1>0, <1>5, <2>1, <2>2 DEF GoodLog
  <2>3. CASE j = L + 1 /\ i = L
    BY <1>0, <2>1, <2>3
  <2>4. CASE j = L + 1 /\ i # L
    <3>1. L \in 1..L /\ i < L
      BY <2>1, <2>4
    <3>2. f[L].id >= f[i].id + (L - i)
      BY <2>1, <3>1 DEF GoodLog
    <3>3. f[L].id < r.id /\ f[L].id \in Nat /\ f[i].id \in Nat /\ r.id \in Nat
      BY <1>0, <2>1, <3>1
    <3>4. g[j] = r
      BY <1>0, <2>4
    <3> QED BY <1>0, <2>1, <2>4, <3>2, <3>3, <3>4
  <2> QED BY <1>0, <2>2, <2>3, <2>4
<1>6. GoodLog(g)
  BY <1>3, <1>4, <1>5 DEF GoodLog
<1> QED BY <1>0, <1>1, <1>2, <1>6 DEF g

(* _current_prev_hash reads the hash of the last line of the log.          *)
LEMMA PrevHashIs ==
  ASSUME LogTypes, NEW n \in Nat, EndsWith(Log, n)
  PROVE  PrevHash = n
<1>1. Len(Log) = Len(bak) + Len(main) /\ Len(bak) \in Nat /\ Len(main) \in Nat
  BY DEF LogTypes, Log
<1>2. CASE main # <<>>
  <2>1. Log[Len(Log)] = main[Len(main)]
    <3>1. Len(main) \in 1..Len(main)
      BY <1>2 DEF LogTypes
    <3> QED BY <1>1, <3>1, Concat DEF LogTypes, Log
  <2> QED BY <1>2, <2>1 DEF EndsWith, PrevHash, HasHmac, Last
<1>3. CASE main = <<>>
  <2>1. Log = bak
    BY <1>3 DEF Log, LogTypes
  <2> QED BY <1>3, <2>1 DEF EndsWith, PrevHash, HasHmac, Last
<1> QED BY <1>2, <1>3

(* A step that leaves the files and the writers alone.                     *)
LEMMA ChainFrame ==
  ASSUME ChainInv, UNCHANGED <<main, bak, writerVars>>, faults \subseteq faults'
  PROVE  ChainInv'
BY DEF ChainInv, Calm, Log, WriterInv, writerVars

(* A writer that leaves append, finished or killed.                        *)
LEMMA ChainLeave ==
  ASSUME LogTypes, ChainInv, NEW p \in Procs, lock = p, Leave(p), Calm,
         UNCHANGED <<main, bak, count>>,
         \/ UNCHANGED acked
         \/ EndsWith(Log, count) /\ acked' = acked \cup {count} /\ count # 0
  PROVE  ChainInv'
<1> USE DEF Leave, At
<1>1. Log' = Log
  BY DEF Log
<1>2. \A q \in Procs : wpc'[q] = "idle"
  BY AuditBoundsAssumption DEF LogTypes, Places, ChainInv, WriterInv
<1>3. EndsWith(Log, count) =>
        \E i \in 1..Len(Log) : Log[i].kind = "chain" /\ Log[i].id = count
  <2>1. Log # <<>> => Len(Log) \in 1..Len(Log)
    BY DEF Log, LogTypes
  <2> QED BY <2>1 DEF EndsWith
<1>4. \A n \in acked' : (n = count /\ EndsWith(Log, count)) \/ n \in acked
  OBVIOUS
<1>5. \A n \in acked' : count <= n + MaxLines =>
             \E i \in 1..Len(Log) : Log[i].kind = "chain" /\ Log[i].id = n
  BY <1>3, <1>4 DEF ChainInv
<1>6. acked' \subseteq 1..count
  <2>1. count # 0 => count \in 1..count
    BY AuditBoundsAssumption DEF LogTypes
  <2> QED BY <2>1 DEF ChainInv
<1> QED
  BY <1>1, <1>2, <1>5, <1>6 DEF ChainInv, WriterInv

LEMMA InitChain == Init => ChainInv
<1> SUFFICES ASSUME Init PROVE ChainInv
  OBVIOUS
<1>1. Log \in {<<>>, <<Unsigned("legacy")>>}
  BY DEF Init, Log
<1>2. ASSUME NEW f \in {<<>>, <<Unsigned("legacy")>>}
      PROVE  GoodLog(f) /\ \A i \in 1..Len(f) : f[i].id <= 0
  <2>1. \A i \in 1..Len(f) : i = 1 /\ f[i] = Unsigned("legacy")
    <3> DEFINE r == Unsigned("legacy")
    <3>1. \A i \in 1..Len(<<r>>) : i = 1 /\ <<r>>[i] = r
      OBVIOUS
    <3>2. \A i \in 1..Len(<<>>) : FALSE
      OBVIOUS
    <3> QED BY <1>2, <3>1, <3>2
  <2>2. Unsigned("legacy").id = 0 /\ Unsigned("legacy").kind # "chain"
    BY DEF Unsigned
  <2> QED BY <2>1, <2>2 DEF GoodLog
<1>3. \A p \in Procs : wpc[p] = "idle"
  BY DEF Init
<1> QED BY <1>1, <1>2, <1>3 DEF ChainInv, Init, WriterInv

(* The steps of append and of what happens to it.                          *)
LEMMA ChainWriter ==
  ASSUME LogTypes, KeyTypeOK, ChainInv, NEW p \in Procs, Writer(p), Calm'
  PROVE  ChainInv'
<1> USE AuditBoundsAssumption DEF At
<1>0. /\ Len(Log) = Len(bak) + Len(main) /\ Len(bak) \in Nat /\ Len(main) \in Nat
      /\ Log \in Seq(Lines) /\ count \in Nat /\ MaxLines \in Nat
      /\ \A i \in 1..Len(Log) : Log[i].id \in Nat
  <2>1. Log \in Seq(Lines)
    BY DEF LogTypes, Log
  <2>2. \A i \in 1..Len(Log) : Log[i] \in Lines
    BY <2>1
  <2>3. \A i \in 1..Len(Log) : Log[i].id \in Nat
    BY <2>2 DEF Lines
  <2> QED BY <2>1, <2>3 DEF LogTypes, Log
<1>00. Calm
  BY DEF Calm, Writer, AppendBegin, RotateUnlink, RotateRename, RotateFails, AppendLine,
         AppendTorn, WriteMarker, WriteWitness, SideFileFails, Crash, Fault
<1>1. ASSUME AppendBegin(p) PROVE ChainInv'
  <2>1. Log' = Log /\ main' = main /\ bak' = bak /\ count' = count + 1 /\ acked' = acked
    BY <1>1 DEF AppendBegin, logVars, Log
  <2>2. \A q \in Procs : wpc[q] = "idle"
    BY <1>00, <1>1 DEF AppendBegin, ChainInv, WriterInv
  <2>3. lock' = p /\ line'[p].kind = "chain" /\ line'[p].id = count' /\ line'[p].prev = PrevHash
    BY <1>1 DEF AppendBegin, LogTypes
  <2>4. \A q \in Procs \ {p} : wpc'[q] = "idle"
    BY <1>1, <2>2 DEF AppendBegin, LogTypes
  <2>5. wpc'[p] = IF Len(main) >= MaxLines THEN "unlink" ELSE "write"
    BY <1>1 DEF AppendBegin, LogTypes
  <2>6. \A i \in 1..Len(Log) : Log[i].id < count + 1
    BY <1>0, <1>00 DEF ChainInv
  <2>7. \A n \in Nat : EndsWith(Log, n) => PrevHash = n
    BY PrevHashIs
  <2>8. WriterInv(p)'
    BY <2>1, <2>3, <2>5, <2>6, <2>7 DEF WriterInv
  <2>9. \A q \in Procs : WriterInv(q)'
    BY <2>4, <2>8 DEF WriterInv
  <2>10. acked \subseteq 1..(count + 1)
    BY <1>0, <1>00 DEF ChainInv
  <2>11. \A n \in acked : count + 1 <= n + MaxLines => count <= n + MaxLines
    BY <1>0 DEF LogTypes
  <2>12. \A i \in 1..Len(Log) : Log[i].id <= count + 1
    BY <1>0, <2>6
  <2> QED BY <1>00, <2>1, <2>9, <2>10, <2>11, <2>12 DEF ChainInv
<1>2. ASSUME RotateUnlink(p) PROVE ChainInv'
  <2>1. /\ Log' = main /\ main' = main /\ bak' = <<>>
        /\ UNCHANGED <<lock, line, count, acked, faults>>
        /\ wpc' = [wpc EXCEPT ![p] = "rename"] /\ wpc[p] = "unlink"
    BY <1>2 DEF RotateUnlink, Log, LogTypes
  <2>2. WriterInv(p) /\ GoodLog(Log)
    BY <1>00 DEF ChainInv
  <2>3. GoodLog(main) /\ main # <<>> /\ Len(main) >= MaxLines
    BY <2>1, <2>2, GoodParts DEF WriterInv, LogTypes, Log
  <2>4. \A i \in 1..Len(main) : Len(bak) + i \in 1..Len(Log) /\ Log[Len(bak) + i] = main[i]
    BY Concat DEF LogTypes, Log
  <2>5. \A i \in 1..Len(main) : main[i].id < count
    BY <2>1, <2>2, <2>4 DEF WriterInv
  <2>6. main[Len(main)] = Log[Len(Log)] /\ Log # <<>>
    BY <1>0, <2>3, <2>4
  <2>7. \A n \in Nat : EndsWith(main, n) => EndsWith(Log, n)
    BY <2>6 DEF EndsWith
  <2>8. WriterInv(p)'
    BY <2>1, <2>2, <2>3, <2>5, <2>7 DEF WriterInv, LogTypes
  <2>9. ASSUME NEW q \in Procs, q # p PROVE WriterInv(q)'
    <3>1. wpc[q] = "idle"
      BY <1>00, <2>1, <2>2, <2>9 DEF ChainInv, WriterInv
    <3>2. wpc'[q] = "idle"
      BY <2>1, <2>9, <3>1 DEF LogTypes
    <3> QED BY <3>2 DEF WriterInv
  <2>10. ASSUME NEW n \in acked, count <= n + MaxLines
         PROVE  \E i \in 1..Len(main) : main[i].kind = "chain" /\ main[i].id = n
    <3>1. PICK i \in 1..Len(Log) : Log[i].kind = "chain" /\ Log[i].id = n
      BY <1>00, <2>10 DEF ChainInv
    <3>2. ~ (i <= Len(bak))
      <4> SUFFICES ASSUME i <= Len(bak) PROVE FALSE
        OBVIOUS
      <4> DEFINE L == Len(Log)
      <4>1. i < L /\ L \in 1..L /\ L - i >= MaxLines
        BY <1>0, <2>3
      <4>2. Log[L].id >= Log[i].id + (L - i)
        BY <2>2, <4>1 DEF GoodLog
      <4>3. Log[L].id < count
        BY <2>1, <2>2, <4>1 DEF WriterInv
      <4>4. n \in Nat /\ Log[L].id \in Nat
        BY <1>0, <3>1, <4>1
      <4> HIDE DEF L
      <4> QED BY <1>0, <2>10, <3>1, <4>1, <4>2, <4>3, <4>4
    <3>3. i - Len(bak) \in 1..Len(main) /\ Len(bak) + (i - Len(bak)) = i
      BY <1>0, <3>2
    <3>4. main[i - Len(bak)] = Log[i]
      BY <2>4, <3>3
    <3> QED BY <3>1, <3>3, <3>4
  <2>11. \A i \in 1..Len(main) : main[i].id <= count
    <3>1. \A i \in 1..Len(main) : main[i].id \in Nat
      BY <1>0, <2>4
    <3> QED BY <1>0, <2>5, <3>1
  <2> QED
    BY <1>00, <2>1, <2>3, <2>8, <2>9, <2>10, <2>11 DEF ChainInv
<1>3. ASSUME RotateRename(p) PROVE ChainInv'
  <2>1. /\ bak = <<>> /\ wpc[p] = "rename"
    BY <1>00, <1>3 DEF ChainInv, WriterInv, RotateRename
  <2>2. Log' = Log /\ UNCHANGED <<lock, line, count, acked, faults>>
    BY <1>3, <2>1 DEF RotateRename, Log, LogTypes
  <2>3. wpc' = [wpc EXCEPT ![p] = "write"]
    BY <1>3 DEF RotateRename
  <2>4. WriterInv(p)'
    BY <1>00, <2>1, <2>2, <2>3 DEF ChainInv, WriterInv, LogTypes
  <2>5. ASSUME NEW q \in Procs, q # p PROVE WriterInv(q)'
    <3>1. wpc[q] = "idle"
      BY <1>00, <2>1, <2>5 DEF ChainInv, WriterInv
    <3>2. wpc'[q] = "idle"
      BY <2>3, <2>5, <3>1 DEF LogTypes
    <3> QED BY <3>2 DEF WriterInv
  <2> QED BY <1>00, <2>2, <2>4, <2>5 DEF ChainInv
<1>4. ASSUME RotateFails(p) PROVE ChainInv'
  <2>1. wpc[p] \in {"unlink", "rename"} /\ wpc' = [wpc EXCEPT ![p] = "write"]
    BY <1>4 DEF RotateFails
  <2>2. Log' = Log /\ UNCHANGED <<main, bak, lock, line, count, acked>>
    BY <1>4 DEF RotateFails, Log, logVars
  <2>4. WriterInv(p)'
    BY <1>00, <2>1, <2>2 DEF ChainInv, WriterInv, LogTypes
  <2>5. ASSUME NEW q \in Procs, q # p PROVE WriterInv(q)'
    <3>1. wpc[q] = "idle"
      BY <1>00, <2>1, <2>5 DEF ChainInv, WriterInv
    <3>2. wpc'[q] = "idle"
      BY <2>1, <2>5, <3>1 DEF LogTypes
    <3> QED BY <3>2 DEF WriterInv
  <2> QED BY <1>00, <2>2, <2>4, <2>5 DEF ChainInv
<1>5. ASSUME AppendLine(p) PROVE ChainInv'
  <2>1. wpc[p] = "write" /\ wpc' = [wpc EXCEPT ![p] = "marker"]
        /\ UNCHANGED <<bak, lock, line, count, acked, faults>>
    BY <1>5 DEF AppendLine
  <2>2. GoodLog(Log) /\ WriterInv(p)
    BY <1>00 DEF ChainInv
  <2>3. main # <<>> => Last(main).kind # "torn"
    <3>1. main # <<>> => Len(Log) \in 1..Len(Log) /\ Log[Len(Log)] = main[Len(main)]
      BY <1>0 DEF LogTypes, Log
    <3> QED BY <2>2, <3>1 DEF GoodLog, Last, Unsigned
  <2>4. Log' = Append(Log, line[p])
    BY <1>5, <2>1, <2>3 DEF AppendLine, Log, LogTypes
  <2>5. /\ line[p] \in Lines /\ line[p].kind = "chain" /\ line[p].id = count
        /\ count \in Nat \ {0}
        /\ \A i \in 1..Len(Log) : Log[i].id < line[p].id
        /\ \A n \in Nat : EndsWith(Log, n) => line[p].prev = n
    BY <1>0, <2>1, <2>2 DEF WriterInv, LogTypes
  <2>6. /\ GoodLog(Log') /\ EndsWith(Log', count)
        /\ \A i \in 1..Len(Log') : Log'[i].id <= count
        /\ \A i \in 1..Len(Log) : i \in 1..Len(Log') /\ Log'[i] = Log[i]
    BY <1>0, <2>2, <2>4, <2>5, GoodAppend
  <2>7. WriterInv(p)'
    BY <2>1, <2>2, <2>6 DEF WriterInv, LogTypes
  <2>8. ASSUME NEW q \in Procs, q # p PROVE WriterInv(q)'
    <3>1. wpc[q] = "idle"
      BY <1>00, <2>1, <2>8 DEF ChainInv, WriterInv
    <3>2. wpc'[q] = "idle"
      BY <2>1, <2>8, <3>1 DEF LogTypes
    <3> QED BY <3>2 DEF WriterInv
  <2>9. ASSUME NEW n \in acked', count <= n + MaxLines
        PROVE  \E i \in 1..Len(Log') : Log'[i].kind = "chain" /\ Log'[i].id = n
    BY <1>00, <2>1, <2>6, <2>9 DEF ChainInv
  <2> QED BY <1>00, <2>1, <2>6, <2>7, <2>8, <2>9 DEF ChainInv
<1>6. ~ AppendTorn(p)
  BY DEF AppendTorn, Fault, Calm
<1>7. ASSUME WriteMarker(p) PROVE ChainInv'
  <2>1. wpc[p] = "marker" /\ wpc' = [wpc EXCEPT ![p] = "witness"]
    BY <1>7 DEF WriteMarker
  <2>2. Log' = Log /\ UNCHANGED <<main, bak, lock, line, count, acked>>
    BY <1>7 DEF WriteMarker, Log
  <2>4. WriterInv(p)'
    BY <1>00, <2>1, <2>2 DEF ChainInv, WriterInv, LogTypes
  <2>5. ASSUME NEW q \in Procs, q # p PROVE WriterInv(q)'
    <3>1. wpc[q] = "idle"
      BY <1>00, <2>1, <2>5 DEF ChainInv, WriterInv
    <3>2. wpc'[q] = "idle"
      BY <2>1, <2>5, <3>1 DEF LogTypes
    <3> QED BY <3>2 DEF WriterInv
  <2> QED BY <1>00, <2>2, <2>4, <2>5 DEF ChainInv
<1>8. ASSUME WriteWitness(p) PROVE ChainInv'
  BY <1>00, <1>8, ChainLeave DEF WriteWitness, ChainInv, WriterInv, LogTypes
<1>9. ASSUME SideFileFails(p) PROVE ChainInv'
  <2>1. CASE wpc[p] = "witness"
    BY <1>00, <1>9, <2>1, ChainLeave DEF SideFileFails, logVars, ChainInv, WriterInv, LogTypes
  <2>2. CASE wpc[p] # "witness"
    <3>1. wpc[p] = "marker" /\ wpc' = [wpc EXCEPT ![p] = "witness"]
      BY <1>9, <2>2 DEF SideFileFails
    <3>2. Log' = Log /\ UNCHANGED <<main, bak, lock, line, count, acked>>
      BY <1>9, <2>2 DEF SideFileFails, Log, logVars
    <3>4. WriterInv(p)'
      BY <1>00, <3>1, <3>2 DEF ChainInv, WriterInv, LogTypes
    <3>5. ASSUME NEW q \in Procs, q # p PROVE WriterInv(q)'
      <4>1. wpc[q] = "idle"
        BY <1>00, <3>1, <3>5 DEF ChainInv, WriterInv
      <4>2. wpc'[q] = "idle"
        BY <3>1, <3>5, <4>1 DEF LogTypes
      <4> QED BY <4>2 DEF WriterInv
    <3> QED BY <1>00, <3>2, <3>4, <3>5 DEF ChainInv
  <2> QED BY <2>1, <2>2
<1>10. ASSUME Crash(p) PROVE ChainInv'
  BY <1>00, <1>10, ChainLeave DEF Crash, logVars
<1> QED
  BY <1>1, <1>2, <1>3, <1>4, <1>5, <1>6, <1>7, <1>8, <1>9, <1>10 DEF Writer

(* ChainInv is inductive.                                                  *)
LEMMA ChainStep ==
  KeyTypeOK /\ LogTypes /\ ChainInv /\ [Next]_vars => ChainInv'
<1> SUFFICES ASSUME KeyTypeOK, LogTypes, ChainInv, [Next]_vars, Calm' PROVE ChainInv'
  BY DEF ChainInv
<1>1. ASSUME NEW p \in Procs, Writer(p) PROVE ChainInv'
  BY <1>1, ChainWriter
<1>2. CASE Damage
  BY <1>2 DEF Damage, Fault, Calm
<1>3. CASE \/ KeyStep \/ (\E p \in Procs : VerifyMain(p))
           \/ VerifyBegin \/ VerifyMarker \/ VerifyBak \/ VerifyWitness \/ VerifySegment
           \/ VerifyCompare \/ SeedSnapshot \/ SeedReplace \/ Report
           \/ UNCHANGED vars
  <2>1. UNCHANGED <<main, bak, writerVars, faults>>
    BY <1>3 DEF KeyStep, VerifyMain, VerifyBegin, VerifyMarker, VerifyBak, VerifyWitness,
         VerifySegment, VerifyCompare, SeedSnapshot, SeedReplace, Report, vars, logVars
  <2> QED BY <2>1, ChainFrame
<1> QED BY <1>1, <1>2, <1>3 DEF Next

(* In a good log neighbours are linked.                                    *)
LEMMA ChainedIs ==
  ASSUME LogTypes, ChainInv, Calm
  PROVE  ChainLinked /\ AckedKept
<1>0. Log \in Seq(Lines) /\ DOMAIN Log = 1..Len(Log) /\ Len(Log) \in Nat /\ GoodLog(Log)
  BY DEF LogTypes, Log, ChainInv
<1>1. \A i \in 1..Len(Log) : HasHmac(Log[i]) <=> Log[i].kind = "chain"
  <2>1. Unsigned("legacy").kind = "legacy"
    BY DEF Unsigned
  <2>2. \A i \in 1..Len(Log) : Log[i].kind = "chain" \/ Log[i].kind = "legacy"
    BY <1>0, <2>1 DEF GoodLog
  <2> QED BY <2>2 DEF HasHmac
<1>2. AckedKept
  BY <1>0, <1>1 DEF AckedKept, ChainInv, Chained
<1>3. ASSUME NEW i \in Chained, NEW j \in Chained, Adjacent(i, j) PROVE Linked(i, j)
  <2>1. i \in 1..Len(Log) /\ j \in 1..Len(Log) /\ i < j
    BY <1>0, <1>3 DEF Chained, Adjacent
  <2>2. i + 1 \in 1..Len(Log) /\ i + 1 # 1
    BY <1>0, <2>1
  <2>3. i + 1 \in Chained
    BY <1>0, <1>1, <2>2 DEF GoodLog, Chained
  <2>4. j = i + 1
    BY <1>3, <2>1, <2>3 DEF Adjacent
  <2>5. i # Len(Log) /\ Log[i].kind = "chain"
    BY <1>0, <1>1, <2>1, <2>2 DEF Chained
  <2> QED BY <1>0, <2>1, <2>4, <2>5 DEF GoodLog, Linked
<1> QED BY <1>2, <1>3 DEF ChainLinked

Inv == KeyTypeOK /\ KeyInv /\ LogTypes /\ WatchTypes /\ ChainInv

LEMMA InvHolds == Spec => []Inv
<1>1. Init => Inv
  BY InitTypes, InitChain, KeyInvInit DEF Init, Inv
<1>2. Inv /\ [Next]_vars => Inv'
  BY StepTypes, ChainStep DEF Inv
<1> QED BY <1>1, <1>2, PTL DEF Spec

(* Every value of the log, of its side files and of the watchdog's round   *)
(* has its type.                                                           *)
THEOREM LogTyped == Spec => []TypeOK
<1>1. Inv => TypeOK
  BY DEF Inv, LogTypes, WatchTypes, TypeOK, Places, Rounds
<1> QED BY <1>1, InvHolds, PTL

(* resolve_hmac_key hands every process the key that is in audit.key while *)
(* they append and verify, too.                                            *)
THEOREM SignersAgree == Spec => []KeyAgreement
<1>1. Inv => KeyAgreement
  BY DEF Inv, KeyInv, KeyAgreement
<1> QED BY <1>1, InvHolds, PTL

(* prev_hash is read under the lock: each line links to the one before it, *)
(* across rotations, failing rotations and killed writers.                 *)
THEOREM LogIsChained == Spec => []ChainLinked
<1>1. Inv => ChainLinked
  BY ChainedIs DEF Inv, ChainLinked, Calm
<1> QED BY <1>1, InvHolds, PTL

(* A line that append acknowledged stays readable for MaxLines further     *)
(* appends.                                                                *)
THEOREM LogKeepsAcked == Spec => []AckedKept
<1>1. Inv => AckedKept
  BY ChainedIs DEF Inv, AckedKept, Calm
<1> QED BY <1>1, InvHolds, PTL

(* verify_chain says of every log that can arise whether it is intact.     *)
THEOREM VerdictsAreFaithful == Spec => []VerdictFaithful
<1>1. Inv => VerdictFaithful
  BY FaithfulHolds DEF Inv
<1> QED BY <1>1, InvHolds, PTL

-----------------------------------------------------------------------------
(* The alarm, as long as there is no fault at all                          *)

\* Every line is signed with the key in the file.
SignedInv ==
    keySound =>
        /\ \A i \in 1..Len(Log) : Log[i].kind = "chain" => keyFile # NoFile /\ Log[i].key = keyFile
        /\ \A p \in Procs : wpc[p] # "idle" => keyFile # NoFile /\ line[p].key = keyFile

Anchored(f) == f # <<>> /\ f[Len(f)].kind = "chain"
Window == \E p \in Procs : wpc[p] = "rename"
PrefixSeg(g) == \E m \in 0..Len(main) : g = Seg(SubSeq(main, 1, m))

(* A snapshot s of the segments, however old: the backup it saw is older   *)
(* than the main file, so that it is recognised until it is unlinked, and  *)
(* as long as it is there the main file has only grown.                    *)
Past(s) ==
    /\ s["bak"].there => /\ Log # <<>> /\ s["bak"].last <= Log[Len(Log)].id
                         /\ main # <<>> => s["bak"].last < Log[Len(Log)].id
    /\ s["bak"] = Seg(bak) /\ ~ Window => PrefixSeg(s["main"])

(* A verification that no rotation disturbs sees one backup, a main file   *)
(* that grows, and a witness of both.                                      *)
RoundInv ==
    v.clean /\ v.pc # "idle" =>
        /\ v.pc \in {"marker", "bak", "main"} =>
             /\ marker # 0 /\ ("bak" \in v.there <=> bak # <<>>)
             /\ "main" \notin v.there => Anchored(bak)
        /\ v.pc \in {"bak", "main"} => v.start # 0
        /\ v.pc = "main" => v.bak = bak
        /\ v.pc \in {"marker", "bak", "main", "witness", "segment", "compare"} =>
             witness.seg["bak"] = Seg(bak) /\ ~ Window
        /\ v.pc \in {"witness", "segment", "compare", "seed", "replace", "report"} => v.ok
        /\ v.pc \in {"segment", "compare"} =>
             v.witness.seg["bak"] = Seg(bak) /\ PrefixSeg(v.witness.seg["main"])
        /\ v.pc = "compare" => v.seg["bak"] = Seg(bak)
        /\ v.pc = "report" => v.found = {}

AlarmInv ==
    faults = {} =>
        /\ SignedInv
        /\ marker # 0 => Anchored(Log)
        /\ Past(witness.seg) /\ (v.pc = "replace" => Past(v.seg))
        /\ keySound => RoundInv

(* The last hmac of a good log is that of its last line.                   *)
LEMMA TopIs ==
  ASSUME NEW f \in Seq(Lines), GoodLog(f), f # <<>>
  PROVE  LastHmac(f) = f[Len(f)].id
<1>1. Len(f) \in 1..Len(f)
  OBVIOUS
<1>2. CASE f[Len(f)].kind = "chain"
  BY <1>2, LastHmacIs DEF HasHmac
<1>3. CASE f[Len(f)].kind # "chain"
  <2>1. Len(f) = 1 /\ f[1] = Unsigned("legacy")
    BY <1>1, <1>3 DEF GoodLog
  <2>2. \A i \in 1..Len(f) : f[i] = Unsigned("legacy")
    BY <2>1
  <2>3. Unsigned("legacy").kind = "legacy" /\ Unsigned("legacy").id = 0
    BY DEF Unsigned
  <2>4. \A i \in 1..Len(f) : ~ HasHmac(f[i])
    BY <2>2, <2>3 DEF HasHmac
  <2> QED BY <1>1, <2>2, <2>3, <2>4, LastHmacIs
<1> QED BY <1>2, <1>3

(* The log and its files.                                                  *)
LEMMA LogFacts ==
  ASSUME LogTypes, ChainInv, Calm
  PROVE  /\ Log \in Seq(Lines) /\ GoodLog(Log) /\ GoodLog(bak) /\ GoodLog(main)
         /\ Len(Log) = Len(bak) + Len(main) /\ Len(bak) \in Nat /\ Len(main) \in Nat
         /\ \A i \in 1..Len(Log) : Log[i].id \in Nat
         /\ main # <<>> => Log # <<>> /\ Log[Len(Log)] = main[Len(main)]
         /\ main = <<>> => Log = bak
         /\ bak # <<>> => Log # <<>> /\ Log[Len(bak)] = bak[Len(bak)] /\ Len(bak) \in 1..Len(Log)
<1>1. Log \in Seq(Lines) /\ GoodLog(Log) /\ GoodLog(bak) /\ GoodLog(main)
  BY GoodParts DEF ChainInv, LogTypes, Log
<1>2. \A i \in 1..Len(Log) : Log[i].id \in Nat
  <2>1. \A i \in 1..Len(Log) : Log[i] \in Lines
    BY <1>1
  <2> QED BY <2>1, AuditBoundsAssumption DEF Lines
<1>3. Len(Log) = Len(bak) + Len(main) /\ Len(bak) \in Nat /\ Len(main) \in Nat
  BY DEF LogTypes, Log
<1>4. main # <<>> => Log # <<>> /\ Log[Len(Log)] = main[Len(main)]
  <2>1. main # <<>> => Len(main) \in 1..Len(main)
    BY DEF LogTypes
  <2> QED BY <1>3, <2>1, Concat DEF LogTypes, Log
<1>5. main = <<>> => Log = bak
  BY DEF LogTypes, Log
<1>6. bak # <<>> => Log # <<>> /\ Log[Len(bak)] = bak[Len(bak)] /\ Len(bak) \in 1..Len(Log)
  <2>1. bak # <<>> => Len(bak) \in 1..Len(bak)
    BY DEF LogTypes
  <2> QED BY <1>3, <2>1, Concat DEF LogTypes, Log
<1> QED BY <1>1, <1>2, <1>3, <1>4, <1>5, <1>6

(* What is in front of an appended line stays what it was.                 *)
LEMMA PrefixOfAppend ==
  ASSUME NEW f \in Seq(Lines), NEW r \in Lines, NEW m \in 0..Len(f)
  PROVE  m \in 0..Len(Append(f, r)) /\ SubSeq(Append(f, r), 1, m) = SubSeq(f, 1, m)
OBVIOUS

(* A snapshot of the files that are there is Past.                         *)
LEMMA PastNow ==
  ASSUME LogTypes, ChainInv, Calm
  PROVE  Past(Snapshot(bak, main).seg)
<1> DEFINE s == Snapshot(bak, main).seg
<1>1. s["bak"] = Seg(bak) /\ s["main"] = Seg(main)
  BY DEF Snapshot
<1>2. Seg(bak).there = (bak # <<>>) /\ Seg(bak).last = LastHmac(bak)
  BY DEF Seg
<1>3. SubSeq(main, 1, Len(main)) = main /\ Len(main) \in 0..Len(main)
  BY DEF LogTypes
<1>4. PrefixSeg(s["main"])
  BY <1>1, <1>3 DEF PrefixSeg
<1>5. ASSUME bak # <<>>
      PROVE  /\ Log # <<>> /\ LastHmac(bak) <= Log[Len(Log)].id
             /\ main # <<>> => LastHmac(bak) < Log[Len(Log)].id
  <2>1. LastHmac(bak) = Log[Len(bak)].id /\ Len(bak) \in 1..Len(Log)
    BY <1>5, LogFacts, TopIs DEF LogTypes
  <2>2. CASE main = <<>>
    BY <1>5, <2>1, <2>2, LogFacts
  <2>3. CASE main # <<>>
    <3>1. Len(Log) \in 1..Len(Log) /\ Len(bak) < Len(Log) /\ GoodLog(Log)
      BY <2>3, LogFacts DEF LogTypes
    <3>2. Log[Len(Log)].id >= Log[Len(bak)].id + (Len(Log) - Len(bak))
      BY <2>1, <3>1 DEF GoodLog
    <3> QED BY <2>1, <3>1, <3>2, LogFacts
  <2> QED BY <2>2, <2>3
<1> HIDE DEF s
<1>6. Past(s)
  BY <1>1, <1>2, <1>4, <1>5 DEF Past
<1> QED BY <1>6 DEF s

(* A writer makes any snapshot older.                                      *)
LEMMA PastKept ==
  ASSUME LogTypes, LogTypes', ChainInv, ChainInv', NEW p \in Procs, Writer(p), faults' = {},
         NEW s \in [bak : Segs, main : Segs], Past(s)
  PROVE  Past(s)'
<1>0. Calm /\ faults = {}
  BY DEF Calm, Writer, AppendBegin, RotateUnlink, RotateRename, RotateFails, AppendLine,
         AppendTorn, WriteMarker, WriteWitness, SideFileFails, Crash, Fault
<1>1. CASE AppendBegin(p)
  <2>1. Log' = Log /\ main' = main /\ bak' = bak
    BY <1>1 DEF AppendBegin, logVars, Log
  <2>2. Window => Window'
    <3>1. \A q \in Procs : wpc[q] = "idle"
      BY <1>0, <1>1, AuditBoundsAssumption DEF AppendBegin, ChainInv, WriterInv
    <3> QED BY <3>1 DEF Window
  <2> QED BY <2>1, <2>2 DEF Past, PrefixSeg
<1>2. CASE RotateUnlink(p)
  <2>1. main' = main /\ Log' = main /\ Window'
    BY <1>2 DEF RotateUnlink, At, Window, LogTypes, Log
  <2>2. main # <<>>
    BY <1>0, <1>2, AuditBoundsAssumption DEF ChainInv, WriterInv, RotateUnlink, LogTypes
  <2> QED BY <1>0, <2>1, <2>2, LogFacts DEF Past
<1>3. CASE RotateRename(p)
  <2>1. bak = <<>> /\ main # <<>> /\ main' = <<>> /\ bak' = main /\ Log' = main /\ Log = main
    <3>1. bak = <<>> /\ Len(main) >= MaxLines
      BY <1>0, <1>3 DEF ChainInv, WriterInv, RotateRename
    <3>2. main # <<>>
      BY <3>1, AuditBoundsAssumption
    <3>3. main' = <<>> /\ bak' = main
      BY <1>3 DEF RotateRename
    <3>4. Log = main /\ Log' = main
      BY <3>1, <3>3 DEF LogTypes, Log
    <3> QED BY <3>1, <3>2, <3>3, <3>4
  <2>2. Seg(main).there = TRUE /\ Seg(main).last = Log[Len(Log)].id
    BY <1>0, <2>1, LogFacts, TopIs DEF Seg, LogTypes
  <2>3. s["bak"].there => s["bak"].last < Log[Len(Log)].id
    BY <2>1 DEF Past
  <2>4. s["bak"] # Seg(main)
    <3>1. Log[Len(Log)].id \in Nat
      <4>1. Len(Log) \in 1..Len(Log)
        BY <2>1 DEF LogTypes
      <4> QED BY <1>0, <4>1, LogFacts
    <3> QED BY <2>2, <2>3, <3>1
  <2> QED BY <2>1, <2>4 DEF Past
<1>4. ~ RotateFails(p)
  BY DEF RotateFails, Fault
<1>5. CASE AppendLine(p)
  <2>1. bak' = bak /\ wpc[p] = "write" /\ wpc' = [wpc EXCEPT ![p] = "marker"]
    BY <1>5 DEF AppendLine, At
  <2>2. Window => Window'
    BY <2>1 DEF Window, LogTypes
  <2>3. main # <<>> => Last(main).kind # "torn"
    <3>1. main # <<>> => Len(main) \in 1..Len(main)
      BY DEF LogTypes
    <3>2. GoodLog(main) /\ Unsigned("legacy").kind = "legacy"
      BY <1>0, LogFacts DEF Unsigned
    <3> QED BY <3>1, <3>2 DEF GoodLog, Last
  <2>4. main' = Append(main, line[p]) /\ main' # <<>> /\ Log' # <<>>
        /\ line[p].id = count /\ line'[p] = line[p] /\ count' = count
    <3>1. main' = Append(main, line[p])
      BY <1>5, <2>3 DEF AppendLine
    <3>2. Append(main, line[p]) # <<>> /\ bak \o Append(main, line[p]) # <<>>
      <4> DEFINE m == Append(main, line[p])
      <4>1. m \in Seq(Lines) /\ Len(m) = Len(main) + 1 /\ Len(main) \in Nat
        BY DEF LogTypes
      <4> HIDE DEF m
      <4>2. Len(bak \o m) = Len(bak) + Len(m) /\ Len(bak) \in Nat
        <5>1. bak \in Seq(Lines) /\ Len(bak) \in Nat
          BY DEF LogTypes
        <5> QED BY <4>1, <5>1, Concat
      <4>3. m # <<>>
        BY <4>1
      <4>4. bak \o m # <<>>
        BY <4>1, <4>2
      <4> QED BY <4>3, <4>4 DEF m
    <3> QED BY <1>0, <1>5, <2>1, <3>1, <3>2 DEF AppendLine, ChainInv, WriterInv, LogTypes, Log
  <2>5. Log'[Len(Log')].id = count
    <3>1. Calm'
      BY DEF Calm
    <3> QED BY <1>0, <2>1, <2>4, <3>1 DEF ChainInv, WriterInv, EndsWith, LogTypes
  <2>6. Log # <<>> => Log[Len(Log)].id < count
    <3>1. Log # <<>> => Len(Log) \in 1..Len(Log)
      BY DEF LogTypes, Log
    <3> QED BY <1>0, <2>1, <3>1 DEF ChainInv, WriterInv
  <2>7. s["bak"].there => s["bak"].last < count
    <3>1. Log # <<>> => Log[Len(Log)].id \in Nat
      <4>1. Log # <<>> => Len(Log) \in 1..Len(Log)
        BY DEF LogTypes, Log
      <4> QED BY <1>0, <4>1, LogFacts
    <3> QED BY <2>6, <3>1, AuditBoundsAssumption DEF Past, Segs, LogTypes
  <2>8. PrefixSeg(s["main"]) => PrefixSeg(s["main"])'
    <3>1. ASSUME NEW m \in 0..Len(main)
          PROVE  m \in 0..Len(main') /\ SubSeq(main', 1, m) = SubSeq(main, 1, m)
      BY <2>4, PrefixOfAppend DEF LogTypes
    <3> QED BY <3>1 DEF PrefixSeg
  <2> QED BY <2>1, <2>2, <2>4, <2>5, <2>7, <2>8, AuditBoundsAssumption DEF Past, Segs, LogTypes
<1>6. ~ AppendTorn(p)
  BY DEF AppendTorn, Fault
<1>7. CASE WriteMarker(p)
  BY <1>7 DEF WriteMarker, At, Window, LogTypes, Past, PrefixSeg, Log
<1>8. CASE WriteWitness(p)
  BY <1>8 DEF WriteWitness, Leave, At, Window, LogTypes, Past, PrefixSeg, Log
<1>9. ~ SideFileFails(p) /\ ~ Crash(p)
  BY DEF SideFileFails, Crash, Fault
<1> QED BY <1>1, <1>2, <1>3, <1>4, <1>5, <1>6, <1>7, <1>8, <1>9 DEF Writer

(* A key that is in the file stays there.                                  *)
LEMMA KeyStays ==
  ASSUME KeyTypeOK, KeyInv, KeyNext, keySound', keyFile # NoFile
  PROVE  keySound /\ keyFile' = keyFile
<1>1. keySound
  BY DEF KeyNext, CheckFile, CreateFile, CreateFails, ReadFile, ReadFails, RepairUnlink, RepairLink
<1>2. \A p \in Procs : kpc[p] \notin {"unlink", "link"}
  BY <1>1 DEF KeyInv
<1> QED
  BY <1>1, <1>2 DEF KeyNext, CheckFile, CreateFile, CreateFails, ReadFile, ReadFails, RepairUnlink,
         RepairLink

(* Writers sign with the key in the file.                                  *)
LEMMA SignedKept ==
  ASSUME KeyTypeOK, KeyInv, LogTypes, ChainInv, Calm, SignedInv,
         NEW p \in Procs, Writer(p), faults' = {}
  PROVE  SignedInv'
<1> SUFFICES ASSUME keySound' PROVE SignedInv'
  BY DEF SignedInv
<1>0. /\ UNCHANGED keyVars /\ keySound
      /\ kpc[p] = "done" => keyFile # NoFile /\ key[p] = keyFile
  BY DEF KeyInv, keyVars, Writer, AppendBegin, RotateUnlink, RotateRename, RotateFails, AppendLine,
         AppendTorn, WriteMarker, WriteWitness, SideFileFails, Crash
<1>1. CASE AppendBegin(p)
  <2>1. Log' = Log
    BY <1>1 DEF AppendBegin, logVars, Log
  <2>2. line'[p].key = keyFile /\ keyFile # NoFile
    BY <1>0, <1>1 DEF AppendBegin, LogTypes
  <2>3. \A q \in Procs \ {p} : line'[q] = line[q] /\ wpc'[q] = wpc[q]
    BY <1>1 DEF AppendBegin, At, LogTypes
  <2> QED BY <1>0, <2>1, <2>2, <2>3 DEF SignedInv, keyVars
<1>2. CASE RotateUnlink(p)
  <2>1. Log' = main /\ line' = line /\ \A q \in Procs : wpc'[q] # "idle" => wpc[q] # "idle"
    BY <1>2 DEF RotateUnlink, LogTypes, Log, At
  <2>2. \A i \in 1..Len(main) : Len(bak) + i \in 1..Len(Log) /\ Log[Len(bak) + i] = main[i]
    BY Concat DEF LogTypes, Log
  <2>3. \A i \in 1..Len(main) : main[i].kind = "chain" => keyFile # NoFile /\ main[i].key = keyFile
    BY <1>0, <2>2 DEF SignedInv
  <2> QED BY <1>0, <2>1, <2>3 DEF SignedInv, keyVars
<1>3. CASE RotateRename(p)
  <2>1. Log' = Log /\ line' = line /\ \A q \in Procs : wpc'[q] # "idle" => wpc[q] # "idle"
    BY <1>3 DEF RotateRename, LogTypes, Log, At, ChainInv, WriterInv
  <2> QED BY <1>0, <2>1 DEF SignedInv, keyVars
<1>4. CASE AppendLine(p)
  <2>1. line' = line /\ \A q \in Procs : wpc'[q] # "idle" => wpc[q] # "idle"
    BY <1>4 DEF AppendLine, LogTypes, At
  <2>2. main # <<>> => Last(main).kind # "torn"
    <3>1. main # <<>> => Len(main) \in 1..Len(main)
      BY DEF LogTypes
    <3>2. GoodLog(main) /\ Unsigned("legacy").kind = "legacy"
      BY LogFacts DEF Unsigned
    <3> QED BY <3>1, <3>2 DEF GoodLog, Last
  <2>3. Log' = Append(Log, line[p])
    BY <1>4, <2>2 DEF AppendLine, Log, LogTypes
  <2>4. /\ Len(Log') = Len(Log) + 1 /\ Len(Log) \in Nat /\ Log'[Len(Log) + 1] = line[p]
        /\ \A i \in 1..Len(Log) : Log'[i] = Log[i]
    BY <2>3 DEF Log, LogTypes
  <2>5. \A i \in 1..Len(Log') : i \in 1..Len(Log) \/ i = Len(Log) + 1
    BY <2>4
  <2>6. keyFile # NoFile /\ line[p].key = keyFile
    BY <1>0, <1>4 DEF SignedInv, AppendLine
  <2>7. \A i \in 1..Len(Log') : Log'[i].kind = "chain" => keyFile # NoFile /\ Log'[i].key = keyFile
    BY <1>0, <2>4, <2>5, <2>6 DEF SignedInv
  <2> QED BY <1>0, <2>1, <2>7 DEF SignedInv, keyVars
<1>5. CASE WriteMarker(p)
  BY <1>0, <1>5 DEF WriteMarker, LogTypes, At, SignedInv, keyVars, Log
<1>6. CASE WriteWitness(p)
  <2>1. \A q \in Procs : wpc'[q] # "idle" => wpc[q] # "idle" /\ line'[q] = line[q]
    BY <1>6 DEF WriteWitness, Leave, At, LogTypes
  <2> QED BY <1>0, <1>6, <2>1 DEF WriteWitness, SignedInv, keyVars, Log
<1> QED
  BY <1>1, <1>2, <1>3, <1>4, <1>5, <1>6 DEF Writer, RotateFails, AppendTorn, SideFileFails, Crash,
         Fault

(* Once there is an anchor the log ends with a signed line.                *)
LEMMA AnchorKept ==
  ASSUME LogTypes, LogTypes', ChainInv, ChainInv', Calm, marker # 0 => Anchored(Log),
         NEW p \in Procs, Writer(p), faults' = {}
  PROVE  marker' # 0 => Anchored(Log')
<1>0. Calm'
  BY DEF Calm
<1>1. CASE AppendBegin(p)
  BY <1>1 DEF AppendBegin, logVars, Log
<1>2. CASE RotateUnlink(p)
  <2>1. Log' = main /\ marker' = marker /\ main # <<>>
    BY <1>2, AuditBoundsAssumption DEF ChainInv, WriterInv, RotateUnlink, LogTypes, Log
  <2> QED BY <2>1, LogFacts DEF Anchored
<1>3. CASE RotateRename(p)
  <2>1. bak = <<>>
    BY <1>3 DEF RotateRename, ChainInv, WriterInv
  <2>2. Log' = Log /\ marker' = marker
    BY <1>3, <2>1 DEF RotateRename, Log, LogTypes
  <2> QED BY <2>2
<1>4. CASE AppendLine(p)
  BY <1>0, <1>4 DEF AppendLine, At, LogTypes, ChainInv, WriterInv, EndsWith, Anchored
<1>5. CASE WriteMarker(p)
  BY <1>5 DEF WriteMarker, ChainInv, WriterInv, EndsWith, Anchored, Log
<1>6. CASE WriteWitness(p)
  BY <1>6 DEF WriteWitness, Log
<1> QED
  BY <1>1, <1>2, <1>3, <1>4, <1>5, <1>6 DEF Writer, RotateFails, AppendTorn, SideFileFails, Crash,
         Fault

(* A writer either disturbs the verification or leaves its backup alone.   *)
LEMMA RoundKept ==
  ASSUME LogTypes, LogTypes', WatchTypes, ChainInv, Calm, RoundInv,
         NEW p \in Procs, Writer(p), faults' = {}
  PROVE  RoundInv'
<1>1. CASE RotateUnlink(p) \/ RotateRename(p)
  BY <1>1 DEF RotateUnlink, RotateRename, Disturb, RoundInv, WatchTypes, Rounds
<1>2. CASE AppendBegin(p) \/ AppendLine(p) \/ WriteMarker(p) \/ WriteWitness(p)
  <2>1. v' = v /\ bak' = bak /\ (marker # 0 => marker' # 0)
    BY <1>2 DEF AppendBegin, AppendLine, WriteMarker, WriteWitness, logVars
  <2>2. witness' = witness \/ witness'.seg["bak"] = Seg(bak)
    BY <1>2 DEF AppendBegin, AppendLine, WriteMarker, WriteWitness, logVars, Snapshot
  <2>3. ~ Window => ~ Window'
    BY <1>2 DEF AppendBegin, AppendLine, WriteMarker, WriteWitness, At, Leave, Window, LogTypes
  <2>4. ASSUME NEW g, PrefixSeg(g) PROVE PrefixSeg(g)'
    <3>1. main' = main \/ main' = Append(main, line[p])
      <4>1. main # <<>> => Last(main).kind # "torn"
        <5>1. main # <<>> => Len(main) \in 1..Len(main)
          BY DEF LogTypes
        <5>2. GoodLog(main) /\ Unsigned("legacy").kind = "legacy"
          BY LogFacts DEF Unsigned
        <5> QED BY <5>1, <5>2 DEF GoodLog, Last
      <4> QED BY <1>2, <4>1 DEF AppendBegin, AppendLine, WriteMarker, WriteWitness, logVars
    <3>2. ASSUME NEW m \in 0..Len(main)
          PROVE  m \in 0..Len(main') /\ SubSeq(main', 1, m) = SubSeq(main, 1, m)
      <4>1. main \in Seq(Lines) /\ line[p] \in Lines
        BY DEF LogTypes
      <4>2. CASE main' = Append(main, line[p])
        BY <4>1, <4>2, PrefixOfAppend
      <4>3. CASE main' = main
        BY <4>3
      <4> QED BY <3>1, <4>2, <4>3
    <3> QED BY <2>4, <3>2 DEF PrefixSeg
  <2>5. PICK g : g = v.witness.seg["main"]
    OBVIOUS
  <2>6. PrefixSeg(v.witness.seg["main"]) => PrefixSeg(v.witness.seg["main"])'
    <3>1. PrefixSeg(g) => PrefixSeg(g)'
      BY <2>4
    <3> QED BY <2>1, <2>5, <3>1 DEF PrefixSeg
  <2> QED BY <2>1, <2>2, <2>3, <2>6 DEF RoundInv
<1> QED
  BY <1>1, <1>2 DEF Writer, RotateFails, AppendTorn, SideFileFails, Crash, Fault

(* A good log that is signed with k is sound.                              *)
LEMMA GoodSound ==
  ASSUME NEW k, NEW f \in Seq(Lines), GoodLog(f), Anchored(f),
         \A i \in 1..Len(f) : f[i].kind = "chain" => f[i].key = k
  PROVE  Sound(k, f, Len(f)) /\ Hmacs(f, Len(f)) # {}
<1> DEFINE H == Hmacs(f, Len(f))
<1>0. \A i \in 1..Len(f) : f[i].kind = "chain" \/ (i = 1 /\ f[i].kind = "legacy")
  <2>1. Unsigned("legacy").kind = "legacy"
    BY DEF Unsigned
  <2> QED BY <2>1 DEF GoodLog
<1>1. \A i \in 1..Len(f) : i \in H <=> f[i].kind = "chain"
  BY <1>0 DEF Hmacs, HasHmac
<1>2. H \subseteq 1..Len(f)
  BY DEF Hmacs
<1>3. \A i \in 1..Len(f) : ~ Malformed(f[i])
  BY <1>0 DEF Malformed
<1>4. \A i \in H : Valid(k, f[i])
  BY <1>1, <1>2 DEF Valid
<1>5. \A i \in H : \A j \in 1..Len(f) : i <= j => j \in H
  BY <1>0, <1>1, <1>2
<1>6. ASSUME NEW i \in H, NEW j \in H, Next1(f, Len(f), i, j) PROVE f[j].prev = f[i].id
  <2>1. i \in 1..Len(f) /\ j \in 1..Len(f) /\ i < j
    BY <1>2, <1>6 DEF Next1
  <2>2. i + 1 \in 1..Len(f) /\ i # Len(f)
    BY <2>1
  <2>3. i + 1 \in H
    BY <1>5, <2>1, <2>2
  <2>4. j = i + 1
    BY <1>6, <2>1, <2>3 DEF Next1
  <2> QED BY <1>1, <2>1, <2>2, <2>4 DEF GoodLog
<1>7. Len(f) \in H
  <2>1. Len(f) \in 1..Len(f)
    BY DEF Anchored
  <2> QED BY <1>1, <2>1 DEF Anchored
<1> QED BY <1>3, <1>4, <1>5, <1>6, <1>7 DEF Sound

(* An undisturbed verification finds the log intact.                       *)
LEMMA VerdictOk ==
  ASSUME KeyTypeOK, KeyInv, LogTypes, ChainInv, Calm, SignedInv, marker # 0 => Anchored(Log),
         RoundInv, keySound, v.clean, v.pc = "main", NEW p \in Procs, kpc[p] = "done"
  PROVE  Verdict(key[p], v.start, v.bak \o (IF "main" \in v.there THEN main ELSE <<>>))
<1> DEFINE f == v.bak \o (IF "main" \in v.there THEN main ELSE <<>>)
<1>1. /\ marker # 0 /\ v.bak = bak /\ v.start # 0 /\ key[p] = keyFile
      /\ "main" \notin v.there => Anchored(bak)
  BY DEF RoundInv, KeyInv
<1>2. f \in Seq(Lines) /\ (f = Log \/ (f = bak /\ Anchored(bak)))
  <2>1. CASE "main" \in v.there
    BY <1>1, <2>1 DEF LogTypes, Log
  <2>2. CASE "main" \notin v.there
    BY <1>1, <2>2 DEF LogTypes
  <2> QED BY <2>1, <2>2
<1>3. GoodLog(f) /\ Anchored(f)
  BY <1>1, <1>2, LogFacts
<1>4. \A i \in 1..Len(f) : f[i].kind = "chain" => f[i].key = keyFile
  <2>1. \A i \in 1..Len(bak) : i \in 1..Len(Log) /\ Log[i] = bak[i]
    BY Concat DEF LogTypes, Log
  <2> HIDE DEF f
  <2> QED BY <1>2, <2>1 DEF SignedInv
<1> HIDE DEF f
<1>5. Sound(keyFile, f, Len(f)) /\ Hmacs(f, Len(f)) # {}
  BY <1>2, <1>3, <1>4, GoodSound
<1>6. Verdict(keyFile, v.start, f)
  BY <1>1, <1>2, <1>5, VerdictIs
<1> QED BY <1>1, <1>6 DEF f

(* A witness of the same backup and of a shorter main file is no reason    *)
(* for an alarm.                                                           *)
LEMMA NoFindings ==
  ASSUME LogTypes, WatchTypes, v.witness.seg["bak"] = Seg(bak), v.seg["bak"] = Seg(bak),
         PrefixSeg(v.witness.seg["main"])
  PROVE  Findings(v.witness.seg, Current) = {}
<1> DEFINE w == v.witness.seg
<1>1. Current["bak"] = Seg(bak) /\ Current["main"] = Seg(main)
  BY DEF Current, WatchTypes, Rounds
<1>2. PICK m \in 0..Len(main) : w["main"] = Seg(SubSeq(main, 1, m))
  BY DEF PrefixSeg
<1>3. /\ w["main"].lines = m /\ (w["main"].there => m # 0)
      /\ m = Len(main) => w["main"].last = Seg(main).last
      /\ Seg(main).lines = Len(main) /\ (main # <<>> => Seg(main).there)
  <2>1. Len(SubSeq(main, 1, m)) = m /\ (m = 0 => SubSeq(main, 1, m) = <<>>)
        /\ (m = Len(main) => SubSeq(main, 1, m) = main)
    BY DEF LogTypes
  <2> DEFINE g == SubSeq(main, 1, m)
  <2>2. w["main"] = Seg(g) /\ Len(g) = m /\ (m = 0 => g = <<>>) /\ (m = Len(main) => g = main)
    BY <1>2, <2>1
  <2> HIDE DEF g, w
  <2>3. w["main"].lines = m /\ (w["main"].there => m # 0)
    <3>1. Seg(g).lines = Len(g) /\ Seg(g).there = (g # <<>>)
      BY DEF Seg
    <3> QED BY <2>2, <3>1
  <2>4. m = Len(main) => w["main"] = Seg(main)
    BY <2>2
  <2>5. Seg(main).lines = Len(main) /\ (main # <<>> => Seg(main).there)
    BY DEF Seg
  <2> QED BY <2>3, <2>4, <2>5
<1>4. main = <<>> => m = 0
  OBVIOUS
<1>5. m \in Nat /\ Len(main) \in Nat /\ Len(main) >= m
  BY DEF LogTypes
<1>6. Seg(bak).lines \in Nat
  BY DEF Seg, LogTypes
<1>7. ~ (w["main"].there /\
        IF ~ Current["main"].there
          THEN ~ ("main" = MainName(w, Current) /\ LegalRotation(w, Current))
          ELSE IF Current["main"].lines >= w["main"].lines
            THEN Current["main"].lines = w["main"].lines /\ Current["main"].last # w["main"].last
            ELSE ~ LegalRotation(w, Current))
  BY <1>1, <1>3, <1>4, <1>5
<1>8. ~ (w["bak"].there /\
        IF ~ Current["bak"].there
          THEN ~ ("bak" = MainName(w, Current) /\ LegalRotation(w, Current))
          ELSE IF Current["bak"].lines >= w["bak"].lines
            THEN Current["bak"].lines = w["bak"].lines /\ Current["bak"].last # w["bak"].last
            ELSE ~ LegalRotation(w, Current))
  BY <1>1, <1>6
<1> QED BY <1>7, <1>8 DEF Findings, Names

(* The steps of verify_once.                                               *)
LEMMA RoundStep ==
  ASSUME KeyTypeOK, KeyInv, LogTypes, WatchTypes, ChainInv, Calm, SignedInv,
         marker # 0 => Anchored(Log), Past(witness.seg), v.pc = "replace" => Past(v.seg),
         keySound => RoundInv,
         \/ \E p \in Procs : VerifyMain(p)
         \/ VerifyBegin \/ VerifyMarker \/ VerifyBak \/ VerifyWitness \/ VerifySegment
         \/ VerifyCompare \/ SeedSnapshot \/ SeedReplace \/ Report
  PROVE  /\ keySound => RoundInv'
         /\ Past(witness.seg)' /\ (v'.pc = "replace" => Past(v.seg)')
<1> USE DEF WatchTypes, Rounds
<1>0. /\ UNCHANGED <<main, bak, marker>> /\ Log' = Log
      /\ Window' = Window /\ (\A g : PrefixSeg(g)' = PrefixSeg(g))
  BY DEF VerifyMain, VerifyBegin, VerifyMarker, VerifyBak, VerifyWitness, VerifySegment,
         VerifyCompare, SeedSnapshot, SeedReplace, Report, logVars, writerVars, Window, Log,
         PrefixSeg
<1>1. CASE \E p \in Procs : VerifyMain(p)
  <2>1. PICK p \in Procs : VerifyMain(p)
    BY <1>1
  <2>2. /\ v.pc = "main" /\ kpc[p] = "done" /\ witness' = witness
        /\ v' = [Idle EXCEPT !.pc = "witness", !.clean = v.clean, !.ok =
                   Verdict(key[p], v.start, v.bak \o (IF "main" \in v.there THEN main ELSE <<>>))]
    BY <2>1 DEF VerifyMain, logVars
  <2>3. v'.pc = "witness" /\ v'.clean = v.clean
    BY <2>2 DEF Idle
  <2>4. keySound /\ v.clean => v'.ok
    BY <2>2, VerdictOk DEF Idle
  <2> QED BY <1>0, <2>2, <2>3, <2>4 DEF RoundInv, Past
<1>2. CASE VerifyBegin
  <2>1. /\ v'.pc = "marker" /\ v'.clean = (marker # 0 /\ ~ Rotating) /\ witness' = witness
        /\ v'.there = {n \in Names : Snapshot(bak, main).seg[n].there}
    BY <1>2 DEF VerifyBegin, Idle, logVars
  <2>2. "bak" \in v'.there <=> bak # <<>>
    BY <2>1 DEF Names, Snapshot, Seg
  <2>3. "main" \in v'.there <=> main # <<>>
    BY <2>1 DEF Names, Snapshot, Seg
  <2>4. main = <<>> /\ marker # 0 => Anchored(bak)
    BY LogFacts
  <2> QED BY <1>0, <2>1, <2>2, <2>3, <2>4 DEF RoundInv, Past, Rotating, Window
<1>3. CASE VerifyMarker
  BY <1>0, <1>3 DEF VerifyMarker, RoundInv, Past, logVars
<1>4. CASE VerifyBak
  BY <1>0, <1>4 DEF VerifyBak, RoundInv, Past, logVars
<1>5. CASE VerifyWitness
  BY <1>0, <1>5 DEF VerifyWitness, RoundInv, Past, logVars
<1>6. CASE VerifySegment
  BY <1>0, <1>6 DEF VerifySegment, RoundInv, Past, logVars
<1>7. CASE VerifyCompare
  <2>1. v.pc = "compare" /\ witness' = witness
    BY <1>7 DEF VerifyCompare, logVars
  <2>2. v'.pc \in {"seed", "report"} /\ v'.clean = v.clean /\ v'.ok = v.ok
    BY <1>7 DEF VerifyCompare, Idle
  <2>3. v'.pc = "report" /\ v.clean /\ keySound => v'.found = {}
    BY <1>7, <2>1, NoFindings DEF VerifyCompare, Idle, RoundInv
  <2> QED BY <1>0, <2>1, <2>2, <2>3 DEF RoundInv, Past
<1>8. CASE SeedSnapshot
  <2>1. v'.seg = Snapshot(bak, main).seg /\ witness' = witness
        /\ v'.pc = "replace" /\ v'.clean = v.clean /\ v'.ok = v.ok /\ v.pc = "seed"
    BY <1>8 DEF SeedSnapshot, logVars
  <2>2. Past(Snapshot(bak, main).seg)
    BY PastNow
  <2> QED BY <1>0, <2>1, <2>2 DEF RoundInv, Past
<1>9. CASE SeedReplace
  <2>1. witness'.seg = v.seg /\ v.pc = "replace"
        /\ v'.pc = "report" /\ v'.clean = v.clean /\ v'.ok = v.ok /\ v'.found = {}
    BY <1>9 DEF SeedReplace, Idle
  <2> QED BY <1>0, <2>1 DEF RoundInv, Past
<1>10. CASE Report
  BY <1>0, <1>10 DEF Report, Idle, RoundInv, Past, logVars
<1> QED
  BY <1>1, <1>2, <1>3, <1>4, <1>5, <1>6, <1>7, <1>8, <1>9, <1>10

(* A key step does not change the log.                                     *)
LEMMA AlarmKeyStep ==
  ASSUME KeyTypeOK, KeyInv, AlarmInv, KeyStep
  PROVE  AlarmInv'
<1> SUFFICES ASSUME faults = {} PROVE AlarmInv'
  BY DEF AlarmInv, KeyStep
<1>1. UNCHANGED <<main, bak, marker, witness, wpc, line, faults, v>> /\ KeyNext
  BY DEF KeyStep, logVars, writerVars
<1>2. keySound' => keySound
  BY <1>1 DEF KeyNext, CheckFile, CreateFile, CreateFails, ReadFile, ReadFails, RepairUnlink,
         RepairLink
<1>3. keySound' /\ keyFile # NoFile => keyFile' = keyFile
  BY <1>1, KeyStays
<1>4. SignedInv'
  BY <1>1, <1>2, <1>3 DEF SignedInv, AlarmInv, Log
<1>5. (Past(witness.seg) => Past(witness.seg)') /\ (Past(v.seg) => Past(v.seg)')
  BY <1>1 DEF Past, Log, PrefixSeg, Window
<1>6. RoundInv => RoundInv'
  BY <1>1 DEF RoundInv, PrefixSeg, Window
<1>7. (marker # 0 => Anchored(Log)) => (marker' # 0 => Anchored(Log'))
  BY <1>1 DEF Log
<1> QED BY <1>1, <1>2, <1>4, <1>5, <1>6, <1>7 DEF AlarmInv

(* AlarmInv is inductive.                                                  *)
LEMMA AlarmStep ==
  Inv /\ Inv' /\ AlarmInv /\ [Next]_vars => AlarmInv'
<1> SUFFICES ASSUME Inv, Inv', AlarmInv, [Next]_vars, faults' = {} PROVE AlarmInv'
  BY DEF AlarmInv
<1> USE DEF Inv
<1>1. CASE KeyStep
  BY <1>1, AlarmKeyStep
<1>2. ASSUME NEW p \in Procs, Writer(p) PROVE AlarmInv'
  <2>1. faults = {}
    BY <1>2 DEF Writer, AppendBegin, RotateUnlink, RotateRename, RotateFails, AppendLine,
         AppendTorn, WriteMarker, WriteWitness, SideFileFails, Crash, Fault
  <2>2. Calm
    BY <2>1 DEF Calm
  <2>3. SignedInv' /\ (marker' # 0 => Anchored(Log'))
    BY <1>2, <2>1, <2>2, SignedKept, AnchorKept DEF AlarmInv
  <2>4. keySound' = keySound
    BY <1>2 DEF keyVars, Writer, AppendBegin, RotateUnlink, RotateRename, RotateFails, AppendLine,
         AppendTorn, WriteMarker, WriteWitness, SideFileFails, Crash
  <2>5. keySound => RoundInv'
    BY <1>2, <2>1, <2>2, RoundKept DEF AlarmInv
  <2>6. v'.pc = v.pc /\ v'.seg = v.seg
    BY <1>2 DEF Disturb, WatchTypes, Rounds, Writer, AppendBegin, RotateUnlink, RotateRename,
         RotateFails, AppendLine, AppendTorn, WriteMarker, WriteWitness, SideFileFails, Crash
  <2>7. ASSUME NEW s \in [bak : Segs, main : Segs], Past(s) PROVE Past(s)'
    BY <1>2, <2>7, PastKept
  <2>8. Past(v.seg) => Past(v.seg)'
    <3>1. PICK s \in [bak : Segs, main : Segs] : s = v.seg
      BY DEF WatchTypes, Rounds
    <3>2. Past(s) => Past(s)'
      BY <2>7
    <3> QED BY <2>6, <3>1, <3>2 DEF Past, PrefixSeg
  <2>9. Past(witness.seg)'
    <3>1. CASE witness' = witness
      <4>1. PICK s \in [bak : Segs, main : Segs] : s = witness.seg
        BY DEF WatchTypes, Witnesses
      <4>2. Past(s) => Past(s)'
        BY <2>7
      <4> QED BY <2>1, <3>1, <4>1, <4>2 DEF Past, PrefixSeg, AlarmInv
    <3>2. CASE WriteWitness(p)
      <4>1. witness' = Snapshot(bak, main) /\ main' = main /\ bak' = bak
        BY <3>2 DEF WriteWitness
      <4>2. Calm'
        BY DEF Calm
      <4>3. Past(Snapshot(bak, main).seg)'
        BY <4>2, PastNow, PTL
      <4> QED BY <4>1, <4>3 DEF Past, PrefixSeg, Snapshot
    <3> QED
      BY <1>2, <3>1, <3>2 DEF Writer, AppendBegin, RotateUnlink, RotateRename, RotateFails,
         AppendLine, AppendTorn, WriteMarker, SideFileFails, Crash, logVars
  <2> QED BY <2>1, <2>3, <2>4, <2>5, <2>6, <2>8, <2>9 DEF AlarmInv
<1>3. CASE Damage
  BY <1>3 DEF Damage, Fault
<1>4. CASE \/ \E p \in Procs : VerifyMain(p)
           \/ VerifyBegin \/ VerifyMarker \/ VerifyBak \/ VerifyWitness \/ VerifySegment
           \/ VerifyCompare \/ SeedSnapshot \/ SeedReplace \/ Report
  <2>1. UNCHANGED <<keyVars, main, bak, marker, writerVars, faults>>
    BY <1>4 DEF VerifyMain, VerifyBegin, VerifyMarker, VerifyBak, VerifyWitness,
         VerifySegment, VerifyCompare, SeedSnapshot, SeedReplace, Report, logVars
  <2>2. Calm
    BY <2>1 DEF Calm
  <2>3. SignedInv' /\ (marker' # 0 => Anchored(Log'))
    BY <2>1 DEF SignedInv, AlarmInv, Log, keyVars, writerVars
  <2>4. /\ keySound => RoundInv'
        /\ Past(witness.seg)' /\ (v'.pc = "replace" => Past(v.seg)')
    BY <1>4, <2>1, <2>2, RoundStep DEF AlarmInv
  <2> QED BY <2>1, <2>3, <2>4 DEF AlarmInv, keyVars
<1>5. CASE UNCHANGED vars
  BY <1>5 DEF vars, keyVars, logVars, writerVars, AlarmInv, SignedInv, Log, Past, PrefixSeg, Window,
         RoundInv
<1> QED BY <1>1, <1>2, <1>3, <1>4, <1>5 DEF Next

LEMMA InitAlarm == Init => AlarmInv
<1> SUFFICES ASSUME Init PROVE AlarmInv
  OBVIOUS
<1>1. Log \in {<<>>, <<Unsigned("legacy")>>} /\ main \in Seq(Lines)
  BY InitTypes DEF Init, Log, LogTypes
<1>2. \A i \in 1..Len(Log) : Log[i].kind # "chain"
  <2> DEFINE r == Unsigned("legacy")
  <2>1. \A i \in 1..Len(<<r>>) : i = 1 /\ <<r>>[i] = r
    OBVIOUS
  <2>2. \A i \in 1..Len(<<>>) : FALSE
    OBVIOUS
  <2>3. r.kind # "chain"
    BY DEF Unsigned
  <2> QED BY <1>1, <2>1, <2>2, <2>3
<1>3. SignedInv
  BY <1>2 DEF SignedInv, Init
<1>4. Past(witness.seg)
  <2>1. witness.seg["bak"] = NoSeg /\ witness.seg["main"] = NoSeg /\ ~ NoSeg.there
    BY DEF Init, NoWitness, NoSeg, Seg
  <2>2. PrefixSeg(NoSeg)
    <3>1. SubSeq(main, 1, 0) = <<>> /\ 0 \in 0..Len(main)
      BY <1>1
    <3> QED BY <3>1 DEF PrefixSeg, NoSeg
  <2> QED BY <2>1, <2>2 DEF Past
<1>5. v.pc = "idle" /\ marker = 0
  BY DEF Init, Idle
<1> QED BY <1>3, <1>4, <1>5 DEF AlarmInv, RoundInv

(* A watchdog that raises an alarm without any fault has overlapped a      *)
(* rotation, met a witness older than the last one or no anchor yet.       *)
THEOREM AlarmsAreJustified == Spec => []AlarmJustified
<1>1. Init => AlarmInv
  BY InitAlarm
<1>2. AlarmInv => AlarmJustified
  <2> SUFFICES ASSUME AlarmInv, Alarm, faults = {}, keySound, v.clean PROVE FALSE
    BY DEF AlarmJustified
  <2> QED BY DEF AlarmInv, RoundInv, Alarm
<1> QED BY <1>1, <1>2, AlarmStep, InvHolds, PTL DEF Spec

-----------------------------------------------------------------------------
(* The approvals.                                                          *)

\* What the program counter says about the other variables of a process.
PcInv ==
    \A p \in Users :
        /\ pc[p] \in Ops \cup {"open", "dump", "replace", "unlink"} => req[p] \in Ids
        /\ pc[p] = "dump" => fd[p] \in Inodes
        /\ pc[p] = "claim" => claimKey[p] \in Keys

Granted == {"approved", "consumed"}

\* A granted status on disk or in the memory of a process is backed by an approval.
GrantInv ==
    /\ \A id \in Ids : \A i \in Inodes : disk[id][i].st \in Granted => id \in approved
    /\ \A p \in Users : rec[p].st \in Granted => req[p] \in approved

\* A claim file has at most one creator that has not returned yet.
ClaimInv ==
    /\ \A k \in Keys : wins[k] <= 1 /\ (~ claim[k] => wins[k] = 0)
    /\ \A p \in Users : pc[p] = "claim" => claim[claimKey[p]] /\ wins[claimKey[p]] = 0
    /\ \A p, q \in Users : pc[p] = "claim" /\ pc[q] = "claim" /\ claimKey[p] = claimKey[q] => p = q

ApprovalInv == ApprovalTypeOK /\ PcInv /\ GrantInv /\ ClaimInv

-----------------------------------------------------------------------------
(* One write at offset 0 leaves the new record or bytes json.loads         *)
(* refuses: WriteDump never invents a third record.                        *)
LEMMA OverwriteResult ==
    ASSUME NEW new \in Record, NEW old \in Content
    PROVE  Overwrite(new, old) \subseteq {new, Garbage}
BY DEF Overwrite, Weight

LEMMA RecordsAreContent == Record \subseteq Content /\ Garbage \in Content /\ Empty \in Content
                             /\ Pending \in Record
BY DEF Record, Content, Garbage, Empty, Pending, Statuses

(* A readable file holds a record: what Read and ListRead put in memory    *)
(* is typed and, if it is a grant, backed.                                 *)
LEMMA ReadGivesRecord ==
    ASSUME ApprovalTypeOK, GrantInv, NEW id \in Ids, Readable(id)
    PROVE  /\ disk[id][final[id]] \in Record
           /\ disk[id][final[id]].st \in Granted => id \in approved
<1>1. final[id] \in Inodes
  BY DEF ApprovalTypeOK, Readable
<1>2. disk[id][final[id]] \in Content /\ disk[id][final[id]].st \in Statuses
  BY <1>1 DEF ApprovalTypeOK, Readable
<1> QED BY <1>1, <1>2 DEF Content, Record, GrantInv

ProcTypes ==
    /\ pc \in [Users -> Pcs]
    /\ req \in [Users -> Ids \cup {None}]
    /\ todo \in [Users -> SUBSET Ids]
    /\ rec \in [Users -> Record]
    /\ fd \in [Users -> Inodes \cup {None}]
    /\ claimKey \in [Users -> Keys \cup {None}]

(* The end of an operation forgets what the process held and touches no    *)
(* other process.                                                          *)
LEMMA FinishKeeps ==
    ASSUME ProcTypes, PcInv, NEW p \in Users, Finish(p)
    PROVE  /\ ProcTypes' /\ PcInv'
           /\ pc'[p] = "idle" /\ rec'[p] = Pending
           /\ \A q \in Users \ {p} : /\ pc'[q] = pc[q] /\ rec'[q] = rec[q]
                                     /\ req'[q] = req[q] /\ claimKey'[q] = claimKey[q]
<1>1. ProcTypes'
  BY RecordsAreContent DEF Finish, ProcTypes, Pcs
<1>2. pc'[p] = "idle" /\ rec'[p] = Pending
  BY DEF Finish, ProcTypes
<1>3. \A q \in Users \ {p} : /\ pc'[q] = pc[q] /\ rec'[q] = rec[q]
                             /\ req'[q] = req[q] /\ claimKey'[q] = claimKey[q] /\ fd'[q] = fd[q]
  BY DEF Finish, ProcTypes
<1>4. PcInv'
  BY <1>2, <1>3 DEF PcInv, Ops
<1> QED BY <1>1, <1>2, <1>3, <1>4

(* Returning, or going on to the next file of list_pending, keeps every    *)
(* record that stays in memory, with its request.                          *)
LEMMA ReturnKeeps ==
    ASSUME ProcTypes, PcInv, NEW p \in Users, Return(p)
    PROVE  /\ ProcTypes' /\ PcInv'
           /\ pc'[p] # "claim"
           /\ rec'[p] = Pending \/ (rec'[p] = rec[p] /\ req'[p] = req[p])
           /\ \A q \in Users \ {p} : /\ pc'[q] = pc[q] /\ rec'[q] = rec[q]
                                     /\ req'[q] = req[q] /\ claimKey'[q] = claimKey[q]
<1>1. CASE pc[p] = "list" \/ todo[p] # {}
  <2>1. /\ pc' = [pc EXCEPT ![p] = "scan"]
        /\ UNCHANGED <<req, todo, rec, fd, claimKey>>
    BY <1>1 DEF Return
  <2>2. ProcTypes' /\ PcInv'
    BY <2>1 DEF ProcTypes, PcInv, Pcs, Ops
  <2> QED BY <2>1, <2>2 DEF ProcTypes
<1>2. CASE ~ (pc[p] = "list" \/ todo[p] # {})
  BY <1>2, FinishKeeps DEF Return
<1> QED BY <1>1, <1>2

(* An operation that ends without touching an inode or a claim file keeps  *)
(* the grants and the claims of everybody.                                 *)
LEMMA EndKeeps ==
    ASSUME GrantInv, ClaimInv, NEW p \in Users,
           UNCHANGED <<disk, approved, claim, wins>>,
           pc'[p] # "claim",
           rec'[p] = Pending \/ (rec'[p] = rec[p] /\ req'[p] = req[p]),
           \A q \in Users \ {p} : /\ pc'[q] = pc[q] /\ rec'[q] = rec[q]
                                  /\ req'[q] = req[q] /\ claimKey'[q] = claimKey[q]
    PROVE  GrantInv' /\ ClaimInv'
<1>1. ASSUME NEW q \in Users, rec'[q].st \in Granted PROVE req'[q] \in approved
  <2>1. rec'[q] # Pending
    BY <1>1 DEF Pending, Granted
  <2>2. rec'[q] = rec[q] /\ req'[q] = req[q]
    BY <2>1
  <2> QED BY <1>1, <2>2 DEF GrantInv
<1>2. GrantInv'
  BY <1>1 DEF GrantInv
<1>3. \A q \in Users : pc'[q] = "claim" => q # p /\ pc[q] = "claim" /\ claimKey'[q] = claimKey[q]
  OBVIOUS
<1>4. ClaimInv'
  BY <1>3 DEF ClaimInv
<1> QED BY <1>2, <1>4

(* A check that rewrites the record in memory, on the way to _write, keeps *)
(* everything when the new record is no grant or a backed one.             *)
LEMMA CheckKeeps ==
    ASSUME ApprovalInv, NEW p \in Users, NEW r \in Record,
           req[p] \in Ids,
           rec' = [rec EXCEPT ![p] = r],
           pc' = [pc EXCEPT ![p] = "open"],
           r.st \in Granted => req[p] \in approved',
           approved \subseteq approved', approved' \subseteq Ids,
           UNCHANGED <<storeVars, req, todo, fd, claimKey, grants, shared, claimVars, crashes>>
    PROVE  ApprovalInv'
<1> USE DEF ApprovalInv
<1>1. rec' \in [Users -> Record] /\ pc' \in [Users -> Pcs]
  BY DEF ApprovalTypeOK, Pcs
<1>2. ApprovalTypeOK'
  BY <1>1 DEF ApprovalTypeOK, storeVars, claimVars
<1>3. \A q \in Users : /\ pc'[q] = IF q = p THEN "open" ELSE pc[q]
                       /\ rec'[q] = IF q = p THEN r ELSE rec[q]
  BY DEF ApprovalTypeOK
<1>4. PcInv'
  BY <1>3 DEF PcInv, Ops
<1>5. GrantInv'
  BY <1>3 DEF GrantInv, storeVars
<1>6. ClaimInv'
  BY <1>3 DEF ClaimInv, claimVars
<1> QED BY <1>2, <1>4, <1>5, <1>6

(* The overlap history stays a set of requests.                            *)
LEMMA ShareKeeps ==
    ASSUME shared \subseteq Ids, NEW p \in Users, NEW id \in Ids, Share(p, id)
    PROVE  shared' \subseteq Ids
BY DEF Share

(* The invariant holds in an empty approvals directory.                    *)
LEMMA InitIInv == ApprovalInit => ApprovalInv
BY RecordsAreContent, NoneAssumption, BoundAssumption
   DEF ApprovalInit, ApprovalInv, ApprovalTypeOK, PcInv, GrantInv, ClaimInv, Granted, Empty, Pending, Pcs, Ops

-----------------------------------------------------------------------------
(* Every step of every process keeps it.                                   *)
LEMMA StepIInv == ApprovalInv /\ [ApprovalNext]_approvalVars => ApprovalInv'
<1> SUFFICES ASSUME ApprovalInv, [ApprovalNext]_approvalVars PROVE ApprovalInv'
  OBVIOUS
<1> USE RecordsAreContent, NoneAssumption, BoundAssumption
        DEF ApprovalInv, PcInv, GrantInv, ClaimInv, Granted
<1>1. CASE UNCHANGED approvalVars
  BY <1>1 DEF approvalVars, storeVars, procVars, histVars, claimVars, ApprovalTypeOK
<1>2. ASSUME NEW id \in Ids, Expire(id) PROVE ApprovalInv'
  BY <1>2 DEF Expire, procVars, histVars, claimVars, ApprovalTypeOK
<1>3. ASSUME NEW p \in Users, NEW id \in Ids, Request(p, id) PROVE ApprovalInv'
  <2>1. ApprovalTypeOK'
    BY <1>3 DEF Request, histVars, claimVars, ApprovalTypeOK, Pcs
  <2>2. PcInv' /\ ClaimInv'
    BY <1>3 DEF Request, claimVars, ApprovalTypeOK, Ops
  <2>3. GrantInv'
    BY <1>3 DEF Request, histVars, ApprovalTypeOK, Pending
  <2> QED BY <2>1, <2>2, <2>3
<1>4. ASSUME NEW p \in Users, NEW id \in Ids, NEW op \in Ops, Read(p, op, id) PROVE ApprovalInv'
  <2>1. rec'[p] \in Record /\ rec'[p] = disk[id][final[id]] /\ final[id] \in Inodes
    BY <1>4, ReadGivesRecord DEF Read, ApprovalTypeOK, Readable
  <2>2. /\ req' = [req EXCEPT ![p] = id]
        /\ rec' = [rec EXCEPT ![p] = disk[id][final[id]]]
        /\ pc' = [pc EXCEPT ![p] = op]
        /\ shared' \subseteq Ids
        /\ UNCHANGED <<storeVars, todo, fd, claimKey, approved, grants, claimVars, crashes>>
    BY <1>4, ShareKeeps DEF Read, ApprovalTypeOK
  <2>3. ApprovalTypeOK'
    BY <2>1, <2>2 DEF storeVars, claimVars, ApprovalTypeOK, Pcs, Ops
  <2>4. PcInv' /\ ClaimInv'
    BY <2>2 DEF storeVars, claimVars, ApprovalTypeOK, Ops
  <2>5. GrantInv'
    BY <2>1, <2>2 DEF storeVars, ApprovalTypeOK
  <2> QED BY <2>3, <2>4, <2>5
<1>5. ASSUME NEW p \in Users, ListBegin(p) PROVE ApprovalInv'
  <2>1. ApprovalTypeOK'
    BY <1>5 DEF ListBegin, storeVars, histVars, claimVars, ApprovalTypeOK, Pcs
  <2>2. PcInv' /\ ClaimInv'
    BY <1>5 DEF ListBegin, claimVars, ApprovalTypeOK, Ops
  <2>3. GrantInv'
    BY <1>5 DEF ListBegin, storeVars, histVars, ApprovalTypeOK
  <2> QED BY <2>1, <2>2, <2>3
<1>6. ASSUME NEW p \in Users, ListEnd(p) PROVE ApprovalInv'
  <2>1. ProcTypes /\ Finish(p)
    BY <1>6 DEF ApprovalTypeOK, ProcTypes, ListEnd
  <2>2. ApprovalTypeOK'
    BY <1>6, <2>1, FinishKeeps DEF ListEnd, ApprovalTypeOK, ProcTypes, storeVars, histVars, claimVars
  <2>3. GrantInv' /\ ClaimInv'
    BY <1>6, <2>1, FinishKeeps, EndKeeps DEF ListEnd, storeVars, histVars, claimVars
  <2> QED BY <2>1, <2>2, <2>3, FinishKeeps
<1>7. ASSUME NEW p \in Users, NEW id \in Ids, ListRead(p, id) PROVE ApprovalInv'
  <2>1. CASE Readable(id) /\ disk[id][final[id]].st = "pending"
    <3>1. rec'[p] \in Record /\ rec'[p].st \notin Granted
      BY <1>7, <2>1, ReadGivesRecord DEF ListRead, ApprovalTypeOK
    <3>2. /\ todo' = [todo EXCEPT ![p] = @ \ {id}]
          /\ req' = [req EXCEPT ![p] = id]
          /\ rec' = [rec EXCEPT ![p] = disk[id][final[id]]]
          /\ pc' = [pc EXCEPT ![p] = "list"]
          /\ shared' \subseteq Ids
          /\ UNCHANGED <<storeVars, fd, claimKey, approved, grants, claimVars, crashes>>
      BY <1>7, <2>1, ShareKeeps DEF ListRead, ApprovalTypeOK
    <3>3. ApprovalTypeOK'
      BY <3>1, <3>2 DEF storeVars, claimVars, ApprovalTypeOK, Pcs, Ops
    <3>4. PcInv' /\ ClaimInv'
      BY <3>2 DEF storeVars, claimVars, ApprovalTypeOK, Ops
    <3>5. GrantInv'
      BY <3>1, <3>2 DEF storeVars, ApprovalTypeOK
    <3> QED BY <3>3, <3>4, <3>5
  <2>2. CASE ~ (Readable(id) /\ disk[id][final[id]].st = "pending")
    BY <1>7, <2>2 DEF ListRead, storeVars, histVars, claimVars, ApprovalTypeOK
  <2> QED BY <2>1, <2>2
<1>8. ASSUME NEW p \in Users, CheckExpired(p) PROVE ApprovalInv'
  <2>1. rec[p] \in Record /\ req[p] \in Ids
    BY <1>8 DEF CheckExpired, ApprovalTypeOK
  <2> DEFINE r == [rec[p] EXCEPT !.st = "expired"]
  <2>2. r \in Record /\ r.st \notin Granted
    BY <2>1 DEF Record, Statuses
  <2>3. rec' = [rec EXCEPT ![p] = r]
    BY <1>8 DEF CheckExpired, ApprovalTypeOK
  <2>4. /\ pc' = [pc EXCEPT ![p] = "open"]
        /\ approved' \subseteq Ids /\ approved' = approved
        /\ UNCHANGED <<storeVars, req, todo, fd, claimKey, grants, shared, claimVars, crashes>>
    BY <1>8 DEF CheckExpired, histVars, ApprovalTypeOK
  <2> HIDE DEF r
  <2> QED BY <2>1, <2>2, <2>3, <2>4, CheckKeeps
<1>9. ASSUME NEW p \in Users, CheckUnchanged(p) PROVE ApprovalInv'
  <2>1. ProcTypes /\ Return(p)
    BY <1>9 DEF ApprovalTypeOK, ProcTypes, CheckUnchanged
  <2>2. ApprovalTypeOK'
    BY <1>9, <2>1, ReturnKeeps DEF CheckUnchanged, ApprovalTypeOK, ProcTypes, storeVars, histVars, claimVars
  <2>3. GrantInv' /\ ClaimInv'
    BY <1>9, <2>1, ReturnKeeps, EndKeeps DEF CheckUnchanged, storeVars, histVars, claimVars
  <2> QED BY <2>1, <2>2, <2>3, ReturnKeeps
<1>10. ASSUME NEW p \in Users, CheckDecide(p) PROVE ApprovalInv'
  <2>1. rec[p] \in Record /\ req[p] \in Ids
    BY <1>10 DEF CheckDecide, ApprovalTypeOK, Ops
  <2> DEFINE st == IF pc[p] = "approve" THEN "approved" ELSE "denied"
             r == [rec[p] EXCEPT !.st = st, !.dec = TRUE]
  <2>2. st \in Statuses
    BY DEF Statuses
  <2>3. r \in Record /\ r.st = st
    BY <2>1, <2>2 DEF Record
  <2>4. rec' = [rec EXCEPT ![p] = r]
    BY <1>10 DEF CheckDecide, ApprovalTypeOK
  <2>5. approved \subseteq approved' /\ approved' \subseteq Ids
    BY <1>10, <2>1 DEF CheckDecide, ApprovalTypeOK
  <2>6. st \in Granted => req[p] \in approved'
    BY <1>10 DEF CheckDecide
  <2>7. /\ pc' = [pc EXCEPT ![p] = "open"]
        /\ UNCHANGED <<storeVars, req, todo, fd, claimKey, grants, shared, claimVars, crashes>>
    BY <1>10 DEF CheckDecide
  <2> HIDE DEF st, r
  <2> QED BY <2>1, <2>3, <2>4, <2>5, <2>6, <2>7, CheckKeeps
<1>11. ASSUME NEW p \in Users, CheckConsume(p) PROVE ApprovalInv'
  <2>1. rec[p] \in Record /\ req[p] \in Ids /\ rec[p].st \in Granted
    BY <1>11 DEF CheckConsume, ApprovalTypeOK, Ops
  <2> DEFINE r == [rec[p] EXCEPT !.st = "consumed", !.use = TRUE]
  <2>2. r \in Record
    BY <2>1 DEF Record, Statuses
  <2>3. rec' = [rec EXCEPT ![p] = r]
    BY <1>11 DEF CheckConsume, ApprovalTypeOK
  <2>4. req[p] \in approved
    BY <2>1
  <2>5. /\ pc' = [pc EXCEPT ![p] = "open"]
        /\ approved' \subseteq Ids /\ approved' = approved
        /\ UNCHANGED <<storeVars, req, todo, fd, claimKey, grants, shared, claimVars, crashes>>
    BY <1>11 DEF CheckConsume, histVars, ApprovalTypeOK
  <2> HIDE DEF r
  <2> QED BY <2>1, <2>2, <2>3, <2>4, <2>5, CheckKeeps
<1>12. ASSUME NEW p \in Users, WriteOpen(p) PROVE ApprovalInv'
  <2>1. req[p] \in Ids
    BY <1>12 DEF WriteOpen
  <2>2. PICK i \in Inodes : /\ tmp' = [tmp EXCEPT ![req[p]] = i]
                            /\ disk' = [disk EXCEPT ![req[p]][i] = Empty]
                            /\ fd' = [fd EXCEPT ![p] = i]
    BY <1>12 DEF WriteOpen
  <2>3. ApprovalTypeOK'
    BY <1>12, <2>1, <2>2 DEF WriteOpen, histVars, claimVars, ApprovalTypeOK, Pcs, Ops
  <2>4. PcInv' /\ ClaimInv'
    BY <1>12, <2>2 DEF WriteOpen, claimVars, ApprovalTypeOK, Ops
  <2>5. GrantInv'
    BY <1>12, <2>1, <2>2 DEF WriteOpen, histVars, ApprovalTypeOK, Empty
  <2> QED BY <2>3, <2>4, <2>5
<1>13. ASSUME NEW p \in Users, WriteDump(p) PROVE ApprovalInv'
  <2>1. req[p] \in Ids /\ fd[p] \in Inodes /\ rec[p] \in Record
    BY <1>13 DEF WriteDump, ApprovalTypeOK
  <2>2. PICK c \in Overwrite(rec[p], disk[req[p]][fd[p]]) :
            disk' = [disk EXCEPT ![req[p]][fd[p]] = c]
    BY <1>13 DEF WriteDump
  <2>3. c \in {rec[p], Garbage}
    BY <2>1, <2>2, OverwriteResult DEF ApprovalTypeOK
  <2>4. ApprovalTypeOK'
    BY <1>13, <2>1, <2>2, <2>3 DEF WriteDump, histVars, claimVars, ApprovalTypeOK, Pcs, Ops
  <2>5. PcInv' /\ ClaimInv'
    BY <1>13 DEF WriteDump, claimVars, ApprovalTypeOK, Ops
  <2>6. GrantInv'
    BY <1>13, <2>1, <2>2, <2>3 DEF WriteDump, histVars, ApprovalTypeOK, Garbage
  <2> QED BY <2>4, <2>5, <2>6
<1>14. ASSUME NEW p \in Users, WriteReplace(p) PROVE ApprovalInv'
  <2>1. ProcTypes /\ Return(p)
    BY <1>14 DEF ApprovalTypeOK, ProcTypes, WriteReplace
  <2>2. req[p] \in Ids /\ tmp[req[p]] \in Inodes
    BY <1>14 DEF WriteReplace, ApprovalTypeOK
  <2>3. final' \in [Ids -> Inodes \cup {None}] /\ tmp' \in [Ids -> Inodes \cup {None}]
    BY <1>14, <2>2 DEF WriteReplace, ApprovalTypeOK
  <2>4. grants' \in [Ids -> 0..2]
    <3>1. grants[req[p]] \in 0..2 /\ (grants[req[p]] < 2 => grants[req[p]] + 1 \in 0..2)
      BY <2>2 DEF ApprovalTypeOK
    <3> QED BY <1>14, <2>2, <3>1 DEF WriteReplace, ApprovalTypeOK
  <2>5. ApprovalTypeOK'
    BY <1>14, <2>1, <2>3, <2>4, ReturnKeeps DEF WriteReplace, ApprovalTypeOK, ProcTypes, claimVars
  <2>6. GrantInv' /\ ClaimInv'
    BY <1>14, <2>1, ReturnKeeps, EndKeeps DEF WriteReplace, claimVars
  <2> QED BY <2>1, <2>5, <2>6, ReturnKeeps
<1>15. ASSUME NEW p \in Users, WriteReplaceFails(p) PROVE ApprovalInv'
  <2>1. ApprovalTypeOK'
    BY <1>15 DEF WriteReplaceFails, storeVars, histVars, claimVars, ApprovalTypeOK, Pcs
  <2>2. PcInv' /\ ClaimInv'
    BY <1>15 DEF WriteReplaceFails, claimVars, ApprovalTypeOK, Ops
  <2>3. GrantInv'
    BY <1>15 DEF WriteReplaceFails, storeVars, histVars, ApprovalTypeOK
  <2> QED BY <2>1, <2>2, <2>3
<1>16. ASSUME NEW p \in Users, WriteUnlink(p) PROVE ApprovalInv'
  <2>1. ProcTypes /\ Finish(p)
    BY <1>16 DEF ApprovalTypeOK, ProcTypes, WriteUnlink
  <2>2. ApprovalTypeOK'
    BY <1>16, <2>1, FinishKeeps DEF WriteUnlink, ApprovalTypeOK, ProcTypes, histVars, claimVars
  <2>3. GrantInv' /\ ClaimInv'
    BY <1>16, <2>1, FinishKeeps, EndKeeps DEF WriteUnlink, histVars, claimVars
  <2> QED BY <2>1, <2>2, <2>3, FinishKeeps
<1>17. ASSUME NEW p \in Users, NEW k \in Keys, ClaimOpen(p, k) PROVE ApprovalInv'
  <2>1. ApprovalTypeOK'
    BY <1>17 DEF ClaimOpen, storeVars, histVars, ApprovalTypeOK, Pcs
  <2>2. PcInv' /\ GrantInv'
    BY <1>17 DEF ClaimOpen, storeVars, histVars, ApprovalTypeOK, Ops
  <2>3. ClaimInv'
    BY <1>17 DEF ClaimOpen, ApprovalTypeOK
  <2> QED BY <2>1, <2>2, <2>3
<1>18. ASSUME NEW p \in Users, ClaimWon(p) PROVE ApprovalInv'
  <2>1. ProcTypes /\ Finish(p)
    BY <1>18 DEF ApprovalTypeOK, ProcTypes, ClaimWon
  <2>2. claimKey[p] \in Keys /\ wins[claimKey[p]] = 0 /\ claim[claimKey[p]]
    BY <1>18 DEF ClaimWon
  <2>3. wins' = [wins EXCEPT ![claimKey[p]] = 1] /\ wins' \in [Keys -> Nat]
    BY <1>18, <2>2 DEF ClaimWon, ApprovalTypeOK
  <2>4. ApprovalTypeOK'
    BY <1>18, <2>1, <2>3, FinishKeeps DEF ClaimWon, ApprovalTypeOK, ProcTypes, storeVars, histVars
  <2>5. GrantInv'
    BY <1>18, <2>1, FinishKeeps DEF ClaimWon, storeVars, histVars, Pending
  <2>6. ClaimInv'
    <3>1. \A k \in Keys : wins'[k] = IF k = claimKey[p] THEN 1 ELSE wins[k]
      BY <2>3 DEF ApprovalTypeOK
    <3>2. \A q \in Users : pc'[q] = "claim" => q # p /\ pc[q] = "claim" /\ claimKey'[q] = claimKey[q]
      BY <2>1, FinishKeeps
    <3>3. claim' = claim /\ pc[p] = "claim"
      BY <1>18 DEF ClaimWon
    <3>4. \A k \in Keys : wins'[k] <= 1 /\ (~ claim'[k] => wins'[k] = 0)
      BY <2>2, <3>1, <3>3
    <3>5. \A q \in Users : pc'[q] = "claim" => claim'[claimKey'[q]] /\ wins'[claimKey'[q]] = 0
      BY <3>1, <3>2, <3>3
    <3> QED BY <3>2, <3>4, <3>5
  <2> QED BY <2>1, <2>4, <2>5, <2>6, FinishKeeps
<1>19. ASSUME NEW p \in Users, ClaimFails(p) PROVE ApprovalInv'
  <2>1. ProcTypes /\ Finish(p)
    BY <1>19 DEF ApprovalTypeOK, ProcTypes, ClaimFails
  <2>2. ApprovalTypeOK'
    BY <1>19, <2>1, FinishKeeps DEF ClaimFails, ApprovalTypeOK, ProcTypes, storeVars, histVars, claimVars
  <2>3. GrantInv' /\ ClaimInv'
    BY <1>19, <2>1, FinishKeeps, EndKeeps DEF ClaimFails, storeVars, histVars, claimVars
  <2> QED BY <2>1, <2>2, <2>3, FinishKeeps
<1>20. ASSUME NEW p \in Users, Kill(p) PROVE ApprovalInv'
  <2>1. ProcTypes /\ Finish(p)
    BY <1>20 DEF ApprovalTypeOK, ProcTypes, Kill
  <2>2. ApprovalTypeOK'
    BY <1>20, <2>1, FinishKeeps DEF Kill, ApprovalTypeOK, ProcTypes, storeVars, histVars, claimVars
  <2>3. GrantInv' /\ ClaimInv'
    BY <1>20, <2>1, FinishKeeps, EndKeeps DEF Kill, storeVars, histVars, claimVars
  <2> QED BY <2>1, <2>2, <2>3, FinishKeeps
<1>21. ASSUME NEW p \in Users, WriteDumpFails(p) PROVE ApprovalInv'
  <2>1. req[p] \in Ids /\ fd[p] \in Inodes
    BY <1>21 DEF WriteDumpFails
  <2>2. ApprovalTypeOK'
    BY <1>21, <2>1 DEF WriteDumpFails, histVars, claimVars, ApprovalTypeOK, Pcs, Ops
  <2>3. PcInv' /\ ClaimInv'
    BY <1>21 DEF WriteDumpFails, claimVars, ApprovalTypeOK, Ops
  <2>4. GrantInv'
    BY <1>21, <2>1 DEF WriteDumpFails, histVars, ApprovalTypeOK, Garbage
  <2> QED BY <2>2, <2>3, <2>4
<1> QED
  BY <1>1, <1>2, <1>3, <1>4, <1>5, <1>6, <1>7, <1>8, <1>9, <1>10, <1>11, <1>12,
     <1>13, <1>14, <1>15, <1>16, <1>17, <1>18, <1>19, <1>20, <1>21 DEF ApprovalNext, Check, Write

LEMMA InvariantHolds == ApprovalSpec => []ApprovalInv
BY InitIInv, StepIInv, PTL DEF ApprovalSpec

-----------------------------------------------------------------------------
(* Every variable of the approval store keeps its type.                    *)
THEOREM ApprovalsTyped == ApprovalSpec => []ApprovalTypeOK
<1>1. ApprovalInv => ApprovalTypeOK
  BY DEF ApprovalInv
<1> QED BY <1>1, InvariantHolds, PTL

(* No interleaving and no crash of get, decide, consume and list_pending   *)
(* turns a request nobody approved in time into an approved or consumed    *)
(* one.                                                                    *)
THEOREM GrantsAreApproved == ApprovalSpec => []GrantNeedsApproval
<1>1. ApprovalInv => GrantNeedsApproval
  <2> SUFFICES ASSUME ApprovalInv, NEW id \in Ids, StatusOf(id) \in Granted
               PROVE  id \in approved
    BY DEF GrantNeedsApproval, Granted
  <2>1. Readable(id)
    BY DEF StatusOf, Granted
  <2> QED BY <2>1, ReadGivesRecord DEF ApprovalInv, StatusOf
<1> QED BY <1>1, InvariantHolds, PTL

(* claim_once() is a mutual exclusion that is never released: one True per *)
(* key over the whole life of the directory.                               *)
THEOREM ClaimsAreOneShot == ApprovalSpec => []ClaimedOnce
<1>1. ApprovalInv => ClaimedOnce
  BY DEF ApprovalInv, ClaimInv, ClaimedOnce
<1> QED BY <1>1, InvariantHolds, PTL
-----------------------------------------------------------------------------
(* Requests on which no two processes have overlapped                      *)

\* One process at a time works on the request, in a file of its own: what it has
\* written is what it publishes, and the grant was handed out with the record
\* that is published.
Alone(id) ==
    /\ \A p, q \in Users : req[p] = id /\ req[q] = id => p = q
    /\ tmp[id] # None => tmp[id] # final[id]
    /\ final[id] # None => disk[id][final[id]].st \in Statuses
    /\ grants[id] # 0 => grants[id] = 1 /\ final[id] # None /\ disk[id][final[id]].st = "consumed"
    /\ \A p \in Users : req[p] = id =>
        /\ pc[p] \in Ops => grants[id] = 0 \/ rec[p].st = "consumed"
        /\ pc[p] \in {"open", "dump", "replace"} => grants[id] = 0
        /\ pc[p] = "dump" => tmp[id] = fd[p] /\ disk[id][fd[p]] = Empty
        /\ pc[p] = "replace" => tmp[id] # None /\ disk[id][tmp[id]] = rec[p]

\* A request nobody has made is nobody's, has no file and has granted nothing.
Unmade(id) == grants[id] = 0 /\ final[id] = None /\ \A p \in Users : req[p] # id

AloneOK(id) == (id \notin used => Unmade(id)) /\ (id \notin shared => Alone(id))
AloneInv == \A id \in Ids : AloneOK(id)

\* A step that leaves the files of a request alone, in which a process at most lets go
\* of it, keeps what holds of it.
LEMMA AloneUntouched ==
    ASSUME NEW id \in Ids, AloneOK(id),
           used \subseteq used', shared \subseteq shared',
           disk'[id] = disk[id], final'[id] = final[id], tmp'[id] = tmp[id],
           grants'[id] = grants[id],
           \A q \in Users : req'[q] = id =>
               /\ req[q] = id
               /\ \/ pc'[q] \in {"idle", "scan", "unlink", "claim"}
                  \/ pc'[q] = pc[q] /\ rec'[q] = rec[q] /\ fd'[q] = fd[q]
    PROVE  AloneOK(id)'
<1>1. id \notin used' => Unmade(id)'
  BY DEF AloneOK, Unmade
<1>2. ASSUME id \notin shared' PROVE Alone(id)'
  <2>1. Alone(id)
    BY <1>2 DEF AloneOK
  <2>2. \A p, q \in Users : req'[p] = id /\ req'[q] = id => p = q
    BY <2>1 DEF Alone
  <2>3. ASSUME NEW q \in Users, req'[q] = id
        PROVE  /\ pc'[q] \in Ops => grants'[id] = 0 \/ rec'[q].st = "consumed"
               /\ pc'[q] \in {"open", "dump", "replace"} => grants'[id] = 0
               /\ pc'[q] = "dump" => tmp'[id] = fd'[q] /\ disk'[id][fd'[q]] = Empty
               /\ pc'[q] = "replace" => tmp'[id] # None /\ disk'[id][tmp'[id]] = rec'[q]
    BY <2>1, <2>3 DEF Alone, Ops
  <2> QED BY <2>1, <2>2, <2>3 DEF Alone
<1> QED BY <1>1, <1>2 DEF AloneOK

\* The same when only the local state of p changes, and p works on another request.
LEMMA AloneElsewhere ==
    ASSUME ApprovalTypeOK, NEW id \in Ids, AloneOK(id), NEW p \in Users,
           used \subseteq used', shared \subseteq shared',
           disk'[id] = disk[id], final'[id] = final[id], tmp'[id] = tmp[id],
           grants'[id] = grants[id],
           req'[p] # id,
           \A q \in Users \ {p} : req'[q] = req[q] /\ pc'[q] = pc[q] /\ rec'[q] = rec[q] /\ fd'[q] = fd[q]
    PROVE  AloneOK(id)'
BY AloneUntouched

\* The end of an operation lets go of the request.
LEMMA AloneAtEnd ==
    ASSUME ApprovalTypeOK, NEW id \in Ids, AloneOK(id), NEW p \in Users, Finish(p) \/ Return(p),
           UNCHANGED <<disk, final, tmp, used, shared, grants>>
    PROVE  AloneOK(id)'
<1>1. \A q \in Users : /\ req'[q] = id => req[q] = id
                       /\ q # p => pc'[q] = pc[q] /\ rec'[q] = rec[q] /\ fd'[q] = fd[q]
                       /\ q = p => pc'[q] \in {"idle", "scan"}
  BY NoneAssumption DEF Finish, Return, ApprovalTypeOK
<1> QED BY <1>1, AloneUntouched

\* A check sends p on to _write with a record that has been neither granted nor published.
LEMMA AloneAtCheck ==
    ASSUME ApprovalTypeOK, NEW id \in Ids, AloneOK(id), NEW p \in Users,
           pc[p] \in Ops, rec[p].st # "consumed",
           pc' = [pc EXCEPT ![p] = "open"],
           \A q \in Users \ {p} : rec'[q] = rec[q],
           UNCHANGED <<storeVars, req, todo, fd, claimKey, grants, shared, claimVars, crashes>>
    PROVE  AloneOK(id)'
<1>1. CASE req[p] # id
  BY <1>1, AloneElsewhere DEF ApprovalTypeOK, storeVars
<1>2. CASE req[p] = id
  <2>1. id \in used'
    BY <1>2 DEF AloneOK, Unmade, storeVars
  <2>2. ASSUME id \notin shared' PROVE Alone(id)'
    <3>1. Alone(id) /\ grants[id] = 0
      BY <1>2, <2>2 DEF AloneOK, Alone
    <3>2. \A q \in Users : req'[q] = id => q = p
      BY <1>2, <3>1 DEF Alone
    <3>3. pc'[p] = "open"
      BY DEF ApprovalTypeOK
    <3> QED BY <3>1, <3>2, <3>3 DEF Alone, Ops, storeVars
  <2> QED BY <2>1, <2>2 DEF AloneOK
<1> QED BY <1>1, <1>2

\* A process takes up a request and reads its record.
LEMMA AloneAtRead ==
    ASSUME ApprovalTypeOK, NEW id \in Ids, AloneOK(id), NEW p \in Users, NEW mine \in Ids,
           NEW op \in Ops, AloneOK(mine), Readable(mine), Share(p, mine),
           req' = [req EXCEPT ![p] = mine],
           rec' = [rec EXCEPT ![p] = disk[mine][final[mine]]],
           pc' = [pc EXCEPT ![p] = op],
           UNCHANGED <<storeVars, fd, grants>>
    PROVE  AloneOK(id)'
<1>1. shared \subseteq shared'
  BY DEF Share
<1>2. CASE mine # id
  BY <1>1, <1>2, AloneElsewhere DEF ApprovalTypeOK, storeVars
<1>3. CASE mine = id
  <2>1. id \in used'
    BY <1>3 DEF storeVars, AloneOK, Unmade, Readable
  <2>2. ASSUME id \notin shared' PROVE Alone(id)'
    <3>1. Alone(id) /\ \A q \in Users \ {p} : req[q] # id
      BY <1>1, <1>3, <2>2 DEF Share, AloneOK
    <3>2. \A q \in Users : req'[q] = id => q = p
      BY <3>1 DEF ApprovalTypeOK
    <3>3. pc'[p] \in Ops /\ rec'[p] = disk[id][final[id]] /\ final[id] # None
      BY <1>3 DEF ApprovalTypeOK, Readable
    <3>4. grants[id] = 0 \/ rec'[p].st = "consumed"
      BY <3>1, <3>3 DEF Alone
    <3> QED BY <3>1, <3>2, <3>3, <3>4 DEF Alone, Ops, storeVars
  <2> QED BY <2>1, <2>2 DEF AloneOK
<1> QED BY <1>2, <1>3

\* The invariant holds in an empty approvals directory.
LEMMA InitAlone == ApprovalInit => AloneInv
BY NoneAssumption DEF ApprovalInit, AloneInv, AloneOK, Alone, Unmade, Ops

\* Every step of every process keeps it.
LEMMA StepAlone == ApprovalInv /\ AloneInv /\ [ApprovalNext]_approvalVars => AloneInv'
<1> SUFFICES ASSUME ApprovalInv, AloneInv, [ApprovalNext]_approvalVars, NEW id \in Ids PROVE AloneOK(id)'
  BY DEF AloneInv
<1>0. ApprovalTypeOK /\ PcInv /\ AloneOK(id)
  BY DEF ApprovalInv, AloneInv
<1> USE NoneAssumption
<1>1. CASE UNCHANGED approvalVars
  BY <1>0, <1>1, AloneUntouched DEF approvalVars, storeVars, procVars, histVars
<1>2. ASSUME NEW i \in Ids, Expire(i) PROVE AloneOK(id)'
  BY <1>0, <1>2, AloneUntouched DEF Expire, procVars, histVars
<1>3. ASSUME NEW p \in Users, NEW mine \in Ids, Request(p, mine) PROVE AloneOK(id)'
  <2>1. /\ req'[p] = mine /\ pc'[p] = "open"
        /\ \A q \in Users \ {p} : req'[q] = req[q] /\ pc'[q] = pc[q] /\ rec'[q] = rec[q] /\ fd'[q] = fd[q]
        /\ UNCHANGED <<disk, final, tmp, grants, shared>>
        /\ used' = used \cup {mine} /\ mine \notin used
    BY <1>0, <1>3 DEF Request, ApprovalTypeOK, histVars
  <2>2. CASE mine # id
    BY <1>0, <2>1, <2>2, AloneElsewhere
  <2>3. CASE mine = id
    <3>1. Unmade(id)
      BY <1>0, <2>1, <2>3 DEF AloneOK
    <3>2. \A q \in Users : req'[q] = id => q = p
      BY <2>1, <3>1 DEF Unmade
    <3>3. id \notin shared => (tmp[id] # None => tmp[id] # final[id])
      BY <3>1 DEF Unmade
    <3>4. id \notin shared' => Alone(id)'
      BY <2>1, <3>1, <3>2, <3>3 DEF Alone, Unmade, Ops
    <3> QED BY <2>1, <2>3, <3>4 DEF AloneOK
  <2> QED BY <2>2, <2>3
<1>4. ASSUME NEW p \in Users, NEW mine \in Ids, NEW op \in Ops, Read(p, op, mine) PROVE AloneOK(id)'
  BY <1>0, <1>4, AloneAtRead DEF Read, AloneInv
<1>5. ASSUME NEW p \in Users, ListBegin(p) PROVE AloneOK(id)'
  <2>1. \A q \in Users : pc'[q] = pc[q] \/ pc'[q] = "scan"
    BY <1>0, <1>5 DEF ListBegin, ApprovalTypeOK
  <2> QED BY <1>0, <1>5, <2>1, AloneUntouched DEF ListBegin, storeVars, histVars
<1>6. ASSUME NEW p \in Users, ListEnd(p) PROVE AloneOK(id)'
  BY <1>0, <1>6, AloneAtEnd DEF ListEnd, storeVars, histVars
<1>7. ASSUME NEW p \in Users, NEW mine \in Ids, ListRead(p, mine) PROVE AloneOK(id)'
  <2>1. CASE Readable(mine) /\ disk[mine][final[mine]].st = "pending"
    BY <1>0, <1>7, <2>1, AloneAtRead DEF ListRead, AloneInv, Ops
  <2>2. CASE ~ (Readable(mine) /\ disk[mine][final[mine]].st = "pending")
    BY <1>0, <1>7, <2>2, AloneUntouched DEF ListRead, storeVars
  <2> QED BY <2>1, <2>2
<1>8. ASSUME NEW p \in Users, CheckExpired(p) PROVE AloneOK(id)'
  <2>1. rec[p].st # "consumed" /\ \A q \in Users \ {p} : rec'[q] = rec[q]
    BY <1>0, <1>8 DEF CheckExpired, IsExpired, ApprovalTypeOK
  <2> QED BY <1>0, <1>8, <2>1, AloneAtCheck DEF CheckExpired, histVars
<1>9. ASSUME NEW p \in Users, CheckUnchanged(p) PROVE AloneOK(id)'
  BY <1>0, <1>9, AloneAtEnd DEF CheckUnchanged, storeVars, histVars
<1>10. ASSUME NEW p \in Users, CheckDecide(p) PROVE AloneOK(id)'
  <2>1. /\ rec[p].st # "consumed" /\ pc[p] \in Ops
        /\ \A q \in Users \ {p} : rec'[q] = rec[q]
    BY <1>0, <1>10 DEF CheckDecide, Ops, ApprovalTypeOK
  <2> QED BY <1>0, <1>10, <2>1, AloneAtCheck DEF CheckDecide
<1>11. ASSUME NEW p \in Users, CheckConsume(p) PROVE AloneOK(id)'
  <2>1. /\ rec[p].st # "consumed" /\ pc[p] \in Ops
        /\ \A q \in Users \ {p} : rec'[q] = rec[q]
    BY <1>0, <1>11 DEF CheckConsume, Ops, ApprovalTypeOK
  <2> QED BY <1>0, <1>11, <2>1, AloneAtCheck DEF CheckConsume, histVars
<1>12. ASSUME NEW p \in Users, WriteOpen(p) PROVE AloneOK(id)'
  <2>1. PICK i \in Inodes : /\ IF tmp[req[p]] # None THEN i = tmp[req[p]] ELSE ~ InUse(req[p], i)
                            /\ tmp' = [tmp EXCEPT ![req[p]] = i]
                            /\ disk' = [disk EXCEPT ![req[p]][i] = Empty]
                            /\ fd' = [fd EXCEPT ![p] = i]
    BY <1>12 DEF WriteOpen
  <2>2. /\ pc[p] = "open" /\ req[p] \in Ids
        /\ pc' = [pc EXCEPT ![p] = "dump"]
        /\ UNCHANGED <<final, used, req, rec, shared, grants>>
    BY <1>0, <1>12 DEF WriteOpen, PcInv, histVars
  <2>3. CASE req[p] # id
    BY <1>0, <2>1, <2>2, <2>3, AloneElsewhere DEF ApprovalTypeOK
  <2>4. CASE req[p] = id
    <3>1. id \in used'
      BY <1>0, <2>2, <2>4 DEF AloneOK, Unmade
    <3>2. ASSUME id \notin shared' PROVE Alone(id)'
      <4>1. Alone(id)
        BY <1>0, <2>2, <3>2 DEF AloneOK
      <4>2. i # final[id] /\ i # None
        BY <2>1, <2>4, <4>1 DEF Alone, InUse
      <4>3. /\ tmp'[id] = i /\ fd'[p] = i /\ disk'[id][i] = Empty /\ pc'[p] = "dump"
            /\ \A j \in Inodes \ {i} : disk'[id][j] = disk[id][j]
        BY <1>0, <2>1, <2>2, <2>4 DEF ApprovalTypeOK
      <4>4. final[id] # None => final[id] \in Inodes \ {i}
        BY <1>0, <4>2 DEF ApprovalTypeOK
      <4>5. \A q \in Users : req'[q] = id => q = p
        BY <2>2, <2>4, <4>1 DEF Alone
      <4>6. grants[id] = 0
        BY <2>2, <2>4, <4>1 DEF Alone
      <4> QED BY <2>2, <4>1, <4>2, <4>3, <4>4, <4>5, <4>6 DEF Alone, Ops
    <3> QED BY <3>1, <3>2 DEF AloneOK
  <2> QED BY <2>3, <2>4
<1>13. ASSUME NEW p \in Users, WriteDump(p) PROVE AloneOK(id)'
  <2>1. PICK c \in Overwrite(rec[p], disk[req[p]][fd[p]]) :
            disk' = [disk EXCEPT ![req[p]][fd[p]] = c]
    BY <1>13 DEF WriteDump
  <2>2. /\ pc[p] = "dump" /\ req[p] \in Ids /\ fd[p] \in Inodes
        /\ pc' = [pc EXCEPT ![p] = "replace"]
        /\ \A q \in Users \ {p} : fd'[q] = fd[q]
        /\ UNCHANGED <<final, tmp, used, req, rec, shared, grants>>
    BY <1>0, <1>13 DEF WriteDump, PcInv, histVars, ApprovalTypeOK
  <2>3. CASE req[p] # id
    BY <1>0, <2>1, <2>2, <2>3, AloneElsewhere DEF ApprovalTypeOK
  <2>4. CASE req[p] = id
    <3>1. id \in used'
      BY <1>0, <2>2, <2>4 DEF AloneOK, Unmade
    <3>2. ASSUME id \notin shared' PROVE Alone(id)'
      <4>1. Alone(id)
        BY <1>0, <2>2, <3>2 DEF AloneOK
      <4>2. tmp[id] = fd[p] /\ fd[p] # None /\ fd[p] # final[id] /\ disk[id][fd[p]] = Empty
        BY <2>2, <2>4, <4>1 DEF Alone
      <4>3. c = rec[p]
        <5>1. disk[req[p]][fd[p]].st = "empty" /\ Weight(disk[req[p]][fd[p]]) = 0
          BY <2>4, <4>2 DEF Empty, Weight
        <5>2. Weight(rec[p]) \in 0..2
          BY DEF Weight
        <5>3. Overwrite(rec[p], disk[req[p]][fd[p]]) = {rec[p]}
          BY <5>1, <5>2 DEF Overwrite
        <5> QED BY <2>1, <5>3
      <4>4. /\ disk'[id][fd[p]] = rec[p] /\ pc'[p] = "replace"
            /\ \A j \in Inodes \ {fd[p]} : disk'[id][j] = disk[id][j]
        BY <1>0, <2>1, <2>2, <2>4, <4>3 DEF ApprovalTypeOK
      <4>5. final[id] # None => final[id] \in Inodes \ {fd[p]}
        BY <1>0, <4>2 DEF ApprovalTypeOK
      <4>6. \A q \in Users : req'[q] = id => q = p
        BY <2>2, <2>4, <4>1 DEF Alone
      <4>7. grants[id] = 0
        BY <2>2, <2>4, <4>1 DEF Alone
      <4> QED BY <2>2, <4>1, <4>2, <4>4, <4>5, <4>6, <4>7 DEF Alone, Ops
    <3> QED BY <3>1, <3>2 DEF AloneOK
  <2> QED BY <2>3, <2>4
<1>14. ASSUME NEW p \in Users, WriteDumpFails(p) PROVE AloneOK(id)'
  <2>1. /\ pc[p] = "dump" /\ req[p] \in Ids /\ fd[p] \in Inodes
        /\ disk' = [disk EXCEPT ![req[p]][fd[p]] = Garbage]
        /\ pc' = [pc EXCEPT ![p] = "unlink"]
        /\ \A q \in Users \ {p} : fd'[q] = fd[q]
        /\ UNCHANGED <<final, tmp, used, req, rec, shared, grants>>
    BY <1>0, <1>14 DEF WriteDumpFails, PcInv, histVars, ApprovalTypeOK
  <2>2. CASE req[p] # id
    BY <1>0, <2>1, <2>2, AloneElsewhere DEF ApprovalTypeOK
  <2>3. CASE req[p] = id
    <3>1. id \in used'
      BY <1>0, <2>1, <2>3 DEF AloneOK, Unmade
    <3>2. ASSUME id \notin shared' PROVE Alone(id)'
      <4>1. Alone(id)
        BY <1>0, <2>1, <3>2 DEF AloneOK
      <4>2. fd[p] # final[id] /\ grants[id] = 0
        BY <2>1, <2>3, <4>1 DEF Alone
      <4>3. \A j \in Inodes \ {fd[p]} : disk'[id][j] = disk[id][j]
        BY <1>0, <2>1, <2>3 DEF ApprovalTypeOK
      <4>4. final[id] # None => final[id] \in Inodes \ {fd[p]}
        BY <1>0, <4>2 DEF ApprovalTypeOK
      <4>5. pc'[p] = "unlink" /\ \A q \in Users : req'[q] = id => q = p
        BY <1>0, <2>1, <2>3, <4>1 DEF Alone, ApprovalTypeOK
      <4> QED BY <2>1, <4>1, <4>2, <4>3, <4>4, <4>5 DEF Alone, Ops
    <3> QED BY <3>1, <3>2 DEF AloneOK
  <2> QED BY <2>2, <2>3
<1>15. ASSUME NEW p \in Users, WriteReplace(p) PROVE AloneOK(id)'
  <2>1. /\ pc[p] = "replace" /\ req[p] \in Ids /\ tmp[req[p]] # None
        /\ final' = [final EXCEPT ![req[p]] = tmp[req[p]]]
        /\ tmp' = [tmp EXCEPT ![req[p]] = None]
        /\ grants' = IF rec[p].st = "consumed" /\ grants[req[p]] < 2
                       THEN [grants EXCEPT ![req[p]] = @ + 1] ELSE grants
        /\ UNCHANGED <<disk, used, shared>>
    BY <1>0, <1>15 DEF WriteReplace, PcInv
  <2>2. \A q \in Users : /\ req'[q] = id => req[q] = id
                         /\ q # p => req'[q] = req[q] /\ pc'[q] = pc[q] /\ rec'[q] = rec[q] /\ fd'[q] = fd[q]
                         /\ q = p => pc'[q] \in {"idle", "scan"}
    BY <1>0, <1>15 DEF WriteReplace, Return, Finish, ApprovalTypeOK
  <2>3. CASE req[p] # id
    <3>1. final'[id] = final[id] /\ tmp'[id] = tmp[id] /\ grants'[id] = grants[id]
      BY <1>0, <2>1, <2>3 DEF ApprovalTypeOK
    <3> QED BY <1>0, <2>1, <2>2, <3>1, AloneUntouched
  <2>4. CASE req[p] = id
    <3>1. id \in used'
      BY <1>0, <2>1, <2>4 DEF AloneOK, Unmade
    <3>2. ASSUME id \notin shared' PROVE Alone(id)'
      <4>1. Alone(id)
        BY <1>0, <2>1, <3>2 DEF AloneOK
      <4>2. grants[id] = 0 /\ disk[id][tmp[id]] = rec[p]
        BY <2>1, <2>4, <4>1 DEF Alone
      <4>3. final'[id] = tmp[id] /\ tmp'[id] = None /\ tmp[id] # None
        BY <1>0, <2>1, <2>4 DEF ApprovalTypeOK
      <4>4. rec[p].st \in Statuses
        BY <1>0 DEF ApprovalTypeOK, Record
      <4>5. grants'[id] # 0 => grants'[id] = 1 /\ rec[p].st = "consumed"
        BY <1>0, <2>1, <2>4, <4>2 DEF ApprovalTypeOK
      <4>6. \A q \in Users : req'[q] = id => q = p /\ pc'[q] \in {"idle", "scan"}
        BY <2>2, <2>4, <4>1 DEF Alone
      <4> QED BY <2>1, <4>2, <4>3, <4>4, <4>5, <4>6 DEF Alone, Ops
    <3> QED BY <3>1, <3>2 DEF AloneOK
  <2> QED BY <2>3, <2>4
<1>16. ASSUME NEW p \in Users, WriteReplaceFails(p) PROVE AloneOK(id)'
  <2>1. \A q \in Users : pc'[q] = pc[q] \/ pc'[q] = "unlink"
    BY <1>0, <1>16 DEF WriteReplaceFails, ApprovalTypeOK
  <2> QED BY <1>0, <1>16, <2>1, AloneUntouched DEF WriteReplaceFails, storeVars, histVars
<1>17. ASSUME NEW p \in Users, WriteUnlink(p) PROVE AloneOK(id)'
  <2>1. /\ req[p] \in Ids /\ tmp' = [tmp EXCEPT ![req[p]] = None]
        /\ UNCHANGED <<disk, final, used, shared, grants>>
    BY <1>0, <1>17 DEF WriteUnlink, PcInv, histVars
  <2>2. \A q \in Users : /\ req'[q] = id => req[q] = id /\ q # p
                         /\ q # p => pc'[q] = pc[q] /\ rec'[q] = rec[q] /\ fd'[q] = fd[q]
    BY <1>0, <1>17 DEF WriteUnlink, Finish, ApprovalTypeOK
  <2>3. CASE req[p] # id
    BY <1>0, <2>1, <2>2, <2>3, AloneUntouched DEF ApprovalTypeOK
  <2>4. CASE req[p] = id
    <3>1. id \in used'
      BY <1>0, <2>1, <2>4 DEF AloneOK, Unmade
    <3>2. ASSUME id \notin shared' PROVE Alone(id)'
      <4>1. Alone(id) /\ tmp'[id] = None
        BY <1>0, <2>1, <2>4, <3>2 DEF AloneOK, ApprovalTypeOK
      <4>2. \A q \in Users : req'[q] # id
        BY <2>2, <2>4, <4>1 DEF Alone
      <4> QED BY <2>1, <4>1, <4>2 DEF Alone
    <3> QED BY <3>1, <3>2 DEF AloneOK
  <2> QED BY <2>3, <2>4
<1>18. ASSUME NEW p \in Users, NEW k \in Keys, ClaimOpen(p, k) PROVE AloneOK(id)'
  <2>1. \A q \in Users : pc'[q] = pc[q] \/ pc'[q] = "claim"
    BY <1>0, <1>18 DEF ClaimOpen, ApprovalTypeOK
  <2> QED BY <1>0, <1>18, <2>1, AloneUntouched DEF ClaimOpen, storeVars, histVars
<1>19. ASSUME NEW p \in Users, ClaimWon(p) PROVE AloneOK(id)'
  BY <1>0, <1>19, AloneAtEnd DEF ClaimWon, storeVars, histVars
<1>20. ASSUME NEW p \in Users, ClaimFails(p) PROVE AloneOK(id)'
  BY <1>0, <1>20, AloneAtEnd DEF ClaimFails, storeVars, histVars
<1>21. ASSUME NEW p \in Users, Kill(p) PROVE AloneOK(id)'
  BY <1>0, <1>21, AloneAtEnd DEF Kill, storeVars, histVars
<1> QED
  BY <1>1, <1>2, <1>3, <1>4, <1>5, <1>6, <1>7, <1>8, <1>9, <1>10, <1>11, <1>12, <1>13, <1>14,
     <1>15, <1>16, <1>17, <1>18, <1>19, <1>20, <1>21 DEF ApprovalNext, Check, Write

LEMMA AloneHolds == ApprovalSpec => []AloneInv
BY InvariantHolds, InitAlone, StepAlone, PTL DEF ApprovalSpec

(* The docstring of _write ("atomic write"), for a request on which no two *)
(* processes overlapped: wherever its writer is killed or fails, the file  *)
(* of the request holds a complete record.                                 *)
THEOREM FilesAreComplete == ApprovalSpec => []FileComplete
<1>1. AloneInv => FileComplete
  BY DEF AloneInv, AloneOK, Alone, FileComplete, Readable
<1> QED BY <1>1, AloneHolds, PTL

(* For such a request consume() hands the grant out once.                  *)
THEOREM GrantsAreOneShot == ApprovalSpec => []ConsumedOnce
<1>1. AloneInv /\ ApprovalTypeOK => ConsumedOnce
  BY DEF AloneInv, AloneOK, Alone, ConsumedOnce, ApprovalTypeOK
<1> QED BY <1>1, AloneHolds, ApprovalsTyped, PTL
=============================================================================
