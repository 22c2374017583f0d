--------------------------- MODULE ApprovalStore ---------------------------
(***************************************************************************)
(* The one-shot approval channel of approvals.py: a directory of files,    *)
(* one JSON record per request, that the daemon, the API and every         *)
(* `trm approve` process read and rewrite without a lock.                  *)
(*                                                                         *)
(* An operation is a read of <id>.json, a check of what was read, and a    *)
(* `_write`: open the temporary file <id>.json.tmp, dump the record into   *)
(* it, os.replace it over <id>.json.  The name of the temporary file is    *)
(* the same in every process, so the model keeps the inodes behind the     *)
(* names: a descriptor opened on the temporary file still writes to that   *)
(* inode after another process has renamed it to <id>.json.                *)
(*                                                                         *)
(* A record is its status and which of decided_at and used_at are set: the *)
(* other fields never change after `request`.  One json.dump of a record   *)
(* (a few hundred bytes, buffered) is a single write at offset 0.          *)
(***************************************************************************)
EXTENDS Naturals, FiniteSets

CONSTANTS
    Users,      \* processes that share the approvals directory
    Ids,        \* request ids (uuid4: never reused)
    Keys,       \* keys of one-time claims
    Inodes,     \* inodes of one request's files
    None,       \* no inode behind a name or a descriptor, no request, no key
    MaxCrashes  \* bound: how many times a process may be killed

ASSUME NoneAssumption == None \notin Inodes \cup Ids \cup Keys
ASSUME BoundAssumption == MaxCrashes \in Nat

VARIABLES
    disk,       \* disk[id][i]: content of inode i of request id
    final,      \* final[id]: the inode named <id>.json
    tmp,        \* tmp[id]: the inode named <id>.json.tmp
    used,       \* ids that uuid4 has handed out
    expired,    \* ids whose expires_at has passed
    pc,         \* what each process does next
    req,        \* the request id a process works on
    todo,       \* list_pending: the ids whose files are still to be read
    rec,        \* the record a process holds in memory
    fd,         \* the inode a process has open for writing
    claimKey,   \* the key a process is claiming
    approved,   \* history: the ids for which some decide() chose APPROVED
    grants,     \* history: how many consume() calls returned a grant (2: or more)
    shared,     \* history: the ids on which operations of two processes have overlapped
    claim,      \* claim[k]: does the claim file of key k exist?
    wins,       \* history: how many claim_once calls returned True for k
    crashes     \* processes killed so far

storeVars == <<disk, final, tmp, used, expired>>
procVars  == <<pc, req, todo, rec, fd, claimKey>>
histVars  == <<approved, grants, shared>>
claimVars == <<claim, wins>>
approvalVars == <<storeVars, procVars, histVars, claimVars, crashes>>

-----------------------------------------------------------------------------
Statuses == {"pending", "approved", "denied", "expired", "consumed"}

\* _TERMINAL_STATUSES
Terminal == Statuses \ {"pending"}

\* What an inode holds: a record, nothing yet, or bytes json.loads refuses.
Content == [st : Statuses \cup {"empty", "garbage"}, dec : BOOLEAN, use : BOOLEAN]

Record == [st : Statuses, dec : BOOLEAN, use : BOOLEAN]

Empty   == [st |-> "empty",   dec |-> FALSE, use |-> FALSE]
Garbage == [st |-> "garbage", dec |-> FALSE, use |-> FALSE]
Pending == [st |-> "pending", dec |-> FALSE, use |-> FALSE]

Ops == {"get", "approve", "deny", "consume", "list"}

ApprovalInit ==
    /\ disk = [id \in Ids |-> [i \in Inodes |-> Empty]]
    /\ final = [id \in Ids |-> None]
    /\ tmp = [id \in Ids |-> None]
    /\ used = {}
    /\ expired = {}
    /\ pc = [p \in Users |-> "idle"]
    /\ req = [p \in Users |-> None]
    /\ todo = [p \in Users |-> {}]
    /\ rec = [p \in Users |-> Pending]
    /\ fd = [p \in Users |-> None]
    /\ claimKey = [p \in Users |-> None]
    /\ approved = {}
    /\ grants = [id \in Ids |-> 0]
    /\ shared = {}
    /\ claim = [k \in Keys |-> FALSE]
    /\ wins = [k \in Keys |-> 0]
    /\ crashes = 0

\* The operation of p is over: it returned, raised or was killed.
Finish(p) ==
    /\ pc' = [pc EXCEPT ![p] = "idle"]
    /\ req' = [req EXCEPT ![p] = None]
    /\ todo' = [todo EXCEPT ![p] = {}]
    /\ rec' = [rec EXCEPT ![p] = Pending]
    /\ fd' = [fd EXCEPT ![p] = None]
    /\ claimKey' = [claimKey EXCEPT ![p] = None]

-----------------------------------------------------------------------------
(* _read: a missing file, an empty one and bad JSON all read as None.      *)
Readable(id) == final[id] # None /\ disk[id][final[id]].st \in Statuses

\* ApprovalRequest.is_expired: only a pending record can be expired.
IsExpired(id, r) == r.st = "pending" /\ id \in expired

\* Time passes expires_at of a request.
Expire(id) ==
    /\ id \in used \ expired
    /\ expired' = expired \cup {id}
    /\ UNCHANGED <<disk, final, tmp, used, procVars, histVars, claimVars, crashes>>

\* request: a fresh id and a pending record, on its way to _write.
Request(p, id) ==
    /\ pc[p] = "idle"
    /\ id \notin used
    /\ used' = used \cup {id}
    /\ req' = [req EXCEPT ![p] = id]
    /\ rec' = [rec EXCEPT ![p] = Pending]
    /\ pc' = [pc EXCEPT ![p] = "open"]
    /\ UNCHANGED <<disk, final, tmp, expired, todo, fd, claimKey, histVars, claimVars, crashes>>

\* p begins to work on id: does another process?
Share(p, id) ==
    shared' = IF \E q \in Users \ {p} : req[q] = id THEN shared \cup {id} ELSE shared

\* get, decide and consume begin with _read; None ends them at once.
Read(p, op, id) ==
    /\ pc[p] = "idle"
    /\ op \in Ops \ {"list"}
    /\ Readable(id)
    /\ req' = [req EXCEPT ![p] = id]
    /\ rec' = [rec EXCEPT ![p] = disk[id][final[id]]]
    /\ pc' = [pc EXCEPT ![p] = op]
    /\ Share(p, id)
    /\ UNCHANGED <<storeVars, todo, fd, claimKey, approved, grants, claimVars, crashes>>

\* list_pending: the directory is globbed once ...
ListBegin(p) ==
    /\ pc[p] = "idle"
    /\ \E id \in Ids : final[id] # None
    /\ todo' = [todo EXCEPT ![p] = {id \in Ids : final[id] # None}]
    /\ pc' = [pc EXCEPT ![p] = "scan"]
    /\ UNCHANGED <<storeVars, req, rec, fd, claimKey, histVars, claimVars, crashes>>

\* ... then each file is read in turn; unreadable and non-pending ones are skipped.
ListRead(p, id) ==
    /\ pc[p] = "scan"
    /\ id \in todo[p]
    /\ todo' = [todo EXCEPT ![p] = @ \ {id}]
    /\ IF Readable(id) /\ disk[id][final[id]].st = "pending"
         THEN /\ req' = [req EXCEPT ![p] = id]
              /\ rec' = [rec EXCEPT ![p] = disk[id][final[id]]]
              /\ pc' = [pc EXCEPT ![p] = "list"]
              /\ Share(p, id)
         ELSE UNCHANGED <<req, rec, pc, shared>>
    /\ UNCHANGED <<storeVars, fd, claimKey, approved, grants, claimVars, crashes>>

ListEnd(p) ==
    /\ pc[p] = "scan"
    /\ todo[p] = {}
    /\ Finish(p)
    /\ UNCHANGED <<storeVars, histVars, claimVars, crashes>>

-----------------------------------------------------------------------------
(* The check of the record in memory: what is to be written back, if       *)
(* anything is.                                                            *)

\* p returns from an operation, or goes on to the next file of list_pending.
Return(p) ==
    IF pc[p] = "list" \/ todo[p] # {}
      THEN /\ pc' = [pc EXCEPT ![p] = "scan"]
           /\ UNCHANGED <<req, todo, rec, fd, claimKey>>
      ELSE Finish(p)

\* The first branch of get, decide, consume and list_pending: fail closed.
CheckExpired(p) ==
    /\ pc[p] \in Ops
    /\ IsExpired(req[p], rec[p])
    /\ rec' = [rec EXCEPT ![p].st = "expired"]
    /\ pc' = [pc EXCEPT ![p] = "open"]
    /\ UNCHANGED <<storeVars, req, todo, fd, claimKey, histVars, claimVars, crashes>>

\* A record the operation must return as it is.
CheckUnchanged(p) ==
    /\ pc[p] \in Ops
    /\ ~ IsExpired(req[p], rec[p])
    /\ \/ pc[p] \in {"get", "list"}
       \/ pc[p] \in {"approve", "deny"} /\ rec[p].st # "pending"
       \/ pc[p] = "consume" /\ rec[p].st # "approved"
    /\ Return(p)
    /\ UNCHANGED <<storeVars, histVars, claimVars, crashes>>

\* decide: a pending record that has not expired gets its decision.
CheckDecide(p) ==
    /\ pc[p] \in {"approve", "deny"}
    /\ ~ IsExpired(req[p], rec[p])
    /\ rec[p].st = "pending"
    /\ rec' = [rec EXCEPT ![p].st = IF pc[p] = "approve" THEN "approved" ELSE "denied",
                          ![p].dec = TRUE]
    /\ approved' = IF pc[p] = "approve" THEN approved \cup {req[p]} ELSE approved
    /\ pc' = [pc EXCEPT ![p] = "open"]
    /\ UNCHANGED <<storeVars, req, todo, fd, claimKey, grants, shared, claimVars, crashes>>

\* Mutant: consume() without the `status != STATUS_APPROVED` return.
ConsumeAnyStatus(p) ==
    /\ pc[p] = "consume"
    /\ rec' = [rec EXCEPT ![p].st = "consumed", ![p].use = TRUE]
    /\ pc' = [pc EXCEPT ![p] = "open"]
    /\ UNCHANGED <<storeVars, req, todo, fd, claimKey, histVars, claimVars, crashes>>

\* Mutant: consume() also takes a record that is already consumed.
ConsumeAgain(p) ==
    /\ pc[p] = "consume"
    /\ rec[p].st \in {"approved", "consumed"}
    /\ rec' = [rec EXCEPT ![p].st = "consumed", ![p].use = TRUE]
    /\ pc' = [pc EXCEPT ![p] = "open"]
    /\ UNCHANGED <<storeVars, req, todo, fd, claimKey, histVars, claimVars, crashes>>

\* consume: an approved record is turned into consumed; used_at is already set
\* or set now.
CheckConsume(p) ==
    /\ pc[p] = "consume"
    /\ rec[p].st = "approved"
    /\ rec' = [rec EXCEPT ![p].st = "consumed", ![p].use = TRUE]
    /\ pc' = [pc EXCEPT ![p] = "open"]
    /\ UNCHANGED <<storeVars, req, todo, fd, claimKey, histVars, claimVars, crashes>>

-----------------------------------------------------------------------------
(* _write                                                                  *)

InUse(id, i) ==
    \/ i \in {final[id], tmp[id]}
    \/ \E p \in Users : req[p] = id /\ fd[p] = i

\* Mutant: <id>.json itself is opened and truncated.
WriteOpenInPlace(p) ==
    /\ pc[p] = "open"
    /\ LET id == req[p] IN
       \E i \in Inodes :
         /\ IF final[id] # None THEN i = final[id] ELSE ~ InUse(id, i)
         /\ final' = [final EXCEPT ![id] = i]
         /\ tmp' = [tmp EXCEPT ![id] = i]
         /\ disk' = [disk EXCEPT ![id][i] = Empty]
         /\ fd' = [fd EXCEPT ![p] = i]
    /\ pc' = [pc EXCEPT ![p] = "dump"]
    /\ UNCHANGED <<used, expired, req, todo, rec, claimKey, histVars, claimVars, crashes>>

\* os.open(tmp, O_WRONLY | O_CREAT | O_TRUNC): the existing temporary file is
\* emptied, whoever is writing it; otherwise a new inode is created.
WriteOpen(p) ==
    /\ pc[p] = "open"
    /\ LET id == req[p] IN
       \E i \in Inodes :
         /\ IF tmp[id] # None THEN i = tmp[id] ELSE ~ InUse(id, i)
         /\ tmp' = [tmp EXCEPT ![id] = i]
         /\ disk' = [disk EXCEPT ![id][i] = Empty]
         /\ fd' = [fd EXCEPT ![p] = i]
    /\ pc' = [pc EXCEPT ![p] = "dump"]
    /\ UNCHANGED <<final, used, expired, req, todo, rec, claimKey, histVars, claimVars, crashes>>

(* Each of decided_at and used_at, once set, makes the JSON at least nine  *)
(* characters longer; two statuses differ by at most two.                  *)
Weight(c) == (IF c.dec THEN 1 ELSE 0) + (IF c.use THEN 1 ELSE 0)

\* What an inode can hold after record new is written at offset 0 of content
\* old: a longer old record leaves a tail, which json.loads refuses.  Between
\* two decided records the lengths depend on decided_by and on float digits.
Overwrite(new, old) ==
    CASE old.st = "empty"         -> {new}
      [] old.st = "garbage"       -> {new, Garbage}
      [] Weight(new) > Weight(old) -> {new}
      [] Weight(new) < Weight(old) -> {Garbage}
      [] OTHER -> IF new.dec THEN {new, Garbage} ELSE {new}

\* json.dump through the descriptor, wherever its inode is by now.
WriteDump(p) ==
    /\ pc[p] = "dump"
    /\ \E c \in Overwrite(rec[p], disk[req[p]][fd[p]]) :
         disk' = [disk EXCEPT ![req[p]][fd[p]] = c]
    /\ fd' = [fd EXCEPT ![p] = None]
    /\ pc' = [pc EXCEPT ![p] = "replace"]
    /\ UNCHANGED <<final, tmp, used, expired, req, todo, rec, claimKey, histVars, claimVars, crashes>>

\* json.dump raises part way (a full disk): the handler will unlink the name.
WriteDumpFails(p) ==
    /\ pc[p] = "dump"
    /\ disk' = [disk EXCEPT ![req[p]][fd[p]] = Garbage]
    /\ fd' = [fd EXCEPT ![p] = None]
    /\ pc' = [pc EXCEPT ![p] = "unlink"]
    /\ UNCHANGED <<final, tmp, used, expired, req, todo, rec, claimKey, histVars, claimVars, crashes>>

\* os.replace: the temporary name becomes the final one.  Only consume() writes
\* a consumed record; returning it is the grant.
WriteReplace(p) ==
    /\ pc[p] = "replace"
    /\ tmp[req[p]] # None
    /\ final' = [final EXCEPT ![req[p]] = tmp[req[p]]]
    /\ tmp' = [tmp EXCEPT ![req[p]] = None]
    /\ grants' = IF rec[p].st = "consumed" /\ grants[req[p]] < 2
                   THEN [grants EXCEPT ![req[p]] = @ + 1] ELSE grants
    /\ Return(p)
    /\ UNCHANGED <<disk, used, expired, approved, shared, claimVars, crashes>>

\* os.replace raises when another process has renamed the temporary file ...
WriteReplaceFails(p) ==
    /\ pc[p] = "replace"
    /\ tmp[req[p]] = None
    /\ pc' = [pc EXCEPT ![p] = "unlink"]
    /\ UNCHANGED <<storeVars, req, todo, rec, fd, claimKey, histVars, claimVars, crashes>>

\* ... and the handler unlinks the temporary name, a newer one too, and re-raises.
WriteUnlink(p) ==
    /\ pc[p] = "unlink"
    /\ tmp' = [tmp EXCEPT ![req[p]] = None]
    /\ Finish(p)
    /\ UNCHANGED <<disk, final, used, expired, histVars, claimVars, crashes>>

-----------------------------------------------------------------------------
(* claim_once: O_CREAT | O_EXCL, write, close, True.                       *)

\* Mutant: the claim file is opened without O_EXCL.
ClaimOpenNotExclusive(p, k) ==
    /\ pc[p] = "idle"
    /\ wins[k] <= 1
    /\ claim' = [claim EXCEPT ![k] = TRUE]
    /\ claimKey' = [claimKey EXCEPT ![p] = k]
    /\ pc' = [pc EXCEPT ![p] = "claim"]
    /\ UNCHANGED <<storeVars, req, todo, rec, fd, histVars, wins, crashes>>

ClaimOpen(p, k) ==
    /\ pc[p] = "idle"
    /\ ~ claim[k]
    /\ claim' = [claim EXCEPT ![k] = TRUE]
    /\ claimKey' = [claimKey EXCEPT ![p] = k]
    /\ pc' = [pc EXCEPT ![p] = "claim"]
    /\ UNCHANGED <<storeVars, req, todo, rec, fd, histVars, wins, crashes>>

\* The payload is written and the caller gets True ...
ClaimWon(p) ==
    /\ pc[p] = "claim"
    /\ wins' = [wins EXCEPT ![claimKey[p]] = @ + 1]
    /\ Finish(p)
    /\ UNCHANGED <<storeVars, histVars, claim, crashes>>

\* ... or os.write fails: False, and the claim file stays.
ClaimFails(p) ==
    /\ pc[p] = "claim"
    /\ Finish(p)
    /\ UNCHANGED <<storeVars, histVars, claimVars, crashes>>

-----------------------------------------------------------------------------
\* A process is killed anywhere in an operation; its descriptor is closed and
\* what it wrote stays.
Kill(p) ==
    /\ crashes < MaxCrashes
    /\ pc[p] # "idle"
    /\ crashes' = crashes + 1
    /\ Finish(p)
    /\ UNCHANGED <<storeVars, histVars, claimVars>>

Check(p) ==
    CheckExpired(p) \/ CheckUnchanged(p) \/ CheckDecide(p) \/ CheckConsume(p)

Write(p) ==
    \/ WriteOpen(p) \/ WriteDump(p) \/ WriteDumpFails(p) \/ WriteReplace(p)
    \/ WriteReplaceFails(p) \/ WriteUnlink(p)

ApprovalNext ==
    \/ \E id \in Ids : Expire(id)
    \/ \E p \in Users :
         \/ \E id \in Ids : Request(p, id)
         \/ \E id \in Ids, op \in Ops : Read(p, op, id)
         \/ ListBegin(p) \/ ListEnd(p)
         \/ \E id \in Ids : ListRead(p, id)
         \/ Check(p) \/ Write(p)
         \/ \E k \in Keys : ClaimOpen(p, k)
         \/ ClaimWon(p) \/ ClaimFails(p)
         \/ Kill(p)

ApprovalSpec == ApprovalInit /\ [][ApprovalNext]_approvalVars

-----------------------------------------------------------------------------
Pcs == {"idle", "scan", "open", "dump", "replace", "unlink", "claim"} \cup Ops

ApprovalTypeOK ==
    /\ disk \in [Ids -> [Inodes -> Content]]
    /\ final \in [Ids -> Inodes \cup {None}]
    /\ tmp \in [Ids -> Inodes \cup {None}]
    /\ used \subseteq Ids
    /\ expired \subseteq Ids
    /\ pc \in [Users -> Pcs]
    /\ req \in [Users -> Ids \cup {None}]
    /\ todo \in [Users -> SUBSET Ids]
    /\ rec \in [Users -> Record]
    /\ fd \in [Users -> Inodes \cup {None}]
    /\ claimKey \in [Users -> Keys \cup {None}]
    /\ approved \subseteq Ids
    /\ grants \in [Ids -> 0..2]
    /\ shared \subseteq Ids
    /\ claim \in [Keys -> BOOLEAN]
    /\ wins \in [Keys -> Nat]
    /\ crashes \in 0..MaxCrashes

-----------------------------------------------------------------------------
StatusOf(id) == IF Readable(id) THEN disk[id][final[id]].st ELSE "none"

(* A request that reads as approved or consumed was approved by some       *)
(* process whose decide() saw it pending and not expired: no interleaving  *)
(* of readers, writers, consumers and crashes makes a grant out of a       *)
(* denied, expired or undecided request.                                   *)
GrantNeedsApproval ==
    \A id \in Ids :
        StatusOf(id) \in {"approved", "consumed"} => id \in approved

(* claim_once() returns True at most once for a key, whatever processes    *)
(* race for it and wherever one of them is killed.                         *)
ClaimedOnce == \A k \in Keys : wins[k] <= 1

(* The docstring of _write ("atomic write"), for a request on which no two *)
(* processes overlapped: its file holds a complete record at every moment, *)
(* wherever a writer is killed or fails, and whatever such a writer left   *)
(* behind under the temporary name.                                        *)
FileComplete == \A id \in Ids \ shared : final[id] # None => Readable(id)

(* For such a request consume() hands the grant out once.                  *)
ConsumedOnce == \A id \in Ids \ shared : grants[id] <= 1

\* The status of id may go from s to t once s is terminal.
TerminalStep(s, t) == t \in {s, "none"} \/ (s = "approved" /\ t = "consumed")

-----------------------------------------------------------------------------
(* The comment on _TERMINAL_STATUSES as it stands, for every request.      *)
TerminalStable ==
    [][\A id \in Ids :
         StatusOf(id) \in Terminal => TerminalStep(StatusOf(id), StatusOf(id)')]_approvalVars

(* The docstring of _write as it stands: the write is atomic.              *)
WriteIsAtomic == \A id \in Ids : final[id] # None => Readable(id)
=============================================================================
