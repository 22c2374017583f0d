------------------------------ MODULE AuditKey ------------------------------
(***************************************************************************)
(* resolve_hmac_key of audit_store.py: how the processes that write one    *)
(* audit log (daemon, CLI, API) come by the key of its hash chain.  The    *)
(* file audit.key is created by writing a private temporary file and       *)
(* linking it to the name; an empty file left by something else is         *)
(* replaced in place.  A key is named after its generator: <<p, 1>> is the *)
(* one p generates to create the file, <<p, 2>> the one for a repair.      *)
(***************************************************************************)
EXTENDS Naturals

CONSTANTS
    Procs,      \* processes that open the audit log
    OldKey,     \* a key from an earlier run
    EmptyFile,  \* audit.key exists and is blank
    NoFile      \* audit.key does not exist, or: a process has no key yet

ASSUME KeyAssumption ==
    /\ NoFile # EmptyFile
    /\ OldKey \notin {NoFile, EmptyFile}
    /\ \A p \in Procs, n \in {1, 2} : <<p, n>> \notin {NoFile, EmptyFile}

VARIABLES
    keyFile,    \* audit.key
    kpc,        \* where each process is in resolve_hmac_key
    key,        \* the key each process signs with
    keySound    \* history: the file was not blank at the start and every write worked

keyVars == <<keyFile, kpc, key, keySound>>

KeyValues == {OldKey} \cup (Procs \X {1, 2})

KeyInit ==
    /\ keyFile \in {OldKey, EmptyFile, NoFile}
    /\ kpc = [p \in Procs |-> "start"]
    /\ key = [p \in Procs |-> NoFile]
    /\ keySound = (keyFile # EmptyFile)

GoTo(p, where) == kpc' = [kpc EXCEPT ![p] = where]

Resolve(p, k) ==
    /\ key' = [key EXCEPT ![p] = k]
    /\ GoTo(p, "done")

\* path.exists()
CheckFile(p) ==
    /\ kpc[p] = "start"
    /\ GoTo(p, IF keyFile = NoFile THEN "create" ELSE "read")
    /\ UNCHANGED <<keyFile, key, keySound>>

\* Mutant: the process that finds the file created keeps the key it generated.
CreateFileKeepsOwn(p) ==
    /\ kpc[p] = "create"
    /\ keyFile' = IF keyFile = NoFile THEN <<p, 1>> ELSE keyFile
    /\ Resolve(p, <<p, 1>>)
    /\ UNCHANGED keySound

\* _write_key_atomically: os.link fails when the name exists.
CreateFile(p) ==
    /\ kpc[p] = "create"
    /\ IF keyFile = NoFile
         THEN keyFile' = <<p, 1>> /\ Resolve(p, <<p, 1>>)
         ELSE GoTo(p, "read") /\ UNCHANGED <<keyFile, key>>
    /\ UNCHANGED keySound

\* _write_key_atomically cannot write at all: False, as if the file existed.
CreateFails(p) ==
    /\ kpc[p] = "create"
    /\ GoTo(p, "read")
    /\ keySound' = FALSE
    /\ UNCHANGED <<keyFile, key>>

\* _read_key_file: a missing file and, after its retries, a blank one give "".
ReadFile(p) ==
    /\ kpc[p] = "read"
    /\ IF keyFile \in {NoFile, EmptyFile}
         THEN GoTo(p, "unlink") /\ UNCHANGED key
         ELSE Resolve(p, keyFile)
    /\ UNCHANGED <<keyFile, keySound>>

\* _read_key_file raises AuditKeyUnreadable: the process gets no AuditStore.
ReadFails(p) ==
    /\ kpc[p] = "read"
    /\ GoTo(p, "refused")
    /\ UNCHANGED <<keyFile, key, keySound>>

\* _repair_empty_key_file: unlink the name, then link the new file to it.
RepairUnlink(p) ==
    /\ kpc[p] = "unlink"
    /\ keyFile' = NoFile
    /\ GoTo(p, "link")
    /\ UNCHANGED <<key, keySound>>

\* If os.link finds a file that another repair has put there, or fails, that is only
\* logged: the generated key is returned all the same.
RepairLink(p) ==
    /\ kpc[p] = "link"
    /\ keyFile' = IF keyFile = NoFile THEN <<p, 2>> ELSE keyFile
    /\ Resolve(p, <<p, 2>>)
    /\ UNCHANGED keySound

KeyNext ==
    \E p \in Procs :
        \/ CheckFile(p) \/ CreateFile(p) \/ CreateFails(p) \/ ReadFile(p) \/ ReadFails(p)
        \/ RepairUnlink(p) \/ RepairLink(p)

KeySpec == KeyInit /\ [][KeyNext]_keyVars

-----------------------------------------------------------------------------
KeyTypeOK ==
    /\ keyFile \in KeyValues \cup {EmptyFile, NoFile}
    /\ kpc \in [Procs -> {"start", "create", "read", "unlink", "link", "done", "refused"}]
    /\ key \in [Procs -> KeyValues \cup {NoFile}]
    /\ keySound \in BOOLEAN

(* resolve_hmac_key: however the processes that create or read audit.key   *)
(* interleave, all that obtain a key obtain the one in the file.  (A blank *)
(* file is repaired by each process that sees it, and a process that       *)
(* cannot write uses its own key: the code accepts that these two break    *)
(* the chain.)                                                             *)
KeyAgreement ==
    keySound => \A p \in Procs : kpc[p] = "done" => key[p] = keyFile
=============================================================================
