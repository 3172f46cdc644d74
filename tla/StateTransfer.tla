--------------------------- MODULE StateTransfer ---------------------------
(***************************************************************************)
(* Backup and restore of the data directory (state-transfer.js), over its  *)
(* life in Startup.  A backup may run beside the runtime and has to notice *)
(* it; a restore, like `recover --apply`, is run with the runtime stopped. *)
(* A core file is known by the number of its version, 0 when it is absent. *)
(***************************************************************************)
EXTENDS Startup

CONSTANTS
    MaxWrites   \* bound: writes of core files by the runtime

ASSUME TransferAssumption == MaxWrites \in Nat

VARIABLES
    data,      \* version of each core file
    versions,  \* number of versions written so far
    backup,    \* the locals of createStateBackup
    bundle,    \* the published bundle, NoBundle if there is none
    restore,   \* the locals of restoreStateBackup
    siblings,  \* previous data directories set aside by restores
    seen       \* history: what the core files once were, all at the same time

transferVars == <<data, versions, backup, bundle, restore, siblings, seen>>
vars == <<reg, mig, failures, startVars, transferVars>>

\* CORE_FILES, in short: the tasks, replaced by rename, and a log, appended to.
Files == {"tasks", "log"}

Absent == [f \in Files |-> 0]
NoBundle == [files |-> Absent, active |-> FALSE, torn |-> FALSE, made |-> FALSE]
NoBackup == [pc |-> "idle", todo |-> {}, names |-> {}, again |-> {}, copy |-> Absent, active |-> FALSE, torn |-> FALSE]

\* The data directory as a whole, and none.
Directory(is, r, a, t, cut, s, d) ==
    [exists |-> is, reg |-> r, active |-> a, txn |-> t, torn |-> cut, scratch |-> s, data |-> d]
NoRegistry == [state |-> "missing", marker |-> "none", source |-> "missing", stage |-> "none", dirs |-> [a \in Agents |-> "none"]]
NoDirectory == Directory(FALSE, NoRegistry, FALSE, FALSE, FALSE, {}, Absent)
Here == Directory(exists, reg, active, txn, torn, scratch, data)

Becomes(dir) ==
    /\ exists' = dir.exists /\ reg' = dir.reg /\ active' = dir.active
    /\ txn' = dir.txn /\ torn' = dir.torn /\ scratch' = dir.scratch /\ data' = dir.data
    /\ seen' = seen \cup {dir.data}

\* prior: the directory that the restore is to keep until what replaces it has been validated.
NoRestore == [pc |-> "idle", had |-> FALSE, prior |-> NoDirectory]

TransferInit ==
    /\ Init
    /\ data = [f \in Files |-> 1] /\ versions = 1
    /\ backup = NoBackup /\ bundle = NoBundle
    /\ restore = NoRestore /\ siblings = {}
    /\ seen = {data}

(***************************************************************************)
(* The runtime writes a core file: an append, also one that a stop cuts    *)
(* off, or the rename of WriteEnds.                                        *)
(***************************************************************************)
Rewritten(f) ==
    /\ versions < MaxWrites
    /\ versions' = versions + 1
    /\ data' = [data EXCEPT ![f] = versions + 1]
    /\ seen' = seen \cup {data'}
    /\ UNCHANGED <<backup, bundle, siblings>>

AppendRow == Running /\ UNCHANGED <<active, scratch, restore>> /\ Rewritten("log")

\* What runs after a restore starts from what it left.
Lives ==
    /\ restore.pc = "idle"
    /\ RuntimeNext
    /\ IF active' # active THEN Rewritten("tasks")
       ELSE IF torn' # torn THEN Rewritten("log")
       ELSE UNCHANGED <<data, versions, backup, bundle, siblings, seen>>
    /\ restore' = NoRestore

Recovers ==
    /\ restore.pc = "idle" /\ backup.pc = "idle"
    /\ RecoverNext
    /\ restore' = NoRestore
    /\ UNCHANGED <<data, versions, backup, bundle, siblings, seen>>

(***************************************************************************)
(* backup: list, copy, compare each file with its copy, list again.        *)
(***************************************************************************)
MayBackup == exists => Inspect(reg) \in {"none", "current"} /\ ~txn

BackupBegins ==
    /\ backup.pc = "idle" /\ rec.pc = "idle" /\ restore.pc = "idle"
    /\ ~bundle.made  \* bound: one bundle is published
    /\ MayBackup /\ LogsPass
    /\ backup' = [NoBackup EXCEPT !.pc = "list", !.todo = Files]
    /\ UNCHANGED <<reg, mig, failures, startVars, data, versions, bundle, restore, siblings, seen>>

BackingUp(pc) ==
    /\ backup.pc = pc
    /\ UNCHANGED <<reg, mig, failures, startVars, data, versions, restore, siblings, seen>>

Present(f) == data[f] # 0

\* collectBackupSources.
List ==
    /\ BackingUp("list")
    /\ \E f \in backup.todo :
        LET names == IF Present(f) THEN backup.names \cup {f} ELSE backup.names
        IN  backup' = IF backup.todo = {f}
                      THEN [backup EXCEPT !.pc = "copy", !.todo = names, !.names = names]
                      ELSE [backup EXCEPT !.todo = @ \ {f}, !.names = names]
    /\ UNCHANGED bundle

CopyFile ==
    /\ BackingUp("copy")
    /\ \E f \in backup.todo :
        backup' = [backup EXCEPT !.todo = @ \ {f}, !.copy[f] = data[f],
                                 !.active = IF f = "tasks" THEN active ELSE @, !.torn = IF f = "log" THEN torn ELSE @]
    /\ UNCHANGED bundle

Copied ==
    /\ BackingUp("copy") /\ backup.todo = {}
    /\ backup' = [backup EXCEPT !.pc = "compare", !.todo = backup.names]
    /\ UNCHANGED bundle

\* assertFingerprint.
Unchanged(f) == data[f] = backup.copy[f]

\* MUTANT of Compare: only the lists of the files are compared.
NotCompared ==
    /\ BackingUp("compare")
    /\ backup' = [backup EXCEPT !.pc = "relist", !.todo = Files]
    /\ UNCHANGED bundle

\* A file that was written since its copy ends the backup.
Compare ==
    /\ BackingUp("compare")
    /\ IF backup.todo = {}
       THEN backup' = IF MayBackup THEN [backup EXCEPT !.pc = "relist", !.todo = Files] ELSE NoBackup
       ELSE \E f \in backup.todo :
            backup' = IF Unchanged(f) THEN [backup EXCEPT !.todo = @ \ {f}] ELSE NoBackup
    /\ UNCHANGED bundle

Relist ==
    /\ BackingUp("relist")
    /\ \E f \in backup.todo :
        backup' = [backup EXCEPT !.todo = @ \ {f}, !.again = IF Present(f) THEN @ \cup {f} ELSE @]
    /\ UNCHANGED bundle

BackupEnds ==
    /\ BackingUp("relist") /\ backup.todo = {}
    /\ bundle' = IF backup.again = backup.names
                 THEN [files |-> backup.copy, active |-> backup.active, torn |-> backup.torn, made |-> TRUE]
                 ELSE bundle
    /\ backup' = NoBackup

BackupNext == BackupBegins \/ List \/ CopyFile \/ Copied \/ Compare \/ Relist \/ BackupEnds

(***************************************************************************)
(* restore --replace: copy and validate the bundle beside the directory,   *)
(* set the directory aside, install, validate again, discard the old one.  *)
(***************************************************************************)
Restored == Directory(TRUE, NoRegistry, bundle.active, FALSE, bundle.torn, {}, bundle.files)

RestoreBegins ==
    /\ proc = "down" /\ rec.pc = "idle" /\ backup.pc = "idle" /\ restore.pc = "idle"
    /\ bundle.made
    /\ restore' = [pc |-> "copy", had |-> exists, prior |-> Here]
    /\ UNCHANGED <<reg, mig, failures, startVars, data, versions, backup, bundle, siblings, seen>>

Restoring(pc) ==
    /\ restore.pc = pc
    /\ UNCHANGED <<mig, proc, rec, staged, quarantine, versions, backup, bundle>>

Keeps == UNCHANGED <<exists, reg, active, txn, torn, scratch, data, seen>>

RestoreGoes(pc) == restore' = [restore EXCEPT !.pc = pc]

\* Bytes and shapes of the copy are checked before the directory is touched: a bundle with a torn row is refused.
CopyBundle ==
    /\ Restoring("copy")
    /\ RestoreGoes(IF bundle.torn THEN "idle" ELSE IF restore.had THEN "aside" ELSE "install")
    /\ Keeps /\ UNCHANGED <<failures, siblings, evidence>>

SetAside ==
    /\ Restoring("aside")
    /\ siblings' = siblings \cup {Here}
    /\ Becomes(NoDirectory)
    /\ RestoreGoes("install")
    /\ UNCHANGED <<failures, evidence>>

\* MUTANT of Install: the old directory is discarded before the new one is validated.
InstallAndDiscard ==
    /\ Restoring("install")
    /\ Becomes(Restored)
    /\ siblings' = siblings \ {restore.prior}
    /\ RestoreGoes("validate")
    /\ UNCHANGED <<failures, evidence>>

Install ==
    /\ Restoring("install")
    /\ Becomes(Restored)
    /\ RestoreGoes("validate")
    /\ UNCHANGED <<failures, siblings, evidence>>

\* From here on nothing is owed to the old directory.
Validate ==
    /\ Restoring("validate")
    /\ restore' = [restore EXCEPT !.pc = IF restore.had THEN "discard" ELSE "idle"]
    /\ Keeps /\ UNCHANGED <<failures, siblings, evidence>>

Discard ==
    /\ Restoring("discard")
    /\ siblings' = siblings \ {restore.prior}
    /\ evidence' = evidence \ restore.prior.scratch
    /\ restore' = NoRestore
    /\ Keeps /\ UNCHANGED failures

\* A copy, a check or a rename fails.  What has been moved aside is moved back.
RestoreFails ==
    /\ \/ Restoring("copy") /\ RestoreGoes("idle")
       \/ Restoring("aside") /\ RestoreGoes("idle")
       \/ Restoring("install") /\ RestoreGoes(IF restore.had THEN "back" ELSE "idle")
       \/ Restoring("validate") /\ RestoreGoes("clear")
    /\ Failure
    /\ Keeps /\ UNCHANGED <<siblings, evidence>>

\* restorePriorState: the new directory is removed.
Clear ==
    /\ Restoring("clear")
    /\ Becomes(NoDirectory)
    /\ RestoreGoes(IF restore.had THEN "last" ELSE "idle")
    /\ UNCHANGED <<failures, siblings, evidence>>

MoveDirectoryBack ==
    /\ Restoring("back") \/ Restoring("again") \/ Restoring("last")
    /\ Becomes(restore.prior)
    /\ siblings' = siblings \ {restore.prior}
    /\ RestoreGoes("idle")
    /\ UNCHANGED <<failures, evidence>>

\* After a failed swap it is tried once more by the outer catch clause.
MoveDirectoryBackFails ==
    /\ \/ Restoring("back") /\ RestoreGoes("again")
       \/ Restoring("again") /\ RestoreGoes("idle")
       \/ Restoring("last") /\ RestoreGoes("idle")
    /\ Failure
    /\ Keeps /\ UNCHANGED <<siblings, evidence>>

RestoreStops ==
    /\ restore.pc # "idle" /\ Restoring(restore.pc)
    /\ Failure
    /\ restore' = IF restore.pc = "discard" THEN NoRestore ELSE [restore EXCEPT !.pc = "idle"]
    /\ Keeps /\ UNCHANGED <<siblings, evidence>>

RestoreNext ==
    \/ RestoreBegins \/ CopyBundle \/ SetAside \/ Install \/ Validate \/ Discard
    \/ RestoreFails \/ Clear \/ MoveDirectoryBack \/ MoveDirectoryBackFails \/ RestoreStops

Next ==
    \/ Lives \/ AppendRow \/ Recovers
    \/ BackupNext \/ RestoreNext

(***************************************************************************)
(* Properties.                                                             *)
(***************************************************************************)
\* Stops, failed renames and rollbacks of the migration never give a computer two directories, one with its profile and
\* one made afresh, and no runtime works with a registry that is not of version 2 (computer-migration.js, registry init).
ProfileKept ==
    /\ \A a \in Agents : reg.dirs[a] # "both"
    /\ proc = "up" => Committed(reg) /\ Legacy(reg) = {} /\ reg.marker = "none"

\* What a stopped runtime leaves behind is never deleted: it is in the data directory, in a staging directory, in a
\* quarantine or in a directory set aside, whatever fails or stops in `recover --apply` (applyCrashRecovery).
EvidenceKept ==
    evidence \subseteq scratch \cup staged \cup quarantine \cup UNION {d.scratch : d \in siblings}

\* A published bundle holds core files as they were together at one time, although the runtime writes them while they
\* are copied (createStateBackup).
BackupConsistent == bundle.made => bundle.files \in seen

\* Until what replaces it has been validated, the directory that a restore found is in place or set aside, at every
\* step and after every failure or stop (restoreStateBackup).
RestoreKeepsState == restore.prior.exists => restore.prior \in siblings \cup {Here}

Spec == TransferInit /\ [][Next]_vars
=============================================================================
