----------------------------- MODULE Migration -----------------------------
(***************************************************************************)
(* The transaction that brings a computer registry of version 1 to version *)
(* 2 (computer-migration.js): a marker, a staged state document, a rename  *)
(* for each computer's directory, the swap of the state document, and the  *)
(* removal of the marker; its resumption after a stop, and its rollback    *)
(* after a failure.  One step is one file operation.  writeFile is not     *)
(* atomic: a failure or a stop may leave a torn file.  Startup says when   *)
(* the transaction runs and when the process stops.                        *)
(***************************************************************************)
EXTENDS Naturals, FiniteSets

CONSTANTS
    Agents,     \* configured agents, each with a computer
    MaxFailures   \* bound: failures and stops

ASSUME MigrationAssumption == MaxFailures \in Nat

VARIABLES
    reg,     \* the registry's files
    mig,     \* the locals of migrateComputerRegistry
    failures

\* empty: a version 2 document without agents; dirs: where the directory of a computer is.
StateDoc == {"missing", "legacy", "v2", "empty"}
FileStatus == {"none", "torn", "ok"}
Place == {"none", "legacy", "current", "both"}

Registry == [state : StateDoc, marker : FileStatus, source : StateDoc, stage : FileStatus, dirs : [Agents -> Place]]

NoMigration == [pc |-> "idle", new |-> FALSE, moved |-> {}]

Legacy(r) == {a \in Agents : r.dirs[a] \in {"legacy", "both"}}

Committed(r) == r.state \in {"v2", "empty"}

\* inspectComputerMigration of registry r, "error" where it throws.
Inspect(r) ==
    IF \/ r.marker = "torn"
       \/ r.marker = "none" /\ r.stage # "none"
       \/ r.stage = "torn"
       \/ \E a \in Agents : r.dirs[a] = "both"
       \/ r.marker = "ok" /\ r.state # r.source /\ ~Committed(r)
    THEN "error"
    ELSE IF r.marker = "ok"
    THEN IF Committed(r) /\ Legacy(r) = {} THEN "committed" ELSE "in-progress"
    ELSE IF r.state = "missing" /\ Legacy(r) = {} THEN "none"
    ELSE IF Committed(r) /\ Legacy(r) = {} THEN "current"
    ELSE "needed"

Goto(pc) == mig' = [mig EXCEPT !.pc = pc]

Failure == failures < MaxFailures /\ failures' = failures + 1

\* migrateComputerRegistry.  A marker found is resumed; otherwise one is made.
Begin ==
    /\ mig.pc = "inspect"
    /\ mig' = CASE Inspect(reg) = "error" -> [mig EXCEPT !.pc = "failed"]
                [] Inspect(reg) \in {"none", "current"} -> [mig EXCEPT !.pc = "done"]
                [] Inspect(reg) \in {"committed", "in-progress"} -> [mig EXCEPT !.pc = "restage"]
                [] OTHER -> [mig EXCEPT !.pc = "marker", !.new = TRUE]
    /\ UNCHANGED <<reg, failures>>

WriteMarker ==
    /\ mig.pc = "marker"
    /\ reg' = [reg EXCEPT !.marker = "ok", !.source = reg.state]
    /\ Goto("stage")
    /\ UNCHANGED failures

WriteStage ==
    /\ mig.pc = "stage"
    /\ reg' = [reg EXCEPT !.stage = "ok"]
    /\ Goto("move")
    /\ UNCHANGED failures

\* executeExistingTransaction of a marker found at startup.
Restage ==
    /\ mig.pc = "restage"
    /\ reg' = IF reg.stage = "none" /\ ~Committed(reg) THEN [reg EXCEPT !.stage = "ok"] ELSE reg
    /\ Goto("move")
    /\ UNCHANGED failures

MoveDirectory ==
    /\ mig.pc = "move"
    /\ \E a \in Legacy(reg) :
        /\ reg' = [reg EXCEPT !.dirs[a] = "current"]
        /\ mig' = [mig EXCEPT !.moved = @ \cup {a}]
    /\ UNCHANGED failures

\* What replaces state.json: the staged document, made from the source.
Target == IF reg.source = "missing" THEN "empty" ELSE "v2"

\* MUTANT of CommitState: the document is swapped before the directories are moved.
CommitEarly ==
    /\ mig.pc = "move"
    /\ reg' = [reg EXCEPT !.state = IF Committed(reg) THEN @ ELSE Target, !.stage = "none"]
    /\ Goto("unmark")
    /\ UNCHANGED failures

CommitState ==
    /\ mig.pc = "move" /\ Legacy(reg) = {}
    /\ reg' = [reg EXCEPT !.state = IF Committed(reg) THEN @ ELSE Target, !.stage = "none"]
    /\ Goto("unmark")
    /\ UNCHANGED failures

RemoveMarker ==
    /\ mig.pc = "unmark"
    /\ reg' = [reg EXCEPT !.marker = "none"]
    /\ Goto("done")
    /\ UNCHANGED failures

\* A failure before the commit of a transaction that this call made is rolled back.
Undoes == mig.new /\ ~Committed(reg)

OnFailure == IF Undoes THEN "undo" ELSE "failed"

WriteFails ==
    /\ Failure
    /\ \E left \in {"none", "torn"} :
        \/ /\ mig.pc = "marker"
           /\ reg' = [reg EXCEPT !.marker = left]
           /\ Goto("failed")
        \/ /\ mig.pc = "stage"
           /\ reg' = [reg EXCEPT !.stage = left]
           /\ Goto("cleanup")
        \/ /\ mig.pc = "restage" /\ reg.stage = "none" /\ ~Committed(reg)
           /\ reg' = [reg EXCEPT !.stage = left]
           /\ Goto("failed")

\* A rename, an inspection or the removal of the marker fails.
StepFails ==
    /\ Failure
    /\ mig.pc \in {"move", "unmark"}
    /\ Goto(OnFailure)
    /\ UNCHANGED reg

\* rollbackDirectories, then the stage and the marker; a directory that cannot be moved back leaves both behind.
UndoMove ==
    /\ mig.pc = "undo"
    /\ \E a \in mig.moved :
        /\ reg' = [reg EXCEPT !.dirs[a] = "legacy"]
        /\ mig' = [mig EXCEPT !.moved = @ \ {a}]
    /\ UNCHANGED failures

UndoFails ==
    /\ mig.pc = "undo" /\ mig.moved # {}
    /\ Failure
    /\ \E kept \in SUBSET mig.moved \ {{}} :
        reg' = [reg EXCEPT !.dirs = [a \in Agents |-> IF a \in mig.moved \ kept THEN "legacy" ELSE @[a]]]
    /\ Goto("cleanup")

UndoFiles ==
    /\ mig.pc = "undo" /\ mig.moved = {}
    /\ reg' = [reg EXCEPT !.stage = "none", !.marker = "none"]
    /\ Goto("cleanup")
    /\ UNCHANGED failures

\* The catch clause of migrateComputerRegistry: stage and marker go, unless the document or a directory is of version 2.
\* An inspection that throws hides both.
CleanUp ==
    /\ mig.pc = "cleanup"
    /\ reg' = IF \/ Inspect(reg) = "error"
                 \/ ~Committed(reg) /\ \A a \in Agents : reg.dirs[a] \notin {"current", "both"}
              THEN [reg EXCEPT !.stage = "none", !.marker = "none"] ELSE reg
    /\ Goto("failed")
    /\ UNCHANGED failures

MigrationStep ==
    \/ Begin \/ WriteMarker \/ WriteStage \/ Restage \/ MoveDirectory \/ CommitState \/ RemoveMarker
    \/ UndoMove \/ UndoFiles \/ CleanUp

MigrationFault == WriteFails \/ StepFails \/ UndoFails

\* A stop in the middle of a write.
Torn ==
    CASE mig.pc = "marker" -> [reg EXCEPT !.marker = "torn"]
      [] mig.pc \in {"stage", "restage"} /\ reg.stage = "none" /\ ~Committed(reg) -> [reg EXCEPT !.stage = "torn"]
      [] OTHER -> reg
=============================================================================
