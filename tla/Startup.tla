------------------------------ MODULE Startup ------------------------------
(***************************************************************************)
(* The data directory over the life of the runtime: the preflight and      *)
(* start (startup-preflight.js, runtime.js), the migration and creation of *)
(* the computers, the leftovers of a process that stops in the middle of   *)
(* an atomic write or with an open bridge, and the offline command         *)
(* `recover --apply` (crash-recovery.js), which moves recognised leftovers *)
(* into a quarantine, one by one, and back when a step fails.              *)
(* A leftover is known by its kind and by the stop that made it.           *)
(***************************************************************************)
EXTENDS Migration

VARIABLES
    exists,      \* there is a data directory
    active,      \* tasks.json has an accepted or running task
    txn,         \* there is a policy transaction marker that the audit log does not commit
    torn,        \* the JSONL files end in a row that a stop has cut off
    scratch,     \* temporary files and bridge files in the data directory
    proc,        \* the runtime: down, migrating, ensuring, up
    rec,         \* the locals of applyCrashRecovery
    staged,      \* files in staging directories, of this call and of interrupted ones
    quarantine,  \* files in published quarantines
    evidence     \* history: what stops of the runtime have left behind

startVars == <<exists, active, txn, torn, scratch, proc, rec, staged, quarantine, evidence>>

\* temp: a name that recovery knows; foreign: one that it does not (the dispatch ledger's, the policy transaction's).
Kind == {"temp", "foreign", "bridge"}

Known == {"temp", "bridge"}

OfKind(kinds) == {s \in scratch : s.kind \in kinds}

NoRecovery == [pc |-> "idle", left |-> {}, moved |-> {}, kept |-> {}]

\* An installation of version 0.3, a current one, or none.
StartRegistry ==
    LET Of(state, dirs) == [state |-> state, marker |-> "none", source |-> "missing", stage |-> "none", dirs |-> dirs]
    IN  {Of("v2", [a \in Agents |-> "current"])}
        \cup {Of(s, d) : s \in {"missing", "legacy"}, d \in [Agents -> {"none", "legacy"}]}

Init ==
    /\ reg \in StartRegistry
    /\ mig = NoMigration
    /\ failures = 0
    /\ exists = TRUE /\ active = FALSE /\ txn = FALSE /\ torn = FALSE /\ scratch = {}
    /\ proc = "down"
    /\ rec = NoRecovery
    /\ staged = {} /\ quarantine = {} /\ evidence = {}

(***************************************************************************)
(* The runtime.                                                            *)
(***************************************************************************)
ComputersPass == Inspect(reg) # "error"

\* Files that are replaced as a whole (tasks.json, repeat-state.json) pass; memory, events and audit may end in a torn row.
LogsPass == ~torn

PolicyPasses == ~txn
NothingIsLeft == scratch = {}

\* preflightRuntimeStartup; a missing directory is a first start.
Preflight == exists => LogsPass /\ PolicyPasses /\ ComputersPass /\ NothingIsLeft

Start ==
    /\ proc = "down" /\ rec.pc = "idle"
    /\ Preflight
    /\ exists' = TRUE
    /\ proc' = "migrating"
    /\ mig' = [NoMigration EXCEPT !.pc = "inspect"]
    /\ UNCHANGED <<reg, failures, active, txn, torn, scratch, rec, staged, quarantine, evidence>>

Migrate ==
    /\ proc = "migrating"
    /\ MigrationStep \/ MigrationFault
    /\ UNCHANGED startVars

\* ComputerRegistry.init, after the migration.
Migrated ==
    /\ proc = "migrating" /\ mig.pc \in {"done", "failed"}
    /\ mig' = NoMigration
    /\ IF mig.pc = "failed"
       THEN proc' = "down" /\ UNCHANGED reg
       ELSE /\ proc' = "ensuring"
            /\ reg' = IF reg.state = "missing" THEN [reg EXCEPT !.state = "empty"] ELSE reg
    /\ UNCHANGED <<failures, exists, active, txn, torn, scratch, rec, staged, quarantine, evidence>>

Missing == {a \in Agents : reg.dirs[a] \in {"none", "legacy"}}

Ensure ==
    /\ proc = "ensuring"
    /\ \E a \in Missing : reg' = [reg EXCEPT !.dirs[a] = IF @ = "none" THEN "current" ELSE "both"]
    /\ UNCHANGED <<mig, failures, startVars>>

Ready ==
    /\ proc = "ensuring" /\ Missing = {}
    /\ proc' = "up"
    /\ UNCHANGED <<reg, mig, failures, exists, active, txn, torn, scratch, rec, staged, quarantine, evidence>>

Running == proc = "up" /\ UNCHANGED <<reg, mig, failures, exists, txn, torn, proc, rec, staged, quarantine, evidence>>

\* writeJsonAtomic: the temporary file, then the rename (which may start or end a task) or its removal.
WriteBegins ==
    /\ Running
    /\ \E k \in {"temp", "foreign"} : OfKind({k}) = {} /\ scratch' = scratch \cup {[kind |-> k, stop |-> failures]}
    /\ UNCHANGED active

WriteEnds ==
    /\ Running
    /\ \E s \in OfKind({"temp", "foreign"}) :
        /\ scratch' = scratch \ {s}
        /\ active' \in IF s.kind = "temp" THEN BOOLEAN ELSE {active}

\* GovernedToolBridgeManager.prepare and close; a cancelled task has ended before its bridge is closed.
BridgeOpens ==
    /\ Running
    /\ active /\ OfKind({"bridge"}) = {}
    /\ scratch' = scratch \cup {[kind |-> "bridge", stop |-> failures]}
    /\ UNCHANGED active

BridgeCloses ==
    /\ Running
    /\ OfKind({"bridge"}) # {} /\ scratch' = scratch \ OfKind({"bridge"})
    /\ UNCHANGED active

\* runtime.close: pending writes end, bridges are closed; a task that runs stays in tasks.json.
Close ==
    /\ proc = "up" /\ OfKind({"temp", "foreign"}) = {}
    /\ proc' = "down" /\ scratch' = {}
    /\ UNCHANGED <<reg, mig, failures, exists, active, txn, torn, rec, staged, quarantine, evidence>>

\* A stop; one in the middle of a policy activation leaves its marker, one in the middle of an append a torn row.
Crash ==
    /\ proc # "down"
    /\ Failure
    /\ proc' = "down"
    /\ reg' = IF proc = "migrating" THEN Torn ELSE reg
    /\ mig' = NoMigration
    /\ IF proc = "up"
       THEN \E left \in {"none", "txn", "torn"} : txn' = (left = "txn") /\ torn' = (left = "torn")
       ELSE UNCHANGED <<txn, torn>>
    /\ evidence' = evidence \cup scratch
    /\ UNCHANGED <<exists, active, scratch, rec, staged, quarantine>>

RuntimeNext ==
    \/ Start \/ Migrate \/ Migrated \/ Ensure \/ Ready
    \/ WriteBegins \/ WriteEnds \/ BridgeOpens \/ BridgeCloses
    \/ Close \/ Crash

(***************************************************************************)
(* recover --apply, with the runtime stopped.                              *)
(***************************************************************************)
CanApply == OfKind(Known) # {} /\ OfKind({"foreign"}) = {} /\ ~active

RecoverBegins ==
    /\ proc = "down" /\ rec.pc = "idle"
    /\ exists /\ CanApply
    /\ rec' = [NoRecovery EXCEPT !.pc = "move", !.left = OfKind(Known)]
    /\ UNCHANGED <<reg, mig, failures, exists, active, txn, torn, scratch, proc, staged, quarantine, evidence>>

Recovering(pc) == rec.pc = pc /\ UNCHANGED <<reg, mig, exists, active, txn, torn, proc, evidence>>

MoveOut ==
    /\ Recovering("move")
    /\ \E s \in rec.left :
        /\ scratch' = scratch \ {s} /\ staged' = staged \cup {s}
        /\ rec' = [rec EXCEPT !.left = @ \ {s}, !.moved = @ \cup {s}]
    /\ UNCHANGED <<failures, quarantine>>

\* The manifest is written and the preflight repeated.
Recheck ==
    /\ Recovering("move") /\ rec.left = {}
    /\ rec' = [rec EXCEPT !.pc = IF Preflight THEN "publish" ELSE "rollback"]
    /\ UNCHANGED <<failures, scratch, staged, quarantine>>

Publish ==
    /\ Recovering("publish")
    /\ staged' = staged \ rec.moved /\ quarantine' = quarantine \cup rec.moved
    /\ rec' = NoRecovery
    /\ UNCHANGED <<failures, scratch>>

RecoverFails ==
    /\ Recovering("move") \/ Recovering("publish")
    /\ Failure
    /\ rec' = [rec EXCEPT !.pc = "rollback"]
    /\ UNCHANGED <<scratch, staged, quarantine>>

\* rollbackMoved goes on after a file that it cannot move back.
MoveBack ==
    /\ Recovering("rollback")
    /\ \E s \in rec.moved :
        \/ /\ scratch' = scratch \cup {s} /\ staged' = staged \ {s}
           /\ rec' = [rec EXCEPT !.moved = @ \ {s}]
           /\ UNCHANGED failures
        \/ /\ Failure
           /\ rec' = [rec EXCEPT !.moved = @ \ {s}, !.kept = @ \cup {s}]
           /\ UNCHANGED <<scratch, staged>>
    /\ UNCHANGED quarantine

\* MUTANT of RolledBack: the staging directory is removed although a file could not be moved back.
StageRemoved ==
    /\ Recovering("rollback") /\ rec.moved = {}
    /\ staged' = staged \ rec.kept
    /\ rec' = NoRecovery
    /\ UNCHANGED <<failures, scratch, quarantine>>

\* The staging directory is removed only when nothing is left in it.
RolledBack ==
    /\ Recovering("rollback") /\ rec.moved = {}
    /\ rec' = NoRecovery
    /\ UNCHANGED <<failures, scratch, staged, quarantine>>

RecoverStops ==
    /\ rec.pc # "idle" /\ UNCHANGED <<reg, mig, exists, active, txn, torn, proc, evidence>>
    /\ Failure
    /\ rec' = NoRecovery
    /\ UNCHANGED <<scratch, staged, quarantine>>

RecoverNext ==
    \/ RecoverBegins \/ MoveOut \/ Recheck \/ Publish
    \/ RecoverFails \/ MoveBack \/ RolledBack \/ RecoverStops
=============================================================================
