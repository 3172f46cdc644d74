-------------------------- MODULE PolicyActivation --------------------------
(***************************************************************************)
(* Transactional policy activation: PolicyManager (policy-manager.js) over *)
(* PolicyVersionStore (policy-version-store.js), the Governor's engine     *)
(* (governor.js), the append queue of the audit log (audit.js) and the     *)
(* start of the runtime (runtime.js).  The process may stop between any    *)
(* two steps; a file operation takes effect as a whole or fails without    *)
(* effect.                                                                 *)
(***************************************************************************)
EXTENDS Integers, Sequences

CONSTANTS
    Policies,       \* policy documents
    Repeat,         \* Repeat[p]: repeatWindowMs and repeatMaxActiveFingerprints of p
    MaxVersions,    \* bound: versions on disk
    MaxTx,          \* bound: activation transactions
    MaxDecisions,   \* bound: decision rows waiting for the audit log
    MaxFaults       \* bound: failed file operations and stops of the process

ASSUME BoundAssumption ==
    /\ MaxVersions \in Nat \ {0} /\ MaxTx \in Nat
    /\ MaxDecisions \in Nat /\ MaxFaults \in Nat

VARIABLES
    \* durable
    versions,       \* versions[v]: the policy of the immutable version v
    pointer,        \* active.json: the active version, 0 if there is no file
    marker,         \* transaction.json
    chain,          \* the activation rows of the audit log
    \* the process
    pc,             \* where the start of the runtime stands; "up" once it serves
    active,         \* PolicyVersionStore.#active
    engine,         \* governor.policy: its version and the transaction that set it
    repeat,         \* the settings the RepeatStore was constructed with
    op,             \* the operation at the head of PolicyManager.#queue
    pending,        \* PolicyManager.#recoveryPending
    queue,          \* AuditLog.#appendQueue: activation and decision rows
    \* history
    tx,             \* transactions begun so far
    dropped,        \* transactions whose activation row failed to be appended
    faults          \* failed operations and stops so far

durable == <<versions, pointer, marker, chain>>
process == <<pc, active, engine, repeat, op, pending, queue>>
vars == <<durable, process, tx, dropped, faults>>

Versions == 1..MaxVersions
NoMarker == [kind |-> "none", tx |-> 0, to |-> 0]
NoEngine == [version |-> 0, tx |-> 0]
Idle == [pc |-> "idle", to |-> 0, from |-> 0, tx |-> 0, undo |-> NoEngine]

Activation(t, v) == [type |-> "activated", tx |-> t, to |-> v]
Decision(t) == [type |-> "decision", tx |-> t, to |-> 0]

\* The transaction and the version of the last activation row; the bootstrapped
\* version 1 has none.
LastTx == IF chain = <<>> THEN 0 ELSE chain[Len(chain)].tx
LastTo == IF chain = <<>> THEN 1 ELSE chain[Len(chain)].to

Committed(t) == \E i \in DOMAIN chain : chain[i].tx = t

Fault == faults < MaxFaults /\ faults' = faults + 1

Init ==
    /\ versions = <<>> /\ pointer = 0 /\ marker = NoMarker /\ chain = <<>>
    /\ pc = "down" /\ active = 0 /\ engine = NoEngine
    /\ repeat \in {Repeat[p] : p \in Policies}
    /\ op = Idle /\ pending = FALSE /\ queue = <<>>
    /\ tx = 0 /\ dropped = {} /\ faults = 0

-----------------------------------------------------------------------------
(* Start of the runtime: PolicyVersionStore.init *)

Boot(label) == pc' = label /\ UNCHANGED <<active, engine, repeat, op, pending, queue>>

\* The active version is loaded, and the runtime is built from it.
Load(v) ==
    /\ pc' = "up" /\ active' = v
    /\ engine' = [version |-> v, tx |-> LastTx]
    /\ repeat' = Repeat[versions[v]]
    /\ UNCHANGED <<op, pending, queue>>

\* Without a marker the pointer is loaded, or a first version bootstrapped; a
\* bootstrap marker is completed; an activation marker must be committed in the
\* audit log and match the pointer.  Every other start is refused (and so is that
\* of a bootstrap whose configuration has changed; here it is fixed).
Start ==
    /\ pc = "down"
    /\ \/ /\ marker.kind = "none" /\ pointer # 0
          /\ Load(pointer)
       \/ /\ marker.kind = "none" /\ pointer = 0 /\ versions = <<>>
          /\ Boot("marker")
       \/ /\ marker.kind = "bootstrap"
          /\ Boot(IF versions = <<>> THEN "version" ELSE "pointer")
       \/ /\ marker.kind = "activation" /\ Committed(marker.tx) /\ pointer = marker.to
          /\ Boot("clear")
    /\ UNCHANGED <<durable, tx, dropped, faults>>

BootMarker ==
    /\ pc = "marker"
    /\ marker' = [kind |-> "bootstrap", tx |-> 0, to |-> 1]
    /\ Boot("version")
    /\ UNCHANGED <<versions, pointer, chain, tx, dropped, faults>>

\* The policy of the configuration becomes version 1.
BootVersion ==
    /\ pc = "version"
    /\ \E p \in Policies : versions' = <<p>>
    /\ Boot("pointer")
    /\ UNCHANGED <<pointer, marker, chain, tx, dropped, faults>>

BootPointer ==
    /\ pc = "pointer"
    /\ pointer' = marker.to
    /\ Boot("clear")
    /\ UNCHANGED <<versions, marker, chain, tx, dropped, faults>>

BootClear ==
    /\ pc = "clear"
    /\ marker' = NoMarker
    /\ Load(pointer)
    /\ UNCHANGED <<versions, pointer, chain, tx, dropped, faults>>

-----------------------------------------------------------------------------
(* PolicyManager: apply and rollback, one at a time *)

\* #assertMutable, for the operation at the head of the queue.
Ready == pc = "up" /\ op.pc = "idle" /\ ~pending

Go(label) == op' = [op EXCEPT !.pc = label]

Begin(v) == op' = [pc |-> "begin", to |-> v, from |-> active, tx |-> 0, undo |-> engine]

\* apply: a checked draft that differs from the active policy, but not in its
\* repeat settings, becomes a new immutable version.
Apply(p) ==
    /\ Ready /\ Len(versions) < MaxVersions /\ tx < MaxTx
    /\ Repeat[p] = Repeat[versions[active]]
    /\ p # versions[active]
    /\ versions' = Append(versions, p)
    /\ Begin(Len(versions) + 1)
    /\ UNCHANGED <<pointer, marker, chain, pc, active, engine, repeat, pending, queue,
                   tx, dropped, faults>>

\* rollback: an existing version other than the active one.
Rollback(v) ==
    /\ Ready /\ tx < MaxTx
    /\ v \in DOMAIN versions /\ v # active
    /\ Repeat[versions[v]] = Repeat[versions[active]]
    /\ Begin(v)
    /\ UNCHANGED <<durable, pc, active, engine, repeat, pending, queue, tx, dropped, faults>>

\* beginActivation creates the marker exclusively.
BeginActivation ==
    /\ op.pc = "begin"
    /\ IF marker = NoMarker
       THEN /\ tx' = tx + 1
            /\ marker' = [kind |-> "activation", tx |-> tx', to |-> op.to]
            /\ op' = [op EXCEPT !.pc = "pointer", !.tx = tx']
       ELSE op' = Idle /\ UNCHANGED <<marker, tx>>
    /\ UNCHANGED <<versions, pointer, chain, pc, active, engine, repeat, pending, queue,
                   dropped, faults>>

\* MUTANT of SetPointer: the engine is replaced before the row can be queued.
SetPointerAndEngine ==
    /\ op.pc = "pointer"
    /\ pointer' = op.to
    /\ engine' = [version |-> op.to, tx |-> op.tx]
    /\ Go("swap")
    /\ UNCHANGED <<versions, marker, chain, pc, active, repeat, pending, queue,
                   tx, dropped, faults>>

SetPointer ==
    /\ op.pc = "pointer"
    /\ pointer' = op.to
    /\ Go("swap")
    /\ UNCHANGED <<versions, marker, chain, pc, active, engine, repeat, pending, queue,
                   tx, dropped, faults>>

\* In one continuation: the engine and the runtime's policy are replaced, and the
\* activation row is queued for the audit log.
Swap ==
    /\ op.pc = "swap"
    /\ active' = op.to
    /\ engine' = [version |-> op.to, tx |-> op.tx]
    /\ queue' = Append(queue, Activation(op.tx, op.to))
    /\ Go("commit")
    /\ UNCHANGED <<durable, pc, repeat, pending, tx, dropped, faults>>

\* clearTransaction, after the commit or after a clean rollback.
ClearMarker ==
    /\ op.pc = "clear"
    /\ marker' = NoMarker
    /\ op' = Idle
    /\ UNCHANGED <<versions, pointer, chain, pc, active, engine, repeat, pending, queue,
                   tx, dropped, faults>>

\* MUTANT of RestorePointer: the file is restored, the store's copy is not.
RestoreFileOnly ==
    /\ op.pc = "restore"
    /\ pointer' = op.from
    /\ Go("clear")
    /\ UNCHANGED <<versions, marker, chain, pc, active, engine, repeat, pending, queue,
                   tx, dropped, faults>>

\* The rollback of a failed activation puts the pointer back.
RestorePointer ==
    /\ op.pc = "restore"
    /\ pointer' = op.from /\ active' = op.from
    /\ Go("clear")
    /\ UNCHANGED <<versions, marker, chain, pc, engine, repeat, pending, queue,
                   tx, dropped, faults>>

\* MUTANT of Fails: the marker is cleared although the pointer was not restored.
FailsClearing ==
    /\ Fault
    /\ \/ op.pc = "begin" /\ op' = Idle /\ UNCHANGED pending
       \/ op.pc \in {"pointer", "restore"} /\ Go("clear") /\ UNCHANGED pending
       \/ op.pc = "clear" /\ op' = Idle /\ pending' = TRUE
    /\ UNCHANGED <<durable, pc, active, engine, repeat, queue, tx, dropped>>

\* A file operation of the activation fails.  Before the pointer has moved only
\* the marker is to be cleared; a clean-up that fails leaves the marker and locks
\* the manager.
Fails ==
    /\ Fault
    /\ \/ op.pc = "begin" /\ op' = Idle /\ UNCHANGED pending
       \/ op.pc = "pointer" /\ Go("clear") /\ UNCHANGED pending
       \/ op.pc \in {"clear", "restore"} /\ op' = Idle /\ pending' = TRUE
    /\ UNCHANGED <<durable, pc, active, engine, repeat, queue, tx, dropped>>

-----------------------------------------------------------------------------
(* The Governor and the audit log *)

\* authorize: decided by the present engine and queued in the same continuation.
Authorize ==
    /\ pc = "up"
    /\ Len(queue) < MaxDecisions
    /\ queue' = Append(queue, Decision(engine.tx))
    /\ UNCHANGED <<durable, pc, active, engine, repeat, op, pending, tx, dropped, faults>>

\* The oldest row is appended; an activation is thereby committed.
AppendRow ==
    /\ queue # <<>>
    /\ queue' = Tail(queue)
    /\ IF Head(queue).type = "activated"
       THEN chain' = Append(chain, [tx |-> Head(queue).tx, to |-> Head(queue).to]) /\ Go("clear")
       ELSE UNCHANGED <<chain, op>>
    /\ UNCHANGED <<versions, pointer, marker, pc, active, engine, repeat, pending,
                   tx, dropped, faults>>

\* The append fails.  For an activation the catch clause puts the previous engine
\* back at once.
AppendFails ==
    /\ Fault
    /\ queue # <<>>
    /\ queue' = Tail(queue)
    /\ IF Head(queue).type = "activated"
       THEN /\ engine' = op.undo
            /\ dropped' = dropped \cup {op.tx}
            /\ Go("restore")
       ELSE UNCHANGED <<engine, dropped, op>>
    /\ UNCHANGED <<durable, pc, active, repeat, pending, tx>>

\* The process stops; the files stay.
Stop ==
    /\ Fault
    /\ pc # "down"
    /\ pc' = "down" /\ active' = 0 /\ engine' = NoEngine
    /\ op' = Idle /\ pending' = FALSE /\ queue' = <<>>
    /\ UNCHANGED <<durable, repeat, tx, dropped>>

-----------------------------------------------------------------------------

Next ==
    \/ Start \/ BootMarker \/ BootVersion \/ BootPointer \/ BootClear
    \/ \E p \in Policies : Apply(p)
    \/ \E v \in Versions : Rollback(v)
    \/ BeginActivation \/ SetPointer \/ Swap \/ ClearMarker \/ RestorePointer \/ Fails
    \/ Authorize \/ AppendRow \/ AppendFails
    \/ Stop

Spec == Init /\ [][Next]_vars

-----------------------------------------------------------------------------
(* Properties *)

\* Between operations the engine that decides, the store's copy and the file name
\* the same version, and no marker is left, whatever failed and was rolled back;
\* otherwise the manager is locked (policy-manager.js #activate).
AuthorityAgrees ==
    pc = "up" /\ op.pc = "idle" /\ ~pending =>
        engine.version = pointer /\ active = pointer /\ marker = NoMarker

\* Whenever the process stops, a restart that is not refused loads the last
\* committed policy.
RestartLoadsCommitted ==
    /\ pointer # 0
    /\ \/ marker.kind = "none"
       \/ marker.kind = "activation" /\ Committed(marker.tx) /\ pointer = marker.to
    => pointer = LastTo

\* Read in order, the audit log tells the policy behind each decision: a decision
\* row is queued behind the activation row of the engine that made it, before that
\* of the next (replacePolicy and append run in one continuation); only decisions
\* of an activation whose row could not be appended are without one.
Replayed(i) ==
    LET before == {j \in 1..(i - 1) : queue[j].type = "activated"}
    IN  IF before = {} THEN LastTx
        ELSE queue[CHOOSE j \in before : \A k \in before : k <= j].tx

DecisionsFollowActivation ==
    \A i \in DOMAIN queue :
        queue[i].type = "decision" =>
            queue[i].tx = Replayed(i) \/ queue[i].tx \in dropped

=============================================================================
