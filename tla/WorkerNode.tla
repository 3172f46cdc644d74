----------------------------- MODULE WorkerNode -----------------------------
(***************************************************************************)
(* A Worker Node: the service of src/src/worker-node-server.js over its    *)
(* dispatch ledger (worker-node-dispatch-store.js) and the tasks of its    *)
(* own orchestrator.  A dispatch is answered as soon as its task exists;   *)
(* execute() then runs the node's scheduler in the background.             *)
(*                                                                         *)
(* The ledger is a Map in memory; every mutation enqueues a snapshot of it *)
(* on the write queue, and the process may stop with snapshots unwritten.  *)
(* A task is queued, running or ended; its acceptance is part of running   *)
(* and a blocked task is counted with the failed ones, as the node's       *)
(* protocol reports it.  The ledger's limits (500 entries, 7 days) are not *)
(* reached.                                                                *)
(***************************************************************************)
EXTENDS Integers, Sequences

CONSTANTS
    Requests,       \* request ids
    Bodies,         \* request bodies (their hashes)
    Calls,          \* HTTP connections the node handles at a time
    MaxConcurrency, \* maxConcurrency of the worker agent
    MaxTasks,       \* bound: tasks created
    FaultKinds,     \* what may go wrong: "restart", "create", "loop"
    MaxFaults,      \* bound: restarts and failed operations
    None

ASSUME NodeAssumption ==
    /\ None \notin Calls \cup Requests
    /\ MaxConcurrency \in Nat \ {0} /\ MaxTasks \in Nat /\ MaxFaults \in Nat

VARIABLES
    ledger,         \* ledger[q]: WorkerNodeDispatchStore.#records
    file,           \* file[q]: the ledger file
    writes,         \* #writeQueue: snapshots, with the handler that awaits each
    call,           \* call[c]: the request a connection carries
    loop,           \* loop[q]: the execute() call of request q
    task,           \* the tasks in the node's task store, in order of creation
    busy,           \* Orchestrator.#busy of the worker agent
    faults          \* restarts and failed operations so far

node == <<ledger, file, writes, call, loop, task, busy>>

Live == {"queued", "running"}
Ended == {"completed", "failed", "cancelled"}

TaskIds == 1..MaxTasks

\* An entry without a task has task 0.
NoRecord == [status |-> "none", body |-> None, task |-> 0]
Record == {NoRecord} \cup
    [status : Ended \cup {"accepted", "running"}, body : Bodies, task : 0..MaxTasks]

NoCall == [pc |-> "idle", req |-> None, task |-> 0, answer |-> "none"]
NoLoop == [pc |-> "none", task |-> 0, seen |-> "none"]

Answers == {"none", "queued", "running", "accepted", "completed", "failed", "cancelled",
            "confirmed", "conflict", "unavailable", "unknown"}

DispatchPc == {"put", "created", "update", "failing"}

NodeInit ==
    /\ ledger = [q \in Requests |-> NoRecord]
    /\ file = ledger
    /\ writes = <<>>
    /\ call = [c \in Calls |-> NoCall]
    /\ loop = [q \in Requests |-> NoLoop]
    /\ task = <<>>
    /\ busy = 0
    /\ faults = 0

-----------------------------------------------------------------------------
(* The ledger *)

\* A mutation of the Map, and the write that handler h enqueues with it.
Put(q, record, h) ==
    /\ ledger' = [ledger EXCEPT ![q] = record]
    /\ writes' = Append(writes, [by |-> h, entries |-> ledger'])

Awaits(h) == \E i \in DOMAIN writes : writes[i].by = h

Written ==
    /\ writes # <<>>
    /\ file' = Head(writes).entries
    /\ writes' = Tail(writes)
    /\ UNCHANGED <<ledger, call, loop, task, busy, faults>>

\* findByRemoteTaskId
Owners(t) == {q \in Requests : ledger[q].task = t}

\* statusFor: a failed entry hides a task that has not ended.
Reported(q) ==
    LET t == ledger[q].task IN
    IF t = 0 \/ (ledger[q].status = "failed" /\ task[t].status \notin Ended)
    THEN ledger[q].status ELSE task[t].status

Fault(kind) == kind \in FaultKinds /\ faults < MaxFaults /\ faults' = faults + 1

-----------------------------------------------------------------------------
(* dispatch *)

\* The handlers of a request that share its lock: the first one and those that
\* were given its promise.
Sharing(c) == {d \in Calls : d = c \/ (call[d].pc = "follow" /\ call[d].req = call[c].req)}

Answer(t, answer) == [NoCall EXCEPT !.pc = "answered", !.task = t, !.answer = answer]

Answered(c, t, answer) ==
    call' = [d \in Calls |-> IF d \in Sharing(c)
                             THEN Answer(t, answer) ELSE call[d]]

Locked(q) == \E d \in Calls : call[d].req = q /\ call[d].pc \in DispatchPc

\* MUTANT of Dispatch: an entry that failed is dispatched anew.
DispatchFailedAgain(c, q, b) ==
    LET new == [NoCall EXCEPT !.pc = "put", !.req = q] IN
    /\ call[c].pc = "idle"
    /\ \/ /\ Locked(q)
          /\ call' = [call EXCEPT ![c] = [new EXCEPT !.pc = "follow"]]
          /\ UNCHANGED <<ledger, writes>>
       \/ /\ ~Locked(q) /\ ledger[q].status \notin {"none", "failed"}
          /\ call' = [call EXCEPT ![c] = IF ledger[q].body = b
                                         THEN Answer(ledger[q].task, Reported(q))
                                         ELSE Answer(0, "conflict")]
          /\ UNCHANGED <<ledger, writes>>
       \/ /\ ~Locked(q) /\ ledger[q].status \in {"none", "failed"}
          /\ call' = [call EXCEPT ![c] = new]
          /\ Put(q, [status |-> "accepted", body |-> b, task |-> 0], c)
    /\ UNCHANGED <<file, loop, task, busy>>

\* dispatchSerialized and the start of dispatch: a request in progress is joined,
\* whatever its body; a known one is answered from the ledger; a new one is put
\* there first.
Dispatch(c, q, b) ==
    LET new == [NoCall EXCEPT !.pc = "put", !.req = q] IN
    /\ call[c].pc = "idle"
    /\ \/ /\ Locked(q)
          /\ call' = [call EXCEPT ![c] = [new EXCEPT !.pc = "follow"]]
          /\ UNCHANGED <<ledger, writes>>
       \/ /\ ~Locked(q) /\ ledger[q] # NoRecord
          /\ call' = [call EXCEPT ![c] = IF ledger[q].body = b
                                         THEN Answer(ledger[q].task, Reported(q))
                                         ELSE Answer(0, "conflict")]
          /\ UNCHANGED <<ledger, writes>>
       \/ /\ ~Locked(q) /\ ledger[q] = NoRecord
          /\ call' = [call EXCEPT ![c] = new]
          /\ Put(q, [status |-> "accepted", body |-> b, task |-> 0], c)
    /\ UNCHANGED <<file, loop, task, busy>>

\* MUTANT of Create: the task is created while the entry is still being written.
CreateUnwritten(c) ==
    /\ call[c].pc = "put" /\ Len(task) < MaxTasks
    /\ task' = Append(task, [req |-> call[c].req, status |-> "queued"])
    /\ call' = [call EXCEPT ![c].pc = "created", ![c].task = Len(task) + 1]
    /\ UNCHANGED <<ledger, file, writes, loop, busy, faults>>

\* createRemoteTask: once the entry is written, a plan and a task are created.
Create(c) ==
    /\ call[c].pc = "put" /\ ~Awaits(c) /\ Len(task) < MaxTasks
    /\ task' = Append(task, [req |-> call[c].req, status |-> "queued"])
    /\ call' = [call EXCEPT ![c].pc = "created", ![c].task = Len(task) + 1]
    /\ UNCHANGED <<ledger, file, writes, loop, busy, faults>>

\* delegateTrusted has returned, and the entry is given its task.
Bind(c) ==
    LET q == call[c].req IN
    /\ call[c].pc = "created"
    /\ Put(q, [ledger[q] EXCEPT !.task = call[c].task, !.status = "accepted"], c)
    /\ call' = [call EXCEPT ![c].pc = "update"]
    /\ UNCHANGED <<file, loop, task, busy, faults>>

\* The creation fails, before the task is submitted or after.
CreateFails(c) ==
    LET q == call[c].req IN
    /\ Fault("create")
    /\ call[c].pc = "created" \/ (call[c].pc = "put" /\ ~Awaits(c))
    /\ Put(q, [ledger[q] EXCEPT !.status = "failed"], c)
    /\ call' = [call EXCEPT ![c].pc = "failing"]
    /\ UNCHANGED <<file, loop, task, busy>>

\* The dispatch is answered, and execute() runs on.
Accept(c) ==
    /\ call[c].pc = "update" /\ ~Awaits(c)
    /\ Answered(c, call[c].task, "accepted")
    /\ loop' = [loop EXCEPT ![call[c].req].pc = "loop"]
    /\ UNCHANGED <<ledger, file, writes, task, busy, faults>>

Refuse(c) ==
    /\ call[c].pc = "failing" /\ ~Awaits(c)
    /\ Answered(c, 0, "unavailable")
    /\ UNCHANGED <<ledger, file, writes, loop, task, busy, faults>>

\* The client has the answer, or is gone.
HangUp(c) == call[c].pc = "answered" /\ call' = [call EXCEPT ![c] = NoCall]

-----------------------------------------------------------------------------
(* execute: runUntilIdle, then the outcome in the ledger *)

\* Any queued task is taken, not only that of the request.
LoopTakes(q) ==
    /\ loop[q].pc = "loop" /\ busy < MaxConcurrency
    /\ \E t \in DOMAIN task :
        /\ task[t].status = "queued"
        /\ task' = [task EXCEPT ![t].status = "running"]
        /\ loop' = [loop EXCEPT ![q].pc = "run", ![q].task = t]
    /\ busy' = busy + 1
    /\ UNCHANGED <<ledger, file, writes, call, faults>>

\* The end is written if the task is still running.
LoopEndsTask(q) ==
    /\ loop[q].pc = "run"
    /\ \E outcome \in {"completed", "failed"} :
        task' = [task EXCEPT ![loop[q].task].status = IF @ = "running" THEN outcome ELSE @]
    /\ loop' = [loop EXCEPT ![q].pc = "loop", ![q].task = 0]
    /\ busy' = busy - 1
    /\ UNCHANGED <<ledger, file, writes, call, faults>>

\* The scheduler finds nothing it can run, and the task of the request is read.
LoopIdle(q) ==
    /\ loop[q].pc = "loop"
    /\ busy >= MaxConcurrency \/ \A t \in DOMAIN task : task[t].status # "queued"
    /\ loop' = [loop EXCEPT ![q].pc = "ended", ![q].seen = task[ledger[q].task].status]
    /\ UNCHANGED <<ledger, file, writes, call, task, busy, faults>>

\* MUTANT of LoopRecords: whatever was seen, the run is over.
LoopRecordsSuccess(q) ==
    /\ loop[q].pc = "ended"
    /\ Put(q, [ledger[q] EXCEPT !.status =
            IF loop[q].seen = "failed" THEN "failed" ELSE "completed"], q)
    /\ loop' = [loop EXCEPT ![q] = NoLoop]
    /\ UNCHANGED <<file, call, task, busy, faults>>

\* "queued" is no status of the ledger: that update throws and failed is written.
LoopRecords(q) ==
    /\ loop[q].pc = "ended"
    /\ Put(q, [ledger[q] EXCEPT !.status =
            IF loop[q].seen = "queued" THEN "failed" ELSE loop[q].seen], q)
    /\ loop' = [loop EXCEPT ![q] = NoLoop]
    /\ UNCHANGED <<file, call, task, busy, faults>>

\* An append fails in the scheduler: the task it was starting stays as it is, and
\* so does the slot.
LoopFails(q) ==
    /\ Fault("loop")
    /\ loop[q].pc \in {"loop", "run"}
    /\ Put(q, [ledger[q] EXCEPT !.status = "failed"], q)
    /\ loop' = [loop EXCEPT ![q] = NoLoop]
    /\ UNCHANGED <<file, call, task, busy>>

-----------------------------------------------------------------------------
(* cancel, restart *)

\* cancel finds the entry and, unless the task has ended, asks the orchestrator.
CancelCall(c, t) ==
    LET q == CHOOSE q \in Owners(t) : TRUE IN
    /\ call[c].pc = "idle"
    /\ \/ /\ Owners(t) = {}
          /\ call' = [call EXCEPT ![c] = Answer(t, "unknown")]
       \/ /\ Owners(t) # {} /\ Reported(q) \in Ended
          /\ call' = [call EXCEPT ![c] =
                Answer(t, IF Reported(q) = "cancelled" THEN "confirmed" ELSE Reported(q))]
       \/ /\ Owners(t) # {} /\ Reported(q) \notin Ended
          /\ call' = [call EXCEPT ![c] = [NoCall EXCEPT !.pc = "cancel", !.req = q, !.task = t]]
    /\ UNCHANGED <<ledger, file, writes, loop, task, busy>>

\* MUTANT of CancelTask: only a running task is cancelled.
CancelRunning(c) ==
    /\ call[c].pc = "cancel"
    /\ task' = [task EXCEPT ![call[c].task].status = IF @ = "running" THEN "cancelled" ELSE @]
    /\ call' = [call EXCEPT ![c].pc = "swapped"]
    /\ UNCHANGED <<ledger, file, writes, loop, busy, faults>>

\* Orchestrator.cancel
CancelTask(c) ==
    /\ call[c].pc = "cancel"
    /\ task' = [task EXCEPT ![call[c].task].status = IF @ \in Live THEN "cancelled" ELSE @]
    /\ call' = [call EXCEPT ![c].pc = "swapped"]
    /\ UNCHANGED <<ledger, file, writes, loop, busy, faults>>

CancelRecord(c) ==
    LET q == call[c].req IN
    /\ call[c].pc = "swapped"
    /\ Put(q, [ledger[q] EXCEPT !.status = "cancelled"], c)
    /\ call' = [call EXCEPT ![c].pc = "cancelled"]
    /\ UNCHANGED <<file, loop, task, busy, faults>>

\* Cancelled or not, the answer is confirmed.
CancelDone(c) ==
    /\ call[c].pc = "cancelled" /\ ~Awaits(c)
    /\ call' = [call EXCEPT ![c] = Answer(@.task, "confirmed")]
    /\ UNCHANGED <<ledger, file, writes, loop, task, busy, faults>>

\* DispatchStore.init: what was active is marked failed, and saved.
Interrupted(entries) ==
    [q \in Requests |-> IF entries[q].status \in {"accepted", "running"}
                        THEN [entries[q] EXCEPT !.status = "failed"] ELSE entries[q]]

\* The process stops and starts again: the ledger file and the task store survive.
Restart ==
    /\ Fault("restart")
    /\ ledger' = Interrupted(file) /\ file' = ledger'
    /\ writes' = <<>>
    /\ call' = [c \in Calls |-> NoCall]
    /\ loop' = [q \in Requests |-> NoLoop]
    /\ busy' = 0
    /\ UNCHANGED task

-----------------------------------------------------------------------------

NodeStep ==
    \/ Written
    \/ \E c \in Calls :
        \/ Create(c) \/ Bind(c) \/ Accept(c) \/ Refuse(c)
        \/ CancelTask(c) \/ CancelRecord(c) \/ CancelDone(c)
    \/ \E q \in Requests : LoopTakes(q) \/ LoopEndsTask(q) \/ LoopIdle(q) \/ LoopRecords(q)

NodeFaults ==
    \/ \E c \in Calls : CreateFails(c)
    \/ \E q \in Requests : LoopFails(q)
    \/ Restart

\* Paired desktops, whatever they ask.
Clients ==
    /\ \E c \in Calls :
        \/ \E q \in Requests, b \in Bodies : Dispatch(c, q, b)
        \/ \E t \in DOMAIN task : CancelCall(c, t)
        \/ HangUp(c) /\ UNCHANGED <<ledger, file, writes, loop, task, busy>>
    /\ UNCHANGED faults

NodeNext == NodeStep \/ NodeFaults \/ Clients

NodeSpec == NodeInit /\ [][NodeNext]_<<node, faults>>

-----------------------------------------------------------------------------
(* Properties *)

\* However often a request is sent, and wherever the node stops between the ledger
\* and the task store, one task at most is created for it (dispatch, locks).
OneTaskPerRequest ==
    \A t, u \in DOMAIN task : task[t].req = task[u].req => t = u

\* The ledger says completed only of a task that is: neither a stale read of
\* execute() nor a cancellation in between makes it claim a success.
LedgerTruthful ==
    \A q \in Requests :
        ledger[q].status = "completed" => task[ledger[q].task].status = "completed"

\* A confirmed cancellation is one of a task that has ended: nothing executes it
\* any more, whichever loop had it.
ConfirmedIsOver ==
    \A c \in Calls :
        call[c].pc = "answered" /\ call[c].answer = "confirmed"
            => task[call[c].task].status \in Ended

=============================================================================
