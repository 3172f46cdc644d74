----------------------------- MODULE RemoteJob -----------------------------
(***************************************************************************)
(* The desktop's job controller (job-controller.js): jobs, the pump that   *)
(* runs them one after the other, retries with back-off, the operator's    *)
(* cancel, pause, resume, approve and dismiss, and restarts; together with *)
(* the harness that carries an attempt to a Worker Node                    *)
(* (worker-node-harness.js, worker-node-client.js) over a network that     *)
(* loses requests and answers.                                             *)
(*                                                                         *)
(* The Worker Node itself is what WorkerNode shows it to be: a request has *)
(* one task, however often it is sent, so the remote task of request q is  *)
(* named q, and 0 is no task.  A job persists with save(), which writes    *)
(* all jobs in one piece: saved is the last such snapshot.  The pump is    *)
(* the only caller of runUntilIdle here.                                   *)
(***************************************************************************)
EXTENDS Integers, Sequences, SequencesExt, FiniteSets

CONSTANTS
    Jobs,           \* jobs the operator may submit
    MaxAttempts,    \* CAPS.maxAttempts
    MaxReconnects,  \* CAPS.maxWorkerNodeReconnects
    MaxRequests,    \* bound: request ids made
    MaxLocals,      \* bound: local tasks created
    MaxOps,         \* bound: operations of the operator
    MaxFaults,      \* bound: failures of the desktop's own steps
    MaxLosses,      \* bound: failures of the network and of the node
    None

ASSUME JobAssumption ==
    /\ IsFiniteSet(Jobs) /\ None \notin Jobs
    /\ MaxAttempts \in Nat \ {0} /\ MaxReconnects \in Nat \ {0}
    /\ MaxRequests \in Nat /\ MaxLocals \in Nat
    /\ MaxOps \in Nat /\ MaxFaults \in Nat /\ MaxLosses \in Nat

VARIABLES
    job,            \* job[j]: the record of a job
    saved,          \* jobs.json
    chain,          \* pumpChain: jobs whose pump waits for its turn
    pump,           \* the locals of runPump
    local,          \* the tasks of the desktop's orchestrator, in order of creation
    node,           \* node[q]: the Worker Node's task of request q
    op,             \* the locals of a cancel() in progress
    issued,         \* request ids made so far
    ops, faults, losses

vars == <<job, saved, chain, pump, local, node, op, issued, ops, faults, losses>>

TerminalJob == {"completed", "failed", "cancelled"}
LocalEnded == {"completed", "failed", "lost", "cancelled"}

RequestIds == 1..MaxRequests

\* A job not yet submitted.  remote: its execution target is a Worker Node; due: whether nextActionAt has been reached;
\* repeats: _repeatCount, or -1 before the first fingerprint.
NewJob == [status |-> "none", remote |-> FALSE, attempt |-> 0, req |-> 0, rid |-> 0, reconnects |-> 0,
           due |-> TRUE, skip |-> FALSE, repeats |-> -1, tasks |-> {}]

NoPump == [pc |-> "idle", job |-> None, local |-> 0, running |-> 0]
NoOp == [pc |-> "idle", job |-> None, rid |-> 0, tasks |-> {}]

Init ==
    /\ job = [j \in Jobs |-> NewJob]
    /\ saved = job
    /\ chain = <<>>
    /\ pump = NoPump
    /\ local = <<>>
    /\ node = [q \in RequestIds |-> "none"]
    /\ op = NoOp
    /\ issued = 0 /\ ops = 0 /\ faults = 0 /\ losses = 0

\* The record of job j becomes r, and save().
SaveJob(j, r) == job' = [job EXCEPT ![j] = r] /\ saved' = job'

SetStatus(j, s) == [job[j] EXCEPT !.status = s]

Fault == faults < MaxFaults /\ faults' = faults + 1
Loss == losses < MaxLosses /\ losses' = losses + 1
Operates == ops < MaxOps /\ ops' = ops + 1

counters == <<ops, faults, losses>>

-----------------------------------------------------------------------------
(* Submission and wake-up *)

\* submitJob.  A routine's job is not scheduled (deferSchedule), a job with a
\* later nextActionAt is passed over by its first pump.
SubmitJob(j) ==
    /\ job[j].status = "none"
    /\ \E remote, later, deferred \in BOOLEAN :
        /\ SaveJob(j, [NewJob EXCEPT !.status = "queued", !.remote = remote, !.due = ~later])
        /\ chain' = IF deferred THEN chain ELSE Append(chain, j)
    /\ UNCHANGED <<pump, local, node, op, issued, counters>>

\* Time reaches a job's nextActionAt.
ComesDue(j) ==
    /\ ~job[j].due
    /\ job' = [job EXCEPT ![j].due = TRUE]
    /\ saved' = [saved EXCEPT ![j].due = TRUE]
    /\ UNCHANGED <<chain, pump, local, node, op, issued, counters>>

DueJobs == {j \in Jobs : job[j].status \in {"queued", "waiting"} /\ job[j].due}

\* tickOnce: the chief loop wakes every due job, unless a job is working.
WakeDueJobs ==
    /\ \A j \in Jobs : job[j].status # "working"
    /\ DueJobs \ ToSet(chain) # {}
    /\ job' = [j \in Jobs |->
            IF j \in DueJobs /\ job[j].status = "waiting"
            THEN [job[j] EXCEPT !.status = "queued", !.skip = TRUE] ELSE job[j]]
    /\ saved' = job'
    /\ chain' = chain \o SetToSeq(DueJobs)
    /\ UNCHANGED <<pump, local, node, op, issued, counters>>

-----------------------------------------------------------------------------
(* The pump *)

PumpOn(j) == pump.job = j /\ pump.pc # "idle"

PumpEnds == pump' = NoPump

\* A pump starts: a job that is over, waits for the operator or is not due is left
\* alone.  Resolving the target may fail, which PumpThrows models.
PumpStarts ==
    /\ pump.pc = "idle" /\ chain # <<>>
    /\ issued < MaxRequests /\ Len(local) < MaxLocals  \* bounds
    /\ chain' = Tail(chain)
    /\ LET j == Head(chain) IN
        pump' = IF job[j].status \in TerminalJob \cup {"needs_attention"} \/ ~job[j].due
                THEN NoPump ELSE [NoPump EXCEPT !.pc = "prepare", !.job = j]
    /\ UNCHANGED <<job, saved, local, node, op, issued, counters>>

\* recoverRemoteTaskBinding: the job's tasks that are bound to a remote task, of
\* its request if it has one.
Bound(j) == {i \in DOMAIN local : /\ i \in job[j].tasks /\ local[i].rid # 0
                                  /\ job[j].req \in {0, local[i].req}}

\* MUTANT of Binding: every pump of a job makes a new request.
BindingAfresh(j) == IF job[j].remote THEN <<issued + 1, 0>> ELSE <<0, 0>>

\* ensureWorkerNodeRequestBinding, after recoverRemoteTaskBinding.
Binding(j) ==
    IF ~job[j].remote THEN <<0, 0>>
    ELSE IF job[j].rid = 0 /\ Bound(j) # {}
    THEN LET i == CHOOSE i \in Bound(j) : \A k \in Bound(j) : i <= k
         IN <<local[i].req, local[i].rid>>
    ELSE <<IF job[j].req = 0 THEN issued + 1 ELSE job[j].req, job[j].rid>>

\* The count of repeated fingerprints: within their window it grows.
Repeats(j) ==
    IF job[j].skip \/ job[j].repeats = -1 THEN {0}
    ELSE {0, IF job[j].repeats = 2 THEN 2 ELSE job[j].repeats + 1}

\* From the target to the fingerprint: the job's request is bound, a waiting job
\* becomes working, and the third repetition stops for the operator.
Prepare ==
    LET j == pump.job
        b == Binding(j)
        bound == [job[j] EXCEPT !.req = b[1], !.rid = b[2]]
    IN
    /\ pump.pc = "prepare"
    /\ issued' = IF b[1] > issued THEN b[1] ELSE issued
    /\ \E n \in Repeats(j) :
        LET starts == job[j].status \in {"waiting", "queued"}
            r == [bound EXCEPT !.status = IF starts THEN "working" ELSE @,
                               !.skip = FALSE, !.repeats = n] IN
        IF n >= 2
        THEN SaveJob(j, [r EXCEPT !.status = "needs_attention"]) /\ PumpEnds
        ELSE /\ job' = [job EXCEPT ![j] = r]
             /\ saved' = [job EXCEPT ![j] = [r EXCEPT !.repeats = job[j].repeats]]
             /\ pump' = [pump EXCEPT !.pc = "plan"]
    /\ UNCHANGED <<chain, local, node, op, counters>>

\* createPlan and delegateTrusted: from here any loop may run the task.
Delegate ==
    LET j == pump.job IN
    /\ pump.pc = "plan"
    /\ local' = Append(local, [job |-> j, req |-> job[j].req, given |-> job[j].rid,
                               rid |-> 0, status |-> "queued", pc |-> "none"])
    /\ pump' = [pump EXCEPT !.pc = "delegated", !.local = Len(local) + 1]
    /\ UNCHANGED <<job, saved, chain, node, op, issued, counters>>

\* The task is noted in the job.
Own ==
    /\ pump.pc = "delegated"
    /\ SaveJob(pump.job, [job[pump.job] EXCEPT !.tasks = @ \cup {pump.local}])
    /\ pump' = [pump EXCEPT !.pc = "run"]
    /\ UNCHANGED <<chain, local, node, op, issued, counters>>

Queued == {i \in DOMAIN local : local[i].status = "queued"}

\* runUntilIdle takes any queued task, and waits for it.
PumpTakes ==
    /\ pump.pc = "run" /\ pump.running = 0
    /\ \E i \in Queued :
        /\ local' = [local EXCEPT ![i].status = "running", ![i].pc = "start"]
        /\ pump' = [pump EXCEPT !.running = i]
    /\ UNCHANGED <<job, saved, chain, node, op, issued, counters>>

PumpResumes ==
    /\ pump.pc = "run" /\ pump.running # 0 /\ local[pump.running].pc = "over"
    /\ pump' = [pump EXCEPT !.running = 0]
    /\ UNCHANGED <<job, saved, chain, local, node, op, issued, counters>>

\* scheduleWorkerNodeReconnect
Reconnect(r) ==
    IF r.reconnects + 1 >= MaxReconnects
    THEN [r EXCEPT !.reconnects = @ + 1, !.status = "needs_attention", !.due = TRUE]
    ELSE [r EXCEPT !.reconnects = @ + 1, !.status = "waiting", !.due = FALSE]

\* An attempt that did not complete: wait and try again, or ask the operator.  The
\* next attempt on a Worker Node is to be a new request.
NextAttempt(j, r) ==
    IF r.attempt + 1 < MaxAttempts
    THEN [r EXCEPT !.attempt = @ + 1, !.status = "waiting", !.due = FALSE,
                   !.req = 0, !.rid = 0, !.reconnects = 0]
    ELSE [r EXCEPT !.attempt = @ + 1, !.status = "needs_attention", !.reconnects = 0]

\* MUTANT of Finish: a lost connection is taken for an answer.
FinishOnRemote ==
    LET j == pump.job
        t == local[pump.local]
    IN
    /\ pump.pc = "run" /\ pump.running = 0 /\ Queued = {}
    /\ job[j].status \notin {"cancelled", "needs_attention"}
    /\ SaveJob(j, SetStatus(j, IF t.status \in {"completed", "lost"}
                               THEN "completed" ELSE "needs_attention"))
    /\ PumpEnds
    /\ UNCHANGED <<chain, local, node, op, issued, counters>>

\* The loop found nothing more to run: the job follows its task, unless it was
\* cancelled or stopped meanwhile.  A completed job is saved after aggregatePlan.
Finish ==
    LET j == pump.job
        t == local[pump.local]
        r == IF job[j].remote /\ t.rid # 0 THEN [job[j] EXCEPT !.rid = t.rid] ELSE job[j]
    IN
    /\ pump.pc = "run" /\ pump.running = 0 /\ Queued = {}
    /\ \/ /\ job[j].status \in {"cancelled", "needs_attention"}
          /\ SaveJob(j, r) /\ PumpEnds
       \/ /\ job[j].status \notin {"cancelled", "needs_attention"}
          /\ t.status = "completed"
          /\ job' = [job EXCEPT ![j] = [r EXCEPT !.status = "completed", !.reconnects = 0]]
          /\ saved' = [job EXCEPT ![j] = r]
          /\ pump' = [pump EXCEPT !.pc = "aggregate"]
       \/ /\ job[j].status \notin {"cancelled", "needs_attention"}
          /\ t.status # "completed"
          /\ SaveJob(j, IF job[j].remote /\ t.status = "lost" THEN Reconnect(r)
                        ELSE NextAttempt(j, r))
          /\ PumpEnds
    /\ UNCHANGED <<chain, local, node, op, issued, counters>>

Aggregated ==
    /\ pump.pc = "aggregate"
    /\ saved' = job /\ PumpEnds
    /\ UNCHANGED <<job, chain, local, node, op, issued, counters>>

\* A step of the pump throws: the target or the provider is unavailable, or a store
\* cannot be written.  The catch clause sets the job's status whatever it is by now.  A
\* failure of the network reaches the harness only, never these steps.
PumpThrows ==
    LET j == pump.job IN
    /\ pump.pc \in {"prepare", "plan", "delegated"} \/ (pump.pc = "run" /\ pump.running = 0)
    /\ Fault
    /\ \/ /\ ~job[j].remote /\ job[j].attempt + 1 < MaxAttempts
          /\ SaveJob(j, [job[j] EXCEPT !.attempt = @ + 1, !.status = "waiting", !.due = FALSE])
       \/ SaveJob(j, [job[j] EXCEPT !.status = "needs_attention", !.reconnects = 0])
    /\ PumpEnds
    /\ UNCHANGED <<chain, local, node, op, issued, ops, losses>>

-----------------------------------------------------------------------------
(* The harness of a running task, and the Worker Node *)

\* The harness settles with outcome s; a task cancelled meanwhile stays so.
Settled(i, s) ==
    local' = [local EXCEPT ![i].pc = "over",
                           ![i].status = IF @ = "running" THEN s ELSE @]

desktop == <<job, saved, chain, pump, op, issued>>

\* A task of a local job: a provider runs it.
RunsHere(i) ==
    /\ local[i].pc = "start" /\ ~job[local[i].job].remote
    /\ \E s \in {"completed", "failed"} : Settled(i, s)
    /\ UNCHANGED <<desktop, node, counters>>

\* A task that was given its remote task, or has one already, polls it.
Rebind(i) ==
    /\ local[i].pc = "start" /\ job[local[i].job].remote /\ local[i].given # 0
    /\ local' = [local EXCEPT ![i].pc = "poll", ![i].rid = local[i].given]
    /\ UNCHANGED <<desktop, node, counters>>

\* The dispatch reaches the node, and the node's answer the desktop.
Dispatch(i) ==
    LET q == local[i].req IN
    /\ local[i].pc = "start" /\ job[local[i].job].remote /\ local[i].given = 0
    /\ node' = [node EXCEPT ![q] = IF @ = "none" THEN "live" ELSE @]
    /\ IF node'[q] = "refused" THEN Settled(i, "failed")
       ELSE local' = [local EXCEPT ![i].pc = "bind"]
    /\ UNCHANGED <<desktop, counters>>

\* The request, or its answer, is lost, or the node refuses it.
DispatchFails(i) ==
    LET q == local[i].req IN
    /\ local[i].pc = "start" /\ job[local[i].job].remote /\ local[i].given = 0
    /\ Loss
    /\ \/ Settled(i, "lost") /\ UNCHANGED node
       \/ /\ node[q] = "none" /\ node' = [node EXCEPT ![q] = "live"]
          /\ Settled(i, "lost")
       \/ /\ node[q] = "none" /\ node' = [node EXCEPT ![q] = "refused"]
          /\ Settled(i, "failed")
    /\ UNCHANGED <<desktop, ops, faults>>

\* updateHarnessState: the remote task is noted in the local one.
Bind(i) ==
    /\ local[i].pc = "bind"
    /\ local' = [local EXCEPT ![i].pc = "poll", ![i].rid = local[i].req]
    /\ UNCHANGED <<desktop, node, counters>>

\* MUTANT of Poll: a task that the node cancelled is polled for ever.
PollWaitsForOutcome(i) ==
    /\ local[i].pc = "poll" /\ node[local[i].rid] \in {"completed", "failed"}
    /\ Settled(i, IF node[local[i].rid] = "completed" THEN "completed" ELSE "failed")
    /\ UNCHANGED <<desktop, node, counters>>

\* A poll that finds the remote task ended; or the thirteenth that finds no node.
Poll(i) ==
    /\ local[i].pc = "poll" /\ node[local[i].rid] # "live"
    /\ Settled(i, IF node[local[i].rid] = "completed" THEN "completed" ELSE "failed")
    /\ UNCHANGED <<desktop, node, counters>>

PollsFail(i) ==
    /\ local[i].pc = "poll" /\ Loss
    /\ Settled(i, "lost")
    /\ UNCHANGED <<desktop, node, ops, faults>>

\* The harness sees its signal aborted: it asks the node to cancel and throws, or,
\* in the delay between two polls, throws at once.
Abort(i) ==
    /\ local[i].pc = "poll" /\ local[i].status = "cancelled"
    /\ Settled(i, "cancelled")
    /\ \/ node' = [node EXCEPT ![local[i].rid] = IF @ = "live" THEN "cancelled" ELSE @]
       \/ UNCHANGED node
    /\ UNCHANGED <<desktop, counters>>

HarnessStep(i) == RunsHere(i) \/ Rebind(i) \/ Dispatch(i) \/ Bind(i) \/ Poll(i) \/ Abort(i)

\* The node's worker ends a task.
NodeEnds(q) ==
    /\ node[q] = "live"
    /\ \E s \in {"completed", "failed"} : node' = [node EXCEPT ![q] = s]
    /\ UNCHANGED <<desktop, local, counters>>

-----------------------------------------------------------------------------
(* The operator *)

\* The remote task that cancel() asks the node to cancel.
LatestRemote(j) ==
    IF job[j].rid # 0 THEN job[j].rid
    ELSE LET bound == {i \in job[j].tasks : local[i].rid # 0} IN
         IF bound = {} THEN 0
         ELSE local[CHOOSE i \in bound : \A k \in bound : i <= k].rid

\* cancel: a job on a Worker Node without a known remote task cannot be cancelled.
Cancel(j) ==
    /\ op.pc = "idle" /\ job[j].status \notin TerminalJob \cup {"none"}
    /\ Operates
    /\ \/ /\ job[j].remote /\ LatestRemote(j) = 0
          /\ SaveJob(j, SetStatus(j, "needs_attention"))
          /\ UNCHANGED op
       \/ /\ job[j].remote /\ LatestRemote(j) # 0
          /\ job' = [job EXCEPT ![j].rid = LatestRemote(j)]
          /\ op' = [pc |-> "remote", job |-> j, rid |-> LatestRemote(j), tasks |-> {}]
          /\ UNCHANGED saved
       \/ /\ ~job[j].remote
          /\ op' = [pc |-> "locals", job |-> j, rid |-> 0, tasks |-> job[j].tasks]
          /\ UNCHANGED <<job, saved>>
    /\ UNCHANGED <<chain, pump, local, node, issued, faults, losses>>

\* MUTANT of CancelRemote: any answer of the node is taken for a confirmation.
CancelRemoteAnswered ==
    LET q == op.rid IN
    /\ op.pc = "remote"
    /\ op' = [op EXCEPT !.pc = "locals", !.tasks = job[op.job].tasks]
    /\ UNCHANGED <<job, saved, chain, pump, local, node, issued, counters>>

\* The node cancels a live task and confirms it; anything else, a lost answer
\* included, leaves the cancellation unconfirmed.
CancelRemote ==
    LET q == op.rid
        j == op.job
    IN
    /\ op.pc = "remote"
    /\ \/ /\ node[q] \in {"live", "cancelled"}
          /\ node' = [node EXCEPT ![q] = "cancelled"]
          /\ op' = [op EXCEPT !.pc = "locals", !.tasks = job[j].tasks]
          /\ UNCHANGED <<job, saved, losses>>
       \/ /\ \/ node[q] \notin {"live", "cancelled"} /\ UNCHANGED <<node, losses>>
             \/ Loss /\ UNCHANGED node
             \/ Loss /\ node[q] = "live" /\ node' = [node EXCEPT ![q] = "cancelled"]
          /\ SaveJob(j, SetStatus(j, "needs_attention"))
          /\ op' = NoOp
    /\ UNCHANGED <<chain, pump, local, issued, ops, faults>>

\* The job's local tasks are cancelled, and their harnesses told.
CancelLocals ==
    /\ op.pc = "locals"
    /\ local' = [i \in DOMAIN local |->
            IF i \in op.tasks /\ local[i].status \notin LocalEnded
            THEN [local[i] EXCEPT !.status = "cancelled",
                                  !.pc = IF ~job[local[i].job].remote THEN "over" ELSE @]
            ELSE local[i]]
    /\ op' = [op EXCEPT !.pc = "set"]
    /\ UNCHANGED <<job, saved, chain, pump, node, issued, counters>>

CancelSet ==
    /\ op.pc = "set"
    /\ SaveJob(op.job, SetStatus(op.job, "cancelled"))
    /\ op' = NoOp
    /\ UNCHANGED <<chain, pump, local, node, issued, counters>>

\* pause: a waiting job with a nextActionAt of tomorrow, also while its pump runs.
Pause(j) ==
    /\ job[j].status \notin TerminalJob \cup {"none"} /\ Operates
    /\ SaveJob(j, [job[j] EXCEPT !.status = "waiting", !.due = FALSE])
    /\ UNCHANGED <<chain, pump, local, node, op, issued, faults, losses>>

\* resume, and approve for a job that needs attention.
Resume(j) ==
    LET attention == job[j].status = "needs_attention" IN
    /\ job[j].status \in {"waiting", "needs_attention"} /\ Operates
    /\ SaveJob(j, [job[j] EXCEPT !.status = "queued", !.due = TRUE, !.reconnects = 0,
                                 !.attempt = IF attention THEN 0 ELSE @,
                                 !.repeats = IF attention THEN -1 ELSE @,
                                 !.skip = ~attention])
    /\ chain' = Append(chain, j)
    /\ UNCHANGED <<pump, local, node, op, issued, faults, losses>>

Dismiss(j) ==
    /\ job[j].status = "needs_attention" /\ Operates
    /\ SaveJob(j, SetStatus(j, "failed"))
    /\ UNCHANGED <<chain, pump, local, node, op, issued, faults, losses>>

-----------------------------------------------------------------------------
(* Restart: the jobs that were in progress are queued again, on a Worker Node, or *)
(* have failed; a task that was running is not run again.                         *)

\* MUTANT of Restart: a job that was working keeps its status.
RestartKeepsWorking ==
    /\ Fault
    /\ job' = [j \in Jobs |->
            IF saved[j].status \notin {"queued", "waiting"} THEN saved[j]
            ELSE IF job[j].remote THEN [saved[j] EXCEPT !.status = "queued", !.due = TRUE]
            ELSE [saved[j] EXCEPT !.status = "failed"]]
    /\ saved' = job'
    /\ local' = [i \in DOMAIN local |-> [local[i] EXCEPT !.pc = "none"]]
    /\ chain' = <<>> /\ pump' = NoPump /\ op' = NoOp
    /\ UNCHANGED <<node, issued, ops, losses>>

Restart ==
    /\ Fault
    /\ job' = [j \in Jobs |->
            IF saved[j].status \notin {"queued", "working", "waiting"} THEN saved[j]
            ELSE IF job[j].remote THEN [saved[j] EXCEPT !.status = "queued", !.due = TRUE]
            ELSE [saved[j] EXCEPT !.status = "failed"]]
    /\ saved' = job'
    /\ local' = [i \in DOMAIN local |-> [local[i] EXCEPT !.pc = "none"]]
    /\ chain' = <<>> /\ pump' = NoPump /\ op' = NoOp
    /\ UNCHANGED <<node, issued, ops, losses>>

-----------------------------------------------------------------------------
PumpStep == PumpStarts \/ Prepare \/ Delegate \/ Own \/ PumpTakes \/ PumpResumes
            \/ Finish \/ Aggregated

CancelStep == CancelRemote \/ CancelLocals \/ CancelSet

Next ==
    \/ \E j \in Jobs : \/ SubmitJob(j) \/ ComesDue(j) \/ Cancel(j) \/ Pause(j)
                       \/ Resume(j) \/ Dismiss(j)
    \/ WakeDueJobs
    \/ PumpStep \/ PumpThrows
    \/ \E i \in DOMAIN local : HarnessStep(i) \/ DispatchFails(i) \/ PollsFail(i)
    \/ \E q \in RequestIds : NodeEnds(q)
    \/ CancelStep
    \/ Restart

\* Continuations run, the node's worker bounds its tasks, and the harness polls.
Fairness ==
    /\ WF_vars(PumpStep)
    /\ WF_vars(\E i \in DOMAIN local : HarnessStep(i))
    /\ WF_vars(\E q \in RequestIds : NodeEnds(q))

Spec == Init /\ [][Next]_vars /\ Fairness

-----------------------------------------------------------------------------
(* Properties *)

\* A job that says working has the pump.  The chief loop passes over every tick at which
\* some job is working: were one left so by a restart, a failure or an operator, no job
\* would be woken again.
WorkingIsPumped == \A j \in Jobs : job[j].status = "working" => PumpOn(j)

\* A job on a Worker Node is completed only if a request of its own has been
\* completed by the node, through every lost answer, retry, restart and operation.
CompletedMeansDone ==
    \A j \in Jobs : job[j].remote /\ job[j].status = "completed" =>
        \E i \in job[j].tasks : local[i].rid # 0 /\ node[local[i].rid] = "completed"

\* The node never has two live tasks of one job: neither a lost connection, a
\* retry, a restart nor the operator makes it work twice at a time.
OneRemoteAtATime ==
    \A j \in Jobs : Cardinality({q \in RequestIds :
        node[q] = "live" /\ \E i \in DOMAIN local : local[i].job = j /\ local[i].req = q}) <= 1

\* A job that says cancelled has no live task on the node.
CancelledMeansStopped ==
    \A j \in Jobs : job[j].remote /\ job[j].status = "cancelled" =>
        \A i \in DOMAIN local : local[i].job = j /\ local[i].req # 0 =>
            node[local[i].req] # "live"

\* Every pump ends, whatever happens to the node, and the next job gets its turn.
PumpIsFreed == (pump.pc # "idle") ~> (pump.pc = "idle")
=============================================================================
