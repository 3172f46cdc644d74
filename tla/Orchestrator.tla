---------------------------- MODULE Orchestrator ----------------------------
(***************************************************************************)
(* The scheduler of src/src/orchestrator.js over the task store of         *)
(* src/src/task-store.js.  Several callers (the HTTP server, the desktop   *)
(* controllers, the Worker Node server) loop in runUntilIdle at the same   *)
(* time; each loop is a run.                                               *)
(*                                                                         *)
(* JavaScript runs one continuation at a time, so a step is a continuation *)
(* up to its next await, together with the compare-and-swap it enqueues:   *)
(* transition() goes through the FIFO write queue of the task store, so    *)
(* swaps take effect in the order in which they are enqueued.  A read of   *)
(* the store is one step with the continuation that receives it.  Event    *)
(* appends go through a FIFO queue of their own (task-events.js); the      *)
(* order matters for the two continuations that swap after an append.      *)
(***************************************************************************)
EXTENDS Integers, Sequences, FiniteSets

CONSTANTS
    Tasks,          \* the work tasks of the store
    Agents,         \* the configured agents
    Runs,           \* concurrent runUntilIdle loops and runBoundTask calls
    Reviews,        \* concurrent calls of reviewTask
    Deps,           \* Deps[t]: task.dependencyIds
    Eligible,       \* Eligible[t]: agents compatibleAgents can return
    Reviewed,       \* tasks with review.required (and review.independent)
    Reviewers,      \* agents with the review capabilities
    BoundTasks,     \* tasks that runBoundTask executes
    MaxConcurrency, \* agent.maxConcurrency
    MaxAttempt,     \* bound: attempts that clients ask for
    MaxFaults,      \* bound: failed appends and restarts
    None

ASSUME DepsAssumption == Deps \in [Tasks -> SUBSET Tasks]
ASSUME EligibleAssumption == Eligible \in [Tasks -> SUBSET Agents]
ASSUME ReviewAssumption == Reviewed \subseteq Tasks /\ Reviewers \subseteq Agents
\* createBoundTask passes neither dependencies nor a review.
ASSUME BoundAssumption ==
    /\ BoundTasks \subseteq Tasks \ Reviewed
    /\ \A t \in BoundTasks : Deps[t] = {}
ASSUME NumberAssumption ==
    /\ MaxConcurrency \in Nat \ {0}
    /\ MaxAttempt \in Nat
    /\ MaxFaults \in Nat
ASSUME NoneAssumption == None \notin Agents \cup Runs \cup Tasks

VARIABLES
    task,           \* task[t]: the durable record in tasks.json
    run,            \* run[r]: where a run stands and what it captured
    review,         \* review[v]: a reviewTask call that awaits its event append
    appends,        \* the runs and reviews queued for an event append
    busy,           \* busy[a]: Orchestrator.#busy
    controller,     \* controller[t]: the run whose AbortController #controllers holds
    faults          \* failed appends and restarts so far

vars == <<task, run, review, appends, busy, controller, faults>>

WorkStatus == {"queued", "accepted", "running", "awaiting_review",
               "changes_requested", "completed", "failed", "blocked", "cancelled"}
Ended == {"failed", "blocked", "cancelled"}
Retryable == Ended \cup {"changes_requested"}
Cancellable == WorkStatus \ (Ended \cup {"completed"})

\* An execution's output is identified by who produced it in which attempt.
Output == [by : Agents, attempt : 0..MaxAttempt]

NoOutput == [by |-> None, attempt |-> 0]

TaskRecord == [status : WorkStatus, attempt : 0..MaxAttempt,
               assigned : Agents \cup {None},
               candidate : Output \cup {NoOutput},
               result : Output \cup {NoOutput},
               approver : Agents \cup {None}]

NewTask == [status |-> "queued", attempt |-> 0, assigned |-> None,
            candidate |-> NoOutput, result |-> NoOutput, approver |-> None]

RunPc == {"idle", "authorize", "accepted", "launch", "harness", "returned",
          "persist", "caught", "lost"}

\* A run counts in busy[agent] from the increment after acceptance to its
\* finally clause; a throw before the try statement leaves it counted ("lost").
SlotPc == {"launch", "harness", "returned", "persist", "caught", "lost"}

NoRun == [pc |-> "idle", task |-> None, agent |-> None, attempt |-> 0,
          outcome |-> "none", aborted |-> FALSE]

NewRun(t, a) == [pc |-> "authorize", task |-> t, agent |-> a, attempt |-> 0,
                 outcome |-> "none", aborted |-> FALSE]

NoReview == [decision |-> "none", task |-> None, by |-> None, candidate |-> NoOutput]

RunRecord == {NoRun} \cup
    [pc : RunPc \ {"idle"}, task : Tasks, agent : Agents, attempt : 0..MaxAttempt,
     outcome : {"none", "ok", "failed"}, aborted : BOOLEAN]

ReviewRecord == {NoReview} \cup
    [decision : {"approve", "changes_requested"}, task : Reviewed, by : Reviewers,
     candidate : Output \cup {NoOutput}]

Init ==
    /\ task = [t \in Tasks |-> NewTask]
    /\ run = [r \in Runs |-> NoRun]
    /\ review = [v \in Reviews |-> NoReview]
    /\ appends = <<>>
    /\ busy = [a \in Agents |-> 0]
    /\ controller = [t \in Tasks |-> None]
    /\ faults = 0

-----------------------------------------------------------------------------
(* Helpers *)

Is(t, statuses) == task[t].status \in statuses

\* transition(): the record is replaced only if its status is still allowed.
Swap(t, allowed, record) ==
    task' = IF Is(t, allowed) THEN [task EXCEPT ![t] = record] ELSE task

Goto(r, label) == run' = [run EXCEPT ![r].pc = label]

Leave(r) == run' = [run EXCEPT ![r] = NoRun]

DepsComplete(t) == \A d \in Deps[t] : task[d].status = "completed"

DepEnded(t) == \E d \in Deps[t] : task[d].status \in Ended

Available(t) == {a \in Eligible[t] : busy[a] < MaxConcurrency}

\* MUTANT of Release: the controller entry stays.
ReleaseKeepsController(r) ==
    /\ Leave(r)
    /\ busy' = [busy EXCEPT ![run[r].agent] = IF @ = 0 THEN 0 ELSE @ - 1]
    /\ UNCHANGED controller

\* The finally clause: the slot is released and the task's controller entry is
\* deleted, whichever run registered it.
Release(r) ==
    /\ Leave(r)
    /\ busy' = [busy EXCEPT ![run[r].agent] = IF @ = 0 THEN 0 ELSE @ - 1]
    /\ controller' = [controller EXCEPT ![run[r].task] = None]

Enqueue(x) == appends' = Append(appends, x)

\* The event append of x is the oldest one queued, and it ends.
Appended(x) ==
    /\ appends # <<>> /\ Head(appends) = x
    /\ appends' = Tail(appends)

Fault == faults < MaxFaults /\ faults' = faults + 1

-----------------------------------------------------------------------------
(* A run: runNext, runTask and runBoundTask *)

Picked(r, t, a) ==
    /\ run[r].pc = "idle"
    /\ Is(t, {"queued"})
    /\ run' = [run EXCEPT ![r] = NewRun(t, a)]
    /\ UNCHANGED <<task, review, appends, busy, controller, faults>>

\* MUTANT of Pick: dependencies are not looked at.
PickIgnoringDeps(r) == \E t \in Tasks : \E a \in Available(t) : Picked(r, t, a)

\* runNext lists the tasks and picks a queued one with a free compatible agent
\* (list order and agent order are left open).
Pick(r) ==
    \E t \in Tasks : \E a \in Available(t) : DepsComplete(t) /\ Picked(r, t, a)

\* runBoundTask names its task and its agent and does not look at #busy.
PickBound(r) ==
    \E t \in BoundTasks : \E a \in Eligible[t] : Picked(r, t, a)

\* runNext blocks a queued task whose dependency ended or that no agent can run.
BlockUnrunnable(r) ==
    /\ run[r].pc = "idle"
    /\ \E t \in Tasks :
        /\ Is(t, {"queued"})
        /\ DepEnded(t) \/ (DepsComplete(t) /\ Eligible[t] = {})
        /\ task' = [task EXCEPT ![t].status = "blocked"]
    /\ UNCHANGED <<run, review, appends, busy, controller, faults>>

\* governor.authorize denied the launch: blockTask, whose swap is allowed from
\* queued, accepted and running.
Deny(r) ==
    LET t == run[r].task IN
    /\ run[r].pc = "authorize"
    /\ Swap(t, {"queued", "accepted", "running"},
            [task[t] EXCEPT !.status = "blocked", !.assigned = run[r].agent])
    /\ Leave(r)
    /\ UNCHANGED <<review, appends, busy, controller, faults>>

\* The launch is allowed: queued -> accepted, then the task.accepted event.
Accept(r) ==
    LET t == run[r].task IN
    /\ run[r].pc = "authorize"
    /\ Swap(t, {"queued"},
            [task[t] EXCEPT !.status = "accepted", !.assigned = run[r].agent])
    /\ IF Is(t, {"queued"})
       THEN Goto(r, "accepted") /\ Enqueue(r)
       ELSE Leave(r) /\ UNCHANGED appends
    /\ UNCHANGED <<review, busy, controller, faults>>

\* The event is appended: the agent is counted busy, the AbortController is
\* registered and accepted -> running is tried; if the swap is lost the slot is
\* given back and the controller entry deleted.
Start(r) ==
    LET t == run[r].task IN
    /\ run[r].pc = "accepted"
    /\ Appended(r)
    /\ Swap(t, {"accepted"}, [task[t] EXCEPT !.status = "running"])
    /\ IF Is(t, {"accepted"})
       THEN /\ Goto(r, "launch")
            /\ busy' = [busy EXCEPT ![run[r].agent] = @ + 1]
            /\ controller' = [controller EXCEPT ![t] = r]
       ELSE /\ Leave(r)
            /\ controller' = [controller EXCEPT ![t] = None]
            /\ UNCHANGED busy
    /\ UNCHANGED <<review, faults>>

\* The latest record is read and handed to the harness.
Launch(r) ==
    /\ run[r].pc = "launch"
    /\ run' = [run EXCEPT ![r].pc = "harness", ![r].attempt = task[run[r].task].attempt]
    /\ UNCHANGED <<task, review, appends, busy, controller, faults>>

\* The harness answers; an abort signal may come too late to change its answer.
HarnessReturns(r) ==
    /\ run[r].pc = "harness"
    /\ \E outcome \in {"ok", "failed"} :
        run' = [run EXCEPT ![r].pc = "returned", ![r].outcome = outcome]
    /\ UNCHANGED <<task, review, appends, busy, controller, faults>>

\* MUTANT of Finished: the review gate is forgotten.
FinishedUnreviewed(r) ==
    [task[run[r].task] EXCEPT
        !.status = IF run[r].outcome = "failed" THEN "failed" ELSE "completed",
        !.result = [by |-> run[r].agent, attempt |-> run[r].attempt]]

\* What the swap from running writes for this run's outcome.
Finished(r) ==
    LET t == run[r].task
        output == [by |-> run[r].agent, attempt |-> run[r].attempt]
    IN  CASE run[r].outcome = "failed" -> [task[t] EXCEPT !.status = "failed"]
          [] run[r].outcome # "failed" /\ t \in Reviewed ->
                [task[t] EXCEPT !.status = "awaiting_review",
                                !.candidate = output, !.result = NoOutput]
          [] OTHER -> [task[t] EXCEPT !.status = "completed", !.result = output]

\* The record is read again (afterRun) and, unless it left running, finished.
Finish(r) ==
    LET t == run[r].task IN
    /\ run[r].pc = "returned"
    /\ Swap(t, {"running"}, Finished(r))
    /\ IF Is(t, {"running"})
       THEN Goto(r, "persist") /\ UNCHANGED <<busy, controller>>
       ELSE Release(r)
    /\ UNCHANGED <<review, appends, faults>>

\* The catch clause ends the task, unless its record has moved on.
Caught(r) ==
    LET t == run[r].task IN
    /\ Swap(t, {"running", "accepted"},
            [task[t] EXCEPT !.status = IF run[r].aborted THEN "cancelled" ELSE "failed"])
    /\ IF Is(t, {"running", "accepted"})
       THEN Goto(r, "caught") /\ UNCHANGED <<busy, controller>>
       ELSE Release(r)
    /\ UNCHANGED <<review, appends>>

HarnessThrows(r) == run[r].pc = "harness" /\ Caught(r) /\ UNCHANGED faults

\* MUTANT of Settle: a run that was caught never reaches finally.
SettleOnlySuccess(r) ==
    /\ run[r].pc = "persist"
    /\ Release(r)
    /\ UNCHANGED <<task, review, appends, faults>>

\* The memory, event and audit writes that follow the swap are done.
Settle(r) ==
    /\ run[r].pc \in {"persist", "caught"}
    /\ Release(r)
    /\ UNCHANGED <<task, review, appends, faults>>

\* An event or audit append fails.  Before #busy is touched the call just
\* rejects; between the swap to running and the try statement it rejects and
\* leaves the slot and the controller behind; inside the try it is caught.
AppendFails(r) ==
    /\ Fault
    /\ \/ /\ run[r].pc = "accepted" /\ Appended(r) /\ Leave(r)
          /\ UNCHANGED <<task, review, busy, controller>>
       \/ /\ run[r].pc = "launch" /\ Goto(r, "lost")
          /\ UNCHANGED <<task, review, appends, busy, controller>>
       \/ run[r].pc = "persist" /\ Caught(r)

RunStep(r) ==
    \/ Deny(r) \/ Accept(r) \/ Start(r) \/ Launch(r) \/ HarnessReturns(r)
    \/ HarnessThrows(r) \/ Finish(r) \/ Settle(r)

-----------------------------------------------------------------------------
(* Clients: retry, cancel, reviewTask *)

\* MUTANT of Retry: the held candidate survives.
RetryKeepsCandidate(t) ==
    /\ task[t].attempt < MaxAttempt
    /\ Is(t, Retryable)
    /\ task' = [task EXCEPT ![t].status = "queued", ![t].attempt = @ + 1,
                            ![t].result = NoOutput]
    /\ UNCHANGED <<run, review, appends, busy, controller, faults>>

\* MUTANT of Retry: a completed task may be retried.
RetryCompleted(t) ==
    /\ task[t].attempt < MaxAttempt
    /\ Is(t, Retryable \cup {"completed"})
    /\ task' = [task EXCEPT ![t].status = "queued", ![t].attempt = @ + 1,
                            ![t].candidate = NoOutput, ![t].result = NoOutput]
    /\ UNCHANGED <<run, review, appends, busy, controller, faults>>

\* retry: other statuses return the record or throw, without a change.
Retry(t) ==
    /\ task[t].attempt < MaxAttempt
    /\ Is(t, Retryable)
    /\ task' = [task EXCEPT ![t].status = "queued", ![t].attempt = @ + 1,
                            ![t].candidate = NoOutput, ![t].result = NoOutput]
    /\ UNCHANGED <<run, review, appends, busy, controller, faults>>

\* cancel aborts the registered controller, if there is one, and swaps.
Cancel(t) ==
    /\ run' = IF controller[t] = None THEN run
              ELSE [run EXCEPT ![controller[t]].aborted = TRUE]
    /\ Swap(t, Cancellable, [task[t] EXCEPT !.status = "cancelled"])
    /\ UNCHANGED <<review, appends, busy, controller, faults>>

\* reviewTask reads the record, checks the reviewer against it, and awaits the
\* append of the review event (under a fresh event id).
ReviewRead(v) ==
    /\ review[v] = NoReview
    /\ \E t \in Reviewed, by \in Reviewers, decision \in {"approve", "changes_requested"} :
        /\ Is(t, {"awaiting_review"})
        /\ by # task[t].assigned
        /\ review' = [review EXCEPT ![v] =
                [decision |-> decision, task |-> t, by |-> by, candidate |-> task[t].candidate]]
    /\ Enqueue(v)
    /\ UNCHANGED <<task, run, busy, controller, faults>>

\* The swap of an approval publishes the candidate that was read, not the one
\* that is now held.
Reviewing(v) ==
    LET t == review[v].task IN
    IF review[v].decision = "approve"
    THEN [task[t] EXCEPT !.status = "completed", !.result = review[v].candidate,
                         !.candidate = NoOutput, !.approver = review[v].by]
    ELSE [task[t] EXCEPT !.status = "changes_requested"]

ReviewCommit(v) ==
    /\ review[v] # NoReview
    /\ Appended(v)
    /\ Swap(review[v].task, {"awaiting_review"}, Reviewing(v))
    /\ review' = [review EXCEPT ![v] = NoReview]
    /\ UNCHANGED <<run, busy, controller, faults>>

\* The process stops and starts again: only the task store survives.
Restart ==
    /\ Fault
    /\ run' = [r \in Runs |-> NoRun]
    /\ review' = [v \in Reviews |-> NoReview]
    /\ appends' = <<>>
    /\ busy' = [a \in Agents |-> 0]
    /\ controller' = [t \in Tasks |-> None]
    /\ UNCHANGED task

-----------------------------------------------------------------------------

Next ==
    \/ \E r \in Runs :
        \/ Pick(r) \/ PickBound(r) \/ BlockUnrunnable(r)
        \/ RunStep(r) \/ AppendFails(r)
    \/ \E t \in Tasks : Retry(t) \/ Cancel(t)
    \/ \E v \in Reviews : ReviewRead(v) \/ ReviewCommit(v)
    \/ Restart

Spec == Init /\ [][Next]_vars

\* The event loop runs every pending continuation and each append settles; every
\* harness kind bounds its execution by a timeout.
Fairness ==
    /\ \A r \in Runs : WF_vars(RunStep(r))
    /\ \A v \in Reviews : WF_vars(ReviewCommit(v))

FairSpec == Spec /\ Fairness

-----------------------------------------------------------------------------
(* Properties *)

TypeOK ==
    /\ task \in [Tasks -> TaskRecord]
    /\ run \in [Runs -> RunRecord]
    /\ review \in [Reviews -> ReviewRecord]
    /\ appends \in Seq(Runs \cup Reviews)
    /\ busy \in [Agents -> Nat]
    /\ controller \in [Tasks -> Runs \cup {None}]
    /\ faults \in 0..MaxFaults

\* A task that any worker took, or that got as far as a result, had every
\* dependency complete, and that stays so: the check is made on a list read
\* before governor.authorize is awaited, and no retry undoes a completion
\* (dependencyState, orchestrator.js:728; docs/task-graph.md "Dependency semantics").
DependencyOrder ==
    \A t \in Tasks :
        task[t].status \in {"accepted", "running", "awaiting_review",
                            "changes_requested", "completed"}
            => \A d \in Deps[t] : task[d].status = "completed"

\* A result is visible only on a completed task, and a candidate only where a
\* review gate holds it back: no overlapping run, late approval or retry leaves
\* one on a record that will be executed again (orchestrator.js:443-451, 855-862).
PublicationGate ==
    \A t \in Tasks :
        /\ task[t].result # NoOutput => task[t].status = "completed"
        /\ task[t].candidate # NoOutput =>
            /\ t \in Reviewed
            /\ task[t].status \in {"awaiting_review", "changes_requested", "cancelled"}

\* A task with a review gate completes only through an approval (reviewTask).
ReviewGate ==
    \A t \in Reviewed :
        task[t].status = "completed" <=> task[t].approver # None

\* An AbortController that cancel can reach belongs to a run of that very task
\* that still holds its slot: cancel never aborts the run of another task.
ControllerOwned ==
    \A t \in Tasks :
        controller[t] # None =>
            run[controller[t]].task = t /\ run[controller[t]].pc \in SlotPc

Lifecycle == INSTANCE TaskLifecycle WITH
    status <- [t \in Tasks |-> task[t].status],
    candidate <- [t \in Tasks |-> task[t].candidate],
    result <- [t \in Tasks |-> task[t].result],
    approved <- [t \in Tasks |-> task[t].approver # None]

\* Every interleaving of runs, clients and restarts keeps each durable record on
\* the documented lifecycle.
ImplementsLifecycle == Lifecycle!Spec

\* A run whose harness was launched releases its slot.
SlotReleased == \A r \in Runs : run[r].pc = "harness" ~> run[r].pc = "idle"

=============================================================================
