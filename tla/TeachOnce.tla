----------------------------- MODULE TeachOnce -----------------------------
(***************************************************************************)
(* Teach Once (teach-once-controller.js): a demonstration is recorded, a   *)
(* coworker drafts a skill from it, a governed replay tests the draft, and *)
(* only then the skill may be saved; and the tasks in which drafts are     *)
(* made and tests run (teach-once-runtime.js).                             *)
(*                                                                         *)
(* Every session is of one coworker, whose Computer lane they share.  A    *)
(* session is saved in every step that changes it, so a restart finds it   *)
(* as it was; the operation in progress is gone.  A draft is a number,     *)
(* actions are counted.  Any caller of runUntilIdle may take a queued      *)
(* task.                                                                   *)
(***************************************************************************)
EXTENDS Integers, FiniteSets

CONSTANTS
    Sessions,       \* teach sessions
    MaxActions,     \* MAX_ACTIONS
    MaxOps,         \* bound: finish and test calls
    MaxFaults,      \* bound: failures and restarts
    None

ASSUME TeachAssumption ==
    /\ None \notin Sessions
    /\ MaxActions \in Nat /\ MaxOps \in Nat /\ MaxFaults \in Nat

VARIABLES
    session,        \* the sessions: state, actions, draft, testResult (the number of its checks), savedSkillId
    pending,        \* recordAction calls waiting for the computer
    op,             \* inFlight: the operation of a session and how far it has come
    lane,           \* activeTests: the session that tests in the lane
    plan,           \* the plan of a session's operation
    task,           \* its task
    skills,         \* taught skills: session and draft
    replayed,       \* history: the drafts that were replayed action by action, no other test in the lane
    ops, faults

vars == <<session, pending, op, lane, plan, task, skills, replayed, ops, faults>>

NoOp == [kind |-> "none", pc |-> "idle", from |-> "none", aborted |-> FALSE, seen |-> 0]
NoSession == [state |-> "none", actions |-> 0, draft |-> 0, result |-> 0, saved |-> FALSE]

\* A replay that reached an assertion only a person can confirm.
Manual == -1

Init ==
    /\ session = [s \in Sessions |-> NoSession]
    /\ pending = [s \in Sessions |-> 0]
    /\ op = [s \in Sessions |-> NoOp]
    /\ lane = None
    /\ plan = [s \in Sessions |-> "none"]
    /\ task = [s \in Sessions |-> "none"]
    /\ skills = {}
    /\ replayed = [s \in Sessions |-> {}]
    /\ ops = 0 /\ faults = 0

Fault == faults < MaxFaults /\ faults' = faults + 1

bounds == <<ops, faults>>
work == <<plan, task>>
history == <<skills, replayed>>

TaskEnded == {"completed", "failed", "cancelled"}

-----------------------------------------------------------------------------
(* Recording *)

Start(s) ==
    /\ session[s].state = "none"
    /\ session' = [session EXCEPT ![s].state = "recording"]
    /\ UNCHANGED <<pending, op, lane, work, history, bounds>>

\* recordAction: checked here, and then the computer performs it.
RecordAction(s) ==
    /\ session[s].state = "recording" /\ session[s].actions < MaxActions
    /\ pending[s] < 2
    /\ pending' = [pending EXCEPT ![s] = @ + 1]
    /\ UNCHANGED <<session, op, lane, work, history, bounds>>

\* The computer has answered: the action joins the session whatever has become of it, or the computer refused.
ActionRecorded(s) ==
    /\ pending[s] > 0
    /\ pending' = [pending EXCEPT ![s] = @ - 1]
    /\ session' \in {session, [session EXCEPT ![s].actions = @ + 1]}
    /\ UNCHANGED <<op, lane, work, history, bounds>>

-----------------------------------------------------------------------------
(* finish and test *)

Starts(s, kind) ==
    /\ op[s].kind = "none"
    /\ ops < MaxOps /\ ops' = ops + 1
    /\ op' = [op EXCEPT ![s] = [NoOp EXCEPT !.kind = kind, !.pc = "plan", !.from = session[s].state]]
    /\ plan' = [plan EXCEPT ![s] = "none"]
    /\ task' = [task EXCEPT ![s] = "none"]

Finish(s) ==
    /\ session[s].state \in {"recording", "drafted"} /\ session[s].actions > 0
    /\ Starts(s, "generate")
    /\ session' = [session EXCEPT ![s].state = "generating"]
    /\ UNCHANGED <<pending, lane, history, faults>>

\* The draft is tested, or tested again; the evidence of an earlier test is dropped.
Test(s) ==
    /\ session[s].state \in {"drafted", "tested"} /\ session[s].draft # 0
    /\ lane \in {None, s}
    /\ Starts(s, "test")
    /\ session' = [session EXCEPT ![s].state = "testing", ![s].result = 0]
    /\ lane' = s
    /\ UNCHANGED <<pending, history, faults>>

At(s, pc) == op[s].pc = pc
Goes(s, pc) == op' = [op EXCEPT ![s].pc = pc]

-----------------------------------------------------------------------------
(* createBoundTask *)

\* The plan is there, unless it could not be written; an operation aborted meanwhile cancels it.
PlanMade(s) ==
    /\ At(s, "plan")
    /\ plan' = [plan EXCEPT ![s] = "open"]
    /\ Goes(s, IF op[s].aborted THEN "close" ELSE "task")
    /\ UNCHANGED <<session, pending, lane, task, history, bounds>>

\* MUTANT of TaskMade: a task that cannot be delegated leaves its plan behind.
TaskMadeUncaught(s) ==
    /\ At(s, "task")
    /\ \/ /\ task' = [task EXCEPT ![s] = "queued"]
          /\ Goes(s, IF op[s].aborted THEN "close" ELSE "run")
          /\ UNCHANGED faults
       \/ Fault /\ Goes(s, "fail") /\ UNCHANGED task
    /\ UNCHANGED <<session, pending, lane, plan, history, ops>>

TaskMade(s) ==
    /\ At(s, "task")
    /\ \/ /\ task' = [task EXCEPT ![s] = "queued"]
          /\ Goes(s, IF op[s].aborted THEN "close" ELSE "run")
          /\ UNCHANGED faults
       \/ Fault /\ Goes(s, "close") /\ UNCHANGED task
    /\ UNCHANGED <<session, pending, lane, plan, history, ops>>

-----------------------------------------------------------------------------
(* The task runs *)

\* The abort listener has the task cancelled.
AbortCancels(s) ==
    /\ op[s].aborted /\ op[s].pc \in {"run", "replay", "draft", "read", "aggregate"}
    /\ task[s] \in {"queued", "running"}
    /\ task' = [task EXCEPT ![s] = "cancelled"]
    /\ UNCHANGED <<session, pending, op, lane, plan, history, bounds>>

\* Another caller of runUntilIdle runs the task, as a task of the coworker's provider.
OtherTakes(s) ==
    /\ At(s, "run") /\ task[s] = "queued"
    /\ task' = [task EXCEPT ![s] = "running"]
    /\ UNCHANGED <<session, pending, op, lane, plan, history, bounds>>

OtherEnds(s) ==
    /\ task[s] = "running" /\ op[s].pc \notin {"replay", "draft"}
    /\ \E r \in {"completed", "failed"} : task' = [task EXCEPT ![s] = r]
    /\ UNCHANGED <<session, pending, op, lane, plan, history, bounds>>

\* runUntilIdle takes the draft's task, runBoundTask the test's.
TakeTask(s) ==
    /\ At(s, "run") /\ task[s] = "queued"
    /\ task' = [task EXCEPT ![s] = "running"]
    /\ Goes(s, IF op[s].kind = "test" THEN "replay" ELSE "draft")
    /\ UNCHANGED <<session, pending, lane, plan, history, bounds>>

\* The task is another's or cancelled: runUntilIdle leaves it alone, runBoundTask refuses it or hands it back.
TaskGone(s) ==
    /\ At(s, "run") /\ task[s] # "queued"
    /\ \/ Goes(s, "read")
       \/ op[s].kind = "test" /\ Goes(s, "close")
    /\ UNCHANGED <<session, pending, lane, work, history, bounds>>

Ended(s, r) == task' = [task EXCEPT ![s] = IF @ = "running" THEN r ELSE @]

\* The coworker's model has answered.
DraftMade(s) ==
    /\ At(s, "draft")
    /\ \E r \in {"completed", "failed"} : Ended(s, r)
    /\ Goes(s, "read")
    /\ UNCHANGED <<session, pending, lane, plan, history, bounds>>

Alone(s) == \A u \in Sessions \ {s} : op[u].pc # "replay"

\* replayActions has gone through the session's actions, those that were recorded late included, or has met a manual
\* assertion.
ReplayDone(s) ==
    /\ At(s, "replay") /\ ~op[s].aborted
    /\ \E n \in {session[s].actions, Manual} :
        /\ op' = [op EXCEPT ![s].pc = "read", ![s].seen = n]
        /\ replayed' = IF n # Manual /\ Alone(s) /\ task[s] = "running"
                       THEN [replayed EXCEPT ![s] = @ \cup {session[s].draft}] ELSE replayed
    /\ Ended(s, "completed")
    /\ UNCHANGED <<session, pending, lane, plan, skills, bounds>>

\* An action or an assertion fails, the test is aborted, or its time is over.
ReplayFails(s) ==
    /\ At(s, "replay")
    /\ Ended(s, "failed")
    /\ Goes(s, "read")
    /\ UNCHANGED <<session, pending, lane, plan, history, bounds>>

\* The result is read: a completed task's plan is aggregated, any other is an error.
ReadTask(s) ==
    /\ At(s, "read")
    /\ Goes(s, IF task[s] = "completed" /\ ~(op[s].kind = "test" /\ op[s].aborted) THEN "aggregate" ELSE "close")
    /\ UNCHANGED <<session, pending, lane, work, history, bounds>>

\* aggregatePlan; a failure of it or of the provider's draft is an error.
Aggregate(s) ==
    /\ At(s, "aggregate")
    /\ \/ plan' = [plan EXCEPT ![s] = "closed"] /\ Goes(s, "settle") /\ UNCHANGED faults
       \/ Fault /\ Goes(s, "close") /\ UNCHANGED plan
    /\ UNCHANGED <<session, pending, lane, task, history, ops>>

\* The error paths cancel the plan with its task; when that fails too, nothing more is done about it.
ClosePlan(s) ==
    /\ At(s, "close")
    /\ \/ /\ plan' = [plan EXCEPT ![s] = "closed"]
          /\ task' = [task EXCEPT ![s] = IF @ \in {"queued", "running"} THEN "cancelled" ELSE @]
          /\ UNCHANGED faults
       \/ Fault /\ plan' = [plan EXCEPT ![s] = "abandoned"] /\ UNCHANGED task
    /\ Goes(s, "fail")
    /\ UNCHANGED <<session, pending, lane, history, ops>>

\* The plan could not be written.
PlanFails(s) ==
    /\ At(s, "plan") /\ Fault
    /\ Goes(s, "fail")
    /\ UNCHANGED <<session, pending, lane, work, history, ops>>

-----------------------------------------------------------------------------
(* The controller's end of an operation *)

Released(s) ==
    /\ op' = [op EXCEPT ![s] = NoOp]
    /\ lane' = IF lane = s THEN None ELSE lane

\* The catch clauses: the state before finish, or the untested draft; a cancelled session stays so.
Rejected(s) ==
    session' = IF session[s].state = "cancelled" THEN session
               ELSE [session EXCEPT ![s].state = IF op[s].kind = "test" THEN "drafted" ELSE op[s].from]

OperationFails(s) ==
    /\ At(s, "fail")
    /\ Rejected(s) /\ Released(s)
    /\ UNCHANGED <<pending, work, history, bounds>>

\* A valid draft replaces the one before, and its evidence with it.
DraftAccepted(s) ==
    /\ At(s, "settle") /\ op[s].kind = "generate"
    /\ session[s].state # "cancelled" /\ ~op[s].aborted
    /\ session' = [session EXCEPT ![s].state = "drafted", ![s].draft = @ + 1, ![s].result = 0]
    /\ Released(s)
    /\ UNCHANGED <<pending, work, history, bounds>>

\* sanitizeDraft refuses what the model wrote, as a whole.
DraftIsInvalid == Fault

\* The session was cancelled meanwhile, or the draft is not valid.
DraftRejected(s) ==
    /\ At(s, "settle") /\ op[s].kind = "generate"
    /\ IF session[s].state = "cancelled" \/ op[s].aborted THEN UNCHANGED faults ELSE DraftIsInvalid
    /\ Rejected(s) /\ Released(s)
    /\ UNCHANGED <<pending, work, history, ops>>

\* The replay's evidence is complete: a check for every action.
Complete(s) == op[s].seen > 0 /\ op[s].seen = session[s].actions

\* MUTANT of TestPassed: any completed task of a test is a test passed.
AnyTestPassed(s) ==
    /\ At(s, "settle") /\ op[s].kind = "test" /\ op[s].seen # Manual
    /\ session' = [session EXCEPT ![s].state = "tested", ![s].result = op[s].seen]
    /\ Released(s)
    /\ UNCHANGED <<pending, work, history, bounds>>

\* Nobody asks whether the session was cancelled while the plan was aggregated.
TestPassed(s) ==
    /\ At(s, "settle") /\ op[s].kind = "test" /\ Complete(s)
    /\ session' = [session EXCEPT ![s].state = "tested", ![s].result = op[s].seen]
    /\ Released(s)
    /\ UNCHANGED <<pending, work, history, bounds>>

\* A person has to confirm, or the evidence is not complete.
TestNotPassed(s) ==
    /\ At(s, "settle") /\ op[s].kind = "test" /\ ~Complete(s)
    /\ IF op[s].seen = Manual THEN session' = [session EXCEPT ![s].state = "drafted"] ELSE Rejected(s)
    /\ Released(s)
    /\ UNCHANGED <<pending, work, history, bounds>>

-----------------------------------------------------------------------------
(* Save, cancel, the test's deadline, and restarts *)

SaveSkill(s) ==
    /\ session[s].state = "tested" /\ ~session[s].saved
    /\ skills' = skills \cup {[session |-> s, draft |-> session[s].draft]}
    /\ session' = [session EXCEPT ![s].state = "saved", ![s].saved = TRUE]
    /\ UNCHANGED <<pending, op, lane, work, replayed, bounds>>

Abort(s) == op' = [op EXCEPT ![s].aborted = (op[s].kind # "none")]

Cancel(s) ==
    /\ session[s].state \notin {"none", "cancelled"}
    /\ session' = [session EXCEPT ![s].state = "cancelled"]
    /\ Abort(s)
    /\ UNCHANGED <<pending, lane, work, history, bounds>>

TestTimesOut(s) ==
    /\ op[s].kind = "test" /\ ~op[s].aborted
    /\ Abort(s)
    /\ UNCHANGED <<session, pending, lane, work, history, bounds>>

\* MUTANT of Recovered: a session that was testing is taken for tested.
RecoveredAsTested(r) ==
    IF r.state = "testing" THEN [r EXCEPT !.state = "tested"]
    ELSE IF r.state = "generating" THEN [r EXCEPT !.state = IF r.draft # 0 THEN "drafted" ELSE "recording"]
    ELSE r

\* sanitizeSession: the last safe state of a session whose operation is gone.
Recovered(r) ==
    IF r.state \in {"generating", "testing"}
    THEN [r EXCEPT !.state = IF r.draft # 0 THEN "drafted" ELSE "recording"]
    ELSE r

\* The plans and tasks of operations in progress stay as they are.
Restart ==
    /\ Fault
    /\ session' = [s \in Sessions |-> Recovered(session[s])]
    /\ pending' = [s \in Sessions |-> 0]
    /\ op' = [s \in Sessions |-> NoOp]
    /\ lane' = None
    /\ plan' = [s \in Sessions |-> IF plan[s] = "open" THEN "abandoned" ELSE plan[s]]
    /\ UNCHANGED <<task, history, ops>>

-----------------------------------------------------------------------------
TaskStep(s) ==
    \/ PlanMade(s) \/ PlanFails(s) \/ TaskMade(s) \/ AbortCancels(s)
    \/ OtherTakes(s) \/ OtherEnds(s) \/ TakeTask(s) \/ TaskGone(s)
    \/ DraftMade(s) \/ ReplayDone(s) \/ ReplayFails(s) \/ ReadTask(s)
    \/ Aggregate(s) \/ ClosePlan(s)

Settle(s) ==
    \/ OperationFails(s)
    \/ DraftAccepted(s) \/ DraftRejected(s)
    \/ TestPassed(s) \/ TestNotPassed(s)

UserStep(s) ==
    \/ Start(s) \/ RecordAction(s) \/ ActionRecorded(s)
    \/ Finish(s) \/ Test(s) \/ SaveSkill(s)
    \/ Cancel(s) \/ TestTimesOut(s)

Next ==
    \/ \E s \in Sessions : TaskStep(s) \/ Settle(s) \/ UserStep(s)
    \/ Restart

Spec == Init /\ [][Next]_vars

-----------------------------------------------------------------------------
(* Properties *)

\* A skill that Teach Once saves has been tested: the very draft that is saved was replayed action by action to its end,
\* with no other test in the lane, whatever was drafted, tested, aborted, recorded late or interrupted in between.
SavedMeansTested == \A k \in skills : k.draft \in replayed[k.session]

\* When an operation is over it leaves no plan open and no task to be run: each of its error paths closes them, unless
\* the closing itself failed or the process stopped.
TasksAreClosed ==
    \A s \in Sessions : op[s].kind = "none" =>
        /\ plan[s] # "open"
        /\ plan[s] = "closed" => task[s] \notin {"queued", "running"}

=============================================================================
