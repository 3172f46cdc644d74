------------------------------- MODULE Goals -------------------------------
(***************************************************************************)
(* The desktop's goal controller (goal-controller.js).  A pump turns a     *)
(* goal into tasks of the orchestrator: a planning task whose proposal is  *)
(* validated (and repaired a bounded number of times), the steps of the    *)
(* plan in waves of dependencies, a review task for every candidate of a   *)
(* gated step, and a synthesis task.  Between two awaits of the pump the   *)
(* operator may cancel the goal, and another caller of runUntilIdle may    *)
(* run its tasks.                                                          *)
(*                                                                         *)
(* The orchestrator is reduced to the records it keeps; what its own       *)
(* interleavings do is the subject of Orchestrator and PlanTree.           *)
(***************************************************************************)
EXTENDS Integers, Sequences, SequencesExt, FiniteSets

CONSTANTS
    Goals,            \* goals that may be submitted
    MaxSteps,         \* MAX_STEPS
    PlannerAttempts,  \* PLANNER_ATTEMPTS
    MaxReviewCycles,  \* MAX_REVIEW_CYCLES
    OtherLoops,       \* whether another caller of runUntilIdle is active (job-controller.js, coworker-dispatcher.js)
    MaxTasks,         \* bound: tasks created
    MaxOps,           \* bound: cancellations
    MaxFaults,        \* bound: failures of the pump's own calls, and restarts
    NoGoal

ASSUME GoalsAssumption ==
    /\ NoGoal \notin Goals
    /\ MaxSteps \in Nat \ {0} /\ PlannerAttempts \in Nat \ {0} /\ MaxReviewCycles \in Nat \ {0}
    /\ OtherLoops \in BOOLEAN
    /\ MaxTasks \in Nat /\ MaxOps \in Nat /\ MaxFaults \in Nat

VARIABLES
    goal,     \* goal[g]: its status and taskIds
    chain,    \* pumpChain: goals whose pump waits for its turn
    pump,     \* the locals of runPump and runWorkWithReviews
    task,     \* the orchestrator's records of goal tasks, in order of creation
    other,    \* the task another loop runs, or 0
    cancel,   \* the locals of a cancel() in progress
    ops, faults

goalVars == <<goal, chain, pump, task, other, cancel, ops, faults>>

TerminalGoal == {"completed", "failed", "cancelled"}
GoalStatus == TerminalGoal \cup {"none", "planning", "executing", "synthesizing"}
EndedTask == {"completed", "failed", "cancelled"}  \* blocked is failed here
ActiveTask == {"queued", "running"}

TaskIds == 1..MaxTasks
StepIds == 1..MaxSteps

\* placed: stepIds, 0 for a step not yet delegated; wave: the steps delegated together; public: the steps with
\* a result in publicResults; made: the task just created; awaiting: the tasks still to review, as they were listed.
NoPump == [pc |-> "idle", goal |-> NoGoal, attempt |-> 0, plan |-> <<>>, placed |-> [s \in StepIds |-> 0],
           wave |-> {}, public |-> {}, made |-> 0, running |-> 0, awaiting |-> <<>>,
           cycles |-> [i \in TaskIds |-> 0], ok |-> FALSE]
Uncancelled == [goal |-> NoGoal, next |-> 1]

GoalsInit ==
    /\ goal = [g \in Goals |-> [status |-> "none", tasks |-> <<>>]]
    /\ chain = <<>>
    /\ pump = NoPump
    /\ task = <<>>
    /\ other = 0
    /\ cancel = Uncancelled
    /\ ops = 0 /\ faults = 0

Operates == ops < MaxOps /\ ops' = ops + 1
Fault == faults < MaxFaults /\ faults' = faults + 1

Is(i, S) == task[i].status \in S
Known(g) == ToSet(goal[g].tasks)
Work(g) == {i \in Known(g) : task[i].kind = "work"}

-----------------------------------------------------------------------------
(* Proposals *)

\* What validateProposal accepts: at least one and at most MaxSteps steps, each with its
\* dependencies on earlier steps, and a review gate or not.
Proposals ==
    UNION {{p \in [1..n -> [deps : SUBSET StepIds, gate : BOOLEAN]] : \A s \in 1..n : p[s].deps \subseteq 1..(s - 1)}
           : n \in StepIds}

-----------------------------------------------------------------------------
(* The orchestrator, as the pump sees it *)

\* about: the step a task works on, or the task it reviews; inputs: the dependencies whose results it is given.
\* attempt: of a review task, the attempt it was shown; verdict: the review task that approved the candidate.
NewTask(kind, about, deps, gate, inputs) ==
    [kind |-> kind, about |-> about, deps |-> deps, gate |-> gate, inputs |-> inputs, status |-> "queued",
     attempt |-> IF kind = "review" THEN task[about].attempt ELSE 0, verdict |-> 0]

\* delegateTrusted: the record exists before the pump learns its id.
Create(t, pc) ==
    /\ Len(task) < MaxTasks
    /\ task' = Append(task, t)
    /\ pump' = [pump EXCEPT !.pc = pc, !.made = Len(task) + 1]
    /\ UNCHANGED <<goal, chain, other, cancel, ops, faults>>

Ready(i) == \A d \in task[i].deps : Is(d, {"completed"})
DepFailed(i) == \E d \in task[i].deps : Is(d, EndedTask \ {"completed"})
Runnable == {i \in DOMAIN task : Is(i, {"queued"}) /\ (Ready(i) \/ DepFailed(i))}

\* runNext: a queued task is blocked when a dependency has failed, and started when all are complete.
Started(i) == [task EXCEPT ![i].status = IF DepFailed(i) THEN "failed" ELSE "running"]

\* The outcomes of a run; a record that was cancelled meanwhile stays.
Outcomes(i) ==
    IF ~Is(i, {"running"}) THEN {task}
    ELSE {[task EXCEPT ![i].status = s] : s \in {"failed", IF task[i].gate THEN "awaiting_review" ELSE "completed"}}

\* A loop that finds nothing to run returns; an agent that another loop keeps busy is passed over.
MayReturn == Runnable = {} \/ other # 0

OtherStarts ==
    /\ OtherLoops /\ other = 0
    /\ \E i \in Runnable :
        /\ task' = Started(i)
        /\ other' = IF DepFailed(i) THEN 0 ELSE i
    /\ UNCHANGED <<goal, chain, pump, cancel, ops, faults>>

OtherEnds ==
    /\ other # 0
    /\ task' \in Outcomes(other)
    /\ other' = 0
    /\ UNCHANGED <<goal, chain, pump, cancel, ops, faults>>

Retried(i) == [task EXCEPT ![i].status = "queued", ![i].attempt = @ + 1]

Reviewed(i, approve) ==
    IF approve THEN [task EXCEPT ![i].status = "completed", ![i].verdict = pump.made]
    ELSE [task EXCEPT ![i].status = "changes_requested"]

-----------------------------------------------------------------------------
(* The pump *)

WithStatus(g, s) == [goal EXCEPT ![g].status = s]

\* checkpoint(): the pump gives up when its goal is cancelled.
To(pc) == IF goal[pump.goal].status = "cancelled" THEN NoPump ELSE [pump EXCEPT !.pc = pc]

Goto(pc) == [pump EXCEPT !.pc = pc]

\* The catch clause: the goal fails, whatever its status is by now.
Fail == pump' = NoPump /\ goal' = WithStatus(pump.goal, "failed")

PumpBegins ==
    /\ pump.pc = "idle" /\ chain # <<>>
    /\ chain' = Tail(chain)
    /\ LET g == Head(chain) IN
        IF goal[g].status \in TerminalGoal
        THEN UNCHANGED <<pump, goal>>
        ELSE /\ pump' = [NoPump EXCEPT !.pc = "plan", !.goal = g]
             /\ goal' = WithStatus(g, "planning")
    /\ UNCHANGED <<task, other, cancel, ops, faults>>

\* A call of the pump throws: no roster, a delegation refused, a store that cannot be written.
PumpThrows ==
    /\ pump.pc \notin {"idle", "finish"} /\ pump.running = 0
    /\ Fault
    /\ Fail
    /\ UNCHANGED <<chain, task, other, cancel, ops>>

\* The inner runUntilIdle of a pump, in any of its phases.
RunPhases == {"planRun", "waveRun", "cycleRun", "reviewRun", "synthRun"}
AfterRun == [planRun |-> "planRead", waveRun |-> "waveRead", cycleRun |-> "list", reviewRun |-> "decide", synthRun |-> "synthRead"]

RunStarts ==
    /\ pump.pc \in RunPhases /\ pump.running = 0
    /\ \E i \in Runnable :
        /\ task' = Started(i)
        /\ pump' = [pump EXCEPT !.running = IF DepFailed(i) THEN 0 ELSE i]
    /\ UNCHANGED <<goal, chain, other, cancel, ops, faults>>

RunEnds ==
    /\ pump.running # 0
    /\ task' \in Outcomes(pump.running)
    /\ pump' = [pump EXCEPT !.running = 0]
    /\ UNCHANGED <<goal, chain, other, cancel, ops, faults>>

RunReturns ==
    /\ pump.pc \in RunPhases /\ pump.running = 0 /\ MayReturn
    /\ pump' = To(AfterRun[pump.pc])
    /\ UNCHANGED <<goal, chain, task, other, cancel, ops, faults>>

\* goal.taskIds.push.
Push == goal' = [goal EXCEPT ![pump.goal].tasks = Append(@, pump.made)]

\* A step of the pump that only moves on.
PumpOnly == UNCHANGED <<chain, task, other, cancel, ops, faults>>

\* Planning: delegate, run, read; nothing is checked between the push and the run.
DelegatePlanning == pump.pc = "plan" /\ Create(NewTask("planning", 0, {}, FALSE, {}), "planPush")

PushPlanning ==
    /\ pump.pc = "planPush"
    /\ Push
    /\ pump' = Goto("planRun")
    /\ PumpOnly

PlanAccepted(p) ==
    /\ pump' = IF goal[pump.goal].status = "cancelled" THEN NoPump ELSE [pump EXCEPT !.pc = "wave", !.plan = p]
    /\ goal' = IF goal[pump.goal].status = "cancelled" THEN goal ELSE WithStatus(pump.goal, "executing")

ReadProposal ==
    /\ pump.pc = "planRead"
    /\ \/ ~Is(pump.made, {"completed"}) /\ Fail
       \/ /\ Is(pump.made, {"completed"})
          /\ \/ \E p \in Proposals : PlanAccepted(p)
             \/ /\ pump.attempt < PlannerAttempts - 1
                /\ pump' = IF goal[pump.goal].status = "cancelled" THEN NoPump
                           ELSE [pump EXCEPT !.pc = "plan", !.attempt = @ + 1]
                /\ UNCHANGED goal
             \/ pump.attempt = PlannerAttempts - 1 /\ Fail
    /\ PumpOnly

\* Executing: the steps whose dependencies have been delegated form the next wave.
Steps == DOMAIN pump.plan
Placed == {s \in Steps : pump.placed[s] # 0}

NextWave == {s \in Steps \ Placed : pump.plan[s].deps \subseteq Placed}

FormWave ==
    /\ pump.pc = "wave"
    /\ pump' = IF Placed = Steps THEN To("cycleRun")
               ELSE IF goal[pump.goal].status = "cancelled" THEN NoPump
               ELSE [pump EXCEPT !.pc = "step", !.wave = NextWave]
    /\ UNCHANGED goal
    /\ PumpOnly

DelegateStep ==
    /\ pump.pc = "step"
    /\ \E s \in pump.wave \ Placed :
        /\ \A r \in pump.wave \ Placed : s <= r
        /\ LET p == pump.plan[s] IN
            Create(NewTask("work", s, {pump.placed[d] : d \in p.deps}, p.gate, {pump.placed[d] : d \in p.deps \cap pump.public}),
                   "stepPush")

PushStep ==
    /\ pump.pc = "stepPush"
    /\ Push
    /\ LET s == task[pump.made].about IN
        pump' = IF pump.wave \subseteq Placed \cup {s}
                THEN [To("waveRun") EXCEPT !.placed[s] = pump.made]
                ELSE [Goto("step") EXCEPT !.placed[s] = pump.made]
    /\ PumpOnly

\* The results of a wave become public, then the next one is formed.
ReadWave ==
    /\ pump.pc = "waveRead"
    /\ pump' = [pump EXCEPT !.pc = "wave", !.wave = {},
                            !.public = @ \cup {s \in pump.wave : Is(pump.placed[s], {"completed"})}]
    /\ UNCHANGED goal
    /\ PumpOnly

\* Reviewing: list the goal's tasks; review the candidates there are, wait for active tasks, or go on.
ListAwaiting ==
    /\ pump.pc = "list"
    /\ LET related == Known(pump.goal)
           awaiting == {i \in related : Is(i, {"awaiting_review"})} IN
        pump' = IF awaiting # {} THEN [pump EXCEPT !.pc = "review", !.awaiting = SetToSortSeq(awaiting, <)]
                ELSE IF \E i \in related : Is(i, ActiveTask) THEN To("cycleRun")
                ELSE To("tally")
    /\ UNCHANGED goal
    /\ PumpOnly

Subject == Head(pump.awaiting)

DelegateReview ==
    /\ pump.pc = "review" /\ pump.awaiting # <<>>
    /\ pump.cycles[Subject] < MaxReviewCycles
    /\ Create(NewTask("review", Subject, {}, FALSE, {}), "reviewPush")

\* MUTANT of NotConverged: the task is passed over and waits for the next round.
PassOver ==
    /\ pump.pc = "review" /\ pump.awaiting # <<>>
    /\ pump.cycles[Subject] >= MaxReviewCycles
    /\ pump' = [pump EXCEPT !.awaiting = Tail(@)]
    /\ UNCHANGED goal
    /\ PumpOnly

NotConverged ==
    /\ pump.pc = "review" /\ pump.awaiting # <<>>
    /\ pump.cycles[Subject] >= MaxReviewCycles
    /\ Fail
    /\ PumpOnly

PushReview ==
    /\ pump.pc = "reviewPush"
    /\ Push
    /\ pump' = [To("reviewRun") EXCEPT !.cycles[Subject] = @ + 1]
    /\ PumpOnly

ReviewsDone ==
    /\ pump.pc = "review" /\ pump.awaiting = <<>>
    /\ pump' = To("cycleRun")
    /\ UNCHANGED goal
    /\ PumpOnly

\* reviewTask refuses a task that no longer awaits a review, which ends the pump.
Decide ==
    /\ pump.pc = "decide"
    /\ \/ ~Is(pump.made, {"completed"}) /\ Fail /\ UNCHANGED task
       \/ Is(pump.made, {"completed"}) /\ Fail /\ UNCHANGED task  \* no valid decision
       \/ Is(pump.made, {"completed"}) /\ ~Is(Subject, {"awaiting_review"}) /\ Fail /\ UNCHANGED task
       \/ /\ Is(pump.made, {"completed"}) /\ Is(Subject, {"awaiting_review"})
          /\ \/ /\ task' = Reviewed(Subject, TRUE)
                /\ pump' = [pump EXCEPT !.pc = "review", !.awaiting = Tail(@)]
             \/ /\ task' = Reviewed(Subject, FALSE)
                /\ pump' = Goto("again")
          /\ UNCHANGED goal
    /\ UNCHANGED <<chain, other, cancel, ops, faults>>

\* retry after changes_requested: whatever made the task retryable, or refused when it is not.
RetryCandidate ==
    /\ pump.pc = "again"
    /\ \/ /\ Is(Subject, {"completed", "awaiting_review"})
          /\ Fail
          /\ UNCHANGED task
       \/ /\ ~Is(Subject, {"completed", "awaiting_review"})
          /\ task' = IF Is(Subject, ActiveTask) THEN task ELSE Retried(Subject)
          /\ pump' = [pump EXCEPT !.pc = "review", !.awaiting = Tail(@)]
          /\ UNCHANGED goal
    /\ UNCHANGED <<chain, other, cancel, ops, faults>>

\* MUTANT of AllSucceeded: a step that waits for its review counts as done.
NoneFailed == \A i \in Work(pump.goal) : ~Is(i, {"failed"})

AllSucceeded == \A i \in Work(pump.goal) : Is(i, {"completed"})

\* Synthesizing: the status is set before the next checkpoint.
Tally ==
    /\ pump.pc = "tally"
    /\ pump' = [pump EXCEPT !.pc = "synth", !.ok = AllSucceeded]
    /\ goal' = WithStatus(pump.goal, "synthesizing")
    /\ PumpOnly

DelegateSynthesis == pump.pc = "synth" /\ Create(NewTask("synthesis", 0, {}, FALSE, {}), "synthPush")

PushSynthesis ==
    /\ pump.pc = "synthPush"
    /\ Push
    /\ pump' = Goto("synthRun")
    /\ PumpOnly

ReadSynthesis ==
    /\ pump.pc = "synthRead"
    /\ \/ Fail
       \/ Is(pump.made, {"completed"}) /\ pump' = Goto("finish") /\ UNCHANGED goal
    /\ PumpOnly

\* The outcome, once aggregatePlan has answered.
Finish ==
    /\ pump.pc = "finish"
    /\ goal' = WithStatus(pump.goal, IF pump.ok THEN "completed" ELSE "failed")
    /\ pump' = NoPump
    /\ PumpOnly

PumpStep ==
    \/ PumpBegins \/ RunStarts \/ RunEnds \/ RunReturns
    \/ DelegatePlanning \/ PushPlanning \/ ReadProposal
    \/ FormWave \/ DelegateStep \/ PushStep \/ ReadWave
    \/ ListAwaiting \/ DelegateReview \/ NotConverged \/ PushReview \/ ReviewsDone \/ Decide \/ RetryCandidate
    \/ Tally \/ DelegateSynthesis \/ PushSynthesis \/ ReadSynthesis \/ Finish

-----------------------------------------------------------------------------
(* The operator, and restarts *)

SubmitGoal(g) ==
    /\ goal[g].status = "none"
    /\ goal' = WithStatus(g, "planning")
    /\ chain' = Append(chain, g)
    /\ UNCHANGED <<pump, task, other, cancel, ops, faults>>

\* cancel(): the tasks known so far, and those pushed meanwhile, one after the other ...
CancelBegins(g) ==
    /\ Operates
    /\ cancel.goal = NoGoal
    /\ goal[g].status \in GoalStatus \ (TerminalGoal \cup {"none"})
    /\ cancel' = [goal |-> g, next |-> 1]
    /\ UNCHANGED <<goal, chain, pump, task, other, faults>>

AsCancelled(i) == IF Is(i, {"completed", "failed"}) THEN task ELSE [task EXCEPT ![i].status = "cancelled"]

CancelTaskOf ==
    /\ cancel.goal # NoGoal
    /\ cancel.next <= Len(goal[cancel.goal].tasks)
    /\ task' = AsCancelled(goal[cancel.goal].tasks[cancel.next])
    /\ cancel' = [cancel EXCEPT !.next = @ + 1]
    /\ UNCHANGED <<goal, chain, pump, other, ops, faults>>

\* ... then the goal, whatever its status has become.
CancelEnds ==
    /\ cancel.goal # NoGoal
    /\ cancel.next > Len(goal[cancel.goal].tasks)
    /\ goal' = WithStatus(cancel.goal, "cancelled")
    /\ cancel' = Uncancelled
    /\ UNCHANGED <<chain, pump, task, other, ops, faults>>

\* A goal that was interrupted is failed; its tasks are left as they are.
Restart ==
    /\ Fault
    /\ goal' = [g \in Goals |-> IF goal[g].status \in TerminalGoal \cup {"none"} THEN goal[g]
                                ELSE [goal[g] EXCEPT !.status = "failed"]]
    /\ chain' = <<>> /\ pump' = NoPump /\ other' = 0 /\ cancel' = Uncancelled
    /\ UNCHANGED <<task, ops>>

GoalsNext ==
    \/ PumpStep \/ PumpThrows
    \/ OtherStarts \/ OtherEnds
    \/ \E g \in Goals : SubmitGoal(g) \/ CancelBegins(g)
    \/ CancelTaskOf \/ CancelEnds
    \/ Restart

\* The pump's awaits settle, a harness ends within its timeout, and so do the runs of other loops.
Fairness == WF_goalVars(PumpStep) /\ WF_goalVars(OtherEnds) /\ WF_goalVars(CancelTaskOf) /\ WF_goalVars(CancelEnds)

GoalsSpec == GoalsInit /\ [][GoalsNext]_goalVars /\ Fairness

-----------------------------------------------------------------------------
(* Properties *)

\* A goal that is reported completed has done all of its work: every step it delegated is
\* complete, and what a gated one publishes is the candidate its reviewer was shown.  Finish
\* writes the outcome that Tally computed before the synthesis ran, and a verdict is applied
\* to whatever the step has become, while cancellations, retries and other loops go on.
GoalCompletedMeansDone ==
    \A g \in Goals : goal[g].status = "completed" =>
        /\ Work(g) # {}
        /\ \A i \in Work(g) :
            /\ Is(i, {"completed"})
            /\ task[i].gate => /\ task[i].verdict # 0
                               /\ task[task[i].verdict].about = i
                               /\ task[task[i].verdict].attempt = task[i].attempt

\* A goal ends: rejected proposals, review cycles and tasks run by other loops never keep
\* its pump going for ever.
GoalEnds == \A g \in Goals : goal[g].status = "planning" ~> goal[g].status \in TerminalGoal

=============================================================================
