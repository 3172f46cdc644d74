------------------------- MODULE OrchestratorProofs -------------------------
(***************************************************************************)
(* Proofs about Orchestrator for every set of tasks, agents, runs and      *)
(* reviews and every value of the bounds.                                  *)
(***************************************************************************)
EXTENDS Orchestrator, TLAPS

-----------------------------------------------------------------------------
(* What the helpers do to the variables they write *)

LEMMA NoOutputIsNotOutput == NoOutput \notin Output
  BY NoneAssumption DEF NoOutput, Output

\* A run that left idle holds a task and an agent.
LEMMA ActiveRun ==
  ASSUME run \in [Runs -> RunRecord], NEW r \in Runs, run[r].pc # "idle"
  PROVE  run[r] \in [pc : RunPc \ {"idle"}, task : Tasks, agent : Agents,
                     attempt : 0..MaxAttempt, outcome : {"none", "ok", "failed"},
                     aborted : BOOLEAN]
  BY DEF RunRecord, NoRun

\* A pending review is about a gated task and has a reviewer.
LEMMA ActiveReview ==
  ASSUME review \in [Reviews -> ReviewRecord], NEW v \in Reviews, review[v] # NoReview
  PROVE  review[v] \in [decision : {"approve", "changes_requested"}, task : Reviewed,
                        by : Reviewers, candidate : Output \cup {NoOutput}]
  BY DEF ReviewRecord

LEMMA GotoType ==
  ASSUME run \in [Runs -> RunRecord], NEW r \in Runs, run[r].pc # "idle",
         NEW label \in RunPc \ {"idle"}, Goto(r, label)
  PROVE  run' \in [Runs -> RunRecord]
  BY ActiveRun DEF Goto, RunRecord

LEMMA LeaveType ==
  ASSUME run \in [Runs -> RunRecord], NEW r \in Runs, Leave(r)
  PROVE  run' \in [Runs -> RunRecord]
  BY DEF Leave, RunRecord

LEMMA ReleaseType ==
  ASSUME run \in [Runs -> RunRecord], busy \in [Agents -> Nat],
         controller \in [Tasks -> Runs \cup {None}],
         NEW r \in Runs, Release(r)
  PROVE  /\ run' \in [Runs -> RunRecord]
         /\ busy' \in [Agents -> Nat]
         /\ controller' \in [Tasks -> Runs \cup {None}]
  <1>1. run' \in [Runs -> RunRecord]
    BY LeaveType DEF Release
  <1>2. busy' \in [Agents -> Nat]
    <2>1. ASSUME NEW a \in Agents
          PROVE  (IF busy[a] = 0 THEN 0 ELSE busy[a] - 1) \in Nat
      OBVIOUS
    <2>2. QED
      BY <2>1 DEF Release
  <1>3. QED
    BY <1>1, <1>2 DEF Release

\* Replacing one record by a record of the type keeps the type of the store.
LEMMA SwapType ==
  ASSUME task \in [Tasks -> TaskRecord], NEW t \in Tasks, NEW allowed,
         NEW record \in TaskRecord, Swap(t, allowed, record)
  PROVE  task' \in [Tasks -> TaskRecord]
  BY DEF Swap

LEMMA StatusType ==
  ASSUME task \in [Tasks -> TaskRecord], NEW t \in Tasks, NEW s \in WorkStatus
  PROVE  [task[t] EXCEPT !.status = s] \in TaskRecord
  BY DEF TaskRecord

LEMMA AssignType ==
  ASSUME task \in [Tasks -> TaskRecord], NEW t \in Tasks, NEW s \in WorkStatus,
         NEW a \in Agents
  PROVE  [task[t] EXCEPT !.status = s, !.assigned = a] \in TaskRecord
  BY DEF TaskRecord

LEMMA EnqueueType ==
  ASSUME appends \in Seq(Runs \cup Reviews), NEW x \in Runs \cup Reviews, Enqueue(x)
  PROVE  appends' \in Seq(Runs \cup Reviews)
  BY DEF Enqueue

LEMMA AppendedType ==
  ASSUME appends \in Seq(Runs \cup Reviews), NEW x, Appended(x)
  PROVE  appends' \in Seq(Runs \cup Reviews)
  BY DEF Appended

LEMMA FinishedType ==
  ASSUME task \in [Tasks -> TaskRecord], run \in [Runs -> RunRecord],
         NEW r \in Runs, run[r].pc # "idle"
  PROVE  Finished(r) \in TaskRecord
  <1> DEFINE t == run[r].task
             output == [by |-> run[r].agent, attempt |-> run[r].attempt]
  <1>1. t \in Tasks /\ task[t] \in TaskRecord /\ output \in Output
    BY ActiveRun DEF Output
  <1>2. [task[t] EXCEPT !.status = "failed"] \in TaskRecord
    BY <1>1, StatusType DEF WorkStatus
  <1>3. [task[t] EXCEPT !.status = "awaiting_review", !.candidate = output,
                        !.result = NoOutput] \in TaskRecord
    BY <1>1 DEF TaskRecord, WorkStatus
  <1>4. [task[t] EXCEPT !.status = "completed", !.result = output] \in TaskRecord
    BY <1>1 DEF TaskRecord, WorkStatus
  <1>5. QED
    BY <1>2, <1>3, <1>4 DEF Finished

LEMMA ReviewingType ==
  ASSUME task \in [Tasks -> TaskRecord], review \in [Reviews -> ReviewRecord],
         NEW v \in Reviews, review[v] # NoReview
  PROVE  review[v].task \in Tasks /\ Reviewing(v) \in TaskRecord
  <1>1. review[v].task \in Tasks /\ review[v].by \in Agents
        /\ review[v].candidate \in Output \cup {NoOutput}
    BY ActiveReview, ReviewAssumption
  <1>2. QED
    BY <1>1, ZenonT(40) DEF Reviewing, TaskRecord, WorkStatus

-----------------------------------------------------------------------------
(* Type correctness *)

LEMMA InitType == Init => TypeOK
  <1> SUFFICES ASSUME Init PROVE TypeOK
    OBVIOUS
  <1>1. NewTask \in TaskRecord
    BY NumberAssumption DEF NewTask, TaskRecord, WorkStatus, NoOutput
  <1>2. QED
    BY <1>1, NumberAssumption DEF Init, TypeOK, RunRecord, ReviewRecord

LEMMA PickedType ==
  ASSUME TypeOK, NEW r \in Runs, NEW t \in Tasks, NEW a \in Agents, Picked(r, t, a)
  PROVE  TypeOK'
  <1>1. NewRun(t, a) \in RunRecord
    BY NumberAssumption DEF NewRun, RunRecord, RunPc
  <1>2. QED
    BY <1>1 DEF TypeOK, Picked

LEMMA CaughtType ==
  ASSUME TypeOK, NEW r \in Runs, run[r].pc # "idle", Caught(r), faults' \in 0..MaxFaults
  PROVE  TypeOK'
  <1> DEFINE t == run[r].task
             s == IF run[r].aborted THEN "cancelled" ELSE "failed"
  <1>1. t \in Tasks
    BY ActiveRun DEF TypeOK
  <1>2. [task[t] EXCEPT !.status = s] \in TaskRecord
    <2>1. s \in WorkStatus
      BY DEF WorkStatus
    <2>2. QED
      BY <1>1, <2>1, StatusType DEF TypeOK
  <1>3. task' \in [Tasks -> TaskRecord]
    BY <1>1, <1>2, SwapType DEF Caught, TypeOK
  <1>4. CASE Is(t, {"running", "accepted"})
    BY <1>3, <1>4, GotoType DEF Caught, TypeOK, RunPc
  <1>5. CASE ~Is(t, {"running", "accepted"})
    BY <1>3, <1>5, ReleaseType DEF Caught, TypeOK
  <1>6. QED
    BY <1>4, <1>5

LEMMA RunStepType ==
  ASSUME TypeOK, NEW r \in Runs, RunStep(r)
  PROVE  TypeOK'
  <1> DEFINE t == run[r].task
  <1>0. run[r].pc # "idle" /\ t \in Tasks /\ run[r].agent \in Agents
    <2>1. run[r].pc # "idle"
      BY DEF RunStep, Deny, Accept, Start, Launch, HarnessReturns, HarnessThrows, Finish, Settle
    <2>2. QED
      BY <2>1, ActiveRun DEF TypeOK
  <1>1. CASE Deny(r)
    <2>1. [task[t] EXCEPT !.status = "blocked", !.assigned = run[r].agent] \in TaskRecord
      BY <1>0, AssignType DEF TypeOK, WorkStatus
    <2>2. task' \in [Tasks -> TaskRecord]
      BY <1>0, <1>1, <2>1, SwapType DEF Deny, TypeOK
    <2>3. QED
      BY <1>1, <2>2, LeaveType DEF Deny, TypeOK
  <1>2. CASE Accept(r)
    <2>1. [task[t] EXCEPT !.status = "accepted", !.assigned = run[r].agent] \in TaskRecord
      BY <1>0, AssignType DEF TypeOK, WorkStatus
    <2>2. task' \in [Tasks -> TaskRecord]
      BY <1>0, <1>2, <2>1, SwapType DEF Accept, TypeOK
    <2>3. CASE Is(t, {"queued"})
      BY <1>0, <1>2, <2>2, <2>3, GotoType, EnqueueType DEF Accept, TypeOK, RunPc
    <2>4. CASE ~Is(t, {"queued"})
      BY <1>2, <2>2, <2>4, LeaveType DEF Accept, TypeOK
    <2>5. QED
      BY <2>3, <2>4
  <1>3. CASE Start(r)
    <2>1. [task[t] EXCEPT !.status = "running"] \in TaskRecord
      BY <1>0, StatusType DEF TypeOK, WorkStatus
    <2>2. task' \in [Tasks -> TaskRecord]
      BY <1>0, <1>3, <2>1, SwapType DEF Start, TypeOK
    <2>3. appends' \in Seq(Runs \cup Reviews)
      BY <1>3, AppendedType DEF Start, TypeOK
    <2>4. CASE Is(t, {"accepted"})
      <3>1. run' \in [Runs -> RunRecord]
        BY <1>0, <1>3, <2>4, GotoType DEF Start, TypeOK, RunPc
      <3>2. busy' \in [Agents -> Nat]
        <4>1. ASSUME NEW a \in Agents PROVE busy[a] + 1 \in Nat
          BY DEF TypeOK
        <4>2. QED
          BY <1>3, <2>4, <4>1 DEF Start, TypeOK
      <3>4. controller' \in [Tasks -> Runs \cup {None}]
        BY <1>3, <2>4 DEF Start, TypeOK
      <3>3. QED
        BY <1>3, <2>2, <2>3, <3>1, <3>2, <3>4 DEF Start, TypeOK
    <2>5. CASE ~Is(t, {"accepted"})
      <3>1. run' \in [Runs -> RunRecord]
        BY <1>3, <2>5, LeaveType DEF Start, TypeOK
      <3>2. busy' \in [Agents -> Nat] /\ controller' \in [Tasks -> Runs \cup {None}]
        BY <1>0, <1>3, <2>5 DEF Start, TypeOK
      <3>3. QED
        BY <1>3, <2>2, <2>3, <3>1, <3>2 DEF Start, TypeOK
    <2>6. QED
      BY <2>4, <2>5
  <1>4. CASE Launch(r)
    <2>1. task[t].attempt \in 0..MaxAttempt
      BY <1>0 DEF TypeOK, TaskRecord
    <2>2. [run[r] EXCEPT !.pc = "harness", !.attempt = task[t].attempt] \in RunRecord
      BY <1>0, <2>1, ActiveRun, ZenonT(40) DEF TypeOK, RunRecord, RunPc
    <2>3. run' \in [Runs -> RunRecord]
      BY <1>4, <2>2 DEF Launch, TypeOK
    <2>4. QED
      BY <1>4, <2>3 DEF Launch, TypeOK
  <1>5. CASE HarnessReturns(r)
    <2>1. ASSUME NEW outcome \in {"ok", "failed"}
          PROVE  [run[r] EXCEPT !.pc = "returned", !.outcome = outcome] \in RunRecord
      BY <1>0, ActiveRun, ZenonT(40) DEF TypeOK, RunRecord, RunPc
    <2>2. run' \in [Runs -> RunRecord]
      BY <1>5, <2>1 DEF HarnessReturns, TypeOK
    <2>3. QED
      BY <1>5, <2>2 DEF HarnessReturns, TypeOK
  <1>6. CASE HarnessThrows(r)
    BY <1>0, <1>6, CaughtType DEF HarnessThrows, TypeOK
  <1>7. CASE Finish(r)
    <2>1. task' \in [Tasks -> TaskRecord]
      BY <1>0, <1>7, FinishedType, SwapType DEF Finish, TypeOK
    <2>2. CASE Is(t, {"running"})
      BY <1>0, <1>7, <2>1, <2>2, GotoType DEF Finish, TypeOK, RunPc
    <2>3. CASE ~Is(t, {"running"})
      BY <1>7, <2>1, <2>3, ReleaseType DEF Finish, TypeOK
    <2>4. QED
      BY <2>2, <2>3
  <1>8. CASE Settle(r)
    BY <1>8, ReleaseType DEF Settle, TypeOK
  <1>9. QED
    BY <1>1, <1>2, <1>3, <1>4, <1>5, <1>6, <1>7, <1>8 DEF RunStep

LEMMA StepType == TypeOK /\ ControllerOwned /\ [Next]_vars => TypeOK'
  <1> SUFFICES ASSUME TypeOK, ControllerOwned, [Next]_vars PROVE TypeOK'
    OBVIOUS
  <1>1. ASSUME NEW r \in Runs, Pick(r) PROVE TypeOK'
    BY <1>1, EligibleAssumption, PickedType DEF Pick, Available
  <1>2. ASSUME NEW r \in Runs, PickBound(r) PROVE TypeOK'
    BY <1>2, EligibleAssumption, BoundAssumption, PickedType DEF PickBound
  <1>3. ASSUME NEW r \in Runs, BlockUnrunnable(r) PROVE TypeOK'
    <2>1. ASSUME NEW t \in Tasks PROVE [task[t] EXCEPT !.status = "blocked"] \in TaskRecord
      BY StatusType DEF TypeOK, WorkStatus
    <2>2. task' \in [Tasks -> TaskRecord]
      BY <1>3, <2>1 DEF BlockUnrunnable, TypeOK
    <2>3. QED
      BY <1>3, <2>2 DEF BlockUnrunnable, TypeOK
  <1>4. ASSUME NEW r \in Runs, RunStep(r) PROVE TypeOK'
    BY <1>4, RunStepType
  <1>5. ASSUME NEW r \in Runs, AppendFails(r) PROVE TypeOK'
    <2>0. faults' \in 0..MaxFaults
      BY <1>5, NumberAssumption DEF AppendFails, Fault, TypeOK
    <2>1. CASE run[r].pc = "accepted" /\ Appended(r) /\ Leave(r)
               /\ UNCHANGED <<task, review, busy, controller>>
      BY <2>0, <2>1, AppendedType, LeaveType DEF TypeOK
    <2>2. CASE run[r].pc = "launch" /\ Goto(r, "lost")
               /\ UNCHANGED <<task, review, appends, busy, controller>>
      BY <2>0, <2>2, GotoType DEF TypeOK, RunPc
    <2>3. CASE run[r].pc = "persist" /\ Caught(r)
      BY <2>0, <2>3, CaughtType
    <2>4. QED
      BY <1>5, <2>1, <2>2, <2>3 DEF AppendFails
  <1>6. ASSUME NEW t \in Tasks, Retry(t) PROVE TypeOK'
    <2>1. [task[t] EXCEPT !.status = "queued", !.attempt = @ + 1,
                          !.candidate = NoOutput, !.result = NoOutput] \in TaskRecord
      BY <1>6, NumberAssumption DEF Retry, TypeOK, TaskRecord, WorkStatus
    <2>2. task' \in [Tasks -> TaskRecord]
      BY <1>6, <2>1 DEF Retry, TypeOK
    <2>3. QED
      BY <1>6, <2>2 DEF Retry, TypeOK
  <1>7. ASSUME NEW t \in Tasks, Cancel(t) PROVE TypeOK'
    <2>1. [task[t] EXCEPT !.status = "cancelled"] \in TaskRecord
      BY <1>7, StatusType DEF TypeOK, WorkStatus
    <2>2. task' \in [Tasks -> TaskRecord]
      BY <1>7, <2>1, SwapType DEF Cancel, TypeOK
    <2>3. ASSUME NEW r \in Runs, run[r].pc # "idle"
          PROVE  [run EXCEPT ![r].aborted = TRUE] \in [Runs -> RunRecord]
      <3>1. [run[r] EXCEPT !.aborted = TRUE] \in RunRecord
        BY <2>3, ActiveRun DEF TypeOK, RunRecord
      <3>2. QED
        BY <3>1 DEF TypeOK
    <2>4. controller[t] # None =>
            controller[t] \in Runs /\ run[controller[t]].pc # "idle"
      BY DEF TypeOK, ControllerOwned, SlotPc
    <2>5. run' \in [Runs -> RunRecord]
      BY <1>7, <2>3, <2>4 DEF Cancel, TypeOK
    <2>6. QED
      BY <1>7, <2>2, <2>5 DEF Cancel, TypeOK
  <1>8. ASSUME NEW v \in Reviews, ReviewRead(v) PROVE TypeOK'
    <2>1. review' \in [Reviews -> ReviewRecord]
      BY <1>8, ReviewAssumption DEF ReviewRead, TypeOK, ReviewRecord, TaskRecord
    <2>2. QED
      BY <1>8, <2>1, EnqueueType DEF ReviewRead, TypeOK
  <1>9. ASSUME NEW v \in Reviews, ReviewCommit(v) PROVE TypeOK'
    <2>1. task' \in [Tasks -> TaskRecord]
      BY <1>9, ReviewingType, SwapType DEF ReviewCommit, TypeOK
    <2>2. review' \in [Reviews -> ReviewRecord]
      BY <1>9 DEF ReviewCommit, TypeOK, ReviewRecord
    <2>3. QED
      BY <1>9, <2>1, <2>2, AppendedType DEF ReviewCommit, TypeOK
  <1>10. CASE Restart
    BY <1>10, NumberAssumption DEF Restart, Fault, TypeOK, RunRecord, ReviewRecord
  <1>11. CASE UNCHANGED vars
    BY <1>11 DEF vars, TypeOK
  <1>12. QED
    BY <1>1, <1>2, <1>3, <1>4, <1>5, <1>6, <1>7, <1>8, <1>9, <1>10, <1>11 DEF Next

\* A run that is not in a slot owns no controller entry, so that resetting it or
\* giving up its entry leaves every other entry with its owner.
LEMMA StepOwned == TypeOK /\ ControllerOwned /\ [Next]_vars => ControllerOwned'
  <1> SUFFICES ASSUME TypeOK, ControllerOwned, [Next]_vars PROVE ControllerOwned'
    OBVIOUS
  <1> USE DEF ControllerOwned, TypeOK, SlotPc
  <1>1. ASSUME NEW r \in Runs, NEW t \in Tasks, NEW a, Picked(r, t, a)
        PROVE  ControllerOwned'
    BY <1>1 DEF Picked
  <1>2. ASSUME NEW r \in Runs, BlockUnrunnable(r) PROVE ControllerOwned'
    BY <1>2 DEF BlockUnrunnable
  <1>3. ASSUME NEW r \in Runs, Release(r) PROVE ControllerOwned'
    BY <1>3, NoneAssumption DEF Release, Leave
  <1>4. ASSUME NEW r \in Runs, run[r].pc \notin SlotPc, Leave(r), UNCHANGED controller
        PROVE  ControllerOwned'
    BY <1>4 DEF Leave
  <1>5. ASSUME NEW r \in Runs, NEW label, label \in SlotPc \/ run[r].pc \notin SlotPc,
               Goto(r, label), UNCHANGED controller
        PROVE  ControllerOwned'
    BY <1>5 DEF Goto
  <1>6. ASSUME NEW r \in Runs, Caught(r) PROVE ControllerOwned'
    BY <1>3, <1>5, <1>6 DEF Caught
  <1>7. ASSUME NEW r \in Runs, RunStep(r) PROVE ControllerOwned'
    <2>1. CASE Deny(r)
      BY <1>4, <2>1 DEF Deny
    <2>2. CASE Accept(r)
      BY <1>4, <1>5, <2>2 DEF Accept
    <2>3. CASE Start(r)
      <3>1. CASE Is(run[r].task, {"accepted"})
        <4>1. run[r].task \in Tasks
          BY <2>3, ActiveRun DEF Start
        <4>2. QED
          <5>1. run' = [run EXCEPT ![r].pc = "launch"]
                /\ controller' = [controller EXCEPT ![run[r].task] = r]
            BY <2>3, <3>1 DEF Start, Goto
          <5>2. ASSUME NEW t \in Tasks, controller'[t] # None
                PROVE  run'[controller'[t]].task = t /\ run'[controller'[t]].pc \in SlotPc
            <6>1. CASE t = run[r].task
              BY <4>1, <5>1, <6>1
            <6>2. CASE t # run[r].task
              <7>1. controller'[t] = controller[t] /\ controller[t] # r
                BY <2>3, <5>1, <5>2, <6>2 DEF Start
              <7>2. QED
                BY <5>1, <5>2, <7>1
            <6>3. QED
              BY <6>1, <6>2
          <5>3. QED
            BY <5>2
      <3>2. CASE ~Is(run[r].task, {"accepted"})
        BY <2>3, <3>2, NoneAssumption, SMTT(30) DEF Start, Leave
      <3>3. QED
        BY <3>1, <3>2
    <2>4. CASE Launch(r)
      BY <2>4 DEF Launch
    <2>5. CASE HarnessReturns(r)
      BY <2>5 DEF HarnessReturns
    <2>6. CASE HarnessThrows(r)
      BY <1>6, <2>6 DEF HarnessThrows
    <2>7. CASE Finish(r)
      BY <1>3, <1>5, <2>7 DEF Finish
    <2>8. CASE Settle(r)
      BY <1>3, <2>8 DEF Settle
    <2>9. QED
      BY <1>7, <2>1, <2>2, <2>3, <2>4, <2>5, <2>6, <2>7, <2>8 DEF RunStep
  <1>8. ASSUME NEW r \in Runs, AppendFails(r) PROVE ControllerOwned'
    BY <1>4, <1>5, <1>6, <1>8 DEF AppendFails
  <1>9. ASSUME NEW t \in Tasks, Retry(t) PROVE ControllerOwned'
    BY <1>9 DEF Retry
  <1>10. ASSUME NEW t \in Tasks, Cancel(t) PROVE ControllerOwned'
    BY <1>10 DEF Cancel
  <1>11. ASSUME NEW v \in Reviews, ReviewRead(v) \/ ReviewCommit(v) PROVE ControllerOwned'
    BY <1>11 DEF ReviewRead, ReviewCommit
  <1>12. CASE Restart
    BY <1>12 DEF Restart
  <1>13. CASE UNCHANGED vars
    BY <1>13 DEF vars
  <1>14. QED
    <2>1. ASSUME NEW r \in Runs, Pick(r) \/ PickBound(r) PROVE ControllerOwned'
      BY <1>1, <2>1, BoundAssumption DEF Pick, PickBound
    <2>2. QED
      BY <1>2, <1>7, <1>8, <1>9, <1>10, <1>11, <1>12, <1>13, <2>1 DEF Next

\* Every reachable state is of its type: the counters stay natural numbers, an
\* active run holds a real task and agent, and an AbortController that cancel can
\* reach belongs to a run of that task that still holds its slot.
THEOREM TypeCorrect == Spec => [](TypeOK /\ ControllerOwned)
  <1>1. Init => TypeOK /\ ControllerOwned
    BY InitType DEF Init, ControllerOwned
  <1>2. TypeOK /\ ControllerOwned /\ [Next]_vars => TypeOK' /\ ControllerOwned'
    BY StepType, StepOwned
  <1>3. QED
    BY <1>1, <1>2, PTL DEF Spec

-----------------------------------------------------------------------------
(* The inductive invariant of the durable records *)

\* A launch that is being authorised was picked with its dependencies complete,
\* and nothing undoes a completion.
PickedInOrder ==
    \A r \in Runs : run[r].pc = "authorize" =>
        \A d \in Deps[run[r].task] : task[d].status = "completed"

\* The candidate of a task under review is what some execution produced, and so
\* is the candidate that a pending review captured.
CandidateIsOutput ==
    /\ \A t \in Tasks : task[t].status = "awaiting_review" => task[t].candidate \in Output
    /\ \A v \in Reviews : review[v] # NoReview => review[v].candidate \in Output

RecordInv ==
    /\ TypeOK /\ ControllerOwned
    /\ DependencyOrder /\ PickedInOrder
    /\ PublicationGate /\ ReviewGate /\ CandidateIsOutput

-----------------------------------------------------------------------------
(* Every step moves the records along the lifecycle *)

\* The lifecycle moves that one record can make.
Moves(t) ==
    \/ Lifecycle!Accept(t) \/ Lifecycle!Start(t) \/ Lifecycle!Complete(t)
    \/ Lifecycle!HoldForReview(t) \/ Lifecycle!Approve(t) \/ Lifecycle!RequestChanges(t)
    \/ Lifecycle!Fail(t) \/ Lifecycle!Block(t) \/ Lifecycle!Cancel(t) \/ Lifecycle!Retry(t)

\* What a replaced record is for the variables of the lifecycle.
LEMMA Replaced ==
  ASSUME task \in [Tasks -> TaskRecord], NEW t \in Tasks, NEW record,
         task' = [task EXCEPT ![t] = record]
  PROVE  /\ [u \in Tasks |-> task[u].status]'
              = [[u \in Tasks |-> task[u].status] EXCEPT ![t] = record.status]
         /\ [u \in Tasks |-> task[u].candidate]'
              = [[u \in Tasks |-> task[u].candidate] EXCEPT ![t] = record.candidate]
         /\ [u \in Tasks |-> task[u].result]'
              = [[u \in Tasks |-> task[u].result] EXCEPT ![t] = record.result]
         /\ [u \in Tasks |-> task[u].approver # None]'
              = [[u \in Tasks |-> task[u].approver # None] EXCEPT ![t] = (record.approver # None)]
         /\ record.candidate = task[t].candidate =>
              [u \in Tasks |-> task[u].candidate]' = [u \in Tasks |-> task[u].candidate]
         /\ record.result = task[t].result =>
              [u \in Tasks |-> task[u].result]' = [u \in Tasks |-> task[u].result]
         /\ record.approver = task[t].approver =>
              [u \in Tasks |-> task[u].approver # None]' = [u \in Tasks |-> task[u].approver # None]
  <1>1. \A u \in Tasks : task'[u] = IF u = t THEN record ELSE task[u]
    OBVIOUS
  <1>2. QED
    BY <1>1

\* A swap that only moves the status is a lifecycle move with that status.
LEMMA StatusMove ==
  ASSUME task \in [Tasks -> TaskRecord], NEW t \in Tasks, NEW s \in WorkStatus, NEW record,
         task' = [task EXCEPT ![t] = record],
         record.status = s, record.candidate = task[t].candidate,
         record.result = task[t].result, record.approver = task[t].approver
  PROVE  /\ [u \in Tasks |-> task[u].status]'
              = [[u \in Tasks |-> task[u].status] EXCEPT ![t] = s]
         /\ Lifecycle!Keep
  <1>1. /\ [u \in Tasks |-> task[u].status]'
              = [[u \in Tasks |-> task[u].status] EXCEPT ![t] = s]
        /\ [u \in Tasks |-> task[u].candidate]' = [u \in Tasks |-> task[u].candidate]
        /\ [u \in Tasks |-> task[u].result]' = [u \in Tasks |-> task[u].result]
        /\ [u \in Tasks |-> task[u].approver # None]' = [u \in Tasks |-> task[u].approver # None]
    BY Replaced
  <1>2. QED
    BY <1>1 DEF Lifecycle!Keep

LEMMA SwapMove ==
  ASSUME task \in [Tasks -> TaskRecord], NEW t \in Tasks, NEW allowed,
         NEW from, allowed \subseteq from, NEW s \in WorkStatus, NEW record,
         Swap(t, allowed, record),
         record.status = s, record.candidate = task[t].candidate,
         record.result = task[t].result, record.approver = task[t].approver
  PROVE  task' = task \/ (Lifecycle!Move(t, from, s) /\ Lifecycle!Keep)
  <1>1. CASE Is(t, allowed)
    <2>1. task' = [task EXCEPT ![t] = record]
      BY <1>1 DEF Swap
    <2>2. /\ [u \in Tasks |-> task[u].status]'
               = [[u \in Tasks |-> task[u].status] EXCEPT ![t] = s]
          /\ Lifecycle!Keep
      BY <2>1, StatusMove
    <2>3. [u \in Tasks |-> task[u].status][t] \in from
      BY <1>1 DEF Is
    <2>4. QED
      BY <2>2, <2>3 DEF Lifecycle!Move
  <1>2. CASE ~Is(t, allowed)
    BY <1>2 DEF Swap
  <1>3. QED
    BY <1>1, <1>2

LEMMA CaughtMoves ==
  ASSUME TypeOK, NEW r \in Runs, run[r].pc # "idle", Caught(r)
  PROVE  task' = task \/ \E t \in Tasks : Moves(t)
  <1>1. run[r].task \in Tasks
    BY ActiveRun DEF TypeOK
  <1>2. PICK t \in Tasks : t = run[r].task
    BY <1>1
  <1>3. CASE ~run[r].aborted
    <2> DEFINE record == [task[t] EXCEPT !.status = "failed"]
    <2>1. Swap(t, {"running", "accepted"}, record)
      BY <1>2, <1>3 DEF Caught
    <2>2. /\ record.status = "failed" /\ record.candidate = task[t].candidate
          /\ record.result = task[t].result /\ record.approver = task[t].approver
      BY DEF TypeOK, TaskRecord
    <2> HIDE DEF record
    <2>3. task' = task \/ (Lifecycle!Move(t, {"accepted", "running"}, "failed") /\ Lifecycle!Keep)
      BY <2>1, <2>2, SwapMove DEF TypeOK, WorkStatus
    <2>4. QED
      BY <2>3 DEF Moves, Lifecycle!Fail
  <1>4. CASE run[r].aborted
    <2> DEFINE record == [task[t] EXCEPT !.status = "cancelled"]
    <2>1. Swap(t, {"running", "accepted"}, record)
      BY <1>2, <1>4 DEF Caught
    <2>2. /\ record.status = "cancelled" /\ record.candidate = task[t].candidate
          /\ record.result = task[t].result /\ record.approver = task[t].approver
      BY DEF TypeOK, TaskRecord
    <2> HIDE DEF record
    <2>3. {"running", "accepted"} \subseteq Lifecycle!WorkStatus \ Lifecycle!TerminalStatus
      BY DEF Lifecycle!WorkStatus, Lifecycle!TerminalStatus
    <2>4. task' = task \/ (Lifecycle!Move(t, Lifecycle!WorkStatus \ Lifecycle!TerminalStatus,
                                          "cancelled") /\ Lifecycle!Keep)
      BY <2>1, <2>2, <2>3, SwapMove DEF TypeOK, WorkStatus
    <2>5. QED
      BY <2>4 DEF Moves, Lifecycle!Cancel
  <1>5. QED
    BY <1>3, <1>4

LEMMA FinishMoves ==
  ASSUME TypeOK, PublicationGate, NEW r \in Runs, Finish(r)
  PROVE  task' = task \/ \E t \in Tasks : Moves(t)
  <1>a. /\ run[r].task \in Tasks
        /\ [by |-> run[r].agent, attempt |-> run[r].attempt] \in Output
    BY ActiveRun DEF TypeOK, Finish, Output
  <1>b. PICK t \in Tasks, output \in Output :
            t = run[r].task /\ output = [by |-> run[r].agent, attempt |-> run[r].attempt]
    BY <1>a
  <1>1. task[t] \in TaskRecord
    BY DEF TypeOK
  <1>2. SUFFICES ASSUME task[t].status = "running",
                        task' = [task EXCEPT ![t] = Finished(r)]
                 PROVE  Moves(t)
    BY <1>b DEF Finish, Swap, Is
  <1>3. CASE run[r].outcome = "failed"
    <2>1. Finished(r) = [task[t] EXCEPT !.status = "failed"]
      BY <1>b, <1>3 DEF Finished
    <2> DEFINE record == [task[t] EXCEPT !.status = "failed"]
    <2>2. /\ record.status = "failed" /\ record.candidate = task[t].candidate
          /\ record.result = task[t].result /\ record.approver = task[t].approver
      BY <1>1 DEF TaskRecord
    <2>3. task' = [task EXCEPT ![t] = record]
      BY <1>2, <2>1
    <2> HIDE DEF record
    <2>4. /\ [u \in Tasks |-> task[u].status]'
               = [[u \in Tasks |-> task[u].status] EXCEPT ![t] = "failed"]
          /\ Lifecycle!Keep
      BY <2>2, <2>3, StatusMove DEF TypeOK, WorkStatus
    <2>5. [u \in Tasks |-> task[u].status][t] \in {"accepted", "running"}
      BY <1>2
    <2>6. QED
      BY <2>4, <2>5 DEF Moves, Lifecycle!Fail, Lifecycle!Move
  <1>4. CASE run[r].outcome # "failed" /\ t \in Reviewed
    <2> DEFINE record == [task[t] EXCEPT !.status = "awaiting_review",
                                         !.candidate = output, !.result = NoOutput]
    <2>1. task' = [task EXCEPT ![t] = record]
      BY <1>b, <1>2, <1>4 DEF Finished
    <2>2. /\ record.status = "awaiting_review" /\ record.candidate = output
          /\ record.result = task[t].result /\ record.approver = task[t].approver
      BY <1>1, <1>2 DEF TaskRecord, PublicationGate
    <2> HIDE DEF record
    <2>3. /\ [u \in Tasks |-> task[u].status]'
               = [[u \in Tasks |-> task[u].status] EXCEPT ![t] = "awaiting_review"]
          /\ [u \in Tasks |-> task[u].candidate]'
               = [[u \in Tasks |-> task[u].candidate] EXCEPT ![t] = output]
          /\ [u \in Tasks |-> task[u].result]' = [u \in Tasks |-> task[u].result]
          /\ [u \in Tasks |-> task[u].approver # None]' = [u \in Tasks |-> task[u].approver # None]
      BY <1>1, <2>1, <2>2, Replaced DEF TypeOK
    <2>4. [u \in Tasks |-> task[u].status][t] \in {"running"}
      BY <1>1, <1>2
    <2>5. Lifecycle!HoldForReview(t)
      BY <1>1, <1>4, <2>3, <2>4 DEF Lifecycle!HoldForReview, Lifecycle!Move
    <2>6. QED
      BY <2>5 DEF Moves
  <1>5. CASE run[r].outcome # "failed" /\ t \notin Reviewed
    <2> DEFINE record == [task[t] EXCEPT !.status = "completed", !.result = output]
    <2>1. task' = [task EXCEPT ![t] = record]
      BY <1>b, <1>2, <1>5 DEF Finished
    <2>2. /\ record.status = "completed" /\ record.candidate = task[t].candidate
          /\ record.result = output /\ record.approver = task[t].approver
      BY <1>1 DEF TaskRecord
    <2> HIDE DEF record
    <2>3. /\ [u \in Tasks |-> task[u].status]'
               = [[u \in Tasks |-> task[u].status] EXCEPT ![t] = "completed"]
          /\ [u \in Tasks |-> task[u].candidate]' = [u \in Tasks |-> task[u].candidate]
          /\ [u \in Tasks |-> task[u].result]'
               = [[u \in Tasks |-> task[u].result] EXCEPT ![t] = output]
          /\ [u \in Tasks |-> task[u].approver # None]' = [u \in Tasks |-> task[u].approver # None]
      BY <1>1, <2>1, <2>2, Replaced DEF TypeOK
    <2>4. [u \in Tasks |-> task[u].status][t] \in {"running"}
      BY <1>1, <1>2
    <2>5. Lifecycle!Complete(t)
      BY <1>1, <1>5, <2>3, <2>4 DEF Lifecycle!Complete, Lifecycle!Move
    <2>6. QED
      BY <2>5 DEF Moves
  <1>6. QED
    BY <1>3, <1>4, <1>5

LEMMA RetryMoves ==
  ASSUME TypeOK, NEW t \in Tasks, Retry(t)
  PROVE  Moves(t)
  <1> DEFINE record == [task[t] EXCEPT !.status = "queued", !.attempt = @ + 1,
                                       !.candidate = NoOutput, !.result = NoOutput]
  <1>1. task' = [task EXCEPT ![t] = record]
    BY DEF Retry, TypeOK
  <1>2. /\ record.status = "queued" /\ record.candidate = NoOutput
        /\ record.result = NoOutput /\ record.approver = task[t].approver
    BY DEF TypeOK, TaskRecord
  <1> HIDE DEF record
  <1>3. /\ [u \in Tasks |-> task[u].status]'
             = [[u \in Tasks |-> task[u].status] EXCEPT ![t] = "queued"]
        /\ [u \in Tasks |-> task[u].candidate]'
             = [[u \in Tasks |-> task[u].candidate] EXCEPT ![t] = NoOutput]
        /\ [u \in Tasks |-> task[u].result]'
             = [[u \in Tasks |-> task[u].result] EXCEPT ![t] = NoOutput]
        /\ [u \in Tasks |-> task[u].approver # None]' = [u \in Tasks |-> task[u].approver # None]
    BY <1>1, <1>2, Replaced DEF TypeOK
  <1>4. [u \in Tasks |-> task[u].status][t] \in Lifecycle!RetryableStatus
    BY DEF Retry, Is, Retryable, Ended, Lifecycle!RetryableStatus
  <1>5. QED
    BY <1>3, <1>4 DEF Moves, Lifecycle!Retry, Lifecycle!Move

LEMMA ReviewMoves ==
  ASSUME TypeOK, CandidateIsOutput, NEW v \in Reviews, ReviewCommit(v)
  PROVE  task' = task \/ \E t \in Tasks : Moves(t)
  <1>1. /\ review[v].task \in Reviewed /\ review[v].task \in Tasks
        /\ review[v].candidate \in Output /\ review[v].by \in Agents
    BY ActiveReview, ReviewAssumption DEF ReviewCommit, TypeOK, CandidateIsOutput
  <1>2. PICK t \in Tasks, output \in Output, by \in Agents :
          t = review[v].task /\ output = review[v].candidate /\ by = review[v].by
    BY <1>1
  <1>3. SUFFICES ASSUME task[t].status = "awaiting_review",
                        task' = [task EXCEPT ![t] = Reviewing(v)]
                 PROVE  Moves(t)
    BY <1>2 DEF ReviewCommit, Swap, Is
  <1>4. [u \in Tasks |-> task[u].status][t] \in {"awaiting_review"} /\ t \in Reviewed
    BY <1>1, <1>2, <1>3
  <1>5. CASE review[v].decision = "approve"
    <2> DEFINE record == [task[t] EXCEPT !.status = "completed", !.result = output,
                                         !.candidate = NoOutput, !.approver = by]
    <2>1. task' = [task EXCEPT ![t] = record]
      BY <1>2, <1>3, <1>5 DEF Reviewing
    <2>2. /\ record.status = "completed" /\ record.candidate = NoOutput
          /\ record.result = output /\ (record.approver # None) = TRUE
      BY NoneAssumption DEF TypeOK, TaskRecord
    <2> HIDE DEF record
    <2>3. /\ [u \in Tasks |-> task[u].status]'
               = [[u \in Tasks |-> task[u].status] EXCEPT ![t] = "completed"]
          /\ [u \in Tasks |-> task[u].candidate]'
               = [[u \in Tasks |-> task[u].candidate] EXCEPT ![t] = NoOutput]
          /\ [u \in Tasks |-> task[u].result]'
               = [[u \in Tasks |-> task[u].result] EXCEPT ![t] = output]
          /\ [u \in Tasks |-> task[u].approver # None]'
               = [[u \in Tasks |-> task[u].approver # None] EXCEPT ![t] = TRUE]
      BY <2>1, <2>2, Replaced DEF TypeOK
    <2>4. QED
      BY <1>4, <2>3 DEF Moves, Lifecycle!Approve, Lifecycle!Move
  <1>6. CASE review[v].decision # "approve"
    <2> DEFINE record == [task[t] EXCEPT !.status = "changes_requested"]
    <2>1. task' = [task EXCEPT ![t] = record]
      BY <1>2, <1>3, <1>6 DEF Reviewing
    <2>2. /\ record.status = "changes_requested" /\ record.candidate = task[t].candidate
          /\ record.result = task[t].result /\ record.approver = task[t].approver
      BY DEF TypeOK, TaskRecord
    <2> HIDE DEF record
    <2>3. /\ [u \in Tasks |-> task[u].status]'
               = [[u \in Tasks |-> task[u].status] EXCEPT ![t] = "changes_requested"]
          /\ Lifecycle!Keep
      BY <2>1, <2>2, StatusMove DEF TypeOK, WorkStatus
    <2>4. QED
      BY <1>4, <2>3 DEF Moves, Lifecycle!RequestChanges, Lifecycle!Move
  <1>7. QED
    BY <1>5, <1>6

LEMMA LaunchMoves ==
  ASSUME TypeOK, PickedInOrder, NEW r \in Runs, Deny(r) \/ Accept(r) \/ Start(r)
  PROVE  task' = task \/ \E t \in Tasks : Moves(t)
  <1>1. run[r].pc # "idle" /\ run[r].task \in Tasks
    BY ActiveRun DEF TypeOK, Deny, Accept, Start
  <1>2. PICK t \in Tasks : t = run[r].task
    BY <1>1
  <1>3. CASE Deny(r)
    <2> DEFINE record == [task[t] EXCEPT !.status = "blocked", !.assigned = run[r].agent]
    <2>1. Swap(t, {"queued", "accepted", "running"}, record)
      BY <1>2, <1>3 DEF Deny
    <2>2. /\ record.status = "blocked" /\ record.candidate = task[t].candidate
          /\ record.result = task[t].result /\ record.approver = task[t].approver
      BY DEF TypeOK, TaskRecord
    <2> HIDE DEF record
    <2>3. task' = task \/ (Lifecycle!Move(t, {"queued", "accepted", "running"}, "blocked")
                           /\ Lifecycle!Keep)
      BY <2>1, <2>2, SwapMove DEF TypeOK, WorkStatus
    <2>4. QED
      BY <2>3 DEF Moves, Lifecycle!Block
  <1>4. CASE Accept(r)
    <2> DEFINE record == [task[t] EXCEPT !.status = "accepted", !.assigned = run[r].agent]
    <2>1. Swap(t, {"queued"}, record)
      BY <1>2, <1>4 DEF Accept
    <2>2. /\ record.status = "accepted" /\ record.candidate = task[t].candidate
          /\ record.result = task[t].result /\ record.approver = task[t].approver
      BY DEF TypeOK, TaskRecord
    <2> HIDE DEF record
    <2>3. task' = task \/ (Lifecycle!Move(t, {"queued"}, "accepted") /\ Lifecycle!Keep)
      BY <2>1, <2>2, SwapMove DEF TypeOK, WorkStatus
    <2>4. \A d \in Deps[t] : [u \in Tasks |-> task[u].status][d] = "completed"
      BY <1>2, <1>4, DepsAssumption DEF Accept, PickedInOrder
    <2>5. QED
      BY <2>3, <2>4 DEF Moves, Lifecycle!Accept
  <1>5. CASE Start(r)
    <2> DEFINE record == [task[t] EXCEPT !.status = "running"]
    <2>1. Swap(t, {"accepted"}, record)
      BY <1>2, <1>5 DEF Start
    <2>2. /\ record.status = "running" /\ record.candidate = task[t].candidate
          /\ record.result = task[t].result /\ record.approver = task[t].approver
      BY DEF TypeOK, TaskRecord
    <2> HIDE DEF record
    <2>3. task' = task \/ (Lifecycle!Move(t, {"accepted"}, "running") /\ Lifecycle!Keep)
      BY <2>1, <2>2, SwapMove DEF TypeOK, WorkStatus
    <2>4. QED
      BY <2>3 DEF Moves, Lifecycle!Start
  <1>6. QED
    BY <1>3, <1>4, <1>5

LEMMA CancelMoves ==
  ASSUME TypeOK, NEW t \in Tasks, Cancel(t)
  PROVE  task' = task \/ Moves(t)
  <1> DEFINE record == [task[t] EXCEPT !.status = "cancelled"]
  <1>1. Swap(t, Cancellable, record)
    BY DEF Cancel
  <1>2. /\ record.status = "cancelled" /\ record.candidate = task[t].candidate
        /\ record.result = task[t].result /\ record.approver = task[t].approver
    BY DEF TypeOK, TaskRecord
  <1> HIDE DEF record
  <1>3. Cancellable \subseteq Lifecycle!WorkStatus \ Lifecycle!TerminalStatus
    BY DEF Cancellable, WorkStatus, Ended, Lifecycle!WorkStatus, Lifecycle!TerminalStatus
  <1>4. task' = task \/ (Lifecycle!Move(t, Lifecycle!WorkStatus \ Lifecycle!TerminalStatus,
                                        "cancelled") /\ Lifecycle!Keep)
    BY <1>1, <1>2, <1>3, SwapMove DEF TypeOK, WorkStatus
  <1>5. QED
    BY <1>4 DEF Moves, Lifecycle!Cancel

LEMMA BlockMoves ==
  ASSUME TypeOK, NEW r \in Runs, BlockUnrunnable(r)
  PROVE  \E t \in Tasks : Moves(t)
  <1>1. PICK t \in Tasks : Is(t, {"queued"}) /\ task' = [task EXCEPT ![t].status = "blocked"]
    BY DEF BlockUnrunnable
  <1> DEFINE record == [task[t] EXCEPT !.status = "blocked"]
  <1>2. task' = [task EXCEPT ![t] = record]
    BY <1>1
  <1>3. /\ record.status = "blocked" /\ record.candidate = task[t].candidate
        /\ record.result = task[t].result /\ record.approver = task[t].approver
    BY DEF TypeOK, TaskRecord
  <1> HIDE DEF record
  <1>4. /\ [u \in Tasks |-> task[u].status]'
             = [[u \in Tasks |-> task[u].status] EXCEPT ![t] = "blocked"]
        /\ Lifecycle!Keep
    BY <1>2, <1>3, StatusMove DEF TypeOK, WorkStatus
  <1>5. [u \in Tasks |-> task[u].status][t] \in {"queued", "accepted", "running"}
    BY <1>1 DEF Is
  <1>6. QED
    BY <1>4, <1>5 DEF Moves, Lifecycle!Block, Lifecycle!Move

LEMMA StepMoves ==
  ASSUME RecordInv, [Next]_vars
  PROVE  task' = task \/ \E t \in Tasks : Moves(t)
  <1> USE DEF RecordInv
  <1>1. ASSUME NEW r \in Runs, Pick(r) \/ PickBound(r) PROVE task' = task
    BY <1>1 DEF Pick, PickBound, Picked
  <1>2. ASSUME NEW r \in Runs, RunStep(r) PROVE task' = task \/ \E t \in Tasks : Moves(t)
    <2>1. CASE Deny(r) \/ Accept(r) \/ Start(r)
      BY <2>1, LaunchMoves
    <2>2. CASE Launch(r) \/ HarnessReturns(r) \/ Settle(r)
      BY <2>2 DEF Launch, HarnessReturns, Settle
    <2>3. CASE HarnessThrows(r)
      BY <2>3, CaughtMoves DEF HarnessThrows
    <2>4. CASE Finish(r)
      BY <2>4, FinishMoves
    <2>5. QED
      BY <1>2, <2>1, <2>2, <2>3, <2>4 DEF RunStep
  <1>3. ASSUME NEW r \in Runs, AppendFails(r)
        PROVE  task' = task \/ \E t \in Tasks : Moves(t)
    BY <1>3, CaughtMoves DEF AppendFails
  <1>4. ASSUME NEW v \in Reviews, ReviewRead(v) PROVE task' = task
    BY <1>4 DEF ReviewRead
  <1>5. QED
    BY <1>1, <1>2, <1>3, <1>4, BlockMoves, RetryMoves, CancelMoves, ReviewMoves
       DEF Next, Restart, vars

-----------------------------------------------------------------------------
(* A move keeps the invariants of the records *)

LEMMA MovePoint ==
  ASSUME NEW t \in Tasks, NEW from, NEW to, Lifecycle!Move(t, from, to)
  PROVE  /\ task[t].status \in from
         /\ \A u \in Tasks : task'[u].status = IF u = t THEN to ELSE task[u].status
  <1>1. /\ [u \in Tasks |-> task[u].status][t] \in from
        /\ [u \in Tasks |-> task'[u].status]
             = [[u \in Tasks |-> task[u].status] EXCEPT ![t] = to]
    BY DEF Lifecycle!Move
  <1>2. \A u \in Tasks : [v \in Tasks |-> task'[v].status][u]
                           = [[v \in Tasks |-> task[v].status] EXCEPT ![t] = to][u]
    BY <1>1
  <1>3. QED
    BY <1>1, <1>2

\* What an unchanged or a replaced field says record by record.
LEMMA CandidateKept ==
  ASSUME UNCHANGED [u \in Tasks |-> task[u].candidate]
  PROVE  \A u \in Tasks : task'[u].candidate = task[u].candidate
  <1>1. \A u \in Tasks : [v \in Tasks |-> task'[v].candidate][u]
                           = [v \in Tasks |-> task[v].candidate][u]
    OBVIOUS
  <1>2. QED
    BY <1>1

LEMMA CandidateSet ==
  ASSUME NEW t \in Tasks, NEW c,
         [u \in Tasks |-> task[u].candidate]' = [[u \in Tasks |-> task[u].candidate] EXCEPT ![t] = c]
  PROVE  \A u \in Tasks : task'[u].candidate = IF u = t THEN c ELSE task[u].candidate
  <1>1. \A u \in Tasks : [v \in Tasks |-> task'[v].candidate][u]
                           = [[v \in Tasks |-> task[v].candidate] EXCEPT ![t] = c][u]
    OBVIOUS
  <1>2. QED
    BY <1>1

LEMMA ResultKept ==
  ASSUME UNCHANGED [u \in Tasks |-> task[u].result]
  PROVE  \A u \in Tasks : task'[u].result = task[u].result
  <1>1. \A u \in Tasks : [v \in Tasks |-> task'[v].result][u]
                           = [v \in Tasks |-> task[v].result][u]
    OBVIOUS
  <1>2. QED
    BY <1>1

LEMMA ResultSet ==
  ASSUME NEW t \in Tasks, NEW o,
         [u \in Tasks |-> task[u].result]' = [[u \in Tasks |-> task[u].result] EXCEPT ![t] = o]
  PROVE  \A u \in Tasks : task'[u].result = IF u = t THEN o ELSE task[u].result
  <1>1. \A u \in Tasks : [v \in Tasks |-> task'[v].result][u]
                           = [[v \in Tasks |-> task[v].result] EXCEPT ![t] = o][u]
    OBVIOUS
  <1>2. QED
    BY <1>1

LEMMA ApprovalKept ==
  ASSUME UNCHANGED [u \in Tasks |-> task[u].approver # None]
  PROVE  \A u \in Tasks : (task'[u].approver # None) <=> (task[u].approver # None)
  <1>1. \A u \in Tasks : [v \in Tasks |-> task'[v].approver # None][u]
                           = [v \in Tasks |-> task[v].approver # None][u]
    OBVIOUS
  <1>2. QED
    BY <1>1

LEMMA ApprovalSet ==
  ASSUME NEW t \in Tasks,
         [u \in Tasks |-> task[u].approver # None]'
           = [[u \in Tasks |-> task[u].approver # None] EXCEPT ![t] = TRUE]
  PROVE  \A u \in Tasks : (task'[u].approver # None) <=> (u = t \/ task[u].approver # None)
  <1>1. \A u \in Tasks : [v \in Tasks |-> task'[v].approver # None][u]
                           = [[v \in Tasks |-> task[v].approver # None] EXCEPT ![t] = TRUE][u]
    OBVIOUS
  <1>2. QED
    BY <1>1

\* The conjuncts of RecordInv that speak of the durable records alone.
Records ==
    /\ DependencyOrder /\ PublicationGate /\ ReviewGate
    /\ \A t \in Tasks : task[t].status = "awaiting_review" => task[t].candidate \in Output

\* No move leaves completed.
CompletedStays ==
    \A d \in Tasks : task[d].status = "completed" => task'[d].status = "completed"

\* A move that keeps every output and does not enter a status that means more.
LEMMA QuietMove ==
  ASSUME Records, NEW t \in Tasks, NEW from, NEW to, Lifecycle!Move(t, from, to),
         Lifecycle!Keep, "completed" \notin from,
         \/ to \in {"queued", "failed", "blocked"} /\ from \subseteq {"queued", "accepted", "running"}
         \/ to = "cancelled"
         \/ to = "running" /\ from = {"accepted"}
         \/ to = "accepted" /\ from = {"queued"} /\ \A d \in Deps[t] : task[d].status = "completed"
         \/ to = "changes_requested" /\ from = {"awaiting_review"}
  PROVE  Records' /\ CompletedStays
  <1>1. /\ task[t].status \in from
        /\ \A u \in Tasks : task'[u].status = IF u = t THEN to ELSE task[u].status
    BY MovePoint
  <1>2. \A u \in Tasks : task'[u].candidate = task[u].candidate
    BY CandidateKept DEF Lifecycle!Keep
  <1>3. \A u \in Tasks : task'[u].result = task[u].result
    BY ResultKept DEF Lifecycle!Keep
  <1>4. \A u \in Tasks : (task'[u].approver # None) <=> (task[u].approver # None)
    BY ApprovalKept DEF Lifecycle!Keep
  <1>5. CompletedStays
    BY <1>1 DEF CompletedStays
  <1>6. DependencyOrder'
    BY <1>1, <1>5, DepsAssumption DEF Records, DependencyOrder, CompletedStays
  <1>7. PublicationGate'
    BY <1>1, <1>2, <1>3 DEF Records, PublicationGate
  <1>8. ReviewGate'
    BY <1>1, <1>4, ReviewAssumption DEF Records, ReviewGate
  <1>9. \A u \in Tasks : task'[u].status = "awaiting_review" => task'[u].candidate \in Output
    BY <1>1, <1>2 DEF Records
  <1>10. QED
    BY <1>5, <1>6, <1>7, <1>8, <1>9 DEF Records

LEMMA CompleteMove ==
  ASSUME Records, NEW t \in Tasks, Lifecycle!Complete(t)
  PROVE  Records' /\ CompletedStays
  <1>1. /\ task[t].status = "running" /\ t \notin Reviewed
        /\ \A u \in Tasks : task'[u].status = IF u = t THEN "completed" ELSE task[u].status
    BY MovePoint DEF Lifecycle!Complete
  <1>2. \A u \in Tasks : task'[u].candidate = task[u].candidate
    BY CandidateKept DEF Lifecycle!Complete
  <1>3. \A u \in Tasks \ {t} : task'[u].result = task[u].result
    BY ResultSet DEF Lifecycle!Complete
  <1>4. \A u \in Tasks : (task'[u].approver # None) <=> (task[u].approver # None)
    BY ApprovalKept DEF Lifecycle!Complete
  <1>5. CompletedStays
    BY <1>1 DEF CompletedStays
  <1>6. DependencyOrder'
    BY <1>1, <1>5, DepsAssumption DEF Records, DependencyOrder, CompletedStays
  <1>7. PublicationGate'
    BY <1>1, <1>2, <1>3 DEF Records, PublicationGate
  <1>8. ReviewGate'
    BY <1>1, <1>4, ReviewAssumption DEF Records, ReviewGate
  <1>9. \A u \in Tasks : task'[u].status = "awaiting_review" => task'[u].candidate \in Output
    BY <1>1, <1>2 DEF Records
  <1>10. QED
    BY <1>5, <1>6, <1>7, <1>8, <1>9 DEF Records

LEMMA HoldMove ==
  ASSUME Records, NEW t \in Tasks, Lifecycle!HoldForReview(t)
  PROVE  Records' /\ CompletedStays
  <1>1. /\ task[t].status = "running" /\ t \in Reviewed
        /\ \A u \in Tasks : task'[u].status = IF u = t THEN "awaiting_review" ELSE task[u].status
    BY MovePoint DEF Lifecycle!HoldForReview
  <1>2. PICK o \in Output :
          \A u \in Tasks : task'[u].candidate = IF u = t THEN o ELSE task[u].candidate
    BY CandidateSet DEF Lifecycle!HoldForReview
  <1>3. \A u \in Tasks : task'[u].result = task[u].result
    BY ResultKept DEF Lifecycle!HoldForReview
  <1>4. \A u \in Tasks : (task'[u].approver # None) <=> (task[u].approver # None)
    BY ApprovalKept DEF Lifecycle!HoldForReview
  <1>5. CompletedStays
    BY <1>1 DEF CompletedStays
  <1>6. DependencyOrder'
    BY <1>1, <1>5, DepsAssumption DEF Records, DependencyOrder, CompletedStays
  <1>7. PublicationGate'
    BY <1>1, <1>2, <1>3 DEF Records, PublicationGate
  <1>8. ReviewGate'
    BY <1>1, <1>4, ReviewAssumption DEF Records, ReviewGate
  <1>9. \A u \in Tasks : task'[u].status = "awaiting_review" => task'[u].candidate \in Output
    BY <1>1, <1>2 DEF Records
  <1>10. QED
    BY <1>5, <1>6, <1>7, <1>8, <1>9 DEF Records

LEMMA ApproveMove ==
  ASSUME Records, NEW t \in Tasks, Lifecycle!Approve(t)
  PROVE  Records' /\ CompletedStays
  <1>1. /\ task[t].status = "awaiting_review" /\ t \in Reviewed
        /\ \A u \in Tasks : task'[u].status = IF u = t THEN "completed" ELSE task[u].status
    BY MovePoint DEF Lifecycle!Approve
  <1>2. \A u \in Tasks : task'[u].candidate = IF u = t THEN NoOutput ELSE task[u].candidate
    BY CandidateSet DEF Lifecycle!Approve
  <1>3. \A u \in Tasks \ {t} : task'[u].result = task[u].result
    BY ResultSet DEF Lifecycle!Approve
  <1>4. \A u \in Tasks : (task'[u].approver # None) <=> (u = t \/ task[u].approver # None)
    BY ApprovalSet DEF Lifecycle!Approve
  <1>5. CompletedStays
    BY <1>1 DEF CompletedStays
  <1>6. DependencyOrder'
    BY <1>1, <1>5, DepsAssumption DEF Records, DependencyOrder, CompletedStays
  <1>7. PublicationGate'
    BY <1>1, <1>2, <1>3 DEF Records, PublicationGate
  <1>8. ReviewGate'
    BY <1>1, <1>4, ReviewAssumption DEF Records, ReviewGate
  <1>9. \A u \in Tasks : task'[u].status = "awaiting_review" => task'[u].candidate \in Output
    BY <1>1, <1>2 DEF Records
  <1>10. QED
    BY <1>5, <1>6, <1>7, <1>8, <1>9 DEF Records

LEMMA RetryMove ==
  ASSUME Records, NEW t \in Tasks, Lifecycle!Retry(t)
  PROVE  Records' /\ CompletedStays
  <1>1. /\ task[t].status \in Lifecycle!RetryableStatus
        /\ \A u \in Tasks : task'[u].status = IF u = t THEN "queued" ELSE task[u].status
    BY MovePoint DEF Lifecycle!Retry
  <1>2. \A u \in Tasks : task'[u].candidate = IF u = t THEN NoOutput ELSE task[u].candidate
    BY CandidateSet DEF Lifecycle!Retry
  <1>3. \A u \in Tasks : task'[u].result = IF u = t THEN NoOutput ELSE task[u].result
    BY ResultSet DEF Lifecycle!Retry
  <1>4. \A u \in Tasks : (task'[u].approver # None) <=> (task[u].approver # None)
    BY ApprovalKept DEF Lifecycle!Retry
  <1>5. CompletedStays
    BY <1>1 DEF CompletedStays, Lifecycle!RetryableStatus
  <1>6. DependencyOrder'
    BY <1>1, <1>5, DepsAssumption DEF Records, DependencyOrder, CompletedStays
  <1>7. PublicationGate'
    BY <1>1, <1>2, <1>3 DEF Records, PublicationGate
  <1>8. ReviewGate'
    BY <1>1, <1>4, ReviewAssumption DEF Records, ReviewGate, Lifecycle!RetryableStatus
  <1>9. \A u \in Tasks : task'[u].status = "awaiting_review" => task'[u].candidate \in Output
    BY <1>1, <1>2 DEF Records
  <1>10. QED
    BY <1>5, <1>6, <1>7, <1>8, <1>9 DEF Records

LEMMA MoveKeepsRecords ==
  ASSUME Records, NEW t \in Tasks, Moves(t)
  PROVE  Records' /\ CompletedStays
  <1>1. CASE Lifecycle!Accept(t)
    <2>1. \A d \in Deps[t] : task[d].status = "completed"
      BY <1>1, DepsAssumption DEF Lifecycle!Accept
    <2>2. QED
      BY <1>1, <2>1, QuietMove DEF Lifecycle!Accept
  <1>2. CASE Lifecycle!Start(t)
    BY <1>2, QuietMove DEF Lifecycle!Start
  <1>3. CASE Lifecycle!RequestChanges(t)
    BY <1>3, QuietMove DEF Lifecycle!RequestChanges
  <1>4. CASE Lifecycle!Fail(t)
    BY <1>4, QuietMove DEF Lifecycle!Fail
  <1>5. CASE Lifecycle!Block(t)
    BY <1>5, QuietMove DEF Lifecycle!Block
  <1>6. CASE Lifecycle!Cancel(t)
    BY <1>6, QuietMove DEF Lifecycle!Cancel, Lifecycle!TerminalStatus
  <1>7. QED
    BY <1>1, <1>2, <1>3, <1>4, <1>5, <1>6, CompleteMove, HoldMove, ApproveMove, RetryMove
       DEF Moves

LEMMA StepRecords ==
  ASSUME RecordInv, [Next]_vars
  PROVE  Records' /\ CompletedStays
  <1>1. Records
    BY DEF RecordInv, Records, CandidateIsOutput
  <1>2. CASE task' = task
    BY <1>1, <1>2 DEF Records, DependencyOrder, PublicationGate, ReviewGate, CompletedStays
  <1>3. CASE \E t \in Tasks : Moves(t)
    BY <1>1, <1>3, MoveKeepsRecords
  <1>4. QED
    BY <1>2, <1>3, StepMoves

-----------------------------------------------------------------------------
(* What runs and reviews captured *)

\* A run comes to authorize only through a pick.
LEMMA Authorized ==
  ASSUME RecordInv, [Next]_vars, NEW r \in Runs, run'[r].pc = "authorize"
  PROVE  \/ run[r].pc = "authorize" /\ run'[r].task = run[r].task
         \/ DepsComplete(run'[r].task)
  <1> DEFINE Kept == run[r].pc = "authorize" /\ run'[r].task = run[r].task
             Good == Kept \/ DepsComplete(run'[r].task)
  <1> USE DEF RecordInv, TypeOK
  <1>1. ASSUME NEW s \in Runs, Pick(s) PROVE Good
    BY <1>1 DEF Pick, Picked, NewRun
  <1>2. ASSUME NEW s \in Runs, PickBound(s) PROVE Good
    BY <1>2, BoundAssumption DEF PickBound, Picked, NewRun, DepsComplete
  <1>3. ASSUME NEW s \in Runs, Leave(s) PROVE Good
    BY <1>3 DEF Leave, NoRun
  <1>4. ASSUME NEW s \in Runs, NEW label, label # "authorize", Goto(s, label) PROVE Good
    BY <1>4 DEF Goto
  <1>5. ASSUME NEW s \in Runs, Caught(s) PROVE Good
    BY <1>3, <1>4, <1>5 DEF Caught, Release
  <1>6. ASSUME NEW s \in Runs, RunStep(s) PROVE Good
    <2>1. CASE Deny(s) \/ Accept(s)
      BY <1>3, <1>4, <2>1 DEF Deny, Accept
    <2>2. CASE Start(s)
      BY <1>3, <1>4, <2>2 DEF Start
    <2>3. CASE Launch(s)
      BY <2>3 DEF Launch
    <2>4. CASE HarnessReturns(s)
      BY <2>4 DEF HarnessReturns
    <2>5. CASE HarnessThrows(s) \/ Finish(s) \/ Settle(s)
      BY <1>3, <1>4, <1>5, <2>5 DEF HarnessThrows, Finish, Settle, Release
    <2>6. QED
      BY <1>6, <2>1, <2>2, <2>3, <2>4, <2>5 DEF RunStep
  <1>7. ASSUME NEW s \in Runs, AppendFails(s) PROVE Good
    BY <1>3, <1>4, <1>5, <1>7 DEF AppendFails
  <1>8. ASSUME NEW t \in Tasks, Cancel(t) PROVE Good
    BY <1>8 DEF Cancel, ControllerOwned
  <1>9. ASSUME Restart PROVE Good
    BY <1>9 DEF Restart, NoRun
  <1>10. ASSUME run' = run PROVE Good
    BY <1>10
  <1> HIDE DEF RecordInv, TypeOK, Good
  <1>11. QED
    <2>1. ASSUME NEW s \in Runs, BlockUnrunnable(s) PROVE Good
      BY <1>10, <2>1 DEF BlockUnrunnable
    <2>2. ASSUME NEW t \in Tasks, Retry(t) PROVE Good
      BY <1>10, <2>2 DEF Retry
    <2>3. ASSUME NEW v \in Reviews, ReviewRead(v) \/ ReviewCommit(v) PROVE Good
      BY <1>10, <2>3 DEF ReviewRead, ReviewCommit
    <2>4. ASSUME UNCHANGED vars PROVE Good
      BY <1>10, <2>4 DEF vars
    <2>5. Good
      BY <1>1, <1>2, <1>6, <1>7, <1>8, <1>9, <2>1, <2>2, <2>3, <2>4 DEF Next
    <2>6. QED
      BY <2>5 DEF Good

LEMMA StepPicked ==
  ASSUME RecordInv, [Next]_vars
  PROVE  PickedInOrder'
  <1> SUFFICES ASSUME NEW r \in Runs, run'[r].pc = "authorize", NEW d \in Deps[run'[r].task]
               PROVE  task'[d].status = "completed"
    BY DEF PickedInOrder
  <1>1. task[d].status = "completed"
    BY Authorized DEF RecordInv, PickedInOrder, DepsComplete
  <1>2. d \in Tasks
    <2>1. TypeOK'
      BY StepType DEF RecordInv
    <2>2. run'[r].task \in Tasks
      BY <2>1 DEF TypeOK, RunRecord, NoRun
    <2>3. QED
      BY <2>2, DepsAssumption
  <1>3. QED
    BY <1>1, <1>2, StepRecords DEF CompletedStays

\* A review captures the candidate of a task that is awaiting review.
LEMMA StepCaptured ==
  ASSUME RecordInv, [Next]_vars, NEW v \in Reviews, review'[v] # NoReview
  PROVE  review'[v].candidate \in Output
  <1> USE DEF RecordInv, CandidateIsOutput, TypeOK
  <1>1. CASE review' = review
    BY <1>1
  <1>2. ASSUME NEW w \in Reviews, ReviewRead(w) PROVE review'[v].candidate \in Output
    BY <1>2, ReviewAssumption DEF ReviewRead, Is
  <1>3. ASSUME NEW w \in Reviews, ReviewCommit(w) PROVE review'[v].candidate \in Output
    BY <1>3 DEF ReviewCommit
  <1>4. CASE Restart
    BY <1>4 DEF Restart
  <1>5. ASSUME NEW r \in Runs, RunStep(r) \/ AppendFails(r) PROVE review' = review
    BY <1>5 DEF RunStep, Deny, Accept, Start, Launch, HarnessReturns, HarnessThrows, Finish,
                Settle, AppendFails, Caught
  <1>6. ASSUME NEW r \in Runs, Pick(r) \/ PickBound(r) \/ BlockUnrunnable(r)
        PROVE  review' = review
    BY <1>6 DEF Pick, PickBound, Picked, BlockUnrunnable
  <1>7. ASSUME NEW t \in Tasks, Retry(t) \/ Cancel(t) PROVE review' = review
    BY <1>7 DEF Retry, Cancel
  <1>8. CASE UNCHANGED vars
    BY <1>1, <1>8 DEF vars
  <1> HIDE DEF RecordInv, CandidateIsOutput, TypeOK
  <1>9. QED
    BY <1>1, <1>2, <1>3, <1>4, <1>5, <1>6, <1>7, <1>8 DEF Next

-----------------------------------------------------------------------------
(* The invariants and the refinement *)

LEMMA InitRecords == Init => RecordInv
  <1> SUFFICES ASSUME Init PROVE RecordInv
    OBVIOUS
  <1>1. TypeOK
    BY InitType
  <1>2. DependencyOrder /\ PublicationGate /\ ReviewGate
    BY ReviewAssumption
       DEF Init, NewTask, NoOutput, DependencyOrder, PublicationGate, ReviewGate
  <1>3. ControllerOwned /\ PickedInOrder /\ CandidateIsOutput
    BY DEF Init, NewTask, NoRun, ControllerOwned, PickedInOrder, CandidateIsOutput
  <1>4. QED
    BY <1>1, <1>2, <1>3 DEF RecordInv

LEMMA StepRecordInv == RecordInv /\ [Next]_vars => RecordInv'
  <1> SUFFICES ASSUME RecordInv, [Next]_vars PROVE RecordInv'
    OBVIOUS
  <1>1. TypeOK' /\ ControllerOwned'
    BY StepType, StepOwned DEF RecordInv
  <1>2. DependencyOrder' /\ PublicationGate' /\ ReviewGate'
    BY StepRecords DEF Records
  <1>3. CandidateIsOutput'
    BY StepRecords, StepCaptured DEF Records, CandidateIsOutput
  <1>4. QED
    BY <1>1, <1>2, <1>3, StepPicked DEF RecordInv

LEMMA RecordInvHolds == Spec => []RecordInv
  BY InitRecords, StepRecordInv, PTL DEF Spec

\* A task is accepted, and stays under way, only with every dependency complete,
\* although the check is made before governor.authorize is awaited.
THEOREM DependenciesComeFirst == Spec => []DependencyOrder
  BY RecordInvHolds, PTL DEF RecordInv

\* No interleaving of overlapping runs, late approvals, cancellations and retries
\* leaves a result or a candidate on a record where no reader may see it.
THEOREM NothingIsPublishedEarly == Spec => []PublicationGate
  BY RecordInvHolds, PTL DEF RecordInv

\* A task with a review gate is completed by an approval and by nothing else.
THEOREM ReviewIsRequired == Spec => []ReviewGate
  BY RecordInvHolds, PTL DEF RecordInv

LEMMA InitLifecycle == Init => Lifecycle!Init
  <1> SUFFICES ASSUME Init PROVE Lifecycle!Init
    OBVIOUS
  <1>1. \A t \in Tasks : /\ task[t].status = "queued" /\ task[t].candidate = NoOutput
                         /\ task[t].result = NoOutput /\ (task[t].approver # None) = FALSE
    BY DEF Init, NewTask
  <1>2. /\ [t \in Tasks |-> task[t].status] = [t \in Tasks |-> "queued"]
        /\ [t \in Tasks |-> task[t].candidate] = [t \in Tasks |-> NoOutput]
        /\ [t \in Tasks |-> task[t].result] = [t \in Tasks |-> NoOutput]
        /\ [t \in Tasks |-> task[t].approver # None] = [t \in Tasks |-> FALSE]
    BY <1>1
  <1>3. QED
    BY <1>2 DEF Lifecycle!Init

LEMMA StepLifecycle == RecordInv /\ [Next]_vars => [Lifecycle!Next]_(Lifecycle!lifecycleVars)
  <1> SUFFICES ASSUME RecordInv, [Next]_vars
               PROVE  [Lifecycle!Next]_(Lifecycle!lifecycleVars)
    OBVIOUS
  <1>1. CASE task' = task
    BY <1>1 DEF Lifecycle!lifecycleVars
  <1>2. CASE \E t \in Tasks : Moves(t)
    BY <1>2 DEF Moves, Lifecycle!Next
  <1>3. QED
    BY <1>1, <1>2, StepMoves

\* The scheduler, with all its runs, reviews and restarts, implements the
\* lifecycle that the documentation gives a durable work task.
THEOREM SchedulerImplementsLifecycle == Spec => ImplementsLifecycle
  <1>1. Spec => Lifecycle!Init /\ [][Lifecycle!Next]_(Lifecycle!lifecycleVars)
    BY RecordInvHolds, InitLifecycle, StepLifecycle, PTL DEF Spec
  <1>2. QED
    BY <1>1 DEF ImplementsLifecycle, Lifecycle!Spec
=============================================================================
