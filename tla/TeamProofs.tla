----------------------------- MODULE TeamProofs -----------------------------
(***************************************************************************)
(* Proofs about what a team does on the desktop, for every value of the    *)
(* constants.                                                              *)
(*                                                                         *)
(* TeachOnce, for every set of sessions: what is saved was tested          *)
(* (SavedMeansTested), and an operation that is over leaves nothing to be  *)
(* run (TasksAreClosed).  Neither is inductive.  The first needs that a    *)
(* test owns the lane, so that its replay is alone in it, and that its     *)
(* draft stays the one that is replayed; the second needs what each step   *)
(* of an operation knows of the plan and the task it has made.             *)
(*                                                                         *)
(* Conversations, for every roster of at least two: a stop reaches the     *)
(* work (StopReachesTurn), requests are scheduled (AddressedIsScheduled)   *)
(* and flows finish (FlowFinishes).  The chains of the coworkers' turns    *)
(* are described by a rank that grows along each of them, so that nothing  *)
(* has to be counted; what is known of the messages and their turns is     *)
(* preserved by every step that posts nothing, whatever it does (Quiet),   *)
(* and by the two steps that post: the user's message and a turn's reply.  *)
(***************************************************************************)
EXTENDS TeachOnce, Conversations, TLAPS

SessionState == {"none", "recording", "generating", "drafted", "testing", "tested", "saved", "cancelled"}
OpPc == {"idle", "plan", "task", "run", "replay", "draft", "read", "aggregate", "close", "settle", "fail"}
SessionRecord == [state : SessionState, actions : Nat, draft : Nat, result : Nat, saved : BOOLEAN]
OpRecord == [kind : {"none", "generate", "test"}, pc : OpPc, from : SessionState, aborted : BOOLEAN, seen : Nat \cup {Manual}]
TaskStatus == {"none", "queued", "running"} \cup TaskEnded

\* The types of the variables the argument needs.
TypeOK ==
    /\ session \in [Sessions -> SessionRecord]
    /\ op \in [Sessions -> OpRecord]
    /\ lane \in Sessions \cup {None}
    /\ plan \in [Sessions -> {"none", "open", "closed", "abandoned"}]
    /\ task \in [Sessions -> TaskStatus]
    /\ skills \subseteq [session : Sessions, draft : Nat]
    /\ replayed \in [Sessions -> SUBSET Nat]

\* Only a session with a test in progress holds the lane, and a replay is a test's.
LaneIsHeld ==
    \A s \in Sessions :
        /\ op[s].kind = "test" => lane = s
        /\ op[s].pc = "replay" => op[s].kind = "test"

\* The task of a replay runs until the replay ends it, unless it is aborted.
ReplayRuns == \A s \in Sessions : op[s].pc = "replay" /\ ~op[s].aborted => task[s] = "running"

\* A finish call that fails goes back to the state it was made in, which was not yet tested.
GenerateFromUntested == \A s \in Sessions : op[s].kind # "test" => op[s].from # "tested"

\* Evidence of a test is about the draft the session has.
EvidenceOfDraft ==
    \A s \in Sessions :
        (session[s].state = "tested" \/ (op[s].kind = "test" /\ op[s].seen > 0))
            => session[s].draft \in replayed[s]

Inv ==
    /\ TypeOK
    /\ LaneIsHeld
    /\ ReplayRuns
    /\ GenerateFromUntested
    /\ EvidenceOfDraft
    /\ SavedMeansTested

\* What a step of an operation knows of its plan and its task.
PlanKnown ==
    \A s \in Sessions :
        /\ op[s].kind = "none" => op[s].pc = "idle"
        /\ op[s].pc \in {"idle", "fail", "settle"} => plan[s] # "open"
        /\ op[s].pc = "plan" => plan[s] = "none"
        /\ op[s].pc = "task" => plan[s] # "closed"
        /\ op[s].pc = "aggregate" => task[s] = "completed"
        /\ plan[s] = "closed" => task[s] \notin {"queued", "running"}

-----------------------------------------------------------------------------
(* What the steps of an operation do to the variables they write *)

LEMMA GoesType ==
  ASSUME op \in [Sessions -> OpRecord], NEW s \in Sessions, NEW step \in OpPc, Goes(s, step)
  PROVE  op' \in [Sessions -> OpRecord]
  BY DEF Goes, OpRecord

LEMMA GoesKeeps ==
  ASSUME op \in [Sessions -> OpRecord], NEW s \in Sessions, NEW step, Goes(s, step), NEW u \in Sessions
  PROVE  /\ op'[u].kind = op[u].kind /\ op'[u].from = op[u].from
         /\ op'[u].aborted = op[u].aborted /\ op'[u].seen = op[u].seen
         /\ op'[u].pc = IF u = s THEN step ELSE op[u].pc
  BY DEF Goes, OpRecord

LEMMA AbortType ==
  ASSUME op \in [Sessions -> OpRecord], NEW s \in Sessions, Abort(s)
  PROVE  op' \in [Sessions -> OpRecord]
  BY ZenonT(40) DEF Abort, OpRecord

LEMMA NoOpType == NoOp \in OpRecord
  BY DEF NoOp, OpRecord, OpPc, SessionState, Manual

LEMMA ReleasedType ==
  ASSUME op \in [Sessions -> OpRecord], lane \in Sessions \cup {None}, NEW s \in Sessions, Released(s)
  PROVE  op' \in [Sessions -> OpRecord] /\ lane' \in Sessions \cup {None}
  BY NoOpType DEF Released

LEMMA StartsType ==
  ASSUME TypeOK, NEW s \in Sessions, NEW kind \in {"generate", "test"}, Starts(s, kind)
  PROVE  /\ op' \in [Sessions -> OpRecord]
         /\ plan' \in [Sessions -> {"none", "open", "closed", "abandoned"}]
         /\ task' \in [Sessions -> TaskStatus]
  <1>1. session[s].state \in SessionState
    BY DEF TypeOK, SessionRecord
  <1>2. [NoOp EXCEPT !.kind = kind, !.pc = "plan", !.from = session[s].state] \in OpRecord
    BY <1>1 DEF NoOp, OpRecord, OpPc, Manual
  <1>3. QED
    BY <1>2 DEF Starts, TypeOK, TaskStatus

LEMMA StateType ==
  ASSUME session \in [Sessions -> SessionRecord], NEW s \in Sessions, NEW state \in SessionState,
         session' = [session EXCEPT ![s].state = state]
  PROVE  session' \in [Sessions -> SessionRecord]
  BY DEF SessionRecord

LEMMA RejectedType ==
  ASSUME session \in [Sessions -> SessionRecord], op \in [Sessions -> OpRecord], NEW s \in Sessions, Rejected(s)
  PROVE  session' \in [Sessions -> SessionRecord]
  <1> DEFINE back == IF op[s].kind = "test" THEN "drafted" ELSE op[s].from
  <1>1. back \in SessionState
    BY DEF OpRecord, SessionState
  <1>2. session' = session \/ session' = [session EXCEPT ![s].state = back]
    BY DEF Rejected
  <1>3. QED
    BY <1>1, <1>2, StateType

LEMMA EndedType ==
  ASSUME task \in [Sessions -> TaskStatus], NEW s \in Sessions, NEW r \in TaskEnded, Ended(s, r)
  PROVE  task' \in [Sessions -> TaskStatus]
  BY DEF Ended, TaskStatus

LEMMA DraftType ==
  ASSUME TypeOK, NEW s \in Sessions
  PROVE  session[s].draft \in Nat /\ session[s].actions \in Nat /\ op[s].seen \in Nat \cup {Manual}
  BY DEF TypeOK, SessionRecord, OpRecord

-----------------------------------------------------------------------------
(* Type correctness *)

LEMMA TypeInit == Init => TypeOK
  BY NoOpType DEF Init, TypeOK, NoSession, SessionRecord, SessionState, TaskStatus

LEMMA TypeNext ==
  ASSUME TypeOK, [Next]_vars
  PROVE  TypeOK'
  <1>1. CASE UNCHANGED vars
    BY <1>1 DEF TypeOK, vars, work, history
  <1>2. ASSUME NEW s \in Sessions, TaskStep(s) PROVE TypeOK'
    <2>1. CASE PlanMade(s)
      BY <2>1, GoesType DEF TypeOK, PlanMade, work, history, OpPc
    <2>2. CASE PlanFails(s)
      BY <2>2, GoesType DEF TypeOK, PlanFails, work, history, OpPc
    <2>3. CASE TaskMade(s)
      BY <2>3, GoesType DEF TypeOK, TaskMade, history, OpPc, TaskStatus
    <2>4. CASE AbortCancels(s)
      BY <2>4 DEF TypeOK, AbortCancels, history, TaskStatus, TaskEnded
    <2>5. CASE OtherTakes(s)
      BY <2>5 DEF TypeOK, OtherTakes, history, TaskStatus
    <2>6. CASE OtherEnds(s)
      BY <2>6 DEF TypeOK, OtherEnds, history, TaskStatus, TaskEnded
    <2>7. CASE TakeTask(s)
      BY <2>7, GoesType DEF TypeOK, TakeTask, history, TaskStatus, OpPc
    <2>8. CASE TaskGone(s)
      BY <2>8, GoesType DEF TypeOK, TaskGone, work, history, OpPc
    <2>9. CASE DraftMade(s)
      BY <2>9, GoesType, EndedType DEF TypeOK, DraftMade, history, OpPc, TaskEnded
    <2>10. CASE ReplayDone(s)
      <3>1. PICK n \in {session[s].actions, Manual} :
               /\ op' = [op EXCEPT ![s].pc = "read", ![s].seen = n]
               /\ replayed' = IF n # Manual /\ Alone(s) /\ task[s] = "running"
                              THEN [replayed EXCEPT ![s] = @ \cup {session[s].draft}] ELSE replayed
        BY <2>10 DEF ReplayDone
      <3>2. op' \in [Sessions -> OpRecord]
        <4>1. n \in Nat \cup {Manual} /\ op[s] \in OpRecord
          BY <3>1, DraftType DEF TypeOK
        <4>2. [op[s] EXCEPT !.pc = "read", !.seen = n] \in OpRecord
          BY <4>1 DEF OpRecord, OpPc
        <4>3. op' = [op EXCEPT ![s] = [op[s] EXCEPT !.pc = "read", !.seen = n]]
          BY <3>1
        <4>4. QED
          BY <4>2, <4>3 DEF TypeOK
      <3>3. replayed' \in [Sessions -> SUBSET Nat]
        BY <3>1, DraftType DEF TypeOK
      <3>4. task' \in [Sessions -> TaskStatus]
        BY <2>10, EndedType DEF ReplayDone, TypeOK, TaskEnded
      <3>5. QED
        BY <2>10, <3>2, <3>3, <3>4 DEF TypeOK, ReplayDone
    <2>11. CASE ReplayFails(s)
      BY <2>11, GoesType, EndedType DEF TypeOK, ReplayFails, history, OpPc, TaskEnded
    <2>12. CASE ReadTask(s)
      BY <2>12, GoesType DEF TypeOK, ReadTask, work, history, OpPc
    <2>13. CASE Aggregate(s)
      BY <2>13, GoesType DEF TypeOK, Aggregate, history, OpPc
    <2>14. CASE ClosePlan(s)
      BY <2>14, GoesType DEF TypeOK, ClosePlan, history, OpPc, TaskStatus, TaskEnded
    <2>15. QED
      BY <1>2, <2>1, <2>2, <2>3, <2>4, <2>5, <2>6, <2>7, <2>8, <2>9, <2>10, <2>11, <2>12, <2>13, <2>14 DEF TaskStep
  <1>3. ASSUME NEW s \in Sessions, Settle(s) PROVE TypeOK'
    <2>1. CASE OperationFails(s)
      BY <2>1, RejectedType, ReleasedType DEF TypeOK, OperationFails, work, history
    <2>2. CASE DraftAccepted(s)
      <3>1. session[s] \in SessionRecord
        BY DEF TypeOK
      <3>2. [session[s] EXCEPT !.state = "drafted", !.draft = @ + 1, !.result = 0] \in SessionRecord
        <4>1. session[s].draft + 1 \in Nat
          BY DraftType
        <4>2. QED
          BY <3>1, <4>1 DEF SessionRecord, SessionState
      <3>3. session' \in [Sessions -> SessionRecord]
        BY <2>2, <3>2 DEF TypeOK, DraftAccepted
      <3>4. QED
        BY <2>2, <3>3, ReleasedType DEF TypeOK, DraftAccepted, history, work
    <2>3. CASE DraftRejected(s)
      BY <2>3, RejectedType, ReleasedType DEF TypeOK, DraftRejected, work, history
    <2>4. CASE TestPassed(s)
      <3>1. session[s] \in SessionRecord
        BY DEF TypeOK
      <3>2. [session[s] EXCEPT !.state = "tested", !.result = op[s].seen] \in SessionRecord
        BY <2>4, <3>1, DraftType DEF SessionRecord, SessionState, TestPassed, Complete, Manual
      <3>3. session' \in [Sessions -> SessionRecord]
        BY <2>4, <3>2 DEF TypeOK, TestPassed
      <3>4. QED
        BY <2>4, <3>3, ReleasedType DEF TypeOK, TestPassed, history, work
    <2>5. CASE TestNotPassed(s)
      <3>1. session' \in [Sessions -> SessionRecord]
        BY <2>5, RejectedType, StateType DEF TypeOK, TestNotPassed, SessionState
      <3>2. QED
        BY <2>5, <3>1, ReleasedType DEF TypeOK, TestNotPassed, work, history
    <2>6. QED
      BY <1>3, <2>1, <2>2, <2>3, <2>4, <2>5 DEF Settle
  <1>4. ASSUME NEW s \in Sessions, UserStep(s) PROVE TypeOK'
    <2>1. CASE Start(s)
      BY <2>1, StateType DEF TypeOK, Start, work, history, SessionState
    <2>2. CASE RecordAction(s)
      BY <2>2 DEF TypeOK, RecordAction, work, history
    <2>3. CASE ActionRecorded(s)
      <3>1. session' = session \/ session' = [session EXCEPT ![s].actions = @ + 1]
        BY <2>3 DEF ActionRecorded
      <3>2. session' \in [Sessions -> SessionRecord]
        BY <3>1 DEF TypeOK, SessionRecord
      <3>3. QED
        BY <2>3, <3>2 DEF TypeOK, ActionRecorded, work, history
    <2>4. CASE Finish(s)
      BY <2>4, StartsType, StateType DEF TypeOK, Finish, history, SessionState
    <2>5. CASE Test(s)
      <3>1. session[s] \in SessionRecord
        BY DEF TypeOK
      <3>2. [session[s] EXCEPT !.state = "testing", !.result = 0] \in SessionRecord
        BY <2>5, <3>1, DraftType DEF SessionRecord, SessionState
      <3>3. session' \in [Sessions -> SessionRecord]
        BY <2>5, <3>2 DEF TypeOK, Test
      <3>4. QED
        BY <2>5, <3>3, StartsType DEF TypeOK, Test, history, work
    <2>6. CASE SaveSkill(s)
      <3>1. [session[s] EXCEPT !.state = "saved", !.saved = TRUE] \in SessionRecord
        BY DEF TypeOK, SessionRecord, SessionState
      <3>2. session' \in [Sessions -> SessionRecord]
        BY <2>6, <3>1 DEF TypeOK, SaveSkill
      <3>3. skills' \subseteq [session : Sessions, draft : Nat]
        BY <2>6, DraftType DEF TypeOK, SaveSkill
      <3>4. QED
        BY <2>6, <3>2, <3>3 DEF TypeOK, SaveSkill, work
    <2>7. CASE Cancel(s)
      BY <2>7, AbortType, StateType DEF TypeOK, Cancel, work, history, SessionState
    <2>8. CASE TestTimesOut(s)
      BY <2>8, AbortType DEF TypeOK, TestTimesOut, work, history
    <2>9. QED
      BY <1>4, <2>1, <2>2, <2>3, <2>4, <2>5, <2>6, <2>7, <2>8 DEF UserStep
  <1>5. CASE Restart
    <2>1. \A s \in Sessions : Recovered(session[s]) \in SessionRecord
      BY DEF TypeOK, Recovered, SessionRecord, SessionState
    <2>2. QED
      BY <1>5, <2>1, NoOpType DEF TypeOK, Restart, history
  <1>6. QED
    BY <1>1, <1>2, <1>3, <1>4, <1>5 DEF Next

-----------------------------------------------------------------------------
(* What is saved was tested *)

\* A test owns the lane until it is released.
LEMMA LaneNext ==
  ASSUME TypeOK, LaneIsHeld, [Next]_vars
  PROVE  LaneIsHeld'
  <1>1. CASE UNCHANGED vars
    BY <1>1 DEF LaneIsHeld, vars
  <1>2. ASSUME NEW s \in Sessions, TaskStep(s) PROVE LaneIsHeld'
    <2>1. CASE PlanMade(s)
      BY <2>1 DEF LaneIsHeld, TypeOK, PlanMade, At, Goes
    <2>2. CASE PlanFails(s)
      BY <2>2 DEF LaneIsHeld, TypeOK, PlanFails, At, Goes
    <2>3. CASE TaskMade(s)
      BY <2>3, GoesKeeps DEF LaneIsHeld, TypeOK, TaskMade, At
    <2>4. CASE AbortCancels(s)
      BY <2>4 DEF LaneIsHeld, TypeOK, AbortCancels
    <2>5. CASE OtherTakes(s)
      BY <2>5 DEF LaneIsHeld, TypeOK, OtherTakes
    <2>6. CASE OtherEnds(s)
      BY <2>6 DEF LaneIsHeld, TypeOK, OtherEnds
    <2>7. CASE TakeTask(s)
      BY <2>7 DEF LaneIsHeld, TypeOK, TakeTask, At, Goes
    <2>8. CASE TaskGone(s)
      BY <2>8, GoesKeeps DEF LaneIsHeld, TypeOK, TaskGone, At
    <2>9. CASE DraftMade(s)
      BY <2>9 DEF LaneIsHeld, TypeOK, DraftMade, At, Goes, Ended
    <2>10. CASE ReplayDone(s)
      BY <2>10 DEF LaneIsHeld, TypeOK, ReplayDone, At, Ended, Alone
    <2>11. CASE ReplayFails(s)
      BY <2>11 DEF LaneIsHeld, TypeOK, ReplayFails, At, Goes, Ended
    <2>12. CASE ReadTask(s)
      BY <2>12 DEF LaneIsHeld, TypeOK, ReadTask, At, Goes
    <2>13. CASE Aggregate(s)
      BY <2>13, GoesKeeps DEF LaneIsHeld, TypeOK, Aggregate, At
    <2>14. CASE ClosePlan(s)
      BY <2>14 DEF LaneIsHeld, TypeOK, ClosePlan, At, Goes
    <2>15. QED
      BY <1>2, <2>1, <2>2, <2>3, <2>4, <2>5, <2>6, <2>7, <2>8, <2>9, <2>10, <2>11, <2>12, <2>13, <2>14 DEF TaskStep
  <1>3. ASSUME NEW s \in Sessions, Settle(s) PROVE LaneIsHeld'
    <2>1. CASE OperationFails(s)
      BY <2>1 DEF LaneIsHeld, TypeOK, OperationFails, At, Rejected, Released, NoOp
    <2>2. CASE DraftAccepted(s)
      BY <2>2 DEF LaneIsHeld, TypeOK, DraftAccepted, At, Released, NoOp
    <2>3. CASE DraftRejected(s)
      BY <2>3 DEF LaneIsHeld, TypeOK, DraftRejected, At, Rejected, Released, NoOp
    <2>4. CASE TestPassed(s)
      BY <2>4 DEF LaneIsHeld, TypeOK, TestPassed, At, Released, Complete, NoOp
    <2>5. CASE TestNotPassed(s)
      BY <2>5 DEF LaneIsHeld, TypeOK, TestNotPassed, At, Rejected, Released, Complete, NoOp
    <2>6. QED
      BY <1>3, <2>1, <2>2, <2>3, <2>4, <2>5 DEF Settle
  <1>4. ASSUME NEW s \in Sessions, UserStep(s) PROVE LaneIsHeld'
    <2>1. CASE Start(s)
      BY <2>1 DEF LaneIsHeld, TypeOK, Start
    <2>2. CASE RecordAction(s)
      BY <2>2 DEF LaneIsHeld, TypeOK, RecordAction
    <2>3. CASE ActionRecorded(s)
      BY <2>3 DEF LaneIsHeld, TypeOK, ActionRecorded
    <2>4. CASE Finish(s)
      BY <2>4 DEF LaneIsHeld, TypeOK, Finish, Starts, NoOp
    <2>5. CASE Test(s)
      BY <2>5, TeachAssumption DEF LaneIsHeld, TypeOK, Test, Starts, NoOp
    <2>6. CASE SaveSkill(s)
      BY <2>6 DEF LaneIsHeld, TypeOK, SaveSkill
    <2>7. CASE Cancel(s)
      BY <2>7 DEF LaneIsHeld, TypeOK, Cancel, Abort
    <2>8. CASE TestTimesOut(s)
      BY <2>8 DEF LaneIsHeld, TypeOK, TestTimesOut, Abort
    <2>9. QED
      BY <1>4, <2>1, <2>2, <2>3, <2>4, <2>5, <2>6, <2>7, <2>8 DEF UserStep
  <1>5. CASE Restart
    BY <1>5 DEF LaneIsHeld, Restart, NoOp
  <1>6. QED
    BY <1>1, <1>2, <1>3, <1>4, <1>5 DEF Next

\* Only an abort takes the task of a replay away.
LEMMA ReplayRunsNext ==
  ASSUME TypeOK, LaneIsHeld, ReplayRuns, [Next]_vars
  PROVE  ReplayRuns'
  <1>1. CASE UNCHANGED vars
    BY <1>1 DEF ReplayRuns, vars, work
  <1>2. ASSUME NEW s \in Sessions, TaskStep(s) PROVE ReplayRuns'
    <2>1. CASE PlanMade(s)
      BY <2>1 DEF ReplayRuns, TypeOK, PlanMade, At, Goes, work
    <2>2. CASE PlanFails(s)
      BY <2>2 DEF ReplayRuns, TypeOK, PlanFails, At, Goes, work
    <2>3. CASE TaskMade(s)
      BY <2>3, GoesKeeps DEF ReplayRuns, TypeOK, TaskMade, At, work
    <2>4. CASE AbortCancels(s)
      BY <2>4 DEF ReplayRuns, TypeOK, AbortCancels, work
    <2>5. CASE OtherTakes(s)
      BY <2>5 DEF ReplayRuns, TypeOK, OtherTakes, work
    <2>6. CASE OtherEnds(s)
      BY <2>6 DEF ReplayRuns, TypeOK, OtherEnds, work
    <2>7. CASE TakeTask(s)
      BY <2>7 DEF ReplayRuns, TypeOK, TakeTask, At, Goes, work
    <2>8. CASE TaskGone(s)
      BY <2>8, GoesKeeps DEF ReplayRuns, TypeOK, TaskGone, At, work
    <2>9. CASE DraftMade(s)
      BY <2>9 DEF ReplayRuns, TypeOK, DraftMade, At, Goes, Ended, work
    <2>10. CASE ReplayDone(s)
      BY <2>10 DEF ReplayRuns, TypeOK, ReplayDone, At, Ended, Alone, work
    <2>11. CASE ReplayFails(s)
      BY <2>11 DEF ReplayRuns, TypeOK, ReplayFails, At, Goes, Ended, work
    <2>12. CASE ReadTask(s)
      BY <2>12 DEF ReplayRuns, TypeOK, ReadTask, At, Goes, work
    <2>13. CASE Aggregate(s)
      BY <2>13, GoesKeeps DEF ReplayRuns, TypeOK, Aggregate, At, work
    <2>14. CASE ClosePlan(s)
      BY <2>14 DEF ReplayRuns, TypeOK, ClosePlan, At, Goes, work
    <2>15. QED
      BY <1>2, <2>1, <2>2, <2>3, <2>4, <2>5, <2>6, <2>7, <2>8, <2>9, <2>10, <2>11, <2>12, <2>13, <2>14 DEF TaskStep
  <1>3. ASSUME NEW s \in Sessions, Settle(s) PROVE ReplayRuns'
    <2>1. CASE OperationFails(s)
      BY <2>1 DEF ReplayRuns, TypeOK, OperationFails, At, Rejected, Released, work, NoOp
    <2>2. CASE DraftAccepted(s)
      BY <2>2 DEF ReplayRuns, TypeOK, DraftAccepted, At, Released, work, NoOp
    <2>3. CASE DraftRejected(s)
      BY <2>3 DEF ReplayRuns, TypeOK, DraftRejected, At, Rejected, Released, work, NoOp
    <2>4. CASE TestPassed(s)
      BY <2>4 DEF ReplayRuns, TypeOK, TestPassed, At, Released, Complete, work, NoOp
    <2>5. CASE TestNotPassed(s)
      BY <2>5 DEF ReplayRuns, TypeOK, TestNotPassed, At, Rejected, Released, Complete, work, NoOp
    <2>6. QED
      BY <1>3, <2>1, <2>2, <2>3, <2>4, <2>5 DEF Settle
  <1>4. ASSUME NEW s \in Sessions, UserStep(s) PROVE ReplayRuns'
    <2>1. CASE Start(s)
      BY <2>1 DEF ReplayRuns, TypeOK, Start, work
    <2>2. CASE RecordAction(s)
      BY <2>2 DEF ReplayRuns, TypeOK, RecordAction, work
    <2>3. CASE ActionRecorded(s)
      BY <2>3 DEF ReplayRuns, TypeOK, ActionRecorded, work
    <2>4. CASE Finish(s)
      BY <2>4 DEF ReplayRuns, TypeOK, Finish, Starts, work, NoOp
    <2>5. CASE Test(s)
      BY <2>5, TeachAssumption DEF ReplayRuns, TypeOK, Test, Starts, work, NoOp
    <2>6. CASE SaveSkill(s)
      BY <2>6 DEF ReplayRuns, TypeOK, SaveSkill, work
    <2>7. CASE Cancel(s)
      BY <2>7 DEF ReplayRuns, LaneIsHeld, TypeOK, OpRecord, Cancel, Abort, work
    <2>8. CASE TestTimesOut(s)
      BY <2>8 DEF ReplayRuns, TypeOK, TestTimesOut, Abort, work
    <2>9. QED
      BY <1>4, <2>1, <2>2, <2>3, <2>4, <2>5, <2>6, <2>7, <2>8 DEF UserStep
  <1>5. CASE Restart
    BY <1>5 DEF ReplayRuns, Restart, NoOp
  <1>6. QED
    BY <1>1, <1>2, <1>3, <1>4, <1>5 DEF Next

\* The state an operation began in is kept until it is over.
LEMMA UntestedNext ==
  ASSUME TypeOK, GenerateFromUntested, [Next]_vars
  PROVE  GenerateFromUntested'
  <1>1. CASE UNCHANGED vars
    BY <1>1 DEF GenerateFromUntested, vars
  <1>2. ASSUME NEW s \in Sessions, TaskStep(s) PROVE GenerateFromUntested'
    <2>1. CASE PlanMade(s)
      BY <2>1 DEF GenerateFromUntested, TypeOK, PlanMade, At, Goes
    <2>2. CASE PlanFails(s)
      BY <2>2 DEF GenerateFromUntested, TypeOK, PlanFails, At, Goes
    <2>3. CASE TaskMade(s)
      BY <2>3, GoesKeeps DEF GenerateFromUntested, TypeOK, TaskMade, At
    <2>4. CASE AbortCancels(s)
      BY <2>4 DEF GenerateFromUntested, TypeOK, AbortCancels
    <2>5. CASE OtherTakes(s)
      BY <2>5 DEF GenerateFromUntested, TypeOK, OtherTakes
    <2>6. CASE OtherEnds(s)
      BY <2>6 DEF GenerateFromUntested, TypeOK, OtherEnds
    <2>7. CASE TakeTask(s)
      BY <2>7 DEF GenerateFromUntested, TypeOK, TakeTask, At, Goes
    <2>8. CASE TaskGone(s)
      BY <2>8, GoesKeeps DEF GenerateFromUntested, TypeOK, TaskGone, At
    <2>9. CASE DraftMade(s)
      BY <2>9 DEF GenerateFromUntested, TypeOK, DraftMade, At, Goes, Ended
    <2>10. CASE ReplayDone(s)
      BY <2>10 DEF GenerateFromUntested, TypeOK, ReplayDone, At, Ended, Alone
    <2>11. CASE ReplayFails(s)
      BY <2>11 DEF GenerateFromUntested, TypeOK, ReplayFails, At, Goes, Ended
    <2>12. CASE ReadTask(s)
      BY <2>12 DEF GenerateFromUntested, TypeOK, ReadTask, At, Goes
    <2>13. CASE Aggregate(s)
      BY <2>13, GoesKeeps DEF GenerateFromUntested, TypeOK, Aggregate, At
    <2>14. CASE ClosePlan(s)
      BY <2>14 DEF GenerateFromUntested, TypeOK, ClosePlan, At, Goes
    <2>15. QED
      BY <1>2, <2>1, <2>2, <2>3, <2>4, <2>5, <2>6, <2>7, <2>8, <2>9, <2>10, <2>11, <2>12, <2>13, <2>14 DEF TaskStep
  <1>3. ASSUME NEW s \in Sessions, Settle(s) PROVE GenerateFromUntested'
    <2>1. CASE OperationFails(s)
      BY <2>1 DEF GenerateFromUntested, TypeOK, OperationFails, At, Rejected, Released, NoOp
    <2>2. CASE DraftAccepted(s)
      BY <2>2 DEF GenerateFromUntested, TypeOK, DraftAccepted, At, Released, NoOp
    <2>3. CASE DraftRejected(s)
      BY <2>3 DEF GenerateFromUntested, TypeOK, DraftRejected, At, Rejected, Released, NoOp
    <2>4. CASE TestPassed(s)
      BY <2>4 DEF GenerateFromUntested, TypeOK, TestPassed, At, Released, Complete, NoOp
    <2>5. CASE TestNotPassed(s)
      BY <2>5 DEF GenerateFromUntested, TypeOK, TestNotPassed, At, Rejected, Released, Complete, NoOp
    <2>6. QED
      BY <1>3, <2>1, <2>2, <2>3, <2>4, <2>5 DEF Settle
  <1>4. ASSUME NEW s \in Sessions, UserStep(s) PROVE GenerateFromUntested'
    <2>1. CASE Start(s)
      BY <2>1 DEF GenerateFromUntested, TypeOK, Start
    <2>2. CASE RecordAction(s)
      BY <2>2 DEF GenerateFromUntested, TypeOK, RecordAction
    <2>3. CASE ActionRecorded(s)
      BY <2>3 DEF GenerateFromUntested, TypeOK, ActionRecorded
    <2>4. CASE Finish(s)
      BY <2>4 DEF GenerateFromUntested, TypeOK, Finish, Starts, NoOp
    <2>5. CASE Test(s)
      BY <2>5, TeachAssumption DEF GenerateFromUntested, TypeOK, Test, Starts, NoOp
    <2>6. CASE SaveSkill(s)
      BY <2>6 DEF GenerateFromUntested, TypeOK, SaveSkill
    <2>7. CASE Cancel(s)
      BY <2>7 DEF GenerateFromUntested, TypeOK, Cancel, Abort
    <2>8. CASE TestTimesOut(s)
      BY <2>8 DEF GenerateFromUntested, TypeOK, TestTimesOut, Abort
    <2>9. QED
      BY <1>4, <2>1, <2>2, <2>3, <2>4, <2>5, <2>6, <2>7, <2>8 DEF UserStep
  <1>5. CASE Restart
    BY <1>5 DEF GenerateFromUntested, Restart, NoOp
  <1>6. QED
    BY <1>1, <1>2, <1>3, <1>4, <1>5 DEF Next

\* A draft counts as replayed only when the replay that saw it was alone in the lane and its task was running; it is
\* dropped with its evidence when another takes its place.
LEMMA EvidenceNext ==
  ASSUME TypeOK, LaneIsHeld, ReplayRuns, GenerateFromUntested, EvidenceOfDraft, [Next]_vars
  PROVE  EvidenceOfDraft'
  <1>1. CASE UNCHANGED vars
    BY <1>1 DEF EvidenceOfDraft, vars, history
  <1>2. ASSUME NEW s \in Sessions, TaskStep(s) PROVE EvidenceOfDraft'
    <2>1. CASE PlanMade(s)
      BY <2>1 DEF EvidenceOfDraft, TypeOK, PlanMade, At, Goes, history
    <2>2. CASE PlanFails(s)
      BY <2>2 DEF EvidenceOfDraft, TypeOK, PlanFails, At, Goes, history
    <2>3. CASE TaskMade(s)
      BY <2>3, GoesKeeps DEF EvidenceOfDraft, TypeOK, TaskMade, At, history
    <2>4. CASE AbortCancels(s)
      BY <2>4 DEF EvidenceOfDraft, TypeOK, AbortCancels, history
    <2>5. CASE OtherTakes(s)
      BY <2>5 DEF EvidenceOfDraft, TypeOK, OtherTakes, history
    <2>6. CASE OtherEnds(s)
      BY <2>6 DEF EvidenceOfDraft, TypeOK, OtherEnds, history
    <2>7. CASE TakeTask(s)
      BY <2>7 DEF EvidenceOfDraft, TypeOK, TakeTask, At, Goes, history
    <2>8. CASE TaskGone(s)
      BY <2>8, GoesKeeps DEF EvidenceOfDraft, TypeOK, TaskGone, At, history
    <2>9. CASE DraftMade(s)
      BY <2>9 DEF EvidenceOfDraft, TypeOK, DraftMade, At, Goes, Ended, history
    <2>10. CASE ReplayDone(s)
      BY <2>10 DEF EvidenceOfDraft, TypeOK, LaneIsHeld, ReplayRuns, Manual, ReplayDone, At, Ended, Alone, history
    <2>11. CASE ReplayFails(s)
      BY <2>11 DEF EvidenceOfDraft, TypeOK, ReplayFails, At, Goes, Ended, history
    <2>12. CASE ReadTask(s)
      BY <2>12 DEF EvidenceOfDraft, TypeOK, ReadTask, At, Goes, history
    <2>13. CASE Aggregate(s)
      BY <2>13, GoesKeeps DEF EvidenceOfDraft, TypeOK, Aggregate, At, history
    <2>14. CASE ClosePlan(s)
      BY <2>14 DEF EvidenceOfDraft, TypeOK, ClosePlan, At, Goes, history
    <2>15. QED
      BY <1>2, <2>1, <2>2, <2>3, <2>4, <2>5, <2>6, <2>7, <2>8, <2>9, <2>10, <2>11, <2>12, <2>13, <2>14 DEF TaskStep
  <1>3. ASSUME NEW s \in Sessions, Settle(s) PROVE EvidenceOfDraft'
    <2>1. CASE OperationFails(s)
      BY <2>1 DEF EvidenceOfDraft, TypeOK, GenerateFromUntested, OperationFails, At, Rejected, Released, history, NoOp
    <2>2. CASE DraftAccepted(s)
      BY <2>2 DEF EvidenceOfDraft, TypeOK, DraftAccepted, At, Released, history, NoOp
    <2>3. CASE DraftRejected(s)
      BY <2>3 DEF EvidenceOfDraft, TypeOK, GenerateFromUntested, DraftRejected, At, Rejected, Released, history, NoOp
    <2>4. CASE TestPassed(s)
      BY <2>4 DEF EvidenceOfDraft, TypeOK, TestPassed, At, Released, Complete, history, NoOp
    <2>5. CASE TestNotPassed(s)
      <3>1. session' = session \/ session' = [session EXCEPT ![s].state = "drafted"]
        BY <2>5 DEF TestNotPassed, Rejected
      <3>2. \A u \in Sessions : session'[u].draft = session[u].draft /\ (session'[u].state = "tested" => session[u].state = "tested")
        BY <3>1 DEF TypeOK, SessionRecord
      <3>3. \A u \in Sessions : op'[u].kind = "test" => op'[u] = op[u]
        BY <2>5 DEF TestNotPassed, Released, NoOp, TypeOK
      <3>4. QED
        BY <2>5, <3>2, <3>3 DEF EvidenceOfDraft, TestNotPassed, history
    <2>6. QED
      BY <1>3, <2>1, <2>2, <2>3, <2>4, <2>5 DEF Settle
  <1>4. ASSUME NEW s \in Sessions, UserStep(s) PROVE EvidenceOfDraft'
    <2>1. CASE Start(s)
      BY <2>1 DEF EvidenceOfDraft, TypeOK, Start, history
    <2>2. CASE RecordAction(s)
      BY <2>2 DEF EvidenceOfDraft, TypeOK, RecordAction, history
    <2>3. CASE ActionRecorded(s)
      <3>1. session' = session \/ session' = [session EXCEPT ![s].actions = @ + 1]
        BY <2>3 DEF ActionRecorded
      <3>2. \A u \in Sessions : session'[u].state = session[u].state /\ session'[u].draft = session[u].draft
        BY <3>1 DEF TypeOK, SessionRecord
      <3>3. QED
        BY <2>3, <3>2 DEF EvidenceOfDraft, ActionRecorded, history
    <2>4. CASE Finish(s)
      BY <2>4 DEF EvidenceOfDraft, TypeOK, Finish, Starts, history, NoOp
    <2>5. CASE Test(s)
      BY <2>5, TeachAssumption DEF EvidenceOfDraft, TypeOK, Test, Starts, history, NoOp
    <2>6. CASE SaveSkill(s)
      BY <2>6 DEF EvidenceOfDraft, TypeOK, SaveSkill, history
    <2>7. CASE Cancel(s)
      BY <2>7 DEF EvidenceOfDraft, TypeOK, Cancel, Abort, history
    <2>8. CASE TestTimesOut(s)
      BY <2>8 DEF EvidenceOfDraft, TypeOK, TestTimesOut, Abort, history
    <2>9. QED
      BY <1>4, <2>1, <2>2, <2>3, <2>4, <2>5, <2>6, <2>7, <2>8 DEF UserStep
  <1>5. CASE Restart
    BY <1>5 DEF EvidenceOfDraft, Restart, NoOp, Recovered, history
  <1>6. QED
    BY <1>1, <1>2, <1>3, <1>4, <1>5 DEF Next

\* Skills are only added, of sessions that are tested.
LEMMA SavedNext ==
  ASSUME TypeOK, EvidenceOfDraft, SavedMeansTested, [Next]_vars
  PROVE  SavedMeansTested'
  <1>1. \A s \in Sessions : replayed[s] \subseteq replayed'[s]
    <2>1. ASSUME NEW s \in Sessions, TaskStep(s) \/ Settle(s) \/ UserStep(s)
          PROVE  replayed' = replayed \/ ReplayDone(s)
      BY <2>1 DEF TaskStep, PlanMade, PlanFails, TaskMade, AbortCancels, OtherTakes, OtherEnds, TakeTask, TaskGone,
                  DraftMade, ReplayFails, ReadTask, Aggregate, ClosePlan, Settle, OperationFails, DraftAccepted,
                  DraftRejected, TestPassed, TestNotPassed, UserStep, Start, RecordAction, ActionRecorded, Finish,
                  Test, SaveSkill, Cancel, TestTimesOut, history
    <2>2. ASSUME NEW s \in Sessions, ReplayDone(s)
          PROVE  \A u \in Sessions : replayed[u] \subseteq replayed'[u]
      BY <2>2 DEF ReplayDone, TypeOK
    <2>3. QED
      BY <2>1, <2>2 DEF Next, Restart, vars, history
  <1>2. ASSUME NEW k \in skills'
        PROVE  k \in skills \/ (k.session \in Sessions /\ session[k.session].state = "tested" /\ k.draft = session[k.session].draft)
    <2>1. ASSUME NEW s \in Sessions, TaskStep(s) \/ Settle(s) \/ UserStep(s)
          PROVE  skills' = skills \/ SaveSkill(s)
      BY <2>1 DEF TaskStep, PlanMade, PlanFails, TaskMade, AbortCancels, OtherTakes, OtherEnds, TakeTask, TaskGone,
                  DraftMade, ReplayDone, ReplayFails, ReadTask, Aggregate, ClosePlan, Settle, OperationFails,
                  DraftAccepted, DraftRejected, TestPassed, TestNotPassed, UserStep, Start, RecordAction, ActionRecorded,
                  Finish, Test, Cancel, TestTimesOut, history
    <2>2. ASSUME NEW s \in Sessions, SaveSkill(s) PROVE <1>2!2
      BY <1>2, <2>2 DEF SaveSkill
    <2>3. QED
      BY <1>2, <2>1, <2>2 DEF Next, Restart, vars, history
  <1>3. QED
    BY <1>1, <1>2 DEF SavedMeansTested, EvidenceOfDraft, TypeOK

LEMMA InvInit == Init => Inv
  BY TypeInit DEF Init, Inv, NoOp, NoSession, LaneIsHeld, ReplayRuns, GenerateFromUntested, EvidenceOfDraft,
     SavedMeansTested

LEMMA InvNext == Inv /\ [Next]_vars => Inv'
  BY TypeNext, LaneNext, ReplayRunsNext, UntestedNext, EvidenceNext, SavedNext DEF Inv

\* What Teach Once saves has been replayed, action by action and alone in its lane.
THEOREM TestedBeforeSaved == Spec => []SavedMeansTested
  <1>1. Inv => SavedMeansTested
    BY DEF Inv
  <1>2. QED
    BY InvInit, InvNext, <1>1, PTL DEF Spec

-----------------------------------------------------------------------------
(* Tasks are closed *)

\* Each step of an operation knows the plan and the task as the steps before have left them.
LEMMA PlanNext ==
  ASSUME TypeOK, PlanKnown, [Next]_vars
  PROVE  PlanKnown'
  <1>1. CASE UNCHANGED vars
    BY <1>1 DEF PlanKnown, vars, work
  <1>2. ASSUME NEW s \in Sessions, TaskStep(s) PROVE PlanKnown'
    <2>1. CASE PlanMade(s)
      BY <2>1 DEF PlanKnown, TypeOK, PlanMade, At, Goes, work
    <2>2. CASE PlanFails(s)
      BY <2>2 DEF PlanKnown, TypeOK, PlanFails, At, Goes, work
    <2>3. CASE TaskMade(s)
      BY <2>3, GoesKeeps DEF PlanKnown, TypeOK, TaskMade, At, work
    <2>4. CASE AbortCancels(s)
      BY <2>4 DEF PlanKnown, TypeOK, AbortCancels, work
    <2>5. CASE OtherTakes(s)
      BY <2>5 DEF PlanKnown, TypeOK, OtherTakes, work
    <2>6. CASE OtherEnds(s)
      BY <2>6 DEF PlanKnown, TypeOK, OtherEnds, work
    <2>7. CASE TakeTask(s)
      BY <2>7 DEF PlanKnown, TypeOK, TakeTask, At, Goes, work
    <2>8. CASE TaskGone(s)
      BY <2>8, GoesKeeps DEF PlanKnown, TypeOK, TaskGone, At, work
    <2>9. CASE DraftMade(s)
      BY <2>9 DEF PlanKnown, TypeOK, DraftMade, At, Goes, Ended, work
    <2>10. CASE ReplayDone(s)
      BY <2>10 DEF PlanKnown, TypeOK, ReplayDone, At, Ended, Alone, work
    <2>11. CASE ReplayFails(s)
      BY <2>11 DEF PlanKnown, TypeOK, ReplayFails, At, Goes, Ended, work
    <2>12. CASE ReadTask(s)
      BY <2>12 DEF PlanKnown, TypeOK, ReadTask, At, Goes, work
    <2>13. CASE Aggregate(s)
      BY <2>13, GoesKeeps DEF PlanKnown, TypeOK, Aggregate, At, work
    <2>14. CASE ClosePlan(s)
      BY <2>14 DEF PlanKnown, TypeOK, ClosePlan, At, Goes, work
    <2>15. QED
      BY <1>2, <2>1, <2>2, <2>3, <2>4, <2>5, <2>6, <2>7, <2>8, <2>9, <2>10, <2>11, <2>12, <2>13, <2>14 DEF TaskStep
  <1>3. ASSUME NEW s \in Sessions, Settle(s) PROVE PlanKnown'
    <2>1. CASE OperationFails(s)
      BY <2>1 DEF PlanKnown, TypeOK, OperationFails, At, Rejected, Released, work, NoOp
    <2>2. CASE DraftAccepted(s)
      BY <2>2 DEF PlanKnown, TypeOK, DraftAccepted, At, Released, work, NoOp
    <2>3. CASE DraftRejected(s)
      BY <2>3 DEF PlanKnown, TypeOK, DraftRejected, At, Rejected, Released, work, NoOp
    <2>4. CASE TestPassed(s)
      BY <2>4 DEF PlanKnown, TypeOK, TestPassed, At, Released, Complete, work, NoOp
    <2>5. CASE TestNotPassed(s)
      BY <2>5 DEF PlanKnown, TypeOK, TestNotPassed, At, Rejected, Released, Complete, work, NoOp
    <2>6. QED
      BY <1>3, <2>1, <2>2, <2>3, <2>4, <2>5 DEF Settle
  <1>4. ASSUME NEW s \in Sessions, UserStep(s) PROVE PlanKnown'
    <2>1. CASE Start(s)
      BY <2>1 DEF PlanKnown, TypeOK, Start, work
    <2>2. CASE RecordAction(s)
      BY <2>2 DEF PlanKnown, TypeOK, RecordAction, work
    <2>3. CASE ActionRecorded(s)
      BY <2>3 DEF PlanKnown, TypeOK, ActionRecorded, work
    <2>4. CASE Finish(s)
      BY <2>4 DEF PlanKnown, TypeOK, Finish, Starts, work, NoOp
    <2>5. CASE Test(s)
      BY <2>5 DEF PlanKnown, TypeOK, Test, Starts, work, NoOp
    <2>6. CASE SaveSkill(s)
      BY <2>6 DEF PlanKnown, TypeOK, SaveSkill, work
    <2>7. CASE Cancel(s)
      BY <2>7 DEF PlanKnown, TypeOK, Cancel, Abort, work
    <2>8. CASE TestTimesOut(s)
      BY <2>8 DEF PlanKnown, TypeOK, TestTimesOut, Abort, work
    <2>9. QED
      BY <1>4, <2>1, <2>2, <2>3, <2>4, <2>5, <2>6, <2>7, <2>8 DEF UserStep
  <1>5. CASE Restart
    BY <1>5 DEF PlanKnown, TypeOK, Restart, NoOp
  <1>6. QED
    BY <1>1, <1>2, <1>3, <1>4, <1>5 DEF Next

\* An operation that is over leaves no open plan, and no task to be run in a closed one.
THEOREM TasksClosed == Spec => []TasksAreClosed
  <1>1. Init => PlanKnown
    BY DEF Init, PlanKnown, NoOp
  <1>2. PlanKnown => TasksAreClosed
    BY DEF PlanKnown, TasksAreClosed
  <1>3. TypeOK /\ PlanKnown /\ [Next]_vars => TypeOK' /\ PlanKnown'
    BY TypeNext, PlanNext
  <1>4. QED
    BY TypeInit, <1>1, <1>2, <1>3, PTL DEF Spec


-----------------------------------------------------------------------------
(* A team's channel *)

TurnStates == Live \cup {"idle", "over", "lost"}
Marks == {"none", "pending", "delivered", "failed"}
Message == [from : Coworkers \cup {"user"}, mention : Coworkers \cup {"everyone", Nobody}, replyTo : Nat]
OutcomeState == [root : Nat, status : {"none", "working"} \cup Taken]
FlowState == [owner : 0..Len(Order), source : Nat, target : Coworkers \cup {Nobody}]

\* The types of the variables the argument needs.
ChannelTypeOK ==
    /\ messages \in Seq(Message) /\ Len(messages) <= MaxMessages
    /\ delivery \in [Turns -> Marks]
    /\ flow \in FlowState
    /\ pc \in [Turns -> TurnStates]
    /\ after \in [Turns -> Turns \cup {NoTurn}]
    /\ chain \in [Coworkers -> Turns \cup {NoTurn}]
    /\ active \in [Coworkers -> Turns \cup {NoTurn}]
    /\ away \subseteq Coworkers
    /\ blocked \in BOOLEAN
    /\ outcome \in OutcomeState

LEMMA RosterFacts ==
    /\ Roster \in Seq(Coworkers) /\ Len(Roster) \in Nat /\ Len(Roster) >= 2
    /\ \A i, j \in 1..Len(Roster) : Roster[i] = Roster[j] => i = j
    /\ \A i \in 1..Len(Roster) : Roster[i] \in Coworkers
    /\ \A c \in Coworkers : \E i \in 1..Len(Roster) : Roster[i] = c
    /\ "user" \notin Coworkers /\ "everyone" \notin Coworkers /\ Nobody \notin Coworkers
    /\ Nobody # "everyone"
  <1>1. Roster \in Seq(Coworkers) /\ Len(Roster) \in Nat /\ Len(Roster) >= 2
    BY RosterAssumption DEF Coworkers
  <1>2. DOMAIN Roster = 1..Len(Roster)
    BY <1>1
  <1>3. QED
    BY <1>1, <1>2, RosterAssumption DEF Coworkers, ToSet, IsInjective

LEMMA OrderFacts ==
    /\ Len(Order) = Len(Roster) + 1
    /\ \A i \in 1..Len(Roster) : Order[i] = Roster[i]
    /\ Order[Len(Order)] = Roster[1]
    /\ \A i \in 1..Len(Order) : Order[i] \in Coworkers
  <1>1. Len(Order) = Len(Roster) + 1 /\ \A i \in 1..Len(Roster) : Order[i] = Roster[i]
    BY RosterFacts DEF Order
  <1>2. Order[Len(Order)] = Roster[1]
    BY RosterFacts DEF Order
  <1>3. ASSUME NEW i \in 1..Len(Order)
        PROVE  Order[i] \in Coworkers
    <2>1. CASE i = Len(Order)
      BY <2>1, <1>2, RosterFacts
    <2>2. CASE i # Len(Order)
      <3>1. i \in 1..Len(Roster)
        BY <2>2, <1>1, RosterFacts
      <3>2. QED
        BY <3>1, <1>1, RosterFacts
    <2>3. QED
      BY <2>1, <2>2
  <1>4. QED
    BY <1>1, <1>2, <1>3

LEMMA LeastFacts ==
    ASSUME NEW S, NEW i \in S, \A j \in S : i <= j
    PROVE  Min(S) \in S
  BY DEF Min

\* The owner's place is a place of the coworker it is looked up for.
LEMMA PlaceFacts ==
    ASSUME NEW w \in Coworkers
    PROVE  /\ SelectInSeq(Order, LAMBDA c : c = w) \in 1..Len(Order)
           /\ Order[SelectInSeq(Order, LAMBDA c : c = w)] = w
  <1> DEFINE I == {i \in 1..Len(Order) : Order[i] = w}
  <1>1. PICK i \in 1..Len(Roster) : Roster[i] = w
    BY RosterFacts
  <1>2. i \in I
    <2>1. i \in 1..Len(Order)
      BY OrderFacts, RosterFacts
    <2>2. QED
      BY <2>1, <1>1, OrderFacts
  <1>3. ASSUME NEW j \in I
        PROVE  i <= j
    <2>1. j \in 1..Len(Order) /\ Order[j] = w /\ Len(Order) = Len(Roster) + 1
      BY OrderFacts
    <2>2. CASE j = Len(Order)
      <3>0. 1 \in 1..Len(Roster)
        BY RosterFacts
      <3>1. Roster[1] = Roster[i]
        BY <2>1, <2>2, <1>1, OrderFacts
      <3>2. i = 1
        BY <3>0, <3>1, RosterFacts
      <3>3. QED
        BY <3>2, <2>1
    <2>3. CASE j # Len(Order)
      <3>1. j \in 1..Len(Roster)
        BY <2>1, <2>3, RosterFacts
      <3>2. Roster[j] = Roster[i]
        BY <3>1, <2>1, <1>1, OrderFacts
      <3>3. j = i
        BY <3>1, <3>2, RosterFacts
      <3>4. QED
        BY <3>3, <3>1
    <2>4. QED
      BY <2>2, <2>3
  <1>4. Min(I) \in I
    <2> HIDE DEF I
    <2>1. QED
      BY <1>2, <1>3, LeastFacts
  <1>5. SelectInSeq(Order, LAMBDA c : c = w) = IF I # {} THEN Min(I) ELSE 0
    BY DEF SelectInSeq
  <1>e. I # {}
    BY <1>2
  <1>6. SelectInSeq(Order, LAMBDA c : c = w) \in I
    BY <1>4, <1>5, <1>e
  <1>7. QED
    BY <1>6

LEMMA TurnParts ==
    /\ \A t \in Turns : t[1] \in 1..MaxMessages /\ t[2] \in Coworkers /\ t = <<t[1], t[2]>>
    /\ \A i \in 1..MaxMessages, c \in Coworkers : <<i, c>> \in Turns
    /\ NoTurn \notin Turns
    /\ MaxMessages \in Nat
  <1>1. MaxMessages \in Nat
    BY RosterAssumption
  <1>2. \A t \in Turns : t[1] \in 1..MaxMessages /\ t[2] \in Coworkers /\ t = <<t[1], t[2]>>
    BY DEF Turns
  <1>3. \A i \in 1..MaxMessages, c \in Coworkers : <<i, c>> \in Turns
    BY DEF Turns
  <1>4. NoTurn \notin Turns
    BY <1>1 DEF Turns, NoTurn
  <1>5. QED
    BY <1>1, <1>2, <1>3, <1>4

LEMMA PresentTurns ==
    ASSUME ChannelTypeOK
    PROVE  /\ Present \subseteq Turns
           /\ \A t \in Present : t[1] \in 1..Len(messages) /\ t[2] \in Coworkers
           /\ \A i \in 1..Len(messages), c \in Coworkers : <<i, c>> \in Present
           /\ \A t \in Turns : t[1] <= Len(messages) => t \in Present
           /\ Len(messages) \in Nat
  <1>1. Len(messages) \in Nat /\ Len(messages) <= MaxMessages
    BY DEF ChannelTypeOK
  <1>2. QED
    BY <1>1, TurnParts DEF Present, Turns

-----------------------------------------------------------------------------
(* The chains of the coworkers *)

\* The live turns of a coworker are ranked: each waits for the one before it, the first for none, and the chain's end is
\* the last.  p, a and ch are pc, after and chain.
Ranked(p, a, ch, rank) ==
    /\ \A t, u \in Turns : p[t] \in Live /\ p[u] \in Live /\ t[2] = u[2] =>
        /\ t # u => rank[t] # rank[u]
        /\ a[t] = NoTurn => rank[t] <= rank[u]
        /\ a[t] # NoTurn /\ rank[u] < rank[t] => rank[u] <= rank[a[t]]
    /\ \A t \in Turns : p[t] \in Live /\ a[t] # NoTurn =>
        a[t] \in Turns /\ p[a[t]] \in Live /\ a[t][2] = t[2] /\ rank[a[t]] < rank[t]
    /\ \A c \in Coworkers : ch[c] = NoTurn => \A t \in Turns : p[t] \in Live => t[2] # c
    /\ \A c \in Coworkers : ch[c] # NoTurn =>
        /\ ch[c] \in Turns /\ p[ch[c]] \in Live /\ ch[c][2] = c
        /\ \A u \in Turns : p[u] \in Live /\ u[2] = c => rank[u] <= rank[ch[c]]

InOrder(p, a, ch) == \E rank \in [Turns -> Nat] : Ranked(p, a, ch, rank)

\* Of a coworker's live turns only one is at the head.
LEMMA OneHead ==
    ASSUME NEW p, NEW a, NEW ch, InOrder(p, a, ch),
           NEW t \in Turns, NEW u \in Turns, p[t] \in Live, p[u] \in Live, t[2] = u[2],
           a[t] = NoTurn, a[u] = NoTurn
    PROVE  t = u
  <1>1. PICK rank \in [Turns -> Nat] : Ranked(p, a, ch, rank)
    BY DEF InOrder
  <1>2. rank[t] \in Nat /\ rank[u] \in Nat
    BY <1>1
  <1>3. rank[t] <= rank[u] /\ rank[u] <= rank[t]
    BY <1>1 DEF Ranked
  <1>4. QED
    BY <1>1, <1>2, <1>3 DEF Ranked

\* The head of a chain ends: the one behind it is the head.
LEMMA HeadEnds ==
    ASSUME NEW p \in [Turns -> TurnStates], NEW a \in [Turns -> Turns \cup {NoTurn}],
           NEW ch \in [Coworkers -> Turns \cup {NoTurn}], InOrder(p, a, ch),
           NEW t \in Turns, p[t] \in Live, a[t] = NoTurn,
           NEW q, \A u \in Turns : q[u] = IF u = t THEN "over" ELSE p[u],
           NEW b, \A u \in Turns : b[u] = IF a[u] = t THEN NoTurn ELSE a[u],
           NEW dh, \A c \in Coworkers : dh[c] = IF c = t[2] /\ ch[c] = t THEN NoTurn ELSE ch[c]
    PROVE  InOrder(q, b, dh)
  <1>1. PICK rank \in [Turns -> Nat] : Ranked(p, a, ch, rank)
    BY DEF InOrder
  <1>2. \A u \in Turns : q[u] \in Live <=> p[u] \in Live /\ u # t
    BY DEF Live, Working
  <1>3. \A u \in Turns : q[u] \in Live => b[u] = IF a[u] = t THEN NoTurn ELSE a[u]
    OBVIOUS
  <1>r. \A u \in Turns : rank[u] \in Nat
    BY <1>1
  <1>t. t[2] \in Coworkers
    BY TurnParts
  <1>h. \A u \in Turns : p[u] \in Live /\ u[2] = t[2] => rank[t] <= rank[u]
    BY <1>1 DEF Ranked
  <1>4. ASSUME NEW u \in Turns, NEW v \in Turns, q[u] \in Live, q[v] \in Live, u[2] = v[2]
        PROVE  /\ u # v => rank[u] # rank[v]
               /\ b[u] = NoTurn => rank[u] <= rank[v]
               /\ b[u] # NoTurn /\ rank[v] < rank[u] => rank[v] <= rank[b[u]]
    <2>1. p[u] \in Live /\ p[v] \in Live /\ u # t /\ v # t
      BY <1>2, <1>4
    <2>2. /\ u # v => rank[u] # rank[v]
          /\ a[u] = NoTurn => rank[u] <= rank[v]
          /\ a[u] # NoTurn /\ rank[v] < rank[u] => rank[v] <= rank[a[u]]
      BY <2>1, <1>1, <1>4 DEF Ranked
    <2>3. CASE a[u] = t
      <3>1. u[2] = t[2] /\ b[u] = NoTurn
        BY <2>3, <2>1, <1>1, TurnParts DEF Ranked
      <3>2. rank[t] < rank[v]
        <4>0. v[2] = t[2]
          BY <3>1, <1>4
        <4>1. rank[t] <= rank[v]
          BY <4>0, <2>1, <1>h
        <4>3. rank[t] # rank[v]
          BY <4>0, <2>1, <1>1 DEF Ranked
        <4>2. QED
          BY <4>1, <4>3, <1>r
      <3>3. rank[u] <= rank[v]
        BY <2>2, <2>3, <3>2, <1>r, TurnParts
      <3>4. QED
        BY <3>1, <3>3, <2>2
    <2>4. CASE a[u] # t
      BY <2>2, <2>4
    <2>5. QED
      BY <2>3, <2>4
  <1>5. ASSUME NEW u \in Turns, q[u] \in Live, b[u] # NoTurn
        PROVE  b[u] \in Turns /\ q[b[u]] \in Live /\ b[u][2] = u[2] /\ rank[b[u]] < rank[u]
    <2>1. p[u] \in Live /\ a[u] # t /\ b[u] = a[u]
      BY <1>2, <1>5
    <2>2. a[u] \in Turns /\ p[a[u]] \in Live /\ a[u][2] = u[2] /\ rank[a[u]] < rank[u]
      BY <2>1, <1>5, <1>1 DEF Ranked
    <2>3. QED
      BY <2>1, <2>2, <1>2
  <1>6. ASSUME NEW c \in Coworkers, dh[c] = NoTurn
        PROVE  \A u \in Turns : q[u] \in Live => u[2] # c
    <2>1. CASE ch[c] = NoTurn
      BY <2>1, <1>1, <1>2 DEF Ranked
    <2>2. CASE ch[c] # NoTurn
      <3>1. ch[c] = t /\ c = t[2]
        BY <2>2, <1>6
      <3>2. SUFFICES ASSUME NEW u \in Turns, q[u] \in Live, u[2] = c PROVE FALSE
        OBVIOUS
      <3>3. p[u] \in Live /\ u # t
        BY <3>2, <1>2
      <3>4. rank[u] <= rank[t]
        BY <3>1, <3>2, <3>3, <2>2, <1>1 DEF Ranked
      <3>5. rank[t] <= rank[u] /\ rank[t] # rank[u]
        BY <3>1, <3>2, <3>3, <1>h, <1>1 DEF Ranked
      <3>6. QED
        BY <3>4, <3>5, <1>r
    <2>3. QED
      BY <2>1, <2>2
  <1>7. ASSUME NEW c \in Coworkers, dh[c] # NoTurn
        PROVE  /\ dh[c] \in Turns /\ q[dh[c]] \in Live /\ dh[c][2] = c
               /\ \A u \in Turns : q[u] \in Live /\ u[2] = c => rank[u] <= rank[dh[c]]
    <2>1. ch[c] # NoTurn /\ dh[c] = ch[c] /\ (c = t[2] => ch[c] # t)
      BY <1>7
    <2>2. /\ ch[c] \in Turns /\ p[ch[c]] \in Live /\ ch[c][2] = c
          /\ \A u \in Turns : p[u] \in Live /\ u[2] = c => rank[u] <= rank[ch[c]]
      BY <2>1, <1>1 DEF Ranked
    <2>3. ch[c] # t
      BY <2>1, <2>2
    <2>4. QED
      BY <2>1, <2>2, <2>3, <1>2
  <1>8. Ranked(q, b, dh, rank)
    BY <1>4, <1>5, <1>6, <1>7 DEF Ranked
  <1>9. QED
    BY <1>1, <1>8 DEF InOrder

\* The turns ts, one for a coworker at most, join the chains, which are q, b and dh then.
Joins(p, a, ch, ts, q, b, dh) ==
    /\ ts \in SUBSET Turns /\ \A t \in ts : p[t] \notin Live
    /\ \A t, u \in ts : t[2] = u[2] => t = u
    /\ \A t \in Turns : q[t] = IF t \in ts THEN "queued" ELSE p[t]
    /\ \A t \in Turns : b[t] = IF t \in ts THEN ch[t[2]] ELSE a[t]
    /\ \A c \in Coworkers : \/ dh[c] \in ts /\ dh[c][2] = c
                            \/ (\A t \in ts : t[2] # c) /\ dh[c] = ch[c]

LEMMA TurnsJoin ==
    ASSUME NEW p \in [Turns -> TurnStates], NEW a \in [Turns -> Turns \cup {NoTurn}],
           NEW ch \in [Coworkers -> Turns \cup {NoTurn}], InOrder(p, a, ch),
           NEW ts, NEW q, NEW b, NEW dh, Joins(p, a, ch, ts, q, b, dh)
    PROVE  InOrder(q, b, dh)
  <1>j. /\ ts \in SUBSET Turns /\ \A t \in ts : p[t] \notin Live
        /\ \A t, u \in ts : t[2] = u[2] => t = u
        /\ \A t \in Turns : q[t] = IF t \in ts THEN "queued" ELSE p[t]
        /\ \A t \in Turns : b[t] = IF t \in ts THEN ch[t[2]] ELSE a[t]
        /\ \A c \in Coworkers : \/ dh[c] \in ts /\ dh[c][2] = c
                                \/ (\A t \in ts : t[2] # c) /\ dh[c] = ch[c]
    BY DEF Joins
  <1>1. PICK rank \in [Turns -> Nat] : Ranked(p, a, ch, rank)
    BY DEF InOrder
  <1> DEFINE new == [t \in Turns |->
                        IF t \in ts THEN (IF ch[t[2]] = NoTurn THEN 0 ELSE rank[ch[t[2]]] + 1) ELSE rank[t]]
  <1>2. \A t \in Turns : q[t] \in Live <=> p[t] \in Live \/ t \in ts
    BY <1>j DEF Live, Working
  <1>3. \A c \in Coworkers : ch[c] \in Turns \cup {NoTurn}
    OBVIOUS
  <1>4. \A t \in Turns : t[2] \in Coworkers
    BY TurnParts
  <1>5. new \in [Turns -> Nat]
    BY <1>1, <1>3, <1>4
  <1>6. /\ \A t \in Turns \ ts : new[t] = rank[t]
        /\ \A t \in ts : new[t] = IF ch[t[2]] = NoTurn THEN 0 ELSE rank[ch[t[2]]] + 1
    BY <1>j
  <1>r. \A t \in Turns : new[t] \in Nat /\ rank[t] \in Nat
    BY <1>1, <1>5
  <1>7. \A t \in Turns : /\ t \in ts => b[t] = ch[t[2]]
                         /\ t \notin ts => b[t] = a[t]
    BY <1>j
  <1> HIDE DEF new
  <1>c. \A c \in Coworkers : ch[c] = NoTurn => \A t \in Turns : p[t] \in Live => t[2] # c
    BY <1>1 DEF Ranked
  <1>d. \A c \in Coworkers : ch[c] # NoTurn =>
            /\ ch[c] \in Turns /\ p[ch[c]] \in Live /\ ch[c][2] = c /\ ch[c] \notin ts
            /\ \A u \in Turns : p[u] \in Live /\ u[2] = c => rank[u] <= rank[ch[c]]
    BY <1>1, <1>j DEF Ranked
  <1>8. ASSUME NEW t \in ts, NEW u \in Turns \ ts, p[u] \in Live, t[2] = u[2]
        PROVE  /\ ch[t[2]] # NoTurn /\ ch[t[2]] \in Turns /\ ch[t[2]] \notin ts /\ p[ch[t[2]]] \in Live
               /\ new[u] <= new[ch[t[2]]] /\ new[t] = new[ch[t[2]]] + 1 /\ new[u] < new[t]
    <2>1. t \in Turns /\ t[2] \in Coworkers
      BY <1>4, <1>j
    <2>2. ch[t[2]] # NoTurn
      BY <2>1, <1>8, <1>c
    <2>3. /\ ch[t[2]] \in Turns /\ p[ch[t[2]]] \in Live /\ ch[t[2]] \notin ts
          /\ rank[u] <= rank[ch[t[2]]]
      BY <2>1, <2>2, <1>8, <1>d
    <2>4. new[t] = new[ch[t[2]]] + 1 /\ new[u] = rank[u] /\ new[ch[t[2]]] = rank[ch[t[2]]]
      BY <2>2, <2>3, <1>6
    <2>5. QED
      BY <2>2, <2>3, <2>4, <1>r
  <1>9. ASSUME NEW t \in Turns, NEW u \in Turns, q[t] \in Live, q[u] \in Live, t[2] = u[2]
        PROVE  /\ t # u => new[t] # new[u]
               /\ b[t] = NoTurn => new[t] <= new[u]
               /\ b[t] # NoTurn /\ new[u] < new[t] => new[u] <= new[b[t]]
    <2>1. CASE t \in ts /\ u \in ts
      BY <2>1, <1>9, <1>j, <1>r
    <2>2. CASE t \in ts /\ u \notin ts
      <3>1. p[u] \in Live
        BY <2>2, <1>2, <1>9
      <3>2. /\ ch[t[2]] # NoTurn /\ ch[t[2]] \in Turns
            /\ new[u] <= new[ch[t[2]]] /\ new[t] = new[ch[t[2]]] + 1 /\ new[u] < new[t]
        BY <3>1, <2>2, <1>8, <1>9
      <3>3. b[t] = ch[t[2]]
        BY <2>2, <1>7
      <3>4. QED
        BY <3>2, <3>3, <1>r
    <2>3. CASE t \notin ts /\ u \in ts
      <3>1. p[t] \in Live
        BY <2>3, <1>2, <1>9
      <3>2. new[t] < new[u]
        BY <3>1, <2>3, <1>8, <1>9
      <3>3. QED
        BY <3>2, <1>r
    <2>4. CASE t \notin ts /\ u \notin ts
      <3>1. p[t] \in Live /\ p[u] \in Live /\ new[t] = rank[t] /\ new[u] = rank[u] /\ b[t] = a[t]
        BY <2>4, <1>2, <1>6, <1>7, <1>9
      <3>2. a[t] # NoTurn => a[t] \in Turns /\ p[a[t]] \in Live
        BY <3>1, <1>1 DEF Ranked
      <3>3. a[t] # NoTurn => new[a[t]] = rank[a[t]]
        BY <3>2, <1>6, <1>j
      <3>4. QED
        BY <3>1, <3>3, <1>1, <1>9 DEF Ranked
    <2>5. QED
      BY <2>1, <2>2, <2>3, <2>4
  <1>10. ASSUME NEW t \in Turns, q[t] \in Live, b[t] # NoTurn
         PROVE  b[t] \in Turns /\ q[b[t]] \in Live /\ b[t][2] = t[2] /\ new[b[t]] < new[t]
    <2>1. CASE t \in ts
      <3>1. b[t] = ch[t[2]] /\ t[2] \in Coworkers
        BY <2>1, <1>4, <1>7
      <3>2. ch[t[2]] \in Turns /\ p[ch[t[2]]] \in Live /\ ch[t[2]][2] = t[2] /\ ch[t[2]] \notin ts
        BY <3>1, <1>10, <1>d
      <3>3. new[t] = rank[ch[t[2]]] + 1 /\ new[ch[t[2]]] = rank[ch[t[2]]]
        BY <2>1, <3>1, <3>2, <1>6, <1>10
      <3>4. QED
        BY <3>1, <3>2, <3>3, <1>2, <1>r
    <2>2. CASE t \notin ts
      <3>1. b[t] = a[t] /\ p[t] \in Live /\ new[t] = rank[t]
        BY <2>2, <1>2, <1>6, <1>7, <1>10
      <3>2. a[t] \in Turns /\ p[a[t]] \in Live /\ a[t][2] = t[2] /\ rank[a[t]] < rank[t]
        BY <3>1, <1>1, <1>10 DEF Ranked
      <3>3. QED
        BY <3>1, <3>2, <1>2, <1>6, <1>j
    <2>3. QED
      BY <2>1, <2>2
  <1>11. ASSUME NEW c \in Coworkers, dh[c] = NoTurn
         PROVE  \A t \in Turns : q[t] \in Live => t[2] # c
    <2>1. (\A t \in ts : t[2] # c) /\ ch[c] = NoTurn
      <3>1. \A t \in ts : t # NoTurn
        BY <1>j, TurnParts
      <3>2. QED
        BY <3>1, <1>11, <1>j
    <2>2. QED
      BY <2>1, <1>c, <1>2
  <1>12. ASSUME NEW c \in Coworkers, dh[c] # NoTurn
         PROVE  /\ dh[c] \in Turns /\ q[dh[c]] \in Live /\ dh[c][2] = c
                /\ \A u \in Turns : q[u] \in Live /\ u[2] = c => new[u] <= new[dh[c]]
    <2>1. CASE dh[c] \in ts /\ dh[c][2] = c
      <3>1. ASSUME NEW u \in Turns, q[u] \in Live, u[2] = c
            PROVE  new[u] <= new[dh[c]]
        <4>1. CASE u \in ts
          BY <4>1, <3>1, <2>1, <1>j, <1>r
        <4>2. CASE u \notin ts
          <5>1. new[u] < new[dh[c]]
            BY <4>2, <3>1, <2>1, <1>8, <1>2
          <5>2. QED
            BY <5>1, <2>1, <1>j, <1>r
        <4>3. QED
          BY <4>1, <4>2
      <3>2. QED
        BY <2>1, <3>1, <1>2, <1>j
    <2>2. CASE (\A t \in ts : t[2] # c) /\ dh[c] = ch[c]
      <3>1. /\ ch[c] \in Turns /\ p[ch[c]] \in Live /\ ch[c][2] = c /\ ch[c] \notin ts
            /\ \A u \in Turns : p[u] \in Live /\ u[2] = c => rank[u] <= rank[ch[c]]
        BY <2>2, <1>12, <1>d
      <3>2. \A u \in Turns : q[u] \in Live /\ u[2] = c => p[u] \in Live /\ u \notin ts
        BY <2>2, <1>2
      <3>3. QED
        BY <2>2, <3>1, <3>2, <1>2, <1>6
    <2>3. QED
      BY <2>1, <2>2, <1>j
  <1>13. Ranked(q, b, dh, new)
    BY <1>9, <1>10, <1>11, <1>12 DEF Ranked
  <1>14. QED
    BY <1>5, <1>13 DEF InOrder

-----------------------------------------------------------------------------
(* What messages and turns write *)

LEMMA RecipientFacts ==
    ASSUME NEW sender, NEW mention \in Coworkers \cup {"everyone", Nobody}
    PROVE  /\ Recipients(sender, mention) \subseteq Coworkers
           /\ mention \in Coworkers => Recipients(sender, mention) = {mention}
           /\ mention = Nobody => \E c \in Coworkers : Recipients(sender, mention) = {c}
           /\ mention = Nobody /\ sender = "user" =>
                Recipients(sender, mention) = {IF CurrentOwner \in Coworkers THEN CurrentOwner ELSE Roster[1]}
  <1>1. Roster[1] \in Coworkers /\ Roster[2] \in Coworkers
    BY RosterFacts
  <1>2. "user" \notin Coworkers /\ "everyone" \notin Coworkers /\ Nobody \notin Coworkers /\ Nobody # "everyone"
    BY RosterFacts
  <1>3. CASE mention \in Coworkers
    BY <1>2, <1>3 DEF Recipients
  <1>4. CASE mention = "everyone"
    BY <1>2, <1>4 DEF Recipients
  <1>5. CASE mention = Nobody
    <2>1. Recipients(sender, mention) = IF CurrentOwner \in Coworkers \ {sender} THEN {CurrentOwner}
                                        ELSE {IF sender = Roster[1] THEN Roster[2] ELSE Roster[1]}
      BY <1>2, <1>5 DEF Recipients
    <2>2. QED
      BY <2>1, <1>1, <1>2, <1>5
  <1>6. QED
    BY <1>3, <1>4, <1>5

\* What a new message does to the conversation; rs are its recipients.
Posted(sender, mention, source, d, rs) ==
    LET n == Len(messages) + 1 IN
    /\ n \in 1..MaxMessages /\ Len(messages') = n /\ messages' \in Seq(Message)
    /\ \A i \in 1..Len(messages) : messages'[i] = messages[i]
    /\ messages'[n].from = sender /\ messages'[n].mention = mention /\ messages'[n].replyTo = source
    /\ delivery' \in [Turns -> Marks]
    /\ \A t \in Turns : t[1] # n => delivery'[t] = d[t]
    /\ \A t \in Turns : t[1] = n => delivery'[t] = IF t[2] \in rs THEN "pending" ELSE d[t]

LEMMA PostFacts ==
    ASSUME ChannelTypeOK, NEW sender \in Coworkers \cup {"user"}, NEW mention \in Coworkers \cup {"everyone", Nobody},
           NEW source \in Nat, NEW d \in [Turns -> Marks], Post(sender, mention, source, d)
    PROVE  Posted(sender, mention, source, d, Recipients(sender, mention))
  <1> DEFINE n == Len(messages) + 1
             m == [from |-> sender, mention |-> mention, replyTo |-> source]
             rs == Recipients(sender, mention)
  <1>1. messages \in Seq(Message) /\ Len(messages) \in Nat /\ MaxMessages \in Nat
    BY TurnParts DEF ChannelTypeOK
  <1>2. m \in Message
    BY DEF Message
  <1>3. Len(messages) < MaxMessages /\ messages' = Append(messages, m)
    BY DEF Post
  <1>4. delivery' = [t \in Turns |-> IF t \in {n} \X rs THEN "pending" ELSE d[t]]
    BY DEF Post
  <1>5. \A t \in Turns : t \in {n} \X rs <=> t[1] = n /\ t[2] \in rs
    BY TurnParts
  <1> HIDE DEF rs
  <1>6. /\ n \in 1..MaxMessages /\ Len(messages') = n /\ messages' \in Seq(Message)
        /\ \A i \in 1..Len(messages) : messages'[i] = messages[i]
        /\ messages'[n] = m
    <2> HIDE DEF m
    <2>1. QED
      BY <1>1, <1>2, <1>3
  <1>7. delivery' \in [Turns -> Marks]
    BY <1>4 DEF Marks
  <1>8. \A t \in Turns : delivery'[t] = IF t[1] = n /\ t[2] \in rs THEN "pending" ELSE d[t]
    BY <1>4, <1>5
  <1>9. QED
    BY <1>6, <1>7, <1>8 DEF Posted, rs

LEMMA OverType ==
    ASSUME ChannelTypeOK, NEW t \in Turns, Over(t)
    PROVE  /\ pc' \in [Turns -> TurnStates] /\ after' \in [Turns -> Turns \cup {NoTurn}]
           /\ chain' \in [Coworkers -> Turns \cup {NoTurn}] /\ active' \in [Coworkers -> Turns \cup {NoTurn}]
  <1>1. t[2] \in Coworkers
    BY TurnParts
  <1>2. QED
    BY <1>1 DEF ChannelTypeOK, Over, TurnStates

LEMMA EndsType ==
    ASSUME ChannelTypeOK, NEW t \in Turns, NEW s \in Marks, Ends(t, s)
    PROVE  /\ pc' \in [Turns -> TurnStates] /\ after' \in [Turns -> Turns \cup {NoTurn}]
           /\ chain' \in [Coworkers -> Turns \cup {NoTurn}] /\ active' \in [Coworkers -> Turns \cup {NoTurn}]
           /\ delivery' \in [Turns -> Marks]
  BY OverType DEF Ends, Marked, ChannelTypeOK

\* The turns of a message for some coworkers.
LEMMA TurnsOf ==
    ASSUME NEW n \in 1..MaxMessages, NEW rs \in SUBSET Coworkers
    PROVE  /\ {n} \X rs \subseteq Turns
           /\ \A t \in {n} \X rs : t[1] = n /\ t[2] \in rs
           /\ \A t \in Turns : t[1] = n /\ t[2] \in rs => t \in {n} \X rs
           /\ \A t, u \in {n} \X rs : t[2] = u[2] => t = u
  BY TurnParts DEF Turns

LEMMA BehindFacts ==
    ASSUME ChannelTypeOK, NEW ts \in SUBSET Turns, ChainBehind(ts)
    PROVE  /\ pc' \in [Turns -> TurnStates] /\ after' \in [Turns -> Turns \cup {NoTurn}]
           /\ chain' \in [Coworkers -> Turns \cup {NoTurn}]
           /\ \A c \in Coworkers : \/ chain'[c] \in ts /\ chain'[c][2] = c
                                   \/ (\A t \in ts : t[2] # c) /\ chain'[c] = chain[c]
  <1>1. \A t \in Turns : t[2] \in Coworkers
    BY TurnParts
  <1>2. pc' \in [Turns -> TurnStates]
    BY DEF ChannelTypeOK, ChainBehind, TurnStates, Live
  <1>3. after' \in [Turns -> Turns \cup {NoTurn}]
    BY <1>1 DEF ChannelTypeOK, ChainBehind
  <1>4. ASSUME NEW c \in Coworkers
        PROVE  /\ \/ chain'[c] \in ts /\ chain'[c][2] = c
                  \/ (\A t \in ts : t[2] # c) /\ chain'[c] = chain[c]
               /\ chain'[c] \in Turns \cup {NoTurn}
    BY DEF ChannelTypeOK, ChainBehind
  <1>5. chain' \in [Coworkers -> Turns \cup {NoTurn}]
    BY <1>4 DEF ChainBehind
  <1>6. QED
    BY <1>2, <1>3, <1>4, <1>5

LEMMA FlowOnMessageType ==
    ASSUME ChannelTypeOK, NEW mention \in Coworkers \cup {"everyone", Nobody}
    PROVE  /\ FlowOnMessage(mention) \in FlowState /\ FlowOnMessage(mention).source = 0
           /\ FlowOnMessage(mention).owner # 0
           /\ mention \in Coworkers => Order[FlowOnMessage(mention).owner] = mention
           /\ mention \notin Coworkers =>
                FlowOnMessage(mention).owner = IF flow.owner = 0 THEN 1 ELSE flow.owner
  <1>1. flow.owner \in 0..Len(Order) /\ 1 \in 1..Len(Order) /\ Len(Order) \in Nat
    BY OrderFacts, RosterFacts DEF ChannelTypeOK, FlowState
  <1>2. CASE mention \in Coworkers
    <2> DEFINE place == SelectInSeq(Order, LAMBDA c : c = mention)
    <2>1. place \in 1..Len(Order) /\ Order[place] = mention
      BY <1>2, PlaceFacts
    <2>2. FlowOnMessage(mention) = [owner |-> place, source |-> 0, target |-> Nobody]
      BY <1>2 DEF FlowOnMessage
    <2> HIDE DEF place
    <2>3. QED
      BY <1>1, <2>1, <2>2, <1>2 DEF FlowState
  <1>3. CASE mention \notin Coworkers
    <2>1. FlowOnMessage(mention) = [owner |-> IF flow.owner = 0 THEN 1 ELSE flow.owner, source |-> 0, target |-> Nobody]
      BY <1>3 DEF FlowOnMessage
    <2>2. QED
      BY <1>1, <1>3, <2>1 DEF FlowState
  <1>4. QED
    BY <1>2, <1>3

\* A reply: with the flow's next owner, and failed, or with a message for target, which is to be handed over or not.
Replied(t, target) ==
    /\ target \in Coworkers \cup {Nobody}
    /\ flow' \in FlowState /\ flow'.source \in {flow.source, t[1]}
    /\ Repeated(t) \/ ~Owns(t) => flow'.owner = flow.owner
    /\ ~Repeated(t) /\ Owns(t) => flow'.owner = 0 \/ (target \in Coworkers /\ Order[flow'.owner] = target)
    /\ \/ Ends(t, "failed") /\ messages' = messages
       \/ /\ target # t[2]
          /\ Posted(t[2], target, t[1], Marked(t, "delivered"), Recipients(t[2], target))
          /\ \/ target = Nobody /\ Over(t)
             \/ target # Nobody /\ pc' = [pc EXCEPT ![t] = "handoff"] /\ UNCHANGED chains

LEMMA TargetFacts ==
    ASSUME ChannelTypeOK, NEW t \in Turns, NEW asked \in Requests(t)
    PROVE  LET target == Target(t, asked)
               owner == NextOwner(t, target)
           IN /\ target \in Coworkers \cup {Nobody} /\ owner \in 0..Len(Order)
              /\ Repeated(t) \/ ~Owns(t) => owner = flow.owner
              /\ ~Repeated(t) /\ Owns(t) => owner = 0 \/ (target \in Coworkers /\ Order[owner] = target)
  <1> DEFINE target == Target(t, asked)
             owner == NextOwner(t, target)
  <1>1. asked \in Coworkers \cup {Nobody}
    BY DEF Requests
  <1>2. flow.owner \in 0..Len(Order) /\ flow.target \in Coworkers \cup {Nobody} /\ Len(Order) \in Nat
    BY OrderFacts, RosterFacts DEF ChannelTypeOK, FlowState
  <1>3. CASE Repeated(t)
    <2>1. target = flow.target
      BY <1>3 DEF Target
    <2> HIDE DEF target
    <2>2. owner = flow.owner
      BY <1>3 DEF NextOwner
    <2>3. QED
      BY <2>1, <2>2, <1>2, <1>3 DEF target
  <1>4. CASE ~Repeated(t) /\ ~Owns(t)
    <2>1. target = Nobody
      BY <1>4 DEF Target
    <2> HIDE DEF target
    <2>2. owner = flow.owner
      BY <1>4 DEF NextOwner
    <2>3. QED
      BY <2>1, <2>2, <1>2, <1>4 DEF target
  <1>5. CASE ~Repeated(t) /\ Owns(t) /\ flow.owner = Len(Order)
    <2>1. target = Nobody
      BY <1>2, <1>5 DEF Target
    <2> HIDE DEF target
    <2>2. owner = 0
      BY <1>5 DEF NextOwner
    <2>3. QED
      BY <2>1, <2>2, <1>2, <1>5 DEF target
  <1>6. CASE ~Repeated(t) /\ Owns(t) /\ flow.owner # Len(Order)
    <2>1. flow.owner \in 1..Len(Order) /\ flow.owner < Len(Order) /\ flow.owner + 1 \in 1..Len(Order)
      BY <1>2, <1>6 DEF Owns
    <2>2. target = IF asked = Nobody THEN Order[flow.owner + 1] ELSE asked
      BY <2>1, <1>6 DEF Target
    <2>3. target \in Coworkers
      BY <2>1, <2>2, <1>1, OrderFacts
    <2> HIDE DEF target
    <2> DEFINE place == SelectInSeq(Order, LAMBDA c : c = target)
    <2>4. place \in 1..Len(Order) /\ Order[place] = target
      BY <2>3, PlaceFacts
    <2>5. owner = IF target = Order[flow.owner + 1] THEN flow.owner + 1 ELSE place
      BY <1>6 DEF NextOwner
    <2> HIDE DEF place
    <2>6. owner \in 1..Len(Order) /\ Order[owner] = target
      BY <2>1, <2>4, <2>5
    <2>7. QED
      BY <2>3, <2>6, <1>2, <1>6 DEF target
  <1>7. QED
    BY <1>3, <1>4, <1>5, <1>6

LEMMA ReplyFacts ==
    ASSUME ChannelTypeOK, NEW t \in Turns, Reply(t)
    PROVE  \E target : Replied(t, target)
  <1>1. PICK asked \in Requests(t) :
        LET target == Target(t, asked)
            refused == target # Nobody /\ ~Repeated(t) /\ target \in away
        IN /\ flow' = [owner |-> NextOwner(t, target),
                       source |-> IF refused THEN flow.source ELSE t[1],
                       target |-> IF refused THEN flow.target ELSE target]
           /\ IF refused \/ target = t[2]
              THEN Ends(t, "failed") /\ UNCHANGED messages
              ELSE /\ Post(t[2], target, t[1], Marked(t, "delivered"))
                   /\ IF target = Nobody THEN Over(t)
                      ELSE pc' = [pc EXCEPT ![t] = "handoff"] /\ UNCHANGED chains
    BY DEF Reply
  <1> DEFINE target == Target(t, asked)
             owner == NextOwner(t, target)
             refused == target # Nobody /\ ~Repeated(t) /\ target \in away
  <1>2. /\ target \in Coworkers \cup {Nobody} /\ owner \in 0..Len(Order)
        /\ Repeated(t) \/ ~Owns(t) => owner = flow.owner
        /\ ~Repeated(t) /\ Owns(t) => owner = 0 \/ (target \in Coworkers /\ Order[owner] = target)
    BY TargetFacts
  <1>3. /\ flow' = [owner |-> owner, source |-> IF refused THEN flow.source ELSE t[1],
                    target |-> IF refused THEN flow.target ELSE target]
        /\ \/ Ends(t, "failed") /\ messages' = messages
           \/ /\ target # t[2]
              /\ Post(t[2], target, t[1], Marked(t, "delivered"))
              /\ \/ target = Nobody /\ Over(t)
                 \/ target # Nobody /\ pc' = [pc EXCEPT ![t] = "handoff"] /\ UNCHANGED chains
    BY <1>1
  <1> HIDE DEF target, owner, refused
  <1>4. t[1] \in Nat /\ t[2] \in Coworkers
    BY TurnParts
  <1>5. flow.source \in Nat /\ flow.target \in Coworkers \cup {Nobody}
    BY DEF ChannelTypeOK, FlowState
  <1>6. flow' \in FlowState /\ flow'.owner = owner /\ flow'.source \in {flow.source, t[1]}
    BY <1>2, <1>3, <1>4, <1>5 DEF FlowState
  <1>7. Marked(t, "delivered") \in [Turns -> Marks]
    BY DEF ChannelTypeOK, Marked, Marks
  <1>8. Post(t[2], target, t[1], Marked(t, "delivered"))
            => Posted(t[2], target, t[1], Marked(t, "delivered"), Recipients(t[2], target))
    BY <1>2, <1>4, <1>7, PostFacts
  <1>9. Replied(t, target)
    BY <1>2, <1>3, <1>6, <1>8 DEF Replied
  <1>10. QED
    BY <1>9

-----------------------------------------------------------------------------
(* What is true of messages, their turns and the flow *)

\* Turns that have answered, or gave up after that.
Answered == {"handoff", "over", "lost"}
Parent(i) == <<messages[i].replyTo, messages[i].from>>

\* There are no turns of messages to come.
NotYet == \A t \in Turns : t[1] > Len(messages) => pc[t] = "idle" /\ delivery[t] = "none"

\* A coworker's message answers another, in a turn that has come that far; while that turn is to hand the message over,
\* no turn of the message has begun.
AnswerKnown(i) ==
    /\ messages[i].replyTo \in 1..Len(messages)
    /\ messages[i].mention \in (Coworkers \ {messages[i].from}) \cup {Nobody}
    /\ pc[Parent(i)] \in Answered
    /\ pc[Parent(i)] = "handoff" => messages[i].mention # Nobody /\ \A c \in Coworkers : pc[<<i, c>>] = "idle"
AnswersKnown == \A i \in 1..Len(messages) : messages[i].from # "user" => AnswerKnown(i)

\* A turn answers once.
OneAnswer ==
    \A i, j \in 1..Len(messages) :
        /\ messages[i].from # "user" /\ messages[j].from = messages[i].from
        /\ messages[j].replyTo = messages[i].replyTo
        => i = j

\* A turn that is to hand over has answered, and said so in its delivery.
HandsOver ==
    \A t \in Turns : pc[t] = "handoff" =>
        /\ delivery[t] # "pending"
        /\ \E i \in 1..Len(messages) : messages[i].from = t[2] /\ messages[i].replyTo = t[1]

\* Turns are of deliveries, and a message to one coworker has one delivery.
DeliveryKnown(t) ==
    /\ pc[t] # "idle" => delivery[t] # "none"
    /\ pc[t] = "queued" => delivery[t] \in {"pending", "failed"}
    /\ delivery[t] # "none" /\ messages[t[1]].mention # "everyone" =>
        \A u \in Present : u[1] = t[1] /\ delivery[u] # "none" => u[2] = t[2]
    /\ delivery[t] # "none" /\ messages[t[1]].mention \in Coworkers => t[2] = messages[t[1]].mention
DeliveriesKnown == \A t \in Present : DeliveryKnown(t)

\* A blocked conversation stays so, over restarts too.
BlockStays == (blocked => outcome.status \in Taken) /\ (outcome.status \in Taken => outcome.root # 0)

\* The message of the last hand-off is dealt with.
SourceKnown ==
    flow.source # 0 =>
        flow.source \in 1..Len(messages) /\ \E c \in Coworkers : pc[<<flow.source, c>>] \in Answered

\* Turns that may still answer.
Answering == {"queued", "bind", "loop", "reply"}

\* Nothing has gone wrong for good so far, and nobody has addressed everyone: a turn that a stop has marked failed may
\* still answer.
Undisturbed ==
    /\ ~blocked
    /\ \A t \in Present : pc[t] # "lost" /\ (delivery[t] = "failed" => pc[t] \in Answering)
    /\ \A i \in 1..Len(messages) : messages[i].mention # "everyone"

\* A turn that will answer, or will be begun by one that has.
Carries(t) ==
    \/ pc[t] \in Answering
    \/ pc[t] = "idle" /\ delivery[t] = "pending" /\ messages[t[1]].from # "user" /\ pc[Parent(t[1])] = "handoff"

\* While nothing goes wrong the flow's owner has such a turn.
OwnerCarries ==
    Undisturbed /\ flow.owner # 0 => \E t \in Present : t[2] = Order[flow.owner] /\ Carries(t)

\* A turn at work is at the head of its coworker's chain.
WorkAtHead == \A t \in Turns : pc[t] \in Working => after[t] = NoTurn

\* StopReachesTurn, for all turns.
ActiveKnown == \A t \in Turns : pc[t] \in {"loop", "reply", "handoff"} => active[t[2]] = t

ChainInv == InOrder(pc, after, chain) /\ WorkAtHead /\ ActiveKnown
TalkInv ==
    /\ NotYet /\ AnswersKnown /\ OneAnswer /\ HandsOver /\ DeliveriesKnown /\ BlockStays
    /\ SourceKnown /\ OwnerCarries /\ AddressedIsScheduled

ChannelInv == ChannelTypeOK /\ ChainInv /\ TalkInv

LEMMA ReplyOfFacts ==
    ASSUME ChannelTypeOK, OneAnswer, NEW t \in Turns,
           NEW i \in 1..Len(messages), messages[i].from = t[2], messages[i].replyTo = t[1]
    PROVE  ReplyOf(t) = i
  <1> DEFINE I == {j \in 1..Len(messages) : messages[j].replyTo = t[1] /\ messages[j].from = t[2]}
  <1>1. t[2] # "user"
    BY TurnParts, RosterFacts
  <1>2. I = {i}
    BY <1>1 DEF OneAnswer
  <1>3. ReplyOf(t) = IF I # {} THEN Min(I) ELSE 0
    BY DEF ReplyOf, SelectInSeq
  <1> HIDE DEF I
  <1>4. Min(I) \in I
    <2>1. i \in Nat
      BY PresentTurns
    <2>2. i \in I /\ \A j \in I : i <= j
      BY <1>2, <2>1
    <2>3. QED
      BY <2>2, LeastFacts
  <1>5. QED
    BY <1>2, <1>3, <1>4

\* The turn that a turn hands over to.
LEMMA HandoffFacts ==
    ASSUME ChannelInv, NEW t \in Turns, pc[t] = "handoff"
    PROVE  LET i == ReplyOf(t)
               u == <<i, messages[i].mention>>
           IN /\ i \in 1..Len(messages) /\ messages[i].from = t[2] /\ messages[i].replyTo = t[1] /\ Parent(i) = t
              /\ messages[i].mention \in Coworkers /\ messages[i].mention # t[2]
              /\ u \in Present /\ u \in Turns /\ u # t /\ u[1] = i /\ u[2] = messages[i].mention
              /\ \A c \in Coworkers : pc[<<i, c>>] = "idle"
  <1>1. PICK i \in 1..Len(messages) : messages[i].from = t[2] /\ messages[i].replyTo = t[1]
    BY DEF ChannelInv, TalkInv, HandsOver
  <1>2. ReplyOf(t) = i
    BY <1>1, ReplyOfFacts DEF ChannelInv, TalkInv
  <1>3. t = <<t[1], t[2]>> /\ t[2] \in Coworkers /\ t[2] # "user"
    BY TurnParts, RosterFacts
  <1>4. Parent(i) = t
    BY <1>1, <1>3 DEF Parent
  <1>5. AnswerKnown(i)
    BY <1>1, <1>3 DEF ChannelInv, TalkInv, AnswersKnown
  <1>6. messages[i].mention \in Coworkers /\ messages[i].mention # t[2] /\ \A c \in Coworkers : pc[<<i, c>>] = "idle"
    BY <1>1, <1>4, <1>5 DEF AnswerKnown
  <1>7. <<i, messages[i].mention>> \in Present /\ Present \subseteq Turns
    BY <1>6, PresentTurns DEF ChannelInv
  <1>8. QED
    BY <1>1, <1>2, <1>4, <1>6, <1>7

-----------------------------------------------------------------------------
(* The kinds of steps, as the invariant sees them *)

Stopped == [t \in Turns |-> IF delivery[t] = "pending" THEN "failed" ELSE delivery[t]]

\* A message of the user: alone, as an outcome, or with a stop's marks.
UserKind ==
    /\ \E mention \in UserMentions, d \in {delivery, Stopped} : UserPosts(mention, d)
    /\ active' = active /\ blocked' = blocked

\* A stop's marks.
StopKind == delivery' = Stopped /\ UNCHANGED <<messages, flow, pc, after, chain, active, blocked>>

\* Commands, harnesses, and everything else.
OtherKind == UNCHANGED <<messages, delivery, flow, pc, after, chain, active>> /\ (blocked => blocked')

\* A turn goes on.
MoveKind(t, s) ==
    /\ pc' = [pc EXCEPT ![t] = s]
    /\ \/ pc[t] = "queued" /\ after[t] = NoTurn /\ s = "bind" /\ active' = active
       \/ pc[t] = "bind" /\ s = "loop" /\ active' = [active EXCEPT ![t[2]] = t]
       \/ pc[t] = "loop" /\ s = "reply" /\ active' = active
    /\ UNCHANGED <<messages, delivery, flow, after, chain, blocked>>

\* A turn ends without an answer, or without handing over.
EndKind(t, s) ==
    /\ \/ pc[t] = "queued" /\ after[t] = NoTurn
       \/ pc[t] \in {"bind", "loop", "handoff"}
    /\ Ends(t, s)
    /\ \/ s = "failed"
       \/ s = delivery[t] /\ pc[t] # "handoff" /\ (blocked \/ (pc[t] = "queued" /\ delivery[t] # "pending"))
    /\ UNCHANGED <<messages, flow, blocked>>

ReplyKind(t) == pc[t] = "reply" /\ Reply(t) /\ blocked' = blocked
HandoffKind(t) == Handoff(t) /\ blocked' = blocked

RestartKind ==
    /\ pc' = [t \in Turns |-> IF pc[t] \in Live THEN "lost" ELSE pc[t]]
    /\ after' = [t \in Turns |-> NoTurn]
    /\ chain' = [c \in Coworkers |-> NoTurn] /\ active' = [c \in Coworkers |-> NoTurn]
    /\ UNCHANGED <<messages, delivery, flow>>

Kinds ==
    \/ UserKind \/ StopKind \/ OtherKind
    \/ \E t \in Turns : \/ \E s \in {"bind", "loop", "reply"} : MoveKind(t, s)
                        \/ \E s \in Marks : EndKind(t, s)
                        \/ ReplyKind(t) \/ HandoffKind(t)
    \/ RestartKind

LEMMA BlockNext ==
    ASSUME ChannelTypeOK, BlockStays, [ChannelNext]_channelVars
    PROVE  BlockStays' /\ (blocked => blocked') /\ outcome' \in OutcomeState
  <1>0. outcome \in OutcomeState
    BY DEF ChannelTypeOK
  <1>a. ASSUME outcome' = outcome, blocked' = blocked
        PROVE  BlockStays' /\ (blocked => blocked') /\ outcome' \in OutcomeState
    BY <1>0, <1>a DEF BlockStays
  <1>1. CASE StopEnds
    BY <1>1, <1>a DEF StopEnds
  <1>2. CASE \E t \in Present : pc[t] \in Live /\ TurnStep(t)
    <2>1. PICK t \in Present : TurnStep(t)
      BY <1>2
    <2>2. outcome' = outcome /\ blocked' = blocked
      BY <2>1 DEF TurnStep, operator, Refuse, Delegate, Bind, BindEnds, Take, HarnessReturns, ReadResult, ReadFails,
          Reply, Handoff, HandoffFails
    <2>3. QED
      BY <2>2, <1>a
  <1>3. CASE PostUserMessage \/ StopConversation
    BY <1>3, <1>a DEF PostUserMessage, StopConversation
  <1>4. CASE SetAside \/ Resume
    <2>1. outcome' = outcome /\ blocked' = blocked
      BY <1>4 DEF SetAside, Resume, operator
    <2>2. QED
      BY <2>1, <1>a
  <1>5. CASE SubmitOutcome
    <2>1. Len(messages) + 1 \in Nat
      BY PresentTurns
    <2>2. outcome' = [root |-> Len(messages) + 1, status |-> "working"] /\ blocked' = blocked /\ ~blocked
      BY <1>5 DEF SubmitOutcome
    <2>3. QED
      BY <2>1, <2>2 DEF BlockStays, OutcomeState
  <1>6. CASE CancelOutcome
    <2>1. outcome' = [outcome EXCEPT !.status = "cancelled"] /\ outcome.root # 0 /\ blocked' = TRUE
      BY <1>6 DEF CancelOutcome
    <2>2. QED
      BY <2>1, <1>0 DEF BlockStays, OutcomeState, Taken
  <1>7. CASE RequestTakeover
    <2>1. outcome' = [outcome EXCEPT !.status = "needs_attention"] /\ outcome.root # 0 /\ blocked' = TRUE
      BY <1>7 DEF RequestTakeover
    <2>2. QED
      BY <2>1, <1>0 DEF BlockStays, OutcomeState, Taken
  <1>8. CASE ProcessRestarts
    <2>1. outcome' = outcome /\ blocked' = (outcome.status \in Taken)
      BY <1>8 DEF ProcessRestarts
    <2>2. outcome.status \in Taken => outcome.root # 0
      BY DEF BlockStays
    <2>3. QED
      BY <2>1, <2>2, <1>0 DEF BlockStays
  <1>9. CASE UNCHANGED channelVars
    BY <1>9, <1>a DEF channelVars
  <1>10. QED
    BY <1>1, <1>2, <1>3, <1>4, <1>5, <1>6, <1>7, <1>8, <1>9 DEF ChannelNext, SystemStep

LEMMA TurnKinds ==
    ASSUME ChannelTypeOK, NEW t \in Turns, pc[t] \in Live, TurnStep(t)
    PROVE  Kinds /\ away' = away /\ blocked' \in BOOLEAN
  <1>0. delivery[t] \in Marks /\ "failed" \in Marks
    BY DEF ChannelTypeOK, Marks
  <1>b. blocked \in BOOLEAN
    BY DEF ChannelTypeOK
  <1>1. CASE Refuse(t)
    <2>1. \E s \in {"failed", delivery[t]} : EndKind(t, s)
      BY <1>1 DEF Refuse, EndKind, IsTurn, team, operator
    <2>2. QED
      BY <2>1, <1>0, <1>1, <1>b DEF Refuse, Kinds, operator
  <1>2. CASE Delegate(t)
    <2>1. MoveKind(t, "bind")
      BY <1>2 DEF Delegate, MoveKind, IsTurn, team, chains, operator
    <2>2. QED
      BY <2>1, <1>2, <1>b DEF Delegate, Kinds, operator
  <1>3. CASE Bind(t)
    <2>1. MoveKind(t, "loop")
      BY <1>3 DEF Bind, MoveKind, team, operator
    <2>2. QED
      BY <2>1, <1>3, <1>b DEF Bind, Kinds, operator
  <1>4. CASE BindEnds(t)
    <2>1. \E s \in {"failed", delivery[t]} : EndKind(t, s)
      BY <1>4 DEF BindEnds, EndKind, team, operator
    <2>2. QED
      BY <2>1, <1>0, <1>4, <1>b DEF BindEnds, Kinds, operator
  <1>5. CASE Take(t) \/ HarnessReturns(t)
    <2>1. OtherKind
      BY <1>5 DEF Take, HarnessReturns, OtherKind, team, chains, operator
    <2>2. QED
      BY <2>1, <1>5, <1>b DEF Take, HarnessReturns, Kinds, operator
  <1>6. CASE ReadResult(t)
    <2>1. MoveKind(t, "reply")
      BY <1>6 DEF ReadResult, LoopIsIdle, MoveKind, team, chains, operator
    <2>2. QED
      BY <2>1, <1>6, <1>b DEF ReadResult, Kinds, operator
  <1>7. CASE ReadFails(t)
    <2>1. EndKind(t, "failed")
      BY <1>7 DEF ReadFails, LoopIsIdle, EndKind, team, operator
    <2>2. QED
      BY <2>1, <1>0, <1>7, <1>b DEF ReadFails, Kinds, operator
  <1>8. CASE Reply(t)
    BY <1>8, <1>b DEF Reply, ReplyKind, Kinds, operator
  <1>9. CASE Handoff(t)
    BY <1>9, <1>b DEF Handoff, HandoffKind, Kinds, operator
  <1>10. CASE HandoffFails(t)
    <2>1. EndKind(t, "failed")
      BY <1>10 DEF HandoffFails, EndKind, team, operator
    <2>2. QED
      BY <2>1, <1>0, <1>10, <1>b DEF HandoffFails, Kinds, operator
  <1>11. QED
    BY <1>1, <1>2, <1>3, <1>4, <1>5, <1>6, <1>7, <1>8, <1>9, <1>10 DEF TurnStep

LEMMA StepKinds ==
    ASSUME ChannelTypeOK, [ChannelNext]_channelVars
    PROVE  Kinds /\ away' \subseteq Coworkers /\ blocked' \in BOOLEAN
  <1>0. away \subseteq Coworkers /\ blocked \in BOOLEAN
    BY DEF ChannelTypeOK
  <1>1. CASE StopEnds
    <2>0. \/ \E mention \in UserMentions : UserPosts(mention, Stopped)
          \/ delivery' = Stopped /\ UNCHANGED <<team, pc, after, chain, posts>>
      BY <1>1 DEF StopEnds, Stopped
    <2>r. UNCHANGED <<active, away, blocked>>
      BY <1>1 DEF StopEnds
    <2>1. UserKind \/ StopKind
      BY <2>0, <2>r DEF UserKind, StopKind, team
    <2>2. QED
      BY <2>1, <2>r, <1>0 DEF Kinds
  <1>2. CASE \E t \in Present : pc[t] \in Live /\ TurnStep(t)
    <2>1. PICK t \in Present : pc[t] \in Live /\ TurnStep(t)
      BY <1>2
    <2>2. t \in Turns
      BY <2>1, PresentTurns
    <2>3. QED
      BY <2>1, <2>2, <1>0, TurnKinds
  <1>3. CASE PostUserMessage
    <2>1. \E mention \in UserMentions : UserPosts(mention, delivery)
      BY <1>3 DEF PostUserMessage
    <2>2. UNCHANGED <<active, away, blocked>>
      BY <1>3 DEF PostUserMessage
    <2>3. UserKind
      BY <2>1, <2>2 DEF UserKind
    <2>4. QED
      BY <2>2, <2>3, <1>0 DEF Kinds
  <1>4. CASE SubmitOutcome
    <2>1. \E mention \in UserMentions : UserPosts(mention, delivery)
      BY <1>4 DEF SubmitOutcome
    <2>2. UNCHANGED <<active, away, blocked>>
      BY <1>4 DEF SubmitOutcome
    <2>3. UserKind
      BY <2>1, <2>2 DEF UserKind
    <2>4. QED
      BY <2>2, <2>3, <1>0 DEF Kinds
  <1>5. CASE StopConversation
    BY <1>0, <1>5 DEF StopConversation, OtherKind, Kinds, team, chains
  <1>6. CASE CancelOutcome
    BY <1>0, <1>6 DEF CancelOutcome, OtherKind, Kinds, team, chains
  <1>7. CASE RequestTakeover
    BY <1>0, <1>7 DEF RequestTakeover, OtherKind, Kinds, team, chains
  <1>8. CASE SetAside
    BY <1>0, <1>8 DEF SetAside, OtherKind, Kinds, team, chains, operator
  <1>9. CASE Resume
    BY <1>0, <1>9 DEF Resume, OtherKind, Kinds, team, chains, operator
  <1>10. CASE ProcessRestarts
    <2>1. RestartKind
      BY <1>10 DEF ProcessRestarts, RestartKind, team
    <2>2. QED
      BY <2>1, <1>0, <1>10 DEF ProcessRestarts, Kinds
  <1>11. CASE UNCHANGED channelVars
    BY <1>0, <1>11 DEF channelVars, OtherKind, Kinds
  <1>12. QED
    BY <1>1, <1>2, <1>3, <1>4, <1>5, <1>6, <1>7, <1>8, <1>9, <1>10, <1>11 DEF ChannelNext, SystemStep

-----------------------------------------------------------------------------
(* What the steps with new turns do *)

\* A message of the user, its turns ts scheduled unless the conversation is blocked.
UserPosted(mention, d) ==
    LET ts == {Len(messages) + 1} \X Recipients("user", mention) IN
    /\ Posted("user", mention, 0, d, Recipients("user", mention))
    /\ ts \subseteq Turns
    /\ blocked => UNCHANGED <<flow, pc, after, chain>>
    /\ ~blocked => flow' = FlowOnMessage(mention) /\ ChainBehind(ts)

LEMMA StoppedType ==
    ASSUME ChannelTypeOK
    PROVE  Stopped \in [Turns -> Marks]
  BY DEF ChannelTypeOK, Stopped, Marks

LEMMA UserPostsFacts ==
    ASSUME ChannelTypeOK, NEW mention \in UserMentions, NEW d \in [Turns -> Marks], UserPosts(mention, d)
    PROVE  UserPosted(mention, d) /\ mention \in Coworkers \cup {"everyone", Nobody}
  <1>1. mention \in Coworkers \cup {"everyone", Nobody}
    BY RosterAssumption DEF Coworkers
  <1>2. Posted("user", mention, 0, d, Recipients("user", mention))
    BY <1>1, PostFacts DEF UserPosts
  <1>3. Len(messages) + 1 \in 1..MaxMessages
    BY <1>2 DEF Posted
  <1>4. {Len(messages) + 1} \X Recipients("user", mention) \subseteq Turns
    BY <1>1, <1>3, RecipientFacts, TurnsOf
  <1>5. QED
    BY <1>1, <1>2, <1>4 DEF UserPosted, UserPosts

\* A turn hands over: the turn u of its message is queued, unless the message has been dealt with.
HandedOver(t, u) ==
    /\ pc[t] = "handoff" /\ pc[u] = "idle"
    /\ u \in Turns /\ u # t /\ u[2] # t[2]
    /\ u = <<ReplyOf(t), messages[ReplyOf(t)].mention>>
    /\ UNCHANGED <<messages, flow, delivery>>
    /\ \/ (blocked \/ delivery[u] # "pending") /\ Over(t)
       \/ /\ ~blocked /\ delivery[u] = "pending"
          /\ pc' = [pc EXCEPT ![t] = "over", ![u] = "queued"]
          /\ after' = [v \in Turns |-> IF v = u THEN chain[u[2]]
                                       ELSE IF after[v] = t THEN NoTurn ELSE after[v]]
          /\ chain' = [chain EXCEPT ![u[2]] = u, ![t[2]] = IF @ = t THEN NoTurn ELSE @]
          /\ active' = [active EXCEPT ![t[2]] = NoTurn]

LEMMA HandedOverFacts ==
    ASSUME ChannelInv, NEW t \in Turns, HandoffKind(t)
    PROVE  \E u \in Turns : HandedOver(t, u)
  <1> DEFINE u == <<ReplyOf(t), messages[ReplyOf(t)].mention>>
  <1>1. pc[t] = "handoff" /\ Handoff(t)
    BY DEF HandoffKind, Handoff
  <1>2. u \in Turns /\ u # t /\ u[2] # t[2] /\ pc[u] = "idle"
    BY <1>1, HandoffFacts
  <1>3. HandedOver(t, u)
    BY <1>1, <1>2 DEF HandedOver, Handoff, team
  <1>4. QED
    BY <1>2, <1>3

-----------------------------------------------------------------------------
(* Types *)

LEMMA ChannelTypeNext ==
    ASSUME ChannelInv, [ChannelNext]_channelVars
    PROVE  ChannelTypeOK'
  <1>0. ChannelTypeOK
    BY DEF ChannelInv
  <1>a. outcome' \in OutcomeState
    BY <1>0, BlockNext DEF ChannelInv, TalkInv
  <1>b. Kinds /\ away' \subseteq Coworkers /\ blocked' \in BOOLEAN
    BY <1>0, StepKinds
  <1>1. CASE UserKind
    <2>1. PICK mention \in UserMentions, d \in {delivery, Stopped} : UserPosts(mention, d)
      BY <1>1 DEF UserKind
    <2>2. d \in [Turns -> Marks]
      BY <2>1, <1>0, StoppedType DEF ChannelTypeOK
    <2>3. UserPosted(mention, d) /\ mention \in Coworkers \cup {"everyone", Nobody}
      BY <2>1, <2>2, <1>0, UserPostsFacts
    <2>4. /\ messages' \in Seq(Message) /\ Len(messages') <= MaxMessages /\ delivery' \in [Turns -> Marks]
      BY <2>3, TurnParts DEF UserPosted, Posted
    <2>5. active' = active
      BY <1>1 DEF UserKind
    <2>6. CASE blocked
      BY <2>3, <2>4, <2>5, <2>6, <1>0, <1>a, <1>b DEF UserPosted, ChannelTypeOK
    <2>7. CASE ~blocked
      <3>1. flow' \in FlowState
        BY <2>3, <2>7, <1>0, FlowOnMessageType DEF UserPosted
      <3>2. /\ pc' \in [Turns -> TurnStates] /\ after' \in [Turns -> Turns \cup {NoTurn}]
            /\ chain' \in [Coworkers -> Turns \cup {NoTurn}]
        BY <2>3, <2>7, <1>0, BehindFacts DEF UserPosted
      <3>3. QED
        BY <2>4, <2>5, <3>1, <3>2, <1>0, <1>a, <1>b DEF ChannelTypeOK
    <2>8. QED
      BY <2>6, <2>7
  <1>2. CASE StopKind
    BY <1>2, <1>0, <1>a, <1>b, StoppedType DEF StopKind, ChannelTypeOK
  <1>3. CASE OtherKind
    BY <1>3, <1>0, <1>a, <1>b DEF OtherKind, ChannelTypeOK
  <1>4. ASSUME NEW t \in Turns, NEW s \in {"bind", "loop", "reply"}, MoveKind(t, s)
        PROVE  ChannelTypeOK'
    <2>1. pc' \in [Turns -> TurnStates]
      BY <1>4, <1>0 DEF MoveKind, ChannelTypeOK, TurnStates, Live, Working
    <2>2. active' \in [Coworkers -> Turns \cup {NoTurn}]
      BY <1>4, <1>0, TurnParts DEF MoveKind, ChannelTypeOK
    <2>3. QED
      BY <2>1, <2>2, <1>4, <1>0, <1>a, <1>b DEF MoveKind, ChannelTypeOK
  <1>5. ASSUME NEW t \in Turns, NEW s \in Marks, EndKind(t, s)
        PROVE  ChannelTypeOK'
    BY <1>5, <1>0, <1>a, <1>b, EndsType DEF EndKind, ChannelTypeOK
  <1>6. ASSUME NEW t \in Turns, ReplyKind(t)
        PROVE  ChannelTypeOK'
    <2>1. PICK target : Replied(t, target)
      BY <1>6, <1>0, ReplyFacts DEF ReplyKind
    <2>2. flow' \in FlowState
      BY <2>1 DEF Replied
    <2>3. CASE Ends(t, "failed") /\ messages' = messages
      BY <2>2, <2>3, <1>0, <1>a, <1>b, EndsType DEF ChannelTypeOK, Marks
    <2>4. CASE /\ target # t[2]
               /\ Posted(t[2], target, t[1], Marked(t, "delivered"), Recipients(t[2], target))
               /\ \/ target = Nobody /\ Over(t)
                  \/ target # Nobody /\ pc' = [pc EXCEPT ![t] = "handoff"] /\ UNCHANGED chains
      <3>1. /\ messages' \in Seq(Message) /\ Len(messages') <= MaxMessages /\ delivery' \in [Turns -> Marks]
        BY <2>4, TurnParts DEF Posted
      <3>2. /\ pc' \in [Turns -> TurnStates] /\ after' \in [Turns -> Turns \cup {NoTurn}]
            /\ chain' \in [Coworkers -> Turns \cup {NoTurn}] /\ active' \in [Coworkers -> Turns \cup {NoTurn}]
        BY <2>4, <1>0, OverType DEF ChannelTypeOK, TurnStates, Live, Working, chains
      <3>3. QED
        BY <3>1, <3>2, <2>2, <1>a, <1>b DEF ChannelTypeOK
    <2>5. QED
      BY <2>1, <2>3, <2>4 DEF Replied
  <1>7. ASSUME NEW t \in Turns, HandoffKind(t)
        PROVE  ChannelTypeOK'
    <2>1. PICK u \in Turns : HandedOver(t, u)
      BY <1>7, HandedOverFacts
    <2>2. CASE Over(t)
      BY <2>1, <2>2, <1>0, <1>a, <1>b, OverType DEF HandedOver, ChannelTypeOK
    <2>3. CASE ~Over(t)
      <3>1. u[2] \in Coworkers /\ t[2] \in Coworkers
        BY TurnParts
      <3>2. pc' \in [Turns -> TurnStates]
        BY <2>1, <2>3, <1>0 DEF HandedOver, ChannelTypeOK, TurnStates, Live
      <3>3. after' \in [Turns -> Turns \cup {NoTurn}]
        BY <2>1, <2>3, <3>1, <1>0, SMTT(40) DEF HandedOver, ChannelTypeOK
      <3>4. chain' \in [Coworkers -> Turns \cup {NoTurn}]
        <4>1. u \in Turns /\ chain' = [chain EXCEPT ![u[2]] = u, ![t[2]] = IF @ = t THEN NoTurn ELSE @]
          BY <2>1, <2>3 DEF HandedOver
        <4>2. chain \in [Coworkers -> Turns \cup {NoTurn}]
          BY <1>0 DEF ChannelTypeOK
        <4>3. QED
          BY <4>1, <4>2
      <3>6. active' \in [Coworkers -> Turns \cup {NoTurn}]
        BY <2>1, <2>3, <3>1, <1>0 DEF HandedOver, ChannelTypeOK
      <3>5. QED
        BY <2>1, <3>2, <3>3, <3>4, <3>6, <1>0, <1>a, <1>b DEF HandedOver, ChannelTypeOK
    <2>4. QED
      BY <2>2, <2>3
  <1>8. CASE RestartKind
    <2>1. pc' \in [Turns -> TurnStates]
      BY <1>8, <1>0 DEF RestartKind, ChannelTypeOK, TurnStates
    <2>2. QED
      BY <2>1, <1>8, <1>0, <1>a, <1>b DEF RestartKind, ChannelTypeOK
  <1>9. QED
    BY <1>b, <1>1, <1>2, <1>3, <1>4, <1>5, <1>6, <1>7, <1>8 DEF Kinds

-----------------------------------------------------------------------------
(* The chains: a turn at work is the head of its coworker's chain, and its active task *)

\* Nothing of the chains changes.
LEMMA ChainStays ==
    ASSUME ChainInv, pc' = pc, after' = after, chain' = chain, active' = active
    PROVE  ChainInv'
  BY DEF ChainInv, WorkAtHead, ActiveKnown

\* Ranked sees which turns are live, not how far they have come.
LEMMA RankedSame ==
    ASSUME NEW p, NEW q, NEW a, NEW ch, InOrder(p, a, ch), \A t \in Turns : q[t] \in Live <=> p[t] \in Live
    PROVE  InOrder(q, a, ch)
  <1>1. PICK rank \in [Turns -> Nat] : Ranked(p, a, ch, rank)
    BY DEF InOrder
  <1>2. Ranked(q, a, ch, rank)
    <2>1. \A t, u \in Turns : q[t] \in Live /\ q[u] \in Live /\ t[2] = u[2] =>
            /\ t # u => rank[t] # rank[u]
            /\ a[t] = NoTurn => rank[t] <= rank[u]
            /\ a[t] # NoTurn /\ rank[u] < rank[t] => rank[u] <= rank[a[t]]
      BY <1>1 DEF Ranked
    <2>2. \A t \in Turns : q[t] \in Live /\ a[t] # NoTurn =>
            a[t] \in Turns /\ q[a[t]] \in Live /\ a[t][2] = t[2] /\ rank[a[t]] < rank[t]
      BY <1>1 DEF Ranked
    <2>3. \A c \in Coworkers : ch[c] = NoTurn => \A t \in Turns : q[t] \in Live => t[2] # c
      BY <1>1 DEF Ranked
    <2>4. \A c \in Coworkers : ch[c] # NoTurn =>
            /\ ch[c] \in Turns /\ q[ch[c]] \in Live /\ ch[c][2] = c
            /\ \A u \in Turns : q[u] \in Live /\ u[2] = c => rank[u] <= rank[ch[c]]
      BY <1>1 DEF Ranked
    <2>5. QED
      BY <2>1, <2>2, <2>3, <2>4 DEF Ranked
  <1>3. QED
    BY <1>1, <1>2 DEF InOrder

LEMMA OverKeepsChains ==
    ASSUME ChannelTypeOK, ChainInv, NEW t \in Turns, pc[t] \in Live, after[t] = NoTurn, Over(t)
    PROVE  ChainInv'
  <1>1. InOrder(pc', after', chain')
    <2>1. /\ pc \in [Turns -> TurnStates] /\ after \in [Turns -> Turns \cup {NoTurn}]
          /\ chain \in [Coworkers -> Turns \cup {NoTurn}] /\ InOrder(pc, after, chain)
      BY DEF ChainInv, ChannelTypeOK
    <2>2. /\ \A u \in Turns : pc'[u] = IF u = t THEN "over" ELSE pc[u]
          /\ \A u \in Turns : after'[u] = IF after[u] = t THEN NoTurn ELSE after[u]
          /\ \A c \in Coworkers : chain'[c] = IF c = t[2] /\ chain[c] = t THEN NoTurn ELSE chain[c]
      BY <2>1 DEF Over
    <2>3. QED
      BY <2>1, <2>2, HeadEnds
  <1>2. \A u \in Turns : pc'[u] \in Working => u # t /\ pc[u] \in Working /\ pc'[u] = pc[u]
    BY DEF Over, ChannelTypeOK, Working
  <1>3. WorkAtHead'
    BY <1>2 DEF WorkAtHead, ChainInv, Over
  <1>4. ASSUME NEW u \in Turns, pc'[u] \in {"loop", "reply", "handoff"}
        PROVE  active'[u[2]] = u
    <2>1. u # t /\ pc[u] \in {"loop", "reply", "handoff"} /\ pc[u] \in Working
      BY <1>2, <1>4 DEF Working
    <2>2. active[u[2]] = u /\ after[u] = NoTurn
      BY <2>1 DEF ChainInv, ActiveKnown, WorkAtHead
    <2>3. u[2] # t[2]
      BY <2>1, <2>2, OneHead DEF ChainInv, Live
    <2>4. QED
      BY <2>2, <2>3, TurnParts DEF Over, ChannelTypeOK
  <1>5. QED
    BY <1>1, <1>3, <1>4 DEF ChainInv, ActiveKnown

LEMMA BehindKeepsChains ==
    ASSUME ChannelTypeOK, ChainInv, NEW ts \in SUBSET Turns, \A t \in ts : pc[t] \notin Live,
           \A t, u \in ts : t[2] = u[2] => t = u, ChainBehind(ts), active' = active
    PROVE  ChainInv'
  <1>1. InOrder(pc', after', chain')
    <2>1. /\ chain' \in [Coworkers -> Turns \cup {NoTurn}]
          /\ \A c \in Coworkers : \/ chain'[c] \in ts /\ chain'[c][2] = c
                                  \/ (\A t \in ts : t[2] # c) /\ chain'[c] = chain[c]
      BY BehindFacts
    <2>2. /\ \A t \in Turns : pc'[t] = IF t \in ts THEN "queued" ELSE pc[t]
          /\ \A t \in Turns : after'[t] = IF t \in ts THEN chain[t[2]] ELSE after[t]
      BY DEF ChainBehind
    <2>3. Joins(pc, after, chain, ts, pc', after', chain')
      BY <2>1, <2>2 DEF Joins
    <2>4. QED
      BY <2>3, TurnsJoin DEF ChainInv, ChannelTypeOK
  <1>2. \A u \in Turns : pc'[u] \in Working => u \notin ts /\ pc'[u] = pc[u] /\ after'[u] = after[u]
    BY DEF ChainBehind, Working
  <1>3. WorkAtHead'
    BY <1>2 DEF WorkAtHead, ChainInv
  <1>4. ActiveKnown'
    BY <1>2 DEF ActiveKnown, ChainInv, Working
  <1>5. QED
    BY <1>1, <1>3, <1>4 DEF ChainInv

LEMMA MoveKeepsChains ==
    ASSUME ChannelTypeOK, ChainInv, NEW t \in Turns, NEW s \in {"bind", "loop", "reply"}, MoveKind(t, s)
    PROVE  ChainInv'
  <1>1. pc[t] \in Live /\ s \in Working /\ after[t] = NoTurn
    BY DEF MoveKind, ChainInv, WorkAtHead, Live, Working
  <1>2. \A u \in Turns : pc'[u] = IF u = t THEN s ELSE pc[u]
    BY DEF MoveKind, ChannelTypeOK
  <1>3. after' = after /\ chain' = chain
    BY DEF MoveKind
  <1>4. \A u \in Turns : pc'[u] \in Live <=> pc[u] \in Live
    BY <1>1, <1>2 DEF Live
  <1>5. InOrder(pc', after', chain')
    BY <1>3, <1>4, RankedSame DEF ChainInv
  <1>6. WorkAtHead'
    BY <1>1, <1>2, <1>3 DEF WorkAtHead, ChainInv
  <1>7. ASSUME NEW u \in Turns, pc'[u] \in {"loop", "reply", "handoff"}
        PROVE  active'[u[2]] = u
    <2>1. u[2] \in Coworkers /\ t[2] \in Coworkers
      BY TurnParts
    <2>2. CASE u = t
      <3>1. (s = "loop" /\ active' = [active EXCEPT ![t[2]] = t]) \/ (pc[t] = "loop" /\ active' = active)
        BY <1>2, <1>7, <2>2 DEF MoveKind
      <3>2. QED
        BY <3>1, <2>1, <2>2 DEF ChainInv, ActiveKnown, ChannelTypeOK
    <2>3. CASE u # t
      <3>1. pc[u] \in {"loop", "reply", "handoff"}
        BY <1>2, <1>7, <2>3
      <3>2. active[u[2]] = u /\ after[u] = NoTurn /\ pc[u] \in Live
        BY <3>1 DEF ChainInv, ActiveKnown, WorkAtHead, Live, Working
      <3>3. u[2] # t[2]
        BY <3>2, <2>3, <1>1, OneHead DEF ChainInv
      <3>4. active' \in {active, [active EXCEPT ![t[2]] = t]}
        BY DEF MoveKind
      <3>5. QED
        BY <3>2, <3>3, <3>4, <2>1 DEF ChannelTypeOK
    <2>4. QED
      BY <2>2, <2>3
  <1>8. QED
    BY <1>5, <1>6, <1>7 DEF ChainInv, ActiveKnown

LEMMA HandoffKeepsChains ==
    ASSUME ChannelTypeOK, ChainInv, NEW t \in Turns, NEW u \in Turns, HandedOver(t, u)
    PROVE  ChainInv'
  <1>1. pc[t] \in Live /\ pc[t] \in Working /\ after[t] = NoTurn
    BY DEF HandedOver, ChainInv, WorkAtHead, Live, Working
  <1>2. CASE Over(t)
    BY <1>1, <1>2, OverKeepsChains
  <1>3. CASE ~Over(t)
    <2> DEFINE q == [v \in Turns |-> IF v \in {u} THEN "queued" ELSE pc[v]]
               b == [v \in Turns |-> IF v \in {u} THEN chain[v[2]] ELSE after[v]]
               dh == [chain EXCEPT ![u[2]] = u]
    <2>1. u # t /\ u[2] # t[2] /\ pc[u] = "idle" /\ u[2] \in Coworkers /\ t[2] \in Coworkers
      BY TurnParts DEF HandedOver
    <2>2. /\ pc' = [pc EXCEPT ![t] = "over", ![u] = "queued"]
          /\ after' = [v \in Turns |-> IF v = u THEN chain[u[2]]
                                       ELSE IF after[v] = t THEN NoTurn ELSE after[v]]
          /\ chain' = [chain EXCEPT ![u[2]] = u, ![t[2]] = IF @ = t THEN NoTurn ELSE @]
          /\ active' = [active EXCEPT ![t[2]] = NoTurn]
      BY <1>3 DEF HandedOver
    <2>3. /\ pc \in [Turns -> TurnStates] /\ after \in [Turns -> Turns \cup {NoTurn}]
          /\ chain \in [Coworkers -> Turns \cup {NoTurn}] /\ InOrder(pc, after, chain)
      BY DEF ChainInv, ChannelTypeOK
    <2>4. dh \in [Coworkers -> Turns \cup {NoTurn}]
      BY <2>1, <2>3
    <2>5. \A c \in Coworkers : \/ dh[c] \in {u} /\ dh[c][2] = c
                               \/ (\A v \in {u} : v[2] # c) /\ dh[c] = chain[c]
      BY <2>1, <2>3
    <2>6. q \in [Turns -> TurnStates]
      BY <2>3 DEF TurnStates, Live
    <2>7. b \in [Turns -> Turns \cup {NoTurn}]
      BY <2>1, <2>3
    <2>8. pc[u] \notin Live
      BY <2>1 DEF Live, Working
    <2>9. InOrder(q, b, dh)
      <3>1. {u} \in SUBSET Turns /\ (\A v \in {u} : pc[v] \notin Live) /\ (\A v, w \in {u} : v[2] = w[2] => v = w)
        BY <2>8
      <3> DEFINE ts == {u}
      <3>2. /\ \A v \in Turns : q[v] = IF v \in ts THEN "queued" ELSE pc[v]
            /\ \A v \in Turns : b[v] = IF v \in ts THEN chain[v[2]] ELSE after[v]
        OBVIOUS
      <3>3. ts \in SUBSET Turns /\ (\A v \in ts : pc[v] \notin Live) /\ (\A v, w \in ts : v[2] = w[2] => v = w)
        BY <3>1
      <3>4. \A c \in Coworkers : \/ dh[c] \in ts /\ dh[c][2] = c
                                 \/ (\A v \in ts : v[2] # c) /\ dh[c] = chain[c]
        BY <2>5
      <3> HIDE DEF ts, q, b, dh
      <3>5. Joins(pc, after, chain, ts, q, b, dh)
        BY <3>2, <3>3, <3>4 DEF Joins
      <3>6. QED
        BY <2>3, <3>5, TurnsJoin
    <2>10. /\ \A v \in Turns : pc'[v] = IF v = t THEN "over" ELSE q[v]
           /\ \A v \in Turns : after'[v] = IF b[v] = t THEN NoTurn ELSE b[v]
      <3>1. chain[u[2]] # t
        <4>1. PICK rank \in [Turns -> Nat] : Ranked(pc, after, chain, rank)
          BY <2>3 DEF InOrder
        <4>2. chain[u[2]] # NoTurn => chain[u[2]][2] = u[2]
          BY <4>1, <2>1 DEF Ranked
        <4>3. t # NoTurn
          BY TurnParts
        <4>4. QED
          BY <4>2, <4>3, <2>1
      <3>2. \A v \in Turns : pc'[v] = IF v = t THEN "over" ELSE q[v]
        BY <2>1, <2>2, <2>3
      <3>3. after'[u] = IF b[u] = t THEN NoTurn ELSE b[u]
        BY <3>1, <2>2
      <3>4. \A v \in Turns \ {u} : after'[v] = IF b[v] = t THEN NoTurn ELSE b[v]
        BY <2>2
      <3>5. QED
        BY <3>2, <3>3, <3>4
    <2>11. \A c \in Coworkers : chain'[c] = IF c = t[2] /\ dh[c] = t THEN NoTurn ELSE dh[c]
      BY <2>1, <2>2, <2>3
    <2>12. q[t] \in Live /\ b[t] = NoTurn
      BY <2>1, <1>1
    <2> HIDE DEF q, b, dh
    <2>13. InOrder(pc', after', chain')
      BY <2>4, <2>6, <2>7, <2>9, <2>10, <2>11, <2>12, HeadEnds
    <2>14. \A v \in Turns : pc'[v] \in Working => v # t /\ v # u /\ pc[v] \in Working /\ pc'[v] = pc[v]
      BY <2>2, <2>3 DEF Working
    <2>15. WorkAtHead'
      BY <2>2, <2>14 DEF WorkAtHead, ChainInv
    <2>16. ASSUME NEW v \in Turns, pc'[v] \in {"loop", "reply", "handoff"}
           PROVE  active'[v[2]] = v
      <3>1. v # t /\ pc[v] \in {"loop", "reply", "handoff"}
        BY <2>14, <2>16 DEF Working
      <3>2. active[v[2]] = v /\ after[v] = NoTurn /\ pc[v] \in Live
        BY <3>1 DEF ChainInv, ActiveKnown, WorkAtHead, Live, Working
      <3>3. v[2] # t[2]
        BY <3>1, <3>2, <2>3, <1>1, OneHead
      <3>4. QED
        BY <3>2, <3>3, <2>1, <2>2, TurnParts DEF ChannelTypeOK
    <2>17. QED
      BY <2>13, <2>15, <2>16 DEF ChainInv, ActiveKnown
  <1>4. QED
    BY <1>2, <1>3

LEMMA RestartKeepsChains ==
    ASSUME ChannelTypeOK, RestartKind
    PROVE  ChainInv'
  <1>1. \A t \in Turns : pc'[t] \notin Live
    BY DEF RestartKind, Live, Working
  <1>2. \A c \in Coworkers : chain'[c] = NoTurn
    BY DEF RestartKind
  <1>3. [t \in Turns |-> 0] \in [Turns -> Nat]
    OBVIOUS
  <1>4. Ranked(pc', after', chain', [t \in Turns |-> 0])
    BY <1>1, <1>2 DEF Ranked
  <1>5. WorkAtHead' /\ ActiveKnown'
    BY <1>1 DEF WorkAtHead, ActiveKnown, Live, Working
  <1>6. QED
    BY <1>3, <1>4, <1>5 DEF ChainInv, InOrder

LEMMA ChainNext ==
    ASSUME ChannelInv, [ChannelNext]_channelVars
    PROVE  ChainInv'
  <1>0. ChannelTypeOK /\ ChainInv
    BY DEF ChannelInv
  <1>b. Kinds
    BY <1>0, StepKinds
  <1>1. CASE UserKind
    <2>1. PICK mention \in UserMentions, d \in {delivery, Stopped} : UserPosts(mention, d)
      BY <1>1 DEF UserKind
    <2>2. d \in [Turns -> Marks]
      BY <2>1, <1>0, StoppedType DEF ChannelTypeOK
    <2>3. UserPosted(mention, d) /\ mention \in Coworkers \cup {"everyone", Nobody}
      BY <2>1, <2>2, <1>0, UserPostsFacts
    <2>4. active' = active
      BY <1>1 DEF UserKind
    <2>5. CASE blocked
      BY <2>3, <2>4, <2>5, <1>0, ChainStays DEF UserPosted
    <2>6. CASE ~blocked
      <3> DEFINE ts == {Len(messages) + 1} \X Recipients("user", mention)
      <3>1. ts \in SUBSET Turns /\ ChainBehind(ts)
        BY <2>3, <2>6 DEF UserPosted
      <3>2. Len(messages) + 1 \in 1..MaxMessages /\ Recipients("user", mention) \in SUBSET Coworkers
        BY <2>3, RecipientFacts DEF UserPosted, Posted
      <3>3. (\A t \in ts : t[1] = Len(messages) + 1) /\ \A t, u \in ts : t[2] = u[2] => t = u
        BY <3>2, TurnsOf
      <3> HIDE DEF ts
      <3>4. \A t \in ts : pc[t] \notin Live
        BY <3>1, <3>3, <1>0, PresentTurns DEF ChannelInv, TalkInv, NotYet, Live, Working
      <3>5. QED
        BY <3>1, <3>3, <3>4, <2>4, <1>0, BehindKeepsChains
    <2>7. QED
      BY <2>5, <2>6
  <1>2. CASE StopKind \/ OtherKind
    BY <1>2, <1>0, ChainStays DEF StopKind, OtherKind
  <1>3. ASSUME NEW t \in Turns, NEW s \in {"bind", "loop", "reply"}, MoveKind(t, s)
        PROVE  ChainInv'
    BY <1>3, <1>0, MoveKeepsChains
  <1>4. ASSUME NEW t \in Turns, NEW s \in Marks, EndKind(t, s)
        PROVE  ChainInv'
    <2>1. pc[t] \in Live /\ after[t] = NoTurn /\ Over(t)
      BY <1>4, <1>0 DEF EndKind, Ends, ChainInv, WorkAtHead, Live, Working
    <2>2. QED
      BY <2>1, <1>0, OverKeepsChains
  <1>5. ASSUME NEW t \in Turns, ReplyKind(t)
        PROVE  ChainInv'
    <2>1. PICK target : Replied(t, target)
      BY <1>5, <1>0, ReplyFacts DEF ReplyKind
    <2>2. pc[t] = "reply" /\ pc[t] \in Live /\ after[t] = NoTurn
      BY <1>5, <1>0 DEF ReplyKind, ChainInv, WorkAtHead, Live, Working
    <2>3. CASE Over(t)
      BY <2>2, <2>3, <1>0, OverKeepsChains
    <2>4. CASE pc' = [pc EXCEPT ![t] = "handoff"] /\ UNCHANGED chains
      <3>1. \A u \in Turns : pc'[u] = IF u = t THEN "handoff" ELSE pc[u]
        BY <2>4, <1>0 DEF ChannelTypeOK
      <3>2. after' = after /\ chain' = chain /\ active' = active
        BY <2>4 DEF chains
      <3>3. \A u \in Turns : pc'[u] \in Live <=> pc[u] \in Live
        BY <3>1, <2>2 DEF Live, Working
      <3>4. InOrder(pc', after', chain')
        BY <3>2, <3>3, <1>0, RankedSame DEF ChainInv
      <3>5. WorkAtHead' /\ ActiveKnown'
        BY <3>1, <3>2, <2>2, <1>0 DEF ChainInv, WorkAtHead, ActiveKnown
      <3>6. QED
        BY <3>4, <3>5 DEF ChainInv
    <2>5. QED
      BY <2>1, <2>3, <2>4 DEF Replied, Ends
  <1>6. ASSUME NEW t \in Turns, HandoffKind(t)
        PROVE  ChainInv'
    BY <1>6, <1>0, HandedOverFacts, HandoffKeepsChains
  <1>7. CASE RestartKind
    BY <1>7, <1>0, RestartKeepsChains
  <1>8. QED
    BY <1>b, <1>1, <1>2, <1>3, <1>4, <1>5, <1>6, <1>7 DEF Kinds

-----------------------------------------------------------------------------
(* Messages and turns: steps that post nothing *)

\* Turn u is of the message with which turn t answered.
AnswerOf(u, t) == messages[u[1]].from # "user" /\ Parent(u[1]) = t

QuietMark(v) == delivery'[v] = delivery[v] \/ (delivery'[v] = "failed" /\ delivery[v] # "none")

QuietTurn(v) ==
    \/ pc'[v] = pc[v]
    \/ pc[v] \in {"queued", "bind", "loop"} /\ pc'[v] \in {"bind", "loop", "reply"}
    \/ pc[v] \in {"queued", "bind", "loop", "reply"} /\ pc'[v] = "over" /\ (blocked' \/ delivery'[v] = "failed")
    \/ pc[v] \in Live /\ pc'[v] = "lost"
    \/ /\ pc[v] = "handoff" /\ pc'[v] = "over"
       /\ \/ blocked' \/ delivery'[v] = "failed"
          \/ \A u \in Present : AnswerOf(u, v) /\ delivery[u] = "pending" => pc'[u] = "queued"
    \/ /\ pc[v] = "idle" /\ pc'[v] = "queued" /\ v \in Present
       /\ delivery[v] = "pending" /\ delivery'[v] = "pending"
       /\ messages[v[1]].from # "user" /\ pc'[Parent(v[1])] = "over"

\* A step that posts nothing; the flow changes only when a delivery fails.
Quiet ==
    /\ messages' = messages /\ (blocked => blocked')
    /\ \A v \in Turns : QuietMark(v) /\ QuietTurn(v)
    /\ \/ flow' = flow
       \/ \E t \in Present : /\ delivery'[t] = "failed" /\ flow'.source \in {flow.source, t[1]}
                             /\ pc'[t] \in Answered

\* The turn that a coworker's message answers is there.
LEMMA ParentFacts ==
    ASSUME ChannelInv, NEW i \in 1..Len(messages), messages[i].from # "user"
    PROVE  /\ messages[i].from \in Coworkers /\ Parent(i) \in Present /\ Parent(i) \in Turns
           /\ Parent(i)[1] = messages[i].replyTo /\ Parent(i)[2] = messages[i].from
           /\ pc[Parent(i)] \in Answered /\ AnswerKnown(i)
  <1>0. ChannelTypeOK
    BY DEF ChannelInv
  <1>1. AnswerKnown(i)
    BY DEF ChannelInv, TalkInv, AnswersKnown
  <1>2. messages[i] \in Message
    BY <1>0 DEF ChannelTypeOK
  <1>3. messages[i].from \in Coworkers /\ messages[i].replyTo \in 1..Len(messages)
    BY <1>1, <1>2 DEF Message, AnswerKnown
  <1>4. Parent(i) \in Present /\ Present \subseteq Turns
    BY <1>0, <1>3, PresentTurns DEF Parent
  <1>5. QED
    BY <1>1, <1>3, <1>4 DEF AnswerKnown, Parent

LEMMA QuietMessages ==
    ASSUME ChannelInv, Quiet
    PROVE  NotYet' /\ AnswersKnown' /\ OneAnswer' /\ HandsOver'
  <1>0. ChannelTypeOK /\ messages' = messages
    BY DEF ChannelInv, Quiet
  <1>q. \A v \in Turns : QuietMark(v) /\ QuietTurn(v)
    BY DEF Quiet
  <1>1. ASSUME NEW v \in Turns, v[1] > Len(messages)
        PROVE  pc'[v] = "idle" /\ delivery'[v] = "none"
    <2>1. pc[v] = "idle" /\ delivery[v] = "none"
      BY <1>1 DEF ChannelInv, TalkInv, NotYet
    <2>2. QED
      BY <2>1, <1>q DEF QuietMark, QuietTurn, Live, Working
  <1>2. ASSUME NEW i \in 1..Len(messages), messages[i].from # "user"
        PROVE  AnswerKnown(i)'
    <2>1. /\ Parent(i) \in Turns /\ pc[Parent(i)] \in Answered /\ AnswerKnown(i)
      BY <1>2, ParentFacts
    <2>2. QuietTurn(Parent(i))
      BY <2>1, <1>q
    <2>3. pc'[Parent(i)] \in Answered /\ (pc'[Parent(i)] = "handoff" => pc[Parent(i)] = "handoff")
      BY <2>1, <2>2 DEF QuietTurn, Answered, Live, Working
    <2>4. ASSUME NEW c \in Coworkers, pc'[Parent(i)] = "handoff"
          PROVE  pc'[<<i, c>>] = "idle"
      <3>1. <<i, c>> \in Turns /\ pc[<<i, c>>] = "idle" /\ <<i, c>>[1] = i
        BY <2>1, <2>3, <2>4, <1>0, PresentTurns DEF AnswerKnown
      <3>2. QuietTurn(<<i, c>>)
        BY <3>1, <1>q
      <3>3. QED
        BY <3>1, <3>2, <2>4 DEF QuietTurn, Live, Working
    <2>5. Parent(i)' = Parent(i)
      BY <1>0 DEF Parent
    <2>6. QED
      BY <2>1, <2>3, <2>4, <2>5, <1>0 DEF AnswerKnown
  <1>3. ASSUME NEW t \in Turns, pc'[t] = "handoff"
        PROVE  /\ delivery'[t] # "pending"
               /\ \E i \in 1..Len(messages) : messages[i].from = t[2] /\ messages[i].replyTo = t[1]
    <2>1. QuietTurn(t) /\ QuietMark(t)
      BY <1>q
    <2>2. pc[t] = "handoff"
      BY <2>1, <1>3 DEF QuietTurn
    <2>3. QED
      BY <2>1, <2>2 DEF QuietMark, ChannelInv, TalkInv, HandsOver
  <1>4. NotYet'
    BY <1>0, <1>1 DEF NotYet
  <1>5. AnswersKnown'
    BY <1>0, <1>2 DEF AnswersKnown
  <1>6. OneAnswer'
    BY <1>0 DEF ChannelInv, TalkInv, OneAnswer
  <1>7. HandsOver'
    BY <1>0, <1>3 DEF HandsOver
  <1>8. QED
    BY <1>4, <1>5, <1>6, <1>7

LEMMA QuietDeliveries ==
    ASSUME ChannelInv, Quiet
    PROVE  DeliveriesKnown' /\ SourceKnown'
  <1>0. ChannelTypeOK /\ messages' = messages
    BY DEF ChannelInv, Quiet
  <1>p. Present' = Present /\ Present \subseteq Turns
    BY <1>0, PresentTurns DEF Present
  <1>q. \A v \in Turns : QuietMark(v) /\ QuietTurn(v)
    BY DEF Quiet
  <1>n. \A v \in Present : delivery'[v] # "none" <=> delivery[v] # "none"
    BY <1>p, <1>q DEF QuietMark
  <1>1. ASSUME NEW v \in Present
        PROVE  DeliveryKnown(v)'
    <2>1. DeliveryKnown(v) /\ QuietMark(v) /\ QuietTurn(v)
      BY <1>p, <1>q DEF ChannelInv, TalkInv, DeliveriesKnown
    <2>2. pc'[v] # "idle" => delivery'[v] # "none"
      BY <2>1 DEF QuietMark, QuietTurn, DeliveryKnown, Live, Working
    <2>3. pc'[v] = "queued" => delivery'[v] \in {"pending", "failed"}
      BY <2>1 DEF QuietMark, QuietTurn, DeliveryKnown
    <2>4. delivery'[v] # "none" /\ messages[v[1]].mention # "everyone" =>
            \A u \in Present : u[1] = v[1] /\ delivery'[u] # "none" => u[2] = v[2]
      BY <2>1, <1>n DEF DeliveryKnown
    <2>5. delivery'[v] # "none" /\ messages[v[1]].mention \in Coworkers => v[2] = messages[v[1]].mention
      BY <2>1, <1>n DEF DeliveryKnown
    <2>6. QED
      BY <2>2, <2>3, <2>4, <2>5, <1>0, <1>p DEF DeliveryKnown
  <1>2. DeliveriesKnown'
    BY <1>1, <1>p DEF DeliveriesKnown
  <1>3. \A v \in Turns : pc[v] \in Answered => pc'[v] \in Answered
    BY <1>q DEF QuietTurn, Answered, Live, Working
  <1>4. flow.source # 0 => flow.source \in 1..Len(messages) /\ \E c \in Coworkers : pc'[<<flow.source, c>>] \in Answered
    <2>1. SUFFICES ASSUME flow.source # 0
                   PROVE  flow.source \in 1..Len(messages) /\ \E c \in Coworkers : pc'[<<flow.source, c>>] \in Answered
      OBVIOUS
    <2>2. flow.source \in 1..Len(messages) /\ \E c \in Coworkers : pc[<<flow.source, c>>] \in Answered
      BY <2>1 DEF ChannelInv, TalkInv, SourceKnown
    <2>3. \A c \in Coworkers : <<flow.source, c>> \in Turns
      BY <2>2, <1>0, PresentTurns
    <2>4. QED
      BY <2>2, <2>3, <1>3
  <1>5. SourceKnown'
    <2>1. CASE flow' = flow
      BY <2>1, <1>0, <1>4 DEF SourceKnown
    <2>2. CASE flow' # flow
      <3>1. PICK t \in Present : flow'.source \in {flow.source, t[1]} /\ pc'[t] \in Answered
        BY <2>2 DEF Quiet
      <3>2. t[1] \in 1..Len(messages) /\ t[2] \in Coworkers /\ t = <<t[1], t[2]>>
        BY <3>1, <1>0, <1>p, PresentTurns, TurnParts
      <3>3. pc'[<<t[1], t[2]>>] \in Answered
        BY <3>1, <3>2
      <3>4. CASE flow'.source = t[1]
        BY <3>2, <3>3, <3>4, <1>0 DEF SourceKnown
      <3>5. CASE flow'.source = flow.source
        BY <3>5, <1>0, <1>4 DEF SourceKnown
      <3>6. QED
        BY <3>1, <3>4, <3>5
    <2>3. QED
      BY <2>1, <2>2
  <1>6. QED
    BY <1>2, <1>5

LEMMA QuietAddressed ==
    ASSUME ChannelInv, Quiet
    PROVE  AddressedIsScheduled'
  <1>0. ChannelTypeOK /\ messages' = messages
    BY DEF ChannelInv, Quiet
  <1>p. Present' = Present /\ Present \subseteq Turns
    BY <1>0, PresentTurns DEF Present
  <1>q. \A v \in Turns : QuietMark(v) /\ QuietTurn(v)
    BY DEF Quiet
  <1>1. ASSUME NEW v \in Present, delivery'[v] = "pending",
               ~blocked', ~(messages[v[1]].from # "user" /\ messages[v[1]].mention = Nobody),
               pc'[v] \notin Live \cup {"lost"}
        PROVE  /\ messages[v[1]].from # "user"
               /\ pc'[Parent(v[1])] \in {"handoff", "lost"} \/ delivery'[Parent(v[1])] = "failed"
    <2>1. QuietMark(v) /\ QuietTurn(v) /\ v \in Turns /\ v[1] \in 1..Len(messages)
      BY <1>0, <1>p, <1>q, PresentTurns
    <2>2. delivery[v] = "pending" /\ ~blocked
      BY <2>1, <1>1 DEF QuietMark, Quiet
    <2>3. pc[v] \notin Live \cup {"lost"}
      <3>1. pc[v] # "handoff"
        BY <2>1, <2>2 DEF ChannelInv, TalkInv, HandsOver
      <3>2. QED
        BY <3>1, <2>1, <1>1 DEF QuietTurn, Live, Working
    <2>4. /\ messages[v[1]].from # "user"
          /\ pc[Parent(v[1])] \in {"handoff", "lost"} \/ delivery[Parent(v[1])] = "failed"
      BY <2>2, <2>3, <1>1 DEF ChannelInv, TalkInv, AddressedIsScheduled, Parent
    <2>5. Parent(v[1]) \in Turns
      BY <2>1, <2>4, ParentFacts
    <2>6. QuietTurn(Parent(v[1])) /\ QuietMark(Parent(v[1]))
      BY <2>5, <1>q
    <2>7. CASE delivery[Parent(v[1])] = "failed"
      BY <2>4, <2>6, <2>7 DEF QuietMark
    <2>8. CASE pc[Parent(v[1])] = "lost"
      BY <2>4, <2>6, <2>8 DEF QuietTurn, Live, Working
    <2>9. CASE pc[Parent(v[1])] = "handoff"
      <3>1. AnswerOf(v, Parent(v[1]))
        BY <2>4 DEF AnswerOf
      <3>2. pc'[v] # "queued"
        BY <1>1 DEF Live
      <3>3. QED
        BY <3>1, <3>2, <2>2, <2>4, <2>6, <2>9, <1>1 DEF QuietTurn
    <2>10. QED
      BY <2>4, <2>7, <2>8, <2>9
  <1>2. QED
    BY <1>0, <1>p, <1>1 DEF AddressedIsScheduled, Parent

LEMMA QuietCarries ==
    ASSUME ChannelInv, Quiet
    PROVE  OwnerCarries'
  <1>0. ChannelTypeOK /\ messages' = messages
    BY DEF ChannelInv, Quiet
  <1>p. Present' = Present /\ Present \subseteq Turns
    BY <1>0, PresentTurns DEF Present
  <1>q. \A v \in Turns : QuietMark(v) /\ QuietTurn(v)
    BY DEF Quiet
  <1>1. SUFFICES ASSUME Undisturbed', flow'.owner # 0
                 PROVE  \E t \in Present : t[2] = Order[flow'.owner] /\ Carries(t)'
    BY <1>p DEF OwnerCarries
  <1>2. /\ ~blocked' /\ \A t \in Present : pc'[t] # "lost" /\ (delivery'[t] = "failed" => pc'[t] \in Answering)
        /\ \A i \in 1..Len(messages) : messages[i].mention # "everyone"
    BY <1>0, <1>1, <1>p DEF Undisturbed
  <1>3. flow' = flow
    BY <1>2 DEF Quiet, Answering, Answered
  <1>4. \A t \in Present : pc[t] # "lost" /\ (delivery[t] = "failed" => pc[t] \in Answering)
    BY <1>2, <1>p, <1>q DEF QuietMark, QuietTurn, Live, Working, Answering
  <1>5. Undisturbed
    BY <1>2, <1>4 DEF Undisturbed, Quiet
  <1>6. PICK t \in Present : t[2] = Order[flow.owner] /\ Carries(t)
    BY <1>1, <1>3, <1>5 DEF ChannelInv, TalkInv, OwnerCarries
  <1>7. QuietMark(t) /\ QuietTurn(t) /\ t[1] \in 1..Len(messages)
    BY <1>0, <1>p, <1>q, PresentTurns
  <1>8. CASE pc[t] \in Answering
    <2>1. pc'[t] \in Answering
      BY <1>2, <1>6, <1>7, <1>8 DEF QuietTurn, Answering
    <2>2. QED
      BY <2>1, <1>3, <1>6 DEF Carries
  <1>9. CASE pc[t] = "idle" /\ delivery[t] = "pending" /\ messages[t[1]].from # "user" /\ pc[Parent(t[1])] = "handoff"
    <2>1. Parent(t[1]) \in Present /\ AnswerOf(t, Parent(t[1]))
      BY <1>7, <1>9, ParentFacts DEF AnswerOf
    <2>2. QuietTurn(Parent(t[1]))
      BY <2>1, <1>p, <1>q
    <2>3. delivery'[t] = "pending" \/ pc'[t] \in Answering
      BY <1>2, <1>7, <1>9 DEF QuietMark
    <2>4. CASE pc'[t] = "queued"
      BY <2>4, <1>3, <1>6 DEF Carries, Answering
    <2>5. CASE pc'[t] # "queued"
      <3>1. pc'[t] = "idle"
        BY <2>5, <1>7, <1>9 DEF QuietTurn, Live, Working
      <3>2. pc'[Parent(t[1])] = "handoff"
        BY <2>1, <2>2, <2>5, <1>2, <1>9 DEF QuietTurn, Answering
      <3>4. pc'[<<messages'[t[1]].replyTo, messages'[t[1]].from>>] = "handoff"
        BY <3>2, <1>0 DEF Parent
      <3>5. Carries(t)'
        BY <3>1, <3>4, <2>3, <1>0, <1>9 DEF Carries, Parent, Answering
      <3>6. QED
        BY <3>5, <1>3, <1>6
    <2>6. QED
      BY <2>4, <2>5
  <1>10. QED
    BY <1>6, <1>8, <1>9 DEF Carries

\* The kinds of steps that post nothing.
LEMMA QuietKinds ==
    ASSUME ChannelInv, blocked => blocked',
           \/ StopKind \/ OtherKind \/ RestartKind
           \/ \E t \in Turns : \/ \E s \in {"bind", "loop", "reply"} : MoveKind(t, s)
                               \/ \E s \in Marks : EndKind(t, s)
                               \/ HandoffKind(t)
    PROVE  Quiet
  <1>0. ChannelTypeOK
    BY DEF ChannelInv
  <1>t. \A v \in Turns : delivery[v] \in Marks /\ pc[v] \in TurnStates
    BY <1>0 DEF ChannelTypeOK
  <1>b. \A v \in Turns : pc[v] # "idle" => v \in Present /\ delivery[v] # "none"
    <2>1. SUFFICES ASSUME NEW v \in Turns, pc[v] # "idle" PROVE v \in Present /\ delivery[v] # "none"
      OBVIOUS
    <2>2. v \in Present
      BY <2>1, <1>0, PresentTurns, TurnParts DEF ChannelInv, TalkInv, NotYet
    <2>3. QED
      BY <2>1, <2>2 DEF ChannelInv, TalkInv, DeliveriesKnown, DeliveryKnown
  <1>1. CASE StopKind
    <2>1. \A v \in Turns : QuietMark(v) /\ QuietTurn(v)
      BY <1>1 DEF StopKind, Stopped, QuietMark, QuietTurn
    <2>2. QED
      BY <2>1, <1>1 DEF StopKind, Quiet
  <1>2. CASE OtherKind
    BY <1>2 DEF OtherKind, Quiet, QuietMark, QuietTurn
  <1>3. CASE RestartKind
    BY <1>3 DEF RestartKind, Quiet, QuietMark, QuietTurn
  <1>4. ASSUME NEW t \in Turns, NEW s \in {"bind", "loop", "reply"}, MoveKind(t, s)
        PROVE  Quiet
    <2>1. \A v \in Turns : QuietMark(v) /\ QuietTurn(v)
      BY <1>4, <1>0 DEF MoveKind, QuietMark, QuietTurn, ChannelTypeOK
    <2>2. QED
      BY <2>1, <1>4 DEF MoveKind, Quiet
  <1>5. ASSUME NEW t \in Turns, NEW s \in Marks, EndKind(t, s)
        PROVE  Quiet
    <2>1. /\ \A v \in Turns : pc'[v] = IF v = t THEN "over" ELSE pc[v]
          /\ \A v \in Turns : delivery'[v] = IF v = t THEN s ELSE delivery[v]
      BY <1>5, <1>0 DEF EndKind, Ends, Over, Marked, ChannelTypeOK
    <2>2. pc[t] \in {"queued", "bind", "loop", "handoff"} /\ t \in Present /\ delivery[t] # "none"
      BY <1>5, <1>b DEF EndKind
    <2>3. CASE s = "failed"
      <3>1. \A v \in Turns : QuietMark(v) /\ QuietTurn(v)
        BY <2>1, <2>2, <2>3 DEF QuietMark, QuietTurn
      <3>2. QED
        BY <3>1, <1>5 DEF EndKind, Quiet
    <2>4. CASE s # "failed"
      <3>1. s = delivery[t] /\ pc[t] # "handoff" /\ (blocked \/ (pc[t] = "queued" /\ delivery[t] # "pending"))
        BY <2>4, <1>5 DEF EndKind
      <3>2. pc[t] = "queued" => delivery[t] \in {"pending", "failed"}
        BY <2>2 DEF ChannelInv, TalkInv, DeliveriesKnown, DeliveryKnown
      <3>3. blocked'
        BY <2>4, <3>1, <3>2
      <3>4. \A v \in Turns : QuietMark(v) /\ QuietTurn(v)
        BY <2>1, <2>2, <3>1, <3>3 DEF QuietMark, QuietTurn
      <3>5. QED
        BY <3>4, <1>5 DEF EndKind, Quiet
    <2>5. QED
      BY <2>3, <2>4
  <1>6. ASSUME NEW t \in Turns, HandoffKind(t)
        PROVE  Quiet
    <2>1. PICK u \in Turns : HandedOver(t, u)
      BY <1>6, HandedOverFacts
    <2>2. messages' = messages /\ flow' = flow /\ delivery' = delivery /\ pc[t] = "handoff" /\ pc[u] = "idle" /\ u # t
      BY <2>1 DEF HandedOver
    <2>3. ASSUME NEW v \in Present, AnswerOf(v, t), delivery[v] = "pending"
          PROVE  v = u
      <3>1. v[1] \in 1..Len(messages) /\ v \in Turns /\ v = <<v[1], v[2]>>
        BY <2>3, <1>0, PresentTurns, TurnParts
      <3>2. messages[v[1]].from = t[2] /\ messages[v[1]].replyTo = t[1]
        BY <3>1, <2>3, ParentFacts DEF AnswerOf
      <3>3. ReplyOf(t) = v[1]
        BY <3>1, <3>2, <1>0, ReplyOfFacts DEF ChannelInv, TalkInv
      <3>4. messages[v[1]].mention \in Coworkers
        BY <3>3, <2>2, HandoffFacts
      <3>5. v[2] = messages[v[1]].mention
        BY <3>4, <2>3 DEF ChannelInv, TalkInv, DeliveriesKnown, DeliveryKnown
      <3>6. QED
        BY <3>1, <3>3, <3>5, <2>1 DEF HandedOver
    <2>4. CASE (blocked \/ delivery[u] # "pending") /\ Over(t)
      <3>1. \A v \in Turns : pc'[v] = IF v = t THEN "over" ELSE pc[v]
        BY <2>4, <1>0 DEF Over, ChannelTypeOK
      <3>2. blocked' \/ \A v \in Present : AnswerOf(v, t) /\ delivery[v] = "pending" => pc'[v] = "queued"
        BY <2>3, <2>4, <1>6 DEF HandoffKind
      <3>3. \A v \in Turns : QuietMark(v) /\ QuietTurn(v)
        BY <2>2, <3>1, <3>2 DEF QuietMark, QuietTurn
      <3>4. QED
        BY <2>2, <3>3 DEF Quiet
    <2>5. CASE delivery[u] = "pending" /\ pc' = [pc EXCEPT ![t] = "over", ![u] = "queued"]
      <3>1. \A v \in Turns : pc'[v] = IF v = t THEN "over" ELSE IF v = u THEN "queued" ELSE pc[v]
        BY <2>2, <2>5, <1>0 DEF ChannelTypeOK
      <3>2. \A v \in Present : AnswerOf(v, t) /\ delivery[v] = "pending" => pc'[v] = "queued"
        BY <2>2, <2>3, <3>1
      <3>3. QuietTurn(t)
        BY <2>2, <3>1, <3>2 DEF QuietTurn
      <3>4. QuietTurn(u)
        <4>1. /\ u \in Present /\ u[1] = ReplyOf(t) /\ u[1] \in 1..Len(messages)
              /\ messages[u[1]].from = t[2] /\ Parent(u[1]) = t
          BY <2>1, <2>2, HandoffFacts DEF HandedOver
        <4>2. messages[u[1]].from # "user"
          BY <4>1, TurnParts, RosterFacts
        <4>3. pc'[Parent(u[1])] = "over"
          BY <4>1, <3>1
        <4>4. QED
          BY <4>1, <4>2, <4>3, <2>2, <2>5, <3>1 DEF QuietTurn
      <3>5. \A v \in Turns : QuietMark(v) /\ QuietTurn(v)
        BY <2>2, <3>1, <3>3, <3>4 DEF QuietMark, QuietTurn
      <3>6. QED
        BY <2>2, <3>5 DEF Quiet
    <2>6. QED
      BY <2>1, <2>4, <2>5 DEF HandedOver
  <1>7. QED
    BY <1>1, <1>2, <1>3, <1>4, <1>5, <1>6

\* A reply that fails posts nothing either.
LEMMA QuietReply ==
    ASSUME ChannelInv, NEW t \in Turns, ReplyKind(t), NEW target, Replied(t, target),
           Ends(t, "failed"), messages' = messages
    PROVE  Quiet
  <1>0. ChannelTypeOK
    BY DEF ChannelInv
  <1>1. /\ \A v \in Turns : pc'[v] = IF v = t THEN "over" ELSE pc[v]
        /\ \A v \in Turns : delivery'[v] = IF v = t THEN "failed" ELSE delivery[v]
    BY <1>0 DEF Ends, Over, Marked, ChannelTypeOK
  <1>2. pc[t] = "reply" /\ blocked' = blocked
    BY DEF ReplyKind
  <1>3. t \in Present
    BY <1>0, <1>2, PresentTurns, TurnParts DEF ChannelInv, TalkInv, NotYet
  <1>4. delivery[t] # "none"
    BY <1>2, <1>3 DEF ChannelInv, TalkInv, DeliveriesKnown, DeliveryKnown
  <1>5. \A v \in Turns : QuietMark(v) /\ QuietTurn(v)
    BY <1>1, <1>2, <1>4 DEF QuietMark, QuietTurn
  <1>6. flow'.source \in {flow.source, t[1]} /\ delivery'[t] = "failed" /\ pc'[t] \in Answered
    BY <1>1 DEF Replied, Answered
  <1>7. QED
    BY <1>2, <1>3, <1>5, <1>6 DEF Quiet

LEMMA QuietTalk ==
    ASSUME ChannelInv, Quiet, BlockStays'
    PROVE  TalkInv'
  BY QuietMessages, QuietDeliveries, QuietAddressed, QuietCarries DEF TalkInv

-----------------------------------------------------------------------------
(* Messages and turns: a new message *)

\* A message n joins those there are, without a word about turns.
LEMMA PresentPosted ==
    ASSUME ChannelTypeOK, NEW sender, NEW mention, NEW source, NEW d, NEW rs, Posted(sender, mention, source, d, rs)
    PROVE  LET n == Len(messages) + 1 IN
           /\ n \in 1..MaxMessages /\ n \notin 1..Len(messages) /\ 1..Len(messages') = (1..Len(messages)) \cup {n}
           /\ \A v \in Present : v[1] # n /\ v \in Turns /\ v \in Present' /\ messages'[v[1]] = messages[v[1]]
           /\ \A v \in Present' : v \in Turns /\ (v \in Present \/ v[1] = n)
           /\ \A v \in Turns : v[1] = n => v \in Present'
           /\ \A i \in 1..Len(messages) : messages'[i] = messages[i] /\ Parent(i)' = Parent(i)
  <1> DEFINE n == Len(messages) + 1
  <1>1. n \in 1..MaxMessages /\ Len(messages') = n /\ Len(messages) \in Nat
    BY PresentTurns DEF Posted
  <1>2. n \notin 1..Len(messages) /\ 1..Len(messages') = (1..Len(messages)) \cup {n}
    BY <1>1
  <1>3. \A i \in 1..Len(messages) : messages'[i] = messages[i] /\ Parent(i)' = Parent(i)
    BY DEF Posted, Parent
  <1>4. \A v \in Present : v[1] # n /\ v \in Turns /\ v \in Present' /\ messages'[v[1]] = messages[v[1]]
    <2>1. \A v \in Present : v[1] \in 1..Len(messages) /\ v \in Turns
      BY PresentTurns
    <2>2. Present \subseteq Present'
      BY <1>2 DEF Present
    <2>3. QED
      BY <2>1, <2>2, <1>2, <1>3
  <1>5. \A v \in Present' : v \in Turns /\ (v \in Present \/ v[1] = n)
    <2>1. \A v \in Present' : v \in Present \/ (v[1] = n /\ v \in {n} \X Coworkers)
      BY <1>2 DEF Present
    <2>2. {n} \X Coworkers \subseteq Turns
      BY <1>1 DEF Turns
    <2>3. QED
      BY <2>1, <2>2, <1>4
  <1>6. \A v \in Turns : v[1] = n => v \in Present'
    BY <1>2, TurnParts DEF Present
  <1>7. QED
    BY <1>1, <1>2, <1>3, <1>4, <1>5, <1>6

\* What the user's message leaves of the turns, and what it adds.
LEMMA UserTurns ==
    ASSUME ChannelInv, NEW mention \in Coworkers \cup {"everyone", Nobody}, NEW d \in {delivery, Stopped},
           UserPosted(mention, d)
    PROVE  LET n == Len(messages) + 1
               rs == Recipients("user", mention)
           IN /\ \A v \in Turns : v[1] # n =>
                    /\ pc'[v] = pc[v]
                    /\ delivery'[v] = delivery[v] \/ (delivery'[v] = "failed" /\ delivery[v] = "pending")
              /\ \A v \in Turns : v[1] = n =>
                    /\ delivery'[v] = IF v[2] \in rs THEN "pending" ELSE "none"
                    /\ pc'[v] = IF v[2] \in rs /\ ~blocked THEN "queued" ELSE "idle"
  <1> DEFINE n == Len(messages) + 1
             rs == Recipients("user", mention)
             ts == {n} \X rs
  <1>0. ChannelTypeOK /\ Len(messages) \in Nat
    BY PresentTurns DEF ChannelInv
  <1>1. Posted("user", mention, 0, d, rs)
    BY DEF UserPosted
  <1>2. \A v \in Turns : v \in ts <=> v[1] = n /\ v[2] \in rs
    BY TurnParts
  <1>3. \A v \in Turns : v[1] = n => pc[v] = "idle" /\ delivery[v] = "none"
    BY <1>0 DEF ChannelInv, TalkInv, NotYet
  <1>4. \A v \in Turns : pc'[v] = IF v \in ts /\ ~blocked THEN "queued" ELSE pc[v]
    BY DEF UserPosted, ChainBehind
  <1>5. \A v \in Turns : d[v] = delivery[v] \/ (d[v] = "failed" /\ delivery[v] = "pending")
    BY DEF Stopped
  <1> HIDE DEF rs, ts
  <1>6. ASSUME NEW v \in Turns, v[1] # n
        PROVE  pc'[v] = pc[v] /\ (delivery'[v] = delivery[v] \/ (delivery'[v] = "failed" /\ delivery[v] = "pending"))
    <2>1. delivery'[v] = d[v]
      BY <1>1, <1>6 DEF Posted
    <2>2. QED
      BY <2>1, <1>2, <1>4, <1>5, <1>6
  <1>7. ASSUME NEW v \in Turns, v[1] = n
        PROVE  /\ delivery'[v] = IF v[2] \in rs THEN "pending" ELSE "none"
               /\ pc'[v] = IF v[2] \in rs /\ ~blocked THEN "queued" ELSE "idle"
    <2>1. delivery'[v] = IF v[2] \in rs THEN "pending" ELSE d[v]
      BY <1>1, <1>7 DEF Posted
    <2>2. d[v] = "none" /\ pc[v] = "idle"
      BY <1>3, <1>5, <1>7
    <2>3. QED
      BY <2>1, <2>2, <1>2, <1>4, <1>7
  <1>8. QED
    BY <1>6, <1>7 DEF rs

LEMMA UserTalk ==
    ASSUME ChannelInv, NEW mention \in Coworkers \cup {"everyone", Nobody}, NEW d \in {delivery, Stopped},
           UserPosted(mention, d), blocked' = blocked, BlockStays'
    PROVE  TalkInv'
  <1> DEFINE n == Len(messages) + 1
             rs == Recipients("user", mention)
  <1>0. ChannelTypeOK /\ Len(messages) \in Nat
    BY PresentTurns DEF ChannelInv
  <1>p. Posted("user", mention, 0, d, rs)
    BY DEF UserPosted
  <1>r. /\ rs \subseteq Coworkers /\ (mention \in Coworkers => rs = {mention})
        /\ mention = Nobody => \E c \in Coworkers : rs = {c}
        /\ mention = Nobody => rs = {IF CurrentOwner \in Coworkers THEN CurrentOwner ELSE Roster[1]}
    BY RecipientFacts
  <1>m. messages'[n].from = "user" /\ messages'[n].mention = mention /\ Len(messages') = n
    BY <1>p DEF Posted
  <1>q. /\ n \in 1..MaxMessages /\ n \notin 1..Len(messages) /\ 1..Len(messages') = (1..Len(messages)) \cup {n}
        /\ \A v \in Present : v[1] # n /\ v \in Turns /\ v \in Present' /\ messages'[v[1]] = messages[v[1]]
        /\ \A v \in Present' : v \in Turns /\ (v \in Present \/ v[1] = n)
        /\ \A v \in Turns : v[1] = n => v \in Present'
        /\ \A i \in 1..Len(messages) : messages'[i] = messages[i] /\ Parent(i)' = Parent(i)
    BY <1>0, <1>p, PresentPosted
  <1>o. \A v \in Turns : v[1] # n =>
            pc'[v] = pc[v] /\ (delivery'[v] = delivery[v] \/ (delivery'[v] = "failed" /\ delivery[v] = "pending"))
    BY UserTurns
  <1>n. \A v \in Turns : v[1] = n =>
            /\ delivery'[v] = IF v[2] \in rs THEN "pending" ELSE "none"
            /\ pc'[v] = IF v[2] \in rs /\ ~blocked THEN "queued" ELSE "idle"
    BY UserTurns
  <1>f. /\ blocked => flow' = flow
        /\ ~blocked => flow' = FlowOnMessage(mention)
    BY DEF UserPosted
  <1>c. \A i \in 1..Len(messages), c \in Coworkers : <<i, c>> \in Present
    BY <1>0, PresentTurns
  <1> HIDE DEF rs
  <1>1. NotYet'
    <2>1. ASSUME NEW v \in Turns, v[1] > n
          PROVE  pc'[v] = "idle" /\ delivery'[v] = "none"
      <3>1. v[1] # n /\ v[1] > Len(messages)
        BY <2>1, <1>0, TurnParts
      <3>2. pc[v] = "idle" /\ delivery[v] = "none"
        BY <3>1 DEF ChannelInv, TalkInv, NotYet
      <3>3. QED
        BY <3>1, <3>2, <1>o
    <2>2. QED
      BY <2>1, <1>m DEF NotYet
  <1>2. AnswersKnown'
    <2>1. ASSUME NEW i \in 1..Len(messages), messages[i].from # "user"
          PROVE  AnswerKnown(i)'
      <3>1. Parent(i) \in Present /\ AnswerKnown(i)
        BY <2>1, ParentFacts
      <3>2. pc'[Parent(i)] = pc[Parent(i)]
        BY <3>1, <1>q, <1>o
      <3>3. \A c \in Coworkers : pc'[<<i, c>>] = pc[<<i, c>>]
        BY <1>c, <1>q, <1>o
      <3>4. pc[Parent(i)]' = pc[Parent(i)] /\ messages'[i] = messages[i]
        BY <3>2, <1>q
      <3>5. QED
        BY <3>1, <3>3, <3>4, <1>q DEF AnswerKnown
    <2>2. QED
      BY <2>1, <1>m, <1>q DEF AnswersKnown
  <1>3. OneAnswer'
    BY <1>m, <1>q DEF OneAnswer, ChannelInv, TalkInv
  <1>4. HandsOver'
    <2>1. ASSUME NEW t \in Turns, pc'[t] = "handoff"
          PROVE  /\ delivery'[t] # "pending"
                 /\ \E i \in 1..Len(messages) : messages[i].from = t[2] /\ messages[i].replyTo = t[1]
      <3>1. t[1] # n
        BY <2>1, <1>n
      <3>2. pc[t] = "handoff" /\ (delivery'[t] = delivery[t] \/ delivery'[t] = "failed")
        BY <3>1, <2>1, <1>o
      <3>3. QED
        BY <3>2 DEF ChannelInv, TalkInv, HandsOver
    <2>2. QED
      BY <2>1, <1>q DEF HandsOver
  <1>5. DeliveriesKnown'
    <2>1. ASSUME NEW v \in Present
          PROVE  DeliveryKnown(v)'
      <3>1. DeliveryKnown(v) /\ v[1] # n /\ messages'[v[1]] = messages[v[1]]
        BY <1>q DEF ChannelInv, TalkInv, DeliveriesKnown
      <3>2. \A u \in Present : pc'[u] = pc[u] /\ (delivery'[u] # "none" <=> delivery[u] # "none")
        BY <1>q, <1>o
      <3>3. delivery'[v] = delivery[v] \/ delivery'[v] = "failed"
        BY <3>1, <1>q, <1>o
      <3>4. \A u \in Present' : u[1] = v[1] => u \in Present
        BY <3>1, <1>q
      <3>5. pc'[v] # "idle" => delivery'[v] # "none"
        BY <3>1, <3>2 DEF DeliveryKnown
      <3>6. pc'[v] = "queued" => delivery'[v] \in {"pending", "failed"}
        BY <3>1, <3>2, <3>3 DEF DeliveryKnown
      <3>7. delivery'[v] # "none" /\ messages[v[1]].mention # "everyone" =>
                \A u \in Present' : u[1] = v[1] /\ delivery'[u] # "none" => u[2] = v[2]
        BY <3>1, <3>2, <3>4 DEF DeliveryKnown
      <3>8. delivery'[v] # "none" /\ messages[v[1]].mention \in Coworkers => v[2] = messages[v[1]].mention
        BY <3>1, <3>2 DEF DeliveryKnown
      <3>9. QED
        BY <3>1, <3>5, <3>6, <3>7, <3>8 DEF DeliveryKnown
    <2>2. ASSUME NEW v \in Turns, v[1] = n
          PROVE  DeliveryKnown(v)'
      <3>1. messages'[v[1]].mention = mention
        BY <2>2, <1>m
      <3>2. pc'[v] # "idle" => delivery'[v] # "none"
        BY <2>2, <1>n
      <3>3. pc'[v] = "queued" => delivery'[v] \in {"pending", "failed"}
        BY <2>2, <1>n
      <3>4. delivery'[v] # "none" /\ mention # "everyone" =>
                \A u \in Present' : u[1] = v[1] /\ delivery'[u] # "none" => u[2] = v[2]
        BY <2>2, <1>n, <1>q, <1>r
      <3>5. delivery'[v] # "none" /\ mention \in Coworkers => v[2] = mention
        BY <2>2, <1>n, <1>r
      <3>6. QED
        BY <3>1, <3>2, <3>3, <3>4, <3>5 DEF DeliveryKnown
    <2>3. QED
      BY <2>1, <2>2, <1>q DEF DeliveriesKnown
  <1>6. SourceKnown'
    <2>1. CASE blocked
      <3>1. SUFFICES ASSUME flow.source # 0
                     PROVE  /\ flow.source \in 1..Len(messages')
                            /\ \E c \in Coworkers : pc'[<<flow.source, c>>] \in Answered
        BY <2>1, <1>f DEF SourceKnown
      <3>2. flow.source \in 1..Len(messages) /\ \E c \in Coworkers : pc[<<flow.source, c>>] \in Answered
        BY <3>1 DEF ChannelInv, TalkInv, SourceKnown
      <3>3. \A c \in Coworkers : pc'[<<flow.source, c>>] = pc[<<flow.source, c>>]
        BY <3>2, <1>c, <1>q, <1>o
      <3>4. QED
        BY <3>2, <3>3, <1>q
    <2>2. CASE ~blocked
      BY <2>2, <1>0, <1>f, FlowOnMessageType DEF SourceKnown
    <2>3. QED
      BY <2>1, <2>2
  <1>7. AddressedIsScheduled'
    <2>1. ASSUME NEW v \in Present', delivery'[v] = "pending", ~blocked',
                 ~(messages'[v[1]].from # "user" /\ messages'[v[1]].mention = Nobody),
                 pc'[v] \notin Live \cup {"lost"}
          PROVE  /\ messages'[v[1]].from # "user"
                 /\ pc'[Parent(v[1])'] \in {"handoff", "lost"} \/ delivery'[Parent(v[1])'] = "failed"
      <3>1. v[1] # n /\ v \in Present
        <4>1. v[1] # n
          BY <2>1, <1>n, <1>q DEF Live
        <4>2. QED
          BY <4>1, <1>q
      <3>2. pc[v] = pc'[v] /\ delivery[v] = "pending" /\ messages'[v[1]] = messages[v[1]] /\ v[1] \in 1..Len(messages)
        BY <3>1, <2>1, <1>o, <1>q, <1>0, PresentTurns
      <3>3. /\ messages[v[1]].from # "user"
            /\ pc[Parent(v[1])] \in {"handoff", "lost"} \/ delivery[Parent(v[1])] = "failed"
        BY <3>1, <3>2, <2>1 DEF ChannelInv, TalkInv, AddressedIsScheduled, Parent
      <3>4. Parent(v[1]) \in Present /\ Parent(v[1])' = Parent(v[1])
        BY <3>2, <3>3, <1>q, ParentFacts
      <3>5. /\ pc'[Parent(v[1])] = pc[Parent(v[1])]
            /\ delivery[Parent(v[1])] = "failed" => delivery'[Parent(v[1])] = "failed"
        BY <3>4, <1>q, <1>o
      <3>6. QED
        BY <3>2, <3>3, <3>4, <3>5
    <2>2. QED
      BY <2>1 DEF AddressedIsScheduled, Parent
  <1>8. OwnerCarries'
    <2>1. SUFFICES ASSUME Undisturbed', flow'.owner # 0
                   PROVE  \E t \in Present' : t[2] = Order[flow'.owner] /\ Carries(t)'
      BY DEF OwnerCarries
    <2>2. /\ ~blocked /\ \A t \in Present' : pc'[t] # "lost" /\ (delivery'[t] = "failed" => pc'[t] \in Answering)
          /\ mention # "everyone"
      BY <2>1, <1>m, <1>q DEF Undisturbed
    <2>3. \A i \in 1..Len(messages) : messages[i].mention # "everyone"
      BY <2>1, <1>q DEF Undisturbed
    <2>4. Undisturbed
      <3>1. ASSUME NEW t \in Present
            PROVE  pc[t] # "lost" /\ (delivery[t] = "failed" => pc[t] \in Answering)
        BY <2>2, <1>q, <1>o
      <3>2. QED
        BY <3>1, <2>2, <2>3 DEF Undisturbed
    <2>5. ASSUME NEW c \in rs, c \in Coworkers, c = Order[flow'.owner]
          PROVE  \E t \in Present' : t[2] = Order[flow'.owner] /\ Carries(t)'
      <3>1. <<n, c>> \in Turns /\ <<n, c>>[1] = n /\ <<n, c>>[2] = c
        BY <2>5, <1>q, TurnParts
      <3>2. <<n, c>> \in Present' /\ pc'[<<n, c>>] = "queued"
        BY <3>1, <2>2, <2>5, <1>n, <1>q
      <3>3. QED
        BY <3>1, <3>2, <2>5 DEF Carries, Answering
    <2>6. CASE mention \in Coworkers
      BY <2>2, <2>5, <2>6, <1>0, <1>f, <1>r, FlowOnMessageType
    <2>7. CASE mention = Nobody /\ flow.owner = 0
      <3>0. 1 \in 1..Len(Roster)
        BY RosterFacts
      <3>1. Order[1] = Roster[1] /\ Roster[1] \in Coworkers /\ Nobody \notin Coworkers
        BY <3>0, OrderFacts, RosterFacts
      <3>2. flow'.owner = 1
        BY <2>2, <2>7, <3>1, <1>0, <1>f, FlowOnMessageType
      <3>3. CurrentOwner = Nobody
        BY <2>7 DEF CurrentOwner
      <3>4. Roster[1] \in rs
        BY <2>7, <3>1, <3>3, <1>r
      <3>5. QED
        BY <2>5, <3>1, <3>2, <3>4
    <2>8. CASE mention = Nobody /\ flow.owner # 0
      <3>1. flow'.owner = flow.owner
        BY <2>2, <2>8, <1>0, <1>f, FlowOnMessageType, RosterFacts
      <3>2. PICK t \in Present : t[2] = Order[flow.owner] /\ Carries(t)
        BY <2>4, <2>8 DEF ChannelInv, TalkInv, OwnerCarries
      <3>3. pc'[t] = pc[t] /\ t \in Present' /\ t[1] \in 1..Len(messages) /\ messages'[t[1]] = messages[t[1]]
        BY <1>0, <1>q, <1>o, PresentTurns
      <3>4. CASE pc[t] \in Answering
        BY <3>1, <3>2, <3>3, <3>4 DEF Carries
      <3>5. CASE /\ pc[t] = "idle" /\ delivery[t] = "pending"
               /\ messages[t[1]].from # "user" /\ pc[Parent(t[1])] = "handoff"
        <4>1. delivery'[t] = "pending"
          BY <3>3, <3>5, <2>2, <1>q, <1>o DEF Answering
        <4>2. Parent(t[1])' = Parent(t[1]) /\ pc'[Parent(t[1])] = "handoff"
          BY <3>3, <3>5, <1>q, <1>o, ParentFacts
        <4>3. Carries(t)'
          BY <4>1, <4>2, <3>3, <3>5 DEF Carries
        <4>4. QED
          BY <4>3, <3>1, <3>2, <3>3
      <3>6. QED
        BY <3>2, <3>4, <3>5 DEF Carries
    <2>9. QED
      BY <2>2, <2>6, <2>7, <2>8
  <1>9. QED
    BY <1>1, <1>2, <1>3, <1>4, <1>5, <1>6, <1>7, <1>8 DEF TalkInv

\* What an answer leaves of the turns, and what it adds.
LEMMA ReplyTurns ==
    ASSUME ChannelInv, NEW t \in Turns, pc[t] = "reply", NEW target \in Coworkers \cup {Nobody}, NEW rs,
           Posted(t[2], target, t[1], Marked(t, "delivered"), rs),
           \/ target = Nobody /\ Over(t)
           \/ target # Nobody /\ pc' = [pc EXCEPT ![t] = "handoff"]
    PROVE  LET n == Len(messages) + 1 IN
           /\ t \in Present /\ t[1] # n
           /\ pc'[t] = (IF target = Nobody THEN "over" ELSE "handoff") /\ delivery'[t] = "delivered"
           /\ \A v \in Turns : v[1] # n /\ v # t => pc'[v] = pc[v] /\ delivery'[v] = delivery[v]
           /\ \A v \in Turns : v[1] = n =>
                pc'[v] = "idle" /\ delivery'[v] = (IF v[2] \in rs THEN "pending" ELSE "none")
  <1> DEFINE n == Len(messages) + 1
  <1>0. ChannelTypeOK /\ Len(messages) \in Nat
    BY PresentTurns DEF ChannelInv
  <1>1. t \in Present
    BY <1>0, PresentTurns, TurnParts DEF ChannelInv, TalkInv, NotYet
  <1>2. t[1] \in 1..Len(messages) /\ t[1] # n
    BY <1>0, <1>1, PresentTurns
  <1>3. \A v \in Turns : pc'[v] = IF v = t THEN (IF target = Nobody THEN "over" ELSE "handoff") ELSE pc[v]
    BY <1>0 DEF Over, ChannelTypeOK
  <1>4. \A v \in Turns : Marked(t, "delivered")[v] = IF v = t THEN "delivered" ELSE delivery[v]
    BY <1>0 DEF Marked, ChannelTypeOK
  <1>5. \A v \in Turns : v[1] = n => pc[v] = "idle" /\ delivery[v] = "none"
    BY <1>0 DEF ChannelInv, TalkInv, NotYet
  <1>6. \A v \in Turns : /\ v[1] # n => delivery'[v] = Marked(t, "delivered")[v]
                         /\ v[1] = n => delivery'[v] = IF v[2] \in rs THEN "pending" ELSE Marked(t, "delivered")[v]
    BY DEF Posted
  <1>7. QED
    BY <1>1, <1>2, <1>3, <1>4, <1>5, <1>6

LEMMA ReplyTalk ==
    ASSUME ChannelInv, NEW t \in Turns, ReplyKind(t), BlockStays', NEW target, Replied(t, target), target # t[2],
           Posted(t[2], target, t[1], Marked(t, "delivered"), Recipients(t[2], target)),
           \/ target = Nobody /\ Over(t)
           \/ target # Nobody /\ pc' = [pc EXCEPT ![t] = "handoff"] /\ UNCHANGED chains
    PROVE  TalkInv'
  <1> DEFINE n == Len(messages) + 1
             rs == Recipients(t[2], target)
  <1>0. ChannelTypeOK /\ Len(messages) \in Nat
    BY PresentTurns DEF ChannelInv
  <1>t. /\ target \in Coworkers \cup {Nobody} /\ pc[t] = "reply" /\ blocked' = blocked
        /\ t[2] \in Coworkers /\ t[2] # "user" /\ t = <<t[1], t[2]>>
        /\ Nobody \notin Coworkers /\ "everyone" \notin Coworkers /\ Nobody # "everyone"
    BY TurnParts, RosterFacts DEF Replied, ReplyKind
  <1>p. Posted(t[2], target, t[1], Marked(t, "delivered"), rs)
    OBVIOUS
  <1>r. /\ rs \subseteq Coworkers /\ (target \in Coworkers => rs = {target})
        /\ target = Nobody => \E c \in Coworkers : rs = {c}
    BY <1>t, RecipientFacts
  <1>m. messages'[n].from = t[2] /\ messages'[n].mention = target /\ messages'[n].replyTo = t[1] /\ Len(messages') = n
    BY <1>p DEF Posted
  <1>q. /\ n \in 1..MaxMessages /\ n \notin 1..Len(messages) /\ 1..Len(messages') = (1..Len(messages)) \cup {n}
        /\ \A v \in Present : v[1] # n /\ v \in Turns /\ v \in Present' /\ messages'[v[1]] = messages[v[1]]
        /\ \A v \in Present' : v \in Turns /\ (v \in Present \/ v[1] = n)
        /\ \A v \in Turns : v[1] = n => v \in Present'
        /\ \A i \in 1..Len(messages) : messages'[i] = messages[i] /\ Parent(i)' = Parent(i)
    BY <1>0, <1>p, PresentPosted
  <1>v. /\ t \in Present /\ t[1] # n
        /\ pc'[t] = (IF target = Nobody THEN "over" ELSE "handoff") /\ delivery'[t] = "delivered"
        /\ \A v \in Turns : v[1] # n /\ v # t => pc'[v] = pc[v] /\ delivery'[v] = delivery[v]
        /\ \A v \in Turns : v[1] = n =>
                pc'[v] = "idle" /\ delivery'[v] = (IF v[2] \in rs THEN "pending" ELSE "none")
    BY <1>p, <1>t, ReplyTurns
  <1>c. /\ \A i \in 1..Len(messages), c \in Coworkers : <<i, c>> \in Present
        /\ \A v \in Present : v[1] \in 1..Len(messages)
    BY <1>0, PresentTurns
  <1>k. DeliveryKnown(t) /\ delivery[t] # "none"
    BY <1>t, <1>v DEF ChannelInv, TalkInv, DeliveriesKnown, DeliveryKnown
  <1>a. \A i \in 1..Len(messages) : messages[i].from # "user" => Parent(i) # t
    BY <1>t, ParentFacts DEF Answered
  <1>e. \A i \in 1..Len(messages') : i = n => Parent(i)' = t
    BY <1>m, <1>t DEF Parent
  <1> HIDE DEF rs
  <1>1. NotYet'
    <2>1. ASSUME NEW v \in Turns, v[1] > n
          PROVE  pc'[v] = "idle" /\ delivery'[v] = "none"
      <3>1. v[1] # n /\ v[1] > Len(messages) /\ v # t
        BY <2>1, <1>0, <1>c, <1>v, TurnParts
      <3>2. pc[v] = "idle" /\ delivery[v] = "none"
        BY <3>1 DEF ChannelInv, TalkInv, NotYet
      <3>3. QED
        BY <3>1, <3>2, <1>v
    <2>2. QED
      BY <2>1, <1>m DEF NotYet
  <1>2. AnswersKnown'
    <2>1. ASSUME NEW i \in 1..Len(messages), messages[i].from # "user"
          PROVE  AnswerKnown(i)'
      <3>1. Parent(i) \in Present /\ AnswerKnown(i)
        BY <2>1, ParentFacts
      <3>2. pc'[Parent(i)] = pc[Parent(i)]
        BY <3>1, <2>1, <1>a, <1>q, <1>v
      <3>3. \A c \in Coworkers : pc[<<i, c>>] = "idle" => pc'[<<i, c>>] = "idle"
        BY <1>c, <1>q, <1>t, <1>v
      <3>4. pc[Parent(i)]' = pc[Parent(i)] /\ messages'[i] = messages[i]
        BY <3>2, <1>q
      <3>5. QED
        BY <3>1, <3>3, <3>4, <1>q DEF AnswerKnown
    <2>2. ASSUME NEW i \in 1..Len(messages'), i = n
          PROVE  AnswerKnown(i)'
      <3>1. \A c \in Coworkers : pc'[<<i, c>>] = "idle"
        <4>1. SUFFICES ASSUME NEW c \in Coworkers PROVE pc'[<<i, c>>] = "idle"
          OBVIOUS
        <4>2. <<i, c>> \in Turns /\ <<i, c>>[1] = n
          BY <2>2, <1>q, TurnParts
        <4>3. QED
          BY <4>2, <1>v
      <3>2. pc[Parent(i)]' = pc'[t]
        BY <2>2, <1>e
      <3>3. messages'[i].replyTo \in 1..Len(messages')
        BY <2>2, <1>c, <1>v, <1>q, <1>m
      <3>4. messages'[i].mention \in (Coworkers \ {messages'[i].from}) \cup {Nobody}
        BY <2>2, <1>m, <1>t
      <3>5. pc[Parent(i)]' \in Answered /\ (pc[Parent(i)]' = "handoff" => messages'[i].mention # Nobody)
        BY <2>2, <3>2, <1>v, <1>m DEF Answered
      <3>6. QED
        BY <3>1, <3>3, <3>4, <3>5 DEF AnswerKnown
    <2>3. SUFFICES ASSUME NEW i \in 1..Len(messages'), messages'[i].from # "user"
                   PROVE  AnswerKnown(i)'
      BY DEF AnswersKnown
    <2>4. CASE i = n
      BY <2>2, <2>4
    <2>5. CASE i # n
      <3>1. i \in 1..Len(messages) /\ messages'[i] = messages[i]
        BY <2>5, <1>q
      <3>2. QED
        BY <3>1, <2>1, <2>3
    <2>6. QED
      BY <2>4, <2>5
  <1>3. OneAnswer'
    <2>1. ASSUME NEW j \in 1..Len(messages), messages[j].from = t[2], messages[j].replyTo = t[1]
          PROVE  FALSE
      <3>1. Parent(j) = t
        BY <2>1, <1>t DEF Parent
      <3>2. QED
        BY <3>1, <2>1, <1>a, <1>t
    <2>2. ASSUME NEW i \in 1..Len(messages'), NEW j \in 1..Len(messages'),
                 messages'[i].from # "user", messages'[j].from = messages'[i].from,
                 messages'[j].replyTo = messages'[i].replyTo
          PROVE  i = j
      <3>1. CASE i # n /\ j # n
        <4>1. i \in 1..Len(messages) /\ j \in 1..Len(messages)
          BY <3>1, <1>q
        <4>2. messages'[i] = messages[i] /\ messages'[j] = messages[j]
          BY <4>1, <1>q
        <4>3. QED
          BY <4>1, <4>2, <2>2 DEF ChannelInv, TalkInv, OneAnswer
      <3>2. CASE i = n /\ j # n
        BY <3>2, <2>1, <2>2, <1>m, <1>q
      <3>3. CASE i # n /\ j = n
        BY <3>3, <2>1, <2>2, <1>m, <1>q
      <3>4. QED
        BY <3>1, <3>2, <3>3
    <2>3. QED
      BY <2>2 DEF OneAnswer
  <1>4. HandsOver'
    <2>1. ASSUME NEW u \in Turns, pc'[u] = "handoff", u # t
          PROVE  /\ delivery'[u] # "pending"
                 /\ \E i \in 1..Len(messages) : messages[i].from = u[2] /\ messages[i].replyTo = u[1]
      <3>1. u[1] # n
        BY <2>1, <1>v
      <3>2. pc[u] = "handoff" /\ delivery'[u] = delivery[u]
        BY <3>1, <2>1, <1>v
      <3>3. QED
        BY <3>2 DEF ChannelInv, TalkInv, HandsOver
    <2>2. delivery'[t] # "pending" /\ n \in 1..Len(messages') /\ messages'[n].from = t[2] /\ messages'[n].replyTo = t[1]
      BY <1>v, <1>m, <1>q
    <2>3. QED
      BY <2>1, <2>2, <1>q DEF HandsOver
  <1>5. DeliveriesKnown'
    <2>1. ASSUME NEW v \in Present
          PROVE  DeliveryKnown(v)'
      <3>1. DeliveryKnown(v) /\ v[1] # n /\ messages'[v[1]] = messages[v[1]]
        BY <1>q DEF ChannelInv, TalkInv, DeliveriesKnown
      <3>2. \A u \in Present : delivery'[u] # "none" <=> delivery[u] # "none"
        BY <1>k, <1>q, <1>v
      <3>3. v = t \/ (pc'[v] = pc[v] /\ delivery'[v] = delivery[v])
        BY <3>1, <1>q, <1>v
      <3>4. \A u \in Present' : u[1] = v[1] => u \in Present
        BY <3>1, <1>q
      <3>5. pc'[v] # "idle" => delivery'[v] # "none"
        BY <3>1, <3>3, <1>v DEF DeliveryKnown
      <3>6. pc'[v] = "queued" => delivery'[v] \in {"pending", "failed"}
        BY <3>1, <3>3, <1>v DEF DeliveryKnown
      <3>7. delivery'[v] # "none" /\ messages[v[1]].mention # "everyone" =>
                \A u \in Present' : u[1] = v[1] /\ delivery'[u] # "none" => u[2] = v[2]
        BY <3>1, <3>2, <3>4 DEF DeliveryKnown
      <3>8. delivery'[v] # "none" /\ messages[v[1]].mention \in Coworkers => v[2] = messages[v[1]].mention
        BY <3>1, <3>2 DEF DeliveryKnown
      <3>9. QED
        BY <3>1, <3>5, <3>6, <3>7, <3>8 DEF DeliveryKnown
    <2>2. ASSUME NEW v \in Turns, v[1] = n
          PROVE  DeliveryKnown(v)'
      <3>1. messages'[v[1]].mention = target
        BY <2>2, <1>m
      <3>2. pc'[v] = "idle"
        BY <2>2, <1>v
      <3>3. delivery'[v] # "none" => \A u \in Present' : u[1] = v[1] /\ delivery'[u] # "none" => u[2] = v[2]
        BY <2>2, <1>v, <1>q, <1>r, <1>t
      <3>4. delivery'[v] # "none" /\ target \in Coworkers => v[2] = target
        BY <2>2, <1>v, <1>r
      <3>5. QED
        BY <3>1, <3>2, <3>3, <3>4 DEF DeliveryKnown
    <2>3. QED
      BY <2>1, <2>2, <1>q DEF DeliveriesKnown
  <1>6. SourceKnown'
    <2>1. flow'.source \in {flow.source, t[1]}
      BY DEF Replied
    <2>2. CASE flow'.source = t[1]
      <3>1. pc'[<<t[1], t[2]>>] \in Answered
        BY <1>t, <1>v DEF Answered
      <3>2. t[1] \in 1..Len(messages')
        BY <1>c, <1>v, <1>q
      <3>3. QED
        BY <3>1, <3>2, <2>2, <1>t DEF SourceKnown
    <2>3. CASE flow'.source = flow.source
      <3>1. SUFFICES ASSUME flow.source # 0
                     PROVE  /\ flow.source \in 1..Len(messages')
                            /\ \E c \in Coworkers : pc'[<<flow.source, c>>] \in Answered
        BY <2>3 DEF SourceKnown
      <3>2. PICK c \in Coworkers : flow.source \in 1..Len(messages) /\ pc[<<flow.source, c>>] \in Answered
        BY <3>1 DEF ChannelInv, TalkInv, SourceKnown
      <3>3. pc'[<<flow.source, c>>] = pc[<<flow.source, c>>]
        BY <3>2, <1>c, <1>q, <1>t, <1>v DEF Answered
      <3>4. QED
        BY <3>2, <3>3, <1>q
    <2>4. QED
      BY <2>1, <2>2, <2>3
  <1>7. AddressedIsScheduled'
    <2>1. ASSUME NEW v \in Present', delivery'[v] = "pending", ~blocked',
                 ~(messages'[v[1]].from # "user" /\ messages'[v[1]].mention = Nobody),
                 pc'[v] \notin Live \cup {"lost"}
          PROVE  /\ messages'[v[1]].from # "user"
                 /\ pc'[Parent(v[1])'] \in {"handoff", "lost"} \/ delivery'[Parent(v[1])'] = "failed"
      <3>1. CASE v[1] = n
        <4>1. messages'[v[1]].from = t[2] /\ messages'[v[1]].mention = target
          BY <3>1, <1>m
        <4>2. v[1] \in 1..Len(messages') /\ Parent(v[1])' = t
          BY <3>1, <1>e, <1>q
        <4>3. target # Nobody
          BY <4>1, <2>1, <1>t
        <4>4. QED
          BY <4>1, <4>2, <4>3, <1>t, <1>v
      <3>2. CASE v[1] # n
        <4>1. v \in Present /\ v # t /\ v[1] \in 1..Len(messages)
          BY <3>2, <2>1, <1>c, <1>q, <1>v
        <4>2. pc[v] = pc'[v] /\ delivery[v] = "pending" /\ messages'[v[1]] = messages[v[1]]
          BY <4>1, <2>1, <1>v, <1>q
        <4>3. /\ messages[v[1]].from # "user"
              /\ pc[Parent(v[1])] \in {"handoff", "lost"} \/ delivery[Parent(v[1])] = "failed"
          BY <4>1, <4>2, <2>1, <1>t DEF ChannelInv, TalkInv, AddressedIsScheduled, Parent
        <4>4. Parent(v[1]) \in Present /\ Parent(v[1])' = Parent(v[1]) /\ Parent(v[1]) # t
          BY <4>1, <4>3, <1>a, <1>q, ParentFacts
        <4>5. pc'[Parent(v[1])] = pc[Parent(v[1])] /\ delivery'[Parent(v[1])] = delivery[Parent(v[1])]
          BY <4>4, <1>q, <1>v
        <4>6. QED
          BY <4>2, <4>3, <4>4, <4>5
      <3>3. QED
        BY <3>1, <3>2
    <2>2. QED
      BY <2>1 DEF AddressedIsScheduled, Parent
  <1>8. OwnerCarries'
    <2>1. SUFFICES ASSUME Undisturbed', flow'.owner # 0
                   PROVE  \E u \in Present' : u[2] = Order[flow'.owner] /\ Carries(u)'
      BY DEF OwnerCarries
    <2>2. ~blocked /\ \A u \in Present' : pc'[u] # "lost" /\ (delivery'[u] = "failed" => pc'[u] \in Answering)
      BY <2>1, <1>t DEF Undisturbed
    <2>3. \A i \in 1..Len(messages) : messages[i].mention # "everyone"
      BY <2>1, <1>q DEF Undisturbed
    <2>4. Undisturbed
      <3>1. ASSUME NEW u \in Present
            PROVE  pc[u] # "lost" /\ (delivery[u] = "failed" => pc[u] \in Answering)
        BY <2>2, <1>q, <1>t, <1>v DEF Answering
      <3>2. QED
        BY <3>1, <2>2, <2>3 DEF Undisturbed
    <2>5. CASE Owns(t)
      <3>1. ~Repeated(t)
        <4>1. SUFFICES ASSUME flow.source = t[1] PROVE FALSE
          BY DEF Repeated
        <4>2. flow.source # 0
          BY <4>1, <1>0, <1>c, <1>v
        <4>3. PICK c \in Coworkers : pc[<<t[1], c>>] \in Answered
          BY <4>1, <4>2 DEF ChannelInv, TalkInv, SourceKnown
        <4>4. <<t[1], c>> \in Present /\ <<t[1], c>>[1] = t[1] /\ <<t[1], c>>[2] = c
          BY <1>c, <1>v
        <4>5. delivery[<<t[1], c>>] # "none"
          BY <4>3, <4>4 DEF ChannelInv, TalkInv, DeliveriesKnown, DeliveryKnown, Answered
        <4>6. messages[t[1]].mention # "everyone"
          BY <2>3, <1>c, <1>v
        <4>7. c = t[2]
          BY <4>4, <4>5, <4>6, <1>k DEF DeliveryKnown
        <4>8. QED
          BY <4>3, <4>7, <1>t DEF Answered
      <3>2. target \in Coworkers /\ Order[flow'.owner] = target
        BY <3>1, <2>1, <2>5 DEF Replied
      <3>3. PICK u : u = <<n, target>>
        OBVIOUS
      <3>4. u \in Turns /\ u[1] = n /\ u[2] = target
        BY <3>2, <3>3, <1>q, TurnParts
      <3>5. u \in Present' /\ pc'[u] = "idle" /\ delivery'[u] = "pending"
        BY <3>2, <3>4, <1>q, <1>r, <1>v
      <3>6. u[1] \in 1..Len(messages') /\ messages'[u[1]].from # "user" /\ pc[Parent(u[1])]' = "handoff"
        BY <3>2, <3>4, <1>e, <1>m, <1>q, <1>t, <1>v
      <3>7. Carries(u)'
        BY <3>5, <3>6 DEF Carries
      <3>8. QED
        BY <3>2, <3>4, <3>5, <3>7
    <2>6. CASE ~Owns(t)
      <3>1. flow'.owner = flow.owner
        BY <2>6 DEF Replied
      <3>2. PICK u \in Present : u[2] = Order[flow.owner] /\ Carries(u)
        BY <3>1, <2>1, <2>4 DEF ChannelInv, TalkInv, OwnerCarries
      <3>3. u # t
        BY <3>1, <3>2, <2>1, <2>6 DEF Owns
      <3>4. pc'[u] = pc[u] /\ delivery'[u] = delivery[u] /\ u \in Present' /\ u[1] \in 1..Len(messages)
            /\ messages'[u[1]] = messages[u[1]]
        BY <3>3, <1>c, <1>q, <1>v
      <3>5. CASE pc[u] \in Answering
        BY <3>1, <3>2, <3>4, <3>5 DEF Carries
      <3>6. CASE /\ pc[u] = "idle" /\ delivery[u] = "pending"
               /\ messages[u[1]].from # "user" /\ pc[Parent(u[1])] = "handoff"
        <4>1. Parent(u[1])' = Parent(u[1]) /\ pc'[Parent(u[1])] = "handoff"
          BY <3>4, <3>6, <1>a, <1>q, <1>v, ParentFacts
        <4>2. Carries(u)'
          BY <4>1, <3>4, <3>6 DEF Carries
        <4>3. QED
          BY <4>2, <3>1, <3>2, <3>4
      <3>7. QED
        BY <3>2, <3>5, <3>6 DEF Carries
    <2>7. QED
      BY <2>5, <2>6
  <1>9. QED
    BY <1>1, <1>2, <1>3, <1>4, <1>5, <1>6, <1>7, <1>8 DEF TalkInv

-----------------------------------------------------------------------------
(* The inductive invariant *)

LEMMA TalkNext ==
    ASSUME ChannelInv, [ChannelNext]_channelVars
    PROVE  TalkInv'
  <1>0. ChannelTypeOK
    BY DEF ChannelInv
  <1>a. BlockStays' /\ (blocked => blocked')
    BY <1>0, BlockNext DEF ChannelInv, TalkInv
  <1>b. Kinds
    BY <1>0, StepKinds
  <1>1. CASE UserKind
    <2>1. PICK mention \in UserMentions, d \in {delivery, Stopped} : UserPosts(mention, d)
      BY <1>1 DEF UserKind
    <2>2. d \in [Turns -> Marks]
      BY <2>1, <1>0, StoppedType DEF ChannelTypeOK
    <2>3. UserPosted(mention, d) /\ mention \in Coworkers \cup {"everyone", Nobody}
      BY <2>1, <2>2, <1>0, UserPostsFacts
    <2>4. blocked' = blocked
      BY <1>1 DEF UserKind
    <2>5. QED
      BY <2>3, <2>4, <1>a, UserTalk
  <1>2. CASE \E t \in Turns : ReplyKind(t)
    <2>1. PICK t \in Turns : ReplyKind(t)
      BY <1>2
    <2>2. PICK target : Replied(t, target)
      BY <2>1, <1>0, ReplyFacts DEF ReplyKind
    <2>3. CASE Ends(t, "failed") /\ messages' = messages
      BY <2>1, <2>2, <2>3, <1>a, QuietReply, QuietTalk
    <2>4. CASE /\ target # t[2]
               /\ Posted(t[2], target, t[1], Marked(t, "delivered"), Recipients(t[2], target))
               /\ \/ target = Nobody /\ Over(t)
                  \/ target # Nobody /\ pc' = [pc EXCEPT ![t] = "handoff"] /\ UNCHANGED chains
      BY <2>1, <2>2, <2>4, <1>a, ReplyTalk
    <2>5. QED
      BY <2>2, <2>3, <2>4 DEF Replied
  <1>3. CASE \/ StopKind \/ OtherKind \/ RestartKind
             \/ \E t \in Turns : \/ \E s \in {"bind", "loop", "reply"} : MoveKind(t, s)
                                 \/ \E s \in Marks : EndKind(t, s)
                                 \/ HandoffKind(t)
    BY <1>3, <1>a, QuietKinds, QuietTalk
  <1>4. QED
    BY <1>b, <1>1, <1>2, <1>3 DEF Kinds

LEMMA ChannelInvInit == ASSUME ChannelInit PROVE ChannelInv
  <1>0. Nobody \notin Coworkers /\ Coworkers # {} /\ Len(Order) \in Nat
    BY RosterFacts, OrderFacts
  <1>1. ChannelTypeOK
    <2>1. messages \in Seq(Message) /\ Len(messages) <= MaxMessages
      BY RosterAssumption DEF ChannelInit
    <2>2. /\ delivery \in [Turns -> Marks] /\ pc \in [Turns -> TurnStates]
          /\ after \in [Turns -> Turns \cup {NoTurn}]
      BY DEF ChannelInit, Marks, TurnStates
    <2>3. chain \in [Coworkers -> Turns \cup {NoTurn}] /\ active \in [Coworkers -> Turns \cup {NoTurn}]
      BY DEF ChannelInit
    <2>4. flow \in FlowState
      BY <1>0 DEF ChannelInit, FlowState
    <2>5. away \subseteq Coworkers /\ blocked \in BOOLEAN /\ outcome \in OutcomeState
      BY DEF ChannelInit, OutcomeState
    <2>6. QED
      BY <2>1, <2>2, <2>3, <2>4, <2>5 DEF ChannelTypeOK
  <1>2. ChainInv
    <2>1. PICK rank \in [Turns -> Nat] : TRUE
      <3>1. [t \in Turns |-> 0] \in [Turns -> Nat]
        OBVIOUS
      <3>2. QED
        BY <3>1
    <2>2. /\ \A t \in Turns : pc[t] \notin Live /\ pc[t] \notin {"loop", "reply", "handoff"} /\ pc[t] \notin Working
          /\ \A c \in Coworkers : chain[c] = NoTurn
      BY DEF ChannelInit, Live, Working
    <2>3. Ranked(pc, after, chain, rank)
      BY <2>2 DEF Ranked
    <2>4. QED
      BY <2>1, <2>2, <2>3 DEF ChainInv, InOrder, WorkAtHead, ActiveKnown
  <1>3. Len(messages) = 0 /\ Present = {}
    BY DEF ChannelInit, Present
  <1>4. NotYet /\ HandsOver /\ SourceKnown /\ BlockStays
    BY DEF ChannelInit, NotYet, HandsOver, SourceKnown, BlockStays, Taken
  <1>5. AnswersKnown /\ OneAnswer /\ DeliveriesKnown /\ AddressedIsScheduled
    BY <1>3 DEF AnswersKnown, OneAnswer, DeliveriesKnown, AddressedIsScheduled
  <1>6. OwnerCarries
    BY DEF ChannelInit, OwnerCarries
  <1>7. QED
    BY <1>1, <1>2, <1>4, <1>5, <1>6 DEF ChannelInv, TalkInv

LEMMA ChannelInvNext == ASSUME ChannelInv, [ChannelNext]_channelVars PROVE ChannelInv'
  BY ChannelTypeNext, ChainNext, TalkNext DEF ChannelInv

\* The channel's state is always of its type, every coworker's turns form one chain in the order in which they were
\* scheduled, every answer belongs to a turn that gave it once, and the owner of a flow in which nothing has gone wrong
\* has a turn that will carry it on.
THEOREM ChannelInvariant == ChannelSpec => []ChannelInv
  <1>1. ChannelInit => ChannelInv
    BY ChannelInvInit
  <1>2. ChannelInv /\ [ChannelNext]_channelVars => ChannelInv'
    BY ChannelInvNext
  <1>3. QED
    BY <1>1, <1>2, PTL DEF ChannelSpec

\* Whatever turns end, fail, are stopped or scheduled around it, the task of every turn that has begun to run is the one
\* that a stop of its coworker cancels (activeTasks).
THEOREM StopReachesWork == ChannelSpec => []StopReachesTurn
  <1>1. ASSUME ChannelInv PROVE StopReachesTurn
    <2>1. Present \subseteq Turns
      BY <1>1, PresentTurns DEF ChannelInv
    <2>2. QED
      BY <1>1, <2>1 DEF ChannelInv, ChainInv, ActiveKnown, StopReachesTurn
  <1>2. QED
    BY <1>1, ChannelInvariant, PTL

\* A pending delivery to the one a message was addressed to always has a turn that settles it, or the reason why not is
\* on record: a blocked conversation, a restart, a failed hand-off.
THEOREM RequestsAreScheduled == ChannelSpec => []AddressedIsScheduled
  <1>1. ASSUME ChannelInv PROVE AddressedIsScheduled
    BY <1>1 DEF ChannelInv, TalkInv
  <1>2. QED
    BY <1>1, ChannelInvariant, PTL

\* A team's flow is complete when its turns are over and none has failed: of any team, any order of messages, mentions,
\* hand-offs and stops.
THEOREM FlowsFinish == ChannelSpec => []FlowFinishes
  <1>1. ASSUME ChannelInv PROVE FlowFinishes
    <2>1. SUFFICES ASSUME ~blocked, flow.owner # 0,
                          \A t \in Present : pc[t] \in {"idle", "over"} /\ delivery[t] # "failed",
                          \A i \in DOMAIN messages : messages[i].mention # "everyone"
                   PROVE  FALSE
      BY DEF FlowFinishes
    <2>2. DOMAIN messages = 1..Len(messages)
      BY <1>1 DEF ChannelInv, ChannelTypeOK
    <2>3. Undisturbed
      BY <2>1, <2>2 DEF Undisturbed
    <2>4. PICK t \in Present : Carries(t)
      BY <1>1, <2>1, <2>3 DEF ChannelInv, TalkInv, OwnerCarries
    <2>5. messages[t[1]].from # "user" /\ pc[Parent(t[1])] = "handoff"
      BY <2>1, <2>4 DEF Carries, Answering
    <2>6. t[1] \in 1..Len(messages)
      BY <1>1, PresentTurns DEF ChannelInv
    <2>7. Parent(t[1]) \in Present
      BY <1>1, <2>5, <2>6, ParentFacts
    <2>8. QED
      BY <2>1, <2>5, <2>7
  <1>2. QED
    BY <1>1, ChannelInvariant, PTL
=============================================================================
