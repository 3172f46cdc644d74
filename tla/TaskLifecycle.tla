--------------------------- MODULE TaskLifecycle ---------------------------
(***************************************************************************)
(* What the orchestrator promises about the durable record of a work task, *)
(* whatever runners, reviewers, cancellations and restarts interleave:     *)
(* the statuses it goes through, when a task may be accepted, and when a   *)
(* result or a candidate result is visible.  Orchestrator implements it.   *)
(***************************************************************************)
CONSTANTS
    Tasks,          \* the work tasks
    Deps,           \* Deps[t]: the tasks that must complete before t is accepted
    Reviewed,       \* the tasks that carry review.required
    Output,         \* what an execution can produce
    NoOutput        \* an undefined result or candidateResult

VARIABLES
    status,         \* status[t]: task.status
    candidate,      \* candidate[t]: task.candidateResult
    result,         \* result[t]: task.result
    approved        \* approved[t]: task.review.status is "approved"

lifecycleVars == <<status, candidate, result, approved>>

WorkStatus == {"queued", "accepted", "running", "awaiting_review",
               "changes_requested", "completed", "failed", "blocked", "cancelled"}

TerminalStatus == {"completed", "failed", "blocked", "cancelled"}

RetryableStatus == {"failed", "blocked", "cancelled", "changes_requested"}

Init ==
    /\ status = [t \in Tasks |-> "queued"]
    /\ candidate = [t \in Tasks |-> NoOutput]
    /\ result = [t \in Tasks |-> NoOutput]
    /\ approved = [t \in Tasks |-> FALSE]

Move(t, from, to) ==
    /\ status[t] \in from
    /\ status' = [status EXCEPT ![t] = to]

Keep == UNCHANGED <<candidate, result, approved>>

\* A worker takes the task only once everything it depends on is complete.
Accept(t) ==
    /\ \A d \in Deps[t] : status[d] = "completed"
    /\ Move(t, {"queued"}, "accepted")
    /\ Keep

Start(t) == Move(t, {"accepted"}, "running") /\ Keep

\* Only a task without a review gate is completed by its own execution.
Complete(t) ==
    /\ t \notin Reviewed
    /\ Move(t, {"running"}, "completed")
    /\ \E o \in Output : result' = [result EXCEPT ![t] = o]
    /\ UNCHANGED <<candidate, approved>>

\* The output of a task with a review gate is held back as the candidate.
HoldForReview(t) ==
    /\ t \in Reviewed
    /\ Move(t, {"running"}, "awaiting_review")
    /\ \E o \in Output : candidate' = [candidate EXCEPT ![t] = o]
    /\ UNCHANGED <<result, approved>>

Approve(t) ==
    /\ t \in Reviewed
    /\ Move(t, {"awaiting_review"}, "completed")
    /\ \E o \in Output : result' = [result EXCEPT ![t] = o]
    /\ candidate' = [candidate EXCEPT ![t] = NoOutput]
    /\ approved' = [approved EXCEPT ![t] = TRUE]

RequestChanges(t) ==
    /\ t \in Reviewed
    /\ Move(t, {"awaiting_review"}, "changes_requested")
    /\ Keep

Fail(t) == Move(t, {"accepted", "running"}, "failed") /\ Keep

Block(t) == Move(t, {"queued", "accepted", "running"}, "blocked") /\ Keep

Cancel(t) == Move(t, WorkStatus \ TerminalStatus, "cancelled") /\ Keep

\* A retry forgets what the previous attempt produced.
Retry(t) ==
    /\ Move(t, RetryableStatus, "queued")
    /\ candidate' = [candidate EXCEPT ![t] = NoOutput]
    /\ result' = [result EXCEPT ![t] = NoOutput]
    /\ UNCHANGED approved

Next == \E t \in Tasks :
    \/ Accept(t) \/ Start(t) \/ Complete(t) \/ HoldForReview(t)
    \/ Approve(t) \/ RequestChanges(t)
    \/ Fail(t) \/ Block(t) \/ Cancel(t) \/ Retry(t)

Spec == Init /\ [][Next]_lifecycleVars
============================================================================
