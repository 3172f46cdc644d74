------------------------------ MODULE PlanTree ------------------------------
(***************************************************************************)
(* A plan and the tasks delegated under it (src/src/orchestrator.js):      *)
(* createPlan, delegate, delegateTrusted, cancel with its cascade, retry   *)
(* and aggregatePlan, while workers take, run and end the delegated tasks. *)
(*                                                                         *)
(* Steps are cut where Orchestrator cuts them: a continuation with the     *)
(* compare-and-swap it enqueues.  What a worker does between accepting a   *)
(* task and ending it is the concern of Orchestrator; here the statuses    *)
(* accepted, running, awaiting_review and changes_requested are "running". *)
(***************************************************************************)
EXTENDS Integers, FiniteSets

CONSTANTS
    Plan,           \* the plan, created active by createPlan
    Nodes,          \* the tasks that may be delegated under it
    Calls,          \* concurrent delegate and delegateTrusted calls
    Cancels,        \* concurrent cancel calls
    Cascades,       \* the values clients pass for options.cascade
    MaxRetries,     \* bound: retries that clients ask for
    None

ASSUME PlanAssumption ==
    IsFiniteSet(Nodes) /\ Plan \notin Nodes /\ None \notin Nodes \cup {Plan}
ASSUME OptionAssumption == Cascades \subseteq BOOLEAN
ASSUME BoundAssumption == MaxRetries \in Nat

VARIABLES
    status,         \* status[x]: task.status of the plan and of every submitted task
    parent,         \* parent[n]: task.parentTaskId
    bound,          \* bound[n]: the trusted call of n has stamped executionContext
    runner,         \* runner[n]: where the runner that has taken n stands
    owned,          \* the tasks that have an ownerAgentId, given by acceptance
    call,           \* call[c]: a delegate call between two of its awaits
    cancelling,     \* cancelling[k]: the targets a cancel call still has to visit
    retries,        \* retries so far
    covered,        \* history: visited by a finished cancel call, not retried since
    late            \* history: submitted when the plan was terminal

vars == <<status, parent, bound, runner, owned, call, cancelling, retries, covered, late>>

Tasks == Nodes \cup {Plan}

Absent == "absent"

Active == {"active", "queued", "running"}
Terminal == {"completed", "failed", "blocked", "cancelled"}
Retryable == {"failed", "blocked", "cancelled"}

NoCall == [pc |-> "idle", parent |-> None, node |-> None, trusted |-> FALSE]

NoCancel == [all |-> {}, todo |-> {}]

Exists(x) == status[x] # Absent

\* TaskStore.descendants: the tasks reached through parentTaskId.
Children(S) == {n \in Nodes : Exists(n) /\ parent[n] \in S}

Reach[S \in SUBSET Tasks] ==
    IF Children(S) \subseteq S THEN S ELSE Reach[S \cup Children(S)]

Descendants(x) == Reach[{x}] \ {x}

Init ==
    /\ status = [x \in Tasks |-> IF x = Plan THEN "active" ELSE Absent]
    /\ parent = [n \in Nodes |-> None]
    /\ bound = [n \in Nodes |-> FALSE]
    /\ runner = [n \in Nodes |-> "none"]
    /\ owned = {}
    /\ call = [c \in Calls |-> NoCall]
    /\ cancelling = [k \in Cancels |-> NoCancel]
    /\ retries = 0
    /\ covered = {}
    /\ late = {}

-----------------------------------------------------------------------------
(* delegate and delegateTrusted *)

\* The parent is read and must not be terminal.  A task that a worker accepted
\* belongs to that worker, so only an unaccepted one can be delegated under.
CheckParent(c) ==
    /\ call[c].pc = "idle"
    /\ \E p \in Tasks, trusted \in BOOLEAN :
        /\ Exists(p) /\ status[p] \notin Terminal
        /\ p \notin owned
        /\ call' = [call EXCEPT ![c] =
                [pc |-> "checked", parent |-> p, node |-> None, trusted |-> trusted]]
    /\ UNCHANGED <<status, parent, bound, runner, owned, cancelling, retries, covered, late>>

\* submit writes the queued record under a fresh id; the public call is then over
\* but for its events, the trusted one has the context still to stamp.
Submit(c) ==
    /\ call[c].pc = "checked"
    /\ \E n \in Nodes :
        /\ ~Exists(n)
        /\ status' = [status EXCEPT ![n] = "queued"]
        /\ parent' = [parent EXCEPT ![n] = call[c].parent]
        /\ late' = IF status[Plan] \in Terminal THEN late \cup {n} ELSE late
        /\ call' = [call EXCEPT ![c] =
                IF call[c].trusted THEN [@ EXCEPT !.pc = "stamp", !.node = n] ELSE NoCall]
    /\ UNCHANGED <<bound, runner, owned, cancelling, retries, covered>>

\* patch: the executionContext is merged into the current record.
Stamp(c) ==
    /\ call[c].pc = "stamp"
    /\ bound' = [bound EXCEPT ![call[c].node] = TRUE]
    /\ call' = [call EXCEPT ![c] = NoCall]
    /\ UNCHANGED <<status, parent, runner, owned, cancelling, retries, covered, late>>

\* An event or audit append of submit or delegate fails: the call rejects and the
\* submitted task stays without its context.
DelegateFails(c) ==
    /\ call[c].pc = "stamp"
    /\ call' = [call EXCEPT ![c] = NoCall]
    /\ UNCHANGED <<status, parent, bound, runner, owned, cancelling, retries, covered, late>>

-----------------------------------------------------------------------------
(* Workers *)

\* runNext has read the task as queued and awaits its authorisation.
PickNode(n) ==
    /\ status[n] = "queued" /\ runner[n] = "none"
    /\ runner' = [runner EXCEPT ![n] = "authorize"]
    /\ UNCHANGED <<status, parent, bound, owned, call, cancelling, retries, covered, late>>

\* MUTANT of AcceptNode: the status is set without comparing it.
AcceptBlindly(n) ==
    /\ runner[n] = "authorize"
    /\ status' = [status EXCEPT ![n] = "running"]
    /\ owned' = owned \cup {n}
    /\ runner' = [runner EXCEPT ![n] = "start"]
    /\ UNCHANGED <<parent, bound, call, cancelling, retries, covered, late>>

\* The swap from queued gives the task its owner.
AcceptNode(n) ==
    /\ runner[n] = "authorize"
    /\ IF status[n] = "queued"
       THEN /\ status' = [status EXCEPT ![n] = "running"]
            /\ owned' = owned \cup {n}
            /\ runner' = [runner EXCEPT ![n] = "start"]
       ELSE /\ runner' = [runner EXCEPT ![n] = "none"]
            /\ UNCHANGED <<status, owned>>
    /\ UNCHANGED <<parent, bound, call, cancelling, retries, covered, late>>

\* The latest record is read and its executionContext, stamped or not, handed to the
\* harness, unless the swap from accepted to running was lost.
LaunchNode(n) ==
    /\ runner[n] = "start"
    /\ runner' = [runner EXCEPT ![n] = "none"]
    /\ UNCHANGED <<status, parent, bound, owned, call, cancelling, retries, covered, late>>

\* A worker ends a task that it runs, or the runtime or the governor blocks a
\* queued one.
EndNode(n) ==
    /\ \/ /\ status[n] = "running" /\ runner[n] = "none"
          /\ \E s \in {"completed", "failed"} : status' = [status EXCEPT ![n] = s]
       \/ /\ status[n] = "queued"
          /\ status' = [status EXCEPT ![n] = "blocked"]
    /\ UNCHANGED <<parent, bound, runner, owned, call, cancelling, retries, covered, late>>

-----------------------------------------------------------------------------
(* Clients: retry, cancel, aggregatePlan *)

\* retry looks at the status only: a plan is treated like a work task.
Retry(x) ==
    /\ retries < MaxRetries
    /\ status[x] \in Retryable
    /\ status' = [status EXCEPT ![x] = "queued"]
    /\ retries' = retries + 1
    /\ covered' = covered \ {x}
    /\ cancelling' = [k \in Cancels |->
            [cancelling[k] EXCEPT !.all = @ \ (IF x \in cancelling[k].todo THEN {} ELSE {x})]]
    /\ UNCHANGED <<parent, bound, runner, owned, call, late>>

\* The swap to cancelled, from any status that is not terminal.
Cancelled(x) == IF status[x] \in Active THEN [status EXCEPT ![x] = "cancelled"] ELSE status

\* The targets visited by call k, once it has none left.
Visited(k, all, todo) ==
    IF todo = {}
    THEN /\ cancelling' = [cancelling EXCEPT ![k] = NoCancel]
         /\ covered' = covered \cup all
    ELSE /\ cancelling' = [cancelling EXCEPT ![k] = [@ EXCEPT !.all = all, !.todo = todo]]
         /\ UNCHANGED covered

\* cancel reads the root and, unless cascade is false, its descendants, and swaps
\* the root; the other targets follow one by one.
CancelRoot(k) ==
    /\ cancelling[k] = NoCancel
    /\ \E x \in Tasks, cascade \in Cascades :
        /\ Exists(x)
        /\ LET others == IF cascade THEN Descendants(x) ELSE {}
           IN  Visited(k, {x} \cup others, others)
        /\ status' = Cancelled(x)
    /\ UNCHANGED <<parent, bound, runner, owned, call, retries, late>>

CancelNext(k) ==
    /\ \E x \in cancelling[k].todo :
        /\ Visited(k, cancelling[k].all, cancelling[k].todo \ {x})
        /\ status' = Cancelled(x)
    /\ UNCHANGED <<parent, bound, runner, owned, call, retries, late>>

\* An event or audit append of the cascade fails: the call rejects, and the targets
\* it has not visited stay as they are.
CancelFails(k) ==
    /\ cancelling[k] # NoCancel
    /\ cancelling' = [cancelling EXCEPT ![k] = NoCancel]
    /\ UNCHANGED <<status, parent, bound, runner, owned, call, retries, covered, late>>

\* MUTANT of Aggregate: the direct children decide.
AggregateChildren ==
    LET tree == Children({Plan}) IN
    /\ status[Plan] = "active"
    /\ tree # {}
    /\ \A n \in tree : status[n] \in Terminal
    /\ status' = [status EXCEPT ![Plan] =
            IF \A n \in tree : status[n] = "completed" THEN "completed" ELSE "failed"]
    /\ UNCHANGED <<parent, bound, runner, owned, call, cancelling, retries, covered, late>>

\* aggregatePlan: nothing while a descendant is active; else the plan's outcome.
Aggregate ==
    LET tree == Descendants(Plan) IN
    /\ status[Plan] = "active"
    /\ tree # {}
    /\ \A n \in tree : status[n] \in Terminal
    /\ status' = [status EXCEPT ![Plan] =
            IF \A n \in tree : status[n] = "completed" THEN "completed" ELSE "failed"]
    /\ UNCHANGED <<parent, bound, runner, owned, call, cancelling, retries, covered, late>>

-----------------------------------------------------------------------------

Next ==
    \/ \E c \in Calls : CheckParent(c) \/ Submit(c) \/ Stamp(c) \/ DelegateFails(c)
    \/ \E n \in Nodes : PickNode(n) \/ AcceptNode(n) \/ LaunchNode(n) \/ EndNode(n)
    \/ \E x \in Tasks : Retry(x)
    \/ \E k \in Cancels : CancelRoot(k) \/ CancelNext(k) \/ CancelFails(k)
    \/ Aggregate

Spec == Init /\ [][Next]_vars

-----------------------------------------------------------------------------
(* Properties *)

\* Once a cancel call has visited its targets none of them is ever executed again
\* without a retry: no runner that had read one as queued brings it back.
CascadeHolds == \A x \in covered : status[x] \in Terminal

\* A plan is completed only when everything delegated under it, at any depth, had
\* completed; only what is submitted afterwards can be otherwise (aggregatePlan).
OutcomeSound ==
    status[Plan] = "completed" =>
        \A n \in Descendants(Plan) \ late : status[n] = "completed"

=============================================================================
