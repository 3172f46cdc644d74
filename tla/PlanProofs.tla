------------------------------ MODULE PlanProofs ------------------------------
(***************************************************************************)
(* Proofs about plans.  PlanTree, for every finite set of tasks and any    *)
(* number of concurrent calls: a cancel call that has visited its targets  *)
(* leaves no task that a worker could still bring back, and a plan is      *)
(* completed only when everything delegated under it, at any depth, had    *)
(* completed.  Goals, for any number of goals, steps, reviews, tasks,      *)
(* cancellations and failures: a goal that says completed has done all of  *)
(* its work, and publishes the candidates its reviewers were shown.        *)
(***************************************************************************)
EXTENDS PlanTree, Goals, FiniteSetTheorems, TLAPS

-----------------------------------------------------------------------------
(* Reach, the descendants of a set of tasks: the least closed set around it *)

Closed(T) == Children(T) \subseteq T

\* The members of every closed set around S.
Closure(S) == {x \in Tasks : \A T \in SUBSET Tasks : S \subseteq T /\ Closed(T) => x \in T}

\* Reach's defining equation has this solution, ...
LEMMA ClosureUnfolds ==
  ASSUME NEW S \in SUBSET Tasks
  PROVE  /\ S \subseteq Closure(S) /\ S \cup Children(S) \in SUBSET Tasks
         /\ Closed(S) => Closure(S) = S
         /\ Closure(S) = Closure(S \cup Children(S))
  <1>1. S \cup Children(S) \in SUBSET Tasks
    BY DEF Children, Tasks
  <1>2. S \subseteq Closure(S)
    BY DEF Closure
  <1>3. Closed(S) => Closure(S) = S
    BY <1>2 DEF Closure
  <1>4. ASSUME NEW T \in SUBSET Tasks, Closed(T)
        PROVE  S \subseteq T <=> S \cup Children(S) \subseteq T
    BY <1>4 DEF Closed, Children
  <1>5. QED
    BY <1>1, <1>2, <1>3, <1>4 DEF Closure

LEMMA FiniteTasks == IsFiniteSet(Tasks)
  BY PlanAssumption, FS_AddElement DEF Tasks

\* ... and no other: of the sets on which two solutions differed, take a largest.
LEMMA ReachIsClosure ==
  ASSUME NEW S \in SUBSET Tasks
  PROVE  Reach[S] = Closure(S)
  <1> DEFINE Step(f) == [T \in SUBSET Tasks |->
                          IF Children(T) \subseteq T THEN T ELSE f[T \cup Children(T)]]
             g == [T \in SUBSET Tasks |-> Closure(T)]
  <1>1. g = Step(g)
    <2>1. ASSUME NEW T \in SUBSET Tasks
          PROVE  g[T] = IF Children(T) \subseteq T THEN T ELSE g[T \cup Children(T)]
      BY ClosureUnfolds DEF Closed
    <2>2. QED
      BY <2>1
  <1>2. Reach = Step(Reach)
    BY <1>1 DEF Reach
  <1> HIDE DEF g
  <1>3. \A T \in SUBSET Tasks :
          Reach[T] = IF Children(T) \subseteq T THEN T ELSE Reach[T \cup Children(T)]
    BY <1>2
  <1> DEFINE Differ == {T \in SUBSET Tasks : Reach[T] # Closure(T)}
             Rest == {Tasks \ T : T \in Differ}
             R == StrictSubsetOrdering(Tasks)
  <1>4. SUFFICES ASSUME Differ # {}
                 PROVE  FALSE
    OBVIOUS
  <1>5. IsWellFoundedOn(R, SUBSET Tasks)
    BY FiniteTasks, FS_StrictSubsetOrderingWellFounded, FS_FiniteSubsetsOfFinite
  <1>6. Rest \subseteq SUBSET Tasks /\ Rest # {}
    BY <1>4
  <1>7. PICK x \in Rest : \A y \in Rest : ~(<<y, x>> \in R)
    <2> HIDE DEF Rest, R
    <2>1. QED
      BY <1>5, <1>6, WFMin
  <1>8. PICK T \in Differ : x = Tasks \ T
    BY <1>7
  <1>9. ~Closed(T)
    BY <1>3, <1>8, ClosureUnfolds DEF Closed
  <1>10. T \cup Children(T) \in Differ
    <2>1. Reach[T] = Reach[T \cup Children(T)]
      BY <1>3, <1>8, <1>9 DEF Closed
    <2>2. QED
      BY <1>8, <2>1, ClosureUnfolds
  <1>11. <<Tasks \ (T \cup Children(T)), x>> \in R
    <2>1. Children(T) \subseteq Tasks /\ T \in SUBSET Tasks
      BY DEF Children, Tasks
    <2>2. Tasks \ (T \cup Children(T)) \subseteq x /\ Tasks \ (T \cup Children(T)) # x
      BY <1>8, <1>9, <2>1 DEF Closed
    <2>3. QED
      BY <1>6, <2>1, <2>2 DEF StrictSubsetOrdering
  <1>12. QED
    BY <1>7, <1>10, <1>11

LEMMA DescendantsClosed == \A x \in Tasks : Descendants(x) = Closure({x}) \ {x}
  BY ReachIsClosure DEF Descendants

LEMMA DescendantsClosedNext == (\A x \in Tasks : Descendants(x) = Closure({x}) \ {x})'
  BY DescendantsClosed, PTL

-----------------------------------------------------------------------------
(* The inductive invariant *)

Status == Active \cup Terminal \cup {Absent}

CallRecord ==
    {r \in [pc : {"idle", "checked", "stamp"}, parent : Tasks \cup {None},
            node : Nodes \cup {None}, trusted : BOOLEAN] :
        /\ r.pc = "checked" => r.parent \in Tasks
        /\ r.pc = "stamp" => r.node \in Nodes}

\* The records of the store, the runners and the calls have their types.
TypeOK ==
    /\ status \in [Tasks -> Status] /\ parent \in [Nodes -> Tasks \cup {None}]
    /\ bound \in [Nodes -> BOOLEAN] /\ runner \in [Nodes -> {"none", "authorize", "start"}]
    /\ owned \subseteq Nodes /\ call \in [Calls -> CallRecord]
    /\ cancelling \in [Cancels -> [all : SUBSET Tasks, todo : SUBSET Tasks]]
    /\ retries \in Nat /\ covered \subseteq Tasks /\ late \subseteq Nodes

\* A task's parent was submitted before it, and is read before it is delegated under.
Rooted ==
    /\ \A n \in Nodes : Exists(n) => parent[n] \in Tasks /\ Exists(parent[n])
    /\ \A c \in Calls : call[c].pc = "checked" => Exists(call[c].parent)

\* What a cancel call has visited so far is over; what it has not exists.
CancelsVisit ==
    \A k \in Cancels : /\ \A x \in cancelling[k].all \ cancelling[k].todo : status[x] \in Terminal
                       /\ \A x \in cancelling[k].todo : Exists(x)

TreeInv == TypeOK /\ Rooted /\ CancelsVisit /\ CascadeHolds /\ OutcomeSound

-----------------------------------------------------------------------------
(* What the steps keep *)

\* The tree stays as it is, but for tasks that a step submits.
LEMMA SameTree ==
  ASSUME NEW x \in Tasks, parent' = parent, \A n \in Nodes : Exists(n)' <=> Exists(n)
  PROVE  Descendants(x)' = Descendants(x)
  <1>1. \A S : Children(S)' = Children(S)
    BY DEF Children
  <1>2. Closure({x})' = Closure({x})
    BY <1>1 DEF Closure, Closed
  <1>3. QED
    BY <1>2, DescendantsClosed, DescendantsClosedNext

LEMMA ClosureIsClosed ==
  ASSUME NEW S \in SUBSET Tasks
  PROVE  Closed(Closure(S)) /\ Closure(S) \in SUBSET Tasks
  <1>1. ASSUME NEW n \in Children(Closure(S)), NEW T \in SUBSET Tasks, S \subseteq T, Closed(T)
        PROVE  n \in T
    BY <1>1 DEF Closed, Closure, Children
  <1>2. QED
    BY <1>1 DEF Closed, Closure, Children, Tasks

\* A task that is submitted has no task under it yet.
LEMMA NewLeaf ==
  ASSUME Rooted, NEW n \in Nodes, ~Exists(n),
         \A m \in Nodes \ {n} : parent'[m] = parent[m] /\ (Exists(m)' <=> Exists(m))
  PROVE  Descendants(Plan)' \subseteq Descendants(Plan) \cup {n}
  <1>1. PICK T \in SUBSET Tasks : T = Closure({Plan}) \cup {n}
    BY DEF Closure, Tasks
  <1>2. /\ {Plan} \in SUBSET Tasks /\ {Plan} \subseteq Closure({Plan})
        /\ Children(Closure({Plan})) \subseteq Closure({Plan})
    <2>1. {Plan} \in SUBSET Tasks
      BY DEF Tasks
    <2>2. QED
      BY <2>1, ClosureIsClosed, ClosureUnfolds DEF Closed
  <1>3. ASSUME NEW m \in Children(T)', m # n
        PROVE  m \in T
    <2>1. m \in Nodes /\ Exists(m) /\ parent[m] \in T
      BY <1>3 DEF Children
    <2>2. parent[m] \in Closure({Plan})
      BY <1>1, <2>1 DEF Rooted
    <2>3. QED
      BY <1>1, <1>2, <2>1, <2>2 DEF Children
  <1>4. Closed(T)'
    BY <1>1, <1>3 DEF Closed
  <1>5. Closure({Plan})' \subseteq T
    BY <1>1, <1>2, <1>4 DEF Closure
  <1>6. QED
    BY <1>1, <1>5, DescendantsClosed, DescendantsClosedNext DEF Tasks

\* The outcome of the plan still holds when no task is submitted, none that has
\* completed is undone and the plan gets no new outcome.
LEMMA OutcomeStays ==
  ASSUME TreeInv, parent' = parent, late' = late, \A n \in Nodes : Exists(n)' <=> Exists(n),
         \A x \in Tasks : status[x] = "completed" => status'[x] = "completed",
         status'[Plan] = "completed" => status[Plan] = "completed"
  PROVE  OutcomeSound'
  <1>1. Descendants(Plan)' = Descendants(Plan)
    BY SameTree DEF Tasks
  <1>2. Descendants(Plan) \subseteq Tasks
    BY DescendantsClosed DEF Closure, Tasks
  <1>3. QED
    BY <1>1, <1>2 DEF TreeInv, OutcomeSound

\* What is over stays over, but for a task that is retried.
LEMMA OverStays ==
  ASSUME TreeInv, cancelling' = cancelling, covered' = covered,
         \A x \in Tasks : /\ status[x] \in Terminal => status'[x] \in Terminal
                          /\ Exists(x) => Exists(x)'
  PROVE  CancelsVisit' /\ CascadeHolds'
  BY DEF TreeInv, TypeOK, CancelsVisit, CascadeHolds

LEMMA Stuttering ==
  ASSUME TreeInv, UNCHANGED vars
  PROVE  TreeInv'
  <1>1. TypeOK' /\ Rooted'
    BY DEF TreeInv, TypeOK, Rooted, Exists, vars
  <1>2. CancelsVisit' /\ CascadeHolds' /\ OutcomeSound'
    BY OverStays, OutcomeStays DEF Exists, vars
  <1>3. QED
    BY <1>1, <1>2 DEF TreeInv

-----------------------------------------------------------------------------
(* Delegations and workers *)

LEMMA CheckParentStep ==
  ASSUME TreeInv, NEW c \in Calls, CheckParent(c)
  PROVE  TreeInv'
  <1>1. PICK p \in Tasks, t \in BOOLEAN :
          /\ Exists(p)
          /\ call' = [call EXCEPT ![c] =
                [pc |-> "checked", parent |-> p, node |-> None, trusted |-> t]]
          /\ UNCHANGED <<status, parent, bound, runner, owned, cancelling, retries, covered, late>>
    BY DEF CheckParent
  <1>2. [pc |-> "checked", parent |-> p, node |-> None, trusted |-> t] \in CallRecord
    BY DEF CallRecord
  <1>3. TypeOK'
    BY <1>1, <1>2 DEF TreeInv, TypeOK
  <1>4. Rooted'
    BY <1>1 DEF TreeInv, TypeOK, Rooted, Exists
  <1>5. CancelsVisit' /\ CascadeHolds' /\ OutcomeSound'
    BY <1>1, OverStays, OutcomeStays DEF Exists
  <1>6. QED
    BY <1>3, <1>4, <1>5 DEF TreeInv

LEMMA SubmitStep ==
  ASSUME TreeInv, NEW c \in Calls, Submit(c)
  PROVE  TreeInv'
  <1>1. PICK n \in Nodes :
          /\ ~Exists(n) /\ call[c].pc = "checked"
          /\ status' = [status EXCEPT ![n] = "queued"]
          /\ parent' = [parent EXCEPT ![n] = call[c].parent]
          /\ late' = IF status[Plan] \in Terminal THEN late \cup {n} ELSE late
          /\ call' = [call EXCEPT ![c] =
                IF call[c].trusted THEN [call[c] EXCEPT !.pc = "stamp", !.node = n] ELSE NoCall]
          /\ UNCHANGED <<bound, runner, owned, cancelling, retries, covered>>
    BY DEF Submit
  <1>2. /\ status \in [Tasks -> Status] /\ parent \in [Nodes -> Tasks \cup {None}]
        /\ call \in [Calls -> CallRecord] /\ n \in Tasks /\ n # Plan
    BY PlanAssumption DEF TreeInv, TypeOK, Tasks
  <1>3. call[c].parent \in Tasks /\ Exists(call[c].parent)
    BY <1>1, <1>2 DEF CallRecord, TreeInv, Rooted
  <1>4. /\ [call[c] EXCEPT !.pc = "stamp", !.node = n] \in CallRecord /\ NoCall \in CallRecord
        /\ [call[c] EXCEPT !.pc = "stamp", !.node = n].pc = "stamp" /\ NoCall.pc = "idle"
    BY <1>2 DEF CallRecord, NoCall
  <1>5. /\ \A x \in Tasks \ {n} : status'[x] = status[x]
        /\ status'[n] = "queued" /\ status[n] = Absent /\ parent'[n] = call[c].parent
        /\ \A m \in Nodes \ {n} : parent'[m] = parent[m]
    BY <1>1, <1>2 DEF Exists
  <1>6. TypeOK'
    <2>1. call' \in [Calls -> CallRecord] /\ status' \in [Tasks -> Status]
      BY <1>1, <1>2, <1>4 DEF Status, Active
    <2>2. parent' \in [Nodes -> Tasks \cup {None}] /\ late' \subseteq Nodes
      BY <1>1, <1>2, <1>3 DEF TreeInv, TypeOK
    <2>3. QED
      BY <1>1, <2>1, <2>2 DEF TreeInv, TypeOK
  <1>7. \A x \in Tasks : Exists(x) => Exists(x)' /\ status'[x] = status[x]
    BY <1>5 DEF Exists
  <1>8. Rooted'
    <2>1. ASSUME NEW m \in Nodes, status'[m] # Absent
          PROVE  parent'[m] \in Tasks /\ status'[parent'[m]] # Absent
      <3>1. CASE m = n
        BY <1>3, <1>5, <1>7, <3>1 DEF Exists
      <3>2. CASE m # n
        <4>1. Exists(m) /\ parent'[m] = parent[m] /\ m \in Tasks
          BY <1>5, <2>1, <3>2 DEF Exists, Tasks
        <4>2. QED
          BY <1>7, <4>1 DEF TreeInv, Rooted, Exists
      <3>3. QED
        BY <3>1, <3>2
    <2>2. ASSUME NEW d \in Calls, call'[d].pc = "checked"
          PROVE  status'[call'[d].parent] # Absent
      <3>1. call'[d] = call[d]
        BY <1>1, <1>2, <1>4, <2>2
      <3>2. call[d].parent \in Tasks /\ Exists(call[d].parent)
        BY <1>2, <2>2, <3>1 DEF CallRecord, TreeInv, Rooted
      <3>3. QED
        BY <1>7, <3>1, <3>2 DEF Exists
    <2>3. QED
      BY <2>1, <2>2 DEF Rooted, Exists
  <1>9. CancelsVisit' /\ CascadeHolds'
    <2>1. \A x \in Tasks : status[x] \in Terminal => status'[x] \in Terminal
      BY <1>5, <1>7 DEF Exists, Terminal, Absent
    <2>2. QED
      BY <1>1, <1>7, <2>1, OverStays
  <1>10. OutcomeSound'
    <2>1. ASSUME status'[Plan] = "completed"
          PROVE  \A m \in Descendants(Plan)' \ late' : status'[m] = "completed"
      <3>1. status[Plan] = "completed" /\ late' = late \cup {n}
        BY <1>1, <1>2, <1>5, <2>1 DEF Terminal, Tasks
      <3>2. Descendants(Plan)' \subseteq Descendants(Plan) \cup {n}
        BY <1>1, <1>5, NewLeaf DEF TreeInv, Exists, Tasks
      <3>3. Descendants(Plan) \subseteq Tasks
        BY DescendantsClosed DEF Closure, Tasks
      <3>4. QED
        BY <1>5, <3>1, <3>2, <3>3 DEF TreeInv, OutcomeSound
    <2>2. QED
      BY <2>1 DEF OutcomeSound
  <1>11. QED
    BY <1>6, <1>8, <1>9, <1>10 DEF TreeInv

LEMMA StampStep ==
  ASSUME TreeInv, NEW c \in Calls, Stamp(c) \/ DelegateFails(c)
  PROVE  TreeInv'
  <1>1. /\ call' = [call EXCEPT ![c] = NoCall]
        /\ UNCHANGED <<status, parent, runner, owned, cancelling, retries, covered, late>>
    BY DEF Stamp, DelegateFails
  <1>2. NoCall \in CallRecord /\ NoCall.pc = "idle"
    BY DEF CallRecord, NoCall
  <1>3. bound' \in [Nodes -> BOOLEAN]
    BY DEF Stamp, DelegateFails, TreeInv, TypeOK
  <1>4. TypeOK'
    BY <1>1, <1>2, <1>3 DEF TreeInv, TypeOK
  <1>5. Rooted'
    BY <1>1, <1>2 DEF TreeInv, TypeOK, Rooted, Exists
  <1>6. CancelsVisit' /\ CascadeHolds' /\ OutcomeSound'
    BY <1>1, OverStays, OutcomeStays DEF Exists
  <1>7. QED
    BY <1>4, <1>5, <1>6 DEF TreeInv

LEMMA PickNodeStep ==
  ASSUME TreeInv, NEW n \in Nodes, PickNode(n) \/ LaunchNode(n)
  PROVE  TreeInv'
  <1>1. UNCHANGED <<status, parent, bound, owned, call, cancelling, retries, covered, late>>
    BY DEF PickNode, LaunchNode
  <1>2. runner' \in [Nodes -> {"none", "authorize", "start"}]
    BY DEF PickNode, LaunchNode, TreeInv, TypeOK
  <1>3. TypeOK' /\ Rooted'
    BY <1>1, <1>2 DEF TreeInv, TypeOK, Rooted, Exists
  <1>4. CancelsVisit' /\ CascadeHolds' /\ OutcomeSound'
    BY <1>1, OverStays, OutcomeStays DEF Exists
  <1>5. QED
    BY <1>3, <1>4 DEF TreeInv

\* A task that is not over gets a new status: the tree stays, and what is over.
LEMMA StatusMoves ==
  ASSUME TreeInv, NEW x \in Tasks, NEW s \in Status \ {Absent},
         status' = [status EXCEPT ![x] = s], status[x] \notin Terminal \cup {Absent},
         UNCHANGED <<parent, bound, call, late>>,
         s = "completed" => x # Plan
  PROVE  /\ status' \in [Tasks -> Status] /\ Rooted' /\ OutcomeSound'
         /\ \A y \in Tasks : /\ status[y] \in Terminal => status'[y] \in Terminal
                             /\ Exists(y)' <=> Exists(y)
  <1>1. /\ status \in [Tasks -> Status] /\ status' \in [Tasks -> Status]
        /\ status'[x] = s /\ \A y \in Tasks \ {x} : status'[y] = status[y]
    BY DEF TreeInv, TypeOK
  <1>2. \A y \in Tasks : /\ status[y] \in Terminal => status'[y] = status[y]
                         /\ Exists(y)' <=> Exists(y)
    BY <1>1 DEF Exists, Terminal
  <1>3. \A n \in Nodes : n \in Tasks
    BY DEF Tasks
  <1>4. Rooted'
    <2>1. ASSUME NEW n \in Nodes, status'[n] # Absent
          PROVE  parent'[n] \in Tasks /\ status'[parent'[n]] # Absent
      BY <1>2, <1>3, <2>1 DEF TreeInv, Rooted, Exists
    <2>2. ASSUME NEW c \in Calls, call'[c].pc = "checked"
          PROVE  status'[call'[c].parent] # Absent
      <3>1. call[c].parent \in Tasks /\ Exists(call[c].parent)
        BY <2>2 DEF CallRecord, TreeInv, TypeOK, Rooted
      <3>2. QED
        BY <1>2, <3>1 DEF Exists
    <2>3. QED
      BY <2>1, <2>2 DEF Rooted, Exists
  <1>5. OutcomeSound'
    <2>1. \A y \in Tasks : status[y] = "completed" => status'[y] = "completed"
      BY <1>2 DEF Terminal
    <2>2. status'[Plan] = "completed" => status[Plan] = "completed"
      BY <1>1 DEF Tasks
    <2>3. QED
      BY <1>2, <1>3, <2>1, <2>2, OutcomeStays
  <1>6. QED
    BY <1>1, <1>2, <1>4, <1>5

LEMMA AcceptNodeStep ==
  ASSUME TreeInv, NEW n \in Nodes, AcceptNode(n)
  PROVE  TreeInv'
  <1>1. /\ runner' \in [Nodes -> {"none", "authorize", "start"}] /\ owned' \subseteq Nodes
        /\ UNCHANGED <<parent, bound, call, cancelling, retries, covered, late>>
    BY DEF AcceptNode, TreeInv, TypeOK
  <1>2. CASE status[n] = "queued"
    <2>1. /\ status' = [status EXCEPT ![n] = "running"] /\ n \in Tasks /\ n # Plan
          /\ "running" \in Status \ {Absent} /\ status[n] \notin Terminal \cup {Absent}
      BY <1>2, PlanAssumption DEF AcceptNode, Tasks, Status, Active, Terminal, Absent
    <2>2. /\ status' \in [Tasks -> Status] /\ Rooted' /\ OutcomeSound'
          /\ \A y \in Tasks : /\ status[y] \in Terminal => status'[y] \in Terminal
                              /\ Exists(y)' <=> Exists(y)
      BY <1>1, <2>1, StatusMoves
    <2>3. QED
      BY <1>1, <2>2, OverStays DEF TreeInv, TypeOK
  <1>3. CASE status[n] # "queued"
    <2>1. status' = status
      BY <1>3 DEF AcceptNode
    <2>2. Rooted' /\ CancelsVisit' /\ CascadeHolds' /\ OutcomeSound'
      BY <1>1, <2>1, OverStays, OutcomeStays DEF TreeInv, Rooted, Exists
    <2>3. QED
      BY <1>1, <2>1, <2>2 DEF TreeInv, TypeOK
  <1>4. QED
    BY <1>2, <1>3

LEMMA EndNodeStep ==
  ASSUME TreeInv, NEW n \in Nodes, EndNode(n)
  PROVE  TreeInv'
  <1>1. PICK s \in {"completed", "failed", "blocked"} : status' = [status EXCEPT ![n] = s]
    BY DEF EndNode
  <1>2. /\ n \in Tasks /\ n # Plan /\ s \in Status \ {Absent}
        /\ status[n] \notin Terminal \cup {Absent}
        /\ UNCHANGED <<parent, bound, runner, owned, call, cancelling, retries, covered, late>>
    BY PlanAssumption DEF EndNode, Tasks, Status, Terminal, Absent
  <1>3. /\ status' \in [Tasks -> Status] /\ Rooted' /\ OutcomeSound'
        /\ \A y \in Tasks : /\ status[y] \in Terminal => status'[y] \in Terminal
                            /\ Exists(y)' <=> Exists(y)
    BY <1>1, <1>2, StatusMoves
  <1>4. QED
    BY <1>2, <1>3, OverStays DEF TreeInv, TypeOK

-----------------------------------------------------------------------------
(* Retry, cancel, aggregatePlan *)

LEMMA AggregateStep ==
  ASSUME TreeInv, Aggregate
  PROVE  TreeInv'
  <1>1. PICK s \in {"completed", "failed"} :
          /\ status' = [status EXCEPT ![Plan] = s]
          /\ s = "completed" => \A n \in Descendants(Plan) : status[n] = "completed"
    BY DEF Aggregate
  <1>2. /\ Plan \in Tasks /\ s \in Status \ {Absent} /\ status[Plan] = "active"
        /\ UNCHANGED <<parent, bound, runner, owned, call, cancelling, retries, covered, late>>
    BY DEF Aggregate, Tasks, Status, Terminal, Absent
  <1>3. /\ status' \in [Tasks -> Status] /\ status'[Plan] = s
        /\ \A y \in Tasks \ {Plan} : status'[y] = status[y]
    BY <1>1, <1>2 DEF TreeInv, TypeOK, Status
  <1>4. \A y \in Tasks : /\ status[y] \in Terminal => status'[y] \in Terminal
                         /\ Exists(y)' <=> Exists(y)
    BY <1>2, <1>3 DEF Exists, Terminal, Absent
  <1>5. Rooted'
    BY <1>2, <1>4 DEF TreeInv, TypeOK, Rooted, Exists, Tasks, CallRecord
  <1>6. OutcomeSound'
    <2>1. Descendants(Plan)' = Descendants(Plan) /\ Descendants(Plan) \subseteq Tasks \ {Plan}
      BY <1>2, <1>4, SameTree, DescendantsClosed DEF Tasks, Closure
    <2>2. QED
      BY <1>1, <1>3, <2>1 DEF OutcomeSound
  <1>7. QED
    BY <1>2, <1>3, <1>4, <1>5, <1>6, OverStays DEF TreeInv, TypeOK

LEMMA RetryStep ==
  ASSUME TreeInv, NEW x \in Tasks, Retry(x)
  PROVE  TreeInv'
  <1>1. /\ status[x] \in Retryable /\ status' = [status EXCEPT ![x] = "queued"]
        /\ retries' = retries + 1 /\ covered' = covered \ {x}
        /\ cancelling' = [k \in Cancels |->
            [cancelling[k] EXCEPT !.all = cancelling[k].all \
                (IF x \in cancelling[k].todo THEN {} ELSE {x})]]
        /\ UNCHANGED <<parent, bound, runner, owned, call, late>>
    BY DEF Retry
  <1>2. /\ status' \in [Tasks -> Status] /\ status'[x] = "queued"
        /\ \A y \in Tasks \ {x} : status'[y] = status[y]
    BY <1>1 DEF TreeInv, TypeOK, Status, Active
  <1>3. \A y \in Tasks : Exists(y)' <=> Exists(y)
    BY <1>1, <1>2 DEF Exists, Retryable, Absent
  <1>4. ASSUME NEW k \in Cancels
        PROVE  /\ cancelling'[k] \in [all : SUBSET Tasks, todo : SUBSET Tasks]
               /\ cancelling'[k].todo = cancelling[k].todo
               /\ cancelling'[k].all \ cancelling'[k].todo =
                    (cancelling[k].all \ cancelling[k].todo) \ {x}
    <2>1. cancelling[k] \in [all : SUBSET Tasks, todo : SUBSET Tasks]
      BY DEF TreeInv, TypeOK
    <2>2. PICK a \in SUBSET Tasks :
            a = cancelling[k].all \ (IF x \in cancelling[k].todo THEN {} ELSE {x})
      BY <2>1
    <2>3. cancelling'[k] = [cancelling[k] EXCEPT !.all = a]
      BY <1>1, <2>2
    <2>4. cancelling'[k].all = a /\ cancelling'[k].todo = cancelling[k].todo
      BY <2>1, <2>3
    <2>5. QED
      BY <2>1, <2>2, <2>3, <2>4
  <1>5. TypeOK'
    <2>1. cancelling' \in [Cancels -> [all : SUBSET Tasks, todo : SUBSET Tasks]]
      BY <1>1, <1>4
    <2>2. retries' \in Nat
      BY <1>1 DEF TreeInv, TypeOK
    <2>3. QED
      BY <1>1, <1>2, <2>1, <2>2 DEF TreeInv, TypeOK
  <1>6. Rooted'
    BY <1>1, <1>3 DEF TreeInv, TypeOK, Rooted, Exists, Tasks, CallRecord
  <1>7. CancelsVisit'
    <2>1. ASSUME NEW k \in Cancels, NEW y \in cancelling'[k].all \ cancelling'[k].todo
          PROVE  status'[y] \in Terminal
      BY <1>2, <1>4 DEF TreeInv, TypeOK, CancelsVisit
    <2>2. ASSUME NEW k \in Cancels, NEW y \in cancelling'[k].todo
          PROVE  status'[y] # Absent
      <3>1. y \in cancelling[k].todo /\ y \in Tasks
        BY <1>4
      <3>2. QED
        BY <1>3, <3>1 DEF TreeInv, CancelsVisit, Exists
    <2>3. QED
      BY <2>1, <2>2 DEF CancelsVisit, Exists
  <1>8. CascadeHolds'
    BY <1>1, <1>2 DEF TreeInv, TypeOK, CascadeHolds
  <1>9. OutcomeSound'
    <2>1. \A y \in Tasks : status[y] = "completed" <=> status'[y] = "completed"
      BY <1>1, <1>2 DEF Retryable
    <2>2. QED
      BY <1>1, <1>3, <2>1, OutcomeStays DEF Tasks
  <1>10. QED
    BY <1>5, <1>6, <1>7, <1>8, <1>9 DEF TreeInv

LEMMA DescendantsExist ==
  ASSUME NEW x \in Tasks, Exists(x)
  PROVE  Descendants(x) \subseteq Tasks /\ \A n \in Descendants(x) : Exists(n)
  <1>1. PICK T \in SUBSET Tasks : T = {y \in Tasks : Exists(y)}
    OBVIOUS
  <1>2. Closed(T) /\ {x} \subseteq T
    BY <1>1 DEF Closed, Children, Tasks
  <1>3. Closure({x}) \subseteq T
    BY <1>2 DEF Closure
  <1>4. QED
    BY <1>1, <1>3, DescendantsClosed

\* A call has visited a target: it is over, and no more than that changes.
LEMMA TargetFacts ==
  ASSUME TreeInv, NEW x \in Tasks, Exists(x), status' = Cancelled(x),
         UNCHANGED <<parent, bound, call, late>>
  PROVE  /\ status' \in [Tasks -> Status] /\ Rooted' /\ OutcomeSound'
         /\ status'[x] \in Terminal
         /\ \A y \in Tasks : /\ status[y] \in Terminal => status'[y] \in Terminal
                             /\ Exists(y)' <=> Exists(y)
  <1>1. status \in [Tasks -> Status]
    BY DEF TreeInv, TypeOK
  <1>2. CASE status[x] \in Active
    <2>1. /\ status' = [status EXCEPT ![x] = "cancelled"] /\ status[x] \notin Terminal \cup {Absent}
          /\ "cancelled" \in Status \ {Absent} /\ "cancelled" \in Terminal
      BY <1>2 DEF Cancelled, Active, Terminal, Status, Absent
    <2>2. status'[x] = "cancelled"
      BY <1>1, <2>1
    <2>3. QED
      BY <2>1, <2>2, StatusMoves
  <1>3. CASE status[x] \notin Active
    <2>1. status' = status /\ status[x] \in Terminal
      BY <1>1, <1>3 DEF Cancelled, Status, Exists
    <2>2. Rooted' /\ OutcomeSound'
      BY <2>1, OutcomeStays DEF TreeInv, Rooted, Exists
    <2>3. QED
      BY <1>1, <2>1, <2>2 DEF Exists
  <1>4. QED
    BY <1>2, <1>3

\* Call k has the targets todo left, and all that it has visited is over.
LEMMA VisitedFacts ==
  ASSUME TreeInv, NEW k \in Cancels, NEW all \in SUBSET Tasks, NEW todo \in SUBSET Tasks,
         Visited(k, all, todo), \A y \in all \ todo : status'[y] \in Terminal,
         \A y \in todo : Exists(y),
         \A y \in Tasks : /\ status[y] \in Terminal => status'[y] \in Terminal
                          /\ Exists(y)' <=> Exists(y)
  PROVE  /\ cancelling' \in [Cancels -> [all : SUBSET Tasks, todo : SUBSET Tasks]]
         /\ covered' \subseteq Tasks /\ CancelsVisit' /\ CascadeHolds'
  <1>1. /\ cancelling \in [Cancels -> [all : SUBSET Tasks, todo : SUBSET Tasks]]
        /\ covered \subseteq Tasks
    BY DEF TreeInv, TypeOK
  <1>2. NoCancel \in [all : SUBSET Tasks, todo : SUBSET Tasks] /\ NoCancel.all = {} /\ NoCancel.todo = {}
    BY DEF NoCancel
  <1>3. PICK r \in [all : SUBSET Tasks, todo : SUBSET Tasks] :
          /\ cancelling' = [cancelling EXCEPT ![k] = r]
          /\ r.all \ r.todo \subseteq all \ todo /\ r.todo \subseteq todo
    <2>1. CASE todo = {}
      BY <1>2, <2>1 DEF Visited
    <2>2. CASE todo # {}
      <3>1. PICK r : r = [cancelling[k] EXCEPT !.all = all, !.todo = todo]
        OBVIOUS
      <3>2. /\ r \in [all : SUBSET Tasks, todo : SUBSET Tasks] /\ r.all = all /\ r.todo = todo
        BY <1>1, <3>1
      <3>3. cancelling' = [cancelling EXCEPT ![k] = r]
        BY <2>2, <3>1 DEF Visited
      <3>4. QED
        BY <3>2, <3>3
    <2>3. QED
      BY <2>1, <2>2
  <1>4. /\ cancelling' \in [Cancels -> [all : SUBSET Tasks, todo : SUBSET Tasks]]
        /\ cancelling'[k] = r /\ \A c \in Cancels \ {k} : cancelling'[c] = cancelling[c]
    BY <1>1, <1>3
  <1>5. covered' \subseteq covered \cup all /\ (todo # {} => covered' = covered)
    BY DEF Visited
  <1>6. CancelsVisit'
    <2>1. ASSUME NEW c \in Cancels
          PROVE  /\ \A y \in cancelling'[c].all \ cancelling'[c].todo : status'[y] \in Terminal
                 /\ \A y \in cancelling'[c].todo : status'[y] # Absent
      <3>1. CASE c = k
        BY <1>3, <1>4, <3>1 DEF Exists
      <3>2. CASE c # k
        <4>1. cancelling'[c] = cancelling[c]
          BY <1>4, <3>2
        <4>2. cancelling[c].all \subseteq Tasks /\ cancelling[c].todo \subseteq Tasks
          BY <1>1
        <4>3. QED
          BY <4>1, <4>2 DEF TreeInv, CancelsVisit, Exists
      <3>3. QED
        BY <3>1, <3>2
    <2>2. QED
      BY <2>1 DEF CancelsVisit, Exists
  <1>7. CascadeHolds'
    BY <1>1, <1>5 DEF TreeInv, CascadeHolds
  <1>8. QED
    BY <1>1, <1>4, <1>5, <1>6, <1>7

LEMMA CancelRootStep ==
  ASSUME TreeInv, NEW k \in Cancels, CancelRoot(k)
  PROVE  TreeInv'
  <1>1. PICK x \in Tasks, others \in SUBSET Tasks :
          /\ Exists(x) /\ \A y \in others : Exists(y)
          /\ Visited(k, {x} \cup others, others) /\ status' = Cancelled(x)
    <2>1. PICK x \in Tasks, cascade \in Cascades :
            /\ Exists(x) /\ status' = Cancelled(x)
            /\ Visited(k, {x} \cup (IF cascade THEN Descendants(x) ELSE {}),
                       IF cascade THEN Descendants(x) ELSE {})
      BY DEF CancelRoot
    <2>2. PICK others : others = IF cascade THEN Descendants(x) ELSE {}
      OBVIOUS
    <2>3. others \in SUBSET Tasks /\ \A y \in others : Exists(y)
      BY <2>1, <2>2, DescendantsExist
    <2>4. Visited(k, {x} \cup others, others)
      BY <2>1, <2>2
    <2>5. QED
      BY <2>1, <2>3, <2>4
  <1>2. UNCHANGED <<parent, bound, runner, owned, call, retries, late>>
    BY DEF CancelRoot
  <1>3. /\ status' \in [Tasks -> Status] /\ Rooted' /\ OutcomeSound' /\ status'[x] \in Terminal
        /\ \A y \in Tasks : /\ status[y] \in Terminal => status'[y] \in Terminal
                            /\ Exists(y)' <=> Exists(y)
    BY <1>1, <1>2, TargetFacts
  <1>4. {x} \cup others \in SUBSET Tasks
    BY <1>1
  <1>5. \A y \in ({x} \cup others) \ others : status'[y] \in Terminal
    BY <1>3
  <1>6. /\ cancelling' \in [Cancels -> [all : SUBSET Tasks, todo : SUBSET Tasks]]
        /\ covered' \subseteq Tasks /\ CancelsVisit' /\ CascadeHolds'
    BY <1>1, <1>3, <1>4, <1>5, VisitedFacts
  <1>7. QED
    BY <1>2, <1>3, <1>6 DEF TreeInv, TypeOK

LEMMA CancelNextStep ==
  ASSUME TreeInv, NEW k \in Cancels, CancelNext(k)
  PROVE  TreeInv'
  <1>1. PICK x \in cancelling[k].todo :
          /\ Visited(k, cancelling[k].all, cancelling[k].todo \ {x}) /\ status' = Cancelled(x)
    BY DEF CancelNext
  <1>2. /\ x \in Tasks /\ Exists(x) /\ cancelling[k].all \in SUBSET Tasks
        /\ cancelling[k].todo \in SUBSET Tasks /\ \A y \in cancelling[k].todo : Exists(y)
        /\ \A y \in cancelling[k].all \ cancelling[k].todo : status[y] \in Terminal
    BY <1>1 DEF TreeInv, TypeOK, CancelsVisit
  <1>3. UNCHANGED <<parent, bound, runner, owned, call, retries, late>>
    BY DEF CancelNext
  <1>4. /\ status' \in [Tasks -> Status] /\ Rooted' /\ OutcomeSound' /\ status'[x] \in Terminal
        /\ \A y \in Tasks : /\ status[y] \in Terminal => status'[y] \in Terminal
                            /\ Exists(y)' <=> Exists(y)
    BY <1>1, <1>2, <1>3, TargetFacts
  <1>5. PICK all \in SUBSET Tasks, todo \in SUBSET Tasks :
          all = cancelling[k].all /\ todo = cancelling[k].todo \ {x}
    BY <1>2
  <1>6. \A y \in all \ todo : status'[y] \in Terminal
    BY <1>2, <1>4, <1>5
  <1>7. Visited(k, all, todo) /\ \A y \in todo : Exists(y)
    BY <1>1, <1>2, <1>5
  <1>8. /\ cancelling' \in [Cancels -> [all : SUBSET Tasks, todo : SUBSET Tasks]]
        /\ covered' \subseteq Tasks /\ CancelsVisit' /\ CascadeHolds'
    BY <1>4, <1>6, <1>7, VisitedFacts
  <1>9. QED
    BY <1>3, <1>4, <1>8 DEF TreeInv, TypeOK

LEMMA CancelFailsStep ==
  ASSUME TreeInv, NEW k \in Cancels, CancelFails(k)
  PROVE  TreeInv'
  <1>1. /\ cancelling' = [cancelling EXCEPT ![k] = NoCancel]
        /\ UNCHANGED <<status, parent, bound, runner, owned, call, retries, covered, late>>
    BY DEF CancelFails
  <1>2. NoCancel \in [all : SUBSET Tasks, todo : SUBSET Tasks] /\ NoCancel.all = {} /\ NoCancel.todo = {}
    BY DEF NoCancel
  <1>3. TypeOK'
    BY <1>1, <1>2 DEF TreeInv, TypeOK
  <1>4. Rooted' /\ CascadeHolds' /\ OutcomeSound'
    BY <1>1, OutcomeStays DEF TreeInv, Rooted, CascadeHolds, Exists
  <1>5. CancelsVisit'
    BY <1>1, <1>2 DEF TreeInv, TypeOK, CancelsVisit, Exists
  <1>6. QED
    BY <1>3, <1>4, <1>5 DEF TreeInv

-----------------------------------------------------------------------------
(* The theorems about the tree *)

LEMMA Initial ==
  ASSUME Init
  PROVE  TreeInv
  <1>1. TypeOK
    BY DEF Init, TypeOK, Status, Active, CallRecord, NoCall, NoCancel
  <1>2. Rooted
    BY PlanAssumption DEF Init, Rooted, Exists, Tasks, Absent, NoCall
  <1>3. CancelsVisit /\ CascadeHolds /\ OutcomeSound
    BY DEF Init, CancelsVisit, NoCancel, CascadeHolds, OutcomeSound, Tasks
  <1>4. QED
    BY <1>1, <1>2, <1>3 DEF TreeInv

LEMMA Invariant == Spec => []TreeInv
  <1>1. Init => TreeInv
    BY Initial
  <1>2. TreeInv /\ [Next]_vars => TreeInv'
    BY Stuttering, CheckParentStep, SubmitStep, StampStep, PickNodeStep, AcceptNodeStep,
       EndNodeStep, RetryStep, CancelRootStep, CancelNextStep, CancelFailsStep, AggregateStep
       DEF Next
  <1>3. QED
    BY <1>1, <1>2, PTL DEF Spec

\* The store's records, the runners and the calls have their types.
THEOREM TypeCorrect == Spec => []TypeOK
  <1>1. TreeInv => TypeOK
    BY DEF TreeInv
  <1>2. QED
    BY <1>1, Invariant, PTL

\* However many tasks there are and however the calls, the workers and the retries
\* interleave: what a finished cancel call visited is over until somebody retries it
\* (cancel, whose swap leaves what is terminal, and the swaps of runTask from a status).
THEOREM CascadeHoldsTheorem == Spec => []CascadeHolds
  <1>1. TreeInv => CascadeHolds
    BY DEF TreeInv
  <1>2. QED
    BY <1>1, Invariant, PTL

\* aggregatePlan's completed is true of everything delegated under the plan before it,
\* however deep (TaskStore.descendants), and stays true.
THEOREM OutcomeSoundTheorem == Spec => []OutcomeSound
  <1>1. TreeInv => OutcomeSound
    BY DEF TreeInv
  <1>2. QED
    BY <1>1, Invariant, PTL

\* No step undoes a completed task or plan: a late runner, a cancel or a retry that
\* meets one leaves it completed.
CompletedStays == \A x \in Tasks : status[x] = "completed" => status'[x] = "completed"

LEMMA CompletedKept ==
  ASSUME TreeInv, Next
  PROVE  CompletedStays
  <1>1. status \in [Tasks -> Status]
    BY DEF TreeInv, TypeOK
  <1>2. ASSUME NEW c \in Calls, CheckParent(c) \/ Submit(c) \/ Stamp(c) \/ DelegateFails(c)
        PROVE  CompletedStays
    BY <1>1, <1>2 DEF CheckParent, Submit, Stamp, DelegateFails, CompletedStays, Exists, Absent
  <1>3. ASSUME NEW n \in Nodes, PickNode(n) \/ AcceptNode(n) \/ LaunchNode(n) \/ EndNode(n)
        PROVE  CompletedStays
    BY <1>1, <1>3 DEF PickNode, AcceptNode, LaunchNode, EndNode, CompletedStays
  <1>4. ASSUME NEW x \in Tasks, Retry(x)
        PROVE  CompletedStays
    BY <1>1, <1>4 DEF Retry, Retryable, CompletedStays
  <1>5. ASSUME NEW x \in Tasks, status' = Cancelled(x)
        PROVE  CompletedStays
    BY <1>1, <1>5 DEF Cancelled, Active, CompletedStays
  <1>6. ASSUME NEW k \in Cancels, CancelRoot(k) \/ CancelNext(k) \/ CancelFails(k)
        PROVE  CompletedStays
    <2>1. CASE CancelRoot(k)
      BY <1>5, <2>1 DEF CancelRoot
    <2>2. CASE CancelNext(k)
      BY <1>5, <2>2 DEF CancelNext, TreeInv, TypeOK
    <2>3. CASE CancelFails(k)
      BY <2>3 DEF CancelFails, CompletedStays
    <2>4. QED
      BY <1>6, <2>1, <2>2, <2>3
  <1>7. CASE Aggregate
    BY <1>1, <1>7 DEF Aggregate, CompletedStays
  <1>8. QED
    BY <1>2, <1>3, <1>4, <1>6, <1>7 DEF Next

\* Completed is final, for a task and for a plan (the updates of runTask, cancel and
\* retry look at the status they replace).
THEOREM CompletedIsFinal == Spec => [][CompletedStays]_vars
  <1>1. TreeInv /\ [Next]_vars => [CompletedStays]_vars
    BY CompletedKept
  <1>2. QED
    BY <1>1, Invariant, PTL DEF Spec

-----------------------------------------------------------------------------
(* The inductive invariant of the goals *)

TaskOfGoalStatus == EndedTask \cup ActiveTask \cup {"awaiting_review", "changes_requested"}
GoalRecord == [status : GoalStatus, tasks : Seq(Nat)]

\* The task t has the fields of one; what it is about, its dependencies and inputs, and
\* the attempt that a review was shown, may be anything.
IsTask(t) ==
    t \in [kind : {"planning", "work", "review", "synthesis"}, about : {t.about}, deps : {t.deps},
           gate : BOOLEAN, inputs : {t.inputs}, status : TaskOfGoalStatus, attempt : {t.attempt}, verdict : Nat]

PlanPhases == {"plan", "planPush", "planRun", "planRead"}
WavePhases == {"wave", "step", "stepPush", "waveRun", "waveRead"}
ReviewPhases == {"cycleRun", "list", "review", "reviewPush", "reviewRun", "decide", "again", "tally"}
SynthesisPhases == {"synth", "synthPush", "synthRun", "synthRead", "finish"}
PushPhases == {"planPush", "stepPush", "reviewPush", "synthPush"}

\* The pump p has its fields; what awaits and the counts of cycles may be anything.
IsPump(p) ==
    p \in
    [pc : {"idle"} \cup PlanPhases \cup WavePhases \cup ReviewPhases \cup SynthesisPhases,
     goal : Goals \cup {NoGoal}, attempt : Nat, plan : Proposals \cup {<<>>},
     placed : [StepIds -> Nat], wave : SUBSET StepIds, public : SUBSET StepIds, made : Nat, running : Nat,
     awaiting : {p.awaiting}, cycles : {p.cycles}, ok : BOOLEAN]

TasksTyped ==
    task \in Seq({task[i] : i \in DOMAIN task}) /\ \A i \in DOMAIN task : IsTask(task[i])

GoalsTypeOK ==
    /\ goal \in [Goals -> GoalRecord]
    /\ chain \in Seq(Goals)
    /\ IsPump(pump)
    /\ TasksTyped
    /\ cancel \in [goal : Goals \cup {NoGoal}, next : Nat]

\* Only a gated step is reviewed; the verdict on a completed one is of the attempt that it is.
Verdicts ==
    \A i \in DOMAIN task :
        /\ task[i].gate => task[i].kind = "work"
        /\ Is(i, {"awaiting_review", "changes_requested"}) => task[i].gate
        /\ Is(i, {"completed"}) /\ task[i].gate =>
            /\ task[i].verdict \in DOMAIN task
            /\ task[task[i].verdict].kind = "review"
            /\ task[task[i].verdict].about = i
            /\ task[task[i].verdict].attempt = task[i].attempt

\* The review in progress is of the attempt that awaits it, and what is tried again is a step.
ReviewUnderWay ==
    /\ pump.pc \in {"reviewPush", "reviewRun", "decide"} =>
        /\ task[pump.made].kind = "review" /\ task[pump.made].about = Subject
        /\ Subject \in DOMAIN task => task[pump.made].attempt = task[Subject].attempt
    /\ pump.pc = "again" /\ Subject \in DOMAIN task => task[Subject].kind = "work"

\* The pump p has made the task it is about to note, and the steps of the plan, its work,
\* when it reviews them.
PumpFacts(p, work) ==
    /\ p.pc \in PushPhases \cup {"reviewRun", "decide"} => p.made \in DOMAIN task
    /\ p.pc = "stepPush" => task[p.made].kind = "work" /\ task[p.made].about \in StepIds
    /\ p.pc = "synthPush" => task[p.made].kind = "synthesis"
    /\ p.pc \in PlanPhases => p.wave = {} /\ \A s \in StepIds : p.placed[s] = 0
    /\ p.pc \in WavePhases =>
        p.plan # <<>> /\ p.wave \subseteq DOMAIN p.plan /\ \A s \in StepIds : p.placed[s] # 0 => p.placed[s] \in work
    /\ p.pc \in ReviewPhases \cup SynthesisPhases => work # {}

\* What a pump works on is not completed, and every task of a goal is there.
PumpKnows ==
    /\ \A g \in Goals : Known(g) \subseteq DOMAIN task
    /\ pump.pc # "idle" =>
        pump.goal \in Goals /\ goal[pump.goal].status # "completed" /\ PumpFacts(pump, Work(pump.goal))

AllDone(g) == Work(g) # {} /\ \A i \in Work(g) : Is(i, {"completed"})

\* From the tally on the outcome cannot be undone.
OutcomeStands ==
    /\ pump.pc \in SynthesisPhases /\ pump.ok => AllDone(pump.goal)
    /\ \A g \in Goals : goal[g].status = "completed" => AllDone(g)

GoalsInv == GoalsTypeOK /\ Verdicts /\ ReviewUnderWay /\ PumpKnows /\ OutcomeStands

-----------------------------------------------------------------------------
(* Sequences of tasks *)

LEMMA SequenceGrows ==
  ASSUME NEW S, NEW s \in Seq(S), NEW e
  PROVE  /\ Append(s, e) \in Seq(S \cup {e}) /\ Len(Append(s, e)) = Len(s) + 1
         /\ DOMAIN Append(s, e) = 1..(Len(s) + 1) /\ DOMAIN s = 1..Len(s) /\ Len(s) \in Nat
         /\ \A i \in DOMAIN s : Append(s, e)[i] = s[i]
         /\ Append(s, e)[Len(s) + 1] = e
  <1>1. s \in Seq(S \cup {e})
    OBVIOUS
  <1>2. QED
    BY <1>1

LEMMA SequenceOfItsElements ==
  ASSUME NEW S, NEW s \in Seq(S)
  PROVE  s \in Seq({s[i] : i \in DOMAIN s})
  OBVIOUS

LEMMA SequenceChange ==
  ASSUME NEW S, NEW s \in Seq(S), NEW i, NEW e
  PROVE  /\ [s EXCEPT ![i] = e] \in Seq(S \cup {e}) /\ Len([s EXCEPT ![i] = e]) = Len(s)
         /\ DOMAIN [s EXCEPT ![i] = e] = DOMAIN s
  <1> DEFINE n == Len(s)
             f == [s EXCEPT ![i] = e]
  <1>1. n \in Nat /\ s \in [1..n -> S]
    OBVIOUS
  <1>2. f \in [1..n -> S \cup {e}]
    BY <1>1
  <1>3. f \in Seq(S \cup {e})
    BY <1>1, <1>2
  <1>4. Len(f) = n
    BY <1>1, <1>2, <1>3
  <1>5. QED
    BY <1>1, <1>2, <1>3, <1>4

LEMMA TaskDomain ==
  ASSUME TasksTyped
  PROVE  DOMAIN task = 1..Len(task) /\ Len(task) \in Nat
  BY DEF TasksTyped

\* What no step takes away: what a task is, and that it is completed.
TasksStay ==
    /\ DOMAIN task \subseteq DOMAIN task'
    /\ \A i \in DOMAIN task :
        /\ task'[i].kind = task[i].kind /\ task'[i].about = task[i].about
        /\ Is(i, {"completed"}) => task'[i].status = "completed"

LEMMA TaskAdded ==
  ASSUME TasksTyped, Verdicts, NEW t, IsTask(t), t.status = "queued", t.gate => t.kind = "work",
         task' = Append(task, t)
  PROVE  /\ TasksTyped' /\ Verdicts' /\ TasksStay
         /\ Len(task) + 1 \in DOMAIN task' /\ task'[Len(task) + 1] = t
         /\ \A i \in DOMAIN task : task'[i] = task[i]
         /\ DOMAIN task' = DOMAIN task \cup {Len(task) + 1}
  <1>1. /\ task' \in Seq({task[i] : i \in DOMAIN task} \cup {t}) /\ Len(task) \in Nat
        /\ DOMAIN task' = 1..(Len(task) + 1) /\ DOMAIN task = 1..Len(task)
        /\ \A i \in DOMAIN task : task'[i] = task[i]
        /\ task'[Len(task) + 1] = t
    BY SequenceGrows DEF TasksTyped
  <1>2. \A i \in DOMAIN task' : i \in DOMAIN task \/ i = Len(task) + 1
    BY <1>1
  <1>3. TasksTyped'
    <2>1. task' \in Seq({task'[i] : i \in DOMAIN task'})
      BY <1>1, SequenceOfItsElements
    <2>2. \A i \in DOMAIN task' : IsTask(task'[i])
      BY <1>1, <1>2 DEF TasksTyped
    <2>3. QED
      BY <2>1, <2>2 DEF TasksTyped
  <1>4. Verdicts'
    BY <1>1, <1>2 DEF Verdicts, Is
  <1>5. TasksStay
    BY <1>1 DEF TasksStay, Is
  <1>6. QED
    BY <1>1, <1>2, <1>3, <1>4, <1>5

LEMMA TaskChanged ==
  ASSUME TasksTyped, NEW i, NEW e, i \in DOMAIN task => IsTask(e), task' = [task EXCEPT ![i] = e]
  PROVE  /\ TasksTyped' /\ DOMAIN task' = DOMAIN task
         /\ \A j \in DOMAIN task : task'[j] = IF j = i THEN e ELSE task[j]
  <1> DEFINE S == {task[j] : j \in DOMAIN task}
  <1>s. task \in Seq(S)
    BY DEF TasksTyped
  <1> HIDE DEF S
  <1>c. task' \in Seq(S \cup {e}) /\ DOMAIN task' = DOMAIN task
    BY <1>s, SequenceChange
  <1>1. /\ task' \in Seq(S \cup {e}) /\ DOMAIN task' = DOMAIN task
        /\ \A j \in DOMAIN task : task'[j] = IF j = i THEN e ELSE task[j]
    <2>1. task \in [1..Len(task) -> S]
      BY <1>s
    <2>2. QED
      BY <2>1, <1>c
  <1>2. task' \in Seq({task'[j] : j \in DOMAIN task'})
    <2>1. \A r \in Seq(S \cup {e}) : r \in Seq({r[j] : j \in DOMAIN r})
      BY SequenceOfItsElements
    <2>2. QED
      BY <2>1, <1>c
  <1>3. QED
    BY <1>1, <1>2 DEF TasksTyped

\* A task that is not completed moves on; a gated one is not completed so.
LEMMA StatusChanged ==
  ASSUME TasksTyped, Verdicts, NEW i, NEW s \in TaskOfGoalStatus,
         i \in DOMAIN task => /\ ~Is(i, {"completed"}) /\ (s = "completed" => ~task[i].gate)
                              /\ s \in {"awaiting_review", "changes_requested"} => task[i].gate,
         task' = [task EXCEPT ![i].status = s]
  PROVE  /\ TasksTyped' /\ Verdicts' /\ TasksStay /\ DOMAIN task' = DOMAIN task
         /\ \A j \in DOMAIN task : task'[j].attempt = task[j].attempt
  <1> DEFINE e == [task[i] EXCEPT !.status = s]
  <1>1. i \in DOMAIN task => IsTask(task[i])
    BY DEF TasksTyped
  <1>2. i \in DOMAIN task =>
            /\ IsTask(e) /\ e.status = s /\ e.kind = task[i].kind /\ e.about = task[i].about
            /\ e.gate = task[i].gate /\ e.attempt = task[i].attempt /\ e.verdict = task[i].verdict
    BY <1>1 DEF IsTask
  <1> HIDE DEF e
  <1>3. /\ TasksTyped' /\ DOMAIN task' = DOMAIN task
        /\ \A j \in DOMAIN task : task'[j] = IF j = i THEN e ELSE task[j]
    BY <1>2, TaskChanged DEF e
  <1>4. \A j \in DOMAIN task :
            /\ task'[j].kind = task[j].kind /\ task'[j].about = task[j].about
            /\ task'[j].gate = task[j].gate /\ task'[j].attempt = task[j].attempt
            /\ task'[j].verdict = task[j].verdict
            /\ task'[j].status = IF j = i THEN s ELSE task[j].status
    BY <1>2, <1>3
  <1>5. Verdicts'
    BY <1>3, <1>4 DEF Verdicts, Is
  <1>6. TasksStay
    BY <1>3, <1>4 DEF TasksStay, Is
  <1>7. QED
    BY <1>3, <1>4, <1>5, <1>6

\* A verdict that binds the attempt it was given on completes the task.
LEMMA VerdictGiven ==
  ASSUME TasksTyped, Verdicts, NEW i, NEW v \in DOMAIN task,
         i \in DOMAIN task =>
            /\ Is(i, {"awaiting_review"}) /\ task[v].kind = "review" /\ task[v].about = i
            /\ task[v].attempt = task[i].attempt,
         task' = [task EXCEPT ![i].status = "completed", ![i].verdict = v]
  PROVE  TasksTyped' /\ Verdicts' /\ TasksStay /\ DOMAIN task' = DOMAIN task
  <1> DEFINE e == [task[i] EXCEPT !.status = "completed", !.verdict = v]
  <1>1. (i \in DOMAIN task => IsTask(task[i])) /\ v \in Nat
    BY TaskDomain DEF TasksTyped
  <1>2. i \in DOMAIN task =>
            /\ IsTask(e) /\ e.status = "completed" /\ e.kind = task[i].kind /\ e.about = task[i].about
            /\ e.gate = task[i].gate /\ e.attempt = task[i].attempt /\ e.verdict = v
    BY <1>1 DEF IsTask, TaskOfGoalStatus, EndedTask
  <1>3. task' = [task EXCEPT ![i] = e]
    OBVIOUS
  <1> HIDE DEF e
  <1>4. /\ TasksTyped' /\ DOMAIN task' = DOMAIN task
        /\ \A j \in DOMAIN task : task'[j] = IF j = i THEN e ELSE task[j]
    <2>1. i \in DOMAIN task => IsTask(e)
      BY <1>2
    <2>2. QED
      BY <2>1, <1>3, TaskChanged
  <1>5. i \in DOMAIN task => task[i].kind = "work" /\ i # v
    BY DEF Verdicts, Is
  <1>6. \A j \in DOMAIN task :
            /\ task'[j].kind = task[j].kind /\ task'[j].about = task[j].about
            /\ task'[j].gate = task[j].gate /\ task'[j].attempt = task[j].attempt
            /\ task'[j].verdict = IF j = i THEN v ELSE task[j].verdict
            /\ task'[j].status = IF j = i THEN "completed" ELSE task[j].status
    BY <1>2, <1>4
  <1>7. Verdicts'
    BY <1>4, <1>5, <1>6 DEF Verdicts, Is
  <1>8. TasksStay
    BY <1>4, <1>6 DEF TasksStay, Is
  <1>9. QED
    BY <1>4, <1>7, <1>8

\* A step that is tried again is nobody's verdict.
LEMMA TriedAgain ==
  ASSUME TasksTyped, Verdicts, NEW i, i \in DOMAIN task => ~Is(i, {"completed"}) /\ task[i].kind = "work",
         task' = Retried(i)
  PROVE  TasksTyped' /\ Verdicts' /\ TasksStay /\ DOMAIN task' = DOMAIN task
  <1> DEFINE e == [task[i] EXCEPT !.status = "queued", !.attempt = @ + 1]
  <1>1. i \in DOMAIN task => IsTask(task[i])
    BY DEF TasksTyped
  <1>2. i \in DOMAIN task =>
            /\ IsTask(e) /\ e.status = "queued" /\ e.kind = task[i].kind /\ e.about = task[i].about
            /\ e.gate = task[i].gate /\ e.verdict = task[i].verdict
    BY <1>1 DEF IsTask, TaskOfGoalStatus, ActiveTask
  <1>3. task' = [task EXCEPT ![i] = e]
    BY DEF Retried
  <1> HIDE DEF e
  <1>4. /\ TasksTyped' /\ DOMAIN task' = DOMAIN task
        /\ \A j \in DOMAIN task : task'[j] = IF j = i THEN e ELSE task[j]
    BY <1>2, <1>3, TaskChanged, ZenonT(40)
  <1>5. \A j \in DOMAIN task :
            /\ task'[j].kind = task[j].kind /\ task'[j].about = task[j].about
            /\ task'[j].gate = task[j].gate /\ task'[j].verdict = task[j].verdict
            /\ j # i => task'[j].attempt = task[j].attempt
            /\ task'[j].status = IF j = i THEN "queued" ELSE task[j].status
    BY <1>2, <1>4
  <1>6. Verdicts'
    <2> SUFFICES ASSUME NEW j \in DOMAIN task
                 PROVE  /\ task'[j].gate => task'[j].kind = "work"
                        /\ task'[j].status \in {"awaiting_review", "changes_requested"} => task'[j].gate
                        /\ task'[j].status = "completed" /\ task'[j].gate =>
                            /\ task'[j].verdict \in DOMAIN task
                            /\ task'[task'[j].verdict].kind = "review"
                            /\ task'[task'[j].verdict].about = j
                            /\ task'[task'[j].verdict].attempt = task'[j].attempt
      BY <1>4 DEF Verdicts, Is
    <2>1. CASE j = i
      BY <1>5, <2>1 DEF Verdicts, Is
    <2>2. CASE j # i
      BY <1>5, <2>2 DEF Verdicts, Is
    <2>3. QED
      BY <2>1, <2>2
  <1>7. TasksStay
    BY <1>4, <1>5 DEF TasksStay, Is
  <1>8. QED
    BY <1>4, <1>6, <1>7

LEMMA TasksUnchanged ==
  ASSUME TasksTyped, Verdicts, task' = task
  PROVE  TasksTyped' /\ Verdicts' /\ TasksStay /\ DOMAIN task' = DOMAIN task
  BY DEF TasksTyped, Verdicts, TasksStay, Is

-----------------------------------------------------------------------------
(* What a pump knows *)

\* Work that is done stays so, whoever else runs tasks.
LEMMA WorkStays ==
  ASSUME TasksStay, NEW g, goal'[g].tasks = goal[g].tasks, Known(g) \subseteq DOMAIN task
  PROVE  Known(g)' = Known(g) /\ Work(g)' = Work(g) /\ (AllDone(g) => AllDone(g)')
  <1>1. Known(g)' = Known(g)
    BY DEF Known
  <1>2. Work(g)' = Work(g)
    BY <1>1 DEF Work, TasksStay
  <1>3. AllDone(g) => AllDone(g)'
    BY <1>2 DEF AllDone, Work, TasksStay, Is
  <1>4. QED
    BY <1>1, <1>2, <1>3

-----------------------------------------------------------------------------
(* Moves of the pump *)

PumpPhases == PlanPhases \cup WavePhases \cup ReviewPhases \cup SynthesisPhases

LEMMA NoPumpIsOne == IsPump(NoPump) /\ NoPump.pc = "idle"
  BY GoalsAssumption DEF IsPump, NoPump

\* What the pump is given may not be of its domain: what awaits and the cycles are untouched here.
LEMMA PumpGoes ==
  ASSUME IsPump(pump), NEW x \in PumpPhases, NEW q, q = [pump EXCEPT !.pc = x]
  PROVE  /\ IsPump(q) /\ q.pc = x /\ q.goal = pump.goal /\ q.attempt = pump.attempt /\ q.plan = pump.plan
         /\ q.placed = pump.placed /\ q.wave = pump.wave /\ q.public = pump.public /\ q.made = pump.made
         /\ q.running = pump.running /\ q.awaiting = pump.awaiting /\ q.cycles = pump.cycles /\ q.ok = pump.ok
  BY DEF IsPump, PumpPhases

\* The facts do not depend on what tasks have become meanwhile.
LEMMA FactsStay ==
  ASSUME TasksStay, NEW p, NEW work, PumpFacts(p, work)
  PROVE  /\ p.pc \in PushPhases \cup {"reviewRun", "decide"} => p.made \in DOMAIN task'
         /\ p.pc = "stepPush" => task'[p.made].kind = "work" /\ task'[p.made].about \in StepIds
         /\ p.pc = "synthPush" => task'[p.made].kind = "synthesis"
         /\ p.pc \in PlanPhases => p.wave = {} /\ \A s \in StepIds : p.placed[s] = 0
         /\ p.pc \in WavePhases =>
             /\ p.plan # <<>> /\ p.wave \subseteq DOMAIN p.plan
             /\ \A s \in StepIds : p.placed[s] # 0 => p.placed[s] \in work
         /\ p.pc \in ReviewPhases \cup SynthesisPhases => work # {}
  BY DEF PumpFacts, TasksStay, PushPhases

\* A step that creates no task and notes none.
LEMMA PumpMoves ==
  ASSUME GoalsInv, TasksTyped', Verdicts', TasksStay, ReviewUnderWay',
         goal' \in [Goals -> GoalRecord], chain' \in Seq(Goals),
         cancel' \in [goal : Goals \cup {NoGoal}, next : Nat], IsPump(pump'),
         \A g \in Goals : goal'[g].tasks = goal[g].tasks,
         \A g \in Goals : goal'[g].status = "completed" => AllDone(g),
         pump'.pc # "idle" =>
            /\ pump'.goal \in Goals /\ goal'[pump'.goal].status # "completed"
            /\ PumpFacts(pump', Work(pump'.goal)),
         pump'.pc \in SynthesisPhases /\ pump'.ok => AllDone(pump'.goal)
  PROVE  GoalsInv'
  <1>1. \A g \in Goals : Known(g)' = Known(g) /\ Work(g)' = Work(g) /\ (AllDone(g) => AllDone(g)')
    <2>1. SUFFICES ASSUME NEW g \in Goals
                   PROVE  Known(g)' = Known(g) /\ Work(g)' = Work(g) /\ (AllDone(g) => AllDone(g)')
      OBVIOUS
    <2>2. Known(g) \subseteq DOMAIN task
      BY DEF GoalsInv, PumpKnows
    <2>3. QED
      BY <2>2, WorkStays
  <1>2. GoalsTypeOK'
    BY DEF GoalsTypeOK
  <1>3. PumpKnows'
    <2>1. \A g \in Goals : Known(g)' \subseteq DOMAIN task'
      BY <1>1 DEF GoalsInv, PumpKnows, TasksStay
    <2>2. ASSUME pump'.pc # "idle"
          PROVE  PumpFacts(pump, Work(pump.goal))'
      <3>1. pump'.goal \in Goals /\ PumpFacts(pump', Work(pump'.goal))
        BY <2>2
      <3>2. Work(pump.goal)' = Work(pump'.goal)
        <4>1. PICK g \in Goals : g = pump'.goal
          BY <3>1
        <4>2. Work(pump.goal)' = Work(g)'
          BY <4>1 DEF Work, Known
        <4>3. Work(g) = Work(pump'.goal)
          BY <4>1
        <4>4. QED
          BY <1>1, <4>1, <4>2, <4>3
      <3>3. QED
        <4> DEFINE p == pump'
                   work == Work(pump'.goal)
        <4>1. PumpFacts(p, work)
          BY <3>1
        <4> HIDE DEF p, work
        <4>2. /\ p.pc \in PushPhases \cup {"reviewRun", "decide"} => p.made \in DOMAIN task'
              /\ p.pc = "stepPush" => task'[p.made].kind = "work" /\ task'[p.made].about \in StepIds
              /\ p.pc = "synthPush" => task'[p.made].kind = "synthesis"
              /\ p.pc \in PlanPhases => p.wave = {} /\ \A s \in StepIds : p.placed[s] = 0
              /\ p.pc \in WavePhases =>
                  /\ p.plan # <<>> /\ p.wave \subseteq DOMAIN p.plan
                  /\ \A s \in StepIds : p.placed[s] # 0 => p.placed[s] \in work
              /\ p.pc \in ReviewPhases \cup SynthesisPhases => work # {}
          BY <4>1, FactsStay
        <4>3. Work(pump.goal)' = work
          BY <3>2 DEF work
        <4>4. QED
          BY <4>2, <4>3 DEF p, PumpFacts
    <2>3. QED
      BY <2>1, <2>2 DEF PumpKnows
  <1>4. OutcomeStands'
    BY <1>1 DEF OutcomeStands, SynthesisPhases
  <1>5. QED
    BY <1>2, <1>3, <1>4 DEF GoalsInv

\* A step of anybody, the pump included, that leaves the pump where it is.
LEMMA OthersMove ==
  ASSUME GoalsInv, TasksTyped', Verdicts', TasksStay, DOMAIN task' = DOMAIN task,
         \A j \in DOMAIN task : task'[j].attempt = task[j].attempt,
         goal' \in [Goals -> GoalRecord], chain' \in Seq(Goals),
         cancel' \in [goal : Goals \cup {NoGoal}, next : Nat],
         \A g \in Goals : goal'[g].tasks = goal[g].tasks,
         \A g \in Goals : goal'[g].status = "completed" => goal[g].status = "completed",
         IsPump(pump'),
         /\ pump'.pc = pump.pc /\ pump'.goal = pump.goal /\ pump'.plan = pump.plan /\ pump'.placed = pump.placed
         /\ pump'.wave = pump.wave /\ pump'.made = pump.made /\ pump'.awaiting = pump.awaiting /\ pump'.ok = pump.ok
  PROVE  GoalsInv'
  <1>1. ReviewUnderWay'
    <2>1. Subject' = Subject
      BY DEF Subject
    <2>2. pump.pc \in {"reviewPush", "reviewRun", "decide"} => pump.made \in DOMAIN task
      BY DEF GoalsInv, PumpKnows, PumpFacts, PushPhases
    <2>3. QED
      BY <2>1, <2>2 DEF GoalsInv, ReviewUnderWay, TasksStay
  <1>2. pump'.pc # "idle" =>
            /\ pump'.goal \in Goals /\ goal'[pump'.goal].status # "completed"
            /\ PumpFacts(pump', Work(pump'.goal))
    BY DEF GoalsInv, PumpKnows, PumpFacts
  <1>3. pump'.pc \in SynthesisPhases /\ pump'.ok => AllDone(pump'.goal)
    BY DEF GoalsInv, OutcomeStands
  <1>4. \A g \in Goals : goal'[g].status = "completed" => AllDone(g)
    BY DEF GoalsInv, OutcomeStands
  <1>5. QED
    BY <1>1, <1>2, <1>3, <1>4, PumpMoves

\* A pump that gives up, or has finished.
LEMMA PumpStops ==
  ASSUME GoalsInv, task' = task, goal' \in [Goals -> GoalRecord], chain' \in Seq(Goals),
         cancel' \in [goal : Goals \cup {NoGoal}, next : Nat],
         \A g \in Goals : goal'[g].tasks = goal[g].tasks,
         \A g \in Goals : goal'[g].status = "completed" => AllDone(g),
         IsPump(pump'), pump'.pc = "idle"
  PROVE  GoalsInv'
  <1>1. TasksTyped' /\ Verdicts' /\ TasksStay
    BY TasksUnchanged DEF GoalsInv, GoalsTypeOK
  <1>2. ReviewUnderWay'
    BY DEF ReviewUnderWay
  <1>3. pump'.pc \notin SynthesisPhases
    BY DEF SynthesisPhases
  <1>4. QED
    BY <1>1, <1>2, <1>3, PumpMoves

\* A pump that goes on with its goal and leaves the tasks alone.
LEMMA PumpGoesOn ==
  ASSUME GoalsInv, task' = task, goal' \in [Goals -> GoalRecord], chain' = chain, cancel' = cancel,
         \A g \in Goals : goal'[g].tasks = goal[g].tasks,
         \A g \in Goals : goal'[g].status = "completed" => goal[g].status = "completed",
         IsPump(pump'), pump.pc # "idle", pump'.goal = pump.goal,
         PumpFacts(pump', Work(pump.goal)), ReviewUnderWay',
         pump'.pc \in SynthesisPhases /\ pump'.ok => AllDone(pump.goal)
  PROVE  GoalsInv'
  <1>1. TasksTyped' /\ Verdicts' /\ TasksStay
    BY TasksUnchanged DEF GoalsInv, GoalsTypeOK
  <1>2. /\ pump'.goal \in Goals /\ goal'[pump'.goal].status # "completed"
        /\ PumpFacts(pump', Work(pump'.goal))
    BY DEF GoalsInv, PumpKnows
  <1>3. \A g \in Goals : goal'[g].status = "completed" => AllDone(g)
    BY DEF GoalsInv, OutcomeStands
  <1>4. chain' \in Seq(Goals) /\ cancel' \in [goal : Goals \cup {NoGoal}, next : Nat]
    BY DEF GoalsInv, GoalsTypeOK
  <1>5. pump'.pc \in SynthesisPhases /\ pump'.ok => AllDone(pump'.goal)
    OBVIOUS
  <1>6. QED
    BY <1>1, <1>2, <1>3, <1>4, <1>5, PumpMoves

\* Only the status of goals changes; nobody but Finish completes one.
LEMMA StatusSet ==
  ASSUME GoalsTypeOK, NEW g \in Goals, NEW s \in GoalStatus, goal' = WithStatus(g, s)
  PROVE  /\ goal' \in [Goals -> GoalRecord] /\ \A h \in Goals : goal'[h].tasks = goal[h].tasks
         /\ \A h \in Goals : goal'[h].status = IF h = g THEN s ELSE goal[h].status
  BY DEF GoalsTypeOK, GoalRecord, WithStatus

LEMMA PumpFails ==
  ASSUME GoalsInv, pump.pc # "idle", Fail, task' = task, chain' = chain, cancel' = cancel
  PROVE  GoalsInv'
  <1>1. pump.goal \in Goals
    BY DEF GoalsInv, PumpKnows
  <1>2. /\ goal' \in [Goals -> GoalRecord] /\ \A h \in Goals : goal'[h].tasks = goal[h].tasks
        /\ \A h \in Goals : goal'[h].status = IF h = pump.goal THEN "failed" ELSE goal[h].status
    BY <1>1, StatusSet DEF GoalsInv, Fail, GoalStatus, TerminalGoal
  <1>3. \A h \in Goals : goal'[h].status = "completed" => AllDone(h)
    BY <1>2 DEF GoalsInv, OutcomeStands
  <1>4. chain' \in Seq(Goals) /\ cancel' \in [goal : Goals \cup {NoGoal}, next : Nat]
    BY DEF GoalsInv, GoalsTypeOK
  <1>5. IsPump(pump') /\ pump'.pc = "idle"
    BY NoPumpIsOne DEF Fail
  <1>6. QED
    BY <1>2, <1>3, <1>4, <1>5, PumpStops

LEMMA PumpGivesUp ==
  ASSUME GoalsInv, pump' = NoPump, goal' = goal, task' = task, chain' = chain, cancel' = cancel
  PROVE  GoalsInv'
  <1>1. goal' \in [Goals -> GoalRecord] /\ chain' \in Seq(Goals) /\ cancel' \in [goal : Goals \cup {NoGoal}, next : Nat]
    BY DEF GoalsInv, GoalsTypeOK
  <1>2. \A h \in Goals : goal'[h].status = "completed" => AllDone(h)
    BY DEF GoalsInv, OutcomeStands
  <1>3. QED
    BY <1>1, <1>2, NoPumpIsOne, PumpStops

\* A task is created, and its number is not known to the goal yet.
LEMMA PumpCreates ==
  ASSUME GoalsInv, NEW t, IsTask(t), t.status = "queued", t.gate => t.kind = "work",
         NEW x \in PushPhases, Create(t, x), pump.pc # "idle",
         x = "planPush" => pump.pc \in PlanPhases,
         x = "stepPush" => pump.pc \in WavePhases /\ t.kind = "work" /\ t.about \in StepIds,
         x = "reviewPush" =>
            /\ pump.pc \in ReviewPhases /\ t.kind = "review" /\ t.about = Subject
            /\ Subject \in DOMAIN task => t.attempt = task[Subject].attempt,
         x = "synthPush" => pump.pc \in SynthesisPhases /\ t.kind = "synthesis"
  PROVE  GoalsInv'
  <1> DEFINE n == Len(task) + 1
  <1>1. /\ task' = Append(task, t) /\ pump' = [pump EXCEPT !.pc = x, !.made = n]
        /\ goal' = goal /\ chain' = chain /\ cancel' = cancel
    BY DEF Create
  <1>2. /\ TasksTyped' /\ Verdicts' /\ TasksStay
        /\ n \in DOMAIN task' /\ task'[n] = t
        /\ \A i \in DOMAIN task : task'[i] = task[i]
        /\ DOMAIN task' = DOMAIN task \cup {n}
    BY <1>1, TaskAdded DEF GoalsInv, GoalsTypeOK
  <1>3. n \in Nat
    BY TaskDomain DEF GoalsInv, GoalsTypeOK
  <1> HIDE DEF n
  <1>4. /\ IsPump(pump') /\ pump'.pc = x /\ pump'.made = n /\ pump'.goal = pump.goal /\ pump'.plan = pump.plan
        /\ pump'.placed = pump.placed /\ pump'.wave = pump.wave /\ pump'.awaiting = pump.awaiting
        /\ pump'.ok = pump.ok
    BY <1>1, <1>3 DEF GoalsInv, GoalsTypeOK, IsPump, PushPhases, PlanPhases, WavePhases, ReviewPhases, SynthesisPhases
  <1>5. \A g \in Goals : Known(g)' = Known(g) /\ Work(g)' = Work(g) /\ (AllDone(g) => AllDone(g)')
    <2>1. SUFFICES ASSUME NEW g \in Goals
                   PROVE  Known(g)' = Known(g) /\ Work(g)' = Work(g) /\ (AllDone(g) => AllDone(g)')
      OBVIOUS
    <2>2. Known(g) \subseteq DOMAIN task
      BY DEF GoalsInv, PumpKnows
    <2>3. QED
      BY <1>1, <1>2, <2>2, WorkStays
  <1>6. GoalsTypeOK'
    BY <1>1, <1>2, <1>4 DEF GoalsInv, GoalsTypeOK
  <1>7. ReviewUnderWay'
    <2>1. Subject' = Subject
      BY <1>4 DEF Subject
    <2>2. QED
      BY <1>2, <1>4, <2>1 DEF ReviewUnderWay, PushPhases
  <1>8. PumpKnows'
    <2>1. \A g \in Goals : Known(g)' \subseteq DOMAIN task'
      BY <1>2, <1>5 DEF GoalsInv, PumpKnows
    <2>2. Work(pump.goal)' = Work(pump.goal)
      <3>1. PICK g \in Goals : g = pump.goal
        BY DEF GoalsInv, PumpKnows
      <3>2. QED
        BY <1>4, <1>5, <3>1 DEF Work, Known
    <2>3. PumpFacts(pump, Work(pump.goal))
      BY DEF GoalsInv, PumpKnows
    <2>4. PumpFacts(pump, Work(pump.goal))'
      BY <1>2, <1>4, <2>2, <2>3 DEF PumpFacts, PushPhases, PlanPhases, WavePhases, ReviewPhases, SynthesisPhases
    <2>5. QED
      BY <1>1, <1>4, <2>1, <2>4 DEF GoalsInv, PumpKnows
  <1>9. OutcomeStands'
    <2>1. pump'.pc \in SynthesisPhases => pump.pc \in SynthesisPhases
      BY <1>4 DEF PushPhases, SynthesisPhases
    <2>2. pump'.pc \in SynthesisPhases /\ pump'.ok => AllDone(pump.goal)'
      <3>1. PICK g \in Goals : g = pump.goal
        BY DEF GoalsInv, PumpKnows
      <3>2. AllDone(pump.goal)' <=> AllDone(g)'
        BY <1>4, <3>1 DEF AllDone, Work, Known
      <3>3. QED
        BY <1>4, <1>5, <2>1, <3>1, <3>2 DEF GoalsInv, OutcomeStands
    <2>3. QED
      BY <1>1, <1>5, <2>2 DEF GoalsInv, OutcomeStands
  <1>10. QED
    BY <1>2, <1>6, <1>7, <1>8, <1>9 DEF GoalsInv

\* The task just made becomes one of the goal's, and of its work when it is a step.
LEMMA PumpPushes ==
  ASSUME GoalsInv, pump.pc \in PushPhases, Push, task' = task, chain' = chain, cancel' = cancel,
         IsPump(pump'), ReviewUnderWay',
         pump'.pc # "idle" =>
            /\ pump'.goal = pump.goal
            /\ PumpFacts(pump', Work(pump.goal) \cup {i \in {pump.made} : task[i].kind = "work"}),
         pump'.pc \in SynthesisPhases => pump.pc = "synthPush" /\ pump'.ok = pump.ok
  PROVE  GoalsInv'
  <1> DEFINE made == {i \in {pump.made} : task[i].kind = "work"}
  <1>1. /\ pump.pc # "idle" /\ pump.goal \in Goals /\ goal[pump.goal].status # "completed"
        /\ PumpFacts(pump, Work(pump.goal))
    BY DEF GoalsInv, PumpKnows, PushPhases
  <1>2. pump.made \in DOMAIN task /\ pump.made \in Nat /\ (pump.pc = "synthPush" => made = {})
    BY <1>1, TaskDomain DEF PumpFacts, GoalsInv, GoalsTypeOK
  <1>3. goal' = [goal EXCEPT ![pump.goal].tasks = Append(@, pump.made)] /\ goal \in [Goals -> GoalRecord]
    BY DEF Push, GoalsInv, GoalsTypeOK
  <1>4. goal[pump.goal].tasks \in Seq(Nat)
    BY <1>1, <1>3 DEF GoalRecord
  <1>5. /\ Append(goal[pump.goal].tasks, pump.made) \in Seq(Nat)
        /\ ToSet(Append(goal[pump.goal].tasks, pump.made)) = ToSet(goal[pump.goal].tasks) \cup {pump.made}
    <2> DEFINE s == goal[pump.goal].tasks
    <2>1. s \in Seq(Nat)
      BY <1>4
    <2>2. Append(s, pump.made) \in Seq(Nat)
      BY <1>2, <2>1
    <2>3. /\ DOMAIN Append(s, pump.made) = 1..(Len(s) + 1) /\ DOMAIN s = 1..Len(s) /\ Len(s) \in Nat
          /\ \A i \in DOMAIN s : Append(s, pump.made)[i] = s[i]
          /\ Append(s, pump.made)[Len(s) + 1] = pump.made
      <3> HIDE DEF s
      <3>1. \A e : /\ DOMAIN Append(s, e) = 1..(Len(s) + 1) /\ DOMAIN s = 1..Len(s) /\ Len(s) \in Nat
                   /\ \A i \in DOMAIN s : Append(s, e)[i] = s[i]
                   /\ Append(s, e)[Len(s) + 1] = e
        BY <2>1, SequenceGrows
      <3>2. QED
        BY <3>1
    <2> HIDE DEF s
    <2>4. DOMAIN Append(s, pump.made) = DOMAIN s \cup {Len(s) + 1}
      BY <2>3
    <2>5. ToSet(Append(s, pump.made)) = ToSet(s) \cup {pump.made}
      BY <2>3, <2>4 DEF ToSet
    <2>6. QED
      BY <2>2, <2>5 DEF s
  <1>6. /\ goal' \in [Goals -> GoalRecord]
        /\ \A g \in Goals : goal'[g].status = goal[g].status
        /\ \A g \in Goals : goal'[g].tasks = IF g = pump.goal THEN Append(goal[g].tasks, pump.made) ELSE goal[g].tasks
    BY <1>1, <1>3, <1>5 DEF GoalRecord
  <1>7. \A g \in Goals : Known(g)' = Known(g) \cup (IF g = pump.goal THEN {pump.made} ELSE {})
    BY <1>5, <1>6 DEF Known
  <1>8. \A g \in Goals : Work(g)' = Work(g) \cup (IF g = pump.goal THEN made ELSE {})
    BY <1>7 DEF Work
  <1>9. \A g \in Goals : g # pump.goal \/ pump.pc = "synthPush" => (AllDone(g) => AllDone(g)')
    BY <1>2, <1>8 DEF AllDone, Is
  <1> HIDE DEF made
  <1>10. TasksTyped' /\ Verdicts'
    BY TasksUnchanged DEF GoalsInv, GoalsTypeOK
  <1>11. GoalsTypeOK'
    BY <1>6, <1>10 DEF GoalsInv, GoalsTypeOK
  <1>12. pump'.pc # "idle" => Work(pump.goal)' = Work(pump.goal) \cup made
    <2>1. PICK g \in Goals : g = pump.goal
      BY <1>1
    <2>2. QED
      BY <1>8, <2>1 DEF Work, Known
  <1>13. PumpKnows'
    <2>1. \A g \in Goals : Known(g)' \subseteq DOMAIN task'
      BY <1>2, <1>7 DEF GoalsInv, PumpKnows
    <2>2. pump'.pc # "idle" => PumpFacts(pump, Work(pump.goal))'
      BY <1>12 DEF PumpFacts, made
    <2>3. QED
      BY <1>1, <1>6, <2>1, <2>2 DEF PumpKnows
  <1>14. OutcomeStands'
    <2>1. \A g \in Goals : goal'[g].status = "completed" => AllDone(g)'
      BY <1>1, <1>6, <1>9 DEF GoalsInv, OutcomeStands
    <2>2. pump'.pc \in SynthesisPhases /\ pump'.ok => AllDone(pump.goal)'
      <3>1. PICK g \in Goals : g = pump.goal
        BY <1>1
      <3>2. pump'.goal = pump.goal => (AllDone(pump.goal)' <=> AllDone(g)')
        BY <3>1 DEF AllDone, Work, Known
      <3>3. pump'.pc \in SynthesisPhases /\ pump'.ok => AllDone(g) /\ pump.pc = "synthPush" /\ pump'.goal = pump.goal
        BY <3>1 DEF GoalsInv, OutcomeStands, SynthesisPhases
      <3>4. QED
        BY <1>9, <3>1, <3>2, <3>3
    <2>3. QED
      BY <2>1, <2>2 DEF OutcomeStands
  <1>15. QED
    BY <1>10, <1>11, <1>13, <1>14 DEF GoalsInv

-----------------------------------------------------------------------------
(* The steps of the others *)

LEMMA TaskStarts ==
  ASSUME TasksTyped, Verdicts, NEW i \in Runnable, task' = Started(i)
  PROVE  /\ TasksTyped' /\ Verdicts' /\ TasksStay /\ DOMAIN task' = DOMAIN task
         /\ \A j \in DOMAIN task : task'[j].attempt = task[j].attempt
  <1>1. i \in DOMAIN task /\ ~Is(i, {"completed"})
    BY DEF Runnable, Is
  <1>2. PICK s \in {"failed", "running"} : task' = [task EXCEPT ![i].status = s]
    BY DEF Started
  <1>3. s \in TaskOfGoalStatus /\ s \notin {"completed", "awaiting_review", "changes_requested"}
    BY DEF TaskOfGoalStatus, EndedTask, ActiveTask
  <1>4. QED
    BY <1>1, <1>2, <1>3, StatusChanged

LEMMA AttemptsUnchanged ==
  ASSUME task' = task
  PROVE  \A j \in DOMAIN task : task'[j].attempt = task[j].attempt
  OBVIOUS

LEMMA TaskRuns ==
  ASSUME TasksTyped, Verdicts, NEW i, task' \in Outcomes(i)
  PROVE  /\ TasksTyped' /\ Verdicts' /\ TasksStay /\ DOMAIN task' = DOMAIN task
         /\ \A j \in DOMAIN task : task'[j].attempt = task[j].attempt
  <1>1. CASE task' = task
    BY <1>1, TasksUnchanged, AttemptsUnchanged
  <1>2. CASE task' # task
    <2>1. Is(i, {"running"})
      BY <1>2 DEF Outcomes
    <2>2. PICK s \in {"failed", IF task[i].gate THEN "awaiting_review" ELSE "completed"} :
            task' = [task EXCEPT ![i].status = s]
      BY <2>1 DEF Outcomes
    <2>3. s \in TaskOfGoalStatus
      BY DEF TaskOfGoalStatus, EndedTask, ActiveTask
    <2>4. /\ ~Is(i, {"completed"}) /\ (s = "completed" => task[i].gate = FALSE \/ i \notin DOMAIN task)
          /\ s \in {"awaiting_review", "changes_requested"} => task[i].gate
      BY <2>1 DEF Is, TasksTyped, IsTask
    <2>5. QED
      BY <2>2, <2>3, <2>4, StatusChanged
  <1>3. QED
    BY <1>1, <1>2

LEMMA OthersKeepTheGoals ==
  ASSUME GoalsInv, OtherStarts \/ OtherEnds
  PROVE  GoalsInv'
  <1>1. /\ pump' = pump /\ goal' = goal /\ chain' = chain /\ cancel' = cancel
        /\ (\E i \in Runnable : task' = Started(i)) \/ task' \in Outcomes(other)
    BY DEF OtherStarts, OtherEnds
  <1>2. TasksTyped /\ Verdicts
    BY DEF GoalsInv, GoalsTypeOK
  <1>3. /\ TasksTyped' /\ Verdicts' /\ TasksStay /\ DOMAIN task' = DOMAIN task
        /\ \A j \in DOMAIN task : task'[j].attempt = task[j].attempt
    BY <1>1, <1>2, TaskStarts, TaskRuns
  <1>4. /\ goal' \in [Goals -> GoalRecord] /\ chain' \in Seq(Goals)
        /\ cancel' \in [goal : Goals \cup {NoGoal}, next : Nat] /\ IsPump(pump')
    BY <1>1 DEF GoalsInv, GoalsTypeOK
  <1>5. QED
    BY <1>1, <1>3, <1>4, OthersMove

LEMMA RunsKeepTheGoals ==
  ASSUME GoalsInv, RunStarts \/ RunEnds
  PROVE  GoalsInv'
  <1>1. TasksTyped /\ Verdicts
    BY DEF GoalsInv, GoalsTypeOK
  <1>2. /\ goal' = goal /\ chain' = chain /\ cancel' = cancel
        /\ \E r \in Nat : pump' = [pump EXCEPT !.running = r]
        /\ (\E i \in Runnable : task' = Started(i)) \/ task' \in Outcomes(pump.running)
    BY <1>1, TaskDomain DEF RunStarts, RunEnds, Runnable
  <1>3. /\ TasksTyped' /\ Verdicts' /\ TasksStay /\ DOMAIN task' = DOMAIN task
        /\ \A j \in DOMAIN task : task'[j].attempt = task[j].attempt
    BY <1>1, <1>2, TaskStarts, TaskRuns
  <1>4. /\ IsPump(pump') /\ pump'.pc = pump.pc /\ pump'.goal = pump.goal /\ pump'.plan = pump.plan
        /\ pump'.placed = pump.placed /\ pump'.wave = pump.wave /\ pump'.made = pump.made
        /\ pump'.awaiting = pump.awaiting /\ pump'.ok = pump.ok
    BY <1>2 DEF GoalsInv, GoalsTypeOK, IsPump
  <1>5. /\ goal' \in [Goals -> GoalRecord] /\ chain' \in Seq(Goals)
        /\ cancel' \in [goal : Goals \cup {NoGoal}, next : Nat]
    BY <1>2 DEF GoalsInv, GoalsTypeOK
  <1>6. QED
    BY <1>2, <1>3, <1>4, <1>5, OthersMove

\* Cancellation stops what has not ended, and may fail to stop a completed task.
LEMMA CancelTaskOfKeepsTheGoals ==
  ASSUME GoalsInv, CancelTaskOf
  PROVE  GoalsInv'
  <1>1. TasksTyped /\ Verdicts /\ cancel \in [goal : Goals \cup {NoGoal}, next : Nat]
    BY DEF GoalsInv, GoalsTypeOK
  <1>2. PICK i : task' = AsCancelled(i)
    BY DEF CancelTaskOf
  <1>3. /\ TasksTyped' /\ Verdicts' /\ TasksStay /\ DOMAIN task' = DOMAIN task
        /\ \A j \in DOMAIN task : task'[j].attempt = task[j].attempt
    <2>1. CASE task' = task
      BY <1>1, <2>1, TasksUnchanged, AttemptsUnchanged
    <2>2. CASE task' # task
      <3>1. ~Is(i, {"completed"}) /\ task' = [task EXCEPT ![i].status = "cancelled"]
        BY <1>2, <2>2 DEF AsCancelled, Is
      <3>2. "cancelled" \in TaskOfGoalStatus
        BY DEF TaskOfGoalStatus, EndedTask
      <3>3. QED
        BY <1>1, <3>1, <3>2, StatusChanged
    <2>3. QED
      BY <2>1, <2>2
  <1>4. /\ pump' = pump /\ goal' = goal /\ chain' = chain /\ cancel' = [cancel EXCEPT !.next = @ + 1]
    BY DEF CancelTaskOf
  <1>5. /\ goal' \in [Goals -> GoalRecord] /\ chain' \in Seq(Goals)
        /\ cancel' \in [goal : Goals \cup {NoGoal}, next : Nat] /\ IsPump(pump')
    BY <1>1, <1>4 DEF GoalsInv, GoalsTypeOK
  <1>6. QED
    BY <1>3, <1>4, <1>5, OthersMove

LEMMA OperatorKeepsTheGoals ==
  ASSUME GoalsInv, CancelEnds \/ \E g \in Goals : SubmitGoal(g) \/ CancelBegins(g)
  PROVE  GoalsInv'
  <1>1. /\ TasksTyped' /\ Verdicts' /\ TasksStay /\ DOMAIN task' = DOMAIN task /\ task' = task
        /\ pump' = pump /\ IsPump(pump')
    <2>1. task' = task /\ pump' = pump
      BY DEF CancelEnds, SubmitGoal, CancelBegins
    <2>2. QED
      BY <2>1, TasksUnchanged DEF GoalsInv, GoalsTypeOK
  <1>2. /\ goal' \in [Goals -> GoalRecord] /\ \A g \in Goals : goal'[g].tasks = goal[g].tasks
        /\ \A g \in Goals : goal'[g].status = "completed" => goal[g].status = "completed"
    <2>1. GoalsTypeOK
      BY DEF GoalsInv
    <2>2. CASE goal' = goal
      BY <2>1, <2>2 DEF GoalsTypeOK
    <2>3. ASSUME NEW g \in Goals, NEW s \in {"planning", "cancelled"}, goal' = WithStatus(g, s)
          PROVE  /\ goal' \in [Goals -> GoalRecord] /\ \A h \in Goals : goal'[h].tasks = goal[h].tasks
                 /\ \A h \in Goals : goal'[h].status = "completed" => goal[h].status = "completed"
      <3>1. s \in GoalStatus /\ s # "completed"
        BY DEF GoalStatus, TerminalGoal
      <3>2. QED
        BY <2>1, <2>3, <3>1, StatusSet
    <2>4. goal' = goal \/ \E g \in Goals, s \in {"planning", "cancelled"} : goal' = WithStatus(g, s)
      BY <2>1 DEF GoalsTypeOK, CancelEnds, SubmitGoal, CancelBegins
    <2>5. QED
      BY <2>2, <2>3, <2>4
  <1>3. chain' \in Seq(Goals) /\ cancel' \in [goal : Goals \cup {NoGoal}, next : Nat]
    <2>1. chain \in Seq(Goals) /\ cancel \in [goal : Goals \cup {NoGoal}, next : Nat]
      BY DEF GoalsInv, GoalsTypeOK
    <2>2. CASE \E g \in Goals : SubmitGoal(g)
      BY <2>1, <2>2 DEF SubmitGoal
    <2>3. CASE \E g \in Goals : CancelBegins(g)
      BY <2>1, <2>3 DEF CancelBegins
    <2>4. CASE CancelEnds
      BY <2>1, <2>4 DEF CancelEnds, Uncancelled
    <2>5. QED
      BY <2>2, <2>3, <2>4
  <1>4. QED
    BY <1>1, <1>2, <1>3, AttemptsUnchanged, OthersMove

LEMMA RestartKeepsTheGoals ==
  ASSUME GoalsInv, Restart
  PROVE  GoalsInv'
  <1>1. /\ task' = task /\ chain' = <<>> /\ pump' = NoPump /\ cancel' = Uncancelled
        /\ goal' = [g \in Goals |-> IF goal[g].status \in TerminalGoal \cup {"none"} THEN goal[g]
                                    ELSE [goal[g] EXCEPT !.status = "failed"]]
    BY DEF Restart
  <1>2. /\ goal' \in [Goals -> GoalRecord] /\ \A g \in Goals : goal'[g].tasks = goal[g].tasks
        /\ \A g \in Goals : goal'[g].status = "completed" => goal[g].status = "completed"
    BY <1>1 DEF GoalsInv, GoalsTypeOK, GoalRecord, GoalStatus, TerminalGoal
  <1>3. \A g \in Goals : goal'[g].status = "completed" => AllDone(g)
    BY <1>2 DEF GoalsInv, OutcomeStands
  <1>4. chain' \in Seq(Goals) /\ cancel' \in [goal : Goals \cup {NoGoal}, next : Nat]
    BY <1>1 DEF Uncancelled
  <1>5. QED
    BY <1>1, <1>2, <1>3, <1>4, NoPumpIsOne, PumpStops

-----------------------------------------------------------------------------
(* The steps of the pump *)

\* Only the program counter moves: the facts of the new phase are those of the old one.
LEMMA PumpGoesTo ==
  ASSUME GoalsInv, pump.pc # "idle", NEW x \in PumpPhases, pump' = [pump EXCEPT !.pc = x],
         goal' = goal, task' = task, chain' = chain, cancel' = cancel,
         PumpFacts([pump EXCEPT !.pc = x], Work(pump.goal)),
         x # "again" /\ (x \in {"reviewPush", "reviewRun", "decide"} => pump.pc \in {"reviewPush", "reviewRun", "decide"}),
         x \in SynthesisPhases => pump.pc \in SynthesisPhases
  PROVE  GoalsInv'
  <1>1. /\ IsPump(pump') /\ pump'.pc = x /\ pump'.goal = pump.goal /\ pump'.made = pump.made
        /\ pump'.awaiting = pump.awaiting /\ pump'.ok = pump.ok
    BY PumpGoes DEF GoalsInv, GoalsTypeOK
  <1>2. ReviewUnderWay'
    <2>1. Subject' = Subject
      BY <1>1 DEF Subject
    <2>2. QED
      BY <1>1, <2>1 DEF GoalsInv, ReviewUnderWay
  <1>3. goal' \in [Goals -> GoalRecord]
    BY DEF GoalsInv, GoalsTypeOK
  <1>4. pump'.pc \in SynthesisPhases /\ pump'.ok => AllDone(pump.goal)
    BY <1>1 DEF GoalsInv, OutcomeStands
  <1>5. PumpFacts(pump', Work(pump.goal))
    OBVIOUS
  <1>6. QED
    BY <1>1, <1>2, <1>3, <1>4, <1>5, PumpGoesOn

LEMMA RunReturnsKeepsTheGoals ==
  ASSUME GoalsInv, RunReturns
  PROVE  GoalsInv'
  <1> DEFINE x == AfterRun[pump.pc]
             q == [pump EXCEPT !.pc = x]
  <1>1. /\ pump.pc \in RunPhases /\ pump' = To(x)
        /\ goal' = goal /\ task' = task /\ chain' = chain /\ cancel' = cancel
    BY DEF RunReturns
  <1>2. /\ x \in PumpPhases /\ pump.pc # "idle" /\ x # "again"
        /\ x \in {"reviewPush", "reviewRun", "decide"} => pump.pc \in {"reviewPush", "reviewRun", "decide"}
        /\ x \in SynthesisPhases => pump.pc \in SynthesisPhases
        /\ x \in PlanPhases => pump.pc \in PlanPhases
        /\ x \in WavePhases => pump.pc \in WavePhases
        /\ x \in ReviewPhases => pump.pc \in ReviewPhases
        /\ x \notin PushPhases /\ (x = "decide" => pump.pc = "reviewRun") /\ x # "reviewRun"
    BY <1>1 DEF RunPhases, AfterRun, PumpPhases, PlanPhases, WavePhases, ReviewPhases, SynthesisPhases, PushPhases
  <1> HIDE DEF x
  <1>3. CASE pump' = NoPump
    BY <1>1, <1>3, PumpGivesUp
  <1>4. CASE pump' # NoPump
    <2>1. pump' = q
      BY <1>1, <1>4 DEF To
    <2>2. /\ q.pc = x /\ q.plan = pump.plan /\ q.placed = pump.placed /\ q.wave = pump.wave /\ q.made = pump.made
      BY <1>2, PumpGoes DEF GoalsInv, GoalsTypeOK
    <2> HIDE DEF q
    <2>3. PumpFacts(pump, Work(pump.goal))
      BY <1>2 DEF GoalsInv, PumpKnows
    <2>4. PumpFacts(q, Work(pump.goal))
      BY <1>2, <2>2, <2>3 DEF PumpFacts, PushPhases
    <2>5. QED
      BY <1>1, <1>2, <2>1, <2>4, PumpGoesTo DEF q
  <1>5. QED
    BY <1>3, <1>4

LEMMA PumpBeginsKeepsTheGoals ==
  ASSUME GoalsInv, PumpBegins
  PROVE  GoalsInv'
  <1> DEFINE g == Head(chain)
  <1>1. /\ pump.pc = "idle" /\ chain # <<>> /\ chain' = Tail(chain) /\ task' = task /\ cancel' = cancel
        /\ chain \in Seq(Goals) /\ GoalsTypeOK
    BY DEF PumpBegins, GoalsInv, GoalsTypeOK
  <1>2. g \in Goals /\ chain' \in Seq(Goals) /\ cancel' \in [goal : Goals \cup {NoGoal}, next : Nat]
    BY <1>1 DEF GoalsTypeOK
  <1>3. \A h \in Goals : goal[h].status = "completed" => AllDone(h)
    BY DEF GoalsInv, OutcomeStands
  <1>4. CASE goal[g].status \in TerminalGoal
    <2>1. pump' = pump /\ goal' = goal
      BY <1>4 DEF PumpBegins
    <2>2. goal' \in [Goals -> GoalRecord] /\ IsPump(pump') /\ pump'.pc = "idle"
      BY <1>1, <2>1 DEF GoalsTypeOK
    <2>3. QED
      BY <1>1, <1>2, <1>3, <2>1, <2>2, PumpStops
  <1>5. CASE goal[g].status \notin TerminalGoal
    <2>1. pump' = [NoPump EXCEPT !.pc = "plan", !.goal = g] /\ goal' = WithStatus(g, "planning")
      BY <1>5 DEF PumpBegins
    <2> HIDE DEF g
    <2>2. /\ goal' \in [Goals -> GoalRecord] /\ \A h \in Goals : goal'[h].tasks = goal[h].tasks
          /\ \A h \in Goals : goal'[h].status = IF h = g THEN "planning" ELSE goal[h].status
      BY <1>1, <1>2, <2>1, StatusSet DEF GoalStatus
    <2>3. /\ IsPump(pump') /\ pump'.pc = "plan" /\ pump'.goal = g /\ pump'.wave = {}
          /\ \A s \in StepIds : pump'.placed[s] = 0
      BY <1>2, <2>1, GoalsAssumption DEF IsPump, NoPump, PlanPhases
    <2>4. PumpFacts(pump', Work(pump'.goal))
      BY <2>3 DEF PumpFacts, PushPhases, PlanPhases, WavePhases, ReviewPhases, SynthesisPhases
    <2>5. ReviewUnderWay' /\ pump'.pc \notin SynthesisPhases
      BY <2>3 DEF ReviewUnderWay, SynthesisPhases
    <2>6. TasksTyped' /\ Verdicts' /\ TasksStay
      BY <1>1, TasksUnchanged DEF GoalsInv, GoalsTypeOK
    <2>7. \A h \in Goals : goal'[h].status = "completed" => AllDone(h)
      BY <1>3, <2>2
    <2>8. pump'.goal \in Goals /\ goal'[pump'.goal].status # "completed"
      BY <1>2, <2>2, <2>3
    <2>9. QED
      BY <1>2, <2>2, <2>3, <2>4, <2>5, <2>6, <2>7, <2>8, PumpMoves
  <1>6. QED
    BY <1>4, <1>5

LEMMA ThrowKeepsTheGoals ==
  ASSUME GoalsInv, PumpThrows
  PROVE  GoalsInv'
  BY PumpFails DEF PumpThrows

\* The tasks the pump creates have the fields of one.
LEMMA NewTaskIsOne ==
  ASSUME NEW kind \in {"planning", "work", "review", "synthesis"}, NEW about, NEW deps, NEW gate \in BOOLEAN,
         NEW inputs, gate => kind = "work", NEW t, t = NewTask(kind, about, deps, gate, inputs)
  PROVE  /\ IsTask(t) /\ t.kind = kind /\ t.about = about /\ (t.gate => t.kind = "work") /\ t.status = "queued"
         /\ kind = "review" => t.attempt = task[about].attempt
  BY DEF NewTask, IsTask, TaskOfGoalStatus, ActiveTask

LEMMA CreationKeepsTheGoals ==
  ASSUME GoalsInv, DelegatePlanning \/ DelegateSynthesis \/ DelegateReview
  PROVE  GoalsInv'
  <1>1. CASE DelegatePlanning
    <2>1. PICK t : t = NewTask("planning", 0, {}, FALSE, {})
      OBVIOUS
    <2>2. IsTask(t) /\ t.kind = "planning" /\ (t.gate => t.kind = "work") /\ t.status = "queued"
      BY <2>1 DEF NewTask, IsTask, TaskOfGoalStatus, ActiveTask
    <2>3. pump.pc = "plan" /\ Create(t, "planPush")
      BY <1>1, <2>1 DEF DelegatePlanning
    <2>4. QED
      BY <2>2, <2>3, PumpCreates DEF PlanPhases, PushPhases
  <1>2. CASE DelegateSynthesis
    <2>1. PICK t : t = NewTask("synthesis", 0, {}, FALSE, {})
      OBVIOUS
    <2>2. IsTask(t) /\ t.kind = "synthesis" /\ (t.gate => t.kind = "work") /\ t.status = "queued"
      BY <2>1 DEF NewTask, IsTask, TaskOfGoalStatus, ActiveTask
    <2>3. pump.pc = "synth" /\ Create(t, "synthPush")
      BY <1>2, <2>1 DEF DelegateSynthesis
    <2>4. QED
      BY <2>2, <2>3, PumpCreates DEF SynthesisPhases, PushPhases
  <1>3. CASE DelegateReview
    <2>1. PICK t : t = NewTask("review", Subject, {}, FALSE, {})
      OBVIOUS
    <2>2. /\ IsTask(t) /\ t.kind = "review" /\ t.about = Subject /\ (t.gate => t.kind = "work") /\ t.status = "queued"
          /\ t.attempt = task[Subject].attempt
      BY <2>1 DEF NewTask, IsTask, TaskOfGoalStatus, ActiveTask
    <2>3. pump.pc = "review" /\ Create(t, "reviewPush")
      BY <1>3, <2>1 DEF DelegateReview
    <2>4. QED
      BY <2>2, <2>3, PumpCreates DEF ReviewPhases, PushPhases
  <1>4. QED
    BY <1>1, <1>2, <1>3

LEMMA DelegateStepKeepsTheGoals ==
  ASSUME GoalsInv, DelegateStep
  PROVE  GoalsInv'
  <1>1. pump.pc = "step" /\ IsPump(pump) /\ PumpFacts(pump, Work(pump.goal))
    BY DEF DelegateStep, GoalsInv, GoalsTypeOK, PumpKnows
  <1>2. pump.wave \subseteq StepIds /\ pump.wave \subseteq DOMAIN pump.plan /\ pump.plan # <<>>
    BY <1>1 DEF PumpFacts, IsPump, WavePhases
  <1>3. PICK s \in pump.wave \ Placed :
            Create(NewTask("work", s, {pump.placed[d] : d \in pump.plan[s].deps}, pump.plan[s].gate,
                           {pump.placed[d] : d \in pump.plan[s].deps \cap pump.public}), "stepPush")
    BY DEF DelegateStep
  <1>4. pump.plan[s].gate \in BOOLEAN
    <2>1. pump.plan \in Proposals
      BY <1>1, <1>2 DEF IsPump
    <2>2. PICK n \in StepIds : pump.plan \in [1..n -> [deps : SUBSET StepIds, gate : BOOLEAN]]
      BY <2>1 DEF Proposals
    <2>3. s \in 1..n
      BY <1>2, <2>2
    <2>4. QED
      BY <2>2, <2>3
  <1>5. PICK t : t = NewTask("work", s, {pump.placed[d] : d \in pump.plan[s].deps}, pump.plan[s].gate,
                             {pump.placed[d] : d \in pump.plan[s].deps \cap pump.public})
    OBVIOUS
  <1>6. IsTask(t) /\ t.kind = "work" /\ t.about = s /\ t.status = "queued"
    BY <1>4, <1>5, NewTaskIsOne
  <1>7. Create(t, "stepPush") /\ s \in StepIds
    BY <1>2, <1>3, <1>5
  <1>8. QED
    BY <1>1, <1>6, <1>7, PumpCreates DEF WavePhases, PushPhases

\* A task of planning, review or synthesis is noted: the goal's work is what it was.
LEMMA PushPlanningKeepsTheGoals ==
  ASSUME GoalsInv, PushPlanning \/ PushSynthesis
  PROVE  GoalsInv'
  <1>1. IsPump(pump) /\ (pump.pc # "idle" => PumpFacts(pump, Work(pump.goal)))
    BY DEF GoalsInv, GoalsTypeOK, PumpKnows
  <1> DEFINE made == {i \in {pump.made} : task[i].kind = "work"}
  <1>2. /\ pump.pc \in PushPhases /\ Push /\ task' = task /\ chain' = chain /\ cancel' = cancel
        /\ \E x \in {"planRun", "synthRun"} : pump' = [pump EXCEPT !.pc = x] /\ (x = "synthRun" <=> pump.pc = "synthPush")
        /\ pump.pc \in {"planPush", "synthPush"}
    BY DEF PushPlanning, PushSynthesis, PumpOnly, Goto, PushPhases
  <1>3. PICK x \in {"planRun", "synthRun"} :
            pump' = [pump EXCEPT !.pc = x] /\ (x = "synthRun" <=> pump.pc = "synthPush")
    BY <1>2
  <1>4. /\ IsPump(pump') /\ pump'.pc = x /\ pump'.goal = pump.goal /\ pump'.wave = pump.wave
        /\ pump'.placed = pump.placed /\ pump'.ok = pump.ok
    <2>1. x \in PumpPhases
      BY DEF PumpPhases, PlanPhases, SynthesisPhases
    <2>2. QED
      BY <1>1, <1>3, <2>1, PumpGoes
  <1>5. ReviewUnderWay'
    BY <1>4 DEF ReviewUnderWay
  <1>6. PumpFacts(pump', Work(pump.goal) \cup made)
    BY <1>1, <1>2, <1>3, <1>4 DEF PumpFacts, PushPhases, PlanPhases, WavePhases, ReviewPhases, SynthesisPhases
  <1>7. pump'.pc \in SynthesisPhases => pump.pc = "synthPush"
    BY <1>3, <1>4 DEF SynthesisPhases
  <1>8. QED
    BY <1>2, <1>4, <1>5, <1>6, <1>7, PumpPushes

LEMMA PushStepKeepsTheGoals ==
  ASSUME GoalsInv, PushStep
  PROVE  GoalsInv'
  <1> DEFINE s == task[pump.made].about
             made == {i \in {pump.made} : task[i].kind = "work"}
  <1>1. pump.pc = "stepPush" /\ IsPump(pump) /\ PumpFacts(pump, Work(pump.goal))
    BY DEF GoalsInv, GoalsTypeOK, PumpKnows, PushStep
  <1>2. /\ pump.pc \in PushPhases /\ Push /\ task' = task /\ chain' = chain /\ cancel' = cancel
        /\ \E x \in {"waveRun", "step"} :
            \/ pump' = [[pump EXCEPT !.pc = x] EXCEPT !.placed[s] = pump.made]
            \/ pump' = [NoPump EXCEPT !.placed[s] = pump.made]
    BY <1>1 DEF PushStep, PumpOnly, Goto, To, PushPhases
  <1>3. s \in StepIds /\ pump.made \in Nat /\ pump.made \in made
    BY <1>1 DEF PumpFacts, IsPump
  <1> HIDE DEF s, made
  <1>4. PICK x \in {"waveRun", "step"} :
            \/ pump' = [[pump EXCEPT !.pc = x] EXCEPT !.placed[s] = pump.made]
            \/ pump' = [NoPump EXCEPT !.placed[s] = pump.made]
    BY <1>2
  <1>5. CASE pump' = [NoPump EXCEPT !.placed[s] = pump.made]
    <2>1. IsPump(pump') /\ pump'.pc = "idle"
      BY <1>3, <1>5, NoPumpIsOne DEF IsPump, NoPump
    <2>2. ReviewUnderWay' /\ pump'.pc \notin SynthesisPhases
      BY <2>1 DEF ReviewUnderWay, SynthesisPhases
    <2>3. QED
      BY <1>2, <2>1, <2>2, PumpPushes
  <1>6. CASE pump' = [[pump EXCEPT !.pc = x] EXCEPT !.placed[s] = pump.made]
    <2>1. /\ IsPump(pump') /\ pump'.pc = x /\ pump'.goal = pump.goal /\ pump'.wave = pump.wave
          /\ pump'.plan = pump.plan /\ \A r \in StepIds : pump'.placed[r] \in {pump.placed[r], pump.made}
      BY <1>1, <1>3, <1>6 DEF IsPump, WavePhases
    <2>2. ReviewUnderWay' /\ pump'.pc \notin SynthesisPhases
      BY <2>1 DEF ReviewUnderWay, SynthesisPhases
    <2>3. PumpFacts(pump', Work(pump.goal) \cup made)
      BY <1>1, <1>3, <2>1 DEF PumpFacts, PushPhases, PlanPhases, WavePhases, ReviewPhases, SynthesisPhases
    <2>4. QED
      BY <1>2, <2>1, <2>2, <2>3, PumpPushes DEF made
  <1>7. QED
    BY <1>4, <1>5, <1>6

LEMMA PushReviewKeepsTheGoals ==
  ASSUME GoalsInv, PushReview
  PROVE  GoalsInv'
  <1> DEFINE made == {i \in {pump.made} : task[i].kind = "work"}
  <1>1. pump.pc = "reviewPush" /\ IsPump(pump) /\ PumpFacts(pump, Work(pump.goal))
    BY DEF GoalsInv, GoalsTypeOK, PumpKnows, PushReview
  <1>2. /\ pump.pc \in PushPhases /\ Push /\ task' = task /\ chain' = chain /\ cancel' = cancel
        /\ \/ \E c : pump' = [[pump EXCEPT !.pc = "reviewRun"] EXCEPT !.cycles = c]
           \/ \E c : pump' = [NoPump EXCEPT !.cycles = c]
    BY <1>1 DEF PushReview, PumpOnly, To, PushPhases
  <1>3. CASE \E c : pump' = [NoPump EXCEPT !.cycles = c]
    <2>1. IsPump(pump') /\ pump'.pc = "idle"
      BY <1>3, NoPumpIsOne DEF IsPump, NoPump
    <2>2. ReviewUnderWay' /\ pump'.pc \notin SynthesisPhases
      BY <2>1 DEF ReviewUnderWay, SynthesisPhases
    <2>3. QED
      BY <1>2, <2>1, <2>2, PumpPushes
  <1>4. CASE \E c : pump' = [[pump EXCEPT !.pc = "reviewRun"] EXCEPT !.cycles = c]
    <2>1. /\ IsPump(pump') /\ pump'.pc = "reviewRun" /\ pump'.goal = pump.goal /\ pump'.awaiting = pump.awaiting
          /\ pump'.made = pump.made
      BY <1>1, <1>4, ZenonT(40) DEF IsPump, ReviewPhases
    <2>2. ReviewUnderWay' /\ pump'.pc \notin SynthesisPhases
      <3>1. Subject' = Subject
        BY <2>1 DEF Subject
      <3>2. QED
        BY <1>1, <1>2, <2>1, <3>1 DEF GoalsInv, ReviewUnderWay, SynthesisPhases
    <2>3. PumpFacts(pump', Work(pump.goal) \cup made)
      BY <1>1, <2>1 DEF PumpFacts, PushPhases, PlanPhases, WavePhases, ReviewPhases, SynthesisPhases
    <2>4. QED
      BY <1>2, <2>1, <2>2, <2>3, PumpPushes
  <1>5. QED
    BY <1>2, <1>3, <1>4

LEMMA ReadProposalKeepsTheGoals ==
  ASSUME GoalsInv, ReadProposal
  PROVE  GoalsInv'
  <1>1. /\ pump.pc = "planRead" /\ pump.pc # "idle" /\ task' = task /\ chain' = chain /\ cancel' = cancel
        /\ IsPump(pump) /\ PumpFacts(pump, Work(pump.goal)) /\ pump.goal \in Goals /\ GoalsTypeOK
    BY DEF ReadProposal, PumpOnly, GoalsInv, GoalsTypeOK, PumpKnows
  <1>2. CASE Fail
    BY <1>1, <1>2, PumpFails
  <1>3. CASE pump' = NoPump /\ goal' = goal
    BY <1>1, <1>3, PumpGivesUp
  <1>4. ASSUME NEW p \in Proposals, pump' = [pump EXCEPT !.pc = "wave", !.plan = p],
               goal' = WithStatus(pump.goal, "executing")
        PROVE  GoalsInv'
    <2>1. /\ goal' \in [Goals -> GoalRecord] /\ \A h \in Goals : goal'[h].tasks = goal[h].tasks
          /\ \A h \in Goals : goal'[h].status = IF h = pump.goal THEN "executing" ELSE goal[h].status
      BY <1>1, <1>4, StatusSet DEF GoalStatus
    <2>2. /\ IsPump(pump') /\ pump'.pc = "wave" /\ pump'.goal = pump.goal /\ pump'.plan = p
          /\ pump'.wave = pump.wave /\ pump'.placed = pump.placed
      BY <1>1, <1>4 DEF IsPump, WavePhases
    <2>3. p # <<>>
      <3>1. PICK n \in StepIds : p \in [1..n -> [deps : SUBSET StepIds, gate : BOOLEAN]]
        BY DEF Proposals
      <3>2. 1 \in DOMAIN p
        BY <3>1, GoalsAssumption DEF StepIds
      <3>3. QED
        BY <3>2
    <2>4. PumpFacts(pump', Work(pump.goal))
      BY <1>1, <2>2, <2>3 DEF PumpFacts, PushPhases, PlanPhases, WavePhases, ReviewPhases, SynthesisPhases
    <2>5. ReviewUnderWay' /\ pump'.pc \notin SynthesisPhases
      BY <2>2 DEF ReviewUnderWay, SynthesisPhases
    <2>6. \A h \in Goals : goal'[h].status = "completed" => goal[h].status = "completed"
      BY <2>1
    <2>7. QED
      BY <1>1, <2>1, <2>2, <2>4, <2>5, <2>6, PumpGoesOn
  <1>5. CASE pump' = [pump EXCEPT !.pc = "plan", !.attempt = @ + 1] /\ goal' = goal
    <2>1. /\ IsPump(pump') /\ pump'.pc = "plan" /\ pump'.goal = pump.goal
          /\ pump'.wave = pump.wave /\ pump'.placed = pump.placed
      <3>1. pump.attempt \in Nat
        BY <1>1 DEF IsPump
      <3>2. PICK n \in Nat : n = pump.attempt + 1
        BY <3>1
      <3>3. pump' = [pump EXCEPT !.pc = "plan", !.attempt = n]
        BY <1>5, <3>2
      <3>4. QED
        BY <1>1, <3>3 DEF IsPump, PlanPhases
    <2>2. PumpFacts(pump', Work(pump.goal))
      BY <1>1, <2>1 DEF PumpFacts, PushPhases, PlanPhases, WavePhases, ReviewPhases, SynthesisPhases
    <2>3. ReviewUnderWay' /\ pump'.pc \notin SynthesisPhases
      BY <2>1 DEF ReviewUnderWay, SynthesisPhases
    <2>4. goal' \in [Goals -> GoalRecord]
      BY <1>1, <1>5 DEF GoalsTypeOK
    <2>5. QED
      BY <1>1, <1>5, <2>1, <2>2, <2>3, <2>4, PumpGoesOn
  <1>6. QED
    BY <1>2, <1>3, <1>4, <1>5 DEF ReadProposal, PlanAccepted

LEMMA FormWaveKeepsTheGoals ==
  ASSUME GoalsInv, FormWave
  PROVE  GoalsInv'
  <1>1. /\ pump.pc = "wave" /\ pump.pc # "idle" /\ task' = task /\ chain' = chain /\ cancel' = cancel
        /\ goal' = goal /\ IsPump(pump) /\ PumpFacts(pump, Work(pump.goal)) /\ GoalsTypeOK
    BY DEF FormWave, PumpOnly, GoalsInv, GoalsTypeOK, PumpKnows
  <1>2. CASE pump' = NoPump
    BY <1>1, <1>2, PumpGivesUp
  <1>3. /\ pump.plan \in Proposals
        /\ \E n \in StepIds : DOMAIN pump.plan = 1..n
    <2>1. pump.plan \in Proposals
      BY <1>1 DEF IsPump, PumpFacts, WavePhases
    <2>2. QED
      BY <2>1 DEF Proposals
  <1>4. DOMAIN pump.plan \subseteq StepIds /\ DOMAIN pump.plan # {}
    <2>1. PICK n \in StepIds : DOMAIN pump.plan = 1..n
      BY <1>3
    <2>2. 1..n \subseteq StepIds /\ 1 \in 1..n
      BY GoalsAssumption DEF StepIds
    <2>3. QED
      BY <2>1, <2>2
  <1>5. CASE pump' # NoPump /\ Placed = Steps
    <2> DEFINE q == [pump EXCEPT !.pc = "cycleRun"]
    <2>1. pump' = q
      BY <1>5 DEF FormWave, To
    <2>2. Work(pump.goal) # {}
      BY <1>1, <1>4, <1>5 DEF Placed, Steps, PumpFacts, WavePhases
    <2>3. q.pc = "cycleRun"
      BY <1>1 DEF IsPump
    <2> HIDE DEF q
    <2>4. PumpFacts(q, Work(pump.goal))
      BY <2>2, <2>3 DEF PumpFacts, PushPhases, PlanPhases, WavePhases
    <2>5. "cycleRun" \in PumpPhases /\ "cycleRun" \notin SynthesisPhases
      BY DEF PumpPhases, ReviewPhases, SynthesisPhases
    <2>6. QED
      BY <1>1, <2>1, <2>4, <2>5, PumpGoesTo DEF q
  <1>6. CASE pump' # NoPump /\ Placed # Steps
    <2>1. pump' = [pump EXCEPT !.pc = "step", !.wave = NextWave]
      BY <1>6 DEF FormWave
    <2>2. NextWave \subseteq DOMAIN pump.plan
      BY DEF NextWave, Steps
    <2>3. /\ IsPump(pump') /\ pump'.pc = "step" /\ pump'.goal = pump.goal /\ pump'.plan = pump.plan
          /\ pump'.wave = NextWave /\ pump'.placed = pump.placed
      BY <1>1, <1>4, <2>1, <2>2 DEF IsPump, WavePhases
    <2>4. PumpFacts(pump', Work(pump.goal))
      BY <1>1, <2>2, <2>3 DEF PumpFacts, PushPhases, PlanPhases, WavePhases, ReviewPhases, SynthesisPhases
    <2>5. ReviewUnderWay' /\ pump'.pc \notin SynthesisPhases
      BY <2>3 DEF ReviewUnderWay, SynthesisPhases
    <2>6. goal' \in [Goals -> GoalRecord]
      BY <1>1 DEF GoalsTypeOK
    <2>7. QED
      BY <1>1, <2>3, <2>4, <2>5, <2>6, PumpGoesOn
  <1>7. QED
    BY <1>2, <1>5, <1>6

LEMMA ReadWaveKeepsTheGoals ==
  ASSUME GoalsInv, ReadWave
  PROVE  GoalsInv'
  <1> DEFINE published == {s \in pump.wave : Is(pump.placed[s], {"completed"})}
  <1>1. /\ pump.pc = "waveRead" /\ pump.pc # "idle" /\ task' = task /\ chain' = chain /\ cancel' = cancel
        /\ goal' = goal /\ IsPump(pump) /\ PumpFacts(pump, Work(pump.goal)) /\ GoalsTypeOK
        /\ pump' = [pump EXCEPT !.pc = "wave", !.wave = {}, !.public = @ \cup published]
    BY DEF ReadWave, PumpOnly, GoalsInv, GoalsTypeOK, PumpKnows
  <1>2. published \subseteq StepIds
    BY <1>1 DEF IsPump
  <1> HIDE DEF published
  <1>3. /\ IsPump(pump') /\ pump'.pc = "wave" /\ pump'.goal = pump.goal /\ pump'.plan = pump.plan
        /\ pump'.wave = {} /\ pump'.placed = pump.placed
    BY <1>1, <1>2 DEF IsPump, WavePhases
  <1>4. PumpFacts(pump', Work(pump.goal))
    BY <1>1, <1>3 DEF PumpFacts, PushPhases, PlanPhases, WavePhases, ReviewPhases, SynthesisPhases
  <1>5. ReviewUnderWay' /\ pump'.pc \notin SynthesisPhases
    BY <1>3 DEF ReviewUnderWay, SynthesisPhases
  <1>6. goal' \in [Goals -> GoalRecord]
    BY <1>1 DEF GoalsTypeOK
  <1>7. QED
    BY <1>1, <1>3, <1>4, <1>5, <1>6, PumpGoesOn

\* The pump reviews what it lists, waits, or goes on to the tally: it still has its work.
LEMMA ReviewingKeepsTheGoals ==
  ASSUME GoalsInv, ListAwaiting \/ ReviewsDone
  PROVE  GoalsInv'
  <1>1. /\ pump.pc \in {"list", "review"} /\ pump.pc # "idle" /\ task' = task /\ chain' = chain /\ cancel' = cancel
        /\ goal' = goal /\ IsPump(pump) /\ PumpFacts(pump, Work(pump.goal)) /\ GoalsTypeOK
    BY DEF ListAwaiting, ReviewsDone, PumpOnly, GoalsInv, GoalsTypeOK, PumpKnows
  <1>2. Work(pump.goal) # {}
    BY <1>1 DEF PumpFacts, ReviewPhases
  <1>3. CASE pump' = NoPump
    BY <1>1, <1>3, PumpGivesUp
  <1>4. ASSUME NEW a, pump' = [pump EXCEPT !.pc = "review", !.awaiting = a]
        PROVE  GoalsInv'
    <2>1. IsPump(pump') /\ pump'.pc = "review" /\ pump'.goal = pump.goal
      BY <1>1, <1>4 DEF IsPump, ReviewPhases
    <2>2. PumpFacts(pump', Work(pump.goal))
      BY <1>2, <2>1 DEF PumpFacts, PushPhases, PlanPhases, WavePhases, ReviewPhases, SynthesisPhases
    <2>3. ReviewUnderWay' /\ pump'.pc \notin SynthesisPhases
      BY <2>1 DEF ReviewUnderWay, SynthesisPhases
    <2>4. goal' \in [Goals -> GoalRecord]
      BY <1>1 DEF GoalsTypeOK
    <2>5. QED
      BY <1>1, <2>1, <2>2, <2>3, <2>4, PumpGoesOn
  <1>5. ASSUME NEW x \in {"cycleRun", "tally"}, pump' = [pump EXCEPT !.pc = x]
        PROVE  GoalsInv'
    <2> DEFINE q == [pump EXCEPT !.pc = x]
    <2>1. q.pc = x
      BY <1>1 DEF IsPump
    <2> HIDE DEF q
    <2>2. PumpFacts(q, Work(pump.goal))
      BY <1>2, <2>1 DEF PumpFacts, PushPhases, PlanPhases, WavePhases
    <2>3. x \in PumpPhases /\ x \notin SynthesisPhases /\ x \notin {"again", "reviewPush", "reviewRun", "decide"}
      BY DEF PumpPhases, ReviewPhases, SynthesisPhases
    <2>4. QED
      BY <1>1, <1>5, <2>2, <2>3, PumpGoesTo DEF q
  <1>6. QED
    BY <1>3, <1>4, <1>5 DEF ListAwaiting, ReviewsDone, To

\* The verdict is applied to what the step has become, and binds the attempt that was shown.
LEMMA DecideKeepsTheGoals ==
  ASSUME GoalsInv, Decide
  PROVE  GoalsInv'
  <1>1. /\ pump.pc = "decide" /\ pump.pc # "idle" /\ chain' = chain /\ cancel' = cancel /\ IsPump(pump)
        /\ PumpFacts(pump, Work(pump.goal)) /\ GoalsTypeOK /\ TasksTyped /\ Verdicts /\ pump.goal \in Goals
        /\ goal[pump.goal].status # "completed"
    BY DEF Decide, GoalsInv, GoalsTypeOK, PumpKnows
  <1>2. CASE Fail /\ task' = task
    BY <1>1, <1>2, PumpFails
  <1>3. /\ pump.made \in DOMAIN task /\ Work(pump.goal) # {}
        /\ task[pump.made].kind = "review" /\ task[pump.made].about = Subject
        /\ Subject \in DOMAIN task => task[pump.made].attempt = task[Subject].attempt
    BY <1>1 DEF PumpFacts, ReviewPhases, GoalsInv, ReviewUnderWay
  <1>4. ASSUME goal' = goal, TasksTyped', Verdicts', TasksStay, ReviewUnderWay', IsPump(pump'),
               pump'.pc \in {"review", "again"}, pump'.goal = pump.goal
        PROVE  GoalsInv'
    <2>1. PumpFacts(pump', Work(pump'.goal)) /\ pump'.pc \notin SynthesisPhases
      BY <1>3, <1>4 DEF PumpFacts, PushPhases, PlanPhases, WavePhases, ReviewPhases, SynthesisPhases
    <2>2. /\ goal' \in [Goals -> GoalRecord] /\ chain' \in Seq(Goals)
          /\ cancel' \in [goal : Goals \cup {NoGoal}, next : Nat]
          /\ \A g \in Goals : goal'[g].tasks = goal[g].tasks
      BY <1>1, <1>4 DEF GoalsTypeOK
    <2>3. \A g \in Goals : goal'[g].status = "completed" => AllDone(g)
      BY <1>4 DEF GoalsInv, OutcomeStands
    <2>4. pump'.goal \in Goals /\ goal'[pump'.goal].status # "completed"
      BY <1>1, <1>4
    <2>5. QED
      BY <1>4, <2>1, <2>2, <2>3, <2>4, PumpMoves
  <1>5. CASE /\ Is(Subject, {"awaiting_review"}) /\ task' = Reviewed(Subject, TRUE) /\ goal' = goal
             /\ pump' = [pump EXCEPT !.pc = "review", !.awaiting = Tail(@)]
    <2>1. TasksTyped' /\ Verdicts' /\ TasksStay
      <3>1. task' = [task EXCEPT ![Subject].status = "completed", ![Subject].verdict = pump.made]
        BY <1>5 DEF Reviewed
      <3>2. QED
        BY <1>1, <1>3, <1>5, <3>1, VerdictGiven, ZenonT(40)
    <2>2. IsPump(pump') /\ pump'.pc = "review" /\ pump'.goal = pump.goal
      BY <1>1, <1>5 DEF IsPump, ReviewPhases
    <2>3. ReviewUnderWay'
      BY <2>2 DEF ReviewUnderWay
    <2>4. QED
      BY <1>4, <1>5, <2>1, <2>2, <2>3
  <1>6. CASE /\ Is(Subject, {"awaiting_review"}) /\ task' = Reviewed(Subject, FALSE) /\ goal' = goal
             /\ pump' = Goto("again")
    <2>1. Subject \in DOMAIN task => task[Subject].gate /\ task[Subject].kind = "work"
      BY <1>1, <1>6 DEF Verdicts, Is
    <2>2. TasksTyped' /\ Verdicts' /\ TasksStay /\ DOMAIN task' = DOMAIN task
      <3>1. task' = [task EXCEPT ![Subject].status = "changes_requested"]
        BY <1>6 DEF Reviewed
      <3>2. ~Is(Subject, {"completed"}) /\ "changes_requested" \in TaskOfGoalStatus
        BY <1>6 DEF Is, TaskOfGoalStatus
      <3>3. QED
        BY <1>1, <2>1, <3>1, <3>2, StatusChanged
    <2>3. IsPump(pump') /\ pump'.pc = "again" /\ pump'.goal = pump.goal /\ pump'.awaiting = pump.awaiting
      BY <1>1, <1>6 DEF IsPump, ReviewPhases, Goto
    <2>4. ReviewUnderWay'
      <3>1. Subject' = Subject
        BY <2>3 DEF Subject
      <3>2. QED
        BY <2>1, <2>2, <2>3, <3>1 DEF ReviewUnderWay, TasksStay
    <2>5. QED
      BY <1>4, <1>6, <2>2, <2>3, <2>4
  <1>7. QED
    BY <1>2, <1>5, <1>6 DEF Decide

LEMMA RetryKeepsTheGoals ==
  ASSUME GoalsInv, RetryCandidate
  PROVE  GoalsInv'
  <1>1. /\ pump.pc = "again" /\ pump.pc # "idle" /\ chain' = chain /\ cancel' = cancel /\ IsPump(pump)
        /\ PumpFacts(pump, Work(pump.goal)) /\ GoalsTypeOK /\ TasksTyped /\ Verdicts /\ pump.goal \in Goals
        /\ goal[pump.goal].status # "completed"
    BY DEF RetryCandidate, GoalsInv, GoalsTypeOK, PumpKnows
  <1>2. CASE Fail /\ task' = task
    BY <1>1, <1>2, PumpFails
  <1>3. CASE /\ ~Is(Subject, {"completed", "awaiting_review"})
             /\ task' = task \/ task' = Retried(Subject)
             /\ pump' = [pump EXCEPT !.pc = "review", !.awaiting = Tail(@)]
             /\ goal' = goal
    <2>1. TasksTyped' /\ Verdicts' /\ TasksStay
      <3>1. ~Is(Subject, {"completed"}) /\ (Subject \in DOMAIN task => task[Subject].kind = "work")
        BY <1>1, <1>3 DEF Is, GoalsInv, ReviewUnderWay
      <3>2. QED
        BY <1>1, <1>3, <3>1, TriedAgain, TasksUnchanged
    <2>2. IsPump(pump') /\ pump'.pc = "review" /\ pump'.goal = pump.goal
      BY <1>1, <1>3 DEF IsPump, ReviewPhases
    <2>3. ReviewUnderWay'
      BY <2>2 DEF ReviewUnderWay
    <2>4. PumpFacts(pump', Work(pump'.goal)) /\ pump'.pc \notin SynthesisPhases
      BY <1>1, <2>2 DEF PumpFacts, PushPhases, PlanPhases, WavePhases, ReviewPhases, SynthesisPhases
    <2>5. /\ goal' \in [Goals -> GoalRecord] /\ chain' \in Seq(Goals)
          /\ cancel' \in [goal : Goals \cup {NoGoal}, next : Nat]
          /\ \A g \in Goals : goal'[g].tasks = goal[g].tasks
      BY <1>1, <1>3 DEF GoalsTypeOK
    <2>6. \A g \in Goals : goal'[g].status = "completed" => AllDone(g)
      BY <1>3 DEF GoalsInv, OutcomeStands
    <2>7. pump'.goal \in Goals /\ goal'[pump'.goal].status # "completed"
      BY <1>1, <1>3, <2>2
    <2>8. QED
      BY <2>1, <2>2, <2>3, <2>4, <2>5, <2>6, <2>7, PumpMoves
  <1>4. QED
    BY <1>2, <1>3 DEF RetryCandidate

LEMMA TallyKeepsTheGoals ==
  ASSUME GoalsInv, Tally
  PROVE  GoalsInv'
  <1>1. /\ pump.pc = "tally" /\ pump.pc # "idle" /\ task' = task /\ chain' = chain /\ cancel' = cancel
        /\ IsPump(pump) /\ PumpFacts(pump, Work(pump.goal)) /\ pump.goal \in Goals /\ GoalsTypeOK
        /\ pump' = [pump EXCEPT !.pc = "synth", !.ok = AllSucceeded]
        /\ goal' = WithStatus(pump.goal, "synthesizing")
    BY DEF Tally, PumpOnly, GoalsInv, GoalsTypeOK, PumpKnows
  <1>2. Work(pump.goal) # {}
    BY <1>1 DEF PumpFacts, ReviewPhases
  <1>3. AllSucceeded \in BOOLEAN
    BY DEF AllSucceeded
  <1>4. IsPump(pump') /\ pump'.pc = "synth" /\ pump'.goal = pump.goal /\ pump'.ok = AllSucceeded
    <2>1. PICK b \in BOOLEAN : b = AllSucceeded
      BY <1>3
    <2>2. pump' = [pump EXCEPT !.pc = "synth", !.ok = b]
      BY <1>1, <2>1
    <2>3. QED
      BY <1>1, <2>1, <2>2 DEF IsPump, SynthesisPhases
  <1>5. pump'.ok => AllDone(pump.goal)
    BY <1>2, <1>4 DEF AllSucceeded, AllDone
  <1>6. PumpFacts(pump', Work(pump.goal))
    BY <1>2, <1>4 DEF PumpFacts, PushPhases, PlanPhases, WavePhases, ReviewPhases, SynthesisPhases
  <1>7. ReviewUnderWay'
    BY <1>4 DEF ReviewUnderWay
  <1>8. /\ goal' \in [Goals -> GoalRecord] /\ \A h \in Goals : goal'[h].tasks = goal[h].tasks
        /\ \A h \in Goals : goal'[h].status = IF h = pump.goal THEN "synthesizing" ELSE goal[h].status
    BY <1>1, StatusSet DEF GoalStatus
  <1>9. \A h \in Goals : goal'[h].status = "completed" => goal[h].status = "completed"
    BY <1>8
  <1>10. QED
    BY <1>1, <1>4, <1>5, <1>6, <1>7, <1>8, <1>9, PumpGoesOn

LEMMA ReadSynthesisKeepsTheGoals ==
  ASSUME GoalsInv, ReadSynthesis
  PROVE  GoalsInv'
  <1>1. /\ pump.pc = "synthRead" /\ pump.pc # "idle" /\ task' = task /\ chain' = chain /\ cancel' = cancel
        /\ IsPump(pump) /\ PumpFacts(pump, Work(pump.goal))
    BY DEF ReadSynthesis, PumpOnly, GoalsInv, GoalsTypeOK, PumpKnows
  <1>2. CASE Fail
    BY <1>1, <1>2, PumpFails
  <1>3. CASE pump' = Goto("finish") /\ goal' = goal
    <2> DEFINE q == [pump EXCEPT !.pc = "finish"]
    <2>1. q.pc = "finish" /\ pump' = q
      BY <1>1, <1>3 DEF IsPump, Goto
    <2>2. Work(pump.goal) # {}
      BY <1>1 DEF PumpFacts, SynthesisPhases
    <2> HIDE DEF q
    <2>3. PumpFacts(q, Work(pump.goal))
      BY <2>1, <2>2 DEF PumpFacts, PushPhases, PlanPhases, WavePhases
    <2>4. "finish" \in PumpPhases /\ pump.pc \in SynthesisPhases
      BY <1>1 DEF PumpPhases, SynthesisPhases
    <2>5. QED
      BY <1>1, <1>3, <2>1, <2>3, <2>4, PumpGoesTo DEF q
  <1>4. QED
    BY <1>2, <1>3 DEF ReadSynthesis

\* The outcome that was computed before the synthesis is still the right one.
LEMMA FinishKeepsTheGoals ==
  ASSUME GoalsInv, Finish
  PROVE  GoalsInv'
  <1>1. /\ pump.pc = "finish" /\ task' = task /\ chain' = chain /\ cancel' = cancel /\ pump' = NoPump
        /\ pump.goal \in Goals /\ GoalsTypeOK /\ pump.ok \in BOOLEAN
        /\ \E s \in {"completed", "failed"} : goal' = WithStatus(pump.goal, s) /\ (s = "completed" => pump.ok)
    BY DEF Finish, PumpOnly, GoalsInv, GoalsTypeOK, PumpKnows, IsPump
  <1>2. PICK s \in {"completed", "failed"} : goal' = WithStatus(pump.goal, s) /\ (s = "completed" => pump.ok)
    BY <1>1
  <1>3. /\ goal' \in [Goals -> GoalRecord] /\ \A h \in Goals : goal'[h].tasks = goal[h].tasks
        /\ \A h \in Goals : goal'[h].status = IF h = pump.goal THEN s ELSE goal[h].status
    <2>1. s \in GoalStatus
      BY DEF GoalStatus, TerminalGoal
    <2>2. QED
      BY <1>1, <1>2, <2>1, StatusSet
  <1>4. \A h \in Goals : goal'[h].status = "completed" => AllDone(h)
    BY <1>1, <1>2, <1>3 DEF GoalsInv, OutcomeStands, SynthesisPhases
  <1>5. chain' \in Seq(Goals) /\ cancel' \in [goal : Goals \cup {NoGoal}, next : Nat]
    BY <1>1 DEF GoalsTypeOK
  <1>6. IsPump(pump') /\ pump'.pc = "idle"
    BY <1>1, NoPumpIsOne
  <1>7. QED
    BY <1>1, <1>3, <1>4, <1>5, <1>6, PumpStops

-----------------------------------------------------------------------------
(* The theorems about goals *)

LEMMA GoalsStart ==
  ASSUME GoalsInit
  PROVE  GoalsInv
  <1>1. TasksTyped
    BY DEF GoalsInit, TasksTyped
  <1>2. GoalsTypeOK
    BY <1>1, NoPumpIsOne DEF GoalsInit, GoalsTypeOK, GoalRecord, GoalStatus, Uncancelled
  <1>3. pump.pc = "idle" /\ \A g \in Goals : goal[g].status = "none" /\ Known(g) = {}
    BY NoPumpIsOne DEF GoalsInit, Known, ToSet
  <1>4. DOMAIN task = {}
    BY DEF GoalsInit
  <1>5. Verdicts /\ ReviewUnderWay /\ PumpKnows /\ OutcomeStands
    BY <1>3, <1>4 DEF Verdicts, ReviewUnderWay, PumpKnows, OutcomeStands, SynthesisPhases
  <1>6. QED
    BY <1>2, <1>5 DEF GoalsInv

LEMMA GoalsStutter ==
  ASSUME GoalsInv, UNCHANGED goalVars
  PROVE  GoalsInv'
  <1>1. /\ task' = task /\ goal' = goal /\ chain' = chain /\ cancel' = cancel /\ pump' = pump
    BY DEF goalVars
  <1>2. QED
    BY <1>1 DEF GoalsInv, GoalsTypeOK, TasksTyped, Verdicts, ReviewUnderWay, PumpKnows, OutcomeStands,
                PumpFacts, AllDone, Work, Known, Is, Subject

LEMMA PumpKeepsTheGoals ==
  ASSUME GoalsInv, PumpStep
  PROVE  GoalsInv'
  <1>1. ASSUME NotConverged PROVE GoalsInv'
    BY <1>1, PumpFails DEF NotConverged, PumpOnly
  <1>2. QED
    BY <1>1, PumpBeginsKeepsTheGoals, RunsKeepTheGoals, RunReturnsKeepsTheGoals, CreationKeepsTheGoals,
       PushPlanningKeepsTheGoals, ReadProposalKeepsTheGoals, FormWaveKeepsTheGoals, DelegateStepKeepsTheGoals,
       PushStepKeepsTheGoals, ReadWaveKeepsTheGoals, ReviewingKeepsTheGoals, PushReviewKeepsTheGoals,
       DecideKeepsTheGoals, RetryKeepsTheGoals, TallyKeepsTheGoals, ReadSynthesisKeepsTheGoals, FinishKeepsTheGoals
    DEF PumpStep

\* What the pump and the goals' tasks know of each other holds in every state of goal-controller.js
\* beside the other loops: of goals, steps, cycles, tasks, cancellations and failures there may be any number.
THEOREM GoalsInvariant == GoalsSpec => []GoalsInv
  <1>1. GoalsInv /\ [GoalsNext]_goalVars => GoalsInv'
    <2>1. SUFFICES ASSUME GoalsInv, [GoalsNext]_goalVars PROVE GoalsInv'
      OBVIOUS
    <2>2. CASE UNCHANGED goalVars
      BY <2>1, <2>2, GoalsStutter
    <2>3. CASE GoalsNext
      <3>1. \/ PumpStep \/ PumpThrows \/ OtherStarts \/ OtherEnds \/ CancelTaskOf \/ CancelEnds \/ Restart
            \/ \E g \in Goals : SubmitGoal(g) \/ CancelBegins(g)
        BY <2>3 DEF GoalsNext
      <3>2. QED
        BY <2>1, <3>1, PumpKeepsTheGoals, ThrowKeepsTheGoals, OthersKeepTheGoals, CancelTaskOfKeepsTheGoals,
           OperatorKeepsTheGoals, RestartKeepsTheGoals
    <2>4. QED
      BY <2>1, <2>2, <2>3
  <1>2. QED
    BY GoalsStart, <1>1, PTL DEF GoalsSpec

\* A goal that says completed has work and all of it is completed, each gated step by a review
\* of the very attempt that is published: the outcome that the tally computed is still true when
\* it is written, whatever is cancelled, tried again or run by others meanwhile.
THEOREM GoalCompletedMeansDoneTheorem == GoalsSpec => []GoalCompletedMeansDone
  <1>1. GoalsInv => GoalCompletedMeansDone
    <2>1. SUFFICES ASSUME GoalsInv, NEW g \in Goals, goal[g].status = "completed"
                   PROVE  /\ Work(g) # {}
                          /\ \A i \in Work(g) :
                              /\ Is(i, {"completed"})
                              /\ task[i].gate => /\ task[i].verdict # 0
                                                 /\ task[task[i].verdict].about = i
                                                 /\ task[task[i].verdict].attempt = task[i].attempt
      BY DEF GoalCompletedMeansDone
    <2>2. AllDone(g) /\ Work(g) \subseteq DOMAIN task /\ 0 \notin DOMAIN task
      BY <2>1, TaskDomain DEF GoalsInv, GoalsTypeOK, OutcomeStands, PumpKnows, Work
    <2>3. QED
      BY <2>1, <2>2 DEF AllDone, GoalsInv, Verdicts
  <1>2. QED
    BY GoalsInvariant, <1>1, PTL
=============================================================================
