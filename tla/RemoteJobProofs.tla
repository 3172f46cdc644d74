--------------------------- MODULE RemoteJobProofs ---------------------------
(***************************************************************************)
(* Proofs about RemoteJob for every finite set of jobs and every value of  *)
(* the bounds: whatever the network loses, whatever fails or restarts and  *)
(* whatever the operator does, the Worker Node works on one request of a   *)
(* job at a time, and a job says completed, cancelled or working only when *)
(* it is.                                                                  *)
(***************************************************************************)
EXTENDS RemoteJob, FiniteSetTheorems, SequenceTheorems, TLAPS

-----------------------------------------------------------------------------
(* The inductive invariant *)

JobStatus == {"none", "queued", "working", "waiting", "needs_attention", "completed",
              "failed", "cancelled"}

JobRecord == [status : JobStatus, remote : BOOLEAN, attempt : Nat, req : Nat, rid : Nat,
              reconnects : Nat, due : BOOLEAN, skip : BOOLEAN, repeats : Int,
              tasks : SUBSET Nat]

LocalRecord == [job : Jobs, req : Nat, given : Nat, rid : Nat,
                status : LocalEnded \cup {"queued", "running"},
                pc : {"none", "start", "bind", "poll", "over"}]

PumpRecord ==
    {p \in [pc : {"idle", "prepare", "plan", "delegated", "run", "aggregate"},
            job : Jobs \cup {None}, local : Nat, running : Nat] :
        p.pc # "idle" => p.job \in Jobs}

OpRecord ==
    {p \in [pc : {"idle", "remote", "locals", "set"}, job : Jobs \cup {None}, rid : Nat,
            tasks : SUBSET Nat] :
        p.pc # "idle" => p.job \in Jobs}

NodeStatus == {"none", "live", "refused", "completed", "failed", "cancelled"}

\* The jobs, their file, the locals of the pump and of a cancel, the local tasks and
\* those of the node have their types.
TypeOK ==
    /\ job \in [Jobs -> JobRecord] /\ saved \in [Jobs -> JobRecord]
    /\ chain \in Seq(Jobs) /\ pump \in PumpRecord /\ local \in Seq(LocalRecord)
    /\ node \in [RequestIds -> NodeStatus] /\ op \in OpRecord /\ issued \in Nat

Locals == DOMAIN local

OfRemote(i) == job[local[i].job].remote

\* The local tasks that dispatch their request, and the requests of a job that the
\* node took on.
Dispatches(i) == OfRemote(i) /\ local[i].given = 0
Unsettled(q) == node[q] \in {"none", "live"}
Taken(q) == node[q] \notin {"none", "refused"}
Accepted(j) == {local[k].req : k \in {k \in Locals :
    Dispatches(k) /\ local[k].job = j /\ Taken(local[k].req)}}

\* The tasks noted in the job that have a remote task, and what it is.
Noted(j) == {k \in job[j].tasks : local[k].rid # 0}
NotedRemote(j, q) == \E k \in Noted(j) : local[k].rid = q
Ends(j, s) == \E k \in Noted(j) : node[local[k].rid] = s

\* Whatever waits, runs or is recorded belongs to a job that was submitted.
Submitted ==
    /\ \A i \in Locals : job[local[i].job].status # "none"
    /\ \A n \in DOMAIN chain : job[chain[n]].status # "none"
    /\ pump.pc # "idle" => job[pump.job].status # "none"
    /\ op.pc # "idle" => job[op.job].status # "none"
    /\ \A j \in Jobs : job[j].status = "none" => job[j] = NewJob
    /\ \A j \in Jobs : saved[j].status = "none" => saved[j] = job[j]

\* The file lags behind a job in its status and its remote task only.
SavedAgrees ==
    \A j \in Jobs : /\ saved[j].remote = job[j].remote /\ saved[j].req = job[j].req
                    /\ saved[j].tasks = job[j].tasks /\ saved[j].rid \in {0, job[j].rid}

TasksNoted == \A j \in Jobs : \A k \in job[j].tasks : k \in Locals /\ local[k].job = j

\* The locals of a pump that has a task: it is the job's, of its request, and the pump
\* waits for it while it runs.
PumpOwns ==
    /\ pump.pc = "prepare" => issued < MaxRequests
    /\ pump.pc \in {"plan", "delegated", "run"} /\ job[pump.job].remote =>
        job[pump.job].req # 0
    /\ pump.pc \in {"delegated", "run"} =>
        /\ pump.local \in Locals /\ local[pump.local].job = pump.job
        /\ local[pump.local].req = job[pump.job].req
    /\ pump.pc = "delegated" => local[pump.local].status # "running"
    /\ pump.pc = "run" => pump.local \in job[pump.job].tasks
    /\ pump.pc = "run" /\ local[pump.local].status = "running" => pump.running = pump.local
    /\ pump.pc = "aggregate" => job[pump.job].status # "working"

\* Request ids are of one job each.
Ids ==
    /\ issued <= MaxRequests
    /\ \A i \in Locals : IF OfRemote(i) THEN local[i].req \in 1..issued
                         ELSE local[i].req = 0 /\ local[i].given = 0
    /\ \A j \in Jobs : job[j].req \in 0..issued /\ (~job[j].remote => job[j].req = 0)
    /\ \A i, k \in Locals :
        local[i].req # 0 /\ local[i].req = local[k].req => local[i].job = local[k].job
    /\ \A i \in Locals, j \in Jobs :
        local[i].req # 0 /\ local[i].req = job[j].req => local[i].job = j
    /\ \A j, k \in Jobs : job[j].req # 0 /\ job[j].req = job[k].req => j = k

\* A harness belongs to the task that the pump waits for.
HarnessRuns ==
    \A i \in Locals :
        /\ local[i].pc \in {"start", "bind", "poll"} =>
            /\ pump.pc = "run" /\ pump.running = i
            /\ local[i].status \in {"running", "cancelled"}
        /\ local[i].pc = "over" => local[i].status \notin {"queued", "running"}
        /\ local[i].status = "queued" \/ local[i].pc \in {"start", "bind"} => local[i].rid = 0
        /\ local[i].pc = "bind" => Dispatches(i) /\ Taken(local[i].req)
        /\ local[i].pc = "poll" => local[i].rid # 0

\* The node only knows requests that some task dispatched.
Owned ==
    \A q \in RequestIds : node[q] # "none" =>
        \E i \in Locals : Dispatches(i) /\ local[i].req = q

\* The remote task that a local task or a job is bound to was dispatched for the job.
BoundAccepted ==
    /\ \A j \in Jobs, i \in Locals : local[i].job = j =>
        {local[i].rid, local[i].given} \subseteq {0} \cup Accepted(j)
    /\ \A j \in Jobs : job[j].rid # 0 => NotedRemote(j, job[j].rid)

\* Only the job's present request can be live, or become so; ...
OnlyPresent ==
    \A i \in Locals : Dispatches(i) /\ Unsettled(local[i].req) =>
        job[local[i].job].req = local[i].req

\* ... no other request of the job was taken on before; ...
FirstAccepted ==
    \A j \in Jobs, i \in Locals :
        local[i].job = j /\ Dispatches(i) /\ Unsettled(local[i].req) =>
            Accepted(j) \subseteq {local[i].req}

\* ... a job may only make a new request when none was taken on, or when a remote task
\* is noted, to which it goes back; ...
NotedBeforeNew ==
    \A j \in Jobs : job[j].remote /\ job[j].req = 0 /\ Accepted(j) # {} => Noted(j) # {}

\* ... and the request it has made is then the first to be taken on.
NewIsFirst ==
    \A j \in Jobs :
        /\ job[j].req # 0 /\ saved[j].rid = 0
        /\ node[job[j].req] \in {"none", "live", "refused"}
        => Accepted(j) \subseteq {job[j].req}

\* How the tasks of remote jobs end.
Outcomes ==
    \A j \in Jobs, i \in Locals : local[i].job = j /\ OfRemote(i) =>
        /\ local[i].status = "failed" =>
            \/ local[i].rid # 0 /\ ~Unsettled(local[i].rid)
            \/ local[i].rid = 0 /\ local[i].given = 0 /\ node[local[i].req] = "refused"
        /\ local[i].status = "completed" =>
            local[i].rid # 0 /\ node[local[i].rid] = "completed"
        /\ local[i].status = "cancelled" => Ends(j, "cancelled")

\* A cancel that goes on to the local tasks has stopped the remote one.
CancelConfirmed ==
    \A j \in Jobs : op.job = j =>
        /\ op.pc = "remote" => job[j].remote /\ NotedRemote(j, op.rid)
        /\ op.pc \in {"locals", "set"} /\ job[j].remote => Ends(j, "cancelled")
        /\ op.pc # "idle" => op.tasks \subseteq job[j].tasks

\* What a remote job and its file say of the job's end.
Claims(j) == {job[j].status, saved[j].status} \cap {"completed", "cancelled"}
ClaimsHold == \A j \in Jobs : job[j].remote => \A s \in Claims(j) : Ends(j, s)

Bookkeeping == Submitted /\ SavedAgrees /\ TasksNoted /\ PumpOwns /\ Ids /\ HarnessRuns
Requests == Owned /\ BoundAccepted /\ OnlyPresent /\ FirstAccepted /\ NotedBeforeNew
            /\ NewIsFirst
Ending == Outcomes /\ CancelConfirmed /\ ClaimsHold /\ WorkingIsPumped

JobInv == TypeOK /\ Bookkeeping /\ Requests /\ Ending

-----------------------------------------------------------------------------
(* Lemmas about sets and sequences *)

LEMMA AtMostOne ==
  ASSUME NEW S, NEW x, S \subseteq {x}
  PROVE  Cardinality(S) <= 1
  <1>1. IsFiniteSet({x}) /\ Cardinality({x}) = 1
    BY FS_Singleton
  <1>2. QED
    BY <1>1, FS_Subset

\* A set of indices has a least element: of the intervals that end at one, one is
\* contained in no other.
LEMMA Least ==
  ASSUME NEW n \in Nat, NEW S \in SUBSET (1..n), S # {}
  PROVE  \E i \in S : \A k \in S : i <= k
  <1> DEFINE T == {1..i : i \in S}
             R == StrictSubsetOrdering(1..n)
  <1>1. IsFiniteSet(1..n)
    BY FS_Interval
  <1>2. IsWellFoundedOn(R, SUBSET (1..n))
    BY <1>1, FS_StrictSubsetOrderingWellFounded, FS_FiniteSubsetsOfFinite
  <1>3. T \subseteq SUBSET (1..n) /\ T # {}
    <2>1. ASSUME NEW t \in T
          PROVE  t \in SUBSET (1..n)
      <3>1. PICK i \in S : t = 1..i
        OBVIOUS
      <3>2. i \in 1..n
        OBVIOUS
      <3>3. QED
        BY <3>1, <3>2
    <2>2. QED
      BY <2>1, ZenonT(40)
  <1>4. PICK x \in T : \A y \in T : ~(<<y, x>> \in R)
    <2> HIDE DEF T, R
    <2>1. QED
      BY <1>2, <1>3, WFMin
  <1>5. PICK i \in S : x = 1..i
    BY <1>4
  <1>6. ASSUME NEW k \in S, k < i
        PROVE  FALSE
    <2>1. 1..k \subseteq 1..i /\ 1..k # 1..i
      <3>1. i \in 1..i /\ i \notin 1..k
        BY <1>6
      <3>2. QED
        BY <1>6, <3>1
    <2>2. <<1..k, x>> \in R
      <3>1. 1..k \in SUBSET (1..n) /\ x \in SUBSET (1..n)
        BY <1>3, <1>4
      <3>2. QED
        BY <1>5, <2>1, <3>1 DEF StrictSubsetOrdering
    <2>3. QED
      BY <1>4, <2>2
  <1>7. QED
    BY <1>6

LEMMA SetToSeqType ==
  ASSUME NEW S, IsFiniteSet(S)
  PROVE  SetToSeq(S) \in Seq(S)
  <1>1. Cardinality(S) \in Nat /\ ExistsBijection(1..Cardinality(S), S)
    BY FS_CardinalityType
  <1>2. PICK f \in [1..Cardinality(S) -> S] : IsInjective(f)
    BY <1>1 DEF ExistsBijection, Bijection, Injection, IsInjective
  <1>3. SetToSeq(S) \in [1..Cardinality(S) -> S]
    BY <1>2 DEF SetToSeq
  <1>4. QED
    BY <1>1, <1>3

\* A sequence whose entries are replaced.
LEMMA SameDomain ==
  ASSUME NEW S, NEW s \in Seq(S), NEW t, DOMAIN t = DOMAIN s, \A i \in DOMAIN s : t[i] \in S,
         t = [i \in DOMAIN t |-> t[i]]
  PROVE  t \in Seq(S)
  <1>1. Len(s) \in Nat /\ DOMAIN s = 1..Len(s)
    BY LenProperties
  <1>2. t \in [1..Len(s) -> S]
    BY <1>1
  <1>3. QED
    BY <1>1, <1>2, SeqDef

-----------------------------------------------------------------------------
(* What the tasks and the requests keep while they move *)

\* The tasks keep their job, their request and what they were given; ...
LocalsKeep ==
    /\ Locals' = Locals
    /\ \A i \in Locals : /\ local'[i].job = local[i].job /\ local'[i].req = local[i].req
                         /\ local'[i].given = local[i].given

\* ... a bound one keeps its remote task; ...
BoundKeep == \A i \in Locals : local[i].rid # 0 => local'[i].rid = local[i].rid

\* ... the jobs keep their target and lose no task; ...
JobsKeep ==
    \A j \in Jobs : /\ job[j].status # "none" => job'[j].remote = job[j].remote
                    /\ job[j].tasks \subseteq job'[j].tasks

\* ... and the node forgets no outcome, refuses nothing that it has taken on, and only
\* takes on what was dispatched.
NodeKeeps ==
    \A q \in RequestIds :
        /\ ~Unsettled(q) => node'[q] = node[q]
        /\ node[q] = "live" => node'[q] \notin {"none", "refused"}
        /\ node[q] = "none" /\ node'[q] # "none" =>
            \E i \in Locals : Dispatches(i) /\ local[i].req = q

Moves == LocalsKeep /\ BoundKeep /\ JobsKeep /\ NodeKeeps

LEMMA LocalFacts ==
  ASSUME JobInv, NEW i \in Locals
  PROVE  /\ local[i] \in LocalRecord /\ local[i].job \in Jobs /\ i \in Nat
         /\ Dispatches(i) => local[i].req \in RequestIds
         /\ ~OfRemote(i) => local[i].req = 0
         /\ job[local[i].job].status # "none"
  <1>1. local[i] \in LocalRecord /\ i \in Nat
    BY DEF JobInv, TypeOK, Locals
  <1>2. local[i].job \in Jobs /\ job[local[i].job].status # "none"
    BY <1>1 DEF LocalRecord, JobInv, Bookkeeping, Submitted
  <1>3. issued \in Nat /\ issued <= MaxRequests
    BY DEF JobInv, TypeOK, Bookkeeping, Ids
  <1>4. Dispatches(i) => local[i].req \in RequestIds
    BY <1>3, JobAssumption DEF JobInv, Bookkeeping, Ids, RequestIds, Dispatches
  <1>5. ~OfRemote(i) => local[i].req = 0
    BY DEF JobInv, Bookkeeping, Ids
  <1>6. QED
    BY <1>1, <1>2, <1>4, <1>5

LEMMA AcceptedFacts ==
  ASSUME JobInv, NEW j \in Jobs, NEW q \in Accepted(j)
  PROVE  /\ q \in RequestIds /\ q # 0 /\ q \in 1..issued /\ Taken(q)
         /\ \E k \in Locals : Dispatches(k) /\ local[k].job = j /\ local[k].req = q
  <1>1. PICK k \in Locals : /\ Dispatches(k) /\ local[k].job = j /\ local[k].req = q
                            /\ Taken(q)
    BY DEF Accepted
  <1>2. q \in RequestIds /\ q # 0
    BY <1>1, LocalFacts DEF RequestIds
  <1>3. q \in 1..issued
    BY <1>1 DEF Dispatches, JobInv, Bookkeeping, Ids
  <1>4. QED
    BY <1>1, <1>2, <1>3

LEMMA NotedFacts ==
  ASSUME JobInv, NEW j \in Jobs, NEW k \in Noted(j)
  PROVE  /\ k \in Locals /\ local[k].job = j /\ local[k].rid # 0
         /\ local[k].rid \in Accepted(j)
  BY DEF Noted, JobInv, Bookkeeping, TasksNoted, Requests, BoundAccepted

LEMMA DispatchesKept ==
  ASSUME JobInv, LocalsKeep, JobsKeep, NEW i \in Locals
  PROVE  /\ OfRemote(i)' <=> OfRemote(i)
         /\ Dispatches(i)' <=> Dispatches(i)
  BY LocalFacts DEF LocalsKeep, JobsKeep, OfRemote, Dispatches

LEMMA TakenKept ==
  ASSUME NodeKeeps, NEW q \in RequestIds
  PROVE  /\ Taken(q) => Taken(q)'
         /\ Unsettled(q)' => Unsettled(q)
         /\ Taken(q)' => Taken(q) \/ node[q] = "none"
  BY DEF NodeKeeps, Taken, Unsettled

LEMMA AcceptedGrows ==
  ASSUME JobInv, Moves, NEW j \in Jobs
  PROVE  /\ Accepted(j) \subseteq Accepted(j)'
         /\ \A q \in Accepted(j)' \ Accepted(j) :
                /\ node[q] = "none"
                /\ \E k \in Locals : Dispatches(k) /\ local[k].job = j /\ local[k].req = q
  <1>1. ASSUME NEW q \in Accepted(j)
        PROVE  q \in Accepted(j)'
    <2>1. PICK k \in Locals : /\ Dispatches(k) /\ local[k].job = j /\ local[k].req = q
                              /\ Taken(q)
      BY DEF Accepted
    <2>2. k \in Locals' /\ Dispatches(k)' /\ local'[k].job = j /\ local'[k].req = q
      BY <2>1, DispatchesKept DEF Moves, LocalsKeep
    <2>3. Taken(q)'
      BY <1>1, AcceptedFacts, TakenKept DEF Moves
    <2>4. Taken(local[k].req)'
      BY <2>2, <2>3 DEF Taken
    <2>5. QED
      BY <2>2, <2>4 DEF Accepted
  <1>2. ASSUME NEW q \in Accepted(j)', q \notin Accepted(j)
        PROVE  /\ node[q] = "none"
               /\ \E k \in Locals : Dispatches(k) /\ local[k].job = j /\ local[k].req = q
    <2>1. PICK k \in Locals' : /\ Dispatches(k)' /\ local'[k].job = j /\ local'[k].req = q
                               /\ Taken(local[k].req)'
      BY DEF Accepted
    <2>2. k \in Locals /\ Dispatches(k) /\ local[k].job = j /\ local[k].req = q
      BY <2>1, DispatchesKept DEF Moves, LocalsKeep
    <2>3. q \in RequestIds
      BY <2>2, LocalFacts
    <2>4. Taken(q)' /\ ~Taken(q)
      BY <2>1, <2>2, <1>2 DEF Taken, Accepted
    <2>5. QED
      BY <2>2, <2>3, <2>4, TakenKept DEF Moves
  <1>3. QED
    BY <1>1, <1>2

LEMMA NotedGrows ==
  ASSUME JobInv, Moves, NEW j \in Jobs
  PROVE  /\ Noted(j) \subseteq Noted(j)'
         /\ \A q : NotedRemote(j, q) => NotedRemote(j, q)'
         /\ \A s \in {"completed", "cancelled"} : Ends(j, s) => Ends(j, s)'
  <1>1. ASSUME NEW k \in Noted(j)
        PROVE  k \in Noted(j)' /\ local'[k].rid = local[k].rid /\ local[k].rid \in RequestIds
    <2>1. k \in Locals /\ local[k].rid # 0 /\ local[k].rid \in Accepted(j)
      BY NotedFacts
    <2>2. local'[k].rid = local[k].rid /\ k \in job'[j].tasks
      BY <2>1 DEF Noted, Moves, BoundKeep, JobsKeep
    <2>3. QED
      BY <2>1, <2>2, AcceptedFacts DEF Noted
  <1>2. ASSUME NEW q, NotedRemote(j, q)
        PROVE  NotedRemote(j, q)'
    BY <1>1, <1>2 DEF NotedRemote
  <1>3. ASSUME NEW s \in {"completed", "cancelled"}, Ends(j, s)
        PROVE  Ends(j, s)'
    <2>1. PICK k \in Noted(j) : node[local[k].rid] = s
      BY <1>3 DEF Ends
    <2>2. node'[local'[k].rid] = s
      BY <1>1, <2>1 DEF Moves, NodeKeeps, Unsettled
    <2>3. QED
      BY <1>1, <2>2 DEF Ends
  <1>4. QED
    BY <1>1, <1>2, <1>3

LEMMA UnsettledBefore ==
  ASSUME JobInv, Moves, NEW i \in Locals, NEW j \in Jobs, local'[i].job = j, Dispatches(i)',
         Unsettled(local[i].req)'
  PROVE  /\ local[i].job = j /\ Dispatches(i) /\ Unsettled(local[i].req)
         /\ local'[i].req = local[i].req
         /\ job[j].req = local[i].req
         /\ Accepted(j) \subseteq {local[i].req}
  <1>1. /\ Dispatches(i) /\ local'[i].req = local[i].req /\ local[i].job = j
    BY DispatchesKept DEF Moves, LocalsKeep
  <1>2. local[i].req \in RequestIds
    BY <1>1, LocalFacts
  <1>3. Unsettled(local[i].req)
    BY <1>1, <1>2, TakenKept DEF Moves, Unsettled
  <1>4. QED
    BY <1>1, <1>2, <1>3 DEF JobInv, Requests, OnlyPresent, FirstAccepted

LEMMA OwnedKept ==
  ASSUME JobInv, Moves
  PROVE  Owned'
  <1>1. ASSUME NEW q \in RequestIds, node'[q] # "none"
        PROVE  \E i \in Locals' : Dispatches(i)' /\ local'[i].req = q
    <2>1. PICK i \in Locals : Dispatches(i) /\ local[i].req = q
      BY <1>1 DEF Moves, NodeKeeps, JobInv, Requests, Owned
    <2>2. QED
      BY <2>1, DispatchesKept DEF Moves, LocalsKeep
  <1>2. QED
    BY <1>1 DEF Owned

\* What is taken on anew is the present request of its job.
LEMMA NewlyTaken ==
  ASSUME JobInv, Moves, NEW j \in Jobs, NEW a \in Accepted(j)', a \notin Accepted(j)
  PROVE  node[a] = "none" /\ job[j].req = a /\ a # 0 /\ job[j].status # "none"
  <1>1. node[a] = "none"
    BY AcceptedGrows
  <1>2. PICK k \in Locals : Dispatches(k) /\ local[k].job = j /\ local[k].req = a
    BY AcceptedGrows
  <1>3. job[j].req = a
    BY <1>1, <1>2 DEF JobInv, Requests, OnlyPresent, Unsettled
  <1>4. a # 0 /\ job[j].status # "none"
    BY <1>2, LocalFacts DEF RequestIds
  <1>5. QED
    BY <1>1, <1>3, <1>4

LEMMA FirstKept ==
  ASSUME JobInv, Moves
  PROVE  FirstAccepted'
  <1>1. ASSUME NEW j \in Jobs, NEW i \in Locals', local'[i].job = j, Dispatches(i)',
               Unsettled(local[i].req)', NEW a \in Accepted(j)'
        PROVE  a = local'[i].req
    <2>1. /\ job[j].req = local[i].req /\ local'[i].req = local[i].req
          /\ Accepted(j) \subseteq {local[i].req}
      BY <1>1, UnsettledBefore DEF Moves, LocalsKeep
    <2>2. QED
      BY <1>1, <2>1, NewlyTaken
  <1>2. QED
    BY <1>1 DEF FirstAccepted

\* The remote tasks that are bound anew were taken on, and noted.
RidsKnown ==
    /\ \A j \in Jobs, i \in Locals : local[i].job = j =>
        local'[i].rid \in {0, local[i].rid} \cup Accepted(j)
    /\ \A j \in Jobs : job'[j].rid # 0 =>
        NotedRemote(j, job'[j].rid) \/ \E k \in Noted(j)' : local'[k].rid = job'[j].rid

LEMMA BoundKept ==
  ASSUME JobInv, Moves, RidsKnown
  PROVE  BoundAccepted'
  <1>1. ASSUME NEW j \in Jobs, NEW i \in Locals', local'[i].job = j
        PROVE  {local'[i].rid, local'[i].given} \subseteq {0} \cup Accepted(j)'
    <2>1. i \in Locals /\ local[i].job = j /\ local'[i].given = local[i].given
      BY <1>1 DEF Moves, LocalsKeep
    <2>2. {local'[i].rid, local'[i].given} \subseteq {0} \cup Accepted(j)
      BY <2>1 DEF RidsKnown, JobInv, Requests, BoundAccepted
    <2>3. QED
      BY <2>2, AcceptedGrows
  <1>2. ASSUME NEW j \in Jobs, job'[j].rid # 0
        PROVE  NotedRemote(j, job[j].rid)'
    <2>1. ASSUME NEW k \in Noted(j), local[k].rid = job'[j].rid
          PROVE  k \in Noted(j)' /\ local'[k].rid = job'[j].rid
      <3>1. k \in Noted(j)'
        BY NotedGrows
      <3>2. local'[k].rid = local[k].rid
        BY NotedFacts DEF Moves, BoundKeep
      <3>3. QED
        BY <2>1, <3>1, <3>2
    <2>2. QED
      BY <1>2, <2>1 DEF RidsKnown, NotedRemote
  <1>3. QED
    BY <1>1, <1>2 DEF BoundAccepted

\* A job keeps its request.
LEMMA PresentKept ==
  ASSUME JobInv, Moves, NEW j \in Jobs, job'[j].req = job[j].req,
         saved'[j].rid = 0 => saved[j].rid = 0
  PROVE  /\ \A i \in Locals' : /\ local'[i].job = j /\ Dispatches(i)'
                               /\ Unsettled(local[i].req)'
                               => job'[j].req = local'[i].req
         /\ job'[j].remote /\ job'[j].req = 0 /\ Accepted(j)' # {} => Noted(j)' # {}
         /\ /\ job'[j].req # 0 /\ saved'[j].rid = 0
            /\ node'[job'[j].req] \in {"none", "live", "refused"}
            => Accepted(j)' \subseteq {job'[j].req}
  <1>1. ASSUME NEW i \in Locals', local'[i].job = j, Dispatches(i)', Unsettled(local[i].req)'
        PROVE  job'[j].req = local'[i].req
    BY <1>1, UnsettledBefore DEF Moves, LocalsKeep
  <1>2. ASSUME job'[j].remote, job'[j].req = 0, Accepted(j)' # {}
        PROVE  Noted(j)' # {}
    <2>1. PICK a : a \in Accepted(j)'
      BY <1>2
    <2>2. a \in Accepted(j)
      BY <1>2, <2>1, NewlyTaken
    <2>3. PICK k \in Locals : Dispatches(k) /\ local[k].job = j
      BY <2>2, AcceptedFacts
    <2>4. job[j].remote
      BY <2>3 DEF Dispatches, OfRemote
    <2>5. Noted(j) # {}
      BY <1>2, <2>2, <2>4 DEF JobInv, Requests, NotedBeforeNew
    <2>6. QED
      BY <2>5, NotedGrows
  <1>3. ASSUME job'[j].req # 0, saved'[j].rid = 0,
               node'[job'[j].req] \in {"none", "live", "refused"}, NEW a \in Accepted(j)'
        PROVE  a = job'[j].req
    <2>1. CASE a \notin Accepted(j)
      BY <2>1, <1>3, NewlyTaken
    <2>2. CASE a \in Accepted(j)
      <3>1. job[j].req \in RequestIds
        BY <1>3, JobAssumption DEF JobInv, TypeOK, Bookkeeping, Ids, RequestIds
      <3>2. node[job[j].req] \in {"none", "live", "refused"}
        BY <1>3, <3>1 DEF Moves, NodeKeeps, Unsettled
      <3>3. QED
        BY <1>3, <2>2, <3>2 DEF JobInv, Requests, NewIsFirst
    <2>3. QED
      BY <2>1, <2>2
  <1>4. QED
    BY <1>1, <1>2, <1>3

\* The requests stay as they are.
RequestsKeep ==
    /\ Moves /\ RidsKnown /\ issued' = issued
    /\ \A j \in Jobs : /\ job'[j].req = job[j].req
                       /\ saved'[j].rid = 0 => saved[j].rid = 0

LEMMA RequestsKept ==
  ASSUME JobInv, RequestsKeep
  PROVE  Requests'
  <1>1. Owned' /\ BoundAccepted' /\ FirstAccepted'
    BY OwnedKept, BoundKept, FirstKept DEF RequestsKeep
  <1>2. ASSUME NEW i \in Locals', Dispatches(i)', Unsettled(local[i].req)'
        PROVE  job'[local'[i].job].req = local'[i].req
    <2>1. PICK j \in Jobs : j = local'[i].job
      BY LocalFacts DEF RequestsKeep, Moves, LocalsKeep
    <2>2. QED
      BY <1>2, <2>1, PresentKept DEF RequestsKeep
  <1>3. NotedBeforeNew' /\ NewIsFirst'
    BY PresentKept DEF RequestsKeep, NotedBeforeNew, NewIsFirst
  <1>4. QED
    BY <1>1, <1>2, <1>3 DEF Requests, OnlyPresent

LEMMA IdsKept ==
  ASSUME JobInv, RequestsKeep
  PROVE  Ids'
  <1>1. ASSUME NEW i \in Locals'
        PROVE  /\ i \in Locals /\ local[i].job \in Jobs
               /\ local'[i].job = local[i].job /\ local'[i].req = local[i].req
               /\ local'[i].given = local[i].given /\ (OfRemote(i)' <=> OfRemote(i))
    BY LocalFacts, DispatchesKept DEF RequestsKeep, Moves, LocalsKeep
  <1>2. ASSUME NEW j \in Jobs
        PROVE  job'[j].req = job[j].req /\ (~job'[j].remote => job'[j].req = 0)
    <2>1. CASE job[j].status = "none"
      BY <2>1 DEF RequestsKeep, JobInv, Bookkeeping, Submitted, NewJob
    <2>2. CASE job[j].status # "none"
      BY <2>2 DEF RequestsKeep, Moves, JobsKeep, JobInv, Bookkeeping, Ids
    <2>3. QED
      BY <2>1, <2>2
  <1>3. issued' = issued
    BY DEF RequestsKeep
  <1>4. QED
    BY <1>1, <1>2, <1>3 DEF JobInv, Bookkeeping, Ids

-----------------------------------------------------------------------------
(* Steps that leave the local tasks alone *)

\* The jobs and their file move on: a submitted job stays so, of the same target and with
\* the same tasks, what the file says is so, and a remote task is bound if it is noted.
JobsMove ==
    /\ local' = local /\ NodeKeeps
    /\ \A j \in Jobs :
        /\ job[j].status # "none" =>
            job'[j].status # "none" /\ job'[j].remote = job[j].remote
        /\ job'[j].status = "none" => job'[j] = job[j]
        /\ job'[j].tasks = job[j].tasks
        /\ job'[j].rid \in {0, job[j].rid} \/ NotedRemote(j, job'[j].rid)
    /\ SavedAgrees' /\ \A j \in Jobs : saved'[j].status = "none" => saved'[j] = job'[j]

\* The same, and every job keeps its request, and a remote task once it is saved.
JobsMoveOn ==
    /\ JobsMove /\ issued' = issued
    /\ \A j \in Jobs : /\ job'[j].req = job[j].req
                       /\ saved'[j].rid = 0 => saved[j].rid = 0

LEMMA MoveFacts ==
  ASSUME JobInv, JobsMove
  PROVE  /\ Moves /\ RidsKnown
         /\ Locals' = Locals
         /\ \A i \in Locals : OfRemote(i)' = OfRemote(i)
         /\ \A j \in Jobs : Noted(j)' = Noted(j)
  <1>1. Locals' = Locals /\ local' = local
    BY DEF JobsMove, Locals
  <1>2. \A i \in Locals : OfRemote(i)' = OfRemote(i)
    BY <1>1, LocalFacts DEF JobsMove, OfRemote
  <1>3. \A j \in Jobs : Noted(j)' = Noted(j)
    BY <1>1 DEF JobsMove, Noted
  <1>4. JobsKeep
    BY DEF JobsMove, JobsKeep
  <1>5. Moves
    BY <1>1, <1>4 DEF Moves, LocalsKeep, BoundKeep, JobsMove
  <1>6. ASSUME NEW j \in Jobs, job'[j].rid # 0
        PROVE  NotedRemote(j, job'[j].rid)
    <2>1. CASE job'[j].rid = job[j].rid
      BY <2>1, <1>6 DEF JobInv, Requests, BoundAccepted
    <2>2. QED
      BY <2>1, <1>6 DEF JobsMove
  <1>7. RidsKnown
    BY <1>1, <1>6 DEF RidsKnown
  <1>8. QED
    BY <1>1, <1>2, <1>3, <1>5, <1>7

\* A task that keeps its status, and a cancel that goes on or ends, stay justified.
LEMMA OutcomeKept ==
  ASSUME JobInv, Moves, NEW j \in Jobs, NEW i \in Locals', local'[i].job = j, OfRemote(i)',
         local'[i].status = local[i].status,
         local[i].status \in {"failed", "completed"} => local'[i].rid = local[i].rid
  PROVE  /\ local'[i].status = "failed" =>
             \/ local'[i].rid # 0 /\ ~Unsettled(local[i].rid)'
             \/ local'[i].rid = 0 /\ local'[i].given = 0 /\ node'[local'[i].req] = "refused"
         /\ local'[i].status = "completed" => local'[i].rid # 0 /\ node'[local'[i].rid] = "completed"
         /\ local'[i].status = "cancelled" => Ends(j, "cancelled")'
  <1>1. /\ i \in Locals /\ OfRemote(i) /\ local[i].job = j
        /\ local'[i].req = local[i].req /\ local'[i].given = local[i].given
    BY DispatchesKept DEF Moves, LocalsKeep
  <1>2. Ends(j, "cancelled") => Ends(j, "cancelled")'
    BY NotedGrows
  <1>3. local[i].rid # 0 => local[i].rid \in RequestIds
    BY <1>1, AcceptedFacts DEF JobInv, Requests, BoundAccepted
  <1>4. local[i].given = 0 => local[i].req \in RequestIds
    BY <1>1, LocalFacts DEF Dispatches
  <1>5. NodeKeeps
    BY DEF Moves
  <1>6. local[i].rid # 0 /\ ~Unsettled(local[i].rid) => node'[local[i].rid] = node[local[i].rid]
    BY <1>3, <1>5 DEF NodeKeeps
  <1>7. local[i].given = 0 /\ node[local[i].req] = "refused" => node'[local[i].req] = "refused"
    BY <1>4, <1>5 DEF NodeKeeps, Unsettled
  <1>8. local[i].rid # 0 /\ node[local[i].rid] = "completed" => node'[local[i].rid] = "completed"
    BY <1>3, <1>5 DEF NodeKeeps, Unsettled
  <1>9. CASE local[i].status = "failed"
    <2>1. \/ local[i].rid # 0 /\ ~Unsettled(local[i].rid)
          \/ local[i].rid = 0 /\ local[i].given = 0 /\ node[local[i].req] = "refused"
      BY <1>1, <1>9 DEF JobInv, Ending, Outcomes
    <2>2. local'[i].rid = local[i].rid
      BY <1>9
    <2>3. QED
      BY <1>1, <1>6, <1>7, <1>9, <2>1, <2>2 DEF Unsettled
  <1>10. CASE local[i].status = "completed"
    BY <1>1, <1>8, <1>10 DEF JobInv, Ending, Outcomes
  <1>11. CASE local[i].status = "cancelled"
    BY <1>1, <1>2, <1>11 DEF JobInv, Ending, Outcomes
  <1>12. QED
    BY <1>9, <1>10, <1>11

LEMMA OpKept ==
  ASSUME JobInv, Moves, op' \in {op, NoOp}
  PROVE  CancelConfirmed'
  <1>1. CASE op' = NoOp
    BY <1>1 DEF CancelConfirmed, NoOp, JobInv, TypeOK
  <1>2. CASE op' = op
    <2>1. op.pc # "idle" => /\ op.job \in Jobs
                            /\ job'[op.job].remote = job[op.job].remote
                            /\ job[op.job].tasks \subseteq job'[op.job].tasks
      BY DEF JobInv, TypeOK, OpRecord, Bookkeeping, Submitted, Moves, JobsKeep
    <2>2. ASSUME NEW j \in Jobs, op.job = j
          PROVE  /\ op.pc = "remote" => job'[j].remote /\ NotedRemote(j, op.rid)'
                 /\ op.pc \in {"locals", "set"} /\ job'[j].remote => Ends(j, "cancelled")'
                 /\ op.pc # "idle" => op.tasks \subseteq job'[j].tasks
      <3>1. Ends(j, "cancelled") => Ends(j, "cancelled")'
        BY NotedGrows
      <3>2. ASSUME op.pc = "remote"
            PROVE  job'[j].remote /\ NotedRemote(j, op.rid)'
        <4>1. job[j].remote /\ NotedRemote(j, op.rid)
          BY <2>2, <3>2 DEF JobInv, Ending, CancelConfirmed
        <4>2. PICK k \in Noted(j) : local[k].rid = op.rid
          BY <4>1 DEF NotedRemote
        <4>3. k \in Noted(j)' /\ local'[k].rid = op'.rid
          <5>1. k \in Locals /\ local[k].rid # 0
            BY <4>2, NotedFacts
          <5>2. QED
            BY <1>2, <4>2, <5>1, NotedGrows DEF Moves, BoundKeep
        <4>4. QED
          BY <2>1, <2>2, <3>2, <4>1, <4>3 DEF NotedRemote
      <3>3. op.pc \in {"locals", "set"} /\ job'[j].remote => Ends(j, "cancelled")'
        BY <2>1, <2>2, <3>1 DEF JobInv, Ending, CancelConfirmed
      <3>4. op.pc # "idle" => op.tasks \subseteq job'[j].tasks
        BY <2>1, <2>2 DEF JobInv, Ending, CancelConfirmed
      <3>5. QED
        BY <3>2, <3>3, <3>4
    <2>3. QED
      BY <1>2, <2>2 DEF CancelConfirmed, NotedRemote
  <1>3. QED
    BY <1>1, <1>2

\* The local tasks stay as they are, and so do the facts about their ends.
LEMMA LocalsStay ==
  ASSUME JobInv, JobsMove
  PROVE  TasksNoted' /\ Outcomes'
  <1>1. TasksNoted'
    BY DEF JobInv, Bookkeeping, TasksNoted, JobsMove, Locals
  <1>2. ASSUME NEW j \in Jobs, NEW i \in Locals', local'[i].job = j, OfRemote(i)'
        PROVE  /\ local'[i].status = "failed" =>
                   \/ local'[i].rid # 0 /\ ~Unsettled(local[i].rid)'
                   \/ local'[i].rid = 0 /\ local'[i].given = 0 /\ node'[local'[i].req] = "refused"
               /\ local'[i].status = "completed" =>
                   local'[i].rid # 0 /\ node'[local'[i].rid] = "completed"
               /\ local'[i].status = "cancelled" => Ends(j, "cancelled")'
    BY <1>2, MoveFacts, OutcomeKept DEF JobsMove
  <1>3. QED
    BY <1>1, <1>2 DEF Outcomes

\* The pump goes on; ...
LEMMA PumpStays ==
  ASSUME JobInv, JobsMoveOn, pump' = pump,
         \A j \in Jobs : job'[j].status = "working" => job[j].status = "working"
  PROVE  /\ PumpOwns' /\ HarnessRuns' /\ WorkingIsPumped'
         /\ pump'.pc # "idle" => job'[pump'.job].status # "none"
  <1>1. pump.pc # "idle" => /\ pump.job \in Jobs /\ job[pump.job].status # "none"
                            /\ job'[pump.job].remote = job[pump.job].remote
                            /\ job'[pump.job].req = job[pump.job].req
                            /\ job'[pump.job].tasks = job[pump.job].tasks
                            /\ job'[pump.job].status # "none"
    BY DEF JobInv, TypeOK, PumpRecord, Bookkeeping, Submitted, JobsMoveOn, JobsMove
  <1>2. local' = local /\ Locals' = Locals /\ issued' = issued /\ NodeKeeps
    BY DEF JobsMoveOn, JobsMove, Locals
  <1>3. PumpOwns'
    BY <1>1, <1>2 DEF JobInv, Bookkeeping, PumpOwns
  <1>4. HarnessRuns'
    <2>1. ASSUME NEW i \in Locals
          PROVE  local[i].pc = "bind" => Dispatches(i)' /\ Taken(local[i].req)'
      <3>1. local[i].pc = "bind" => Dispatches(i) /\ Taken(local[i].req)
        BY DEF JobInv, Bookkeeping, HarnessRuns
      <3>2. Dispatches(i) => Dispatches(i)' /\ local[i].req \in RequestIds
        BY <1>2, MoveFacts, LocalFacts DEF Dispatches, JobsMoveOn
      <3>3. Dispatches(i) /\ Taken(local[i].req) => Taken(local[i].req)'
        BY <1>2, <3>2 DEF NodeKeeps, Taken, Unsettled
      <3>4. QED
        BY <3>1, <3>2, <3>3
    <2>2. QED
      BY <1>2, <2>1 DEF JobInv, Bookkeeping, HarnessRuns
  <1>5. WorkingIsPumped'
    BY DEF JobInv, Ending, WorkingIsPumped, PumpOn
  <1>6. QED
    BY <1>1, <1>3, <1>4, <1>5

\* ... or it ends, when no harness runs.
LEMMA PumpStops ==
  ASSUME JobInv, JobsMove, pump' = NoPump, pump.running = 0 \/ pump.pc # "run",
         \A j \in Jobs : job'[j].status = "working" => job[j].status = "working",
         pump.pc # "idle" => job'[pump.job].status # "working"
  PROVE  /\ PumpOwns' /\ HarnessRuns' /\ WorkingIsPumped'
         /\ pump'.pc # "idle" => job'[pump'.job].status # "none"
  <1>1. PumpOwns' /\ pump'.pc = "idle"
    BY DEF PumpOwns, NoPump
  <1>2. local' = local /\ Locals' = Locals
    BY DEF JobsMove, Locals
  <1>3. HarnessRuns'
    <2>1. ASSUME NEW i \in Locals
          PROVE  local[i].pc \notin {"start", "bind", "poll"}
      <3>1. i # 0
        BY DEF JobInv, TypeOK, Locals
      <3>2. QED
        BY <3>1 DEF JobInv, Bookkeeping, HarnessRuns
    <2>2. QED
      BY <1>2, <2>1 DEF JobInv, Bookkeeping, HarnessRuns
  <1>4. WorkingIsPumped'
    BY DEF JobInv, Ending, WorkingIsPumped, PumpOn
  <1>5. QED
    BY <1>1, <1>3, <1>4

\* A cancel in progress goes on, or ends.
LEMMA OpStays ==
  ASSUME JobInv, JobsMove, op' \in {op, NoOp}
  PROVE  CancelConfirmed' /\ (op'.pc # "idle" => job'[op'.job].status # "none")
  <1>1. CancelConfirmed'
    BY MoveFacts, OpKept
  <1>2. op'.pc # "idle" => op.pc # "idle" /\ op' = op
    BY DEF NoOp
  <1>3. op.pc # "idle" => op.job \in Jobs /\ job[op.job].status # "none"
    BY DEF JobInv, TypeOK, OpRecord, Bookkeeping, Submitted
  <1>4. QED
    BY <1>1, <1>2, <1>3 DEF JobsMove

\* A remote job claims an end it did claim, or one of its remote tasks has.
LEMMA ClaimsStay ==
  ASSUME JobInv, Moves,
         \A j \in Jobs : job'[j].remote =>
            \A s \in Claims(j)' : (job[j].remote /\ s \in Claims(j)) \/ Ends(j, s)
  PROVE  ClaimsHold'
  <1>1. ASSUME NEW j \in Jobs, job'[j].remote, NEW s \in Claims(j)'
        PROVE  Ends(j, s)'
    <2>1. s \in {"completed", "cancelled"}
      BY DEF Claims
    <2>2. Ends(j, s)
      BY <1>1 DEF JobInv, Ending, ClaimsHold
    <2>3. QED
      BY <2>1, <2>2, NotedGrows
  <1>2. QED
    BY <1>1 DEF ClaimsHold

\* What is left to show of a step of the jobs.
LEMMA Moved ==
  ASSUME JobInv, JobsMove, Requests', Ids', TypeOK',
         \A n \in DOMAIN chain' : job'[chain'[n]].status # "none",
         PumpOwns', HarnessRuns', WorkingIsPumped',
         pump'.pc # "idle" => job'[pump'.job].status # "none",
         CancelConfirmed', op'.pc # "idle" => job'[op'.job].status # "none",
         ClaimsHold'
  PROVE  JobInv'
  <1>1. SavedAgrees' /\ TasksNoted' /\ Outcomes'
    BY LocalsStay DEF JobsMove
  <1>2. Submitted'
    <2>1. \A i \in Locals' : job'[local'[i].job].status # "none"
      BY LocalFacts, MoveFacts DEF JobsMove
    <2>2. \A j \in Jobs : job'[j].status = "none" => job'[j] = NewJob
      BY DEF JobsMove, JobInv, Bookkeeping, Submitted
    <2>3. \A j \in Jobs : saved'[j].status = "none" => saved'[j] = job'[j]
      BY DEF JobsMove
    <2>4. QED
      BY <2>1, <2>2, <2>3 DEF Submitted
  <1>3. QED
    BY <1>1, <1>2 DEF JobInv, Bookkeeping, Ending

LEMMA MoveOn ==
  ASSUME JobInv, JobsMoveOn, TypeOK',
         \A n \in DOMAIN chain' : job'[chain'[n]].status # "none",
         PumpOwns', HarnessRuns', WorkingIsPumped',
         pump'.pc # "idle" => job'[pump'.job].status # "none",
         CancelConfirmed', op'.pc # "idle" => job'[op'.job].status # "none",
         ClaimsHold'
  PROVE  JobInv'
  <1>1. RequestsKeep
    BY MoveFacts DEF JobsMoveOn, RequestsKeep
  <1>2. Requests' /\ Ids'
    BY <1>1, RequestsKept, IdsKept
  <1>3. QED
    BY <1>2, Moved DEF JobsMoveOn

LEMMA SaveFacts ==
  ASSUME JobInv, NEW j \in Jobs, NEW r \in JobRecord, SaveJob(j, r)
  PROVE  /\ job' \in [Jobs -> JobRecord] /\ saved' = job'
         /\ job'[j] = r /\ \A k \in Jobs \ {j} : job'[k] = job[k]
         /\ job[j] \in JobRecord
  BY DEF JobInv, TypeOK, SaveJob

LEMMA NewJobType == NewJob \in JobRecord
  BY DEF NewJob, JobRecord, JobStatus

LEMMA NoPumpType == NoPump \in PumpRecord /\ NoOp \in OpRecord
  BY DEF NoPump, PumpRecord, NoOp, OpRecord

LEMMA ChainGrows ==
  ASSUME JobInv, NEW j \in Jobs, chain' \in {chain, Append(chain, j)}
  PROVE  /\ chain' \in Seq(Jobs)
         /\ \A n \in DOMAIN chain' :
                chain'[n] = j \/ (n \in DOMAIN chain /\ chain'[n] = chain[n])
  <1>1. chain \in Seq(Jobs)
    BY DEF JobInv, TypeOK
  <1>2. CASE chain' = chain
    BY <1>1, <1>2
  <1>3. CASE chain' = Append(chain, j)
    <2>1. /\ chain' \in Seq(Jobs)
          /\ Len(chain') = Len(chain) + 1
          /\ \A n \in 1..Len(chain) + 1 :
                chain'[n] = IF n <= Len(chain) THEN chain[n] ELSE j
      BY <1>1, <1>3, AppendProperties
    <2>2. DOMAIN chain = 1..Len(chain) /\ DOMAIN chain' = 1..Len(chain) + 1
          /\ Len(chain) \in Nat
      BY <1>1, <2>1, LenProperties
    <2>3. QED
      BY <2>1, <2>2
  <1>4. QED
    BY <1>2, <1>3

\* A job is saved with another status, and whatever else does not matter to its requests.
LEMMA JobSaved ==
  ASSUME JobInv, NEW j \in Jobs, NEW r \in JobRecord, SaveJob(j, r),
         r.status \notin {"none", "working"}, r.req = job[j].req, r.tasks = job[j].tasks,
         job[j].status # "none" => r.remote = job[j].remote,
         r.rid = job[j].rid \/ (r.rid # 0 /\ NotedRemote(j, r.rid)),
         r.remote /\ r.status \in {"completed", "cancelled"} => Ends(j, r.status),
         local' = local, issued' = issued, NodeKeeps, node' \in [RequestIds -> NodeStatus],
         chain' \in {chain, Append(chain, j)}, op' \in {op, NoOp},
         \/ pump' = pump
         \/ pump' = NoPump /\ pump.job = j /\ (pump.pc = "run" => pump.running = 0)
  PROVE  JobInv'
  <1>1. /\ job' \in [Jobs -> JobRecord] /\ saved' = job'
        /\ job'[j] = r /\ \A k \in Jobs \ {j} : job'[k] = job[k]
    BY SaveFacts
  <1>2. JobsMove
    <2>1. SavedAgrees'
      BY <1>1 DEF SavedAgrees
    <2>2. QED
      BY <1>1, <2>1 DEF JobsMove
  <1>3. JobsMoveOn
    <2>1. \A k \in Jobs : /\ job'[k].req = job[k].req
                          /\ saved'[k].rid = 0 => saved[k].rid = 0
      BY <1>1 DEF JobInv, Bookkeeping, SavedAgrees
    <2>2. QED
      BY <1>2, <2>1 DEF JobsMoveOn
  <1>4. \A k \in Jobs : job'[k].status = "working" => job[k].status = "working" /\ k # j
    BY <1>1
  <1>5. /\ PumpOwns' /\ HarnessRuns' /\ WorkingIsPumped'
        /\ pump'.pc # "idle" => job'[pump'.job].status # "none"
    <2>1. CASE pump' = pump
      BY <2>1, <1>3, <1>4, PumpStays
    <2>2. CASE pump' = NoPump /\ pump.job = j /\ (pump.pc = "run" => pump.running = 0)
      BY <2>2, <1>2, <1>4, PumpStops
    <2>3. QED
      BY <2>1, <2>2
  <1>6. CancelConfirmed' /\ (op'.pc # "idle" => job'[op'.job].status # "none")
    BY <1>2, OpStays
  <1>7. ClaimsHold'
    <2>1. ASSUME NEW k \in Jobs, job'[k].remote, NEW s \in Claims(k)'
          PROVE  (job[k].remote /\ s \in Claims(k)) \/ Ends(k, s)
      BY <1>1, <2>1 DEF Claims
    <2>2. QED
      BY <1>2, <2>1, MoveFacts, ClaimsStay
  <1>8. chain' \in Seq(Jobs) /\ \A n \in DOMAIN chain' : job'[chain'[n]].status # "none"
    <2>1. /\ chain' \in Seq(Jobs)
          /\ \A n \in DOMAIN chain' : chain'[n] = j \/ (n \in DOMAIN chain /\ chain'[n] = chain[n])
      BY ChainGrows
    <2>2. \A n \in DOMAIN chain : chain[n] \in Jobs /\ job[chain[n]].status # "none"
      BY DEF JobInv, TypeOK, Bookkeeping, Submitted
    <2>3. QED
      BY <1>1, <1>2, <2>1, <2>2 DEF JobsMove
  <1>9. TypeOK'
    <2>1. pump' \in PumpRecord /\ op' \in OpRecord /\ local' \in Seq(LocalRecord)
          /\ issued' \in Nat
      BY NoPumpType DEF JobInv, TypeOK
    <2>2. QED
      BY <1>1, <1>8, <2>1 DEF TypeOK
  <1>10. QED
    BY <1>3, <1>5, <1>6, <1>7, <1>8, <1>9, MoveOn

LEMMA NodeStays ==
  ASSUME JobInv, node' = node
  PROVE  NodeKeeps /\ node' \in [RequestIds -> NodeStatus]
  BY DEF JobInv, TypeOK, NodeKeeps, Unsettled

-----------------------------------------------------------------------------
(* Operations of the operator, and failures of the pump *)

LEMMA SubmitJobStep ==
  ASSUME JobInv, NEW j \in Jobs, SubmitJob(j)
  PROVE  JobInv'
  <1>1. PICK remote \in BOOLEAN, later \in BOOLEAN, deferred \in BOOLEAN :
            /\ SaveJob(j, [NewJob EXCEPT !.status = "queued", !.remote = remote, !.due = ~later])
            /\ chain' = IF deferred THEN chain ELSE Append(chain, j)
    BY DEF SubmitJob
  <1> DEFINE r == [NewJob EXCEPT !.status = "queued", !.remote = remote, !.due = ~later]
  <1>2. job[j] = NewJob /\ job[j].status = "none"
    BY DEF SubmitJob, JobInv, Bookkeeping, Submitted
  <1>3. /\ r \in JobRecord /\ r.status = "queued" /\ r.req = job[j].req
        /\ r.tasks = job[j].tasks /\ r.rid = job[j].rid
    BY <1>2, NewJobType DEF JobRecord, JobStatus, NewJob
  <1>4. NodeKeeps /\ node' \in [RequestIds -> NodeStatus]
    BY NodeStays DEF SubmitJob
  <1>5. /\ chain' \in {chain, Append(chain, j)} /\ op' = op /\ pump' = pump
        /\ local' = local /\ issued' = issued
    BY <1>1 DEF SubmitJob
  <1>6. SaveJob(j, r)
    BY <1>1
  <1>7. QED
    <2> HIDE DEF r
    <2>1. QED
      BY <1>2, <1>3, <1>4, <1>5, <1>6, JobSaved

\* A record with another status.
LEMMA StatusFacts ==
  ASSUME JobInv, NEW j \in Jobs, NEW s \in JobStatus
  PROVE  /\ SetStatus(j, s) \in JobRecord /\ SetStatus(j, s).status = s
         /\ SetStatus(j, s).req = job[j].req /\ SetStatus(j, s).rid = job[j].rid
         /\ SetStatus(j, s).tasks = job[j].tasks /\ SetStatus(j, s).remote = job[j].remote
  BY DEF JobInv, TypeOK, JobRecord, SetStatus

LEMMA StatusSaved ==
  ASSUME JobInv, NEW j \in Jobs, NEW s \in {"needs_attention", "cancelled", "failed"},
         SaveJob(j, SetStatus(j, s)), job[j].remote /\ s = "cancelled" => Ends(j, "cancelled"),
         UNCHANGED <<chain, pump, local, issued>>, op' \in {op, NoOp},
         NodeKeeps, node' \in [RequestIds -> NodeStatus]
  PROVE  JobInv'
  <1>1. s \in JobStatus /\ s \notin {"none", "working", "completed"}
    BY DEF JobStatus
  <1> DEFINE r == SetStatus(j, s)
  <1>2. /\ r \in JobRecord /\ r.status = s /\ r.req = job[j].req /\ r.rid = job[j].rid
        /\ r.tasks = job[j].tasks /\ r.remote = job[j].remote
    BY <1>1, StatusFacts
  <1>3. SaveJob(j, r)
    OBVIOUS
  <1> HIDE DEF r
  <1>4. r.remote /\ r.status \in {"completed", "cancelled"} => Ends(j, r.status)
    BY <1>1, <1>2
  <1>5. chain' \in {chain, Append(chain, j)}
    OBVIOUS
  <1>6. QED
    BY <1>1, <1>2, <1>3, <1>4, <1>5, JobSaved

LEMMA DismissStep ==
  ASSUME JobInv, NEW j \in Jobs, Dismiss(j)
  PROVE  JobInv'
  BY NodeStays, StatusSaved DEF Dismiss

LEMMA CancelSetStep ==
  ASSUME JobInv, CancelSet
  PROVE  JobInv'
  <1>1. /\ op.pc = "set" /\ op.job \in Jobs
        /\ job[op.job].remote => Ends(op.job, "cancelled")
    BY DEF CancelSet, JobInv, TypeOK, OpRecord, Ending, CancelConfirmed
  <1>2. QED
    BY <1>1, NodeStays, StatusSaved DEF CancelSet

LEMMA PauseStep ==
  ASSUME JobInv, NEW j \in Jobs, Pause(j)
  PROVE  JobInv'
  <1> DEFINE r == [job[j] EXCEPT !.status = "waiting", !.due = FALSE]
  <1>1. /\ r \in JobRecord /\ r.status = "waiting" /\ r.req = job[j].req /\ r.rid = job[j].rid
        /\ r.tasks = job[j].tasks /\ r.remote = job[j].remote
    BY ZenonT(40) DEF JobInv, TypeOK, JobRecord, JobStatus
  <1>2. SaveJob(j, r) /\ UNCHANGED <<chain, pump, local, node, op, issued>>
    BY DEF Pause
  <1> HIDE DEF r
  <1>3. QED
    BY <1>1, <1>2, NodeStays, JobSaved

LEMMA ResumeStep ==
  ASSUME JobInv, NEW j \in Jobs, Resume(j)
  PROVE  JobInv'
  <1> DEFINE attention == job[j].status = "needs_attention"
             r == [job[j] EXCEPT !.status = "queued", !.due = TRUE, !.reconnects = 0,
                                 !.attempt = IF attention THEN 0 ELSE @,
                                 !.repeats = IF attention THEN -1 ELSE @,
                                 !.skip = ~attention]
  <1>1. /\ r \in JobRecord /\ r.status = "queued" /\ r.req = job[j].req /\ r.rid = job[j].rid
        /\ r.tasks = job[j].tasks /\ r.remote = job[j].remote
    <2>1. job[j] \in JobRecord
      BY DEF JobInv, TypeOK
    <2>2. /\ (IF attention THEN 0 ELSE job[j].attempt) \in Nat
          /\ (IF attention THEN -1 ELSE job[j].repeats) \in Int
          /\ (~attention) \in BOOLEAN
      BY <2>1 DEF JobRecord
    <2> HIDE DEF attention
    <2>3. QED
      BY <2>1, <2>2 DEF JobRecord, JobStatus
  <1>2. SaveJob(j, r) /\ chain' = Append(chain, j) /\ UNCHANGED <<pump, local, node, op, issued>>
    BY DEF Resume
  <1> HIDE DEF r
  <1>3. QED
    BY <1>1, <1>2, NodeStays, JobSaved

LEMMA PumpThrowsStep ==
  ASSUME JobInv, PumpThrows
  PROVE  JobInv'
  <1> DEFINE j == pump.job
             again == [job[j] EXCEPT !.attempt = @ + 1, !.status = "waiting", !.due = FALSE]
             stopped == [job[j] EXCEPT !.status = "needs_attention", !.reconnects = 0]
  <1>1. j \in Jobs /\ (pump.pc = "run" => pump.running = 0)
    BY DEF PumpThrows, JobInv, TypeOK, PumpRecord
  <1>2. job[j] \in JobRecord
    BY <1>1 DEF JobInv, TypeOK
  <1>3. /\ again \in JobRecord /\ again.status = "waiting" /\ again.req = job[j].req
        /\ again.rid = job[j].rid /\ again.tasks = job[j].tasks /\ again.remote = job[j].remote
    <2>1. job[j].attempt + 1 \in Nat
      BY <1>2 DEF JobRecord
    <2>2. QED
      BY <1>2, <2>1 DEF JobRecord, JobStatus
  <1>4. /\ stopped \in JobRecord /\ stopped.status = "needs_attention"
        /\ stopped.req = job[j].req /\ stopped.rid = job[j].rid
        /\ stopped.tasks = job[j].tasks /\ stopped.remote = job[j].remote
    BY <1>2 DEF JobRecord, JobStatus
  <1>5. SaveJob(j, again) \/ SaveJob(j, stopped)
    BY DEF PumpThrows
  <1>6. PICK r \in {again, stopped} : SaveJob(j, r)
    BY <1>5
  <1>7. /\ r \in JobRecord /\ r.status \in {"waiting", "needs_attention"}
        /\ r.req = job[j].req /\ r.rid = job[j].rid
        /\ r.tasks = job[j].tasks /\ r.remote = job[j].remote
    BY <1>3, <1>4, <1>6
  <1>8. pump' = NoPump /\ UNCHANGED <<chain, local, node, op, issued>>
    BY DEF PumpThrows, PumpEnds
  <1>9. pump.job = j
    OBVIOUS
  <1> HIDE DEF j, again, stopped
  <1>10. QED
    BY <1>1, <1>6, <1>7, <1>8, <1>9, NodeStays, JobSaved

\* The jobs, their file and the local tasks stay as they are.
LEMMA JobsStay ==
  ASSUME JobInv, UNCHANGED <<job, saved, local, issued>>, NodeKeeps
  PROVE  /\ JobsMove /\ JobsMoveOn /\ ClaimsHold'
         /\ \A j \in Jobs : job'[j].status = "working" => job[j].status = "working"
  <1>1. SavedAgrees'
    BY DEF JobInv, Bookkeeping, SavedAgrees
  <1>2. JobsMove
    BY <1>1 DEF JobsMove, JobInv, Bookkeeping, Submitted
  <1>3. JobsMoveOn
    BY <1>2 DEF JobsMoveOn
  <1>4. ASSUME NEW j \in Jobs, job'[j].remote, NEW s \in Claims(j)'
        PROVE  (job[j].remote /\ s \in Claims(j)) \/ Ends(j, s)
    BY <1>4 DEF Claims
  <1>5. ClaimsHold'
    BY <1>2, <1>4, MoveFacts, ClaimsStay
  <1>6. QED
    BY <1>2, <1>3, <1>5

LEMMA ChainStays ==
  ASSUME JobInv, JobsMove, chain' = chain
  PROVE  chain' \in Seq(Jobs) /\ \A n \in DOMAIN chain' : job'[chain'[n]].status # "none"
  BY DEF JobInv, TypeOK, Bookkeeping, Submitted, JobsMove

\* The remote task that cancel() finds is one that is noted in the job.
LEMMA LatestIsNoted ==
  ASSUME JobInv, NEW j \in Jobs, LatestRemote(j) # 0
  PROVE  NotedRemote(j, LatestRemote(j)) /\ LatestRemote(j) \in RequestIds
  <1>1. NotedRemote(j, LatestRemote(j))
    <2>1. CASE job[j].rid # 0
      BY <2>1 DEF LatestRemote, JobInv, Requests, BoundAccepted
    <2>2. CASE job[j].rid = 0
      <3> DEFINE bound == {i \in job[j].tasks : local[i].rid # 0}
                 first == CHOOSE i \in bound : \A k \in bound : i <= k
      <3>1. bound # {} /\ LatestRemote(j) = local[first].rid
        BY <2>2 DEF LatestRemote
      <3>2. Len(local) \in Nat /\ bound \in SUBSET (1..Len(local))
        BY DEF JobInv, TypeOK, Bookkeeping, TasksNoted, Locals
      <3>3. \E i \in bound : \A k \in bound : i <= k
        <4> HIDE DEF bound
        <4>1. QED
          BY <3>1, <3>2, Least
      <3>4. first \in bound
        BY <3>3
      <3>5. QED
        BY <3>1, <3>4 DEF NotedRemote, Noted
    <2>3. QED
      BY <2>1, <2>2
  <1>2. QED
    BY <1>1, NotedFacts, AcceptedFacts DEF NotedRemote

LEMMA CancelStarts ==
  ASSUME JobInv, NEW j \in Jobs, Cancel(j), job[j].remote, LatestRemote(j) # 0,
         job' = [job EXCEPT ![j].rid = LatestRemote(j)],
         op' = [pc |-> "remote", job |-> j, rid |-> LatestRemote(j), tasks |-> {}],
         saved' = saved
  PROVE  JobInv'
  <1> DEFINE q == LatestRemote(j)
  <1>1. q \in RequestIds /\ q \in Nat /\ q # 0 /\ NotedRemote(j, q)
    BY LatestIsNoted, JobAssumption DEF RequestIds
  <1>2. job[j].rid # 0 => q = job[j].rid
    BY DEF LatestRemote
  <1>3. job[j] \in JobRecord /\ [job[j] EXCEPT !.rid = q] \in JobRecord
    BY <1>1 DEF JobInv, TypeOK, JobRecord
  <1> HIDE DEF q
  <1>4. /\ job' \in [Jobs -> JobRecord]
        /\ job'[j].rid = q /\ job'[j].status = job[j].status /\ job'[j].remote = job[j].remote
        /\ job'[j].req = job[j].req /\ job'[j].tasks = job[j].tasks
        /\ \A k \in Jobs \ {j} : job'[k] = job[k]
    BY <1>3 DEF JobInv, TypeOK, JobRecord, q
  <1>5. job[j].status # "none"
    BY DEF Cancel
  <1>6. SavedAgrees'
    <2>1. saved'[j].rid \in {0, job'[j].rid}
      BY <1>2, <1>4 DEF JobInv, Bookkeeping, SavedAgrees
    <2>2. QED
      BY <1>4, <2>1 DEF JobInv, Bookkeeping, SavedAgrees
  <1>7. NodeKeeps /\ node' \in [RequestIds -> NodeStatus] /\ UNCHANGED <<local, issued, pump, chain>>
    BY NodeStays DEF Cancel
  <1>8. JobsMove
    <2>1. \A k \in Jobs : saved'[k].status = "none" => saved'[k] = job'[k]
      BY <1>4, <1>5 DEF JobInv, Bookkeeping, Submitted
    <2>2. QED
      BY <1>1, <1>4, <1>5, <1>6, <1>7, <2>1 DEF JobsMove
  <1>9. JobsMoveOn
    BY <1>4, <1>7, <1>8 DEF JobsMoveOn
  <1>10. \A k \in Jobs : job'[k].status = job[k].status
    BY <1>4
  <1>11. /\ PumpOwns' /\ HarnessRuns' /\ WorkingIsPumped'
         /\ pump'.pc # "idle" => job'[pump'.job].status # "none"
    BY <1>7, <1>9, <1>10, PumpStays
  <1>12. CancelConfirmed'
    <2>1. PICK k \in Noted(j) : local[k].rid = q
      BY <1>1 DEF NotedRemote
    <2>2. k \in Noted(j)' /\ local'[k].rid = q
      BY <1>7, <1>8, <2>1, MoveFacts
    <2>3. /\ op'.pc = "remote" /\ op'.job = j /\ op'.rid = q /\ op'.tasks = {}
          /\ job'[j].remote
      BY <1>4 DEF q
    <2>4. QED
      BY <2>2, <2>3 DEF CancelConfirmed, NotedRemote
  <1>13. op'.pc # "idle" => job'[op'.job].status # "none"
    BY <1>5, <1>10
  <1>14. ClaimsHold'
    <2>1. ASSUME NEW k \in Jobs, job'[k].remote, NEW s \in Claims(k)'
          PROVE  (job[k].remote /\ s \in Claims(k)) \/ Ends(k, s)
      BY <1>4, <2>1 DEF Claims
    <2>2. QED
      BY <1>8, <2>1, MoveFacts, ClaimsStay
  <1>15. TypeOK'
    <2>1. op' \in OpRecord
      BY <1>1 DEF OpRecord, q
    <2>2. QED
      BY <1>4, <1>7, <2>1 DEF JobInv, TypeOK
  <1>16. QED
    BY <1>7, <1>8, <1>9, <1>11, <1>12, <1>13, <1>14, <1>15, ChainStays, MoveOn

LEMMA CancelJobStep ==
  ASSUME JobInv, NEW j \in Jobs, Cancel(j)
  PROVE  JobInv'
  <1>1. job[j].status # "none" /\ UNCHANGED <<chain, pump, local, node, issued>>
    BY DEF Cancel
  <1>2. CASE SaveJob(j, SetStatus(j, "needs_attention")) /\ op' = op
    BY <1>1, <1>2, NodeStays, StatusSaved
  <1>3. CASE /\ job[j].remote /\ LatestRemote(j) # 0
             /\ job' = [job EXCEPT ![j].rid = LatestRemote(j)]
             /\ op' = [pc |-> "remote", job |-> j, rid |-> LatestRemote(j), tasks |-> {}]
             /\ saved' = saved
    BY <1>3, CancelStarts
  <1>4. CASE /\ ~job[j].remote
             /\ op' = [pc |-> "locals", job |-> j, rid |-> 0, tasks |-> job[j].tasks]
             /\ job' = job /\ saved' = saved
    <2>1. /\ JobsMove /\ JobsMoveOn /\ ClaimsHold'
          /\ \A k \in Jobs : job'[k].status = "working" => job[k].status = "working"
      BY <1>1, <1>4, NodeStays, JobsStay
    <2>2. /\ PumpOwns' /\ HarnessRuns' /\ WorkingIsPumped'
          /\ pump'.pc # "idle" => job'[pump'.job].status # "none"
      BY <1>1, <2>1, PumpStays
    <2>3. CancelConfirmed' /\ (op'.pc # "idle" => job'[op'.job].status # "none")
      BY <1>1, <1>4 DEF CancelConfirmed
    <2>4. TypeOK'
      <3>1. op' \in OpRecord
        BY <1>4 DEF OpRecord, JobInv, TypeOK, JobRecord
      <3>2. QED
        BY <1>1, <1>4, <3>1 DEF JobInv, TypeOK
    <2>5. QED
      BY <1>1, <2>1, <2>2, <2>3, <2>4, ChainStays, MoveOn
  <1>5. QED
    BY <1>2, <1>3, <1>4 DEF Cancel

LEMMA CancelRemoteStep ==
  ASSUME JobInv, CancelRemote
  PROVE  JobInv'
  <1>1. op.job \in Jobs
    BY DEF CancelRemote, JobInv, TypeOK, OpRecord
  <1>2. PICK j \in Jobs, q \in {op.rid} : j = op.job /\ q = op.rid
    BY <1>1
  <1>3. j \in Jobs /\ job[j].remote /\ NotedRemote(j, q) /\ job[j].status # "none"
    BY <1>2 DEF CancelRemote, JobInv, Bookkeeping, Submitted, Ending, CancelConfirmed
  <1>4. PICK k \in Noted(j) : local[k].rid = q
    BY <1>3 DEF NotedRemote
  <1>5. q \in RequestIds
    BY <1>3, <1>4, NotedFacts, AcceptedFacts
  <1>6. UNCHANGED <<chain, pump, local, issued>>
    BY DEF CancelRemote
  <1>7. ASSUME node[q] \in {"live", "cancelled"}, node' = [node EXCEPT ![q] = "cancelled"]
        PROVE  NodeKeeps /\ node' \in [RequestIds -> NodeStatus] /\ node'[q] = "cancelled"
    <2>1. /\ node' \in [RequestIds -> NodeStatus] /\ node'[q] = "cancelled"
          /\ \A p \in RequestIds \ {q} : node'[p] = node[p]
      BY <1>5, <1>7 DEF JobInv, TypeOK, NodeStatus
    <2>2. QED
      BY <1>7, <2>1 DEF NodeKeeps, Unsettled
  <1>8. CASE /\ node[q] \in {"live", "cancelled"} /\ node' = [node EXCEPT ![q] = "cancelled"]
             /\ op' = [op EXCEPT !.pc = "locals", !.tasks = job[j].tasks]
             /\ job' = job /\ saved' = saved
    <2>1. NodeKeeps /\ node' \in [RequestIds -> NodeStatus] /\ node'[q] = "cancelled"
      BY <1>7, <1>8
    <2>2. /\ JobsMove /\ JobsMoveOn /\ ClaimsHold'
          /\ \A m \in Jobs : job'[m].status = "working" => job[m].status = "working"
      BY <1>6, <1>8, <2>1, JobsStay
    <2>3. /\ PumpOwns' /\ HarnessRuns' /\ WorkingIsPumped'
          /\ pump'.pc # "idle" => job'[pump'.job].status # "none"
      BY <1>6, <2>2, PumpStays
    <2>4. /\ op' \in OpRecord /\ op'.pc = "locals" /\ op'.job = j
          /\ op'.tasks = job'[j].tasks
      BY <1>2, <1>3, <1>8 DEF OpRecord, JobInv, TypeOK, JobRecord
    <2>5. Ends(j, "cancelled")'
      <3>1. k \in Noted(j)' /\ node'[local'[k].rid] = "cancelled"
        BY <1>4, <1>6, <2>1, <2>2, MoveFacts
      <3>2. QED
        BY <3>1 DEF Ends
    <2>6. CancelConfirmed' /\ (op'.pc # "idle" => job'[op'.job].status # "none")
      <3>1. QED
        BY <1>3, <1>8, <2>4, <2>5 DEF CancelConfirmed
    <2>7. TypeOK'
      BY <1>6, <1>8, <2>1, <2>4 DEF JobInv, TypeOK
    <2>8. QED
      BY <1>6, <2>2, <2>3, <2>6, <2>7, ChainStays, MoveOn
  <1>9. CASE /\ \/ node' = node
                \/ node[q] = "live" /\ node' = [node EXCEPT ![q] = "cancelled"]
             /\ SaveJob(j, SetStatus(j, "needs_attention"))
             /\ op' = NoOp
    <2>1. NodeKeeps /\ node' \in [RequestIds -> NodeStatus]
      BY <1>7, <1>9, NodeStays
    <2>2. QED
      BY <1>3, <1>6, <1>9, <2>1, StatusSaved
  <1>10. QED
    BY <1>2, <1>8, <1>9 DEF CancelRemote

-----------------------------------------------------------------------------
(* Time, the chief loop and the pump between two tasks *)

LEMMA ComesDueStep ==
  ASSUME JobInv, NEW j \in Jobs, ComesDue(j)
  PROVE  JobInv'
  <1>1. /\ job' = [job EXCEPT ![j] = [job[j] EXCEPT !.due = TRUE]]
        /\ saved' = [saved EXCEPT ![j] = [saved[j] EXCEPT !.due = TRUE]]
        /\ UNCHANGED <<chain, pump, local, node, op, issued>>
    BY DEF ComesDue
  <1>2. job[j] \in JobRecord /\ saved[j] \in JobRecord
    BY DEF JobInv, TypeOK
  <1>3. [job[j] EXCEPT !.due = TRUE] \in JobRecord /\ [saved[j] EXCEPT !.due = TRUE] \in JobRecord
    BY <1>2 DEF JobRecord
  <1>4. job' \in [Jobs -> JobRecord] /\ saved' \in [Jobs -> JobRecord]
    BY <1>1, <1>3 DEF JobInv, TypeOK
  <1>5. \A k \in Jobs :
            /\ job'[k].status = job[k].status /\ job'[k].remote = job[k].remote
            /\ job'[k].req = job[k].req /\ job'[k].rid = job[k].rid
            /\ job'[k].tasks = job[k].tasks
            /\ saved'[k].status = saved[k].status /\ saved'[k].remote = saved[k].remote
            /\ saved'[k].req = saved[k].req /\ saved'[k].rid = saved[k].rid
            /\ saved'[k].tasks = saved[k].tasks
            /\ k # j => job'[k] = job[k] /\ saved'[k] = saved[k]
    BY <1>1, <1>2 DEF JobInv, TypeOK, JobRecord
  <1>6. job[j].status # "none"
    BY DEF ComesDue, JobInv, Bookkeeping, Submitted, NewJob
  <1>7. NodeKeeps /\ node' \in [RequestIds -> NodeStatus]
    BY <1>1, NodeStays
  <1>8. JobsMove
    <2>1. SavedAgrees'
      BY <1>5 DEF JobInv, Bookkeeping, SavedAgrees
    <2>2. \A k \in Jobs : saved'[k].status = "none" => saved'[k] = job'[k]
      BY <1>5, <1>6 DEF JobInv, Bookkeeping, Submitted
    <2>3. QED
      BY <1>1, <1>5, <1>6, <1>7, <2>1, <2>2, ZenonT(40) DEF JobsMove
  <1>9. JobsMoveOn
    BY <1>1, <1>5, <1>8 DEF JobsMoveOn
  <1>10. /\ PumpOwns' /\ HarnessRuns' /\ WorkingIsPumped'
         /\ pump'.pc # "idle" => job'[pump'.job].status # "none"
    BY <1>1, <1>5, <1>9, PumpStays
  <1>11. CancelConfirmed' /\ (op'.pc # "idle" => job'[op'.job].status # "none")
    BY <1>1, <1>8, OpStays
  <1>12. ClaimsHold'
    <2>1. ASSUME NEW k \in Jobs, job'[k].remote, NEW s \in Claims(k)'
          PROVE  (job[k].remote /\ s \in Claims(k)) \/ Ends(k, s)
      BY <1>5, <2>1 DEF Claims
    <2>2. QED
      BY <1>8, <2>1, MoveFacts, ClaimsStay
  <1>13. TypeOK'
    BY <1>1, <1>4 DEF JobInv, TypeOK
  <1>14. QED
    BY <1>1, <1>8, <1>9, <1>10, <1>11, <1>12, <1>13, ChainStays, MoveOn

\* Another step of the pump, between two tasks.
LEMMA PumpMoves ==
  ASSUME JobInv, UNCHANGED <<job, local, node, op, issued>>,
         saved' \in {saved, job}, pump' \in PumpRecord, chain' \in Seq(Jobs),
         \A n \in DOMAIN chain' : job[chain'[n]].status # "none",
         PumpOwns', HarnessRuns', WorkingIsPumped',
         pump'.pc # "idle" => job[pump'.job].status # "none"
  PROVE  JobInv'
  <1>1. NodeKeeps
    BY NodeStays
  <1>2. SavedAgrees' /\ \A k \in Jobs : /\ saved'[k].status = "none" => saved'[k] = job'[k]
                                        /\ saved'[k].rid = 0 => saved[k].rid = 0
    BY DEF JobInv, Bookkeeping, SavedAgrees, Submitted
  <1>3. JobsMove
    BY <1>1, <1>2 DEF JobsMove, JobInv, Bookkeeping, Submitted
  <1>4. JobsMoveOn
    BY <1>2, <1>3 DEF JobsMoveOn
  <1>5. CancelConfirmed' /\ (op'.pc # "idle" => job'[op'.job].status # "none")
    BY <1>3, OpStays
  <1>6. ClaimsHold'
    <2>1. ASSUME NEW k \in Jobs, job'[k].remote, NEW s \in Claims(k)'
          PROVE  (job[k].remote /\ s \in Claims(k)) \/ Ends(k, s)
      BY <2>1 DEF Claims
    <2>2. QED
      BY <1>3, <2>1, MoveFacts, ClaimsStay
  <1>7. TypeOK'
    BY DEF JobInv, TypeOK
  <1>8. QED
    BY <1>4, <1>5, <1>6, <1>7, MoveOn

LEMMA PumpStartsStep ==
  ASSUME JobInv, PumpStarts
  PROVE  JobInv'
  <1> DEFINE j == Head(chain)
             p == [NoPump EXCEPT !.pc = "prepare", !.job = j]
  <1>1. chain \in Seq(Jobs) /\ chain # <<>> /\ chain' = Tail(chain) /\ pump.pc = "idle"
    BY DEF PumpStarts, JobInv, TypeOK
  <1>2. j \in Jobs /\ j = chain[1] /\ 1 \in DOMAIN chain
    BY <1>1, HeadTailProperties, LenProperties
  <1>3. chain' \in Seq(Jobs) /\ \A n \in DOMAIN chain' : n + 1 \in DOMAIN chain /\ chain'[n] = chain[n + 1]
    <2>1. /\ chain' \in Seq(Jobs) /\ Len(chain') = Len(chain) - 1
          /\ \A n \in 1..Len(chain') : chain'[n] = chain[n + 1]
      BY <1>1, HeadTailProperties
    <2>2. DOMAIN chain = 1..Len(chain) /\ DOMAIN chain' = 1..Len(chain') /\ Len(chain) \in Nat
      BY <1>1, <2>1, LenProperties
    <2>3. QED
      BY <2>1, <2>2
  <1>4. \A n \in DOMAIN chain : job[chain[n]].status # "none"
    BY DEF JobInv, Bookkeeping, Submitted
  <1>5. /\ pump' \in {NoPump, p} /\ issued < MaxRequests
        /\ UNCHANGED <<job, saved, local, node, op, issued>>
    BY DEF PumpStarts
  <1> HIDE DEF j
  <1>6. p \in PumpRecord /\ p.pc = "prepare" /\ p.job = j
    BY <1>2, NoPumpType DEF PumpRecord, NoPump
  <1> HIDE DEF p
  <1>7. pump'.pc \in {"idle", "prepare"} /\ pump' \in PumpRecord
        /\ (pump'.pc # "idle" => job[pump'.job].status # "none")
    BY <1>2, <1>4, <1>5, <1>6, NoPumpType DEF NoPump
  <1>8. PumpOwns'
    BY <1>5, <1>7 DEF PumpOwns
  <1>9. HarnessRuns'
    <2>1. \A i \in Locals : local[i].pc \notin {"start", "bind", "poll"}
      BY <1>1 DEF JobInv, Bookkeeping, HarnessRuns
    <2>2. QED
      BY <1>5, <2>1 DEF JobInv, Bookkeeping, HarnessRuns, Locals
  <1>10. WorkingIsPumped'
    BY <1>1, <1>5 DEF JobInv, Ending, WorkingIsPumped, PumpOn
  <1>11. QED
    BY <1>3, <1>4, <1>5, <1>7, <1>8, <1>9, <1>10, PumpMoves

LEMMA PumpResumesStep ==
  ASSUME JobInv, PumpResumes
  PROVE  JobInv'
  <1>1. /\ pump.pc = "run" /\ pump.running # 0 /\ local[pump.running].pc = "over"
        /\ pump' = [pump EXCEPT !.running = 0]
        /\ UNCHANGED <<job, saved, chain, local, node, op, issued>>
    BY DEF PumpResumes
  <1>2. /\ pump' \in PumpRecord /\ pump'.pc = pump.pc /\ pump'.job = pump.job
        /\ pump'.local = pump.local /\ pump'.running = 0
    BY <1>1 DEF JobInv, TypeOK, PumpRecord
  <1>3. PumpOwns'
    <2>1. pump.local \in Locals
      BY <1>1 DEF JobInv, Bookkeeping, PumpOwns
    <2>2. local[pump.local].status # "running"
      <3>1. local[pump.local].status = "running" => pump.running = pump.local
        BY <1>1 DEF JobInv, Bookkeeping, PumpOwns
      <3>2. QED
        BY <1>1, <2>1, <3>1 DEF JobInv, Bookkeeping, HarnessRuns
    <2>3. QED
      BY <1>1, <1>2, <2>2 DEF JobInv, Bookkeeping, PumpOwns, Locals
  <1>4. HarnessRuns'
    <2>1. \A i \in Locals : local[i].pc \notin {"start", "bind", "poll"}
      BY <1>1 DEF JobInv, Bookkeeping, HarnessRuns
    <2>2. QED
      BY <1>1, <2>1 DEF JobInv, Bookkeeping, HarnessRuns, Locals
  <1>5. WorkingIsPumped'
    BY <1>1, <1>2 DEF JobInv, Ending, WorkingIsPumped, PumpOn
  <1>6. /\ chain' \in Seq(Jobs) /\ \A n \in DOMAIN chain' : job[chain'[n]].status # "none"
        /\ pump'.pc # "idle" => job[pump'.job].status # "none"
    BY <1>1, <1>2 DEF JobInv, TypeOK, Bookkeeping, Submitted
  <1>7. QED
    BY <1>1, <1>2, <1>3, <1>4, <1>5, <1>6, PumpMoves

LEMMA AggregatedStep ==
  ASSUME JobInv, Aggregated
  PROVE  JobInv'
  <1>1. /\ pump.pc = "aggregate" /\ saved' = job /\ pump' = NoPump
        /\ UNCHANGED <<job, chain, local, node, op, issued>>
    BY DEF Aggregated, PumpEnds
  <1>2. pump' \in PumpRecord /\ pump'.pc = "idle"
    BY <1>1, NoPumpType DEF NoPump
  <1>3. PumpOwns'
    BY <1>2 DEF PumpOwns
  <1>4. HarnessRuns'
    <2>1. \A i \in Locals : local[i].pc \notin {"start", "bind", "poll"}
      BY <1>1 DEF JobInv, Bookkeeping, HarnessRuns
    <2>2. QED
      BY <1>1, <2>1 DEF JobInv, Bookkeeping, HarnessRuns, Locals
  <1>5. WorkingIsPumped'
    BY <1>1, <1>2 DEF JobInv, Ending, WorkingIsPumped, PumpOn, Bookkeeping, PumpOwns
  <1>6. chain' \in Seq(Jobs) /\ \A n \in DOMAIN chain' : job[chain'[n]].status # "none"
    BY <1>1 DEF JobInv, TypeOK, Bookkeeping, Submitted
  <1>7. QED
    BY <1>1, <1>2, <1>3, <1>4, <1>5, <1>6, PumpMoves

LEMMA NodeEndsStep ==
  ASSUME JobInv, NEW q \in RequestIds, NodeEnds(q)
  PROVE  JobInv'
  <1>1. /\ node[q] = "live" /\ UNCHANGED <<job, saved, chain, pump, op, issued, local>>
    BY DEF NodeEnds, desktop
  <1>2. PICK s \in {"completed", "failed"} : node' = [node EXCEPT ![q] = s]
    BY DEF NodeEnds
  <1>3. /\ node' \in [RequestIds -> NodeStatus] /\ node'[q] = s
        /\ \A p \in RequestIds \ {q} : node'[p] = node[p]
    BY <1>2 DEF JobInv, TypeOK, NodeStatus
  <1>4. NodeKeeps
    BY <1>1, <1>3 DEF NodeKeeps, Unsettled
  <1>5. /\ JobsMove /\ JobsMoveOn /\ ClaimsHold'
        /\ \A j \in Jobs : job'[j].status = "working" => job[j].status = "working"
    BY <1>1, <1>4, JobsStay
  <1>6. /\ PumpOwns' /\ HarnessRuns' /\ WorkingIsPumped'
        /\ pump'.pc # "idle" => job'[pump'.job].status # "none"
    BY <1>1, <1>5, PumpStays
  <1>7. CancelConfirmed' /\ (op'.pc # "idle" => job'[op'.job].status # "none")
    BY <1>1, <1>5, OpStays
  <1>8. TypeOK'
    BY <1>1, <1>3 DEF JobInv, TypeOK
  <1>9. QED
    BY <1>1, <1>5, <1>6, <1>7, <1>8, ChainStays, MoveOn

LEMMA WakeDueJobsStep ==
  ASSUME JobInv, WakeDueJobs
  PROVE  JobInv'
  <1>1. /\ job' = [j \in Jobs |->
                IF j \in DueJobs /\ job[j].status = "waiting"
                THEN [job[j] EXCEPT !.status = "queued", !.skip = TRUE] ELSE job[j]]
        /\ saved' = job' /\ chain' = chain \o SetToSeq(DueJobs)
        /\ UNCHANGED <<pump, local, node, op, issued>>
    BY DEF WakeDueJobs
  <1>2. \A j \in Jobs : job[j] \in JobRecord
    BY DEF JobInv, TypeOK
  <1>3. ASSUME NEW j \in Jobs
        PROVE  /\ job'[j] \in JobRecord /\ job'[j].status \in {job[j].status, "queued"}
               /\ job'[j].status # "none" => job[j].status # "none"
               /\ job'[j].remote = job[j].remote /\ job'[j].req = job[j].req
               /\ job'[j].rid = job[j].rid /\ job'[j].tasks = job[j].tasks
               /\ job'[j].status = "none" => job'[j] = job[j]
    <2>1. CASE j \in DueJobs /\ job[j].status = "waiting"
      <3>1. job'[j] = [job[j] EXCEPT !.status = "queued", !.skip = TRUE]
        BY <1>1, <2>1
      <3>2. QED
        BY <1>2, <2>1, <3>1 DEF JobRecord, JobStatus
    <2>2. CASE ~(j \in DueJobs /\ job[j].status = "waiting")
      <3>1. job'[j] = job[j]
        BY <1>1, <2>2
      <3>2. QED
        BY <1>2, <3>1
    <2>3. QED
      BY <2>1, <2>2
  <1>4. job' \in [Jobs -> JobRecord]
    BY <1>1, <1>3
  <1>5. JobsMove
    <2>1. SavedAgrees'
      BY <1>1 DEF SavedAgrees
    <2>2. NodeKeeps
      BY <1>1, NodeStays
    <2>3. QED
      BY <1>1, <1>3, <2>1, <2>2 DEF JobsMove
  <1>6. JobsMoveOn
    <2>1. ASSUME NEW j \in Jobs
          PROVE  job'[j].req = job[j].req /\ (saved'[j].rid = 0 => saved[j].rid = 0)
      BY <1>1, <1>3 DEF JobInv, Bookkeeping, SavedAgrees
    <2>2. QED
      BY <1>1, <1>5, <2>1 DEF JobsMoveOn
  <1>7. \A j \in Jobs : job'[j].status = "working" => job[j].status = "working"
    BY <1>3
  <1>8. /\ PumpOwns' /\ HarnessRuns' /\ WorkingIsPumped'
        /\ pump'.pc # "idle" => job'[pump'.job].status # "none"
    BY <1>1, <1>6, <1>7, PumpStays
  <1>9. CancelConfirmed' /\ (op'.pc # "idle" => job'[op'.job].status # "none")
    BY <1>1, <1>5, OpStays
  <1>10. ClaimsHold'
    <2>1. ASSUME NEW k \in Jobs, job'[k].remote, NEW s \in Claims(k)'
          PROVE  (job[k].remote /\ s \in Claims(k)) \/ Ends(k, s)
      BY <1>1, <1>3, <2>1 DEF Claims
    <2>2. QED
      BY <1>5, <2>1, MoveFacts, ClaimsStay
  <1>11. chain' \in Seq(Jobs) /\ \A n \in DOMAIN chain' : job'[chain'[n]].status # "none"
    <2> DEFINE s == SetToSeq(DueJobs)
    <2>1. DueJobs \subseteq Jobs /\ IsFiniteSet(DueJobs)
      BY JobAssumption, FS_Subset DEF DueJobs
    <2>2. s \in Seq(DueJobs)
      BY <2>1, SetToSeqType
    <2>3. s \in Seq(Jobs) /\ chain \in Seq(Jobs)
      BY <2>1, <2>2, SeqMonotonic DEF JobInv, TypeOK
    <2>4. /\ DOMAIN s = 1..Len(s) /\ Len(s) \in Nat /\ \A n \in 1..Len(s) : s[n] \in DueJobs
          /\ DOMAIN chain = 1..Len(chain) /\ Len(chain) \in Nat
      BY <2>2, <2>3, LenProperties
    <2>5. chain' = chain \o s
      BY <1>1
    <2> HIDE DEF s
    <2>6. /\ chain' \in Seq(Jobs) /\ Len(chain') = Len(chain) + Len(s)
          /\ \A n \in 1..Len(chain) + Len(s) :
                chain'[n] = IF n <= Len(chain) THEN chain[n] ELSE s[n - Len(chain)]
      BY <2>3, <2>5, ConcatProperties
    <2>7. DOMAIN chain' = 1..Len(chain) + Len(s)
      BY <2>6, LenProperties
    <2>8. ASSUME NEW n \in DOMAIN chain'
          PROVE  chain'[n] \in Jobs /\ job[chain'[n]].status # "none"
      <3>1. CASE n <= Len(chain)
        <4>1. n \in DOMAIN chain /\ chain'[n] = chain[n]
          BY <2>4, <2>6, <2>7, <3>1
        <4>2. QED
          BY <4>1 DEF JobInv, TypeOK, Bookkeeping, Submitted
      <3>2. CASE ~(n <= Len(chain))
        <4>1. n - Len(chain) \in 1..Len(s) /\ chain'[n] = s[n - Len(chain)]
          BY <2>4, <2>6, <2>7, <3>2
        <4>2. chain'[n] \in DueJobs
          BY <2>4, <4>1
        <4>3. QED
          BY <4>2 DEF DueJobs
      <3>3. QED
        BY <3>1, <3>2
    <2>9. QED
      BY <1>5, <2>6, <2>8 DEF JobsMove
  <1>12. TypeOK'
    BY <1>1, <1>4, <1>11 DEF JobInv, TypeOK
  <1>13. QED
    BY <1>6, <1>8, <1>9, <1>10, <1>11, <1>12, MoveOn

-----------------------------------------------------------------------------
(* The end of an attempt *)

\* When the loop found nothing more to run, the pump's task is settled: it is the job's,
\* noted in it, and its remote task, if it has one, is known.
LEMMA FinishFacts ==
  ASSUME JobInv, Finish, NEW j \in Jobs, j = pump.job, NEW i \in Nat, i = pump.local
  PROVE  /\ pump.pc = "run" /\ pump.running = 0 /\ job[j].status # "none"
         /\ i \in Locals /\ i \in job[j].tasks /\ local[i].job = j
         /\ local[i].req = job[j].req /\ local[i].status \in LocalEnded
         /\ local[i].rid # 0 => NotedRemote(j, local[i].rid)
         /\ UNCHANGED <<chain, local, node, op, issued>>
  <1>1. pump.pc = "run" /\ pump.running = 0 /\ Queued = {}
        /\ UNCHANGED <<chain, local, node, op, issued>>
    BY DEF Finish
  <1>2. /\ i \in Locals /\ i \in job[j].tasks /\ local[i].job = j
        /\ local[i].req = job[j].req /\ local[i].status # "running"
    <2>1. i \in Locals /\ i \in job[j].tasks /\ local[i].job = j /\ local[i].req = job[j].req
      BY <1>1 DEF JobInv, Bookkeeping, PumpOwns
    <2>2. i # 0
      BY <2>1 DEF JobInv, TypeOK, Locals
    <2>3. QED
      BY <1>1, <2>1, <2>2 DEF JobInv, Bookkeeping, PumpOwns
  <1>3. local[i].status \in LocalEnded
    <2>1. local[i].status # "queued"
      BY <1>1, <1>2 DEF Queued, Locals
    <2>2. QED
      BY <1>2, <2>1, LocalFacts DEF LocalRecord
  <1>4. local[i].rid # 0 => NotedRemote(j, local[i].rid)
    BY <1>2 DEF NotedRemote, Noted
  <1>5. job[j].status # "none"
    BY <1>1 DEF JobInv, Bookkeeping, Submitted
  <1>6. QED
    BY <1>1, <1>2, <1>3, <1>4, <1>5

\* After an attempt that has failed or was cancelled, no request of the job can be live or
\* become so, and if one was taken on, a remote task is noted.
LEMMA AttemptOver ==
  ASSUME JobInv, NEW j \in Jobs, NEW i \in Locals, i \in job[j].tasks, local[i].job = j,
         local[i].req = job[j].req, local[i].status \in {"failed", "cancelled"},
         job[j].remote
  PROVE  /\ \A k \in Locals : local[k].job = j /\ Dispatches(k) => ~Unsettled(local[k].req)
         /\ Accepted(j) # {} => Noted(j) # {}
  <1>1. OfRemote(i)
    BY DEF OfRemote
  <1>2. ASSUME NEW n \in Noted(j), ~Unsettled(local[n].rid)
        PROVE  /\ \A k \in Locals : local[k].job = j /\ Dispatches(k) => ~Unsettled(local[k].req)
               /\ Noted(j) # {}
    <2>1. local[n].rid \in Accepted(j)
      BY NotedFacts
    <2>2. QED
      BY <1>2, <2>1 DEF JobInv, Requests, FirstAccepted
  <1>3. CASE local[i].status = "cancelled"
    <2>1. PICK n \in Noted(j) : node[local[n].rid] = "cancelled"
      BY <1>1, <1>3 DEF JobInv, Ending, Outcomes, Ends
    <2>2. QED
      BY <1>2, <2>1 DEF Unsettled
  <1>4. CASE local[i].status = "failed" /\ local[i].rid # 0
    <2>1. ~Unsettled(local[i].rid)
      BY <1>1, <1>4 DEF JobInv, Ending, Outcomes
    <2>2. i \in Noted(j)
      BY <1>4 DEF Noted
    <2>3. QED
      BY <1>2, <2>1, <2>2
  <1>5. CASE local[i].status = "failed" /\ local[i].rid = 0
    <2>1. local[i].given = 0 /\ node[local[i].req] = "refused" /\ Dispatches(i)
      BY <1>1, <1>5 DEF JobInv, Ending, Outcomes, Dispatches
    <2>2. node[job[j].req] = "refused" /\ job[j].req # 0
      BY <2>1, LocalFacts DEF RequestIds
    <2>3. ASSUME NEW k \in Locals, local[k].job = j, Dispatches(k)
          PROVE  ~Unsettled(local[k].req)
      BY <2>2, <2>3 DEF JobInv, Requests, OnlyPresent, Unsettled
    <2>4. ASSUME Accepted(j) # {}
          PROVE  Noted(j) # {}
      <3>1. CASE job[j].rid # 0
        BY <3>1 DEF JobInv, Requests, BoundAccepted, NotedRemote
      <3>2. CASE job[j].rid = 0
        <4>1. saved[j].rid = 0
          BY <3>2 DEF JobInv, Bookkeeping, SavedAgrees
        <4>2. Accepted(j) \subseteq {job[j].req}
          BY <2>2, <4>1 DEF JobInv, Requests, NewIsFirst
        <4>3. QED
          BY <2>2, <2>4, <4>2, AcceptedFacts DEF Taken
      <3>3. QED
        BY <3>1, <3>2
    <2>5. QED
      BY <2>3, <2>4
  <1>6. QED
    BY <1>3, <1>4, <1>5

\* A job gets another request, or none, and the node does nothing: the request must be the
\* one that a task of the job may still dispatch, and the first that is taken on.
LEMMA AnotherRequest ==
  ASSUME JobInv, JobsMove, node' = node, NEW j \in Jobs,
         \A k \in Jobs \ {j} : /\ job'[k].req = job[k].req
                               /\ saved'[k].rid = 0 => saved[k].rid = 0,
         \A i \in Locals : local[i].job = j /\ Dispatches(i) /\ Unsettled(local[i].req) =>
            job'[j].req = local[i].req,
         job'[j].remote /\ job'[j].req = 0 /\ Accepted(j) # {} => Noted(j) # {},
         job'[j].req # 0 /\ saved'[j].rid = 0 => Accepted(j) \subseteq {job'[j].req}
  PROVE  Requests'
  <1>1. Moves /\ RidsKnown /\ Noted(j)' = Noted(j)
    BY MoveFacts
  <1>2. Owned' /\ BoundAccepted' /\ FirstAccepted'
    BY <1>1, OwnedKept, BoundKept, FirstKept
  <1>3. Accepted(j)' \subseteq Accepted(j)
    <2>1. ASSUME NEW a \in Accepted(j)', a \notin Accepted(j)
          PROVE  FALSE
      <3>1. PICK k \in Locals' : /\ Dispatches(k)' /\ local'[k].job = j /\ local'[k].req = a
                                 /\ Taken(local[k].req)'
        BY DEF Accepted
      <3>2. k \in Locals /\ Dispatches(k) /\ local[k].job = j /\ local[k].req = a
        BY <3>1, <1>1, DispatchesKept DEF Moves, LocalsKeep
      <3>3. Taken(local[k].req)
        BY <3>1, <3>2 DEF Taken, JobsMove
      <3>4. QED
        BY <2>1, <3>2, <3>3 DEF Accepted
    <2>2. QED
      BY <2>1
  <1>4. OnlyPresent'
    <2>1. ASSUME NEW i \in Locals', Dispatches(i)', Unsettled(local[i].req)'
          PROVE  job'[local'[i].job].req = local'[i].req
      <3>1. PICK k \in Jobs : k = local'[i].job
        BY <1>1, LocalFacts DEF Moves, LocalsKeep
      <3>2. CASE k = j
        BY <1>1, <2>1, <3>1, <3>2, UnsettledBefore, ZenonT(40) DEF Moves, LocalsKeep
      <3>3. CASE k # j
        BY <1>1, <2>1, <3>1, <3>3, PresentKept
      <3>4. QED
        BY <3>2, <3>3
    <2>2. QED
      BY <2>1 DEF OnlyPresent
  <1>5. NotedBeforeNew'
    <2>1. ASSUME NEW k \in Jobs, job'[k].remote, job'[k].req = 0, Accepted(k)' # {}
          PROVE  Noted(k)' # {}
      <3>1. CASE k = j
        BY <1>1, <1>3, <2>1, <3>1
      <3>2. CASE k # j
        BY <1>1, <2>1, <3>2, PresentKept
      <3>3. QED
        BY <3>1, <3>2
    <2>2. QED
      BY <2>1 DEF NotedBeforeNew
  <1>6. NewIsFirst'
    <2>1. ASSUME NEW k \in Jobs, job'[k].req # 0, saved'[k].rid = 0,
                 node'[job'[k].req] \in {"none", "live", "refused"}
          PROVE  Accepted(k)' \subseteq {job'[k].req}
      <3>1. CASE k = j
        BY <1>3, <2>1, <3>1
      <3>2. CASE k # j
        BY <1>1, <2>1, <3>2, PresentKept
      <3>3. QED
        BY <3>1, <3>2
    <2>2. QED
      BY <2>1 DEF NewIsFirst
  <1>7. QED
    BY <1>2, <1>4, <1>5, <1>6 DEF Requests

LEMMA AnotherId ==
  ASSUME JobInv, JobsMove, NEW j \in Jobs, job[j].status # "none",
         issued' \in Nat, issued <= issued', issued' <= MaxRequests,
         \A k \in Jobs \ {j} : job'[k].req = job[k].req,
         job'[j].req \in 0..issued', ~job[j].remote => job'[j].req = 0,
         job'[j].req # 0 => /\ \A i \in Locals : local[i].req = job'[j].req => local[i].job = j
                            /\ \A k \in Jobs \ {j} : job[k].req # job'[j].req
  PROVE  Ids'
  <1>1. Locals' = Locals /\ local' = local /\ \A i \in Locals : OfRemote(i)' = OfRemote(i)
    BY MoveFacts DEF JobsMove
  <1>2. job'[j].remote = job[j].remote
    BY DEF JobsMove
  <1>3. issued \in Nat
    BY DEF JobInv, TypeOK
  <1>4. \A i \in Locals : IF OfRemote(i)' THEN local'[i].req \in 1..issued'
                          ELSE local'[i].req = 0 /\ local'[i].given = 0
    <2>1. \A i \in Locals : IF OfRemote(i) THEN local[i].req \in 1..issued
                            ELSE local[i].req = 0 /\ local[i].given = 0
      BY DEF JobInv, Bookkeeping, Ids
    <2>2. QED
      BY <1>1, <1>3, <2>1
  <1>5. \A k \in Jobs : job'[k].req \in 0..issued' /\ (~job'[k].remote => job'[k].req = 0)
    <2>1. ASSUME NEW k \in Jobs, k # j
          PROVE  job'[k].req \in 0..issued' /\ (~job'[k].remote => job'[k].req = 0)
      <3>1. job[k].req \in 0..issued /\ (~job[k].remote => job[k].req = 0)
        BY DEF JobInv, Bookkeeping, Ids
      <3>2. job[k].status = "none" => job[k].req = 0
        BY DEF JobInv, Bookkeeping, Submitted, NewJob
      <3>3. job[k].status # "none" => job'[k].remote = job[k].remote
        BY DEF JobsMove
      <3>4. QED
        BY <1>3, <2>1, <3>1, <3>2, <3>3
    <2>2. QED
      BY <1>2, <2>1
  <1>6. \A i, k \in Locals :
            local[i].req # 0 /\ local[i].req = local[k].req => local[i].job = local[k].job
    BY DEF JobInv, Bookkeeping, Ids
  <1>7. \A i \in Locals, k \in Jobs :
            local[i].req # 0 /\ local[i].req = job'[k].req => local[i].job = k
    BY DEF JobInv, Bookkeeping, Ids
  <1>8. \A k, m \in Jobs : job'[k].req # 0 /\ job'[k].req = job'[m].req => k = m
    BY DEF JobInv, Bookkeeping, Ids
  <1>9. QED
    BY <1>1, <1>4, <1>5, <1>6, <1>7, <1>8 DEF Ids

\* The record that Finish starts from: the job with the remote task of its local one.
Followed(j, i) ==
    IF job[j].remote /\ local[i].rid # 0 THEN [job[j] EXCEPT !.rid = local[i].rid] ELSE job[j]

LEMMA FollowedFacts ==
  ASSUME JobInv, NEW j \in Jobs, NEW i \in Locals, NEW r, r = Followed(j, i)
  PROVE  /\ r \in JobRecord /\ r.status = job[j].status /\ r.remote = job[j].remote
         /\ r.req = job[j].req /\ r.tasks = job[j].tasks /\ r.attempt = job[j].attempt
         /\ r.rid = job[j].rid \/ (r.rid # 0 /\ r.rid = local[i].rid)
  <1>1. job[j] \in JobRecord /\ local[i].rid \in Nat
    BY LocalFacts DEF JobInv, TypeOK, LocalRecord
  <1>2. QED
    BY <1>1 DEF Followed, JobRecord

\* The job is completed; its file follows after aggregatePlan.
LEMMA FinishCompletes ==
  ASSUME JobInv, Finish, NEW j \in Jobs, j = pump.job, NEW i \in Nat, i = pump.local,
         local[i].status = "completed",
         NEW r, r = Followed(j, i),
         job' = [job EXCEPT ![j] = [r EXCEPT !.status = "completed", !.reconnects = 0]],
         saved' = [job EXCEPT ![j] = r],
         pump' = [pump EXCEPT !.pc = "aggregate"]
  PROVE  JobInv'
  <1>1. /\ pump.pc = "run" /\ pump.running = 0 /\ job[j].status # "none"
        /\ i \in Locals /\ i \in job[j].tasks /\ local[i].job = j
        /\ local[i].rid # 0 => NotedRemote(j, local[i].rid)
        /\ UNCHANGED <<chain, local, node, op, issued>>
    BY FinishFacts
  <1>2. /\ r \in JobRecord /\ r.status = job[j].status /\ r.remote = job[j].remote
        /\ r.req = job[j].req /\ r.tasks = job[j].tasks
        /\ r.rid = job[j].rid \/ (r.rid # 0 /\ r.rid = local[i].rid)
    BY <1>1, FollowedFacts
  <1> DEFINE c == [r EXCEPT !.status = "completed", !.reconnects = 0]
  <1>3. /\ c \in JobRecord /\ c.status = "completed" /\ c.remote = r.remote
        /\ c.req = r.req /\ c.tasks = r.tasks /\ c.rid = r.rid
    BY <1>2, ZenonT(40) DEF JobRecord, JobStatus
  <1>4. job' = [job EXCEPT ![j] = c]
    OBVIOUS
  <1> HIDE DEF c
  <1>5. /\ job' \in [Jobs -> JobRecord] /\ saved' \in [Jobs -> JobRecord]
        /\ job'[j] = c /\ saved'[j] = r
        /\ \A k \in Jobs \ {j} : job'[k] = job[k] /\ saved'[k] = job[k]
    BY <1>2, <1>3, <1>4 DEF JobInv, TypeOK
  <1>6. NodeKeeps
    BY <1>1, NodeStays
  <1>7. JobsMove
    <2>1. SavedAgrees'
      BY <1>3, <1>5 DEF SavedAgrees
    <2>2. ASSUME NEW k \in Jobs
          PROVE  /\ job[k].status # "none" =>
                       job'[k].status # "none" /\ job'[k].remote = job[k].remote
                 /\ job'[k].status = "none" => job'[k] = job[k]
                 /\ job'[k].tasks = job[k].tasks
                 /\ job'[k].rid \in {0, job[k].rid} \/ NotedRemote(j, job'[k].rid)
                 /\ job'[k].rid \in {0, job[k].rid} \/ k = j
                 /\ saved'[k].status = "none" => saved'[k] = job'[k]
      <3>1. CASE k = j
        BY <1>1, <1>2, <1>3, <1>5, <3>1
      <3>2. CASE k # j
        <4>1. job'[k] = job[k] /\ saved'[k] = job[k]
          BY <1>5, <3>2
        <4>2. QED
          BY <4>1
      <3>3. QED
        BY <3>1, <3>2
    <2>3. QED
      BY <1>1, <1>6, <2>1, <2>2 DEF JobsMove
  <1>8. JobsMoveOn
    BY <1>1, <1>2, <1>3, <1>5, <1>7 DEF JobsMoveOn, JobInv, Bookkeeping, SavedAgrees
  <1>9. pump' \in PumpRecord /\ pump'.pc = "aggregate" /\ pump'.job = j
    BY DEF JobInv, TypeOK, PumpRecord
  <1>10. PumpOwns'
    BY <1>3, <1>5, <1>9 DEF PumpOwns
  <1>11. HarnessRuns'
    <2>1. \A k \in Locals : local[k].pc \notin {"start", "bind", "poll"}
      BY <1>1 DEF JobInv, TypeOK, Locals, Bookkeeping, HarnessRuns
    <2>2. QED
      BY <1>1, <2>1 DEF JobInv, Bookkeeping, HarnessRuns, Locals
  <1>12. WorkingIsPumped'
    BY <1>3, <1>5 DEF JobInv, Ending, WorkingIsPumped, PumpOn
  <1>13. CancelConfirmed' /\ (op'.pc # "idle" => job'[op'.job].status # "none")
    BY <1>1, <1>7, OpStays
  <1>14. ClaimsHold'
    <2>1. ASSUME NEW k \in Jobs, job'[k].remote, NEW s \in Claims(k)'
          PROVE  (job[k].remote /\ s \in Claims(k)) \/ Ends(k, s)
      <3>1. CASE k # j
        BY <1>5, <2>1, <3>1 DEF Claims
      <3>2. CASE k = j
        <4>1. job[j].remote /\ OfRemote(i)
          BY <1>1, <1>2, <1>3, <1>5, <2>1, <3>2 DEF OfRemote
        <4>2. Ends(j, "completed")
          BY <1>1, <4>1 DEF JobInv, Ending, Outcomes, Ends, Noted
        <4>3. s \in {"completed", job[j].status} /\ s \in {"completed", "cancelled"}
          BY <1>2, <1>3, <1>5, <2>1, <3>2 DEF Claims
        <4>4. QED
          BY <3>2, <4>1, <4>2, <4>3 DEF Claims
      <3>3. QED
        BY <3>1, <3>2
    <2>2. QED
      BY <1>7, <2>1, MoveFacts, ClaimsStay
  <1>15. TypeOK'
    BY <1>1, <1>5, <1>9 DEF JobInv, TypeOK
  <1>16. pump'.pc # "idle" => job'[pump'.job].status # "none"
    BY <1>3, <1>5, <1>9
  <1>17. QED
    BY <1>1, <1>7, <1>8, <1>10, <1>11, <1>12, <1>13, <1>14, <1>15, <1>16, ChainStays, MoveOn

\* The job waits for its next attempt, which is to be a new request.
LEMMA FinishForgets ==
  ASSUME JobInv, Finish, NEW j \in Jobs, j = pump.job, NEW i \in Nat, i = pump.local,
         local[i].status # "completed", ~(job[j].remote /\ local[i].status = "lost"),
         NEW c \in JobRecord, c.status = "waiting", c.remote = job[j].remote, c.req = 0,
         c.rid = 0, c.tasks = job[j].tasks,
         SaveJob(j, c), pump' = NoPump
  PROVE  JobInv'
  <1>1. /\ pump.pc = "run" /\ pump.running = 0 /\ job[j].status # "none"
        /\ i \in Locals /\ i \in job[j].tasks /\ local[i].job = j
        /\ local[i].req = job[j].req /\ local[i].status \in LocalEnded
        /\ UNCHANGED <<chain, local, node, op, issued>>
    BY FinishFacts
  <1>2. /\ job' \in [Jobs -> JobRecord] /\ saved' = job'
        /\ job'[j] = c /\ \A k \in Jobs \ {j} : job'[k] = job[k]
    BY SaveFacts
  <1>3. NodeKeeps
    BY <1>1, NodeStays
  <1>4. JobsMove
    <2>1. SavedAgrees'
      BY <1>2 DEF SavedAgrees
    <2>2. QED
      BY <1>1, <1>2, <1>3, <2>1 DEF JobsMove
  <1>5. Requests'
    <2>1. \A k \in Jobs \ {j} : /\ job'[k].req = job[k].req
                                /\ saved'[k].rid = 0 => saved[k].rid = 0
      BY <1>2 DEF JobInv, Bookkeeping, SavedAgrees
    <2>2. ASSUME job[j].remote
          PROVE  /\ \A k \in Locals : local[k].job = j /\ Dispatches(k) => ~Unsettled(local[k].req)
                 /\ Accepted(j) # {} => Noted(j) # {}
      <3>1. local[i].status \in {"failed", "cancelled"}
        BY <1>1, <2>2 DEF LocalEnded
      <3>2. QED
        BY <1>1, <2>2, <3>1, AttemptOver
    <2>3. \A k \in Locals : local[k].job = j /\ Dispatches(k) => job[j].remote
      BY DEF Dispatches, OfRemote
    <2>4. QED
      BY <1>1, <1>2, <1>4, <2>1, <2>2, <2>3, AnotherRequest
  <1>6. Ids'
    <2>1. issued \in Nat /\ issued <= MaxRequests
      BY DEF JobInv, TypeOK, Bookkeeping, Ids
    <2>2. job'[j].req \in 0..issued'
      BY <1>1, <1>2, <2>1
    <2>3. issued' \in Nat /\ issued <= issued' /\ issued' <= MaxRequests
      BY <1>1, <2>1
    <2>4. QED
      BY <1>1, <1>2, <1>4, <2>2, <2>3, AnotherId
  <1>7. /\ PumpOwns' /\ HarnessRuns' /\ WorkingIsPumped'
        /\ pump'.pc # "idle" => job'[pump'.job].status # "none"
    BY <1>1, <1>2, <1>4, PumpStops
  <1>8. CancelConfirmed' /\ (op'.pc # "idle" => job'[op'.job].status # "none")
    BY <1>1, <1>4, OpStays
  <1>9. ClaimsHold'
    <2>1. ASSUME NEW k \in Jobs, job'[k].remote, NEW s \in Claims(k)'
          PROVE  (job[k].remote /\ s \in Claims(k)) \/ Ends(k, s)
      BY <1>2, <2>1 DEF Claims
    <2>2. QED
      BY <1>4, <2>1, MoveFacts, ClaimsStay
  <1>10. TypeOK'
    BY <1>1, <1>2, NoPumpType DEF JobInv, TypeOK
  <1>11. QED
    BY <1>1, <1>4, <1>5, <1>6, <1>7, <1>8, <1>9, <1>10, ChainStays, Moved

LEMMA FinishStep ==
  ASSUME JobInv, Finish
  PROVE  JobInv'
  <1>1. pump.pc = "run" /\ pump.running = 0 /\ pump.job \in Jobs /\ pump.local \in Nat
    BY DEF Finish, JobInv, TypeOK, PumpRecord
  <1>2. PICK j \in Jobs, i \in Nat : j = pump.job /\ i = pump.local
    BY <1>1
  <1>3. /\ job[j].status # "none" /\ i \in Locals
        /\ local[i].rid # 0 => NotedRemote(j, local[i].rid)
        /\ UNCHANGED <<chain, local, node, op, issued>>
    BY <1>2, FinishFacts
  <1>4. PICK r \in {Followed(j, i)} : TRUE
    OBVIOUS
  <1>5. /\ r \in JobRecord /\ r.status = job[j].status /\ r.remote = job[j].remote
        /\ r.req = job[j].req /\ r.tasks = job[j].tasks /\ r.attempt = job[j].attempt
        /\ r.rid = job[j].rid \/ (r.rid # 0 /\ r.rid = local[i].rid)
    BY <1>3, <1>4, FollowedFacts
  <1>6. \/ /\ job[j].status \in {"cancelled", "needs_attention"}
           /\ SaveJob(j, r) /\ PumpEnds
        \/ /\ local[i].status = "completed"
           /\ job' = [job EXCEPT ![j] = [r EXCEPT !.status = "completed", !.reconnects = 0]]
           /\ saved' = [job EXCEPT ![j] = r]
           /\ pump' = [pump EXCEPT !.pc = "aggregate"]
        \/ /\ local[i].status # "completed"
           /\ SaveJob(j, IF job[j].remote /\ local[i].status = "lost" THEN Reconnect(r)
                         ELSE NextAttempt(j, r))
           /\ PumpEnds
    BY <1>2, <1>4 DEF Finish, Followed
  <1>7. r.rid = job[j].rid \/ (r.rid # 0 /\ NotedRemote(j, r.rid))
    BY <1>3, <1>5
  <1>8. ASSUME NEW c \in JobRecord, SaveJob(j, c), PumpEnds,
               c.status \in {"cancelled", "needs_attention", "waiting"},
               c.status = "cancelled" => job[j].status = "cancelled",
               c.remote = r.remote, c.req = r.req, c.tasks = r.tasks, c.rid = r.rid
        PROVE  JobInv'
    <2>1. c.remote /\ c.status = "cancelled" => Ends(j, "cancelled")
      BY <1>5, <1>8 DEF JobInv, Ending, ClaimsHold, Claims
    <2>2. c.remote /\ c.status \in {"completed", "cancelled"} => Ends(j, c.status)
      BY <1>8, <2>1
    <2>3. pump' = NoPump /\ pump.job = j /\ (pump.pc = "run" => pump.running = 0)
      BY <1>1, <1>2, <1>8 DEF PumpEnds
    <2>4. NodeKeeps /\ node' \in [RequestIds -> NodeStatus]
      BY <1>3, NodeStays
    <2>5. c.rid = job[j].rid \/ (c.rid # 0 /\ NotedRemote(j, c.rid))
      BY <1>7, <1>8
    <2>6. c.status \notin {"none", "working"} /\ c.req = job[j].req /\ c.tasks = job[j].tasks
          /\ c.remote = job[j].remote
      BY <1>5, <1>8
    <2>7. chain' = chain /\ local' = local /\ issued' = issued /\ op' = op
      BY <1>3
    <2>8. QED
      BY <1>8, <2>2, <2>3, <2>4, <2>5, <2>6, <2>7, JobSaved
  <1>9. CASE job[j].status \in {"cancelled", "needs_attention"} /\ SaveJob(j, r) /\ PumpEnds
    BY <1>5, <1>8, <1>9
  <1>10. CASE /\ local[i].status = "completed"
              /\ job' = [job EXCEPT ![j] = [r EXCEPT !.status = "completed", !.reconnects = 0]]
              /\ saved' = [job EXCEPT ![j] = r]
              /\ pump' = [pump EXCEPT !.pc = "aggregate"]
    BY <1>2, <1>4, <1>10, FinishCompletes
  <1>11. CASE /\ local[i].status # "completed" /\ job[j].remote /\ local[i].status = "lost"
              /\ SaveJob(j, Reconnect(r)) /\ PumpEnds
    <2>1. r.reconnects + 1 \in Nat
      BY <1>5 DEF JobRecord
    <2>2. /\ Reconnect(r) \in JobRecord /\ Reconnect(r).status \in {"needs_attention", "waiting"}
          /\ Reconnect(r).remote = r.remote /\ Reconnect(r).req = r.req
          /\ Reconnect(r).tasks = r.tasks /\ Reconnect(r).rid = r.rid
      BY <1>5, <2>1 DEF Reconnect, JobRecord, JobStatus
    <2>3. QED
      BY <1>8, <1>11, <2>2
  <1>12. CASE /\ local[i].status # "completed" /\ ~(job[j].remote /\ local[i].status = "lost")
              /\ SaveJob(j, NextAttempt(j, r)) /\ PumpEnds
    <2>1. r.attempt + 1 \in Nat
      BY <1>5 DEF JobRecord
    <2>2. PICK c : c = NextAttempt(j, r)
      OBVIOUS
    <2>3. CASE r.attempt + 1 < MaxAttempts
      <3>1. /\ c \in JobRecord /\ c.status = "waiting" /\ c.remote = job[j].remote
            /\ c.req = 0 /\ c.rid = 0 /\ c.tasks = job[j].tasks
        BY <1>5, <2>1, <2>2, <2>3 DEF NextAttempt, JobRecord, JobStatus
      <3>2. QED
        BY <1>2, <1>12, <2>2, <3>1, FinishForgets DEF PumpEnds
    <2>4. CASE ~(r.attempt + 1 < MaxAttempts)
      <3>1. /\ c \in JobRecord /\ c.status = "needs_attention" /\ c.remote = r.remote
            /\ c.req = r.req /\ c.rid = r.rid /\ c.tasks = r.tasks
        BY <1>5, <2>1, <2>2, <2>4 DEF NextAttempt, JobRecord, JobStatus
      <3>2. QED
        BY <1>8, <1>12, <2>2, <3>1
    <2>5. QED
      BY <2>3, <2>4
  <1>13. QED
    BY <1>6, <1>9, <1>10, <1>11, <1>12

-----------------------------------------------------------------------------
(* The start of an attempt *)

\* Binding keeps the job's request, goes back to that of a noted task, or makes a new one.
LEMMA BindingFacts ==
  ASSUME JobInv, NEW j \in Jobs, NEW q, NEW p, Binding(j) = <<q, p>>
  PROVE  /\ q \in Nat /\ p \in Nat /\ (job[j].remote => q # 0)
         /\ \/ /\ q = job[j].req
               /\ p = job[j].rid \/ (job[j].rid = 0 /\ p # 0 /\ NotedRemote(j, p))
            \/ /\ job[j].req = 0 /\ job[j].remote /\ p # 0
               /\ job[j].rid = 0 /\ NotedRemote(j, p)
               /\ \E i \in Locals : local[i].job = j /\ OfRemote(i) /\ local[i].req = q
            \/ /\ job[j].req = 0 /\ job[j].remote /\ q = issued + 1 /\ p = job[j].rid
               /\ p = 0 => Accepted(j) = {}
  <1>1. job[j].req \in Nat /\ job[j].rid \in Nat /\ issued \in Nat
    BY DEF JobInv, TypeOK, JobRecord
  <1>2. CASE ~job[j].remote
    <2>1. q = 0 /\ p = 0 /\ job[j].req = 0
      BY <1>2 DEF Binding, JobInv, Bookkeeping, Ids
    <2>2. job[j].rid = 0
      <3>1. ASSUME job[j].rid # 0
            PROVE  FALSE
        <4>1. PICK k \in Noted(j) : local[k].rid = job[j].rid
          BY <3>1 DEF JobInv, Requests, BoundAccepted, NotedRemote
        <4>2. PICK a \in Accepted(j) : TRUE
          BY <4>1, NotedFacts
        <4>3. PICK i \in Locals : Dispatches(i) /\ local[i].job = j
          BY <4>2, AcceptedFacts
        <4>4. QED
          BY <1>2, <4>3 DEF Dispatches, OfRemote
      <3>2. QED
        BY <3>1
    <2>3. QED
      BY <1>2, <2>1, <2>2
  <1>3. CASE job[j].remote /\ job[j].rid = 0 /\ Bound(j) # {}
    <2> DEFINE first == CHOOSE i \in Bound(j) : \A k \in Bound(j) : i <= k
    <2>1. Len(local) \in Nat /\ Bound(j) \in SUBSET (1..Len(local))
      BY DEF JobInv, TypeOK, Bound
    <2>2. \E i \in Bound(j) : \A k \in Bound(j) : i <= k
      BY <1>3, <2>1, Least
    <2>3. first \in Bound(j)
      BY <2>2
    <2>4. PICK i : i = first
      OBVIOUS
    <2>5. /\ i \in Locals /\ i \in job[j].tasks /\ local[i].rid # 0
          /\ job[j].req \in {0, local[i].req}
      BY <2>3, <2>4 DEF Bound, Locals
    <2>6. q = local[i].req /\ p = local[i].rid
      BY <1>3, <2>4 DEF Binding
    <2>7. local[i].job = j /\ NotedRemote(j, p)
      BY <2>5, <2>6 DEF JobInv, Bookkeeping, TasksNoted, NotedRemote, Noted
    <2>8. OfRemote(i) /\ q \in 1..issued /\ p \in Nat
      BY <1>3, <2>5, <2>6, <2>7, LocalFacts DEF OfRemote, JobInv, Bookkeeping, Ids, LocalRecord
    <2>9. QED
      BY <1>1, <1>3, <2>5, <2>6, <2>7, <2>8
  <1>4. CASE job[j].remote /\ ~(job[j].rid = 0 /\ Bound(j) # {})
    <2>1. q = (IF job[j].req = 0 THEN issued + 1 ELSE job[j].req) /\ p = job[j].rid
      BY <1>4 DEF Binding
    <2>2. ASSUME job[j].req = 0, p = 0
          PROVE  Accepted(j) = {}
      <3>1. Bound(j) = {}
        BY <1>4, <2>1, <2>2
      <3>2. Noted(j) = {}
        <4>1. ASSUME NEW k \in Noted(j)
              PROVE  k \in Bound(j)
          BY <2>2, NotedFacts DEF Noted, Bound, Locals
        <4>2. QED
          BY <3>1, <4>1
      <3>3. QED
        BY <1>4, <2>2, <3>2 DEF JobInv, Requests, NotedBeforeNew
    <2>3. QED
      BY <1>1, <1>4, <2>1, <2>2
  <1>5. QED
    BY <1>2, <1>3, <1>4

\* The job becomes c, and in its file d, with the request that was bound.
Prepared(j, q, p, c, d) ==
    /\ pump.pc = "prepare" /\ pump.job = j /\ Binding(j) = <<q, p>>
    /\ job' = [job EXCEPT ![j] = c] /\ saved' = [job EXCEPT ![j] = d]
    /\ c \in JobRecord /\ c.req = q /\ c.rid = p /\ c.tasks = job[j].tasks
    /\ c.remote = job[j].remote /\ c.status \in {job[j].status, "working", "needs_attention"}
    /\ d \in JobRecord /\ d.req = q /\ d.rid = p /\ d.tasks = c.tasks
    /\ d.remote = c.remote /\ d.status = c.status
    /\ issued' = (IF q > issued THEN q ELSE issued)
    /\ UNCHANGED <<chain, local, node, op>>

LEMMA PrepareMoves ==
  ASSUME JobInv, NEW j \in Jobs, NEW q, NEW p, NEW c, NEW d, Prepared(j, q, p, c, d)
  PROVE  /\ JobsMove
         /\ /\ pump' \in PumpRecord /\ PumpOwns' /\ HarnessRuns' /\ WorkingIsPumped'
            /\ pump'.pc # "idle" => job'[pump'.job].status # "none"
            => JobInv'
  <1> USE DEF Prepared
  <1>1. job[j].status # "none" /\ issued < MaxRequests /\ issued \in Nat /\ MaxRequests \in Nat
    BY JobAssumption DEF JobInv, TypeOK, Bookkeeping, Submitted, PumpOwns
  <1>2. /\ job' \in [Jobs -> JobRecord] /\ saved' \in [Jobs -> JobRecord]
        /\ job'[j] = c /\ saved'[j] = d
        /\ \A k \in Jobs \ {j} : job'[k] = job[k] /\ saved'[k] = job[k]
    BY DEF JobInv, TypeOK
  <1>3. /\ q \in Nat /\ p \in Nat
        /\ \/ /\ q = job[j].req
              /\ p = job[j].rid \/ (job[j].rid = 0 /\ p # 0 /\ NotedRemote(j, p))
           \/ /\ job[j].req = 0 /\ job[j].remote /\ p # 0
              /\ job[j].rid = 0 /\ NotedRemote(j, p)
              /\ \E i \in Locals : local[i].job = j /\ OfRemote(i) /\ local[i].req = q
           \/ /\ job[j].req = 0 /\ job[j].remote /\ q = issued + 1 /\ p = job[j].rid
              /\ p = 0 => Accepted(j) = {}
    BY BindingFacts
  <1>4. NodeKeeps
    BY NodeStays
  <1>5. JobsMove
    <2>1. SavedAgrees'
      BY <1>2 DEF SavedAgrees
    <2>2. p \in {0, job[j].rid} \/ NotedRemote(j, p)
      BY <1>3
    <2>3. c.status # "none"
      BY <1>1
    <2>4. QED
      BY <1>1, <1>2, <1>4, <2>1, <2>2, <2>3 DEF JobsMove
  <1>6. \A k \in Jobs \ {j} : /\ job'[k].req = job[k].req
                              /\ saved'[k].rid = 0 => saved[k].rid = 0
    BY <1>2 DEF JobInv, Bookkeeping, SavedAgrees
  <1>7. saved'[j].rid = 0 => saved[j].rid = 0 /\ job[j].rid = 0
    BY <1>2, <1>3 DEF JobInv, Bookkeeping, SavedAgrees
  <1>8. job[j].req \in 0..issued
    BY DEF JobInv, Bookkeeping, Ids
  <1>9. Requests' /\ Ids'
    <2>1. CASE q = job[j].req
      <3>1. issued' = issued
        BY <1>1, <1>8, <2>1
      <3>2. RequestsKeep
        BY <1>2, <1>5, <1>6, <1>7, <2>1, <3>1, MoveFacts DEF RequestsKeep
      <3>3. QED
        BY <3>2, RequestsKept, IdsKept
    <2>2. CASE /\ job[j].req = 0 /\ job[j].remote /\ p # 0
               /\ job[j].rid = 0 /\ NotedRemote(j, p)
               /\ \E i \in Locals : local[i].job = j /\ OfRemote(i) /\ local[i].req = q
      <3>1. PICK i \in Locals : local[i].job = j /\ OfRemote(i) /\ local[i].req = q
        BY <2>2
      <3>2. q \in 1..issued
        BY <3>1 DEF JobInv, Bookkeeping, Ids
      <3>3. issued' = issued
        BY <1>1, <3>2
      <3>4. \A k \in Locals : local[k].job = j /\ Dispatches(k) => ~Unsettled(local[k].req)
        BY <2>2, LocalFacts DEF JobInv, Requests, OnlyPresent, RequestIds
      <3>5. Requests'
        BY <1>2, <1>5, <1>6, <2>2, <3>2, <3>4, AnotherRequest
      <3>6. /\ \A k \in Locals : local[k].req = q => local[k].job = j
            /\ \A k \in Jobs \ {j} : job[k].req # q
        BY <3>1, <3>2 DEF JobInv, Bookkeeping, Ids
      <3>7. issued' \in Nat /\ issued <= issued' /\ issued' <= MaxRequests /\ q \in 0..issued'
        BY <1>1, <3>2, <3>3
      <3>8. Ids'
        BY <1>1, <1>2, <1>5, <1>6, <2>2, <3>6, <3>7, AnotherId
      <3>9. QED
        BY <3>5, <3>8
    <2>3. CASE /\ job[j].req = 0 /\ job[j].remote /\ q = issued + 1 /\ p = job[j].rid
               /\ p = 0 => Accepted(j) = {}
      <3>1. issued' = q /\ q # 0 /\ q <= MaxRequests
        BY <1>1, <2>3
      <3>2. \A k \in Locals : local[k].job = j /\ Dispatches(k) => ~Unsettled(local[k].req)
        BY <2>3, LocalFacts DEF JobInv, Requests, OnlyPresent, RequestIds
      <3>3. Requests'
        BY <1>2, <1>5, <1>6, <2>3, <3>1, <3>2, AnotherRequest
      <3>4. /\ \A k \in Locals : local[k].req # q
            /\ \A k \in Jobs \ {j} : job[k].req # q
        <4>1. \A k \in Locals : local[k].req \in 0..issued
          BY <1>1 DEF JobInv, Bookkeeping, Ids
        <4>2. \A k \in Jobs : job[k].req \in 0..issued
          BY DEF JobInv, Bookkeeping, Ids
        <4>3. QED
          BY <1>1, <2>3, <4>1, <4>2
      <3>5. issued' \in Nat /\ issued <= issued' /\ issued' <= MaxRequests /\ q \in 0..issued'
        BY <1>1, <2>3, <3>1
      <3>6. Ids'
        BY <1>1, <1>2, <1>5, <1>6, <2>3, <3>4, <3>5, AnotherId
      <3>7. QED
        BY <3>3, <3>6
    <2>4. QED
      BY <1>3, <2>1, <2>2, <2>3
  <1>10. ASSUME Requests', Ids', pump' \in PumpRecord, PumpOwns', HarnessRuns', WorkingIsPumped',
                pump'.pc # "idle" => job'[pump'.job].status # "none", issued' \in Nat
         PROVE  JobInv'
    <2>1. CancelConfirmed' /\ (op'.pc # "idle" => job'[op'.job].status # "none")
      BY <1>5, OpStays
    <2>2. ClaimsHold'
      <3>1. ASSUME NEW k \in Jobs, job'[k].remote, NEW s \in Claims(k)'
            PROVE  (job[k].remote /\ s \in Claims(k)) \/ Ends(k, s)
        BY <1>2, <3>1 DEF Claims
      <3>2. QED
        BY <1>5, <3>1, MoveFacts, ClaimsStay
    <2>3. TypeOK'
      BY <1>2, <1>10 DEF JobInv, TypeOK
    <2>4. QED
      BY <1>5, <1>10, <2>1, <2>2, <2>3, ChainStays, Moved
  <1>11. issued' \in Nat
    BY <1>1, <1>3
  <1>12. QED
    BY <1>5, <1>9, <1>10, <1>11

LEMMA PrepareStep ==
  ASSUME JobInv, Prepare
  PROVE  JobInv'
  <1>1. pump.pc = "prepare" /\ pump.job \in Jobs
    BY DEF Prepare, JobInv, TypeOK, PumpRecord
  <1>2. PICK j \in Jobs : j = pump.job
    BY <1>1
  <1>3. \E q, p : Binding(j) = <<q, p>>
    BY DEF Binding
  <1>4. PICK q, p : Binding(j) = <<q, p>>
    BY <1>3
  <1>5. q \in Nat /\ p \in Nat /\ (job[j].remote => q # 0)
    BY <1>4, BindingFacts
  <1>6. job[j] \in JobRecord
    BY DEF JobInv, TypeOK
  <1>7. issued' = (IF q > issued THEN q ELSE issued) /\ UNCHANGED <<chain, local, node, op>>
    BY <1>2, <1>4 DEF Prepare
  <1> DEFINE b == Binding(pump.job)
             bound == [job[pump.job] EXCEPT !.req = b[1], !.rid = b[2]]
             starts == job[pump.job].status \in {"waiting", "queued"}
             r(n) == [bound EXCEPT !.status = IF starts THEN "working" ELSE @,
                                   !.skip = FALSE, !.repeats = n]
  <1>8. PICK n \in Repeats(pump.job) :
            IF n >= 2
            THEN SaveJob(pump.job, [r(n) EXCEPT !.status = "needs_attention"]) /\ PumpEnds
            ELSE /\ job' = [job EXCEPT ![pump.job] = r(n)]
                 /\ saved' = [job EXCEPT ![pump.job] =
                                [r(n) EXCEPT !.repeats = job[pump.job].repeats]]
                 /\ pump' = [pump EXCEPT !.pc = "plan"]
    BY DEF Prepare
  <1>9. n \in Int
    BY <1>2, <1>6 DEF Repeats, JobRecord
  <1>10. PICK s : s = (IF starts THEN "working" ELSE job[j].status)
    OBVIOUS
  <1>11. s \in JobStatus /\ s \in {job[j].status, "working"}
    BY <1>2, <1>6, <1>10 DEF JobRecord, JobStatus
  <1>12. PICK c : c = r(n)
    OBVIOUS
  <1>13. /\ bound \in JobRecord /\ bound.req = q /\ bound.rid = p
         /\ bound.tasks = job[j].tasks /\ bound.remote = job[j].remote
         /\ bound.status = job[j].status
    <2>1. b[1] = q /\ b[2] = p
      BY <1>2, <1>4
    <2> HIDE DEF b
    <2>2. bound = [job[j] EXCEPT !.req = q, !.rid = p]
      BY <1>2, <2>1
    <2> HIDE DEF bound
    <2>3. QED
      BY <1>5, <1>6, <2>2 DEF JobRecord
  <1> HIDE DEF bound, b
  <1>14. /\ c \in JobRecord /\ c.req = q /\ c.rid = p /\ c.tasks = job[j].tasks
         /\ c.remote = job[j].remote /\ c.status = s
    <2>1. c = [bound EXCEPT !.status = s, !.skip = FALSE, !.repeats = n]
      <3>1. (IF starts THEN "working" ELSE bound.status) = s
        BY <1>2, <1>10, <1>13
      <3> HIDE DEF starts
      <3>2. QED
        BY <1>12, <3>1
    <2>2. QED
      BY <1>9, <1>11, <1>13, <2>1 DEF JobRecord
  <1> HIDE DEF r, starts
  <1>15. CASE SaveJob(j, [c EXCEPT !.status = "needs_attention"]) /\ PumpEnds
    <2>1. PICK d : d = [c EXCEPT !.status = "needs_attention"]
      OBVIOUS
    <2>2. /\ d \in JobRecord /\ d.req = q /\ d.rid = p /\ d.tasks = job[j].tasks
          /\ d.remote = job[j].remote /\ d.status = "needs_attention"
      BY <1>14, <2>1 DEF JobRecord, JobStatus
    <2>3. /\ job' = [job EXCEPT ![j] = d] /\ saved' = [job EXCEPT ![j] = d]
          /\ pump' = NoPump
      BY <1>15, <2>1 DEF SaveJob, PumpEnds
    <2>4. /\ JobsMove
          /\ /\ pump' \in PumpRecord /\ PumpOwns' /\ HarnessRuns' /\ WorkingIsPumped'
             /\ pump'.pc # "idle" => job'[pump'.job].status # "none"
             => JobInv'
      <3>1. Prepared(j, q, p, d, d)
        BY <1>1, <1>2, <1>4, <1>7, <2>2, <2>3 DEF Prepared
      <3>2. QED
        BY <3>1, PrepareMoves
    <2>5. /\ job'[j] = d /\ \A k \in Jobs \ {j} : job'[k] = job[k]
      BY <2>3 DEF JobInv, TypeOK
    <2>6. /\ PumpOwns' /\ HarnessRuns' /\ WorkingIsPumped'
          /\ pump'.pc # "idle" => job'[pump'.job].status # "none"
      BY <1>1, <1>2, <2>2, <2>3, <2>4, <2>5, PumpStops
    <2>7. QED
      BY <2>3, <2>4, <2>6, NoPumpType
  <1>16. CASE /\ job' = [job EXCEPT ![j] = c]
              /\ saved' = [job EXCEPT ![j] = [c EXCEPT !.repeats = job[j].repeats]]
              /\ pump' = [pump EXCEPT !.pc = "plan"]
    <2>1. PICK d : d = [c EXCEPT !.repeats = job[j].repeats]
      OBVIOUS
    <2>2. /\ d \in JobRecord /\ d.req = q /\ d.rid = p /\ d.tasks = job[j].tasks
          /\ d.remote = job[j].remote /\ d.status = s
      BY <1>6, <1>14, <2>1 DEF JobRecord
    <2>3. saved' = [job EXCEPT ![j] = d]
      BY <1>16, <2>1
    <2>4. c.status \in {job[j].status, "working", "needs_attention"}
      BY <1>11, <1>14
    <2>5. /\ JobsMove
          /\ /\ pump' \in PumpRecord /\ PumpOwns' /\ HarnessRuns' /\ WorkingIsPumped'
             /\ pump'.pc # "idle" => job'[pump'.job].status # "none"
             => JobInv'
      <3>1. /\ d.tasks = c.tasks /\ d.remote = c.remote /\ d.status = c.status
            /\ job' = [job EXCEPT ![j] = c]
        BY <1>14, <1>16, <2>2
      <3>2. Prepared(j, q, p, c, d)
        BY <1>1, <1>2, <1>4, <1>7, <1>14, <2>2, <2>3, <2>4, <3>1 DEF Prepared
      <3>3. QED
        BY <3>2, PrepareMoves
    <2>6. /\ job'[j] = c /\ \A k \in Jobs \ {j} : job'[k] = job[k]
      BY <1>14, <1>16 DEF JobInv, TypeOK
    <2>7. /\ pump' \in PumpRecord /\ pump'.pc = "plan" /\ pump'.job = j
      BY <1>2, <1>16 DEF JobInv, TypeOK, PumpRecord
    <2>8. PumpOwns'
      BY <1>5, <1>14, <2>6, <2>7 DEF PumpOwns
    <2>9. HarnessRuns'
      <3>1. \A i \in Locals : local[i].pc \notin {"start", "bind", "poll"}
        BY <1>1 DEF JobInv, Bookkeeping, HarnessRuns
      <3>2. QED
        BY <1>7, <3>1 DEF JobInv, Bookkeeping, HarnessRuns, Locals
    <2>10. WorkingIsPumped'
      BY <1>2, <2>6, <2>7 DEF JobInv, Ending, WorkingIsPumped, PumpOn
    <2>11. job'[pump'.job].status # "none"
      BY <1>1, <1>2, <1>11, <1>14, <2>6, <2>7 DEF JobInv, Bookkeeping, Submitted
    <2>12. QED
      BY <2>5, <2>7, <2>8, <2>9, <2>10, <2>11
  <1>17. QED
    BY <1>2, <1>8, <1>12, <1>15, <1>16

-----------------------------------------------------------------------------
(* Steps of the local tasks *)

\* What is left to show of a step that lets the requests be.
LEMMA Advanced ==
  ASSUME JobInv, RequestsKeep, TypeOK', Submitted', SavedAgrees', TasksNoted', PumpOwns',
         HarnessRuns', Outcomes', CancelConfirmed', ClaimsHold', WorkingIsPumped'
  PROVE  JobInv'
  BY RequestsKept, IdsKept DEF JobInv, Bookkeeping, Ending

\* The local task i gets another record, and the node does what NodeKeeps allows.
TaskMoves(i) ==
    /\ UNCHANGED <<job, saved, chain, op, issued>> /\ NodeKeeps
    /\ node' \in [RequestIds -> NodeStatus]
    /\ local' \in Seq(LocalRecord) /\ Locals' = Locals
    /\ \A k \in Locals \ {i} : local'[k] = local[k]
    /\ local'[i].job = local[i].job /\ local'[i].req = local[i].req
    /\ local'[i].given = local[i].given
    /\ local'[i].rid = local[i].rid \/ (local[i].rid = 0 /\ local'[i].rid \in Accepted(local[i].job))
LEMMA TaskMoved ==
  ASSUME JobInv, NEW i \in Locals, TaskMoves(i),
         pump' \in PumpRecord, pump'.pc # "idle" => job[pump'.job].status # "none",
         PumpOwns', HarnessRuns', WorkingIsPumped',
         NEW j \in Jobs, local[i].job = j,
         \/ /\ local'[i].status = local[i].status
            /\ local[i].status \in {"failed", "completed"} => local'[i].rid = local[i].rid
         \/ ~OfRemote(i)
         \/ /\ local'[i].status = "failed" =>
                \/ local'[i].rid # 0 /\ ~Unsettled(local[i].rid)'
                \/ local'[i].rid = 0 /\ local'[i].given = 0 /\ node'[local'[i].req] = "refused"
            /\ local'[i].status = "completed" =>
                local'[i].rid # 0 /\ node'[local'[i].rid] = "completed"
            /\ local'[i].status = "cancelled" => Ends(j, "cancelled")'
  PROVE  JobInv'
  <1> USE DEF TaskMoves
  <1>1. LocalsKeep /\ BoundKeep /\ JobsKeep
    <2>1. LocalsKeep
      BY DEF LocalsKeep
    <2>2. BoundKeep
      BY DEF BoundKeep
    <2>3. JobsKeep
      BY DEF JobsKeep
    <2>4. QED
      BY <2>1, <2>2, <2>3
  <1>2. Moves
    BY <1>1 DEF Moves
  <1>3. RidsKnown
    <2>1. ASSUME NEW m \in Jobs, NEW k \in Locals, local[k].job = m
          PROVE  local'[k].rid \in {0, local[k].rid} \cup Accepted(m)
      BY <2>1
    <2>2. \A m \in Jobs : job'[m].rid # 0 => NotedRemote(m, job'[m].rid)
      BY DEF JobInv, Requests, BoundAccepted
    <2>3. QED
      BY <2>1, <2>2 DEF RidsKnown
  <1>4. RequestsKeep
    BY <1>2, <1>3 DEF RequestsKeep
  <1>5. TypeOK'
    BY DEF JobInv, TypeOK
  <1>6. Submitted'
    BY <1>1 DEF LocalsKeep, JobInv, Bookkeeping, Submitted
  <1>7. SavedAgrees'
    BY DEF JobInv, Bookkeeping, SavedAgrees
  <1>8. TasksNoted'
    BY <1>1 DEF LocalsKeep, JobInv, Bookkeeping, TasksNoted
  <1>9. CancelConfirmed'
    BY <1>2, OpKept
  <1>10. ClaimsHold'
    <2>1. ASSUME NEW m \in Jobs, job'[m].remote, NEW s \in Claims(m)'
          PROVE  (job[m].remote /\ s \in Claims(m)) \/ Ends(m, s)
      BY <2>1 DEF Claims
    <2>2. QED
      BY <1>2, <2>1, ClaimsStay
  <1>11. Outcomes'
    <2>1. ASSUME NEW m \in Jobs, NEW k \in Locals', local'[k].job = m, OfRemote(k)'
          PROVE  /\ local'[k].status = "failed" =>
                     \/ local'[k].rid # 0 /\ ~Unsettled(local[k].rid)'
                     \/ local'[k].rid = 0 /\ local'[k].given = 0 /\ node'[local'[k].req] = "refused"
                 /\ local'[k].status = "completed" =>
                     local'[k].rid # 0 /\ node'[local'[k].rid] = "completed"
                 /\ local'[k].status = "cancelled" => Ends(m, "cancelled")'
      <3>1. CASE k # i
        <4>1. local'[k].status = local[k].status /\ local'[k].rid = local[k].rid
          BY <2>1, <3>1
        <4>2. QED
          BY <1>2, <2>1, <4>1, OutcomeKept
      <3>2. CASE k = i /\ local'[i].status = local[i].status
                       /\ (local[i].status \in {"failed", "completed"} => local'[i].rid = local[i].rid)
        BY <1>2, <2>1, <3>2, OutcomeKept
      <3>3. CASE k = i /\ ~OfRemote(i)
        BY <1>1, <2>1, <3>3, DispatchesKept
      <3>4. k = i => m = j
        BY <2>1
      <3>5. QED
        BY <3>1, <3>2, <3>3, <3>4
    <2>2. QED
      BY <2>1 DEF Outcomes
  <1>12. QED
    BY <1>4, <1>5, <1>6, <1>7, <1>8, <1>9, <1>10, <1>11, Advanced

LEMMA PumpTakesStep ==
  ASSUME JobInv, PumpTakes
  PROVE  JobInv'
  <1>1. /\ pump.pc = "run" /\ pump.running = 0
        /\ UNCHANGED <<job, saved, chain, node, op, issued>>
    BY DEF PumpTakes
  <1>2. PICK i \in Queued : /\ local' = [local EXCEPT ![i].status = "running", ![i].pc = "start"]
                            /\ pump' = [pump EXCEPT !.running = i]
    BY DEF PumpTakes
  <1>3. i \in Locals /\ local[i].status = "queued"
    BY DEF Queued, Locals
  <1>4. local[i] \in LocalRecord /\ i \in Nat /\ i # 0 /\ local[i].job \in Jobs /\ i \in 1..Len(local)
    BY <1>3, LocalFacts DEF JobInv, TypeOK, Locals
  <1> DEFINE c == [local[i] EXCEPT !.status = "running", !.pc = "start"]
  <1>5. /\ c \in LocalRecord /\ c.status = "running" /\ c.pc = "start" /\ c.job = local[i].job
        /\ c.req = local[i].req /\ c.given = local[i].given /\ c.rid = local[i].rid
    BY <1>4 DEF LocalRecord
  <1>6. local' = [local EXCEPT ![i] = c]
    BY <1>2, <1>3 DEF Locals
  <1> HIDE DEF c
  <1>7. /\ local' \in Seq(LocalRecord) /\ Locals' = Locals /\ local'[i] = c
        /\ \A k \in Locals \ {i} : local'[k] = local[k]
    BY <1>3, <1>4, <1>5, <1>6, ExceptSeq DEF JobInv, TypeOK, Locals
  <1>8. TaskMoves(i)
    BY <1>1, <1>5, <1>7, NodeStays DEF TaskMoves
  <1>9. /\ pump' \in PumpRecord /\ pump'.pc = "run" /\ pump'.running = i
        /\ pump'.job = pump.job /\ pump'.local = pump.local
    BY <1>1, <1>2, <1>4 DEF JobInv, TypeOK, PumpRecord
  <1>10. PumpOwns'
    <2>1. pump.local \in Locals /\ pump.local # 0
      BY <1>1 DEF JobInv, TypeOK, Bookkeeping, PumpOwns, Locals
    <2>2. local'[pump.local].status = "running" => i = pump.local
      BY <1>1, <1>7, <2>1 DEF JobInv, Bookkeeping, PumpOwns
    <2>3. /\ local'[pump.local].job = local[pump.local].job
          /\ local'[pump.local].req = local[pump.local].req
      BY <1>5, <1>7, <2>1
    <2>4. QED
      BY <1>1, <1>7, <1>9, <2>1, <2>2, <2>3 DEF JobInv, Bookkeeping, PumpOwns
  <1>11. HarnessRuns'
    <2>1. \A k \in Locals : local[k].pc \notin {"start", "bind", "poll"}
      BY <1>1 DEF JobInv, TypeOK, Locals, Bookkeeping, HarnessRuns
    <2>2. \A k \in Locals \ {i} : local'[k] = local[k] /\ local'[k].pc \notin {"start", "bind", "poll"}
      BY <1>7, <2>1
    <2>3. local[i].rid = 0
      BY <1>3 DEF JobInv, Bookkeeping, HarnessRuns
    <2>4. QED
      BY <1>5, <1>7, <1>9, <2>2, <2>3 DEF JobInv, Bookkeeping, HarnessRuns
  <1>12. WorkingIsPumped'
    BY <1>1, <1>9 DEF JobInv, Ending, WorkingIsPumped, PumpOn
  <1>13. job[pump'.job].status # "none"
    BY <1>1, <1>9 DEF JobInv, Bookkeeping, Submitted
  <1>14. PICK j \in Jobs : local[i].job = j
    BY <1>4
  <1>15. local'[i].status = "running"
    BY <1>5, <1>7
  <1>16. QED
    BY <1>3, <1>8, <1>9, <1>10, <1>11, <1>12, <1>13, <1>14, <1>15, TaskMoved

-----------------------------------------------------------------------------
(* The harness *)

LEMMA HarnessFacts ==
  ASSUME JobInv, NEW i \in Locals, local[i].pc \in {"start", "bind", "poll"}
  PROVE  /\ local[i] \in LocalRecord /\ local[i].job \in Jobs
         /\ pump.pc = "run" /\ pump.running = i /\ local[i].status \in {"running", "cancelled"}
         /\ local[i].pc \in {"start", "bind"} => local[i].rid = 0
         /\ local[i].pc = "bind" => Dispatches(i) /\ Taken(local[i].req)
         /\ local[i].pc = "poll" => local[i].rid # 0 /\ OfRemote(i)
         /\ local[i].rid # 0 => local[i].rid \in Accepted(local[i].job)
         /\ local[i].given # 0 => local[i].given \in Accepted(local[i].job)
  <1>1. local[i] \in LocalRecord /\ local[i].job \in Jobs
    BY LocalFacts
  <1>2. /\ local[i].rid # 0 => local[i].rid \in Accepted(local[i].job)
        /\ local[i].given # 0 => local[i].given \in Accepted(local[i].job)
    <2>1. PICK j \in Jobs : j = local[i].job
      BY <1>1
    <2>2. QED
      BY <2>1 DEF JobInv, Requests, BoundAccepted
  <1>3. ASSUME local[i].rid # 0
        PROVE  OfRemote(i)
    <2>1. PICK j \in Jobs : j = local[i].job
      BY <1>1
    <2>2. PICK k \in Locals : Dispatches(k) /\ local[k].job = j
      BY <1>2, <1>3, <2>1, AcceptedFacts
    <2>3. QED
      BY <2>1, <2>2 DEF Dispatches, OfRemote
  <1>4. QED
    BY <1>1, <1>2, <1>3 DEF JobInv, Bookkeeping, HarnessRuns

LEMMA HarnessMoved ==
  ASSUME JobInv, NEW i \in Locals, TaskMoves(i), local[i].pc \in {"start", "bind", "poll"},
         pump' = pump,
         local'[i].pc \in {"bind", "poll", "over"},
         local'[i].pc # "over" => local'[i].status = local[i].status,
         local'[i].pc = "over" => local'[i].status \notin {"queued", "running"},
         local'[i].pc = "bind" => local'[i].rid = 0 /\ Dispatches(i) /\ Taken(local[i].req)',
         local'[i].pc = "poll" => local'[i].rid # 0,
         \/ local'[i].status = local[i].status
         \/ ~OfRemote(i)
         \/ /\ local'[i].status = "failed" =>
                \/ local'[i].rid # 0 /\ ~Unsettled(local[i].rid)'
                \/ local'[i].rid = 0 /\ local'[i].given = 0 /\ node'[local'[i].req] = "refused"
            /\ local'[i].status = "completed" =>
                local'[i].rid # 0 /\ node'[local'[i].rid] = "completed"
            /\ local'[i].status # "cancelled"
  PROVE  JobInv'
  <1>1. /\ local[i] \in LocalRecord /\ local[i].job \in Jobs
        /\ pump.pc = "run" /\ pump.running = i /\ local[i].status \in {"running", "cancelled"}
    BY HarnessFacts
  <1>2. /\ Locals' = Locals /\ \A k \in Locals \ {i} : local'[k] = local[k]
        /\ local'[i].job = local[i].job /\ local'[i].req = local[i].req
        /\ local'[i].given = local[i].given
        /\ UNCHANGED <<job, saved, chain, op, issued>>
    BY DEF TaskMoves
  <1>3. PumpOwns'
    <2>1. pump.local \in Locals
      BY <1>1 DEF JobInv, Bookkeeping, PumpOwns
    <2>2. /\ local'[pump.local].job = local[pump.local].job
          /\ local'[pump.local].req = local[pump.local].req
          /\ local'[pump.local].status = "running" => pump.running = pump.local
      BY <1>1, <1>2, <2>1 DEF JobInv, Bookkeeping, PumpOwns
    <2>3. QED
      BY <1>1, <1>2, <2>1, <2>2 DEF JobInv, Bookkeeping, PumpOwns
  <1>4. HarnessRuns'
    <2>1. \A k \in Locals \ {i} : local[k].pc \notin {"start", "bind", "poll"}
      BY <1>1 DEF JobInv, Bookkeeping, HarnessRuns
    <2>2. \A k \in Locals \ {i} : local'[k] = local[k] /\ local'[k].pc \notin {"start", "bind", "poll"}
      BY <1>2, <2>1
    <2>3. local'[i].pc = "bind" => Dispatches(i)'
      BY <1>2 DEF Dispatches, OfRemote
    <2>4. local'[i].pc = "bind" => Taken(local[i].req)'
      OBVIOUS
    <2>5. local'[i].status # "queued"
      BY <1>1
    <2>6. local'[i].pc # "over" => local'[i].status \in {"running", "cancelled"}
      BY <1>1
    <2>7. QED
      BY <1>1, <1>2, <2>2, <2>3, <2>4, <2>5, <2>6 DEF JobInv, Bookkeeping, HarnessRuns
  <1>5. WorkingIsPumped'
    BY <1>2 DEF JobInv, Ending, WorkingIsPumped, PumpOn
  <1>6. pump' \in PumpRecord /\ (pump'.pc # "idle" => job[pump'.job].status # "none")
    BY DEF JobInv, TypeOK, Bookkeeping, Submitted
  <1>7. local[i].status \notin {"failed", "completed"}
    BY <1>1
  <1>8. PICK j \in Jobs : local[i].job = j
    BY <1>1
  <1>9. QED
    BY <1>3, <1>4, <1>5, <1>6, <1>7, <1>8, TaskMoved

\* The record of task i changes, and nothing else but the node.
LEMMA RecordMoved ==
  ASSUME JobInv, NEW i \in Locals, NEW c \in LocalRecord, local' = [local EXCEPT ![i] = c],
         c.job = local[i].job, c.req = local[i].req, c.given = local[i].given,
         c.rid = local[i].rid \/ (local[i].rid = 0 /\ c.rid \in Accepted(local[i].job)),
         UNCHANGED desktop, NodeKeeps, node' \in [RequestIds -> NodeStatus]
  PROVE  TaskMoves(i) /\ local'[i] = c /\ pump' = pump
  <1>1. i \in 1..Len(local) /\ Locals = 1..Len(local)
    BY DEF JobInv, TypeOK, Locals
  <1>2. /\ local' \in Seq(LocalRecord) /\ Locals' = Locals /\ local'[i] = c
        /\ \A k \in Locals \ {i} : local'[k] = local[k]
    BY <1>1, ExceptSeq DEF JobInv, TypeOK, Locals
  <1>3. QED
    BY <1>2 DEF TaskMoves, desktop

LEMMA SettledStep ==
  ASSUME JobInv, NEW i \in Locals, local[i].pc \in {"start", "poll"},
         NEW s \in {"completed", "failed", "lost", "cancelled"}, Settled(i, s),
         UNCHANGED desktop, NodeKeeps, node' \in [RequestIds -> NodeStatus],
         \/ ~OfRemote(i)
         \/ s = "lost"
         \/ s = "cancelled" /\ local[i].status = "cancelled"
         \/ /\ s = "completed" /\ local[i].rid # 0 /\ node'[local[i].rid] = "completed"
         \/ /\ s = "failed"
            /\ \/ local[i].rid # 0 /\ ~Unsettled(local[i].rid)'
               \/ local[i].rid = 0 /\ local[i].given = 0 /\ node'[local[i].req] = "refused"
  PROVE  JobInv'
  <1>1. local[i] \in LocalRecord /\ local[i].status \in {"running", "cancelled"}
    BY HarnessFacts
  <1>2. PICK t : t = (IF local[i].status = "running" THEN s ELSE local[i].status)
    OBVIOUS
  <1>3. t \in LocalEnded /\ t \notin {"queued", "running"}
    BY <1>1, <1>2 DEF LocalEnded
  <1>4. PICK c : c = [local[i] EXCEPT !.pc = "over", !.status = t]
    OBVIOUS
  <1>5. /\ c \in LocalRecord /\ c.pc = "over" /\ c.status = t /\ c.job = local[i].job
        /\ c.req = local[i].req /\ c.given = local[i].given /\ c.rid = local[i].rid
    BY <1>1, <1>3, <1>4 DEF LocalRecord
  <1>6. local' = [local EXCEPT ![i] = c]
    BY <1>1, <1>2, <1>4 DEF Settled, LocalRecord, Locals
  <1>7. TaskMoves(i) /\ local'[i] = c /\ pump' = pump
    BY <1>5, <1>6, RecordMoved
  <1>8. local'[i].status = local[i].status \/ (local[i].status = "running" /\ local'[i].status = s)
    BY <1>1, <1>2, <1>5, <1>7
  <1>9. local'[i].rid = local[i].rid /\ local'[i].given = local[i].given /\ local'[i].req = local[i].req
    BY <1>5, <1>7
  <1>10. local'[i].pc = "over" /\ local'[i].status \notin {"queued", "running"}
    BY <1>3, <1>5, <1>7
  <1>11. QED
    BY <1>7, <1>8, <1>9, <1>10, HarnessMoved

LEMMA RunsHereStep ==
  ASSUME JobInv, NEW i \in Locals, RunsHere(i)
  PROVE  JobInv'
  <1>1. local[i].pc = "start" /\ ~OfRemote(i) /\ UNCHANGED <<desktop, node>>
    BY DEF RunsHere, OfRemote
  <1>2. PICK s \in {"completed", "failed"} : Settled(i, s)
    BY DEF RunsHere
  <1>3. QED
    BY <1>1, <1>2, NodeStays, SettledStep

LEMMA PollsFailStep ==
  ASSUME JobInv, NEW i \in Locals, PollsFail(i)
  PROVE  JobInv'
  BY NodeStays, SettledStep DEF PollsFail

\* A poll finds one of the outcomes of a request that was taken on.
LEMMA PollStep ==
  ASSUME JobInv, NEW i \in Locals, Poll(i)
  PROVE  JobInv'
  <1>1. local[i].pc = "poll" /\ node[local[i].rid] # "live" /\ UNCHANGED <<desktop, node>>
    BY DEF Poll
  <1>2. local[i].rid # 0 /\ local[i].job \in Jobs /\ local[i].rid \in Accepted(local[i].job)
    BY <1>1, HarnessFacts
  <1>3. Taken(local[i].rid)
    BY <1>2, AcceptedFacts
  <1>4. Settled(i, IF node[local[i].rid] = "completed" THEN "completed" ELSE "failed")
    BY DEF Poll
  <1>5. local[i] \in LocalRecord /\ i \in DOMAIN local
    BY <1>1, HarnessFacts DEF Locals
  <1>6. local'[i].rid = local[i].rid
    BY <1>4, <1>5 DEF Settled, LocalRecord
  <1>7. node'[local[i].rid] # "completed" => ~Unsettled(local[i].rid)'
    BY <1>1, <1>3, <1>6 DEF Unsettled, Taken
  <1>8. CASE node[local[i].rid] = "completed"
    BY <1>1, <1>2, <1>4, <1>8, NodeStays, SettledStep
  <1>9. CASE node[local[i].rid] # "completed"
    BY <1>1, <1>2, <1>4, <1>7, <1>9, NodeStays, SettledStep
  <1>10. QED
    BY <1>8, <1>9

LEMMA AbortStep ==
  ASSUME JobInv, NEW i \in Locals, Abort(i)
  PROVE  JobInv'
  <1>1. /\ local[i].pc = "poll" /\ local[i].status = "cancelled" /\ Settled(i, "cancelled")
        /\ UNCHANGED desktop
        /\ \/ node' = [node EXCEPT ![local[i].rid] = IF @ = "live" THEN "cancelled" ELSE @]
           \/ node' = node
    BY DEF Abort
  <1>2. local[i].job \in Jobs /\ local[i].rid \in Accepted(local[i].job)
    BY <1>1, HarnessFacts
  <1>3. PICK q \in RequestIds : q = local[i].rid
    BY <1>2, AcceptedFacts
  <1>4. NodeKeeps /\ node' \in [RequestIds -> NodeStatus]
    <2>1. CASE node' = node
      BY <2>1, NodeStays
    <2>2. CASE node' = [node EXCEPT ![q] = IF @ = "live" THEN "cancelled" ELSE @]
      <3>1. /\ node' \in [RequestIds -> NodeStatus]
            /\ node'[q] = (IF node[q] = "live" THEN "cancelled" ELSE node[q])
            /\ \A p \in RequestIds \ {q} : node'[p] = node[p]
        BY <2>2 DEF JobInv, TypeOK, NodeStatus
      <3>2. QED
        BY <3>1 DEF NodeKeeps, Unsettled
    <2>3. QED
      BY <1>1, <1>3, <2>1, <2>2
  <1>5. QED
    BY <1>1, <1>4, SettledStep

\* A request is dispatched: by then it is the first, or known to the node.
LEMMA NodeTakes ==
  ASSUME JobInv, NEW i \in Locals, Dispatches(i), NEW q \in RequestIds, q = local[i].req,
         NEW s \in {"live", "refused"}, node[q] = "none", node' = [node EXCEPT ![q] = s]
  PROVE  NodeKeeps /\ node' \in [RequestIds -> NodeStatus] /\ node'[q] = s
  <1>1. /\ node' \in [RequestIds -> NodeStatus] /\ node'[q] = s
        /\ \A p \in RequestIds \ {q} : node'[p] = node[p]
    BY DEF JobInv, TypeOK, NodeStatus
  <1>2. QED
    BY <1>1 DEF NodeKeeps, Unsettled

LEMMA DispatchFailsStep ==
  ASSUME JobInv, NEW i \in Locals, DispatchFails(i)
  PROVE  JobInv'
  <1>1. local[i].pc = "start" /\ Dispatches(i) /\ UNCHANGED desktop
    BY DEF DispatchFails, Dispatches, OfRemote
  <1>2. local[i].rid = 0 /\ local[i].given = 0
    BY <1>1, HarnessFacts DEF Dispatches
  <1>3. PICK q \in RequestIds : q = local[i].req
    BY <1>1, LocalFacts
  <1>4. \/ Settled(i, "lost") /\ node' = node
        \/ node[q] = "none" /\ node' = [node EXCEPT ![q] = "live"] /\ Settled(i, "lost")
        \/ node[q] = "none" /\ node' = [node EXCEPT ![q] = "refused"] /\ Settled(i, "failed")
    BY <1>3 DEF DispatchFails
  <1>5. CASE Settled(i, "lost") /\ node' = node
    BY <1>1, <1>5, NodeStays, SettledStep
  <1>6. CASE node[q] = "none" /\ node' = [node EXCEPT ![q] = "live"] /\ Settled(i, "lost")
    <2>1. NodeKeeps /\ node' \in [RequestIds -> NodeStatus]
      BY <1>1, <1>3, <1>6, NodeTakes
    <2>2. QED
      BY <1>1, <1>6, <2>1, SettledStep
  <1>7. CASE node[q] = "none" /\ node' = [node EXCEPT ![q] = "refused"] /\ Settled(i, "failed")
    <2>1. NodeKeeps /\ node' \in [RequestIds -> NodeStatus] /\ node'[q] = "refused"
      BY <1>1, <1>3, <1>7, NodeTakes
    <2>2. QED
      BY <1>1, <1>2, <1>3, <1>7, <2>1, SettledStep
  <1>8. QED
    BY <1>4, <1>5, <1>6, <1>7

LEMMA DispatchStep ==
  ASSUME JobInv, NEW i \in Locals, Dispatch(i)
  PROVE  JobInv'
  <1>1. local[i].pc = "start" /\ Dispatches(i) /\ UNCHANGED desktop
    BY DEF Dispatch, Dispatches, OfRemote
  <1>2. local[i].rid = 0 /\ local[i].given = 0 /\ local[i] \in LocalRecord
    BY <1>1, HarnessFacts DEF Dispatches
  <1>3. PICK q \in RequestIds : q = local[i].req
    BY <1>1, LocalFacts
  <1>4. /\ node' = [node EXCEPT ![q] = IF @ = "none" THEN "live" ELSE @]
        /\ IF node'[q] = "refused" THEN Settled(i, "failed")
           ELSE local' = [local EXCEPT ![i].pc = "bind"]
    BY <1>3 DEF Dispatch
  <1>5. NodeKeeps /\ node' \in [RequestIds -> NodeStatus] /\ node'[q] # "none"
    <2>1. CASE node[q] = "none"
      <3>1. node' = [node EXCEPT ![q] = "live"]
        BY <1>4, <2>1
      <3>2. QED
        BY <1>1, <1>3, <2>1, <3>1, NodeTakes
    <2>2. CASE node[q] # "none"
      <3>1. node' = node
        BY <1>4, <2>2 DEF JobInv, TypeOK
      <3>2. QED
        BY <2>2, <3>1, NodeStays
    <2>3. QED
      BY <2>1, <2>2
  <1>6. CASE node'[q] = "refused"
    <2>1. Settled(i, "failed") /\ node'[local[i].req] = "refused"
      BY <1>3, <1>4, <1>6
    <2>2. QED
      BY <1>1, <1>2, <1>5, <2>1, SettledStep
  <1>7. CASE node'[q] # "refused"
    <2>1. PICK c : c = [local[i] EXCEPT !.pc = "bind"]
      OBVIOUS
    <2>2. /\ c \in LocalRecord /\ c.pc = "bind" /\ c.status = local[i].status
          /\ c.job = local[i].job /\ c.req = local[i].req /\ c.given = local[i].given
          /\ c.rid = local[i].rid
      BY <1>2, <2>1 DEF LocalRecord
    <2>3. local' = [local EXCEPT ![i] = c]
      BY <1>4, <1>7, <2>1 DEF Locals
    <2>4. TaskMoves(i) /\ local'[i] = c /\ pump' = pump
      BY <1>1, <1>5, <2>2, <2>3, RecordMoved
    <2>5. Taken(local[i].req)'
      BY <1>3, <1>5, <1>7, <2>2, <2>4 DEF Taken
    <2>6. /\ local'[i].pc = "bind" /\ local'[i].status = local[i].status /\ local'[i].rid = 0
      BY <1>2, <2>2, <2>4
    <2>7. QED
      BY <1>1, <2>4, <2>5, <2>6, HarnessMoved
  <1>8. QED
    BY <1>6, <1>7

\* The remote task is noted in the local one.
LEMMA RemoteNoted ==
  ASSUME JobInv, NEW i \in Locals, local[i].pc \in {"start", "bind"},
         NEW q \in Nat, q # 0, q \in Accepted(local[i].job),
         local' = [local EXCEPT ![i].pc = "poll", ![i].rid = q], UNCHANGED <<desktop, node>>
  PROVE  JobInv'
  <1>1. local[i].rid = 0 /\ local[i] \in LocalRecord
    BY HarnessFacts
  <1>2. PICK c : c = [local[i] EXCEPT !.pc = "poll", !.rid = q]
    OBVIOUS
  <1>3. /\ c \in LocalRecord /\ c.pc = "poll" /\ c.status = local[i].status
        /\ c.job = local[i].job /\ c.req = local[i].req /\ c.given = local[i].given
        /\ c.rid = q
    BY <1>1, <1>2 DEF LocalRecord
  <1>4. local' = [local EXCEPT ![i] = c]
    BY <1>2 DEF Locals
  <1>5. TaskMoves(i) /\ local'[i] = c /\ pump' = pump
    BY <1>1, <1>3, <1>4, NodeStays, RecordMoved
  <1>6. local'[i].pc = "poll" /\ local'[i].status = local[i].status /\ local'[i].rid # 0
    BY <1>3, <1>5
  <1>7. QED
    BY <1>5, <1>6, HarnessMoved

LEMMA BindStep ==
  ASSUME JobInv, NEW i \in Locals, Bind(i) \/ Rebind(i)
  PROVE  JobInv'
  <1>1. CASE Bind(i)
    <2>1. local[i].pc = "bind" /\ Dispatches(i) /\ Taken(local[i].req)
      BY <1>1, HarnessFacts DEF Bind
    <2>2. local[i].req \in RequestIds /\ local[i].req # 0 /\ local[i].req \in Nat
      BY <2>1, LocalFacts DEF RequestIds, LocalRecord
    <2>3. local[i].req \in Accepted(local[i].job)
      BY <2>1 DEF Accepted
    <2>4. QED
      BY <1>1, <2>1, <2>2, <2>3, RemoteNoted DEF Bind
  <1>2. CASE Rebind(i)
    <2>1. local[i].pc = "start" /\ local[i].given # 0
      BY <1>2 DEF Rebind
    <2>2. local[i].given \in Nat /\ local[i].given \in Accepted(local[i].job)
      BY <2>1, HarnessFacts DEF LocalRecord
    <2>3. QED
      BY <1>2, <2>1, <2>2, RemoteNoted DEF Rebind
  <1>3. QED
    BY <1>1, <1>2

-----------------------------------------------------------------------------
(* Delegation, the end of a cancel, and restarts *)

LEMMA OwnStep ==
  ASSUME JobInv, Own
  PROVE  JobInv'
  <1>1. pump.pc = "delegated" /\ pump.job \in Jobs
    BY DEF Own, JobInv, TypeOK, PumpRecord
  <1>2. PICK j \in Jobs, i \in {pump.local} : j = pump.job
    BY <1>1
  <1>3. /\ i \in Locals /\ i \in Nat /\ local[i].job = j /\ local[i].req = job[j].req
        /\ job[j].remote => job[j].req # 0
        /\ local[i].status # "running" /\ job[j].status # "none"
    BY <1>1, <1>2 DEF JobInv, TypeOK, Bookkeeping, PumpOwns, Submitted, Locals
  <1>4. /\ SaveJob(j, [job[j] EXCEPT !.tasks = @ \cup {i}])
        /\ pump' = [pump EXCEPT !.pc = "run"]
        /\ UNCHANGED <<chain, local, node, op, issued>>
    BY <1>2 DEF Own
  <1>5. PICK r : r = [job[j] EXCEPT !.tasks = @ \cup {i}]
    OBVIOUS
  <1>6. /\ r \in JobRecord /\ r.tasks = job[j].tasks \cup {i} /\ r.status = job[j].status
        /\ r.remote = job[j].remote /\ r.req = job[j].req /\ r.rid = job[j].rid
    <2>1. job[j] \in JobRecord
      BY DEF JobInv, TypeOK
    <2>2. job[j].tasks \cup {i} \in SUBSET Nat
      BY <1>3, <2>1 DEF JobRecord
    <2>3. QED
      BY <1>5, <2>1, <2>2 DEF JobRecord
  <1>7. /\ job' \in [Jobs -> JobRecord] /\ saved' = job'
        /\ job'[j] = r /\ \A k \in Jobs \ {j} : job'[k] = job[k]
    BY <1>4, <1>5, <1>6, SaveFacts
  <1>8. \A k \in Jobs : /\ job'[k].status = job[k].status /\ job'[k].remote = job[k].remote
                        /\ job'[k].req = job[k].req /\ job'[k].rid = job[k].rid
                        /\ job[k].tasks \subseteq job'[k].tasks
    BY <1>6, <1>7
  <1>9. Locals' = Locals
    BY <1>4 DEF Locals
  <1>10. Moves
    <2>1. LocalsKeep /\ BoundKeep
      BY <1>4, <1>9 DEF LocalsKeep, BoundKeep
    <2>2. JobsKeep
      BY <1>8 DEF JobsKeep
    <2>3. QED
      BY <1>4, <2>1, <2>2, NodeStays DEF Moves
  <1>11. RequestsKeep
    <2>1. RidsKnown
      BY <1>4, <1>8 DEF RidsKnown, JobInv, Requests, BoundAccepted
    <2>2. \A k \in Jobs : saved'[k].rid = 0 => saved[k].rid = 0
      BY <1>7, <1>8 DEF JobInv, Bookkeeping, SavedAgrees
    <2>3. QED
      BY <1>4, <1>8, <1>10, <2>1, <2>2 DEF RequestsKeep
  <1>12. /\ pump' \in PumpRecord /\ pump'.pc = "run" /\ pump'.job = j /\ pump'.local = i
    BY <1>2, <1>4 DEF JobInv, TypeOK, PumpRecord
  <1>13. TypeOK'
    BY <1>4, <1>7, <1>12 DEF JobInv, TypeOK
  <1>14. Submitted'
    <2>1. \A k \in Jobs : job'[k].status = "none" => job'[k] = NewJob
      BY <1>3, <1>6, <1>7 DEF JobInv, Bookkeeping, Submitted
    <2>2. \A k \in Locals : local[k].job \in Jobs
      BY LocalFacts
    <2>3. \A n \in DOMAIN chain : chain[n] \in Jobs
      BY DEF JobInv, TypeOK
    <2>4. op.pc # "idle" => op.job \in Jobs
      BY DEF JobInv, TypeOK, OpRecord
    <2>5. QED
      BY <1>3, <1>4, <1>7, <1>8, <1>9, <1>12, <2>1, <2>2, <2>3, <2>4
         DEF JobInv, Bookkeeping, Submitted
  <1>15. SavedAgrees'
    BY <1>7 DEF SavedAgrees
  <1>16. TasksNoted'
    BY <1>3, <1>4, <1>6, <1>7, <1>9 DEF JobInv, Bookkeeping, TasksNoted
  <1>17. PumpOwns'
    BY <1>3, <1>4, <1>6, <1>7, <1>9, <1>12 DEF PumpOwns
  <1>18. HarnessRuns'
    <2>1. \A k \in Locals : local[k].pc \notin {"start", "bind", "poll"}
      BY <1>1 DEF JobInv, Bookkeeping, HarnessRuns
    <2>2. QED
      BY <1>4, <1>9, <2>1 DEF JobInv, Bookkeeping, HarnessRuns
  <1>19. Outcomes'
    BY <1>4, <1>10, OutcomeKept DEF Outcomes
  <1>20. CancelConfirmed'
    BY <1>4, <1>10, OpKept
  <1>21. ClaimsHold'
    <2>1. ASSUME NEW k \in Jobs, job'[k].remote, NEW s \in Claims(k)'
          PROVE  (job[k].remote /\ s \in Claims(k)) \/ Ends(k, s)
      BY <1>7, <1>8, <2>1 DEF Claims
    <2>2. QED
      BY <1>10, <2>1, ClaimsStay
  <1>22. WorkingIsPumped'
    BY <1>1, <1>2, <1>8, <1>12 DEF JobInv, Ending, WorkingIsPumped, PumpOn
  <1>23. QED
    BY <1>11, <1>13, <1>14, <1>15, <1>16, <1>17, <1>18, <1>19, <1>20, <1>21, <1>22, Advanced

LEMMA CancelLocalsStep ==
  ASSUME JobInv, CancelLocals
  PROVE  JobInv'
  <1>1. /\ op.pc = "locals" /\ op.job \in Jobs /\ op' = [op EXCEPT !.pc = "set"]
        /\ UNCHANGED <<job, saved, chain, pump, node, issued>>
    BY DEF CancelLocals, JobInv, TypeOK, OpRecord
  <1> DEFINE Cancelled(i) == i \in op.tasks /\ local[i].status \notin LocalEnded
  <1>2. local' = [i \in DOMAIN local |->
            IF Cancelled(i)
            THEN [local[i] EXCEPT !.status = "cancelled",
                                  !.pc = IF ~job[local[i].job].remote THEN "over" ELSE @]
            ELSE local[i]]
    BY DEF CancelLocals
  <1>3. ASSUME NEW i \in Locals
        PROVE  /\ local'[i] \in LocalRecord
               /\ local'[i].job = local[i].job /\ local'[i].req = local[i].req
               /\ local'[i].given = local[i].given /\ local'[i].rid = local[i].rid
               /\ ~Cancelled(i) => local'[i] = local[i]
               /\ Cancelled(i) => /\ local'[i].status = "cancelled"
                                  /\ local'[i].pc = IF OfRemote(i) THEN local[i].pc ELSE "over"
    <2>1. local[i] \in LocalRecord
      BY LocalFacts
    <2>2. CASE Cancelled(i)
      <3>1. PICK p : p = (IF OfRemote(i) THEN local[i].pc ELSE "over")
        OBVIOUS
      <3>2. local'[i] = [local[i] EXCEPT !.status = "cancelled", !.pc = p]
        BY <1>2, <2>1, <2>2, <3>1 DEF Locals, OfRemote, LocalRecord
      <3> HIDE DEF Cancelled
      <3>3. QED
        BY <2>1, <2>2, <3>1, <3>2 DEF LocalRecord, LocalEnded
    <2>3. CASE ~Cancelled(i)
      <3>1. local'[i] = local[i]
        BY <1>2, <2>3 DEF Locals
      <3> HIDE DEF Cancelled
      <3>2. QED
        BY <2>1, <2>3, <3>1
    <2>4. QED
      BY <2>2, <2>3
  <1>4. Locals' = Locals /\ local' \in Seq(LocalRecord)
    <2>1. DOMAIN local' = DOMAIN local /\ local' = [i \in DOMAIN local' |-> local'[i]]
      BY <1>2
    <2>2. \A i \in DOMAIN local : local'[i] \in LocalRecord
      BY <1>3 DEF Locals
    <2>3. QED
      BY <2>1, <2>2, SameDomain DEF JobInv, TypeOK, Locals
  <1>5. \A i \in Locals : Cancelled(i) => local[i].job = op.job
    BY <1>1 DEF JobInv, Bookkeeping, TasksNoted, Ending, CancelConfirmed
  <1> HIDE DEF Cancelled
  <1>6. Moves
    <2>1. LocalsKeep /\ BoundKeep
      BY <1>3, <1>4 DEF LocalsKeep, BoundKeep
    <2>2. JobsKeep
      BY <1>1 DEF JobsKeep
    <2>3. QED
      BY <1>1, <2>1, <2>2, NodeStays DEF Moves
  <1>7. RequestsKeep
    <2>1. RidsKnown
      BY <1>1, <1>3 DEF RidsKnown, JobInv, Requests, BoundAccepted
    <2>2. QED
      BY <1>1, <1>6, <2>1 DEF RequestsKeep
  <1>8. /\ op' \in OpRecord /\ op'.pc = "set" /\ op'.job = op.job /\ op'.tasks = op.tasks
    BY <1>1 DEF JobInv, TypeOK, OpRecord
  <1>9. TypeOK'
    BY <1>1, <1>4, <1>8 DEF JobInv, TypeOK
  <1>10. Submitted'
    BY <1>1, <1>3, <1>4, <1>8 DEF JobInv, Bookkeeping, Submitted
  <1>11. SavedAgrees' /\ TasksNoted'
    BY <1>1, <1>3, <1>4 DEF JobInv, Bookkeeping, SavedAgrees, TasksNoted
  <1>12. PumpOwns'
    <2>1. \A i \in Locals : local'[i].status = "running" => local[i].status = "running"
      BY <1>3
    <2>2. QED
      BY <1>1, <1>3, <1>4, <2>1 DEF JobInv, Bookkeeping, PumpOwns
  <1>13. HarnessRuns'
    <2>1. ASSUME NEW i \in Locals
          PROVE  /\ local'[i].pc \in {"start", "bind", "poll"} =>
                     /\ pump.pc = "run" /\ pump.running = i
                     /\ local'[i].status \in {"running", "cancelled"}
                 /\ local'[i].pc = "over" => local'[i].status \notin {"queued", "running"}
                 /\ local'[i].status = "queued" \/ local'[i].pc \in {"start", "bind"} =>
                     local'[i].rid = 0
                 /\ local'[i].pc = "bind" => Dispatches(i)' /\ Taken(local[i].req)'
                 /\ local'[i].pc = "poll" => local'[i].rid # 0
      <3>1. local'[i].pc \in {local[i].pc, "over"}
        BY <1>3
      <3>2. \/ local'[i].status = local[i].status /\ local'[i].pc = local[i].pc
            \/ local'[i].status = "cancelled"
        BY <1>3
      <3>3. local[i].pc = "bind" => Dispatches(i)' /\ Taken(local[i].req)'
        <4>1. local[i].pc = "bind" => Dispatches(i) /\ Taken(local[i].req)
          BY DEF JobInv, Bookkeeping, HarnessRuns
        <4>2. Dispatches(i) => Dispatches(i)'
          BY <1>6, DispatchesKept DEF Moves
        <4>3. Taken(local[i].req) => Taken(local[i].req)'
          BY <1>1, <1>3 DEF Taken
        <4>4. QED
          BY <4>1, <4>2, <4>3
      <3>4. local'[i].rid = local[i].rid
        BY <1>3
      <3>5. QED
        BY <3>1, <3>2, <3>3, <3>4 DEF JobInv, Bookkeeping, HarnessRuns
    <2>2. QED
      BY <1>1, <1>4, <2>1 DEF HarnessRuns
  <1>14. Outcomes'
    <2>1. ASSUME NEW m \in Jobs, NEW k \in Locals', local'[k].job = m, OfRemote(k)'
          PROVE  /\ local'[k].status = "failed" =>
                     \/ local'[k].rid # 0 /\ ~Unsettled(local[k].rid)'
                     \/ local'[k].rid = 0 /\ local'[k].given = 0 /\ node'[local'[k].req] = "refused"
                 /\ local'[k].status = "completed" =>
                     local'[k].rid # 0 /\ node'[local'[k].rid] = "completed"
                 /\ local'[k].status = "cancelled" => Ends(m, "cancelled")'
      <3>1. k \in Locals
        BY <1>4
      <3>2. CASE ~Cancelled(k)
        BY <1>3, <1>6, <2>1, <3>1, <3>2, OutcomeKept
      <3>3. CASE Cancelled(k)
        <4>1. m = op.job /\ job[m].remote /\ local'[k].status = "cancelled"
          BY <1>1, <1>3, <1>5, <2>1, <3>1, <3>3 DEF OfRemote
        <4>2. Ends(m, "cancelled")
          BY <1>1, <4>1 DEF JobInv, Ending, CancelConfirmed
        <4>3. QED
          BY <1>6, <4>1, <4>2, NotedGrows
      <3>4. QED
        BY <3>2, <3>3
    <2>2. QED
      BY <2>1 DEF Outcomes
  <1>15. CancelConfirmed'
    <2>1. ASSUME NEW j \in Jobs, op.job = j
          PROVE  /\ job'[j].remote => Ends(j, "cancelled")'
                 /\ op.tasks \subseteq job'[j].tasks
      <3>1. /\ job[j].remote => Ends(j, "cancelled")
            /\ op.tasks \subseteq job[j].tasks
        BY <1>1, <2>1 DEF JobInv, Ending, CancelConfirmed
      <3>2. QED
        BY <1>1, <1>6, <3>1, NotedGrows
    <2>2. QED
      BY <1>8, <2>1 DEF CancelConfirmed
  <1>16. ClaimsHold'
    <2>1. ASSUME NEW k \in Jobs, job'[k].remote, NEW s \in Claims(k)'
          PROVE  (job[k].remote /\ s \in Claims(k)) \/ Ends(k, s)
      BY <1>1, <2>1 DEF Claims
    <2>2. QED
      BY <1>6, <2>1, ClaimsStay
  <1>17. WorkingIsPumped'
    BY <1>1 DEF JobInv, Ending, WorkingIsPumped, PumpOn
  <1>18. QED
    BY <1>7, <1>9, <1>10, <1>11, <1>12, <1>13, <1>14, <1>15, <1>16, <1>17, Advanced

LEMMA RestartStep ==
  ASSUME JobInv, Restart
  PROVE  JobInv'
  <1>1. /\ job' = [j \in Jobs |->
                IF saved[j].status \notin {"queued", "working", "waiting"} THEN saved[j]
                ELSE IF job[j].remote THEN [saved[j] EXCEPT !.status = "queued", !.due = TRUE]
                ELSE [saved[j] EXCEPT !.status = "failed"]]
        /\ saved' = job'
        /\ local' = [i \in DOMAIN local |-> [local[i] EXCEPT !.pc = "none"]]
        /\ chain' = <<>> /\ pump' = NoPump /\ op' = NoOp
        /\ UNCHANGED <<node, issued>>
    BY DEF Restart
  <1>2. ASSUME NEW j \in Jobs
        PROVE  /\ job'[j] \in JobRecord
               /\ job'[j].remote = saved[j].remote /\ job'[j].req = saved[j].req
               /\ job'[j].rid = saved[j].rid /\ job'[j].tasks = saved[j].tasks
               /\ job'[j].status # "working"
               /\ job'[j].status \in {"completed", "cancelled"} => job'[j].status = saved[j].status
               /\ job'[j].status = "none" => saved[j].status = "none" /\ job'[j] = saved[j]
    <2>1. saved[j] \in JobRecord
      BY DEF JobInv, TypeOK
    <2>2. CASE saved[j].status \notin {"queued", "working", "waiting"}
      <3>1. job'[j] = saved[j]
        BY <1>1, <2>2
      <3>2. QED
        BY <2>1, <2>2, <3>1
    <2>3. CASE saved[j].status \in {"queued", "working", "waiting"} /\ job[j].remote
      <3>1. job'[j] = [saved[j] EXCEPT !.status = "queued", !.due = TRUE]
        BY <1>1, <2>3
      <3>2. /\ job'[j] \in JobRecord /\ job'[j].status = "queued"
            /\ job'[j].remote = saved[j].remote /\ job'[j].req = saved[j].req
            /\ job'[j].rid = saved[j].rid /\ job'[j].tasks = saved[j].tasks
        BY <2>1, <3>1 DEF JobRecord, JobStatus
      <3>3. QED
        BY <3>2
    <2>4. CASE saved[j].status \in {"queued", "working", "waiting"} /\ ~job[j].remote
      <3>1. job'[j] = [saved[j] EXCEPT !.status = "failed"]
        BY <1>1, <2>4
      <3>2. QED
        BY <2>1, <2>4, <3>1 DEF JobRecord, JobStatus
    <2>5. QED
      BY <2>2, <2>3, <2>4
  <1>3. \A j \in Jobs : /\ saved[j].remote = job[j].remote /\ saved[j].req = job[j].req
                        /\ saved[j].tasks = job[j].tasks /\ saved[j].rid \in {0, job[j].rid}
    BY DEF JobInv, Bookkeeping, SavedAgrees
  <1>4. \A j \in Jobs : job'[j].status = "none" => job'[j] = job[j] /\ job[j].status = "none"
    BY <1>2 DEF JobInv, Bookkeeping, Submitted
  <1>5. ASSUME NEW i \in Locals
        PROVE  /\ local'[i] \in LocalRecord /\ local'[i].pc = "none"
               /\ local'[i].job = local[i].job /\ local'[i].req = local[i].req
               /\ local'[i].given = local[i].given /\ local'[i].rid = local[i].rid
               /\ local'[i].status = local[i].status
    <2>1. local[i] \in LocalRecord
      BY LocalFacts
    <2>2. local'[i] = [local[i] EXCEPT !.pc = "none"]
      BY <1>1 DEF Locals
    <2>3. QED
      BY <2>1, <2>2 DEF LocalRecord
  <1>6. Locals' = Locals /\ local' \in Seq(LocalRecord)
    <2>1. DOMAIN local' = DOMAIN local /\ local' = [i \in DOMAIN local' |-> local'[i]]
      BY <1>1
    <2>2. \A i \in DOMAIN local : local'[i] \in LocalRecord
      BY <1>5 DEF Locals
    <2>3. QED
      BY <2>1, <2>2, SameDomain DEF JobInv, TypeOK, Locals
  <1>7. Moves
    <2>1. LocalsKeep /\ BoundKeep
      BY <1>5, <1>6 DEF LocalsKeep, BoundKeep
    <2>2. JobsKeep
      BY <1>2, <1>3 DEF JobsKeep
    <2>3. QED
      BY <1>1, <2>1, <2>2, NodeStays DEF Moves
  <1>8. RequestsKeep
    <2>1. \A j \in Jobs : job'[j].rid # 0 => NotedRemote(j, job'[j].rid)
      BY <1>2, <1>3 DEF JobInv, Requests, BoundAccepted
    <2>2. RidsKnown
      BY <1>5, <2>1 DEF RidsKnown
    <2>3. ASSUME NEW j \in Jobs
          PROVE  job'[j].req = job[j].req /\ (saved'[j].rid = 0 => saved[j].rid = 0)
      <3>1. saved' = job'
        BY <1>1
      <3>2. QED
        BY <1>2, <1>3, <3>1
    <2>4. issued' = issued
      BY <1>1
    <2>5. QED
      BY <1>7, <2>2, <2>3, <2>4 DEF RequestsKeep
  <1>9. TypeOK'
    <2>1. job' \in [Jobs -> JobRecord]
      BY <1>1, <1>2
    <2>2. chain' \in Seq(Jobs)
      BY <1>1, EmptySeq
    <2>3. QED
      BY <1>1, <1>6, <2>1, <2>2, NoPumpType DEF JobInv, TypeOK
  <1>10. pump'.pc = "idle" /\ op'.pc = "idle" /\ DOMAIN chain' = {}
    <2>1. chain' \in Seq(Jobs) /\ Len(chain') = 0
      BY <1>1, EmptySeq
    <2>2. DOMAIN chain' = 1..Len(chain')
      BY <2>1, LenProperties
    <2>3. DOMAIN chain' = {}
      BY <2>1, <2>2
    <2>4. pump' = NoPump /\ op' = NoOp
      BY <1>1
    <2>5. QED
      BY <2>3, <2>4 DEF NoPump, NoOp
  <1>11. Submitted'
    <2>1. \A i \in Locals' : job'[local'[i].job].status # "none"
      BY <1>4, <1>5, <1>6, LocalFacts
    <2>2. \A j \in Jobs : job'[j].status = "none" => job'[j] = NewJob
      BY <1>4 DEF JobInv, Bookkeeping, Submitted
    <2>3. QED
      BY <1>1, <1>10, <2>1, <2>2 DEF Submitted
  <1>12. SavedAgrees'
    BY <1>1 DEF SavedAgrees
  <1>13. TasksNoted'
    BY <1>2, <1>3, <1>5, <1>6 DEF JobInv, Bookkeeping, TasksNoted
  <1>14. PumpOwns'
    BY <1>10 DEF PumpOwns
  <1>15. HarnessRuns'
    BY <1>5, <1>6 DEF JobInv, Bookkeeping, HarnessRuns
  <1>16. Outcomes'
    BY <1>5, <1>6, <1>7, OutcomeKept DEF Outcomes
  <1>17. CancelConfirmed'
    BY <1>1, <1>7, OpKept
  <1>18. ClaimsHold'
    <2>1. ASSUME NEW j \in Jobs, job'[j].remote, NEW s \in Claims(j)'
          PROVE  (job[j].remote /\ s \in Claims(j)) \/ Ends(j, s)
      <3>1. job[j].remote
        BY <1>2, <1>3, <2>1
      <3>2. s = job'[j].status /\ s \in {"completed", "cancelled"}
        BY <1>1, <2>1 DEF Claims
      <3>3. s = saved[j].status
        BY <1>2, <3>2
      <3>4. QED
        BY <3>1, <3>2, <3>3 DEF Claims
    <2>2. QED
      BY <1>7, <2>1, ClaimsStay
  <1>19. WorkingIsPumped'
    BY <1>2 DEF WorkingIsPumped
  <1>20. QED
    BY <1>8, <1>9, <1>11, <1>12, <1>13, <1>14, <1>15, <1>16, <1>17, <1>18, <1>19, Advanced

\* A new local task: of the pump's job and its present request.
LEMMA DelegateFacts ==
  ASSUME JobInv, Delegate, NEW j \in Jobs, j = pump.job, NEW n, n = Len(local) + 1
  PROVE  /\ pump.pc = "plan" /\ job[j].status # "none" /\ (job[j].remote => job[j].req # 0)
         /\ UNCHANGED <<job, saved, chain, node, op, issued>>
         /\ pump' \in PumpRecord /\ pump'.pc = "delegated" /\ pump'.job = j /\ pump'.local = n
         /\ local' \in Seq(LocalRecord) /\ Locals' = Locals \cup {n} /\ n \notin Locals
         /\ \A i \in Locals : local'[i] = local[i]
         /\ local'[n] = [job |-> j, req |-> job[j].req, given |-> job[j].rid,
                         rid |-> 0, status |-> "queued", pc |-> "none"]
  <1>1. /\ pump.pc = "plan" /\ job[j].status # "none" /\ (job[j].remote => job[j].req # 0)
        /\ UNCHANGED <<job, saved, chain, node, op, issued>>
    BY DEF Delegate, JobInv, Bookkeeping, Submitted, PumpOwns
  <1>2. Len(local) \in Nat /\ Locals = 1..Len(local) /\ n \in Nat /\ n \notin Locals
    BY DEF JobInv, TypeOK, Locals
  <1>3. PICK c : c = [job |-> j, req |-> job[j].req, given |-> job[j].rid,
                      rid |-> 0, status |-> "queued", pc |-> "none"]
    OBVIOUS
  <1>4. c \in LocalRecord
    BY <1>3 DEF LocalRecord, JobInv, TypeOK, JobRecord
  <1>5. local' = Append(local, c)
    BY <1>3 DEF Delegate
  <1>6. /\ local' \in Seq(LocalRecord) /\ Len(local') = n
        /\ \A i \in 1..Len(local) : local'[i] = local[i]
        /\ local'[n] = c
    BY <1>4, <1>5, AppendProperties DEF JobInv, TypeOK
  <1>7. Locals' = 1..n
    BY <1>6, LenProperties DEF Locals
  <1>8. Locals' = Locals \cup {n}
    BY <1>2, <1>7
  <1>9. pump' \in PumpRecord /\ pump'.pc = "delegated" /\ pump'.job = j /\ pump'.local = n
    BY <1>2 DEF Delegate, JobInv, TypeOK, PumpRecord
  <1>10. QED
    BY <1>1, <1>2, <1>3, <1>6, <1>8, <1>9

\* What the jobs' requests are after it.
LEMMA DelegateKeeps ==
  ASSUME JobInv, Delegate, NEW j \in Jobs, j = pump.job, NEW n, n = Len(local) + 1
  PROVE  /\ \A i \in Locals : /\ OfRemote(i)' = OfRemote(i) /\ Dispatches(i)' = Dispatches(i)
                              /\ Unsettled(local[i].req)' = Unsettled(local[i].req)
         /\ \A m \in Jobs : /\ Noted(m)' = Noted(m) /\ \A q : NotedRemote(m, q) => NotedRemote(m, q)'
                            /\ \A s : Ends(m, s) => Ends(m, s)'
                            /\ Accepted(m) \subseteq Accepted(m)'
                            /\ m # j => Accepted(m)' \subseteq Accepted(m)
         /\ Accepted(j)' \subseteq Accepted(j) \cup {job[j].req}
  <1>1. /\ UNCHANGED <<job, saved, chain, node, op, issued>>
        /\ Locals' = Locals \cup {n} /\ n \notin Locals
        /\ \A i \in Locals : local'[i] = local[i]
        /\ local'[n].job = j /\ local'[n].req = job[j].req
    <2>1. /\ UNCHANGED <<job, saved, chain, node, op, issued>>
          /\ Locals' = Locals \cup {n} /\ n \notin Locals
          /\ \A i \in Locals : local'[i] = local[i]
          /\ local'[n] = [job |-> j, req |-> job[j].req, given |-> job[j].rid,
                          rid |-> 0, status |-> "queued", pc |-> "none"]
      BY DelegateFacts
    <2>2. QED
      BY <2>1
  <1>2. ASSUME NEW i \in Locals
        PROVE  /\ OfRemote(i)' = OfRemote(i) /\ Dispatches(i)' = Dispatches(i)
               /\ Unsettled(local[i].req)' = Unsettled(local[i].req)
               /\ Taken(local[i].req)' = Taken(local[i].req)
    BY <1>1 DEF OfRemote, Dispatches, Unsettled, Taken
  <1>3. ASSUME NEW m \in Jobs
        PROVE  /\ Noted(m)' = Noted(m)
               /\ \A k \in Noted(m) : local'[k] = local[k]
    BY <1>1 DEF Noted, JobInv, Bookkeeping, TasksNoted
  <1>4. ASSUME NEW m \in Jobs
        PROVE  /\ \A q : NotedRemote(m, q) => NotedRemote(m, q)'
               /\ \A s : Ends(m, s) => Ends(m, s)'
    BY <1>1, <1>3 DEF NotedRemote, Ends
  <1>5. ASSUME NEW m \in Jobs, NEW a \in Accepted(m)
        PROVE  a \in Accepted(m)'
    <2>1. PICK k \in Locals : /\ Dispatches(k) /\ local[k].job = m /\ local[k].req = a
                              /\ Taken(local[k].req)
      BY DEF Accepted
    <2>2. k \in Locals' /\ Dispatches(k)' /\ local'[k].job = m /\ local'[k].req = a
          /\ Taken(local[k].req)'
      BY <1>1, <1>2, <2>1
    <2>3. QED
      BY <2>2 DEF Accepted
  <1>6. ASSUME NEW m \in Jobs, NEW a \in Accepted(m)', a \notin Accepted(m)
        PROVE  m = j /\ a = job[j].req
    <2>1. PICK k \in Locals' : /\ Dispatches(k)' /\ local'[k].job = m /\ local'[k].req = a
                               /\ Taken(local[k].req)'
      BY DEF Accepted
    <2>2. CASE k \in Locals
      <3>1. Dispatches(k) /\ local[k].job = m /\ local[k].req = a /\ Taken(local[k].req)
        BY <1>1, <1>2, <2>1, <2>2
      <3>2. QED
        BY <1>6, <2>2, <3>1 DEF Accepted
    <2>3. CASE k = n
      BY <1>1, <2>1, <2>3
    <2>4. QED
      BY <1>1, <2>2, <2>3
  <1>7. QED
    BY <1>2, <1>3, <1>4, <1>5, <1>6

LEMMA DelegateRequests ==
  ASSUME JobInv, Delegate
  PROVE  Requests' /\ Ids'
  <1>1. pump.job \in Jobs
    BY DEF Delegate, JobInv, TypeOK, PumpRecord
  <1>2. PICK j \in Jobs, n \in {Len(local) + 1} : j = pump.job
    BY <1>1
  <1>3. /\ job[j].status # "none" /\ (job[j].remote => job[j].req # 0)
        /\ UNCHANGED <<job, saved, node, issued>>
        /\ Locals' = Locals \cup {n} /\ n \notin Locals
        /\ \A i \in Locals : local'[i] = local[i]
        /\ local'[n] = [job |-> j, req |-> job[j].req, given |-> job[j].rid,
                        rid |-> 0, status |-> "queued", pc |-> "none"]
    BY <1>2, DelegateFacts
  <1>4. /\ local'[n].job = j /\ local'[n].req = job[j].req /\ local'[n].given = job[j].rid
        /\ local'[n].rid = 0
    BY <1>3
  <1>5. /\ \A i \in Locals : /\ OfRemote(i)' = OfRemote(i) /\ Dispatches(i)' = Dispatches(i)
                             /\ Unsettled(local[i].req)' = Unsettled(local[i].req)
        /\ \A m \in Jobs : /\ Noted(m)' = Noted(m)
                           /\ \A q : NotedRemote(m, q) => NotedRemote(m, q)'
                           /\ Accepted(m) \subseteq Accepted(m)'
                           /\ m # j => Accepted(m)' \subseteq Accepted(m)
        /\ Accepted(j)' \subseteq Accepted(j) \cup {job[j].req}
    BY <1>2, DelegateKeeps
  <1>6. OfRemote(n)' = job[j].remote /\ (Dispatches(n)' <=> job[j].remote /\ job[j].rid = 0)
    BY <1>3, <1>4 DEF OfRemote, Dispatches
  <1>7. job[j].rid # 0 => job[j].rid \in Accepted(j)
    <2>1. ASSUME job[j].rid # 0
          PROVE  job[j].rid \in Accepted(j)
      <3>1. PICK k \in Noted(j) : local[k].rid = job[j].rid
        BY <2>1 DEF JobInv, Requests, BoundAccepted, NotedRemote
      <3>2. QED
        BY <3>1, NotedFacts
    <2>2. QED
      BY <2>1
  <1>8. ~job[j].remote => job[j].rid = 0 /\ job[j].req = 0
    <2>1. ASSUME ~job[j].remote, job[j].rid # 0
          PROVE  FALSE
      <3>1. PICK k \in Locals : Dispatches(k) /\ local[k].job = j
        BY <1>7, <2>1, AcceptedFacts
      <3>2. QED
        BY <2>1, <3>1 DEF Dispatches, OfRemote
    <2>2. QED
      BY <2>1 DEF JobInv, Bookkeeping, Ids
  <1>9. Owned'
    <2>1. ASSUME NEW q \in RequestIds, node'[q] # "none"
          PROVE  \E i \in Locals' : Dispatches(i)' /\ local'[i].req = q
      <3>1. PICK i \in Locals : Dispatches(i) /\ local[i].req = q
        BY <1>3, <2>1 DEF JobInv, Requests, Owned
      <3>2. QED
        BY <1>3, <1>5, <3>1
    <2>2. QED
      BY <2>1 DEF Owned
  <1>10. BoundAccepted'
    <2>1. ASSUME NEW m \in Jobs, NEW i \in Locals', local'[i].job = m
          PROVE  {local'[i].rid, local'[i].given} \subseteq {0} \cup Accepted(m)'
      <3>1. CASE i \in Locals
        BY <1>3, <1>5, <2>1, <3>1 DEF JobInv, Requests, BoundAccepted
      <3>2. CASE i = n
        BY <1>4, <1>5, <1>7, <2>1, <3>2
      <3>3. QED
        BY <1>3, <3>1, <3>2
    <2>2. ASSUME NEW m \in Jobs, job'[m].rid # 0
          PROVE  NotedRemote(m, job[m].rid)'
      <3>1. PICK k \in Noted(m) : local[k].rid = job[m].rid
        BY <1>3, <2>2 DEF JobInv, Requests, BoundAccepted, NotedRemote
      <3>2. k \in Noted(m)' /\ local'[k].rid = job'[m].rid
        BY <1>3, <1>5, <3>1, NotedFacts
      <3>3. QED
        BY <3>2 DEF NotedRemote
    <2>3. QED
      BY <2>1, <2>2 DEF BoundAccepted
  <1>11. OnlyPresent'
    <2>1. ASSUME NEW i \in Locals', Dispatches(i)', Unsettled(local[i].req)'
          PROVE  job'[local'[i].job].req = local'[i].req
      <3>1. CASE i \in Locals
        BY <1>3, <1>5, <2>1, <3>1 DEF JobInv, Requests, OnlyPresent
      <3>2. CASE i = n
        BY <1>3, <1>4, <3>2
      <3>3. QED
        BY <1>3, <3>1, <3>2
    <2>2. QED
      BY <2>1 DEF OnlyPresent
  <1>12. FirstAccepted'
    <2>1. ASSUME NEW m \in Jobs, NEW i \in Locals', local'[i].job = m, Dispatches(i)',
                 Unsettled(local[i].req)'
          PROVE  Accepted(m)' \subseteq {local'[i].req}
      <3>1. CASE i \in Locals
        <4>1. Dispatches(i) /\ Unsettled(local[i].req) /\ local[i].job = m /\ local'[i] = local[i]
          BY <1>3, <1>5, <2>1, <3>1
        <4>2. Accepted(m) \subseteq {local[i].req} /\ job[m].req = local[i].req
          BY <3>1, <4>1 DEF JobInv, Requests, FirstAccepted, OnlyPresent
        <4>3. QED
          BY <1>5, <4>1, <4>2
      <3>2. CASE i = n
        <4>1. m = j /\ job[j].remote /\ job[j].rid = 0 /\ local'[i].req = job[j].req
          BY <1>4, <1>6, <2>1, <3>2
        <4>2. node[job[j].req] \in {"none", "live"}
          BY <1>3, <2>1, <3>2, <4>1 DEF Unsettled
        <4>3. saved[j].rid = 0
          BY <4>1 DEF JobInv, Bookkeeping, SavedAgrees
        <4>4. Accepted(j) \subseteq {job[j].req}
          BY <1>3, <4>1, <4>2, <4>3 DEF JobInv, Requests, NewIsFirst
        <4>5. QED
          BY <1>5, <4>1, <4>4
      <3>3. QED
        BY <1>3, <3>1, <3>2
    <2>2. QED
      BY <2>1 DEF FirstAccepted
  <1>13. NotedBeforeNew'
    BY <1>3, <1>5 DEF JobInv, Requests, NotedBeforeNew
  <1>14. NewIsFirst'
    <2>1. ASSUME NEW m \in Jobs, job'[m].req # 0, saved'[m].rid = 0,
                 node'[job'[m].req] \in {"none", "live", "refused"}
          PROVE  Accepted(m)' \subseteq {job'[m].req}
      <3>1. Accepted(m) \subseteq {job[m].req}
        BY <1>3, <2>1 DEF JobInv, Requests, NewIsFirst
      <3>2. QED
        BY <1>3, <1>5, <3>1
    <2>2. QED
      BY <2>1 DEF NewIsFirst
  <1>15. Ids'
    <2>1. \A i \in Locals' : IF OfRemote(i)' THEN local'[i].req \in 1..issued'
                             ELSE local'[i].req = 0 /\ local'[i].given = 0
      <3>1. ASSUME NEW i \in Locals
            PROVE  IF OfRemote(i)' THEN local'[i].req \in 1..issued'
                   ELSE local'[i].req = 0 /\ local'[i].given = 0
        BY <1>3, <1>5 DEF JobInv, Bookkeeping, Ids
      <3>2. issued \in Nat /\ job[j].req \in 0..issued
        BY DEF JobInv, TypeOK, Bookkeeping, Ids
      <3>3. IF OfRemote(n)' THEN local'[n].req \in 1..issued'
            ELSE local'[n].req = 0 /\ local'[n].given = 0
        BY <1>3, <1>4, <1>6, <1>8, <3>2
      <3>4. QED
        BY <1>3, <3>1, <3>3
    <2>2. \A i, k \in Locals' :
            local'[i].req # 0 /\ local'[i].req = local'[k].req => local'[i].job = local'[k].job
      BY <1>3, <1>4 DEF JobInv, Bookkeeping, Ids
    <2>3. \A i \in Locals', m \in Jobs :
            local'[i].req # 0 /\ local'[i].req = job'[m].req => local'[i].job = m
      BY <1>3, <1>4 DEF JobInv, Bookkeeping, Ids
    <2>4. QED
      BY <1>3, <2>1, <2>2, <2>3 DEF JobInv, Bookkeeping, Ids
  <1>16. QED
    BY <1>9, <1>10, <1>11, <1>12, <1>13, <1>14, <1>15 DEF Requests

LEMMA DelegateStep ==
  ASSUME JobInv, Delegate
  PROVE  JobInv'
  <1>1. pump.job \in Jobs
    BY DEF Delegate, JobInv, TypeOK, PumpRecord
  <1>2. PICK j \in Jobs, n \in {Len(local) + 1} : j = pump.job
    BY <1>1
  <1>3. /\ pump.pc = "plan" /\ job[j].status # "none" /\ (job[j].remote => job[j].req # 0)
        /\ UNCHANGED <<job, saved, chain, node, op, issued>>
        /\ pump' \in PumpRecord /\ pump'.pc = "delegated" /\ pump'.job = j /\ pump'.local = n
        /\ local' \in Seq(LocalRecord) /\ Locals' = Locals \cup {n} /\ n \notin Locals
        /\ \A i \in Locals : local'[i] = local[i]
        /\ local'[n] = [job |-> j, req |-> job[j].req, given |-> job[j].rid,
                        rid |-> 0, status |-> "queued", pc |-> "none"]
    BY <1>2, DelegateFacts
  <1>4. /\ local'[n].job = j /\ local'[n].req = job[j].req /\ local'[n].given = job[j].rid
        /\ local'[n].rid = 0 /\ local'[n].status = "queued" /\ local'[n].pc = "none"
    BY <1>3
  <1>5. /\ \A i \in Locals : OfRemote(i)' = OfRemote(i) /\ Dispatches(i)' = Dispatches(i)
        /\ \A m \in Jobs : /\ \A q : NotedRemote(m, q) => NotedRemote(m, q)'
                           /\ \A s : Ends(m, s) => Ends(m, s)'
    BY <1>2, DelegateKeeps
  <1>6. TypeOK'
    BY <1>3 DEF JobInv, TypeOK
  <1>7. Submitted'
    <2>1. \A i \in Locals' : job'[local'[i].job].status # "none"
      BY <1>3, <1>4 DEF JobInv, Bookkeeping, Submitted
    <2>2. QED
      BY <1>3, <2>1 DEF JobInv, Bookkeeping, Submitted
  <1>8. SavedAgrees'
    BY <1>3 DEF JobInv, Bookkeeping, SavedAgrees
  <1>9. TasksNoted'
    BY <1>3 DEF JobInv, Bookkeeping, TasksNoted
  <1>10. PumpOwns'
    BY <1>3, <1>4 DEF PumpOwns
  <1>11. HarnessRuns'
    <2>1. ASSUME NEW i \in Locals
          PROVE  /\ local'[i].pc \notin {"start", "bind", "poll"}
                 /\ local'[i].pc = "over" => local'[i].status \notin {"queued", "running"}
                 /\ local'[i].status = "queued" => local'[i].rid = 0
      <3>1. local'[i] = local[i] /\ pump.pc # "run"
        BY <1>3
      <3>2. QED
        BY <3>1 DEF JobInv, Bookkeeping, HarnessRuns
    <2>2. QED
      BY <1>3, <1>4, <2>1 DEF HarnessRuns
  <1>12. Outcomes'
    <2>1. ASSUME NEW m \in Jobs, NEW i \in Locals', local'[i].job = m, OfRemote(i)'
          PROVE  /\ local'[i].status = "failed" =>
                     \/ local'[i].rid # 0 /\ ~Unsettled(local[i].rid)'
                     \/ local'[i].rid = 0 /\ local'[i].given = 0 /\ node'[local'[i].req] = "refused"
                 /\ local'[i].status = "completed" =>
                     local'[i].rid # 0 /\ node'[local'[i].rid] = "completed"
                 /\ local'[i].status = "cancelled" => Ends(m, "cancelled")'
      <3>1. CASE i \in Locals
        <4>1. local'[i] = local[i] /\ OfRemote(i) /\ node' = node
          BY <1>3, <1>5, <2>1, <3>1
        <4>2. local[i].job = m
          BY <2>1, <4>1
        <4>3. /\ local[i].status = "failed" =>
                  \/ local[i].rid # 0 /\ ~Unsettled(local[i].rid)
                  \/ local[i].rid = 0 /\ local[i].given = 0 /\ node[local[i].req] = "refused"
              /\ local[i].status = "completed" =>
                  local[i].rid # 0 /\ node[local[i].rid] = "completed"
              /\ local[i].status = "cancelled" => Ends(m, "cancelled")
          BY <3>1, <4>1, <4>2 DEF JobInv, Ending, Outcomes
        <4>4. QED
          BY <1>5, <4>1, <4>3 DEF Unsettled
      <3>2. CASE i = n
        BY <1>4, <3>2
      <3>3. QED
        BY <1>3, <3>1, <3>2
    <2>2. QED
      BY <2>1 DEF Outcomes
  <1>13. CancelConfirmed'
    <2>1. ASSUME NEW m \in Jobs, op.job = m
          PROVE  /\ op.pc = "remote" => job[m].remote /\ NotedRemote(m, op.rid)
                 /\ op.pc \in {"locals", "set"} /\ job[m].remote => Ends(m, "cancelled")
                 /\ op.pc # "idle" => op.tasks \subseteq job[m].tasks
      BY <2>1 DEF JobInv, Ending, CancelConfirmed
    <2>2. ASSUME NEW m \in Jobs, op.job = m
          PROVE  /\ op.pc = "remote" => job'[m].remote /\ NotedRemote(m, op.rid)'
                 /\ op.pc \in {"locals", "set"} /\ job'[m].remote => Ends(m, "cancelled")'
                 /\ op.pc # "idle" => op.tasks \subseteq job'[m].tasks
      <3>1. op' = op
        BY <1>3
      <3>2. NotedRemote(m, op.rid) => NotedRemote(m, op.rid)'
        <4>1. ASSUME NotedRemote(m, op.rid)
              PROVE  NotedRemote(m, op.rid)'
          <5>1. PICK k \in Noted(m) : local[k].rid = op.rid
            BY <4>1 DEF NotedRemote
          <5>2. k \in Locals /\ local'[k] = local[k] /\ job' = job
            BY <1>3, <5>1, NotedFacts
          <5>3. k \in Noted(m)' /\ local'[k].rid = op'.rid
            BY <3>1, <5>1, <5>2 DEF Noted
          <5>4. QED
            BY <5>3 DEF NotedRemote
        <4>2. QED
          BY <4>1
      <3>3. QED
        BY <1>3, <1>5, <2>1, <2>2, <3>2
    <2>3. QED
      BY <1>3, <2>2 DEF CancelConfirmed
  <1>14. ClaimsHold'
    <2>1. ASSUME NEW m \in Jobs, job'[m].remote, NEW s \in Claims(m)'
          PROVE  Ends(m, s)'
      <3>1. job[m].remote /\ s \in Claims(m)
        BY <1>3, <2>1 DEF Claims
      <3>2. QED
        BY <1>5, <3>1 DEF JobInv, Ending, ClaimsHold
    <2>2. QED
      BY <2>1 DEF ClaimsHold
  <1>15. WorkingIsPumped'
    BY <1>2, <1>3 DEF JobInv, Ending, WorkingIsPumped, PumpOn
  <1>16. QED
    BY <1>6, <1>7, <1>8, <1>9, <1>10, <1>11, <1>12, <1>13, <1>14, <1>15, DelegateRequests
       DEF JobInv, Bookkeeping, Ending

-----------------------------------------------------------------------------
(* The invariant, and what follows from it *)

LEMMA Initial ==
  ASSUME Init
  PROVE  JobInv
  <1>1. /\ job = [j \in Jobs |-> NewJob] /\ saved = job /\ chain = <<>> /\ pump = NoPump
        /\ local = <<>> /\ node = [q \in RequestIds |-> "none"] /\ op = NoOp /\ issued = 0
    BY DEF Init
  <1>2. \A j \in Jobs : /\ job[j] = NewJob /\ saved[j] = NewJob /\ job[j].status = "none"
                        /\ ~job[j].remote /\ job[j].req = 0 /\ job[j].rid = 0
                        /\ job[j].tasks = {}
    BY <1>1 DEF NewJob
  <1>3. pump.pc = "idle" /\ op.pc = "idle"
    BY <1>1 DEF NoPump, NoOp
  <1>4. local \in Seq(LocalRecord) /\ Locals = {}
    BY <1>1, EmptySeq DEF Locals
  <1>5. chain \in Seq(Jobs) /\ DOMAIN chain = {}
    BY <1>1, EmptySeq
  <1>6. TypeOK
    BY <1>1, <1>4, <1>5, NewJobType, NoPumpType DEF TypeOK, NodeStatus
  <1>7. Submitted /\ SavedAgrees /\ TasksNoted /\ PumpOwns /\ HarnessRuns
    BY <1>1, <1>2, <1>3, <1>4, <1>5
       DEF Submitted, SavedAgrees, TasksNoted, PumpOwns, HarnessRuns
  <1>8. Ids
    BY <1>1, <1>2, <1>4, JobAssumption DEF Ids
  <1>9. \A j \in Jobs : Accepted(j) = {}
    BY <1>4 DEF Accepted
  <1>10. Requests
    BY <1>1, <1>2, <1>4, <1>9 DEF Requests, Owned, BoundAccepted, OnlyPresent, FirstAccepted,
       NotedBeforeNew, NewIsFirst
  <1>11. Ending
    BY <1>2, <1>3, <1>4 DEF Ending, Outcomes, CancelConfirmed, ClaimsHold, Claims,
       WorkingIsPumped
  <1>12. QED
    BY <1>6, <1>7, <1>8, <1>10, <1>11 DEF JobInv, Bookkeeping

LEMMA Stuttering ==
  ASSUME JobInv, UNCHANGED vars
  PROVE  JobInv'
  <1>1. TypeOK'
    BY DEF vars, JobInv, TypeOK
  <1>2. Bookkeeping'
    <2>1. Submitted' /\ SavedAgrees' /\ TasksNoted'
      BY DEF vars, JobInv, Bookkeeping, Submitted, SavedAgrees, TasksNoted, Locals
    <2>2. PumpOwns' /\ HarnessRuns'
      BY DEF vars, JobInv, Bookkeeping, PumpOwns, HarnessRuns, Locals, OfRemote, Dispatches,
         Taken
    <2>3. Ids'
      BY DEF vars, JobInv, Bookkeeping, Ids, Locals, OfRemote
    <2>4. QED
      BY <2>1, <2>2, <2>3 DEF Bookkeeping
  <1>3. Requests'
    <2>1. /\ UNCHANGED <<job, saved, local, node>> /\ Locals' = Locals
          /\ \A j \in Jobs : Accepted(j)' = Accepted(j) /\ Noted(j)' = Noted(j)
      BY DEF vars, Locals, OfRemote, Dispatches, Taken, Accepted, Noted
    <2>2. Owned' /\ OnlyPresent' /\ FirstAccepted'
      BY <2>1 DEF JobInv, Requests, Owned, OnlyPresent, FirstAccepted, OfRemote, Dispatches,
         Unsettled
    <2>3. BoundAccepted' /\ NotedBeforeNew' /\ NewIsFirst'
      BY <2>1 DEF JobInv, Requests, BoundAccepted, NotedBeforeNew, NewIsFirst, NotedRemote
    <2>4. QED
      BY <2>2, <2>3 DEF Requests
  <1>4. Ending'
    BY DEF vars, JobInv, Ending, Outcomes, CancelConfirmed, ClaimsHold, Claims,
       WorkingIsPumped, PumpOn, Locals, OfRemote, Unsettled, Noted, NotedRemote, Ends
  <1>5. QED
    BY <1>1, <1>2, <1>3, <1>4 DEF JobInv

LEMMA EveryStep ==
  ASSUME JobInv, Next
  PROVE  JobInv'
  <1>1. ASSUME NEW j \in Jobs,
               \/ SubmitJob(j) \/ ComesDue(j) \/ Cancel(j) \/ Pause(j) \/ Resume(j) \/ Dismiss(j)
        PROVE  JobInv'
    BY <1>1, SubmitJobStep, ComesDueStep, CancelJobStep, PauseStep, ResumeStep, DismissStep
  <1>2. CASE WakeDueJobs
    BY <1>2, WakeDueJobsStep
  <1>3. CASE PumpStep
    BY <1>3, PumpStartsStep, PrepareStep, DelegateStep, OwnStep, PumpTakesStep, PumpResumesStep,
       FinishStep, AggregatedStep DEF PumpStep
  <1>4. CASE PumpThrows
    BY <1>4, PumpThrowsStep
  <1>5. ASSUME NEW i \in Locals, HarnessStep(i) \/ DispatchFails(i) \/ PollsFail(i)
        PROVE  JobInv'
    BY <1>5, RunsHereStep, DispatchStep, BindStep, PollStep, AbortStep, DispatchFailsStep,
       PollsFailStep DEF HarnessStep
  <1>6. ASSUME NEW q \in RequestIds, NodeEnds(q)
        PROVE  JobInv'
    BY <1>6, NodeEndsStep
  <1>7. CASE CancelStep
    BY <1>7, CancelRemoteStep, CancelLocalsStep, CancelSetStep DEF CancelStep
  <1>8. CASE Restart
    BY <1>8, RestartStep
  <1>9. QED
    BY <1>1, <1>2, <1>3, <1>4, <1>5, <1>6, <1>7, <1>8 DEF Next, Locals

LEMMA Invariant == Spec => []JobInv
  <1>1. Init => JobInv
    BY Initial
  <1>2. JobInv /\ [Next]_vars => JobInv'
    BY EveryStep, Stuttering
  <1>3. QED
    BY <1>1, <1>2, PTL DEF Spec

\* The jobs, their file, the pump's and a cancel's locals, the tasks of the desktop and of
\* the node have their types, through every failure, restart and operation.
THEOREM TypeCorrect == Spec => []TypeOK
  <1>1. JobInv => TypeOK
    BY DEF JobInv
  <1>2. QED
    BY <1>1, Invariant, PTL

\* Whatever throws, restarts or is operated: no job says working without its pump
\* (runPump), so the chief loop (tickOnce), which waits while a job works, never waits for a
\* job that nobody runs.
THEOREM WorkingIsPumpedTheorem == Spec => []WorkingIsPumped
  <1>1. JobInv => WorkingIsPumped
    BY DEF JobInv, Ending
  <1>2. QED
    BY <1>1, Invariant, PTL

\* A job on a Worker Node says completed only if the node completed a remote task that
\* is noted in the job (runPump, WorkerNodeHarness.run).
THEOREM CompletedMeansDoneTheorem == Spec => []CompletedMeansDone
  <1>1. JobInv => CompletedMeansDone
    <2>1. SUFFICES ASSUME JobInv, NEW j \in Jobs, job[j].remote, job[j].status = "completed"
                   PROVE  \E i \in job[j].tasks : /\ local[i].rid # 0
                                                  /\ node[local[i].rid] = "completed"
      BY DEF CompletedMeansDone
    <2>2. Ends(j, "completed")
      BY <2>1 DEF JobInv, Ending, ClaimsHold, Claims
    <2>3. QED
      BY <2>2 DEF Ends, Noted
  <1>2. QED
    BY <1>1, Invariant, PTL

\* A live request is dispatched by a task of its one job, and is that job's present one.
LEMMA LiveIsPresent ==
  ASSUME JobInv, NEW i \in Locals, NEW q \in RequestIds, local[i].req = q, node[q] = "live"
  PROVE  job[local[i].job].req = q
  <1>1. PICK k \in Locals : Dispatches(k) /\ local[k].req = q
    BY DEF JobInv, Requests, Owned
  <1>2. job[local[k].job].req = q
    BY <1>1 DEF JobInv, Requests, OnlyPresent, Unsettled
  <1>3. q # 0
    BY DEF RequestIds
  <1>4. local[i].job = local[k].job
    BY <1>1, <1>3 DEF JobInv, Bookkeeping, Ids
  <1>5. QED
    BY <1>2, <1>4

\* However often a request is sent, lost, retried or given up: the Worker Node has at
\* most one live task of a job, the one of the request that the job has at present
\* (recoverRemoteTaskBinding, ensureWorkerNodeRequestBinding).
THEOREM OneRemoteAtATimeTheorem == Spec => []OneRemoteAtATime
  <1>1. JobInv => OneRemoteAtATime
    <2>1. SUFFICES ASSUME JobInv, NEW j \in Jobs
                   PROVE  Cardinality({q \in RequestIds : node[q] = "live" /\
                            \E i \in Locals : local[i].job = j /\ local[i].req = q}) <= 1
      BY DEF OneRemoteAtATime, Locals
    <2>2. {q \in RequestIds : node[q] = "live" /\
             \E i \in Locals : local[i].job = j /\ local[i].req = q} \subseteq {job[j].req}
      BY <2>1, LiveIsPresent
    <2>3. QED
      BY <2>2, AtMostOne
  <1>2. QED
    BY <1>1, Invariant, PTL

\* The cancel() of a job on a Worker Node that ends in cancelled has stopped the node: none
\* of the requests that the job ever made is live.
THEOREM CancelledMeansStoppedTheorem == Spec => []CancelledMeansStopped
  <1>1. JobInv => CancelledMeansStopped
    <2>1. SUFFICES ASSUME JobInv, NEW j \in Jobs, job[j].remote, job[j].status = "cancelled",
                          NEW i \in Locals, local[i].job = j, local[i].req # 0,
                          node[local[i].req] = "live"
                   PROVE  FALSE
      BY DEF CancelledMeansStopped, Locals
    <2>2. PICK k \in Noted(j) : node[local[k].rid] = "cancelled"
      <3>1. "cancelled" \in Claims(j)
        BY <2>1 DEF Claims
      <3>2. Ends(j, "cancelled")
        BY <2>1, <3>1 DEF JobInv, Ending, ClaimsHold
      <3>3. QED
        BY <3>2 DEF Ends
    <2>3. local[k].rid \in Accepted(j)
      BY <2>1, <2>2, NotedFacts
    <2>4. local[i].req \in RequestIds
      <3>1. OfRemote(i) /\ issued <= MaxRequests /\ local[i].req \in 1..issued
        BY <2>1 DEF OfRemote, JobInv, Bookkeeping, Ids
      <3>2. QED
        BY <2>1, <3>1, JobAssumption DEF JobInv, TypeOK, RequestIds
    <2>5. PICK d \in Locals : Dispatches(d) /\ local[d].req = local[i].req
      BY <2>1, <2>4 DEF JobInv, Requests, Owned
    <2>6. local[d].job = j
      BY <2>1, <2>5 DEF JobInv, Bookkeeping, Ids
    <2>7. Accepted(j) \subseteq {local[i].req}
      BY <2>1, <2>5, <2>6 DEF JobInv, Requests, FirstAccepted, Unsettled
    <2>8. QED
      BY <2>1, <2>2, <2>3, <2>7
  <1>2. QED
    BY <1>1, Invariant, PTL
=============================================================================
