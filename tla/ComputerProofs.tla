--------------------------- MODULE ComputerProofs ---------------------------
(***************************************************************************)
(* Proofs about Computer for every set of operators and every value of the *)
(* bounds: whatever the operators, the timeouts, the deaths of the sidecar *)
(* and the restarts do, a call does nothing that it was not allowed to do, *)
(* and an element is used in the session of its snapshot only.             *)
(***************************************************************************)
EXTENDS Computer, TLAPS

-----------------------------------------------------------------------------
(* The inductive invariant *)

Maybe(S) == S \cup {None}

CallPc == {"new", "task", "control", "run", "ask", "pause", "sent", "sent late", "there",
           "there late", "answered", "audit", "done"}

CallRecord == [pc : CallPc, kind : Maybe(Kinds), snap : Maybe(Calls), lease : Maybe(Nat),
               agent : BOOLEAN, ran : BOOLEAN]

ControlRecord == [mode : {"agent", "requested", "human"}, actor : Maybe(Operators),
                  request : Maybe(Calls)]

SidecarRecord == [lease : Maybe(Nat), handles : Maybe(Calls)]

\* The operator who types a secret types that of a request.
OpRecord ==
    {r \in [pc : {"idle", "take", "release", "type", "typed", "clear", "read", "stopped",
                  "reset"},
            prev : {None}, request : Maybe(Calls), lease : Maybe(Nat)] :
        r.pc \in {"type", "typed"} => r.request \in Calls}

Use == [by : Calls \cup Operators, snap : Maybe(Calls), session : Maybe(Nat)]

\* The registry, the gateway, the driver, the sidecar and the calls have their types.
TypeOK ==
    /\ task \in BOOLEAN /\ control \in ControlRecord /\ secret \in Maybe(Calls)
    /\ snapshot \in Maybe(Calls) /\ driverLease \in Maybe(Nat) /\ sidecar \in SidecarRecord
    /\ call \in [Calls -> CallRecord] /\ op \in [Operators -> OpRecord]
    /\ origin \in [Calls -> Maybe(Nat)] /\ used \subseteq Use
    /\ sessions \in Nat

\* While a call is in progress the agent cannot have the control, nor the task run,
\* without the call having seen it; past the check of the task, and past the decision,
\* it has.
Seen(i) ==
    /\ InProgress(i) /\ control.mode = "agent" => call[i].agent
    /\ InProgress(i) /\ task => call[i].ran
    /\ call[i].pc \notin {"new", "task", "done"} => call[i].ran
    /\ call[i].pc \notin {"new", "task", "control", "done"} => call[i].agent

\* A call has no snapshot before the sidecar has served it, and has done nothing
\* before it began.
Fresh(i) ==
    /\ call[i].pc \in {"new", "task", "control", "run", "ask", "pause", "sent", "sent late"} =>
        origin[i] = None
    /\ call[i].pc = "new" => \A u \in used : u.by # i

\* The handles of the sidecar are of a snapshot taken in its session.
HandlesHere ==
    sidecar.handles # None => sidecar.lease # None /\ origin[sidecar.handles] = sidecar.lease

\* What was done with an element was done in a session.
UsedSomewhere == \A u \in used : u.snap # None => u.session # None

CInv ==
    /\ TypeOK
    /\ \A i \in Calls : Seen(i) /\ Fresh(i)
    /\ HandlesHere /\ UsedSomewhere /\ CallsWereAuthorised /\ ElementsStayInSession


-----------------------------------------------------------------------------
(* Steps of the calls *)

Early == {"new", "task", "control", "run", "ask", "pause", "sent", "sent late"}

\* A call goes on: it forgets nothing it has seen, and passes the check of the task
\* and the decision only when they let it.
Passes(i) ==
    /\ call'[i].ran = call[i].ran
    /\ call[i].agent => call'[i].agent
    /\ InProgress(i)' => InProgress(i)
    /\ call[i].pc = "new" <=> call'[i].pc = "new"
    /\ call[i].pc = "task" /\ call'[i].pc \notin {"task", "done"} => task
    /\ call[i].pc \in {"task", "control"} /\ call'[i].pc \notin {"task", "control", "done"} =>
        control.mode = "agent"
    /\ call'[i].pc \in Early => call[i].pc \in Early

\* The calls in progress see a control that is given to the agent.
SeenByCalls ==
    control'.mode = "agent" =>
        control.mode = "agent" \/ \A i \in Calls : InProgress(i) => call'[i].agent

\* What is done is done by a call that may, and with an element of this session.
Justified(u) ==
    /\ u.by \in Calls => InProgress(u.by) /\ call[u.by].agent /\ call[u.by].ran
    /\ u.snap # None => u.session # None /\ origin[u.snap] = u.session

\* The steps that do not begin a call ...
GoesOn ==
    /\ task' => task
    /\ SeenByCalls
    /\ \A i \in Calls : Passes(i)

\* ... and, of these, those that do not take a snapshot.
Kept ==
    /\ GoesOn
    /\ origin' = origin
    /\ used \subseteq used' /\ \A u \in used' : u \in used \/ Justified(u)

LEMMA GoesOnSeen ==
  ASSUME CInv, GoesOn, NEW i \in Calls
  PROVE  Seen(i)'
  <1>1. Seen(i) /\ Passes(i) /\ SeenByCalls /\ (task' => task)
    BY DEF CInv, GoesOn
  <1>2. QED
    BY <1>1 DEF Seen, Passes, SeenByCalls, InProgress

LEMMA KeptFresh ==
  ASSUME CInv, Kept, NEW i \in Calls
  PROVE  Fresh(i)'
  <1>1. Fresh(i) /\ Passes(i) /\ origin' = origin
    BY DEF CInv, Kept, GoesOn
  <1>2. ASSUME call'[i].pc = "new", NEW u \in used'
        PROVE  u.by # i
    BY <1>1, <1>2 DEF Kept, Justified, Passes, Fresh, InProgress
  <1>3. QED
    BY <1>1, <1>2 DEF Fresh, Passes, Early

LEMMA KeptUses ==
  ASSUME CInv, Kept
  PROVE  UsedSomewhere' /\ CallsWereAuthorised' /\ ElementsStayInSession'
  <1>1. ASSUME NEW u \in used', u.snap # None
        PROVE  u.session # None /\ origin'[u.snap] = u.session
    BY <1>1 DEF Kept, Justified, CInv, UsedSomewhere, ElementsStayInSession
  <1>2. ASSUME NEW u \in used', u.by \in Calls
        PROVE  call'[u.by].agent /\ call'[u.by].ran
    <2>1. call[u.by].agent /\ call[u.by].ran
      BY <1>2 DEF Kept, Justified, CInv, CallsWereAuthorised
    <2>2. Passes(u.by)
      BY <1>2 DEF Kept, GoesOn
    <2>3. QED
      BY <2>1, <2>2 DEF Passes
  <1>3. QED
    BY <1>1, <1>2 DEF UsedSomewhere, CallsWereAuthorised, ElementsStayInSession

LEMMA KeptCInv ==
  ASSUME CInv, Kept, TypeOK', HandlesHere'
  PROVE  CInv'
  BY GoesOnSeen, KeptFresh, KeptUses DEF CInv, Kept

\* A step that leaves the calls and what was done alone, and gives the agent nothing.
LEMMA Quiet ==
  ASSUME TypeOK, call' = call, origin' = origin, used' = used, task' => task,
         control'.mode = "agent" => control.mode = "agent"
  PROVE  Kept
  BY DEF Kept, GoesOn, Passes, SeenByCalls, InProgress, Early

\* Nor does one that leaves the session and its handles alone move them.
LEMMA SameHandles ==
  ASSUME HandlesHere, sidecar' = sidecar, origin' = origin
  PROVE  HandlesHere'
  BY DEF HandlesHere

LEMMA OverFacts ==
  ASSUME NEW c \in CallRecord
  PROVE  /\ Over(c) \in CallRecord
         /\ Over(c).pc = "done" /\ Over(c).agent = c.agent /\ Over(c).ran = c.ran
  BY DEF CallRecord, Over, CallPc, Maybe

LEMMA AtFacts ==
  ASSUME NEW c \in CallRecord, NEW pc \in CallPc
  PROVE  /\ At(c, pc) \in CallRecord
         /\ At(c, pc).pc = pc /\ At(c, pc).agent = c.agent /\ At(c, pc).ran = c.ran
  <1>1. CASE pc = "done"
    BY <1>1, OverFacts DEF At
  <1>2. CASE pc # "done"
    <2>1. At(c, pc) = [c EXCEPT !.pc = pc]
      BY <1>2 DEF At
    <2>2. QED
      BY <2>1 DEF CallRecord
  <1>3. QED
    BY <1>1, <1>2

\* One call moves, to a place that the code lets it reach.
Reaches(i, pc) ==
    /\ InProgress(i) /\ pc \in CallPc \ {"new"}
    /\ call[i].pc = "task" => pc = "done" \/ (task /\ pc = "control")
    /\ call[i].pc = "control" => pc = "done" \/ control.mode = "agent"
    /\ pc \in Early => call[i].pc \in Early

LEMMA Moved ==
  ASSUME TypeOK, NEW i \in Calls, NEW c \in CallRecord, call' = [call EXCEPT ![i] = c],
         c.agent = call[i].agent, c.ran = call[i].ran, Reaches(i, c.pc)
  PROVE  call' \in [Calls -> CallRecord] /\ \A j \in Calls : Passes(j)
  <1>1. call' \in [Calls -> CallRecord]
    BY DEF TypeOK
  <1>2. call'[i] = c /\ \A j \in Calls \ {i} : call'[j] = call[j]
    BY DEF TypeOK
  <1>3. Passes(i)
    BY <1>2 DEF Passes, Reaches, InProgress, CallPc
  <1>4. ASSUME NEW j \in Calls \ {i}
        PROVE  Passes(j)
    BY <1>2 DEF Passes, InProgress, Early
  <1>5. QED
    BY <1>1, <1>3, <1>4

LEMMA Gone ==
  ASSUME TypeOK, NEW i \in Calls, NEW pc \in CallPc, Goes(i, pc), Reaches(i, pc)
  PROVE  call' \in [Calls -> CallRecord] /\ \A j \in Calls : Passes(j)
  <1>1. call[i] \in CallRecord
    BY DEF TypeOK
  <1>2. /\ At(call[i], pc) \in CallRecord
        /\ At(call[i], pc).pc = pc
        /\ At(call[i], pc).agent = call[i].agent /\ At(call[i], pc).ran = call[i].ran
    BY <1>1, AtFacts
  <1>3. call' = [call EXCEPT ![i] = At(call[i], pc)]
    BY DEF Goes, TypeOK
  <1>4. QED
    BY <1>2, <1>3, Moved

\* Several calls end at once.
LEMMA Ended ==
  ASSUME TypeOK, NEW S \in SUBSET Calls, \A i \in S : InProgress(i),
         call' = [i \in Calls |-> IF i \in S THEN Over(call[i]) ELSE call[i]]
  PROVE  call' \in [Calls -> CallRecord] /\ \A j \in Calls : Passes(j)
  <1>1. ASSUME NEW i \in Calls
        PROVE  /\ call[i] \in CallRecord /\ Over(call[i]) \in CallRecord
               /\ Over(call[i]).pc = "done"
               /\ Over(call[i]).agent = call[i].agent /\ Over(call[i]).ran = call[i].ran
    <2>1. call[i] \in CallRecord
      BY DEF TypeOK
    <2>2. QED
      BY <2>1, OverFacts
  <1>2. call' \in [Calls -> CallRecord]
    BY <1>1
  <1>3. ASSUME NEW j \in Calls
        PROVE  Passes(j)
    <2>1. CASE j \in S
      BY <2>1, <1>1 DEF Passes, InProgress, Early
    <2>2. CASE j \notin S
      BY <2>2, <1>1 DEF Passes, InProgress, Early
    <2>3. QED
      BY <2>1, <2>2
  <1>4. QED
    BY <1>2, <1>3

\* Calls go on while the control is not given to the agent.
LEMMA KeptByCalls ==
  ASSUME \A i \in Calls : Passes(i), task' = task, origin' = origin,
         control'.mode = "agent" => control.mode = "agent",
         used \subseteq used', \A u \in used' : u \in used \/ Justified(u)
  PROVE  Kept
  BY DEF Kept, GoesOn, SeenByCalls

-----------------------------------------------------------------------------
(* The calls of the worker *)

LEMMA ResolvedType ==
  ASSUME TypeOK, NEW snap \in Maybe(Calls)
  PROVE  Resolved(snap) \in Maybe(Nat)
  <1>1. CASE snap # None /\ snap = snapshot
    BY <1>1 DEF Resolved, TypeOK, Maybe
  <1>2. CASE ~(snap # None /\ snap = snapshot)
    BY <1>2 DEF Resolved, Maybe
  <1>3. QED
    BY <1>1, <1>2

LEMMA BeginKeeps ==
  ASSUME CInv, NEW i \in Calls, NEW kind \in Kinds, NEW snap \in Maybe(Calls),
         Begin(i, kind, snap)
  PROVE  CInv'
  <1> DEFINE new == [pc |-> "task", kind |-> kind, snap |-> snap, lease |-> None,
                     agent |-> control.mode = "agent", ran |-> task]
  <1>1. /\ call' = [call EXCEPT ![i] = new]
        /\ call[i].pc = "new"
        /\ UNCHANGED <<task, control, secret, snapshot, driverLease, sidecar, op, origin,
                       used, sessions>>
    BY DEF Begin
  <1>2. new \in CallRecord
    BY DEF CallRecord, CallPc, Maybe, CInv, TypeOK
  <1>3. call'[i] = new /\ \A j \in Calls \ {i} : call'[j] = call[j]
    BY <1>1 DEF CInv, TypeOK
  <1>4. TypeOK'
    BY <1>1, <1>2 DEF CInv, TypeOK
  <1>5. ASSUME NEW j \in Calls
        PROVE  Seen(j)' /\ Fresh(j)'
    <2>1. CASE j = i
      <3>1. /\ call'[i].pc = "task" /\ call'[i].ran = task
            /\ call'[i].agent = (control.mode = "agent")
        BY <1>3
      <3>2. Seen(i)'
        BY <1>1, <3>1 DEF Seen, InProgress
      <3>3. Fresh(i)'
        BY <1>1, <3>1 DEF CInv, Fresh
      <3>4. QED
        BY <2>1, <3>2, <3>3
    <2>2. CASE j # i
      BY <2>2, <1>1, <1>3 DEF CInv, Seen, Fresh, InProgress
    <2>3. QED
      BY <2>1, <2>2
  <1>6. CallsWereAuthorised'
    <2>1. ASSUME NEW u \in used', u.by \in Calls
          PROVE  call'[u.by].agent /\ call'[u.by].ran
      BY <2>1, <1>1, <1>3 DEF CInv, Fresh, CallsWereAuthorised
    <2>2. QED
      BY <2>1 DEF CallsWereAuthorised
  <1>7. HandlesHere' /\ UsedSomewhere' /\ ElementsStayInSession'
    BY <1>1 DEF CInv, HandlesHere, UsedSomewhere, ElementsStayInSession
  <1>8. QED
    BY <1>4, <1>5, <1>6, <1>7 DEF CInv

LEMMA TaskRefusesKeeps ==
  ASSUME CInv, NEW i \in Calls, TaskRefuses(i)
  PROVE  CInv'
  <1>1. Reaches(i, "done") /\ "done" \in CallPc
    <2>1. call[i].pc = "task"
      BY DEF TaskRefuses
    <2>2. QED
      BY <2>1 DEF Reaches, InProgress, CallPc, Early
  <1>2. call' \in [Calls -> CallRecord] /\ \A j \in Calls : Passes(j)
    BY <1>1, Gone DEF TaskRefuses, CInv
  <1>3. TypeOK' /\ HandlesHere' /\ Kept
    BY <1>2, KeptByCalls, SameHandles DEF TaskRefuses, CInv, TypeOK
  <1>4. QED
    BY <1>3, KeptCInv

LEMMA CheckTaskKeeps ==
  ASSUME CInv, NEW i \in Calls, CheckTask(i)
  PROVE  CInv'
  <1> DEFINE c == IF NotRefused(i)
                  THEN [call[i] EXCEPT !.pc = "control", !.lease = Resolved(call[i].snap)]
                  ELSE Over(call[i])
  <1>1. call[i] \in CallRecord /\ call[i].snap \in Maybe(Calls)
    BY DEF CInv, TypeOK, CallRecord
  <1>2. Resolved(call[i].snap) \in Maybe(Nat)
    BY <1>1, ResolvedType DEF CInv
  <1>3. c \in CallRecord /\ c.agent = call[i].agent /\ c.ran = call[i].ran
        /\ c.pc \in {"control", "done"}
    <2>1. CASE NotRefused(i)
      BY <2>1, <1>1, <1>2 DEF CallRecord, CallPc
    <2>2. CASE ~NotRefused(i)
      BY <2>2, <1>1, OverFacts
    <2>3. QED
      BY <2>1, <2>2
  <1>4. Reaches(i, c.pc)
    <2>1. call[i].pc = "task" /\ task
      BY DEF CheckTask
    <2> HIDE DEF c
    <2>2. QED
      BY <2>1, <1>3 DEF Reaches, InProgress, CallPc, Early
  <1>5. call' = [call EXCEPT ![i] = c]
    BY DEF CheckTask, CInv, TypeOK
  <1>6. call' \in [Calls -> CallRecord] /\ \A j \in Calls : Passes(j)
    <2> HIDE DEF c
    <2>1. QED
      BY <1>3, <1>4, <1>5, Moved DEF CInv
  <1>7. TypeOK' /\ HandlesHere' /\ Kept
    BY <1>6, KeptByCalls, SameHandles DEF CheckTask, CInv, TypeOK
  <1>8. QED
    BY <1>7, KeptCInv

LEMMA GovernKeeps ==
  ASSUME CInv, NEW i \in Calls, Govern(i)
  PROVE  CInv'
  <1>1. PICK pc \in {"ask", "run", "done"} : Goes(i, pc) /\ Reaches(i, pc)
    BY DEF Govern, AgentMayAct, Reaches, InProgress, CallPc, Early
  <1>2. call' \in [Calls -> CallRecord] /\ \A j \in Calls : Passes(j)
    BY <1>1, Gone DEF CInv, CallPc
  <1>3. TypeOK' /\ HandlesHere' /\ Kept
    BY <1>2, KeptByCalls, SameHandles DEF Govern, CInv, TypeOK
  <1>4. QED
    BY <1>3, KeptCInv

\* A call past the decision has been authorised.
LEMMA PastDecision ==
  ASSUME CInv, NEW i \in Calls,
         call[i].pc \in {"run", "ask", "pause", "sent", "sent late", "there", "there late"}
  PROVE  InProgress(i) /\ call[i].agent /\ call[i].ran
  BY DEF CInv, Seen, InProgress

LEMMA UseFileKeeps ==
  ASSUME CInv, NEW i \in Calls, UseFile(i)
  PROVE  CInv'
  <1> DEFINE u == [by |-> i, snap |-> None, session |-> None]
  <1>1. Reaches(i, "done") /\ "done" \in CallPc
    BY DEF UseFile, Reaches, InProgress, CallPc, Early
  <1>2. call' \in [Calls -> CallRecord] /\ \A j \in Calls : Passes(j)
    BY <1>1, Gone DEF UseFile, CInv
  <1>3. used' = used \cup {u} /\ u \in Use
    BY DEF UseFile, Use, Maybe
  <1>4. Justified(u)
    BY PastDecision DEF UseFile, Justified
  <1>5. TypeOK'
    <2>1. used' \subseteq Use
      BY <1>3 DEF CInv, TypeOK
    <2>2. QED
      BY <1>2, <2>1 DEF UseFile, CInv, TypeOK
  <1>6. HandlesHere'
    BY SameHandles DEF UseFile, CInv
  <1>7. Kept
    <2>1. used \subseteq used' /\ \A v \in used' : v \in used \/ Justified(v)
      BY <1>3, <1>4
    <2>2. QED
      BY <1>2, <2>1, KeptByCalls DEF UseFile
  <1>8. QED
    BY <1>5, <1>6, <1>7, KeptCInv

LEMMA HelpKeeps ==
  ASSUME CInv, NEW i \in Calls, Help(i)
  PROVE  CInv'
  <1>1. Reaches(i, "done") /\ "done" \in CallPc
    <2>1. call[i].pc = "task"
      BY DEF Help
    <2>2. QED
      BY <2>1 DEF Reaches, InProgress, CallPc, Early
  <1>2. call' \in [Calls -> CallRecord] /\ \A j \in Calls : Passes(j)
    BY <1>1, Gone DEF Help, CInv
  <1>3. control' = [mode |-> "requested", actor |-> None, request |-> None]
        /\ control' \in ControlRecord
    BY DEF Help, ControlRecord, Maybe
  <1>4. TypeOK' /\ HandlesHere' /\ Kept
    BY <1>2, <1>3, KeptByCalls, SameHandles DEF Help, CInv, TypeOK
  <1>5. QED
    BY <1>4, KeptCInv

LEMMA AskSecretKeeps ==
  ASSUME CInv, NEW i \in Calls, AskSecret(i)
  PROVE  CInv'
  <1>1. Reaches(i, "pause") /\ "pause" \in CallPc
    BY DEF AskSecret, Reaches, InProgress, CallPc, Early
  <1>2. call' \in [Calls -> CallRecord] /\ \A j \in Calls : Passes(j)
    BY <1>1, Gone DEF AskSecret, CInv
  <1>3. secret' \in Maybe(Calls)
    BY DEF AskSecret, Maybe
  <1>4. TypeOK' /\ HandlesHere' /\ Kept
    BY <1>2, <1>3, KeptByCalls, SameHandles DEF AskSecret, CInv, TypeOK
  <1>5. QED
    BY <1>4, KeptCInv

LEMMA PauseKeeps ==
  ASSUME CInv, NEW i \in Calls, Pause(i)
  PROVE  CInv'
  <1>1. Reaches(i, "done") /\ "done" \in CallPc
    BY DEF Pause, Reaches, InProgress, CallPc, Early
  <1>2. call' \in [Calls -> CallRecord] /\ \A j \in Calls : Passes(j)
    BY <1>1, Gone DEF Pause, CInv
  <1>3. control' = [mode |-> "requested", actor |-> None, request |-> i]
        /\ control' \in ControlRecord
    BY DEF Pause, ControlRecord, Maybe
  <1>4. TypeOK' /\ HandlesHere' /\ Kept
    BY <1>2, <1>3, KeptByCalls, SameHandles DEF Pause, CInv, TypeOK
  <1>5. QED
    BY <1>4, KeptCInv

-----------------------------------------------------------------------------
(* The driver and the sidecar *)

LEMMA GiveUpKeeps ==
  ASSUME CInv, NEW i \in Calls, GiveUp(i)
  PROVE  CInv'
  <1>1. PICK pc \in {"sent late", "there late"} :
            Goes(i, pc) /\ (pc = "sent late" => call[i].pc = "sent")
    BY DEF GiveUp
  <1>2. call[i].pc \in {"sent", "there"}
    BY DEF GiveUp
  <1>3. Reaches(i, pc) /\ pc \in CallPc
    BY <1>1, <1>2 DEF Reaches, InProgress, CallPc, Early
  <1>4. call' \in [Calls -> CallRecord] /\ \A j \in Calls : Passes(j)
    BY <1>1, <1>3, Gone DEF CInv
  <1>5. TypeOK' /\ HandlesHere' /\ Kept
    BY <1>4, KeptByCalls, SameHandles DEF GiveUp, CInv, TypeOK
  <1>6. QED
    BY <1>5, KeptCInv

\* A new process of the sidecar has no handles.
LEMMA StartedFacts ==
  ASSUME CInv, Started, origin' = origin
  PROVE  /\ sessions' \in Nat /\ driverLease' \in Maybe(Nat) /\ sidecar' \in SidecarRecord
         /\ HandlesHere'
  <1>1. CASE driverLease = None /\ sidecar.lease = None /\ sessions < MaxSessions
    <2>1. /\ sessions' = sessions + 1 /\ driverLease' = sessions + 1
          /\ sidecar' = [lease |-> sessions + 1, handles |-> None]
      BY <1>1 DEF Started, Session
    <2>2. sessions \in Nat
      BY DEF CInv, TypeOK
    <2>3. QED
      BY <2>1, <2>2 DEF SidecarRecord, Maybe, HandlesHere
  <1>2. CASE ~(driverLease = None /\ sidecar.lease = None /\ sessions < MaxSessions)
    BY <1>2, SameHandles DEF Started, CInv, TypeOK
  <1>3. QED
    BY <1>1, <1>2

LEMMA SendKeeps ==
  ASSUME CInv, NEW i \in Calls, Send(i)
  PROVE  CInv'
  <1> DEFINE c == [call[i] EXCEPT !.pc = "sent",
                                  !.lease = IF @ = None THEN driverLease ELSE @]
  <1>1. call[i] \in CallRecord /\ call[i].pc = "run" /\ driverLease \in Maybe(Nat)
    BY DEF Send, CInv, TypeOK
  <1>2. call' \in [Calls -> CallRecord] /\ \A j \in Calls : Passes(j)
    <2>1. CASE LeaseHolds(call[i].kind, call[i].lease)
      <3>1. call' = [call EXCEPT ![i] = c]
        BY <2>1 DEF Send, CInv, TypeOK
      <3>2. c \in CallRecord /\ c.pc = "sent" /\ c.agent = call[i].agent /\ c.ran = call[i].ran
        BY <1>1 DEF CallRecord, CallPc
      <3>3. Reaches(i, c.pc)
        BY <1>1, <3>2 DEF Reaches, InProgress, CallPc, Early
      <3>4. QED
        <4> HIDE DEF c
        <4>1. QED
          BY <3>1, <3>2, <3>3, Moved DEF CInv
    <2>2. CASE ~LeaseHolds(call[i].kind, call[i].lease)
      <3>1. Reaches(i, "done") /\ "done" \in CallPc
        BY <1>1 DEF Reaches, InProgress, CallPc, Early
      <3>2. Goes(i, "done")
        BY <2>2 DEF Send
      <3>3. QED
        BY <3>1, <3>2, Gone DEF CInv
    <2>3. QED
      BY <2>1, <2>2
  <1>3. /\ sessions' \in Nat /\ driverLease' \in Maybe(Nat) /\ sidecar' \in SidecarRecord
        /\ HandlesHere'
    BY StartedFacts DEF Send
  <1>4. TypeOK' /\ Kept
    BY <1>2, <1>3, KeptByCalls DEF Send, CInv, TypeOK
  <1>5. QED
    BY <1>3, <1>4, KeptCInv

\* The session that serves a request, and its handles.
LEMMA CurrentFacts ==
  ASSUME CInv
  PROVE  /\ Current \in SidecarRecord /\ Current.lease \in Nat
         /\ Current.handles # None => origin[Current.handles] = Current.lease
  <1>1. sidecar \in SidecarRecord /\ sessions \in Nat
    BY DEF CInv, TypeOK
  <1>2. CASE sidecar.lease # None
    BY <1>1, <1>2 DEF Current, SidecarRecord, Maybe, CInv, HandlesHere
  <1>3. CASE sidecar.lease = None
    <2>1. Current = [lease |-> sessions + 1, handles |-> None]
      BY <1>3 DEF Current, Session
    <2>2. QED
      BY <1>1, <2>1 DEF SidecarRecord, Maybe
  <1>4. QED
    BY <1>2, <1>3

LEMMA SessionsType ==
  ASSUME CInv, StartsSession
  PROVE  sessions' \in Nat
  <1>1. sessions \in Nat
    BY DEF CInv, TypeOK
  <1>2. sessions' = sessions + 1 \/ sessions' = sessions
    BY DEF StartsSession
  <1>3. QED
    BY <1>1, <1>2

LEMMA AnswerFacts ==
  ASSUME NEW c \in CallRecord, NEW lease \in Maybe(Nat)
  PROVE  /\ Answer(c, lease) \in CallRecord
         /\ Answer(c, lease).pc = "answered"
         /\ Answer(c, lease).agent = c.agent /\ Answer(c, lease).ran = c.ran
  BY DEF Answer, CallRecord, CallPc

\* The sidecar answers, or nobody waits for the answer any more.
LEMMA ServedPasses ==
  ASSUME TypeOK, NEW i \in Calls, NEW lease \in Maybe(Nat), NEW b \in BOOLEAN,
         call[i].pc \in {"sent", "sent late", "there", "there late"},
         call' = [call EXCEPT ![i] = IF b THEN Answer(@, lease) ELSE Over(@)]
  PROVE  call' \in [Calls -> CallRecord] /\ \A j \in Calls : Passes(j)
  <1> DEFINE c == IF b THEN Answer(call[i], lease) ELSE Over(call[i])
  <1>1. call[i] \in CallRecord
    BY DEF TypeOK
  <1>2. c \in CallRecord /\ c.agent = call[i].agent /\ c.ran = call[i].ran
        /\ c.pc \in {"answered", "done"}
    BY <1>1, AnswerFacts, OverFacts
  <1>3. call' = [call EXCEPT ![i] = c]
    BY DEF TypeOK
  <1> HIDE DEF c
  <1>4. Reaches(i, c.pc)
    BY <1>2 DEF Reaches, InProgress, CallPc, Early
  <1>5. QED
    BY <1>2, <1>3, <1>4, Moved

LEMMA ServeSnapshotKeeps ==
  ASSUME CInv, NEW i \in Calls, ServeSnapshot(i)
  PROVE  CInv'
  <1>1. /\ call[i].pc \in {"sent", "sent late"}
        /\ sidecar' = [Current EXCEPT !.handles = i]
        /\ origin' = [origin EXCEPT ![i] = Current.lease]
        /\ call' = [call EXCEPT ![i] = IF call[i].pc = "sent" THEN Answer(@, Current.lease)
                                       ELSE Over(@)]
        /\ UNCHANGED <<task, control, secret, snapshot, driverLease, op, used>>
        /\ StartsSession
    BY DEF ServeSnapshot, CInv, TypeOK
  <1>2. Current \in SidecarRecord /\ Current.lease \in Nat
    BY CurrentFacts
  <1>3. call' \in [Calls -> CallRecord] /\ \A j \in Calls : Passes(j)
    BY <1>1, <1>2, ServedPasses DEF Maybe, CInv
  <1>4. sidecar' \in SidecarRecord /\ sidecar'.handles = i /\ sidecar'.lease = Current.lease
    BY <1>1, <1>2 DEF SidecarRecord, Maybe
  <1>5. /\ origin' \in [Calls -> Maybe(Nat)]
        /\ origin'[i] = Current.lease
        /\ \A j \in Calls \ {i} : origin'[j] = origin[j]
    BY <1>1, <1>2 DEF CInv, TypeOK, Maybe
  <1>6. sessions' \in Nat
    BY <1>1, SessionsType
  <1>7. TypeOK'
    BY <1>1, <1>3, <1>4, <1>5, <1>6 DEF CInv, TypeOK
  <1>8. GoesOn
    BY <1>1, <1>3 DEF GoesOn, SeenByCalls
  <1>9. call'[i].pc \in {"answered", "done"}
    <2>1. call[i] \in CallRecord
      BY DEF CInv, TypeOK
    <2>2. /\ Answer(call[i], Current.lease).pc = "answered"
          /\ Over(call[i]).pc = "done"
      BY <2>1, <1>2, AnswerFacts, OverFacts DEF Maybe
    <2>3. call'[i] \in {Answer(call[i], Current.lease), Over(call[i])}
      BY <1>1 DEF CInv, TypeOK
    <2>4. QED
      BY <2>2, <2>3
  <1>10. ASSUME NEW j \in Calls
         PROVE  Fresh(j)'
    <2>1. CASE j = i
      BY <2>1, <1>9 DEF Fresh
    <2>2. CASE j # i
      <3>1. Fresh(j) /\ Passes(j) /\ origin'[j] = origin[j] /\ used' = used
        BY <2>2, <1>1, <1>3, <1>5 DEF CInv
      <3>2. QED
        BY <3>1 DEF Fresh, Passes, Early
    <2>3. QED
      BY <2>1, <2>2
  <1>11. HandlesHere'
    BY <1>2, <1>4, <1>5, ComputerAssumption DEF HandlesHere
  <1>12. CallsWereAuthorised' /\ UsedSomewhere'
    <2>1. ASSUME NEW u \in used', u.by \in Calls
          PROVE  call'[u.by].agent /\ call'[u.by].ran
      BY <2>1, <1>1, <1>3 DEF CInv, CallsWereAuthorised, Passes
    <2>2. QED
      BY <2>1, <1>1 DEF CInv, CallsWereAuthorised, UsedSomewhere
  <1>13. ElementsStayInSession'
    <2>1. ASSUME NEW u \in used', u.snap # None
          PROVE  origin'[u.snap] = u.session
      <3>1. u \in used /\ u.snap \in Calls
        BY <2>1, <1>1 DEF CInv, TypeOK, Use, Maybe
      <3>2. origin[u.snap] = u.session /\ u.session # None
        BY <2>1, <3>1 DEF CInv, ElementsStayInSession, UsedSomewhere
      <3>3. origin[i] = None
        BY <1>1 DEF CInv, Fresh
      <3>4. QED
        BY <3>1, <3>2, <3>3, <1>5
    <2>2. QED
      BY <2>1 DEF ElementsStayInSession
  <1>14. QED
    BY <1>7, <1>8, <1>10, <1>11, <1>12, <1>13, GoesOnSeen DEF CInv

LEMMA ServeNavigateKeeps ==
  ASSUME CInv, NEW i \in Calls, ServeNavigate(i)
  PROVE  CInv'
  <1> DEFINE u == [by |-> i, snap |-> None, session |-> Current.lease]
             c == [call[i] EXCEPT !.pc = IF @ = "sent" THEN "there" ELSE "there late",
                                  !.lease = Current.lease]
  <1>1. call[i] \in CallRecord /\ call[i].pc \in {"sent", "sent late"}
    BY DEF ServeNavigate, CInv, TypeOK
  <1>2. /\ Current \in SidecarRecord /\ Current.lease \in Nat
        /\ Current.handles # None => origin[Current.handles] = Current.lease
    BY CurrentFacts
  <1>3. call' = [call EXCEPT ![i] = c]
    BY DEF ServeNavigate, CInv, TypeOK
  <1>4. c \in CallRecord /\ c.agent = call[i].agent /\ c.ran = call[i].ran
        /\ c.pc \in {"there", "there late"}
    BY <1>1, <1>2 DEF CallRecord, CallPc, Maybe
  <1>5. call' \in [Calls -> CallRecord] /\ \A j \in Calls : Passes(j)
    <2> HIDE DEF c
    <2>1. Reaches(i, c.pc)
      BY <1>1, <1>4 DEF Reaches, InProgress, CallPc, Early
    <2>2. QED
      BY <1>3, <1>4, <2>1, Moved DEF CInv
  <1>6. used' = used \cup {u} /\ u \in Use
    BY <1>2 DEF ServeNavigate, Use, Maybe
  <1>7. Justified(u)
    BY <1>1, PastDecision DEF Justified
  <1>8. sidecar' = Current /\ sessions' \in Nat
    BY SessionsType DEF ServeNavigate
  <1>9. TypeOK'
    <2>1. used' \subseteq Use
      BY <1>6 DEF CInv, TypeOK
    <2>2. QED
      BY <1>2, <1>5, <1>8, <2>1 DEF ServeNavigate, CInv, TypeOK
  <1>10. HandlesHere'
    BY <1>2, <1>8, ComputerAssumption DEF ServeNavigate, HandlesHere
  <1>11. Kept
    <2>1. used \subseteq used' /\ \A v \in used' : v \in used \/ Justified(v)
      BY <1>6, <1>7
    <2>2. QED
      BY <1>5, <2>1, KeptByCalls DEF ServeNavigate
  <1>12. QED
    BY <1>9, <1>10, <1>11, KeptCInv

LEMMA ArriveKeeps ==
  ASSUME CInv, NEW i \in Calls, Arrive(i)
  PROVE  CInv'
  <1>1. sidecar \in SidecarRecord /\ call[i].pc \in {"there", "there late"}
    BY DEF Arrive, CInv, TypeOK
  <1>2. call' = [call EXCEPT ![i] = IF call[i].pc = "there" THEN Answer(@, sidecar.lease)
                                    ELSE Over(@)]
    BY DEF Arrive, CInv, TypeOK
  <1>3. sidecar.lease \in Maybe(Nat)
    BY <1>1 DEF SidecarRecord
  <1>4. call' \in [Calls -> CallRecord] /\ \A j \in Calls : Passes(j)
    BY <1>1, <1>2, <1>3, ServedPasses DEF CInv
  <1>5. sidecar' \in SidecarRecord /\ sidecar'.handles = None
    BY <1>1 DEF Arrive, SidecarRecord, Maybe
  <1>6. TypeOK' /\ HandlesHere' /\ Kept
    BY <1>4, <1>5, KeptByCalls DEF Arrive, CInv, TypeOK, HandlesHere
  <1>7. QED
    BY <1>6, KeptCInv

\* What the sidecar accepts has an element of its session.
LEMMA Accepted ==
  ASSUME CInv, NEW lease, NEW snap \in Maybe(Calls), Accepts(lease, snap)
  PROVE  /\ sidecar.lease \in Nat
         /\ snap # None => origin[snap] = sidecar.lease
  BY DEF Accepts, CInv, TypeOK, SidecarRecord, Maybe, HandlesHere

LEMMA ServeInputKeeps ==
  ASSUME CInv, NEW i \in Calls, ServeInput(i)
  PROVE  CInv'
  <1> DEFINE u == [by |-> i, snap |-> call[i].snap, session |-> sidecar.lease]
  <1>1. call[i].pc \in {"sent", "sent late"} /\ call[i].snap \in Maybe(Calls)
    BY DEF ServeInput, CInv, TypeOK, CallRecord
  <1>2. Reaches(i, "done") /\ "done" \in CallPc
    BY <1>1 DEF Reaches, InProgress, CallPc, Early
  <1>3. call' \in [Calls -> CallRecord] /\ \A j \in Calls : Passes(j)
    BY <1>2, Gone DEF ServeInput, CInv
  <1>4. used' \subseteq Use /\ used \subseteq used' /\ \A v \in used' : v \in used \/ Justified(v)
    <2>1. CASE Accepts(call[i].lease, call[i].snap)
      <3>1. used' = used \cup {u}
        BY <2>1 DEF ServeInput
      <3>2. /\ sidecar.lease \in Nat
            /\ call[i].snap # None => origin[call[i].snap] = sidecar.lease
        BY <2>1, <1>1, Accepted
      <3>3. u \in Use
        BY <1>1, <3>2 DEF Use, Maybe
      <3>4. Justified(u)
        BY <1>1, <3>2, PastDecision, ComputerAssumption DEF Justified
      <3>5. QED
        BY <3>1, <3>3, <3>4 DEF CInv, TypeOK
    <2>2. CASE ~Accepts(call[i].lease, call[i].snap)
      BY <2>2 DEF ServeInput, CInv, TypeOK
    <2>3. QED
      BY <2>1, <2>2
  <1>5. TypeOK' /\ HandlesHere' /\ Kept
    BY <1>3, <1>4, KeptByCalls, SameHandles DEF ServeInput, CInv, TypeOK
  <1>6. QED
    BY <1>5, KeptCInv

LEMMA AnsweredKeeps ==
  ASSUME CInv, NEW i \in Calls, Answered(i)
  PROVE  CInv'
  <1>1. call[i].pc = "answered"
    BY DEF Answered
  <1>2. Reaches(i, "audit") /\ "audit" \in CallPc
    BY <1>1 DEF Reaches, InProgress, CallPc, Early
  <1>3. call' \in [Calls -> CallRecord] /\ \A j \in Calls : Passes(j)
    BY <1>2, Gone DEF Answered, CInv
  <1>4. driverLease' \in Maybe(Nat)
    BY DEF Answered, CInv, TypeOK, CallRecord
  <1>5. TypeOK' /\ HandlesHere' /\ Kept
    BY <1>3, <1>4, KeptByCalls, SameHandles DEF Answered, CInv, TypeOK
  <1>6. QED
    BY <1>5, KeptCInv

LEMMA FinishKeeps ==
  ASSUME CInv, NEW i \in Calls, Finish(i)
  PROVE  CInv'
  <1>1. call[i].pc = "audit"
    BY DEF Finish
  <1>2. Reaches(i, "done") /\ "done" \in CallPc
    BY <1>1 DEF Reaches, InProgress, CallPc, Early
  <1>3. call' \in [Calls -> CallRecord] /\ \A j \in Calls : Passes(j)
    BY <1>2, Gone DEF Finish, CInv
  <1>4. snapshot' \in Maybe(Calls)
    BY DEF Finish, Maybe
  <1>5. TypeOK' /\ HandlesHere' /\ Kept
    BY <1>3, <1>4, KeptByCalls, SameHandles DEF Finish, CInv, TypeOK
  <1>6. QED
    BY <1>5, KeptCInv

-----------------------------------------------------------------------------
(* The operators *)

\* An operation of an operator that does nothing with an element.
LEMMA OpFacts ==
  ASSUME TypeOK, NEW o \in Operators, NEW r \in OpRecord, op' = [op EXCEPT ![o] = r]
  PROVE  op' \in [Operators -> OpRecord]
  BY DEF TypeOK

LEMMA NoOpType == NoOp \in OpRecord
  BY DEF NoOp, OpRecord, Maybe

LEMMA ReadControlKeeps ==
  ASSUME CInv, NEW o \in Operators, NEW what \in {"take", "release"}, ReadControl(o, what)
  PROVE  CInv'
  <1>1. [NoOp EXCEPT !.pc = what] \in OpRecord
    BY DEF NoOp, OpRecord, Maybe
  <1>2. op' \in [Operators -> OpRecord]
    BY <1>1, OpFacts DEF ReadControl, CInv
  <1>3. TypeOK' /\ HandlesHere' /\ Kept
    BY <1>2, Quiet, SameHandles DEF ReadControl, CInv, TypeOK
  <1>4. QED
    BY <1>3, KeptCInv

\* A control given to the agent is seen by the calls in progress.
LEMMA SetControlFacts ==
  ASSUME TypeOK, NEW c \in ControlRecord, SetControl(c)
  PROVE  /\ control' = c /\ SeenByCalls
         /\ call' \in [Calls -> CallRecord] /\ \A j \in Calls : Passes(j)
  <1>1. ASSUME NEW j \in Calls
        PROVE  /\ call'[j] \in CallRecord
               /\ call'[j].pc = call[j].pc /\ call'[j].ran = call[j].ran
               /\ call[j].agent => call'[j].agent
               /\ c.mode = "agent" /\ InProgress(j) => call'[j].agent
    <2>1. call[j] \in CallRecord
      BY DEF TypeOK
    <2>2. CASE c.mode = "agent" /\ InProgress(j)
      <3>1. call'[j] = [call[j] EXCEPT !.agent = TRUE]
        BY <2>2 DEF SetControl
      <3>2. QED
        BY <2>1, <3>1 DEF CallRecord
    <2>3. CASE ~(c.mode = "agent" /\ InProgress(j))
      <3>1. call'[j] = call[j]
        BY <2>3 DEF SetControl
      <3>2. QED
        BY <2>1, <2>3, <3>1
    <2>4. QED
      BY <2>2, <2>3
  <1>2. control' = c /\ SeenByCalls
    BY <1>1 DEF SetControl, SeenByCalls
  <1>3. call' \in [Calls -> CallRecord]
    BY <1>1 DEF SetControl
  <1>4. ASSUME NEW j \in Calls
        PROVE  Passes(j)
    BY <1>1 DEF Passes, InProgress, Early
  <1>5. QED
    BY <1>2, <1>3, <1>4

LEMMA TakeKeeps ==
  ASSUME CInv, NEW o \in Operators, Take(o)
  PROVE  CInv'
  <1> DEFINE c == [mode |-> "human", actor |-> o, request |-> None]
  <1>1. c \in ControlRecord
    BY DEF ControlRecord, Maybe
  <1>2. /\ control' = c /\ SeenByCalls
        /\ call' \in [Calls -> CallRecord] /\ \A j \in Calls : Passes(j)
    BY <1>1, SetControlFacts DEF Take, CInv
  <1>3. op' \in [Operators -> OpRecord]
    BY NoOpType, OpFacts DEF Take, CInv
  <1>4. TypeOK' /\ HandlesHere'
    BY <1>1, <1>2, <1>3, SameHandles DEF Take, CInv, TypeOK
  <1>5. Kept
    BY <1>2 DEF Take, Kept, GoesOn
  <1>6. QED
    BY <1>4, <1>5, KeptCInv

LEMMA ReleaseKeeps ==
  ASSUME CInv, NEW o \in Operators, Release(o)
  PROVE  CInv'
  <1>1. AgentControl \in ControlRecord
    BY DEF AgentControl, ControlRecord, Maybe
  <1>2. /\ control' = AgentControl /\ SeenByCalls
        /\ call' \in [Calls -> CallRecord] /\ \A j \in Calls : Passes(j)
    BY <1>1, SetControlFacts DEF Release, CInv
  <1>3. op' \in [Operators -> OpRecord]
    BY NoOpType, OpFacts DEF Release, CInv
  <1>4. TypeOK' /\ HandlesHere'
    BY <1>1, <1>2, <1>3, SameHandles DEF Release, CInv, TypeOK
  <1>5. Kept
    BY <1>2 DEF Release, Kept, GoesOn
  <1>6. QED
    BY <1>4, <1>5, KeptCInv

LEMMA SupplyKeeps ==
  ASSUME CInv, NEW o \in Operators, Supply(o)
  PROVE  CInv'
  <1> DEFINE r == [pc |-> "type", prev |-> None, request |-> secret,
                   lease |-> Resolved(call[secret].snap)]
  <1>1. secret \in Calls
    BY DEF Supply, CInv, TypeOK, Maybe
  <1>2. call[secret].snap \in Maybe(Calls)
    BY <1>1 DEF CInv, TypeOK, CallRecord
  <1>3. Resolved(call[secret].snap) \in Maybe(Nat)
    BY <1>2, ResolvedType DEF CInv
  <1>4. r \in OpRecord
    BY <1>1, <1>3 DEF OpRecord, Maybe
  <1>5. op' = [op EXCEPT ![o] = r]
    BY DEF Supply
  <1>6. op' \in [Operators -> OpRecord]
    <2> HIDE DEF r
    <2>1. QED
      BY <1>4, <1>5, OpFacts DEF CInv
  <1>7. TypeOK' /\ HandlesHere' /\ Kept
    BY <1>6, Quiet, SameHandles DEF Supply, CInv, TypeOK
  <1>8. QED
    BY <1>7, KeptCInv

\* An operation that only goes on to its next step.
LEMMA OpGoesOn ==
  ASSUME TypeOK, NEW o \in Operators, NEW pc \in {"typed", "clear", "read", "release", "stopped"},
         NEW b \in BOOLEAN, pc = "typed" => op[o].pc = "type",
         op' = [op EXCEPT ![o] = IF b THEN [@ EXCEPT !.pc = pc] ELSE NoOp]
  PROVE  op' \in [Operators -> OpRecord]
  <1>1. op[o] \in OpRecord
    BY DEF TypeOK
  <1>2. [op[o] EXCEPT !.pc = pc] \in OpRecord
    BY <1>1 DEF OpRecord
  <1>3. QED
    BY <1>2, NoOpType DEF TypeOK

LEMMA SendSecretKeeps ==
  ASSUME CInv, NEW o \in Operators, SendSecret(o)
  PROVE  CInv'
  <1>1. op' = [op EXCEPT ![o] = IF LeaseHolds("act", op[o].lease)
                                THEN [@ EXCEPT !.pc = "typed"] ELSE NoOp]
    BY DEF SendSecret, CInv, TypeOK
  <1>2. LeaseHolds("act", op[o].lease) \in BOOLEAN /\ op[o].pc = "type"
    BY DEF LeaseHolds, SendSecret
  <1>3. op' \in [Operators -> OpRecord]
    BY <1>1, <1>2, OpGoesOn DEF CInv
  <1>4. TypeOK' /\ HandlesHere' /\ Kept
    BY <1>3, Quiet, SameHandles DEF SendSecret, CInv, TypeOK
  <1>5. QED
    BY <1>4, KeptCInv

LEMMA ClearSecretKeeps ==
  ASSUME CInv, NEW o \in Operators, ClearSecret(o)
  PROVE  CInv'
  <1>1. op' = [op EXCEPT ![o] = IF TRUE THEN [@ EXCEPT !.pc = "read"] ELSE NoOp]
    BY DEF ClearSecret
  <1>2. op' \in [Operators -> OpRecord]
    BY <1>1, OpGoesOn DEF CInv
  <1>3. TypeOK' /\ HandlesHere' /\ Kept
    BY <1>2, Quiet, SameHandles DEF ClearSecret, CInv, TypeOK, Maybe
  <1>4. QED
    BY <1>3, KeptCInv

LEMMA ReadRequestedKeeps ==
  ASSUME CInv, NEW o \in Operators, ReadRequested(o)
  PROVE  CInv'
  <1> DEFINE b == control.mode = "requested" /\ control.request = op[o].request
  <1>1. op' = [op EXCEPT ![o] = IF b THEN [@ EXCEPT !.pc = "release"] ELSE NoOp]
    BY DEF ReadRequested, CInv, TypeOK
  <1>2. op' \in [Operators -> OpRecord]
    <2>1. b \in BOOLEAN
      OBVIOUS
    <2> HIDE DEF b
    <2>2. QED
      BY <2>1, <1>1, OpGoesOn DEF CInv
  <1>3. TypeOK' /\ HandlesHere' /\ Kept
    BY <1>2, Quiet, SameHandles DEF ReadRequested, CInv, TypeOK
  <1>4. QED
    BY <1>3, KeptCInv

\* A secret is typed into an element of the session, by an operator.
LEMMA ServeSecretKeeps ==
  ASSUME CInv, NEW o \in Operators, ServeSecret(o)
  PROVE  CInv'
  <1> DEFINE snap == call[op[o].request].snap
             u == [by |-> o, snap |-> snap, session |-> sidecar.lease]
  <1>1. op[o].pc = "typed" /\ op[o] \in OpRecord
    BY DEF ServeSecret, CInv, TypeOK
  <1>2. op[o].request \in Calls
    BY <1>1 DEF OpRecord
  <1>3. snap \in Maybe(Calls)
    BY <1>2 DEF CInv, TypeOK, CallRecord
  <1>4. /\ used' \subseteq Use /\ used \subseteq used'
        /\ \A v \in used' : v \in used \/ Justified(v)
    <2>1. CASE Accepts(op[o].lease, snap)
      <3>1. used' = used \cup {u}
        BY <2>1 DEF ServeSecret
      <3>2. sidecar.lease \in Nat /\ (snap # None => origin[snap] = sidecar.lease)
        BY <2>1, <1>3, Accepted
      <3>3. u \in Use
        BY <1>3, <3>2 DEF Use, Maybe
      <3>4. Justified(u)
        BY <3>2, ComputerAssumption DEF Justified, Calls
      <3>5. QED
        BY <3>1, <3>3, <3>4 DEF CInv, TypeOK
    <2>2. CASE ~Accepts(op[o].lease, snap)
      BY <2>2 DEF ServeSecret, CInv, TypeOK
    <2>3. QED
      BY <2>1, <2>2
  <1>5. op' \in [Operators -> OpRecord]
    <2>1. CASE Accepts(op[o].lease, snap)
      <3>1. op' = [op EXCEPT ![o] = IF TRUE THEN [@ EXCEPT !.pc = "clear"] ELSE NoOp]
        BY <2>1 DEF ServeSecret
      <3>2. QED
        BY <3>1, OpGoesOn DEF CInv
    <2>2. CASE ~Accepts(op[o].lease, snap)
      BY <2>2, NoOpType, OpFacts DEF ServeSecret, CInv
    <2>3. QED
      BY <2>1, <2>2
  <1>6. Kept
    <2>1. /\ call' = call /\ origin' = origin /\ task' = task /\ control' = control
      BY DEF ServeSecret
    <2>2. \A i \in Calls : Passes(i)
      BY <2>1 DEF Passes, InProgress, Early
    <2>3. QED
      BY <2>1, <2>2, <1>4, KeptByCalls
  <1>7. TypeOK' /\ HandlesHere'
    BY <1>4, <1>5, SameHandles DEF ServeSecret, CInv, TypeOK
  <1>8. QED
    BY <1>6, <1>7, KeptCInv

LEMMA StopBrowserKeeps ==
  ASSUME CInv, NEW o \in Operators, StopBrowser(o)
  PROVE  CInv'
  <1>1. op' = [op EXCEPT ![o] = IF TRUE THEN [@ EXCEPT !.pc = "stopped"] ELSE NoOp]
    BY DEF StopBrowser
  <1>2. op' \in [Operators -> OpRecord]
    BY <1>1, OpGoesOn DEF CInv
  <1>3. sidecar' = NoSession
    BY DEF StopBrowser, StoppedSidecar
  <1>4. TypeOK' /\ HandlesHere' /\ Kept
    BY <1>2, <1>3, Quiet
       DEF StopBrowser, CInv, TypeOK, NoSession, SidecarRecord, Maybe, HandlesHere
  <1>5. QED
    BY <1>4, KeptCInv

LEMMA StoppedKeeps ==
  ASSUME CInv, NEW o \in Operators, Stopped(o)
  PROVE  CInv'
  <1>1. op' \in [Operators -> OpRecord] /\ driverLease' \in Maybe(Nat)
    BY NoOpType, OpFacts DEF Stopped, CInv, Maybe
  <1>2. TypeOK' /\ HandlesHere' /\ Kept
    BY <1>1, Quiet, SameHandles DEF Stopped, CInv, TypeOK
  <1>3. QED
    BY <1>2, KeptCInv

LEMMA ResetBrowserKeeps ==
  ASSUME CInv, NEW o \in Operators, ResetBrowser(o)
  PROVE  CInv'
  <1> DEFINE r == [op[o] EXCEPT !.pc = "reset", !.lease = sessions + 1]
  <1>1. op[o] \in OpRecord /\ sessions \in Nat
    BY DEF CInv, TypeOK
  <1>2. r \in OpRecord
    <2>1. sessions + 1 \in Maybe(Nat)
      BY <1>1 DEF Maybe
    <2>2. r.pc = "reset"
      BY <1>1 DEF OpRecord
    <2>3. QED
      BY <1>1, <2>1, <2>2 DEF OpRecord
  <1>3. op' = [op EXCEPT ![o] = r]
    BY DEF ResetBrowser, CInv, TypeOK
  <1>4. op' \in [Operators -> OpRecord]
    <2> HIDE DEF r
    <2>1. QED
      BY <1>2, <1>3, OpFacts DEF CInv
  <1>5. sidecar' = [lease |-> sessions + 1, handles |-> None] /\ sessions' = sessions + 1
    BY DEF ResetBrowser, StoppedSidecar, NoSession
  <1>6. sidecar' \in SidecarRecord /\ HandlesHere' /\ sessions' \in Nat
    BY <1>1, <1>5 DEF SidecarRecord, Maybe, HandlesHere
  <1>7. TypeOK' /\ Kept
    BY <1>4, <1>6, Quiet DEF ResetBrowser, CInv, TypeOK
  <1>8. QED
    BY <1>6, <1>7, KeptCInv

LEMMA HasResetKeeps ==
  ASSUME CInv, NEW o \in Operators, HasReset(o)
  PROVE  CInv'
  <1>1. op[o].lease \in Maybe(Nat)
    BY DEF CInv, TypeOK, OpRecord
  <1>2. op' \in [Operators -> OpRecord] /\ driverLease' \in Maybe(Nat)
    BY <1>1, NoOpType, OpFacts DEF HasReset, CInv
  <1>3. TypeOK' /\ HandlesHere' /\ Kept
    BY <1>2, Quiet, SameHandles DEF HasReset, CInv, TypeOK
  <1>4. QED
    BY <1>3, KeptCInv

-----------------------------------------------------------------------------
(* The task, deaths and restarts *)

LEMMA EndTaskKeeps ==
  ASSUME CInv, EndTask
  PROVE  CInv'
  <1>1. TypeOK' /\ HandlesHere' /\ Kept
    BY Quiet, SameHandles DEF EndTask, CInv, TypeOK
  <1>2. QED
    BY <1>1, KeptCInv

LEMMA NoSessionFacts ==
  ASSUME sidecar' = NoSession, driverLease' = None
  PROVE  sidecar' \in SidecarRecord /\ driverLease' \in Maybe(Nat) /\ HandlesHere'
  BY DEF NoSession, SidecarRecord, Maybe, HandlesHere

LEMMA SidecarDiesKeeps ==
  ASSUME CInv, SidecarDies
  PROVE  CInv'
  <1> DEFINE S == {i \in Calls : call[i].pc \in AtSidecar}
  <1>1. call' = [i \in Calls |-> IF i \in S THEN Over(call[i]) ELSE call[i]]
    BY DEF SidecarDies
  <1>2. S \in SUBSET Calls /\ \A i \in S : InProgress(i)
    BY DEF AtSidecar, InProgress
  <1>3. call' \in [Calls -> CallRecord] /\ \A j \in Calls : Passes(j)
    <2> HIDE DEF S
    <2>1. QED
      BY <1>1, <1>2, Ended DEF CInv
  <1>4. op' \in [Operators -> OpRecord]
    BY NoOpType DEF SidecarDies, CInv, TypeOK
  <1>5. sidecar' \in SidecarRecord /\ driverLease' \in Maybe(Nat) /\ HandlesHere'
    BY NoSessionFacts DEF SidecarDies
  <1>6. TypeOK' /\ Kept
    BY <1>3, <1>4, <1>5, KeptByCalls DEF SidecarDies, CInv, TypeOK
  <1>7. QED
    BY <1>5, <1>6, KeptCInv

LEMMA RestartKeeps ==
  ASSUME CInv, Restart
  PROVE  CInv'
  <1> DEFINE S == {i \in Calls : InProgress(i)}
  <1>1. call' = [i \in Calls |-> IF i \in S THEN Over(call[i]) ELSE call[i]]
    BY DEF Restart
  <1>2. S \in SUBSET Calls /\ \A i \in S : InProgress(i)
    OBVIOUS
  <1>3. call' \in [Calls -> CallRecord] /\ \A j \in Calls : Passes(j)
    <2> HIDE DEF S
    <2>1. QED
      BY <1>1, <1>2, Ended DEF CInv
  <1>4. op' \in [Operators -> OpRecord] /\ snapshot' \in Maybe(Calls)
    BY NoOpType DEF Restart, Maybe
  <1>5. sidecar' \in SidecarRecord /\ driverLease' \in Maybe(Nat) /\ HandlesHere'
    BY NoSessionFacts DEF Restart
  <1>6. TypeOK' /\ Kept
    BY <1>3, <1>4, <1>5, KeptByCalls DEF Restart, CInv, TypeOK
  <1>7. QED
    BY <1>5, <1>6, KeptCInv

-----------------------------------------------------------------------------
(* The theorems *)

LEMMA InitInv ==
  ASSUME Init
  PROVE  CInv
  <1>1. NoCall \in CallRecord /\ AgentControl \in ControlRecord /\ NoSession \in SidecarRecord
    BY DEF NoCall, CallRecord, CallPc, AgentControl, ControlRecord, NoSession, SidecarRecord,
           Maybe
  <1>2. TypeOK
    BY <1>1, NoOpType DEF Init, TypeOK, Maybe
  <1>3. ASSUME NEW i \in Calls
        PROVE  Seen(i) /\ Fresh(i)
    <2>1. call[i].pc = "new" /\ origin[i] = None /\ used = {}
      BY DEF Init, NoCall
    <2>2. QED
      BY <2>1 DEF Seen, Fresh, InProgress
  <1>4. HandlesHere /\ UsedSomewhere /\ CallsWereAuthorised /\ ElementsStayInSession
    BY DEF Init, NoSession, HandlesHere, UsedSomewhere, CallsWereAuthorised,
           ElementsStayInSession
  <1>5. QED
    BY <1>2, <1>3, <1>4 DEF CInv

LEMMA WorkerKeeps ==
  ASSUME CInv, NEW i \in Calls, WorkerNext(i)
  PROVE  CInv'
  <1>1. ASSUME NEW kind \in Kinds, NEW snap \in {None} \cup {j \in Calls : origin[j] # None},
               Begin(i, kind, snap)
        PROVE  CInv'
    BY <1>1, BeginKeeps DEF Maybe
  <1>2. QED
    BY <1>1, TaskRefusesKeeps, CheckTaskKeeps, GovernKeeps, UseFileKeeps, HelpKeeps,
       AskSecretKeeps, PauseKeeps, SendKeeps, ServeSnapshotKeeps, ServeNavigateKeeps,
       ArriveKeeps, ServeInputKeeps, AnsweredKeeps, FinishKeeps, GiveUpKeeps
       DEF WorkerNext

LEMMA OperatorKeeps ==
  ASSUME CInv, NEW o \in Operators, OperatorNext(o)
  PROVE  CInv'
  BY ReadControlKeeps, TakeKeeps, ReleaseKeeps, SupplyKeeps, SendSecretKeeps,
     ServeSecretKeeps, ClearSecretKeeps, ReadRequestedKeeps, StopBrowserKeeps, StoppedKeeps,
     ResetBrowserKeeps, HasResetKeeps
     DEF OperatorNext

LEMMA StutterKeeps ==
  ASSUME CInv, UNCHANGED vars
  PROVE  CInv'
  <1>1. TypeOK' /\ HandlesHere' /\ Kept
    BY Quiet, SameHandles DEF vars, CInv, TypeOK
  <1>2. QED
    BY <1>1, KeptCInv

LEMMA Invariance == Spec => []CInv
  <1>1. Init => CInv
    BY InitInv
  <1>2. CInv /\ [Next]_vars => CInv'
    BY WorkerKeeps, OperatorKeeps, EndTaskKeeps, SidecarDiesKeeps, RestartKeeps, StutterKeeps
       DEF Next
  <1>3. QED
    BY <1>1, <1>2, PTL DEF Spec

\* The control, the secret request, the snapshot, the leases, the calls and the
\* operations always have their types.
THEOREM TypeCorrect == Spec => []TypeOK
  <1>1. CInv => TypeOK
    BY DEF CInv
  <1>2. QED
    BY <1>1, Invariance, PTL

\* What a call of the worker did, it did for a task that ran when the call began, and
\* the agent had the control at a moment of the call (#govern and #assertActiveTask).
THEOREM CallsWereAuthorisedTheorem == Spec => []CallsWereAuthorised
  <1>1. CInv => CallsWereAuthorised
    BY DEF CInv
  <1>2. QED
    BY <1>1, Invariance, PTL

\* An element is only used in the browser session in which its snapshot was taken
\* (requireLease and elementId of the sidecar).
THEOREM ElementsStayInSessionTheorem == Spec => []ElementsStayInSession
  <1>1. CInv => ElementsStayInSession
    BY DEF CInv
  <1>2. QED
    BY <1>1, Invariance, PTL
=============================================================================
