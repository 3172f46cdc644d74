------------------------------ MODULE Computer ------------------------------
(***************************************************************************)
(* The computer of one worker: the calls of the worker through the bridge  *)
(* or the API (governed-tool-bridge.js, computer-api.js), the check of its *)
(* task (task-bound-computer.js), the gateway with its snapshot and the    *)
(* control of the operators (computer-gateway.js, computer-registry.js),   *)
(* the driver (sidecar-computer-driver.js) and the sidecar with its        *)
(* browser session (sidecars/webdriver/server.js).                         *)
(*                                                                         *)
(* Calls are asynchronous and run side by side.  A call that the driver    *)
(* gave up on may still be carried out by the sidecar.  The policy may     *)
(* refuse any call.  The page itself is not modelled: a handle stands for  *)
(* the elements of one snapshot.  Starts of the browser do not overlap.    *)
(***************************************************************************)
EXTENDS Naturals, FiniteSets

CONSTANTS
    Operators,      \* the human operators
    None,
    MaxCalls,       \* bound: calls of the worker
    MaxSessions,    \* bound: browser sessions
    MaxOps,         \* bound: operations of the operators
    MaxFaults       \* bound: requests given up, deaths of the sidecar, restarts

ASSUME ComputerAssumption ==
    /\ None \notin Operators /\ None \notin Nat
    /\ \A o \in Operators : o \notin Nat
    /\ MaxCalls \in Nat /\ MaxSessions \in Nat /\ MaxOps \in Nat /\ MaxFaults \in Nat

VARIABLES
    task,           \* whether the worker's task is running
    control,        \* the control record of the registry
    secret,         \* the secret request of the registry, or None
    snapshot,       \* the gateway's snapshot: the call that took it, or None
    driverLease,    \* the driver's session lease, or None
    sidecar,        \* the sidecar's session lease and handles
    call,           \* call[i], the worker's i-th call
    op,             \* op[o], the operation of operator o in progress
    origin,         \* origin[i]: the session in which call i took its snapshot
    used,           \* what was done with elements: the snapshot and the session
    sessions, ops, faults

vars == <<task, control, secret, snapshot, driverLease, sidecar, call, op, origin, used,
          sessions, ops, faults>>

Calls == 1..MaxCalls

\* act: click, type or key with an element; page: scroll or key without one.
Kinds == {"snapshot", "navigate", "act", "page", "file", "help", "secret"}

\* snap: the snapshot named by the call; lease: of its element; agent: whether the
\* control was with the agent at a moment since the call began.
NoCall == [pc |-> "new", kind |-> None, snap |-> None, lease |-> None, agent |-> FALSE,
           ran |-> FALSE]

NoOp == [pc |-> "idle", prev |-> None, request |-> None, lease |-> None]

AgentControl == [mode |-> "agent", actor |-> None, request |-> None]

\* A new process of the sidecar starts a session.
Session(n) == [lease |-> n, handles |-> None]
NoSession == [lease |-> None, handles |-> None]

Init ==
    /\ task = TRUE
    /\ control = AgentControl /\ secret = None
    /\ snapshot = None /\ driverLease = None
    /\ sidecar = NoSession
    /\ call = [i \in Calls |-> NoCall]
    /\ op = [o \in Operators |-> NoOp]
    /\ origin = [i \in Calls |-> None]
    /\ used = {}
    /\ sessions = 0 /\ ops = 0 /\ faults = 0

\* What is left of a call that is over.
Over(c) ==
    [c EXCEPT !.pc = "done", !.kind = None, !.lease = None,
              !.snap = IF c.kind = "secret" THEN @ ELSE None]

At(c, pc) == IF pc = "done" THEN Over(c) ELSE [c EXCEPT !.pc = pc]

Goes(i, pc) == call' = [call EXCEPT ![i] = At(@, pc)]

InProgress(i) == call[i].pc \notin {"new", "done"}

\* registry.setControl; the calls in progress see whether the agent has it.
SetControl(c) ==
    /\ control' = c
    /\ call' = [i \in Calls |->
           IF c.mode = "agent" /\ InProgress(i) THEN [call[i] EXCEPT !.agent = TRUE] ELSE call[i]]

-----------------------------------------------------------------------------
(* A call of the worker up to the driver *)

\* The call arrives with the token of the agent, or with the bridge's capability.
Begin(i, kind, snap) ==
    /\ call[i].pc = "new" /\ \A j \in 1..(i - 1) : call[j].pc # "new"
    /\ snap # None <=> kind \in {"act", "secret"}
    /\ call' = [call EXCEPT ![i] = [pc |-> "task", kind |-> kind, snap |-> snap, lease |-> None,
                                    agent |-> control.mode = "agent", ran |-> task]]
    /\ UNCHANGED <<task, control, secret, snapshot, driverLease, sidecar, op, origin, used,
                   sessions, ops, faults>>

\* #assertActiveTask
TaskRefuses(i) ==
    /\ call[i].pc = "task" /\ ~task
    /\ Goes(i, "done")
    /\ UNCHANGED <<task, control, secret, snapshot, driverLease, sidecar, op, origin, used,
                   sessions, ops, faults>>

\* The element of the call: the lease its snapshot was taken under, or None when the
\* snapshot is not the gateway's.
Resolved(snap) == IF snap # None /\ snap = snapshot THEN origin[snap] ELSE None

\* #currentPage and #resolveElement: an element call needs the snapshot it names, a
\* page call any.
NotRefused(i) ==
    CASE call[i].kind \in {"act", "secret"} -> Resolved(call[i].snap) # None
      [] call[i].kind = "page" -> snapshot # None
      [] OTHER -> TRUE

\* The task is checked, and the element resolved in the same turn.
CheckTask(i) ==
    /\ call[i].pc = "task" /\ task /\ call[i].kind # "help"
    /\ call' = [call EXCEPT ![i] = IF NotRefused(i)
           THEN [@ EXCEPT !.pc = "control", !.lease = Resolved(call[i].snap)] ELSE Over(@)]
    /\ UNCHANGED <<task, control, secret, snapshot, driverLease, sidecar, op, origin, used,
                   sessions, ops, faults>>

\* MUTANT of AgentMayAct: only an operator who took control stops the agent.
NoHumanInControl == control.mode # "human"

\* #govern: the control that the decision is made with.
AgentMayAct == control.mode = "agent"

\* #govern: the control is read, and the Governor decides; a refusal of the policy and
\* a failure of the audit log look the same.
Govern(i) ==
    /\ call[i].pc = "control"
    /\ \/ AgentMayAct /\ Goes(i, IF call[i].kind = "secret" THEN "ask" ELSE "run")
       \/ Goes(i, "done")
    /\ UNCHANGED <<task, control, secret, snapshot, driverLease, sidecar, op, origin, used,
                   sessions, ops, faults>>

\* The workspace is read or written.
UseFile(i) ==
    /\ call[i].pc = "run" /\ call[i].kind = "file"
    /\ Goes(i, "done")
    /\ used' = used \cup {[by |-> i, snap |-> None, session |-> None]}
    /\ UNCHANGED <<task, control, secret, snapshot, driverLease, sidecar, op, origin,
                   sessions, ops, faults>>

\* requestHelp asks nobody: the control is set whatever it was.
Help(i) ==
    /\ call[i].pc = "task" /\ task /\ call[i].kind = "help"
    /\ control' = [mode |-> "requested", actor |-> None, request |-> None]
    /\ Goes(i, "done")
    /\ UNCHANGED <<task, secret, snapshot, driverLease, sidecar, op, origin, used,
                   sessions, ops, faults>>

\* requestSecret, allowed: the request is stored ...
AskSecret(i) ==
    /\ call[i].pc = "ask"
    /\ secret' = i
    /\ Goes(i, "pause")
    /\ UNCHANGED <<task, control, snapshot, driverLease, sidecar, op, origin, used,
                   sessions, ops, faults>>

\* ... and then the agent is paused.
Pause(i) ==
    /\ call[i].pc = "pause"
    /\ control' = [mode |-> "requested", actor |-> None, request |-> i]
    /\ Goes(i, "done")
    /\ UNCHANGED <<task, secret, snapshot, driverLease, sidecar, op, origin, used,
                   sessions, ops, faults>>

-----------------------------------------------------------------------------
(* The driver and the sidecar *)

\* #ensureElementLease; a page call needs any lease.
LeaseHolds(kind, lease) ==
    /\ kind \in {"act", "page"} => driverLease # None
    /\ kind = "act" => lease = driverLease

\* #ensureStarted: a new process has a session of its own.
Started ==
    IF driverLease = None /\ sidecar.lease = None /\ sessions < MaxSessions
    THEN /\ sessions' = sessions + 1
         /\ sidecar' = Session(sessions + 1)
         /\ driverLease' = sessions + 1
    ELSE UNCHANGED <<sessions, sidecar, driverLease>>

\* The driver sends the request, with its lease.
Send(i) ==
    /\ call[i].pc = "run" /\ call[i].kind # "file"
    /\ IF LeaseHolds(call[i].kind, call[i].lease)
       THEN call' = [call EXCEPT ![i].pc = "sent",
                                 ![i].lease = IF @ = None THEN driverLease ELSE @]
       ELSE Goes(i, "done")
    /\ Started
    /\ UNCHANGED <<task, control, secret, snapshot, op, origin, used, ops, faults>>

\* startSession: the session there is, or a new one.
Current ==
    IF sidecar.lease # None THEN sidecar ELSE Session(sessions + 1)

StartsSession ==
    /\ sidecar.lease = None => sessions < MaxSessions
    /\ sessions' = IF sidecar.lease = None THEN sessions + 1 ELSE sessions

Answer(c, lease) == [c EXCEPT !.pc = "answered", !.lease = lease]

\* /snapshot: the elements get new handles.
ServeSnapshot(i) ==
    /\ call[i].pc \in {"sent", "sent late"} /\ call[i].kind = "snapshot"
    /\ StartsSession
    /\ sidecar' = [Current EXCEPT !.handles = i]
    /\ origin' = [origin EXCEPT ![i] = Current.lease]
    /\ call' = [call EXCEPT ![i] = IF @.pc = "sent" THEN Answer(@, Current.lease) ELSE Over(@)]
    /\ UNCHANGED <<task, control, secret, snapshot, driverLease, op, used, ops, faults>>

\* /navigate: the browser goes to the page ...
ServeNavigate(i) ==
    /\ call[i].pc \in {"sent", "sent late"} /\ call[i].kind = "navigate"
    /\ StartsSession
    /\ sidecar' = Current
    /\ used' = used \cup {[by |-> i, snap |-> None, session |-> Current.lease]}
    /\ call' = [call EXCEPT ![i].pc = IF @ = "sent" THEN "there" ELSE "there late",
                            ![i].lease = Current.lease]
    /\ UNCHANGED <<task, control, secret, snapshot, driverLease, op, origin, ops, faults>>

\* ... and the handles are forgotten.
Arrive(i) ==
    /\ call[i].pc \in {"there", "there late"}
    /\ sidecar' = [sidecar EXCEPT !.handles = None]
    /\ call' = [call EXCEPT ![i] = IF @.pc = "there" THEN Answer(@, sidecar.lease) ELSE Over(@)]
    /\ UNCHANGED <<task, control, secret, snapshot, driverLease, op, origin, used,
                   sessions, ops, faults>>

\* MUTANT of Accepts: the driver has compared the leases already.
AcceptsAny(lease, snap) == sidecar.lease # None

\* requireLease and elementId: what the sidecar accepts.
Accepts(lease, snap) ==
    /\ sidecar.lease # None /\ lease = sidecar.lease
    /\ snap # None => snap = sidecar.handles

\* /click, /type, /key and /scroll
ServeInput(i) ==
    /\ call[i].pc \in {"sent", "sent late"} /\ call[i].kind \in {"act", "page"}
    /\ used' = IF Accepts(call[i].lease, call[i].snap)
               THEN used \cup {[by |-> i, snap |-> call[i].snap, session |-> sidecar.lease]}
               ELSE used
    /\ Goes(i, "done")
    /\ UNCHANGED <<task, control, secret, snapshot, driverLease, sidecar, op, origin,
                   sessions, ops, faults>>

\* The answer reaches the driver, which keeps the lease it names ...
Answered(i) ==
    /\ call[i].pc = "answered"
    /\ driverLease' = IF call[i].lease = None THEN driverLease ELSE call[i].lease
    /\ Goes(i, "audit")
    /\ UNCHANGED <<task, control, secret, snapshot, sidecar, op, origin, used,
                   sessions, ops, faults>>

\* ... and, once it is audited, the gateway keeps the snapshot or drops the old one.
Finish(i) ==
    /\ call[i].pc = "audit"
    /\ snapshot' = IF call[i].kind = "snapshot" THEN i ELSE None
    /\ Goes(i, "done")
    /\ UNCHANGED <<task, control, secret, driverLease, sidecar, op, origin, used,
                   sessions, ops, faults>>

-----------------------------------------------------------------------------
(* The operators *)

Operates(o) == op[o].pc = "idle" /\ ops < MaxOps /\ ops' = ops + 1

\* takeControl and releaseControl: the control is read and checked ...
ReadControl(o, what) ==
    /\ Operates(o)
    /\ control.mode # "human" \/ control.actor = o
    /\ op' = [op EXCEPT ![o] = [NoOp EXCEPT !.pc = what]]
    /\ UNCHANGED <<task, control, secret, snapshot, driverLease, sidecar, call, origin, used,
                   sessions, faults>>

\* ... and then set.
Take(o) ==
    /\ op[o].pc = "take"
    /\ SetControl([mode |-> "human", actor |-> o, request |-> None])
    /\ op' = [op EXCEPT ![o] = NoOp]
    /\ UNCHANGED <<task, secret, snapshot, driverLease, sidecar, origin, used,
                   sessions, ops, faults>>

Release(o) ==
    /\ op[o].pc = "release"
    /\ SetControl(AgentControl)
    /\ op' = [op EXCEPT ![o] = NoOp]
    /\ UNCHANGED <<task, secret, snapshot, driverLease, sidecar, origin, used,
                   sessions, ops, faults>>

\* supplySecret: the request is there, its task runs and its snapshot is the gateway's.
Supply(o) ==
    /\ Operates(o)
    /\ secret # None /\ task /\ Resolved(call[secret].snap) # None
    /\ op' = [op EXCEPT ![o] = [pc |-> "type", prev |-> None, request |-> secret,
                                lease |-> Resolved(call[secret].snap)]]
    /\ UNCHANGED <<task, control, secret, snapshot, driverLease, sidecar, call, origin, used,
                   sessions, faults>>

\* typeSecret: the driver compares the leases ...
SendSecret(o) ==
    /\ op[o].pc = "type"
    /\ op' = [op EXCEPT ![o] = IF LeaseHolds("act", @.lease) THEN [@ EXCEPT !.pc = "typed"]
                               ELSE NoOp]
    /\ UNCHANGED <<task, control, secret, snapshot, driverLease, sidecar, call, origin, used,
                   sessions, ops, faults>>

\* ... and the sidecar types it.
ServeSecret(o) ==
    /\ op[o].pc = "typed"
    /\ LET snap == call[op[o].request].snap IN
       IF Accepts(op[o].lease, snap)
       THEN /\ used' = used \cup {[by |-> o, snap |-> snap, session |-> sidecar.lease]}
            /\ op' = [op EXCEPT ![o].pc = "clear"]
       ELSE op' = [op EXCEPT ![o] = NoOp] /\ UNCHANGED used
    /\ UNCHANGED <<task, control, secret, snapshot, driverLease, sidecar, call, origin,
                   sessions, ops, faults>>

\* The request is cleared, whichever it is by now ...
ClearSecret(o) ==
    /\ op[o].pc = "clear"
    /\ secret' = None
    /\ op' = [op EXCEPT ![o].pc = "read"]
    /\ UNCHANGED <<task, control, snapshot, driverLease, sidecar, call, origin, used,
                   sessions, ops, faults>>

\* ... the control is read, and given back when it still is of this request.
ReadRequested(o) ==
    /\ op[o].pc = "read"
    /\ op' = [op EXCEPT ![o] =
           IF control.mode = "requested" /\ control.request = @.request
           THEN [@ EXCEPT !.pc = "release"] ELSE NoOp]
    /\ UNCHANGED <<task, control, secret, snapshot, driverLease, sidecar, call, origin, used,
                   sessions, ops, faults>>

\* stopSession
StoppedSidecar == NoSession

\* lifecycle stop: the sidecar ends the session, and the driver forgets its lease.
StopBrowser(o) ==
    /\ Operates(o) /\ sidecar.lease # None
    /\ sidecar' = StoppedSidecar
    /\ op' = [op EXCEPT ![o].pc = "stopped"]
    /\ UNCHANGED <<task, control, secret, snapshot, driverLease, call, origin, used,
                   sessions, faults>>

Stopped(o) ==
    /\ op[o].pc = "stopped"
    /\ driverLease' = None
    /\ op' = [op EXCEPT ![o] = NoOp]
    /\ UNCHANGED <<task, control, secret, snapshot, sidecar, call, origin, used,
                   sessions, ops, faults>>

\* lifecycle reset: the session ends, the profile is removed and a session starts.
ResetBrowser(o) ==
    /\ Operates(o) /\ sessions < MaxSessions
    /\ sessions' = sessions + 1
    /\ sidecar' = [StoppedSidecar EXCEPT !.lease = sessions + 1]
    /\ op' = [op EXCEPT ![o].pc = "reset", ![o].lease = sessions + 1]
    /\ UNCHANGED <<task, control, secret, snapshot, driverLease, call, origin, used, faults>>

HasReset(o) ==
    /\ op[o].pc = "reset"
    /\ driverLease' = op[o].lease
    /\ op' = [op EXCEPT ![o] = NoOp]
    /\ UNCHANGED <<task, control, secret, snapshot, sidecar, call, origin, used,
                   sessions, ops, faults>>

-----------------------------------------------------------------------------
(* The task, and faults *)

EndTask ==
    /\ task /\ task' = FALSE
    /\ UNCHANGED <<control, secret, snapshot, driverLease, sidecar, call, op, origin, used,
                   sessions, ops, faults>>

Fault == faults < MaxFaults /\ faults' = faults + 1

\* The driver gives up a request at its timeout; the sidecar goes on with it.
GiveUp(i) ==
    /\ Fault /\ call[i].pc \in {"sent", "there"}
    /\ Goes(i, IF call[i].pc = "sent" THEN "sent late" ELSE "there late")
    /\ UNCHANGED <<task, control, secret, snapshot, driverLease, sidecar, op, origin, used,
                   sessions, ops>>

AtSidecar == {"sent", "sent late", "there", "there late"}

\* The sidecar dies, with its browser and the requests it has.
SidecarDies ==
    /\ Fault /\ sidecar.lease # None
    /\ sidecar' = NoSession /\ driverLease' = None
    /\ call' = [i \in Calls |->
           IF call[i].pc \in AtSidecar THEN Over(call[i]) ELSE call[i]]
    /\ op' = [o \in Operators |->
           IF op[o].pc \in {"typed", "stopped", "reset"} THEN NoOp ELSE op[o]]
    /\ UNCHANGED <<task, control, secret, snapshot, origin, used, sessions, ops>>

\* The core restarts: the control and the secret request are durable.
Restart ==
    /\ Fault
    /\ sidecar' = NoSession /\ driverLease' = None /\ snapshot' = None
    /\ call' = [i \in Calls |-> IF InProgress(i) THEN Over(call[i]) ELSE call[i]]
    /\ op' = [o \in Operators |-> NoOp]
    /\ UNCHANGED <<task, control, secret, origin, used, sessions, ops>>

WorkerNext(i) ==
    \/ \E kind \in Kinds, snap \in {None} \cup {j \in Calls : origin[j] # None} :
        Begin(i, kind, snap)
    \/ TaskRefuses(i) \/ CheckTask(i) \/ Govern(i) \/ UseFile(i) \/ Help(i)
    \/ AskSecret(i) \/ Pause(i) \/ Send(i)
    \/ ServeSnapshot(i) \/ ServeNavigate(i) \/ Arrive(i) \/ ServeInput(i)
    \/ Answered(i) \/ Finish(i) \/ GiveUp(i)

OperatorNext(o) ==
    \/ \E what \in {"take", "release"} : ReadControl(o, what)
    \/ Take(o) \/ Release(o)
    \/ Supply(o) \/ SendSecret(o) \/ ServeSecret(o) \/ ClearSecret(o) \/ ReadRequested(o)
    \/ StopBrowser(o) \/ Stopped(o) \/ ResetBrowser(o) \/ HasReset(o)

Next ==
    \/ \E i \in Calls : WorkerNext(i)
    \/ \E o \in Operators : OperatorNext(o)
    \/ EndTask \/ SidecarDies \/ Restart

Spec == Init /\ [][Next]_vars

-----------------------------------------------------------------------------
(* Properties *)

\* What a call of the worker did, it did for a task that ran when the call began, and
\* the agent had the control at a moment of the call: whatever the operators, the
\* timeouts and the restarts do, a call that begins while the computer is paused, held
\* by an operator or left by its task does nothing.
CallsWereAuthorised ==
    \A u \in used : u.by \in Calls => call[u.by].agent /\ call[u.by].ran

\* An element, by the worker or by an operator with a secret, is only used in the
\* browser session in which its snapshot was taken, whatever is stopped, reset, started
\* anew or answered late in between.
ElementsStayInSession ==
    \A u \in used : u.snap # None => origin[u.snap] = u.session

=============================================================================
