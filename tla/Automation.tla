----------------------------- MODULE Automation -----------------------------
(***************************************************************************)
(* Routines and event triggers of the desktop (routine-controller.js,      *)
(* event-trigger-controller.js), and what they see of the jobs they make   *)
(* (job-controller.js).  A routine fires at its schedule, or when a        *)
(* trigger saw a file of its workspace change and stay quiet for a while;  *)
(* either way it records a run, submits a job, and notes the job in the    *)
(* run.  All of this is synchronous, and each part is saved before the     *)
(* next one starts: the process may stop between two saves, so a firing    *)
(* has a step per save and nothing but a stop comes between its steps.     *)
(*                                                                         *)
(* Time is counted in units.  A trigger watches one path.                  *)
(***************************************************************************)
EXTENDS Integers, Sequences, FiniteSets

CONSTANTS
    Routines, Triggers,
    Period,         \* time between two occurrences of a recurring schedule
    Quiet,          \* EVENT_TRIGGER_QUIET_WINDOW_MS
    MaxFires,       \* EVENT_TRIGGER_STORM_MAX_FIRES
    Window,         \* EVENT_TRIGGER_STORM_WINDOW_MS
    HistoryLimit,   \* ROUTINE_HISTORY_LIMIT
    MaxTime,        \* bound: the clock
    MaxJobs,        \* bound: jobs submitted
    MaxOps,         \* bound: operations of the user, and changes of the workspace
    MaxStops,       \* bound: stops of the process
    None

ASSUME AutomationAssumption ==
    /\ None \notin Routines \cup Triggers \cup Int
    /\ Period \in Nat \ {0} /\ Quiet \in Nat /\ MaxFires \in Nat \ {0}
    /\ Window \in Nat \ {0} /\ HistoryLimit \in Nat \ {0}
    /\ MaxTime \in Nat /\ MaxJobs \in Nat /\ MaxOps \in Nat /\ MaxStops \in Nat

VARIABLES
    now,            \* the clock
    routine,        \* routine[r], as in routines.json
    trigger,        \* trigger[t], as in event-triggers.json
    watching,       \* the triggers of the installed watcher
    pending,        \* pending[t]: dueAt of the trigger's pending event, or None
    workspace,      \* whether the trusted workspace is available
    jobs,           \* the jobs submitted, as in jobs.json
    firing,         \* the processPending or fireRoutine call in progress
    since,          \* since[t]: number of jobs when the operator last enabled t
    ops, stops

automationVars == <<now, routine, trigger, watching, pending, workspace, jobs, firing, since, ops, stops>>

Time == 0..MaxTime
\* "queued" stands for working and waiting, "over" for completed, failed and cancelled.
JobStatus == {"queued", "needs_attention", "over"}

\* at: the schedule's time, of a one-time one; next: nextRunAt; ran: lastRunAt is set.
NoRoutine == [kind |-> "none", enabled |-> FALSE, at |-> None, next |-> None, ran |-> FALSE,
              history |-> <<>>]

\* cause: why lastError is set; recent: recentFireAt.
NoTrigger == [status |-> "none", routine |-> None, enabled |-> FALSE, cause |-> "none",
              recent |-> <<>>, removed |-> FALSE]

NoFiring == [pc |-> "idle", routine |-> None, at |-> 0, trigger |-> None]

AutomationInit ==
    /\ now = 0
    /\ routine = [r \in Routines |-> NoRoutine]
    /\ trigger = [t \in Triggers |-> NoTrigger]
    /\ watching = {}
    /\ pending = [t \in Triggers |-> None]
    /\ workspace = TRUE
    /\ jobs = <<>>
    /\ firing = NoFiring
    /\ since = [t \in Triggers |-> 0]
    /\ ops = 0 /\ stops = 0

Exists(r) == routine[r].kind \in {"one-time", "recurring"}
BetweenFirings == firing.pc = "idle"
Operates == BetweenFirings /\ ops < MaxOps /\ ops' = ops + 1

-----------------------------------------------------------------------------
(* Routines *)

\* nextRoutineOccurrence: the first multiple of the period after time t.
NextOccurrence(t) == Period * (t \div Period + 1)

\* MUTANT of NextRun: the occurrence after the one that fired, however late it did.
NextRunAfter(r, at) == IF routine[r].kind = "one-time" THEN None ELSE NextOccurrence(at)

\* nextRunAt once the occurrence of time at has fired: missed ones are skipped.
NextRun(r, at) ==
    IF routine[r].kind = "one-time" THEN None
    ELSE NextOccurrence(IF at > now THEN at ELSE now)

\* reconcileHistory: the runs of a routine follow their jobs.
Follow(run) ==
    IF run.job # 0 /\ run.status # "over"
    THEN [run EXCEPT !.status = jobs[run.job].status] ELSE run

RunsReconciled(r) == [routine[r] EXCEPT !.history = [i \in DOMAIN @ |-> Follow(@[i])]]

AllReconciled == [r \in Routines |-> RunsReconciled(r)]

\* trimHistory, after a push.
Pushed(history, run) ==
    LET h == Append(history, run) IN
    IF Len(h) > HistoryLimit THEN SubSeq(h, Len(h) - HistoryLimit + 1, Len(h)) ELSE h

\* create; at is initialNextRun, of any time for a one-time schedule.
CreateRoutine(r) ==
    /\ Operates /\ routine[r].kind = "none"
    /\ \E kind \in {"one-time", "recurring"}, at \in Time \cup {NextOccurrence(now)} :
        /\ kind = "recurring" => at = NextOccurrence(now)
        /\ routine' = [routine EXCEPT ![r] =
               [NoRoutine EXCEPT !.kind = kind, !.enabled = TRUE, !.at = at, !.next = at]]
    /\ UNCHANGED <<now, trigger, watching, pending, workspace, jobs, firing, since, stops>>

\* The beginning of submitRoutineRun: the run is recorded and the schedule advanced.
Recorded(r, at, source) ==
    [RunsReconciled(r) EXCEPT
        !.history = Pushed(@, [status |-> "submitting", job |-> 0]),
        !.ran = TRUE,
        !.enabled = @ /\ ~(source = "schedule" /\ routine[r].kind = "one-time"),
        !.next = IF source = "schedule" THEN NextRun(r, at) ELSE @]

\* tickOnce: a due routine fires.
Tick(r) ==
    /\ BetweenFirings /\ Len(jobs) < MaxJobs
    /\ routine[r].enabled /\ routine[r].next # None /\ routine[r].next <= now
    /\ routine' = [AllReconciled EXCEPT ![r] = Recorded(r, routine[r].next, "schedule")]
    /\ firing' = [pc |-> "submit", routine |-> r, at |-> routine[r].next, trigger |-> None]
    /\ UNCHANGED <<now, trigger, watching, pending, workspace, jobs, since, ops, stops>>

\* The run of the call gets its status, and the trigger that fired it is told.
RunIs(status, job, told) ==
    /\ routine' = [routine EXCEPT ![firing.routine].history =
           [@ EXCEPT ![Len(@)] = [status |-> status, job |-> job]]]
    /\ trigger' = IF firing.trigger = None THEN trigger
                  ELSE [trigger EXCEPT ![firing.trigger].status = told]
    /\ firing' = NoFiring

\* submitJob: the job is queued and saved.
SubmitJob ==
    /\ firing.pc = "submit"
    /\ jobs' = Append(jobs, [routine |-> firing.routine, trigger |-> firing.trigger,
                             at |-> firing.at, made |-> now, status |-> "queued"])
    /\ firing' = [firing EXCEPT !.pc = "note"]
    /\ UNCHANGED <<now, routine, trigger, watching, pending, workspace, since, ops, stops>>

\* The run is given its job.
NoteJob ==
    /\ firing.pc = "note"
    /\ RunIs("queued", Len(jobs), "fired")
    /\ UNCHANGED <<now, watching, pending, workspace, jobs, since, ops, stops>>

\* The coworker, the skill, the workspace or the provider is not there.
SubmitFails ==
    /\ firing.pc = "submit"
    /\ RunIs("over", 0, "error")
    /\ UNCHANGED <<now, watching, pending, workspace, jobs, since, ops, stops>>

-----------------------------------------------------------------------------
(* Triggers: validation and reconciliation, in the workspace ws with the routines rs *)

\* validateTrigger
Valid(t, ws, rs) ==
    LET r == t.routine IN
    /\ t.enabled /\ ws
    /\ rs[r].kind = "recurring" /\ rs[r].enabled

\* setReferenceBlocked
Blocked(t) ==
    IF t.enabled THEN [t EXCEPT !.status = "blocked", !.cause = "reference"]
    ELSE IF t.cause \in {"storm", "watcher"} THEN t
    ELSE [t EXCEPT !.status = "disabled", !.cause = "none"]

Refreshed(t, ws, rs) ==
    IF t.status = "none" THEN t
    ELSE IF ~Valid(t, ws, rs) THEN Blocked(t)
    ELSE IF t.status \in {"blocked", "pending"} THEN [t EXCEPT !.status = "ready", !.cause = "none"]
    ELSE t

\* reconcile: statuses, pending events of invalid triggers, and the watchers, for
\* the triggers ts whose pending events are due.
Reconcile(ts, due, ws, rs) ==
    /\ trigger' = [t \in Triggers |-> Refreshed(ts[t], ws, rs)]
    /\ pending' = [t \in Triggers |-> IF Valid(ts[t], ws, rs) THEN due[t] ELSE None]
    /\ watching' = {t \in Triggers : Valid(ts[t], ws, rs)}

\* cancelPendingForTrigger, for the triggers off.
Cancelled(off) == [t \in Triggers |-> IF t \in off THEN None ELSE pending[t]]

\* list and get reconcile; routineController.get reconciles the runs.
ListTriggers ==
    /\ BetweenFirings
    /\ Reconcile(trigger, pending, workspace, routine)
    /\ routine' = AllReconciled
    /\ UNCHANGED <<now, workspace, jobs, firing, since, ops, stops>>

\* The trusted workspace is removed, or granted again.
ChangeWorkspace ==
    /\ Operates
    /\ workspace' = ~workspace
    /\ Reconcile(trigger, pending, ~workspace, routine)
    /\ routine' = AllReconciled
    /\ UNCHANGED <<now, jobs, firing, since, stops>>

\* routine:setEnabled.  A one-time routine that ran is not enabled again.
SetRoutineEnabled(r, enabled) ==
    /\ Operates /\ Exists(r)
    /\ ~(enabled /\ routine[r].kind = "one-time" /\ routine[r].ran)
    /\ LET rs == [AllReconciled EXCEPT
               ![r].enabled = enabled,
               ![r].next = IF ~enabled THEN None
                           ELSE IF routine[r].kind = "one-time" THEN routine[r].at
                           ELSE NextOccurrence(now)]
       IN /\ routine' = rs
          /\ Reconcile(trigger, pending, workspace, rs)
    /\ UNCHANGED <<now, workspace, jobs, firing, since, stops>>

\* routine:remove
RemoveRoutine(r) ==
    /\ Operates /\ Exists(r)
    /\ LET rs == [AllReconciled EXCEPT ![r] = [NoRoutine EXCEPT !.kind = "removed"]]
       IN /\ routine' = rs
          /\ Reconcile(trigger, pending, workspace, rs)
    /\ UNCHANGED <<now, workspace, jobs, firing, since, stops>>

-----------------------------------------------------------------------------
(* Triggers: operations *)

CreateTrigger(t, r) ==
    /\ Operates /\ trigger[t].status = "none" /\ ~trigger[t].removed
    /\ LET ts == [trigger EXCEPT ![t] =
               [NoTrigger EXCEPT !.status = "ready", !.routine = r, !.enabled = TRUE]]
       IN /\ Valid(ts[t], workspace, routine)
          /\ Reconcile(ts, pending, workspace, routine)
    /\ since' = [since EXCEPT ![t] = Len(jobs)]
    /\ routine' = AllReconciled
    /\ UNCHANGED <<now, workspace, jobs, firing, stops>>

\* setEnabled: enabling clears both latches and the storm window.
SetTriggerEnabled(t, enabled) ==
    /\ Operates /\ trigger[t].status # "none"
    /\ LET set == [trigger[t] EXCEPT
               !.enabled = enabled, !.cause = "none",
               !.status = IF enabled THEN "ready" ELSE "disabled",
               !.recent = IF enabled THEN <<>> ELSE @]
       IN Reconcile([trigger EXCEPT ![t] = set], Cancelled({t}),
                    workspace, routine)
    /\ since' = IF enabled THEN [since EXCEPT ![t] = Len(jobs)] ELSE since
    /\ routine' = AllReconciled
    /\ UNCHANGED <<now, workspace, jobs, firing, stops>>

RemoveTrigger(t) ==
    /\ Operates /\ trigger[t].status # "none"
    /\ Reconcile([trigger EXCEPT ![t] = [NoTrigger EXCEPT !.removed = TRUE]],
                 Cancelled({t}), workspace, routine)
    /\ routine' = AllReconciled
    /\ UNCHANGED <<now, workspace, jobs, firing, since, stops>>

\* decodeWatcherCallback: the name that a watcher reports must be one path of the
\* workspace, and lie beneath the prefix of a trigger that is watched; seen are the
\* enabled triggers whose prefixes the path lies beneath.
Decoded(seen) == seen \cap watching # {}

\* enqueueFsEvent: a watcher reports a file; every enabled trigger whose path it
\* matches is told, one that is not valid included.
FileChanges ==
    /\ BetweenFirings
    /\ \E seen \in SUBSET {t \in Triggers : trigger[t].enabled} :
        /\ Decoded(seen)
        /\ pending' = [t \in Triggers |-> IF t \in seen THEN now + Quiet ELSE pending[t]]
        /\ trigger' = [t \in Triggers |->
               IF t \in seen THEN [trigger[t] EXCEPT !.status = "pending", !.cause = "none"]
               ELSE trigger[t]]
    /\ UNCHANGED <<now, routine, watching, workspace, jobs, firing, since, ops, stops>>

\* trimRecentFires: the firings of the last Window, the most recent MaxFires of them.
\* Filtered, sorted and sliced, these are the end of a list in the order of the clock.
Recent(t) ==
    LET all == trigger[t].recent
        in == {i \in DOMAIN all : all[i] \in now - Window .. now /\ Len(all) - i < MaxFires}
    IN SubSeq(all, CHOOSE k \in 1..Len(all) + 1 : in = k..Len(all), Len(all))

\* processPending, when the reference of the trigger is gone.
FireBlocked(t) ==
    /\ ~Valid(trigger[t], workspace, routine)
    /\ Reconcile([trigger EXCEPT ![t] = Blocked(@)], Cancelled({t}),
                 workspace, routine)
    /\ firing' = firing

\* processPending, when the trigger has fired too often.
FireStorm(t) ==
    /\ Valid(trigger[t], workspace, routine)
    /\ Len(Recent(t)) >= MaxFires
    /\ Reconcile([trigger EXCEPT ![t] =
                    [@ EXCEPT !.recent = Recent(t), !.enabled = FALSE, !.status = "blocked",
                              !.cause = "storm"]],
                 Cancelled({t}), workspace, routine)
    /\ firing' = firing

\* processPending: the firing is saved with the trigger before the routine is told.
Fire(t) ==
    /\ Valid(trigger[t], workspace, routine)
    /\ Len(Recent(t)) < MaxFires /\ Len(jobs) < MaxJobs
    /\ trigger' = [trigger EXCEPT ![t].recent = Append(Recent(t), now),
                                  ![t].status = "pending", ![t].cause = "none"]
    /\ pending' = Cancelled({t})
    /\ firing' = [pc |-> "record", routine |-> trigger[t].routine, at |-> now, trigger |-> t]
    /\ UNCHANGED watching

\* The timer of a pending event fires; a disabled trigger has none.
TimerFires(t) ==
    /\ BetweenFirings /\ pending[t] # None /\ pending[t] <= now
    /\ FireBlocked(t) \/ FireStorm(t) \/ Fire(t)
    /\ routine' = AllReconciled
    /\ UNCHANGED <<now, workspace, jobs, since, ops, stops>>

\* triggerEvent: the run is recorded; the schedule is left alone.
RecordRun ==
    /\ firing.pc = "record"
    /\ routine' = [routine EXCEPT ![firing.routine] = Recorded(firing.routine, now, "event")]
    /\ firing' = [firing EXCEPT !.pc = "submit"]
    /\ UNCHANGED <<now, trigger, watching, pending, workspace, jobs, since, ops, stops>>

\* failWatcher: the enabled triggers of a watcher that fails are disabled.
WatcherFails ==
    /\ Operates
    /\ \E failed \in SUBSET watching :
        /\ failed # {}
        /\ LET off == {t \in failed : trigger[t].enabled} IN
           /\ watching' = watching \ failed
           /\ pending' = Cancelled(off)
           /\ trigger' = [t \in Triggers |->
                  IF t \notin off THEN trigger[t]
                  ELSE [trigger[t] EXCEPT !.enabled = FALSE, !.status = "blocked",
                                          !.cause = "watcher"]]
    /\ UNCHANGED <<now, routine, workspace, jobs, firing, since, stops>>

-----------------------------------------------------------------------------
(* The clock, the jobs, and a stop *)

Advance ==
    /\ BetweenFirings /\ now < MaxTime
    /\ now' = now + 1
    /\ UNCHANGED <<routine, trigger, watching, pending, workspace, jobs, firing, since, ops, stops>>

\* The job controller moves a job.
JobMoves(i, status) ==
    /\ BetweenFirings /\ jobs[i].status # "over" /\ status # jobs[i].status
    /\ jobs' = [jobs EXCEPT ![i].status = status]
    /\ UNCHANGED <<now, routine, trigger, watching, pending, workspace, firing, since, ops, stops>>

\* MUTANT of JobsLoaded: a job that was in flight starts over.
JobsLoadedQueued == jobs

\* jobs.json is loaded: what was in flight has failed.
JobsLoaded ==
    [i \in DOMAIN jobs |->
        IF jobs[i].status = "queued" THEN [jobs[i] EXCEPT !.status = "over"] ELSE jobs[i]]

\* routines.json is loaded: a run without a job has failed, and an enabled routine
\* has an occurrence to come.
RoutinesLoaded ==
    [r \in Routines |->
        LET spent == routine[r].kind = "one-time" /\ routine[r].ran
            idle == routine[r].enabled /\ routine[r].next = None
        IN [routine[r] EXCEPT
            !.history = [i \in DOMAIN @ |->
                IF @[i].job = 0 THEN [@[i] EXCEPT !.status = "over"] ELSE @[i]],
            !.enabled = @ /\ ~(idle /\ spent),
            !.next = IF ~idle \/ spent THEN @
                     ELSE IF routine[r].kind = "one-time" THEN routine[r].at
                     ELSE NextOccurrence(now)]]

\* MUTANT of TriggersLoaded: the storm window is kept in memory only.
TriggersLoadedFresh ==
    [t \in Triggers |-> [trigger[t] EXCEPT !.recent = <<>>]]

\* event-triggers.json is loaded.
TriggersLoaded ==
    [t \in Triggers |-> [trigger[t] EXCEPT
        !.recent = Recent(t),
        !.status = IF @ # "pending" THEN @
                   ELSE IF trigger[t].enabled THEN "ready" ELSE "disabled"]]

\* The process stops, in the middle of a firing too, and starts again.
ProcessStops ==
    /\ stops < MaxStops
    /\ stops' = stops + 1
    /\ jobs' = JobsLoaded
    /\ routine' = RoutinesLoaded
    /\ Reconcile(TriggersLoaded, [t \in Triggers |-> None], workspace, RoutinesLoaded)
    /\ firing' = NoFiring
    /\ UNCHANGED <<now, workspace, since, ops>>

AutomationNext ==
    \/ \E r \in Routines :
        \/ CreateRoutine(r) \/ Tick(r) \/ RemoveRoutine(r)
        \/ \E enabled \in BOOLEAN : SetRoutineEnabled(r, enabled)
        \/ \E t \in Triggers : CreateTrigger(t, r)
    \/ \E t \in Triggers :
        \/ TimerFires(t) \/ RemoveTrigger(t)
        \/ \E enabled \in BOOLEAN : SetTriggerEnabled(t, enabled)
    \/ \E i \in DOMAIN jobs, status \in JobStatus \ {"queued"} : JobMoves(i, status)
    \/ RecordRun \/ SubmitJob \/ NoteJob \/ SubmitFails
    \/ ListTriggers \/ ChangeWorkspace \/ FileChanges \/ WatcherFails
    \/ Advance \/ ProcessStops

AutomationSpec == AutomationInit /\ [][AutomationNext]_automationVars

-----------------------------------------------------------------------------
(* Properties *)

\* Two runs of a routine's schedule are for different occurrences, and the later
\* one's occurrence comes after the moment the earlier one was made: occurrences
\* that were missed are skipped, a one-time routine runs once, and a stop in the
\* middle of a firing repeats nothing.
NoMissedRunStorm ==
    \A i, j \in DOMAIN jobs :
        (/\ i < j /\ jobs[i].routine = jobs[j].routine
         /\ jobs[i].trigger = None /\ jobs[j].trigger = None)
        => jobs[j].at > jobs[i].made

\* Since the operator last enabled it, a trigger has made at most MaxFires jobs in
\* any Window, stops of the process notwithstanding.
StormBound ==
    \A t \in Triggers : \A i \in DOMAIN jobs :
        Cardinality({j \in DOMAIN jobs :
            /\ jobs[j].trigger = t /\ j > since[t]
            /\ jobs[j].made \in jobs[i].made .. jobs[i].made + Window}) <= MaxFires

\* A job that can still do work is in its routine's history, unless the firing that
\* makes it is in progress, the routine was removed or its history is full: a stop
\* between the job's save and the routine's leaves no work that no run accounts for.
LiveJobsAccounted ==
    \A i \in DOMAIN jobs :
        LET r == jobs[i].routine IN
        \/ jobs[i].status = "over"
        \/ firing.pc = "note" /\ i = Len(jobs)
        \/ routine[r].kind = "removed" \/ Len(routine[r].history) = HistoryLimit
        \/ \E k \in DOMAIN routine[r].history : routine[r].history[k].job = i

=============================================================================
