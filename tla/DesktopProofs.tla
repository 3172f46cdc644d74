---------------------------- MODULE DesktopProofs ----------------------------
(***************************************************************************)
(* Proofs about Desktop for every registry of coworkers, every pack, every *)
(* set of bindings and all bounds: the policy of the runtime that serves   *)
(* has a rule for each of its agents and no other (AgentsAreAllowed), one  *)
(* runtime serves (OneRuntimeServes), and what has been asked for reaches  *)
(* the roster (ChangesReachRoster).                                        *)
(*                                                                         *)
(* None is inductive: each says of the moments between refreshes what      *)
(* follows from what the steps of a refresh know of the runtime that is    *)
(* being built.                                                            *)
(*                                                                         *)
(* The second part is about Automation, for all sets of routines and       *)
(* triggers and all bounds: the schedule of a routine makes a job once for *)
(* an occurrence (NoMissedRunStorm), a job that can still work is in its   *)
(* routine's history (LiveJobsAccounted), and a trigger makes no more jobs *)
(* in a Window than it may (StormBound).  None is inductive: a firing is   *)
(* three steps with saves between them, and all follow from what each save *)
(* leaves behind for the next one; a storm is bounded because each job of  *)
(* the last Window has an entry of its own in its trigger's window.        *)
(***************************************************************************)
EXTENDS Desktop, Automation, TLAPS, FiniteSetTheorems, FunctionTheorems,
        SequenceTheorems, WellFoundedInduction

RefreshPc == {"idle", "detect", "compare", "list", "create", "apply", "close"}

IsPolicy(p) == p = [allow |-> p.allow, deny |-> p.deny, narrowed |-> p.narrowed, mixed |-> p.mixed]

IsRuntime(r) ==
    /\ r = [open |-> r.open, roster |-> r.roster, computer |-> r.computer, policy |-> r.policy]
    /\ IsPolicy(r.policy)

\* The shapes of the variables the argument needs.
Shape ==
    /\ IsPolicy(policy) /\ IsRuntime(host) /\ IsRuntime(other)
    /\ refresh = [pc |-> refresh.pc, found |-> refresh.found, last |-> refresh.last]
    /\ refresh.pc \in RefreshPc
    /\ asked \in Nat

\* What each step of a refresh knows of the two runtimes and of the services.
Rebuilding ==
    proc = "up" =>
        /\ host.open
        /\ refresh.pc \in {"idle", "detect", "compare", "list"} => other = NoRuntime
        /\ refresh.pc \in {"create", "apply"} => other.open
        /\ refresh.pc # "close" /\ ~leaked => bound

\* Where no refresh is asked for and nothing has changed unasked, a refresh works on what there is now.
UpToDate ==
    proc = "up" /\ asked = 0 /\ ~unasked =>
        /\ refresh.pc \in {"compare", "list", "create", "apply", "close"} => refresh.found = found
        /\ refresh.pc \in {"create", "apply"} => other.roster = RosterFor(found) /\ other.computer = computer
        /\ refresh.pc = "close" \/ (refresh.pc = "idle" /\ refresh.last \in {"unchanged", "applied"})
           => host.roster = RosterFor(found) /\ host.computer = computer

Inv ==
    /\ Shape
    /\ AgentsAreAllowed
    /\ Rebuilding
    /\ UpToDate

-----------------------------------------------------------------------------
(* Policies and rosters *)

\* The rules that are generated for a roster are of its agents only.
LEMMA ReconciledPolicy ==
  ASSUME NEW p, IsPolicy(p), NEW roster
  PROVE  /\ IsPolicy(Reconciled(p, roster))
         /\ Reconciled(p, roster).allow = Ids(roster)
<1> DEFINE q == [allow |-> Ids(roster), deny |-> p.deny, narrowed |-> p.narrowed, mixed |-> FALSE]
<1>1. p = [allow |-> p.allow, deny |-> p.deny, narrowed |-> p.narrowed, mixed |-> p.mixed]
  BY DEF IsPolicy
<1>2. Reconciled(p, roster) = q
  <2> DEFINE ids == Ids(roster)
             no == FALSE
             r == [p EXCEPT !.allow = ids]
  <2> HIDE DEF ids, no
  <2>1. r = [allow |-> ids, deny |-> p.deny, narrowed |-> p.narrowed, mixed |-> p.mixed]
    BY <1>1
  <2>2. [p EXCEPT !.allow = ids, !.mixed = no] = [r EXCEPT !.mixed = no]
    OBVIOUS
  <2> HIDE DEF r
  <2>3. [r EXCEPT !.mixed = no] = [allow |-> ids, deny |-> p.deny, narrowed |-> p.narrowed, mixed |-> no]
    BY <2>1
  <2> QED
    BY <2>2, <2>3 DEF Reconciled, ids, no
<1> HIDE DEF q
<1>3. q = [allow |-> q.allow, deny |-> q.deny, narrowed |-> q.narrowed, mixed |-> q.mixed] /\ q.allow = Ids(roster)
  BY DEF q
<1> QED
  BY <1>2, <1>3 DEF IsPolicy

LEMMA BuiltPolicy ==
  ASSUME NEW roster
  PROVE  IsPolicy(BuildPolicy(roster))
  BY DEF IsPolicy, BuildPolicy

LEMMA RuntimeShape ==
  ASSUME NEW roster, NEW p, IsPolicy(p)
  PROVE  LET r == Runtime(roster, p)
         IN  IsRuntime(r) /\ r.open /\ r.roster = roster /\ r.computer = computer /\ r.policy = p
  BY DEF Runtime, IsRuntime

LEMMA NoRuntimeShape == IsRuntime(NoRuntime) /\ IsPolicy(NoPolicy)
  BY DEF IsRuntime, IsPolicy, NoRuntime, NoPolicy

\* A runtime with another policy.
LEMMA WithPolicy ==
  ASSUME NEW r, IsRuntime(r), NEW p, IsPolicy(p)
  PROVE  LET s == [r EXCEPT !.policy = p]
         IN  IsRuntime(s) /\ s.open = r.open /\ s.roster = r.roster /\ s.computer = r.computer /\ s.policy = p
  BY DEF IsRuntime

\* The roster is a function of the inputs.
LEMMA SameInputsSameRoster ==
  ASSUME UNCHANGED inputs
  PROVE  RosterFor(found)' = RosterFor(found) /\ computer' = computer /\ found' = found
  BY DEF inputs, RosterFor, Tools

LEMMA RefreshGoes ==
  ASSUME Shape, NEW pc, Goto(pc)
  PROVE  refresh' = [pc |-> pc, found |-> refresh.found, last |-> refresh.last]
  BY DEF Shape, Goto

LEMMA RefreshEnds ==
  ASSUME Shape, NEW result, Ends(result)
  PROVE  refresh' = [pc |-> "idle", found |-> refresh.found, last |-> result]
  BY DEF Ends, Idle

-----------------------------------------------------------------------------
(* Initial states *)

LEMMA InvInit == Init => Inv
<1> SUFFICES ASSUME Init PROVE Inv
  OBVIOUS
<1>1. Shape
  BY NoRuntimeShape DEF Init, Shape, Idle, RefreshPc
<1>2. AgentsAreAllowed /\ Rebuilding /\ UpToDate
  BY DEF Init, AgentsAreAllowed, Rebuilding, UpToDate
<1> QED
  BY <1>1, <1>2 DEF Inv

-----------------------------------------------------------------------------
(* Start, stop and handlers *)

LEMMA BootKeepsInv == Inv /\ Boot => Inv'
<1> SUFFICES ASSUME Inv, Boot PROVE Inv'
  OBVIOUS
<1> DEFINE roster == RosterFor(Fast)
           loaded == IF policy = NoPolicy THEN BuildPolicy(roster) ELSE policy
<1>1. IsPolicy(loaded)
  BY BuiltPolicy DEF Inv, Shape
<1>2. policy' = Reconciled(loaded, roster) /\ IsPolicy(policy') /\ policy'.allow = Ids(roster)
  BY <1>1, ReconciledPolicy DEF Boot
<1>3. host' = Runtime(roster, policy') /\ other' = NoRuntime /\ bound' = TRUE
  BY DEF Boot
<1>4. IsRuntime(host') /\ host'.open /\ host'.roster = roster /\ host'.policy = policy'
  BY <1>2, <1>3, RuntimeShape
<1>5. refresh' = [pc |-> "idle", found |-> Fast, last |-> "none"] /\ asked' \in Nat
  BY DEF Boot, Idle
<1>6. Shape'
  BY <1>2, <1>3, <1>4, <1>5, NoRuntimeShape DEF Shape, RefreshPc
<1>7. AgentsAreAllowed'
  BY <1>2, <1>4 DEF AgentsAreAllowed
<1>8. Rebuilding'
  BY <1>3, <1>4, <1>5 DEF Rebuilding
<1>9. UpToDate'
  BY <1>5 DEF UpToDate
<1> QED
  BY <1>6, <1>7, <1>8, <1>9 DEF Inv

LEMMA StopKeepsInv == Inv /\ Stop => Inv'
<1> SUFFICES ASSUME Inv, Stop PROVE Inv'
  OBVIOUS
<1>1. Shape'
  BY NoRuntimeShape DEF Inv, Stop, Shape, Idle, RefreshPc
<1>2. AgentsAreAllowed' /\ Rebuilding' /\ UpToDate'
  BY DEF Stop, AgentsAreAllowed, Rebuilding, UpToDate
<1> QED
  BY <1>1, <1>2 DEF Inv

\* A handler that leaves the runtimes alone: a refresh is asked for, or the change is an unasked one.
LEMMA HandlerKeepsInv ==
  ASSUME Inv, UNCHANGED <<proc, running, refresh>>, Asks \/ AsksNothing
  PROVE  Inv'
<1>1. policy' = policy /\ asked' \in Nat /\ (asked' # 0 \/ unasked')
  BY DEF Inv, Shape, Asks, AsksNothing
<1>2. Shape'
  BY <1>1 DEF Inv, Shape, running, IsPolicy, IsRuntime
<1>3. AgentsAreAllowed' /\ Rebuilding'
  BY DEF Inv, AgentsAreAllowed, Rebuilding, running
<1>4. UpToDate'
  BY <1>1 DEF UpToDate
<1> QED
  BY <1>2, <1>3, <1>4 DEF Inv

LEMMA ApplyPolicyKeepsInv == Inv /\ ApplyPolicy => Inv'
<1> SUFFICES ASSUME Inv, ApplyPolicy PROVE Inv'
  OBVIOUS
<1>1. IsRuntime(host) /\ IsPolicy(host.policy)
  BY DEF Inv, Shape, IsRuntime
<1>2. IsPolicy(policy')
  <2>1. PICK id \in host.policy.allow, mixed \in BOOLEAN :
            policy' \in {[host.policy EXCEPT !.deny = @ \cup {id}, !.mixed = mixed],
                         [host.policy EXCEPT !.allow = @ \ {id}, !.narrowed = @ \cup {id}, !.mixed = mixed],
                         [host.policy EXCEPT !.allow = @ \ {id}]}
    BY DEF ApplyPolicy
  <2> QED
    BY <1>1, <2>1 DEF IsPolicy
<1>3. host' = [host EXCEPT !.policy = policy']
  BY DEF ApplyPolicy
<1>4. /\ IsRuntime(host') /\ host'.open = host.open /\ host'.roster = host.roster
      /\ host'.computer = host.computer
  BY <1>1, <1>2, <1>3, WithPolicy
<1>5. UNCHANGED <<inputs, proc, other, bound, leaked, refresh, asked, unasked>> /\ edited'
  BY DEF ApplyPolicy
<1>6. Shape'
  BY <1>2, <1>4, <1>5 DEF Inv, Shape, IsRuntime, IsPolicy
<1>7. AgentsAreAllowed'
  BY <1>5 DEF AgentsAreAllowed
<1>8. Rebuilding'
  BY <1>4, <1>5 DEF Inv, Rebuilding
<1>9. UpToDate'
  BY <1>4, <1>5, SameInputsSameRoster DEF Inv, UpToDate
<1> QED
  BY <1>6, <1>7, <1>8, <1>9 DEF Inv

\* A step that changes nothing the invariant speaks of.
LEMMA UnrelatedKeepsInv ==
  ASSUME Inv, UNCHANGED <<inputs, policy, proc, running, refresh, asked, unasked>>
  PROVE  Inv'
<1>1. Shape'
  BY DEF Inv, Shape, running, IsPolicy, IsRuntime
<1>2. AgentsAreAllowed' /\ Rebuilding'
  BY DEF Inv, AgentsAreAllowed, Rebuilding, running
<1>3. UpToDate'
  BY SameInputsSameRoster DEF Inv, UpToDate, running
<1> QED
  BY <1>1, <1>2, <1>3 DEF Inv

LEMMA HandlersKeepInv == Inv /\ Handlers => Inv'
<1> SUFFICES ASSUME Inv, Handlers PROVE Inv'
  OBVIOUS
<1>1. CASE ChangeCoworker
  BY <1>1, HandlerKeepsInv DEF ChangeCoworker, Handles, Edit
<1>2. CASE InstallPack
  BY <1>2, HandlerKeepsInv DEF InstallPack, Handles, Edit
<1>3. CASE AssignApp
  BY <1>3, HandlerKeepsInv DEF AssignApp, Handles, Edit
<1>4. CASE UpdateSettings
  BY <1>4, HandlerKeepsInv DEF UpdateSettings, Handles, Edit
<1>5. CASE AssignRole
  BY <1>5, HandlerKeepsInv DEF AssignRole, Handles, Edit
<1>6. CASE ProvisionDriver
  BY <1>6, HandlerKeepsInv DEF ProvisionDriver, Handles, Edit
<1>7. CASE AskRefresh
  BY <1>7, HandlerKeepsInv DEF AskRefresh, Handles, Edit
<1>8. CASE ProviderChanges
  BY <1>8, HandlerKeepsInv DEF ProviderChanges, Edit
<1>9. CASE ApplyPolicy
  BY <1>9, ApplyPolicyKeepsInv
<1>10. CASE WorkStarts
  BY <1>10, UnrelatedKeepsInv DEF WorkStarts
<1>11. CASE WorkEnds
  BY <1>11, UnrelatedKeepsInv DEF WorkEnds
<1> QED
  BY <1>1, <1>2, <1>3, <1>4, <1>5, <1>6, <1>7, <1>8, <1>9, <1>10, <1>11 DEF Handlers

-----------------------------------------------------------------------------
(* Steps of a refresh *)

LEMMA RefreshBeginsKeepsInv == Inv /\ RefreshBegins => Inv'
<1> SUFFICES ASSUME Inv, RefreshBegins PROVE Inv'
  OBVIOUS
<1>1. /\ refresh' = [pc |-> "detect", found |-> refresh.found, last |-> refresh.last]
      /\ refresh.pc = "idle" /\ proc = "up" /\ proc' = proc
      /\ UNCHANGED <<policy, running>>
  BY RefreshGoes DEF Inv, RefreshBegins, Refreshing
<1>2. asked' \in Nat
  BY DEF Inv, Shape, RefreshBegins
<1>3. Shape'
  BY <1>1, <1>2 DEF Inv, Shape, running, IsPolicy, IsRuntime, RefreshPc
<1>4. AgentsAreAllowed' /\ Rebuilding'
  BY <1>1 DEF Inv, AgentsAreAllowed, Rebuilding, running
<1>5. UpToDate'
  BY <1>1 DEF UpToDate
<1> QED
  BY <1>3, <1>4, <1>5 DEF Inv

LEMMA DetectKeepsInv == Inv /\ Detect => Inv'
<1> SUFFICES ASSUME Inv, Detect PROVE Inv'
  OBVIOUS
<1>1. /\ refresh' = [pc |-> "compare", found |-> found, last |-> refresh.last]
      /\ refresh.pc = "detect" /\ proc = "up" /\ proc' = proc
      /\ UNCHANGED <<inputs, policy, running, asked>>
  BY DEF Inv, Shape, Detect, Refreshing
<1>2. Shape'
  BY <1>1 DEF Inv, Shape, running, IsPolicy, IsRuntime, RefreshPc
<1>3. AgentsAreAllowed' /\ Rebuilding'
  BY <1>1 DEF Inv, AgentsAreAllowed, Rebuilding, running
<1>4. UpToDate'
  BY <1>1, SameInputsSameRoster DEF UpToDate
<1> QED
  BY <1>2, <1>3, <1>4 DEF Inv

LEMMA CompareKeepsInv == Inv /\ Compare => Inv'
<1> SUFFICES ASSUME Inv, Compare PROVE Inv'
  OBVIOUS
<1>1. /\ refresh.pc = "compare" /\ proc = "up" /\ proc' = proc
      /\ UNCHANGED <<inputs, policy, running, asked, unasked>>
  BY DEF Compare, Refreshing
<1>2. \/ SameShape /\ refresh' = [pc |-> "idle", found |-> refresh.found, last |-> "unchanged"]
      \/ refresh' = [pc |-> "idle", found |-> refresh.found, last |-> "turned-away"]
      \/ refresh' = [pc |-> "list", found |-> refresh.found, last |-> refresh.last]
  BY RefreshGoes, RefreshEnds DEF Inv, Compare
<1>3. Shape'
  BY <1>1, <1>2 DEF Inv, Shape, running, IsPolicy, IsRuntime, RefreshPc
<1>4. AgentsAreAllowed' /\ Rebuilding'
  BY <1>1, <1>2 DEF Inv, AgentsAreAllowed, Rebuilding, running
<1>5. UpToDate'
  BY <1>1, <1>2, SameInputsSameRoster DEF Inv, UpToDate, SameShape, running
<1> QED
  BY <1>3, <1>4, <1>5 DEF Inv

LEMMA ListTasksKeepsInv == Inv /\ ListTasks => Inv'
<1> SUFFICES ASSUME Inv, ListTasks PROVE Inv'
  OBVIOUS
<1>1. /\ refresh.pc = "list" /\ proc = "up" /\ proc' = proc
      /\ UNCHANGED <<inputs, policy, host, bound, leaked, edited, asked, unasked>>
  BY DEF ListTasks, Refreshing
<1>2. \/ /\ refresh' = [pc |-> "idle", found |-> refresh.found, last |-> "turned-away"]
         /\ other' = other
      \/ /\ refresh' = [pc |-> "create", found |-> refresh.found, last |-> refresh.last]
         /\ other' = Runtime(RosterFor(refresh.found), NoPolicy)
  BY RefreshGoes, RefreshEnds DEF Inv, ListTasks
<1>3. LET r == Runtime(RosterFor(refresh.found), NoPolicy)
      IN  IsRuntime(r) /\ r.open /\ r.roster = RosterFor(refresh.found) /\ r.computer = computer
  BY NoRuntimeShape, RuntimeShape
<1>4. Shape'
  BY <1>1, <1>2, <1>3 DEF Inv, Shape, IsPolicy, IsRuntime, RefreshPc
<1>5. AgentsAreAllowed'
  BY <1>1 DEF Inv, AgentsAreAllowed
<1>6. Rebuilding'
  BY <1>1, <1>2, <1>3 DEF Inv, Rebuilding
<1>7. UpToDate'
  BY <1>1, <1>2, <1>3, SameInputsSameRoster DEF Inv, UpToDate
<1> QED
  BY <1>4, <1>5, <1>6, <1>7 DEF Inv

LEMMA CreateKeepsInv == Inv /\ Create => Inv'
<1> SUFFICES ASSUME Inv, Create PROVE Inv'
  OBVIOUS
<1>1. /\ refresh.pc = "create" /\ proc = "up" /\ proc' = proc
      /\ refresh' = [pc |-> "apply", found |-> refresh.found, last |-> refresh.last]
      /\ other' = [other EXCEPT !.policy = policy]
      /\ UNCHANGED <<inputs, policy, host, bound, leaked, edited, asked, unasked>>
  BY RefreshGoes DEF Inv, Create, Refreshing
<1>2. /\ IsRuntime(other') /\ other'.open = other.open /\ other'.roster = other.roster
      /\ other'.computer = other.computer
  BY <1>1, WithPolicy DEF Inv, Shape
<1>3. Shape'
  BY <1>1, <1>2 DEF Inv, Shape, IsPolicy, IsRuntime, RefreshPc
<1>4. AgentsAreAllowed'
  BY <1>1 DEF Inv, AgentsAreAllowed
<1>5. Rebuilding'
  BY <1>1, <1>2 DEF Inv, Rebuilding
<1>6. UpToDate'
  BY <1>1, <1>2, SameInputsSameRoster DEF Inv, UpToDate
<1> QED
  BY <1>3, <1>4, <1>5, <1>6 DEF Inv

LEMMA BuildFailsKeepsInv == Inv /\ BuildFails => Inv'
<1> SUFFICES ASSUME Inv, BuildFails PROVE Inv'
  OBVIOUS
<1>1. /\ refresh.pc \in {"create", "apply"} /\ proc = "up" /\ proc' = proc
      /\ refresh' = [pc |-> "idle", found |-> refresh.found, last |-> "failed"]
      /\ other' = NoRuntime
      /\ UNCHANGED <<policy, host, bound, leaked, edited, asked, unasked>>
  BY RefreshEnds DEF Inv, BuildFails, Refreshing
<1>2. Shape'
  BY <1>1, NoRuntimeShape DEF Inv, Shape, IsPolicy, IsRuntime, RefreshPc
<1>3. AgentsAreAllowed' /\ Rebuilding'
  BY <1>1 DEF Inv, AgentsAreAllowed, Rebuilding
<1>4. UpToDate'
  BY <1>1 DEF UpToDate
<1> QED
  BY <1>2, <1>3, <1>4 DEF Inv

LEMMA ReplaceKeepsInv == Inv /\ Replace => Inv'
<1> SUFFICES ASSUME Inv, Replace PROVE Inv'
  OBVIOUS
<1> DEFINE reconciled == Reconciled(other.policy, other.roster)
<1>1. /\ refresh.pc = "apply" /\ proc = "up" /\ proc' = proc
      /\ refresh' = [pc |-> "close", found |-> refresh.found, last |-> refresh.last]
      /\ policy' \in {policy, reconciled}
      /\ host' = [other EXCEPT !.policy = reconciled]
      /\ other' = host
      /\ UNCHANGED <<inputs, leaked, asked, unasked>>
  BY RefreshGoes DEF Inv, Replace, Refreshing
<1>2. IsPolicy(reconciled) /\ reconciled.allow = Ids(other.roster)
  BY ReconciledPolicy DEF Inv, Shape, IsRuntime
<1>3. /\ IsRuntime(host') /\ host'.open = other.open /\ host'.roster = other.roster
      /\ host'.computer = other.computer /\ host'.policy = reconciled
  BY <1>1, <1>2, WithPolicy DEF Inv, Shape
<1>4. Shape'
  BY <1>1, <1>2, <1>3 DEF Inv, Shape, RefreshPc
<1>5. AgentsAreAllowed'
  BY <1>2, <1>3 DEF AgentsAreAllowed
<1>6. Rebuilding'
  BY <1>1, <1>3 DEF Inv, Rebuilding
<1>7. UpToDate'
  BY <1>1, <1>3, SameInputsSameRoster DEF Inv, UpToDate
<1> QED
  BY <1>4, <1>5, <1>6, <1>7 DEF Inv

LEMMA CloseKeepsInv == Inv /\ (CloseOld \/ CloseFails) => Inv'
<1> SUFFICES ASSUME Inv, CloseOld \/ CloseFails PROVE Inv'
  OBVIOUS
<1>1. /\ refresh.pc = "close" /\ proc = "up" /\ proc' = proc
      /\ other' = NoRuntime
      /\ UNCHANGED <<inputs, policy, host, edited, asked, unasked>>
  BY DEF CloseOld, CloseFails, Refreshing
<1>2. \/ /\ refresh' = [pc |-> "idle", found |-> refresh.found, last |-> "applied"]
         /\ bound' = TRUE
      \/ /\ refresh' = [pc |-> "idle", found |-> refresh.found, last |-> "failed"]
         /\ leaked' = TRUE
  BY RefreshEnds DEF Inv, CloseOld, CloseFails
<1>3. Shape'
  BY <1>1, <1>2, NoRuntimeShape DEF Inv, Shape, IsPolicy, IsRuntime, RefreshPc
<1>4. AgentsAreAllowed'
  BY <1>1 DEF Inv, AgentsAreAllowed
<1>5. Rebuilding'
  BY <1>1, <1>2 DEF Inv, Rebuilding
<1>6. UpToDate'
  BY <1>1, <1>2, SameInputsSameRoster DEF Inv, UpToDate
<1> QED
  BY <1>3, <1>4, <1>5, <1>6 DEF Inv

-----------------------------------------------------------------------------
(* The invariant and the theorems *)

LEMMA InvNext == Inv /\ [Next]_vars => Inv'
<1> SUFFICES ASSUME Inv, [Next]_vars PROVE Inv'
  OBVIOUS
<1>1. CASE Boot
  BY <1>1, BootKeepsInv
<1>2. CASE Stop
  BY <1>2, StopKeepsInv
<1>3. CASE Handlers
  BY <1>3, HandlersKeepInv
<1>4. CASE RefreshNext
  BY <1>4, RefreshBeginsKeepsInv, DetectKeepsInv, CompareKeepsInv, ListTasksKeepsInv, CreateKeepsInv,
     BuildFailsKeepsInv, ReplaceKeepsInv, CloseKeepsInv DEF RefreshNext
<1>5. CASE UNCHANGED vars
  BY <1>5, UnrelatedKeepsInv DEF vars
<1> QED
  BY <1>1, <1>2, <1>3, <1>4, <1>5 DEF Next

LEMMA InvAlways == Spec => []Inv
  BY InvInit, InvNext, PTL DEF Spec

\* Unless the operator has changed its policy, the runtime that serves has one generated rule for each agent of its
\* roster and no other, for every registry and every sequence of changes, failed rebuilds and stops
\* (reconcileRosterPolicy).
THEOREM RosterIsAllowed == Spec => []AgentsAreAllowed
<1>1. Inv => AgentsAreAllowed
  BY DEF Inv
<1> QED
  BY <1>1, InvAlways, PTL

\* Between refreshes one runtime is open and the services use it, whatever step of a rebuild has failed, as long as
\* old runtimes could be closed (build, refreshProvidersOnce, rebuildRuntimeBoundServices).
THEOREM OneRuntime == Spec => []OneRuntimeServes
<1>1. Inv => OneRuntimeServes
  BY DEF Inv, Rebuilding, OneRuntimeServes
<1> QED
  BY <1>1, InvAlways, PTL

\* A change that asks for a refresh is in the roster once the last refresh asked for has ended as unchanged or
\* applied, whichever steps of earlier refreshes it came between (refreshChain).
THEOREM AskedChangesArrive == Spec => []ChangesReachRoster
<1>1. Inv => ChangesReachRoster
  BY DEF Inv, UpToDate, ChangesReachRoster
<1> QED
  BY <1>1, InvAlways, PTL
-----------------------------------------------------------------------------
(* The inductive invariant of routines, triggers and their jobs *)

RoutineKinds == {"none", "removed", "one-time", "recurring"}
Run == [status : JobStatus \cup {"submitting"}, job : Nat]
RoutineRecord ==
    [kind : RoutineKinds, enabled : BOOLEAN, at : Nat \cup {None}, next : Nat \cup {None}, ran : BOOLEAN,
     history : Seq(Run)]
Job == [routine : Routines, trigger : Triggers \cup {None}, at : Nat, made : Nat, status : JobStatus]

\* The trigger e has its fields; its status, the cause of it and its window may be anything.
IsTrigger(e) ==
    e \in [status : {e.status}, routine : Routines \cup {None}, enabled : BOOLEAN, cause : {e.cause},
           recent : {e.recent}, removed : BOOLEAN]

\* A trigger that is there names a routine, and has a timer only then.
KnownTrigger(e) == IsTrigger(e) /\ (e.enabled \/ e.status # "none" => e.routine \in Routines)
TriggersKnow(f) == f = [t \in Triggers |-> f[t]] /\ \A t \in Triggers : KnownTrigger(f[t])
TimersKnow == \A t \in Triggers : pending[t] # None => trigger[t].routine \in Routines

AutomationTypeOK ==
    /\ now \in Nat
    /\ routine \in [Routines -> RoutineRecord]
    /\ TriggersKnow(trigger) /\ TimersKnow
    /\ jobs \in Seq(Job)
    /\ firing \in [pc : {"idle", "record", "submit", "note"}, routine : Routines \cup {None}, at : Nat,
                   trigger : Triggers \cup {None}]

\* The jobs that the schedule of r has made.
Scheduled(r) == {i \in DOMAIN jobs : jobs[i].routine = r /\ jobs[i].trigger = None}

\* The occurrence to come is after the last job of the schedule was made; a one-time
\* routine has made one only when it ran.
NextIsNew ==
    \A r \in Routines : \A i \in Scheduled(r) :
        /\ jobs[i].made <= now
        /\ routine[r].next # None => routine[r].next > jobs[i].made
        /\ routine[r].kind = "one-time" => routine[r].ran

\* Only a routine that was created, and not removed, is enabled.
EnabledExist == \A r \in Routines : routine[r].enabled => Exists(r)

\* What the call in progress knows: its run is the last of the history, without a job yet,
\* and its job is the last one; one that the schedule started is for an occurrence after
\* all that were made, and the next one is after this moment.
FiringKnows ==
    LET r == firing.routine IN
    /\ firing.pc # "idle" => r \in Routines /\ Exists(r)
    /\ firing.pc = "record" => firing.trigger # None
    /\ firing.pc # "idle" /\ firing.trigger # None => trigger[firing.trigger].routine \in Routines
    /\ firing.pc \in {"submit", "note"} =>
        Len(routine[r].history) > 0 /\ routine[r].history[Len(routine[r].history)].job = 0
    /\ firing.pc = "submit" /\ firing.trigger = None =>
        /\ \A i \in Scheduled(r) : firing.at > jobs[i].made
        /\ routine[r].next # None => routine[r].next > now
        /\ routine[r].kind = "one-time" => routine[r].ran
    /\ firing.pc = "note" =>
        Len(jobs) > 0 /\ jobs[Len(jobs)].routine = r /\ jobs[Len(jobs)].status = "queued"

\* A history is trimmed and its runs are of jobs that were made; a routine with jobs was created.
HistoriesBounded ==
    \A r \in Routines :
        /\ Len(routine[r].history) <= HistoryLimit
        /\ \A k \in DOMAIN routine[r].history : routine[r].history[k].job \in 0..Len(jobs)
JobsOfRoutines == \A i \in DOMAIN jobs : routine[jobs[i].routine].kind # "none"

AutomationInv ==
    /\ AutomationTypeOK
    /\ NextIsNew
    /\ EnabledExist
    /\ FiringKnows
    /\ HistoriesBounded
    /\ JobsOfRoutines
    /\ NoMissedRunStorm
    /\ LiveJobsAccounted
-----------------------------------------------------------------------------
(* Occurrences, runs and triggers *)

LEMMA NextIsLater ==
  ASSUME NEW x \in Nat
  PROVE  NextOccurrence(x) \in Nat /\ NextOccurrence(x) > x
  <1>1. Period \in Nat /\ Period > 0
    BY AutomationAssumption
  <1>2. NextOccurrence(x) = Period * ((x \div Period) + 1)
    BY DEF NextOccurrence
  <1>3. PICK q, m : q = x \div Period /\ m = x % Period
    OBVIOUS
  <1>4. q \in Int /\ m \in 0..(Period - 1) /\ x = Period * q + m
    BY <1>1, <1>3
  <1>5. q >= 0
    BY <1>1, <1>4
  <1>6. Period * (q + 1) = Period * q + Period
    BY <1>1, <1>4
  <1>7. QED
    BY <1>1, <1>2, <1>3, <1>4, <1>5, <1>6

\* The runs of h and g are of the same jobs.
SameRuns(h, g) == Len(g) = Len(h) /\ \A k \in DOMAIN h : g[k].job = h[k].job

\* Runs that follow their jobs stay the same runs.
LEMMA FollowedRun ==
  ASSUME AutomationTypeOK, NEW e \in Run, e.job \in 0..Len(jobs)
  PROVE  Follow(e) \in Run /\ Follow(e).job = e.job
  <1>1. CASE e.job = 0 \/ e.status = "over"
    BY <1>1 DEF Follow
  <1>2. CASE e.job # 0 /\ e.status # "over"
    <2>1. Follow(e) = [e EXCEPT !.status = jobs[e.job].status]
      BY <1>2 DEF Follow
    <2>2. jobs[e.job] \in Job
      BY <1>2 DEF AutomationTypeOK
    <2>3. jobs[e.job].status \in JobStatus
      BY <2>2 DEF Job
    <2>4. QED
      BY <2>1, <2>3 DEF Run
  <1>3. QED
    BY <1>1, <1>2

LEMMA ReconciledRuns ==
  ASSUME AutomationTypeOK, HistoriesBounded, NEW r \in Routines
  PROVE  /\ RunsReconciled(r) \in RoutineRecord
         /\ RunsReconciled(r).kind = routine[r].kind /\ RunsReconciled(r).enabled = routine[r].enabled
         /\ RunsReconciled(r).at = routine[r].at /\ RunsReconciled(r).next = routine[r].next
         /\ RunsReconciled(r).ran = routine[r].ran
         /\ SameRuns(routine[r].history, RunsReconciled(r).history)
  <1> DEFINE h == routine[r].history
             g == [i \in DOMAIN h |-> Follow(h[i])]
  <1>1. routine[r] \in RoutineRecord /\ h \in Seq(Run)
    BY DEF AutomationTypeOK, RoutineRecord
  <1>2. RunsReconciled(r) = [routine[r] EXCEPT !.history = g]
    BY <1>1 DEF RunsReconciled, RoutineRecord
  <1>3. \A i \in DOMAIN h : h[i] \in Run /\ h[i].job \in 0..Len(jobs)
    BY <1>1 DEF HistoriesBounded
  <1>4. \A i \in DOMAIN h : Follow(h[i]) \in Run /\ Follow(h[i]).job = h[i].job
    BY <1>3, FollowedRun
  <1>5. g \in Seq(Run) /\ SameRuns(h, g)
    <2>1. PICK n \in Nat : n = Len(h) /\ DOMAIN h = 1..n
      BY <1>1
    <2> HIDE DEF h
    <2>2. g \in [1..n -> Run]
      BY <1>4, <2>1
    <2>3. g \in Seq(Run) /\ Len(g) = n
      BY <2>2
    <2>4. QED
      BY <1>4, <2>1, <2>3 DEF SameRuns
  <1> HIDE DEF h, g
  <1>6. QED
    BY <1>1, <1>2, <1>5 DEF RoutineRecord, h

-----------------------------------------------------------------------------
(* Steps between the firings, and a stop *)

\* A step leaves the routine r its runs, and sets its next occurrence to one that is to come;
\* or removes it, or creates it.
RoutineKept(r) ==
    \/ /\ routine'[r].kind = routine[r].kind /\ routine'[r].ran = routine[r].ran
       /\ SameRuns(routine[r].history, routine'[r].history)
       /\ routine'[r].enabled => routine[r].enabled \/ Exists(r)
       /\ \/ routine'[r].next \in {routine[r].next, None}
          \/ routine'[r].next > now
          \/ routine[r].kind = "one-time" /\ routine[r].ran = FALSE
    \/ /\ routine'[r].kind = "removed" /\ routine'[r].next = None /\ routine'[r].history = <<>>
       /\ routine'[r].enabled = FALSE
    \/ /\ routine[r].kind = "none" /\ routine'[r].history = <<>>
       /\ routine'[r].kind \in {"one-time", "recurring"}

\* A step only moves jobs on.
JobsKept ==
    /\ Len(jobs') = Len(jobs)
    /\ \A i \in DOMAIN jobs :
        /\ jobs'[i].routine = jobs[i].routine /\ jobs'[i].trigger = jobs[i].trigger
        /\ jobs'[i].at = jobs[i].at /\ jobs'[i].made = jobs[i].made
        /\ jobs[i].status = "over" => jobs'[i].status = "over"

LEMMA JobDomain ==
  ASSUME AutomationTypeOK
  PROVE  /\ Len(jobs) \in Nat /\ DOMAIN jobs = 1..Len(jobs)
         /\ \A i \in DOMAIN jobs : jobs[i] \in Job /\ jobs[i].routine \in Routines /\ jobs[i].made \in Nat /\ jobs[i].at \in Nat
  <1>1. Len(jobs) \in Nat /\ DOMAIN jobs = 1..Len(jobs) /\ \A i \in DOMAIN jobs : jobs[i] \in Job
    BY DEF AutomationTypeOK
  <1>2. QED
    BY <1>1 DEF Job

LEMMA Undisturbed ==
  ASSUME AutomationInv, AutomationTypeOK', JobsKept, now' \in Nat, now' >= now,
         \A r \in Routines : RoutineKept(r),
         firing.pc = "idle" \/ (firing'.pc = "idle" /\ (firing.pc = "note" => jobs'[Len(jobs)].status = "over")),
         firing'.pc \in {"idle", "record"},
         firing'.pc = "record" =>
            /\ firing'.routine \in Routines /\ firing'.trigger # None
            /\ trigger'[firing'.trigger].routine \in Routines
            /\ routine'[firing'.routine].kind \in {"one-time", "recurring"}
  PROVE  AutomationInv'
  <1>1. /\ AutomationTypeOK /\ NextIsNew /\ EnabledExist /\ FiringKnows /\ HistoriesBounded /\ JobsOfRoutines
        /\ NoMissedRunStorm /\ LiveJobsAccounted
    BY DEF AutomationInv
  <1>2. /\ Len(jobs) \in Nat /\ DOMAIN jobs = 1..Len(jobs) /\ DOMAIN jobs' = DOMAIN jobs
        /\ \A i \in DOMAIN jobs : jobs[i] \in Job /\ jobs[i].routine \in Routines /\ jobs[i].made \in Nat /\ jobs[i].at \in Nat
    <2>1. DOMAIN jobs' = 1..Len(jobs')
      BY DEF AutomationTypeOK
    <2>2. QED
      BY <1>1, <2>1, JobDomain DEF JobsKept
  <1>3. \A r \in Routines :
            /\ routine[r] \in RoutineRecord /\ routine'[r] \in RoutineRecord
            /\ routine[r].history \in Seq(Run) /\ routine'[r].history \in Seq(Run)
            /\ routine[r].ran \in BOOLEAN /\ routine[r].next \in Nat \cup {None}
    <2>1. \A r \in Routines : routine[r] \in RoutineRecord /\ routine'[r] \in RoutineRecord
      BY <1>1 DEF AutomationTypeOK
    <2>2. QED
      BY <2>1 DEF RoutineRecord
  <1>4. \A r \in Routines : Scheduled(r)' = Scheduled(r)
    BY <1>2 DEF Scheduled, JobsKept
  <1>5. NextIsNew'
    <2>1. SUFFICES ASSUME NEW r \in Routines, NEW i \in Scheduled(r)
                   PROVE  /\ jobs'[i].made <= now'
                          /\ routine'[r].next # None => routine'[r].next > jobs'[i].made
                          /\ routine'[r].kind = "one-time" => routine'[r].ran
      BY <1>4 DEF NextIsNew
    <2>2. /\ i \in DOMAIN jobs /\ jobs[i].made \in Nat /\ jobs'[i].made = jobs[i].made /\ jobs[i].made <= now
          /\ routine[r].next # None => routine[r].next > jobs[i].made
          /\ routine[r].kind = "one-time" => routine[r].ran
          /\ routine[r].kind # "none"
      BY <1>1, <1>2, <2>1 DEF NextIsNew, Scheduled, JobsKept, JobsOfRoutines
    <2>3. now \in Nat /\ routine'[r].next \in Nat \cup {None}
      BY <1>1, <1>3 DEF AutomationTypeOK, RoutineRecord
    <2>4. jobs'[i].made <= now'
      BY <2>2, <2>3
    <2>5. QED
      BY <2>2, <2>3, <2>4 DEF RoutineKept
  <1>6. FiringKnows'
    BY DEF FiringKnows, Exists
  <1>7. HistoriesBounded'
    <2>1. SUFFICES ASSUME NEW r \in Routines
                   PROVE  /\ Len(routine'[r].history) <= HistoryLimit
                          /\ \A k \in DOMAIN routine'[r].history : routine'[r].history[k].job \in 0..Len(jobs')
      BY DEF HistoriesBounded
    <2>2. CASE routine'[r].history = <<>>
      BY <2>2, AutomationAssumption
    <2>3. CASE SameRuns(routine[r].history, routine'[r].history)
      <3> DEFINE h == routine[r].history
                 g == routine'[r].history
      <3>1. h \in Seq(Run) /\ g \in Seq(Run)
        BY <1>3
      <3>2. Len(h) <= HistoryLimit /\ \A k \in DOMAIN h : h[k].job \in 0..Len(jobs)
        BY <1>1 DEF HistoriesBounded
      <3>3. DOMAIN h = DOMAIN g
        BY <2>3, <3>1 DEF SameRuns
      <3> HIDE DEF h, g
      <3>4. QED
        BY <2>3, <3>2, <3>3 DEF SameRuns, JobsKept, h, g
    <2>4. QED
      BY <2>2, <2>3 DEF RoutineKept
  <1>8. JobsOfRoutines'
    BY <1>1, <1>2 DEF JobsOfRoutines, JobsKept, RoutineKept
  <1>9. NoMissedRunStorm'
    BY <1>1, <1>2 DEF NoMissedRunStorm, JobsKept
  <1>10. LiveJobsAccounted'
    <2>1. SUFFICES ASSUME NEW i \in DOMAIN jobs, jobs'[i].status # "over", NEW r \in Routines, r = jobs[i].routine
                   PROVE  \/ routine'[r].kind = "removed" \/ Len(routine'[r].history) = HistoryLimit
                          \/ \E k \in DOMAIN routine'[r].history : routine'[r].history[k].job = i
      <3>1. ASSUME NEW i \in DOMAIN jobs'
            PROVE  \/ jobs'[i].status = "over"
                   \/ firing'.pc = "note" /\ i = Len(jobs')
                   \/ routine'[jobs'[i].routine].kind = "removed" \/ Len(routine'[jobs'[i].routine].history) = HistoryLimit
                   \/ \E k \in DOMAIN routine'[jobs'[i].routine].history :
                        routine'[jobs'[i].routine].history[k].job = i
        BY <1>2, <2>1 DEF JobsKept
      <3>2. QED
        BY <3>1 DEF LiveJobsAccounted
    <2>2. jobs[i].status # "over" /\ routine[r].kind # "none"
      BY <1>1, <2>1 DEF JobsKept, JobsOfRoutines
    <2>3. \/ routine[r].kind = "removed" \/ Len(routine[r].history) = HistoryLimit
          \/ \E k \in DOMAIN routine[r].history : routine[r].history[k].job = i
      BY <1>1, <2>1, <2>2 DEF LiveJobsAccounted
    <2>4. CASE routine'[r].kind = "removed"
      BY <2>4
    <2>5. CASE routine'[r].kind = routine[r].kind /\ SameRuns(routine[r].history, routine'[r].history)
      <3>1. DOMAIN routine[r].history = DOMAIN routine'[r].history
        BY <1>3, <2>5 DEF SameRuns
      <3>2. QED
        BY <2>3, <2>5, <3>1 DEF SameRuns
    <2>6. QED
      BY <2>2, <2>4, <2>5 DEF RoutineKept
  <1>11. EnabledExist'
    <2>1. SUFFICES ASSUME NEW r \in Routines, routine'[r].enabled
                   PROVE  routine'[r].kind \in {"one-time", "recurring"}
      BY DEF EnabledExist, Exists
    <2>2. routine[r].enabled => routine[r].kind \in {"one-time", "recurring"}
      BY <1>1 DEF EnabledExist, Exists
    <2>3. QED
      BY <2>1, <2>2 DEF RoutineKept, Exists
  <1>12. QED
    BY <1>5, <1>6, <1>7, <1>8, <1>9, <1>10, <1>11 DEF AutomationInv

\* Blocking and refreshing a trigger change its status only.
LEMMA TriggerBlocked ==
  ASSUME NEW e, IsTrigger(e)
  PROVE  /\ IsTrigger(Blocked(e)) /\ Blocked(e).enabled = e.enabled /\ Blocked(e).routine = e.routine
  <1>1. CASE Blocked(e) = e
    BY <1>1
  <1>2. CASE Blocked(e) = [e EXCEPT !.status = "blocked", !.cause = "reference"]
    BY <1>2 DEF IsTrigger
  <1>3. CASE Blocked(e) = [e EXCEPT !.status = "disabled", !.cause = "none"]
    BY <1>3 DEF IsTrigger
  <1>4. QED
    BY <1>1, <1>2, <1>3 DEF Blocked

LEMMA TriggerRefreshed ==
  ASSUME NEW e, KnownTrigger(e), NEW ws, NEW rs
  PROVE  KnownTrigger(Refreshed(e, ws, rs)) /\ Refreshed(e, ws, rs).routine = e.routine
  <1>1. IsTrigger(e) /\ (e.enabled \/ e.status # "none" => e.routine \in Routines)
    BY DEF KnownTrigger
  <1>2. CASE Refreshed(e, ws, rs) = e
    BY <1>1, <1>2 DEF KnownTrigger
  <1>3. CASE e.status # "none" /\ Refreshed(e, ws, rs) = Blocked(e)
    BY <1>1, <1>3, TriggerBlocked DEF KnownTrigger
  <1>4. CASE e.status # "none" /\ Refreshed(e, ws, rs) = [e EXCEPT !.status = "ready", !.cause = "none"]
    BY <1>1, <1>4 DEF KnownTrigger, IsTrigger
  <1>5. QED
    BY <1>2, <1>3, <1>4 DEF Refreshed

LEMMA TriggersReconciled ==
  ASSUME NEW ts, TriggersKnow(ts), NEW due, NEW ws, NEW rs, Reconcile(ts, due, ws, rs)
  PROVE  TriggersKnow(trigger') /\ TimersKnow'
  <1>1. /\ trigger' = [t \in Triggers |-> Refreshed(ts[t], ws, rs)]
        /\ pending' = [t \in Triggers |-> IF Valid(ts[t], ws, rs) THEN due[t] ELSE None]
    BY DEF Reconcile
  <1>2. \A t \in Triggers : KnownTrigger(ts[t])
    BY DEF TriggersKnow
  <1>3. \A t \in Triggers : KnownTrigger(Refreshed(ts[t], ws, rs)) /\ Refreshed(ts[t], ws, rs).routine = ts[t].routine
    BY <1>2, TriggerRefreshed
  <1>4. TriggersKnow(trigger')
    BY <1>1, <1>3 DEF TriggersKnow
  <1>5. \A t \in Triggers : pending'[t] # None => trigger'[t].routine \in Routines
    BY <1>1, <1>2, <1>3 DEF Valid, KnownTrigger
  <1>6. QED
    BY <1>4, <1>5 DEF TimersKnow

LEMMA TriggerChanged ==
  ASSUME TriggersKnow(trigger), NEW t \in Triggers, NEW e, KnownTrigger(e),
         NEW ts, ts = [trigger EXCEPT ![t] = e]
  PROVE  TriggersKnow(ts)
  BY DEF TriggersKnow

\* A step in which the routines only follow their jobs.
LEMMA RoutinesFollow ==
  ASSUME AutomationInv, routine' = AllReconciled
  PROVE  routine' \in [Routines -> RoutineRecord] /\ \A r \in Routines : RoutineKept(r)
  <1>1. \A r \in Routines :
            /\ RunsReconciled(r) \in RoutineRecord
            /\ RunsReconciled(r).kind = routine[r].kind /\ RunsReconciled(r).next = routine[r].next
            /\ RunsReconciled(r).ran = routine[r].ran /\ RunsReconciled(r).enabled = routine[r].enabled
            /\ SameRuns(routine[r].history, RunsReconciled(r).history)
    BY ReconciledRuns DEF AutomationInv
  <1>2. \A r \in Routines : routine'[r] = RunsReconciled(r)
    BY DEF AllReconciled
  <1>3. QED
    BY <1>1, <1>2 DEF AllReconciled, RoutineKept

LEMMA RoutinesUnchanged ==
  ASSUME AutomationInv, routine' = routine
  PROVE  routine' \in [Routines -> RoutineRecord] /\ \A r \in Routines : RoutineKept(r)
  BY DEF AutomationInv, AutomationTypeOK, RoutineKept, SameRuns

LEMMA JobsUnchanged ==
  ASSUME AutomationInv, jobs' = jobs
  PROVE  JobsKept /\ jobs' \in Seq(Job)
  BY DEF JobsKept, AutomationInv, AutomationTypeOK

\* Between firings, with the clock and the jobs as they are: what is left is the routines and the triggers.
LEMMA OperationKeeps ==
  ASSUME AutomationInv, now' = now, jobs' = jobs, BetweenFirings, firing' = firing,
         routine' \in [Routines -> RoutineRecord], \A r \in Routines : RoutineKept(r), TriggersKnow(trigger'), TimersKnow'
  PROVE  AutomationInv'
  <1>1. AutomationTypeOK
    BY DEF AutomationInv
  <1>2. AutomationTypeOK'
    BY <1>1, JobsUnchanged DEF AutomationTypeOK
  <1>3. firing'.pc = "idle" /\ now' \in Nat /\ now' >= now
    BY <1>1 DEF BetweenFirings, AutomationTypeOK
  <1>4. QED
    BY <1>2, <1>3, JobsUnchanged, Undisturbed DEF BetweenFirings

LEMMA TriggersKnown ==
  ASSUME AutomationInv
  PROVE  /\ TriggersKnow(trigger) /\ AutomationTypeOK /\ HistoriesBounded
         /\ \A t \in Triggers : KnownTrigger(trigger[t])
  BY DEF AutomationInv, AutomationTypeOK, TriggersKnow

LEMMA ListingKeeps ==
  ASSUME AutomationInv, ListTriggers \/ ChangeWorkspace
  PROVE  AutomationInv'
  <1>1. /\ now' = now /\ jobs' = jobs /\ firing' = firing /\ BetweenFirings /\ routine' = AllReconciled
        /\ \E ws : Reconcile(trigger, pending, ws, routine)
    BY DEF ListTriggers, ChangeWorkspace, Operates
  <1>2. TriggersKnow(trigger') /\ TimersKnow'
    BY <1>1, TriggersKnown, TriggersReconciled
  <1>3. QED
    BY <1>1, <1>2, RoutinesFollow, OperationKeeps

LEMMA TriggerOperationKeeps ==
  ASSUME AutomationInv, NEW t \in Triggers,
         \/ \E r \in Routines : CreateTrigger(t, r)
         \/ RemoveTrigger(t) \/ \E enabled \in BOOLEAN : SetTriggerEnabled(t, enabled)
  PROVE  AutomationInv'
  <1>1. now' = now /\ jobs' = jobs /\ firing' = firing /\ BetweenFirings /\ routine' = AllReconciled
    BY DEF CreateTrigger, RemoveTrigger, SetTriggerEnabled, Operates
  <1>2. TriggersKnow(trigger) /\ KnownTrigger(trigger[t])
    BY TriggersKnown
  <1>3. ASSUME NEW e, KnownTrigger(e), NEW due, Reconcile([trigger EXCEPT ![t] = e], due, workspace, routine)
        PROVE  TriggersKnow(trigger') /\ TimersKnow'
    <2> DEFINE ts == [trigger EXCEPT ![t] = e]
    <2>1. TriggersKnow(ts) /\ Reconcile(ts, due, workspace, routine)
      BY <1>2, <1>3, TriggerChanged
    <2> HIDE DEF ts
    <2>2. QED
      BY <2>1, TriggersReconciled
  <1>4. ASSUME NEW r \in Routines, CreateTrigger(t, r) PROVE TriggersKnow(trigger') /\ TimersKnow'
    <2> DEFINE e == [NoTrigger EXCEPT !.status = "ready", !.routine = r, !.enabled = TRUE]
    <2>1. KnownTrigger(e)
      BY DEF KnownTrigger, IsTrigger, NoTrigger
    <2>2. Reconcile([trigger EXCEPT ![t] = e], pending, workspace, routine)
      BY <1>4 DEF CreateTrigger
    <2> HIDE DEF e
    <2>3. QED
      BY <1>3, <2>1, <2>2
  <1>5. ASSUME RemoveTrigger(t) PROVE TriggersKnow(trigger') /\ TimersKnow'
    <2> DEFINE e == [NoTrigger EXCEPT !.removed = TRUE]
    <2>1. KnownTrigger(e)
      BY DEF KnownTrigger, IsTrigger, NoTrigger
    <2>2. Reconcile([trigger EXCEPT ![t] = e], Cancelled({t}), workspace, routine)
      BY <1>5 DEF RemoveTrigger
    <2> HIDE DEF e
    <2>3. QED
      BY <1>3, <2>1, <2>2
  <1>6. ASSUME NEW enabled \in BOOLEAN, SetTriggerEnabled(t, enabled) PROVE TriggersKnow(trigger') /\ TimersKnow'
    <2> DEFINE e == [trigger[t] EXCEPT !.enabled = enabled, !.cause = "none",
                                       !.status = IF enabled THEN "ready" ELSE "disabled",
                                       !.recent = IF enabled THEN <<>> ELSE @]
    <2>1. Reconcile([trigger EXCEPT ![t] = e], Cancelled({t}), workspace, routine) /\ trigger[t].status # "none"
      BY <1>6 DEF SetTriggerEnabled
    <2>2. KnownTrigger(e)
      BY <1>2, <2>1 DEF KnownTrigger, IsTrigger
    <2> HIDE DEF e
    <2>3. QED
      BY <1>3, <2>1, <2>2
  <1>7. QED
    BY <1>1, <1>4, <1>5, <1>6, RoutinesFollow, OperationKeeps

\* A routine that was not created, or was removed, has no runs.
LEMMA NoRuns ==
  \E h \in Seq(Run) :
    /\ h = <<>>
    /\ NoRoutine = [kind |-> "none", enabled |-> FALSE, at |-> None, next |-> None, ran |-> FALSE, history |-> h]
  <1>1. <<>> \in Seq(Run)
    OBVIOUS
  <1>2. PICK h \in Seq(Run) : h = <<>>
    BY <1>1
  <1>3. NoRoutine = [kind |-> "none", enabled |-> FALSE, at |-> None, next |-> None, ran |-> FALSE, history |-> h]
    BY <1>2 DEF NoRoutine
  <1>4. QED
    BY <1>2, <1>3

\* A step in which the routines follow their jobs, and one of them becomes e.
LEMMA RoutineSet ==
  ASSUME AutomationInv, NEW r \in Routines, NEW e \in RoutineRecord, routine' = [AllReconciled EXCEPT ![r] = e],
         \/ /\ e.kind = routine[r].kind /\ e.ran = routine[r].ran /\ SameRuns(routine[r].history, e.history)
            /\ e.enabled => routine[r].enabled \/ Exists(r)
            /\ \/ e.next \in {routine[r].next, None} \/ e.next > now
               \/ routine[r].kind = "one-time" /\ routine[r].ran = FALSE
         \/ e.kind = "removed" /\ e.next = None /\ e.history = <<>> /\ e.enabled = FALSE
  PROVE  routine' \in [Routines -> RoutineRecord] /\ \A p \in Routines : RoutineKept(p)
  <1>1. \A p \in Routines :
            /\ RunsReconciled(p) \in RoutineRecord
            /\ RunsReconciled(p).kind = routine[p].kind /\ RunsReconciled(p).next = routine[p].next
            /\ RunsReconciled(p).ran = routine[p].ran /\ RunsReconciled(p).enabled = routine[p].enabled
            /\ SameRuns(routine[p].history, RunsReconciled(p).history)
    BY ReconciledRuns DEF AutomationInv
  <1>2. \A p \in Routines : routine'[p] = IF p = r THEN e ELSE RunsReconciled(p)
    BY DEF AllReconciled
  <1>3. routine' \in [Routines -> RoutineRecord]
    BY <1>1 DEF AllReconciled
  <1>4. RoutineKept(r)
    BY <1>2 DEF RoutineKept
  <1>5. \A p \in Routines : p # r => RoutineKept(p)
    BY <1>1, <1>2 DEF RoutineKept
  <1>6. QED
    BY <1>3, <1>4, <1>5

LEMMA RoutineOperationKeeps ==
  ASSUME AutomationInv, NEW r \in Routines,
         RemoveRoutine(r) \/ \E enabled \in BOOLEAN : SetRoutineEnabled(r, enabled)
  PROVE  AutomationInv'
  <1>1. /\ now' = now /\ jobs' = jobs /\ firing' = firing /\ BetweenFirings
        /\ \E rs : Reconcile(trigger, pending, workspace, rs)
    BY DEF RemoveRoutine, SetRoutineEnabled, Operates
  <1>2. TriggersKnow(trigger') /\ TimersKnow'
    BY <1>1, TriggersKnown, TriggersReconciled
  <1>3. ASSUME RemoveRoutine(r)
        PROVE  routine' \in [Routines -> RoutineRecord] /\ \A p \in Routines : RoutineKept(p)
    <2> DEFINE e == [NoRoutine EXCEPT !.kind = "removed"]
    <2>1. e \in RoutineRecord /\ e.kind = "removed" /\ e.next = None /\ e.history = <<>> /\ e.enabled = FALSE
      <3>1. PICK h \in Seq(Run) :
            /\ h = <<>>
            /\ NoRoutine = [kind |-> "none", enabled |-> FALSE, at |-> None, next |-> None, ran |-> FALSE, history |-> h]
        BY NoRuns
      <3>2. e \in RoutineRecord /\ e.kind = "removed" /\ e.next = None /\ e.history = h /\ e.enabled = FALSE
        BY <3>1 DEF RoutineRecord, RoutineKinds
      <3> HIDE DEF e
      <3>3. QED
        BY <3>1, <3>2
    <2>2. routine' = [AllReconciled EXCEPT ![r] = e]
      BY <1>3 DEF RemoveRoutine
    <2> HIDE DEF e
    <2>3. QED
      BY <2>1, <2>2, RoutineSet
  <1>4. ASSUME NEW enabled \in BOOLEAN, SetRoutineEnabled(r, enabled)
        PROVE  routine' \in [Routines -> RoutineRecord] /\ \A p \in Routines : RoutineKept(p)
    <2> DEFINE c == RunsReconciled(r)
               x == IF ~enabled THEN None ELSE IF routine[r].kind = "one-time" THEN routine[r].at ELSE NextOccurrence(now)
               e == [c EXCEPT !.enabled = enabled, !.next = x]
    <2>1. /\ c \in RoutineRecord /\ c.kind = routine[r].kind /\ c.ran = routine[r].ran
          /\ SameRuns(routine[r].history, c.history)
      BY ReconciledRuns DEF AutomationInv
    <2>2. now \in Nat /\ routine[r] \in RoutineRecord
      BY DEF AutomationInv, AutomationTypeOK
    <2>3. /\ x \in Nat \cup {None}
          /\ x = None \/ x > now \/ (routine[r].kind = "one-time" /\ routine[r].ran = FALSE)
      <3>1. NextOccurrence(now) \in Nat /\ NextOccurrence(now) > now
        BY <2>2, NextIsLater
      <3>2. routine[r].at \in Nat \cup {None} /\ routine[r].ran \in BOOLEAN
        BY <2>2 DEF RoutineRecord
      <3>3. enabled /\ routine[r].kind = "one-time" => routine[r].ran = FALSE
        BY <1>4, <3>2 DEF SetRoutineEnabled
      <3>4. QED
        BY <3>1, <3>2, <3>3
    <2>4. routine' = [AllReconciled EXCEPT ![r].enabled = enabled, ![r].next = x]
      BY <1>4 DEF SetRoutineEnabled
    <2>5. AllReconciled[r] = c
      BY DEF AllReconciled
    <2>6. routine' = [AllReconciled EXCEPT ![r] = e]
      BY <2>4, <2>5
    <2> HIDE DEF c, x
    <2>7. /\ e \in RoutineRecord /\ e.kind = c.kind /\ e.ran = c.ran /\ e.history = c.history /\ e.next = x
      BY <2>1, <2>3 DEF RoutineRecord
    <2> HIDE DEF e
    <2>8. QED
      BY <1>4, <2>1, <2>3, <2>6, <2>7, RoutineSet DEF SetRoutineEnabled
  <1>5. QED
    BY <1>1, <1>2, <1>3, <1>4, OperationKeeps

LEMMA CreateRoutineKeeps ==
  ASSUME AutomationInv, NEW r \in Routines, CreateRoutine(r)
  PROVE  AutomationInv'
  <1>1. /\ now' = now /\ jobs' = jobs /\ firing' = firing /\ BetweenFirings /\ trigger' = trigger /\ pending' = pending
        /\ routine[r].kind = "none"
    BY DEF CreateRoutine, Operates
  <1>2. AutomationTypeOK /\ now \in Nat
    BY DEF AutomationInv, AutomationTypeOK
  <1>3. PICK kind \in {"one-time", "recurring"}, at \in Time \cup {NextOccurrence(now)} :
            routine' = [routine EXCEPT ![r] = [NoRoutine EXCEPT !.kind = kind, !.enabled = TRUE, !.at = at, !.next = at]]
    BY DEF CreateRoutine
  <1>4. at \in Nat
    BY <1>2, NextIsLater, AutomationAssumption DEF Time
  <1> DEFINE e == [NoRoutine EXCEPT !.kind = kind, !.enabled = TRUE, !.at = at, !.next = at]
  <1>5. e \in RoutineRecord /\ e.history = <<>> /\ e.kind = kind
    <2>1. PICK h \in Seq(Run) :
            /\ h = <<>>
            /\ NoRoutine = [kind |-> "none", enabled |-> FALSE, at |-> None, next |-> None, ran |-> FALSE, history |-> h]
      BY NoRuns
    <2>2. e \in RoutineRecord /\ e.history = h /\ e.kind = kind
      BY <1>4, <2>1 DEF RoutineRecord, RoutineKinds
    <2> HIDE DEF e
    <2>3. QED
      BY <2>1, <2>2
  <1>6. routine' = [routine EXCEPT ![r] = e]
    BY <1>3
  <1> HIDE DEF e
  <1>7. routine' \in [Routines -> RoutineRecord] /\ \A p \in Routines : RoutineKept(p)
    BY <1>1, <1>2, <1>3, <1>5, <1>6 DEF AutomationTypeOK, RoutineKept, SameRuns
  <1>8. TriggersKnow(trigger') /\ TimersKnow'
    BY <1>1, <1>2 DEF AutomationTypeOK, TimersKnow
  <1>9. QED
    BY <1>1, <1>7, <1>8, OperationKeeps

\* What a watcher reports starts timers of enabled triggers only; one that fails disables its triggers.
LEMMA WatcherKeeps ==
  ASSUME AutomationInv, FileChanges \/ WatcherFails
  PROVE  AutomationInv'
  <1>1. now' = now /\ jobs' = jobs /\ firing' = firing /\ BetweenFirings /\ routine' = routine
    BY DEF FileChanges, WatcherFails, Operates
  <1>2. /\ TriggersKnow(trigger) /\ TimersKnow
        /\ \A t \in Triggers : IsTrigger(trigger[t]) /\ (trigger[t].enabled => trigger[t].routine \in Routines)
    BY TriggersKnown DEF AutomationTypeOK, KnownTrigger
  <1>3. CASE FileChanges
    <2>1. PICK seen \in SUBSET {t \in Triggers : trigger[t].enabled} :
            /\ pending' = [t \in Triggers |-> IF t \in seen THEN now + Quiet ELSE pending[t]]
            /\ trigger' = [t \in Triggers |->
                   IF t \in seen THEN [trigger[t] EXCEPT !.status = "pending", !.cause = "none"] ELSE trigger[t]]
      BY <1>3 DEF FileChanges
    <2>2. \A t \in seen : LET e == [trigger[t] EXCEPT !.status = "pending", !.cause = "none"] IN
            KnownTrigger(e) /\ e.routine = trigger[t].routine /\ e.routine \in Routines
      BY <1>2 DEF KnownTrigger, IsTrigger
    <2>3. TriggersKnow(trigger')
      BY <1>2, <2>1, <2>2 DEF TriggersKnow
    <2>4. TimersKnow'
      BY <1>2, <2>1, <2>2 DEF TimersKnow
    <2>5. QED
      BY <1>1, <2>3, <2>4, RoutinesUnchanged, OperationKeeps
  <1>4. CASE WatcherFails
    <2>1. PICK off \in SUBSET {t \in Triggers : trigger[t].enabled} :
            /\ pending' = Cancelled(off)
            /\ trigger' = [t \in Triggers |->
                   IF t \notin off THEN trigger[t]
                   ELSE [trigger[t] EXCEPT !.enabled = FALSE, !.status = "blocked", !.cause = "watcher"]]
      <3>1. PICK failed \in SUBSET watching :
              LET off == {t \in failed : trigger[t].enabled} IN
               /\ pending' = Cancelled(off)
               /\ trigger' = [t \in Triggers |->
                      IF t \notin off THEN trigger[t]
                      ELSE [trigger[t] EXCEPT !.enabled = FALSE, !.status = "blocked", !.cause = "watcher"]]
        BY <1>4 DEF WatcherFails
      <3> DEFINE off == {t \in failed \cap Triggers : trigger[t].enabled}
      <3>2. /\ pending' = Cancelled(off)
            /\ trigger' = [t \in Triggers |->
                   IF t \notin off THEN trigger[t]
                   ELSE [trigger[t] EXCEPT !.enabled = FALSE, !.status = "blocked", !.cause = "watcher"]]
        BY <3>1 DEF Cancelled
      <3>3. off \in SUBSET {t \in Triggers : trigger[t].enabled}
        OBVIOUS
      <3> HIDE DEF off
      <3>4. QED
        BY <3>2, <3>3
    <2>2. \A t \in off : LET e == [trigger[t] EXCEPT !.enabled = FALSE, !.status = "blocked", !.cause = "watcher"] IN
            KnownTrigger(e) /\ e.routine = trigger[t].routine
      BY <1>2 DEF KnownTrigger, IsTrigger
    <2>3. TriggersKnow(trigger')
      BY <1>2, <2>1, <2>2 DEF TriggersKnow
    <2>4. TimersKnow'
      BY <1>2, <2>1, <2>2 DEF TimersKnow, Cancelled
    <2>5. QED
      BY <1>1, <2>3, <2>4, RoutinesUnchanged, OperationKeeps
  <1>5. QED
    BY <1>3, <1>4

\* The timer of a trigger: it is blocked, latched by a storm, or starts a firing of its routine.
LEMMA TimerKeeps ==
  ASSUME AutomationInv, NEW t \in Triggers, TimerFires(t)
  PROVE  AutomationInv'
  <1>1. /\ now' = now /\ jobs' = jobs /\ BetweenFirings /\ routine' = AllReconciled /\ pending[t] # None
        /\ FireBlocked(t) \/ FireStorm(t) \/ Fire(t)
    BY DEF TimerFires
  <1>2. /\ TriggersKnow(trigger) /\ IsTrigger(trigger[t]) /\ trigger[t].routine \in Routines
        /\ AutomationTypeOK /\ TimersKnow
    BY <1>1, TriggersKnown DEF AutomationTypeOK, TimersKnow, KnownTrigger
  <1>3. ASSUME NEW e, KnownTrigger(e), NEW due, Reconcile([trigger EXCEPT ![t] = e], due, workspace, routine),
               firing' = firing
        PROVE  AutomationInv'
    <2> DEFINE ts == [trigger EXCEPT ![t] = e]
    <2>1. TriggersKnow(ts) /\ Reconcile(ts, due, workspace, routine)
      BY <1>2, <1>3, TriggerChanged
    <2> HIDE DEF ts
    <2>2. TriggersKnow(trigger') /\ TimersKnow'
      BY <2>1, TriggersReconciled
    <2>3. QED
      BY <1>1, <1>3, <2>2, RoutinesFollow, OperationKeeps
  <1>4. CASE FireBlocked(t)
    <2> DEFINE e == Blocked(trigger[t])
    <2>1. KnownTrigger(e)
      BY <1>2, TriggerBlocked DEF KnownTrigger
    <2>2. Reconcile([trigger EXCEPT ![t] = e], Cancelled({t}), workspace, routine) /\ firing' = firing
      BY <1>4 DEF FireBlocked
    <2> HIDE DEF e
    <2>3. QED
      BY <1>3, <2>1, <2>2
  <1>5. CASE FireStorm(t)
    <2> DEFINE e == [trigger[t] EXCEPT !.recent = Recent(t), !.enabled = FALSE, !.status = "blocked", !.cause = "storm"]
    <2>1. KnownTrigger(e)
      BY <1>2 DEF KnownTrigger, IsTrigger
    <2>2. Reconcile([trigger EXCEPT ![t] = e], Cancelled({t}), workspace, routine) /\ firing' = firing
      BY <1>5 DEF FireStorm
    <2> HIDE DEF e
    <2>3. QED
      BY <1>3, <2>1, <2>2
  <1>6. CASE Fire(t)
    <2> DEFINE e == [trigger[t] EXCEPT !.recent = Append(Recent(t), now), !.status = "pending", !.cause = "none"]
    <2>1. KnownTrigger(e) /\ e.routine = trigger[t].routine
      BY <1>2 DEF KnownTrigger, IsTrigger
    <2>2. trigger' = [trigger EXCEPT ![t].recent = Append(Recent(t), now), ![t].status = "pending", ![t].cause = "none"]
      BY <1>6 DEF Fire
    <2>3. t \in DOMAIN trigger
      BY <1>2 DEF TriggersKnow
    <2>4. trigger' = [trigger EXCEPT ![t] = e]
      BY <2>2, <2>3
    <2> HIDE DEF e
    <2>5. TriggersKnow(trigger')
      BY <1>2, <2>1, <2>4, TriggerChanged
    <2>6. /\ pending' = Cancelled({t})
          /\ firing' = [pc |-> "record", routine |-> trigger[t].routine, at |-> now, trigger |-> t]
          /\ routine[trigger[t].routine].kind = "recurring"
      BY <1>6 DEF Fire, Valid
    <2>7. TimersKnow'
      BY <1>2, <2>1, <2>3, <2>4, <2>6 DEF TimersKnow, Cancelled
    <2>8. AutomationTypeOK'
      <3>1. now' \in Nat /\ jobs' \in Seq(Job) /\ routine' \in [Routines -> RoutineRecord]
        BY <1>1, <1>2, JobsUnchanged, RoutinesFollow DEF AutomationTypeOK
      <3>2. firing' \in [pc : {"idle", "record", "submit", "note"}, routine : Routines \cup {None}, at : Nat,
                         trigger : Triggers \cup {None}]
        BY <1>1, <1>2, <2>6 DEF AutomationTypeOK
      <3>3. QED
        BY <2>5, <2>7, <3>1, <3>2 DEF AutomationTypeOK
    <2>9. /\ firing'.routine \in Routines /\ firing'.trigger # None /\ firing'.pc = "record"
          /\ trigger'[firing'.trigger].routine \in Routines
          /\ routine'[firing'.routine].kind \in {"one-time", "recurring"}
      <3>1. t # None
        BY AutomationAssumption
      <3>2. trigger'[t].routine = trigger[t].routine
        BY <2>1, <2>3, <2>4
      <3>3. routine'[trigger[t].routine].kind = "recurring"
        BY <1>1, <1>2, <2>6, ReconciledRuns, TriggersKnown DEF AllReconciled
      <3>4. QED
        BY <1>2, <2>6, <3>1, <3>2, <3>3
    <2>10. now' \in Nat /\ now' >= now /\ firing.pc = "idle" /\ JobsKept /\ \A r \in Routines : RoutineKept(r)
      BY <1>1, <1>2, JobsUnchanged, RoutinesFollow DEF AutomationTypeOK, BetweenFirings
    <2>11. QED
      BY <2>8, <2>9, <2>10, Undisturbed
  <1>7. QED
    BY <1>1, <1>4, <1>5, <1>6

LEMMA ClockKeeps ==
  ASSUME AutomationInv, Advance
  PROVE  AutomationInv'
  <1>1. /\ now' = now + 1 /\ jobs' = jobs /\ routine' = routine /\ trigger' = trigger /\ pending' = pending
        /\ firing' = firing /\ firing.pc = "idle"
    BY DEF Advance, BetweenFirings
  <1>2. AutomationTypeOK /\ now \in Nat
    BY DEF AutomationInv, AutomationTypeOK
  <1>3. AutomationTypeOK'
    BY <1>1, <1>2 DEF AutomationTypeOK, TimersKnow
  <1>4. JobsKept /\ (\A r \in Routines : RoutineKept(r)) /\ now' \in Nat /\ now' >= now /\ firing'.pc = "idle"
    BY <1>1, <1>2, JobsUnchanged, RoutinesUnchanged
  <1>5. QED
    BY <1>1, <1>3, <1>4, Undisturbed

LEMMA JobMoveKeeps ==
  ASSUME AutomationInv, NEW i \in DOMAIN jobs, NEW status \in JobStatus \ {"queued"}, JobMoves(i, status)
  PROVE  AutomationInv'
  <1>1. /\ now' = now /\ routine' = routine /\ trigger' = trigger /\ pending' = pending
        /\ firing' = firing /\ firing.pc = "idle"
        /\ jobs' = [jobs EXCEPT ![i].status = status] /\ jobs[i].status # "over"
    BY DEF JobMoves, BetweenFirings
  <1>2. AutomationTypeOK /\ now \in Nat /\ jobs \in Seq(Job)
    BY DEF AutomationInv, AutomationTypeOK
  <1> DEFINE e == [jobs[i] EXCEPT !.status = status]
  <1>3. /\ e \in Job /\ e.routine = jobs[i].routine /\ e.trigger = jobs[i].trigger /\ e.at = jobs[i].at
        /\ e.made = jobs[i].made
    <2>1. jobs[i] \in Job
      BY <1>2
    <2>2. QED
      BY <2>1 DEF Job
  <1>4. jobs' = [jobs EXCEPT ![i] = e]
    BY <1>1
  <1> HIDE DEF e
  <1>5. jobs' \in Seq(Job) /\ Len(jobs') = Len(jobs) /\ \A k \in DOMAIN jobs : jobs'[k] = IF k = i THEN e ELSE jobs[k]
    BY <1>2, <1>3, <1>4
  <1>6. JobsKept
    BY <1>1, <1>3, <1>5 DEF JobsKept
  <1>7. AutomationTypeOK'
    BY <1>1, <1>2, <1>5 DEF AutomationTypeOK, TimersKnow
  <1>8. (\A r \in Routines : RoutineKept(r)) /\ now' \in Nat /\ now' >= now /\ firing'.pc = "idle"
    BY <1>1, <1>2, RoutinesUnchanged
  <1>9. QED
    BY <1>1, <1>6, <1>7, <1>8, Undisturbed

\* What is loaded when the process starts.
LEMMA LoadedRoutine ==
  ASSUME AutomationInv, NEW r \in Routines, routine' = RoutinesLoaded
  PROVE  routine'[r] \in RoutineRecord /\ RoutineKept(r)
  <1>1. AutomationTypeOK /\ now \in Nat /\ routine[r] \in RoutineRecord
    BY DEF AutomationInv, AutomationTypeOK
  <1> DEFINE h == routine[r].history
             g == [i \in DOMAIN h |-> IF h[i].job = 0 THEN [h[i] EXCEPT !.status = "over"] ELSE h[i]]
             spent == routine[r].kind = "one-time" /\ routine[r].ran
             idle == routine[r].enabled /\ routine[r].next = None
             x == IF ~idle \/ spent THEN routine[r].next
                  ELSE IF routine[r].kind = "one-time" THEN routine[r].at
                  ELSE NextOccurrence(now)
             b == routine[r].enabled /\ ~(idle /\ spent)
  <1>2. routine'[r] = [routine[r] EXCEPT !.history = g, !.enabled = b, !.next = x]
    BY DEF RoutinesLoaded
  <1>3. h \in Seq(Run) /\ routine[r].at \in Nat \cup {None} /\ routine[r].next \in Nat \cup {None} /\ routine[r].ran \in BOOLEAN
    BY <1>1 DEF RoutineRecord
  <1>4. g \in Seq(Run) /\ SameRuns(h, g)
    <2>1. PICK n \in Nat : n = Len(h) /\ DOMAIN h = 1..n
      BY <1>3
    <2>2. \A i \in DOMAIN h : h[i] \in Run
      BY <1>3
    <2> HIDE DEF h
    <2>3. ASSUME NEW i \in DOMAIN h PROVE g[i] \in Run /\ g[i].job = h[i].job
      <3>1. PICK e \in Run : e = h[i]
        BY <2>2
      <3>2. [e EXCEPT !.status = "over"] \in Run /\ [e EXCEPT !.status = "over"].job = e.job
        BY DEF Run, JobStatus
      <3>3. QED
        BY <3>1, <3>2
    <2>4. g \in [1..n -> Run]
      BY <2>1, <2>3
    <2> HIDE DEF g
    <2>5. g \in Seq(Run) /\ Len(g) = n
      BY <2>4
    <2>6. QED
      BY <2>1, <2>3, <2>5 DEF SameRuns
  <1>5. /\ x \in Nat \cup {None} /\ b \in BOOLEAN /\ (b => routine[r].enabled)
        /\ x = routine[r].next \/ x > now \/ (routine[r].kind = "one-time" /\ routine[r].ran = FALSE)
    BY <1>1, <1>3, NextIsLater
  <1> HIDE DEF g, x, b
  <1>6. /\ routine'[r] \in RoutineRecord /\ routine'[r].kind = routine[r].kind /\ routine'[r].ran = routine[r].ran
        /\ routine'[r].history = g /\ routine'[r].next = x /\ (routine'[r].enabled => routine[r].enabled)
    BY <1>1, <1>2, <1>4, <1>5 DEF RoutineRecord
  <1>7. QED
    BY <1>4, <1>5, <1>6 DEF RoutineKept

LEMMA LoadedJobs ==
  ASSUME AutomationInv, jobs' = JobsLoaded
  PROVE  jobs' \in Seq(Job) /\ JobsKept /\ \A i \in DOMAIN jobs : jobs[i].status = "queued" => jobs'[i].status = "over"
  <1>1. AutomationTypeOK /\ jobs \in Seq(Job)
    BY DEF AutomationInv, AutomationTypeOK
  <1>2. PICK n \in Nat : n = Len(jobs) /\ DOMAIN jobs = 1..n
    BY <1>1
  <1>3. ASSUME NEW i \in DOMAIN jobs
        PROVE  /\ jobs'[i] \in Job /\ jobs'[i].routine = jobs[i].routine /\ jobs'[i].trigger = jobs[i].trigger
               /\ jobs'[i].at = jobs[i].at /\ jobs'[i].made = jobs[i].made
               /\ jobs[i].status \in {"queued", "over"} => jobs'[i].status = "over"
    <2>1. jobs[i] \in Job
      BY <1>1
    <2>2. jobs'[i] = IF jobs[i].status = "queued" THEN [jobs[i] EXCEPT !.status = "over"] ELSE jobs[i]
      BY DEF JobsLoaded
    <2>3. QED
      BY <2>1, <2>2 DEF Job, JobStatus
  <1>4. jobs' \in [1..n -> Job]
    <2>1. jobs' = [i \in 1..n |-> jobs'[i]]
      BY <1>2 DEF JobsLoaded
    <2>2. QED
      BY <1>2, <1>3, <2>1
  <1>5. jobs' \in Seq(Job) /\ Len(jobs') = n
    BY <1>4
  <1>6. QED
    BY <1>2, <1>3, <1>5 DEF JobsKept

LEMMA StopKeeps ==
  ASSUME AutomationInv, ProcessStops
  PROVE  AutomationInv'
  <1>1. /\ now' = now /\ jobs' = JobsLoaded /\ routine' = RoutinesLoaded /\ firing' = NoFiring
        /\ \E due : Reconcile(TriggersLoaded, due, workspace, RoutinesLoaded)
    BY DEF ProcessStops
  <1>2. AutomationTypeOK /\ now \in Nat /\ TriggersKnow(trigger)
    BY DEF AutomationInv, AutomationTypeOK
  <1>3. TriggersKnow(TriggersLoaded)
    <2>1. ASSUME NEW t \in Triggers PROVE KnownTrigger(TriggersLoaded[t])
      <3> DEFINE e == trigger[t]
                 s == IF e.status # "pending" THEN e.status ELSE IF e.enabled THEN "ready" ELSE "disabled"
                 w == Recent(t)
      <3>1. KnownTrigger(e)
        BY <1>2 DEF TriggersKnow
      <3>2. TriggersLoaded[t] = [e EXCEPT !.recent = w, !.status = s]
        BY DEF TriggersLoaded
      <3>3. s # "none" => e.status # "none"
        OBVIOUS
      <3> HIDE DEF e, s, w
      <3>4. QED
        BY <3>1, <3>2, <3>3 DEF KnownTrigger, IsTrigger
    <2>2. QED
      BY <2>1 DEF TriggersKnow, TriggersLoaded
  <1>4. TriggersKnow(trigger') /\ TimersKnow'
    BY <1>1, <1>3, TriggersReconciled
  <1>5. (\A r \in Routines : RoutineKept(r)) /\ routine' \in [Routines -> RoutineRecord]
    <2>1. \A r \in Routines : routine'[r] \in RoutineRecord /\ RoutineKept(r)
      BY <1>1, LoadedRoutine
    <2>2. routine' = [r \in Routines |-> routine'[r]]
      BY <1>1 DEF RoutinesLoaded
    <2>3. QED
      BY <2>1, <2>2
  <1>6. JobsKept /\ jobs' \in Seq(Job) /\ \A i \in DOMAIN jobs : jobs[i].status = "queued" => jobs'[i].status = "over"
    BY <1>1, LoadedJobs
  <1>7. firing.pc = "note" => jobs'[Len(jobs)].status = "over"
    <2>1. firing.pc = "note" => Len(jobs) > 0 /\ jobs[Len(jobs)].status = "queued"
      BY DEF AutomationInv, FiringKnows
    <2>2. QED
      BY <1>2, <1>6, <2>1, JobDomain
  <1>8. /\ firing'.pc = "idle"
        /\ firing' \in [pc : {"idle", "record", "submit", "note"}, routine : Routines \cup {None}, at : Nat,
                        trigger : Triggers \cup {None}]
    BY <1>1 DEF NoFiring
  <1>9. AutomationTypeOK' /\ now' \in Nat /\ now' >= now
    BY <1>1, <1>2, <1>4, <1>5, <1>6, <1>8 DEF AutomationTypeOK
  <1>10. QED
    BY <1>5, <1>6, <1>7, <1>8, <1>9, Undisturbed
-----------------------------------------------------------------------------
(* The steps of a firing *)

\* The history g has the run that is pushed at the end of h, and is full or has lost nothing.
EndsWith(h, run, g) ==
    /\ g \in Seq(Run) /\ Len(g) \in 1..HistoryLimit /\ g[Len(g)] = run
    /\ \A k \in DOMAIN g : g[k] = run \/ \E m \in DOMAIN h : g[k] = h[m]
    /\ Len(g) = HistoryLimit \/ \A k \in DOMAIN h : k \in DOMAIN g /\ g[k] = h[k]

LEMMA PushedHistory ==
  ASSUME NEW h \in Seq(Run), Len(h) <= HistoryLimit, NEW run \in Run
  PROVE  EndsWith(h, run, Pushed(h, run))
  <1> DEFINE g == Pushed(h, run)
  <1> SUFFICES EndsWith(h, run, g)
    OBVIOUS
  <1>1. PICK n \in Nat : n = Len(h) /\ DOMAIN h = 1..n
    OBVIOUS
  <1>2. PICK a \in Seq(Run) : a = Append(h, run)
    <2>1. Append(h, run) \in Seq(Run)
      OBVIOUS
    <2>2. QED
      BY <2>1
  <1>0. g = IF Len(a) > HistoryLimit THEN SubSeq(a, Len(a) - HistoryLimit + 1, Len(a)) ELSE a
    BY <1>2 DEF Pushed
  <1> HIDE DEF g
  <1>3. /\ Len(a) = n + 1 /\ DOMAIN a = 1..(n + 1) /\ a[n + 1] = run
        /\ \A k \in DOMAIN h : k \in DOMAIN a /\ a[k] = h[k]
    BY <1>1, <1>2
  <1>4. HistoryLimit \in Nat /\ HistoryLimit > 0 /\ n <= HistoryLimit
    BY <1>1, AutomationAssumption
  <1>5. CASE n + 1 > HistoryLimit
    <2>1. n = HistoryLimit /\ g = SubSeq(a, 2, n + 1)
      <3>1. n = HistoryLimit /\ Len(a) - HistoryLimit + 1 = 2 /\ Len(a) = n + 1 /\ Len(a) > HistoryLimit
        BY <1>3, <1>4, <1>5
      <3>2. QED
        BY <1>0, <3>1
    <2>2. g \in Seq(Run) /\ Len(g) = n /\ DOMAIN g = 1..n /\ \A k \in 1..n : g[k] = a[k + 1]
      BY <1>3, <1>4, <2>1
    <2>3. ASSUME NEW k \in 1..n PROVE g[k] = run \/ \E m \in DOMAIN h : g[k] = h[m]
      <3>1. CASE k = n
        BY <1>3, <2>2, <3>1
      <3>2. CASE k # n
        <4>1. k + 1 \in DOMAIN h
          BY <1>1, <3>2
        <4>2. g[k] = h[k + 1]
          BY <1>3, <2>2, <4>1
        <4>3. QED
          BY <4>1, <4>2
      <3>3. QED
        BY <3>1, <3>2
    <2>4. n \in 1..n /\ g[n] = run
      BY <1>3, <1>4, <2>1, <2>2
    <2>5. QED
      BY <1>4, <2>1, <2>2, <2>3, <2>4 DEF EndsWith
  <1>6. CASE n + 1 <= HistoryLimit
    <2>1. g = a
      BY <1>0, <1>3, <1>4, <1>6
    <2>2. \A k \in DOMAIN a : k = n + 1 \/ k \in DOMAIN h
      BY <1>1, <1>3
    <2>3. QED
      BY <1>3, <1>4, <1>6, <2>1, <2>2 DEF EndsWith
  <1>7. QED
    BY <1>4, <1>5, <1>6

\* The history of a run that is recorded: its last run has no job yet.
RunRecorded(r, e) ==
    /\ e \in RoutineRecord /\ e.kind = routine[r].kind /\ e.ran = TRUE
    /\ Len(e.history) \in 1..HistoryLimit /\ e.history[Len(e.history)].job = 0
    /\ \A k \in DOMAIN e.history : e.history[k].job \in 0..Len(jobs)
    /\ \/ Len(e.history) = HistoryLimit
       \/ \A k \in DOMAIN routine[r].history : k \in DOMAIN e.history /\ e.history[k].job = routine[r].history[k].job

LEMMA RecordedRoutine ==
  ASSUME AutomationInv, NEW r \in Routines, NEW at \in Nat, NEW source, NEW e, e = Recorded(r, at, source)
  PROVE  /\ RunRecorded(r, e)
         /\ IF source = "schedule" THEN e.next = None \/ e.next > now ELSE e.next = routine[r].next
  <1>1. AutomationTypeOK /\ HistoriesBounded /\ now \in Nat /\ Len(jobs) \in Nat
    BY JobDomain DEF AutomationInv, AutomationTypeOK
  <1> DEFINE c == RunsReconciled(r)
             run == [status |-> "submitting", job |-> 0]
             g == Pushed(c.history, run)
             b == c.enabled /\ ~(source = "schedule" /\ routine[r].kind = "one-time")
             x == IF source = "schedule" THEN NextRun(r, at) ELSE c.next
  <1>2. /\ c \in RoutineRecord /\ c.kind = routine[r].kind /\ c.next = routine[r].next
        /\ SameRuns(routine[r].history, c.history)
    BY <1>1, ReconciledRuns
  <1>3. e = [c EXCEPT !.history = g, !.ran = TRUE, !.enabled = b, !.next = x]
    BY DEF Recorded
  <1>4. run \in Run
    BY DEF Run
  <1>5. /\ x \in Nat \cup {None}
        /\ IF source = "schedule" THEN x = None \/ x > now ELSE x = routine[r].next
    <2>1. NextOccurrence(now) \in Nat /\ NextOccurrence(now) > now /\ NextOccurrence(at) \in Nat /\ NextOccurrence(at) > at
      BY <1>1, NextIsLater
    <2>2. NextRun(r, at) \in Nat \cup {None} /\ (NextRun(r, at) = None \/ NextRun(r, at) > now)
      BY <1>1, <2>1 DEF NextRun
    <2>3. c.next \in Nat \cup {None}
      BY <1>2 DEF RoutineRecord
    <2>4. QED
      BY <1>2, <2>2, <2>3
  <1>6. PICK h \in Seq(Run) :
            /\ h = c.history /\ Len(h) <= HistoryLimit
            /\ \A k \in DOMAIN h : h[k].job \in 0..Len(jobs)
            /\ DOMAIN routine[r].history = DOMAIN h
            /\ \A k \in DOMAIN h : h[k].job = routine[r].history[k].job
    <2>1. routine[r] \in RoutineRecord
      BY <1>1 DEF AutomationTypeOK
    <2>2. c.history \in Seq(Run) /\ routine[r].history \in Seq(Run)
      BY <1>2, <2>1 DEF RoutineRecord
    <2>3. DOMAIN routine[r].history = DOMAIN c.history
      BY <1>2, <2>2 DEF SameRuns
    <2>4. Len(routine[r].history) <= HistoryLimit /\ \A k \in DOMAIN routine[r].history : routine[r].history[k].job \in 0..Len(jobs)
      BY <1>1 DEF HistoriesBounded
    <2> HIDE DEF c
    <2>5. QED
      BY <1>2, <2>2, <2>3, <2>4 DEF SameRuns
  <1>7. EndsWith(h, run, g)
    <2> HIDE DEF run
    <2>1. g = Pushed(h, run)
      BY <1>6
    <2> HIDE DEF g
    <2>2. h \in Seq(Run) /\ Len(h) <= HistoryLimit
      BY <1>6
    <2>3. QED
      BY <1>4, <2>1, <2>2, PushedHistory
  <1>8. run.job = 0 /\ b \in BOOLEAN
    OBVIOUS
  <1> HIDE DEF c, g, b, x, run
  <1>9. e \in RoutineRecord /\ e.kind = c.kind /\ e.ran = TRUE /\ e.history = g /\ e.next = x
    BY <1>2, <1>3, <1>5, <1>7, <1>8 DEF RoutineRecord, EndsWith
  <1>10. \A k \in DOMAIN g : g[k].job \in 0..Len(jobs)
    BY <1>1, <1>6, <1>7, <1>8 DEF EndsWith
  <1>11. QED
    BY <1>2, <1>5, <1>6, <1>7, <1>8, <1>9, <1>10 DEF RunRecorded, EndsWith

\* A run of the routine r is recorded, at its schedule or for a trigger.
LEMMA RecordingKeeps ==
  ASSUME AutomationInv, NEW r \in Routines, Exists(r), RunRecorded(r, routine'[r]),
         routine' \in [Routines -> RoutineRecord], \A p \in Routines : p # r => RoutineKept(p),
         now' = now, trigger' = trigger, pending' = pending, jobs' = jobs,
         firing.pc \in {"idle", "record"},
         firing' \in [pc : {"submit"}, routine : {r}, at : Nat, trigger : Triggers \cup {None}],
         routine'[r].next \in {None, routine[r].next} \/ routine'[r].next > now,
         IF firing'.trigger = None
         THEN /\ \A i \in Scheduled(r) : firing'.at > jobs[i].made
              /\ routine'[r].next = None \/ routine'[r].next > now
         ELSE trigger[firing'.trigger].routine \in Routines
  PROVE  AutomationInv'
  <1>1. /\ AutomationTypeOK /\ NextIsNew /\ EnabledExist /\ FiringKnows /\ HistoriesBounded /\ JobsOfRoutines
        /\ NoMissedRunStorm /\ LiveJobsAccounted
    BY DEF AutomationInv
  <1>2. /\ Len(jobs) \in Nat /\ DOMAIN jobs = 1..Len(jobs) /\ now \in Nat
        /\ \A i \in DOMAIN jobs : jobs[i] \in Job /\ jobs[i].routine \in Routines /\ jobs[i].made \in Nat /\ jobs[i].at \in Nat
    BY <1>1, JobDomain DEF AutomationTypeOK
  <1>3. AutomationTypeOK'
    <2>1. firing' \in [pc : {"idle", "record", "submit", "note"}, routine : Routines \cup {None}, at : Nat,
                        trigger : Triggers \cup {None}]
      OBVIOUS
    <2>2. QED
      BY <1>1, <2>1 DEF AutomationTypeOK, TimersKnow
  <1>4. \A p \in Routines : Scheduled(p)' = Scheduled(p)
    BY DEF Scheduled
  <1>5. \A p \in Routines : routine[p] \in RoutineRecord /\ routine'[p] \in RoutineRecord
    BY <1>1 DEF AutomationTypeOK
  <1>6. NextIsNew'
    <2>1. SUFFICES ASSUME NEW p \in Routines, NEW i \in Scheduled(p)
                   PROVE  /\ jobs[i].made <= now
                          /\ routine'[p].next # None => routine'[p].next > jobs[i].made
                          /\ routine'[p].kind = "one-time" => routine'[p].ran
      BY <1>4 DEF NextIsNew
    <2>2. /\ i \in DOMAIN jobs /\ jobs[i].made \in Nat /\ jobs[i].made <= now
          /\ routine[p].next # None => routine[p].next > jobs[i].made
          /\ routine[p].kind = "one-time" => routine[p].ran
          /\ routine[p].kind # "none"
      BY <1>1, <1>2, <2>1 DEF NextIsNew, Scheduled, JobsOfRoutines
    <2>3. routine'[p].next \in Nat \cup {None} /\ routine[p].next \in Nat \cup {None} /\ routine[p].ran \in BOOLEAN
      BY <1>5 DEF RoutineRecord
    <2>4. CASE p = r
      BY <1>2, <2>2, <2>3, <2>4 DEF RunRecorded
    <2>5. CASE p # r
      BY <1>2, <2>2, <2>3, <2>5 DEF RoutineKept
    <2>6. QED
      BY <2>4, <2>5
  <1>7. FiringKnows'
    <2>1. firing'.pc = "submit" /\ firing'.routine = r /\ firing'.trigger \in Triggers \cup {None} /\ firing'.at \in Nat
      OBVIOUS
    <2>2. routine'[r].kind \in {"one-time", "recurring"} /\ routine'[r].ran = TRUE
      BY DEF RunRecorded, Exists
    <2>3. Len(routine'[r].history) > 0 /\ routine'[r].history[Len(routine'[r].history)].job = 0
      BY DEF RunRecorded
    <2>4. QED
      BY <1>4, <2>1, <2>2, <2>3 DEF FiringKnows, Exists
  <1>8. HistoriesBounded'
    <2>1. SUFFICES ASSUME NEW p \in Routines
                   PROVE  /\ Len(routine'[p].history) <= HistoryLimit
                          /\ \A k \in DOMAIN routine'[p].history : routine'[p].history[k].job \in 0..Len(jobs)
      BY DEF HistoriesBounded
    <2>2. CASE p = r
      BY <2>2, AutomationAssumption DEF RunRecorded
    <2>3. CASE p # r
      <3>1. routine[p].history \in Seq(Run) /\ routine'[p].history \in Seq(Run)
        BY <1>5 DEF RoutineRecord
      <3>2. Len(routine[p].history) <= HistoryLimit /\ \A k \in DOMAIN routine[p].history : routine[p].history[k].job \in 0..Len(jobs)
        BY <1>1 DEF HistoriesBounded
      <3>3. CASE routine'[p].history = <<>>
        BY <3>3, AutomationAssumption
      <3>4. CASE SameRuns(routine[p].history, routine'[p].history)
        <4>1. DOMAIN routine[p].history = DOMAIN routine'[p].history
          BY <3>1, <3>4 DEF SameRuns
        <4>2. QED
          BY <3>2, <3>4, <4>1 DEF SameRuns
      <3>5. QED
        BY <2>3, <3>3, <3>4 DEF RoutineKept
    <2>4. QED
      BY <2>2, <2>3
  <1>9. JobsOfRoutines'
    <2>1. \A p \in Routines : routine[p].kind # "none" => routine'[p].kind # "none"
      BY DEF RunRecorded, RoutineKept
    <2>2. QED
      BY <1>1, <1>2, <2>1 DEF JobsOfRoutines
  <1>10. NoMissedRunStorm'
    BY <1>1 DEF NoMissedRunStorm
  <1>11. LiveJobsAccounted'
    <2>1. SUFFICES ASSUME NEW i \in DOMAIN jobs, jobs[i].status # "over", NEW p \in Routines, p = jobs[i].routine
                   PROVE  \/ routine'[p].kind = "removed" \/ Len(routine'[p].history) = HistoryLimit
                          \/ \E k \in DOMAIN routine'[p].history : routine'[p].history[k].job = i
      BY <1>2 DEF LiveJobsAccounted
    <2>2. routine[p].kind # "none" /\ firing.pc # "note"
      BY <1>1, <2>1 DEF JobsOfRoutines
    <2>3. \/ routine[p].kind = "removed" \/ Len(routine[p].history) = HistoryLimit
          \/ \E k \in DOMAIN routine[p].history : routine[p].history[k].job = i
      BY <1>1, <2>1, <2>2 DEF LiveJobsAccounted
    <2>4. routine[p].history \in Seq(Run) /\ routine'[p].history \in Seq(Run)
      BY <1>5 DEF RoutineRecord
    <2>5. CASE p = r /\ Len(routine'[r].history) # HistoryLimit
      <3>1. \A k \in DOMAIN routine[r].history :
                k \in DOMAIN routine'[r].history /\ routine'[r].history[k].job = routine[r].history[k].job
        BY <2>5 DEF RunRecorded
      <3>2. CASE Len(routine[p].history) = HistoryLimit
        <4>1. HistoryLimit \in DOMAIN routine[r].history
          BY <2>4, <2>5, <3>2, AutomationAssumption
        <4>2. HistoryLimit <= Len(routine'[r].history)
          BY <2>4, <2>5, <3>1, <4>1
        <4>3. QED
          BY <2>5, <4>2, AutomationAssumption DEF RunRecorded
      <3>3. QED
        BY <2>3, <2>5, <3>1, <3>2 DEF RunRecorded
    <2>6. CASE p # r
      <3>1. CASE SameRuns(routine[p].history, routine'[p].history) /\ routine'[p].kind = routine[p].kind
        <4>1. DOMAIN routine[p].history = DOMAIN routine'[p].history
          BY <2>4, <3>1 DEF SameRuns
        <4>2. QED
          BY <2>3, <3>1, <4>1 DEF SameRuns
      <3>2. QED
        BY <2>2, <2>6, <3>1 DEF RoutineKept
    <2>7. QED
      BY <2>5, <2>6
  <1>12. EnabledExist'
    <2>1. SUFFICES ASSUME NEW p \in Routines, routine'[p].enabled
                   PROVE  routine'[p].kind \in {"one-time", "recurring"}
      BY DEF EnabledExist, Exists
    <2>2. routine[p].enabled => routine[p].kind \in {"one-time", "recurring"}
      BY <1>1 DEF EnabledExist, Exists
    <2>3. CASE p = r
      BY <2>3 DEF RunRecorded, Exists
    <2>4. CASE p # r
      BY <2>1, <2>2, <2>4 DEF RoutineKept, Exists
    <2>5. QED
      BY <2>3, <2>4
  <1>13. QED
    BY <1>3, <1>6, <1>7, <1>8, <1>9, <1>10, <1>11, <1>12 DEF AutomationInv

LEMMA TickKeeps ==
  ASSUME AutomationInv, NEW r \in Routines, Tick(r)
  PROVE  AutomationInv'
  <1> DEFINE at == routine[r].next
             e == Recorded(r, at, "schedule")
  <1>1. /\ now' = now /\ trigger' = trigger /\ pending' = pending /\ jobs' = jobs /\ firing.pc = "idle"
        /\ at # None /\ at <= now
        /\ firing' = [pc |-> "submit", routine |-> r, at |-> at, trigger |-> None]
        /\ routine' = [AllReconciled EXCEPT ![r] = e]
        /\ routine[r].enabled
    BY DEF Tick, BetweenFirings
  <1>2. AutomationTypeOK /\ HistoriesBounded /\ NextIsNew /\ EnabledExist /\ now \in Nat
    BY DEF AutomationInv, AutomationTypeOK
  <1>3. at \in Nat
    <2>1. routine[r] \in RoutineRecord
      BY <1>2 DEF AutomationTypeOK
    <2>2. QED
      BY <1>1, <2>1 DEF RoutineRecord
  <1>4. RunRecorded(r, e) /\ (e.next = None \/ e.next > now)
    BY <1>3, RecordedRoutine
  <1> HIDE DEF e
  <1>5. \A p \in Routines : routine'[p] = IF p = r THEN e ELSE RunsReconciled(p)
    BY <1>1 DEF AllReconciled
  <1>6. \A p \in Routines :
            /\ RunsReconciled(p) \in RoutineRecord
            /\ RunsReconciled(p).kind = routine[p].kind /\ RunsReconciled(p).next = routine[p].next
            /\ RunsReconciled(p).ran = routine[p].ran /\ RunsReconciled(p).enabled = routine[p].enabled
            /\ SameRuns(routine[p].history, RunsReconciled(p).history)
    BY <1>2, ReconciledRuns
  <1>7. routine' \in [Routines -> RoutineRecord]
    BY <1>1, <1>4, <1>6 DEF AllReconciled, RunRecorded
  <1>8. \A p \in Routines : p # r => RoutineKept(p)
    BY <1>5, <1>6 DEF RoutineKept
  <1>9. \A i \in Scheduled(r) : at > jobs[i].made
    BY <1>1, <1>2 DEF NextIsNew
  <1>10. firing' \in [pc : {"submit"}, routine : {r}, at : Nat, trigger : Triggers \cup {None}] /\ firing'.at = at /\ firing'.trigger = None
    BY <1>1, <1>3
  <1>11. routine'[r] = e
    BY <1>5
  <1> HIDE DEF at
  <1>12. Exists(r)
    BY <1>1, <1>2 DEF EnabledExist
  <1>13. QED
    BY <1>1, <1>4, <1>7, <1>8, <1>9, <1>10, <1>11, <1>12, RecordingKeeps

LEMMA RecordRunKeeps ==
  ASSUME AutomationInv, RecordRun
  PROVE  AutomationInv'
  <1> DEFINE r == firing.routine
             e == Recorded(r, now, "event")
  <1>1. /\ now' = now /\ trigger' = trigger /\ pending' = pending /\ jobs' = jobs /\ firing.pc = "record"
        /\ firing' = [firing EXCEPT !.pc = "submit"]
        /\ routine' = [routine EXCEPT ![r] = e]
    BY DEF RecordRun
  <1>2. /\ AutomationTypeOK /\ now \in Nat /\ routine \in [Routines -> RoutineRecord]
        /\ firing \in [pc : {"idle", "record", "submit", "note"}, routine : Routines \cup {None}, at : Nat,
                       trigger : Triggers \cup {None}]
    BY DEF AutomationInv, AutomationTypeOK
  <1>3. r \in Routines /\ Exists(r) /\ firing.trigger # None /\ trigger[firing.trigger].routine \in Routines
    BY <1>1 DEF AutomationInv, FiringKnows
  <1>4. RunRecorded(r, e) /\ e.next = routine[r].next
    BY <1>2, <1>3, RecordedRoutine
  <1>5. /\ firing' \in [pc : {"submit"}, routine : {r}, at : Nat, trigger : Triggers \cup {None}]
        /\ firing'.trigger = firing.trigger
    BY <1>1, <1>2
  <1> HIDE DEF e
  <1>6. routine'[r] = e /\ \A p \in Routines : p # r => routine'[p] = routine[p]
    BY <1>1, <1>2, <1>3
  <1>7. routine' \in [Routines -> RoutineRecord]
    BY <1>1, <1>2, <1>4 DEF RunRecorded
  <1>8. \A p \in Routines : p # r => RoutineKept(p)
    BY <1>6 DEF RoutineKept, SameRuns
  <1> HIDE DEF r
  <1>9. QED
    BY <1>1, <1>3, <1>4, <1>5, <1>6, <1>7, <1>8, RecordingKeeps

\* The job that is submitted is the next one of its routine.
LEMMA SubmitKeeps ==
  ASSUME AutomationInv, SubmitJob
  PROVE  AutomationInv'
  <1> DEFINE r == firing.routine
             j == [routine |-> firing.routine, trigger |-> firing.trigger,
                   at |-> firing.at, made |-> now, status |-> "queued"]
  <1>1. /\ now' = now /\ routine' = routine /\ trigger' = trigger /\ pending' = pending /\ firing.pc = "submit"
        /\ firing' = [firing EXCEPT !.pc = "note"] /\ jobs' = Append(jobs, j)
    BY DEF SubmitJob
  <1>2. /\ AutomationTypeOK /\ NextIsNew /\ EnabledExist /\ FiringKnows /\ HistoriesBounded /\ JobsOfRoutines
        /\ NoMissedRunStorm /\ LiveJobsAccounted
    BY DEF AutomationInv
  <1>3. /\ now \in Nat
        /\ firing \in [pc : {"idle", "record", "submit", "note"}, routine : Routines \cup {None}, at : Nat,
                       trigger : Triggers \cup {None}]
        /\ jobs \in Seq(Job)
    BY <1>2 DEF AutomationTypeOK
  <1>4. r \in Routines /\ Exists(r)
    BY <1>1, <1>2 DEF FiringKnows
  <1>5. /\ j \in Job /\ j.routine = r /\ j.trigger = firing.trigger /\ j.at = firing.at /\ j.made = now
        /\ j.status = "queued"
    BY <1>3, <1>4 DEF Job, JobStatus
  <1> HIDE DEF j
  <1>6. PICK n \in Nat : n = Len(jobs) /\ DOMAIN jobs = 1..n
    BY <1>3
  <1>7. /\ jobs' \in Seq(Job) /\ Len(jobs') = n + 1 /\ DOMAIN jobs' = 1..(n + 1) /\ jobs'[n + 1] = j
        /\ \A i \in 1..n : jobs'[i] = jobs[i]
    BY <1>1, <1>3, <1>5, <1>6
  <1>8. /\ firing'.pc = "note" /\ firing'.routine = r /\ firing'.trigger = firing.trigger
        /\ firing' \in [pc : {"idle", "record", "submit", "note"}, routine : Routines \cup {None}, at : Nat,
                        trigger : Triggers \cup {None}]
    BY <1>1, <1>3
  <1>9. AutomationTypeOK'
    BY <1>1, <1>2, <1>7, <1>8 DEF AutomationTypeOK, TimersKnow
  <1>10. NextIsNew'
    <2>1. SUFFICES ASSUME NEW p \in Routines, NEW i \in Scheduled(p)'
                   PROVE  /\ jobs'[i].made <= now
                          /\ routine[p].next # None => routine[p].next > jobs'[i].made
                          /\ routine[p].kind = "one-time" => routine[p].ran
      BY <1>1 DEF NextIsNew
    <2>2. i \in 1..(n + 1) /\ jobs'[i].routine = p /\ jobs'[i].trigger = None
      BY <1>7, <2>1 DEF Scheduled
    <2>3. CASE i = n + 1
      BY <1>1, <1>2, <1>3, <1>5, <1>7, <2>2, <2>3 DEF FiringKnows
    <2>4. CASE i # n + 1
      <3>1. i \in Scheduled(p) /\ jobs'[i] = jobs[i]
        BY <1>6, <1>7, <2>2, <2>4 DEF Scheduled
      <3>2. QED
        BY <1>2, <3>1 DEF NextIsNew
    <2>5. QED
      BY <2>3, <2>4
  <1>11. EnabledExist'
    BY <1>1, <1>2 DEF EnabledExist, Exists
  <1>12. FiringKnows'
    <2>1. Len(routine[r].history) > 0 /\ routine[r].history[Len(routine[r].history)].job = 0
      BY <1>1, <1>2 DEF FiringKnows
    <2>2. firing.trigger # None => trigger[firing.trigger].routine \in Routines
      BY <1>1, <1>2 DEF FiringKnows
    <2>3. Len(jobs') > 0 /\ jobs'[Len(jobs')].routine = r /\ jobs'[Len(jobs')].status = "queued"
      BY <1>5, <1>7
    <2> HIDE DEF r
    <2>4. QED
      BY <1>1, <1>4, <1>8, <2>1, <2>2, <2>3 DEF FiringKnows, Exists
  <1>13. HistoriesBounded'
    <2>1. ASSUME NEW p \in Routines, NEW k \in DOMAIN routine[p].history
          PROVE  routine[p].history[k].job \in 0..(n + 1)
      <3>1. routine[p].history[k].job \in 0..n
        BY <1>2, <1>6 DEF HistoriesBounded
      <3>2. QED
        BY <3>1
    <2>2. QED
      BY <1>1, <1>2, <1>7, <2>1 DEF HistoriesBounded
  <1>14. JobsOfRoutines'
    <2>1. ASSUME NEW i \in 1..(n + 1) PROVE routine[jobs'[i].routine].kind # "none"
      <3>1. CASE i = n + 1
        BY <1>4, <1>5, <1>7, <3>1 DEF Exists
      <3>2. CASE i # n + 1
        BY <1>2, <1>6, <1>7, <3>2 DEF JobsOfRoutines
      <3>3. QED
        BY <3>1, <3>2
    <2>2. QED
      BY <1>1, <1>7, <2>1 DEF JobsOfRoutines
  <1>15. NoMissedRunStorm'
    <2>1. SUFFICES ASSUME NEW i \in 1..(n + 1), NEW k \in 1..(n + 1), i < k, jobs'[i].routine = jobs'[k].routine,
                          jobs'[i].trigger = None, jobs'[k].trigger = None
                   PROVE  jobs'[k].at > jobs'[i].made
      BY <1>7 DEF NoMissedRunStorm
    <2>2. i \in 1..n /\ jobs'[i] = jobs[i]
      BY <1>7, <2>1
    <2>3. CASE k = n + 1
      <3>1. i \in Scheduled(r)
        BY <1>5, <1>6, <1>7, <2>1, <2>2, <2>3 DEF Scheduled
      <3>2. firing.at > jobs[i].made
        BY <1>1, <1>2, <1>5, <1>7, <2>1, <2>3, <3>1 DEF FiringKnows
      <3>3. QED
        BY <1>5, <1>7, <2>2, <2>3, <3>2
    <2>4. CASE k # n + 1
      <3>1. k \in 1..n /\ jobs'[k] = jobs[k]
        BY <1>7, <2>4
      <3>2. QED
        BY <1>2, <1>6, <2>1, <2>2, <3>1 DEF NoMissedRunStorm
    <2>5. QED
      BY <2>3, <2>4
  <1>16. LiveJobsAccounted'
    <2>1. SUFFICES ASSUME NEW i \in 1..(n + 1), jobs'[i].status # "over", i # n + 1, NEW p, p = jobs'[i].routine
                   PROVE  \/ routine[p].kind = "removed" \/ Len(routine[p].history) = HistoryLimit
                          \/ \E k \in DOMAIN routine[p].history : routine[p].history[k].job = i
      BY <1>1, <1>7, <1>8 DEF LiveJobsAccounted
    <2>2. i \in DOMAIN jobs /\ jobs'[i] = jobs[i]
      BY <1>6, <1>7, <2>1
    <2>3. QED
      BY <1>1, <1>2, <2>1, <2>2 DEF LiveJobsAccounted
  <1>17. QED
    BY <1>9, <1>10, <1>11, <1>12, <1>13, <1>14, <1>15, <1>16 DEF AutomationInv

\* The run of the firing gets its job, or has failed.
LEMMA RunIsKept ==
  ASSUME AutomationInv, NEW status \in JobStatus, NEW job, NEW told, RunIs(status, job, told),
         now' = now, pending' = pending, jobs' = jobs,
         (firing.pc = "submit" /\ job = 0) \/ (firing.pc = "note" /\ job = Len(jobs))
  PROVE  AutomationInv'
  <1> DEFINE r == firing.routine
             h == routine[r].history
             run == [status |-> status, job |-> job]
             g == [h EXCEPT ![Len(h)] = run]
  <1>1. /\ routine' = [routine EXCEPT ![r].history = g]
        /\ trigger' = IF firing.trigger = None THEN trigger ELSE [trigger EXCEPT ![firing.trigger].status = told]
        /\ firing' = NoFiring
    BY DEF RunIs
  <1>2. /\ AutomationTypeOK /\ NextIsNew /\ EnabledExist /\ FiringKnows /\ HistoriesBounded /\ JobsOfRoutines
        /\ NoMissedRunStorm /\ LiveJobsAccounted
    BY DEF AutomationInv
  <1>3. /\ now \in Nat /\ routine \in [Routines -> RoutineRecord]
        /\ firing \in [pc : {"idle", "record", "submit", "note"}, routine : Routines \cup {None}, at : Nat,
                       trigger : Triggers \cup {None}]
        /\ jobs \in Seq(Job) /\ Len(jobs) \in Nat /\ DOMAIN jobs = 1..Len(jobs)
    BY <1>2 DEF AutomationTypeOK
  <1>4. r \in Routines /\ Exists(r) /\ Len(h) > 0 /\ h[Len(h)].job = 0
    BY <1>2 DEF FiringKnows
  <1>5. routine[r] \in RoutineRecord /\ h \in Seq(Run)
    BY <1>3, <1>4 DEF RoutineRecord
  <1>6. job \in Nat /\ job \in 0..Len(jobs) /\ (firing.pc = "note" => job = Len(jobs) /\ Len(jobs) > 0 /\ jobs[Len(jobs)].routine = r)
    BY <1>2, <1>3 DEF FiringKnows
  <1>7. run \in Run /\ run.job = job
    BY <1>6 DEF Run
  <1> HIDE DEF run
  <1>8. PICK n \in Nat : n = Len(h) /\ DOMAIN h = 1..n /\ n > 0
    BY <1>4, <1>5
  <1>9. g \in Seq(Run) /\ Len(g) = n /\ DOMAIN g = 1..n /\ g[n] = run /\ \A k \in 1..n : k # n => g[k] = h[k]
    BY <1>5, <1>7, <1>8
  <1>10. h[n].job = 0 /\ n <= HistoryLimit /\ \A k \in 1..n : h[k].job \in 0..Len(jobs)
    BY <1>2, <1>4, <1>8 DEF HistoriesBounded
  <1> DEFINE e == [routine[r] EXCEPT !.history = g]
  <1>11. routine' = [routine EXCEPT ![r] = e]
    BY <1>1
  <1> HIDE DEF g
  <1>12. /\ e \in RoutineRecord /\ e.kind = routine[r].kind /\ e.next = routine[r].next /\ e.ran = routine[r].ran
         /\ e.enabled = routine[r].enabled /\ e.history = g
    BY <1>5, <1>9 DEF RoutineRecord
  <1> HIDE DEF e
  <1>13. /\ routine' \in [Routines -> RoutineRecord]
         /\ routine'[r] = e /\ \A p \in Routines : p # r => routine'[p] = routine[p]
    BY <1>3, <1>4, <1>11, <1>12
  <1>14. TriggersKnow(trigger') /\ TimersKnow'
    <2>1. TriggersKnow(trigger) /\ TimersKnow /\ \A t \in Triggers : KnownTrigger(trigger[t])
      BY <1>2 DEF AutomationTypeOK, TriggersKnow
    <2>2. CASE firing.trigger = None
      BY <1>1, <2>1, <2>2 DEF TimersKnow
    <2>3. CASE firing.trigger # None
      <3>1. PICK t \in Triggers : t = firing.trigger /\ trigger[t].routine \in Routines /\ KnownTrigger(trigger[t])
        BY <1>2, <1>3, <2>1, <2>3 DEF FiringKnows
      <3> DEFINE d == [trigger[t] EXCEPT !.status = told]
      <3>2. trigger' = [trigger EXCEPT ![t] = d]
        BY <1>1, <2>3, <3>1
      <3>3. KnownTrigger(d) /\ d.routine = trigger[t].routine
        BY <3>1 DEF KnownTrigger, IsTrigger
      <3> HIDE DEF d
      <3>4. TriggersKnow(trigger')
        BY <2>1, <3>2, <3>3, TriggerChanged
      <3>5. \A u \in Triggers : trigger'[u].routine = trigger[u].routine
        BY <2>1, <3>2, <3>3 DEF TriggersKnow
      <3>6. QED
        BY <2>1, <3>4, <3>5 DEF TimersKnow
    <2>4. QED
      BY <2>2, <2>3
  <1>15. AutomationTypeOK'
    <2>1. firing' \in [pc : {"idle", "record", "submit", "note"}, routine : Routines \cup {None}, at : Nat,
                        trigger : Triggers \cup {None}]
      BY <1>1 DEF NoFiring
    <2>2. QED
      BY <1>3, <1>13, <1>14, <2>1 DEF AutomationTypeOK
  <1>16. \A p \in Routines :
            /\ routine'[p].kind = routine[p].kind /\ routine'[p].next = routine[p].next
            /\ routine'[p].ran = routine[p].ran /\ routine'[p].enabled = routine[p].enabled
    BY <1>12, <1>13
  <1>17. \A i \in DOMAIN jobs : jobs[i].routine \in Routines
    BY <1>2, JobDomain
  <1>18. NextIsNew' /\ EnabledExist' /\ JobsOfRoutines' /\ NoMissedRunStorm'
    <2>1. NextIsNew' /\ EnabledExist'
      BY <1>2, <1>16 DEF NextIsNew, EnabledExist, Exists, Scheduled
    <2>2. JobsOfRoutines' /\ NoMissedRunStorm'
      BY <1>2, <1>16, <1>17 DEF JobsOfRoutines, NoMissedRunStorm
    <2>3. QED
      BY <2>1, <2>2
  <1>19. FiringKnows'
    BY <1>1 DEF FiringKnows, NoFiring
  <1>20. HistoriesBounded'
    <2>1. SUFFICES ASSUME NEW p \in Routines
                   PROVE  /\ Len(routine'[p].history) <= HistoryLimit
                          /\ \A k \in DOMAIN routine'[p].history : routine'[p].history[k].job \in 0..Len(jobs)
      BY DEF HistoriesBounded
    <2>2. CASE p = r
      BY <1>6, <1>7, <1>9, <1>10, <1>12, <1>13, <2>2, SMTT(30)
    <2>3. CASE p # r
      BY <1>2, <1>13, <2>3 DEF HistoriesBounded
    <2>4. QED
      BY <2>2, <2>3
  <1>21. LiveJobsAccounted'
    <2>1. SUFFICES ASSUME NEW i \in DOMAIN jobs, jobs[i].status # "over", NEW p \in Routines, p = jobs[i].routine
                   PROVE  \/ routine'[p].kind = "removed" \/ Len(routine'[p].history) = HistoryLimit
                          \/ \E k \in DOMAIN routine'[p].history : routine'[p].history[k].job = i
      BY <1>17 DEF LiveJobsAccounted
    <2>2. CASE firing.pc = "note" /\ i = Len(jobs)
      <3>1. p = r /\ run.job = i
        BY <1>6, <1>7, <2>1, <2>2
      <3>2. routine'[p].history = g
        BY <1>12, <1>13, <3>1
      <3>3. n \in DOMAIN g /\ g[n].job = i
        BY <1>8, <1>9, <3>1
      <3>4. QED
        BY <3>2, <3>3
    <2>3. CASE ~(firing.pc = "note" /\ i = Len(jobs))
      <3>1. \/ routine[p].kind = "removed" \/ Len(routine[p].history) = HistoryLimit
            \/ \E k \in DOMAIN routine[p].history : routine[p].history[k].job = i
        BY <1>2, <2>1, <2>3 DEF LiveJobsAccounted
      <3>2. CASE p # r
        BY <1>13, <3>1, <3>2
      <3>3. CASE p = r
        <4>1. CASE routine[p].kind = "removed" \/ Len(routine[p].history) = HistoryLimit
          BY <1>8, <1>9, <1>12, <1>13, <3>3, <4>1
        <4>2. CASE \E k \in DOMAIN routine[p].history : routine[p].history[k].job = i
          <5>1. PICK k \in 1..n : h[k].job = i
            BY <1>8, <3>3, <4>2
          <5>2. k # n
            BY <1>3, <1>10, <2>1, <5>1
          <5>3. k \in DOMAIN routine'[p].history /\ routine'[p].history[k].job = i
            BY <1>9, <1>12, <1>13, <3>3, <5>1, <5>2
          <5>4. QED
            BY <5>3
        <4>3. QED
          BY <3>1, <4>1, <4>2
      <3>4. QED
        BY <3>2, <3>3
    <2>4. QED
      BY <2>2, <2>3
  <1>22. QED
    BY <1>15, <1>18, <1>19, <1>20, <1>21 DEF AutomationInv

LEMMA NotingKeeps ==
  ASSUME AutomationInv, NoteJob \/ SubmitFails
  PROVE  AutomationInv'
  <1>1. now' = now /\ pending' = pending /\ jobs' = jobs
    BY DEF NoteJob, SubmitFails
  <1>2. "queued" \in JobStatus /\ "over" \in JobStatus
    BY DEF JobStatus
  <1>3. CASE NoteJob
    <2>1. firing.pc = "note" /\ RunIs("queued", Len(jobs), "fired")
      BY <1>3 DEF NoteJob
    <2>2. QED
      BY <1>1, <1>2, <2>1, RunIsKept
  <1>4. CASE SubmitFails
    <2>1. firing.pc = "submit" /\ RunIs("over", 0, "error")
      BY <1>4 DEF SubmitFails
    <2>2. QED
      BY <1>1, <1>2, <2>1, RunIsKept
  <1>5. QED
    BY <1>3, <1>4

LEMMA AutomationStarts ==
  ASSUME AutomationInit
  PROVE  AutomationInv
  <1>1. /\ now = 0 /\ routine = [r \in Routines |-> NoRoutine] /\ trigger = [t \in Triggers |-> NoTrigger]
        /\ pending = [t \in Triggers |-> None] /\ jobs = <<>> /\ firing = NoFiring
    BY DEF AutomationInit
  <1>2. PICK h \in Seq(Run) :
            /\ h = <<>>
            /\ NoRoutine = [kind |-> "none", enabled |-> FALSE, at |-> None, next |-> None, ran |-> FALSE, history |-> h]
    BY NoRuns
  <1>3. NoRoutine \in RoutineRecord /\ NoRoutine.history = h /\ NoRoutine.enabled = FALSE
    BY <1>2 DEF RoutineRecord, RoutineKinds
  <1>4. \A r \in Routines : routine[r] = NoRoutine
    BY <1>1
  <1>5. KnownTrigger(NoTrigger)
    BY DEF KnownTrigger, IsTrigger, NoTrigger
  <1>6. jobs \in Seq(Job) /\ Len(jobs) = 0 /\ DOMAIN jobs = {}
    BY <1>1
  <1>7. firing.pc = "idle"
    BY <1>1 DEF NoFiring
  <1>8. AutomationTypeOK
    <2>1. firing \in [pc : {"idle", "record", "submit", "note"}, routine : Routines \cup {None}, at : Nat,
                       trigger : Triggers \cup {None}]
      BY <1>1 DEF NoFiring
    <2>2. TriggersKnow(trigger) /\ TimersKnow
      BY <1>1, <1>5 DEF TriggersKnow, TimersKnow
    <2>3. routine \in [Routines -> RoutineRecord]
      BY <1>1, <1>3
    <2>4. QED
      BY <1>1, <1>6, <2>1, <2>2, <2>3 DEF AutomationTypeOK
  <1>9. NextIsNew /\ JobsOfRoutines /\ NoMissedRunStorm /\ LiveJobsAccounted
    BY <1>6 DEF NextIsNew, Scheduled, JobsOfRoutines, NoMissedRunStorm, LiveJobsAccounted
  <1>10. EnabledExist /\ FiringKnows
    BY <1>3, <1>4, <1>7 DEF EnabledExist, FiringKnows
  <1>11. HistoriesBounded
    <2>1. Len(h) = 0 /\ DOMAIN h = {}
      BY <1>2
    <2>2. QED
      BY <1>3, <1>4, <2>1, AutomationAssumption DEF HistoriesBounded
  <1>12. QED
    BY <1>8, <1>9, <1>10, <1>11 DEF AutomationInv

LEMMA AutomationStutters ==
  ASSUME AutomationInv, UNCHANGED automationVars
  PROVE  AutomationInv'
  <1>1. /\ now' = now /\ routine' = routine /\ trigger' = trigger /\ pending' = pending
        /\ jobs' = jobs /\ firing' = firing
    BY DEF automationVars
  <1>2. AutomationTypeOK'
    BY <1>1 DEF AutomationInv, AutomationTypeOK, TimersKnow
  <1>3. /\ NextIsNew' /\ EnabledExist' /\ FiringKnows' /\ HistoriesBounded' /\ JobsOfRoutines'
        /\ NoMissedRunStorm' /\ LiveJobsAccounted'
    BY <1>1 DEF AutomationInv, NextIsNew, Scheduled, EnabledExist, Exists, FiringKnows, HistoriesBounded,
                JobsOfRoutines, NoMissedRunStorm, LiveJobsAccounted
  <1>4. QED
    BY <1>2, <1>3 DEF AutomationInv

LEMMA AutomationSteps == AutomationInv /\ [AutomationNext]_automationVars => AutomationInv'
  <1> SUFFICES ASSUME AutomationInv, [AutomationNext]_automationVars
               PROVE  AutomationInv'
    OBVIOUS
  <1>1. CASE UNCHANGED automationVars
    BY <1>1, AutomationStutters
  <1>2. ASSUME NEW r \in Routines,
               \/ CreateRoutine(r) \/ Tick(r) \/ RemoveRoutine(r)
               \/ \E enabled \in BOOLEAN : SetRoutineEnabled(r, enabled)
               \/ \E t \in Triggers : CreateTrigger(t, r)
        PROVE  AutomationInv'
    <2>1. CASE \E t \in Triggers : CreateTrigger(t, r)
      BY <2>1, TriggerOperationKeeps
    <2>2. CASE RemoveRoutine(r) \/ \E enabled \in BOOLEAN : SetRoutineEnabled(r, enabled)
      BY <2>2, RoutineOperationKeeps
    <2>3. QED
      BY <1>2, <2>1, <2>2, CreateRoutineKeeps, TickKeeps
  <1>3. ASSUME NEW t \in Triggers,
               \/ TimerFires(t) \/ RemoveTrigger(t)
               \/ \E enabled \in BOOLEAN : SetTriggerEnabled(t, enabled)
        PROVE  AutomationInv'
    <2>1. CASE RemoveTrigger(t) \/ \E enabled \in BOOLEAN : SetTriggerEnabled(t, enabled)
      BY <2>1, TriggerOperationKeeps
    <2>2. QED
      BY <1>3, <2>1, TimerKeeps
  <1>4. ASSUME NEW i \in DOMAIN jobs, NEW status \in JobStatus \ {"queued"}, JobMoves(i, status)
        PROVE  AutomationInv'
    BY <1>4, JobMoveKeeps
  <1>5. CASE RecordRun \/ SubmitJob \/ NoteJob \/ SubmitFails
    BY <1>5, RecordRunKeeps, SubmitKeeps, NotingKeeps
  <1>6. CASE ListTriggers \/ ChangeWorkspace \/ FileChanges \/ WatcherFails
    BY <1>6, ListingKeeps, WatcherKeeps
  <1>7. CASE Advance \/ ProcessStops
    BY <1>7, ClockKeeps, StopKeeps
  <1>8. QED
    BY <1>1, <1>2, <1>3, <1>4, <1>5, <1>6, <1>7 DEF AutomationNext
-----------------------------------------------------------------------------
(* The theorems of routines and triggers *)

\* Whatever routines, triggers, watchers, jobs and stops do, what a firing relies on holds:
\* the next occurrence of a schedule is new, a call in progress has recorded its run, a
\* history is trimmed, and a trigger with a timer names its routine.
THEOREM AutomationInvariant == AutomationSpec => []AutomationInv
  <1>1. AutomationInit => AutomationInv
    BY AutomationStarts
  <1>2. QED
    BY <1>1, AutomationSteps, PTL DEF AutomationSpec

\* The schedule of a routine makes a job once for an occurrence, whatever was missed and
\* whenever the process stops (tickOnce, submitRoutineRun, normalizeRoutine).
THEOREM ScheduleIsNotRepeated == AutomationSpec => []NoMissedRunStorm
  <1>1. AutomationInv => NoMissedRunStorm
    BY DEF AutomationInv
  <1>2. QED
    BY <1>1, AutomationInvariant, PTL

\* A job that can still work is in the history of its routine, unless the routine was removed or
\* its history is full, whenever the process stops between the saves of a firing (submitRoutineRun,
\* the load of jobs.json).
THEOREM LiveJobsAreAccounted == AutomationSpec => []LiveJobsAccounted
  <1>1. AutomationInv => LiveJobsAccounted
    BY DEF AutomationInv
  <1>2. QED
    BY <1>1, AutomationInvariant, PTL

-----------------------------------------------------------------------------
(* Storms: what the window of a trigger knows of its jobs *)

\* A window holds at most MaxFires firings, in the order of the clock.
Ordered(w, time) ==
    /\ w \in Seq(Nat) /\ Len(w) <= MaxFires
    /\ \A i \in 1..Len(w) : w[i] <= time
    /\ \A i, j \in 1..Len(w) : i <= j => w[i] <= w[j]

\* The firing in progress has noted itself in the window of t, and has made no job yet.
Fires(t) == firing.pc \in {"record", "submit"} /\ firing.trigger = t

\* The jobs of t since its operator last enabled it that the window still speaks of.
Counted(t) == {j \in DOMAIN jobs : jobs[j].trigger = t /\ j > since[t] /\ jobs[j].made >= now - Window}

\* Each of the jobs S of js has a place of its own in the window w, which is not its last one if that is taken.
Placed(S, js, w, taken) ==
    \E slot \in [S -> 1..Len(w)] :
        /\ \A j \in S : w[slot[j]] = js[j].made /\ (taken => slot[j] # Len(w))
        /\ \A i, j \in S : slot[i] = slot[j] => i = j

Noted(t) ==
    LET w == trigger[t].recent IN
    /\ Fires(t) => Len(w) > 0 /\ w[Len(w)] = now
    /\ Placed(Counted(t), jobs, w, Fires(t))

StormInv ==
    /\ since \in [Triggers -> Nat]
    /\ \A t \in Triggers : Ordered(trigger[t].recent, now)
    /\ \A j \in DOMAIN jobs : jobs[j].made <= now
    /\ \A t \in Triggers : Fires(t) => trigger[t].enabled
    /\ \A t \in Triggers : trigger[t].enabled => Noted(t)
    /\ StormBound

\* A set of numbers up to n that is closed upwards is an interval.
LEMMA UpperSet ==
    ASSUME NEW n \in Nat, NEW S \in SUBSET (1..n), \A i \in S, j \in 1..n : i <= j => j \in S
    PROVE  \E k \in 1..n + 1 : S = k..n
  <1>1. CASE S = {}
    <2>1. n + 1 \in 1..n + 1 /\ (n + 1)..n = {}
      OBVIOUS
    <2>2. QED
      BY <1>1, <2>1
  <1>2. CASE S # {}
    <2>1. S \subseteq Nat
      OBVIOUS
    <2>2. PICK k \in S : \A j \in S : <<j, k>> \notin OpToRel(<, Nat)
      BY <1>2, <2>1, NatLessThanWellFounded, WFMin
    <2>3. \A j \in S : k <= j
      <3>1. SUFFICES ASSUME NEW j \in S, j < k PROVE FALSE
        BY <2>1
      <3>2. j \in Nat /\ k \in Nat
        BY <2>1
      <3>3. <<j, k>> \in OpToRel(<, Nat)
        BY <3>1, <3>2 DEF OpToRel
      <3>4. QED
        BY <2>2, <3>3
    <2>4. k \in 1..n
      OBVIOUS
    <2>5. ASSUME NEW j \in Int PROVE j \in S <=> j \in k..n
      <3>1. CASE j \in S
        <4>1. j \in 1..n /\ k <= j
          BY <3>1, <2>3
        <4>2. QED
          BY <3>1, <4>1, <2>4
      <3>2. CASE j \in k..n
        <4>1. j \in 1..n /\ k <= j
          BY <3>2, <2>4
        <4>2. QED
          BY <3>2, <4>1
      <3>3. QED
        BY <3>1, <3>2
    <2>6. S = k..n
      <3>1. S \subseteq Int /\ k..n \subseteq Int
        BY <2>1, <2>4
      <3>2. QED
        BY <3>1, <2>5, Zenon
    <2>7. QED
      BY <2>4, <2>6
  <1>3. QED
    BY <1>1, <1>2

\* What is left of a window is its end, and misses no firing of the last Window.
Trimmed(w, r, k, from) ==
    /\ k \in 1..Len(w) + 1 /\ Len(r) = Len(w) - k + 1
    /\ \A i \in 1..Len(r) : i + k - 1 \in 1..Len(w) /\ r[i] = w[i + k - 1]
    /\ \A i \in 1..Len(w) : w[i] >= from => i >= k

LEMMA RecentFacts ==
    ASSUME now \in Nat, NEW t \in Triggers, Ordered(trigger[t].recent, now)
    PROVE  /\ Ordered(Recent(t), now)
           /\ \E k : Trimmed(trigger[t].recent, Recent(t), k, now - Window)
  <1> DEFINE w == trigger[t].recent
             n == Len(w)
             in == {i \in DOMAIN w : w[i] \in now - Window .. now /\ Len(w) - i < MaxFires}
             r == Recent(t)
             c == CHOOSE k \in 1..n + 1 : in = k..n
  <1>0. /\ w \in Seq(Nat) /\ n \in Nat /\ DOMAIN w = 1..n /\ n <= MaxFires
        /\ \A i \in 1..n : w[i] \in Nat /\ w[i] <= now
        /\ \A i, j \in 1..n : i <= j => w[i] <= w[j]
        /\ Window \in Nat /\ MaxFires \in Nat
    BY AutomationAssumption DEF Ordered
  <1>1. r = SubSeq(w, c, n)
    BY DEF Recent
  <1> HIDE DEF w, r
  <1>2. in \in SUBSET (1..n) /\ \A i \in 1..n : i \in in <=> w[i] >= now - Window
    BY <1>0
  <1>3. \A i \in in, j \in 1..n : i <= j => j \in in
    BY <1>0, <1>2
  <1> HIDE DEF in
  <1>4. c \in 1..n + 1 /\ in = c..n
    <2>1. \E k \in 1..n + 1 : in = k..n
      BY <1>0, <1>2, <1>3, UpperSet
    <2>2. QED
      BY <2>1
  <1> HIDE DEF c
  <1>5. Len(r) = n - c + 1 /\ r \in Seq(Nat)
    BY <1>0, <1>1, <1>4
  <1>6. \A i \in 1..Len(r) : i + c - 1 \in 1..n /\ r[i] = w[i + c - 1]
    BY <1>0, <1>1, <1>4, <1>5
  <1>7. \A i \in 1..n : w[i] >= now - Window => i >= c
    BY <1>0, <1>2, <1>4
  <1>8. Ordered(r, now)
    <2>1. Len(r) <= MaxFires
      BY <1>0, <1>4, <1>5
    <2>2. \A i \in 1..Len(r) : r[i] <= now
      BY <1>0, <1>6
    <2>3. \A i, j \in 1..Len(r) : i <= j => r[i] <= r[j]
      <3>1. SUFFICES ASSUME NEW i \in 1..Len(r), NEW j \in 1..Len(r), i <= j PROVE r[i] <= r[j]
        OBVIOUS
      <3>2. i + c - 1 <= j + c - 1
        BY <3>1, <1>4, <1>5
      <3>3. QED
        BY <3>2, <1>0, <1>6
    <2>4. QED
      BY <1>5, <2>1, <2>2, <2>3 DEF Ordered
  <1>9. QED
    BY <1>4, <1>5, <1>6, <1>7, <1>8 DEF Trimmed, w, r

\* What is trimmed speaks of the jobs it is still about.
LEMMA PlacedTrimmed ==
    ASSUME NEW S, NEW js, NEW w, NEW taken, Placed(S, js, w, taken), Len(w) \in Nat,
           NEW U, U \subseteq S, NEW gs, NEW from \in Int,
           \A j \in U : gs[j].made = js[j].made /\ gs[j].made >= from,
           NEW r, NEW k, Trimmed(w, r, k, from), Len(r) \in Nat
    PROVE  Placed(U, gs, r, FALSE)
  <1>1. PICK slot \in [S -> 1..Len(w)] :
            /\ \A j \in S : w[slot[j]] = js[j].made
            /\ \A i, j \in S : slot[i] = slot[j] => i = j
    BY DEF Placed
  <1> DEFINE new == [j \in U |-> slot[j] - k + 1]
  <1>2. k \in 1..Len(w) + 1 /\ Len(r) = Len(w) - k + 1
    BY DEF Trimmed
  <1>3. \A j \in U : j \in S /\ slot[j] \in 1..Len(w) /\ slot[j] >= k
    BY <1>1 DEF Trimmed
  <1>4. \A j \in U : new[j] = slot[j] - k + 1 /\ new[j] \in 1..Len(r) /\ new[j] + k - 1 = slot[j]
    BY <1>2, <1>3
  <1>5. new \in [U -> 1..Len(r)]
    BY <1>4
  <1> HIDE DEF new
  <1>6. \A j \in U : r[new[j]] = gs[j].made
    <2>1. SUFFICES ASSUME NEW j \in U PROVE r[new[j]] = gs[j].made
      OBVIOUS
    <2>2. r[new[j]] = w[new[j] + k - 1]
      BY <1>4 DEF Trimmed
    <2>3. w[slot[j]] = gs[j].made
      BY <1>1, <1>3
    <2>4. QED
      BY <2>2, <2>3, <1>4
  <1>7. \A i, j \in U : new[i] = new[j] => i = j
    <2>1. SUFFICES ASSUME NEW i \in U, NEW j \in U, new[i] = new[j] PROVE i = j
      OBVIOUS
    <2>2. slot[i] = slot[j]
      BY <2>1, <1>4
    <2>3. QED
      BY <2>2, <1>1, <1>3
  <1>8. QED
    BY <1>5, <1>6, <1>7 DEF Placed

LEMMA TrimmedSame ==
    ASSUME NEW w, Len(w) \in Nat, NEW from
    PROVE  Trimmed(w, w, 1, from)
  BY DEF Trimmed

\* A firing notes itself behind those that are there.
LEMMA PlacedBefore ==
    ASSUME NEW S, NEW js, NEW w \in Seq(Nat), NEW x \in Nat, Placed(S, js, w, FALSE)
    PROVE  Placed(S, js, Append(w, x), TRUE)
  <1>1. PICK slot \in [S -> 1..Len(w)] :
            /\ \A j \in S : w[slot[j]] = js[j].made
            /\ \A i, j \in S : slot[i] = slot[j] => i = j
    BY DEF Placed
  <1>2. Len(w) \in Nat /\ Len(Append(w, x)) = Len(w) + 1 /\ \A i \in 1..Len(w) : Append(w, x)[i] = w[i]
    BY AppendProperties
  <1> DEFINE v == Append(w, x)
  <1>3. Len(v) = Len(w) + 1 /\ \A i \in 1..Len(w) : v[i] = w[i]
    BY <1>2
  <1> HIDE DEF v
  <1>4. \A j \in S : slot[j] \in 1..Len(w) /\ v[slot[j]] = js[j].made /\ slot[j] # Len(v)
    BY <1>1, <1>2, <1>3
  <1>5. slot \in [S -> 1..Len(v)]
    BY <1>1, <1>2, <1>3
  <1>6. QED
    BY <1>1, <1>4, <1>5 DEF Placed, v

\* Its job takes the place it has noted, of which there are no more than the jobs need.
LEMMA PlacedJob ==
    ASSUME NEW S, NEW js, NEW w, Placed(S, js, w, TRUE), Len(w) \in Nat, Len(w) > 0,
           NEW gs, NEW n, n \notin S, \A j \in S : gs[j].made = js[j].made, gs[n].made = w[Len(w)]
    PROVE  /\ Placed(S \cup {n}, gs, w, FALSE)
           /\ Cardinality(S) <= Len(w) - 1
  <1>1. PICK slot \in [S -> 1..Len(w)] :
            /\ \A j \in S : w[slot[j]] = js[j].made /\ slot[j] # Len(w)
            /\ \A i, j \in S : slot[i] = slot[j] => i = j
    BY DEF Placed
  <1> DEFINE new == [j \in S \cup {n} |-> IF j = n THEN Len(w) ELSE slot[j]]
  <1>2. new[n] = Len(w) /\ \A j \in S : new[j] = slot[j] /\ slot[j] \in 1..Len(w)
    BY <1>1
  <1>3. new \in [S \cup {n} -> 1..Len(w)]
    BY <1>1
  <1> HIDE DEF new
  <1>4. \A j \in S \cup {n} : w[new[j]] = gs[j].made
    BY <1>1, <1>2
  <1>5. \A i, j \in S \cup {n} : new[i] = new[j] => i = j
    BY <1>1, <1>2
  <1>6. Placed(S \cup {n}, gs, w, FALSE)
    BY <1>3, <1>4, <1>5 DEF Placed
  <1> DEFINE m == Len(w) - 1
  <1>7. m \in Nat /\ slot \in [S -> 1..m]
    BY <1>1
  <1> HIDE DEF m
  <1>8. slot \in Injection(S, 1..m)
    BY <1>1, <1>7, Fun_IsInj
  <1>9. IsFiniteSet(1..m) /\ Cardinality(1..m) = m
    <2>1. 1 \in Int /\ m \in Int
      BY <1>7
    <2>2. IsFiniteSet(1..m) /\ Cardinality(1..m) = IF 1 > m THEN 0 ELSE m - 1 + 1
      BY <2>1, FS_Interval, Zenon
    <2>3. QED
      BY <2>2, <1>7
  <1>10. Cardinality(S) <= Cardinality(1..m)
    BY <1>8, <1>9, FS_Injection, Zenon
  <1>11. QED
    BY <1>6, <1>9, <1>10 DEF m

\* The jobs of t in the Window from a time on.
Burst(t, from) ==
    {j \in DOMAIN jobs : jobs[j].trigger = t /\ j > since[t] /\ jobs[j].made \in from .. from + Window}

LEMMA StormFacts ==
    ASSUME AutomationInv, StormInv
    PROVE  /\ now \in Nat /\ Window \in Nat /\ MaxFires \in Nat \ {0} /\ jobs \in Seq(Job) /\ Len(jobs) \in Nat
           /\ DOMAIN jobs = 1..Len(jobs)
           /\ \A j \in 1..Len(jobs) : jobs[j].made \in Nat /\ jobs[j].made <= now
           /\ \A t \in Triggers : since[t] \in Nat /\ trigger[t].recent \in Seq(Nat) /\ Len(trigger[t].recent) \in Nat
           /\ \A t \in Triggers, i \in DOMAIN jobs : Cardinality(Burst(t, jobs[i].made)) <= MaxFires
           /\ \A t \in Triggers : \A from : IsFiniteSet(Burst(t, from))
           /\ \A t \in Triggers : IsFiniteSet(Counted(t)) /\ Counted(t) \subseteq 1..Len(jobs)
  <1>1. AutomationTypeOK
    BY DEF AutomationInv
  <1>2. now \in Nat /\ jobs \in Seq(Job) /\ Len(jobs) \in Nat /\ DOMAIN jobs = 1..Len(jobs)
    BY <1>1 DEF AutomationTypeOK
  <1>3. \A j \in 1..Len(jobs) : jobs[j].made \in Nat /\ jobs[j].made <= now
    BY <1>1, <1>2, JobDomain DEF StormInv
  <1>4. \A t \in Triggers : since[t] \in Nat /\ trigger[t].recent \in Seq(Nat) /\ Len(trigger[t].recent) \in Nat
    BY DEF StormInv, Ordered
  <1>5. \A t \in Triggers, i \in DOMAIN jobs : Cardinality(Burst(t, jobs[i].made)) <= MaxFires
    BY DEF StormInv, StormBound, Burst
  <1>6. IsFiniteSet(1..Len(jobs))
    BY <1>2, FS_Interval
  <1>7. /\ \A t \in Triggers : \A from : Burst(t, from) \in SUBSET (1..Len(jobs))
        /\ \A t \in Triggers : Counted(t) \in SUBSET (1..Len(jobs))
    BY <1>2 DEF Burst, Counted
  <1>8. /\ \A t \in Triggers : \A from : IsFiniteSet(Burst(t, from))
        /\ \A t \in Triggers : IsFiniteSet(Counted(t))
    BY <1>6, <1>7, FS_Subset
  <1>9. QED
    BY <1>2, <1>3, <1>4, <1>5, <1>7, <1>8, AutomationAssumption

\* What a step other than a firing's beginning or its job does to the window of t: it is left, trimmed or emptied.
WindowMoves(t) ==
    LET w == trigger[t].recent
        v == trigger'[t].recent
    IN \/ (v = w \/ v = Recent(t)) /\ (trigger'[t].enabled => trigger[t].enabled) /\ since'[t] = since[t]
       \/ v = <<>> /\ ((~trigger'[t].enabled /\ since'[t] = since[t]) \/ since'[t] = Len(jobs))

Calm ==
    /\ JobsKept /\ now' \in Nat /\ now' >= now /\ since' \in [Triggers -> Nat]
    /\ \A t \in Triggers : WindowMoves(t)
    /\ \A t \in Triggers : Fires(t)' => Fires(t) /\ trigger'[t] = trigger[t] /\ since'[t] = since[t] /\ now' = now

\* Neither bursts nor counted jobs grow while no job is made.
LEMMA CalmJobs ==
    ASSUME AutomationInv, AutomationInv', StormInv, Calm
    PROVE  /\ \A j \in DOMAIN jobs' : jobs'[j].made <= now'
           /\ \A t \in Triggers : Counted(t)' \subseteq Counted(t)
           /\ \A t \in Triggers : since'[t] = Len(jobs) => Counted(t)' = {}
           /\ \A t \in Triggers : \A j \in Counted(t)' : jobs'[j].made = jobs[j].made /\ jobs'[j].made >= now - Window
           /\ StormBound'
  <1>0. /\ now \in Nat /\ now' \in Nat /\ now' >= now /\ Window \in Nat /\ Len(jobs) \in Nat
        /\ DOMAIN jobs = 1..Len(jobs)
        /\ \A j \in 1..Len(jobs) : jobs[j].made \in Nat /\ jobs[j].made <= now
        /\ \A t \in Triggers : since[t] \in Nat
    BY StormFacts DEF Calm
  <1>1. DOMAIN jobs' = 1..Len(jobs)
    <2>1. AutomationTypeOK'
      BY DEF AutomationInv
    <2>2. DOMAIN jobs' = 1..Len(jobs')
      BY <2>1 DEF AutomationTypeOK
    <2>3. QED
      BY <2>2 DEF Calm, JobsKept
  <1>2. \A j \in 1..Len(jobs) : jobs'[j].made = jobs[j].made /\ jobs'[j].trigger = jobs[j].trigger
    BY <1>0 DEF Calm, JobsKept
  <1>3. \A t \in Triggers : since'[t] \in {since[t], Len(jobs)}
    BY DEF Calm, WindowMoves
  <1>4. \A t \in Triggers, j \in 1..Len(jobs) : j > since'[t] => j > since[t] /\ since'[t] # Len(jobs)
    BY <1>0, <1>3
  <1>5. \A j \in DOMAIN jobs' : jobs'[j].made <= now'
    BY <1>0, <1>1, <1>2
  <1>6. \A t \in Triggers : Counted(t)' \subseteq Counted(t)
    <2>1. SUFFICES ASSUME NEW t \in Triggers, NEW j \in Counted(t)' PROVE j \in Counted(t)
      OBVIOUS
    <2>2. j \in 1..Len(jobs) /\ jobs'[j].trigger = t /\ j > since'[t] /\ jobs'[j].made >= now' - Window
      BY <1>1 DEF Counted
    <2>3. jobs[j].made >= now - Window
      BY <2>2, <1>0, <1>2
    <2>4. QED
      BY <2>2, <2>3, <1>0, <1>2, <1>4 DEF Counted
  <1>7. \A t \in Triggers : since'[t] = Len(jobs) => Counted(t)' = {}
    BY <1>1, <1>4 DEF Counted
  <1>8. \A t \in Triggers : \A j \in Counted(t)' : jobs'[j].made = jobs[j].made /\ jobs'[j].made >= now - Window
    BY <1>0, <1>1, <1>2 DEF Counted
  <1>9. StormBound'
    <2>1. SUFFICES ASSUME NEW t \in Triggers, NEW i \in DOMAIN jobs' PROVE Cardinality(Burst(t, jobs[i].made)') <= MaxFires
      BY <1>1, <1>2 DEF StormBound, Burst
    <2>2. i \in DOMAIN jobs /\ jobs'[i].made = jobs[i].made
      BY <1>0, <1>1, <1>2
    <2>3. Burst(t, jobs[i].made)' \in SUBSET Burst(t, jobs[i].made)
      BY <2>2, <1>0, <1>1, <1>2, <1>4 DEF Burst
    <2> DEFINE B == Burst(t, jobs[i].made)
               C == Burst(t, jobs[i].made)'
    <2>4. IsFiniteSet(B) /\ Cardinality(B) <= MaxFires /\ C \in SUBSET B
      BY <2>2, <2>3, StormFacts
    <2> HIDE DEF B, C
    <2>5. Cardinality(C) <= Cardinality(B) /\ IsFiniteSet(C)
      BY <2>4, FS_Subset
    <2>6. Cardinality(C) \in Nat /\ Cardinality(B) \in Nat /\ MaxFires \in Nat
      BY <2>4, <2>5, FS_CardinalityType, AutomationAssumption
    <2>7. Cardinality(C) <= MaxFires
      BY <2>4, <2>5, <2>6
    <2>8. QED
      BY <2>7 DEF C
  <1>10. QED
    BY <1>5, <1>6, <1>7, <1>8, <1>9

LEMMA CalmKeeps ==
    ASSUME AutomationInv, AutomationInv', StormInv, Calm
    PROVE  StormInv'
  <1>0. /\ now \in Nat /\ now' \in Nat /\ now' >= now /\ Window \in Nat /\ MaxFires \in Nat \ {0}
        /\ \A t \in Triggers : since[t] \in Nat /\ trigger[t].recent \in Seq(Nat) /\ Len(trigger[t].recent) \in Nat
    BY StormFacts DEF Calm
  <1>1. \A t \in Triggers : Ordered(trigger[t].recent, now) /\ Ordered(Recent(t), now)
    BY <1>0, RecentFacts DEF StormInv
  <1>2. \A t \in Triggers : Ordered(trigger[t].recent, now)'
    <2>1. SUFFICES ASSUME NEW t \in Triggers PROVE Ordered(trigger'[t].recent, now')
      OBVIOUS
    <2>2. CASE trigger'[t].recent = <<>>
      BY <2>2, <1>0 DEF Ordered
    <2>3. CASE trigger'[t].recent = trigger[t].recent \/ trigger'[t].recent = Recent(t)
      <3>1. PICK w : w = trigger'[t].recent
        OBVIOUS
      <3>2. Ordered(w, now)
        BY <3>1, <2>3, <1>1
      <3>3. Len(w) \in Nat /\ \A i \in 1..Len(w) : w[i] \in Nat /\ w[i] <= now'
        BY <3>2, <1>0 DEF Ordered
      <3>4. Ordered(w, now')
        BY <3>2, <3>3 DEF Ordered
      <3>5. QED
        BY <3>1, <3>4
    <2>4. QED
      BY <2>2, <2>3 DEF Calm, WindowMoves
  <1>3. ASSUME NEW t \in Triggers, Fires(t)'
        PROVE  trigger'[t].enabled
    BY <1>3 DEF Calm, StormInv
  <1>4. ASSUME NEW t \in Triggers, trigger'[t].enabled
        PROVE  Noted(t)'
    <2>1. CASE Fires(t)'
      <3>1. Fires(t) /\ trigger'[t] = trigger[t] /\ now' = now
        BY <2>1 DEF Calm
      <3>2. Noted(t)
        BY <3>1, <1>4 DEF StormInv
      <3>3. PICK slot \in [Counted(t) -> 1..Len(trigger[t].recent)] :
                /\ \A j \in Counted(t) : trigger[t].recent[slot[j]] = jobs[j].made /\ slot[j] # Len(trigger[t].recent)
                /\ \A i, j \in Counted(t) : slot[i] = slot[j] => i = j
        BY <3>1, <3>2 DEF Noted, Placed
      <3> DEFINE U == Counted(t)'
                 new == [j \in U |-> slot[j]]
                 w == trigger'[t].recent
      <3>4. U \subseteq Counted(t) /\ \A j \in U : jobs'[j].made = jobs[j].made
        BY CalmJobs
      <3> HIDE DEF U
      <3>5. new \in [U -> 1..Len(w)]
        BY <3>1, <3>3, <3>4
      <3>6. /\ \A j \in U : w[new[j]] = jobs'[j].made /\ new[j] # Len(w)
            /\ \A i, j \in U : new[i] = new[j] => i = j
        BY <3>1, <3>3, <3>4
      <3> HIDE DEF new
      <3>7. Placed(U, jobs', w, TRUE)
        BY <3>5, <3>6 DEF Placed
      <3>8. Fires(t)' = TRUE /\ Placed(U, jobs', w, Fires(t)')
        BY <3>7, <2>1 DEF Placed
      <3>9. Len(w) > 0 /\ w[Len(w)] = now'
        BY <3>1, <3>2 DEF Noted
      <3>10. QED
        BY <3>8, <3>9 DEF Noted, U
    <2>2. CASE ~Fires(t)'
      <3> DEFINE U == Counted(t)'
                 w == trigger[t].recent
                 v == trigger'[t].recent
      <3>1. SUFFICES Placed(U, jobs', v, FALSE)
        BY <2>2 DEF Noted, Placed
      <3>2. /\ U \subseteq Counted(t) /\ (since'[t] = Len(jobs) => U = {})
            /\ \A j \in U : jobs'[j].made = jobs[j].made /\ jobs'[j].made >= now - Window
        BY CalmJobs
      <3> HIDE DEF U
      <3>3. CASE v = <<>> /\ since'[t] = Len(jobs)
        <4>1. U = {}
          BY <3>2, <3>3
        <4>2. [j \in U |-> 0] \in [U -> 1..Len(v)]
          BY <4>1
        <4>3. QED
          BY <4>1, <4>2 DEF Placed
      <3>4. CASE (v = w \/ v = Recent(t)) /\ trigger[t].enabled
        <4>1. Placed(Counted(t), jobs, w, Fires(t))
          BY <3>4 DEF StormInv, Noted
        <4>2. \E k : Trimmed(w, v, k, now - Window)
          BY <3>4, <1>0, <1>1, RecentFacts, TrimmedSame
        <4>3. Len(v) \in Nat /\ Len(w) \in Nat /\ now - Window \in Int
          BY <1>0, <1>2 DEF Ordered
        <4> HIDE DEF v, w
        <4>4. QED
          BY <4>1, <4>2, <4>3, <3>2, PlacedTrimmed
      <3>5. QED
        BY <1>4, <3>3, <3>4 DEF Calm, WindowMoves
    <2>3. QED
      BY <2>1, <2>2
  <1>5. QED
    BY <1>2, <1>3, <1>4, CalmJobs DEF StormInv, Calm

\* A firing that notes itself leaves the other triggers alone.
LEMMA FireKeepsStorm ==
    ASSUME AutomationInv, StormInv, NEW t \in Triggers, TimerFires(t), Fire(t)
    PROVE  StormInv'
  <1>0. /\ now \in Nat /\ now' = now /\ jobs' = jobs /\ since' = since /\ Window \in Nat /\ MaxFires \in Nat
        /\ Len(Recent(t)) < MaxFires /\ trigger[t].enabled
        /\ firing.pc = "idle" /\ firing'.pc = "record" /\ firing'.trigger = t
    BY StormFacts DEF TimerFires, Fire, Valid, BetweenFirings
  <1>1. /\ trigger' = [trigger EXCEPT ![t].recent = Append(Recent(t), now), ![t].status = "pending", ![t].cause = "none"]
        /\ TriggersKnow(trigger)
    BY TriggersKnown DEF Fire
  <1>2. /\ trigger'[t].recent = Append(Recent(t), now) /\ trigger'[t].enabled
        /\ \A s \in Triggers : s # t => trigger'[s] = trigger[s]
    <2>1. trigger = [s \in Triggers |-> trigger[s]] /\ KnownTrigger(trigger[t])
      BY <1>1 DEF TriggersKnow
    <2>2. PICK w : w = Append(Recent(t), now)
      OBVIOUS
    <2>3. trigger'[t] = [trigger[t] EXCEPT !.recent = w, !.status = "pending", !.cause = "none"]
      BY <1>1, <2>1, <2>2
    <2>4. \A s \in Triggers : s # t => trigger'[s] = trigger[s]
      BY <1>1, <2>1
    <2>5. trigger'[t].recent = w /\ trigger'[t].enabled = trigger[t].enabled
      BY <2>1, <2>3 DEF KnownTrigger, IsTrigger
    <2>6. QED
      BY <2>2, <2>4, <2>5, <1>0
  <1> DEFINE r == Recent(t)
             w == trigger[t].recent
             v == Append(r, now)
  <1>3. Ordered(r, now) /\ \E k : Trimmed(w, r, k, now - Window)
    BY <1>0, RecentFacts DEF StormInv
  <1>4. Ordered(v, now) /\ Len(v) > 0 /\ v[Len(v)] = now /\ r \in Seq(Nat) /\ Len(r) \in Nat
    <2>1. PICK x : x = r
      OBVIOUS
    <2>2. Ordered(x, now) /\ Len(x) < MaxFires
      BY <1>0, <1>3, <2>1
    <2>3. /\ x \in Seq(Nat) /\ Len(x) \in Nat
          /\ \A i \in 1..Len(x) : x[i] \in Nat /\ x[i] <= now
          /\ \A i, j \in 1..Len(x) : i <= j => x[i] <= x[j]
      BY <2>2 DEF Ordered
    <2>4. PICK y : y = Append(x, now)
      OBVIOUS
    <2>5. /\ y \in Seq(Nat) /\ Len(y) = Len(x) + 1 /\ \A i \in 1..Len(x) : y[i] = x[i]
          /\ y[Len(x) + 1] = now
      BY <2>3, <2>4, <1>0, AppendProperties
    <2>6. \A i \in 1..Len(y) : i \in 1..Len(x) \/ i = Len(x) + 1
      BY <2>3, <2>5
    <2>7. Len(y) <= MaxFires /\ \A i \in 1..Len(y) : y[i] <= now
      <3>1. Len(y) <= MaxFires
        BY <2>2, <2>3, <2>5, <1>0
      <3>2. \A i \in 1..Len(x) : y[i] <= now
        BY <2>3, <2>5
      <3>3. y[Len(x) + 1] <= now
        BY <2>5, <1>0
      <3>4. QED
        BY <3>1, <3>2, <3>3, <2>6
    <2>8. \A i, j \in 1..Len(y) : i <= j => y[i] <= y[j]
      <3>1. SUFFICES ASSUME NEW i \in 1..Len(y), NEW j \in 1..Len(y), i <= j PROVE y[i] <= y[j]
        OBVIOUS
      <3>2. CASE j = Len(x) + 1
        BY <3>2, <2>5, <2>7
      <3>3. CASE j \in 1..Len(x)
        <4>1. i \in 1..Len(x)
          BY <3>1, <3>3, <2>3, <2>5
        <4>2. x[i] <= x[j] /\ y[i] = x[i] /\ y[j] = x[j]
          BY <4>1, <3>1, <3>3, <2>3, <2>5
        <4>3. QED
          BY <4>2
      <3>4. QED
        BY <3>2, <3>3, <2>6
    <2>9. Ordered(y, now)
      BY <2>5, <2>7, <2>8 DEF Ordered
    <2>10. QED
      BY <2>1, <2>3, <2>4, <2>5, <2>9
  <1>5. Placed(Counted(t), jobs, v, TRUE)
    <2>1. Placed(Counted(t), jobs, w, Fires(t))
      BY <1>0 DEF StormInv, Noted
    <2>2. \A j \in Counted(t) : jobs[j].made >= now - Window
      BY DEF Counted
    <2>3. Len(w) \in Nat /\ now - Window \in Int
      BY <1>0, StormFacts
    <2> HIDE DEF w, r
    <2>4. Placed(Counted(t), jobs, r, FALSE)
      BY <1>3, <1>4, <2>1, <2>2, <2>3, PlacedTrimmed
    <2>5. QED
      BY <1>0, <1>4, <2>4, PlacedBefore
  <1> HIDE DEF r, w
  <1>6. Fires(t)' /\ trigger'[t].recent = v /\ \A s \in Triggers : s # t => ~Fires(s)' /\ ~Fires(s)
    BY <1>0, <1>2 DEF Fires, r
  <1> HIDE DEF v
  <1>7. \A s \in Triggers : Counted(s)' = Counted(s)
    BY <1>0 DEF Counted
  <1>8. Noted(t)'
    <2>1. Placed(Counted(t)', jobs', trigger'[t].recent, TRUE)
      BY <1>0, <1>5, <1>6, <1>7
    <2>2. Placed(Counted(t)', jobs', trigger'[t].recent, Fires(t)')
      BY <2>1, <1>6 DEF Placed
    <2>3. QED
      BY <2>2, <1>0, <1>4, <1>6 DEF Noted
  <1>9. ASSUME NEW s \in Triggers, s # t, trigger'[s].enabled PROVE Noted(s)'
    <2>1. Noted(s) /\ trigger'[s] = trigger[s]
      BY <1>2, <1>9 DEF StormInv
    <2>2. Placed(Counted(s), jobs, trigger[s].recent, FALSE)
      BY <2>1, <1>6, <1>9 DEF Noted, Placed
    <2>3. Placed(Counted(s)', jobs', trigger'[s].recent, FALSE)
      BY <2>1, <2>2, <1>0, <1>7
    <2>4. Placed(Counted(s)', jobs', trigger'[s].recent, Fires(s)')
      BY <2>3, <1>6, <1>9 DEF Placed
    <2>5. QED
      BY <2>4, <1>6, <1>9 DEF Noted
  <1>10. \A s \in Triggers : Ordered(trigger'[s].recent, now')
    BY <1>0, <1>2, <1>4, <1>6 DEF StormInv
  <1>11. StormBound'
    BY <1>0 DEF StormInv, StormBound
  <1>12. \A s \in Triggers : (Fires(s)' => trigger'[s].enabled) /\ (trigger'[s].enabled => Noted(s)')
    BY <1>2, <1>6, <1>8, <1>9
  <1>13. QED
    BY <1>0, <1>10, <1>11, <1>12 DEF StormInv

\* The firing's job is one of the MaxFires that the window lets through.
LEMMA SubmitKeepsStorm ==
    ASSUME AutomationInv, AutomationInv', StormInv, SubmitJob
    PROVE  StormInv'
  <1> DEFINE n == Len(jobs) + 1
  <1>0. /\ now' = now /\ trigger' = trigger /\ since' = since /\ firing.pc = "submit" /\ firing'.pc = "note"
        /\ now \in Nat /\ Window \in Nat /\ MaxFires \in Nat \ {0} /\ Len(jobs) \in Nat /\ DOMAIN jobs = 1..Len(jobs)
        /\ \A j \in 1..Len(jobs) : jobs[j].made \in Nat /\ jobs[j].made <= now
        /\ \A s \in Triggers : since[s] \in Nat
    <2>1. firing \in [pc : {"idle", "record", "submit", "note"}, routine : Routines \cup {None}, at : Nat,
                      trigger : Triggers \cup {None}]
      BY DEF AutomationInv, AutomationTypeOK
    <2>2. firing'.pc = "note"
      BY <2>1 DEF SubmitJob
    <2>3. QED
      BY <2>2, StormFacts DEF SubmitJob
  <1>1. /\ n \in Nat /\ n \notin 1..Len(jobs) /\ DOMAIN jobs' = 1..n
        /\ \A j \in 1..n : j \in 1..Len(jobs) \/ j = n
        /\ \A j \in 1..Len(jobs) : j \in 1..n /\ jobs'[j] = jobs[j]
        /\ jobs'[n].trigger = firing.trigger /\ jobs'[n].made = now
    <2>1. PICK e : /\ e = [routine |-> firing.routine, trigger |-> firing.trigger,
                           at |-> firing.at, made |-> now, status |-> "queued"]
                   /\ jobs' = Append(jobs, e)
      BY DEF SubmitJob
    <2>2. jobs \in Seq(Job)
      BY StormFacts
    <2>3. /\ DOMAIN jobs' = 1..n /\ jobs'[n] = e
          /\ \A j \in 1..Len(jobs) : jobs'[j] = jobs[j]
      BY <2>1, <2>2, <1>0
    <2>4. e.trigger = firing.trigger /\ e.made = now
      BY <2>1
    <2>5. QED
      BY <2>3, <2>4, <1>0
  <1> HIDE DEF n
  <1>2. \A s \in Triggers : ~Fires(s)' /\ (s # firing.trigger => ~Fires(s)) /\ (s = firing.trigger => Fires(s))
    BY <1>0 DEF Fires
  <1>3. \A s \in Triggers : s # firing.trigger => Counted(s)' = Counted(s)
    <2>1. SUFFICES ASSUME NEW s \in Triggers, s # firing.trigger PROVE Counted(s)' = Counted(s)
      OBVIOUS
    <2>2. \A j : j \in Counted(s)' <=> j \in Counted(s)
      BY <2>1, <1>0, <1>1 DEF Counted
    <2>3. QED
      BY <2>2
  <1>4. \A s \in Triggers : Counted(s) \subseteq 1..Len(jobs) /\ Counted(s)' \subseteq Counted(s) \cup {n}
    BY <1>0, <1>1 DEF Counted
  <1>5. ASSUME NEW s \in Triggers, s = firing.trigger
        PROVE  /\ Placed(Counted(s) \cup {n}, jobs', trigger[s].recent, FALSE)
               /\ IsFiniteSet(Counted(s)) /\ Cardinality(Counted(s)) <= MaxFires - 1
    <2> DEFINE w == trigger[s].recent
               S == Counted(s)
    <2>1. Noted(s) /\ Fires(s) /\ Ordered(w, now)
      BY <1>2, <1>5 DEF StormInv
    <2>2. Len(w) > 0 /\ w[Len(w)] = now /\ Len(w) \in Nat /\ Len(w) <= MaxFires
      BY <2>1, <1>0 DEF Noted, Ordered
    <2>3. Placed(S, jobs, w, TRUE)
      BY <2>1 DEF Noted, Placed
    <2>4. n \notin S /\ (\A j \in S : jobs'[j].made = jobs[j].made) /\ jobs'[n].made = w[Len(w)]
      BY <1>1, <1>4, <2>2
    <2> HIDE DEF S, w
    <2>5. Placed(S \cup {n}, jobs', w, FALSE) /\ Cardinality(S) <= Len(w) - 1
      BY <2>2, <2>3, <2>4, PlacedJob
    <2>6. IsFiniteSet(S)
      BY StormFacts DEF S
    <2>7. Cardinality(S) <= MaxFires - 1
      BY <2>2, <2>5, <2>6, <1>0, FS_CardinalityType
    <2>8. QED
      BY <2>5, <2>6, <2>7 DEF S, w
  <1>6. ASSUME NEW s \in Triggers, trigger'[s].enabled
        PROVE  Noted(s)'
    <2> DEFINE w == trigger[s].recent
               U == Counted(s)'
    <2>1. PICK S : /\ S \in {Counted(s), Counted(s) \cup {n}} /\ U \subseteq S
                   /\ Placed(S, jobs', w, FALSE)
      <3>1. CASE s = firing.trigger
        BY <3>1, <1>4, <1>5
      <3>2. CASE s # firing.trigger
        <4>1. Placed(Counted(s), jobs, w, FALSE)
          <5>1. Noted(s)
            BY <1>0, <1>6 DEF StormInv
          <5>2. Placed(Counted(s), jobs, w, Fires(s)) /\ ~Fires(s)
            BY <5>1, <3>2, <1>2 DEF Noted
          <5>3. QED
            BY <5>2 DEF Placed
        <4>2. \A j \in Counted(s) : jobs'[j].made = jobs[j].made
          BY <1>1, <1>4
        <4>3. Placed(Counted(s), jobs', w, FALSE)
          BY <4>1, <4>2 DEF Placed
        <4>4. QED
          BY <3>2, <4>3, <1>3
      <3>3. QED
        BY <3>1, <3>2
    <2>2. Len(w) \in Nat
      BY StormFacts
    <2>3. \A j \in U : jobs'[j].made >= now - Window
      BY <1>0 DEF Counted
    <2> HIDE DEF w, U
    <2>4. Placed(U, jobs', w, FALSE)
      <3>1. now - Window \in Int
        BY <1>0
      <3>2. Trimmed(w, w, 1, now - Window)
        BY <2>2, TrimmedSame
      <3>3. QED
        BY <2>1, <2>2, <2>3, <3>1, <3>2, PlacedTrimmed
    <2>5. Placed(Counted(s)', jobs', trigger'[s].recent, Fires(s)')
      BY <2>4, <1>0, <1>2 DEF U, w, Placed
    <2>6. QED
      BY <2>5, <1>2 DEF Noted
  <1>7. ASSUME NEW s \in Triggers, NEW i \in 1..n
        PROVE  Cardinality(Burst(s, jobs[i].made)') <= MaxFires
    <2>1. PICK from \in Nat : from = jobs'[i].made /\ from <= now /\ (i \in 1..Len(jobs) => from = jobs[i].made)
      BY <1>0, <1>1
    <2> DEFINE B == Burst(s, from)
               C == {j \in DOMAIN jobs' : jobs'[j].trigger = s /\ j > since'[s] /\ jobs'[j].made \in from .. from + Window}
    <2>2. Burst(s, jobs[i].made)' = C
      BY <2>1 DEF Burst
    <2>3. C \subseteq B \cup {n} /\ B \subseteq 1..Len(jobs)
      BY <1>0, <1>1 DEF Burst
    <2>4. CASE s # firing.trigger \/ from + Window < now
      <3>1. C \subseteq B
        BY <2>1, <2>3, <2>4, <1>0, <1>1
      <3>2. \/ B = {}
            \/ Cardinality(B) <= MaxFires
        <4>1. CASE i \in 1..Len(jobs)
          BY <4>1, <2>1, <1>0, StormFacts
        <4>2. CASE i = n
          <5>1. from = now
            BY <4>2, <2>1, <1>1
          <5>2. \A j \in B : j \in DOMAIN jobs /\ jobs[j].made = from
            BY <5>1, <1>0 DEF Burst
          <5>3. QED
            BY <5>2, StormFacts
        <4>3. QED
          BY <4>1, <4>2, <1>1
      <3>3. IsFiniteSet(B)
        BY StormFacts
      <3> HIDE DEF B, C
      <3>4. CASE B = {}
        <4>1. C = {}
          BY <3>1, <3>4
        <4>2. Cardinality(C) = 0
          BY <4>1, FS_EmptySet
        <4>3. QED
          BY <4>2, <2>2, <1>0
      <3>5. CASE Cardinality(B) <= MaxFires
        <4>1. IsFiniteSet(C) /\ Cardinality(C) <= Cardinality(B)
          BY <3>1, <3>3, FS_Subset
        <4>2. Cardinality(C) \in Nat /\ Cardinality(B) \in Nat
          BY <4>1, <3>3, FS_CardinalityType
        <4>3. QED
          BY <4>1, <4>2, <3>5, <2>2, <1>0
      <3>6. QED
        BY <3>2, <3>4, <3>5
    <2>5. CASE s = firing.trigger /\ ~(from + Window < now)
      <3> DEFINE S == Counted(s)
      <3>1. C \subseteq S \cup {n}
        <4>1. B \subseteq S
          BY <2>1, <2>5, <1>0 DEF Burst, Counted
        <4>2. QED
          BY <4>1, <2>3
      <3>2. IsFiniteSet(S) /\ Cardinality(S) <= MaxFires - 1 /\ n \notin S
        BY <2>5, <1>1, <1>4, <1>5
      <3> HIDE DEF S, C
      <3>3. IsFiniteSet(S \cup {n}) /\ Cardinality(S \cup {n}) = Cardinality(S) + 1
        BY <3>2, FS_AddElement
      <3>4. IsFiniteSet(C) /\ Cardinality(C) <= Cardinality(S \cup {n})
        BY <3>1, <3>3, FS_Subset
      <3>5. Cardinality(C) \in Nat /\ Cardinality(S) \in Nat
        BY <3>2, <3>4, FS_CardinalityType
      <3>6. QED
        BY <3>2, <3>3, <3>4, <3>5, <2>2, <1>0
    <2>6. QED
      BY <2>4, <2>5
  <1>8. StormBound'
    BY <1>1, <1>7 DEF StormBound, Burst
  <1>9. \A j \in DOMAIN jobs' : jobs'[j].made <= now'
    BY <1>0, <1>1
  <1>10. QED
    BY <1>0, <1>2, <1>6, <1>8, <1>9 DEF StormInv

\* Reconciliation leaves the windows, and the triggers that are enabled.
LEMMA ReconciledWindows ==
    ASSUME NEW ts, TriggersKnow(ts), NEW due, NEW ws, NEW rs, Reconcile(ts, due, ws, rs)
    PROVE  \A t \in Triggers : trigger'[t].recent = ts[t].recent /\ trigger'[t].enabled = ts[t].enabled
  <1>1. SUFFICES ASSUME NEW t \in Triggers
                 PROVE  trigger'[t].recent = ts[t].recent /\ trigger'[t].enabled = ts[t].enabled
    OBVIOUS
  <1>2. PICK e : e = ts[t]
    OBVIOUS
  <1>3. IsTrigger(e) /\ trigger'[t] = Refreshed(e, ws, rs)
    BY <1>2 DEF TriggersKnow, KnownTrigger, Reconcile
  <1>4. Refreshed(e, ws, rs) \in {e, Blocked(e), [e EXCEPT !.status = "ready", !.cause = "none"]}
    BY DEF Refreshed
  <1>5. Blocked(e) \in {e, [e EXCEPT !.status = "blocked", !.cause = "reference"],
                        [e EXCEPT !.status = "disabled", !.cause = "none"]}
    BY DEF Blocked
  <1>6. PICK f : f = trigger'[t]
    OBVIOUS
  <1>7. f \in {e, [e EXCEPT !.status = "blocked", !.cause = "reference"],
               [e EXCEPT !.status = "disabled", !.cause = "none"], [e EXCEPT !.status = "ready", !.cause = "none"]}
    BY <1>3, <1>4, <1>5, <1>6, Zenon
  <1>8. f.recent = e.recent /\ f.enabled = e.enabled
    <2>1. CASE f = e
      BY <2>1
    <2>2. CASE f = [e EXCEPT !.status = "blocked", !.cause = "reference"]
      BY <1>3, <2>2 DEF IsTrigger
    <2>3. CASE f = [e EXCEPT !.status = "disabled", !.cause = "none"]
      BY <1>3, <2>3 DEF IsTrigger
    <2>4. CASE f = [e EXCEPT !.status = "ready", !.cause = "none"]
      BY <1>3, <2>4 DEF IsTrigger
    <2>5. QED
      BY <1>7, <2>1, <2>2, <2>3, <2>4
  <1>9. QED
    BY <1>2, <1>6, <1>8

LEMMA OrderIsCalm ==
    ASSUME AutomationInv, StormInv, JobsKept, now' \in Nat, now' >= now, since' \in [Triggers -> Nat],
           \A t \in Triggers : WindowMoves(t) /\ ~Fires(t)'
    PROVE  Calm
  BY DEF Calm

LEMMA WindowsStay ==
    ASSUME AutomationInv, StormInv, JobsKept, now' \in Nat, now' >= now, since' = since,
           \A t \in Triggers : trigger'[t].recent = trigger[t].recent /\ (trigger'[t].enabled => trigger[t].enabled),
           \A t \in Triggers : ~Fires(t)'
    PROVE  Calm
  BY OrderIsCalm DEF WindowMoves, StormInv

LEMMA StillBetween ==
    ASSUME BetweenFirings, firing' = firing
    PROVE  \A t \in Triggers : ~Fires(t)'
  BY DEF Fires, BetweenFirings

LEMMA RoutinesAreCalm ==
    ASSUME AutomationInv, StormInv, NEW r \in Routines,
           CreateRoutine(r) \/ Tick(r) \/ RemoveRoutine(r) \/ \E enabled \in BOOLEAN : SetRoutineEnabled(r, enabled)
    PROVE  Calm
  <1>0. now' = now /\ jobs' = jobs /\ since' = since /\ now \in Nat /\ now' >= now /\ JobsKept
    <2>1. now' = now /\ jobs' = jobs /\ since' = since
      BY DEF CreateRoutine, Tick, RemoveRoutine, SetRoutineEnabled
    <2>2. now \in Nat
      BY StormFacts
    <2>3. QED
      BY <2>1, <2>2, JobsUnchanged
  <1>1. CASE CreateRoutine(r)
    BY <1>0, <1>1, StillBetween, WindowsStay DEF CreateRoutine, Operates
  <1>2. CASE Tick(r)
    <2>1. \A t \in Triggers : ~Fires(t)'
      <3>1. firing'.trigger = None
        BY <1>2 DEF Tick
      <3>2. QED
        BY <3>1, AutomationAssumption DEF Fires
    <2>2. trigger' = trigger
      BY <1>2 DEF Tick
    <2>3. QED
      BY <1>0, <2>1, <2>2, WindowsStay
  <1>3. CASE RemoveRoutine(r) \/ \E enabled \in BOOLEAN : SetRoutineEnabled(r, enabled)
    <2>1. BetweenFirings /\ firing' = firing /\ \E rs : Reconcile(trigger, pending, workspace, rs)
      BY <1>3 DEF RemoveRoutine, SetRoutineEnabled, Operates
    <2>2. \A t \in Triggers : trigger'[t].recent = trigger[t].recent /\ trigger'[t].enabled = trigger[t].enabled
      BY <2>1, TriggersKnown, ReconciledWindows
    <2>3. QED
      BY <1>0, <2>1, <2>2, StillBetween, WindowsStay
  <1>4. QED
    BY <1>1, <1>2, <1>3

LEMMA WatchingIsCalm ==
    ASSUME AutomationInv, StormInv, ListTriggers \/ ChangeWorkspace \/ FileChanges \/ WatcherFails
    PROVE  Calm
  <1>0. /\ now' = now /\ jobs' = jobs /\ since' = since /\ now \in Nat /\ now' >= now /\ JobsKept
        /\ BetweenFirings /\ firing' = firing
    <2>1. now' = now /\ jobs' = jobs /\ since' = since /\ BetweenFirings /\ firing' = firing
      BY DEF ListTriggers, ChangeWorkspace, FileChanges, WatcherFails, Operates
    <2>2. now \in Nat
      BY StormFacts
    <2>3. QED
      BY <2>1, <2>2, JobsUnchanged
  <1>1. CASE ListTriggers \/ ChangeWorkspace
    <2>1. \E ws : Reconcile(trigger, pending, ws, routine)
      BY <1>1 DEF ListTriggers, ChangeWorkspace
    <2>2. \A t \in Triggers : trigger'[t].recent = trigger[t].recent /\ trigger'[t].enabled = trigger[t].enabled
      BY <2>1, TriggersKnown, ReconciledWindows
    <2>3. QED
      BY <1>0, <2>2, StillBetween, WindowsStay
  <1>2. CASE FileChanges
    <2>1. \A t \in Triggers :
              trigger'[t] \in {trigger[t], [trigger[t] EXCEPT !.status = "pending", !.cause = "none"]}
      BY <1>2 DEF FileChanges
    <2>2. \A t \in Triggers : trigger'[t].recent = trigger[t].recent /\ trigger'[t].enabled = trigger[t].enabled
      BY <2>1, TriggersKnown DEF KnownTrigger, IsTrigger
    <2>3. QED
      BY <1>0, <2>2, StillBetween, WindowsStay
  <1>3. CASE WatcherFails
    <2>1. \A t \in Triggers :
              trigger'[t] \in {trigger[t],
                               [trigger[t] EXCEPT !.enabled = FALSE, !.status = "blocked", !.cause = "watcher"]}
      BY <1>3 DEF WatcherFails
    <2>2. \A t \in Triggers : trigger'[t].recent = trigger[t].recent /\ (trigger'[t].enabled => trigger[t].enabled)
      BY <2>1, TriggersKnown DEF KnownTrigger, IsTrigger
    <2>3. QED
      BY <1>0, <2>2, StillBetween, WindowsStay
  <1>4. QED
    BY <1>1, <1>2, <1>3

LEMMA FiringsAreCalm ==
    ASSUME AutomationInv, StormInv, RecordRun \/ NoteJob \/ SubmitFails
    PROVE  Calm
  <1>0. now' = now /\ jobs' = jobs /\ since' = since /\ now \in Nat /\ now' >= now /\ JobsKept
    <2>1. now' = now /\ jobs' = jobs /\ since' = since
      BY DEF RecordRun, NoteJob, SubmitFails
    <2>2. now \in Nat
      BY StormFacts
    <2>3. QED
      BY <2>1, <2>2, JobsUnchanged
  <1>1. CASE RecordRun
    <2>1. trigger' = trigger /\ firing.pc = "record" /\ firing'.trigger = firing.trigger
      <3>1. firing \in [pc : {"idle", "record", "submit", "note"}, routine : Routines \cup {None}, at : Nat,
                        trigger : Triggers \cup {None}]
        BY DEF AutomationInv, AutomationTypeOK
      <3>2. QED
        BY <1>1, <3>1 DEF RecordRun
    <2>2. \A t \in Triggers : Fires(t)' => Fires(t)
      BY <2>1 DEF Fires
    <2>3. \A t \in Triggers : WindowMoves(t)
      BY <1>0, <2>1 DEF WindowMoves
    <2>4. QED
      BY <1>0, <2>1, <2>2, <2>3 DEF Calm, StormInv
  <1>2. CASE NoteJob \/ SubmitFails
    <2>1. firing' = NoFiring /\ \E x : trigger' \in {trigger, [trigger EXCEPT ![firing.trigger].status = x]}
      BY <1>2 DEF NoteJob, SubmitFails, RunIs
    <2>2. PICK x : trigger' \in {trigger, [trigger EXCEPT ![firing.trigger].status = x]}
      BY <2>1
    <2>3. \A t \in Triggers : trigger'[t] \in {trigger[t], [trigger[t] EXCEPT !.status = x]}
      BY <2>2, TriggersKnown DEF TriggersKnow
    <2>4. \A t \in Triggers : trigger'[t].recent = trigger[t].recent /\ trigger'[t].enabled = trigger[t].enabled
      BY <2>3, TriggersKnown DEF KnownTrigger, IsTrigger
    <2>5. \A t \in Triggers : ~Fires(t)'
      BY <2>1 DEF Fires, NoFiring
    <2>6. QED
      BY <1>0, <2>4, <2>5, WindowsStay
  <1>3. QED
    BY <1>1, <1>2

LEMMA TriggersAreCalm ==
    ASSUME AutomationInv, StormInv, NEW t \in Triggers,
           \/ RemoveTrigger(t) \/ \E enabled \in BOOLEAN : SetTriggerEnabled(t, enabled)
           \/ \E r \in Routines : CreateTrigger(t, r)
    PROVE  Calm
  <1>0. /\ now' = now /\ jobs' = jobs /\ now \in Nat /\ now' >= now /\ JobsKept
        /\ since \in [Triggers -> Nat] /\ Len(jobs) \in Nat /\ \A s \in Triggers : ~Fires(s)'
    <2>1. now' = now /\ jobs' = jobs /\ BetweenFirings /\ firing' = firing
      BY DEF RemoveTrigger, SetTriggerEnabled, CreateTrigger, Operates
    <2>2. now \in Nat /\ Len(jobs) \in Nat
      BY StormFacts
    <2>3. QED
      BY <2>1, <2>2, JobsUnchanged, StillBetween DEF StormInv
  <1>1. PICK e, due :
            /\ IsTrigger(e) /\ KnownTrigger(e) /\ Reconcile([trigger EXCEPT ![t] = e], due, workspace, routine)
            /\ \/ e.recent = <<>> /\ ~e.enabled /\ since' = since
               \/ e.recent = trigger[t].recent /\ ~e.enabled /\ since' = since
               \/ e.recent = <<>> /\ since' = [since EXCEPT ![t] = Len(jobs)]
    <2>0. IsTrigger(trigger[t]) /\ (trigger[t].enabled \/ trigger[t].status # "none" => trigger[t].routine \in Routines)
      BY TriggersKnown DEF KnownTrigger
    <2>1. CASE RemoveTrigger(t)
      <3>1. PICK e : e = [NoTrigger EXCEPT !.removed = TRUE]
        OBVIOUS
      <3>2. KnownTrigger(e) /\ IsTrigger(e) /\ e.recent = <<>> /\ ~e.enabled
        BY <3>1 DEF KnownTrigger, IsTrigger, NoTrigger
      <3>3. Reconcile([trigger EXCEPT ![t] = e], Cancelled({t}), workspace, routine) /\ since' = since
        BY <2>1, <3>1 DEF RemoveTrigger
      <3>4. QED
        BY <3>2, <3>3
    <2>2. ASSUME NEW enabled \in BOOLEAN, SetTriggerEnabled(t, enabled)
          PROVE  \E e, due :
            /\ IsTrigger(e) /\ KnownTrigger(e) /\ Reconcile([trigger EXCEPT ![t] = e], due, workspace, routine)
            /\ \/ e.recent = <<>> /\ ~e.enabled /\ since' = since
               \/ e.recent = trigger[t].recent /\ ~e.enabled /\ since' = since
               \/ e.recent = <<>> /\ since' = [since EXCEPT ![t] = Len(jobs)]
      <3>1. PICK e : e = [trigger[t] EXCEPT
                              !.enabled = enabled, !.cause = "none",
                              !.status = IF enabled THEN "ready" ELSE "disabled",
                              !.recent = IF enabled THEN <<>> ELSE @]
        OBVIOUS
      <3>2. /\ IsTrigger(e) /\ e.enabled = enabled /\ e.routine = trigger[t].routine
            /\ e.recent = IF enabled THEN <<>> ELSE trigger[t].recent
        BY <2>0, <3>1 DEF IsTrigger
      <3>3. /\ Reconcile([trigger EXCEPT ![t] = e], Cancelled({t}), workspace, routine)
            /\ since' = IF enabled THEN [since EXCEPT ![t] = Len(jobs)] ELSE since
            /\ trigger[t].status # "none"
        BY <2>2, <3>1 DEF SetTriggerEnabled
      <3>4. KnownTrigger(e)
        BY <2>0, <3>2, <3>3 DEF KnownTrigger
      <3>5. QED
        BY <3>2, <3>3, <3>4
    <2>3. ASSUME NEW r \in Routines, CreateTrigger(t, r)
          PROVE  \E e, due :
            /\ IsTrigger(e) /\ KnownTrigger(e) /\ Reconcile([trigger EXCEPT ![t] = e], due, workspace, routine)
            /\ \/ e.recent = <<>> /\ ~e.enabled /\ since' = since
               \/ e.recent = trigger[t].recent /\ ~e.enabled /\ since' = since
               \/ e.recent = <<>> /\ since' = [since EXCEPT ![t] = Len(jobs)]
      <3>1. PICK e : e = [NoTrigger EXCEPT !.status = "ready", !.routine = r, !.enabled = TRUE]
        OBVIOUS
      <3>2. KnownTrigger(e) /\ IsTrigger(e) /\ e.recent = <<>>
        BY <3>1 DEF KnownTrigger, IsTrigger, NoTrigger
      <3>3. Reconcile([trigger EXCEPT ![t] = e], pending, workspace, routine) /\ since' = [since EXCEPT ![t] = Len(jobs)]
        BY <2>3, <3>1 DEF CreateTrigger
      <3>4. QED
        BY <3>2, <3>3
    <2>4. QED
      BY <2>1, <2>2, <2>3
  <1>2. PICK ts : ts = [trigger EXCEPT ![t] = e]
    OBVIOUS
  <1>3. TriggersKnow(trigger) /\ TriggersKnow(ts)
    BY <1>1, <1>2, TriggersKnown, TriggerChanged
  <1>4. \A s \in Triggers : trigger'[s].recent = ts[s].recent /\ trigger'[s].enabled = ts[s].enabled
    BY <1>1, <1>2, <1>3, ReconciledWindows
  <1>5. ts[t] = e /\ \A s \in Triggers : s # t => ts[s] = trigger[s]
    BY <1>2, <1>3 DEF TriggersKnow
  <1>6. since' \in [Triggers -> Nat] /\ \A s \in Triggers : s # t => since'[s] = since[s]
    BY <1>0, <1>1
  <1>7. \A s \in Triggers : s # t => WindowMoves(s)
    BY <1>4, <1>5, <1>6 DEF WindowMoves
  <1>8. WindowMoves(t)
    <2>1. CASE since' = since /\ ~e.enabled
      BY <2>1, <1>1, <1>4, <1>5 DEF WindowMoves
    <2>2. CASE e.recent = <<>> /\ since' = [since EXCEPT ![t] = Len(jobs)]
      BY <2>2, <1>0, <1>4, <1>5 DEF WindowMoves
    <2>3. QED
      BY <1>1, <2>1, <2>2
  <1>9. QED
    BY <1>0, <1>6, <1>7, <1>8, OrderIsCalm

LEMMA TimersAreCalm ==
    ASSUME AutomationInv, StormInv, NEW t \in Triggers, TimerFires(t), FireBlocked(t) \/ FireStorm(t)
    PROVE  Calm
  <1>0. /\ now' = now /\ jobs' = jobs /\ since' = since /\ now \in Nat /\ now' >= now /\ JobsKept
        /\ \A s \in Triggers : ~Fires(s)'
    <2>1. now' = now /\ jobs' = jobs /\ since' = since /\ BetweenFirings /\ firing' = firing
      BY DEF TimerFires, FireBlocked, FireStorm
    <2>2. now \in Nat
      BY StormFacts
    <2>3. QED
      BY <2>1, <2>2, JobsUnchanged, StillBetween
  <1>1. PICK e :
            /\ KnownTrigger(e) /\ Reconcile([trigger EXCEPT ![t] = e], Cancelled({t}), workspace, routine)
            /\ e.recent \in {trigger[t].recent, Recent(t)} /\ (e.enabled => trigger[t].enabled)
    <2>0. IsTrigger(trigger[t]) /\ KnownTrigger(trigger[t])
      BY TriggersKnown DEF KnownTrigger
    <2>1. CASE FireBlocked(t)
      <3>1. PICK e : e = Blocked(trigger[t])
        OBVIOUS
      <3>2. KnownTrigger(e) /\ e.enabled = trigger[t].enabled /\ e.recent = trigger[t].recent
        <4>1. e \in {trigger[t], [trigger[t] EXCEPT !.status = "blocked", !.cause = "reference"],
                     [trigger[t] EXCEPT !.status = "disabled", !.cause = "none"]}
          BY <3>1 DEF Blocked
        <4>2. e.enabled = trigger[t].enabled /\ e.recent = trigger[t].recent /\ e.routine = trigger[t].routine /\ IsTrigger(e)
          BY <2>0, <4>1 DEF IsTrigger
        <4>3. trigger[t].routine \in Routines
          BY <2>0, <1>0 DEF TimerFires, AutomationInv, AutomationTypeOK, TimersKnow
        <4>4. QED
          BY <4>2, <4>3 DEF KnownTrigger
      <3>3. Reconcile([trigger EXCEPT ![t] = e], Cancelled({t}), workspace, routine)
        BY <2>1, <3>1 DEF FireBlocked
      <3>4. QED
        BY <3>2, <3>3
    <2>2. CASE FireStorm(t)
      <3>1. PICK w, e : /\ w = Recent(t)
                        /\ e = [trigger[t] EXCEPT !.recent = w, !.enabled = FALSE, !.status = "blocked", !.cause = "storm"]
        OBVIOUS
      <3>2. IsTrigger(e) /\ ~e.enabled /\ e.recent = w /\ e.routine = trigger[t].routine
        BY <2>0, <3>1 DEF IsTrigger
      <3>3. trigger[t].routine \in Routines
        BY <2>0 DEF TimerFires, AutomationInv, AutomationTypeOK, TimersKnow
      <3>4. Reconcile([trigger EXCEPT ![t] = e], Cancelled({t}), workspace, routine)
        BY <2>2, <3>1 DEF FireStorm
      <3>5. KnownTrigger(e)
        BY <3>2, <3>3 DEF KnownTrigger
      <3>6. QED
        BY <3>1, <3>2, <3>4, <3>5
    <2>3. QED
      BY <2>1, <2>2
  <1>2. PICK ts : ts = [trigger EXCEPT ![t] = e]
    OBVIOUS
  <1>3. TriggersKnow(trigger) /\ TriggersKnow(ts)
    BY <1>1, <1>2, TriggersKnown, TriggerChanged
  <1>4. \A s \in Triggers : trigger'[s].recent = ts[s].recent /\ trigger'[s].enabled = ts[s].enabled
    BY <1>1, <1>2, <1>3, ReconciledWindows
  <1>5. ts[t] = e /\ \A s \in Triggers : s # t => ts[s] = trigger[s]
    BY <1>2, <1>3 DEF TriggersKnow
  <1>6. \A s \in Triggers : WindowMoves(s)
    BY <1>0, <1>1, <1>4, <1>5 DEF WindowMoves
  <1>7. QED
    BY <1>0, <1>6, OrderIsCalm DEF StormInv

LEMMA ClockIsCalm ==
    ASSUME AutomationInv, StormInv,
           \/ Advance \/ ProcessStops
           \/ \E i \in DOMAIN jobs, status \in JobStatus \ {"queued"} : JobMoves(i, status)
    PROVE  Calm
  <1>0. now \in Nat /\ jobs \in Seq(Job) /\ DOMAIN jobs = 1..Len(jobs) /\ Len(jobs) \in Nat
    BY StormFacts
  <1>1. CASE Advance
    <2>1. /\ BetweenFirings /\ firing' = firing /\ now' = now + 1 /\ trigger' = trigger /\ since' = since /\ jobs' = jobs
      BY <1>1 DEF Advance
    <2>2. now' \in Nat /\ now' >= now
      BY <1>0, <2>1
    <2>3. QED
      BY <2>1, <2>2, StillBetween, JobsUnchanged, WindowsStay
  <1>2. ASSUME NEW i \in DOMAIN jobs, NEW status \in JobStatus \ {"queued"}, JobMoves(i, status) PROVE Calm
    <2>1. /\ BetweenFirings /\ firing' = firing /\ now' = now /\ trigger' = trigger /\ since' = since
          /\ jobs' = [jobs EXCEPT ![i].status = status] /\ jobs[i].status # "over"
      BY <1>2 DEF JobMoves
    <2>2. JobsKept
      <3>1. Len(jobs') = Len(jobs)
        BY <1>0, <2>1
      <3>2. ASSUME NEW k \in DOMAIN jobs
            PROVE  /\ jobs'[k].routine = jobs[k].routine /\ jobs'[k].trigger = jobs[k].trigger
                   /\ jobs'[k].at = jobs[k].at /\ jobs'[k].made = jobs[k].made
                   /\ jobs[k].status = "over" => jobs'[k].status = "over"
        <4>1. jobs'[k] = IF k = i THEN [jobs[k] EXCEPT !.status = status] ELSE jobs[k]
          BY <1>0, <2>1
        <4>2. jobs[k] \in Job
          BY <1>0
        <4>3. QED
          BY <2>1, <4>1, <4>2 DEF Job
      <3>3. QED
        BY <3>1, <3>2 DEF JobsKept
    <2>3. QED
      BY <1>0, <2>1, <2>2, StillBetween, WindowsStay
  <1>3. CASE ProcessStops
    <2>1. /\ now' = now /\ since' = since /\ firing' = NoFiring /\ jobs' = JobsLoaded
          /\ \E due, rs : Reconcile(TriggersLoaded, due, workspace, rs)
      BY <1>3 DEF ProcessStops
    <2>2. JobsKept
      <3>1. Len(jobs') = Len(jobs) /\ \A k \in DOMAIN jobs : jobs'[k] \in {jobs[k], [jobs[k] EXCEPT !.status = "over"]}
        <4>1. jobs' = [k \in 1..Len(jobs) |-> IF jobs[k].status = "queued" THEN [jobs[k] EXCEPT !.status = "over"] ELSE jobs[k]]
          BY <1>0, <2>1 DEF JobsLoaded
        <4>2. QED
          BY <1>0, <4>1
      <3>2. \A k \in DOMAIN jobs : jobs[k] \in Job
        BY <1>0
      <3>3. QED
        BY <3>1, <3>2 DEF JobsKept, Job
    <2>3. TriggersKnow(TriggersLoaded) /\ \A t \in Triggers :
              TriggersLoaded[t].recent = Recent(t) /\ TriggersLoaded[t].enabled = trigger[t].enabled
      <3>1. ASSUME NEW t \in Triggers
            PROVE  /\ KnownTrigger(TriggersLoaded[t])
                   /\ TriggersLoaded[t].recent = Recent(t) /\ TriggersLoaded[t].enabled = trigger[t].enabled
        <4>1. KnownTrigger(trigger[t])
          BY TriggersKnown
        <4>2. PICK w, x, e :
                  /\ w = Recent(t) /\ e = TriggersLoaded[t] /\ e = [trigger[t] EXCEPT !.recent = w, !.status = x]
                  /\ (trigger[t].status = "none" => x = "none")
          BY DEF TriggersLoaded
        <4>3. /\ IsTrigger(e) /\ e.recent = w /\ e.enabled = trigger[t].enabled /\ e.routine = trigger[t].routine
              /\ e.status = x
          BY <4>1, <4>2 DEF KnownTrigger, IsTrigger
        <4>4. KnownTrigger(e)
          BY <4>1, <4>2, <4>3 DEF KnownTrigger
        <4>5. QED
          BY <4>2, <4>3, <4>4
      <3>2. TriggersLoaded = [t \in Triggers |-> TriggersLoaded[t]]
        BY DEF TriggersLoaded
      <3>3. QED
        BY <3>1, <3>2 DEF TriggersKnow
    <2>4. \A t \in Triggers : trigger'[t].recent = Recent(t) /\ trigger'[t].enabled = trigger[t].enabled
      BY <2>1, <2>3, ReconciledWindows
    <2>5. \A t \in Triggers : WindowMoves(t)
      BY <2>1, <2>4 DEF WindowMoves
    <2>6. \A t \in Triggers : ~Fires(t)'
      BY <2>1 DEF Fires, NoFiring
    <2>7. QED
      BY <1>0, <2>1, <2>2, <2>5, <2>6, OrderIsCalm DEF StormInv
  <1>4. QED
    BY <1>1, <1>2, <1>3

LEMMA StormStarts ==
    ASSUME AutomationInit
    PROVE  StormInv
  <1>1. /\ now = 0 /\ trigger = [t \in Triggers |-> NoTrigger] /\ jobs = <<>> /\ since = [t \in Triggers |-> 0]
        /\ DOMAIN jobs = {} /\ firing.pc = "idle"
    BY DEF AutomationInit, NoFiring
  <1>2. \A t \in Triggers : trigger[t].recent = <<>> /\ trigger[t].enabled = FALSE /\ ~Fires(t)
    BY <1>1 DEF NoTrigger, Fires
  <1>3. \A t \in Triggers : Ordered(trigger[t].recent, now)
    <2>1. PICK w : w = <<>>
      OBVIOUS
    <2>2. w \in Seq(Nat) /\ Len(w) = 0
      BY <2>1
    <2>3. Len(w) <= MaxFires /\ 1..Len(w) = {}
      BY <2>2, AutomationAssumption
    <2>4. Ordered(w, now)
      BY <2>2, <2>3 DEF Ordered
    <2>5. QED
      BY <1>2, <2>1, <2>4
  <1>4. StormBound
    BY <1>1 DEF StormBound
  <1>5. since \in [Triggers -> Nat]
    BY <1>1
  <1>6. QED
    BY <1>1, <1>2, <1>3, <1>4, <1>5 DEF StormInv

LEMMA StormSteps == AutomationInv /\ AutomationInv' /\ StormInv /\ [AutomationNext]_automationVars => StormInv'
  <1> SUFFICES ASSUME AutomationInv, AutomationInv', StormInv, [AutomationNext]_automationVars
               PROVE  StormInv'
    OBVIOUS
  <1>1. CASE UNCHANGED automationVars
    <2>1. now' = now /\ trigger' = trigger /\ jobs' = jobs /\ since' = since /\ firing' = firing
      BY <1>1 DEF automationVars
    <2>2. \A t \in Triggers : WindowMoves(t) /\ (Fires(t)' => Fires(t))
      BY <2>1 DEF WindowMoves, Fires
    <2>3. now' \in Nat /\ now' >= now /\ since' \in [Triggers -> Nat]
      BY <2>1, StormFacts DEF StormInv
    <2>4. Calm
      BY <2>1, <2>2, <2>3, JobsUnchanged DEF Calm
    <2>5. QED
      BY <2>4, CalmKeeps
  <1>2. ASSUME NEW r \in Routines,
               \/ CreateRoutine(r) \/ Tick(r) \/ RemoveRoutine(r)
               \/ \E enabled \in BOOLEAN : SetRoutineEnabled(r, enabled)
               \/ \E t \in Triggers : CreateTrigger(t, r)
        PROVE  StormInv'
    BY <1>2, RoutinesAreCalm, TriggersAreCalm, CalmKeeps
  <1>3. ASSUME NEW t \in Triggers,
               \/ TimerFires(t) \/ RemoveTrigger(t)
               \/ \E enabled \in BOOLEAN : SetTriggerEnabled(t, enabled)
        PROVE  StormInv'
    <2>1. CASE TimerFires(t)
      <3>1. FireBlocked(t) \/ FireStorm(t) \/ Fire(t)
        BY <2>1 DEF TimerFires
      <3>2. QED
        BY <2>1, <3>1, TimersAreCalm, CalmKeeps, FireKeepsStorm
    <2>2. CASE ~TimerFires(t)
      BY <1>3, <2>2, TriggersAreCalm, CalmKeeps
    <2>3. QED
      BY <2>1, <2>2
  <1>4. CASE SubmitJob
    BY <1>4, SubmitKeepsStorm
  <1>5. CASE RecordRun \/ NoteJob \/ SubmitFails
    BY <1>5, FiringsAreCalm, CalmKeeps
  <1>6. CASE ListTriggers \/ ChangeWorkspace \/ FileChanges \/ WatcherFails
    BY <1>6, WatchingIsCalm, CalmKeeps
  <1>7. CASE \/ Advance \/ ProcessStops
             \/ \E i \in DOMAIN jobs, status \in JobStatus \ {"queued"} : JobMoves(i, status)
    BY <1>7, ClockIsCalm, CalmKeeps
  <1>8. QED
    BY <1>1, <1>2, <1>3, <1>4, <1>5, <1>6, <1>7 DEF AutomationNext

\* However files change, a trigger makes at most MaxFires jobs in any Window since its operator last enabled it, and
\* no stop of the process forgets the firings that it saved (processPending, trimRecentFires, the load of
\* event-triggers.json).
THEOREM StormsAreBounded == AutomationSpec => []StormBound
  <1>1. AutomationInit => StormInv
    BY StormStarts
  <1>2. StormInv => StormBound
    BY DEF StormInv
  <1>3. QED
    BY <1>1, <1>2, AutomationInvariant, StormSteps, PTL DEF AutomationSpec
=============================================================================
