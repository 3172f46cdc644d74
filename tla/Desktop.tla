------------------------------- MODULE Desktop -------------------------------
(***************************************************************************)
(* The desktop's runtime (runtime-host.js) and the services bound to it    *)
(* (index.js): it is built from the coworkers, the apps, the settings and  *)
(* what is found of the providers, and rebuilt when these have changed,    *)
(* one refresh after the other, by the handlers of the window.  Handlers,  *)
(* the operator's policy changes and the work of the services run between  *)
(* any two awaits of a refresh.                                            *)
(***************************************************************************)
EXTENDS ProviderRoster

CONSTANTS
    Pack,        \* coworkers that the team pack installs
    Bindings,    \* model bindings that coworkers are given
    MaxEdits,    \* bound: changes of what the runtime is built from, and of the policy
    MaxFaults    \* bound: failures and stops

ASSUME DesktopAssumption ==
    Pack \subseteq Coworkers /\ Bindings \subseteq Binding /\ MaxEdits \in Nat /\ MaxFaults \in Nat

VARIABLES
    \* what a runtime is built from
    found,       \* the command line of each provider, as a probe tells it
    settings,
    coworkers,   \* state and binding of each coworker, state "none" before it is created
    team,        \* the team of the pack: none, partial (some of its channels are missing), whole
    apps,        \* the coworkers, and the team, that the workspace app is assigned to
    computer,    \* a browser driver has been provisioned
    \* policy-versions on disk
    policy,
    \* the process
    proc,        \* down, up
    host,        \* the runtime of the RuntimeHost
    other,       \* the runtime that is being built, or closed
    bound,       \* the services use the host's runtime
    refresh,     \* the refresh at the head of refreshChain, its discovery and the result of the last one
    asked,       \* refreshes behind it
    work,        \* of the bound services: task, goal; orphan: a task that a stop left running
    \* history
    leaked,      \* a runtime could not be closed
    edited,      \* the operator has changed the policy of the host's runtime
    unasked,     \* something has changed without a refresh being asked for
    edits, faults

inputs == <<found, settings, coworkers, team, apps, computer>>
running == <<host, other, bound, leaked, edited>>
vars == <<inputs, policy, proc, running, refresh, asked, work, unasked, edits, faults>>

NoPolicy == [allow |-> {}, deny |-> {}, narrowed |-> {}, mixed |-> FALSE]
NoRoster == [mode |-> "none", ready |-> FALSE, agents |-> {}, bindings |-> <<>>]
NoRuntime == [open |-> FALSE, roster |-> NoRoster, computer |-> FALSE, policy |-> NoPolicy]
Idle(last, f) == [pc |-> "idle", found |-> f, last |-> last]

Automatic == [profile |-> "automatic", provider |-> "any", model |-> "light"]

Init ==
    /\ found \in [Providers -> {"missing", "signed-in"}]
    /\ settings = [demo |-> FALSE, enabled |-> Providers, overrides |-> [r \in Roles |-> "default"]]
    /\ \E c \in Coworkers :
        coworkers = [d \in Coworkers |-> [state |-> IF d = c THEN "active" ELSE "none", binding |-> Automatic]]
    /\ team = "none" /\ apps = {} /\ computer = FALSE
    /\ policy = NoPolicy
    /\ proc = "down" /\ host = NoRuntime /\ other = NoRuntime /\ bound = FALSE
    /\ refresh = Idle("none", found) /\ asked = 0
    /\ work = {}
    /\ leaked = FALSE /\ edited = FALSE /\ unasked = FALSE /\ edits = 0 /\ faults = 0

Fault == faults < MaxFaults /\ faults' = faults + 1

\* assignedToolsForCoworker.
Tools == [c \in Coworkers |-> IF c \in apps \/ ("team" \in apps /\ team # "none" /\ c \in Pack) THEN {"workspace"} ELSE {}]

RosterFor(discovery) == Roster(discovery, settings, coworkers, Tools, computer)

Runtime(roster, pol) == [open |-> TRUE, roster |-> roster, computer |-> computer, policy |-> pol]

(***************************************************************************)
(* Start and stop.                                                         *)
(***************************************************************************)
\* resolveProvidersFast: no command line is run, so none is known to be signed out.
Fast == [p \in Providers |-> IF found[p] = "missing" THEN "missing" ELSE "unverified"]

\* startRuntimeHost and the background refresh; where the policy cannot be reconciled the application does not start.
Boot ==
    /\ proc = "down"
    /\ LET roster == RosterFor(Fast)
           loaded == IF policy = NoPolicy THEN BuildPolicy(roster) ELSE policy
       IN  /\ CanReconcile(loaded, roster)
           /\ policy' = Reconciled(loaded, roster)
           /\ host' = Runtime(roster, policy')
           /\ asked' = IF roster.mode = Demo THEN 0 ELSE 1
    /\ proc' = "up" /\ bound' = TRUE
    /\ other' = NoRuntime /\ leaked' = FALSE /\ edited' = FALSE /\ unasked' = FALSE
    /\ refresh' = Idle("none", Fast)
    /\ UNCHANGED <<inputs, work, edits, faults>>

\* requestQuit, or a stop.  A team that was not saved is forgotten.
Stop ==
    /\ proc = "up" /\ Fault
    /\ proc' = "down" /\ host' = NoRuntime /\ other' = NoRuntime /\ bound' = FALSE
    /\ refresh' = Idle("none", found) /\ asked' = 0
    /\ work' \in IF work = {} THEN {{}} ELSE {{}, {"orphan"}}
    /\ team' = IF team = "partial" THEN "none" ELSE team
    /\ UNCHANGED <<found, settings, coworkers, apps, computer, policy, leaked, edited, unasked, edits>>

(***************************************************************************)
(* Handlers of the window, each in one continuation up to its await.       *)
(***************************************************************************)
Edit ==
    /\ edits < MaxEdits /\ edits' = edits + 1
    /\ UNCHANGED <<proc, running, refresh, work, faults>>

Handles == proc = "up" /\ Edit

\* MUTANT of Asks: a request made while a refresh runs is answered by that refresh.
AsksJoined == asked' = (IF refresh.pc = "idle" THEN asked + 1 ELSE asked) /\ UNCHANGED <<policy, unasked>>

\* The handler goes on with refreshProviders, behind the refreshes of refreshChain.
Asks == asked' = asked + 1 /\ UNCHANGED <<policy, unasked>>

AsksNothing == unasked' = TRUE /\ UNCHANGED <<policy, asked>>

\* normalizePatch: what a patch makes of a coworker, of its binding or of its state.
Patched(coworker) ==
    {[coworker EXCEPT !.binding = b] : b \in Bindings}
    \cup {[coworker EXCEPT !.state = s] : s \in {"active", "paused", "archived"}}

\* coworker:create, update, archive, restore.
ChangeCoworker ==
    /\ Handles
    /\ \E c \in Coworkers :
        \/ /\ coworkers[c].state = "none"
           /\ \E b \in Bindings : coworkers' = [coworkers EXCEPT ![c] = [state |-> "active", binding |-> b]]
        \/ /\ coworkers[c].state # "none"
           /\ \E patched \in Patched(coworkers[c]) : coworkers' = [coworkers EXCEPT ![c] = patched]
    /\ Asks
    /\ UNCHANGED <<found, settings, team, apps, computer>>

\* ensureCoworker for each member of the pack; an archived one is restored, a paused one stays paused.
WithPack ==
    [c \in Coworkers |-> IF c \in Pack /\ coworkers[c].state \in {"none", "archived"}
                         THEN [coworkers[c] EXCEPT !.state = "active"] ELSE coworkers[c]]

\* team:installPack.  A workspace or a conversation that cannot be made ends it with the coworkers in place, and without
\* a team or with a part of it.
InstallPack ==
    /\ Handles
    /\ \/ team # "none" /\ Asks /\ UNCHANGED <<coworkers, team>>
       \/ team = "none" /\ coworkers' = WithPack /\ team' = "whole" /\ Asks
       \/ team = "none" /\ coworkers' = WithPack /\ team' \in {"none", "partial"} /\ AsksNothing
    /\ UNCHANGED <<found, settings, apps, computer>>

\* connectedApps:assign.
AssignApp ==
    /\ Handles
    /\ \E x \in {c \in Coworkers : coworkers[c].state \notin {"none", "archived"}} \cup {t \in {"team"} : team # "none"} :
        apps' = IF x \in apps THEN apps \ {x} ELSE apps \cup {x}
    /\ Asks
    /\ UNCHANGED <<found, settings, coworkers, team, computer>>

\* settings:update asks for no refresh.
UpdateSettings ==
    /\ Handles
    /\ \/ settings' = [settings EXCEPT !.demo = ~@]
       \/ \E p \in Providers : settings' = [settings EXCEPT !.enabled = IF p \in @ THEN @ \ {p} ELSE @ \cup {p}]
       \/ \E p \in Providers : settings' = [settings EXCEPT !.overrides["worker"] = p]
    /\ AsksNothing
    /\ UNCHANGED <<found, coworkers, team, apps, computer>>

\* validateRoleAssignment: the agent has to be one of the roster.
AssignRole ==
    /\ Handles
    /\ \E p \in Providers, r \in Roles :
        /\ RoleId(p, r) \in Ids(host.roster)
        /\ settings' = [settings EXCEPT !.overrides[r] = p]
    /\ Asks
    /\ UNCHANGED <<found, coworkers, team, apps, computer>>

\* computer:provisionDriver, once the driver has been fetched.
ProvisionDriver ==
    /\ Handles
    /\ computer' = TRUE
    /\ Asks
    /\ UNCHANGED <<found, settings, coworkers, team, apps>>

\* provider:refresh, and provider:openLogin, which does not wait for the login.
AskRefresh == Handles /\ Asks /\ UNCHANGED inputs

\* Outside of the application a command line is installed, removed, signed in or out.
ProviderChanges ==
    /\ Edit
    /\ \E p \in Providers, s \in {"missing", "signed-out", "signed-in"} : s # found[p] /\ found' = [found EXCEPT ![p] = s]
    /\ AsksNothing
    /\ UNCHANGED <<settings, coworkers, team, apps, computer>>

\* operator:applyPolicy of the bound runtime: an agent is denied, or its rule narrowed or removed.
ApplyPolicy ==
    /\ proc = "up" /\ bound
    /\ edits < MaxEdits /\ edits' = edits + 1
    /\ \E id \in host.policy.allow, mixed \in BOOLEAN :
        policy' \in {[host.policy EXCEPT !.deny = @ \cup {id}, !.mixed = mixed],
                     [host.policy EXCEPT !.allow = @ \ {id}, !.narrowed = @ \cup {id}, !.mixed = mixed],
                     [host.policy EXCEPT !.allow = @ \ {id}]}
    /\ host' = [host EXCEPT !.policy = policy']
    /\ edited' = TRUE
    /\ UNCHANGED <<inputs, proc, other, bound, leaked, refresh, asked, work, unasked, faults>>

WorkStarts ==
    /\ proc = "up" /\ bound /\ host.roster.ready
    /\ \E w \in {"task", "goal"} : w \notin work /\ work' = work \cup {w}
    /\ UNCHANGED <<inputs, policy, proc, running, refresh, asked, unasked, edits, faults>>

WorkEnds ==
    /\ proc = "up"
    /\ \E w \in {"task", "goal"} : w \in work /\ work' = work \ {w}
    /\ UNCHANGED <<inputs, policy, proc, running, refresh, asked, unasked, edits, faults>>

(***************************************************************************)
(* refreshProvidersOnce.                                                   *)
(***************************************************************************)
Refreshing(pc) == proc = "up" /\ refresh.pc = pc /\ UNCHANGED <<inputs, proc, work, edits>>

Goto(pc) == refresh' = [refresh EXCEPT !.pc = pc]
Ends(result) == refresh' = Idle(result, refresh.found)

RefreshBegins ==
    /\ Refreshing("idle") /\ asked > 0
    /\ Goto("detect")
    /\ asked' = asked - 1
    /\ UNCHANGED <<policy, running, unasked, faults>>

\* detectProviders.
Detect ==
    /\ Refreshing("detect")
    /\ refresh' = [refresh EXCEPT !.pc = "compare", !.found = found]
    /\ unasked' = FALSE
    /\ UNCHANGED <<policy, running, asked, faults>>

SameShape == RosterFor(refresh.found) = host.roster /\ computer = host.computer

\* One continuation: the roster is made from the inputs of this moment, compared, and the goals looked at.
Compare ==
    /\ Refreshing("compare")
    /\ IF SameShape THEN Ends("unchanged") ELSE IF "goal" \in work THEN Ends("turned-away") ELSE Goto("list")
    /\ UNCHANGED <<policy, running, asked, unasked, faults>>

\* hasActiveWorkNow has answered; build reads the inputs once more.
ListTasks ==
    /\ Refreshing("list")
    /\ IF work \cap {"task", "orphan"} # {}
       THEN Ends("turned-away") /\ UNCHANGED other
       ELSE Goto("create") /\ other' = Runtime(RosterFor(refresh.found), NoPolicy)
    /\ UNCHANGED <<policy, host, bound, leaked, edited, asked, unasked, faults>>

\* createRuntime loads the active policy of the disk.
Create ==
    /\ Refreshing("create")
    /\ other' = [other EXCEPT !.policy = policy]
    /\ Goto("apply")
    /\ UNCHANGED <<policy, host, bound, leaked, edited, asked, unasked, faults>>

\* MUTANT of BuildFails: the catch clause does not close the new runtime.
BuildFailsOpen ==
    /\ \/ Refreshing("create") /\ Fault
       \/ Refreshing("apply") /\ (CanReconcile(other.policy, other.roster) => Fault) /\ (faults' = faults \/ Fault)
    /\ Ends("failed")
    /\ UNCHANGED <<policy, running, asked, unasked>>

\* The preflight, the reconciliation or its activation fails: the new runtime is closed, the host keeps the old one.
BuildFails ==
    /\ \/ Refreshing("create") /\ Fault
       \/ Refreshing("apply") /\ ~CanReconcile(other.policy, other.roster) /\ UNCHANGED faults
       \/ Refreshing("apply") /\ CanReconcile(other.policy, other.roster) /\ Fault
    /\ other' = NoRuntime
    /\ Ends("failed")
    /\ UNCHANGED <<policy, host, bound, leaked, edited, asked, unasked>>

\* The policy is reconciled, by an activation where it changes; then the host has the new runtime, the services the old.
Replace ==
    /\ Refreshing("apply") /\ CanReconcile(other.policy, other.roster)
    /\ LET reconciled == Reconciled(other.policy, other.roster)
       IN  /\ policy' = IF reconciled = other.policy THEN policy ELSE reconciled
           /\ host' = [other EXCEPT !.policy = reconciled]
    /\ other' = host
    /\ bound' = FALSE /\ edited' = FALSE
    /\ Goto("close")
    /\ UNCHANGED <<leaked, asked, unasked, faults>>

\* previous.close and, in the continuation of the handler, rebuildRuntimeBoundServices.
CloseOld ==
    /\ Refreshing("close")
    /\ other' = NoRuntime /\ bound' = TRUE
    /\ Ends("applied")
    /\ UNCHANGED <<policy, host, leaked, edited, asked, unasked, faults>>

\* A driver that cannot be closed: the services stay with the old runtime.
CloseFails ==
    /\ Refreshing("close") /\ Fault
    /\ other' = NoRuntime /\ leaked' = TRUE
    /\ Ends("failed")
    /\ UNCHANGED <<policy, host, bound, edited, asked, unasked>>

Handlers ==
    \/ ChangeCoworker \/ InstallPack \/ AssignApp \/ UpdateSettings \/ AssignRole
    \/ ProvisionDriver \/ AskRefresh \/ ProviderChanges \/ ApplyPolicy
    \/ WorkStarts \/ WorkEnds

RefreshNext ==
    \/ RefreshBegins \/ Detect \/ Compare \/ ListTasks \/ Create
    \/ BuildFails \/ Replace \/ CloseOld \/ CloseFails

Next == Boot \/ Stop \/ Handlers \/ RefreshNext

Spec == Init /\ [][Next]_vars

(***************************************************************************)
(* Properties.                                                             *)
(***************************************************************************)
\* The runtime that serves has one generated allow rule for each agent of its roster and none for an agent that has
\* left, although the policy on disk outlives the runtimes and an operator changes it between and during rebuilds; only
\* the operator's own change of a runtime's policy departs from this, until the next rebuild (reconcileRosterPolicy).
AgentsAreAllowed ==
    proc = "up" /\ ~edited => host.policy.allow = Ids(host.roster)

\* Whatever step of a rebuild fails, between refreshes the host's runtime is the only one open, and the services are
\* bound to it; unless an old runtime could not be closed (build and refreshProvidersOnce).
OneRuntimeServes ==
    proc = "up" /\ refresh.pc = "idle" /\ ~leaked => host.open /\ other = NoRuntime /\ bound

\* Requests that come in while a refresh runs are not lost to it: once the last has been answered by unchanged or
\* applied, the roster is the one that the coworkers, apps, settings and providers of this moment make, unless one
\* of them has changed without asking (refreshChain, and the second reading of the inputs by build).
ChangesReachRoster ==
    /\ proc = "up" /\ refresh.pc = "idle" /\ asked = 0
    /\ refresh.last \in {"unchanged", "applied"} /\ ~unasked
    => host.roster = RosterFor(found) /\ host.computer = computer
=============================================================================
