--------------------------- MODULE ProviderRoster ---------------------------
(***************************************************************************)
(* The roster of the desktop's runtime (provider-roster.js): which agents  *)
(* it is built with, and which rules let them run, as functions of what    *)
(* was found of the providers' command lines, of the settings, of the      *)
(* coworkers and of the apps assigned to them.                             *)
(***************************************************************************)
EXTENDS Naturals, FiniteSets

CONSTANTS
    Coworkers   \* identities in the coworker registry

Providers == {"codex", "claude"}
Roles == {"planner", "worker", "reviewer", "synthesizer"}

\* describeProvider: unverified is what a command line that does not tell is taken for.
Found == {"missing", "signed-out", "unverified", "signed-in"}

Demo == "demo"

\* modelBinding, "any" where no provider is pinned; web is a provider without a harness.
Binding == [profile : {"automatic", "efficient", "deep", "economy"}, provider : Providers \cup {"any", "web"},
            model : {"light", "strong"}]

\* settings: overrides[r] is the provider chosen for role r.
Settings == [demo : BOOLEAN, enabled : SUBSET Providers, overrides : [Roles -> Providers \cup {"default"}]]

Usable(found, settings) == {p \in settings.enabled : found[p] \notin {"missing", "signed-out"}}

First(usable) == IF "codex" \in usable THEN "codex" ELSE IF "claude" \in usable THEN "claude" ELSE "none"

\* chooseCoworkerProvider: deep never falls back to a lighter model, economy has no provider yet.
ChooseProvider(binding, usable) ==
    CASE binding.profile = "deep" ->
            IF binding.provider = "codex" /\ binding.model = "strong" /\ "codex" \in usable THEN "codex" ELSE "none"
      [] binding.profile = "economy" -> "none"
      [] binding.profile \notin {"deep", "economy"} /\ binding.provider # "any" ->
            IF binding.provider \in usable THEN binding.provider ELSE "none"
      [] OTHER -> First(usable)

\* An agent: its identity, the provider whose harness it runs on, the governed tools it is given.
Agent(id, provider, tools) == [id |-> id, provider |-> provider, tools |-> tools]

RoleId(provider, role) == <<provider, role>>
CoworkerId(c) == <<"coworker", c>>
Supervisor == Agent(<<"node", "supervisor">>, "worker-node", {})
Dispatcher == Agent(<<"node", "dispatcher">>, "worker-node", {})

NodeAgents == {Supervisor, Dispatcher}
DemoAgents == {Agent(<<Demo, "supervisor">>, "echo", {}), Agent(<<Demo, "worker">>, "echo", {})}

\* The work is codex's and everything about it claude's, where both are usable.
DefaultProvider(role, usable) ==
    IF usable = Providers THEN (IF role = "worker" THEN "codex" ELSE "claude") ELSE First(usable)

RoleProvider(role, settings, usable) ==
    IF settings.overrides[role] \in usable THEN settings.overrides[role] ELSE DefaultProvider(role, usable)

RoleAgents(settings, usable, computer) ==
    {Agent(RoleId(RoleProvider(r, settings, usable), r), RoleProvider(r, settings, usable),
           IF computer /\ r = "worker" THEN {"computer"} ELSE {}) : r \in Roles}

\* coworkers[c]: its state and binding; tools[c]: the tools of the apps assigned to it.
Ready(coworkers, usable) ==
    {c \in Coworkers : coworkers[c].state = "active" /\ ChooseProvider(coworkers[c].binding, usable) # "none"}

CoworkerAgents(coworkers, tools, usable) ==
    {Agent(CoworkerId(c), ChooseProvider(coworkers[c].binding, usable), tools[c]) : c \in Ready(coworkers, usable)}

\* What the roster tells of a coworker without an agent: why.
NotReady(binding) ==
    [ready |-> FALSE, profile |-> binding.profile,
     provider |-> IF binding.profile \in {"deep", "economy"} THEN "none" ELSE binding.provider]

CoworkerBindings(coworkers, usable) ==
    [c \in {d \in Coworkers : coworkers[d].state = "active"} |->
        IF c \notin Ready(coworkers, usable) THEN NotReady(coworkers[c].binding)
        ELSE [ready |-> TRUE, profile |-> coworkers[c].binding.profile,
              provider |-> ChooseProvider(coworkers[c].binding, usable)]]

NoProvider(coworkers) == [c \in {d \in Coworkers : coworkers[d].state = "active"} |-> [ready |-> FALSE]]

\* buildProviderRoster.  The model a coworker is bound to goes to its harness and is no part of the roster's shape.
Roster(found, settings, coworkers, tools, computer) ==
    LET usable == Usable(found, settings)
        Of(mode, ready, agents, bindings) == [mode |-> mode, ready |-> ready, agents |-> agents, bindings |-> bindings]
    IN  IF settings.demo THEN Of(Demo, TRUE, DemoAgents, <<>>)
        ELSE IF usable = {} THEN Of("provider", FALSE, NodeAgents, NoProvider(coworkers))
        ELSE Of("provider", TRUE,
                RoleAgents(settings, usable, computer) \cup CoworkerAgents(coworkers, tools, usable) \cup {Dispatcher},
                CoworkerBindings(coworkers, usable))

Ids(roster) == {a.id : a \in roster.agents}

(***************************************************************************)
(* A policy: the generated allow rules, one for each agent, known by its   *)
(* identity; and the operator's: deny rules for an agent, and allow rules  *)
(* that an operator narrowed, whose names are those of generated rules.    *)
(* It is mixed when the generated rules are not the last ones.             *)
(***************************************************************************)
BuildPolicy(roster) == [allow |-> Ids(roster), deny |-> {}, narrowed |-> {}, mixed |-> FALSE]

\* PolicyEngine.decide for a first run of agent id: deny rules come first, and without a rule there is no run.
Allows(policy, id) == id \in policy.allow /\ id \notin policy.deny

\* dryRunPolicy expects the rule by its name, so that another one's allowing the run does not do.
DryRun(policy, id) == Allows(policy, id) /\ id \notin policy.narrowed

\* MUTANT of Reconciled: the rules of agents that have left stay.
ReconciledByAdding(policy, roster) == [policy EXCEPT !.allow = @ \cup Ids(roster), !.mixed = FALSE]

\* reconcileRosterPolicy: generated rules are replaced, the operator's kept before them.
Reconciled(policy, roster) == [policy EXCEPT !.allow = Ids(roster), !.mixed = FALSE]

\* It throws over an operator's rule that has the name of a generated one, and its dry run over one that denies an agent.
CanReconcile(policy, roster) ==
    /\ policy.narrowed \cap Ids(roster) = {}
    /\ \/ Reconciled(policy, roster) = policy
       \/ \A id \in Ids(roster) : DryRun(Reconciled(policy, roster), id)
=============================================================================
