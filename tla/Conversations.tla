--------------------------- MODULE Conversations ---------------------------
(***************************************************************************)
(* A team's channel on the desktop: the messages of its conversation and   *)
(* their deliveries (conversation-store.js), the turns in which coworkers  *)
(* answer them (coworker-dispatcher.js), the hand-offs that carry a        *)
(* request through the team (team-service.js), and the outcomes an         *)
(* outside operator submits, cancels or takes over                         *)
(* (external-team-control.js).                                             *)
(*                                                                         *)
(* A turn <<m, c>> is the work of coworker c on message m; it creates one  *)
(* task, which is named like the turn.  The turns of one coworker form a   *)
(* promise chain; turns of different coworkers interleave at every await,  *)
(* and each of them runs the orchestrator until it is idle, so that any of *)
(* them may run any queued task.  Stores are written in the step that      *)
(* changes them and survive a restart; chains, active, pc and stop do not. *)
(***************************************************************************)
EXTENDS Integers, Sequences, SequencesExt, FiniteSets

CONSTANTS
    Roster,         \* the team's coworkerIds: intake first, reviewer last
    MaxDepth,       \* MAX_HANDOFF_DEPTH
    UserMentions,   \* bound: what the user's messages mention: a coworker, "everyone", or Nobody
    MaxMessages,    \* bound: messages of the conversation
    MaxPosts,       \* bound: messages of the user
    MaxCommands,    \* bound: stops, redirects, cancels and takeovers
    MaxFailures,    \* bound: failures, coworkers set aside, and restarts
    MaxEvents,      \* bound: all of these together
    Nobody

\* safeCoworkerIds: at least two, none twice; their identifiers are coworker_<hex>.
ASSUME RosterAssumption ==
    /\ Roster \in Seq(ToSet(Roster)) /\ Len(Roster) >= 2 /\ IsInjective(Roster)
    /\ ToSet(Roster) \cap {"user", "everyone", Nobody} = {} /\ Nobody # "everyone"
    /\ UserMentions \subseteq ToSet(Roster) \cup {"everyone", Nobody}
    /\ MaxDepth \in Nat /\ MaxMessages \in Nat
    /\ MaxPosts \in Nat /\ MaxCommands \in Nat /\ MaxFailures \in Nat /\ MaxEvents \in Nat

VARIABLES
    messages,       \* conversation.messages: sender, mentions, replyTo
    delivery,       \* message.delivery[coworker].status of each turn
    flow,           \* the team's flow: the owner's place in Order (0: complete) and the last hand-off
    pc,             \* how far a turn has come
    after,          \* the turn it still waits for
    chain,          \* chains: the last turn scheduled for a coworker
    active,         \* activeTasks: the turn whose task a stop would cancel
    taskOf,         \* the status of a turn's task
    works,          \* the task that a turn's runUntilIdle has in hand
    away,           \* coworkers that are not active
    blocked,        \* the conversation is in blockedConversations
    outcome,        \* the outside operator's outcome: its message and its status
    stop,           \* the stop in progress
    posts, commands, failures

channelVars == <<messages, delivery, flow, pc, after, chain, active, taskOf, works,
                 away, blocked, outcome, stop, posts, commands, failures>>

Coworkers == ToSet(Roster)
Turns == (1..MaxMessages) \X Coworkers
NoTurn == <<0, Nobody>>

\* The turns there can be by now.
Present == (1..Len(messages)) \X Coworkers

\* handoffOrder: intake, specialists, reviewer, and intake again for the synthesis.
Order == Append(Roster, Roster[1])

Working == {"bind", "loop", "reply", "handoff"}
Live == Working \cup {"queued"}
NoStop == [pc |-> "idle", tasks |-> {}, user |-> FALSE]

ChannelInit ==
    /\ messages = <<>>
    /\ delivery = [t \in Turns |-> "none"]
    /\ flow = [owner |-> 0, source |-> 0, target |-> Nobody]
    /\ pc = [t \in Turns |-> "idle"]
    /\ after = [t \in Turns |-> NoTurn]
    /\ chain = [c \in Coworkers |-> NoTurn]
    /\ active = [c \in Coworkers |-> NoTurn]
    /\ taskOf = [t \in Turns |-> "none"]
    /\ works = [t \in Turns |-> NoTurn]
    /\ away = {}
    /\ blocked = FALSE
    /\ outcome = [root |-> 0, status |-> "none"]
    /\ stop = NoStop
    /\ posts = 0 /\ commands = 0 /\ failures = 0

Within == posts + commands + failures < MaxEvents
Failure == Within /\ failures < MaxFailures /\ failures' = failures + 1
Operates == Within /\ commands < MaxCommands /\ commands' = commands + 1

team == <<messages, flow>>
runs == <<taskOf, works>>
chains == <<after, chain, active>>
operator == <<blocked, outcome, stop, posts, commands>>

-----------------------------------------------------------------------------
(* Messages and their recipients *)

\* currentOwnerForConversation
CurrentOwner == IF flow.owner = 0 \/ Order[flow.owner] \in away THEN Nobody ELSE Order[flow.owner]

\* recipientIds: whom a message of sender with these mentions is for; without any, the flow's owner or the lead.
Recipients(sender, mention) ==
    LET others == Coworkers \ {sender}
    IN CASE mention = "everyone" -> others
         [] mention \in Coworkers -> {mention}
         [] mention = Nobody /\ CurrentOwner \in others -> {CurrentOwner}
         [] OTHER -> {IF sender = Roster[1] THEN Roster[2] ELSE Roster[1]}

\* post: the message joins the conversation, its deliveries pending on top of the deliveries d.
Post(sender, mention, source, d) ==
    LET n == Len(messages) + 1
        new == {n} \X Recipients(sender, mention)
    IN /\ Len(messages) < MaxMessages
       /\ messages' = Append(messages, [from |-> sender, mention |-> mention, replyTo |-> source])
       /\ delivery' = [t \in Turns |->
                IF t \in new THEN "pending" ELSE d[t]]

\* MUTANT of FlowOnMessage: every message of the user starts the flow again.
FlowFromStart(mention) ==
    [owner |-> IF mention \in Coworkers THEN SelectInSeq(Order, LAMBDA c : c = mention) ELSE 1,
     source |-> 0, target |-> Nobody]

\* onMessageQueued: a user's message opens the flow, leaves its owner, or moves it to the one it mentions.
FlowOnMessage(mention) ==
    [owner |-> IF mention \in Coworkers THEN SelectInSeq(Order, LAMBDA c : c = mention)
               ELSE IF flow.owner = 0 THEN 1 ELSE flow.owner,
     source |-> 0, target |-> Nobody]

\* scheduleDelivery, for each turn of ts; each is chained behind the coworker's last.
ChainBehind(ts) ==
    /\ after' = [t \in Turns |-> IF t \in ts THEN chain[t[2]] ELSE after[t]]
    /\ pc' = [t \in Turns |-> IF t \in ts THEN "queued" ELSE pc[t]]
    /\ chain' = [c \in Coworkers |-> IF \E t \in ts : t[2] = c
                                     THEN CHOOSE t \in ts : t[2] = c ELSE chain[c]]

\* The user's message, posted and dispatched (dispatchMessage); a blocked conversation dispatches nothing.
UserPosts(mention, d) ==
    /\ Within /\ posts < MaxPosts /\ posts' = posts + 1
    /\ Post("user", mention, 0, d)
    /\ IF blocked THEN UNCHANGED <<flow, pc, after, chain>>
       ELSE /\ flow' = FlowOnMessage(mention)
            /\ ChainBehind({Len(messages) + 1} \X Recipients("user", mention))

PostUserMessage ==
    /\ \E mention \in UserMentions : UserPosts(mention, delivery)
    /\ UNCHANGED <<active, runs, away, blocked, outcome, stop, commands, failures>>

-----------------------------------------------------------------------------
(* A coworker's turn: executeDelivery *)

Marked(t, s) == [delivery EXCEPT ![t] = s]

\* MUTANT of Over: the chain is dropped although another turn is queued behind this one.
OverDropsChain(t) ==
    /\ pc' = [pc EXCEPT ![t] = "over"]
    /\ chain' = [chain EXCEPT ![t[2]] = NoTurn]
    /\ active' = [active EXCEPT ![t[2]] = NoTurn]
    /\ after' = [u \in Turns |-> IF after[u] = t THEN NoTurn ELSE after[u]]

\* The turn's promise settles: its chain is dropped unless another turn is queued behind it, and that one may begin.
Over(t) ==
    /\ pc' = [pc EXCEPT ![t] = "over"]
    /\ chain' = [chain EXCEPT ![t[2]] = IF @ = t THEN NoTurn ELSE @]
    /\ active' = [active EXCEPT ![t[2]] = NoTurn]
    /\ after' = [u \in Turns |-> IF after[u] = t THEN NoTurn ELSE after[u]]

\* The turn ends with its delivery marked s.
Ends(t, s) == Over(t) /\ delivery' = Marked(t, s)

IsTurn(t) == after[t] = NoTurn

\* MUTANT of Refuse: the turn of a coworker set aside ends without a word.
RefuseSilently(t) ==
    /\ pc[t] = "queued" /\ IsTurn(t)
    /\ IF blocked \/ t[2] \in away \/ delivery[t] # "pending" THEN Ends(t, delivery[t]) /\ UNCHANGED failures
       ELSE Ends(t, "failed") /\ Failure
    /\ UNCHANGED <<team, runs, away, operator>>

\* Nothing is begun: the conversation is blocked, or the message has been dealt with; an inactive coworker, a missing
\* provider binding or workspace, or a plan that is not written, is an error.
Refuse(t) ==
    /\ pc[t] = "queued" /\ IsTurn(t)
    /\ \/ blocked /\ Ends(t, delivery[t]) /\ UNCHANGED failures
       \/ ~blocked /\ t[2] \in away /\ Ends(t, "failed") /\ UNCHANGED failures
       \/ ~blocked /\ t[2] \notin away /\ delivery[t] # "pending" /\ Ends(t, delivery[t]) /\ UNCHANGED failures
       \/ ~blocked /\ t[2] \notin away /\ delivery[t] = "pending" /\ Ends(t, "failed") /\ Failure
    /\ UNCHANGED <<team, runs, away, operator>>

\* The plan is created and the turn's task delegated.  A stop that arrives between the two finds what it finds here.
Delegate(t) ==
    /\ pc[t] = "queued" /\ IsTurn(t)
    /\ ~blocked /\ t[2] \notin away /\ delivery[t] = "pending"
    /\ taskOf' = [taskOf EXCEPT ![t] = "queued"]
    /\ pc' = [pc EXCEPT ![t] = "bind"]
    /\ UNCHANGED <<team, delivery, chains, works, away, operator, failures>>

\* bindContinuation has answered: the task becomes the coworker's active one.
Bind(t) ==
    /\ pc[t] = "bind" /\ ~blocked
    /\ active' = [active EXCEPT ![t[2]] = t]
    /\ pc' = [pc EXCEPT ![t] = "loop"]
    /\ UNCHANGED <<team, delivery, after, chain, runs, away, operator, failures>>

\* bindContinuation fails, or the conversation was blocked meanwhile.
BindEnds(t) ==
    /\ pc[t] = "bind"
    /\ \/ Ends(t, "failed") /\ Failure /\ UNCHANGED taskOf
       \/ /\ blocked /\ taskOf' = [taskOf EXCEPT ![t] = IF @ \in {"queued", "running"} THEN "cancelled" ELSE @]
          /\ Ends(t, delivery[t]) /\ UNCHANGED failures
    /\ UNCHANGED <<team, works, away, operator>>

\* A queued task whose coworker's agent is free: its maxConcurrency is one.
Takeable(t) == taskOf[t] = "queued" /\ \A u \in Present : u[2] = t[2] => taskOf[u] # "running"

\* runNext: the turn's loop takes a task, its own or another's.
Take(t) ==
    /\ pc[t] = "loop" /\ works[t] = NoTurn
    /\ \E u \in Present :
        /\ Takeable(u)
        /\ taskOf' = [taskOf EXCEPT ![u] = "running"]
        /\ works' = [works EXCEPT ![t] = u]
    /\ UNCHANGED <<team, delivery, pc, chains, away, operator, failures>>

\* MUTANT of HarnessReturns: a harness whose task is cancelled does not come back.
HarnessIgnoresCancel(t) ==
    /\ works[t] # NoTurn /\ taskOf[works[t]] = "running"
    /\ works' = [works EXCEPT ![t] = NoTurn]
    /\ \/ taskOf' = [taskOf EXCEPT ![works[t]] = "completed"] /\ UNCHANGED failures
       \/ taskOf' = [taskOf EXCEPT ![works[t]] = "failed"] /\ Failure
    /\ UNCHANGED <<team, delivery, pc, chains, away, operator>>

\* The harness returns with the task that the turn's loop has in hand.
HarnessReturns(t) ==
    /\ works[t] # NoTurn
    /\ works' = [works EXCEPT ![t] = NoTurn]
    /\ IF taskOf[works[t]] # "running" THEN UNCHANGED <<taskOf, failures>>
       ELSE \/ taskOf' = [taskOf EXCEPT ![works[t]] = "completed"] /\ UNCHANGED failures
            \/ taskOf' = [taskOf EXCEPT ![works[t]] = "failed"] /\ Failure
    /\ UNCHANGED <<team, delivery, pc, chains, away, operator>>

LoopIsIdle(t) == pc[t] = "loop" /\ works[t] = NoTurn /\ \A u \in Present : ~Takeable(u)

\* The turn reads its task and goes on to answer.
ReadResult(t) ==
    /\ LoopIsIdle(t) /\ taskOf[t] = "completed" /\ ~blocked
    /\ pc' = [pc EXCEPT ![t] = "reply"]
    /\ UNCHANGED <<team, delivery, chains, runs, away, operator, failures>>

\* The task is not completed, the conversation was blocked, or (a failure) there is no text.
ReadFails(t) ==
    /\ LoopIsIdle(t)
    /\ IF taskOf[t] # "completed" \/ blocked THEN UNCHANGED failures ELSE Failure
    /\ Ends(t, "failed")
    /\ UNCHANGED <<team, runs, away, operator>>

-----------------------------------------------------------------------------
(* The reply and the hand-off *)

\* handoffDepth: how many coworkers' messages lead from a user's message to message m.
Depth(m) ==
    LET d[i \in 0..Len(messages)] == IF i = 0 \/ messages[i].from = "user" THEN 0 ELSE d[messages[i].replyTo] + 1
    IN d[m]

\* The target the reply asks for (a hand-off manifest) or the specialist router selects, if any.
Requests(t) == {Nobody} \cup IF Depth(t[1]) < MaxDepth THEN Coworkers \ {t[2]} ELSE {}

Repeated(t) == flow.source = t[1]
Owns(t) == flow.owner # 0 /\ Order[flow.owner] = t[2]

\* nextHandoff, the target: the owner hands on, to the next in order unless it asks otherwise.
Target(t, asked) ==
    CASE Repeated(t) -> flow.target
      [] ~Repeated(t) /\ Owns(t) /\ flow.owner < Len(Order) -> IF asked = Nobody THEN Order[flow.owner + 1] ELSE asked
      [] OTHER -> Nobody

\* nextHandoff, the owner's place: the last in order completes the flow.
NextOwner(t, target) ==
    CASE Repeated(t) \/ ~Owns(t) -> flow.owner
      [] ~Repeated(t) /\ Owns(t) /\ flow.owner = Len(Order) -> 0
      [] OTHER -> IF target = Order[flow.owner + 1] THEN flow.owner + 1
                  ELSE SelectInSeq(Order, LAMBDA c : c = target)

\* The turn hands off or just answers.  A target that is not active is an error after the owner has moved on; so is a
\* hand-off to oneself, which a second answer to one message can be told to make.
Reply(t) ==
    /\ pc[t] = "reply"
    /\ \E asked \in Requests(t) :
        LET target == Target(t, asked)
            refused == target # Nobody /\ ~Repeated(t) /\ target \in away
        IN /\ flow' = [owner |-> NextOwner(t, target),
                       source |-> IF refused THEN flow.source ELSE t[1],
                       target |-> IF refused THEN flow.target ELSE target]
           /\ IF refused \/ target = t[2]
              THEN Ends(t, "failed") /\ UNCHANGED messages
              ELSE /\ Post(t[2], target, t[1], Marked(t, "delivered"))
                   /\ IF target = Nobody THEN Over(t)
                      ELSE pc' = [pc EXCEPT ![t] = "handoff"] /\ UNCHANGED chains
    /\ UNCHANGED <<runs, away, operator, failures>>

\* The message with which turn t answered.
ReplyOf(t) == SelectInSeq(messages, LAMBDA r : r.replyTo = t[1] /\ r.from = t[2])

\* The hand-off is in the audit log and its message is dispatched, to a recipient that a stop has not yet marked.
Handoff(t) ==
    /\ pc[t] = "handoff"
    /\ LET u == <<ReplyOf(t), messages[ReplyOf(t)].mention>>
       IN IF blocked \/ delivery[u] # "pending" THEN Over(t)
          ELSE /\ pc' = [pc EXCEPT ![t] = "over", ![u] = "queued"]
               /\ after' = [v \in Turns |-> IF v = u THEN chain[u[2]]
                                           ELSE IF after[v] = t THEN NoTurn ELSE after[v]]
               /\ chain' = [chain EXCEPT ![u[2]] = u, ![t[2]] = IF @ = t THEN NoTurn ELSE @]
               /\ active' = [active EXCEPT ![t[2]] = NoTurn]
    /\ UNCHANGED <<team, delivery, runs, away, operator, failures>>

\* The audit log refuses the hand-off: the turn fails although it has answered, and nobody is told.
HandoffFails(t) ==
    /\ pc[t] = "handoff"
    /\ Ends(t, "failed") /\ Failure
    /\ UNCHANGED <<team, runs, away, operator>>

-----------------------------------------------------------------------------
(* The user's stop and redirect: stopConversation *)

\* The active tasks are read, and asked to cancel.
Stopping(user) ==
    stop' = [pc |-> "stop", tasks |-> {active[c] : c \in Coworkers} \ {NoTurn}, user |-> user]

\* conversation:stop and conversation:redirect
StopConversation ==
    /\ stop.pc = "idle" /\ Operates
    /\ Stopping(TRUE)
    /\ UNCHANGED <<team, delivery, pc, chains, runs, away, blocked, outcome, posts, failures>>

\* The tasks have been cancelled, those that have not ended; what is pending is marked failed, and a redirect posts its
\* message.  What a turn does between its task's cancel and the marks it could as well have done before both.
StopEnds ==
    /\ stop.pc = "stop"
    /\ stop' = NoStop
    /\ taskOf' = [t \in Turns |->
            IF t \in stop.tasks /\ taskOf[t] \in {"queued", "running"} THEN "cancelled" ELSE taskOf[t]]
    /\ LET stopped == [t \in Turns |-> IF delivery[t] = "pending" THEN "failed" ELSE delivery[t]]
       IN \/ stop.user /\ \E mention \in UserMentions : UserPosts(mention, stopped)
          \/ delivery' = stopped /\ UNCHANGED <<team, pc, after, chain, posts>>
    /\ UNCHANGED <<active, works, away, blocked, outcome, commands, failures>>

-----------------------------------------------------------------------------
(* The outside operator *)

\* submitOutcome, to the channel or to one of its active coworkers.
SubmitOutcome ==
    /\ outcome.root = 0 /\ ~blocked
    /\ \E mention \in UserMentions \ ({"everyone"} \cup away) : UserPosts(mention, delivery)
    /\ outcome' = [root |-> Len(messages) + 1, status |-> "working"]
    /\ UNCHANGED <<active, runs, away, blocked, stop, commands, failures>>

Taken == {"cancelled", "needs_attention"}

\* messageChain: the outcome's message and everything that answers it.
MessageChain ==
    LET c[i \in 0..Len(messages)] == i # 0 /\ (i = outcome.root \/ c[messages[i].replyTo])
    IN {i \in 1..Len(messages) : c[i]}

Deliveries == {delivery[t] : t \in MessageChain \X Coworkers}

\* sync: what any reader is told, computed afresh each time unless the operator has taken the outcome.
Synced ==
    CASE outcome.status \in Taken -> outcome.status
      [] outcome.status \notin Taken /\ blocked -> "needs_attention"
      [] OTHER -> IF "failed" \in Deliveries THEN "failed"
                  ELSE IF "pending" \in Deliveries THEN "working" ELSE "completed"

\* cancelOutcome
CancelOutcome ==
    /\ outcome.root # 0 /\ Synced = "working"
    /\ stop.pc = "idle" /\ Operates
    /\ blocked' = TRUE
    /\ Stopping(FALSE)
    /\ outcome' = [outcome EXCEPT !.status = "cancelled"]
    /\ UNCHANGED <<team, delivery, pc, chains, runs, away, posts, failures>>

\* requestTakeover: nothing is cancelled.
RequestTakeover ==
    /\ outcome.root # 0 /\ Synced \notin {"completed", "failed", "cancelled"}
    /\ Operates
    /\ blocked' = TRUE
    /\ outcome' = [outcome EXCEPT !.status = "needs_attention"]
    /\ UNCHANGED <<team, delivery, pc, chains, runs, away, stop, posts, failures>>

-----------------------------------------------------------------------------
(* Coworkers set aside, and restarts *)

SetAside == \E c \in Coworkers \ away : away' = away \cup {c} /\ Failure
                /\ UNCHANGED <<team, delivery, pc, chains, runs, operator>>

Resume == \E c \in away : away' = away \ {c}
                /\ UNCHANGED <<team, delivery, pc, chains, runs, operator, failures>>

\* The turns in progress are gone, their tasks with whoever ran them; what was taken or cancelled is blocked again.
ProcessRestarts ==
    /\ Failure
    /\ pc' = [t \in Turns |-> IF pc[t] \in Live THEN "lost" ELSE pc[t]]
    /\ taskOf' = [t \in Turns |-> IF taskOf[t] = "running" THEN "lost" ELSE taskOf[t]]
    /\ works' = [t \in Turns |-> NoTurn]
    /\ after' = [t \in Turns |-> NoTurn]
    /\ chain' = [c \in Coworkers |-> NoTurn] /\ active' = chain'
    /\ stop' = NoStop
    /\ blocked' = (outcome.status \in Taken)
    /\ UNCHANGED <<team, delivery, away, outcome, posts, commands>>

-----------------------------------------------------------------------------
TurnStep(t) ==
    \/ Refuse(t) \/ Delegate(t) \/ Bind(t) \/ BindEnds(t)
    \/ Take(t) \/ HarnessReturns(t) \/ ReadResult(t) \/ ReadFails(t)
    \/ Reply(t) \/ Handoff(t) \/ HandoffFails(t)

SystemStep == StopEnds \/ \E t \in Present : pc[t] \in Live /\ TurnStep(t)

ChannelNext ==
    \/ SystemStep
    \/ PostUserMessage \/ StopConversation
    \/ SubmitOutcome \/ CancelOutcome \/ RequestTakeover
    \/ SetAside \/ Resume
    \/ ProcessRestarts

\* Continuations run and harnesses bound their tasks.
Fairness == WF_channelVars(SystemStep)

ChannelSpec == ChannelInit /\ [][ChannelNext]_channelVars /\ Fairness

-----------------------------------------------------------------------------
(* Properties *)

\* A stop reaches the work under way: the task of every turn that has begun to run is the coworker's active one, which
\* neither the end of an earlier turn nor the start of a later one removes (activeTasks).
StopReachesTurn ==
    \A t \in Present : pc[t] \in {"loop", "reply", "handoff"} => active[t[2]] = t

\* No request is dropped silently: a pending delivery to the one a message was addressed to has a turn that will settle
\* it, unless the operator blocked the conversation, the process was restarted, or the turn that was to pass the message
\* on is marked failed.
AddressedIsScheduled ==
    \A t \in Present : delivery[t] = "pending" =>
        LET m == messages[t[1]] IN
        \/ blocked
        \/ pc[t] \in Live \cup {"lost"}
        \/ m.from # "user" /\ m.mention = Nobody
        \/ m.from # "user" /\ \/ pc[<<m.replyTo, m.from>>] \in {"handoff", "lost"}
                              \/ delivery[<<m.replyTo, m.from>>] = "failed"

\* A flow does not stall: when every turn is over and no delivery has failed, the team's flow is complete, whatever
\* messages came in between and whomever they mentioned (@everyone excepted: README, section 5).
FlowFinishes ==
    (/\ ~blocked
     /\ \A t \in Present : pc[t] \in {"idle", "over"} /\ delivery[t] # "failed"
     /\ \A i \in DOMAIN messages : messages[i].mention # "everyone")
    => flow.owner = 0

\* The channel falls idle: whatever the user, the operators and failures do, no turn is left waiting for another one,
\* for a task in another turn's hands, or for a place in its coworker's chain.
ChannelFallsIdle == (\E t \in Turns : pc[t] \in Live) ~> (\A t \in Turns : pc[t] \notin Live)

=============================================================================
