---------------------------- MODULE AlertDelivery ----------------------------
(* Who receives an alert: per-check channel exclusions, the snapshot of the  *)
(* selected channels a producer takes with the transition, and the consumer  *)
(* of the alert queue, which sends to one channel after the other and writes *)
(* a result for each.  Users toggle, disable, delete and move meanwhile.     *)
EXTENDS Naturals, FiniteSets

CONSTANTS
    Checks, Projects, Channels,
    Alerts,       \* transitions that call for an alert
    Gone,         \* the check is deleted
    Legacy,       \* a job of an older producer, without channelIds
    NoChannel,
    MaxAttempts,     \* times a job may fail: attempts in defaultJobOptions
    MaxStalls,    \* times a job may stall: maxStalledCount, 1 by default
    MaxIncidents     \* bound on failures of the database, of sends and of workers

ASSUME BoundAssumption == MaxAttempts \in Nat \ {0} /\ MaxStalls \in Nat /\ MaxIncidents \in Nat

ASSUME NullAssumption ==
    /\ Gone \notin Projects /\ NoChannel \notin Channels
    /\ \A ids \in SUBSET Channels : ids # Legacy

ASSUME TableAssumption == Checks # {} /\ IsFiniteSet(Channels)

VARIABLES
    home,      \* the project of each check
    channel,   \* the notification_channels table
    excluded,  \* the check_channel_exclusions table
    job,       \* each alert, from its commit to the end of its job
    steady,    \* selected at the commit and deliverable ever since
    sent,      \* messages that reached a channel, per alert
    oks,       \* alert_logs rows with ok: true
    fails,     \* alert_logs rows with ok: false
    incidents

deliveryVars == <<home, channel, excluded, job, steady, sent, oks, fails, incidents>>
routing == <<home, channel, excluded>>
results == <<sent, oks, fails>>

ChannelRow == [row : {"absent", "live", "deleted"}, project : Projects, enabled : BOOLEAN]

Job == [state : {"none", "held", "waiting", "running", "done", "failed", "lost"},
        check : Checks,
        ids : (SUBSET Channels) \cup {Legacy},
        todo : SUBSET Channels,       \* recipients not handled yet in this run
        at : Channels \cup {NoChannel},
        step : {"send", "sent", "thrown", "unlogged"},
        tries : 0 .. MaxAttempts,        \* runs that failed
        stalls : 0 .. MaxStalls + 1]  \* runs in which the worker died

Deliverable(ch, p) ==
    channel[ch].row = "live" /\ channel[ch].enabled /\ channel[ch].project = p

\* snapshotSelectedChannelIds
Selected(c) == {ch \in Channels : Deliverable(ch, home[c]) /\ <<c, ch>> \notin excluded}

Incident == incidents < MaxIncidents /\ incidents' = incidents + 1

-----------------------------------------------------------------------------
(* Users *)

\* What an alert can still count on after a change of the routing.
StaySteady == steady' = [a \in Alerts |->
    {ch \in steady[a] : /\ channel'[ch].row = "live" /\ channel'[ch].enabled
                        /\ channel'[ch].project = home'[job[a].check]}]

RoutingStep == StaySteady /\ UNCHANGED <<job, incidents>>

\* Every type but EMAIL is enabled from the start.
CreateChannel(ch, p, enabled) ==
    /\ channel[ch].row = "absent"
    /\ channel' = [channel EXCEPT ![ch] = [row |-> "live", project |-> p, enabled |-> enabled]]
    /\ UNCHANGED <<home, excluded, results>>
    /\ RoutingStep

\* An address is verified.  Nothing disables a channel again.
VerifyChannel(ch) ==
    /\ channel[ch].row = "live" /\ ~channel[ch].enabled
    /\ channel' = [channel EXCEPT ![ch].enabled = TRUE]
    /\ UNCHANGED <<home, excluded, results>>
    /\ RoutingStep

\* Exclusions go with the channel; results keep their row without the channel.
DeleteChannel(ch) ==
    /\ channel[ch].row = "live"
    /\ channel' = [channel EXCEPT ![ch].row = "deleted"]
    /\ excluded' = {x \in excluded : x[2] # ch}
    /\ UNCHANGED <<home, results>>
    /\ RoutingStep

\* setCheckChannelEnabled
Toggle(c, ch, enabled) ==
    /\ home[c] # Gone
    /\ Deliverable(ch, home[c])
    /\ excluded' = IF enabled THEN excluded \ {<<c, ch>>} ELSE excluded \cup {<<c, ch>>}
    /\ UNCHANGED <<home, channel, results>>
    /\ RoutingStep

\* Faulty: the exclusions of the former workspace stay.
MoveWithExclusions(c, p) ==
    /\ home[c] \notin {Gone, p}
    /\ home' = [home EXCEPT ![c] = p]
    /\ UNCHANGED <<channel, excluded, results>>
    /\ RoutingStep

Move(c, p) ==
    /\ home[c] \notin {Gone, p}
    /\ home' = [home EXCEPT ![c] = p]
    /\ excluded' = {x \in excluded : x[1] # c}
    /\ UNCHANGED <<channel, results>>
    /\ RoutingStep

\* Exclusions and results go with the check.
DeleteCheck(c) ==
    /\ home[c] # Gone
    /\ home' = [home EXCEPT ![c] = Gone]
    /\ excluded' = {x \in excluded : x[1] # c}
    /\ oks' = [a \in Alerts |-> IF job[a].check = c THEN [ch \in Channels |-> 0] ELSE oks[a]]
    /\ fails' = [a \in Alerts |-> IF job[a].check = c THEN [ch \in Channels |-> 0] ELSE fails[a]]
    /\ UNCHANGED <<channel, sent>>
    /\ RoutingStep

Users ==
    \/ \E ch \in Channels :
          \/ \E p \in Projects, enabled \in BOOLEAN : CreateChannel(ch, p, enabled)
          \/ VerifyChannel(ch) \/ DeleteChannel(ch)
          \/ \E c \in Checks, enabled \in BOOLEAN : Toggle(c, ch, enabled)
    \/ \E c \in Checks : DeleteCheck(c) \/ \E p \in Projects : Move(c, p)

-----------------------------------------------------------------------------
(* Producers: the snapshot is taken under the transition's lock, the job is  *)
(* queued after it.                                                          *)

Commit(a, c, legacy) ==
    /\ job[a].state = "none"
    /\ home[c] # Gone
    /\ job' = [job EXCEPT ![a].state = "held", ![a].check = c,
                          ![a].ids = IF legacy THEN Legacy ELSE Selected(c)]
    /\ steady' = [steady EXCEPT ![a] = IF legacy THEN {} ELSE Selected(c)]
    /\ UNCHANGED <<routing, results, incidents>>

Queue(a) ==
    /\ job[a].state = "held"
    /\ job' = [job EXCEPT ![a].state = "waiting"]
    /\ UNCHANGED <<routing, steady, results, incidents>>

Lose(a) ==
    /\ job[a].state = "held"
    /\ Incident
    /\ job' = [job EXCEPT ![a].state = "lost"]
    /\ UNCHANGED <<routing, steady, results>>

-----------------------------------------------------------------------------
(* The consumer: handleAlert *)

\* Faulty: current exclusions are applied to a snapshot.
RecipientsNow(a) ==
    {ch \in Selected(job[a].check) : job[a].ids = Legacy \/ ch \in job[a].ids}

\* Faulty: the snapshot is not consulted.
RecipientsOfTheProject(a) == {ch \in Channels : Deliverable(ch, home[job[a].check])}

Recipients(a) ==
    IF job[a].ids = Legacy
      THEN Selected(job[a].check)
      ELSE {ch \in job[a].ids : Deliverable(ch, home[job[a].check])}

\* Faulty: the job of a deleted check waits for the check.
SkipLater(a) ==
    /\ job[a].state = "waiting"
    /\ home[job[a].check] = Gone
    /\ UNCHANGED deliveryVars

\* The check is deleted: nothing to do.
Skip(a) ==
    /\ job[a].state = "waiting"
    /\ home[job[a].check] = Gone
    /\ job' = [job EXCEPT ![a].state = "done"]
    /\ UNCHANGED <<routing, steady, results, incidents>>

Start(a) ==
    /\ job[a].state = "waiting"
    /\ home[job[a].check] # Gone
    /\ job' = [job EXCEPT ![a].state = "running", ![a].todo = Recipients(a)]
    /\ UNCHANGED <<routing, steady, results, incidents>>

Arrives(a, ch) == sent' = [sent EXCEPT ![a][ch] = @ + 1]

\* dispatchChannel: it may fail before the message is out, or after.
Send(a, ch) ==
    /\ job[a].state = "running" /\ job[a].at = NoChannel /\ ch \in job[a].todo
    /\ \/ /\ Arrives(a, ch)
          /\ job' = [job EXCEPT ![a].at = ch, ![a].step = "sent"]
          /\ UNCHANGED incidents
       \/ /\ Incident
          /\ Arrives(a, ch) \/ UNCHANGED sent
          /\ job' = [job EXCEPT ![a].at = ch, ![a].step = "thrown"]
    /\ UNCHANGED <<routing, steady, oks, fails>>

\* A row of alert_logs needs its check and its channel: foreign keys.
LogKeysHold(a) == home[job[a].check] # Gone /\ channel[job[a].at].row = "live"

HandledNext(a) == [job[a] EXCEPT !.todo = @ \ {job[a].at}, !.at = NoChannel, !.step = "send"]

\* Faulty: the result of a failed send is not written.
LogSentOnly(a) ==
    /\ job[a].step # "send" /\ LogKeysHold(a)
    /\ job' = [job EXCEPT ![a] = HandledNext(a)]
    /\ oks' = IF job[a].step = "sent" THEN [oks EXCEPT ![a][job[a].at] = @ + 1] ELSE oks
    /\ UNCHANGED <<routing, steady, sent, fails, incidents>>

Log(a) ==
    /\ job[a].step # "send" /\ LogKeysHold(a)
    /\ job' = [job EXCEPT ![a] = HandledNext(a)]
    /\ IF job[a].step = "sent"
         THEN oks' = [oks EXCEPT ![a][job[a].at] = @ + 1] /\ fails' = fails
         ELSE fails' = [fails EXCEPT ![a][job[a].at] = @ + 1] /\ oks' = oks
    /\ UNCHANGED <<routing, steady, sent, incidents>>

Over(a, more) == [job[a] EXCEPT !.state = IF more THEN "waiting" ELSE "failed",
                                !.todo = {}, !.at = NoChannel, !.step = "send"]

\* The queue runs the job again, from its start, while it has tries left.
Failed(a) == [Over(a, job[a].tries + 1 < MaxAttempts) EXCEPT !.tries = @ + 1]

\* Writing a result fails.  The first time, inside the try, that is handled as
\* a failed send; the second time it fails the job.
LogFails(a) ==
    /\ job[a].step # "send"
    /\ IF LogKeysHold(a) THEN Incident ELSE UNCHANGED incidents
    /\ job' = [job EXCEPT ![a] = IF job[a].step = "sent" THEN [job[a] EXCEPT !.step = "unlogged"]
                                                         ELSE Failed(a)]
    /\ UNCHANGED <<routing, steady, results>>

Finish(a) ==
    /\ job[a].state = "running" /\ job[a].todo = {}
    /\ job' = [job EXCEPT ![a].state = "done"]
    /\ UNCHANGED <<routing, steady, results, incidents>>

\* The worker dies: the queue finds the job stalled and runs it again, at
\* most MaxStalls times.
WorkerDies(a) ==
    /\ job[a].state = "running"
    /\ Incident
    /\ job' = [job EXCEPT ![a] = [Over(a, job[a].stalls < MaxStalls) EXCEPT !.stalls = @ + 1]]
    /\ UNCHANGED <<routing, steady, results>>

-----------------------------------------------------------------------------

NoResults == [a \in Alerts |-> [ch \in Channels |-> 0]]

DeliveryInit ==
    /\ home \in [Checks -> Projects]
    /\ channel = [ch \in Channels |->
                    [row |-> "absent", project |-> CHOOSE p \in Projects : TRUE, enabled |-> FALSE]]
    /\ excluded = {}
    /\ job = [a \in Alerts |-> [state |-> "none", check |-> CHOOSE c \in Checks : TRUE, ids |-> {},
                                todo |-> {}, at |-> NoChannel, step |-> "send", tries |-> 0, stalls |-> 0]]
    /\ steady = [a \in Alerts |-> {}]
    /\ sent = NoResults /\ oks = NoResults /\ fails = NoResults
    /\ incidents = 0

Consume(a) == Skip(a) \/ Start(a) \/ (\E ch \in Channels : Send(a, ch)) \/ Log(a) \/ Finish(a)

DeliveryNext ==
    \/ Users
    \/ \E a \in Alerts :
          \/ \E c \in Checks, legacy \in BOOLEAN : Commit(a, c, legacy)
          \/ Queue(a) \/ Lose(a) \/ Consume(a) \/ LogFails(a) \/ WorkerDies(a)

DeliverySpec == DeliveryInit /\ [][DeliveryNext]_deliveryVars

\* Producers go on to queue what they committed; the alert worker keeps running.
FairDelivery ==
    /\ DeliverySpec
    /\ \A a \in Alerts : WF_deliveryVars(Queue(a)) /\ WF_deliveryVars(Consume(a) \/ LogFails(a))

-----------------------------------------------------------------------------
(* Properties *)

\* Every variable has the type its declaration says.
DeliveryTypeOK ==
    /\ home \in [Checks -> Projects \cup {Gone}]
    /\ channel \in [Channels -> ChannelRow]
    /\ excluded \subseteq Checks \X Channels
    /\ job \in [Alerts -> Job]
    /\ steady \in [Alerts -> SUBSET Channels]
    /\ sent \in [Alerts -> [Channels -> Nat]]
    /\ oks \in [Alerts -> [Channels -> Nat]]
    /\ fails \in [Alerts -> [Channels -> Nat]]
    /\ incidents \in 0 .. MaxIncidents

\* A check excludes only channels of its own workspace: a move leaves none of
\* the former workspace's behind (checks.service.ts:746-748), nor does a deletion.
ExclusionsStayHome ==
    \A x \in excluded : channel[x[2]].row = "live" /\ channel[x[2]].project = home[x[1]]

Runs(a) == job[a].tries + job[a].stalls

\* An alert reaches no channel that was not selected at its transition, and
\* none a second time in one run of the job.
OnlySelectedOnceARun ==
    \A a \in Alerts : \A ch \in Channels :
        /\ sent[a][ch] > 0 /\ job[a].ids # Legacy => ch \in job[a].ids
        /\ sent[a][ch] <= Runs(a) + 1

\* Toggles made after the transition change nothing (worker/README.md:15-17):
\* once the job is done, every channel selected at the transition that stayed
\* enabled in the check's workspace has a result.
SteadyChannelsServed ==
    \A a \in Alerts : job[a].state = "done" =>
        \A ch \in steady[a] : oks[a][ch] + fails[a][ch] > 0

\* No result ok: true without a message that arrived; and a message is without
\* a result only while its result is being written, or when the run that sent
\* it ended there: one message a run at most, whatever the channel.
ResultsCoverDeliveries ==
    \A a \in Alerts :
        /\ \A ch \in Channels : oks[a][ch] <= sent[a][ch]
        /\ home[job[a].check] # Gone =>
               Cardinality({ch \in Channels : sent[a][ch] > oks[a][ch] + fails[a][ch]})
                   <= Runs(a) + (IF job[a].at = NoChannel THEN 0 ELSE 1)

\* Every committed alert is delivered, given up or lost in the end.
AlertsSettle ==
    \A a \in Alerts : job[a].state # "none" ~> job[a].state \in {"done", "failed", "lost"}

\* Who has not been selected at the transition, in the workspace of then, is not
\* alerted, and nobody is twice by one run.
OnlySelected == DeliveryTypeOK /\ ExclusionsStayHome /\ OnlySelectedOnceARun

\* Who was selected is served, and the results tell it.
ServedAndTold == SteadyChannelsServed /\ ResultsCoverDeliveries
=============================================================================
