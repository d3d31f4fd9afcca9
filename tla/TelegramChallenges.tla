------------------------- MODULE TelegramChallenges -------------------------
(* From /start to a channel: telegram-connections.service.ts, behind         *)
(* telegram.controller.ts, with the parts of members.service.ts that end a   *)
(* membership.  All updates are of one chat, that is, one destination.       *)
(*                                                                           *)
(* Telegram delivers an update until it is answered with success, also       *)
(* while an earlier delivery is still being handled (from outside).          *)
EXTENDS Naturals, FiniteSets

CONSTANTS
    Updates,        \* of Telegram, each a /start
    Deliveries,     \* deliveries handled at the same time
    Connections,    \* calls of connect under way
    Workspaces,
    PerMinute,      \* TELEGRAM_CHALLENGES_PER_MINUTE
    MaxFailures     \* bound on failures and crashes

ASSUME TelegramAssumption == PerMinute \in Nat \ {0} /\ MaxFailures \in Nat /\ "none" \notin Deliveries

VARIABLES
    unanswered,     \* updates that Telegram still delivers
    dismissed,      \* updates answered with success and no link
    challenge,      \* rows, by update
    delivery,
    connection,
    member,         \* who connects is a member of the projects' organization
    channels,       \* projects that have the destination
    failures,
    linked,         \* updates that a link was delivered for (no code knows)
    made            \* channels made by the challenge of an update (no code knows)

telegramVars == <<unanswered, dismissed, challenge, delivery, connection, member, channels, failures, linked, made>>

\* Younger than the delivery lease of 30 s; than a minute, what the throttle
\* counts; than 10 minutes; expired, and to be cleaned up after another day.
Ages == 0 .. 3
Lease == 0
Minute == 1
Valid == 2
Expired == 3

NoChallenge == [id |-> "none"]

\* id is the delivery that made the row: what it deletes or marks is its own.
Challenges == [id : Deliveries, age : Ages, delivered : BOOLEAN, consumed : BOOLEAN]

NoDelivery == [pc |-> "none"]
NoConnection == [pc |-> "none"]

-----------------------------------------------------------------------------
DeliveryAt(d, pc) == delivery[d].pc = pc
ConnectionAt(k, pc) == connection[k].pc = pc

Row(u) == challenge[u].id # "none"
Own(d) == LET u == delivery[d].update IN challenge[u].id = d /\ Row(u)

\* Rows that a transaction of connect holds.
Locked(u) == \E k \in Connections : ConnectionAt(k, "locked") /\ connection[k].update = u
MemberLocked == \E k \in Connections : ConnectionAt(k, "locked") /\ connection[k].member

Recent == {u \in Updates : Row(u) /\ challenge[u].age <= Minute}

Failure == failures < MaxFailures /\ failures' = failures + 1

-----------------------------------------------------------------------------
(* handleStart *)

Delivers(d, u) ==
    /\ DeliveryAt(d, "none")
    /\ u \in unanswered
    /\ delivery' = [delivery EXCEPT ![d] = [pc |-> "claim", update |-> u]]
    /\ UNCHANGED <<unanswered, dismissed, challenge, connection, member, channels, failures, linked, made>>

\* Success, once Telegram has heard of it.
Succeeds(d) == delivery' = [delivery EXCEPT ![d].pc = "answer"]

Answers(d) ==
    /\ DeliveryAt(d, "answer")
    /\ unanswered' = unanswered \ {delivery[d].update}
    /\ delivery' = [delivery EXCEPT ![d] = NoDelivery]
    /\ UNCHANGED <<dismissed, challenge, connection, member, channels, failures, linked, made>>

\* An error, or no answer: Telegram delivers again.
Refused(d) == delivery' = [delivery EXCEPT ![d] = NoDelivery]

\* getPublicBot: Telegram could not be reached when the process started.
FindsNoBot(d) ==
    /\ DeliveryAt(d, "claim")
    /\ Failure
    /\ dismissed' = dismissed \cup {delivery[d].update}
    /\ Succeeds(d)
    /\ UNCHANGED <<unanswered, challenge, connection, member, channels, linked, made>>

\* claimChallenge, one transaction under the lock of the destination: already
\* delivered; or being delivered; or, with what is left of a delivery that
\* came to nothing out of the way, too many, or a new one.
Pending(u) == Row(u) /\ ~challenge[u].delivered

ClaimFindsDelivered(d) ==
    /\ DeliveryAt(d, "claim")
    /\ Row(delivery[d].update) /\ challenge[delivery[d].update].delivered
    /\ Succeeds(d)
    /\ UNCHANGED <<unanswered, dismissed, challenge, connection, member, channels, failures, linked, made>>

\* Faulty: somebody is at it already, so all is well.
ClaimTrustsPending(d) ==
    /\ DeliveryAt(d, "claim")
    /\ Pending(delivery[d].update)
    /\ challenge[delivery[d].update].age = Lease
    /\ Succeeds(d)
    /\ UNCHANGED <<unanswered, dismissed, challenge, connection, member, channels, failures, linked, made>>

ClaimFindsPending(d) ==
    /\ DeliveryAt(d, "claim")
    /\ Pending(delivery[d].update)
    /\ challenge[delivery[d].update].age = Lease
    /\ Refused(d)
    /\ UNCHANGED <<unanswered, dismissed, challenge, connection, member, channels, failures, linked, made>>

\* Faulty: a row is in the way for good.
NeverTakenOver(u) == ~Row(u)

Free(u) == ~Row(u) \/ (Pending(u) /\ challenge[u].age > Lease)

ClaimIsThrottled(d) ==
    /\ DeliveryAt(d, "claim")
    /\ LET u == delivery[d].update IN
       /\ Free(u) /\ ~Locked(u)
       /\ Cardinality(Recent \ {u}) >= PerMinute
       /\ challenge' = [challenge EXCEPT ![u] = NoChallenge]
       /\ dismissed' = dismissed \cup {u}
    /\ Succeeds(d)
    /\ UNCHANGED <<unanswered, connection, member, channels, failures, linked, made>>

ClaimIssues(d) ==
    /\ DeliveryAt(d, "claim")
    /\ LET u == delivery[d].update IN
       /\ Free(u) /\ ~Locked(u)
       /\ Cardinality(Recent \ {u}) < PerMinute
       /\ challenge' = [challenge EXCEPT ![u] = [id |-> d, age |-> 0, delivered |-> FALSE, consumed |-> FALSE]]
       /\ made' = [made EXCEPT ![u] = 0]
    /\ delivery' = [delivery EXCEPT ![d].pc = "send"]
    /\ UNCHANGED <<unanswered, dismissed, connection, member, channels, failures, linked>>

Sends(d) ==
    /\ DeliveryAt(d, "send")
    /\ delivery' = [delivery EXCEPT ![d].pc = "mark"]
    /\ UNCHANGED <<unanswered, dismissed, challenge, connection, member, channels, failures, linked, made>>

\* Sent or not, the row goes, unless that fails too.
SendingFails(d) ==
    /\ DeliveryAt(d, "send")
    /\ Failure
    /\ challenge' \in {challenge, IF Own(d) THEN [challenge EXCEPT ![delivery[d].update] = NoChallenge] ELSE challenge}
    /\ Refused(d)
    /\ UNCHANGED <<unanswered, dismissed, connection, member, channels, linked, made>>

Marks(d) ==
    /\ DeliveryAt(d, "mark")
    /\ LET u == delivery[d].update IN
       IF Own(d) /\ Pending(u)
       THEN challenge' = [challenge EXCEPT ![u].delivered = TRUE] /\ linked' = linked \cup {u} /\ Succeeds(d)
       ELSE Refused(d) /\ UNCHANGED <<challenge, linked>>
    /\ UNCHANGED <<unanswered, dismissed, connection, member, channels, failures, made>>

DeliveryDies(d) ==
    /\ ~DeliveryAt(d, "none")
    /\ Failure
    /\ Refused(d)
    /\ UNCHANGED <<unanswered, dismissed, challenge, connection, member, channels, linked, made>>

\* cleanupExpiredChallenges, and time.
CleansUp(u) ==
    /\ Row(u) /\ challenge[u].age = Expired /\ ~Locked(u)
    /\ challenge' = [challenge EXCEPT ![u] = NoChallenge]
    /\ UNCHANGED <<unanswered, dismissed, delivery, connection, member, channels, failures, linked, made>>

\* Telegram has ten seconds for a message, the lease is thirty: only where a
\* process or the database stalls is the sender still at it when it is over.
Sending(u) == \E d \in Deliveries : delivery[d].pc \in {"send", "mark"} /\ delivery[d].update = u /\ Own(d)

Older(u) ==
    /\ Row(u) /\ challenge[u].age < Expired
    /\ challenge[u].age > Lease \/ ~Sending(u)
    /\ challenge' = [challenge EXCEPT ![u].age = @ + 1]
    /\ UNCHANGED <<unanswered, dismissed, delivery, connection, member, channels, failures, linked, made>>

OutlivesLease(u) ==
    /\ Row(u) /\ challenge[u].age = Lease /\ Sending(u)
    /\ Failure
    /\ challenge' = [challenge EXCEPT ![u].age = Lease + 1]
    /\ UNCHANGED <<unanswered, dismissed, delivery, connection, member, channels, linked, made>>

-----------------------------------------------------------------------------
(* connect *)

UsableChallenge(u) ==
    Row(u) /\ challenge[u].delivered /\ ~challenge[u].consumed /\ challenge[u].age <= Valid

\* Faulty: reads before the locks.
ReadsChallenge(k, u, p) ==
    /\ ConnectionAt(k, "none")
    /\ UsableChallenge(u)
    /\ member
    /\ connection' = [connection EXCEPT ![k] = [pc |-> "locked", update |-> u, project |-> p, member |-> FALSE]]
    /\ UNCHANGED <<unanswered, dismissed, challenge, delivery, member, channels, failures, linked, made>>

\* The locks, of the challenge and of the membership if there is one, and what
\* is read under them.
LocksChallenge(k, u, p) ==
    /\ ConnectionAt(k, "none")
    /\ ~Locked(u)
    /\ UsableChallenge(u)
    /\ member /\ ~MemberLocked
    /\ connection' = [connection EXCEPT ![k] = [pc |-> "locked", update |-> u, project |-> p, member |-> TRUE]]
    /\ UNCHANGED <<unanswered, dismissed, challenge, delivery, member, channels, failures, linked, made>>

\* A second channel for the destination in the project is refused, and the
\* challenge can still be used for another project.
Connects(k) ==
    /\ ConnectionAt(k, "locked")
    /\ LET u == connection[k].update
           p == connection[k].project
       IN IF p \in channels
          THEN UNCHANGED <<channels, challenge, made>>
          ELSE /\ channels' = channels \cup {p}
               /\ challenge' = IF Row(u) THEN [challenge EXCEPT ![u].consumed = TRUE] ELSE challenge
               /\ made' = [made EXCEPT ![u] = @ + 1]
    /\ connection' = [connection EXCEPT ![k] = NoConnection]
    /\ UNCHANGED <<unanswered, dismissed, delivery, member, failures, linked>>

\* The transaction fails.
ConnectFails(k) ==
    /\ ConnectionAt(k, "locked")
    /\ connection' = [connection EXCEPT ![k] = NoConnection]
    /\ UNCHANGED <<unanswered, dismissed, challenge, delivery, member, channels, failures, linked, made>>

\* members.service.ts: the row is deleted, which waits for its lock.
LosesMembership ==
    /\ member /\ ~MemberLocked
    /\ member' = FALSE
    /\ UNCHANGED <<unanswered, dismissed, challenge, delivery, connection, channels, failures, linked, made>>

\* channels.service.ts
DeletesDestination(p) ==
    /\ p \in channels
    /\ channels' = channels \ {p}
    /\ UNCHANGED <<unanswered, dismissed, challenge, delivery, connection, member, failures, linked, made>>

-----------------------------------------------------------------------------
TelegramInit ==
    /\ unanswered = Updates
    /\ dismissed = {}
    /\ challenge = [u \in Updates |-> NoChallenge]
    /\ delivery = [d \in Deliveries |-> NoDelivery]
    /\ connection = [k \in Connections |-> NoConnection]
    /\ member = TRUE
    /\ channels = {}
    /\ failures = 0
    /\ linked = {}
    /\ made = [u \in Updates |-> 0]

Handles(d) ==
    \/ ClaimFindsDelivered(d) \/ ClaimFindsPending(d) \/ ClaimIsThrottled(d) \/ ClaimIssues(d)
    \/ Sends(d) \/ Marks(d) \/ Answers(d)

Connecting ==
    \/ \E k \in Connections :
          \/ \E u \in Updates, p \in Workspaces : LocksChallenge(k, u, p)
          \/ Connects(k) \/ ConnectFails(k)
    \/ \E p \in Workspaces : DeletesDestination(p)
    \/ LosesMembership

TelegramNext ==
    \/ \E d \in Deliveries :
          \/ \E u \in Updates : Delivers(d, u)
          \/ Handles(d) \/ FindsNoBot(d) \/ SendingFails(d) \/ DeliveryDies(d)
    \/ \E u \in Updates : CleansUp(u) \/ Older(u) \/ OutlivesLease(u)
    \/ Connecting

-----------------------------------------------------------------------------
\* The type invariant.
TelegramTypeOK ==
    /\ unanswered \subseteq Updates
    /\ dismissed \subseteq Updates /\ linked \subseteq Updates
    /\ \A u \in Updates : challenge[u] \in Challenges \cup {NoChallenge}
    /\ \A d \in Deliveries : DeliveryAt(d, "none") \/ delivery[d].update \in Updates
    /\ \A k \in Connections : ConnectionAt(k, "none") \/ connection[k].update \in Updates
    /\ member \in BOOLEAN
    /\ channels \subseteq Workspaces
    /\ failures \in 0 .. MaxFailures
    /\ made \in [Updates -> Nat]

\* Telegram hears of success only when the chat has a link that works, or the
\* update was turned away: no delivery that fails halfway, or that takes longer
\* than its lease, makes another one answer for it.
AnsweredHasALink == Updates \subseteq unanswered \cup linked \cup dismissed

\* A link makes one channel at most, by whatever number of clicks.
OneChannelPerLink == \A u \in Updates : made[u] <= 1

\* Whoever connects is a member when the channel is made, not only when asked
\* (connect locks the membership).
MemberConnects == channels' \ channels # {} => member
=============================================================================
