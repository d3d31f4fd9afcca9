----------------------------- MODULE Duplicates -----------------------------
(* The command that ends the subscriptions of the time when organizations    *)
(* paid: subscription-reconciliation.service.ts under the locks of           *)
(* subscription-reconciliation-lock.ts, with the operations that wait for it *)
(* (transferCreatorship and remove of organizations.service.ts, by           *)
(* legacy-billing-provenance.ts) and the webhooks that go on meanwhile.      *)
(*                                                                           *)
(* An organization had at most one subscription, named here by the           *)
(* organization.  One of an account's was chosen, with its organization, as  *)
(* the account's; the others are the duplicates.  The database keeps Stripe  *)
(* ids apart (unique), so no duplicate is an account's subscription.         *)
EXTENDS Naturals, FiniteSets

CONSTANTS
    Users,
    Orgs,
    Runners,     \* processes that the command may run in
    NoOne,     \* no user, no organization
    MaxIncidents    \* bound on what happens besides the runs

ASSUME ConstantAssumption ==
    /\ NoOne \notin Users \cup Orgs
    /\ MaxIncidents \in Nat

VARIABLES
    creator,    \* of an organization, NoOne when it is deleted
    account,    \* of users: the subscription, recorded and in Stripe
    legacy,     \* of organizations: the duplicate, recorded and in Stripe
    runner,
    incidents,
    payer       \* whose organization it was when the duplicate was made (no code knows)

duplicateVars == <<creator, account, legacy, runner, incidents, payer>>

Subs == 1 .. 2       \* subscriptions that an account has one after another

\* live stands for active, trialing and past_due; unpaid for what is neither
\* live nor over.
StripeStatus == {"none", "live", "unpaid", "gone"}

\* recorded is the account's subscription or 0; home the organization it came
\* with; modern, that the Stripe customer names the user; version,
\* billingStateVersion.
Accounts == [recorded : 0 .. 2, own : [Subs -> StripeStatus \ {"unpaid"}], home : Orgs \cup {NoOne},
             modern : BOOLEAN, version : 0 .. MaxIncidents]

Duplicate == [row : {"none", "live", "canceled"}, stripe : StripeStatus]

\* holds: its locks; user and todo: the account at hand and those to come;
\* scanned: their subscriptions as the run found them; page: the duplicates of
\* the user at hand; done: cancellationResults; seen: what was captured of the
\* duplicate at hand.
IdleRun == [pc |-> "idle", holds |-> {}, user |-> NoOne, todo |-> {}, scanned |-> NoOne,
         page |-> {}, done |-> {}, seen |-> NoOne]

RunSteps == {"next_user", "next", "winner", "candidate", "cancel", "checkpoint"}

-----------------------------------------------------------------------------
RunAt(p, pc) == runner[p].pc = pc

GlobalFree == \A p \in Runners : "global" \notin runner[p].holds
UserFree(u) == \A p \in Runners : runner[p].user = u => "user" \notin runner[p].holds

Goes(p, pc) == runner' = [runner EXCEPT ![p].pc = pc]

Duplicated(u) == {o \in Orgs : creator[o] = u /\ legacy[o].row = "live"}

Incident == incidents < MaxIncidents /\ incidents' = incidents + 1

-----------------------------------------------------------------------------
(* The command *)

\* The global lock, then the accounts with what is their subscription.
Starts(p) ==
    /\ RunAt(p, "idle")
    /\ GlobalFree
    /\ runner' = [runner EXCEPT ![p] =
         [IdleRun EXCEPT !.pc = "next_user", !.holds = {"global"}, !.todo = Users,
                      !.scanned = [u \in Users |-> account[u].recorded]]]
    /\ UNCHANGED <<creator, account, legacy, incidents, payer>>

\* An account without a subscription is reported, and its duplicates stay.
TakesUser(p, u) ==
    /\ RunAt(p, "next_user")
    /\ u \in runner[p].todo
    /\ UserFree(u)
    /\ runner' = [runner EXCEPT
         ![p].pc = "next", ![p].user = u, ![p].holds = @ \cup {"user"}, ![p].todo = @ \ {u},
         ![p].page = IF runner[p].scanned[u] = 0 THEN {} ELSE Duplicated(u)]
    /\ UNCHANGED <<creator, account, legacy, incidents, payer>>

Finishes(p) ==
    /\ RunAt(p, "next_user")
    /\ runner[p].todo = {}
    /\ runner' = [runner EXCEPT ![p] = IdleRun]
    /\ UNCHANGED <<creator, account, legacy, incidents, payer>>

\* A lock that is gone cannot be released: the run fails.
LeavesUser(p) ==
    /\ RunAt(p, "next")
    /\ runner[p].page = {}
    /\ runner' = [runner EXCEPT ![p] =
         IF "user" \in runner[p].holds
         THEN [runner[p] EXCEPT !.pc = "next_user", !.user = NoOne, !.holds = runner[p].holds \ {"user"},
                                !.seen = NoOne]
         ELSE IdleRun]
    /\ UNCHANGED <<creator, account, legacy, incidents, payer>>

\* What captureCandidate reads and checkpointCandidate compares.
Winner(u) ==
    LET a == account[u] IN
    [recorded |-> a.recorded, version |-> a.version, home |-> a.home,
     homeCreator |-> IF a.home = NoOne THEN NoOne ELSE creator[a.home]]

Snapshot(u, o) == [org |-> o, creator |-> creator[o], winner |-> Winner(u)]

Captures(p, o) ==
    /\ RunAt(p, "next")
    /\ o \in runner[p].page
    /\ LET u == runner[p].user
           fits == /\ o \in Duplicated(u)
                   /\ account[u].recorded # 0
                   /\ account[u].recorded = runner[p].scanned[u]
       IN runner' = [runner EXCEPT
            ![p].page = @ \ {o},
            ![p].pc = IF fits THEN "winner" ELSE "next",
            ![p].seen = IF fits THEN Snapshot(u, o) ELSE @]
    /\ UNCHANGED <<creator, account, legacy, incidents, payer>>

\* verifyWinner: live, and the customer is the user's, by its own metadata or
\* by the organization that it came with.
Proven(u, winner) ==
    /\ account[u].own[winner.recorded] = "live"
    /\ account[u].modern \/ (winner.home # NoOne /\ winner.homeCreator = u)

VerifiesWinner(p) ==
    /\ RunAt(p, "winner")
    /\ Goes(p, IF Proven(runner[p].user, runner[p].seen.winner) THEN "candidate" ELSE "next")
    /\ UNCHANGED <<creator, account, legacy, incidents, payer>>

\* Faulty: takes a subscription that is gone for one that is not the organization's.
VerifiesLiveCandidate(p) ==
    /\ RunAt(p, "candidate")
    /\ Goes(p, IF legacy[runner[p].seen.org].stripe = "live" THEN "cancel" ELSE "next")
    /\ UNCHANGED <<creator, account, legacy, incidents, payer>>

VerifiesCandidate(p) ==
    /\ RunAt(p, "candidate")
    /\ LET o == runner[p].seen.org IN
       runner' = CASE legacy[o].stripe = "gone" ->
                        [runner EXCEPT ![p].pc = "checkpoint", ![p].done = @ \cup {o}]
                   [] legacy[o].stripe = "live" ->
                        [runner EXCEPT ![p].pc = IF o \in runner[p].done THEN "checkpoint" ELSE "cancel"]
                   [] OTHER -> [runner EXCEPT ![p].pc = "next"]
    /\ UNCHANGED <<creator, account, legacy, incidents, payer>>

\* Faulty: records the cancellation first.
CancelsAfterwards(p) ==
    /\ RunAt(p, "cancel")
    /\ LET o == runner[p].seen.org IN
       /\ legacy' = [legacy EXCEPT ![o].row = "canceled"]
       /\ Goes(p, "checkpoint")
    /\ UNCHANGED <<creator, account, incidents, payer>>

\* cancelLegacySubscription; already gone is as good.
Cancels(p) ==
    /\ RunAt(p, "cancel")
    /\ LET o == runner[p].seen.org IN
       /\ legacy' = [legacy EXCEPT ![o].stripe = "gone"]
       /\ runner' = [runner EXCEPT ![p].pc = "checkpoint", ![p].done = @ \cup {o}]
    /\ UNCHANGED <<creator, account, incidents, payer>>

\* A call to Stripe fails or times out, the cancellation perhaps done.
StripeFails(p) ==
    /\ Incident
    /\ runner[p].pc \in {"winner", "candidate", "cancel"}
    /\ Goes(p, "next")
    /\ \/ UNCHANGED legacy
       \/ RunAt(p, "cancel") /\ legacy' = [legacy EXCEPT ![runner[p].seen.org].stripe = "gone"]
    /\ UNCHANGED <<creator, account, payer>>

\* checkpointCandidate
Checkpoints(p) ==
    /\ RunAt(p, "checkpoint")
    /\ LET u == runner[p].user
           o == runner[p].seen.org
       IN legacy' = IF Snapshot(u, o) = runner[p].seen /\ legacy[o].row = "live"
                    THEN [legacy EXCEPT ![o].row = "canceled"]
                    ELSE legacy
    /\ Goes(p, "next")
    /\ UNCHANGED <<creator, account, incidents, payer>>

\* The process ends, or the user's lock stays taken for five seconds.
Crashes(p) ==
    /\ Incident
    /\ ~RunAt(p, "idle")
    /\ runner' = [runner EXCEPT ![p] = IdleRun]
    /\ UNCHANGED <<creator, account, legacy, payer>>

\* The connection that holds a lock breaks; the process goes on for now.
LosesLock(p) ==
    /\ Incident
    /\ \E lock \in runner[p].holds : runner' = [runner EXCEPT ![p].holds = @ \ {lock}]
    /\ UNCHANGED <<creator, account, legacy, payer>>

-----------------------------------------------------------------------------
(* The rest of the world *)

\* Subscriptions end and fall behind in Stripe, and come back.
OwnChanges(u, k, status) ==
    /\ Incident
    /\ account[u].own[k] # "gone"
    /\ status # account[u].own[k]
    /\ account' = [account EXCEPT ![u].own[k] = status]
    /\ UNCHANGED <<creator, legacy, runner, payer>>

LegacyChanges(o, status) ==
    /\ Incident
    /\ legacy[o].stripe \in {"live", "unpaid"} \ {status}
    /\ legacy' = [legacy EXCEPT ![o].stripe = status]
    /\ UNCHANGED <<creator, account, runner, payer>>

LiveOf(u) == {k \in Subs : account[u].own[k] = "live"}

\* One of the live ones: which plan ranks higher is left out.
Authoritative(u) == IF LiveOf(u) = {} THEN {0} ELSE LiveOf(u)

\* applySubscriptionEvent, under the user's lock.
WebhookOf(u) ==
    /\ Incident
    /\ UserFree(u)
    /\ \E k \in Authoritative(u) :
          account' = [account EXCEPT ![u].recorded = k, ![u].version = @ + 1]
    /\ UNCHANGED <<creator, legacy, runner, payer>>

\* Faulty: only while the command is at it.
ResolvedUnlessAtHand(o) == \A p \in Runners : o \notin runner[p].page

\* assertNoUnresolvedLegacyBilling
Resolved(o) == legacy[o].row # "live"

Transfers(o, u) ==
    /\ Incident
    /\ creator[o] \notin {u, NoOne}
    /\ UserFree(creator[o]) /\ UserFree(u)
    /\ Resolved(o)
    /\ creator' = [creator EXCEPT ![o] = u]
    /\ UNCHANGED <<account, legacy, runner, payer>>

\* The account's subscription stays and forgets the organization.
Deletes(o) ==
    /\ Incident
    /\ creator[o] # NoOne
    /\ UserFree(creator[o])
    /\ Resolved(o)
    /\ creator' = [creator EXCEPT ![o] = NoOne]
    /\ account' = [u \in Users |-> IF account[u].home = o THEN [account[u] EXCEPT !.home = NoOne] ELSE account[u]]
    /\ UNCHANGED <<legacy, runner, payer>>

-----------------------------------------------------------------------------
\* As the migration leaves them: an account that has a subscription came by it
\* through an organization of the user's, or made it since.
DuplicatesInit ==
    /\ creator \in [Orgs -> Users]
    /\ \E recorded \in [Users -> {0, 1}], modern \in [Users -> BOOLEAN],
          home \in [Users -> Orgs \cup {NoOne}] :
          /\ \A u \in Users :
                /\ home[u] # NoOne => creator[home[u]] = u /\ recorded[u] = 1
                /\ modern[u] <=> home[u] = NoOne
          /\ account = [u \in Users |->
               [recorded |-> recorded[u], own |-> [k \in Subs |-> IF recorded[u] = k THEN "live" ELSE "none"],
                home |-> home[u], modern |-> modern[u], version |-> 0]]
    /\ legacy \in [Orgs -> {[row |-> "none", stripe |-> "none"], [row |-> "live", stripe |-> "live"]}]
    /\ \A o \in Orgs : legacy[o].row = "live" => \A u \in Users : account[u].home # o
    /\ runner = [p \in Runners |-> IdleRun]
    /\ incidents = 0
    /\ payer = creator

Runs(p) ==
    \/ \E u \in Users : TakesUser(p, u)
    \/ \E o \in Orgs : Captures(p, o)
    \/ LeavesUser(p) \/ Finishes(p)
    \/ VerifiesWinner(p) \/ VerifiesCandidate(p) \/ Cancels(p) \/ Checkpoints(p)

Others ==
    \/ \E u \in Users : WebhookOf(u) \/ \E k \in Subs, status \in {"live", "gone"} : OwnChanges(u, k, status)
    \/ \E o \in Orgs :
          \/ \E status \in {"live", "unpaid", "gone"} : LegacyChanges(o, status)
          \/ \E u \in Users : Transfers(o, u)
          \/ Deletes(o)

DuplicatesNext ==
    \/ \E p \in Runners : Starts(p) \/ Runs(p) \/ StripeFails(p) \/ Crashes(p) \/ LosesLock(p)
    \/ Others

DuplicatesSpec == DuplicatesInit /\ [][DuplicatesNext]_duplicateVars

\* The command says so itself when it has to run again (its exit code); here
\* it is run again and again.
FairDuplicates == DuplicatesSpec /\ \A p \in Runners : WF_duplicateVars(Starts(p)) /\ WF_duplicateVars(Runs(p))

-----------------------------------------------------------------------------
\* The type invariant.
DuplicatesTypeOK ==
    /\ creator \in [Orgs -> Users \cup {NoOne}]
    /\ account \in [Users -> Accounts]
    /\ legacy \in [Orgs -> Duplicate]
    /\ \A p \in Runners :
          /\ runner[p].pc \in RunSteps \cup {"idle"}
          /\ runner[p].holds \subseteq {"global", "user"}
          /\ runner[p].pc \in RunSteps \ {"next_user"} <=> runner[p].user \in Users
    /\ incidents \in 0 .. MaxIncidents
    /\ payer \in [Orgs -> Users]

\* A row says canceled only when nobody is charged any more, whatever call
\* failed, whichever lock was lost: nothing looks at such a row again.
CanceledMeansGone == \A o \in Orgs : legacy[o].row = "canceled" => legacy[o].stripe = "gone"

\* As long as Stripe may charge for an organization, it belongs to the user who
\* pays: it is neither transferred nor deleted meanwhile.
PayerKeepsTheOrganization == \A o \in Orgs : legacy[o].stripe \in {"live", "unpaid"} => creator[o] = payer[o]

ProvenNow(u) == account[u].recorded # 0 /\ Proven(u, Winner(u))

\* A duplicate does not stay, through failed calls, lost answers, lost locks
\* and runs that end early: the next runs get to its end, unless Stripe has it
\* neither live nor gone, or the account's own subscription is not live and
\* proven to be the user's.
DuplicatesEnd ==
    \A o \in Orgs :
       legacy[o].row = "live" ~>
          (legacy[o].row = "canceled" \/ legacy[o].stripe = "unpaid" \/ ~ProvenNow(payer[o]))

\* Whoever may be charged is known to the rows that say so.
ChargesAreKnown == DuplicatesTypeOK /\ CanceledMeansGone /\ PayerKeepsTheOrganization
=============================================================================
