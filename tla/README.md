# SystemVitals: a formal model

SystemVitals watches cron jobs and services. A *heartbeat* check expects pings of
its URL; an *active* check is probed by workers. When a check goes DOWN, or comes
back UP, its team is told through the channels it has selected. Teams are
organizations with members, and their creators pay for plans through Stripe. This
directory models the parts of the system where those promises are kept or broken,
checks them with TLC and proves part of them with TLAPS.

Paths below are relative to the repository (`src/` in `PROJECT.json`).

## 1. Inventory

### How the parts interact

The API (NestJS) and any number of worker processes share one PostgreSQL database
and one Redis. Nothing else is shared: a worker never calls the API. Redis holds
four BullMQ queues (alerts, probes, invitations, verification mails), and two leases
that keep one watchdog and one probe scheduler at work.

```
 ping URL ──> API ──┐                      ┌── watchdog (lease) ── sweeps, marks DOWN
 users ─────> API ──┤── checks, channels ──┤── probe scheduler (lease) ──> probe queue
 admins ────> API ──┤   (PostgreSQL)       └── probe workers <── probe queue
 agents ─ MCP > API ┤                                 │
 Stripe <───> API ──┤                                 │
 Telegram <─> API ──┴──> alert queue <────────────────┘  (after each commit)
                             │
                             └──> alert workers ──> e-mail, Slack, Telegram, webhooks
```

### Components

| Component | State | Operations | Hard behaviour | What makes it correct |
|---|---|---|---|---|
| Checks (`api/src/checks`) | `checks`, `check_events`, `check_outages` | create, edit, convert, pause, resume, move, delete | writers on other processes under another lock, or none | status, newest event and outage agree; pauses and deletions hold; an edit is what its author meant |
| Pings (`api/src/ping`) | the same rows | `recordPing` | lookup before the lock; alert after the answer | one recovery for one outage |
| Watchdog (`worker/src/watchdog.ts`) | the same rows | `sweepOverdue` | acts on a list read earlier; may be aborted anywhere; two overlap | every overdue check is noticed; one down alert |
| Probe handler (`worker/src/probe-handler.ts`) | the same rows | `handleProbe` | seconds between reading a check and writing it; retries | no result for what the check no longer is |
| Probe scheduler and queue (`worker/src/probe-scheduler.ts`) | probe queue | `scheduleDueProbes`, run, retry, remember | deduplication by id; retention | a due occurrence is probed, once |
| Alert producers (`alert-queue.service.ts`, `watchdog.ts`, `probe-handler.ts`) | alert queue | add after commit | commit without enqueue; answers lost | one alert a transition, in one place |
| Notification routing (`checks.service.ts`, `channels.service.ts`, `notification-routing.ts`) | channels, exclusions | select, snapshot, move, delete | changes between snapshot and delivery | the selection of the transition is what is served |
| Alert delivery (`worker/src/alert-handler.ts`) | alert jobs, `alert_logs` | `handleAlert` | a failed write repeats the job; crashes between send and result | a result for every message, no message beyond the selection |
| Scheduler lease (`worker/src/lease.ts`, `tracked-scheduler.ts`) | a Redis key | acquire, renew, abort, release | late answers, deaths, two owners | one active owner, and it holds the key |
| Worker readiness and shutdown (`worker/cli/worker.ts`, `readiness.ts`, `shutdown.ts`) | process, marker file | start, beat, drain, close | a signal or a death at every await | work keeps its connections; nothing stays open; the marker tells the truth |
| Billing: checkout, portal, webhooks (`api/src/billing/billing.service.ts`) | operations, attempts, intents, subscriptions; Stripe | start, resume, own, clean up, recover, apply events | calls to Stripe between transactions; late or repeated webhooks | the account never names two sessions that can be paid; the recorded state never goes back |
| Billing: reconciliation (`subscription-reconciliation.service.ts`) | legacy subscriptions, checkpoints, locks | elect, cancel, checkpoint | runs lose their lock and die half way | canceled means gone; duplicates end |
| Entitlements and quotas (`account-entitlements.service.ts`) | counts of checks and organizations | create, move, transfer | counting at the same time | no count grows past the plan |
| Organizations, projects (`organizations.service.ts`) | organizations, projects | create, rename, transfer, remove | creatorship moves while it is counted | quotas follow the creator |
| Members, invites (`members.service.ts`) | memberships, invites | invite, accept, change role, remove, leave | row locks of a query that had to wait | an owner remains; nothing is stale when written |
| E-mail verification (`email-verification.service.ts`, its queue and worker) | tokens, mails | send, resend, verify | mails of older tokens | only the newest token enables |
| Telegram (`telegram-connections.service.ts`) | challenges, links | update, connect, clean up | deliveries twice at once | one channel a link; every /start answered |
| Status pages (`status-pages.service.ts`) | pages and what they list | create, update, delete | checks move while a page is written | a page lists its own project's checks |
| Overview (`overview-aggregate.ts`), outage backfill (migration) | outages | aggregate; scan, merge | three reads at three moments; writers during the migration | figures add up; the history is true |
| Tokens and authentication (`tokens`, `auth`) | tokens, accounts, state cookie | authenticate, sign up, log in | what ends a credential, while it is used | accepted only while good |
| MCP integration (`integrations/mcp`) | an agent's session | register tools, call | a credential that ends under it | stays in its workspace, is told the truth |
| Admin back office (`admin.service.ts`) | the same rows | pause, resume, delete, suspend | no row lock | as for those rows |
| Frontend (`frontend`) | dialogs, caches | secrets, switches, edits, token list | polls and answers out of order | what is shown is so |
| GraphQL surface, configuration, health, deployment | - | wiring, scripts | - | - |

`PROJECT.json` has the same list with the status of each, and `hazards`: the places
in this code that are hard to test, each with the properties that watch it.

## 2. Modules

| Module | Models | Run |
|---|---|---|
| `Monitoring` | the status of checks and its five writers, up to the alert queue | `monitoring` |
| `AlertContract` | what producers of alerts promise (abstract); implemented by `Monitoring` | `monitoring` |
| `AlertDelivery` | who receives an alert: selection, snapshot, consumer | `delivery` |
| `ProbeDispatch` | occurrences, probe queue, schedulers and probe workers | `dispatch`, `worker` |
| `SchedulerLease` | `RedisLease` and the store it talks to | `lease` |
| `WorkerLifecycle` | one worker container from start to end | `worker` |
| `WorkerProcess` | composes `ProbeDispatch` and `WorkerLifecycle` | `worker` |
| `Entitlements` | creators, their organizations and checks, and the account locks | `entitlements` |
| `AccountLimits` | what plans promise (abstract); implemented by `Entitlements` | `entitlements` |
| `Memberships` | roles, invites, owners and creators, and the row locks | `members` |
| `CheckoutOperations` | one account's way to a subscription, with Stripe and its webhooks | `checkout` |
| `Duplicates` | the reconciliation command, against transfers and webhooks | `duplicates` |
| `Overview` | the aggregation as operators | `outages` |
| `OutageHistory` | trigger, migration and reads; extends `Overview` | `outages` |
| `EmailVerification`, `TelegramChallenges`, `ChannelSwitches` | confirming a channel, connecting one, choosing some | `channels` |
| `ChannelSetup` | composes the three | `channels` |
| `CheckAccess` | who may change what: requests under their locks | `access` |
| `AgentTools` | the MCP server and what an agent may call | `access` |
| `SecretGuard`, `TokenHistory` | the dialog that shows a token once, the page that lists them | `access` |
| `SignIn` | sign-up, login through Google, unique slugs | `access` |
| `CheckEditor` | the dialog that edits a check, and the resolver behind it | `access` |
| `Access` | composes the six | `access` |
| `MonitoringProofs`, `ChannelProofs`, `MembershipsProofs`, `EntitlementsProofs`, `WorkerProcessProofs`, `BillingProofs`, `AccessProofs`, `ClientProofs` | theorems; each extends the module it is named after (`ChannelProofs`: `AlertDelivery` and `ChannelSetup`; `BillingProofs`: `CheckoutOperations` and `Duplicates`; `WorkerProcessProofs` also `SchedulerLease`; `ClientProofs`: all of `Access` but `CheckAccess`, for `AccessProofs`, which has the theorems) | - |

Each `MC...` module extends one of them with what TLC needs (cadences, plans, symmetry).
The composing modules `WorkerProcess`, `ChannelSetup` and `Access` put models side by side that
share no state: a behaviour is one of them, chosen at the start.
Operators introduced by a comment `Faulty:` are not used by any specification. They
are plausible bugs of the operator below them, kept to show that the properties
would notice (`mutants` in `PROJECT.json`).

The rule for steps is the same everywhere. What runs between two awaits of a process, or
inside one transaction that holds the rows it decides on, is a single step; every other
query, lock, call and answer is a step of its own. Where PostgreSQL's READ COMMITTED lets statements of
a transaction see different states, the statements are steps.
Symbols keep the names of the source where TLA+ allows it.

### Monitoring

One variable for the database, `db`, with one row per check: its type, status,
cadence, last event and whether an outage is open. Transactions that take the row
lock (`SELECT ... FOR UPDATE`) are single steps. Everything a process does outside of
them is a step of its own, so that the interleavings of the code are the
interleavings of the model:

| Code | Steps |
|---|---|
| `recordPing` | `PingFinds` (lookup by slug), `PingRecords` or `PingRejected` (the locked transaction), `Enqueued`/`EnqueueFails` |
| `sweepOverdue` | `SweepStarts` (the candidates' query), per check `SweepMarks` or `SweepSkips`, `SweepEnds`; `SweepAborts` anywhere |
| `handleProbe` | `ProbeStarts`, `ProbeMeasures`, `ProbeRecords`/`ProbeSkips`; `ProbeDies` and `Retry` for the queue |
| `checks.service`, `check-update`, `admin.service` | `Create`, `Pause`, `Resume`, `EditCadence`, `ConvertToHeartbeat`, `ConvertToActive`, `Delete` |
| trigger `checks_record_outage` | `OutageAfter`, inside `Store`, the only way a status is written |

The alert of a transition carries its number, `n`: the variable `announced` has all
transitions of a check in commit order, and `held`, `queue` and `lost` say where the
alerts are. An `EnqueueFails` either reached the queue, its answer being lost, or did not.

Cron expressions are abstracted to firing at the multiples of a period; the result
of a probe is arbitrary; the database clock is one counter (that the
watchdog uses `clock_timestamp()` of the database and probes the worker's clock is
not distinguished).

### AlertDelivery

The snapshot (`Commit`) is taken with the transition; the job is queued after it;
`handleAlert` reads the check and its recipients (`Start`, `Skip`), sends to one
channel after the other (`Send`) and writes a result for each (`Log`). `LogFails` is
the write that fails: once inside the `try` of the send, which makes it a failed send
(step `unlogged`), and the second time in the `catch`, which fails the job. Foreign keys make it fail
without any fault when the check or the channel has been deleted in between. The
queue runs a failed job again (`attempts: 3`, `Failed`) and a stalled one too
(`WorkerDies`; BullMQ's `maxStalledCount` is 1). Messages are not told apart by content.

No operation disables a channel: an e-mail channel starts disabled and is enabled by
its verification. The consumer's `enabled` filter is there in the model as in the code.

### ProbeDispatch

Time is whether the next occurrence of a check is in the past (`due`), and instants
are stamps that are told apart and never compared: what matters of them is whether
the id of a job, made of `lastEventAt` and the interval, is one the queue still
knows. A stamp nothing refers to any longer is used again. BullMQ is external and
modelled from how it is used: `add` ignores an id it knows; a completed job is known
while it is among the last `Keep` (`removeOnComplete: 100`); a job that failed for
good is removed (`removeOnFail: true`). Stalled runs count among the tries. A
retried job goes to the end of the queue, as one delayed does.

### SchedulerLease

Time is what is left of the key and of each timer; `Tick` decrements them all and
waits for a timer that is due. Requests (`set`, `renew`, `release`) and answers are
messages that stay in `net` as long as they like, so that a renewal or a release can
be obeyed long after its sender gave it up. The answer to a successful `set` is at
most `AcquireDelay` late while somebody waits for it: `acquire()` has no deadline of its own, and
with a larger delay exclusion fails (Observation 6). Timers are prompt: an event
loop that is blocked longer than a renewal interval is outside of the model.

`Monitoring` and `ProbeDispatch` do not rely on the lease. They let two sweepers and
two schedulers overlap, as they do for a moment when a lease changes hands.

### WorkerLifecycle

The startup of `worker.ts` is a chain of awaits (`Startup`), each of which may fail or be
overtaken by a signal; `stage` is where the shutdown is, `removal` whether the marker file
has been removed. The heartbeat probes the dependencies and rewrites the marker (`Beats`, `Probes`,
`Rewrites`, `Removes`); the marker outlives the process and ages, which is what the container's health check sees. Jobs
and runs of schedulers begin while the process runs and end when they like, also never; the
shutdown waits for them up to its deadline. A process may die at any moment and another is
started in the same container.

### Entitlements

A transaction at READ COMMITTED is several steps: the first reading (`Asks...`, and
`Read` after a retry), one `Lock` for each account, the second reading with the decision
(`Decide`, `Refuse`, `Retry`) and the write (`Commit`). `Abort` is a refusal for a reason left out
(roles, slugs, legacy billing) or a lost connection. The row lock of a check that is moved or deleted
is held from `Decide` to `Commit`; it is all that keeps `AdminService.deleteCheck`, which takes no account
lock, from coming between. A project counts as its organization: there is one each. The locks that
transfers and removals take on memberships and organizations come after the account locks and are left out.
Accounts are not deleted: `deleteUser` refuses while organizations are theirs.

### Memberships

A call asks for permission outside its transaction (`Asks`), locks rows (`Locks`), reads what it
decides on (`Reads`, `Fails`) and writes (`Writes`). A locking query selects the rows that qualify when
it starts, waits for them, and skips those that no longer qualify (PostgreSQL's re-check);
rows that qualify since then are not locked. The rows of a selection are taken at once. Two
ghosts say what the lock was good for: `kept`, of the owners a call selected those that have been
owners ever since, and `unlocked`, whether some owners' lock ended up with none of them.

### CheckoutOperations

One account. A transaction locks the account's row and is a step; each call to Stripe is
a step between transactions, and may be lost before or after it had its effect. A session of
Stripe is named by the attempt it was created for, since the attempt's id is the idempotency key
of its creation; a day later (`Day`) Stripe has forgotten the key. `billingStateVersion` only
tells that nothing was written since a snapshot, so it is that fact. Processes die; leases of
operations expire; intents to clean up are worked off by later requests. Webhooks read the
subscription from Stripe and apply it in a second step.

### Duplicates

From the time when organizations paid, an account has one subscription that was chosen and
perhaps others. The command (`Starts`, `Runs`) takes its session locks, elects the winner, cancels
a duplicate at Stripe, verifies, and marks the row; it may lose its lock, fail at
any call or crash. Meanwhile organizations are transferred and removed, which wait for or refuse
with the same locks, and webhooks change the rows. An organization's subscription is named by it.

### Overview and OutageHistory

`Overview` has the aggregation as operators on sets of outages: clipping, buckets, the timeline and
what needs fixing. `OutageHistory` has one check's row, its events and its outages; `truth`
is a ghost with the intervals it was DOWN. An event is stamped up to `Skew` before its
transaction commits. The migration's phases (`cutoff`, trigger, scan, merge, rollback) come between the
writers' transactions as its statements do. The reader's three queries are three steps, and writers come between
them: what needs fixing is judged at the end, against `truth`, whatever they wrote (`FixedWhenBroken`).

### EmailVerification, TelegramChallenges, ChannelSwitches

A token stands for its hash. Jobs of the mail queue are tried again and mails arrive when they like. The
page of a link (`verify-email/page.tsx`) previews, asks and may lose the answer. Telegram
delivers an update until it is answered, also while an earlier delivery is still being handled;
the lease of a delivery, its link and its clean-up are as in the
service; all updates are of one chat. The switches of a check's channels have the browser's
cache, the optimistic change of each switch, its save and the polls that come between. The ghost `missed` has the
channels written since the server read what the page shows, since it read what a poll on its way carries, and since a call saved.
A switch that is not being saved shows what the database has, or its channel is `missed`.

### CheckAccess, AgentTools, SecretGuard, TokenHistory, SignIn, CheckEditor

`CheckAccess` authenticates a request in a transaction of its own, resolves what it is about
without a lock and does it in a transaction that locks rows one after the other
and reads again. What a transaction writes is seen when it commits, and PostgreSQL rolls back one of
a circle of waits. `Others` are members who leave, tokens revoked, accounts suspended.
`AgentTools` maps every tool to the operation it sends and says what the agent is told;
`SecretGuard` models the browser's history entry by entry, since the guard is one of them; its ghost `past` tells whether a guard was
removed before, and whether the browser strayed onto its own old entry: without them no guard ever waits or is skipped, and only then
can a page be left with an unsaved secret unasked;
`TokenHistory` Apollo's cache and the time the page tells by; `SignIn` insertions that wait for an
uncommitted row with their key, and the state cookie; `CheckEditor` the form, the polled check it is
compared with and `resolveCheckUpdate`, which every client of `updateCheck` goes through. A save is judged (`SaveIsMeant`) by the form,
the page it was compared with and the check it meets, which others may have changed or converted.

## 3. Runs

Bounds are named in the constants. A run's invariants are conjunctions of named parts, the type
invariant of its module among them; the comments of the parts say which code they are about.

| Run | Instance | Shows |
|---|---|---|
| `monitoring` | 1 check, 2 sweepers, 1 job, 1 ping, a period and a cron cadence, 4 instants, 1 fault | status, newest event and outage agree (`StatusAgrees`); alerts tell the transitions and are in one place (`AlertsAccountedFor`); pauses and deletions hold; `AlertContract` is implemented; an overdue check is noticed |
| `delivery` | 1 check, 2 projects, 2 channels, 1 alert, 2 tries, 1 stall, 2 faults | only selected channels are alerted, once a run; those that stay are served and results account for messages; alerts settle |
| `dispatch` | 1 check, 2 schedulers, 2 workers, 1 interval, 1 edit, 1 fault | an occurrence is held once; what is remembered was recorded |
| `worker` | 1 check, 1 scheduler, 1 worker, 1 interval, 2 edits, 1 fault; or 2 starts, 2 jobs, 2 failures | only a remembered job keeps a due check from its probe; shutdowns are in order and end; no heartbeat puts the marker back; the marker tells the health |
| `lease` | 2 owners, 3 tokens, TTL 3, answers to a SET at most 1 late, 1 fault | who works holds the key, so there is one; the key comes free |
| `entitlements` | 2 users, 2 organizations, 2 checks, 2 requests, 2 plans, 2 attempts | `AccountLimits` is implemented; no circle of requests waits for locks |
| `members` | 2 users, 2 organizations, 1 invite, 3 calls, 2 at a time | organizations keep an owner and the creator among them; nothing read under the locks is stale when written |
| `checkout` | 2 requests at a time of 3, 2 offers, 4 attempts, 2 operations, a day, 3 events | the row never names two sessions that can be paid, nor misses one that was given until one is paid; answers for what was asked; webhooks converge and never go back; an open session is forgotten only by a recovery |
| `duplicates` | 2 users, 2 organizations, 2 processes, 2 events | canceled means gone; no organization leaves while its subscription may charge; duplicates end |
| `outages` | 1 check, 3 writes, 6 instants, skew 1, range 4, buckets of 2 | the history is one open outage while DOWN, disjoint and true; the overview's figures add up; what needs fixing is what is broken, whatever is written between the reads |
| `channels` | 3 tokens, 3 tries, a page for the first link, 1 fault; 2 updates, 2 deliveries, 2 connections, 1 project, 1 failure; 2 switches, 2 choices | pages are true; links are sound; each `/start` is answered; only the entitled confirm |
| `access` | 2 users, 3 organizations, 2 checks, 2 pages, 2 tokens, 2 requests, 1 outside change; an agent with 2 turns; 2 tokens made in the dialog; 2 visits of 2 addresses; 2 saves and 1 other update; 2 tokens listed twice, 3 instants | credentials, changes, agents, secrets, sign-ins, edits and the token list, see the run's entry |

Why these bounds are enough for the cases meant:

- `monitoring`: one check suffices, since properties are stated per check, and no step but
  the reads of a sweep concerns two checks at a time, and those only drop the rest of a
  list, which an abort does too. Four instants let a period and a cron
  schedule run out, with a ping or a probe before, at and after the deadline; two sweepers give
  every overlap of two schedulers, and with the ping and the probe three kinds of writers at once;
  one fault lets any alert be lost and the next ones follow.
- `delivery`: two channels make a failure of one meet another handled before it, and two tries a second run.
- `dispatch`: `Keep = 1` makes the retention of completed jobs matter; the number of
  stamps was raised until more of them no longer added states. A behaviour may begin with a
  heartbeat that a conversion makes active. The edit cannot be one that leaves a remembered job
  behind; with such edits `RememberedIsRecorded` fails (Observation 5), and `worker` shows that nothing else does harm.
- `lease`: a TTL of 3 is the smallest that is three renewal intervals. The theorem covers others.
- `entitlements`: two requests of any kind over two accounts give each pair of operations that can meet, with
  plan changes and administrators' deletions between any two of their steps; a plan for one check and a plan
  for one organization are each reached with one, and a transfer can exceed both. Two attempts
  stand for `CREATOR_STABILITY_RETRIES`, which is three.
- `members`: three calls let two meet after a third has made its users what they are. What takes
  three calls at once (Observation 8) needs five in all, beyond TLC here; the theorem has no bound.
- `checkout`: three requests make one supersede an attempt, another recover it and one answer; a day is one unit, since
  only its end matters. What takes more requests (Observation 9) was met outside of the run.
- `outages`: a range of two buckets and a time before it; three writes open, close and open again.
- `channels`: only a page of the first link is opened, for tokens are alike until they are rotated. `PerMinute = 1` makes the throttle matter.
- `access`: an outside change (role, token, suspension) comes where it concerns a request, anything else
  commutes with every step. Three organizations let a token be bound to one, and a check move between two others.

In symmetric sets no liveness is checked. Deadlock is not checked where everything may be deleted and done.

### Observations

Where the code does something a comment, a document or a test says it does not, or that a reader might not
expect. None is repaired in the models; the numbers are the ones `hazards` refers to.

1. The sweep's update is guarded by status and cadence, not by `lastEventAt`. A ping between the query and the
   update leaves the check UP, and it is marked DOWN with a missed heartbeat (`worker/src/watchdog.ts:85-109`).
2. Alerts are queued after their commits by different processes, so that a recovery can overtake its down
   alert (`worker/README.md:26-27`).
3. The successful result of a delivery is written inside the `try` of the send; when the write fails, a failed one
   is written for a message that was accepted (`worker/src/alert-handler.ts:134`).
4. A channel deleted under the consumer fails both writes and the job, whose retry sends to the other channels
   again (`docs/ARCHITECTURE.md:64-65`).
5. A probe job that found its check paused completes and is remembered; after a resume the occurrence has the same id
   and is never queued again while the queue remembers it, until 100 other jobs have completed
   (`worker/src/probe-scheduler.ts:65`).
6. An acquisition whose answer comes after the TTL starts a second callback (`worker/src/lease.ts:143`,
   `worker/test/lease.test.ts:210`).
7. `worker/test/readiness.test.ts:312` (a startup that is stopped removes its marker) holds with the default
   clean-up only. `worker.ts` passes `onStartupFailure: shutdown`, which is already under way and returns,
   so a marker put in place after the removal stays (`readiness.ts:168`). No heartbeat keeps it fresh.
8. The query that locks an organization's owners (`members.service.ts:384-398`) may, after waiting, lock nobody, or only
   somebody who was demoted and made an owner again meanwhile. Then the checks of two calls overlap: the creator
   can be demoted, and an organization whose creator is no owner can be left without one. It takes three calls at
   once and five in all. It was found where the proof needed a stronger invariant than the first version of the model had.
9. Checkout. A day-old attempt that is recovered late is forgotten while its session is open. The lists of
   subscriptions and sessions are read side by side, so a second session can be created for an account that
   has just subscribed. After a crash, recovery creates a session for one plan under another plan's attempt, and it is
   "reused". After recovery two sessions may be open, contrary to the title at
   `billing.service.spec.ts:559`. Applying a subscription clears an attempt whose other session is open and given, so that after a
   cancellation an account can be deleted while that session can be paid, or its owner can have the urls of two
   sessions that can (four requests, which the run's bound of three does not reach). A session is also forgotten when a recovery is given up for another request while what it asked Stripe for
is created behind it: the next attempt is to replace the same older session again (five requests, or four and a second death). `deleteUser`
   (`admin.service.ts:229-243`) trusts the recorded subscription, so an account whose subscription's event has not been
   applied can be deleted while subscribed.
10. Reconciliation. The organization of a migrated winner may be transferred or deleted, after which `verifyWinner` fails for ever
    (`subscription-reconciliation.service.ts:480`, `legacy-billing-provenance.ts:5`). A status `unpaid`, or an
    account without a winner, is never reconciled and blocks transfers.
11. Outage backfill. A DOWN event stamped exactly at the cutoff's millisecond is neither staged nor recorded. A check that is DOWN at the scan, paused,
    resumed and DOWN again before the merge loses its first outage. Edits of a paused check move `updated_at`, and with
    it the end of its outage. Uptime may be slightly negative, and buckets less than the total,
    when an outage ends after `now` was read. A check that recovers between the overview's reads of checks and of outages is still listed as DOWN,
    since its last event, and one that goes DOWN between them is not yet.
12. Access. Writing a status page checks membership without a lock, and deleting one locks nothing. Ids of deleted checks stay
    listed and block updates that list them. Two deletions by members of each other's organizations can deadlock, and so
    can a deletion and a move by the same owner, or a rename and a deletion; PostgreSQL resolves it. A user can end up in no organization; an invite accepted
    late readmits who was removed.
13. MCP. `gql.ts` turns three messages of the API into "access was removed", also for an agent that asks for a check outside of
    its owner's organizations; "Workspace not found" and "Check no longer belongs..." are passed on as they are.
    The normalization is applied twice, and idempotent.
14. Frontend. `installGuard` of `connect-agent-dialog.tsx` returns without listeners when the history stands on its own old entry, and while it waits
    for a clean-up: Back, a link or the tab then leaves the page with an unsaved secret unasked, which `SecretsAreSafe` admits then and at
    no other time. A link that is confirmed while a creation is pending lets the dialog show a secret
    unguarded. `use-poll-when-visible.ts` says "the user never reads a stale value on return", but fetches only after
    the interval. `auth-context` says the next account never sees the previous one's data, which fails across tabs; a
    late `fetchMe` can overwrite a newer login; impersonation in two tabs can overwrite `sv_admin_token`.
    A poll read before a switch was saved and landing after shows the old setting until the next one, and a failed call whose save went through too: these
    and another member's choice are what makes a channel `missed`. The page of a
    verification link calls a link invalid whose confirmation went through and whose answer was lost. `edit-check-dialog.tsx` says "Each text is
    sent only when it changed", but compares the form with the check as polled meanwhile, so somebody else's change
    is reverted, and it sends cadence and target always, so one not polled yet is, too (`SaveIsMeant` says which); clearing the expected status never clears it; a save's late answer closes a dialog opened again. The page of tokens says "Its status has not changed" of
    a revocation that was executed and whose answer was lost; an expiry is shown late by
    the age of the time shown; the list after a revocation joins one under way, so that a revoked token may be shown as active once more;
    a token whose owner left the organization is shown as active, though the API refuses it.
15. Sign-in. With two tabs, the callback that fails clears the cookie of the other. Of a sign-up and a first
    login through Google at once the latter gets the generic failure. Two `setPassword` at once both verify the
    same current password. A login that read the account before a suspension still issues a session, which
    `JwtStrategy` refuses at each request. Check creation retries a slug inside a transaction in which a retry could not work
    (`auth.service.ts:79-88` says so of accounts); it never has to, since writers of a project's slugs lock the
    creator's account. `MAX_SLUG_CREATE_ATTEMPTS`, 20, suffices for fewer than 20 commits at once.
16. `createActiveCheck` takes any TCP target with a `:` (`checks.service.ts:838`), `resolveCheckUpdate` demands host and port.
    A TCP check created with a URL is always DOWN, and every update of it without a new target is refused.

### Fairness

- Sweeps and scheduler runs are started by `setInterval` for as long as the worker
  lives, and a run goes through its list: weak fairness of each.
- A process that has committed an alert goes on to queue it; when it dies first, that is a
  fault, and faults are bounded: a system that fails for ever owes nothing.
- Workers take and finish jobs while they run.
- Time passes; the store answers what reaches it, eventually.
- A worker's timers fire, files are written, and what was awaited goes on. No job and no run of a scheduler
  need ever end: the shutdown has a deadline for that reason.
- The reconciliation command is run again, as its exit code asks for.
- The API's processes answer what they take up; Telegram delivers again what was not answered.
- Nobody has to ping, probe, edit, pause, resume, pay or ask.

## 4. Proofs

TLC checks small instances; the theorems below hold for all values of the constants that satisfy the
assumptions named in the modules.

| Module | Theorem | Says |
|---|---|---|
| `MonitoringProofs` | `TypeCorrect` | `Spec => []TypeOK` |
| | `AlertsTruthful`, `AlertsAccounted`, `AlertsSound` | `Spec => []AlertsAccountedFor`, part by part and as one |
| | `Implementation` | `Spec => ImplementsContract`, that is `Contract!Spec` under the mapping |
| | `StatusesAgree` | `Spec => []StatusAgrees` |
| | `PausesHold` | `Spec => PauseAndDeleteHold` |
| | `HistoryStaysSound` | `HistorySpec => []HistoryIsSound` |
| | `FixingStaysRight` | `HistorySpec => []FixedWhenBroken` |
| `ChannelProofs` | `DeliveryInvariant` | the inductive invariant of `AlertDelivery` |
| | `DeliverySelects` | `DeliverySpec => []OnlySelected` |
| | `DeliveryServes` | `DeliverySpec => []ServedAndTold` |
| | `SetupInvariant` | the inductive invariant of `ChannelSetup` |
| | `PagesStayTrue` | `Spec => []PagesAreTrue` |
| | `LinksStaySound` | `Spec => []LinksAreSound` |
| | `OthersNeverConfirm` | `Spec => OnlyTheEntitledConfirm` |
| `MembershipsProofs` | `MembersInvariant` | the inductive invariant |
| | `MembersKeepOwners` | `Spec => []OwnersRemain` |
| | `MembersStayGranted` | `Spec => []NothingGoesStale` |
| `EntitlementsProofs` | `EntitlementsInvariant` | the inductive invariant |
| | `EntitlementsLock` | `Spec => []LocksAreSound` |
| | `EntitlementsImplementLimits` | `Spec => ImplementsLimits`, that is `Limits!Spec` |
| `WorkerProcessProofs` | `QueueInvariant` | the inductive invariant of `ProbeDispatch` |
| | `QueueStaysSound` | `Spec => []QueueIsSound` |
| | `ProcessInvariant` | the inductive invariant of `WorkerProcess` |
| | `ShutdownStaysInOrder` | `ProcessSpec => []ShutdownInOrder` |
| | `RemovedMarkerStaysAway` | `ProcessSpec => NoHeartbeatRevives` |
| | `LeaseInvariant` | the inductive invariant of `SchedulerLease` |
| | `LeaseExcludes` | `LeaseSpec => []LeaseIsSound` |
| `BillingProofs` | `CheckoutInvariant` | the inductive invariant of `CheckoutOperations` |
| | `WebhooksReachStripe` | `Spec => WebhooksConverge` |
| | `AnswersAreMeant` | `Spec => []AnswersWhatIsAsked` |
| | `OneSessionIsUsable` | `Spec => []OneUsableSession` |
| | `DuplicatesInvariant` | the inductive invariant of `Duplicates` |
| | `ChargesStayKnown` | `DuplicatesSpec => []ChargesAreKnown` |
| `AccessProofs` | `RequestsStayRight` | the inductive invariant of `CheckAccess` |
| | `RequestsStaySound` | `Spec => []RequestsAreSound` |
| | `CredentialsStayGood` | `Spec => AcceptedIsGood` |
| | `ChangesStayAllowed` | `Spec => ChangesAreAllowed` |
| | `AgentsStayServed` | `Spec => AgentsAreServed` |
| | `SignInsStaySound` | `Spec => []((AttemptsSuffice => SignInsAreSound) /\ CookieIsOfTheNewest)` |
| | `SecretsStaySafe` | `Spec => SecretsAreSafe` |
| | `EditsStayMeant` | `Spec => EditsAreMeant` |
| | `HistoryStaysTrue` | `Spec => []HistoryIsTrue` |

**Monitoring.** For every set of checks, sweepers, jobs and pings, every set of cadences and every bound; processes are
disjoint sets, periods positive. `TypeOK` is not inductive. A job's check must be a check before its row is
read: `SubjectsKnown` adds that. And an alert must not be taken from a process that
does not hold it or overwritten before it is queued: `HoldsOne` adds that a process
holds an alert only between its commit and the queue, and one at most. With these,
each step of `Next` has one of a few *shapes* for one check (`StepShapes`): the
check falls and a down alert is held; it recovers and a recovery alert is held; it
changes silently, and not from DOWN to UP; or an alert leaves a process for the queue or is lost. Each
property, and the refinement, then needs one case per shape and not one per action.
Status and newest event agree for a reason of the same form: a step leaves a check's row and its events alone, or writes them
together in one of six ways (`Writes`: renewed, kept, pinged, missed, probed, deleted). The one with a gap would be a sweep that
marks a check whose row it did not read: `NoGrace` says that no step writes GRACE, so a check the guarded update finds
marked "down" is one that was UP and has a last event.

**AlertDelivery.** For every set of checks, projects, channels and alerts, and any number of tries, stalls and faults.
That an alert reaches a channel once a run is not inductive: a run has channels ahead (`todo`), one at hand (`at`), and earlier
runs behind it. `SentInOrder` counts a message less for those the current run has not come to; `SteadyAhead` says
that a steady channel of a running job is ahead of it or has its result; `ToldInOrder` counts the messages without a result by the runs that
ended early, which takes the lemmas on cardinalities.

**SchedulerLease.** For any number of processes, any number of tokens and every TTL with
`3 <= Ttl` and `2 * Interval + AcquireDelay <= Ttl`, where `Interval` is the code's `max(1, floor(ttl / 3))`:
the acquisition's answer, the wait for the first renewal and the wait for its answer fit into the TTL. A TTL of one or two
milliseconds is outside: its renewal interval is 1, and two of them and an answer do not fit. The invariant has, of each run, what its timers say of the key (`KeyLasts`), which of its requests can be on
their way (`RequestsInOrder`), and that no renewal given up can serve somebody else's key (`NoStrayRenewal`, with
`OwnToken`: tokens are random). Exclusion follows: two that are active hold the key, with their own tokens.

**Memberships.** For any number of users, organizations, invites and calls. `CountsOnOwners`: a call
past its lock holds the rows of the owners it still counts on. `SelectionsNest`: of two calls that selected an organization's owners,
one counts on all the other counts on, so that two past the lock hold a row in common, which
`LocksExclude` forbids. That is where Observation 8 was found: a call that counts on nobody excludes
nobody. `CreatorStaysWhileLocked` therefore speaks of organizations whose owners' locks have each held
an owner since selection.

**Entitlements.** Users are natural numbers (ids are compared when accounts are sorted); checks and requests are finitely
many; plans are arbitrary. What a request decided on, the counts of its accounts, must be so when it commits. It is, because a decided request holds
all accounts it counts (`HoldsInOrder`, `Decided`), every commit changes only what belongs to accounts its own
request has locked (`CommitLeaves`), and the row of a check is held from the decision. `OwnIds` keeps two requests from creating the
same row, `Integrity` keeps organizations and checks referring to what exists. Each commit is then one step of
`AccountLimits`, everything else a stutter or a change of plan. No circle: accounts are locked in ascending order, so in a circle of
waits each request waits for a larger account than the one before, and a finite set of requests has a last one
(`SomeoneIsLast`).

**Duplicates.** For any organizations, users, subscriptions, runs and faults. A run captures only organizations that have a row
and records a cancellation only of what it found gone itself or made Stripe end; what is gone never comes back; and an organization is
transferred or deleted only while its row is not live, so that Stripe charges nothing for it. With these the invariant
holds whichever locks are held: the locks of the command serialize two runs, and what is charged would stay
known without them.

**ProbeDispatch.** For any checks, workers, plans and cadences. An occurrence is named by a check and the instant of its last event, so that
the queue would hide one that is still to be probed if an instant were recorded twice. `IsNew` says that the instant a job has measured is in no plan,
job or memory of the queue yet; recording it moves the check to an occurrence nobody knows. `NobodyEdited`
is conditional on no edit so far, as `RememberedIsRecorded` is. `NullAssumption` keeps an idle worker apart from a busy one.

**WorkerLifecycle.** For any jobs and any number of starts and failures. `ClosedInTurn`: a kind of connection is closed if, and but for one
that was never made only if, the shutdown has come past the stage that closes it. `Drained` adds that a run is at work behind the stage of the
schedulers only when the deadline is over, and that the workers take no job there; `JobsHaveWorkers` that jobs are handled only by workers that
were started. The stage of the workers waits for the jobs, so what is closed later is closed behind them.
`TimersStop`: a shutdown stops heart and timers in its first step and removes the marker only when no heartbeat is under way, and
none can begin.

**CheckoutOperations.** For any requests, offers, attempts and operations, and any number of failures and deaths. Types are
not inductive alone: a request in a phase must know what the phase uses (`InOrder`: an attempt and an offer before
a session is created), and an operation of a checkout has both (`RowInOrder`). What a webhook is about
to record is then compared with what is recorded (`Applicable`): its snapshot, unless outdated, was listed after the last
write, so it is no older than the row, nor than its own event. Recording increments the version and so outdates every other snapshot
(`Bumps`); a change at Stripe is newer than what anybody has listed. `EventsAreSent` keeps an event for every change
that is not recorded: when none is left, everything is. Every other step is one of `Steps`: a request goes on, and
neither what is recorded nor what Stripe has changed does.

That a url answered is one for the plan and interval asked for (`AnswersWhatIsAsked`) is not inductive: the session of an
attempt is created by one request, perhaps after its connection broke, perhaps recovered by another, and
answered by a third. A *claim* on an attempt is anything by which a session of it for an offer exists or may come
to: the session, a call that Stripe may serve late, a request that creates, keeps or answers it, an operation of the
current attempt whose owner has decided, the account itself. `OneOffer` says that all claims on an attempt are for one
offer, `RowFits` that the operation a request owns is live and for what it wants, `Creative` and `ListsLast` that what a request keeps or
answers was created. A step claims only what was claimed before, or a new attempt that nobody has mentioned. All
this holds until a process dies between two steps (`Meant`), the one hypothesis `AnswersWhatIsAsked` itself has.

That one session at most can be paid (`OneUsableSession`) rests on these claims. A row that names two sessions is a
replacement under way: the old session must be over as soon as anything claims the new attempt (`SupersededEnds`). Who
decides to create relies on a list made earlier, so `ListsWell` says what a list that was not outdated still tells: it shows
the row's session and every session whose url the owner has, and none it shows as over is open. Several requests may decide at once,
but all of them want the same (`OneAim`), since a reservation for something else conflicts; so one that expires a session
first finds its own attempt afterwards, or one that replaces nothing (`KnowsAttempt`), and the second round of
`coordinate()` never creates beside an open session. `AttemptStays` keeps the current attempt's session off every clean-up
list and out of every call to expire. `NamesPayable` and `SeesNone` hold until something is paid. All of it is `Orderly`, and holds until a
process dies or hours pass (`Paced`), which is the hypothesis of `OnePayable`. What an account's deletion leaves is then what `Orderly` and
the invariant of the webhooks say of a row without an attempt. `RowAssumption`, that a row is not null,
keeps a row that was renewed apart from one that is not there.

**OutageHistory.** For any times, lengths and bounds, where an open end is later than all times. The events form *streaks* of DOWN ones. An outage fits a streak when
each of its ends is within the skew of the event that made it (`Fits`); `TruthFits` says that the true outages and the streaks
correspond one to one as long as nobody paused or converted the check, and `BackfillFits` that before the merge each streak was
written by the trigger, staged by the scan, or both, but for one stamped at the cutoff itself. The merge orders what
overlaps by its beginning and joins it; that there is a first of each island is `TheLeast`, by
well-foundedness. After it the table tells of every moment what the events tell, but where a commit was late (`HistoryTells`), and so do
the true outages. That the open outage is unique and goes with the status (`OpenInOrder`) needs none of this. For the overview `RowRead` says what still
holds of a row that was read while others write: who was DOWN when read was so until the query at least, and of what was
committed before the query nothing is newer than the row's last event (`LastHeard` at the time of the reading).

**ChannelSetup.** For any number of requests, tokens, tries, updates, deliveries, connections and failures; there is at least one
token, and "none", which stands for no delivery, is not the id of one. *By e-mail:* `TokensKnown` says that whatever names a
token names one that was made, `TokenIsNewest` that the channel has the newest or none any more, and `RequestInOrder` that a
token has one request only. What a resend reserved is then still its own when it fails and puts it back, and
the page, whose token came by mail, cannot confirm with an older one. *In Telegram:* Telegram may deliver an update again while
an earlier delivery is handled, so that several deliveries and connections are about one link. `DeliveryInOrder` says that who is about
to answer has linked or dismissed the update, and that what a delivery that still owns the link is sending is not marked
delivered; `ChallengeInOrder` that a link that was not consumed has made nothing; `ConnectionInOrder` that a connection past its lock holds a link that can
be used, alone, together with its member's row. A link deleted and issued again is a new one: nobody holds the
old. *The switches:* the invariant is inductive with `HeardInOrder`: what the page, a poll on its way and a call that was saved know of a channel is so,
unless it is `missed`.

**Access.** A behaviour is one of six, and the other five do not move (`OnlyOneMoves`), so that each is proved for itself; `ClientProofs` has the lemmas about all but the requests. *Requests.* For any number of users,
organizations, checks, pages, tokens and requests. The transactions take row locks one after the other, and what they found at the beginning must
be so at the end. `RequestRight` says what a request in a phase has and is going to lock, `StillTrue` what it may rely on because it holds the rows: that its
token is good, its check at home, its user a member, that a page it lists checks on is of their project. `Apart` keeps the rows of two requests, and what they
create, apart. A commit changes only rows that its request holds, so that whoever relies on such a row is not there. *No circles.* Every
transaction locks upwards (`LevelOf`): accounts in order, then what comes before checks, checks, pages. Only deletions have an order of their own
(`DeletionLevelOf`), as they take the memberships of an organization after those of its user. In a smallest circle of waits each request waits for
one and is waited for by one; nobody in it waits for an account, a token, a project, a check or a page, for who holds that row waits for
nothing the first one has. So all wait for memberships, which nobody else holds while waiting for one, but a deletion, and a move that holds its source and
waits for its destination. *The agent.* What an agent asked about its credential stays so, but for the project that is gone
(`ServedRight`), and a tool's operation is what `Operation` maps it to for all tools (`ToolsAdmitted`). *Sign-in.* A visit has lost no more names
than there are visits that are done and incidents, and one fewer while the one it holds is lost too (`NameRight`). With
`AttemptsSuffice`, no fewer attempts than visits and incidents, it is therefore never refused for a name; the run has as many as that. Who
visits is a finite set. The cookie is of a flow that no later one has overtaken (`CookieRight`). *The secret.*
`CreationInOrder` says of a creation that was not given up that its dialog is open and knows of the risk, and that it is pending, made or
uncertain, one of these; the guard is then there exactly while the page is and the secret is guarded (`GuardRight`). A page that has been
left is without a guard. `PastRight`: an own entry in the history, or a clean-up, is of a guard that was removed, and the browser on such an entry
without a guard or a clean-up has strayed. *The editor.* For all fields a client may send: what an update resolves to has the columns of its type
(`ResolvesToItsType`), and what the dialog sends for a form compared with one check, resolved against any other, is what both say (`DialogMeansIt`). The
dialog is as it was filled as long as nobody typed or polled, and a save remembers both. *The history.* For all tokens, expiries and
delays: a list that was read once is of rows that only went on since (`WasRead`: nothing becomes valid again), and a timer that is set is
due no later than the expiries of the list shown (`IsDue`). The soonest of the expiries to come is a `CHOOSE`; that there is one is
`ThereIsAFirst`, by well-foundedness. `HistoryAssumption`: instants are natural numbers, and tokens that are there or are made are rows.

Leaves are proved by Z3 and Zenon, temporal steps by LS4. Liveness under fairness and `ENABLED`
are out of reach of the prover and stay with TLC: that overdue checks are noticed, alerts settle, due checks are probed, shutdowns and
duplicates end, keys come free and every `/start` is answered. So does `ViewIsSound` of `OutageHistory`: `Overview` computes sums and spans
with folds over data, whose values for all inputs would need induction over data. `ForgottenOnlyByRecovery`
of `CheckoutOperations` is checked only.

## 5. Plan

1. *Done*: all modules above; proofs of `Monitoring` (types, alerts, refinement), `AlertDelivery`,
   `SchedulerLease`, `Memberships`, `Entitlements`, `Duplicates`, `ProbeDispatch`, `WorkerLifecycle`, `ChannelSetup`, of `Access` all, of `OutageHistory` all but `ViewIsSound`,
   and of `CheckoutOperations` all but `ForgottenOnlyByRecovery` and liveness.
2. Next: `ForgottenOnlyByRecovery` of `CheckoutOperations`.

## 6. Not modelled

- Parts: the GraphQL surface, configuration, health endpoints, deployment and release scripts; the
  frontend but for the five places named above; listings, impersonation, overrides, limits, the audit log and the bootstrap of the first
  administrator in the back office.
- Everywhere: texts of messages, logging, rate limits, the address filter of the prober, layout.
- Merged steps: `Start` reads a job's check, its channels and the Telegram contexts at once, whose failures are deaths of the run; `Retires` finds and expires a
  session at once, and the refusal after three rounds of `coordinate()` is left out; deleting an organization locks its row with its
  project's, a reference locks exclusively, and the refusal over legacy billing is left out. A refusal or a failure
  there writes nothing that the properties speak of.
- `Overview`: cron cadence, `byOrganization`, reasons and the longest outage; cursor paging of Prisma. `OutageHistory`: the deletion of the check.
- `CheckAccess`: read operations, the public page, updates of a title only, token creation. Projects
  and organizations are one.
- `AgentTools`: of tools that are not about checks only the operation; the formatting of answers. `SecretGuard`: Back goes one entry
  at a time, and a page that was left ends the behaviour. `TokenHistory`: error texts, suspension and membership of the owner; one revocation at a time, since
  its dialog is modal. `SignIn`: slugs are numbers with one base; one address per Google identity; login with a password and
  `setPassword`, which write one column at most. `CheckEditor`: name, slug, method, expected status; typing while saving.
  `ChannelSwitches`: the change of the cache and the render are one step.
- `CheckoutOperations`: manual overrides of plans, what follows a deletion, the columns of legacy clean-ups. `Duplicates`: the rank of
  plans, paging. `Memberships`: an owners' query locks its rows at once. `TelegramChallenges`: a missing bot only as `FindsNoBot`.
- The order in which BullMQ starts jobs, beyond first in first out; clocks that disagree, but for
  the skew of event stamps.
