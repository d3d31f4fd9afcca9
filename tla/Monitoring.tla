----------------------------- MODULE Monitoring -----------------------------
(* The status of checks and everything that writes it: pings received by the *)
(* API, watchdog sweeps and probes run by workers, and the operations of     *)
(* users and administrators; and the alerts the transitions call for, up to  *)
(* the BullMQ alert queue.  A database transaction that holds the check's    *)
(* row lock is one step; what a process does before it, after it or between  *)
(* two of them are steps of their own, so every interleaving is explored.    *)
EXTENDS Integers, Sequences, FiniteSets

CONSTANTS
    Checks,     \* identities of checks; a deleted one is never used again
    Sweepers,   \* watchdog schedulers; two overlap while a lease changes hands
    Jobs,       \* jobs of the probe queue
    Pings,      \* requests to a ping URL
    Cadences,   \* heartbeat cadences: [cron |-> ..., every |-> ..., grace |-> ...]
    NoCadence,  \* periodSeconds and schedule both null
    NoCheck,
    MaxClock,   \* bound on the clock
    MaxTries,   \* times the probe queue runs one job
    MaxFaults   \* bound on lost connections, aborts and deaths of processes

ASSUME TimeAssumption == MaxClock \in Nat /\ MaxTries \in Nat /\ MaxFaults \in Nat

ASSUME CadenceAssumption ==
    /\ Cadences \subseteq [cron : BOOLEAN, every : Nat \ {0}, grace : Nat]
    /\ NoCadence \notin Cadences

ASSUME ActorAssumption ==
    /\ Sweepers \cap Jobs = {} /\ Sweepers \cap Pings = {} /\ Jobs \cap Pings = {}
    /\ NoCheck \notin Checks

VARIABLES
    clock,
    db,         \* the checks table, with each check's newest event and open outage
    announced,  \* per check, the transitions committed so far, in commit order
    pc,         \* where each process is
    subject,    \* the check a job or a ping is about
    todo,       \* the overdue checks a sweep has still to mark
    readAt,     \* the time a probe ended
    verdict,    \* whether a probe succeeded
    tries,      \* how often a job was started again
    held,       \* the alert a process has committed and not yet queued
    queue,      \* the alert queue
    lost,       \* alerts dropped between commit and queue
    faults      \* failures so far

worker == <<todo, readAt, verdict, tries>>
alerts == <<announced, held, queue, lost>>
vars == <<clock, db, announced, pc, subject, todo, readAt, verdict, tries,
          held, queue, lost, faults>>

-----------------------------------------------------------------------------
(* Data *)

Actors == Sweepers \cup Jobs \cup Pings
Kinds == {"down", "recovery"}
Statuses == {"NEW", "UP", "GRACE", "DOWN", "PAUSED"}
Events == {"none", "ping", "missed", "probe_up", "probe_down"}
Never == -1     \* lastEventAt is null
Times == Nat \cup {Never}

CheckRow == [row : {"absent", "live", "deleted"},
             type : {"HEARTBEAT", "ACTIVE"},
             status : Statuses,
             cadence : Cadences \cup {NoCadence},
             lastEventAt : Times,
             lastEvent : Events,
             outageOpen : BOOLEAN]

Alert == [check : Checks, n : Nat \ {0}, kind : Kinds]

AlertFor(c, n, kind) == [check |-> c, n |-> n, kind |-> kind]

NoRow(row) == [row |-> row, type |-> "HEARTBEAT", status |-> "NEW", cadence |-> NoCadence,
               lastEventAt |-> Never, lastEvent |-> "none", outageOpen |-> FALSE]

NewRow(type, cadence) == [NoRow("live") EXCEPT !.type = type, !.cadence = cadence]

Live(c) == db[c].row = "live"
IsHeartbeat(c) == Live(c) /\ db[c].type = "HEARTBEAT"

\* Faulty: a probe's result is taken whatever the check has become.
ProbeableWhateverType(c) == Live(c) /\ db[c].status # "PAUSED"

\* Faulty: a pause does not stop a probe in flight.
ProbeableEvenPaused(c) == Live(c) /\ db[c].type = "ACTIVE"

\* What handleProbe asks of the row, before the probe and again under its lock.
Probeable(c) == Live(c) /\ db[c].type = "ACTIVE" /\ db[c].status # "PAUSED"

\* Faulty: the status is not tested again under the lock.
ExpectantWhateverStatus(c) == Live(c) /\ db[c].cadence # NoCadence

\* What the sweep asks of the row: the candidates' WHERE and the guarded update's.
Expectant(c) == Live(c) /\ db[c].status \in {"UP", "GRACE"} /\ db[c].cadence # NoCadence

\* A cron schedule is abstracted to firing at the multiples of `every`.
NextFire(every, t) == ((t \div every) + 1) * every

Deadline(k, t) ==
    IF k.cron THEN NextFire(k.every, t) + k.grace ELSE t + k.every + k.grace

Overdue(c) ==
    /\ Expectant(c)
    /\ db[c].lastEventAt # Never
    /\ Deadline(db[c].cadence, db[c].lastEventAt) < clock

\* Faulty: a pause leaves the outage open.
OutageClosedByUpOnly(old, new, open) ==
    CASE new = "DOWN" -> TRUE [] new = "UP" -> FALSE [] OTHER -> open

\* The trigger checks_record_outage, on every statement that sets the status.
OutageAfter(old, new, open) ==
    CASE new = "DOWN" /\ old # "DOWN" -> TRUE
      [] new # "DOWN" /\ old = "DOWN" -> FALSE
      [] OTHER -> open

Store(c, r) ==
    db' = [db EXCEPT ![c] =
             [r EXCEPT !.outageOpen = OutageAfter(db[c].status, r.status, db[c].outageOpen)]]

Announce(a, c, kind) ==
    /\ announced' = [announced EXCEPT ![c] = Append(@, kind)]
    /\ held' = [held EXCEPT ![a] = {AlertFor(c, Len(announced[c]) + 1, kind)}]
    /\ pc' = [pc EXCEPT ![a] = "alerting"]
    /\ UNCHANGED <<queue, lost>>

Silent(a, at) ==
    /\ pc' = [pc EXCEPT ![a] = at]
    /\ UNCHANGED alerts

Fault == faults < MaxFaults /\ faults' = faults + 1

-----------------------------------------------------------------------------
(* Users and administrators *)

UserStep == UNCHANGED <<clock, pc, subject, worker, alerts, faults>>

Create(c, type, cadence) ==
    /\ db[c].row = "absent"
    /\ Store(c, NewRow(type, cadence))
    /\ UserStep

Pause(c) ==
    /\ Live(c)
    /\ Store(c, [db[c] EXCEPT !.status = "PAUSED"])
    /\ UserStep

Resume(c) ==
    /\ Live(c)
    /\ Store(c, [db[c] EXCEPT !.status = "NEW"])
    /\ UserStep

EditCadence(c, k) ==
    /\ IsHeartbeat(c)
    /\ Store(c, [db[c] EXCEPT !.cadence = k])
    /\ UserStep

\* The probes' leftover status and time must not reach the watchdog.
ConvertToHeartbeat(c, k) ==
    /\ Live(c) /\ db[c].type = "ACTIVE"
    /\ Store(c, [db[c] EXCEPT !.type = "HEARTBEAT", !.cadence = k,
                              !.status = "NEW", !.lastEventAt = Never])
    /\ UserStep

ConvertToActive(c) ==
    /\ IsHeartbeat(c)
    /\ Store(c, [db[c] EXCEPT !.type = "ACTIVE", !.cadence = NoCadence])
    /\ UserStep

\* Events and outages go with the check: ON DELETE CASCADE.
Delete(c) ==
    /\ Live(c)
    /\ db' = [db EXCEPT ![c] = NoRow("deleted")]
    /\ UserStep

Users ==
    \E c \in Checks :
        \/ Pause(c) \/ Resume(c) \/ ConvertToActive(c) \/ Delete(c)
        \/ Create(c, "ACTIVE", NoCadence)
        \/ \E k \in Cadences :
               Create(c, "HEARTBEAT", k) \/ EditCadence(c, k) \/ ConvertToHeartbeat(c, k)

Tick ==
    /\ clock < MaxClock
    /\ clock' = clock + 1
    /\ UNCHANGED <<db, pc, subject, worker, alerts, faults>>

-----------------------------------------------------------------------------
(* Pings: PingService.recordPing *)

\* The owner of the slug, looked up without a lock.
PingFinds(g, c) ==
    /\ pc[g] = "idle"
    /\ IsHeartbeat(c)
    /\ subject' = [subject EXCEPT ![g] = c]
    /\ Silent(g, "found")
    /\ UNCHANGED <<clock, db, worker, faults>>

\* Faulty: every ping that changes the status is a recovery.
PingRecoversFromAnything(g) ==
    LET c == subject[g] IN
    /\ pc[g] = "found"
    /\ IsHeartbeat(c)
    /\ Store(c, [db[c] EXCEPT !.status = "UP", !.lastEventAt = clock, !.lastEvent = "ping"])
    /\ IF db[c].status # "UP" THEN Announce(g, c, "recovery") ELSE Silent(g, "done")
    /\ UNCHANGED <<clock, subject, worker, faults>>

PingRecords(g) ==
    LET c == subject[g] IN
    /\ pc[g] = "found"
    /\ IsHeartbeat(c)
    /\ Store(c, [db[c] EXCEPT !.status = "UP", !.lastEventAt = clock, !.lastEvent = "ping"])
    /\ IF db[c].status = "DOWN" THEN Announce(g, c, "recovery") ELSE Silent(g, "done")
    /\ UNCHANGED <<clock, subject, worker, faults>>

\* Deleted or converted since the lookup: not found.
PingRejected(g) ==
    /\ pc[g] = "found"
    /\ ~IsHeartbeat(subject[g])
    /\ Silent(g, "done")
    /\ UNCHANGED <<clock, db, subject, worker, faults>>

-----------------------------------------------------------------------------
(* The watchdog: sweepOverdue *)

\* Faulty: checks with a cron schedule are no candidates.
SweepsPeriodsOnly(s) ==
    /\ pc[s] = "idle"
    /\ todo' = [todo EXCEPT ![s] = {c \in Checks : Overdue(c) /\ ~db[c].cadence.cron}]
    /\ Silent(s, "sweeping")
    /\ UNCHANGED <<clock, db, subject, readAt, verdict, tries, faults>>

SweepStarts(s) ==
    /\ pc[s] = "idle"
    /\ todo' = [todo EXCEPT ![s] = {c \in Checks : Overdue(c)}]
    /\ Silent(s, "sweeping")
    /\ UNCHANGED <<clock, db, subject, readAt, verdict, tries, faults>>

\* The row is read again under its lock, its lastEventAt is not.
SweepMarks(s, c) ==
    /\ pc[s] = "sweeping" /\ c \in todo[s]
    /\ Expectant(c)
    /\ todo' = [todo EXCEPT ![s] = @ \ {c}]
    /\ Store(c, [db[c] EXCEPT !.status = "DOWN", !.lastEvent = "missed"])
    /\ Announce(s, c, "down")
    /\ UNCHANGED <<clock, subject, readAt, verdict, tries, faults>>

SweepSkips(s, c) ==
    /\ pc[s] = "sweeping" /\ c \in todo[s]
    /\ ~Expectant(c)
    /\ todo' = [todo EXCEPT ![s] = @ \ {c}]
    /\ UNCHANGED <<clock, db, alerts, pc, subject, readAt, verdict, tries, faults>>

SweepEnds(s) ==
    /\ pc[s] = "sweeping" /\ todo[s] = {}
    /\ Silent(s, "idle")
    /\ UNCHANGED <<clock, db, subject, worker, faults>>

\* Lease lost, scheduler stopped, transaction failed: nothing is committed.
SweepAborts(s) ==
    /\ pc[s] = "sweeping"
    /\ Fault
    /\ todo' = [todo EXCEPT ![s] = {}]
    /\ Silent(s, "idle")
    /\ UNCHANGED <<clock, db, subject, readAt, verdict, tries>>

-----------------------------------------------------------------------------
(* Probes: handleProbe, run by the probe queue at most MaxTries times a job *)

ProbeQueued(j, c) ==
    /\ pc[j] = "idle"
    /\ Probeable(c)
    /\ subject' = [subject EXCEPT ![j] = c]
    /\ Silent(j, "queued")
    /\ UNCHANGED <<clock, db, worker, faults>>

ProbeStarts(j) ==
    /\ pc[j] = "queued"
    /\ Probeable(subject[j])
    /\ Silent(j, "probing")
    /\ UNCHANGED <<clock, db, subject, worker, faults>>

ProbeMeasures(j, up) ==
    /\ pc[j] = "probing"
    /\ verdict' = [verdict EXCEPT ![j] = up]
    /\ readAt' = [readAt EXCEPT ![j] = clock]
    /\ Silent(j, "measured")
    /\ UNCHANGED <<clock, db, subject, todo, tries, faults>>

ProbeRecords(j) ==
    LET c == subject[j]
        up == verdict[j]
        old == db[c].status
    IN
    /\ pc[j] = "measured"
    /\ Probeable(c)
    /\ Store(c, [db[c] EXCEPT !.status = IF up THEN "UP" ELSE "DOWN",
                              !.lastEventAt = readAt[j],
                              !.lastEvent = IF up THEN "probe_up" ELSE "probe_down"])
    /\ CASE ~up /\ old # "DOWN" -> Announce(j, c, "down")
         [] up /\ old = "DOWN"  -> Announce(j, c, "recovery")
         [] OTHER               -> Silent(j, "done")
    /\ UNCHANGED <<clock, subject, worker, faults>>

ProbeSkips(j) ==
    /\ pc[j] \in {"queued", "measured"}
    /\ ~Probeable(subject[j])
    /\ Silent(j, "done")
    /\ UNCHANGED <<clock, db, subject, worker, faults>>

\* The queue runs the job again, from the start, while it has tries left.
Retry(j) == 
    IF tries[j] < MaxTries
      THEN tries' = [tries EXCEPT ![j] = @ + 1] /\ pc' = [pc EXCEPT ![j] = "queued"]
      ELSE tries' = tries /\ pc' = [pc EXCEPT ![j] = "done"]

ProbeDies(j) ==
    /\ pc[j] \in {"probing", "measured"}
    /\ Fault
    /\ Retry(j)
    /\ UNCHANGED <<clock, db, alerts, subject, todo, readAt, verdict>>

-----------------------------------------------------------------------------
(* From the commit to the alert queue *)

\* Faulty: a job run again queues the alert of its first run once more.
EnqueuedAgain(a) ==
    /\ \E x \in held[a] : queue' = Append(queue, x)
    /\ held' = IF a \in Jobs /\ tries[a] = 0 THEN held ELSE [held EXCEPT ![a] = {}]
    /\ IF a \in Jobs
         THEN Retry(a) /\ UNCHANGED <<todo, readAt, verdict>>
         ELSE /\ pc' = [pc EXCEPT ![a] = IF a \in Sweepers THEN "sweeping" ELSE "done"]
              /\ UNCHANGED worker
    /\ UNCHANGED <<clock, db, announced, subject, lost, faults>>

Enqueued(a) ==
    /\ \E x \in held[a] : queue' = Append(queue, x)
    /\ held' = [held EXCEPT ![a] = {}]
    /\ pc' = [pc EXCEPT ![a] = IF a \in Sweepers THEN "sweeping" ELSE "done"]
    /\ UNCHANGED <<clock, db, announced, subject, worker, lost, faults>>

\* The call fails, or its answer is lost, or the process dies first.  A sweep
\* drops the checks it has not reached, a job is run again, a ping was answered.
EnqueueFails(a) ==
    /\ Fault
    /\ \E x \in held[a] :
           \/ queue' = Append(queue, x) /\ lost' = lost
           \/ lost' = lost \cup {x} /\ queue' = queue
    /\ held' = [held EXCEPT ![a] = {}]
    /\ CASE a \in Jobs -> Retry(a) /\ todo' = todo
         [] a \in Sweepers -> /\ todo' = [todo EXCEPT ![a] = {}]
                              /\ pc' = [pc EXCEPT ![a] = "idle"]
                              /\ tries' = tries
         [] OTHER -> pc' = [pc EXCEPT ![a] = "done"] /\ UNCHANGED <<todo, tries>>
    /\ UNCHANGED <<clock, db, announced, subject, readAt, verdict>>

-----------------------------------------------------------------------------

Init ==
    /\ clock = 0
    /\ db = [c \in Checks |-> NoRow("absent")]
    /\ announced = [c \in Checks |-> <<>>]
    /\ pc = [a \in Actors |-> "idle"]
    /\ subject = [a \in Jobs \cup Pings |-> NoCheck]
    /\ todo = [s \in Sweepers |-> {}]
    /\ readAt = [j \in Jobs |-> 0]
    /\ verdict = [j \in Jobs |-> FALSE]
    /\ tries = [j \in Jobs |-> 0]
    /\ held = [a \in Actors |-> {}]
    /\ queue = <<>>
    /\ lost = {}
    /\ faults = 0

PingStep(g) == (\E c \in Checks : PingFinds(g, c)) \/ PingRecords(g) \/ PingRejected(g)

SweepStep(s) ==
    \/ SweepStarts(s) \/ SweepEnds(s) \/ SweepAborts(s)
    \/ \E c \in Checks : SweepMarks(s, c) \/ SweepSkips(s, c)

ProbeStep(j) ==
    \/ \E c \in Checks : ProbeQueued(j, c)
    \/ ProbeStarts(j) \/ ProbeRecords(j) \/ ProbeSkips(j) \/ ProbeDies(j)
    \/ \E up \in BOOLEAN : ProbeMeasures(j, up)

Next ==
    \/ Users \/ Tick
    \/ \E g \in Pings : PingStep(g)
    \/ \E s \in Sweepers : SweepStep(s)
    \/ \E j \in Jobs : ProbeStep(j)
    \/ \E a \in Actors : Enqueued(a) \/ EnqueueFails(a)

Spec == Init /\ [][Next]_vars

\* Sweeps run for as long as the worker does, and a process that has committed
\* an alert goes on to queue it.  Nobody has to ping, probe or edit.
Fairness ==
    /\ \A s \in Sweepers :
           /\ WF_vars(SweepStarts(s))
           /\ WF_vars(SweepEnds(s))
           /\ WF_vars(\E c \in Checks : SweepMarks(s, c) \/ SweepSkips(s, c))
    /\ \A a \in Actors : WF_vars(Enqueued(a))

FairSpec == Spec /\ Fairness

-----------------------------------------------------------------------------
(* Properties *)

Held == UNION {held[a] : a \in Actors}
Queued == {queue[i] : i \in DOMAIN queue}
Announced == UNION {{AlertFor(c, n, announced[c][n]) : n \in DOMAIN announced[c]} : c \in Checks}

\* Every variable has the type its declaration says.
TypeOK ==
    /\ clock \in Nat
    /\ db \in [Checks -> CheckRow]
    /\ announced \in [Checks -> Seq(Kinds)]
    /\ pc \in [Actors -> {"idle", "found", "sweeping", "queued", "probing", "measured",
                         "alerting", "done"}]
    /\ subject \in [Jobs \cup Pings -> Checks \cup {NoCheck}]
    /\ todo \in [Sweepers -> SUBSET Checks]
    /\ readAt \in [Jobs -> Nat]
    /\ verdict \in [Jobs -> BOOLEAN]
    /\ tries \in [Jobs -> Nat]
    /\ held \in [Actors -> SUBSET Alert]
    /\ queue \in Seq(Alert)
    /\ lost \subseteq Alert
    /\ faults \in Nat

\* An outage is open exactly while its check is DOWN: the trigger sees every
\* write of a status, whoever makes it (migration 20261104120000_check_outages).
OutageOpenIffDown ==
    \A c \in Checks : db[c].outageOpen <=> Live(c) /\ db[c].status = "DOWN"

\* A verdict and the newest event agree, and a heartbeat's verdict is never a
\* probe's: a check converted under a probe in flight does not take its result
\* (probe-handler.ts:35-43), nor one left by the probes before (check-update.ts:263-275).
VerdictMatchesNewestEvent ==
    \A c \in Checks : Live(c) /\ db[c].status \in {"UP", "DOWN"} =>
        /\ db[c].lastEventAt # Never
        /\ db[c].lastEvent \in IF db[c].status = "UP" THEN {"ping", "probe_up"}
                                                   ELSE {"missed", "probe_down"}
        /\ db[c].type = "HEARTBEAT" => db[c].lastEvent \in {"ping", "missed"}

\* A check that is DOWN has a down alert as its newest, and a recovery alert
\* always answers the down alert before it: whoever commits the transitions,
\* none is announced by two of them and none by nobody.
AlertsTellTheStatus ==
    \A c \in Checks :
        /\ Live(c) /\ db[c].status = "DOWN" =>
               /\ announced[c] # <<>>
               /\ announced[c][Len(announced[c])] = "down"
        /\ \A n \in DOMAIN announced[c] : announced[c][n] = "recovery" =>
               n > 1 /\ announced[c][n - 1] = "down"

\* Every committed alert is in exactly one place: with one process that has yet
\* to queue it, in the queue once, or lost; and nothing else is in any of them.
AlertsInOnePlace ==
    /\ Announced = Held \cup Queued \cup lost
    /\ Held \cap Queued = {} /\ Held \cap lost = {} /\ Queued \cap lost = {}
    /\ \A a, b \in Actors : a # b => held[a] \cap held[b] = {}
    /\ \A i, j \in DOMAIN queue : queue[i] = queue[j] => i = j

\* A pause ends only by a resume or a conversion, or by a ping, and without an
\* alert; a deleted check announces nothing.  Sweeps and probes in flight when
\* the check was paused or deleted change nothing.
PauseAndDeleteHold ==
    [][\A c \in Checks :
         /\ Live(c) /\ db[c].status = "PAUSED" =>
               /\ announced'[c] = announced[c]
               /\ db'[c].status \in {"PAUSED", "NEW"} \/ db'[c].lastEvent = "ping"
         /\ db[c].row = "deleted" => db'[c] = db[c] /\ announced'[c] = announced[c]]_vars

\* What an alert can be about: NEW, GRACE, PAUSED and no check are all "other".
StateOf(c) == CASE Live(c) /\ db[c].status = "DOWN" -> "down"
                [] Live(c) /\ db[c].status = "UP" -> "up"
                [] OTHER -> "other"

\* The producers keep the contract of AlertContract.
Contract == INSTANCE AlertContract WITH
    state <- [c \in Checks |-> StateOf(c)],
    due <- Held,
    queued <- Queued

ImplementsContract == Contract!Spec

\* A heartbeat that is UP and overdue is noticed by some sweep (or pinged,
\* paused, edited...), whatever was aborted or lost before.
OverdueIsNoticed == \A c \in Checks : Overdue(c) ~> ~Overdue(c)

\* A check's status, its newest event and its outages tell the same story,
\* whatever sweeps, probes, pings and administrators write in between.
StatusAgrees == TypeOK /\ OutageOpenIffDown /\ VerdictMatchesNewestEvent

\* The alerts of a check alternate with its transitions, and each is in one
\* place: with the process that committed it, queued, or lost with that process.
AlertsAccountedFor == AlertsTellTheStatus /\ AlertsInOnePlace
=============================================================================
