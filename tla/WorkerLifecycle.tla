-------------------------- MODULE WorkerLifecycle --------------------------
(* One worker container: worker.ts from start to end, with readiness.ts,     *)
(* shutdown.ts and tracked-scheduler.ts.  A process is started, publishes    *)
(* that it is ready in a marker file that outlives it, handles jobs and runs *)
(* its schedulers, and is stopped by a signal at any moment, or dies.        *)
(*                                                                           *)
(* Code between two awaits is one step.  A file operation, a query or a      *)
(* connection being closed takes as long as it likes.                        *)
EXTENDS Naturals, FiniteSets

CONSTANTS
    Jobs,           \* jobs that may be handled at the same time
    MaxStarts,      \* bound on processes
    MaxFailures     \* bound on outages, failed operations and crashes

ASSUME LifecycleAssumption == MaxStarts \in Nat /\ MaxFailures \in Nat

VARIABLES
    main,       \* where startWorker is
    marker,     \* the readiness file; the health check wants it fresh
    healthy,    \* PostgreSQL and Redis answer
    heart,      \* of the ReadinessMarker
    stage,      \* of gracefulShutdown
    removal,    \* of the marker, by gracefulShutdown
    late,       \* the deadline of the shutdown is over
    conn,       \* the resources registered for the shutdown
    timers,     \* the intervals of the schedulers
    atWork,     \* a run of a scheduler is
    jobs,       \* jobs being handled
    starts,
    failures

lifecycleVars == <<main, marker, healthy, heart, stage, removal, late, conn, timers, atWork, jobs, starts, failures>>

process == <<heart, stage, removal, late, conn, timers, atWork, jobs>>

Startup == {"clears", "reclears", "prisma", "redis", "waits", "writes"}

Kinds == {"workers", "queues", "redis", "prisma"}

\* Not made yet; made; closed in good order; cut off.
Connections == [Kinds -> {"none", "open", "started", "closing", "closed", "cut"}]

Hearts == [on : BOOLEAN, draining : BOOLEAN, refresh : {"none", "probing", "writing", "removing"}]

Quiet == [on |-> FALSE, draining |-> FALSE, refresh |-> "none"]

-----------------------------------------------------------------------------
\* startupAbort: shutdown was requested or begun.
Aborted == stage # "no"

Failure == failures < MaxFailures /\ failures' = failures + 1

Closed(k) == conn[k] \in {"closed", "cut"}

-----------------------------------------------------------------------------
(* Shutdown *)

\* Faulty: removes the marker without waiting for a heartbeat under way.
BeginsAtOnce ==
    /\ stage' = "schedulers"
    /\ heart' = [heart EXCEPT !.on = FALSE, !.draining = TRUE]
    /\ removal' = "unlinks"
    /\ timers' = FALSE

\* gracefulShutdown up to its first await, with markNotReady.  It is called
\* once, whoever asks for it and however often.
Begins ==
    /\ stage' = "schedulers"
    /\ heart' = [heart EXCEPT !.on = FALSE, !.draining = TRUE]
    /\ removal' = IF heart.refresh = "none" THEN "unlinks" ELSE "awaits"
    /\ timers' = FALSE

Signal ==
    /\ main # "down" /\ ~Aborted
    /\ Begins
    /\ UNCHANGED <<main, marker, healthy, late, conn, atWork, jobs, starts, failures>>

AwaitsHeartbeat ==
    /\ removal = "awaits" /\ heart.refresh = "none"
    /\ removal' = "unlinks"
    /\ UNCHANGED <<main, marker, healthy, heart, stage, late, conn, timers, atWork, jobs, starts, failures>>

UnlinksMarker ==
    /\ removal = "unlinks"
    /\ \/ marker' = "absent" /\ removal' = "done" /\ UNCHANGED failures
       \/ Failure /\ removal' = "failed" /\ UNCHANGED marker
    /\ UNCHANGED <<main, healthy, heart, stage, late, conn, timers, atWork, jobs, starts>>

DeadlinePasses ==
    /\ stage \notin {"no", "done"} /\ ~late
    /\ late' = TRUE
    /\ UNCHANGED <<main, marker, healthy, heart, stage, removal, conn, timers, atWork, jobs, starts, failures>>

Stages(s) == stage' = s /\ UNCHANGED <<main, marker, healthy, heart, removal, late, timers, atWork, jobs, starts>>

ClosesWorkers == IF conn["workers"] = "none" THEN conn ELSE [conn EXCEPT !["workers"] = "closing"]

\* Faulty: does not wait for the runs.
DrainsNothing ==
    /\ stage = "schedulers"
    /\ conn' = ClosesWorkers
    /\ Stages("workers") /\ UNCHANGED failures

\* Faulty: however long it takes.
DrainsForever ==
    /\ stage = "schedulers"
    /\ ~atWork
    /\ conn' = ClosesWorkers
    /\ Stages("workers") /\ UNCHANGED failures

\* TrackedScheduler.stop told the runs to end and waits for them.
DrainsSchedulers ==
    /\ stage = "schedulers"
    /\ ~atWork \/ late
    /\ conn' = ClosesWorkers
    /\ Stages("workers") /\ UNCHANGED failures

\* Closed in good order; or, after the deadline or an error, cut off.
Closes(k, drained) ==
    IF conn[k] = "none" THEN UNCHANGED <<conn, failures>>
    ELSE \/ drained /\ healthy /\ conn' = [conn EXCEPT ![k] = "closed"] /\ UNCHANGED failures
         \/ late /\ conn' = [conn EXCEPT ![k] = "cut"] /\ UNCHANGED failures
         \/ Failure /\ conn' = [conn EXCEPT ![k] = "cut"]

DrainsWorkers == stage = "workers" /\ Closes("workers", jobs = {}) /\ Stages("queues")

ClosesQueues == stage = "queues" /\ Closes("queues", TRUE) /\ Stages("redis")

ClosesRedis == stage = "redis" /\ Closes("redis", TRUE) /\ Stages("prisma")

ClosesPrisma == stage = "prisma" /\ Closes("prisma", TRUE) /\ Stages("marker")

\* flushSentry, unregisterSignals.
EndsShutdown ==
    /\ stage = "marker"
    /\ removal \in {"done", "failed"} \/ late
    /\ Stages("done") /\ UNCHANGED <<conn, failures>>

-----------------------------------------------------------------------------
(* startWorker and establishWorkerReadiness *)

Starts ==
    /\ main = "down" /\ starts < MaxStarts
    /\ main' = "clears"
    /\ starts' = starts + 1
    /\ heart' = Quiet
    /\ stage' = "no" /\ removal' = "no" /\ late' = FALSE
    /\ conn' = [k \in Kinds |-> IF k = "prisma" THEN "open" ELSE "none"]
    /\ timers' = FALSE /\ atWork' = FALSE /\ jobs' = {}
    /\ UNCHANGED <<marker, healthy, failures>>

\* throwIfAborted, or another error: shut down, unless that is under way.
Fails ==
    /\ main' = "failing"
    /\ IF Aborted THEN UNCHANGED <<heart, stage, removal, timers>> ELSE Begins
    /\ UNCHANGED <<healthy, late, conn, atWork, jobs, starts>>

Unlinked == marker' = "absent"

\* markNotReady; then everything is made and registered.
Clears ==
    /\ main = "clears"
    /\ Unlinked
    /\ IF Aborted THEN Fails
       ELSE /\ main' = "reclears"
            /\ heart' = [heart EXCEPT !.draining = TRUE]
            /\ conn' = [k \in Kinds |-> "open"]
            /\ UNCHANGED <<healthy, stage, removal, late, timers, atWork, jobs, starts>>
    /\ UNCHANGED failures

GoesOn(next) == main' = next /\ UNCHANGED <<healthy, process, starts>>

Reclears ==
    /\ main = "reclears"
    /\ Unlinked
    /\ IF Aborted THEN Fails ELSE GoesOn("prisma")
    /\ UNCHANGED failures

ChecksPrisma ==
    /\ main = "prisma" /\ healthy
    /\ IF Aborted THEN Fails ELSE GoesOn("redis")
    /\ UNCHANGED <<marker, failures>>

\* A ping and a run of each lease; then every worker is started.
ChecksRedis ==
    /\ main = "redis" /\ healthy
    /\ IF Aborted THEN Fails
       ELSE /\ main' = "waits"
            /\ conn' = [conn EXCEPT !["workers"] = "started"]
            /\ UNCHANGED <<healthy, heart, stage, removal, late, timers, atWork, jobs, starts>>
    /\ UNCHANGED <<marker, failures>>

WorkersReady ==
    /\ main = "waits" /\ healthy
    /\ IF Aborted THEN Fails ELSE GoesOn("writes")
    /\ UNCHANGED <<marker, failures>>

\* Faulty: the heartbeat is started although a signal came.
MarksAndGoesOn ==
    /\ main = "writes"
    /\ marker' = "fresh"
    /\ main' = "running"
    /\ heart' = [heart EXCEPT !.on = TRUE, !.draining = FALSE]
    /\ timers' = TRUE
    /\ UNCHANGED <<healthy, stage, removal, late, conn, atWork, jobs, starts, failures>>

\* markReady puts the file in place; then the heartbeat and the intervals.
MarksReady ==
    /\ main = "writes"
    /\ marker' = "fresh"
    /\ IF Aborted THEN Fails
       ELSE /\ main' = "running"
            /\ heart' = [heart EXCEPT !.on = TRUE, !.draining = FALSE]
            /\ timers' = TRUE
            /\ UNCHANGED <<healthy, stage, removal, late, conn, atWork, jobs, starts>>
    /\ UNCHANGED failures

\* A step of the startup is an error: by itself, or because what it uses has
\* been closed.
StartupFails ==
    /\ main \in Startup
    /\ Failure \/ (main \in {"prisma", "redis", "waits"} /\ Aborted /\ UNCHANGED failures)
    /\ Fails
    /\ UNCHANGED marker

StartupStep ==
    \/ Clears \/ Reclears \/ ChecksPrisma \/ ChecksRedis \/ WorkersReady \/ MarksReady

-----------------------------------------------------------------------------
(* ReadinessMarker: the heartbeat *)

Refresh(r) == heart' = [heart EXCEPT !.refresh = r]

Beats ==
    /\ heart.on /\ heart.refresh = "none"
    /\ Refresh("probing")
    /\ UNCHANGED <<main, marker, healthy, stage, removal, late, conn, timers, atWork, jobs, starts, failures>>

\* refreshIfHealthy: the probe answers, or fails or takes longer than a second.
Probes ==
    /\ heart.refresh = "probing"
    /\ \/ healthy /\ IF heart.draining THEN Refresh("none") ELSE Refresh("writing")
       \/ (~healthy \/ Aborted) /\ Refresh("removing")
    /\ UNCHANGED <<main, marker, healthy, stage, removal, late, conn, timers, atWork, jobs, starts, failures>>

Rewrites ==
    /\ heart.refresh = "writing"
    /\ \/ marker' = "fresh" /\ Refresh("none") /\ UNCHANGED failures
       \/ Failure /\ Refresh("removing") /\ UNCHANGED marker
    /\ UNCHANGED <<main, healthy, stage, removal, late, conn, timers, atWork, jobs, starts>>

\* Faulty: a sick worker gives up.
RemovesForGood ==
    /\ heart.refresh = "removing"
    /\ Unlinked
    /\ heart' = [heart EXCEPT !.refresh = "none", !.on = FALSE]
    /\ UNCHANGED <<main, healthy, stage, removal, late, conn, timers, atWork, jobs, starts, failures>>

Removes ==
    /\ heart.refresh = "removing"
    /\ Unlinked
    /\ Refresh("none")
    /\ UNCHANGED <<main, healthy, stage, removal, late, conn, timers, atWork, jobs, starts, failures>>

\* Thirty seconds without a heartbeat.
MarkerAges ==
    /\ marker = "fresh"
    /\ marker' = "old"
    /\ UNCHANGED <<main, healthy, process, starts, failures>>

-----------------------------------------------------------------------------
(* Work, and what happens to the process *)

JobStarts(j) ==
    /\ conn["workers"] = "started" /\ j \notin jobs
    /\ jobs' = jobs \cup {j}
    /\ UNCHANGED <<main, marker, healthy, heart, stage, removal, late, conn, timers, atWork, starts, failures>>

JobEnds(j) ==
    /\ j \in jobs
    /\ jobs' = jobs \ {j}
    /\ UNCHANGED <<main, marker, healthy, heart, stage, removal, late, conn, timers, atWork, starts, failures>>

RunStarts ==
    /\ timers /\ ~atWork
    /\ atWork' = TRUE
    /\ UNCHANGED <<main, marker, healthy, heart, stage, removal, late, conn, timers, jobs, starts, failures>>

RunEnds ==
    /\ atWork
    /\ atWork' = FALSE
    /\ UNCHANGED <<main, marker, healthy, heart, stage, removal, late, conn, timers, jobs, starts, failures>>

Sickens ==
    /\ healthy /\ Failure
    /\ healthy' = FALSE
    /\ UNCHANGED <<main, marker, process, starts>>

Recovers ==
    /\ ~healthy
    /\ healthy' = TRUE
    /\ UNCHANGED <<main, marker, process, starts, failures>>

Gone ==
    /\ main' = "down"
    /\ heart' = Quiet
    /\ stage' = "no" /\ removal' = "no" /\ late' = FALSE
    /\ conn' = [k \in Kinds |-> "none"]
    /\ timers' = FALSE /\ atWork' = FALSE /\ jobs' = {}
    /\ UNCHANGED <<marker, healthy, starts>>

\* Nothing keeps the process up any longer.
Exits ==
    /\ main \in {"failing", "running"} /\ stage = "done"
    /\ Gone
    /\ UNCHANGED failures

Dies == main # "down" /\ Failure /\ Gone

-----------------------------------------------------------------------------
\* A container may start with the marker that an earlier process left in it.
LifecycleInit ==
    /\ main = "down"
    /\ marker \in {"absent", "old", "fresh"}
    /\ healthy = TRUE
    /\ heart = Quiet
    /\ stage = "no" /\ removal = "no" /\ late = FALSE
    /\ conn = [k \in Kinds |-> "none"]
    /\ timers = FALSE /\ atWork = FALSE /\ jobs = {}
    /\ starts = 0 /\ failures = 0

ShutdownStep ==
    \/ DrainsSchedulers \/ DrainsWorkers \/ ClosesQueues \/ ClosesRedis \/ ClosesPrisma \/ EndsShutdown

LifecycleNext ==
    \/ Starts \/ StartupStep \/ StartupFails
    \/ Signal \/ AwaitsHeartbeat \/ UnlinksMarker \/ DeadlinePasses \/ ShutdownStep
    \/ Beats \/ Probes \/ Rewrites \/ Removes \/ MarkerAges
    \/ \E j \in Jobs : JobStarts(j) \/ JobEnds(j)
    \/ RunStarts \/ RunEnds
    \/ Sickens \/ Recovers \/ Exits \/ Dies

-----------------------------------------------------------------------------
(* Properties *)

\* The type invariant.
LifecycleTypeOK ==
    /\ main \in Startup \cup {"down", "running", "failing"}
    /\ marker \in {"absent", "old", "fresh"}
    /\ healthy \in BOOLEAN
    /\ heart \in Hearts
    /\ stage \in {"no", "schedulers", "workers", "queues", "redis", "prisma", "marker", "done"}
    /\ removal \in {"no", "awaits", "unlinks", "done", "failed"}
    /\ late \in BOOLEAN /\ timers \in BOOLEAN /\ atWork \in BOOLEAN
    /\ conn \in Connections
    /\ jobs \subseteq Jobs
    /\ starts \in 0 .. MaxStarts /\ failures \in 0 .. MaxFailures

\* A job, or a run of a scheduler, that is at work can queue what it finds and
\* write what it has done: nothing it uses is closed under it, before the
\* deadline is over (shutdown.test.ts:82), except by an error in closing.
WorkKeepsItsConnections ==
    (atWork \/ (jobs # {} /\ conn["workers"] # "cut")) /\ ~late =>
        \A k \in {"queues", "redis", "prisma"} : ~Closed(k)

\* When the shutdown is over nothing is left that it did not close, however
\* far the startup had got when the signal came.
NothingLeftOpen ==
    stage = "done" =>
        /\ \A k \in Kinds : conn[k] = "none" \/ Closed(k)
        /\ ~timers /\ ~heart.on
        /\ atWork => late

\* Once the shutdown has removed the marker, no heartbeat puts it back
\* (readiness.test.ts:365, :415).
NoHeartbeatRevives ==
    [][stage # "no" /\ removal = "done" /\ marker = "absent" /\ marker' # "absent" => main = "writes"]_lifecycleVars

\* A shutdown ends, whatever hangs.
ShutdownEnds == stage # "no" ~> stage \in {"no", "done"}

\* A worker that cannot work is found out, and one that works again is found
\* to, without a restart.
HealthShows ==
    /\ (main = "running" /\ ~healthy) ~> (marker # "fresh" \/ healthy \/ Aborted \/ main # "running")
    /\ (main = "running" /\ healthy /\ ~Aborted) ~> (marker = "fresh" \/ ~healthy \/ Aborted \/ main # "running")
=============================================================================
