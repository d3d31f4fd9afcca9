---------------------------- MODULE ProbeDispatch ----------------------------
(* How a due check gets its probe: schedulers that read the due occurrences  *)
(* and add one job each to the probe queue, the queue, which ignores a job   *)
(* whose id it still knows, and the workers that run the jobs.  Time is      *)
(* abstracted to the instant at which a check's next occurrence is due.      *)
EXTENDS Naturals, Sequences, FiniteSets, SequencesExt

CONSTANTS
    Checks, Schedulers, Workers,
    Intervals,   \* values of intervalSeconds
    MaxStamp,    \* values of lastEventAt; one no longer referred to is reused
    Null,        \* no job
    Keep,        \* completed jobs the queue remembers: removeOnComplete
    MaxTries,    \* runs of a job: attempts
    MaxEdits,    \* bound on changes made by users
    MaxFaults    \* bound on failures of schedulers, of workers and of the alert queue

ASSUME BoundAssumption ==
    /\ Keep \in Nat /\ MaxTries \in Nat \ {0}
    /\ MaxStamp \in Nat /\ MaxEdits \in Nat /\ MaxFaults \in Nat

VARIABLES
    check,      \* the checks table
    due,        \* whether the next occurrence is in the past
    plan,       \* occurrences a scheduler has read as due and not added yet
    waiting,    \* the queue, first in first out
    running,    \* the job each worker runs
    completed,  \* ids of the completed jobs still known, oldest first
    edits, faults

vars == <<check, due, plan, waiting, running, completed, edits, faults>>
queue == <<waiting, running, completed>>
counts == <<edits, faults>>

Never == 0    \* lastEventAt is null
Stamps == 1 .. MaxStamp

CheckRow == [live : BOOLEAN, type : {"ACTIVE", "HEARTBEAT"}, paused : BOOLEAN,
             interval : Intervals, lastEventAt : Stamps \cup {Never}]

\* dueAt: createdAt when there is no last event, whatever the interval.
Key(c) == IF check[c].lastEventAt = Never THEN <<Never>>
                                          ELSE <<check[c].lastEventAt, check[c].interval>>

Keys == {<<Never>>} \cup (Stamps \X Intervals)

\* probeJobId
Id(c) == <<c, Key(c)>>
Ids == Checks \X Keys

Job == [id : Ids, tries : 0 .. MaxTries]
Run == [job : Job, step : {"probing", "measured", "recorded"}, at : Stamps \cup {Never}]

ASSUME NullAssumption == Null \notin Run

Probeable(c) == check[c].live /\ check[c].type = "ACTIVE" /\ ~check[c].paused

\* Faulty: a check without a last event is never due.
CandidateOnceProbed(c) == Probeable(c) /\ due[c] /\ check[c].lastEventAt # Never

\* findDueProbes
Candidate(c) == Probeable(c) /\ due[c]

Known == {waiting[i].id : i \in DOMAIN waiting}
            \cup {running[w].job.id : w \in {v \in Workers : running[v] # Null}}
            \cup Range(completed)

\* The instants something still refers to for a check.
InUse(c) ==
    {check[c].lastEventAt}
      \cup {running[w].at : w \in {v \in Workers : running[v] # Null /\ running[v].job.id[1] = c}}
      \cup {x[2][1] : x \in {y \in Known \cup UNION {plan[s] : s \in Schedulers} : y[1] = c}}

\* The clock: two readings for a check are never equal, and which is later
\* does not matter.
Now(c, t) == t \in Stamps \ InUse(c) /\ \A u \in Stamps \ InUse(c) : t <= u

Fault == faults < MaxFaults /\ faults' = faults + 1 /\ edits' = edits

-----------------------------------------------------------------------------
(* Users, pings and time *)

Edit(c, r, d) ==
    /\ edits < MaxEdits /\ edits' = edits + 1
    /\ check' = [check EXCEPT ![c] = r]
    /\ due' = [due EXCEPT ![c] = d]
    /\ UNCHANGED <<plan, queue, faults>>

Pause(c) == check[c].live /\ Edit(c, [check[c] EXCEPT !.paused = TRUE], due[c])

Resume(c) == check[c].live /\ Edit(c, [check[c] EXCEPT !.paused = FALSE], due[c])

\* Another interval may put the next occurrence in the past or in the future.
DueAfter(c) == IF check[c].lastEventAt = Never THEN {due[c]} ELSE BOOLEAN

EditInterval(c, i) ==
    /\ check[c].live /\ check[c].type = "ACTIVE"
    /\ \E d \in DueAfter(c) : Edit(c, [check[c] EXCEPT !.interval = i], d)

\* The status becomes NEW and lastEventAt null: the occurrence is createdAt again.
ConvertToHeartbeat(c) ==
    /\ check[c].live /\ check[c].type = "ACTIVE"
    /\ Edit(c, [check[c] EXCEPT !.type = "HEARTBEAT", !.paused = FALSE, !.lastEventAt = Never], TRUE)

ConvertToActive(c, i) ==
    /\ check[c].live /\ check[c].type = "HEARTBEAT"
    /\ \E d \in DueAfter(c) : Edit(c, [check[c] EXCEPT !.type = "ACTIVE", !.interval = i], d)

Delete(c) == check[c].live /\ Edit(c, [check[c] EXCEPT !.live = FALSE], FALSE)

\* recordPing, on a check that is a heartbeat for now.
Ping(c) ==
    /\ check[c].live /\ check[c].type = "HEARTBEAT"
    /\ \E t \in Stamps : Now(c, t) /\
           Edit(c, [check[c] EXCEPT !.paused = FALSE, !.lastEventAt = t], FALSE)

Users == \E c \in Checks :
    \/ Pause(c) \/ Resume(c) \/ ConvertToHeartbeat(c) \/ Delete(c) \/ Ping(c)
    \/ \E i \in Intervals : EditInterval(c, i) \/ ConvertToActive(c, i)

\* The interval has passed since the last event.
BecomesDue(c) ==
    /\ check[c].live /\ ~due[c]
    /\ due' = [due EXCEPT ![c] = TRUE]
    /\ UNCHANGED <<check, plan, queue, counts>>

-----------------------------------------------------------------------------
(* Schedulers: scheduleDueProbes *)

\* The schedulers' query; a run that finds nothing changes nothing.
Read(s) ==
    /\ plan[s] = {}
    /\ plan' = [plan EXCEPT ![s] = {Id(c) : c \in {d \in Checks : Candidate(d)}}]
    /\ UNCHANGED <<check, due, queue, counts>>

\* Faulty: jobs are added without an id.
AddedAgain(x) == waiting' = Append(waiting, [id |-> x, tries |-> 0])

\* Queue.add with a jobId: nothing happens while the queue knows the id.
Added(x) == waiting' = IF x \in Known THEN waiting ELSE Append(waiting, [id |-> x, tries |-> 0])

Add(s, x) ==
    /\ x \in plan[s]
    /\ Added(x)
    /\ plan' = [plan EXCEPT ![s] = @ \ {x}]
    /\ UNCHANGED <<check, due, running, completed, counts>>

\* Lease lost, scheduler stopped, or a call to the queue fails, perhaps after
\* it was obeyed: the rest of the run is dropped.
Abort(s) ==
    /\ plan[s] # {}
    /\ Fault
    /\ waiting' = waiting \/ \E x \in plan[s] : Added(x)
    /\ plan' = [plan EXCEPT ![s] = {}]
    /\ UNCHANGED <<check, due, running, completed>>

-----------------------------------------------------------------------------
(* Workers: the probe queue's consumer and handleProbe *)

Retained(x) == LET all == Append(completed, x) IN
    completed' = SubSeq(all, IF Len(all) > Keep THEN Len(all) - Keep + 1 ELSE 1, Len(all))

Set(w, r) == running' = [running EXCEPT ![w] = r]

Start(w) ==
    /\ running[w] = Null /\ waiting # <<>>
    /\ Probeable(Head(waiting).id[1])
    /\ Set(w, [job |-> Head(waiting), step |-> "probing", at |-> Never])
    /\ waiting' = Tail(waiting)
    /\ UNCHANGED <<check, due, plan, completed, counts>>

\* Deleted, paused or converted: the job completes without a probe.
Skip(w) ==
    /\ running[w] = Null /\ waiting # <<>>
    /\ ~Probeable(Head(waiting).id[1])
    /\ Retained(Head(waiting).id)
    /\ waiting' = Tail(waiting)
    /\ UNCHANGED <<check, due, plan, running, counts>>

Measure(w) ==
    /\ running[w] # Null /\ running[w].step = "probing"
    /\ \E t \in Stamps : Now(running[w].job.id[1], t) /\
           Set(w, [running[w] EXCEPT !.step = "measured", !.at = t])
    /\ UNCHANGED <<check, due, plan, waiting, completed, counts>>

\* Faulty: the time of the event is not written.
RecordKeepsTime(w) ==
    LET c == running[w].job.id[1] IN
    /\ running[w] # Null /\ running[w].step = "measured"
    /\ Probeable(c)
    /\ due' = [due EXCEPT ![c] = FALSE]
    /\ Set(w, [running[w] EXCEPT !.step = "recorded"])
    /\ UNCHANGED <<check, plan, waiting, completed, counts>>

Record(w) ==
    LET c == running[w].job.id[1] IN
    /\ running[w] # Null /\ running[w].step = "measured"
    /\ Probeable(c)
    /\ check' = [check EXCEPT ![c].lastEventAt = running[w].at]
    /\ due' = [due EXCEPT ![c] = FALSE]
    /\ Set(w, [running[w] EXCEPT !.step = "recorded"])
    /\ UNCHANGED <<plan, waiting, completed, counts>>

\* After the commit, or without one when the check is no longer to be probed.
Complete(w) ==
    /\ running[w] # Null
    /\ \/ running[w].step = "recorded"
       \/ running[w].step = "measured" /\ ~Probeable(running[w].job.id[1])
    /\ Retained(running[w].job.id)
    /\ Set(w, Null)
    /\ UNCHANGED <<check, due, plan, waiting, counts>>

\* The database, the alert queue or the worker fails, before the commit or
\* after it.  The job is run again, and removed when it has no try left.
Fail(w) ==
    LET job == running[w].job IN
    /\ running[w] # Null
    /\ Fault
    /\ waiting' = IF job.tries + 1 < MaxTries
                    THEN Append(waiting, [job EXCEPT !.tries = @ + 1])
                    ELSE waiting
    /\ Set(w, Null)
    /\ UNCHANGED <<check, due, plan, completed>>

-----------------------------------------------------------------------------

\* Checks of the first day: created, never probed and never pinged.
Init ==
    /\ check \in [Checks -> [live : {TRUE}, type : {"ACTIVE", "HEARTBEAT"}, paused : {FALSE},
                             interval : Intervals, lastEventAt : {Never}]]
    /\ due = [c \in Checks |-> FALSE]
    /\ plan = [s \in Schedulers |-> {}]
    /\ waiting = <<>> /\ completed = <<>>
    /\ running = [w \in Workers |-> Null]
    /\ edits = 0 /\ faults = 0

Work(w) == Start(w) \/ Skip(w) \/ Measure(w) \/ Record(w) \/ Complete(w)

Next ==
    \/ Users
    \/ \E c \in Checks : BecomesDue(c)
    \/ \E s \in Schedulers : Read(s) \/ Abort(s) \/ (\E x \in plan[s] : Add(s, x))
    \/ \E w \in Workers : Work(w) \/ Fail(w)

Spec == Init /\ [][Next]_vars

-----------------------------------------------------------------------------
(* Properties *)

\* Every variable has the type its declaration says; the queue keeps at most
\* Keep completed jobs.
TypeOK ==
    /\ check \in [Checks -> CheckRow]
    /\ due \in [Checks -> BOOLEAN]
    /\ plan \in [Schedulers -> SUBSET Ids]
    /\ waiting \in Seq(Job)
    /\ running \in [Workers -> Run \cup {Null}]
    /\ completed \in Seq(Ids) /\ Len(completed) <= Keep
    /\ edits \in 0 .. MaxEdits /\ faults \in 0 .. MaxFaults

\* The queue holds an occurrence once, whichever schedulers found it: it is
\* never probed by two workers at the same time (scheduler-lifecycle.test.ts:159).
OccurrenceHeldOnce ==
    /\ \A i, j \in DOMAIN waiting : waiting[i].id = waiting[j].id => i = j
    /\ \A w, v \in {u \in Workers : running[u] # Null} :
           running[w].job.id = running[v].job.id => w = v
    /\ \A w \in {u \in Workers : running[u] # Null} : \A i \in DOMAIN waiting :
           running[w].job.id # waiting[i].id

\* Before anybody pauses or converts a check, a job completes only after it has
\* moved its check to another occurrence: what the queue remembers never hides
\* an occurrence that is still to be probed.
RememberedIsRecorded == edits = 0 => \A c \in Checks : Probeable(c) => Id(c) \notin Range(completed)

\* A check that is due is probed (or no longer to be probed), whatever failed
\* before and whatever users do: only a job that the queue remembers can keep
\* it from its probe (probe-scheduler.ts:13-26, worker/README.md:3-4).
DueIsProbedUnlessRemembered ==
    \A c \in Checks : Probeable(c) /\ due[c] ~>
                          (~(Probeable(c) /\ due[c])) \/ Id(c) \in Range(completed)

\* What the queue knows is each occurrence once, and none that is still to be
\* probed and that nobody has.
QueueIsSound == TypeOK /\ OccurrenceHeldOnce /\ RememberedIsRecorded
=============================================================================
