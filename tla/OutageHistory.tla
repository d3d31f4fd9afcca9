---------------------------- MODULE OutageHistory ----------------------------
(* The history of a check's outages: the trigger that records it, the        *)
(* migration that rebuilds what came before the trigger from events, while   *)
(* events are written, and the overview that reads it.                       *)
(*                                                                           *)
(* One check: the statements of the migration are per check.  Transactions   *)
(* of writers are steps; an event is stamped up to Skew before its           *)
(* transaction commits, so that stamps may disagree with the order of        *)
(* commits ("writers BEGIN before taking the check row lock").               *)
EXTENDS Overview

CONSTANTS
    Interval,     \* interval_seconds of an active check, period of a heartbeat
    MinGap,       \* 300 seconds
    Skew,
    Period,       \* length of the overview's range
    Bucket,       \* and of its buckets
    MaxTime,      \* bound on the clock
    MaxWrites     \* bound on writes

ASSUME LengthAssumption ==
    /\ {Interval, MinGap, Period, Bucket} \subseteq Nat \ {0}
    /\ {Skew, MaxTime, MaxWrites} \subseteq Nat
    /\ Open > MaxTime + Interval

VARIABLES
    time,
    row,        \* the checks row
    events,     \* its check_events, ordered by timestamp and id
    outages,    \* its check_outages
    phase,      \* how far the migrations are
    cutoff,
    staged,     \* backfill_streaks
    writes,
    truth,      \* when the status was DOWN (no code knows)
    plain,      \* nobody paused, resumed or converted the check, and stamps are in the order of commits
    view        \* the overview somebody reads

migration == <<phase, cutoff, staged>>
historyVars == <<time, row, events, outages, phase, cutoff, staged, writes, truth, plain, view>>

Phases == {"before", "recording", "staged", "done"}
CheckStatuses == {"NEW", "UP", "DOWN", "PAUSED"}

NoView == [pc |-> "none", now |-> 0, row |-> <<>>, outages |-> {}, at |-> 0]

Outage(from, to) == [check |-> "c", from |-> from, to |-> to]
IsOpen(o) == o.to = Open

-----------------------------------------------------------------------------
(* Writers and the trigger *)

\* record_check_outage
RecordOutage(S, old, new) ==
    IF new = "DOWN" /\ old # "DOWN"
      THEN IF \E o \in S : IsOpen(o) THEN S ELSE S \cup {Outage(time, Open)}
      ELSE IF old = "DOWN" /\ new # "DOWN"
      THEN {IF IsOpen(o) THEN Outage(o.from, time) ELSE o : o \in S}
      ELSE S

SetsStatus(status) ==
    /\ outages' = IF phase = "before" THEN outages ELSE RecordOutage(outages, row.status, status)
    /\ truth' = RecordOutage(truth, row.status, status)
    /\ UNCHANGED view

\* Nothing that follows the overview is of interest.
Counts == view.pc # "done" /\ writes < MaxWrites /\ writes' = writes + 1

\* The event's place among those with the same stamp is its random id's.
Logs(at, down) ==
    \E i \in 1 .. Len(events) + 1 :
       /\ \A j \in DOMAIN events : IF j < i THEN events[j].at <= at ELSE events[j].at >= at
       /\ events' = InsertAt(events, i, [at |-> at, down |-> down])
       /\ plain' = (plain /\ i = Len(events) + 1 /\ \A e \in ToSet(events) : e.at < at)

Stamps == Max({0, time - Skew}) .. time

\* recordPing, and handleProbe with a good result
Reports(at) ==
    /\ row.heartbeat \/ row.status # "PAUSED"
    /\ Counts
    /\ Logs(at, FALSE)
    /\ SetsStatus("UP")
    /\ row' = [row EXCEPT !.status = "UP", !.lastEventAt = at, !.updatedAt = time]
    /\ UNCHANGED <<time, migration>>

\* handleProbe with a bad result
Fails(at) ==
    /\ ~row.heartbeat /\ row.status # "PAUSED"
    /\ Counts
    /\ Logs(at, TRUE)
    /\ SetsStatus("DOWN")
    /\ row' = [row EXCEPT !.status = "DOWN", !.lastEventAt = at, !.updatedAt = time]
    /\ UNCHANGED <<time, migration>>

\* sweepOverdue, with no grace; it leaves lastEventAt.
IsMissed(at) ==
    /\ row.heartbeat /\ row.status = "UP" /\ row.lastEventAt + row.period < time
    /\ Counts
    /\ Logs(at, TRUE)
    /\ SetsStatus("DOWN")
    /\ row' = [row EXCEPT !.status = "DOWN", !.updatedAt = time]
    /\ UNCHANGED <<time, migration>>

\* Pauses, resumptions and conversions write no event.
Edits(edited) ==
    /\ Counts
    /\ SetsStatus(edited.status)
    /\ row' = [edited EXCEPT !.updatedAt = time]
    /\ plain' = FALSE
    /\ UNCHANGED <<time, events, migration>>

Pauses == Edits([row EXCEPT !.status = "PAUSED"])

Resumes == Edits([row EXCEPT !.status = "NEW"])

ConvertsToHeartbeat ==
    /\ ~row.heartbeat
    /\ Edits([row EXCEPT !.heartbeat = TRUE, !.status = "NEW", !.lastEventAt = NoEvent])

ConvertsToActive ==
    /\ row.heartbeat
    /\ Edits([row EXCEPT !.heartbeat = FALSE])

TimePasses ==
    /\ view.pc # "done" /\ time < MaxTime
    /\ time' = time + 1
    /\ UNCHANGED <<row, events, outages, migration, writes, truth, plain, view>>

-----------------------------------------------------------------------------
(* The migrations *)

\* 20261104120000_check_outages: the cutoff is taken when the trigger exists.
Installs ==
    /\ phase = "before"
    /\ phase' = "recording"
    /\ cutoff' = time
    /\ UNCHANGED <<time, row, events, outages, staged, writes, truth, plain, view>>

\* Probes of an active check further apart than this tell of a pause.
Gap(e, f) == ~row.heartbeat /\ f.at - e.at > Max({3 * Interval, MinGap})

Begins(i) == events[i].down /\ (i = 1 \/ ~events[i - 1].down \/ Gap(events[i - 1], events[i]))

Ends(i) ==
    /\ events[i].down
    /\ (i = Len(events) \/ ~events[i + 1].down \/ Gap(events[i], events[i + 1]))

\* Faulty: a streak ends with its last DOWN event.
EndOfLast(i) == IF i = Len(events) THEN Open ELSE events[i].at

EndAfter(i) ==
    IF i = Len(events) THEN Open
    ELSE IF Gap(events[i], events[i + 1]) THEN events[i].at + Interval
    ELSE events[i + 1].at

Streaks ==
    {Outage(events[i].at, EndAfter(Min({j \in DOMAIN events : j >= i /\ Ends(j)}))) :
       i \in {j \in DOMAIN events : Begins(j)}}

\* (a) One snapshot, without a lock.
Scans ==
    /\ phase = "recording"
    /\ phase' = "staged"
    /\ staged' = {s \in Streaks : s.from < cutoff}
    /\ UNCHANGED <<time, row, events, outages, cutoff, writes, truth, plain, view>>

\* The migration fails, and is run again with its original cutoff.
RollsBack ==
    /\ phase = "staged"
    /\ phase' = "recording"
    /\ staged' = {}
    /\ UNCHANGED <<time, row, events, outages, cutoff, writes, truth, plain, view>>

\* The first event after an unterminated streak that is not DOWN.
Recoveries(u) == {e \in ToSet(events) : ~e.down /\ e.at > u.from}

\* (c) An unterminated streak, resolved against live data.
Resolved(u) ==
    IF Recoveries(u) # {} THEN {Outage(u.from, Min({e.at : e \in Recoveries(u)}))}
    ELSE IF row.status # "DOWN" THEN {Outage(u.from, row.updatedAt)}
    ELSE IF \E o \in outages : IsOpen(o) THEN {}
    ELSE {u}

\* Faulty: a check that is DOWN has been found by the scan.
CompletedNever(S) == S

\* A DOWN check without an open outage.
Completed(S) ==
    IF row.status = "DOWN" /\ ~\E o \in S : IsOpen(o)
      THEN S \cup {Outage(IF row.lastEventAt # NoEvent THEN row.lastEventAt ELSE row.updatedAt, Open)}
      ELSE S

IslandStarts(S, from) == \A o \in S : o.from < from => o.to < from

\* Faulty: takes it that the trigger's outages follow the rebuilt ones.
NotMerged(S) == S

\* (d) Overlapping outages are merged: an island starts after the end of all before it.
Islands(S) ==
    LET starts == {o.from : o \in {p \in S : IslandStarts(S, p.from)}}
        island(s) == {o \in S : o.from >= s /\ \A t \in starts : t > s => o.from < t}
    IN  {Outage(s, Max({o.to : o \in island(s)})) : s \in starts}

Inserted ==
    LET closed == {s \in staged : ~IsOpen(s)}
        resolved == UNION {Resolved(u) : u \in staged \ closed}
    IN  Completed(outages \cup closed \cup resolved)

\* (b) to (e), with "checks" locked.
Merges ==
    /\ phase = "staged"
    /\ phase' = "done"
    /\ outages' = Islands(Inserted)
    /\ staged' = {}
    /\ UNCHANGED <<time, row, events, cutoff, writes, truth, plain, view>>

-----------------------------------------------------------------------------
(* The overview, of the API that is started after the migrations.  Its time, *)
(* its checks and its outages are of three moments.                          *)

Asks ==
    /\ phase = "done" /\ view.pc = "none"
    /\ view' = [view EXCEPT !.pc = "checks", !.now = time]
    /\ UNCHANGED <<time, row, events, outages, migration, writes, truth, plain>>

ReadsChecks ==
    /\ view.pc = "checks"
    /\ view' = [view EXCEPT !.pc = "outages", !.row = row]
    /\ UNCHANGED <<time, row, events, outages, migration, writes, truth, plain>>

ReadsOutages ==
    /\ view.pc = "outages"
    /\ view' = [view EXCEPT !.pc = "done", !.at = time,
                            !.outages = {o \in outages : Overlaps(o, view.now, view.now - Period)}]
    /\ UNCHANGED <<time, row, events, outages, migration, writes, truth, plain>>

-----------------------------------------------------------------------------
HistoryInit ==
    /\ time = 0
    /\ row \in [status : {"NEW"}, heartbeat : BOOLEAN, lastEventAt : {NoEvent}, updatedAt : {0},
                period : {Interval}, createdAt : {0}, id : {"c"}]
    /\ events = <<>> /\ outages = {} /\ truth = {}
    /\ phase = "before" /\ cutoff = 0 /\ staged = {}
    /\ writes = 0 /\ plain = TRUE /\ view = NoView

Writers ==
    \/ \E at \in Stamps : Reports(at) \/ Fails(at) \/ IsMissed(at)
    \/ Pauses \/ Resumes \/ ConvertsToHeartbeat \/ ConvertsToActive

Migrates == Installs \/ Scans \/ RollsBack \/ Merges

Reader == Asks \/ ReadsChecks \/ ReadsOutages

HistoryNext == Writers \/ TimePasses \/ Migrates \/ Reader

HistorySpec == HistoryInit /\ [][HistoryNext]_historyVars

-----------------------------------------------------------------------------
\* The type invariant.
HistoryTypeOK ==
    /\ time \in 0 .. MaxTime
    /\ row.status \in CheckStatuses /\ row.heartbeat \in BOOLEAN
    /\ row.lastEventAt \in {NoEvent} \cup 0 .. time /\ row.updatedAt \in 0 .. time
    /\ \A e \in ToSet(events) : e.at \in 0 .. time /\ e.down \in BOOLEAN
    /\ \A o \in outages \cup staged \cup truth : o.from \in 0 .. time /\ o.to \in (0 .. time) \cup {Open}
    /\ phase \in Phases /\ cutoff \in 0 .. time
    /\ writes \in 0 .. MaxWrites
    /\ view.pc \in {"none", "checks", "outages", "done"}

Opened == {o \in outages : IsOpen(o)}

\* At most one outage is open, and after the backfill there is one if and only
\* if the check is DOWN, whatever was written while it ran.
OpenIffDown ==
    /\ Cardinality(Opened) <= 1
    /\ Opened # {} => row.status = "DOWN"
    /\ phase = "done" /\ row.status = "DOWN" => Opened # {}

\* After the backfill no moment belongs to two outages, for ever: the overview
\* adds their lengths up.
Disjoint ==
    phase = "done" => \A o, p \in outages : o # p => o.to <= p.from \/ p.to <= o.from

During(S, t) == \E o \in S : o.from <= t /\ t < o.to

HasGap == \E i \in 1 .. Len(events) - 1 : events[i].down /\ Gap(events[i], events[i + 1])

\* Nobody paused or converted the check, no probe was missing, stamps tell the
\* order of commits, and none is the cutoff's own.
Telling == plain /\ ~HasGap /\ \A e \in ToSet(events) : e.at # cutoff

\* What happened can then be told from the history: it is when the check was
\* DOWN, but for the difference between stamps and commits.
HistoryIsTrue ==
    phase = "done" /\ Telling =>
        \A t \in 0 .. time - 1 :
            \/ During(outages, t) = During(truth, t)
            \/ \E e \in ToSet(events) : e.at <= t /\ t < e.at + Skew

Query ==
    [now |-> view.now, rangeStart |-> view.now - Period, bucket |-> Bucket,
     bucketStarts |-> BucketStarts(view.now - Period, view.now, Bucket),
     checks |-> {view.row}, outages |-> view.outages]

SumOfBuckets(q) == MapThenSumSet(LAMBDA s : BucketSeconds(q, s), q.bucketStarts)

\* The parts of an overview add up: the buckets to the broken time, but for
\* what was written after the time of the query; the spans of the timeline, few and
\* apart, to the outages and to the broken time; and half of the outages are as
\* long as the median at least, half at most.
ViewAddsUp ==
    view.pc = "done" =>
      LET q == Query
          total == Broken(q, q.outages)
          spans == timelineSpans(q, q.outages)
          sum(f) == MapThenSumSet(LAMBDA i : spans[i][f], DOMAIN spans)
          m == median(Durations(q))
      IN  /\ SumOfBuckets(q) <= total
          /\ total <= SumOfBuckets(q) + (view.at - view.now)
          /\ Len(spans) <= MaxTimelineSpans
          /\ sum("count") = Cardinality(q.outages)
          /\ sum("seconds") = total
          /\ \A i \in 1 .. Len(spans) - 1 : spans[i].end < spans[i + 1].start
          /\ \A i \in DOMAIN spans : spans[i].seconds <= spans[i].end - spans[i].start
          /\ 2 * Cardinality({o \in q.outages : 2 * Seconds(q, o) <= m}) >= Cardinality(q.outages)
          /\ 2 * Cardinality({o \in q.outages : 2 * Seconds(q, o) >= m}) >= Cardinality(q.outages)

\* A check whose uptime is told is broken for no more than the time it was
\* watched, so that it is a percentage: but for outages that ended after the time of the query.
UptimeIsAShare ==
    view.pc = "done" /\ isMeasured(view.row) =>
        Broken(Query, view.outages) <= monitoredSeconds(Query, view.row) + (view.at - view.now)

\* Of S nothing was stamped after the moment since and committed before the query.
NoneSince(S, since) == \A e \in S : e.at <= since \/ e.at >= view.now - Skew

\* Whatever is written between the three reads, a check that needs fixing as
\* DOWN was DOWN during the query, and one that was DOWN throughout is among
\* them, and not as late: since it went DOWN, if the history tells of it. One whose
\* outage is not read (it was over by then, or began after the query's time)
\* is said to be DOWN since an event that no good one followed; and one that
\* is late was not heard of since it was due.
FixedWhenBroken ==
    view.pc = "done" =>
        LET fix == needsFixing(Query)
            down == {e \in fix : e.state = "DOWN"}
            late == {e \in fix : e.state = "LATE"}
        IN
        /\ \A e \in fix : e.since <= view.at
        /\ down # {} => \E o \in truth : o.to >= view.now
        /\ \A o \in truth : IsOpen(o) /\ o.from < view.now =>
              /\ down # {} /\ late = {}
              /\ Telling => \A e \in down : /\ e.since <= o.from
                                          /\ \A t \in e.since + Skew .. view.at - 1 : During(truth, t)
        /\ plain =>
              /\ (\A o \in view.outages : ~IsOpen(o)) =>
                    \A e \in down : NoneSince({f \in ToSet(events) : ~f.down}, e.since)
              /\ \A e \in late : NoneSince(ToSet(events), e.since - Interval)

\* The outages of a check are apart, the last is open while it is DOWN, and they
\* are when it was DOWN.
HistoryIsSound == HistoryTypeOK /\ OpenIffDown /\ Disjoint /\ HistoryIsTrue

\* The parts of an overview add up, and to no more than there is.
ViewIsSound == ViewAddsUp /\ UptimeIsAShare
=============================================================================
