------------------------------ MODULE Overview ------------------------------
(* The account overview (overview.service.ts, overview-aggregate.ts): what   *)
(* is broken now, and how long it was broken in a range, from checks and     *)
(* outages.  A query q has the time it is made, the start of its range, the  *)
(* starts of its buckets, the checks and the outages it has read.            *)
EXTENDS Integers, SequencesExt, FiniteSetsExt

CONSTANTS
    Open,               \* ended_at is null; later than any time
    NoEvent,              \* lastEventAt is null; earlier than any time
    MaxTimelineSpans    \* MAX_TIMELINE_SPANS

ASSUME NullTimeAssumption == Open \in Nat /\ NoEvent \in Int /\ NoEvent < 0 /\ MaxTimelineSpans \in Nat \ {0}

-----------------------------------------------------------------------------
(* Outages, clipped to the range *)

\* The WHERE of the outages' query.
Overlaps(o, now, rangeStart) == o.from < now /\ o.to > rangeStart

\* Faulty: the whole outage counts.
StartUnclipped(q, o) == o.from

Start(q, o) == Max({o.from, q.rangeStart})
End(q, o) == IF o.to = Open THEN q.now ELSE o.to
Seconds(q, o) == Max({0, End(q, o) - Start(q, o)})

Broken(q, S) == MapThenSumSet(LAMBDA o : Seconds(q, o), S)

\* Each bucket ends where the next one starts, the last one now.
BucketSeconds(q, start) ==
    LET lo == Max({start, q.rangeStart})
        later == {s \in q.bucketStarts : s > start}
        hi == Min({q.now} \cup later)
        in(o) == Max({0, Min({End(q, o), hi}) - Max({Start(q, o), lo})})
    IN  MapThenSumSet(in, q.outages)

\* generate_series from the truncated start of the range.
BucketStarts(rangeStart, now, width) ==
    {s \in ((rangeStart \div width) * width) .. now : s % width = 0}

-----------------------------------------------------------------------------
(* The timeline: at most MaxTimelineSpans spans of outages close together *)

Span(q, o) == [start |-> Start(q, o), end |-> Max({Start(q, o), End(q, o)}),
               open |-> o.to = Open, count |-> 1, seconds |-> Seconds(q, o)]

\* Faulty: the last outage's end is taken for the span's.
JoinedToTheLast(a, b) ==
    [start |-> a.start, end |-> b.end, open |-> b.open, count |-> b.count, seconds |-> a.seconds + b.seconds]

\* The open flag follows whichever outage ends last; ties prefer open.
Joined(a, b) ==
    [start |-> a.start, end |-> Max({a.end, b.end}),
     open |-> IF b.end > a.end THEN b.open ELSE a.open \/ (b.end = a.end /\ b.open),
     count |-> a.count + b.count, seconds |-> a.seconds + b.seconds]

coalesce(spans, gap) ==
    FoldLeft(LAMBDA merged, s :
                 IF merged = <<>> \/ s.start - Last(merged).end >= gap
                   THEN Append(merged, s)
                   ELSE [merged EXCEPT ![Len(merged)] = Joined(@, s)],
             <<>>, spans)

Earlier(a, b) == a.start < b.start \/ (a.start = b.start /\ a.end < b.end)

\* The gap starts at a thousandth of the range and is doubled until the spans are few enough.
timelineSpans(q, S) ==
    LET sorted == SetToSortSeq({Span(q, o) : o \in S}, Earlier)
        first == Max({1, (q.now - q.rangeStart) \div 1000})
        after[k \in 0 .. Len(sorted)] ==
            IF k = 0 THEN coalesce(sorted, first) ELSE coalesce(after[k - 1], first * 2 ^ k)
    IN  after[Min({k \in DOMAIN after : Len(after[k]) <= MaxTimelineSpans})]

-----------------------------------------------------------------------------
(* Totals *)

\* Twice the median, to stay with integers.
median(sorted) ==
    LET mid == Len(sorted) \div 2 IN
    IF sorted = <<>> THEN NoEvent
    ELSE IF Len(sorted) % 2 = 1 THEN 2 * sorted[mid + 1]
    ELSE sorted[mid] + sorted[mid + 1]

Durations(q) ==
    LET byLength == SetToSortSeq(q.outages, LAMBDA a, b : Seconds(q, a) < Seconds(q, b))
    IN  [i \in DOMAIN byLength |-> Seconds(q, byLength[i])]

OutagesOf(q, c) == {o \in q.outages : o.check = c.id}

isMeasured(c) == ~(c.status = "PAUSED" \/ (c.status = "NEW" /\ c.lastEventAt = NoEvent))

monitoredSeconds(q, c) == Max({0, q.now - Max({q.rangeStart, c.createdAt})})

-----------------------------------------------------------------------------
(* What needs fixing *)

\* Late: expected before now, with no upper bound.
lateState(q, c) ==
    /\ c.heartbeat /\ c.status = "UP" /\ c.lastEventAt # NoEvent
    /\ c.lastEventAt + c.period < q.now

\* Faulty: since the first outage of the range.
DownSinceFirst(q, c) ==
    IF OutagesOf(q, c) # {} THEN Min({o.from : o \in OutagesOf(q, c)}) ELSE c.lastEventAt

\* The unclipped start of the open outage, if it is there.
DownSince(q, c) ==
    LET open == {o \in OutagesOf(q, c) : o.to = Open} IN
    CASE open # {} -> (CHOOSE o \in open : TRUE).from
      [] open = {} /\ c.lastEventAt # NoEvent -> c.lastEventAt
      [] OTHER -> q.now

needsFixing(q) ==
    {[check |-> c.id, state |-> "DOWN", since |-> DownSince(q, c)] : c \in {d \in q.checks : d.status = "DOWN"}}
    \cup
    {[check |-> c.id, state |-> "LATE", since |-> c.lastEventAt + c.period] : c \in {d \in q.checks : lateState(q, d)}}
=============================================================================
