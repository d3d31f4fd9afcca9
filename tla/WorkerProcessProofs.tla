------------------------ MODULE WorkerProcessProofs -------------------------
(* What a worker promises, for any number of checks, schedulers and workers, *)
(* any number of tries, of jobs remembered and of jobs at the same time: of  *)
(* the probe queue (ProbeDispatch), of its life (WorkerLifecycle), and of    *)
(* the leases its schedulers work under (SchedulerLease), with every TTL and *)
(* every delay that leaves two renewal intervals of it.                      *)
EXTENDS WorkerProcess, SchedulerLease, SequenceTheorems, TLAPS

-----------------------------------------------------------------------------
(* The queue: its inductive invariant *)

Busy == {w \in Workers : running[w] # Null}

\* The occurrences that somebody still refers to.
Referred == Known \cup UNION {plan[s] : s \in Schedulers}

CheckOf(w) == running[w].job.id[1]

StepsInOrder == \A w \in Busy : running[w].at = Never <=> running[w].step = "probing"

\* The instant that a job has measured names no occurrence that anybody knows
\* of, and no other job has it.
IsNew(w) ==
    /\ running[w].at # check[CheckOf(w)].lastEventAt
    /\ \A x \in Referred : x[1] = CheckOf(w) => x[2][1] # running[w].at
    /\ \A v \in Busy : v # w /\ CheckOf(v) = CheckOf(w) => running[v].at # running[w].at

MeasuredIsNew == \A w \in Busy : running[w].step = "measured" => IsNew(w)

\* A job that has recorded its event has left its own occurrence behind.
RecordedMovesOn ==
    \A w \in Busy : running[w].step = "recorded" /\ Probeable(CheckOf(w)) => running[w].job.id # Id(CheckOf(w))

\* Nothing of what the queue remembers is still to be probed.
NothingHidden == \A c \in Checks : Probeable(c) => Id(c) \notin Range(completed)

\* Users can bring an occurrence back, by a conversion or a pause.
NobodyEdited == edits = 0 => RecordedMovesOn /\ NothingHidden

IInv == TypeOK /\ OccurrenceHeldOnce /\ StepsInOrder /\ MeasuredIsNew /\ NobodyEdited

-----------------------------------------------------------------------------
(* Occurrences and the queue *)

\* An occurrence is named by its check and the instant of the last event.
LEMMA IdTyped ==
    ASSUME TypeOK, NEW c \in Checks
    PROVE  Id(c) \in Ids /\ Id(c)[1] = c /\ Id(c)[2][1] = check[c].lastEventAt
BY DEF TypeOK, CheckRow, Id, Key, Keys, Ids

LEMMA KnownAre ==
    ASSUME NEW x
    PROVE  x \in Known <=> \/ \E i \in DOMAIN waiting : waiting[i].id = x
                           \/ \E w \in Busy : running[w].job.id = x
                           \/ \E i \in DOMAIN completed : completed[i] = x
BY DEF Known, Busy, Range

LEMMA RetainedTyped ==
    ASSUME completed \in Seq(Ids), NEW x \in Ids, Retained(x)
    PROVE  /\ completed' \in Seq(Ids) /\ Len(completed') <= Keep
           /\ Range(completed') \subseteq Range(completed) \cup {x}
<1> DEFINE all == Append(completed, x)
           m == IF Len(all) > Keep THEN Len(all) - Keep + 1 ELSE 1
           n == Len(all)
<1>1. /\ all \in Seq(Ids) /\ n = Len(completed) + 1 /\ n \in Nat
      /\ \A i \in 1 .. n : all[i] \in Range(completed) \cup {x}
  BY DEF Range
<1>2. completed' = SubSeq(all, m, n)
  BY DEF Retained
<1> HIDE DEF all
<1>3. m \in 1 .. n + 1 /\ n - m + 1 <= Keep
  BY <1>1, BoundAssumption
<1> HIDE DEF m
<1>4. \A i \in m .. n : all[i] \in Ids
  BY <1>1, <1>3
<1>5. /\ completed' \in Seq(Ids)
      /\ Len(completed') = IF m <= n THEN n - m + 1 ELSE 0
      /\ \A i \in 1 .. n - m + 1 : completed'[i] = all[m + i - 1]
  BY <1>1, <1>2, <1>3, <1>4, SubSeqProperties
<1>6. Len(completed') <= Keep
  BY <1>1, <1>3, <1>5, BoundAssumption
<1>7. ASSUME NEW i \in DOMAIN completed'
      PROVE  completed'[i] \in Range(completed) \cup {x}
  <2>1. i \in 1 .. n - m + 1 /\ m + i - 1 \in 1 .. n
    BY <1>1, <1>3, <1>5
  <2> QED BY <1>1, <1>5, <2>1
<1> QED BY <1>5, <1>6, <1>7 DEF Range

LEMMA JobTyped ==
    ASSUME TypeOK, NEW w \in Busy
    PROVE  /\ w \in Workers /\ running[w] \in Run /\ running[w].job \in Job
           /\ running[w].job.id \in Ids /\ CheckOf(w) \in Checks
BY DEF TypeOK, Busy, Run, Job, Ids, CheckOf

-----------------------------------------------------------------------------
(* The types *)

LEMMA EditTyped ==
    ASSUME TypeOK, NEW c \in Checks, NEW r \in CheckRow, NEW d \in BOOLEAN, Edit(c, r, d)
    PROVE  TypeOK'
BY BoundAssumption DEF TypeOK, Edit, queue

LEMMA UsersTyped ==
    ASSUME TypeOK, Users
    PROVE  TypeOK'
<1>1. PICK c \in Checks :
         \/ Pause(c) \/ Resume(c) \/ ConvertToHeartbeat(c) \/ Delete(c) \/ Ping(c)
         \/ \E i \in Intervals : EditInterval(c, i) \/ ConvertToActive(c, i)
  BY DEF Users
<1>2. check[c] \in CheckRow /\ due[c] \in BOOLEAN
  BY DEF TypeOK
<1>3. CASE Pause(c)
  <2>1. [check[c] EXCEPT !.paused = TRUE] \in CheckRow
    BY <1>2 DEF CheckRow
  <2> QED BY <1>2, <1>3, <2>1, EditTyped DEF Pause
<1>4. CASE Resume(c)
  <2>1. [check[c] EXCEPT !.paused = FALSE] \in CheckRow
    BY <1>2 DEF CheckRow
  <2> QED BY <1>2, <1>4, <2>1, EditTyped DEF Resume
<1>5. CASE ConvertToHeartbeat(c)
  <2>1. [check[c] EXCEPT !.type = "HEARTBEAT", !.paused = FALSE, !.lastEventAt = Never] \in CheckRow
    BY <1>2 DEF CheckRow
  <2> QED BY <1>5, <2>1, EditTyped DEF ConvertToHeartbeat
<1>6. CASE Delete(c)
  <2>1. [check[c] EXCEPT !.live = FALSE] \in CheckRow
    BY <1>2 DEF CheckRow
  <2> QED BY <1>6, <2>1, EditTyped DEF Delete
<1>7. CASE Ping(c)
  <2>1. PICK t \in Stamps : Edit(c, [check[c] EXCEPT !.paused = FALSE, !.lastEventAt = t], FALSE)
    BY <1>7 DEF Ping
  <2>2. [check[c] EXCEPT !.paused = FALSE, !.lastEventAt = t] \in CheckRow
    BY <1>2 DEF CheckRow
  <2> QED BY <2>1, <2>2, EditTyped
<1>8. CASE \E i \in Intervals : EditInterval(c, i)
  <2>1. PICK i \in Intervals, d \in BOOLEAN : Edit(c, [check[c] EXCEPT !.interval = i], d)
    BY <1>2, <1>8 DEF EditInterval, DueAfter
  <2>2. [check[c] EXCEPT !.interval = i] \in CheckRow
    BY <1>2 DEF CheckRow
  <2> QED BY <2>1, <2>2, EditTyped
<1>9. CASE \E i \in Intervals : ConvertToActive(c, i)
  <2>1. PICK i \in Intervals, d \in BOOLEAN : Edit(c, [check[c] EXCEPT !.type = "ACTIVE", !.interval = i], d)
    BY <1>2, <1>9 DEF ConvertToActive, DueAfter
  <2>2. [check[c] EXCEPT !.type = "ACTIVE", !.interval = i] \in CheckRow
    BY <1>2 DEF CheckRow
  <2> QED BY <2>1, <2>2, EditTyped
<1> QED BY <1>1, <1>3, <1>4, <1>5, <1>6, <1>7, <1>8, <1>9

LEMMA BecomesDueTyped ==
    ASSUME TypeOK, NEW c \in Checks, BecomesDue(c)
    PROVE  TypeOK'
BY DEF TypeOK, BecomesDue, queue, counts

LEMMA ReadTyped ==
    ASSUME TypeOK, NEW s \in Schedulers, Read(s)
    PROVE  TypeOK'
<1>1. {Id(c) : c \in {d \in Checks : Candidate(d)}} \in SUBSET Ids
  BY IdTyped
<1> QED BY <1>1 DEF TypeOK, Read, queue, counts

LEMMA AddedTyped ==
    ASSUME TypeOK, NEW x \in Ids, Added(x)
    PROVE  waiting' \in Seq(Job)
<1>1. [id |-> x, tries |-> 0] \in Job
  BY BoundAssumption DEF Job
<1> QED BY <1>1 DEF TypeOK, Added

LEMMA AddTyped ==
    ASSUME TypeOK, NEW s \in Schedulers, NEW x \in plan[s], Add(s, x)
    PROVE  TypeOK'
<1>1. waiting' \in Seq(Job)
  BY AddedTyped DEF TypeOK, Add
<1> QED BY <1>1 DEF TypeOK, Add, counts

LEMMA AbortTyped ==
    ASSUME TypeOK, NEW s \in Schedulers, Abort(s)
    PROVE  TypeOK'
<1>1. waiting' \in Seq(Job)
  BY AddedTyped DEF TypeOK, Abort
<1> QED BY <1>1, BoundAssumption DEF TypeOK, Abort, Fault

LEMMA HeadTyped ==
    ASSUME TypeOK, waiting # <<>>
    PROVE  Head(waiting) \in Job /\ Head(waiting).id \in Ids /\ Tail(waiting) \in Seq(Job)
<1>1. Head(waiting) \in Job /\ Tail(waiting) \in Seq(Job)
  BY HeadTailProperties DEF TypeOK
<1> QED BY <1>1 DEF Job

LEMMA StartTyped ==
    ASSUME TypeOK, NEW w \in Workers, Start(w)
    PROVE  TypeOK'
<1>1. [job |-> Head(waiting), step |-> "probing", at |-> Never] \in Run
  BY HeadTyped DEF Start, Run
<1> QED BY <1>1, HeadTyped DEF TypeOK, Start, Set, counts

LEMMA SkipTyped ==
    ASSUME TypeOK, NEW w \in Workers, Skip(w)
    PROVE  TypeOK'
<1>1. completed' \in Seq(Ids) /\ Len(completed') <= Keep
  BY HeadTyped, RetainedTyped DEF Skip, TypeOK
<1> QED BY <1>1, HeadTyped DEF TypeOK, Skip, counts

LEMMA MeasureTyped ==
    ASSUME TypeOK, NEW w \in Workers, Measure(w)
    PROVE  TypeOK'
<1>1. PICK t \in Stamps : Set(w, [running[w] EXCEPT !.step = "measured", !.at = t])
  BY DEF Measure
<1>2. [running[w] EXCEPT !.step = "measured", !.at = t] \in Run
  <2>1. w \in Busy
    BY DEF Measure, Busy
  <2>2. running[w] \in Run
    BY <2>1, JobTyped
  <2> QED BY <2>2 DEF Run
<1> QED BY <1>1, <1>2 DEF TypeOK, Measure, Set, counts

LEMMA RecordTyped ==
    ASSUME TypeOK, NEW w \in Workers, Record(w)
    PROVE  TypeOK'
<1> DEFINE c == running[w].job.id[1]
<1>1. w \in Busy
  BY DEF Record, Busy
<1>2. c \in Checks /\ running[w] \in Run
  BY <1>1, JobTyped DEF CheckOf
<1>3. [running[w] EXCEPT !.step = "recorded"] \in Run
  BY <1>2 DEF Run
<1>4. [check[c] EXCEPT !.lastEventAt = running[w].at] \in CheckRow
  <2>1. check[c] \in CheckRow /\ running[w].at \in Stamps \cup {Never}
    BY <1>2 DEF TypeOK, Run
  <2> HIDE DEF c
  <2> QED BY <2>1 DEF CheckRow
<1>5. check' = [check EXCEPT ![c] = [check[c] EXCEPT !.lastEventAt = running[w].at]]
  BY DEF Record, TypeOK, CheckRow
<1>6. /\ running' = [running EXCEPT ![w] = [running[w] EXCEPT !.step = "recorded"]]
      /\ due' = [due EXCEPT ![c] = FALSE]
      /\ UNCHANGED <<plan, waiting, completed, edits, faults>>
  BY DEF Record, Set, counts
<1> HIDE DEF c
<1> QED BY <1>2, <1>3, <1>4, <1>5, <1>6 DEF TypeOK

LEMMA CompleteTyped ==
    ASSUME TypeOK, NEW w \in Workers, Complete(w)
    PROVE  TypeOK'
<1>1. w \in Busy
  BY DEF Complete, Busy
<1>2. completed' \in Seq(Ids) /\ Len(completed') <= Keep
  BY <1>1, JobTyped, RetainedTyped DEF Complete, TypeOK
<1> QED BY <1>2 DEF TypeOK, Complete, Set, counts

LEMMA FailTyped ==
    ASSUME TypeOK, NEW w \in Workers, Fail(w)
    PROVE  TypeOK'
<1>1. w \in Busy
  BY DEF Fail, Busy
<1>2. running[w].job \in Job
  BY <1>1, JobTyped
<1>3. waiting' \in Seq(Job)
  <2>1. CASE running[w].job.tries + 1 < MaxTries
    <3>1. [running[w].job EXCEPT !.tries = @ + 1] \in Job
      BY <1>2, <2>1, BoundAssumption DEF Job
    <3>2. waiting' = Append(waiting, [running[w].job EXCEPT !.tries = @ + 1])
      BY <2>1 DEF Fail
    <3> QED BY <3>1, <3>2 DEF TypeOK
  <2>2. CASE ~(running[w].job.tries + 1 < MaxTries)
    BY <2>2 DEF Fail, TypeOK
  <2> QED BY <2>1, <2>2
<1>4. running' = [running EXCEPT ![w] = Null]
  BY DEF Fail, Set
<1> QED BY <1>3, <1>4, BoundAssumption DEF TypeOK, Fail, Fault

\* The jobs of workers that measure, record or are done.
LEMMA MeasureIs ==
    ASSUME TypeOK, NEW w \in Workers, Measure(w)
    PROVE  \E t \in Stamps, k \in Run :
              /\ Now(CheckOf(w), t)
              /\ k.job = running[w].job /\ k.at = t /\ k.step = "measured"
              /\ running' = [running EXCEPT ![w] = k]
<1>1. w \in Busy
  BY DEF Measure, Busy
<1>2. running[w] \in Run
  BY <1>1, JobTyped
<1>3. PICK t \in Stamps : Now(CheckOf(w), t) /\ Set(w, [running[w] EXCEPT !.step = "measured", !.at = t])
  BY DEF Measure, CheckOf
<1> DEFINE k == [running[w] EXCEPT !.step = "measured", !.at = t]
<1>4. k \in Run /\ k.job = running[w].job /\ k.at = t /\ k.step = "measured"
  BY <1>2 DEF Run
<1>5. running' = [running EXCEPT ![w] = k]
  BY <1>3 DEF Set
<1> HIDE DEF k
<1> QED BY <1>3, <1>4, <1>5

LEMMA RecordIs ==
    ASSUME TypeOK, NEW w \in Workers, Record(w)
    PROVE  \E k \in Run :
              /\ k.job = running[w].job /\ k.at = running[w].at /\ k.step = "recorded"
              /\ running' = [running EXCEPT ![w] = k]
<1>1. w \in Busy
  BY DEF Record, Busy
<1>2. running[w] \in Run
  BY <1>1, JobTyped
<1> DEFINE k == [running[w] EXCEPT !.step = "recorded"]
<1>3. k \in Run /\ k.job = running[w].job /\ k.at = running[w].at /\ k.step = "recorded"
  BY <1>2 DEF Run
<1>4. running' = [running EXCEPT ![w] = k]
  BY DEF Record, Set
<1> HIDE DEF k
<1> QED BY <1>3, <1>4

-----------------------------------------------------------------------------
(* An occurrence is held once *)

\* Who only gives jobs up or goes on with them.
LEMMA HeldKept ==
    ASSUME OccurrenceHeldOnce, UNCHANGED waiting, Busy' \subseteq Busy,
           \A v \in Busy' : running'[v].job = running[v].job
    PROVE  OccurrenceHeldOnce'
<1>1. \A v \in Busy' : v \in Busy /\ running'[v].job.id = running[v].job.id
  OBVIOUS
<1> QED BY <1>1 DEF OccurrenceHeldOnce, Busy

\* A job at the end of the queue whose occurrence nobody has.
LEMMA HeldAppended ==
    ASSUME TypeOK, OccurrenceHeldOnce, NEW job \in Job, waiting' = Append(waiting, job),
           Busy' \subseteq Busy, \A v \in Busy' : running'[v].job = running[v].job,
           \A i \in DOMAIN waiting : waiting[i].id # job.id,
           \A v \in Busy' : running[v].job.id # job.id
    PROVE  OccurrenceHeldOnce'
<1>1. waiting \in Seq(Job)
  BY DEF TypeOK
<1>2. \A i \in DOMAIN waiting' : \/ i \in DOMAIN waiting /\ waiting'[i] = waiting[i]
                                 \/ i = Len(waiting) + 1 /\ waiting'[i] = job
  BY <1>1
<1>3. \A i, j \in DOMAIN waiting' : waiting'[i].id = waiting'[j].id => i = j
  BY <1>2 DEF OccurrenceHeldOnce
<1>4. \A v \in Busy' : v \in Busy /\ running'[v].job.id = running[v].job.id
  OBVIOUS
<1>5. \A v \in Busy' : \A i \in DOMAIN waiting' : running'[v].job.id # waiting'[i].id
  BY <1>2, <1>4 DEF OccurrenceHeldOnce, Busy
<1>6. \A v, u \in Busy' : running'[v].job.id = running'[u].job.id => v = u
  BY <1>4 DEF OccurrenceHeldOnce, Busy
<1> QED BY <1>3, <1>5, <1>6 DEF OccurrenceHeldOnce, Busy

LEMMA AddedHeld ==
    ASSUME TypeOK, OccurrenceHeldOnce, NEW x \in Ids, Added(x), UNCHANGED running
    PROVE  OccurrenceHeldOnce'
<1>1. Busy' = Busy
  BY DEF Busy
<1>2. CASE x \in Known
  <2>1. UNCHANGED waiting
    BY <1>2 DEF Added
  <2> QED BY <1>1, <2>1, HeldKept
<1>3. CASE x \notin Known
  <2> DEFINE job == [id |-> x, tries |-> 0]
  <2>1. job \in Job /\ job.id = x
    BY BoundAssumption DEF Job
  <2>2. waiting' = Append(waiting, job)
    BY <1>3 DEF Added
  <2>3. (\A i \in DOMAIN waiting : waiting[i].id # x) /\ (\A v \in Busy : running[v].job.id # x)
    BY <1>3, KnownAre
  <2> HIDE DEF job
  <2> QED BY <1>1, <2>1, <2>2, <2>3, HeldAppended
<1> QED BY <1>2, <1>3

\* The first job leaves the queue.
LEMMA TailIs ==
    ASSUME TypeOK, waiting # <<>>
    PROVE  /\ 1 \in DOMAIN waiting /\ Head(waiting) = waiting[1]
           /\ \A i \in DOMAIN Tail(waiting) : i + 1 \in DOMAIN waiting /\ Tail(waiting)[i] = waiting[i + 1]
           /\ \A i \in DOMAIN Tail(waiting) : i \in Nat
BY DEF TypeOK

LEMMA TailHeld ==
    ASSUME TypeOK, OccurrenceHeldOnce, waiting # <<>>
    PROVE  /\ \A i, j \in DOMAIN Tail(waiting) : Tail(waiting)[i].id = Tail(waiting)[j].id => i = j
           /\ \A i \in DOMAIN Tail(waiting) : Tail(waiting)[i].id # Head(waiting).id
           /\ \A w \in Busy : \A i \in DOMAIN Tail(waiting) : running[w].job.id # Tail(waiting)[i].id
           /\ \A w \in Busy : running[w].job.id # Head(waiting).id
<1> DEFINE t == Tail(waiting)
<1>1. /\ 1 \in DOMAIN waiting /\ Head(waiting) = waiting[1]
      /\ \A i \in DOMAIN t : i + 1 \in DOMAIN waiting /\ t[i] = waiting[i + 1]
      /\ \A i \in DOMAIN t : i \in Nat
  BY TailIs
<1>2. \A i \in DOMAIN t : i \in 1 .. Len(waiting)
  BY DEF TypeOK
<1> HIDE DEF t
<1>3. \A i, j \in DOMAIN t : t[i].id = t[j].id => i + 1 = j + 1
  BY <1>1 DEF OccurrenceHeldOnce
<1>4. \A i, j \in DOMAIN t : t[i].id = t[j].id => i = j
  BY <1>1, <1>3
<1>5. \A i \in DOMAIN t : i + 1 # 1
  BY <1>2
<1>6. \A i \in DOMAIN t : t[i].id # Head(waiting).id
  BY <1>1, <1>5 DEF OccurrenceHeldOnce
<1>7. \A w \in Busy : (\A i \in DOMAIN t : running[w].job.id # t[i].id) /\ running[w].job.id # Head(waiting).id
  BY <1>1 DEF OccurrenceHeldOnce, Busy
<1> QED BY <1>4, <1>6, <1>7 DEF t

LEMMA StartHeld ==
    ASSUME TypeOK, OccurrenceHeldOnce, NEW w \in Workers, Start(w)
    PROVE  OccurrenceHeldOnce'
<1>1. /\ waiting # <<>> /\ waiting' = Tail(waiting)
      /\ running' = [running EXCEPT ![w] = [job |-> Head(waiting), step |-> "probing", at |-> Never]]
  BY DEF Start, Set
<1>2. running'[w].job = Head(waiting) /\ \A v \in Busy' : v # w => v \in Busy /\ running'[v] = running[v]
  BY <1>1 DEF TypeOK, Busy
<1> DEFINE t == Tail(waiting)
<1>3. /\ \A i, j \in DOMAIN t : t[i].id = t[j].id => i = j
      /\ \A i \in DOMAIN t : t[i].id # Head(waiting).id
      /\ \A v \in Busy : \A i \in DOMAIN t : running[v].job.id # t[i].id
      /\ \A v \in Busy : running[v].job.id # Head(waiting).id
  BY <1>1, TailHeld
<1>4. waiting' = t
  BY <1>1
<1> HIDE DEF t
<1>5. \A v, u \in Busy' : running'[v].job.id = running'[u].job.id => v = u
  BY <1>2, <1>3 DEF OccurrenceHeldOnce, Busy
<1>6. \A v \in Busy' : \A i \in DOMAIN waiting' : running'[v].job.id # waiting'[i].id
  BY <1>2, <1>3, <1>4
<1> QED BY <1>3, <1>4, <1>5, <1>6 DEF OccurrenceHeldOnce, Busy

LEMMA SkipHeld ==
    ASSUME TypeOK, OccurrenceHeldOnce, NEW w \in Workers, Skip(w)
    PROVE  OccurrenceHeldOnce'
<1>1. waiting # <<>> /\ waiting' = Tail(waiting) /\ UNCHANGED running
  BY DEF Skip
<1> DEFINE t == Tail(waiting)
<1>2. /\ \A i, j \in DOMAIN t : t[i].id = t[j].id => i = j
      /\ \A v \in Busy : \A i \in DOMAIN t : running[v].job.id # t[i].id
  BY <1>1, TailHeld
<1>3. waiting' = t
  BY <1>1
<1> HIDE DEF t
<1> QED BY <1>1, <1>2, <1>3 DEF OccurrenceHeldOnce, Busy

LEMMA MeasureHeld ==
    ASSUME TypeOK, OccurrenceHeldOnce, NEW w \in Workers, Measure(w) \/ Record(w)
    PROVE  OccurrenceHeldOnce'
<1>1. w \in Busy /\ UNCHANGED waiting
  BY DEF Measure, Record, Busy
<1>2. Busy' \subseteq Busy
  BY <1>1 DEF Busy, Measure, Record, Set, TypeOK
<1>3. \A v \in Busy' : running'[v].job = running[v].job
  <2>1. PICK k \in Run : running' = [running EXCEPT ![w] = k] /\ k.job = running[w].job
    BY MeasureIs, RecordIs
  <2> QED BY <2>1 DEF TypeOK, Busy
<1> QED BY <1>1, <1>2, <1>3, HeldKept

LEMMA CompleteHeld ==
    ASSUME TypeOK, OccurrenceHeldOnce, NEW w \in Workers, Complete(w)
    PROVE  OccurrenceHeldOnce'
<1>1. running' = [running EXCEPT ![w] = Null] /\ UNCHANGED waiting
  BY DEF Complete, Set
<1> QED BY <1>1, HeldKept DEF TypeOK, Busy

LEMMA FailHeld ==
    ASSUME TypeOK, OccurrenceHeldOnce, NEW w \in Workers, Fail(w)
    PROVE  OccurrenceHeldOnce'
<1>1. w \in Busy /\ running' = [running EXCEPT ![w] = Null]
  BY DEF Fail, Set, Busy
<1>2. Busy' \subseteq Busy /\ \A v \in Busy' : v # w /\ running'[v].job = running[v].job
  BY <1>1 DEF TypeOK, Busy
<1>3. running[w].job \in Job
  BY <1>1, JobTyped
<1>4. CASE running[w].job.tries + 1 < MaxTries
  <2> DEFINE job == [running[w].job EXCEPT !.tries = @ + 1]
  <2>1. job \in Job /\ job.id = running[w].job.id
    BY <1>3, <1>4, BoundAssumption DEF Job
  <2>2. waiting' = Append(waiting, job)
    BY <1>4 DEF Fail
  <2>3. \A i \in DOMAIN waiting : waiting[i].id # running[w].job.id
    BY <1>1 DEF OccurrenceHeldOnce, Busy
  <2>4. \A v \in Busy' : running[v].job.id # running[w].job.id
    BY <1>1, <1>2 DEF OccurrenceHeldOnce, Busy
  <2> HIDE DEF job
  <2> QED BY <1>2, <2>1, <2>2, <2>3, <2>4, HeldAppended
<1>5. CASE ~(running[w].job.tries + 1 < MaxTries)
  <2>1. UNCHANGED waiting
    BY <1>5 DEF Fail
  <2> QED BY <1>2, <2>1, HeldKept
<1> QED BY <1>4, <1>5

-----------------------------------------------------------------------------
(* Who refers to which occurrence *)

LEMMA KnownBy ==
    ASSUME NEW S, \A i \in DOMAIN waiting' : waiting'[i].id \in S,
           \A w \in Busy' : running'[w].job.id \in S,
           \A i \in DOMAIN completed' : completed'[i] \in S
    PROVE  Known' \subseteq S
BY DEF Known, Busy, Range

\* What the queue knows of.
LEMMA KnownHas ==
    /\ \A i \in DOMAIN waiting : waiting[i].id \in Known
    /\ \A w \in Busy : running[w].job.id \in Known
    /\ \A i \in DOMAIN completed : completed[i] \in Known
BY DEF Known, Busy, Range

LEMMA AddedKnown ==
    ASSUME TypeOK, NEW x \in Ids, Added(x), UNCHANGED <<running, completed>>
    PROVE  Known' \subseteq Known \cup {x}
<1>1. \A i \in DOMAIN waiting' : waiting'[i].id \in Known \cup {x}
  <2>1. CASE x \in Known
    BY <2>1, KnownHas DEF Added
  <2>2. CASE x \notin Known
    <3>1. [id |-> x, tries |-> 0] \in Job
      BY BoundAssumption DEF Job
    <3>2. waiting \in Seq(Job) /\ waiting' = Append(waiting, [id |-> x, tries |-> 0])
      BY <2>2 DEF Added, TypeOK
    <3>3. \A i \in DOMAIN waiting' : \/ i \in DOMAIN waiting /\ waiting'[i] = waiting[i]
                                     \/ waiting'[i] = [id |-> x, tries |-> 0]
      BY <3>1, <3>2
    <3> QED BY <3>3, KnownHas
  <2> QED BY <2>1, <2>2
<1>2. \A w \in Busy' : running'[w].job.id \in Known \cup {x}
  BY KnownHas DEF Busy
<1> QED BY <1>1, <1>2, KnownHas, KnownBy

LEMMA TailKnown ==
    ASSUME TypeOK, waiting # <<>>
    PROVE  /\ Head(waiting).id \in Known
           /\ \A i \in DOMAIN Tail(waiting) : Tail(waiting)[i].id \in Known
BY TailIs, KnownHas

LEMMA StartKnown ==
    ASSUME TypeOK, NEW w \in Workers, Start(w)
    PROVE  Known' \subseteq Known
<1>1. /\ waiting # <<>> /\ waiting' = Tail(waiting) /\ UNCHANGED completed
      /\ running' = [running EXCEPT ![w] = [job |-> Head(waiting), step |-> "probing", at |-> Never]]
  BY DEF Start, Set
<1>2. \A v \in Busy' : \/ running'[v].job = Head(waiting)
                       \/ v \in Busy /\ running'[v] = running[v]
  BY <1>1 DEF TypeOK, Busy
<1>3. \A v \in Busy' : running'[v].job.id \in Known
  BY <1>1, <1>2, TailKnown, KnownHas
<1> QED BY <1>1, <1>3, TailKnown, KnownHas, KnownBy

LEMMA SkipKnown ==
    ASSUME TypeOK, NEW w \in Workers, Skip(w)
    PROVE  Known' \subseteq Known
<1>1. /\ waiting # <<>> /\ waiting' = Tail(waiting) /\ UNCHANGED running
      /\ Retained(Head(waiting).id)
  BY DEF Skip
<1>2. Range(completed') \subseteq Range(completed) \cup {Head(waiting).id}
  BY <1>1, HeadTyped, RetainedTyped DEF TypeOK
<1>3. \A i \in DOMAIN completed' : completed'[i] \in Known
  BY <1>1, <1>2, TailKnown DEF Range, Known
<1>4. \A v \in Busy' : running'[v].job.id \in Known
  BY <1>1, KnownHas DEF Busy
<1> QED BY <1>1, <1>3, <1>4, TailKnown, KnownBy

LEMMA MeasureKnown ==
    ASSUME TypeOK, NEW w \in Workers, Measure(w) \/ Record(w)
    PROVE  Known' \subseteq Known
<1>1. w \in Busy /\ UNCHANGED <<waiting, completed>>
  BY DEF Measure, Record, Busy
<1>2. PICK k \in Run : running' = [running EXCEPT ![w] = k] /\ k.job = running[w].job
  BY MeasureIs, RecordIs
<1>3. \A v \in Busy' : v \in Busy /\ running'[v].job = running[v].job
  BY <1>1, <1>2 DEF Busy, TypeOK
<1>4. \A v \in Busy' : running'[v].job.id \in Known
  BY <1>3, KnownHas
<1> QED BY <1>1, <1>4, KnownHas, KnownBy

LEMMA CompleteKnown ==
    ASSUME TypeOK, NEW w \in Workers, Complete(w)
    PROVE  Known' \subseteq Known /\ Range(completed') \subseteq Range(completed) \cup {running[w].job.id}
<1>1. /\ w \in Busy /\ UNCHANGED waiting /\ running' = [running EXCEPT ![w] = Null]
      /\ Retained(running[w].job.id)
  BY DEF Complete, Busy, Set
<1>2. Range(completed') \subseteq Range(completed) \cup {running[w].job.id}
  BY <1>1, JobTyped, RetainedTyped DEF TypeOK
<1>3. \A i \in DOMAIN completed' : completed'[i] \in Known
  BY <1>1, <1>2, KnownHas DEF Range
<1>4. \A v \in Busy' : v \in Busy /\ running'[v] = running[v]
  BY <1>1 DEF Busy, TypeOK
<1>5. \A v \in Busy' : running'[v].job.id \in Known
  BY <1>4, KnownHas
<1> QED BY <1>1, <1>2, <1>3, <1>5, KnownHas, KnownBy

LEMMA FailKnown ==
    ASSUME TypeOK, NEW w \in Workers, Fail(w)
    PROVE  Known' \subseteq Known
<1>1. w \in Busy /\ running' = [running EXCEPT ![w] = Null] /\ UNCHANGED completed
  BY DEF Fail, Busy, Set
<1>2. \A v \in Busy' : v \in Busy /\ running'[v] = running[v]
  BY <1>1 DEF Busy, TypeOK
<1>3. \A v \in Busy' : running'[v].job.id \in Known
  BY <1>2, KnownHas
<1>4. \A i \in DOMAIN waiting' : waiting'[i].id \in Known
  <2> DEFINE job == [running[w].job EXCEPT !.tries = @ + 1]
  <2>1. CASE running[w].job.tries + 1 < MaxTries
    <3>1. running[w].job \in Job
      BY <1>1, JobTyped
    <3>2. job \in Job /\ job.id = running[w].job.id
      BY <2>1, <3>1, BoundAssumption DEF Job
    <3>3. waiting \in Seq(Job) /\ waiting' = Append(waiting, job)
      BY <2>1 DEF Fail, TypeOK
    <3> HIDE DEF job
    <3>4. \A i \in DOMAIN waiting' : (i \in DOMAIN waiting /\ waiting'[i] = waiting[i]) \/ waiting'[i] = job
      BY <3>2, <3>3
    <3> QED BY <1>1, <3>2, <3>4, KnownHas
  <2>2. CASE ~(running[w].job.tries + 1 < MaxTries)
    BY <2>2, KnownHas DEF Fail
  <2> QED BY <2>1, <2>2
<1> QED BY <1>1, <1>3, <1>4, KnownHas, KnownBy

-----------------------------------------------------------------------------
(* The instants that were measured *)

\* Jobs go on, begin or end; no other job measures.
JobsGoOn ==
    \A v \in Busy' :
       \/ running'[v].at = Never /\ running'[v].step = "probing"
       \/ /\ v \in Busy /\ running'[v].job = running[v].job /\ running'[v].at = running[v].at
          /\ \/ running'[v].step = running[v].step
             \/ running[v].step = "measured" /\ running'[v].step = "recorded"

\* Only occurrences of the checks as they are come to be referred to.
OnlyDueRead == Referred' \subseteq Referred \cup {Id(c) : c \in Checks}

LEMMA InstantsKept ==
    ASSUME TypeOK, StepsInOrder, MeasuredIsNew, JobsGoOn, OnlyDueRead,
           \A v \in Busy' : running'[v].step = "measured" => running[v].at # check'[CheckOf(v)].lastEventAt
    PROVE  StepsInOrder' /\ MeasuredIsNew'
<1>1. StepsInOrder'
  BY DEF StepsInOrder, JobsGoOn
<1>2. ASSUME NEW w \in Busy', running'[w].step = "measured"
      PROVE  IsNew(w)'
  <2>1. /\ w \in Busy /\ running'[w].job = running[w].job /\ running'[w].at = running[w].at
        /\ running[w].step = "measured"
    BY <1>2 DEF JobsGoOn
  <2>2. IsNew(w) /\ running[w].at # Never
    BY <2>1 DEF MeasuredIsNew, StepsInOrder
  <2>3. CheckOf(w)' = CheckOf(w)
    BY <2>1 DEF CheckOf
  <2>4. running'[w].at # check'[CheckOf(w)'].lastEventAt
    BY <1>2, <2>1, <2>3
  <2>5. \A x \in Referred' : x[1] = CheckOf(w) => x[2][1] # running[w].at
    BY <2>2, IdTyped DEF OnlyDueRead, IsNew
  <2>6. ASSUME NEW v \in Busy', v # w, CheckOf(v)' = CheckOf(w)
        PROVE  running'[v].at # running[w].at
    <3>1. CASE running'[v].at = Never
      BY <2>2, <3>1
    <3>2. CASE v \in Busy /\ running'[v].job = running[v].job /\ running'[v].at = running[v].at
      BY <2>2, <2>6, <3>2 DEF IsNew, CheckOf
    <3> QED BY <3>1, <3>2 DEF JobsGoOn
  <2> QED BY <2>1, <2>3, <2>4, <2>5, <2>6 DEF IsNew
<1> QED BY <1>1, <1>2 DEF MeasuredIsNew

LEMMA JobsStay ==
    ASSUME UNCHANGED running
    PROVE  JobsGoOn
BY DEF JobsGoOn, Busy

LEMMA ReferredStay ==
    ASSUME Known' \subseteq Known, UNCHANGED plan
    PROVE  OnlyDueRead
BY DEF OnlyDueRead, Referred

\* What keeps the checks keeps the instants.
LEMMA InstantsOfChecks ==
    ASSUME TypeOK, StepsInOrder, MeasuredIsNew, JobsGoOn, OnlyDueRead, UNCHANGED check
    PROVE  StepsInOrder' /\ MeasuredIsNew'
<1>1. \A v \in Busy' : running'[v].step = "measured" =>
         v \in Busy /\ running[v].step = "measured" /\ CheckOf(v)' = CheckOf(v)
  BY DEF JobsGoOn, CheckOf
<1>2. ASSUME NEW v \in Busy', running'[v].step = "measured"
      PROVE  running[v].at # check'[CheckOf(v)].lastEventAt
  BY <1>1, <1>2 DEF MeasuredIsNew, IsNew
<1> QED BY <1>2, InstantsKept

\* Nobody at work has measured the instant that a user's change brings.
LEMMA EditInstants ==
    ASSUME IInv, NEW c \in Checks, NEW r \in CheckRow, NEW d, Edit(c, r, d),
           \A v \in Busy : running[v].step = "measured" /\ CheckOf(v) = c => running[v].at # r.lastEventAt
    PROVE  StepsInOrder' /\ MeasuredIsNew' /\ NobodyEdited'
<1>1. UNCHANGED <<plan, waiting, running, completed>> /\ check' = [check EXCEPT ![c] = r] /\ edits' = edits + 1
  BY DEF Edit, queue
<1>2. JobsGoOn /\ OnlyDueRead
  BY <1>1, JobsStay, ReferredStay DEF Known
<1>3. ASSUME NEW v \in Busy', running'[v].step = "measured"
      PROVE  running[v].at # check'[CheckOf(v)].lastEventAt
  <2>1. v \in Busy /\ running[v].step = "measured" /\ CheckOf(v) \in Checks
    BY <1>1, <1>3, JobTyped DEF Busy, IInv
  <2>2. CASE CheckOf(v) = c
    BY <1>1, <2>1, <2>2 DEF IInv, TypeOK
  <2>3. CASE CheckOf(v) # c
    BY <1>1, <2>1, <2>3 DEF IInv, TypeOK, MeasuredIsNew, IsNew
  <2> QED BY <2>2, <2>3
<1>4. edits' # 0
  BY <1>1 DEF IInv, TypeOK
<1> QED BY <1>2, <1>3, <1>4, InstantsKept DEF IInv, NobodyEdited

\* What has been measured is not the instant of the check, and not null.
LEMMA MeasuredInstants ==
    ASSUME IInv, NEW v \in Busy, running[v].step = "measured"
    PROVE  /\ running[v].at # Never /\ running[v].at # check[CheckOf(v)].lastEventAt
           /\ running[v].at \in InUse(CheckOf(v))
BY DEF IInv, StepsInOrder, MeasuredIsNew, IsNew, InUse, Busy, CheckOf

\* The check's row becomes r, whenever its next occurrence is.
Edited(c, r) == \E d : Edit(c, r, d)

LEMMA UsersInstants ==
    ASSUME IInv, Users
    PROVE  StepsInOrder' /\ MeasuredIsNew' /\ NobodyEdited'
<1>1. PICK c \in Checks :
         \/ Pause(c) \/ Resume(c) \/ ConvertToHeartbeat(c) \/ Delete(c) \/ Ping(c)
         \/ \E i \in Intervals : EditInterval(c, i) \/ ConvertToActive(c, i)
  BY DEF Users
<1>2. check[c] \in CheckRow
  BY DEF IInv, TypeOK
<1>3. PICK r \in CheckRow :
         /\ Edited(c, r)
         /\ \/ r.lastEventAt \in {check[c].lastEventAt, Never}
            \/ Now(c, r.lastEventAt)
  <2>1. CASE Pause(c)
    <3>1. [check[c] EXCEPT !.paused = TRUE] \in CheckRow
      BY <1>2 DEF CheckRow
    <3> QED BY <1>2, <2>1, <3>1 DEF Pause, CheckRow, Edited
  <2>2. CASE Resume(c)
    <3>1. [check[c] EXCEPT !.paused = FALSE] \in CheckRow
      BY <1>2 DEF CheckRow
    <3> QED BY <1>2, <2>2, <3>1 DEF Resume, CheckRow, Edited
  <2>3. CASE ConvertToHeartbeat(c)
    <3> DEFINE r == [check[c] EXCEPT !.type = "HEARTBEAT", !.paused = FALSE, !.lastEventAt = Never]
    <3>1. r \in CheckRow /\ r.lastEventAt = Never
      BY <1>2 DEF CheckRow
    <3>2. Edited(c, r)
      BY <2>3 DEF ConvertToHeartbeat, Edited
    <3> HIDE DEF r
    <3> QED BY <3>1, <3>2
  <2>4. CASE Delete(c)
    <3>1. [check[c] EXCEPT !.live = FALSE] \in CheckRow
      BY <1>2 DEF CheckRow
    <3> QED BY <1>2, <2>4, <3>1 DEF Delete, CheckRow, Edited
  <2>5. CASE Ping(c)
    <3>1. PICK t \in Stamps : Now(c, t) /\ Edit(c, [check[c] EXCEPT !.paused = FALSE, !.lastEventAt = t], FALSE)
      BY <2>5 DEF Ping
    <3> DEFINE r == [check[c] EXCEPT !.paused = FALSE, !.lastEventAt = t]
    <3>2. r \in CheckRow /\ r.lastEventAt = t
      BY <1>2 DEF CheckRow
    <3>3. Edited(c, r)
      BY <3>1 DEF Edited
    <3> HIDE DEF r
    <3> QED BY <3>1, <3>2, <3>3
  <2>6. CASE \E i \in Intervals : EditInterval(c, i)
    <3>1. PICK i \in Intervals : Edited(c, [check[c] EXCEPT !.interval = i])
      BY <2>6 DEF EditInterval, Edited
    <3>2. [check[c] EXCEPT !.interval = i] \in CheckRow
      BY <1>2 DEF CheckRow
    <3> QED BY <1>2, <3>1, <3>2 DEF CheckRow
  <2>7. CASE \E i \in Intervals : ConvertToActive(c, i)
    <3>1. PICK i \in Intervals : Edited(c, [check[c] EXCEPT !.type = "ACTIVE", !.interval = i])
      BY <2>7 DEF ConvertToActive, Edited
    <3>2. [check[c] EXCEPT !.type = "ACTIVE", !.interval = i] \in CheckRow
      BY <1>2 DEF CheckRow
    <3> QED BY <1>2, <3>1, <3>2 DEF CheckRow
  <2> QED BY <1>1, <2>1, <2>2, <2>3, <2>4, <2>5, <2>6, <2>7
<1>4. ASSUME NEW v \in Busy, running[v].step = "measured", CheckOf(v) = c
      PROVE  running[v].at # r.lastEventAt
  BY <1>3, <1>4, MeasuredInstants DEF Now
<1>5. PICK d : Edit(c, r, d)
  BY <1>3 DEF Edited
<1> QED BY <1>3, <1>4, <1>5, EditInstants

\* A step of the queue or of the schedulers: nothing is recorded.
LEMMA HiddenKept ==
    ASSUME IInv, UNCHANGED <<check, edits>>,
           \A x \in Range(completed') \ Range(completed) : \A c \in Checks :
              edits = 0 /\ Probeable(c) => x # Id(c),
           \A v \in Busy' : running'[v].step = "recorded" => v \in Busy /\ running'[v] = running[v]
    PROVE  NobodyEdited'
<1>1. \A c : Probeable(c)' <=> Probeable(c)
  BY DEF Probeable
<1>2. \A c : Id(c)' = Id(c)
  BY DEF Id, Key
<1>3. SUFFICES ASSUME edits = 0
               PROVE  RecordedMovesOn' /\ NothingHidden'
  BY DEF NobodyEdited
<1>4. RecordedMovesOn /\ NothingHidden
  BY <1>3 DEF IInv, NobodyEdited
<1>5. NothingHidden'
  BY <1>1, <1>2, <1>3, <1>4 DEF NothingHidden
<1>6. ASSUME NEW v \in Busy', running'[v].step = "recorded", Probeable(CheckOf(v))'
      PROVE  running'[v].job.id # Id(CheckOf(v))'
  <2>1. v \in Busy /\ running'[v] = running[v] /\ CheckOf(v)' = CheckOf(v)
    BY <1>6 DEF CheckOf
  <2> QED BY <1>1, <1>2, <1>4, <1>6, <2>1 DEF RecordedMovesOn, Probeable, Id, Key
<1> QED BY <1>5, <1>6 DEF RecordedMovesOn

LEMMA QueueStep ==
    ASSUME IInv, UNCHANGED <<check, edits, completed>>, JobsGoOn, OnlyDueRead,
           \A v \in Busy' : running'[v].step = "recorded" => v \in Busy /\ running'[v] = running[v]
    PROVE  StepsInOrder' /\ MeasuredIsNew' /\ NobodyEdited'
BY InstantsOfChecks, HiddenKept DEF IInv

LEMMA SchedulersInstants ==
    ASSUME IInv, NEW s \in Schedulers, Read(s) \/ Abort(s) \/ \E x \in plan[s] : Add(s, x)
    PROVE  StepsInOrder' /\ MeasuredIsNew' /\ NobodyEdited'
<1>1. UNCHANGED <<check, edits, completed, running>> /\ JobsGoOn
  BY JobsStay DEF Read, Abort, Fault, Add, queue, counts
<1>2. plan \in [Schedulers -> SUBSET Ids]
  BY DEF IInv, TypeOK
<1>3. OnlyDueRead
  <2>1. CASE Read(s)
    <3>1. Known' = Known
      BY <2>1 DEF Read, queue, Known
    <3>2. \A q \in Schedulers : plan'[q] \subseteq plan[q] \cup {Id(c) : c \in Checks}
      BY <1>2, <2>1 DEF Read
    <3> QED BY <3>1, <3>2 DEF OnlyDueRead, Referred
  <2>2. ASSUME NEW x \in plan[s], Added(x)
        PROVE  Known' \subseteq Referred
    BY <1>1, <1>2, <2>2, AddedKnown DEF IInv, Referred
  <2>3. CASE Abort(s)
    <3>1. Known' \subseteq Referred
      BY <1>1, <2>2, <2>3 DEF Abort, Known, Referred
    <3>2. \A q \in Schedulers : plan'[q] \subseteq plan[q]
      BY <1>2, <2>3 DEF Abort
    <3> QED BY <3>1, <3>2 DEF OnlyDueRead, Referred
  <2>4. CASE \E x \in plan[s] : Add(s, x)
    <3>1. Known' \subseteq Referred
      BY <2>2, <2>4 DEF Add
    <3>2. \A q \in Schedulers : plan'[q] \subseteq plan[q]
      BY <1>2, <2>4 DEF Add
    <3> QED BY <3>1, <3>2 DEF OnlyDueRead, Referred
  <2> QED BY <2>1, <2>3, <2>4
<1> QED BY <1>1, <1>3, QueueStep DEF Busy

LEMMA StartInstants ==
    ASSUME IInv, NEW w \in Workers, Start(w)
    PROVE  StepsInOrder' /\ MeasuredIsNew' /\ NobodyEdited'
<1>1. /\ UNCHANGED <<check, edits, completed, plan>>
      /\ running' = [running EXCEPT ![w] = [job |-> Head(waiting), step |-> "probing", at |-> Never]]
  BY DEF Start, Set, counts
<1>2. \A v \in Busy' : \/ running'[v].at = Never /\ running'[v].step = "probing"
                       \/ v \in Busy /\ running'[v] = running[v]
  BY <1>1 DEF IInv, TypeOK, Busy
<1>3. JobsGoOn /\ \A v \in Busy' : running'[v].step = "recorded" => v \in Busy /\ running'[v] = running[v]
  BY <1>2 DEF JobsGoOn
<1>4. OnlyDueRead
  BY <1>1, StartKnown, ReferredStay DEF IInv
<1> QED BY <1>1, <1>3, <1>4, QueueStep

LEMMA FailInstants ==
    ASSUME IInv, NEW w \in Workers, Fail(w)
    PROVE  StepsInOrder' /\ MeasuredIsNew' /\ NobodyEdited'
<1>1. UNCHANGED <<check, edits, completed, plan>> /\ running' = [running EXCEPT ![w] = Null]
  BY DEF Fail, Fault, Set
<1>2. \A v \in Busy' : v \in Busy /\ running'[v] = running[v]
  BY <1>1 DEF IInv, TypeOK, Busy
<1>3. JobsGoOn
  BY <1>2 DEF JobsGoOn
<1>4. OnlyDueRead
  BY <1>1, FailKnown, ReferredStay DEF IInv
<1> QED BY <1>1, <1>2, <1>3, <1>4, QueueStep

\* A job that is skipped is of a check that is not to be probed.
LEMMA SkipInstants ==
    ASSUME IInv, NEW w \in Workers, Skip(w)
    PROVE  StepsInOrder' /\ MeasuredIsNew' /\ NobodyEdited'
<1>1. /\ UNCHANGED <<check, edits, running, plan>> /\ waiting # <<>>
      /\ ~Probeable(Head(waiting).id[1]) /\ Retained(Head(waiting).id)
  BY DEF Skip, counts
<1>2. JobsGoOn /\ OnlyDueRead
  BY <1>1, JobsStay, SkipKnown, ReferredStay DEF IInv
<1>3. Range(completed') \subseteq Range(completed) \cup {Head(waiting).id}
  BY <1>1, HeadTyped, RetainedTyped DEF IInv, TypeOK
<1>4. \A c \in Checks : Probeable(c) => Head(waiting).id # Id(c)
  BY <1>1, IdTyped DEF IInv
<1>5. \A v \in Busy' : v \in Busy /\ running'[v] = running[v]
  BY <1>1 DEF Busy
<1> QED BY <1>1, <1>2, <1>3, <1>4, <1>5, InstantsOfChecks, HiddenKept DEF IInv

\* A job that completes has moved its check on, or it is not to be probed.
LEMMA CompleteInstants ==
    ASSUME IInv, NEW w \in Workers, Complete(w)
    PROVE  StepsInOrder' /\ MeasuredIsNew' /\ NobodyEdited'
<1>1. /\ UNCHANGED <<check, edits, plan>> /\ w \in Busy
      /\ running' = [running EXCEPT ![w] = Null]
      /\ running[w].step = "recorded" \/ ~Probeable(CheckOf(w))
  BY DEF Complete, Set, counts, Busy, CheckOf
<1>2. \A v \in Busy' : v \in Busy /\ running'[v] = running[v]
  BY <1>1 DEF IInv, TypeOK, Busy
<1>3. JobsGoOn
  BY <1>2 DEF JobsGoOn
<1>4. Known' \subseteq Known /\ Range(completed') \subseteq Range(completed) \cup {running[w].job.id}
  BY CompleteKnown DEF IInv
<1>5. OnlyDueRead
  BY <1>1, <1>4, ReferredStay
<1>6. ASSUME NEW c \in Checks, edits = 0, Probeable(c)
      PROVE  running[w].job.id # Id(c)
  <2>1. CASE CheckOf(w) = c
    BY <1>1, <1>6, <2>1 DEF IInv, NobodyEdited, RecordedMovesOn
  <2>2. CASE CheckOf(w) # c
    BY <2>2, IdTyped DEF IInv, CheckOf
  <2> QED BY <2>1, <2>2
<1> QED BY <1>1, <1>2, <1>3, <1>4, <1>5, <1>6, InstantsOfChecks, HiddenKept DEF IInv

LEMMA BecomesDueInstants ==
    ASSUME IInv, NEW c \in Checks, BecomesDue(c)
    PROVE  StepsInOrder' /\ MeasuredIsNew' /\ NobodyEdited'
<1>1. UNCHANGED <<check, edits, plan, waiting, running, completed>>
  BY DEF BecomesDue, queue, counts
<1>2. JobsGoOn /\ OnlyDueRead
  BY <1>1, JobsStay, ReferredStay DEF Known
<1> QED BY <1>1, <1>2, QueueStep DEF Busy

\* The clock reads an instant that nobody refers to.
LEMMA MeasureInstants ==
    ASSUME IInv, NEW w \in Workers, Measure(w)
    PROVE  StepsInOrder' /\ MeasuredIsNew' /\ NobodyEdited'
<1>1. w \in Busy /\ UNCHANGED <<check, edits, completed, plan, waiting>>
  BY DEF Measure, Busy, counts
<1>2. PICK t \in Stamps, k \in Run :
         /\ Now(CheckOf(w), t)
         /\ k.job = running[w].job /\ k.at = t /\ k.step = "measured"
         /\ running' = [running EXCEPT ![w] = k]
  BY MeasureIs DEF IInv
<1>3. running'[w] = k /\ \A v \in Busy' : v \in Busy /\ (v # w => running'[v] = running[v])
  BY <1>1, <1>2 DEF IInv, TypeOK, Busy
<1>4. t # Never /\ t \notin InUse(CheckOf(w))
  BY <1>2, BoundAssumption DEF Now, Stamps, Never
<1>5. CheckOf(w)' = CheckOf(w) /\ \A v \in Busy' : CheckOf(v)' = CheckOf(v)
  BY <1>2, <1>3 DEF CheckOf
<1>6. OnlyDueRead /\ Referred' \subseteq Referred
  BY <1>1, MeasureKnown, ReferredStay DEF IInv, Referred
<1>7. StepsInOrder'
  BY <1>2, <1>3, <1>4 DEF IInv, StepsInOrder
<1>8. \A v \in Busy : CheckOf(v) = CheckOf(w) => running[v].at # t
  BY <1>4 DEF InUse, Busy, CheckOf
<1>9. \A x \in Referred : x[1] = CheckOf(w) => x[2][1] # t
  BY <1>4 DEF InUse, Referred
<1>10. check[CheckOf(w)].lastEventAt # t
  BY <1>4 DEF InUse
<1>11. IsNew(w)'
  BY <1>1, <1>2, <1>3, <1>5, <1>6, <1>8, <1>9, <1>10 DEF IsNew
<1>12. ASSUME NEW u \in Busy', u # w, running'[u].step = "measured"
       PROVE  IsNew(u)'
  <2>1. u \in Busy /\ running'[u] = running[u] /\ IsNew(u)
    BY <1>3, <1>12 DEF IInv, MeasuredIsNew
  <2>2. \A v \in Busy' : v # u /\ CheckOf(v)' = CheckOf(u) => running'[v].at # running[u].at
    BY <1>2, <1>3, <1>5, <1>8, <2>1 DEF IsNew
  <2> QED BY <1>1, <1>5, <1>6, <2>1, <2>2 DEF IsNew
<1>13. MeasuredIsNew'
  BY <1>11, <1>12 DEF MeasuredIsNew
<1>14. NobodyEdited'
  BY <1>1, <1>2, <1>3, HiddenKept
<1> QED BY <1>7, <1>13, <1>14

\* The event is recorded: the check moves on to an occurrence nobody has seen.
LEMMA RecordInstants ==
    ASSUME IInv, NEW w \in Workers, Record(w)
    PROVE  StepsInOrder' /\ MeasuredIsNew' /\ NobodyEdited'
<1>0. PICK c \in Checks : c = CheckOf(w)
  BY JobTyped DEF Record, Busy, IInv
<1> DEFINE t == running[w].at
<1>1. /\ w \in Busy /\ running[w].step = "measured" /\ UNCHANGED <<edits, completed, plan, waiting>>
      /\ check' = [check EXCEPT ![c].lastEventAt = t]
  BY <1>0 DEF Record, Busy, counts, CheckOf
<1>2. PICK k \in Run :
         /\ k.job = running[w].job /\ k.at = running[w].at /\ k.step = "recorded"
         /\ running' = [running EXCEPT ![w] = k]
  BY RecordIs DEF IInv
<1>3. running'[w] = k /\ \A v \in Busy' : v \in Busy /\ (v # w => running'[v] = running[v])
  BY <1>1, <1>2 DEF IInv, TypeOK, Busy
<1>4. IsNew(w) /\ t # Never
  BY <1>1 DEF IInv, MeasuredIsNew, StepsInOrder
<1>5. \A v \in Busy' : CheckOf(v)' = CheckOf(v) /\ CheckOf(v) \in Checks
  BY <1>2, <1>3, JobTyped DEF CheckOf, IInv
<1>6. check'[c].lastEventAt = t /\ \A e \in Checks \ {c} : check'[e] = check[e]
  BY <1>1, <1>4 DEF IInv, TypeOK, CheckRow
<1>7. JobsGoOn /\ OnlyDueRead
  BY <1>1, <1>2, <1>3, MeasureKnown, ReferredStay DEF IInv, JobsGoOn
<1>8. ASSUME NEW v \in Busy', running'[v].step = "measured"
      PROVE  running[v].at # check'[CheckOf(v)].lastEventAt
  <2>1. v # w /\ v \in Busy /\ running'[v] = running[v] /\ IsNew(v)
    BY <1>2, <1>3, <1>8 DEF IInv, MeasuredIsNew
  <2> QED BY <1>0, <1>1, <1>4, <1>5, <1>6, <2>1 DEF IsNew
<1>9. StepsInOrder' /\ MeasuredIsNew'
  BY <1>7, <1>8, InstantsKept DEF IInv
<1>10. TypeOK'
  BY RecordTyped DEF IInv
<1>11. \A x \in Known : x # Id(c)'
  <2>1. \A x \in Known : x[1] = c => x[2][1] # t
    BY <1>0, <1>4 DEF IsNew, Referred
  <2>2. Id(c)'[1] = c /\ Id(c)'[2][1] = t
    BY <1>4, <1>6 DEF Id, Key
  <2> QED BY <2>1, <2>2
<1>12. ASSUME NEW e \in Checks, e # c
       PROVE  (Probeable(e)' <=> Probeable(e)) /\ Id(e)' = Id(e)
  BY <1>6, <1>12 DEF Probeable, Id, Key
<1>13. NobodyEdited'
  <2>1. SUFFICES ASSUME edits = 0
                 PROVE  RecordedMovesOn' /\ NothingHidden'
    BY <1>1 DEF NobodyEdited
  <2>2. RecordedMovesOn /\ NothingHidden
    BY <2>1 DEF IInv, NobodyEdited
  <2>3. ASSUME NEW e \in Checks, Probeable(e)'
        PROVE  Id(e)' \notin Range(completed')
    <3>1. CASE e = c
      BY <1>1, <1>11, <3>1 DEF Known
    <3>2. CASE e # c
      BY <1>1, <1>12, <2>2, <2>3, <3>2 DEF NothingHidden
    <3> QED BY <3>1, <3>2
  <2>4. ASSUME NEW v \in Busy', running'[v].step = "recorded", Probeable(CheckOf(v))'
        PROVE  running'[v].job.id # Id(CheckOf(v))'
    <3>1. v \in Busy /\ running'[v].job.id = running[v].job.id /\ running[v].job.id \in Known
      BY <1>2, <1>3, KnownHas
    <3>2. CASE CheckOf(v) = c
      BY <1>5, <1>11, <3>1, <3>2
    <3>3. CASE CheckOf(v) # c
      <4>1. PICK e \in Checks : e = CheckOf(v) /\ e = CheckOf(v)'
        BY <1>5
      <4>2. Probeable(e) /\ Id(e)' = Id(e)
        BY <1>12, <2>4, <3>3, <4>1
      <4>3. running[v].step = "recorded"
        BY <1>0, <1>3, <2>4, <3>1, <3>3
      <4>4. running[v].job.id # Id(e)
        <5>1. Probeable(CheckOf(v)) /\ Id(CheckOf(v)) = Id(e)
          BY <4>1, <4>2
        <5> QED BY <2>2, <3>1, <4>3, <5>1, Zenon DEF RecordedMovesOn
      <4> QED BY <3>1, <4>1, <4>2, <4>4
    <3> QED BY <3>2, <3>3
  <2> QED BY <2>3, <2>4 DEF RecordedMovesOn, NothingHidden
<1> QED BY <1>9, <1>13

-----------------------------------------------------------------------------
(* The theorems *)

LEMMA InitRight == Init => IInv
<1> SUFFICES ASSUME Init PROVE IInv
  OBVIOUS
<1>1. TypeOK
  <2> DEFINE rows == [live : {TRUE}, type : {"ACTIVE", "HEARTBEAT"}, paused : {FALSE},
                      interval : Intervals, lastEventAt : {Never}]
  <2>1. rows \subseteq CheckRow
    BY DEF CheckRow
  <2>2. check \in [Checks -> rows]
    BY DEF Init
  <2> HIDE DEF rows
  <2>3. check \in [Checks -> CheckRow]
    BY <2>1, <2>2
  <2> QED BY <2>3, BoundAssumption DEF Init, TypeOK
<1>2. Busy = {}
  BY DEF Init, Busy
<1>3. OccurrenceHeldOnce
  BY <1>2 DEF Init, OccurrenceHeldOnce, Busy
<1>4. NobodyEdited
  BY <1>2 DEF Init, NobodyEdited, RecordedMovesOn, NothingHidden, Range
<1> QED BY <1>1, <1>2, <1>3, <1>4 DEF IInv, StepsInOrder, MeasuredIsNew

LEMMA TypeStep ==
    ASSUME TypeOK, [Next]_vars
    PROVE  TypeOK'
<1>1. CASE Users
  BY <1>1, UsersTyped
<1>2. CASE \E c \in Checks : BecomesDue(c)
  BY <1>2, BecomesDueTyped
<1>3. CASE \E s \in Schedulers : Read(s) \/ Abort(s) \/ (\E x \in plan[s] : Add(s, x))
  BY <1>3, ReadTyped, AbortTyped, AddTyped
<1>4. CASE \E w \in Workers : Work(w) \/ Fail(w)
  BY <1>4, StartTyped, SkipTyped, MeasureTyped, RecordTyped, CompleteTyped, FailTyped DEF Work
<1>5. CASE UNCHANGED vars
  BY <1>5 DEF TypeOK, vars, queue, counts
<1> QED BY <1>1, <1>2, <1>3, <1>4, <1>5 DEF Next

LEMMA HeldStep ==
    ASSUME TypeOK, OccurrenceHeldOnce, [Next]_vars
    PROVE  OccurrenceHeldOnce'
<1>1. CASE UNCHANGED <<waiting, running>>
  BY <1>1, HeldKept DEF Busy
<1>2. CASE Users \/ \E c \in Checks : BecomesDue(c)
  BY <1>1, <1>2 DEF Users, Pause, Resume, ConvertToHeartbeat, Delete, Ping, EditInterval, ConvertToActive,
                    Edit, BecomesDue, queue
<1>3. CASE \E s \in Schedulers : Read(s) \/ Abort(s) \/ (\E x \in plan[s] : Add(s, x))
  <2>1. ASSUME NEW s \in Schedulers, Read(s)
        PROVE  OccurrenceHeldOnce'
    BY <1>1, <2>1 DEF Read, queue
  <2>2. ASSUME NEW s \in Schedulers, NEW x \in plan[s], Added(x), UNCHANGED running
        PROVE  OccurrenceHeldOnce'
    BY <2>2, AddedHeld DEF TypeOK
  <2> QED BY <1>1, <1>3, <2>1, <2>2 DEF Abort, Add
<1>4. CASE \E w \in Workers : Work(w) \/ Fail(w)
  BY <1>4, StartHeld, SkipHeld, MeasureHeld, CompleteHeld, FailHeld DEF Work
<1>5. CASE UNCHANGED vars
  BY <1>1, <1>5 DEF vars, queue
<1> QED BY <1>2, <1>3, <1>4, <1>5 DEF Next

LEMMA InstantsStep ==
    ASSUME IInv, [Next]_vars
    PROVE  StepsInOrder' /\ MeasuredIsNew' /\ NobodyEdited'
<1>1. CASE Users
  BY <1>1, UsersInstants
<1>2. CASE \E c \in Checks : BecomesDue(c)
  BY <1>2, BecomesDueInstants
<1>3. CASE \E s \in Schedulers : Read(s) \/ Abort(s) \/ (\E x \in plan[s] : Add(s, x))
  BY <1>3, SchedulersInstants
<1>4. CASE \E w \in Workers : Work(w) \/ Fail(w)
  BY <1>4, StartInstants, SkipInstants, MeasureInstants, RecordInstants, CompleteInstants, FailInstants
     DEF Work
<1>5. CASE UNCHANGED vars
  <2>1. UNCHANGED <<check, edits, plan, waiting, running, completed>>
    BY <1>5 DEF vars, queue, counts
  <2>2. JobsGoOn /\ OnlyDueRead
    BY <2>1, JobsStay, ReferredStay DEF Known
  <2> QED BY <2>1, <2>2, QueueStep DEF Busy
<1> QED BY <1>1, <1>2, <1>3, <1>4, <1>5 DEF Next

\* The inductive invariant: what a job has measured is an instant that no
\* occurrence in plans, queue or memory has, so recording it moves the check on
\* to an occurrence that nobody knows.
THEOREM QueueInvariant == Spec => []IInv
<1>1. IInv /\ [Next]_vars => IInv'
  BY TypeStep, HeldStep, InstantsStep DEF IInv
<1> QED BY <1>1, InitRight, PTL DEF Spec

\* However many schedulers find the same occurrence, however often calls and
\* processes fail: the queue holds it once, no two workers probe it at the same
\* time, and, as long as no user touches a check, what the queue remembers as
\* completed hides nothing that is still to be probed.
THEOREM QueueStaysSound == Spec => []QueueIsSound
<1>1. IInv => QueueIsSound
  BY DEF IInv, QueueIsSound, NobodyEdited, NothingHidden, RememberedIsRecorded
<1> QED BY <1>1, QueueInvariant, PTL

-----------------------------------------------------------------------------
(* The life of a worker: the inductive invariant *)

\* The stages of a shutdown after that in which a kind is closed.
Past(k) == CASE k = "workers" -> {"queues", "redis", "prisma", "marker", "done"}
             [] k = "queues" -> {"redis", "prisma", "marker", "done"}
             [] k = "redis" -> {"prisma", "marker", "done"}
             [] k = "prisma" -> {"marker", "done"}

\* What a shutdown has come past is closed or never was, and nothing else is.
ClosedInTurn ==
    \A k \in Kinds : /\ stage \in Past(k) => conn[k] \in {"none", "closed", "cut"}
                     /\ Closed(k) => stage \in Past(k)

\* Once it has drained the schedulers no run is at work, but for the deadline,
\* and no worker takes a job.
Drained ==
    stage \notin {"no", "schedulers"} => /\ atWork = TRUE => late = TRUE
                                         /\ conn["workers"] # "started"

JobsHaveWorkers ==
    /\ jobs # {} => conn["workers"] \in {"started", "closing", "cut"}
    /\ main \in {"down", "clears"} => conn["workers"] = "none"

\* A shutdown stops the timers at once, and removes the marker when no
\* heartbeat is under way.
TimersStop ==
    /\ stage # "no" => timers = FALSE /\ heart.on = FALSE
    /\ removal # "no" => stage # "no"
    /\ removal \in {"unlinks", "done", "failed"} => heart.refresh = "none"

LifeIInv == LifecycleTypeOK /\ ClosedInTurn /\ Drained /\ JobsHaveWorkers /\ TimersStop

-----------------------------------------------------------------------------

\* The marker comes back by the startup only.
NotRevived == stage # "no" /\ removal = "done" /\ marker = "absent" /\ marker' # "absent" => main = "writes"

Lives == LifeIInv' /\ NotRevived

LEMMA LifeFields ==
    ASSUME LifeIInv
    PROVE  /\ LifecycleTypeOK
           /\ heart \in Hearts /\ heart.refresh \in {"none", "probing", "writing", "removing"}
           /\ conn \in Connections /\ DOMAIN conn = Kinds
BY DEF LifeIInv, LifecycleTypeOK, Hearts, Connections

\* What the marker's heartbeat does.
LEMMA RefreshTyped ==
    ASSUME heart \in Hearts, NEW r \in {"none", "probing", "writing", "removing"}, Refresh(r)
    PROVE  heart' \in Hearts /\ heart'.refresh = r /\ (heart.on = FALSE => heart'.on = FALSE)
<1>1. heart' = [heart EXCEPT !.refresh = r]
  BY DEF Refresh
<1>2. heart' \in Hearts
  BY <1>1, Zenon DEF Hearts
<1>3. heart'.refresh = r /\ heart'.on = heart.on
  BY <1>1 DEF Hearts
<1> QED BY <1>2, <1>3

LEMMA StoppedTyped ==
    ASSUME heart \in Hearts, heart' = [heart EXCEPT !.on = FALSE, !.draining = TRUE]
    PROVE  heart' \in Hearts /\ heart'.on = FALSE /\ heart'.refresh = heart.refresh
<1>1. heart' \in Hearts
  BY Zenon DEF Hearts
<1>2. heart'.on = FALSE /\ heart'.refresh = heart.refresh
  BY DEF Hearts
<1> QED BY <1>1, <1>2

LEMMA RunningTyped ==
    ASSUME heart \in Hearts, heart' = [heart EXCEPT !.on = TRUE, !.draining = FALSE]
    PROVE  heart' \in Hearts /\ heart'.refresh = heart.refresh
<1>1. heart' \in Hearts
  BY Zenon DEF Hearts
<1>2. heart'.refresh = heart.refresh
  BY DEF Hearts
<1> QED BY <1>1, <1>2

LEMMA DrainingTyped ==
    ASSUME heart \in Hearts, heart' = [heart EXCEPT !.draining = TRUE]
    PROVE  heart' \in Hearts /\ heart'.refresh = heart.refresh
<1>1. heart' \in Hearts
  BY Zenon DEF Hearts
<1>2. heart'.refresh = heart.refresh
  BY DEF Hearts
<1> QED BY <1>1, <1>2

LEMMA QuietTyped == Quiet \in Hearts /\ Quiet.refresh = "none" /\ Quiet.on = FALSE
<1>1. Quiet \in Hearts
  BY Zenon DEF Quiet, Hearts
<1>2. Quiet.refresh = "none" /\ Quiet.on = FALSE
  BY DEF Quiet
<1> QED BY <1>1, <1>2

LEMMA FailureTyped ==
    ASSUME LifecycleTypeOK, Failure \/ UNCHANGED failures
    PROVE  failures' \in 0 .. MaxFailures
BY LifecycleAssumption DEF LifecycleTypeOK, Failure

\* A step that the shutdown and the work do not notice.
LEMMA UnseenLives ==
    ASSUME LifeIInv, UNCHANGED <<heart, stage, removal, late, conn, timers, atWork, jobs>>,
           LifecycleTypeOK', main' \in {"down", "clears"} => main \in {"down", "clears"},
           marker = "absent" /\ marker' # "absent" => main = "writes"
    PROVE  Lives
<1>1. ClosedInTurn' /\ Drained'
  BY DEF LifeIInv, ClosedInTurn, Drained, Closed
<1>2. JobsHaveWorkers' /\ TimersStop'
  BY DEF LifeIInv, JobsHaveWorkers, TimersStop
<1> QED BY <1>1, <1>2 DEF Lives, LifeIInv, NotRevived

-----------------------------------------------------------------------------
(* Signals and errors *)

LEMMA BeginsLives ==
    ASSUME LifeIInv, Begins, stage = "no", main \in Startup \cup {"running", "failing"},
           main' \in {main, "failing"}, marker' \in {"absent", "old", "fresh"},
           failures' \in 0 .. MaxFailures, UNCHANGED <<healthy, late, conn, atWork, jobs, starts>>
    PROVE  Lives
<1>1. heart' \in Hearts /\ heart'.on = FALSE /\ heart'.refresh = heart.refresh
  BY LifeFields, StoppedTyped DEF Begins
<1>2. LifecycleTypeOK'
  <2>1. main' \in Startup \cup {"down", "running", "failing"}
    OBVIOUS
  <2> QED BY <1>1, <2>1 DEF LifeIInv, LifecycleTypeOK, Begins
<1>3. ClosedInTurn' /\ Drained'
  BY DEF LifeIInv, ClosedInTurn, Drained, Begins, Closed, Past, Kinds
<1>4. JobsHaveWorkers'
  BY DEF LifeIInv, JobsHaveWorkers, Startup
<1>5. TimersStop'
  BY <1>1, LifeFields DEF TimersStop, Begins
<1>6. NotRevived
  BY DEF NotRevived
<1> QED BY <1>2, <1>3, <1>4, <1>5, <1>6 DEF Lives, LifeIInv

LEMMA SignalLives == ASSUME LifeIInv, Signal PROVE Lives
<1>1. failures \in 0 .. MaxFailures /\ marker \in {"absent", "old", "fresh"}
      /\ main \in Startup \cup {"running", "failing"}
  BY DEF LifeIInv, LifecycleTypeOK, Signal
<1> QED BY <1>1, BeginsLives DEF Signal, Aborted

\* The startup ends with an error.
LEMMA FailsLives ==
    ASSUME LifeIInv, Fails, main \in Startup, marker' \in {marker, "absent"} \/ main = "writes",
           marker' \in {"absent", "old", "fresh"}, failures' \in 0 .. MaxFailures
    PROVE  Lives
<1>1. CASE Aborted
  <2>1. /\ main' = "failing" /\ UNCHANGED <<heart, stage, removal, timers, healthy, late, conn, atWork, jobs, starts>>
    BY <1>1 DEF Fails
  <2>2. LifecycleTypeOK'
    BY <2>1 DEF LifeIInv, LifecycleTypeOK
  <2> QED BY <2>1, <2>2, UnseenLives
<1>2. CASE ~Aborted
  <2>1. stage = "no" /\ Begins /\ main' = "failing" /\ UNCHANGED <<healthy, late, conn, atWork, jobs, starts>>
    BY <1>2 DEF Fails, Aborted
  <2> QED BY <2>1, BeginsLives
<1> QED BY <1>1, <1>2

LEMMA AwaitsLives == ASSUME LifeIInv, AwaitsHeartbeat PROVE Lives
<1>1. LifecycleTypeOK'
  BY DEF LifeIInv, LifecycleTypeOK, AwaitsHeartbeat
<1>2. ClosedInTurn' /\ Drained' /\ JobsHaveWorkers'
  BY DEF LifeIInv, ClosedInTurn, Drained, JobsHaveWorkers, Closed, AwaitsHeartbeat
<1>3. TimersStop'
  BY DEF LifeIInv, TimersStop, AwaitsHeartbeat
<1> QED BY <1>1, <1>2, <1>3 DEF Lives, LifeIInv, NotRevived, AwaitsHeartbeat

LEMMA UnlinksLives == ASSUME LifeIInv, UnlinksMarker PROVE Lives
<1>1. LifecycleTypeOK'
  BY LifecycleAssumption DEF LifeIInv, LifecycleTypeOK, UnlinksMarker, Failure
<1>2. ClosedInTurn' /\ Drained' /\ JobsHaveWorkers'
  BY DEF LifeIInv, ClosedInTurn, Drained, JobsHaveWorkers, Closed, UnlinksMarker
<1>3. TimersStop'
  BY DEF LifeIInv, TimersStop, UnlinksMarker
<1> QED BY <1>1, <1>2, <1>3 DEF Lives, LifeIInv, NotRevived, UnlinksMarker

LEMMA DeadlineLives == ASSUME LifeIInv, DeadlinePasses PROVE Lives
<1>1. LifecycleTypeOK'
  BY DEF LifeIInv, LifecycleTypeOK, DeadlinePasses
<1>2. ClosedInTurn' /\ Drained' /\ JobsHaveWorkers'
  BY DEF LifeIInv, ClosedInTurn, Drained, JobsHaveWorkers, Closed, DeadlinePasses
<1>3. TimersStop'
  BY DEF LifeIInv, TimersStop, DeadlinePasses
<1> QED BY <1>1, <1>2, <1>3 DEF Lives, LifeIInv, NotRevived, DeadlinePasses

-----------------------------------------------------------------------------
(* The stages of a shutdown *)

\* A stage closes its kind and no other.
StageOf(k) == CASE k = "workers" -> "workers" [] k = "queues" -> "queues"
                [] k = "redis" -> "redis" [] k = "prisma" -> "prisma"

After(k) == CASE k = "workers" -> "queues" [] k = "queues" -> "redis"
              [] k = "redis" -> "prisma" [] k = "prisma" -> "marker"

LEMMA ClosesLives ==
    ASSUME LifeIInv, NEW k \in Kinds, NEW drained \in BOOLEAN,
           k = "workers" /\ drained => jobs = {},
           stage = StageOf(k), Closes(k, drained), Stages(After(k))
    PROVE  Lives
<1> USE LifeFields
<1>1. /\ \A x \in Kinds \ {k} : conn'[x] = conn[x]
      /\ IF conn[k] = "none" THEN conn' = conn ELSE conn'[k] \in {"closed", "cut"}
      /\ conn' \in Connections
  <2>1. CASE conn[k] = "none"
    BY <2>1 DEF Closes
  <2>2. CASE conn[k] # "none"
    <3>1. PICK how \in {"closed", "cut"} : conn' = [conn EXCEPT ![k] = how]
      BY <2>2 DEF Closes
    <3> QED BY <2>2, <3>1 DEF Connections
  <2> QED BY <2>1, <2>2
<1>2. failures' \in 0 .. MaxFailures
  BY FailureTyped DEF Closes
<1>3. LifecycleTypeOK'
  BY <1>1, <1>2 DEF LifecycleTypeOK, Stages, After, Kinds
<1>4. ClosedInTurn'
  BY <1>1 DEF LifeIInv, ClosedInTurn, Stages, Closed, Past, Kinds, After, StageOf
<1>5. Drained'
  BY <1>1 DEF LifeIInv, Drained, Stages, Kinds, After, StageOf
<1>6. JobsHaveWorkers'
  <2>1. CASE k # "workers"
    BY <2>1, <1>1 DEF LifeIInv, JobsHaveWorkers, Stages, Kinds
  <2>2. CASE k = "workers" /\ conn["workers"] = "none"
    BY <2>2, <1>1 DEF LifeIInv, JobsHaveWorkers, Stages, Kinds
  <2>3. CASE k = "workers" /\ conn["workers"] # "none"
    <3>1. jobs = {} \/ conn'["workers"] = "cut"
      BY <2>3, <1>1 DEF Closes, Connections, Kinds
    <3>2. main \notin {"down", "clears"}
      BY <2>3 DEF LifeIInv, JobsHaveWorkers
    <3> QED BY <3>1, <3>2 DEF JobsHaveWorkers, Stages
  <2> QED BY <2>1, <2>2, <2>3
<1>7. TimersStop'
  BY DEF LifeIInv, TimersStop, Stages, After, StageOf, Kinds
<1> QED BY <1>3, <1>4, <1>5, <1>6, <1>7 DEF Lives, LifeIInv, NotRevived, Stages

LEMMA DrainsLives == ASSUME LifeIInv, DrainsSchedulers PROVE Lives
<1> USE LifeFields
<1>1. /\ \A x \in Kinds \ {"workers"} : conn'[x] = conn[x]
      /\ conn'["workers"] = IF conn["workers"] = "none" THEN "none" ELSE "closing"
      /\ conn' \in Connections
  BY DEF DrainsSchedulers, ClosesWorkers, Connections, Kinds
<1>2. LifecycleTypeOK'
  BY <1>1 DEF LifecycleTypeOK, DrainsSchedulers, Stages
<1>3. ClosedInTurn'
  BY <1>1 DEF LifeIInv, ClosedInTurn, DrainsSchedulers, Stages, Closed, Past, Kinds
<1>4. Drained'
  BY <1>1, LifeFields DEF LifeIInv, LifecycleTypeOK, Drained, DrainsSchedulers, Stages
<1>5. JobsHaveWorkers'
  BY <1>1 DEF LifeIInv, JobsHaveWorkers, DrainsSchedulers, Stages
<1>6. TimersStop'
  BY DEF LifeIInv, TimersStop, DrainsSchedulers, Stages
<1> QED BY <1>2, <1>3, <1>4, <1>5, <1>6 DEF Lives, LifeIInv, NotRevived, DrainsSchedulers, Stages

LEMMA EndsLives == ASSUME LifeIInv, EndsShutdown PROVE Lives
<1>1. LifecycleTypeOK'
  BY DEF LifeIInv, LifecycleTypeOK, EndsShutdown, Stages
<1>2. ClosedInTurn'
  BY DEF LifeIInv, ClosedInTurn, EndsShutdown, Stages, Closed, Past, Kinds
<1>3. Drained' /\ JobsHaveWorkers'
  BY DEF LifeIInv, Drained, JobsHaveWorkers, EndsShutdown, Stages
<1>4. TimersStop'
  BY DEF LifeIInv, TimersStop, EndsShutdown, Stages
<1> QED BY <1>1, <1>2, <1>3, <1>4 DEF Lives, LifeIInv, NotRevived, EndsShutdown, Stages

LEMMA ShutdownLives == ASSUME LifeIInv, ShutdownStep PROVE Lives
<1>1. CASE DrainsWorkers
  BY <1>1, ClosesLives DEF DrainsWorkers, StageOf, After, Kinds
<1>2. CASE ClosesQueues
  BY <1>2, ClosesLives DEF ClosesQueues, StageOf, After, Kinds
<1>3. CASE ClosesRedis
  BY <1>3, ClosesLives DEF ClosesRedis, StageOf, After, Kinds
<1>4. CASE ClosesPrisma
  BY <1>4, ClosesLives DEF ClosesPrisma, StageOf, After, Kinds
<1> QED BY <1>1, <1>2, <1>3, <1>4, DrainsLives, EndsLives DEF ShutdownStep

-----------------------------------------------------------------------------
(* The startup *)

LEMMA StartsLives == ASSUME LifeIInv, Starts PROVE Lives
<1>1. conn' \in Connections /\ \A k \in Kinds : conn'[k] \in {"none", "open"} /\ (k = "workers" => conn'[k] = "none")
  BY DEF Starts, Connections, Kinds
<1>2. LifecycleTypeOK'
  <2>1. starts' \in 0 .. MaxStarts
    BY LifecycleAssumption DEF LifeIInv, LifecycleTypeOK, Starts
  <2>2. heart' \in Hearts
    BY QuietTyped DEF Starts
  <2> QED BY <1>1, <2>1, <2>2 DEF LifeIInv, LifecycleTypeOK, Starts, Startup
<1>3. ClosedInTurn' /\ Drained'
  BY <1>1 DEF ClosedInTurn, Drained, Starts, Closed, Past, Kinds
<1>4. JobsHaveWorkers' /\ TimersStop'
  BY <1>1, QuietTyped DEF JobsHaveWorkers, TimersStop, Starts, Kinds
<1> QED BY <1>2, <1>3, <1>4 DEF Lives, LifeIInv, NotRevived, Starts

LEMMA ClearsLives == ASSUME LifeIInv, Clears PROVE Lives
<1>1. CASE Aborted
  BY <1>1, FailsLives, LifeFields DEF Clears, Unlinked, Startup, LifecycleTypeOK
<1>2. CASE ~Aborted
  <2>1. heart' \in Hearts /\ heart'.refresh = heart.refresh
    BY <1>2, LifeFields, DrainingTyped DEF Clears
  <2>2. conn' \in Connections /\ \A k \in Kinds : conn'[k] = "open"
    BY <1>2 DEF Clears, Connections, Kinds
  <2>3. LifecycleTypeOK'
    BY <1>2, <2>1, <2>2 DEF LifeIInv, LifecycleTypeOK, Clears, Unlinked, Startup
  <2>4. ClosedInTurn' /\ Drained'
    BY <1>2, <2>2 DEF ClosedInTurn, Drained, Clears, Closed, Past, Kinds, Aborted
  <2>5. JobsHaveWorkers'
    BY <1>2, <2>2 DEF LifeIInv, JobsHaveWorkers, Clears, Kinds
  <2>6. TimersStop'
    BY <1>2, <2>1 DEF LifeIInv, TimersStop, Clears, Aborted
  <2> QED BY <1>2, <2>3, <2>4, <2>5, <2>6 DEF Lives, LifeIInv, NotRevived, Clears, Unlinked, Aborted
<1> QED BY <1>1, <1>2

LEMMA GoesOnLives ==
    ASSUME LifeIInv, NEW next \in Startup \ {"clears"}, GoesOn(next), marker' \in {marker, "absent"}, UNCHANGED failures
    PROVE  Lives
<1>1. LifecycleTypeOK'
  BY DEF LifeIInv, LifecycleTypeOK, GoesOn, process, Startup
<1> QED BY <1>1, UnseenLives DEF GoesOn, process, Startup

LEMMA ReclearsLives == ASSUME LifeIInv, Reclears PROVE Lives
BY FailsLives, GoesOnLives, LifeFields DEF Reclears, Unlinked, Startup, LifecycleTypeOK

LEMMA ChecksPrismaLives == ASSUME LifeIInv, ChecksPrisma PROVE Lives
BY FailsLives, GoesOnLives, LifeFields DEF ChecksPrisma, Startup, LifecycleTypeOK

LEMMA WorkersReadyLives == ASSUME LifeIInv, WorkersReady PROVE Lives
BY FailsLives, GoesOnLives, LifeFields DEF WorkersReady, Startup, LifecycleTypeOK

LEMMA ChecksRedisLives == ASSUME LifeIInv, ChecksRedis PROVE Lives
<1>1. CASE Aborted
  BY <1>1, FailsLives, LifeFields DEF ChecksRedis, Startup, LifecycleTypeOK
<1>2. CASE ~Aborted
  <2>1. /\ conn' \in Connections /\ conn'["workers"] = "started"
        /\ \A k \in Kinds \ {"workers"} : conn'[k] = conn[k]
    BY <1>2, LifeFields DEF ChecksRedis, Connections, Kinds
  <2>2. LifecycleTypeOK'
    BY <1>2, <2>1 DEF LifeIInv, LifecycleTypeOK, ChecksRedis, Startup
  <2>3. ClosedInTurn' /\ Drained'
    BY <1>2, <2>1 DEF LifeIInv, ClosedInTurn, Drained, ChecksRedis, Closed, Past, Kinds, Aborted
  <2>4. JobsHaveWorkers' /\ TimersStop'
    BY <1>2, <2>1 DEF LifeIInv, JobsHaveWorkers, TimersStop, ChecksRedis
  <2> QED BY <1>2, <2>2, <2>3, <2>4 DEF Lives, LifeIInv, NotRevived, ChecksRedis, Aborted
<1> QED BY <1>1, <1>2

LEMMA MarksLives == ASSUME LifeIInv, MarksReady PROVE Lives
<1>1. CASE Aborted
  BY <1>1, FailsLives, LifeFields DEF MarksReady, Startup, LifecycleTypeOK
<1>2. CASE ~Aborted
  <2>1. heart' \in Hearts /\ heart'.refresh = heart.refresh
    BY <1>2, LifeFields, RunningTyped DEF MarksReady
  <2>2. LifecycleTypeOK'
    BY <1>2, <2>1 DEF LifeIInv, LifecycleTypeOK, MarksReady
  <2>3. ClosedInTurn' /\ Drained'
    BY <1>2 DEF LifeIInv, ClosedInTurn, Drained, MarksReady, Closed
  <2>4. JobsHaveWorkers' /\ TimersStop'
    BY <1>2, <2>1 DEF LifeIInv, JobsHaveWorkers, TimersStop, MarksReady, Aborted
  <2> QED BY <1>2, <2>2, <2>3, <2>4 DEF Lives, LifeIInv, NotRevived, MarksReady, Aborted
<1> QED BY <1>1, <1>2

LEMMA StartupFailsLives == ASSUME LifeIInv, StartupFails PROVE Lives
<1>1. failures' \in 0 .. MaxFailures
  BY LifeFields, FailureTyped DEF StartupFails
<1> QED BY <1>1, FailsLives, LifeFields DEF StartupFails, LifecycleTypeOK

-----------------------------------------------------------------------------
(* The heartbeat, the work and the end *)

LEMMA RefreshLives ==
    ASSUME LifeIInv, NEW r \in {"none", "probing", "writing", "removing"}, Refresh(r),
           heart.on = TRUE \/ heart.refresh # "none",
           UNCHANGED <<main, healthy, stage, removal, late, conn, timers, atWork, jobs, starts>>,
           failures' \in 0 .. MaxFailures, marker' \in {"absent", "old", "fresh"}
    PROVE  Lives
<1>1. heart' \in Hearts /\ heart'.refresh = r /\ (heart.on = FALSE => heart'.on = FALSE)
  BY LifeFields, RefreshTyped
<1>2. LifecycleTypeOK'
  BY <1>1 DEF LifeIInv, LifecycleTypeOK
<1>3. ClosedInTurn' /\ Drained' /\ JobsHaveWorkers'
  BY DEF LifeIInv, ClosedInTurn, Drained, JobsHaveWorkers, Closed
<1>4. removal \notin {"unlinks", "done", "failed"}
  BY DEF LifeIInv, TimersStop
<1>5. TimersStop'
  BY <1>1, <1>4 DEF LifeIInv, TimersStop
<1> QED BY <1>2, <1>3, <1>4, <1>5 DEF Lives, LifeIInv, NotRevived

LEMMA HeartLives == ASSUME LifeIInv, Beats \/ Probes \/ Rewrites \/ Removes PROVE Lives
<1>1. failures' \in 0 .. MaxFailures
  BY LifeFields, FailureTyped DEF Beats, Probes, Rewrites, Removes
<1>2. marker' \in {"absent", "old", "fresh"}
  BY LifeFields DEF Beats, Probes, Rewrites, Removes, Unlinked, LifecycleTypeOK
<1>3. CASE Beats
  <2>1. heart.on = TRUE
    BY <1>3, LifeFields DEF Beats, Hearts
  <2> QED BY <1>1, <1>2, <1>3, <2>1, RefreshLives DEF Beats
<1>4. CASE Probes
  <2>1. PICK r \in {"none", "writing", "removing"} : Refresh(r)
    BY <1>4 DEF Probes
  <2> QED BY <1>1, <1>2, <1>4, <2>1, RefreshLives DEF Probes
<1>5. CASE Rewrites
  <2>1. PICK r \in {"none", "removing"} : Refresh(r)
    BY <1>5 DEF Rewrites
  <2> QED BY <1>1, <1>2, <1>5, <2>1, RefreshLives DEF Rewrites
<1>6. CASE Removes
  BY <1>1, <1>2, <1>6, RefreshLives DEF Removes
<1> QED BY <1>3, <1>4, <1>5, <1>6

LEMMA OutsideLives == ASSUME LifeIInv, MarkerAges \/ Sickens \/ Recovers PROVE Lives
<1>1. LifecycleTypeOK'
  <2>1. failures' \in 0 .. MaxFailures
    BY LifeFields, FailureTyped DEF MarkerAges, Sickens, Recovers
  <2> QED BY <2>1 DEF LifeIInv, LifecycleTypeOK, MarkerAges, Sickens, Recovers, process
<1> QED BY <1>1, UnseenLives DEF MarkerAges, Sickens, Recovers, process

LEMMA JobsLive == ASSUME LifeIInv, NEW j \in Jobs, JobStarts(j) \/ JobEnds(j) PROVE Lives
<1>1. LifecycleTypeOK'
  BY DEF LifeIInv, LifecycleTypeOK, JobStarts, JobEnds
<1>2. ClosedInTurn' /\ Drained'
  BY DEF LifeIInv, ClosedInTurn, Drained, Closed, JobStarts, JobEnds
<1>3. JobsHaveWorkers' /\ TimersStop'
  BY DEF LifeIInv, JobsHaveWorkers, TimersStop, JobStarts, JobEnds
<1> QED BY <1>1, <1>2, <1>3 DEF Lives, LifeIInv, NotRevived, JobStarts, JobEnds

LEMMA RunsLive == ASSUME LifeIInv, RunStarts \/ RunEnds PROVE Lives
<1>1. LifecycleTypeOK'
  BY DEF LifeIInv, LifecycleTypeOK, RunStarts, RunEnds
<1>2. ClosedInTurn'
  BY DEF LifeIInv, ClosedInTurn, Closed, RunStarts, RunEnds
<1>3. Drained'
  BY DEF LifeIInv, Drained, TimersStop, RunStarts, RunEnds
<1>4. JobsHaveWorkers' /\ TimersStop'
  BY DEF LifeIInv, JobsHaveWorkers, TimersStop, RunStarts, RunEnds
<1> QED BY <1>1, <1>2, <1>3, <1>4 DEF Lives, LifeIInv, NotRevived, RunStarts, RunEnds

LEMMA GoneLives == ASSUME LifeIInv, Exits \/ Dies PROVE Lives
<1>1. Gone /\ failures' \in 0 .. MaxFailures
  BY LifeFields, FailureTyped DEF Exits, Dies
<1>2. conn' \in Connections /\ \A k \in Kinds : conn'[k] = "none"
  BY <1>1 DEF Gone, Connections, Kinds
<1>3. LifecycleTypeOK'
  BY <1>1, <1>2, QuietTyped DEF LifeIInv, LifecycleTypeOK, Gone
<1>4. ClosedInTurn' /\ Drained'
  BY <1>1, <1>2 DEF ClosedInTurn, Drained, Gone, Closed, Past, Kinds
<1>5. JobsHaveWorkers' /\ TimersStop'
  BY <1>1, <1>2, QuietTyped DEF JobsHaveWorkers, TimersStop, Gone, Kinds
<1> QED BY <1>1, <1>3, <1>4, <1>5 DEF Lives, LifeIInv, NotRevived, Gone

LEMMA LifeInitRight == LifecycleInit => LifeIInv
<1> SUFFICES ASSUME LifecycleInit PROVE LifeIInv
  OBVIOUS
<1>1. conn \in Connections /\ \A k \in Kinds : conn[k] = "none"
  BY DEF LifecycleInit, Connections, Kinds
<1>2. LifecycleTypeOK
  <2>1. 0 \in 0 .. MaxStarts /\ 0 \in 0 .. MaxFailures
    BY LifecycleAssumption
  <2>2. heart \in Hearts
    BY QuietTyped DEF LifecycleInit
  <2> QED BY <1>1, <2>1, <2>2 DEF LifecycleInit, LifecycleTypeOK
<1>3. ClosedInTurn /\ Drained
  BY <1>1 DEF ClosedInTurn, Drained, LifecycleInit, Closed, Past, Kinds
<1>4. JobsHaveWorkers /\ TimersStop
  BY <1>1, QuietTyped DEF JobsHaveWorkers, TimersStop, LifecycleInit, Kinds
<1> QED BY <1>2, <1>3, <1>4 DEF LifeIInv

LEMMA LifeStep == ASSUME LifeIInv, [LifecycleNext]_lifecycleVars PROVE Lives
<1>1. CASE UNCHANGED lifecycleVars
  <2>1. LifecycleTypeOK'
    BY <1>1 DEF LifeIInv, LifecycleTypeOK, lifecycleVars
  <2> QED BY <1>1, <2>1, UnseenLives DEF lifecycleVars
<1>2. CASE LifecycleNext
  BY <1>2, StartsLives, ClearsLives, ReclearsLives, ChecksPrismaLives, ChecksRedisLives, WorkersReadyLives,
     MarksLives, StartupFailsLives, SignalLives, AwaitsLives, UnlinksLives, DeadlineLives, ShutdownLives,
     HeartLives, OutsideLives, JobsLive, RunsLive, GoneLives
     DEF LifecycleNext, StartupStep
<1> QED BY <1>1, <1>2

LEMMA LifeIsInOrder == ASSUME LifeIInv PROVE WorkKeepsItsConnections /\ NothingLeftOpen
<1> USE LifeFields
<1>1. WorkKeepsItsConnections
  BY DEF LifeIInv, LifecycleTypeOK, ClosedInTurn, Drained, JobsHaveWorkers, WorkKeepsItsConnections, Closed, Past, Kinds
<1>2. NothingLeftOpen
  BY DEF LifeIInv, LifecycleTypeOK, ClosedInTurn, Drained, TimersStop, NothingLeftOpen, Closed, Past, Kinds
<1> QED BY <1>1, <1>2

-----------------------------------------------------------------------------
(* The process *)

\* A step of the process is one of its life, and one of the queue, or leaves
\* them alone.
LEMMA EitherSide ==
    ASSUME [ProcessNext]_processVars
    PROVE  [Next]_vars /\ [LifecycleNext]_lifecycleVars /\ (side \in {"dispatch", "lifecycle"} => side' \in {"dispatch", "lifecycle"})
BY DEF ProcessNext, OfDispatch, OfLifecycle, processVars

ProcessIInv == side \in {"dispatch", "lifecycle"} /\ IInv /\ LifeIInv

\* The inductive invariant of the process: the shutdown closes each kind of
\* connection in its own stage and only there, behind the work that uses it.
THEOREM ProcessInvariant == ProcessSpec => []ProcessIInv
<1>1. ProcessInit => ProcessIInv
  BY InitRight, LifeInitRight DEF ProcessInit, ProcessIInv
<1>2. ProcessIInv /\ [ProcessNext]_processVars => ProcessIInv'
  <2> SUFFICES ASSUME ProcessIInv, [ProcessNext]_processVars PROVE ProcessIInv'
    OBVIOUS
  <2>1. IInv'
    BY EitherSide, TypeStep, HeldStep, InstantsStep DEF ProcessIInv, IInv
  <2>2. LifeIInv'
    BY EitherSide, LifeStep DEF ProcessIInv, Lives
  <2> QED BY <2>1, <2>2, EitherSide DEF ProcessIInv
<1> QED BY <1>1, <1>2, PTL DEF ProcessSpec

\* Whenever the signal comes, whatever hangs, fails or crashes: before the
\* deadline the shutdown takes no connection away from a job or a run at work,
\* and when it is over it has left nothing open.
THEOREM ShutdownStaysInOrder == ProcessSpec => []ShutdownInOrder
<1>1. ProcessIInv => ShutdownInOrder
  BY LifeIsInOrder DEF ProcessIInv, IInv, LifeIInv, ShutdownInOrder, ProcessTypeOK
<1> QED BY <1>1, ProcessInvariant, PTL

\* No heartbeat puts the marker back that the shutdown has removed, however
\* long its probe or its write took.
THEOREM RemovedMarkerStaysAway == ProcessSpec => NoHeartbeatRevives
<1>1. ProcessIInv /\ [ProcessNext]_processVars => [NotRevived]_lifecycleVars
  BY EitherSide, LifeStep DEF ProcessIInv, Lives
<1>2. ProcessSpec => [][NotRevived]_lifecycleVars
  BY <1>1, ProcessInvariant, PTL DEF ProcessSpec
<1> QED BY <1>2 DEF NotRevived, NoHeartbeatRevives

-----------------------------------------------------------------------------
(* The lease of a scheduler: its inductive invariant *)

\* A run has a token while it is not idle, and its timers only while it may
\* renew: one of the two, of a callback that is at work.
RunInOrder(r) ==
    /\ r.pc = "idle" <=> r.token = None
    /\ r.timer # Off => r.pc = "working" /\ r.deadline = Off
    /\ r.deadline # Off => r.pc \in {"working", "stopping"}
    /\ r.pc = "working" /\ ~r.aborted => /\ ~r.stop
                                         /\ r.timer # Off \/ r.deadline # Off
    /\ r.pc = "stopping" => r.stop
    /\ r.pc = "acquiring" => ~r.aborted /\ ~r.stop

\* Tokens are random.
OwnToken == \A o, p \in Owners : run[o].token = run[p].token /\ run[o].token # None => o = p

\* Which requests of a run can be on their way: the SET alone while it acquires,
\* and a release only when it releases.
RequestsInOrder(r) ==
    /\ \A m \in net : m.token = r.token =>
          /\ r.pc = "acquiring" => m.op = "set"
          /\ r.pc \in {"working", "stopping"} => m.op = "renew"
    /\ r.pc = "acquiring" => \A m, n \in net : m.token = r.token /\ n.token = r.token => m = n

\* How long the key lasts: until what a run waits for can be there.
KeyLasts(r) ==
    /\ r.pc = "acquiring" =>
          \A m \in net : m.token = r.token /\ m.state = "yes" =>
             holder = r.token /\ left + m.age >= Ttl
    /\ r.pc = "working" /\ ~r.aborted =>
          /\ holder = r.token
          /\ r.timer # Off => left >= r.timer + Interval
          /\ r.deadline # Off => left >= r.deadline
          /\ \A m \in net : m.token = r.token /\ m.state = "yes" /\ r.deadline # Off =>
                left >= r.deadline + 2 * Interval

\* Not aborted, with a timer set, it has no renewal on its way.
NoStrayRenewal(r) ==
    r.pc = "working" /\ ~r.aborted =>
        /\ r.timer # Off => \A m \in net : m.token # r.token
        /\ \A m, n \in net : m.token = r.token /\ n.token = r.token => m = n

InOrder(o) ==
    /\ RunInOrder(run[o]) /\ RequestsInOrder(run[o])
    /\ KeyLasts(run[o]) /\ NoStrayRenewal(run[o])

LeaseInv == LeaseTypeOK /\ OwnToken /\ \A o \in Owners : InOrder(o)

-----------------------------------------------------------------------------
(* What the steps have in common *)

LEMMA IntervalFacts == /\ Interval \in Nat \ {0} /\ 3 * Interval <= Ttl
                       /\ Off \notin 0 .. Interval /\ Off \in Nat \ {0} /\ Interval # Off
                       /\ 0 \in Timers /\ Off \in Timers /\ Interval \in Timers
BY TimeAssumption, DelayAssumption DEF Interval, Off, Timers

LEMMA IdleTyped == Idle \in LeaseRun /\ Idle.pc = "idle" /\ Idle.token = None
BY IntervalFacts DEF Idle, LeaseRun

LEMMA InitHolds == LeaseInit => LeaseInv
<1> SUFFICES ASSUME LeaseInit PROVE LeaseInv
  OBVIOUS
<1>1. LeaseTypeOK
  BY IdleTyped, TimeAssumption, LeaseBoundAssumption DEF LeaseInit, LeaseTypeOK
<1>2. \A o \in Owners : InOrder(o)
  BY DEF LeaseInit, Idle, InOrder, RunInOrder, RequestsInOrder, KeyLasts, NoStrayRenewal, Off, None
<1>3. OwnToken
  BY DEF LeaseInit, OwnToken, Idle
<1>4. QED
  BY <1>1, <1>2, <1>3 DEF LeaseInv

\* A run that neither moves nor gets a message, while the key does not get
\* shorter, stays in order.
LEMMA UntouchedStaysInOrder ==
    ASSUME LeaseTypeOK, NEW p \in Owners, InOrder(p), run'[p] = run[p],
           holder' = holder, left' \in Nat, left' >= left,
           \A m \in net' : m.token = run[p].token => m \in net
    PROVE  InOrder(p)'
<1>0. run[p] \in LeaseRun /\ left \in Nat
  BY DEF LeaseTypeOK
<1>1. RunInOrder(run[p])'
  BY DEF InOrder, RunInOrder
<1>2. RequestsInOrder(run[p])'
  BY DEF InOrder, RequestsInOrder
<1>3. NoStrayRenewal(run[p])'
  BY DEF InOrder, NoStrayRenewal
<1>4. KeyLasts(run[p])'
  <2>1. ASSUME run[p].pc = "acquiring", NEW m \in net', m.token = run[p].token, m.state = "yes"
        PROVE  holder' = run[p].token /\ left' + m.age >= Ttl
    <3>1. holder = run[p].token /\ left + m.age >= Ttl /\ m.age \in Nat
      BY <2>1 DEF InOrder, KeyLasts, LeaseTypeOK, Message
    <3>2. QED
      BY <1>0, <3>1, TimeAssumption
  <2>2. ASSUME run[p].pc = "working", ~run[p].aborted
        PROVE  /\ holder' = run[p].token
               /\ run[p].timer # Off => left' >= run[p].timer + Interval
               /\ run[p].deadline # Off => left' >= run[p].deadline
               /\ \A m \in net' : m.token = run[p].token /\ m.state = "yes" /\ run[p].deadline # Off =>
                     left' >= run[p].deadline + 2 * Interval
    <3>1. /\ holder = run[p].token
          /\ run[p].timer # Off => left >= run[p].timer + Interval
          /\ run[p].deadline # Off => left >= run[p].deadline
          /\ \A m \in net : m.token = run[p].token /\ m.state = "yes" /\ run[p].deadline # Off =>
                left >= run[p].deadline + 2 * Interval
      BY <2>2 DEF InOrder, KeyLasts
    <3>2. run[p].timer \in Nat /\ run[p].deadline \in Nat
      BY <1>0, IntervalFacts DEF LeaseRun, Timers
    <3>3. QED
      BY <1>0, <3>1, <3>2, IntervalFacts
  <2>3. QED
    BY <2>1, <2>2 DEF KeyLasts
<1>5. QED
  BY <1>1, <1>2, <1>3, <1>4 DEF InOrder

\* A step of one run: what it has to keep.
LEMMA OneRunSteps ==
    ASSUME LeaseInv, NEW o \in Owners, NEW r \in LeaseRun, SetRun(o, r), UNCHANGED <<holder, left>>,
           net' \subseteq Message, leaseFaults' \in 0 .. MaxLeaseFaults,
           r.token \in {None, run[o].token} \/ \A p \in Owners : run[p].token # r.token,
           \A m \in net' : m \in net \/ (m.token = r.token /\ r.token # None),
           run'[o] = r => InOrder(o)'
    PROVE  LeaseInv'
<1>1. run' = [run EXCEPT ![o] = r] /\ run \in [Owners -> LeaseRun] /\ LeaseTypeOK /\ run'[o] = r
  BY DEF LeaseInv, LeaseTypeOK, SetRun
<1>2. LeaseTypeOK'
  BY <1>1 DEF LeaseTypeOK
<1>3. OwnToken'
  BY <1>1 DEF LeaseInv, OwnToken
<1>4. ASSUME NEW p \in Owners PROVE InOrder(p)'
  <2>1. CASE p = o
    BY <1>1, <2>1
  <2>2. CASE p # o
    <3>1. run'[p] = run[p] /\ InOrder(p)
      BY <1>1, <2>2 DEF LeaseInv
    <3>2. run[p].token = r.token => r.token = None
      BY <2>2 DEF LeaseInv, OwnToken
    <3>3. \A m \in net' : m.token = run[p].token => m \in net
      BY <3>2
    <3>4. left' \in Nat /\ left' >= left
      BY <1>1 DEF LeaseTypeOK
    <3>5. QED
      BY <1>1, <3>1, <3>3, <3>4, UntouchedStaysInOrder
  <2>3. QED
    BY <2>1, <2>2
<1>5. QED
  BY <1>2, <1>3, <1>4 DEF LeaseInv

\* Back to idle, whatever is on its way still.
LEMMA EndsInOrder ==
    ASSUME LeaseInv, NEW o \in Owners, SetRun(o, Idle), UNCHANGED <<holder, left>>,
           net' \subseteq net, leaseFaults' \in 0 .. MaxLeaseFaults
    PROVE  LeaseInv'
<1>1. run'[o] = Idle => InOrder(o)'
  BY DEF InOrder, Idle, RunInOrder, RequestsInOrder, KeyLasts, NoStrayRenewal, Off, None
<1>2. net' \subseteq Message
  BY DEF LeaseInv, LeaseTypeOK
<1>3. QED
  BY <1>1, <1>2, IdleTyped, OneRunSteps

-----------------------------------------------------------------------------
(* Runs *)

\* What is known of a run in a state in order.
LEMMA KnownRun ==
    ASSUME LeaseInv, NEW o \in Owners
    PROVE  /\ LeaseTypeOK /\ run[o] \in LeaseRun /\ InOrder(o)
           /\ run[o].token \in Tokens \cup {None} /\ None \notin Tokens
           /\ left \in Nat /\ left <= Ttl
           /\ \A m \in net : m \in Message /\ m.token \in Tokens /\ m.age \in 0 .. AcquireDelay
           /\ leaseFaults \in 0 .. MaxLeaseFaults
BY TimeAssumption DEF LeaseInv, LeaseTypeOK, LeaseRun, Message, Tokens, None

LEMMA FaultTyped == ASSUME LeaseTypeOK, LeaseFault PROVE leaseFaults' \in 0 .. MaxLeaseFaults
BY LeaseBoundAssumption DEF LeaseTypeOK, LeaseFault

LEMMA AcquireInOrder ==
    ASSUME LeaseInv, NEW o \in Owners, NEW t \in Tokens, Acquire(o, t) PROVE LeaseInv'
<1> DEFINE r == [Idle EXCEPT !.pc = "acquiring", !.token = t]
<1>0. SetRun(o, r) /\ net' = net \cup {Sent("set", t)} /\ UNCHANGED <<holder, left, leaseFaults>> /\ Fresh(t)
  BY DEF Acquire
<1>1. /\ r \in LeaseRun /\ r.pc = "acquiring" /\ r.token = t /\ ~r.aborted /\ ~r.stop /\ ~r.lost
      /\ r.timer = Off /\ r.deadline = Off
  BY IntervalFacts DEF Idle, LeaseRun
<1>2. /\ Sent("set", t) \in Message /\ Sent("set", t).op = "set"
      /\ Sent("set", t).state = "sent" /\ Sent("set", t).token = t
  BY TimeAssumption DEF Sent, Message
<1> HIDE DEF r
<1>3. \A m \in net' : m.token = t => m = Sent("set", t)
  BY <1>0 DEF Fresh
<1>4. t # None
  BY KnownRun
<1>5. run'[o] = r => InOrder(o)'
  BY <1>1, <1>2, <1>3, <1>4 DEF InOrder, RunInOrder, RequestsInOrder, KeyLasts, NoStrayRenewal
<1>6. \A p \in Owners : run[p].token # r.token
  BY <1>0, <1>1 DEF Fresh
<1>7. net' \subseteq Message /\ leaseFaults' \in 0 .. MaxLeaseFaults /\ \A m \in net' : m \in net \/ m.token = r.token
  BY <1>0, <1>1, <1>2, KnownRun DEF LeaseTypeOK
<1>8. QED
  BY SMTT(30), <1>0, <1>1, <1>4, <1>5, <1>6, <1>7, OneRunSteps

LEMMA AcquiredInOrder == ASSUME LeaseInv, NEW o \in Owners, Acquired(o) PROVE LeaseInv'
<1>1. PICK m \in net :
          /\ Answered(o, "set", m) /\ net' = net \ {m} /\ run[o].pc = "acquiring"
          /\ SetRun(o, IF m.state = "yes" THEN [run[o] EXCEPT !.pc = "working", !.timer = Interval] ELSE Idle)
          /\ UNCHANGED <<holder, left, leaseFaults>>
  BY DEF Acquired
<1>2. CASE m.state = "yes"
  <2> DEFINE r == [run[o] EXCEPT !.pc = "working", !.timer = Interval]
  <2>1. /\ run[o].deadline = Off /\ run[o].token # None
        /\ \A n \in net : n.token = run[o].token => n = m
        /\ holder = run[o].token /\ left + m.age >= Ttl
    BY <1>1, <1>2, KnownRun DEF InOrder, RunInOrder, RequestsInOrder, KeyLasts, Answered
  <2>2. left >= Interval + Interval
    BY <2>1, KnownRun, IntervalFacts, TimeAssumption, DelayAssumption
  <2>3. /\ r \in LeaseRun /\ r.pc = "working" /\ r.token = run[o].token /\ r.stop = run[o].stop
        /\ r.timer = Interval /\ r.deadline = Off /\ r.aborted = run[o].aborted
    <3>1. run[o] \in LeaseRun
      BY KnownRun
    <3>2. QED
      BY <2>1, <3>1, IntervalFacts DEF LeaseRun
  <2> HIDE DEF r
  <2>4. \A n \in net' : n.token # r.token
    BY <1>1, <2>1, <2>3
  <2>5. ~r.stop /\ ~r.aborted
    BY <1>1, <2>3, KnownRun DEF InOrder, RunInOrder
  <2>6. ASSUME run'[o] = r PROVE InOrder(o)'
    <3>1. RunInOrder(run[o])'
      BY <2>1, <2>3, <2>5, <2>6, IntervalFacts DEF RunInOrder
    <3>2. RequestsInOrder(run[o])' /\ NoStrayRenewal(run[o])'
      BY <2>3, <2>4, <2>6 DEF RequestsInOrder, NoStrayRenewal
    <3>3. KeyLasts(run[o])'
      BY <1>1, <2>1, <2>2, <2>3, <2>4, <2>6 DEF KeyLasts
    <3>4. QED
      BY <3>1, <3>2, <3>3 DEF InOrder
  <2>9. net' \subseteq Message /\ leaseFaults' \in 0 .. MaxLeaseFaults
    BY <1>1, KnownRun
  <2>10. SetRun(o, r)
    BY <1>1, <1>2 DEF r
  <2>11. QED
    BY <1>1, <2>3, <2>6, <2>9, <2>10, OneRunSteps
<1>3. CASE m.state # "yes"
  BY <1>1, <1>3, EndsInOrder, KnownRun
<1>4. QED
  BY <1>2, <1>3

LEMMA RenewInOrder == ASSUME LeaseInv, NEW o \in Owners, Renew(o) PROVE LeaseInv'
<1> DEFINE r == [run[o] EXCEPT !.timer = Off, !.deadline = Interval]
           t == run[o].token
<1>0. SetRun(o, r) /\ net' = net \cup {Sent("renew", t)} /\ UNCHANGED <<holder, left, leaseFaults>> /\ run[o].timer = 0
  BY DEF Renew
<1>1. run[o].pc = "working" /\ t \in Tokens /\ t # None /\ run[o].timer # Off /\ Interval # Off
  BY <1>0, KnownRun, IntervalFacts DEF InOrder, RunInOrder
<1>2. /\ r \in LeaseRun /\ r.pc = "working" /\ r.token = t /\ r.aborted = run[o].aborted
      /\ r.stop = run[o].stop /\ r.timer = Off /\ r.deadline = Interval
  BY <1>1, KnownRun, IntervalFacts DEF LeaseRun
<1>3. /\ Sent("renew", t) \in Message /\ Sent("renew", t).op = "renew"
      /\ Sent("renew", t).state = "sent" /\ Sent("renew", t).token = t
  BY <1>1, TimeAssumption DEF Sent, Message
<1> HIDE DEF r
<1>4. ASSUME run'[o] = r PROVE InOrder(o)'
  <2>1. RunInOrder(run[o])'
    BY <1>0, <1>1, <1>2, <1>4, KnownRun DEF InOrder, RunInOrder
  <2>2. RequestsInOrder(run[o])'
    BY <1>0, <1>1, <1>2, <1>3, <1>4, KnownRun DEF InOrder, RequestsInOrder
  <2>3. ~r.aborted => \A m \in net' : m.token = t => m = Sent("renew", t)
    BY <1>0, <1>1, <1>2, KnownRun DEF InOrder, NoStrayRenewal
  <2>4. NoStrayRenewal(run[o])'
    BY <1>2, <1>4, <2>3 DEF NoStrayRenewal
  <2>5. ~r.aborted => holder = t /\ left >= 0 + Interval
    BY <1>0, <1>1, <1>2, KnownRun DEF InOrder, KeyLasts
  <2>6. KeyLasts(run[o])'
    BY <1>0, <1>2, <1>3, <1>4, <2>3, <2>5, IntervalFacts, KnownRun DEF KeyLasts
  <2>7. QED
    BY <2>1, <2>2, <2>4, <2>6 DEF InOrder
<1>9. net' \subseteq Message /\ \A m \in net' : m \in net \/ m.token = r.token
  BY <1>0, <1>2, <1>3, KnownRun DEF LeaseTypeOK
<1>10. QED
  BY <1>0, <1>1, <1>2, <1>4, <1>9, KnownRun, OneRunSteps

\* A run that stops, or was told to, needs the key no longer.
LEMMA GivesUpInOrder ==
    ASSUME LeaseInv, NEW o \in Owners, NEW r \in LeaseRun, SetRun(o, r), UNCHANGED <<holder, left>>,
           net' \subseteq net, leaseFaults' \in 0 .. MaxLeaseFaults,
           run[o].pc \in {"working", "stopping"}, r.pc \in {"working", "stopping"},
           r.token = run[o].token, r.pc = "working" => r.aborted, RunInOrder(r)
    PROVE  LeaseInv'
<1>1. ASSUME run'[o] = r PROVE InOrder(o)'
  <2>1. RunInOrder(run[o])'
    BY <1>1 DEF RunInOrder
  <2>2. RequestsInOrder(run[o])'
    BY <1>1, KnownRun DEF InOrder, RequestsInOrder
  <2>3. KeyLasts(run[o])' /\ NoStrayRenewal(run[o])'
    BY <1>1 DEF KeyLasts, NoStrayRenewal
  <2>4. QED
    BY <2>1, <2>2, <2>3 DEF InOrder
<1>2. net' \subseteq Message
  BY KnownRun
<1>3. QED
  BY <1>1, <1>2, OneRunSteps

LEMMA LostInOrder ==
    ASSUME LeaseInv, NEW o \in Owners, run[o].deadline # Off, SetRun(o, Lost(run[o])),
           UNCHANGED <<holder, left>>, net' \subseteq net, leaseFaults' \in 0 .. MaxLeaseFaults
    PROVE  LeaseInv'
<1> DEFINE r == Lost(run[o])
<1>1. /\ r \in LeaseRun /\ r.pc = run[o].pc /\ r.token = run[o].token /\ r.aborted /\ r.stop = run[o].stop
      /\ r.timer = run[o].timer /\ r.deadline = Off
  BY KnownRun, IntervalFacts DEF Lost, LeaseRun
<1> HIDE DEF r
<1>2. run[o].pc \in {"working", "stopping"} /\ run[o].timer = Off
  BY KnownRun DEF InOrder, RunInOrder
<1>3. RunInOrder(r)
  BY <1>1, <1>2, KnownRun DEF InOrder, RunInOrder
<1>4. QED
  BY <1>1, <1>2, <1>3, GivesUpInOrder DEF r

LEMMA StopsInOrder == ASSUME LeaseInv, NEW o \in Owners, Cancel(o) \/ CallbackEnds(o) PROVE LeaseInv'
<1>0. run[o].pc = "working" /\ UNCHANGED <<holder, left, net, leaseFaults>> /\ leaseFaults' \in 0 .. MaxLeaseFaults
  BY KnownRun DEF Cancel, CallbackEnds
<1>1. CASE Cancel(o)
  <2> DEFINE r == [run[o] EXCEPT !.aborted = TRUE, !.stop = TRUE, !.timer = Off]
  <2>1. /\ r \in LeaseRun /\ r.pc = "working" /\ r.token = run[o].token /\ r.aborted /\ r.stop
        /\ r.timer = Off /\ r.deadline = run[o].deadline
    BY <1>0, KnownRun, IntervalFacts DEF LeaseRun
  <2>2. SetRun(o, r)
    BY <1>1 DEF Cancel
  <2> HIDE DEF r
  <2>3. RunInOrder(r)
    BY <1>0, <2>1, KnownRun DEF InOrder, RunInOrder
  <2>4. QED
    BY <1>0, <2>1, <2>2, <2>3, GivesUpInOrder
<1>2. CASE CallbackEnds(o)
  <2> DEFINE r == [run[o] EXCEPT !.pc = "stopping", !.stop = TRUE, !.timer = Off]
  <2>1. /\ r \in LeaseRun /\ r.pc = "stopping" /\ r.token = run[o].token /\ r.stop
        /\ r.timer = Off /\ r.deadline = run[o].deadline
    BY <1>0, KnownRun, IntervalFacts DEF LeaseRun
  <2>2. SetRun(o, r)
    BY <1>2 DEF CallbackEnds
  <2> HIDE DEF r
  <2>3. RunInOrder(r)
    BY <1>0, <2>1, KnownRun DEF InOrder, RunInOrder
  <2>4. QED
    BY <1>0, <2>1, <2>2, <2>3, GivesUpInOrder
<1>3. QED
  BY <1>1, <1>2

\* The answer of a renewal came while the key lasts for two intervals more.
LEMMA RenewedInOrder == ASSUME LeaseInv, NEW o \in Owners, Renewed(o) PROVE LeaseInv'
<1>1. PICK m \in net :
          /\ Answered(o, "renew", m) /\ net' = net \ {m}
          /\ SetRun(o, IF m.state = "yes"
                         THEN [run[o] EXCEPT !.deadline = Off, !.timer = IF run[o].stop THEN Off ELSE Interval]
                         ELSE Lost(run[o]))
          /\ UNCHANGED <<holder, left, leaseFaults>> /\ run[o].deadline # Off
  BY DEF Renewed
<1>2. /\ run[o].pc \in {"working", "stopping"} /\ run[o].timer = Off /\ run[o].token # None
      /\ m.token = run[o].token /\ net' \subseteq net /\ leaseFaults' \in 0 .. MaxLeaseFaults
  BY <1>1, KnownRun DEF InOrder, RunInOrder, Answered
<1>3. CASE m.state # "yes"
  BY <1>1, <1>2, <1>3, LostInOrder
<1>4. CASE m.state = "yes"
  <2> DEFINE T == IF run[o].stop THEN Off ELSE Interval
             r == [run[o] EXCEPT !.deadline = Off, !.timer = T]
  <2>1. T \in Timers
    BY IntervalFacts
  <2>2. /\ r \in LeaseRun /\ r.pc = run[o].pc /\ r.token = run[o].token /\ r.aborted = run[o].aborted
        /\ r.stop = run[o].stop /\ r.timer = T /\ r.deadline = Off
    BY <2>1, KnownRun, IntervalFacts DEF LeaseRun
  <2>3. SetRun(o, r)
    BY <1>1, <1>4
  <2> HIDE DEF r
  <2>4. RunInOrder(r)
    BY <1>1, <1>2, <2>2, IntervalFacts, KnownRun DEF InOrder, RunInOrder
  <2>5. CASE run[o].pc = "stopping" \/ run[o].aborted
    BY <1>1, <1>2, <2>2, <2>3, <2>4, <2>5, GivesUpInOrder
  <2>6. CASE run[o].pc = "working" /\ ~run[o].aborted
    <3>1. /\ holder = run[o].token /\ left >= run[o].deadline + 2 * Interval
          /\ \A n \in net : n.token = run[o].token => n = m
          /\ T = Interval
      BY <1>1, <1>2, <1>4, <2>6, KnownRun DEF InOrder, RunInOrder, KeyLasts, NoStrayRenewal
    <3>2. left >= Interval + Interval
      BY <3>1, KnownRun, IntervalFacts DEF LeaseRun, Timers
    <3>3. \A n \in net' : n.token # r.token
      BY <1>1, <2>2, <3>1
    <3>4. ASSUME run'[o] = r PROVE InOrder(o)'
      <4>1. RunInOrder(run[o])'
        BY <2>4, <3>4 DEF RunInOrder
      <4>2. RequestsInOrder(run[o])' /\ NoStrayRenewal(run[o])'
        BY <3>3, <3>4 DEF RequestsInOrder, NoStrayRenewal
      <4>3. KeyLasts(run[o])'
        BY <1>1, <2>2, <2>6, <3>1, <3>2, <3>3, <3>4 DEF KeyLasts
      <4>4. QED
        BY <4>1, <4>2, <4>3 DEF InOrder
    <3>5. net' \subseteq Message
      BY <1>2, KnownRun
    <3>6. QED
      BY <1>1, <1>2, <2>2, <2>3, <3>4, <3>5, OneRunSteps
  <2>7. QED
    BY <1>2, <2>5, <2>6
<1>5. QED
  BY <1>3, <1>4

LEMMA ReleaseInOrder == ASSUME LeaseInv, NEW o \in Owners, Release(o) PROVE LeaseInv'
<1>0. run[o].pc = "stopping" /\ run[o].deadline = Off /\ UNCHANGED <<holder, left, leaseFaults>>
      /\ leaseFaults' \in 0 .. MaxLeaseFaults
  BY KnownRun DEF Release
<1>1. CASE run[o].lost
  BY <1>0, <1>1, EndsInOrder DEF Release
<1>2. CASE ~run[o].lost
  <2> DEFINE r == [run[o] EXCEPT !.pc = "releasing"]
             m == Sent("release", run[o].token)
  <2>1. /\ r \in LeaseRun /\ r.pc = "releasing" /\ r.token = run[o].token
        /\ r.timer = run[o].timer /\ r.deadline = Off
    BY <1>0, KnownRun DEF LeaseRun
  <2>2. SetRun(o, r) /\ net' = net \cup {m}
    BY <1>0, <1>2 DEF Release
  <2>3. run[o].token \in Tokens /\ run[o].token # None /\ run[o].timer = Off
    BY <1>0, KnownRun DEF InOrder, RunInOrder
  <2>4. m \in Message /\ m.token = run[o].token
    BY <2>3, TimeAssumption DEF Sent, Message
  <2> HIDE DEF r, m
  <2>5. run'[o] = r => InOrder(o)'
    BY <2>1, <2>3 DEF InOrder, RunInOrder, RequestsInOrder, KeyLasts, NoStrayRenewal
  <2>6. net' \subseteq Message /\ \A n \in net' : n \in net \/ (n.token = r.token /\ r.token # None)
    BY <2>1, <2>2, <2>3, <2>4, KnownRun
  <2>7. QED
    BY <1>0, <2>1, <2>2, <2>5, <2>6, OneRunSteps
<1>3. QED
  BY <1>1, <1>2

LEMMA RunsInOrder ==
    ASSUME LeaseInv, NEW o \in Owners,
           \/ \E t \in Tokens : Acquire(o, t)
           \/ RunStep(o) \/ Cancel(o)
           \/ AcquireFails(o) \/ RenewFails(o) \/ ReleaseFails(o) \/ Crash(o)
    PROVE  LeaseInv'
<1>1. ASSUME NEW t \in Tokens, Acquire(o, t) PROVE LeaseInv'
  BY <1>1, AcquireInOrder
<1>2. CASE RunStep(o)
  <2>1. CASE RenewTimesOut(o)
    <3>1. run[o].deadline # Off /\ leaseFaults' \in 0 .. MaxLeaseFaults
      BY <2>1, IntervalFacts, KnownRun DEF RenewTimesOut
    <3>2. QED
      BY <2>1, <3>1, LostInOrder DEF RenewTimesOut
  <2>2. CASE Released(o)
    BY <2>2, EndsInOrder, KnownRun DEF Released
  <2>3. QED
    BY <1>2, <2>1, <2>2, AcquiredInOrder, RenewInOrder, RenewedInOrder, StopsInOrder, ReleaseInOrder DEF RunStep
<1>3. CASE Cancel(o)
  BY <1>3, StopsInOrder
<1>4. CASE AcquireFails(o) \/ ReleaseFails(o) \/ Crash(o)
  <2>1. /\ SetRun(o, Idle) /\ UNCHANGED <<holder, left>> /\ net' \subseteq net /\ LeaseFault
    BY <1>4 DEF AcquireFails, ReleaseFails, Crash
  <2>2. QED
    BY <2>1, KnownRun, FaultTyped, EndsInOrder
<1>5. CASE RenewFails(o)
  <2>1. net' \subseteq net
    BY <1>5 DEF RenewFails
  <2>2. QED
    BY <1>5, <2>1, KnownRun, FaultTyped, LostInOrder DEF RenewFails
<1>6. QED
  BY <1>1, <1>2, <1>3, <1>4, <1>5

-----------------------------------------------------------------------------
(* The store *)

\* Obeying a request: the key of somebody who has it goes only by its own
\* release, and what is confirmed holds for a whole TTL.
LEMMA StoreEffect ==
    ASSUME LeaseInv, NEW m \in net, StoreSets(m) \/ StoreRenews(m) \/ StoreReleases(m)
    PROVE  /\ UNCHANGED <<run, leaseFaults>> /\ holder' \in Tokens \cup {None}
           /\ left' \in 0 .. Ttl /\ left' >= left
           /\ holder # None => holder' = holder \/ (m.op = "release" /\ m.token = holder)
           /\ \E a \in Message :
                 /\ net' = (net \ {m}) \cup {a} /\ a.token = m.token /\ a.op = m.op /\ a.age = m.age
                 /\ a.state = "yes" /\ m.op = "set" => holder' = m.token /\ left' = Ttl
                 /\ a.state = "yes" /\ m.op = "renew" => left' = Ttl
<1>0. /\ m \in Message /\ left \in 0 .. Ttl /\ holder \in Tokens \cup {None} /\ m.token \in Tokens
      /\ Ttl \in Nat /\ Ttl \in 0 .. Ttl
  BY KnownRun, TimeAssumption DEF LeaseInv, LeaseTypeOK, Message
<1> DEFINE y == Answer(m, TRUE)
           n == Answer(m, FALSE)
<1>1. /\ y \in Message /\ y.token = m.token /\ y.op = m.op /\ y.age = m.age /\ y.state = "yes"
      /\ n \in Message /\ n.token = m.token /\ n.op = m.op /\ n.age = m.age /\ n.state = "no"
  BY <1>0 DEF Answer, Message
<1>2. CASE StoreSets(m)
  <2>1. CASE holder = None
    <3>1. net' = (net \ {m}) \cup {y}
      BY <1>2, <2>1 DEF StoreSets, Processed, Answer
    <3> HIDE DEF y, n
    <3>2. holder' = m.token /\ left' = Ttl /\ UNCHANGED <<run, leaseFaults>> /\ m.op = "set"
      BY <1>2, <2>1 DEF StoreSets, Requested
    <3>3. QED
      BY <1>0, <1>1, <2>1, <3>1, <3>2
  <2>2. CASE holder # None
    <3>1. net' = (net \ {m}) \cup {n}
      BY <1>2, <2>2 DEF StoreSets, Processed, Answer
    <3> HIDE DEF y, n
    <3>2. UNCHANGED <<run, leaseFaults, holder, left>> /\ m.op = "set"
      BY <1>2, <2>2 DEF StoreSets, Requested
    <3>3. QED
      BY <1>0, <1>1, <3>1, <3>2
  <2>3. QED
    BY <2>1, <2>2
<1>3. CASE StoreRenews(m)
  <2>1. CASE holder = m.token
    <3>1. net' = (net \ {m}) \cup {y}
      BY <1>3, <2>1 DEF StoreRenews, Processed, Answer
    <3> HIDE DEF y, n
    <3>2. left' = Ttl /\ UNCHANGED <<run, leaseFaults, holder>> /\ m.op = "renew"
      BY <1>3, <2>1 DEF StoreRenews, Requested
    <3>3. QED
      BY <1>0, <1>1, <3>1, <3>2
  <2>2. CASE holder # m.token
    <3>1. net' = (net \ {m}) \cup {n}
      BY <1>3, <2>2 DEF StoreRenews, Processed, Answer
    <3> HIDE DEF y, n
    <3>2. UNCHANGED <<run, leaseFaults, holder, left>> /\ m.op = "renew"
      BY <1>3, <2>2 DEF StoreRenews, Requested
    <3>3. QED
      BY <1>0, <1>1, <3>1, <3>2
  <2>3. QED
    BY <2>1, <2>2
<1>4. CASE StoreReleases(m)
  <2>1. CASE holder = m.token
    <3>1. net' = (net \ {m}) \cup {y}
      BY <1>4, <2>1 DEF StoreReleases, Processed, Answer
    <3> HIDE DEF y, n
    <3>2. holder' = None /\ UNCHANGED <<run, leaseFaults, left>> /\ m.op = "release"
      BY <1>4, <2>1 DEF StoreReleases, Requested
    <3>3. QED
      BY <1>0, <1>1, <2>1, <3>1, <3>2
  <2>2. CASE holder # m.token
    <3>1. net' = (net \ {m}) \cup {n}
      BY <1>4, <2>2 DEF StoreReleases, Processed, Answer
    <3> HIDE DEF y, n
    <3>2. UNCHANGED <<run, leaseFaults, holder, left>> /\ m.op = "release"
      BY <1>4, <2>2 DEF StoreReleases, Requested
    <3>3. QED
      BY <1>0, <1>1, <3>1, <3>2
  <2>3. QED
    BY <2>1, <2>2
<1>5. QED
  BY <1>2, <1>3, <1>4

LEMMA StoreInOrder == ASSUME LeaseInv, StoreStep PROVE LeaseInv'
<1>1. PICK m \in net : StoreSets(m) \/ StoreRenews(m) \/ StoreReleases(m)
  BY DEF StoreStep
<1>2. PICK a \in Message :
          /\ net' = (net \ {m}) \cup {a} /\ a.token = m.token /\ a.op = m.op /\ a.age = m.age
          /\ a.state = "yes" /\ m.op = "set" => holder' = m.token /\ left' = Ttl
          /\ a.state = "yes" /\ m.op = "renew" => left' = Ttl
  BY <1>1, StoreEffect
<1>3. /\ UNCHANGED <<run, leaseFaults>> /\ holder' \in Tokens \cup {None}
      /\ left' \in 0 .. Ttl /\ left' >= left
      /\ holder # None => holder' = holder \/ (m.op = "release" /\ m.token = holder)
  BY <1>1, StoreEffect
<1>4. LeaseTypeOK'
  BY <1>2, <1>3 DEF LeaseInv, LeaseTypeOK
<1>5. OwnToken'
  BY <1>3 DEF LeaseInv, OwnToken
<1>6. ASSUME NEW p \in Owners PROVE InOrder(p)'
  <2> DEFINE r == run[p]
  <2>0. r' = r /\ r \in LeaseRun /\ InOrder(p) /\ r.token \in Tokens \cup {None} /\ None \notin Tokens
        /\ left \in Nat /\ left' \in Nat /\ \A n \in net : n.token \in Tokens /\ n.age \in Nat
    BY <1>3, KnownRun
  <2>1. RunInOrder(run[p])'
    BY <2>0 DEF InOrder, RunInOrder
  <2>2. RequestsInOrder(run[p])'
    BY <1>2, <2>0 DEF InOrder, RequestsInOrder
  <2>3. NoStrayRenewal(run[p])'
    BY <1>2, <2>0 DEF InOrder, NoStrayRenewal
  <2>4. ASSUME r.pc = "acquiring", NEW n \in net', n.token = r.token, n.state = "yes"
        PROVE  holder' = r.token /\ left' + n.age >= Ttl
    <3>1. CASE n = a
      BY <1>2, <2>0, <2>4, <3>1, TimeAssumption DEF InOrder, RequestsInOrder
    <3>2. CASE n # a
      <4>1. /\ n \in net /\ m.token # r.token
            /\ holder = r.token /\ left + n.age >= Ttl /\ n.age \in Nat
        BY <1>2, <2>0, <2>4, <3>2 DEF InOrder, RequestsInOrder, KeyLasts
      <4>2. holder' = holder
        BY <1>3, <2>0, <2>4, <4>1
      <4>3. QED
        BY <1>3, <2>0, <4>1, <4>2, TimeAssumption
    <3>3. QED
      BY <3>1, <3>2
  <2>5. ASSUME r.pc = "working", ~r.aborted
        PROVE  /\ holder' = r.token
               /\ r.timer # Off => left' >= r.timer + Interval
               /\ r.deadline # Off => left' >= r.deadline
               /\ \A n \in net' : n.token = r.token /\ n.state = "yes" /\ r.deadline # Off =>
                     left' >= r.deadline + 2 * Interval
    <3>1. /\ holder = r.token /\ r.token # None
          /\ r.timer # Off => left >= r.timer + Interval
          /\ r.deadline # Off => left >= r.deadline
          /\ \A n \in net : n.token = r.token /\ n.state = "yes" /\ r.deadline # Off =>
                left >= r.deadline + 2 * Interval
          /\ \A n \in net : n.token = r.token => n.op = "renew"
      BY <2>0, <2>5 DEF InOrder, RunInOrder, RequestsInOrder, KeyLasts
    <3>2. holder' = r.token
      BY <1>3, <3>1
    <3>3. r.timer \in Nat /\ r.deadline \in Nat /\ (r.deadline # Off => r.deadline <= Interval)
      BY <2>0, IntervalFacts DEF LeaseRun, Timers
    <3>4. ASSUME NEW n \in net', n.token = r.token, n.state = "yes", r.deadline # Off
          PROVE  left' >= r.deadline + 2 * Interval
      <4>1. CASE n = a
        BY <1>2, <3>1, <3>3, <3>4, <4>1, IntervalFacts, TimeAssumption
      <4>2. CASE n # a
        BY <1>2, <1>3, <2>0, <3>1, <3>3, <3>4, <4>2, IntervalFacts
      <4>3. QED
        BY <4>1, <4>2
    <3>5. QED
      BY <1>3, <2>0, <3>1, <3>2, <3>3, <3>4, IntervalFacts
  <2>6. KeyLasts(run[p])'
    BY <2>0, <2>4, <2>5 DEF KeyLasts
  <2>7. QED
    BY <2>1, <2>2, <2>3, <2>6 DEF InOrder
<1>7. QED
  BY <1>4, <1>5, <1>6 DEF LeaseInv

LEMMA DropInOrder == ASSUME LeaseInv, NEW m \in net, Drop(m) PROVE LeaseInv'
<1>1. net' \subseteq net /\ UNCHANGED <<holder, left, run, leaseFaults>>
  BY DEF Drop
<1>2. LeaseTypeOK' /\ OwnToken'
  BY <1>1 DEF LeaseInv, LeaseTypeOK, OwnToken
<1>3. left' \in Nat /\ left' >= left
  BY <1>1, TimeAssumption DEF LeaseInv, LeaseTypeOK
<1>4. \A p \in Owners : InOrder(p)'
  BY <1>1, <1>3, UntouchedStaysInOrder DEF LeaseInv
<1>5. QED
  BY <1>2, <1>4 DEF LeaseInv

-----------------------------------------------------------------------------
(* Time *)

Older(m) == IF AwaitedSet(m) THEN [m EXCEPT !.age = @ + 1] ELSE m

LEMMA OlderTyped ==
    ASSUME LeaseTypeOK, NEW m \in net, AwaitedSet(m) => m.age < AcquireDelay
    PROVE  /\ Older(m) \in Message /\ Older(m).token = m.token /\ Older(m).op = m.op
           /\ Older(m).state = m.state
           /\ Older(m).age = IF AwaitedSet(m) THEN m.age + 1 ELSE m.age
<1>1. m \in Message /\ AcquireDelay \in Nat
  BY TimeAssumption DEF LeaseTypeOK
<1>2. CASE AwaitedSet(m)
  <2>1. m.age + 1 \in 0 .. AcquireDelay
    BY <1>1, <1>2 DEF Message
  <2>2. QED
    BY <1>1, <1>2, <2>1 DEF Older, Message
<1>3. CASE ~AwaitedSet(m)
  BY <1>1, <1>3 DEF Older
<1>4. QED
  BY <1>2, <1>3

LEMMA TimerTicks ==
    ASSUME NEW t \in Timers, t # 0
    PROVE  Less(t) \in Timers /\ (Less(t) = Off <=> t = Off) /\ (t # Off => Less(t) = t - 1 /\ t \in 1 .. Interval)
BY IntervalFacts DEF Timers, Less

LEMMA RunTicks ==
    ASSUME LeaseInv, Tick, NEW o \in Owners
    PROVE  /\ run'[o] \in LeaseRun /\ run'[o].pc = run[o].pc /\ run'[o].token = run[o].token
           /\ run'[o].aborted = run[o].aborted /\ run'[o].stop = run[o].stop
           /\ run'[o].timer = Less(run[o].timer) /\ run'[o].deadline = Less(run[o].deadline)
           /\ run[o].timer \in Timers \ {0} /\ run[o].deadline \in Timers \ {0}
<1>1. run[o] \in LeaseRun /\ run[o].timer \in Timers /\ run[o].deadline \in Timers
  BY KnownRun DEF LeaseRun
<1>2. /\ run'[o] = [run[o] EXCEPT !.timer = Less(run[o].timer), !.deadline = Less(run[o].deadline)]
      /\ run[o].timer # 0 /\ run[o].deadline # 0
  BY <1>1 DEF Tick, LeaseRun
<1>3. QED
  BY <1>1, <1>2, TimerTicks DEF LeaseRun

LEMMA NetTicks ==
    ASSUME LeaseInv, Tick
    PROVE  /\ net' = {Older(m) : m \in net}
           /\ \A m \in net : AwaitedSet(m) => m.age < AcquireDelay
BY DEF Tick, Older

LEMMA TickInOrder == ASSUME LeaseInv, Tick PROVE LeaseInv'
<1>0. /\ left \in 0 .. Ttl /\ holder \in Tokens \cup {None} /\ Ttl \in Nat /\ LeaseTypeOK
      /\ None \notin Tokens
  BY TimeAssumption DEF LeaseInv, LeaseTypeOK, None, Tokens
<1>1. /\ holder' \in Tokens \cup {None} /\ left' \in 0 .. Ttl /\ leaseFaults' = leaseFaults
      /\ holder # None /\ left > 0 => holder' = holder /\ left' = left - 1
  <2>1. leaseFaults' = leaseFaults /\ IF holder = None \/ left = 0
                                  THEN holder' = None /\ left' = 0
                                  ELSE holder' = holder /\ left' = left - 1
    BY DEF Tick
  <2>2. QED
    BY <1>0, <2>1
<1>2. net' \subseteq Message
  BY <1>0, NetTicks, OlderTyped
<1>3. run' \in [Owners -> LeaseRun]
  <2>1. run' = [o \in Owners |-> [run[o] EXCEPT !.timer = Less(@), !.deadline = Less(@)]]
    BY DEF Tick
  <2>2. \A o \in Owners : run'[o] \in LeaseRun
    BY RunTicks
  <2>3. QED
    BY <2>1, <2>2
<1>4. LeaseTypeOK'
  BY <1>0, <1>1, <1>2, <1>3 DEF LeaseTypeOK
<1>5. OwnToken'
  BY RunTicks DEF LeaseInv, OwnToken
<1>6. ASSUME NEW o \in Owners PROVE InOrder(o)'
  <2> DEFINE r == run[o]
  <2>0. InOrder(o) /\ r \in LeaseRun
    BY KnownRun
  <2>1. /\ r'.pc = r.pc /\ r'.token = r.token /\ r'.aborted = r.aborted /\ r'.stop = r.stop
        /\ r'.timer = Off <=> r.timer = Off
        /\ r'.deadline = Off <=> r.deadline = Off
        /\ r.timer # Off => r'.timer = r.timer - 1 /\ r.timer \in 1 .. Interval
        /\ r.deadline # Off => r'.deadline = r.deadline - 1 /\ r.deadline \in 1 .. Interval
    BY RunTicks, TimerTicks
  <2>2. ASSUME NEW n \in net'
        PROVE  \E m \in net : n = Older(m) /\ n.token = m.token /\ n.op = m.op /\ n.state = m.state
    BY <1>0, <2>2, NetTicks, OlderTyped
  <2>3. RunInOrder(run[o])'
    BY <2>0, <2>1 DEF InOrder, RunInOrder
  <2>4. RequestsInOrder(run[o])'
    BY <2>0, <2>1, <2>2 DEF InOrder, RequestsInOrder
  <2>5. NoStrayRenewal(run[o])'
    BY <2>0, <2>1, <2>2 DEF InOrder, NoStrayRenewal
  <2>6. ASSUME r.pc = "acquiring", NEW n \in net', n.token = r.token, n.state = "yes"
        PROVE  holder' = r.token /\ left' + n.age >= Ttl
    <3>1. PICK m \in net : n = Older(m) /\ m.token = r.token /\ m.state = "yes"
      BY <2>2, <2>6
    <3>2. holder = r.token /\ left + m.age >= Ttl /\ m.op = "set" /\ r.token # None
      BY <2>0, <2>6, <3>1 DEF InOrder, RunInOrder, RequestsInOrder, KeyLasts
    <3>3. AwaitedSet(m) /\ m.age < AcquireDelay /\ m.age \in Nat /\ n.age = m.age + 1
      BY <1>0, <2>6, <3>1, <3>2, NetTicks, OlderTyped, KnownRun DEF AwaitedSet
    <3>4. left > 0
      BY <1>0, <3>2, <3>3, IntervalFacts, TimeAssumption, DelayAssumption
    <3>5. QED
      BY <1>0, <1>1, <3>2, <3>3, <3>4
  <2>7. ASSUME r.pc = "working", ~r.aborted
        PROVE  /\ holder' = r.token
               /\ r'.timer # Off => left' >= r'.timer + Interval
               /\ r'.deadline # Off => left' >= r'.deadline
               /\ \A n \in net' : n.token = r.token /\ n.state = "yes" /\ r'.deadline # Off =>
                     left' >= r'.deadline + 2 * Interval
    <3>1. /\ holder = r.token /\ r.token # None
          /\ r.timer # Off \/ r.deadline # Off
          /\ r.timer # Off => left >= r.timer + Interval
          /\ r.deadline # Off => left >= r.deadline
          /\ \A m \in net : m.token = r.token /\ m.state = "yes" /\ r.deadline # Off =>
                left >= r.deadline + 2 * Interval
      BY <2>0, <2>7 DEF InOrder, RunInOrder, KeyLasts
    <3>2. left > 0
      BY <1>0, <2>1, <3>1, IntervalFacts
    <3>3. holder' = r.token /\ left' = left - 1
      BY <1>1, <3>1, <3>2
    <3>4. ASSUME NEW n \in net', n.token = r.token, n.state = "yes", r'.deadline # Off
          PROVE  left' >= r'.deadline + 2 * Interval
      <4>1. left >= r.deadline + 2 * Interval
        BY <2>1, <2>2, <3>1, <3>4
      <4>2. QED
        BY <1>0, <2>1, <3>3, <3>4, <4>1, IntervalFacts
    <3>5. QED
      BY <1>0, <2>1, <3>1, <3>3, <3>4, IntervalFacts
  <2>8. KeyLasts(run[o])'
    BY <2>1, <2>6, <2>7 DEF KeyLasts
  <2>9. QED
    BY <2>3, <2>4, <2>5, <2>8 DEF InOrder
<1>7. QED
  BY <1>4, <1>5, <1>6 DEF LeaseInv

-----------------------------------------------------------------------------
(* Theorems *)

LEMMA StepInOrder == LeaseInv /\ [LeaseNext]_leaseVars => LeaseInv'
<1> SUFFICES ASSUME LeaseInv, [LeaseNext]_leaseVars PROVE LeaseInv'
  OBVIOUS
<1>1. CASE Tick
  BY <1>1, TickInOrder
<1>2. CASE StoreStep
  BY <1>2, StoreInOrder
<1>3. ASSUME NEW o \in Owners,
             \/ \E t \in Tokens : Acquire(o, t)
             \/ RunStep(o) \/ Cancel(o)
             \/ AcquireFails(o) \/ RenewFails(o) \/ ReleaseFails(o) \/ Crash(o)
      PROVE  LeaseInv'
  BY <1>3, RunsInOrder
<1>4. ASSUME NEW m \in net, Drop(m) PROVE LeaseInv'
  BY <1>4, DropInOrder
<1>5. CASE UNCHANGED leaseVars
  <2>1. \A o \in Owners : InOrder(o)'
    BY <1>5, KnownRun, UntouchedStaysInOrder DEF leaseVars
  <2>2. LeaseTypeOK' /\ OwnToken'
    BY <1>5 DEF LeaseInv, LeaseTypeOK, OwnToken, leaseVars
  <2>3. QED
    BY <2>1, <2>2 DEF LeaseInv
<1>6. QED
  BY <1>1, <1>2, <1>3, <1>4, <1>5 DEF LeaseNext

\* The inductive invariant: what each run knows of the key, by what is on its way.
THEOREM LeaseInvariant == LeaseSpec => []LeaseInv
<1>1. QED
  BY InitHolds, StepInOrder, PTL DEF LeaseSpec

LEMMA OrderExcludes == LeaseInv => LeaseIsSound
<1> SUFFICES ASSUME LeaseInv PROVE LeaseIsSound
  OBVIOUS
<1>1. ASSUME NEW o \in Owners, Active(o) PROVE holder = run[o].token /\ run[o].token # None
  BY <1>1, KnownRun DEF Active, InOrder, RunInOrder, KeyLasts
<1>2. OneActive
  BY <1>1 DEF OneActive, LeaseInv, OwnToken
<1>3. QED
  BY <1>1, <1>2 DEF LeaseInv, LeaseIsSound, ActiveHoldsTheLease

\* Whatever is delayed, lost or repeated, and whoever dies: a callback that was
\* not told to stop has the key, so no two schedulers are at work.  This is for
\* any number of processes, and any TTL that outlasts a renewal interval, the
\* wait for the renewal after it and the delay of the acquisition's answer.
THEOREM LeaseExcludes == LeaseSpec => []LeaseIsSound
<1>1. QED
  BY LeaseInvariant, OrderExcludes, PTL
=============================================================================
