-------------------------- MODULE MonitoringProofs --------------------------
(* Proofs about Monitoring, for every set of checks, processes and cadences, and,
   in the second half, about OutageHistory, for every interval, skew and length of
   history: what the trigger and the backfill leave in the outages table. *)
EXTENDS Monitoring, OutageHistory, SequenceTheorems, FiniteSetTheorems, WellFoundedInduction, TLAPS

-----------------------------------------------------------------------------
(* The inductive invariant *)

\* A process holds an alert only between its commit and the queue, and one at most.
HoldsOne ==
    \A a \in Actors : held[a] = {} \/ (pc[a] = "alerting" /\ \E x \in Alert : held[a] = {x})

\* Once it is past its start, a job or a ping is about a check.
SubjectsKnown == \A a \in Jobs \cup Pings : pc[a] # "idle" => subject[a] \in Checks

Typed == TypeOK /\ SubjectsKnown

-----------------------------------------------------------------------------
(* What a write to the checks table does *)

LEMMA NoRowType ==
    \A r \in {"absent", "live", "deleted"} : NoRow(r) \in CheckRow
BY DEF NoRow, CheckRow, Statuses, Events, Times, Never

LEMMA StoreEffect ==
    ASSUME NEW c \in Checks, NEW r \in CheckRow, db \in [Checks -> CheckRow], Store(c, r)
    PROVE  /\ db' \in [Checks -> CheckRow]
           /\ \A d \in Checks : d # c => db'[d] = db[d]
           /\ db'[c].row = r.row /\ db'[c].type = r.type /\ db'[c].status = r.status
           /\ db'[c].cadence = r.cadence /\ db'[c].lastEventAt = r.lastEventAt
           /\ db'[c].lastEvent = r.lastEvent
           /\ db'[c].outageOpen = OutageAfter(db[c].status, r.status, db[c].outageOpen)
<1> DEFINE open == OutageAfter(db[c].status, r.status, db[c].outageOpen)
           new == [r EXCEPT !.outageOpen = open]
<1>1. open \in BOOLEAN
  BY DEF OutageAfter, CheckRow
<1>2. new \in CheckRow
  BY <1>1 DEF CheckRow
<1>3. db' = [db EXCEPT ![c] = new]
  BY DEF Store
<1> HIDE DEF open
<1>4. /\ new.row = r.row /\ new.type = r.type /\ new.status = r.status
      /\ new.cadence = r.cadence /\ new.lastEventAt = r.lastEventAt
      /\ new.lastEvent = r.lastEvent /\ new.outageOpen = open
  BY DEF CheckRow
<1> HIDE DEF new
<1>5. QED
  BY <1>2, <1>3, <1>4 DEF open

-----------------------------------------------------------------------------
(* Types *)

THEOREM TypeInit == Init => Typed
BY NoRowType DEF Init, Typed, TypeOK, SubjectsKnown, Actors, Kinds, Alert

\* The updates the handlers make keep a row a row, and change what they name.
LEMMA RowUpdates ==
    ASSUME NEW r \in CheckRow, NEW s \in Statuses, NEW t \in Times, NEW e \in Events,
           NEW k \in Cadences \cup {NoCadence}
    PROVE  /\ [r EXCEPT !.status = s] \in CheckRow
           /\ [r EXCEPT !.cadence = k] \in CheckRow
           /\ [r EXCEPT !.type = "ACTIVE", !.cadence = k] \in CheckRow
           /\ [r EXCEPT !.type = "HEARTBEAT", !.cadence = k,
                        !.status = s, !.lastEventAt = t] \in CheckRow
           /\ [r EXCEPT !.status = s, !.lastEvent = e] \in CheckRow
           /\ [r EXCEPT !.status = s, !.lastEventAt = t, !.lastEvent = e] \in CheckRow
BY DEF CheckRow

LEMMA Words ==
    /\ "NEW" \in Statuses /\ "UP" \in Statuses /\ "DOWN" \in Statuses /\ "PAUSED" \in Statuses
    /\ "ping" \in Events /\ "missed" \in Events
    /\ "probe_up" \in Events /\ "probe_down" \in Events
    /\ Never \in Times /\ Nat \subseteq Times
    /\ "down" \in Kinds /\ "recovery" \in Kinds
BY DEF Statuses, Events, Times, Never, Kinds

LEMMA UserType ==
    ASSUME db \in [Checks -> CheckRow], Users
    PROVE  db' \in [Checks -> CheckRow]
<1>1. ASSUME NEW c \in Checks, NEW k \in Cadences \cup {NoCadence}, NEW type \in {"HEARTBEAT", "ACTIVE"},
             Create(c, type, k)
      PROVE  db' \in [Checks -> CheckRow]
  <2>1. NewRow(type, k) \in CheckRow
    BY NoRowType DEF NewRow, CheckRow
  <2>2. QED
    BY <1>1, <2>1, StoreEffect DEF Create
<1>2. ASSUME NEW c \in Checks, Pause(c) \/ Resume(c)
      PROVE  db' \in [Checks -> CheckRow]
  BY <1>2, RowUpdates, Words, StoreEffect DEF Pause, Resume
<1>3. ASSUME NEW c \in Checks, ConvertToActive(c)
      PROVE  db' \in [Checks -> CheckRow]
  BY <1>3, RowUpdates, Words, StoreEffect DEF ConvertToActive
<1>4. ASSUME NEW c \in Checks, Delete(c)
      PROVE  db' \in [Checks -> CheckRow]
  BY <1>4, NoRowType DEF Delete
<1>5. ASSUME NEW c \in Checks, NEW k \in Cadences, EditCadence(c, k) \/ ConvertToHeartbeat(c, k)
      PROVE  db' \in [Checks -> CheckRow]
  BY <1>5, RowUpdates, Words, StoreEffect DEF EditCadence, ConvertToHeartbeat
<1>6. QED
  BY <1>1, <1>2, <1>3, <1>4, <1>5 DEF Users

\* A committed transition: one more alert, well formed, in one process's hands.
LEMMA AnnounceType ==
    ASSUME Typed, NEW a \in Actors, NEW c \in Checks, NEW kind \in Kinds, Announce(a, c, kind)
    PROVE  /\ announced' \in [Checks -> Seq(Kinds)]
           /\ pc' = [pc EXCEPT ![a] = "alerting"]
           /\ held' \in [Actors -> SUBSET Alert]
           /\ queue' = queue /\ lost' = lost
<1>1. announced[c] \in Seq(Kinds) /\ Append(announced[c], kind) \in Seq(Kinds)
  BY DEF Typed, TypeOK
<1>2. Len(announced[c]) + 1 \in Nat \ {0}
  BY <1>1
<1>3. AlertFor(c, Len(announced[c]) + 1, kind) \in Alert
  BY <1>2 DEF AlertFor, Alert
<1>4. QED
  BY <1>1, <1>3 DEF Announce, Typed, TypeOK

LEMMA PingType ==
    ASSUME Typed, NEW g \in Pings, PingStep(g)
    PROVE  Typed'
<1>0. g \in Actors /\ g \in Jobs \cup Pings /\ g \notin Jobs /\ g \notin Sweepers
  BY ActorAssumption DEF Actors
<1>1. ASSUME NEW c \in Checks, PingFinds(g, c)
      PROVE  Typed'
  BY <1>0, <1>1 DEF PingFinds, Silent, worker, alerts, Typed, TypeOK, SubjectsKnown
<1>2. CASE PingRecords(g)
  <2> DEFINE c == subject[g]
  <2>1. c \in Checks
    BY <1>0, <1>2 DEF PingRecords, Typed, SubjectsKnown
  <2>2. db' \in [Checks -> CheckRow]
    <3>1. db[c] \in CheckRow /\ clock \in Times
      BY <2>1, Words DEF Typed, TypeOK
    <3> DEFINE r == [db[c] EXCEPT !.status = "UP", !.lastEventAt = clock, !.lastEvent = "ping"]
    <3>2. r \in CheckRow
      BY <3>1, Words, RowUpdates
    <3>3. Store(c, r)
      BY <1>2 DEF PingRecords
    <3> HIDE DEF r
    <3>4. QED
      BY <2>1, <3>2, <3>3, StoreEffect DEF Typed, TypeOK
  <2>3. CASE Announce(g, c, "recovery")
    <3>1. /\ announced' \in [Checks -> Seq(Kinds)]
          /\ pc' = [pc EXCEPT ![g] = "alerting"]
          /\ held' \in [Actors -> SUBSET Alert]
          /\ queue' = queue /\ lost' = lost
      BY <1>0, <2>1, <2>3, Words, AnnounceType
    <3>2. QED
      BY <1>0, <1>2, <2>1, <2>2, <3>1 DEF PingRecords, worker, Typed, TypeOK, SubjectsKnown
  <2>4. CASE Silent(g, "done")
    BY <1>0, <1>2, <2>1, <2>2, <2>4 DEF PingRecords, Silent, alerts, worker, Typed, TypeOK, SubjectsKnown
  <2>5. QED
    BY <1>2, <2>3, <2>4 DEF PingRecords
<1>3. CASE PingRejected(g)
  BY <1>0, <1>3 DEF PingRejected, Silent, worker, alerts, Typed, TypeOK, SubjectsKnown
<1>4. QED
  BY <1>1, <1>2, <1>3 DEF PingStep

LEMMA SweepType ==
    ASSUME Typed, NEW s \in Sweepers, SweepStep(s)
    PROVE  Typed'
<1>0. s \in Actors /\ s \notin Jobs \cup Pings
  BY ActorAssumption DEF Actors
<1>1. CASE SweepStarts(s)
  <2>1. {c \in Checks : Overdue(c)} \in SUBSET Checks
    OBVIOUS
  <2>2. QED
    BY <1>0, <1>1, <2>1 DEF SweepStarts, Silent, alerts, Typed, TypeOK, SubjectsKnown
<1>5. CASE SweepEnds(s)
  BY <1>0, <1>5 DEF SweepEnds, Silent, worker, alerts, Typed, TypeOK, SubjectsKnown
<1>6. CASE SweepAborts(s)
  BY <1>0, <1>6 DEF SweepAborts, Fault, Silent, alerts, Typed, TypeOK, SubjectsKnown
<1>2. ASSUME NEW c \in Checks, SweepMarks(s, c)
      PROVE  Typed'
  <2> DEFINE r == [db[c] EXCEPT !.status = "DOWN", !.lastEvent = "missed"]
  <2>1. r \in CheckRow
    BY Words, RowUpdates DEF Typed, TypeOK
  <2>2. Store(c, r)
    BY <1>2 DEF SweepMarks
  <2> HIDE DEF r
  <2>3. db' \in [Checks -> CheckRow]
    BY <2>1, <2>2, StoreEffect DEF Typed, TypeOK
  <2>4. /\ announced' \in [Checks -> Seq(Kinds)]
        /\ pc' = [pc EXCEPT ![s] = "alerting"]
        /\ held' \in [Actors -> SUBSET Alert]
        /\ queue' = queue /\ lost' = lost
    BY <1>0, <1>2, Words, AnnounceType DEF SweepMarks
  <2>5. QED
    BY <1>0, <1>2, <2>3, <2>4 DEF SweepMarks, Typed, TypeOK, SubjectsKnown
<1>3. ASSUME NEW c \in Checks, SweepSkips(s, c)
      PROVE  Typed'
  BY <1>0, <1>3 DEF SweepSkips, alerts, Typed, TypeOK, SubjectsKnown
<1>4. QED
  BY <1>1, <1>2, <1>3, <1>5, <1>6 DEF SweepStep

LEMMA ProbeType ==
    ASSUME Typed, NEW j \in Jobs, ProbeStep(j)
    PROVE  Typed'
<1>0. j \in Actors /\ j \in Jobs \cup Pings
  BY DEF Actors
<1>1. ASSUME NEW c \in Checks, ProbeQueued(j, c)
      PROVE  Typed'
  BY <1>0, <1>1 DEF ProbeQueued, Silent, worker, alerts, Typed, TypeOK, SubjectsKnown
<1>2. CASE ProbeStarts(j)
  BY <1>0, <1>2 DEF ProbeStarts, Silent, worker, alerts, Typed, TypeOK, SubjectsKnown
<1>7. CASE ProbeSkips(j)
  BY <1>0, <1>7 DEF ProbeSkips, Silent, worker, alerts, Typed, TypeOK, SubjectsKnown
<1>3. ASSUME NEW up \in BOOLEAN, ProbeMeasures(j, up)
      PROVE  Typed'
  BY <1>0, <1>3 DEF ProbeMeasures, Silent, alerts, Typed, TypeOK, SubjectsKnown
<1>4. CASE ProbeDies(j)
  <2>1. /\ tries' = tries \/ tries' = [tries EXCEPT ![j] = @ + 1]
        /\ pc' = [pc EXCEPT ![j] = "queued"] \/ pc' = [pc EXCEPT ![j] = "done"]
        /\ faults' = faults + 1
    BY <1>4 DEF ProbeDies, Fault, Retry
  <2>2. pc[j] # "idle"
    BY <1>4 DEF ProbeDies
  <2>3. QED
    <3>1. UNCHANGED <<clock, db, announced, held, queue, lost, subject, todo, readAt, verdict>>
      BY <1>4 DEF ProbeDies, alerts
    <3>2. TypeOK'
      <4>1. tries \in [Jobs -> Nat] /\ faults \in Nat
        BY DEF Typed, TypeOK
      <4>2. tries' \in [Jobs -> Nat] /\ faults' \in Nat
        BY <2>1, <4>1
      <4>3. QED
        BY <1>0, <2>1, <3>1, <4>2 DEF Typed, TypeOK
    <3>3. SubjectsKnown'
      BY <1>0, <2>1, <2>2, <3>1 DEF Actors, Typed, TypeOK, SubjectsKnown
    <3>4. QED
      BY <3>2, <3>3 DEF Typed
<1>5. CASE ProbeRecords(j)
  <2> DEFINE c == subject[j]
             r == [db[c] EXCEPT !.status = IF verdict[j] THEN "UP" ELSE "DOWN",
                                !.lastEventAt = readAt[j],
                                !.lastEvent = IF verdict[j] THEN "probe_up" ELSE "probe_down"]
  <2>1. c \in Checks
    BY <1>0, <1>5 DEF ProbeRecords, Typed, SubjectsKnown
  <2>2. r \in CheckRow
    <3>1. db[c] \in CheckRow /\ readAt[j] \in Times
      BY <2>1, Words DEF Typed, TypeOK
    <3>2. QED
      BY <3>1, Words, RowUpdates
  <2>3. Store(c, r)
    BY <1>5 DEF ProbeRecords
  <2> HIDE DEF r
  <2>4. db' \in [Checks -> CheckRow]
    BY <2>1, <2>2, <2>3, StoreEffect DEF Typed, TypeOK
  <2>5. ASSUME NEW kind \in Kinds, Announce(j, c, kind)
        PROVE  Typed'
    <3>1. /\ announced' \in [Checks -> Seq(Kinds)]
          /\ pc' = [pc EXCEPT ![j] = "alerting"]
          /\ held' \in [Actors -> SUBSET Alert]
          /\ queue' = queue /\ lost' = lost
      BY <1>0, <2>1, <2>5, AnnounceType
    <3>2. QED
      BY <1>0, <1>5, <2>1, <2>4, <3>1 DEF ProbeRecords, worker, Typed, TypeOK, SubjectsKnown
  <2>6. CASE Silent(j, "done")
    BY <1>0, <1>5, <2>1, <2>4, <2>6 DEF ProbeRecords, Silent, alerts, worker, Typed, TypeOK, SubjectsKnown
  <2>7. QED
    BY <1>5, <2>5, <2>6, Words DEF ProbeRecords
<1>6. QED
  BY <1>1, <1>2, <1>3, <1>4, <1>5, <1>7 DEF ProbeStep

LEMMA EnqueueType ==
    ASSUME Typed, HoldsOne, NEW a \in Actors, Enqueued(a) \/ EnqueueFails(a)
    PROVE  Typed'
<1>1. PICK x \in Alert : held[a] = {x} /\ pc[a] = "alerting"
  BY DEF HoldsOne, Enqueued, EnqueueFails
<1>2. held' \in [Actors -> SUBSET Alert]
  BY DEF Enqueued, EnqueueFails, Typed, TypeOK
<1>3. queue' = queue \/ queue' = Append(queue, x)
  BY <1>1 DEF Enqueued, EnqueueFails
<1>4. lost' = lost \/ lost' = lost \cup {x}
  BY <1>1 DEF Enqueued, EnqueueFails
<1>5. queue' \in Seq(Alert) /\ lost' \subseteq Alert
  <2>1. queue \in Seq(Alert) /\ lost \subseteq Alert
    BY DEF Typed, TypeOK
  <2>2. QED
    BY <1>3, <1>4, <2>1
<1>6. \E at \in {"sweeping", "done", "idle", "queued"} : pc' = [pc EXCEPT ![a] = at]
  <2>1. CASE Enqueued(a)
    BY <2>1 DEF Enqueued
  <2>2. CASE EnqueueFails(a)
    BY <2>2 DEF EnqueueFails, Retry
  <2>3. QED
    BY <2>1, <2>2
<1>7. todo' = todo \/ (a \in Sweepers /\ todo' = [todo EXCEPT ![a] = {}])
  BY DEF Enqueued, EnqueueFails, worker
<1>8. tries' = tries \/ (a \in Jobs /\ tries' = [tries EXCEPT ![a] = @ + 1])
  BY DEF Enqueued, EnqueueFails, worker, Retry
<1>9. /\ UNCHANGED <<clock, db, announced, subject, readAt, verdict>>
      /\ faults' \in Nat
  BY DEF Enqueued, EnqueueFails, worker, Fault, Typed, TypeOK
<1>10. TypeOK'
  <2>1. /\ pc \in [Actors -> {"idle", "found", "sweeping", "queued", "probing", "measured",
                            "alerting", "done"}]
        /\ todo \in [Sweepers -> SUBSET Checks]
        /\ tries \in [Jobs -> Nat]
    BY DEF Typed, TypeOK
  <2>2. pc' \in [Actors -> {"idle", "found", "sweeping", "queued", "probing", "measured",
                           "alerting", "done"}]
    BY <1>6, <2>1
  <2>3. todo' \in [Sweepers -> SUBSET Checks]
    BY <1>7, <2>1
  <2>4. tries' \in [Jobs -> Nat]
    BY <1>8, <2>1
  <2>5. QED
    BY <1>2, <1>5, <1>9, <2>2, <2>3, <2>4 DEF Typed, TypeOK
<1>11. SubjectsKnown'
  BY <1>1, <1>6, <1>9 DEF Typed, TypeOK, SubjectsKnown
<1>12. QED
  BY <1>10, <1>11 DEF Typed

-----------------------------------------------------------------------------
(* Who holds an alert *)

LEMMA HoldsStep ==
    ASSUME Typed, HoldsOne, [Next]_vars
    PROVE  HoldsOne'
<1> DEFINE Kept(a) == /\ held' = held
                      /\ \E at : pc' = [pc EXCEPT ![a] = at]
                      /\ pc[a] # "alerting"
<1>1. ASSUME NEW a \in Actors, NEW c \in Checks, NEW kind \in Kinds, Announce(a, c, kind)
      PROVE  HoldsOne'
  <2>1. /\ pc' = [pc EXCEPT ![a] = "alerting"]
        /\ held' = [held EXCEPT ![a] = {AlertFor(c, Len(announced[c]) + 1, kind)}]
    BY <1>1 DEF Announce
  <2>2. AlertFor(c, Len(announced[c]) + 1, kind) \in Alert
    BY DEF AlertFor, Alert, Typed, TypeOK
  <2>3. QED
    BY <2>1, <2>2 DEF HoldsOne, Typed, TypeOK
<1>2. ASSUME NEW a \in Actors, Kept(a)
      PROVE  HoldsOne'
  BY <1>2 DEF HoldsOne, Typed, TypeOK
<1>3. ASSUME UNCHANGED <<held, pc>>
      PROVE  HoldsOne'
  BY <1>3 DEF HoldsOne
<1>4. CASE Users \/ Tick \/ UNCHANGED vars
  <2>1. UNCHANGED <<held, pc>>
    BY <1>4 DEF Users, Create, Pause, Resume, EditCadence, ConvertToHeartbeat, ConvertToActive,
                Delete, UserStep, Tick, alerts, vars
  <2>2. QED
    BY <1>3, <2>1
<1>5. ASSUME NEW g \in Pings, PingStep(g)
      PROVE  HoldsOne'
  <2>1. g \in Actors
    BY DEF Actors
  <2>2. ASSUME NEW c \in Checks, PingFinds(g, c)
        PROVE  Kept(g)
    BY <2>2 DEF PingFinds, Silent, alerts
  <2>3. CASE PingRejected(g)
    BY <1>2, <2>1, <2>3 DEF PingRejected, Silent, alerts
  <2>4. CASE PingRecords(g)
    <3>1. subject[g] \in Checks
      BY <2>4 DEF PingRecords, Typed, SubjectsKnown
    <3>2. CASE Announce(g, subject[g], "recovery")
      BY <1>1, <2>1, <3>1, <3>2, Words
    <3>3. CASE Silent(g, "done")
      BY <1>2, <2>1, <2>4, <3>3 DEF PingRecords, Silent, alerts
    <3>4. QED
      BY <2>4, <3>2, <3>3 DEF PingRecords
  <2>5. QED
    BY <1>2, <1>5, <2>1, <2>2, <2>3, <2>4 DEF PingStep
<1>6. ASSUME NEW s \in Sweepers, SweepStep(s)
      PROVE  HoldsOne'
  <2>1. s \in Actors
    BY DEF Actors
  <2>2. CASE SweepStarts(s) \/ SweepEnds(s) \/ SweepAborts(s)
    BY <1>2, <2>1, <2>2 DEF SweepStarts, SweepEnds, SweepAborts, Silent, alerts
  <2>3. ASSUME NEW c \in Checks, SweepMarks(s, c)
        PROVE  HoldsOne'
    BY <1>1, <2>1, <2>3, Words DEF SweepMarks
  <2>4. ASSUME NEW c \in Checks, SweepSkips(s, c)
        PROVE  HoldsOne'
    BY <1>3, <2>4 DEF SweepSkips, alerts
  <2>5. QED
    BY <1>6, <2>2, <2>3, <2>4 DEF SweepStep
<1>7. ASSUME NEW j \in Jobs, ProbeStep(j)
      PROVE  HoldsOne'
  <2>1. j \in Actors
    BY DEF Actors
  <2>2. ASSUME NEW c \in Checks, ProbeQueued(j, c)
        PROVE  Kept(j)
    BY <2>2 DEF ProbeQueued, Silent, alerts
  <2>3. CASE ProbeStarts(j) \/ ProbeSkips(j)
    BY <1>2, <2>1, <2>3 DEF ProbeStarts, ProbeSkips, Silent, alerts
  <2>4. ASSUME NEW up \in BOOLEAN, ProbeMeasures(j, up)
        PROVE  Kept(j)
    BY <2>4 DEF ProbeMeasures, Silent, alerts
  <2>5. CASE ProbeDies(j)
    BY <1>2, <2>1, <2>5 DEF ProbeDies, Retry, alerts
  <2>6. CASE ProbeRecords(j)
    <3>1. subject[j] \in Checks
      BY <2>6 DEF ProbeRecords, Typed, SubjectsKnown
    <3>2. ASSUME NEW kind \in Kinds, Announce(j, subject[j], kind)
          PROVE  HoldsOne'
      BY <1>1, <2>1, <3>1, <3>2
    <3>3. CASE Silent(j, "done")
      BY <1>2, <2>1, <2>6, <3>3 DEF ProbeRecords, Silent, alerts
    <3>4. QED
      BY <2>6, <3>2, <3>3, Words DEF ProbeRecords
  <2>7. QED
    BY <1>2, <1>7, <2>1, <2>2, <2>3, <2>4, <2>5, <2>6 DEF ProbeStep
<1>8. ASSUME NEW a \in Actors, Enqueued(a) \/ EnqueueFails(a)
      PROVE  HoldsOne'
  <2>1. /\ held' = [held EXCEPT ![a] = {}]
        /\ \E at : pc' = [pc EXCEPT ![a] = at]
    BY <1>8 DEF Enqueued, EnqueueFails, Retry
  <2>2. QED
    BY <2>1 DEF HoldsOne, Typed, TypeOK
<1>9. QED
  BY <1>4, <1>5, <1>6, <1>7, <1>8 DEF Next

LEMMA TypedStep ==
    ASSUME Typed, HoldsOne, [Next]_vars
    PROVE  Typed'
<1>1. CASE Users
  <2>1. db' \in [Checks -> CheckRow]
    BY <1>1, UserType DEF Typed, TypeOK
  <2>2. UNCHANGED <<clock, announced, pc, subject, todo, readAt, verdict, tries, held,
                    queue, lost, faults>>
    BY <1>1 DEF Users, Create, Pause, Resume, EditCadence, ConvertToHeartbeat,
                ConvertToActive, Delete, UserStep, worker, alerts
  <2>3. QED
    BY <2>1, <2>2 DEF Typed, TypeOK, SubjectsKnown
<1>2. CASE Tick \/ UNCHANGED vars
  <2>1. /\ clock' \in Nat
        /\ UNCHANGED <<db, announced, pc, subject, todo, readAt, verdict, tries, held,
                       queue, lost, faults>>
    BY <1>2 DEF Tick, vars, worker, alerts, Typed, TypeOK
  <2>2. QED
    BY <2>1 DEF Typed, TypeOK, SubjectsKnown
<1>3. QED
  BY <1>1, <1>2, PingType, SweepType, ProbeType, EnqueueType DEF Next

\* Every variable keeps its type, whatever the sets of checks and processes.
THEOREM TypeCorrect == Spec => []TypeOK
<1> DEFINE I == Typed /\ HoldsOne
<1>1. Init => I
  BY TypeInit DEF Init, HoldsOne
<1>2. I /\ [Next]_vars => I'
  BY TypedStep, HoldsStep
<1>3. I => TypeOK
  BY DEF Typed
<1>4. QED
  BY <1>1, <1>2, <1>3, PTL DEF Spec

-----------------------------------------------------------------------------
(* The steps, by what they do to the alerts *)

SameElsewhere(c) == \A d \in Checks : d # c => db'[d] = db[d]

Fall(a, c) ==
    /\ SameElsewhere(c)
    /\ StateOf(c) # "down" /\ StateOf(c)' = "down"
    /\ held[a] = {}
    /\ Announce(a, c, "down")

Recovery(a, c) ==
    /\ SameElsewhere(c)
    /\ StateOf(c) = "down" /\ StateOf(c)' = "up"
    /\ held[a] = {}
    /\ Announce(a, c, "recovery")

Quiet(c) ==
    /\ SameElsewhere(c)
    /\ StateOf(c)' = "down" => StateOf(c) = "down"
    /\ StateOf(c)' = "up" => StateOf(c) # "down"
    /\ UNCHANGED alerts

Move(a, x) ==
    /\ held[a] = {x}
    /\ held' = [held EXCEPT ![a] = {}]
    /\ \/ queue' = Append(queue, x) /\ lost' = lost
       \/ lost' = lost \cup {x} /\ queue' = queue
    /\ UNCHANGED <<db, announced>>

Shapes ==
    \/ \E a \in Actors, c \in Checks : Fall(a, c) \/ Recovery(a, c)
    \/ \E c \in Checks : Quiet(c)
    \/ UNCHANGED <<db, alerts>>
    \/ \E a \in Actors, x \in Alert : Move(a, x)

LEMMA UserShape ==
    ASSUME Typed, NEW c \in Checks,
           \/ Pause(c) \/ Resume(c) \/ ConvertToActive(c) \/ Delete(c)
           \/ Create(c, "ACTIVE", NoCadence)
           \/ \E k \in Cadences :
                  Create(c, "HEARTBEAT", k) \/ EditCadence(c, k) \/ ConvertToHeartbeat(c, k)
    PROVE  Quiet(c)
<1>0. db \in [Checks -> CheckRow]
  BY DEF Typed, TypeOK
<1>1. ASSUME NEW k \in Cadences \cup {NoCadence}, NEW type \in {"HEARTBEAT", "ACTIVE"},
             Create(c, type, k)
      PROVE  Quiet(c)
  <2>1. NewRow(type, k) \in CheckRow /\ NewRow(type, k).status = "NEW"
    BY NoRowType DEF NewRow, NoRow, CheckRow
  <2>2. db'[c].status = "NEW" /\ SameElsewhere(c)
    BY <1>0, <1>1, <2>1, StoreEffect DEF Create, SameElsewhere
  <2>3. QED
    BY <1>1, <2>2 DEF Create, Quiet, StateOf, UserStep
<1>2. CASE Pause(c) \/ Resume(c)
  <2>1. db'[c].status \in {"PAUSED", "NEW"} /\ SameElsewhere(c)
    <3>1. /\ [db[c] EXCEPT !.status = "PAUSED"] \in CheckRow
          /\ [db[c] EXCEPT !.status = "NEW"] \in CheckRow
      BY <1>0, RowUpdates, Words
    <3>2. /\ [db[c] EXCEPT !.status = "PAUSED"].status = "PAUSED"
          /\ [db[c] EXCEPT !.status = "NEW"].status = "NEW"
      BY <1>0 DEF CheckRow
    <3>3. QED
      BY <1>0, <1>2, <3>1, <3>2, StoreEffect DEF Pause, Resume, SameElsewhere
  <2>2. QED
    BY <1>2, <2>1 DEF Pause, Resume, Quiet, StateOf, UserStep
<1>3. ASSUME ConvertToActive(c) \/ \E k \in Cadences : EditCadence(c, k)
      PROVE  Quiet(c)
  <2>1. PICK r \in CheckRow : /\ r.row = db[c].row /\ r.status = db[c].status
                             /\ Store(c, r) /\ UserStep
    <3>1. CASE ConvertToActive(c)
      <4> DEFINE r == [db[c] EXCEPT !.type = "ACTIVE", !.cadence = NoCadence]
      <4>1. r \in CheckRow
        <5>1. db[c] \in CheckRow /\ NoCadence \in Cadences \cup {NoCadence}
          BY <1>0
        <5>2. QED
          BY <5>1, RowUpdates, Words
      <4>2. r.row = db[c].row /\ r.status = db[c].status
        BY <1>0 DEF CheckRow
      <4>3. QED
        BY <3>1, <4>1, <4>2 DEF ConvertToActive
    <3>2. ASSUME NEW k \in Cadences, EditCadence(c, k)
          PROVE  \E r \in CheckRow : /\ r.row = db[c].row /\ r.status = db[c].status
                                     /\ Store(c, r) /\ UserStep
      <4> DEFINE r == [db[c] EXCEPT !.cadence = k]
      <4>1. r \in CheckRow
        <5>1. db[c] \in CheckRow /\ NoCadence \in Cadences \cup {NoCadence}
          BY <1>0
        <5>2. QED
          BY <5>1, RowUpdates, Words
      <4>2. r.row = db[c].row /\ r.status = db[c].status
        BY <1>0 DEF CheckRow
      <4>3. QED
        BY <3>2, <4>1, <4>2 DEF EditCadence
    <3>3. QED
      BY <1>3, <3>1, <3>2
  <2>2. db'[c].row = db[c].row /\ db'[c].status = db[c].status /\ SameElsewhere(c)
    BY <1>0, <2>1, StoreEffect DEF SameElsewhere
  <2>3. QED
    BY <2>1, <2>2 DEF Quiet, StateOf, Live, UserStep
<1>4. CASE Delete(c)
  <2>1. db'[c].row = "deleted" /\ SameElsewhere(c)
    BY <1>0, <1>4 DEF Delete, NoRow, SameElsewhere
  <2>2. QED
    BY <1>4, <2>1 DEF Delete, Quiet, StateOf, Live, UserStep
<1>5. ASSUME NEW k \in Cadences, ConvertToHeartbeat(c, k)
      PROVE  Quiet(c)
  <2> DEFINE r == [db[c] EXCEPT !.type = "HEARTBEAT", !.cadence = k,
                                !.status = "NEW", !.lastEventAt = Never]
  <2>1. r \in CheckRow
    BY <1>0, RowUpdates, Words
  <2>2. r.status = "NEW"
    BY <1>0 DEF CheckRow
  <2>3. Store(c, r) /\ UserStep
    BY <1>5 DEF ConvertToHeartbeat
  <2> HIDE DEF r
  <2>4. db'[c].status = "NEW" /\ SameElsewhere(c)
    BY <1>0, <2>1, <2>2, <2>3, StoreEffect DEF SameElsewhere
  <2>5. QED
    BY <2>3, <2>4 DEF Quiet, StateOf, UserStep
<1>6. QED
  BY <1>1, <1>2, <1>3, <1>4, <1>5

LEMMA PingShape ==
    ASSUME Typed, HoldsOne, NEW g \in Pings, PingRecords(g), NEW c \in Checks, c = subject[g]
    PROVE  Recovery(g, c) \/ Quiet(c)
<1> DEFINE r == [db[c] EXCEPT !.status = "UP", !.lastEventAt = clock, !.lastEvent = "ping"]
<1>1. g \in Actors
  BY DEF Actors
<1>2. db \in [Checks -> CheckRow] /\ db[c] \in CheckRow /\ clock \in Times
  BY <1>1, Words DEF Typed, TypeOK
<1>3. r \in CheckRow
  BY <1>2, Words, RowUpdates
<1>4. r.status = "UP" /\ r.row = db[c].row
  BY <1>2 DEF CheckRow
<1>5. Store(c, r)
  BY DEF PingRecords
<1> HIDE DEF r
<1>6. db'[c].status = "UP" /\ db'[c].row = db[c].row /\ SameElsewhere(c)
  BY <1>1, <1>2, <1>3, <1>4, <1>5, StoreEffect DEF SameElsewhere
<1>7. Live(c) /\ Live(c)'
  BY <1>6 DEF PingRecords, IsHeartbeat, Live
<1>8. StateOf(c)' = "up"
  BY <1>6, <1>7 DEF StateOf
<1>9. held[g] = {}
  BY <1>1 DEF PingRecords, HoldsOne
<1>10. CASE db[c].status = "DOWN"
  <2>1. StateOf(c) = "down"
    BY <1>7, <1>10 DEF StateOf
  <2>2. Announce(g, c, "recovery")
    BY <1>10 DEF PingRecords
  <2>3. QED
    BY <1>6, <1>8, <1>9, <2>1, <2>2 DEF Recovery
<1>11. CASE db[c].status # "DOWN"
  <2>1. StateOf(c) # "down"
    BY <1>11 DEF StateOf
  <2>2. Silent(g, "done")
    BY <1>11 DEF PingRecords
  <2>3. QED
    BY <1>6, <1>8, <2>1, <2>2 DEF Quiet, Silent
<1>12. QED
  BY <1>10, <1>11

LEMMA SweepShape ==
    ASSUME Typed, HoldsOne, NEW s \in Sweepers, NEW c \in Checks, SweepMarks(s, c)
    PROVE  Fall(s, c)
<1> DEFINE r == [db[c] EXCEPT !.status = "DOWN", !.lastEvent = "missed"]
<1>1. s \in Actors /\ db \in [Checks -> CheckRow]
  BY DEF Actors, Typed, TypeOK
<1>2. r \in CheckRow
  BY <1>1, Words, RowUpdates
<1>3. r.status = "DOWN" /\ r.row = db[c].row
  BY <1>1 DEF CheckRow
<1>4. Store(c, r)
  BY DEF SweepMarks
<1> HIDE DEF r
<1>5. db'[c].status = "DOWN" /\ db'[c].row = db[c].row /\ SameElsewhere(c)
  BY <1>1, <1>2, <1>3, <1>4, StoreEffect DEF SameElsewhere
<1>6. StateOf(c) # "down" /\ StateOf(c)' = "down"
  BY <1>5 DEF SweepMarks, Expectant, Live, StateOf
<1>7. held[s] = {} /\ Announce(s, c, "down")
  BY <1>1 DEF SweepMarks, HoldsOne
<1>8. QED
  BY <1>5, <1>6, <1>7 DEF Fall

LEMMA ProbeShape ==
    ASSUME Typed, HoldsOne, NEW j \in Jobs, ProbeRecords(j), NEW c \in Checks, c = subject[j]
    PROVE  Fall(j, c) \/ Recovery(j, c) \/ Quiet(c)
<1> DEFINE up == verdict[j]
           r == [db[c] EXCEPT !.status = IF up THEN "UP" ELSE "DOWN",
                              !.lastEventAt = readAt[j],
                              !.lastEvent = IF up THEN "probe_up" ELSE "probe_down"]
<1>1. j \in Actors
  BY DEF Actors
<1>2. db \in [Checks -> CheckRow] /\ db[c] \in CheckRow /\ readAt[j] \in Times /\ up \in BOOLEAN
  BY <1>1, Words DEF Typed, TypeOK
<1>3. r \in CheckRow
  BY <1>2, Words, RowUpdates
<1>4. r.status = (IF up THEN "UP" ELSE "DOWN") /\ r.row = db[c].row
  BY <1>2 DEF CheckRow
<1>5. Store(c, r)
  BY DEF ProbeRecords
<1> HIDE DEF r
<1>6. /\ db'[c].status = IF up THEN "UP" ELSE "DOWN"
      /\ db'[c].row = db[c].row /\ SameElsewhere(c)
  BY <1>1, <1>2, <1>3, <1>4, <1>5, StoreEffect DEF SameElsewhere
<1>7. Live(c) /\ Live(c)'
  BY <1>6 DEF ProbeRecords, Probeable, Live
<1>8. StateOf(c)' = IF up THEN "up" ELSE "down"
  BY <1>6, <1>7 DEF StateOf
<1>9. held[j] = {}
  BY <1>1 DEF ProbeRecords, HoldsOne
<1>10. StateOf(c) = "down" <=> db[c].status = "DOWN"
  BY <1>7 DEF StateOf
<1>11. CASE ~up /\ db[c].status # "DOWN"
  <2>1. Announce(j, c, "down")
    BY <1>11 DEF ProbeRecords
  <2>2. QED
    BY <1>6, <1>8, <1>9, <1>10, <1>11, <2>1 DEF Fall
<1>12. CASE up /\ db[c].status = "DOWN"
  <2>1. Announce(j, c, "recovery")
    BY <1>12 DEF ProbeRecords
  <2>2. QED
    BY <1>6, <1>8, <1>9, <1>10, <1>12, <2>1 DEF Recovery
<1>13. CASE up <=> db[c].status # "DOWN"
  <2>1. Silent(j, "done")
    BY <1>2, <1>13 DEF ProbeRecords
  <2>2. QED
    BY <1>2, <1>6, <1>8, <1>10, <1>13, <2>1 DEF Quiet, Silent
<1>14. QED
  BY <1>2, <1>11, <1>12, <1>13

LEMMA StepShapes ==
    ASSUME Typed, HoldsOne, [Next]_vars
    PROVE  Shapes
<1>1. CASE Users
  BY <1>1, UserShape DEF Users, Shapes
<1>2. CASE Tick \/ UNCHANGED vars
  BY <1>2 DEF Tick, vars, alerts, Shapes
<1>3. ASSUME NEW g \in Pings, PingStep(g)
      PROVE  Shapes
  <2>1. CASE PingRecords(g)
    <3>1. subject[g] \in Checks /\ g \in Actors
      BY <2>1 DEF PingRecords, Typed, SubjectsKnown, Actors
    <3>2. QED
      BY <2>1, <3>1, PingShape DEF Shapes
  <2>2. CASE ~PingRecords(g)
    BY <1>3, <2>2 DEF PingStep, PingFinds, PingRejected, Silent, alerts, Shapes
  <2>3. QED
    BY <2>1, <2>2
<1>4. ASSUME NEW s \in Sweepers, SweepStep(s)
      PROVE  Shapes
  <2>1. ASSUME NEW c \in Checks, SweepMarks(s, c)
        PROVE  Shapes
    BY <2>1, SweepShape DEF Shapes, Actors
  <2>2. CASE ~\E c \in Checks : SweepMarks(s, c)
    BY <1>4, <2>2 DEF SweepStep, SweepStarts, SweepEnds, SweepAborts, SweepSkips, Silent, alerts, Shapes
  <2>3. QED
    BY <2>1, <2>2
<1>5. ASSUME NEW j \in Jobs, ProbeStep(j)
      PROVE  Shapes
  <2>1. CASE ProbeRecords(j)
    <3>1. subject[j] \in Checks /\ j \in Actors
      BY <2>1 DEF ProbeRecords, Typed, SubjectsKnown, Actors
    <3>2. QED
      BY <2>1, <3>1, ProbeShape DEF Shapes
  <2>2. CASE ~ProbeRecords(j)
    BY <1>5, <2>2 DEF ProbeStep, ProbeQueued, ProbeStarts, ProbeSkips, ProbeDies, ProbeMeasures,
                      Silent, alerts, Shapes
  <2>3. QED
    BY <2>1, <2>2
<1>6. ASSUME NEW a \in Actors, Enqueued(a) \/ EnqueueFails(a)
      PROVE  Shapes
  <2>1. PICK x \in Alert : held[a] = {x}
    BY <1>6 DEF HoldsOne, Enqueued, EnqueueFails
  <2>2. Move(a, x)
    BY <1>6, <2>1 DEF Enqueued, EnqueueFails, Move
  <2>3. QED
    BY <2>2 DEF Shapes
<1>7. QED
  BY <1>1, <1>2, <1>3, <1>4, <1>5, <1>6 DEF Next
-----------------------------------------------------------------------------
(* Alerts and statuses *)

TypedAlerts == Typed /\ HoldsOne /\ AlertsTellTheStatus

LEMMA TellsStep ==
    ASSUME Typed, HoldsOne, AlertsTellTheStatus, Shapes, announced' \in [Checks -> Seq(Kinds)]
    PROVE  AlertsTellTheStatus'
<1>0. announced \in [Checks -> Seq(Kinds)]
  BY DEF Typed, TypeOK
<1> DEFINE Newest(d) == StateOf(d) = "down" =>
                           announced[d] # <<>> /\ announced[d][Len(announced[d])] = "down"
           Answers(d) == \A n \in DOMAIN announced[d] : announced[d][n] = "recovery" =>
                           n > 1 /\ announced[d][n - 1] = "down"
<1>1. AlertsTellTheStatus <=> \A d \in Checks : Newest(d) /\ Answers(d)
  BY DEF AlertsTellTheStatus, StateOf
<1>2. AlertsTellTheStatus' <=> \A d \in Checks : Newest(d)' /\ Answers(d)'
  BY DEF AlertsTellTheStatus, StateOf, Live
<1>3. ASSUME NEW a \in Actors, NEW c \in Checks, Fall(a, c) \/ Recovery(a, c)
      PROVE  AlertsTellTheStatus'
  <2>1. PICK kind \in Kinds :
          /\ announced' = [announced EXCEPT ![c] = Append(@, kind)]
          /\ kind = "down" \/ (StateOf(c) = "down" /\ StateOf(c)' # "down" /\ kind = "recovery")
    BY <1>3, Words DEF Fall, Recovery, Announce
  <2>2. ASSUME NEW d \in Checks, d # c
        PROVE  Newest(d)' /\ Answers(d)'
    <3>1. db'[d] = db[d] /\ announced'[d] = announced[d]
      BY <1>0, <1>3, <2>1, <2>2 DEF Fall, Recovery, SameElsewhere
    <3>2. Newest(d) /\ Answers(d)
      BY <1>1
    <3>3. QED
      BY <3>1, <3>2 DEF StateOf, Live
  <2>3. Newest(c)' /\ Answers(c)'
    <3> DEFINE old == announced[c]
               new == announced'[c]
    <3>1. old \in Seq(Kinds) /\ new = Append(old, kind)
      BY <1>0, <2>1
    <3>2. /\ new # <<>> /\ Len(new) = Len(old) + 1 /\ new[Len(new)] = kind
          /\ DOMAIN new = 1 .. Len(old) + 1 /\ DOMAIN old = 1 .. Len(old)
          /\ \A n \in 1 .. Len(old) : new[n] = old[n]
          /\ Len(old) \in Nat
      BY <3>1
    <3>3. Newest(c) /\ Answers(c)
      BY <1>1
    <3>4. Newest(c)'
      BY <2>1, <3>2
    <3>5. kind = "recovery" => Len(old) > 0 /\ old[Len(old)] = "down"
      <4>1. kind = "recovery" => old # <<>> /\ old[Len(old)] = "down"
        BY <2>1, <3>3
      <4>2. old # <<>> => Len(old) > 0
        BY <3>1
      <4>3. QED
        BY <4>1, <4>2
    <3>6. ASSUME NEW n \in DOMAIN new, new[n] = "recovery"
          PROVE  n > 1 /\ new[n - 1] = "down"
      <4>1. CASE n = Len(old) + 1
        BY <3>2, <3>5, <3>6, <4>1
      <4>2. CASE n \in 1 .. Len(old)
        BY <3>2, <3>3, <3>6, <4>2
      <4>3. QED
        BY <3>2, <4>1, <4>2
    <3>7. QED
      BY <3>4, <3>6
  <2>4. QED
    BY <1>2, <2>2, <2>3
<1>4. ASSUME UNCHANGED announced,
             \A d \in Checks : StateOf(d)' = "down" => StateOf(d) = "down"
      PROVE  AlertsTellTheStatus'
  BY <1>1, <1>2, <1>4
<1>5. ASSUME NEW c \in Checks, Quiet(c)
      PROVE  AlertsTellTheStatus'
  <2>1. \A d \in Checks : StateOf(d)' = "down" => StateOf(d) = "down"
    BY <1>5 DEF Quiet, SameElsewhere, StateOf, Live
  <2>2. QED
    BY <1>4, <1>5, <2>1 DEF Quiet, alerts
<1>6. ASSUME UNCHANGED <<db, announced>>
      PROVE  AlertsTellTheStatus'
  BY <1>6 DEF AlertsTellTheStatus, Live
<1>7. QED
  BY <1>3, <1>5, <1>6 DEF Shapes, Move, alerts

\* A DOWN check has an unanswered down alert, and recoveries answer one each.
THEOREM AlertsTruthful == Spec => []AlertsTellTheStatus
<1>1. Init => TypedAlerts
  <2>1. Init => Typed /\ HoldsOne
    BY TypeInit DEF Init, HoldsOne
  <2>2. Init => AlertsTellTheStatus
    BY DEF Init, AlertsTellTheStatus, Live, NoRow
  <2>3. QED
    BY <2>1, <2>2 DEF TypedAlerts
<1>2. TypedAlerts /\ [Next]_vars => TypedAlerts'
  <2> SUFFICES ASSUME TypedAlerts, [Next]_vars
               PROVE  TypedAlerts'
    OBVIOUS
  <2>1. Typed' /\ HoldsOne'
    BY TypedStep, HoldsStep DEF TypedAlerts
  <2>2. announced' \in [Checks -> Seq(Kinds)]
    BY <2>1 DEF Typed, TypeOK
  <2>3. QED
    BY <2>1, <2>2, StepShapes, TellsStep DEF TypedAlerts
<1>3. TypedAlerts => AlertsTellTheStatus
  BY DEF TypedAlerts
<1>4. QED
  BY <1>1, <1>2, <1>3, PTL DEF Spec
-----------------------------------------------------------------------------
(* Where the alerts are *)

Accounted == Typed /\ HoldsOne /\ AlertsInOnePlace

\* An announcement adds exactly one alert, and one that was nowhere before.
LEMMA AnnouncedGrows ==
    ASSUME announced \in [Checks -> Seq(Kinds)], NEW c \in Checks, NEW kind \in Kinds,
           announced' = [announced EXCEPT ![c] = Append(@, kind)]
    PROVE  LET x == AlertFor(c, Len(announced[c]) + 1, kind)
           IN  x \notin Announced /\ Announced' = Announced \cup {x}
<1> DEFINE m == Len(announced[c]) + 1
           x == AlertFor(c, m, kind)
           Of(f, d) == {AlertFor(d, n, f[d][n]) : n \in DOMAIN f[d]}
<1>1. /\ announced[c] \in Seq(Kinds) /\ m \in Nat
      /\ DOMAIN announced[c] = 1 .. m - 1 /\ DOMAIN announced'[c] = 1 .. m
      /\ announced'[c][m] = kind
      /\ \A n \in 1 .. m - 1 : announced'[c][n] = announced[c][n]
  <2>1. announced[c] \in Seq(Kinds) /\ announced'[c] = Append(announced[c], kind)
    OBVIOUS
  <2>2. QED
    BY <2>1
<1>2. ASSUME NEW d \in Checks, d # c
      PROVE  Of(announced', d) = Of(announced, d) /\ x \notin Of(announced, d)
  BY <1>2 DEF AlertFor
<1>3. Of(announced', c) = Of(announced, c) \cup {x}
  <2>1. 1 .. m = (1 .. m - 1) \cup {m}
    BY <1>1
  <2>2. QED
    BY <1>1, <2>1
<1>4. x \notin Of(announced, c)
  <2>1. \A n \in 1 .. m - 1 : n # m
    BY <1>1
  <2>2. QED
    BY <1>1, <2>1 DEF AlertFor
<1>5. /\ Announced = UNION {Of(announced, d) : d \in Checks}
      /\ Announced' = UNION {Of(announced', d) : d \in Checks}
  BY DEF Announced
<1> HIDE DEF x, Of
<1>6. x \notin Announced /\ Announced' = Announced \cup {x}
  BY <1>2, <1>3, <1>4, <1>5
<1>7. QED
  BY <1>6 DEF x, m

LEMMA AccountStep ==
    ASSUME Typed, HoldsOne, AlertsInOnePlace, Shapes
    PROVE  AlertsInOnePlace'
<1>0. /\ announced \in [Checks -> Seq(Kinds)] /\ held \in [Actors -> SUBSET Alert]
      /\ queue \in Seq(Alert)
  BY DEF Typed, TypeOK
<1>1. ASSUME NEW a \in Actors, NEW c \in Checks, Fall(a, c) \/ Recovery(a, c)
      PROVE  AlertsInOnePlace'
  <2>1. PICK kind \in Kinds : held[a] = {} /\ Announce(a, c, kind)
    BY <1>1, Words DEF Fall, Recovery
  <2> DEFINE x == AlertFor(c, Len(announced[c]) + 1, kind)
  <2>2. x \notin Announced /\ Announced' = Announced \cup {x}
    BY <1>0, <2>1, AnnouncedGrows DEF Announce
  <2>3. held' = [held EXCEPT ![a] = {x}] /\ queue' = queue /\ lost' = lost
    BY <2>1 DEF Announce
  <2> HIDE DEF x
  <2>4. Held' = Held \cup {x} /\ Queued' = Queued
    BY <1>0, <2>1, <2>3 DEF Held, Queued
  <2>5. \A b, d \in Actors : b # d => held'[b] \cap held'[d] = {}
    <3>1. \A b \in Actors : x \notin held[b]
      BY <2>2 DEF AlertsInOnePlace, Held
    <3>2. QED
      BY <1>0, <2>1, <2>3, <3>1 DEF AlertsInOnePlace
  <2>6. QED
    BY <2>2, <2>3, <2>4, <2>5 DEF AlertsInOnePlace
<1>2. ASSUME UNCHANGED alerts
      PROVE  AlertsInOnePlace'
  BY <1>2 DEF alerts, AlertsInOnePlace, Announced, Held, Queued
<1>3. ASSUME NEW a \in Actors, NEW x \in Alert, Move(a, x)
      PROVE  AlertsInOnePlace'
  <2>1. Announced' = Announced
    BY <1>3 DEF Move, Announced
  <2>2. x \in Held /\ x \notin Queued /\ x \notin lost
    BY <1>3 DEF Move, Held, AlertsInOnePlace
  <2>3. Held' = Held \ {x}
    <3>1. \A b \in Actors : b # a => x \notin held[b]
      BY <1>3 DEF Move, AlertsInOnePlace
    <3>2. held' = [held EXCEPT ![a] = {}] /\ held[a] = {x}
      BY <1>3 DEF Move
    <3>3. QED
      BY <1>0, <3>1, <3>2 DEF Held
  <2>4. \A b, d \in Actors : b # d => held'[b] \cap held'[d] = {}
    BY <1>0, <1>3 DEF Move, AlertsInOnePlace
  <2>5. CASE queue' = Append(queue, x) /\ lost' = lost
    <3>1. /\ DOMAIN queue = 1 .. Len(queue) /\ DOMAIN queue' = 1 .. Len(queue) + 1
          /\ Len(queue) \in Nat /\ queue'[Len(queue) + 1] = x
          /\ \A i \in 1 .. Len(queue) : queue'[i] = queue[i]
      BY <1>0, <2>5
    <3>2. 1 .. Len(queue) + 1 = (1 .. Len(queue)) \cup {Len(queue) + 1}
      BY <3>1
    <3>3. Queued' = Queued \cup {x}
      BY <3>1, <3>2 DEF Queued
    <3>4. \A i, j \in DOMAIN queue' : queue'[i] = queue'[j] => i = j
      BY <2>2, <3>1, <3>2 DEF AlertsInOnePlace, Queued
    <3>5. QED
      BY <2>1, <2>2, <2>3, <2>4, <2>5, <3>3, <3>4 DEF AlertsInOnePlace
  <2>6. CASE lost' = lost \cup {x} /\ queue' = queue
    <3>1. Queued' = Queued
      BY <2>6 DEF Queued
    <3>2. QED
      BY <2>1, <2>2, <2>3, <2>4, <2>6, <3>1 DEF AlertsInOnePlace
  <2>7. QED
    BY <1>3, <2>5, <2>6 DEF Move
<1>4. QED
  BY <1>1, <1>2, <1>3 DEF Shapes, Quiet

\* An alert, once committed, is with one process, or queued once, or lost.
THEOREM AlertsAccounted == Spec => []AlertsInOnePlace
<1>1. Init => Accounted
  <2>1. Init => Typed /\ HoldsOne
    BY TypeInit DEF Init, HoldsOne
  <2>2. Init => AlertsInOnePlace
    BY DEF Init, AlertsInOnePlace, Announced, Held, Queued
  <2>3. QED
    BY <2>1, <2>2 DEF Accounted
<1>2. Accounted /\ [Next]_vars => Accounted'
  BY TypedStep, HoldsStep, StepShapes, AccountStep DEF Accounted
<1>3. Accounted => AlertsInOnePlace
  BY DEF Accounted
<1>4. QED
  BY <1>1, <1>2, <1>3, PTL DEF Spec

-----------------------------------------------------------------------------
(* The contract *)

LEMMA ContractStep ==
    ASSUME Typed, HoldsOne, AlertsInOnePlace, Shapes
    PROVE  [Contract!Next]_(Contract!vars)
<1> DEFINE state == [c \in Checks |-> StateOf(c)]
<1>0. /\ announced \in [Checks -> Seq(Kinds)] /\ held \in [Actors -> SUBSET Alert]
      /\ queue \in Seq(Alert)
  BY DEF Typed, TypeOK
<1>1. ASSUME NEW c \in Checks, SameElsewhere(c)
      PROVE  state' = [state EXCEPT ![c] = StateOf(c)']
  BY <1>1 DEF SameElsewhere, StateOf, Live
<1>2. ASSUME NEW a \in Actors, NEW c \in Checks, Fall(a, c) \/ Recovery(a, c)
      PROVE  Contract!Falls(c) \/ Contract!Recovers(c)
  <2>1. ASSUME NEW kind \in Kinds, held[a] = {}, Announce(a, c, kind)
        PROVE  Contract!Announce(c, kind)
    <3> DEFINE x == AlertFor(c, Len(announced[c]) + 1, kind)
    <3>1. /\ announced' = [announced EXCEPT ![c] = Append(@, kind)]
          /\ held' = [held EXCEPT ![a] = {x}] /\ queue' = queue /\ lost' = lost
      BY <2>1 DEF Announce
    <3>2. Contract!AlertFor(c, Len(announced[c]) + 1, kind) = x
      BY DEF Contract!AlertFor, AlertFor
    <3> HIDE DEF x
    <3>3. Held' = Held \cup {x} /\ Queued' = Queued
      BY <1>0, <2>1, <3>1 DEF Held, Queued
    <3>4. QED
      BY <3>1, <3>2, <3>3 DEF Contract!Announce
  <2>2. CASE Fall(a, c)
    BY <1>1, <2>1, <2>2, Words DEF Fall, Contract!Falls
  <2>3. CASE Recovery(a, c)
    BY <1>1, <2>1, <2>3, Words DEF Recovery, Contract!Recovers
  <2>4. QED
    BY <1>2, <2>2, <2>3
<1>3. ASSUME NEW c \in Checks, Quiet(c)
      PROVE  Contract!Settles(c, "up") \/ Contract!Settles(c, "other") \/ UNCHANGED Contract!vars
  <2>1. UNCHANGED <<announced, Held, Queued, lost>>
    BY <1>3 DEF Quiet, alerts, Held, Queued
  <2>2. state' = [state EXCEPT ![c] = StateOf(c)']
    BY <1>1, <1>3 DEF Quiet
  <2>3. CASE StateOf(c)' = "up"
    BY <1>3, <2>1, <2>2, <2>3 DEF Quiet, Contract!Settles
  <2>4. CASE StateOf(c)' = "other"
    BY <1>3, <2>1, <2>2, <2>4 DEF Quiet, Contract!Settles
  <2>5. CASE StateOf(c)' = "down"
    <3>1. StateOf(c)' = StateOf(c)
      BY <1>3, <2>5 DEF Quiet
    <3>2. state' = state
      BY <2>2, <3>1
    <3>3. QED
      BY <2>1, <3>2 DEF Contract!vars
  <2>6. StateOf(c)' \in {"up", "other", "down"}
    BY DEF StateOf
  <2>7. QED
    BY <2>3, <2>4, <2>5, <2>6
<1>4. ASSUME UNCHANGED <<db, alerts>>
      PROVE  UNCHANGED Contract!vars
  BY <1>4 DEF alerts, Held, Queued, StateOf, Live, Contract!vars
<1>5. ASSUME NEW a \in Actors, NEW x \in Alert, Move(a, x)
      PROVE  x \in Held /\ (Contract!Queues(x) \/ Contract!Loses(x))
  <2>1. x \in Held
    BY <1>5 DEF Move, Held
  <2>2. state' = state /\ announced' = announced
    BY <1>5 DEF Move, StateOf, Live
  <2>3. Held' = Held \ {x}
    <3>1. \A b \in Actors : b # a => x \notin held[b]
      BY <1>5 DEF Move, AlertsInOnePlace
    <3>2. held' = [held EXCEPT ![a] = {}] /\ held[a] = {x}
      BY <1>5 DEF Move
    <3>3. QED
      BY <1>0, <3>1, <3>2 DEF Held
  <2>4. CASE queue' = Append(queue, x) /\ lost' = lost
    <3>1. /\ DOMAIN queue = 1 .. Len(queue) /\ DOMAIN queue' = 1 .. Len(queue) + 1
          /\ Len(queue) \in Nat /\ queue'[Len(queue) + 1] = x
          /\ \A i \in 1 .. Len(queue) : queue'[i] = queue[i]
      BY <1>0, <2>4
    <3>2. 1 .. Len(queue) + 1 = (1 .. Len(queue)) \cup {Len(queue) + 1}
      BY <3>1
    <3>3. Queued' = Queued \cup {x}
      BY <3>1, <3>2 DEF Queued
    <3>4. QED
      BY <2>1, <2>2, <2>3, <2>4, <3>3 DEF Contract!Queues
  <2>5. CASE lost' = lost \cup {x} /\ queue' = queue
    BY <2>1, <2>2, <2>3, <2>5 DEF Contract!Loses, Queued
  <2>6. QED
    BY <1>5, <2>1, <2>4, <2>5 DEF Move
<1>6. QED
  BY <1>2, <1>3, <1>4, <1>5 DEF Shapes, Contract!Next

\* Whatever the interleaving of pings, sweeps, probes and edits, the checks, the
\* alerts in flight and the queue together behave as AlertContract says.
THEOREM Implementation == Spec => ImplementsContract
<1>1. Init => Accounted /\ Contract!Init
  <2>1. Init => Typed /\ HoldsOne
    BY TypeInit DEF Init, HoldsOne
  <2>2. Init => AlertsInOnePlace
    BY DEF Init, AlertsInOnePlace, Announced, Held, Queued
  <2>3. Init => Contract!Init
    BY DEF Init, Contract!Init, StateOf, Live, NoRow, Held, Queued
  <2>4. QED
    BY <2>1, <2>2, <2>3 DEF Accounted
<1>2. Accounted /\ [Next]_vars => Accounted' /\ [Contract!Next]_(Contract!vars)
  BY TypedStep, HoldsStep, StepShapes, AccountStep, ContractStep DEF Accounted
<1>3. QED
  BY <1>1, <1>2, PTL DEF Spec, ImplementsContract, Contract!Spec

\* What the producers owe about alerts, in one statement: each tells a transition
\* of its check, and is in one place.
THEOREM AlertsSound == Spec => []AlertsAccountedFor
<1>1. AlertsTellTheStatus /\ AlertsInOnePlace => AlertsAccountedFor
  BY DEF AlertsAccountedFor
<1>2. QED
  BY <1>1, AlertsTruthful, AlertsAccounted, PTL

-----------------------------------------------------------------------------
(* The steps, by what they do to a row *)

\* The trigger has seen the write.
Recorded(c) == db'[c].outageOpen = OutageAfter(db[c].status, db'[c].status, db[c].outageOpen)

\* Created, paused, resumed or converted from active: without a verdict.
Renewed(c) == db[c].row # "deleted" /\ db'[c].status \in {"NEW", "PAUSED"}

\* Edited or converted to active: with the verdict there was.
Kept(c) ==
    /\ Live(c)
    /\ db'[c].status = db[c].status /\ db'[c].lastEvent = db[c].lastEvent
    /\ db'[c].lastEventAt = db[c].lastEventAt
    /\ db'[c].type \in {db[c].type, "ACTIVE"}

Pinged(c) ==
    /\ Live(c)
    /\ db'[c].status = "UP" /\ db'[c].lastEvent = "ping" /\ db'[c].lastEventAt \in Nat

Missed(c) ==
    /\ Live(c) /\ db[c].status \in {"UP", "GRACE"}
    /\ db'[c].status = "DOWN" /\ db'[c].lastEvent = "missed" /\ db'[c].lastEventAt = db[c].lastEventAt

Probed(c) ==
    /\ Probeable(c) /\ db'[c].type = "ACTIVE" /\ db'[c].lastEventAt \in Nat
    /\ \/ db'[c].status = "UP" /\ db'[c].lastEvent = "probe_up"
       \/ db'[c].status = "DOWN" /\ db'[c].lastEvent = "probe_down"

Written(c) ==
    /\ Recorded(c) /\ db'[c].row = "live"
    /\ Renewed(c) \/ Kept(c) \/ Pinged(c) \/ Missed(c) \/ Probed(c)

Deleted(c) == Live(c) /\ db'[c] = NoRow("deleted")

Writes == \A d \in Checks : db'[d] = db[d] \/ Written(d) \/ Deleted(d)

LEMMA StoreWrites ==
    ASSUME NEW c \in Checks, NEW r \in CheckRow, db \in [Checks -> CheckRow], Store(c, r),
           r.row = "live",
           \/ db[c].row # "deleted" /\ r.status \in {"NEW", "PAUSED"}
           \/ /\ Live(c)
              /\ r.status = db[c].status /\ r.lastEvent = db[c].lastEvent
              /\ r.lastEventAt = db[c].lastEventAt /\ r.type \in {db[c].type, "ACTIVE"}
           \/ Live(c) /\ r.status = "UP" /\ r.lastEvent = "ping" /\ r.lastEventAt \in Nat
           \/ /\ Live(c) /\ db[c].status \in {"UP", "GRACE"}
              /\ r.status = "DOWN" /\ r.lastEvent = "missed" /\ r.lastEventAt = db[c].lastEventAt
           \/ /\ Probeable(c) /\ r.type = "ACTIVE" /\ r.lastEventAt \in Nat
              /\ \/ r.status = "UP" /\ r.lastEvent = "probe_up"
                 \/ r.status = "DOWN" /\ r.lastEvent = "probe_down"
    PROVE  Writes
<1>1. /\ \A d \in Checks : d # c => db'[d] = db[d]
      /\ db'[c].row = r.row /\ db'[c].type = r.type /\ db'[c].status = r.status
      /\ db'[c].lastEventAt = r.lastEventAt /\ db'[c].lastEvent = r.lastEvent
      /\ db'[c].outageOpen = OutageAfter(db[c].status, r.status, db[c].outageOpen)
  BY StoreEffect
<1>2. Recorded(c) /\ db'[c].row = "live"
  BY <1>1 DEF Recorded
<1>3. Renewed(c) \/ Kept(c) \/ Pinged(c) \/ Missed(c) \/ Probed(c)
  BY <1>1 DEF Renewed, Kept, Pinged, Missed, Probed
<1>4. Written(c)
  BY <1>2, <1>3 DEF Written
<1>5. QED
  BY <1>1, <1>4 DEF Writes

LEMMA UserWrites ==
    ASSUME Typed, Users
    PROVE  Writes
<1>0. db \in [Checks -> CheckRow]
  BY DEF Typed, TypeOK
<1>1. ASSUME NEW c \in Checks, NEW k \in Cadences \cup {NoCadence}, NEW type \in {"HEARTBEAT", "ACTIVE"},
             Create(c, type, k)
      PROVE  Writes
  <2> DEFINE r == NewRow(type, k)
  <2>1. r \in CheckRow /\ r.row = "live" /\ r.status = "NEW"
    BY NoRowType DEF NewRow, NoRow, CheckRow
  <2>2. Store(c, r) /\ db[c].row # "deleted"
    BY <1>1 DEF Create
  <2> HIDE DEF r
  <2>3. QED
    BY <1>0, <2>1, <2>2, StoreWrites
<1>2. ASSUME NEW c \in Checks, Pause(c)
      PROVE  Writes
  <2> DEFINE r == [db[c] EXCEPT !.status = "PAUSED"]
  <2>1. r \in CheckRow
    BY <1>0, RowUpdates, Words
  <2>2. r.row = "live" /\ r.status = "PAUSED" /\ Store(c, r) /\ db[c].row # "deleted"
    BY <1>0, <1>2 DEF Pause, Live, CheckRow
  <2> HIDE DEF r
  <2>3. QED
    BY <1>0, <2>1, <2>2, StoreWrites
<1>3. ASSUME NEW c \in Checks, Resume(c)
      PROVE  Writes
  <2> DEFINE r == [db[c] EXCEPT !.status = "NEW"]
  <2>1. r \in CheckRow
    BY <1>0, RowUpdates, Words
  <2>2. r.row = "live" /\ r.status = "NEW" /\ Store(c, r) /\ db[c].row # "deleted"
    BY <1>0, <1>3 DEF Resume, Live, CheckRow
  <2> HIDE DEF r
  <2>3. QED
    BY <1>0, <2>1, <2>2, StoreWrites
<1>4. ASSUME NEW c \in Checks, ConvertToActive(c)
      PROVE  Writes
  <2> DEFINE r == [db[c] EXCEPT !.type = "ACTIVE", !.cadence = NoCadence]
  <2>1. r \in CheckRow
    <3>1. db[c] \in CheckRow /\ NoCadence \in Cadences \cup {NoCadence}
      BY <1>0
    <3>2. QED
      BY <3>1, RowUpdates, Words
  <2>2. /\ r.row = db[c].row /\ r.status = db[c].status /\ r.lastEvent = db[c].lastEvent
        /\ r.lastEventAt = db[c].lastEventAt /\ r.type = "ACTIVE"
    BY <1>0 DEF CheckRow
  <2>3. Store(c, r) /\ Live(c) /\ db[c].row = "live"
    BY <1>4 DEF ConvertToActive, IsHeartbeat, Live
  <2> HIDE DEF r
  <2>4. QED
    BY <1>0, <2>1, <2>2, <2>3, StoreWrites
<1>5. ASSUME NEW c \in Checks, NEW k \in Cadences, EditCadence(c, k)
      PROVE  Writes
  <2> DEFINE r == [db[c] EXCEPT !.cadence = k]
  <2>1. r \in CheckRow
    <3>1. db[c] \in CheckRow /\ k \in Cadences \cup {NoCadence}
      BY <1>0
    <3>2. QED
      BY <3>1, RowUpdates, Words
  <2>2. /\ r.row = db[c].row /\ r.status = db[c].status /\ r.lastEvent = db[c].lastEvent
        /\ r.lastEventAt = db[c].lastEventAt /\ r.type = db[c].type
    BY <1>0 DEF CheckRow
  <2>3. Store(c, r) /\ Live(c) /\ db[c].row = "live"
    BY <1>5 DEF EditCadence, IsHeartbeat, Live
  <2> HIDE DEF r
  <2>4. QED
    BY <1>0, <2>1, <2>2, <2>3, StoreWrites
<1>6. ASSUME NEW c \in Checks, NEW k \in Cadences, ConvertToHeartbeat(c, k)
      PROVE  Writes
  <2> DEFINE r == [db[c] EXCEPT !.type = "HEARTBEAT", !.cadence = k,
                                !.status = "NEW", !.lastEventAt = Never]
  <2>1. r \in CheckRow
    BY <1>0, RowUpdates, Words
  <2>2. r.status = "NEW" /\ r.row = db[c].row
    BY <1>0 DEF CheckRow
  <2>3. Store(c, r) /\ db[c].row = "live"
    BY <1>6 DEF ConvertToHeartbeat, Live
  <2> HIDE DEF r
  <2>4. QED
    BY <1>0, <2>1, <2>2, <2>3, StoreWrites
<1>7. ASSUME NEW c \in Checks, Delete(c)
      PROVE  Writes
  BY <1>0, <1>7 DEF Delete, Deleted, Writes
<1>8. QED
  BY <1>1, <1>2, <1>3, <1>4, <1>5, <1>6, <1>7 DEF Users

\* Rows are written by users, pings, sweeps and probes, each in its own way.
LEMMA StepWrites ==
    ASSUME Typed, HoldsOne, [Next]_vars
    PROVE  Writes
<1>0. db \in [Checks -> CheckRow] /\ clock \in Nat /\ readAt \in [Jobs -> Nat] /\ verdict \in [Jobs -> BOOLEAN]
  BY DEF Typed, TypeOK
<1>1. CASE Users
  BY <1>1, UserWrites
<1>2. CASE UNCHANGED db
  BY <1>2 DEF Writes
<1>3. ASSUME NEW g \in Pings, PingRecords(g)
      PROVE  Writes
  <2> DEFINE c == subject[g]
             r == [db[c] EXCEPT !.status = "UP", !.lastEventAt = clock, !.lastEvent = "ping"]
  <2>1. c \in Checks
    BY <1>3 DEF PingRecords, Typed, SubjectsKnown
  <2>2. r \in CheckRow
    <3>1. db[c] \in CheckRow /\ clock \in Times
      BY <1>0, <2>1, Words
    <3>2. QED
      BY <3>1, Words, RowUpdates
  <2>3. r.row = db[c].row /\ r.status = "UP" /\ r.lastEvent = "ping" /\ r.lastEventAt = clock
    BY <1>0, <2>1 DEF CheckRow
  <2>4. Store(c, r) /\ Live(c) /\ db[c].row = "live"
    BY <1>3 DEF PingRecords, IsHeartbeat, Live
  <2> HIDE DEF r
  <2>5. QED
    BY <1>0, <2>1, <2>2, <2>3, <2>4, StoreWrites
<1>4. ASSUME NEW s \in Sweepers, NEW c \in Checks, SweepMarks(s, c)
      PROVE  Writes
  <2> DEFINE r == [db[c] EXCEPT !.status = "DOWN", !.lastEvent = "missed"]
  <2>1. r \in CheckRow
    BY <1>0, Words, RowUpdates
  <2>2. /\ r.row = db[c].row /\ r.status = "DOWN" /\ r.lastEvent = "missed"
        /\ r.lastEventAt = db[c].lastEventAt
    BY <1>0 DEF CheckRow
  <2>3. Store(c, r) /\ Live(c) /\ db[c].row = "live" /\ db[c].status \in {"UP", "GRACE"}
    BY <1>4 DEF SweepMarks, Expectant, Live
  <2> HIDE DEF r
  <2>4. QED
    BY <1>0, <2>1, <2>2, <2>3, StoreWrites
<1>5. ASSUME NEW j \in Jobs, ProbeRecords(j)
      PROVE  Writes
  <2> DEFINE c == subject[j]
             r == [db[c] EXCEPT !.status = IF verdict[j] THEN "UP" ELSE "DOWN",
                                !.lastEventAt = readAt[j],
                                !.lastEvent = IF verdict[j] THEN "probe_up" ELSE "probe_down"]
  <2>1. c \in Checks
    BY <1>5 DEF ProbeRecords, Typed, SubjectsKnown
  <2>2. r \in CheckRow
    <3>1. db[c] \in CheckRow /\ readAt[j] \in Times
      BY <1>0, <2>1, Words
    <3>2. QED
      BY <3>1, Words, RowUpdates
  <2>3. /\ r.row = db[c].row /\ r.type = db[c].type /\ r.lastEventAt = readAt[j]
        /\ r.status = (IF verdict[j] THEN "UP" ELSE "DOWN")
        /\ r.lastEvent = (IF verdict[j] THEN "probe_up" ELSE "probe_down")
    BY <1>0, <2>1 DEF CheckRow
  <2>4. Store(c, r) /\ Probeable(c) /\ db[c].row = "live" /\ db[c].type = "ACTIVE"
    BY <1>5 DEF ProbeRecords, Probeable, Live
  <2> HIDE DEF r
  <2>5. readAt[j] \in Nat
    BY <1>0
  <2>6. QED
    BY <1>0, <2>1, <2>2, <2>3, <2>4, <2>5, StoreWrites
<1>6. CASE Tick \/ UNCHANGED vars
  BY <1>2, <1>6 DEF Tick, vars
<1>7. ASSUME NEW g \in Pings, PingStep(g)
      PROVE  Writes
  BY <1>2, <1>3, <1>7 DEF PingStep, PingFinds, PingRejected
<1>8. ASSUME NEW s \in Sweepers, SweepStep(s)
      PROVE  Writes
  BY <1>2, <1>4, <1>8 DEF SweepStep, SweepStarts, SweepEnds, SweepAborts, SweepSkips
<1>9. ASSUME NEW j \in Jobs, ProbeStep(j)
      PROVE  Writes
  BY <1>2, <1>5, <1>9 DEF ProbeStep, ProbeQueued, ProbeStarts, ProbeSkips, ProbeDies, ProbeMeasures
<1>10. ASSUME NEW a \in Actors, Enqueued(a) \/ EnqueueFails(a)
       PROVE  Writes
  BY <1>2, <1>10 DEF Enqueued, EnqueueFails
<1>11. QED
  BY <1>1, <1>6, <1>7, <1>8, <1>9, <1>10 DEF Next

-----------------------------------------------------------------------------
(* The status, its newest event and its outages *)

\* Nothing writes GRACE (a status the schema has and the sweep allows for).
NoGrace == \A c \in Checks : db[c].status # "GRACE"

Agreed == OutageOpenIffDown /\ VerdictMatchesNewestEvent /\ NoGrace

LEMMA AgreedStep ==
    ASSUME Typed, Agreed, Writes
    PROVE  Agreed'
<1>0. \A c \in Checks : db[c] \in CheckRow
  BY DEF Typed, TypeOK
<1>1. ASSUME NEW c \in Checks
      PROVE  /\ db'[c].outageOpen <=> db'[c].row = "live" /\ db'[c].status = "DOWN"
             /\ db'[c].status # "GRACE"
             /\ db'[c].row = "live" /\ db'[c].status \in {"UP", "DOWN"} =>
                   /\ db'[c].lastEventAt # Never
                   /\ db'[c].lastEvent \in IF db'[c].status = "UP" THEN {"ping", "probe_up"}
                                                                ELSE {"missed", "probe_down"}
                   /\ db'[c].type = "HEARTBEAT" => db'[c].lastEvent \in {"ping", "missed"}
  <2>1. /\ db[c].outageOpen <=> db[c].row = "live" /\ db[c].status = "DOWN"
        /\ db[c].outageOpen \in BOOLEAN /\ db[c].status # "GRACE"
        /\ db[c].row = "live" /\ db[c].status \in {"UP", "DOWN"} =>
              /\ db[c].lastEventAt # Never
              /\ db[c].lastEvent \in IF db[c].status = "UP" THEN {"ping", "probe_up"}
                                                         ELSE {"missed", "probe_down"}
              /\ db[c].type = "HEARTBEAT" => db[c].lastEvent \in {"ping", "missed"}
    BY <1>0 DEF Agreed, OutageOpenIffDown, VerdictMatchesNewestEvent, NoGrace, Live, CheckRow
  <2>2. CASE db'[c] = db[c]
    BY <2>1, <2>2
  <2>3. CASE Deleted(c)
    BY <2>3 DEF Deleted, NoRow
  <2>4. CASE Written(c)
    <3>1. db'[c].outageOpen <=> db'[c].row = "live" /\ db'[c].status = "DOWN"
      <4>1. Recorded(c) /\ db'[c].row = "live"
        BY <2>4 DEF Written
      <4>2. db'[c].status = "DOWN" => db'[c].outageOpen
        BY <2>1, <2>4, <4>1 DEF Recorded, OutageAfter, Written, Renewed, Kept, Pinged, Missed, Probed, Live, Probeable
      <4>3. db'[c].status # "DOWN" => ~db'[c].outageOpen
        BY <2>1, <4>1 DEF Recorded, OutageAfter
      <4>4. QED
        BY <4>1, <4>2, <4>3
    <3>2. /\ db'[c].status # "GRACE"
          /\ db'[c].row = "live" /\ db'[c].status \in {"UP", "DOWN"} =>
                /\ db'[c].lastEventAt # Never
                /\ db'[c].lastEvent \in IF db'[c].status = "UP" THEN {"ping", "probe_up"}
                                                             ELSE {"missed", "probe_down"}
                /\ db'[c].type = "HEARTBEAT" => db'[c].lastEvent \in {"ping", "missed"}
      <4>1. CASE Renewed(c)
        BY <4>1 DEF Renewed
      <4>2. CASE Kept(c)
        BY <2>1, <4>2 DEF Kept, Live
      <4>3. CASE Pinged(c)
        BY <4>3 DEF Pinged, Never
      <4>4. CASE Missed(c)
        BY <2>1, <4>4 DEF Missed, Live
      <4>5. CASE Probed(c)
        BY <4>5 DEF Probed, Never
      <4>6. QED
        BY <2>4, <4>1, <4>2, <4>3, <4>4, <4>5 DEF Written
    <3>3. QED
      BY <3>1, <3>2
  <2>5. QED
    BY <2>2, <2>3, <2>4 DEF Writes
<1>2. QED
  BY <1>1 DEF Agreed, OutageOpenIffDown, VerdictMatchesNewestEvent, NoGrace, Live

\* Sweeps that decide on what they read earlier, administrators who take no lock
\* and probes of what the check was: its status, newest event and outages agree.
THEOREM StatusesAgree == Spec => []StatusAgrees
<1> DEFINE I == Typed /\ HoldsOne /\ Agreed
<1>1. Init => I
  <2>1. Init => Typed /\ HoldsOne
    BY TypeInit DEF Init, HoldsOne
  <2>2. Init => Agreed
    BY DEF Init, Agreed, OutageOpenIffDown, VerdictMatchesNewestEvent, NoGrace, NoRow, Live
  <2>3. QED
    BY <2>1, <2>2
<1>2. I /\ [Next]_vars => I'
  BY TypedStep, HoldsStep, StepWrites, AgreedStep
<1>3. I => StatusAgrees
  BY DEF Typed, Agreed, StatusAgrees
<1>4. QED
  BY <1>1, <1>2, <1>3, PTL DEF Spec

-----------------------------------------------------------------------------
(* Pauses and deletions *)

LEMMA PausedStep ==
    ASSUME Typed, HoldsOne, [Next]_vars, NEW c \in Checks
    PROVE  /\ Live(c) /\ db[c].status = "PAUSED" =>
                 /\ announced'[c] = announced[c]
                 /\ db'[c].status \in {"PAUSED", "NEW"} \/ db'[c].lastEvent = "ping"
           /\ db[c].row = "deleted" => db'[c] = db[c] /\ announced'[c] = announced[c]
<1>1. db'[c] = db[c] \/ Written(c) \/ Deleted(c)
  BY StepWrites DEF Writes
<1>2. ASSUME Live(c), db[c].status = "PAUSED"
      PROVE  db'[c].status \in {"PAUSED", "NEW"} \/ (db'[c].status = "UP" /\ db'[c].lastEvent = "ping")
  BY <1>1, <1>2 DEF Written, Deleted, Renewed, Kept, Pinged, Missed, Probed, Probeable, NoRow
<1>3. ASSUME db[c].row = "deleted"
      PROVE  db'[c] = db[c]
  BY <1>1, <1>3 DEF Written, Deleted, Renewed, Kept, Pinged, Missed, Probed, Probeable, Live
<1>4. ASSUME announced'[c] # announced[c]
      PROVE  StateOf(c) = "down" \/ StateOf(c)' = "down"
  <2>1. announced \in [Checks -> Seq(Kinds)] /\ Shapes
    BY StepShapes DEF Typed, TypeOK
  <2>2. PICK a \in Actors, d \in Checks : Fall(a, d) \/ Recovery(a, d)
    BY <1>4, <2>1 DEF Shapes, Quiet, Move, alerts
  <2>3. d = c
    BY <1>4, <2>1, <2>2 DEF Fall, Recovery, Announce
  <2>4. QED
    BY <2>2, <2>3 DEF Fall, Recovery
<1>5. ASSUME Live(c), db[c].status = "PAUSED"
      PROVE  announced'[c] = announced[c]
  <2>1. StateOf(c) # "down" /\ StateOf(c)' # "down"
    BY <1>2, <1>5 DEF StateOf
  <2>2. QED
    BY <1>4, <2>1
<1>6. ASSUME db[c].row = "deleted"
      PROVE  announced'[c] = announced[c]
  <2>1. StateOf(c) # "down" /\ StateOf(c)' # "down"
    BY <1>3, <1>6 DEF StateOf, Live
  <2>2. QED
    BY <1>4, <2>1
<1>7. QED
  BY <1>2, <1>3, <1>5, <1>6

\* Whatever is in flight when a check is paused or deleted: it stays so, without
\* an alert, until somebody resumes or converts it, or it is pinged.
THEOREM PausesHold == Spec => PauseAndDeleteHold
<1> DEFINE I == Typed /\ HoldsOne
<1>1. Init => I
  BY TypeInit DEF Init, HoldsOne
<1>2. I /\ [Next]_vars => I'
  BY TypedStep, HoldsStep
<1>3. I /\ [Next]_vars =>
        [\A c \in Checks :
            /\ Live(c) /\ db[c].status = "PAUSED" =>
                  /\ announced'[c] = announced[c]
                  /\ db'[c].status \in {"PAUSED", "NEW"} \/ db'[c].lastEvent = "ping"
            /\ db[c].row = "deleted" => db'[c] = db[c] /\ announced'[c] = announced[c]]_vars
  BY PausedStep
<1>4. QED
  BY <1>1, <1>2, <1>3, PTL DEF Spec, PauseAndDeleteHold
-----------------------------------------------------------------------------
(* OutageHistory: its inductive invariant

   The events of the check form streaks: DOWN events, up to the first that is not.
   Between an event's stamp and its commit the clock may go on by Skew, so an outage
   fits a streak (Fits) when each of its ends is Near the event that made it. While
   every event passes the trigger alone (plain), outages and streaks correspond one
   to one (TruthFits), whoever wrote them: the trigger after the cutoff, the scan
   before it, or both (BackfillFits). The merge joins what overlaps, so the table
   tells what the events tell at every moment no commit was late for (HistoryTells). *)

Spans == [check : {"c"}, from : Nat, to : 0 .. Open]

Event == [at : Nat, down : BOOLEAN]
Rows == [status : CheckStatuses, heartbeat : BOOLEAN, lastEventAt : {NoEvent} \cup Nat,
         updatedAt : Nat, period : {Interval}, createdAt : {0}, id : {"c"}]

Views == [pc : {"none", "checks", "outages", "done"}, now : Nat, row : Rows \cup {<<>>},
          outages : SUBSET Spans, at : Nat]

HistoryTyped ==
    /\ HistoryTypeOK
    /\ events \in Seq(Event)
    /\ row \in Rows /\ view \in Views
    /\ outages \cup staged \cup truth \subseteq Spans
    /\ plain \in BOOLEAN
    /\ staged # {} => phase = "staged"
    /\ \A s \in staged : s.from < cutoff

OneOpen(S) == \A o, p \in S : IsOpen(o) /\ IsOpen(p) => o = p

\* Until the backfill is done, the trigger has written of the truth what is since the cutoff.
PhaseInOrder ==
    /\ phase = "before" => outages = {}
    /\ phase # "done" => outages \subseteq truth /\ \A o \in outages : o.from >= cutoff
    /\ phase = "done" /\ row.status = "DOWN" => Opened # {}

OpenInOrder ==
    /\ OneOpen(outages) /\ OneOpen(staged) /\ OneOpen(truth)
    /\ \A o \in outages : IsOpen(o) => row.status = "DOWN"
    /\ row.status = "DOWN" <=> \E o \in truth : IsOpen(o)

\* A streak of DOWN events begins at b; k is the first event after it that is not DOWN.
StreakAt(b) == b \in DOMAIN events /\ events[b].down /\ (b = 1 \/ ~events[b - 1].down)
FirstUp(b, k) == k \in DOMAIN events /\ k > b /\ ~events[k].down /\ \A j \in b .. k - 1 : events[j].down
Lasts(b) == \A j \in DOMAIN events : j >= b => events[j].down

\* The outage o was written as the streak at b was: each end when its event was committed.
Near(moment, i) == events[i].at <= moment /\ moment <= events[i].at + Skew

Fits(o, b) ==
    /\ StreakAt(b)
    /\ Near(o.from, b)
    /\ IF IsOpen(o) THEN Lasts(b) ELSE \E k \in DOMAIN events : FirstUp(b, k) /\ Near(o.to, k)

\* The truth is what the events tell, but for the time from stamp to commit.
TruthFits ==
    plain =>
        /\ \A i, j \in DOMAIN events : i < j => events[i].at < events[j].at
        /\ row.status = "DOWN" <=> events # <<>> /\ events[Len(events)].down
        /\ \A o \in truth : \E b \in DOMAIN events : Fits(o, b)
        /\ \A b \in DOMAIN events : StreakAt(b) => \E o \in truth : Fits(o, b)

Rebuilt(s, b) ==
    /\ StreakAt(b)
    /\ s.from = events[b].at
    /\ IsOpen(s) \/ \E k \in DOMAIN events : FirstUp(b, k) /\ s.to = events[k].at

\* Before the merge, a streak is of the time before the cutoff and found by the
\* scan, or the trigger has written it, too.
BackfillFits ==
    plain /\ ~HasGap =>
        /\ \A s \in staged : \E b \in DOMAIN events : Rebuilt(s, b)
        /\ phase = "recording" => 
             \A b \in DOMAIN events :
                StreakAt(b) => events[b].at <= cutoff \/ \E o \in outages : Fits(o, b)
        /\ phase = "staged" =>
             \A b \in DOMAIN events :
                StreakAt(b) => \/ events[b].at = cutoff
                               \/ \E o \in outages : Fits(o, b)
                               \/ \E s \in staged : Rebuilt(s, b)

\* At moment t, the last event was DOWN; an event was stamped but not committed.
DownAt(t) ==
    \E i \in DOMAIN events :
       events[i].down /\ events[i].at <= t /\ (i = Len(events) \/ t < events[i + 1].at)

Blurred(t) == \E e \in ToSet(events) : e.at <= t /\ t < e.at + Skew

Tells(S) == \A t \in 0 .. time - 1 : (During(S, t) <=> DownAt(t)) \/ Blurred(t)

HistoryTells == phase = "done" /\ Telling => Tells(outages)

\* An open outage is not younger than the true one, and it was DOWN ever since.
OpenSince(p) ==
    /\ \A o \in truth : IsOpen(o) => p.from <= o.from
    /\ \A t \in p.from + Skew .. time - 1 : During(truth, t)

OpenTells == phase = "done" /\ Telling => \A p \in outages : IsOpen(p) => OpenSince(p)

\* While nothing disturbed the order of events, a check was last heard of at
\* lastEventAt, but for what made it DOWN.
LastHeard == plain => \A e \in ToSet(events) : e.at <= row.lastEventAt \/ (e.down /\ row.status = "DOWN")

\* What was read of the checks holds, but for what came since.
RowRead ==
    /\ view.row \in Rows /\ view.row.lastEventAt <= time
    /\ view.row.status = "DOWN" => \E o \in truth : o.to >= view.now
    /\ \A o \in truth : IsOpen(o) /\ o.from < view.now => view.row.status = "DOWN"
    /\ plain => \A e \in ToSet(events) :
          \/ e.at <= view.row.lastEventAt
          \/ e.at >= view.now - Skew
          \/ e.down /\ view.row.status = "DOWN"

\* Who reads the overview has read what is there, unless it was written since.
ViewInOrder ==
    view.pc # "none" =>
      /\ phase = "done" /\ view.now \in 0 .. time
      /\ view.pc \in {"outages", "done"} => RowRead
      /\ view.pc = "done" =>
           /\ view.at = time
           /\ view.outages = {o \in outages : Overlaps(o, view.now, view.now - Period)}

HistoryIInv ==
    /\ HistoryTyped /\ PhaseInOrder /\ OpenInOrder
    /\ Disjoint
    /\ TruthFits /\ BackfillFits /\ HistoryTells /\ OpenTells
    /\ LastHeard /\ ViewInOrder
-----------------------------------------------------------------------------
(* Least and greatest *)

\* Of some moments one is the first, and it is Min's.
LEMMA TheLeast ==
    ASSUME NEW S \in SUBSET Nat, S # {}
    PROVE  Min(S) \in S /\ \A x \in S : Min(S) <= x
<1>1. IsWellFoundedOn(OpToRel(<, Nat), Nat)
  BY NatLessThanWellFounded
<1>2. PICK m \in S : \A x \in S : ~(<<x, m>> \in OpToRel(<, Nat))
  BY <1>1, WFMin
<1>3. \A x \in S : ~(x < m)
  BY <1>2 DEF OpToRel
<1>4. \A x \in S : m <= x
  BY <1>3
<1> QED BY <1>4 DEF Min

\* Of moments with a bound one is the last, and it is Max's.
LEMMA TheGreatest ==
    ASSUME NEW N \in Nat, NEW S \in SUBSET (0 .. N), S # {}
    PROVE  Max(S) \in S /\ \A x \in S : x <= Max(S)
<1> DEFINE D == {N - x : x \in S}
<1>1. D \in SUBSET Nat /\ D # {}
  <2>1. \A x \in S : N - x \in Nat
    OBVIOUS
  <2> QED BY <2>1
<1>2. Min(D) \in D /\ \A d \in D : Min(D) <= d
  BY <1>1, TheLeast
<1>3. PICK m \in S : Min(D) = N - m
  BY <1>2
<1>4. \A x \in S : x <= m
  <2> SUFFICES ASSUME NEW x \in S PROVE x <= m
    OBVIOUS
  <2>1. N - m <= N - x
    BY <1>2, <1>3
  <2> QED BY <2>1
<1>5. \A x \in S : m >= x
  BY <1>4
<1> QED BY <1>5 DEF Max

LEMMA MaxOfTwo ==
    ASSUME NEW a \in Int, NEW b \in Int
    PROVE  Max({a, b}) >= a /\ Max({a, b}) >= b /\ Max({a, b}) \in {a, b} /\ Max({a, b}) \in Int
<1>1. \E m \in {a, b} : \A y \in {a, b} : m >= y
  OBVIOUS
<1> QED BY <1>1 DEF Max

-----------------------------------------------------------------------------
(* The islands *)

Starts(S) == {o.from : o \in {p \in S : IslandStarts(S, p.from)}}
IslandAt(S, s) == {o \in S : o.from >= s /\ \A t \in Starts(S) : t > s => o.from < t}

LEMMA IslandsAre ==
    ASSUME NEW S
    PROVE  Islands(S) = {Outage(s, Max({o.to : o \in IslandAt(S, s)})) : s \in Starts(S)}
BY DEF Islands, Starts, IslandAt

\* An island starts with an outage and ends with one, the last of its own.
LEMMA IslandsEnd ==
    ASSUME NEW S \in SUBSET Spans, NEW I \in Islands(S)
    PROVE  /\ I \in Spans
           /\ I.from \in Starts(S)
           /\ \A o \in IslandAt(S, I.from) : o.to <= I.to
           /\ \E o \in IslandAt(S, I.from) : o.to = I.to
           /\ \E o \in IslandAt(S, I.from) : o.from = I.from /\ IslandStarts(S, o.from)
<1>1. PICK s \in Starts(S) : I = Outage(s, Max({o.to : o \in IslandAt(S, s)}))
  BY IslandsAre
<1>2. I.from = s /\ I.to = Max({o.to : o \in IslandAt(S, s)}) /\ I.check = "c"
  BY <1>1 DEF Outage
<1>3. PICK p \in S : p.from = s /\ IslandStarts(S, p.from)
  BY DEF Starts
<1>4. p \in IslandAt(S, s)
  BY <1>3 DEF IslandAt, Spans
<1> DEFINE T == {o.to : o \in IslandAt(S, s)}
<1>5. T \in SUBSET (0 .. Open) /\ T # {}
  BY <1>4 DEF IslandAt, Spans
<1>6. Max(T) \in T /\ \A x \in T : x <= Max(T)
  BY <1>5, TheGreatest, NullTimeAssumption
<1>7. s \in Nat
  BY <1>3 DEF Spans
<1>8. I \in Spans
  BY <1>1, <1>5, <1>6, <1>7 DEF Spans, Outage
<1> QED BY <1>2, <1>3, <1>4, <1>6, <1>8

\* Every outage is part of an island.
LEMMA OutagesBelong ==
    ASSUME NEW S \in SUBSET Spans, NEW o \in S
    PROVE  \E I \in Islands(S) : o \in IslandAt(S, I.from) /\ I.from <= o.from /\ o.to <= I.to
<1> DEFINE F == {p.from : p \in S}
<1>1. Min(F) \in F /\ \A x \in F : Min(F) <= x
  <2>1. F \in SUBSET Nat /\ F # {}
    BY DEF Spans
  <2> QED BY <2>1, TheLeast
<1>2. PICK p \in S : p.from = Min(F)
  BY <1>1
<1>3. IslandStarts(S, p.from)
  <2>1. \A q \in S : ~(q.from < p.from)
    <3> SUFFICES ASSUME NEW q \in S PROVE ~(q.from < p.from)
      OBVIOUS
    <3>1. p.from <= q.from
      BY <1>1, <1>2
    <3> QED BY <3>1 DEF Spans
  <2> QED BY <2>1 DEF IslandStarts
<1> DEFINE T == {t \in Starts(S) : t <= o.from}
<1>4. p.from \in T
  BY <1>1, <1>2, <1>3 DEF Starts
<1>5. T \in SUBSET (0 .. o.from) /\ o.from \in Nat
  BY DEF Starts, Spans
<1>6. Max(T) \in T /\ \A t \in T : t <= Max(T)
  BY <1>4, <1>5, TheGreatest
<1> DEFINE s == Max(T)
<1>7. s \in Nat /\ s <= o.from /\ s \in Starts(S)
  BY <1>5, <1>6
<1>8. \A t \in Starts(S) : t > s => o.from < t
  <2> SUFFICES ASSUME NEW t \in Starts(S), t > s PROVE o.from < t
    OBVIOUS
  <2>1. t \in Nat
    BY DEF Starts, Spans
  <2>2. CASE t <= o.from
    <3>1. t <= s
      BY <1>6, <2>2
    <3> QED BY <3>1, <2>1, <1>7
  <2> QED BY <2>1, <2>2, <1>5
<1>9. o \in IslandAt(S, s)
  BY <1>5, <1>7, <1>8 DEF IslandAt
<1> DEFINE I == Outage(s, Max({q.to : q \in IslandAt(S, s)}))
<1>10. I \in Islands(S)
  BY <1>7, IslandsAre
<1>11. I.from = s
  BY DEF Outage
<1>12. o.to <= I.to
  BY <1>9, <1>10, <1>11, IslandsEnd
<1> QED BY <1>7, <1>9, <1>10, <1>11, <1>12

\* Islands are apart: nobody ends where another starts.
LEMMA IslandsApart ==
    ASSUME NEW S \in SUBSET Spans, NEW I \in Islands(S), NEW J \in Islands(S), I.from < J.from
    PROVE  I.to < J.from
<1>1. J.from \in Starts(S) /\ J.from \in Nat
  BY IslandsEnd DEF Spans
<1>2. PICK p \in S : p.from = J.from /\ IslandStarts(S, p.from)
  BY <1>1 DEF Starts
<1>3. PICK o \in IslandAt(S, I.from) : o.to = I.to
  BY IslandsEnd
<1>4. o \in S /\ o.from < J.from
  BY <1>1, <1>3 DEF IslandAt
<1> QED BY <1>2, <1>3, <1>4 DEF IslandStarts

LEMMA IslandsAtOnce ==
    ASSUME NEW S, NEW I \in Islands(S), NEW J \in Islands(S), I.from = J.from
    PROVE  I = J
<1>1. PICK s \in Starts(S) : I = Outage(s, Max({o.to : o \in IslandAt(S, s)}))
  BY IslandsAre
<1>2. PICK u \in Starts(S) : J = Outage(u, Max({o.to : o \in IslandAt(S, u)}))
  BY IslandsAre
<1>3. s = u
  BY <1>1, <1>2 DEF Outage
<1> QED BY <1>1, <1>2, <1>3

LEMMA IslandsDisjoint ==
    ASSUME NEW S \in SUBSET Spans, NEW I \in Islands(S), NEW J \in Islands(S), I # J
    PROVE  I.to <= J.from \/ J.to <= I.from
<1>1. I \in Spans /\ J \in Spans
  BY IslandsEnd
<1>2. I.from < J.from \/ J.from < I.from
  BY <1>1, IslandsAtOnce DEF Spans
<1>3. I.to < J.from \/ J.to < I.from
  BY <1>2, IslandsApart
<1> QED BY <1>1, <1>3 DEF Spans

\* The islands cover what the outages do.
LEMMA IslandsCover ==
    ASSUME NEW S \in SUBSET Spans, NEW t \in Nat
    PROVE  During(Islands(S), t) <=> During(S, t)
<1>1. ASSUME During(S, t) PROVE During(Islands(S), t)
  <2>1. PICK o \in S : o.from <= t /\ t < o.to
    BY <1>1 DEF During
  <2>2. PICK I \in Islands(S) : I.from <= o.from /\ o.to <= I.to
    BY OutagesBelong
  <2>3. I \in Spans /\ o \in Spans
    BY IslandsEnd
  <2>4. I.from <= t /\ t < I.to
    BY <2>1, <2>2, <2>3 DEF Spans
  <2> QED BY <2>4 DEF During
<1>2. ASSUME During(Islands(S), t), ~During(S, t) PROVE FALSE
  <2>1. PICK I \in Islands(S) : I.from <= t /\ t < I.to
    BY <1>2 DEF During
  <2>2. PICK m \in IslandAt(S, I.from) : m.to = I.to
    BY IslandsEnd
  <2>3. m \in S /\ I \in Spans
    BY <2>2, IslandsEnd DEF IslandAt
  <2> DEFINE F == {o.from : o \in {p \in S : p.from > t}}
  <2>4. m.from > t
    BY <1>2, <2>1, <2>2, <2>3 DEF During, Spans
  <2>5. m.from \in F /\ F \in SUBSET Nat
    BY <2>3, <2>4 DEF Spans
  <2>6. Min(F) \in F /\ \A x \in F : Min(F) <= x
    BY <2>5, TheLeast
  <2>7. PICK p \in S : p.from > t /\ p.from = Min(F)
    BY <2>6
  <2>8. IslandStarts(S, p.from)
    <3> SUFFICES ASSUME NEW o \in S, o.from < p.from PROVE o.to < p.from
      BY DEF IslandStarts
    <3>1. ~(o.from > t)
      <4> SUFFICES ASSUME o.from > t PROVE FALSE
        OBVIOUS
      <4>1. p.from <= o.from
        BY <2>6, <2>7
      <4> QED BY <4>1 DEF Spans
    <3>2. o.to <= t
      BY <1>2, <3>1 DEF During, Spans
    <3> QED BY <3>2, <2>7 DEF Spans
  <2>9. p.from \in Starts(S) /\ p.from > I.from
    <3>1. p.from \in Starts(S)
      BY <2>8 DEF Starts
    <3>2. p.from \in Nat /\ I.from \in Nat
      BY <2>3 DEF Spans
    <3> QED BY <2>1, <2>7, <3>1, <3>2
  <2>10. m.from < p.from
    BY <2>2, <2>9 DEF IslandAt
  <2>11. p.from <= m.from
    BY <2>5, <2>6, <2>7
  <2> QED BY <2>3, <2>10, <2>11 DEF Spans
<1> QED BY <1>1, <1>2

\* An island is open if and only if an outage of it is.
LEMMA OpenIslands ==
    ASSUME NEW S \in SUBSET Spans, OneOpen(S)
    PROVE  /\ OneOpen(Islands(S))
           /\ \A I \in Islands(S) : IsOpen(I) => \E o \in IslandAt(S, I.from) : IsOpen(o)
           /\ (\E o \in S : IsOpen(o)) => \E I \in Islands(S) : IsOpen(I)
<1>1. \A I \in Islands(S) : IsOpen(I) => \E o \in IslandAt(S, I.from) : IsOpen(o)
  BY IslandsEnd DEF IsOpen
<1>2. ASSUME NEW o \in S, IsOpen(o) PROVE \E I \in Islands(S) : IsOpen(I)
  <2>1. PICK I \in Islands(S) : o.to <= I.to
    BY OutagesBelong
  <2>2. I \in Spans
    BY IslandsEnd
  <2> QED BY <1>2, <2>1, <2>2, NullTimeAssumption DEF Spans, IsOpen
<1>3. ASSUME NEW I \in Islands(S), NEW J \in Islands(S), IsOpen(I), IsOpen(J), I.from < J.from
      PROVE  FALSE
  <2>1. J.from \in Starts(S) /\ J.from \in Nat
    BY IslandsEnd DEF Spans
  <2>2. PICK o \in IslandAt(S, I.from) : IsOpen(o)
    BY <1>1, <1>3
  <2>3. PICK p \in IslandAt(S, J.from) : IsOpen(p)
    BY <1>1, <1>3
  <2>4. o = p
    BY <2>2, <2>3 DEF OneOpen, IslandAt
  <2>5. o.from < J.from /\ o.from >= J.from /\ o.from \in Nat
    BY <1>3, <2>1, <2>2, <2>3, <2>4 DEF IslandAt, Spans
  <2> QED BY <2>1, <2>5
<1>4. OneOpen(Islands(S))
  <2> SUFFICES ASSUME NEW I \in Islands(S), NEW J \in Islands(S), IsOpen(I), IsOpen(J) PROVE I = J
    BY DEF OneOpen
  <2>1. I.from \in Nat /\ J.from \in Nat
    BY IslandsEnd DEF Spans
  <2>2. ~(I.from < J.from) /\ ~(J.from < I.from)
    BY <1>3
  <2>3. I.from = J.from
    BY <2>1, <2>2
  <2> QED BY <2>3, IslandsAtOnce
<1> QED BY <1>1, <1>2, <1>4

-----------------------------------------------------------------------------
(* Events and writes *)

LEMMA InsertAtProperties ==
    ASSUME NEW s \in Seq(Event), NEW e \in Event, NEW i \in 1 .. Len(s) + 1
    PROVE  /\ InsertAt(s, i, e) \in Seq(Event)
           /\ Len(InsertAt(s, i, e)) = Len(s) + 1
           /\ \A j \in 1 .. Len(s) + 1 :
                 InsertAt(s, i, e)[j] = IF j < i THEN s[j] ELSE IF j = i THEN e ELSE s[j - 1]
<1> DEFINE a == SubSeq(s, 1, i - 1)
           c == SubSeq(s, i, Len(s))
           b == a \o <<e>>
<1>1. Len(s) \in Nat /\ \A j \in 1 .. Len(s) : s[j] \in Event
  OBVIOUS
<1>2. a \in Seq(Event) /\ Len(a) = i - 1 /\ \A j \in 1 .. i - 1 : a[j] = s[j]
  <2>1. \A j \in 1 .. i - 1 : s[j] \in Event
    BY <1>1
  <2> QED BY <1>1, <2>1, SubSeqProperties
<1>3. c \in Seq(Event) /\ Len(c) = Len(s) - i + 1 /\ \A j \in 1 .. Len(s) - i + 1 : c[j] = s[i + j - 1]
  <2>1. \A j \in i .. Len(s) : s[j] \in Event
    BY <1>1
  <2> QED BY <1>1, <2>1, SubSeqProperties
<1>4. <<e>> \in Seq(Event) /\ Len(<<e>>) = 1 /\ <<e>>[1] = e
  OBVIOUS
<1> HIDE DEF a, c
<1>5. b \in Seq(Event) /\ Len(b) = i /\ \A j \in 1 .. i : b[j] = IF j < i THEN s[j] ELSE e
  <2>1. /\ b \in Seq(Event) /\ Len(b) = Len(a) + 1
        /\ \A j \in 1 .. Len(a) + 1 : b[j] = IF j <= Len(a) THEN a[j] ELSE <<e>>[j - Len(a)]
    BY <1>2, <1>4, ConcatProperties
  <2> QED BY <2>1, <1>2, <1>4
<1> HIDE DEF b
<1>6. /\ b \o c \in Seq(Event) /\ Len(b \o c) = Len(b) + Len(c)
      /\ \A j \in 1 .. Len(b) + Len(c) : (b \o c)[j] = IF j <= Len(b) THEN b[j] ELSE c[j - Len(b)]
  BY <1>3, <1>5, ConcatProperties
<1>7. InsertAt(s, i, e) = b \o c
  BY DEF InsertAt, a, b, c
<1>8. \A j \in 1 .. Len(s) + 1 :
         (b \o c)[j] = IF j < i THEN s[j] ELSE IF j = i THEN e ELSE s[j - 1]
  <2> SUFFICES ASSUME NEW j \in 1 .. Len(s) + 1
               PROVE  (b \o c)[j] = IF j < i THEN s[j] ELSE IF j = i THEN e ELSE s[j - 1]
    OBVIOUS
  <2>1. CASE j <= i
    BY <1>1, <1>3, <1>5, <1>6, <2>1
  <2>2. CASE j > i
    <3>1. j - i \in 1 .. Len(s) - i + 1
      BY <1>1, <2>2
    <3>2. c[j - i] = s[i + (j - i) - 1]
      BY <1>3, <3>1
    <3>3. i + (j - i) - 1 = j - 1
      BY <2>2
    <3>4. (b \o c)[j] = c[j - i]
      BY <1>1, <1>3, <1>5, <1>6, <2>2
    <3> QED BY <2>2, <3>2, <3>3, <3>4
  <2>3. j <= i \/ j > i
    BY <1>1
  <2> QED BY <2>1, <2>2, <2>3
<1> QED BY <1>1, <1>3, <1>5, <1>6, <1>7, <1>8

\* A stamp is not in the future.
LEMMA StampsArePast ==
    ASSUME time \in Nat, NEW at \in Stamps
    PROVE  at \in 0 .. time /\ time <= at + Skew
<1>1. Skew \in Nat
  BY LengthAssumption
<1>2. Max({0, time - Skew}) \in Int /\ Max({0, time - Skew}) >= 0 /\ Max({0, time - Skew}) >= time - Skew
  BY <1>1, MaxOfTwo
<1> QED BY <1>1, <1>2 DEF Stamps

\* A write reports an event, or edits the check and reports none.
ReportStep(at, down) ==
    /\ Logs(at, down)
    /\ row'.status = "DOWN" <=> down
    /\ row'.heartbeat = row.heartbeat
    /\ row'.lastEventAt = at \/ (down /\ row.status = "UP" /\ row'.lastEventAt = row.lastEventAt)

EditStep ==
    /\ events' = events /\ ~plain' /\ plain' \in BOOLEAN
    /\ row'.lastEventAt \in {NoEvent, row.lastEventAt}

WriteStep ==
    /\ SetsStatus(row'.status)
    /\ row' \in Rows /\ row'.updatedAt = time
    /\ view.pc # "done" /\ writes < MaxWrites /\ writes' = writes + 1
    /\ UNCHANGED <<time, phase, cutoff, staged>>
    /\ (\E at \in Stamps, down \in BOOLEAN : ReportStep(at, down)) \/ EditStep

LEMMA WritersWrite ==
    ASSUME HistoryTyped, Writers
    PROVE  WriteStep
<1> USE DEF Counts, migration, WriteStep, HistoryTyped, Rows
<1>1. time \in Nat /\ NoEvent \in Int
  BY NullTimeAssumption, LengthAssumption DEF HistoryTypeOK
<1>2. \A at \in Stamps : at \in Nat
  BY <1>1, StampsArePast
<1>3. ASSUME NEW at \in Stamps, Reports(at) PROVE WriteStep
  <2>1. row' \in Rows /\ row'.status = "UP" /\ row'.updatedAt = time
    BY <1>1, <1>2, <1>3 DEF Reports, CheckStatuses
  <2>2. ReportStep(at, FALSE)
    BY <1>3, <2>1 DEF Reports, ReportStep
  <2> QED BY <1>3, <2>1, <2>2 DEF Reports
<1>4. ASSUME NEW at \in Stamps, Fails(at) PROVE WriteStep
  <2>1. row' \in Rows /\ row'.status = "DOWN" /\ row'.updatedAt = time
    BY <1>1, <1>2, <1>4 DEF Fails, CheckStatuses
  <2>2. ReportStep(at, TRUE)
    BY <1>4, <2>1 DEF Fails, ReportStep
  <2> QED BY <1>4, <2>1, <2>2 DEF Fails
<1>5. ASSUME NEW at \in Stamps, IsMissed(at) PROVE WriteStep
  <2>1. row' \in Rows /\ row'.status = "DOWN" /\ row'.updatedAt = time
    BY <1>1, <1>2, <1>5 DEF IsMissed, CheckStatuses
  <2>2. ReportStep(at, TRUE)
    BY <1>5, <2>1 DEF IsMissed, ReportStep
  <2> QED BY <1>5, <2>1, <2>2 DEF IsMissed
<1>6. ASSUME NEW edited \in Rows, edited.lastEventAt \in {NoEvent, row.lastEventAt}, Edits(edited)
      PROVE  WriteStep
  <2>1. row' \in Rows /\ row'.status = edited.status /\ row'.updatedAt = time
    BY <1>1, <1>6 DEF Edits
  <2>2. EditStep
    BY <1>6 DEF Edits, EditStep
  <2> QED BY <1>6, <2>1, <2>2 DEF Edits
<1>7. CASE Pauses
  BY <1>6, <1>7 DEF Pauses, CheckStatuses
<1>8. CASE Resumes
  BY <1>6, <1>8 DEF Resumes, CheckStatuses
<1>9. CASE ConvertsToHeartbeat
  BY <1>6, <1>9 DEF ConvertsToHeartbeat, CheckStatuses
<1>10. CASE ConvertsToActive
  BY <1>6, <1>10 DEF ConvertsToActive, CheckStatuses
<1> QED BY <1>3, <1>4, <1>5, <1>7, <1>8, <1>9, <1>10 DEF Writers

\* A report's event is somewhere among the others, and while nothing disturbed the order it is the last.
LEMMA LogsInsert ==
    ASSUME events \in Seq(Event), NEW at \in Nat, NEW down \in BOOLEAN, Logs(at, down)
    PROVE  /\ events' \in Seq(Event)
           /\ \A e \in ToSet(events') : e \in ToSet(events) \/ e = [at |-> at, down |-> down]
           /\ plain' \in BOOLEAN
           /\ plain' => /\ plain
                        /\ Len(events') = Len(events) + 1
                        /\ \A j \in DOMAIN events : events'[j] = events[j] /\ events[j].at < at
                        /\ events'[Len(events) + 1] = [at |-> at, down |-> down]
<1> DEFINE e == [at |-> at, down |-> down]
<1>1. e \in Event
  BY DEF Event
<1>2. PICK i \in 1 .. Len(events) + 1 :
         events' = InsertAt(events, i, e) /\ plain' = (plain /\ i = Len(events) + 1 /\ \A f \in ToSet(events) : f.at < at)
  BY DEF Logs
<1> HIDE DEF e
<1>3. /\ events' \in Seq(Event) /\ Len(events') = Len(events) + 1
      /\ \A j \in 1 .. Len(events) + 1 : events'[j] = IF j < i THEN events[j] ELSE IF j = i THEN e ELSE events[j - 1]
  <2>1. /\ InsertAt(events, i, e) \in Seq(Event)
        /\ Len(InsertAt(events, i, e)) = Len(events) + 1
        /\ \A j \in 1 .. Len(events) + 1 :
              InsertAt(events, i, e)[j] = IF j < i THEN events[j] ELSE IF j = i THEN e ELSE events[j - 1]
    BY <1>1, InsertAtProperties
  <2>2. events' = InsertAt(events, i, e)
    BY <1>2
  <2> QED BY <2>1, <2>2
<1>4. DOMAIN events' = 1 .. Len(events) + 1 /\ DOMAIN events = 1 .. Len(events) /\ Len(events) \in Nat
  BY <1>3
<1>5. ASSUME NEW j \in 1 .. Len(events) + 1 PROVE events'[j] \in ToSet(events) \/ events'[j] = e
  <2>1. CASE j < i
    BY <1>3, <1>4, <2>1 DEF ToSet
  <2>2. CASE j = i
    BY <1>3, <2>2
  <2>3. CASE j > i
    <3>1. events'[j] = events[j - 1] /\ j - 1 \in DOMAIN events
      BY <1>3, <1>4, <2>3
    <3> QED BY <3>1 DEF ToSet
  <2> QED BY <2>1, <2>2, <2>3
<1>6. \A f \in ToSet(events') : f \in ToSet(events) \/ f = e
  BY <1>4, <1>5 DEF ToSet
<1>7. plain' => \A j \in DOMAIN events : events'[j] = events[j] /\ events[j].at < at
  <2> SUFFICES ASSUME plain', NEW j \in DOMAIN events PROVE events'[j] = events[j] /\ events[j].at < at
    OBVIOUS
  <2>1. i = Len(events) + 1 /\ events[j].at < at
    BY <1>2 DEF ToSet
  <2> QED BY <2>1, <1>3, <1>4
<1>8. plain' => plain /\ events'[Len(events) + 1] = e
  <2> SUFFICES ASSUME plain' PROVE plain /\ events'[Len(events) + 1] = e
    OBVIOUS
  <2>1. i = Len(events) + 1 /\ plain
    BY <1>2
  <2>2. Len(events) + 1 \in 1 .. Len(events) + 1
    BY <1>4
  <2> QED BY <2>1, <2>2, <1>3, <1>4
<1>9. plain' \in BOOLEAN
  BY <1>2
<1> QED BY <1>3, <1>6, <1>7, <1>8, <1>9 DEF e

-----------------------------------------------------------------------------
(* What the trigger does *)

Moments == 0 .. time

LEMMA TimeIsFinite ==
    ASSUME HistoryTyped
    PROVE  /\ time \in Nat /\ time <= MaxTime /\ time < Open /\ Open \in Nat /\ cutoff \in Moments
           /\ Interval \in Nat \ {0} /\ Skew \in Nat /\ MinGap \in Nat /\ MaxTime \in Nat /\ Period \in Nat
           /\ NoEvent \in Int /\ NoEvent < 0
           /\ events \in Seq(Event) /\ Len(events) \in Nat /\ DOMAIN events = 1 .. Len(events)
           /\ \A i \in DOMAIN events : events[i] \in Event /\ events[i].at \in Moments
<1>1. \A i \in DOMAIN events : events[i] \in Event /\ events[i] \in ToSet(events)
  BY DEF HistoryTyped, ToSet
<1>2. \A i \in DOMAIN events : events[i].at \in Moments
  BY <1>1 DEF HistoryTyped, HistoryTypeOK, Moments
<1> QED BY <1>1, <1>2, NullTimeAssumption, LengthAssumption DEF HistoryTyped, HistoryTypeOK, Moments

\* An outage is not in the future, and ends when it does or is open.
LEMMA SpansArePast ==
    ASSUME HistoryTyped, NEW o \in outages \cup staged \cup truth
    PROVE  /\ o \in Spans /\ o.from \in Moments /\ o.to \in Moments \cup {Open}
           /\ ~IsOpen(o) => o.to \in Moments
           /\ o.check = "c"
BY DEF HistoryTyped, HistoryTypeOK, Spans, Moments, IsOpen

LEMMA OutageIs ==
    ASSUME NEW from, NEW to
    PROVE  Outage(from, to).from = from /\ Outage(from, to).to = to
BY DEF Outage

LEMMA RecordsOutages ==
    ASSUME HistoryTyped, NEW S \in {outages, truth}, NEW old \in CheckStatuses, NEW new \in CheckStatuses,
           OneOpen(S), \A o \in S : IsOpen(o) => old = "DOWN"
    PROVE  /\ \A o \in RecordOutage(S, old, new) :
                 o \in Spans /\ o.from \in Moments /\ o.to \in Moments \cup {Open}
           /\ OneOpen(RecordOutage(S, old, new))
           /\ \A o \in RecordOutage(S, old, new) : IsOpen(o) => new = "DOWN"
           /\ old = "DOWN" /\ new = "DOWN" => RecordOutage(S, old, new) = S
           /\ new # "DOWN" /\ old # "DOWN" => RecordOutage(S, old, new) = S
           /\ new = "DOWN" /\ old # "DOWN" => RecordOutage(S, old, new) = S \cup {Outage(time, Open)}
           /\ old = "DOWN" /\ new # "DOWN" =>
                RecordOutage(S, old, new) = {IF IsOpen(o) THEN Outage(o.from, time) ELSE o : o \in S}
<1>1. \A o \in S : o \in Spans /\ o.from \in Moments /\ o.to \in Moments \cup {Open}
  BY SpansArePast
<1>2. time \in Moments /\ time # Open /\ Moments \subseteq 0 .. Open /\ Open \in Nat
  BY TimeIsFinite DEF Moments
<1>3. CASE new = "DOWN" /\ old # "DOWN"
  <2>1. \A o \in S : ~IsOpen(o)
    BY <1>3
  <2>2. RecordOutage(S, old, new) = S \cup {Outage(time, Open)}
    BY <1>3, <2>1 DEF RecordOutage
  <2>3. Outage(time, Open) \in Spans
    BY <1>2 DEF Outage, Spans, Moments
  <2> QED BY <1>1, <1>2, <1>3, <2>1, <2>2, <2>3, OutageIs DEF OneOpen
<1>4. CASE old = "DOWN" /\ new # "DOWN"
  <2>1. RecordOutage(S, old, new) = {IF IsOpen(o) THEN Outage(o.from, time) ELSE o : o \in S}
    BY <1>4 DEF RecordOutage
  <2>2. \A o \in S : Outage(o.from, time) \in Spans
    BY <1>1, <1>2 DEF Outage, Spans, Moments
  <2>3. \A o \in S : ~IsOpen(Outage(o.from, time))
    BY <1>2, OutageIs DEF IsOpen
  <2>4. ASSUME NEW p \in RecordOutage(S, old, new)
        PROVE  p \in Spans /\ p.from \in Moments /\ p.to \in Moments \cup {Open} /\ ~IsOpen(p)
    <3>1. PICK o \in S : p = IF IsOpen(o) THEN Outage(o.from, time) ELSE o
      BY <2>1
    <3> QED BY <3>1, <1>1, <1>2, <2>2, <2>3, OutageIs
  <2> QED BY <1>4, <2>1, <2>4 DEF OneOpen
<1>5. CASE (new # "DOWN" /\ old # "DOWN") \/ (old = "DOWN" /\ new = "DOWN")
  <2>1. RecordOutage(S, old, new) = S
    BY <1>5 DEF RecordOutage
  <2> QED BY <1>1, <1>5, <2>1
<1> QED BY <1>3, <1>4, <1>5

\* Outages that are apart stay apart.
LEMMA RecordsApart ==
    ASSUME HistoryTyped, NEW S \in {outages, truth}, NEW old \in CheckStatuses, NEW new \in CheckStatuses,
           OneOpen(S), \A o \in S : IsOpen(o) => old = "DOWN",
           \A o, p \in S : o # p => o.to <= p.from \/ p.to <= o.from
    PROVE  \A o, p \in RecordOutage(S, old, new) : o # p => o.to <= p.from \/ p.to <= o.from
<1>1. \A o \in S : o \in Spans /\ o.from \in Moments /\ o.to \in Moments \cup {Open} /\ (~IsOpen(o) => o.to \in Moments)
  BY SpansArePast
<1>2. time \in Nat /\ time < Open /\ Open \in Nat
  BY TimeIsFinite
<1>3. CASE new = "DOWN" /\ old # "DOWN"
  <2>1. RecordOutage(S, old, new) = S \cup {Outage(time, Open)}
    BY <1>3, RecordsOutages
  <2>2. \A o \in S : o.to <= time
    BY <1>1, <1>2, <1>3 DEF Moments
  <2> QED BY <2>1, <2>2, OutageIs
<1>4. CASE old = "DOWN" /\ new # "DOWN"
  <2>1. RecordOutage(S, old, new) = {IF IsOpen(o) THEN Outage(o.from, time) ELSE o : o \in S}
    BY <1>4, RecordsOutages
  <2> SUFFICES ASSUME NEW o \in RecordOutage(S, old, new), NEW p \in RecordOutage(S, old, new), o # p
               PROVE  o.to <= p.from \/ p.to <= o.from
    OBVIOUS
  <2>2. PICK u \in S : o = IF IsOpen(u) THEN Outage(u.from, time) ELSE u
    BY <2>1
  <2>3. PICK v \in S : p = IF IsOpen(v) THEN Outage(v.from, time) ELSE v
    BY <2>1
  <2>4. u # v
    BY <2>2, <2>3
  <2>5. u.to <= v.from \/ v.to <= u.from
    BY <2>4
  <2>6. o.from = u.from /\ p.from = v.from
    BY <2>2, <2>3, OutageIs
  <2>7. u.from <= time /\ v.from <= time /\ u.from \in Nat /\ v.from \in Nat /\ u.to \in Nat /\ v.to \in Nat
    BY <1>1, <1>2 DEF Moments
  <2>8. u.to <= v.from => o.to <= p.from
    <3>1. u.to <= v.from => ~IsOpen(u)
      BY <1>2, <2>7 DEF IsOpen
    <3> QED BY <2>2, <2>6, <3>1
  <2>9. v.to <= u.from => p.to <= o.from
    <3>1. v.to <= u.from => ~IsOpen(v)
      BY <1>2, <2>7 DEF IsOpen
    <3> QED BY <2>3, <2>6, <3>1
  <2> QED BY <2>5, <2>8, <2>9
<1>5. CASE (new # "DOWN" /\ old # "DOWN") \/ (old = "DOWN" /\ new = "DOWN")
  BY <1>5, RecordsOutages
<1> QED BY <1>3, <1>4, <1>5

\* The trigger and the truth do not disagree.
LEMMA RecordsOfTruth ==
    ASSUME HistoryTyped, OneOpen(outages), OneOpen(truth), outages \subseteq truth,
           NEW old \in CheckStatuses, NEW new \in CheckStatuses,
           \A o \in truth : IsOpen(o) => old = "DOWN"
    PROVE  RecordOutage(outages, old, new) \subseteq RecordOutage(truth, old, new)
<1>1. \A o \in outages : IsOpen(o) => old = "DOWN"
  OBVIOUS
<1>2. CASE new = "DOWN" /\ old # "DOWN"
  BY <1>1, <1>2, RecordsOutages
<1>3. CASE old = "DOWN" /\ new # "DOWN"
  <2>1. RecordOutage(outages, old, new) = {IF IsOpen(o) THEN Outage(o.from, time) ELSE o : o \in outages}
    BY <1>1, <1>3, RecordsOutages
  <2>2. RecordOutage(truth, old, new) = {IF IsOpen(o) THEN Outage(o.from, time) ELSE o : o \in truth}
    BY <1>3, RecordsOutages
  <2> QED BY <2>1, <2>2
<1>4. CASE (new # "DOWN" /\ old # "DOWN") \/ (old = "DOWN" /\ new = "DOWN")
  BY <1>1, <1>4, RecordsOutages
<1> QED BY <1>2, <1>3, <1>4

-----------------------------------------------------------------------------
(* What a write does to the history *)

Sound == HistoryTyped /\ PhaseInOrder /\ OpenInOrder /\ Disjoint

LEMMA WriteRecords ==
    ASSUME Sound, WriteStep
    PROVE  /\ row.status \in CheckStatuses /\ row'.status \in CheckStatuses
           /\ truth' = RecordOutage(truth, row.status, row'.status)
           /\ phase = "before" => outages' = outages
           /\ phase # "before" => outages' = RecordOutage(outages, row.status, row'.status)
           /\ OneOpen(truth) /\ OneOpen(outages)
           /\ \A o \in truth : IsOpen(o) => row.status = "DOWN"
           /\ \A o \in outages : IsOpen(o) => row.status = "DOWN"
BY DEF Sound, HistoryTyped, Rows, OpenInOrder, WriteStep, SetsStatus

LEMMA WriteTyped ==
    ASSUME Sound, WriteStep
    PROVE  HistoryTyped'
<1>1. time' = time /\ time \in Nat /\ phase' = phase /\ cutoff' = cutoff /\ staged' = staged /\ Moments' = Moments
  BY TimeIsFinite DEF Sound, WriteStep, Moments
<1>2. \A o \in outages' : o \in Spans /\ o.from \in Moments /\ o.to \in Moments \cup {Open}
  BY WriteRecords, RecordsOutages, SpansArePast DEF Sound
<1>3. \A o \in truth' : o \in Spans /\ o.from \in Moments /\ o.to \in Moments \cup {Open}
  BY WriteRecords, RecordsOutages DEF Sound
<1>4. \A o \in staged : o \in Spans /\ o.from \in Moments /\ o.to \in Moments \cup {Open}
  BY SpansArePast DEF Sound
<1>5. /\ events' \in Seq(Event) /\ plain' \in BOOLEAN
      /\ \A e \in ToSet(events') : e.at \in Moments /\ e.down \in BOOLEAN
      /\ row'.lastEventAt \in {NoEvent} \cup Moments
  <2>1. CASE EditStep
    BY <2>1 DEF EditStep, Sound, HistoryTyped, HistoryTypeOK, Moments
  <2>2. ASSUME NEW at \in Stamps, NEW down \in BOOLEAN, ReportStep(at, down)
        PROVE  /\ events' \in Seq(Event) /\ plain' \in BOOLEAN
               /\ \A e \in ToSet(events') : e.at \in Moments /\ e.down \in BOOLEAN
               /\ row'.lastEventAt \in {NoEvent} \cup Moments
    <3>1. at \in Moments /\ at \in Nat
      BY <1>1, StampsArePast DEF Moments
    <3>2. /\ events' \in Seq(Event) /\ plain' \in BOOLEAN
          /\ \A e \in ToSet(events') : e \in ToSet(events) \/ e = [at |-> at, down |-> down]
      BY <2>2, <3>1, LogsInsert DEF ReportStep, Sound, HistoryTyped
    <3>3. \A e \in ToSet(events) : e.at \in Moments /\ e.down \in BOOLEAN
      BY DEF Sound, HistoryTyped, HistoryTypeOK, Moments
    <3>4. row'.lastEventAt \in {NoEvent} \cup Moments
      BY <2>2, <3>1 DEF ReportStep, Sound, HistoryTyped, HistoryTypeOK, Moments
    <3> QED BY <3>1, <3>2, <3>3, <3>4
  <2> QED BY <2>1, <2>2 DEF WriteStep
<1>6. HistoryTypeOK'
  <2>1. row'.status \in CheckStatuses /\ row'.heartbeat \in BOOLEAN
    BY DEF WriteStep, Rows
  <2>2. row'.updatedAt \in 0 .. time
    BY <1>1 DEF WriteStep
  <2>3. view'.pc \in {"none", "checks", "outages", "done"} /\ writes' \in 0 .. MaxWrites
    BY LengthAssumption DEF WriteStep, SetsStatus, Sound, HistoryTyped, HistoryTypeOK
  <2>4. phase \in Phases /\ cutoff \in 0 .. time /\ time \in 0 .. MaxTime
    BY DEF Sound, HistoryTyped, HistoryTypeOK
  <2> QED BY <1>1, <1>2, <1>3, <1>4, <1>5, <2>1, <2>2, <2>3, <2>4 DEF HistoryTypeOK, Moments
<1>7. row' \in Rows /\ view' \in Views
  <2>1. view' = view /\ view \in Views
    BY DEF WriteStep, SetsStatus, Sound, HistoryTyped
  <2> QED BY <2>1 DEF WriteStep, Views
<1>8. (staged' # {} => phase' = "staged") /\ \A s \in staged' : s.from < cutoff'
  BY <1>1 DEF Sound, HistoryTyped
<1>9. outages' \cup staged' \cup truth' \subseteq Spans
  BY <1>1, <1>2, <1>3, <1>4
<1> QED BY <1>5, <1>6, <1>7, <1>8, <1>9 DEF HistoryTyped

LEMMA WriteOpens ==
    ASSUME Sound, WriteStep
    PROVE  OpenInOrder'
<1>1. OneOpen(truth') /\ \A o \in truth' : IsOpen(o) => row'.status = "DOWN"
  BY WriteRecords, RecordsOutages DEF Sound
<1>2. OneOpen(outages') /\ \A o \in outages' : IsOpen(o) => row'.status = "DOWN"
  <2>1. CASE phase = "before"
    BY <2>1, WriteRecords DEF Sound, PhaseInOrder, OneOpen
  <2>2. CASE phase # "before"
    BY <2>2, WriteRecords, RecordsOutages DEF Sound
  <2> QED BY <2>1, <2>2
<1>3. row'.status = "DOWN" => \E o \in truth' : IsOpen(o)
  <2> SUFFICES ASSUME row'.status = "DOWN" PROVE \E o \in truth' : IsOpen(o)
    OBVIOUS
  <2>1. CASE row.status = "DOWN"
    <3>1. truth' = truth
      BY <2>1, WriteRecords, RecordsOutages DEF Sound
    <3> QED BY <2>1, <3>1 DEF Sound, OpenInOrder
  <2>2. CASE row.status # "DOWN"
    <3>1. truth' = truth \cup {Outage(time, Open)}
      BY <2>2, WriteRecords, RecordsOutages DEF Sound
    <3> QED BY <3>1, OutageIs DEF IsOpen
  <2> QED BY <2>1, <2>2
<1>4. OneOpen(staged')
  BY DEF WriteStep, Sound, OpenInOrder
<1> QED BY <1>1, <1>2, <1>3, <1>4 DEF OpenInOrder

LEMMA WritePhase ==
    ASSUME Sound, WriteStep
    PROVE  PhaseInOrder' /\ Disjoint'
<1>1. phase' = phase /\ cutoff' = cutoff /\ time' = time
  BY DEF WriteStep
<1>2. phase = "before" => outages' = {}
  BY WriteRecords DEF Sound, PhaseInOrder
<1>3. ASSUME phase # "done" PROVE outages' \subseteq truth' /\ \A o \in outages' : o.from >= cutoff
  <2>1. CASE phase = "before"
    BY <1>2, <2>1
  <2>2. CASE phase # "before"
    <3>1. outages \subseteq truth /\ \A o \in outages : o.from >= cutoff
      BY <1>3 DEF Sound, PhaseInOrder
    <3>2. outages' \subseteq truth'
      BY <2>2, <3>1, WriteRecords, RecordsOfTruth DEF Sound
    <3>3. \A o \in outages' : o.from >= cutoff
      <4>1. CASE row'.status = "DOWN" /\ row.status # "DOWN"
        <5>1. outages' = outages \cup {Outage(time, Open)}
          BY <2>2, <4>1, WriteRecords, RecordsOutages DEF Sound
        <5>2. time >= cutoff
          BY TimeIsFinite DEF Sound, Moments
        <5> QED BY <3>1, <5>1, <5>2, OutageIs
      <4>2. CASE row.status = "DOWN" /\ row'.status # "DOWN"
        <5>1. outages' = {IF IsOpen(o) THEN Outage(o.from, time) ELSE o : o \in outages}
          BY <2>2, <4>2, WriteRecords, RecordsOutages DEF Sound
        <5> QED BY <3>1, <5>1, OutageIs
      <4>3. CASE (row'.status # "DOWN" /\ row.status # "DOWN") \/ (row.status = "DOWN" /\ row'.status = "DOWN")
        <5>1. outages' = outages
          BY <2>2, <4>3, WriteRecords, RecordsOutages DEF Sound
        <5> QED BY <3>1, <5>1
      <4> QED BY <4>1, <4>2, <4>3
    <3> QED BY <3>2, <3>3
  <2> QED BY <2>1, <2>2
<1>4. ASSUME phase = "done", row'.status = "DOWN" PROVE Opened' # {}
  <2>1. CASE row.status = "DOWN"
    <3>1. outages' = outages
      BY <1>4, <2>1, WriteRecords, RecordsOutages DEF Sound
    <3> QED BY <1>4, <2>1, <3>1 DEF Sound, PhaseInOrder, Opened, IsOpen
  <2>2. CASE row.status # "DOWN"
    <3>1. outages' = outages \cup {Outage(time, Open)}
      BY <1>4, <2>2, WriteRecords, RecordsOutages DEF Sound
    <3> QED BY <3>1, OutageIs DEF Opened, IsOpen
  <2> QED BY <2>1, <2>2
<1>5. Disjoint'
  <2>1. ASSUME phase = "done"
        PROVE  \A o, p \in outages' : o # p => o.to <= p.from \/ p.to <= o.from
    <3>1. \A o, p \in outages : o # p => o.to <= p.from \/ p.to <= o.from
      BY <2>1 DEF Sound, Disjoint
    <3> QED BY <2>1, <3>1, WriteRecords, RecordsApart DEF Sound
  <2> QED BY <1>1, <2>1 DEF Disjoint
<1> QED BY <1>1, <1>2, <1>3, <1>4, <1>5 DEF PhaseInOrder

-----------------------------------------------------------------------------
(* The scan *)

EndOf(i) == Min({j \in DOMAIN events : j >= i /\ Ends(j)})

\* A streak has an end: the events up to it are DOWN.
LEMMA StreaksEnd ==
    ASSUME HistoryTyped, NEW i \in DOMAIN events, events[i].down
    PROVE  /\ EndOf(i) \in DOMAIN events /\ EndOf(i) >= i /\ Ends(EndOf(i))
           /\ \A j \in i .. EndOf(i) : j \in DOMAIN events /\ events[j].down
           /\ \A j \in i .. EndOf(i) - 1 : ~Ends(j)
<1>1. Len(events) \in Nat /\ DOMAIN events = 1 .. Len(events)
  BY TimeIsFinite
<1> DEFINE U == {k \in DOMAIN events : k > i /\ ~events[k].down}
           E == {j \in DOMAIN events : j >= i /\ Ends(j)}
<1>2. \E m \in E : \A j \in i .. m : j \in DOMAIN events /\ events[j].down
  <2>1. CASE U = {}
    <3>1. \A j \in i .. Len(events) : j \in DOMAIN events /\ events[j].down
      BY <1>1, <2>1
    <3>2. Len(events) \in E
      BY <1>1, <3>1 DEF Ends
    <3> QED BY <3>1, <3>2
  <2>2. CASE U # {}
    <3>1. U \in SUBSET Nat
      BY <1>1
    <3>2. Min(U) \in U /\ \A k \in U : Min(U) <= k
      BY <2>2, <3>1, TheLeast
    <3> DEFINE k == Min(U)
    <3>3. k \in DOMAIN events /\ k > i /\ ~events[k].down
      BY <3>2
    <3>4. \A j \in i .. k - 1 : j \in DOMAIN events /\ events[j].down
      <4> SUFFICES ASSUME NEW j \in i .. k - 1 PROVE j \in DOMAIN events /\ events[j].down
        OBVIOUS
      <4>1. j \in DOMAIN events
        BY <1>1, <3>3
      <4>2. j \notin U
        <5> SUFFICES ASSUME j \in U PROVE FALSE
          OBVIOUS
        <5>1. k <= j
          BY <3>2
        <5>2. k \in Nat /\ j \in Nat /\ j <= k - 1
          BY <1>1, <3>3
        <5> QED BY <5>1, <5>2
      <4>3. j = i \/ j > i
        BY <1>1
      <4> QED BY <4>1, <4>2, <4>3
    <3> HIDE DEF k
    <3>5. k - 1 \in DOMAIN events /\ k - 1 >= i /\ events[k - 1].down /\ (k - 1) + 1 = k
      BY <1>1, <3>3, <3>4
    <3>6. Ends(k - 1)
      BY <3>3, <3>5 DEF Ends
    <3> QED BY <3>4, <3>5, <3>6
  <2> QED BY <2>1, <2>2
<1>3. E \in SUBSET Nat /\ E # {}
  BY <1>1, <1>2
<1>4. Min(E) \in E /\ \A j \in E : Min(E) <= j
  BY <1>3, TheLeast
<1>5. EndOf(i) = Min(E)
  BY DEF EndOf
<1> HIDE DEF E
<1>6. PICK m \in E : \A j \in i .. m : j \in DOMAIN events /\ events[j].down
  BY <1>2
<1>7. m \in Nat /\ EndOf(i) \in Nat /\ EndOf(i) <= m
  BY <1>3, <1>4, <1>5
<1>8. \A j \in i .. EndOf(i) : j \in i .. m
  BY <1>1, <1>7
<1>9. EndOf(i) \in DOMAIN events /\ EndOf(i) >= i /\ Ends(EndOf(i))
  BY <1>4, <1>5 DEF E
<1>10. \A j \in i .. EndOf(i) - 1 : ~Ends(j)
  <2> SUFFICES ASSUME NEW j \in i .. EndOf(i) - 1, Ends(j) PROVE FALSE
    OBVIOUS
  <2>1. j \in DOMAIN events /\ j >= i
    BY <1>1, <1>6, <1>7, <1>8
  <2>2. EndOf(i) <= j
    BY <1>4, <1>5, <2>1 DEF E
  <2> QED BY <1>7, <2>2
<1> QED BY <1>6, <1>8, <1>9, <1>10

LEMMA EndsAre ==
    ASSUME HistoryTyped, NEW j \in DOMAIN events
    PROVE  /\ EndAfter(j) \in Moments \cup {Open}
           /\ EndAfter(j) = Open <=> j = Len(events)
<1>1. /\ time \in Nat /\ time < Open /\ Open \in Nat
      /\ Len(events) \in Nat /\ DOMAIN events = 1 .. Len(events)
      /\ \A i \in DOMAIN events : events[i].at \in Moments
      /\ Interval \in Nat /\ MinGap \in Nat
  BY TimeIsFinite
<1>2. CASE j = Len(events)
  BY <1>1, <1>2 DEF EndAfter
<1>3. CASE j # Len(events)
  <2>1. j + 1 \in DOMAIN events
    BY <1>1, <1>3
  <2>2. events[j].at \in Moments /\ events[j + 1].at \in Moments
    BY <1>1, <2>1
  <2>3. Gap(events[j], events[j + 1]) => events[j].at + Interval \in Moments
    <3>1. Max({3 * Interval, MinGap}) >= 3 * Interval /\ Max({3 * Interval, MinGap}) \in Int
      <4>1. 3 * Interval \in Int /\ MinGap \in Int
        BY <1>1
      <4> QED BY <4>1, MaxOfTwo
    <3> QED BY <1>1, <2>2, <3>1 DEF Gap, Moments
  <2>4. Open \notin Moments
    BY <1>1 DEF Moments
  <2> QED BY <1>3, <2>2, <2>3, <2>4 DEF EndAfter
<1> QED BY <1>2, <1>3

LEMMA StreaksAre ==
    ASSUME NEW s \in Streaks
    PROVE  \E i \in DOMAIN events : Begins(i) /\ s = Outage(events[i].at, EndAfter(EndOf(i)))
BY DEF Streaks, EndOf

\* One streak of events lasts, at most.
LEMMA OneStreakLasts ==
    ASSUME HistoryTyped
    PROVE  OneOpen(Streaks)
<1>1. Len(events) \in Nat /\ DOMAIN events = 1 .. Len(events)
  BY TimeIsFinite
<1>2. ASSUME NEW i \in DOMAIN events, NEW j \in DOMAIN events, Begins(i), Begins(j),
             EndOf(i) = Len(events), i < j
      PROVE  FALSE
  <2>1. j - 1 \in i .. EndOf(i) - 1 /\ j # 1 /\ j - 1 \in DOMAIN events /\ (j - 1) + 1 = j /\ j - 1 # Len(events)
    BY <1>1, <1>2
  <2>2. events[j - 1].down /\ ~Ends(j - 1)
    BY <1>1, <1>2, <2>1, StreaksEnd DEF Begins
  <2>3. Gap(events[j - 1], events[j])
    BY <1>2, <2>1, <2>2 DEF Begins
  <2> QED BY <2>1, <2>2, <2>3 DEF Ends
<1>3. ASSUME NEW o \in Streaks, NEW p \in Streaks, IsOpen(o), IsOpen(p) PROVE o = p
  <2>1. PICK i \in DOMAIN events : Begins(i) /\ o = Outage(events[i].at, EndAfter(EndOf(i)))
    BY StreaksAre
  <2>2. PICK j \in DOMAIN events : Begins(j) /\ p = Outage(events[j].at, EndAfter(EndOf(j)))
    BY StreaksAre
  <2>3. EndOf(i) \in DOMAIN events /\ EndOf(j) \in DOMAIN events
    BY <2>1, <2>2, StreaksEnd DEF Begins
  <2>4. EndAfter(EndOf(i)) = Open /\ EndAfter(EndOf(j)) = Open
    BY <1>3, <2>1, <2>2, OutageIs DEF IsOpen
  <2>5. EndOf(i) = Len(events) /\ EndOf(j) = Len(events)
    BY <2>3, <2>4, EndsAre
  <2>6. ~(i < j) /\ ~(j < i)
    BY <1>2, <2>1, <2>2, <2>5
  <2>7. i = j
    BY <1>1, <2>6
  <2> QED BY <2>1, <2>2, <2>7
<1> QED BY <1>3 DEF OneOpen

LEMMA StreaksTyped ==
    ASSUME HistoryTyped, NEW s \in Streaks
    PROVE  s \in Spans /\ s.from \in Moments /\ s.to \in Moments \cup {Open}
<1>1. PICK i \in DOMAIN events : Begins(i) /\ s = Outage(events[i].at, EndAfter(EndOf(i)))
  BY StreaksAre
<1>2. events[i].at \in Moments /\ EndAfter(EndOf(i)) \in Moments \cup {Open}
  BY <1>1, StreaksEnd, EndsAre, TimeIsFinite DEF Begins
<1>3. Moments \subseteq 0 .. Open /\ Moments \subseteq Nat /\ Open \in 0 .. Open
  BY TimeIsFinite DEF Moments
<1>4. s.from = events[i].at /\ s.to = EndAfter(EndOf(i))
  BY <1>1, OutageIs
<1>5. s \in Spans
  BY <1>1, <1>2, <1>3 DEF Outage, Spans
<1> QED BY <1>2, <1>4, <1>5

-----------------------------------------------------------------------------
(* The merge *)

Finished == {s \in staged : ~IsOpen(s)}
Unfinished == UNION {Resolved(u) : u \in staged \ Finished}

LEMMA InsertedIs == Inserted = Completed(outages \cup Finished \cup Unfinished)
BY DEF Inserted, Finished, Unfinished

\* What becomes of a streak without an end.
LEMMA ResolvesTo ==
    ASSUME HistoryTyped, NEW u \in staged
    PROVE  \/ /\ Recoveries(u) # {}
              /\ \E e \in Recoveries(u) : 
                    /\ \A f \in Recoveries(u) : e.at <= f.at
                    /\ Resolved(u) = {Outage(u.from, e.at)}
           \/ Recoveries(u) = {} /\ row.status # "DOWN" /\ Resolved(u) = {Outage(u.from, row.updatedAt)}
           \/ Recoveries(u) = {} /\ row.status = "DOWN" /\ (\E o \in outages : IsOpen(o)) /\ Resolved(u) = {}
           \/ Recoveries(u) = {} /\ row.status = "DOWN" /\ (\A o \in outages : ~IsOpen(o)) /\ Resolved(u) = {u}
<1>1. CASE Recoveries(u) # {}
  <2> DEFINE F == {e.at : e \in Recoveries(u)}
  <2>1. F \in SUBSET Nat /\ F # {}
    BY <1>1 DEF Recoveries, HistoryTyped, HistoryTypeOK
  <2>2. Min(F) \in F /\ \A x \in F : Min(F) <= x
    BY <2>1, TheLeast
  <2>3. PICK e \in Recoveries(u) : e.at = Min(F)
    BY <2>2
  <2>4. \A f \in Recoveries(u) : e.at <= f.at
    BY <2>2, <2>3
  <2>5. Resolved(u) = {Outage(u.from, e.at)}
    BY <1>1, <2>3 DEF Resolved
  <2> QED BY <1>1, <2>4, <2>5
<1>2. CASE Recoveries(u) = {} /\ row.status # "DOWN"
  BY <1>2 DEF Resolved
<1>3. CASE Recoveries(u) = {} /\ row.status = "DOWN" /\ \E o \in outages : IsOpen(o)
  BY <1>3 DEF Resolved
<1>4. CASE Recoveries(u) = {} /\ row.status = "DOWN" /\ ~\E o \in outages : IsOpen(o)
  BY <1>4 DEF Resolved
<1> QED BY <1>1, <1>2, <1>3, <1>4

LEMMA ResolvedTyped ==
    ASSUME HistoryTyped, NEW u \in staged, NEW o \in Resolved(u)
    PROVE  /\ o.from = u.from /\ o.check = "c"
           /\ o.from \in Moments /\ o.to \in Moments \cup {Open}
           /\ o \in Spans
           /\ IsOpen(o) => /\ o = u /\ Recoveries(u) = {}
                           /\ row.status = "DOWN" /\ \A p \in outages : ~IsOpen(p)
<1>1. u \in Spans /\ u.from \in Moments /\ u.to \in Moments \cup {Open} /\ u.check = "c"
  BY SpansArePast
<1>2. Moments \subseteq 0 .. Open /\ Moments \subseteq Nat /\ Open \in 0 .. Open /\ Open \notin Moments
  BY TimeIsFinite DEF Moments
<1>3. ASSUME NEW end \in Moments, o = Outage(u.from, end)
      PROVE  o.from = u.from /\ o.check = "c" /\ o.to = end /\ o \in Spans /\ ~IsOpen(o)
  BY <1>1, <1>2, <1>3 DEF Outage, Spans, IsOpen
<1>4. row.updatedAt \in Moments
  BY DEF HistoryTyped, HistoryTypeOK, Moments
<1>5. \A e \in Recoveries(u) : e.at \in Moments
  BY DEF HistoryTyped, HistoryTypeOK, Moments, Recoveries
<1>6. CASE Recoveries(u) # {}
  <2>1. PICK e \in Recoveries(u) : Resolved(u) = {Outage(u.from, e.at)}
    BY <1>6, ResolvesTo
  <2>2. e.at \in Moments /\ o = Outage(u.from, e.at)
    BY <1>5, <2>1
  <2> QED BY <1>1, <1>3, <2>2
<1>7. CASE Recoveries(u) = {} /\ row.status # "DOWN"
  <2>1. o = Outage(u.from, row.updatedAt)
    BY <1>7, ResolvesTo
  <2> QED BY <1>1, <1>3, <1>4, <2>1
<1>8. CASE Recoveries(u) = {} /\ row.status = "DOWN"
  <2>1. o = u /\ \A p \in outages : ~IsOpen(p)
    BY <1>8, ResolvesTo
  <2> QED BY <1>1, <1>8, <2>1
<1> QED BY <1>6, <1>7, <1>8

\* What is inserted: outages of before, one of them open if and only if the check is DOWN.
LEMMA InsertedSound ==
    ASSUME Sound
    PROVE  /\ \A o \in Inserted : o \in Spans /\ o.from \in Moments /\ o.to \in Moments \cup {Open}
           /\ OneOpen(Inserted)
           /\ row.status = "DOWN" <=> \E o \in Inserted : IsOpen(o)
<1> DEFINE S == outages \cup Finished \cup Unfinished
<1>1. \A o \in outages \cup Finished : o \in Spans /\ o.from \in Moments /\ o.to \in Moments \cup {Open}
  BY SpansArePast DEF Sound, Finished
<1>2. \A o \in Unfinished : \E u \in staged : ~(u \in Finished) /\ o \in Resolved(u)
  BY DEF Unfinished
<1>3. \A o \in S : o \in Spans /\ o.from \in Moments /\ o.to \in Moments \cup {Open}
  BY <1>1, <1>2, ResolvedTyped DEF Sound
<1>4. ASSUME NEW o \in Unfinished, IsOpen(o)
      PROVE  o \in staged /\ row.status = "DOWN" /\ \A p \in outages : ~IsOpen(p)
  BY <1>2, <1>4, ResolvedTyped DEF Sound
<1>5. \A o \in S : IsOpen(o) => row.status = "DOWN"
  BY <1>4 DEF Sound, OpenInOrder, Finished
<1>6. OneOpen(S)
  <2>1. OneOpen(outages) /\ OneOpen(staged)
    BY DEF Sound, OpenInOrder
  <2>2. \A o \in Finished : ~IsOpen(o)
    BY DEF Finished
  <2> QED BY <1>4, <2>1, <2>2 DEF OneOpen
<1>7. Inserted = Completed(S)
  BY InsertedIs
<1> HIDE DEF S
<1>8. CASE row.status = "DOWN" /\ ~\E o \in S : IsOpen(o)
  <2> DEFINE from == IF row.lastEventAt # NoEvent THEN row.lastEventAt ELSE row.updatedAt
  <2>1. Inserted = S \cup {Outage(from, Open)}
    BY <1>7, <1>8 DEF Completed
  <2>2. from \in Moments
    BY DEF Sound, HistoryTyped, HistoryTypeOK, Moments
  <2> HIDE DEF from
  <2>3. Outage(from, Open) \in Spans
    BY <2>2, TimeIsFinite DEF Sound, Outage, Spans, Moments
  <2>4. IsOpen(Outage(from, Open))
    BY OutageIs DEF IsOpen
  <2> QED BY <1>3, <1>8, <2>1, <2>2, <2>3, <2>4, OutageIs DEF OneOpen
<1>9. CASE ~(row.status = "DOWN" /\ ~\E o \in S : IsOpen(o))
  <2>1. Inserted = S
    BY <1>7, <1>9 DEF Completed
  <2> QED BY <1>3, <1>5, <1>6, <1>9, <2>1
<1> QED BY <1>8, <1>9

LEMMA MergeSound ==
    ASSUME Sound, Merges
    PROVE  Sound'
<1>1. /\ outages' = Islands(Inserted) /\ staged' = {} /\ phase' = "done"
      /\ UNCHANGED <<time, row, events, cutoff, writes, truth, plain, view>>
  BY DEF Merges
<1>2. Inserted \in SUBSET Spans /\ OneOpen(Inserted)
  BY InsertedSound
<1>3. \A o \in outages' : o \in Spans /\ o.from \in Moments /\ o.to \in Moments \cup {Open}
  <2> SUFFICES ASSUME NEW I \in Islands(Inserted)
               PROVE  I \in Spans /\ I.from \in Moments /\ I.to \in Moments \cup {Open}
    BY <1>1
  <2>1. PICK o \in IslandAt(Inserted, I.from) : o.to = I.to
    BY <1>2, IslandsEnd
  <2>2. PICK p \in IslandAt(Inserted, I.from) : p.from = I.from
    BY <1>2, IslandsEnd
  <2>3. o \in Inserted /\ p \in Inserted /\ I \in Spans
    BY <1>2, <2>1, <2>2, IslandsEnd DEF IslandAt
  <2> QED BY <2>1, <2>2, <2>3, InsertedSound
<1>4. HistoryTyped'
  <2>1. \A o \in truth : o \in Spans /\ o.from \in Moments /\ o.to \in Moments \cup {Open}
    BY SpansArePast DEF Sound
  <2>2. outages' \cup staged' \cup truth' \subseteq Spans
    BY <1>1, <1>3, <2>1
  <2>3. HistoryTypeOK'
    BY <1>1, <1>3, <2>1 DEF Sound, HistoryTyped, HistoryTypeOK, Moments, Phases
  <2> QED BY <1>1, <2>2, <2>3 DEF Sound, HistoryTyped
<1>5. OneOpen(outages') /\ (row.status = "DOWN" <=> \E o \in outages' : IsOpen(o))
  <2>1. OneOpen(Islands(Inserted))
    BY <1>2, OpenIslands
  <2>2. (\E o \in Inserted : IsOpen(o)) => \E I \in Islands(Inserted) : IsOpen(I)
    BY <1>2, OpenIslands
  <2>3. (\E I \in Islands(Inserted) : IsOpen(I)) => \E o \in Inserted : IsOpen(o)
    BY <1>2, OpenIslands DEF IslandAt
  <2> QED BY <1>1, <2>1, <2>2, <2>3, InsertedSound
<1>6. OpenInOrder'
  BY <1>1, <1>5 DEF Sound, OpenInOrder, OneOpen
<1>7. PhaseInOrder'
  BY <1>1, <1>5 DEF PhaseInOrder, Opened
<1>8. Disjoint'
  <2>1. \A I, J \in Islands(Inserted) : I # J => I.to <= J.from \/ J.to <= I.from
    BY <1>2, IslandsDisjoint
  <2> QED BY <1>1, <2>1 DEF Disjoint
<1> QED BY <1>4, <1>6, <1>7, <1>8 DEF Sound

-----------------------------------------------------------------------------
(* The other steps *)

LEMMA QuietSound ==
    ASSUME Sound,
           UNCHANGED <<row, events, outages, truth, plain, writes>>,
           time' \in time .. MaxTime, cutoff' \in 0 .. time, phase' \in Phases,
           view' \in Views,
           phase' = "done" <=> phase = "done", phase' = "before" => phase = "before",
           phase = "before" \/ cutoff' = cutoff,
           staged' \subseteq staged \cup Streaks, OneOpen(staged'),
           staged' # {} => phase' = "staged", \A s \in staged' : s.from < cutoff'
    PROVE  Sound'
<1>1. time \in Nat /\ time' \in Nat /\ Moments \subseteq 0 .. time' /\ 0 .. time \subseteq 0 .. time'
  BY TimeIsFinite DEF Sound, Moments
<1>2. \A o \in outages' \cup staged' \cup truth' : o \in Spans /\ o.from \in Moments /\ o.to \in Moments \cup {Open}
  BY SpansArePast, StreaksTyped DEF Sound
<1>3. HistoryTypeOK'
  <2>1. row'.lastEventAt \in {NoEvent} \cup 0 .. time' /\ row'.updatedAt \in 0 .. time'
    BY <1>1 DEF Sound, HistoryTyped, HistoryTypeOK
  <2>2. \A e \in ToSet(events') : e.at \in 0 .. time' /\ e.down \in BOOLEAN
    BY <1>1 DEF Sound, HistoryTyped, HistoryTypeOK
  <2>3. \A o \in outages' \cup staged' \cup truth' : o.from \in 0 .. time' /\ o.to \in (0 .. time') \cup {Open}
    BY <1>1, <1>2
  <2>4. cutoff' \in 0 .. time' /\ time' \in 0 .. MaxTime
    BY <1>1
  <2> QED BY <2>1, <2>2, <2>3, <2>4 DEF Sound, HistoryTyped, HistoryTypeOK, Views
<1>4. HistoryTyped'
  BY <1>2, <1>3 DEF Sound, HistoryTyped
<1>5. OpenInOrder'
  BY DEF Sound, OpenInOrder, OneOpen
<1>6. PhaseInOrder'
  <2>1. phase' # "done" => outages' \subseteq truth' /\ \A o \in outages' : o.from >= cutoff'
    BY DEF Sound, PhaseInOrder
  <2>2. phase' = "done" /\ row'.status = "DOWN" => Opened' # {}
    BY DEF Sound, PhaseInOrder, Opened
  <2>3. phase' = "before" => outages' = {}
    BY DEF Sound, PhaseInOrder
  <2> QED BY <2>1, <2>2, <2>3 DEF PhaseInOrder
<1>7. Disjoint'
  BY DEF Sound, Disjoint
<1> QED BY <1>4, <1>5, <1>6, <1>7 DEF Sound

LEMMA SoundBegins ==
    ASSUME HistoryInit
    PROVE  Sound
<1>1. MaxTime \in Nat /\ MaxWrites \in Nat /\ Interval \in Nat
  BY LengthAssumption
<1>2. row \in Rows
  BY <1>1 DEF HistoryInit, Rows, CheckStatuses
<1>3. HistoryTypeOK
  BY <1>1, <1>2 DEF HistoryInit, HistoryTypeOK, CheckStatuses, Phases, NoView, ToSet
<1>4. HistoryTyped
  <2>1. view \in Views
    BY DEF HistoryInit, NoView, Views
  <2> QED BY <2>1, <1>2, <1>3 DEF HistoryInit, HistoryTyped
<1>5. PhaseInOrder /\ OpenInOrder /\ Disjoint
  BY DEF HistoryInit, PhaseInOrder, OpenInOrder, OneOpen, Disjoint
<1> QED BY <1>4, <1>5 DEF Sound

LEMMA SoundStays ==
    ASSUME Sound, [HistoryNext]_historyVars
    PROVE  Sound'
<1>1. /\ time \in 0 .. MaxTime /\ time \in Nat /\ MaxTime \in Nat /\ cutoff \in 0 .. time /\ phase \in Phases
      /\ view \in Views
      /\ OneOpen(staged) /\ (staged # {} => phase = "staged") /\ \A s \in staged : s.from < cutoff
  BY TimeIsFinite DEF Sound, HistoryTyped, HistoryTypeOK, OpenInOrder
<1>2. CASE Writers
  <2>1. WriteStep
    BY <1>2, WritersWrite DEF Sound
  <2> QED BY <2>1, WriteTyped, WriteOpens, WritePhase DEF Sound
<1>3. CASE TimePasses
  BY <1>1, <1>3, QuietSound DEF TimePasses, migration
<1>4. CASE Installs
  <2>1. staged = {}
    BY <1>1, <1>4 DEF Installs
  <2> QED BY <1>1, <1>4, <2>1, QuietSound DEF Installs, Phases
<1>5. CASE Scans
  <2>1. staged' \subseteq Streaks /\ \A s \in staged' : s.from < cutoff
    BY <1>5 DEF Scans
  <2>2. OneOpen(staged')
    BY <2>1, OneStreakLasts DEF OneOpen, Sound
  <2> QED BY <1>1, <1>5, <2>1, <2>2, QuietSound DEF Scans, Phases
<1>6. CASE RollsBack
  <2>1. staged' = {} /\ OneOpen(staged')
    BY <1>6 DEF RollsBack, OneOpen
  <2> QED BY <1>1, <1>6, <2>1, QuietSound DEF RollsBack, Phases
<1>7. CASE Merges
  BY <1>7, MergeSound
<1>8. CASE Reader
  <2>1. UNCHANGED <<time, row, events, outages, migration, writes, truth, plain>>
    BY <1>8 DEF Reader, Asks, ReadsChecks, ReadsOutages
  <2>2. view' \in Views
    <3>1. view \in Views /\ row \in Rows /\ {o \in outages : Overlaps(o, view.now, view.now - Period)} \in SUBSET Spans
      BY DEF Sound, HistoryTyped
    <3>2. CASE Asks
      BY <1>1, <3>1, <3>2 DEF Asks, Views
    <3>3. CASE ReadsChecks
      BY <3>1, <3>3 DEF ReadsChecks, Views
    <3>4. CASE ReadsOutages
      BY <1>1, <3>1, <3>4 DEF ReadsOutages, Views
    <3> QED BY <1>8, <3>2, <3>3, <3>4 DEF Reader
  <2> QED BY <1>1, <2>1, <2>2, QuietSound DEF migration
<1>9. CASE UNCHANGED historyVars
  BY <1>1, <1>9, QuietSound DEF historyVars
<1> QED BY <1>2, <1>3, <1>4, <1>5, <1>6, <1>7, <1>8, <1>9 DEF HistoryNext, Migrates

-----------------------------------------------------------------------------
(* Streaks of events *)

Increasing == \A i, j \in DOMAIN events : i < j => events[i].at < events[j].at

\* A DOWN event is part of a streak.
LEMMA StreakOf ==
    ASSUME HistoryTyped, NEW i \in DOMAIN events, events[i].down
    PROVE  \E b \in 1 .. i : StreakAt(b) /\ \A j \in b .. i : events[j].down
<1>1. Len(events) \in Nat /\ DOMAIN events = 1 .. Len(events)
  BY TimeIsFinite
<1> DEFINE B == {b \in 1 .. i : \A j \in b .. i : events[j].down}
<1>2. i \in B /\ B \in SUBSET Nat
  BY <1>1
<1>3. Min(B) \in B /\ \A c \in B : Min(B) <= c
  BY <1>2, TheLeast
<1>4. PICK b \in B : \A c \in B : b <= c
  BY <1>3
<1>5. b \in 1 .. i /\ \A j \in b .. i : events[j].down
  BY <1>4
<1>6. ASSUME b # 1, events[b - 1].down PROVE FALSE
  <2>1. b - 1 \in 1 .. i
    BY <1>1, <1>5, <1>6
  <2>2. \A j \in (b - 1) .. i : j = b - 1 \/ j \in b .. i
    BY <1>1, <1>5
  <2>3. b - 1 \in B
    BY <1>5, <1>6, <2>1, <2>2
  <2>4. b <= b - 1
    BY <1>4, <2>3
  <2> QED BY <1>1, <1>5, <2>4
<1>7. StreakAt(b)
  BY <1>1, <1>5, <1>6 DEF StreakAt
<1> QED BY <1>5, <1>7

\* One event is the last one stamped until t.
LEMMA LastUntil ==
    ASSUME HistoryTyped, NEW t \in Nat, NEW b \in DOMAIN events, events[b].at <= t
    PROVE  \E i \in DOMAIN events :
              i >= b /\ events[i].at <= t /\ (i = Len(events) \/ t < events[i + 1].at)
<1>1. /\ Len(events) \in Nat /\ DOMAIN events = 1 .. Len(events)
      /\ \A i \in DOMAIN events : events[i].at \in Nat
  BY TimeIsFinite DEF Moments
<1> DEFINE T == {i \in DOMAIN events : events[i].at <= t}
<1>2. b \in T /\ T \in SUBSET (0 .. Len(events))
  BY <1>1
<1>3. Max(T) \in T /\ \A i \in T : i <= Max(T)
  BY <1>1, <1>2, TheGreatest
<1>4. PICK i \in T : \A j \in T : j <= i
  BY <1>3
<1>5. i \in DOMAIN events /\ events[i].at <= t /\ i >= b
  BY <1>1, <1>2, <1>4
<1>6. i = Len(events) \/ t < events[i + 1].at
  <2> SUFFICES ASSUME i # Len(events), ~(t < events[i + 1].at) PROVE FALSE
    OBVIOUS
  <2>1. i + 1 \in DOMAIN events
    BY <1>1, <1>5
  <2>2. i + 1 \in T
    BY <1>1, <2>1
  <2>3. i + 1 <= i
    BY <1>4, <2>2
  <2> QED BY <1>1, <1>5, <2>3
<1> QED BY <1>5, <1>6

LEMMA FirstsUnique ==
    ASSUME HistoryTyped, NEW b, NEW k, NEW l, b \in DOMAIN events, FirstUp(b, k), FirstUp(b, l)
    PROVE  k = l
<1>1. Len(events) \in Nat /\ DOMAIN events = 1 .. Len(events)
  BY TimeIsFinite
<1>2. b \in Nat /\ k \in Nat /\ l \in Nat /\ k > b /\ l > b
  BY <1>1 DEF FirstUp
<1>3. ~(k < l)
  <2> SUFFICES ASSUME k < l PROVE FALSE
    OBVIOUS
  <2>1. k \in b .. l - 1
    BY <1>2
  <2> QED BY <2>1 DEF FirstUp
<1>4. ~(l < k)
  <2> SUFFICES ASSUME l < k PROVE FALSE
    OBVIOUS
  <2>1. l \in b .. k - 1
    BY <1>2
  <2> QED BY <2>1 DEF FirstUp
<1> QED BY <1>2, <1>3, <1>4

\* One streak lasts at most.
LEMMA LastsUnique ==
    ASSUME HistoryTyped, NEW b, NEW c, StreakAt(b), StreakAt(c), Lasts(b), Lasts(c)
    PROVE  b = c
<1>1. Len(events) \in Nat /\ DOMAIN events = 1 .. Len(events)
  BY TimeIsFinite
<1>2. ASSUME NEW x, NEW y, StreakAt(x), StreakAt(y), Lasts(x) PROVE ~(x < y)
  <2> SUFFICES ASSUME x < y PROVE FALSE
    OBVIOUS
  <2>1. x \in DOMAIN events /\ y \in DOMAIN events /\ y # 1 /\ ~events[y - 1].down
    BY <1>1, <1>2 DEF StreakAt
  <2>2. y - 1 \in DOMAIN events /\ y - 1 >= x
    BY <1>1, <2>1
  <2> QED BY <1>2, <2>1, <2>2 DEF Lasts
<1>3. ~(b < c) /\ ~(c < b)
  BY <1>2
<1> QED BY <1>1, <1>3 DEF StreakAt

\* If outages are written for the streaks, and for every one, they tell what the events do.
LEMMA FitsTell ==
    ASSUME HistoryTyped, Increasing, NEW S \in SUBSET Spans,
           \A o \in S : \E b \in DOMAIN events : Fits(o, b),
           \A b \in DOMAIN events : StreakAt(b) => \E o \in S : Fits(o, b)
    PROVE  Tells(S)
<1>1. /\ Len(events) \in Nat /\ DOMAIN events = 1 .. Len(events) /\ Skew \in Nat
      /\ time \in Nat /\ time < Open /\ Open \in Nat
      /\ \A i \in DOMAIN events : events[i].at \in Nat
  BY TimeIsFinite DEF Moments
<1> SUFFICES ASSUME NEW t \in 0 .. time - 1, ~Blurred(t) PROVE During(S, t) <=> DownAt(t)
  BY DEF Tells
<1>2. \A i \in DOMAIN events : events[i].at <= t => events[i].at + Skew <= t
  <2> SUFFICES ASSUME NEW i \in DOMAIN events, events[i].at <= t, ~(events[i].at + Skew <= t) PROVE FALSE
    OBVIOUS
  <2>1. events[i] \in ToSet(events) /\ t < events[i].at + Skew
    BY <1>1 DEF ToSet
  <2> QED BY <2>1 DEF Blurred
<1>3. t \in Nat /\ t < time
  BY <1>1
<1>4. ASSUME During(S, t) PROVE DownAt(t)
  <2>1. PICK o \in S : o.from <= t /\ t < o.to
    BY <1>4 DEF During
  <2>2. PICK b \in DOMAIN events : Fits(o, b)
    OBVIOUS
  <2>3. StreakAt(b) /\ Near(o.from, b) /\ o.from \in Nat
    BY <2>2 DEF Fits, Spans
  <2>4. events[b].at <= t
    BY <1>1, <1>3, <2>1, <2>3 DEF Near
  <2>5. PICK i \in DOMAIN events : i >= b /\ events[i].at <= t /\ (i = Len(events) \/ t < events[i + 1].at)
    BY <1>3, <2>4, LastUntil
  <2>6. events[i].down
    <3>1. CASE IsOpen(o)
      <4>1. Lasts(b)
        BY <2>2, <3>1 DEF Fits
      <4> QED BY <2>5, <4>1 DEF Lasts
    <3>2. CASE ~IsOpen(o)
      <4>1. PICK k \in DOMAIN events : FirstUp(b, k) /\ Near(o.to, k)
        BY <2>2, <3>2 DEF Fits
      <4>2. t < events[k].at + Skew
        <5>1. o.to <= events[k].at + Skew /\ o.to \in Nat
          BY <4>1 DEF Near, Spans
        <5> QED BY <1>1, <1>3, <2>1, <5>1
      <4>3. t < events[k].at
        BY <1>1, <1>2, <1>3, <4>2
      <4>4. i < k
        <5>1. i # k
          BY <1>1, <1>3, <2>5, <4>3
        <5>2. ~(k < i)
          <6> SUFFICES ASSUME k < i PROVE FALSE
            OBVIOUS
          <6>1. events[k].at < events[i].at
            BY DEF Increasing
          <6> QED BY <1>1, <1>3, <2>5, <4>3, <6>1
        <5> QED BY <1>1, <5>1, <5>2
      <4>5. i \in b .. k - 1
        BY <1>1, <2>5, <4>4
      <4> QED BY <4>1, <4>5 DEF FirstUp
    <3> QED BY <3>1, <3>2
  <2> QED BY <2>5, <2>6 DEF DownAt
<1>5. ASSUME DownAt(t) PROVE During(S, t)
  <2>1. PICK i \in DOMAIN events :
           events[i].down /\ events[i].at <= t /\ (i = Len(events) \/ t < events[i + 1].at)
    BY <1>5 DEF DownAt
  <2>2. PICK b \in 1 .. i : StreakAt(b) /\ \A j \in b .. i : events[j].down
    BY <2>1, StreakOf
  <2>3. b \in DOMAIN events
    BY <2>2 DEF StreakAt
  <2>4. PICK o \in S : Fits(o, b)
    BY <2>2, <2>3
  <2>5. events[b].at <= t
    <3>1. b = i \/ b < i
      BY <1>1, <2>2
    <3>2. b < i => events[b].at < events[i].at
      BY <2>3 DEF Increasing
    <3> QED BY <1>1, <1>3, <2>1, <2>3, <3>1, <3>2
  <2>6. o.from <= t
    <3>1. o.from <= events[b].at + Skew /\ o.from \in Nat
      BY <2>4 DEF Fits, Near, Spans
    <3>2. events[b].at + Skew <= t
      BY <1>2, <2>3, <2>5
    <3> QED BY <1>1, <1>3, <2>3, <3>1, <3>2
  <2>7. t < o.to
    <3>1. CASE IsOpen(o)
      BY <1>1, <1>3, <3>1 DEF IsOpen
    <3>2. CASE ~IsOpen(o)
      <4>1. PICK k \in DOMAIN events : FirstUp(b, k) /\ Near(o.to, k)
        BY <2>4, <3>2 DEF Fits
      <4>2. i < k
        <5> SUFFICES ASSUME ~(i < k) PROVE FALSE
          OBVIOUS
        <5>1. k \in b .. i
          BY <1>1, <2>1, <2>3, <4>1 DEF FirstUp
        <5> QED BY <2>2, <4>1, <5>1 DEF FirstUp
      <4>3. i + 1 \in DOMAIN events /\ i # Len(events)
        BY <1>1, <2>1, <4>2
      <4>4. t < events[i + 1].at
        BY <2>1, <4>3
      <4>5. events[i + 1].at <= events[k].at
        <5>1. i + 1 = k \/ i + 1 < k
          BY <1>1, <4>2, <4>3
        <5>2. i + 1 < k => events[i + 1].at < events[k].at
          BY <4>3 DEF Increasing
        <5> QED BY <1>1, <4>3, <5>1, <5>2
      <4>6. events[k].at <= o.to /\ o.to \in Nat
        BY <4>1 DEF Near, Spans
      <4> QED BY <1>1, <1>3, <4>3, <4>4, <4>5, <4>6
    <3> QED BY <3>1, <3>2
  <2> QED BY <2>6, <2>7 DEF During
<1> QED BY <1>4, <1>5

-----------------------------------------------------------------------------
(* A report, while nothing disturbed the order of events *)

Appended(at, down) ==
    /\ plain /\ time' = time
    /\ Len(events') = Len(events) + 1 /\ DOMAIN events' = 1 .. Len(events) + 1
    /\ \A j \in DOMAIN events : events'[j] = events[j] /\ events[j].at < at
    /\ events'[Len(events) + 1].at = at /\ (events'[Len(events) + 1].down <=> down)
    /\ \A j \in DOMAIN events' : events'[j].at \in Nat
    /\ at \in Moments /\ time <= at + Skew

LEMMA PlainReports ==
    ASSUME Sound, WriteStep, plain'
    PROVE  \E at \in Stamps, down \in BOOLEAN : ReportStep(at, down) /\ Appended(at, down)
<1>1. PICK at \in Stamps, down \in BOOLEAN : ReportStep(at, down)
  BY DEF WriteStep, EditStep
<1>2. time \in Nat /\ events \in Seq(Event) /\ Len(events) \in Nat /\ DOMAIN events = 1 .. Len(events)
  BY TimeIsFinite DEF Sound
<1>3. at \in Moments /\ time <= at + Skew /\ at \in Nat
  BY <1>2, StampsArePast DEF Moments
<1>4. Logs(at, down)
  BY <1>1 DEF ReportStep
<1>5. /\ events' \in Seq(Event) /\ plain
      /\ Len(events') = Len(events) + 1
      /\ \A j \in DOMAIN events : events'[j] = events[j] /\ events[j].at < at
      /\ events'[Len(events) + 1] = [at |-> at, down |-> down]
  BY <1>2, <1>3, <1>4, LogsInsert
<1>6. DOMAIN events' = 1 .. Len(events) + 1
  BY <1>5
<1>7. \A j \in DOMAIN events' : events'[j].at \in Nat
  <2>1. \A j \in DOMAIN events' : events'[j] \in Event
    BY <1>5
  <2> QED BY <2>1 DEF Event
<1>8. Appended(at, down)
  BY <1>3, <1>5, <1>6, <1>7 DEF Appended, WriteStep
<1> QED BY <1>1, <1>8

LEMMA StreaksAppend ==
    ASSUME Sound, NEW at \in Nat, NEW down \in BOOLEAN, Appended(at, down), NEW b \in DOMAIN events
    PROVE  /\ b \in DOMAIN events'
           /\ StreakAt(b)' <=> StreakAt(b)
           /\ \A k \in DOMAIN events : FirstUp(b, k)' <=> FirstUp(b, k)
           /\ Lasts(b)' <=> (Lasts(b) /\ down)
           /\ \A m : Near(m, b)' <=> Near(m, b)
<1>1. Len(events) \in Nat /\ DOMAIN events = 1 .. Len(events)
  BY TimeIsFinite DEF Sound
<1>2. /\ DOMAIN events' = 1 .. Len(events) + 1
      /\ \A j \in DOMAIN events : events'[j] = events[j]
      /\ (events'[Len(events) + 1].down <=> down)
  BY DEF Appended
<1>3. b \in DOMAIN events'
  BY <1>1, <1>2
<1>4. StreakAt(b)' <=> StreakAt(b)
  <2>1. b # 1 => b - 1 \in DOMAIN events
    BY <1>1
  <2> QED BY <1>2, <1>3, <2>1 DEF StreakAt
<1>5. ASSUME NEW k \in DOMAIN events PROVE FirstUp(b, k)' <=> FirstUp(b, k)
  <2>1. \A j \in b .. k - 1 : j \in DOMAIN events
    BY <1>1
  <2>2. k \in DOMAIN events'
    BY <1>1, <1>2
  <2> QED BY <1>2, <2>1, <2>2 DEF FirstUp
<1>6. Lasts(b)' <=> (Lasts(b) /\ down)
  <2>1. Len(events) + 1 \in DOMAIN events' /\ Len(events) + 1 >= b
    BY <1>1, <1>2
  <2>2. \A j \in DOMAIN events' : j \in DOMAIN events \/ j = Len(events) + 1
    BY <1>1, <1>2
  <2>3. \A j \in DOMAIN events : j \in DOMAIN events'
    BY <1>1, <1>2
  <2>4. Lasts(b)' => Lasts(b) /\ down
    BY <1>2, <2>1, <2>3 DEF Lasts
  <2>5. Lasts(b) /\ down => Lasts(b)'
    BY <1>2, <2>2 DEF Lasts
  <2> QED BY <2>4, <2>5
<1>7. \A m : Near(m, b)' <=> Near(m, b)
  BY <1>2 DEF Near
<1> QED BY <1>3, <1>4, <1>5, <1>6, <1>7

\* What the new event adds.
LEMMA LastAppended ==
    ASSUME Sound, NEW at \in Nat, NEW down \in BOOLEAN, Appended(at, down), NEW n, n = Len(events) + 1
    PROVE  /\ n \in DOMAIN events'
           /\ \A m \in Nat : m = time => Near(m, n)'
           /\ StreakAt(n)' <=> down /\ ~(events # <<>> /\ events[Len(events)].down)
           /\ down => Lasts(n)'
           /\ \A b \in DOMAIN events : Lasts(b) /\ ~down => FirstUp(b, n)'
<1>1. Len(events) \in Nat /\ DOMAIN events = 1 .. Len(events) /\ events \in Seq(Event) /\ time \in Nat
  BY TimeIsFinite DEF Sound
<1>2. /\ DOMAIN events' = 1 .. Len(events) + 1
      /\ \A j \in DOMAIN events : events'[j] = events[j]
      /\ (events'[n].down <=> down) /\ events'[n].at = at
      /\ at \in 0 .. time /\ time <= at + Skew
  BY DEF Appended, Moments
<1>3. n \in DOMAIN events' /\ n \in Nat
  BY <1>1, <1>2
<1>4. \A m \in Nat : m = time => Near(m, n)'
  BY <1>1, <1>2 DEF Near
<1>5. StreakAt(n)' <=> down /\ ~(events # <<>> /\ events[Len(events)].down)
  <2>1. n - 1 = Len(events)
    BY <1>1
  <2>2. CASE events = <<>>
    <3>1. n = 1
      BY <1>1, <2>2
    <3> QED BY <1>2, <1>3, <2>2, <3>1 DEF StreakAt
  <2>3. CASE events # <<>>
    <3>1. n # 1 /\ Len(events) \in DOMAIN events
      BY <1>1, <2>3
    <3>2. events'[n - 1] = events[Len(events)]
      BY <1>2, <2>1, <3>1
    <3> QED BY <1>2, <1>3, <2>3, <3>1, <3>2 DEF StreakAt
  <2> QED BY <2>2, <2>3
<1>6. down => Lasts(n)'
  <2>1. \A j \in DOMAIN events' : j >= n => j = n
    BY <1>1, <1>2
  <2> QED BY <1>2, <2>1 DEF Lasts
<1>7. ASSUME NEW b \in DOMAIN events, Lasts(b), ~down PROVE FirstUp(b, n)'
  <2>1. n > b
    BY <1>1
  <2>2. \A j \in b .. n - 1 : events'[j].down
    <3> SUFFICES ASSUME NEW j \in b .. n - 1 PROVE events'[j].down
      OBVIOUS
    <3>1. j \in DOMAIN events /\ j >= b
      BY <1>1
    <3> QED BY <1>2, <1>7, <3>1 DEF Lasts
  <2> QED BY <1>2, <1>3, <1>7, <2>1, <2>2 DEF FirstUp
<1> QED BY <1>3, <1>4, <1>5, <1>6, <1>7

\* What was written as a streak still is, and the trigger ends it with its streak.
LEMMA FitsAppended ==
    ASSUME Sound, NEW at \in Nat, NEW down \in BOOLEAN, Appended(at, down),
           NEW b \in DOMAIN events, NEW o, Fits(o, b)
    PROVE  /\ ~IsOpen(o) \/ down => Fits(o, b)'
           /\ IsOpen(o) /\ ~down => \A u : u.from = o.from /\ u.to = time => Fits(u, b)'
<1>1. StreakAt(b) /\ Near(o.from, b)
  BY DEF Fits
<1>2. StreakAt(b)' /\ \A m : m = o.from => Near(m, b)'
  BY <1>1, StreaksAppend
<1>3. CASE ~IsOpen(o)
  <2>1. PICK k \in DOMAIN events : FirstUp(b, k) /\ Near(o.to, k)
    BY <1>3 DEF Fits
  <2>2. k \in DOMAIN events' /\ FirstUp(b, k)' /\ \A m : m = o.to => Near(m, k)'
    BY <2>1, StreaksAppend
  <2> QED BY <1>2, <1>3, <2>2 DEF Fits, IsOpen
<1>4. CASE IsOpen(o) /\ down
  <2>1. Lasts(b)'
    BY <1>4, StreaksAppend DEF Fits
  <2> QED BY <1>2, <1>4, <2>1 DEF Fits, IsOpen
<1>5. CASE IsOpen(o) /\ ~down
  <2> SUFFICES ASSUME NEW u, u.from = o.from, u.to = time PROVE Fits(u, b)'
    BY <1>5
  <2>1. PICK n : n = Len(events) + 1
    OBVIOUS
  <2>2. Lasts(b)
    BY <1>5 DEF Fits
  <2>3. n \in DOMAIN events' /\ FirstUp(b, n)'
    BY <1>5, <2>1, <2>2, LastAppended
  <2>4. time \in Nat /\ time # Open
    BY TimeIsFinite DEF Sound
  <2>5. \A m : m = u.to => Near(m, n)'
    BY <2>1, <2>4, LastAppended
  <2>6. u.to # Open
    BY <2>4
  <2> QED BY <1>2, <2>3, <2>5, <2>6 DEF Fits, IsOpen
<1> QED BY <1>3, <1>4, <1>5

\* The trigger (S is outages) and the truth follow the events.
LEMMA RecordsFit ==
    ASSUME Sound, TruthFits, NEW at \in Nat, NEW down \in BOOLEAN, Appended(at, down),
           row.status \in CheckStatuses, row'.status \in CheckStatuses, row'.status = "DOWN" <=> down,
           NEW S \in {outages, truth}, NEW R, R = RecordOutage(S, row.status, row'.status)
    PROVE  /\ (\A o \in S : \E b \in DOMAIN events : Fits(o, b)) =>
                 \A o \in R : \E b \in DOMAIN events' : Fits(o, b)'
           /\ \A b \in DOMAIN events : (\E o \in S : Fits(o, b)) => \E o \in R : Fits(o, b)'
           /\ \A n : n = Len(events) + 1 => (StreakAt(n)' => \E o \in R : Fits(o, n)')
<1>1. /\ OneOpen(S) /\ \A o \in S : IsOpen(o) => row.status = "DOWN"
      /\ HistoryTyped
  BY DEF Sound, OpenInOrder
<1>2. plain
  BY DEF Appended
<1>3. row.status = "DOWN" <=> events # <<>> /\ events[Len(events)].down
  BY <1>2 DEF TruthFits
<1>4. \A b \in DOMAIN events : b \in DOMAIN events'
  BY StreaksAppend
<1>5. CASE row.status = "DOWN" /\ ~down
  <2>1. R = {IF IsOpen(o) THEN Outage(o.from, time) ELSE o : o \in S}
    BY <1>1, <1>5, RecordsOutages
  <2>2. ASSUME NEW o \in S, NEW b \in DOMAIN events, Fits(o, b)
        PROVE  \A u : u = (IF IsOpen(o) THEN Outage(o.from, time) ELSE o) => Fits(u, b)'
    BY <1>5, <2>2, FitsAppended, OutageIs
  <2>3. \A n : n = Len(events) + 1 => ~StreakAt(n)'
    BY <1>5, LastAppended
  <2> QED BY <1>4, <2>1, <2>2, <2>3
<1>6. CASE row.status # "DOWN" /\ down
  <2>1. R = S \cup {Outage(time, Open)}
    BY <1>1, <1>6, RecordsOutages
  <2>2. ASSUME NEW o \in S, NEW b \in DOMAIN events, Fits(o, b) PROVE Fits(o, b)'
    BY <1>6, <2>2, FitsAppended
  <2>3. ASSUME NEW n, n = Len(events) + 1, NEW u, u = Outage(time, Open)
        PROVE  n \in DOMAIN events' /\ Fits(u, n)'
    <3>1. n \in DOMAIN events' /\ StreakAt(n)' /\ Lasts(n)'
      BY <1>3, <1>6, <2>3, LastAppended
    <3>2. u.from = time /\ u.to = Open /\ time \in Nat
      BY <2>3, OutageIs, TimeIsFinite DEF Sound
    <3>3. \A m : m = u.from => Near(m, n)'
      BY <2>3, <3>2, LastAppended
    <3> QED BY <3>1, <3>2, <3>3 DEF Fits, IsOpen
  <2>4. PICK n, u : n = Len(events) + 1 /\ u = Outage(time, Open)
    OBVIOUS
  <2>5. n \in DOMAIN events' /\ Fits(u, n)' /\ u \in R
    BY <2>1, <2>3, <2>4
  <2>6. (\A o \in S : \E b \in DOMAIN events : Fits(o, b)) => \A o \in R : \E b \in DOMAIN events' : Fits(o, b)'
    BY <1>4, <2>1, <2>2, <2>4, <2>5
  <2>7. \A b \in DOMAIN events : (\E o \in S : Fits(o, b)) => \E o \in R : Fits(o, b)'
    BY <2>1, <2>2
  <2> QED BY <2>4, <2>5, <2>6, <2>7
<1>7. CASE (row.status # "DOWN" /\ ~down) \/ (row.status = "DOWN" /\ down)
  <2>1. R = S
    BY <1>1, <1>7, RecordsOutages
  <2>2. \A o \in S : ~IsOpen(o) \/ down
    BY <1>1, <1>7
  <2>3. ASSUME NEW o \in S, NEW b \in DOMAIN events, Fits(o, b) PROVE Fits(o, b)'
    BY <2>2, <2>3, FitsAppended
  <2>4. \A n : n = Len(events) + 1 => ~StreakAt(n)'
    BY <1>3, <1>7, LastAppended
  <2> QED BY <1>4, <2>1, <2>3, <2>4
<1> QED BY <1>5, <1>6, <1>7

LEMMA WriteTruth ==
    ASSUME Sound, TruthFits, WriteStep
    PROVE  TruthFits'
<1> SUFFICES ASSUME plain'
             PROVE  /\ Increasing'
                    /\ row'.status = "DOWN" <=> events' # <<>> /\ events'[Len(events')].down
                    /\ \A o \in truth' : \E b \in DOMAIN events' : Fits(o, b)'
                    /\ \A b \in DOMAIN events' : StreakAt(b)' => \E o \in truth' : Fits(o, b)'
  BY DEF TruthFits, Increasing
<1>1. PICK at \in Stamps, down \in BOOLEAN : ReportStep(at, down) /\ Appended(at, down)
  BY PlainReports
<1>2. /\ Len(events) \in Nat /\ DOMAIN events = 1 .. Len(events)
      /\ at \in Nat /\ plain
      /\ (row'.status = "DOWN" <=> down)
  BY <1>1, TimeIsFinite DEF Sound, Appended, Moments, ReportStep
<1>3. /\ Increasing
      /\ \A o \in truth : \E b \in DOMAIN events : Fits(o, b)
      /\ \A b \in DOMAIN events : StreakAt(b) => \E o \in truth : Fits(o, b)
  BY <1>2 DEF TruthFits, Increasing
<1>4. /\ Len(events') = Len(events) + 1 /\ DOMAIN events' = 1 .. Len(events) + 1
      /\ \A j \in DOMAIN events : events'[j] = events[j] /\ events[j].at < at
      /\ events'[Len(events) + 1].at = at /\ (events'[Len(events) + 1].down <=> down)
  BY <1>1 DEF Appended
<1>5. Increasing'
  <2> SUFFICES ASSUME NEW i \in DOMAIN events', NEW j \in DOMAIN events', i < j
               PROVE  events'[i].at < events'[j].at
    BY DEF Increasing
  <2>1. i \in DOMAIN events
    BY <1>2, <1>4
  <2>2. j \in DOMAIN events \/ j = Len(events) + 1
    BY <1>2, <1>4
  <2> QED BY <1>3, <1>4, <2>1, <2>2 DEF Increasing
<1>6. row'.status = "DOWN" <=> events' # <<>> /\ events'[Len(events')].down
  <2>1. events' # <<>>
    BY <1>2, <1>4
  <2> QED BY <1>2, <1>4, <2>1
<1>7. /\ truth' = RecordOutage(truth, row.status, row'.status)
      /\ row.status \in CheckStatuses /\ row'.status \in CheckStatuses
  BY WriteRecords
<1>8. /\ \A o \in truth' : \E b \in DOMAIN events' : Fits(o, b)'
      /\ \A b \in DOMAIN events : (\E o \in truth : Fits(o, b)) => \E o \in truth' : Fits(o, b)'
      /\ \A n : n = Len(events) + 1 => (StreakAt(n)' => \E o \in truth' : Fits(o, n)')
  BY <1>1, <1>2, <1>3, <1>7, RecordsFit
<1>9. ASSUME NEW b \in DOMAIN events', StreakAt(b)' PROVE \E o \in truth' : Fits(o, b)'
  <2>1. CASE b \in DOMAIN events
    <3>1. StreakAt(b)
      BY <1>1, <1>2, <1>9, <2>1, StreaksAppend
    <3> QED BY <1>3, <1>8, <2>1, <3>1
  <2>2. CASE b = Len(events) + 1
    BY <1>8, <1>9, <2>2
  <2> QED BY <1>2, <1>4, <2>1, <2>2
<1> QED BY <1>5, <1>6, <1>8, <1>9

-----------------------------------------------------------------------------
(* What a write leaves of what is told *)

LEMMA GapsStay ==
    ASSUME Sound, NEW at \in Nat, NEW down \in BOOLEAN, Appended(at, down), row'.heartbeat = row.heartbeat, HasGap
    PROVE  HasGap'
<1>1. Len(events) \in Nat /\ DOMAIN events = 1 .. Len(events)
  BY TimeIsFinite DEF Sound
<1>2. PICK i \in 1 .. Len(events) - 1 : events[i].down /\ Gap(events[i], events[i + 1])
  BY DEF HasGap
<1>3. /\ Len(events') = Len(events) + 1
      /\ \A j \in DOMAIN events : events'[j] = events[j]
  BY DEF Appended
<1>4. i \in DOMAIN events /\ i + 1 \in DOMAIN events /\ i \in 1 .. Len(events') - 1
  BY <1>1, <1>3
<1>5. events'[i].down /\ events'[i] = events[i] /\ events'[i + 1] = events[i + 1]
  BY <1>2, <1>3, <1>4
<1>6. ~row'.heartbeat /\ events'[i + 1].at - events'[i].at > Max({3 * Interval, MinGap})
  BY <1>2, <1>5 DEF Gap
<1> QED BY <1>4, <1>5, <1>6 DEF HasGap, Gap

LEMMA TellingBefore ==
    ASSUME Sound, WriteStep, NEW at \in Nat, NEW down \in BOOLEAN, Appended(at, down),
           row'.heartbeat = row.heartbeat, Telling'
    PROVE  Telling
<1>1. DOMAIN events = 1 .. Len(events) /\ Len(events) \in Nat
  BY TimeIsFinite DEF Sound
<1>2. plain /\ ~HasGap
  BY GapsStay DEF Telling, Appended
<1>3. \A e \in ToSet(events) : e \in ToSet(events')
  BY <1>1 DEF ToSet, Appended
<1>4. \A e \in ToSet(events) : e.at # cutoff
  BY <1>3 DEF Telling, WriteStep
<1> QED BY <1>2, <1>4 DEF Telling

LEMMA RebuiltStays ==
    ASSUME Sound, NEW at \in Nat, NEW down \in BOOLEAN, Appended(at, down),
           NEW s, NEW b \in DOMAIN events, Rebuilt(s, b)
    PROVE  Rebuilt(s, b)'
<1>1. StreakAt(b)' /\ s.from = events'[b].at
  BY StreaksAppend DEF Rebuilt, Appended
<1>2. IsOpen(s) => IsOpen(s)'
  BY DEF IsOpen
<1>3. ASSUME NEW k \in DOMAIN events, FirstUp(b, k), s.to = events[k].at
      PROVE  k \in DOMAIN events' /\ FirstUp(b, k)' /\ s.to = events'[k].at
  BY <1>3, StreaksAppend DEF Appended
<1> QED BY <1>1, <1>2, <1>3 DEF Rebuilt

LEMMA WriteBackfill ==
    ASSUME Sound, TruthFits, BackfillFits, WriteStep
    PROVE  BackfillFits'
<1> SUFFICES ASSUME plain', ~HasGap'
             PROVE  /\ \A s \in staged' : \E b \in DOMAIN events' : Rebuilt(s, b)'
                    /\ phase' = "recording" =>
                         \A b \in DOMAIN events' :
                            StreakAt(b)' => events'[b].at <= cutoff' \/ \E o \in outages' : Fits(o, b)'
                    /\ phase' = "staged" =>
                         \A b \in DOMAIN events' :
                            StreakAt(b)' => \/ events'[b].at = cutoff'
                                            \/ \E o \in outages' : Fits(o, b)'
                                            \/ \E s \in staged' : Rebuilt(s, b)'
  BY DEF BackfillFits
<1>1. PICK at \in Stamps, down \in BOOLEAN : ReportStep(at, down) /\ Appended(at, down)
  BY PlainReports
<1>2. /\ Len(events) \in Nat /\ DOMAIN events = 1 .. Len(events)
      /\ at \in Nat /\ plain
      /\ (row'.status = "DOWN" <=> down) /\ row'.heartbeat = row.heartbeat
  BY <1>1, TimeIsFinite DEF Sound, Appended, Moments, ReportStep
<1>3. ~HasGap
  BY <1>1, <1>2, GapsStay
<1>4. /\ phase' = phase /\ cutoff' = cutoff /\ staged' = staged
      /\ DOMAIN events' = 1 .. Len(events) + 1
      /\ \A j \in DOMAIN events : events'[j] = events[j]
  BY <1>1 DEF WriteStep, Appended
<1>5. \A s \in staged' : \E b \in DOMAIN events' : Rebuilt(s, b)'
  <2> SUFFICES ASSUME NEW s \in staged PROVE \E b \in DOMAIN events' : Rebuilt(s, b)'
    BY <1>4
  <2>1. PICK b \in DOMAIN events : Rebuilt(s, b)
    BY <1>2, <1>3 DEF BackfillFits
  <2>2. b \in DOMAIN events' /\ Rebuilt(s, b)'
    BY <1>1, <1>2, <2>1, RebuiltStays, StreaksAppend
  <2> QED BY <2>2
<1>6. ASSUME phase # "before"
      PROVE  /\ \A b \in DOMAIN events : (\E o \in outages : Fits(o, b)) => \E o \in outages' : Fits(o, b)'
             /\ \A n : n = Len(events) + 1 => (StreakAt(n)' => \E o \in outages' : Fits(o, n)')
  <2>1. /\ outages' = RecordOutage(outages, row.status, row'.status)
        /\ row.status \in CheckStatuses /\ row'.status \in CheckStatuses
    BY <1>6, WriteRecords
  <2> QED BY <1>1, <1>2, <2>1, RecordsFit
<1>7. ASSUME phase = "recording", NEW b \in DOMAIN events', StreakAt(b)'
      PROVE  events'[b].at <= cutoff \/ \E o \in outages' : Fits(o, b)'
  <2>1. CASE b \in DOMAIN events
    <3>1. StreakAt(b) /\ events'[b] = events[b]
      BY <1>1, <1>2, <1>4, <1>7, <2>1, StreaksAppend
    <3>2. events[b].at <= cutoff \/ \E o \in outages : Fits(o, b)
      BY <1>2, <1>3, <1>7, <2>1, <3>1 DEF BackfillFits
    <3> QED BY <1>6, <1>7, <2>1, <3>1, <3>2
  <2>2. CASE b = Len(events) + 1
    BY <1>6, <1>7, <2>2
  <2> QED BY <1>2, <1>4, <2>1, <2>2
<1>8. ASSUME phase = "staged", NEW b \in DOMAIN events', StreakAt(b)'
      PROVE  \/ events'[b].at = cutoff
             \/ \E o \in outages' : Fits(o, b)'
             \/ \E s \in staged' : Rebuilt(s, b)'
  <2>1. CASE b \in DOMAIN events
    <3>1. StreakAt(b) /\ events'[b] = events[b]
      BY <1>1, <1>2, <1>4, <1>8, <2>1, StreaksAppend
    <3>2. events[b].at = cutoff \/ (\E o \in outages : Fits(o, b)) \/ \E s \in staged : Rebuilt(s, b)
      BY <1>2, <1>3, <1>8, <2>1, <3>1 DEF BackfillFits
    <3>3. (\E s \in staged : Rebuilt(s, b)) => \E s \in staged' : Rebuilt(s, b)'
      BY <1>1, <1>2, <1>4, <2>1, RebuiltStays
    <3> QED BY <1>6, <1>8, <2>1, <3>1, <3>2, <3>3
  <2>2. CASE b = Len(events) + 1
    BY <1>6, <1>8, <2>2
  <2> QED BY <1>2, <1>4, <2>1, <2>2
<1> QED BY <1>4, <1>5, <1>7, <1>8

\* The past is not changed by what is written now.
LEMMA RecordsNoPast ==
    ASSUME HistoryTyped, NEW S \in {outages, truth}, NEW old \in CheckStatuses, NEW new \in CheckStatuses,
           OneOpen(S), \A o \in S : IsOpen(o) => old = "DOWN", NEW t \in 0 .. time - 1
    PROVE  During(RecordOutage(S, old, new), t) <=> During(S, t)
<1>1. time \in Nat /\ time < Open /\ Open \in Nat /\ t < time
  BY TimeIsFinite
<1>2. CASE new = "DOWN" /\ old # "DOWN"
  <2>1. RecordOutage(S, old, new) = S \cup {Outage(time, Open)}
    BY <1>2, RecordsOutages
  <2> QED BY <1>1, <2>1, OutageIs DEF During
<1>3. CASE old = "DOWN" /\ new # "DOWN"
  <2>1. RecordOutage(S, old, new) = {IF IsOpen(o) THEN Outage(o.from, time) ELSE o : o \in S}
    BY <1>3, RecordsOutages
  <2>2. ASSUME NEW o \in S, NEW u, u = IF IsOpen(o) THEN Outage(o.from, time) ELSE o
        PROVE  (o.from <= t /\ t < o.to) <=> (u.from <= t /\ t < u.to)
    BY <1>1, <2>2, OutageIs DEF IsOpen
  <2> QED BY <2>1, <2>2 DEF During
<1>4. CASE (new # "DOWN" /\ old # "DOWN") \/ (old = "DOWN" /\ new = "DOWN")
  BY <1>4, RecordsOutages
<1> QED BY <1>2, <1>3, <1>4

LEMMA WriteTells ==
    ASSUME Sound, HistoryTells, WriteStep
    PROVE  HistoryTells'
<1> SUFFICES ASSUME phase' = "done", Telling', NEW t \in 0 .. time - 1
             PROVE  (During(outages', t) <=> DownAt(t)') \/ Blurred(t)'
  BY DEF HistoryTells, Tells, WriteStep, During
<1>1. PICK at \in Stamps, down \in BOOLEAN : ReportStep(at, down) /\ Appended(at, down)
  BY PlainReports DEF Telling
<1>2. /\ Len(events) \in Nat /\ DOMAIN events = 1 .. Len(events)
      /\ time \in Nat /\ Skew \in Nat /\ at \in Nat /\ phase = "done"
      /\ row'.heartbeat = row.heartbeat
      /\ \A j \in DOMAIN events : events[j].at \in Nat
  BY <1>1, TimeIsFinite DEF Sound, Appended, Moments, ReportStep, WriteStep
<1>3. Telling
  BY <1>1, <1>2, TellingBefore
<1>4. (During(outages, t) <=> DownAt(t)) \/ Blurred(t)
  BY <1>2, <1>3 DEF HistoryTells, Tells
<1>5. During(outages', t) <=> During(outages, t)
  <2>1. /\ outages' = RecordOutage(outages, row.status, row'.status)
        /\ row.status \in CheckStatuses /\ row'.status \in CheckStatuses
        /\ OneOpen(outages) /\ \A o \in outages : IsOpen(o) => row.status = "DOWN"
    BY <1>2, WriteRecords
  <2> QED BY <2>1, RecordsNoPast DEF Sound
<1>6. /\ DOMAIN events' = 1 .. Len(events) + 1 /\ Len(events') = Len(events) + 1
      /\ \A j \in DOMAIN events : events'[j] = events[j]
      /\ events'[Len(events) + 1].at = at /\ time <= at + Skew
  BY <1>1 DEF Appended
<1>7. Blurred(t) => Blurred(t)'
  <2>1. \A e \in ToSet(events) : e \in ToSet(events')
    BY <1>2, <1>6 DEF ToSet
  <2> QED BY <2>1 DEF Blurred
<1>8. CASE at <= t
  <2>1. events'[Len(events) + 1] \in ToSet(events')
    BY <1>2, <1>6 DEF ToSet
  <2>2. t < at + Skew
    BY <1>2, <1>6
  <2> QED BY <1>6, <1>8, <2>1, <2>2 DEF Blurred
<1>9. CASE ~(at <= t)
  <2>1. DownAt(t) => DownAt(t)'
    <3> SUFFICES ASSUME NEW i \in DOMAIN events,
                        events[i].down /\ events[i].at <= t /\ (i = Len(events) \/ t < events[i + 1].at)
                 PROVE  DownAt(t)'
      BY DEF DownAt
    <3>1. i \in DOMAIN events' /\ events'[i] = events[i]
      BY <1>2, <1>6
    <3>2. t < events'[i + 1].at
      <4>1. CASE i = Len(events)
        BY <1>2, <1>6, <1>9, <4>1
      <4>2. CASE i # Len(events)
        <5>1. i + 1 \in DOMAIN events
          BY <1>2, <4>2
        <5> QED BY <1>6, <4>2, <5>1
      <4> QED BY <4>1, <4>2
    <3> QED BY <3>1, <3>2 DEF DownAt
  <2>2. DownAt(t)' => DownAt(t)
    <3> SUFFICES ASSUME NEW i \in DOMAIN events',
                        events'[i].down /\ events'[i].at <= t /\ (i = Len(events') \/ t < events'[i + 1].at)
                 PROVE  DownAt(t)
      BY DEF DownAt
    <3>1. i # Len(events) + 1
      BY <1>6, <1>9
    <3>2. i \in DOMAIN events /\ events'[i] = events[i] /\ i # Len(events')
      BY <1>2, <1>6, <3>1
    <3>3. i = Len(events) \/ t < events[i + 1].at
      <4> SUFFICES ASSUME i # Len(events) PROVE t < events[i + 1].at
        OBVIOUS
      <4>1. i + 1 \in DOMAIN events
        BY <1>2, <3>2
      <4> QED BY <1>6, <3>2, <4>1
    <3> QED BY <3>2, <3>3 DEF DownAt
  <2> QED BY <1>4, <1>5, <1>7, <2>1, <2>2
<1> QED BY <1>8, <1>9

LEMMA WriteSince ==
    ASSUME Sound, OpenTells, WriteStep
    PROVE  OpenTells'
<1> SUFFICES ASSUME phase' = "done", Telling', NEW p \in outages', IsOpen(p)
             PROVE  OpenSince(p)'
  BY DEF OpenTells, IsOpen
<1>1. PICK at \in Stamps, down \in BOOLEAN : ReportStep(at, down) /\ Appended(at, down)
  BY PlainReports DEF Telling
<1>2. /\ time \in Nat /\ Skew \in Nat /\ at \in Nat /\ phase = "done" /\ time' = time
      /\ row'.heartbeat = row.heartbeat
  BY <1>1, TimeIsFinite DEF Sound, Appended, Moments, ReportStep, WriteStep
<1>3. Telling
  BY <1>1, <1>2, TellingBefore
<1>4. /\ outages' = RecordOutage(outages, row.status, row'.status)
      /\ truth' = RecordOutage(truth, row.status, row'.status)
      /\ row.status \in CheckStatuses /\ row'.status \in CheckStatuses
      /\ OneOpen(outages) /\ \A o \in outages : IsOpen(o) => row.status = "DOWN"
      /\ OneOpen(truth) /\ \A o \in truth : IsOpen(o) => row.status = "DOWN"
      /\ HistoryTyped
  BY <1>2, WriteRecords DEF Sound
<1>5. row'.status = "DOWN"
  BY <1>4, RecordsOutages
<1>6. CASE row.status = "DOWN"
  <2>1. outages' = outages /\ truth' = truth
    BY <1>4, <1>5, <1>6, RecordsOutages
  <2>2. OpenSince(p)
    BY <1>2, <1>3, <2>1 DEF OpenTells
  <2> QED BY <1>2, <2>1, <2>2 DEF OpenSince, During, IsOpen
<1>7. CASE row.status # "DOWN"
  <2>1. outages' = outages \cup {Outage(time, Open)} /\ truth' = truth \cup {Outage(time, Open)}
    BY <1>4, <1>5, <1>7, RecordsOutages
  <2>2. p = Outage(time, Open)
    BY <1>4, <1>7, <2>1
  <2>3. \A o \in truth' : IsOpen(o) => o = Outage(time, Open)
    BY <1>4, <1>7, <2>1
  <2>4. p.from = time
    BY <2>2, OutageIs
  <2>5. p.from + Skew .. time' - 1 = {}
    BY <1>2, <2>4
  <2>6. \A o \in truth' : IsOpen(o)' => p.from <= o.from
    BY <1>2, <2>3, <2>4, OutageIs DEF IsOpen
  <2> QED BY <2>5, <2>6 DEF OpenSince
<1> QED BY <1>6, <1>7

-----------------------------------------------------------------------------
(* Time passes *)

LEMMA NowTold ==
    ASSUME Sound, TruthFits, plain, NEW S \in {outages, truth},
           row.status = "DOWN" <=> \E o \in S : IsOpen(o)
    PROVE  During(S, time) <=> DownAt(time)
<1>1. /\ Len(events) \in Nat /\ DOMAIN events = 1 .. Len(events) /\ events \in Seq(Event)
      /\ time \in Nat /\ time < Open /\ Open \in Nat
      /\ \A i \in DOMAIN events : events[i].at \in 0 .. time
  BY TimeIsFinite DEF Sound, Moments
<1>2. \A o \in S : o.from \in 0 .. time /\ (~IsOpen(o) => o.to \in 0 .. time)
  BY SpansArePast DEF Sound, Moments
<1>3. During(S, time) <=> row.status = "DOWN"
  <2>1. \A o \in S : (o.from <= time /\ time < o.to) <=> IsOpen(o)
    BY <1>1, <1>2 DEF IsOpen
  <2> QED BY <2>1 DEF During
<1>4. row.status = "DOWN" <=> events # <<>> /\ events[Len(events)].down
  BY DEF TruthFits
<1>5. DownAt(time) <=> events # <<>> /\ events[Len(events)].down
  <2>1. ASSUME DownAt(time) PROVE events # <<>> /\ events[Len(events)].down
    <3>1. PICK i \in DOMAIN events : events[i].down /\ (i = Len(events) \/ time < events[i + 1].at)
      BY <2>1 DEF DownAt
    <3>2. i = Len(events)
      <4> SUFFICES ASSUME i # Len(events) PROVE FALSE
        OBVIOUS
      <4>1. i + 1 \in DOMAIN events
        BY <1>1
      <4> QED BY <1>1, <3>1, <4>1
    <3> QED BY <1>1, <3>1, <3>2
  <2>2. ASSUME events # <<>>, events[Len(events)].down PROVE DownAt(time)
    <3>1. Len(events) \in DOMAIN events
      BY <1>1, <2>2
    <3> QED BY <1>1, <2>2, <3>1 DEF DownAt
  <2> QED BY <2>1, <2>2
<1> QED BY <1>3, <1>4, <1>5

LEMMA TimeTells ==
    ASSUME Sound, TruthFits, HistoryTells, OpenTells, TimePasses
    PROVE  HistoryTells' /\ OpenTells'
<1>1. /\ time \in Nat /\ time' = time + 1 /\ Skew \in Nat
      /\ UNCHANGED <<row, events, outages, phase, cutoff, truth, plain>>
  BY TimeIsFinite DEF Sound, TimePasses, migration
<1>2. Telling' => Telling
  BY <1>1 DEF Telling, HasGap, Gap
<1>3. \A t \in 0 .. time' - 1 : t \in 0 .. time - 1 \/ t = time
  BY <1>1
<1>4. ASSUME phase = "done", Telling PROVE Tells(outages)'
  <2>1. row.status = "DOWN" <=> \E o \in outages : IsOpen(o)
    BY <1>4 DEF Sound, PhaseInOrder, OpenInOrder, Opened
  <2>2. During(outages, time) <=> DownAt(time)
    BY <1>4, <2>1, NowTold DEF Telling
  <2>3. \A t \in 0 .. time - 1 : (During(outages, t) <=> DownAt(t)) \/ Blurred(t)
    BY <1>4 DEF HistoryTells, Tells
  <2>4. ASSUME NEW t \in 0 .. time' - 1 PROVE (During(outages', t) <=> DownAt(t)') \/ Blurred(t)'
    <3>1. (During(outages, t) <=> DownAt(t)) \/ Blurred(t)
      BY <1>3, <2>2, <2>3
    <3> QED BY <1>1, <3>1 DEF During, DownAt, Blurred
  <2> QED BY <2>4 DEF Tells, During
<1>5. ASSUME phase = "done", Telling, NEW p \in outages, IsOpen(p) PROVE OpenSince(p)'
  <2>1. OpenSince(p)
    BY <1>5 DEF OpenTells
  <2>2. row.status = "DOWN" /\ \E o \in truth : IsOpen(o)
    BY <1>5 DEF Sound, OpenInOrder
  <2>3. During(truth, time)
    <3>1. PICK o \in truth : IsOpen(o)
      BY <2>2
    <3>2. o.from <= time /\ time < o.to
      BY <3>1, SpansArePast, TimeIsFinite DEF Sound, Moments, IsOpen
    <3> QED BY <3>2 DEF During
  <2>4. p.from \in Nat
    BY <1>5, SpansArePast DEF Sound, Spans
  <2>5. \A t \in p.from + Skew .. time' - 1 : t \in p.from + Skew .. time - 1 \/ t = time
    BY <1>1, <2>4
  <2> QED BY <1>1, <2>1, <2>3, <2>5 DEF OpenSince, During, IsOpen
<1> QED BY <1>1, <1>2, <1>4, <1>5 DEF HistoryTells, OpenTells, IsOpen

-----------------------------------------------------------------------------
(* The backfill *)

LEMMA ScannedStreak ==
    ASSUME HistoryTyped, ~HasGap, NEW b \in DOMAIN events, events[b].down
    PROVE  /\ Begins(b) <=> StreakAt(b)
           /\ StreakAt(b) => Rebuilt(Outage(events[b].at, EndAfter(EndOf(b))), b)
<1>1. Len(events) \in Nat /\ DOMAIN events = 1 .. Len(events)
  BY TimeIsFinite
<1>2. ASSUME NEW i \in DOMAIN events, i # Len(events), events[i].down
      PROVE  i + 1 \in DOMAIN events /\ ~Gap(events[i], events[i + 1])
  <2>1. i \in 1 .. Len(events) - 1
    BY <1>1, <1>2
  <2> QED BY <1>1, <1>2, <2>1 DEF HasGap
<1>3. Begins(b) <=> StreakAt(b)
  <2>1. ASSUME b # 1, events[b - 1].down PROVE ~Gap(events[b - 1], events[b])
    <3>1. b - 1 \in DOMAIN events /\ b - 1 # Len(events) /\ (b - 1) + 1 = b
      BY <1>1, <2>1
    <3> QED BY <1>2, <2>1, <3>1
  <2> QED BY <2>1 DEF Begins, StreakAt
<1>4. ASSUME StreakAt(b) PROVE Rebuilt(Outage(events[b].at, EndAfter(EndOf(b))), b)
  <2>1. /\ EndOf(b) \in DOMAIN events /\ EndOf(b) >= b /\ Ends(EndOf(b))
        /\ \A j \in b .. EndOf(b) : j \in DOMAIN events /\ events[j].down
    BY StreaksEnd
  <2>2. PICK m \in DOMAIN events : m = EndOf(b)
    BY <2>1
  <2>3. m >= b /\ Ends(m) /\ \A j \in b .. m : events[j].down
    BY <2>1, <2>2
  <2>4. CASE m = Len(events)
    <3>1. EndAfter(m) = Open
      BY <2>4 DEF EndAfter
    <3> QED BY <1>4, <2>2, <3>1, OutageIs DEF Rebuilt, IsOpen
  <2>5. CASE m # Len(events)
    <3>1. events[m].down
      BY <2>3 DEF Ends
    <3>2. m + 1 \in DOMAIN events /\ ~Gap(events[m], events[m + 1])
      BY <1>2, <2>5, <3>1
    <3>3. ~events[m + 1].down
      BY <2>3, <2>5, <3>2 DEF Ends
    <3>4. EndAfter(m) = events[m + 1].at
      BY <2>5, <3>2 DEF EndAfter
    <3>5. FirstUp(b, m + 1)
      <4>1. m + 1 > b /\ (m + 1) - 1 = m
        BY <1>1, <2>3
      <4> QED BY <2>3, <3>2, <3>3, <4>1 DEF FirstUp
    <3> QED BY <1>4, <2>2, <3>2, <3>4, <3>5, OutageIs DEF Rebuilt
  <2> QED BY <2>4, <2>5
<1> QED BY <1>3, <1>4

LEMMA ScanFits ==
    ASSUME Sound, BackfillFits, Scans
    PROVE  BackfillFits'
<1>1. /\ phase = "recording" /\ phase' = "staged" /\ staged' = {s \in Streaks : s.from < cutoff}
      /\ UNCHANGED <<row, events, outages, cutoff, plain>>
  BY DEF Scans
<1>2. /\ Len(events) \in Nat /\ DOMAIN events = 1 .. Len(events) /\ cutoff \in Nat
      /\ \A i \in DOMAIN events : events[i].at \in Nat
  BY TimeIsFinite DEF Sound, Moments
<1> SUFFICES ASSUME plain, ~HasGap
             PROVE  /\ \A s \in staged' : \E b \in DOMAIN events : Rebuilt(s, b)
                    /\ \A b \in DOMAIN events :
                          StreakAt(b) => \/ events[b].at = cutoff
                                         \/ \E o \in outages : Fits(o, b)
                                         \/ \E s \in staged' : Rebuilt(s, b)
  BY <1>1 DEF BackfillFits, HasGap, Gap, Rebuilt, StreakAt, Fits, FirstUp, Lasts, Near, IsOpen
<1>3. ASSUME NEW s \in staged' PROVE \E b \in DOMAIN events : Rebuilt(s, b)
  <2>1. PICK b \in DOMAIN events : Begins(b) /\ s = Outage(events[b].at, EndAfter(EndOf(b)))
    BY <1>1, StreaksAre
  <2>2. events[b].down
    BY <2>1 DEF Begins
  <2> QED BY <2>1, <2>2, ScannedStreak DEF Sound
<1>4. ASSUME NEW b \in DOMAIN events, StreakAt(b), events[b].at # cutoff, ~\E o \in outages : Fits(o, b)
      PROVE  \E s \in staged' : Rebuilt(s, b)
  <2>1. events[b].at <= cutoff
    BY <1>1, <1>4 DEF BackfillFits
  <2>2. Begins(b) /\ Rebuilt(Outage(events[b].at, EndAfter(EndOf(b))), b)
    BY <1>4, ScannedStreak DEF Sound, StreakAt
  <2>3. Outage(events[b].at, EndAfter(EndOf(b))) \in Streaks
    BY <2>2 DEF Streaks, EndOf
  <2>4. events[b].at < cutoff
    BY <1>2, <1>4, <2>1
  <2> QED BY <1>1, <2>2, <2>3, <2>4, OutageIs
<1> QED BY <1>3, <1>4

\* What was rebuilt of the time before the cutoff: its ends are the events' stamps.
Exact(q, b) ==
    /\ q.from = events[b].at /\ events[b].at < cutoff
    /\ IsOpen(q) \/ \E k \in DOMAIN events : FirstUp(b, k) /\ q.to = events[k].at

LEMMA ExactFits ==
    ASSUME HistoryTyped, NEW q, NEW b \in DOMAIN events, StreakAt(b), Exact(q, b), IsOpen(q) => Lasts(b)
    PROVE  Fits(q, b)
<1>1. Skew \in Nat /\ \A i \in DOMAIN events : events[i].at \in Nat
  BY TimeIsFinite DEF Moments
<1>2. \A i \in DOMAIN events : \A m : m = events[i].at => Near(m, i)
  BY <1>1 DEF Near
<1> QED BY <1>2 DEF Fits, Exact

\* A streak that was rebuilt without an end has the one the events tell.
LEMMA ResolvedExact ==
    ASSUME Sound, TruthFits, plain, NEW u \in staged, NEW b \in DOMAIN events, Rebuilt(u, b)
    PROVE  /\ Recoveries(u) = {} => Lasts(b)
           /\ \A o \in Resolved(u) : Exact(o, b) /\ (IsOpen(o) => Lasts(b))
           /\ Resolved(u) = {} => Lasts(b) /\ \E o \in outages : IsOpen(o)
<1>1. /\ Len(events) \in Nat /\ DOMAIN events = 1 .. Len(events) /\ events \in Seq(Event)
      /\ \A i \in DOMAIN events : events[i].at \in Nat
      /\ HistoryTyped
  BY TimeIsFinite DEF Sound, Moments
<1>2. /\ \A i, j \in DOMAIN events : i < j => events[i].at < events[j].at
      /\ row.status = "DOWN" <=> events # <<>> /\ events[Len(events)].down
  BY DEF TruthFits
<1>3. events[b].down /\ u.from = events[b].at /\ u.from < cutoff
  BY DEF Rebuilt, StreakAt, Sound, HistoryTyped
<1>4. ASSUME NEW j \in DOMAIN events, j >= b, ~events[j].down PROVE j > b /\ events[j] \in Recoveries(u)
  <2>1. j > b
    BY <1>1, <1>3, <1>4
  <2>2. events[b].at < events[j].at
    BY <1>2, <2>1
  <2> QED BY <1>1, <1>3, <1>4, <2>1, <2>2 DEF Recoveries, ToSet
<1>5. Recoveries(u) = {} => Lasts(b)
  BY <1>4 DEF Lasts
<1>6. Lasts(b) => row.status = "DOWN"
  <2>1. Len(events) \in DOMAIN events /\ Len(events) >= b /\ events # <<>>
    BY <1>1
  <2> QED BY <1>2, <2>1 DEF Lasts
<1>7. CASE Recoveries(u) # {}
  <2>1. PICK e \in Recoveries(u) :
           (\A f \in Recoveries(u) : e.at <= f.at) /\ Resolved(u) = {Outage(u.from, e.at)}
    BY <1>1, <1>7, ResolvesTo
  <2>2. PICK k \in DOMAIN events : e = events[k]
    BY <2>1 DEF Recoveries, ToSet
  <2>3. ~events[k].down /\ events[k].at > events[b].at
    BY <1>3, <2>1, <2>2 DEF Recoveries
  <2>4. k > b
    <3>1. k # b
      BY <1>1, <2>3
    <3>2. ~(k < b)
      BY <1>1, <1>2, <2>3
    <3> QED BY <1>1, <3>1, <3>2
  <2>5. \A j \in b .. k - 1 : events[j].down
    <3> SUFFICES ASSUME NEW j \in b .. k - 1, ~events[j].down PROVE FALSE
      OBVIOUS
    <3>1. j \in DOMAIN events /\ j >= b /\ j < k
      BY <1>1
    <3>2. events[j] \in Recoveries(u)
      BY <1>4, <3>1
    <3>3. events[k].at <= events[j].at /\ events[j].at < events[k].at
      BY <1>2, <2>1, <2>2, <3>1, <3>2
    <3> QED BY <1>1, <3>1, <3>3
  <2>6. FirstUp(b, k)
    BY <2>3, <2>4, <2>5 DEF FirstUp
  <2>7. ~IsOpen(Outage(u.from, e.at))
    <3>1. e.at \in Moments
      BY <2>2, TimeIsFinite DEF Sound
    <3> QED BY <3>1, TimeIsFinite, OutageIs DEF Sound, Moments, IsOpen
  <2>8. Exact(Outage(u.from, e.at), b)
    BY <1>3, <2>2, <2>6, OutageIs DEF Exact
  <2> QED BY <1>5, <2>1, <2>7, <2>8
<1>8. CASE Recoveries(u) = {}
  <2>1. Lasts(b) /\ row.status = "DOWN"
    BY <1>5, <1>6, <1>8
  <2>2. (Resolved(u) = {} /\ \E o \in outages : IsOpen(o)) \/ Resolved(u) = {u}
    BY <1>1, <1>8, <2>1, ResolvesTo
  <2>3. IsOpen(u)
    <3> SUFFICES ASSUME ~IsOpen(u) PROVE FALSE
      OBVIOUS
    <3>1. PICK k \in DOMAIN events : FirstUp(b, k)
      BY DEF Rebuilt
    <3> QED BY <1>1, <2>1, <3>1 DEF FirstUp, Lasts
  <2>4. Exact(u, b)
    BY <1>3, <2>3 DEF Exact
  <2> QED BY <2>1, <2>2, <2>4
<1> QED BY <1>7, <1>8

LEMMA MergeFits ==
    ASSUME Sound, TruthFits, BackfillFits, phase = "staged", Telling
    PROVE  /\ \A q \in Inserted : \E b \in DOMAIN events : Fits(q, b) /\ (q \in outages \/ Exact(q, b))
           /\ \A b \in DOMAIN events : StreakAt(b) => \E q \in Inserted : Fits(q, b)
<1> DEFINE S == outages \cup Finished \cup Unfinished
<1>1. /\ Len(events) \in Nat /\ DOMAIN events = 1 .. Len(events) /\ events \in Seq(Event)
      /\ HistoryTyped /\ plain /\ ~HasGap
  BY TimeIsFinite DEF Sound, Telling
<1>2. /\ row.status = "DOWN" <=> events # <<>> /\ events[Len(events)].down
      /\ \A o \in truth : \E b \in DOMAIN events : Fits(o, b)
  BY <1>1 DEF TruthFits
<1>3. \A o \in outages : \E b \in DOMAIN events : Fits(o, b)
  BY <1>2 DEF Sound, PhaseInOrder
<1>4. \A s \in staged : \E b \in DOMAIN events : Rebuilt(s, b)
  BY <1>1 DEF BackfillFits
<1>5. ASSUME NEW q \in Finished, NEW b \in DOMAIN events, Rebuilt(q, b) PROVE Exact(q, b) /\ Fits(q, b)
  <2>1. q \in staged /\ ~IsOpen(q) /\ q.from < cutoff
    BY <1>1 DEF Finished, HistoryTyped
  <2>2. Exact(q, b)
    BY <1>5, <2>1 DEF Rebuilt, Exact
  <2> QED BY <1>1, <1>5, <2>1, <2>2, ExactFits DEF Rebuilt
<1>6. ASSUME NEW u \in staged, NEW q \in Resolved(u), NEW b \in DOMAIN events, Rebuilt(u, b)
      PROVE  Exact(q, b) /\ Fits(q, b)
  <2>1. Exact(q, b) /\ (IsOpen(q) => Lasts(b))
    BY <1>1, <1>6, ResolvedExact
  <2> QED BY <1>1, <1>6, <2>1, ExactFits DEF Rebuilt
<1>7. ASSUME NEW q \in S
      PROVE  \E b \in DOMAIN events : Fits(q, b) /\ (q \in outages \/ Exact(q, b))
  <2>1. CASE q \in outages
    BY <1>3, <2>1
  <2>2. CASE q \in Finished
    BY <1>4, <1>5, <2>2 DEF Finished
  <2>3. CASE q \in Unfinished
    <3>1. PICK u \in staged : q \in Resolved(u)
      BY <2>3 DEF Unfinished
    <3> QED BY <1>4, <1>6, <3>1
  <2> QED BY <2>1, <2>2, <2>3
<1>8. ASSUME NEW b \in DOMAIN events, StreakAt(b)
      PROVE  \E q \in S : Fits(q, b)
  <2>1. events[b].at # cutoff
    BY <1>1 DEF Telling, ToSet
  <2>2. (\E o \in outages : Fits(o, b)) \/ \E s \in staged : Rebuilt(s, b)
    BY <1>1, <1>8, <2>1 DEF BackfillFits
  <2>3. CASE \E o \in outages : Fits(o, b)
    BY <2>3
  <2>4. ASSUME NEW s \in staged, Rebuilt(s, b) PROVE \E q \in S : Fits(q, b)
    <3>1. CASE s \in Finished
      BY <1>5, <2>4, <3>1
    <3>2. CASE s \notin Finished
      <4>1. \A q \in Resolved(s) : q \in S /\ Fits(q, b)
        BY <1>6, <2>4, <3>2 DEF Unfinished
      <4>2. CASE Resolved(s) = {}
        <5>1. Lasts(b) /\ \E o \in outages : IsOpen(o)
          BY <1>1, <2>4, <4>2, ResolvedExact
        <5>2. PICK o \in outages : IsOpen(o)
          BY <5>1
        <5>3. PICK c \in DOMAIN events : Fits(o, c)
          BY <1>3
        <5>4. StreakAt(c) /\ Lasts(c)
          BY <5>2, <5>3 DEF Fits
        <5>5. c = b
          BY <1>1, <1>8, <5>1, <5>4, LastsUnique
        <5> QED BY <5>3, <5>5
      <4> QED BY <4>1, <4>2
    <3> QED BY <3>1, <3>2
  <2> QED BY <2>2, <2>3, <2>4
<1>9. Inserted = S
  <2>1. row.status = "DOWN" => \E q \in S : IsOpen(q)
    <3> SUFFICES ASSUME row.status = "DOWN" PROVE \E q \in S : IsOpen(q)
      OBVIOUS
    <3>1. PICK i \in DOMAIN events : i = Len(events) /\ events[i].down
      BY <1>1, <1>2
    <3>2. PICK b \in 1 .. i : StreakAt(b) /\ \A j \in b .. i : events[j].down
      BY <1>1, <3>1, StreakOf
    <3>3. b \in DOMAIN events /\ Lasts(b)
      BY <1>1, <3>1, <3>2 DEF StreakAt, Lasts
    <3>4. PICK q \in S : Fits(q, b)
      BY <1>8, <3>2, <3>3
    <3>5. IsOpen(q)
      <4> SUFFICES ASSUME ~IsOpen(q) PROVE FALSE
        OBVIOUS
      <4>1. PICK k \in DOMAIN events : FirstUp(b, k)
        BY <3>4 DEF Fits
      <4> QED BY <1>1, <3>3, <4>1 DEF FirstUp, Lasts
    <3> QED BY <3>5
  <2>2. Completed(S) = S
    BY <2>1 DEF Completed
  <2> QED BY <2>2, InsertedIs
<1> QED BY <1>7, <1>8, <1>9

LEMMA MergeTells ==
    ASSUME Sound, TruthFits, BackfillFits, Merges
    PROVE  HistoryTells' /\ OpenTells'
<1>1. /\ phase = "staged" /\ outages' = Islands(Inserted)
      /\ UNCHANGED <<time, row, events, cutoff, truth, plain>>
  BY DEF Merges
<1>2. Telling' => Telling
  BY <1>1 DEF Telling, HasGap, Gap
<1>3. Inserted \in SUBSET Spans /\ OneOpen(Inserted)
  BY InsertedSound
<1> SUFFICES ASSUME Telling
             PROVE  Tells(outages)' /\ \A p \in outages' : IsOpen(p) => OpenSince(p)
  BY <1>1, <1>2 DEF HistoryTells, OpenTells, OpenSince, IsOpen, During
<1>4. /\ HistoryTyped /\ plain /\ Increasing
      /\ \A o \in truth : \E b \in DOMAIN events : Fits(o, b)
      /\ \A b \in DOMAIN events : StreakAt(b) => \E o \in truth : Fits(o, b)
  BY DEF Sound, Telling, TruthFits, Increasing
<1>5. /\ Len(events) \in Nat /\ DOMAIN events = 1 .. Len(events) /\ Skew \in Nat /\ cutoff \in Nat
      /\ time \in Nat /\ time < Open /\ Open \in Nat
      /\ \A i \in DOMAIN events : events[i].at \in Nat
  BY <1>4, TimeIsFinite DEF Moments
<1>6. /\ \A q \in Inserted : \E b \in DOMAIN events : Fits(q, b) /\ (q \in outages \/ Exact(q, b))
      /\ \A b \in DOMAIN events : StreakAt(b) => \E q \in Inserted : Fits(q, b)
  BY <1>1, MergeFits
<1>7. Tells(Inserted)
  BY <1>3, <1>4, <1>6, FitsTell
<1>8. Tells(outages)'
  <2> SUFFICES ASSUME NEW t \in 0 .. time - 1
               PROVE  (During(outages', t) <=> DownAt(t)) \/ Blurred(t)
    BY <1>1 DEF Tells, During, DownAt, Blurred
  <2>1. During(outages', t) <=> During(Inserted, t)
    BY <1>1, <1>3, IslandsCover
  <2> QED BY <1>7, <2>1 DEF Tells
<1>9. ASSUME NEW p \in outages', IsOpen(p), NEW o \in truth, IsOpen(o) PROVE p.from <= o.from
  <2>1. PICK q \in IslandAt(Inserted, p.from) : IsOpen(q)
    BY <1>1, <1>3, <1>9, OpenIslands
  <2>2. q \in Inserted /\ q.from >= p.from /\ q.from \in Nat
    BY <1>3, <2>1 DEF IslandAt, Spans
  <2>3. p.from \in Nat
    BY <1>1, <1>3, IslandsEnd DEF Spans
  <2>4. PICK b \in DOMAIN events : Fits(q, b) /\ (q \in outages \/ Exact(q, b))
    BY <1>6, <2>2
  <2>5. q.from <= o.from
    <3>1. CASE q \in outages
      <4>1. q \in truth
        BY <1>1, <3>1 DEF Sound, PhaseInOrder
      <4>2. q = o
        BY <1>9, <2>1, <4>1 DEF Sound, OpenInOrder, OneOpen
      <4> QED BY <2>2, <4>2
    <3>2. CASE Exact(q, b)
      <4>1. PICK c \in DOMAIN events : Fits(o, c)
        BY <1>4
      <4>2. StreakAt(b) /\ StreakAt(c) /\ Lasts(b) /\ Lasts(c)
        BY <1>9, <2>1, <2>4, <4>1 DEF Fits
      <4>3. b = c
        BY <1>4, <4>2, LastsUnique
      <4> QED BY <3>2, <4>1, <4>3 DEF Exact, Fits, Near
    <3> QED BY <2>4, <3>1, <3>2
  <2>6. o.from \in Nat
    BY <1>4, SpansArePast DEF Spans
  <2> QED BY <2>2, <2>3, <2>5, <2>6
<1>10. ASSUME NEW p \in outages', IsOpen(p), NEW t \in p.from + Skew .. time - 1, ~During(truth, t)
       PROVE  FALSE
  <2>1. p.from \in Nat /\ p.from \in Starts(Inserted) /\ p.to = Open
    BY <1>1, <1>3, <1>10, IslandsEnd DEF Spans, IsOpen
  <2>2. t \in Nat /\ t < time /\ p.from + Skew <= t
    BY <1>5, <2>1
  <2>3. During(outages', t)
    BY <1>5, <2>1, <2>2 DEF During
  <2>4. PICK q \in Inserted : q.from <= t /\ t < q.to
    <3>1. During(Inserted, t)
      BY <1>1, <1>3, <2>2, <2>3, IslandsCover
    <3> QED BY <3>1 DEF During
  <2>5. q \notin outages
    BY <1>1, <1>10, <2>4 DEF During, Sound, PhaseInOrder
  <2>6. PICK b \in DOMAIN events : Fits(q, b) /\ Exact(q, b)
    BY <1>6, <2>5
  <2>7. PICK o \in truth : Fits(o, b)
    BY <1>4, <2>6 DEF Fits
  <2>8. q \in Spans /\ o \in Spans
    BY <1>3, <1>4, SpansArePast
  <2>9. t < o.to
    <3>1. CASE IsOpen(o)
      BY <1>5, <2>2, <3>1 DEF IsOpen
    <3>2. CASE ~IsOpen(o)
      <4>1. PICK k \in DOMAIN events : FirstUp(b, k) /\ Near(o.to, k)
        BY <2>7, <3>2 DEF Fits
      <4>2. ~IsOpen(q)
        <5> SUFFICES ASSUME IsOpen(q) PROVE FALSE
          OBVIOUS
        <5>1. Lasts(b)
          BY <2>6 DEF Fits
        <5> QED BY <1>5, <4>1, <5>1 DEF FirstUp, Lasts
      <4>3. PICK l \in DOMAIN events : FirstUp(b, l) /\ q.to = events[l].at
        BY <2>6, <4>2 DEF Exact
      <4>4. k = l
        BY <1>4, <4>1, <4>3, FirstsUnique
      <4>5. q.to <= o.to
        BY <4>1, <4>3, <4>4 DEF Near
      <4> QED BY <2>2, <2>4, <2>8, <4>5 DEF Spans
    <3> QED BY <3>1, <3>2
  <2>10. t < o.from
    BY <1>10, <2>2, <2>8, <2>9 DEF During, Spans
  <2>11. o.from <= events[b].at + Skew /\ q.from = events[b].at /\ events[b].at < cutoff
    BY <2>6, <2>7 DEF Fits, Near, Exact
  <2>12. p.from < q.from
    BY <1>5, <2>1, <2>2, <2>8, <2>10, <2>11 DEF Spans
  \* It is not where the island starts, so that another one reaches it.
  <2>13. ~IslandStarts(Inserted, q.from)
    <3> SUFFICES ASSUME IslandStarts(Inserted, q.from) PROVE FALSE
      OBVIOUS
    <3>1. q.from \in Starts(Inserted)
      BY DEF Starts
    <3>2. PICK m \in IslandAt(Inserted, p.from) : IsOpen(m)
      BY <1>1, <1>3, <1>10, OpenIslands
    <3>3. m \in Inserted /\ m.from < q.from
      BY <2>12, <3>1, <3>2 DEF IslandAt
    <3>4. m.to < q.from
      BY <3>3 DEF IslandStarts
    <3>5. q.from < Open
      BY <1>5, <2>2, <2>4, <2>8 DEF Spans
    <3> QED BY <1>5, <2>8, <3>2, <3>4, <3>5 DEF IsOpen, Spans
  <2>14. PICK r \in Inserted : r.from < q.from /\ ~(r.to < q.from)
    BY <2>13 DEF IslandStarts
  <2>15. r \in Spans
    BY <1>3
  <2>16. PICK c \in DOMAIN events : Fits(r, c) /\ (r \in outages \/ Exact(r, c))
    BY <1>6
  <2>17. CASE r \in outages
    <3>1. r.from >= cutoff
      BY <1>1, <2>17 DEF Sound, PhaseInOrder
    <3> QED BY <1>5, <2>8, <2>11, <2>14, <2>15, <3>1 DEF Spans
  <2>18. CASE Exact(r, c)
    <3>1. c < b
      <4>1. events[c].at < events[b].at
        BY <2>11, <2>14, <2>18 DEF Exact
      <4>2. c # b
        BY <1>5, <4>1
      <4>3. ~(b < c)
        BY <1>4, <1>5, <4>1 DEF Increasing
      <4> QED BY <1>5, <4>2, <4>3
    <3>2. StreakAt(b) /\ StreakAt(c)
      BY <2>6, <2>16 DEF Fits
    <3>3. b # 1 /\ b - 1 \in DOMAIN events /\ b - 1 >= c /\ ~events[b - 1].down
      BY <1>5, <3>1, <3>2 DEF StreakAt
    <3>4. ~Lasts(c)
      BY <3>3 DEF Lasts
    <3>5. ~IsOpen(r)
      BY <2>16, <3>4 DEF Fits
    <3>6. PICK k \in DOMAIN events : FirstUp(c, k) /\ r.to = events[k].at
      BY <2>18, <3>5 DEF Exact
    <3>7. k < b
      <4> SUFFICES ASSUME ~(k < b) PROVE FALSE
        OBVIOUS
      <4>1. b - 1 \in c .. k - 1
        BY <1>5, <3>3
      <4> QED BY <3>3, <3>6, <4>1 DEF FirstUp
    <3>8. events[k].at < events[b].at
      BY <1>4, <3>7 DEF Increasing
    <3> QED BY <1>5, <2>11, <2>14, <3>6, <3>8
  <2> QED BY <2>16, <2>17, <2>18
<1> QED BY <1>8, <1>9, <1>10 DEF OpenSince

-----------------------------------------------------------------------------
(* The overview *)

\* Who was heard of last is known by each report.
LEMMA WriteHeard ==
    ASSUME Sound, LastHeard, WriteStep
    PROVE  LastHeard'
<1> SUFFICES ASSUME plain', NEW e \in ToSet(events')
             PROVE  e.at <= row'.lastEventAt \/ (e.down /\ row'.status = "DOWN")
  BY DEF LastHeard
<1>1. PICK at \in Stamps, down \in BOOLEAN : ReportStep(at, down) /\ Appended(at, down)
  BY PlainReports
<1>2. /\ plain /\ (row'.status = "DOWN" <=> down) /\ at \in Nat
      /\ row'.lastEventAt = at \/ (down /\ row.status = "UP" /\ row'.lastEventAt = row.lastEventAt)
  BY <1>1 DEF ReportStep, Appended, Moments
<1>3. PICK j \in DOMAIN events' : e = events'[j]
  BY DEF ToSet
<1>4. CASE j \in DOMAIN events
  <2>1. e = events[j] /\ e.at < at /\ e \in ToSet(events) /\ e.at \in Nat
    BY <1>1, <1>3, <1>4, TimeIsFinite DEF Appended, ToSet, Sound, Moments
  <2>2. row.status = "UP" => e.at <= row.lastEventAt
    BY <1>2, <2>1 DEF LastHeard
  <2> QED BY <1>2, <2>1, <2>2
<1>5. CASE j \notin DOMAIN events
  <2>1. Len(events) \in Nat /\ DOMAIN events = 1 .. Len(events) /\ DOMAIN events' = 1 .. Len(events) + 1
    BY <1>1, TimeIsFinite DEF Appended, Sound
  <2>2. j = Len(events) + 1
    BY <1>3, <1>5, <2>1
  <2>3. e.at = at /\ (e.down <=> down)
    BY <1>1, <1>3, <2>2 DEF Appended
  <2>4. at <= at
    BY <1>2
  <2> QED BY <1>2, <2>3, <2>4
<1> QED BY <1>4, <1>5

\* What is written between the reads leaves what was read as good as it was.
LEMMA WriteRead ==
    ASSUME Sound, RowRead, view.now \in 0 .. time, WriteStep
    PROVE  RowRead'
<1>1. /\ time' = time /\ view' = view /\ time \in Nat /\ time < Open /\ Open \in Nat /\ Skew \in Nat /\ view.now \in Nat
      /\ \A o \in truth : o.from \in Nat
  BY TimeIsFinite, SpansArePast DEF Sound, WriteStep, SetsStatus, Moments
<1>2. ASSUME view.row.status = "DOWN" PROVE \E o \in truth' : o.to >= view.now
  <2>1. PICK o \in truth : o.to >= view.now
    BY <1>2 DEF RowRead
  <2>2. \/ o \in truth'
        \/ Outage(o.from, time) \in truth'
    BY WriteRecords, RecordsOutages DEF Sound
  <2>3. Outage(o.from, time).to >= view.now
    BY <1>1, OutageIs
  <2> QED BY <2>1, <2>2, <2>3
<1>3. ASSUME NEW o \in truth', IsOpen(o), o.from < view.now PROVE view.row.status = "DOWN"
  <2>1. o \in truth \/ o = Outage(time, Open) \/ \E p \in truth : o = Outage(p.from, time)
    BY WriteRecords, RecordsOutages DEF Sound
  <2>2. o # Outage(time, Open)
    BY <1>1, <1>3, OutageIs
  <2>3. \A p \in truth : o # Outage(p.from, time)
    BY <1>1, <1>3, OutageIs DEF IsOpen
  <2> QED BY <1>3, <2>1, <2>2, <2>3 DEF RowRead
<1>4. ASSUME plain', NEW e \in ToSet(events')
      PROVE  \/ e.at <= view.row.lastEventAt
             \/ e.at >= view.now - Skew
             \/ e.down /\ view.row.status = "DOWN"
  <2>1. PICK at \in Stamps, down \in BOOLEAN : Appended(at, down)
    BY <1>4, PlainReports
  <2>2. PICK j \in DOMAIN events' : e = events'[j]
    BY <1>4 DEF ToSet
  <2>3. CASE j \in DOMAIN events
    BY <2>1, <2>2, <2>3 DEF Appended, RowRead, ToSet
  <2>4. CASE j \notin DOMAIN events
    <3>1. Len(events) \in Nat /\ DOMAIN events = 1 .. Len(events) /\ DOMAIN events' = 1 .. Len(events) + 1
      BY <2>1, TimeIsFinite DEF Appended, Sound
    <3>2. j = Len(events) + 1
      BY <2>2, <2>4, <3>1
    <3>3. e.at = at /\ at \in Nat /\ time <= at + Skew
      BY <2>1, <2>2, <3>2 DEF Appended, Moments
    <3> QED BY <1>1, <3>3
  <2> QED BY <2>3, <2>4
<1> QED BY <1>1, <1>2, <1>3, <1>4 DEF RowRead

\* What is read of the check is what it is.
LEMMA RowIsRead ==
    ASSUME Sound, LastHeard, view.pc = "checks", view.now \in 0 .. time, ReadsChecks
    PROVE  RowRead'
<1>1. /\ view' = [view EXCEPT !.pc = "outages", !.row = row] /\ view \in Views
      /\ UNCHANGED <<time, events, truth, plain>>
  BY DEF ReadsChecks, Sound, HistoryTyped
<1>2. view'.row = row /\ view'.now = view.now
  BY <1>1 DEF Views
<1>3. /\ row \in Rows /\ row.lastEventAt \in {NoEvent} \cup 0 .. time /\ time \in Nat /\ time < Open
      /\ NoEvent \in Int /\ NoEvent < 0 /\ Open \in Nat /\ view.now \in Nat
  BY TimeIsFinite DEF Sound, HistoryTyped, HistoryTypeOK
<1>4. row.lastEventAt <= time
  BY <1>3
<1>5. row.status = "DOWN" => \E o \in truth : o.to >= view.now
  <2> SUFFICES ASSUME row.status = "DOWN" PROVE \E o \in truth : o.to >= view.now
    OBVIOUS
  <2>1. PICK o \in truth : o.to = Open
    BY DEF Sound, OpenInOrder, IsOpen
  <2>2. Open >= view.now
    BY <1>3
  <2> QED BY <2>1, <2>2
<1>6. \A o \in truth : IsOpen(o) => row.status = "DOWN"
  BY DEF Sound, OpenInOrder
<1> QED BY <1>1, <1>2, <1>3, <1>4, <1>5, <1>6 DEF RowRead, LastHeard, IsOpen

LEMMA ViewStays ==
    ASSUME Sound, LastHeard, ViewInOrder, [HistoryNext]_historyVars
    PROVE  ViewInOrder'
<1>1. time \in Nat /\ view \in Views
  BY TimeIsFinite DEF Sound, HistoryTyped
<1>2. ASSUME UNCHANGED <<events, truth, plain>>, time' >= time, time' \in Nat,
             view'.now = view.now, view'.row = view.row, RowRead
      PROVE  RowRead'
  <2>1. view.row.lastEventAt <= time'
    <3>1. view.row.lastEventAt \in Int /\ view.row.lastEventAt <= time
      BY <1>2, TimeIsFinite DEF RowRead, Rows, Sound
    <3> QED BY <1>1, <1>2, <3>1
  <2> QED BY <1>2, <2>1 DEF RowRead, IsOpen
<1>3. CASE Writers
  <2>1. WriteStep
    BY <1>3, WritersWrite DEF Sound
  <2>2. view' = view /\ phase' = phase /\ time' = time /\ view.pc # "done"
    BY <2>1 DEF WriteStep, SetsStatus
  <2> QED BY <2>1, <2>2, WriteRead DEF ViewInOrder
<1>4. CASE TimePasses
  <2>1. UNCHANGED <<row, events, truth, plain, outages, phase, view>> /\ time' = time + 1 /\ view.pc # "done"
    BY <1>4 DEF TimePasses, migration
  <2>2. 0 .. time \subseteq 0 .. time' /\ time' >= time /\ time' \in Nat
    BY <1>1, <2>1
  <2>3. RowRead => RowRead'
    BY <1>2, <2>1, <2>2
  <2> QED BY <2>1, <2>2, <2>3 DEF ViewInOrder
<1>5. CASE Migrates
  <2>1. phase # "done" /\ view' = view
    BY <1>5 DEF Migrates, Installs, Scans, RollsBack, Merges
  <2> QED BY <2>1 DEF ViewInOrder
<1>6. CASE Asks
  <2>1. /\ phase = "done" /\ view' = [view EXCEPT !.pc = "checks", !.now = time]
        /\ UNCHANGED <<time, row, outages, phase>>
    BY <1>6 DEF Asks, migration
  <2>2. view'.pc = "checks" /\ view'.now = time
    BY <1>1, <2>1 DEF Views
  <2> QED BY <1>1, <2>1, <2>2 DEF ViewInOrder
<1>7. CASE ReadsChecks
  <2>1. /\ view.pc = "checks" /\ view' = [view EXCEPT !.pc = "outages", !.row = row]
        /\ UNCHANGED <<time, row, outages, phase>>
    BY <1>7 DEF ReadsChecks, migration
  <2>2. view'.pc = "outages" /\ view'.now = view.now
    BY <1>1, <2>1 DEF Views
  <2>3. RowRead'
    BY <1>7, <2>1, RowIsRead DEF ViewInOrder
  <2> QED BY <2>1, <2>2, <2>3 DEF ViewInOrder
<1>8. CASE ReadsOutages
  <2>1. /\ view.pc = "outages"
        /\ view' = [view EXCEPT !.pc = "done", !.at = time,
                                !.outages = {o \in outages : Overlaps(o, view.now, view.now - Period)}]
        /\ UNCHANGED <<time, row, events, truth, plain, outages, phase>>
    BY <1>8 DEF ReadsOutages, migration
  <2>2. /\ view'.pc = "done" /\ view'.now = view.now /\ view'.row = view.row /\ view'.at = time
        /\ view'.outages = {o \in outages : Overlaps(o, view.now, view.now - Period)}
    BY <1>1, <2>1 DEF Views
  <2>3. time' >= time /\ time' \in Nat
    BY <1>1, <2>1
  <2>4. RowRead'
    BY <1>2, <2>1, <2>2, <2>3 DEF ViewInOrder
  <2> QED BY <2>1, <2>2, <2>4 DEF ViewInOrder
<1>9. CASE UNCHANGED historyVars
  <2>1. UNCHANGED <<time, row, events, truth, plain, outages, phase, view>>
    BY <1>9 DEF historyVars
  <2>2. time' >= time /\ time' \in Nat
    BY <1>1, <2>1
  <2>3. RowRead => RowRead'
    BY <1>2, <2>1, <2>2
  <2> QED BY <2>1, <2>3 DEF ViewInOrder
<1> QED BY <1>3, <1>4, <1>5, <1>6, <1>7, <1>8, <1>9 DEF HistoryNext, Reader

\* Since when a check that was DOWN needs fixing: since its open outage, if that
\* was read; else since its last event, or the query.
LEMMA SinceIs ==
    ASSUME Sound, ViewInOrder, view.pc = "done"
    PROVE  /\ \A p \in outages : IsOpen(p) /\ p.from < view.now => DownSince(Query, view.row) = p.from
           /\ DownSince(Query, view.row) <= view.at
           /\ (\A o \in view.outages : ~IsOpen(o)) =>
                DownSince(Query, view.row) = IF view.row.lastEventAt # NoEvent THEN view.row.lastEventAt ELSE view.now
<1>1. /\ phase = "done" /\ view.now \in 0 .. time /\ view.at = time
      /\ view.row \in Rows /\ view.row.lastEventAt <= time
      /\ view.outages = {o \in outages : Overlaps(o, view.now, view.now - Period)}
  BY DEF ViewInOrder, RowRead
<1>2. /\ time \in Nat /\ time < Open /\ Open \in Nat /\ Period \in Nat
      /\ OneOpen(outages)
  BY TimeIsFinite DEF Sound, HistoryTyped, OpenInOrder
<1> DEFINE opens == {o \in OutagesOf(Query, view.row) : o.to = Open}
<1>3. Query.outages = view.outages /\ Query.now = view.now /\ view.row.id = "c"
  BY <1>1, <1>2 DEF Query, Rows
<1>4. opens = {o \in view.outages : IsOpen(o)}
  <2>1. \A o \in view.outages : o.check = "c"
    BY <1>1, SpansArePast DEF Sound
  <2> QED BY <1>3, <2>1 DEF OutagesOf, IsOpen
<1>5. ASSUME NEW p \in outages, IsOpen(p), p.from < view.now PROVE opens = {p}
  <2>1. p.to > view.now - Period
    BY <1>1, <1>2, <1>5 DEF IsOpen
  <2>2. p \in view.outages
    BY <1>1, <1>5, <2>1 DEF Overlaps
  <2>3. \A o \in view.outages : IsOpen(o) => o = p
    BY <1>1, <1>2, <1>5 DEF OneOpen
  <2> QED BY <1>4, <1>5, <2>2, <2>3
<1>6. opens = {} => DownSince(Query, view.row) = IF view.row.lastEventAt # NoEvent THEN view.row.lastEventAt ELSE view.now
  BY <1>3 DEF DownSince
<1>7. \A p \in outages : opens = {p} => DownSince(Query, view.row) = p.from
  <2> SUFFICES ASSUME NEW p \in outages, opens = {p} PROVE DownSince(Query, view.row) = p.from
    OBVIOUS
  <2>1. (CHOOSE o \in opens : TRUE) = p /\ opens # {}
    OBVIOUS
  <2> QED BY <2>1 DEF DownSince
<1>8. DownSince(Query, view.row) <= view.at
  <2>1. CASE opens = {}
    <3>1. view.now <= time
      BY <1>1, <1>2
    <3> QED BY <1>1, <1>6, <2>1, <3>1
  <2>2. CASE opens # {}
    <3>1. PICK p \in opens : TRUE
      BY <2>2
    <3>2. p \in outages /\ IsOpen(p) /\ p.from < view.now
      BY <1>1, <1>4, <3>1 DEF Overlaps
    <3>3. p.from \in 0 .. time
      BY <3>2, SpansArePast DEF Sound, Moments
    <3>4. opens = {p}
      BY <1>5, <3>2
    <3> QED BY <1>1, <1>2, <1>7, <3>2, <3>3, <3>4
  <2> QED BY <2>1, <2>2
<1> QED BY <1>4, <1>5, <1>6, <1>7, <1>8

LEMMA FixesAre ==
    ASSUME NEW e \in needsFixing(Query)
    PROVE  \/ e.state = "DOWN" /\ view.row.status = "DOWN" /\ e.since = DownSince(Query, view.row)
           \/ e.state = "LATE" /\ lateState(Query, view.row) /\ e.since = view.row.lastEventAt + view.row.period
<1>1. Query.checks = {view.row}
  BY DEF Query
<1> QED BY <1>1 DEF needsFixing

\* The history tells since when a check is DOWN that was so throughout the query.
LEMMA DownIsTold ==
    ASSUME Sound, OpenTells, ViewInOrder, view.pc = "done", Telling,
           NEW o \in truth, IsOpen(o), o.from < view.now
    PROVE  /\ DownSince(Query, view.row) <= o.from
           /\ \A t \in DownSince(Query, view.row) + Skew .. view.at - 1 : During(truth, t)
<1>1. phase = "done" /\ view.now \in 0 .. time /\ view.at = time
  BY DEF ViewInOrder
<1>2. row.status = "DOWN"
  BY DEF Sound, OpenInOrder
<1>3. PICK p \in outages : IsOpen(p)
  BY <1>1, <1>2 DEF Sound, PhaseInOrder, Opened
<1>4. OpenSince(p)
  BY <1>1, <1>3 DEF OpenTells
<1>5. p.from <= o.from
  BY <1>4 DEF OpenSince
<1>6. p.from \in Nat /\ o.from \in Nat /\ view.now \in Nat
  BY <1>1, SpansArePast DEF Sound, Spans
<1>7. DownSince(Query, view.row) = p.from
  <2>1. p.from < view.now
    BY <1>5, <1>6
  <2> QED BY <1>3, <2>1, SinceIs
<1> QED BY <1>1, <1>4, <1>5, <1>7 DEF OpenSince

LEMMA FixingIsRight ==
    ASSUME Sound, OpenTells, ViewInOrder
    PROVE  FixedWhenBroken
<1> DEFINE fix == needsFixing(Query)
           down == {e \in fix : e.state = "DOWN"}
           late == {e \in fix : e.state = "LATE"}
<1> SUFFICES ASSUME view.pc = "done"
             PROVE  /\ \A e \in fix : e.since <= view.at
                    /\ down # {} => \E o \in truth : o.to >= view.now
                    /\ \A o \in truth : IsOpen(o) /\ o.from < view.now =>
                          /\ down # {} /\ late = {}
                          /\ Telling => \A e \in down : /\ e.since <= o.from
                                                        /\ \A t \in e.since + Skew .. view.at - 1 : During(truth, t)
                    /\ plain =>
                          /\ (\A o \in view.outages : ~IsOpen(o)) =>
                                \A e \in down : NoneSince({f \in ToSet(events) : ~f.down}, e.since)
                          /\ \A e \in late : NoneSince(ToSet(events), e.since - Interval)
  BY DEF FixedWhenBroken
<1>1. /\ phase = "done" /\ view.now \in 0 .. time /\ view.at = time /\ RowRead /\ view.row \in Rows
      /\ time \in Nat /\ Skew \in Nat /\ Interval \in Nat
  BY TimeIsFinite DEF Sound, ViewInOrder, RowRead
<1>2. \A e \in down : view.row.status = "DOWN" /\ e.since = DownSince(Query, view.row)
  BY FixesAre
<1>3. \A e \in late : /\ view.row.status = "UP" /\ view.row.lastEventAt \in Nat
                      /\ e.since = view.row.lastEventAt + Interval /\ e.since < view.now
  <2> SUFFICES ASSUME NEW e \in late
               PROVE  /\ view.row.status = "UP" /\ view.row.lastEventAt \in Nat
                      /\ e.since = view.row.lastEventAt + Interval /\ e.since < view.now
    OBVIOUS
  <2>1. lateState(Query, view.row) /\ e.since = view.row.lastEventAt + view.row.period
    BY FixesAre
  <2> QED BY <1>1, <2>1 DEF lateState, Query, Rows
<1>4. \A e \in fix : e.since <= view.at
  <2> SUFFICES ASSUME NEW e \in fix PROVE e.since <= view.at
    OBVIOUS
  <2>1. CASE e \in down
    BY <1>2, <2>1, SinceIs
  <2>2. CASE e \in late
    <3>1. e.since < view.now /\ e.since \in Nat
      BY <1>1, <1>3, <2>2
    <3> QED BY <1>1, <3>1
  <2> QED BY <2>1, <2>2, FixesAre
<1>5. down # {} => \E o \in truth : o.to >= view.now
  BY <1>1, <1>2 DEF RowRead
<1>6. ASSUME NEW o \in truth, IsOpen(o), o.from < view.now
      PROVE  /\ down # {} /\ late = {}
             /\ Telling => \A e \in down : /\ e.since <= o.from
                                           /\ \A t \in e.since + Skew .. view.at - 1 : During(truth, t)
  <2>1. view.row.status = "DOWN"
    BY <1>1, <1>6 DEF RowRead
  <2>2. [check |-> view.row.id, state |-> "DOWN", since |-> DownSince(Query, view.row)] \in down
    <3>1. Query.checks = {view.row}
      BY DEF Query
    <3> QED BY <2>1, <3>1 DEF needsFixing
  <2>3. late = {}
    BY <1>3, <2>1
  <2>4. Telling => \A e \in down : /\ e.since <= o.from
                                   /\ \A t \in e.since + Skew .. view.at - 1 : During(truth, t)
    BY <1>2, <1>6, DownIsTold
  <2> QED BY <2>2, <2>3, <2>4
<1>7. ASSUME plain, \A o \in view.outages : ~IsOpen(o), NEW e \in down, NEW f \in ToSet(events), ~f.down
      PROVE  f.at <= e.since \/ f.at >= view.now - Skew
  <2>1. f.at <= view.row.lastEventAt \/ f.at >= view.now - Skew
    BY <1>1, <1>7 DEF RowRead
  <2>2. e.since = IF view.row.lastEventAt # NoEvent THEN view.row.lastEventAt ELSE view.now
    BY <1>2, <1>7, SinceIs
  <2>3. f.at \in Nat /\ NoEvent \in Int /\ NoEvent < 0
    BY <1>7, TimeIsFinite DEF Sound, HistoryTyped, HistoryTypeOK
  <2>4. view.row.lastEventAt = NoEvent => f.at >= view.now - Skew
    BY <2>1, <2>3
  <2> QED BY <2>1, <2>2, <2>4
<1>8. ASSUME plain, NEW e \in late, NEW f \in ToSet(events)
      PROVE  f.at <= e.since - Interval \/ f.at >= view.now - Skew
  <2>1. e.since - Interval = view.row.lastEventAt /\ view.row.status = "UP"
    BY <1>1, <1>3, <1>8
  <2> QED BY <1>1, <1>8, <2>1 DEF RowRead
<1> QED BY <1>4, <1>5, <1>6, <1>7, <1>8 DEF NoneSince

-----------------------------------------------------------------------------
(* Theorems *)

LEMMA HistoryBegins ==
    ASSUME HistoryInit
    PROVE  HistoryIInv
<1>1. Sound
  BY SoundBegins
<1>2. events = <<>> /\ truth = {} /\ staged = {} /\ phase = "before" /\ row.status = "NEW" /\ view.pc = "none"
  BY DEF HistoryInit, NoView
<1>3. TruthFits
  BY <1>2 DEF TruthFits
<1>4. BackfillFits /\ HistoryTells /\ OpenTells /\ ViewInOrder
  BY <1>2 DEF BackfillFits, HistoryTells, OpenTells, ViewInOrder
<1>5. LastHeard
  BY <1>2 DEF LastHeard, ToSet
<1> QED BY <1>1, <1>3, <1>4, <1>5 DEF HistoryIInv, Sound

LEMMA HistoryStays ==
    ASSUME HistoryIInv, [HistoryNext]_historyVars
    PROVE  HistoryIInv'
<1>1. Sound /\ TruthFits /\ BackfillFits /\ HistoryTells /\ OpenTells /\ LastHeard /\ ViewInOrder
  BY DEF HistoryIInv, Sound
<1>2. Sound' /\ ViewInOrder'
  BY <1>1, SoundStays, ViewStays
<1>14. LastHeard'
  <2>1. CASE Writers
    BY <1>1, <2>1, WritersWrite, WriteHeard DEF Sound
  <2>2. CASE ~Writers
    <3>1. UNCHANGED <<row, events, plain>>
      BY <2>2 DEF HistoryNext, TimePasses, Migrates, Installs, Scans, RollsBack, Merges,
                  Reader, Asks, ReadsChecks, ReadsOutages, historyVars
    <3> QED BY <1>1, <3>1 DEF LastHeard
  <2> QED BY <2>1, <2>2
<1> SUFFICES TruthFits' /\ BackfillFits' /\ HistoryTells' /\ OpenTells'
  BY <1>2, <1>14 DEF HistoryIInv, Sound
<1>3. ASSUME UNCHANGED <<row, events, truth, plain>> PROVE TruthFits'
  BY <1>1, <1>3 DEF TruthFits, Fits, StreakAt, FirstUp, Lasts, Near, IsOpen
<1>4. ASSUME UNCHANGED <<row, events, outages, plain, phase, cutoff, staged>> PROVE BackfillFits'
  BY <1>1, <1>4 DEF BackfillFits, HasGap, Gap, Rebuilt, Fits, StreakAt, FirstUp, Lasts, Near, IsOpen
<1>5. ASSUME UNCHANGED <<time, row, events, outages, truth, plain, phase, cutoff>> PROVE HistoryTells' /\ OpenTells'
  BY <1>1, <1>5 DEF HistoryTells, OpenTells, Telling, HasGap, Gap, Tells, DownAt, Blurred, OpenSince, During, IsOpen
<1>6. CASE Writers
  <2>1. WriteStep
    BY <1>1, <1>6, WritersWrite DEF Sound
  <2> QED BY <1>1, <2>1, WriteTruth, WriteBackfill, WriteTells, WriteSince
<1>7. CASE TimePasses
  <2>1. UNCHANGED <<row, events, outages, truth, plain, phase, cutoff, staged>>
    BY <1>7 DEF TimePasses, migration
  <2> QED BY <1>1, <1>3, <1>4, <1>7, <2>1, TimeTells
<1>8. CASE Installs
  <2>1. phase' = "recording" /\ cutoff' = time /\ UNCHANGED <<row, events, outages, staged, truth, plain>>
    BY <1>8 DEF Installs
  <2>2. BackfillFits'
    <3>1. staged' = {}
      BY <1>1, <1>8, <2>1 DEF Installs, Sound, HistoryTyped
    <3>2. \A b \in DOMAIN events : events[b].at <= time
      BY <1>1, TimeIsFinite DEF Sound, Moments
    <3> QED BY <2>1, <3>1, <3>2 DEF BackfillFits
  <2>3. HistoryTells' /\ OpenTells'
    BY <2>1 DEF HistoryTells, OpenTells
  <2> QED BY <1>3, <2>1, <2>2, <2>3
<1>9. CASE Scans
  <2>1. phase' = "staged" /\ UNCHANGED <<row, events, truth, plain>>
    BY <1>9 DEF Scans
  <2>2. HistoryTells' /\ OpenTells'
    BY <2>1 DEF HistoryTells, OpenTells
  <2> QED BY <1>1, <1>3, <1>9, <2>1, <2>2, ScanFits
<1>10. CASE RollsBack
  <2>1. /\ phase = "staged" /\ phase' = "recording" /\ staged' = {}
        /\ UNCHANGED <<row, events, outages, cutoff, truth, plain>>
    BY <1>10 DEF RollsBack
  <2>2. ASSUME plain, ~HasGap, NEW b \in DOMAIN events, StreakAt(b)
        PROVE  events[b].at <= cutoff \/ \E o \in outages : Fits(o, b)
    <3>1. \/ events[b].at = cutoff
          \/ \E o \in outages : Fits(o, b)
          \/ \E s \in staged : Rebuilt(s, b)
      BY <1>1, <2>1, <2>2 DEF BackfillFits
    <3>2. \A s \in staged : Rebuilt(s, b) => events[b].at < cutoff
      BY <1>1 DEF Sound, HistoryTyped, Rebuilt
    <3>3. events[b].at \in Nat /\ cutoff \in Nat
      BY <1>1, TimeIsFinite DEF Sound, Moments
    <3> QED BY <3>1, <3>2, <3>3
  <2>3. BackfillFits'
    BY <2>1, <2>2 DEF BackfillFits, HasGap, Gap, Fits, StreakAt, FirstUp, Lasts, Near, IsOpen
  <2>4. HistoryTells' /\ OpenTells'
    BY <2>1 DEF HistoryTells, OpenTells
  <2> QED BY <1>3, <2>1, <2>3, <2>4
<1>11. CASE Merges
  <2>1. phase' = "done" /\ staged' = {} /\ UNCHANGED <<row, events, truth, plain>>
    BY <1>11 DEF Merges
  <2>2. BackfillFits'
    BY <2>1 DEF BackfillFits
  <2> QED BY <1>1, <1>3, <1>11, <2>1, <2>2, MergeTells
<1>12. CASE Reader
  <2>1. UNCHANGED <<time, row, events, outages, migration, writes, truth, plain>>
    BY <1>12 DEF Reader, Asks, ReadsChecks, ReadsOutages
  <2> QED BY <1>3, <1>4, <1>5, <2>1 DEF migration
<1>13. CASE UNCHANGED historyVars
  BY <1>3, <1>4, <1>5, <1>13 DEF historyVars
<1> QED BY <1>6, <1>7, <1>8, <1>9, <1>10, <1>11, <1>12, <1>13 DEF HistoryNext, Migrates

\* What the events tell is told by the outages and by the truth.
LEMMA ToldTrue ==
    ASSUME HistoryIInv
    PROVE  HistoryIsTrue
<1> SUFFICES ASSUME phase = "done", Telling, NEW t \in 0 .. time - 1
             PROVE  During(outages, t) = During(truth, t) \/ Blurred(t)
  BY DEF HistoryIsTrue, Blurred
<1>1. /\ HistoryTyped /\ Increasing
      /\ \A o \in truth : \E b \in DOMAIN events : Fits(o, b)
      /\ \A b \in DOMAIN events : StreakAt(b) => \E o \in truth : Fits(o, b)
  BY DEF HistoryIInv, TruthFits, Telling, Increasing
<1>2. truth \in SUBSET Spans
  BY <1>1 DEF HistoryTyped
<1>3. Tells(truth)
  BY <1>1, <1>2, FitsTell
<1>4. Tells(outages)
  BY DEF HistoryIInv, HistoryTells
<1>5. (During(outages, t) <=> During(truth, t)) \/ Blurred(t)
  BY <1>3, <1>4 DEF Tells
<1> QED BY <1>5 DEF During

\* One outage at most is open.
LEMMA OneIsOpen ==
    ASSUME Sound
    PROVE  OpenIffDown
<1>1. Cardinality(Opened) <= 1
  <2>1. \A o, p \in Opened : o = p
    BY DEF Sound, OpenInOrder, OneOpen, Opened
  <2>2. CASE Opened = {}
    BY <2>2, FS_EmptySet
  <2>3. CASE Opened # {}
    <3>1. PICK o \in Opened : Opened = {o}
      BY <2>1, <2>3
    <3> QED BY <3>1, FS_Singleton
  <2> QED BY <2>2, <2>3
<1> QED BY <1>1 DEF Sound, PhaseInOrder, OpenInOrder, OpenIffDown, Opened

\* Whatever is written while the trigger is installed and the backfill scans, is
\* rolled back and merges (migration 20261104120100_backfill_check_outages): one
\* outage at most is open, and only while the check is DOWN; after the merge there
\* is one whenever it is DOWN, and no two overlap; and they are when it was DOWN,
\* but for the skew of stamps, if the events tell (nobody paused or converted the
\* check, no probe is missing, and no stamp is the cutoff or out of order).
THEOREM HistoryStaysSound == HistorySpec => []HistoryIsSound
<1>1. HistoryInit => HistoryIInv
  BY HistoryBegins
<1>2. HistoryIInv /\ [HistoryNext]_historyVars => HistoryIInv'
  BY HistoryStays
<1>3. HistoryIInv => HistoryIsSound
  BY ToldTrue, OneIsOpen DEF HistoryIInv, HistoryIsSound, Sound, HistoryTyped
<1> QED BY <1>1, <1>2, <1>3, PTL DEF HistorySpec

\* Whatever is written between the reads of the overview (overview.service.ts,
\* needsFixing of overview-aggregate.ts): a check listed as DOWN was DOWN until the
\* query at least; one that was DOWN before the query and still is, is listed as
\* DOWN and not as late, and if the events tell, since a moment from which on it
\* was DOWN.  If nobody paused or converted it, then of the events that were
\* committed before the query no good one follows the moment that is given where
\* no open outage is read, and none at all is later than a late check was due.
THEOREM FixingStaysRight == HistorySpec => []FixedWhenBroken
<1>1. HistoryInit => HistoryIInv
  BY HistoryBegins
<1>2. HistoryIInv /\ [HistoryNext]_historyVars => HistoryIInv'
  BY HistoryStays
<1>3. HistoryIInv => FixedWhenBroken
  BY FixingIsRight DEF HistoryIInv, Sound
<1> QED BY <1>1, <1>2, <1>3, PTL DEF HistorySpec
=============================================================================
