--------------------------- MODULE SchedulerLease ---------------------------
(* RedisLease: the lease that keeps one watchdog and one probe scheduler at  *)
(* work among the workers' processes.  A run acquires the key with a token   *)
(* of its own, renews it from timers while its callback works, tells the     *)
(* callback to stop when it can no longer be sure of the key, and releases   *)
(* it.  Requests and answers travel for as long as they like; time is kept   *)
(* as what is left of the key and of every timer.                            *)
EXTENDS Naturals, FiniteSets

CONSTANTS
    Owners,        \* lease objects, one per process
    MaxToken,      \* tokens; one nothing refers to any longer is reused
    Ttl,           \* ttlMs
    AcquireDelay,  \* how late the answer to a successful SET may be
    MaxLeaseFaults \* bound on lost connections and deaths of processes

ASSUME TimeAssumption == Ttl \in Nat \ {0} /\ AcquireDelay \in Nat

ASSUME LeaseBoundAssumption == MaxToken \in Nat /\ MaxLeaseFaults \in Nat

VARIABLES
    holder,   \* the token the key holds
    left,     \* time until the key expires
    run,      \* the run of each lease object
    net,      \* requests and answers on their way
    leaseFaults

leaseVars == <<holder, left, run, net, leaseFaults>>

None == 0
Tokens == 1 .. MaxToken
Off == Ttl + 1     \* a timer that is not set

Interval == IF Ttl \div 3 = 0 THEN 1 ELSE Ttl \div 3     \* renewalIntervalMs

\* The default TTL is three intervals of a scheduler, which are at least 1.  An
\* answer that is later finds the key expired (README, Observations).
ASSUME DelayAssumption == 3 <= Ttl /\ 2 * Interval + AcquireDelay <= Ttl

Timers == (0 .. Interval) \cup {Off}

LeaseRun == [pc : {"idle", "acquiring", "working", "stopping", "releasing"},
             token : Tokens \cup {None},
             aborted : BOOLEAN,     \* the callback was told to stop
             stop : BOOLEAN,        \* stopRequested
             lost : BOOLEAN,        \* ownershipError
             timer : Timers,        \* until the next renewal is sent
             deadline : Timers]     \* until the renewal in flight is given up

Idle == [pc |-> "idle", token |-> None, aborted |-> FALSE, stop |-> FALSE, lost |-> FALSE,
         timer |-> Off, deadline |-> Off]

Message == [op : {"set", "renew", "release"}, token : Tokens,
            state : {"sent", "yes", "no"}, age : 0 .. AcquireDelay]

Sent(op, t) == [op |-> op, token |-> t, state |-> "sent", age |-> 0]
Answer(m, yes) == [m EXCEPT !.state = IF yes THEN "yes" ELSE "no"]

\* Told to go on, as far as it knows.
Active(o) == run[o].pc = "working" /\ ~run[o].aborted

LeaseFault == leaseFaults < MaxLeaseFaults /\ leaseFaults' = leaseFaults + 1

SetRun(o, r) == run' = [run EXCEPT ![o] = r]

-----------------------------------------------------------------------------
(* The store *)

Processed(m, yes) == net' = (net \ {m}) \cup {Answer(m, yes)}

Requested(op, m) == m \in net /\ m.op = op /\ m.state = "sent"

\* SET key token PX ttl NX
StoreSets(m) ==
    /\ Requested("set", m)
    /\ Processed(m, holder = None)
    /\ IF holder = None THEN holder' = m.token /\ left' = Ttl ELSE UNCHANGED <<holder, left>>
    /\ UNCHANGED <<run, leaseFaults>>

\* RENEW_IF_OWNER_SCRIPT
StoreRenews(m) ==
    /\ Requested("renew", m)
    /\ Processed(m, holder = m.token)
    /\ left' = IF holder = m.token THEN Ttl ELSE left
    /\ UNCHANGED <<holder, run, leaseFaults>>

\* Faulty: the key is deleted whoever holds it.
StoreDeletes(m) ==
    /\ Requested("release", m)
    /\ Processed(m, holder = m.token)
    /\ holder' = None
    /\ UNCHANGED <<left, run, leaseFaults>>

\* RELEASE_IF_OWNER_SCRIPT
StoreReleases(m) ==
    /\ Requested("release", m)
    /\ Processed(m, holder = m.token)
    /\ holder' = IF holder = m.token THEN None ELSE holder
    /\ UNCHANGED <<left, run, leaseFaults>>

StoreStep == \E m \in net : StoreSets(m) \/ StoreRenews(m) \/ StoreReleases(m)

-----------------------------------------------------------------------------
(* RedisLease.run *)

Answered(o, op, m) == m \in net /\ m.op = op /\ m.token = run[o].token /\ m.state # "sent"

\* Tokens are random: a new one is nowhere else.
Fresh(t) ==
    /\ t \in Tokens \ {holder}
    /\ \A m \in net : m.token # t
    /\ \A o \in Owners : run[o].token # t

Acquire(o, t) ==
    /\ run[o].pc = "idle"
    /\ Fresh(t) /\ \A u \in 1 .. t - 1 : ~Fresh(u)
    /\ SetRun(o, [Idle EXCEPT !.pc = "acquiring", !.token = t])
    /\ net' = net \cup {Sent("set", t)}
    /\ UNCHANGED <<holder, left, leaseFaults>>

Acquired(o) ==
    /\ run[o].pc = "acquiring"
    /\ \E m \in net :
           /\ Answered(o, "set", m)
           /\ net' = net \ {m}
           /\ SetRun(o, IF m.state = "yes" THEN [run[o] EXCEPT !.pc = "working", !.timer = Interval]
                                           ELSE Idle)
    /\ UNCHANGED <<holder, left, leaseFaults>>

\* The connection is lost, before the request or after it.
AcquireFails(o) ==
    /\ run[o].pc = "acquiring"
    /\ LeaseFault
    /\ \/ net' = net
       \/ net' = {m \in net : m.token # run[o].token}
    /\ SetRun(o, Idle)
    /\ UNCHANGED <<holder, left>>

Renew(o) ==
    /\ run[o].timer = 0
    /\ SetRun(o, [run[o] EXCEPT !.timer = Off, !.deadline = Interval])
    /\ net' = net \cup {Sent("renew", run[o].token)}
    /\ UNCHANGED <<holder, left, leaseFaults>>

Lost(r) == [r EXCEPT !.deadline = Off, !.lost = TRUE, !.aborted = TRUE]

\* Faulty: renewals go on after the run was asked to stop.
RenewedForever(o) ==
    /\ run[o].deadline # Off
    /\ \E m \in net :
           /\ Answered(o, "renew", m)
           /\ net' = net \ {m}
           /\ SetRun(o, IF m.state = "yes" THEN [run[o] EXCEPT !.deadline = Off, !.timer = Interval]
                                           ELSE Lost(run[o]))
    /\ UNCHANGED <<holder, left, leaseFaults>>

Renewed(o) ==
    /\ run[o].deadline # Off
    /\ \E m \in net :
           /\ Answered(o, "renew", m)
           /\ net' = net \ {m}
           /\ SetRun(o, IF m.state = "yes"
                          THEN [run[o] EXCEPT !.deadline = Off,
                                              !.timer = IF run[o].stop THEN Off ELSE Interval]
                          ELSE Lost(run[o]))
    /\ UNCHANGED <<holder, left, leaseFaults>>

\* Faulty: a renewal that is not answered in time is tried again.
RenewTimesOutOnce(o) ==
    /\ run[o].deadline = 0
    /\ SetRun(o, [run[o] EXCEPT !.deadline = Off, !.timer = IF run[o].stop THEN Off ELSE Interval])
    /\ UNCHANGED <<holder, left, net, leaseFaults>>

RenewTimesOut(o) ==
    /\ run[o].deadline = 0
    /\ SetRun(o, Lost(run[o]))
    /\ UNCHANGED <<holder, left, net, leaseFaults>>

\* The request is never obeyed, or its answer never comes.
RenewFails(o) ==
    /\ run[o].deadline # Off
    /\ LeaseFault
    /\ SetRun(o, Lost(run[o]))
    /\ \/ net' = net
       \/ net' = {m \in net : ~(m.op = "renew" /\ m.token = run[o].token)}
    /\ UNCHANGED <<holder, left>>

\* The scheduler is stopped.
Cancel(o) ==
    /\ run[o].pc = "working" /\ ~run[o].stop
    /\ SetRun(o, [run[o] EXCEPT !.aborted = TRUE, !.stop = TRUE, !.timer = Off])
    /\ UNCHANGED <<holder, left, net, leaseFaults>>

\* It has done its work, failed, or seen that it was told to stop.
CallbackEnds(o) ==
    /\ run[o].pc = "working"
    /\ SetRun(o, [run[o] EXCEPT !.pc = "stopping", !.stop = TRUE, !.timer = Off])
    /\ UNCHANGED <<holder, left, net, leaseFaults>>

\* stop() waits for the renewal in flight; a lease that was lost is not released.
Release(o) ==
    /\ run[o].pc = "stopping" /\ run[o].deadline = Off
    /\ IF run[o].lost
         THEN SetRun(o, Idle) /\ net' = net
         ELSE /\ SetRun(o, [run[o] EXCEPT !.pc = "releasing"])
              /\ net' = net \cup {Sent("release", run[o].token)}
    /\ UNCHANGED <<holder, left, leaseFaults>>

\* "No" makes the run fail; the next one starts like any other.
Released(o) ==
    /\ run[o].pc = "releasing"
    /\ \E m \in net : Answered(o, "release", m) /\ net' = net \ {m}
    /\ SetRun(o, Idle)
    /\ UNCHANGED <<holder, left, leaseFaults>>

ReleaseFails(o) ==
    /\ run[o].pc = "releasing"
    /\ LeaseFault
    /\ \/ net' = net
       \/ net' = {m \in net : m.token # run[o].token}
    /\ SetRun(o, Idle)
    /\ UNCHANGED <<holder, left>>

\* The process dies and starts again; what it sent is still on its way.
Crash(o) ==
    /\ run[o].pc # "idle"
    /\ LeaseFault
    /\ SetRun(o, Idle)
    /\ UNCHANGED <<holder, left, net>>

\* An answer nobody waits for.
Drop(m) ==
    /\ m.state # "sent"
    /\ \A o \in Owners :
          m.token = run[o].token =>
              \/ m.op = "set" /\ run[o].pc # "acquiring"
              \/ m.op = "renew" /\ run[o].deadline = Off
              \/ m.op = "release" /\ run[o].pc # "releasing"
    /\ net' = net \ {m}
    /\ UNCHANGED <<holder, left, run, leaseFaults>>

RunStep(o) ==
    \/ Acquired(o) \/ Renew(o) \/ Renewed(o) \/ RenewTimesOut(o)
    \/ CallbackEnds(o) \/ Release(o) \/ Released(o)

-----------------------------------------------------------------------------
(* Time.  Timers fire when they are due, and the answer to a successful SET  *)
(* is at most AcquireDelay late.                                             *)

Less(n) == IF n = Off THEN Off ELSE n - 1

AwaitedSet(m) ==
    /\ m.op = "set" /\ m.state = "yes"
    /\ \E o \in Owners : run[o].token = m.token /\ run[o].pc = "acquiring"

Tick ==
    /\ \A o \in Owners : run[o].timer # 0 /\ run[o].deadline # 0
    /\ \A m \in net : AwaitedSet(m) => m.age < AcquireDelay
    /\ run' = [o \in Owners |-> [run[o] EXCEPT !.timer = Less(@), !.deadline = Less(@)]]
    /\ net' = {IF AwaitedSet(m) THEN [m EXCEPT !.age = @ + 1] ELSE m : m \in net}
    /\ IF holder = None \/ left = 0
         THEN holder' = None /\ left' = 0
         ELSE holder' = holder /\ left' = left - 1
    /\ leaseFaults' = leaseFaults

LeaseInit ==
    /\ holder = None /\ left = 0
    /\ run = [o \in Owners |-> Idle]
    /\ net = {} /\ leaseFaults = 0

LeaseNext ==
    \/ Tick \/ StoreStep
    \/ \E o \in Owners :
          \/ \E t \in Tokens : Acquire(o, t)
          \/ RunStep(o) \/ Cancel(o)
          \/ AcquireFails(o) \/ RenewFails(o) \/ ReleaseFails(o) \/ Crash(o)
    \/ \E m \in net : Drop(m)

LeaseSpec == LeaseInit /\ [][LeaseNext]_leaseVars

\* Time passes, the store answers, and processes handle what reaches them.
FairLease ==
    /\ LeaseSpec
    /\ WF_leaseVars(Tick) /\ WF_leaseVars(StoreStep)
    /\ \A o \in Owners :
          /\ WF_leaseVars(Acquired(o)) /\ WF_leaseVars(Renewed(o)) /\ WF_leaseVars(CallbackEnds(o))
          /\ WF_leaseVars(Release(o)) /\ WF_leaseVars(Released(o))
          /\ WF_leaseVars(Renew(o) \/ RenewTimesOut(o))

-----------------------------------------------------------------------------
(* Properties *)

\* Every variable has the type its declaration says.
LeaseTypeOK ==
    /\ holder \in Tokens \cup {None}
    /\ left \in 0 .. Ttl
    /\ run \in [Owners -> LeaseRun]
    /\ net \subseteq Message
    /\ leaseFaults \in 0 .. MaxLeaseFaults

\* A callback that was not told to stop has the lease: its renewals never let
\* the key expire, and nobody else's late request takes it away.
ActiveHoldsTheLease == \A o \in Owners : Active(o) => holder = run[o].token

\* No two schedulers are at work (lease.test.ts:210).
OneActive == \A o, p \in Owners : Active(o) /\ Active(p) => o = p

\* A lease comes free again, whoever crashed with it and whatever it had sent.
LeaseComesFree == holder # None ~> holder = None

\* Exclusion, and what it rests on: who works holds the key.
LeaseIsSound == LeaseTypeOK /\ ActiveHoldsTheLease /\ OneActive
=============================================================================
