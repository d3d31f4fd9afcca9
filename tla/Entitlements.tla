---------------------------- MODULE Entitlements ----------------------------
(* Organizations, their creators, and the checks that count against the      *)
(* creators' plans.  A request reads who the creators are, locks their       *)
(* accounts in the order of their ids (an advisory lock and the user's row,  *)
(* held to the end of the transaction), reads again, decides and writes.     *)
(* At READ COMMITTED each of these sees what the others have committed, so   *)
(* they are steps of their own.  Who may ask, and what memberships say of    *)
(* it, is left out: any request may be refused at any point.                 *)
EXTENDS Naturals, FiniteSets

CONSTANTS
    Users,      \* ids of users: lockUsers takes them in order
    Orgs, Checks,
    Requests,   \* requests handled at the same time
    Plans,      \* [maxChecks |-> ..., maxOrgs |-> ...]
    Absent,     \* not created yet
    Gone,       \* deleted; an id is never used again
    Nobody,
    MaxTries    \* CREATOR_STABILITY_RETRIES

ASSUME UserAssumption == Users \subseteq Nat /\ Nobody \notin Users

ASSUME NullAssumption ==
    /\ {Absent, Gone} \cap (Orgs \cup Users) = {}
    /\ Absent # Gone

ASSUME PlanAssumption == Plans \subseteq [maxChecks : Nat, maxOrgs : Nat]

ASSUME TriesAssumption == MaxTries \in Nat \ {0}

ASSUME FiniteAssumption ==
    /\ IsFiniteSet(Checks) /\ IsFiniteSet(Requests)
    /\ Nobody \notin Requests

VARIABLES
    account,   \* the plan of each user
    creator,   \* the creator of each organization
    home,      \* the organization of each check
    lock,      \* the request that has each user's account locked
    req

vars == <<account, creator, home, lock, req>>
tables == <<account, creator, home>>

CheckOps == {"add_check", "move_check", "remove_check"}
OrgOps == {"add_org", "transfer", "remove_org"}

Request == [op : CheckOps \cup OrgOps \cup {"none"},
            pc : {"idle", "reading", "locking", "locked", "decided"},
            org : Orgs \cup {Absent},
            check : Checks \cup {Absent},
            user : Users \cup {Nobody},       \* a new creator, or who deletes
            creator : Users \cup {Nobody},    \* of org, at the first reading
            former : Users \cup {Nobody},     \* of the check's organization, then
            wants : SUBSET Users,
            tries : 0 .. MaxTries - 1]

Idle == [op |-> "none", pc |-> "idle", org |-> Absent, check |-> Absent, user |-> Nobody,
         creator |-> Nobody, former |-> Nobody, wants |-> {}, tries |-> 0]

OrgsOf(u) == {o \in Orgs : creator[o] = u}
ChecksIn(o) == {c \in Checks : home[c] = o}
ChecksOf(u) == UNION {ChecksIn(o) : o \in OrgsOf(u)}

\* assertCanAddCheck, assertCanAddOrganization
RoomForCheck(u) == Cardinality(ChecksOf(u)) < account[u].maxChecks
RoomForOrg(u) == Cardinality(OrgsOf(u)) < account[u].maxOrgs

-----------------------------------------------------------------------------
(* A request comes in *)

Set(r, q) == req' = [req EXCEPT ![r] = q]

CreatorOf(o) == IF o \in Orgs /\ creator[o] \in Users THEN creator[o] ELSE Nobody

\* What the request is about exists.
Found(q) ==
    /\ q.op # "add_org" => creator[q.org] \in Users
    /\ q.op = "move_check" => home[q.check] \in Orgs \ {q.org}
    /\ q.op = "remove_check" => home[q.check] = q.org

\* Faulty: a transfer locks the account that receives, not the one that gives.
AccountsCharged(q) ==
    (IF q.op = "transfer" THEN {q.user} ELSE {q.creator, q.former, q.user}) \ {Nobody}

Accounts(q) == {q.creator, q.former, q.user} \ {Nobody}

\* The first reading of the transaction: whose accounts are to be locked.
Reading(q) ==
    LET seen == [q EXCEPT !.creator = CreatorOf(q.org),
                          !.former = IF q.op = "move_check" THEN CreatorOf(home[q.check])
                                                            ELSE Nobody]
    IN [seen EXCEPT !.pc = "locking", !.wants = Accounts(seen)]

\* Nothing is changed for a request about what is not there.
Asks(r, op, o, c, u) ==
    LET q == [Idle EXCEPT !.op = op, !.org = o, !.check = c, !.user = u] IN
    /\ req[r].pc = "idle" /\ Found(q)
    /\ Set(r, Reading(q))
    /\ UNCHANGED <<tables, lock>>

\* An id of its own for what is to be created.
NewCheck(c) == home[c] = Absent /\ \A r \in Requests : req[r].check # c
NewOrg(o) == creator[o] = Absent /\ \A r \in Requests : req[r].org # o

AsksToAddCheck(r, o, c) == NewCheck(c) /\ Asks(r, "add_check", o, c, Nobody)
AsksToMove(r, o, c) == Asks(r, "move_check", o, c, Nobody)
AsksToRemoveCheck(r, o, c) == Asks(r, "remove_check", o, c, Nobody)
AsksToAddOrg(r, o, u) == NewOrg(o) /\ Asks(r, "add_org", o, Absent, u)
AsksToTransfer(r, o, u) == Asks(r, "transfer", o, Absent, u)

\* By an owner; by an administrator, who is not locked, when u is Nobody.
AsksToRemoveOrg(r, o, u) == Asks(r, "remove_org", o, Absent, u)

-----------------------------------------------------------------------------
(* Its transaction *)

\* Rolled back or committed: the locks go.
Ends(r) ==
    /\ Set(r, Idle)
    /\ lock' = [u \in Users |-> IF lock[u] = r THEN Nobody ELSE lock[u]]

Read(r) ==
    /\ req[r].pc = "reading" /\ Found(req[r])
    /\ Set(r, Reading(req[r]))
    /\ UNCHANGED <<tables, lock>>

\* Faulty: in the order they were asked for.
TakenFirst(u, wants) == u \in wants

\* sortedUniqueUserIds
First(u, wants) == u \in wants /\ \A v \in wants : u <= v

Lock(r, u) ==
    /\ req[r].pc = "locking" /\ First(u, req[r].wants)
    /\ lock[u] = Nobody
    /\ lock' = [lock EXCEPT ![u] = r]
    /\ Set(r, [req[r] EXCEPT !.wants = @ \ {u},
                             !.pc = IF req[r].wants = {u} THEN "locked" ELSE "locking"])
    /\ UNCHANGED tables

\* Faulty: what was read before the lock is not read again.
StableAnyway(q) == TRUE

\* The creators whose accounts are locked are still the creators.
Stable(q) ==
    /\ q.op # "add_org" /\ creator[q.org] \in Users => creator[q.org] = q.creator
    /\ q.op = "move_check" /\ home[q.check] \in Orgs => creator[home[q.check]] = q.former

Allowed(q) ==
    CASE q.op = "add_check"  -> RoomForCheck(q.creator)
      [] q.op = "move_check" -> q.former # q.creator => RoomForCheck(q.creator)
      [] q.op = "add_org"    -> RoomForOrg(q.user)
      [] q.op = "transfer"   ->
            /\ q.user # q.creator
            /\ RoomForOrg(q.user)
            /\ Cardinality(ChecksOf(q.user)) + Cardinality(ChecksIn(q.org))
                 <= account[q.user].maxChecks
      [] OTHER -> TRUE

\* The row of a check that is moved or deleted: SELECT ... FOR UPDATE.
RowLocked(c) == \E r \in Requests :
    req[r].pc = "decided" /\ req[r].op \in {"move_check", "remove_check"} /\ req[r].check = c

Decide(r) ==
    LET q == req[r] IN
    /\ q.pc = "locked" /\ ~RowLocked(q.check)
    /\ Stable(q) /\ Found(q) /\ Allowed(q)
    /\ Set(r, [q EXCEPT !.pc = "decided"])
    /\ UNCHANGED <<tables, lock>>

MayRetry(q) == q.op \in CheckOps /\ q.tries + 1 < MaxTries

\* withCreatorRetry: rolled back, and tried from the start.
Retry(r) ==
    LET q == req[r] IN
    /\ q.pc = "locked" /\ (q.op = "move_check" => ~RowLocked(q.check))
    /\ ~Stable(q) /\ MayRetry(q)
    /\ Set(r, [Idle EXCEPT !.op = q.op, !.pc = "reading", !.org = q.org, !.check = q.check,
                           !.tries = q.tries + 1])
    /\ lock' = [u \in Users |-> IF lock[u] = r THEN Nobody ELSE lock[u]]
    /\ UNCHANGED tables

\* Not found, changed under the request, or over the limit.
Refuse(r) ==
    LET q == req[r] IN
    /\ \/ q.pc = "reading" /\ ~Found(q)
       \/ q.pc = "locked" /\ ~RowLocked(q.check)
            /\ IF Stable(q) THEN ~(Found(q) /\ Allowed(q)) ELSE ~MayRetry(q)
    /\ Ends(r)
    /\ UNCHANGED tables

\* The rows of an organization's checks go with it.
Commit(r) ==
    LET q == req[r] IN
    /\ q.pc = "decided"
    /\ CASE q.op \in {"add_check", "move_check"} ->
              home' = [home EXCEPT ![q.check] = q.org] /\ UNCHANGED creator
         [] q.op = "remove_check" ->
              home' = [home EXCEPT ![q.check] = Gone] /\ UNCHANGED creator
         [] q.op \in {"add_org", "transfer"} ->
              creator' = [creator EXCEPT ![q.org] = q.user] /\ UNCHANGED home
         [] q.op = "remove_org" ->
              /\ creator' = [creator EXCEPT ![q.org] = Gone]
              /\ home' = [c \in Checks |-> IF home[c] = q.org THEN Gone ELSE home[c]]
    /\ Ends(r)
    /\ UNCHANGED account

\* Refused for what is left out here, or the connection or the transaction's
\* time is over: rolled back.
Abort(r) ==
    /\ req[r].pc # "idle"
    /\ Ends(r)
    /\ UNCHANGED tables

-----------------------------------------------------------------------------
(* Single statements and transactions of others *)

\* An administrator, or the subscription's state after a webhook.
ChangePlan(u, p) ==
    /\ lock[u] = Nobody
    /\ account' = [account EXCEPT ![u] = p]
    /\ UNCHANGED <<creator, home, lock, req>>

\* AdminService.deleteCheck: no lock but the row's.
AdminRemovesCheck(c) ==
    /\ home[c] \in Orgs /\ ~RowLocked(c)
    /\ home' = [home EXCEPT ![c] = Gone]
    /\ UNCHANGED <<account, creator, lock, req>>

Init ==
    /\ account \in [Users -> Plans]
    /\ creator = [o \in Orgs |-> Absent]
    /\ home = [c \in Checks |-> Absent]
    /\ lock = [u \in Users |-> Nobody]
    /\ req = [r \in Requests |-> Idle]

Comes(r) ==
    \E o \in Orgs :
        \/ \E c \in Checks :
              AsksToAddCheck(r, o, c) \/ AsksToMove(r, o, c) \/ AsksToRemoveCheck(r, o, c)
        \/ \E u \in Users : AsksToAddOrg(r, o, u) \/ AsksToTransfer(r, o, u)
        \/ \E u \in Users \cup {Nobody} : AsksToRemoveOrg(r, o, u)

Proceeds(r) ==
    Read(r) \/ (\E u \in Users : Lock(r, u)) \/ Decide(r) \/ Retry(r) \/ Refuse(r) \/ Commit(r)

Next ==
    \/ \E r \in Requests : Comes(r) \/ Proceeds(r) \/ Abort(r)
    \/ \E u \in Users, p \in Plans : ChangePlan(u, p)
    \/ \E c \in Checks : AdminRemovesCheck(c)

Spec == Init /\ [][Next]_vars

-----------------------------------------------------------------------------
(* Properties *)

\* Every variable has the type its declaration says.
TypeOK ==
    /\ account \in [Users -> Plans]
    /\ creator \in [Orgs -> Users \cup {Absent, Gone}]
    /\ home \in [Checks -> Orgs \cup {Absent, Gone}]
    /\ lock \in [Users -> Requests \cup {Nobody}]
    /\ req \in [Requests -> Request]

\* Requests take effect as if they were alone: what they decided before the
\* write still holds at the write, so that no count grows past the plan of the
\* moment, whatever is created, moved, transferred and deleted at the same time
\* (account-entitlements.service.ts, check-quota-concurrency.e2e-spec.ts:438).
Limits == INSTANCE AccountLimits
ImplementsLimits == Limits!Spec

\* Requests that wait for an account, or for the row of a check, never wait for
\* each other in a circle (organizations.service.ts:262-263: user rows "are
\* always locked first and in sorted order ... so there is no reverse lock-order
\* cycle").
WaitsFor(r, s) ==
    \/ req[r].pc = "locking" /\ \E u \in Users : First(u, req[r].wants) /\ lock[u] = s
    \/ req[r].pc = "locked" /\ req[s].pc = "decided" /\ req[s].check = req[r].check
         /\ {req[r].op, req[s].op} \subseteq {"move_check", "remove_check"}

NoCircle ==
    \A R \in (SUBSET Requests) \ {{}} : \E r \in R : \A s \in R : ~WaitsFor(r, s)

\* Every lock is held by at most one request, and there is always one that can go on.
LocksAreSound == TypeOK /\ NoCircle
=============================================================================
