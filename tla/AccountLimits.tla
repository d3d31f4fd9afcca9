---------------------------- MODULE AccountLimits ----------------------------
(* What users are promised about their plans, whoever does what at the same  *)
(* time: an organization counts for its creator, a check for the creator of  *)
(* its organization, and neither count grows past the plan the account has   *)
(* at that moment.  Every operation takes effect at one instant.             *)
(*                                                                           *)
(* Entitlements implements this module: see Entitlements!Limits.             *)
EXTENDS Naturals, FiniteSets

CONSTANTS Users, Orgs, Checks, Plans, Absent, Gone

VARIABLES account,   \* the plan of each user
          creator,   \* the creator of each organization
          home       \* the organization of each check

vars == <<account, creator, home>>

OrgsOf(u) == {o \in Orgs : creator[o] = u}
ChecksIn(o) == {c \in Checks : home[c] = o}
ChecksOf(u) == UNION {ChecksIn(o) : o \in OrgsOf(u)}

RoomForCheck(u) == Cardinality(ChecksOf(u)) < account[u].maxChecks
RoomForOrg(u) == Cardinality(OrgsOf(u)) < account[u].maxOrgs

Init ==
    /\ account \in [Users -> Plans]
    /\ creator = [o \in Orgs |-> Absent]
    /\ home = [c \in Checks |-> Absent]

AddCheck(c, o) ==
    /\ home[c] = Absent /\ creator[o] \in Users
    /\ RoomForCheck(creator[o])
    /\ home' = [home EXCEPT ![c] = o]
    /\ UNCHANGED <<account, creator>>

MoveCheck(c, o) ==
    /\ home[c] \in Orgs /\ creator[o] \in Users
    /\ creator[o] # creator[home[c]] => RoomForCheck(creator[o])
    /\ home' = [home EXCEPT ![c] = o]
    /\ UNCHANGED <<account, creator>>

RemoveCheck(c) ==
    /\ home[c] \in Orgs
    /\ home' = [home EXCEPT ![c] = Gone]
    /\ UNCHANGED <<account, creator>>

AddOrg(o, u) ==
    /\ creator[o] = Absent
    /\ RoomForOrg(u)
    /\ creator' = [creator EXCEPT ![o] = u]
    /\ UNCHANGED <<account, home>>

Transfer(o, u) ==
    /\ creator[o] \in Users \ {u}
    /\ RoomForOrg(u)
    /\ Cardinality(ChecksOf(u)) + Cardinality(ChecksIn(o)) <= account[u].maxChecks
    /\ creator' = [creator EXCEPT ![o] = u]
    /\ UNCHANGED <<account, home>>

RemoveOrg(o) ==
    /\ creator[o] \in Users
    /\ creator' = [creator EXCEPT ![o] = Gone]
    /\ home' = [c \in Checks |-> IF home[c] = o THEN Gone ELSE home[c]]
    /\ UNCHANGED account

\* A smaller plan takes nothing away.
ChangePlan(u, p) ==
    /\ account' = [account EXCEPT ![u] = p]
    /\ UNCHANGED <<creator, home>>

Next ==
    \/ \E c \in Checks : RemoveCheck(c) \/ \E o \in Orgs : AddCheck(c, o) \/ MoveCheck(c, o)
    \/ \E o \in Orgs : RemoveOrg(o) \/ \E u \in Users : AddOrg(o, u) \/ Transfer(o, u)
    \/ \E u \in Users, p \in Plans : ChangePlan(u, p)

Spec == Init /\ [][Next]_vars
=============================================================================
