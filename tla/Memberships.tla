---------------------------- MODULE Memberships ----------------------------
(* Who belongs to an organization, and as what: members.service.ts with the  *)
(* parts of organizations.service.ts that decide by roles.                   *)
(*                                                                           *)
(* A call asks for permission outside its transaction.  In the transaction   *)
(* it takes row locks, reads and writes, at READ COMMITTED: a locking query  *)
(* selects rows as they are when it starts, waits for them, and skips those  *)
(* that no longer qualify; rows that qualify since then are not locked.      *)
EXTENDS Naturals, FiniteSets

CONSTANTS
    Users,
    Orgs,
    Invites,     \* rows of invite
    Calls,       \* calls under way at the same time
    MaxAsked     \* bound on the calls of a behaviour

ASSUME MembersAssumption == MaxAsked \in Nat /\ IsFiniteSet(Users) /\ IsFiniteSet(Orgs)

VARIABLES
    creator,     \* creatorUserId of the organizations that exist
    role,        \* memberships
    invite,
    call,
    asked,       \* calls so far
    unlocked     \* when a call has gone on in an organization although none of the
                 \* owners it had selected stayed one: never, before, or since
                 \* the start (no code knows)

vars == <<creator, role, invite, call, asked, unlocked>>

Roles == {"OWNER", "ADMIN", "MEMBER"}
Managers == {"OWNER", "ADMIN"}

NoInvite == [status |-> "none"]

InviteRows == [status : {"pending", "accepted", "revoked", "expired"}, org : Orgs, user : Users, role : Roles \ {"OWNER"}]

Kinds == {"change_role", "remove", "transfer", "delete", "rename", "invite", "revoke", "accept"}

\* by asks to do this to target in org (by is the target where the permission
\* is not looked at again); the membership is gone when it was deleted since
\* the call found it.  owners are the rows that its query
\* selected, rows the memberships it holds, users the accounts.  No code knows
\* the rest: kept are the ones that have been owners ever since they were
\* selected, joined says that the caller has accepted an invite since.
Requests == [kind : Kinds, by : Users, org : Orgs, target : Users, role : Roles,
             pc : {"permitted", "select", "lock", "read", "write"}, gone : BOOLEAN, joined : BOOLEAN,
             owners : SUBSET Users, kept : SUBSET Users, rows : SUBSET (Users \X Orgs), users : SUBSET Users,
             orgRow : BOOLEAN]

NoCall == [kind |-> "none", rows |-> {}, users |-> {}, orgRow |-> FALSE]

-----------------------------------------------------------------------------
Exists(o) == o \in DOMAIN creator
Role(u, o) == role[<<u, o>>]
Owners(o) == {u \in Users : Role(u, o) = "OWNER"}
OrgsOf(u) == {o \in Orgs : Role(u, o) # "none"}
Busy(c) == call[c] # NoCall

At(c, kinds, pc) == Busy(c) /\ call[c].kind \in kinds /\ call[c].pc = pc

HeldByOthers(c) == UNION {call[d].rows : d \in Calls \ {c}}
UsersHeldByOthers(c) == UNION {call[d].users : d \in Calls \ {c}}
OrgHeldByOther(c) == \E d \in Calls \ {c} : Busy(d) /\ call[d].orgRow /\ call[d].org = call[c].org

Steps(c, pc) == call' = [call EXCEPT ![c].pc = pc]
Ends(c) == call' = [call EXCEPT ![c] = NoCall]

\* What becomes of a call when memberships are deleted, whose ids are found no
\* more, and others, or the same, are not of owners any more.
Told(k, gone, demoted) ==
    [k EXCEPT !.gone = @ \/ <<k.target, k.org>> \in gone,
              !.kept = {u \in @ : <<u, k.org>> \notin demoted}]

EndsAndTells(c, gone, demoted) ==
    call' = [d \in Calls |-> IF d = c \/ ~Busy(d) THEN NoCall ELSE Told(call[d], gone, demoted)]

-----------------------------------------------------------------------------
(* Permission *)

Ask(c, kind, by, o, target, r) ==
    /\ ~Busy(c)
    /\ asked < MaxAsked
    /\ asked' = asked + 1
    /\ call' = [call EXCEPT ![c] =
         [kind |-> kind, by |-> by, org |-> o, target |-> target, role |-> r, pc |-> "permitted",
          gone |-> FALSE, joined |-> FALSE,
          owners |-> {}, kept |-> {}, rows |-> {}, users |-> {}, orgRow |-> FALSE]]
    /\ UNCHANGED <<creator, role, invite, unlocked>>

\* assertRankAllows
RankAllows(actor, target) == actor = "OWNER" \/ (actor = "ADMIN" /\ target = "MEMBER")

\* updateRole
AsksToChange(c, by, o, target, r) ==
    /\ Role(target, o) # "none"
    /\ Role(by, o) = "OWNER"
    /\ Ask(c, "change_role", target, o, target, r)

\* removeMember, and leave, which needs no permission.
AsksToRemove(c, by, o, target) ==
    /\ Role(target, o) # "none"
    /\ by = target \/ RankAllows(Role(by, o), Role(target, o))
    /\ Ask(c, "remove", target, o, target, "MEMBER")

\* Organizations: roles are read in the transaction.  It begins by reading
\* the creator, whose account it locks.
AsksToTransfer(c, by, o, target) ==
    /\ Exists(o)
    /\ creator[o] = by
    /\ target # by
    /\ Ask(c, "transfer", by, o, target, "OWNER")

AsksToDelete(c, by, o) ==
    /\ Exists(o)
    /\ Ask(c, "delete", by, o, creator[o], "OWNER")

AsksToRename(c, by, o) ==
    /\ Exists(o)
    /\ Ask(c, "rename", by, o, by, "OWNER")

\* invite: neither a member nor invited already.
PendingFor(u, o) == {i \in Invites : invite[i].status = "pending" /\ invite[i].user = u /\ invite[i].org = o}

AsksToInvite(c, by, o, target, r) ==
    /\ r # "OWNER"
    /\ RankAllows(Role(by, o), r)
    /\ Role(target, o) = "none"
    /\ PendingFor(target, o) = {}
    /\ Ask(c, "invite", target, o, target, r)

\* revokeInvite and accept
AsksToRevoke(c, by, i) ==
    /\ invite[i].status \notin {"none", "accepted", "revoked"}
    /\ RankAllows(Role(by, invite[i].org), invite[i].role)
    /\ Ask(c, "revoke", invite[i].user, invite[i].org, invite[i].user, invite[i].role)

AsksToAccept(c, i) ==
    /\ invite[i].status = "pending"
    /\ Ask(c, "accept", invite[i].user, invite[i].org, invite[i].user, invite[i].role)

-----------------------------------------------------------------------------
(* Locks *)

\* lockUsers: the accounts of the creator and of the recipient or deleter.
LocksUsers(c) ==
    /\ At(c, {"transfer", "delete"}, "permitted")
    /\ {call[c].by, call[c].target} \cap UsersHeldByOthers(c) = {}
    /\ call' = [call EXCEPT ![c].pc = "select", ![c].users = {call[c].by, call[c].target}]
    /\ UNCHANGED <<creator, role, invite, asked, unlocked>>

\* lockOwnerMemberships and the same query of transferCreatorship: the rows
\* of the owners, as its snapshot has them.
SelectsOwners(c) ==
    /\ At(c, {"change_role", "remove"}, "permitted") \/ At(c, {"transfer"}, "select")
    /\ call' = [call EXCEPT ![c].pc = "lock", ![c].owners = Owners(call[c].org), ![c].kept = Owners(call[c].org)]
    /\ UNCHANGED <<creator, role, invite, asked, unlocked>>

\* Faulty: reads and writes without the lock.
LocksNoOwners(c) ==
    /\ At(c, {"change_role", "remove", "transfer"}, "lock")
    /\ call' = [call EXCEPT ![c].pc = "read", ![c].owners = {}]
    /\ UNCHANGED <<creator, role, invite, asked, unlocked>>

\* One that was demoted while this waited, and is an owner again, is locked.
LocksOwners(c) ==
    /\ At(c, {"change_role", "remove", "transfer"}, "lock")
    /\ LET o == call[c].org
           still == (call[c].owners \cap Owners(o)) \X {o}
       IN /\ still \cap HeldByOthers(c) = {}
          /\ call' = [call EXCEPT ![c].pc = "read", ![c].rows = still, ![c].owners = {}]
          /\ unlocked' = IF call[c].kept = {} /\ Exists(o) THEN [unlocked EXCEPT ![o] = "since"] ELSE unlocked
    /\ UNCHANGED <<creator, role, invite, asked>>

\* Faulty: the organization only.
LocksNoMembership(c) ==
    /\ At(c, {"delete"}, "select") \/ At(c, {"rename"}, "permitted")
    /\ Steps(c, IF call[c].kind = "delete" THEN "lock" ELSE "read")
    /\ UNCHANGED <<creator, role, invite, asked, unlocked>>

\* remove: all rows of the caller, and the organization's.
LocksOwn(c) ==
    /\ At(c, {"delete"}, "select") \/ At(c, {"rename"}, "permitted")
    /\ LET k == call[c]
           own == IF k.kind = "delete" THEN {k.by} \X OrgsOf(k.by)
                  ELSE {<<k.by, o>> : o \in OrgsOf(k.by) \cap {k.org}}
       IN /\ own \cap HeldByOthers(c) = {}
          /\ call' = [call EXCEPT ![c].pc = IF k.kind = "delete" THEN "lock" ELSE "read", ![c].rows = own]
    /\ UNCHANGED <<creator, role, invite, asked, unlocked>>

LocksOrganization(c) ==
    /\ At(c, {"delete"}, "lock")
    /\ ~OrgHeldByOther(c)
    /\ call' = [call EXCEPT ![c].pc = "read", ![c].orgRow = Exists(call[c].org)]
    /\ UNCHANGED <<creator, role, invite, asked, unlocked>>

-----------------------------------------------------------------------------
(* Fresh reads *)

\* assertNotLastOwner
NotLastOwner(u, o) == Role(u, o) = "OWNER" => Cardinality(Owners(o)) > 1

IsCreator(u, o) == Exists(o) /\ creator[o] = u

MayChange(k) ==
    /\ ~k.gone
    /\ Role(k.target, k.org) # k.role => ~IsCreator(k.target, k.org) /\ NotLastOwner(k.target, k.org)

\* Faulty: takes the creator for the only owner that matters.
MayRemoveLastOwner(k) ==
    /\ ~k.gone
    /\ ~IsCreator(k.target, k.org)

MayRemove(k) ==
    /\ ~k.gone
    /\ ~IsCreator(k.target, k.org)
    /\ NotLastOwner(k.target, k.org)

MayTransfer(k) ==
    /\ IsCreator(k.by, k.org)
    /\ {k.by, k.target} \subseteq Owners(k.org)

MayDelete(k) ==
    /\ Role(k.by, k.org) = "OWNER"
    /\ IsCreator(k.target, k.org)
    /\ Cardinality(OrgsOf(k.by)) > 1

MayRename(k) == Role(k.by, k.org) \in Managers

Granted(k) ==
    \/ k.kind = "change_role" /\ MayChange(k)
    \/ k.kind = "remove" /\ MayRemove(k)
    \/ k.kind = "transfer" /\ MayTransfer(k)
    \/ k.kind = "delete" /\ MayDelete(k)
    \/ k.kind = "rename" /\ MayRename(k)

Reads(c) ==
    /\ At(c, Kinds, "read")
    /\ Granted(call[c])
    /\ Steps(c, "write")
    /\ UNCHANGED <<creator, role, invite, asked, unlocked>>

\* Refused, or the connection is lost, or the database ends a deadlock: the
\* transaction leaves nothing behind.
Fails(c) ==
    /\ Busy(c)
    /\ Ends(c)
    /\ UNCHANGED <<creator, role, invite, asked, unlocked>>

-----------------------------------------------------------------------------
(* Writes *)

Changes(c) ==
    /\ At(c, {"change_role"}, "write")
    /\ LET k == call[c] IN
       /\ ~k.gone
       /\ <<k.target, k.org>> \notin HeldByOthers(c)
       /\ role' = [role EXCEPT ![<<k.target, k.org>>] = k.role]
       /\ EndsAndTells(c, {}, IF k.role = "OWNER" THEN {} ELSE {<<k.target, k.org>>})
    /\ UNCHANGED <<creator, invite, asked, unlocked>>

Removes(c) ==
    /\ At(c, {"remove"}, "write")
    /\ LET row == <<call[c].target, call[c].org>> IN
       /\ ~call[c].gone
       /\ row \notin HeldByOthers(c)
       /\ role' = [role EXCEPT ![row] = "none"]
       /\ EndsAndTells(c, {row}, {row})
    /\ UNCHANGED <<creator, invite, asked, unlocked>>

Transfers(c) ==
    /\ At(c, {"transfer"}, "write")
    /\ Exists(call[c].org)
    /\ ~OrgHeldByOther(c)
    /\ creator' = [creator EXCEPT ![call[c].org] = call[c].target]
    /\ Ends(c)
    /\ UNCHANGED <<role, invite, asked, unlocked>>

\* Memberships and invites go with the organization.
Deletes(c) ==
    /\ At(c, {"delete"}, "write")
    /\ LET o == call[c].org
           gone == Users \X {o}
       IN /\ gone \cap HeldByOthers(c) = {}
          /\ creator' = [p \in DOMAIN creator \ {o} |-> creator[p]]
          /\ role' = [m \in Users \X Orgs |-> IF m \in gone THEN "none" ELSE role[m]]
          /\ invite' = [i \in Invites |-> IF invite[i] # NoInvite /\ invite[i].org = o THEN NoInvite ELSE invite[i]]
          /\ EndsAndTells(c, gone, gone)
    /\ UNCHANGED <<asked, unlocked>>

\* Names and slugs tell nothing here.
Renames(c) ==
    /\ At(c, {"rename"}, "write")
    /\ ~OrgHeldByOther(c)
    /\ Ends(c)
    /\ UNCHANGED <<creator, role, invite, asked, unlocked>>

WritesInvite(c, i) ==
    /\ At(c, {"invite"}, "permitted")
    /\ Exists(call[c].org)
    /\ ~OrgHeldByOther(c)
    /\ invite[i] = NoInvite
    /\ invite' = [invite EXCEPT ![i] = [status |-> "pending", org |-> call[c].org, user |-> call[c].target,
                                        role |-> call[c].role]]
    /\ Ends(c)
    /\ UNCHANGED <<creator, role, asked, unlocked>>

\* The invite a call is about.
About(k, i) == invite[i] # NoInvite /\ invite[i].org = k.org /\ invite[i].user = k.target /\ invite[i].role = k.role

\* acceptedAt counts before revokedAt, and this before expiresAt.
WritesRevoked(c, i) ==
    /\ At(c, {"revoke"}, "permitted")
    /\ About(call[c], i)
    /\ invite' = [invite EXCEPT ![i].status = IF @ = "accepted" THEN @ ELSE "revoked"]
    /\ Ends(c)
    /\ UNCHANGED <<creator, role, asked, unlocked>>

\* One transaction: the membership, unless there is one, and acceptedAt.
Accepts(c, i) ==
    /\ At(c, {"accept"}, "permitted")
    /\ About(call[c], i)
    /\ ~OrgHeldByOther(c)
    /\ Role(call[c].by, call[c].org) = "none"
    /\ role' = [role EXCEPT ![<<call[c].by, call[c].org>>] = invite[i].role]
    /\ invite' = [invite EXCEPT ![i].status = "accepted"]
    /\ call' = [d \in Calls |->
                  CASE d = c -> NoCall
                    [] d # c /\ Busy(d) /\ call[d].by = call[c].by -> [call[d] EXCEPT !.joined = TRUE]
                    [] OTHER -> call[d]]
    /\ UNCHANGED <<creator, asked, unlocked>>

Expires(i) ==
    /\ invite[i].status = "pending"
    /\ invite' = [invite EXCEPT ![i].status = "expired"]
    /\ UNCHANGED <<creator, role, call, asked, unlocked>>

-----------------------------------------------------------------------------
\* Whatever came before: every user is a member somewhere, as sign-up makes an
\* organization, every organization has an owner, and creators own what they
\* created, unless a call has gone on unlocked.
Init ==
    /\ creator \in [Orgs -> Users]
    /\ role \in [Users \X Orgs -> Roles \cup {"none"}]
    /\ \A o \in Orgs : Owners(o) # {}
    /\ unlocked = [o \in Orgs |-> IF creator[o] \in Owners(o) THEN "never" ELSE "before"]
    /\ \A u \in Users : OrgsOf(u) # {}
    /\ invite = [i \in Invites |-> NoInvite]
    /\ call = [c \in Calls |-> NoCall]
    /\ asked = 0

Asks(c) ==
    \/ \E by, target \in Users, o \in Orgs :
          \/ \E r \in Roles : AsksToChange(c, by, o, target, r) \/ AsksToInvite(c, by, o, target, r)
          \/ AsksToRemove(c, by, o, target)
          \/ AsksToTransfer(c, by, o, target)
    \/ \E by \in Users, o \in Orgs : AsksToDelete(c, by, o) \/ AsksToRename(c, by, o)
    \/ \E i \in Invites : AsksToAccept(c, i) \/ \E by \in Users : AsksToRevoke(c, by, i)

Locks(c) == LocksUsers(c) \/ SelectsOwners(c) \/ LocksOwners(c) \/ LocksOwn(c) \/ LocksOrganization(c)

Writes(c) ==
    \/ Changes(c) \/ Removes(c) \/ Transfers(c) \/ Deletes(c) \/ Renames(c)
    \/ \E i \in Invites : WritesInvite(c, i) \/ WritesRevoked(c, i) \/ Accepts(c, i)

Next ==
    \/ \E c \in Calls : Asks(c) \/ Locks(c) \/ Reads(c) \/ Fails(c) \/ Writes(c)
    \/ \E i \in Invites : Expires(i)

Spec == Init /\ [][Next]_vars

-----------------------------------------------------------------------------
\* The type invariant; that no invite makes an owner (invite) is part of it.
TypeOK ==
    /\ DOMAIN creator \subseteq Orgs /\ creator \in [DOMAIN creator -> Users]
    /\ role \in [Users \X Orgs -> Roles \cup {"none"}]
    /\ invite \in [Invites -> InviteRows \cup {NoInvite}]
    /\ call \in [Calls -> Requests \cup {NoCall}]
    /\ asked \in 0 .. MaxAsked
    /\ unlocked \in [Orgs -> {"never", "before", "since"}]

\* "This lock serializes both the owner-count invariant and creator-membership
\* checks with creatorship transfer" (members.service.ts, assertNotLastOwner).
\* It does as long as each query gets hold of one owner at least who has been
\* one since it was selected.  A query that waits while all of them are demoted
\* locks nobody, or locks one who has been made an owner again; then checks and
\* writes of two calls overlap, and both of the following may fail.
SinceLocked(o) == unlocked[o] # "since"

\* The creator of an organization is one of its owners.
CreatorStaysWhileLocked ==
    \A o \in DOMAIN creator : unlocked[o] = "never" => creator[o] \in Owners(o)

\* No organization is left without an owner, by whatever overlap of demotions,
\* removals, departures and transfers, and even where the creator is not an
\* owner any more.
OwnerRemains == \A o \in DOMAIN creator : SinceLocked(o) => Owners(o) # {}

\* What the reads of a call granted still holds when it writes (update: "the
\* role checked below cannot go stale"; transferCreatorship: nothing "can
\* invalidate either authorization decision"; remove: two deletes cannot "both
\* pass the last-org check").  The exceptions: a membership that is deleted
\* before it is changed, which the write then does not find; one that began
\* after the lock, as an accepted invite, and is not locked; and owners that
\* are not locked.  That the creator transfers is without exception.
StillGranted(k) ==
    \/ k.kind = "change_role" /\ (k.gone \/ ~SinceLocked(k.org) \/ MayChange(k))
    \/ k.kind = "remove" /\ (k.gone \/ ~SinceLocked(k.org) \/ MayRemove(k))
    \/ k.kind = "transfer" /\ (~Exists(k.org) \/ IsCreator(k.by, k.org)) /\ (~SinceLocked(k.org) \/ MayTransfer(k))
    \/ k.kind = "delete" /\ IsCreator(k.target, k.org) /\ (k.joined \/ MayDelete(k))
    \/ k.kind = "rename" /\ (k.joined \/ MayRename(k))

NothingGoesStale == \A c \in Calls : At(c, Kinds, "write") => StillGranted(call[c])

\* Organizations keep an owner, and their creator among the owners.
OwnersRemain == TypeOK /\ OwnerRemains /\ CreatorStaysWhileLocked
=============================================================================
