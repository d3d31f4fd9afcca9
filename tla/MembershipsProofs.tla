------------------------- MODULE MembershipsProofs -------------------------
(* What Memberships promises, for any number of users, organizations, invites *)
(* and calls: that organizations keep their owners (MembersKeepOwners) and    *)
(* that nothing read under the locks is stale when it is written              *)
(* (MembersStayGranted).                                                      *)
EXTENDS Memberships, FiniteSetTheorems, TLAPS

OwnerKinds == {"change_role", "remove", "transfer"}

Selected(k) == k.kind \in OwnerKinds /\ k.pc \in {"lock", "read", "write"}
Past(k) == k.kind \in OwnerKinds /\ k.pc \in {"read", "write"}

-----------------------------------------------------------------------------
(* The inductive invariant *)

\* Of the owners a call selected, the ones it still counts on own; past the
\* lock it holds their rows, and there are some.
CountsOnOwners(k) ==
    Selected(k) =>
        /\ k.kept \subseteq Owners(k.org)
        /\ k.pc = "lock" => k.kept \subseteq k.owners
        /\ Past(k) => /\ k.kept \X {k.org} \subseteq k.rows
                      /\ Exists(k.org) /\ SinceLocked(k.org) => k.kept # {}

\* A deletion holds all memberships of its caller, a renaming the one.
HoldsOwn(k) ==
    ~k.joined =>
        /\ k.kind = "delete" /\ k.pc \in {"lock", "read", "write"} =>
              \A o \in Orgs : Role(k.by, o) # "none" => <<k.by, o>> \in k.rows
        /\ k.kind = "rename" /\ k.pc \in {"read", "write"} =>
              (Role(k.by, k.org) # "none" => <<k.by, k.org>> \in k.rows)

HoldsAccounts(k) ==
    /\ k.kind \in {"transfer", "delete"} /\ k.pc # "permitted" => {k.by, k.target} \subseteq k.users
    /\ k.kind = "delete" /\ k.pc \in {"read", "write"} /\ Exists(k.org) => k.orgRow

\* A membership is there until the call is told that it is gone.
IsThere(k) == k.kind \in {"change_role", "remove"} /\ ~k.gone => Role(k.target, k.org) # "none"

IsGranted(k) == k.pc = "write" => StillGranted(k)

InOrder(k) == CountsOnOwners(k) /\ HoldsOwn(k) /\ HoldsAccounts(k) /\ IsThere(k) /\ IsGranted(k)

CallsInOrder == \A c \in Calls : Busy(c) => InOrder(call[c])

Excludes(k, l) ==
    /\ k.rows \cap l.rows = {}
    /\ k.users \cap l.users = {}
    /\ ~(k.orgRow /\ l.orgRow /\ k.org = l.org)

LocksExclude == \A c, d \in Calls : c # d /\ Busy(c) /\ Busy(d) => Excludes(call[c], call[d])

\* Who selected later counts on everybody an earlier call still counts on.
Nest(k, l) == Selected(k) /\ Selected(l) /\ k.org = l.org => k.kept \subseteq l.kept \/ l.kept \subseteq k.kept

SelectionsNest == \A c, d \in Calls : Busy(c) /\ Busy(d) => Nest(call[c], call[d])

NoOwnerIsInvited == \A c \in Calls : Busy(c) /\ call[c].kind = "invite" => call[c].role # "OWNER"

OfOrganizations ==
    /\ \A u \in Users, o \in Orgs : Role(u, o) # "none" => Exists(o)
    /\ \A i \in Invites : invite[i] # NoInvite => Exists(invite[i].org)

IInv ==
    /\ TypeOK /\ NoOwnerIsInvited /\ OfOrganizations /\ OwnerRemains /\ CreatorStaysWhileLocked
    /\ CallsInOrder /\ LocksExclude /\ SelectionsNest

-----------------------------------------------------------------------------
(* What the steps have in common *)

LEMMA RequestsAreCalls == \A k \in Requests : k # NoCall
  <1>1. \A k \in Requests : k.kind \in Kinds
    BY DEF Requests
  <1>2. NoCall.kind = "none" /\ "none" \notin Kinds
    BY DEF NoCall, Kinds
  <1> QED BY <1>1, <1>2

LEMMA CallTypes ==
    ASSUME TypeOK, NEW c \in Calls
    PROVE  /\ Busy(c) <=> call[c] \in Requests
           /\ ~Busy(c) <=> call[c] = NoCall
           /\ call[c].rows \in SUBSET (Users \X Orgs) /\ call[c].users \in SUBSET Users
           /\ call[c].orgRow \in BOOLEAN
  <1>1. call[c] \in Requests \cup {NoCall}
    BY DEF TypeOK
  <1>2. CASE call[c] \in Requests
    BY <1>2, RequestsAreCalls DEF Busy, Requests
  <1>3. CASE call[c] = NoCall
    BY <1>3, RequestsAreCalls DEF Busy, NoCall
  <1> QED BY <1>1, <1>2, <1>3

\* What no other call changes of one.
SameRequest(k, l) ==
    /\ l.kind = k.kind /\ l.by = k.by /\ l.org = k.org /\ l.target = k.target /\ l.role = k.role
    /\ l.pc = k.pc /\ l.owners = k.owners /\ l.rows = k.rows /\ l.users = k.users /\ l.orgRow = k.orgRow
    /\ l.kept \subseteq k.kept

\* What being told changes of a call.
LEMMA ToldIsACall ==
    ASSUME NEW k \in Requests, NEW gone, NEW demoted
    PROVE  Told(k, gone, demoted) \in Requests /\ Told(k, gone, demoted) # NoCall
  <1>1. k.gone \in BOOLEAN /\ k.kept \in SUBSET Users
    BY DEF Requests
  <1>2. Told(k, gone, demoted) \in Requests
    BY <1>1 DEF Told, Requests
  <1> QED BY <1>2, RequestsAreCalls

LEMMA ToldIsTheSame ==
    ASSUME NEW k \in Requests, NEW gone, NEW demoted
    PROVE  SameRequest(k, Told(k, gone, demoted))
  BY DEF Told, Requests, SameRequest

\* And what it tells.
LEMMA ToldKeeps ==
    ASSUME NEW k \in Requests, NEW gone, NEW demoted
    PROVE  \A u : u \in Told(k, gone, demoted).kept <=> u \in k.kept /\ <<u, k.org>> \notin demoted
  BY DEF Told, Requests

LEMMA ToldIsGone ==
    ASSUME NEW k \in Requests, NEW gone, NEW demoted
    PROVE  /\ Told(k, gone, demoted).joined = k.joined
           /\ <<k.target, k.org>> \in gone => Told(k, gone, demoted).gone
           /\ <<k.target, k.org>> \notin gone => Told(k, gone, demoted).gone = k.gone
  <1>1. k.gone \in BOOLEAN
    BY DEF Requests
  <1> QED BY <1>1 DEF Told, Requests

\* The writes of one call, as another sees them.
LEMMA OthersAreTold ==
    ASSUME TypeOK, NEW c \in Calls, NEW d \in Calls, c # d,
           NEW gone, NEW demoted,
           EndsAndTells(c, gone, demoted)
    PROVE  /\ call' \in [Calls -> Requests \cup {NoCall}]
           /\ call'[c] = NoCall
           /\ Busy(d)' <=> Busy(d)
           /\ Busy(d) => call'[d] = Told(call[d], gone, demoted)
  <1>1. ASSUME NEW e \in Calls, Busy(e)
        PROVE  Told(call[e], gone, demoted) \in Requests /\ Told(call[e], gone, demoted) # NoCall
    <2>1. call[e] \in Requests
      BY <1>1, CallTypes
    <2> QED BY <2>1, ToldIsACall
  <1> QED BY <1>1, CallTypes DEF EndsAndTells, Busy

LEMMA ToldTypes ==
    ASSUME TypeOK, NEW c \in Calls, NEW gone, NEW demoted, EndsAndTells(c, gone, demoted)
    PROVE  call' \in [Calls -> Requests \cup {NoCall}]
  <1>1. ASSUME NEW e \in Calls, Busy(e) PROVE Told(call[e], gone, demoted) \in Requests
    BY <1>1, CallTypes, ToldIsACall
  <1> QED BY <1>1 DEF EndsAndTells

\* An accepted invite, as the other calls see it.
LEMMA OthersJoin ==
    ASSUME TypeOK, NEW c \in Calls, NEW d \in Calls, c # d, NEW i \in Invites, Accepts(c, i), Busy(d)
    PROVE  /\ call'[d] \in Requests
           /\ SameRequest(call[d], call'[d])
           /\ call'[d].gone = call[d].gone /\ call'[d].kept = call[d].kept
           /\ call[d].by = call[c].by => call'[d].joined
           /\ call[d].by # call[c].by => call'[d] = call[d]
  <1>1. call[d] \in Requests
    BY CallTypes
  <1>2. CASE call[d].by = call[c].by
    <2>1. [call[d] EXCEPT !.joined = TRUE] \in Requests
      BY <1>1 DEF Requests
    <2>2. call'[d] = [call[d] EXCEPT !.joined = TRUE]
      BY <1>2 DEF Accepts
    <2> QED BY <1>1, <1>2, <2>1, <2>2 DEF SameRequest, Requests
  <1>3. CASE call[d].by # call[c].by
    <2>1. call'[d] = call[d]
      BY <1>3 DEF Accepts
    <2> QED BY <1>1, <1>3, <2>1 DEF SameRequest
  <1> QED BY <1>2, <1>3

LEMMA JoinedTypes ==
    ASSUME TypeOK, NEW c \in Calls, NEW i \in Invites, Accepts(c, i)
    PROVE  call' \in [Calls -> Requests \cup {NoCall}]
  <1>1. ASSUME NEW d \in Calls PROVE call'[d] \in Requests \cup {NoCall}
    <2>1. CASE d # c /\ Busy(d)
      BY <2>1, OthersJoin
    <2>2. CASE d = c \/ ~Busy(d)
      BY <2>2 DEF Accepts, Busy
    <2> QED BY <2>1, <2>2
  <1>2. call' = [d \in Calls |-> call'[d]]
    BY DEF Accepts
  <1> QED BY <1>1, <1>2

LEMMA OneMore ==
    ASSUME NEW S, IsFiniteSet(S), Cardinality(S) > 1, NEW t
    PROVE  \E u \in S : u # t
  <1>1. SUFFICES ASSUME S \subseteq {t} PROVE FALSE
    OBVIOUS
  <1>2. CASE S = {}
    BY <1>2, FS_EmptySet
  <1>3. CASE S = {t}
    <2>1. Cardinality(S) = 1
      BY <1>3, FS_Singleton
    <2> QED BY <2>1
  <1> QED BY <1>1, <1>2, <1>3

-----------------------------------------------------------------------------
(* Types *)

\* One call changes and goes on.
LEMMA StepTypes ==
    ASSUME TypeOK, NEW c \in Calls, NEW l \in Requests, call' = [call EXCEPT ![c] = l]
    PROVE  call' \in [Calls -> Requests \cup {NoCall}]
  BY DEF TypeOK

LEMMA EndTypes ==
    ASSUME TypeOK, NEW c \in Calls, Ends(c)
    PROVE  call' \in [Calls -> Requests \cup {NoCall}]
  BY DEF TypeOK, Ends

LEMMA AskTypes ==
    ASSUME TypeOK, NEW c \in Calls, NEW kind \in Kinds, NEW by \in Users, NEW o \in Orgs, NEW target \in Users,
           NEW r \in Roles, Ask(c, kind, by, o, target, r)
    PROVE  TypeOK'
  <1>1. [kind |-> kind, by |-> by, org |-> o, target |-> target, role |-> r, pc |-> "permitted",
         gone |-> FALSE, joined |-> FALSE,
         owners |-> {}, kept |-> {}, rows |-> {}, users |-> {}, orgRow |-> FALSE] \in Requests
    BY DEF Requests
  <1>2. call' \in [Calls -> Requests \cup {NoCall}]
    BY <1>1, StepTypes DEF Ask
  <1>3. asked' \in 0 .. MaxAsked
    BY MembersAssumption DEF Ask, TypeOK
  <1> QED BY <1>2, <1>3 DEF Ask, TypeOK

LEMMA AnAsk ==
    ASSUME TypeOK, NEW c \in Calls, Asks(c)
    PROVE  \E kind \in Kinds, by \in Users, o \in Orgs, target \in Users, r \in Roles :
              /\ Ask(c, kind, by, o, target, r)
              /\ kind = "invite" => r # "OWNER"
              /\ kind \in {"change_role", "remove"} => Role(target, o) # "none"
  <1> DEFINE G == \E kind \in Kinds, by \in Users, o \in Orgs, target \in Users, r \in Roles :
                     /\ Ask(c, kind, by, o, target, r)
                     /\ kind = "invite" => r # "OWNER"
                     /\ kind \in {"change_role", "remove"} => Role(target, o) # "none"
  <1>1. \A i \in Invites : invite[i] # NoInvite => invite[i] \in InviteRows
    BY DEF TypeOK
  <1>2. \A o \in DOMAIN creator : creator[o] \in Users
    BY DEF TypeOK
  <1>3. ASSUME NEW by \in Users, NEW target \in Users, NEW o \in Orgs, NEW r \in Roles,
               AsksToChange(c, by, o, target, r) \/ AsksToInvite(c, by, o, target, r)
        PROVE  G
    BY <1>3 DEF AsksToChange, AsksToInvite, Kinds
  <1>4. ASSUME NEW by \in Users, NEW target \in Users, NEW o \in Orgs,
               AsksToRemove(c, by, o, target) \/ AsksToTransfer(c, by, o, target)
        PROVE  G
    BY <1>4 DEF AsksToRemove, AsksToTransfer, Kinds, Roles
  <1>5. ASSUME NEW by \in Users, NEW o \in Orgs, AsksToDelete(c, by, o)
        PROVE  G
    BY <1>5, <1>2 DEF AsksToDelete, Exists, Kinds, Roles
  <1>6. ASSUME NEW by \in Users, NEW o \in Orgs, AsksToRename(c, by, o)
        PROVE  G
    BY <1>6 DEF AsksToRename, Kinds, Roles
  <1>7. ASSUME NEW i \in Invites, NEW by \in Users, AsksToRevoke(c, by, i)
        PROVE  G
    <2>1. invite[i] \in InviteRows
      BY <1>1, <1>7 DEF AsksToRevoke, NoInvite
    <2> QED BY <1>7, <2>1 DEF AsksToRevoke, InviteRows, Kinds
  <1>8. ASSUME NEW i \in Invites, AsksToAccept(c, i)
        PROVE  G
    <2>1. invite[i] \in InviteRows
      BY <1>1, <1>8 DEF AsksToAccept, NoInvite
    <2> QED BY <1>8, <2>1 DEF AsksToAccept, InviteRows, Kinds
  <1> QED BY <1>3, <1>4, <1>5, <1>6, <1>7, <1>8 DEF Asks

LEMMA AsksTypes ==
    ASSUME TypeOK, NEW c \in Calls, Asks(c)
    PROVE  TypeOK'
  BY AnAsk, AskTypes

LEMMA LocksTypes ==
    ASSUME TypeOK, NEW c \in Calls, Locks(c) \/ Reads(c)
    PROVE  TypeOK'
  <1>1. Busy(c)
    BY DEF Locks, LocksUsers, SelectsOwners, LocksOwners, LocksOwn, LocksOrganization, Reads, At
  <1>2. call[c] \in Requests
    BY <1>1, CallTypes
  <1>3. \A o \in Orgs : Owners(o) \in SUBSET Users
    BY DEF Owners
  <1>4. CASE LocksUsers(c)
    <2> DEFINE l == [call[c] EXCEPT !.pc = "select", !.users = {call[c].by, call[c].target}]
    <2>1. l \in Requests
      BY <1>2 DEF Requests
    <2>2. call' = [call EXCEPT ![c] = l]
      BY <1>4 DEF LocksUsers, TypeOK
    <2> QED BY <1>4, <2>1, <2>2, StepTypes DEF LocksUsers, TypeOK
  <1>5. CASE SelectsOwners(c)
    <2> DEFINE own == Owners(call[c].org)
               l == [call[c] EXCEPT !.pc = "lock", !.owners = own, !.kept = own]
    <2>1. own \in SUBSET Users
      BY <1>2, <1>3 DEF Requests
    <2> HIDE DEF own
    <2>2. l \in Requests
      BY <1>2, <2>1 DEF Requests
    <2>3. call' = [call EXCEPT ![c] = l]
      BY <1>5 DEF SelectsOwners, TypeOK, own
    <2> QED BY <1>5, <2>2, <2>3, StepTypes DEF SelectsOwners, TypeOK
  <1>6. CASE LocksOwners(c)
    <2> DEFINE still == (call[c].owners \cap Owners(call[c].org)) \X {call[c].org}
               l == [call[c] EXCEPT !.pc = "read", !.rows = still, !.owners = {}]
    <2>1. still \in SUBSET (Users \X Orgs)
      BY <1>2 DEF Requests
    <2>2. l \in Requests
      <3> HIDE DEF still
      <3> QED BY <1>2, <2>1 DEF Requests
    <2>3. call' = [call EXCEPT ![c] = l]
      BY <1>6 DEF LocksOwners, TypeOK
    <2>4. unlocked' \in [Orgs -> {"never", "before", "since"}]
      BY <1>6 DEF LocksOwners, TypeOK
    <2>5. call' \in [Calls -> Requests \cup {NoCall}]
      <3> HIDE DEF l
      <3> QED BY <2>2, <2>3, StepTypes
    <2> QED BY <1>6, <2>4, <2>5 DEF LocksOwners, TypeOK
  <1>7. CASE LocksOwn(c)
    <2> DEFINE own == IF call[c].kind = "delete" THEN {call[c].by} \X OrgsOf(call[c].by)
                      ELSE {<<call[c].by, o>> : o \in OrgsOf(call[c].by) \cap {call[c].org}}
               pc == IF call[c].kind = "delete" THEN "lock" ELSE "read"
               l == [call[c] EXCEPT !.pc = pc, !.rows = own]
    <2>1. own \in SUBSET (Users \X Orgs)
      BY <1>2 DEF Requests, OrgsOf
    <2>2. pc \in {"lock", "read"}
      OBVIOUS
    <2>3. l \in Requests
      <3> HIDE DEF own, pc
      <3> QED BY <1>2, <2>1, <2>2 DEF Requests
    <2>4. call' = [call EXCEPT ![c] = l]
      BY <1>7 DEF LocksOwn, TypeOK
    <2>5. call' \in [Calls -> Requests \cup {NoCall}]
      <3> HIDE DEF l
      <3> QED BY <2>3, <2>4, StepTypes
    <2> QED BY <1>7, <2>5 DEF LocksOwn, TypeOK
  <1>8. CASE LocksOrganization(c)
    <2> DEFINE there == Exists(call[c].org)
               l == [call[c] EXCEPT !.pc = "read", !.orgRow = there]
    <2>1. l \in Requests
      <3>1. there \in BOOLEAN
        BY DEF Exists
      <3> HIDE DEF there
      <3> QED BY <1>2, <3>1 DEF Requests
    <2>2. call' = [call EXCEPT ![c] = l]
      BY <1>8 DEF LocksOrganization, TypeOK
    <2> QED BY <1>8, <2>1, <2>2, StepTypes DEF LocksOrganization, TypeOK
  <1>9. CASE Reads(c)
    <2> DEFINE l == [call[c] EXCEPT !.pc = "write"]
    <2>1. l \in Requests
      BY <1>2 DEF Requests
    <2>2. call' = [call EXCEPT ![c] = l]
      BY <1>9 DEF Reads, Steps, TypeOK
    <2> QED BY <1>9, <2>1, <2>2, StepTypes DEF Reads, TypeOK
  <1> QED BY <1>4, <1>5, <1>6, <1>7, <1>8, <1>9 DEF Locks

\* Ends of calls whose writes others are told.
LEMMA WritesTypes ==
    ASSUME TypeOK, NoOwnerIsInvited, NEW c \in Calls, Writes(c) \/ Fails(c)
    PROVE  TypeOK'
  <1>1. Busy(c)
    BY DEF Writes, Fails, At, Changes, Removes, Transfers, Deletes, Renames, WritesInvite, WritesRevoked, Accepts
  <1>2. call[c] \in Requests
    BY <1>1, CallTypes
  <1>3. call[c].by \in Users /\ call[c].org \in Orgs /\ call[c].target \in Users /\ call[c].role \in Roles
    BY <1>2 DEF Requests
  <1>4. ASSUME NEW gone, NEW demoted, EndsAndTells(c, gone, demoted)
        PROVE  call' \in [Calls -> Requests \cup {NoCall}]
    BY <1>4, ToldTypes
  <1>5. ASSUME Ends(c) PROVE call' \in [Calls -> Requests \cup {NoCall}]
    BY <1>5, EndTypes
  <1>6. CASE Changes(c)
    <2>1. call' \in [Calls -> Requests \cup {NoCall}]
      BY <1>6, <1>4 DEF Changes
    <2>2. role' \in [Users \X Orgs -> Roles \cup {"none"}]
      BY <1>6, <1>3 DEF Changes, TypeOK
    <2> QED BY <1>6, <2>1, <2>2 DEF Changes, TypeOK
  <1>7. CASE Removes(c)
    <2>1. call' \in [Calls -> Requests \cup {NoCall}]
      BY <1>7, <1>4 DEF Removes
    <2>2. role' \in [Users \X Orgs -> Roles \cup {"none"}]
      BY <1>7, <1>3 DEF Removes, TypeOK
    <2> QED BY <1>7, <2>1, <2>2 DEF Removes, TypeOK
  <1>8. CASE Transfers(c)
    <2>1. creator' \in [DOMAIN creator' -> Users] /\ DOMAIN creator' \subseteq Orgs
      BY <1>8, <1>3 DEF Transfers, TypeOK
    <2> QED BY <1>8, <1>5, <2>1 DEF Transfers, TypeOK
  <1>9. CASE Deletes(c)
    <2>1. call' \in [Calls -> Requests \cup {NoCall}]
      BY <1>9, <1>4 DEF Deletes
    <2>2. creator' \in [DOMAIN creator' -> Users] /\ DOMAIN creator' \subseteq Orgs
      BY <1>9 DEF Deletes, TypeOK
    <2>3. role' \in [Users \X Orgs -> Roles \cup {"none"}]
      BY <1>9 DEF Deletes, TypeOK
    <2>4. invite' \in [Invites -> InviteRows \cup {NoInvite}]
      BY <1>9 DEF Deletes, TypeOK
    <2> QED BY <1>9, <2>1, <2>2, <2>3, <2>4 DEF Deletes, TypeOK
  <1>10. CASE Renames(c)
    BY <1>10, <1>5 DEF Renames, TypeOK
  <1>11. ASSUME NEW i \in Invites, WritesInvite(c, i)
         PROVE  TypeOK'
    <2> DEFINE row == [status |-> "pending", org |-> call[c].org, user |-> call[c].target, role |-> call[c].role]
    <2>1. row \in InviteRows
      BY <1>11, <1>3 DEF InviteRows, WritesInvite, NoOwnerIsInvited, At
    <2>2. invite' \in [Invites -> InviteRows \cup {NoInvite}]
      <3>1. invite' = [invite EXCEPT ![i] = row]
        BY <1>11 DEF WritesInvite
      <3> HIDE DEF row
      <3> QED BY <2>1, <3>1 DEF TypeOK
    <2> QED BY <1>11, <1>5, <2>2 DEF WritesInvite, TypeOK
  <1>12. ASSUME NEW i \in Invites, WritesRevoked(c, i)
         PROVE  TypeOK'
    <2> DEFINE st == IF invite[i].status = "accepted" THEN "accepted" ELSE "revoked"
               row == [invite[i] EXCEPT !.status = st]
    <2>1. row \in InviteRows
      BY <1>12 DEF InviteRows, WritesRevoked, About, TypeOK
    <2>2. invite' \in [Invites -> InviteRows \cup {NoInvite}]
      <3>1. invite' = [invite EXCEPT ![i] = row]
        BY <1>12 DEF WritesRevoked, TypeOK
      <3> HIDE DEF row
      <3> QED BY <2>1, <3>1 DEF TypeOK
    <2> QED BY <1>12, <1>5, <2>2 DEF WritesRevoked, TypeOK
  <1>13. ASSUME NEW i \in Invites, Accepts(c, i)
         PROVE  TypeOK'
    <2>1. invite[i] \in InviteRows
      BY <1>13 DEF Accepts, About, TypeOK
    <2>2. invite' \in [Invites -> InviteRows \cup {NoInvite}]
      <3> DEFINE row == [invite[i] EXCEPT !.status = "accepted"]
      <3>1. row \in InviteRows
        BY <2>1 DEF InviteRows
      <3>2. invite' = [invite EXCEPT ![i] = row]
        BY <1>13 DEF Accepts, TypeOK
      <3> HIDE DEF row
      <3> QED BY <3>1, <3>2 DEF TypeOK
    <2>3. role' \in [Users \X Orgs -> Roles \cup {"none"}]
      BY <1>13, <1>3, <2>1 DEF Accepts, TypeOK, InviteRows
    <2>4. call' \in [Calls -> Requests \cup {NoCall}]
      BY <1>13, JoinedTypes
    <2> QED BY <1>13, <2>2, <2>3, <2>4 DEF Accepts, TypeOK
  <1>14. CASE Fails(c)
    BY <1>14, <1>5 DEF Fails, TypeOK
  <1> QED BY <1>6, <1>7, <1>8, <1>9, <1>10, <1>11, <1>12, <1>13, <1>14 DEF Writes

LEMMA NextTypes == TypeOK /\ NoOwnerIsInvited /\ [Next]_vars => TypeOK'
  <1> SUFFICES ASSUME TypeOK, NoOwnerIsInvited, [Next]_vars PROVE TypeOK'
    OBVIOUS
  <1>1. ASSUME NEW i \in Invites, Expires(i)
        PROVE  TypeOK'
    <2> DEFINE row == [invite[i] EXCEPT !.status = "expired"]
    <2>1. row \in InviteRows
      BY <1>1 DEF InviteRows, Expires, TypeOK, NoInvite
    <2>2. invite' \in [Invites -> InviteRows \cup {NoInvite}]
      <3>1. invite' = [invite EXCEPT ![i] = row]
        BY <1>1 DEF Expires, TypeOK
      <3> HIDE DEF row
      <3> QED BY <2>1, <3>1 DEF TypeOK
    <2> QED BY <1>1, <2>2 DEF Expires, TypeOK
  <1>2. CASE UNCHANGED vars
    BY <1>2 DEF vars, TypeOK
  <1> QED BY <1>1, <1>2, AsksTypes, LocksTypes, WritesTypes DEF Next

-----------------------------------------------------------------------------
(* The other calls *)

ByCall(c) == Asks(c) \/ Locks(c) \/ Reads(c) \/ Fails(c) \/ Writes(c)

Quiet(c) ==
    \/ Asks(c) \/ Locks(c) \/ Reads(c) \/ Fails(c) \/ Transfers(c) \/ Renames(c)
    \/ \E i \in Invites : WritesInvite(c, i) \/ WritesRevoked(c, i)

\* These steps are of no concern to another call.
LEMMA OthersAreLeft ==
    ASSUME TypeOK, NEW c \in Calls, NEW d \in Calls, c # d, Quiet(c)
    PROVE  call'[d] = call[d]
  <1>1. CASE Asks(c)
    <2>1. PICK kind \in Kinds, by \in Users, o \in Orgs, target \in Users, r \in Roles : Ask(c, kind, by, o, target, r)
      BY <1>1, AnAsk
    <2> QED BY <2>1 DEF Ask, TypeOK
  <1>2. CASE Locks(c) \/ Reads(c)
    BY <1>2 DEF Locks, LocksUsers, SelectsOwners, LocksOwners, LocksOwn, LocksOrganization, Reads, Steps, TypeOK
  <1>3. CASE Ends(c)
    BY <1>3 DEF Ends, TypeOK
  <1> QED BY <1>1, <1>2, <1>3 DEF Quiet, Fails, Transfers, Renames, WritesInvite, WritesRevoked

LEMMA OtherCall ==
    ASSUME TypeOK, NEW c \in Calls, NEW d \in Calls, c # d, ByCall(c), Busy(d)'
    PROVE  Busy(d) /\ SameRequest(call[d], call'[d])
  <1>1. CASE Quiet(c)
    BY <1>1, OthersAreLeft DEF Busy, SameRequest
  <1>2. ASSUME NEW gone, NEW demoted, EndsAndTells(c, gone, demoted)
        PROVE  Busy(d) /\ SameRequest(call[d], call'[d])
    <2>1. Busy(d) /\ call'[d] = Told(call[d], gone, demoted)
      BY <1>2, OthersAreTold
    <2>2. call[d] \in Requests
      BY <2>1, CallTypes
    <2> QED BY <2>1, <2>2, ToldIsTheSame
  <1>3. CASE Changes(c) \/ Removes(c) \/ Deletes(c)
    BY <1>3, <1>2 DEF Changes, Removes, Deletes
  <1>4. ASSUME NEW i \in Invites, Accepts(c, i)
        PROVE  Busy(d) /\ SameRequest(call[d], call'[d])
    <2>1. Busy(d)
      BY <1>4 DEF Accepts, Busy
    <2> QED BY <1>4, <2>1, OthersJoin
  <1> QED BY <1>1, <1>3, <1>4 DEF ByCall, Quiet, Writes

-----------------------------------------------------------------------------
(* Locks exclude, and selections nest *)

\* What a call's own step makes of its locks.
LEMMA OwnLocks ==
    ASSUME TypeOK, LocksExclude, NEW c \in Calls, NEW d \in Calls, c # d, ByCall(c), Busy(c)', Busy(d)
    PROVE  Excludes(call'[c], call[d])
  <1>0. call[d].rows \subseteq HeldByOthers(c) /\ call[d].users \subseteq UsersHeldByOthers(c)
    BY DEF HeldByOthers, UsersHeldByOthers
  <1>1. CASE Asks(c)
    <2>1. PICK kind \in Kinds, by \in Users, o \in Orgs, target \in Users, r \in Roles : Ask(c, kind, by, o, target, r)
      BY <1>1, AnAsk
    <2>2. call'[c].rows = {} /\ call'[c].users = {} /\ call'[c].orgRow = FALSE
      BY <2>1 DEF Ask, TypeOK
    <2> QED BY <2>2 DEF Excludes
  <1>2. CASE Writes(c) \/ Fails(c)
    <2>1. ~Busy(c)'
      BY <1>2 DEF Writes, Fails, Changes, Removes, Transfers, Deletes, Renames, WritesInvite, WritesRevoked,
                  Accepts, Ends, EndsAndTells, Busy, TypeOK
    <2> QED BY <2>1
  <1>3. CASE Locks(c) \/ Reads(c)
    <2>1. Busy(c)
      BY <1>3 DEF Locks, LocksUsers, SelectsOwners, LocksOwners, LocksOwn, LocksOrganization, Reads, At
    <2>2. Excludes(call[c], call[d])
      BY <2>1 DEF LocksExclude
    <2>3. call[c] \in Requests
      BY <2>1, CallTypes
    <2>4. CASE LocksUsers(c)
      BY <2>2, <2>3, <2>4, <1>0 DEF LocksUsers, Excludes, TypeOK, Requests
    <2>5. CASE SelectsOwners(c)
      BY <2>2, <2>3, <2>5 DEF SelectsOwners, Excludes, TypeOK, Requests
    <2>6. CASE LocksOwners(c)
      BY <2>2, <2>3, <2>6, <1>0 DEF LocksOwners, Excludes, TypeOK, Requests
    <2>7. CASE LocksOwn(c)
      BY <2>2, <2>3, <2>7, <1>0 DEF LocksOwn, Excludes, TypeOK, Requests
    <2>8. CASE LocksOrganization(c)
      BY <2>2, <2>3, <2>8 DEF LocksOrganization, OrgHeldByOther, Excludes, TypeOK, Requests
    <2>9. CASE Reads(c)
      BY <2>2, <2>3, <2>9 DEF Reads, Steps, Excludes, TypeOK, Requests
    <2> QED BY <1>3, <2>4, <2>5, <2>6, <2>7, <2>8, <2>9 DEF Locks
  <1> QED BY <1>1, <1>2, <1>3 DEF ByCall

LEMMA NextExcludes ==
    ASSUME TypeOK, LocksExclude, [Next]_vars
    PROVE  LocksExclude'
  <1>1. ASSUME NEW c \in Calls, ByCall(c)
        PROVE  LocksExclude'
    <2> SUFFICES ASSUME NEW d \in Calls, NEW e \in Calls, d # e, Busy(d)', Busy(e)'
                 PROVE  Excludes(call'[d], call'[e])
      BY DEF LocksExclude
    <2>1. CASE d # c /\ e # c
      BY <1>1, <2>1, OtherCall DEF LocksExclude, Excludes, SameRequest
    <2>2. CASE d = c
      BY <1>1, <2>2, OtherCall, OwnLocks DEF Excludes, SameRequest
    <2>3. CASE e = c
      BY <1>1, <2>3, OtherCall, OwnLocks DEF Excludes, SameRequest
    <2> QED BY <2>1, <2>2, <2>3
  <1>2. CASE UNCHANGED call
    BY <1>2 DEF LocksExclude, Busy
  <1> QED BY <1>1, <1>2 DEF Next, ByCall, Expires, vars

\* No two calls are past the owners' lock of an organization.
LEMMA OnePast ==
    ASSUME TypeOK, CallsInOrder, LocksExclude, SelectionsNest,
           NEW c \in Calls, NEW d \in Calls, c # d, Busy(c), Busy(d), Past(call[c]), Past(call[d]),
           call[c].org = call[d].org, Exists(call[c].org), SinceLocked(call[c].org)
    PROVE  FALSE
  <1>1. /\ call[c].kept # {} /\ call[c].kept \X {call[c].org} \subseteq call[c].rows
        /\ call[d].kept # {} /\ call[d].kept \X {call[d].org} \subseteq call[d].rows
    BY DEF CallsInOrder, InOrder, CountsOnOwners, Past, Selected
  <1>2. call[c].kept \subseteq call[d].kept \/ call[d].kept \subseteq call[c].kept
    BY DEF SelectionsNest, Nest, Past, Selected
  <1>3. PICK u : u \in call[c].kept /\ u \in call[d].kept
    BY <1>1, <1>2
  <1>4. <<u, call[c].org>> \in call[c].rows \cap call[d].rows
    BY <1>1, <1>3
  <1> QED BY <1>4 DEF LocksExclude, Excludes

\* Every call still counts on the same owners, but for the ones it is told about.
LEMMA OthersNest ==
    ASSUME TypeOK, SelectionsNest, NEW c \in Calls, NEW d \in Calls, NEW e \in Calls, c # d, c # e,
           ByCall(c), Busy(d)', Busy(e)'
    PROVE  Nest(call'[d], call'[e])
  <1>1. /\ Busy(d) /\ SameRequest(call[d], call'[d])
        /\ Busy(e) /\ SameRequest(call[e], call'[e])
    BY OtherCall
  <1>2. Nest(call[d], call[e])
    BY <1>1 DEF SelectionsNest
  <1>3. call[d] \in Requests /\ call[e] \in Requests
    BY <1>1, CallTypes
  <1>4. SUFFICES ASSUME Selected(call[d]), Selected(call[e]), call[d].org = call[e].org
                 PROVE  call'[d].kept \subseteq call'[e].kept \/ call'[e].kept \subseteq call'[d].kept
    BY <1>1 DEF Nest, SameRequest, Selected
  <1>5. call[d].kept \subseteq call[e].kept \/ call[e].kept \subseteq call[d].kept
    BY <1>2, <1>4 DEF Nest
  <1>6. ASSUME NEW gone, NEW demoted, EndsAndTells(c, gone, demoted)
        PROVE  call'[d].kept \subseteq call'[e].kept \/ call'[e].kept \subseteq call'[d].kept
    <2>1. call'[d] = Told(call[d], gone, demoted) /\ call'[e] = Told(call[e], gone, demoted)
      BY <1>1, <1>6, OthersAreTold
    <2>2. \A u : u \in call'[d].kept <=> u \in call[d].kept /\ <<u, call[d].org>> \notin demoted
      BY <1>3, <2>1, ToldKeeps
    <2>3. \A u : u \in call'[e].kept <=> u \in call[e].kept /\ <<u, call[e].org>> \notin demoted
      BY <1>3, <2>1, ToldKeeps
    <2> QED BY <1>4, <1>5, <2>2, <2>3
  <1>7. CASE Changes(c) \/ Removes(c) \/ Deletes(c)
    BY <1>6, <1>7 DEF Changes, Removes, Deletes
  <1>8. ASSUME NEW i \in Invites, Accepts(c, i)
        PROVE  call'[d].kept = call[d].kept /\ call'[e].kept = call[e].kept
    BY <1>1, <1>8, OthersJoin
  <1>9. CASE Quiet(c)
    BY <1>5, <1>9, OthersAreLeft
  <1> QED BY <1>5, <1>7, <1>8, <1>9 DEF ByCall, Quiet, Writes

LEMMA NextNest ==
    ASSUME TypeOK, CallsInOrder, SelectionsNest, [Next]_vars
    PROVE  SelectionsNest'
  <1>1. ASSUME NEW c \in Calls, ByCall(c)
        PROVE  SelectionsNest'
    <2>1. ASSUME NEW d \in Calls, d # c, Busy(c)', Busy(d)', Selected(call'[c]), Selected(call'[d]),
                 call'[c].org = call'[d].org
          PROVE  call'[c].kept \subseteq call'[d].kept \/ call'[d].kept \subseteq call'[c].kept
      <3>1. Busy(d) /\ SameRequest(call[d], call'[d])
        BY <1>1, <2>1, OtherCall
      <3>2. CASE Asks(c)
        <4>1. PICK kind \in Kinds, by \in Users, o \in Orgs, target \in Users, r \in Roles : Ask(c, kind, by, o, target, r)
          BY <3>2, AnAsk
        <4>2. call'[c].pc = "permitted"
          BY <4>1 DEF Ask, TypeOK
        <4> QED BY <2>1, <4>2 DEF Selected
      <3>3. CASE Writes(c) \/ Fails(c)
        <4>1. ~Busy(c)'
          BY <3>3 DEF Writes, Fails, Changes, Removes, Transfers, Deletes, Renames, WritesInvite, WritesRevoked,
                      Accepts, Ends, EndsAndTells, Busy, TypeOK
        <4> QED BY <2>1, <4>1
      <3>4. CASE Locks(c) \/ Reads(c)
        <4>1. Busy(c)
          BY <3>4 DEF Locks, LocksUsers, SelectsOwners, LocksOwners, LocksOwn, LocksOrganization, Reads, At
        <4>2. call[c] \in Requests /\ call[d] \in Requests
          BY <3>1, <4>1, CallTypes
        <4>3. CASE SelectsOwners(c)
          <5>1. call'[c].kept = Owners(call[c].org) /\ call'[c].org = call[c].org
            BY <4>2, <4>3 DEF SelectsOwners, TypeOK, Requests
          <5>2. call[d].kept \subseteq Owners(call[d].org)
            BY <2>1, <3>1 DEF CallsInOrder, InOrder, CountsOnOwners, Selected, SameRequest
          <5> QED BY <2>1, <3>1, <5>1, <5>2 DEF SameRequest
        <4>4. CASE LocksOwners(c) \/ Reads(c)
          <5>1. /\ call'[c].kept = call[c].kept /\ call'[c].org = call[c].org /\ call'[c].kind = call[c].kind
                /\ call[c].pc \in {"lock", "read"} /\ call'[d] = call[d]
            <6>1. CASE LocksOwners(c)
              BY <2>1, <4>2, <6>1 DEF LocksOwners, At, TypeOK, Requests
            <6>2. CASE Reads(c)
              BY <2>1, <4>2, <6>2 DEF Reads, Steps, At, TypeOK, Requests
            <6> QED BY <4>4, <6>1, <6>2
          <5>2. Nest(call[c], call[d])
            BY <3>1, <4>1 DEF SelectionsNest
          <5> QED BY <2>1, <5>1, <5>2 DEF Nest, Selected
        <4>5. CASE LocksUsers(c) \/ LocksOwn(c) \/ LocksOrganization(c)
          <5>1. call'[c].kind \in {"transfer", "delete", "rename"} /\ (call'[c].kind = "transfer" => call'[c].pc = "select")
            BY <4>2, <4>5 DEF LocksUsers, LocksOwn, LocksOrganization, At, TypeOK, Requests
          <5> QED BY <2>1, <5>1 DEF Selected, OwnerKinds
        <4> QED BY <3>4, <4>3, <4>4, <4>5 DEF Locks
      <3> QED BY <1>1, <3>2, <3>3, <3>4 DEF ByCall
    <2> SUFFICES ASSUME NEW d \in Calls, NEW e \in Calls, Busy(d)', Busy(e)'
                 PROVE  Nest(call'[d], call'[e])
      BY DEF SelectionsNest
    <2>2. CASE d # c /\ e # c
      BY <1>1, <2>2, OthersNest
    <2>3. CASE d = e
      BY <2>3 DEF Nest
    <2>4. CASE d = c /\ e # c
      BY <2>1, <2>4 DEF Nest
    <2>5. CASE e = c /\ d # c
      BY <2>1, <2>5 DEF Nest
    <2> QED BY <2>2, <2>3, <2>4, <2>5
  <1>2. CASE UNCHANGED call
    BY <1>2 DEF SelectionsNest, Busy
  <1> QED BY <1>1, <1>2 DEF Next, ByCall, Expires, vars

-----------------------------------------------------------------------------
(* A call stays in order while others take their steps *)

Locked == TypeOK /\ OfOrganizations /\ CallsInOrder /\ LocksExclude /\ SelectionsNest

LEMMA OtherIsLeftInOrder ==
    ASSUME TypeOK, NEW d \in Calls, Busy(d), InOrder(call[d]), call'[d] = call[d],
           UNCHANGED <<creator, role>>, \A o \in Orgs : SinceLocked(o)' => SinceLocked(o)
    PROVE  InOrder(call[d])'
  <1>1. call[d] \in Requests
    BY CallTypes
  <1>2. CountsOnOwners(call[d])'
    BY <1>1 DEF InOrder, CountsOnOwners, Selected, Past, Owners, Role, Exists, Requests
  <1>3. HoldsOwn(call[d])'
    BY DEF InOrder, HoldsOwn, Role
  <1>4. HoldsAccounts(call[d])'
    BY DEF InOrder, HoldsAccounts, Exists
  <1>5. IsThere(call[d])'
    BY DEF InOrder, IsThere, Role
  <1>6. IsGranted(call[d])'
    <2>1. MayChange(call[d])' <=> MayChange(call[d])
      BY DEF MayChange, NotLastOwner, IsCreator, Owners, Role, Exists
    <2>2. MayRemove(call[d])' <=> MayRemove(call[d])
      BY DEF MayRemove, NotLastOwner, IsCreator, Owners, Role, Exists
    <2>3. MayTransfer(call[d])' <=> MayTransfer(call[d])
      BY DEF MayTransfer, IsCreator, Owners, Role, Exists
    <2>4. MayDelete(call[d])' <=> MayDelete(call[d])
      BY DEF MayDelete, IsCreator, OrgsOf, Role, Exists
    <2>5. MayRename(call[d])' <=> MayRename(call[d])
      BY DEF MayRename, Role
    <2>6. call[d].org \in Orgs
      BY <1>1 DEF Requests
    <2> QED BY <2>1, <2>2, <2>3, <2>4, <2>5, <2>6 DEF InOrder, IsGranted, StillGranted, IsCreator, Exists
  <1> QED BY <1>2, <1>3, <1>4, <1>5, <1>6 DEF InOrder

LEMMA SinceLockedStays ==
    ASSUME TypeOK, NEW c \in Calls, ByCall(c), NEW o \in Orgs, SinceLocked(o)'
    PROVE  SinceLocked(o)
  <1>1. unlocked' = unlocked \/ unlocked' = [unlocked EXCEPT ![call[c].org] = "since"]
    <2>1. CASE Asks(c)
      <3>1. PICK kind \in Kinds, by \in Users, p \in Orgs, target \in Users, r \in Roles : Ask(c, kind, by, p, target, r)
        BY <2>1, AnAsk
      <3> QED BY <3>1 DEF Ask
    <2>2. CASE ~Asks(c)
      BY <2>2 DEF ByCall, Locks, LocksUsers, SelectsOwners, LocksOwners, LocksOwn, LocksOrganization, Reads, Fails,
                  Writes, Changes, Removes, Transfers, Deletes, Renames, WritesInvite, WritesRevoked, Accepts
    <2> QED BY <2>1, <2>2
  <1> QED BY <1>1 DEF SinceLocked, TypeOK

LEMMA QuietKeepsOthers ==
    ASSUME Locked, NEW c \in Calls, NEW d \in Calls, c # d, Quiet(c), ~Transfers(c), Busy(d)'
    PROVE  InOrder(call[d])'
  <1>1. call'[d] = call[d]
    BY OthersAreLeft DEF Locked
  <1>2. UNCHANGED <<creator, role>>
    <2>1. CASE Asks(c)
      <3>1. PICK kind \in Kinds, by \in Users, p \in Orgs, target \in Users, r \in Roles : Ask(c, kind, by, p, target, r)
        BY <2>1, AnAsk DEF Locked
      <3> QED BY <3>1 DEF Ask
    <2>2. CASE ~Asks(c)
      BY <2>2 DEF Quiet, Locks, LocksUsers, SelectsOwners, LocksOwners, LocksOwn, LocksOrganization, Reads, Fails,
                  Renames, WritesInvite, WritesRevoked
    <2> QED BY <2>1, <2>2
  <1>3. Busy(d) /\ InOrder(call[d])
    BY <1>1 DEF Busy, Locked, CallsInOrder
  <1>4. ByCall(c)
    BY DEF Quiet, ByCall, Writes
  <1> QED BY <1>1, <1>2, <1>3, <1>4, SinceLockedStays, OtherIsLeftInOrder DEF Locked

LEMMA TransferKeepsOthers ==
    ASSUME Locked, NEW c \in Calls, NEW d \in Calls, c # d, Transfers(c), Busy(d)'
    PROVE  InOrder(call[d])'
  <1>1. call'[d] = call[d] /\ Busy(d) /\ Busy(c) /\ role' = role /\ unlocked' = unlocked
    BY OthersAreLeft DEF Locked, Quiet, Busy, Transfers, At
  <1>2. InOrder(call[d]) /\ InOrder(call[c]) /\ call[d] \in Requests /\ call[c] \in Requests
    BY <1>1, CallTypes DEF Locked, CallsInOrder
  <1> DEFINE k == call[c]
             l == call[d]
  <1>3. k.kind = "transfer" /\ k.pc = "write" /\ Exists(k.org) /\ StillGranted(k) /\ Past(k)
    BY <1>2 DEF Transfers, At, InOrder, IsGranted, Past, OwnerKinds
  <1>4. IsCreator(k.by, k.org) /\ k.by \in k.users
    BY <1>2, <1>3 DEF StillGranted, InOrder, HoldsAccounts
  <1>5. \A o : Exists(o)' <=> Exists(o)
    BY DEF Transfers, Exists
  <1>6. \A u \in Users, o \in Orgs : o # k.org => (IsCreator(u, o)' <=> IsCreator(u, o))
    BY DEF Transfers, IsCreator, Exists
  <1>7. CountsOnOwners(call[d])' /\ HoldsOwn(call[d])' /\ HoldsAccounts(call[d])' /\ IsThere(call[d])'
    <2>1. CountsOnOwners(call[d])'
      BY <1>1, <1>2, <1>5 DEF InOrder, CountsOnOwners, Selected, Past, Owners, Role, SinceLocked
    <2>2. HoldsOwn(call[d])' /\ IsThere(call[d])'
      BY <1>1, <1>2 DEF InOrder, HoldsOwn, IsThere, Role
    <2>3. HoldsAccounts(call[d])'
      BY <1>1, <1>2, <1>5 DEF InOrder, HoldsAccounts
    <2> QED BY <2>1, <2>2, <2>3
  <1>8. IsGranted(call[d])'
    <2> SUFFICES ASSUME l.pc = "write" PROVE StillGranted(call[d])'
      BY <1>1 DEF IsGranted
    <2>1. StillGranted(l)
      BY <1>2 DEF InOrder, IsGranted
    <2>2. CASE l.org # k.org
      BY <1>1, <1>2, <1>5, <1>6, <2>1, <2>2 DEF StillGranted, MayChange, MayRemove, MayTransfer, MayDelete, MayRename,
         NotLastOwner, OrgsOf, Owners, Role, SinceLocked, Requests
    <2>3. CASE l.org = k.org /\ l.kind \in {"transfer", "delete"}
      <3>1. {l.by, l.target} \subseteq l.users
        BY <1>2, <2>3 DEF InOrder, HoldsAccounts
      <3>2. k.by \in l.users
        BY <1>3, <1>4, <2>1, <2>3, <3>1 DEF StillGranted, IsCreator
      <3> QED BY <1>1, <1>4, <3>2 DEF Locked, LocksExclude, Excludes
    <2>4. CASE l.org = k.org /\ l.kind \in {"change_role", "remove"}
      <3>1. Past(l)
        BY <2>4 DEF Past, OwnerKinds
      <3>2. ~SinceLocked(l.org)
        BY <1>1, <1>3, <2>4, <3>1, OnePast DEF Locked
      <3> QED BY <1>1, <2>4, <3>2 DEF StillGranted, SinceLocked
    <2>5. CASE l.kind = "rename"
      BY <1>1, <2>1, <2>5 DEF StillGranted, MayRename, Role
    <2>6. l.kind \in {"change_role", "remove", "transfer", "delete", "rename"}
      BY <2>1 DEF StillGranted
    <2> QED BY <2>2, <2>3, <2>4, <2>5, <2>6
  <1> QED BY <1>7, <1>8 DEF InOrder

\* A membership changes, or goes, that no other call holds.
LEMMA RowKeepsOthers ==
    ASSUME Locked, NEW c \in Calls, NEW d \in Calls, c # d, Busy(c), Busy(d)', Past(call[c]),
           NEW row, row = <<call[c].target, call[c].org>>, row \notin HeldByOthers(c),
           NEW r \in Roles \cup {"none"}, role' = [role EXCEPT ![row] = r], UNCHANGED <<creator, unlocked>>,
           role[row] # "none",
           NEW gone, NEW demoted, gone \subseteq {row}, demoted \subseteq {row},
           EndsAndTells(c, gone, demoted), r = "none" => row \in gone, r # "OWNER" => row \in demoted
    PROVE  InOrder(call[d])'
  <1> DEFINE k == call[c]
             l == call[d]
             m == call'[d]
  <1>1. Busy(d) /\ m = Told(l, gone, demoted)
    BY OthersAreTold DEF Locked
  <1>2. InOrder(l) /\ l \in Requests /\ k \in Requests
    BY <1>1, CallTypes DEF Locked, CallsInOrder
  <1>3. SameRequest(l, m)
    BY <1>1, <1>2, ToldIsTheSame
  <1>4. \A u : u \in m.kept <=> u \in l.kept /\ <<u, l.org>> \notin demoted
    BY <1>1, <1>2, ToldKeeps
  <1>5. /\ m.joined = l.joined
        /\ <<l.target, l.org>> \in gone => m.gone
        /\ <<l.target, l.org>> \notin gone => m.gone = l.gone
    BY <1>1, <1>2, ToldIsGone
  <1>6. row \notin l.rows
    BY DEF HeldByOthers
  <1>7. row \in Users \X Orgs /\ role \in [Users \X Orgs -> Roles \cup {"none"}]
    BY <1>2 DEF Requests, Locked, TypeOK
  <1>8. \A u \in Users, o \in Orgs : Role(u, o)' = IF <<u, o>> = row THEN r ELSE Role(u, o)
    BY <1>7 DEF Role
  <1>9. l.org \in Orgs /\ l.by \in Users /\ l.target \in Users /\ l.kept \subseteq Users
    BY <1>2 DEF Requests
  <1>10. CountsOnOwners(call[d])'
    <2> SUFFICES ASSUME Selected(l)
                 PROVE  /\ m.kept \subseteq Owners(call[d].org)'
                        /\ m.pc = "lock" => m.kept \subseteq m.owners
                        /\ Past(m) => /\ m.kept \X {m.org} \subseteq m.rows
                                      /\ Exists(m.org) /\ SinceLocked(m.org) => m.kept # {}
      BY <1>3 DEF CountsOnOwners, SameRequest, Selected, Past, Exists, SinceLocked
    <2>1. /\ l.kept \subseteq Owners(l.org)
          /\ l.pc = "lock" => l.kept \subseteq l.owners
          /\ Past(l) => /\ l.kept \X {l.org} \subseteq l.rows
                        /\ Exists(l.org) /\ SinceLocked(l.org) => l.kept # {}
      BY <1>2 DEF InOrder, CountsOnOwners
    <2>2. m.kept \subseteq Owners(call[d].org)'
      <3> SUFFICES ASSUME NEW u \in m.kept PROVE u \in Users /\ Role(u, l.org)' = "OWNER"
        BY <1>3 DEF SameRequest, Owners, Role
      <3>1. u \in Users /\ Role(u, l.org) = "OWNER" /\ <<u, l.org>> \notin demoted
        BY <1>4, <2>1 DEF Owners
      <3> QED BY <1>3, <1>8, <1>9, <3>1 DEF SameRequest
    <2>3. ASSUME Past(m), Exists(m.org), SinceLocked(m.org) PROVE m.kept # {}
      <3>1. PICK u : u \in l.kept
        BY <1>3, <2>1, <2>3 DEF SameRequest, Past
      <3>2. <<u, l.org>> \in l.rows
        BY <1>3, <2>1, <2>3, <3>1 DEF SameRequest, Past
      <3> QED BY <1>4, <1>6, <3>1, <3>2
    <2> QED BY <1>3, <2>1, <2>2, <2>3 DEF SameRequest, Past
  <1>11. HoldsOwn(call[d])'
    <2>1. ASSUME NEW u \in Users, NEW o \in Orgs, Role(u, o)' # "none" PROVE Role(u, o) # "none"
      BY <1>8, <2>1 DEF Role
    <2> QED BY <1>2, <1>3, <1>5, <1>9, <2>1 DEF InOrder, HoldsOwn, SameRequest, Role
  <1>12. HoldsAccounts(call[d])'
    BY <1>2, <1>3 DEF InOrder, HoldsAccounts, SameRequest, Exists
  <1>13. IsThere(call[d])'
    <2> SUFFICES ASSUME l.kind \in {"change_role", "remove"}, ~m.gone
                 PROVE  Role(l.target, l.org)' # "none"
      BY <1>3 DEF IsThere, SameRequest, Role
    <2>1. ~l.gone /\ <<l.target, l.org>> \notin gone
      BY <1>5
    <2> QED BY <1>2, <1>3, <1>8, <1>9, <2>1 DEF InOrder, IsThere, SameRequest
  <1>14. IsGranted(call[d])'
    <2> SUFFICES ASSUME l.pc = "write" PROVE StillGranted(call[d])'
      BY <1>3 DEF IsGranted, SameRequest
    <2>1. StillGranted(l)
      BY <1>2 DEF InOrder, IsGranted
    <2>2. ASSUME l.kind \in OwnerKinds, SinceLocked(l.org), Exists(l.org) PROVE l.org # k.org
      BY <1>1, <2>2, OnePast DEF Past, Locked
    <2>3. ASSUME l.kind \in OwnerKinds, SinceLocked(l.org), Exists(l.org)
          PROVE  Owners(l.org)' = Owners(l.org) /\ \A u \in Users : Role(u, l.org)' = Role(u, l.org)
      <3>1. \A u \in Users : <<u, l.org>> # row
        BY <2>2, <2>3
      <3> QED BY <1>3, <1>8, <1>9, <3>1 DEF Owners, Role, SameRequest
    <2>4. \A u : IsCreator(u, l.org)' <=> IsCreator(u, l.org)
      BY <1>3 DEF IsCreator, Exists, SameRequest
    <2>5. CASE l.kind \in {"change_role", "remove"}
      <3>1. CASE m.gone \/ ~SinceLocked(l.org)
        BY <1>3, <2>5, <3>1 DEF StillGranted, SameRequest, SinceLocked
      <3>2. CASE ~m.gone /\ SinceLocked(l.org)
        <4>1. ~l.gone /\ m.gone = l.gone
          BY <1>5, <3>2
        <4>2. Exists(l.org)
          BY <1>2, <1>9, <2>5, <4>1 DEF InOrder, IsThere, Locked, OfOrganizations
        <4>3. Owners(l.org)' = Owners(l.org) /\ Role(l.target, l.org)' = Role(l.target, l.org)
          BY <1>3, <1>9, <2>3, <2>5, <3>2, <4>2 DEF OwnerKinds, SameRequest
        <4>4. NotLastOwner(l.target, l.org)' <=> NotLastOwner(l.target, l.org)
          BY <4>3 DEF NotLastOwner
        <4>5. CASE l.kind = "change_role"
          <5>1. MayChange(l)
            BY <2>1, <3>2, <4>1, <4>5 DEF StillGranted
          <5>2. MayChange(call[d])'
            BY <1>3, <2>4, <4>1, <4>3, <4>4, <5>1 DEF MayChange, SameRequest, NotLastOwner, IsCreator, Owners, Role, Exists
          <5> QED BY <1>3, <4>5, <5>2 DEF StillGranted, SameRequest
        <4>6. CASE l.kind = "remove"
          <5>1. MayRemove(l)
            BY <2>1, <3>2, <4>1, <4>6 DEF StillGranted
          <5>2. MayRemove(call[d])'
            BY <1>3, <2>4, <4>1, <4>3, <4>4, <5>1 DEF MayRemove, SameRequest, NotLastOwner, IsCreator, Owners, Role, Exists
          <5> QED BY <1>3, <4>6, <5>2 DEF StillGranted, SameRequest
        <4> QED BY <2>5, <4>5, <4>6
      <3> QED BY <3>1, <3>2
    <2>6. CASE l.kind = "transfer"
      <3>1. ~Exists(l.org) \/ IsCreator(l.by, l.org)
        BY <2>1, <2>6 DEF StillGranted
      <3>2. ASSUME SinceLocked(l.org) PROVE MayTransfer(call[d])'
        <4>1. MayTransfer(l)
          BY <2>1, <2>6, <3>2 DEF StillGranted
        <4>2. Owners(l.org)' = Owners(l.org)
          BY <2>3, <2>6, <3>2, <4>1 DEF MayTransfer, IsCreator, OwnerKinds
        <4> QED BY <1>3, <2>4, <4>1, <4>2 DEF MayTransfer, SameRequest, IsCreator, Owners, Role, Exists
      <3> QED BY <1>3, <2>4, <2>6, <3>1, <3>2 DEF StillGranted, SameRequest, SinceLocked, IsCreator, Exists
    <2>7. CASE l.kind = "delete"
      <3>1. IsCreator(l.target, l.org)
        BY <2>1, <2>7 DEF StillGranted
      <3>2. ASSUME ~l.joined PROVE MayDelete(call[d])'
        <4>1. \A o \in Orgs : Role(l.by, o) # "none" => <<l.by, o>> \in l.rows
          BY <1>2, <2>7, <3>2 DEF InOrder, HoldsOwn
        <4>2. \A o \in Orgs : Role(l.by, o)' = Role(l.by, o)
          BY <1>3, <1>6, <1>8, <1>9, <4>1 DEF Role, SameRequest
        <4>3. OrgsOf(l.by)' = OrgsOf(l.by)
          BY <4>2 DEF OrgsOf
        <4>4. MayDelete(l)
          BY <2>1, <2>7, <3>2 DEF StillGranted
        <4> QED BY <1>3, <1>9, <2>4, <4>2, <4>3, <4>4 DEF MayDelete, SameRequest, IsCreator, OrgsOf, Role, Exists
      <3> QED BY <1>3, <1>5, <2>4, <2>7, <3>1, <3>2 DEF StillGranted, SameRequest, IsCreator, Exists
    <2>8. CASE l.kind = "rename"
      <3>1. ASSUME ~l.joined PROVE MayRename(call[d])'
        <4>1. MayRename(l)
          BY <2>1, <2>8, <3>1 DEF StillGranted
        <4>2. <<l.by, l.org>> \in l.rows
          BY <1>2, <2>8, <3>1, <4>1 DEF InOrder, HoldsOwn, MayRename, Managers
        <4> QED BY <1>3, <1>6, <1>8, <1>9, <4>1, <4>2 DEF MayRename, SameRequest, Role
      <3> QED BY <1>3, <1>5, <2>8, <3>1 DEF StillGranted, SameRequest
    <2>9. l.kind \in {"change_role", "remove", "transfer", "delete", "rename"}
      BY <2>1 DEF StillGranted
    <2> QED BY <2>5, <2>6, <2>7, <2>8, <2>9
  <1> QED BY <1>10, <1>11, <1>12, <1>13, <1>14 DEF InOrder

LEMMA DeleteKeepsOthers ==
    ASSUME Locked, NEW c \in Calls, NEW d \in Calls, c # d, Deletes(c), Busy(d)'
    PROVE  InOrder(call[d])'
  <1> DEFINE k == call[c]
             l == call[d]
             m == call'[d]
             gone == Users \X {call[c].org}
  <1>1. Busy(c) /\ EndsAndTells(c, gone, gone)
    BY DEF Deletes, At
  <1>2. Busy(d) /\ m = Told(l, gone, gone)
    BY <1>1, OthersAreTold DEF Locked
  <1>3. InOrder(k) /\ InOrder(l) /\ k \in Requests /\ l \in Requests
    BY <1>1, <1>2, CallTypes DEF Locked, CallsInOrder
  <1>4. SameRequest(l, m)
    BY <1>2, <1>3, ToldIsTheSame
  <1>5. \A u : u \in m.kept <=> u \in l.kept /\ <<u, l.org>> \notin gone
    BY <1>2, <1>3, ToldKeeps
  <1>6. /\ m.joined = l.joined
        /\ <<l.target, l.org>> \in gone => m.gone
        /\ <<l.target, l.org>> \notin gone => m.gone = l.gone
    BY <1>2, <1>3, ToldIsGone
  <1>7. l.org \in Orgs /\ l.by \in Users /\ l.target \in Users /\ l.kept \subseteq Users /\ k.org \in Orgs
    BY <1>3 DEF Requests
  <1>8. gone \cap l.rows = {}
    BY DEF Deletes, HeldByOthers
  <1>9. \A u \in Users, o \in Orgs : Role(u, o)' = IF o = k.org THEN "none" ELSE Role(u, o)
    BY DEF Deletes, Role
  <1>10. (\A o : Exists(o)' <=> Exists(o) /\ o # k.org) /\ unlocked' = unlocked
    BY DEF Deletes, Exists
  <1>11. \A u : IsCreator(u, l.org)' <=> IsCreator(u, l.org) /\ l.org # k.org
    BY <1>4 DEF Deletes, IsCreator, Exists, SameRequest
  <1>12. k.kind = "delete" /\ k.pc = "write" /\ IsCreator(k.target, k.org) /\ k.target \in k.users /\ k.orgRow
    BY <1>3 DEF Deletes, At, InOrder, IsGranted, StillGranted, HoldsAccounts, IsCreator
  <1>13. CountsOnOwners(call[d])'
    <2> SUFFICES ASSUME Selected(l)
                 PROVE  /\ m.kept \subseteq Owners(call[d].org)'
                        /\ m.pc = "lock" => m.kept \subseteq m.owners
                        /\ Past(m) => /\ m.kept \X {m.org} \subseteq m.rows
                                      /\ Exists(l.org)' /\ SinceLocked(m.org) => m.kept # {}
      BY <1>4, <1>10 DEF CountsOnOwners, SameRequest, Selected, Past, Exists, SinceLocked
    <2>1. /\ l.kept \subseteq Owners(l.org)
          /\ l.pc = "lock" => l.kept \subseteq l.owners
          /\ Past(l) => /\ l.kept \X {l.org} \subseteq l.rows
                        /\ Exists(l.org) /\ SinceLocked(l.org) => l.kept # {}
      BY <1>3 DEF InOrder, CountsOnOwners
    <2>2. m.kept \subseteq Owners(call[d].org)'
      <3> SUFFICES ASSUME NEW u \in m.kept PROVE u \in Users /\ Role(u, l.org)' = "OWNER"
        BY <1>4 DEF SameRequest, Owners, Role
      <3>1. u \in Users /\ Role(u, l.org) = "OWNER" /\ l.org # k.org
        BY <1>5, <1>7, <2>1 DEF Owners
      <3> QED BY <1>4, <1>7, <1>9, <3>1 DEF SameRequest
    <2>3. ASSUME Past(m), Exists(l.org)', SinceLocked(m.org) PROVE m.kept # {}
      <3>1. Exists(l.org) /\ l.org # k.org
        BY <1>4, <1>10, <2>3 DEF SameRequest
      <3>2. PICK u : u \in l.kept
        BY <1>4, <2>1, <2>3, <3>1 DEF SameRequest, Past
      <3> QED BY <1>5, <3>1, <3>2
    <2> QED BY <1>4, <2>1, <2>2, <2>3 DEF SameRequest, Past
  <1>14. HoldsOwn(call[d])'
    <2>1. ASSUME NEW u \in Users, NEW o \in Orgs, Role(u, o)' # "none" PROVE Role(u, o) # "none"
      BY <1>9, <2>1 DEF Role
    <2> QED BY <1>3, <1>4, <1>6, <1>7, <2>1 DEF InOrder, HoldsOwn, SameRequest, Role
  <1>15. HoldsAccounts(call[d])'
    BY <1>3, <1>4, <1>10 DEF InOrder, HoldsAccounts, SameRequest
  <1>16. IsThere(call[d])'
    <2> SUFFICES ASSUME l.kind \in {"change_role", "remove"}, ~m.gone
                 PROVE  Role(l.target, l.org)' # "none"
      BY <1>4 DEF IsThere, SameRequest, Role
    <2>1. ~l.gone /\ l.org # k.org
      BY <1>6, <1>7
    <2> QED BY <1>3, <1>4, <1>7, <1>9, <2>1 DEF InOrder, IsThere, SameRequest
  <1>17. IsGranted(call[d])'
    <2> SUFFICES ASSUME l.pc = "write" PROVE StillGranted(call[d])'
      BY <1>4 DEF IsGranted, SameRequest
    <2>1. StillGranted(l)
      BY <1>3 DEF InOrder, IsGranted
    <2>2. ASSUME l.org # k.org
          PROVE  Owners(l.org)' = Owners(l.org) /\ \A u \in Users : Role(u, l.org)' = Role(u, l.org)
      BY <1>4, <1>7, <1>9, <2>2 DEF Owners, Role, SameRequest
    <2>3. CASE l.kind \in {"change_role", "remove"}
      <3>1. CASE m.gone \/ ~SinceLocked(l.org)
        BY <1>4, <1>10, <2>3, <3>1 DEF StillGranted, SameRequest, SinceLocked
      <3>2. CASE ~m.gone /\ SinceLocked(l.org)
        <4>1. ~l.gone /\ m.gone = l.gone /\ l.org # k.org
          BY <1>6, <1>7, <3>2
        <4>2. Owners(l.org)' = Owners(l.org) /\ Role(l.target, l.org)' = Role(l.target, l.org)
          BY <1>4, <1>7, <2>2, <4>1 DEF SameRequest
        <4>3. NotLastOwner(l.target, l.org)' <=> NotLastOwner(l.target, l.org)
          BY <4>2 DEF NotLastOwner
        <4>4. CASE l.kind = "change_role"
          <5>1. MayChange(l)
            BY <2>1, <3>2, <4>1, <4>4 DEF StillGranted
          <5>2. MayChange(call[d])'
            BY <1>4, <1>11, <4>1, <4>2, <4>3, <5>1 DEF MayChange, SameRequest, NotLastOwner, IsCreator, Owners, Role, Exists
          <5> QED BY <1>4, <4>4, <5>2 DEF StillGranted, SameRequest
        <4>5. CASE l.kind = "remove"
          <5>1. MayRemove(l)
            BY <2>1, <3>2, <4>1, <4>5 DEF StillGranted
          <5>2. MayRemove(call[d])'
            BY <1>4, <1>11, <4>1, <4>2, <4>3, <5>1 DEF MayRemove, SameRequest, NotLastOwner, IsCreator, Owners, Role, Exists
          <5> QED BY <1>4, <4>5, <5>2 DEF StillGranted, SameRequest
        <4> QED BY <2>3, <4>4, <4>5
      <3> QED BY <3>1, <3>2
    <2>4. CASE l.kind = "transfer"
      <3>1. {l.by, l.target} \subseteq l.users /\ (~Exists(l.org) \/ IsCreator(l.by, l.org))
        BY <1>3, <2>1, <2>4 DEF InOrder, HoldsAccounts, StillGranted
      <3>2. l.org # k.org
        <4> SUFFICES ASSUME l.org = k.org PROVE FALSE
          OBVIOUS
        <4>1. k.target = l.by
          BY <1>12, <3>1 DEF IsCreator
        <4> QED BY <1>1, <1>2, <1>12, <3>1, <4>1 DEF Locked, LocksExclude, Excludes
      <3>3. ~Exists(l.org)' \/ IsCreator(l.by, l.org)'
        BY <1>4, <1>10, <1>11, <3>1, <3>2 DEF SameRequest
      <3>4. ASSUME SinceLocked(l.org) PROVE MayTransfer(call[d])'
        <4>1. MayTransfer(l)
          BY <2>1, <2>4, <3>4 DEF StillGranted
        <4> QED BY <1>4, <1>11, <2>2, <3>2, <4>1 DEF MayTransfer, SameRequest, IsCreator, Owners, Role, Exists
      <3> QED BY <1>4, <1>10, <2>4, <3>3, <3>4 DEF StillGranted, SameRequest, SinceLocked, IsCreator, Exists
    <2>5. CASE l.kind = "delete"
      <3>1. IsCreator(l.target, l.org) /\ l.orgRow
        BY <1>3, <2>1, <2>5 DEF InOrder, HoldsAccounts, StillGranted, IsCreator
      <3>2. l.org # k.org
        BY <1>1, <1>2, <1>12, <3>1 DEF Locked, LocksExclude, Excludes
      <3>3. IsCreator(l.target, l.org)'
        BY <1>4, <1>11, <3>1, <3>2 DEF SameRequest
      <3>4. ASSUME ~l.joined PROVE MayDelete(call[d])'
        <4>1. \A o \in Orgs : Role(l.by, o) # "none" => <<l.by, o>> \in l.rows
          BY <1>3, <2>5, <3>4 DEF InOrder, HoldsOwn
        <4>2. \A o \in Orgs : Role(l.by, o)' = Role(l.by, o)
          BY <1>4, <1>7, <1>8, <1>9, <4>1 DEF SameRequest
        <4>3. OrgsOf(l.by)' = OrgsOf(l.by)
          BY <1>4, <4>2 DEF OrgsOf, SameRequest
        <4>4. MayDelete(l)
          BY <2>1, <2>5, <3>4 DEF StillGranted
        <4> QED BY <1>4, <1>7, <3>3, <4>2, <4>3, <4>4 DEF MayDelete, SameRequest, IsCreator, OrgsOf, Role, Exists
      <3> QED BY <1>4, <1>6, <2>5, <3>3, <3>4 DEF StillGranted, SameRequest, IsCreator, Exists
    <2>6. CASE l.kind = "rename"
      <3>1. ASSUME ~l.joined PROVE MayRename(call[d])'
        <4>1. MayRename(l)
          BY <2>1, <2>6, <3>1 DEF StillGranted
        <4>2. <<l.by, l.org>> \in l.rows
          BY <1>3, <2>6, <3>1, <4>1 DEF InOrder, HoldsOwn, MayRename, Managers
        <4>3. l.org # k.org
          BY <1>7, <1>8, <4>2
        <4> QED BY <1>4, <1>7, <2>2, <4>1, <4>3 DEF MayRename, SameRequest, Role
      <3> QED BY <1>4, <1>6, <2>6, <3>1 DEF StillGranted, SameRequest
    <2>7. l.kind \in {"change_role", "remove", "transfer", "delete", "rename"}
      BY <2>1 DEF StillGranted
    <2> QED BY <2>3, <2>4, <2>5, <2>6, <2>7
  <1> QED BY <1>13, <1>14, <1>15, <1>16, <1>17 DEF InOrder

LEMMA AcceptKeepsOthers ==
    ASSUME Locked, NEW c \in Calls, NEW d \in Calls, c # d, NEW i \in Invites, Accepts(c, i), Busy(d)'
    PROVE  InOrder(call[d])'
  <1> DEFINE k == call[c]
             l == call[d]
             m == call'[d]
             row == <<call[c].by, call[c].org>>
  <1>1. Busy(d) /\ Busy(c)
    BY DEF Accepts, Busy, At
  <1>2. InOrder(l) /\ l \in Requests /\ k \in Requests
    BY <1>1, CallTypes DEF Locked, CallsInOrder
  <1>3. SameRequest(l, m) /\ m.gone = l.gone /\ m.kept = l.kept
    BY <1>1, OthersJoin DEF Locked
  <1>4. /\ l.by = k.by => m.joined
        /\ l.by # k.by => m = l
    BY <1>1, OthersJoin DEF Locked
  <1>5. l.org \in Orgs /\ l.by \in Users /\ l.target \in Users /\ k.by \in Users /\ k.org \in Orgs
    BY <1>2 DEF Requests
  <1>6. invite[i] \in InviteRows /\ invite[i].role \in Roles \ {"OWNER"}
    BY DEF Accepts, About, Locked, TypeOK, InviteRows
  <1>7. UNCHANGED <<creator, unlocked>> /\ Role(k.by, k.org) = "none"
    BY DEF Accepts
  <1>8. \A u \in Users, o \in Orgs : Role(u, o)' = IF <<u, o>> = row THEN invite[i].role ELSE Role(u, o)
    BY <1>5 DEF Accepts, Role, Locked, TypeOK
  <1>9. \A o \in Orgs : Owners(o)' = Owners(o)
    BY <1>5, <1>6, <1>7, <1>8 DEF Owners, Role
  <1>10. \A u, o : (IsCreator(u, o)' <=> IsCreator(u, o)) /\ (Exists(o)' <=> Exists(o))
    BY <1>7 DEF IsCreator, Exists
  <1>11. \A u \in Users, o \in Orgs : Role(u, o) # "none" => Role(u, o)' = Role(u, o)
    BY <1>7, <1>8 DEF Role
  <1>12. CountsOnOwners(call[d])'
    BY <1>2, <1>3, <1>5, <1>7, <1>9, <1>10 DEF InOrder, CountsOnOwners, SameRequest, Selected, Past, SinceLocked
  <1>13. HoldsOwn(call[d])'
    <2> SUFFICES ASSUME ~m.joined PROVE HoldsOwn(call[d])'
      BY DEF HoldsOwn
    <2>1. l.by # k.by /\ m = l
      BY <1>4
    <2>2. \A o \in Orgs : Role(l.by, o)' = Role(l.by, o)
      BY <1>5, <1>8, <2>1
    <2> QED BY <1>2, <1>5, <2>1, <2>2 DEF InOrder, HoldsOwn
  <1>14. HoldsAccounts(call[d])'
    BY <1>2, <1>3, <1>10 DEF InOrder, HoldsAccounts, SameRequest
  <1>15. IsThere(call[d])'
    BY <1>2, <1>3, <1>5, <1>11 DEF InOrder, IsThere, SameRequest
  <1>16. IsGranted(call[d])'
    <2> SUFFICES ASSUME l.pc = "write" PROVE StillGranted(call[d])'
      BY <1>3 DEF IsGranted, SameRequest
    <2>1. StillGranted(l)
      BY <1>2 DEF InOrder, IsGranted
    <2>2. Owners(l.org)' = Owners(l.org)
      BY <1>3, <1>5, <1>9 DEF SameRequest
    <2>3. CASE l.kind \in {"change_role", "remove"}
      <3>1. CASE l.gone \/ ~SinceLocked(l.org)
        BY <1>3, <1>7, <2>3, <3>1 DEF StillGranted, SameRequest, SinceLocked
      <3>2. CASE ~l.gone /\ SinceLocked(l.org)
        <4>1. Role(l.target, l.org)' = Role(l.target, l.org)
          BY <1>2, <1>3, <1>5, <1>11, <2>3, <3>2 DEF InOrder, IsThere, SameRequest
        <4>2. NotLastOwner(l.target, l.org)' <=> NotLastOwner(l.target, l.org)
          BY <2>2, <4>1 DEF NotLastOwner
        <4>3. CASE l.kind = "change_role"
          <5>1. MayChange(l)
            BY <2>1, <3>2, <4>3 DEF StillGranted
          <5>2. MayChange(call[d])'
            BY SMTT(30), <1>3, <1>10, <3>2, <4>1, <4>2, <5>1 DEF MayChange, SameRequest, NotLastOwner, IsCreator, Owners, Role, Exists
          <5> QED BY <1>3, <4>3, <5>2 DEF StillGranted, SameRequest
        <4>4. CASE l.kind = "remove"
          <5>1. MayRemove(l)
            BY <2>1, <3>2, <4>4 DEF StillGranted
          <5>2. MayRemove(call[d])'
            BY <1>3, <1>10, <3>2, <4>1, <4>2, <5>1 DEF MayRemove, SameRequest
          <5> QED BY <1>3, <4>4, <5>2 DEF StillGranted, SameRequest
        <4> QED BY <2>3, <4>3, <4>4
      <3> QED BY <3>1, <3>2
    <2>4. CASE l.kind = "transfer"
      <3>1. MayTransfer(call[d])' <=> MayTransfer(l)
        BY <1>3, <1>10, <2>2 DEF MayTransfer, SameRequest
      <3> QED BY <1>3, <1>7, <1>10, <2>1, <2>4, <3>1 DEF StillGranted, SameRequest, SinceLocked
    <2>5. CASE l.kind = "delete" /\ m.joined
      BY <1>3, <1>10, <2>1, <2>5 DEF StillGranted, SameRequest
    <2>6. CASE l.kind = "delete" /\ ~m.joined
      <3>1. l.by # k.by /\ m = l
        BY <1>4, <2>6
      <3>2. \A o \in Orgs : Role(l.by, o)' = Role(l.by, o)
        BY <1>5, <1>8, <3>1
      <3>3. OrgsOf(l.by)' = OrgsOf(l.by)
        BY <3>1, <3>2 DEF OrgsOf
      <3>4. MayDelete(l)
        BY <2>1, <2>6, <3>1 DEF StillGranted
      <3>5. MayDelete(call[d])'
        BY <1>5, <1>10, <3>1, <3>2, <3>3, <3>4 DEF MayDelete
      <3> QED BY <1>10, <2>1, <2>6, <3>1, <3>5 DEF StillGranted
    <2>7. CASE l.kind = "rename"
      BY <1>3, <1>4, <1>5, <1>8, <2>1, <2>7 DEF StillGranted, MayRename, SameRequest
    <2>8. l.kind \in {"change_role", "remove", "transfer", "delete", "rename"}
      BY <2>1 DEF StillGranted
    <2> QED BY <2>3, <2>4, <2>5, <2>6, <2>7, <2>8
  <1> QED BY <1>12, <1>13, <1>14, <1>15, <1>16 DEF InOrder

-----------------------------------------------------------------------------
(* And in its own *)

LEMMA AskIsInOrder ==
    ASSUME Locked, NEW c \in Calls, Asks(c)
    PROVE  InOrder(call[c])'
  <1>1. PICK kind \in Kinds, by \in Users, o \in Orgs, target \in Users, r \in Roles :
           /\ Ask(c, kind, by, o, target, r)
           /\ kind = "invite" => r # "OWNER"
           /\ kind \in {"change_role", "remove"} => Role(target, o) # "none"
    BY AnAsk DEF Locked
  <1>2. /\ call'[c].kind = kind /\ call'[c].pc = "permitted" /\ call'[c].target = target /\ call'[c].org = o
        /\ role' = role
    BY <1>1 DEF Ask, Locked, TypeOK
  <1> QED BY <1>1, <1>2 DEF InOrder, CountsOnOwners, Selected, HoldsOwn, HoldsAccounts, IsThere, IsGranted, Role

LEMMA LockIsInOrder ==
    ASSUME Locked, NEW c \in Calls, Locks(c)
    PROVE  InOrder(call[c])'
  <1> DEFINE k == call[c]
             m == call'[c]
  <1>1. Busy(c)
    BY DEF Locks, LocksUsers, SelectsOwners, LocksOwners, LocksOwn, LocksOrganization, At
  <1>2. k \in Requests /\ InOrder(k)
    BY <1>1, CallTypes DEF Locked, CallsInOrder
  <1>3. UNCHANGED <<creator, role>>
    BY DEF Locks, LocksUsers, SelectsOwners, LocksOwners, LocksOwn, LocksOrganization
  <1>4. /\ m.kind = k.kind /\ m.by = k.by /\ m.org = k.org /\ m.target = k.target /\ m.gone = k.gone
        /\ m.joined = k.joined /\ m.pc \in {"select", "lock", "read"}
    <2>1. CASE LocksUsers(c)
      BY <1>2, <2>1 DEF LocksUsers, Locked, TypeOK, Requests
    <2>2. CASE SelectsOwners(c)
      BY <1>2, <2>2 DEF SelectsOwners, Locked, TypeOK, Requests
    <2>3. CASE LocksOwners(c)
      BY <1>2, <2>3 DEF LocksOwners, Locked, TypeOK, Requests
    <2>4. CASE LocksOwn(c)
      BY <1>2, <2>4 DEF LocksOwn, Locked, TypeOK, Requests
    <2>5. CASE LocksOrganization(c)
      BY <1>2, <2>5 DEF LocksOrganization, Locked, TypeOK, Requests
    <2> QED BY <2>1, <2>2, <2>3, <2>4, <2>5 DEF Locks
  <1>5. IsThere(call[c])' /\ IsGranted(call[c])'
    BY <1>2, <1>3, <1>4 DEF InOrder, IsThere, IsGranted, Role
  <1>6. CASE LocksUsers(c)
    <2>1. m.pc = "select" /\ m.users = {k.by, k.target} /\ k.kind \in {"transfer", "delete"}
      BY <1>2, <1>6 DEF LocksUsers, At, Locked, TypeOK, Requests
    <2> QED BY <1>4, <1>5, <2>1 DEF InOrder, CountsOnOwners, Selected, HoldsOwn, HoldsAccounts
  <1>7. CASE SelectsOwners(c)
    <2>1. /\ m.pc = "lock" /\ m.kept = Owners(k.org) /\ m.owners = Owners(k.org) /\ m.users = k.users
          /\ k.kind \in OwnerKinds /\ (k.kind = "transfer" => k.pc = "select")
      BY <1>2, <1>7 DEF SelectsOwners, At, Locked, TypeOK, Requests, OwnerKinds
    <2>2. CountsOnOwners(call[c])'
      BY <1>3, <1>4, <2>1 DEF CountsOnOwners, Past, Owners, Role
    <2>3. HoldsOwn(call[c])'
      BY <1>4, <2>1 DEF HoldsOwn, OwnerKinds
    <2>4. HoldsAccounts(call[c])'
      BY <1>2, <1>4, <2>1 DEF InOrder, HoldsAccounts, OwnerKinds
    <2> QED BY <1>5, <2>2, <2>3, <2>4 DEF InOrder
  <1>8. CASE LocksOwners(c)
    <2>1. /\ m.pc = "read" /\ m.kept = k.kept /\ m.rows = (k.owners \cap Owners(k.org)) \X {k.org} /\ m.users = k.users
          /\ k.kind \in OwnerKinds /\ k.pc = "lock"
      BY <1>2, <1>8 DEF LocksOwners, At, Locked, TypeOK, Requests, OwnerKinds
    <2>2. k.kept \subseteq Owners(k.org) /\ k.kept \subseteq k.owners
      BY <1>2, <2>1 DEF InOrder, CountsOnOwners, Selected
    <2>3. ASSUME Exists(k.org), k.kept = {} PROVE ~SinceLocked(call[c].org)'
      <3>1. unlocked' = [unlocked EXCEPT ![k.org] = "since"] /\ k.org \in Orgs
        BY <1>2, <1>8, <2>3 DEF LocksOwners, Requests
      <3> QED BY <1>4, <3>1 DEF SinceLocked, Locked, TypeOK
    <2>4. CountsOnOwners(call[c])'
      BY <1>3, <1>4, <2>1, <2>2, <2>3 DEF CountsOnOwners, Past, Owners, Role, Exists
    <2>5. HoldsOwn(call[c])'
      BY <1>4, <2>1 DEF HoldsOwn, OwnerKinds
    <2>6. HoldsAccounts(call[c])'
      BY <1>2, <1>4, <2>1 DEF InOrder, HoldsAccounts, OwnerKinds
    <2> QED BY <1>5, <2>4, <2>5, <2>6 DEF InOrder
  <1>9. CASE LocksOwn(c)
    <2>1. \/ k.kind = "delete" /\ k.pc = "select" /\ m.pc = "lock" /\ m.rows = {k.by} \X OrgsOf(k.by)
          \/ /\ k.kind = "rename" /\ m.pc = "read"
             /\ m.rows = {<<k.by, o>> : o \in OrgsOf(k.by) \cap {k.org}}
      BY <1>2, <1>9 DEF LocksOwn, At, Locked, TypeOK, Requests
    <2>2. m.users = k.users
      BY <1>2, <1>9 DEF LocksOwn, Locked, TypeOK, Requests
    <2>3. CountsOnOwners(call[c])'
      BY <1>4, <2>1 DEF CountsOnOwners, Selected, OwnerKinds
    <2>4. HoldsOwn(call[c])'
      BY <1>2, <1>3, <1>4, <2>1 DEF HoldsOwn, OrgsOf, Role, Requests
    <2>5. HoldsAccounts(call[c])'
      BY <1>2, <1>4, <2>1, <2>2 DEF InOrder, HoldsAccounts
    <2> QED BY <1>5, <2>3, <2>4, <2>5 DEF InOrder
  <1>10. CASE LocksOrganization(c)
    <2>1. /\ k.kind = "delete" /\ k.pc = "lock" /\ m.pc = "read" /\ m.rows = k.rows /\ m.users = k.users
          /\ m.orgRow = Exists(k.org)
      BY <1>2, <1>10 DEF LocksOrganization, At, Locked, TypeOK, Requests
    <2>2. CountsOnOwners(call[c])'
      BY <1>4, <2>1 DEF CountsOnOwners, Selected, OwnerKinds
    <2>3. HoldsOwn(call[c])'
      BY <1>2, <1>3, <1>4, <2>1 DEF InOrder, HoldsOwn, Role
    <2>4. HoldsAccounts(call[c])'
      BY <1>2, <1>3, <1>4, <2>1 DEF InOrder, HoldsAccounts, Exists
    <2> QED BY <1>5, <2>2, <2>3, <2>4 DEF InOrder
  <1> QED BY <1>6, <1>7, <1>8, <1>9, <1>10 DEF Locks

LEMMA ReadIsInOrder ==
    ASSUME Locked, NEW c \in Calls, Reads(c)
    PROVE  InOrder(call[c])'
  <1> DEFINE k == call[c]
             m == call'[c]
  <1>1. Busy(c) /\ k.pc = "read" /\ Granted(k) /\ UNCHANGED <<creator, role, unlocked>>
    BY DEF Reads, At
  <1>2. k \in Requests /\ InOrder(k)
    BY <1>1, CallTypes DEF Locked, CallsInOrder
  <1>3. m = [k EXCEPT !.pc = "write"]
    BY <1>2 DEF Reads, Steps, Locked, TypeOK
  <1>4. /\ m.kind = k.kind /\ m.by = k.by /\ m.org = k.org /\ m.target = k.target /\ m.gone = k.gone
        /\ m.joined = k.joined /\ m.pc = "write" /\ m.rows = k.rows /\ m.users = k.users /\ m.orgRow = k.orgRow
        /\ m.kept = k.kept /\ m.owners = k.owners /\ m.role = k.role
    BY <1>2, <1>3 DEF Requests
  <1>5. CountsOnOwners(call[c])'
    BY <1>1, <1>2, <1>4 DEF InOrder, CountsOnOwners, Selected, Past, Owners, Role, Exists, SinceLocked
  <1>6. HoldsOwn(call[c])' /\ HoldsAccounts(call[c])' /\ IsThere(call[c])'
    BY <1>1, <1>2, <1>4 DEF InOrder, HoldsOwn, HoldsAccounts, IsThere, Role, Exists
  <1>7. StillGranted(k)
    BY <1>1 DEF Granted, StillGranted, MayTransfer, MayDelete, IsCreator
  <1>8. MayChange(call[c])' <=> MayChange(k)
    BY <1>1, <1>4 DEF MayChange, NotLastOwner, IsCreator, Owners, Role, Exists
  <1>9. MayRemove(call[c])' <=> MayRemove(k)
    BY <1>1, <1>4 DEF MayRemove, NotLastOwner, IsCreator, Owners, Role, Exists
  <1>10. MayTransfer(call[c])' <=> MayTransfer(k)
    BY <1>1, <1>4 DEF MayTransfer, IsCreator, Owners, Role, Exists
  <1>11. MayDelete(call[c])' <=> MayDelete(k)
    BY <1>1, <1>4 DEF MayDelete, IsCreator, OrgsOf, Role, Exists
  <1>12. MayRename(call[c])' <=> MayRename(k)
    BY <1>1, <1>4 DEF MayRename, Role
  <1>13. IsGranted(call[c])'
    BY <1>1, <1>4, <1>7, <1>8, <1>9, <1>10, <1>11, <1>12 DEF IsGranted, StillGranted, IsCreator, Exists, SinceLocked
  <1> QED BY <1>5, <1>6, <1>13 DEF InOrder

LEMMA NextInOrder ==
    ASSUME Locked, [Next]_vars
    PROVE  CallsInOrder'
  <1>1. ASSUME NEW c \in Calls, ByCall(c), NEW d \in Calls, Busy(d)'
        PROVE  InOrder(call[d])'
    <2>1. CASE d = c
      <3>1. CASE Writes(c) \/ Fails(c)
        <4>1. ~Busy(c)'
          BY <3>1 DEF Writes, Fails, Changes, Removes, Transfers, Deletes, Renames, WritesInvite, WritesRevoked,
                      Accepts, Ends, EndsAndTells, Busy, Locked, TypeOK
        <4> QED BY <1>1, <2>1, <4>1
      <3> QED BY <1>1, <2>1, <3>1, AskIsInOrder, LockIsInOrder, ReadIsInOrder DEF ByCall
    <2>2. CASE d # c
      <3>1. CASE Quiet(c)
        BY <1>1, <2>2, <3>1, QuietKeepsOthers, TransferKeepsOthers
      <3>2. CASE Changes(c) \/ Removes(c)
        <4> DEFINE k == call[c]
                   row == <<call[c].target, call[c].org>>
        <4>1. Busy(c) /\ Past(k) /\ ~k.gone /\ k.kind \in {"change_role", "remove"} /\ row \notin HeldByOthers(c)
              /\ UNCHANGED <<creator, unlocked>>
          BY <3>2 DEF Changes, Removes, At, Past, OwnerKinds
        <4>2. k \in Requests /\ InOrder(k)
          BY <4>1, CallTypes DEF Locked, CallsInOrder
        <4>3. role[row] # "none"
          BY <4>1, <4>2 DEF InOrder, IsThere, Role
        <4>4. CASE Changes(c)
          <5> DEFINE demoted == IF k.role = "OWNER" THEN {} ELSE {row}
          <5>1. k.role \in Roles /\ k.role # "none"
            BY <4>2 DEF Requests, Roles
          <5>2. role' = [role EXCEPT ![row] = k.role] /\ EndsAndTells(c, {}, demoted)
            BY <4>4 DEF Changes
          <5>3. demoted \subseteq {row} /\ (k.role # "OWNER" => row \in demoted)
            OBVIOUS
          <5> HIDE DEF demoted
          <5> QED BY <1>1, <2>2, <4>1, <4>3, <5>1, <5>2, <5>3, RowKeepsOthers
        <4>5. CASE Removes(c)
          <5> DEFINE gone == {row}
                     demoted == {row}
                     none == "none"
          <5>1. role' = [role EXCEPT ![row] = none] /\ EndsAndTells(c, gone, demoted)
            BY <4>5 DEF Removes
          <5>2. /\ gone \subseteq {row} /\ row \in gone /\ demoted \subseteq {row} /\ row \in demoted
                /\ none \in Roles \cup {"none"} /\ none = "none" /\ none # "OWNER"
            OBVIOUS
          <5> HIDE DEF gone, demoted, none
          <5> QED BY <1>1, <2>2, <4>1, <4>3, <5>1, <5>2, RowKeepsOthers
        <4> QED BY <3>2, <4>4, <4>5
      <3> QED BY <1>1, <2>2, <3>1, <3>2, DeleteKeepsOthers, AcceptKeepsOthers DEF ByCall, Quiet, Writes
    <2> QED BY <2>1, <2>2
  <1>2. ASSUME UNCHANGED <<creator, role, call, unlocked>>, NEW d \in Calls, Busy(d)'
        PROVE  InOrder(call[d])'
    <2>1. Busy(d) /\ InOrder(call[d]) /\ call'[d] = call[d] /\ (\A o \in Orgs : SinceLocked(o)' => SinceLocked(o))
      BY <1>2 DEF Busy, Locked, CallsInOrder, SinceLocked
    <2> QED BY <1>2, <2>1, OtherIsLeftInOrder DEF Locked
  <1> QED BY <1>1, <1>2 DEF CallsInOrder, Next, ByCall, Expires, vars

-----------------------------------------------------------------------------
(* The owners *)

\* Of a demotion, a removal or a departure that still is granted, somebody else
\* remains, and the creator among them.
LEMMA RowKeepsOwners ==
    ASSUME Locked, OwnerRemains, CreatorStaysWhileLocked, NEW c \in Calls, Changes(c) \/ Removes(c)
    PROVE  OwnerRemains' /\ CreatorStaysWhileLocked' /\ OfOrganizations'
  <1> DEFINE k == call[c]
             r == IF Changes(c) THEN k.role ELSE "none"
  <1>1. /\ Busy(c) /\ k.pc = "write" /\ ~k.gone /\ k.kind \in {"change_role", "remove"}
        /\ Changes(c) => k.kind = "change_role"
        /\ ~Changes(c) => k.kind = "remove"
        /\ UNCHANGED <<creator, invite, unlocked>>
    BY DEF Changes, Removes, At
  <1>2. InOrder(k) /\ k \in Requests
    BY <1>1, CallTypes DEF Locked, CallsInOrder
  <1>3. k.org \in Orgs /\ k.target \in Users /\ k.role \in Roles /\ k.role # "none"
    BY <1>2 DEF Requests, Roles
  <1>4. role' = [role EXCEPT ![<<k.target, k.org>>] = r]
    BY DEF Changes, Removes
  <1>5. r # "none" => r = k.role /\ k.kind = "change_role"
    BY <1>1
  <1>6. r = "none" => k.kind = "remove"
    BY <1>1, <1>3
  <1> HIDE DEF r
  <1>7. \A u \in Users, o \in Orgs : Role(u, o)' = IF u = k.target /\ o = k.org THEN r ELSE Role(u, o)
    BY <1>3, <1>4 DEF Role, Locked, TypeOK
  <1>8. \A o \in Orgs : Exists(o)' <=> Exists(o)
    BY <1>1 DEF Exists
  <1>9. Role(k.target, k.org) # "none"
    BY <1>1, <1>2 DEF InOrder, IsThere
  <1>10. DOMAIN creator \subseteq Orgs /\ \A o \in DOMAIN creator : creator[o] \in Users
    BY DEF Locked, TypeOK
  <1>11. SinceLocked(k.org) /\ Role(k.target, k.org) # r
            => ~IsCreator(k.target, k.org) /\ NotLastOwner(k.target, k.org)
    BY <1>1, <1>2, <1>5, <1>6 DEF InOrder, IsGranted, StillGranted, MayChange, MayRemove
  <1>12. ASSUME NEW o \in DOMAIN creator, SinceLocked(o) PROVE Owners(o)' # {}
    <2>1. Owners(o) # {} /\ o \in Orgs
      BY <1>10, <1>12 DEF OwnerRemains
    <2>2. PICK v \in Users : Role(v, o) = "OWNER"
      BY <2>1 DEF Owners
    <2>3. CASE o # k.org \/ r = "OWNER" \/ Role(k.target, o) = r
      <3>1. PICK u \in Users : Role(u, o)' = "OWNER"
        BY <1>3, <1>7, <2>1, <2>2, <2>3
      <3> QED BY <3>1 DEF Owners, Role
    <2>4. CASE o = k.org /\ Role(k.target, o) # r /\ r # "OWNER"
      <3>1. CASE Role(k.target, o) = "OWNER"
        <4>1. Cardinality(Owners(o)) > 1 /\ IsFiniteSet(Owners(o))
          BY <1>11, <1>12, <2>4, <3>1, MembersAssumption, FS_Subset DEF NotLastOwner, Owners
        <4>2. PICK u \in Owners(o) : u # k.target
          BY <4>1, OneMore
        <4> QED BY <1>7, <2>1, <4>2 DEF Owners, Role
      <3>2. CASE Role(k.target, o) # "OWNER"
        <4>1. v # k.target
          BY <2>2, <3>2
        <4>2. Role(v, o)' = "OWNER"
          BY <1>7, <2>1, <2>2, <4>1
        <4> QED BY <4>2 DEF Owners, Role
      <3> QED BY <3>1, <3>2
    <2> QED BY <2>3, <2>4
  <1>13. ASSUME NEW o \in DOMAIN creator, unlocked[o] = "never" PROVE creator[o] \in Owners(o)'
    <2>1. creator[o] \in Owners(o) /\ o \in Orgs /\ creator[o] \in Users
      BY <1>10, <1>13 DEF CreatorStaysWhileLocked
    <2>2. o = k.org /\ creator[o] = k.target => Role(k.target, o) = r
      BY <1>11, <1>13 DEF IsCreator, Exists, SinceLocked
    <2> QED BY <1>7, <2>1, <2>2 DEF Owners, Role
  <1>14. OfOrganizations'
    BY <1>1, <1>3, <1>7, <1>8, <1>9 DEF Locked, OfOrganizations, Role, Exists
  <1> QED BY <1>1, <1>12, <1>13, <1>14 DEF OwnerRemains, CreatorStaysWhileLocked, SinceLocked, Owners, Role

\* A transfer makes an owner the creator.
LEMMA TransferKeepsOwners ==
    ASSUME Locked, OwnerRemains, CreatorStaysWhileLocked, NEW c \in Calls, Transfers(c)
    PROVE  OwnerRemains' /\ CreatorStaysWhileLocked' /\ OfOrganizations'
  <1> DEFINE k == call[c]
  <1>1. Busy(c) /\ k.pc = "write" /\ k.kind = "transfer" /\ UNCHANGED <<role, invite, unlocked>> /\ Exists(k.org)
    BY DEF Transfers, At
  <1>2. InOrder(k) /\ k \in Requests
    BY <1>1, CallTypes DEF Locked, CallsInOrder
  <1>3. SinceLocked(k.org) => k.target \in Owners(k.org)
    BY <1>1, <1>2 DEF InOrder, IsGranted, StillGranted, MayTransfer
  <1>4. DOMAIN creator' = DOMAIN creator /\ \A o \in DOMAIN creator : creator'[o] = IF o = k.org THEN k.target ELSE creator[o]
    BY DEF Transfers, Locked, TypeOK
  <1>5. \A o : Owners(o)' = Owners(o)
    BY <1>1 DEF Owners, Role
  <1> QED BY <1>1, <1>3, <1>4, <1>5 DEF Locked, OwnerRemains, CreatorStaysWhileLocked, OfOrganizations, SinceLocked, Role, Exists

\* A deletion leaves the other organizations as they are.
LEMMA DeleteKeepsOwners ==
    ASSUME Locked, OwnerRemains, CreatorStaysWhileLocked, NEW c \in Calls, Deletes(c)
    PROVE  OwnerRemains' /\ CreatorStaysWhileLocked' /\ OfOrganizations'
  <1> DEFINE k == call[c]
  <1>1. /\ DOMAIN creator' = DOMAIN creator \ {k.org}
        /\ \A o \in DOMAIN creator' : creator'[o] = creator[o]
        /\ UNCHANGED unlocked
    BY DEF Deletes
  <1>2. \A u \in Users, o \in Orgs : Role(u, o)' = IF o = k.org THEN "none" ELSE Role(u, o)
    BY DEF Deletes, Role
  <1>3. \A i \in Invites : invite'[i] # NoInvite => invite'[i] = invite[i] /\ invite[i].org # k.org
    BY DEF Deletes
  <1>4. \A o \in Orgs : o # k.org => Owners(o)' = Owners(o)
    BY <1>2 DEF Owners, Role
  <1>5. DOMAIN creator \subseteq Orgs
    BY DEF Locked, TypeOK
  <1>6. OfOrganizations'
    BY <1>1, <1>2, <1>3 DEF Locked, OfOrganizations, Exists, Role
  <1> QED BY <1>1, <1>4, <1>5, <1>6 DEF OwnerRemains, CreatorStaysWhileLocked, SinceLocked

\* An accepted invite adds no owner, to an organization that exists.
LEMMA AcceptKeepsOwners ==
    ASSUME Locked, OwnerRemains, CreatorStaysWhileLocked, NEW c \in Calls, NEW i \in Invites, Accepts(c, i)
    PROVE  OwnerRemains' /\ CreatorStaysWhileLocked' /\ OfOrganizations'
  <1> DEFINE k == call[c]
  <1>1. Busy(c) /\ k \in Requests
    BY CallTypes DEF Accepts, At, Locked
  <1>2. k.by \in Users /\ k.org \in Orgs
    BY <1>1 DEF Requests
  <1>3. invite[i] # NoInvite /\ invite[i] \in InviteRows /\ invite[i].org = k.org /\ invite[i].role \in Roles \ {"OWNER"}
    BY DEF Accepts, About, Locked, TypeOK, InviteRows
  <1>4. UNCHANGED <<creator, unlocked>> /\ Role(k.by, k.org) = "none" /\ Exists(k.org)
    BY <1>3 DEF Accepts, Locked, OfOrganizations
  <1>5. \A u \in Users, o \in Orgs : Role(u, o)' = IF u = k.by /\ o = k.org THEN invite[i].role ELSE Role(u, o)
    BY <1>2 DEF Accepts, Role, Locked, TypeOK
  <1>6. \A o \in Orgs : Owners(o)' = Owners(o)
    BY <1>2, <1>3, <1>4, <1>5 DEF Owners, Role
  <1>7. DOMAIN creator \subseteq Orgs
    BY DEF Locked, TypeOK
  <1>8. \A j \in Invites : invite'[j] # NoInvite => invite[j] # NoInvite /\ invite'[j].org = invite[j].org
    <2>1. invite' = [invite EXCEPT ![i] = [invite[i] EXCEPT !.status = "accepted"]]
      BY DEF Accepts, Locked, TypeOK
    <2>2. [invite[i] EXCEPT !.status = "accepted"].org = invite[i].org
      BY <1>3 DEF InviteRows
    <2> QED BY <1>3, <2>1, <2>2 DEF Locked, TypeOK
  <1>9. OfOrganizations'
    BY <1>4, <1>5, <1>8 DEF Locked, OfOrganizations, Exists, Role
  <1> QED BY <1>4, <1>6, <1>7, <1>9 DEF OwnerRemains, CreatorStaysWhileLocked, SinceLocked

\* All other steps leave the owners as they are.
LEMMA QuietKeepsOwners ==
    ASSUME Locked, OwnerRemains, CreatorStaysWhileLocked, NEW c \in Calls, Quiet(c), ~Transfers(c)
    PROVE  OwnerRemains' /\ CreatorStaysWhileLocked' /\ OfOrganizations'
  <1>1. UNCHANGED <<creator, role>> /\ \A o \in Orgs : unlocked'[o] = unlocked[o] \/ unlocked'[o] = "since"
    <2>1. CASE Asks(c)
      <3>1. PICK kind \in Kinds, by \in Users, p \in Orgs, target \in Users, r \in Roles : Ask(c, kind, by, p, target, r)
        BY <2>1, AnAsk DEF Locked
      <3> QED BY <3>1 DEF Ask
    <2>2. CASE LocksOwners(c)
      BY <2>2 DEF LocksOwners, Locked, TypeOK
    <2> QED BY <2>1, <2>2 DEF Quiet, Locks, LocksUsers, SelectsOwners, LocksOwn, LocksOrganization, Reads, Fails,
                  Renames, WritesInvite, WritesRevoked
  <1>2. \A i \in Invites : invite'[i] # NoInvite => Exists(invite'[i].org)
    <2>1. CASE UNCHANGED invite
      BY <2>1 DEF Locked, OfOrganizations
    <2>2. ASSUME NEW j \in Invites, WritesInvite(c, j), NEW i \in Invites, invite'[i] # NoInvite
          PROVE  Exists(invite'[i].org)
      BY <2>2 DEF WritesInvite, Locked, TypeOK, OfOrganizations
    <2>3. ASSUME NEW j \in Invites, WritesRevoked(c, j), NEW i \in Invites, invite'[i] # NoInvite
          PROVE  Exists(invite'[i].org)
      <3> DEFINE st == IF invite[j].status = "accepted" THEN "accepted" ELSE "revoked"
      <3>1. invite' = [invite EXCEPT ![j] = [invite[j] EXCEPT !.status = st]]
        BY <2>3 DEF WritesRevoked, Locked, TypeOK
      <3> HIDE DEF st
      <3>2. invite[j] \in InviteRows
        BY <2>3 DEF WritesRevoked, About, Locked, TypeOK
      <3>3. [invite[j] EXCEPT !.status = st].org = invite[j].org
        BY <3>2 DEF InviteRows
      <3> QED BY <2>3, <3>1, <3>3 DEF WritesRevoked, About, Locked, TypeOK, OfOrganizations
    <2>4. CASE Asks(c)
      <3>1. PICK kind \in Kinds, by \in Users, p \in Orgs, target \in Users, r \in Roles : Ask(c, kind, by, p, target, r)
        BY <2>4, AnAsk DEF Locked
      <3> QED BY <2>1, <3>1 DEF Ask
    <2>5. CASE Locks(c) \/ Reads(c) \/ Fails(c) \/ Renames(c)
      BY <2>1, <2>5 DEF Locks, LocksUsers, SelectsOwners, LocksOwners, LocksOwn, LocksOrganization, Reads, Fails, Renames
    <2> QED BY <2>2, <2>3, <2>4, <2>5 DEF Quiet
  <1>3. \A u \in Users, o \in Orgs : Role(u, o)' = Role(u, o)
    BY <1>1 DEF Role
  <1>4. \A o : Owners(o)' = Owners(o)
    BY <1>1 DEF Owners, Role
  <1>5. DOMAIN creator \subseteq Orgs
    BY DEF Locked, TypeOK
  <1>6. OfOrganizations'
    BY <1>1, <1>2, <1>3 DEF Locked, OfOrganizations, Exists, Role
  <1> QED BY <1>1, <1>4, <1>5, <1>6 DEF OwnerRemains, CreatorStaysWhileLocked, SinceLocked

LEMMA NextOwners ==
    ASSUME Locked, OwnerRemains, CreatorStaysWhileLocked, [Next]_vars
    PROVE  OwnerRemains' /\ CreatorStaysWhileLocked' /\ OfOrganizations'
  <1>1. ASSUME NEW c \in Calls, ByCall(c)
        PROVE  OwnerRemains' /\ CreatorStaysWhileLocked' /\ OfOrganizations'
    BY <1>1, RowKeepsOwners, TransferKeepsOwners, DeleteKeepsOwners, AcceptKeepsOwners, QuietKeepsOwners
       DEF ByCall, Quiet, Writes
  <1>2. ASSUME NEW i \in Invites, Expires(i)
        PROVE  OwnerRemains' /\ CreatorStaysWhileLocked' /\ OfOrganizations'
    <2>1. invite[i] # NoInvite /\ invite[i] \in InviteRows
      BY <1>2 DEF Expires, NoInvite, Locked, TypeOK
    <2>2. [invite[i] EXCEPT !.status = "expired"].org = invite[i].org
      BY <2>1 DEF InviteRows
    <2>3. invite' = [invite EXCEPT ![i] = [invite[i] EXCEPT !.status = "expired"]]
      BY <1>2 DEF Expires, Locked, TypeOK
    <2>4. \A j \in Invites : invite'[j] # NoInvite => Exists(invite'[j].org)
      BY <2>1, <2>2, <2>3 DEF Locked, TypeOK, OfOrganizations
    <2>5. OfOrganizations'
      BY <1>2, <2>4 DEF Expires, OfOrganizations, Exists, Role, Locked
    <2> QED BY <1>2, <2>5 DEF Expires, OwnerRemains, CreatorStaysWhileLocked, Owners, Role, SinceLocked
  <1>3. CASE UNCHANGED vars
    BY <1>3 DEF vars, OwnerRemains, CreatorStaysWhileLocked, OfOrganizations, Owners, Role, SinceLocked, Exists, Locked
  <1> QED BY <1>1, <1>2, <1>3 DEF Next, ByCall

LEMMA NextInvitesNoOwner ==
    ASSUME TypeOK, NoOwnerIsInvited, [Next]_vars
    PROVE  NoOwnerIsInvited'
  <1>1. ASSUME NEW c \in Calls, ByCall(c), NEW d \in Calls, Busy(d)', call'[d].kind = "invite"
        PROVE  call'[d].role # "OWNER"
    <2>1. CASE d # c
      BY <1>1, <2>1, OtherCall DEF NoOwnerIsInvited, SameRequest
    <2>2. CASE d = c /\ Asks(c)
      <3>1. PICK kind \in Kinds, by \in Users, o \in Orgs, target \in Users, r \in Roles :
                   Ask(c, kind, by, o, target, r) /\ (kind = "invite" => r # "OWNER")
        BY <2>2, AnAsk
      <3> QED BY <1>1, <2>2, <3>1 DEF Ask, TypeOK
    <2>3. CASE d = c /\ (Locks(c) \/ Reads(c))
      <3>1. Busy(c) /\ call[c].kind # "invite"
        BY <2>3 DEF Locks, LocksUsers, SelectsOwners, LocksOwners, LocksOwn, LocksOrganization, Reads, Granted, At
      <3>2. call[c] \in Requests
        BY <3>1, CallTypes
      <3>3. CASE LocksUsers(c) \/ LocksOrganization(c) \/ Reads(c)
        BY <1>1, <2>3, <3>1, <3>2, <3>3 DEF LocksUsers, LocksOrganization, Reads, Steps, TypeOK, Requests
      <3>4. CASE SelectsOwners(c)
        BY <1>1, <2>3, <3>1, <3>2, <3>4 DEF SelectsOwners, TypeOK, Requests
      <3>5. CASE LocksOwners(c)
        BY <1>1, <2>3, <3>1, <3>2, <3>5 DEF LocksOwners, TypeOK, Requests
      <3>6. CASE LocksOwn(c)
        BY <1>1, <2>3, <3>1, <3>2, <3>6 DEF LocksOwn, TypeOK, Requests
      <3> QED BY <2>3, <3>3, <3>4, <3>5, <3>6 DEF Locks
    <2>4. CASE d = c /\ (Fails(c) \/ Writes(c))
      BY <1>1, <2>4 DEF Writes, Fails, Changes, Removes, Transfers, Deletes, Renames, WritesInvite, WritesRevoked,
                        Accepts, Ends, EndsAndTells, Busy, TypeOK
    <2> QED BY <1>1, <2>1, <2>2, <2>3, <2>4 DEF ByCall
  <1>2. CASE UNCHANGED call
    BY <1>2 DEF NoOwnerIsInvited, Busy
  <1> QED BY <1>1, <1>2 DEF NoOwnerIsInvited, Next, ByCall, Expires, vars

-----------------------------------------------------------------------------
(* Theorems *)

LEMMA InitHolds == Init => IInv
  <1> SUFFICES ASSUME Init PROVE IInv
    OBVIOUS
  <1>1. TypeOK
    BY MembersAssumption DEF Init, TypeOK
  <1>2. \A c \in Calls : ~Busy(c)
    BY DEF Init, Busy
  <1>3. OfOrganizations /\ OwnerRemains
    BY DEF Init, OfOrganizations, OwnerRemains, Exists, Role
  <1>4. CreatorStaysWhileLocked
    BY DEF Init, CreatorStaysWhileLocked
  <1> QED BY <1>1, <1>2, <1>3, <1>4 DEF IInv, NoOwnerIsInvited, CallsInOrder, LocksExclude, SelectionsNest

LEMMA NextHolds == IInv /\ [Next]_vars => IInv'
  <1> SUFFICES ASSUME IInv, [Next]_vars PROVE IInv'
    OBVIOUS
  <1>1. Locked
    BY DEF IInv, Locked
  <1>2. TypeOK' /\ NoOwnerIsInvited'
    BY NextTypes, NextInvitesNoOwner DEF IInv
  <1>3. LocksExclude' /\ SelectionsNest'
    BY NextExcludes, NextNest DEF IInv
  <1>4. CallsInOrder'
    BY <1>1, NextInOrder
  <1>5. OwnerRemains' /\ CreatorStaysWhileLocked' /\ OfOrganizations'
    BY <1>1, NextOwners DEF IInv
  <1> QED BY <1>2, <1>3, <1>4, <1>5 DEF IInv

\* What holds between the rows, the locks and the calls at any time: each call
\* past its lock holds the rows of the owners it still counts on, of two calls
\* who selected owners one counts on all the other counts on, and what was read
\* under the lock is as it was.
THEOREM MembersInvariant == Spec => []IInv
  <1> QED BY InitHolds, NextHolds, PTL DEF Spec

\* However many demote, remove, leave and transfer at once: as long as each
\* owners' lock holds somebody (lockOwnerMemberships), every organization has an
\* owner, and its creator is one.
THEOREM MembersKeepOwners == Spec => []OwnersRemain
  <1>1. IInv => OwnersRemain
    BY DEF IInv, OwnersRemain
  <1> QED BY <1>1, MembersInvariant, PTL

\* What a call read under its locks still is so when it writes, with the
\* exceptions StillGranted names; that the creator transfers, without any.
THEOREM MembersStayGranted == Spec => []NothingGoesStale
  <1>1. IInv => NothingGoesStale
    BY DEF IInv, CallsInOrder, InOrder, IsGranted, NothingGoesStale, At
  <1> QED BY <1>1, MembersInvariant, PTL
=============================================================================
