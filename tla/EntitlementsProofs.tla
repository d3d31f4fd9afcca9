------------------------- MODULE EntitlementsProofs -------------------------
(* Theorems about Entitlements: the locks form no circle, and every request  *)
(* takes effect as if it were alone, for any number of users, organizations, *)
(* checks, requests and plans.                                               *)
(*                                                                           *)
(* The argument.  A request that has decided holds the lock of every account *)
(* it counts, so no plan of these accounts changes, and another request that *)
(* commits changes nothing of theirs: it holds the accounts of what it       *)
(* changes itself.  What it read after its locks is as it was (Decided).     *)
(* Locks are taken in order: who waits for an account holds smaller ones.    *)
EXTENDS Entitlements, FiniteSetTheorems, WellFoundedInduction, TLAPS

\* What a request is about, by its kind.
IsAbout(q) ==
    /\ q.op # "none" /\ q.org \in Orgs
    /\ q.op \in CheckOps => q.check \in Checks
    /\ q.op \in {"add_org", "transfer"} => q.user \in Users

\* Locks: what is held is wanted no more, and smaller than what is.
HoldsInOrder(r) ==
    LET q == req[r] IN
    /\ \A u \in Users : lock[u] = r =>
          /\ q.pc \in {"locking", "locked", "decided"}
          /\ q.pc = "locking" => \A v \in q.wants : u < v
    /\ q.pc = "locking" => \A u \in Accounts(q) : u \in q.wants \/ lock[u] = r
    /\ q.pc \in {"locked", "decided"} => \A u \in Accounts(q) : lock[u] = r

\* Ids of what is to be created are nobody else's.
OwnIds(r) ==
    /\ req[r].op = "add_org" =>
          /\ creator[req[r].org] = Absent
          /\ \A s \in Requests \ {r} : req[s].org # req[r].org
    /\ req[r].op = "add_check" =>
          /\ home[req[r].check] = Absent
          /\ \A s \in Requests \ {r} : req[s].op \in CheckOps => req[s].check # req[r].check

\* What a request decided on is so until it commits.
Decided(r) ==
    req[r].pc = "decided" => Stable(req[r]) /\ Found(req[r]) /\ Allowed(req[r])

\* No check is in an organization that is not there.
Integrity == \A c \in Checks : home[c] \in Orgs => creator[home[c]] \in Users

\* What a request is about is known while it is handled.
AboutSomething(r) ==
    /\ req[r].pc # "idle" => IsAbout(req[r])
    /\ req[r].pc = "idle" => req[r] = Idle

IInv ==
    /\ TypeOK
    /\ Integrity
    /\ \A r \in Requests : AboutSomething(r) /\ HoldsInOrder(r) /\ OwnIds(r) /\ Decided(r)

-----------------------------------------------------------------------------
(* Requests and what their steps do to req and lock *)

LEMMA RequestTypes ==
    ASSUME TypeOK, NEW r \in Requests
    PROVE  /\ req[r] \in Request /\ req[r].wants \subseteq Users
           /\ req[r].creator \in Users \cup {Nobody} /\ req[r].former \in Users \cup {Nobody}
           /\ req[r].user \in Users \cup {Nobody}
           /\ req[r].org \in Orgs \cup {Absent} /\ req[r].check \in Checks \cup {Absent}
  BY DEF TypeOK, Request

LEMMA IdleIsARequest == Idle \in Request
  BY TriesAssumption DEF Idle, Request

\* What Reading sets, and what it leaves.
LEMMA WhatReadingSets ==
    ASSUME NEW q \in Request
    PROVE  /\ Reading(q) \in Request
           /\ Reading(q).pc = "locking"
           /\ Reading(q).wants = Accounts(Reading(q))
           /\ Reading(q).op = q.op /\ Reading(q).org = q.org
           /\ Reading(q).check = q.check /\ Reading(q).user = q.user
  <1> DEFINE a == CreatorOf(q.org)
             b == IF q.op = "move_check" THEN CreatorOf(home[q.check]) ELSE Nobody
             seen == [q EXCEPT !.creator = a, !.former = b]
             l == [seen EXCEPT !.pc = "locking", !.wants = Accounts(seen)]
  <1>1. a \in Users \cup {Nobody} /\ b \in Users \cup {Nobody}
    BY DEF CreatorOf
  <1>2. Reading(q) = l
    BY DEF Reading
  <1> HIDE DEF a, b
  <1>3. /\ seen \in Request /\ seen.creator = a /\ seen.former = b
        /\ seen.op = q.op /\ seen.org = q.org /\ seen.check = q.check /\ seen.user = q.user
    BY ZenonT(30), <1>1 DEF Request
  <1> HIDE DEF seen
  <1>4. Accounts(seen) \subseteq Users
    BY <1>3, <1>1 DEF Accounts, Request
  <1>5. /\ l \in Request /\ l.pc = "locking" /\ l.wants = Accounts(seen)
        /\ l.creator = seen.creator /\ l.former = seen.former /\ l.user = seen.user
        /\ l.op = seen.op /\ l.org = seen.org /\ l.check = seen.check
    BY ZenonT(60), <1>3, <1>4 DEF Request
  <1>6. Accounts(l) = Accounts(seen)
    BY <1>5 DEF Accounts
  <1> QED BY <1>2, <1>3, <1>5, <1>6

\* A request that comes in is about something that is there, or is new.
Fresh(l) ==
    /\ l.pc = "locking" /\ l.wants = Accounts(l) /\ IsAbout(l)
    /\ l.op = "add_org" => NewOrg(l.org)
    /\ l.op = "add_check" => NewCheck(l.check)
    /\ l.op # "add_org" => creator[l.org] \in Users
    /\ l.op \in {"move_check", "remove_check"} => home[l.check] \in Orgs

Enters(r) ==
    /\ req[r].pc = "idle" /\ account' = account /\ creator' = creator /\ home' = home /\ lock' = lock
    /\ \E l \in Request : Fresh(l) /\ req' = [req EXCEPT ![r] = l]

LEMMA AskingEnters ==
    ASSUME NEW r \in Requests, NEW op \in CheckOps \cup OrgOps, NEW o \in Orgs,
           NEW c \in Checks \cup {Absent}, NEW u \in Users \cup {Nobody},
           op \in CheckOps => c \in Checks, op \in {"add_org", "transfer"} => u \in Users,
           op = "add_org" => NewOrg(o), op = "add_check" => NewCheck(c),
           Asks(r, op, o, c, u)
    PROVE  Enters(r)
  <1> DEFINE q == [Idle EXCEPT !.op = op, !.org = o, !.check = c, !.user = u]
             l == Reading(q)
  <1>1. q \in Request /\ q.op = op /\ q.org = o /\ q.check = c /\ q.user = u
    BY ZenonT(30), IdleIsARequest DEF Idle, Request, CheckOps, OrgOps
  <1>2. /\ req[r].pc = "idle" /\ Found(q) /\ req' = [req EXCEPT ![r] = l]
        /\ account' = account /\ creator' = creator /\ home' = home /\ lock' = lock
    BY DEF Asks, Set, tables
  <1>3. op # "none"
    BY DEF CheckOps, OrgOps
  <1> HIDE DEF q
  <1>4. /\ l \in Request /\ l.pc = "locking" /\ l.wants = Accounts(l)
        /\ l.op = op /\ l.org = o /\ l.check = c /\ l.user = u
    BY <1>1, WhatReadingSets
  <1>5. /\ op # "add_org" => creator[o] \in Users
        /\ op \in {"move_check", "remove_check"} => home[c] \in Orgs
    BY <1>1, <1>2 DEF Found
  <1> HIDE DEF l
  <1>6. Fresh(l)
    BY <1>3, <1>4, <1>5 DEF Fresh, IsAbout
  <1> QED BY <1>2, <1>4, <1>6 DEF Enters

LEMMA WhatComes ==
    ASSUME NEW r \in Requests, Comes(r)
    PROVE  Enters(r)
  <1>1. PICK o \in Orgs :
           \/ \E c \in Checks : AsksToAddCheck(r, o, c) \/ AsksToMove(r, o, c) \/ AsksToRemoveCheck(r, o, c)
           \/ \E u \in Users : AsksToAddOrg(r, o, u) \/ AsksToTransfer(r, o, u)
           \/ \E u \in Users \cup {Nobody} : AsksToRemoveOrg(r, o, u)
    BY DEF Comes
  <1>2. ASSUME NEW c \in Checks, AsksToAddCheck(r, o, c) PROVE Enters(r)
    BY <1>2, AskingEnters DEF AsksToAddCheck, CheckOps
  <1>3. ASSUME NEW c \in Checks, AsksToMove(r, o, c) PROVE Enters(r)
    BY <1>3, AskingEnters DEF AsksToMove, CheckOps
  <1>4. ASSUME NEW c \in Checks, AsksToRemoveCheck(r, o, c) PROVE Enters(r)
    BY <1>4, AskingEnters DEF AsksToRemoveCheck, CheckOps
  <1>5. ASSUME NEW u \in Users, AsksToAddOrg(r, o, u) PROVE Enters(r)
    BY <1>5, AskingEnters DEF AsksToAddOrg, CheckOps, OrgOps
  <1>6. ASSUME NEW u \in Users, AsksToTransfer(r, o, u) PROVE Enters(r)
    BY <1>6, AskingEnters DEF AsksToTransfer, CheckOps, OrgOps
  <1>7. ASSUME NEW u \in Users \cup {Nobody}, AsksToRemoveOrg(r, o, u) PROVE Enters(r)
    BY <1>7, AskingEnters DEF AsksToRemoveOrg, CheckOps, OrgOps
  <1> QED BY <1>1, <1>2, <1>3, <1>4, <1>5, <1>6, <1>7

\* The locks that a request holds go when it ends.
LEMMA LocksGo ==
    ASSUME TypeOK, NEW r \in Requests,
           lock' = [u \in Users |-> IF lock[u] = r THEN Nobody ELSE lock[u]]
    PROVE  /\ lock' \in [Users -> Requests \cup {Nobody}]
           /\ \A u \in Users : lock'[u] # r
           /\ \A u \in Users, s \in Requests \ {r} : lock'[u] = s <=> lock[u] = s
  BY FiniteAssumption DEF TypeOK

LEMMA RequestForms ==
    ASSUME TypeOK, NEW r \in Requests, Comes(r) \/ Proceeds(r) \/ Abort(r)
    PROVE  /\ req' \in [Requests -> Request]
           /\ \A s \in Requests \ {r} : req'[s] = req[s]
           /\ lock' \in [Users -> Requests \cup {Nobody}]
           /\ \A u \in Users, s \in Requests \ {r} : lock'[u] = s <=> lock[u] = s
           /\ account' = account
  <1>1. CASE Comes(r)
    BY <1>1, WhatComes, FiniteAssumption DEF Enters, TypeOK
  <1>2. CASE Read(r)
    BY <1>2, RequestTypes, WhatReadingSets DEF Read, Set, TypeOK, tables
  <1>3. ASSUME NEW u \in Users, Lock(r, u)
        PROVE  /\ req' \in [Requests -> Request]
               /\ \A s \in Requests \ {r} : req'[s] = req[s]
               /\ lock' \in [Users -> Requests \cup {Nobody}]
               /\ \A v \in Users, s \in Requests \ {r} : lock'[v] = s <=> lock[v] = s
               /\ account' = account
    <2> DEFINE l == [req[r] EXCEPT !.wants = @ \ {u}, !.pc = IF req[r].wants = {u} THEN "locked" ELSE "locking"]
    <2>1. l \in Request
      BY ZenonT(30), RequestTypes DEF Request
    <2>2. req' = [req EXCEPT ![r] = l] /\ lock[u] = Nobody /\ lock' = [lock EXCEPT ![u] = r] /\ account' = account
      BY <1>3 DEF Lock, Set, tables
    <2> HIDE DEF l
    <2> QED BY <2>1, <2>2, FiniteAssumption DEF TypeOK
  <1>4. CASE Decide(r)
    <2> DEFINE l == [req[r] EXCEPT !.pc = "decided"]
    <2>1. l \in Request
      BY RequestTypes DEF Request
    <2>2. req' = [req EXCEPT ![r] = l] /\ lock' = lock /\ account' = account
      BY <1>4 DEF Decide, Set, tables
    <2> HIDE DEF l
    <2> QED BY <2>1, <2>2 DEF TypeOK
  <1>5. CASE Retry(r)
    <2> DEFINE q == req[r]
               l == [Idle EXCEPT !.op = q.op, !.pc = "reading", !.org = q.org, !.check = q.check, !.tries = q.tries + 1]
    <2>1. q \in Request /\ q.tries + 1 < MaxTries
      BY <1>5, RequestTypes DEF Retry, MayRetry
    <2>2. l \in Request
      <3>1. /\ q.op \in CheckOps \cup OrgOps \cup {"none"} /\ q.org \in Orgs \cup {Absent}
            /\ q.check \in Checks \cup {Absent} /\ q.tries \in 0 .. MaxTries - 1
        BY <2>1 DEF Request
      <3>2. q.tries + 1 \in 0 .. MaxTries - 1
        BY <2>1, <3>1, TriesAssumption
      <3> HIDE DEF q
      <3> QED BY <3>1, <3>2 DEF Request, Idle
    <2>3. /\ req' = [req EXCEPT ![r] = l] /\ account' = account
          /\ lock' = [u \in Users |-> IF lock[u] = r THEN Nobody ELSE lock[u]]
      BY <1>5 DEF Retry, Set, tables
    <2> HIDE DEF l
    <2> QED BY <2>2, <2>3, LocksGo DEF TypeOK
  <1>6. ASSUME Ends(r), account' = account
        PROVE  /\ req' \in [Requests -> Request]
               /\ \A s \in Requests \ {r} : req'[s] = req[s]
               /\ lock' \in [Users -> Requests \cup {Nobody}]
               /\ \A v \in Users, s \in Requests \ {r} : lock'[v] = s <=> lock[v] = s
               /\ account' = account
    BY <1>6, LocksGo, IdleIsARequest DEF Ends, Set, TypeOK
  <1>7. Refuse(r) \/ Commit(r) \/ Abort(r) => Ends(r) /\ account' = account
    BY DEF Refuse, Commit, Abort, tables
  <1> QED BY <1>1, <1>2, <1>3, <1>4, <1>5, <1>6, <1>7 DEF Proceeds

\* A commit leaves every creator and every home what they may be.
LEMMA CommitTypes ==
    ASSUME TypeOK, NEW r \in Requests, AboutSomething(r), Commit(r)
    PROVE  /\ creator' \in [Orgs -> Users \cup {Absent, Gone}]
           /\ home' \in [Checks -> Orgs \cup {Absent, Gone}]
  <1> DEFINE q == req[r]
  <1>1. q.org \in Orgs /\ q.op # "none" /\ q.op \in CheckOps \cup OrgOps \cup {"none"}
        /\ (q.op \in CheckOps => q.check \in Checks)
        /\ (q.op \in {"add_org", "transfer"} => q.user \in Users)
    BY RequestTypes DEF Commit, AboutSomething, IsAbout, Request
  <1>2. CASE q.op \in {"add_check", "move_check"}
    BY <1>1, <1>2 DEF Commit, TypeOK, CheckOps
  <1>3. CASE q.op = "remove_check"
    BY <1>1, <1>3 DEF Commit, TypeOK, CheckOps
  <1>4. CASE q.op \in {"add_org", "transfer"}
    BY <1>1, <1>4 DEF Commit, TypeOK
  <1>5. CASE q.op = "remove_org"
    BY <1>1, <1>5 DEF Commit, TypeOK
  <1> QED BY <1>1, <1>2, <1>3, <1>4, <1>5 DEF CheckOps, OrgOps

\* Only a commit changes the tables.
LEMMA OnlyCommitsWrite ==
    ASSUME NEW r \in Requests, Comes(r) \/ Proceeds(r) \/ Abort(r), ~Commit(r)
    PROVE  UNCHANGED tables
  <1>1. Comes(r) => UNCHANGED tables
    BY WhatComes DEF Enters, tables
  <1>2. (\E u \in Users : Lock(r, u)) => UNCHANGED tables
    BY DEF Lock
  <1> QED BY <1>1, <1>2 DEF Proceeds, Read, Decide, Retry, Refuse, Abort

LEMMA TypeStep ==
    ASSUME TypeOK, \A r \in Requests : AboutSomething(r), [Next]_vars
    PROVE  TypeOK'
  <1>1. ASSUME NEW r \in Requests, Comes(r) \/ Proceeds(r) \/ Abort(r) PROVE TypeOK'
    <2>1. CASE Commit(r)
      BY <1>1, <2>1, RequestForms, CommitTypes DEF TypeOK
    <2>2. CASE ~Commit(r)
      BY <1>1, <2>2, RequestForms, OnlyCommitsWrite DEF TypeOK, tables
    <2> QED BY <2>1, <2>2
  <1>2. ASSUME NEW u \in Users, NEW p \in Plans, ChangePlan(u, p) PROVE TypeOK'
    BY <1>2 DEF ChangePlan, TypeOK
  <1>3. ASSUME NEW c \in Checks, AdminRemovesCheck(c) PROVE TypeOK'
    BY <1>3 DEF AdminRemovesCheck, TypeOK
  <1>4. CASE UNCHANGED vars
    BY <1>4 DEF vars, TypeOK
  <1> QED BY <1>1, <1>2, <1>3, <1>4 DEF Next

-----------------------------------------------------------------------------
(* What a request is about *)

LEMMA AboutStep ==
    ASSUME TypeOK, \A r \in Requests : AboutSomething(r), [Next]_vars, NEW s \in Requests
    PROVE  AboutSomething(s)'
  <1>1. CASE req'[s] = req[s]
    BY <1>1 DEF AboutSomething, IsAbout
  <1>2. CASE Comes(s)
    <2>1. req[s].pc = "idle" /\ \E l \in Request : Fresh(l) /\ req' = [req EXCEPT ![s] = l]
      BY <1>2, WhatComes DEF Enters
    <2>2. IsAbout(req'[s]) /\ req'[s].pc = "locking"
      BY <2>1 DEF TypeOK, Fresh
    <2> QED BY <2>2 DEF AboutSomething, IsAbout
  <1>3. CASE Read(s)
    <2>1. /\ req'[s] = Reading(req[s]) /\ req[s].pc = "reading" /\ req[s] \in Request
      BY <1>3, RequestTypes DEF Read, Set, TypeOK
    <2>2. IsAbout(req[s])
      BY <2>1 DEF AboutSomething
    <2> QED BY <2>1, <2>2, WhatReadingSets DEF AboutSomething, IsAbout
  <1>4. ASSUME NEW u \in Users, Lock(s, u) PROVE AboutSomething(s)'
    <2>1. /\ req[s].pc = "locking" /\ req[s] \in Request
          /\ req'[s] = [req[s] EXCEPT !.wants = @ \ {u}, !.pc = IF req[s].wants = {u} THEN "locked" ELSE "locking"]
      BY <1>4, RequestTypes DEF Lock, Set, TypeOK
    <2>2. IsAbout(req[s])
      BY <2>1 DEF AboutSomething
    <2>3. /\ req'[s].pc # "idle" /\ req'[s].op = req[s].op /\ req'[s].org = req[s].org
          /\ req'[s].check = req[s].check /\ req'[s].user = req[s].user
      BY <2>1 DEF Request
    <2> QED BY <2>2, <2>3 DEF AboutSomething, IsAbout
  <1>5. CASE Decide(s)
    <2>1. /\ req[s].pc = "locked" /\ req[s] \in Request /\ req'[s] = [req[s] EXCEPT !.pc = "decided"]
      BY <1>5, RequestTypes DEF Decide, Set, TypeOK
    <2>2. IsAbout(req[s])
      BY <2>1 DEF AboutSomething
    <2>3. /\ req'[s].pc # "idle" /\ req'[s].op = req[s].op /\ req'[s].org = req[s].org
          /\ req'[s].check = req[s].check /\ req'[s].user = req[s].user
      BY <2>1 DEF Request
    <2> QED BY <2>2, <2>3 DEF AboutSomething, IsAbout
  <1>6. CASE Retry(s)
    <2>1. /\ req[s].pc = "locked" /\ req[s] \in Request /\ req[s].op \in CheckOps
          /\ req'[s] = [Idle EXCEPT !.op = req[s].op, !.pc = "reading", !.org = req[s].org, !.check = req[s].check,
                                    !.tries = req[s].tries + 1]
      BY <1>6, RequestTypes DEF Retry, MayRetry, Set, TypeOK
    <2>2. IsAbout(req[s])
      BY <2>1 DEF AboutSomething
    <2>3. /\ req'[s].pc # "idle" /\ req'[s].op = req[s].op /\ req'[s].org = req[s].org
          /\ req'[s].check = req[s].check
      BY <2>1 DEF Idle
    <2> QED BY <2>1, <2>2, <2>3 DEF AboutSomething, IsAbout, CheckOps
  <1>7. CASE Ends(s)
    <2>1. req'[s] = Idle
      BY <1>7 DEF Ends, Set, TypeOK
    <2> QED BY <2>1 DEF AboutSomething, Idle
  <1>8. CASE \E r \in Requests \ {s} : Comes(r) \/ Proceeds(r) \/ Abort(r)
    BY <1>1, <1>8, RequestForms
  <1>9. CASE \E u \in Users, p \in Plans : ChangePlan(u, p)
    BY <1>1, <1>9 DEF ChangePlan
  <1>10. CASE \E c \in Checks : AdminRemovesCheck(c)
    BY <1>1, <1>10 DEF AdminRemovesCheck
  <1>11. CASE UNCHANGED vars
    BY <1>1, <1>11 DEF vars
  <1>12. CASE Comes(s) \/ Proceeds(s) \/ Abort(s)
    BY <1>2, <1>3, <1>4, <1>5, <1>6, <1>7, <1>12 DEF Proceeds, Refuse, Commit, Abort
  <1> QED BY <1>8, <1>9, <1>10, <1>11, <1>12 DEF Next

-----------------------------------------------------------------------------
(* Ids of what is to be created *)

\* A request stays about what it was about.
LEMMA SameSubject ==
    ASSUME TypeOK, NEW r \in Requests, Proceeds(r) \/ Abort(r)
    PROVE  \/ req'[r] = Idle
           \/ req'[r].op = req[r].op /\ req'[r].org = req[r].org /\ req'[r].check = req[r].check
  <1>1. CASE Read(r)
    BY <1>1, RequestTypes, WhatReadingSets DEF Read, Set, TypeOK
  <1>2. ASSUME NEW u \in Users, Lock(r, u)
        PROVE  req'[r].op = req[r].op /\ req'[r].org = req[r].org /\ req'[r].check = req[r].check
    BY <1>2, RequestTypes DEF Lock, Set, TypeOK, Request
  <1>3. CASE Decide(r)
    BY <1>3, RequestTypes DEF Decide, Set, TypeOK, Request
  <1>4. CASE Retry(r)
    BY <1>4 DEF Retry, Set, TypeOK, Idle
  <1>5. CASE Ends(r)
    BY <1>5 DEF Ends, Set, TypeOK
  <1> QED BY <1>1, <1>2, <1>3, <1>4, <1>5 DEF Proceeds, Refuse, Commit, Abort

\* A commit changes the organization, and the check, it is about.
LEMMA CommitFrame ==
    ASSUME TypeOK, NEW r \in Requests, AboutSomething(r), Commit(r)
    PROVE  /\ req'[r] = Idle
           /\ \A o \in Orgs : o # req[r].org => creator'[o] = creator[o]
           /\ \A c \in Checks : home[c] = Absent /\ (req[r].op \in CheckOps => c # req[r].check) => home'[c] = Absent
  <1> DEFINE q == req[r]
  <1>1. q.org \in Orgs /\ q.op # "none" /\ q.op \in CheckOps \cup OrgOps \cup {"none"} /\ q.org # Absent
    BY RequestTypes, NullAssumption DEF Commit, AboutSomething, IsAbout, Request
  <1>2. req'[r] = Idle
    BY DEF Commit, Ends, Set, TypeOK
  <1>3. CASE q.op \in {"add_check", "move_check"}
    BY <1>1, <1>2, <1>3 DEF Commit, TypeOK, CheckOps
  <1>4. CASE q.op = "remove_check"
    BY <1>1, <1>2, <1>4 DEF Commit, TypeOK, CheckOps
  <1>5. CASE q.op \in {"add_org", "transfer"}
    BY <1>1, <1>2, <1>5 DEF Commit, TypeOK
  <1>6. CASE q.op = "remove_org"
    BY <1>1, <1>2, <1>6 DEF Commit, TypeOK
  <1> QED BY <1>1, <1>3, <1>4, <1>5, <1>6 DEF CheckOps, OrgOps

LEMMA IdsStep ==
    ASSUME TypeOK, \A r \in Requests : AboutSomething(r), \A r \in Requests : OwnIds(r),
           [Next]_vars, NEW s \in Requests
    PROVE  OwnIds(s)'
  <1>1. /\ req[s].op = "add_org" => req[s].org \in Orgs
        /\ req[s].op \in CheckOps => req[s].check \in Checks
    <2>1. req[s].pc = "idle" => req[s].op = "none"
      BY DEF AboutSomething, Idle
    <2>2. req[s].pc # "idle" => req[s].org \in Orgs /\ (req[s].op \in CheckOps => req[s].check \in Checks)
      BY Zenon DEF AboutSomething, IsAbout
    <2> QED BY <2>1, <2>2 DEF CheckOps
  <1>2. ASSUME NEW r \in Requests, Comes(r) PROVE OwnIds(s)'
    <2>1. /\ creator' = creator /\ home' = home
          /\ \A t \in Requests \ {r} : req'[t] = req[t]
          /\ Fresh(req'[r])
      BY <1>2, WhatComes DEF Enters, TypeOK
    <2>2. CASE r = s
      BY <2>1, <2>2 DEF OwnIds, Fresh, NewOrg, NewCheck
    <2>3. CASE r # s
      <3>1. req'[s] = req[s] /\ OwnIds(s)
        BY <2>1, <2>3
      <3>2. req[s].op = "add_org" => req'[r].org # req[s].org
        BY <2>1, <3>1, NullAssumption DEF OwnIds, Fresh, NewOrg
      <3>3. req[s].op = "add_check" => (req'[r].op \in CheckOps => req'[r].check # req[s].check)
        BY <2>1, <3>1, NullAssumption DEF OwnIds, Fresh, NewCheck, CheckOps
      <3> QED BY <2>1, <3>1, <3>2, <3>3 DEF OwnIds
    <2> QED BY <2>2, <2>3
  <1>3. ASSUME NEW r \in Requests, Proceeds(r) \/ Abort(r) PROVE OwnIds(s)'
    <2>1. /\ \A t \in Requests \ {r} : req'[t] = req[t]
          /\ \/ req'[r] = Idle
             \/ req'[r].op = req[r].op /\ req'[r].org = req[r].org /\ req'[r].check = req[r].check
      BY <1>3, RequestForms, SameSubject
    <2>2. CASE ~Commit(r)
      <3>1. creator' = creator /\ home' = home
        BY <1>3, <2>2, OnlyCommitsWrite DEF tables
      <3>2. CASE r = s
        BY <2>1, <3>1, <3>2 DEF OwnIds, Idle
      <3>3. CASE r # s /\ req'[r] = Idle
        BY <1>1, <2>1, <3>1, <3>3, NullAssumption DEF OwnIds, Idle, CheckOps
      <3>4. CASE r # s /\ req'[r] # Idle
        BY <2>1, <3>1, <3>4 DEF OwnIds
      <3> QED BY <3>2, <3>3, <3>4
    <2>3. CASE Commit(r)
      <3>1. /\ req'[r] = Idle
            /\ \A o \in Orgs : o # req[r].org => creator'[o] = creator[o]
            /\ \A c \in Checks : home[c] = Absent /\ (req[r].op \in CheckOps => c # req[r].check) => home'[c] = Absent
        BY <2>3, CommitFrame
      <3>2. CASE r = s
        BY <3>1, <3>2 DEF OwnIds, Idle
      <3>3. CASE r # s
        <4>1. req'[s] = req[s] /\ OwnIds(s)
          BY <2>1, <3>3
        <4>2. req[s].op = "add_org" =>
                 /\ creator'[req[s].org] = Absent
                 /\ \A t \in Requests \ {s} : req'[t].org # req[s].org
          BY <1>1, <2>1, <3>1, <3>3, <4>1, NullAssumption DEF OwnIds, Idle
        <4>3. req[s].op = "add_check" =>
                 /\ home'[req[s].check] = Absent
                 /\ \A t \in Requests \ {s} : req'[t].op \in CheckOps => req'[t].check # req[s].check
          BY <1>1, <2>1, <3>1, <3>3, <4>1 DEF OwnIds, Idle, CheckOps
        <4> QED BY <4>1, <4>2, <4>3 DEF OwnIds
      <3> QED BY <3>2, <3>3
    <2> QED BY <2>2, <2>3
  <1>4. ASSUME NEW c \in Checks, AdminRemovesCheck(c) PROVE OwnIds(s)'
    <2>1. req' = req /\ creator' = creator /\ home[c] \in Orgs /\ home' = [home EXCEPT ![c] = Gone]
      BY <1>4 DEF AdminRemovesCheck
    <2>2. req[s].op = "add_check" => home'[req[s].check] = home[req[s].check]
      BY <1>1, <2>1, NullAssumption DEF OwnIds, TypeOK, CheckOps
    <2> QED BY <2>1, <2>2 DEF OwnIds
  <1>5. CASE (\E u \in Users, p \in Plans : ChangePlan(u, p)) \/ UNCHANGED vars
    BY <1>5 DEF ChangePlan, vars, OwnIds
  <1> QED BY <1>2, <1>3, <1>4, <1>5 DEF Next

-----------------------------------------------------------------------------
(* Locks *)

LEMMA LocksStep ==
    ASSUME TypeOK, \A r \in Requests : HoldsInOrder(r), [Next]_vars, NEW s \in Requests
    PROVE  HoldsInOrder(s)'
  <1>1. CASE req'[s] = req[s] /\ \A u \in Users : lock'[u] = s <=> lock[u] = s
    <2>1. Accounts(req[s]) \subseteq Users
      BY RequestTypes DEF Accounts
    <2> QED BY <1>1, <2>1 DEF HoldsInOrder, Accounts
  <1>2. CASE /\ lock' = lock /\ req[s].pc \in {"idle", "reading"}
             /\ req'[s].pc = "locking" /\ req'[s].wants = Accounts(req'[s])
    BY <1>2 DEF HoldsInOrder, Accounts
  <1>3. CASE Comes(s)
    <2>1. lock' = lock /\ req[s].pc = "idle" /\ Fresh(req'[s])
      BY <1>3, WhatComes DEF Enters, TypeOK
    <2> QED BY <1>2, <2>1 DEF Fresh
  <1>4. CASE Read(s)
    BY <1>2, <1>4, RequestTypes, WhatReadingSets DEF Read, Set, TypeOK
  <1>5. ASSUME NEW u \in Users, Lock(s, u) PROVE HoldsInOrder(s)'
    <2> DEFINE q == req[s]
               l == [q EXCEPT !.wants = @ \ {u}, !.pc = IF q.wants = {u} THEN "locked" ELSE "locking"]
    <2>1. /\ q.pc = "locking" /\ u \in q.wants /\ \A v \in q.wants : u <= v
          /\ req'[s] = l /\ lock' = [lock EXCEPT ![u] = s]
          /\ q \in Request /\ q.wants \subseteq Users
      BY <1>5, RequestTypes DEF Lock, First, Set, TypeOK
    <2>2. /\ l.wants = q.wants \ {u} /\ l.pc = (IF q.wants = {u} THEN "locked" ELSE "locking")
          /\ l.creator = q.creator /\ l.former = q.former /\ l.user = q.user
      BY <2>1 DEF Request
    <2>3. Accounts(l) = Accounts(q) /\ Accounts(q) \subseteq Users
      BY <2>2, RequestTypes DEF Accounts
    <2>4. /\ \A v \in Users : lock[v] = s => \A w \in q.wants : v < w
          /\ \A v \in Accounts(q) : v \in q.wants \/ lock[v] = s
      BY <2>1 DEF HoldsInOrder
    <2>5. \A v \in Users : lock'[v] = s <=> v = u \/ lock[v] = s
      BY <2>1 DEF TypeOK
    <2> HIDE DEF l
    <2>6. \A v \in Users : lock'[v] = s /\ l.pc = "locking" => \A w \in l.wants : v < w
      <3> SUFFICES ASSUME NEW v \in Users, lock'[v] = s, NEW w \in l.wants PROVE v < w
        OBVIOUS
      <3>1. w \in q.wants /\ w # u /\ u \in Nat /\ w \in Nat
        BY <2>1, <2>2, UserAssumption
      <3> QED BY <2>1, <2>4, <2>5, <3>1
    <2>7. \A v \in Accounts(l) : v \in l.wants \/ lock'[v] = s
      BY <2>2, <2>3, <2>4, <2>5
    <2>8. l.pc = "locked" => \A v \in Accounts(l) : lock'[v] = s
      BY <2>2, <2>7
    <2>9. l.pc \in {"locking", "locked"}
      BY <2>2
    <2>10. HoldsInOrder(s)' <=>
             /\ \A v \in Users : lock'[v] = s =>
                  /\ l.pc \in {"locking", "locked", "decided"}
                  /\ l.pc = "locking" => \A w \in l.wants : v < w
             /\ l.pc = "locking" => \A v \in Accounts(l) : v \in l.wants \/ lock'[v] = s
             /\ l.pc \in {"locked", "decided"} => \A v \in Accounts(l) : lock'[v] = s
      BY <2>1 DEF HoldsInOrder, Accounts
    <2> QED BY <2>6, <2>7, <2>8, <2>9, <2>10
  <1>6. CASE Decide(s)
    <2> DEFINE q == req[s]
    <2>1. /\ q.pc = "locked" /\ lock' = lock /\ q \in Request
          /\ req'[s] = [q EXCEPT !.pc = "decided"]
      BY <1>6, RequestTypes DEF Decide, Set, TypeOK
    <2>2. /\ req'[s].pc = "decided" /\ req'[s].creator = q.creator /\ req'[s].former = q.former
          /\ req'[s].user = q.user
      BY <2>1 DEF Request
    <2> QED BY <2>1, <2>2 DEF HoldsInOrder, Accounts
  <1>7. CASE Retry(s) \/ Ends(s)
    <2>1. Retry(s) =>
            /\ req'[s].pc = "reading"
            /\ lock' = [u \in Users |-> IF lock[u] = s THEN Nobody ELSE lock[u]]
      BY DEF Retry, Set, TypeOK, Idle
    <2>2. Ends(s) =>
            /\ req'[s].pc = "idle"
            /\ lock' = [u \in Users |-> IF lock[u] = s THEN Nobody ELSE lock[u]]
      BY DEF Ends, Set, TypeOK, Idle
    <2>3. /\ req'[s].pc \in {"reading", "idle"}
          /\ lock' = [u \in Users |-> IF lock[u] = s THEN Nobody ELSE lock[u]]
      BY <1>7, <2>1, <2>2
    <2> QED BY <2>3, LocksGo DEF HoldsInOrder
  <1>8. ASSUME NEW r \in Requests \ {s}, Comes(r) \/ Proceeds(r) \/ Abort(r) PROVE HoldsInOrder(s)'
    BY <1>1, <1>8, RequestForms
  <1>9. CASE Comes(s) \/ Proceeds(s) \/ Abort(s)
    BY <1>3, <1>4, <1>5, <1>6, <1>7, <1>9 DEF Proceeds, Refuse, Commit, Abort
  <1>10. CASE \/ \E u \in Users, p \in Plans : ChangePlan(u, p)
              \/ \E c \in Checks : AdminRemovesCheck(c)
              \/ UNCHANGED vars
    BY <1>1, <1>10 DEF ChangePlan, AdminRemovesCheck, vars
  <1> QED BY <1>8, <1>9, <1>10 DEF Next

-----------------------------------------------------------------------------
(* What was decided *)

\* A request that has decided, and what it has read.
LEMMA DecidedFacts ==
    ASSUME TypeOK, Integrity, NEW r \in Requests, AboutSomething(r), HoldsInOrder(r), OwnIds(r), Decided(r),
           req[r].pc = "decided"
    PROVE  /\ req[r].org \in Orgs /\ req[r].op \in CheckOps \cup OrgOps
           /\ req[r].op \in CheckOps => req[r].check \in Checks
           /\ req[r].op \in {"add_org", "transfer"} => req[r].user \in Users
           /\ req[r].op = "add_org" => creator[req[r].org] = Absent
           /\ req[r].op = "add_check" => home[req[r].check] = Absent
           /\ req[r].op # "add_org" => creator[req[r].org] \in Users /\ creator[req[r].org] = req[r].creator
           /\ req[r].op = "move_check" =>
                 /\ home[req[r].check] \in Orgs \ {req[r].org}
                 /\ creator[home[req[r].check]] \in Users /\ creator[home[req[r].check]] = req[r].former
           /\ req[r].op = "remove_check" => home[req[r].check] = req[r].org
           /\ \A u \in Accounts(req[r]) : lock[u] = r
           /\ Allowed(req[r])
  <1> DEFINE q == req[r]
  <1>1. q.op \in CheckOps \cup OrgOps \cup {"none"}
    BY RequestTypes DEF Request
  <1>2. /\ q.op # "none" /\ q.org \in Orgs /\ (q.op \in CheckOps => q.check \in Checks)
        /\ (q.op \in {"add_org", "transfer"} => q.user \in Users)
    BY DEF AboutSomething, IsAbout
  <1>3. /\ q.op = "add_org" => creator[q.org] = Absent
        /\ q.op = "add_check" => home[q.check] = Absent
    BY DEF OwnIds
  <1>4. Stable(q) /\ Found(q) /\ Allowed(q)
    BY DEF Decided
  <1>5. q.op # "add_org" => creator[q.org] \in Users /\ creator[q.org] = q.creator
    BY <1>4 DEF Stable, Found
  <1>6. q.op = "move_check" =>
           /\ home[q.check] \in Orgs \ {q.org}
           /\ creator[home[q.check]] \in Users /\ creator[home[q.check]] = q.former
    BY <1>2, <1>4 DEF Stable, Found, Integrity, CheckOps
  <1>7. q.op = "remove_check" => home[q.check] = q.org
    BY <1>4 DEF Found
  <1>8. \A u \in Accounts(q) : lock[u] = r
    BY DEF HoldsInOrder
  <1> QED BY <1>1, <1>2, <1>3, <1>4, <1>5, <1>6, <1>7, <1>8

LEMMA IntegrityStep ==
    ASSUME IInv, [Next]_vars
    PROVE  Integrity'
  <1> USE DEF IInv
  <1>1. CASE UNCHANGED tables
    BY <1>1 DEF tables, Integrity
  <1>2. ASSUME NEW r \in Requests, Commit(r) PROVE Integrity'
    <2> DEFINE q == req[r]
    <2>1. /\ q.org \in Orgs /\ q.op \in CheckOps \cup OrgOps
          /\ q.op \in CheckOps => q.check \in Checks
          /\ q.op \in {"add_org", "transfer"} => q.user \in Users
          /\ q.op # "add_org" => creator[q.org] \in Users
      BY <1>2, DecidedFacts DEF Commit
    <2>2. CASE q.op \in {"add_check", "move_check"}
      BY <1>2, <2>1, <2>2 DEF Commit, Integrity, TypeOK, CheckOps
    <2>3. CASE q.op = "remove_check"
      BY <1>2, <2>1, <2>3, NullAssumption DEF Commit, Integrity, TypeOK, CheckOps
    <2>4. CASE q.op \in {"add_org", "transfer"}
      BY <1>2, <2>1, <2>4 DEF Commit, Integrity, TypeOK
    <2>5. CASE q.op = "remove_org"
      BY <1>2, <2>1, <2>5, NullAssumption DEF Commit, Integrity, TypeOK
    <2> QED BY <2>1, <2>2, <2>3, <2>4, <2>5 DEF CheckOps, OrgOps
  <1>3. ASSUME NEW c \in Checks, AdminRemovesCheck(c) PROVE Integrity'
    BY <1>3, NullAssumption DEF AdminRemovesCheck, Integrity, TypeOK
  <1>4. CASE (\E u \in Users, p \in Plans : ChangePlan(u, p)) \/ UNCHANGED vars
    BY <1>4 DEF ChangePlan, vars, Integrity
  <1>5. CASE \E r \in Requests : Comes(r) \/ Proceeds(r) \/ Abort(r)
    BY <1>1, <1>2, <1>5, OnlyCommitsWrite
  <1> QED BY <1>3, <1>4, <1>5 DEF Next

\* What a commit leaves to an account that its request has not locked: its
\* organizations, their checks, and where these are.
LEMMA CommitLeaves ==
    ASSUME IInv, NEW r \in Requests, Commit(r), NEW u \in Users, u \notin Accounts(req[r])
    PROVE  /\ \A o \in Orgs : creator'[o] = u <=> creator[o] = u
           /\ \A o \in Orgs : creator[o] = u => \A c \in Checks : home'[c] = o <=> home[c] = o
  <1> USE DEF IInv
  <1> DEFINE q == req[r]
  <1>1. /\ q.org \in Orgs /\ q.op \in CheckOps \cup OrgOps
        /\ q.op \in CheckOps => q.check \in Checks
        /\ q.op \in {"add_org", "transfer"} => q.user \in Users
        /\ q.op = "add_org" => creator[q.org] = Absent
        /\ q.op = "add_check" => home[q.check] = Absent
        /\ q.op # "add_org" => creator[q.org] \in Users /\ creator[q.org] = q.creator
        /\ q.op = "move_check" =>
             home[q.check] \in Orgs /\ creator[home[q.check]] \in Users /\ creator[home[q.check]] = q.former
        /\ q.op = "remove_check" => home[q.check] = q.org
    BY DecidedFacts DEF Commit
  <1>2. u # q.creator /\ u # q.former /\ u # q.user
    BY UserAssumption DEF Accounts
  <1>3. CASE q.op \in {"add_check", "move_check"}
    <2>1. creator' = creator /\ home' = [home EXCEPT ![q.check] = q.org]
      BY <1>3 DEF Commit
    <2>2. ASSUME NEW o \in Orgs, creator[o] = u PROVE o # q.org /\ home[q.check] # o
      BY <1>1, <1>2, <1>3, <2>2, NullAssumption DEF CheckOps
    <2> QED BY <1>1, <1>3, <2>1, <2>2 DEF TypeOK, CheckOps
  <1>4. CASE q.op = "remove_check"
    <2>1. creator' = creator /\ home' = [home EXCEPT ![q.check] = Gone]
      BY <1>4 DEF Commit
    <2>2. ASSUME NEW o \in Orgs, creator[o] = u PROVE o # Gone /\ home[q.check] # o
      BY <1>1, <1>2, <1>4, <2>2, NullAssumption
    <2> QED BY <1>1, <1>4, <2>1, <2>2 DEF TypeOK, CheckOps
  <1>5. CASE q.op \in {"add_org", "transfer"}
    <2>1. creator' = [creator EXCEPT ![q.org] = q.user] /\ home' = home
      BY <1>5 DEF Commit
    <2>2. creator[q.org] # u /\ q.user # u
      BY <1>1, <1>2, <1>5, NullAssumption
    <2> QED BY <1>1, <2>1, <2>2 DEF TypeOK
  <1>6. CASE q.op = "remove_org"
    <2>1. /\ creator' = [creator EXCEPT ![q.org] = Gone]
          /\ home' = [c \in Checks |-> IF home[c] = q.org THEN Gone ELSE home[c]]
      BY <1>6 DEF Commit
    <2>2. creator[q.org] # u /\ u # Gone
      BY <1>1, <1>2, <1>6, NullAssumption
    <2> QED BY <1>1, <2>1, <2>2, NullAssumption DEF TypeOK
  <1> QED BY <1>1, <1>3, <1>4, <1>5, <1>6 DEF CheckOps, OrgOps

LEMMA ChecksAreFinite ==
    ASSUME NEW u, NEW o
    PROVE  /\ ChecksOf(u) \subseteq Checks /\ IsFiniteSet(ChecksOf(u)) /\ Cardinality(ChecksOf(u)) \in Nat
           /\ ChecksIn(o) \subseteq Checks /\ IsFiniteSet(ChecksIn(o)) /\ Cardinality(ChecksIn(o)) \in Nat
  <1>1. ChecksOf(u) \subseteq Checks /\ ChecksIn(o) \subseteq Checks
    BY DEF ChecksOf, ChecksIn
  <1> QED BY <1>1, FiniteAssumption, FS_Subset, FS_CardinalityType

LEMMA FewerAreAllowed ==
    ASSUME NEW S, NEW T, NEW n \in Nat, IsFiniteSet(T), S \subseteq T, Cardinality(T) < n
    PROVE  Cardinality(S) < n
  <1>1. Cardinality(S) <= Cardinality(T) /\ IsFiniteSet(S)
    BY FS_Subset
  <1>2. Cardinality(S) \in Nat /\ Cardinality(T) \in Nat
    BY <1>1, FS_CardinalityType
  <1> QED BY <1>1, <1>2

\* A decision stands as long as the accounts it counts keep their plans and
\* organizations, and get no check, and the check it is about stays.
LEMMA DecisionStands ==
    ASSUME IInv, NEW s \in Requests, req[s].pc = "decided", req'[s] = req[s],
           \A u \in Accounts(req[s]) : account'[u] = account[u],
           \A u \in Accounts(req[s]), o \in Orgs : creator'[o] = u <=> creator[o] = u,
           \A u \in Accounts(req[s]), o \in Orgs :
              creator[o] = u => \A c \in Checks : home'[c] = o => home[c] = o,
           req[s].op \in {"move_check", "remove_check"} => home'[req[s].check] = home[req[s].check]
    PROVE  Decided(s)'
  <1> USE DEF IInv
  <1> DEFINE q == req[s]
  <1>1. /\ q.org \in Orgs /\ q.op \in CheckOps \cup OrgOps
        /\ q.op \in CheckOps => q.check \in Checks
        /\ q.op \in {"add_org", "transfer"} => q.user \in Users
        /\ q.op # "add_org" => creator[q.org] \in Users /\ creator[q.org] = q.creator
        /\ q.op = "move_check" =>
              /\ home[q.check] \in Orgs \ {q.org}
              /\ creator[home[q.check]] \in Users /\ creator[home[q.check]] = q.former
        /\ q.op = "remove_check" => home[q.check] = q.org
        /\ Allowed(q)
    BY DecidedFacts
  <1>2. /\ q.op # "add_org" => q.creator \in Accounts(q)
        /\ q.op = "move_check" => q.former \in Accounts(q)
        /\ q.op \in {"add_org", "transfer"} => q.user \in Accounts(q)
    BY <1>1, UserAssumption DEF Accounts
  <1>3. Accounts(q) \subseteq Users
    BY RequestTypes DEF Accounts
  <1>4. ASSUME NEW u \in Accounts(q)
        PROVE  /\ OrgsOf(u)' = OrgsOf(u) /\ ChecksOf(u)' \subseteq ChecksOf(u)
               /\ account'[u].maxChecks = account[u].maxChecks /\ account[u].maxChecks \in Nat
               /\ account'[u].maxOrgs = account[u].maxOrgs /\ account[u].maxOrgs \in Nat
    <2>1. OrgsOf(u)' = OrgsOf(u)
      BY DEF OrgsOf
    <2>2. ASSUME NEW o \in OrgsOf(u) PROVE ChecksIn(o)' \subseteq ChecksIn(o)
      BY <2>2 DEF OrgsOf, ChecksIn
    <2>3. ChecksOf(u)' \subseteq ChecksOf(u)
      BY <2>1, <2>2 DEF ChecksOf
    <2>4. account[u] \in Plans /\ account'[u] = account[u]
      BY <1>3 DEF TypeOK
    <2> QED BY <2>1, <2>3, <2>4, PlanAssumption
  <1>5. ASSUME NEW u \in Accounts(q), RoomForCheck(u) PROVE RoomForCheck(u)'
    <2>1. Cardinality(ChecksOf(u)) < account[u].maxChecks
      BY <1>5 DEF RoomForCheck
    <2>2. Cardinality(ChecksOf(u)') < account[u].maxChecks
      BY <1>4, <2>1, FewerAreAllowed, ChecksAreFinite
    <2> QED BY <1>4, <2>2 DEF RoomForCheck
  <1>6. ASSUME NEW u \in Accounts(q), RoomForOrg(u) PROVE RoomForOrg(u)'
    BY <1>4, <1>6 DEF RoomForOrg
  <1>7. q.op # "add_org" => creator'[q.org] = q.creator /\ q.creator \in Users
    BY <1>1, <1>2
  <1>8. q.op = "move_check" =>
           /\ home'[q.check] = home[q.check] /\ home[q.check] \in Orgs \ {q.org}
           /\ creator'[home[q.check]] = q.former
    BY <1>1, <1>2
  <1>9. Found(q)'
    BY <1>1, <1>7, <1>8 DEF Found
  <1>10. Stable(q)'
    BY <1>7, <1>8 DEF Stable
  <1>11. Allowed(q)'
    <2>1. CASE q.op = "add_check"
      BY <1>1, <1>2, <1>5, <2>1 DEF Allowed
    <2>2. CASE q.op = "move_check"
      BY <1>1, <1>2, <1>5, <2>2 DEF Allowed
    <2>3. CASE q.op = "add_org"
      BY <1>1, <1>2, <1>6, <2>3 DEF Allowed
    <2>4. CASE q.op = "transfer"
      <3>1. /\ q.user # q.creator /\ RoomForOrg(q.user)
            /\ Cardinality(ChecksOf(q.user)) + Cardinality(ChecksIn(q.org)) <= account[q.user].maxChecks
        BY <1>1, <2>4 DEF Allowed
      <3>2. RoomForOrg(q.user)'
        BY <1>2, <1>6, <2>4, <3>1
      <3>3. ChecksIn(q.org)' \subseteq ChecksIn(q.org)
        BY <1>1, <1>2, <2>4 DEF ChecksIn
      <3>4. ChecksOf(q.user)' \subseteq ChecksOf(q.user)
        BY <1>2, <1>4, <2>4
      <3>5. /\ IsFiniteSet(ChecksIn(q.org)') /\ Cardinality(ChecksIn(q.org)') <= Cardinality(ChecksIn(q.org))
            /\ IsFiniteSet(ChecksOf(q.user)') /\ Cardinality(ChecksOf(q.user)') <= Cardinality(ChecksOf(q.user))
        BY <3>3, <3>4, ChecksAreFinite, FS_Subset
      <3>6. /\ Cardinality(ChecksIn(q.org)') \in Nat /\ Cardinality(ChecksOf(q.user)') \in Nat
            /\ Cardinality(ChecksIn(q.org)) \in Nat /\ Cardinality(ChecksOf(q.user)) \in Nat
        BY <3>5, ChecksAreFinite, FS_CardinalityType
      <3>7. account'[q.user].maxChecks = account[q.user].maxChecks /\ account[q.user].maxChecks \in Nat
        BY <1>2, <1>4, <2>4
      <3>8. Cardinality(ChecksOf(q.user)') + Cardinality(ChecksIn(q.org)') <= account'[q.user].maxChecks
        BY <3>1, <3>5, <3>6, <3>7
      <3> QED BY <2>4, <3>1, <3>2, <3>8 DEF Allowed
    <2>5. CASE q.op \in {"remove_check", "remove_org"}
      BY <2>5 DEF Allowed
    <2> QED BY <1>1, <2>1, <2>2, <2>3, <2>4, <2>5 DEF CheckOps, OrgOps
  <1>12. q' = q
    OBVIOUS
  <1> QED BY <1>9, <1>10, <1>11, <1>12 DEF Decided, Found, Stable, Allowed

LEMMA DecidedStep ==
    ASSUME IInv, [Next]_vars, NEW s \in Requests
    PROVE  Decided(s)'
  <1> USE DEF IInv
  <1> DEFINE q == req[s]
  <1>1. CASE req'[s] = q /\ UNCHANGED tables
    <2>1. CASE q.pc = "decided"
      BY <1>1, <2>1, DecisionStands DEF tables
    <2>2. CASE q.pc # "decided"
      BY <1>1, <2>2 DEF Decided
    <2> QED BY <2>1, <2>2
  <1>2. ASSUME NEW r \in Requests \ {s}, Comes(r) \/ Proceeds(r) \/ Abort(r) PROVE Decided(s)'
    <2>1. req'[s] = q /\ account' = account
      BY <1>2, RequestForms
    <2>2. CASE ~Commit(r)
      BY <1>1, <1>2, <2>1, <2>2, OnlyCommitsWrite
    <2>3. CASE Commit(r) /\ q.pc = "decided"
      <3>1. \A u \in Accounts(q) : lock[u] = s
        BY <2>3, DecidedFacts
      <3>2. \A u \in Accounts(req[r]) : lock[u] = r
        BY <2>3, DecidedFacts DEF Commit
      <3>3. \A u \in Accounts(q) : u \in Users /\ u \notin Accounts(req[r])
        BY SMTT(30), <1>2, <3>1, <3>2, RequestTypes DEF Accounts
      <3>4. \A u \in Accounts(q) :
               /\ \A o \in Orgs : creator'[o] = u <=> creator[o] = u
               /\ \A o \in Orgs : creator[o] = u => \A c \in Checks : home'[c] = o <=> home[c] = o
        BY <2>3, <3>3, CommitLeaves
      <3>5. q.op \in {"move_check", "remove_check"} => home'[q.check] = home[q.check]
        <4>1. /\ q.org \in Orgs
              /\ q.op \in CheckOps => q.check \in Checks
              /\ q.op # "add_org" => creator[q.org] \in Users /\ creator[q.org] = q.creator
              /\ q.op = "move_check" =>
                    /\ home[q.check] \in Orgs
                    /\ creator[home[q.check]] \in Users /\ creator[home[q.check]] = q.former
              /\ q.op = "remove_check" => home[q.check] = q.org
          BY <2>3, DecidedFacts
        <4>2. /\ q.op = "move_check" => q.former \in Accounts(q)
              /\ q.op = "remove_check" => q.creator \in Accounts(q)
          BY <4>1, UserAssumption DEF Accounts
        <4>3. q.op \in {"move_check", "remove_check"} =>
                 q.check \in Checks /\ home[q.check] \in Orgs /\ creator[home[q.check]] \in Accounts(q)
          BY <4>1, <4>2 DEF CheckOps
        <4> QED BY <3>4, <4>3
      <3> QED BY <2>1, <2>3, <3>4, <3>5, DecisionStands
    <2>4. CASE q.pc # "decided"
      BY <2>1, <2>4 DEF Decided
    <2> QED BY <2>2, <2>3, <2>4
  <1>3. CASE Decide(s)
    <2> DEFINE l == [q EXCEPT !.pc = "decided"]
    <2>1. /\ q \in Request /\ req'[s] = l /\ UNCHANGED tables /\ Stable(q) /\ Found(q) /\ Allowed(q)
      BY <1>3, RequestTypes DEF Decide, Set, TypeOK
    <2>2. /\ req'[s].op = q.op /\ req'[s].org = q.org /\ req'[s].check = q.check /\ req'[s].user = q.user
          /\ req'[s].creator = q.creator /\ req'[s].former = q.former
      BY <2>1 DEF Request
    <2>3. /\ account' = account /\ creator' = creator /\ home' = home
          /\ Stable(q) /\ Found(q) /\ Allowed(q)
      BY <2>1 DEF tables
    <2>4. /\ \A u : OrgsOf(u)' = OrgsOf(u) /\ ChecksOf(u)' = ChecksOf(u)
          /\ \A o : ChecksIn(o)' = ChecksIn(o)
      BY <2>3 DEF OrgsOf, ChecksOf, ChecksIn
    <2> HIDE DEF l, q
    <2>5. Stable(req[s])'
      BY <2>2, <2>3 DEF Stable
    <2>6. Found(req[s])'
      BY <2>2, <2>3 DEF Found
    <2>7. Allowed(req[s])'
      BY <2>2, <2>3, <2>4 DEF Allowed, RoomForCheck, RoomForOrg
    <2> QED BY <2>5, <2>6, <2>7 DEF Decided
  <1>4. CASE (Proceeds(s) /\ ~Decide(s)) \/ Comes(s) \/ Abort(s)
    <2>1. CASE Comes(s)
      <3>1. req'[s].pc = "locking"
        BY <2>1, WhatComes DEF Enters, Fresh, TypeOK
      <3> QED BY <3>1 DEF Decided
    <2>2. CASE Read(s)
      <3>1. req'[s].pc = "locking"
        BY <2>2, RequestTypes, WhatReadingSets DEF Read, Set, TypeOK
      <3> QED BY <3>1 DEF Decided
    <2>3. ASSUME NEW u \in Users, Lock(s, u) PROVE Decided(s)'
      <3>1. req'[s].pc \in {"locking", "locked"}
        BY <2>3, RequestTypes DEF Lock, Set, TypeOK, Request
      <3> QED BY <3>1 DEF Decided
    <2>4. CASE Retry(s)
      <3>1. req'[s].pc = "reading"
        BY <2>4 DEF Retry, Set, TypeOK, Idle
      <3> QED BY <3>1 DEF Decided
    <2>5. CASE Ends(s)
      <3>1. req'[s].pc = "idle"
        BY <2>5 DEF Ends, Set, TypeOK, Idle
      <3> QED BY <3>1 DEF Decided
    <2> QED BY <1>4, <2>1, <2>2, <2>3, <2>4, <2>5 DEF Proceeds, Refuse, Commit, Abort
  <1>5. ASSUME NEW u \in Users, NEW p \in Plans, ChangePlan(u, p) PROVE Decided(s)'
    <2>1. /\ lock[u] = Nobody /\ account' = [account EXCEPT ![u] = p]
          /\ creator' = creator /\ home' = home /\ req' = req
      BY <1>5 DEF ChangePlan
    <2>2. CASE q.pc = "decided"
      <3>1. \A v \in Accounts(q) : lock[v] = s
        BY <2>2, DecidedFacts
      <3>2. \A v \in Accounts(q) : account'[v] = account[v]
        BY <2>1, <3>1, FiniteAssumption DEF TypeOK
      <3> QED BY <2>1, <2>2, <3>2, DecisionStands
    <2>3. CASE q.pc # "decided"
      BY <2>1, <2>3 DEF Decided
    <2> QED BY <2>2, <2>3
  <1>6. ASSUME NEW c \in Checks, AdminRemovesCheck(c) PROVE Decided(s)'
    <2>1. /\ home[c] \in Orgs /\ ~RowLocked(c) /\ home' = [home EXCEPT ![c] = Gone]
          /\ account' = account /\ creator' = creator /\ req' = req
      BY <1>6 DEF AdminRemovesCheck
    <2>2. CASE q.pc = "decided"
      <3>1. \A o \in Orgs : \A d \in Checks : home'[d] = o => home[d] = o
        BY <2>1, NullAssumption DEF TypeOK
      <3>2. q.op \in {"move_check", "remove_check"} => q.check # c
        BY <2>1, <2>2 DEF RowLocked
      <3>3. q.op \in {"move_check", "remove_check"} => home'[q.check] = home[q.check]
        BY <2>1, <3>2 DEF TypeOK
      <3> QED BY <2>1, <2>2, <3>1, <3>3, DecisionStands
    <2>3. CASE q.pc # "decided"
      BY <2>1, <2>3 DEF Decided
    <2> QED BY <2>2, <2>3
  <1>7. CASE UNCHANGED vars
    BY <1>1, <1>7 DEF vars, tables
  <1> QED BY <1>2, <1>3, <1>4, <1>5, <1>6, <1>7 DEF Next, Proceeds

-----------------------------------------------------------------------------
(* The invariant *)

LEMMA InitIInv == Init => IInv
  <1> SUFFICES ASSUME Init PROVE IInv
    OBVIOUS
  <1>1. \A r \in Requests : req[r] = Idle
    BY DEF Init
  <1>2. TypeOK
    BY IdleIsARequest DEF Init, TypeOK
  <1>3. Integrity
    BY NullAssumption DEF Init, Integrity
  <1>4. ASSUME NEW r \in Requests PROVE AboutSomething(r) /\ HoldsInOrder(r) /\ OwnIds(r) /\ Decided(r)
    <2>1. \A u \in Users : lock[u] # r
      BY FiniteAssumption DEF Init
    <2>2. AboutSomething(r)
      BY <1>1 DEF AboutSomething, Idle
    <2>3. HoldsInOrder(r)
      BY <1>1, <2>1 DEF HoldsInOrder, Idle
    <2>4. OwnIds(r)
      BY <1>1 DEF OwnIds, Idle
    <2>5. Decided(r)
      BY <1>1 DEF Decided, Idle
    <2> QED BY <2>2, <2>3, <2>4, <2>5
  <1> QED BY <1>2, <1>3, <1>4 DEF IInv

LEMMA NextIInv == IInv /\ [Next]_vars => IInv'
  <1> SUFFICES ASSUME IInv, [Next]_vars PROVE IInv'
    OBVIOUS
  <1>1. TypeOK /\ \A r \in Requests : AboutSomething(r) /\ HoldsInOrder(r) /\ OwnIds(r) /\ Decided(r)
    BY DEF IInv
  <1>2. TypeOK'
    BY <1>1, TypeStep
  <1>3. Integrity'
    BY IntegrityStep
  <1>4. ASSUME NEW r \in Requests PROVE AboutSomething(r)' /\ HoldsInOrder(r)' /\ OwnIds(r)' /\ Decided(r)'
    BY <1>1, AboutStep, LocksStep, IdsStep, DecidedStep
  <1> QED BY <1>2, <1>3, <1>4 DEF IInv

\* Whatever is asked at the same time: what a request has decided on is so until
\* it commits, and locks are taken in order.
THEOREM EntitlementsInvariant == Spec => []IInv
  <1> QED BY InitIInv, NextIInv, PTL DEF Spec

-----------------------------------------------------------------------------
(* No circle *)

\* Who is not the last of a finite set of requests, in the order of the
\* accounts they wait for, has one after it; there is a last one.
LEMMA SomeoneIsLast ==
    ASSUME NEW R, IsFiniteSet(R), R # {}, NEW w \in [R -> Nat]
    PROVE  \E x \in R : \A y \in R : ~(w[x] < w[y])
  <1> DEFINE After(x) == {y \in R : w[x] <= w[y]}
             F == {After(x) : x \in R}
  <1>1. F \subseteq FiniteSubsetsOf(R)
    <2>1. ASSUME NEW x \in R PROVE After(x) \in FiniteSubsetsOf(R)
      BY FS_Subset DEF FiniteSubsetsOf
    <2> QED BY <2>1
  <1>2. F # {}
    <2>1. PICK x \in R : TRUE
      OBVIOUS
    <2>2. After(x) \in F
      BY <2>1
    <2> QED BY <2>2
  <1>3. IsWellFoundedOn(StrictSubsetOrdering(R), FiniteSubsetsOf(R))
    BY FS_StrictSubsetOrderingWellFounded
  <1>4. PICK T \in F : \A U \in F : ~(<<U, T>> \in StrictSubsetOrdering(R))
    <2> HIDE DEF F
    <2> QED BY <1>1, <1>2, <1>3, WFMin
  <1>5. PICK x \in R : T = After(x)
    BY <1>4 DEF F
  <1>6. ASSUME NEW y \in R, w[x] < w[y] PROVE FALSE
    <2>1. After(y) \subseteq After(x) /\ x \in After(x) /\ x \notin After(y)
      BY <1>6
    <2>2. After(y) \in F /\ After(x) \in F
      OBVIOUS
    <2>3. <<After(y), After(x)>> \in StrictSubsetOrdering(R)
      <3>1. After(y) \in SUBSET R /\ After(x) \in SUBSET R /\ After(y) # After(x)
        BY <2>1
      <3> QED BY <2>1, <3>1 DEF StrictSubsetOrdering
    <2> QED BY <1>4, <1>5, <2>2, <2>3
  <1> QED BY <1>6

LEMMA NoOneWaitsInACircle == ASSUME IInv PROVE NoCircle
  <1> USE DEF IInv
  <1> SUFFICES ASSUME NEW R \in SUBSET Requests, R # {}, \A r \in R : \E s \in R : WaitsFor(r, s)
               PROVE  FALSE
    BY DEF NoCircle
  <1>1. ASSUME NEW r \in R
        PROVE  req[r].pc = "locking" /\ \E u \in Users : First(u, req[r].wants) /\ lock[u] \in R
    <2>1. PICK s \in R : WaitsFor(r, s)
      OBVIOUS
    <2>2. req[s].pc # "decided"
      BY DEF WaitsFor
    <2> QED BY <2>1, <2>2 DEF WaitsFor
  <1> DEFINE Awaited(r) == CHOOSE u \in Users : First(u, req[r].wants) /\ lock[u] \in R
             w == [r \in R |-> Awaited(r)]
  <1>2. ASSUME NEW r \in R
        PROVE  w[r] \in Users /\ First(w[r], req[r].wants) /\ lock[w[r]] \in R
    BY <1>1
  <1> HIDE DEF w
  <1>3. w \in [R -> Nat]
    <2>1. DOMAIN w = R /\ w = [r \in R |-> w[r]]
      BY DEF w
    <2> QED BY <1>2, <2>1, UserAssumption
  <1>4. IsFiniteSet(R)
    BY FiniteAssumption, FS_Subset
  <1>5. PICK x \in R : \A y \in R : ~(w[x] < w[y])
    BY <1>3, <1>4, SomeoneIsLast
  <1> DEFINE y == lock[w[x]]
  <1>6. y \in R /\ y \in Requests
    BY <1>2
  <1>7. req[y].pc = "locking" /\ w[y] \in req[y].wants
    BY <1>1, <1>2, <1>6 DEF First
  <1>8. w[x] < w[y]
    BY <1>2, <1>6, <1>7 DEF HoldsInOrder
  <1> QED BY <1>5, <1>6, <1>8

\* Requests never wait for each other in a circle, for an account or for the
\* row of a check (organizations.service.ts: user rows "are always locked first
\* and in sorted order").
THEOREM EntitlementsLock == Spec => []LocksAreSound
  <1>1. IInv => LocksAreSound
    BY NoOneWaitsInACircle DEF IInv, LocksAreSound
  <1> QED BY <1>1, EntitlementsInvariant, PTL

-----------------------------------------------------------------------------
(* What users are promised about their plans *)

\* The abstract specification counts as this one does.
LEMMA SameCardinality == ASSUME NEW X PROVE Limits!Cardinality(X) = Cardinality(X)
  <1> QED BY DEF Cardinality, Limits!Cardinality

LEMMA SameCounts ==
    /\ \A o : ChecksIn(o) = Limits!ChecksIn(o)
    /\ \A u : OrgsOf(u) = Limits!OrgsOf(u) /\ ChecksOf(u) = Limits!ChecksOf(u)
    /\ \A u : RoomForCheck(u) <=> Limits!RoomForCheck(u)
    /\ \A u : RoomForOrg(u) <=> Limits!RoomForOrg(u)
  <1>1. \A o : ChecksIn(o) = Limits!ChecksIn(o)
    BY DEF ChecksIn, Limits!ChecksIn
  <1>2. \A u : OrgsOf(u) = Limits!OrgsOf(u)
    BY DEF OrgsOf, Limits!OrgsOf
  <1>3. \A u : ChecksOf(u) = Limits!ChecksOf(u)
    BY <1>1, <1>2 DEF ChecksOf, Limits!ChecksOf
  <1>4. ASSUME NEW u PROVE RoomForCheck(u) <=> Limits!RoomForCheck(u)
    BY <1>3, SameCardinality DEF RoomForCheck, Limits!RoomForCheck
  <1>5. ASSUME NEW u PROVE RoomForOrg(u) <=> Limits!RoomForOrg(u)
    BY <1>2, SameCardinality DEF RoomForOrg, Limits!RoomForOrg
  <1> QED BY <1>1, <1>2, <1>3, <1>4, <1>5

LEMMA CommitIsOneStep ==
    ASSUME IInv, NEW r \in Requests, Commit(r)
    PROVE  Limits!Next
  <1> USE DEF IInv
  <1> DEFINE q == req[r]
  <1>1. /\ q.org \in Orgs /\ q.op \in CheckOps \cup OrgOps
        /\ q.op \in CheckOps => q.check \in Checks
        /\ q.op \in {"add_org", "transfer"} => q.user \in Users
        /\ q.op = "add_org" => creator[q.org] = Absent
        /\ q.op = "add_check" => home[q.check] = Absent
        /\ q.op # "add_org" => creator[q.org] \in Users /\ creator[q.org] = q.creator
        /\ q.op = "move_check" =>
             home[q.check] \in Orgs /\ creator[home[q.check]] \in Users /\ creator[home[q.check]] = q.former
        /\ q.op = "remove_check" => home[q.check] = q.org
        /\ Allowed(q)
    BY DecidedFacts DEF Commit
  <1>2. \A u : /\ RoomForCheck(u) <=> Limits!RoomForCheck(u)
               /\ RoomForOrg(u) <=> Limits!RoomForOrg(u)
    BY SameCounts
  <1>3. \A u, o : ChecksOf(u) = Limits!ChecksOf(u) /\ ChecksIn(o) = Limits!ChecksIn(o)
    BY SameCounts
  <1>4. account' = account
    BY DEF Commit
  <1>5. CASE q.op = "add_check"
    <2>1. creator' = creator /\ home' = [home EXCEPT ![q.check] = q.org]
      BY <1>5 DEF Commit
    <2>2. Limits!AddCheck(q.check, q.org)
      BY <1>1, <1>2, <1>4, <1>5, <2>1 DEF Limits!AddCheck, Allowed, CheckOps
    <2> QED BY <1>1, <1>5, <2>2 DEF Limits!Next, CheckOps
  <1>6. CASE q.op = "move_check"
    <2>1. creator' = creator /\ home' = [home EXCEPT ![q.check] = q.org]
      BY <1>6 DEF Commit
    <2>2. Limits!MoveCheck(q.check, q.org)
      BY <1>1, <1>2, <1>4, <1>6, <2>1 DEF Limits!MoveCheck, Allowed, CheckOps
    <2> QED BY <1>1, <1>6, <2>2 DEF Limits!Next, CheckOps
  <1>7. CASE q.op = "remove_check"
    <2>1. creator' = creator /\ home' = [home EXCEPT ![q.check] = Gone]
      BY <1>7 DEF Commit
    <2>2. Limits!RemoveCheck(q.check)
      BY <1>1, <1>4, <1>7, <2>1 DEF Limits!RemoveCheck
    <2> QED BY <1>1, <1>7, <2>2 DEF Limits!Next, CheckOps
  <1>8. CASE q.op = "add_org"
    <2>1. creator' = [creator EXCEPT ![q.org] = q.user] /\ home' = home
      BY <1>8 DEF Commit
    <2>2. Limits!AddOrg(q.org, q.user)
      BY <1>1, <1>2, <1>4, <1>8, <2>1 DEF Limits!AddOrg, Allowed
    <2> QED BY <1>1, <1>8, <2>2 DEF Limits!Next
  <1>9. CASE q.op = "transfer"
    <2>1. creator' = [creator EXCEPT ![q.org] = q.user] /\ home' = home
      BY <1>9 DEF Commit
    <2>2. /\ q.user # q.creator /\ RoomForOrg(q.user)
          /\ Cardinality(ChecksOf(q.user)) + Cardinality(ChecksIn(q.org)) <= account[q.user].maxChecks
      BY <1>1, <1>9 DEF Allowed
    <2>3. Limits!Transfer(q.org, q.user)
      <3>1. Limits!Cardinality(Limits!ChecksOf(q.user)) + Limits!Cardinality(Limits!ChecksIn(q.org))
              <= account[q.user].maxChecks
        BY <1>3, <2>2, SameCardinality
      <3> QED BY <1>1, <1>2, <1>4, <1>9, <2>1, <2>2, <3>1 DEF Limits!Transfer
    <2> QED BY <1>1, <1>9, <2>3 DEF Limits!Next
  <1>10. CASE q.op = "remove_org"
    <2>1. /\ creator' = [creator EXCEPT ![q.org] = Gone]
          /\ home' = [c \in Checks |-> IF home[c] = q.org THEN Gone ELSE home[c]]
      BY <1>10 DEF Commit
    <2>2. Limits!RemoveOrg(q.org)
      BY <1>1, <1>4, <1>10, <2>1 DEF Limits!RemoveOrg
    <2> QED BY <1>1, <2>2 DEF Limits!Next
  <1> QED BY <1>1, <1>5, <1>6, <1>7, <1>8, <1>9, <1>10 DEF CheckOps, OrgOps

LEMMA StepIsOneStep == IInv /\ [Next]_vars => [Limits!Next]_(Limits!vars)
  <1> SUFFICES ASSUME IInv, [Next]_vars PROVE Limits!Next \/ UNCHANGED <<account, creator, home>>
    BY DEF Limits!vars
  <1>1. CASE \E r \in Requests : Comes(r) \/ Proceeds(r) \/ Abort(r)
    BY <1>1, CommitIsOneStep, OnlyCommitsWrite DEF tables
  <1>2. CASE \E u \in Users, p \in Plans : ChangePlan(u, p)
    <2>1. PICK u \in Users, p \in Plans : ChangePlan(u, p)
      BY <1>2
    <2>2. Limits!ChangePlan(u, p)
      BY <2>1 DEF ChangePlan, Limits!ChangePlan
    <2> QED BY <2>2 DEF Limits!Next
  <1>3. CASE \E c \in Checks : AdminRemovesCheck(c)
    <2>1. PICK c \in Checks : AdminRemovesCheck(c)
      BY <1>3
    <2>2. Limits!RemoveCheck(c)
      BY <2>1 DEF AdminRemovesCheck, Limits!RemoveCheck
    <2> QED BY <2>2 DEF Limits!Next
  <1>4. CASE UNCHANGED vars
    BY <1>4 DEF vars
  <1> QED BY <1>1, <1>2, <1>3, <1>4 DEF Next

\* Every request takes effect at its commit as if it were alone: no count of
\* organizations or checks grows past the plan the account has at that moment.
THEOREM EntitlementsImplementLimits == Spec => ImplementsLimits
  <1>1. Init => Limits!Init
    BY DEF Init, Limits!Init
  <1> QED BY <1>1, StepIsOneStep, EntitlementsInvariant, PTL DEF Spec, ImplementsLimits, Limits!Spec
=============================================================================
