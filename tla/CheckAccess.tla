----------------------------- MODULE CheckAccess -----------------------------
(* Who may change what: credentials are authenticated, checks are edited,    *)
(* deleted, created and moved, status pages list them, and organizations are *)
(* deleted, all at the same time.                                            *)
(*                                                                           *)
(* A request is authenticated in a transaction of its own, resolves what it  *)
(* is about without a lock, and does it in a transaction that locks rows one *)
(* after the other and reads again.  Statements are steps (READ COMMITTED);  *)
(* what a transaction writes is seen when it commits.  PostgreSQL rolls back *)
(* one transaction of a circle of waits.                                     *)
(*                                                                           *)
(* Every organization has one project, and they are one here.  Creatorship   *)
(* is not transferred (see Entitlements), nobody joins (see Memberships).    *)
EXTENDS Integers, FiniteSets, Sequences

CONSTANTS
    Users, Orgs, Checks, Pages, Tokens, Requests,
    CreatorOf,     \* the creator of each organization
    SignedIn,      \* users with a session
    TokenOf,       \* of each token: [user, org]; org = None for one of the account
    FirstRole,     \* memberships, checks and pages that are there at first
    FirstHome, FirstPage,
    None,          \* NULL, or not there yet
    Gone,          \* deleted
    MaxTries,      \* CREATOR_STABILITY_RETRIES
    MaxChanges     \* bound on what happens outside of the requests

ASSUME AccessAssumption ==
    /\ Users \subseteq Nat /\ SignedIn \subseteq Users
    /\ CreatorOf \in [Orgs -> Users]
    /\ TokenOf \in [Tokens -> [user : Users, org : Orgs \cup {None}]]
    /\ FirstRole \in [Users \X Orgs -> {"none", "MEMBER", "OWNER"}]
    /\ \A o \in Orgs : FirstRole[<<CreatorOf[o], o>>] = "OWNER"
    /\ FirstHome \in [Checks -> Orgs \cup {None}]
    /\ FirstPage \in [Pages -> [home : Orgs \cup {None}, lists : SUBSET Checks]]
    /\ \A g \in Pages : \A c \in FirstPage[g].lists : FirstPage[g].home = FirstHome[c]
    /\ {None, Gone} \cap (Users \cup Orgs \cup Checks \cup Pages \cup Tokens) = {} /\ None # Gone
    /\ \A g \in Pages : FirstPage[g].home = None => FirstPage[g].lists = {}
    /\ \A S \in {Users, Orgs, Checks, Pages, Tokens, Requests} : IsFiniteSet(S)
    /\ MaxTries \in Nat \ {0} /\ MaxChanges \in Nat

VARIABLES
    role,        \* memberships: the role of each user in each organization
    live,        \* organizations that are there
    home,        \* the project of each check
    page,        \* status pages: [home, lists]
    token,       \* [org, ended]
    suspended,
    req,
    changes

tables == <<role, live, home, page, token, suspended>>
accessVars == <<tables, req, changes>>

-----------------------------------------------------------------------------
(* Rows that are locked, and the advisory lock of a project's pages *)

Account(u) == <<"account", u>>       \* lockUsers: an advisory lock and the row
Membership(u, o) == <<"membership", u, o>>
Project(o) == <<"project", o>>
Token(t) == <<"token", t>>
Check(c) == <<"check", c>>
PagesOf(o) == <<"pages of", o>>      \* lockProjectCheckStatusChanges
Page(g) == <<"page", g>>

PageOps == {"create page", "update page", "delete page"}
CheckOps == {"edit check", "delete check", "create check"}
Ops == CheckOps \cup PageOps \cup {"move check", "delete org"}

Idle == [pc |-> "idle", op |-> "none", user |-> None, token |-> None, org |-> None, dest |-> None,
         check |-> None, page |-> None, lists |-> {}, bound |-> None, todo |-> <<>>, held |-> {}, tries |-> 0]

IsFree(r, l) == \A s \in Requests \ {r} : l \notin req[s].held

Set(r, q) == req' = [req EXCEPT ![r] = q]

\* Committed or rolled back, for good: the locks go.
Ends(r) == Set(r, [Idle EXCEPT !.pc = "ended"])

Refused(r) == Ends(r) /\ UNCHANGED <<tables, changes>>

\* On to the next statements, and the rows they lock in turn.
Goes(r, q, pc, todo) == Set(r, [q EXCEPT !.pc = pc, !.todo = todo]) /\ UNCHANGED <<tables, changes>>

At(r, pc) == req[r].pc = pc /\ req[r].todo = <<>>

Locks(r) ==
    /\ req[r].todo # <<>>
    /\ IsFree(r, Head(req[r].todo))
    /\ Set(r, [req[r] EXCEPT !.held = @ \cup {Head(req[r].todo)}, !.todo = Tail(@)])
    /\ UNCHANGED <<tables, changes>>

WaitsFor(r, s) == r # s /\ req[r].todo # <<>> /\ Head(req[r].todo) \in req[s].held

Circle(R) == R # {} /\ \A r \in R : \E s \in R : WaitsFor(r, s)

\* PostgreSQL rolls back one of a circle.
Victim(r) ==
    /\ \E R \in SUBSET Requests : r \in R /\ Circle(R)
    /\ Refused(r)

Orders(S) == {f \in [1 .. Cardinality(S) -> S] : \A i, j \in DOMAIN f : f[i] = f[j] => i = j}

Sorted(S) == CHOOSE f \in Orders(S) : \A i, j \in DOMAIN f : i <= j => f[i] <= f[j]

AccountsInOrder(S) == LET order == Sorted(S) IN [i \in DOMAIN order |-> Account(order[i])]

-----------------------------------------------------------------------------
(* Authentication *)

\* Faulty: the order of the joins.
TokenFirst(t, u, o) ==
    IF o = None THEN <<Token(t), Account(u)>> ELSE <<Project(o), Token(t), Account(u), Membership(u, o)>>

\* user -> membership -> project -> token
AuthenticationOrder(t, u, o) ==
    <<Account(u)>> \o (IF o = None THEN <<>> ELSE <<Membership(u, o), Project(o)>>) \o <<Token(t)>>

\* Some requests resolve nothing before their transaction.
Accepted(q) == IF q.op \in {"update page", "delete page", "delete org"} THEN "resolved" ELSE "accepted"

CallsWithSession(r, u, q) ==
    /\ u \notin suspended
    /\ Goes(r, [q EXCEPT !.user = u], Accepted(q), <<>>)

\* The token is looked up by its hash, without a lock.
CallsWithToken(r, t, q) ==
    LET u == TokenOf[t].user IN
    Goes(r, [q EXCEPT !.user = u, !.token = t], "authenticating", AuthenticationOrder(t, u, token[t].org))

\* Faulty: without its project the token is one of the account.
UsableUnbound(t) == LET u == TokenOf[t].user IN ~token[t].ended /\ u \notin suspended

\* A token keeps the names of its project when the project is gone.
Usable(t) ==
    LET u == TokenOf[t].user IN
    /\ ~token[t].ended /\ u \notin suspended
    /\ TokenOf[t].org # None => token[t].org # None /\ role[<<u, token[t].org>>] # "none"

ReadsToken(r) ==
    /\ At(r, "authenticating")
    /\ IF Usable(req[r].token)
         THEN Goes(r, [req[r] EXCEPT !.bound = token[req[r].token].org], "touching", <<>>)
         ELSE Refused(r)

\* lastUsedAt, of the token as it was read; the transaction commits.
Touches(r) ==
    /\ At(r, "touching")
    /\ LET t == token[req[r].token]
       IN  IF t.org = req[r].bound /\ ~t.ended
             THEN Goes(r, [req[r] EXCEPT !.held = {}], Accepted(req[r]), <<>>)
             ELSE Refused(r)

IsScoped(q) == q.token # None /\ q.bound # None

\* requireOperationAccess: tokens of a project are for checks.
requireOperationAccess(q) == IsScoped(q) => q.op \in CheckOps

requireCheckAccess(q, o) == IsScoped(q) => q.bound = o

-----------------------------------------------------------------------------
(* What the request is about, read without a lock *)

IsMember(u, o) == role[<<u, o>>] # "none"

ResolvesCheck(r) ==
    LET q == req[r] o == home[q.check] IN
    /\ At(r, "accepted") /\ q.op \in {"edit check", "delete check"}
    /\ IF o \in Orgs /\ IsMember(q.user, o) /\ requireCheckAccess(q, o)
         THEN Goes(r, [q EXCEPT !.org = o], "resolved", <<>>)
         ELSE Refused(r)

\* resolveForUser: the organization, or the destination.
ResolvesOrg(r) ==
    LET q == req[r] o == IF q.op = "move check" THEN q.dest ELSE q.org IN
    /\ At(r, "accepted") /\ q.op \in {"create check", "create page", "move check"}
    /\ IF IsMember(q.user, o) /\ requireOperationAccess(q) /\ requireCheckAccess(q, o)
         THEN Goes(r, q, "resolved", <<>>)
         ELSE Refused(r)

-----------------------------------------------------------------------------
(* Checks: creator account -> check row -> caller's membership *)

BeginsCheck(r) ==
    LET q == req[r] IN
    /\ At(r, "resolved") /\ q.op \in CheckOps
    /\ IF q.org \in live /\ (q.op = "create check" \/ home[q.check] = q.org)
         THEN Goes(r, q, "accounts", <<Account(CreatorOf[q.org])>>)
         ELSE Refused(r)

LocksCheck(r) ==
    LET q == req[r] IN
    /\ At(r, "accounts") /\ q.op \in {"edit check", "delete check"}
    /\ IF q.org \in live THEN Goes(r, q, "check", <<Check(q.check)>>) ELSE Refused(r)

IsExpected(q) == home[q.check] = q.org

\* lockAndAssertExpectedCheck
AssertsExpected(r) ==
    LET q == req[r] IN
    /\ At(r, "check") /\ q.op \in {"edit check", "delete check"}
    /\ IF IsExpected(q)
         THEN Goes(r, [q EXCEPT !.org = home[q.check]], "membership", <<Membership(q.user, home[q.check])>>)
         ELSE Refused(r)

\* createWithinAccountQuota
LocksMember(r) ==
    LET q == req[r] IN
    /\ At(r, "accounts") /\ q.op = "create check"
    /\ IF q.org \in live THEN Goes(r, q, "membership", <<Membership(q.user, q.org)>>) ELSE Refused(r)

\* Faulty: the membership was looked at when the check was resolved.
AssertsNothing(r) ==
    LET q == req[r] IN
    /\ At(r, "membership") /\ q.op \in CheckOps
    /\ Goes(r, q, "writing", IF q.op = "create check" THEN <<Project(q.org)>> ELSE <<>>)

\* lockAndAssertMember.  The check that is created refers to the project, and
\* waits for who has it locked.
AssertsMember(r) ==
    LET q == req[r] IN
    /\ At(r, "membership") /\ q.op \in CheckOps
    /\ IF IsMember(q.user, q.org)
         THEN Goes(r, q, "writing", IF q.op = "create check" THEN <<Project(q.org)>> ELSE <<>>)
         ELSE Refused(r)

WritesCheck(r) ==
    LET q == req[r] IN
    /\ At(r, "writing") /\ q.op \in CheckOps
    /\ home' = CASE q.op = "edit check" -> home
                 [] q.op = "delete check" -> [home EXCEPT ![q.check] = Gone]
                 [] q.op = "create check" -> [home EXCEPT ![q.check] = q.org]
    /\ Ends(r)
    /\ UNCHANGED <<role, live, page, token, suspended, changes>>

-----------------------------------------------------------------------------
(* Moves: creator accounts -> check row -> both memberships -> the source's  *)
(* pages                                                                     *)

BeginsMove(r) ==
    LET q == req[r] o == home[q.check] IN
    /\ At(r, "resolved") /\ q.op = "move check"
    /\ IF o \in Orgs /\ q.dest \in live /\ o # q.dest
         THEN Goes(r, [q EXCEPT !.org = o], "accounts",
                   AccountsInOrder({CreatorOf[o], CreatorOf[q.dest]}) \o <<Check(q.check)>>)
         ELSE Refused(r)

\* The check may be of another organization by now, and its creator another.
RereadsMove(r) ==
    LET q == req[r] o == home[q.check] IN
    /\ At(r, "accounts") /\ q.op = "move check"
    /\ IF o \in Orgs /\ q.dest \in live
         THEN IF CreatorOf[o] # CreatorOf[q.org]
                THEN IF q.tries + 1 < MaxTries
                       THEN Goes(r, [q EXCEPT !.tries = @ + 1, !.held = {}], "resolved", <<>>)
                       ELSE Refused(r)
                ELSE IF o # q.dest
                       THEN Goes(r, [q EXCEPT !.org = o], "source", <<Membership(q.user, o)>>)
                       ELSE Refused(r)
         ELSE Refused(r)

AssertsOwnerOfSource(r) ==
    LET q == req[r] IN
    /\ At(r, "source")
    /\ IF role[<<q.user, q.org>>] = "OWNER"
         THEN Goes(r, q, "destination", <<Membership(q.user, q.dest)>>)
         ELSE Refused(r)

AssertsOwnerOfDestination(r) ==
    LET q == req[r] IN
    /\ At(r, "destination")
    /\ IF role[<<q.user, q.dest>>] = "OWNER" THEN Goes(r, q, "pages", <<PagesOf(q.org)>>) ELSE Refused(r)

PagesIn(o) == {g \in Pages : page[g].home = o}

\* removeCheckFromSourceStatusPages
LocksPages(r) ==
    LET q == req[r] IN
    /\ At(r, "pages")
    /\ \E order \in Orders(PagesIn(q.org)) :
          Goes(r, q, "writing", [i \in DOMAIN order |-> Page(order[i])] \o <<Project(q.dest)>>)

Moves(r) ==
    LET q == req[r] IN
    /\ At(r, "writing") /\ q.op = "move check"
    /\ page' = [g \in Pages |-> IF g \in PagesIn(q.org) THEN [page[g] EXCEPT !.lists = @ \ {q.check}]
                                                        ELSE page[g]]
    /\ home' = [home EXCEPT ![q.check] = q.dest]
    /\ Ends(r)
    /\ UNCHANGED <<role, live, token, suspended, changes>>

-----------------------------------------------------------------------------
(* Status pages *)

\* Faulty: a page that is there needs no coordination.
CoordinatesCreations(q, o) == IF q.op = "create page" THEN <<PagesOf(o)>> ELSE <<>>

Coordinates(q, o) == <<PagesOf(o)>>

BeginsPage(r) ==
    LET q == req[r] o == IF q.op = "create page" THEN q.org ELSE page[q.page].home IN
    /\ At(r, "resolved") /\ q.op \in {"create page", "update page"}
    /\ IF o \in Orgs /\ requireOperationAccess(q)
         THEN Goes(r, [q EXCEPT !.org = o], "coordinated", Coordinates(q, o))
         ELSE Refused(r)

\* The page is read again, then the checks: they are of the project.
AssertsChecks(r) ==
    LET q == req[r] IN
    /\ At(r, "coordinated")
    /\ IF /\ q.op = "update page" => page[q.page].home = q.org
          /\ q.org \in live /\ IsMember(q.user, q.org)
          /\ \A c \in q.lists : home[c] = q.org
         THEN Goes(r, q, "writing", IF q.op = "create page" THEN <<Project(q.org)>> ELSE <<Page(q.page)>>)
         ELSE Refused(r)

WritesPage(r) ==
    LET q == req[r] IN
    /\ At(r, "writing") /\ q.op \in {"create page", "update page"}
    /\ (IF q.op = "create page" THEN q.org \in live ELSE page[q.page].home = q.org)
    /\ page' = [page EXCEPT ![q.page] = [home |-> q.org, lists |-> q.lists]]
    /\ Ends(r)
    /\ UNCHANGED <<role, live, home, token, suspended, changes>>

\* Without a transaction: it is looked up, and deleted.
BeginsPageDeletion(r) ==
    LET q == req[r] o == page[q.page].home IN
    /\ At(r, "resolved") /\ q.op = "delete page"
    /\ IF o \in Orgs /\ IsMember(q.user, o) /\ requireOperationAccess(q)
         THEN Goes(r, q, "writing", <<Page(q.page)>>)
         ELSE Refused(r)

DeletesPage(r) ==
    LET q == req[r] IN
    /\ At(r, "writing") /\ q.op = "delete page"
    /\ page[q.page].home \in Orgs
    /\ page' = [page EXCEPT ![q.page] = [home |-> Gone, lists |-> {}]]
    /\ Ends(r)
    /\ UNCHANGED <<role, live, home, token, suspended, changes>>

\* What it waited for has been deleted.
WritesNothing(r) ==
    LET q == req[r] IN
    /\ At(r, "writing")
    /\ \/ q.op \in {"update page", "delete page"} /\ page[q.page].home = Gone
       \/ q.op \in {"create page", "create check"} /\ q.org \notin live
    /\ Refused(r)

-----------------------------------------------------------------------------
(* Deletion of an organization: accounts -> the caller's memberships -> what *)
(* goes with it, memberships before the project                              *)

MembershipsOf(u) == {o \in Orgs : IsMember(u, o)}

BeginsDeletion(r) ==
    LET q == req[r] IN
    /\ At(r, "resolved") /\ q.op = "delete org"
    /\ IF q.org \in live /\ requireOperationAccess(q)
         THEN Goes(r, q, "accounts", AccountsInOrder({q.user, CreatorOf[q.org]}))
         ELSE Refused(r)

LocksMemberships(r) ==
    LET q == req[r] IN
    /\ At(r, "accounts") /\ q.op = "delete org"
    /\ \E order \in Orders(MembershipsOf(q.user)) :
          Goes(r, q, "deciding", [i \in DOMAIN order |-> Membership(q.user, order[i])])

Each(S, Row(_)) == LET order == CHOOSE f \in Orders(S) : TRUE IN [i \in DOMAIN order |-> Row(order[i])]

Cascade(o) ==
    Each({u \in Users : IsMember(u, o)}, LAMBDA u : Membership(u, o)) \o <<Project(o)>>
    \o Each({t \in Tokens : token[t].org = o}, Token)
    \o Each({c \in Checks : home[c] = o}, Check) \o Each(PagesIn(o), Page)

\* The caller keeps another organization.
Decides(r) ==
    LET q == req[r] IN
    /\ At(r, "deciding")
    /\ IF q.org \in live /\ role[<<q.user, q.org>>] = "OWNER" /\ Cardinality(MembershipsOf(q.user)) > 1
         THEN Goes(r, q, "writing", Cascade(q.org))
         ELSE Refused(r)

Unlisted(o) == [g \in Pages |-> IF page[g].home = o THEN [home |-> Gone, lists |-> {}] ELSE page[g]]

DeletesOrg(r) ==
    LET q == req[r] IN
    /\ At(r, "writing") /\ q.op = "delete org"
    /\ live' = live \ {q.org}
    /\ role' = [m \in Users \X Orgs |-> IF m[2] = q.org THEN "none" ELSE role[m]]
    /\ home' = [c \in Checks |-> IF home[c] = q.org THEN Gone ELSE home[c]]
    /\ page' = Unlisted(q.org)
    /\ token' = [t \in Tokens |-> IF token[t].org = q.org THEN [token[t] EXCEPT !.org = None] ELSE token[t]]
    /\ Ends(r)
    /\ UNCHANGED <<suspended, changes>>

-----------------------------------------------------------------------------
(* What others do: transactions that wait for one row *)

\* They matter to a request that is about them, and has not been accepted yet
\* if it is its credential they change.
Changes(l) ==
    /\ changes < MaxChanges /\ changes' = changes + 1
    /\ \A r \in Requests : l \notin req[r].held
    /\ UNCHANGED <<live, home, page, req>>

Authenticated(r) == req[r].pc \notin {"authenticating", "touching"}

\* removeMember, leave; updateRole
ChangesRole(u, o, new) ==
    /\ IsMember(u, o) /\ CreatorOf[o] # u /\ role[<<u, o>>] # new
    /\ \E r \in Requests : req[r].user = u /\ o \in {req[r].org, req[r].dest}
    /\ Changes(Membership(u, o))
    /\ role' = [role EXCEPT ![<<u, o>>] = new]
    /\ UNCHANGED <<token, suspended>>

Revokes(t) ==
    /\ ~token[t].ended
    /\ \E r \in Requests : req[r].token = t /\ ~Authenticated(r)
    /\ Changes(Token(t))
    /\ token' = [token EXCEPT ![t].ended = TRUE]
    /\ UNCHANGED <<role, suspended>>

Suspends(u) ==
    /\ u \notin suspended
    /\ \E r \in Requests : req[r].user = u /\ ~Authenticated(r)
    /\ Changes(Account(u))
    /\ suspended' = suspended \cup {u}
    /\ UNCHANGED <<role, token>>

-----------------------------------------------------------------------------
AccessInit ==
    /\ role = FirstRole /\ live = Orgs /\ home = FirstHome /\ page = FirstPage
    /\ token = [t \in Tokens |-> [org |-> TokenOf[t].org, ended |-> FALSE]]
    /\ suspended = {}
    /\ req = [r \in Requests |-> Idle]
    /\ changes = 0

\* An id of its own for what is to be created.
NewCheck(c) == home[c] = None /\ \A r \in Requests : req[r].check # c
NewPage(g) == page[g].home = None /\ \A r \in Requests : req[r].page # g

Existing == {c \in Checks : home[c] # None}

\* A page that lists no check when it is created is one whose checks went.
Asked ==
    [op : {"edit check", "delete check"}, check : Existing]
    \cup [op : {"move check"}, check : Existing, dest : Orgs]
    \cup [op : {"create check"}, org : Orgs, check : {c \in Checks : NewCheck(c)}]
    \cup [op : {"create page"}, org : Orgs, page : {g \in Pages : NewPage(g)}, lists : (SUBSET Existing) \ {{}}]
    \cup [op : {"update page"}, page : {g \in Pages : page[g].home # None}, lists : SUBSET Existing]
    \cup [op : {"delete page"}, page : {g \in Pages : page[g].home # None}]
    \cup [op : {"delete org"}, org : Orgs]

Handles(r) ==
    \/ Locks(r) \/ Victim(r)
    \/ ReadsToken(r) \/ Touches(r)
    \/ ResolvesCheck(r) \/ ResolvesOrg(r)
    \/ BeginsCheck(r) \/ LocksCheck(r) \/ AssertsExpected(r) \/ LocksMember(r) \/ AssertsMember(r) \/ WritesCheck(r)
    \/ BeginsMove(r) \/ RereadsMove(r) \/ AssertsOwnerOfSource(r) \/ AssertsOwnerOfDestination(r)
    \/ LocksPages(r) \/ Moves(r)
    \/ BeginsPage(r) \/ AssertsChecks(r) \/ WritesPage(r) \/ BeginsPageDeletion(r) \/ DeletesPage(r)
    \/ WritesNothing(r)
    \/ BeginsDeletion(r) \/ LocksMemberships(r) \/ Decides(r) \/ DeletesOrg(r)

Others ==
    \/ \E u \in Users, o \in Orgs, new \in {"none", "MEMBER"} : ChangesRole(u, o, new)
    \/ \E t \in Tokens : Revokes(t)
    \/ \E u \in Users : Suspends(u)

Requested(r) ==
    /\ req[r].pc = "idle"
    /\ \E a \in Asked :
          LET q == [f \in DOMAIN Idle |-> IF f \in DOMAIN a THEN a[f] ELSE Idle[f]] IN
          \/ \E u \in SignedIn : CallsWithSession(r, u, q)
          \/ \E t \in Tokens : CallsWithToken(r, t, q)

AccessNext ==
    \/ \E r \in Requests : Requested(r) \/ Handles(r)
    \/ Others

-----------------------------------------------------------------------------
Pcs == {"idle", "authenticating", "touching", "accepted", "resolved", "accounts",
        "check", "membership", "source", "destination", "pages", "coordinated", "deciding", "writing", "ended"}

Rows ==
    {Account(u) : u \in Users} \cup {Membership(u, o) : u \in Users, o \in Orgs}
    \cup {Project(o) : o \in Orgs} \cup {PagesOf(o) : o \in Orgs}
    \cup {Token(t) : t \in Tokens} \cup {Check(c) : c \in Checks} \cup {Page(g) : g \in Pages}

\* The type invariant; no row is locked by two requests.
AccessTypeOK ==
    /\ role \in [Users \X Orgs -> {"none", "MEMBER", "OWNER"}]
    /\ live \subseteq Orgs /\ suspended \subseteq Users
    /\ home \in [Checks -> Orgs \cup {None, Gone}]
    /\ page \in [Pages -> [home : Orgs \cup {None, Gone}, lists : SUBSET Checks]]
    /\ token \in [Tokens -> [org : Orgs \cup {None}, ended : BOOLEAN]]
    /\ \A r \in Requests :
          /\ req[r].pc \in Pcs /\ req[r].op \in Ops \cup {"none"}
          /\ req[r].held \subseteq Rows /\ req[r].tries \in 0 .. MaxTries - 1
          /\ \A s \in Requests \ {r} : req[r].held \cap req[s].held = {}
    /\ changes \in 0 .. MaxChanges

\* A status page lists checks of its own project only, or ones that are
\* deleted, whatever is moved while it is written.
PagesListTheirOwn ==
    \A g \in Pages : \A c \in page[g].lists : home[c] \in {page[g].home, Gone}

\* Of the transactions here only deletions of organizations can wait for each
\* other in a circle, and moves for a deletion by the same user, who holds the
\* rows of all their memberships; authentication, status pages and the other
\* operations on checks are in no circle.
CirclesAreOfDeletions ==
    \A R \in SUBSET Requests :
        Circle(R) /\ (\A S \in (SUBSET R) \ {R} : ~Circle(S)) =>
            \A s \in R :
                \/ req[s].op = "delete org"
                \/ /\ req[s].op = "move check"
                   /\ \E r \in R : req[r].op = "delete org" /\ req[r].user = req[s].user

\* A credential is accepted only while it is good: not revoked, its owner not
\* suspended, and a token made for a project is accepted for that project, of
\* which its owner is a member.  A token is never worth more than it was made for.
AcceptedIsGood ==
    [][\A r \in Requests :
          LET q == req[r] IN
          q.pc = "touching" /\ req'[r].pc \in {"accepted", "resolved"} =>
              /\ ~token[q.token].ended /\ q.user \notin suspended
              /\ req'[r].bound = TokenOf[q.token].org
              /\ q.bound # None => q.bound \in live /\ IsMember(q.user, q.bound)]_accessVars

\* Who changes a check is at that moment a member of the organization it belongs to,
\* who moves it owns both; and a token of a project changes that project's only.
ChangesAreAllowed ==
    [][\A c \in Checks, r \in Requests :
          LET q == req[r] o == IF q.op = "create check" THEN q.org ELSE home[c] IN
          q.pc = "writing" /\ req'[r].pc = "ended" /\ q.op \in CheckOps \cup {"move check"} /\ q.check = c =>
              /\ o \in live => IsMember(q.user, o) /\ requireCheckAccess(q, o)
              /\ q.op = "move check" => role[<<q.user, o>>] = "OWNER" /\ role[<<q.user, q.dest>>] = "OWNER"
              /\ q.op = "edit check" => home[c] \in Orgs]_accessVars
=============================================================================
