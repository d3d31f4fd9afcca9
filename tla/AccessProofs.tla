---------------------------- MODULE AccessProofs ----------------------------
(* What Access promises, for any value of the constants: of requests under   *)
(* their locks here, of the clients of the API in ClientProofs.              *)
EXTENDS Access, ClientProofs, SequenceTheorems

Elements(s) == {s[i] : i \in DOMAIN s}

-----------------------------------------------------------------------------
(* CheckAccess: the inductive invariant *)

Request == [pc : Pcs, op : Ops \cup {"none"}, user : Users \cup {None}, token : Tokens \cup {None},
            org : Orgs \cup {None}, dest : Orgs \cup {None}, check : Checks \cup {None}, page : Pages \cup {None},
            lists : SUBSET Checks, bound : Orgs \cup {None}, todo : Seq(Rows), held : SUBSET Rows,
            tries : 0 .. MaxTries - 1]

\* The rows a transaction has, or is going to lock.
Wants(q) == q.held \cup Elements(q.todo)

\* A request is about something that there is a name for.
IsAbout(q) ==
    /\ q.pc \notin {"idle", "ended"} => q.op \in Ops /\ q.user \in Users
    /\ q.pc \in {"authenticating", "touching"} => q.token \in Tokens
    /\ q.token \in Tokens => q.user = TokenOf[q.token].user
    /\ q.op \in {"edit check", "delete check", "create check", "move check"} => q.check \in Checks
    /\ q.op = "move check" => q.dest \in Orgs
    /\ q.op \in PageOps => q.page \in Pages
    /\ q.op \in {"create check", "create page", "delete org"} => q.org \in Orgs

\* Transactions lock in this order.
LevelOf(l) ==
    CASE l[1] = "account" -> 1 [] l[1] = "check" -> 2 [] l[1] = "membership" -> 3 [] l[1] = "pages of" -> 4
      [] l[1] = "page" -> 5 [] l[1] = "project" -> 6 [] OTHER -> 7

\* The one that deletes an organization does in the order in which its rows go.
DeletionLevelOf(l) ==
    CASE l[1] = "account" -> 1 [] l[1] = "membership" -> 2 [] l[1] = "project" -> 3
      [] l[1] = "token" -> 4 [] l[1] = "check" -> 5 [] OTHER -> 6

Deletes(q) == q.op = "delete org"

Level(q, l) == IF Deletes(q) THEN DeletionLevelOf(l) ELSE LevelOf(l)

NotAfter(q, k, l) ==
    /\ Level(q, k) <= Level(q, l)
    /\ k[1] = "account" /\ l[1] = "account" => k[2] <= l[2]

Before(q, K, L) == \A k \in K, l \in L : NotAfter(q, k, l)

Ascends(q, s) == \A i, j \in DOMAIN s : i < j => NotAfter(q, s[i], s[j])

LocksInOrder(q) == Before(q, q.held, Elements(q.todo)) /\ Ascends(q, q.todo)

CredentialRows(q) ==
    LET o == TokenOf[q.token].org IN
    {Account(q.user), Token(q.token)} \cup (IF o = None THEN {} ELSE {Membership(q.user, o), Project(o)})

\* The accounts whose locks a transaction begins with.
AccountsOf(q) ==
    CASE q.op \in CheckOps -> {Account(CreatorOf[q.org])}
      [] q.op = "move check" -> {Account(CreatorOf[q.org]), Account(CreatorOf[q.dest])}
      [] q.op = "delete org" -> {Account(q.user), Account(CreatorOf[q.org])}
      [] OTHER -> {}

\* What goes with an organization, and the memberships of who deletes it.
GoWithIt(o) ==
    {Membership(u, v) : u \in Users, v \in Orgs} \cup {Project(o)}
    \cup {Token(t) : t \in Tokens} \cup {Check(c) : c \in Checks} \cup {Page(g) : g \in Pages}

InPhase(q) ==
    /\ q.pc \in {"idle", "ended"} => q = [Idle EXCEPT !.pc = q.pc]
    /\ q.pc \in {"accepted", "resolved"} => q.held = {} /\ q.todo = <<>>
    /\ q.pc = "accepted" => q.op \notin {"update page", "delete page", "delete org"}
    /\ q.pc \in {"authenticating", "touching"} =>
          {Account(q.user), Token(q.token)} \subseteq Wants(q) /\ Wants(q) \subseteq CredentialRows(q)
    /\ q.pc = "touching" => q.todo = <<>>
    /\ q.pc = "resolved" /\ q.op \in {"edit check", "delete check"} => q.org \in Orgs
    /\ q.pc = "accounts" => q.op \in CheckOps \cup {"move check", "delete org"}
    /\ q.pc = "check" => q.op \in {"edit check", "delete check"}
    /\ q.pc = "membership" => q.op \in CheckOps
    /\ q.pc \in {"source", "destination", "pages"} => q.op = "move check"
    /\ q.pc = "coordinated" => q.op \in {"create page", "update page"}
    /\ q.pc = "deciding" => q.op = "delete org"
    /\ q.pc \in {"accounts", "check", "membership", "source", "destination", "pages", "coordinated", "deciding"} => q.org \in Orgs
    /\ q.pc = "writing" /\ q.op # "delete page" => q.org \in Orgs

\* What it has locked at its phase, and may have or be going to.
CheckInPhase(q) ==
    q.op \in CheckOps /\ q.pc \in {"accounts", "check", "membership", "writing"} =>
        /\ AccountsOf(q) \subseteq Wants(q)
        /\ Wants(q) \subseteq AccountsOf(q)
              \cup (IF q.pc = "accounts" \/ q.op = "create check" THEN {} ELSE {Check(q.check)})
              \cup (IF q.pc \in {"accounts", "check"} THEN {} ELSE {Membership(q.user, q.org)})
              \cup (IF q.pc = "writing" /\ q.op = "create check" THEN {Project(q.org)} ELSE {})
        /\ q.pc # "accounts" => AccountsOf(q) \subseteq q.held
        /\ q.pc = "check" => Check(q.check) \in Wants(q)
        /\ q.pc \in {"membership", "writing"} /\ q.op # "create check" => Check(q.check) \in q.held
        /\ q.pc = "membership" => Membership(q.user, q.org) \in Wants(q)
        /\ q.pc = "writing" => Membership(q.user, q.org) \in q.held
        /\ q.pc = "writing" /\ q.op # "create check" => q.todo = <<>>

MoveInPhase(q) ==
    q.op = "move check" /\ q.pc \in {"accounts", "source", "destination", "pages", "writing"} =>
        LET begun == AccountsOf(q) \cup {Check(q.check)} IN
        /\ begun \subseteq Wants(q)
        /\ Wants(q) \subseteq begun
              \cup (IF q.pc = "accounts" THEN {} ELSE {Membership(q.user, q.org)})
              \cup (IF q.pc \in {"accounts", "source"} THEN {} ELSE {Membership(q.user, q.dest)})
              \cup (IF q.pc \in {"pages", "writing"} THEN {PagesOf(q.org)} ELSE {})
              \cup (IF q.pc = "writing" THEN {Page(g) : g \in Pages} \cup {Project(q.dest)} ELSE {})
        /\ q.pc # "accounts" => begun \subseteq q.held
        /\ q.pc = "source" => Membership(q.user, q.org) \in Wants(q)
        /\ q.pc \in {"destination", "pages", "writing"} => Membership(q.user, q.org) \in q.held
        /\ q.pc = "destination" => Membership(q.user, q.dest) \in Wants(q)
        /\ q.pc \in {"pages", "writing"} => Membership(q.user, q.dest) \in q.held
        /\ q.pc = "pages" => PagesOf(q.org) \in Wants(q)
        /\ q.pc = "writing" => PagesOf(q.org) \in q.held

PageInPhase(q) ==
    /\ q.op \in {"create page", "update page"} /\ q.pc = "coordinated" => Wants(q) = {PagesOf(q.org)}
    /\ q.op = "create page" /\ q.pc = "writing" => PagesOf(q.org) \in q.held /\ Wants(q) = {PagesOf(q.org), Project(q.org)}
    /\ q.op = "update page" /\ q.pc = "writing" => PagesOf(q.org) \in q.held /\ Wants(q) = {PagesOf(q.org), Page(q.page)}
    /\ q.op = "delete page" /\ q.pc = "writing" => Wants(q) = {Page(q.page)}

DeletionInPhase(q) ==
    q.op = "delete org" /\ q.pc \in {"accounts", "deciding", "writing"} =>
        /\ AccountsOf(q) \subseteq Wants(q)
        /\ q.pc = "accounts" => Wants(q) = AccountsOf(q)
        /\ q.pc # "accounts" => AccountsOf(q) \subseteq q.held
        /\ q.pc = "deciding" => Wants(q) \subseteq AccountsOf(q) \cup {Membership(q.user, o) : o \in Orgs}
        /\ q.pc = "writing" => Project(q.org) \in Wants(q) /\ Wants(q) \subseteq AccountsOf(q) \cup GoWithIt(q.org)
        /\ \A u \in Users, o \in Orgs : Membership(u, o) \in Wants(q) => u = q.user \/ o = q.org

\* Whoever is scoped is about the project of the scope.
InScope(q) ==
    q.pc \notin {"idle", "ended", "authenticating", "touching", "accepted"} =>
        /\ q.op \in CheckOps => requireCheckAccess(q, q.org)
        /\ q.op = "move check" => ~IsScoped(q)

RequestRight(q) ==
    /\ q \in Request /\ IsAbout(q) /\ LocksInOrder(q) /\ InPhase(q)
    /\ CheckInPhase(q) /\ MoveInPhase(q) /\ PageInPhase(q) /\ DeletionInPhase(q) /\ InScope(q)

-----------------------------------------------------------------------------
(* What a request has read is true still; the tables are parameters *)

AboutToken(q, tk) ==
    q.pc \in {"authenticating", "touching"} /\ tk[q.token].org # None => CredentialRows(q) \subseteq Wants(q)

TokenIsGood(q, rl, sp) ==
    q.pc = "touching" =>
        /\ q.user \notin sp /\ q.bound = TokenOf[q.token].org
        /\ q.bound # None => Membership(q.user, q.bound) \in q.held /\ rl[<<q.user, q.bound>>] # "none"

CheckIsAtHome(q, hm) ==
    \/ q.op \in {"edit check", "delete check"} /\ q.pc \in {"membership", "writing"}
    \/ q.op = "move check" /\ q.pc \in {"source", "destination", "pages", "writing"}
    => hm[q.check] = q.org

MayChange(q, rl) ==
    /\ q.op \in CheckOps /\ q.pc = "writing" => rl[<<q.user, q.org>>] # "none"
    /\ q.op = "move check" /\ q.pc \in {"destination", "pages", "writing"} => rl[<<q.user, q.org>>] = "OWNER"
    /\ q.op = "move check" /\ q.pc \in {"pages", "writing"} => rl[<<q.user, q.dest>>] = "OWNER"

IsNewStill(q, hm, pg) ==
    /\ q.op = "create check" => hm[q.check] = None
    /\ q.op = "create page" => pg[q.page].home = None

ListsItsOwn(q, hm) ==
    q.op \in {"create page", "update page"} /\ q.pc = "writing" => \A c \in q.lists : hm[c] \in {q.org, Gone}

WantsPages(q) == q.op \in {"update page", "move check", "delete org"} /\ \E g \in Pages : Page(g) \in Wants(q)

PagesAreOfIt(q, pg) ==
    q.op \in {"update page", "move check", "delete org"} =>
        \A g \in Pages : Page(g) \in Wants(q) => pg[g].home \in {q.org, Gone}

DeletesItsOwn(q, rl, hm, tk) ==
    q.op = "delete org" /\ q.pc = "writing" =>
        /\ \A u \in Users : rl[<<u, q.org>>] # "none" => Membership(u, q.org) \in Wants(q)
        /\ \A t \in Tokens : Token(t) \in Wants(q) => tk[t].org = q.org
        /\ \A c \in Checks : Check(c) \in Wants(q) => hm[c] = q.org

StillTrue(q, rl, hm, pg, tk, sp) ==
    /\ AboutToken(q, tk) /\ TokenIsGood(q, rl, sp) /\ CheckIsAtHome(q, hm) /\ MayChange(q, rl)
    /\ IsNewStill(q, hm, pg) /\ ListsItsOwn(q, hm) /\ PagesAreOfIt(q, pg) /\ DeletesItsOwn(q, rl, hm, tk)

\* Two requests hold different rows, make different things, and are about the
\* same organization if they want the same page.
Apart(q, p) ==
    /\ q.held \cap p.held = {}
    /\ q.op = "create check" => p.check # q.check
    /\ q.op = "create page" => p.page # q.page
    /\ \A g \in Pages :
          /\ Page(g) \in Wants(q) /\ q.op \in {"update page", "move check", "delete org"}
          /\ Page(g) \in Wants(p) /\ p.op \in {"update page", "move check", "delete org"}
          => q.org = p.org

TablesRight ==
    /\ role \in [Users \X Orgs -> {"none", "MEMBER", "OWNER"}]
    /\ live \subseteq Orgs /\ suspended \subseteq Users
    /\ home \in [Checks -> Orgs \cup {None, Gone}]
    /\ page \in [Pages -> [home : Orgs \cup {None, Gone}, lists : SUBSET Checks]]
    /\ token \in [Tokens -> [org : Orgs \cup {None}, ended : BOOLEAN]]
    /\ changes \in 0 .. MaxChanges
    /\ \A u \in Users, o \in Orgs : role[<<u, o>>] # "none" => o \in live
    /\ \A t \in Tokens : token[t].org \in {TokenOf[t].org, None}
    /\ \A g \in Pages : page[g].home \in {None, Gone} => page[g].lists = {}
    /\ PagesListTheirOwn

AccessRight ==
    /\ TablesRight
    /\ req \in [Requests -> Request]
    /\ \A r \in Requests : RequestRight(req[r]) /\ StillTrue(req[r], role, home, page, token, suspended)
    /\ \A r, s \in Requests : r # s => Apart(req[r], req[s])

-----------------------------------------------------------------------------
(* Rows, and sequences of rows *)

LEMMA AccountIs == \A u : Account(u)[1] = "account" /\ Account(u)[2] = u
BY DEF Account

LEMMA MembershipIs == \A u, o : Membership(u, o)[1] = "membership" /\ Membership(u, o)[2] = u /\ Membership(u, o)[3] = o
BY DEF Membership

LEMMA ProjectIs == \A o : Project(o)[1] = "project" /\ Project(o)[2] = o
BY DEF Project

LEMMA TokenIs == \A t : Token(t)[1] = "token" /\ Token(t)[2] = t
BY DEF Token

LEMMA CheckIs == \A c : Check(c)[1] = "check" /\ Check(c)[2] = c
BY DEF Check

LEMMA PagesOfIs == \A o : PagesOf(o)[1] = "pages of" /\ PagesOf(o)[2] = o
BY DEF PagesOf

LEMMA PageIs == \A g : Page(g)[1] = "page" /\ Page(g)[2] = g
BY DEF Page

LEMMA RowsAre ==
    /\ \A u \in Users : Account(u) \in Rows
    /\ \A u \in Users, o \in Orgs : Membership(u, o) \in Rows
    /\ \A o \in Orgs : Project(o) \in Rows /\ PagesOf(o) \in Rows
    /\ \A t \in Tokens : Token(t) \in Rows
    /\ \A c \in Checks : Check(c) \in Rows
    /\ \A g \in Pages : Page(g) \in Rows
BY DEF Rows

LEMMA ElementsMove ==
    ASSUME NEW s \in Seq(Rows), s # <<>>
    PROVE  /\ Head(s) \in Rows /\ Tail(s) \in Seq(Rows)
           /\ Elements(s) = {Head(s)} \cup Elements(Tail(s))
           /\ \A i, j \in DOMAIN Tail(s) : i < j =>
                 /\ i + 1 \in DOMAIN s /\ j + 1 \in DOMAIN s
                 /\ Tail(s)[i] = s[i + 1] /\ Tail(s)[j] = s[j + 1]
           /\ \A l \in Elements(Tail(s)) : \E i \in DOMAIN s : 1 < i /\ s[i] = l
           /\ 1 \in DOMAIN s /\ Head(s) = s[1]
<1>1. Len(s) \in Nat /\ Len(s) # 0 /\ DOMAIN s = 1 .. Len(s) /\ Head(s) = s[1] /\ \A i \in 1 .. Len(s) : s[i] \in Rows
  BY HeadTailProperties, EmptySeq, LenProperties
<1>2. Tail(s) \in Seq(Rows) /\ Len(Tail(s)) = Len(s) - 1 /\ DOMAIN Tail(s) = 1 .. Len(s) - 1
      /\ \A i \in 1 .. Len(s) - 1 : Tail(s)[i] = s[i + 1]
  BY <1>1, HeadTailProperties, LenProperties
<1>3. Elements(s) \subseteq {Head(s)} \cup Elements(Tail(s))
  <2> SUFFICES ASSUME NEW i \in 1 .. Len(s) PROVE s[i] \in {Head(s)} \cup Elements(Tail(s))
    BY <1>1 DEF Elements
  <2>1. CASE i = 1
    BY <1>1, <2>1
  <2>2. CASE i # 1
    <3>1. i - 1 \in DOMAIN Tail(s) /\ Tail(s)[i - 1] = s[i]
      BY <1>1, <1>2, <2>2
    <3> QED BY <3>1 DEF Elements
  <2> QED BY <2>1, <2>2
<1>4. \A l \in Elements(Tail(s)) : \E i \in DOMAIN s : 1 < i /\ s[i] = l
  <2> SUFFICES ASSUME NEW k \in DOMAIN Tail(s) PROVE \E i \in DOMAIN s : 1 < i /\ s[i] = Tail(s)[k]
    BY DEF Elements
  <2>1. k + 1 \in DOMAIN s /\ 1 < k + 1 /\ s[k + 1] = Tail(s)[k]
    BY <1>1, <1>2
  <2> QED BY <2>1
<1>5. Elements(Tail(s)) \subseteq Elements(s) /\ Head(s) \in Elements(s)
  BY <1>1, <1>4 DEF Elements
<1>6. \A i, j \in DOMAIN Tail(s) : i < j =>
                 /\ i + 1 \in DOMAIN s /\ j + 1 \in DOMAIN s
                 /\ Tail(s)[i] = s[i + 1] /\ Tail(s)[j] = s[j + 1]
  BY <1>1, <1>2
<1> QED BY <1>1, <1>2, <1>3, <1>4, <1>5, <1>6

LEMMA ElementsOfFew ==
    /\ Elements(<<>>) = {} /\ <<>> \in Seq(Rows)
    /\ \A l \in Rows : <<l>> \in Seq(Rows) /\ Elements(<<l>>) = {l}
<1>1. Elements(<<>>) = {} /\ <<>> \in Seq(Rows)
  BY DEF Elements
<1>2. ASSUME NEW l \in Rows PROVE <<l>> \in Seq(Rows) /\ Elements(<<l>>) = {l}
  <2>1. <<l>> \in Seq(Rows) /\ DOMAIN <<l>> = {1} /\ <<l>>[1] = l
    BY <1>2
  <2> QED BY <2>1 DEF Elements
<1> QED BY <1>1, <1>2

LEMMA ElementsOfBoth ==
    ASSUME NEW s \in Seq(Rows), NEW t \in Seq(Rows)
    PROVE  /\ s \o t \in Seq(Rows)
           /\ Elements(s \o t) = Elements(s) \cup Elements(t)
           /\ \A i, j \in DOMAIN (s \o t) : i < j =>
                 \/ i \in DOMAIN s /\ j \in DOMAIN s /\ (s \o t)[i] = s[i] /\ (s \o t)[j] = s[j]
                 \/ (s \o t)[i] \in Elements(s) /\ (s \o t)[j] \in Elements(t)
                 \/ \E k, m \in DOMAIN t : k < m /\ (s \o t)[i] = t[k] /\ (s \o t)[j] = t[m]
<1>1. /\ s \o t \in Seq(Rows) /\ DOMAIN (s \o t) = 1 .. Len(s) + Len(t)
      /\ \A i \in 1 .. Len(s) + Len(t) : (s \o t)[i] = IF i <= Len(s) THEN s[i] ELSE t[i - Len(s)]
      /\ DOMAIN s = 1 .. Len(s) /\ DOMAIN t = 1 .. Len(t) /\ Len(s) \in Nat /\ Len(t) \in Nat
  BY ConcatProperties, LenProperties
<1>2. ASSUME NEW i \in 1 .. Len(s) + Len(t)
      PROVE  \/ i \in DOMAIN s /\ (s \o t)[i] = s[i]
             \/ i - Len(s) \in DOMAIN t /\ (s \o t)[i] = t[i - Len(s)] /\ i > Len(s)
  BY <1>1
<1>3. Elements(s \o t) \subseteq Elements(s) \cup Elements(t)
  BY <1>1, <1>2 DEF Elements
<1>4. Elements(s) \subseteq Elements(s \o t)
  BY <1>1 DEF Elements
<1>5. ASSUME NEW k \in DOMAIN t PROVE t[k] \in Elements(s \o t)
  <2>1. k + Len(s) \in 1 .. Len(s) + Len(t) /\ (s \o t)[k + Len(s)] = t[k]
    BY <1>1
  <2> QED BY <1>1, <2>1 DEF Elements
<1>6. ASSUME NEW i \in DOMAIN (s \o t), NEW j \in DOMAIN (s \o t), i < j
      PROVE  \/ i \in DOMAIN s /\ j \in DOMAIN s /\ (s \o t)[i] = s[i] /\ (s \o t)[j] = s[j]
             \/ (s \o t)[i] \in Elements(s) /\ (s \o t)[j] \in Elements(t)
             \/ \E k, m \in DOMAIN t : k < m /\ (s \o t)[i] = t[k] /\ (s \o t)[j] = t[m]
  <2>1. CASE j <= Len(s)
    BY <1>1, <1>6, <2>1
  <2>2. CASE i <= Len(s) /\ j > Len(s)
    BY <1>1, <1>2, <1>6, <2>2 DEF Elements
  <2>3. CASE i > Len(s)
    <3>1. i - Len(s) \in DOMAIN t /\ j - Len(s) \in DOMAIN t /\ i - Len(s) < j - Len(s)
          /\ (s \o t)[i] = t[i - Len(s)] /\ (s \o t)[j] = t[j - Len(s)]
      BY <1>1, <1>6, <2>3
    <3> QED BY <3>1
  <2> QED BY <1>1, <2>1, <2>2, <2>3
<1>7. Elements(t) \subseteq Elements(s \o t)
  BY <1>5 DEF Elements
<1> QED BY <1>1, <1>3, <1>4, <1>6, <1>7

-----------------------------------------------------------------------------
(* Orders of a set *)

LEMMA OrdersAre ==
    ASSUME NEW S, IsFiniteSet(S)
    PROVE  /\ Cardinality(S) \in Nat
           /\ \E f : f \in Orders(S)
           /\ \A f \in Orders(S) :
                 /\ DOMAIN f = 1 .. Cardinality(S)
                 /\ \A i \in DOMAIN f : f[i] \in S
                 /\ \A x \in S : \E i \in DOMAIN f : f[i] = x
<1>1. Cardinality(S) \in Nat /\ ExistsBijection(1 .. Cardinality(S), S)
  BY FS_CardinalityType
<1>2. PICK f : f \in Bijection(1 .. Cardinality(S), S)
  BY <1>1 DEF ExistsBijection
<1>3. f \in Orders(S)
  BY <1>2 DEF Bijection, Injection, IsInjective, Orders
<1>4. ASSUME NEW g \in Orders(S)
      PROVE  /\ DOMAIN g = 1 .. Cardinality(S)
             /\ \A i \in DOMAIN g : g[i] \in S
             /\ \A x \in S : \E i \in DOMAIN g : g[i] = x
  <2>1. g \in Injection(1 .. Cardinality(S), S)
    BY <1>4 DEF Orders, Injection, IsInjective
  <2>2. IsFiniteSet(1 .. Cardinality(S)) /\ Cardinality(1 .. Cardinality(S)) = Cardinality(S)
    BY <1>1, FS_Interval
  <2>3. g \in Surjection(1 .. Cardinality(S), S)
    BY <2>1, <2>2, FS_Injection
  <2> QED BY <2>1, <2>3 DEF Injection, Surjection
<1> QED BY <1>1, <1>3, <1>4

LEMMA RowsInSequence ==
    ASSUME NEW n \in Nat, NEW f \in [1 .. n -> Rows]
    PROVE  f \in Seq(Rows) /\ DOMAIN f = 1 .. n
OBVIOUS

\* Accounts are locked in ascending order.
LEMMA AccountsAscend ==
    ASSUME NEW a \in Users, NEW b \in Users
    PROVE  /\ AccountsInOrder({a, b}) \in Seq(Rows)
           /\ Elements(AccountsInOrder({a, b})) = {Account(a), Account(b)}
           /\ \A i, j \in DOMAIN AccountsInOrder({a, b}) : i < j =>
                 AccountsInOrder({a, b})[i][2] <= AccountsInOrder({a, b})[j][2]
<1> DEFINE S == {a, b}
           low == IF a <= b THEN a ELSE b
           high == IF a <= b THEN b ELSE a
           f == Sorted(S)
<1>1. a \in Nat /\ b \in Nat
  BY AccessAssumption
<1>2. IsFiniteSet(S) /\ Cardinality(S) = (IF a = b THEN 1 ELSE 2)
  <2>1. IsFiniteSet({a}) /\ Cardinality({a}) = 1 /\ S = {a} \cup {b}
    BY FS_Singleton
  <2> QED BY <2>1, FS_AddElement
<1>3. \E g \in Orders(S) : \A i, j \in DOMAIN g : i <= j => g[i] <= g[j]
  <2>1. CASE a = b
    <3> DEFINE g == [i \in 1 .. 1 |-> a]
    <3>1. g \in Orders(S)
      BY <1>2, <2>1 DEF Orders
    <3> QED BY <1>1, <3>1
  <2>2. CASE a # b
    <3> DEFINE g == [i \in 1 .. 2 |-> IF i = 1 THEN low ELSE high]
    <3>1. g \in Orders(S)
      BY <1>1, <1>2, <2>2 DEF Orders
    <3>2. \A i, j \in DOMAIN g : i <= j => g[i] <= g[j]
      BY <1>1
    <3> QED BY <3>1, <3>2
  <2> QED BY <2>1, <2>2
<1>4. f \in Orders(S) /\ \A i, j \in DOMAIN f : i <= j => f[i] <= f[j]
  BY <1>3, Zenon DEF Sorted
<1> HIDE DEF f
<1>5. /\ Cardinality(S) \in Nat /\ DOMAIN f = 1 .. Cardinality(S)
      /\ \A i \in DOMAIN f : f[i] \in S
      /\ \A x \in S : \E i \in DOMAIN f : f[i] = x
  BY <1>2, <1>4, OrdersAre
<1> DEFINE inTurn == [i \in DOMAIN f |-> Account(f[i])]
<1>6. AccountsInOrder({a, b}) = inTurn
  BY DEF AccountsInOrder, f
<1>7. \A i \in DOMAIN f : Account(f[i]) \in Rows
  <2>1. \A i \in DOMAIN f : f[i] \in Users
    BY <1>5
  <2> QED BY <2>1 DEF Rows
<1>8. inTurn \in [1 .. Cardinality(S) -> Rows]
  BY <1>5, <1>7
<1>9. inTurn \in Seq(Rows) /\ DOMAIN inTurn = DOMAIN f
  BY <1>5, <1>8, RowsInSequence
<1>10. Elements(inTurn) = {Account(a), Account(b)}
  BY <1>5 DEF Elements
<1>11. \A i \in DOMAIN f : inTurn[i][2] = f[i]
  BY DEF Account
<1>12. \A i, j \in DOMAIN inTurn : i < j => inTurn[i][2] <= inTurn[j][2]
  <2>1. \A i, j \in DOMAIN f : i < j => f[i] <= f[j]
    <3> SUFFICES ASSUME NEW i \in DOMAIN f, NEW j \in DOMAIN f, i < j PROVE f[i] <= f[j]
      OBVIOUS
    <3>1. i \in Nat /\ j \in Nat
      BY <1>5
    <3>2. i <= j
      BY <3>1
    <3> QED BY <1>4, <3>2
  <2> HIDE DEF inTurn
  <2> QED BY <2>1, <1>9, <1>11
<1> HIDE DEF inTurn
<1> QED BY <1>6, <1>9, <1>10, <1>12

\* What Orders gives, as rows.
LEMMA MembershipsInAnyOrder ==
    ASSUME NEW u \in Users, NEW S \in SUBSET Orgs, NEW f \in Orders(S)
    PROVE  LET inTurn == [i \in DOMAIN f |-> Membership(u, f[i])] IN
           inTurn \in Seq(Rows) /\ Elements(inTurn) = {Membership(u, o) : o \in S}
<1>1. IsFiniteSet(S)
  BY AccessAssumption, FS_Subset
<1>2. /\ Cardinality(S) \in Nat /\ DOMAIN f = 1 .. Cardinality(S)
      /\ \A i \in DOMAIN f : f[i] \in S
      /\ \A x \in S : \E i \in DOMAIN f : f[i] = x
  BY <1>1, OrdersAre
<1> DEFINE inTurn == [i \in DOMAIN f |-> Membership(u, f[i])]
<1>3. inTurn \in [1 .. Cardinality(S) -> Rows]
  BY <1>2 DEF Rows
<1>4. inTurn \in Seq(Rows)
  BY <1>2, <1>3, RowsInSequence
<1>5. Elements(inTurn) = {Membership(u, o) : o \in S}
  BY <1>2 DEF Elements
<1> QED BY <1>4, <1>5

LEMMA PagesInAnyOrder ==
    ASSUME NEW S \in SUBSET Pages, NEW f \in Orders(S)
    PROVE  LET inTurn == [i \in DOMAIN f |-> Page(f[i])] IN
           inTurn \in Seq(Rows) /\ Elements(inTurn) = {Page(g) : g \in S}
<1>1. IsFiniteSet(S)
  BY AccessAssumption, FS_Subset
<1>2. /\ Cardinality(S) \in Nat /\ DOMAIN f = 1 .. Cardinality(S)
      /\ \A i \in DOMAIN f : f[i] \in S
      /\ \A x \in S : \E i \in DOMAIN f : f[i] = x
  BY <1>1, OrdersAre
<1> DEFINE inTurn == [i \in DOMAIN f |-> Page(f[i])]
<1>3. inTurn \in [1 .. Cardinality(S) -> Rows]
  BY <1>2 DEF Rows
<1>4. inTurn \in Seq(Rows)
  BY <1>2, <1>3, RowsInSequence
<1>5. Elements(inTurn) = {Page(g) : g \in S}
  BY <1>2 DEF Elements
<1> QED BY <1>4, <1>5

-----------------------------------------------------------------------------
(* The rows that go with an organization *)

\* These rows, in some order.
AreRows(inTurn, S) == inTurn \in Seq(Rows) /\ Elements(inTurn) = S

LEMMA EachIs ==
    ASSUME NEW S, IsFiniteSet(S)
    PROVE  LET order == CHOOSE f \in Orders(S) : TRUE IN
           /\ Cardinality(S) \in Nat /\ DOMAIN order = 1 .. Cardinality(S)
           /\ \A i \in DOMAIN order : order[i] \in S
           /\ \A x \in S : \E i \in DOMAIN order : order[i] = x
<1> DEFINE order == CHOOSE f \in Orders(S) : TRUE
<1>1. order \in Orders(S)
  BY OrdersAre
<1> HIDE DEF order
<1>2. /\ Cardinality(S) \in Nat /\ DOMAIN order = 1 .. Cardinality(S)
      /\ \A i \in DOMAIN order : order[i] \in S
      /\ \A x \in S : \E i \in DOMAIN order : order[i] = x
  BY <1>1, OrdersAre
<1> QED BY <1>2 DEF order

LEMMA EachMembership ==
    ASSUME NEW o \in Orgs, NEW S \in SUBSET Users
    PROVE  AreRows(Each(S, LAMBDA u : Membership(u, o)), {Membership(u, o) : u \in S})
<1> DEFINE order == CHOOSE f \in Orders(S) : TRUE
           inTurn == [i \in DOMAIN order |-> Membership(order[i], o)]
<1>1. IsFiniteSet(S)
  BY AccessAssumption, FS_Subset
<1>2. /\ Cardinality(S) \in Nat /\ DOMAIN order = 1 .. Cardinality(S)
      /\ \A i \in DOMAIN order : order[i] \in S
      /\ \A x \in S : \E i \in DOMAIN order : order[i] = x
  BY <1>1, EachIs
<1>3. Each(S, LAMBDA u : Membership(u, o)) = inTurn
  BY DEF Each
<1> HIDE DEF order
<1>4. inTurn \in [1 .. Cardinality(S) -> Rows]
  BY <1>2 DEF Rows
<1>5. inTurn \in Seq(Rows)
  BY <1>2, <1>4, RowsInSequence
<1>6. Elements(inTurn) = {Membership(u, o) : u \in S}
  BY <1>2 DEF Elements
<1> HIDE DEF inTurn
<1> QED BY <1>3, <1>5, <1>6 DEF AreRows
LEMMA EachToken ==
    ASSUME NEW S \in SUBSET Tokens
    PROVE  AreRows(Each(S, Token), {Token(x) : x \in S})
<1> DEFINE order == CHOOSE f \in Orders(S) : TRUE
           inTurn == [i \in DOMAIN order |-> Token(order[i])]
<1>1. IsFiniteSet(S)
  BY AccessAssumption, FS_Subset
<1>2. /\ Cardinality(S) \in Nat /\ DOMAIN order = 1 .. Cardinality(S)
      /\ \A i \in DOMAIN order : order[i] \in S
      /\ \A x \in S : \E i \in DOMAIN order : order[i] = x
  BY <1>1, EachIs
<1>3. Each(S, Token) = inTurn
  BY DEF Each
<1> HIDE DEF order
<1>4. inTurn \in [1 .. Cardinality(S) -> Rows]
  BY <1>2 DEF Rows
<1>5. inTurn \in Seq(Rows)
  BY <1>2, <1>4, RowsInSequence
<1>6. Elements(inTurn) = {Token(x) : x \in S}
  BY <1>2 DEF Elements
<1> HIDE DEF inTurn
<1> QED BY <1>3, <1>5, <1>6 DEF AreRows
LEMMA EachCheck ==
    ASSUME NEW S \in SUBSET Checks
    PROVE  AreRows(Each(S, Check), {Check(x) : x \in S})
<1> DEFINE order == CHOOSE f \in Orders(S) : TRUE
           inTurn == [i \in DOMAIN order |-> Check(order[i])]
<1>1. IsFiniteSet(S)
  BY AccessAssumption, FS_Subset
<1>2. /\ Cardinality(S) \in Nat /\ DOMAIN order = 1 .. Cardinality(S)
      /\ \A i \in DOMAIN order : order[i] \in S
      /\ \A x \in S : \E i \in DOMAIN order : order[i] = x
  BY <1>1, EachIs
<1>3. Each(S, Check) = inTurn
  BY DEF Each
<1> HIDE DEF order
<1>4. inTurn \in [1 .. Cardinality(S) -> Rows]
  BY <1>2 DEF Rows
<1>5. inTurn \in Seq(Rows)
  BY <1>2, <1>4, RowsInSequence
<1>6. Elements(inTurn) = {Check(x) : x \in S}
  BY <1>2 DEF Elements
<1> HIDE DEF inTurn
<1> QED BY <1>3, <1>5, <1>6 DEF AreRows
LEMMA EachPage ==
    ASSUME NEW S \in SUBSET Pages
    PROVE  AreRows(Each(S, Page), {Page(x) : x \in S})
<1> DEFINE order == CHOOSE f \in Orders(S) : TRUE
           inTurn == [i \in DOMAIN order |-> Page(order[i])]
<1>1. IsFiniteSet(S)
  BY AccessAssumption, FS_Subset
<1>2. /\ Cardinality(S) \in Nat /\ DOMAIN order = 1 .. Cardinality(S)
      /\ \A i \in DOMAIN order : order[i] \in S
      /\ \A x \in S : \E i \in DOMAIN order : order[i] = x
  BY <1>1, EachIs
<1>3. Each(S, Page) = inTurn
  BY DEF Each
<1> HIDE DEF order
<1>4. inTurn \in [1 .. Cardinality(S) -> Rows]
  BY <1>2 DEF Rows
<1>5. inTurn \in Seq(Rows)
  BY <1>2, <1>4, RowsInSequence
<1>6. Elements(inTurn) = {Page(x) : x \in S}
  BY <1>2 DEF Elements
<1> HIDE DEF inTurn
<1> QED BY <1>3, <1>5, <1>6 DEF AreRows

LEMMA LevelsAre ==
    /\ \A l : LevelOf(l) \in 1 .. 7
    /\ \A u : LevelOf(Account(u)) = 1
    /\ \A c : LevelOf(Check(c)) = 2
    /\ \A u, o : LevelOf(Membership(u, o)) = 3
    /\ \A o : LevelOf(PagesOf(o)) = 4
    /\ \A g : LevelOf(Page(g)) = 5
    /\ \A o : LevelOf(Project(o)) = 6
    /\ \A t : LevelOf(Token(t)) = 7
<1>1. \A l : LevelOf(l) \in 1 .. 7
  BY DEF LevelOf
<1>2. \A u : LevelOf(Account(u)) = 1
  BY AccountIs DEF LevelOf
<1>3. \A c : LevelOf(Check(c)) = 2
  BY CheckIs DEF LevelOf
<1>4. \A u, o : LevelOf(Membership(u, o)) = 3
  <2> TAKE u, o
  <2>1. Membership(u, o)[1] = "membership"
    BY MembershipIs
  <2> QED BY <2>1 DEF LevelOf
<1>5. \A o : LevelOf(PagesOf(o)) = 4
  BY PagesOfIs DEF LevelOf
<1>6. \A g : LevelOf(Page(g)) = 5
  BY PageIs DEF LevelOf
<1>7. \A o : LevelOf(Project(o)) = 6
  BY ProjectIs DEF LevelOf
<1>8. \A t : LevelOf(Token(t)) = 7
  BY TokenIs DEF LevelOf
<1> QED BY <1>1, <1>2, <1>3, <1>4, <1>5, <1>6, <1>7, <1>8

LEMMA DeletionLevelsAre ==
    /\ \A l : DeletionLevelOf(l) \in 1 .. 6
    /\ \A u : DeletionLevelOf(Account(u)) = 1
    /\ \A u, o : DeletionLevelOf(Membership(u, o)) = 2
    /\ \A o : DeletionLevelOf(Project(o)) = 3
    /\ \A t : DeletionLevelOf(Token(t)) = 4
    /\ \A c : DeletionLevelOf(Check(c)) = 5
    /\ \A g : DeletionLevelOf(Page(g)) = 6
<1>1. \A l : DeletionLevelOf(l) \in 1 .. 6
  BY DEF DeletionLevelOf
<1>2. \A u : DeletionLevelOf(Account(u)) = 1
  BY AccountIs DEF DeletionLevelOf
<1>3. \A u, o : DeletionLevelOf(Membership(u, o)) = 2
  <2> TAKE u, o
  <2>1. Membership(u, o)[1] = "membership"
    BY MembershipIs
  <2> QED BY <2>1 DEF DeletionLevelOf
<1>4. \A o : DeletionLevelOf(Project(o)) = 3
  BY ProjectIs DEF DeletionLevelOf
<1>5. \A t : DeletionLevelOf(Token(t)) = 4
  BY TokenIs DEF DeletionLevelOf
<1>6. \A c : DeletionLevelOf(Check(c)) = 5
  BY CheckIs DEF DeletionLevelOf
<1>7. \A g : DeletionLevelOf(Page(g)) = 6
  BY PageIs DEF DeletionLevelOf
<1> QED BY <1>1, <1>2, <1>3, <1>4, <1>5, <1>6, <1>7

LEMMA LevelIs ==
    ASSUME NEW q
    PROVE  /\ \A l : Level(q, l) \in 1 .. 7
           /\ Deletes(q) => \A l : Level(q, l) = DeletionLevelOf(l)
           /\ ~Deletes(q) => \A l : Level(q, l) = LevelOf(l)
<1>1. \A l : LevelOf(l) \in 1 .. 7 /\ DeletionLevelOf(l) \in 1 .. 7
  BY LevelsAre, DeletionLevelsAre
<1> QED BY <1>1 DEF Level

\* Rows of different levels, or of the same and not accounts.
LEMMA DeletionLevels ==
    ASSUME NEW q, Deletes(q)
    PROVE  /\ \A u : Level(q, Account(u)) = 1
           /\ \A u, o : Level(q, Membership(u, o)) = 2
           /\ \A o : Level(q, Project(o)) = 3
           /\ \A t : Level(q, Token(t)) = 4
           /\ \A c : Level(q, Check(c)) = 5
           /\ \A g : Level(q, Page(g)) = 6
BY DeletionLevelsAre DEF Level

LEMMA OtherLevels ==
    ASSUME NEW q, ~Deletes(q)
    PROVE  /\ \A u : Level(q, Account(u)) = 1
           /\ \A c : Level(q, Check(c)) = 2
           /\ \A u, o : Level(q, Membership(u, o)) = 3
           /\ \A o : Level(q, PagesOf(o)) = 4
           /\ \A g : Level(q, Page(g)) = 5
           /\ \A o : Level(q, Project(o)) = 6
           /\ \A t : Level(q, Token(t)) = 7
BY LevelsAre DEF Level

LEMMA LevelRange == ASSUME NEW q PROVE \A l : Level(q, l) \in 1 .. 7
BY LevelIs

LEMMA NotAfterIs ==
    ASSUME NEW q
    PROVE  /\ \A k, l : Level(q, k) < Level(q, l) => NotAfter(q, k, l)
           /\ \A k, l : Level(q, k) <= Level(q, l) /\ l[1] # "account" => NotAfter(q, k, l)
           /\ \A u, v : NotAfter(q, Account(u), Account(v)) <=> u <= v
<1>1. \A k, l : Level(q, k) < Level(q, l) => NotAfter(q, k, l)
  <2> SUFFICES ASSUME NEW k, NEW l, Level(q, k) < Level(q, l) PROVE NotAfter(q, k, l)
    OBVIOUS
  <2>1. Level(q, k) \in 1 .. 7 /\ Level(q, l) \in 1 .. 7
    BY LevelRange
  <2>2. l[1] = "account" => Level(q, l) = 1
    BY DEF Level, LevelOf, DeletionLevelOf
  <2> QED BY <2>1, <2>2 DEF NotAfter
<1>2. \A k, l : Level(q, k) <= Level(q, l) /\ l[1] # "account" => NotAfter(q, k, l)
  BY DEF NotAfter
<1>3. \A u, v : NotAfter(q, Account(u), Account(v)) <=> u <= v
  <2> SUFFICES ASSUME NEW u, NEW v PROVE NotAfter(q, Account(u), Account(v)) <=> u <= v
    OBVIOUS
  <2>1. Level(q, Account(u)) = 1 /\ Level(q, Account(v)) = 1
    BY LevelIs, LevelsAre, DeletionLevelsAre
  <2>2. Account(u)[1] = "account" /\ Account(v)[1] = "account" /\ Account(u)[2] = u /\ Account(v)[2] = v
    BY AccountIs
  <2> QED BY <2>1, <2>2 DEF NotAfter
<1> QED BY <1>1, <1>2, <1>3

LEMMA BeforeByLevel ==
    ASSUME NEW q, NEW K, NEW L, NEW n \in Nat,
           \A k \in K : Level(q, k) <= n, \A l \in L : Level(q, l) > n
    PROVE  Before(q, K, L)
<1> SUFFICES ASSUME NEW k \in K, NEW l \in L PROVE NotAfter(q, k, l)
  BY DEF Before
<1>1. Level(q, k) <= n /\ Level(q, l) > n /\ Level(q, k) \in Nat /\ Level(q, l) \in Nat
  BY LevelRange
<1>2. Level(q, k) < Level(q, l)
  BY <1>1
<1> QED BY <1>2, NotAfterIs

LEMMA AscendsFew ==
    ASSUME NEW q
    PROVE  /\ Ascends(q, <<>>)
           /\ \A l : Ascends(q, <<l>>)
BY DEF Ascends

LEMMA AscendsBoth ==
    ASSUME NEW q, NEW s \in Seq(Rows), NEW t \in Seq(Rows), Ascends(q, s), Ascends(q, t),
           Before(q, Elements(s), Elements(t))
    PROVE  Ascends(q, s \o t)
<1> DEFINE both == s \o t
<1>1. \A i, j \in DOMAIN both : i < j =>
                 \/ i \in DOMAIN s /\ j \in DOMAIN s /\ both[i] = s[i] /\ both[j] = s[j]
                 \/ both[i] \in Elements(s) /\ both[j] \in Elements(t)
                 \/ \E k, m \in DOMAIN t : k < m /\ both[i] = t[k] /\ both[j] = t[m]
  BY ElementsOfBoth
<1> HIDE DEF both
<1>2. ASSUME NEW i \in DOMAIN both, NEW j \in DOMAIN both, i < j PROVE NotAfter(q, both[i], both[j])
  BY <1>1, <1>2 DEF Ascends, Before
<1>3. Ascends(q, both)
  BY <1>2 DEF Ascends
<1> QED BY <1>3 DEF both

\* Rows of one level that are not accounts may come in any order.
LEMMA AscendsLevel ==
    ASSUME NEW q, NEW s, NEW n, \A l \in Elements(s) : Level(q, l) = n /\ l[1] # "account"
    PROVE  Ascends(q, s)
<1> SUFFICES ASSUME NEW i \in DOMAIN s, NEW j \in DOMAIN s, i < j PROVE NotAfter(q, s[i], s[j])
  BY DEF Ascends
<1>1. s[i] \in Elements(s) /\ s[j] \in Elements(s)
  BY DEF Elements
<1>2. Level(q, s[i]) = n /\ Level(q, s[j]) = n /\ s[j][1] # "account" /\ Level(q, s[i]) \in 1 .. 7
  BY <1>1, LevelRange
<1> QED BY <1>2, NotAfterIs

LEMMA AscendsAccounts ==
    ASSUME NEW q, NEW a \in Users, NEW b \in Users
    PROVE  Ascends(q, AccountsInOrder({a, b}))
<1> DEFINE s == AccountsInOrder({a, b})
<1>1. /\ Elements(s) = {Account(a), Account(b)}
      /\ \A i, j \in DOMAIN s : i < j => s[i][2] <= s[j][2]
  BY AccountsAscend
<1> HIDE DEF s
<1> SUFFICES ASSUME NEW i \in DOMAIN s, NEW j \in DOMAIN s, i < j PROVE NotAfter(q, s[i], s[j])
  BY DEF Ascends, s
<1>2. s[i] \in Elements(s) /\ s[j] \in Elements(s)
  BY DEF Elements
<1>3. PICK u, v : s[i] = Account(u) /\ s[j] = Account(v)
  BY <1>1, <1>2
<1>4. u <= v
  <2>1. s[i][2] <= s[j][2]
    BY <1>1
  <2>2. Account(u)[2] = u /\ Account(v)[2] = v
    BY AccountIs
  <2> QED BY <1>3, <2>1, <2>2
<1> QED BY <1>3, <1>4, NotAfterIs

\* What a deletion is going to lock: rows of the organization, by levels.
WhatGoes(o) ==
    {Membership(u, o) : u \in {v \in Users : IsMember(v, o)}} \cup {Project(o)}
    \cup {Token(t) : t \in {x \in Tokens : token[x].org = o}}
    \cup {Check(c) : c \in {x \in Checks : home[x] = o}} \cup {Page(g) : g \in PagesIn(o)}

LEMMA CascadeIs ==
    ASSUME NEW q, Deletes(q), NEW o \in Orgs
    PROVE  /\ Cascade(o) \in Seq(Rows)
           /\ Elements(Cascade(o)) = WhatGoes(o)
           /\ Ascends(q, Cascade(o))
<1> DEFINE U == {u \in Users : IsMember(u, o)}
           T == {t \in Tokens : token[t].org = o}
           C == {c \in Checks : home[c] = o}
           G == PagesIn(o)
           m == Each(U, LAMBDA u : Membership(u, o))
           p == <<Project(o)>>
           t == Each(T, Token)
           c == Each(C, Check)
           g == Each(G, Page)
<1>1. Cascade(o) = m \o p \o t \o c \o g
  BY DEF Cascade
<1>2. m \in Seq(Rows) /\ Elements(m) = {Membership(u, o) : u \in U}
  BY EachMembership DEF AreRows
<1>3. p \in Seq(Rows) /\ Elements(p) = {Project(o)}
  BY RowsAre, ElementsOfFew
<1>4. t \in Seq(Rows) /\ Elements(t) = {Token(x) : x \in T}
  BY EachToken DEF AreRows
<1>5. c \in Seq(Rows) /\ Elements(c) = {Check(x) : x \in C}
  BY EachCheck DEF AreRows
<1>6. g \in Seq(Rows) /\ Elements(g) = {Page(x) : x \in G}
  BY EachPage DEF AreRows, PagesIn
<1> HIDE DEF m, p, t, c, g
<1>7a. \A l \in Elements(m) : Level(q, l) = 2 /\ l[1] # "account"
  BY <1>2, DeletionLevels, MembershipIs
<1>7b. \A l \in Elements(p) : Level(q, l) = 3 /\ l[1] # "account"
  BY <1>3, DeletionLevels, ProjectIs
<1>7c. \A l \in Elements(t) : Level(q, l) = 4 /\ l[1] # "account"
  BY <1>4, DeletionLevels, TokenIs
<1>7d. \A l \in Elements(c) : Level(q, l) = 5 /\ l[1] # "account"
  BY <1>5, DeletionLevels, CheckIs
<1>7e. \A l \in Elements(g) : Level(q, l) = 6 /\ l[1] # "account"
  BY <1>6, DeletionLevels, PageIs
<1>8. Ascends(q, m) /\ Ascends(q, p) /\ Ascends(q, t) /\ Ascends(q, c) /\ Ascends(q, g)
  BY <1>7a, <1>7b, <1>7c, <1>7d, <1>7e, AscendsLevel
<1>9. /\ m \o p \in Seq(Rows) /\ Elements(m \o p) = Elements(m) \cup Elements(p)
      /\ Ascends(q, m \o p)
  <2>1. Before(q, Elements(m), Elements(p))
    <3>1. (\A k \in Elements(m) : Level(q, k) <= 2) /\ (\A l \in Elements(p) : Level(q, l) > 2)
      BY <1>7a, <1>7b
    <3> QED BY <3>1, BeforeByLevel
  <2> QED BY <1>2, <1>3, <1>8, <2>1, ElementsOfBoth, AscendsBoth
<1>10. /\ m \o p \o t \in Seq(Rows) /\ Elements(m \o p \o t) = Elements(m) \cup Elements(p) \cup Elements(t)
       /\ Ascends(q, m \o p \o t)
  <2>1. Before(q, Elements(m \o p), Elements(t))
    <3>1. (\A k \in Elements(m \o p) : Level(q, k) <= 3) /\ (\A l \in Elements(t) : Level(q, l) > 3)
      BY <1>7a, <1>7b, <1>7c, <1>9
    <3> QED BY <3>1, BeforeByLevel
  <2> QED BY <1>4, <1>8, <1>9, <2>1, ElementsOfBoth, AscendsBoth
<1>11. /\ m \o p \o t \o c \in Seq(Rows)
       /\ Elements(m \o p \o t \o c) = Elements(m) \cup Elements(p) \cup Elements(t) \cup Elements(c)
       /\ Ascends(q, m \o p \o t \o c)
  <2>1. Before(q, Elements(m \o p \o t), Elements(c))
    <3>1. (\A k \in Elements(m \o p \o t) : Level(q, k) <= 4) /\ (\A l \in Elements(c) : Level(q, l) > 4)
      BY <1>7a, <1>7b, <1>7c, <1>7d, <1>10
    <3> QED BY <3>1, BeforeByLevel
  <2> QED BY <1>5, <1>8, <1>10, <2>1, ElementsOfBoth, AscendsBoth
<1>12. /\ m \o p \o t \o c \o g \in Seq(Rows)
       /\ Elements(m \o p \o t \o c \o g) = Elements(m) \cup Elements(p) \cup Elements(t) \cup Elements(c) \cup Elements(g)
       /\ Ascends(q, m \o p \o t \o c \o g)
  <2>1. Before(q, Elements(m \o p \o t \o c), Elements(g))
    <3>1. (\A k \in Elements(m \o p \o t \o c) : Level(q, k) <= 5) /\ (\A l \in Elements(g) : Level(q, l) > 5)
      BY <1>7a, <1>7b, <1>7c, <1>7d, <1>7e, <1>11
    <3> QED BY <3>1, BeforeByLevel
  <2> QED BY <1>6, <1>8, <1>11, <2>1, ElementsOfBoth, AscendsBoth
<1> QED BY <1>1, <1>2, <1>3, <1>4, <1>5, <1>6, <1>12 DEF WhatGoes

-----------------------------------------------------------------------------
(* Requests that go on *)

LEMMA BeforeIs ==
    ASSUME NEW q, NEW K, NEW L, NEW n \in Nat,
           \A k \in K : Level(q, k) <= n, \A l \in L : Level(q, l) >= n /\ l[1] # "account"
    PROVE  Before(q, K, L)
<1> SUFFICES ASSUME NEW k \in K, NEW l \in L PROVE NotAfter(q, k, l)
  BY DEF Before
<1>1. Level(q, k) <= n /\ Level(q, l) >= n /\ Level(q, k) \in Nat /\ Level(q, l) \in Nat
  BY LevelRange
<1>2. Level(q, k) <= Level(q, l)
  BY <1>1
<1> QED BY <1>2, NotAfterIs

\* The request is about the same.
SameMatter(p, q) ==
    /\ p.op = q.op /\ p.user = q.user /\ p.token = q.token /\ p.dest = q.dest
    /\ p.check = q.check /\ p.page = q.page /\ p.lists = q.lists /\ p.bound = q.bound

\* On to the next statements.
Onward(q, pc, todo) == [q EXCEPT !.pc = pc, !.todo = todo]

LEMMA GoingOn ==
    ASSUME NEW q \in Request, NEW pc \in Pcs, NEW todo \in Seq(Rows)
    PROVE  LET p == Onward(q, pc, todo) IN
           /\ p \in Request /\ p.pc = pc /\ p.todo = todo /\ p.held = q.held /\ p.org = q.org /\ p.tries = q.tries
           /\ SameMatter(p, q)
<1> DEFINE p == Onward(q, pc, todo)
<1>1. p \in Request
  BY Zenon DEF Request, Onward
<1>2. p.pc = pc /\ p.todo = todo /\ p.held = q.held /\ p.org = q.org /\ p.tries = q.tries
  BY DEF Request, Onward
<1>3. SameMatter(p, q)
  BY DEF SameMatter, Request, Onward
<1> QED BY <1>1, <1>2, <1>3

\* The request is about the same, and it has the same rows.
IsOnward(p, q, o, pc, todo) ==
    /\ p \in Request /\ p.pc = pc /\ p.todo = todo /\ p.held = q.held /\ p.org = o /\ p.tries = q.tries
    /\ SameMatter(p, q)

LEMMA IsOnItsWay ==
    ASSUME NEW q \in Request, NEW pc \in Pcs, NEW todo \in Seq(Rows)
    PROVE  IsOnward(Onward(q, pc, todo), q, q.org, pc, todo)
<1> DEFINE p == Onward(q, pc, todo)
<1>1. /\ p \in Request /\ p.pc = pc /\ p.todo = todo /\ p.held = q.held /\ p.org = q.org /\ p.tries = q.tries
      /\ SameMatter(p, q)
  BY GoingOn
<1> HIDE DEF p
<1>2. IsOnward(p, q, q.org, pc, todo)
  BY <1>1 DEF IsOnward
<1> QED BY <1>2 DEF p

WithOrg(q, o) == [q EXCEPT !.org = o]

LEMMA WithOrgIs ==
    ASSUME NEW q \in Request, NEW o \in Orgs
    PROVE  LET p == WithOrg(q, o) IN
           /\ p \in Request /\ p.pc = q.pc /\ p.todo = q.todo /\ p.held = q.held /\ p.org = o /\ p.tries = q.tries
           /\ SameMatter(p, q)
<1> DEFINE p == WithOrg(q, o)
<1>1. p \in Request
  BY Zenon DEF Request, WithOrg
<1>2. p.pc = q.pc /\ p.todo = q.todo /\ p.held = q.held /\ p.org = o /\ p.tries = q.tries
  BY DEF Request, WithOrg
<1>3. SameMatter(p, q)
  BY DEF SameMatter, Request, WithOrg
<1> QED BY <1>1, <1>2, <1>3

OnwardWith(q, o, pc, todo) == Onward(WithOrg(q, o), pc, todo)

LEMMA GoingOnWithOrg ==
    ASSUME NEW q \in Request, NEW o \in Orgs, NEW pc \in Pcs, NEW todo \in Seq(Rows)
    PROVE  IsOnward(OnwardWith(q, o, pc, todo), q, o, pc, todo)
<1> DEFINE m == WithOrg(q, o)
           p == Onward(m, pc, todo)
<1>1. m \in Request /\ m.held = q.held /\ m.org = o /\ m.tries = q.tries /\ SameMatter(m, q)
  BY WithOrgIs
<1> HIDE DEF m
<1>2. /\ p \in Request /\ p.pc = pc /\ p.todo = todo /\ p.held = m.held /\ p.org = m.org /\ p.tries = m.tries
      /\ SameMatter(p, m)
  BY <1>1, GoingOn
<1> HIDE DEF p
<1>3. SameMatter(p, q)
  BY <1>1, <1>2, Zenon DEF SameMatter
<1>4. /\ p \in Request /\ p.pc = pc /\ p.todo = todo /\ p.held = q.held /\ p.org = o /\ p.tries = q.tries
      /\ SameMatter(p, q)
  BY <1>1, <1>2, <1>3
<1> QED BY <1>4 DEF p, m, OnwardWith, IsOnward

LEMMA LocksTheNext ==
    ASSUME NEW q \in Request, q.todo # <<>>, NEW p,
           p = [q EXCEPT !.held = @ \cup {Head(q.todo)}, !.todo = Tail(@)]
    PROVE  /\ p \in Request /\ p.pc = q.pc /\ p.todo = Tail(q.todo) /\ p.held = q.held \cup {Head(q.todo)}
           /\ p.org = q.org /\ p.tries = q.tries /\ SameMatter(p, q)
           /\ Wants(p) = Wants(q)
<1>1. q.todo \in Seq(Rows) /\ q.held \in SUBSET Rows
  BY DEF Request
<1>2. /\ Head(q.todo) \in Rows /\ Tail(q.todo) \in Seq(Rows)
      /\ Elements(q.todo) = {Head(q.todo)} \cup Elements(Tail(q.todo))
  BY <1>1, ElementsMove
<1>3. p = [q EXCEPT !.held = q.held \cup {Head(q.todo)}, !.todo = Tail(q.todo)]
  BY DEF Request
<1>4. q.held \cup {Head(q.todo)} \in SUBSET Rows
  BY <1>1, <1>2
<1>5. p \in Request
  BY <1>2, <1>3, <1>4, Zenon DEF Request
<1>6. /\ p.pc = q.pc /\ p.todo = Tail(q.todo) /\ p.held = q.held \cup {Head(q.todo)}
      /\ p.org = q.org /\ p.tries = q.tries
  BY <1>3 DEF Request
<1>7. SameMatter(p, q)
  BY <1>3 DEF SameMatter, Request
<1>8. Wants(p) = Wants(q)
  BY <1>2, <1>6 DEF Wants
<1> QED BY <1>5, <1>6, <1>7, <1>8

LEMMA SameOrder ==
    ASSUME NEW p, NEW q, p.op = q.op
    PROVE  \A k, l : NotAfter(p, k, l) <=> NotAfter(q, k, l)
<1>1. Deletes(p) <=> Deletes(q)
  BY DEF Deletes
<1>2. \A l : Level(p, l) = Level(q, l)
  BY <1>1, Zenon DEF Level
<1>3. ASSUME NEW k, NEW l PROVE NotAfter(p, k, l) <=> NotAfter(q, k, l)
  <2>1. Level(p, k) = Level(q, k) /\ Level(p, l) = Level(q, l)
    BY <1>2
  <2> QED BY <2>1, Zenon DEF NotAfter
<1> QED BY <1>3

\* A row that is locked in turn is locked in order.
LEMMA LocksInOrderOn ==
    ASSUME NEW q \in Request, q.todo # <<>>, LocksInOrder(q), NEW p, p.op = q.op,
           p.todo = Tail(q.todo), p.held = q.held \cup {Head(q.todo)}
    PROVE  LocksInOrder(p)
<1>1. q.todo \in Seq(Rows)
  BY DEF Request
<1>2. /\ Head(q.todo) \in Rows /\ Tail(q.todo) \in Seq(Rows)
      /\ Elements(q.todo) = {Head(q.todo)} \cup Elements(Tail(q.todo))
      /\ \A i, j \in DOMAIN Tail(q.todo) : i < j =>
            /\ i + 1 \in DOMAIN q.todo /\ j + 1 \in DOMAIN q.todo
            /\ Tail(q.todo)[i] = q.todo[i + 1] /\ Tail(q.todo)[j] = q.todo[j + 1]
      /\ \A l \in Elements(Tail(q.todo)) : \E i \in DOMAIN q.todo : 1 < i /\ q.todo[i] = l
      /\ 1 \in DOMAIN q.todo /\ Head(q.todo) = q.todo[1]
  BY <1>1, ElementsMove
<1>3. \A k, l : NotAfter(p, k, l) <=> NotAfter(q, k, l)
  BY SameOrder
<1>4. ASSUME NEW k \in p.held, NEW l \in Elements(p.todo) PROVE NotAfter(q, k, l)
  <2>1. l \in Elements(q.todo)
    BY <1>2
  <2>2. CASE k \in q.held
    BY <2>1, <2>2 DEF LocksInOrder, Before
  <2>3. CASE k = Head(q.todo)
    <3>1. PICK i \in DOMAIN q.todo : 1 < i /\ q.todo[i] = l
      BY <1>2
    <3> QED BY <1>2, <2>3, <3>1 DEF LocksInOrder, Ascends
  <2> QED BY <2>2, <2>3
<1>5. ASSUME NEW i \in DOMAIN p.todo, NEW j \in DOMAIN p.todo, i < j PROVE NotAfter(q, p.todo[i], p.todo[j])
  <2>1. /\ i + 1 \in DOMAIN q.todo /\ j + 1 \in DOMAIN q.todo
        /\ p.todo[i] = q.todo[i + 1] /\ p.todo[j] = q.todo[j + 1]
    BY <1>2, <1>5
  <2>2. DOMAIN p.todo = 1 .. Len(p.todo)
    BY <1>2, LenProperties
  <2>3. i + 1 < j + 1
    BY <1>5, <2>2
  <2> QED BY <2>1, <2>3 DEF LocksInOrder, Ascends
<1>6. Before(p, p.held, Elements(p.todo))
  BY <1>3, <1>4 DEF Before
<1>7. Ascends(p, p.todo)
  BY <1>3, <1>5 DEF Ascends
<1> QED BY <1>6, <1>7 DEF LocksInOrder

\* A request that may be there, as the tables are.
Fits(q) == RequestRight(q) /\ StillTrue(q, role, home, page, token, suspended)

ApartFromOthers(r, p) == \A s \in Requests \ {r} : Apart(p, req[s]) /\ Apart(req[s], p)

LEMMA MovesRight ==
    ASSUME AccessRight, NEW r \in Requests, NEW p, Set(r, p), UNCHANGED <<tables, changes>>,
           Fits(p), ApartFromOthers(r, p)
    PROVE  AccessRight'
<1>1. /\ role' = role /\ live' = live /\ home' = home /\ page' = page /\ token' = token
      /\ suspended' = suspended /\ changes' = changes
  BY DEF tables
<1>2. /\ req \in [Requests -> Request] /\ req' = [req EXCEPT ![r] = p] /\ p \in Request
      /\ req' \in [Requests -> Request] /\ req'[r] = p /\ \A s \in Requests \ {r} : req'[s] = req[s]
  BY DEF AccessRight, Set, Fits, RequestRight
<1>3. TablesRight'
  BY <1>1 DEF AccessRight, TablesRight, PagesListTheirOwn
<1>4. ASSUME NEW s \in Requests
      PROVE  RequestRight(req'[s]) /\ StillTrue(req'[s], role', home', page', token', suspended')
  <2>1. CASE s = r
    <3>1. RequestRight(p) /\ StillTrue(p, role, home, page, token, suspended)
      BY DEF Fits
    <3> QED BY <1>1, <1>2, <2>1, <3>1
  <2>2. CASE s # r
    <3>1. RequestRight(req[s]) /\ StillTrue(req[s], role, home, page, token, suspended)
      BY DEF AccessRight
    <3> QED BY <1>1, <1>2, <2>2, <3>1
  <2> QED BY <2>1, <2>2
<1>5. ASSUME NEW s \in Requests, NEW t \in Requests, s # t PROVE Apart(req'[s], req'[t])
  <2>1. CASE s = r
    BY <1>2, <1>5, <2>1 DEF ApartFromOthers
  <2>2. CASE t = r
    BY <1>2, <1>5, <2>2 DEF ApartFromOthers
  <2>3. CASE s # r /\ t # r
    BY <1>2, <1>5, <2>3 DEF AccessRight
  <2> QED BY <2>1, <2>2, <2>3
<1> QED BY <1>2, <1>3, <1>4, <1>5 DEF AccessRight

LEMMA RequestsAre ==
    ASSUME AccessRight, NEW r \in Requests
    PROVE  /\ req[r] \in Request /\ IsAbout(req[r]) /\ LocksInOrder(req[r]) /\ InPhase(req[r]) /\ CheckInPhase(req[r])
           /\ MoveInPhase(req[r]) /\ PageInPhase(req[r]) /\ DeletionInPhase(req[r]) /\ InScope(req[r])
BY DEF AccessRight, RequestRight

LEMMA RequestsKnow ==
    ASSUME AccessRight, NEW r \in Requests
    PROVE  /\ AboutToken(req[r], token) /\ TokenIsGood(req[r], role, suspended) /\ CheckIsAtHome(req[r], home)
           /\ MayChange(req[r], role) /\ IsNewStill(req[r], home, page) /\ ListsItsOwn(req[r], home)
           /\ PagesAreOfIt(req[r], page) /\ DeletesItsOwn(req[r], role, home, token)
BY DEF AccessRight, StillTrue

\* It has no more than before, and wants pages of its organization only.
LEMMA StaysApart ==
    ASSUME AccessRight, NEW r \in Requests, NEW p,
           p.held \subseteq req[r].held, p.op = req[r].op, p.check = req[r].check, p.page = req[r].page,
           \A g \in Pages : p.op \in {"update page", "move check", "delete org"} /\ Page(g) \in Wants(p) =>
              \/ Page(g) \in Wants(req[r]) /\ p.org = req[r].org
              \/ page[g].home = p.org /\ p.org \in Orgs
    PROVE  ApartFromOthers(r, p)
<1> SUFFICES ASSUME NEW s \in Requests \ {r} PROVE Apart(p, req[s]) /\ Apart(req[s], p)
  BY DEF ApartFromOthers
<1>1. Apart(req[r], req[s]) /\ Apart(req[s], req[r]) /\ PagesAreOfIt(req[s], page)
  BY RequestsKnow DEF AccessRight
<1>2. p.held \cap req[s].held = {} /\ req[s].held \cap p.held = {}
  BY <1>1 DEF Apart
<1>3. ASSUME NEW g \in Pages, Page(g) \in Wants(p), p.op \in {"update page", "move check", "delete org"},
             Page(g) \in Wants(req[s]), req[s].op \in {"update page", "move check", "delete org"}
      PROVE  p.org = req[s].org
  <2>1. CASE Page(g) \in Wants(req[r]) /\ p.org = req[r].org
    BY <1>1, <1>3, <2>1 DEF Apart
  <2>2. CASE page[g].home = p.org /\ p.org \in Orgs
    BY <1>1, <1>3, <2>2, AccessAssumption DEF PagesAreOfIt
  <2> QED BY <1>3, <2>1, <2>2
<1>4. Apart(p, req[s])
  BY <1>1, <1>2, <1>3 DEF Apart
<1>5. Apart(req[s], p)
  BY <1>1, <1>2, <1>3 DEF Apart
<1> QED BY <1>4, <1>5

LEMMA GoesRight ==
    ASSUME AccessRight, NEW r \in Requests, NEW p, Set(r, p), UNCHANGED <<tables, changes>>, Fits(p),
           p.held \subseteq req[r].held, p.op = req[r].op, p.check = req[r].check, p.page = req[r].page,
           \A g \in Pages : p.op \in {"update page", "move check", "delete org"} /\ Page(g) \in Wants(p) =>
              \/ Page(g) \in Wants(req[r]) /\ p.org = req[r].org
              \/ page[g].home = p.org /\ p.org \in Orgs
    PROVE  AccessRight'
BY StaysApart, MovesRight

Over == [Idle EXCEPT !.pc = "ended"]

LEMMA OverIs ==
    /\ Over.pc = "ended" /\ Over.op = "none" /\ Over.held = {} /\ Over.todo = <<>> /\ Over.org = None
    /\ Over.check = None /\ Over.page = None /\ Over.user = None /\ Over.token = None /\ Over.bound = None
    /\ Over \in Request /\ Wants(Over) = {}
<1>1. /\ Over.pc = "ended" /\ Over.op = "none" /\ Over.held = {} /\ Over.todo = <<>> /\ Over.org = None
      /\ Over.check = None /\ Over.page = None /\ Over.user = None /\ Over.token = None /\ Over.bound = None
      /\ Over.dest = None /\ Over.lists = {} /\ Over.tries = 0
  BY DEF Over, Idle
<1>2. 0 \in 0 .. MaxTries - 1 /\ <<>> \in Seq(Rows) /\ {} \in SUBSET Rows
  BY AccessAssumption
<1>3. Over \in Request
  BY <1>1, <1>2 DEF Request, Pcs, Over, Idle
<1>4. Wants(Over) = {}
  BY <1>1, ElementsOfFew DEF Wants
<1> QED BY <1>1, <1>3, <1>4

LEMMA OverFits ==
    ASSUME NEW rl, NEW hm, NEW pg, NEW tk, NEW sp
    PROVE  RequestRight(Over) /\ StillTrue(Over, rl, hm, pg, tk, sp)
<1>1. IsAbout(Over)
  BY OverIs, AccessAssumption DEF IsAbout, CheckOps, PageOps
<1>2. LocksInOrder(Over)
  BY OverIs, ElementsOfFew DEF LocksInOrder, Before, Ascends
<1>3. InPhase(Over)
  BY OverIs DEF InPhase, Over, CheckOps
<1>4. CheckInPhase(Over) /\ MoveInPhase(Over) /\ PageInPhase(Over) /\ DeletionInPhase(Over) /\ InScope(Over)
  BY OverIs DEF CheckInPhase, MoveInPhase, PageInPhase, DeletionInPhase, InScope, CheckOps
<1>5. StillTrue(Over, rl, hm, pg, tk, sp)
  BY OverIs DEF StillTrue, AboutToken, TokenIsGood, CheckIsAtHome, MayChange, IsNewStill, ListsItsOwn, PagesAreOfIt,
                DeletesItsOwn, CheckOps
<1> QED BY <1>1, <1>2, <1>3, <1>4, <1>5, OverIs DEF RequestRight

LEMMA OverIsApart ==
    ASSUME NEW q, IsAbout(q)
    PROVE  Apart(Over, q) /\ Apart(q, Over)
BY OverIs, AccessAssumption DEF Apart, IsAbout, PageOps, CheckOps

LEMMA RefusedRight ==
    ASSUME AccessRight, NEW r \in Requests, Refused(r)
    PROVE  AccessRight'
<1>1. Set(r, Over) /\ UNCHANGED <<tables, changes>>
  BY DEF Refused, Ends, Over
<1>2. Fits(Over)
  BY OverFits DEF Fits
<1>3. ApartFromOthers(r, Over)
  BY OverIsApart, RequestsAre DEF ApartFromOthers
<1> QED BY <1>1, <1>2, <1>3, MovesRight

-----------------------------------------------------------------------------
(* A row is locked *)

LEMMA LocksFits ==
    ASSUME AccessRight, NEW r \in Requests, req[r].todo # <<>>, NEW p,
           p = [req[r] EXCEPT !.held = @ \cup {Head(req[r].todo)}, !.todo = Tail(@)]
    PROVE  RequestRight(p)
<1> DEFINE q == req[r]
<1>q. /\ q \in Request /\ IsAbout(q) /\ LocksInOrder(q) /\ InPhase(q) /\ CheckInPhase(q)
      /\ MoveInPhase(q) /\ PageInPhase(q) /\ DeletionInPhase(q) /\ InScope(q) /\ q.todo # <<>>
  BY RequestsAre
<1>i. q.pc \in {"idle", "ended"} => q.todo = <<>>
  BY <1>q DEF InPhase, Idle
<1> HIDE DEF q
<1>p. p = [q EXCEPT !.held = @ \cup {Head(q.todo)}, !.todo = Tail(@)]
  BY DEF q
<1>1. /\ p \in Request /\ p.pc = q.pc /\ p.todo = Tail(q.todo) /\ p.held = q.held \cup {Head(q.todo)}
      /\ p.org = q.org /\ p.tries = q.tries /\ SameMatter(p, q) /\ Wants(p) = Wants(q)
  BY <1>p, <1>q, LocksTheNext
<1>2. /\ p.op = q.op /\ p.user = q.user /\ p.token = q.token /\ p.dest = q.dest
      /\ p.check = q.check /\ p.page = q.page /\ p.lists = q.lists /\ p.bound = q.bound
      /\ q.held \subseteq p.held
  BY <1>1 DEF SameMatter
<1>3. IsAbout(p)
  BY <1>1, <1>2, <1>q DEF IsAbout
<1>4. LocksInOrder(p)
  BY <1>1, <1>2, <1>q, LocksInOrderOn
<1>5. AccountsOf(p) = AccountsOf(q) /\ CredentialRows(p) = CredentialRows(q)
  <2>1. AccountsOf(p) = AccountsOf(q)
    BY <1>1, <1>2 DEF AccountsOf
  <2>2. CredentialRows(p) = CredentialRows(q)
    BY <1>1, <1>2 DEF CredentialRows
  <2> QED BY <2>1, <2>2
<1>6. InPhase(p)
  BY <1>i, <1>1, <1>2, <1>5, <1>q DEF InPhase
<1>7. CheckInPhase(p)
  BY <1>1, <1>2, <1>5, <1>q DEF CheckInPhase
<1>8. MoveInPhase(p)
  BY <1>1, <1>2, <1>5, <1>q DEF MoveInPhase
<1>9. PageInPhase(p)
  BY <1>1, <1>2, <1>5, <1>q DEF PageInPhase
<1>10. DeletionInPhase(p)
  <2> SUFFICES ASSUME p.op = "delete org", p.pc \in {"accounts", "deciding", "writing"} PROVE DeletionInPhase(p)
    BY DEF DeletionInPhase
  <2>1. GoWithIt(p.org) = GoWithIt(q.org) /\ Project(p.org) = Project(q.org)
    BY <1>1
  <2>2. \A u \in Users, o \in Orgs : Membership(u, o) \in Wants(p) => u = p.user \/ o = p.org
    BY <1>1, <1>2, <1>q DEF DeletionInPhase
  <2>3. /\ AccountsOf(p) \subseteq Wants(p)
        /\ p.pc = "accounts" => Wants(p) = AccountsOf(p)
        /\ p.pc # "accounts" => AccountsOf(p) \subseteq p.held
    BY <1>1, <1>2, <1>5, <1>q DEF DeletionInPhase
  <2>4. /\ p.pc = "deciding" => Wants(p) \subseteq AccountsOf(p) \cup {Membership(p.user, o) : o \in Orgs}
        /\ p.pc = "writing" => Project(p.org) \in Wants(p) /\ Wants(p) \subseteq AccountsOf(p) \cup GoWithIt(p.org)
    <3>1. /\ q.pc = "deciding" => Wants(q) \subseteq AccountsOf(q) \cup {Membership(q.user, o) : o \in Orgs}
          /\ q.pc = "writing" => Project(q.org) \in Wants(q) /\ Wants(q) \subseteq AccountsOf(q) \cup GoWithIt(q.org)
      BY <1>1, <1>2, <1>q DEF DeletionInPhase
    <3> QED BY <1>1, <1>2, <1>5, <2>1, <3>1
  <2> QED BY <2>2, <2>3, <2>4 DEF DeletionInPhase
<1>11. InScope(p)
  BY <1>1, <1>2, <1>q DEF InScope, requireCheckAccess, IsScoped
<1> QED BY <1>1, <1>3, <1>4, <1>6, <1>7, <1>8, <1>9, <1>10, <1>11 DEF RequestRight

\* What is said of a request does not depend on which of its rows it has.
LEMMA SameTruth ==
    ASSUME NEW p, NEW q, SameMatter(p, q), p.pc = q.pc, p.org = q.org, Wants(p) = Wants(q), q.held \subseteq p.held,
           NEW rl, NEW hm, NEW pg, NEW tk, NEW sp, StillTrue(q, rl, hm, pg, tk, sp)
    PROVE  StillTrue(p, rl, hm, pg, tk, sp)
<1>1. /\ p.op = q.op /\ p.user = q.user /\ p.token = q.token /\ p.dest = q.dest
      /\ p.check = q.check /\ p.page = q.page /\ p.lists = q.lists /\ p.bound = q.bound
  BY DEF SameMatter
<1>2. /\ AboutToken(q, tk) /\ TokenIsGood(q, rl, sp) /\ CheckIsAtHome(q, hm) /\ MayChange(q, rl)
      /\ IsNewStill(q, hm, pg) /\ ListsItsOwn(q, hm) /\ PagesAreOfIt(q, pg) /\ DeletesItsOwn(q, rl, hm, tk)
  BY DEF StillTrue
<1>3. CredentialRows(p) = CredentialRows(q)
  BY <1>1 DEF CredentialRows
<1>4. AboutToken(p, tk)
  BY <1>1, <1>2, <1>3 DEF AboutToken
<1>5. TokenIsGood(p, rl, sp) /\ CheckIsAtHome(p, hm) /\ MayChange(p, rl)
  BY <1>1, <1>2 DEF TokenIsGood, CheckIsAtHome, MayChange
<1>6. IsNewStill(p, hm, pg) /\ ListsItsOwn(p, hm)
  BY <1>1, <1>2 DEF IsNewStill, ListsItsOwn
<1>7. PagesAreOfIt(p, pg) /\ DeletesItsOwn(p, rl, hm, tk)
  BY <1>1, <1>2 DEF PagesAreOfIt, DeletesItsOwn
<1> QED BY <1>4, <1>5, <1>6, <1>7 DEF StillTrue

LEMMA LocksRight ==
    ASSUME AccessRight, NEW r \in Requests, Locks(r)
    PROVE  AccessRight'
<1> DEFINE q == req[r]
           p == [q EXCEPT !.held = @ \cup {Head(q.todo)}, !.todo = Tail(@)]
<1>1. q.todo # <<>> /\ IsFree(r, Head(q.todo)) /\ Set(r, p) /\ UNCHANGED <<tables, changes>>
  BY DEF Locks
<1>2. RequestRight(p)
  BY <1>1, LocksFits
<1>3. q \in Request /\ StillTrue(q, role, home, page, token, suspended)
  BY DEF AccessRight
<1> HIDE DEF p
<1>4. /\ p.pc = q.pc /\ p.held = q.held \cup {Head(q.todo)} /\ p.org = q.org /\ SameMatter(p, q)
      /\ Wants(p) = Wants(q)
  <2> HIDE DEF q
  <2> QED BY <1>1, <1>3, LocksTheNext DEF p
<1>5. Fits(p)
  <2> HIDE DEF q
  <2>1. q.held \subseteq p.held
    BY <1>4
  <2> QED BY <1>2, <1>3, <1>4, <2>1, SameTruth DEF Fits
<1>6. ApartFromOthers(r, p)
  <2> SUFFICES ASSUME NEW s \in Requests \ {r} PROVE Apart(p, req[s]) /\ Apart(req[s], p)
    BY DEF ApartFromOthers
  <2>1. Apart(q, req[s]) /\ Apart(req[s], q)
    BY DEF AccessRight
  <2>2. Head(q.todo) \notin req[s].held
    BY <1>1 DEF IsFree
  <2> HIDE DEF q
  <2> QED BY <1>4, <2>1, <2>2 DEF Apart, SameMatter
<1> QED BY <1>1, <1>5, <1>6, MovesRight

LEMMA InOrderNone ==
    ASSUME NEW p, p.todo = <<>>
    PROVE  LocksInOrder(p)
BY ElementsOfFew, AscendsFew DEF LocksInOrder, Before

LEMMA InOrderOne ==
    ASSUME NEW p, NEW l \in Rows, p.todo = <<l>>, l[1] # "account", NEW n \in Nat,
           \A k \in p.held : Level(p, k) <= n, Level(p, l) >= n
    PROVE  LocksInOrder(p)
<1>1. Elements(p.todo) = {l}
  BY ElementsOfFew
<1>2. Before(p, p.held, Elements(p.todo))
  <2>1. \A k \in Elements(p.todo) : Level(p, k) >= n /\ k[1] # "account"
    BY <1>1
  <2> QED BY <2>1, BeforeIs
<1> QED BY <1>2, AscendsFew DEF LocksInOrder

LEMMA InOrderFirst ==
    ASSUME NEW p, p.held = {}, Ascends(p, p.todo)
    PROVE  LocksInOrder(p)
BY DEF LocksInOrder, Before

-----------------------------------------------------------------------------
(* A request comes, with a session or a token *)

\* What is asked for, before who asks is known.
IsAsked(q) ==
    /\ q \in Request /\ q.pc = "idle" /\ q.held = {} /\ q.todo = <<>> /\ q.tries = 0
    /\ q.bound = None /\ q.user = None /\ q.token = None /\ q.op \in Ops
    /\ q.op \in {"edit check", "delete check", "create check", "move check"} => q.check \in Checks
    /\ q.op = "move check" => q.dest \in Orgs
    /\ q.op \in PageOps => q.page \in Pages
    /\ q.op \in {"create check", "create page", "delete org"} => q.org \in Orgs
    /\ q.op = "create check" => NewCheck(q.check)
    /\ q.op # "create check" /\ q.check # None => q.check \in Checks /\ home[q.check] # None
    /\ q.op = "create page" => NewPage(q.page)
    /\ q.op # "create page" /\ q.page # None => q.page \in Pages /\ page[q.page].home # None

FromAsked(a) == [f \in DOMAIN Idle |-> IF f \in DOMAIN a THEN a[f] ELSE Idle[f]]

LEMMA FieldsAre ==
    ASSUME NEW a
    PROVE  LET q == FromAsked(a) IN
           /\ q = [pc |-> IF "pc" \in DOMAIN a THEN a["pc"] ELSE "idle",
                   op |-> IF "op" \in DOMAIN a THEN a["op"] ELSE "none",
                   user |-> IF "user" \in DOMAIN a THEN a["user"] ELSE None,
                   token |-> IF "token" \in DOMAIN a THEN a["token"] ELSE None,
                   org |-> IF "org" \in DOMAIN a THEN a["org"] ELSE None,
                   dest |-> IF "dest" \in DOMAIN a THEN a["dest"] ELSE None,
                   check |-> IF "check" \in DOMAIN a THEN a["check"] ELSE None,
                   page |-> IF "page" \in DOMAIN a THEN a["page"] ELSE None,
                   lists |-> IF "lists" \in DOMAIN a THEN a["lists"] ELSE {},
                   bound |-> IF "bound" \in DOMAIN a THEN a["bound"] ELSE None,
                   todo |-> IF "todo" \in DOMAIN a THEN a["todo"] ELSE <<>>,
                   held |-> IF "held" \in DOMAIN a THEN a["held"] ELSE {},
                   tries |-> IF "tries" \in DOMAIN a THEN a["tries"] ELSE 0]
<1> DEFINE S == {"pc", "op", "user", "token", "org", "dest", "check", "page", "lists", "bound", "todo", "held", "tries"}
           q == FromAsked(a)
<1>1. DOMAIN Idle = S
  BY DEF Idle
<1>2. q = [f \in S |-> IF f \in DOMAIN a THEN a[f] ELSE Idle[f]]
  BY <1>1 DEF FromAsked
<1>3. /\ Idle["pc"] = "idle" /\ Idle["op"] = "none" /\ Idle["user"] = None /\ Idle["token"] = None /\ Idle["org"] = None
      /\ Idle["dest"] = None /\ Idle["check"] = None /\ Idle["page"] = None /\ Idle["lists"] = {} /\ Idle["bound"] = None
      /\ Idle["todo"] = <<>> /\ Idle["held"] = {} /\ Idle["tries"] = 0
  BY DEF Idle
<1> HIDE DEF q
<1> QED BY <1>2, <1>3 DEF q

LEMMA AskedIs ==
    ASSUME AccessRight, NEW a \in Asked
    PROVE  IsAsked(FromAsked(a))
<1> DEFINE q == FromAsked(a)
<1>0. 0 \in 0 .. MaxTries - 1 /\ <<>> \in Seq(Rows) /\ {} \in SUBSET Rows /\ Existing \subseteq Checks
  BY AccessAssumption DEF Existing
<1>1. CASE a \in [op : {"edit check", "delete check"}, check : Existing]
  <2>1. DOMAIN a = {"op", "check"} /\ a.op \in {"edit check", "delete check"} /\ a.check \in Existing
    BY <1>1
  <2>2. q = [pc |-> "idle", op |-> a.op, user |-> None, token |-> None, org |-> None, dest |-> None,
             check |-> a.check, page |-> None, lists |-> {}, bound |-> None, todo |-> <<>>, held |-> {}, tries |-> 0]
    BY <2>1, FieldsAre
  <2> HIDE DEF q
  <2>3. q \in Request
    BY <1>0, <2>1, <2>2 DEF Request, Pcs, Ops, CheckOps
  <2>5. IsAsked(q)
    BY <2>1, <2>2, <2>3, AccessAssumption DEF IsAsked, Ops, CheckOps, PageOps, Existing
  <2> QED BY <2>5 DEF q
<1>2. CASE a \in [op : {"move check"}, check : Existing, dest : Orgs]
  <2>1. DOMAIN a = {"op", "check", "dest"} /\ a.op = "move check" /\ a.check \in Existing /\ a.dest \in Orgs
    BY <1>2
  <2>2. q = [pc |-> "idle", op |-> a.op, user |-> None, token |-> None, org |-> None, dest |-> a.dest,
             check |-> a.check, page |-> None, lists |-> {}, bound |-> None, todo |-> <<>>, held |-> {}, tries |-> 0]
    BY <2>1, FieldsAre
  <2> HIDE DEF q
  <2>3. q \in Request
    BY <1>0, <2>1, <2>2 DEF Request, Pcs, Ops
  <2>5. IsAsked(q)
    BY <2>1, <2>2, <2>3, AccessAssumption DEF IsAsked, Ops, PageOps, Existing
  <2> QED BY <2>5 DEF q
<1>3. CASE a \in [op : {"create check"}, org : Orgs, check : {c \in Checks : NewCheck(c)}]
  <2>1. DOMAIN a = {"op", "org", "check"} /\ a.op = "create check" /\ a.check \in Checks /\ NewCheck(a.check) /\ a.org \in Orgs
    BY <1>3
  <2>2. q = [pc |-> "idle", op |-> a.op, user |-> None, token |-> None, org |-> a.org, dest |-> None,
             check |-> a.check, page |-> None, lists |-> {}, bound |-> None, todo |-> <<>>, held |-> {}, tries |-> 0]
    BY <2>1, FieldsAre
  <2> HIDE DEF q
  <2>3. q \in Request
    BY <1>0, <2>1, <2>2 DEF Request, Pcs, Ops, CheckOps
  <2>4. NewCheck(q.check)
    BY <2>1, <2>2
  <2>5. IsAsked(q)
    BY <2>1, <2>2, <2>3, <2>4, AccessAssumption DEF IsAsked, Ops, CheckOps, PageOps
  <2> QED BY <2>5 DEF q
<1>4. CASE a \in [op : {"create page"}, org : Orgs, page : {g \in Pages : NewPage(g)}, lists : (SUBSET Existing) \ {{}}]
  <2>1. /\ DOMAIN a = {"op", "org", "page", "lists"} /\ a.op = "create page" /\ a.page \in Pages /\ NewPage(a.page)
        /\ a.org \in Orgs /\ a.lists \subseteq Existing
    BY <1>4
  <2>2. q = [pc |-> "idle", op |-> a.op, user |-> None, token |-> None, org |-> a.org, dest |-> None,
             check |-> None, page |-> a.page, lists |-> a.lists, bound |-> None, todo |-> <<>>, held |-> {}, tries |-> 0]
    BY <2>1, FieldsAre
  <2> HIDE DEF q
  <2>3. q \in Request
    BY <1>0, <2>1, <2>2 DEF Request, Pcs, Ops, PageOps
  <2>4. NewPage(q.page)
    BY <2>1, <2>2
  <2>5. IsAsked(q)
    BY <2>1, <2>2, <2>3, <2>4, AccessAssumption DEF IsAsked, Ops, PageOps
  <2> QED BY <2>5 DEF q
<1>5. CASE a \in [op : {"update page"}, page : {g \in Pages : page[g].home # None}, lists : SUBSET Existing]
  <2>1. /\ DOMAIN a = {"op", "page", "lists"} /\ a.op = "update page" /\ a.page \in Pages /\ page[a.page].home # None
        /\ a.lists \subseteq Existing
    BY <1>5
  <2>2. q = [pc |-> "idle", op |-> a.op, user |-> None, token |-> None, org |-> None, dest |-> None,
             check |-> None, page |-> a.page, lists |-> a.lists, bound |-> None, todo |-> <<>>, held |-> {}, tries |-> 0]
    BY <2>1, FieldsAre
  <2> HIDE DEF q
  <2>3. q \in Request
    BY <1>0, <2>1, <2>2 DEF Request, Pcs, Ops, PageOps
  <2>5. IsAsked(q)
    BY <2>1, <2>2, <2>3, AccessAssumption DEF IsAsked, Ops, PageOps
  <2> QED BY <2>5 DEF q
<1>6. CASE a \in [op : {"delete page"}, page : {g \in Pages : page[g].home # None}]
  <2>1. DOMAIN a = {"op", "page"} /\ a.op = "delete page" /\ a.page \in Pages /\ page[a.page].home # None
    BY <1>6
  <2>2. q = [pc |-> "idle", op |-> a.op, user |-> None, token |-> None, org |-> None, dest |-> None,
             check |-> None, page |-> a.page, lists |-> {}, bound |-> None, todo |-> <<>>, held |-> {}, tries |-> 0]
    BY <2>1, FieldsAre
  <2> HIDE DEF q
  <2>3. q \in Request
    BY <1>0, <2>1, <2>2 DEF Request, Pcs, Ops, PageOps
  <2>5. IsAsked(q)
    BY <2>1, <2>2, <2>3, AccessAssumption DEF IsAsked, Ops, PageOps
  <2> QED BY <2>5 DEF q
<1>7. CASE a \in [op : {"delete org"}, org : Orgs]
  <2>1. DOMAIN a = {"op", "org"} /\ a.op = "delete org" /\ a.org \in Orgs
    BY <1>7
  <2>2. q = [pc |-> "idle", op |-> a.op, user |-> None, token |-> None, org |-> a.org, dest |-> None,
             check |-> None, page |-> None, lists |-> {}, bound |-> None, todo |-> <<>>, held |-> {}, tries |-> 0]
    BY <2>1, FieldsAre
  <2> HIDE DEF q
  <2>3. q \in Request
    BY <1>0, <2>1, <2>2 DEF Request, Pcs, Ops
  <2>5. IsAsked(q)
    BY <2>1, <2>2, <2>3, AccessAssumption DEF IsAsked, Ops, PageOps
  <2> QED BY <2>5 DEF q
<1> QED BY <1>1, <1>2, <1>3, <1>4, <1>5, <1>6, <1>7 DEF Asked

LEMMA AuthenticationOrderIs ==
    ASSUME NEW q, NEW t \in Tokens, NEW u \in Users, NEW o \in Orgs \cup {None}
    PROVE  /\ AuthenticationOrder(t, u, o) \in Seq(Rows)
           /\ Elements(AuthenticationOrder(t, u, o)) =
                 {Account(u), Token(t)} \cup (IF o = None THEN {} ELSE {Membership(u, o), Project(o)})
           /\ Ascends(q, AuthenticationOrder(t, u, o))
<1> DEFINE a == <<Account(u)>>
           m == <<Membership(u, o)>>
           p == <<Project(o)>>
           k == <<Token(t)>>
<1>1. /\ a \in Seq(Rows) /\ Elements(a) = {Account(u)} /\ Ascends(q, a)
      /\ k \in Seq(Rows) /\ Elements(k) = {Token(t)} /\ Ascends(q, k)
  BY RowsAre, ElementsOfFew, AscendsFew
<1>2. o # None => /\ m \in Seq(Rows) /\ Elements(m) = {Membership(u, o)} /\ Ascends(q, m)
                  /\ p \in Seq(Rows) /\ Elements(p) = {Project(o)} /\ Ascends(q, p)
  BY RowsAre, ElementsOfFew, AscendsFew
<1>3. /\ Level(q, Account(u)) = 1 /\ Level(q, Membership(u, o)) \in {2, 3}
      /\ Level(q, Project(o)) \in {3, 6} /\ Level(q, Token(t)) \in {4, 7}
      /\ Level(q, Membership(u, o)) < Level(q, Project(o)) /\ Level(q, Project(o)) < Level(q, Token(t))
  <2>1. CASE Deletes(q)
    <3>1. /\ Level(q, Account(u)) = 1 /\ Level(q, Membership(u, o)) = 2
          /\ Level(q, Project(o)) = 3 /\ Level(q, Token(t)) = 4
      BY <2>1, DeletionLevels
    <3> QED BY <3>1
  <2>2. CASE ~Deletes(q)
    <3>1. /\ Level(q, Account(u)) = 1 /\ Level(q, Membership(u, o)) = 3
          /\ Level(q, Project(o)) = 6 /\ Level(q, Token(t)) = 7
      BY <2>2, OtherLevels
    <3> QED BY <3>1
  <2> QED BY <2>1, <2>2
<1> HIDE DEF a, m, p, k
<1>4. /\ NotAfter(q, Account(u), Membership(u, o)) /\ NotAfter(q, Account(u), Project(o)) /\ NotAfter(q, Account(u), Token(t))
      /\ NotAfter(q, Membership(u, o), Project(o)) /\ NotAfter(q, Membership(u, o), Token(t))
      /\ NotAfter(q, Project(o), Token(t))
  BY <1>3, NotAfterIs
<1>5. CASE o = None
  <2>1. AuthenticationOrder(t, u, o) = a \o k
    <3>1. AuthenticationOrder(t, u, o) = a \o <<>> \o k
      BY <1>5 DEF AuthenticationOrder, a, k
    <3>2. a \o <<>> = a
      BY <1>1
    <3> QED BY <3>1, <3>2
  <2>2. Before(q, Elements(a), Elements(k))
    BY <1>1, <1>4 DEF Before
  <2>3. a \o k \in Seq(Rows) /\ Elements(a \o k) = Elements(a) \cup Elements(k) /\ Ascends(q, a \o k)
    BY <1>1, <2>2, ElementsOfBoth, AscendsBoth
  <2>4. Elements(a \o k) = {Account(u), Token(t)}
    BY <1>1, <2>3
  <2> QED BY <1>5, <2>1, <2>3, <2>4
<1>6. CASE o # None
  <2>1. AuthenticationOrder(t, u, o) = a \o (m \o p) \o k
    <3>1. <<Membership(u, o), Project(o)>> = m \o p
      BY <1>2, <1>6 DEF m, p
    <3> QED BY <1>6, <3>1 DEF AuthenticationOrder, a, k
  <2>2. m \o p \in Seq(Rows) /\ Elements(m \o p) = {Membership(u, o), Project(o)} /\ Ascends(q, m \o p)
    <3>1. Before(q, Elements(m), Elements(p))
      BY <1>2, <1>4, <1>6 DEF Before
    <3> QED BY <1>2, <1>6, <3>1, ElementsOfBoth, AscendsBoth
  <2>3. /\ a \o (m \o p) \in Seq(Rows) /\ Elements(a \o (m \o p)) = {Account(u), Membership(u, o), Project(o)}
        /\ Ascends(q, a \o (m \o p))
    <3>1. Before(q, Elements(a), Elements(m \o p))
      BY <1>1, <1>4, <2>2 DEF Before
    <3> DEFINE mp == m \o p
    <3>2. mp \in Seq(Rows) /\ Ascends(q, mp) /\ Before(q, Elements(a), Elements(mp))
      BY <2>2, <3>1
    <3>3. Elements(mp) = {Membership(u, o), Project(o)}
      BY <2>2
    <3> HIDE DEF mp
    <3>4. a \o mp \in Seq(Rows) /\ Elements(a \o mp) = Elements(a) \cup Elements(mp) /\ Ascends(q, a \o mp)
      BY <1>1, <3>2, ElementsOfBoth, AscendsBoth
    <3>5. Elements(a \o mp) = {Account(u), Membership(u, o), Project(o)}
      BY <1>1, <3>3, <3>4
    <3> QED BY <3>4, <3>5 DEF mp
  <2>4. Before(q, Elements(a \o (m \o p)), Elements(k))
    BY <1>1, <1>4, <2>3 DEF Before
  <2> DEFINE amp == a \o (m \o p)
  <2>5. amp \in Seq(Rows) /\ Ascends(q, amp) /\ Before(q, Elements(amp), Elements(k))
    BY <2>3, <2>4
  <2>6. Elements(amp) = {Account(u), Membership(u, o), Project(o)}
    BY <2>3
  <2>7. AuthenticationOrder(t, u, o) = amp \o k
    BY <2>1
  <2> HIDE DEF amp
  <2>8. amp \o k \in Seq(Rows) /\ Elements(amp \o k) = Elements(amp) \cup Elements(k) /\ Ascends(q, amp \o k)
    BY <1>1, <2>5, ElementsOfBoth, AscendsBoth
  <2>9. Elements(amp \o k) = {Account(u), Token(t)} \cup {Membership(u, o), Project(o)}
    BY <1>1, <2>6, <2>8
  <2> QED BY <1>6, <2>7, <2>8, <2>9
<1> QED BY <1>5, <1>6

\* A request that has no rows yet, and is about what it was asked.
LEMMA NewIsApart ==
    ASSUME AccessRight, NEW r \in Requests, NEW q, IsAsked(q), NEW p,
           p.op = q.op, p.check = q.check, p.page = q.page, p.held = {}, \A g \in Pages : Page(g) \notin Wants(p)
    PROVE  ApartFromOthers(r, p)
<1> SUFFICES ASSUME NEW s \in Requests \ {r} PROVE Apart(p, req[s]) /\ Apart(req[s], p)
  BY DEF ApartFromOthers
<1>1. IsAbout(req[s]) /\ IsNewStill(req[s], home, page)
  BY RequestsAre, RequestsKnow
<1>2. /\ q.op = "create check" => req[s].check # q.check
      /\ q.op = "create page" => req[s].page # q.page
  BY DEF IsAsked, NewCheck, NewPage
<1>3. req[s].op = "create check" => q.check # req[s].check
  <2> SUFFICES ASSUME req[s].op = "create check" PROVE q.check # req[s].check
    OBVIOUS
  <2>1. req[s].check \in Checks /\ home[req[s].check] = None
    BY <1>1 DEF IsAbout, IsNewStill
  <2>2. CASE q.op = "create check"
    BY <1>2, <2>2
  <2>3. CASE q.op # "create check"
    BY <2>1, <2>3, AccessAssumption DEF IsAsked
  <2> QED BY <2>2, <2>3
<1>4. req[s].op = "create page" => q.page # req[s].page
  <2> SUFFICES ASSUME req[s].op = "create page" PROVE q.page # req[s].page
    OBVIOUS
  <2>1. req[s].page \in Pages /\ page[req[s].page].home = None
    BY <1>1 DEF IsAbout, IsNewStill, PageOps
  <2>2. CASE q.op = "create page"
    BY <1>2, <2>2
  <2>3. CASE q.op # "create page"
    BY <2>1, <2>3, AccessAssumption DEF IsAsked
  <2> QED BY <2>2, <2>3
<1>5. Apart(p, req[s])
  BY <1>2 DEF Apart
<1>6. Apart(req[s], p)
  BY <1>3, <1>4 DEF Apart
<1> QED BY <1>5, <1>6

\* Nothing is said of a request that has just come, but that its id is new.
LEMMA NewIsNew ==
    ASSUME NEW q, IsAsked(q), NEW p, p.op = q.op, p.check = q.check, p.page = q.page
    PROVE  IsNewStill(p, home, page)
BY DEF IsAsked, IsNewStill, NewCheck, NewPage

LEMMA SessionRight ==
    ASSUME AccessRight, NEW r \in Requests, NEW q, IsAsked(q), NEW u \in Users, CallsWithSession(r, u, q)
    PROVE  AccessRight'
<1> DEFINE m == [q EXCEPT !.user = u]
           p == Onward(m, Accepted(q), <<>>)
<1>1. Set(r, p) /\ UNCHANGED <<tables, changes>>
  BY DEF CallsWithSession, Goes, Onward
<1>2. q \in Request
  BY DEF IsAsked
<1>3. m \in Request
  BY <1>2, Zenon DEF Request
<1>4. /\ m.pc = q.pc /\ m.todo = q.todo /\ m.held = q.held /\ m.org = q.org /\ m.op = q.op /\ m.user = u
      /\ m.token = q.token /\ m.dest = q.dest /\ m.check = q.check /\ m.page = q.page /\ m.bound = q.bound
  BY <1>2 DEF Request
<1> HIDE DEF m
<1>5. Accepted(q) \in {"resolved", "accepted"} /\ Accepted(q) \in Pcs /\ <<>> \in Seq(Rows)
  BY ElementsOfFew DEF Accepted, Pcs
<1>6. /\ p \in Request /\ p.pc = Accepted(q) /\ p.todo = <<>> /\ p.held = m.held /\ p.org = m.org
      /\ SameMatter(p, m)
  BY <1>3, <1>5, GoingOn
<1> HIDE DEF p
<1>7. /\ p.op = q.op /\ p.user = u /\ p.token = None /\ p.dest = q.dest /\ p.check = q.check /\ p.page = q.page
      /\ p.bound = None /\ p.held = {} /\ p.org = q.org /\ Wants(p) = {}
  BY <1>4, <1>6, ElementsOfFew DEF SameMatter, IsAsked, Wants
<1>8. IsAbout(p)
  BY <1>5, <1>6, <1>7, AccessAssumption DEF IsAbout, IsAsked
<1>9. LocksInOrder(p)
  BY <1>6, InOrderNone
<1>10. InPhase(p)
  BY <1>5, <1>6, <1>7 DEF InPhase, Accepted, IsAsked
<1>11. CheckInPhase(p) /\ MoveInPhase(p) /\ PageInPhase(p) /\ DeletionInPhase(p)
  BY <1>5, <1>6 DEF CheckInPhase, MoveInPhase, PageInPhase, DeletionInPhase
<1>12. InScope(p)
  BY <1>5, <1>6, <1>7 DEF InScope, Accepted, CheckOps, requireCheckAccess, IsScoped
<1>13. RequestRight(p)
  BY <1>6, <1>8, <1>9, <1>10, <1>11, <1>12 DEF RequestRight
<1>14. StillTrue(p, role, home, page, token, suspended)
  <2>1. IsNewStill(p, home, page)
    BY <1>7, NewIsNew
  <2>2. AboutToken(p, token) /\ TokenIsGood(p, role, suspended) /\ CheckIsAtHome(p, home) /\ MayChange(p, role)
    BY <1>5, <1>6 DEF AboutToken, TokenIsGood, CheckIsAtHome, MayChange
  <2>3. ListsItsOwn(p, home) /\ PagesAreOfIt(p, page) /\ DeletesItsOwn(p, role, home, token)
    BY <1>5, <1>6, <1>7 DEF ListsItsOwn, PagesAreOfIt, DeletesItsOwn
  <2> QED BY <2>1, <2>2, <2>3 DEF StillTrue
<1>15. ApartFromOthers(r, p)
  BY <1>7, NewIsApart
<1> QED BY <1>1, <1>13, <1>14, <1>15, MovesRight DEF Fits

LEMMA TokenRight ==
    ASSUME AccessRight, NEW r \in Requests, NEW q, IsAsked(q), NEW t \in Tokens, CallsWithToken(r, t, q)
    PROVE  AccessRight'
<1> DEFINE u == TokenOf[t].user
           o == token[t].org
           m == [q EXCEPT !.user = u, !.token = t]
           todo == AuthenticationOrder(t, u, o)
           p == Onward(m, "authenticating", todo)
<1>1. Set(r, p) /\ UNCHANGED <<tables, changes>>
  BY DEF CallsWithToken, Goes, Onward
<1>2. q \in Request /\ u \in Users /\ o \in Orgs \cup {None} /\ o \in {TokenOf[t].org, None}
  BY AccessAssumption DEF IsAsked, AccessRight, TablesRight
<1> HIDE DEF u, o
<1>3. m \in Request
  BY <1>2, Zenon DEF Request
<1>4. /\ m.pc = q.pc /\ m.todo = q.todo /\ m.held = q.held /\ m.org = q.org /\ m.op = q.op /\ m.user = u
      /\ m.token = t /\ m.dest = q.dest /\ m.check = q.check /\ m.page = q.page /\ m.bound = q.bound
  BY <1>2 DEF Request
<1> HIDE DEF m
<1>5. /\ todo \in Seq(Rows)
      /\ Elements(todo) = {Account(u), Token(t)} \cup (IF o = None THEN {} ELSE {Membership(u, o), Project(o)})
      /\ \A x : Ascends(x, todo)
  <2>1. ASSUME NEW x
        PROVE  /\ todo \in Seq(Rows)
               /\ Elements(todo) = {Account(u), Token(t)} \cup (IF o = None THEN {} ELSE {Membership(u, o), Project(o)})
               /\ Ascends(x, todo)
    BY <1>2, AuthenticationOrderIs
  <2> QED BY <2>1
<1> HIDE DEF todo
<1>6. /\ p \in Request /\ p.pc = "authenticating" /\ p.todo = todo /\ p.held = m.held /\ p.org = m.org
      /\ SameMatter(p, m)
  <2>1. "authenticating" \in Pcs
    BY DEF Pcs
  <2> QED BY <1>3, <1>5, <2>1, GoingOn
<1> HIDE DEF p
<1>7. /\ p.op = q.op /\ p.user = u /\ p.token = t /\ p.dest = q.dest /\ p.check = q.check /\ p.page = q.page
      /\ p.held = {} /\ p.org = q.org /\ Wants(p) = Elements(todo)
  BY <1>4, <1>6 DEF SameMatter, IsAsked, Wants
<1>8. IsAbout(p)
  BY <1>2, <1>6, <1>7 DEF IsAbout, IsAsked, u
<1>9. LocksInOrder(p)
  BY <1>5, <1>6, <1>7, InOrderFirst
<1>t. /\ Wants(p) \subseteq CredentialRows(p) /\ {Account(p.user), Token(p.token)} \subseteq Wants(p)
      /\ o # None => CredentialRows(p) \subseteq Wants(p)
  <2>1. CredentialRows(p) = {Account(u), Token(t)} \cup (IF TokenOf[t].org = None THEN {}
                                                    ELSE {Membership(u, TokenOf[t].org), Project(TokenOf[t].org)})
    BY <1>7 DEF CredentialRows
  <2> QED BY <1>2, <1>5, <1>7, <2>1
<1>10. InPhase(p)
  BY <1>6, <1>t DEF InPhase
<1>11. CheckInPhase(p) /\ MoveInPhase(p) /\ PageInPhase(p) /\ DeletionInPhase(p)
  BY <1>6 DEF CheckInPhase, MoveInPhase, PageInPhase, DeletionInPhase
<1>12. InScope(p)
  BY <1>6 DEF InScope
<1>13. RequestRight(p)
  BY <1>6, <1>8, <1>9, <1>10, <1>11, <1>12 DEF RequestRight
<1>g. \A g \in Pages : Page(g) \notin Wants(p)
  <2> SUFFICES ASSUME NEW g \in Pages, Page(g) \in Wants(p) PROVE FALSE
    OBVIOUS
  <2>1. Page(g) \in {Account(u), Token(t), Membership(u, o), Project(o)}
    BY <1>5, <1>7
  <2> QED BY <2>1, PageIs, AccountIs, TokenIs, MembershipIs, ProjectIs
<1>14. StillTrue(p, role, home, page, token, suspended)
  <2>1. IsNewStill(p, home, page)
    BY <1>7, NewIsNew
  <2>2. TokenIsGood(p, role, suspended) /\ CheckIsAtHome(p, home) /\ MayChange(p, role)
    BY <1>6 DEF TokenIsGood, CheckIsAtHome, MayChange, CheckOps
  <2>3. ListsItsOwn(p, home) /\ PagesAreOfIt(p, page) /\ DeletesItsOwn(p, role, home, token)
    BY <1>6, <1>g DEF ListsItsOwn, PagesAreOfIt, DeletesItsOwn
  <2>4. AboutToken(p, token)
    BY <1>7, <1>t DEF AboutToken, o
  <2> QED BY <2>1, <2>2, <2>3, <2>4 DEF StillTrue
<1>15. ApartFromOthers(r, p)
  BY <1>7, <1>g, NewIsApart
<1> QED BY <1>1, <1>13, <1>14, <1>15, MovesRight DEF Fits

LEMMA RequestedRight ==
    ASSUME AccessRight, NEW r \in Requests, Requested(r)
    PROVE  AccessRight'
<1>1. PICK a \in Asked :
         \/ \E u \in SignedIn : CallsWithSession(r, u, FromAsked(a))
         \/ \E t \in Tokens : CallsWithToken(r, t, FromAsked(a))
  BY DEF Requested, FromAsked
<1>2. IsAsked(FromAsked(a))
  BY AskedIs
<1>3. CASE \E u \in SignedIn : CallsWithSession(r, u, FromAsked(a))
  BY <1>2, <1>3, SessionRight, AccessAssumption
<1>4. CASE \E t \in Tokens : CallsWithToken(r, t, FromAsked(a))
  BY <1>2, <1>4, TokenRight
<1> QED BY <1>1, <1>3, <1>4

LEMMA AtIs ==
    ASSUME NEW r \in Requests, NEW pc, At(r, pc)
    PROVE  req[r].pc = pc /\ req[r].todo = <<>> /\ Wants(req[r]) = req[r].held
BY ElementsOfFew DEF At, Wants

LEMMA WantsNone == ASSUME NEW p, p.todo = <<>> PROVE Wants(p) = p.held
BY ElementsOfFew DEF Wants

LEMMA WantsOne == ASSUME NEW p, NEW l \in Rows, p.todo = <<l>> PROVE Wants(p) = p.held \cup {l}
BY ElementsOfFew DEF Wants

\* A request that has no page to go on with.
LEMMA WithoutPages ==
    ASSUME NEW p, NEW S, Wants(p) \subseteq S,
           \A l \in S : l[1] # "page"
    PROVE  \A g \in Pages : Page(g) \notin Wants(p)
BY PageIs

-----------------------------------------------------------------------------
(* The token is read, and touched *)

WithBound(q, o) == [q EXCEPT !.bound = o]

LEMMA WithBoundIs ==
    ASSUME NEW q \in Request, NEW o \in Orgs \cup {None}
    PROVE  LET p == WithBound(q, o) IN
           /\ p \in Request /\ p.pc = q.pc /\ p.todo = q.todo /\ p.held = q.held /\ p.org = q.org /\ p.tries = q.tries
           /\ p.op = q.op /\ p.user = q.user /\ p.token = q.token /\ p.dest = q.dest
           /\ p.check = q.check /\ p.page = q.page /\ p.lists = q.lists /\ p.bound = o
<1> DEFINE p == WithBound(q, o)
<1>1. p \in Request
  BY Zenon DEF Request, WithBound
<1>2. /\ p.pc = q.pc /\ p.todo = q.todo /\ p.held = q.held /\ p.org = q.org /\ p.tries = q.tries
      /\ p.op = q.op /\ p.user = q.user /\ p.token = q.token /\ p.dest = q.dest
      /\ p.check = q.check /\ p.page = q.page /\ p.lists = q.lists /\ p.bound = o
  BY DEF Request, WithBound
<1> QED BY <1>1, <1>2

LEMMA ReadsTokenRight ==
    ASSUME AccessRight, NEW r \in Requests, ReadsToken(r)
    PROVE  AccessRight'
<1> DEFINE q == req[r]
           t == q.token
           o == token[t].org
           m == WithBound(q, o)
           p == Onward(m, "touching", <<>>)
<1>a. CASE ~Usable(t)
  <2>1. Refused(r)
    BY <1>a DEF ReadsToken
  <2> QED BY <2>1, RefusedRight
<1>b. CASE Usable(t)
  <2>1. Set(r, p) /\ UNCHANGED <<tables, changes>> /\ At(r, "authenticating")
    BY <1>b DEF ReadsToken, Goes, Onward, WithBound
  <2>2. q.pc = "authenticating" /\ q.todo = <<>> /\ Wants(q) = q.held
    BY <2>1, AtIs
  <2>3. q \in Request /\ IsAbout(q) /\ InPhase(q) /\ AboutToken(q, token) /\ IsNewStill(q, home, page)
    BY RequestsAre, RequestsKnow
  <2>4. t \in Tokens /\ q.user = TokenOf[t].user /\ o \in Orgs \cup {None} /\ o \in {TokenOf[t].org, None}
        /\ q.user \in Users
    BY <2>2, <2>3 DEF IsAbout, AccessRight, TablesRight
  <2>5. /\ q.user \notin suspended /\ o = TokenOf[t].org
        /\ o # None => role[<<q.user, o>>] # "none"
    BY <1>b, <2>4 DEF Usable
  <2>6. /\ {Account(q.user), Token(t)} \subseteq q.held /\ q.held \subseteq CredentialRows(q)
        /\ o # None => CredentialRows(q) \subseteq q.held
    BY <2>2, <2>3 DEF InPhase, AboutToken
  <2> HIDE DEF q, o, t
  <2>7. /\ m \in Request /\ m.held = q.held /\ m.org = q.org
        /\ m.op = q.op /\ m.user = q.user /\ m.token = q.token /\ m.dest = q.dest
        /\ m.check = q.check /\ m.page = q.page /\ m.lists = q.lists /\ m.bound = o
    BY <2>3, <2>4, WithBoundIs
  <2> HIDE DEF m
  <2>8. /\ p \in Request /\ p.pc = "touching" /\ p.todo = <<>> /\ p.held = m.held /\ p.org = m.org /\ SameMatter(p, m)
    <3>1. "touching" \in Pcs /\ <<>> \in Seq(Rows)
      BY ElementsOfFew DEF Pcs
    <3> QED BY <2>7, <3>1, GoingOn
  <2> HIDE DEF p
  <2>9. /\ p.op = q.op /\ p.user = q.user /\ p.token = t /\ p.dest = q.dest /\ p.check = q.check /\ p.page = q.page
        /\ p.bound = o /\ p.held = q.held /\ p.org = q.org /\ Wants(p) = q.held
    BY <2>7, <2>8, WantsNone DEF SameMatter, t
  <2>10. CredentialRows(p) = CredentialRows(q)
    BY <2>9 DEF CredentialRows, t
  <2>11. IsAbout(p)
    BY <2>2, <2>3, <2>4, <2>8, <2>9 DEF IsAbout
  <2>12. LocksInOrder(p)
    BY <2>8, InOrderNone
  <2>13. InPhase(p)
    BY <2>6, <2>8, <2>9, <2>10 DEF InPhase
  <2>14. CheckInPhase(p) /\ MoveInPhase(p) /\ PageInPhase(p) /\ DeletionInPhase(p) /\ InScope(p)
    BY <2>8 DEF CheckInPhase, MoveInPhase, PageInPhase, DeletionInPhase, InScope
  <2>15. RequestRight(p)
    BY <2>8, <2>11, <2>12, <2>13, <2>14 DEF RequestRight
  <2>16. AboutToken(p, token)
    BY <2>6, <2>9, <2>10 DEF AboutToken, o
  <2>17. TokenIsGood(p, role, suspended)
    <3>1. o # None => Membership(q.user, o) \in q.held
      BY <2>5, <2>6 DEF CredentialRows, t
    <3> QED BY <2>5, <2>9, <3>1 DEF TokenIsGood
  <2>g. \A g \in Pages : Page(g) \notin Wants(p)
    <3>1. \A l \in CredentialRows(q) : l[1] # "page"
      BY AccountIs, TokenIs, MembershipIs, ProjectIs DEF CredentialRows
    <3> QED BY <2>6, <2>9, <3>1, WithoutPages
  <2>18. /\ CheckIsAtHome(p, home) /\ MayChange(p, role) /\ IsNewStill(p, home, page) /\ ListsItsOwn(p, home)
         /\ PagesAreOfIt(p, page) /\ DeletesItsOwn(p, role, home, token)
    BY <2>3, <2>8, <2>9, <2>g DEF CheckIsAtHome, MayChange, IsNewStill, ListsItsOwn, PagesAreOfIt, DeletesItsOwn
  <2>19. Fits(p)
    BY <2>15, <2>16, <2>17, <2>18 DEF Fits, StillTrue
  <2>20. p.held \subseteq req[r].held /\ p.op = req[r].op /\ p.check = req[r].check /\ p.page = req[r].page
    BY <2>9 DEF q
  <2> QED BY <2>1, <2>19, <2>20, <2>g, GoesRight
<1> QED BY <1>a, <1>b

WithNothing(q) == [q EXCEPT !.held = {}]

LEMMA WithNothingIs ==
    ASSUME NEW q \in Request
    PROVE  LET p == WithNothing(q) IN
           p \in Request /\ p.held = {} /\ p.org = q.org /\ SameMatter(p, q)
<1> DEFINE p == WithNothing(q)
<1>1. p \in Request
  BY Zenon DEF Request, WithNothing
<1>2. p.held = {} /\ p.org = q.org /\ SameMatter(p, q)
  BY DEF Request, WithNothing, SameMatter
<1> QED BY <1>1, <1>2

LEMMA TouchesRight ==
    ASSUME AccessRight, NEW r \in Requests, Touches(r)
    PROVE  AccessRight'
<1> DEFINE q == req[r]
           t == token[q.token]
           m == WithNothing(q)
           p == Onward(m, Accepted(q), <<>>)
<1>a. CASE ~(t.org = q.bound /\ ~t.ended)
  <2>1. Refused(r)
    BY <1>a DEF Touches
  <2> QED BY <2>1, RefusedRight
<1>b. CASE t.org = q.bound /\ ~t.ended
  <2>1. Set(r, p) /\ UNCHANGED <<tables, changes>> /\ At(r, "touching")
    BY <1>b DEF Touches, Goes, Onward, WithNothing
  <2>2. q.pc = "touching"
    BY <2>1, AtIs
  <2>3. q \in Request /\ IsAbout(q) /\ IsNewStill(q, home, page)
    BY RequestsAre, RequestsKnow
  <2> HIDE DEF q, t
  <2>4. m \in Request /\ m.held = {} /\ m.org = q.org /\ SameMatter(m, q)
    BY <2>3, WithNothingIs
  <2> HIDE DEF m
  <2>5. Accepted(q) \in {"resolved", "accepted"} /\ Accepted(q) \in Pcs /\ <<>> \in Seq(Rows)
    BY ElementsOfFew DEF Accepted, Pcs
  <2>6. p \in Request /\ p.pc = Accepted(q) /\ p.todo = <<>> /\ p.held = m.held /\ p.org = m.org /\ SameMatter(p, m)
    <3>1. m \in Request /\ Accepted(q) \in Pcs /\ <<>> \in Seq(Rows)
      BY <2>4, <2>5
    <3> QED BY <3>1, GoingOn
  <2> HIDE DEF p
  <2>7. /\ p.op = q.op /\ p.user = q.user /\ p.token = q.token /\ p.dest = q.dest /\ p.check = q.check /\ p.page = q.page
        /\ p.bound = q.bound /\ p.held = {} /\ p.org = q.org /\ Wants(p) = {}
    BY <2>4, <2>6, WantsNone DEF SameMatter
  <2>8. IsAbout(p)
    BY <2>2, <2>3, <2>5, <2>6, <2>7 DEF IsAbout
  <2>9. LocksInOrder(p)
    BY <2>6, InOrderNone
  <2>10. InPhase(p)
    BY <2>5, <2>6, <2>7 DEF InPhase, Accepted
  <2>11. CheckInPhase(p) /\ MoveInPhase(p) /\ PageInPhase(p) /\ DeletionInPhase(p)
    BY <2>5, <2>6 DEF CheckInPhase, MoveInPhase, PageInPhase, DeletionInPhase
  <2>12. InScope(p)
    BY <2>5, <2>6, <2>7 DEF InScope, Accepted, CheckOps
  <2>13. RequestRight(p)
    BY <2>6, <2>8, <2>9, <2>10, <2>11, <2>12 DEF RequestRight
  <2>14. StillTrue(p, role, home, page, token, suspended)
    <3>1. AboutToken(p, token) /\ TokenIsGood(p, role, suspended) /\ CheckIsAtHome(p, home) /\ MayChange(p, role)
      BY <2>5, <2>6 DEF AboutToken, TokenIsGood, CheckIsAtHome, MayChange
    <3>2. IsNewStill(p, home, page) /\ ListsItsOwn(p, home) /\ PagesAreOfIt(p, page) /\ DeletesItsOwn(p, role, home, token)
      BY <2>3, <2>5, <2>6, <2>7 DEF IsNewStill, ListsItsOwn, PagesAreOfIt, DeletesItsOwn
    <3> QED BY <3>1, <3>2 DEF StillTrue
  <2>15. p.held \subseteq req[r].held /\ p.op = req[r].op /\ p.check = req[r].check /\ p.page = req[r].page
    BY <2>7 DEF q
  <2> QED BY <2>1, <2>7, <2>13, <2>14, <2>15, GoesRight DEF Fits
<1> QED BY <1>a, <1>b

\* Once it is authenticated, what a request is about stays.
StillAbout(p, q) ==
    /\ IsAbout(p) /\ IsNewStill(p, home, page) /\ AboutToken(p, token) /\ TokenIsGood(p, role, suspended)
    /\ p.op = q.op /\ p.user = q.user /\ p.token = q.token /\ p.dest = q.dest
    /\ p.check = q.check /\ p.page = q.page /\ p.lists = q.lists /\ p.bound = q.bound
    /\ q.op \in Ops /\ q.user \in Users

LEMMA StaysAbout ==
    ASSUME NEW p, NEW q, SameMatter(p, q), IsAbout(q), q.pc \notin {"idle", "ended"}, IsNewStill(q, home, page),
           p.pc \notin {"idle", "ended", "authenticating", "touching"}, p.org = q.org \/ p.org \in Orgs
    PROVE  StillAbout(p, q)
<1>1. /\ p.op = q.op /\ p.user = q.user /\ p.token = q.token /\ p.dest = q.dest
      /\ p.check = q.check /\ p.page = q.page /\ p.lists = q.lists /\ p.bound = q.bound
  BY DEF SameMatter
<1>2. IsAbout(p)
  BY <1>1 DEF IsAbout
<1>3. IsNewStill(p, home, page)
  BY <1>1 DEF IsNewStill
<1>4. AboutToken(p, token) /\ TokenIsGood(p, role, suspended)
  BY DEF AboutToken, TokenIsGood
<1> QED BY <1>1, <1>2, <1>3, <1>4 DEF IsAbout, StillAbout

LEMMA PcsAre ==
    /\ "accepted" \in Pcs /\ "resolved" \in Pcs /\ "accounts" \in Pcs /\ "check" \in Pcs /\ "membership" \in Pcs
    /\ "source" \in Pcs /\ "destination" \in Pcs /\ "pages" \in Pcs /\ "coordinated" \in Pcs /\ "deciding" \in Pcs
    /\ "writing" \in Pcs /\ <<>> \in Seq(Rows)
BY ElementsOfFew DEF Pcs

-----------------------------------------------------------------------------
(* What it is about is read *)

LEMMA ResolvesCheckRight ==
    ASSUME AccessRight, NEW r \in Requests, ResolvesCheck(r)
    PROVE  AccessRight'
<1> DEFINE q == req[r]
           o == home[q.check]
           p == OnwardWith(q, o, "resolved", <<>>)
<1>a. CASE ~(o \in Orgs /\ IsMember(q.user, o) /\ requireCheckAccess(q, o))
  <2>1. Refused(r)
    BY <1>a DEF ResolvesCheck
  <2> QED BY <2>1, RefusedRight
<1>b. CASE o \in Orgs /\ IsMember(q.user, o) /\ requireCheckAccess(q, o)
  <2>1. /\ Set(r, p) /\ UNCHANGED <<tables, changes>> /\ At(r, "accepted") /\ q.op \in {"edit check", "delete check"}
    BY <1>b DEF ResolvesCheck, Goes, OnwardWith, Onward, WithOrg
  <2>2. q.pc = "accepted"
    BY <2>1, AtIs
  <2>3. q \in Request /\ IsAbout(q) /\ InPhase(q) /\ IsNewStill(q, home, page)
    BY RequestsAre, RequestsKnow
  <2>4. q.held = {} /\ o \in Orgs
    BY <1>b, <2>2, <2>3 DEF InPhase
  <2>s. requireCheckAccess(q, o)
    BY <1>b
  <2> HIDE DEF q, o
  <2>5. p \in Request /\ p.pc = "resolved" /\ p.todo = <<>> /\ p.held = q.held /\ p.org = o /\ SameMatter(p, q)
    <3>1. q \in Request /\ o \in Orgs /\ "resolved" \in Pcs /\ <<>> \in Seq(Rows)
      BY <2>3, <2>4, PcsAre
    <3>2. IsOnward(p, q, o, "resolved", <<>>)
      BY <3>1, GoingOnWithOrg
    <3> QED BY <3>2 DEF IsOnward
  <2> HIDE DEF p
  <2>6. /\ IsAbout(p) /\ IsNewStill(p, home, page) /\ AboutToken(p, token) /\ TokenIsGood(p, role, suspended)
        /\ p.op = q.op /\ p.check = q.check /\ p.page = q.page /\ p.token = q.token /\ p.bound = q.bound
    <3>1. StillAbout(p, q)
      BY <2>2, <2>3, <2>4, <2>5, StaysAbout
    <3> QED BY <3>1 DEF StillAbout
  <2>7. Wants(p) = {}
    BY <2>4, <2>5, WantsNone
  <2>8. LocksInOrder(p)
    BY <2>5, InOrderNone
  <2>9. InPhase(p)
    BY <2>1, <2>4, <2>5, <2>6 DEF InPhase
  <2>10. CheckInPhase(p) /\ MoveInPhase(p) /\ PageInPhase(p) /\ DeletionInPhase(p)
    BY <2>5 DEF CheckInPhase, MoveInPhase, PageInPhase, DeletionInPhase
  <2>11. InScope(p)
    BY <2>1, <2>s, <2>5, <2>6 DEF InScope, requireCheckAccess, IsScoped
  <2>12. CheckIsAtHome(p, home) /\ MayChange(p, role) /\ ListsItsOwn(p, home)
    BY <2>5 DEF CheckIsAtHome, MayChange, ListsItsOwn
  <2>13. PagesAreOfIt(p, page) /\ DeletesItsOwn(p, role, home, token)
    BY <2>5, <2>7 DEF PagesAreOfIt, DeletesItsOwn
  <2>14. Fits(p)
    BY <2>5, <2>6, <2>8, <2>9, <2>10, <2>11, <2>12, <2>13 DEF Fits, RequestRight, StillTrue
  <2>15. p.held \subseteq req[r].held /\ p.op = req[r].op /\ p.check = req[r].check /\ p.page = req[r].page
    BY <2>5, <2>6 DEF q
  <2> QED BY <2>1, <2>7, <2>14, <2>15, GoesRight
<1> QED BY <1>a, <1>b

LEMMA ResolvesOrgRight ==
    ASSUME AccessRight, NEW r \in Requests, ResolvesOrg(r)
    PROVE  AccessRight'
<1> DEFINE q == req[r]
           o == IF q.op = "move check" THEN q.dest ELSE q.org
           p == Onward(q, "resolved", <<>>)
<1>a. CASE ~(IsMember(q.user, o) /\ requireOperationAccess(q) /\ requireCheckAccess(q, o))
  <2>1. Refused(r)
    BY <1>a DEF ResolvesOrg
  <2> QED BY <2>1, RefusedRight
<1>b. CASE IsMember(q.user, o) /\ requireOperationAccess(q) /\ requireCheckAccess(q, o)
  <2>1. /\ Set(r, p) /\ UNCHANGED <<tables, changes>> /\ At(r, "accepted")
        /\ q.op \in {"create check", "create page", "move check"}
    BY <1>b DEF ResolvesOrg, Goes, Onward
  <2>2. q.pc = "accepted"
    BY <2>1, AtIs
  <2>3. q \in Request /\ IsAbout(q) /\ InPhase(q) /\ IsNewStill(q, home, page)
    BY RequestsAre, RequestsKnow
  <2>4. q.held = {}
    BY <2>2, <2>3 DEF InPhase
  <2>s. requireOperationAccess(q) /\ (q.op # "move check" => requireCheckAccess(q, q.org))
    BY <1>b
  <2> HIDE DEF q
  <2>5. p \in Request /\ p.pc = "resolved" /\ p.todo = <<>> /\ p.held = q.held /\ p.org = q.org /\ SameMatter(p, q)
    <3>1. q \in Request /\ "resolved" \in Pcs /\ <<>> \in Seq(Rows)
      BY <2>3, PcsAre
    <3> QED BY <3>1, GoingOn
  <2> HIDE DEF p
  <2>6. /\ IsAbout(p) /\ IsNewStill(p, home, page) /\ AboutToken(p, token) /\ TokenIsGood(p, role, suspended)
        /\ p.op = q.op /\ p.check = q.check /\ p.page = q.page /\ p.token = q.token /\ p.bound = q.bound
    <3>1. StillAbout(p, q)
      BY <2>2, <2>3, <2>5, StaysAbout
    <3> QED BY <3>1 DEF StillAbout
  <2>7. Wants(p) = {}
    BY <2>4, <2>5, WantsNone
  <2>8. LocksInOrder(p)
    BY <2>5, InOrderNone
  <2>9. InPhase(p)
    BY <2>1, <2>4, <2>5, <2>6 DEF InPhase
  <2>10. CheckInPhase(p) /\ MoveInPhase(p) /\ PageInPhase(p) /\ DeletionInPhase(p)
    BY <2>5 DEF CheckInPhase, MoveInPhase, PageInPhase, DeletionInPhase
  <2>11. InScope(p)
    BY <2>1, <2>s, <2>5, <2>6 DEF InScope, requireCheckAccess, requireOperationAccess, IsScoped, CheckOps
  <2>12. CheckIsAtHome(p, home) /\ MayChange(p, role) /\ ListsItsOwn(p, home)
    BY <2>5 DEF CheckIsAtHome, MayChange, ListsItsOwn
  <2>13. PagesAreOfIt(p, page) /\ DeletesItsOwn(p, role, home, token)
    BY <2>5, <2>7 DEF PagesAreOfIt, DeletesItsOwn
  <2>14. Fits(p)
    BY <2>5, <2>6, <2>8, <2>9, <2>10, <2>11, <2>12, <2>13 DEF Fits, RequestRight, StillTrue
  <2>15. p.held \subseteq req[r].held /\ p.op = req[r].op /\ p.check = req[r].check /\ p.page = req[r].page
    BY <2>5, <2>6 DEF q
  <2> QED BY <2>1, <2>7, <2>14, <2>15, GoesRight
<1> QED BY <1>a, <1>b

-----------------------------------------------------------------------------
(* Checks *)

LEMMA CheckOpFits ==
    ASSUME NEW p \in Request, p.op \in CheckOps, p.pc \in {"accounts", "check", "membership", "writing"},
           p.pc = "check" => p.op # "create check", p.org \in Orgs,
           IsAbout(p), IsNewStill(p, home, page), AboutToken(p, token), TokenIsGood(p, role, suspended),
           LocksInOrder(p), CheckInPhase(p), requireCheckAccess(p, p.org), CheckIsAtHome(p, home), MayChange(p, role)
    PROVE  Fits(p)
<1>1. InPhase(p)
  BY DEF InPhase, CheckOps
<1>2. MoveInPhase(p) /\ PageInPhase(p) /\ DeletionInPhase(p)
  BY DEF MoveInPhase, PageInPhase, DeletionInPhase, CheckOps
<1>3. InScope(p)
  BY DEF InScope, CheckOps
<1>4. ListsItsOwn(p, home) /\ PagesAreOfIt(p, page) /\ DeletesItsOwn(p, role, home, token)
  BY DEF ListsItsOwn, PagesAreOfIt, DeletesItsOwn, CheckOps
<1> QED BY <1>1, <1>2, <1>3, <1>4 DEF Fits, RequestRight, StillTrue

\* A step of a request that changes a check.
LEMMA CheckGoesRight ==
    ASSUME AccessRight, NEW r \in Requests, NEW p, NEW o, NEW pc, NEW todo, Set(r, p), UNCHANGED <<tables, changes>>,
           IsOnward(p, req[r], o, pc, todo), req[r].op \in CheckOps, Fits(p)
    PROVE  AccessRight'
<1>1. p.held \subseteq req[r].held /\ p.op = req[r].op /\ p.check = req[r].check /\ p.page = req[r].page
  BY DEF IsOnward, SameMatter
<1>2. p.op \notin {"update page", "move check", "delete org"}
  BY <1>1 DEF CheckOps
<1> QED BY <1>1, <1>2, GoesRight

\* What such a step keeps.
CheckOn(p, q, o, pc, todo) ==
    /\ p \in Request /\ p.pc = pc /\ p.todo = todo /\ p.held = q.held /\ p.org = o
    /\ p.op = q.op /\ p.user = q.user /\ p.check = q.check
    /\ IsAbout(p) /\ IsNewStill(p, home, page) /\ AboutToken(p, token) /\ TokenIsGood(p, role, suspended)
    /\ requireCheckAccess(p, p.org) /\ AccountsOf(p) = {Account(CreatorOf[o])}
    /\ p.user \in Users /\ CreatorOf[o] \in Users /\ ~Deletes(p)
    /\ p.op \in {"edit check", "delete check"} => p.check \in Checks

LEMMA CheckGoesOn ==
    ASSUME AccessRight, NEW r \in Requests, NEW p, NEW o \in Orgs, NEW pc, NEW todo, IsOnward(p, req[r], o, pc, todo),
           req[r].op \in CheckOps, req[r].pc \in {"resolved", "accounts", "check", "membership"},
           pc \in {"accounts", "check", "membership", "writing"}, o = req[r].org
    PROVE  CheckOn(p, req[r], o, pc, todo)
<1> DEFINE q == req[r]
<1>1. q \in Request /\ IsAbout(q) /\ InScope(q) /\ IsNewStill(q, home, page)
  BY RequestsAre, RequestsKnow
<1>2. /\ p \in Request /\ p.pc = pc /\ p.todo = todo /\ p.held = q.held /\ p.org = o /\ SameMatter(p, q)
  BY DEF IsOnward
<1>3. /\ q.pc = req[r].pc /\ q.op \in CheckOps /\ q.org = o
  OBVIOUS
<1>4. q.pc \in {"resolved", "accounts", "check", "membership"}
  OBVIOUS
<1> HIDE DEF q
<1>5. /\ IsAbout(p) /\ IsNewStill(p, home, page) /\ AboutToken(p, token) /\ TokenIsGood(p, role, suspended)
      /\ p.op = q.op /\ p.user = q.user /\ p.token = q.token /\ p.bound = q.bound /\ p.check = q.check
      /\ q.user \in Users
  <2>1. StillAbout(p, q)
    BY <1>1, <1>2, <1>4, StaysAbout
  <2> QED BY <2>1 DEF StillAbout
<1>6. requireCheckAccess(q, o)
  BY <1>1, <1>3, <1>4 DEF InScope
<1>7. requireCheckAccess(p, p.org)
  BY <1>2, <1>5, <1>6 DEF requireCheckAccess, IsScoped
<1>8. AccountsOf(p) = {Account(CreatorOf[o])}
  BY <1>2, <1>3, <1>5 DEF AccountsOf, CheckOps
<1>9. CreatorOf[o] \in Users /\ ~Deletes(p) /\ (p.op \in {"edit check", "delete check"} => p.check \in Checks)
  BY <1>3, <1>5, AccessAssumption DEF Deletes, CheckOps, IsAbout
<1>10. /\ p.held = req[r].held /\ p.op = req[r].op /\ p.user = req[r].user /\ p.check = req[r].check
  BY <1>2, <1>5 DEF q
<1> QED BY <1>2, <1>5, <1>7, <1>8, <1>9, <1>10 DEF CheckOn

LEMMA BeginsCheckRight ==
    ASSUME AccessRight, NEW r \in Requests, BeginsCheck(r)
    PROVE  AccessRight'
<1> DEFINE q == req[r]
           todo == <<Account(CreatorOf[q.org])>>
           p == Onward(q, "accounts", todo)
<1>a. CASE ~(q.org \in live /\ (q.op = "create check" \/ home[q.check] = q.org))
  <2>1. Refused(r)
    BY <1>a DEF BeginsCheck
  <2> QED BY <2>1, RefusedRight
<1>b. CASE q.org \in live /\ (q.op = "create check" \/ home[q.check] = q.org)
  <2>1. Set(r, p) /\ UNCHANGED <<tables, changes>> /\ At(r, "resolved") /\ q.op \in CheckOps
    BY <1>b DEF BeginsCheck, Goes, Onward
  <2>2. q.pc = "resolved" /\ q \in Request /\ InPhase(q) /\ q.org \in Orgs
    BY <1>b, <2>1, AtIs, RequestsAre DEF AccessRight, TablesRight
  <2>3. q.held = {} /\ Account(CreatorOf[q.org]) \in Rows
    BY <2>2, RowsAre, AccessAssumption DEF InPhase
  <2>4. todo \in Seq(Rows) /\ Elements(todo) = {Account(CreatorOf[q.org])} /\ "accounts" \in Pcs
    BY <2>3, ElementsOfFew, PcsAre
  <2>5. IsOnward(p, q, q.org, "accounts", todo)
    BY <2>2, <2>4, IsOnItsWay
  <2> HIDE DEF p
  <2>6. /\ p \in Request /\ p.pc = "accounts" /\ p.todo = todo /\ p.held = q.held /\ p.org = q.org /\ p.op = q.op
        /\ IsAbout(p) /\ IsNewStill(p, home, page) /\ AboutToken(p, token) /\ TokenIsGood(p, role, suspended)
        /\ requireCheckAccess(p, p.org) /\ AccountsOf(p) = {Account(CreatorOf[q.org])}
    <3>1. CheckOn(p, q, q.org, "accounts", todo)
      BY <2>1, <2>2, <2>5, CheckGoesOn
    <3> QED BY <3>1 DEF CheckOn
  <2> HIDE DEF q
  <2>7. LocksInOrder(p)
    BY <2>3, <2>6, InOrderFirst, AscendsFew
  <2>8. Wants(p) = AccountsOf(p)
    BY <2>3, <2>4, <2>6 DEF Wants
  <2> HIDE DEF todo
  <2>9. CheckInPhase(p) /\ CheckIsAtHome(p, home) /\ MayChange(p, role)
    BY <2>1, <2>6, <2>8 DEF CheckInPhase, CheckIsAtHome, MayChange, CheckOps
  <2>10. Fits(p)
    BY <2>1, <2>2, <2>6, <2>7, <2>9, CheckOpFits
  <2> QED BY <2>1, <2>5, <2>10, CheckGoesRight DEF q
<1> QED BY <1>a, <1>b

\* What a request that changes a check has locked.
LEMMA CheckHas ==
    ASSUME AccessRight, NEW r \in Requests, req[r].op \in CheckOps, req[r].pc \in {"accounts", "check", "membership", "writing"},
           req[r].todo = <<>>
    PROVE  LET q == req[r] IN
           /\ q.org \in Orgs /\ Account(CreatorOf[q.org]) \in q.held
           /\ q.held \subseteq {Account(CreatorOf[q.org])}
                 \cup (IF q.pc = "accounts" \/ q.op = "create check" THEN {} ELSE {Check(q.check)})
                 \cup (IF q.pc \in {"accounts", "check"} THEN {} ELSE {Membership(q.user, q.org)})
                 \cup (IF q.pc = "writing" /\ q.op = "create check" THEN {Project(q.org)} ELSE {})
           /\ q.pc \in {"check", "membership", "writing"} /\ q.op # "create check" => Check(q.check) \in q.held
           /\ q.pc \in {"membership", "writing"} => Membership(q.user, q.org) \in q.held
<1> DEFINE q == req[r]
<1>1. q \in Request /\ InPhase(q) /\ CheckInPhase(q) /\ Wants(q) = q.held
  BY RequestsAre, WantsNone
<1>2. q.op \in CheckOps /\ q.pc \in {"accounts", "check", "membership", "writing"}
  OBVIOUS
<1> HIDE DEF q
<1>3. AccountsOf(q) = {Account(CreatorOf[q.org])}
  BY <1>2 DEF AccountsOf, CheckOps
<1>4. q.org \in Orgs
  BY <1>1, <1>2 DEF InPhase, CheckOps
<1>5. /\ Account(CreatorOf[q.org]) \in q.held
      /\ q.held \subseteq {Account(CreatorOf[q.org])}
                 \cup (IF q.pc = "accounts" \/ q.op = "create check" THEN {} ELSE {Check(q.check)})
                 \cup (IF q.pc \in {"accounts", "check"} THEN {} ELSE {Membership(q.user, q.org)})
                 \cup (IF q.pc = "writing" /\ q.op = "create check" THEN {Project(q.org)} ELSE {})
      /\ q.pc \in {"check", "membership", "writing"} /\ q.op # "create check" => Check(q.check) \in q.held
      /\ q.pc \in {"membership", "writing"} => Membership(q.user, q.org) \in q.held
  BY <1>1, <1>2, <1>3 DEF CheckInPhase
<1> QED BY <1>4, <1>5 DEF q

LEMMA AccountLevel == \A p, u : Level(p, Account(u)) = 1
<1> TAKE p, u
<1>1. CASE Deletes(p)
  BY <1>1, DeletionLevels
<1>2. CASE ~Deletes(p)
  BY <1>2, OtherLevels
<1> QED BY <1>1, <1>2

LEMMA LocksCheckRight ==
    ASSUME AccessRight, NEW r \in Requests, LocksCheck(r)
    PROVE  AccessRight'
<1> DEFINE q == req[r]
           todo == <<Check(q.check)>>
           p == Onward(q, "check", todo)
<1>a. CASE q.org \notin live
  <2>1. Refused(r)
    BY <1>a DEF LocksCheck
  <2> QED BY <2>1, RefusedRight
<1>b. CASE q.org \in live
  <2>1. /\ Set(r, p) /\ UNCHANGED <<tables, changes>> /\ At(r, "accounts") /\ q.op \in {"edit check", "delete check"}
        /\ q.op \in CheckOps
    BY <1>b DEF LocksCheck, Goes, Onward, CheckOps
  <2>2. q.pc = "accounts" /\ q.todo = <<>> /\ q \in Request
    BY <2>1, AtIs, RequestsAre
  <2>3. q.org \in Orgs /\ Account(CreatorOf[q.org]) \in q.held /\ q.held \subseteq {Account(CreatorOf[q.org])}
    BY <2>1, <2>2, CheckHas
  <2>4. q.check \in Checks /\ Check(q.check) \in Rows
    <3>1. IsAbout(q)
      BY RequestsAre
    <3> QED BY <2>1, <3>1, RowsAre DEF IsAbout
  <2>5. todo \in Seq(Rows) /\ "check" \in Pcs
    BY <2>4, ElementsOfFew, PcsAre
  <2>6. IsOnward(p, q, q.org, "check", todo)
    BY <2>2, <2>5, IsOnItsWay
  <2> HIDE DEF p
  <2>7. CheckOn(p, q, q.org, "check", todo)
    BY <2>1, <2>2, <2>3, <2>6, CheckGoesOn
  <2> HIDE DEF q
  <2>8. /\ p \in Request /\ p.pc = "check" /\ p.todo = <<Check(q.check)>> /\ p.held = q.held /\ p.org = q.org /\ p.op = q.op
        /\ IsAbout(p) /\ IsNewStill(p, home, page) /\ AboutToken(p, token) /\ TokenIsGood(p, role, suspended)
        /\ requireCheckAccess(p, p.org) /\ AccountsOf(p) = {Account(CreatorOf[q.org])} /\ ~Deletes(p)
        /\ p.check = q.check
    BY <2>7 DEF CheckOn
  <2>9. LocksInOrder(p)
    <3>1. \A k \in p.held : Level(p, k) <= 1
      BY <2>3, <2>8, AccountLevel
    <3>2. Level(p, Check(q.check)) >= 1 /\ Check(q.check)[1] # "account"
      BY <2>8, OtherLevels, CheckIs
    <3> QED BY <2>4, <2>8, <3>1, <3>2, InOrderOne
  <2>10. Wants(p) = q.held \cup {Check(q.check)}
    BY <2>4, <2>8, WantsOne
  <2>11. CheckInPhase(p)
    BY <2>1, <2>3, <2>8, <2>10 DEF CheckInPhase
  <2>12. CheckIsAtHome(p, home) /\ MayChange(p, role)
    BY <2>1, <2>8 DEF CheckIsAtHome, MayChange, CheckOps
  <2>13. Fits(p)
    BY <2>1, <2>3, <2>8, <2>9, <2>11, <2>12, CheckOpFits
  <2> QED BY <2>1, <2>6, <2>13, CheckGoesRight DEF q
<1> QED BY <1>a, <1>b

LEMMA AssertsExpectedRight ==
    ASSUME AccessRight, NEW r \in Requests, AssertsExpected(r)
    PROVE  AccessRight'
<1> DEFINE q == req[r]
           o == home[q.check]
           todo == <<Membership(q.user, o)>>
           p == OnwardWith(q, o, "membership", todo)
<1>a. CASE ~IsExpected(q)
  <2>1. Refused(r)
    BY <1>a DEF AssertsExpected
  <2> QED BY <2>1, RefusedRight
<1>b. CASE IsExpected(q)
  <2>1. /\ Set(r, p) /\ UNCHANGED <<tables, changes>> /\ At(r, "check") /\ q.op \in {"edit check", "delete check"}
        /\ q.op \in CheckOps
    BY <1>b DEF AssertsExpected, Goes, Onward, OnwardWith, WithOrg, CheckOps
  <2>2. q.pc = "check" /\ q.todo = <<>> /\ q \in Request
    BY <2>1, AtIs, RequestsAre
  <2>3. /\ q.org \in Orgs /\ Account(CreatorOf[q.org]) \in q.held
        /\ q.held \subseteq {Account(CreatorOf[q.org]), Check(q.check)} /\ Check(q.check) \in q.held
    BY <2>1, <2>2, CheckHas
  <2>o. home[q.check] = q.org
    BY <1>b DEF IsExpected
  <2>4. q.user \in Users /\ Membership(q.user, o) \in Rows
    <3>1. IsAbout(q)
      BY RequestsAre
    <3>2. q.user \in Users
      BY <2>2, <3>1 DEF IsAbout
    <3> QED BY <2>3, <2>o, <3>2, RowsAre
  <2>5. todo \in Seq(Rows) /\ "membership" \in Pcs /\ o \in Orgs
    BY <2>3, <2>4, <2>o, ElementsOfFew, PcsAre
  <2> HIDE DEF todo, o
  <2>6. IsOnward(p, q, o, "membership", todo)
    BY <2>2, <2>5, GoingOnWithOrg
  <2>o1. o = q.org
    BY <2>o DEF o
  <2> HIDE DEF p
  <2>7. CheckOn(p, q, o, "membership", todo)
    BY <2>1, <2>2, <2>5, <2>6, <2>o1, CheckGoesOn
  <2> HIDE DEF q
  <2>8. /\ p \in Request /\ p.pc = "membership" /\ p.todo = <<Membership(q.user, o)>> /\ p.held = q.held /\ p.org = o /\ p.op = q.op
        /\ IsAbout(p) /\ IsNewStill(p, home, page) /\ AboutToken(p, token) /\ TokenIsGood(p, role, suspended)
        /\ requireCheckAccess(p, p.org) /\ AccountsOf(p) = {Account(CreatorOf[o])} /\ ~Deletes(p)
        /\ p.check = q.check /\ p.user = q.user
    BY <2>7 DEF CheckOn, todo
  <2>9. LocksInOrder(p)
    <3>1. \A k \in p.held : Level(p, k) <= 2
      <4>1. \A k \in p.held : k = Account(CreatorOf[q.org]) \/ k = Check(q.check)
        BY <2>3, <2>8
      <4>2. Level(p, Account(CreatorOf[q.org])) = 1 /\ Level(p, Check(q.check)) = 2
        BY <2>8, OtherLevels
      <4> QED BY <4>1, <4>2
    <3>2. Level(p, Membership(q.user, o)) >= 2 /\ Membership(q.user, o)[1] # "account"
      BY <2>8, OtherLevels, MembershipIs
    <3> QED BY <2>4, <2>8, <3>1, <3>2, InOrderOne DEF o
  <2>10. Wants(p) = q.held \cup {Membership(q.user, o)}
    BY <2>4, <2>8, WantsOne DEF o
  <2>11. CheckInPhase(p)
    BY <2>1, <2>3, <2>8, <2>10, <2>o1 DEF CheckInPhase
  <2>12. CheckIsAtHome(p, home) /\ MayChange(p, role)
    BY <2>1, <2>8 DEF CheckIsAtHome, MayChange, CheckOps, o
  <2>13. Fits(p)
    BY <2>1, <2>5, <2>8, <2>9, <2>11, <2>12, CheckOpFits
  <2> QED BY <2>1, <2>6, <2>13, CheckGoesRight DEF q
<1> QED BY <1>a, <1>b

LEMMA LocksMemberRight ==
    ASSUME AccessRight, NEW r \in Requests, LocksMember(r)
    PROVE  AccessRight'
<1> DEFINE q == req[r]
           todo == <<Membership(q.user, q.org)>>
           p == Onward(q, "membership", todo)
<1>a. CASE q.org \notin live
  <2>1. Refused(r)
    BY <1>a DEF LocksMember
  <2> QED BY <2>1, RefusedRight
<1>b. CASE q.org \in live
  <2>1. /\ Set(r, p) /\ UNCHANGED <<tables, changes>> /\ At(r, "accounts") /\ q.op = "create check"
        /\ q.op \in CheckOps
    BY <1>b DEF LocksMember, Goes, Onward, CheckOps
  <2>2. q.pc = "accounts" /\ q.todo = <<>> /\ q \in Request
    BY <2>1, AtIs, RequestsAre
  <2>3. q.org \in Orgs /\ Account(CreatorOf[q.org]) \in q.held /\ q.held \subseteq {Account(CreatorOf[q.org])}
    BY <2>1, <2>2, CheckHas
  <2>4. q.user \in Users /\ Membership(q.user, q.org) \in Rows
    <3>1. IsAbout(q)
      BY RequestsAre
    <3>2. q.user \in Users
      BY <2>2, <3>1 DEF IsAbout
    <3> QED BY <2>3, <3>2, RowsAre
  <2>5. todo \in Seq(Rows) /\ "membership" \in Pcs
    BY <2>4, ElementsOfFew, PcsAre
  <2>6. IsOnward(p, q, q.org, "membership", todo)
    BY <2>2, <2>5, IsOnItsWay
  <2> HIDE DEF p
  <2>7. CheckOn(p, q, q.org, "membership", todo)
    BY <2>1, <2>2, <2>3, <2>6, CheckGoesOn
  <2> HIDE DEF q
  <2>8. /\ p \in Request /\ p.pc = "membership" /\ p.todo = <<Membership(q.user, q.org)>> /\ p.held = q.held
        /\ p.org = q.org /\ p.op = q.op /\ p.user = q.user
        /\ IsAbout(p) /\ IsNewStill(p, home, page) /\ AboutToken(p, token) /\ TokenIsGood(p, role, suspended)
        /\ requireCheckAccess(p, p.org) /\ AccountsOf(p) = {Account(CreatorOf[q.org])} /\ ~Deletes(p)
    BY <2>7 DEF CheckOn
  <2>9. LocksInOrder(p)
    <3>1. \A k \in p.held : Level(p, k) <= 1
      BY <2>3, <2>8, AccountLevel
    <3>2. Level(p, Membership(q.user, q.org)) >= 1 /\ Membership(q.user, q.org)[1] # "account"
      BY <2>8, OtherLevels, MembershipIs
    <3> QED BY <2>4, <2>8, <3>1, <3>2, InOrderOne
  <2>10. Wants(p) = q.held \cup {Membership(q.user, q.org)}
    BY <2>4, <2>8, WantsOne
  <2>11. CheckInPhase(p)
    BY <2>1, <2>3, <2>8, <2>10 DEF CheckInPhase
  <2>12. CheckIsAtHome(p, home) /\ MayChange(p, role)
    BY <2>1, <2>8 DEF CheckIsAtHome, MayChange, CheckOps
  <2>13. Fits(p)
    BY <2>1, <2>3, <2>8, <2>9, <2>11, <2>12, CheckOpFits
  <2> QED BY <2>1, <2>6, <2>13, CheckGoesRight DEF q
<1> QED BY <1>a, <1>b

LEMMA AssertsMemberRight ==
    ASSUME AccessRight, NEW r \in Requests, AssertsMember(r)
    PROVE  AccessRight'
<1> DEFINE q == req[r]
           todo == IF q.op = "create check" THEN <<Project(q.org)>> ELSE <<>>
           p == Onward(q, "writing", todo)
<1>a. CASE ~IsMember(q.user, q.org)
  <2>1. Refused(r)
    BY <1>a DEF AssertsMember
  <2> QED BY <2>1, RefusedRight
<1>b. CASE IsMember(q.user, q.org)
  <2>1. Set(r, p) /\ UNCHANGED <<tables, changes>> /\ At(r, "membership") /\ q.op \in CheckOps
    BY <1>b DEF AssertsMember, Goes, Onward
  <2>2. q.pc = "membership" /\ q.todo = <<>> /\ q \in Request /\ CheckIsAtHome(q, home)
    BY <2>1, AtIs, RequestsAre, RequestsKnow
  <2>3. /\ q.org \in Orgs /\ Account(CreatorOf[q.org]) \in q.held
        /\ q.held \subseteq {Account(CreatorOf[q.org]), Membership(q.user, q.org)}
              \cup (IF q.op = "create check" THEN {} ELSE {Check(q.check)})
        /\ q.op # "create check" => Check(q.check) \in q.held
        /\ Membership(q.user, q.org) \in q.held
    BY <2>1, <2>2, CheckHas
  <2>m. role[<<q.user, q.org>>] # "none"
    BY <1>b DEF IsMember
  <2>4. Project(q.org) \in Rows
    BY <2>3, RowsAre
  <2>5. todo \in Seq(Rows) /\ "writing" \in Pcs
    BY <2>4, ElementsOfFew, PcsAre
  <2> HIDE DEF todo
  <2>6. IsOnward(p, q, q.org, "writing", todo)
    BY <2>2, <2>5, IsOnItsWay
  <2> HIDE DEF p
  <2>7. CheckOn(p, q, q.org, "writing", todo)
    BY <2>1, <2>2, <2>3, <2>6, CheckGoesOn
  <2> HIDE DEF q
  <2>8. /\ p \in Request /\ p.pc = "writing" /\ p.todo = todo /\ p.held = q.held /\ p.org = q.org /\ p.op = q.op
        /\ IsAbout(p) /\ IsNewStill(p, home, page) /\ AboutToken(p, token) /\ TokenIsGood(p, role, suspended)
        /\ requireCheckAccess(p, p.org) /\ AccountsOf(p) = {Account(CreatorOf[q.org])} /\ ~Deletes(p)
        /\ p.check = q.check /\ p.user = q.user
    BY <2>7 DEF CheckOn
  <2>9. LocksInOrder(p)
    <3>1. CASE q.op = "create check"
      <4>1. p.todo = <<Project(q.org)>>
        BY <2>8, <3>1 DEF todo
      <4>2. \A k \in p.held : Level(p, k) <= 3
        <5>1. \A k \in p.held : k = Account(CreatorOf[q.org]) \/ k = Membership(q.user, q.org)
          BY <2>3, <2>8, <3>1
        <5>2. Level(p, Account(CreatorOf[q.org])) = 1 /\ Level(p, Membership(q.user, q.org)) = 3
          BY <2>8, OtherLevels
        <5> QED BY <5>1, <5>2
      <4>3. Level(p, Project(q.org)) >= 3 /\ Project(q.org)[1] # "account"
        BY <2>8, OtherLevels, ProjectIs
      <4> QED BY <2>4, <4>1, <4>2, <4>3, InOrderOne
    <3>2. CASE q.op # "create check"
      BY <2>8, <3>2, InOrderNone DEF todo
    <3> QED BY <3>1, <3>2
  <2>10. Wants(p) = q.held \cup (IF q.op = "create check" THEN {Project(q.org)} ELSE {})
    BY <2>4, <2>8, WantsOne, WantsNone DEF todo
  <2>t. q.op # "create check" => p.todo = <<>>
    BY <2>8 DEF todo
  <2>11. CheckInPhase(p)
    BY <2>1, <2>3, <2>8, <2>10, <2>t DEF CheckInPhase
  <2>12. CheckIsAtHome(p, home) /\ MayChange(p, role)
    BY <2>1, <2>2, <2>8, <2>m DEF CheckIsAtHome, MayChange, CheckOps
  <2>13. Fits(p)
    BY <2>1, <2>3, <2>8, <2>9, <2>11, <2>12, CheckOpFits
  <2> QED BY <2>1, <2>6, <2>13, CheckGoesRight DEF q
<1> QED BY <1>a, <1>b

-----------------------------------------------------------------------------
(* Moves *)

MovePcs == {"accounts", "source", "destination", "pages", "writing"}

LEMMA MoveFits ==
    ASSUME NEW p \in Request, p.op = "move check", p.pc \in MovePcs, p.org \in Orgs,
           IsAbout(p), IsNewStill(p, home, page), AboutToken(p, token), TokenIsGood(p, role, suspended),
           LocksInOrder(p), MoveInPhase(p), ~IsScoped(p), CheckIsAtHome(p, home), MayChange(p, role), PagesAreOfIt(p, page)
    PROVE  Fits(p)
<1>1. InPhase(p)
  BY DEF InPhase, MovePcs
<1>2. CheckInPhase(p) /\ PageInPhase(p) /\ DeletionInPhase(p)
  BY DEF CheckInPhase, PageInPhase, DeletionInPhase, CheckOps
<1>3. InScope(p)
  BY DEF InScope, CheckOps
<1>4. ListsItsOwn(p, home) /\ DeletesItsOwn(p, role, home, token)
  BY DEF ListsItsOwn, DeletesItsOwn
<1> QED BY <1>1, <1>2, <1>3, <1>4 DEF Fits, RequestRight, StillTrue

\* A step of a move, and what it keeps.
MoveOn(p, q, o, pc, todo) ==
    /\ p \in Request /\ p.pc = pc /\ p.todo = todo /\ p.held = q.held /\ p.org = o /\ p.op = "move check"
    /\ p.user = q.user /\ p.check = q.check /\ p.dest = q.dest /\ p.page = q.page
    /\ IsAbout(p) /\ IsNewStill(p, home, page) /\ AboutToken(p, token) /\ TokenIsGood(p, role, suspended)
    /\ ~IsScoped(p) /\ ~Deletes(p)
    /\ p.user \in Users /\ p.check \in Checks /\ p.dest \in Orgs /\ CreatorOf[o] \in Users /\ CreatorOf[p.dest] \in Users
    /\ AccountsOf(p) = {Account(CreatorOf[o]), Account(CreatorOf[p.dest])}

LEMMA MoveGoesOn ==
    ASSUME AccessRight, NEW r \in Requests, NEW p, NEW o \in Orgs, NEW pc \in MovePcs, NEW todo,
           IsOnward(p, req[r], o, pc, todo), req[r].op = "move check", req[r].pc \in MovePcs \cup {"resolved"}
    PROVE  MoveOn(p, req[r], o, pc, todo)
<1> DEFINE q == req[r]
<1>1. q \in Request /\ IsAbout(q) /\ InScope(q) /\ IsNewStill(q, home, page)
  BY RequestsAre, RequestsKnow
<1>2. /\ p \in Request /\ p.pc = pc /\ p.todo = todo /\ p.held = q.held /\ p.org = o /\ SameMatter(p, q)
  BY DEF IsOnward
<1>3. q.op = "move check" /\ q.pc \in MovePcs \cup {"resolved"}
  OBVIOUS
<1> HIDE DEF q
<1>5. /\ IsAbout(p) /\ IsNewStill(p, home, page) /\ AboutToken(p, token) /\ TokenIsGood(p, role, suspended)
      /\ p.op = q.op /\ p.user = q.user /\ p.token = q.token /\ p.bound = q.bound /\ p.check = q.check
      /\ p.dest = q.dest /\ p.page = q.page /\ q.user \in Users
  <2>1. q.pc \notin {"idle", "ended"} /\ p.pc \notin {"idle", "ended", "authenticating", "touching"} /\ p.org \in Orgs
    BY <1>2, <1>3 DEF MovePcs
  <2>90. StillAbout(p, q)
    BY <1>1, <1>2, <2>1, StaysAbout
  <2> QED BY <2>90 DEF StillAbout
<1>6. ~IsScoped(q)
  BY <1>1, <1>3 DEF InScope, MovePcs
<1>7. ~IsScoped(p) /\ ~Deletes(p)
  BY <1>3, <1>5, <1>6 DEF IsScoped, Deletes
<1>8. AccountsOf(p) = {Account(CreatorOf[o]), Account(CreatorOf[p.dest])}
  BY <1>2, <1>3, <1>5 DEF AccountsOf, CheckOps
<1>9. p.check \in Checks /\ p.dest \in Orgs
  BY <1>3, <1>5 DEF IsAbout
<1>10. CreatorOf[o] \in Users /\ CreatorOf[p.dest] \in Users
  BY <1>9, AccessAssumption
<1>11. MoveOn(p, q, o, pc, todo)
  BY <1>2, <1>3, <1>5, <1>7, <1>8, <1>9, <1>10 DEF MoveOn
<1> QED BY <1>11 DEF q

LEMMA MoveGoesRight ==
    ASSUME AccessRight, NEW r \in Requests, NEW p, NEW o, NEW pc, NEW todo, Set(r, p), UNCHANGED <<tables, changes>>,
           IsOnward(p, req[r], o, pc, todo), req[r].op = "move check", Fits(p),
           \A g \in Pages : Page(g) \in Wants(p) => page[g].home = p.org /\ p.org \in Orgs
    PROVE  AccessRight'
<1>1. p.held \subseteq req[r].held /\ p.op = req[r].op /\ p.check = req[r].check /\ p.page = req[r].page
  BY DEF IsOnward, SameMatter
<1> QED BY <1>1, GoesRight

\* What a move has locked.
MoveHas(q) ==
    /\ q \in Request /\ q.org \in Orgs /\ q.dest \in Orgs /\ q.check \in Checks /\ q.user \in Users
    /\ {Account(CreatorOf[q.org]), Account(CreatorOf[q.dest]), Check(q.check)} \subseteq q.held
    /\ q.held \subseteq {Account(CreatorOf[q.org]), Account(CreatorOf[q.dest]), Check(q.check)}
          \cup (IF q.pc = "accounts" THEN {} ELSE {Membership(q.user, q.org)})
          \cup (IF q.pc \in {"accounts", "source"} THEN {} ELSE {Membership(q.user, q.dest)})
          \cup (IF q.pc \in {"pages", "writing"} THEN {PagesOf(q.org)} ELSE {})
          \cup (IF q.pc = "writing" THEN {Page(g) : g \in Pages} \cup {Project(q.dest)} ELSE {})
    /\ q.pc \in {"source", "destination", "pages", "writing"} => Membership(q.user, q.org) \in q.held
    /\ q.pc \in {"destination", "pages", "writing"} => Membership(q.user, q.dest) \in q.held
    /\ q.pc \in {"pages", "writing"} => PagesOf(q.org) \in q.held

LEMMA MovesHave ==
    ASSUME AccessRight, NEW r \in Requests, req[r].op = "move check", req[r].pc \in MovePcs, req[r].todo = <<>>
    PROVE  MoveHas(req[r])
<1> DEFINE q == req[r]
<1>1. q \in Request /\ InPhase(q) /\ IsAbout(q) /\ MoveInPhase(q) /\ Wants(q) = q.held
  BY RequestsAre, WantsNone
<1>2. q.op = "move check" /\ q.pc \in MovePcs
  OBVIOUS
<1> HIDE DEF q
<1>3. AccountsOf(q) = {Account(CreatorOf[q.org]), Account(CreatorOf[q.dest])}
  BY <1>2 DEF AccountsOf, CheckOps
<1>4. q.org \in Orgs /\ q.dest \in Orgs /\ q.check \in Checks /\ q.user \in Users
  BY <1>1, <1>2 DEF InPhase, IsAbout, MovePcs
<1>5. /\ {Account(CreatorOf[q.org]), Account(CreatorOf[q.dest]), Check(q.check)} \subseteq q.held
      /\ q.held \subseteq {Account(CreatorOf[q.org]), Account(CreatorOf[q.dest]), Check(q.check)}
          \cup (IF q.pc = "accounts" THEN {} ELSE {Membership(q.user, q.org)})
          \cup (IF q.pc \in {"accounts", "source"} THEN {} ELSE {Membership(q.user, q.dest)})
          \cup (IF q.pc \in {"pages", "writing"} THEN {PagesOf(q.org)} ELSE {})
          \cup (IF q.pc = "writing" THEN {Page(g) : g \in Pages} \cup {Project(q.dest)} ELSE {})
  BY <1>1, <1>2, <1>3 DEF MoveInPhase, MovePcs
<1>6. /\ q.pc \in {"source", "destination", "pages", "writing"} => Membership(q.user, q.org) \in q.held
      /\ q.pc \in {"destination", "pages", "writing"} => Membership(q.user, q.dest) \in q.held
      /\ q.pc \in {"pages", "writing"} => PagesOf(q.org) \in q.held
  BY <1>1, <1>2 DEF MoveInPhase, MovePcs
<1>7. MoveHas(q)
  BY <1>1, <1>4, <1>5, <1>6 DEF MoveHas
<1> QED BY <1>7 DEF q

\* The levels of the rows of a move.
LEMMA MoveLevels ==
    ASSUME NEW q, NEW p, ~Deletes(p), MoveHas(q), q.pc \in MovePcs \ {"writing"}
    PROVE  /\ q.pc = "accounts" => \A k \in q.held : Level(p, k) <= 2
           /\ q.pc \in {"source", "destination"} => \A k \in q.held : Level(p, k) <= 3
           /\ q.pc = "pages" => \A k \in q.held : Level(p, k) <= 4
           /\ \A g \in Pages : Page(g) \notin q.held
<1>1. \A k \in q.held :
         \/ k \in {Account(CreatorOf[q.org]), Account(CreatorOf[q.dest]), Check(q.check)}
         \/ q.pc # "accounts" /\ k \in {Membership(q.user, q.org), Membership(q.user, q.dest)}
         \/ q.pc = "pages" /\ k = PagesOf(q.org)
  BY DEF MoveHas, MovePcs
<1>2. /\ Level(p, Account(CreatorOf[q.org])) = 1 /\ Level(p, Account(CreatorOf[q.dest])) = 1
      /\ Level(p, Check(q.check)) = 2 /\ Level(p, Membership(q.user, q.org)) = 3
      /\ Level(p, Membership(q.user, q.dest)) = 3 /\ Level(p, PagesOf(q.org)) = 4
  BY OtherLevels
<1>3. \A g \in Pages : Page(g) \notin q.held
  <2> SUFFICES ASSUME NEW g \in Pages, Page(g) \in q.held PROVE FALSE
    OBVIOUS
  <2>1. Page(g)[1] = "page"
    BY PageIs
  <2>2. /\ Account(CreatorOf[q.org])[1] = "account" /\ Account(CreatorOf[q.dest])[1] = "account"
        /\ Check(q.check)[1] = "check" /\ PagesOf(q.org)[1] = "pages of"
    BY AccountIs, CheckIs, PagesOfIs
  <2>3. Membership(q.user, q.org)[1] = "membership" /\ Membership(q.user, q.dest)[1] = "membership"
    BY MembershipIs
  <2> QED BY <1>1, <2>1, <2>2, <2>3
<1>4. ASSUME NEW k \in q.held
      PROVE  /\ q.pc = "accounts" => Level(p, k) <= 2
             /\ q.pc \in {"source", "destination"} => Level(p, k) <= 3
             /\ q.pc = "pages" => Level(p, k) <= 4
  <2>1. CASE k \in {Account(CreatorOf[q.org]), Account(CreatorOf[q.dest]), Check(q.check)}
    <3>1. Level(p, k) <= 2
      BY <1>2, <2>1
    <3> QED BY <3>1, LevelRange
  <2>2. CASE q.pc # "accounts" /\ k \in {Membership(q.user, q.org), Membership(q.user, q.dest)}
    <3>1. Level(p, k) = 3
      BY <1>2, <2>2
    <3> QED BY <2>2, <3>1
  <2>3. CASE q.pc = "pages" /\ k = PagesOf(q.org)
    BY <1>2, <2>3
  <2> QED BY <1>1, <2>1, <2>2, <2>3
<1> QED BY <1>3, <1>4

LEMMA BeginsMoveRight ==
    ASSUME AccessRight, NEW r \in Requests, BeginsMove(r)
    PROVE  AccessRight'
<1> DEFINE q == req[r]
           o == home[q.check]
           accounts == AccountsInOrder({CreatorOf[o], CreatorOf[q.dest]})
           todo == accounts \o <<Check(q.check)>>
           p == OnwardWith(q, o, "accounts", todo)
<1>a. CASE ~(o \in Orgs /\ q.dest \in live /\ o # q.dest)
  <2>1. Refused(r)
    BY <1>a DEF BeginsMove
  <2> QED BY <2>1, RefusedRight
<1>b. CASE o \in Orgs /\ q.dest \in live /\ o # q.dest
  <2>1. Set(r, p) /\ UNCHANGED <<tables, changes>> /\ At(r, "resolved") /\ q.op = "move check"
    BY <1>b DEF BeginsMove, Goes, Onward, OnwardWith, WithOrg
  <2>2. q.pc = "resolved" /\ q \in Request /\ IsAbout(q) /\ InPhase(q) /\ o \in Orgs
    BY <1>b, <2>1, AtIs, RequestsAre
  <2>3. q.held = {} /\ q.check \in Checks /\ q.dest \in Orgs
    BY <2>1, <2>2 DEF InPhase, IsAbout
  <2> HIDE DEF o
  <2>4. CreatorOf[o] \in Users /\ CreatorOf[q.dest] \in Users
    BY <2>2, <2>3, AccessAssumption
  <2>5. /\ accounts \in Seq(Rows) /\ Elements(accounts) = {Account(CreatorOf[o]), Account(CreatorOf[q.dest])}
        /\ \A x : Ascends(x, accounts)
    BY <2>4, AccountsAscend, AscendsAccounts
  <2> HIDE DEF accounts
  <2>6. /\ <<Check(q.check)>> \in Seq(Rows) /\ Elements(<<Check(q.check)>>) = {Check(q.check)}
        /\ \A x : Ascends(x, <<Check(q.check)>>)
    BY <2>3, RowsAre, ElementsOfFew, AscendsFew
  <2>7. /\ todo \in Seq(Rows)
        /\ Elements(todo) = {Account(CreatorOf[o]), Account(CreatorOf[q.dest]), Check(q.check)}
    <3>1. todo \in Seq(Rows) /\ Elements(todo) = Elements(accounts) \cup Elements(<<Check(q.check)>>)
      BY <2>5, <2>6, ElementsOfBoth
    <3> QED BY <2>5, <2>6, <3>1
  <2>8. IsOnward(p, q, o, "accounts", todo)
    <3>1. "accounts" \in Pcs
      BY PcsAre
    <3> QED BY <2>2, <2>7, <3>1, GoingOnWithOrg
  <2> HIDE DEF p
  <2>9. MoveOn(p, q, o, "accounts", todo)
    <3>1. "accounts" \in MovePcs /\ q.pc \in MovePcs \cup {"resolved"}
      BY <2>2 DEF MovePcs
    <3> QED BY <2>1, <2>2, <2>8, <3>1, MoveGoesOn
  <2> HIDE DEF q
  <2>10. LocksInOrder(p)
    <3>1. p.held = {} /\ p.todo = todo /\ ~Deletes(p)
      BY <2>3, <2>9 DEF MoveOn
    <3>2. Before(p, Elements(accounts), Elements(<<Check(q.check)>>))
      <4>1. \A k \in Elements(accounts) : Level(p, k) <= 1
        BY <2>5, AccountLevel
      <4>2. \A l \in Elements(<<Check(q.check)>>) : Level(p, l) > 1
        <5>1. Level(p, Check(q.check)) = 2
          BY <3>1, OtherLevels
        <5> QED BY <2>6, <5>1
      <4> QED BY <4>1, <4>2, BeforeByLevel
    <3>3. Ascends(p, todo)
      BY <2>5, <2>6, <3>2, AscendsBoth
    <3> QED BY <3>1, <3>3, InOrderFirst
  <2> HIDE DEF todo
  <2>11. /\ p \in Request /\ p.pc = "accounts" /\ p.org = o /\ p.op = "move check" /\ p.dest = q.dest /\ p.check = q.check
         /\ IsAbout(p) /\ IsNewStill(p, home, page) /\ AboutToken(p, token) /\ TokenIsGood(p, role, suspended)
         /\ ~IsScoped(p) /\ AccountsOf(p) = {Account(CreatorOf[o]), Account(CreatorOf[q.dest])}
    BY <2>9 DEF MoveOn
  <2>12. Wants(p) = {Account(CreatorOf[o]), Account(CreatorOf[q.dest]), Check(q.check)}
    BY <2>3, <2>7, <2>9 DEF MoveOn, Wants
  <2>13. MoveInPhase(p)
    BY <2>11, <2>12 DEF MoveInPhase
  <2>14. CheckIsAtHome(p, home) /\ MayChange(p, role)
    BY <2>11 DEF CheckIsAtHome, MayChange, CheckOps
  <2>15. \A g \in Pages : Page(g) \notin Wants(p)
    <3>1. \A l \in {Account(CreatorOf[o]), Account(CreatorOf[q.dest]), Check(q.check)} : l[1] # "page"
      BY AccountIs, CheckIs
    <3> QED BY <2>12, <3>1, WithoutPages
  <2>16. PagesAreOfIt(p, page)
    BY <2>15 DEF PagesAreOfIt
  <2>17. "accounts" \in MovePcs
    BY DEF MovePcs
  <2>18. Fits(p)
    BY <2>2, <2>10, <2>11, <2>13, <2>14, <2>16, <2>17, MoveFits
  <2> QED BY <2>1, <2>8, <2>15, <2>18, MoveGoesRight DEF q
<1> QED BY <1>a, <1>b

\* It begins again.
Again(q) == [q EXCEPT !.tries = @ + 1, !.held = {}]

LEMMA BeginsAgain ==
    ASSUME NEW q \in Request, q.tries + 1 < MaxTries
    PROVE  LET p == Onward(Again(q), "resolved", <<>>) IN
           p \in Request /\ p.pc = "resolved" /\ p.todo = <<>> /\ p.held = {} /\ p.org = q.org /\ SameMatter(p, q)
<1> DEFINE m == Again(q)
           p == Onward(m, "resolved", <<>>)
<1>0. q.tries \in Nat /\ q.tries + 1 \in 0 .. MaxTries - 1
  BY AccessAssumption DEF Request
<1>1. m = [q EXCEPT !.tries = q.tries + 1, !.held = {}]
  BY DEF Again, Request
<1>2. m \in Request
  <2> HIDE DEF m
  <2> QED BY <1>0, <1>1, Zenon DEF Request
<1>3. m.held = {} /\ m.org = q.org /\ SameMatter(m, q)
  BY DEF Again, Request, SameMatter
<1> HIDE DEF m
<1>4. "resolved" \in Pcs /\ <<>> \in Seq(Rows)
  BY PcsAre
<1>5. IsOnward(p, m, m.org, "resolved", <<>>)
  BY <1>2, <1>4, IsOnItsWay
<1> HIDE DEF p
<1>6. p \in Request /\ p.pc = "resolved" /\ p.todo = <<>> /\ p.held = {} /\ p.org = q.org /\ SameMatter(p, q)
  BY <1>3, <1>5 DEF IsOnward, SameMatter
<1> QED BY <1>6 DEF p, m

LEMMA MovesAgainRight ==
    ASSUME AccessRight, NEW r \in Requests, req[r].op = "move check", req[r].pc = "accounts", req[r].tries + 1 < MaxTries,
           Set(r, Onward(Again(req[r]), "resolved", <<>>)), UNCHANGED <<tables, changes>>
    PROVE  AccessRight'
<1> DEFINE q == req[r]
           p == Onward(Again(q), "resolved", <<>>)
<1>1. q \in Request /\ IsAbout(q) /\ InPhase(q) /\ InScope(q) /\ IsNewStill(q, home, page)
  BY RequestsAre, RequestsKnow
<1>2. q.op = "move check" /\ q.pc = "accounts" /\ Set(r, p)
  OBVIOUS
<1>3. p \in Request /\ p.pc = "resolved" /\ p.todo = <<>> /\ p.held = {} /\ p.org = q.org /\ SameMatter(p, q)
  BY <1>1, BeginsAgain
<1> HIDE DEF q, p
<1>4. /\ IsAbout(p) /\ IsNewStill(p, home, page) /\ AboutToken(p, token) /\ TokenIsGood(p, role, suspended)
      /\ p.op = q.op /\ p.check = q.check /\ p.page = q.page /\ p.token = q.token /\ p.bound = q.bound
  <2>1. StillAbout(p, q)
    BY <1>1, <1>2, <1>3, StaysAbout
  <2> QED BY <2>1 DEF StillAbout
<1>5. Wants(p) = {}
  BY <1>3, WantsNone
<1>6. LocksInOrder(p)
  BY <1>3, InOrderNone
<1>7. InPhase(p)
  BY <1>2, <1>3, <1>4 DEF InPhase
<1>8. CheckInPhase(p) /\ MoveInPhase(p) /\ PageInPhase(p) /\ DeletionInPhase(p)
  BY <1>3 DEF CheckInPhase, MoveInPhase, PageInPhase, DeletionInPhase
<1>9. InScope(p)
  BY <1>1, <1>2, <1>3, <1>4 DEF InScope, IsScoped, CheckOps
<1>10. CheckIsAtHome(p, home) /\ MayChange(p, role) /\ ListsItsOwn(p, home)
  BY <1>3 DEF CheckIsAtHome, MayChange, ListsItsOwn
<1>11. PagesAreOfIt(p, page) /\ DeletesItsOwn(p, role, home, token)
  BY <1>3, <1>5 DEF PagesAreOfIt, DeletesItsOwn
<1>12. Fits(p)
  BY <1>3, <1>4, <1>6, <1>7, <1>8, <1>9, <1>10, <1>11 DEF Fits, RequestRight, StillTrue
<1>13. p.held \subseteq req[r].held /\ p.op = req[r].op /\ p.check = req[r].check /\ p.page = req[r].page
  BY <1>3, <1>4 DEF q
<1> QED BY <1>2, <1>5, <1>12, <1>13, GoesRight

\* The statement that is next has one row to lock: "source", "destination" or "pages".
IsNext(q, o, pc, l) ==
    /\ CreatorOf[o] = CreatorOf[q.org] /\ home[q.check] = o /\ q.op = "move check"
    /\ \/ pc = "source" /\ q.pc = "accounts" /\ l = Membership(q.user, o)
       \/ pc = "destination" /\ q.pc = "source" /\ l = Membership(q.user, q.dest) /\ o = q.org
          /\ role[<<q.user, o>>] = "OWNER"
       \/ pc = "pages" /\ q.pc = "destination" /\ l = PagesOf(o) /\ o = q.org
          /\ role[<<q.user, o>>] = "OWNER" /\ role[<<q.user, q.dest>>] = "OWNER"

LEMMA MoveLocksOne ==
    ASSUME AccessRight, NEW r \in Requests, NEW o \in Orgs, NEW pc, NEW l \in Rows, NEW p,
           Set(r, p), UNCHANGED <<tables, changes>>, IsOnward(p, req[r], o, pc, <<l>>),
           MoveHas(req[r]), IsNext(req[r], o, pc, l)
    PROVE  AccessRight'
<1> DEFINE q == req[r]
<1>1. q.pc \in MovePcs /\ pc \in MovePcs /\ q.pc \in MovePcs \ {"writing"} /\ q.op = "move check" /\ MoveHas(q)
  BY DEF MovePcs, IsNext
<1>2. MoveOn(p, q, o, pc, <<l>>)
  <2>1. q.pc \in MovePcs \cup {"resolved"}
    BY <1>1
  <2> QED BY <1>1, <2>1, MoveGoesOn
<1>3. /\ CreatorOf[o] = CreatorOf[q.org] /\ home[q.check] = o
      /\ \/ pc = "source" /\ q.pc = "accounts" /\ l = Membership(q.user, o)
         \/ pc = "destination" /\ q.pc = "source" /\ l = Membership(q.user, q.dest) /\ o = q.org
            /\ role[<<q.user, o>>] = "OWNER"
         \/ pc = "pages" /\ q.pc = "destination" /\ l = PagesOf(o) /\ o = q.org
            /\ role[<<q.user, o>>] = "OWNER" /\ role[<<q.user, q.dest>>] = "OWNER"
  BY DEF IsNext
<1> HIDE DEF q
<1>4. /\ p \in Request /\ p.pc = pc /\ p.todo = <<l>> /\ p.held = q.held /\ p.org = o /\ p.op = "move check"
      /\ p.user = q.user /\ p.check = q.check /\ p.dest = q.dest
      /\ IsAbout(p) /\ IsNewStill(p, home, page) /\ AboutToken(p, token) /\ TokenIsGood(p, role, suspended)
      /\ ~IsScoped(p) /\ ~Deletes(p) /\ AccountsOf(p) = {Account(CreatorOf[o]), Account(CreatorOf[q.dest])}
  BY <1>2 DEF MoveOn
<1>5. /\ q.pc = "accounts" => \A k \in q.held : Level(p, k) <= 2
      /\ q.pc \in {"source", "destination"} => \A k \in q.held : Level(p, k) <= 3
      /\ \A g \in Pages : Page(g) \notin q.held
  BY <1>1, <1>4, MoveLevels
<1>6. Level(p, l) = (IF pc = "pages" THEN 4 ELSE 3) /\ l[1] # "account" /\ l[1] # "page"
  <2>1. CASE pc = "pages"
    <3>1. Level(p, PagesOf(o)) = 4 /\ PagesOf(o)[1] = "pages of"
      BY <1>4, OtherLevels, PagesOfIs
    <3> QED BY <1>3, <2>1, <3>1
  <2>2. CASE pc # "pages"
    <3>1. PICK v : l = Membership(q.user, v)
      BY <1>3, <2>2
    <3>2. Level(p, Membership(q.user, v)) = 3
      BY <1>4, OtherLevels
    <3>3. Membership(q.user, v)[1] = "membership"
      BY MembershipIs
    <3> QED BY <2>2, <3>1, <3>2, <3>3
  <2> QED BY <2>1, <2>2
<1>7. LocksInOrder(p)
  <2>1. \A k \in p.held : Level(p, k) <= 3
    <3>1. q.pc \in {"accounts", "source", "destination"} /\ p.held = q.held
      BY <1>3, <1>4
    <3>2. CASE q.pc = "accounts"
      <4>1. \A k \in p.held : Level(p, k) <= 2 /\ Level(p, k) \in 1 .. 7
        BY <1>5, <3>1, <3>2, LevelRange
      <4> QED BY <4>1
    <3>3. CASE q.pc \in {"source", "destination"}
      BY <1>5, <3>1, <3>3
    <3> QED BY <3>1, <3>2, <3>3
  <2>2. Level(p, l) >= 3
    BY <1>6
  <2>3. p.todo = <<l>> /\ l[1] # "account"
    BY <1>4, <1>6
  <2> QED BY <2>1, <2>2, <2>3, InOrderOne
<1>8. Wants(p) = q.held \cup {l}
  <2>1. p.todo = <<l>> /\ p.held = q.held
    BY <1>4
  <2> QED BY <2>1, WantsOne
<1>9. MoveInPhase(p)
  <2>1. /\ {Account(CreatorOf[o]), Account(CreatorOf[q.dest]), Check(q.check)} \subseteq q.held
        /\ q.held \subseteq {Account(CreatorOf[o]), Account(CreatorOf[q.dest]), Check(q.check)}
              \cup (IF q.pc = "accounts" THEN {} ELSE {Membership(q.user, o)})
              \cup (IF q.pc \in {"accounts", "source"} THEN {} ELSE {Membership(q.user, q.dest)})
        /\ q.pc \in {"source", "destination"} => Membership(q.user, o) \in q.held
        /\ q.pc = "destination" => Membership(q.user, q.dest) \in q.held
    BY <1>1, <1>3 DEF MoveHas, MovePcs
  <2> QED BY <1>3, <1>4, <1>8, <2>1 DEF MoveInPhase
<1>10. CheckIsAtHome(p, home) /\ MayChange(p, role)
  BY <1>3, <1>4 DEF CheckIsAtHome, MayChange, CheckOps
<1>11. \A g \in Pages : Page(g) \notin Wants(p)
  BY <1>5, <1>6, <1>8, PageIs
<1>12. PagesAreOfIt(p, page)
  BY <1>11 DEF PagesAreOfIt
<1>13. Fits(p)
  BY <1>1, <1>4, <1>7, <1>9, <1>10, <1>12, MoveFits
<1>14. \A g \in Pages : Page(g) \in Wants(p) => page[g].home = p.org /\ p.org \in Orgs
  BY <1>11
<1>15. req[r].op = "move check"
  BY <1>1 DEF q
<1> QED BY <1>13, <1>14, <1>15, MoveGoesRight

LEMMA RereadsMoveRight ==
    ASSUME AccessRight, NEW r \in Requests, RereadsMove(r)
    PROVE  AccessRight'
<1> DEFINE q == req[r]
           o == home[q.check]
           l == Membership(q.user, o)
           p == OnwardWith(q, o, "source", <<l>>)
<1>1. At(r, "accounts") /\ q.op = "move check"
  BY DEF RereadsMove
<1>2. q.pc = "accounts" /\ q.todo = <<>> /\ q \in Request
  BY <1>1, AtIs, RequestsAre
<1>3. MoveHas(q)
  <2>1. "accounts" \in MovePcs
    BY DEF MovePcs
  <2> QED BY <1>1, <1>2, <2>1, MovesHave
<1>4. \/ Refused(r)
      \/ /\ q.tries + 1 < MaxTries /\ Set(r, Onward(Again(q), "resolved", <<>>)) /\ UNCHANGED <<tables, changes>>
      \/ /\ o \in Orgs /\ CreatorOf[o] = CreatorOf[q.org] /\ Set(r, p) /\ UNCHANGED <<tables, changes>>
  BY DEF RereadsMove, Goes, Onward, OnwardWith, WithOrg, Again
<1>5. CASE Refused(r)
  BY <1>5, RefusedRight
<1>6. CASE q.tries + 1 < MaxTries /\ Set(r, Onward(Again(q), "resolved", <<>>)) /\ UNCHANGED <<tables, changes>>
  BY <1>1, <1>2, <1>6, MovesAgainRight
<1>7. CASE o \in Orgs /\ CreatorOf[o] = CreatorOf[q.org] /\ Set(r, p) /\ UNCHANGED <<tables, changes>>
  <2>1. q.user \in Users /\ o \in Orgs
    BY <1>3, <1>7 DEF MoveHas
  <2>2. l \in Rows
    BY <2>1, RowsAre
  <2>3. IsNext(q, o, "source", l)
    BY <1>1, <1>2, <1>7 DEF IsNext
  <2> HIDE DEF l
  <2>4. <<l>> \in Seq(Rows) /\ "source" \in Pcs
    BY <2>2, PcsAre, ElementsOfFew
  <2>5. Set(r, p) /\ UNCHANGED <<tables, changes>>
    BY <1>7
  <2> HIDE DEF o
  <2>6. IsOnward(p, q, o, "source", <<l>>)
    BY <1>2, <2>1, <2>4, GoingOnWithOrg
  <2> HIDE DEF p
  <2> QED BY <1>3, <2>1, <2>2, <2>3, <2>5, <2>6, MoveLocksOne
<1> QED BY <1>4, <1>5, <1>6, <1>7

LEMMA AssertsOwnerOfSourceRight ==
    ASSUME AccessRight, NEW r \in Requests, AssertsOwnerOfSource(r)
    PROVE  AccessRight'
<1> DEFINE q == req[r]
           l == Membership(q.user, q.dest)
           p == Onward(q, "destination", <<l>>)
<1>a. CASE role[<<q.user, q.org>>] # "OWNER"
  <2>1. Refused(r)
    BY <1>a DEF AssertsOwnerOfSource
  <2> QED BY <2>1, RefusedRight
<1>b. CASE role[<<q.user, q.org>>] = "OWNER"
  <2>1. Set(r, p) /\ UNCHANGED <<tables, changes>> /\ At(r, "source")
    BY <1>b DEF AssertsOwnerOfSource, Goes, Onward
  <2>2. q.pc = "source" /\ q.todo = <<>> /\ q \in Request /\ InPhase(q) /\ CheckIsAtHome(q, home)
    BY <2>1, AtIs, RequestsAre, RequestsKnow
  <2>3. q.op = "move check"
    BY <2>2 DEF InPhase
  <2>4. MoveHas(q)
    <3>1. "source" \in MovePcs
      BY DEF MovePcs
    <3> QED BY <2>2, <2>3, <3>1, MovesHave
  <2>5. q.user \in Users /\ q.dest \in Orgs /\ q.org \in Orgs
    BY <2>4 DEF MoveHas
  <2>6. l \in Rows
    BY <2>5, RowsAre
  <2>7. home[q.check] = q.org
    BY <2>2, <2>3 DEF CheckIsAtHome
  <2>8. IsNext(q, q.org, "destination", l)
    BY <1>b, <2>2, <2>3, <2>7 DEF IsNext
  <2> HIDE DEF l
  <2>9. <<l>> \in Seq(Rows) /\ "destination" \in Pcs
    BY <2>6, PcsAre, ElementsOfFew
  <2>10. IsOnward(p, q, q.org, "destination", <<l>>)
    BY <2>2, <2>9, IsOnItsWay
  <2> HIDE DEF p
  <2> QED BY <2>1, <2>4, <2>5, <2>6, <2>8, <2>10, MoveLocksOne
<1> QED BY <1>a, <1>b

LEMMA AssertsOwnerOfDestinationRight ==
    ASSUME AccessRight, NEW r \in Requests, AssertsOwnerOfDestination(r)
    PROVE  AccessRight'
<1> DEFINE q == req[r]
           l == PagesOf(q.org)
           p == Onward(q, "pages", <<l>>)
<1>a. CASE role[<<q.user, q.dest>>] # "OWNER"
  <2>1. Refused(r)
    BY <1>a DEF AssertsOwnerOfDestination
  <2> QED BY <2>1, RefusedRight
<1>b. CASE role[<<q.user, q.dest>>] = "OWNER"
  <2>1. Set(r, p) /\ UNCHANGED <<tables, changes>> /\ At(r, "destination")
    BY <1>b DEF AssertsOwnerOfDestination, Goes, Onward
  <2>2. q.pc = "destination" /\ q.todo = <<>> /\ q \in Request /\ InPhase(q) /\ CheckIsAtHome(q, home) /\ MayChange(q, role)
    BY <2>1, AtIs, RequestsAre, RequestsKnow
  <2>3. q.op = "move check"
    BY <2>2 DEF InPhase
  <2>4. MoveHas(q)
    <3>1. "destination" \in MovePcs
      BY DEF MovePcs
    <3> QED BY <2>2, <2>3, <3>1, MovesHave
  <2>5. q.user \in Users /\ q.dest \in Orgs /\ q.org \in Orgs
    BY <2>4 DEF MoveHas
  <2>6. l \in Rows
    BY <2>5, RowsAre
  <2>7. home[q.check] = q.org /\ role[<<q.user, q.org>>] = "OWNER"
    BY <2>2, <2>3 DEF CheckIsAtHome, MayChange
  <2>8. IsNext(q, q.org, "pages", l)
    BY <1>b, <2>2, <2>3, <2>7 DEF IsNext
  <2> HIDE DEF l
  <2>9. <<l>> \in Seq(Rows) /\ "pages" \in Pcs
    BY <2>6, PcsAre, ElementsOfFew
  <2>10. IsOnward(p, q, q.org, "pages", <<l>>)
    BY <2>2, <2>9, IsOnItsWay
  <2> HIDE DEF p
  <2> QED BY <2>1, <2>4, <2>5, <2>6, <2>8, <2>10, MoveLocksOne
<1> QED BY <1>a, <1>b

LEMMA LocksPagesRight ==
    ASSUME AccessRight, NEW r \in Requests, LocksPages(r)
    PROVE  AccessRight'
<1> DEFINE q == req[r]
<1>1. At(r, "pages")
  BY DEF LocksPages
<1>2. PICK order \in Orders(PagesIn(q.org)) :
         Goes(r, q, "writing", [i \in DOMAIN order |-> Page(order[i])] \o <<Project(q.dest)>>)
  BY DEF LocksPages
<1> DEFINE pages == [i \in DOMAIN order |-> Page(order[i])]
           last == <<Project(q.dest)>>
           todo == pages \o last
           p == Onward(q, "writing", todo)
<1>3. Set(r, p) /\ UNCHANGED <<tables, changes>>
  BY <1>2 DEF Goes, Onward
<1>4. q.pc = "pages" /\ q.todo = <<>> /\ q \in Request /\ InPhase(q) /\ CheckIsAtHome(q, home) /\ MayChange(q, role)
  BY <1>1, AtIs, RequestsAre, RequestsKnow
<1>5. q.op = "move check"
  BY <1>4 DEF InPhase
<1>6. "pages" \in MovePcs /\ "writing" \in MovePcs /\ q.pc \in MovePcs \ {"writing"}
  BY <1>4 DEF MovePcs
<1>7. MoveHas(q)
  BY <1>4, <1>5, <1>6, MovesHave
<1>8. /\ pages \in Seq(Rows) /\ Elements(pages) = {Page(g) : g \in PagesIn(q.org)}
  <2>1. PagesIn(q.org) \in SUBSET Pages
    BY DEF PagesIn
  <2> QED BY <1>2, <2>1, PagesInAnyOrder
<1> HIDE DEF pages
<1>9. last \in Seq(Rows) /\ Elements(last) = {Project(q.dest)} /\ \A x : Ascends(x, last)
  <2>1. q.dest \in Orgs
    BY <1>7 DEF MoveHas
  <2> QED BY <2>1, RowsAre, ElementsOfFew, AscendsFew
<1> HIDE DEF last
<1>10. todo \in Seq(Rows) /\ Elements(todo) = Elements(pages) \cup Elements(last)
  BY <1>8, <1>9, ElementsOfBoth
<1>11. q.org \in Orgs
  BY <1>7 DEF MoveHas
<1>12. IsOnward(p, q, q.org, "writing", todo)
  <2>1. "writing" \in Pcs
    BY PcsAre
  <2> HIDE DEF todo
  <2> QED BY <1>4, <1>10, <2>1, IsOnItsWay
<1> HIDE DEF p
<1>13. MoveOn(p, q, q.org, "writing", todo)
  <2> HIDE DEF todo
  <2> QED BY <1>5, <1>6, <1>11, <1>12, MoveGoesOn
<1> HIDE DEF q
<1>14. /\ p \in Request /\ p.pc = "writing" /\ p.todo = todo /\ p.held = q.held /\ p.org = q.org /\ p.op = "move check"
       /\ p.user = q.user /\ p.check = q.check /\ p.dest = q.dest
       /\ IsAbout(p) /\ IsNewStill(p, home, page) /\ AboutToken(p, token) /\ TokenIsGood(p, role, suspended)
       /\ ~IsScoped(p) /\ ~Deletes(p) /\ AccountsOf(p) = {Account(CreatorOf[q.org]), Account(CreatorOf[q.dest])}
  BY <1>13 DEF MoveOn
<1>15. (\A k \in q.held : Level(p, k) <= 4) /\ (\A g \in Pages : Page(g) \notin q.held)
  BY <1>4, <1>6, <1>7, <1>14, MoveLevels
<1>16. \A l \in Elements(pages) : Level(p, l) = 5 /\ l[1] # "account"
  <2> SUFFICES ASSUME NEW g \in PagesIn(q.org) PROVE Level(p, Page(g)) = 5 /\ Page(g)[1] # "account"
    BY <1>8
  <2> QED BY <1>14, OtherLevels, PageIs
<1>17. \A l \in Elements(last) : Level(p, l) = 6 /\ l[1] # "account"
  <2>1. Level(p, Project(q.dest)) = 6
    BY <1>14, OtherLevels
  <2>2. Project(q.dest)[1] = "project"
    BY ProjectIs
  <2> QED BY <1>9, <2>1, <2>2
<1>18. LocksInOrder(p)
  <2>1. Ascends(p, pages)
    BY <1>16, AscendsLevel
  <2>2. Before(p, Elements(pages), Elements(last))
    <3>1. (\A k \in Elements(pages) : Level(p, k) <= 5) /\ (\A l \in Elements(last) : Level(p, l) > 5)
      BY <1>16, <1>17
    <3> QED BY <3>1, BeforeByLevel
  <2>3. Ascends(p, todo)
    BY <1>8, <1>9, <2>1, <2>2, AscendsBoth
  <2>4. Before(p, p.held, Elements(p.todo))
    <3>1. \A l \in Elements(p.todo) : Level(p, l) > 4
      <4>1. \A l \in Elements(p.todo) : l \in Elements(pages) \/ l \in Elements(last)
        BY <1>10, <1>14
      <4> QED BY <1>16, <1>17, <4>1
    <3>2. \A k \in p.held : Level(p, k) <= 4
      BY <1>14, <1>15
    <3> QED BY <3>1, <3>2, BeforeByLevel
  <2> QED BY <1>14, <2>3, <2>4 DEF LocksInOrder
<1>19. Wants(p) = q.held \cup {Page(g) : g \in PagesIn(q.org)} \cup {Project(q.dest)}
  BY <1>8, <1>9, <1>10, <1>14 DEF Wants
<1> HIDE DEF todo
<1>20. MoveInPhase(p)
  <2>1. PagesIn(q.org) \subseteq Pages
    BY DEF PagesIn
  <2>2. /\ {Account(CreatorOf[q.org]), Account(CreatorOf[q.dest]), Check(q.check)} \subseteq q.held
        /\ q.held \subseteq {Account(CreatorOf[q.org]), Account(CreatorOf[q.dest]), Check(q.check)}
              \cup {Membership(q.user, q.org)} \cup {Membership(q.user, q.dest)} \cup {PagesOf(q.org)}
        /\ Membership(q.user, q.org) \in q.held /\ Membership(q.user, q.dest) \in q.held /\ PagesOf(q.org) \in q.held
    BY <1>4, <1>7 DEF MoveHas
  <2> QED BY <1>14, <1>19, <2>1, <2>2 DEF MoveInPhase
<1>21. CheckIsAtHome(p, home) /\ MayChange(p, role)
  BY <1>4, <1>5, <1>14 DEF CheckIsAtHome, MayChange, CheckOps
<1>22. \A g \in Pages : Page(g) \in Wants(p) => page[g].home = p.org /\ p.org \in Orgs
  <2> SUFFICES ASSUME NEW g \in Pages, Page(g) \in Wants(p) PROVE page[g].home = q.org
    BY <1>11, <1>14
  <2>1. Page(g) \notin q.held /\ Page(g) # Project(q.dest)
    <3>1. Page(g)[1] = "page" /\ Project(q.dest)[1] = "project"
      BY PageIs, ProjectIs
    <3> QED BY <1>15, <3>1
  <2>2. PICK h \in PagesIn(q.org) : Page(g) = Page(h)
    BY <1>19, <2>1
  <2>3. g = h
    BY <2>2, PageIs
  <2> QED BY <2>3 DEF PagesIn
<1>23. PagesAreOfIt(p, page)
  BY <1>22 DEF PagesAreOfIt
<1>24. Fits(p)
  BY <1>6, <1>11, <1>14, <1>18, <1>20, <1>21, <1>23, MoveFits
<1>25. req[r].op = "move check"
  BY <1>5 DEF q
<1> QED BY <1>3, <1>12, <1>22, <1>24, <1>25, MoveGoesRight DEF q

-----------------------------------------------------------------------------
(* Status pages *)

LEMMA PageFits ==
    ASSUME NEW p \in Request, p.op \in PageOps, p.pc \in {"coordinated", "writing"},
           p.pc = "coordinated" => p.op # "delete page", p.op # "delete page" => p.org \in Orgs,
           IsAbout(p), IsNewStill(p, home, page), AboutToken(p, token), TokenIsGood(p, role, suspended),
           LocksInOrder(p), PageInPhase(p), ListsItsOwn(p, home), PagesAreOfIt(p, page)
    PROVE  Fits(p)
<1>1. InPhase(p)
  BY DEF InPhase, PageOps
<1>2. CheckInPhase(p) /\ MoveInPhase(p) /\ DeletionInPhase(p)
  BY DEF CheckInPhase, MoveInPhase, DeletionInPhase, CheckOps, PageOps
<1>3. InScope(p)
  BY DEF InScope, CheckOps, PageOps
<1>4. CheckIsAtHome(p, home) /\ MayChange(p, role) /\ DeletesItsOwn(p, role, home, token)
  BY DEF CheckIsAtHome, MayChange, DeletesItsOwn, CheckOps, PageOps
<1> QED BY <1>1, <1>2, <1>3, <1>4 DEF Fits, RequestRight, StillTrue

\* A step of a request that is about a page, and what it keeps.
PageOn(p, q, o, pc, todo) ==
    /\ p \in Request /\ p.pc = pc /\ p.todo = todo /\ p.held = q.held /\ p.org = o /\ p.op = q.op
    /\ p.user = q.user /\ p.page = q.page /\ p.lists = q.lists
    /\ IsAbout(p) /\ IsNewStill(p, home, page) /\ AboutToken(p, token) /\ TokenIsGood(p, role, suspended)
    /\ ~Deletes(p) /\ p.page \in Pages

LEMMA PageGoesOn ==
    ASSUME AccessRight, NEW r \in Requests, NEW p, NEW o, NEW pc \in {"coordinated", "writing"}, NEW todo,
           IsOnward(p, req[r], o, pc, todo), o \in Orgs \/ o = req[r].org, req[r].op \in PageOps,
           req[r].pc \in {"resolved", "coordinated"}
    PROVE  PageOn(p, req[r], o, pc, todo)
<1> DEFINE q == req[r]
<1>1. q \in Request /\ IsAbout(q) /\ IsNewStill(q, home, page)
  BY RequestsAre, RequestsKnow
<1>2. p \in Request /\ p.pc = pc /\ p.todo = todo /\ p.held = q.held /\ p.org = o /\ SameMatter(p, q)
  BY DEF IsOnward
<1>3. q.op \in PageOps /\ q.pc \notin {"idle", "ended"} /\ (p.org = q.org \/ p.org \in Orgs)
  BY <1>2
<1> HIDE DEF q
<1>4. StillAbout(p, q)
  BY <1>1, <1>2, <1>3, StaysAbout
<1>5. PageOn(p, q, o, pc, todo)
  BY <1>1, <1>2, <1>3, <1>4 DEF PageOn, StillAbout, Deletes, PageOps, IsAbout
<1> QED BY <1>5 DEF q

LEMMA PageGoesRight ==
    ASSUME AccessRight, NEW r \in Requests, NEW p, NEW o, NEW pc, NEW todo, Set(r, p), UNCHANGED <<tables, changes>>,
           IsOnward(p, req[r], o, pc, todo), Fits(p),
           \A g \in Pages : p.op = "update page" /\ Page(g) \in Wants(p) => page[g].home = p.org /\ p.org \in Orgs,
           p.op \in PageOps
    PROVE  AccessRight'
<1>1. p.held \subseteq req[r].held /\ p.op = req[r].op /\ p.check = req[r].check /\ p.page = req[r].page
  BY DEF IsOnward, SameMatter
<1>2. \A g \in Pages : p.op \in {"update page", "move check", "delete org"} /\ Page(g) \in Wants(p) =>
         page[g].home = p.org /\ p.org \in Orgs
  BY DEF PageOps
<1> QED BY <1>1, <1>2, GoesRight

LEMMA BeginsPageRight ==
    ASSUME AccessRight, NEW r \in Requests, BeginsPage(r)
    PROVE  AccessRight'
<1> DEFINE q == req[r]
           o == IF q.op = "create page" THEN q.org ELSE page[q.page].home
           l == PagesOf(o)
           p == OnwardWith(q, o, "coordinated", <<l>>)
<1>a. CASE ~(o \in Orgs /\ requireOperationAccess(q))
  <2>1. Refused(r)
    BY <1>a DEF BeginsPage
  <2> QED BY <2>1, RefusedRight
<1>b. CASE o \in Orgs /\ requireOperationAccess(q)
  <2>1. /\ Set(r, p) /\ UNCHANGED <<tables, changes>> /\ At(r, "resolved") /\ q.op \in {"create page", "update page"}
        /\ q.op \in PageOps
    BY <1>b DEF BeginsPage, Goes, Onward, OnwardWith, WithOrg, Coordinates, PageOps
  <2>2. q.pc = "resolved" /\ q \in Request /\ InPhase(q) /\ o \in Orgs
    BY <1>b, <2>1, AtIs, RequestsAre
  <2>3. q.held = {}
    BY <2>2 DEF InPhase
  <2>4. l \in Rows
    BY <2>2, RowsAre
  <2>l. l[1] = "pages of"
    BY PagesOfIs
  <2> HIDE DEF l
  <2>5. <<l>> \in Seq(Rows) /\ "coordinated" \in Pcs
    BY <2>4, PcsAre, ElementsOfFew
  <2> HIDE DEF o
  <2>6. IsOnward(p, q, o, "coordinated", <<l>>)
    BY <2>2, <2>5, GoingOnWithOrg
  <2> HIDE DEF p
  <2>7. PageOn(p, q, o, "coordinated", <<l>>)
    BY <2>1, <2>2, <2>6, PageGoesOn
  <2> HIDE DEF q
  <2>8. /\ p \in Request /\ p.pc = "coordinated" /\ p.todo = <<l>> /\ p.held = {} /\ p.org = o /\ p.op = q.op
        /\ IsAbout(p) /\ IsNewStill(p, home, page) /\ AboutToken(p, token) /\ TokenIsGood(p, role, suspended)
    BY <2>3, <2>7 DEF PageOn
  <2>9. LocksInOrder(p)
    BY <2>8, AscendsFew, InOrderFirst
  <2>10. Wants(p) = {l}
    BY <2>4, <2>8, WantsOne
  <2>11. PageInPhase(p)
    BY <2>1, <2>8, <2>10 DEF PageInPhase, l
  <2>12. ListsItsOwn(p, home)
    BY <2>8 DEF ListsItsOwn
  <2>13. \A g \in Pages : Page(g) \notin Wants(p)
    BY <2>10, <2>l, PageIs
  <2>14. PagesAreOfIt(p, page)
    BY <2>13 DEF PagesAreOfIt
  <2>15. Fits(p)
    BY <2>1, <2>2, <2>8, <2>9, <2>11, <2>12, <2>14, PageFits
  <2> QED BY <2>1, <2>6, <2>8, <2>13, <2>15, PageGoesRight DEF q
<1> QED BY <1>a, <1>b

LEMMA AssertsChecksRight ==
    ASSUME AccessRight, NEW r \in Requests, AssertsChecks(r)
    PROVE  AccessRight'
<1> DEFINE q == req[r]
           l == IF q.op = "create page" THEN Project(q.org) ELSE Page(q.page)
           p == Onward(q, "writing", <<l>>)
           good == /\ q.op = "update page" => page[q.page].home = q.org
                   /\ q.org \in live /\ IsMember(q.user, q.org)
                   /\ \A c \in q.lists : home[c] = q.org
<1>a. CASE ~good
  <2>1. Refused(r)
    BY <1>a DEF AssertsChecks
  <2> QED BY <2>1, RefusedRight
<1>b. CASE good
  <2>1. Set(r, p) /\ UNCHANGED <<tables, changes>> /\ At(r, "coordinated")
    BY <1>b DEF AssertsChecks, Goes, Onward
  <2>2. q.pc = "coordinated" /\ q.todo = <<>> /\ q \in Request /\ InPhase(q) /\ PageInPhase(q) /\ Wants(q) = q.held
        /\ IsAbout(q)
    BY <2>1, AtIs, RequestsAre
  <2>3. q.op \in {"create page", "update page"} /\ q.org \in Orgs /\ q.op \in PageOps /\ q.page \in Pages
    BY <2>2 DEF InPhase, PageOps, IsAbout
  <2>4. q.held = {PagesOf(q.org)}
    BY <2>2, <2>3 DEF PageInPhase
  <2>5. l \in Rows
    BY <2>3, RowsAre
  <2>6. (q.op = "update page" => page[q.page].home = q.org) /\ \A c \in q.lists : home[c] = q.org
    BY <1>b
  <2> HIDE DEF l, good
  <2>7. <<l>> \in Seq(Rows) /\ "writing" \in Pcs
    BY <2>5, PcsAre, ElementsOfFew
  <2>8. IsOnward(p, q, q.org, "writing", <<l>>)
    BY <2>2, <2>7, IsOnItsWay
  <2> HIDE DEF p
  <2>9. PageOn(p, q, q.org, "writing", <<l>>)
    BY <2>2, <2>3, <2>8, PageGoesOn
  <2> HIDE DEF q
  <2>10. /\ p \in Request /\ p.pc = "writing" /\ p.todo = <<l>> /\ p.held = {PagesOf(q.org)} /\ p.org = q.org /\ p.op = q.op
         /\ IsAbout(p) /\ IsNewStill(p, home, page) /\ AboutToken(p, token) /\ TokenIsGood(p, role, suspended)
         /\ p.lists = q.lists /\ p.page = q.page /\ ~Deletes(p)
    BY <2>4, <2>9 DEF PageOn
  <2>11. LocksInOrder(p)
    <3>1. \A k \in p.held : Level(p, k) <= 4
      <4>1. Level(p, PagesOf(q.org)) = 4
        BY <2>10, OtherLevels
      <4> QED BY <2>10, <4>1
    <3>2. Level(p, l) >= 4 /\ l[1] # "account"
      <4>1. Level(p, Project(q.org)) = 6 /\ Level(p, Page(q.page)) = 5
        BY <2>10, OtherLevels
      <4>2. Project(q.org)[1] = "project"
        BY ProjectIs
      <4>3. Page(q.page)[1] = "page"
        BY PageIs
      <4>4. l = Project(q.org) \/ l = Page(q.page)
        BY DEF l
      <4> QED BY <4>1, <4>2, <4>3, <4>4
    <3>3. p.todo = <<l>>
      BY <2>10
    <3> QED BY <2>5, <3>1, <3>2, <3>3, InOrderOne
  <2>12. Wants(p) = {PagesOf(q.org), l}
    <3>1. p.todo = <<l>> /\ p.held = {PagesOf(q.org)}
      BY <2>10
    <3>2. Wants(p) = p.held \cup {l}
      BY <2>5, <3>1, WantsOne
    <3> QED BY <3>1, <3>2
  <2>13. PageInPhase(p)
    BY <2>3, <2>10, <2>12 DEF PageInPhase, l
  <2>14. ListsItsOwn(p, home)
    BY <2>6, <2>10 DEF ListsItsOwn
  <2>15. \A g \in Pages : p.op = "update page" /\ Page(g) \in Wants(p) => page[g].home = p.org /\ p.org \in Orgs
    <3> SUFFICES ASSUME NEW g \in Pages, q.op = "update page", Page(g) \in Wants(p) PROVE page[g].home = q.org
      BY <2>3, <2>10
    <3>1. Page(g)[1] = "page" /\ PagesOf(q.org)[1] = "pages of"
      BY PageIs, PagesOfIs
    <3>2. Page(g) # PagesOf(q.org)
      BY <3>1
    <3>3. Page(g) = Page(q.page)
      BY <2>12, <3>2 DEF l
    <3>4. g = q.page
      BY <3>3, PageIs
    <3> QED BY <2>6, <3>4
  <2>16. PagesAreOfIt(p, page)
    BY <2>3, <2>10, <2>15 DEF PagesAreOfIt
  <2>17. Fits(p)
    BY <2>3, <2>10, <2>11, <2>13, <2>14, <2>16, PageFits
  <2>18. p.op \in PageOps
    BY <2>3, <2>10
  <2> QED BY <2>1, <2>8, <2>15, <2>17, <2>18, PageGoesRight DEF q
<1> QED BY <1>a, <1>b

LEMMA BeginsPageDeletionRight ==
    ASSUME AccessRight, NEW r \in Requests, BeginsPageDeletion(r)
    PROVE  AccessRight'
<1> DEFINE q == req[r]
           l == Page(q.page)
           p == Onward(q, "writing", <<l>>)
           o == page[q.page].home
<1>a. CASE ~(o \in Orgs /\ IsMember(q.user, o) /\ requireOperationAccess(q))
  <2>1. Refused(r)
    BY <1>a DEF BeginsPageDeletion
  <2> QED BY <2>1, RefusedRight
<1>b. CASE o \in Orgs /\ IsMember(q.user, o) /\ requireOperationAccess(q)
  <2>1. Set(r, p) /\ UNCHANGED <<tables, changes>> /\ At(r, "resolved") /\ q.op = "delete page" /\ q.op \in PageOps
    BY <1>b DEF BeginsPageDeletion, Goes, Onward, PageOps
  <2>2. q.pc = "resolved" /\ q \in Request /\ InPhase(q) /\ IsAbout(q)
    BY <2>1, AtIs, RequestsAre
  <2>3. q.held = {} /\ q.page \in Pages
    BY <2>1, <2>2 DEF InPhase, IsAbout
  <2>4. l \in Rows
    BY <2>3, RowsAre
  <2> HIDE DEF l, o
  <2>5. <<l>> \in Seq(Rows) /\ "writing" \in Pcs
    BY <2>4, PcsAre, ElementsOfFew
  <2>6. IsOnward(p, q, q.org, "writing", <<l>>)
    BY <2>2, <2>5, IsOnItsWay
  <2> HIDE DEF p
  <2>7. PageOn(p, q, q.org, "writing", <<l>>)
    BY <2>1, <2>2, <2>6, PageGoesOn
  <2> HIDE DEF q
  <2>8. /\ p \in Request /\ p.pc = "writing" /\ p.todo = <<l>> /\ p.held = {} /\ p.op = "delete page" /\ p.page = q.page
        /\ IsAbout(p) /\ IsNewStill(p, home, page) /\ AboutToken(p, token) /\ TokenIsGood(p, role, suspended)
    BY <2>1, <2>3, <2>7 DEF PageOn
  <2>9. LocksInOrder(p)
    BY <2>8, AscendsFew, InOrderFirst
  <2>10. Wants(p) = {l}
    BY <2>4, <2>8, WantsOne
  <2>11. PageInPhase(p)
    BY <2>8, <2>10 DEF PageInPhase, l
  <2>12. ListsItsOwn(p, home) /\ PagesAreOfIt(p, page)
    BY <2>8 DEF ListsItsOwn, PagesAreOfIt
  <2>13. p.op \in PageOps
    BY <2>8 DEF PageOps
  <2>14. Fits(p)
    BY <2>8, <2>9, <2>11, <2>12, <2>13, PageFits
  <2>15. \A g \in Pages : p.op = "update page" /\ Page(g) \in Wants(p) => page[g].home = p.org /\ p.org \in Orgs
    BY <2>8
  <2> QED BY <2>1, <2>6, <2>13, <2>14, <2>15, PageGoesRight DEF q
<1> QED BY <1>a, <1>b

-----------------------------------------------------------------------------
(* Deletions of organizations *)

LEMMA DeletionFits ==
    ASSUME NEW p \in Request, p.op = "delete org", p.pc \in {"accounts", "deciding", "writing"}, p.org \in Orgs,
           IsAbout(p), IsNewStill(p, home, page), AboutToken(p, token), TokenIsGood(p, role, suspended),
           LocksInOrder(p), DeletionInPhase(p), PagesAreOfIt(p, page), DeletesItsOwn(p, role, home, token)
    PROVE  Fits(p)
<1>1. InPhase(p)
  BY DEF InPhase
<1>2. CheckInPhase(p) /\ MoveInPhase(p) /\ PageInPhase(p)
  BY DEF CheckInPhase, MoveInPhase, PageInPhase, CheckOps
<1>3. InScope(p)
  BY DEF InScope, CheckOps
<1>4. CheckIsAtHome(p, home) /\ MayChange(p, role) /\ ListsItsOwn(p, home)
  BY DEF CheckIsAtHome, MayChange, ListsItsOwn, CheckOps
<1> QED BY <1>1, <1>2, <1>3, <1>4 DEF Fits, RequestRight, StillTrue

DeletionOn(p, q, pc, todo) ==
    /\ p \in Request /\ p.pc = pc /\ p.todo = todo /\ p.held = q.held /\ p.org = q.org /\ p.op = "delete org"
    /\ p.user = q.user
    /\ IsAbout(p) /\ IsNewStill(p, home, page) /\ AboutToken(p, token) /\ TokenIsGood(p, role, suspended)
    /\ Deletes(p) /\ p.org \in Orgs /\ p.user \in Users /\ CreatorOf[p.org] \in Users
    /\ AccountsOf(p) = {Account(p.user), Account(CreatorOf[p.org])}

LEMMA DeletionGoesOn ==
    ASSUME AccessRight, NEW r \in Requests, NEW p, NEW pc \in {"accounts", "deciding", "writing"}, NEW todo,
           IsOnward(p, req[r], req[r].org, pc, todo), req[r].op = "delete org",
           req[r].pc \in {"resolved", "accounts", "deciding"}
    PROVE  DeletionOn(p, req[r], pc, todo)
<1> DEFINE q == req[r]
<1>1. q \in Request /\ IsAbout(q) /\ IsNewStill(q, home, page)
  BY RequestsAre, RequestsKnow
<1>2. p \in Request /\ p.pc = pc /\ p.todo = todo /\ p.held = q.held /\ p.org = q.org /\ SameMatter(p, q)
  BY DEF IsOnward
<1>3. q.op = "delete org" /\ q.pc \notin {"idle", "ended"}
  OBVIOUS
<1> HIDE DEF q
<1>4. StillAbout(p, q)
  BY <1>1, <1>2, <1>3, StaysAbout
<1>5. /\ p.op = "delete org" /\ p.user = q.user /\ p.user \in Users
      /\ IsAbout(p) /\ IsNewStill(p, home, page) /\ AboutToken(p, token) /\ TokenIsGood(p, role, suspended)
  BY <1>3, <1>4 DEF StillAbout
<1>6. p.org \in Orgs
  BY <1>5 DEF IsAbout
<1>7. CreatorOf[p.org] \in Users /\ Deletes(p)
  BY <1>5, <1>6, AccessAssumption DEF Deletes
<1>8. AccountsOf(p) = {Account(p.user), Account(CreatorOf[p.org])}
  BY <1>5 DEF AccountsOf, CheckOps
<1>9. DeletionOn(p, q, pc, todo)
  BY <1>2, <1>5, <1>6, <1>7, <1>8 DEF DeletionOn
<1> QED BY <1>9 DEF q

LEMMA DeletionGoesRight ==
    ASSUME AccessRight, NEW r \in Requests, NEW p, NEW pc, NEW todo, Set(r, p), UNCHANGED <<tables, changes>>,
           IsOnward(p, req[r], req[r].org, pc, todo), Fits(p),
           \A g \in Pages : Page(g) \in Wants(p) => page[g].home = p.org /\ p.org \in Orgs
    PROVE  AccessRight'
<1>1. p.held \subseteq req[r].held /\ p.op = req[r].op /\ p.check = req[r].check /\ p.page = req[r].page
  BY DEF IsOnward, SameMatter
<1> QED BY <1>1, GoesRight

LEMMA BeginsDeletionRight ==
    ASSUME AccessRight, NEW r \in Requests, BeginsDeletion(r)
    PROVE  AccessRight'
<1> DEFINE q == req[r]
           todo == AccountsInOrder({q.user, CreatorOf[q.org]})
           p == Onward(q, "accounts", todo)
<1>a. CASE ~(q.org \in live /\ requireOperationAccess(q))
  <2>1. Refused(r)
    BY <1>a DEF BeginsDeletion
  <2> QED BY <2>1, RefusedRight
<1>b. CASE q.org \in live /\ requireOperationAccess(q)
  <2>1. Set(r, p) /\ UNCHANGED <<tables, changes>> /\ At(r, "resolved") /\ q.op = "delete org"
    BY <1>b DEF BeginsDeletion, Goes, Onward
  <2>2. q.pc = "resolved" /\ q \in Request /\ IsAbout(q) /\ InPhase(q)
    BY <2>1, AtIs, RequestsAre
  <2>3. q.held = {} /\ q.org \in Orgs /\ q.user \in Users
    BY <2>1, <2>2 DEF InPhase, IsAbout
  <2>4. CreatorOf[q.org] \in Users
    BY <2>3, AccessAssumption
  <2>5. /\ todo \in Seq(Rows) /\ Elements(todo) = {Account(q.user), Account(CreatorOf[q.org])}
        /\ \A x : Ascends(x, todo)
    BY <2>3, <2>4, AccountsAscend, AscendsAccounts
  <2> HIDE DEF todo
  <2>6. IsOnward(p, q, q.org, "accounts", todo)
    <3>1. "accounts" \in Pcs
      BY PcsAre
    <3> QED BY <2>2, <2>5, <3>1, IsOnItsWay
  <2> HIDE DEF p
  <2>7. DeletionOn(p, q, "accounts", todo)
    BY <2>1, <2>2, <2>6, DeletionGoesOn
  <2> HIDE DEF q
  <2>8. /\ p \in Request /\ p.pc = "accounts" /\ p.todo = todo /\ p.held = {} /\ p.org = q.org /\ p.op = "delete org"
        /\ p.user = q.user /\ p.org \in Orgs
        /\ IsAbout(p) /\ IsNewStill(p, home, page) /\ AboutToken(p, token) /\ TokenIsGood(p, role, suspended)
        /\ AccountsOf(p) = {Account(p.user), Account(CreatorOf[p.org])}
    BY <2>3, <2>7 DEF DeletionOn
  <2>9. LocksInOrder(p)
    BY <2>5, <2>8, InOrderFirst
  <2>10. Wants(p) = AccountsOf(p)
    BY <2>5, <2>8 DEF Wants
  <2>11. \A u, v, o : Account(u) # Membership(v, o)
    <3> TAKE u, v, o
    <3>1. Account(u)[1] = "account" /\ Membership(v, o)[1] = "membership"
      BY AccountIs, MembershipIs
    <3> QED BY <3>1
  <2>12. DeletionInPhase(p)
    <3>1. p.pc = "accounts" /\ Wants(p) = AccountsOf(p)
      BY <2>8, <2>10
    <3>2. \A u \in Users, o \in Orgs : Membership(u, o) \notin Wants(p)
      BY <2>8, <2>10, <2>11
    <3> QED BY <3>1, <3>2 DEF DeletionInPhase
  <2>13. \A g \in Pages : Page(g) \notin Wants(p)
    <3>1. \A l \in AccountsOf(p) : l[1] # "page"
      BY <2>8, AccountIs
    <3> QED BY <2>10, <3>1, WithoutPages
  <2>14. PagesAreOfIt(p, page) /\ DeletesItsOwn(p, role, home, token)
    BY <2>8, <2>13 DEF PagesAreOfIt, DeletesItsOwn
  <2>15. Fits(p)
    BY <2>8, <2>9, <2>12, <2>14, DeletionFits
  <2> QED BY <2>1, <2>6, <2>13, <2>15, DeletionGoesRight DEF q
<1> QED BY <1>a, <1>b

\* What a deletion has locked before it decides.
DeletionHas(q) ==
    /\ q \in Request /\ q.org \in Orgs /\ q.user \in Users
    /\ {Account(q.user), Account(CreatorOf[q.org])} \subseteq q.held
    /\ q.held \subseteq {Account(q.user), Account(CreatorOf[q.org])}
          \cup (IF q.pc = "accounts" THEN {} ELSE {Membership(q.user, o) : o \in Orgs})

LEMMA DeletionsHave ==
    ASSUME AccessRight, NEW r \in Requests, req[r].op = "delete org", req[r].pc \in {"accounts", "deciding"}, req[r].todo = <<>>
    PROVE  DeletionHas(req[r])
<1> DEFINE q == req[r]
<1>1. q \in Request /\ InPhase(q) /\ IsAbout(q) /\ DeletionInPhase(q) /\ Wants(q) = q.held
  BY RequestsAre, WantsNone
<1>2. q.op = "delete org" /\ q.pc \in {"accounts", "deciding"}
  OBVIOUS
<1> HIDE DEF q
<1>3. AccountsOf(q) = {Account(q.user), Account(CreatorOf[q.org])}
  BY <1>2 DEF AccountsOf, CheckOps
<1>4. q.org \in Orgs /\ q.user \in Users
  BY <1>1, <1>2 DEF InPhase, IsAbout
<1>5. /\ {Account(q.user), Account(CreatorOf[q.org])} \subseteq q.held
      /\ q.held \subseteq {Account(q.user), Account(CreatorOf[q.org])}
          \cup (IF q.pc = "accounts" THEN {} ELSE {Membership(q.user, o) : o \in Orgs})
  BY <1>1, <1>2, <1>3 DEF DeletionInPhase
<1>6. DeletionHas(q)
  BY <1>1, <1>4, <1>5 DEF DeletionHas
<1> QED BY <1>6 DEF q

LEMMA RowsOfDeletions ==
    ASSUME NEW q, DeletionHas(q), NEW p, Deletes(p)
    PROVE  /\ \A k \in q.held : Level(p, k) <= 2
           /\ q.pc = "accounts" => \A k \in q.held : Level(p, k) <= 1
           /\ \A g \in Pages : Page(g) \notin q.held
           /\ \A u \in Users, o \in Orgs : Membership(u, o) \in q.held => u = q.user
           /\ \A t \in Tokens : Token(t) \notin q.held
           /\ \A c \in Checks : Check(c) \notin q.held
<1>1. ASSUME NEW k \in q.held
      PROVE  \/ k \in {Account(q.user), Account(CreatorOf[q.org])}
             \/ q.pc # "accounts" /\ \E o \in Orgs : k = Membership(q.user, o)
  BY DEF DeletionHas
<1>2. ASSUME NEW k \in q.held
      PROVE  /\ Level(p, k) <= 2
             /\ q.pc = "accounts" => Level(p, k) <= 1
             /\ k[1] \in {"account", "membership"}
  <2>1. CASE k \in {Account(q.user), Account(CreatorOf[q.org])}
    <3>1. Level(p, k) = 1
      BY <2>1, AccountLevel
    <3>2. k[1] = "account"
      BY <2>1, AccountIs
    <3> QED BY <3>1, <3>2
  <2>2. CASE q.pc # "accounts" /\ \E o \in Orgs : k = Membership(q.user, o)
    <3>1. PICK o \in Orgs : k = Membership(q.user, o)
      BY <2>2
    <3>2. Level(p, Membership(q.user, o)) = 2
      BY DeletionLevels
    <3>3. Membership(q.user, o)[1] = "membership"
      BY MembershipIs
    <3> QED BY <2>2, <3>1, <3>2, <3>3
  <2> QED BY <1>1, <2>1, <2>2
<1>3. \A g \in Pages : Page(g) \notin q.held
  BY <1>2, PageIs
<1>4. \A t \in Tokens : Token(t) \notin q.held
  BY <1>2, TokenIs
<1>5. \A c \in Checks : Check(c) \notin q.held
  BY <1>2, CheckIs
<1>6. ASSUME NEW u \in Users, NEW o \in Orgs, Membership(u, o) \in q.held PROVE u = q.user
  <2>1. Membership(u, o)[1] = "membership" /\ Membership(u, o)[2] = u
    BY MembershipIs
  <2>2. Membership(u, o) \notin {Account(q.user), Account(CreatorOf[q.org])}
    BY <2>1, AccountIs
  <2>3. PICK v \in Orgs : Membership(u, o) = Membership(q.user, v)
    BY <1>1, <1>6, <2>2
  <2>4. Membership(q.user, v)[2] = q.user
    BY MembershipIs
  <2> QED BY <2>1, <2>3, <2>4
<1> QED BY <1>2, <1>3, <1>4, <1>5, <1>6

LEMMA LocksMembershipsRight ==
    ASSUME AccessRight, NEW r \in Requests, LocksMemberships(r)
    PROVE  AccessRight'
<1> DEFINE q == req[r]
           S == MembershipsOf(q.user)
<1>1. At(r, "accounts") /\ q.op = "delete org"
  BY DEF LocksMemberships
<1>2. PICK order \in Orders(S) : Goes(r, q, "deciding", [i \in DOMAIN order |-> Membership(q.user, order[i])])
  BY DEF LocksMemberships
<1> DEFINE todo == [i \in DOMAIN order |-> Membership(q.user, order[i])]
           p == Onward(q, "deciding", todo)
<1>3. Set(r, p) /\ UNCHANGED <<tables, changes>>
  BY <1>2 DEF Goes, Onward
<1>4. q.pc = "accounts" /\ q.todo = <<>> /\ q \in Request
  BY <1>1, AtIs, RequestsAre
<1>5. DeletionHas(q)
  BY <1>1, <1>4, DeletionsHave
<1>6. q.user \in Users /\ q.org \in Orgs /\ S \in SUBSET Orgs
  BY <1>5 DEF DeletionHas, MembershipsOf
<1>7. todo \in Seq(Rows) /\ Elements(todo) = {Membership(q.user, o) : o \in S}
  BY <1>2, <1>6, MembershipsInAnyOrder
<1> HIDE DEF todo, S
<1>8. IsOnward(p, q, q.org, "deciding", todo)
  <2>1. "deciding" \in Pcs
    BY PcsAre
  <2> QED BY <1>4, <1>7, <2>1, IsOnItsWay
<1> HIDE DEF p
<1>9. DeletionOn(p, q, "deciding", todo)
  BY <1>1, <1>4, <1>8, DeletionGoesOn
<1> HIDE DEF q
<1>10. /\ p \in Request /\ p.pc = "deciding" /\ p.todo = todo /\ p.held = q.held /\ p.org = q.org /\ p.op = "delete org"
       /\ p.user = q.user /\ p.org \in Orgs /\ Deletes(p)
       /\ IsAbout(p) /\ IsNewStill(p, home, page) /\ AboutToken(p, token) /\ TokenIsGood(p, role, suspended)
       /\ AccountsOf(p) = {Account(q.user), Account(CreatorOf[q.org])}
  BY <1>9 DEF DeletionOn
<1>11. /\ \A k \in q.held : Level(p, k) <= 1
       /\ \A g \in Pages : Page(g) \notin q.held
       /\ \A u \in Users, o \in Orgs : Membership(u, o) \in q.held => u = q.user
  BY <1>4, <1>5, <1>10, RowsOfDeletions
<1>12. \A l \in Elements(todo) : Level(p, l) = 2 /\ l[1] = "membership" /\ l[2] = q.user
  <2> SUFFICES ASSUME NEW o \in S
               PROVE  /\ Level(p, Membership(q.user, o)) = 2 /\ Membership(q.user, o)[1] = "membership"
                      /\ Membership(q.user, o)[2] = q.user
    BY <1>7
  <2>1. Level(p, Membership(q.user, o)) = 2
    BY <1>10, DeletionLevels
  <2>2. Membership(q.user, o)[1] = "membership" /\ Membership(q.user, o)[2] = q.user
    BY MembershipIs
  <2> QED BY <2>1, <2>2
<1>13. LocksInOrder(p)
  <2>1. Ascends(p, todo)
    <3>1. \A l \in Elements(todo) : Level(p, l) = 2 /\ l[1] # "account"
      BY <1>12
    <3> QED BY <3>1, AscendsLevel
  <2>2. Before(p, p.held, Elements(todo))
    <3>1. \A k \in p.held : Level(p, k) <= 1
      BY <1>10, <1>11
    <3>2. ASSUME NEW l \in Elements(todo) PROVE Level(p, l) > 1
      <4>1. Level(p, l) = 2
        BY <1>12
      <4> QED BY <4>1
    <3> QED BY <3>1, <3>2, BeforeByLevel
  <2> QED BY <1>10, <2>1, <2>2 DEF LocksInOrder
<1>14. Wants(p) = q.held \cup Elements(todo)
  BY <1>10 DEF Wants
<1>15. DeletionInPhase(p)
  <2>1. ASSUME NEW u \in Users, NEW o \in Orgs, Membership(u, o) \in Wants(p) PROVE u = q.user
    <3>1. CASE Membership(u, o) \in q.held
      BY <1>11, <3>1
    <3>2. CASE Membership(u, o) \in Elements(todo)
      <4>1. Membership(u, o)[2] = q.user
        BY <1>12, <3>2
      <4> QED BY <4>1, MembershipIs
    <3> QED BY <1>14, <2>1, <3>1, <3>2
  <2>2. Wants(p) \subseteq AccountsOf(p) \cup {Membership(p.user, o) : o \in Orgs}
    <3>1. q.held \subseteq AccountsOf(p)
      BY <1>4, <1>5, <1>10 DEF DeletionHas
    <3>2. Elements(todo) \subseteq {Membership(p.user, o) : o \in Orgs}
      BY <1>6, <1>7, <1>10
    <3> QED BY <1>14, <3>1, <3>2
  <2>3. AccountsOf(p) \subseteq p.held /\ AccountsOf(p) \subseteq Wants(p)
    BY <1>5, <1>10, <1>14 DEF DeletionHas
  <2>4. p.pc = "deciding" /\ p.user = q.user
    BY <1>10
  <2> QED BY <2>1, <2>2, <2>3, <2>4 DEF DeletionInPhase
<1>16. \A g \in Pages : Page(g) \notin Wants(p)
  <2> SUFFICES ASSUME NEW g \in Pages, Page(g) \in Wants(p) PROVE FALSE
    OBVIOUS
  <2>1. Page(g) \in Elements(todo)
    BY <1>11, <1>14
  <2>2. Page(g)[1] = "membership"
    BY <1>12, <2>1
  <2> QED BY <2>2, PageIs
<1>17. PagesAreOfIt(p, page) /\ DeletesItsOwn(p, role, home, token)
  BY <1>10, <1>16 DEF PagesAreOfIt, DeletesItsOwn
<1>18. Fits(p)
  BY <1>10, <1>13, <1>15, <1>17, DeletionFits
<1> QED BY <1>3, <1>8, <1>16, <1>18, DeletionGoesRight DEF q

LEMMA DecidesRight ==
    ASSUME AccessRight, NEW r \in Requests, Decides(r)
    PROVE  AccessRight'
<1> DEFINE q == req[r]
           todo == Cascade(q.org)
           p == Onward(q, "writing", todo)
           good == q.org \in live /\ role[<<q.user, q.org>>] = "OWNER" /\ Cardinality(MembershipsOf(q.user)) > 1
<1>a. CASE ~good
  <2>1. Refused(r)
    BY <1>a DEF Decides
  <2> QED BY <2>1, RefusedRight
<1>b. CASE good
  <2>1. Set(r, p) /\ UNCHANGED <<tables, changes>> /\ At(r, "deciding")
    BY <1>b DEF Decides, Goes, Onward
  <2> HIDE DEF good
  <2>2. q.pc = "deciding" /\ q.todo = <<>> /\ q \in Request /\ InPhase(q)
    BY <2>1, AtIs, RequestsAre
  <2>3. q.op = "delete org"
    BY <2>2 DEF InPhase
  <2>4. DeletionHas(q)
    BY <2>2, <2>3, DeletionsHave
  <2>5. q.org \in Orgs /\ q.user \in Users
    BY <2>4 DEF DeletionHas
  <2>6. Deletes(q)
    BY <2>3 DEF Deletes
  <2>7. todo \in Seq(Rows) /\ Elements(todo) = WhatGoes(q.org) /\ \A x : Deletes(x) => Ascends(x, todo)
    <3>1. ASSUME NEW x, Deletes(x) PROVE todo \in Seq(Rows) /\ Elements(todo) = WhatGoes(q.org) /\ Ascends(x, todo)
      BY <2>5, <3>1, CascadeIs
    <3> QED BY <2>6, <3>1
  <2> HIDE DEF todo
  <2>8. IsOnward(p, q, q.org, "writing", todo)
    <3>1. "writing" \in Pcs
      BY PcsAre
    <3> QED BY <2>2, <2>7, <3>1, IsOnItsWay
  <2> HIDE DEF p
  <2>9. DeletionOn(p, q, "writing", todo)
    BY <2>2, <2>3, <2>8, DeletionGoesOn
  <2> HIDE DEF q
  <2>10. /\ p \in Request /\ p.pc = "writing" /\ p.todo = todo /\ p.held = q.held /\ p.org = q.org /\ p.op = "delete org"
         /\ p.user = q.user /\ p.org \in Orgs /\ Deletes(p)
         /\ IsAbout(p) /\ IsNewStill(p, home, page) /\ AboutToken(p, token) /\ TokenIsGood(p, role, suspended)
         /\ AccountsOf(p) = {Account(q.user), Account(CreatorOf[q.org])}
    BY <2>9 DEF DeletionOn
  <2>11. /\ \A k \in q.held : Level(p, k) <= 2
         /\ \A g \in Pages : Page(g) \notin q.held
         /\ \A u \in Users, o \in Orgs : Membership(u, o) \in q.held => u = q.user
         /\ \A t \in Tokens : Token(t) \notin q.held
         /\ \A c \in Checks : Check(c) \notin q.held
    BY <2>4, <2>10, RowsOfDeletions
  <2>12. ASSUME NEW l \in WhatGoes(q.org)
         PROVE  /\ Level(p, l) >= 2 /\ l[1] # "account"
                /\ \/ l[1] = "membership" /\ l[3] = q.org
                   \/ l = Project(q.org) /\ l[1] = "project"
                   \/ l[1] = "token" /\ \E t \in Tokens : l = Token(t) /\ token[t].org = q.org
                   \/ l[1] = "check" /\ \E c \in Checks : l = Check(c) /\ home[c] = q.org
                   \/ l[1] = "page" /\ \E g \in Pages : l = Page(g) /\ page[g].home = q.org
    <3>1. CASE \E u \in Users : l = Membership(u, q.org)
      <4>1. PICK u \in Users : l = Membership(u, q.org)
        BY <3>1
      <4>2. Level(p, Membership(u, q.org)) = 2
        BY <2>10, DeletionLevels
      <4>3. Membership(u, q.org)[1] = "membership" /\ Membership(u, q.org)[3] = q.org
        BY MembershipIs
      <4> QED BY <4>1, <4>2, <4>3
    <3>2. CASE l = Project(q.org)
      <4>1. Level(p, Project(q.org)) = 3 /\ Project(q.org)[1] = "project"
        BY <2>10, DeletionLevels, ProjectIs
      <4> QED BY <3>2, <4>1
    <3>3. CASE \E t \in Tokens : l = Token(t) /\ token[t].org = q.org
      <4>1. PICK t \in Tokens : l = Token(t) /\ token[t].org = q.org
        BY <3>3
      <4>2. Level(p, Token(t)) = 4 /\ Token(t)[1] = "token"
        BY <2>10, DeletionLevels, TokenIs
      <4> QED BY <4>1, <4>2
    <3>4. CASE \E c \in Checks : l = Check(c) /\ home[c] = q.org
      <4>1. PICK c \in Checks : l = Check(c) /\ home[c] = q.org
        BY <3>4
      <4>2. Level(p, Check(c)) = 5 /\ Check(c)[1] = "check"
        BY <2>10, DeletionLevels, CheckIs
      <4> QED BY <4>1, <4>2
    <3>5. CASE \E g \in Pages : l = Page(g) /\ page[g].home = q.org
      <4>1. PICK g \in Pages : l = Page(g) /\ page[g].home = q.org
        BY <3>5
      <4>2. Level(p, Page(g)) = 6 /\ Page(g)[1] = "page"
        BY <2>10, DeletionLevels, PageIs
      <4> QED BY <4>1, <4>2
    <3> QED BY <3>1, <3>2, <3>3, <3>4, <3>5 DEF WhatGoes, PagesIn
  <2>13. LocksInOrder(p)
    <3>1. Ascends(p, todo)
      BY <2>7, <2>10
    <3>2. Before(p, p.held, Elements(todo))
      <4>1. (\A k \in p.held : Level(p, k) <= 2) /\ (\A l \in Elements(todo) : Level(p, l) >= 2 /\ l[1] # "account")
        BY <2>7, <2>10, <2>11, <2>12
      <4> QED BY <4>1, BeforeIs
    <3> QED BY <2>10, <3>1, <3>2 DEF LocksInOrder
  <2>14. Wants(p) = q.held \cup WhatGoes(q.org)
    BY <2>7, <2>10 DEF Wants
  <2>15. DeletionInPhase(p)
    <3>1. ASSUME NEW u \in Users, NEW o \in Orgs, Membership(u, o) \in Wants(p) PROVE u = q.user \/ o = q.org
      <4>1. CASE Membership(u, o) \in q.held
        BY <2>11, <4>1
      <4>2. CASE Membership(u, o) \in WhatGoes(q.org)
        <5>1. Membership(u, o)[1] = "membership" /\ Membership(u, o)[3] = o
          BY MembershipIs
        <5> QED BY <2>12, <4>2, <5>1
      <4> QED BY <2>14, <3>1, <4>1, <4>2
    <3>2. Wants(p) \subseteq AccountsOf(p) \cup GoWithIt(q.org)
      <4>1. q.held \subseteq AccountsOf(p) \cup GoWithIt(q.org)
        <5>1. q.held \subseteq AccountsOf(p) \cup {Membership(q.user, o) : o \in Orgs}
          BY <2>2, <2>4, <2>10 DEF DeletionHas
        <5>2. {Membership(q.user, o) : o \in Orgs} \subseteq GoWithIt(q.org)
          BY <2>5 DEF GoWithIt
        <5> QED BY <5>1, <5>2
      <4>2. WhatGoes(q.org) \subseteq GoWithIt(q.org)
        BY <2>5 DEF WhatGoes, GoWithIt, PagesIn
      <4> QED BY <2>14, <4>1, <4>2
    <3>3. AccountsOf(p) \subseteq p.held /\ AccountsOf(p) \subseteq Wants(p)
      BY <2>4, <2>10, <2>14 DEF DeletionHas
    <3>4. Project(q.org) \in Wants(p)
      BY <2>14 DEF WhatGoes
    <3>5. p.pc = "writing" /\ p.user = q.user /\ p.org = q.org
      BY <2>10
    <3> QED BY <3>1, <3>2, <3>3, <3>4, <3>5 DEF DeletionInPhase
  <2>16. \A g \in Pages : Page(g) \in Wants(p) => page[g].home = p.org /\ p.org \in Orgs
    <3> SUFFICES ASSUME NEW g \in Pages, Page(g) \in Wants(p) PROVE page[g].home = q.org
      BY <2>10
    <3>1. Page(g) \in WhatGoes(q.org) /\ Page(g)[1] = "page" /\ Page(g)[2] = g
      BY <2>11, <2>14, PageIs
    <3>2. PICK h \in Pages : Page(g) = Page(h) /\ page[h].home = q.org
      BY <2>12, <3>1
    <3>3. Page(h)[2] = h
      BY PageIs
    <3> QED BY <3>1, <3>2, <3>3
  <2>17. DeletesItsOwn(p, role, home, token)
    <3>1. ASSUME NEW u \in Users, role[<<u, q.org>>] # "none" PROVE Membership(u, q.org) \in Wants(p)
      <4>1. Membership(u, q.org) \in WhatGoes(q.org)
        BY <3>1 DEF WhatGoes, IsMember
      <4> QED BY <2>14, <4>1
    <3>2. ASSUME NEW t \in Tokens, Token(t) \in Wants(p) PROVE token[t].org = q.org
      <4>1. Token(t) \in WhatGoes(q.org) /\ Token(t)[1] = "token" /\ Token(t)[2] = t
        BY <2>11, <2>14, <3>2, TokenIs
      <4>2. PICK x \in Tokens : Token(t) = Token(x) /\ token[x].org = q.org
        BY <2>12, <4>1
      <4>3. Token(x)[2] = x
        BY TokenIs
      <4> QED BY <4>1, <4>2, <4>3
    <3>3. ASSUME NEW c \in Checks, Check(c) \in Wants(p) PROVE home[c] = q.org
      <4>1. Check(c) \in WhatGoes(q.org) /\ Check(c)[1] = "check" /\ Check(c)[2] = c
        BY <2>11, <2>14, <3>3, CheckIs
      <4>2. PICK x \in Checks : Check(c) = Check(x) /\ home[x] = q.org
        BY <2>12, <4>1
      <4>3. Check(x)[2] = x
        BY CheckIs
      <4> QED BY <4>1, <4>2, <4>3
    <3> QED BY <2>10, <3>1, <3>2, <3>3 DEF DeletesItsOwn
  <2>18. PagesAreOfIt(p, page)
    BY <2>16 DEF PagesAreOfIt
  <2>19. Fits(p)
    BY <2>10, <2>13, <2>15, <2>17, <2>18, DeletionFits
  <2> QED BY <2>1, <2>8, <2>16, <2>19, DeletionGoesRight DEF q
<1> QED BY <1>a, <1>b

LEMMA VictimRight ==
    ASSUME AccessRight, NEW r \in Requests, Victim(r)
    PROVE  AccessRight'
BY RefusedRight DEF Victim

LEMMA WritesNothingRight ==
    ASSUME AccessRight, NEW r \in Requests, WritesNothing(r)
    PROVE  AccessRight'
BY RefusedRight DEF WritesNothing

-----------------------------------------------------------------------------
(* Commits: what the others have read is true still *)

ChecksOfItsOwn(x) ==
    \/ x.op \in {"edit check", "delete check"} /\ x.pc \in {"membership", "writing"}
    \/ x.op = "move check" /\ x.pc \in {"source", "destination", "pages", "writing"}

WritesPages(x) == x.op \in {"create page", "update page"} /\ x.pc = "writing"

\* It is past the lock of the creator's account.
IsSerialized(x) ==
    \/ ChecksOfItsOwn(x)
    \/ x.op \in CheckOps /\ x.pc = "writing"
    \/ x.op = "delete org" /\ x.pc \in {"deciding", "writing"}

\* What a request has locked that goes by what it has read.
Holds(x) ==
    /\ ChecksOfItsOwn(x) => x.check \in Checks /\ Check(x.check) \in x.held
    /\ IsSerialized(x) => x.org \in Orgs /\ Account(CreatorOf[x.org]) \in x.held
    /\ x.op \in CheckOps /\ x.pc = "writing" => Membership(x.user, x.org) \in x.held
    /\ x.op = "move check" /\ x.pc \in {"destination", "pages", "writing"} => Membership(x.user, x.org) \in x.held
    /\ x.op = "move check" /\ x.pc \in {"pages", "writing"} => x.dest \in Orgs /\ Membership(x.user, x.dest) \in x.held
    /\ x.op = "move check" /\ x.pc = "writing" => PagesOf(x.org) \in x.held
    /\ WritesPages(x) => x.org \in Orgs /\ PagesOf(x.org) \in x.held
    /\ x.pc = "touching" => Account(x.user) \in x.held
    /\ x.op \in {"update page", "move check", "delete org"} => \A g \in Pages : Page(g) \in Wants(x) => x.org \in Orgs

LEMMA RequestsHold ==
    ASSUME AccessRight, NEW s \in Requests
    PROVE  Holds(req[s])
<1> DEFINE x == req[s]
<1>1. /\ x \in Request /\ IsAbout(x) /\ InPhase(x) /\ CheckInPhase(x) /\ MoveInPhase(x) /\ PageInPhase(x) /\ DeletionInPhase(x)
  BY RequestsAre
<1>2. x.todo = <<>> => Wants(x) = x.held
  BY WantsNone
<1>3. x.held = {} /\ x.todo = <<>> => \A g \in Pages : Page(g) \notin Wants(x)
  BY <1>2
<1> HIDE DEF x
<1>a. ChecksOfItsOwn(x) => x.check \in Checks /\ Check(x.check) \in x.held
  <2>1. CASE x.op \in {"edit check", "delete check"} /\ x.pc \in {"membership", "writing"}
    BY <1>1, <2>1 DEF CheckInPhase, CheckOps, IsAbout
  <2>2. CASE x.op = "move check" /\ x.pc \in {"source", "destination", "pages", "writing"}
    BY <1>1, <2>2 DEF MoveInPhase, IsAbout
  <2> QED BY <2>1, <2>2 DEF ChecksOfItsOwn
<1>b. IsSerialized(x) => x.org \in Orgs /\ Account(CreatorOf[x.org]) \in x.held
  <2>1. CASE x.op \in CheckOps /\ x.pc \in {"membership", "writing"}
    <3>1. AccountsOf(x) = {Account(CreatorOf[x.org])}
      BY <2>1 DEF AccountsOf, CheckOps
    <3>2. AccountsOf(x) \subseteq x.held
      BY <1>1, <2>1 DEF CheckInPhase
    <3>3. x.org \in Orgs
      BY <1>1, <2>1 DEF InPhase, CheckOps
    <3> QED BY <3>1, <3>2, <3>3
  <2>2. CASE x.op = "move check" /\ x.pc \in {"source", "destination", "pages", "writing"}
    <3>1. Account(CreatorOf[x.org]) \in AccountsOf(x)
      BY <2>2 DEF AccountsOf, CheckOps
    <3>2. AccountsOf(x) \subseteq x.held
      BY <1>1, <2>2 DEF MoveInPhase
    <3>3. x.org \in Orgs
      BY <1>1, <2>2 DEF InPhase
    <3> QED BY <3>1, <3>2, <3>3
  <2>3. CASE x.op = "delete org" /\ x.pc \in {"deciding", "writing"}
    <3>1. Account(CreatorOf[x.org]) \in AccountsOf(x)
      BY <2>3 DEF AccountsOf, CheckOps
    <3>2. AccountsOf(x) \subseteq x.held
      BY <1>1, <2>3 DEF DeletionInPhase
    <3>3. x.org \in Orgs
      BY <1>1, <2>3 DEF InPhase
    <3> QED BY <3>1, <3>2, <3>3
  <2> QED BY <2>1, <2>2, <2>3 DEF IsSerialized, ChecksOfItsOwn, CheckOps
<1>c. x.op \in CheckOps /\ x.pc = "writing" => Membership(x.user, x.org) \in x.held
  BY <1>1 DEF CheckInPhase
<1>d. /\ x.op = "move check" /\ x.pc \in {"destination", "pages", "writing"} => Membership(x.user, x.org) \in x.held
      /\ x.op = "move check" /\ x.pc \in {"pages", "writing"} => x.dest \in Orgs /\ Membership(x.user, x.dest) \in x.held
      /\ x.op = "move check" /\ x.pc = "writing" => PagesOf(x.org) \in x.held
  BY <1>1 DEF MoveInPhase, IsAbout
<1>e. WritesPages(x) => x.org \in Orgs /\ PagesOf(x.org) \in x.held
  BY <1>1 DEF WritesPages, PageInPhase, InPhase
<1>f. x.pc = "touching" => Account(x.user) \in x.held
  BY <1>1, <1>2 DEF InPhase
<1>g. x.op \in {"update page", "move check", "delete org"} => \A g \in Pages : Page(g) \in Wants(x) => x.org \in Orgs
  <2> SUFFICES ASSUME x.op \in {"update page", "move check", "delete org"}, NEW g \in Pages, Page(g) \in Wants(x)
               PROVE  x.org \in Orgs
    OBVIOUS
  <2>1. x.pc \notin {"idle", "ended"}
    <3>1. Idle.held = {} /\ Idle.todo = <<>>
      BY DEF Idle
    <3> QED BY <1>1, <1>3, <3>1 DEF InPhase, Idle
  <2>2. x.pc \notin {"accepted", "resolved"}
    BY <1>1, <1>3 DEF InPhase
  <2>3. x.pc \notin {"authenticating", "touching"}
    <3>1. ASSUME NEW l \in CredentialRows(x) PROVE l[1] # "page"
      <4>1. l \in {Account(x.user), Token(x.token), Membership(x.user, TokenOf[x.token].org), Project(TokenOf[x.token].org)}
        BY DEF CredentialRows
      <4>2. /\ Account(x.user)[1] = "account" /\ Token(x.token)[1] = "token"
            /\ Membership(x.user, TokenOf[x.token].org)[1] = "membership" /\ Project(TokenOf[x.token].org)[1] = "project"
        BY DEF Account, Token, Membership, Project
      <4> QED BY <4>1, <4>2
    <3>2. Page(g) \notin CredentialRows(x)
      BY <3>1, PageIs
    <3> QED BY <1>1, <3>2 DEF InPhase
  <2>4. x.pc \in Pcs
    BY <1>1 DEF Request
  <2> QED BY <1>1, <2>1, <2>2, <2>3, <2>4 DEF InPhase, Pcs
<1>h. Holds(x)
  BY <1>a, <1>b, <1>c, <1>d, <1>e, <1>f, <1>g DEF Holds
<1> QED BY <1>h DEF x

\* A request ends, and changes tables.
LEMMA WritesRight ==
    ASSUME AccessRight, NEW r \in Requests, Ends(r), TablesRight',
           \A s \in Requests \ {r} : StillTrue(req[s], role', home', page', token', suspended')
    PROVE  AccessRight'
<1>1. Set(r, Over)
  BY DEF Ends, Over
<1>2. /\ req \in [Requests -> Request] /\ req' = [req EXCEPT ![r] = Over] /\ Over \in Request
      /\ req' \in [Requests -> Request] /\ req'[r] = Over /\ \A s \in Requests \ {r} : req'[s] = req[s]
  BY <1>1, OverIs DEF AccessRight, Set
<1>4. ASSUME NEW s \in Requests
      PROVE  RequestRight(req'[s]) /\ StillTrue(req'[s], role', home', page', token', suspended')
  <2>1. CASE s = r
    BY <1>2, <2>1, OverFits
  <2>2. CASE s # r
    BY <1>2, <2>2 DEF AccessRight
  <2> QED BY <2>1, <2>2
<1>5. ASSUME NEW s \in Requests, NEW t \in Requests, s # t PROVE Apart(req'[s], req'[t])
  <2>1. CASE s = r \/ t = r
    BY <1>2, <1>5, <2>1, OverIsApart, RequestsAre
  <2>3. CASE s # r /\ t # r
    BY <1>2, <1>5, <2>3 DEF AccessRight
  <2> QED BY <2>1, <2>3
<1> QED BY <1>2, <1>4, <1>5 DEF AccessRight

\* Nobody else has a row that a request has.
LEMMA HeldAlone ==
    ASSUME AccessRight, NEW r \in Requests, NEW s \in Requests, r # s, NEW l, l \in req[r].held
    PROVE  l \notin req[s].held
BY DEF AccessRight, Apart

\* One check, that nobody else goes by, is somewhere else.
LEMMA OneCheckChanges ==
    ASSUME AccessRight, NEW s \in Requests, NEW c \in Checks, NEW new,
           home[c] = None => ~(req[s].op = "create check" /\ req[s].check = c),
           home[c] # None =>
              /\ Check(c) \notin req[s].held
              /\ req[s].op = "delete org" /\ req[s].pc = "writing" => req[s].org # home[c]
              /\ WritesPages(req[s]) /\ home[c] \in {req[s].org, Gone} => new \in {req[s].org, Gone}
    PROVE  LET h == [home EXCEPT ![c] = new] IN
           CheckIsAtHome(req[s], h) /\ IsNewStill(req[s], h, page) /\ ListsItsOwn(req[s], h) /\ DeletesItsOwn(req[s], role, h, token)
<1> DEFINE x == req[s]
           h == [home EXCEPT ![c] = new]
<1>1. h[c] = new /\ \A d \in Checks \ {c} : h[d] = home[d]
  BY DEF AccessRight, TablesRight
<1>2. /\ x \in Request /\ IsAbout(x) /\ Holds(x) /\ CheckIsAtHome(x, home) /\ IsNewStill(x, home, page)
      /\ ListsItsOwn(x, home) /\ DeletesItsOwn(x, role, home, token)
  BY RequestsAre, RequestsKnow, RequestsHold
<1>3. /\ home[c] = None => ~(x.op = "create check" /\ x.check = c)
      /\ home[c] # None =>
              /\ Check(c) \notin x.held
              /\ x.op = "delete org" /\ x.pc = "writing" => x.org # home[c]
              /\ WritesPages(x) /\ home[c] \in {x.org, Gone} => new \in {x.org, Gone}
  OBVIOUS
<1>n. None \notin Orgs /\ None # Gone
  BY AccessAssumption
<1> HIDE DEF x, h
<1>4. CheckIsAtHome(x, h)
  <2> SUFFICES ASSUME ChecksOfItsOwn(x) PROVE h[x.check] = x.org
    BY DEF CheckIsAtHome, ChecksOfItsOwn
  <2>1. home[x.check] = x.org /\ x.check \in Checks /\ Check(x.check) \in x.held /\ x.org \in Orgs
    BY <1>2 DEF CheckIsAtHome, ChecksOfItsOwn, Holds, IsSerialized
  <2>2. x.check # c
    BY <1>3, <1>n, <2>1
  <2> QED BY <1>1, <2>1, <2>2
<1>5. IsNewStill(x, h, page)
  <2> SUFFICES ASSUME x.op = "create check" PROVE h[x.check] = None
    BY <1>2 DEF IsNewStill
  <2>1. home[x.check] = None /\ x.check \in Checks
    BY <1>2 DEF IsNewStill, IsAbout
  <2>2. x.check # c
    BY <1>3, <2>1
  <2> QED BY <1>1, <2>1, <2>2
<1>6. ListsItsOwn(x, h)
  <2> SUFFICES ASSUME WritesPages(x), NEW d \in x.lists PROVE h[d] \in {x.org, Gone}
    BY DEF ListsItsOwn, WritesPages
  <2>1. home[d] \in {x.org, Gone} /\ d \in Checks /\ x.org \in Orgs
    BY <1>2 DEF ListsItsOwn, WritesPages, Holds, Request
  <2>2. CASE d = c
    BY <1>1, <1>3, <1>n, <2>1, <2>2
  <2>3. CASE d # c
    BY <1>1, <2>1, <2>3
  <2> QED BY <2>2, <2>3
<1>7. DeletesItsOwn(x, role, h, token)
  <2> SUFFICES ASSUME x.op = "delete org", x.pc = "writing", NEW d \in Checks, Check(d) \in Wants(x) PROVE h[d] = x.org
    BY <1>2 DEF DeletesItsOwn
  <2>1. home[d] = x.org /\ x.org \in Orgs
    BY <1>2 DEF DeletesItsOwn, Holds, IsSerialized
  <2>2. d # c
    BY <1>3, <1>n, <2>1
  <2> QED BY <1>1, <2>1, <2>2
<1> QED BY <1>4, <1>5, <1>6, <1>7 DEF x, h

\* Who has the creator's account is the only one that is about the organization.
LEMMA SerializedAlone ==
    ASSUME AccessRight, NEW r \in Requests, NEW s \in Requests, r # s, NEW o, Account(CreatorOf[o]) \in req[r].held,
           IsSerialized(req[s])
    PROVE  req[s].org # o
<1>1. Account(CreatorOf[o]) \notin req[s].held
  BY HeldAlone
<1>2. Account(CreatorOf[req[s].org]) \in req[s].held
  BY RequestsHold DEF Holds
<1> QED BY <1>1, <1>2

LEMMA WritesPagesAlone ==
    ASSUME AccessRight, NEW r \in Requests, NEW s \in Requests, r # s, NEW o, PagesOf(o) \in req[r].held,
           WritesPages(req[s])
    PROVE  req[s].org # o
<1>1. PagesOf(o) \notin req[s].held
  BY HeldAlone
<1>2. PagesOf(req[s].org) \in req[s].held
  BY RequestsHold DEF Holds
<1> QED BY <1>1, <1>2

LEMMA WritesCheckRight ==
    ASSUME AccessRight, NEW r \in Requests, WritesCheck(r)
    PROVE  AccessRight'
<1> DEFINE q == req[r]
<1>1. q.pc = "writing" /\ q.op \in CheckOps /\ Ends(r) /\ UNCHANGED <<role, live, page, token, suspended, changes>>
  BY AtIs DEF WritesCheck
<1>2. q \in Request /\ IsAbout(q) /\ Holds(q) /\ IsNewStill(q, home, page) /\ CheckIsAtHome(q, home)
  BY RequestsAre, RequestsKnow, RequestsHold
<1>3. q.org \in Orgs /\ Account(CreatorOf[q.org]) \in q.held /\ q.check \in Checks
  BY <1>1, <1>2 DEF Holds, IsSerialized, IsAbout, CheckOps
<1>n. {None, Gone} \cap Orgs = {} /\ None # Gone
  BY AccessAssumption
<1>t. /\ home \in [Checks -> Orgs \cup {None, Gone}] /\ PagesListTheirOwn
      /\ page \in [Pages -> [home : Orgs \cup {None, Gone}, lists : SUBSET Checks]]
      /\ \A g \in Pages : page[g].home \in {None, Gone} => page[g].lists = {}
  BY DEF AccessRight, TablesRight
<1>a. CASE q.op = "edit check"
  <2>1. home' = home
    BY <1>1, <1>a DEF WritesCheck
  <2>2. Refused(r)
    BY <1>1, <2>1 DEF Refused, tables
  <2> QED BY <2>2, RefusedRight
<1>b. CASE q.op \in {"delete check", "create check"}
  <2> DEFINE new == IF q.op = "delete check" THEN Gone ELSE q.org
             h == [home EXCEPT ![q.check] = new]
  <2>1. home' = h
    BY <1>1, <1>b DEF WritesCheck
  <2>2. IF q.op = "delete check" THEN home[q.check] = q.org /\ Check(q.check) \in q.held ELSE home[q.check] = None
    BY <1>1, <1>2, <1>b DEF CheckIsAtHome, IsNewStill, Holds, ChecksOfItsOwn
  <2>3. TablesRight'
    <3>1. h \in [Checks -> Orgs \cup {None, Gone}]
      BY <1>3, <1>t
    <3>2. ASSUME NEW g \in Pages, NEW c \in page[g].lists PROVE h[c] \in {page[g].home, Gone}
      <4>1. home[c] \in {page[g].home, Gone} /\ c \in Checks
        BY <1>t, <3>2 DEF PagesListTheirOwn
      <4>2. CASE c # q.check
        BY <1>t, <4>1, <4>2
      <4>3. CASE c = q.check /\ q.op = "delete check"
        BY <1>t, <4>1, <4>3
      <4>4. CASE c = q.check /\ q.op # "delete check"
        <5>1. page[g].home = None
          BY <1>n, <2>2, <4>1, <4>4
        <5> QED BY <1>t, <3>2, <5>1
      <4> QED BY <4>2, <4>3, <4>4
    <3>3. PagesListTheirOwn'
      BY <1>1, <2>1, <3>2 DEF PagesListTheirOwn
    <3> HIDE DEF h
    <3> QED BY <1>1, <2>1, <3>1, <3>3 DEF AccessRight, TablesRight
  <2>4. ASSUME NEW s \in Requests \ {r} PROVE StillTrue(req[s], role', home', page', token', suspended')
    <3>1. Apart(q, req[s]) /\ Check(q.check) \in q.held => Check(q.check) \notin req[s].held
      BY DEF Apart
    <3>2. Apart(q, req[s])
      BY DEF AccessRight
    <3>3. home[q.check] = None => ~(req[s].op = "create check" /\ req[s].check = q.check)
      BY <1>b, <1>3, <1>n, <2>2, <3>2 DEF Apart
    <3>4. req[s].op = "delete org" /\ req[s].pc = "writing" => req[s].org # q.org
      BY <1>3, SerializedAlone DEF IsSerialized
    <3>5. home[q.check] # None =>
              /\ Check(q.check) \notin req[s].held
              /\ req[s].op = "delete org" /\ req[s].pc = "writing" => req[s].org # home[q.check]
              /\ WritesPages(req[s]) /\ home[q.check] \in {req[s].org, Gone} => new \in {req[s].org, Gone}
      BY <2>2, <3>1, <3>2, <3>4
    <3>6. /\ CheckIsAtHome(req[s], h) /\ IsNewStill(req[s], h, page) /\ ListsItsOwn(req[s], h)
          /\ DeletesItsOwn(req[s], role, h, token)
      <4> HIDE DEF new, q
      <4> QED BY <1>3, <3>3, <3>5, OneCheckChanges
    <3> HIDE DEF h
    <3>7. /\ AboutToken(req[s], token) /\ TokenIsGood(req[s], role, suspended)
          /\ MayChange(req[s], role) /\ PagesAreOfIt(req[s], page)
      BY RequestsKnow
    <3>8. StillTrue(req[s], role, h, page, token, suspended)
      BY <3>6, <3>7 DEF StillTrue
    <3> QED BY <1>1, <2>1, <3>8
  <2> QED BY <1>1, <2>3, <2>4, WritesRight
<1> QED BY <1>1, <1>a, <1>b DEF CheckOps

\* Only the organizations of pages matter to what has been read.
LEMMA SamePages ==
    ASSUME NEW x, NEW hm, NEW pg, NEW pg2, IsAbout(x), \A g \in Pages : pg2[g].home = pg[g].home
    PROVE  /\ IsNewStill(x, hm, pg) => IsNewStill(x, hm, pg2)
           /\ PagesAreOfIt(x, pg) => PagesAreOfIt(x, pg2)
BY DEF IsNewStill, PagesAreOfIt, IsAbout, PageOps

LEMMA MovesTheCheckRight ==
    ASSUME AccessRight, NEW r \in Requests, Moves(r)
    PROVE  AccessRight'
<1> DEFINE q == req[r]
           h == [home EXCEPT ![q.check] = q.dest]
           pg == [g \in Pages |-> IF g \in PagesIn(q.org) THEN [page[g] EXCEPT !.lists = @ \ {q.check}] ELSE page[g]]
<1>1. /\ q.pc = "writing" /\ q.op = "move check" /\ Ends(r) /\ UNCHANGED <<role, live, token, suspended, changes>>
      /\ home' = h /\ page' = pg
  BY AtIs DEF Moves
<1>2. q \in Request /\ IsAbout(q) /\ Holds(q) /\ CheckIsAtHome(q, home)
  BY RequestsAre, RequestsKnow, RequestsHold
<1>3. /\ q.org \in Orgs /\ Account(CreatorOf[q.org]) \in q.held /\ q.check \in Checks /\ q.dest \in Orgs
      /\ Check(q.check) \in q.held /\ PagesOf(q.org) \in q.held /\ home[q.check] = q.org
  BY <1>1, <1>2 DEF Holds, IsSerialized, IsAbout, ChecksOfItsOwn, CheckIsAtHome
<1>n. {None, Gone} \cap Orgs = {} /\ None # Gone
  BY AccessAssumption
<1>t. /\ home \in [Checks -> Orgs \cup {None, Gone}] /\ PagesListTheirOwn
      /\ page \in [Pages -> [home : Orgs \cup {None, Gone}, lists : SUBSET Checks]]
      /\ \A g \in Pages : page[g].home \in {None, Gone} => page[g].lists = {}
  BY DEF AccessRight, TablesRight
<1>4. \A g \in Pages :
        /\ pg[g] \in [home : Orgs \cup {None, Gone}, lists : SUBSET Checks]
        /\ pg[g].home = page[g].home /\ pg[g].lists \subseteq page[g].lists
        /\ page[g].home = q.org => q.check \notin pg[g].lists
  <2> SUFFICES ASSUME NEW g \in Pages
               PROVE  /\ pg[g] \in [home : Orgs \cup {None, Gone}, lists : SUBSET Checks]
                      /\ pg[g].home = page[g].home /\ pg[g].lists \subseteq page[g].lists
                      /\ page[g].home = q.org => q.check \notin pg[g].lists
    OBVIOUS
  <2>1. page[g] \in [home : Orgs \cup {None, Gone}, lists : SUBSET Checks]
    BY <1>t
  <2>2. CASE page[g].home = q.org
    <3>1. pg[g] = [page[g] EXCEPT !.lists = page[g].lists \ {q.check}]
      BY <2>1, <2>2 DEF PagesIn
    <3> HIDE DEF pg, q
    <3> QED BY <2>1, <3>1
  <2>3. CASE page[g].home # q.org
    <3>1. pg[g] = page[g]
      BY <2>3 DEF PagesIn
    <3> QED BY <2>1, <2>3, <3>1
  <2> QED BY <2>2, <2>3
<1>5. pg \in [Pages -> [home : Orgs \cup {None, Gone}, lists : SUBSET Checks]]
  BY <1>4
<1> HIDE DEF pg
<1>6. ASSUME NEW g \in Pages, NEW c \in pg[g].lists PROVE h[c] \in {pg[g].home, Gone}
  <2>1. home[c] \in {page[g].home, Gone} /\ c \in Checks
    BY <1>4, <1>5, <1>6, <1>t DEF PagesListTheirOwn
  <2>2. c # q.check
    BY <1>3, <1>4, <1>6, <1>n, <2>1
  <2>3. h[c] = home[c]
    BY <1>t, <2>1, <2>2
  <2> QED BY <1>4, <2>1, <2>3
<1>7. h \in [Checks -> Orgs \cup {None, Gone}]
  BY <1>3, <1>t
<1>8. ASSUME NEW s \in Requests \ {r} PROVE StillTrue(req[s], role', home', page', token', suspended')
  <2>1. Check(q.check) \notin req[s].held
    BY <1>3, HeldAlone
  <2>2. req[s].op = "delete org" /\ req[s].pc = "writing" => req[s].org # home[q.check]
    BY <1>3, SerializedAlone DEF IsSerialized
  <2>3. WritesPages(req[s]) => req[s].org # home[q.check]
    BY <1>3, WritesPagesAlone
  <2>4. home[q.check] # None /\ home[q.check] # Gone
    BY <1>3, <1>n
  <2>5. /\ CheckIsAtHome(req[s], h) /\ IsNewStill(req[s], h, page) /\ ListsItsOwn(req[s], h)
        /\ DeletesItsOwn(req[s], role, h, token)
    <3> HIDE DEF q
    <3> QED BY <1>3, <2>1, <2>2, <2>3, <2>4, OneCheckChanges
  <2> HIDE DEF h
  <2>6. /\ AboutToken(req[s], token) /\ TokenIsGood(req[s], role, suspended)
        /\ MayChange(req[s], role) /\ PagesAreOfIt(req[s], page) /\ IsAbout(req[s])
    BY RequestsKnow, RequestsAre
  <2>7. IsNewStill(req[s], h, pg) /\ PagesAreOfIt(req[s], pg)
    BY <1>4, <2>5, <2>6, SamePages
  <2>8. StillTrue(req[s], role, h, pg, token, suspended)
    BY <2>5, <2>6, <2>7 DEF StillTrue
  <2> QED BY <1>1, <2>8
<1>9. TablesRight'
  <2> HIDE DEF h
  <2>1. PagesListTheirOwn'
    BY <1>1, <1>6 DEF PagesListTheirOwn
  <2>2. \A g \in Pages : pg[g].home \in {None, Gone} => pg[g].lists = {}
    BY <1>4, <1>t
  <2> QED BY <1>1, <1>5, <1>7, <2>1, <2>2 DEF AccessRight, TablesRight
<1> QED BY <1>1, <1>8, <1>9, WritesRight

\* One page is another; the others' stay.
LEMMA OnePageChanges ==
    ASSUME AccessRight, NEW r \in Requests, NEW g \in Pages, NEW p \in [home : Orgs \cup {Gone}, lists : SUBSET Checks],
           Ends(r), page' = [page EXCEPT ![g] = p], UNCHANGED <<role, live, home, token, suspended, changes>>,
           p.home = Gone => p.lists = {}, \A c \in p.lists : home[c] \in {p.home, Gone},
           page[g].home # None => p.home \in {page[g].home, Gone},
           page[g].home = None => req[r].op = "create page" /\ req[r].page = g
    PROVE  AccessRight'
<1> DEFINE pg == [page EXCEPT ![g] = p]
<1>n. {None, Gone} \cap Orgs = {} /\ None # Gone
  BY AccessAssumption
<1>t. /\ PagesListTheirOwn
      /\ page \in [Pages -> [home : Orgs \cup {None, Gone}, lists : SUBSET Checks]]
      /\ \A f \in Pages : page[f].home \in {None, Gone} => page[f].lists = {}
  BY DEF AccessRight, TablesRight
<1>1. pg[g] = p /\ (\A f \in Pages \ {g} : pg[f] = page[f]) /\ pg \in [Pages -> [home : Orgs \cup {None, Gone}, lists : SUBSET Checks]]
  BY <1>t
<1>2. page' = pg
  OBVIOUS
<1> HIDE DEF pg
<1>3. \A f \in Pages : pg[f].home \in {None, Gone} => pg[f].lists = {}
  BY <1>1, <1>n, <1>t
<1>4. \A f \in Pages : \A c \in pg[f].lists : home[c] \in {pg[f].home, Gone}
  BY <1>1, <1>t DEF PagesListTheirOwn
<1>5. PagesListTheirOwn'
  BY <1>2, <1>4 DEF PagesListTheirOwn
<1>6. TablesRight'
  BY <1>1, <1>2, <1>3, <1>5 DEF AccessRight, TablesRight
<1>7. ASSUME NEW s \in Requests \ {r} PROVE StillTrue(req[s], role', home', page', token', suspended')
  <2> DEFINE x == req[s]
  <2>1. /\ AboutToken(x, token) /\ TokenIsGood(x, role, suspended) /\ CheckIsAtHome(x, home) /\ MayChange(x, role)
        /\ IsNewStill(x, home, page) /\ ListsItsOwn(x, home) /\ PagesAreOfIt(x, page) /\ DeletesItsOwn(x, role, home, token)
        /\ IsAbout(x) /\ Holds(x) /\ Apart(req[r], x)
    BY RequestsKnow, RequestsAre, RequestsHold DEF AccessRight
  <2>2. page[g].home = None /\ x.op = "create page" => x.page # g
    BY <2>1 DEF Apart
  <2> HIDE DEF x
  <2>3. IsNewStill(x, home, pg)
    <3> SUFFICES ASSUME x.op = "create page" PROVE pg[x.page].home = None
      BY <2>1 DEF IsNewStill
    <3>1. x.page \in Pages /\ page[x.page].home = None
      BY <2>1 DEF IsAbout, IsNewStill, PageOps
    <3>2. x.page # g
      BY <2>2, <3>1
    <3> QED BY <1>1, <3>1, <3>2
  <2>4. PagesAreOfIt(x, pg)
    <3> SUFFICES ASSUME x.op \in {"update page", "move check", "delete org"}, NEW f \in Pages, Page(f) \in Wants(x)
                 PROVE  pg[f].home \in {x.org, Gone}
      BY DEF PagesAreOfIt
    <3>1. page[f].home \in {x.org, Gone} /\ x.org \in Orgs
      BY <2>1 DEF PagesAreOfIt, Holds
    <3>2. CASE f = g
      BY <1>1, <1>n, <3>1, <3>2
    <3>3. CASE f # g
      BY <1>1, <3>1, <3>3
    <3> QED BY <3>2, <3>3
  <2>5. StillTrue(x, role, home, pg, token, suspended)
    BY <2>1, <2>3, <2>4 DEF StillTrue
  <2> QED BY <1>2, <2>5 DEF x
<1> QED BY <1>6, <1>7, WritesRight

LEMMA WritesPageRight ==
    ASSUME AccessRight, NEW r \in Requests, WritesPage(r)
    PROVE  AccessRight'
<1> DEFINE q == req[r]
           p == [home |-> q.org, lists |-> q.lists]
<1>1. /\ q.pc = "writing" /\ q.op \in {"create page", "update page"} /\ Ends(r)
      /\ UNCHANGED <<role, live, home, token, suspended, changes>>
      /\ IF q.op = "create page" THEN q.org \in live ELSE page[q.page].home = q.org
      /\ page' = [page EXCEPT ![q.page] = p]
  BY AtIs DEF WritesPage
<1>2. q \in Request /\ IsAbout(q) /\ Holds(q) /\ IsNewStill(q, home, page) /\ ListsItsOwn(q, home)
  BY RequestsAre, RequestsKnow, RequestsHold
<1>3. /\ q.org \in Orgs /\ q.page \in Pages /\ q.lists \subseteq Checks
      /\ \A c \in q.lists : home[c] \in {q.org, Gone}
      /\ q.op = "create page" => page[q.page].home = None
  BY <1>1, <1>2 DEF Holds, WritesPages, IsAbout, PageOps, ListsItsOwn, IsNewStill, Request
<1>4. p.home = q.org /\ p.lists = q.lists /\ p \in [home : Orgs \cup {Gone}, lists : SUBSET Checks]
  BY <1>3
<1>n. {None, Gone} \cap Orgs = {} /\ None # Gone
  BY AccessAssumption
<1>5. /\ page[q.page].home # None => q.org \in {page[q.page].home, Gone}
      /\ page[q.page].home = None => q.op = "create page"
  BY <1>1, <1>3, <1>n
<1>6. q.org # Gone
  BY <1>3, <1>n
<1> HIDE DEF p
<1> QED BY <1>1, <1>3, <1>4, <1>5, <1>6, OnePageChanges

LEMMA DeletesPageRight ==
    ASSUME AccessRight, NEW r \in Requests, DeletesPage(r)
    PROVE  AccessRight'
<1> DEFINE q == req[r]
           p == [home |-> Gone, lists |-> {}]
<1>1. /\ q.op = "delete page" /\ Ends(r)
      /\ UNCHANGED <<role, live, home, token, suspended, changes>>
      /\ page[q.page].home \in Orgs
      /\ page' = [page EXCEPT ![q.page] = p]
  BY AtIs DEF DeletesPage
<1>2. q.page \in Pages
  BY <1>1, RequestsAre DEF IsAbout, PageOps
<1>3. p.home = Gone /\ p.lists = {} /\ p \in [home : Orgs \cup {Gone}, lists : SUBSET Checks]
  OBVIOUS
<1>n. {None, Gone} \cap Orgs = {} /\ None # Gone
  BY AccessAssumption
<1>4. page[q.page].home # None
  BY <1>1, <1>n
<1> HIDE DEF p
<1> QED BY <1>1, <1>2, <1>3, <1>4, OnePageChanges

LEMMA DeletesOrgRight ==
    ASSUME AccessRight, NEW r \in Requests, DeletesOrg(r)
    PROVE  AccessRight'
<1> DEFINE q == req[r]
           o == q.org
           rl == [m \in Users \X Orgs |-> IF m[2] = o THEN "none" ELSE role[m]]
           hm == [c \in Checks |-> IF home[c] = o THEN Gone ELSE home[c]]
           pg == [g \in Pages |-> IF page[g].home = o THEN [home |-> Gone, lists |-> {}] ELSE page[g]]
           tk == [t \in Tokens |-> IF token[t].org = o THEN [token[t] EXCEPT !.org = None] ELSE token[t]]
<1>1. /\ q.pc = "writing" /\ q.op = "delete org" /\ Ends(r) /\ UNCHANGED <<suspended, changes>>
      /\ live' = live \ {o} /\ role' = rl /\ home' = hm /\ page' = pg /\ token' = tk
  BY AtIs DEF DeletesOrg, Unlisted
<1>2. q \in Request /\ Holds(q) /\ DeletesItsOwn(q, role, home, token) /\ Wants(q) = q.held
  BY RequestsAre, RequestsKnow, RequestsHold, AtIs DEF DeletesOrg
<1>3. /\ o \in Orgs /\ Account(CreatorOf[o]) \in q.held
      /\ \A u \in Users : role[<<u, o>>] # "none" => Membership(u, o) \in q.held
  BY <1>1, <1>2 DEF Holds, IsSerialized, DeletesItsOwn
<1>n. {None, Gone} \cap Orgs = {} /\ None # Gone
  BY AccessAssumption
<1>t. /\ role \in [Users \X Orgs -> {"none", "MEMBER", "OWNER"}] /\ live \subseteq Orgs
      /\ home \in [Checks -> Orgs \cup {None, Gone}] /\ PagesListTheirOwn
      /\ page \in [Pages -> [home : Orgs \cup {None, Gone}, lists : SUBSET Checks]]
      /\ token \in [Tokens -> [org : Orgs \cup {None}, ended : BOOLEAN]]
      /\ \A u \in Users, v \in Orgs : role[<<u, v>>] # "none" => v \in live
      /\ \A t \in Tokens : token[t].org \in {TokenOf[t].org, None}
      /\ \A g \in Pages : page[g].home \in {None, Gone} => page[g].lists = {}
  BY DEF AccessRight, TablesRight
<1> HIDE DEF o, q
<1>r. /\ rl \in [Users \X Orgs -> {"none", "MEMBER", "OWNER"}]
      /\ \A u \in Users, v \in Orgs : rl[<<u, v>>] = IF v = o THEN "none" ELSE role[<<u, v>>]
  <2>1. ASSUME NEW m \in Users \X Orgs PROVE rl[m] \in {"none", "MEMBER", "OWNER"}
    BY <1>t
  <2>2. ASSUME NEW u \in Users, NEW v \in Orgs PROVE rl[<<u, v>>] = IF v = o THEN "none" ELSE role[<<u, v>>]
    <3>1. <<u, v>> \in Users \X Orgs /\ <<u, v>>[2] = v
      OBVIOUS
    <3> QED BY <3>1
  <2> QED BY <2>1, <2>2
<1>h. /\ hm \in [Checks -> Orgs \cup {None, Gone}]
      /\ \A c \in Checks : hm[c] = IF home[c] = o THEN Gone ELSE home[c]
  BY <1>t
<1>p. /\ pg \in [Pages -> [home : Orgs \cup {None, Gone}, lists : SUBSET Checks]]
      /\ \A g \in Pages : pg[g] = IF page[g].home = o THEN [home |-> Gone, lists |-> {}] ELSE page[g]
      /\ \A g \in Pages : pg[g].home = IF page[g].home = o THEN Gone ELSE page[g].home
      /\ \A g \in Pages : pg[g].lists = IF page[g].home = o THEN {} ELSE page[g].lists
  BY <1>t
<1>k. /\ tk \in [Tokens -> [org : Orgs \cup {None}, ended : BOOLEAN]]
      /\ \A t \in Tokens : tk[t].org = IF token[t].org = o THEN None ELSE token[t].org
  <2> SUFFICES ASSUME NEW t \in Tokens
               PROVE  /\ tk[t] \in [org : Orgs \cup {None}, ended : BOOLEAN]
                      /\ tk[t].org = IF token[t].org = o THEN None ELSE token[t].org
    BY Zenon
  <2>1. tk[t] = IF token[t].org = o THEN [token[t] EXCEPT !.org = None] ELSE token[t]
    OBVIOUS
  <2> HIDE DEF tk
  <2>2. token[t] \in [org : Orgs \cup {None}, ended : BOOLEAN]
    BY <1>t
  <2>3. CASE token[t].org = o
    <3>1. tk[t] = [token[t] EXCEPT !.org = None]
      BY <2>1, <2>3
    <3>2. tk[t] \in [org : Orgs \cup {None}, ended : BOOLEAN]
      BY <2>2, <3>1, Zenon
    <3>3. tk[t].org = None
      BY <2>2, <3>1
    <3> QED BY <2>3, <3>2, <3>3
  <2>4. CASE token[t].org # o
    BY <2>1, <2>2, <2>4
  <2> QED BY <2>3, <2>4
<1> HIDE DEF rl, hm, pg, tk
<1>4. ASSUME NEW g \in Pages, NEW c \in pg[g].lists PROVE hm[c] \in {pg[g].home, Gone}
  <2>1. page[g].home # o /\ c \in page[g].lists /\ pg[g].home = page[g].home
    BY <1>4, <1>p
  <2>2. home[c] \in {page[g].home, Gone} /\ c \in Checks
    BY <1>t, <2>1 DEF PagesListTheirOwn
  <2> QED BY <1>h, <1>3, <1>n, <2>1, <2>2
<1>5. TablesRight'
  <2>1. PagesListTheirOwn'
    BY <1>1, <1>4 DEF PagesListTheirOwn
  <2>2. \A u \in Users, v \in Orgs : rl[<<u, v>>] # "none" => v \in live \ {o}
    BY <1>r, <1>t
  <2>3. \A t \in Tokens : tk[t].org \in {TokenOf[t].org, None}
    BY <1>k, <1>t
  <2>4. \A g \in Pages : pg[g].home \in {None, Gone} => pg[g].lists = {}
    BY <1>p, <1>t
  <2>5. live \ {o} \subseteq Orgs
    BY <1>t
  <2>6. suspended' \subseteq Users /\ changes' \in 0 .. MaxChanges
    BY <1>1 DEF AccessRight, TablesRight
  <2> QED BY <1>1, <1>r, <1>h, <1>p, <1>k, <2>1, <2>2, <2>3, <2>4, <2>5, <2>6 DEF TablesRight
<1>6. ASSUME NEW s \in Requests \ {r} PROVE StillTrue(req[s], role', home', page', token', suspended')
  <2> DEFINE x == req[s]
  <2>1. /\ AboutToken(x, token) /\ TokenIsGood(x, role, suspended) /\ CheckIsAtHome(x, home) /\ MayChange(x, role)
        /\ IsNewStill(x, home, page) /\ ListsItsOwn(x, home) /\ PagesAreOfIt(x, page) /\ DeletesItsOwn(x, role, home, token)
        /\ IsAbout(x) /\ Holds(x) /\ x \in Request /\ InPhase(x)
    BY RequestsKnow, RequestsAre, RequestsHold
  <2>2. IsSerialized(x) => x.org # o
    BY <1>3, SerializedAlone DEF q
  <2>3. ASSUME NEW u \in Users, Membership(u, o) \in x.held PROVE role[<<u, o>>] = "none"
    <3>1. Membership(u, o) \notin q.held
      BY <2>3, HeldAlone DEF q
    <3> QED BY <1>3, <3>1
  <2> HIDE DEF x
  <2>u. x.pc \notin {"idle", "ended"} => x.user \in Users
    BY <2>1 DEF IsAbout
  <2>4. AboutToken(x, tk)
    <3> SUFFICES ASSUME x.pc \in {"authenticating", "touching"}, tk[x.token].org # None PROVE CredentialRows(x) \subseteq Wants(x)
      BY DEF AboutToken
    <3>1. x.token \in Tokens
      BY <2>1 DEF IsAbout
    <3>2. token[x.token].org # None
      BY <1>k, <3>1
    <3> QED BY <2>1, <3>2 DEF AboutToken
  <2>5. TokenIsGood(x, rl, suspended)
    <3> SUFFICES ASSUME x.pc = "touching", x.bound # None PROVE rl[<<x.user, x.bound>>] # "none"
      BY <2>1 DEF TokenIsGood
    <3>1. Membership(x.user, x.bound) \in x.held /\ role[<<x.user, x.bound>>] # "none" /\ x.user \in Users /\ x.bound \in Orgs
      BY <2>1, <2>u DEF TokenIsGood, Request
    <3>2. x.bound # o
      BY <2>3, <3>1
    <3> QED BY <1>r, <3>1, <3>2
  <2>6. CheckIsAtHome(x, hm)
    <3> SUFFICES ASSUME ChecksOfItsOwn(x) PROVE hm[x.check] = x.org
      BY DEF CheckIsAtHome, ChecksOfItsOwn
    <3>1. home[x.check] = x.org /\ x.check \in Checks
      BY <2>1 DEF CheckIsAtHome, ChecksOfItsOwn, Holds
    <3>2. x.org # o
      BY <2>2 DEF IsSerialized
    <3> QED BY <1>h, <3>1, <3>2
  <2>7. MayChange(x, rl)
    <3>1. ASSUME x.op \in CheckOps, x.pc = "writing" PROVE rl[<<x.user, x.org>>] # "none"
      <4>1. x.org # o /\ x.org \in Orgs /\ role[<<x.user, x.org>>] # "none" /\ x.user \in Users
        BY <2>1, <2>2, <2>u, <3>1 DEF IsSerialized, Holds, MayChange
      <4> QED BY <1>r, <4>1
    <3>2. ASSUME x.op = "move check", x.pc \in {"destination", "pages", "writing"} PROVE rl[<<x.user, x.org>>] = "OWNER"
      <4>1. x.org # o /\ x.org \in Orgs /\ role[<<x.user, x.org>>] = "OWNER" /\ x.user \in Users
        BY <2>1, <2>2, <2>u, <3>2 DEF IsSerialized, ChecksOfItsOwn, Holds, MayChange
      <4> QED BY <1>r, <4>1
    <3>3. ASSUME x.op = "move check", x.pc \in {"pages", "writing"} PROVE rl[<<x.user, x.dest>>] = "OWNER"
      <4>1. /\ x.dest \in Orgs /\ role[<<x.user, x.dest>>] = "OWNER" /\ x.user \in Users
            /\ Membership(x.user, x.dest) \in x.held
        BY <2>1, <2>u, <3>3 DEF Holds, MayChange
      <4>2. x.dest # o
        BY <2>3, <4>1
      <4> QED BY <1>r, <4>1, <4>2
    <3> QED BY <3>1, <3>2, <3>3 DEF MayChange
  <2>8. IsNewStill(x, hm, pg)
    <3>1. ASSUME x.op = "create check" PROVE hm[x.check] = None
      <4>1. home[x.check] = None /\ x.check \in Checks
        BY <2>1, <3>1 DEF IsNewStill, IsAbout
      <4> QED BY <1>h, <1>3, <1>n, <4>1
    <3>2. ASSUME x.op = "create page" PROVE pg[x.page].home = None
      <4>1. page[x.page].home = None /\ x.page \in Pages
        BY <2>1, <3>2 DEF IsNewStill, IsAbout, PageOps
      <4> QED BY <1>p, <1>3, <1>n, <4>1
    <3> QED BY <3>1, <3>2 DEF IsNewStill
  <2>9. ListsItsOwn(x, hm)
    <3> SUFFICES ASSUME WritesPages(x), NEW d \in x.lists PROVE hm[d] \in {x.org, Gone}
      BY DEF ListsItsOwn, WritesPages
    <3>1. home[d] \in {x.org, Gone} /\ d \in Checks
      BY <2>1 DEF ListsItsOwn, WritesPages, Request
    <3> QED BY <1>h, <3>1
  <2>10. PagesAreOfIt(x, pg)
    <3> SUFFICES ASSUME x.op \in {"update page", "move check", "delete org"}, NEW g \in Pages, Page(g) \in Wants(x)
                 PROVE  pg[g].home \in {x.org, Gone}
      BY DEF PagesAreOfIt
    <3>1. page[g].home \in {x.org, Gone}
      BY <2>1 DEF PagesAreOfIt
    <3> QED BY <1>p, <3>1
  <2>11. DeletesItsOwn(x, rl, hm, tk)
    <3> SUFFICES ASSUME x.op = "delete org", x.pc = "writing"
                 PROVE  /\ \A u \in Users : rl[<<u, x.org>>] # "none" => Membership(u, x.org) \in Wants(x)
                        /\ \A t \in Tokens : Token(t) \in Wants(x) => tk[t].org = x.org
                        /\ \A c \in Checks : Check(c) \in Wants(x) => hm[c] = x.org
      BY DEF DeletesItsOwn
    <3>1. x.org # o /\ x.org \in Orgs
      BY <2>1, <2>2 DEF IsSerialized, Holds
    <3>2. /\ \A u \in Users : role[<<u, x.org>>] # "none" => Membership(u, x.org) \in Wants(x)
          /\ \A t \in Tokens : Token(t) \in Wants(x) => token[t].org = x.org
          /\ \A c \in Checks : Check(c) \in Wants(x) => home[c] = x.org
      BY <2>1 DEF DeletesItsOwn
    <3> QED BY <1>r, <1>h, <1>k, <3>1, <3>2
  <2>12. StillTrue(x, rl, hm, pg, tk, suspended)
    BY <2>4, <2>5, <2>6, <2>7, <2>8, <2>9, <2>10, <2>11 DEF StillTrue
  <2> QED BY <1>1, <2>12 DEF x
<1> QED BY <1>1, <1>5, <1>6, WritesRight

-----------------------------------------------------------------------------
(* What others do *)

LEMMA ChangesRight ==
    ASSUME AccessRight, NEW l, Changes(l), TablesRight',
           \A s \in Requests : StillTrue(req[s], role', home, page, token', suspended')
    PROVE  AccessRight'
<1>1. home' = home /\ page' = page /\ req' = req
  BY DEF Changes
<1> QED BY <1>1 DEF AccessRight

LEMMA ChangesRoleRight ==
    ASSUME AccessRight, NEW u \in Users, NEW o \in Orgs, NEW new \in {"none", "MEMBER"}, ChangesRole(u, o, new)
    PROVE  AccessRight'
<1> DEFINE rl == [role EXCEPT ![<<u, o>>] = new]
<1>1. /\ Changes(Membership(u, o)) /\ role' = rl /\ token' = token /\ suspended' = suspended
      /\ role[<<u, o>>] # "none" /\ live' = live /\ home' = home /\ page' = page
      /\ \A s \in Requests : Membership(u, o) \notin req[s].held
      /\ changes < MaxChanges /\ changes' = changes + 1
  BY DEF ChangesRole, Changes, IsMember
<1>t. /\ role \in [Users \X Orgs -> {"none", "MEMBER", "OWNER"}]
      /\ \A v \in Users, w \in Orgs : role[<<v, w>>] # "none" => w \in live
      /\ changes \in 0 .. MaxChanges /\ TablesRight
  BY DEF AccessRight, TablesRight
<1>2. rl \in [Users \X Orgs -> {"none", "MEMBER", "OWNER"}]
  BY <1>t
<1>3. ASSUME NEW v \in Users, NEW w \in Orgs
      PROVE  /\ rl[<<v, w>>] # "none" => role[<<v, w>>] # "none"
             /\ Membership(v, w) # Membership(u, o) => rl[<<v, w>>] = role[<<v, w>>]
  <2>1. CASE <<v, w>> = <<u, o>>
    BY <1>1, <2>1
  <2>2. CASE <<v, w>> # <<u, o>>
    <3>1. rl[<<v, w>>] = role[<<v, w>>]
      BY <1>t, <2>2
    <3> QED BY <3>1
  <2> QED BY <2>1, <2>2
<1> HIDE DEF rl
<1>4. TablesRight'
  <2>1. \A v \in Users, w \in Orgs : rl[<<v, w>>] # "none" => w \in live
    BY <1>3, <1>t
  <2>2. changes' \in 0 .. MaxChanges
    BY <1>1, <1>t, AccessAssumption
  <2>3. PagesListTheirOwn'
    BY <1>1, <1>t DEF TablesRight, PagesListTheirOwn
  <2> QED BY <1>1, <1>2, <1>t, <2>1, <2>2, <2>3 DEF TablesRight
<1>5. ASSUME NEW s \in Requests PROVE StillTrue(req[s], role', home, page, token', suspended')
  <2> DEFINE x == req[s]
  <2>1. /\ AboutToken(x, token) /\ TokenIsGood(x, role, suspended) /\ CheckIsAtHome(x, home) /\ MayChange(x, role)
        /\ IsNewStill(x, home, page) /\ ListsItsOwn(x, home) /\ PagesAreOfIt(x, page) /\ DeletesItsOwn(x, role, home, token)
        /\ IsAbout(x) /\ Holds(x) /\ x \in Request
    BY RequestsKnow, RequestsAre, RequestsHold
  <2>2. ASSUME NEW v \in Users, NEW w \in Orgs, Membership(v, w) \in x.held PROVE rl[<<v, w>>] = role[<<v, w>>]
    BY <1>1, <1>3, <2>2
  <2> HIDE DEF x
  <2>u. x.pc \notin {"idle", "ended"} => x.user \in Users
    BY <2>1 DEF IsAbout
  <2>3. TokenIsGood(x, rl, suspended)
    <3> SUFFICES ASSUME x.pc = "touching", x.bound # None PROVE rl[<<x.user, x.bound>>] # "none"
      BY <2>1 DEF TokenIsGood
    <3>1. Membership(x.user, x.bound) \in x.held /\ role[<<x.user, x.bound>>] # "none" /\ x.user \in Users /\ x.bound \in Orgs
      BY <2>1, <2>u DEF TokenIsGood, Request
    <3> QED BY <2>2, <3>1
  <2>4. MayChange(x, rl)
    <3>1. ASSUME x.op \in CheckOps, x.pc = "writing" PROVE rl[<<x.user, x.org>>] # "none"
      <4>1. x.org \in Orgs /\ role[<<x.user, x.org>>] # "none" /\ x.user \in Users /\ Membership(x.user, x.org) \in x.held
        BY <2>1, <2>u, <3>1 DEF IsSerialized, Holds, MayChange
      <4> QED BY <2>2, <4>1
    <3>2. ASSUME x.op = "move check", x.pc \in {"destination", "pages", "writing"} PROVE rl[<<x.user, x.org>>] = "OWNER"
      <4>1. x.org \in Orgs /\ role[<<x.user, x.org>>] = "OWNER" /\ x.user \in Users /\ Membership(x.user, x.org) \in x.held
        BY <2>1, <2>u, <3>2 DEF IsSerialized, ChecksOfItsOwn, Holds, MayChange
      <4> QED BY <2>2, <4>1
    <3>3. ASSUME x.op = "move check", x.pc \in {"pages", "writing"} PROVE rl[<<x.user, x.dest>>] = "OWNER"
      <4>1. /\ x.dest \in Orgs /\ role[<<x.user, x.dest>>] = "OWNER" /\ x.user \in Users
            /\ Membership(x.user, x.dest) \in x.held
        BY <2>1, <2>u, <3>3 DEF Holds, MayChange
      <4> QED BY <2>2, <4>1
    <3> QED BY <3>1, <3>2, <3>3 DEF MayChange
  <2>5. DeletesItsOwn(x, rl, home, token)
    <3> SUFFICES ASSUME x.op = "delete org", x.pc = "writing", NEW v \in Users, rl[<<v, x.org>>] # "none"
                 PROVE  Membership(v, x.org) \in Wants(x)
      BY <2>1 DEF DeletesItsOwn
    <3>1. x.org \in Orgs
      BY <2>1 DEF Holds, IsSerialized
    <3>2. role[<<v, x.org>>] # "none"
      BY <1>3, <3>1
    <3> QED BY <2>1, <3>2 DEF DeletesItsOwn
  <2>6. StillTrue(x, rl, home, page, token, suspended)
    BY <2>1, <2>3, <2>4, <2>5 DEF StillTrue
  <2> QED BY <1>1, <2>6 DEF x
<1> QED BY <1>1, <1>4, <1>5, ChangesRight

LEMMA RevokesRight ==
    ASSUME AccessRight, NEW t \in Tokens, Revokes(t)
    PROVE  AccessRight'
<1> DEFINE tk == [token EXCEPT ![t].ended = TRUE]
<1>1. /\ Changes(Token(t)) /\ token' = tk /\ role' = role /\ suspended' = suspended
      /\ live' = live /\ home' = home /\ page' = page
      /\ changes < MaxChanges /\ changes' = changes + 1
  BY DEF Revokes, Changes
<1>t. /\ token \in [Tokens -> [org : Orgs \cup {None}, ended : BOOLEAN]]
      /\ changes \in 0 .. MaxChanges /\ TablesRight
  BY DEF AccessRight, TablesRight
<1>2. /\ tk \in [Tokens -> [org : Orgs \cup {None}, ended : BOOLEAN]]
      /\ \A k \in Tokens : tk[k].org = token[k].org
  <2>1. token[t] \in [org : Orgs \cup {None}, ended : BOOLEAN]
    BY <1>t
  <2>2. [token[t] EXCEPT !.ended = TRUE] \in [org : Orgs \cup {None}, ended : BOOLEAN]
    BY <2>1, Zenon
  <2>3. [token[t] EXCEPT !.ended = TRUE].org = token[t].org
    BY <2>1
  <2>4. tk = [token EXCEPT ![t] = [token[t] EXCEPT !.ended = TRUE]]
    OBVIOUS
  <2> HIDE DEF tk
  <2> QED BY <1>t, <2>2, <2>3, <2>4
<1> HIDE DEF tk
<1>4. TablesRight'
  <2>1. \A k \in Tokens : tk[k].org \in {TokenOf[k].org, None}
    BY <1>2, <1>t DEF TablesRight
  <2>2. changes' \in 0 .. MaxChanges
    BY <1>1, <1>t, AccessAssumption
  <2>3. PagesListTheirOwn'
    BY <1>1, <1>t DEF TablesRight, PagesListTheirOwn
  <2> QED BY <1>1, <1>2, <1>t, <2>1, <2>2, <2>3 DEF TablesRight
<1>5. ASSUME NEW s \in Requests PROVE StillTrue(req[s], role', home, page, token', suspended')
  <2> DEFINE x == req[s]
  <2>1. /\ AboutToken(x, token) /\ TokenIsGood(x, role, suspended) /\ CheckIsAtHome(x, home) /\ MayChange(x, role)
        /\ IsNewStill(x, home, page) /\ ListsItsOwn(x, home) /\ PagesAreOfIt(x, page) /\ DeletesItsOwn(x, role, home, token)
        /\ IsAbout(x)
    BY RequestsKnow, RequestsAre
  <2> HIDE DEF x
  <2>2. AboutToken(x, tk)
    <3> SUFFICES ASSUME x.pc \in {"authenticating", "touching"}, tk[x.token].org # None PROVE CredentialRows(x) \subseteq Wants(x)
      BY DEF AboutToken
    <3>1. x.token \in Tokens
      BY <2>1 DEF IsAbout
    <3> QED BY <1>2, <2>1, <3>1 DEF AboutToken
  <2>3. DeletesItsOwn(x, role, home, tk)
    BY <1>2, <2>1 DEF DeletesItsOwn
  <2>4. StillTrue(x, role, home, page, tk, suspended)
    BY <2>1, <2>2, <2>3 DEF StillTrue
  <2> QED BY <1>1, <2>4 DEF x
<1> QED BY <1>1, <1>4, <1>5, ChangesRight

LEMMA SuspendsRight ==
    ASSUME AccessRight, NEW u \in Users, Suspends(u)
    PROVE  AccessRight'
<1>1. /\ Changes(Account(u)) /\ suspended' = suspended \cup {u} /\ role' = role /\ token' = token
      /\ live' = live /\ home' = home /\ page' = page
      /\ \A s \in Requests : Account(u) \notin req[s].held
      /\ changes < MaxChanges /\ changes' = changes + 1
  BY DEF Suspends, Changes
<1>t. changes \in 0 .. MaxChanges /\ TablesRight
  BY DEF AccessRight, TablesRight
<1>4. TablesRight'
  <2>1. suspended' \subseteq Users
    BY <1>1, <1>t DEF TablesRight
  <2>2. changes' \in 0 .. MaxChanges
    BY <1>1, <1>t, AccessAssumption
  <2>3. PagesListTheirOwn'
    BY <1>1, <1>t DEF TablesRight, PagesListTheirOwn
  <2> QED BY <1>1, <1>t, <2>1, <2>2, <2>3 DEF TablesRight
<1>5. ASSUME NEW s \in Requests PROVE StillTrue(req[s], role', home, page, token', suspended')
  <2> DEFINE x == req[s]
  <2>1. /\ AboutToken(x, token) /\ TokenIsGood(x, role, suspended) /\ CheckIsAtHome(x, home) /\ MayChange(x, role)
        /\ IsNewStill(x, home, page) /\ ListsItsOwn(x, home) /\ PagesAreOfIt(x, page) /\ DeletesItsOwn(x, role, home, token)
        /\ Holds(x)
    BY RequestsKnow, RequestsHold
  <2>2. Account(u) \notin x.held
    BY <1>1
  <2> HIDE DEF x
  <2>3. TokenIsGood(x, role, suspended')
    BY <1>1, <2>1, <2>2 DEF TokenIsGood, Holds
  <2>4. StillTrue(x, role, home, page, token, suspended')
    BY <2>1, <2>3 DEF StillTrue
  <2> QED BY <1>1, <2>4 DEF x
<1> QED BY <1>1, <1>4, <1>5, ChangesRight

LEMMA AccessInitRight ==
    ASSUME AccessInit
    PROVE  AccessRight
<1>a. /\ role = FirstRole /\ live = Orgs /\ home = FirstHome /\ page = FirstPage
      /\ token = [t \in Tokens |-> [org |-> TokenOf[t].org, ended |-> FALSE]]
      /\ suspended = {} /\ changes = 0
      /\ req = [r \in Requests |-> Idle]
  BY DEF AccessInit
<1>t. /\ token \in [Tokens -> [org : Orgs \cup {None}, ended : BOOLEAN]]
      /\ \A t \in Tokens : token[t].org = TokenOf[t].org
  <2>1. ASSUME NEW t \in Tokens
        PROVE  /\ [org |-> TokenOf[t].org, ended |-> FALSE] \in [org : Orgs \cup {None}, ended : BOOLEAN]
               /\ [org |-> TokenOf[t].org, ended |-> FALSE].org = TokenOf[t].org
    <3>1. TokenOf[t].org \in Orgs \cup {None}
      BY AccessAssumption
    <3> QED BY <3>1
  <2> QED BY <1>a, <2>1
<1>1. TablesRight
  <2>1. PagesListTheirOwn
    BY <1>a, AccessAssumption DEF PagesListTheirOwn
  <2>2. \A g \in Pages : page[g].home \in {None, Gone} => page[g].lists = {}
    BY <1>a, AccessAssumption
  <2>3. /\ role \in [Users \X Orgs -> {"none", "MEMBER", "OWNER"}] /\ live \subseteq Orgs /\ suspended \subseteq Users
        /\ home \in [Checks -> Orgs \cup {None, Gone}]
        /\ page \in [Pages -> [home : Orgs \cup {None, Gone}, lists : SUBSET Checks]]
        /\ changes \in 0 .. MaxChanges
        /\ \A u \in Users, o \in Orgs : role[<<u, o>>] # "none" => o \in live
    <3>1. /\ FirstRole \in [Users \X Orgs -> {"none", "MEMBER", "OWNER"}]
          /\ FirstHome \in [Checks -> Orgs \cup {None, Gone}]
          /\ FirstPage \in [Pages -> [home : Orgs \cup {None}, lists : SUBSET Checks]]
          /\ 0 \in 0 .. MaxChanges
      BY AccessAssumption
    <3>2. FirstPage \in [Pages -> [home : Orgs \cup {None, Gone}, lists : SUBSET Checks]]
      BY <3>1
    <3> QED BY <1>a, <3>1, <3>2
  <2> QED BY <1>t, <2>1, <2>2, <2>3 DEF TablesRight
<1>i. /\ Idle.pc = "idle" /\ Idle.op = "none" /\ Idle.held = {} /\ Idle.todo = <<>> /\ Idle.org = None
      /\ Idle.check = None /\ Idle.page = None /\ Idle.user = None /\ Idle.token = None /\ Idle.bound = None
      /\ Idle.dest = None /\ Idle.lists = {} /\ Idle.tries = 0
  BY DEF Idle
<1>2. Idle \in Request
  <2>1. 0 \in 0 .. MaxTries - 1 /\ <<>> \in Seq(Rows) /\ {} \in SUBSET Rows
    BY AccessAssumption
  <2> QED BY <2>1 DEF Request, Pcs, Idle
<1>w. Wants(Idle) = {}
  BY <1>i, WantsNone
<1>3. RequestRight(Idle)
  <2>1. IsAbout(Idle)
    BY <1>i, AccessAssumption DEF IsAbout, CheckOps, PageOps
  <2>2. LocksInOrder(Idle)
    BY <1>i, InOrderNone
  <2>3. InPhase(Idle)
    <3>1. Idle = [Idle EXCEPT !.pc = Idle.pc]
      BY DEF Idle
    <3> QED BY <1>i, <3>1 DEF InPhase
  <2>4. CheckInPhase(Idle) /\ MoveInPhase(Idle) /\ PageInPhase(Idle) /\ DeletionInPhase(Idle) /\ InScope(Idle)
    BY <1>i DEF CheckInPhase, MoveInPhase, PageInPhase, DeletionInPhase, InScope, CheckOps
  <2> QED BY <1>2, <2>1, <2>2, <2>3, <2>4 DEF RequestRight
<1>4. StillTrue(Idle, role, home, page, token, suspended)
  BY <1>i DEF StillTrue, AboutToken, TokenIsGood, CheckIsAtHome, MayChange, IsNewStill, ListsItsOwn, PagesAreOfIt,
              DeletesItsOwn, CheckOps
<1>5. Apart(Idle, Idle)
  BY <1>i DEF Apart
<1>6. req \in [Requests -> Request] /\ \A r \in Requests : req[r] = Idle
  BY <1>2, <1>a
<1> QED BY <1>1, <1>3, <1>4, <1>5, <1>6 DEF AccessRight

LEMMA HandlesRight ==
    ASSUME AccessRight, NEW r \in Requests, Handles(r)
    PROVE  AccessRight'
<1>1. CASE Locks(r) \/ Victim(r) \/ ReadsToken(r) \/ Touches(r) \/ ResolvesCheck(r) \/ ResolvesOrg(r)
  BY <1>1, LocksRight, VictimRight, ReadsTokenRight, TouchesRight, ResolvesCheckRight, ResolvesOrgRight
<1>2. CASE BeginsCheck(r) \/ LocksCheck(r) \/ AssertsExpected(r) \/ LocksMember(r) \/ AssertsMember(r) \/ WritesCheck(r)
  BY <1>2, BeginsCheckRight, LocksCheckRight, AssertsExpectedRight, LocksMemberRight, AssertsMemberRight, WritesCheckRight
<1>3. CASE BeginsMove(r) \/ RereadsMove(r) \/ AssertsOwnerOfSource(r) \/ AssertsOwnerOfDestination(r) \/ LocksPages(r) \/ Moves(r)
  BY <1>3, BeginsMoveRight, RereadsMoveRight, AssertsOwnerOfSourceRight, AssertsOwnerOfDestinationRight, LocksPagesRight,
     MovesTheCheckRight
<1>4. CASE BeginsPage(r) \/ AssertsChecks(r) \/ WritesPage(r) \/ BeginsPageDeletion(r) \/ DeletesPage(r) \/ WritesNothing(r)
  BY <1>4, BeginsPageRight, AssertsChecksRight, WritesPageRight, BeginsPageDeletionRight, DeletesPageRight, WritesNothingRight
<1>5. CASE BeginsDeletion(r) \/ LocksMemberships(r) \/ Decides(r) \/ DeletesOrg(r)
  BY <1>5, BeginsDeletionRight, LocksMembershipsRight, DecidesRight, DeletesOrgRight
<1> QED BY <1>1, <1>2, <1>3, <1>4, <1>5 DEF Handles

LEMMA AccessStep ==
    ASSUME AccessRight, [AccessNext]_accessVars
    PROVE  AccessRight'
<1>1. CASE AccessNext
  <2>1. CASE \E r \in Requests : Requested(r)
    BY <2>1, RequestedRight
  <2>2. CASE \E r \in Requests : Handles(r)
    BY <2>2, HandlesRight
  <2>3. CASE Others
    BY <2>3, ChangesRoleRight, RevokesRight, SuspendsRight DEF Others
  <2> QED BY <1>1, <2>1, <2>2, <2>3 DEF AccessNext
<1>2. CASE UNCHANGED accessVars
  <2>1. /\ role' = role /\ live' = live /\ home' = home /\ page' = page /\ token' = token
        /\ suspended' = suspended /\ changes' = changes /\ req' = req
    BY <1>2 DEF accessVars, tables
  <2>2. TablesRight'
    BY <2>1 DEF AccessRight, TablesRight, PagesListTheirOwn
  <2> QED BY <2>1, <2>2 DEF AccessRight
<1> QED BY <1>1, <1>2

LEMMA AccessTyped ==
    ASSUME AccessRight
    PROVE  AccessTypeOK /\ PagesListTheirOwn
<1>1. ASSUME NEW r \in Requests
      PROVE  /\ req[r].pc \in Pcs /\ req[r].op \in Ops \cup {"none"}
             /\ req[r].held \subseteq Rows /\ req[r].tries \in 0 .. MaxTries - 1
             /\ \A s \in Requests \ {r} : req[r].held \cap req[s].held = {}
  <2>1. req[r] \in Request
    BY RequestsAre
  <2>2. /\ req[r].pc \in Pcs /\ req[r].op \in Ops \cup {"none"}
        /\ req[r].held \subseteq Rows /\ req[r].tries \in 0 .. MaxTries - 1
    BY <2>1 DEF Request
  <2>3. \A s \in Requests \ {r} : req[r].held \cap req[s].held = {}
    BY DEF AccessRight, Apart
  <2> QED BY <2>2, <2>3
<1>2. TablesRight
  BY DEF AccessRight
<1> QED BY <1>1, <1>2 DEF TablesRight, AccessTypeOK

\* A step is one of one request, or of others.
LEMMA OneRequestMoves ==
    ASSUME NEW r \in Requests, Requested(r) \/ Handles(r)
    PROVE  \E p : Set(r, p)
<1>1. CASE Requested(r)
  BY <1>1 DEF Requested, CallsWithSession, CallsWithToken, Goes
<1>2. CASE Locks(r) \/ Victim(r) \/ ReadsToken(r) \/ Touches(r) \/ ResolvesCheck(r) \/ ResolvesOrg(r)
  BY <1>2 DEF Locks, Victim, ReadsToken, Touches, ResolvesCheck, ResolvesOrg, Goes, Refused, Ends
<1>3. CASE BeginsCheck(r) \/ LocksCheck(r) \/ AssertsExpected(r) \/ LocksMember(r) \/ AssertsMember(r) \/ WritesCheck(r)
  BY <1>3 DEF BeginsCheck, LocksCheck, AssertsExpected, LocksMember, AssertsMember, WritesCheck, Goes, Refused, Ends
<1>4. CASE BeginsMove(r) \/ RereadsMove(r) \/ AssertsOwnerOfSource(r) \/ AssertsOwnerOfDestination(r) \/ LocksPages(r) \/ Moves(r)
  BY <1>4 DEF BeginsMove, RereadsMove, AssertsOwnerOfSource, AssertsOwnerOfDestination, LocksPages, Moves, Goes, Refused, Ends
<1>5. CASE BeginsPage(r) \/ AssertsChecks(r) \/ WritesPage(r) \/ BeginsPageDeletion(r) \/ DeletesPage(r) \/ WritesNothing(r)
  BY <1>5 DEF BeginsPage, AssertsChecks, WritesPage, BeginsPageDeletion, DeletesPage, WritesNothing, Goes, Refused, Ends
<1>6. CASE BeginsDeletion(r) \/ LocksMemberships(r) \/ Decides(r) \/ DeletesOrg(r)
  BY <1>6 DEF BeginsDeletion, LocksMemberships, Decides, DeletesOrg, Goes, Refused, Ends
<1> QED BY <1>1, <1>2, <1>3, <1>4, <1>5, <1>6 DEF Handles

LEMMA RequestsMoveAlone ==
    ASSUME AccessRight, [AccessNext]_accessVars, NEW r \in Requests
    PROVE  req'[r] = req[r] \/ Requested(r) \/ Handles(r)
<1>1. CASE \E s \in Requests : s # r /\ (Requested(s) \/ Handles(s))
  <2>1. PICK s \in Requests : s # r /\ (Requested(s) \/ Handles(s))
    BY <1>1
  <2>2. PICK p : Set(s, p)
    BY <2>1, OneRequestMoves
  <2>3. req \in [Requests -> Request]
    BY DEF AccessRight
  <2> QED BY <2>1, <2>2, <2>3 DEF Set
<1>2. CASE Others \/ UNCHANGED accessVars
  BY <1>2 DEF Others, ChangesRole, Revokes, Suspends, Changes, accessVars
<1> QED BY <1>1, <1>2 DEF AccessNext

\* A credential that is read and good is good when it is touched.
IsAccepted(r) ==
    LET q == req[r] IN
    q.pc = "touching" /\ req'[r].pc \in {"accepted", "resolved"} =>
        /\ ~token[q.token].ended /\ q.user \notin suspended
        /\ req'[r].bound = TokenOf[q.token].org
        /\ q.bound # None => q.bound \in live /\ IsMember(q.user, q.bound)

LEMMA TouchesOnly ==
    ASSUME AccessRight, NEW r \in Requests, req[r].pc = "touching", Requested(r) \/ Handles(r)
    PROVE  Touches(r) \/ Refused(r)
<1>1. req[r].todo = <<>>
  BY RequestsAre DEF InPhase
<1>2. ~Locks(r) /\ ~Requested(r)
  BY <1>1 DEF Locks, Requested
<1>3. \A pc : At(r, pc) => pc = "touching"
  BY DEF At
<1>4. ~ReadsToken(r) /\ ~ResolvesCheck(r) /\ ~ResolvesOrg(r)
  BY <1>3 DEF ReadsToken, ResolvesCheck, ResolvesOrg
<1>5. ~(BeginsCheck(r) \/ LocksCheck(r) \/ AssertsExpected(r) \/ LocksMember(r) \/ AssertsMember(r) \/ WritesCheck(r))
  BY <1>3 DEF BeginsCheck, LocksCheck, AssertsExpected, LocksMember, AssertsMember, WritesCheck
<1>6. ~(BeginsMove(r) \/ RereadsMove(r) \/ AssertsOwnerOfSource(r) \/ AssertsOwnerOfDestination(r) \/ LocksPages(r) \/ Moves(r))
  BY <1>3 DEF BeginsMove, RereadsMove, AssertsOwnerOfSource, AssertsOwnerOfDestination, LocksPages, Moves
<1>7. ~(BeginsPage(r) \/ AssertsChecks(r) \/ WritesPage(r) \/ BeginsPageDeletion(r) \/ DeletesPage(r) \/ WritesNothing(r))
  BY <1>3 DEF BeginsPage, AssertsChecks, WritesPage, BeginsPageDeletion, DeletesPage, WritesNothing
<1>8. ~(BeginsDeletion(r) \/ LocksMemberships(r) \/ Decides(r) \/ DeletesOrg(r))
  BY <1>3 DEF BeginsDeletion, LocksMemberships, Decides, DeletesOrg
<1>9. Victim(r) => Refused(r)
  BY DEF Victim
<1> QED BY <1>2, <1>4, <1>5, <1>6, <1>7, <1>8, <1>9 DEF Handles

LEMMA AcceptedStep ==
    ASSUME AccessRight, [AccessNext]_accessVars
    PROVE  \A r \in Requests : IsAccepted(r)
<1> SUFFICES ASSUME NEW r \in Requests, req[r].pc = "touching", req'[r].pc \in {"accepted", "resolved"}
             PROVE  /\ ~token[req[r].token].ended /\ req[r].user \notin suspended
                    /\ req'[r].bound = TokenOf[req[r].token].org
                    /\ req[r].bound # None => req[r].bound \in live /\ IsMember(req[r].user, req[r].bound)
  BY DEF IsAccepted
<1> DEFINE q == req[r]
           p == Onward(WithNothing(q), Accepted(q), <<>>)
<1>1. req \in [Requests -> Request] /\ q \in Request
  BY RequestsAre DEF AccessRight
<1>2. ~Refused(r)
  <2> SUFFICES ASSUME Refused(r) PROVE FALSE
    OBVIOUS
  <2>1. Set(r, Over)
    BY DEF Refused, Ends, Over
  <2>2. req'[r] = Over
    BY <1>1, <2>1 DEF Set
  <2> QED BY <2>2, OverIs
<1>3. Touches(r)
  BY <1>2, RequestsMoveAlone, TouchesOnly
<1>4. token[q.token].org = q.bound /\ ~token[q.token].ended /\ Set(r, p)
  <2>1. token[q.token].org = q.bound /\ ~token[q.token].ended
    BY <1>2, <1>3 DEF Touches
  <2> QED BY <1>3, <2>1 DEF Touches, Goes, Onward, WithNothing
<1>5. TokenIsGood(q, role, suspended) /\ IsAbout(q)
  BY RequestsKnow, RequestsAre
<1>6. req'[r] = p
  BY <1>1, <1>4 DEF Set
<1>7. p.bound = q.bound
  BY <1>1 DEF Onward, WithNothing, Request
<1>8. q.user \in Users /\ q.bound \in Orgs \cup {None}
  BY <1>1, <1>5 DEF IsAbout, Request
<1>9. q.bound # None => q.bound \in live /\ IsMember(q.user, q.bound)
  BY <1>5, <1>8 DEF TokenIsGood, IsMember, AccessRight, TablesRight
<1>10. q.user \notin suspended /\ q.bound = TokenOf[q.token].org
  BY <1>5 DEF TokenIsGood
<1> HIDE DEF p
<1> QED BY <1>4, <1>6, <1>7, <1>9, <1>10

\* Who is about to write a check may.
IsAllowed(r) ==
    LET q == req[r] o == IF q.op = "create check" THEN q.org ELSE home[q.check] IN
    q.pc = "writing" /\ q.op \in CheckOps \cup {"move check"} =>
        /\ IsMember(q.user, o) /\ requireCheckAccess(q, o)
        /\ q.op = "move check" => role[<<q.user, o>>] = "OWNER" /\ role[<<q.user, q.dest>>] = "OWNER"
        /\ q.op = "edit check" => home[q.check] \in Orgs

LEMMA ChangersMay ==
    ASSUME AccessRight, NEW r \in Requests
    PROVE  IsAllowed(r)
<1> DEFINE q == req[r]
           o == IF q.op = "create check" THEN q.org ELSE home[q.check]
<1> SUFFICES ASSUME q.pc = "writing", q.op \in CheckOps \cup {"move check"}
             PROVE  /\ IsMember(q.user, o) /\ requireCheckAccess(q, o)
                    /\ q.op = "move check" => role[<<q.user, o>>] = "OWNER" /\ role[<<q.user, q.dest>>] = "OWNER"
                    /\ q.op = "edit check" => home[q.check] \in Orgs
  BY DEF IsAllowed
<1>1. CheckIsAtHome(q, home) /\ MayChange(q, role) /\ InScope(q) /\ Holds(q)
  BY RequestsKnow, RequestsAre, RequestsHold
<1> HIDE DEF q
<1>2. o = q.org /\ q.org \in Orgs
  BY <1>1 DEF CheckIsAtHome, CheckOps, Holds, IsSerialized, ChecksOfItsOwn
<1>3. requireCheckAccess(q, q.org)
  BY <1>1 DEF InScope, requireCheckAccess
<1>4. q.op = "move check" => role[<<q.user, q.org>>] = "OWNER" /\ role[<<q.user, q.dest>>] = "OWNER"
  BY <1>1 DEF MayChange
<1>5. IsMember(q.user, q.org)
  BY <1>1, <1>4 DEF MayChange, IsMember
<1>6. q.op = "edit check" => home[q.check] \in Orgs
  BY <1>2
<1> HIDE DEF o
<1> QED BY <1>2, <1>3, <1>4, <1>5, <1>6

-----------------------------------------------------------------------------
(* Circles of waits *)

\* It waits for k, which is no account, after the rows that it has.
Waiting(q, k) ==
    /\ q.todo # <<>> /\ k \in Wants(q) /\ k \notin q.held /\ k[1] # "account"
    /\ \A h \in q.held : Level(q, h) <= Level(q, k)

DeletesNow(q) == q.op = "delete org" /\ q.pc \in {"deciding", "writing"}

\* What is known of a request that waits by the rows that it has.
KnownByRows(q, k) ==
    /\ \A t \in Tokens : Token(t) \in q.held => DeletesNow(q) /\ token[t].org = q.org
    /\ \A o \in Orgs : Project(o) \in q.held =>
          \/ DeletesNow(q) /\ o = q.org
          \/ q.token \in Tokens /\ k = Token(q.token) /\ o = TokenOf[q.token].org
    /\ \A c \in Checks : Check(c) \in q.held => IsSerialized(q) /\ home[c] = q.org
    /\ \A g \in Pages : Page(g) \in q.held => q.op \in {"move check", "delete org"} /\ q.pc = "writing"
    /\ \A o \in Orgs : PagesOf(o) \in q.held => k[1] \in {"page", "project"}
    /\ \A u \in Users, o \in Orgs : Membership(u, o) \in q.held =>
          \/ DeletesNow(q) /\ (u = q.user \/ o = q.org)
          \/ k[1] # "membership"
          \/ q.op = "move check" /\ q.pc = "destination" /\ u = q.user /\ o = q.org /\ k = Membership(q.user, q.dest)

\* And by the row that it waits for.
KnownByWait(q, k) ==
    /\ k[1] = "check" => DeletesNow(q) \/ \A h \in q.held : h[1] = "account"
    /\ k[1] = "page" =>
          \/ q.held = {}
          \/ q.op = "update page" /\ PagesOf(q.org) \in q.held
          \/ q.op \in {"move check", "delete org"} /\ q.pc = "writing"
    /\ DeletesNow(q) =>
          \/ k[1] = "membership"
          \/ q.pc = "writing" /\ k = Project(q.org)
          \/ q.pc = "writing" /\ \E t \in Tokens : k = Token(t) /\ token[t].org = q.org
          \/ q.pc = "writing" /\ \E c \in Checks : k = Check(c) /\ home[c] = q.org
          \/ q.pc = "writing" /\ \E g \in Pages : k = Page(g)

LEMMA KindsDiffer ==
    /\ \A u : Account(u)[1] = "account"
    /\ \A u, o : Membership(u, o)[1] = "membership"
    /\ \A o : Project(o)[1] = "project"
    /\ \A t : Token(t)[1] = "token"
    /\ \A c : Check(c)[1] = "check"
    /\ \A o : PagesOf(o)[1] = "pages of"
    /\ \A g : Page(g)[1] = "page"
BY AccountIs, MembershipIs, ProjectIs, TokenIs, CheckIs, PagesOfIs, PageIs

LEMMA NamesOfRows ==
    /\ \A u, v : Account(u) = Account(v) => u = v
    /\ \A o, p : Project(o) = Project(p) => o = p
    /\ \A t, x : Token(t) = Token(x) => t = x
    /\ \A c, d : Check(c) = Check(d) => c = d
    /\ \A o, p : PagesOf(o) = PagesOf(p) => o = p
    /\ \A g, h : Page(g) = Page(h) => g = h
    /\ \A u, o, v, p : Membership(u, o) = Membership(v, p) => u = v /\ o = p
BY DEF Account, Project, Token, Check, PagesOf, Page, Membership

\* Who authenticates has the token last.
LEMMA AuthenticationWaits ==
    ASSUME NEW q, NEW k, Waiting(q, k), q.pc = "authenticating", IsAbout(q), InPhase(q)
    PROVE  KnownByRows(q, k) /\ KnownByWait(q, k)
<1> DEFINE o == TokenOf[q.token].org
           A == Account(q.user)
           M == Membership(q.user, o)
           P == Project(o)
           T == Token(q.token)
<1>1. Wants(q) \subseteq {A, T, M, P}
  BY DEF InPhase, CredentialRows
<1>2. q.held \subseteq Wants(q) /\ k \in Wants(q) /\ k \notin q.held /\ k[1] # "account"
  BY DEF Wants, Waiting
<1>3. A[1] = "account" /\ M[1] = "membership" /\ P[1] = "project" /\ T[1] = "token"
  BY KindsDiffer
<1>4. q.token \in Tokens
  BY DEF IsAbout
<1>5. Level(q, M) < Level(q, P) /\ Level(q, P) < Level(q, T)
  <2>1. CASE Deletes(q)
    <3>1. Level(q, M) = 2 /\ Level(q, P) = 3 /\ Level(q, T) = 4
      BY <2>1, DeletionLevels
    <3> QED BY <3>1
  <2>2. CASE ~Deletes(q)
    <3>1. Level(q, M) = 3 /\ Level(q, P) = 6 /\ Level(q, T) = 7
      BY <2>2, OtherLevels
    <3> QED BY <3>1
  <2> QED BY <2>1, <2>2
<1>6. \A h \in q.held : Level(q, h) <= Level(q, k)
  BY DEF Waiting
<1>l. Level(q, M) \in Nat /\ Level(q, P) \in Nat /\ Level(q, T) \in Nat
  BY LevelRange
<1> HIDE DEF A, M, P, T
<1>7. k \in {M, P, T} /\ q.held \subseteq {A, M, P, T}
  BY <1>1, <1>2, <1>3
<1>8. T \notin q.held
  <2> SUFFICES ASSUME T \in q.held PROVE FALSE
    OBVIOUS
  <2>1. Level(q, T) <= Level(q, k) /\ k \in {M, P}
    BY <1>2, <1>6, <1>7
  <2> QED BY <1>5, <1>l, <2>1
<1>9. P \in q.held => k = T
  <2> SUFFICES ASSUME P \in q.held PROVE k = T
    OBVIOUS
  <2>1. Level(q, P) <= Level(q, k) /\ k \in {M, T}
    BY <1>2, <1>6, <1>7
  <2> QED BY <1>5, <1>l, <2>1
<1>10. ASSUME NEW h \in q.held
       PROVE  \/ h = A /\ h[1] = "account"
              \/ h = M /\ h[1] = "membership"
              \/ h = P /\ h[1] = "project" /\ k = T
  <2>1. h \in {A, M, P}
    BY <1>7, <1>8
  <2>2. CASE h = A
    BY <1>3, <2>2
  <2>3. CASE h = M
    BY <1>3, <2>3
  <2>4. CASE h = P
    BY <1>3, <1>9, <2>4
  <2> QED BY <2>1, <2>2, <2>3, <2>4
<1>11. KnownByRows(q, k)
  <2>1. \A t \in Tokens : Token(t) \notin q.held
    BY <1>10, KindsDiffer
  <2>2. ASSUME NEW p \in Orgs, Project(p) \in q.held PROVE k = Token(q.token) /\ p = TokenOf[q.token].org
    <3>1. Project(p)[1] = "project"
      BY KindsDiffer
    <3>2. Project(p) = P /\ k = T
      BY <1>10, <2>2, <3>1
    <3> QED BY <3>2, NamesOfRows DEF P, T
  <2>3. /\ \A c \in Checks : Check(c) \notin q.held
        /\ \A g \in Pages : Page(g) \notin q.held
        /\ \A p \in Orgs : PagesOf(p) \notin q.held
    BY <1>10, KindsDiffer
  <2>4. ASSUME NEW u \in Users, NEW p \in Orgs, Membership(u, p) \in q.held PROVE k[1] # "membership"
    <3>1. Membership(u, p)[1] = "membership"
      BY KindsDiffer
    <3>2. M \in q.held
      BY <1>10, <2>4, <3>1
    <3> QED BY <1>2, <1>3, <1>7, <3>2
  <2> QED BY <1>4, <2>1, <2>2, <2>3, <2>4 DEF KnownByRows
<1>12. KnownByWait(q, k)
  <2>1. k[1] \notin {"check", "page"}
    BY <1>3, <1>7
  <2> QED BY <2>1 DEF KnownByWait, DeletesNow
<1> QED BY <1>11, <1>12

\* Who changes a check has little.
LEMMA CheckWaits ==
    ASSUME NEW q, NEW k, Waiting(q, k), q.op \in CheckOps, q.pc \in {"accounts", "check", "membership", "writing"},
           Holds(q), CheckInPhase(q), CheckIsAtHome(q, home)
    PROVE  KnownByRows(q, k) /\ KnownByWait(q, k)
<1> DEFINE A == Account(CreatorOf[q.org])
           C == Check(q.check)
           M == Membership(q.user, q.org)
           P == Project(q.org)
<1>1. /\ Wants(q) \subseteq {A} \cup (IF q.pc = "accounts" \/ q.op = "create check" THEN {} ELSE {C})
              \cup (IF q.pc \in {"accounts", "check"} THEN {} ELSE {M})
              \cup (IF q.pc = "writing" /\ q.op = "create check" THEN {P} ELSE {})
  <2>1. AccountsOf(q) = {A}
    BY DEF AccountsOf, CheckOps
  <2> QED BY <2>1 DEF CheckInPhase
<1>2. q.held \subseteq Wants(q) /\ k \in Wants(q) /\ k \notin q.held /\ k[1] # "account"
  BY DEF Wants, Waiting
<1>3. A[1] = "account" /\ M[1] = "membership" /\ P[1] = "project" /\ C[1] = "check"
  BY KindsDiffer
<1>4. Level(q, C) = 2 /\ Level(q, M) = 3 /\ Level(q, P) = 6
  <2>1. ~Deletes(q)
    BY DEF Deletes, CheckOps
  <2> QED BY <2>1, OtherLevels
<1>5. \A h \in q.held : Level(q, h) <= Level(q, k)
  BY DEF Waiting
<1>6. C \in q.held => IsSerialized(q) /\ home[q.check] = q.org
  <2> SUFFICES ASSUME C \in q.held PROVE IsSerialized(q) /\ home[q.check] = q.org
    OBVIOUS
  <2>1. C \in Wants(q) /\ C # A /\ C # M /\ C # P
    BY <1>2, <1>3
  <2>2. q.pc # "accounts" /\ q.op # "create check"
    BY <1>1, <2>1
  <2>3. q.pc # "check"
    <3> SUFFICES ASSUME q.pc = "check" PROVE FALSE
      OBVIOUS
    <3>1. k \in {A, C}
      BY <1>1, <1>2, <2>2
    <3> QED BY <1>2, <1>3, <3>1
  <2>4. ChecksOfItsOwn(q)
    BY <2>2, <2>3 DEF ChecksOfItsOwn, CheckOps
  <2> QED BY <2>4 DEF IsSerialized, CheckIsAtHome, ChecksOfItsOwn
<1> HIDE DEF A, C, M, P
<1>7. k \in {C, M, P} /\ q.held \subseteq {A, C, M, P}
  BY <1>1, <1>2, <1>3
<1>8. P \notin q.held
  <2> SUFFICES ASSUME P \in q.held PROVE FALSE
    OBVIOUS
  <2>1. Level(q, P) <= Level(q, k) /\ k \in {C, M}
    BY <1>2, <1>5, <1>7
  <2> QED BY <1>4, <2>1
<1>9. k = C => M \notin q.held
  <2> SUFFICES ASSUME k = C, M \in q.held PROVE FALSE
    OBVIOUS
  <2>1. Level(q, M) <= Level(q, C)
    BY <1>5
  <2> QED BY <1>4, <2>1
<1>10. ASSUME NEW h \in q.held
       PROVE  \/ h = A /\ h[1] = "account"
              \/ h = M /\ h[1] = "membership"
              \/ h = C /\ h[1] = "check"
  <2>1. h \in {A, M, C}
    BY <1>7, <1>8
  <2>2. CASE h = A
    BY <1>3, <2>2
  <2>3. CASE h = M
    BY <1>3, <2>3
  <2>4. CASE h = C
    BY <1>3, <2>4
  <2> QED BY <2>1, <2>2, <2>3, <2>4
<1>11. KnownByRows(q, k)
  <2>1. /\ \A t \in Tokens : Token(t) \notin q.held
        /\ \A o \in Orgs : Project(o) \notin q.held
        /\ \A g \in Pages : Page(g) \notin q.held
        /\ \A o \in Orgs : PagesOf(o) \notin q.held
    BY <1>10, KindsDiffer
  <2>2. ASSUME NEW c \in Checks, Check(c) \in q.held PROVE IsSerialized(q) /\ home[c] = q.org
    <3>1. Check(c)[1] = "check"
      BY KindsDiffer
    <3>2. Check(c) = C /\ C \in q.held
      BY <1>10, <2>2, <3>1
    <3>3. c = q.check
      BY <3>2, NamesOfRows DEF C
    <3> QED BY <1>6, <3>2, <3>3
  <2>3. ASSUME NEW u \in Users, NEW p \in Orgs, Membership(u, p) \in q.held PROVE k[1] # "membership"
    <3>1. Membership(u, p)[1] = "membership"
      BY KindsDiffer
    <3>2. M \in q.held
      BY <1>10, <2>3, <3>1
    <3>3. k \in {C, P}
      BY <1>2, <1>7, <3>2
    <3> QED BY <1>3, <3>3
  <2> QED BY <2>1, <2>2, <2>3 DEF KnownByRows
<1>12. KnownByWait(q, k)
  <2>1. k[1] # "page" /\ ~DeletesNow(q)
    BY <1>3, <1>7 DEF DeletesNow, CheckOps
  <2>2. k[1] = "check" => \A h \in q.held : h[1] = "account"
    <3> SUFFICES ASSUME k[1] = "check", NEW h \in q.held PROVE h[1] = "account"
      OBVIOUS
    <3>1. k = C
      BY <1>3, <1>7
    <3>2. h # C /\ h # M
      BY <1>2, <1>9, <3>1
    <3> QED BY <1>10, <3>2
  <2> QED BY <2>1, <2>2 DEF KnownByWait
<1> QED BY <1>11, <1>12

\* Who changes a status page has its coordination at most.
LEMMA PageWaits ==
    ASSUME NEW q, NEW k, Waiting(q, k), q.op \in PageOps,
           q.op # "delete page" => q.pc \in {"coordinated", "writing"}, q.op = "delete page" => q.pc = "writing",
           PageInPhase(q)
    PROVE  KnownByRows(q, k) /\ KnownByWait(q, k)
<1> DEFINE S == PagesOf(q.org)
           G == Page(q.page)
           P == Project(q.org)
<1>1. /\ q.op # "delete page" => Wants(q) \subseteq {S, G, P}
      /\ q.op # "delete page" /\ q.pc = "coordinated" => Wants(q) = {S}
      /\ q.op = "create page" => Wants(q) \subseteq {S, P}
      /\ q.op = "update page" => Wants(q) \subseteq {S, G}
      /\ q.op = "delete page" => Wants(q) = {G}
      /\ q.op # "delete page" /\ q.pc = "writing" => S \in q.held
  BY DEF PageInPhase, PageOps
<1>2. q.held \subseteq Wants(q) /\ k \in Wants(q) /\ k \notin q.held /\ k[1] # "account"
  BY DEF Wants, Waiting
<1>3. S[1] = "pages of" /\ G[1] = "page" /\ P[1] = "project"
  BY KindsDiffer
<1>4. Level(q, S) = 4 /\ Level(q, G) = 5 /\ Level(q, P) = 6
  <2>1. ~Deletes(q)
    BY DEF Deletes, PageOps
  <2> QED BY <2>1, OtherLevels
<1>5. \A h \in q.held : Level(q, h) <= Level(q, k)
  BY DEF Waiting
<1>6. S # G /\ S # P /\ G # P
  BY <1>3
<1> HIDE DEF S, G, P
<1>7. q.held \subseteq {S} /\ k \in {S, G, P}
  <2>1. CASE q.op = "delete page"
    <3>1. Wants(q) = {G}
      BY <1>1, <2>1
    <3>2. k = G /\ q.held = {}
      BY <1>2, <3>1
    <3> QED BY <3>2
  <2>2. CASE q.op = "create page"
    BY <1>1, <1>2, <2>2, <1>4, <1>5, <1>6
  <2>3. CASE q.op = "update page"
    BY <1>1, <1>2, <2>3, <1>4, <1>5, <1>6
  <2> QED BY <2>1, <2>2, <2>3 DEF PageOps
<1>8. S \in q.held => k \in {G, P}
  BY <1>2, <1>7
<1>9. \A h \in q.held : h[1] = "pages of"
  BY <1>3, <1>7
<1>10. KnownByRows(q, k)
  <2>1. /\ \A t \in Tokens : Token(t) \notin q.held
        /\ \A o \in Orgs : Project(o) \notin q.held
        /\ \A c \in Checks : Check(c) \notin q.held
        /\ \A g \in Pages : Page(g) \notin q.held
        /\ \A u \in Users, o \in Orgs : Membership(u, o) \notin q.held
    BY <1>9, KindsDiffer
  <2>2. \A o \in Orgs : PagesOf(o) \in q.held => k[1] \in {"page", "project"}
    BY <1>3, <1>7, <1>8
  <2> QED BY <2>1, <2>2 DEF KnownByRows
<1>11. KnownByWait(q, k)
  <2>1. k[1] # "check" /\ ~DeletesNow(q)
    BY <1>3, <1>7 DEF DeletesNow, PageOps
  <2>2. k[1] = "page" => q.held = {} \/ (q.op = "update page" /\ S \in q.held)
    <3> SUFFICES ASSUME k[1] = "page", q.held # {} PROVE q.op = "update page" /\ S \in q.held
      OBVIOUS
    <3>1. k = G /\ S \in q.held
      BY <1>3, <1>7
    <3> QED BY <1>1, <1>2, <1>6, <3>1 DEF PageOps
  <2> QED BY <2>1, <2>2 DEF KnownByWait, S
<1> QED BY <1>10, <1>11

\* The page is locked before the project that it moves to.
LEMMA PagesBeforeProjects ==
    ASSUME NEW q, NEW k, NEW g, NEW o, Waiting(q, k), ~Deletes(q), k = Page(g)
    PROVE  Project(o) \notin q.held
<1> SUFFICES ASSUME Project(o) \in q.held PROVE FALSE
  OBVIOUS
<1>1. Level(q, Project(o)) <= Level(q, Page(g))
  BY DEF Waiting
<1>2. Level(q, Project(o)) = 6 /\ Level(q, Page(g)) = 5
  BY OtherLevels
<1>3. \A a, b : a = 6 /\ b = 5 => ~(a <= b)
  OBVIOUS
<1> QED BY <1>1, <1>2, <1>3

\* Who moves a check has it when it waits for more than accounts and the check.
LEMMA MoveWaits ==
    ASSUME NEW q, NEW k, Waiting(q, k), q.op = "move check", q.pc \in {"accounts", "source", "destination", "pages", "writing"},
           MoveInPhase(q), CheckIsAtHome(q, home)
    PROVE  KnownByRows(q, k) /\ KnownByWait(q, k)
<1> DEFINE A1 == Account(CreatorOf[q.org])
           A2 == Account(CreatorOf[q.dest])
           C == Check(q.check)
           M1 == Membership(q.user, q.org)
           M2 == Membership(q.user, q.dest)
           S == PagesOf(q.org)
           P == Project(q.dest)
           G == {Page(g) : g \in Pages}
<1>1. /\ Wants(q) \subseteq {A1, A2, C}
              \cup (IF q.pc = "accounts" THEN {} ELSE {M1})
              \cup (IF q.pc \in {"accounts", "source"} THEN {} ELSE {M2})
              \cup (IF q.pc \in {"pages", "writing"} THEN {S} ELSE {})
              \cup (IF q.pc = "writing" THEN G \cup {P} ELSE {})
      /\ q.pc # "accounts" => C \in q.held
      /\ q.pc \in {"destination", "pages", "writing"} => M1 \in q.held
      /\ q.pc \in {"pages", "writing"} => M2 \in q.held
      /\ q.pc = "writing" => S \in q.held
  <2>1. AccountsOf(q) = {A1, A2}
    BY DEF AccountsOf, CheckOps
  <2> QED BY <2>1 DEF MoveInPhase
<1>2. q.held \subseteq Wants(q) /\ k \in Wants(q) /\ k \notin q.held /\ k[1] # "account"
  BY DEF Wants, Waiting
<1>3. /\ A1[1] = "account" /\ A2[1] = "account" /\ M1[1] = "membership" /\ M2[1] = "membership" /\ P[1] = "project"
      /\ C[1] = "check" /\ S[1] = "pages of"
  BY KindsDiffer
<1>g. \A h \in G : h[1] = "page"
  BY KindsDiffer
<1>l. k \in G => P \notin q.held
  <2> SUFFICES ASSUME NEW g \in Pages, k = Page(g) PROVE P \notin q.held
    OBVIOUS
  <2>1. ~Deletes(q)
    BY DEF Deletes
  <2> QED BY <2>1, PagesBeforeProjects
<1>5. \A h \in q.held : Level(q, h) <= Level(q, k)
  BY DEF Waiting
<1>6. C \in q.held /\ q.pc # "accounts" => IsSerialized(q) /\ home[q.check] = q.org
  BY DEF CheckIsAtHome, IsSerialized, ChecksOfItsOwn
<1> HIDE DEF A1, A2, C, M1, M2, S, P, G
<1>a. q.pc = "accounts" => k = C /\ q.held \subseteq {A1, A2}
  BY <1>1, <1>2, <1>3
<1>b. q.pc = "source" => k = M1 /\ q.held \subseteq {A1, A2, C}
  BY <1>1, <1>2, <1>3
<1>c. q.pc = "destination" => k = M2 /\ q.held \subseteq {A1, A2, C, M1}
  BY <1>1, <1>2, <1>3
<1>d. q.pc = "pages" => k = S /\ q.held \subseteq {A1, A2, C, M1, M2}
  BY <1>1, <1>2, <1>3
<1>e. q.pc = "writing" => k \in G \cup {P} /\ q.held \subseteq {A1, A2, C, M1, M2, S} \cup G
  <2> SUFFICES ASSUME q.pc = "writing" PROVE k \in G \cup {P} /\ q.held \subseteq {A1, A2, C, M1, M2, S} \cup G
    OBVIOUS
  <2>1. Wants(q) \subseteq {A1, A2, C, M1, M2, S, P} \cup G
    BY <1>1
  <2>2. k \in G \cup {P}
    BY <1>1, <1>2, <1>3, <2>1
  <2>3. P \notin q.held
    <3>1. P \in q.held => k \in G
      BY <1>2, <2>2
    <3> QED BY <1>l, <3>1
  <2>4. ASSUME NEW h \in q.held PROVE h \in {A1, A2, C, M1, M2, S} \cup G
    <3>1. h \in Wants(q) /\ h # P
      BY <1>2, <2>3
    <3>2. h \in {A1, A2, C, M1, M2, S, P} \cup G
      BY <2>1, <3>1
    <3> QED BY <3>1, <3>2
  <2> QED BY <2>2, <2>4
<1>7. ASSUME NEW h \in q.held
      PROVE  \/ h[1] = "account"
             \/ h[1] = "membership" /\ h = M1
             \/ h[1] = "membership" /\ q.pc \in {"pages", "writing"}
             \/ h[1] = "check" /\ h = C /\ q.pc # "accounts"
             \/ h[1] = "pages of" /\ q.pc = "writing"
             \/ h[1] = "page" /\ q.pc = "writing"
  BY <1>3, <1>g, <1>a, <1>b, <1>c, <1>d, <1>e
<1>8. /\ q.pc = "accounts" => k[1] = "check"
      /\ q.pc \in {"source", "destination"} => k[1] = "membership"
      /\ q.pc = "pages" => k[1] = "pages of"
      /\ q.pc = "writing" => k[1] \in {"page", "project"}
  <2>1. k \in G \cup {P} => k[1] \in {"page", "project"}
    BY <1>3, <1>g
  <2> QED BY <1>3, <1>a, <1>b, <1>c, <1>d, <1>e, <2>1
<1>9. KnownByRows(q, k)
  <2>1. /\ \A t \in Tokens : Token(t) \notin q.held
        /\ \A o \in Orgs : Project(o) \notin q.held
        /\ \A g \in Pages : Page(g) \in q.held => q.pc = "writing"
        /\ \A o \in Orgs : PagesOf(o) \in q.held => q.pc = "writing"
    BY <1>7, KindsDiffer
  <2>2. ASSUME NEW c \in Checks, Check(c) \in q.held PROVE IsSerialized(q) /\ home[c] = q.org
    <3>1. Check(c)[1] = "check"
      BY KindsDiffer
    <3>2. Check(c) = C /\ q.pc # "accounts"
      BY <1>7, <2>2, <3>1
    <3>3. c = q.check
      BY <3>2, NamesOfRows DEF C
    <3> QED BY <1>6, <2>2, <3>2, <3>3
  <2>3. ASSUME NEW u \in Users, NEW o \in Orgs, Membership(u, o) \in q.held, k[1] = "membership"
        PROVE  q.pc = "destination" /\ u = q.user /\ o = q.org /\ k = Membership(q.user, q.dest)
    <3>1. Membership(u, o)[1] = "membership"
      BY KindsDiffer
    <3>2. Membership(u, o) = M1 /\ q.pc \in {"source", "destination"}
      BY <1>7, <1>8, <2>3, <3>1
    <3>3. q.pc # "source"
      BY <1>2, <1>b, <2>3, <3>2
    <3>4. k = M2
      BY <1>c, <3>2, <3>3
    <3>5. Membership(u, o) = Membership(q.user, q.org)
      BY <3>2 DEF M1
    <3>6. u = q.user /\ o = q.org
      BY <3>5 DEF Membership
    <3>7. k = Membership(q.user, q.dest)
      BY <3>4 DEF M2
    <3>8. q.pc = "destination"
      BY <3>2, <3>3
    <3> QED BY <3>6, <3>7, <3>8
  <2> QED BY <1>8, <2>1, <2>2, <2>3 DEF KnownByRows
<1>10. KnownByWait(q, k)
  <2>1. k[1] = "check" => \A h \in q.held : h[1] = "account"
    <3>1. k[1] = "check" => q.pc = "accounts"
      BY <1>8
    <3> QED BY <1>3, <1>a, <3>1
  <2>2. k[1] = "page" => q.pc = "writing"
    BY <1>8
  <2> QED BY <2>1, <2>2 DEF KnownByWait, DeletesNow
<1> QED BY <1>9, <1>10

LEMMA WhatGoesWithIt ==
    ASSUME NEW o, NEW h \in GoWithIt(o)
    PROVE  \/ \E u \in Users, v \in Orgs : h = Membership(u, v)
           \/ h = Project(o)
           \/ \E t \in Tokens : h = Token(t)
           \/ \E c \in Checks : h = Check(c)
           \/ \E g \in Pages : h = Page(g)
BY DEF GoWithIt

\* Who deletes an organization.
LEMMA DeletionWaits ==
    ASSUME NEW q, NEW k, Waiting(q, k), q.op = "delete org", q.pc \in {"accounts", "deciding", "writing"},
           DeletionInPhase(q), DeletesItsOwn(q, role, home, token), Holds(q)
    PROVE  KnownByRows(q, k) /\ KnownByWait(q, k)
<1> DEFINE A == {Account(q.user), Account(CreatorOf[q.org])}
<1>1. /\ q.pc = "accounts" => Wants(q) = A
      /\ q.pc = "deciding" => Wants(q) \subseteq A \cup {Membership(q.user, o) : o \in Orgs}
      /\ q.pc = "writing" => Wants(q) \subseteq A \cup GoWithIt(q.org)
      /\ \A u \in Users, o \in Orgs : Membership(u, o) \in Wants(q) => u = q.user \/ o = q.org
  <2>1. AccountsOf(q) = A
    BY DEF AccountsOf, CheckOps
  <2>2. /\ q.pc = "accounts" => Wants(q) = AccountsOf(q)
        /\ q.pc = "deciding" => Wants(q) \subseteq AccountsOf(q) \cup {Membership(q.user, o) : o \in Orgs}
        /\ q.pc = "writing" => Wants(q) \subseteq AccountsOf(q) \cup GoWithIt(q.org)
    BY DEF DeletionInPhase
  <2>3. \A u \in Users, o \in Orgs : Membership(u, o) \in Wants(q) => u = q.user \/ o = q.org
    BY DEF DeletionInPhase
  <2> QED BY <2>1, <2>2, <2>3
<1>2. q.held \subseteq Wants(q) /\ k \in Wants(q) /\ k \notin q.held /\ k[1] # "account"
  BY DEF Wants, Waiting
<1>3. \A h \in A : h[1] = "account"
  BY KindsDiffer
<1> HIDE DEF A
<1>4. DeletesNow(q)
  BY <1>1, <1>2, <1>3 DEF DeletesNow
<1>5. ASSUME NEW h \in Wants(q)
      PROVE  \/ h[1] = "account"
             \/ h[1] = "membership"
             \/ h[1] = "project" /\ h = Project(q.org) /\ q.pc = "writing"
             \/ h[1] = "token" /\ q.pc = "writing" /\ \E t \in Tokens : h = Token(t) /\ token[t].org = q.org
             \/ h[1] = "check" /\ q.pc = "writing" /\ \E c \in Checks : h = Check(c) /\ home[c] = q.org
             \/ h[1] = "page" /\ q.pc = "writing" /\ \E g \in Pages : h = Page(g)
  <2>1. CASE q.pc = "deciding"
    <3>1. h \in A \/ \E o \in Orgs : h = Membership(q.user, o)
      BY <1>1, <2>1
    <3> QED BY <1>3, <3>1, KindsDiffer
  <2>2. CASE q.pc = "writing"
    <3>1. /\ \A t \in Tokens : Token(t) \in Wants(q) => token[t].org = q.org
          /\ \A c \in Checks : Check(c) \in Wants(q) => home[c] = q.org
      BY <2>2 DEF DeletesItsOwn
    <3>2. \/ h \in A
          \/ \E u \in Users, v \in Orgs : h = Membership(u, v)
          \/ h = Project(q.org)
          \/ \E t \in Tokens : h = Token(t)
          \/ \E c \in Checks : h = Check(c)
          \/ \E g \in Pages : h = Page(g)
      <4>1. h \in A \cup GoWithIt(q.org)
        BY <1>1, <2>2
      <4>2. CASE h \in GoWithIt(q.org)
        BY <4>2, WhatGoesWithIt
      <4> QED BY <4>1, <4>2
    <3>3. CASE h \in A \/ h = Project(q.org) \/ \E u \in Users, v \in Orgs : h = Membership(u, v)
      BY <1>3, <2>2, <3>3, KindsDiffer
    <3>4. CASE \E t \in Tokens : h = Token(t)
      <4>1. PICK t \in Tokens : h = Token(t)
        BY <3>4
      <4>2. h[1] = "token" /\ token[t].org = q.org
        BY <3>1, <4>1, KindsDiffer
      <4> QED BY <2>2, <4>1, <4>2
    <3>5. CASE \E c \in Checks : h = Check(c)
      <4>1. PICK c \in Checks : h = Check(c)
        BY <3>5
      <4>2. h[1] = "check" /\ home[c] = q.org
        BY <3>1, <4>1, KindsDiffer
      <4> QED BY <2>2, <4>1, <4>2
    <3>6. CASE \E g \in Pages : h = Page(g)
      <4>1. PICK g \in Pages : h = Page(g)
        BY <3>6
      <4>2. h[1] = "page"
        BY <4>1, KindsDiffer
      <4> QED BY <2>2, <4>1, <4>2
    <3> QED BY <3>2, <3>3, <3>4, <3>5, <3>6
  <2> QED BY <1>4, <2>1, <2>2 DEF DeletesNow
<1>6. KnownByRows(q, k)
  <2>1. ASSUME NEW t \in Tokens, Token(t) \in q.held PROVE token[t].org = q.org
    <3>1. Token(t)[1] = "token" /\ Token(t) \in Wants(q)
      BY <1>2, <2>1, KindsDiffer
    <3>2. PICK x \in Tokens : Token(t) = Token(x) /\ token[x].org = q.org
      BY <1>5, <3>1
    <3> QED BY <3>2, NamesOfRows
  <2>2. ASSUME NEW o \in Orgs, Project(o) \in q.held PROVE o = q.org
    <3>1. Project(o)[1] = "project" /\ Project(o) \in Wants(q)
      BY <1>2, <2>2, KindsDiffer
    <3>2. Project(o) = Project(q.org)
      BY <1>5, <3>1
    <3> QED BY <3>2, NamesOfRows
  <2>3. ASSUME NEW c \in Checks, Check(c) \in q.held PROVE home[c] = q.org
    <3>1. Check(c)[1] = "check" /\ Check(c) \in Wants(q)
      BY <1>2, <2>3, KindsDiffer
    <3>2. PICK x \in Checks : Check(c) = Check(x) /\ home[x] = q.org
      BY <1>5, <3>1
    <3> QED BY <3>2, NamesOfRows
  <2>4. ASSUME NEW g \in Pages, Page(g) \in q.held PROVE q.pc = "writing"
    <3>1. Page(g)[1] = "page" /\ Page(g) \in Wants(q)
      BY <1>2, <2>4, KindsDiffer
    <3> QED BY <1>5, <3>1
  <2>5. \A o \in Orgs : PagesOf(o) \notin q.held
    <3> SUFFICES ASSUME NEW o \in Orgs, PagesOf(o) \in q.held PROVE FALSE
      OBVIOUS
    <3>1. PagesOf(o)[1] = "pages of" /\ PagesOf(o) \in Wants(q)
      BY <1>2, KindsDiffer
    <3> QED BY <1>5, <3>1
  <2>6. \A u \in Users, o \in Orgs : Membership(u, o) \in q.held => u = q.user \/ o = q.org
    BY <1>1, <1>2
  <2>7. IsSerialized(q)
    BY <1>4 DEF IsSerialized, DeletesNow
  <2> QED BY <1>4, <2>1, <2>2, <2>3, <2>4, <2>5, <2>6, <2>7 DEF KnownByRows
<1>7. KnownByWait(q, k)
  <2>1. k[1] = "page" => q.pc = "writing"
    BY <1>2, <1>5
  <2>2. \/ k[1] = "membership"
        \/ q.pc = "writing" /\ k = Project(q.org)
        \/ q.pc = "writing" /\ \E t \in Tokens : k = Token(t) /\ token[t].org = q.org
        \/ q.pc = "writing" /\ \E c \in Checks : k = Check(c) /\ home[c] = q.org
        \/ q.pc = "writing" /\ \E g \in Pages : k = Page(g)
    BY <1>2, <1>5
  <2> QED BY <1>4, <2>1, <2>2 DEF KnownByWait
<1> QED BY <1>6, <1>7

\* Whoever waits.
LEMMA WaitsAre ==
    ASSUME AccessRight, NEW r \in Requests, NEW k, Waiting(req[r], k)
    PROVE  KnownByRows(req[r], k) /\ KnownByWait(req[r], k)
<1> DEFINE q == req[r]
<1>1. /\ q \in Request /\ IsAbout(q) /\ InPhase(q) /\ CheckInPhase(q) /\ MoveInPhase(q) /\ PageInPhase(q)
      /\ DeletionInPhase(q) /\ CheckIsAtHome(q, home) /\ DeletesItsOwn(q, role, home, token) /\ Holds(q) /\ Waiting(q, k)
  BY RequestsAre, RequestsKnow, RequestsHold
<1> HIDE DEF q
<1>2. q.todo # <<>>
  BY <1>1 DEF Waiting
<1>3. q.pc \notin {"idle", "ended"}
  BY <1>1, <1>2 DEF InPhase, Idle
<1>4. q.pc \notin {"accepted", "resolved", "touching"}
  BY <1>1, <1>2 DEF InPhase
<1>5. q.op \in Ops /\ q.pc \in Pcs
  BY <1>1, <1>3 DEF IsAbout, Request
<1>6. CASE q.pc = "authenticating"
  BY <1>1, <1>6, AuthenticationWaits DEF q
<1>7. CASE q.pc # "authenticating" /\ q.op \in CheckOps
  <2>1. q.pc \in {"accounts", "check", "membership", "writing"}
    BY <1>1, <1>3, <1>4, <1>5, <1>7 DEF InPhase, Pcs, CheckOps
  <2> QED BY <1>1, <1>7, <2>1, CheckWaits DEF q
<1>8. CASE q.pc # "authenticating" /\ q.op = "move check"
  <2>1. q.pc \in {"accounts", "source", "destination", "pages", "writing"}
    BY <1>1, <1>3, <1>4, <1>5, <1>8 DEF InPhase, Pcs, CheckOps
  <2> QED BY <1>1, <1>8, <2>1, MoveWaits DEF q
<1>9. CASE q.pc # "authenticating" /\ q.op \in PageOps
  <2>1. q.pc \in {"coordinated", "writing"} /\ (q.op = "delete page" => q.pc = "writing")
    BY <1>1, <1>3, <1>4, <1>5, <1>9 DEF InPhase, Pcs, CheckOps, PageOps
  <2> QED BY <1>1, <1>9, <2>1, PageWaits DEF q
<1>10. CASE q.pc # "authenticating" /\ q.op = "delete org"
  <2>1. q.pc \in {"accounts", "deciding", "writing"}
    BY <1>1, <1>3, <1>4, <1>5, <1>10 DEF InPhase, Pcs, CheckOps
  <2> QED BY <1>1, <1>10, <2>1, DeletionWaits DEF q
<1> QED BY <1>5, <1>6, <1>7, <1>8, <1>9, <1>10 DEF Ops

\* No fewer of them wait for each other.
SmallestCircle(R) == Circle(R) /\ \A S \in (SUBSET R) \ {R} : ~Circle(S)

On(s) == Head(req[s].todo)

\* Each waits for another one, and another one for it.
InCircle(R, s) ==
    /\ \E t \in R : t # s /\ On(s) \in req[t].held
    /\ \E t \in R : t # s /\ On(t) \in req[s].held

LEMMA CirclesClose ==
    ASSUME NEW R \in SUBSET Requests, SmallestCircle(R), NEW s \in R
    PROVE  InCircle(R, s)
<1>1. \A r \in R : \E t \in R : WaitsFor(r, t)
  BY DEF SmallestCircle, Circle
<1>2. PICK t \in R : WaitsFor(s, t)
  BY <1>1
<1>3. t # s /\ On(s) \in req[t].held
  BY <1>2 DEF WaitsFor, On
<1>4. \E y \in R : WaitsFor(y, s)
  <2> SUFFICES ASSUME \A y \in R : ~WaitsFor(y, s) PROVE FALSE
    OBVIOUS
  <2>1. Circle(R \ {s})
    <3>1. \A r \in R \ {s} : \E x \in R \ {s} : WaitsFor(r, x)
      BY <1>1
    <3>2. R \ {s} # {}
      BY <1>3
    <3> QED BY <3>1, <3>2 DEF Circle
  <2> QED BY <2>1 DEF SmallestCircle
<1>5. \E y \in R : y # s /\ On(y) \in req[s].held
  BY <1>4 DEF WaitsFor, On
<1> QED BY <1>3, <1>5 DEF InCircle

\* What it waits for comes after the rows that it has.
LEMMA CirclesWait ==
    ASSUME AccessRight, NEW R \in SUBSET Requests, SmallestCircle(R), NEW s \in R
    PROVE  /\ req[s].todo # <<>> /\ On(s) \in Rows /\ On(s) \in Wants(req[s]) /\ On(s) \notin req[s].held
           /\ req[s].held \subseteq Rows
           /\ \A h \in req[s].held : NotAfter(req[s], h, On(s))
<1>1. req[s] \in Request /\ LocksInOrder(req[s])
  BY RequestsAre
<1>2. req[s].todo # <<>>
  BY DEF SmallestCircle, Circle, WaitsFor
<1>3. req[s].todo \in Seq(Rows) /\ req[s].held \subseteq Rows
  BY <1>1 DEF Request
<1>4. On(s) \in Rows /\ On(s) \in Elements(req[s].todo)
  BY <1>2, <1>3, ElementsMove DEF On
<1>5. On(s) \notin req[s].held
  <2>1. PICK t \in R : t # s /\ On(s) \in req[t].held
    BY CirclesClose DEF InCircle
  <2> QED BY <2>1, HeldAlone
<1> QED BY <1>1, <1>2, <1>3, <1>4, <1>5 DEF LocksInOrder, Before, Wants

LEMMA KindsOfRows ==
    ASSUME NEW l \in Rows
    PROVE  /\ l[1] = "account" => \E u \in Users : l = Account(u)
           /\ l[1] = "membership" => \E u \in Users, o \in Orgs : l = Membership(u, o)
           /\ l[1] \in {"account", "membership"} \/ (\E o \in Orgs : l \in {Project(o), PagesOf(o)})
              \/ (\E t \in Tokens : l = Token(t)) \/ (\E c \in Checks : l = Check(c)) \/ (\E g \in Pages : l = Page(g))
<1>1. CASE l \in {Account(u) : u \in Users}
  BY <1>1, KindsDiffer
<1>2. CASE l \in {Membership(u, o) : u \in Users, o \in Orgs}
  <2>1. PICK u \in Users, o \in Orgs : l = Membership(u, o)
    BY <1>2
  <2>2. l[1] = "membership"
    BY <2>1, KindsDiffer
  <2> QED BY <2>1, <2>2
<1>3. CASE \E o \in Orgs : l \in {Project(o), PagesOf(o)}
  <2>1. PICK o \in Orgs : l \in {Project(o), PagesOf(o)}
    BY <1>3
  <2>2. l[1] \in {"project", "pages of"}
    BY <2>1, KindsDiffer
  <2> QED BY <2>1, <2>2
<1>4. CASE \E t \in Tokens : l = Token(t)
  BY <1>4, KindsDiffer
<1>5. CASE \E c \in Checks : l = Check(c)
  BY <1>5, KindsDiffer
<1>6. CASE \E g \in Pages : l = Page(g)
  BY <1>6, KindsDiffer
<1> QED BY <1>1, <1>2, <1>3, <1>4, <1>5, <1>6 DEF Rows

LEMMA AccountsFirst ==
    ASSUME NEW q, NEW l \in Rows, NEW n, NotAfter(q, l, Account(n))
    PROVE  \E m \in Users : l = Account(m) /\ m <= n
<1>1. Level(q, Account(n)) = 1
  BY LevelIs, LevelsAre, DeletionLevelsAre
<1>2. Level(q, l) <= 1
  BY <1>1 DEF NotAfter
<1>3. /\ \A u, o : 1 < Level(q, Membership(u, o))
      /\ \A o : 1 < Level(q, Project(o)) /\ \A t : 1 < Level(q, Token(t)) /\ \A c : 1 < Level(q, Check(c))
      /\ \A o : 1 < Level(q, PagesOf(o)) /\ \A g : 1 < Level(q, Page(g))
  <2>1. CASE Deletes(q)
    <3>1. \A o : DeletionLevelOf(PagesOf(o)) = 6
      BY PagesOfIs DEF DeletionLevelOf
    <3> QED BY <2>1, <3>1, DeletionLevels DEF Level
  <2>2. CASE ~Deletes(q)
    BY <2>2, OtherLevels
  <2> QED BY <2>1, <2>2
<1>4. Level(q, l) \in Nat
  BY LevelRange
<1>5. ~(1 < Level(q, l))
  BY <1>2, <1>4
<1>6. PICK m \in Users : l = Account(m)
  BY <1>3, <1>5 DEF Rows
<1>7. m <= n
  BY <1>6, NotAfterIs
<1> QED BY <1>6, <1>7

\* Accounts are locked first, and in their order: nobody in a circle waits for one.
LEMMA NotOnAccounts ==
    ASSUME AccessRight, NEW R \in SUBSET Requests, SmallestCircle(R), NEW s \in R
    PROVE  On(s)[1] # "account"
<1> DEFINE N == {n \in Users : \E r \in R : On(r) = Account(n)}
<1> SUFFICES ASSUME On(s)[1] = "account" PROVE FALSE
  OBVIOUS
<1>1. \E n \in Users : On(s) = Account(n)
  <2>1. On(s) \in Rows
    BY CirclesWait
  <2> QED BY <2>1, KindsOfRows
<1>2. N \in SUBSET Nat /\ N # {}
  BY <1>1, AccessAssumption
<1>3. PICK n \in N : \A m \in N : n <= m
  <2> HIDE DEF N
  <2> QED BY <1>2, ThereIsAFirst
<1>4. PICK r \in R : On(r) = Account(n)
  BY <1>3
<1>5. PICK y \in R : On(y) \in req[r].held
  BY CirclesClose DEF InCircle
<1>6. On(y) \in Rows /\ NotAfter(req[r], On(y), Account(n)) /\ On(y) # Account(n)
  BY <1>4, <1>5, CirclesWait
<1>7. PICK m \in Users : On(y) = Account(m) /\ m <= n
  BY <1>6, AccountsFirst
<1>8. m \in N /\ m # n /\ n \in Nat /\ m \in Nat
  BY <1>2, <1>6, <1>7
<1>9. n <= m
  BY <1>3, <1>8
<1> QED BY <1>7, <1>8, <1>9

\* So it is known what they have and what they wait for.
LEMMA CirclesKnow ==
    ASSUME AccessRight, NEW R \in SUBSET Requests, SmallestCircle(R), NEW s \in R
    PROVE  Waiting(req[s], On(s)) /\ KnownByRows(req[s], On(s)) /\ KnownByWait(req[s], On(s))
<1>1. Waiting(req[s], On(s))
  BY CirclesWait, NotOnAccounts DEF Waiting, NotAfter
<1> QED BY <1>1, WaitsAre

LEMMA TokensAfterProjects ==
    ASSUME NEW q, NEW k, NEW t, NEW o, Waiting(q, k), Deletes(q), k = Project(o)
    PROVE  Token(t) \notin q.held
<1> SUFFICES ASSUME Token(t) \in q.held PROVE FALSE
  OBVIOUS
<1>1. Level(q, Token(t)) <= Level(q, Project(o))
  BY DEF Waiting
<1>2. Level(q, Token(t)) = 4 /\ Level(q, Project(o)) = 3
  BY DeletionLevels
<1>3. \A a, b : a = 4 /\ b = 3 => ~(a <= b)
  OBVIOUS
<1> QED BY <1>1, <1>2, <1>3

\* What goes with the organization goes after the memberships.
LEMMA MembershipsFirst ==
    ASSUME NEW q, NEW k, Waiting(q, k), Deletes(q), NEW u, NEW v, k = Membership(u, v)
    PROVE  /\ \A o : Project(o) \notin q.held
           /\ \A t : Token(t) \notin q.held
           /\ \A g : Page(g) \notin q.held
<1>1. ASSUME NEW h \in q.held PROVE Level(q, h) <= Level(q, Membership(u, v))
  BY DEF Waiting
<1>2. Level(q, Membership(u, v)) = 2
  BY DeletionLevels
<1>3. \A o : Level(q, Project(o)) = 3
  BY DeletionLevels
<1>4. \A t : Level(q, Token(t)) = 4
  BY DeletionLevels
<1>5. \A g : Level(q, Page(g)) = 6
  BY DeletionLevels
<1>6. \A a, b : b = 2 /\ a \in {3, 4, 6} => ~(a <= b)
  OBVIOUS
<1>7. \A h \in q.held : Level(q, h) \notin {3, 4, 6}
  BY <1>1, <1>2, <1>6
<1> QED BY <1>3, <1>4, <1>5, <1>7

\* Two cannot be about the same organization if one deletes it.
LEMMA DeletionsAlone ==
    ASSUME AccessRight, NEW d \in Requests, DeletesNow(req[d]), NEW t \in Requests, t # d, IsSerialized(req[t])
    PROVE  req[t].org # req[d].org
<1>1. IsSerialized(req[d])
  BY DEF DeletesNow, IsSerialized
<1>2. Account(CreatorOf[req[d].org]) \in req[d].held
  BY <1>1, RequestsHold DEF Holds
<1> QED BY <1>2, SerializedAlone

\* Whose pages both want, of that both are.
LEMMA PagesOfOne ==
    ASSUME AccessRight, NEW s \in Requests, NEW t \in Requests, s # t, NEW g \in Pages,
           Page(g) \in Wants(req[s]), req[s].op \in {"update page", "move check", "delete org"},
           Page(g) \in Wants(req[t]), req[t].op \in {"update page", "move check", "delete org"}
    PROVE  req[s].org = req[t].org
<1>1. Apart(req[s], req[t])
  BY DEF AccessRight
<1> QED BY <1>1 DEF Apart

\* Who deletes waits for a membership if it is in a circle: the rest is held by
\* requests about the organization, and those wait for its lock of the account.
LEMMA DeletionsWaitForMembers ==
    ASSUME AccessRight, NEW R \in SUBSET Requests, SmallestCircle(R), NEW d \in R, DeletesNow(req[d])
    PROVE  On(d)[1] = "membership"
<1>1. /\ Waiting(req[d], On(d)) /\ KnownByWait(req[d], On(d)) /\ On(d) \in Wants(req[d])
  BY CirclesKnow, CirclesWait
<1>2. PICK t \in R : t # d /\ On(d) \in req[t].held
  BY CirclesClose DEF InCircle
<1>3. KnownByRows(req[t], On(t))
  BY CirclesKnow
<1>4. DeletesNow(req[t]) => IsSerialized(req[t])
  BY DEF DeletesNow, IsSerialized
<1>5. IsSerialized(req[t]) => req[t].org # req[d].org
  BY <1>2, DeletionsAlone
<1>6. req[d].org \in Orgs
  <2>1. IsSerialized(req[d])
    BY DEF DeletesNow, IsSerialized
  <2> QED BY <2>1, RequestsHold DEF Holds
<1>7. On(d) # Project(req[d].org)
  <2> SUFFICES ASSUME On(d) = Project(req[d].org) PROVE FALSE
    OBVIOUS
  <2>1. \/ DeletesNow(req[t]) /\ req[d].org = req[t].org
        \/ /\ req[t].token \in Tokens /\ On(t) = Token(req[t].token)
           /\ req[d].org = TokenOf[req[t].token].org
    BY <1>2, <1>3, <1>6 DEF KnownByRows
  <2>2. /\ req[t].token \in Tokens /\ On(t) = Token(req[t].token)
        /\ req[d].org = TokenOf[req[t].token].org
    BY <1>4, <1>5, <2>1
  <2>3. PICK x \in R : x # t /\ On(t) \in req[x].held
    BY CirclesClose DEF InCircle
  <2>4. DeletesNow(req[x]) /\ token[req[t].token].org = req[x].org
    BY <2>2, <2>3, CirclesKnow DEF KnownByRows
  <2>5. IsSerialized(req[x])
    BY <2>4 DEF DeletesNow, IsSerialized
  <2>6. req[x].org \in Orgs
    BY <2>5, RequestsHold DEF Holds
  <2>7. token[req[t].token].org \in {TokenOf[req[t].token].org, None} /\ None \notin Orgs
    BY <2>2, AccessAssumption DEF AccessRight, TablesRight
  <2>8. req[x].org = req[d].org
    BY <2>2, <2>4, <2>6, <2>7
  <2>9. x = d
    BY <2>5, <2>8, DeletionsAlone
  <2>10. Deletes(req[d])
    BY DEF DeletesNow, Deletes
  <2> QED BY <1>1, <2>2, <2>3, <2>9, <2>10, TokensAfterProjects
<1>8. ASSUME NEW x \in Tokens, On(d) = Token(x), token[x].org = req[d].org PROVE FALSE
  BY <1>2, <1>3, <1>4, <1>5, <1>8 DEF KnownByRows
<1>9. ASSUME NEW c \in Checks, On(d) = Check(c), home[c] = req[d].org PROVE FALSE
  BY <1>2, <1>3, <1>5, <1>9 DEF KnownByRows
<1>10. ASSUME NEW g \in Pages, On(d) = Page(g) PROVE FALSE
  <2>1. Page(g) \in req[t].held /\ req[t].op \in {"move check", "delete org"} /\ req[t].pc = "writing"
    BY <1>2, <1>3, <1>10 DEF KnownByRows
  <2>2. IsSerialized(req[t])
    BY <2>1 DEF IsSerialized, ChecksOfItsOwn
  <2>3. Page(g) \in Wants(req[t]) /\ Page(g) \in Wants(req[d])
    BY <1>1, <1>10, <2>1 DEF Wants
  <2>4. req[d].org = req[t].org
    BY <1>2, <2>1, <2>3, PagesOfOne DEF DeletesNow
  <2> QED BY <1>5, <2>2, <2>4
<1> QED BY <1>1, <1>7, <1>8, <1>9, <1>10 DEF KnownByWait

\* So who deletes has no more than accounts and memberships.
LEMMA DeletionsHaveLittle ==
    ASSUME AccessRight, NEW R \in SUBSET Requests, SmallestCircle(R), NEW d \in R, DeletesNow(req[d])
    PROVE  /\ \A o : Project(o) \notin req[d].held
           /\ \A t : Token(t) \notin req[d].held
           /\ \A g : Page(g) \notin req[d].held
<1>1. On(d) \in Rows /\ On(d)[1] = "membership"
  BY CirclesWait, DeletionsWaitForMembers
<1>2. PICK u \in Users, o \in Orgs : On(d) = Membership(u, o)
  BY <1>1, KindsOfRows
<1>3. Waiting(req[d], On(d)) /\ Deletes(req[d])
  BY CirclesKnow DEF DeletesNow, Deletes
<1> QED BY <1>2, <1>3, MembershipsFirst

\* Who waits for a check has accounts only, and nobody waits for those.
LEMMA NotOnChecks ==
    ASSUME AccessRight, NEW R \in SUBSET Requests, SmallestCircle(R), NEW s \in R
    PROVE  On(s)[1] # "check"
<1> SUFFICES ASSUME On(s)[1] = "check" PROVE FALSE
  OBVIOUS
<1>1. PICK y \in R : y # s /\ On(y) \in req[s].held
  BY CirclesClose DEF InCircle
<1>2. On(y)[1] # "account"
  BY NotOnAccounts
<1>3. KnownByWait(req[s], On(s))
  BY CirclesKnow
<1>4. DeletesNow(req[s])
  BY <1>1, <1>2, <1>3 DEF KnownByWait
<1> QED BY <1>4, DeletionsWaitForMembers

\* Tokens and projects are held by who deletes, or waits for the token.
LEMMA NotOnTokensOrProjects ==
    ASSUME AccessRight, NEW R \in SUBSET Requests, SmallestCircle(R), NEW s \in R
    PROVE  /\ \A x \in Tokens : On(s) # Token(x)
           /\ \A o \in Orgs : On(s) # Project(o)
<1>1. ASSUME NEW y \in R, NEW x \in Tokens, On(y) = Token(x) PROVE FALSE
  <2>1. PICK t \in R : t # y /\ On(y) \in req[t].held
    BY CirclesClose DEF InCircle
  <2>2. DeletesNow(req[t])
    BY <1>1, <2>1, CirclesKnow DEF KnownByRows
  <2> QED BY <1>1, <2>1, <2>2, DeletionsHaveLittle
<1>2. ASSUME NEW o \in Orgs, On(s) = Project(o) PROVE FALSE
  <2>1. PICK t \in R : t # s /\ On(s) \in req[t].held
    BY CirclesClose DEF InCircle
  <2>2. DeletesNow(req[t]) \/ (req[t].token \in Tokens /\ On(t) = Token(req[t].token))
    BY <1>2, <2>1, CirclesKnow DEF KnownByRows
  <2>3. DeletesNow(req[t])
    BY <1>1, <2>2
  <2> QED BY <1>2, <2>1, <2>3, DeletionsHaveLittle
<1> QED BY <1>1, <1>2

\* Pages are waited for by who writes them and has their coordination, or has
\* nothing; and held by who moves a check off them and has it too.
LEMMA NotOnPages ==
    ASSUME AccessRight, NEW R \in SUBSET Requests, SmallestCircle(R), NEW s \in R, NEW g \in Pages
    PROVE  On(s) # Page(g)
<1> SUFFICES ASSUME On(s) = Page(g) PROVE FALSE
  OBVIOUS
<1>1. PICK t \in R : t # s /\ On(s) \in req[t].held
  BY CirclesClose DEF InCircle
<1>2. On(s)[1] = "page" /\ KnownByWait(req[s], On(s)) /\ On(s) \in Wants(req[s])
  BY CirclesKnow, CirclesWait, KindsDiffer
<1>3. req[t].op \in {"move check", "delete org"} /\ req[t].pc = "writing"
  BY <1>1, CirclesKnow DEF KnownByRows
<1>4. ~DeletesNow(req[t])
  BY <1>1, DeletionsHaveLittle
<1>5. req[t].op = "move check" /\ IsSerialized(req[t])
  BY <1>3, <1>4 DEF DeletesNow, IsSerialized, ChecksOfItsOwn
<1>6. req[s].held # {}
  BY CirclesClose DEF InCircle
<1>7. ~DeletesNow(req[s])
  BY <1>2, DeletionsWaitForMembers
<1>8. \/ req[s].op = "update page" /\ PagesOf(req[s].org) \in req[s].held
      \/ req[s].op = "move check" /\ req[s].pc = "writing"
  BY <1>2, <1>6, <1>7 DEF KnownByWait, DeletesNow
<1>9. Page(g) \in Wants(req[t]) /\ Page(g) \in Wants(req[s])
  BY <1>1, <1>2 DEF Wants
<1>10. req[s].org = req[t].org
  BY <1>1, <1>5, <1>8, <1>9, PagesOfOne
<1>11. CASE req[s].op = "update page" /\ PagesOf(req[s].org) \in req[s].held
  <2>1. PagesOf(req[t].org) \in req[t].held
    BY <1>3, <1>5, RequestsHold DEF Holds
  <2> QED BY <1>1, <1>10, <1>11, <2>1, HeldAlone
<1>12. CASE req[s].op = "move check" /\ req[s].pc = "writing"
  <2>1. IsSerialized(req[s])
    BY <1>12 DEF IsSerialized, ChecksOfItsOwn
  <2>2. Account(CreatorOf[req[s].org]) \in req[s].held
    BY <2>1, RequestsHold DEF Holds
  <2>3. req[t].org # req[s].org
    BY <1>1, <1>5, <2>2, SerializedAlone
  <2> QED BY <1>10, <2>3
<1> QED BY <1>8, <1>11, <1>12

\* The coordination of pages is held by who waits for pages or a project.
LEMMA OnMemberships ==
    ASSUME AccessRight, NEW R \in SUBSET Requests, SmallestCircle(R), NEW s \in R
    PROVE  \E u \in Users, o \in Orgs : On(s) = Membership(u, o)
<1>1. ASSUME NEW o \in Orgs, On(s) = PagesOf(o) PROVE FALSE
  <2>1. PICK t \in R : t # s /\ On(s) \in req[t].held
    BY CirclesClose DEF InCircle
  <2>2. On(t)[1] \in {"page", "project"} /\ On(t) \in Rows
    BY <1>1, <2>1, CirclesKnow, CirclesWait DEF KnownByRows
  <2>3. /\ \A p \in Orgs : On(t) # Project(p) /\ On(t) # PagesOf(p)
        /\ \A x \in Tokens : On(t) # Token(x)
        /\ \A c \in Checks : On(t) # Check(c)
        /\ \A g \in Pages : On(t) # Page(g)
    BY <2>2, NotOnTokensOrProjects, NotOnPages, KindsDiffer
  <2> QED BY <2>2, <2>3, KindsOfRows
<1>2. On(s) \in Rows
  BY CirclesWait
<1>3. On(s)[1] \notin {"account", "check"}
  BY NotOnAccounts, NotOnChecks
<1>4. \A c \in Checks : On(s) # Check(c)
  BY <1>3, KindsDiffer
<1>5. On(s)[1] = "membership"
  BY <1>1, <1>2, <1>3, <1>4, NotOnTokensOrProjects, NotOnPages, KindsOfRows
<1> QED BY <1>2, <1>5, KindsOfRows

\* And memberships are held by who deletes, or moves and waits for the second one.
LEMMA CirclesDelete ==
    ASSUME AccessRight, NEW R \in SUBSET Requests, SmallestCircle(R), NEW s \in R
    PROVE  \/ req[s].op = "delete org"
           \/ /\ req[s].op = "move check"
              /\ \E r \in R : req[r].op = "delete org" /\ req[r].user = req[s].user
<1> DEFINE q == req[s]
           m == Membership(q.user, q.dest)
<1>1. PICK y \in R : y # s /\ On(y) \in q.held
  BY CirclesClose DEF InCircle
<1>2. PICK u \in Users, o \in Orgs : On(y) = Membership(u, o)
  BY OnMemberships
<1>3. On(s)[1] = "membership"
  BY OnMemberships, KindsDiffer
<1>4. DeletesNow(q) \/ (q.op = "move check" /\ q.pc = "destination" /\ On(s) = m)
  BY <1>1, <1>2, <1>3, CirclesKnow DEF KnownByRows
<1>5. CASE q.op = "move check" /\ q.pc = "destination" /\ On(s) = m
  <2>1. q.user \in Users /\ q.dest \in Orgs /\ Account(CreatorOf[q.dest]) \in q.held
    <3>1. IsAbout(q) /\ MoveInPhase(q)
      BY RequestsAre
    <3>2. AccountsOf(q) \subseteq q.held
      BY <1>5, <3>1 DEF MoveInPhase
    <3>3. Account(CreatorOf[q.dest]) \in AccountsOf(q)
      BY <1>5 DEF AccountsOf, CheckOps
    <3> HIDE DEF q
    <3> QED BY <1>5, <3>1, <3>2, <3>3 DEF IsAbout
  <2>2. PICK t \in R : t # s /\ On(s) \in req[t].held
    BY CirclesClose DEF InCircle
  <2>3. On(t)[1] = "membership"
    <3>1. PICK v \in Users, p \in Orgs : On(t) = Membership(v, p)
      BY OnMemberships
    <3> QED BY <3>1, KindsDiffer
  <2>4. \/ DeletesNow(req[t]) /\ (q.user = req[t].user \/ q.dest = req[t].org)
        \/ req[t].op = "move check" /\ req[t].pc = "destination" /\ q.dest = req[t].org
    BY <1>5, <2>1, <2>2, <2>3, CirclesKnow DEF KnownByRows
  <2>5. IsSerialized(req[t])
    BY <2>4 DEF DeletesNow, IsSerialized, ChecksOfItsOwn
  <2>6. req[t].org # q.dest
    BY <2>1, <2>2, <2>5, SerializedAlone
  <2> QED BY <1>5, <2>4, <2>6 DEF DeletesNow
<1> QED BY <1>4, <1>5 DEF DeletesNow

LEMMA CirclesAreKnown == ASSUME AccessRight PROVE CirclesAreOfDeletions
<1> SUFFICES ASSUME NEW R \in SUBSET Requests, SmallestCircle(R), NEW s \in R
             PROVE  \/ req[s].op = "delete org"
                    \/ /\ req[s].op = "move check"
                       /\ \E r \in R : req[r].op = "delete org" /\ req[r].user = req[s].user
  BY DEF CirclesAreOfDeletions, SmallestCircle
<1> QED BY CirclesDelete

-----------------------------------------------------------------------------
(* The theorems *)

\* Only the part that a behaviour is about moves.
LEMMA OnlyOneMoves ==
    ASSUME [Next]_vars
    PROVE  /\ [AccessNext]_accessVars /\ [AgentNext]_agentVars /\ [SignInNext]_signInVars
           /\ [GuardNext]_guardVars /\ [EditorNext]_editorVars /\ [HistoryNext]_historyVars
<1>1. CASE Next
  BY <1>1 DEF Next, ByRequests, ByAgent, ByDialog, ByVisits, ByEditor, ByHistory
<1>2. CASE UNCHANGED vars
  BY <1>2 DEF vars
<1> QED BY <1>1, <1>2

\* The requests' invariant holds throughout.
THEOREM RequestsStayRight == Spec => []AccessRight
<1>1. AccessRight /\ [Next]_vars => AccessRight'
  BY OnlyOneMoves, AccessStep
<1>2. Init => AccessRight
  BY AccessInitRight DEF Init
<1> QED BY <1>1, <1>2, PTL DEF Spec

\* A credential is accepted only while it is good, and for what it was made for.
THEOREM CredentialsStayGood == Spec => AcceptedIsGood
<1>1. AccessRight /\ [Next]_vars => AccessRight' /\ [\A r \in Requests : IsAccepted(r)]_accessVars
  BY OnlyOneMoves, AccessStep, AcceptedStep
<1>2. Init => AccessRight
  BY AccessInitRight DEF Init
<1>3. AcceptedIsGood <=> [][\A r \in Requests : IsAccepted(r)]_accessVars
  BY DEF AcceptedIsGood, IsAccepted
<1> QED BY <1>1, <1>2, <1>3, PTL DEF Spec

\* Who changes or moves a check may at that moment.
THEOREM ChangesStayAllowed == Spec => ChangesAreAllowed
<1> DEFINE Allowed ==
      \A c \in Checks, r \in Requests :
          LET q == req[r] o == IF q.op = "create check" THEN q.org ELSE home[c] IN
          q.pc = "writing" /\ req'[r].pc = "ended" /\ q.op \in CheckOps \cup {"move check"} /\ q.check = c =>
              /\ o \in live => IsMember(q.user, o) /\ requireCheckAccess(q, o)
              /\ q.op = "move check" => role[<<q.user, o>>] = "OWNER" /\ role[<<q.user, q.dest>>] = "OWNER"
              /\ q.op = "edit check" => home[c] \in Orgs
<1>1. AccessRight /\ [Next]_vars => AccessRight' /\ [Allowed]_accessVars
  <2>1. AccessRight => Allowed
    BY ChangersMay DEF IsAllowed
  <2> QED BY <2>1, OnlyOneMoves, AccessStep
<1>2. Init => AccessRight
  BY AccessInitRight DEF Init
<1> QED BY <1>1, <1>2, PTL DEF Spec, ChangesAreAllowed

\* Everything is of its type, a status page lists checks of its own project, and
\* who waits for whom in a circle is known.
THEOREM RequestsStaySound == Spec => []RequestsAreSound
<1> DEFINE Right ==
      /\ kind \in {"requests", "agent", "dialog", "visits", "editor", "history"}
      /\ AccessRight /\ AgentRight /\ VisitsRight /\ FlowsRight /\ GuardRight /\ PastRight /\ GuardCounts
      /\ EditorRight /\ EditorCounts /\ HistoryRight
<1>1. Right /\ [Next]_vars => Right'
  <2> SUFFICES ASSUME Right, [Next]_vars PROVE Right'
    OBVIOUS
  <2>1. kind' = kind
    BY DEF Next, ByRequests, ByAgent, ByDialog, ByVisits, ByEditor, ByHistory, vars
  <2>2. AccessRight' /\ AgentRight'
    BY OnlyOneMoves, AccessStep, AgentRightStays
  <2>3. VisitsRight' /\ FlowsRight'
    BY OnlyOneMoves, VisitsStay, FlowsStay
  <2>4. GuardRight' /\ PastRight' /\ GuardCounts'
    BY OnlyOneMoves, GuardStep, PastStays, GuardCountsStay
  <2>5. EditorRight' /\ EditorCounts' /\ HistoryRight'
    BY OnlyOneMoves, EditorStep, EditorCountsStay, HistoryStep
  <2> QED BY <2>1, <2>2, <2>3, <2>4, <2>5
<1>2. Init => Right
  BY AccessInitRight, AgentBegins, SignInBegins, GuardInitRight, EditorInitRight, HistoryInitRight, CountsBegin DEF Init
<1>3. Right => RequestsAreSound
  <2> SUFFICES ASSUME Right PROVE RequestsAreSound
    OBVIOUS
  <2>1. AccessTypeOK /\ PagesListTheirOwn /\ CirclesAreOfDeletions
    BY AccessTyped, CirclesAreKnown
  <2>2. AgentTypeOK /\ SignInTypeOK
    BY AgentTypes, SignInTypes
  <2>3. GuardTypeOK /\ EditorTypeOK /\ HistoryTypeOK
    BY GuardTypes, EditorTypes, HistoryTypes
  <2> QED BY <2>1, <2>2, <2>3 DEF RequestsAreSound, TypeOK
<1> QED BY <1>1, <1>2, <1>3, PTL DEF Spec

\* Nobody is turned away for a name that is used already while there are at
\* least as many attempts as others who can take one; and the browser's cookie
\* is of the flow begun last, however many there are.
THEOREM SignInsStaySound == Spec => []((AttemptsSuffice => SignInsAreSound) /\ CookieIsOfTheNewest)
<1> DEFINE Right == VisitsRight /\ FlowsRight /\ NamesRight /\ CookieRight
<1>1. Right /\ [Next]_vars => Right'
  <2> SUFFICES ASSUME Right, [Next]_vars PROVE Right'
    OBVIOUS
  <2>1. VisitsRight' /\ FlowsRight'
    BY OnlyOneMoves, VisitsStay, FlowsStay
  <2>2. NamesRight' /\ CookieRight'
    BY <2>1, OnlyOneMoves, NamesStay, CookieStays
  <2> QED BY <2>1, <2>2
<1>2. Init => Right
  BY SignInBegins, NamesBegin DEF Init
<1>3. Right => (AttemptsSuffice => SignInsAreSound) /\ CookieIsOfTheNewest
  BY NamesShow DEF SignInsAreSound
<1> QED BY <1>1, <1>2, <1>3, PTL DEF Spec

\* An agent's tools are those its credential admits, what it is told is what
\* happened, and one bound to a project never leaves it.
THEOREM AgentsStayServed == Spec => AgentsAreServed
<1>1. ServedRight /\ [Next]_vars => ServedRight' /\ [IsServedRight]_agentVars
  BY OnlyOneMoves, ServedStays, ServedStep
<1>2. ServedRight' /\ [IsServedRight]_agentVars => [ToolsAreAdmitted' /\ IsServedRight]_agentVars
  <2>1. ServedRight => ToolsAreAdmitted
    BY ServedShows
  <2>2. ServedRight' => ToolsAreAdmitted'
    BY <2>1, PTL
  <2> QED BY <2>2
<1>3. Init => ServedRight
  BY ServedBegins DEF Init
<1> QED BY <1>1, <1>2, <1>3, PTL DEF Spec, AgentsAreServed

\* A secret that nobody has is guarded from the moment it may be there; the guard
\* waits only for an earlier one to be removed, and takes an old entry for its own
\* only where the browser strayed onto it.  Whatever the guard is, such a secret
\* goes only by a press that was asked about, except with a page that is left
\* while the guard waits, or when it took an old entry.
THEOREM SecretsStaySafe == Spec => SecretsAreSafe
<1> DEFINE Right == GuardRight /\ PastRight
<1>1. Right /\ [Next]_vars => Right' /\ [IsKept]_guardVars
  BY OnlyOneMoves, GuardStep, PastStays
<1>2. Right' /\ [IsKept]_guardVars => [SecretIsGuarded' /\ IsKept]_guardVars
  <2>1. Right => SecretIsGuarded
    BY GuardShows
  <2>2. Right' => SecretIsGuarded'
    BY <2>1, PTL
  <2> QED BY <2>2
<1>3. Init => Right
  BY GuardInitRight DEF Init
<1> QED BY <1>1, <1>2, <1>3, PTL DEF Spec, SecretsAreSafe

\* Whatever clients send, a check has the columns of its type.  What the edit
\* dialog saves is, for the type and the text, what its form has if that differs
\* from the page and otherwise what the check has by then, and for the rest what
\* the form says, unless others have converted the check: then it stays theirs.
\* It changes neither type nor text if neither the user nor a poll has changed
\* anything since the form was filled, and nothing at all if, besides, the check
\* is as the page showed it.
THEOREM EditsStayMeant == Spec => EditsAreMeant
<1>1. EditorRight /\ [Next]_vars => EditorRight' /\ [(row' # row => IsOfItsType(row')) /\ SaveIsMeant]_editorVars
  BY OnlyOneMoves, EditorStep
<1>2. Init => EditorRight
  BY EditorInitRight DEF Init
<1> QED BY <1>1, <1>2, PTL DEF Spec, EditsAreMeant

\* The history of tokens crosses out what is dead, in time, and its question is
\* closed when it is answered.
THEOREM HistoryStaysTrue == Spec => []HistoryIsTrue
<1>1. HistoryRight /\ [Next]_vars => HistoryRight'
  BY OnlyOneMoves, HistoryStep
<1>2. Init => HistoryRight
  BY HistoryInitRight DEF Init
<1>3. HistoryRight => HistoryIsTrue
  BY HistoryShows DEF HistoryIsTrue
<1> QED BY <1>1, <1>2, <1>3, PTL DEF Spec
=============================================================================
