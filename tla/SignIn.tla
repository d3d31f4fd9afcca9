------------------------------- MODULE SignIn -------------------------------
(* Accounts come to be, with a password or through Google, and they, their    *)
(* organizations and checks get a slug nobody else has: the taken ones are    *)
(* read, a candidate is computed, and its insertion may lose to another's.    *)
(* PostgreSQL makes an insertion wait for an uncommitted row with its key,    *)
(* and a transaction with a statement that failed is of no more use.          *)
(*                                                                            *)
(* All names have the same base here: slug 1 is the base, slug n is base-n.   *)
(* Google's identities have an address for good; its code is used once.       *)
EXTENDS Naturals, FiniteSets

CONSTANTS
    Visits,            \* requests
    Addresses,         \* of users, as normalizeEmail makes them
    Host,              \* a user there from the start, with an organization
    Nonces,            \* flows of Google's sign-in in one browser
    NoFlow,
    MaxSlugAttempts,   \* MAX_SLUG_CREATE_ATTEMPTS
    MaxIncidents       \* bound on what happens beside the visits

ASSUME SignInAssumption ==
    /\ Host \in Addresses /\ Nonces \subseteq Nat /\ NoFlow \notin Nonces
    /\ MaxSlugAttempts \in Nat \ {0} /\ MaxIncidents \in Nat /\ IsFiniteSet(Visits)

VARIABLES
    account,     \* users: [there, linked, suspended]
    taken,       \* slugs that are committed, of organizations and of the checks in one project
    visit,
    jar,    \* [cookie, begun, overtaken]: sv_oauth_state; flows begun, and those it is not for any more
    exchanged,   \* flows whose code Google has taken
    expired,     \* flows more than MAX_AGE_MS old
    incidents

signInVars == <<account, taken, visit, jar, exchanged, expired, incidents>>
database == <<account, taken>>
google == <<jar, exchanged, expired>>

-----------------------------------------------------------------------------
NewUser == {"signup", "google"}
Space(q) == IF q.op = "create check" THEN "checks" ELSE "organizations"

NoVisit == [pc |-> "idle", op |-> "none", email |-> Host, nonce |-> NoFlow, sent |-> NoFlow,
            tries |-> 0, slug |-> 0, result |-> "none"]

To(v, q) == visit' = [visit EXCEPT ![v] = q]

\* The browser is redirected at the end of a callback, the others get an answer.
Finishes(v, result) ==
    To(v, [visit[v] EXCEPT !.pc = IF visit[v].op = "google" THEN "answering" ELSE "ended",
                           !.result = result])

\* Rows that are inserted and not committed yet; lockUsers.
HoldsUser(v, e) == visit[v].op \in NewUser /\ visit[v].pc \in {"inserting", "committing"} /\ visit[v].email = e
HoldsSlug(v, space, s) == visit[v].pc = "committing" /\ Space(visit[v]) = space /\ visit[v].slug = s
HoldsAccount(v) ==
    \/ visit[v].op = "create organization" /\ visit[v].pc \in {"inserting", "committing"}
    \/ visit[v].op = "create check" /\ visit[v].pc \in {"loading", "inserting", "committing"}

uniqueSlug(used) == CHOOSE n \in 1 .. Cardinality(used) + 1 : n \notin used /\ \A m \in 1 .. n - 1 : m \in used

-----------------------------------------------------------------------------
(* Creation with a slug: createWithUniqueSlug *)

SignsUp(v, e) ==
    /\ visit[v].pc = "idle"
    /\ To(v, [NoVisit EXCEPT !.pc = "loading", !.op = "signup", !.email = e])
    /\ UNCHANGED <<database, google, incidents>>

\* The account is locked before a check's slug is looked for, and after an organization's.
CreatesByHost(v, what) ==
    /\ visit[v].pc = "idle"
    /\ To(v, [NoVisit EXCEPT !.pc = IF what = "create check" THEN "locking" ELSE "loading", !.op = what])
    /\ UNCHANGED <<database, google, incidents>>

LocksAccount(v) ==
    /\ visit[v].pc = "locking" /\ \A u \in Visits \ {v} : ~HoldsAccount(u)
    /\ To(v, [visit[v] EXCEPT !.pc = IF visit[v].op = "create check" THEN "loading" ELSE "inserting"])
    /\ UNCHANGED <<database, google, incidents>>

\* Faulty: the first candidate is tried again.
FirstCandidate(q) == IF q.tries = 0 THEN uniqueSlug(taken[Space(q)]) ELSE q.slug

Candidate(q) == uniqueSlug(taken[Space(q)])

LoadsTakenSlugs(v) ==
    LET q == visit[v] IN
    /\ q.pc = "loading"
    /\ To(v, [q EXCEPT !.slug = Candidate(q),
                       !.pc = CASE q.op \in NewUser -> "user"
                                [] q.op = "create organization" -> "locking"
                                [] q.op = "create check" -> "inserting"])
    /\ UNCHANGED <<database, google, incidents>>

\* provisionUser; a conflict that is not one of slugs is passed on.
InsertsUser(v) ==
    LET q == visit[v] IN
    /\ q.pc = "user" /\ \A u \in Visits \ {v} : ~HoldsUser(u, q.email)
    /\ IF account[q.email].there THEN Finishes(v, "taken") ELSE To(v, [q EXCEPT !.pc = "inserting"])
    /\ UNCHANGED <<database, google, incidents>>

\* Another's slug: an organization's transaction is run again, a check's cannot go on.
LosesSlug(v, q) ==
    IF q.op = "create check" THEN Finishes(v, "aborted")
    ELSE IF q.tries + 1 = MaxSlugAttempts THEN Finishes(v, "exhausted")
    ELSE To(v, [q EXCEPT !.pc = "loading", !.tries = @ + 1])

Inserts(v) ==
    LET q == visit[v] IN
    /\ q.pc = "inserting" /\ \A u \in Visits \ {v} : ~HoldsSlug(u, Space(q), q.slug)
    /\ IF q.slug \in taken[Space(q)] THEN LosesSlug(v, q) ELSE To(v, [q EXCEPT !.pc = "committing"])
    /\ UNCHANGED <<database, google, incidents>>

\* User, organization, membership, project and subscription come together.
Commits(v) ==
    LET q == visit[v] IN
    /\ q.pc = "committing"
    /\ taken' = [taken EXCEPT ![Space(q)] = @ \cup {q.slug}]
    /\ account' = IF q.op \in NewUser
                  THEN [account EXCEPT ![q.email] = [there |-> TRUE, linked |-> q.op = "google", suspended |-> FALSE]]
                  ELSE account
    /\ Finishes(v, "done")
    /\ UNCHANGED <<google, incidents>>

RollsBack(v) ==
    /\ visit[v].pc \in {"user", "inserting", "committing"}
    /\ Finishes(v, "failed")
    /\ UNCHANGED <<database, google, incidents>>

-----------------------------------------------------------------------------
(* Signing in through Google *)

\* GET /auth/google: one cookie in a browser.
BeginsFlow(n) ==
    /\ n \notin jar.begun /\ n - 1 \in jar.begun \cup {0}
    /\ jar' = [cookie |-> n, begun |-> jar.begun \cup {n}, overtaken |-> jar.begun]
    /\ UNCHANGED <<database, visit, exchanged, expired, incidents>>

\* Google sends the browser back, which may load the page again.
ReturnsFromGoogle(v, n, e) ==
    /\ visit[v].pc = "idle" /\ n \in jar.begun
    /\ To(v, [NoVisit EXCEPT !.pc = "callback", !.op = "google", !.email = e, !.nonce = n, !.sent = jar.cookie])
    /\ UNCHANGED <<database, google, incidents>>

verifyState(q) == q.sent = q.nonce /\ q.nonce \notin expired

\* Then Google is asked who it is; it may refuse, or not vouch for the address.
VerifiesState(v) ==
    LET q == visit[v] IN
    /\ q.pc = "callback"
    /\ IF verifyState(q) /\ q.nonce \notin exchanged
         THEN /\ exchanged' = exchanged \cup {q.nonce}
              /\ Finishes(v, "failed") \/ To(v, [q EXCEPT !.pc = "identity"])
         ELSE Finishes(v, "failed") /\ UNCHANGED exchanged
    /\ UNCHANGED <<database, jar, expired, incidents>>

FindsByGoogleId(v) ==
    LET q == visit[v] a == account[q.email] IN
    /\ q.pc = "identity"
    /\ IF a.there /\ a.linked THEN Finishes(v, IF a.suspended THEN "suspended" ELSE "done")
                              ELSE To(v, [q EXCEPT !.pc = "by email"])
    /\ UNCHANGED <<database, google, incidents>>

FindsByEmail(v) ==
    LET q == visit[v] a == account[q.email] IN
    /\ q.pc = "by email"
    /\ IF ~a.there THEN To(v, [q EXCEPT !.pc = "loading"])
       ELSE IF a.suspended THEN Finishes(v, "suspended")
       ELSE To(v, [q EXCEPT !.pc = "linking"])
    /\ UNCHANGED <<database, google, incidents>>

LinksAccount(v) ==
    /\ visit[v].pc = "linking"
    /\ account' = [account EXCEPT ![visit[v].email].linked = TRUE]
    /\ Finishes(v, "done")
    /\ UNCHANGED <<taken, google, incidents>>

\* Faulty: a failure leaves the cookie.
ClearsAfterSuccess(q) ==
    IF q.result = "done" THEN [jar EXCEPT !.cookie = NoFlow, !.overtaken = jar.begun]
                         ELSE [jar EXCEPT !.overtaken = jar.begun]

\* Every outcome clears the cookie, whichever flow it is of.
ClearsCookie(q) == [jar EXCEPT !.cookie = NoFlow, !.overtaken = jar.begun]

AnswersCallback(v) ==
    /\ visit[v].pc = "answering"
    /\ jar' = ClearsCookie(visit[v])
    /\ To(v, [visit[v] EXCEPT !.pc = "ended"])
    /\ UNCHANGED <<database, exchanged, expired, incidents>>

-----------------------------------------------------------------------------
(* What happens beside them *)

Incident == incidents < MaxIncidents /\ incidents' = incidents + 1 /\ UNCHANGED visit

\* An organization, or a check, of others gets the slug; a check's creator is locked.
TakesSlug(space, s) ==
    /\ Incident /\ s \notin taken[space]
    /\ \A v \in Visits : ~HoldsSlug(v, space, s) /\ (space = "checks" => ~HoldsAccount(v))
    /\ taken' = [taken EXCEPT ![space] = @ \cup {s}]
    /\ UNCHANGED <<account, google>>

SuspendsUser(e) ==
    /\ Incident /\ account[e].there
    /\ account' = [account EXCEPT ![e].suspended = ~@]
    /\ UNCHANGED <<taken, google>>

\* Ten minutes pass for what has been begun.
FlowsExpire ==
    /\ Incident
    /\ expired' = jar.begun /\ jar' = [jar EXCEPT !.cookie = NoFlow]
    /\ UNCHANGED <<database, exchanged>>

-----------------------------------------------------------------------------
SignInInit ==
    /\ account = [e \in Addresses |-> [there |-> e = Host, linked |-> FALSE, suspended |-> FALSE]]
    /\ taken = [organizations |-> {1}, checks |-> {}]
    /\ visit = [v \in Visits |-> NoVisit]
    /\ jar = [cookie |-> NoFlow, begun |-> {}, overtaken |-> {}]
    /\ exchanged = {} /\ expired = {} /\ incidents = 0

SignInNext ==
    \/ \E v \in Visits, e \in Addresses : SignsUp(v, e) \/ \E n \in Nonces : ReturnsFromGoogle(v, n, e)
    \/ \E v \in Visits, what \in {"create organization", "create check"} : CreatesByHost(v, what)
    \/ \E v \in Visits :
          \/ LocksAccount(v) \/ LoadsTakenSlugs(v) \/ InsertsUser(v) \/ Inserts(v) \/ Commits(v) \/ RollsBack(v)
          \/ VerifiesState(v) \/ FindsByGoogleId(v) \/ FindsByEmail(v) \/ LinksAccount(v) \/ AnswersCallback(v)
    \/ \E n \in Nonces : BeginsFlow(n)
    \/ \E space \in DOMAIN taken, s \in 1 .. Cardinality(Visits) + 1 : TakesSlug(space, s)
    \/ \E e \in Addresses : SuspendsUser(e)
    \/ FlowsExpire

-----------------------------------------------------------------------------
VisitPcs == {"idle", "loading", "locking", "user", "inserting", "committing", "callback", "identity", "by email",
             "linking", "answering", "ended"}

SignInTypeOK ==
    /\ account \in [Addresses -> [there : BOOLEAN, linked : BOOLEAN, suspended : BOOLEAN]]
    /\ \A v \in Visits : visit[v].pc \in VisitPcs /\ visit[v].tries \in 0 .. MaxSlugAttempts - 1
    /\ Cardinality({v \in Visits : HoldsAccount(v)}) <= 1
    /\ jar.cookie \in jar.begun \cup {NoFlow} /\ exchanged \subseteq Nonces

\* Nobody is turned away because a name is used already, however many ask for
\* it at once, nor for an address that has no account; and of those who commit
\* each has a slug.
NamesNeverFail ==
    \A v \in Visits :
        /\ visit[v].result \notin {"exhausted", "aborted"}
        /\ visit[v].result = "taken" => account[visit[v].email].there

\* The browser's cookie is of the flow begun last, with no callback answered
\* since; so that is the only flow that can be admitted.
CookieIsOfTheNewest == jar.cookie \notin jar.overtaken
=============================================================================
