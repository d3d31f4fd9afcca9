------------------------- MODULE CheckoutOperations -------------------------
(* One account's way to a subscription: createCheckout, createPortal and the *)
(* webhooks of billing.service.ts, with the Stripe they talk to.             *)
(*                                                                           *)
(* A transaction locks the account and is one step.  Calls to Stripe come    *)
(* between transactions.  billingStateVersion only ever serves to tell that  *)
(* nothing was written since a snapshot, so it is that fact, fresh, of each  *)
(* request.  A session of Stripe is named by the attempt it was created for: *)
(* the attempt's id is the idempotency key of the creation.                  *)
EXTENDS Naturals, FiniteSets

CONSTANTS
    Requests,     \* requests and webhooks handled at the same time
    Offers,       \* a paid plan with an interval
    Attempts,     \* ids of checkout attempts
    Operations,   \* ids of rows of checkoutOperation
    Nothing,      \* null
    Day,          \* 24 hours, in steps of time
    MaxAsked,     \* bound on the requests of the account's owner
    MaxEvents     \* bound on subscriptions begun and ended, calls to Stripe that
                  \* fail, deaths and steps of time, together

ASSUME NothingAssumption == Nothing \notin Offers \cup Attempts \cup Requests \cup Operations

ASSUME AttemptAssumption == Attempts \subseteq Nat

ASSUME OfferAssumption == Offers \cap {"portal", "webhook", "none"} = {}

ASSUME BoundAssumption == Day \in Nat \ {0} /\ {MaxAsked, MaxEvents} \subseteq Nat

VARIABLES
    user,      \* the account's row
    ops,       \* its rows of checkoutOperation
    intents,   \* its rows of checkoutCleanupIntent, by session
    recorded,  \* its subscription row, with the number of changes it knows of
    req,
    session,   \* Stripe: the checkout sessions
    subs,      \* Stripe: sessions whose subscriptions are in force
    changes,   \* Stripe: how often subs has changed
    events,    \* Stripe: changes whose webhook has not been answered with success
    late,      \* creations that were given up, on their way to Stripe
    asked,     \* requests so far
    clock,     \* steps of time so far
    faults,    \* calls to Stripe that were lost or refused
    deaths,    \* processes that died, and owners slower than their leases
    deleted    \* an administrator has deleted the account

vars == <<user, ops, intents, recorded, req, session, subs, changes, events, late, asked, clock, faults, deaths, deleted>>
rows == <<user, ops, intents, recorded>>
bounds == <<asked, clock, faults, deaths>>
stripe == <<session, subs, changes, events, late>>

Maybe(S) == S \cup {Nothing}

\* An attempt whose age is Day has reached STRIPE_IDEMPOTENCY_RETENTION_MS.
User == [customer : BOOLEAN, attempt : Maybe(Attempts), offer : Maybe(Offers),
         age : 0 .. Day, session : Maybe(Attempts)]

Cleared == [user EXCEPT !.attempt = Nothing, !.offer = Nothing, !.age = 0, !.session = Nothing]

\* owner is the request that knows the ownerToken; live, that the lease runs.
\* The state column is only ever written.
Operation == [kind : {"checkout", "portal"}, attempt : Maybe(Attempts), offer : Maybe(Offers),
              owner : Maybe(Requests), live : BOOLEAN, age : 0 .. Day]

\* A row that there is is not null.
ASSUME RowAssumption == Nothing \notin Operation

Statuses == {"none", "open", "complete", "expired"}

\* given: its url was the answer of a request.
Session == [status : Statuses, offer : Maybe(Offers), age : 0 .. Day, given : BOOLEAN]

Uncreated == [status |-> "none", offer |-> Nothing, age |-> 0, given |-> FALSE]

Phases == {"idle", "operations", "reconcile", "recover", "recover_portal", "keep_recovered",
           "cleanup", "retire", "unlist", "reserve", "customer", "list", "decide", "expire", "create",
           "keep", "portal", "uncertain", "complete", "reserve_portal", "renew",
           "apply"}

Request == [pc : Phases,
            want : Offers \cup {"portal", "webhook", "none"},
            event : 0 .. MaxEvents,           \* the change a webhook tells of
            fresh : BOOLEAN,                   \* nothing written since the snapshot
            subs : Maybe(SUBSET Attempts),     \* as listed, Nothing before
            sessions : Maybe([Attempts -> Statuses]),
            known : 0 .. MaxEvents,           \* changes when subs was listed
            attempt : Maybe(Attempts),
            offer : Maybe(Offers),             \* what the session to create is for
            target : Maybe(Attempts),          \* a session to expire
            again : BOOLEAN,                   \* coordinating for the second time
            todo : SUBSET Attempts,            \* cleanup intents to go through
            failed : BOOLEAN,                  \* firstError
            conflict : BOOLEAN]                \* refuse when cleaned up

Idle == [pc |-> "idle", want |-> "none", event |-> 0, fresh |-> FALSE, subs |-> Nothing,
         sessions |-> Nothing, known |-> 0, attempt |-> Nothing, offer |-> Nothing,
         target |-> Nothing, again |-> FALSE, todo |-> {}, failed |-> FALSE, conflict |-> FALSE]

-----------------------------------------------------------------------------
(* Helpers *)

At(r, phase) == req[r].pc = phase

Checkout(r) == req[r].want \in Offers

\* What a request has to remember from one phase to the next, and no more.
Enter(r, phase) == [Idle EXCEPT !.pc = phase, !.want = req[r].want, !.event = req[r].event]

Becomes(r, q) == req' = [req EXCEPT ![r] = q]

Dull(q) == [q EXCEPT !.fresh = FALSE, !.subs = Nothing, !.sessions = Nothing, !.known = 0]

\* The version is incremented: no other snapshot is good any more.
Bumps(r, q) == req' = [s \in Requests |-> IF s = r THEN q ELSE Dull(req[s])]

\* The operations whose token r knows: one at most.
Owned(r) == {i \in Operations : ops[i] # Nothing /\ ops[i].owner = r}

Without(table, gone) == [i \in Operations |-> IF i \in gone THEN Nothing ELSE table[i]]

\* Tokens are forgotten with the request that made them.
Orphans(r, table) ==
    [i \in Operations |-> IF table[i] # Nothing /\ table[i].owner = r
                          THEN [table[i] EXCEPT !.owner = Nothing] ELSE table[i]]

\* renewFence, without an attempt and with one.
Renewed(r) ==
    [i \in Operations |-> IF i \in Owned(r) THEN [ops[i] EXCEPT !.live = TRUE] ELSE ops[i]]

RenewedFor(r, a) ==
    [i \in Operations |-> IF i \in Owned(r) THEN [Renewed(r)[i] EXCEPT !.attempt = a] ELSE ops[i]]

ExpiredOps == {i \in Operations : ops[i] # Nothing /\ ~ops[i].live}

AttemptsIn(q) == {q.attempt, q.target} \cup q.todo

Mentioned == {user.attempt, user.session} \cup intents \cup subs \cup {c.attempt : c \in late}
             \cup {ops[i].attempt : i \in {j \in Operations : ops[j] # Nothing}}
             \cup UNION {AttemptsIn(req[r]) : r \in Requests}

\* An id that was never used, or that nothing refers to any longer.
Unused == {a \in Attempts \ Mentioned : session[a].status # "open"}

\* randomUUID
NewAttempt(a) == a \in Unused /\ \A b \in Unused : a <= b

FreeRow(i) == ops[i] = Nothing

Happens == changes + clock + faults + deaths < MaxEvents

Fault == Happens /\ faults' = faults + 1
Death == Happens /\ deaths' = deaths + 1

-----------------------------------------------------------------------------
(* A request begins, and how it ends *)

\* createCheckout or createPortal is called.
Asks(r, want) ==
    /\ At(r, "idle")
    /\ asked < MaxAsked
    /\ asked' = asked + 1
    /\ Becomes(r, [Idle EXCEPT !.pc = "operations", !.want = want])
    /\ UNCHANGED <<rows, stripe, clock, faults, deaths>>

\* Faulty: answers first.
AnswersAtOnce(r, e) ==
    /\ At(r, "idle")
    /\ e \in events
    /\ events' = events \ {e}
    /\ Becomes(r, [Idle EXCEPT !.pc = "operations", !.want = "webhook", !.event = e])
    /\ UNCHANGED <<rows, session, subs, changes, late, bounds>>

\* handleWebhook.  Stripe sends an event until it is answered with success,
\* and now and then again.
Webhook(r, e) ==
    /\ At(r, "idle")
    /\ e \in events
    /\ Becomes(r, [Idle EXCEPT !.pc = "operations", !.want = "webhook", !.event = e])
    /\ UNCHANGED <<rows, stripe, bounds>>

\* The url of the attempt's session is the answer.
GivesOut(a) == session' = [session EXCEPT ![a].given = TRUE]

\* completeCheckoutOperation, at the end of a request that failed or after
\* Stripe has answered for good: a row is deleted only by who has its token.
Completes(r) ==
    /\ At(r, "complete")
    /\ IF Owned(r) = {} THEN Becomes(r, Idle) ELSE Bumps(r, Idle)
    /\ IF req[r].attempt = Nothing THEN UNCHANGED session ELSE GivesOut(req[r].attempt)
    /\ ops' = Without(ops, Owned(r))
    /\ UNCHANGED <<user, intents, recorded, subs, changes, events, late, bounds>>

\* markCheckoutOperationUncertain: the row stays, its token is forgotten.
MarksUncertain(r) ==
    /\ At(r, "uncertain")
    /\ IF Owned(r) = {} THEN Becomes(r, Idle) ELSE Bumps(r, Idle)
    /\ ops' = Orphans(r, ops)
    /\ UNCHANGED <<user, intents, recorded, stripe, bounds>>

\* The process dies, or loses its database.
Dies(r) ==
    /\ ~At(r, "idle")
    /\ Death
    /\ ops' = Orphans(r, ops)
    /\ Becomes(r, Idle)
    /\ UNCHANGED <<user, intents, recorded, stripe, asked, clock, faults>>

\* A transaction that finds its snapshot outdated takes another one, or
\* refuses after BILLING_SNAPSHOT_MAX_ATTEMPTS.
Again(r) ==
    CASE At(r, "reconcile") -> Enter(r, "operations")
      [] At(r, "decide") -> [Enter(r, "list") EXCEPT !.target = req[r].target, !.again = req[r].again]
      [] OTHER -> Enter(r, "operations")

Outdated(r) ==
    /\ req[r].pc \in {"reconcile", "decide", "apply"}
    /\ \/ ~req[r].fresh
       \/ At(r, "decide") /\ Owned(r) = {}    \* renewFence found another token
    /\ \/ Becomes(r, Again(r))
       \/ Becomes(r, Enter(r, "complete"))
    /\ UNCHANGED <<rows, stripe, bounds>>

-----------------------------------------------------------------------------
(* reconcileCheckoutOperations *)

NothingExpired(r) ==
    /\ At(r, "operations")
    /\ ExpiredOps = {}
    /\ Becomes(r, [Enter(r, "cleanup") EXCEPT !.todo = intents])
    /\ UNCHANGED <<rows, stripe, bounds>>

ListedStatuses == [a \in Attempts |-> session[a].status]

\* The version is read before the sessions are listed; were it written in
\* between, the snapshot would be outdated.
ListsSessions(r) ==
    /\ At(r, "operations")
    /\ ExpiredOps # {}
    /\ Becomes(r, [Enter(r, "reconcile") EXCEPT !.fresh = TRUE, !.sessions = ListedStatuses])
    /\ UNCHANGED <<rows, stripe, bounds>>

\* Expired operations whose session is among those listed, those nothing
\* is known of that may be abandoned, and those to be tried again.
Found(r) == {i \in ExpiredOps : /\ ops[i].kind = "checkout"
                                /\ req[r].sessions[ops[i].attempt] # "none"}

Abandoned(r) == {i \in ExpiredOps \ Found(r) : /\ ops[i].kind = "checkout"
                                               /\ ops[i].attempt # user.attempt
                                               /\ ops[i].age = Day}

Recoverable(r) == {i \in ExpiredOps \ Found(r) :
                      \/ ops[i].kind = "portal"
                      \/ ops[i].attempt = user.attempt /\ user.customer}

\* The operations that are left, one of them claimed with a token of r's.
Claimed(r, i, gone) == [Without(ops, gone) EXCEPT ![i].owner = r, ![i].live = TRUE]

\* What r does with the call to Stripe that it takes over.
Recovery(r, i) ==
    IF ops[i].kind = "portal" THEN Enter(r, "recover_portal")
    ELSE [Enter(r, "recover") EXCEPT !.attempt = ops[i].attempt, !.offer = ops[i].offer]

Reconciles(r) ==
    /\ At(r, "reconcile")
    /\ req[r].fresh
    /\ LET seen == {ops[i].attempt : i \in Found(r)}
           ours == seen \cap {user.attempt}
           gone == Found(r) \cup Abandoned(r)
       IN
       /\ user' = IF ours = {} THEN user ELSE [user EXCEPT !.session = user.attempt]
       /\ intents' = (intents \cup seen) \ ours
       /\ \/ /\ Recoverable(r) = {}
             /\ ops' = Without(ops, gone)
             /\ LET next == [Enter(r, "cleanup") EXCEPT !.todo = intents']
                IN IF gone = {} THEN Becomes(r, next) ELSE Bumps(r, next)
          \/ \E i \in Recoverable(r) :
                /\ ops' = Claimed(r, i, gone)
                /\ Bumps(r, Recovery(r, i))
    /\ UNCHANGED <<recorded, stripe, bounds>>

\* The portal session is created again with the operation's own key.
RecoversPortal(r) ==
    /\ At(r, "recover_portal")
    /\ \/ /\ ops' = Without(ops, Owned(r))
          /\ LET next == IF req[r].want = "webhook" THEN [Enter(r, "cleanup") EXCEPT !.todo = intents]
                         ELSE Idle      \* the portal's url, or a request to retry
             IN IF Owned(r) = {} THEN Becomes(r, next) ELSE Bumps(r, next)
          /\ UNCHANGED faults
       \/ /\ Fault
          /\ \E phase \in {"complete", "uncertain"} : Becomes(r, Enter(r, phase))
          /\ UNCHANGED ops
    /\ UNCHANGED <<user, intents, recorded, stripe, asked, clock, deaths>>

-----------------------------------------------------------------------------
(* Stripe creates a checkout session, for a request and for a recovery *)

\* The key is remembered for a day.  With it comes the first answer again,
\* or an error if the parameters are others.
Remembered(a) == session[a].status # "none" /\ session[a].age < Day

Created(a, offer) ==
    IF Remembered(a) THEN session
    ELSE [session EXCEPT ![a] = [Uncreated EXCEPT !.status = "open", !.offer = offer]]

Accepts(a, offer) == Remembered(a) => session[a].offer = offer

\* What the answer leads to: persistReturnedCheckoutSession.
Keeps(r) == IF At(r, "recover") THEN "keep_recovered" ELSE "keep"

Creates(r) ==
    /\ req[r].pc \in {"create", "recover"}
    /\ LET a == req[r].attempt IN
       IF Accepts(a, req[r].offer)
         THEN /\ session' = Created(a, req[r].offer)
              /\ Becomes(r, [Enter(r, Keeps(r)) EXCEPT !.attempt = a])
         ELSE /\ Becomes(r, Enter(r, "uncertain"))
              /\ UNCHANGED session
    /\ UNCHANGED <<rows, subs, changes, events, late, bounds>>

\* isDefinitiveCheckoutCreateFailure
CreateRefused(r) ==
    /\ req[r].pc \in {"create", "recover"}
    /\ ~Remembered(req[r].attempt)
    /\ Fault
    /\ Becomes(r, Enter(r, "complete"))
    /\ UNCHANGED <<rows, stripe, asked, clock, deaths>>

\* No answer: the call was lost, or its answer was, or it is still to arrive.
CreateUnknown(r) ==
    /\ req[r].pc \in {"create", "recover"}
    /\ Fault
    /\ LET a == req[r].attempt
           call == [attempt |-> a, offer |-> req[r].offer]
       IN \/ UNCHANGED <<session, late>>
          \/ /\ Accepts(a, req[r].offer)
             /\ session' = Created(a, req[r].offer)
             /\ UNCHANGED late
          \/ /\ late' = late \cup {call}
             /\ UNCHANGED session
    /\ Becomes(r, Enter(r, "uncertain"))
    /\ UNCHANGED <<rows, subs, changes, events, asked, clock, deaths>>

ArrivesLate(call) ==
    /\ call \in late
    /\ late' = late \ {call}
    /\ session' = IF Accepts(call.attempt, call.offer) THEN Created(call.attempt, call.offer) ELSE session
    /\ UNCHANGED <<rows, req, subs, changes, events, bounds>>

\* persistReturnedCheckoutSession: 'owned' if the fence holds and the attempt
\* is current, else the session is to be cleaned up.
OwnsReturned(r) == Owned(r) # {} /\ user.attempt = req[r].attempt

\* Faulty: a session that nobody owns is left alone.
PersistOrDrop(r, next) ==
    /\ IF OwnsReturned(r) THEN user' = [user EXCEPT !.session = user.attempt] ELSE UNCHANGED user
    /\ UNCHANGED intents
    /\ ops' = Without(ops, Owned(r))
    /\ Bumps(r, next)
    /\ UNCHANGED <<recorded, subs, changes, events, late, bounds>>

Persist(r, next) ==
    /\ IF OwnsReturned(r)
         THEN /\ user' = [user EXCEPT !.session = user.attempt]
              /\ intents' = intents \ {user.attempt}
         ELSE /\ intents' = intents \cup {req[r].attempt}
              /\ UNCHANGED user
    /\ ops' = Without(ops, Owned(r))
    /\ Bumps(r, next)
    /\ UNCHANGED <<recorded, subs, changes, events, late, bounds>>

KeepsRecovered(r) ==
    /\ At(r, "keep_recovered")
    /\ Persist(r, Enter(r, "operations"))
    /\ UNCHANGED session

\* The url is the answer, or a conflict is once the session is cleaned up.
KeepsCreated(r) ==
    /\ At(r, "keep")
    /\ \/ /\ OwnsReturned(r)
          /\ Persist(r, Idle)
          /\ GivesOut(req[r].attempt)
       \/ /\ ~OwnsReturned(r)
          /\ Persist(r, IF Owned(r) = {} THEN Idle
                        ELSE [Enter(r, "cleanup") EXCEPT !.todo = intents', !.conflict = TRUE])
          /\ UNCHANGED session

-----------------------------------------------------------------------------
(* reconcileCheckoutCleanup *)

\* One intent after the other.  Is its session the account's by now?
ChecksOwner(r, a) ==
    /\ At(r, "cleanup")
    /\ a \in req[r].todo
    /\ LET rest == [req[r] EXCEPT !.todo = @ \ {a}] IN
       IF user.session = a
         THEN /\ intents' = intents \ {a}
              /\ IF a \in intents THEN Bumps(r, rest) ELSE Becomes(r, rest)
         ELSE /\ Becomes(r, [rest EXCEPT !.pc = "retire", !.target = a])
              /\ UNCHANGED intents
    /\ UNCHANGED <<user, ops, recorded, stripe, bounds>>

\* Stripe is asked for the session, and to expire it if it is open.
Retires(r) ==
    /\ At(r, "retire")
    /\ \/ /\ session' = [session EXCEPT ![req[r].target].status = IF @ = "open" THEN "expired" ELSE @]
          /\ Becomes(r, [req[r] EXCEPT !.pc = "unlist"])
          /\ UNCHANGED faults
       \/ /\ Fault
          /\ Becomes(r, [req[r] EXCEPT !.pc = "cleanup", !.target = Nothing, !.failed = TRUE])
          /\ UNCHANGED session
    /\ UNCHANGED <<rows, subs, changes, events, late, asked, clock, deaths>>

Unlists(r) ==
    /\ At(r, "unlist")
    /\ LET a == req[r].target
           next == [req[r] EXCEPT !.pc = "cleanup", !.target = Nothing]
       IN /\ intents' = intents \ {a}
          /\ IF a \in intents THEN Bumps(r, next) ELSE Becomes(r, next)
    /\ UNCHANGED <<user, ops, recorded, stripe, bounds>>

CleanedUp(r) ==
    /\ At(r, "cleanup")
    /\ req[r].todo = {}
    /\ Becomes(r, CASE req[r].failed \/ req[r].conflict -> Enter(r, "complete")
                    [] Checkout(r) -> Enter(r, "reserve")
                    [] req[r].want = "portal" -> Enter(r, "reserve_portal")
                    [] req[r].want = "webhook" -> Enter(r, "list"))
    /\ UNCHANGED <<rows, stripe, bounds>>

-----------------------------------------------------------------------------
(* createCheckout *)

Row(r, kind, attempt, offer) == [kind |-> kind, attempt |-> attempt, offer |-> offer,
                                 owner |-> r, live |-> TRUE, age |-> 0]

\* Live operations that are not for what r asks.
Conflicting(r) == {i \in Operations : /\ ops[i] # Nothing
                                      /\ ops[i].live
                                      /\ ops[i].kind = "portal" \/ ops[i].offer # req[r].want}

\* The reservation: an attempt, unless there is one, and an operation.
Reserves(r) ==
    /\ At(r, "reserve")
    /\ intents = {}
    /\ Conflicting(r) = {}
    /\ \E i \in Operations, a \in Attempts :
        /\ FreeRow(i)
        /\ IF user.attempt = Nothing THEN NewAttempt(a) ELSE a = user.attempt
        /\ user' = IF user.attempt # Nothing THEN user
                   ELSE [user EXCEPT !.attempt = a, !.offer = req[r].want, !.age = 0, !.session = Nothing]
        /\ session' = IF user.attempt # Nothing THEN session ELSE [session EXCEPT ![a] = Uncreated]
        /\ ops' = [ops EXCEPT ![i] = Row(r, "checkout", a, req[r].want)]
    /\ Bumps(r, Enter(r, "customer"))
    /\ UNCHANGED <<intents, recorded, subs, changes, events, late, bounds>>

NotReserved(r) ==
    /\ At(r, "reserve")
    /\ intents # {} \/ Conflicting(r) # {}
    /\ Becomes(r, Idle)
    /\ UNCHANGED <<rows, stripe, bounds>>

\* ensureCustomer: the customer is the same however often it is created.
EnsuresCustomer(r) ==
    /\ At(r, "customer")
    /\ \/ /\ user' = [user EXCEPT !.customer = TRUE]
          /\ IF user.customer THEN Becomes(r, Enter(r, "list")) ELSE Bumps(r, Enter(r, "list"))
          /\ UNCHANGED faults
       \/ /\ Fault
          /\ ~user.customer
          /\ Becomes(r, Enter(r, "complete"))
          /\ UNCHANGED user
    /\ UNCHANGED <<ops, intents, recorded, stripe, asked, clock, deaths>>

\* The snapshot of coordinate(): two lists, asked for together and answered in
\* any order.  A webhook asks for subscriptions alone.
Lists(r) ==
    /\ At(r, "list")
    /\ LET withSubs == [req[r] EXCEPT !.fresh = TRUE, !.subs = subs]
           withSessions == [req[r] EXCEPT !.fresh = TRUE, !.sessions = ListedStatuses]
       IN \/ /\ req[r].want = "webhook"
             /\ Becomes(r, [withSubs EXCEPT !.known = changes, !.pc = "apply"])
          \/ /\ Checkout(r)
             /\ req[r].subs = Nothing
             /\ Becomes(r, [withSubs EXCEPT !.pc = IF req[r].sessions = Nothing THEN "list" ELSE "decide"])
          \/ /\ Checkout(r)
             /\ req[r].sessions = Nothing
             /\ Becomes(r, [withSessions EXCEPT !.pc = IF req[r].subs = Nothing THEN "list" ELSE "decide"])
    /\ UNCHANGED <<rows, stripe, bounds>>

\* What coordinate() sees in its snapshot and in the row.
\* Faulty: takes the attempt for one's own.
SameWhenever(r) == user.attempt # Nothing

Same(r) == user.offer = req[r].want
Old == user.attempt # Nothing /\ user.age = Day
Listed(r, a) == {a} \cap {b \in Attempts : req[r].sessions[b] # "none"}
AttemptSession(r) == Listed(r, user.attempt)
PersistedSession(r) == Listed(r, user.session)
KnownSession(r) == IF AttemptSession(r) # {} THEN AttemptSession(r) ELSE PersistedSession(r)
Has(r, found, status) == \E a \in found : req[r].sessions[a] = status

\* Its transaction, with the fence renewed.
Coordinates(r) == /\ At(r, "decide")
                  /\ req[r].fresh
                  /\ Owned(r) # {}

Undisturbed(r) == Coordinates(r) /\ intents = {} /\ req[r].subs = {}

\* The account is subscribed already: the portal instead.
TurnsToPortal(r) ==
    /\ Coordinates(r)
    /\ intents = {}
    /\ req[r].subs # {}
    /\ user' = Cleared
    /\ ops' = Renewed(r)
    /\ Bumps(r, Enter(r, "portal"))
    /\ UNCHANGED <<intents, recorded, stripe, bounds>>

\* The attempt's session is open.
Reuses(r) ==
    /\ Undisturbed(r)
    /\ Same(r)
    /\ Has(r, AttemptSession(r), "open")
    /\ user' = [user EXCEPT !.session = user.attempt]
    /\ ops' = RenewedFor(r, user.attempt)
    /\ Bumps(r, [Enter(r, "complete") EXCEPT !.attempt = user.attempt])
    /\ UNCHANGED <<intents, recorded, stripe, bounds>>

NotReused(r) == Undisturbed(r) /\ ~(Same(r) /\ Has(r, AttemptSession(r), "open"))

\* Faulty: goes on with the attempt whose session is to be replaced.
SameAttemptFor(r, a, replaced) ==
    /\ a = user.attempt
    /\ user' = [user EXCEPT !.offer = req[r].want, !.session = replaced]
    /\ ops' = RenewedFor(r, a)
    /\ UNCHANGED session

\* A new attempt, which remembers the session it comes to replace, or none.
NewAttemptFor(r, a, replaced) ==
    /\ NewAttempt(a)
    /\ user' = [user EXCEPT !.attempt = a, !.offer = req[r].want, !.age = 0, !.session = replaced]
    /\ session' = [session EXCEPT ![a] = Uncreated]
    /\ ops' = RenewedFor(r, a)

\* Faulty: creates the session without expiring the one it replaces.
CreateAtOnce(r, a, target) == [Enter(r, "create") EXCEPT !.attempt = a, !.offer = req[r].want]

\* After the second time a session to expire that is the same attempt's is a
\* conflict; another attempt's is created without expiring anything.
Expire(r, a, target) ==
    CASE ~req[r].again -> [Enter(r, "expire") EXCEPT !.attempt = a, !.target = target]
      [] req[r].again /\ a = req[r].target -> Enter(r, "complete")
      [] OTHER -> [Enter(r, "create") EXCEPT !.attempt = a, !.offer = req[r].want]

\* An open session is for another offer.
Supersedes(r) ==
    /\ NotReused(r)
    /\ ~Same(r)
    /\ ~Old
    /\ Has(r, KnownSession(r), "open")
    /\ \E a \in Attempts, known \in KnownSession(r) :
        /\ NewAttemptFor(r, a, known)
        /\ Bumps(r, Expire(r, a, known))
    /\ UNCHANGED <<intents, recorded, subs, changes, events, late, bounds>>

\* The recorded session is not of the current attempt.
Elsewhere(r) == PersistedSession(r) # {user.attempt}

\* It is still open: a replacement that has not got further than this.
ExpiresFirst(r) ==
    /\ NotReused(r)
    /\ Same(r)
    /\ Elsewhere(r)
    /\ Has(r, PersistedSession(r), "open")
    /\ ops' = RenewedFor(r, user.attempt)
    /\ Becomes(r, Expire(r, user.attempt, user.session))
    /\ UNCHANGED <<user, intents, recorded, stripe, bounds>>

ToCreate(r, a) == [Enter(r, "create") EXCEPT !.attempt = a, !.offer = req[r].want]

\* The attempt goes on, with its own key.
Proceeds(r) ==
    /\ NotReused(r)
    /\ Same(r)
    /\ Elsewhere(r)
    /\ ~Has(r, PersistedSession(r), "open")
    /\ Has(r, PersistedSession(r), "complete") => ~Old
    /\ ops' = RenewedFor(r, user.attempt)
    /\ Becomes(r, ToCreate(r, user.attempt))
    /\ UNCHANGED <<user, intents, recorded, stripe, bounds>>

\* Whatever became of an attempt a day old, another one takes its place.
StartsAnew(r) ==
    /\ NotReused(r)
    /\ Old
    /\ Same(r) /\ Elsewhere(r) => Has(r, PersistedSession(r), "complete")
    /\ \E a \in Attempts : /\ NewAttemptFor(r, a, Nothing)
                           /\ Bumps(r, ToCreate(r, a))
    /\ UNCHANGED <<intents, recorded, subs, changes, events, late, bounds>>

\* 'Checkout already in progress', 'cannot be replaced yet', cleanup pending.
Refuses(r) ==
    /\ Coordinates(r)
    /\ \/ intents # {}
       \/ NotReused(r) /\ ~Old /\ ~Same(r) /\ ~Has(r, KnownSession(r), "open")
       \/ NotReused(r) /\ ~Old /\ Same(r) /\ ~Elsewhere(r)
    /\ Becomes(r, Enter(r, "complete"))
    /\ UNCHANGED <<rows, stripe, bounds>>

\* sessions.expire fails for a session that is not open.
Expires(r) ==
    /\ At(r, "expire")
    /\ LET s == req[r].target IN
       \/ /\ session[s].status = "open"
          /\ session' = [session EXCEPT ![s].status = "expired"]
          /\ Becomes(r, [Enter(r, "list") EXCEPT !.again = TRUE, !.target = req[r].attempt])
          /\ UNCHANGED faults
       \/ /\ session[s].status # "open"
          /\ Becomes(r, Enter(r, "complete"))
          /\ UNCHANGED <<session, faults>>
       \/ /\ Fault
          /\ \/ UNCHANGED session
             \/ session[s].status = "open" /\ session' = [session EXCEPT ![s].status = "expired"]
          /\ Becomes(r, Enter(r, "complete"))
    /\ UNCHANGED <<rows, subs, changes, events, late, asked, clock, deaths>>

\* billingPortal.sessions.create, for createCheckout and createPortal.
OpensPortal(r) ==
    /\ At(r, "portal")
    /\ \/ Becomes(r, Enter(r, "complete")) /\ UNCHANGED faults
       \/ Fault /\ Becomes(r, Enter(r, "uncertain"))
    /\ UNCHANGED <<rows, stripe, asked, clock, deaths>>

-----------------------------------------------------------------------------
(* createPortal *)

ReservesPortal(r) ==
    /\ At(r, "reserve_portal")
    /\ IF (\A i \in Operations : FreeRow(i)) /\ user.customer /\ recorded.paid
         THEN \E i \in Operations :
                /\ ops' = [ops EXCEPT ![i] = Row(r, "portal", Nothing, Nothing)]
                /\ Bumps(r, Enter(r, "renew"))
         ELSE /\ Becomes(r, Idle)
              /\ UNCHANGED ops
    /\ UNCHANGED <<user, intents, recorded, stripe, bounds>>

RenewsFence(r) ==
    /\ At(r, "renew")
    /\ ops' = Renewed(r)
    /\ Becomes(r, IF Owned(r) = {} THEN Idle ELSE Enter(r, "portal"))
    /\ UNCHANGED <<user, intents, recorded, stripe, bounds>>

-----------------------------------------------------------------------------
(* applySubscriptionEvent *)

\* Faulty: the version is incremented for a subscription only.
AppliesQuietly(r) ==
    /\ At(r, "apply")
    /\ req[r].fresh
    /\ recorded' = [paid |-> req[r].subs # {}, known |-> req[r].known]
    /\ user' = IF req[r].subs = {} THEN user ELSE Cleared
    /\ events' = events \ {req[r].event}
    /\ IF req[r].subs = {} THEN Becomes(r, Idle) ELSE Bumps(r, Idle)
    /\ UNCHANGED <<ops, intents, session, subs, changes, late, bounds>>

Applies(r) ==
    /\ At(r, "apply")
    /\ req[r].fresh
    /\ recorded' = [paid |-> req[r].subs # {}, known |-> req[r].known]
    /\ user' = IF req[r].subs = {} THEN user ELSE Cleared
    /\ events' = events \ {req[r].event}
    /\ Bumps(r, Idle)
    /\ UNCHANGED <<ops, intents, session, subs, changes, late, bounds>>

-----------------------------------------------------------------------------
(* The environment *)

\* A lease of CHECKOUT_OPERATION_LEASE_MS runs out, which takes a slow owner
\* where there is one: each of its steps is bounded by seconds.
LeaseExpires(i) ==
    /\ ops[i] # Nothing
    /\ ops[i].live
    /\ IF ops[i].owner = Nothing THEN UNCHANGED deaths ELSE Death
    /\ ops' = [ops EXCEPT ![i].live = FALSE]
    /\ UNCHANGED <<user, intents, recorded, req, stripe, asked, clock, faults>>

\* The customer completes a session whose url is known.
Pays(a) ==
    /\ session[a].status = "open"
    /\ session[a].given
    /\ Happens
    /\ session' = [session EXCEPT ![a].status = "complete"]
    /\ subs' = subs \cup {a}
    /\ changes' = changes + 1
    /\ events' = events \cup {changes'}
    /\ UNCHANGED <<rows, req, late, bounds>>

\* A subscription is cancelled, or no longer paid for.
Ends(a) ==
    /\ a \in subs
    /\ Happens
    /\ subs' = subs \ {a}
    /\ changes' = changes + 1
    /\ events' = events \cup {changes'}
    /\ UNCHANGED <<rows, req, session, late, bounds>>

Older(age) == IF age < Day THEN age + 1 ELSE Day

\* Hours pass with nobody at work: no request takes that long.  Sessions
\* expire a day after their creation.
HoursPass ==
    /\ Happens
    /\ \A r \in Requests : At(r, "idle")
    /\ clock' = clock + 1
    /\ user' = IF user.attempt = Nothing THEN user ELSE [user EXCEPT !.age = Older(@)]
    /\ ops' = [i \in Operations |-> IF FreeRow(i) THEN Nothing
                                    ELSE [ops[i] EXCEPT !.age = Older(@), !.live = FALSE]]
    /\ session' = [a \in Attempts |->
                     IF session[a].status = "none" THEN Uncreated
                     ELSE [session[a] EXCEPT !.age = Older(@),
                             !.status = IF @ = "open" /\ Older(session[a].age) = Day THEN "expired" ELSE @]]
    /\ late' = {}
    /\ UNCHANGED <<intents, recorded, req, subs, changes, events, asked, faults, deaths>>

\* Faulty: looks at operations and intents only.
DeletesUnresolved ==
    /\ ~deleted
    /\ intents = {}
    /\ \A i \in Operations : FreeRow(i)
    /\ ~recorded.paid
    /\ deleted' = TRUE
    /\ UNCHANGED <<rows, req, stripe, bounds>>

\* An administrator deletes the account: nothing of a checkout is unresolved,
\* and no subscription recorded.  What is still under way finds no account.
DeletesUser ==
    /\ ~deleted
    /\ user.attempt = Nothing /\ user.session = Nothing
    /\ intents = {}
    /\ \A i \in Operations : FreeRow(i)
    /\ ~recorded.paid
    /\ deleted' = TRUE
    /\ UNCHANGED <<rows, req, stripe, bounds>>

-----------------------------------------------------------------------------
Init ==
    /\ user = [customer |-> FALSE, attempt |-> Nothing, offer |-> Nothing, age |-> 0, session |-> Nothing]
    /\ ops = [i \in Operations |-> Nothing]
    /\ intents = {}
    /\ recorded = [paid |-> FALSE, known |-> 0]
    /\ req = [r \in Requests |-> Idle]
    /\ session = [a \in Attempts |-> Uncreated]
    /\ subs = {}
    /\ changes = 0
    /\ events = {}
    /\ late = {}
    /\ asked = 0
    /\ clock = 0
    /\ faults = 0
    /\ deaths = 0
    /\ deleted = FALSE

Reconciliation(r) ==
    \/ NothingExpired(r) \/ ListsSessions(r) \/ Reconciles(r) \/ RecoversPortal(r) \/ KeepsRecovered(r)
    \/ CleanedUp(r) \/ Retires(r) \/ Unlists(r)
    \/ \E a \in Attempts : ChecksOwner(r, a)

Creation(r) == Creates(r) \/ CreateRefused(r) \/ CreateUnknown(r) \/ KeepsCreated(r)

Coordination(r) ==
    \/ Lists(r) \/ TurnsToPortal(r) \/ Reuses(r) \/ Supersedes(r) \/ ExpiresFirst(r)
    \/ Proceeds(r) \/ StartsAnew(r) \/ Refuses(r) \/ Expires(r)

Reservation(r) == Reserves(r) \/ NotReserved(r) \/ EnsuresCustomer(r) \/ ReservesPortal(r) \/ RenewsFence(r)

Ending(r) == Completes(r) \/ MarksUncertain(r) \/ OpensPortal(r) \/ Applies(r) \/ Outdated(r)

Work(r) == Reconciliation(r) \/ Creation(r) \/ Coordination(r) \/ Reservation(r) \/ Ending(r)

World ==
    \/ \E i \in Operations : LeaseExpires(i)
    \/ \E a \in Attempts : Pays(a) \/ Ends(a)
    \/ \E call \in late : ArrivesLate(call)
    \/ HoursPass

Business ==
    \/ \E r \in Requests : \/ Work(r)
                           \/ Dies(r)
                           \/ \E w \in Offers \cup {"portal"} : Asks(r, w)
                           \/ \E e \in events : Webhook(r, e)
    \/ World

Next ==
    \/ ~deleted /\ Business /\ UNCHANGED deleted
    \/ DeletesUser

Spec == Init /\ [][Next]_vars

-----------------------------------------------------------------------------
TypeOK ==
    /\ user \in User
    /\ ops \in [Operations -> Maybe(Operation)]
    /\ intents \subseteq Attempts
    /\ recorded \in [paid : BOOLEAN, known : 0 .. MaxEvents]
    /\ \A r \in Requests : req[r].pc \in Phases
    /\ session \in [Attempts -> Session]
    /\ subs \subseteq Attempts
    /\ changes \in 0 .. MaxEvents
    /\ events \subseteq 1 .. MaxEvents
    /\ late \subseteq [attempt : Attempts, offer : Offers]
    /\ asked \in 0 .. MaxAsked
    /\ {clock, faults, deaths} \subseteq 0 .. MaxEvents
    /\ changes + clock + faults + deaths <= MaxEvents
    /\ deleted \in BOOLEAN

-----------------------------------------------------------------------------
(* Properties *)

Open == {a \in Attempts : session[a].status = "open"}

Smooth == clock = 0 /\ deaths = 0

\* While processes finish what they begin, the account's row never names two
\* sessions that can still be paid: whatever requests for different plans,
\* reconciliations and lost calls there are, a session is expired before its
\* replacement is created.  And until one is paid, every session whose url the
\* owner has got is one the row names.  Afterwards the subscription that is
\* found clears the row, which may name an open session.
OnePayable ==
    Smooth => /\ Cardinality(Open \cap {user.attempt, user.session}) <= 1
              /\ changes = 0 => {a \in Open : session[a].given} \subseteq {user.attempt, user.session}

\* The account or the cleanup knows of the session.  Operations of requests
\* that have not come to a decision only name the attempt they found.
Undecided == {"customer", "list", "decide", "expire", "portal", "complete"}

Accounted(a) ==
    \/ a \in {user.attempt, user.session} \cup intents
    \/ \E i \in Operations : /\ ops[i] # Nothing
                             /\ ops[i].attempt = a
                             /\ \A r \in Requests : ops[i].owner = r => req[r].pc \notin Undecided

\* Within a day no session that can be paid is lost track of, whatever calls
\* are lost, but when a subscription is found and the attempt given up.  If a
\* process died there are two more ways, since a superseding attempt may be
\* recovered before what it supersedes was expired: the recovery puts its own
\* session in the place of that; or it is given up, and what it asked for is
\* created behind the next request, which supersedes the same session again.
ForgottenOnlyByRecovery ==
    [][clock = 0 => \A a \in Open :
         Accounted(a) /\ a \in Open' /\ ~Accounted(a)'
           => \/ user'.attempt = Nothing
              \/ /\ deaths # 0
                 /\ user.attempt # user.session
                 /\ \/ a = user.session /\ user'.session = user.attempt
                    \/ a = user.attempt /\ user'.session = user.session]_vars

\* Unless a process died, the url a request is answered with is of a session
\* for the plan and interval it asked for, though attempts are shared.
Answer(r) == IF At(r, "complete") \/ (At(r, "keep") /\ OwnsReturned(r)) THEN {req[r].attempt} \ {Nothing} ELSE {}

AnswersWhatIsAsked ==
    deaths = 0 => \A r \in Requests : \A a \in Answer(r) : session[a].offer = req[r].want

\* The account is never left with an attempt whose own session was expired
\* under it: createCheckout refuses to replace that for a day.
NeverLockedOut ==
    Smooth /\ user.session # Nothing /\ user.session = user.attempt => session[user.attempt].status # "expired"

\* When every event was answered with success, the account has recorded what
\* Stripe says, in whatever order and however often they arrived.
AnsweredIsRecorded ==
    events = {} => recorded = [paid |-> subs # {}, known |-> changes]

\* Nobody is charged for an account that was deleted: a subscription in force
\* is one whose event is still to be handled; and no session can be paid, if
\* processes finish what they begin and there never was a subscription, with
\* which an open session is forgotten.
DeletedIsSettled ==
    deleted => /\ subs = {} \/ events # {}
               /\ Smooth /\ changes = 0 => \A a \in Open : ~session[a].given

\* The owner of an account can pay one session and not two, and none of an
\* account that is deleted.
OneUsableSession == TypeOK /\ OnePayable /\ NeverLockedOut /\ DeletedIsSettled

\* Webhooks are applied in any order, several at a time: what they record is
\* what Stripe says in the end, and never goes back to what it said earlier.
WebhooksConverge == [][AnsweredIsRecorded' /\ recorded'.known >= recorded.known]_vars
=============================================================================
