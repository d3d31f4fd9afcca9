--------------------------- MODULE BillingProofs ---------------------------
(* What billing promises, for any value of the constants: CheckoutOperations *)
(* of its rows, of webhooks, of the urls it answers with and of the sessions *)
(* that can be paid; Duplicates, at the end, of what Stripe charges for.     *)
EXTENDS CheckoutOperations, Duplicates, FiniteSetTheorems, TLAPS

-----------------------------------------------------------------------------
(* The inductive invariant *)

\* An attempt is for an offer, and so is the operation of a checkout.
UserInOrder == user.attempt = Nothing <=> user.offer = Nothing

RowInOrder(row) == row.kind = "checkout" => row.attempt \in Attempts /\ row.offer \in Offers

RowsInOrder == UserInOrder /\ \A i \in Operations : ops[i] # Nothing => RowInOrder(ops[i])

\* What a request needs to know in its phase.
InOrder(q) ==
    /\ q.pc # "idle" => q.want # "none"
    /\ q.pc \in {"reserve", "decide"} => q.want \in Offers
    /\ q.pc \in {"recover", "create", "keep", "keep_recovered"} => q.attempt \in Attempts
    /\ q.pc \in {"recover", "create"} => q.offer \in Offers

RequestsInOrder == req \in [Requests -> Request] /\ \A r \in Requests : InOrder(req[r])

Typed == TypeOK /\ RowsInOrder /\ RequestsInOrder

\* A webhook tells of a change that Stripe has made.
Hears(q, n) == q.want = "webhook" => q.event \in 1 .. n

\* What a webhook is about to record is not older than what is recorded, nor
\* than the change it tells of; nothing was written since it was listed.
Applicable(q) ==
    /\ q.want = "webhook" /\ q.subs \in SUBSET Attempts
    /\ recorded.known <= q.known /\ q.known <= changes /\ q.event <= q.known
    /\ q.known = changes => (q.subs = {} <=> subs = {})

WebhooksInOrder ==
    /\ \A r \in Requests : Hears(req[r], changes)
    /\ \A r \in Requests : req[r].pc = "apply" /\ req[r].fresh => Applicable(req[r])

\* A change that is not recorded is still to be told of.
EventsAreSent ==
    /\ recorded.known <= changes
    /\ recorded.known = changes => (recorded.paid <=> subs # {})
    /\ events \subseteq 1 .. changes
    /\ \A k \in 1 .. changes : k > recorded.known => k \in events

IInv == Typed /\ WebhooksInOrder /\ EventsAreSent

-----------------------------------------------------------------------------
(* Requests and what they remember *)

LEMMA ZeroCounts == 0 \in 0 .. MaxEvents
BY BoundAssumption

LEMMA IdleTyped == Idle \in Request /\ InOrder(Idle)
<1>1. Idle \in Request
  BY ZeroCounts, ZenonT(30) DEF Idle, Request, Phases, Maybe
<1>2. InOrder(Idle)
  BY DEF Idle, InOrder
<1> QED BY <1>1, <1>2

LEMMA ReqTyped ==
    ASSUME RequestsInOrder, NEW r \in Requests
    PROVE  req[r] \in Request /\ InOrder(req[r])
BY DEF RequestsInOrder

LEMMA ReqFields ==
    ASSUME RequestsInOrder, NEW r \in Requests
    PROVE  /\ req[r].want \in Offers \cup {"portal", "webhook", "none"} /\ req[r].event \in 0 .. MaxEvents
           /\ req[r].attempt \in Maybe(Attempts) /\ req[r].offer \in Maybe(Offers)
           /\ req[r].target \in Maybe(Attempts) /\ req[r].todo \in SUBSET Attempts
           /\ req[r].again \in BOOLEAN /\ req[r].known \in 0 .. MaxEvents /\ req[r].pc \in Phases
BY ReqTyped DEF Request

LEMMA EnterTyped ==
    ASSUME RequestsInOrder, NEW r \in Requests, NEW phase \in Phases
    PROVE  Enter(r, phase) \in Request
BY ReqFields, ZeroCounts, ZenonT(30) DEF Request, Enter, Maybe, Idle

LEMMA BecomesTyped ==
    ASSUME RequestsInOrder, NEW r \in Requests, NEW q \in Request, InOrder(q), Becomes(r, q)
    PROVE  RequestsInOrder'
BY DEF RequestsInOrder, Becomes, InOrder

LEMMA DullTyped ==
    ASSUME NEW q \in Request, InOrder(q)
    PROVE  Dull(q) \in Request /\ InOrder(Dull(q)) /\ Dull(q).fresh = FALSE
<1>1. Dull(q) \in Request
  BY ZeroCounts, ZenonT(30) DEF Dull, Request, Maybe
<1>2. Dull(q).pc = q.pc /\ Dull(q).want = q.want /\ Dull(q).attempt = q.attempt /\ Dull(q).offer = q.offer
  BY DEF Dull, Request
<1>3. Dull(q).fresh = FALSE
  BY DEF Dull, Request
<1> QED BY <1>1, <1>2, <1>3 DEF InOrder

LEMMA BumpsTyped ==
    ASSUME RequestsInOrder, NEW r \in Requests, NEW q \in Request, InOrder(q), Bumps(r, q)
    PROVE  RequestsInOrder'
<1>1. \A s \in Requests : Dull(req[s]) \in Request /\ InOrder(Dull(req[s]))
  BY ReqTyped, DullTyped
<1>2. req' = [s \in Requests |-> IF s = r THEN q ELSE Dull(req[s])]
  BY DEF Bumps
<1>3. req' \in [Requests -> Request]
  BY <1>1, <1>2
<1>4. \A s \in Requests : InOrder(req'[s])
  BY <1>1, <1>2
<1> QED BY <1>3, <1>4 DEF RequestsInOrder, InOrder

-----------------------------------------------------------------------------
(* How a request goes on *)

\* A request may go on as q.
Follows(q) == InOrder(q) /\ Hears(q, changes) /\ (q.pc = "apply" /\ q.fresh => Applicable(q))

Moves(r) == \E q \in Request : Follows(q) /\ (Becomes(r, q) \/ Bumps(r, q))

\* Phases in which a request needs to know nothing but what is asked for.
Plain == Phases \ {"idle", "reserve", "decide", "recover", "create", "keep", "keep_recovered"}

LEMMA IdleFollows == Idle \in Request /\ Follows(Idle)
<1>1. Idle.pc = "idle" /\ Idle.want = "none"
  BY DEF Idle
<1> QED BY <1>1, IdleTyped DEF Follows, Hears

LEMMA WantKept ==
    ASSUME IInv, NEW r \in Requests, NEW q, q.want = req[r].want, q.event = req[r].event
    PROVE  Hears(q, changes)
BY DEF IInv, WebhooksInOrder, Hears

\* A request at work wants something.
LEMMA Wants ==
    ASSUME IInv, NEW r \in Requests, ~At(r, "idle")
    PROVE  req[r].want \in Offers \cup {"portal", "webhook"}
BY ReqTyped, ReqFields DEF IInv, Typed, At, InOrder

LEMMA GoesOn ==
    ASSUME IInv, NEW r \in Requests, ~At(r, "idle"), NEW q \in Request,
           q.want = req[r].want, q.event = req[r].event,
           q.pc \in {"reserve", "decide"} => Checkout(r),
           q.pc \in {"recover", "create", "keep", "keep_recovered"} => q.attempt \in Attempts,
           q.pc \in {"recover", "create"} => q.offer \in Offers,
           q.pc = "apply" => q.fresh = FALSE
    PROVE  Follows(q)
<1>1. q.want # "none"
  BY Wants, OfferAssumption
<1>2. q.pc \in {"reserve", "decide"} => q.want \in Offers
  BY DEF Checkout
<1>3. InOrder(q)
  BY <1>1, <1>2 DEF InOrder
<1>4. Hears(q, changes)
  BY WantKept
<1> QED BY <1>3, <1>4 DEF Follows

\* A phase is entered, with nothing to remember.
LEMMA EntersPlain ==
    ASSUME IInv, NEW r \in Requests, ~At(r, "idle"), NEW phase \in Plain
    PROVE  Enter(r, phase) \in Request /\ Follows(Enter(r, phase))
<1> DEFINE q == Enter(r, phase)
<1>1. q \in Request
  BY EnterTyped DEF IInv, Typed, Plain
<1>2. q.pc = phase /\ q.want = req[r].want /\ q.event = req[r].event /\ q.fresh = FALSE
  BY DEF Enter, Idle
<1> HIDE DEF q
<1>3. Follows(q)
  BY <1>1, <1>2, GoesOn DEF Plain
<1> QED BY <1>1, <1>3 DEF q

LEMMA EntersReserve ==
    ASSUME IInv, NEW r \in Requests, ~At(r, "idle"), Checkout(r)
    PROVE  Enter(r, "reserve") \in Request /\ Follows(Enter(r, "reserve"))
<1> DEFINE q == Enter(r, "reserve")
<1>1. q \in Request
  BY EnterTyped DEF IInv, Typed, Phases
<1>2. q.pc = "reserve" /\ q.want = req[r].want /\ q.event = req[r].event /\ q.fresh = FALSE
  BY DEF Enter, Idle
<1> HIDE DEF q
<1>3. Follows(q)
  BY <1>1, <1>2, GoesOn
<1> QED BY <1>1, <1>3 DEF q

\* Cleanup, with the intents to go through and perhaps a conflict to report.
LEMMA EntersCleanup ==
    ASSUME IInv, NEW r \in Requests, ~At(r, "idle"), NEW T \in SUBSET Attempts, NEW b \in BOOLEAN
    PROVE  /\ [Enter(r, "cleanup") EXCEPT !.todo = T] \in Request
           /\ Follows([Enter(r, "cleanup") EXCEPT !.todo = T])
           /\ [Enter(r, "cleanup") EXCEPT !.todo = T, !.conflict = b] \in Request
           /\ Follows([Enter(r, "cleanup") EXCEPT !.todo = T, !.conflict = b])
<1>1. Enter(r, "cleanup") \in Request
  BY EnterTyped DEF IInv, Typed, Phases
<1> DEFINE q == [Enter(r, "cleanup") EXCEPT !.todo = T]
           k == [Enter(r, "cleanup") EXCEPT !.todo = T, !.conflict = b]
<1>2. q \in Request /\ k \in Request
  BY <1>1, ZenonT(30) DEF Request
<1>3. /\ q.pc = "cleanup" /\ q.want = req[r].want /\ q.event = req[r].event
      /\ k.pc = "cleanup" /\ k.want = req[r].want /\ k.event = req[r].event
  BY DEF Enter, Idle
<1> HIDE DEF q, k
<1>4. Follows(q) /\ Follows(k)
  BY <1>2, <1>3, GoesOn
<1> QED BY <1>2, <1>4 DEF q, k

\* A session is created, or was, for an attempt; complete gives its url out.
LEMMA EntersAttempt ==
    ASSUME IInv, NEW r \in Requests, ~At(r, "idle"), NEW a \in Attempts,
           NEW phase \in {"keep", "keep_recovered", "complete"}
    PROVE  /\ [Enter(r, phase) EXCEPT !.attempt = a] \in Request
           /\ Follows([Enter(r, phase) EXCEPT !.attempt = a])
<1>1. Enter(r, phase) \in Request
  BY EnterTyped DEF IInv, Typed, Phases
<1> DEFINE q == [Enter(r, phase) EXCEPT !.attempt = a]
<1>2. q \in Request
  BY <1>1, ZenonT(30) DEF Request, Maybe
<1>3. q.pc = phase /\ q.want = req[r].want /\ q.event = req[r].event /\ q.attempt = a
  BY DEF Enter, Idle
<1> HIDE DEF q
<1>4. Follows(q)
  BY <1>2, <1>3, GoesOn
<1> QED BY <1>2, <1>4 DEF q

LEMMA EntersCreation ==
    ASSUME IInv, NEW r \in Requests, ~At(r, "idle"), NEW a \in Attempts, NEW o \in Offers,
           NEW phase \in {"create", "recover"}
    PROVE  /\ [Enter(r, phase) EXCEPT !.attempt = a, !.offer = o] \in Request
           /\ Follows([Enter(r, phase) EXCEPT !.attempt = a, !.offer = o])
<1>1. Enter(r, phase) \in Request
  BY EnterTyped DEF IInv, Typed, Phases
<1> DEFINE q == [Enter(r, phase) EXCEPT !.attempt = a, !.offer = o]
<1>2. q \in Request
  BY <1>1, ZenonT(30) DEF Request, Maybe
<1>3. q.pc = phase /\ q.want = req[r].want /\ q.event = req[r].event /\ q.attempt = a /\ q.offer = o
  BY DEF Enter, Idle
<1> HIDE DEF q
<1>4. Follows(q)
  BY <1>2, <1>3, GoesOn
<1> QED BY <1>2, <1>4 DEF q

\* A session is to be expired for an attempt.
LEMMA EntersExpire ==
    ASSUME IInv, NEW r \in Requests, ~At(r, "idle"), NEW a \in Maybe(Attempts), NEW t \in Maybe(Attempts)
    PROVE  /\ [Enter(r, "expire") EXCEPT !.attempt = a, !.target = t] \in Request
           /\ Follows([Enter(r, "expire") EXCEPT !.attempt = a, !.target = t])
<1>1. Enter(r, "expire") \in Request
  BY EnterTyped DEF IInv, Typed, Phases
<1> DEFINE q == [Enter(r, "expire") EXCEPT !.attempt = a, !.target = t]
<1>2. q \in Request
  BY <1>1, ZenonT(30) DEF Request
<1>3. q.pc = "expire" /\ q.want = req[r].want /\ q.event = req[r].event
  BY DEF Enter, Idle
<1> HIDE DEF q
<1>4. Follows(q)
  BY <1>2, <1>3, GoesOn
<1> QED BY <1>2, <1>4 DEF q

\* The snapshot is taken again, after an expiration or a change.
LEMMA EntersList ==
    ASSUME IInv, NEW r \in Requests, ~At(r, "idle"), NEW t \in Maybe(Attempts), NEW b \in BOOLEAN
    PROVE  /\ [Enter(r, "list") EXCEPT !.target = t, !.again = b] \in Request
           /\ Follows([Enter(r, "list") EXCEPT !.target = t, !.again = b])
           /\ [Enter(r, "list") EXCEPT !.again = b, !.target = t] \in Request
           /\ Follows([Enter(r, "list") EXCEPT !.again = b, !.target = t])
<1>1. Enter(r, "list") \in Request
  BY EnterTyped DEF IInv, Typed, Phases
<1> DEFINE q == [Enter(r, "list") EXCEPT !.target = t, !.again = b]
           k == [Enter(r, "list") EXCEPT !.again = b, !.target = t]
<1>2. q \in Request /\ k \in Request
  BY <1>1, ZenonT(30) DEF Request
<1>3. /\ q.pc = "list" /\ q.want = req[r].want /\ q.event = req[r].event
      /\ k.pc = "list" /\ k.want = req[r].want /\ k.event = req[r].event
  BY DEF Enter, Idle
<1> HIDE DEF q, k
<1>4. Follows(q) /\ Follows(k)
  BY <1>2, <1>3, GoesOn
<1> QED BY <1>2, <1>4 DEF q, k

-----------------------------------------------------------------------------
(* The rows and Stripe's sessions *)

UserRight(u) == u \in User /\ (u.attempt = Nothing <=> u.offer = Nothing)

OpsRight(table) ==
    /\ table \in [Operations -> Maybe(Operation)]
    /\ \A i \in Operations : table[i] # Nothing => RowInOrder(table[i])

SessionsRight(table) == table \in [Attempts -> Session]

LEMMA RowsRight ==
    ASSUME IInv
    PROVE  UserRight(user) /\ OpsRight(ops) /\ SessionsRight(session)
BY DEF IInv, Typed, TypeOK, RowsInOrder, UserInOrder, UserRight, OpsRight, SessionsRight

LEMMA WithoutRight ==
    ASSUME NEW table, OpsRight(table), NEW S
    PROVE  OpsRight(Without(table, S))
<1>1. \A i \in Operations : Without(table, S)[i] \in {table[i], Nothing}
  BY DEF Without
<1>2. Without(table, S) \in [Operations -> Maybe(Operation)]
  BY DEF OpsRight, Without, Maybe
<1> QED BY <1>1, <1>2 DEF OpsRight

\* A row that goes on for another owner, or with its lease renewed or over.
LEMMA RowGoesOn ==
    ASSUME NEW row \in Operation, RowInOrder(row), NEW w \in Maybe(Requests), NEW b \in BOOLEAN
    PROVE  /\ [row EXCEPT !.owner = w] \in Operation /\ RowInOrder([row EXCEPT !.owner = w])
           /\ [row EXCEPT !.live = b] \in Operation /\ RowInOrder([row EXCEPT !.live = b])
           /\ [row EXCEPT !.owner = w, !.live = b] \in Operation
           /\ RowInOrder([row EXCEPT !.owner = w, !.live = b])
<1>1. /\ [row EXCEPT !.owner = w] \in Operation /\ [row EXCEPT !.live = b] \in Operation
      /\ [row EXCEPT !.owner = w, !.live = b] \in Operation
  BY Zenon DEF Operation
<1> DEFINE k == [row EXCEPT !.owner = w]
           l == [row EXCEPT !.live = b]
           m == [row EXCEPT !.owner = w, !.live = b]
<1>2. /\ k.kind = row.kind /\ k.attempt = row.attempt /\ k.offer = row.offer
      /\ l.kind = row.kind /\ l.attempt = row.attempt /\ l.offer = row.offer
      /\ m.kind = row.kind /\ m.attempt = row.attempt /\ m.offer = row.offer
  BY DEF Operation
<1> HIDE DEF k, l, m
<1>3. RowInOrder(k) /\ RowInOrder(l) /\ RowInOrder(m)
  BY <1>2 DEF RowInOrder
<1> QED BY <1>1, <1>3 DEF k, l, m

LEMMA RowTyped ==
    ASSUME NEW table, OpsRight(table), NEW i \in Operations, table[i] # Nothing
    PROVE  table[i] \in Operation /\ RowInOrder(table[i])
BY DEF OpsRight, Maybe

LEMMA OrphansRight ==
    ASSUME IInv, NEW r \in Requests
    PROVE  OpsRight(Orphans(r, ops))
<1>1. ASSUME NEW i \in Operations, ops[i] # Nothing
      PROVE  [ops[i] EXCEPT !.owner = Nothing] \in Operation /\ RowInOrder([ops[i] EXCEPT !.owner = Nothing])
  BY <1>1, RowsRight, RowTyped, RowGoesOn DEF Maybe
<1>2. ASSUME NEW i \in Operations
      PROVE  Orphans(r, ops)[i] \in Maybe(Operation) /\ (Orphans(r, ops)[i] # Nothing => RowInOrder(Orphans(r, ops)[i]))
  BY <1>1, RowsRight DEF OpsRight, Orphans, Maybe
<1>3. Orphans(r, ops) = [i \in Operations |-> Orphans(r, ops)[i]]
  BY DEF Orphans
<1> QED BY <1>2, <1>3 DEF OpsRight

LEMMA RenewedRight ==
    ASSUME IInv, NEW r \in Requests
    PROVE  OpsRight(Renewed(r))
<1>1. ASSUME NEW i \in Operations, ops[i] # Nothing
      PROVE  [ops[i] EXCEPT !.live = TRUE] \in Operation /\ RowInOrder([ops[i] EXCEPT !.live = TRUE])
  BY <1>1, RowsRight, RowTyped, RowGoesOn DEF Maybe
<1>2. ASSUME NEW i \in Operations
      PROVE  Renewed(r)[i] \in Maybe(Operation) /\ (Renewed(r)[i] # Nothing => RowInOrder(Renewed(r)[i]))
  BY <1>1, RowsRight DEF OpsRight, Renewed, Owned, Maybe
<1>3. Renewed(r) = [i \in Operations |-> Renewed(r)[i]]
  BY DEF Renewed
<1> QED BY <1>2, <1>3 DEF OpsRight

LEMMA RenewedForRight ==
    ASSUME IInv, NEW r \in Requests, NEW a \in Attempts
    PROVE  OpsRight(RenewedFor(r, a))
<1>1. ASSUME NEW row \in Operation, RowInOrder(row)
      PROVE  [row EXCEPT !.attempt = a] \in Operation /\ RowInOrder([row EXCEPT !.attempt = a])
  <2>1. [row EXCEPT !.attempt = a] \in Operation
    BY Zenon DEF Operation, Maybe
  <2> DEFINE k == [row EXCEPT !.attempt = a]
  <2>2. k.kind = row.kind /\ k.attempt = a /\ k.offer = row.offer
    BY DEF Operation
  <2> HIDE DEF k
  <2>3. RowInOrder(k)
    BY <1>1, <2>2 DEF RowInOrder
  <2> QED BY <2>1, <2>3 DEF k
<1>2. ASSUME NEW i \in Owned(r)
      PROVE  Renewed(r)[i] \in Operation /\ RowInOrder(Renewed(r)[i])
  <2>1. i \in Operations /\ ops[i] # Nothing
    BY DEF Owned
  <2>2. Renewed(r)[i] = [ops[i] EXCEPT !.live = TRUE]
    BY <2>1 DEF Renewed
  <2>3. ops[i] \in Operation /\ RowInOrder(ops[i])
    BY <2>1, RowsRight, RowTyped
  <2> QED BY <2>2, <2>3, RowGoesOn DEF Maybe
<1>3. ASSUME NEW i \in Operations
      PROVE  RenewedFor(r, a)[i] \in Maybe(Operation) /\ (RenewedFor(r, a)[i] # Nothing => RowInOrder(RenewedFor(r, a)[i]))
  BY <1>1, <1>2, RowsRight DEF OpsRight, RenewedFor, Maybe
<1>4. RenewedFor(r, a) = [i \in Operations |-> RenewedFor(r, a)[i]]
  BY DEF RenewedFor
<1> QED BY <1>3, <1>4 DEF OpsRight

LEMMA ClaimedRight ==
    ASSUME IInv, NEW r \in Requests, NEW i \in Operations, NEW gone, ops[i] # Nothing, i \notin gone
    PROVE  OpsRight(Claimed(r, i, gone))
<1> DEFINE rest == Without(ops, gone)
           row == [rest[i] EXCEPT !.owner = r, !.live = TRUE]
<1>1. OpsRight(rest) /\ rest[i] = ops[i]
  BY RowsRight, WithoutRight DEF Without
<1>2. row \in Operation /\ RowInOrder(row)
  BY <1>1, RowsRight, RowTyped, RowGoesOn DEF Maybe
<1>3. Claimed(r, i, gone) = [rest EXCEPT ![i] = row]
  <2>1. rest[i] \in Operation
    BY <1>1, RowsRight, RowTyped
  <2> QED BY <1>1, <2>1 DEF Claimed, OpsRight, Operation
<1> HIDE DEF rest, row
<1> QED BY <1>1, <1>2, <1>3 DEF OpsRight, Maybe

LEMMA RowAdded ==
    ASSUME IInv, NEW i \in Operations, NEW row \in Operation, RowInOrder(row)
    PROVE  OpsRight([ops EXCEPT ![i] = row])
BY RowsRight DEF OpsRight, Maybe

LEMMA NewUserRight ==
    ASSUME IInv, NEW a \in Maybe(Attempts)
    PROVE  /\ UserRight([user EXCEPT !.session = a])
           /\ UserRight([user EXCEPT !.customer = TRUE])
           /\ UserRight(Cleared)
<1>1. user \in User /\ (user.attempt = Nothing <=> user.offer = Nothing)
  BY RowsRight DEF UserRight
<1>2. 0 \in 0 .. Day
  BY BoundAssumption
<1>4. /\ [user EXCEPT !.session = a] \in User /\ [user EXCEPT !.customer = TRUE] \in User
      /\ Cleared \in User
  BY <1>1, <1>2, Zenon DEF User, Cleared, Maybe
<1>3. /\ [user EXCEPT !.session = a].attempt = user.attempt /\ [user EXCEPT !.session = a].offer = user.offer
      /\ [user EXCEPT !.customer = TRUE].attempt = user.attempt
      /\ [user EXCEPT !.customer = TRUE].offer = user.offer
      /\ Cleared.attempt = Nothing /\ Cleared.offer = Nothing
  BY <1>1 DEF User, Cleared
<1> QED BY <1>1, <1>3, <1>4 DEF UserRight

LEMMA NewAttemptRight ==
    ASSUME IInv, NEW a \in Attempts, NEW o \in Offers, NEW s \in Maybe(Attempts)
    PROVE  UserRight([user EXCEPT !.attempt = a, !.offer = o, !.age = 0, !.session = s])
<1> DEFINE u == [user EXCEPT !.attempt = a, !.offer = o, !.age = 0, !.session = s]
<1>1. user \in User
  BY RowsRight DEF UserRight
<1>2. u \in User
  <2>1. 0 \in 0 .. Day
    BY BoundAssumption
  <2> QED BY <1>1, <2>1, Zenon DEF User, Maybe
<1>3. u.attempt = a /\ u.offer = o
  BY <1>1 DEF User
<1> HIDE DEF u
<1>4. UserRight(u)
  BY <1>2, <1>3, NothingAssumption DEF UserRight
<1> QED BY <1>4 DEF u

LEMMA SessionChanged ==
    ASSUME IInv, NEW a \in Attempts, NEW x \in Session
    PROVE  SessionsRight([session EXCEPT ![a] = x])
BY RowsRight DEF SessionsRight

LEMMA UncreatedTyped == Uncreated \in Session
BY BoundAssumption DEF Uncreated, Session, Statuses, Maybe

LEMMA GivenRight ==
    ASSUME IInv, NEW a \in Attempts
    PROVE  SessionsRight([session EXCEPT ![a].given = TRUE])
<1>1. session \in [Attempts -> Session]
  BY RowsRight DEF SessionsRight
<1>2. [session[a] EXCEPT !.given = TRUE] \in Session
  BY <1>1 DEF Session
<1>3. [session EXCEPT ![a].given = TRUE] = [session EXCEPT ![a] = [session[a] EXCEPT !.given = TRUE]]
  BY <1>1 DEF Session
<1> QED BY <1>2, <1>3, SessionChanged

\* A session that there is not cannot be changed.
LEMMA StatusRight ==
    ASSUME IInv, NEW a \in Maybe(Attempts), NEW s \in Statuses
    PROVE  SessionsRight([session EXCEPT ![a].status = s])
<1>1. session \in [Attempts -> Session]
  BY RowsRight DEF SessionsRight
<1>2. CASE a \in Attempts
  <2>1. [session[a] EXCEPT !.status = s] \in Session
    BY <1>1, <1>2 DEF Session
  <2>2. [session EXCEPT ![a].status = s] = [session EXCEPT ![a] = [session[a] EXCEPT !.status = s]]
    BY <1>1, <1>2 DEF Session
  <2> QED BY <1>2, <2>1, <2>2, SessionChanged
<1>3. CASE a \notin Attempts
  BY <1>1, <1>3 DEF SessionsRight
<1> QED BY <1>2, <1>3

LEMMA CreatedRight ==
    ASSUME IInv, NEW a \in Attempts, NEW o \in Offers
    PROVE  SessionsRight(Created(a, o))
<1> DEFINE x == [Uncreated EXCEPT !.status = "open", !.offer = o]
<1>1. x \in Session
  BY UncreatedTyped DEF Session, Statuses, Maybe
<1>2. Created(a, o) = session \/ Created(a, o) = [session EXCEPT ![a] = x]
  BY DEF Created
<1> HIDE DEF x
<1> QED BY <1>1, <1>2, RowsRight, SessionChanged

-----------------------------------------------------------------------------
(* What a step of a request does *)

Counted ==
    /\ asked \in 0 .. MaxAsked
    /\ clock \in Nat /\ faults \in Nat /\ deaths \in Nat /\ changes \in Nat
    /\ changes + clock + faults + deaths <= MaxEvents

RowsTyped == UserRight(user) /\ OpsRight(ops) /\ intents \in SUBSET Attempts

StripeTyped == SessionsRight(session) /\ late \in SUBSET [attempt : Attempts, offer : Offers]

\* What is recorded and what Stripe has changed stays as it is.
Settled == UNCHANGED <<recorded, subs, changes, events>>

Steps(r) == Moves(r) /\ RowsTyped' /\ StripeTyped' /\ Counted' /\ Settled

LEMMA AllTyped ==
    ASSUME IInv
    PROVE  RowsTyped /\ StripeTyped /\ Counted
<1>1. RowsTyped /\ StripeTyped
  BY RowsRight DEF IInv, Typed, TypeOK, RowsTyped, StripeTyped
<1>2. Counted
  BY BoundAssumption DEF IInv, Typed, TypeOK, Counted
<1> QED BY <1>1, <1>2

LEMMA CountsKept ==
    ASSUME IInv, UNCHANGED <<bounds, changes>>
    PROVE  Counted'
BY AllTyped DEF Counted, bounds

LEMMA FaultCounted ==
    ASSUME IInv, Fault, UNCHANGED <<asked, clock, deaths, changes>>
    PROVE  Counted'
BY AllTyped, BoundAssumption DEF Counted, Fault, Happens

LEMMA DeathCounted ==
    ASSUME IInv, Death, UNCHANGED <<asked, clock, faults, changes>>
    PROVE  Counted'
BY AllTyped, BoundAssumption DEF Counted, Death, Happens

LEMMA RowsKept ==
    ASSUME IInv, UNCHANGED <<user, ops, intents>>
    PROVE  RowsTyped'
BY AllTyped DEF RowsTyped, UserRight, OpsRight

LEMMA StripeKept ==
    ASSUME IInv, UNCHANGED <<session, late>>
    PROVE  StripeTyped'
BY AllTyped DEF StripeTyped, SessionsRight

\* Only the request goes on.
LEMMA StepsAlone ==
    ASSUME IInv, NEW r \in Requests, NEW q \in Request, Follows(q), Becomes(r, q),
           UNCHANGED <<rows, stripe, bounds>>
    PROVE  Steps(r)
<1>1. Moves(r)
  BY DEF Moves
<1>2. RowsTyped' /\ StripeTyped'
  BY RowsKept, StripeKept DEF rows, stripe
<1>3. Counted' /\ Settled
  BY CountsKept DEF stripe, rows, Settled
<1> QED BY <1>1, <1>2, <1>3 DEF Steps

\* A call to Stripe fails, and nothing else happens.
LEMMA StepsFailing ==
    ASSUME IInv, NEW r \in Requests, NEW q \in Request, Follows(q), Becomes(r, q),
           Fault, UNCHANGED <<rows, stripe, asked, clock, deaths>>
    PROVE  Steps(r)
<1>1. Moves(r)
  BY DEF Moves
<1>2. RowsTyped' /\ StripeTyped'
  BY RowsKept, StripeKept DEF rows, stripe
<1>3. Counted' /\ Settled
  BY FaultCounted DEF stripe, rows, Settled
<1> QED BY <1>1, <1>2, <1>3 DEF Steps

\* The account's rows are written.
LEMMA StepsWriting ==
    ASSUME IInv, NEW r \in Requests, NEW q \in Request, Follows(q), Becomes(r, q) \/ Bumps(r, q),
           UserRight(user'), OpsRight(ops'), intents' \in SUBSET Attempts,
           UNCHANGED <<recorded, stripe, bounds>>
    PROVE  Steps(r)
<1>1. Moves(r)
  BY DEF Moves
<1>2. RowsTyped'
  BY DEF RowsTyped, UserRight, OpsRight
<1>3. StripeTyped'
  BY StripeKept DEF stripe
<1>4. Counted' /\ Settled
  BY CountsKept DEF stripe, Settled
<1> QED BY <1>1, <1>2, <1>3, <1>4 DEF Steps

\* The account's rows are written and sessions change.
LEMMA StepsChanging ==
    ASSUME IInv, NEW r \in Requests, NEW q \in Request, Follows(q), Becomes(r, q) \/ Bumps(r, q),
           UserRight(user'), OpsRight(ops'), intents' \in SUBSET Attempts, SessionsRight(session'),
           UNCHANGED <<recorded, subs, changes, events, late, bounds>>
    PROVE  Steps(r)
<1>1. Moves(r)
  BY DEF Moves
<1>2. RowsTyped'
  BY DEF RowsTyped, UserRight, OpsRight
<1>3. StripeTyped'
  BY AllTyped DEF StripeTyped, SessionsRight
<1>4. Counted' /\ Settled
  BY CountsKept DEF stripe, Settled
<1> QED BY <1>1, <1>2, <1>3, <1>4 DEF Steps

-----------------------------------------------------------------------------
(* A request begins, and how it ends *)

LEMMA AsksSteps ==
    ASSUME IInv, NEW r \in Requests, NEW w \in Offers \cup {"portal"}, Asks(r, w)
    PROVE  Steps(r)
<1> DEFINE q == [Idle EXCEPT !.pc = "operations", !.want = w]
<1>1. q \in Request
  BY IdleTyped, ZenonT(30) DEF Request, Phases
<1>2. q.pc = "operations" /\ q.want = w
  BY DEF Idle
<1>3. w # "none" /\ w # "webhook"
  BY OfferAssumption
<1>4. Becomes(r, q) /\ UNCHANGED <<rows, stripe, clock, faults, deaths>> /\ asked < MaxAsked /\ asked' = asked + 1
  BY DEF Asks
<1> HIDE DEF q
<1>5. Follows(q)
  BY <1>2, <1>3 DEF Follows, InOrder, Hears
<1>6. Moves(r)
  BY <1>1, <1>4, <1>5 DEF Moves
<1>7. RowsTyped' /\ StripeTyped' /\ Settled
  BY <1>4, RowsKept, StripeKept DEF rows, stripe, Settled
<1>8. Counted'
  BY <1>4, AllTyped, BoundAssumption DEF Counted, stripe
<1> QED BY <1>6, <1>7, <1>8 DEF Steps

LEMMA WebhookSteps ==
    ASSUME IInv, NEW r \in Requests, NEW e \in events, Webhook(r, e)
    PROVE  Steps(r)
<1> DEFINE q == [Idle EXCEPT !.pc = "operations", !.want = "webhook", !.event = e]
<1>1. e \in 1 .. changes /\ changes \in 0 .. MaxEvents
  BY DEF IInv, EventsAreSent, Typed, TypeOK
<1>2. e \in 0 .. MaxEvents
  BY <1>1, BoundAssumption
<1>3. q \in Request
  BY <1>2, IdleTyped, ZenonT(30) DEF Request, Phases
<1>4. q.pc = "operations" /\ q.want = "webhook" /\ q.event = e
  BY DEF Idle
<1>5. Becomes(r, q) /\ UNCHANGED <<rows, stripe, bounds>>
  BY DEF Webhook
<1> HIDE DEF q
<1>6. Follows(q)
  BY <1>1, <1>4 DEF Follows, InOrder, Hears
<1> QED BY <1>3, <1>5, <1>6, StepsAlone

LEMMA CompletesSteps ==
    ASSUME IInv, NEW r \in Requests, Completes(r)
    PROVE  Steps(r)
<1>1. SessionsRight(session')
  <2>1. CASE req[r].attempt = Nothing
    BY <2>1, RowsRight DEF Completes, SessionsRight
  <2>2. CASE req[r].attempt # Nothing
    <3>1. req[r].attempt \in Attempts
      BY <2>2, ReqFields DEF IInv, Typed, Maybe
    <3> QED BY <2>2, <3>1, GivenRight DEF Completes, GivesOut
  <2> QED BY <2>1, <2>2
<1>2. OpsRight(ops')
  BY RowsRight, WithoutRight DEF Completes
<1>3. Becomes(r, Idle) \/ Bumps(r, Idle)
  BY DEF Completes
<1>4. UNCHANGED <<user, intents, recorded, subs, changes, events, late, bounds>>
  BY DEF Completes
<1>5. UserRight(user') /\ intents' \in SUBSET Attempts
  BY <1>4, AllTyped DEF RowsTyped, UserRight
<1> QED BY <1>1, <1>2, <1>3, <1>4, <1>5, IdleFollows, StepsChanging

LEMMA MarksUncertainSteps ==
    ASSUME IInv, NEW r \in Requests, MarksUncertain(r)
    PROVE  Steps(r)
<1>1. OpsRight(ops')
  BY OrphansRight DEF MarksUncertain
<1>2. Becomes(r, Idle) \/ Bumps(r, Idle)
  BY DEF MarksUncertain
<1>3. UNCHANGED <<user, intents, recorded, stripe, bounds>>
  BY DEF MarksUncertain
<1>4. UserRight(user') /\ intents' \in SUBSET Attempts
  BY <1>3, AllTyped DEF RowsTyped, UserRight
<1> QED BY <1>1, <1>2, <1>3, <1>4, IdleFollows, StepsWriting

LEMMA DiesSteps ==
    ASSUME IInv, NEW r \in Requests, Dies(r)
    PROVE  Steps(r)
<1>1. OpsRight(ops')
  BY OrphansRight DEF Dies
<1>2. Becomes(r, Idle) /\ Death /\ UNCHANGED <<user, intents, recorded, stripe, asked, clock, faults>>
  BY DEF Dies
<1>3. Moves(r)
  BY <1>2, IdleFollows DEF Moves
<1>4. RowsTyped' /\ StripeTyped'
  BY <1>1, <1>2, AllTyped, StripeKept DEF RowsTyped, UserRight, OpsRight, stripe
<1>5. Counted' /\ Settled
  BY <1>2, DeathCounted DEF stripe, Settled
<1> QED BY <1>3, <1>4, <1>5 DEF Steps

LEMMA OutdatedSteps ==
    ASSUME IInv, NEW r \in Requests, Outdated(r)
    PROVE  Steps(r)
<1>1. ~At(r, "idle") /\ UNCHANGED <<rows, stripe, bounds>>
  BY DEF Outdated, At
<1>2. CASE Becomes(r, Enter(r, "complete"))
  BY <1>1, <1>2, EntersPlain, StepsAlone DEF Plain, Phases
<1>3. CASE Becomes(r, Again(r))
  <2>1. CASE At(r, "decide")
    <3> DEFINE q == [Enter(r, "list") EXCEPT !.target = req[r].target, !.again = req[r].again]
    <3>1. Again(r) = q
      BY <2>1 DEF Again, At
    <3>2. req[r].target \in Maybe(Attempts) /\ req[r].again \in BOOLEAN
      BY ReqFields DEF IInv, Typed
    <3>3. q \in Request /\ Follows(q)
      BY <1>1, <3>2, EntersList, Zenon
    <3> HIDE DEF q
    <3> QED BY <1>1, <1>3, <3>1, <3>3, StepsAlone
  <2>2. CASE ~At(r, "decide")
    <3>1. Again(r) = Enter(r, "operations")
      BY <2>2 DEF Again, At
    <3>2. Again(r) \in Request /\ Follows(Again(r))
      BY <1>1, <3>1, EntersPlain DEF Plain, Phases
    <3> QED BY <1>1, <1>3, <3>2, StepsAlone
  <2> QED BY <2>1, <2>2
<1> QED BY <1>2, <1>3 DEF Outdated

-----------------------------------------------------------------------------
(* reconcileCheckoutOperations *)

LEMMA NothingExpiredSteps ==
    ASSUME IInv, NEW r \in Requests, NothingExpired(r)
    PROVE  Steps(r)
<1> DEFINE q == [Enter(r, "cleanup") EXCEPT !.todo = intents]
<1>1. ~At(r, "idle") /\ Becomes(r, q) /\ UNCHANGED <<rows, stripe, bounds>>
  BY DEF NothingExpired, At
<1>2. intents \in SUBSET Attempts
  BY AllTyped DEF RowsTyped
<1>3. q \in Request /\ Follows(q)
  BY <1>1, <1>2, EntersCleanup
<1> HIDE DEF q
<1> QED BY <1>1, <1>3, StepsAlone

LEMMA ListedTyped ==
    ASSUME IInv
    PROVE  ListedStatuses \in [Attempts -> Statuses]
BY RowsRight DEF SessionsRight, ListedStatuses, Session

LEMMA ListsSessionsSteps ==
    ASSUME IInv, NEW r \in Requests, ListsSessions(r)
    PROVE  Steps(r)
<1> DEFINE q == [Enter(r, "reconcile") EXCEPT !.fresh = TRUE, !.sessions = ListedStatuses]
<1>1. ~At(r, "idle") /\ Becomes(r, q) /\ UNCHANGED <<rows, stripe, bounds>>
  BY DEF ListsSessions, At
<1>2. Enter(r, "reconcile") \in Request
  BY EnterTyped DEF IInv, Typed, Phases
<1>3. q \in Request
  BY <1>2, ListedTyped, ZenonT(30) DEF Request, Maybe
<1>4. q.pc = "reconcile" /\ q.want = req[r].want /\ q.event = req[r].event
  BY DEF Enter, Idle
<1> HIDE DEF q
<1>5. Follows(q)
  BY <1>1, <1>3, <1>4, GoesOn
<1> QED BY <1>1, <1>3, <1>5, StepsAlone

\* What the operations that were found or are to be tried again are for.
LEMMA ExpiredTyped ==
    ASSUME IInv, NEW r, NEW i \in ExpiredOps
    PROVE  /\ i \in Operations /\ ops[i] # Nothing
           /\ ops[i].kind = "checkout" => ops[i].attempt \in Attempts /\ ops[i].offer \in Offers
           /\ ops[i].kind \in {"checkout", "portal"}
<1>1. i \in Operations /\ ops[i] # Nothing
  BY DEF ExpiredOps
<1>2. ops[i] \in Operation /\ RowInOrder(ops[i])
  BY <1>1, RowsRight, RowTyped
<1> QED BY <1>1, <1>2 DEF RowInOrder, Operation

LEMMA RecoveryFollows ==
    ASSUME IInv, NEW r \in Requests, ~At(r, "idle"), NEW i \in ExpiredOps
    PROVE  Recovery(r, i) \in Request /\ Follows(Recovery(r, i))
<1>1. CASE ops[i].kind = "portal"
  BY <1>1, EntersPlain DEF Recovery, Plain, Phases
<1>2. CASE ops[i].kind # "portal"
  <2>1. ops[i].attempt \in Attempts /\ ops[i].offer \in Offers
    BY <1>2, ExpiredTyped
  <2> DEFINE q == [Enter(r, "recover") EXCEPT !.attempt = ops[i].attempt, !.offer = ops[i].offer]
  <2>2. Recovery(r, i) = q
    BY <1>2 DEF Recovery
  <2>3. q \in Request /\ Follows(q)
    BY <2>1, EntersCreation
  <2> HIDE DEF q
  <2> QED BY <2>2, <2>3
<1> QED BY <1>1, <1>2

LEMMA ReconcilesSteps ==
    ASSUME IInv, NEW r \in Requests, Reconciles(r)
    PROVE  Steps(r)
<1> DEFINE seen == {ops[i].attempt : i \in Found(r)}
           ours == seen \cap {user.attempt}
           gone == Found(r) \cup Abandoned(r)
           next == [Enter(r, "cleanup") EXCEPT !.todo = intents']
<1>1. /\ ~At(r, "idle")
      /\ user' = IF ours = {} THEN user ELSE [user EXCEPT !.session = user.attempt]
      /\ intents' = (intents \cup seen) \ ours
      /\ \/ ops' = Without(ops, gone) /\ (Becomes(r, next) \/ Bumps(r, next))
         \/ \E i \in Recoverable(r) : ops' = Claimed(r, i, gone) /\ Bumps(r, Recovery(r, i))
      /\ UNCHANGED <<recorded, stripe, bounds>>
  BY DEF Reconciles, At
<1>2. seen \in SUBSET Attempts
  BY ExpiredTyped DEF Found
<1>3. intents' \in SUBSET Attempts
  BY <1>1, <1>2, AllTyped DEF RowsTyped
<1>4. UserRight(user')
  <2>1. ours # {} => user.attempt \in Attempts
    BY <1>2
  <2> QED BY <1>1, <2>1, RowsRight, NewUserRight DEF Maybe
<1>5. ASSUME NEW i \in Recoverable(r)
      PROVE  i \in ExpiredOps /\ i \notin gone
  BY ExpiredTyped DEF Recoverable, Found, Abandoned
<1>6. next \in Request /\ Follows(next)
  BY <1>1, <1>3, EntersCleanup
<1> HIDE DEF seen, ours, gone, next
<1>7. CASE ops' = Without(ops, gone) /\ (Becomes(r, next) \/ Bumps(r, next))
  <2>1. OpsRight(ops')
    BY <1>7, RowsRight, WithoutRight
  <2> QED BY <1>1, <1>3, <1>4, <1>6, <1>7, <2>1, StepsWriting
<1>8. ASSUME NEW i \in Recoverable(r), ops' = Claimed(r, i, gone), Bumps(r, Recovery(r, i))
      PROVE  Steps(r)
  <2>1. i \in ExpiredOps /\ i \notin gone
    BY <1>5, <1>8
  <2>2. OpsRight(ops')
    BY <1>8, <2>1, ExpiredTyped, ClaimedRight
  <2>3. Recovery(r, i) \in Request /\ Follows(Recovery(r, i))
    BY <1>1, <2>1, RecoveryFollows
  <2> QED BY <1>1, <1>3, <1>4, <1>8, <2>2, <2>3, StepsWriting
<1> QED BY <1>1, <1>7, <1>8

LEMMA RecoversPortalSteps ==
    ASSUME IInv, NEW r \in Requests, RecoversPortal(r)
    PROVE  Steps(r)
<1> DEFINE clean == [Enter(r, "cleanup") EXCEPT !.todo = intents]
           next == IF req[r].want = "webhook" THEN clean ELSE Idle
<1>1. ~At(r, "idle") /\ UNCHANGED <<user, intents, recorded, stripe, asked, clock, deaths>>
  BY DEF RecoversPortal, At
<1>2. intents \in SUBSET Attempts
  BY AllTyped DEF RowsTyped
<1>3. clean \in Request /\ Follows(clean)
  BY <1>1, <1>2, EntersCleanup
<1> HIDE DEF clean
<1>4. next \in Request /\ Follows(next)
  BY <1>3, IdleFollows
<1>5. CASE ops' = Without(ops, Owned(r)) /\ (Becomes(r, next) \/ Bumps(r, next)) /\ UNCHANGED faults
  <2>1. OpsRight(ops')
    BY <1>5, RowsRight, WithoutRight
  <2>2. UserRight(user') /\ intents' \in SUBSET Attempts
    BY <1>1, AllTyped DEF RowsTyped, UserRight
  <2>3. UNCHANGED <<recorded, stripe, bounds>>
    BY <1>1, <1>5 DEF bounds
  <2> HIDE DEF next
  <2> QED BY <1>4, <1>5, <2>1, <2>2, <2>3, StepsWriting
<1>6. CASE Fault /\ (\E phase \in {"complete", "uncertain"} : Becomes(r, Enter(r, phase))) /\ UNCHANGED ops
  <2>1. PICK phase \in {"complete", "uncertain"} : Becomes(r, Enter(r, phase))
    BY <1>6
  <2>2. Enter(r, phase) \in Request /\ Follows(Enter(r, phase))
    BY <1>1, EntersPlain DEF Plain, Phases
  <2>3. UNCHANGED <<rows, stripe, asked, clock, deaths>>
    BY <1>1, <1>6 DEF rows
  <2> QED BY <1>6, <2>1, <2>2, <2>3, StepsFailing
<1> QED BY <1>5, <1>6 DEF RecoversPortal, clean

-----------------------------------------------------------------------------
(* Sessions are created *)

\* A request that creates a session knows for which attempt and offer.
LEMMA Creating ==
    ASSUME IInv, NEW r \in Requests, req[r].pc \in {"create", "recover"}
    PROVE  req[r].attempt \in Attempts /\ req[r].offer \in Offers
BY ReqTyped DEF IInv, Typed, InOrder

LEMMA CreatesSteps ==
    ASSUME IInv, NEW r \in Requests, Creates(r)
    PROVE  Steps(r)
<1> DEFINE a == req[r].attempt
           next == [Enter(r, Keeps(r)) EXCEPT !.attempt = a]
<1>1. ~At(r, "idle") /\ req[r].pc \in {"create", "recover"}
  BY DEF Creates, At
<1>2. a \in Attempts /\ req[r].offer \in Offers
  BY <1>1, Creating
<1>3. UNCHANGED <<user, ops, intents>> /\ UNCHANGED <<recorded, subs, changes, events, late, bounds>>
  BY DEF Creates, rows
<1>4. UserRight(user') /\ OpsRight(ops') /\ intents' \in SUBSET Attempts
  BY <1>3, AllTyped DEF RowsTyped, UserRight, OpsRight
<1>5. CASE session' = Created(a, req[r].offer) /\ Becomes(r, next)
  <2>1. SessionsRight(session')
    BY <1>2, <1>5, CreatedRight
  <2>2. Keeps(r) \in {"keep", "keep_recovered", "complete"}
    BY DEF Keeps
  <2>3. next \in Request /\ Follows(next)
    BY <1>1, <1>2, <2>2, EntersAttempt
  <2> HIDE DEF next
  <2> QED BY <1>3, <1>4, <1>5, <2>1, <2>3, StepsChanging
<1>6. CASE Becomes(r, Enter(r, "uncertain")) /\ UNCHANGED session
  <2>1. SessionsRight(session')
    BY <1>6, RowsRight DEF SessionsRight
  <2>2. Enter(r, "uncertain") \in Request /\ Follows(Enter(r, "uncertain"))
    BY <1>1, EntersPlain DEF Plain, Phases
  <2> QED BY <1>3, <1>4, <1>6, <2>1, <2>2, StepsChanging
<1> QED BY <1>5, <1>6 DEF Creates

LEMMA CreateRefusedSteps ==
    ASSUME IInv, NEW r \in Requests, CreateRefused(r)
    PROVE  Steps(r)
<1>1. /\ ~At(r, "idle") /\ Fault /\ Becomes(r, Enter(r, "complete"))
      /\ UNCHANGED <<rows, stripe, asked, clock, deaths>>
  BY DEF CreateRefused, At
<1>2. Enter(r, "complete") \in Request /\ Follows(Enter(r, "complete"))
  BY <1>1, EntersPlain DEF Plain, Phases
<1> QED BY <1>1, <1>2, StepsFailing

LEMMA CreateUnknownSteps ==
    ASSUME IInv, NEW r \in Requests, CreateUnknown(r)
    PROVE  Steps(r)
<1> DEFINE a == req[r].attempt
           call == [attempt |-> a, offer |-> req[r].offer]
<1>1. /\ ~At(r, "idle") /\ req[r].pc \in {"create", "recover"} /\ Fault
      /\ Becomes(r, Enter(r, "uncertain")) /\ UNCHANGED <<user, ops, intents>>
      /\ UNCHANGED <<recorded, subs, changes, events, asked, clock, deaths>>
  BY DEF CreateUnknown, At, rows
<1>2. a \in Attempts /\ req[r].offer \in Offers
  BY <1>1, Creating
<1>3. session' = session \/ session' = Created(a, req[r].offer)
  BY DEF CreateUnknown
<1>4. late' = late \/ late' = late \cup {call}
  BY DEF CreateUnknown
<1>5. call \in [attempt : Attempts, offer : Offers]
  BY <1>2
<1>6. late' \in SUBSET [attempt : Attempts, offer : Offers]
  BY <1>4, <1>5, AllTyped DEF StripeTyped
<1>7. SessionsRight(session')
  BY <1>2, <1>3, RowsRight, CreatedRight
<1>8. Enter(r, "uncertain") \in Request /\ Follows(Enter(r, "uncertain"))
  BY <1>1, EntersPlain DEF Plain, Phases
<1>9. Moves(r)
  BY <1>1, <1>8 DEF Moves
<1>10. RowsTyped' /\ Counted' /\ Settled
  BY <1>1, RowsKept, FaultCounted DEF Settled
<1>11. StripeTyped'
  BY <1>6, <1>7 DEF StripeTyped, SessionsRight
<1> QED BY <1>9, <1>10, <1>11 DEF Steps

\* What persistReturnedCheckoutSession writes.
LEMMA PersistRight ==
    ASSUME IInv, NEW r \in Requests, req[r].pc \in {"keep", "keep_recovered"}, NEW q, Persist(r, q)
    PROVE  /\ UserRight(user') /\ OpsRight(ops') /\ intents' \in SUBSET Attempts
           /\ Bumps(r, q) /\ UNCHANGED <<recorded, subs, changes, events, late, bounds>>
<1>1. req[r].attempt \in Attempts
  BY ReqTyped DEF IInv, Typed, InOrder
<1>2. UserRight(user')
  <2>1. OwnsReturned(r) => user.attempt \in Attempts
    BY <1>1 DEF OwnsReturned
  <2> QED BY <2>1, RowsRight, NewUserRight DEF Persist, Maybe
<1>3. OpsRight(ops')
  BY RowsRight, WithoutRight DEF Persist
<1>4. intents' \in SUBSET Attempts
  BY <1>1, AllTyped DEF Persist, RowsTyped
<1> QED BY <1>2, <1>3, <1>4 DEF Persist

LEMMA KeepsRecoveredSteps ==
    ASSUME IInv, NEW r \in Requests, KeepsRecovered(r)
    PROVE  Steps(r)
<1> DEFINE q == Enter(r, "operations")
<1>1. ~At(r, "idle") /\ req[r].pc \in {"keep", "keep_recovered"} /\ Persist(r, q) /\ session' = session
  BY DEF KeepsRecovered, At
<1>2. q \in Request /\ Follows(q)
  BY <1>1, EntersPlain DEF Plain, Phases
<1> HIDE DEF q
<1>3. SessionsRight(session')
  BY <1>1, RowsRight
<1> QED BY <1>1, <1>2, <1>3, PersistRight, StepsChanging

LEMMA KeepsCreatedSteps ==
    ASSUME IInv, NEW r \in Requests, KeepsCreated(r)
    PROVE  Steps(r)
<1>1. ~At(r, "idle") /\ req[r].pc \in {"keep", "keep_recovered"} /\ req[r].attempt \in Attempts
  BY ReqTyped DEF KeepsCreated, At, IInv, Typed, InOrder
<1>2. CASE Persist(r, Idle) /\ GivesOut(req[r].attempt)
  <2>1. SessionsRight(session')
    BY <1>1, <1>2, GivenRight DEF GivesOut
  <2> QED BY <1>1, <1>2, <2>1, PersistRight, IdleFollows, StepsChanging
<1>3. CASE Persist(r, Idle) /\ UNCHANGED session
  <2>1. SessionsRight(session')
    BY <1>3, RowsRight
  <2> QED BY <1>1, <1>3, <2>1, PersistRight, IdleFollows, StepsChanging
<1>4. CASE Persist(r, [Enter(r, "cleanup") EXCEPT !.todo = intents', !.conflict = TRUE]) /\ UNCHANGED session
  <2> DEFINE q == [Enter(r, "cleanup") EXCEPT !.todo = intents', !.conflict = TRUE]
  <2>1. SessionsRight(session')
    BY <1>4, RowsRight
  <2>2. Persist(r, q)
    BY <1>4
  <2>3. intents' \in SUBSET Attempts
    BY <1>1, <2>2, PersistRight
  <2>4. q \in Request /\ Follows(q)
    BY <1>1, <2>3, EntersCleanup
  <2> HIDE DEF q
  <2> QED BY <1>1, <2>1, <2>2, <2>4, PersistRight, StepsChanging
<1> QED BY <1>2, <1>3, <1>4 DEF KeepsCreated

-----------------------------------------------------------------------------
(* reconcileCheckoutCleanup *)

\* The request goes on with its cleanup.
LEMMA StaysCleaning ==
    ASSUME IInv, NEW r \in Requests, ~At(r, "idle"), NEW q \in Request,
           q.want = req[r].want, q.event = req[r].event, q.pc \in {"cleanup", "retire", "unlist"}
    PROVE  Follows(q)
BY GoesOn

LEMMA ChecksOwnerSteps ==
    ASSUME IInv, NEW r \in Requests, NEW a \in Attempts, ChecksOwner(r, a)
    PROVE  Steps(r)
<1> DEFINE rest == [req[r] EXCEPT !.todo = req[r].todo \ {a}]
           next == [rest EXCEPT !.pc = "retire", !.target = a]
<1>1. /\ req[r] \in Request /\ req[r].todo \ {a} \in SUBSET Attempts
      /\ ~At(r, "idle") /\ req[r].pc = "cleanup"
  BY ReqTyped, ReqFields DEF IInv, Typed, ChecksOwner, At
<1>2. /\ intents' \in SUBSET Attempts /\ UNCHANGED <<user, ops>> /\ UNCHANGED <<recorded, stripe, bounds>>
      /\ Becomes(r, rest) \/ Bumps(r, rest) \/ Becomes(r, next)
  BY AllTyped DEF ChecksOwner, RowsTyped
<1>3. rest \in Request
  BY <1>1, ZenonT(30) DEF Request
<1>4. rest.want = req[r].want /\ rest.event = req[r].event /\ rest.pc = "cleanup"
  BY <1>1 DEF Request
<1> HIDE DEF rest
<1>5. next \in Request
  BY <1>3, ZenonT(30) DEF Request, Phases, Maybe
<1>6. next.want = req[r].want /\ next.event = req[r].event /\ next.pc = "retire"
  BY <1>3, <1>4 DEF Request
<1> HIDE DEF next
<1>7. Follows(rest) /\ Follows(next)
  BY <1>1, <1>3, <1>4, <1>5, <1>6, StaysCleaning
<1>8. UserRight(user') /\ OpsRight(ops')
  BY <1>2, RowsRight DEF UserRight, OpsRight
<1> QED BY <1>2, <1>3, <1>5, <1>7, <1>8, StepsWriting

LEMMA RetiresSteps ==
    ASSUME IInv, NEW r \in Requests, Retires(r)
    PROVE  Steps(r)
<1>1. /\ req[r] \in Request /\ ~At(r, "idle") /\ req[r].target \in Maybe(Attempts)
  BY ReqTyped, ReqFields DEF IInv, Typed, Retires, At
<1> DEFINE done == [req[r] EXCEPT !.pc = "unlist"]
           next == [req[r] EXCEPT !.pc = "cleanup", !.target = Nothing, !.failed = TRUE]
<1>2. done \in Request /\ next \in Request
  <2>1. done \in Request
    BY <1>1, ZenonT(30) DEF Request, Phases
  <2>2. next \in Request
    BY <1>1, ZenonT(30) DEF Request, Phases, Maybe
  <2> QED BY <2>1, <2>2
<1>3. /\ done.want = req[r].want /\ done.event = req[r].event /\ done.pc = "unlist"
      /\ next.want = req[r].want /\ next.event = req[r].event /\ next.pc = "cleanup"
  BY <1>1 DEF Request
<1>4. CASE /\ session' = [session EXCEPT ![req[r].target].status = IF @ = "open" THEN "expired" ELSE @]
           /\ Becomes(r, done) /\ UNCHANGED faults
  <2> DEFINE t == req[r].target
  <2>1. session' = session \/ session' = [session EXCEPT ![t].status = "expired"]
    <3>1. CASE t \in Attempts /\ session[t].status = "open"
      BY <1>4, <3>1
    <3>2. CASE t \in Attempts /\ session[t].status # "open"
      BY <1>4, <3>2, RowsRight DEF SessionsRight, Session
    <3>3. CASE t \notin Attempts
      BY <1>4, <3>3, RowsRight DEF SessionsRight
    <3> QED BY <3>1, <3>2, <3>3
  <2>2. SessionsRight(session')
    BY <1>1, <2>1, RowsRight, StatusRight DEF Statuses
  <2>3. UNCHANGED <<user, ops, intents>> /\ UNCHANGED <<recorded, subs, changes, events, late, bounds>>
    BY <1>4 DEF Retires, rows, bounds
  <2>4. UserRight(user') /\ OpsRight(ops') /\ intents' \in SUBSET Attempts
    BY <2>3, AllTyped DEF RowsTyped, UserRight, OpsRight
  <2> HIDE DEF done
  <2>5. Follows(done)
    BY <1>1, <1>2, <1>3, StaysCleaning
  <2> QED BY <1>2, <1>4, <2>2, <2>3, <2>4, <2>5, StepsChanging
<1>5. CASE Fault /\ Becomes(r, next) /\ UNCHANGED session
  <2>1. UNCHANGED <<rows, stripe, asked, clock, deaths>>
    BY <1>5 DEF Retires, stripe
  <2> HIDE DEF next
  <2>2. Follows(next)
    BY <1>1, <1>2, <1>3, StaysCleaning
  <2> QED BY <1>2, <1>5, <2>1, <2>2, StepsFailing
<1> QED BY <1>4, <1>5 DEF Retires

LEMMA UnlistsSteps ==
    ASSUME IInv, NEW r \in Requests, Unlists(r)
    PROVE  Steps(r)
<1> DEFINE next == [req[r] EXCEPT !.pc = "cleanup", !.target = Nothing]
<1>1. req[r] \in Request /\ ~At(r, "idle")
  BY ReqTyped DEF IInv, Typed, Unlists, At
<1>2. next \in Request
  BY <1>1, ZenonT(30) DEF Request, Phases, Maybe
<1>3. next.want = req[r].want /\ next.event = req[r].event /\ next.pc = "cleanup"
  BY <1>1 DEF Request
<1>4. /\ intents' \in SUBSET Attempts /\ UNCHANGED <<user, ops>> /\ UNCHANGED <<recorded, stripe, bounds>>
      /\ Becomes(r, next) \/ Bumps(r, next)
  BY AllTyped DEF Unlists, RowsTyped
<1> HIDE DEF next
<1>5. Follows(next)
  BY <1>1, <1>2, <1>3, StaysCleaning
<1>6. UserRight(user') /\ OpsRight(ops')
  BY <1>4, RowsRight DEF UserRight, OpsRight
<1> QED BY <1>2, <1>4, <1>5, <1>6, StepsWriting

LEMMA CleanedUpSteps ==
    ASSUME IInv, NEW r \in Requests, CleanedUp(r)
    PROVE  Steps(r)
<1> DEFINE next == CASE req[r].failed \/ req[r].conflict -> Enter(r, "complete")
                     [] Checkout(r) -> Enter(r, "reserve")
                     [] req[r].want = "portal" -> Enter(r, "reserve_portal")
                     [] req[r].want = "webhook" -> Enter(r, "list")
<1>1. ~At(r, "idle") /\ Becomes(r, next) /\ UNCHANGED <<rows, stripe, bounds>>
  BY DEF CleanedUp, At
<1>2. \/ next \in {Enter(r, "complete"), Enter(r, "reserve_portal"), Enter(r, "list")}
      \/ Checkout(r) /\ next = Enter(r, "reserve")
  BY <1>1, Wants DEF Checkout
<1> HIDE DEF next
<1>3. next \in Request /\ Follows(next)
  BY <1>1, <1>2, EntersPlain, EntersReserve DEF Plain, Phases
<1> QED BY <1>1, <1>3, StepsAlone

-----------------------------------------------------------------------------
(* createCheckout *)

LEMMA RowMade ==
    ASSUME NEW r \in Requests, NEW a \in Attempts, NEW o \in Offers
    PROVE  Row(r, "checkout", a, o) \in Operation /\ RowInOrder(Row(r, "checkout", a, o))
<1>1. 0 \in 0 .. Day
  BY BoundAssumption
<1>2. Row(r, "checkout", a, o) \in Operation
  BY <1>1, Zenon DEF Row, Operation, Maybe
<1>3. RowInOrder(Row(r, "checkout", a, o))
  BY DEF Row, RowInOrder
<1> QED BY <1>2, <1>3

LEMMA PortalRowMade ==
    ASSUME NEW r \in Requests
    PROVE  /\ Row(r, "portal", Nothing, Nothing) \in Operation
           /\ RowInOrder(Row(r, "portal", Nothing, Nothing))
<1>1. 0 \in 0 .. Day
  BY BoundAssumption
<1>2. Row(r, "portal", Nothing, Nothing) \in Operation
  BY <1>1, Zenon DEF Row, Operation, Maybe
<1>3. RowInOrder(Row(r, "portal", Nothing, Nothing))
  BY DEF Row, RowInOrder
<1> QED BY <1>2, <1>3

LEMMA ReservesSteps ==
    ASSUME IInv, NEW r \in Requests, Reserves(r)
    PROVE  Steps(r)
<1> DEFINE q == Enter(r, "customer")
<1>1. /\ ~At(r, "idle") /\ req[r].want \in Offers /\ Bumps(r, q)
      /\ UNCHANGED <<intents, recorded, subs, changes, events, late, bounds>>
  BY ReqTyped DEF Reserves, At, IInv, Typed, InOrder
<1>2. q \in Request /\ Follows(q)
  BY <1>1, EntersPlain DEF Plain, Phases
<1> HIDE DEF q
<1>3. PICK i \in Operations, a \in Attempts :
        /\ user' = IF user.attempt # Nothing THEN user
                   ELSE [user EXCEPT !.attempt = a, !.offer = req[r].want, !.age = 0, !.session = Nothing]
        /\ session' = IF user.attempt # Nothing THEN session ELSE [session EXCEPT ![a] = Uncreated]
        /\ ops' = [ops EXCEPT ![i] = Row(r, "checkout", a, req[r].want)]
  BY DEF Reserves
<1>4. UserRight(user')
  BY <1>1, <1>3, RowsRight, NewAttemptRight DEF Maybe
<1>5. SessionsRight(session')
  BY <1>3, RowsRight, SessionChanged, UncreatedTyped
<1>6. OpsRight(ops')
  BY <1>1, <1>3, RowMade, RowAdded
<1>7. intents' \in SUBSET Attempts
  BY <1>1, AllTyped DEF RowsTyped
<1> QED BY <1>1, <1>2, <1>4, <1>5, <1>6, <1>7, StepsChanging

LEMMA NotReservedSteps ==
    ASSUME IInv, NEW r \in Requests, NotReserved(r)
    PROVE  Steps(r)
BY IdleFollows, StepsAlone DEF NotReserved

LEMMA EnsuresCustomerSteps ==
    ASSUME IInv, NEW r \in Requests, EnsuresCustomer(r)
    PROVE  Steps(r)
<1>1. ~At(r, "idle") /\ UNCHANGED <<ops, intents, recorded, stripe, asked, clock, deaths>>
  BY DEF EnsuresCustomer, At
<1>2. /\ Enter(r, "list") \in Request /\ Follows(Enter(r, "list"))
      /\ Enter(r, "complete") \in Request /\ Follows(Enter(r, "complete"))
  BY <1>1, EntersPlain DEF Plain, Phases
<1>3. CASE /\ user' = [user EXCEPT !.customer = TRUE]
           /\ Becomes(r, Enter(r, "list")) \/ Bumps(r, Enter(r, "list"))
           /\ UNCHANGED faults
  <2>1. UserRight(user')
    BY <1>3, NewUserRight DEF Maybe
  <2>2. OpsRight(ops') /\ intents' \in SUBSET Attempts
    BY <1>1, AllTyped DEF RowsTyped, OpsRight
  <2>3. UNCHANGED <<recorded, stripe, bounds>>
    BY <1>1, <1>3 DEF bounds
  <2> QED BY <1>2, <1>3, <2>1, <2>2, <2>3, StepsWriting
<1>4. CASE Fault /\ Becomes(r, Enter(r, "complete")) /\ UNCHANGED user
  <2>1. UNCHANGED <<rows, stripe, asked, clock, deaths>>
    BY <1>1, <1>4 DEF rows
  <2> QED BY <1>2, <1>4, <2>1, StepsFailing
<1> QED BY <1>3, <1>4 DEF EnsuresCustomer

\* A webhook lists what it is going to record, and nothing is newer.
LEMMA ListsForWebhook ==
    ASSUME IInv, NEW r \in Requests, At(r, "list"), req[r].want = "webhook",
           Becomes(r, [req[r] EXCEPT !.fresh = TRUE, !.subs = subs, !.known = changes, !.pc = "apply"]),
           UNCHANGED <<rows, stripe, bounds>>
    PROVE  Steps(r)
<1> DEFINE q == [req[r] EXCEPT !.fresh = TRUE, !.subs = subs, !.known = changes, !.pc = "apply"]
<1>1. req[r] \in Request /\ subs \in SUBSET Attempts /\ changes \in 0 .. MaxEvents
  BY ReqTyped DEF IInv, Typed, TypeOK
<1>2. q \in Request
  BY <1>1, ZenonT(30) DEF Request, Phases, Maybe
<1>3. q.pc = "apply" /\ q.want = "webhook" /\ q.subs = subs /\ q.known = changes /\ q.event = req[r].event
  BY <1>1 DEF Request
<1>4. Hears(req[r], changes)
  BY DEF IInv, WebhooksInOrder
<1>5. req[r].event \in 1 .. changes
  BY <1>4 DEF Hears
<1> HIDE DEF q
<1>6. InOrder(q)
  BY <1>3 DEF InOrder
<1>7. Applicable(q)
  BY <1>1, <1>3, <1>5 DEF Applicable, IInv, EventsAreSent
<1>8. Follows(q)
  BY <1>3, <1>5, <1>6, <1>7 DEF Follows, Hears
<1>9. Becomes(r, q)
  BY DEF q
<1> QED BY <1>2, <1>8, <1>9, StepsAlone

LEMMA ListsSteps ==
    ASSUME IInv, NEW r \in Requests, Lists(r)
    PROVE  Steps(r)
<1>1. /\ At(r, "list") /\ ~At(r, "idle") /\ UNCHANGED <<rows, stripe, bounds>>
  BY DEF Lists, At
<1>2. req[r] \in Request /\ subs \in SUBSET Attempts
  BY ReqTyped DEF IInv, Typed, TypeOK
<1>3. CASE /\ req[r].want = "webhook"
           /\ Becomes(r, [[req[r] EXCEPT !.fresh = TRUE, !.subs = subs] EXCEPT !.known = changes, !.pc = "apply"])
  <2>1. [[req[r] EXCEPT !.fresh = TRUE, !.subs = subs] EXCEPT !.known = changes, !.pc = "apply"]
          = [req[r] EXCEPT !.fresh = TRUE, !.subs = subs, !.known = changes, !.pc = "apply"]
    BY <1>2 DEF Request
  <2> QED BY <1>1, <1>3, <2>1, ListsForWebhook
<1>4. ASSUME NEW phase \in {"list", "decide"}, Checkout(r),
             Becomes(r, [[req[r] EXCEPT !.fresh = TRUE, !.subs = subs] EXCEPT !.pc = phase])
      PROVE  Steps(r)
  <2> DEFINE q == [[req[r] EXCEPT !.fresh = TRUE, !.subs = subs] EXCEPT !.pc = phase]
  <2>1. q \in Request
    BY <1>2, ZenonT(30) DEF Request, Phases, Maybe
  <2>2. q.pc = phase /\ q.want = req[r].want /\ q.event = req[r].event
    BY <1>2 DEF Request
  <2>3. Becomes(r, q)
    BY <1>4
  <2> HIDE DEF q
  <2>4. Follows(q)
    BY <1>1, <1>4, <2>1, <2>2, GoesOn
  <2> QED BY <1>1, <2>1, <2>3, <2>4, StepsAlone
<1>5. ASSUME NEW phase \in {"list", "decide"}, Checkout(r),
             Becomes(r, [[req[r] EXCEPT !.fresh = TRUE, !.sessions = ListedStatuses] EXCEPT !.pc = phase])
      PROVE  Steps(r)
  <2> DEFINE q == [[req[r] EXCEPT !.fresh = TRUE, !.sessions = ListedStatuses] EXCEPT !.pc = phase]
  <2>1. q \in Request
    BY <1>2, ListedTyped, ZenonT(30) DEF Request, Phases, Maybe
  <2>2. q.pc = phase /\ q.want = req[r].want /\ q.event = req[r].event
    BY <1>2 DEF Request
  <2>3. Becomes(r, q)
    BY <1>5
  <2> HIDE DEF q
  <2>4. Follows(q)
    BY <1>1, <1>5, <2>1, <2>2, GoesOn
  <2> QED BY <1>1, <2>1, <2>3, <2>4, StepsAlone
<1>6. CASE /\ Checkout(r)
           /\ Becomes(r, [[req[r] EXCEPT !.fresh = TRUE, !.subs = subs]
                            EXCEPT !.pc = IF req[r].sessions = Nothing THEN "list" ELSE "decide"])
  <2>1. CASE req[r].sessions = Nothing
    BY <1>4, <1>6, <2>1
  <2>2. CASE req[r].sessions # Nothing
    BY <1>4, <1>6, <2>2
  <2> QED BY <2>1, <2>2
<1>7. CASE /\ Checkout(r)
           /\ Becomes(r, [[req[r] EXCEPT !.fresh = TRUE, !.sessions = ListedStatuses]
                            EXCEPT !.pc = IF req[r].subs = Nothing THEN "list" ELSE "decide"])
  <2>1. CASE req[r].subs = Nothing
    BY <1>5, <1>7, <2>1
  <2>2. CASE req[r].subs # Nothing
    BY <1>5, <1>7, <2>2
  <2> QED BY <2>1, <2>2
<1> QED BY <1>3, <1>6, <1>7, Zenon DEF Lists

-----------------------------------------------------------------------------
(* What coordinate decides *)

LEMMA Coordinating ==
    ASSUME IInv, NEW r \in Requests, Coordinates(r)
    PROVE  ~At(r, "idle") /\ req[r].want \in Offers
BY ReqTyped DEF Coordinates, At, IInv, Typed, InOrder

\* The account's attempt is one as soon as it is for what is asked.
LEMMA SameHasAttempt ==
    ASSUME IInv, NEW r \in Requests, Same(r), req[r].want \in Offers
    PROVE  user.attempt \in Attempts
BY RowsRight, NothingAssumption DEF UserRight, User, Same, Maybe

LEMMA TurnsToPortalSteps ==
    ASSUME IInv, NEW r \in Requests, TurnsToPortal(r)
    PROVE  Steps(r)
<1> DEFINE q == Enter(r, "portal")
<1>1. /\ ~At(r, "idle") /\ user' = Cleared /\ ops' = Renewed(r) /\ Bumps(r, q)
      /\ UNCHANGED intents /\ UNCHANGED <<recorded, stripe, bounds>>
  BY Coordinating DEF TurnsToPortal
<1>2. q \in Request /\ Follows(q)
  BY <1>1, EntersPlain DEF Plain, Phases
<1> HIDE DEF q
<1>3. UserRight(user') /\ OpsRight(ops') /\ intents' \in SUBSET Attempts
  BY <1>1, NewUserRight, RenewedRight, AllTyped DEF RowsTyped, Maybe
<1> QED BY <1>1, <1>2, <1>3, StepsWriting

LEMMA ReusesSteps ==
    ASSUME IInv, NEW r \in Requests, Reuses(r)
    PROVE  Steps(r)
<1> DEFINE a == user.attempt
           q == [Enter(r, "complete") EXCEPT !.attempt = a]
<1>1. /\ ~At(r, "idle") /\ Same(r) /\ req[r].want \in Offers
  BY Coordinating DEF Reuses, Undisturbed
<1>2. /\ user' = [user EXCEPT !.session = a] /\ ops' = RenewedFor(r, a) /\ Bumps(r, q)
      /\ UNCHANGED intents /\ UNCHANGED <<recorded, stripe, bounds>>
  BY DEF Reuses
<1>3. a \in Attempts
  BY <1>1, SameHasAttempt
<1>4. q \in Request /\ Follows(q)
  BY <1>1, <1>3, EntersAttempt
<1> HIDE DEF q
<1>5. UserRight(user') /\ OpsRight(ops') /\ intents' \in SUBSET Attempts
  BY <1>2, <1>3, NewUserRight, RenewedForRight, AllTyped DEF RowsTyped, Maybe
<1> QED BY <1>2, <1>4, <1>5, StepsWriting

LEMMA NewAttemptWritten ==
    ASSUME IInv, NEW r \in Requests, req[r].want \in Offers, NEW a \in Attempts,
           NEW s \in Maybe(Attempts), NewAttemptFor(r, a, s)
    PROVE  UserRight(user') /\ OpsRight(ops') /\ SessionsRight(session')
BY NewAttemptRight, RenewedForRight, SessionChanged, UncreatedTyped DEF NewAttemptFor

LEMMA ExpireFollows ==
    ASSUME IInv, NEW r \in Requests, ~At(r, "idle"), req[r].want \in Offers, NEW a \in Attempts,
           NEW t \in Maybe(Attempts)
    PROVE  Expire(r, a, t) \in Request /\ Follows(Expire(r, a, t))
<1> DEFINE first == [Enter(r, "expire") EXCEPT !.attempt = a, !.target = t]
           last == [Enter(r, "create") EXCEPT !.attempt = a, !.offer = req[r].want]
<1>1. Expire(r, a, t) \in {first, last, Enter(r, "complete")}
  BY DEF Expire
<1>2. first \in Request /\ Follows(first)
  BY EntersExpire DEF Maybe
<1>3. last \in Request /\ Follows(last)
  BY EntersCreation
<1>4. Enter(r, "complete") \in Request /\ Follows(Enter(r, "complete"))
  BY EntersPlain DEF Plain, Phases
<1> HIDE DEF first, last
<1> QED BY <1>1, <1>2, <1>3, <1>4

LEMMA SupersedesSteps ==
    ASSUME IInv, NEW r \in Requests, Supersedes(r)
    PROVE  Steps(r)
<1>1. /\ ~At(r, "idle") /\ req[r].want \in Offers
      /\ UNCHANGED intents /\ UNCHANGED <<recorded, subs, changes, events, late, bounds>>
  BY Coordinating DEF Supersedes, NotReused, Undisturbed
<1>2. PICK a \in Attempts, known \in KnownSession(r) : NewAttemptFor(r, a, known) /\ Bumps(r, Expire(r, a, known))
  BY DEF Supersedes
<1>3. known \in Maybe(Attempts)
  BY DEF KnownSession, AttemptSession, PersistedSession, Listed, Maybe
<1> DEFINE q == Expire(r, a, known)
<1>4. q \in Request /\ Follows(q)
  BY <1>1, <1>3, ExpireFollows
<1>5. Bumps(r, q)
  BY <1>2
<1> HIDE DEF q
<1>6. UserRight(user') /\ OpsRight(ops') /\ SessionsRight(session')
  BY <1>1, <1>2, <1>3, NewAttemptWritten
<1>7. intents' \in SUBSET Attempts
  BY <1>1, AllTyped DEF RowsTyped
<1> QED BY <1>1, <1>4, <1>5, <1>6, <1>7, StepsChanging

LEMMA ExpiresFirstSteps ==
    ASSUME IInv, NEW r \in Requests, ExpiresFirst(r)
    PROVE  Steps(r)
<1> DEFINE a == user.attempt
           q == Expire(r, a, user.session)
<1>1. /\ ~At(r, "idle") /\ Same(r) /\ req[r].want \in Offers
  BY Coordinating DEF ExpiresFirst, NotReused, Undisturbed
<1>2. /\ ops' = RenewedFor(r, a) /\ Becomes(r, q)
      /\ UNCHANGED <<user, intents>> /\ UNCHANGED <<recorded, stripe, bounds>>
  BY DEF ExpiresFirst
<1>3. a \in Attempts /\ user.session \in Maybe(Attempts)
  BY <1>1, SameHasAttempt, RowsRight DEF UserRight, User
<1>4. q \in Request /\ Follows(q)
  BY <1>1, <1>3, ExpireFollows
<1> HIDE DEF q
<1>5. UserRight(user') /\ OpsRight(ops') /\ intents' \in SUBSET Attempts
  BY <1>2, <1>3, RenewedForRight, AllTyped DEF RowsTyped, UserRight
<1> QED BY <1>2, <1>4, <1>5, StepsWriting

LEMMA ToCreateFollows ==
    ASSUME IInv, NEW r \in Requests, ~At(r, "idle"), req[r].want \in Offers, NEW a \in Attempts
    PROVE  ToCreate(r, a) \in Request /\ Follows(ToCreate(r, a))
<1> DEFINE q == [Enter(r, "create") EXCEPT !.attempt = a, !.offer = req[r].want]
<1>1. q \in Request /\ Follows(q)
  BY EntersCreation
<1>2. ToCreate(r, a) = q
  BY DEF ToCreate
<1> HIDE DEF q
<1> QED BY <1>1, <1>2

LEMMA ProceedsSteps ==
    ASSUME IInv, NEW r \in Requests, Proceeds(r)
    PROVE  Steps(r)
<1> DEFINE a == user.attempt
           q == ToCreate(r, a)
<1>1. /\ ~At(r, "idle") /\ Same(r) /\ req[r].want \in Offers
  BY Coordinating DEF Proceeds, NotReused, Undisturbed
<1>2. /\ ops' = RenewedFor(r, a) /\ Becomes(r, q)
      /\ UNCHANGED <<user, intents>> /\ UNCHANGED <<recorded, stripe, bounds>>
  BY DEF Proceeds
<1>3. a \in Attempts
  BY <1>1, SameHasAttempt
<1>4. q \in Request /\ Follows(q)
  BY <1>1, <1>3, ToCreateFollows
<1> HIDE DEF q
<1>5. UserRight(user') /\ OpsRight(ops') /\ intents' \in SUBSET Attempts
  BY <1>2, <1>3, RenewedForRight, AllTyped DEF RowsTyped, UserRight
<1> QED BY <1>2, <1>4, <1>5, StepsWriting

LEMMA StartsAnewSteps ==
    ASSUME IInv, NEW r \in Requests, StartsAnew(r)
    PROVE  Steps(r)
<1>1. /\ ~At(r, "idle") /\ req[r].want \in Offers
      /\ UNCHANGED intents /\ UNCHANGED <<recorded, subs, changes, events, late, bounds>>
  BY Coordinating DEF StartsAnew, NotReused, Undisturbed
<1>2. PICK a \in Attempts : NewAttemptFor(r, a, Nothing) /\ Bumps(r, ToCreate(r, a))
  BY DEF StartsAnew
<1> DEFINE q == ToCreate(r, a)
<1>3. q \in Request /\ Follows(q)
  BY <1>1, ToCreateFollows
<1>4. Bumps(r, q)
  BY <1>2
<1> HIDE DEF q
<1>5. UserRight(user') /\ OpsRight(ops') /\ SessionsRight(session')
  BY <1>1, <1>2, NewAttemptWritten DEF Maybe
<1>6. intents' \in SUBSET Attempts
  BY <1>1, AllTyped DEF RowsTyped
<1> QED BY <1>1, <1>3, <1>4, <1>5, <1>6, StepsChanging

LEMMA RefusesSteps ==
    ASSUME IInv, NEW r \in Requests, Refuses(r)
    PROVE  Steps(r)
<1>1. ~At(r, "idle") /\ Becomes(r, Enter(r, "complete")) /\ UNCHANGED <<rows, stripe, bounds>>
  BY Coordinating DEF Refuses
<1>2. Enter(r, "complete") \in Request /\ Follows(Enter(r, "complete"))
  BY <1>1, EntersPlain DEF Plain, Phases
<1> QED BY <1>1, <1>2, StepsAlone

LEMMA ExpiresSteps ==
    ASSUME IInv, NEW r \in Requests, Expires(r)
    PROVE  Steps(r)
<1> DEFINE s == req[r].target
           next == [Enter(r, "list") EXCEPT !.again = TRUE, !.target = req[r].attempt]
           q == Enter(r, "complete")
<1>1. /\ ~At(r, "idle") /\ UNCHANGED <<user, ops, intents>>
      /\ UNCHANGED <<recorded, subs, changes, events, late, asked, clock, deaths>>
  BY DEF Expires, At, rows
<1>2. s \in Maybe(Attempts) /\ req[r].attempt \in Maybe(Attempts)
  BY ReqFields DEF IInv, Typed
<1>3. session' = session \/ session' = [session EXCEPT ![s].status = "expired"]
  BY DEF Expires
<1>4. SessionsRight(session')
  BY <1>2, <1>3, RowsRight, StatusRight DEF Statuses
<1>5. next \in Request /\ Follows(next) /\ q \in Request /\ Follows(q)
  BY <1>1, <1>2, EntersList, EntersPlain DEF Plain, Phases
<1>6. Becomes(r, next) \/ Becomes(r, q)
  BY DEF Expires
<1>7. UNCHANGED faults \/ Fault
  BY DEF Expires
<1> HIDE DEF next, q
<1>8. Moves(r)
  BY <1>5, <1>6 DEF Moves
<1>9. RowsTyped' /\ Settled
  BY <1>1, RowsKept DEF Settled
<1>10. Counted'
  BY <1>1, <1>7, FaultCounted, CountsKept DEF bounds
<1>11. StripeTyped'
  BY <1>1, <1>4, AllTyped DEF StripeTyped, SessionsRight
<1> QED BY <1>8, <1>9, <1>10, <1>11 DEF Steps

LEMMA OpensPortalSteps ==
    ASSUME IInv, NEW r \in Requests, OpensPortal(r)
    PROVE  Steps(r)
<1>1. ~At(r, "idle") /\ UNCHANGED <<rows, stripe, asked, clock, deaths>>
  BY DEF OpensPortal, At
<1>2. /\ Enter(r, "complete") \in Request /\ Follows(Enter(r, "complete"))
      /\ Enter(r, "uncertain") \in Request /\ Follows(Enter(r, "uncertain"))
  BY <1>1, EntersPlain DEF Plain, Phases
<1>3. CASE Becomes(r, Enter(r, "complete")) /\ UNCHANGED faults
  BY <1>1, <1>2, <1>3, StepsAlone DEF bounds
<1>4. CASE Fault /\ Becomes(r, Enter(r, "uncertain"))
  BY <1>1, <1>2, <1>4, StepsFailing
<1> QED BY <1>3, <1>4 DEF OpensPortal

-----------------------------------------------------------------------------
(* createPortal *)

LEMMA ReservesPortalSteps ==
    ASSUME IInv, NEW r \in Requests, ReservesPortal(r)
    PROVE  Steps(r)
<1> DEFINE q == Enter(r, "renew")
<1>1. /\ ~At(r, "idle") /\ UNCHANGED <<user, intents>> /\ UNCHANGED <<recorded, stripe, bounds>>
      /\ \/ \E i \in Operations : ops' = [ops EXCEPT ![i] = Row(r, "portal", Nothing, Nothing)] /\ Bumps(r, q)
         \/ ops' = ops /\ Becomes(r, Idle)
  BY DEF ReservesPortal, At
<1>2. OpsRight(ops')
  BY <1>1, PortalRowMade, RowAdded, RowsRight
<1>3. UserRight(user') /\ intents' \in SUBSET Attempts
  BY <1>1, AllTyped DEF RowsTyped, UserRight
<1>4. q \in Request /\ Follows(q)
  BY <1>1, EntersPlain DEF Plain, Phases
<1> HIDE DEF q
<1> QED BY <1>1, <1>2, <1>3, <1>4, IdleFollows, StepsWriting

LEMMA RenewsFenceSteps ==
    ASSUME IInv, NEW r \in Requests, RenewsFence(r)
    PROVE  Steps(r)
<1> DEFINE q == Enter(r, "portal")
<1>1. /\ ~At(r, "idle") /\ UNCHANGED <<user, intents>> /\ UNCHANGED <<recorded, stripe, bounds>>
      /\ ops' = Renewed(r) /\ (Becomes(r, Idle) \/ Becomes(r, q))
  BY DEF RenewsFence, At
<1>2. OpsRight(ops')
  BY <1>1, RenewedRight
<1>3. UserRight(user') /\ intents' \in SUBSET Attempts
  BY <1>1, AllTyped DEF RowsTyped, UserRight
<1>4. q \in Request /\ Follows(q)
  BY <1>1, EntersPlain DEF Plain, Phases
<1> HIDE DEF q
<1> QED BY <1>1, <1>2, <1>3, <1>4, IdleFollows, StepsWriting

-----------------------------------------------------------------------------
(* The invariant is kept *)

LEMMA StateTyped ==
    ASSUME RowsTyped', StripeTyped', Counted', RequestsInOrder', deleted' \in BOOLEAN,
           recorded' \in [paid : BOOLEAN, known : 0 .. MaxEvents], subs' \subseteq Attempts,
           events' \subseteq 1 .. changes'
    PROVE  Typed'
<1>1. /\ clock' \in 0 .. MaxEvents /\ faults' \in 0 .. MaxEvents /\ deaths' \in 0 .. MaxEvents
      /\ changes' \in 0 .. MaxEvents /\ changes' + clock' + faults' + deaths' <= MaxEvents
      /\ asked' \in 0 .. MaxAsked
  BY BoundAssumption DEF Counted
<1>2. events' \subseteq 1 .. MaxEvents
  BY <1>1, BoundAssumption
<1>3. \A s \in Requests : req'[s].pc \in Phases
  <2>1. req' \in [Requests -> Request]
    BY DEF RequestsInOrder
  <2> QED BY <2>1 DEF Request
<1>4. TypeOK'
  BY <1>1, <1>2, <1>3 DEF TypeOK, RowsTyped, StripeTyped, UserRight, OpsRight, SessionsRight
<1>5. RowsInOrder'
  BY DEF RowsInOrder, UserInOrder, RowsTyped, UserRight, OpsRight
<1> QED BY <1>4, <1>5 DEF Typed

LEMMA RecordedTyped ==
    ASSUME IInv
    PROVE  /\ recorded \in [paid : BOOLEAN, known : 0 .. MaxEvents] /\ subs \in SUBSET Attempts
           /\ events \subseteq 1 .. changes /\ changes \in Nat
BY AllTyped DEF IInv, Typed, TypeOK, EventsAreSent, Counted

LEMMA RequestsTyped ==
    ASSUME IInv, NEW r \in Requests, Moves(r)
    PROVE  RequestsInOrder'
<1>1. PICK q \in Request : Follows(q) /\ (Becomes(r, q) \/ Bumps(r, q))
  BY DEF Moves
<1> QED BY <1>1, BecomesTyped, BumpsTyped DEF IInv, Typed, Follows

\* A request that does not move remembers the same, or that it is outdated.
LEMMA OthersMove ==
    ASSUME IInv, NEW r \in Requests, NEW q \in Request, Becomes(r, q) \/ Bumps(r, q), NEW s \in Requests
    PROVE  \/ s = r /\ req'[s] = q
           \/ s # r /\ req'[s] \in {req[s], Dull(req[s])}
BY DEF Becomes, Bumps, IInv, Typed, RequestsInOrder

LEMMA DullHears ==
    ASSUME IInv, NEW s \in Requests
    PROVE  /\ Dull(req[s]).want = req[s].want /\ Dull(req[s]).event = req[s].event
           /\ Dull(req[s]).fresh = FALSE
<1>1. req[s] \in Request
  BY ReqTyped DEF IInv, Typed
<1> QED BY <1>1 DEF Dull, Request

LEMMA StepsConverge ==
    ASSUME IInv, NEW r \in Requests, Moves(r), Settled
    PROVE  WebhooksInOrder' /\ EventsAreSent'
<1>1. PICK q \in Request : Follows(q) /\ (Becomes(r, q) \/ Bumps(r, q))
  BY DEF Moves
<1>2. EventsAreSent'
  BY DEF IInv, EventsAreSent, Settled
<1>3. ASSUME NEW s \in Requests
      PROVE  Hears(req'[s], changes')
  <2>1. Hears(req[s], changes) /\ Hears(q, changes) /\ changes' = changes
    BY <1>1 DEF IInv, WebhooksInOrder, Follows, Settled
  <2>2. Hears(Dull(req[s]), changes)
    BY <2>1, DullHears DEF Hears
  <2> QED BY <1>1, <2>1, <2>2, OthersMove
<1>4. ASSUME NEW s \in Requests, NEW x, x = req'[s], x.pc = "apply", x.fresh
      PROVE  Applicable(x)'
  <2>1. Applicable(x)
    <3>1. CASE x = q
      BY <1>1, <1>4, <3>1 DEF Follows
    <3>2. CASE x = req[s]
      BY <1>4, <3>2 DEF IInv, WebhooksInOrder
    <3>3. CASE x = Dull(req[s])
      BY <1>4, <3>3, DullHears
    <3> QED BY <1>1, <1>4, <3>1, <3>2, <3>3, OthersMove
  <2> QED BY <2>1 DEF Applicable, Settled
<1>5. \A s \in Requests : Hears(req[s], changes)'
  BY <1>3 DEF Hears
<1>6. \A s \in Requests : req'[s].pc = "apply" /\ req'[s].fresh => Applicable(req[s])'
  BY <1>4 DEF Applicable
<1> QED BY <1>2, <1>5, <1>6 DEF WebhooksInOrder

LEMMA StepsKeep ==
    ASSUME IInv, NEW r \in Requests, Steps(r), deleted' \in BOOLEAN
    PROVE  IInv'
<1>1. /\ Moves(r) /\ RowsTyped' /\ StripeTyped' /\ Counted' /\ Settled
  BY DEF Steps
<1>2. RequestsInOrder'
  BY <1>1, RequestsTyped
<1>3. /\ recorded' \in [paid : BOOLEAN, known : 0 .. MaxEvents] /\ subs' \subseteq Attempts
      /\ events' \subseteq 1 .. changes'
  BY <1>1, RecordedTyped DEF Settled
<1>4. Typed'
  BY <1>1, <1>2, <1>3, StateTyped
<1>5. WebhooksInOrder' /\ EventsAreSent'
  BY <1>1, StepsConverge
<1> QED BY <1>4, <1>5 DEF IInv

\* What is recorded is no older than what was, and tells of the change; any
\* other snapshot is outdated.
LEMMA AppliesKeeps ==
    ASSUME IInv, NEW r \in Requests, Applies(r), deleted' \in BOOLEAN
    PROVE  IInv' /\ recorded'.known >= recorded.known
<1> DEFINE q == req[r]
<1>1. /\ q.pc = "apply" /\ q.fresh
      /\ recorded' = [paid |-> q.subs # {}, known |-> q.known]
      /\ user' = (IF q.subs = {} THEN user ELSE Cleared)
      /\ events' = events \ {q.event} /\ Bumps(r, Idle)
      /\ UNCHANGED <<ops, intents>> /\ UNCHANGED <<session, late>> /\ UNCHANGED <<subs, changes>>
      /\ UNCHANGED bounds
  BY DEF Applies, At
<1>2. q \in Request /\ q.known \in 0 .. MaxEvents /\ q.event \in 0 .. MaxEvents
  BY ReqTyped, ReqFields DEF IInv, Typed
<1>3. /\ q.subs \in SUBSET Attempts /\ recorded.known <= q.known /\ q.known <= changes /\ q.event <= q.known
      /\ q.known = changes => (q.subs = {} <=> subs = {})
  BY <1>1 DEF IInv, WebhooksInOrder, Applicable
<1> HIDE DEF q
<1>4. Moves(r)
  BY <1>1, IdleFollows DEF Moves
<1>5. RowsTyped'
  BY <1>1, AllTyped, NewUserRight DEF RowsTyped, UserRight, OpsRight, Maybe
<1>6. StripeTyped' /\ Counted'
  BY <1>1, StripeKept, CountsKept
<1>7. recorded' \in [paid : BOOLEAN, known : 0 .. MaxEvents]
  BY <1>1, <1>2
<1>8. subs' \subseteq Attempts /\ events' \subseteq 1 .. changes'
  BY <1>1, RecordedTyped
<1>9. Typed'
  BY <1>4, <1>5, <1>6, <1>7, <1>8, StateTyped, RequestsTyped
<1>10. recorded'.known = q.known /\ (recorded'.paid <=> q.subs # {})
  BY <1>1
<1>11. recorded \in [paid : BOOLEAN, known : 0 .. MaxEvents] /\ changes \in Nat /\ recorded.known \in Nat
  BY RecordedTyped
<1>12. EventsAreSent'
  <2>1. q.known = changes => (recorded'.paid <=> subs # {})
    BY <1>3, <1>10
  <2>2. ASSUME NEW k \in 1 .. changes, k > q.known
        PROVE  k \in events'
    <3>1. k > recorded.known /\ k # q.event
      BY <1>2, <1>3, <1>11, <2>2
    <3> QED BY <1>1, <3>1 DEF IInv, EventsAreSent
  <2> QED BY <1>1, <1>3, <1>8, <1>10, <2>1, <2>2 DEF EventsAreSent
<1>13. ASSUME NEW s \in Requests
       PROVE  Hears(req'[s], changes') /\ (req'[s].pc = "apply" => req'[s].fresh = FALSE)
  <2>1. req'[s] = (IF s = r THEN Idle ELSE Dull(req[s]))
    BY <1>1 DEF Bumps
  <2>2. Hears(Idle, changes) /\ Idle.pc = "idle"
    BY IdleFollows DEF Follows, Idle
  <2>3. Hears(Dull(req[s]), changes) /\ Dull(req[s]).fresh = FALSE
    BY DullHears DEF Hears, IInv, WebhooksInOrder
  <2> QED BY <1>1, <2>1, <2>2, <2>3
<1>14. WebhooksInOrder'
  BY <1>13 DEF WebhooksInOrder
<1> QED BY <1>3, <1>9, <1>10, <1>11, <1>12, <1>14, <1>2 DEF IInv

\* A change of the rows and of Stripe's sessions that no request makes.
LEMMA WorldKeeps ==
    ASSUME IInv, RowsTyped', StripeTyped', Counted', UNCHANGED req, Settled, deleted' \in BOOLEAN
    PROVE  IInv'
<1>1. RequestsInOrder'
  BY DEF IInv, Typed, RequestsInOrder, InOrder
<1>2. /\ recorded' \in [paid : BOOLEAN, known : 0 .. MaxEvents] /\ subs' \subseteq Attempts
      /\ events' \subseteq 1 .. changes'
  BY RecordedTyped DEF Settled
<1>3. Typed'
  BY <1>1, <1>2, StateTyped
<1>4. WebhooksInOrder' /\ EventsAreSent'
  BY DEF IInv, WebhooksInOrder, EventsAreSent, Hears, Applicable, Settled
<1> QED BY <1>3, <1>4 DEF IInv

LEMMA LeaseExpiresKeeps ==
    ASSUME IInv, NEW i \in Operations, LeaseExpires(i), deleted' \in BOOLEAN
    PROVE  IInv'
<1>1. /\ ops[i] # Nothing /\ ops' = [ops EXCEPT ![i].live = FALSE] /\ (UNCHANGED deaths \/ Death)
      /\ UNCHANGED <<user, intents>> /\ UNCHANGED <<recorded, req, stripe>> /\ UNCHANGED <<asked, clock, faults>>
  BY DEF LeaseExpires
<1> DEFINE row == [ops[i] EXCEPT !.live = FALSE]
<1>2. ops[i] \in Operation /\ RowInOrder(ops[i])
  BY <1>1, RowsRight, RowTyped
<1>3. row \in Operation /\ RowInOrder(row)
  BY <1>2, RowGoesOn DEF Maybe
<1>4. ops' = [ops EXCEPT ![i] = row]
  BY <1>1, <1>2, RowsRight DEF OpsRight, Operation
<1> HIDE DEF row
<1>5. OpsRight(ops')
  BY <1>3, <1>4, RowAdded
<1>6. RowsTyped' /\ StripeTyped' /\ Settled
  BY <1>1, <1>5, AllTyped, StripeKept DEF RowsTyped, UserRight, OpsRight, stripe, Settled
<1>7. Counted'
  BY <1>1, DeathCounted, CountsKept DEF bounds, stripe
<1> QED BY <1>1, <1>6, <1>7, WorldKeeps

\* Stripe has one change more, and its event is to be sent.
LEMMA ChangeKeeps ==
    ASSUME IInv, Happens, changes' = changes + 1, events' = events \cup {changes'}, subs' \in SUBSET Attempts,
           SessionsRight(session'), UNCHANGED <<rows, req, late, bounds>>, deleted' \in BOOLEAN
    PROVE  IInv' /\ recorded' = recorded
<1>1. changes \in Nat /\ events \subseteq 1 .. changes /\ recorded \in [paid : BOOLEAN, known : 0 .. MaxEvents]
  BY RecordedTyped
<1>2. recorded.known <= changes /\ recorded.known \in Nat
  BY <1>1 DEF IInv, EventsAreSent
<1>3. RowsTyped' /\ StripeTyped'
  BY AllTyped, RowsKept DEF StripeTyped, SessionsRight, rows
<1>4. Counted'
  BY AllTyped, BoundAssumption DEF Counted, Happens, bounds
<1>5. RequestsInOrder'
  BY DEF IInv, Typed, RequestsInOrder, InOrder
<1>6. events' \subseteq 1 .. changes'
  BY <1>1
<1>7. Typed'
  BY <1>1, <1>3, <1>4, <1>5, <1>6, StateTyped DEF rows
<1>8. EventsAreSent'
  <2>1. recorded'.known <= changes' /\ recorded'.known # changes'
    BY <1>1, <1>2 DEF rows
  <2>2. ASSUME NEW k \in 1 .. changes', k > recorded.known
        PROVE  k \in events'
    <3>1. k = changes' \/ k \in 1 .. changes
      BY <1>1
    <3> QED BY <2>2, <3>1 DEF IInv, EventsAreSent
  <2> QED BY <1>6, <2>1, <2>2 DEF EventsAreSent, rows
<1>9. ASSUME NEW s \in Requests
      PROVE  Hears(req[s], changes')
  BY <1>1 DEF IInv, WebhooksInOrder, Hears
<1>10. ASSUME NEW s \in Requests, req[s].pc = "apply", req[s].fresh
       PROVE  Applicable(req[s])'
  <2>1. req[s].known \in Nat /\ req[s].event \in Nat
    BY ReqFields DEF IInv, Typed
  <2>2. Applicable(req[s])
    BY <1>10 DEF IInv, WebhooksInOrder
  <2>3. req[s].known <= changes' /\ req[s].known # changes'
    BY <1>1, <2>1, <2>2 DEF Applicable
  <2> QED BY <2>2, <2>3 DEF Applicable, rows
<1>11. WebhooksInOrder'
  BY <1>9, <1>10 DEF WebhooksInOrder, Hears
<1> QED BY <1>7, <1>8, <1>11 DEF IInv, rows

LEMMA PaysKeeps ==
    ASSUME IInv, NEW a \in Attempts, Pays(a), deleted' \in BOOLEAN
    PROVE  IInv' /\ recorded' = recorded
<1>1. SessionsRight(session')
  BY StatusRight DEF Pays, Statuses, Maybe
<1>2. subs' \in SUBSET Attempts
  BY RecordedTyped DEF Pays
<1> QED BY <1>1, <1>2, ChangeKeeps DEF Pays

LEMMA EndsKeeps ==
    ASSUME IInv, NEW a \in Attempts, Ends(a), deleted' \in BOOLEAN
    PROVE  IInv' /\ recorded' = recorded
<1>1. SessionsRight(session')
  BY RowsRight DEF Ends
<1>2. subs' \in SUBSET Attempts
  BY RecordedTyped DEF Ends
<1> QED BY <1>1, <1>2, ChangeKeeps DEF Ends

LEMMA ArrivesLateKeeps ==
    ASSUME IInv, NEW call \in late, ArrivesLate(call), deleted' \in BOOLEAN
    PROVE  IInv'
<1>1. call.attempt \in Attempts /\ call.offer \in Offers
  BY AllTyped DEF StripeTyped
<1>2. SessionsRight(session')
  BY <1>1, RowsRight, CreatedRight DEF ArrivesLate
<1>3. late' \in SUBSET [attempt : Attempts, offer : Offers]
  BY AllTyped DEF StripeTyped, ArrivesLate
<1>4. UNCHANGED <<user, ops, intents>> /\ UNCHANGED req /\ Settled /\ UNCHANGED <<bounds, changes>>
  BY DEF ArrivesLate, rows, Settled
<1>5. RowsTyped' /\ StripeTyped' /\ Counted'
  BY <1>2, <1>3, <1>4, RowsKept, CountsKept DEF StripeTyped, SessionsRight
<1> QED BY <1>4, <1>5, WorldKeeps

LEMMA OlderTyped ==
    ASSUME NEW age \in 0 .. Day
    PROVE  Older(age) \in 0 .. Day
BY BoundAssumption DEF Older

LEMMA HoursPassKeeps ==
    ASSUME IInv, HoursPass, deleted' \in BOOLEAN
    PROVE  IInv'
<1>1. UserRight(user')
  <2> DEFINE u == [user EXCEPT !.age = Older(user.age)]
  <2>1. user \in User /\ (user.attempt = Nothing <=> user.offer = Nothing)
    BY RowsRight DEF UserRight
  <2>2. Older(user.age) \in 0 .. Day
    BY <2>1, OlderTyped DEF User
  <2>3. u \in User
    BY <2>1, <2>2, Zenon DEF User
  <2>4. u.attempt = user.attempt /\ u.offer = user.offer
    BY <2>1 DEF User
  <2>5. user' = user \/ user' = u
    BY DEF HoursPass
  <2> HIDE DEF u
  <2> QED BY <2>1, <2>3, <2>4, <2>5 DEF UserRight
<1>2. OpsRight(ops')
  <2>1. ASSUME NEW i \in Operations, ops[i] # Nothing
        PROVE  /\ [ops[i] EXCEPT !.age = Older(ops[i].age), !.live = FALSE] \in Operation
               /\ RowInOrder([ops[i] EXCEPT !.age = Older(ops[i].age), !.live = FALSE])
    <3> DEFINE row == [ops[i] EXCEPT !.age = Older(ops[i].age), !.live = FALSE]
    <3>1. ops[i] \in Operation /\ RowInOrder(ops[i])
      BY <2>1, RowsRight, RowTyped
    <3>2. Older(ops[i].age) \in 0 .. Day
      BY <3>1, OlderTyped DEF Operation
    <3>3. row \in Operation
      BY <3>1, <3>2, Zenon DEF Operation
    <3>4. row.kind = ops[i].kind /\ row.attempt = ops[i].attempt /\ row.offer = ops[i].offer
      BY <3>1 DEF Operation
    <3> HIDE DEF row
    <3>5. RowInOrder(row)
      BY <3>1, <3>4 DEF RowInOrder
    <3> QED BY <3>3, <3>5 DEF row
  <2>2. ops' = [i \in Operations |-> IF ops[i] = Nothing THEN Nothing
                                     ELSE [ops[i] EXCEPT !.age = Older(ops[i].age), !.live = FALSE]]
    BY DEF HoursPass, FreeRow
  <2> QED BY <2>1, <2>2 DEF OpsRight, Maybe
<1>3. SessionsRight(session')
  <2> DEFINE New(a) == IF session[a].status = "none" THEN Uncreated
                       ELSE [session[a] EXCEPT !.age = Older(session[a].age),
                               !.status = IF session[a].status = "open" /\ Older(session[a].age) = Day
                                          THEN "expired" ELSE session[a].status]
  <2>1. ASSUME NEW a \in Attempts
        PROVE  New(a) \in Session
    <3>1. session[a] \in Session
      BY RowsRight DEF SessionsRight
    <3>2. Older(session[a].age) \in 0 .. Day
      BY <3>1, OlderTyped DEF Session
    <3>3. ASSUME NEW s \in Statuses
          PROVE  [session[a] EXCEPT !.age = Older(session[a].age), !.status = s] \in Session
      BY <3>1, <3>2, Zenon DEF Session
    <3>4. session[a].status \in Statuses /\ "expired" \in Statuses
      BY <3>1 DEF Session, Statuses
    <3> QED BY <3>3, <3>4, UncreatedTyped
  <2>2. session' = [a \in Attempts |-> New(a)]
    BY DEF HoursPass
  <2> HIDE DEF New
  <2> QED BY <2>1, <2>2 DEF SessionsRight
<1>4. /\ UNCHANGED <<intents, recorded, req, subs, changes, events, asked, faults, deaths>>
      /\ late' = {} /\ clock' = clock + 1 /\ Happens
  BY DEF HoursPass
<1>5. RowsTyped' /\ StripeTyped' /\ Settled
  BY <1>1, <1>2, <1>3, <1>4, AllTyped DEF RowsTyped, StripeTyped, UserRight, OpsRight, SessionsRight, Settled
<1>6. Counted'
  BY <1>4, AllTyped, BoundAssumption DEF Counted, Happens
<1> QED BY <1>4, <1>5, <1>6, WorldKeeps

-----------------------------------------------------------------------------
(* All steps *)

LEMMA ReconciliationSteps ==
    ASSUME IInv, NEW r \in Requests, Reconciliation(r)
    PROVE  Steps(r)
BY NothingExpiredSteps, ListsSessionsSteps, ReconcilesSteps, RecoversPortalSteps, KeepsRecoveredSteps,
   CleanedUpSteps, RetiresSteps, UnlistsSteps, ChecksOwnerSteps DEF Reconciliation

LEMMA CoordinationSteps ==
    ASSUME IInv, NEW r \in Requests, Coordination(r)
    PROVE  Steps(r)
BY ListsSteps, TurnsToPortalSteps, ReusesSteps, SupersedesSteps, ExpiresFirstSteps, ProceedsSteps,
   StartsAnewSteps, RefusesSteps, ExpiresSteps DEF Coordination

LEMMA WorkSteps ==
    ASSUME IInv, NEW r \in Requests, Work(r), ~Applies(r)
    PROVE  Steps(r)
<1>1. CASE Creation(r)
  BY <1>1, CreatesSteps, CreateRefusedSteps, CreateUnknownSteps, KeepsCreatedSteps DEF Creation
<1>2. CASE Reservation(r)
  BY <1>2, ReservesSteps, NotReservedSteps, EnsuresCustomerSteps, ReservesPortalSteps, RenewsFenceSteps
     DEF Reservation
<1>3. CASE Ending(r)
  BY <1>3, CompletesSteps, MarksUncertainSteps, OpensPortalSteps, OutdatedSteps DEF Ending
<1> QED BY <1>1, <1>2, <1>3, ReconciliationSteps, CoordinationSteps DEF Work

\* What is recorded only becomes newer.
GoesForward == recorded' = recorded \/ recorded'.known >= recorded.known

LEMMA InitRight == Init => IInv
<1> SUFFICES ASSUME Init PROVE IInv
  OBVIOUS
<1>1. 0 \in 0 .. MaxEvents /\ 0 \in 0 .. MaxAsked /\ 0 \in 0 .. Day
  BY BoundAssumption
<1>2. user \in User
  BY <1>1, Zenon DEF Init, User, Maybe
<1>3. ops \in [Operations -> Maybe(Operation)]
  BY Zenon DEF Init, Maybe
<1>4. session \in [Attempts -> Session]
  BY UncreatedTyped DEF Init
<1>5. recorded \in [paid : BOOLEAN, known : 0 .. MaxEvents]
  BY <1>1, Zenon DEF Init
<1>6. RequestsInOrder
  BY IdleTyped DEF Init, RequestsInOrder
<1>7. \A r \in Requests : req[r].pc \in Phases
  BY <1>6 DEF RequestsInOrder, Request
<1>8. changes + clock + faults + deaths <= MaxEvents /\ {clock, faults, deaths} \subseteq 0 .. MaxEvents
  BY <1>1 DEF Init
<1>9. TypeOK
  BY <1>1, <1>2, <1>3, <1>4, <1>5, <1>7, <1>8 DEF TypeOK, Init
<1>10. RowsInOrder
  BY DEF Init, RowsInOrder, UserInOrder
<1>11. WebhooksInOrder
  <2>1. \A r \in Requests : req[r].want = "none" /\ req[r].pc = "idle"
    BY DEF Init, Idle
  <2> QED BY <2>1 DEF WebhooksInOrder, Hears
<1>12. EventsAreSent
  BY DEF Init, EventsAreSent
<1> QED BY <1>6, <1>9, <1>10, <1>11, <1>12 DEF IInv, Typed

LEMMA StepRight == IInv /\ [Next]_vars => IInv' /\ GoesForward
<1> SUFFICES ASSUME IInv, [Next]_vars PROVE IInv' /\ GoesForward
  OBVIOUS
<1>0. deleted \in BOOLEAN
  BY DEF IInv, Typed, TypeOK
<1>1. CASE UNCHANGED vars
  <2>1. /\ UNCHANGED <<user, ops, intents>> /\ UNCHANGED <<session, late>> /\ UNCHANGED <<bounds, changes>>
        /\ UNCHANGED req /\ Settled /\ deleted' = deleted
    BY <1>1 DEF vars, bounds, Settled
  <2> QED BY <1>0, <2>1, RowsKept, StripeKept, CountsKept, WorldKeeps DEF GoesForward, Settled
<1>2. CASE DeletesUser
  <2>1. /\ UNCHANGED <<user, ops, intents>> /\ UNCHANGED <<session, late>> /\ UNCHANGED <<bounds, changes>>
        /\ UNCHANGED req /\ Settled /\ deleted' = TRUE
    BY <1>2 DEF DeletesUser, rows, stripe, Settled
  <2> QED BY <2>1, RowsKept, StripeKept, CountsKept, WorldKeeps DEF GoesForward, Settled
<1>3. CASE Business /\ UNCHANGED deleted
  <2>0. deleted' \in BOOLEAN
    BY <1>0, <1>3
  <2>1. ASSUME NEW r \in Requests, Applies(r)
        PROVE  IInv' /\ GoesForward
    BY <2>0, <2>1, AppliesKeeps DEF GoesForward
  <2>2. ASSUME NEW r \in Requests, Steps(r)
        PROVE  IInv' /\ GoesForward
    BY <2>0, <2>2, StepsKeep DEF GoesForward, Steps, Settled
  <2>3. ASSUME NEW r \in Requests,
               \/ Work(r) \/ Dies(r)
               \/ \E w \in Offers \cup {"portal"} : Asks(r, w)
               \/ \E e \in events : Webhook(r, e)
        PROVE  IInv' /\ GoesForward
    BY <2>1, <2>2, <2>3, WorkSteps, DiesSteps, AsksSteps, WebhookSteps
  <2>4. ASSUME NEW i \in Operations, LeaseExpires(i)
        PROVE  IInv' /\ GoesForward
    BY <2>0, <2>4, LeaseExpiresKeeps DEF GoesForward, LeaseExpires
  <2>5. ASSUME NEW a \in Attempts, Pays(a) \/ Ends(a)
        PROVE  IInv' /\ GoesForward
    BY <2>0, <2>5, PaysKeeps, EndsKeeps DEF GoesForward
  <2>6. ASSUME NEW call \in late, ArrivesLate(call)
        PROVE  IInv' /\ GoesForward
    BY <2>0, <2>6, ArrivesLateKeeps DEF GoesForward, ArrivesLate, rows
  <2>7. CASE HoursPass
    BY <2>0, <2>7, HoursPassKeeps DEF GoesForward, HoursPass
  <2> QED BY <1>3, <2>3, <2>4, <2>5, <2>6, <2>7 DEF Business, World
<1> QED BY <1>1, <1>2, <1>3 DEF Next

LEMMA Converged == IInv => AnsweredIsRecorded
<1> SUFFICES ASSUME IInv, events = {} PROVE recorded = [paid |-> subs # {}, known |-> changes]
  BY DEF AnsweredIsRecorded
<1>1. /\ recorded \in [paid : BOOLEAN, known : 0 .. MaxEvents] /\ changes \in Nat
      /\ recorded.known \in Nat /\ recorded.known <= changes
  BY RecordedTyped DEF IInv, EventsAreSent
<1>2. recorded.known = changes
  <2> SUFFICES ASSUME recorded.known # changes PROVE FALSE
    OBVIOUS
  <2>1. changes \in 1 .. changes /\ changes > recorded.known
    BY <1>1
  <2> QED BY <2>1 DEF IInv, EventsAreSent
<1>3. recorded.paid <=> subs # {}
  BY <1>2 DEF IInv, EventsAreSent
<1>4. recorded.paid = (subs # {})
  BY <1>1, <1>3
<1> QED BY <1>1, <1>2, <1>4

-----------------------------------------------------------------------------
(* Theorems *)

\* The inductive invariant: rows, requests and Stripe's sessions are what they
\* are taken for, and webhooks are about to record nothing older than what is
\* recorded (applySubscriptionEvent and everything around it).
THEOREM CheckoutInvariant == Spec => []IInv
<1>1. IInv /\ [Next]_vars => IInv'
  BY StepRight
<1> QED BY <1>1, InitRight, PTL DEF Spec

\* However many requests, offers, attempts and events there are, the account
\* has recorded what Stripe says once every event was answered, and never goes
\* back to what Stripe said earlier (applySubscriptionEvent).
THEOREM WebhooksReachStripe == Spec => WebhooksConverge
<1>1. IInv /\ [Next]_vars /\ AnsweredIsRecorded' => [AnsweredIsRecorded' /\ recorded'.known >= recorded.known]_vars
  <2> SUFFICES ASSUME IInv, [Next]_vars PROVE recorded'.known >= recorded.known
    OBVIOUS
  <2>1. recorded.known \in Nat
    BY RecordedTyped
  <2>2. recorded' = recorded => recorded'.known >= recorded.known
    BY <2>1
  <2> QED BY <2>2, StepRight DEF GoesForward
<1>2. Spec => []AnsweredIsRecorded
  BY Converged, CheckoutInvariant, PTL
<1> QED BY <1>1, <1>2, CheckoutInvariant, PTL DEF Spec, WebhooksConverge

-----------------------------------------------------------------------------
(* One attempt, one offer *)

Aims == Offers \cup {"portal", "webhook", "none", Nothing}

\* An operation of a request that has not come to a decision names the attempt
\* it found, for an offer that may be another.
Settling == {"customer", "list", "decide", "expire", "complete"}

\* Phases of a request that goes on with the operation it reserved.
Reserved == {"customer", "list", "decide", "expire", "create", "keep"}

\* Phases in which a request has no operation of its own.
Bare == {"idle", "operations", "reconcile", "cleanup", "retire", "unlist", "reserve", "reserve_portal", "apply"}

\* A request that gives out the url of an attempt's session when it completes.
Answering(r) == req[r].pc = "complete" /\ req[r].attempt # Nothing

ByRequest(r, a, o) ==
    \/ req[r].pc \in {"create", "recover"} /\ req[r].attempt = a /\ req[r].offer = o
    \/ req[r].pc = "keep" /\ req[r].attempt = a /\ req[r].want = o
    \/ Answering(r) /\ req[r].attempt = a /\ req[r].want = o

ByRow(i, a, o) ==
    /\ ops[i] # Nothing
    /\ ops[i].kind = "checkout" /\ ops[i].attempt = a /\ ops[i].offer = o /\ a = user.attempt
    /\ \A r \in Requests : ops[i].owner = r => req[r].pc \notin Settling

\* Somebody has created a session of the attempt for the offer, or still may.
Bound(a, o) ==
    \/ session[a].status # "none" /\ session[a].offer = o
    \/ [attempt |-> a, offer |-> o] \in late
    \/ \E r \in Requests : ByRequest(r, a, o)
    \/ \E i \in Operations : ByRow(i, a, o)

Claim(a, o) == (user.attempt = a /\ user.offer = o) \/ Bound(a, o)

OneOffer == \A a \in Attempts : \A o, p \in Aims : Claim(a, o) /\ Claim(a, p) => o = p

\* The operation of a request is live, and what the request takes it for.
RowFits(i, r) ==
    ops[i] # Nothing /\ ops[i].owner = r =>
        /\ ops[i].live = TRUE
        /\ req[r].pc \notin Bare
        /\ req[r].pc \in Reserved => ops[i].kind = "checkout" /\ ops[i].offer = req[r].want
        /\ req[r].pc = "renew" => ops[i].kind = "portal"
        /\ req[r].pc = "portal" /\ ops[i].kind = "checkout" => ops[i].attempt # user.attempt

\* Who has created a session, or answers with one, has one.
Creative(r) ==
    /\ req[r].pc = "create" => req[r].offer = req[r].want
    /\ req[r].pc \in {"keep", "keep_recovered"} \/ Answering(r) => session[req[r].attempt].status # "none"

\* What was listed is there still.
ListsLast(r) ==
    req[r].sessions # Nothing \/ (req[r].pc = "decide" /\ req[r].fresh = TRUE) =>
        \A a \in Attempts : req[r].sessions[a] # "none" => session[a].status # "none"

Coherent ==
    /\ OneOffer
    /\ \A r \in Requests : Creative(r) /\ ListsLast(r) /\ \A i \in Operations : RowFits(i, r)

-----------------------------------------------------------------------------
(* What a step of one request leaves alone *)

\* Other requests are where they were, but may have to list again.
OthersStand(r) ==
    \A s \in Requests \ {r} :
        /\ req'[s].pc = req[s].pc /\ req'[s].want = req[s].want
        /\ req'[s].attempt = req[s].attempt /\ req'[s].offer = req[s].offer
        /\ req'[s].target = req[s].target /\ req'[s].todo = req[s].todo /\ req'[s].again = req[s].again
        /\ \/ req'[s] = req[s]
           \/ req'[s].sessions = Nothing /\ req'[s].subs = Nothing /\ req'[s].fresh = FALSE

LEMMA OthersGoOn ==
    ASSUME IInv, NEW r \in Requests, NEW q, Becomes(r, q) \/ Bumps(r, q)
    PROVE  req'[r] = q /\ OthersStand(r)
<1>1. \A s \in Requests : req[s] \in Request
  BY ReqTyped DEF IInv, Typed
<1>2. req \in [Requests -> Request]
  BY DEF IInv, Typed, RequestsInOrder
<1>3. CASE Becomes(r, q)
  BY <1>2, <1>3 DEF Becomes, OthersStand
<1>4. CASE Bumps(r, q)
  <2>1. req'[r] = q
    BY <1>4 DEF Bumps
  <2>2. ASSUME NEW s \in Requests \ {r}
        PROVE  /\ req'[s].pc = req[s].pc /\ req'[s].want = req[s].want
               /\ req'[s].attempt = req[s].attempt /\ req'[s].offer = req[s].offer
               /\ req'[s].target = req[s].target /\ req'[s].todo = req[s].todo /\ req'[s].again = req[s].again
               /\ req'[s].sessions = Nothing /\ req'[s].subs = Nothing /\ req'[s].fresh = FALSE
    <3>1. req'[s] = Dull(req[s])
      BY <1>4 DEF Bumps
    <3> QED BY <1>1, <3>1 DEF Dull, Request
  <2> QED BY <2>1, <2>2 DEF OthersStand
<1> QED BY <1>3, <1>4

\* The account goes on with its attempt, or is cleared.
UserStands == user'.attempt = Nothing \/ (user'.attempt = user.attempt /\ user'.offer = user.offer)

\* Sessions stay, and new ones are for an offer that was claimed.
SessionsStand ==
    \A a \in Attempts : /\ session[a].status # "none" => session'[a].status # "none"
                        /\ session'[a].status # "none" => Bound(a, session'[a].offer)

LateStands == \A a \in Attempts, o \in Aims : [attempt |-> a, offer |-> o] \in late' => Bound(a, o)

\* A row is kept or deleted, or its owner forgets its token.
RowStands(i, r) ==
    ops'[i] # Nothing =>
        /\ ops[i] # Nothing
        /\ ops'[i].kind = ops[i].kind /\ ops'[i].attempt = ops[i].attempt /\ ops'[i].offer = ops[i].offer
        /\ ops[i].live = TRUE => ops'[i].live = TRUE
        /\ \/ ops'[i].owner = ops[i].owner
           \/ ops'[i].owner = Nothing /\ ops[i].owner = r /\ req[r].pc \notin Settling

OthersRows(r) ==
    \A i \in Operations : \A s \in Requests \ {r} :
        ops'[i] # Nothing /\ ops'[i].owner = s =>
            /\ ops[i] # Nothing /\ ops[i].owner = s
            /\ ops'[i].kind = ops[i].kind /\ ops'[i].attempt = ops[i].attempt /\ ops'[i].offer = ops[i].offer
            /\ ops[i].live = TRUE => ops'[i].live = TRUE

\* A step of r after which Coherent holds if it did.
LEMMA StepCoheres ==
    ASSUME IInv, IInv', Coherent, NEW r \in Requests, OthersStand(r), UserStands, SessionsStand, LateStands,
           OthersRows(r), Creative(r)', ListsLast(r)', \A i \in Operations : RowFits(i, r)',
           \A a \in Attempts, o \in Aims : ByRequest(r, a, o)' => Claim(a, o),
           \A a \in Attempts, o \in Aims, i \in Operations : ByRow(i, a, o)' => Claim(a, o)
    PROVE  Coherent'
<1>1. ASSUME NEW a \in Attempts, NEW o \in Aims, Claim(a, o)'
      PROVE  Claim(a, o)
  <2>1. CASE user'.attempt = a /\ user'.offer = o
    BY <2>1, NothingAssumption DEF UserStands, Claim
  <2>2. CASE session'[a].status # "none" /\ session'[a].offer = o
    BY <2>2 DEF SessionsStand, Claim
  <2>3. CASE [attempt |-> a, offer |-> o] \in late'
    BY <2>3 DEF LateStands, Claim
  <2>4. ASSUME NEW s \in Requests, ByRequest(s, a, o)'
        PROVE  Claim(a, o)
    <3>1. CASE s = r
      BY <2>4, <3>1
    <3>2. CASE s # r
      <4>1. ByRequest(s, a, o)
        BY <2>4, <3>2 DEF OthersStand, ByRequest, Answering
      <4> QED BY <4>1 DEF Claim, Bound
    <3> QED BY <3>1, <3>2
  <2>5. ASSUME NEW i \in Operations, ByRow(i, a, o)'
        PROVE  Claim(a, o)
    BY <2>5
  <2> QED BY <1>1, <2>1, <2>2, <2>3, <2>4, <2>5 DEF Claim, Bound
<1>2. OneOffer'
  <2> SUFFICES ASSUME NEW a \in Attempts, NEW o \in Aims, NEW p \in Aims, Claim(a, o)', Claim(a, p)'
               PROVE  o = p
    BY DEF OneOffer
  <2>1. Claim(a, o) /\ Claim(a, p)
    BY <1>1
  <2> QED BY <2>1 DEF Coherent, OneOffer
<1>3. ASSUME NEW s \in Requests \ {r}
      PROVE  Creative(s)'
  <2>1. Creative(s) /\ req[s].attempt \in Maybe(Attempts) /\ InOrder(req[s])
    BY ReqTyped, ReqFields DEF Coherent, IInv, Typed
  <2>2. req[s].pc \in {"keep", "keep_recovered"} \/ Answering(s) => req[s].attempt \in Attempts
    BY <2>1 DEF InOrder, Answering, Maybe
  <2> QED BY <2>1, <2>2 DEF OthersStand, SessionsStand, Creative, Answering
<1>4. ASSUME NEW s \in Requests \ {r}
      PROVE  ListsLast(s)'
  <2>1. ListsLast(s)
    BY DEF Coherent
  <2> QED BY <2>1 DEF OthersStand, SessionsStand, ListsLast
<1>5. ASSUME NEW s \in Requests \ {r}, NEW i \in Operations
      PROVE  RowFits(i, s)'
  <2> SUFFICES ASSUME ops'[i] # Nothing, ops'[i].owner = s
               PROVE  RowFits(i, s)'
    BY DEF RowFits
  <2>1. /\ ops[i] # Nothing /\ ops[i].owner = s /\ ops'[i].kind = ops[i].kind
        /\ ops'[i].attempt = ops[i].attempt /\ ops'[i].offer = ops[i].offer
        /\ ops[i].live = TRUE => ops'[i].live = TRUE
        /\ RowFits(i, s)
    BY DEF OthersRows, Coherent
  <2>2. ops[i].kind = "checkout" => ops[i].attempt # Nothing
    BY <2>1, RowsRight, RowTyped, NothingAssumption DEF RowInOrder
  <2> QED BY <2>1, <2>2 DEF OthersStand, RowFits, UserStands
<1> QED BY <1>2, <1>3, <1>4, <1>5 DEF Coherent

\* A request goes on without a session to create or to answer with.
Quiet(r) ==
    /\ req'[r].pc \notin {"create", "recover", "keep", "keep_recovered"}
    /\ req'[r].pc = "complete" => req'[r].attempt = Nothing
    /\ req'[r].pc = "decide" /\ req'[r].fresh = TRUE => req'[r].sessions # Nothing \/ req'[r].sessions = ListedStatuses
    /\ req'[r].sessions = Nothing \/ req'[r].sessions = req[r].sessions \/ req'[r].sessions = ListedStatuses

Disowned(r) == \A i \in Operations : ops'[i] # Nothing => ops'[i].owner # r

\* It has no operation afterwards, or goes on with it for the same.
Rowed(r) ==
    \/ Disowned(r)
    \/ /\ req'[r].pc \notin Bare \cup {"portal", "renew"}
       /\ req[r].pc \in Settling => req'[r].pc \in Settling
       /\ req'[r].pc \in Reserved => req[r].pc \in Reserved /\ req'[r].want = req[r].want

LEMMA RowsClaim ==
    ASSUME IInv, NEW r \in Requests, OthersStand(r), UserStands,
           Disowned(r) \/ (req[r].pc \in Settling => req'[r].pc \in Settling),
           NEW a \in Attempts, NEW o, NEW i \in Operations, RowStands(i, r), ByRow(i, a, o)'
    PROVE  ByRow(i, a, o)
<1>1. ops'[i] # Nothing /\ ops'[i].kind = "checkout" /\ ops'[i].attempt = a /\ ops'[i].offer = o /\ a = user'.attempt
  BY DEF ByRow
<1>2. ops[i] # Nothing /\ ops[i].kind = "checkout" /\ ops[i].attempt = a /\ ops[i].offer = o
  BY <1>1 DEF RowStands
<1>3. a = user.attempt
  BY <1>1, NothingAssumption DEF UserStands
<1>4. ASSUME NEW s \in Requests, ops[i].owner = s
      PROVE  req[s].pc \notin Settling
  <2>1. CASE ops'[i].owner = Nothing
    BY <1>1, <1>4, <2>1, NothingAssumption DEF RowStands
  <2>2. CASE ops'[i].owner = s
    <3>1. req'[s].pc \notin Settling
      BY <2>2 DEF ByRow
    <3> QED BY <1>1, <2>2, <3>1 DEF OthersStand, Disowned
  <2> QED BY <1>1, <1>4, <2>1, <2>2 DEF RowStands
<1> QED BY <1>2, <1>3, <1>4 DEF ByRow

LEMMA QuietStep ==
    ASSUME IInv, IInv', Coherent, NEW r \in Requests, OthersStand(r), UserStands, SessionsStand, LateStands,
           \A i \in Operations : RowStands(i, r), Quiet(r), Rowed(r)
    PROVE  Coherent'
<1>1. OthersRows(r)
  BY NothingAssumption DEF OthersRows, RowStands
<1>2. Creative(r)'
  BY DEF Creative, Quiet, Answering
<1>3. ListsLast(r)'
  BY DEF ListsLast, Quiet, Coherent, SessionsStand, ListedStatuses
<1>4. ASSUME NEW i \in Operations
      PROVE  RowFits(i, r)'
  <2> SUFFICES ASSUME ops'[i] # Nothing, ops'[i].owner = r
               PROVE  RowFits(i, r)'
    BY DEF RowFits
  <2>1. /\ ops[i] # Nothing /\ ops[i].owner = r /\ ops'[i].kind = ops[i].kind
        /\ ops'[i].attempt = ops[i].attempt /\ ops'[i].offer = ops[i].offer
        /\ ops[i].live = TRUE => ops'[i].live = TRUE
        /\ RowFits(i, r)
    BY NothingAssumption DEF RowStands, Coherent
  <2> QED BY <2>1 DEF RowFits, Rowed, Disowned, Reserved
<1>5. ASSUME NEW a \in Attempts, NEW o \in Aims, ByRequest(r, a, o)'
      PROVE  Claim(a, o)
  BY <1>5, NothingAssumption DEF ByRequest, Quiet, Answering
<1>6. ASSUME NEW a \in Attempts, NEW o \in Aims, NEW i \in Operations, ByRow(i, a, o)'
      PROVE  Claim(a, o)
  BY <1>6, RowsClaim DEF Claim, Bound, Rowed
<1> QED BY <1>1, <1>2, <1>3, <1>4, <1>5, <1>6, StepCoheres

\* Rows that are as they were, deleted, renewed or without an owner.
LEMMA RowsStand ==
    ASSUME IInv, NEW r \in Requests,
           \/ ops' = ops
           \/ \E S \in SUBSET Operations : ops' = Without(ops, S)
           \/ ops' = Renewed(r)
           \/ ops' = Orphans(r, ops) /\ req[r].pc \notin Settling
    PROVE  \A i \in Operations : RowStands(i, r)
<1> SUFFICES ASSUME NEW i \in Operations, ops'[i] # Nothing
             PROVE  RowStands(i, r)
  BY DEF RowStands
<1>1. CASE ops' = ops
  BY <1>1 DEF RowStands
<1>2. CASE \E S \in SUBSET Operations : ops' = Without(ops, S)
  BY <1>2 DEF RowStands, Without
<1>3. CASE ops' = Renewed(r)
  <2>1. ops[i] # Nothing /\ (i \in Owned(r) => ops'[i] = [ops[i] EXCEPT !.live = TRUE])
        /\ (i \notin Owned(r) => ops'[i] = ops[i])
    BY <1>3 DEF Renewed, Owned
  <2>2. ops[i] \in Operation
    BY <2>1, RowsRight, RowTyped
  <2> QED BY <2>1, <2>2 DEF RowStands, Operation
<1>4. CASE ops' = Orphans(r, ops) /\ req[r].pc \notin Settling
  <2>1. /\ ops[i] # Nothing
        /\ ops[i].owner = r => ops'[i] = [ops[i] EXCEPT !.owner = Nothing]
        /\ ops[i].owner # r => ops'[i] = ops[i]
    BY <1>4 DEF Orphans
  <2>2. ops[i] \in Operation
    BY <2>1, RowsRight, RowTyped
  <2> QED BY <1>4, <2>1, <2>2 DEF RowStands, Operation
<1> QED BY <1>1, <1>2, <1>3, <1>4

\* What leaves a request without an operation.
LEMMA RowsLeave ==
    ASSUME IInv, NEW r \in Requests,
           \/ ops' = ops /\ Owned(r) = {}
           \/ ops' = Without(ops, Owned(r))
           \/ ops' = Orphans(r, ops)
           \/ ops' = Renewed(r) /\ Owned(r) = {}
    PROVE  Disowned(r)
<1> SUFFICES ASSUME NEW i \in Operations, ops'[i] # Nothing
             PROVE  ops'[i].owner # r
  BY DEF Disowned
<1>1. CASE ops' = ops /\ Owned(r) = {}
  BY <1>1 DEF Owned
<1>2. CASE ops' = Without(ops, Owned(r))
  BY <1>2 DEF Without, Owned
<1>3. CASE ops' = Orphans(r, ops)
  <2>1. /\ ops[i] # Nothing
        /\ ops[i].owner = r => ops'[i] = [ops[i] EXCEPT !.owner = Nothing]
        /\ ops[i].owner # r => ops'[i] = ops[i]
    BY <1>3 DEF Orphans
  <2>2. ops[i] \in Operation
    BY <2>1, RowsRight, RowTyped
  <2> QED BY <2>1, <2>2, NothingAssumption DEF Operation
<1>4. CASE ops' = Renewed(r) /\ Owned(r) = {}
  BY <1>4 DEF Renewed, Owned
<1> QED BY <1>1, <1>2, <1>3, <1>4

\* Sessions that change without being created.
SessionsAlike ==
    \A a \in Attempts : /\ session'[a].status = "none" <=> session[a].status = "none"
                        /\ session'[a].offer = session[a].offer

LEMMA StripeStands ==
    ASSUME SessionsAlike, late' = late
    PROVE  SessionsStand /\ LateStands
BY DEF SessionsAlike, SessionsStand, LateStands, Bound

LEMMA StripeAlone ==
    ASSUME UNCHANGED <<session, late>>
    PROVE  SessionsStand /\ LateStands
BY DEF SessionsStand, LateStands, Bound

\* A request goes on as q, quietly.
LEMMA MoveCoheres ==
    ASSUME IInv, IInv', Coherent, NEW r \in Requests, NEW q, Becomes(r, q) \/ Bumps(r, q),
           UserStands, SessionsStand, LateStands, \A i \in Operations : RowStands(i, r),
           q.pc \notin {"create", "recover", "keep", "keep_recovered", "portal", "renew"},
           q.pc = "complete" => q.attempt = Nothing,
           q.pc = "decide" => q.sessions # Nothing \/ q.sessions = ListedStatuses,
           q.sessions = Nothing \/ q.sessions = req[r].sessions \/ q.sessions = ListedStatuses,
           \/ req[r].pc \in Bare
           \/ Disowned(r)
           \/ /\ q.pc \notin Bare
              /\ req[r].pc \in Settling => q.pc \in Settling
              /\ q.pc \in Reserved => req[r].pc \in Reserved /\ q.want = req[r].want
    PROVE  Coherent'
<1>1. req'[r] = q /\ OthersStand(r)
  BY OthersGoOn
<1>2. Quiet(r)
  BY <1>1 DEF Quiet
<1>3. CASE req[r].pc \in Bare
  <2>1. Disowned(r)
    BY <1>3, NothingAssumption DEF Disowned, RowStands, Coherent, RowFits
  <2> QED BY <1>1, <1>2, <2>1, QuietStep DEF Rowed
<1>4. CASE req[r].pc \notin Bare
  <2>1. Rowed(r)
    BY <1>1, <1>4 DEF Rowed
  <2> QED BY <1>1, <1>2, <2>1, QuietStep
<1> QED BY <1>3, <1>4

\* The same with nothing to remember, or only what cleanup needs.
LEMMA EntryCoheres ==
    ASSUME IInv, IInv', Coherent, NEW r \in Requests, NEW q, Becomes(r, q) \/ Bumps(r, q),
           UserStands, SessionsStand, LateStands, \A i \in Operations : RowStands(i, r),
           q.pc \in Phases \ {"create", "recover", "keep", "keep_recovered", "portal", "renew", "decide"},
           q.attempt = Nothing, q.sessions = Nothing,
           \/ req[r].pc \in Bare
           \/ Disowned(r)
           \/ q.pc = "complete"
           \/ q.pc = "uncertain" /\ req[r].pc \notin Settling
           \/ q.pc = "list" /\ req[r].pc \in Reserved /\ q.want = req[r].want
    PROVE  Coherent'
<1>1. q.pc = "complete" \/ q.pc = "uncertain" \/ q.pc = "list" => q.pc \notin Bare
  BY DEF Bare
<1>2. q.pc = "complete" \/ q.pc = "list" => q.pc \in Settling
  BY DEF Settling
<1>3. q.pc = "complete" \/ q.pc = "uncertain" => q.pc \notin Reserved
  BY DEF Reserved
<1> QED BY <1>1, <1>2, <1>3, MoveCoheres

-----------------------------------------------------------------------------
(* Requests that begin, end and clean up *)

LEMMA RequestAloneCoheres ==
    ASSUME IInv, IInv', Coherent, NEW r \in Requests, NEW q, Becomes(r, q), UNCHANGED <<user, ops, session, late>>,
           q.pc \in Phases \ {"create", "recover", "keep", "keep_recovered", "portal", "renew", "decide"},
           q.attempt = Nothing, q.sessions = Nothing,
           \/ req[r].pc \in Bare
           \/ q.pc = "complete"
           \/ q.pc = "uncertain" /\ req[r].pc \notin Settling
           \/ q.pc = "list" /\ req[r].pc \in Reserved /\ q.want = req[r].want
    PROVE  Coherent'
<1>1. UserStands
  BY DEF UserStands
<1> QED BY <1>1, StripeAlone, RowsStand, EntryCoheres

\* A phase is entered, with nothing to remember.
LEMMA EnterCoheres ==
    ASSUME IInv, IInv', Coherent, NEW r \in Requests, NEW phase,
           Becomes(r, Enter(r, phase)) \/ Bumps(r, Enter(r, phase)),
           UserStands, SessionsStand, LateStands, \A i \in Operations : RowStands(i, r),
           phase \in Phases \ {"create", "recover", "keep", "keep_recovered", "portal", "renew", "decide"},
           \/ req[r].pc \in Bare
           \/ Disowned(r)
           \/ phase = "complete"
           \/ phase = "uncertain" /\ req[r].pc \notin Settling
           \/ phase = "list" /\ req[r].pc \in Reserved
    PROVE  Coherent'
<1> DEFINE q == Enter(r, phase)
<1>1. q.pc = phase /\ q.attempt = Nothing /\ q.sessions = Nothing /\ q.want = req[r].want
  BY DEF Enter, Idle
<1>2. Becomes(r, q) \/ Bumps(r, q)
  OBVIOUS
<1> HIDE DEF q
<1> QED BY <1>1, <1>2, EntryCoheres

LEMMA IdleFields ==
    /\ Idle.pc = "idle" /\ Idle.attempt = Nothing /\ Idle.sessions = Nothing
    /\ Idle.fresh = FALSE /\ Idle.subs = Nothing /\ Idle.todo = {} /\ Idle.target = Nothing /\ Idle.again = FALSE
BY DEF Idle

LEMMA AsksCoheres ==
    ASSUME IInv, IInv', Coherent, NEW r \in Requests, NEW w, Asks(r, w)
    PROVE  Coherent'
<1> DEFINE q == [Idle EXCEPT !.pc = "operations", !.want = w]
<1>1. Becomes(r, q) /\ UNCHANGED <<user, ops, session, late>> /\ req[r].pc \in Bare
  BY DEF Asks, rows, stripe, At, Bare
<1>2. q.pc = "operations" /\ q.attempt = Nothing /\ q.sessions = Nothing
  BY DEF Idle
<1> HIDE DEF q
<1> QED BY <1>1, <1>2, RequestAloneCoheres DEF Phases

LEMMA WebhookCoheres ==
    ASSUME IInv, IInv', Coherent, NEW r \in Requests, NEW e, Webhook(r, e)
    PROVE  Coherent'
<1> DEFINE q == [Idle EXCEPT !.pc = "operations", !.want = "webhook", !.event = e]
<1>1. Becomes(r, q) /\ UNCHANGED <<user, ops, session, late>> /\ req[r].pc \in Bare
  BY DEF Webhook, rows, stripe, At, Bare
<1>2. q.pc = "operations" /\ q.attempt = Nothing /\ q.sessions = Nothing
  BY DEF Idle
<1> HIDE DEF q
<1> QED BY <1>1, <1>2, RequestAloneCoheres DEF Phases

LEMMA GivenAlike ==
    ASSUME IInv, NEW a \in Attempts, GivesOut(a)
    PROVE  SessionsAlike
BY RowsRight DEF GivesOut, SessionsRight, SessionsAlike, Session

LEMMA CompletesCoheres ==
    ASSUME IInv, IInv', Coherent, NEW r \in Requests, Completes(r)
    PROVE  Coherent'
<1>1. /\ Becomes(r, Idle) \/ Bumps(r, Idle)
      /\ ops' = Without(ops, Owned(r)) /\ UserStands /\ late' = late
  BY DEF Completes, UserStands
<1>2. SessionsAlike
  <2>1. CASE req[r].attempt = Nothing
    BY <2>1 DEF Completes, SessionsAlike
  <2>2. CASE req[r].attempt # Nothing
    <3>1. req[r].attempt \in Attempts
      BY <2>2, ReqFields DEF IInv, Typed, Maybe
    <3> QED BY <2>2, <3>1, GivenAlike DEF Completes
  <2> QED BY <2>1, <2>2
<1>3. SessionsStand /\ LateStands
  BY <1>1, <1>2, StripeStands
<1>4. Disowned(r) /\ \A i \in Operations : RowStands(i, r)
  BY <1>1, RowsLeave, RowsStand DEF Owned
<1> QED BY <1>1, <1>3, <1>4, IdleFields, EntryCoheres DEF Phases

LEMMA MarksUncertainCoheres ==
    ASSUME IInv, IInv', Coherent, NEW r \in Requests, MarksUncertain(r)
    PROVE  Coherent'
<1>1. /\ Becomes(r, Idle) \/ Bumps(r, Idle)
      /\ ops' = Orphans(r, ops) /\ UserStands /\ UNCHANGED <<session, late>> /\ req[r].pc \notin Settling
  BY DEF MarksUncertain, UserStands, stripe, At, Settling
<1>2. Disowned(r) /\ \A i \in Operations : RowStands(i, r)
  BY <1>1, RowsLeave, RowsStand
<1> QED BY <1>1, <1>2, StripeAlone, IdleFields, EntryCoheres DEF Phases

LEMMA OutdatedCoheres ==
    ASSUME IInv, IInv', Coherent, NEW r \in Requests, Outdated(r)
    PROVE  Coherent'
<1>1. UNCHANGED <<user, ops, session, late>> /\ req[r].pc \in {"reconcile", "decide", "apply"}
  BY DEF Outdated, rows, stripe
<1>0. UserStands /\ SessionsStand /\ LateStands /\ \A i \in Operations : RowStands(i, r)
  BY <1>1, StripeAlone, RowsStand DEF UserStands
<1>2. CASE Becomes(r, Enter(r, "complete"))
  BY <1>0, <1>2, EnterCoheres DEF Phases
<1>3. CASE Becomes(r, Again(r)) /\ req[r].pc = "decide"
  <2> DEFINE q == [Enter(r, "list") EXCEPT !.target = req[r].target, !.again = req[r].again]
  <2>1. Again(r) = q
    BY <1>3 DEF Again, At
  <2>2. q.pc = "list" /\ q.attempt = Nothing /\ q.sessions = Nothing /\ q.want = req[r].want
    BY DEF Enter, Idle
  <2> HIDE DEF q
  <2> QED BY <1>1, <1>3, <2>1, <2>2, RequestAloneCoheres DEF Phases, Reserved
<1>4. CASE Becomes(r, Again(r)) /\ req[r].pc # "decide"
  <2>1. Again(r) = Enter(r, "operations") /\ req[r].pc \in Bare
    BY <1>1, <1>4 DEF Again, At, Bare
  <2> QED BY <1>0, <1>4, <2>1, EnterCoheres DEF Phases
<1> QED BY <1>2, <1>3, <1>4 DEF Outdated

LEMMA CleanupFields ==
    ASSUME NEW r, NEW T, NEW b
    PROVE  /\ [Enter(r, "cleanup") EXCEPT !.todo = T].pc = "cleanup"
           /\ [Enter(r, "cleanup") EXCEPT !.todo = T].attempt = Nothing
           /\ [Enter(r, "cleanup") EXCEPT !.todo = T].sessions = Nothing
           /\ [Enter(r, "cleanup") EXCEPT !.todo = T, !.conflict = b].pc = "cleanup"
           /\ [Enter(r, "cleanup") EXCEPT !.todo = T, !.conflict = b].attempt = Nothing
           /\ [Enter(r, "cleanup") EXCEPT !.todo = T, !.conflict = b].sessions = Nothing
BY DEF Enter, Idle

LEMMA NothingExpiredCoheres ==
    ASSUME IInv, IInv', Coherent, NEW r \in Requests, NothingExpired(r)
    PROVE  Coherent'
<1> DEFINE q == [Enter(r, "cleanup") EXCEPT !.todo = intents]
<1>1. Becomes(r, q) /\ UNCHANGED <<user, ops, session, late>> /\ req[r].pc \in Bare
  BY DEF NothingExpired, rows, stripe, At, Bare
<1>2. q.pc = "cleanup" /\ q.attempt = Nothing /\ q.sessions = Nothing
  BY CleanupFields
<1> HIDE DEF q
<1> QED BY <1>1, <1>2, RequestAloneCoheres DEF Phases

LEMMA ListsSessionsCoheres ==
    ASSUME IInv, IInv', Coherent, NEW r \in Requests, ListsSessions(r)
    PROVE  Coherent'
<1> DEFINE q == [Enter(r, "reconcile") EXCEPT !.fresh = TRUE, !.sessions = ListedStatuses]
<1>1. Becomes(r, q) /\ UNCHANGED <<ops, session, late>> /\ UserStands /\ req[r].pc \in Bare
  BY DEF ListsSessions, rows, stripe, At, Bare, UserStands
<1>2. q.pc = "reconcile" /\ q.sessions = ListedStatuses
  BY DEF Enter, Idle
<1> HIDE DEF q
<1> QED BY <1>1, <1>2, StripeAlone, RowsStand, MoveCoheres

LEMMA RecoversPortalCoheres ==
    ASSUME IInv, IInv', Coherent, NEW r \in Requests, RecoversPortal(r)
    PROVE  Coherent'
<1> DEFINE clean == [Enter(r, "cleanup") EXCEPT !.todo = intents]
           next == IF req[r].want = "webhook" THEN clean ELSE Idle
<1>1. UserStands /\ UNCHANGED <<session, late>> /\ req[r].pc \notin Settling
  BY DEF RecoversPortal, UserStands, stripe, At, Settling
<1>2. CASE ops' = Without(ops, Owned(r)) /\ (Becomes(r, next) \/ Bumps(r, next))
  <2>1. Disowned(r) /\ \A i \in Operations : RowStands(i, r)
    BY <1>2, RowsLeave, RowsStand DEF Owned
  <2>2. next.pc \in {"cleanup", "idle"} /\ next.attempt = Nothing /\ next.sessions = Nothing
    BY CleanupFields, IdleFields
  <2> HIDE DEF next
  <2> QED BY <1>1, <1>2, <2>1, <2>2, StripeAlone, EntryCoheres DEF Phases
<1>3. CASE ops' = ops /\ \E phase \in {"complete", "uncertain"} : Becomes(r, Enter(r, phase))
  <2> PICK phase \in {"complete", "uncertain"} : Becomes(r, Enter(r, phase))
    BY <1>3
  <2>1. \A i \in Operations : RowStands(i, r)
    BY <1>3, RowsStand
  <2> QED BY <1>1, <2>1, StripeAlone, EnterCoheres DEF Phases
<1> QED BY <1>2, <1>3 DEF RecoversPortal

\* A session that was returned is recorded or to be cleaned up.
LEMMA PersistStands ==
    ASSUME IInv, NEW r \in Requests, NEW q, Persist(r, q)
    PROVE  /\ UserStands /\ late' = late /\ Bumps(r, q) /\ Disowned(r)
           /\ \A i \in Operations : RowStands(i, r)
<1>1. ops' = Without(ops, Owned(r)) /\ late' = late /\ Bumps(r, q)
  BY DEF Persist
<1>2. UserStands
  BY RowsRight DEF Persist, UserStands, UserRight, User
<1> QED BY <1>1, <1>2, RowsLeave, RowsStand DEF Owned

LEMMA KeepsRecoveredCoheres ==
    ASSUME IInv, IInv', Coherent, NEW r \in Requests, KeepsRecovered(r)
    PROVE  Coherent'
<1>1. Persist(r, Enter(r, "operations")) /\ session' = session
  BY DEF KeepsRecovered
<1>2. /\ UserStands /\ late' = late /\ Bumps(r, Enter(r, "operations")) /\ Disowned(r)
      /\ \A i \in Operations : RowStands(i, r)
  BY <1>1, PersistStands
<1> QED BY <1>1, <1>2, StripeAlone, EnterCoheres DEF Phases

LEMMA KeepsCreatedCoheres ==
    ASSUME IInv, IInv', Coherent, NEW r \in Requests, KeepsCreated(r)
    PROVE  Coherent'
<1> DEFINE clean == [Enter(r, "cleanup") EXCEPT !.todo = intents', !.conflict = TRUE]
           next == IF Owned(r) = {} THEN Idle ELSE clean
<1>1. Idle.pc = "idle" /\ next.pc \in {"cleanup", "idle"} /\ next.attempt = Nothing /\ next.sessions = Nothing
  BY CleanupFields, IdleFields
<1>2. CASE Persist(r, Idle) /\ GivesOut(req[r].attempt)
  <2>1. req[r].attempt \in Attempts
    BY ReqTyped DEF KeepsCreated, At, IInv, Typed, InOrder
  <2>2. SessionsStand /\ LateStands
    BY <1>2, <2>1, GivenAlike, PersistStands, StripeStands
  <2> QED BY <1>2, <2>2, PersistStands, IdleFields, EntryCoheres DEF Phases
<1>3. CASE Persist(r, next) /\ session' = session
  <2> HIDE DEF next
  <2> QED BY <1>1, <1>3, PersistStands, StripeAlone, EntryCoheres DEF Phases
<1> QED BY <1>2, <1>3 DEF KeepsCreated

LEMMA ChecksOwnerCoheres ==
    ASSUME IInv, IInv', Coherent, NEW r \in Requests, NEW a, ChecksOwner(r, a)
    PROVE  Coherent'
<1> DEFINE rest == [req[r] EXCEPT !.todo = req[r].todo \ {a}]
           next == [rest EXCEPT !.pc = "retire", !.target = a]
<1>1. UNCHANGED <<ops, session, late>> /\ UserStands /\ req[r].pc \in Bare
  BY DEF ChecksOwner, stripe, At, Bare, UserStands
<1>2. Becomes(r, rest) \/ Bumps(r, rest) \/ Becomes(r, next)
  BY DEF ChecksOwner
<1>3. /\ rest.pc = "cleanup" /\ rest.sessions = req[r].sessions
      /\ next.pc = "retire" /\ next.sessions = req[r].sessions
  BY ReqTyped DEF Request, IInv, Typed, ChecksOwner, At
<1> HIDE DEF rest, next
<1> QED BY <1>1, <1>2, <1>3, StripeAlone, RowsStand, MoveCoheres

LEMMA RetiresCoheres ==
    ASSUME IInv, IInv', Coherent, NEW r \in Requests, Retires(r)
    PROVE  Coherent'
<1> DEFINE q == [req[r] EXCEPT !.pc = "unlist"]
           k == [req[r] EXCEPT !.pc = "cleanup", !.target = Nothing, !.failed = TRUE]
<1>1. ops' = ops /\ late' = late /\ UserStands /\ req[r].pc \in Bare
  BY DEF Retires, rows, At, Bare, UserStands
<1>2. Becomes(r, q) \/ Becomes(r, k)
  BY DEF Retires
<1>3. /\ q.pc = "unlist" /\ q.sessions = req[r].sessions
      /\ k.pc = "cleanup" /\ k.sessions = req[r].sessions
  BY ReqTyped DEF Request, IInv, Typed, Retires, At
<1>4. SessionsAlike
  BY RowsRight DEF Retires, SessionsRight, SessionsAlike, Session
<1> HIDE DEF q, k
<1> QED BY <1>1, <1>2, <1>3, <1>4, StripeStands, RowsStand, MoveCoheres

LEMMA UnlistsCoheres ==
    ASSUME IInv, IInv', Coherent, NEW r \in Requests, Unlists(r)
    PROVE  Coherent'
<1> DEFINE next == [req[r] EXCEPT !.pc = "cleanup", !.target = Nothing]
<1>1. UNCHANGED <<ops, session, late>> /\ UserStands /\ req[r].pc \in Bare
  BY DEF Unlists, stripe, At, Bare, UserStands
<1>2. Becomes(r, next) \/ Bumps(r, next)
  BY DEF Unlists
<1>3. next.pc = "cleanup" /\ next.sessions = req[r].sessions
  BY ReqTyped DEF Request, IInv, Typed, Unlists, At
<1> HIDE DEF next
<1> QED BY <1>1, <1>2, <1>3, StripeAlone, RowsStand, MoveCoheres

LEMMA CleanedUpCoheres ==
    ASSUME IInv, IInv', Coherent, NEW r \in Requests, CleanedUp(r)
    PROVE  Coherent'
<1>1. UNCHANGED <<ops, session, late>> /\ UserStands /\ req[r].pc \in Bare
  BY DEF CleanedUp, stripe, rows, At, Bare, UserStands
<1>2. req[r].want \in Offers \cup {"portal", "webhook"}
  BY Wants DEF CleanedUp, At
<1>3. PICK phase \in {"complete", "reserve", "reserve_portal", "list"} : Becomes(r, Enter(r, phase))
  BY <1>2 DEF CleanedUp, Checkout
<1> QED BY <1>1, <1>3, StripeAlone, RowsStand, EnterCoheres DEF Phases

-----------------------------------------------------------------------------
(* Creations, and what comes before them *)

\* A creation of Stripe's is claimed by who asks for it.
LEMMA CreationStands ==
    ASSUME IInv, NEW a \in Attempts, NEW o \in Offers, Bound(a, o),
           session' = session \/ (session' = Created(a, o) /\ Accepts(a, o))
    PROVE  /\ SessionsStand
           /\ session' = Created(a, o) => session'[a].status # "none"
<1>1. session \in [Attempts -> Session]
  BY RowsRight DEF SessionsRight
<1>2. CASE session' = session
  <2>1. SessionsStand
    BY <1>2 DEF SessionsStand, Bound
  <2>2. session' = Created(a, o) => session'[a].status # "none"
    BY <1>1 DEF Created, Remembered, Uncreated
  <2> QED BY <2>1, <2>2
<1>3. CASE session' # session
  <2>1. session' = [session EXCEPT ![a] = [Uncreated EXCEPT !.status = "open", !.offer = o]]
    BY <1>3 DEF Created
  <2>2. session'[a].status = "open" /\ session'[a].offer = o
    BY <1>1, <2>1 DEF Uncreated
  <2>3. \A b \in Attempts \ {a} : session'[b] = session[b]
    BY <1>1, <2>1
  <2>4. SessionsStand
    BY <2>2, <2>3 DEF SessionsStand, Bound
  <2> QED BY <2>2, <2>4
<1> QED BY <1>2, <1>3

LEMMA CreatorsBind ==
    ASSUME IInv, NEW r \in Requests, req[r].pc \in {"create", "recover"}
    PROVE  /\ req[r].attempt \in Attempts /\ req[r].offer \in Offers
           /\ Bound(req[r].attempt, req[r].offer)
BY Creating DEF Bound, ByRequest

LEMMA CreateRefusedCoheres ==
    ASSUME IInv, IInv', Coherent, NEW r \in Requests, CreateRefused(r)
    PROVE  Coherent'
<1>1. UNCHANGED <<ops, session, late>> /\ UserStands /\ Becomes(r, Enter(r, "complete"))
  BY DEF CreateRefused, stripe, rows, UserStands
<1> QED BY <1>1, StripeAlone, RowsStand, EnterCoheres DEF Phases

LEMMA CreateUnknownCoheres ==
    ASSUME IInv, IInv', Coherent, NEW r \in Requests, CreateUnknown(r)
    PROVE  Coherent'
<1> DEFINE a == req[r].attempt
           o == req[r].offer
<1>1. ops' = ops /\ UserStands /\ req[r].pc \notin Settling /\ Becomes(r, Enter(r, "uncertain"))
  BY DEF CreateUnknown, rows, UserStands, Settling
<1>2. a \in Attempts /\ o \in Offers /\ Bound(a, o)
  BY CreatorsBind DEF CreateUnknown
<1>3. /\ session' = session \/ (session' = Created(a, o) /\ Accepts(a, o))
      /\ late' = late \/ late' = late \cup {[attempt |-> a, offer |-> o]}
  BY DEF CreateUnknown
<1> HIDE DEF a, o
<1>4. SessionsStand
  BY <1>2, <1>3, CreationStands
<1>5. LateStands
  BY <1>2, <1>3 DEF LateStands, Bound
<1> QED BY <1>1, <1>4, <1>5, RowsStand, EnterCoheres DEF Phases

LEMMA CreatesCoheres ==
    ASSUME IInv, IInv', Coherent, NEW r \in Requests, Creates(r)
    PROVE  Coherent'
<1> DEFINE a == req[r].attempt
           o == req[r].offer
           q == [Enter(r, Keeps(r)) EXCEPT !.attempt = a]
<1>1. ops' = ops /\ late' = late /\ UserStands /\ req[r].pc \in {"create", "recover"}
  BY DEF Creates, rows, UserStands
<1>2. a \in Attempts /\ o \in Offers /\ Bound(a, o)
  BY <1>1, CreatorsBind
<1>3. LateStands /\ \A i \in Operations : RowStands(i, r)
  BY <1>1, RowsStand DEF LateStands, Bound
<1>4. CASE session' = session /\ Becomes(r, Enter(r, "uncertain"))
  <2>1. SessionsStand
    BY <1>1, <1>4, StripeAlone
  <2>2. req[r].pc \notin Settling
    BY <1>1 DEF Settling
  <2> QED BY <1>1, <1>3, <1>4, <2>1, <2>2, EnterCoheres DEF Phases
<1>5. CASE Accepts(a, o) /\ session' = Created(a, o) /\ Becomes(r, q)
  <2>1. /\ q.pc = IF req[r].pc = "recover" THEN "keep_recovered" ELSE "keep"
        /\ q.want = req[r].want /\ q.attempt = a /\ q.sessions = Nothing
    BY DEF Enter, Idle, Keeps, At
  <2> HIDE DEF q
  <2>2. req'[r] = q /\ OthersStand(r)
    BY <1>5, OthersGoOn
  <2>3. SessionsStand /\ session'[a].status # "none"
    BY <1>2, <1>5, CreationStands
  <2>4. OthersRows(r)
    BY <1>1 DEF OthersRows
  <2>5. Creative(r)' /\ ListsLast(r)'
    BY <2>1, <2>2, <2>3 DEF Creative, ListsLast, Answering
  <2>6. ASSUME NEW i \in Operations
        PROVE  RowFits(i, r)'
    <3>1. RowFits(i, r)
      BY DEF Coherent
    <3> QED BY <1>1, <2>1, <2>2, <3>1 DEF RowFits, Bare, Reserved
  <2>7. ASSUME NEW b \in Attempts, NEW p \in Aims, ByRequest(r, b, p)'
        PROVE  Claim(b, p)
    <3>1. q.pc = "keep" /\ b = a /\ p = req[r].want /\ req[r].pc = "create"
      BY <1>1, <2>1, <2>2, <2>7 DEF ByRequest, Answering
    <3>2. p = o
      BY <3>1 DEF Coherent, Creative
    <3> QED BY <1>2, <3>1, <3>2 DEF Claim
  <2>8. ASSUME NEW b \in Attempts, NEW p \in Aims, NEW i \in Operations, ByRow(i, b, p)'
        PROVE  Claim(b, p)
    <3>1. req[r].pc \in Settling => req'[r].pc \in Settling
      BY <1>1 DEF Settling
    <3> QED BY <1>1, <1>3, <2>2, <2>8, <3>1, RowsClaim DEF Claim, Bound
  <2> QED BY <1>1, <1>3, <2>2, <2>3, <2>4, <2>5, <2>6, <2>7, <2>8, StepCoheres
<1> QED BY <1>4, <1>5 DEF Creates

-----------------------------------------------------------------------------
(* Coordination *)

LEMMA ListsCoheres ==
    ASSUME IInv, IInv', Coherent, NEW r \in Requests, Lists(r)
    PROVE  Coherent'
<1> DEFINE withSubs == [req[r] EXCEPT !.fresh = TRUE, !.subs = subs]
           withSessions == [req[r] EXCEPT !.fresh = TRUE, !.sessions = ListedStatuses]
           apply == [withSubs EXCEPT !.known = changes, !.pc = "apply"]
           one == [withSubs EXCEPT !.pc = IF req[r].sessions = Nothing THEN "list" ELSE "decide"]
           two == [withSessions EXCEPT !.pc = IF req[r].subs = Nothing THEN "list" ELSE "decide"]
<1>1. UNCHANGED <<ops, session, late>> /\ UserStands /\ req[r].pc = "list"
  BY DEF Lists, stripe, rows, At, UserStands
<1>2. /\ apply.pc = "apply" /\ apply.sessions = req[r].sessions
      /\ one.pc \in {"list", "decide"} /\ one.sessions = req[r].sessions /\ one.want = req[r].want
      /\ one.pc = "decide" => req[r].sessions # Nothing
      /\ two.pc \in {"list", "decide"} /\ two.sessions = ListedStatuses /\ two.want = req[r].want
  BY ReqTyped DEF Request, IInv, Typed
<1>3. SessionsStand /\ LateStands /\ \A i \in Operations : RowStands(i, r)
  BY <1>1, StripeAlone, RowsStand
<1>4. CASE req[r].want = "webhook" /\ Becomes(r, apply)
  <2>1. Disowned(r)
    <3> SUFFICES ASSUME NEW i \in Operations, ops[i] # Nothing, ops[i].owner = r
                 PROVE  FALSE
      BY <1>1 DEF Disowned
    <3>1. RowFits(i, r) /\ RowInOrder(ops[i])
      BY RowsRight, RowTyped DEF Coherent
    <3> QED BY <1>1, <1>4, <3>1, OfferAssumption DEF RowFits, RowInOrder, Reserved
  <2> HIDE DEF apply
  <2> QED BY <1>1, <1>2, <1>3, <1>4, <2>1, MoveCoheres
<1>5. CASE Becomes(r, one)
  <2> HIDE DEF one
  <2> QED BY <1>1, <1>2, <1>3, <1>5, MoveCoheres DEF Bare, Settling, Reserved
<1>6. CASE Becomes(r, two)
  <2> HIDE DEF two
  <2> QED BY <1>1, <1>2, <1>3, <1>6, MoveCoheres DEF Bare, Settling, Reserved
<1> QED BY <1>4, <1>5, <1>6 DEF Lists

LEMMA RefusesCoheres ==
    ASSUME IInv, IInv', Coherent, NEW r \in Requests, Refuses(r)
    PROVE  Coherent'
<1>1. UNCHANGED <<ops, session, late>> /\ UserStands /\ Becomes(r, Enter(r, "complete"))
  BY DEF Refuses, stripe, rows, UserStands
<1> QED BY <1>1, StripeAlone, RowsStand, EnterCoheres DEF Phases

LEMMA ExpiresCoheres ==
    ASSUME IInv, IInv', Coherent, NEW r \in Requests, Expires(r)
    PROVE  Coherent'
<1> DEFINE q == [Enter(r, "list") EXCEPT !.again = TRUE, !.target = req[r].attempt]
<1>1. UNCHANGED <<ops, late>> /\ UserStands /\ req[r].pc \in Reserved
  BY DEF Expires, rows, At, UserStands, Reserved
<1>2. \/ session' = session
      \/ /\ session[req[r].target].status = "open"
         /\ session' = [session EXCEPT ![req[r].target].status = "expired"]
  BY DEF Expires
<1>3. SessionsAlike
  BY <1>2, RowsRight DEF SessionsRight, SessionsAlike, Session
<1>4. SessionsStand /\ LateStands /\ \A i \in Operations : RowStands(i, r)
  BY <1>1, <1>3, StripeStands, RowsStand
<1>5. q.pc = "list" /\ q.attempt = Nothing /\ q.sessions = Nothing /\ q.want = req[r].want
  BY DEF Enter, Idle
<1>6. CASE Becomes(r, q)
  <2> HIDE DEF q
  <2> QED BY <1>1, <1>4, <1>5, <1>6, EntryCoheres DEF Phases
<1>7. CASE Becomes(r, Enter(r, "complete"))
  BY <1>1, <1>4, <1>7, EnterCoheres DEF Phases
<1> QED BY <1>6, <1>7 DEF Expires

LEMMA NotReservedCoheres ==
    ASSUME IInv, IInv', Coherent, NEW r \in Requests, NotReserved(r)
    PROVE  Coherent'
<1>1. UNCHANGED <<user, ops, session, late>> /\ Becomes(r, Idle) /\ req[r].pc \in Bare
  BY DEF NotReserved, stripe, rows, At, Bare
<1> QED BY <1>1, IdleFields, RequestAloneCoheres DEF Phases

LEMMA EnsuresCustomerCoheres ==
    ASSUME IInv, IInv', Coherent, NEW r \in Requests, EnsuresCustomer(r)
    PROVE  Coherent'
<1>1. UNCHANGED <<ops, session, late>> /\ req[r].pc \in Reserved
  BY DEF EnsuresCustomer, stripe, At, Reserved
<1>2. UserStands
  BY RowsRight DEF EnsuresCustomer, UserStands, UserRight, User
<1>3. PICK phase \in {"list", "complete"} : Becomes(r, Enter(r, phase)) \/ Bumps(r, Enter(r, phase))
  BY DEF EnsuresCustomer
<1> QED BY <1>1, <1>2, <1>3, StripeAlone, RowsStand, EnterCoheres DEF Phases

LEMMA OpensPortalCoheres ==
    ASSUME IInv, IInv', Coherent, NEW r \in Requests, OpensPortal(r)
    PROVE  Coherent'
<1>1. UNCHANGED <<ops, session, late>> /\ UserStands /\ req[r].pc \notin Settling
  BY DEF OpensPortal, stripe, rows, At, Settling, UserStands
<1>2. PICK phase \in {"complete", "uncertain"} : Becomes(r, Enter(r, phase))
  BY DEF OpensPortal
<1> QED BY <1>1, <1>2, StripeAlone, RowsStand, EnterCoheres DEF Phases

LEMMA ClearedFields ==
    ASSUME IInv
    PROVE  Cleared.attempt = Nothing /\ Cleared.offer = Nothing /\ Cleared.session = Nothing
BY RowsRight DEF Cleared, UserRight, User

LEMMA AppliesCoheres ==
    ASSUME IInv, IInv', Coherent, NEW r \in Requests, Applies(r)
    PROVE  Coherent'
<1>1. UNCHANGED <<ops, session, late>> /\ Bumps(r, Idle) /\ req[r].pc \in Bare
  BY DEF Applies, At, Bare
<1>2. UserStands
  BY ClearedFields DEF Applies, UserStands
<1> QED BY <1>1, <1>2, IdleFields, StripeAlone, RowsStand, EntryCoheres DEF Phases

\* The account is subscribed already: its attempt is given up.
LEMMA TurnsToPortalCoheres ==
    ASSUME IInv, IInv', Coherent, NEW r \in Requests, TurnsToPortal(r)
    PROVE  Coherent'
<1>1. /\ ops' = Renewed(r) /\ UNCHANGED <<session, late>> /\ user'.attempt = Nothing /\ UserStands
      /\ Bumps(r, Enter(r, "portal")) /\ req[r].pc = "decide"
  BY ClearedFields DEF TurnsToPortal, stripe, UserStands, Coordinates, At
<1>2. req'[r] = Enter(r, "portal") /\ OthersStand(r)
  BY <1>1, OthersGoOn
<1>3. /\ req'[r].pc = "portal" /\ req'[r].sessions = Nothing
  BY <1>2 DEF Enter, Idle
<1>4. SessionsStand /\ LateStands /\ \A i \in Operations : RowStands(i, r)
  BY <1>1, StripeAlone, RowsStand
<1>5. OthersRows(r)
  BY <1>4, NothingAssumption DEF OthersRows, RowStands
<1>6. Creative(r)' /\ ListsLast(r)'
  BY <1>3 DEF Creative, ListsLast, Answering
<1>7. ASSUME NEW i \in Operations
      PROVE  RowFits(i, r)'
  <2> SUFFICES ASSUME ops'[i] # Nothing, ops'[i].owner = r
               PROVE  RowFits(i, r)'
    BY DEF RowFits
  <2>1. /\ ops[i] # Nothing /\ ops[i].owner = r /\ ops'[i].kind = ops[i].kind /\ ops'[i].attempt = ops[i].attempt
        /\ ops[i].live = TRUE => ops'[i].live = TRUE
        /\ RowFits(i, r) /\ RowInOrder(ops[i])
    BY <1>4, RowsRight, RowTyped, NothingAssumption DEF RowStands, Coherent
  <2> QED BY <1>1, <1>3, <2>1, NothingAssumption DEF RowFits, RowInOrder, Bare, Reserved
<1>8. ASSUME NEW a \in Attempts, NEW o \in Aims, ByRequest(r, a, o)'
      PROVE  Claim(a, o)
  BY <1>3, <1>8 DEF ByRequest, Answering
<1>9. ASSUME NEW a \in Attempts, NEW o \in Aims, NEW i \in Operations, ByRow(i, a, o)'
      PROVE  Claim(a, o)
  BY <1>1, <1>9, NothingAssumption DEF ByRow
<1> QED BY <1>1, <1>2, <1>4, <1>5, <1>6, <1>7, <1>8, <1>9, StepCoheres

\* The row of r is renewed for an attempt, and no other is touched.
LEMMA RenewedRows ==
    ASSUME IInv, NEW r \in Requests, NEW a, ops' = RenewedFor(r, a), NEW i \in Operations
    PROVE  /\ ops'[i] # Nothing => ops[i] # Nothing
           /\ i \notin Owned(r) => ops'[i] = ops[i]
           /\ i \in Owned(r) => /\ ops'[i].live = TRUE /\ ops'[i].attempt = a /\ ops'[i].owner = r
                                /\ ops'[i].kind = ops[i].kind /\ ops'[i].offer = ops[i].offer
<1>1. CASE i \notin Owned(r)
  BY <1>1 DEF RenewedFor
<1>2. CASE i \in Owned(r)
  <2>1. ops[i] # Nothing /\ ops[i] \in Operation /\ ops[i].owner = r
    BY <1>2, RowsRight, RowTyped DEF Owned
  <2> DEFINE row == [ops[i] EXCEPT !.live = TRUE]
  <2>2. Renewed(r)[i] = row /\ ops'[i] = [Renewed(r)[i] EXCEPT !.attempt = a]
    BY <1>2 DEF RenewedFor, Renewed
  <2>3. ops'[i] = [row EXCEPT !.attempt = a]
    BY <2>2
  <2>4. /\ ops'[i].live = TRUE /\ ops'[i].attempt = a /\ ops'[i].owner = r
        /\ ops'[i].kind = ops[i].kind /\ ops'[i].offer = ops[i].offer
    BY <2>1, <2>3 DEF Operation
  <2> QED BY <1>2, <2>1, <2>4
<1> QED BY <1>1, <1>2

LEMMA OthersKeepRows ==
    ASSUME IInv, NEW r \in Requests, NEW a, ops' = RenewedFor(r, a)
    PROVE  OthersRows(r)
<1> SUFFICES ASSUME NEW i \in Operations, NEW s \in Requests \ {r}, ops'[i] # Nothing, ops'[i].owner = s
             PROVE  ops[i] # Nothing /\ i \notin Owned(r) /\ ops'[i] = ops[i]
  BY DEF OthersRows
<1>1. i \notin Owned(r)
  BY RenewedRows
<1> QED BY <1>1, RenewedRows

\* A request that decides for the attempt there is: it answers with its session,
\* creates it, or expires the session it replaces.
LEMMA SameCoheres ==
    ASSUME IInv, IInv', Coherent, NEW r \in Requests, req[r].pc = "decide", req[r].want \in Offers, Same(r),
           ops' = RenewedFor(r, user.attempt), user'.attempt = user.attempt, user'.offer = user.offer,
           UNCHANGED <<session, late>>, NEW q, Becomes(r, q) \/ Bumps(r, q),
           q.pc \in {"expire", "complete", "create"}, q.want = req[r].want, q.sessions = Nothing,
           q.pc = "create" => q.attempt = user.attempt /\ q.offer = req[r].want,
           q.pc = "complete" /\ q.attempt # Nothing =>
               q.attempt = user.attempt /\ session[user.attempt].status # "none"
    PROVE  Coherent'
<1>1. req'[r] = q /\ OthersStand(r)
  BY OthersGoOn
<1>2. UserStands /\ SessionsStand /\ LateStands /\ OthersRows(r)
  BY StripeAlone, OthersKeepRows DEF UserStands
<1>3. Creative(r)' /\ ListsLast(r)'
  BY <1>1 DEF Creative, ListsLast, Answering
<1>4. ASSUME NEW i \in Operations
      PROVE  RowFits(i, r)'
  <2> SUFFICES ASSUME ops'[i] # Nothing, ops'[i].owner = r
               PROVE  RowFits(i, r)'
    BY DEF RowFits
  <2>1. i \in Owned(r)
    BY RenewedRows DEF Owned
  <2>2. ops'[i].live = TRUE /\ ops'[i].kind = ops[i].kind /\ ops'[i].offer = ops[i].offer /\ RowFits(i, r)
    BY <2>1, RenewedRows DEF Coherent
  <2> QED BY <1>1, <2>1, <2>2 DEF RowFits, Owned, Bare, Reserved
<1>5. ASSUME NEW a \in Attempts, NEW o \in Aims, ByRequest(r, a, o)'
      PROVE  Claim(a, o)
  <2>1. a = user.attempt /\ o = req[r].want
    BY <1>1, <1>5, NothingAssumption DEF ByRequest, Answering
  <2> QED BY <2>1 DEF Claim, Same
<1>6. ASSUME NEW a \in Attempts, NEW o \in Aims, NEW i \in Operations, ByRow(i, a, o)'
      PROVE  Claim(a, o)
  <2>0. ops'[i] # Nothing /\ ops'[i].offer = o /\ a = user.attempt
    BY <1>6 DEF ByRow
  <2>1. CASE i \in Owned(r)
    <3>1. RowFits(i, r) /\ ops[i] # Nothing /\ ops[i].owner = r
      BY <2>1 DEF Coherent, Owned
    <3>2. o = req[r].want
      BY <2>0, <2>1, <3>1, RenewedRows DEF RowFits, Reserved
    <3> QED BY <2>0, <3>2 DEF Claim, Same
  <2>2. CASE i \notin Owned(r)
    <3>1. ops'[i] = ops[i] /\ ops[i] # Nothing /\ ops[i].owner # r
      BY <2>0, <2>2, RenewedRows DEF Owned
    <3>2. ByRow(i, a, o)
      BY <1>1, <1>6, <3>1 DEF ByRow, OthersStand
    <3> QED BY <3>2 DEF Claim, Bound
  <2> QED BY <2>1, <2>2
<1> QED BY <1>1, <1>2, <1>3, <1>4, <1>5, <1>6, StepCoheres

LEMMA Deciding ==
    ASSUME IInv, NEW r \in Requests, Coordinates(r)
    PROVE  req[r].pc = "decide" /\ req[r].want \in Offers /\ req[r].fresh = TRUE
BY ReqTyped DEF IInv, Typed, InOrder, Coordinates, At, Request

LEMMA ReusesCoheres ==
    ASSUME IInv, IInv', Coherent, NEW r \in Requests, Reuses(r)
    PROVE  Coherent'
<1> DEFINE q == [Enter(r, "complete") EXCEPT !.attempt = user.attempt]
<1>1. /\ Same(r) /\ ops' = RenewedFor(r, user.attempt) /\ Bumps(r, q) /\ UNCHANGED <<session, late>>
      /\ Coordinates(r) /\ Has(r, AttemptSession(r), "open")
  BY DEF Reuses, stripe, Undisturbed
<1>2. user'.attempt = user.attempt /\ user'.offer = user.offer
  BY RowsRight DEF Reuses, UserRight, User
<1>3. q.pc = "complete" /\ q.want = req[r].want /\ q.sessions = Nothing /\ q.attempt = user.attempt
  BY DEF Enter, Idle
<1>4. session[user.attempt].status # "none"
  <2>1. user.attempt \in Attempts /\ req[r].sessions[user.attempt] = "open"
    BY <1>1 DEF Has, AttemptSession, Listed
  <2>2. ListsLast(r)
    BY DEF Coherent
  <2> QED BY <1>1, <2>1, <2>2, Deciding DEF ListsLast
<1> HIDE DEF q
<1> QED BY <1>1, <1>2, <1>3, <1>4, Deciding, SameCoheres

LEMMA ExpiresFirstCoheres ==
    ASSUME IInv, IInv', Coherent, NEW r \in Requests, ExpiresFirst(r)
    PROVE  Coherent'
<1> DEFINE q == Expire(r, user.attempt, user.session)
<1>1. /\ Same(r) /\ ops' = RenewedFor(r, user.attempt) /\ Becomes(r, q) /\ UNCHANGED <<user, session, late>>
      /\ Coordinates(r)
  BY DEF ExpiresFirst, stripe, rows, NotReused, Undisturbed
<1>2. /\ q.pc \in {"expire", "complete", "create"} /\ q.want = req[r].want /\ q.sessions = Nothing
      /\ q.pc = "create" => q.attempt = user.attempt /\ q.offer = req[r].want
      /\ q.pc = "complete" => q.attempt = Nothing
  <2>1. \/ q = [Enter(r, "expire") EXCEPT !.attempt = user.attempt, !.target = user.session]
        \/ q = Enter(r, "complete")
        \/ q = [Enter(r, "create") EXCEPT !.attempt = user.attempt, !.offer = req[r].want]
    BY DEF Expire
  <2> QED BY <2>1 DEF Enter, Idle
<1> HIDE DEF q
<1> QED BY <1>1, <1>2, Deciding, SameCoheres

LEMMA ProceedsCoheres ==
    ASSUME IInv, IInv', Coherent, NEW r \in Requests, Proceeds(r)
    PROVE  Coherent'
<1> DEFINE q == ToCreate(r, user.attempt)
<1>1. /\ Same(r) /\ ops' = RenewedFor(r, user.attempt) /\ Becomes(r, q) /\ UNCHANGED <<user, session, late>>
      /\ Coordinates(r)
  BY DEF Proceeds, stripe, rows, NotReused, Undisturbed
<1>2. /\ q.pc = "create" /\ q.want = req[r].want /\ q.sessions = Nothing
      /\ q.attempt = user.attempt /\ q.offer = req[r].want
  BY DEF ToCreate, Enter, Idle
<1> HIDE DEF q
<1> QED BY <1>1, <1>2, Deciding, SameCoheres

-----------------------------------------------------------------------------
(* A new attempt *)

LEMMA NobodyKnows ==
    ASSUME NEW a \in Attempts, NewAttempt(a)
    PROVE  /\ a \notin {user.attempt, user.session} \cup intents \cup subs /\ session[a].status # "open"
           /\ \A o \in Aims : [attempt |-> a, offer |-> o] \notin late
           /\ \A i \in Operations : ops[i] # Nothing => ops[i].attempt # a
           /\ \A s \in Requests : req[s].attempt # a /\ req[s].target # a /\ a \notin req[s].todo
<1>1. a \notin Mentioned /\ session[a].status # "open"
  BY DEF NewAttempt, Unused
<1>2. \A o \in Aims : [attempt |-> a, offer |-> o] \notin late
  <2> SUFFICES ASSUME NEW o \in Aims, [attempt |-> a, offer |-> o] \in late
               PROVE  FALSE
    OBVIOUS
  <2>1. [attempt |-> a, offer |-> o].attempt = a
    OBVIOUS
  <2>2. a \in {c.attempt : c \in late}
    BY <2>1
  <2> QED BY <1>1, <2>2 DEF Mentioned
<1>3. \A i \in Operations : ops[i] # Nothing => ops[i].attempt # a
  BY <1>1 DEF Mentioned
<1>4. \A s \in Requests : req[s].attempt # a /\ req[s].target # a /\ a \notin req[s].todo
  BY <1>1 DEF Mentioned, AttemptsIn
<1> QED BY <1>1, <1>2, <1>3, <1>4 DEF Mentioned

\* No other request remembers a list.
Relists(r) ==
    \A s \in Requests \ {r} : req'[s].sessions = Nothing /\ req'[s].fresh = FALSE

LEMMA BumpsRelists ==
    ASSUME IInv, NEW r \in Requests, NEW q, Bumps(r, q)
    PROVE  Relists(r)
<1> SUFFICES ASSUME NEW s \in Requests \ {r}
             PROVE  req'[s].sessions = Nothing /\ req'[s].fresh = FALSE
  BY DEF Relists
<1>1. req'[s] = Dull(req[s]) /\ req[s] \in Request
  BY ReqTyped DEF Bumps, IInv, Typed
<1> QED BY <1>1 DEF Dull, Request

\* The rows of r are for what it wants, others are kept.
AnewRows(r) ==
    \A i \in Operations : ops'[i] # Nothing =>
        \/ /\ ops[i] # Nothing /\ ops'[i].owner # r /\ ops'[i].owner = ops[i].owner
           /\ ops'[i].kind = ops[i].kind /\ ops'[i].attempt = ops[i].attempt /\ ops'[i].offer = ops[i].offer
           /\ ops[i].live = TRUE => ops'[i].live = TRUE
        \/ /\ ops'[i].owner = r /\ ops'[i].live = TRUE
           /\ ops'[i].kind = "checkout" /\ ops'[i].offer = req[r].want

LEMMA AnewCoheres ==
    ASSUME IInv, IInv', Coherent, NEW r \in Requests, NEW a \in Attempts, NewAttempt(a),
           user'.attempt = a, user'.offer = req[r].want, session' = [session EXCEPT ![a] = Uncreated], late' = late,
           AnewRows(r), NEW q, Bumps(r, q), q.want = req[r].want, q.sessions = Nothing,
           q.pc \in {"customer", "expire", "complete", "create"},
           q.pc = "complete" => q.attempt = Nothing,
           q.pc = "create" => q.attempt = a /\ q.offer = req[r].want
    PROVE  Coherent'
<1>1. req'[r] = q /\ OthersStand(r) /\ Relists(r)
  BY OthersGoOn, BumpsRelists
<1>2. session'[a].status = "none" /\ \A b \in Attempts \ {a} : session'[b] = session[b]
  BY RowsRight DEF SessionsRight, Uncreated
<1>3. ASSUME NEW b \in Attempts \ {a}, NEW o \in Aims, Claim(b, o)'
      PROVE  Claim(b, o)
  <2>1. ASSUME NEW s \in Requests, ByRequest(s, b, o)'
        PROVE  ByRequest(s, b, o)
    BY <1>1, <2>1, NothingAssumption DEF OthersStand, ByRequest, Answering
  <2>2. ASSUME NEW i \in Operations
        PROVE  ~ByRow(i, b, o)'
    BY DEF ByRow
  <2> QED BY <1>2, <1>3, <2>1, <2>2 DEF Claim, Bound
<1>4. ASSUME NEW o \in Aims, Claim(a, o)'
      PROVE  o = req[r].want
  <2>1. ASSUME NEW s \in Requests, ByRequest(s, a, o)'
        PROVE  o = req[r].want
    <3>1. req[s].attempt # a
      BY NobodyKnows
    <3> QED BY <1>1, <2>1, <3>1, NothingAssumption DEF OthersStand, ByRequest, Answering
  <2>2. ASSUME NEW i \in Operations, ByRow(i, a, o)'
        PROVE  o = req[r].want
    <3>1. ops[i] # Nothing => ops[i].attempt # a
      BY NobodyKnows
    <3> QED BY <2>2, <3>1 DEF ByRow, AnewRows
  <2>3. [attempt |-> a, offer |-> o] \notin late'
    BY NobodyKnows
  <2> QED BY <1>2, <1>4, <2>1, <2>2, <2>3 DEF Claim, Bound
<1>5. OneOffer'
  <2> SUFFICES ASSUME NEW b \in Attempts, NEW o \in Aims, NEW p \in Aims, Claim(b, o)', Claim(b, p)'
               PROVE  o = p
    BY DEF OneOffer
  <2>1. CASE b = a
    BY <1>4, <2>1
  <2>2. CASE b # a
    <3>1. Claim(b, o) /\ Claim(b, p)
      BY <1>3, <2>2
    <3> QED BY <3>1 DEF Coherent, OneOffer
  <2> QED BY <2>1, <2>2
<1>6. ASSUME NEW s \in Requests
      PROVE  Creative(s)' /\ ListsLast(s)'
  <2>1. CASE s = r
    BY <1>1, <2>1 DEF Creative, ListsLast, Answering
  <2>2. CASE s # r
    <3>1. Creative(s) /\ req[s].attempt \in Maybe(Attempts) /\ InOrder(req[s]) /\ req[s].attempt # a
      BY ReqTyped, ReqFields, NobodyKnows DEF Coherent, IInv, Typed
    <3>2. req[s].pc \in {"keep", "keep_recovered"} \/ Answering(s) => req[s].attempt \in Attempts
      BY <3>1 DEF InOrder, Answering, Maybe
    <3>3. Creative(s)'
      BY <1>1, <1>2, <2>2, <3>1, <3>2 DEF OthersStand, Creative, Answering
    <3>4. ListsLast(s)'
      BY <1>1, <2>2 DEF Relists, ListsLast
    <3> QED BY <3>3, <3>4
  <2> QED BY <2>1, <2>2
<1>7. ASSUME NEW s \in Requests, NEW i \in Operations
      PROVE  RowFits(i, s)'
  <2> SUFFICES ASSUME ops'[i] # Nothing, ops'[i].owner = s
               PROVE  RowFits(i, s)'
    BY DEF RowFits
  <2>1. CASE s = r
    BY <1>1, <2>1 DEF AnewRows, RowFits, Bare, Reserved
  <2>2. CASE s # r
    <3>1. /\ ops[i] # Nothing /\ ops[i].owner = s /\ ops'[i].kind = ops[i].kind
          /\ ops'[i].attempt = ops[i].attempt /\ ops'[i].offer = ops[i].offer
          /\ ops[i].live = TRUE => ops'[i].live = TRUE
          /\ RowFits(i, s)
      BY <2>2 DEF AnewRows, Coherent
    <3>2. ops[i].attempt # a
      BY <3>1, NobodyKnows
    <3> QED BY <1>1, <2>2, <3>1, <3>2 DEF OthersStand, RowFits
  <2> QED BY <2>1, <2>2
<1> QED BY <1>5, <1>6, <1>7 DEF Coherent

LEMMA AnewRenews ==
    ASSUME IInv, Coherent, NEW r \in Requests, req[r].pc = "decide", NEW a, ops' = RenewedFor(r, a)
    PROVE  AnewRows(r)
<1> SUFFICES ASSUME NEW i \in Operations, ops'[i] # Nothing
             PROVE  \/ /\ ops[i] # Nothing /\ ops'[i].owner # r /\ ops'[i].owner = ops[i].owner
                       /\ ops'[i].kind = ops[i].kind /\ ops'[i].attempt = ops[i].attempt /\ ops'[i].offer = ops[i].offer
                       /\ ops[i].live = TRUE => ops'[i].live = TRUE
                    \/ /\ ops'[i].owner = r /\ ops'[i].live = TRUE
                       /\ ops'[i].kind = "checkout" /\ ops'[i].offer = req[r].want
  BY DEF AnewRows
<1>1. CASE i \in Owned(r)
  <2>1. RowFits(i, r) /\ ops[i] # Nothing /\ ops[i].owner = r
    BY <1>1 DEF Coherent, Owned
  <2>2. ops[i].kind = "checkout" /\ ops[i].offer = req[r].want
    BY <2>1 DEF RowFits, Reserved
  <2>3. /\ ops'[i].live = TRUE /\ ops'[i].owner = r
        /\ ops'[i].kind = ops[i].kind /\ ops'[i].offer = ops[i].offer
    BY <1>1, RenewedRows
  <2> QED BY <2>2, <2>3
<1>2. CASE i \notin Owned(r)
  <2>1. ops'[i] = ops[i]
    BY <1>2, RenewedRows
  <2> QED BY <1>2, <2>1 DEF Owned
<1> QED BY <1>1, <1>2

LEMMA NewAttemptFields ==
    ASSUME IInv, NEW r, NEW a, NEW s, NewAttemptFor(r, a, s)
    PROVE  /\ user'.attempt = a /\ user'.offer = req[r].want /\ user'.session = s
           /\ NewAttempt(a) /\ session' = [session EXCEPT ![a] = Uncreated] /\ ops' = RenewedFor(r, a)
BY RowsRight DEF NewAttemptFor, UserRight, User

LEMMA SupersedesCoheres ==
    ASSUME IInv, IInv', Coherent, NEW r \in Requests, Supersedes(r)
    PROVE  Coherent'
<1>1. Coordinates(r) /\ late' = late
  BY DEF Supersedes, NotReused, Undisturbed
<1>2. PICK a \in Attempts, known \in KnownSession(r) : NewAttemptFor(r, a, known) /\ Bumps(r, Expire(r, a, known))
  BY DEF Supersedes
<1> DEFINE q == Expire(r, a, known)
<1>3. /\ q.pc \in {"expire", "complete", "create"} /\ q.want = req[r].want /\ q.sessions = Nothing
      /\ q.pc = "create" => q.attempt = a /\ q.offer = req[r].want
      /\ q.pc = "complete" => q.attempt = Nothing
  <2>1. \/ q = [Enter(r, "expire") EXCEPT !.attempt = a, !.target = known]
        \/ q = Enter(r, "complete")
        \/ q = [Enter(r, "create") EXCEPT !.attempt = a, !.offer = req[r].want]
    BY DEF Expire
  <2> QED BY <2>1 DEF Enter, Idle
<1>4. Bumps(r, q)
  BY <1>2
<1> HIDE DEF q
<1>5. /\ user'.attempt = a /\ user'.offer = req[r].want /\ NewAttempt(a)
      /\ session' = [session EXCEPT ![a] = Uncreated] /\ ops' = RenewedFor(r, a)
  BY <1>2, NewAttemptFields
<1>6. AnewRows(r)
  BY <1>1, <1>5, Deciding, AnewRenews
<1> QED BY <1>1, <1>3, <1>4, <1>5, <1>6, AnewCoheres

LEMMA StartsAnewCoheres ==
    ASSUME IInv, IInv', Coherent, NEW r \in Requests, StartsAnew(r)
    PROVE  Coherent'
<1>1. Coordinates(r) /\ late' = late
  BY DEF StartsAnew, NotReused, Undisturbed
<1>2. PICK a \in Attempts : NewAttemptFor(r, a, Nothing) /\ Bumps(r, ToCreate(r, a))
  BY DEF StartsAnew
<1> DEFINE q == ToCreate(r, a)
<1>3. /\ q.pc = "create" /\ q.want = req[r].want /\ q.sessions = Nothing
      /\ q.attempt = a /\ q.offer = req[r].want
  BY DEF ToCreate, Enter, Idle
<1>4. Bumps(r, q)
  BY <1>2
<1> HIDE DEF q
<1>5. /\ user'.attempt = a /\ user'.offer = req[r].want /\ NewAttempt(a)
      /\ session' = [session EXCEPT ![a] = Uncreated] /\ ops' = RenewedFor(r, a)
  BY <1>2, NewAttemptFields
<1>6. AnewRows(r)
  BY <1>1, <1>5, Deciding, AnewRenews
<1> QED BY <1>1, <1>3, <1>4, <1>5, <1>6, AnewCoheres

-----------------------------------------------------------------------------
(* A new operation *)

LEMMA RowFields ==
    ASSUME NEW r, NEW kind, NEW a, NEW o
    PROVE  /\ Row(r, kind, a, o).kind = kind /\ Row(r, kind, a, o).attempt = a /\ Row(r, kind, a, o).offer = o
           /\ Row(r, kind, a, o).owner = r /\ Row(r, kind, a, o).live = TRUE
BY DEF Row

\* A request that had no operation has the one of row i.
LEMMA OneRowAdded ==
    ASSUME IInv, Coherent, NEW r \in Requests, req[r].pc \in Bare, NEW i \in Operations, FreeRow(i),
           NEW row, ops' = [ops EXCEPT ![i] = row]
    PROVE  /\ ops'[i] = row /\ ops[i] = Nothing
           /\ \A j \in Operations \ {i} : ops'[j] = ops[j]
           /\ \A j \in Operations : ops[j] # Nothing => ops[j].owner # r
BY RowsRight DEF OpsRight, FreeRow, Coherent, RowFits

\* The reservation for the attempt there is.
LEMMA JoinsCoheres ==
    ASSUME IInv, IInv', Coherent, NEW r \in Requests, req[r].pc = "reserve", NEW i \in Operations, FreeRow(i),
           NEW a, ops' = [ops EXCEPT ![i] = Row(r, "checkout", a, req[r].want)],
           UNCHANGED <<user, session, late>>, Bumps(r, Enter(r, "customer"))
    PROVE  Coherent'
<1> DEFINE row == Row(r, "checkout", a, req[r].want)
<1>1. /\ ops'[i] = row /\ ops[i] = Nothing /\ \A j \in Operations \ {i} : ops'[j] = ops[j]
      /\ \A j \in Operations : ops[j] # Nothing => ops[j].owner # r
  BY OneRowAdded DEF Bare
<1>2. row.kind = "checkout" /\ row.offer = req[r].want /\ row.owner = r /\ row.live = TRUE
  BY DEF Row
<1>3. req'[r] = Enter(r, "customer") /\ OthersStand(r)
  BY OthersGoOn
<1>4. req'[r].pc = "customer" /\ req'[r].want = req[r].want /\ req'[r].sessions = Nothing
  BY <1>3 DEF Enter, Idle
<1> HIDE DEF row
<1>5. UserStands /\ SessionsStand /\ LateStands
  BY StripeAlone DEF UserStands
<1>6. OthersRows(r)
  BY <1>1, <1>2 DEF OthersRows
<1>7. Creative(r)' /\ ListsLast(r)'
  BY <1>4 DEF Creative, ListsLast, Answering
<1>8. ASSUME NEW j \in Operations
      PROVE  RowFits(j, r)'
  BY <1>1, <1>2, <1>4 DEF RowFits, Bare, Reserved
<1>9. ASSUME NEW b \in Attempts, NEW o \in Aims, ByRequest(r, b, o)'
      PROVE  Claim(b, o)
  BY <1>4, <1>9 DEF ByRequest, Answering
<1>10. ASSUME NEW b \in Attempts, NEW o \in Aims, NEW j \in Operations, ByRow(j, b, o)'
       PROVE  Claim(b, o)
  <2>1. j # i
    BY <1>1, <1>2, <1>4, <1>10 DEF ByRow, Settling
  <2>2. ops'[j] = ops[j]
    BY <1>1, <2>1
  <2>3. ops[j] # Nothing /\ ops[j].owner # r
    BY <1>1, <1>10, <2>2 DEF ByRow
  <2>4. ByRow(j, b, o)
    BY <1>3, <1>10, <2>2, <2>3 DEF ByRow, OthersStand
  <2> QED BY <2>4 DEF Claim, Bound
<1> QED BY <1>3, <1>5, <1>6, <1>7, <1>8, <1>9, <1>10, StepCoheres

LEMMA ReservesCoheres ==
    ASSUME IInv, IInv', Coherent, NEW r \in Requests, Reserves(r)
    PROVE  Coherent'
<1>1. PICK i \in Operations, a \in Attempts :
        /\ FreeRow(i)
        /\ IF user.attempt = Nothing THEN NewAttempt(a) ELSE a = user.attempt
        /\ user' = IF user.attempt # Nothing THEN user
                   ELSE [user EXCEPT !.attempt = a, !.offer = req[r].want, !.age = 0, !.session = Nothing]
        /\ session' = IF user.attempt # Nothing THEN session ELSE [session EXCEPT ![a] = Uncreated]
        /\ ops' = [ops EXCEPT ![i] = Row(r, "checkout", a, req[r].want)]
  BY DEF Reserves
<1>2. req[r].pc = "reserve" /\ Bumps(r, Enter(r, "customer")) /\ late' = late
  BY DEF Reserves, At
<1>3. CASE user.attempt # Nothing
  <2>1. user' = user /\ session' = session /\ ops' = [ops EXCEPT ![i] = Row(r, "checkout", a, req[r].want)] /\ FreeRow(i)
    BY <1>1, <1>3
  <2> QED BY <1>2, <2>1, JoinsCoheres
<1>4. CASE user.attempt = Nothing
  <2> DEFINE row == Row(r, "checkout", a, req[r].want)
             q == Enter(r, "customer")
  <2>1. /\ NewAttempt(a) /\ session' = [session EXCEPT ![a] = Uncreated]
        /\ user' = [user EXCEPT !.attempt = a, !.offer = req[r].want, !.age = 0, !.session = Nothing]
    BY <1>1, <1>4
  <2>2. user'.attempt = a /\ user'.offer = req[r].want
    BY <2>1, RowsRight DEF UserRight, User
  <2>3. /\ ops'[i] = row /\ ops[i] = Nothing /\ \A j \in Operations \ {i} : ops'[j] = ops[j]
        /\ \A j \in Operations : ops[j] # Nothing => ops[j].owner # r
    BY <1>1, <1>2, OneRowAdded DEF Bare
  <2>4. row.kind = "checkout" /\ row.offer = req[r].want /\ row.owner = r /\ row.live = TRUE
    BY DEF Row
  <2> HIDE DEF row
  <2>5. AnewRows(r)
    BY <2>3, <2>4 DEF AnewRows
  <2>6. q.pc = "customer" /\ q.want = req[r].want /\ q.sessions = Nothing
    BY DEF Enter, Idle
  <2>7. Bumps(r, q)
    BY <1>2
  <2> HIDE DEF q
  <2> QED BY <1>2, <2>1, <2>2, <2>5, <2>6, <2>7, AnewCoheres
<1> QED BY <1>3, <1>4

LEMMA ReservesPortalCoheres ==
    ASSUME IInv, IInv', Coherent, NEW r \in Requests, ReservesPortal(r)
    PROVE  Coherent'
<1>1. req[r].pc \in Bare /\ UNCHANGED <<user, session, late>>
  BY DEF ReservesPortal, At, Bare, stripe
<1>2. CASE Becomes(r, Idle) /\ ops' = ops
  BY <1>1, <1>2, IdleFields, RequestAloneCoheres DEF Phases
<1>3. ASSUME NEW i \in Operations, FreeRow(i), ops' = [ops EXCEPT ![i] = Row(r, "portal", Nothing, Nothing)],
             Bumps(r, Enter(r, "renew"))
      PROVE  Coherent'
  <2> DEFINE row == Row(r, "portal", Nothing, Nothing)
  <2>1. /\ ops'[i] = row /\ ops[i] = Nothing /\ \A j \in Operations \ {i} : ops'[j] = ops[j]
        /\ \A j \in Operations : ops[j] # Nothing => ops[j].owner # r
    BY <1>1, <1>3, OneRowAdded
  <2>2. row.kind = "portal" /\ row.owner = r /\ row.live = TRUE
    BY DEF Row
  <2>3. req'[r] = Enter(r, "renew") /\ OthersStand(r)
    BY <1>3, OthersGoOn
  <2>4. req'[r].pc = "renew" /\ req'[r].sessions = Nothing
    BY <2>3 DEF Enter, Idle
  <2> HIDE DEF row
  <2>5. UserStands /\ SessionsStand /\ LateStands
    BY <1>1, StripeAlone DEF UserStands
  <2>6. OthersRows(r)
    BY <2>1, <2>2 DEF OthersRows
  <2>7. Creative(r)' /\ ListsLast(r)'
    BY <2>4 DEF Creative, ListsLast, Answering
  <2>8. ASSUME NEW j \in Operations
        PROVE  RowFits(j, r)'
    BY <2>1, <2>2, <2>4 DEF RowFits, Bare, Reserved
  <2>9. ASSUME NEW b \in Attempts, NEW o \in Aims, ByRequest(r, b, o)'
        PROVE  Claim(b, o)
    BY <2>4, <2>9 DEF ByRequest, Answering
  <2>10. ASSUME NEW b \in Attempts, NEW o \in Aims, NEW j \in Operations, ByRow(j, b, o)'
         PROVE  Claim(b, o)
    <3>1. j # i
      BY <2>1, <2>2, <2>10 DEF ByRow
    <3>2. ops'[j] = ops[j]
      BY <2>1, <3>1
    <3>3. ops[j] # Nothing /\ ops[j].owner # r
      BY <2>1, <2>10, <3>2 DEF ByRow
    <3>4. ByRow(j, b, o)
      BY <1>1, <2>3, <2>10, <3>2, <3>3 DEF ByRow, OthersStand
    <3> QED BY <3>4 DEF Claim, Bound
  <2> QED BY <2>3, <2>5, <2>6, <2>7, <2>8, <2>9, <2>10, StepCoheres
<1> QED BY <1>2, <1>3 DEF ReservesPortal

LEMMA RenewsFenceCoheres ==
    ASSUME IInv, IInv', Coherent, NEW r \in Requests, RenewsFence(r)
    PROVE  Coherent'
<1>1. /\ req[r].pc = "renew" /\ UNCHANGED <<user, session, late>> /\ ops' = Renewed(r)
  BY DEF RenewsFence, At, stripe
<1>2. UserStands /\ SessionsStand /\ LateStands /\ \A i \in Operations : RowStands(i, r)
  BY <1>1, StripeAlone, RowsStand DEF UserStands
<1>3. CASE Owned(r) = {} /\ Becomes(r, Idle)
  <2>1. Disowned(r)
    BY <1>1, <1>3, RowsLeave
  <2> QED BY <1>2, <1>3, <2>1, IdleFields, EntryCoheres DEF Phases
<1>4. CASE Becomes(r, Enter(r, "portal"))
  <2>1. req'[r] = Enter(r, "portal") /\ OthersStand(r)
    BY <1>4, OthersGoOn
  <2>2. req'[r].pc = "portal" /\ req'[r].sessions = Nothing
    BY <2>1 DEF Enter, Idle
  <2>3. OthersRows(r)
    BY <1>2, NothingAssumption DEF OthersRows, RowStands
  <2>4. Creative(r)' /\ ListsLast(r)'
    BY <2>2 DEF Creative, ListsLast, Answering
  <2>5. ASSUME NEW i \in Operations
        PROVE  RowFits(i, r)'
    <3> SUFFICES ASSUME ops'[i] # Nothing, ops'[i].owner = r
                 PROVE  RowFits(i, r)'
      BY DEF RowFits
    <3>1. /\ ops[i] # Nothing /\ ops[i].owner = r /\ ops'[i].kind = ops[i].kind
          /\ ops[i].live = TRUE => ops'[i].live = TRUE
          /\ RowFits(i, r)
      BY <1>2, NothingAssumption DEF RowStands, Coherent
    <3> QED BY <1>1, <2>2, <3>1 DEF RowFits, Bare, Reserved
  <2>6. ASSUME NEW b \in Attempts, NEW o \in Aims, ByRequest(r, b, o)'
        PROVE  Claim(b, o)
    BY <2>2, <2>6 DEF ByRequest, Answering
  <2>7. ASSUME NEW b \in Attempts, NEW o \in Aims, NEW j \in Operations, ByRow(j, b, o)'
        PROVE  Claim(b, o)
    <3>1. req[r].pc \notin Settling
      BY <1>1 DEF Settling
    <3> QED BY <1>2, <2>1, <2>7, <3>1, RowsClaim DEF Claim, Bound
  <2> QED BY <1>2, <2>1, <2>3, <2>4, <2>5, <2>6, <2>7, StepCoheres
<1> QED BY <1>3, <1>4 DEF RenewsFence

-----------------------------------------------------------------------------
(* Recovery, and steps that no request makes *)

\* Requests own live rows only: a row whose lease is over is nobody's.
LEMMA ExpiredIsFree ==
    ASSUME Coherent, NEW i \in ExpiredOps, NEW s \in Requests
    PROVE  ops[i].owner # s
BY DEF Coherent, RowFits, ExpiredOps

LEMMA ClaimedRows ==
    ASSUME IInv, NEW r \in Requests, NEW i \in ExpiredOps, NEW gone, i \notin gone, NEW j \in Operations,
           ops' = Claimed(r, i, gone)
    PROVE  /\ j # i => ops'[j] = Nothing \/ ops'[j] = ops[j]
           /\ ops'[i].owner = r /\ ops'[i].live = TRUE /\ ops'[i].kind = ops[i].kind
           /\ ops'[i].attempt = ops[i].attempt /\ ops'[i].offer = ops[i].offer
<1>1. i \in Operations /\ ops[i] # Nothing /\ ops[i] \in Operation
  BY RowsRight, RowTyped DEF ExpiredOps
<1> DEFINE rest == Without(ops, gone)
           row == [ops[i] EXCEPT !.owner = r, !.live = TRUE]
<1>2. rest[i] = ops[i] /\ rest = [k \in Operations |-> rest[k]]
  BY <1>1 DEF Without
<1>3. ops' = [rest EXCEPT ![i] = row]
  <2>1. ops' = [rest EXCEPT ![i].owner = r, ![i].live = TRUE]
    BY DEF Claimed
  <2> QED BY <1>1, <1>2, <2>1 DEF Operation
<1>4. ops'[i] = row
  BY <1>1, <1>2, <1>3
<1>5. row.owner = r /\ row.live = TRUE /\ row.kind = ops[i].kind /\ row.attempt = ops[i].attempt /\ row.offer = ops[i].offer
  BY <1>1 DEF Operation
<1> HIDE DEF row
<1>6. j # i => ops'[j] = rest[j]
  BY <1>2, <1>3
<1>7. rest[j] = Nothing \/ rest[j] = ops[j]
  BY DEF Without
<1> QED BY <1>4, <1>5, <1>6, <1>7

LEMMA RecoveryFields ==
    ASSUME NEW r, NEW i
    PROVE  /\ Recovery(r, i).sessions = Nothing
           /\ ops[i].kind = "portal" => Recovery(r, i).pc = "recover_portal"
           /\ ops[i].kind # "portal" => /\ Recovery(r, i).pc = "recover"
                                        /\ Recovery(r, i).attempt = ops[i].attempt
                                        /\ Recovery(r, i).offer = ops[i].offer
BY DEF Recovery, Enter, Idle

LEMMA TakesOverCoheres ==
    ASSUME IInv, IInv', Coherent, NEW r \in Requests, req[r].pc = "reconcile", NEW gone,
           NEW i \in Recoverable(r), i \notin gone, ops' = Claimed(r, i, gone), Bumps(r, Recovery(r, i)),
           UserStands, UNCHANGED <<session, late>>
    PROVE  Coherent'
<1> DEFINE q == Recovery(r, i)
<1>1. i \in ExpiredOps /\ i \in Operations /\ ops[i] # Nothing /\ ops[i].kind \in {"checkout", "portal"}
  BY RowsRight, RowTyped DEF Recoverable, ExpiredOps, Operation
<1>2. req'[r] = q /\ OthersStand(r)
  BY OthersGoOn
<1>3. /\ q.sessions = Nothing
      /\ ops[i].kind = "portal" => q.pc = "recover_portal"
      /\ ops[i].kind = "checkout" => q.pc = "recover" /\ q.attempt = ops[i].attempt /\ q.offer = ops[i].offer
  BY <1>1, RecoveryFields
<1> HIDE DEF q
<1>4. SessionsStand /\ LateStands
  BY StripeAlone
<1>5. /\ ops'[i].owner = r /\ ops'[i].live = TRUE /\ ops'[i].kind = ops[i].kind
      /\ ops'[i].attempt = ops[i].attempt /\ ops'[i].offer = ops[i].offer
      /\ \A j \in Operations \ {i} : ops'[j] = Nothing \/ ops'[j] = ops[j]
  <2>1. ASSUME NEW j \in Operations
        PROVE  /\ j # i => ops'[j] = Nothing \/ ops'[j] = ops[j]
               /\ ops'[i].owner = r /\ ops'[i].live = TRUE /\ ops'[i].kind = ops[i].kind
               /\ ops'[i].attempt = ops[i].attempt /\ ops'[i].offer = ops[i].offer
    BY <1>1, ClaimedRows
  <2> QED BY <1>1, <2>1
<1>6. OthersRows(r)
  BY <1>5 DEF OthersRows
<1>7. Creative(r)' /\ ListsLast(r)'
  BY <1>1, <1>2, <1>3 DEF Creative, ListsLast, Answering
<1>8. \A j \in Operations : ops[j] # Nothing => ops[j].owner # r
  BY DEF Coherent, RowFits, Bare
<1>9. ASSUME NEW j \in Operations
      PROVE  RowFits(j, r)'
  BY <1>1, <1>2, <1>3, <1>5, <1>8 DEF RowFits, Bare, Reserved
<1>10. ASSUME NEW b \in Attempts, NEW o \in Aims, ByRequest(r, b, o)'
       PROVE  Claim(b, o)
  <2>1. q.pc = "recover" /\ b = ops[i].attempt /\ o = ops[i].offer /\ ops[i].kind = "checkout"
    BY <1>1, <1>2, <1>3, <1>10 DEF ByRequest, Answering
  <2>2. b = user.attempt
    BY <2>1 DEF Recoverable
  <2>3. ByRow(i, b, o)
    BY <1>1, <2>1, <2>2, ExpiredIsFree DEF ByRow
  <2> QED BY <1>1, <2>3 DEF Claim, Bound
<1>11. ASSUME NEW b \in Attempts, NEW o \in Aims, NEW j \in Operations, ByRow(j, b, o)'
       PROVE  Claim(b, o)
  <2>1. b = user'.attempt /\ b = user.attempt
    BY <1>11, NothingAssumption DEF ByRow, UserStands
  <2>2. CASE j = i
    <3>1. ByRow(i, b, o)
      BY <1>1, <1>5, <1>11, <2>1, <2>2, ExpiredIsFree DEF ByRow
    <3> QED BY <1>1, <3>1 DEF Claim, Bound
  <2>3. CASE j # i
    <3>1. ops'[j] = ops[j] /\ ops[j] # Nothing /\ ops[j].owner # r
      BY <1>5, <1>8, <1>11, <2>3 DEF ByRow
    <3>2. ByRow(j, b, o)
      BY <1>2, <1>11, <2>1, <3>1 DEF ByRow, OthersStand
    <3> QED BY <3>2 DEF Claim, Bound
  <2> QED BY <2>2, <2>3
<1> QED BY <1>2, <1>4, <1>6, <1>7, <1>9, <1>10, <1>11, StepCoheres

LEMMA ReconcilesCoheres ==
    ASSUME IInv, IInv', Coherent, NEW r \in Requests, Reconciles(r)
    PROVE  Coherent'
<1> DEFINE gone == Found(r) \cup Abandoned(r)
           next == [Enter(r, "cleanup") EXCEPT !.todo = intents']
<1>1. req[r].pc = "reconcile" /\ UNCHANGED <<session, late>> /\ req[r].pc \in Bare
  BY DEF Reconciles, At, stripe, Bare
<1>2. UserStands
  <2>1. user' = user \/ user' = [user EXCEPT !.session = user.attempt]
    BY DEF Reconciles
  <2> QED BY <2>1, RowsRight DEF UserStands, UserRight, User
<1>3. CASE ops' = Without(ops, gone) /\ (Becomes(r, next) \/ Bumps(r, next))
  <2>1. next.pc = "cleanup" /\ next.attempt = Nothing /\ next.sessions = Nothing
    BY DEF Enter, Idle
  <2>2. gone \in SUBSET Operations
    BY DEF Found, Abandoned, ExpiredOps
  <2> HIDE DEF next, gone
  <2>3. \A i \in Operations : RowStands(i, r)
    BY <1>3, <2>2, RowsStand
  <2> QED BY <1>1, <1>2, <1>3, <2>1, <2>3, StripeAlone, EntryCoheres DEF Phases
<1>4. ASSUME NEW i \in Recoverable(r), ops' = Claimed(r, i, gone), Bumps(r, Recovery(r, i))
      PROVE  Coherent'
  <2>1. i \notin gone
    <3>1. i \notin Found(r)
      BY DEF Recoverable
    <3>2. i \notin Abandoned(r)
      BY DEF Recoverable, Abandoned
    <3> QED BY <3>1, <3>2
  <2> HIDE DEF gone
  <2> QED BY <1>1, <1>2, <1>4, <2>1, TakesOverCoheres
<1> QED BY <1>3, <1>4 DEF Reconciles

\* A step of the world: what requests own is kept, and they are where they were.
LEMMA WorldCoheres ==
    ASSUME IInv, Coherent, UNCHANGED req, UserStands, SessionsStand, LateStands,
           \A i \in Operations : ops'[i] # Nothing =>
               /\ ops[i] # Nothing /\ ops'[i].kind = ops[i].kind /\ ops'[i].owner = ops[i].owner
               /\ ops'[i].attempt = ops[i].attempt /\ ops'[i].offer = ops[i].offer
               /\ ops'[i].live = TRUE \/ ops'[i].live = ops[i].live \/ \A s \in Requests : ops[i].owner # s
    PROVE  Coherent'
<1>1. ASSUME NEW a \in Attempts, NEW o \in Aims, Claim(a, o)'
      PROVE  Claim(a, o)
  <2>1. CASE user'.attempt = a /\ user'.offer = o
    BY <2>1, NothingAssumption DEF UserStands, Claim
  <2>2. CASE session'[a].status # "none" /\ session'[a].offer = o
    BY <2>2 DEF SessionsStand, Claim
  <2>3. CASE [attempt |-> a, offer |-> o] \in late'
    BY <2>3 DEF LateStands, Claim
  <2>4. ASSUME NEW s \in Requests, ByRequest(s, a, o)'
        PROVE  Claim(a, o)
    BY <2>4 DEF ByRequest, Answering, Claim, Bound
  <2>5. ASSUME NEW i \in Operations, ByRow(i, a, o)'
        PROVE  Claim(a, o)
    <3>1. ByRow(i, a, o)
      BY <2>5, NothingAssumption DEF ByRow, UserStands
    <3> QED BY <3>1 DEF Claim, Bound
  <2> QED BY <1>1, <2>1, <2>2, <2>3, <2>4, <2>5 DEF Claim, Bound
<1>2. OneOffer'
  <2> SUFFICES ASSUME NEW a \in Attempts, NEW o \in Aims, NEW p \in Aims, Claim(a, o)', Claim(a, p)'
               PROVE  o = p
    BY DEF OneOffer
  <2>1. Claim(a, o) /\ Claim(a, p)
    BY <1>1
  <2> QED BY <2>1 DEF Coherent, OneOffer
<1>3. ASSUME NEW s \in Requests
      PROVE  Creative(s)' /\ ListsLast(s)'
  <2>1. Creative(s) /\ ListsLast(s) /\ req[s].attempt \in Maybe(Attempts) /\ InOrder(req[s])
    BY ReqTyped, ReqFields DEF Coherent, IInv, Typed
  <2>2. req[s].pc \in {"keep", "keep_recovered"} \/ Answering(s) => req[s].attempt \in Attempts
    BY <2>1 DEF InOrder, Answering, Maybe
  <2>3. Creative(s)'
    BY <2>1, <2>2 DEF SessionsStand, Creative, Answering
  <2>4. ListsLast(s)'
    BY <2>1 DEF SessionsStand, ListsLast
  <2> QED BY <2>3, <2>4
<1>4. ASSUME NEW s \in Requests, NEW i \in Operations
      PROVE  RowFits(i, s)'
  <2> SUFFICES ASSUME ops'[i] # Nothing, ops'[i].owner = s
               PROVE  RowFits(i, s)'
    BY DEF RowFits
  <2>1. /\ ops[i] # Nothing /\ ops[i].owner = s /\ ops'[i].kind = ops[i].kind
        /\ ops'[i].attempt = ops[i].attempt /\ ops'[i].offer = ops[i].offer /\ RowFits(i, s)
    BY DEF Coherent
  <2>2. ops'[i].live = TRUE
    BY <2>1 DEF RowFits
  <2>3. ops[i].kind = "checkout" => ops[i].attempt # Nothing
    BY <2>1, RowsRight, RowTyped, NothingAssumption DEF RowInOrder
  <2> QED BY <2>1, <2>2, <2>3 DEF RowFits, UserStands
<1> QED BY <1>2, <1>3, <1>4 DEF Coherent

LEMMA LeaseExpiresCoheres ==
    ASSUME IInv, Coherent, NEW i \in Operations, LeaseExpires(i), deaths' = deaths
    PROVE  Coherent'
<1>1. /\ ops[i] # Nothing /\ ops' = [ops EXCEPT ![i].live = FALSE] /\ UNCHANGED <<user, req, session, late>>
  BY DEF LeaseExpires, stripe
<1>2. ops[i].owner = Nothing
  BY AllTyped DEF LeaseExpires, Death, Counted
<1>3. ops[i] \in Operation /\ ops = [j \in Operations |-> ops[j]]
  BY <1>1, RowsRight, RowTyped DEF OpsRight
<1>4. /\ \A j \in Operations \ {i} : ops'[j] = ops[j]
      /\ ops'[i] = [ops[i] EXCEPT !.live = FALSE]
  BY <1>1, <1>3
<1>5. /\ ops'[i].kind = ops[i].kind /\ ops'[i].owner = ops[i].owner
      /\ ops'[i].attempt = ops[i].attempt /\ ops'[i].offer = ops[i].offer
  BY <1>3, <1>4 DEF Operation
<1>6. \A s \in Requests : ops[i].owner # s
  BY <1>2, NothingAssumption
<1> QED BY <1>1, <1>4, <1>5, <1>6, StripeAlone, WorldCoheres DEF UserStands

\* Sessions are paid, created at last, or nothing of a checkout changes.
LEMMA StripeCoheres ==
    ASSUME IInv, Coherent, UNCHANGED <<user, ops, req>>, SessionsStand, LateStands
    PROVE  Coherent'
BY WorldCoheres DEF UserStands

LEMMA PaysCoheres ==
    ASSUME IInv, Coherent, NEW a \in Attempts, Pays(a)
    PROVE  Coherent'
<1>1. SessionsAlike
  BY RowsRight DEF Pays, SessionsRight, SessionsAlike, Session
<1> QED BY <1>1, StripeStands, StripeCoheres DEF Pays, rows

LEMMA EndsCoheres ==
    ASSUME IInv, Coherent, NEW a \in Attempts, Ends(a)
    PROVE  Coherent'
BY StripeAlone, StripeCoheres DEF Ends, rows

LEMMA ArrivesLateCoheres ==
    ASSUME IInv, Coherent, NEW call \in late, ArrivesLate(call)
    PROVE  Coherent'
<1> DEFINE a == call.attempt
           o == call.offer
<1>1. a \in Attempts /\ o \in Offers /\ call = [attempt |-> a, offer |-> o]
  BY AllTyped DEF StripeTyped
<1>2. Bound(a, o)
  BY <1>1 DEF Bound
<1>3. session' = session \/ (session' = Created(a, o) /\ Accepts(a, o))
  BY DEF ArrivesLate
<1>4. late' \subseteq late /\ UNCHANGED <<user, ops, req>>
  BY DEF ArrivesLate, rows
<1> HIDE DEF a, o
<1>5. SessionsStand
  BY <1>1, <1>2, <1>3, CreationStands
<1>6. LateStands
  BY <1>4 DEF LateStands, Bound
<1> QED BY <1>4, <1>5, <1>6, StripeCoheres

LEMMA HoursPassCoheres ==
    ASSUME IInv, Coherent, HoursPass
    PROVE  Coherent'
<1>1. late' = {} /\ UNCHANGED req /\ \A r \in Requests : req[r].pc = "idle"
  BY DEF HoursPass, At
<1>2. UserStands /\ LateStands
  BY <1>1, RowsRight DEF HoursPass, UserStands, UserRight, User, LateStands
<1>3. SessionsStand
  <2> SUFFICES ASSUME NEW a \in Attempts
               PROVE  /\ session[a].status # "none" => session'[a].status # "none"
                      /\ session'[a].status # "none" => Bound(a, session'[a].offer)
    BY DEF SessionsStand
  <2>0. session[a] \in Session
    BY RowsRight DEF SessionsRight
  <2>1. CASE session[a].status = "none"
    <3>1. session'[a] = Uncreated
      BY <2>1 DEF HoursPass
    <3> QED BY <2>1, <3>1 DEF Uncreated
  <2>2. CASE session[a].status # "none"
    <3> DEFINE s == IF session[a].status = "open" /\ Older(session[a].age) = Day THEN "expired" ELSE session[a].status
    <3>1. session'[a] = [session[a] EXCEPT !.age = Older(session[a].age), !.status = s]
      BY <2>2 DEF HoursPass
    <3>2. s # "none"
      BY <2>2
    <3> HIDE DEF s
    <3>3. session'[a].status = s /\ session'[a].offer = session[a].offer
      BY <2>0, <3>1 DEF Session
    <3> QED BY <2>2, <3>2, <3>3 DEF Bound
  <2> QED BY <2>1, <2>2
<1>4. ASSUME NEW i \in Operations, ops'[i] # Nothing
      PROVE  /\ ops[i] # Nothing /\ ops'[i].kind = ops[i].kind /\ ops'[i].owner = ops[i].owner
             /\ ops'[i].attempt = ops[i].attempt /\ ops'[i].offer = ops[i].offer
             /\ \A s \in Requests : ops[i].owner # s
  <2>1. ops[i] # Nothing /\ ops'[i] = [ops[i] EXCEPT !.age = Older(ops[i].age), !.live = FALSE]
    BY <1>4 DEF HoursPass, FreeRow
  <2>2. ops[i] \in Operation
    BY <2>1, RowsRight, RowTyped
  <2>3. \A s \in Requests : ops[i].owner # s
    BY <1>1, <2>1 DEF Coherent, RowFits, Bare
  <2> QED BY <2>1, <2>2, <2>3 DEF Operation
<1> QED BY <1>1, <1>2, <1>3, <1>4, WorldCoheres

-----------------------------------------------------------------------------
(* All steps *)

Meant == deaths = 0 => Coherent

LEMMA WorkCoheres ==
    ASSUME IInv, IInv', Coherent, NEW r \in Requests, Work(r)
    PROVE  Coherent'
<1>1. CASE Reconciliation(r)
  BY <1>1, NothingExpiredCoheres, ListsSessionsCoheres, ReconcilesCoheres, RecoversPortalCoheres,
     KeepsRecoveredCoheres, CleanedUpCoheres, RetiresCoheres, UnlistsCoheres, ChecksOwnerCoheres DEF Reconciliation
<1>2. CASE Creation(r)
  BY <1>2, CreatesCoheres, CreateRefusedCoheres, CreateUnknownCoheres, KeepsCreatedCoheres DEF Creation
<1>3. CASE Coordination(r)
  BY <1>3, ListsCoheres, TurnsToPortalCoheres, ReusesCoheres, SupersedesCoheres, ExpiresFirstCoheres,
     ProceedsCoheres, StartsAnewCoheres, RefusesCoheres, ExpiresCoheres DEF Coordination
<1>4. CASE Reservation(r)
  BY <1>4, ReservesCoheres, NotReservedCoheres, EnsuresCustomerCoheres, ReservesPortalCoheres, RenewsFenceCoheres
     DEF Reservation
<1>5. CASE Ending(r)
  BY <1>5, CompletesCoheres, MarksUncertainCoheres, OpensPortalCoheres, AppliesCoheres, OutdatedCoheres DEF Ending
<1> QED BY <1>1, <1>2, <1>3, <1>4, <1>5 DEF Work

LEMMA InitMeant == Init => Meant
<1> SUFFICES ASSUME Init PROVE Coherent
  BY DEF Meant
<1>1. \A s \in Requests : req[s] = Idle
  BY DEF Init
<1>2. \A s \in Requests : req[s].pc = "idle" /\ req[s].sessions = Nothing
  BY <1>1 DEF Idle
<1>3. \A a \in Attempts : session[a].status = "none"
  BY DEF Init, Uncreated
<1>4. user.attempt = Nothing /\ late = {} /\ \A i \in Operations : ops[i] = Nothing
  BY DEF Init
<1>5. \A a \in Attempts, o \in Aims : ~Claim(a, o)
  BY <1>2, <1>3, <1>4, NothingAssumption DEF Claim, Bound, ByRequest, ByRow, Answering
<1> QED BY <1>2, <1>4, <1>5 DEF Coherent, OneOffer, Creative, ListsLast, RowFits, Answering

\* Work of a request does not kill it.
LEMMA WorkSurvives ==
    ASSUME NEW r \in Requests, Work(r)
    PROVE  deaths' = deaths
<1>1. CASE Reconciliation(r)
  BY <1>1 DEF Reconciliation, NothingExpired, ListsSessions, Reconciles, RecoversPortal, KeepsRecovered, Persist,
     CleanedUp, Retires, Unlists, ChecksOwner, bounds
<1>2. CASE Creation(r)
  BY <1>2 DEF Creation, Creates, CreateRefused, CreateUnknown, KeepsCreated, Persist, bounds
<1>3. CASE Coordination(r)
  BY <1>3 DEF Coordination, Lists, TurnsToPortal, Reuses, Supersedes, ExpiresFirst, Proceeds, StartsAnew, Refuses,
     Expires, bounds
<1>4. CASE Reservation(r)
  BY <1>4 DEF Reservation, Reserves, NotReserved, EnsuresCustomer, ReservesPortal, RenewsFence, bounds
<1>5. CASE Ending(r)
  BY <1>5 DEF Ending, Completes, MarksUncertain, OpensPortal, Applies, Outdated, bounds
<1> QED BY <1>1, <1>2, <1>3, <1>4, <1>5 DEF Work

LEMMA StepMeant == IInv /\ IInv' /\ Meant /\ [Next]_vars => Meant'
<1> SUFFICES ASSUME IInv, IInv', Meant, [Next]_vars, deaths' = 0 PROVE Coherent'
  BY DEF Meant
<1>0. deaths \in Nat
  BY AllTyped DEF Counted
<1>1. CASE UNCHANGED vars
  <2>1. deaths = 0 /\ UNCHANGED <<user, ops, req, session, late>>
    BY <1>1 DEF vars
  <2> QED BY <2>1, StripeAlone, StripeCoheres DEF Meant
<1>2. CASE DeletesUser
  <2>1. deaths = 0 /\ UNCHANGED <<user, ops, req, session, late>>
    BY <1>2 DEF DeletesUser, rows, stripe, bounds
  <2> QED BY <2>1, StripeAlone, StripeCoheres DEF Meant
<1>3. CASE Business
  <2>1. ASSUME NEW r \in Requests, Work(r)
        PROVE  Coherent'
    BY <2>1, WorkSurvives, WorkCoheres DEF Meant
  <2>2. ASSUME NEW r \in Requests, Dies(r)
        PROVE  FALSE
    BY <1>0, <2>2 DEF Dies, Death
  <2>3. ASSUME NEW r \in Requests, NEW w, Asks(r, w)
        PROVE  Coherent'
    <3>1. deaths = 0
      BY <2>3 DEF Asks
    <3> QED BY <2>3, <3>1, AsksCoheres DEF Meant
  <2>4. ASSUME NEW r \in Requests, NEW e, Webhook(r, e)
        PROVE  Coherent'
    <3>1. deaths = 0
      BY <2>4 DEF Webhook, bounds
    <3> QED BY <2>4, <3>1, WebhookCoheres DEF Meant
  <2>5. ASSUME NEW i \in Operations, LeaseExpires(i)
        PROVE  Coherent'
    <3>1. deaths' = deaths
      BY <1>0, <2>5 DEF LeaseExpires, Death
    <3> QED BY <2>5, <3>1, LeaseExpiresCoheres DEF Meant
  <2>6. ASSUME NEW a \in Attempts, Pays(a) \/ Ends(a)
        PROVE  Coherent'
    <3>1. deaths = 0
      BY <2>6 DEF Pays, Ends, bounds
    <3> QED BY <2>6, <3>1, PaysCoheres, EndsCoheres DEF Meant
  <2>7. ASSUME NEW call \in late, ArrivesLate(call)
        PROVE  Coherent'
    <3>1. deaths = 0
      BY <2>7 DEF ArrivesLate, bounds
    <3> QED BY <2>7, <3>1, ArrivesLateCoheres DEF Meant
  <2>8. CASE HoursPass
    <3>1. deaths = 0
      BY <2>8 DEF HoursPass
    <3> QED BY <2>8, <3>1, HoursPassCoheres DEF Meant
  <2> QED BY <1>3, <2>1, <2>2, <2>3, <2>4, <2>5, <2>6, <2>7, <2>8 DEF Business, World
<1> QED BY <1>1, <1>2, <1>3 DEF Next

\* What is answered is claimed, and so is what the session is for.
LEMMA MeantAnswers == IInv /\ Meant => AnswersWhatIsAsked
<1> SUFFICES ASSUME IInv, Coherent, NEW r \in Requests, NEW a \in Answer(r)
             PROVE  session[a].offer = req[r].want
  BY DEF AnswersWhatIsAsked, Meant
<1>1. /\ req[r].attempt = a /\ a # Nothing /\ req[r].pc \in {"complete", "keep"}
  BY DEF Answer, At
<1>2. a \in Attempts
  BY <1>1, ReqFields DEF IInv, Typed, Maybe
<1>3. session[a].status # "none"
  BY <1>1 DEF Coherent, Creative, Answering
<1>4. ByRequest(r, a, req[r].want)
  BY <1>1 DEF ByRequest, Answering
<1>5. Claim(a, session[a].offer) /\ Claim(a, req[r].want)
  BY <1>3, <1>4 DEF Claim, Bound
<1>6. session[a].offer \in Aims /\ req[r].want \in Aims
  BY <1>2, RowsRight, ReqFields DEF SessionsRight, Session, Maybe, Aims, IInv, Typed
<1> QED BY <1>2, <1>5, <1>6 DEF Coherent, OneOffer

\* Unless a process died, every url a request is answered with is of a session
\* for the plan and interval asked for, whatever requests share the attempt.
THEOREM AnswersAreMeant == Spec => []AnswersWhatIsAsked
<1>1. IInv /\ [Next]_vars => IInv'
  BY StepRight
<1>2. IInv /\ IInv' /\ Meant /\ [Next]_vars => Meant'
  BY StepMeant
<1>3. Spec => [](IInv /\ Meant)
  BY <1>1, <1>2, InitRight, InitMeant, PTL DEF Spec
<1> QED BY <1>3, MeantAnswers, PTL

-----------------------------------------------------------------------------
(* One session to pay *)

\* Requests that decide at the same time want the same.
Coordinator(r) == req[r].pc \in Reserved /\ Owned(r) # {}

OneAim == \A r, s \in Requests : Coordinator(r) /\ Coordinator(s) => req[r].want = req[s].want

\* Nothing grows old.
Young == user.age = 0 /\ \A a \in Attempts : session[a].age = 0

SessionExists ==
    /\ user.attempt = Nothing => user.session = Nothing
    /\ user.session # Nothing => session[user.session].status # "none"

\* A session that is replaced is over before its replacement may be created.
SupersededEnds ==
    user.attempt # Nothing /\ user.session \notin {Nothing, user.attempt} /\ (\E o \in Aims : Bound(user.attempt, o))
        => session[user.session].status # "open"

\* A session that a request is to expire, or that its cleanup comes to.
Doomed(r, a) ==
    \/ a \in req[r].todo
    \/ req[r].pc \in {"retire", "unlist", "expire"} /\ req[r].target = a

\* Nobody expires the session of the current attempt.
AttemptStays ==
    user.attempt # Nothing =>
        /\ session[user.attempt].status # "expired"
        /\ user.attempt \notin intents
        /\ \A r \in Requests : ~Doomed(r, user.attempt)

\* A session whose url the owner has, or is about to get.
Payable(a) ==
    /\ session[a].status = "open"
    /\ session[a].given = TRUE \/ \E r \in Requests : Answering(r) /\ req[r].attempt = a

NamesPayable == changes = 0 => \A a \in Attempts : Payable(a) => a \in {user.attempt, user.session}

\* What was listed as over is over, and nothing that matters was missing.
Remembers(r) == req[r].sessions # Nothing \/ (req[r].pc \in {"decide", "reconcile"} /\ req[r].fresh = TRUE)

ListsWell(r) ==
    Remembers(r) =>
        \A a \in Attempts : /\ req[r].sessions[a] # "none" => session[a].status # "none"
                            /\ session[a].status = "open" => req[r].sessions[a] \in {"none", "open"}
                            /\ a = user.session \/ Payable(a) => req[r].sessions[a] # "none"

\* A request that expires a session first finds its own attempt afterwards, or
\* one that replaces nothing.
Expiring(r) == req[r].pc = "expire" \/ (req[r].pc \in {"list", "decide"} /\ req[r].again = TRUE)

Own(r) == IF req[r].pc = "expire" THEN req[r].attempt ELSE req[r].target

KnowsAttempt(r) ==
    Expiring(r) /\ Owned(r) # {} =>
        /\ user.offer \in {req[r].want, Nothing}
        /\ user.attempt = Own(r) \/ user.session \in {Nothing, user.attempt}

\* Who creates a session, or has done so, has the operation it is recorded under.
HasRow(r) == req[r].pc \in {"create", "recover", "keep", "keep_recovered"} => Owned(r) # {}

\* Nobody has seen a subscription if there never was one.
SeesNone(r) ==
    changes = 0 /\ (req[r].subs # Nothing \/ (req[r].pc = "decide" /\ req[r].fresh = TRUE)) => req[r].subs = {}

Orderly ==
    /\ Young /\ SessionExists /\ SupersededEnds /\ AttemptStays /\ NamesPayable /\ OneAim
    /\ changes = 0 => subs = {}
    /\ \A r \in Requests : ListsWell(r) /\ KnowsAttempt(r) /\ HasRow(r) /\ SeesNone(r)

-----------------------------------------------------------------------------
(* What a step leaves alone *)

\* Other requests have the operations they had.
OthersHold(r) == \A s \in Requests \ {r} : Owned(s)' = Owned(s)

\* Sessions stay, and none is opened again.
SessionsGoOn ==
    \A a \in Attempts :
        /\ session[a].status # "none" => session'[a].status # "none"
        /\ session'[a].age = 0
        /\ session'[a].status = "open" => session[a].status \in {"none", "open"}
        /\ session'[a].status = "open" /\ session[a].status = "none" => session'[a].given = FALSE

\* A url that is given out was about to be.
GivenStands == \A a \in Attempts : session'[a].status = "open" /\ session'[a].given = TRUE => Payable(a)

AccountStands ==
    /\ user'.attempt = user.attempt /\ user'.offer = user.offer
    /\ user'.session = user.session /\ user'.age = user.age

\* Nobody begins to expire the session of the attempt.
AttemptKept(r) ==
    user.attempt # Nothing =>
        /\ session'[user.attempt].status = "expired" => session[user.attempt].status = "expired"
        /\ user.attempt \in intents' => user.attempt \in intents
        /\ ~Doomed(r, user.attempt)'

AimHolds(r) ==
    Coordinator(r)' =>
        \/ Coordinator(r) /\ req'[r].want = req[r].want
        \/ \A s \in Requests \ {r} : Coordinator(s) => req[s].want = req'[r].want

OrderlyFor(r) == ListsWell(r) /\ KnowsAttempt(r) /\ HasRow(r) /\ SeesNone(r)

\* The account as a request that waits has to find it.
Turns(r) ==
    \/ AccountStands /\ \A a \in Attempts : Payable(a)' => Payable(a)
    \/ /\ Relists(r)
       /\ \/ /\ user'.session \in {Nothing, user'.attempt}
             /\ \/ user'.offer \in {user.offer, Nothing}
                \/ \A s \in Requests \ {r} : Coordinator(s) => req[s].want = user'.offer
          \/ \A s \in Requests \ {r} : ~(Expiring(s) /\ Owned(s) # {})

LEMMA OthersOrder ==
    ASSUME Orderly, NEW r \in Requests, OthersStand(r), OthersHold(r), SessionsGoOn \/ Relists(r), Turns(r),
           changes' = 0 => changes = 0, NEW s \in Requests \ {r}
    PROVE  OrderlyFor(s)'
<1>1. /\ req'[s].pc = req[s].pc /\ req'[s].want = req[s].want
      /\ req'[s].attempt = req[s].attempt /\ req'[s].offer = req[s].offer
      /\ req'[s].target = req[s].target /\ req'[s].again = req[s].again
      /\ \/ req'[s] = req[s]
         \/ req'[s].sessions = Nothing /\ req'[s].subs = Nothing /\ req'[s].fresh = FALSE
  BY DEF OthersStand
<1>2. Owned(s)' = Owned(s)
  BY DEF OthersHold
<1>3. ListsWell(s) /\ KnowsAttempt(s) /\ HasRow(s) /\ SeesNone(s)
  BY DEF Orderly
<1>4. ListsWell(s)'
  <2>1. CASE req'[s].sessions = Nothing /\ req'[s].fresh = FALSE
    BY <2>1 DEF ListsWell, Remembers
  <2>2. CASE SessionsGoOn /\ req'[s] = req[s] /\ AccountStands /\ \A a \in Attempts : Payable(a)' => Payable(a)
    <3> SUFFICES ASSUME Remembers(s), NEW a \in Attempts
                 PROVE  /\ req[s].sessions[a] # "none" => session'[a].status # "none"
                        /\ session'[a].status = "open" => req[s].sessions[a] \in {"none", "open"}
                        /\ a = user'.session \/ Payable(a)' => req[s].sessions[a] # "none"
      BY <2>2 DEF ListsWell, Remembers
    <3>1. /\ req[s].sessions[a] # "none" => session[a].status # "none"
          /\ session[a].status = "open" => req[s].sessions[a] \in {"none", "open"}
          /\ a = user.session \/ Payable(a) => req[s].sessions[a] # "none"
      BY <1>3 DEF ListsWell
    <3> QED BY <2>2, <3>1 DEF SessionsGoOn, AccountStands
  <2>3. CASE Relists(r)
    BY <2>1, <2>3 DEF Relists
  <2> QED BY <1>1, <2>1, <2>2, <2>3 DEF Turns
<1>5. KnowsAttempt(s)'
  <2> SUFFICES ASSUME Expiring(s), Owned(s) # {}
               PROVE  /\ user'.offer \in {req[s].want, Nothing}
                      /\ user'.attempt = Own(s) \/ user'.session \in {Nothing, user'.attempt}
    BY <1>1, <1>2 DEF KnowsAttempt, Expiring, Own
  <2>1. /\ user.offer \in {req[s].want, Nothing}
        /\ user.attempt = Own(s) \/ user.session \in {Nothing, user.attempt}
    BY <1>3 DEF KnowsAttempt
  <2>2. Coordinator(s)
    BY DEF Coordinator, Expiring, Reserved
  <2> QED BY <2>1, <2>2 DEF Turns, AccountStands
<1>6. HasRow(s)' /\ SeesNone(s)'
  BY <1>1, <1>2, <1>3 DEF HasRow, SeesNone
<1> QED BY <1>4, <1>5, <1>6 DEF OrderlyFor

LEMMA AimStands ==
    ASSUME Orderly, NEW r \in Requests, OthersStand(r), OthersHold(r), AimHolds(r)
    PROVE  OneAim'
<1>1. ASSUME NEW s \in Requests \ {r}, Coordinator(s)'
      PROVE  Coordinator(s) /\ req'[s].want = req[s].want
  BY <1>1 DEF OthersStand, OthersHold, Coordinator
<1>2. ASSUME NEW s \in Requests \ {r}, Coordinator(s)', Coordinator(r)'
      PROVE  req'[s].want = req'[r].want
  BY <1>1, <1>2 DEF AimHolds, Orderly, OneAim
<1>3. ASSUME NEW s \in Requests \ {r}, NEW t \in Requests \ {r}, Coordinator(s)', Coordinator(t)'
      PROVE  req'[s].want = req'[t].want
  BY <1>1, <1>3 DEF Orderly, OneAim
<1> QED BY <1>2, <1>3 DEF OneAim

\* The account names what it named: a step of r after which Orderly holds if it did.
LEMMA KeepOrders ==
    ASSUME IInv, Orderly, NEW r \in Requests, OthersStand(r), OthersHold(r), SessionsGoOn, AccountStands,
           UNCHANGED <<subs, changes>>, \A a \in Attempts : Payable(a)' => Payable(a),
           \A o \in Aims : user.attempt # Nothing /\ Bound(user.attempt, o)' =>
               \/ Bound(user.attempt, o)
               \/ user.session \in {Nothing, user.attempt}
               \/ session[user.session].status # "open",
           AttemptKept(r), AimHolds(r), OrderlyFor(r)'
    PROVE  Orderly'
<1>1. user.attempt \in Maybe(Attempts) /\ user.session \in Maybe(Attempts)
  BY RowsRight DEF UserRight, User
<1>2. Young'
  BY DEF Young, Orderly, SessionsGoOn, AccountStands
<1>3. SessionExists'
  BY <1>1 DEF SessionExists, Orderly, SessionsGoOn, AccountStands, Maybe
<1>4. SupersededEnds'
  <2> SUFFICES ASSUME user.attempt # Nothing, user.session \notin {Nothing, user.attempt},
                      NEW o \in Aims, Bound(user.attempt, o)'
               PROVE  session'[user.session].status # "open"
    BY DEF SupersededEnds, AccountStands, Bound, ByRequest, ByRow, Answering
  <2>1. user.session \in Attempts
    BY <1>1 DEF Maybe
  <2>2. session[user.session].status \notin {"none", "open"}
    BY DEF Orderly, SupersededEnds, SessionExists
  <2> QED BY <2>1, <2>2 DEF SessionsGoOn
<1>5. AttemptStays'
  <2>1. ASSUME NEW s \in Requests \ {r}
        PROVE  Doomed(s, user.attempt)' => Doomed(s, user.attempt)
    BY DEF Doomed, OthersStand, AccountStands
  <2> QED BY <2>1 DEF AttemptStays, Orderly, AttemptKept, AccountStands, Doomed
<1>6. NamesPayable'
  BY DEF NamesPayable, Orderly, AccountStands
<1>7. OneAim'
  BY AimStands
<1>8. \A s \in Requests : OrderlyFor(s)'
  BY OthersOrder DEF Turns
<1>9. changes' = 0 => subs' = {}
  BY DEF Orderly
<1> QED BY <1>2, <1>3, <1>4, <1>5, <1>6, <1>7, <1>8, <1>9 DEF Orderly, OrderlyFor

\* The account's session becomes that of its attempt.
LEMMA LinkOrders ==
    ASSUME IInv, Orderly, NEW r \in Requests, OthersStand(r), OthersHold(r), Relists(r), SessionsGoOn,
           user.attempt \in Attempts, session[user.attempt].status # "none",
           user'.attempt = user.attempt, user'.offer = user.offer, user'.session = user.attempt, user'.age = user.age,
           UNCHANGED <<subs, changes>>, \A a \in Attempts : Payable(a)' => Payable(a) \/ a = user.attempt,
           AttemptKept(r), AimHolds(r), OrderlyFor(r)'
    PROVE  Orderly'
<1>1. user.attempt # Nothing /\ user.session \in Maybe(Attempts)
  BY RowsRight, NothingAssumption DEF UserRight, User
<1>2. Young'
  BY DEF Young, Orderly, SessionsGoOn
<1>3. SessionExists'
  BY <1>1 DEF SessionExists, SessionsGoOn
<1>4. SupersededEnds'
  BY DEF SupersededEnds
<1>5. AttemptStays'
  <2>1. ASSUME NEW s \in Requests \ {r}
        PROVE  Doomed(s, user.attempt)' => Doomed(s, user.attempt)
    BY DEF Doomed, OthersStand
  <2> QED BY <1>1, <2>1 DEF AttemptStays, Orderly, AttemptKept, Doomed
<1>6. NamesPayable'
  <2> SUFFICES ASSUME changes = 0, NEW a \in Attempts, Payable(a)', a # user.attempt
               PROVE  FALSE
    BY DEF NamesPayable
  <2>1. Payable(a) /\ a = user.session
    BY DEF Orderly, NamesPayable
  <2>2. session[user.attempt].offer \in Aims /\ Bound(user.attempt, session[user.attempt].offer)
    BY RowsRight DEF Bound, SessionsRight, Session, Maybe, Aims
  <2>3. user.session \notin {Nothing, user.attempt}
    BY <2>1, NothingAssumption
  <2>4. session[user.session].status # "open"
    BY <1>1, <2>2, <2>3 DEF Orderly, SupersededEnds
  <2> QED BY <2>1, <2>4 DEF Payable
<1>7. OneAim'
  BY AimStands
<1>8. \A s \in Requests : OrderlyFor(s)'
  BY OthersOrder DEF Turns
<1>9. changes' = 0 => subs' = {}
  BY DEF Orderly
<1> QED BY <1>2, <1>3, <1>4, <1>5, <1>6, <1>7, <1>8, <1>9 DEF Orderly, OrderlyFor

\* A subscription was found, and the account is cleared.
LEMMA ClearOrders ==
    ASSUME IInv, Orderly, NEW r \in Requests, OthersStand(r), OthersHold(r), Relists(r), UNCHANGED <<session, changes>>,
           user'.attempt = Nothing, user'.offer = Nothing, user'.session = Nothing, user'.age = 0,
           changes # 0, AimHolds(r), OrderlyFor(r)'
    PROVE  Orderly'
<1>1. Young' /\ SessionExists' /\ SupersededEnds' /\ AttemptStays' /\ NamesPayable'
  BY DEF Young, Orderly, SessionExists, SupersededEnds, AttemptStays, NamesPayable
<1>2. SessionsGoOn
  BY DEF SessionsGoOn, Orderly, Young
<1>3. OneAim'
  BY AimStands
<1>4. \A s \in Requests : OrderlyFor(s)'
  BY <1>2, OthersOrder DEF Turns
<1> QED BY <1>1, <1>3, <1>4 DEF Orderly, OrderlyFor

\* Nobody but r begins to answer.
LEMMA PayableStands ==
    ASSUME Coherent, NEW r \in Requests, OthersStand(r), SessionsGoOn, GivenStands, ~Answering(r)',
           NEW a \in Attempts, Payable(a)'
    PROVE  Payable(a)
<1>1. session'[a].status = "open" /\ session[a].status \in {"none", "open"}
  BY DEF Payable, SessionsGoOn
<1>2. CASE session'[a].given = TRUE
  BY <1>1, <1>2 DEF GivenStands
<1>3. ASSUME NEW s \in Requests, Answering(s)', req'[s].attempt = a
      PROVE  Payable(a)
  <2>1. s # r /\ Answering(s) /\ req[s].attempt = a
    BY <1>3 DEF OthersStand, Answering
  <2>2. session[a].status # "none"
    BY <2>1 DEF Coherent, Creative
  <2> QED BY <1>1, <2>1, <2>2 DEF Payable
<1> QED BY <1>2, <1>3 DEF Payable

\* What may be created might have been.
LEMMA BoundStays ==
    ASSUME IInv, NEW r \in Requests, OthersStand(r), UserStands, SessionsStand, LateStands,
           \A i \in Operations : RowStands(i, r), Disowned(r) \/ (req[r].pc \in Settling => req'[r].pc \in Settling),
           NEW a \in Attempts, NEW o \in Aims, ByRequest(r, a, o)' => Bound(a, o), Bound(a, o)'
    PROVE  Bound(a, o)
<1>1. CASE session'[a].status # "none" /\ session'[a].offer = o
  BY <1>1 DEF SessionsStand
<1>2. CASE [attempt |-> a, offer |-> o] \in late'
  BY <1>2 DEF LateStands
<1>3. ASSUME NEW s \in Requests, ByRequest(s, a, o)'
      PROVE  Bound(a, o)
  <2>1. s # r => ByRequest(s, a, o)
    BY <1>3 DEF OthersStand, ByRequest, Answering
  <2> QED BY <1>3, <2>1 DEF Bound
<1>4. ASSUME NEW i \in Operations, ByRow(i, a, o)'
      PROVE  Bound(a, o)
  <2>1. RowStands(i, r)
    OBVIOUS
  <2>2. ByRow(i, a, o)
    BY <1>4, <2>1, RowsClaim
  <2> QED BY <2>2 DEF Bound
<1> QED BY <1>1, <1>2, <1>3, <1>4 DEF Bound

\* The session of the attempt does not end.
AttemptSpared ==
    /\ \A a \in Attempts : session'[a].status = "expired" => session[a].status = "expired" \/ a # user.attempt
    /\ user.attempt # Nothing /\ user.attempt \in intents' => user.attempt \in intents

\* What a request that goes on as q remembers is what it remembered, or was listed now.
Recalls(r, q) ==
    /\ q.sessions = Nothing \/ q.sessions = req[r].sessions \/ (q.sessions = ListedStatuses /\ session' = session)
    /\ q.pc \in {"decide", "reconcile"} => q.sessions # Nothing \/ (q.sessions = ListedStatuses /\ session' = session)
    /\ q.subs = Nothing \/ q.subs = req[r].subs \/ q.subs = subs
    /\ q.pc = "decide" => q.subs # Nothing \/ q.subs = subs
    /\ q.pc \in {"list", "decide"} /\ q.again = TRUE =>
          Expiring(r) /\ q.target = Own(r) /\ q.want = req[r].want

\* A request goes on as q, and creates and answers nothing.
LEMMA MoveOrders ==
    ASSUME IInv, Coherent, Orderly, NEW r \in Requests, NEW q, Becomes(r, q) \/ Bumps(r, q),
           AccountStands, SessionsGoOn, SessionsStand, LateStands, GivenStands, AttemptSpared,
           UNCHANGED <<subs, changes>>, \A i \in Operations : RowStands(i, r), OthersHold(r), Recalls(r, q),
           q.pc \notin {"create", "recover", "keep", "keep_recovered", "expire"},
           q.pc = "complete" => q.attempt = Nothing,
           user.attempt # Nothing =>
               user.attempt \notin q.todo /\ (q.pc \in {"retire", "unlist"} => q.target # user.attempt),
           \/ req[r].pc \in Bare
           \/ Disowned(r)
           \/ /\ req[r].pc \in Settling => q.pc \in Settling
              /\ q.pc \in Reserved => req[r].pc \in Reserved /\ q.want = req[r].want
    PROVE  Orderly'
<1>1. req'[r] = q /\ OthersStand(r)
  BY OthersGoOn
<1>2. UserStands
  BY DEF AccountStands, UserStands
<1>3. ~Answering(r)'
  BY <1>1 DEF Answering
<1>4. \/ Disowned(r)
      \/ /\ req[r].pc \in Settling => q.pc \in Settling
         /\ q.pc \in Reserved => req[r].pc \in Reserved /\ q.want = req[r].want
  BY NothingAssumption DEF Disowned, RowStands, Coherent, RowFits
<1>5. \A a \in Attempts : Payable(a)' => Payable(a)
  BY <1>1, <1>3, PayableStands
<1>6. ASSUME NEW o \in Aims, Bound(user.attempt, o)', user.attempt # Nothing
      PROVE  Bound(user.attempt, o)
  <2>1. PICK a \in Attempts : a = user.attempt
    BY <1>6, RowsRight DEF UserRight, User, Maybe
  <2>2. Bound(a, o)'
    BY <1>6, <2>1 DEF AccountStands, Bound, ByRequest, ByRow, Answering
  <2>3. ~ByRequest(r, a, o)'
    BY <1>1, <1>3 DEF ByRequest
  <2>4. Bound(a, o)
    BY <1>1, <1>2, <1>4, <2>2, <2>3, BoundStays
  <2> QED BY <2>1, <2>4
<1>7. ASSUME NEW i \in Operations, i \in Owned(r)'
      PROVE  i \in Owned(r) /\ ~Disowned(r)
  <2>1. ops'[i] # Nothing /\ ops'[i].owner = r
    BY <1>7 DEF Owned
  <2> QED BY <2>1, NothingAssumption DEF RowStands, Disowned, Owned
<1>8. Owned(r)' # {} => Owned(r) # {} /\ ~Disowned(r)
  BY <1>7 DEF Owned
<1>9. AttemptKept(r)
  <2> SUFFICES ASSUME user.attempt # Nothing
               PROVE  AttemptKept(r)
    BY DEF AttemptKept
  <2>1. user.attempt \in Attempts
    BY RowsRight DEF UserRight, User, Maybe
  <2>2. ~Doomed(r, user.attempt)'
    BY <1>1 DEF Doomed, AccountStands
  <2> QED BY <2>1, <2>2 DEF AttemptKept, AttemptSpared
<1>10. AimHolds(r)
  BY <1>1, <1>4, <1>8 DEF AimHolds, Coordinator
<1>11. ListsWell(r)'
  <2> SUFFICES ASSUME Remembers(r)', NEW a \in Attempts
               PROVE  /\ q.sessions[a] # "none" => session'[a].status # "none"
                      /\ session'[a].status = "open" => q.sessions[a] \in {"none", "open"}
                      /\ a = user'.session \/ Payable(a)' => q.sessions[a] # "none"
    BY <1>1 DEF ListsWell
  <2>1. CASE q.sessions = ListedStatuses /\ session' = session
    <3>1. q.sessions[a] = session[a].status
      BY <2>1 DEF ListedStatuses
    <3>2. a = user'.session => session[a].status # "none"
      BY NothingAssumption DEF AccountStands, Orderly, SessionExists
    <3>3. Payable(a)' => session[a].status = "open"
      BY <1>5 DEF Payable
    <3> QED BY <2>1, <3>1, <3>2, <3>3
  <2>2. CASE q.sessions = req[r].sessions /\ req[r].sessions # Nothing
    <3>1. /\ req[r].sessions[a] # "none" => session[a].status # "none"
          /\ session[a].status = "open" => req[r].sessions[a] \in {"none", "open"}
          /\ a = user.session \/ Payable(a) => req[r].sessions[a] # "none"
      BY <2>2 DEF Orderly, ListsWell, Remembers
    <3> QED BY <1>5, <2>2, <3>1 DEF SessionsGoOn, AccountStands
  <2> QED BY <1>1, <2>1, <2>2 DEF Remembers, Recalls
<1>12. KnowsAttempt(r)'
  <2> SUFFICES ASSUME Expiring(r)', Owned(r)' # {}
               PROVE  /\ user'.offer \in {q.want, Nothing}
                      /\ user'.attempt = q.target \/ user'.session \in {Nothing, user'.attempt}
    BY <1>1 DEF KnowsAttempt, Own
  <2>1. Expiring(r) /\ q.target = Own(r) /\ q.want = req[r].want
    BY <1>1 DEF Expiring, Recalls
  <2>2. /\ user.offer \in {req[r].want, Nothing}
        /\ user.attempt = Own(r) \/ user.session \in {Nothing, user.attempt}
    BY <1>8, <2>1 DEF Orderly, KnowsAttempt
  <2> QED BY <2>1, <2>2 DEF AccountStands
<1>13. HasRow(r)' /\ SeesNone(r)'
  BY <1>1 DEF HasRow, SeesNone, Recalls, Orderly
<1> QED BY <1>1, <1>5, <1>6, <1>9, <1>10, <1>11, <1>12, <1>13, KeepOrders DEF OrderlyFor

-----------------------------------------------------------------------------
(* Requests that begin, end and clean up *)

LEMMA RowsHold ==
    ASSUME IInv, NEW r \in Requests,
           \/ ops' = ops
           \/ ops' = Without(ops, Owned(r))
           \/ ops' = Renewed(r)
           \/ ops' = Orphans(r, ops)
           \/ \E a \in Maybe(Attempts) : ops' = RenewedFor(r, a)
    PROVE  OthersHold(r)
<1> SUFFICES ASSUME NEW s \in Requests \ {r}, NEW i \in Operations
             PROVE  ops'[i] # Nothing /\ ops'[i].owner = s <=> ops[i] # Nothing /\ ops[i].owner = s
  BY DEF OthersHold, Owned
<1>0. ops[i] # Nothing => ops[i] \in Operation
  BY RowsRight, RowTyped
<1>1. CASE ops' = ops
  BY <1>1
<1>2. CASE ops' = Without(ops, Owned(r))
  BY <1>2 DEF Without, Owned
<1>3. CASE ops' = Renewed(r)
  <2>1. /\ i \in Owned(r) => ops'[i] = [ops[i] EXCEPT !.live = TRUE]
        /\ i \notin Owned(r) => ops'[i] = ops[i]
    BY <1>3 DEF Renewed
  <2>2. i \in Owned(r) => ops'[i].owner = r
    BY <1>0, <2>1 DEF Owned, Operation
  <2> QED BY <2>1, <2>2 DEF Owned
<1>4. CASE ops' = Orphans(r, ops)
  <2>1. /\ i \in Owned(r) => ops'[i] = [ops[i] EXCEPT !.owner = Nothing]
        /\ i \notin Owned(r) => ops'[i] = ops[i]
    BY <1>4 DEF Orphans, Owned
  <2>2. i \in Owned(r) => ops'[i].owner = Nothing
    BY <1>0, <2>1 DEF Owned, Operation
  <2> QED BY <2>1, <2>2, NothingAssumption DEF Owned
<1>5. ASSUME NEW a \in Maybe(Attempts), ops' = RenewedFor(r, a)
      PROVE  ops'[i] # Nothing /\ ops'[i].owner = s <=> ops[i] # Nothing /\ ops[i].owner = s
  <2>1. /\ ops'[i] # Nothing => ops[i] # Nothing
        /\ i \notin Owned(r) => ops'[i] = ops[i]
        /\ i \in Owned(r) => ops'[i].owner = r
    BY <1>5, RenewedRows
  <2> QED BY <2>1 DEF Owned
<1> QED BY <1>1, <1>2, <1>3, <1>4, <1>5

\* Nothing happens to sessions.
LEMMA SessionsAsTheyAre ==
    ASSUME Orderly, UNCHANGED <<session, late>>
    PROVE  SessionsGoOn /\ GivenStands /\ SessionsStand /\ LateStands
<1>1. SessionsGoOn /\ GivenStands
  BY DEF SessionsGoOn, GivenStands, Orderly, Young, Payable
<1> QED BY <1>1, StripeAlone

\* A phase is entered, with nothing to remember but what cleanup goes through.
LEMMA EntryOrders ==
    ASSUME IInv, Coherent, Orderly, NEW r \in Requests, NEW q, Becomes(r, q) \/ Bumps(r, q),
           AccountStands, SessionsGoOn, SessionsStand, LateStands, GivenStands, AttemptSpared,
           UNCHANGED <<subs, changes>>, \A i \in Operations : RowStands(i, r), OthersHold(r),
           q.pc \in Phases \ {"create", "recover", "keep", "keep_recovered", "decide", "reconcile",
                              "retire", "unlist", "expire"},
           q.attempt = Nothing, q.sessions = Nothing, q.subs = Nothing, q.again = FALSE, q.todo \in {{}, intents, intents'},
           \/ req[r].pc \in Bare
           \/ Disowned(r)
           \/ q.pc = "complete"
           \/ q.pc \in {"uncertain", "portal"} /\ req[r].pc \notin Settling
           \/ q.pc = "list" /\ req[r].pc \in Reserved /\ q.want = req[r].want
    PROVE  Orderly'
<1>1. Recalls(r, q)
  BY DEF Recalls
<1>2. user.attempt # Nothing => user.attempt \notin q.todo
  BY DEF AttemptSpared, Orderly, AttemptStays
<1>3. q.pc \in {"complete", "list"} => q.pc \in Settling
  BY DEF Settling
<1>4. q.pc \in {"complete", "uncertain", "portal"} => q.pc \notin Reserved
  BY DEF Reserved
<1> QED BY <1>1, <1>2, <1>3, <1>4, MoveOrders

\* The same when nothing but the request and its rows changes.
LEMMA EntryAloneOrders ==
    ASSUME IInv, Coherent, Orderly, NEW r \in Requests, NEW q, Becomes(r, q) \/ Bumps(r, q),
           UNCHANGED <<user, intents, session, late, subs, changes>>,
           \A i \in Operations : RowStands(i, r), OthersHold(r),
           q.pc \in Phases \ {"create", "recover", "keep", "keep_recovered", "decide", "reconcile",
                              "retire", "unlist", "expire"},
           q.attempt = Nothing, q.sessions = Nothing, q.subs = Nothing, q.again = FALSE, q.todo \in {{}, intents},
           \/ req[r].pc \in Bare
           \/ Disowned(r)
           \/ q.pc = "complete"
           \/ q.pc \in {"uncertain", "portal"} /\ req[r].pc \notin Settling
           \/ q.pc = "list" /\ req[r].pc \in Reserved /\ q.want = req[r].want
    PROVE  Orderly'
<1>1. AccountStands /\ AttemptSpared
  BY DEF AccountStands, AttemptSpared
<1> QED BY <1>1, SessionsAsTheyAre, EntryOrders

LEMMA EnterFields ==
    ASSUME NEW r, NEW phase
    PROVE  /\ Enter(r, phase).pc = phase /\ Enter(r, phase).want = req[r].want
           /\ Enter(r, phase).attempt = Nothing /\ Enter(r, phase).sessions = Nothing
           /\ Enter(r, phase).subs = Nothing /\ Enter(r, phase).again = FALSE /\ Enter(r, phase).todo = {}
BY DEF Enter, Idle

LEMMA EnterAloneOrders ==
    ASSUME IInv, Coherent, Orderly, NEW r \in Requests, NEW phase,
           Becomes(r, Enter(r, phase)) \/ Bumps(r, Enter(r, phase)),
           UNCHANGED <<user, intents, session, late, subs, changes>>,
           \A i \in Operations : RowStands(i, r), OthersHold(r),
           phase \in Phases \ {"create", "recover", "keep", "keep_recovered", "decide", "reconcile",
                               "retire", "unlist", "expire"},
           \/ req[r].pc \in Bare
           \/ Disowned(r)
           \/ phase = "complete"
           \/ phase \in {"uncertain", "portal"} /\ req[r].pc \notin Settling
           \/ phase = "list" /\ req[r].pc \in Reserved
    PROVE  Orderly'
<1> DEFINE q == Enter(r, phase)
<1>1. /\ q.pc = phase /\ q.attempt = Nothing /\ q.sessions = Nothing /\ q.want = req[r].want
      /\ q.subs = Nothing /\ q.again = FALSE /\ q.todo = {}
  BY DEF Enter, Idle
<1>2. Becomes(r, q) \/ Bumps(r, q)
  OBVIOUS
<1> HIDE DEF q
<1> QED BY <1>1, <1>2, EntryAloneOrders

LEMMA IdleRemembers ==
    /\ Idle.pc = "idle" /\ Idle.attempt = Nothing /\ Idle.sessions = Nothing
    /\ Idle.subs = Nothing /\ Idle.again = FALSE /\ Idle.todo = {}
BY DEF Idle

\* Only the request goes on.
LEMMA RowsAsTheyAre ==
    ASSUME IInv, NEW r \in Requests, ops' = ops
    PROVE  OthersHold(r) /\ \A i \in Operations : RowStands(i, r)
BY RowsHold, RowsStand

LEMMA AsksOrders ==
    ASSUME IInv, Coherent, Orderly, NEW r \in Requests, NEW w, Asks(r, w)
    PROVE  Orderly'
<1> DEFINE q == [Idle EXCEPT !.pc = "operations", !.want = w]
<1>1. Becomes(r, q) /\ UNCHANGED <<user, ops, intents, session, late, subs, changes>> /\ req[r].pc \in Bare
  BY DEF Asks, rows, stripe, At, Bare
<1>2. /\ q.pc = "operations" /\ q.attempt = Nothing /\ q.sessions = Nothing
      /\ q.subs = Nothing /\ q.again = FALSE /\ q.todo = {}
  BY DEF Idle
<1> HIDE DEF q
<1> QED BY <1>1, <1>2, RowsAsTheyAre, EntryAloneOrders DEF Phases

LEMMA WebhookOrders ==
    ASSUME IInv, Coherent, Orderly, NEW r \in Requests, NEW e, Webhook(r, e)
    PROVE  Orderly'
<1> DEFINE q == [Idle EXCEPT !.pc = "operations", !.want = "webhook", !.event = e]
<1>1. Becomes(r, q) /\ UNCHANGED <<user, ops, intents, session, late, subs, changes>> /\ req[r].pc \in Bare
  BY DEF Webhook, rows, stripe, At, Bare
<1>2. /\ q.pc = "operations" /\ q.attempt = Nothing /\ q.sessions = Nothing
      /\ q.subs = Nothing /\ q.again = FALSE /\ q.todo = {}
  BY DEF Idle
<1> HIDE DEF q
<1> QED BY <1>1, <1>2, RowsAsTheyAre, EntryAloneOrders DEF Phases

LEMMA MarksUncertainOrders ==
    ASSUME IInv, Coherent, Orderly, NEW r \in Requests, MarksUncertain(r)
    PROVE  Orderly'
<1>1. /\ Becomes(r, Idle) \/ Bumps(r, Idle)
      /\ ops' = Orphans(r, ops) /\ UNCHANGED <<user, intents, session, late, subs, changes>> /\ req[r].pc \notin Settling
  BY DEF MarksUncertain, stripe, At, Settling
<1>2. Disowned(r) /\ (\A i \in Operations : RowStands(i, r)) /\ OthersHold(r)
  BY <1>1, RowsLeave, RowsStand, RowsHold
<1> QED BY <1>1, <1>2, IdleRemembers, EntryAloneOrders DEF Phases

LEMMA OutdatedOrders ==
    ASSUME IInv, Coherent, Orderly, NEW r \in Requests, Outdated(r)
    PROVE  Orderly'
<1>1. UNCHANGED <<user, ops, intents, session, late, subs, changes>> /\ req[r].pc \in {"reconcile", "decide", "apply"}
  BY DEF Outdated, rows, stripe
<1>2. OthersHold(r) /\ \A i \in Operations : RowStands(i, r)
  BY <1>1, RowsAsTheyAre
<1>3. CASE Becomes(r, Enter(r, "complete"))
  BY <1>1, <1>2, <1>3, EnterAloneOrders DEF Phases
<1>4. CASE Becomes(r, Again(r)) /\ req[r].pc = "decide"
  <2> DEFINE q == [Enter(r, "list") EXCEPT !.target = req[r].target, !.again = req[r].again]
  <2>1. Again(r) = q
    BY <1>4 DEF Again, At
  <2>2. /\ q.pc = "list" /\ q.attempt = Nothing /\ q.sessions = Nothing /\ q.want = req[r].want /\ q.todo = {}
        /\ q.subs = Nothing /\ q.again = req[r].again /\ q.target = req[r].target
    BY DEF Enter, Idle
  <2> HIDE DEF q
  <2>3. Recalls(r, q)
    BY <1>4, <2>2 DEF Recalls, Expiring, Own
  <2>4. AccountStands /\ AttemptSpared
    BY <1>1 DEF AccountStands, AttemptSpared
  <2> QED BY <1>1, <1>2, <1>4, <2>1, <2>2, <2>3, <2>4, SessionsAsTheyAre, MoveOrders DEF Reserved, Settling
<1>5. CASE Becomes(r, Again(r)) /\ req[r].pc # "decide"
  <2>1. Again(r) = Enter(r, "operations") /\ req[r].pc \in Bare
    BY <1>1, <1>5 DEF Again, At, Bare
  <2> QED BY <1>1, <1>2, <1>5, <2>1, EnterAloneOrders DEF Phases
<1> QED BY <1>3, <1>4, <1>5 DEF Outdated

LEMMA NothingExpiredOrders ==
    ASSUME IInv, Coherent, Orderly, NEW r \in Requests, NothingExpired(r)
    PROVE  Orderly'
<1> DEFINE q == [Enter(r, "cleanup") EXCEPT !.todo = intents]
<1>1. Becomes(r, q) /\ UNCHANGED <<user, ops, intents, session, late, subs, changes>> /\ req[r].pc \in Bare
  BY DEF NothingExpired, rows, stripe, At, Bare
<1>2. /\ q.pc = "cleanup" /\ q.attempt = Nothing /\ q.sessions = Nothing
      /\ q.subs = Nothing /\ q.again = FALSE /\ q.todo = intents
  BY DEF Enter, Idle
<1> HIDE DEF q
<1> QED BY <1>1, <1>2, RowsAsTheyAre, EntryAloneOrders DEF Phases

LEMMA ListsSessionsOrders ==
    ASSUME IInv, Coherent, Orderly, NEW r \in Requests, ListsSessions(r)
    PROVE  Orderly'
<1> DEFINE q == [Enter(r, "reconcile") EXCEPT !.fresh = TRUE, !.sessions = ListedStatuses]
<1>1. Becomes(r, q) /\ UNCHANGED <<user, ops, intents, session, late, subs, changes>> /\ req[r].pc \in Bare
  BY DEF ListsSessions, rows, stripe, At, Bare
<1>2. q.pc = "reconcile" /\ q.sessions = ListedStatuses /\ q.subs = Nothing /\ q.again = FALSE /\ q.todo = {}
  BY DEF Enter, Idle
<1> HIDE DEF q
<1>3. Recalls(r, q) /\ AccountStands /\ AttemptSpared
  BY <1>1, <1>2 DEF Recalls, AccountStands, AttemptSpared
<1> QED BY <1>1, <1>2, <1>3, SessionsAsTheyAre, RowsAsTheyAre, MoveOrders

LEMMA RecoversPortalOrders ==
    ASSUME IInv, Coherent, Orderly, NEW r \in Requests, RecoversPortal(r)
    PROVE  Orderly'
<1> DEFINE clean == [Enter(r, "cleanup") EXCEPT !.todo = intents]
           next == IF req[r].want = "webhook" THEN clean ELSE Idle
<1>1. UNCHANGED <<user, intents, session, late, subs, changes>> /\ req[r].pc \notin Settling
  BY DEF RecoversPortal, stripe, At, Settling
<1>2. CASE ops' = Without(ops, Owned(r)) /\ (Becomes(r, next) \/ Bumps(r, next))
  <2>1. Disowned(r) /\ (\A i \in Operations : RowStands(i, r)) /\ OthersHold(r)
    BY <1>2, RowsLeave, RowsStand, RowsHold DEF Owned
  <2>2. /\ next.pc \in {"cleanup", "idle"} /\ next.attempt = Nothing /\ next.sessions = Nothing
        /\ next.subs = Nothing /\ next.again = FALSE /\ next.todo \in {{}, intents}
    BY IdleRemembers DEF Enter, Idle
  <2> HIDE DEF next
  <2> QED BY <1>1, <1>2, <2>1, <2>2, EntryAloneOrders DEF Phases
<1>3. CASE ops' = ops /\ \E phase \in {"complete", "uncertain"} : Becomes(r, Enter(r, phase))
  <2> PICK phase \in {"complete", "uncertain"} : Becomes(r, Enter(r, phase))
    BY <1>3
  <2>1. OthersHold(r) /\ \A i \in Operations : RowStands(i, r)
    BY <1>3, RowsAsTheyAre
  <2> QED BY <1>1, <2>1, EnterAloneOrders DEF Phases
<1> QED BY <1>2, <1>3 DEF RecoversPortal

LEMMA UnlistsOrders ==
    ASSUME IInv, Coherent, Orderly, NEW r \in Requests, Unlists(r)
    PROVE  Orderly'
<1> DEFINE next == [req[r] EXCEPT !.pc = "cleanup", !.target = Nothing]
<1>1. UNCHANGED <<user, ops, session, late, subs, changes>> /\ req[r].pc \in Bare
  BY DEF Unlists, stripe, At, Bare
<1>2. (Becomes(r, next) \/ Bumps(r, next)) /\ intents' \subseteq intents
  BY DEF Unlists
<1>3. /\ next.pc = "cleanup" /\ next.sessions = req[r].sessions /\ next.subs = req[r].subs
      /\ next.todo = req[r].todo
  BY ReqTyped DEF Request, IInv, Typed, Unlists, At
<1> HIDE DEF next
<1>4. Recalls(r, next) /\ AccountStands /\ AttemptSpared
  BY <1>1, <1>2, <1>3 DEF Recalls, AccountStands, AttemptSpared
<1>5. user.attempt # Nothing => user.attempt \notin req[r].todo
  BY DEF Orderly, AttemptStays, Doomed
<1> QED BY <1>1, <1>2, <1>3, <1>4, <1>5, SessionsAsTheyAre, RowsAsTheyAre, MoveOrders

LEMMA ChecksOwnerOrders ==
    ASSUME IInv, Coherent, Orderly, NEW r \in Requests, NEW a, ChecksOwner(r, a)
    PROVE  Orderly'
<1> DEFINE rest == [req[r] EXCEPT !.todo = req[r].todo \ {a}]
           next == [rest EXCEPT !.pc = "retire", !.target = a]
<1>1. UNCHANGED <<user, ops, session, late, subs, changes>> /\ req[r].pc \in Bare
  BY DEF ChecksOwner, stripe, At, Bare
<1>2. /\ Becomes(r, rest) \/ Bumps(r, rest) \/ Becomes(r, next)
      /\ intents' \subseteq intents /\ a \in req[r].todo
  BY DEF ChecksOwner
<1>3. /\ rest.pc = "cleanup" /\ rest.sessions = req[r].sessions /\ rest.subs = req[r].subs
      /\ rest.todo = req[r].todo \ {a}
      /\ next.pc = "retire" /\ next.sessions = req[r].sessions /\ next.subs = req[r].subs
      /\ next.todo = req[r].todo \ {a} /\ next.target = a
  BY ReqTyped DEF Request, IInv, Typed, ChecksOwner, At
<1> HIDE DEF rest, next
<1>4. Recalls(r, rest) /\ Recalls(r, next) /\ AccountStands /\ AttemptSpared
  BY <1>1, <1>2, <1>3 DEF Recalls, AccountStands, AttemptSpared
<1>5. user.attempt # Nothing => user.attempt \notin req[r].todo
  BY DEF Orderly, AttemptStays, Doomed
<1>6. SessionsGoOn /\ GivenStands /\ SessionsStand /\ LateStands /\ OthersHold(r) /\ \A i \in Operations : RowStands(i, r)
  BY <1>1, SessionsAsTheyAre, RowsAsTheyAre
<1>7. CASE Becomes(r, rest) \/ Bumps(r, rest)
  BY <1>1, <1>2, <1>3, <1>4, <1>5, <1>6, <1>7, MoveOrders
<1>8. CASE Becomes(r, next)
  BY <1>1, <1>2, <1>3, <1>4, <1>5, <1>6, <1>8, MoveOrders
<1> QED BY <1>2, <1>7, <1>8

LEMMA CleanedUpOrders ==
    ASSUME IInv, Coherent, Orderly, NEW r \in Requests, CleanedUp(r)
    PROVE  Orderly'
<1>1. UNCHANGED <<user, ops, intents, session, late, subs, changes>> /\ req[r].pc \in Bare
  BY DEF CleanedUp, stripe, rows, At, Bare
<1>2. req[r].want \in Offers \cup {"portal", "webhook"}
  BY Wants DEF CleanedUp, At
<1>3. PICK phase \in {"complete", "reserve", "reserve_portal", "list"} : Becomes(r, Enter(r, phase))
  BY <1>2 DEF CleanedUp, Checkout
<1> QED BY <1>1, <1>3, RowsAsTheyAre, EnterAloneOrders DEF Phases

LEMMA CreateRefusedOrders ==
    ASSUME IInv, Coherent, Orderly, NEW r \in Requests, CreateRefused(r)
    PROVE  Orderly'
<1>1. UNCHANGED <<user, ops, intents, session, late, subs, changes>> /\ Becomes(r, Enter(r, "complete"))
  BY DEF CreateRefused, stripe, rows
<1> QED BY <1>1, RowsAsTheyAre, EnterAloneOrders DEF Phases

LEMMA RefusesOrders ==
    ASSUME IInv, Coherent, Orderly, NEW r \in Requests, Refuses(r)
    PROVE  Orderly'
<1>1. UNCHANGED <<user, ops, intents, session, late, subs, changes>> /\ Becomes(r, Enter(r, "complete"))
  BY DEF Refuses, stripe, rows
<1> QED BY <1>1, RowsAsTheyAre, EnterAloneOrders DEF Phases

LEMMA NotReservedOrders ==
    ASSUME IInv, Coherent, Orderly, NEW r \in Requests, NotReserved(r)
    PROVE  Orderly'
<1>1. UNCHANGED <<user, ops, intents, session, late, subs, changes>> /\ Becomes(r, Idle) /\ req[r].pc \in Bare
  BY DEF NotReserved, stripe, rows, At, Bare
<1> QED BY <1>1, IdleRemembers, RowsAsTheyAre, EntryAloneOrders DEF Phases

LEMMA EnsuresCustomerOrders ==
    ASSUME IInv, Coherent, Orderly, NEW r \in Requests, EnsuresCustomer(r)
    PROVE  Orderly'
<1>1. UNCHANGED <<ops, intents, session, late, subs, changes>> /\ req[r].pc \in Reserved
  BY DEF EnsuresCustomer, stripe, At, Reserved
<1>2. AccountStands /\ AttemptSpared
  BY <1>1, RowsRight DEF EnsuresCustomer, AccountStands, AttemptSpared, UserRight, User
<1>3. PICK phase \in {"list", "complete"} : Becomes(r, Enter(r, phase)) \/ Bumps(r, Enter(r, phase))
  BY DEF EnsuresCustomer
<1> DEFINE q == Enter(r, phase)
<1>4. /\ q.pc = phase /\ q.attempt = Nothing /\ q.sessions = Nothing /\ q.want = req[r].want
      /\ q.subs = Nothing /\ q.again = FALSE /\ q.todo = {}
  BY DEF Enter, Idle
<1>5. Becomes(r, q) \/ Bumps(r, q)
  BY <1>3
<1> HIDE DEF q
<1> QED BY <1>1, <1>2, <1>4, <1>5, SessionsAsTheyAre, RowsAsTheyAre, EntryOrders DEF Phases

LEMMA OpensPortalOrders ==
    ASSUME IInv, Coherent, Orderly, NEW r \in Requests, OpensPortal(r)
    PROVE  Orderly'
<1>1. UNCHANGED <<user, ops, intents, session, late, subs, changes>> /\ req[r].pc \notin Settling
  BY DEF OpensPortal, stripe, rows, At, Settling
<1>2. PICK phase \in {"complete", "uncertain"} : Becomes(r, Enter(r, phase))
  BY DEF OpensPortal
<1> QED BY <1>1, <1>2, RowsAsTheyAre, EnterAloneOrders DEF Phases

LEMMA RenewsFenceOrders ==
    ASSUME IInv, Coherent, Orderly, NEW r \in Requests, RenewsFence(r)
    PROVE  Orderly'
<1>1. /\ req[r].pc \notin Settling /\ UNCHANGED <<user, intents, session, late, subs, changes>> /\ ops' = Renewed(r)
  BY DEF RenewsFence, At, stripe, Settling
<1>2. OthersHold(r) /\ \A i \in Operations : RowStands(i, r)
  BY <1>1, RowsStand, RowsHold
<1>3. CASE Owned(r) = {} /\ Becomes(r, Idle)
  BY <1>1, <1>2, <1>3, RowsLeave, IdleRemembers, EntryAloneOrders DEF Phases
<1>4. CASE Becomes(r, Enter(r, "portal"))
  BY <1>1, <1>2, <1>4, EnterAloneOrders DEF Phases
<1> QED BY <1>3, <1>4 DEF RenewsFence

LEMMA ListsOrders ==
    ASSUME IInv, Coherent, Orderly, NEW r \in Requests, Lists(r)
    PROVE  Orderly'
<1> DEFINE withSubs == [req[r] EXCEPT !.fresh = TRUE, !.subs = subs]
           withSessions == [req[r] EXCEPT !.fresh = TRUE, !.sessions = ListedStatuses]
           apply == [withSubs EXCEPT !.known = changes, !.pc = "apply"]
           one == [withSubs EXCEPT !.pc = IF req[r].sessions = Nothing THEN "list" ELSE "decide"]
           two == [withSessions EXCEPT !.pc = IF req[r].subs = Nothing THEN "list" ELSE "decide"]
<1>1. UNCHANGED <<user, ops, intents, session, late, subs, changes>> /\ req[r].pc = "list"
  BY DEF Lists, stripe, rows, At
<1>2. /\ apply.pc = "apply" /\ apply.sessions = req[r].sessions /\ apply.subs = subs /\ apply.todo = req[r].todo
      /\ one.pc \in {"list", "decide"} /\ one.sessions = req[r].sessions /\ one.want = req[r].want
      /\ one.pc = "decide" => req[r].sessions # Nothing
      /\ one.subs = subs /\ one.again = req[r].again /\ one.target = req[r].target /\ one.todo = req[r].todo
      /\ two.pc \in {"list", "decide"} /\ two.sessions = ListedStatuses /\ two.want = req[r].want
      /\ two.pc = "decide" => req[r].subs # Nothing
      /\ two.subs = req[r].subs /\ two.again = req[r].again /\ two.target = req[r].target /\ two.todo = req[r].todo
  BY ReqTyped DEF Request, IInv, Typed
<1>3. /\ SessionsGoOn /\ GivenStands /\ SessionsStand /\ LateStands /\ OthersHold(r)
      /\ \A i \in Operations : RowStands(i, r)
      /\ AccountStands /\ AttemptSpared
      /\ user.attempt # Nothing => user.attempt \notin req[r].todo
  BY <1>1, SessionsAsTheyAre, RowsAsTheyAre DEF AccountStands, AttemptSpared, Orderly, AttemptStays, Doomed
<1> HIDE DEF apply, one, two
<1>4. CASE req[r].want = "webhook" /\ Becomes(r, apply)
  <2>1. Disowned(r)
    <3> SUFFICES ASSUME NEW i \in Operations, ops[i] # Nothing, ops[i].owner = r
                 PROVE  FALSE
      BY <1>1 DEF Disowned
    <3>1. RowFits(i, r) /\ RowInOrder(ops[i])
      BY RowsRight, RowTyped DEF Coherent
    <3> QED BY <1>1, <1>4, <3>1, OfferAssumption DEF RowFits, RowInOrder, Reserved
  <2>2. Recalls(r, apply)
    BY <1>2 DEF Recalls
  <2> QED BY <1>1, <1>2, <1>3, <1>4, <2>1, <2>2, MoveOrders
<1>5. CASE Becomes(r, one)
  <2>1. Recalls(r, one)
    BY <1>1, <1>2 DEF Recalls, Expiring, Own
  <2> QED BY <1>1, <1>2, <1>3, <1>5, <2>1, MoveOrders DEF Settling, Reserved
<1>6. CASE Becomes(r, two)
  <2>1. Recalls(r, two)
    BY <1>1, <1>2 DEF Recalls, Expiring, Own
  <2> QED BY <1>1, <1>2, <1>3, <1>6, <2>1, MoveOrders DEF Settling, Reserved
<1> QED BY <1>4, <1>5, <1>6 DEF Lists, withSubs, withSessions, apply, one, two

-----------------------------------------------------------------------------
(* Requests that end sessions, create them and give them out *)

LEMMA CompletesOrders ==
    ASSUME IInv, Coherent, Orderly, NEW r \in Requests, Completes(r)
    PROVE  Orderly'
<1>1. /\ Becomes(r, Idle) \/ Bumps(r, Idle)
      /\ ops' = Without(ops, Owned(r)) /\ UNCHANGED <<user, intents, late, subs, changes>> /\ req[r].pc = "complete"
  BY DEF Completes, At
<1>2. SessionsAlike /\ SessionsGoOn /\ GivenStands /\ AttemptSpared
  <2>1. session \in [Attempts -> Session]
    BY RowsRight DEF SessionsRight
  <2>2. CASE req[r].attempt = Nothing
    <3>1. session' = session
      BY <2>2 DEF Completes
    <3> QED BY <1>1, <3>1, SessionsAsTheyAre DEF SessionsAlike, AttemptSpared
  <2>3. CASE req[r].attempt # Nothing
    <3>1. PICK b \in Attempts : b = req[r].attempt
      BY <2>3, ReqFields DEF IInv, Typed, Maybe
    <3>2. session' = [session EXCEPT ![b] = [session[b] EXCEPT !.given = TRUE]]
      BY <2>3, <3>1 DEF Completes, GivesOut
    <3>3. /\ session'[b].status = session[b].status /\ session'[b].age = session[b].age
          /\ session'[b].offer = session[b].offer
          /\ \A a \in Attempts \ {b} : session'[a] = session[a]
      BY <2>1, <3>2 DEF Session
    <3>4. session[b].status # "none" /\ (session[b].status = "open" => Payable(b))
      BY <1>1, <2>3, <3>1 DEF Coherent, Creative, Answering, Payable
    <3>5. SessionsAlike /\ SessionsGoOn
      BY <3>3, <3>4 DEF SessionsAlike, SessionsGoOn, Orderly, Young
    <3>6. GivenStands
      BY <3>3, <3>4 DEF GivenStands, Payable
    <3>7. AttemptSpared
      BY <1>1, <3>3 DEF AttemptSpared
    <3> QED BY <3>5, <3>6, <3>7
  <2> QED BY <2>2, <2>3
<1>3. SessionsStand /\ LateStands
  BY <1>1, <1>2, StripeStands
<1>4. Disowned(r) /\ (\A i \in Operations : RowStands(i, r)) /\ OthersHold(r)
  BY <1>1, RowsLeave, RowsStand, RowsHold DEF Owned
<1>5. AccountStands
  BY <1>1 DEF AccountStands
<1> QED BY <1>1, <1>2, <1>3, <1>4, <1>5, IdleRemembers, EntryOrders DEF Phases

\* A session that is to be expired is.
LEMMA EndingStands ==
    ASSUME IInv, Orderly, NEW b, user.attempt # Nothing => b # user.attempt,
           session' = session \/ session' = [session EXCEPT ![b].status = IF session[b].status = "open" THEN "expired" ELSE session[b].status],
           UNCHANGED <<late, intents>>
    PROVE  SessionsStand /\ LateStands /\ SessionsGoOn /\ GivenStands /\ AttemptSpared
<1>1. session \in [Attempts -> Session]
  BY RowsRight DEF SessionsRight
<1>2. CASE session' = session
  BY <1>2, SessionsAsTheyAre DEF AttemptSpared
<1>3. CASE session' = [session EXCEPT ![b].status = IF session[b].status = "open" THEN "expired" ELSE session[b].status]
  <2>1. ASSUME NEW a \in Attempts
        PROVE  /\ session'[a].age = session[a].age /\ session'[a].offer = session[a].offer
               /\ session'[a].given = session[a].given
               /\ session'[a].status = session[a].status \/ (session[a].status = "open" /\ session'[a].status = "expired" /\ a = b)
    BY <1>1, <1>3 DEF Session
  <2>2. SessionsAlike
    BY <2>1 DEF SessionsAlike
  <2>3. SessionsGoOn
    BY <2>1 DEF SessionsGoOn, Orderly, Young
  <2>4. GivenStands
    BY <2>1 DEF GivenStands, Payable
  <2>5. AttemptSpared
    BY <2>1, NothingAssumption DEF AttemptSpared
  <2> QED BY <2>2, <2>3, <2>4, <2>5, StripeStands
<1> QED BY <1>2, <1>3

LEMMA RetiresOrders ==
    ASSUME IInv, Coherent, Orderly, NEW r \in Requests, Retires(r)
    PROVE  Orderly'
<1> DEFINE q == [req[r] EXCEPT !.pc = "unlist"]
           k == [req[r] EXCEPT !.pc = "cleanup", !.target = Nothing, !.failed = TRUE]
           b == req[r].target
<1>1. UNCHANGED <<user, ops, intents, late, subs, changes>> /\ req[r].pc = "retire"
  BY DEF Retires, rows, At
<1>2. /\ Becomes(r, q) \/ Becomes(r, k)
      /\ \/ session' = session
         \/ session' = [session EXCEPT ![b].status = IF session[b].status = "open" THEN "expired" ELSE session[b].status]
  BY DEF Retires
<1>3. /\ q.pc = "unlist" /\ q.sessions = req[r].sessions /\ q.subs = req[r].subs /\ q.todo = req[r].todo /\ q.target = b
      /\ k.pc = "cleanup" /\ k.sessions = req[r].sessions /\ k.subs = req[r].subs /\ k.todo = req[r].todo
  BY ReqTyped DEF Request, IInv, Typed, Retires, At
<1>4. user.attempt # Nothing => user.attempt \notin req[r].todo /\ b # user.attempt
  BY <1>1 DEF Orderly, AttemptStays, Doomed
<1> HIDE DEF q, k, b
<1>5. SessionsStand /\ LateStands /\ SessionsGoOn /\ GivenStands /\ AttemptSpared
  BY <1>1, <1>2, <1>4, EndingStands
<1>6. AccountStands /\ OthersHold(r) /\ (\A i \in Operations : RowStands(i, r)) /\ req[r].pc \in Bare
  BY <1>1, RowsAsTheyAre DEF AccountStands, Bare
<1>7. Recalls(r, q) /\ Recalls(r, k)
  BY <1>3 DEF Recalls
<1>8. CASE Becomes(r, q)
  BY <1>1, <1>3, <1>4, <1>5, <1>6, <1>7, <1>8, MoveOrders
<1>9. CASE Becomes(r, k)
  BY <1>1, <1>3, <1>4, <1>5, <1>6, <1>7, <1>9, MoveOrders
<1> QED BY <1>2, <1>8, <1>9

LEMMA ExpiresOrders ==
    ASSUME IInv, Coherent, Orderly, NEW r \in Requests, Expires(r)
    PROVE  Orderly'
<1> DEFINE q == [Enter(r, "list") EXCEPT !.again = TRUE, !.target = req[r].attempt]
           k == Enter(r, "complete")
           b == req[r].target
<1>1. UNCHANGED <<user, ops, intents, late, subs, changes>> /\ req[r].pc = "expire"
  BY DEF Expires, rows, At
<1>2. /\ Becomes(r, q) \/ Becomes(r, k)
      /\ \/ session' = session
         \/ session' = [session EXCEPT ![b].status = IF session[b].status = "open" THEN "expired" ELSE session[b].status]
  <2>1. \/ session' = session
        \/ session[b].status = "open" /\ session' = [session EXCEPT ![b].status = "expired"]
    BY DEF Expires
  <2>2. Becomes(r, q) \/ Becomes(r, k)
    BY DEF Expires
  <2> QED BY <2>1, <2>2
<1>3. /\ q.pc = "list" /\ q.sessions = Nothing /\ q.subs = Nothing /\ q.todo = {} /\ q.target = req[r].attempt
      /\ q.want = req[r].want /\ q.attempt = Nothing
      /\ k.pc = "complete" /\ k.sessions = Nothing /\ k.subs = Nothing /\ k.todo = {} /\ k.attempt = Nothing
  BY DEF Enter, Idle
<1>4. user.attempt # Nothing => b # user.attempt
  BY <1>1 DEF Orderly, AttemptStays, Doomed
<1> HIDE DEF q, k, b
<1>5. SessionsStand /\ LateStands /\ SessionsGoOn /\ GivenStands /\ AttemptSpared
  BY <1>1, <1>2, <1>4, EndingStands
<1>6. AccountStands /\ OthersHold(r) /\ \A i \in Operations : RowStands(i, r)
  BY <1>1, RowsAsTheyAre DEF AccountStands
<1>7. Recalls(r, q) /\ Recalls(r, k)
  BY <1>1, <1>3 DEF Recalls, Expiring, Own
<1>8. CASE Becomes(r, q)
  BY <1>1, <1>3, <1>5, <1>6, <1>7, <1>8, MoveOrders DEF Settling, Reserved
<1>9. CASE Becomes(r, k)
  BY <1>1, <1>3, <1>5, <1>6, <1>7, <1>9, MoveOrders DEF Settling, Reserved
<1> QED BY <1>2, <1>8, <1>9

\* A session that is created was not there before.
LEMMA CreationGoesOn ==
    ASSUME IInv, Orderly, NEW a \in Attempts, NEW o \in Offers, session' = session \/ session' = Created(a, o)
    PROVE  /\ SessionsGoOn /\ GivenStands
           /\ \A b \in Attempts : session'[b].status = "expired" => session[b].status = "expired"
<1>1. session \in [Attempts -> Session] /\ session[a].age = 0 /\ 0 < Day
  BY RowsRight, BoundAssumption DEF SessionsRight, Orderly, Young
<1>2. CASE session' = session
  BY <1>2 DEF SessionsGoOn, GivenStands, Orderly, Young, Payable
<1>3. CASE session' # session
  <2>1. session' = [session EXCEPT ![a] = [Uncreated EXCEPT !.status = "open", !.offer = o]] /\ session[a].status = "none"
    BY <1>1, <1>3 DEF Created, Remembered
  <2>2. /\ session'[a].status = "open" /\ session'[a].age = 0 /\ session'[a].given = FALSE
        /\ \A b \in Attempts \ {a} : session'[b] = session[b]
    BY <1>1, <2>1 DEF Uncreated
  <2> QED BY <2>1, <2>2 DEF SessionsGoOn, GivenStands, Orderly, Young, Payable
<1> QED BY <1>2, <1>3

LEMMA CreateUnknownOrders ==
    ASSUME IInv, Coherent, Orderly, NEW r \in Requests, CreateUnknown(r)
    PROVE  Orderly'
<1> DEFINE a == req[r].attempt
           o == req[r].offer
           q == Enter(r, "uncertain")
<1>1. UNCHANGED <<user, ops, intents, subs, changes>> /\ req[r].pc \notin Settling /\ Becomes(r, q)
  BY DEF CreateUnknown, rows, Settling
<1>2. a \in Attempts /\ o \in Offers /\ Bound(a, o)
  BY CreatorsBind DEF CreateUnknown
<1>3. /\ session' = session \/ (session' = Created(a, o) /\ Accepts(a, o))
      /\ late' = late \/ late' = late \cup {[attempt |-> a, offer |-> o]}
  BY DEF CreateUnknown
<1>4. /\ q.pc = "uncertain" /\ q.attempt = Nothing /\ q.sessions = Nothing
      /\ q.subs = Nothing /\ q.again = FALSE /\ q.todo = {}
  BY DEF Enter, Idle
<1> HIDE DEF a, o, q
<1>5. SessionsStand
  BY <1>2, <1>3, CreationStands
<1>6. LateStands
  BY <1>2, <1>3 DEF LateStands, Bound
<1>7. SessionsGoOn /\ GivenStands /\ AttemptSpared
  BY <1>1, <1>2, <1>3, CreationGoesOn DEF AttemptSpared
<1>8. AccountStands
  BY <1>1 DEF AccountStands
<1> QED BY <1>1, <1>4, <1>5, <1>6, <1>7, <1>8, RowsAsTheyAre, EntryOrders DEF Phases

LEMMA CreatesOrders ==
    ASSUME IInv, Coherent, Orderly, NEW r \in Requests, Creates(r)
    PROVE  Orderly'
<1> DEFINE a == req[r].attempt
           o == req[r].offer
           q == [Enter(r, Keeps(r)) EXCEPT !.attempt = a]
<1>1. UNCHANGED <<user, ops, intents, late, subs, changes>> /\ req[r].pc \in {"create", "recover"}
  BY DEF Creates, rows
<1>2. a \in Attempts /\ o \in Offers /\ Bound(a, o)
  BY <1>1, CreatorsBind
<1>3. OthersHold(r) /\ (\A i \in Operations : RowStands(i, r)) /\ req[r].pc \notin Settling
  BY <1>1, RowsAsTheyAre DEF Settling
<1>4. CASE session' = session /\ Becomes(r, Enter(r, "uncertain"))
  BY <1>1, <1>3, <1>4, EnterAloneOrders DEF Phases
<1>5. CASE Accepts(a, o) /\ session' = Created(a, o) /\ Becomes(r, q)
  <2>1. /\ q.pc = IF req[r].pc = "recover" THEN "keep_recovered" ELSE "keep"
        /\ q.want = req[r].want /\ q.attempt = a /\ q.sessions = Nothing /\ q.subs = Nothing /\ q.todo = {}
    BY DEF Enter, Idle, Keeps, At
  <2> HIDE DEF q
  <2>2. SessionsStand
    BY <1>2, <1>5, CreationStands
  <2>3. /\ SessionsGoOn /\ GivenStands
        /\ \A b \in Attempts : session'[b].status = "expired" => session[b].status = "expired"
    BY <1>2, <1>5, CreationGoesOn
  <2>4. req'[r] = q /\ OthersStand(r)
    BY <1>5, OthersGoOn
  <2>5. q.pc \in {"keep", "keep_recovered"}
    BY <2>1
  <2>6. \A b \in Attempts : Payable(b)' => Payable(b)
    BY <2>3, <2>4, <2>5, PayableStands DEF Answering
  <2>7. LateStands /\ AccountStands /\ UserStands
    BY <1>1 DEF LateStands, Bound, AccountStands, UserStands
  <2>8. ASSUME NEW p \in Aims, Bound(user.attempt, p)', user.attempt # Nothing
        PROVE  Bound(user.attempt, p)
    <3>1. PICK b \in Attempts : b = user.attempt
      BY <2>8, RowsRight DEF UserRight, User, Maybe
    <3>2. Bound(b, p)'
      BY <1>1, <2>8, <3>1 DEF Bound, ByRequest, ByRow, Answering
    <3>3. ASSUME ByRequest(r, b, p)'
          PROVE  Bound(b, p)
      <4>1. q.pc = "keep" /\ b = a /\ p = req[r].want
        BY <2>1, <2>4, <2>5, <3>3 DEF ByRequest, Answering
      <4>2. req[r].pc = "create"
        BY <1>1, <2>1, <4>1
      <4>3. p = o
        BY <4>1, <4>2 DEF Coherent, Creative
      <4> QED BY <1>2, <4>1, <4>3
    <3>4. Bound(b, p)
      BY <1>3, <2>2, <2>4, <2>7, <3>2, <3>3, BoundStays
    <3> QED BY <3>1, <3>4
  <2>9. AttemptKept(r)
    <3> SUFFICES ASSUME user.attempt # Nothing
                 PROVE  AttemptKept(r)
      BY DEF AttemptKept
    <3>1. user.attempt \in Attempts
      BY RowsRight DEF UserRight, User, Maybe
    <3>2. ~Doomed(r, user.attempt)'
      BY <2>1, <2>4, <2>5 DEF Doomed
    <3> QED BY <1>1, <2>3, <3>1, <3>2 DEF AttemptKept
  <2>10. Owned(r)' = Owned(r)
    BY <1>1 DEF Owned
  <2>11. AimHolds(r)
    BY <1>1, <2>1, <2>4, <2>10 DEF AimHolds, Coordinator, Reserved
  <2>12. OrderlyFor(r)'
    <3>1. ListsWell(r)' /\ SeesNone(r)'
      BY <2>1, <2>4, <2>5 DEF ListsWell, SeesNone, Remembers
    <3>2. KnowsAttempt(r)'
      BY <2>4, <2>5 DEF KnowsAttempt, Expiring
    <3>3. HasRow(r)'
      BY <1>1, <2>10 DEF HasRow, Orderly
    <3> QED BY <3>1, <3>2, <3>3 DEF OrderlyFor
  <2> QED BY <1>1, <1>3, <2>3, <2>4, <2>6, <2>7, <2>8, <2>9, <2>11, <2>12, KeepOrders
<1> QED BY <1>4, <1>5 DEF Creates

\* What a request that remembers nothing must know.
LEMMA NothingToKnow ==
    ASSUME NEW r \in Requests, req'[r].sessions = Nothing, req'[r].subs = Nothing,
           req'[r].pc \in Phases \ {"create", "recover", "keep", "keep_recovered", "decide", "reconcile", "expire", "list"}
    PROVE  OrderlyFor(r)'
BY DEF OrderlyFor, ListsWell, Remembers, KnowsAttempt, Expiring, HasRow, SeesNone

LEMMA PersistOrders ==
    ASSUME IInv, Coherent, Orderly, NEW r \in Requests, NEW q, Persist(r, q), req[r].pc \in {"keep", "keep_recovered"},
           req[r].attempt \in Attempts, q.pc \in {"idle", "operations", "cleanup"},
           q.sessions = Nothing, q.subs = Nothing, q.todo \in {{}, intents'},
           session' = session \/ (OwnsReturned(r) /\ GivesOut(req[r].attempt))
    PROVE  Orderly'
<1> DEFINE b == req[r].attempt
<1>1. /\ UserStands /\ late' = late /\ Bumps(r, q) /\ Disowned(r) /\ UNCHANGED <<subs, changes>>
      /\ \A i \in Operations : RowStands(i, r)
  BY PersistStands DEF Persist
<1>2. req'[r] = q /\ OthersStand(r) /\ Relists(r)
  BY <1>1, OthersGoOn, BumpsRelists
<1>3. OthersHold(r)
  BY RowsHold DEF Persist
<1>4. AimHolds(r)
  BY <1>2 DEF AimHolds, Coordinator, Reserved
<1>5. OrderlyFor(r)'
  BY <1>2, NothingToKnow DEF Phases
<1>6. session[b].status # "none" /\ Owned(r) # {}
  BY DEF Coherent, Creative, Orderly, HasRow
<1> HIDE DEF b
<1>7. CASE OwnsReturned(r)
  <2>1. user.attempt = b /\ b \in Attempts /\ b # Nothing
    BY <1>7, NothingAssumption DEF OwnsReturned, b
  <2>2. /\ user'.attempt = user.attempt /\ user'.offer = user.offer
        /\ user'.session = user.attempt /\ user'.age = user.age
    BY <1>7, RowsRight DEF Persist, UserRight, User
  <2>3. /\ \A a \in Attempts : session'[a].status = session[a].status /\ session'[a].age = session[a].age
        /\ \A a \in Attempts \ {b} : session'[a] = session[a]
    <3>1. session' = session \/ session' = [session EXCEPT ![b] = [session[b] EXCEPT !.given = TRUE]]
      BY DEF GivesOut, b
    <3> QED BY <2>1, <3>1, RowsRight DEF SessionsRight, Session
  <2>4. SessionsGoOn
    BY <2>3 DEF SessionsGoOn, Orderly, Young
  <2>5. \A a \in Attempts : Payable(a)' => Payable(a) \/ a = user.attempt
    <3> SUFFICES ASSUME NEW a \in Attempts \ {b}, Payable(a)'
                 PROVE  Payable(a)
      BY <2>1
    <3>1. session'[a] = session[a] /\ ~Answering(r)'
      BY <1>2, <2>3 DEF Answering
    <3> QED BY <1>2, <3>1 DEF Payable, OthersStand, Answering
  <2>6. AttemptKept(r)
    <3>1. user.attempt \notin intents'
      BY <1>7 DEF Persist
    <3>2. ~Doomed(r, user.attempt)'
      BY <1>2, <3>1, <2>2 DEF Doomed
    <3> QED BY <2>1, <2>3, <3>1, <3>2 DEF AttemptKept
  <2> QED BY <1>1, <1>2, <1>3, <1>4, <1>5, <1>6, <2>1, <2>2, <2>4, <2>5, <2>6, LinkOrders
<1>8. CASE ~OwnsReturned(r)
  <2>1. /\ user.attempt # b /\ user' = user /\ session' = session /\ intents' = intents \cup {b}
    BY <1>6, <1>8 DEF OwnsReturned, Persist, b
  <2>2. SessionsGoOn /\ GivenStands /\ SessionsStand /\ LateStands
    BY <1>1, <2>1, SessionsAsTheyAre
  <2>3. ~Answering(r)'
    BY <1>2 DEF Answering
  <2>4. \A a \in Attempts : Payable(a)' => Payable(a)
    BY <1>2, <2>2, <2>3, PayableStands
  <2>5. ASSUME NEW p \in Aims, Bound(user.attempt, p)', user.attempt # Nothing
        PROVE  Bound(user.attempt, p)
    <3>1. PICK a \in Attempts : a = user.attempt
      BY <2>5, RowsRight DEF UserRight, User, Maybe
    <3>2. Bound(a, p)'
      BY <2>1, <2>5, <3>1 DEF Bound, ByRequest, ByRow, Answering
    <3>3. ~ByRequest(r, a, p)'
      BY <1>2, <2>3 DEF ByRequest
    <3> QED BY <1>1, <1>2, <2>2, <3>1, <3>2, <3>3, BoundStays
  <2>6. AttemptKept(r)
    <3> SUFFICES ASSUME user.attempt # Nothing
                 PROVE  AttemptKept(r)
      BY DEF AttemptKept
    <3>1. user.attempt \notin intents'
      BY <2>1 DEF Orderly, AttemptStays
    <3>2. ~Doomed(r, user.attempt)'
      BY <1>2, <2>1, <3>1 DEF Doomed
    <3> QED BY <2>1, <3>1, <3>2 DEF AttemptKept
  <2>7. AccountStands
    BY <2>1 DEF AccountStands
  <2> QED BY <1>1, <1>2, <1>3, <1>4, <1>5, <2>2, <2>4, <2>5, <2>6, <2>7, KeepOrders
<1> QED BY <1>7, <1>8

LEMMA KeepsRecoveredOrders ==
    ASSUME IInv, Coherent, Orderly, NEW r \in Requests, KeepsRecovered(r)
    PROVE  Orderly'
<1> DEFINE q == Enter(r, "operations")
<1>1. Persist(r, q) /\ session' = session /\ req[r].pc = "keep_recovered"
  BY DEF KeepsRecovered, At
<1>2. req[r].attempt \in Attempts
  BY <1>1, ReqTyped DEF IInv, Typed, InOrder
<1>3. q.pc = "operations" /\ q.sessions = Nothing /\ q.subs = Nothing /\ q.todo = {}
  BY DEF Enter, Idle
<1> HIDE DEF q
<1> QED BY <1>1, <1>2, <1>3, PersistOrders

LEMMA KeepsCreatedOrders ==
    ASSUME IInv, Coherent, Orderly, NEW r \in Requests, KeepsCreated(r)
    PROVE  Orderly'
<1> DEFINE clean == [Enter(r, "cleanup") EXCEPT !.todo = intents', !.conflict = TRUE]
           next == IF Owned(r) = {} THEN Idle ELSE clean
<1>1. next.pc \in {"cleanup", "idle"} /\ next.sessions = Nothing /\ next.subs = Nothing /\ next.todo \in {{}, intents'}
  BY IdleRemembers DEF Enter, Idle
<1>2. req[r].pc = "keep" /\ req[r].attempt \in Attempts
  BY ReqTyped DEF KeepsCreated, At, IInv, Typed, InOrder
<1>3. CASE Persist(r, Idle) /\ OwnsReturned(r) /\ GivesOut(req[r].attempt)
  BY <1>2, <1>3, IdleRemembers, PersistOrders
<1>4. CASE Persist(r, next) /\ session' = session
  <2> HIDE DEF next
  <2> QED BY <1>1, <1>2, <1>4, PersistOrders
<1> QED BY <1>3, <1>4 DEF KeepsCreated

-----------------------------------------------------------------------------
(* Requests that come to a decision *)

LEMMA ClearedAnew ==
    ASSUME IInv
    PROVE  Cleared.attempt = Nothing /\ Cleared.offer = Nothing /\ Cleared.session = Nothing /\ Cleared.age = 0
BY RowsRight DEF Cleared, UserRight, User

LEMMA AppliesOrders ==
    ASSUME IInv, Coherent, Orderly, NEW r \in Requests, Applies(r)
    PROVE  Orderly'
<1>1. /\ UNCHANGED <<ops, intents, session, late, subs, changes>> /\ Bumps(r, Idle)
      /\ req[r].pc = "apply" /\ req[r].fresh
      /\ user' = IF req[r].subs = {} THEN user ELSE Cleared
  BY DEF Applies, At
<1>2. OthersHold(r) /\ (\A i \in Operations : RowStands(i, r)) /\ req[r].pc \in Bare
  BY <1>1, RowsAsTheyAre DEF Bare
<1>3. CASE user' = user
  BY <1>1, <1>2, <1>3, IdleRemembers, EntryAloneOrders DEF Phases
<1>4. CASE user' = Cleared
  <2>1. /\ user'.attempt = Nothing /\ user'.offer = Nothing /\ user'.session = Nothing /\ user'.age = 0
    BY <1>4, ClearedAnew
  <2>2. changes # 0
    <3>1. req[r].want = "webhook" /\ Hears(req[r], changes)
      BY <1>1 DEF IInv, WebhooksInOrder, Applicable
    <3>2. req[r].event \in 1 .. changes
      BY <3>1 DEF Hears
    <3> QED BY <3>2
  <2>3. req'[r] = Idle /\ OthersStand(r) /\ Relists(r)
    BY <1>1, OthersGoOn, BumpsRelists
  <2>4. AimHolds(r)
    BY <2>3, IdleRemembers DEF AimHolds, Coordinator, Reserved
  <2>5. OrderlyFor(r)'
    BY <2>3, IdleRemembers, NothingToKnow DEF Phases
  <2> QED BY <1>1, <1>2, <2>1, <2>2, <2>3, <2>4, <2>5, ClearOrders
<1> QED BY <1>1, <1>3, <1>4

LEMMA TurnsToPortalOrders ==
    ASSUME IInv, Coherent, Orderly, NEW r \in Requests, TurnsToPortal(r)
    PROVE  Orderly'
<1> DEFINE q == Enter(r, "portal")
<1>1. /\ UNCHANGED <<session, changes>> /\ Bumps(r, q) /\ Coordinates(r) /\ req[r].subs # {}
      /\ user' = Cleared /\ ops' = Renewed(r)
  BY DEF TurnsToPortal, stripe
<1>2. q.pc = "portal" /\ q.sessions = Nothing /\ q.subs = Nothing
  BY DEF Enter, Idle
<1> HIDE DEF q
<1>3. req'[r] = q /\ OthersStand(r) /\ Relists(r)
  BY <1>1, OthersGoOn, BumpsRelists
<1>4. user'.attempt = Nothing /\ user'.offer = Nothing /\ user'.session = Nothing /\ user'.age = 0
  BY <1>1, ClearedAnew
<1>5. changes # 0
  BY <1>1, Deciding DEF Orderly, SeesNone
<1>6. AimHolds(r)
  BY <1>2, <1>3 DEF AimHolds, Coordinator, Reserved
<1>7. OrderlyFor(r)'
  BY <1>2, <1>3, NothingToKnow DEF Phases
<1> QED BY <1>1, <1>3, <1>4, <1>5, <1>6, <1>7, RowsHold, ClearOrders

-----------------------------------------------------------------------------
(* Reconciliation *)

LEMMA SettlesOrders ==
    ASSUME IInv, Coherent, Orderly, NEW r \in Requests, NEW q, Becomes(r, q) \/ Bumps(r, q),
           UNCHANGED <<session, late, subs, changes>>, OthersHold(r),
           \/ /\ user' = user
              /\ \A o \in Aims : user.attempt # Nothing /\ Bound(user.attempt, o)' => Bound(user.attempt, o)
           \/ /\ user' = [user EXCEPT !.session = user.attempt] /\ Bumps(r, q)
              /\ user.attempt \in Attempts /\ session[user.attempt].status # "none",
           user.attempt # Nothing => user.attempt \notin intents',
           q.pc \in {"cleanup", "recover", "recover_portal"}, q.sessions = Nothing, q.subs = Nothing,
           q.todo \in {{}, intents'}, q.pc = "recover" => Owned(r)' # {}
    PROVE  Orderly'
<1>1. req'[r] = q /\ OthersStand(r)
  BY OthersGoOn
<1>2. SessionsGoOn /\ GivenStands
  BY SessionsAsTheyAre
<1>3. AimHolds(r)
  BY <1>1 DEF AimHolds, Coordinator, Reserved
<1>4. OrderlyFor(r)'
  BY <1>1 DEF OrderlyFor, ListsWell, Remembers, KnowsAttempt, Expiring, HasRow, SeesNone
<1>5. ~Answering(r)'
  BY <1>1 DEF Answering
<1>6. \A a \in Attempts : Payable(a)' => Payable(a)
  BY <1>1, <1>2, <1>5, PayableStands
<1>7. user'.attempt = user.attempt /\ user'.offer = user.offer /\ user'.age = user.age
  BY RowsRight DEF UserRight, User
<1>8. AttemptKept(r)
  <2> SUFFICES ASSUME user.attempt # Nothing
               PROVE  AttemptKept(r)
    BY DEF AttemptKept
  <2>1. ~Doomed(r, user.attempt)'
    BY <1>1, <1>7 DEF Doomed
  <2> QED BY <2>1 DEF AttemptKept
<1>9. CASE /\ user' = user
           /\ \A o \in Aims : user.attempt # Nothing /\ Bound(user.attempt, o)' => Bound(user.attempt, o)
  <2>1. AccountStands
    BY <1>9 DEF AccountStands
  <2> QED BY <1>1, <1>2, <1>3, <1>4, <1>6, <1>8, <1>9, <2>1, KeepOrders
<1>10. CASE /\ user' = [user EXCEPT !.session = user.attempt] /\ Bumps(r, q)
            /\ user.attempt \in Attempts /\ session[user.attempt].status # "none"
  <2>1. user'.session = user.attempt
    BY <1>10, RowsRight DEF UserRight, User
  <2>2. Relists(r)
    BY <1>10, BumpsRelists
  <2> QED BY <1>1, <1>2, <1>3, <1>4, <1>6, <1>7, <1>8, <1>10, <2>1, <2>2, LinkOrders
<1> QED BY <1>9, <1>10

\* A request that takes over a row is bound to no other offer.
LEMMA TakesOverBinds ==
    ASSUME IInv, Coherent, NEW r \in Requests, req[r].pc = "reconcile", NEW gone,
           NEW i \in Recoverable(r), i \notin gone, ops' = Claimed(r, i, gone), Bumps(r, Recovery(r, i)),
           UNCHANGED <<user, session, late>>, NEW b \in Attempts, NEW o \in Aims, Bound(b, o)'
    PROVE  Bound(b, o)
<1> DEFINE q == Recovery(r, i)
<1>1. i \in ExpiredOps /\ i \in Operations /\ ops[i] # Nothing /\ ops[i].kind \in {"checkout", "portal"}
  BY RowsRight, RowTyped DEF Recoverable, ExpiredOps, Operation
<1>2. req'[r] = q /\ OthersStand(r)
  BY OthersGoOn
<1>3. /\ ops[i].kind = "portal" => q.pc = "recover_portal"
      /\ ops[i].kind = "checkout" => q.pc = "recover" /\ q.attempt = ops[i].attempt /\ q.offer = ops[i].offer
  BY <1>1, RecoveryFields
<1> HIDE DEF q
<1>4. /\ ops'[i].kind = ops[i].kind /\ ops'[i].attempt = ops[i].attempt /\ ops'[i].offer = ops[i].offer
      /\ \A j \in Operations \ {i} : ops'[j] = Nothing \/ ops'[j] = ops[j]
  <2>1. ASSUME NEW j \in Operations
        PROVE  /\ j # i => ops'[j] = Nothing \/ ops'[j] = ops[j]
               /\ ops'[i].kind = ops[i].kind /\ ops'[i].attempt = ops[i].attempt /\ ops'[i].offer = ops[i].offer
    <3>1. i \in ExpiredOps
      BY <1>1
    <3> QED BY <3>1, ClaimedRows, Zenon
  <2> QED BY <1>1, <2>1
<1>5. \A j \in Operations : ops[j] # Nothing => ops[j].owner # r
  BY DEF Coherent, RowFits, Bare
<1>6. ASSUME ByRequest(r, b, o)'
      PROVE  Bound(b, o)
  <2>1. q.pc = "recover" /\ b = ops[i].attempt /\ o = ops[i].offer /\ ops[i].kind = "checkout"
    BY <1>1, <1>2, <1>3, <1>6 DEF ByRequest, Answering
  <2>2. b = user.attempt
    BY <2>1 DEF Recoverable
  <2>3. ByRow(i, b, o)
    BY <1>1, <2>1, <2>2, ExpiredIsFree DEF ByRow
  <2> QED BY <1>1, <2>3 DEF Bound
<1>7. ASSUME NEW s \in Requests \ {r}, ByRequest(s, b, o)'
      PROVE  Bound(b, o)
  <2>1. ByRequest(s, b, o)
    BY <1>2, <1>7 DEF OthersStand, ByRequest, Answering
  <2> QED BY <2>1 DEF Bound
<1>8. ASSUME NEW j \in Operations, ByRow(j, b, o)'
      PROVE  Bound(b, o)
  <2>1. b = user.attempt
    BY <1>8 DEF ByRow
  <2>2. CASE j = i
    <3>1. ByRow(i, b, o)
      BY <1>1, <1>4, <1>8, <2>1, <2>2, ExpiredIsFree DEF ByRow
    <3> QED BY <1>1, <3>1 DEF Bound
  <2>3. CASE j # i
    <3>1. ops'[j] = ops[j] /\ ops[j] # Nothing /\ ops[j].owner # r
      BY <1>4, <1>5, <1>8, <2>3 DEF ByRow
    <3>2. ByRow(j, b, o)
      BY <1>2, <1>8, <2>1, <3>1 DEF ByRow, OthersStand
    <3> QED BY <3>2 DEF Bound
  <2> QED BY <2>2, <2>3
<1> QED BY <1>6, <1>7, <1>8 DEF Bound

LEMMA ClaimedHold ==
    ASSUME IInv, Coherent, NEW r \in Requests, NEW i \in ExpiredOps, NEW gone, gone \subseteq ExpiredOps, i \notin gone,
           ops' = Claimed(r, i, gone)
    PROVE  OthersHold(r) /\ Owned(r)' # {}
<1>1. i \in Operations
  BY DEF ExpiredOps
<1>2. ops'[i].owner = r /\ \A j \in Operations : j # i => ops'[j] = Nothing \/ ops'[j] = ops[j]
  <2>1. ASSUME NEW j \in Operations
        PROVE  ops'[i].owner = r /\ (j # i => ops'[j] = Nothing \/ ops'[j] = ops[j])
    BY ClaimedRows
  <2> QED BY <1>1, <2>1
<1>3. ops'[i] # Nothing
  <2>1. ops[i] # Nothing /\ ops[i] \in Operation
    BY <1>1, RowsRight, RowTyped DEF ExpiredOps
  <2> DEFINE row == [ops[i] EXCEPT !.owner = r, !.live = TRUE]
  <2>2. row \in Operation
    BY <2>1, ZenonT(30) DEF Operation, Maybe
  <2>3. ops' = [Without(ops, gone) EXCEPT ![i] = row]
    BY <1>1, <2>1 DEF Claimed, Without, Operation
  <2>4. ops'[i] = row
    BY <1>1, <2>3 DEF Without
  <2> QED BY <2>2, <2>4, RowAssumption
<1>4. ASSUME NEW s \in Requests \ {r}, NEW j \in Operations, ops[j] # Nothing, ops[j].owner = s
      PROVE  ops'[j] = ops[j]
  <2>1. j \notin ExpiredOps
    BY <1>4, ExpiredIsFree
  <2>2. j # i /\ j \notin gone
    BY <2>1
  <2> QED BY <2>2 DEF Claimed, Without
<1>5. OthersHold(r)
  BY <1>2, <1>4 DEF OthersHold, Owned
<1> QED BY <1>1, <1>2, <1>3, <1>5 DEF Owned

LEMMA ReconcilesOrders ==
    ASSUME IInv, Coherent, Orderly, NEW r \in Requests, Reconciles(r)
    PROVE  Orderly'
<1> DEFINE gone == Found(r) \cup Abandoned(r)
           seen == {ops[i].attempt : i \in Found(r)}
           ours == seen \cap {user.attempt}
           next == [Enter(r, "cleanup") EXCEPT !.todo = intents']
<1>1. /\ req[r].pc = "reconcile" /\ req[r].fresh /\ UNCHANGED <<session, late, subs, changes>>
      /\ intents' = (intents \cup seen) \ ours
      /\ user' = IF ours = {} THEN user ELSE [user EXCEPT !.session = user.attempt]
  BY DEF Reconciles, At, stripe
<1>2. ASSUME ours # {}
      PROVE  user.attempt \in Attempts /\ session[user.attempt].status # "none" /\ gone # {}
  <2>1. PICK i \in Found(r) : ops[i].attempt = user.attempt
    BY <1>2
  <2>2. /\ i \in Operations /\ ops[i] # Nothing /\ ops[i].kind = "checkout"
        /\ req[r].sessions[ops[i].attempt] # "none"
    BY DEF Found, ExpiredOps
  <2>3. ops[i].attempt \in Attempts
    BY <2>2, RowsRight, RowTyped DEF RowInOrder
  <2>4. req[r].fresh = TRUE
    BY <1>1, ReqTyped, Zenon DEF IInv, Typed, Request
  <2>5. session[user.attempt].status # "none"
    BY <1>1, <2>1, <2>2, <2>3, <2>4 DEF Orderly, ListsWell, Remembers
  <2> QED BY <2>1, <2>3, <2>5
<1>3. user.attempt # Nothing => user.attempt \notin intents'
  <2>1. user.attempt # Nothing => user.attempt \notin intents
    BY DEF Orderly, AttemptStays
  <2> QED BY <1>1, <2>1
<1>4. gone \subseteq ExpiredOps /\ ExpiredOps \subseteq Operations
  BY DEF Found, Abandoned, ExpiredOps
<1>5. /\ next.pc = "cleanup" /\ next.sessions = Nothing /\ next.subs = Nothing /\ next.todo = intents'
  BY DEF Enter, Idle
<1>6. \/ ops' = Without(ops, gone) /\ ((gone = {} /\ Becomes(r, next)) \/ Bumps(r, next))
      \/ \E i \in Recoverable(r) : ops' = Claimed(r, i, gone) /\ Bumps(r, Recovery(r, i))
  BY DEF Reconciles
<1> HIDE DEF gone, seen, ours, next
<1>7. CASE ops' = Without(ops, gone) /\ ((gone = {} /\ Becomes(r, next)) \/ Bumps(r, next))
  <2>1. OthersHold(r)
    <3> SUFFICES ASSUME NEW s \in Requests \ {r}, NEW i \in Operations
                 PROVE  ops'[i] # Nothing /\ ops'[i].owner = s <=> ops[i] # Nothing /\ ops[i].owner = s
      BY DEF OthersHold, Owned
    <3>1. i \in gone => ops[i].owner # s /\ ops'[i] = Nothing
      BY <1>4, <1>7, ExpiredIsFree DEF Without
    <3>2. i \notin gone => ops'[i] = ops[i]
      BY <1>7 DEF Without
    <3> QED BY <3>1, <3>2
  <2>2. ASSUME user' = user, NEW o \in Aims, user.attempt # Nothing, Bound(user.attempt, o)'
        PROVE  Bound(user.attempt, o)
    <3>1. PICK b \in Attempts : b = user.attempt
      BY <2>2, RowsRight DEF UserRight, User, Maybe
    <3>2. Bound(b, o)'
      BY <2>2, <3>1 DEF Bound, ByRequest, ByRow, Answering
    <3>3. req'[r] = next /\ OthersStand(r)
      BY <1>7, OthersGoOn
    <3>4. ~ByRequest(r, b, o)'
      BY <1>5, <3>3 DEF ByRequest, Answering
    <3>5. SessionsStand /\ LateStands /\ UserStands
      BY <1>1, <2>2, StripeAlone DEF UserStands
    <3>6. \A i \in Operations : RowStands(i, r)
      BY <1>4, <1>7, RowsStand
    <3>7. req[r].pc \notin Settling
      BY <1>1 DEF Settling
    <3>8. Bound(b, o)
      BY <3>2, <3>3, <3>4, <3>5, <3>6, <3>7, BoundStays
    <3> QED BY <3>1, <3>8
  <2> QED BY <1>1, <1>2, <1>3, <1>5, <1>7, <2>1, <2>2, SettlesOrders
<1>8. ASSUME NEW i \in Recoverable(r), ops' = Claimed(r, i, gone), Bumps(r, Recovery(r, i))
      PROVE  Orderly'
  <2> DEFINE q == Recovery(r, i)
  <2>1. i \notin gone /\ i \in ExpiredOps
    <3>1. i \notin Found(r) /\ i \in ExpiredOps
      BY DEF Recoverable
    <3>2. i \notin Abandoned(r)
      BY DEF Recoverable, Abandoned
    <3> QED BY <3>1, <3>2 DEF gone
  <2>2. OthersHold(r) /\ Owned(r)' # {}
    BY <1>4, <1>8, <2>1, ClaimedHold
  <2>3. ASSUME user' = user, NEW o \in Aims, user.attempt # Nothing, Bound(user.attempt, o)'
        PROVE  Bound(user.attempt, o)
    <3>1. PICK b \in Attempts : b = user.attempt
      BY <2>3, RowsRight DEF UserRight, User, Maybe
    <3>2. Bound(b, o)'
      BY <2>3, <3>1 DEF Bound, ByRequest, ByRow, Answering
    <3>3. Bound(b, o)
      BY <1>1, <1>8, <2>1, <2>3, <3>2, TakesOverBinds
    <3> QED BY <3>1, <3>3
  <2>4. /\ q.pc \in {"recover", "recover_portal"} /\ q.sessions = Nothing /\ q.subs = Nothing /\ q.todo = {}
    BY DEF Recovery, Enter, Idle
  <2>5. Bumps(r, q)
    BY <1>8
  <2> HIDE DEF q
  <2> QED BY <1>1, <1>2, <1>3, <2>2, <2>3, <2>4, <2>5, SettlesOrders
<1> QED BY <1>6, <1>7, <1>8

-----------------------------------------------------------------------------
(* Requests that go on with the attempt *)

\* A row that is renewed is kept.
LEMMA RenewedKept ==
    ASSUME IInv, NEW r \in Requests, NEW a \in Maybe(Attempts), ops' = RenewedFor(r, a)
    PROVE  Owned(r)' = Owned(r)
<1> SUFFICES ASSUME NEW i \in Operations
             PROVE  ops'[i] # Nothing /\ ops'[i].owner = r <=> ops[i] # Nothing /\ ops[i].owner = r
  BY DEF Owned
<1>1. CASE i \notin Owned(r)
  <2>1. ops'[i] = ops[i]
    BY <1>1, RenewedRows
  <2> QED BY <2>1
<1>2. CASE i \in Owned(r)
  <2>1. ops[i] # Nothing /\ ops[i] \in Operation /\ ops[i].owner = r
    BY <1>2, RowsRight, RowTyped DEF Owned
  <2> DEFINE row == [ops[i] EXCEPT !.live = TRUE, !.attempt = a]
  <2>2. row \in Operation
    BY <2>1, ZenonT(30) DEF Operation
  <2>3. ops'[i] = [Renewed(r)[i] EXCEPT !.attempt = a] /\ Renewed(r)[i] = [ops[i] EXCEPT !.live = TRUE]
    BY <1>2 DEF RenewedFor, Renewed
  <2>4. ops'[i] = row
    BY <2>1, <2>3 DEF Operation
  <2>5. ops'[i].owner = r
    BY <1>2, RenewedRows
  <2> QED BY <2>1, <2>2, <2>4, <2>5, RowAssumption
<1> QED BY <1>1, <1>2

\* Nothing may be created that might not have been.
LEMMA RenewBinds ==
    ASSUME IInv, NEW r \in Requests, OthersStand(r), NEW a, ops' = RenewedFor(r, a), UNCHANGED <<session, late>>,
           user'.attempt = user.attempt, req'[r].pc \in {"expire", "complete"}, ~Answering(r)',
           NEW b, NEW o \in Aims, Bound(b, o)'
    PROVE  Bound(b, o)
<1>1. ASSUME NEW s \in Requests, ByRequest(s, b, o)'
      PROVE  ByRequest(s, b, o)
  <2>1. s # r
    BY <1>1 DEF ByRequest
  <2> QED BY <1>1, <2>1 DEF ByRequest, OthersStand, Answering
<1>2. ASSUME NEW i \in Operations, ByRow(i, b, o)'
      PROVE  ByRow(i, b, o)
  <2>1. i \notin Owned(r)
    <3> SUFFICES ASSUME i \in Owned(r)
                 PROVE  FALSE
      OBVIOUS
    <3>1. ops'[i].owner = r
      BY RenewedRows
    <3> QED BY <1>2, <3>1 DEF ByRow, Settling
  <2>2. ops'[i] = ops[i]
    BY <2>1, RenewedRows
  <2>3. ops[i] # Nothing /\ ops[i].owner # r
    BY <1>2, <2>1, <2>2 DEF ByRow, Owned
  <2> QED BY <1>2, <2>2, <2>3 DEF ByRow, OthersStand
<1> QED BY <1>1, <1>2 DEF Bound

LEMMA ReusesOrders ==
    ASSUME IInv, Coherent, Orderly, NEW r \in Requests, Reuses(r)
    PROVE  Orderly'
<1> DEFINE q == [Enter(r, "complete") EXCEPT !.attempt = user.attempt]
<1>1. /\ ops' = RenewedFor(r, user.attempt) /\ Bumps(r, q) /\ UNCHANGED <<session, late, intents, subs, changes>>
      /\ Coordinates(r) /\ Has(r, AttemptSession(r), "open")
  BY DEF Reuses, stripe, Undisturbed
<1>2. /\ user'.attempt = user.attempt /\ user'.offer = user.offer
      /\ user'.session = user.attempt /\ user'.age = user.age
  BY RowsRight DEF Reuses, UserRight, User
<1>3. q.pc = "complete" /\ q.sessions = Nothing /\ q.subs = Nothing /\ q.attempt = user.attempt /\ q.todo = {}
  BY DEF Enter, Idle
<1>4. user.attempt \in Attempts /\ session[user.attempt].status # "none"
  <2>1. user.attempt \in Attempts /\ req[r].sessions[user.attempt] = "open"
    BY <1>1 DEF Has, AttemptSession, Listed
  <2>2. ListsLast(r)
    BY DEF Coherent
  <2> QED BY <1>1, <2>1, <2>2, Deciding DEF ListsLast
<1> HIDE DEF q
<1>5. req'[r] = q /\ OthersStand(r) /\ Relists(r)
  BY <1>1, OthersGoOn, BumpsRelists
<1>6. SessionsGoOn
  BY <1>1, SessionsAsTheyAre
<1>7. ASSUME NEW a \in Attempts, Payable(a)', a # user.attempt
      PROVE  Payable(a)
  <2>1. ASSUME NEW s \in Requests, Answering(s)', req'[s].attempt = a
        PROVE  Answering(s) /\ req[s].attempt = a
    <3>1. s # r
      BY <1>3, <1>5, <1>7, <2>1
    <3> QED BY <1>5, <2>1, <3>1 DEF OthersStand, Answering
  <2> QED BY <1>1, <1>7, <2>1 DEF Payable
<1>8. AttemptKept(r)
  <2>1. ~Doomed(r, user.attempt)'
    BY <1>3, <1>5 DEF Doomed
  <2> QED BY <1>1, <2>1 DEF AttemptKept
<1>9. AimHolds(r)
  BY <1>3, <1>5 DEF AimHolds, Coordinator, Reserved
<1>10. OrderlyFor(r)'
  BY <1>3, <1>5, NothingToKnow DEF Phases
<1>11. OthersHold(r)
  BY <1>1, <1>4, RowsHold DEF Maybe
<1> QED BY <1>1, <1>2, <1>4, <1>5, <1>6, <1>7, <1>8, <1>9, <1>10, <1>11, LinkOrders

\* The request decides, and goes on with the attempt it found.
LEMMA DecidesOrders ==
    ASSUME IInv, Coherent, Orderly, NEW r \in Requests, Coordinates(r), NEW q, Becomes(r, q),
           ops' = RenewedFor(r, user.attempt), user.attempt \in Attempts,
           UNCHANGED <<user, intents, session, late, subs, changes>>,
           q.pc \in {"expire", "complete", "create"}, q.want = req[r].want, q.todo = {},
           q.sessions = Nothing, q.subs = Nothing, q.pc = "complete" => q.attempt = Nothing,
           q.pc = "expire" => /\ user.offer = req[r].want /\ q.attempt = user.attempt /\ q.target # user.attempt,
           q.pc = "create" => user.session \in {Nothing, user.attempt} \/ session[user.session].status # "open"
    PROVE  Orderly'
<1>1. req'[r] = q /\ OthersStand(r)
  BY OthersGoOn
<1>2. SessionsGoOn /\ GivenStands /\ AccountStands
  BY SessionsAsTheyAre DEF AccountStands
<1>3. OthersHold(r) /\ Owned(r)' = Owned(r)
  BY RowsHold, RenewedKept DEF Maybe
<1>4. ~Answering(r)'
  BY <1>1 DEF Answering
<1>5. \A a \in Attempts : Payable(a)' => Payable(a)
  BY <1>1, <1>2, <1>4, PayableStands
<1>6. ASSUME NEW o \in Aims, Bound(user.attempt, o)'
      PROVE  \/ Bound(user.attempt, o)
             \/ user.session \in {Nothing, user.attempt}
             \/ session[user.session].status # "open"
  <2>1. CASE q.pc = "create"
    BY <2>1
  <2>2. CASE q.pc # "create"
    <3>1. PICK b \in Attempts : b = user.attempt
      OBVIOUS
    <3>2. Bound(b, o)'
      BY <1>6, <3>1 DEF Bound, ByRequest, ByRow, Answering
    <3>3. Bound(b, o)
      BY <1>1, <1>4, <2>2, <3>2, RenewBinds
    <3> QED BY <3>1, <3>3
  <2> QED BY <2>1, <2>2
<1>7. AttemptKept(r)
  <2>1. ~Doomed(r, user.attempt)'
    BY <1>1 DEF Doomed
  <2> QED BY <2>1 DEF AttemptKept
<1>8. AimHolds(r)
  BY <1>1, <1>3, Deciding DEF AimHolds, Coordinator, Reserved
<1>9. OrderlyFor(r)'
  <2>1. ListsWell(r)' /\ SeesNone(r)'
    BY <1>1 DEF ListsWell, SeesNone, Remembers
  <2>2. KnowsAttempt(r)'
    BY <1>1 DEF KnowsAttempt, Expiring, Own
  <2>3. HasRow(r)'
    BY <1>3 DEF HasRow, Coordinates
  <2> QED BY <2>1, <2>2, <2>3 DEF OrderlyFor
<1> QED BY <1>1, <1>2, <1>3, <1>5, <1>6, <1>7, <1>8, <1>9, KeepOrders

\* The account's session is among those listed.
LEMMA ListsPersisted ==
    ASSUME IInv, Orderly, NEW r \in Requests, Coordinates(r), user.session \in Attempts
    PROVE  /\ PersistedSession(r) = {user.session}
           /\ session[user.session].status = "open" => Has(r, PersistedSession(r), "open")
<1>1. Remembers(r)
  BY Deciding DEF Remembers
<1>2. req[r].sessions[user.session] # "none"
  BY <1>1 DEF Orderly, ListsWell
<1>3. PersistedSession(r) = {user.session}
  BY <1>2 DEF PersistedSession, Listed
<1>4. session[user.session].status = "open" => req[r].sessions[user.session] = "open"
  BY <1>1, <1>2 DEF Orderly, ListsWell
<1> QED BY <1>3, <1>4 DEF Has

LEMMA AttemptFound ==
    ASSUME IInv, NEW r \in Requests, Coordinates(r), Same(r)
    PROVE  user.attempt \in Attempts
BY Deciding, RowsRight, NothingAssumption DEF Same, UserRight, User, Maybe

LEMMA ProceedsOrders ==
    ASSUME IInv, Coherent, Orderly, NEW r \in Requests, Proceeds(r)
    PROVE  Orderly'
<1> DEFINE q == ToCreate(r, user.attempt)
<1>1. /\ Same(r) /\ ops' = RenewedFor(r, user.attempt) /\ Becomes(r, q)
      /\ UNCHANGED <<user, intents, session, late, subs, changes>>
      /\ Coordinates(r) /\ ~Has(r, PersistedSession(r), "open")
  BY DEF Proceeds, stripe, NotReused, Undisturbed
<1>2. /\ q.pc = "create" /\ q.want = req[r].want /\ q.sessions = Nothing /\ q.subs = Nothing /\ q.todo = {}
  BY DEF ToCreate, Enter, Idle
<1>3. user.attempt \in Attempts
  BY <1>1, AttemptFound
<1>4. user.session # Nothing => session[user.session].status # "open"
  <2>1. user.session \in Maybe(Attempts)
    BY RowsRight DEF UserRight, User
  <2> QED BY <1>1, <2>1, ListsPersisted DEF Maybe
<1> HIDE DEF q
<1> QED BY <1>1, <1>2, <1>3, <1>4, DecidesOrders

LEMMA ExpiresFirstOrders ==
    ASSUME IInv, Coherent, Orderly, NEW r \in Requests, ExpiresFirst(r)
    PROVE  Orderly'
<1> DEFINE q == Expire(r, user.attempt, user.session)
<1>1. /\ Same(r) /\ ops' = RenewedFor(r, user.attempt) /\ Becomes(r, q)
      /\ UNCHANGED <<user, intents, session, late, subs, changes>>
      /\ Coordinates(r) /\ Elsewhere(r) /\ Has(r, PersistedSession(r), "open")
  BY DEF ExpiresFirst, stripe, NotReused, Undisturbed
<1>2. user.attempt \in Attempts
  BY <1>1, AttemptFound
<1>3. user.session \in Attempts /\ user.session # user.attempt
  <2>1. PersistedSession(r) # {} /\ PersistedSession(r) # {user.attempt}
    BY <1>1 DEF Has, Elsewhere
  <2> QED BY <2>1 DEF PersistedSession, Listed
<1>4. ~req[r].again \/ user.attempt = req[r].target
  <2> SUFFICES ASSUME req[r].again
               PROVE  user.attempt = req[r].target
    OBVIOUS
  <2>1. req[r].again = TRUE
    BY ReqTyped, Zenon DEF IInv, Typed, Request
  <2>2. Expiring(r) /\ Own(r) = req[r].target /\ Owned(r) # {}
    BY <1>1, <2>1, Deciding DEF Expiring, Own, Coordinates
  <2>3. user.session # Nothing
    BY <1>3, NothingAssumption
  <2> QED BY <1>3, <2>2, <2>3 DEF Orderly, KnowsAttempt
<1>5. \/ q = [Enter(r, "expire") EXCEPT !.attempt = user.attempt, !.target = user.session]
      \/ q = Enter(r, "complete")
  BY <1>4 DEF Expire
<1>6. /\ q.pc \in {"expire", "complete"} /\ q.want = req[r].want /\ q.sessions = Nothing /\ q.subs = Nothing /\ q.todo = {}
      /\ q.pc = "expire" => q.attempt = user.attempt /\ q.target = user.session
      /\ q.pc = "complete" => q.attempt = Nothing
  BY <1>5 DEF Enter, Idle
<1> HIDE DEF q
<1> QED BY <1>1, <1>2, <1>3, <1>6, DecidesOrders DEF Same

-----------------------------------------------------------------------------
(* A new attempt *)

LEMMA AnewOrders ==
    ASSUME IInv, Coherent, Orderly, NEW r \in Requests, NEW a \in Attempts, NewAttempt(a),
           user'.attempt = a, user'.offer = req[r].want, user'.age = 0,
           user'.session = Nothing \/ (user'.session \in {user.attempt, user.session} \cap Attempts
                                       /\ session[user'.session].status # "none"),
           session' = [session EXCEPT ![a] = Uncreated], UNCHANGED <<intents, late, subs, changes>>,
           AnewRows(r), OthersHold(r), NEW q, Bumps(r, q), q.sessions = Nothing, q.subs = Nothing, q.todo = {},
           q.pc \in {"customer", "expire"}, q.want = req[r].want,
           q.pc = "expire" => q.attempt = a /\ q.target = user'.session,
           \A b \in Attempts : Payable(b) /\ b \in {user.attempt, user.session} => b = user'.session,
           AimHolds(r), Turns(r)
    PROVE  Orderly'
<1>1. req'[r] = q /\ OthersStand(r) /\ Relists(r)
  BY OthersGoOn, BumpsRelists
<1>2. /\ session'[a].status = "none" /\ session'[a].age = 0
      /\ \A b \in Attempts \ {a} : session'[b] = session[b]
  BY RowsRight DEF SessionsRight, Uncreated
<1>3. /\ a \notin {user.attempt, user.session} \cup intents
      /\ \A o \in Aims : [attempt |-> a, offer |-> o] \notin late
      /\ \A i \in Operations : ops[i] # Nothing => ops[i].attempt # a
      /\ \A s \in Requests : req[s].attempt # a /\ req[s].target # a /\ a \notin req[s].todo
  BY NobodyKnows
<1>4. a # Nothing /\ user'.session # a
  BY <1>3, NothingAssumption
<1>5. Young' /\ SessionExists'
  <2>1. Young'
    BY <1>2 DEF Young, Orderly
  <2>2. user'.session # Nothing => session'[user'.session].status # "none"
    BY <1>2, <1>4
  <2> QED BY <1>4, <2>1, <2>2 DEF SessionExists
<1>6. SupersededEnds'
  <2> SUFFICES ASSUME NEW o \in Aims, Bound(a, o)'
               PROVE  FALSE
    BY DEF SupersededEnds, Bound, ByRequest, ByRow, Answering
  <2>1. ASSUME NEW s \in Requests, ByRequest(s, a, o)'
        PROVE  FALSE
    <3>1. s # r
      BY <1>1, <2>1 DEF ByRequest, Answering
    <3> QED BY <1>1, <1>3, <2>1, <3>1 DEF ByRequest, Answering, OthersStand
  <2>2. ASSUME NEW i \in Operations, ByRow(i, a, o)'
        PROVE  FALSE
    <3>1. ops'[i] # Nothing /\ ops'[i].attempt = a /\ ops'[i].owner # r
      BY <1>1, <2>2 DEF ByRow, Settling
    <3> QED BY <1>3, <3>1 DEF AnewRows
  <2> QED BY <1>2, <1>3, <2>1, <2>2 DEF Bound
<1>7. AttemptStays'
  <2>1. \A s \in Requests : ~Doomed(s, a)'
    BY <1>1, <1>3, <1>4 DEF Doomed, OthersStand
  <2> QED BY <1>2, <1>3, <2>1 DEF AttemptStays, Doomed
<1>8. NamesPayable'
  <2> SUFFICES ASSUME changes = 0, NEW b \in Attempts, Payable(b)'
               PROVE  b = user'.session
    BY DEF NamesPayable
  <2>1. b # a /\ session'[b] = session[b]
    BY <1>2 DEF Payable
  <2>2. ASSUME NEW s \in Requests, Answering(s)'
        PROVE  Answering(s) /\ req'[s].attempt = req[s].attempt
    BY <1>1, <2>2 DEF Answering, OthersStand
  <2>3. Payable(b)
    BY <2>1, <2>2 DEF Payable
  <2> QED BY <2>3 DEF Orderly, NamesPayable
<1>9. OneAim'
  BY <1>1, AimStands
<1>10. \A s \in Requests \ {r} : OrderlyFor(s)'
  BY <1>1, OthersOrder
<1>11. OrderlyFor(r)'
  <2>1. ListsWell(r)' /\ SeesNone(r)' /\ HasRow(r)'
    BY <1>1 DEF ListsWell, SeesNone, Remembers, HasRow
  <2>2. KnowsAttempt(r)'
    BY <1>1 DEF KnowsAttempt, Expiring, Own
  <2> QED BY <2>1, <2>2 DEF OrderlyFor
<1>12. changes' = 0 => subs' = {}
  BY DEF Orderly
<1> QED BY <1>5, <1>6, <1>7, <1>8, <1>9, <1>10, <1>11, <1>12 DEF Orderly, OrderlyFor

LEMMA StartsAnewOrders ==
    ASSUME IInv, Coherent, Orderly, NEW r \in Requests, StartsAnew(r)
    PROVE  Orderly'
<1>1. user.age = Day /\ user.age = 0
  BY DEF StartsAnew, Old, Orderly, Young
<1> QED BY <1>1, BoundAssumption

\* What is to be replaced is there.
LEMMA KnownIsThere ==
    ASSUME IInv, Coherent, Orderly, NEW r \in Requests, Coordinates(r), NEW known \in KnownSession(r)
    PROVE  /\ known \in {user.attempt, user.session} \cap Attempts /\ session[known].status # "none"
           /\ user.attempt \in Attempts /\ user.offer # Nothing
<1>1. known \in {user.attempt, user.session} /\ known \in Attempts /\ req[r].sessions[known] # "none"
  BY DEF KnownSession, AttemptSession, PersistedSession, Listed
<1>2. ListsLast(r)
  BY DEF Coherent
<1>3. session[known].status # "none"
  BY <1>1, <1>2, Deciding DEF ListsLast, Coordinates
<1>4. user.attempt # Nothing
  BY <1>1, NothingAssumption DEF Orderly, SessionExists
<1> QED BY <1>1, <1>3, <1>4, RowsRight DEF UserRight, User, Maybe

\* Nobody expires a session first for another offer than the attempt's.
LEMMA NobodyExpires ==
    ASSUME IInv, Coherent, Orderly, NEW r \in Requests, Coordinates(r), ~Same(r), user.offer # Nothing, NEW s \in Requests
    PROVE  ~(Expiring(s) /\ Owned(s) # {})
<1> SUFFICES ASSUME Expiring(s), Owned(s) # {}
             PROVE  FALSE
  OBVIOUS
<1>1. Coordinator(s) /\ Coordinator(r)
  BY Deciding DEF Coordinator, Expiring, Reserved, Coordinates
<1>2. req[s].want = req[r].want
  BY <1>1 DEF Orderly, OneAim
<1> QED BY <1>2 DEF Orderly, KnowsAttempt, Same

LEMMA SupersedesOrders ==
    ASSUME IInv, Coherent, Orderly, NEW r \in Requests, Supersedes(r)
    PROVE  Orderly'
<1>1. /\ Coordinates(r) /\ ~Same(r) /\ UNCHANGED <<intents, late, subs, changes>>
  BY DEF Supersedes, NotReused, Undisturbed
<1>2. PICK a \in Attempts, known \in KnownSession(r) : NewAttemptFor(r, a, known) /\ Bumps(r, Expire(r, a, known))
  BY DEF Supersedes
<1>3. /\ known \in {user.attempt, user.session} \cap Attempts /\ session[known].status # "none"
      /\ user.attempt \in Attempts /\ user.offer # Nothing
  BY <1>1, KnownIsThere
<1>4. req[r].pc = "decide" /\ Owned(r) # {}
  BY <1>1, Deciding DEF Coordinates
<1>5. ~req[r].again
  <2>1. ~Expiring(r)
    BY <1>1, <1>3, <1>4, NobodyExpires
  <2>2. req[r].again # TRUE
    BY <1>4, <2>1 DEF Expiring
  <2> QED BY <2>2, ReqTyped, Zenon DEF IInv, Typed, Request
<1> DEFINE q == Expire(r, a, known)
<1>6. /\ q.pc = "expire" /\ q.want = req[r].want /\ q.sessions = Nothing /\ q.subs = Nothing /\ q.todo = {}
      /\ q.attempt = a /\ q.target = known
  BY <1>5 DEF Expire, Enter, Idle
<1>7. Bumps(r, q)
  BY <1>2
<1> HIDE DEF q
<1>8. /\ user'.attempt = a /\ user'.offer = req[r].want /\ user'.session = known /\ NewAttempt(a)
      /\ session' = [session EXCEPT ![a] = Uncreated] /\ ops' = RenewedFor(r, a)
  BY <1>2, NewAttemptFields
<1>9. user'.age = 0
  BY <1>2, RowsRight DEF NewAttemptFor, UserRight, User
<1>10. AnewRows(r) /\ OthersHold(r)
  BY <1>4, <1>8, AnewRenews, RowsHold DEF Maybe
<1>11. req'[r] = q /\ OthersStand(r) /\ Relists(r)
  BY <1>7, OthersGoOn, BumpsRelists
<1>12. ASSUME NEW b \in Attempts, Payable(b), b \in {user.attempt, user.session}
       PROVE  b = known
  <2>1. Remembers(r)
    BY <1>1, Deciding DEF Remembers
  <2>2. CASE b = user.attempt
    <3>1. req[r].sessions[b] # "none"
      BY <1>12, <2>1 DEF Orderly, ListsWell
    <3> QED BY <2>2, <3>1 DEF KnownSession, AttemptSession, Listed
  <2>3. CASE b # user.attempt /\ AttemptSession(r) = {}
    BY <1>12, <2>3 DEF KnownSession, PersistedSession, Listed
  <2>4. CASE b # user.attempt /\ AttemptSession(r) # {}
    <3>1. session[user.attempt].status # "none"
      BY <1>3, <2>1, <2>4 DEF AttemptSession, Listed, Orderly, ListsWell
    <3>2. session[user.attempt].offer \in Aims /\ Bound(user.attempt, session[user.attempt].offer)
      BY <1>3, <3>1, RowsRight DEF Bound, SessionsRight, Session, Maybe, Aims
    <3>3. user.attempt # Nothing /\ user.session \notin {Nothing, user.attempt} /\ b = user.session
      BY <1>3, <1>12, <2>4, NothingAssumption
    <3>4. session[user.session].status # "open"
      BY <3>2, <3>3 DEF Orderly, SupersededEnds
    <3> QED BY <1>12, <3>3, <3>4 DEF Payable
  <2> QED BY <2>2, <2>3, <2>4
<1>13. AimHolds(r)
  BY <1>4, <1>6, <1>11 DEF AimHolds, Coordinator, Reserved
<1>14. Turns(r)
  BY <1>1, <1>3, <1>11, NobodyExpires DEF Turns
<1> QED BY <1>1, <1>3, <1>6, <1>7, <1>8, <1>9, <1>10, <1>12, <1>13, <1>14, AnewOrders

-----------------------------------------------------------------------------
(* Another operation *)

\* Requests that decide have live operations, which are for what r asks too.
LEMMA ConflictFree ==
    ASSUME IInv, Coherent, NEW r \in Requests, Conflicting(r) = {}, NEW s \in Requests, Coordinator(s)
    PROVE  req[s].want = req[r].want
<1>1. PICK i \in Operations : ops[i] # Nothing /\ ops[i].owner = s
  BY DEF Coordinator, Owned
<1>2. ops[i].live = TRUE /\ ops[i].offer = req[s].want
  BY <1>1 DEF Coherent, RowFits, Coordinator
<1> QED BY <1>1, <1>2 DEF Conflicting

LEMMA AddedHold ==
    ASSUME IInv, Coherent, NEW r \in Requests, req[r].pc \in Bare, NEW i \in Operations, FreeRow(i),
           NEW row, row.owner = r, ops' = [ops EXCEPT ![i] = row]
    PROVE  OthersHold(r)
<1>1. /\ ops'[i] = row /\ ops[i] = Nothing
      /\ \A j \in Operations \ {i} : ops'[j] = ops[j]
  BY OneRowAdded
<1> SUFFICES ASSUME NEW s \in Requests \ {r}, NEW j \in Operations
             PROVE  ops'[j] # Nothing /\ ops'[j].owner = s <=> ops[j] # Nothing /\ ops[j].owner = s
  BY DEF OthersHold, Owned
<1> QED BY <1>1

\* A request reserves an operation for the attempt there is, or for the portal.
LEMMA AddsOrders ==
    ASSUME IInv, Coherent, Orderly, NEW r \in Requests, req[r].pc \in Bare, NEW i \in Operations, FreeRow(i),
           NEW row, row.owner = r, ops' = [ops EXCEPT ![i] = row],
           UNCHANGED <<user, intents, session, late, subs, changes>>, NEW q, Bumps(r, q),
           q.pc = "customer" \/ (q.pc = "renew" /\ row.kind = "portal"),
           q.sessions = Nothing, q.subs = Nothing, q.todo = {},
           q.pc = "customer" => \A s \in Requests \ {r} : Coordinator(s) => req[s].want = q.want
    PROVE  Orderly'
<1>1. req'[r] = q /\ OthersStand(r)
  BY OthersGoOn
<1>2. /\ ops'[i] = row /\ ops[i] = Nothing
      /\ \A j \in Operations \ {i} : ops'[j] = ops[j]
      /\ \A j \in Operations : ops[j] # Nothing => ops[j].owner # r
  BY OneRowAdded
<1>3. SessionsGoOn /\ GivenStands /\ AccountStands
  BY SessionsAsTheyAre DEF AccountStands
<1>4. ~Answering(r)'
  BY <1>1 DEF Answering
<1>5. \A a \in Attempts : Payable(a)' => Payable(a)
  BY <1>1, <1>3, <1>4, PayableStands
<1>6. ASSUME NEW o \in Aims, Bound(user.attempt, o)'
      PROVE  Bound(user.attempt, o)
  <2>1. PICK b : b = user.attempt
    OBVIOUS
  <2>2. ASSUME NEW s \in Requests, ByRequest(s, b, o)'
        PROVE  ByRequest(s, b, o)
    <3>1. s # r
      BY <1>1, <1>4, <2>2 DEF ByRequest
    <3> QED BY <1>1, <2>2, <3>1 DEF ByRequest, Answering, OthersStand
  <2>3. ASSUME NEW j \in Operations, ByRow(j, b, o)'
        PROVE  ByRow(j, b, o)
    <3>1. j # i
      BY <1>1, <1>2, <2>3 DEF ByRow, Settling
    <3>2. ops'[j] = ops[j] /\ ops[j] # Nothing /\ ops[j].owner # r
      BY <1>2, <2>3, <3>1 DEF ByRow
    <3> QED BY <1>1, <2>3, <3>2 DEF ByRow, OthersStand
  <2>4. Bound(b, o)'
    BY <1>6, <2>1 DEF Bound, ByRequest, ByRow, Answering
  <2>5. Bound(b, o)
    BY <2>2, <2>3, <2>4 DEF Bound
  <2> QED BY <2>1, <2>5
<1>7. AttemptKept(r)
  BY <1>1 DEF AttemptKept, Doomed
<1>8. AimHolds(r)
  BY <1>1 DEF AimHolds, Coordinator, Reserved
<1>9. OrderlyFor(r)'
  BY <1>1, NothingToKnow DEF Phases
<1>10. OthersHold(r)
  BY AddedHold
<1> QED BY <1>1, <1>3, <1>5, <1>6, <1>7, <1>8, <1>9, <1>10, KeepOrders

LEMMA ReservesOrders ==
    ASSUME IInv, Coherent, Orderly, NEW r \in Requests, Reserves(r)
    PROVE  Orderly'
<1>1. PICK i \in Operations, a \in Attempts :
        /\ FreeRow(i)
        /\ IF user.attempt = Nothing THEN NewAttempt(a) ELSE a = user.attempt
        /\ user' = IF user.attempt # Nothing THEN user
                   ELSE [user EXCEPT !.attempt = a, !.offer = req[r].want, !.age = 0, !.session = Nothing]
        /\ session' = IF user.attempt # Nothing THEN session ELSE [session EXCEPT ![a] = Uncreated]
        /\ ops' = [ops EXCEPT ![i] = Row(r, "checkout", a, req[r].want)]
  BY DEF Reserves
<1>2. /\ req[r].pc \in Bare /\ Conflicting(r) = {} /\ Bumps(r, Enter(r, "customer"))
      /\ UNCHANGED <<intents, late, subs, changes>>
  BY DEF Reserves, At, Bare
<1> DEFINE row == Row(r, "checkout", a, req[r].want)
           q == Enter(r, "customer")
<1>3. row.kind = "checkout" /\ row.offer = req[r].want /\ row.owner = r /\ row.live = TRUE
  BY DEF Row
<1>4. q.pc = "customer" /\ q.want = req[r].want /\ q.sessions = Nothing /\ q.subs = Nothing /\ q.todo = {}
  BY DEF Enter, Idle
<1>5. Bumps(r, q) /\ ops' = [ops EXCEPT ![i] = row] /\ FreeRow(i)
  BY <1>1, <1>2
<1> HIDE DEF row, q
<1>6. \A s \in Requests : Coordinator(s) => req[s].want = req[r].want
  BY <1>2, ConflictFree
<1>7. CASE user.attempt # Nothing
  <2>1. user' = user /\ session' = session
    BY <1>1, <1>7
  <2> QED BY <1>2, <1>3, <1>4, <1>5, <1>6, <2>1, AddsOrders
<1>8. CASE user.attempt = Nothing
  <2>1. /\ NewAttempt(a) /\ session' = [session EXCEPT ![a] = Uncreated]
        /\ user' = [user EXCEPT !.attempt = a, !.offer = req[r].want, !.age = 0, !.session = Nothing]
    BY <1>1, <1>8
  <2>2. user'.attempt = a /\ user'.offer = req[r].want /\ user'.age = 0 /\ user'.session = Nothing
    BY <2>1, RowsRight DEF UserRight, User
  <2>3. user.session = Nothing
    BY <1>8 DEF Orderly, SessionExists
  <2>4. /\ ops'[i] = row /\ ops[i] = Nothing /\ \A j \in Operations \ {i} : ops'[j] = ops[j]
        /\ \A j \in Operations : ops[j] # Nothing => ops[j].owner # r
    BY <1>2, <1>5, OneRowAdded
  <2>5. AnewRows(r)
    BY <1>3, <2>4 DEF AnewRows
  <2>6. OthersHold(r)
    BY <1>2, <1>3, <1>5, AddedHold
  <2>7. req'[r] = q /\ OthersStand(r) /\ Relists(r)
    BY <1>5, OthersGoOn, BumpsRelists
  <2>8. AimHolds(r)
    BY <1>4, <1>6, <2>7 DEF AimHolds
  <2>9. Turns(r)
    BY <1>6, <2>2, <2>7 DEF Turns
  <2>10. \A b \in Attempts : b \notin {user.attempt, user.session}
    BY <1>8, <2>3, NothingAssumption
  <2> QED BY <1>2, <1>4, <1>5, <2>1, <2>2, <2>5, <2>6, <2>8, <2>9, <2>10, AnewOrders
<1> QED BY <1>7, <1>8

LEMMA ReservesPortalOrders ==
    ASSUME IInv, Coherent, Orderly, NEW r \in Requests, ReservesPortal(r)
    PROVE  Orderly'
<1>1. req[r].pc \in Bare /\ UNCHANGED <<user, intents, session, late, subs, changes>>
  BY DEF ReservesPortal, At, Bare, stripe
<1>2. CASE Becomes(r, Idle) /\ ops' = ops
  BY <1>1, <1>2, RowsAsTheyAre, IdleRemembers, EntryAloneOrders DEF Phases
<1>3. ASSUME NEW i \in Operations, FreeRow(i), ops' = [ops EXCEPT ![i] = Row(r, "portal", Nothing, Nothing)],
             Bumps(r, Enter(r, "renew"))
      PROVE  Orderly'
  <2> DEFINE row == Row(r, "portal", Nothing, Nothing)
             q == Enter(r, "renew")
  <2>1. row.kind = "portal" /\ row.owner = r
    BY DEF Row
  <2>2. q.pc = "renew" /\ q.sessions = Nothing /\ q.subs = Nothing /\ q.todo = {}
    BY DEF Enter, Idle
  <2>3. Bumps(r, q) /\ ops' = [ops EXCEPT ![i] = row]
    BY <1>3
  <2> HIDE DEF row, q
  <2> QED BY <1>1, <1>3, <2>1, <2>2, <2>3, AddsOrders
<1> QED BY <1>2, <1>3 DEF ReservesPortal

-----------------------------------------------------------------------------
(* The world *)

\* Requests are where they were and own what they owned: a step of the world
\* after which Orderly holds if it did.
LEMMA WorldOrders ==
    ASSUME IInv, Coherent, Orderly, UNCHANGED <<user, req, intents>>,
           SessionsGoOn, GivenStands, SessionsStand, LateStands,
           \A i \in Operations :
               /\ ops'[i] # Nothing <=> ops[i] # Nothing
               /\ ops[i] # Nothing =>
                    /\ ops'[i].kind = ops[i].kind /\ ops'[i].owner = ops[i].owner
                    /\ ops'[i].attempt = ops[i].attempt /\ ops'[i].offer = ops[i].offer,
           \A a \in Attempts : session'[a].status = "expired" => session[a].status = "expired",
           changes' = 0 => changes = 0 /\ subs' = subs
    PROVE  Orderly'
<1>1. user.attempt \in Maybe(Attempts) /\ user.session \in Maybe(Attempts)
  BY RowsRight DEF UserRight, User
<1>2. \A s \in Requests : Owned(s)' = Owned(s)
  BY DEF Owned
<1>3. ASSUME NEW a \in Attempts, NEW o \in Aims, Bound(a, o)'
      PROVE  Bound(a, o)
  <2>1. CASE session'[a].status # "none" /\ session'[a].offer = o
    BY <2>1 DEF SessionsStand
  <2>2. CASE [attempt |-> a, offer |-> o] \in late'
    BY <2>2 DEF LateStands
  <2>3. ASSUME NEW s \in Requests, ByRequest(s, a, o)'
        PROVE  Bound(a, o)
    BY <2>3 DEF ByRequest, Answering, Bound
  <2>4. ASSUME NEW i \in Operations, ByRow(i, a, o)'
        PROVE  Bound(a, o)
    <3>1. ByRow(i, a, o)
      BY <2>4 DEF ByRow
    <3> QED BY <3>1 DEF Bound
  <2> QED BY <1>3, <2>1, <2>2, <2>3, <2>4 DEF Bound
<1>4. ASSUME NEW a \in Attempts, Payable(a)'
      PROVE  Payable(a)
  <2>1. session'[a].status = "open" /\ session[a].status \in {"none", "open"}
    BY <1>4 DEF Payable, SessionsGoOn
  <2>2. ASSUME NEW s \in Requests, Answering(s)', req'[s].attempt = a
        PROVE  Payable(a)
    <3>1. Answering(s) /\ req[s].attempt = a
      BY <2>2 DEF Answering
    <3>2. session[a].status # "none"
      BY <3>1 DEF Coherent, Creative
    <3> QED BY <2>1, <3>1, <3>2 DEF Payable
  <2> QED BY <1>4, <2>1, <2>2 DEF Payable, GivenStands
<1>5. Young' /\ SessionExists'
  BY <1>1 DEF Young, Orderly, SessionsGoOn, SessionExists, Maybe
<1>6. SupersededEnds'
  <2> SUFFICES ASSUME user.attempt # Nothing, user.session \notin {Nothing, user.attempt},
                      NEW o \in Aims, Bound(user.attempt, o)'
               PROVE  session'[user.session].status # "open"
    BY DEF SupersededEnds, Bound, ByRequest, ByRow, Answering
  <2>1. user.session \in Attempts /\ user.attempt \in Attempts
    BY <1>1 DEF Maybe
  <2>2. PICK a \in Attempts : a = user.attempt
    BY <2>1
  <2>3. Bound(a, o)'
    BY <2>2 DEF Bound, ByRequest, ByRow, Answering
  <2>4. Bound(a, o)
    BY <1>3, <2>3
  <2>5. session[user.session].status \notin {"none", "open"}
    BY <2>2, <2>4 DEF Orderly, SupersededEnds, SessionExists
  <2> QED BY <2>1, <2>5 DEF SessionsGoOn
<1>7. AttemptStays'
  BY <1>1 DEF AttemptStays, Orderly, Doomed, Maybe
<1>8. NamesPayable'
  BY <1>4 DEF NamesPayable, Orderly
<1>9. OneAim'
  BY <1>2 DEF OneAim, Orderly, Coordinator
<1>10. changes' = 0 => subs' = {}
  BY DEF Orderly
<1>11. ASSUME NEW s \in Requests
       PROVE  OrderlyFor(s)'
  <2>1. ListsWell(s)'
    <3> SUFFICES ASSUME Remembers(s), NEW a \in Attempts
                 PROVE  /\ req[s].sessions[a] # "none" => session'[a].status # "none"
                        /\ session'[a].status = "open" => req[s].sessions[a] \in {"none", "open"}
                        /\ a = user.session \/ Payable(a)' => req[s].sessions[a] # "none"
      BY DEF ListsWell, Remembers
    <3>1. /\ req[s].sessions[a] # "none" => session[a].status # "none"
          /\ session[a].status = "open" => req[s].sessions[a] \in {"none", "open"}
          /\ a = user.session \/ Payable(a) => req[s].sessions[a] # "none"
      BY DEF Orderly, ListsWell
    <3>2. session'[a].status = "open" /\ session[a].status = "none" => req[s].sessions[a] = "none"
      BY <3>1
    <3> QED BY <1>4, <3>1, <3>2 DEF SessionsGoOn
  <2>2. KnowsAttempt(s)' /\ HasRow(s)' /\ SeesNone(s)'
    BY <1>2 DEF Orderly, KnowsAttempt, HasRow, SeesNone, Expiring, Own
  <2> QED BY <2>1, <2>2 DEF OrderlyFor
<1> QED BY <1>5, <1>6, <1>7, <1>8, <1>9, <1>10, <1>11 DEF Orderly, OrderlyFor

LEMMA LeaseExpiresOrders ==
    ASSUME IInv, Coherent, Orderly, NEW i \in Operations, LeaseExpires(i)
    PROVE  Orderly'
<1>1. /\ ops[i] # Nothing /\ ops' = [ops EXCEPT ![i].live = FALSE]
      /\ UNCHANGED <<user, req, intents, session, late, subs, changes>>
  BY DEF LeaseExpires, stripe
<1>2. ops[i] \in Operation /\ ops = [j \in Operations |-> ops[j]]
  BY <1>1, RowsRight, RowTyped DEF OpsRight
<1>3. /\ \A j \in Operations \ {i} : ops'[j] = ops[j]
      /\ ops'[i] = [ops[i] EXCEPT !.live = FALSE]
  BY <1>1, <1>2
<1>4. /\ ops'[i].kind = ops[i].kind /\ ops'[i].owner = ops[i].owner
      /\ ops'[i].attempt = ops[i].attempt /\ ops'[i].offer = ops[i].offer
  BY <1>2, <1>3 DEF Operation
<1>5. ops'[i] # Nothing
  <2> DEFINE row == [ops[i] EXCEPT !.live = FALSE]
  <2>1. row \in Operation
    BY <1>2, ZenonT(30) DEF Operation
  <2> QED BY <1>3, <2>1, RowAssumption
<1> QED BY <1>1, <1>3, <1>4, <1>5, SessionsAsTheyAre, WorldOrders

\* What the customer pays for is paid once.
LEMMA PaysOrders ==
    ASSUME IInv, Coherent, Orderly, NEW a \in Attempts, Pays(a)
    PROVE  Orderly'
<1>1. /\ UNCHANGED <<user, ops, req, intents, late>> /\ changes' = changes + 1 /\ changes \in Nat
      /\ session' = [session EXCEPT ![a].status = "complete"] /\ session[a].status = "open"
  BY AllTyped DEF Pays, rows, Counted
<1>2. session \in [Attempts -> Session]
  BY RowsRight DEF SessionsRight
<1>3. /\ session'[a].status = "complete" /\ session'[a].age = session[a].age /\ session'[a].offer = session[a].offer
      /\ session'[a].given = session[a].given
      /\ \A b \in Attempts \ {a} : session'[b] = session[b]
  BY <1>1, <1>2 DEF Session
<1>4. SessionsAlike
  BY <1>1, <1>3 DEF SessionsAlike
<1>5. SessionsStand /\ LateStands
  BY <1>1, <1>4, StripeStands
<1>6. SessionsGoOn /\ GivenStands
  BY <1>3 DEF SessionsGoOn, GivenStands, Orderly, Young, Payable
<1>7. \A b \in Attempts : session'[b].status = "expired" => session[b].status = "expired"
  BY <1>3
<1>8. changes' # 0
  BY <1>1
<1> QED BY <1>1, <1>5, <1>6, <1>7, <1>8, WorldOrders

LEMMA EndsOrders ==
    ASSUME IInv, Coherent, Orderly, NEW a \in Attempts, Ends(a)
    PROVE  Orderly'
<1>1. UNCHANGED <<user, ops, req, intents, session, late>> /\ changes' = changes + 1 /\ changes \in Nat
  BY AllTyped DEF Ends, rows, Counted
<1>2. changes' # 0
  BY <1>1
<1> QED BY <1>1, <1>2, SessionsAsTheyAre, WorldOrders

LEMMA ArrivesLateOrders ==
    ASSUME IInv, Coherent, Orderly, NEW call \in late, ArrivesLate(call)
    PROVE  Orderly'
<1> DEFINE a == call.attempt
           o == call.offer
<1>1. a \in Attempts /\ o \in Offers /\ call = [attempt |-> a, offer |-> o]
  BY AllTyped DEF StripeTyped
<1>2. Bound(a, o)
  BY <1>1 DEF Bound
<1>3. session' = session \/ (session' = Created(a, o) /\ Accepts(a, o))
  BY DEF ArrivesLate
<1>4. late' \subseteq late /\ UNCHANGED <<user, ops, req, intents, subs, changes>>
  BY DEF ArrivesLate, rows
<1> HIDE DEF a, o
<1>5. SessionsStand
  BY <1>1, <1>2, <1>3, CreationStands
<1>6. LateStands
  BY <1>4 DEF LateStands, Bound
<1>7. /\ SessionsGoOn /\ GivenStands
      /\ \A b \in Attempts : session'[b].status = "expired" => session[b].status = "expired"
  BY <1>1, <1>3, CreationGoesOn
<1> QED BY <1>4, <1>5, <1>6, <1>7, WorldOrders

-----------------------------------------------------------------------------
(* Every step keeps the order *)

Paced == Smooth => Orderly

LEMMA WorkOrders ==
    ASSUME IInv, IInv', Coherent, Orderly, NEW r \in Requests, Work(r)
    PROVE  Orderly'
<1>1. CASE Reconciliation(r)
  BY <1>1, NothingExpiredOrders, ListsSessionsOrders, ReconcilesOrders, RecoversPortalOrders,
     KeepsRecoveredOrders, CleanedUpOrders, RetiresOrders, UnlistsOrders, ChecksOwnerOrders DEF Reconciliation
<1>2. CASE Creation(r)
  BY <1>2, CreatesOrders, CreateRefusedOrders, CreateUnknownOrders, KeepsCreatedOrders DEF Creation
<1>3. CASE Coordination(r)
  BY <1>3, ListsOrders, TurnsToPortalOrders, ReusesOrders, SupersedesOrders, ExpiresFirstOrders,
     ProceedsOrders, StartsAnewOrders, RefusesOrders, ExpiresOrders DEF Coordination
<1>4. CASE Reservation(r)
  BY <1>4, ReservesOrders, NotReservedOrders, EnsuresCustomerOrders, ReservesPortalOrders, RenewsFenceOrders
     DEF Reservation
<1>5. CASE Ending(r)
  BY <1>5, CompletesOrders, MarksUncertainOrders, OpensPortalOrders, AppliesOrders, OutdatedOrders DEF Ending
<1> QED BY <1>1, <1>2, <1>3, <1>4, <1>5 DEF Work

LEMMA InitPaced == Init => Paced
<1> SUFFICES ASSUME Init PROVE Orderly
  BY DEF Paced
<1>1. \A s \in Requests : req[s] = Idle
  BY DEF Init
<1>2. \A s \in Requests : /\ req[s].pc = "idle" /\ req[s].sessions = Nothing /\ req[s].subs = Nothing
                          /\ req[s].todo = {} /\ req[s].again = FALSE
  BY <1>1 DEF Idle
<1>3. \A a \in Attempts : session[a].status = "none" /\ session[a].age = 0
  BY DEF Init, Uncreated
<1>4. user.attempt = Nothing /\ user.session = Nothing /\ user.age = 0 /\ subs = {}
  BY DEF Init
<1>5. Young /\ SessionExists /\ SupersededEnds /\ AttemptStays
  BY <1>3, <1>4 DEF Young, SessionExists, SupersededEnds, AttemptStays
<1>6. NamesPayable
  BY <1>3 DEF NamesPayable, Payable
<1>7. OneAim
  BY <1>2 DEF OneAim, Coordinator, Reserved
<1>8. \A s \in Requests : ListsWell(s) /\ KnowsAttempt(s) /\ HasRow(s) /\ SeesNone(s)
  BY <1>2 DEF ListsWell, Remembers, KnowsAttempt, Expiring, HasRow, SeesNone
<1> QED BY <1>4, <1>5, <1>6, <1>7, <1>8 DEF Orderly

\* Work of a request takes no time.
LEMMA WorkTakesNoTime ==
    ASSUME NEW r \in Requests, Work(r)
    PROVE  clock' = clock
<1>1. CASE Reconciliation(r)
  BY <1>1 DEF Reconciliation, NothingExpired, ListsSessions, Reconciles, RecoversPortal, KeepsRecovered, Persist,
     CleanedUp, Retires, Unlists, ChecksOwner, bounds
<1>2. CASE Creation(r)
  BY <1>2 DEF Creation, Creates, CreateRefused, CreateUnknown, KeepsCreated, Persist, bounds
<1>3. CASE Coordination(r)
  BY <1>3 DEF Coordination, Lists, TurnsToPortal, Reuses, Supersedes, ExpiresFirst, Proceeds, StartsAnew, Refuses,
     Expires, bounds
<1>4. CASE Reservation(r)
  BY <1>4 DEF Reservation, Reserves, NotReserved, EnsuresCustomer, ReservesPortal, RenewsFence, bounds
<1>5. CASE Ending(r)
  BY <1>5 DEF Ending, Completes, MarksUncertain, OpensPortal, Applies, Outdated, bounds
<1> QED BY <1>1, <1>2, <1>3, <1>4, <1>5 DEF Work

\* Nothing of a checkout changes.
LEMMA StillOrders ==
    ASSUME IInv, Coherent, Orderly, UNCHANGED <<user, ops, intents, req, stripe>>
    PROVE  Orderly'
<1>1. UNCHANGED <<session, late, subs, changes>>
  BY DEF stripe
<1> QED BY <1>1, SessionsAsTheyAre, WorldOrders

LEMMA StepPaced == IInv /\ IInv' /\ Meant /\ Paced /\ [Next]_vars => Paced'
<1> SUFFICES ASSUME IInv, IInv', Meant, Paced, [Next]_vars, deaths' = 0, clock' = 0
             PROVE  Orderly'
  BY DEF Paced, Smooth
<1>0. deaths \in Nat /\ clock \in Nat
  BY AllTyped DEF Counted
<1>1. ASSUME deaths = 0, clock = 0
      PROVE  Coherent /\ Orderly
  BY <1>1 DEF Meant, Paced, Smooth
<1>2. CASE UNCHANGED vars
  <2>1. deaths = 0 /\ clock = 0 /\ UNCHANGED <<user, ops, intents, req, stripe>>
    BY <1>2 DEF vars, stripe
  <2> QED BY <1>1, <2>1, StillOrders
<1>3. CASE DeletesUser
  <2>1. deaths = 0 /\ clock = 0 /\ UNCHANGED <<user, ops, intents, req, stripe>>
    BY <1>3 DEF DeletesUser, rows, bounds
  <2> QED BY <1>1, <2>1, StillOrders
<1>4. CASE Business
  <2>1. ASSUME NEW r \in Requests, Work(r)
        PROVE  Orderly'
    BY <1>1, <2>1, WorkSurvives, WorkTakesNoTime, WorkOrders
  <2>2. ASSUME NEW r \in Requests, Dies(r)
        PROVE  FALSE
    BY <1>0, <2>2 DEF Dies, Death
  <2>3. ASSUME NEW r \in Requests, NEW w, Asks(r, w)
        PROVE  Orderly'
    <3>1. deaths = 0 /\ clock = 0
      BY <2>3 DEF Asks
    <3> QED BY <1>1, <2>3, <3>1, AsksOrders
  <2>4. ASSUME NEW r \in Requests, NEW e, Webhook(r, e)
        PROVE  Orderly'
    <3>1. deaths = 0 /\ clock = 0
      BY <2>4 DEF Webhook, bounds
    <3> QED BY <1>1, <2>4, <3>1, WebhookOrders
  <2>5. ASSUME NEW i \in Operations, LeaseExpires(i)
        PROVE  Orderly'
    <3>1. deaths' = deaths /\ clock' = clock
      BY <1>0, <2>5 DEF LeaseExpires, Death
    <3> QED BY <1>1, <2>5, <3>1, LeaseExpiresOrders
  <2>6. ASSUME NEW a \in Attempts, Pays(a) \/ Ends(a)
        PROVE  Orderly'
    <3>1. deaths = 0 /\ clock = 0
      BY <2>6 DEF Pays, Ends, bounds
    <3> QED BY <1>1, <2>6, <3>1, PaysOrders, EndsOrders
  <2>7. ASSUME NEW call \in late, ArrivesLate(call)
        PROVE  Orderly'
    <3>1. deaths = 0 /\ clock = 0
      BY <2>7 DEF ArrivesLate, bounds
    <3> QED BY <1>1, <2>7, <3>1, ArrivesLateOrders
  <2>8. CASE HoursPass
    <3>1. clock' = clock + 1
      BY <2>8, Zenon DEF HoursPass
    <3> QED BY <1>0, <3>1
  <2> QED BY <1>4, <2>1, <2>2, <2>3, <2>4, <2>5, <2>6, <2>7, <2>8 DEF Business, World
<1> QED BY <1>2, <1>3, <1>4 DEF Next

LEMMA PacedIsOnePayable == IInv /\ Paced => OnePayable
<1> SUFFICES ASSUME IInv, Orderly
             PROVE  /\ Cardinality(Open \cap {user.attempt, user.session}) <= 1
                    /\ changes = 0 => {a \in Open : session[a].given} \subseteq {user.attempt, user.session}
  BY DEF Paced, OnePayable
<1> DEFINE payable == Open \cap {user.attempt, user.session}
<1>1. ASSUME NEW a \in payable, NEW b \in payable, a # b
      PROVE  FALSE
  <2>1. /\ user.attempt \in Attempts /\ user.session \in Attempts /\ user.session # user.attempt
        /\ session[user.attempt].status = "open" /\ session[user.session].status = "open"
    BY <1>1 DEF Open
  <2>2. session[user.attempt].offer \in Aims /\ Bound(user.attempt, session[user.attempt].offer)
    BY <2>1, RowsRight DEF Bound, SessionsRight, Session, Maybe, Aims
  <2> QED BY <2>1, <2>2, NothingAssumption DEF Orderly, SupersededEnds
<1>2. payable = {} \/ \E a \in payable : payable = {a}
  BY <1>1
<1> HIDE DEF payable
<1>3. Cardinality(payable) \in {0, 1}
  BY <1>2, FS_EmptySet, FS_Singleton
<1>4. Cardinality(payable) <= 1
  BY <1>3
<1>5. ASSUME changes = 0, NEW a \in Open, session[a].given
      PROVE  a \in {user.attempt, user.session}
  <2>1. a \in Attempts /\ session[a].status = "open" /\ session[a] \in Session
    BY RowsRight DEF Open, SessionsRight
  <2>2. session[a].given = TRUE
    BY <1>5, <2>1, Zenon DEF Session
  <2> QED BY <1>5, <2>1, <2>2 DEF Orderly, NamesPayable, Payable
<1> QED BY <1>4, <1>5 DEF payable

LEMMA PacedIsNotLockedOut == Paced => NeverLockedOut
BY DEF Paced, Orderly, AttemptStays, NeverLockedOut

\* An account that is deleted is settled then, and nothing happens afterwards.
LEMMA StepSettles == IInv /\ Paced /\ DeletedIsSettled /\ [Next]_vars => DeletedIsSettled'
<1> SUFFICES ASSUME IInv, Paced, DeletedIsSettled, [Next]_vars
             PROVE  DeletedIsSettled'
  OBVIOUS
<1>1. CASE UNCHANGED vars
  BY <1>1 DEF vars, DeletedIsSettled, Smooth, Open
<1>2. CASE ~deleted /\ UNCHANGED deleted
  BY <1>2 DEF DeletedIsSettled
<1>3. CASE DeletesUser
  <2>1. /\ user.attempt = Nothing /\ user.session = Nothing /\ ~recorded.paid
        /\ UNCHANGED <<session, subs, events, changes, clock, deaths>>
    BY <1>3 DEF DeletesUser, stripe, bounds
  <2>2. subs = {} \/ events # {}
    <3> SUFFICES ASSUME events = {}
                 PROVE  subs = {}
      OBVIOUS
    <3>1. recorded = [paid |-> subs # {}, known |-> changes]
      BY Converged DEF AnsweredIsRecorded
    <3>2. recorded.paid = (subs # {})
      BY <3>1
    <3> QED BY <2>1, <3>2, Zenon
  <2>3. ASSUME Smooth, changes = 0, NEW a \in Open
        PROVE  ~session[a].given
    <3>1. a \in Attempts /\ session[a].status = "open" /\ session[a] \in Session /\ a # Nothing
      BY RowsRight, NothingAssumption DEF Open, SessionsRight
    <3>2. ~Payable(a)
      BY <2>1, <2>3, <3>1 DEF Paced, Orderly, NamesPayable
    <3>3. session[a].given # TRUE
      BY <3>1, <3>2 DEF Payable
    <3> QED BY <3>1, <3>3, Zenon DEF Session
  <2> QED BY <2>1, <2>2, <2>3 DEF DeletedIsSettled, Smooth, Open
<1> QED BY <1>1, <1>2, <1>3 DEF Next

\* The owner of an account can pay one session and not two, is never left with
\* an attempt whose session was expired, and an account is deleted when nothing
\* of a checkout is left, if processes finish what they begin within a day:
\* whatever requests, reconciliations, webhooks and lost calls there are.
THEOREM OneSessionIsUsable == Spec => []OneUsableSession
<1>1. IInv /\ [Next]_vars => IInv'
  BY StepRight
<1>2. IInv /\ IInv' /\ Meant /\ [Next]_vars => Meant'
  BY StepMeant
<1>3. IInv /\ IInv' /\ Meant /\ Paced /\ [Next]_vars => Paced'
  BY StepPaced
<1>4. IInv /\ Paced /\ DeletedIsSettled /\ [Next]_vars => DeletedIsSettled'
  BY StepSettles
<1>5. Init => DeletedIsSettled
  BY DEF Init, DeletedIsSettled
<1>6. Spec => [](IInv /\ Meant /\ Paced /\ DeletedIsSettled)
  BY <1>1, <1>2, <1>3, <1>4, <1>5, InitRight, InitMeant, InitPaced, PTL DEF Spec
<1>7. IInv /\ Paced /\ DeletedIsSettled => OneUsableSession
  BY PacedIsOnePayable, PacedIsNotLockedOut DEF OneUsableSession, IInv, Typed
<1> QED BY <1>6, <1>7, PTL

-----------------------------------------------------------------------------
(* Duplicates: the inductive invariant *)

Winners == [recorded : 0 .. 2, version : 0 .. MaxIncidents, home : Orgs \cup {NoOne},
            homeCreator : Users \cup {NoOne}]

Snapshots == [org : Orgs, creator : Users \cup {NoOne}, winner : Winners]

Run == [pc : RunSteps \cup {"idle"}, holds : SUBSET {"global", "user"}, user : Users \cup {NoOne},
        todo : SUBSET Users, scanned : [Users -> 0 .. 2] \cup {NoOne},
        page : SUBSET Orgs, done : SUBSET Orgs, seen : Snapshots \cup {NoOne}]

AtDuplicate == {"winner", "candidate", "cancel", "checkpoint"}

\* A run is at a user, or between users; it checkpoints what it has seen gone.
RunInOrder(k) ==
    /\ k.pc \in AtDuplicate \cup {"next"} <=> k.user \in Users
    /\ k.pc = "checkpoint" => k.seen.org \in k.done

\* What a run is at has a row, and what it has canceled is gone.
RunIsRight(k, duplicates) ==
    /\ k.pc \in AtDuplicate => k.seen \in Snapshots /\ duplicates[k.seen.org].row # "none"
    /\ \A o \in k.done : duplicates[o].stripe = "gone"

RunsAreRight ==
    /\ runner \in [Runners -> Run]
    /\ \A p \in Runners : RunInOrder(runner[p]) /\ RunIsRight(runner[p], legacy)

NeverMade == \A o \in Orgs : legacy[o].row = "none" => legacy[o].stripe = "none"

LegacyIsRight ==
    /\ legacy \in [Orgs -> Duplicate]
    /\ CanceledMeansGone /\ NeverMade

VersionsCount == \A u \in Users : account[u].version <= incidents

WorldIsRight ==
    /\ creator \in [Orgs -> Users \cup {NoOne}]
    /\ account \in [Users -> Accounts]
    /\ incidents \in 0 .. MaxIncidents
    /\ payer \in [Orgs -> Users]
    /\ VersionsCount

DuplicatesRight == WorldIsRight /\ LegacyIsRight /\ RunsAreRight /\ PayerKeepsTheOrganization

-----------------------------------------------------------------------------
(* What a step may do to the duplicates, and to a run *)

\* No row is made, and what is gone stays gone.
LegacyGoesOn ==
    \A o \in Orgs :
       /\ legacy[o].row # "none" => legacy'[o].row # "none"
       /\ legacy[o].stripe = "gone" => legacy'[o].stripe = "gone"

\* The duplicates as every step but those of the command leaves them.
LEMMA LegacyKept ==
    ASSUME LegacyIsRight, UNCHANGED legacy
    PROVE  LegacyIsRight' /\ LegacyGoesOn
BY DEF LegacyIsRight, CanceledMeansGone, NeverMade, LegacyGoesOn

\* A duplicate that is canceled in Stripe.
LEMMA LegacyEnds ==
    ASSUME LegacyIsRight, NEW o \in Orgs, legacy[o].row # "none",
           legacy' = [legacy EXCEPT ![o].stripe = "gone"]
    PROVE  LegacyIsRight' /\ LegacyGoesOn /\ legacy'[o].stripe = "gone"
BY DEF LegacyIsRight, CanceledMeansGone, NeverMade, LegacyGoesOn, Duplicate, StripeStatus

\* A duplicate that is recorded as canceled.
LEMMA LegacyRecorded ==
    ASSUME LegacyIsRight, NEW o \in Orgs, legacy[o].stripe = "gone",
           legacy' = [legacy EXCEPT ![o].row = "canceled"]
    PROVE  LegacyIsRight' /\ LegacyGoesOn
BY DEF LegacyIsRight, CanceledMeansGone, NeverMade, LegacyGoesOn, Duplicate, StripeStatus

\* A run that nobody touches stays right.
LEMMA RunsKept ==
    ASSUME RunsAreRight, LegacyGoesOn, UNCHANGED runner
    PROVE  RunsAreRight'
<1>1. ASSUME NEW p \in Runners
      PROVE  RunInOrder(runner'[p]) /\ RunIsRight(runner'[p], legacy')
  BY <1>1 DEF RunsAreRight, RunInOrder, RunIsRight, LegacyGoesOn, Run, Snapshots
<1> QED BY <1>1 DEF RunsAreRight

\* A run that goes on as k.
LEMMA RunGoesOn ==
    ASSUME RunsAreRight, LegacyGoesOn, NEW p \in Runners, NEW k \in Run,
           runner' = [runner EXCEPT ![p] = k], RunInOrder(k), RunIsRight(k, legacy')
    PROVE  RunsAreRight'
<1>1. runner' \in [Runners -> Run] /\ runner'[p] = k
  BY DEF RunsAreRight
<1>2. ASSUME NEW q \in Runners
      PROVE  RunInOrder(runner'[q]) /\ RunIsRight(runner'[q], legacy')
  <2>1. CASE q = p
    BY <1>1, <2>1 DEF RunIsRight
  <2>2. CASE q # p
    <3>1. runner'[q] = runner[q] /\ runner[q] \in Run
      BY <2>2 DEF RunsAreRight
    <3> QED BY <3>1 DEF RunsAreRight, RunInOrder, RunIsRight, LegacyGoesOn, Run, Snapshots
  <2> QED BY <2>1, <2>2
<1> QED BY <1>1, <1>2 DEF RunsAreRight, RunInOrder

-----------------------------------------------------------------------------
(* The steps of the command *)

\* A step of the command that leaves the duplicates alone.
LEMMA RunAlone ==
    ASSUME DuplicatesRight, NEW p \in Runners, NEW k \in Run, UNCHANGED legacy,
           runner' = [runner EXCEPT ![p] = k], RunInOrder(k), RunIsRight(k, legacy)
    PROVE  LegacyIsRight' /\ RunsAreRight'
<1>1. LegacyIsRight' /\ LegacyGoesOn
  BY LegacyKept DEF DuplicatesRight
<1>2. RunIsRight(k, legacy')
  OBVIOUS
<1> QED BY <1>1, <1>2, RunGoesOn DEF DuplicatesRight

LEMMA IdleRuns == IdleRun \in Run /\ RunInOrder(IdleRun) /\ RunIsRight(IdleRun, legacy)
BY ConstantAssumption DEF IdleRun, Run, RunInOrder, RunIsRight, RunSteps, AtDuplicate

LEMMA RunIsTyped ==
    ASSUME DuplicatesRight, NEW p \in Runners
    PROVE  runner[p] \in Run /\ RunInOrder(runner[p]) /\ RunIsRight(runner[p], legacy)
BY DEF DuplicatesRight, RunsAreRight

LEMMA StartsRight ==
    ASSUME DuplicatesRight, NEW p \in Runners, Starts(p)
    PROVE  LegacyIsRight' /\ RunsAreRight'
<1> DEFINE k == [IdleRun EXCEPT !.pc = "next_user", !.holds = {"global"}, !.todo = Users,
                             !.scanned = [u \in Users |-> account[u].recorded]]
<1>1. [u \in Users |-> account[u].recorded] \in [Users -> 0 .. 2]
  BY DEF DuplicatesRight, WorldIsRight, Accounts
<1>2. k \in Run /\ RunInOrder(k) /\ RunIsRight(k, legacy)
  BY <1>1, ConstantAssumption DEF IdleRun, Run, RunInOrder, RunIsRight, RunSteps, AtDuplicate
<1>3. runner' = [runner EXCEPT ![p] = k] /\ UNCHANGED legacy
  BY DEF Starts
<1> HIDE DEF k
<1> QED BY <1>2, <1>3, RunAlone

LEMMA TakesUserRight ==
    ASSUME DuplicatesRight, NEW p \in Runners, NEW u \in Users, TakesUser(p, u)
    PROVE  LegacyIsRight' /\ RunsAreRight'
<1> DEFINE found == IF runner[p].scanned[u] = 0 THEN {} ELSE Duplicated(u)
           k == [runner[p] EXCEPT !.pc = "next", !.user = u, !.holds = @ \cup {"user"},
                                  !.todo = @ \ {u}, !.page = found]
<1>1. found \in SUBSET Orgs
  BY DEF Duplicated
<1>2. runner' = [runner EXCEPT ![p] = k] /\ UNCHANGED legacy
  BY RunIsTyped DEF TakesUser, Run, DuplicatesRight, RunsAreRight
<1> HIDE DEF found
<1>3. k \in Run /\ RunInOrder(k) /\ RunIsRight(k, legacy)
  BY <1>1, RunIsTyped DEF Run, RunInOrder, RunIsRight, RunSteps, AtDuplicate
<1> HIDE DEF k
<1> QED BY <1>2, <1>3, RunAlone

LEMMA FinishesRight ==
    ASSUME DuplicatesRight, NEW p \in Runners, Finishes(p) \/ Crashes(p)
    PROVE  LegacyIsRight' /\ RunsAreRight'
BY IdleRuns, RunAlone DEF Finishes, Crashes

LEMMA LeavesUserRight ==
    ASSUME DuplicatesRight, NEW p \in Runners, LeavesUser(p)
    PROVE  LegacyIsRight' /\ RunsAreRight'
<1>1. CASE "user" \notin runner[p].holds
  <2>1. runner' = [runner EXCEPT ![p] = IdleRun] /\ UNCHANGED legacy
    BY <1>1 DEF LeavesUser
  <2> QED BY <2>1, IdleRuns, RunAlone
<1>2. CASE "user" \in runner[p].holds
  <2> DEFINE k == [runner[p] EXCEPT !.pc = "next_user", !.user = NoOne,
                                    !.holds = @ \ {"user"}, !.seen = NoOne]
  <2>1. runner' = [runner EXCEPT ![p] = k] /\ UNCHANGED legacy
    BY <1>2 DEF LeavesUser
  <2>2. k \in Run
    BY RunIsTyped, ZenonT(30) DEF Run, RunSteps
  <2>3. RunInOrder(k) /\ RunIsRight(k, legacy)
    BY RunIsTyped, ConstantAssumption, SMTT(30) DEF Run, RunInOrder, RunIsRight, AtDuplicate
  <2> HIDE DEF k
  <2> QED BY <2>1, <2>2, <2>3, RunAlone
<1> QED BY <1>1, <1>2

\* What a run captures is a snapshot of an organization that has a duplicate.
LEMMA SnapshotTyped ==
    ASSUME DuplicatesRight, NEW u \in Users, NEW o \in Orgs
    PROVE  Snapshot(u, o) \in Snapshots
BY DEF DuplicatesRight, WorldIsRight, VersionsCount, Snapshot, Winner, Snapshots, Winners, Accounts

LEMMA CapturesRight ==
    ASSUME DuplicatesRight, NEW p \in Runners, NEW o \in Orgs, Captures(p, o)
    PROVE  LegacyIsRight' /\ RunsAreRight'
<1> DEFINE u == runner[p].user
           fits == /\ o \in Duplicated(u)
                   /\ account[u].recorded # 0
                   /\ account[u].recorded = runner[p].scanned[u]
           k == [runner[p] EXCEPT !.page = @ \ {o}, !.pc = IF fits THEN "winner" ELSE "next",
                                  !.seen = IF fits THEN Snapshot(u, o) ELSE @]
<1>1. runner' = [runner EXCEPT ![p] = k] /\ UNCHANGED legacy
  BY RunIsTyped DEF Captures, Run, DuplicatesRight, RunsAreRight
<1>2. u \in Users
  BY RunIsTyped DEF Captures, RunAt, RunInOrder
<1>3. Snapshot(u, o) \in Snapshots /\ Snapshot(u, o).org = o
  BY <1>2, SnapshotTyped DEF Snapshot
<1>4. fits => legacy[o].row # "none"
  BY DEF Duplicated
<1> HIDE DEF fits
<1>5. k \in Run /\ RunInOrder(k) /\ RunIsRight(k, legacy)
  <2>1. CASE fits
    <3>1. k \in Run
      BY <1>3, <2>1, RunIsTyped, ZenonT(30) DEF Run, RunSteps
    <3>2. k.pc = "winner" /\ k.user = u /\ k.seen = Snapshot(u, o) /\ k.done = runner[p].done
      BY <2>1, RunIsTyped DEF Run
    <3> HIDE DEF k
    <3> QED BY <1>2, <1>3, <1>4, <2>1, <3>1, <3>2, RunIsTyped DEF RunInOrder, RunIsRight, AtDuplicate
  <2>2. CASE ~fits
    <3>1. k \in Run
      BY <2>2, RunIsTyped, ZenonT(30) DEF Run, RunSteps
    <3>2. k.pc = "next" /\ k.user = u /\ k.done = runner[p].done
      BY <2>2, RunIsTyped DEF Run
    <3> HIDE DEF k
    <3> QED BY <1>2, <3>1, <3>2, RunIsTyped DEF RunInOrder, RunIsRight, AtDuplicate
  <2> QED BY <2>1, <2>2
<1> HIDE DEF k
<1> QED BY <1>1, <1>5, RunAlone

\* A run that only moves on to another step at the same user.
LEMMA GoesRight ==
    ASSUME DuplicatesRight, NEW p \in Runners, NEW pc \in AtDuplicate \cup {"next"},
           runner[p].pc \in AtDuplicate, pc = "checkpoint" => runner[p].seen.org \in runner[p].done
    PROVE  /\ [runner[p] EXCEPT !.pc = pc] \in Run
           /\ RunInOrder([runner[p] EXCEPT !.pc = pc])
           /\ RunIsRight([runner[p] EXCEPT !.pc = pc], legacy)
BY RunIsTyped DEF Run, RunInOrder, RunIsRight, RunSteps, AtDuplicate

LEMMA GoesTyped ==
    ASSUME DuplicatesRight, NEW p \in Runners, NEW pc, Goes(p, pc)
    PROVE  runner' = [runner EXCEPT ![p] = [runner[p] EXCEPT !.pc = pc]]
BY RunIsTyped DEF Goes, DuplicatesRight, RunsAreRight, Run

LEMMA VerifiesWinnerRight ==
    ASSUME DuplicatesRight, NEW p \in Runners, VerifiesWinner(p)
    PROVE  LegacyIsRight' /\ RunsAreRight'
<1> DEFINE pc == IF Proven(runner[p].user, runner[p].seen.winner) THEN "candidate" ELSE "next"
           k == [runner[p] EXCEPT !.pc = pc]
<1>1. pc \in {"candidate", "next"}
  OBVIOUS
<1>2. Goes(p, pc) /\ UNCHANGED legacy /\ runner[p].pc = "winner"
  BY DEF VerifiesWinner, RunAt
<1> HIDE DEF pc
<1>3. k \in Run /\ RunInOrder(k) /\ RunIsRight(k, legacy)
  BY <1>1, <1>2, GoesRight DEF AtDuplicate
<1>4. runner' = [runner EXCEPT ![p] = k]
  BY <1>2, GoesTyped
<1> HIDE DEF k
<1> QED BY <1>2, <1>3, <1>4, RunAlone

\* The organization that a run is at.
LEMMA AtHand ==
    ASSUME DuplicatesRight, NEW p \in Runners, runner[p].pc \in AtDuplicate
    PROVE  /\ runner[p].seen \in Snapshots /\ runner[p].seen.org \in Orgs
           /\ legacy[runner[p].seen.org].row # "none"
           /\ runner[p].user \in Users
BY RunIsTyped DEF RunIsRight, RunInOrder, AtDuplicate, Snapshots

LEMMA VerifiesCandidateRight ==
    ASSUME DuplicatesRight, NEW p \in Runners, VerifiesCandidate(p)
    PROVE  LegacyIsRight' /\ RunsAreRight'
<1> DEFINE o == runner[p].seen.org
<1>1. runner[p].pc = "candidate" /\ UNCHANGED legacy
  BY DEF VerifiesCandidate, RunAt
<1>2. o \in Orgs
  BY <1>1, AtHand DEF AtDuplicate
<1>3. CASE legacy[o].stripe = "gone"
  <2> DEFINE k == [runner[p] EXCEPT !.pc = "checkpoint", !.done = @ \cup {o}]
  <2>1. runner' = [runner EXCEPT ![p] = k]
    BY <1>3, RunIsTyped DEF VerifiesCandidate, DuplicatesRight, RunsAreRight, Run
  <2>2. k \in Run
    BY <1>2, RunIsTyped, ZenonT(30) DEF Run, RunSteps
  <2>3. RunInOrder(k) /\ RunIsRight(k, legacy)
    BY <1>1, <1>2, <1>3, RunIsTyped, SMTT(30) DEF Run, RunInOrder, RunIsRight, AtDuplicate
  <2> HIDE DEF k
  <2> QED BY <1>1, <2>1, <2>2, <2>3, RunAlone
<1>4. CASE legacy[o].stripe # "gone"
  <2>1. PICK pc \in {"cancel", "next"} : runner' = [runner EXCEPT ![p].pc = pc]
    <3>1. o \notin runner[p].done
      BY <1>4, RunIsTyped DEF RunIsRight
    <3> QED BY <1>4, <3>1 DEF VerifiesCandidate
  <2> DEFINE k == [runner[p] EXCEPT !.pc = pc]
  <2>2. runner' = [runner EXCEPT ![p] = k]
    BY <2>1, RunIsTyped DEF DuplicatesRight, RunsAreRight, Run
  <2>3. k \in Run /\ RunInOrder(k) /\ RunIsRight(k, legacy)
    BY <1>1, GoesRight DEF AtDuplicate
  <2> HIDE DEF k
  <2> QED BY <1>1, <2>2, <2>3, RunAlone
<1> QED BY <1>3, <1>4

LEMMA CancelsRight ==
    ASSUME DuplicatesRight, NEW p \in Runners, Cancels(p)
    PROVE  LegacyIsRight' /\ RunsAreRight'
<1> DEFINE o == runner[p].seen.org
           k == [runner[p] EXCEPT !.pc = "checkpoint", !.done = @ \cup {o}]
<1>1. runner[p].pc = "cancel" /\ legacy' = [legacy EXCEPT ![o].stripe = "gone"]
  BY DEF Cancels, RunAt
<1>2. o \in Orgs /\ legacy[o].row # "none" /\ runner[p].seen \in Snapshots
  BY <1>1, AtHand DEF AtDuplicate
<1>3. LegacyIsRight' /\ LegacyGoesOn /\ legacy'[o].stripe = "gone"
  <2> HIDE DEF o
  <2> QED BY <1>1, <1>2, LegacyEnds DEF DuplicatesRight
<1>4. runner' = [runner EXCEPT ![p] = k]
  BY RunIsTyped DEF Cancels, DuplicatesRight, RunsAreRight, Run
<1>5. k \in Run /\ RunInOrder(k) /\ RunIsRight(k, legacy')
  <2>1. k \in Run
    BY <1>2, RunIsTyped, ZenonT(30) DEF Run, RunSteps
  <2>2. /\ k.pc = "checkpoint" /\ k.user = runner[p].user /\ k.seen = runner[p].seen
        /\ k.done = runner[p].done \cup {o}
    BY RunIsTyped DEF Run
  <2>3. runner[p].user \in Users /\ runner[p].done \subseteq Orgs
    BY <1>1, AtHand, RunIsTyped DEF AtDuplicate, Run
  <2>4. legacy'[o].row # "none" /\ \A d \in runner[p].done : legacy'[d].stripe = "gone"
    BY <1>2, <1>3, <2>3, RunIsTyped DEF RunIsRight, LegacyGoesOn
  <2> HIDE DEF k
  <2> QED BY <1>2, <1>3, <2>1, <2>2, <2>3, <2>4 DEF RunInOrder, RunIsRight, AtDuplicate
<1> HIDE DEF k
<1> QED BY <1>3, <1>4, <1>5, RunGoesOn DEF DuplicatesRight

LEMMA StripeFailsRight ==
    ASSUME DuplicatesRight, NEW p \in Runners, StripeFails(p)
    PROVE  LegacyIsRight' /\ RunsAreRight'
<1> DEFINE k == [runner[p] EXCEPT !.pc = "next"]
<1>1. runner[p].pc \in AtDuplicate
  BY DEF StripeFails, AtDuplicate
<1>2. k \in Run /\ RunInOrder(k) /\ RunIsRight(k, legacy)
  BY <1>1, GoesRight
<1>3. runner' = [runner EXCEPT ![p] = k]
  BY GoesTyped DEF StripeFails
<1>4. LegacyIsRight' /\ LegacyGoesOn
  <2>1. CASE UNCHANGED legacy
    BY <2>1, LegacyKept DEF DuplicatesRight
  <2>2. CASE legacy' = [legacy EXCEPT ![runner[p].seen.org].stripe = "gone"]
    BY <1>1, <2>2, AtHand, LegacyEnds DEF DuplicatesRight
  <2> QED BY <2>1, <2>2 DEF StripeFails
<1>5. RunIsRight(k, legacy')
  BY AtHand, <1>1, <1>2, <1>4 DEF RunIsRight, AtDuplicate, LegacyGoesOn, Run
<1> HIDE DEF k
<1> QED BY <1>2, <1>3, <1>4, <1>5, RunGoesOn DEF DuplicatesRight

LEMMA CheckpointsRight ==
    ASSUME DuplicatesRight, NEW p \in Runners, Checkpoints(p)
    PROVE  LegacyIsRight' /\ RunsAreRight'
<1> DEFINE k == [runner[p] EXCEPT !.pc = "next"]
           o == runner[p].seen.org
<1>1. runner[p].pc = "checkpoint"
  BY DEF Checkpoints, RunAt
<1>2. k \in Run /\ RunInOrder(k) /\ RunIsRight(k, legacy)
  BY <1>1, GoesRight DEF AtDuplicate
<1>3. runner' = [runner EXCEPT ![p] = k]
  BY GoesTyped DEF Checkpoints
<1>4. o \in Orgs /\ legacy[o].stripe = "gone"
  BY <1>1, AtHand, RunIsTyped DEF AtDuplicate, RunInOrder, RunIsRight
<1>5. LegacyIsRight' /\ LegacyGoesOn
  <2>1. CASE UNCHANGED legacy
    BY <2>1, LegacyKept DEF DuplicatesRight
  <2>2. CASE legacy' = [legacy EXCEPT ![o].row = "canceled"]
    <3> HIDE DEF o
    <3> QED BY <1>4, <2>2, LegacyRecorded DEF DuplicatesRight
  <2> QED BY <2>1, <2>2 DEF Checkpoints
<1>6. RunIsRight(k, legacy')
  BY AtHand, <1>1, <1>2, <1>5 DEF RunIsRight, AtDuplicate, LegacyGoesOn, Run
<1> HIDE DEF k
<1> QED BY <1>2, <1>3, <1>5, <1>6, RunGoesOn DEF DuplicatesRight

LEMMA LosesLockRight ==
    ASSUME DuplicatesRight, NEW p \in Runners, LosesLock(p)
    PROVE  LegacyIsRight' /\ RunsAreRight'
<1>1. PICK lock \in runner[p].holds : runner' = [runner EXCEPT ![p].holds = @ \ {lock}]
  BY DEF LosesLock
<1> DEFINE k == [runner[p] EXCEPT !.holds = @ \ {lock}]
<1>2. runner' = [runner EXCEPT ![p] = k]
  BY <1>1, RunIsTyped DEF DuplicatesRight, RunsAreRight, Run
<1>3. k \in Run /\ RunInOrder(k) /\ RunIsRight(k, legacy)
  BY RunIsTyped DEF Run, RunInOrder, RunIsRight
<1>4. UNCHANGED legacy
  BY DEF LosesLock
<1> HIDE DEF k
<1> QED BY <1>2, <1>3, <1>4, RunAlone

\* The command touches neither organizations nor accounts, and whoever Stripe
\* charges after its steps it charged before.
LEMMA CommandStep ==
    ASSUME DuplicatesRight, NEW p \in Runners,
           Starts(p) \/ Runs(p) \/ StripeFails(p) \/ Crashes(p) \/ LosesLock(p)
    PROVE  /\ LegacyIsRight' /\ RunsAreRight'
           /\ UNCHANGED <<creator, account, payer>> /\ (incidents' = incidents \/ Incident)
           /\ \A o \in Orgs : legacy'[o].stripe \in {"gone", legacy[o].stripe}
<1>1. LegacyIsRight' /\ RunsAreRight'
  BY StartsRight, TakesUserRight, FinishesRight, LeavesUserRight, CapturesRight, VerifiesWinnerRight,
     VerifiesCandidateRight, CancelsRight, StripeFailsRight, CheckpointsRight, LosesLockRight
     DEF Runs
<1>2. UNCHANGED <<creator, account, payer>> /\ (incidents' = incidents \/ Incident)
  BY DEF Starts, Runs, TakesUser, Finishes, LeavesUser, Captures, VerifiesWinner, VerifiesCandidate,
         Cancels, StripeFails, Checkpoints, Crashes, LosesLock
<1>3. \A o \in Orgs : legacy'[o].stripe \in {"gone", legacy[o].stripe}
  <2>1. legacy \in [Orgs -> Duplicate]
    BY DEF DuplicatesRight, LegacyIsRight
  <2>2. CASE Cancels(p) \/ StripeFails(p)
    BY <2>1, <2>2 DEF Cancels, StripeFails, Duplicate
  <2>3. CASE Checkpoints(p)
    BY <2>1, <2>3 DEF Checkpoints, Duplicate
  <2>4. CASE ~(Cancels(p) \/ StripeFails(p) \/ Checkpoints(p))
    BY <2>4 DEF Starts, Runs, TakesUser, Finishes, LeavesUser, Captures, VerifiesWinner,
                VerifiesCandidate, Crashes, LosesLock
  <2> QED BY <2>2, <2>3, <2>4
<1> QED BY <1>1, <1>2, <1>3

LEMMA CommandRight ==
    ASSUME DuplicatesRight, NEW p \in Runners,
           Starts(p) \/ Runs(p) \/ StripeFails(p) \/ Crashes(p) \/ LosesLock(p)
    PROVE  DuplicatesRight'
<1>1. /\ LegacyIsRight' /\ RunsAreRight'
      /\ UNCHANGED <<creator, account, payer>> /\ (incidents' = incidents \/ Incident)
      /\ \A o \in Orgs : legacy'[o].stripe \in {"gone", legacy[o].stripe}
  BY CommandStep
<1>2. WorldIsRight'
  BY <1>1, ConstantAssumption DEF DuplicatesRight, WorldIsRight, VersionsCount, Incident, Accounts
<1>3. PayerKeepsTheOrganization'
  BY <1>1 DEF DuplicatesRight, PayerKeepsTheOrganization
<1> QED BY <1>1, <1>2, <1>3 DEF DuplicatesRight

-----------------------------------------------------------------------------
(* The steps of the rest of the world *)

LEMMA WorldGoesOn ==
    ASSUME WorldIsRight, Incident, UNCHANGED payer, creator' \in [Orgs -> Users \cup {NoOne}],
           account' \in [Users -> Accounts], \A u \in Users : account'[u].version <= account[u].version + 1
    PROVE  WorldIsRight'
<1>1. incidents' \in 0 .. MaxIncidents /\ incidents' = incidents + 1
  BY ConstantAssumption DEF WorldIsRight, Incident
<1>2. ASSUME NEW u \in Users
      PROVE  account'[u].version <= incidents'
  BY <1>1, ConstantAssumption DEF WorldIsRight, VersionsCount, Accounts
<1> QED BY <1>1, <1>2 DEF WorldIsRight, VersionsCount

\* An account that goes on as a.
LEMMA AccountGoesOn ==
    ASSUME WorldIsRight, Incident, UNCHANGED <<payer, creator>>, NEW u \in Users, NEW a \in Accounts,
           account' = [account EXCEPT ![u] = a], a.version <= account[u].version + 1
    PROVE  WorldIsRight'
<1>1. account' \in [Users -> Accounts]
  BY DEF WorldIsRight
<1>2. ASSUME NEW w \in Users
      PROVE  account'[w].version <= account[w].version + 1
  BY ConstantAssumption DEF WorldIsRight, Accounts
<1> QED BY <1>1, <1>2, WorldGoesOn DEF WorldIsRight

LEMMA OwnChangesRight ==
    ASSUME DuplicatesRight, NEW u \in Users, NEW k \in Subs, NEW status \in {"live", "gone"}, OwnChanges(u, k, status)
    PROVE  DuplicatesRight'
<1>1. LegacyIsRight' /\ RunsAreRight'
  BY LegacyKept, RunsKept DEF DuplicatesRight, OwnChanges
<1>2. WorldIsRight'
  <2> DEFINE a == [account[u] EXCEPT !.own[k] = status]
  <2>1. account[u] \in Accounts
    BY DEF DuplicatesRight, WorldIsRight
  <2>2. a \in Accounts /\ a.version <= account[u].version + 1
    BY <2>1, ConstantAssumption DEF Accounts, StripeStatus
  <2>3. account' = [account EXCEPT ![u] = a]
    BY <2>1 DEF OwnChanges, DuplicatesRight, WorldIsRight, Accounts
  <2>4. WorldIsRight /\ Incident /\ UNCHANGED <<payer, creator>>
    BY DEF OwnChanges, DuplicatesRight
  <2> HIDE DEF a
  <2> QED BY <2>2, <2>3, <2>4, AccountGoesOn
<1>3. PayerKeepsTheOrganization'
  BY DEF DuplicatesRight, PayerKeepsTheOrganization, OwnChanges
<1> QED BY <1>1, <1>2, <1>3 DEF DuplicatesRight

\* A duplicate that Stripe charges for keeps being the same user's.
LEMMA LegacyChangesRight ==
    ASSUME DuplicatesRight, NEW o \in Orgs, NEW status \in {"live", "unpaid", "gone"}, LegacyChanges(o, status)
    PROVE  DuplicatesRight'
<1>1. LegacyIsRight' /\ LegacyGoesOn
  BY DEF DuplicatesRight, LegacyIsRight, CanceledMeansGone, NeverMade, LegacyGoesOn, LegacyChanges, Duplicate,
         StripeStatus
<1>2. RunsAreRight'
  BY <1>1, RunsKept DEF DuplicatesRight, LegacyChanges
<1>3. WorldIsRight'
  BY ConstantAssumption DEF DuplicatesRight, WorldIsRight, VersionsCount, LegacyChanges, Incident, Accounts
<1>4. PayerKeepsTheOrganization'
  BY DEF DuplicatesRight, PayerKeepsTheOrganization, LegacyChanges, LegacyIsRight, Duplicate
<1> QED BY <1>1, <1>2, <1>3, <1>4 DEF DuplicatesRight

LEMMA WebhookRight ==
    ASSUME DuplicatesRight, NEW u \in Users, WebhookOf(u)
    PROVE  DuplicatesRight'
<1>1. LegacyIsRight' /\ RunsAreRight'
  BY LegacyKept, RunsKept DEF DuplicatesRight, WebhookOf
<1>2. PICK k \in 0 .. 2 :
         account' = [account EXCEPT ![u].recorded = k, ![u].version = @ + 1]
  <2>1. Authoritative(u) \subseteq 0 .. 2
    BY DEF Authoritative, LiveOf, Subs
  <2> QED BY <2>1 DEF WebhookOf
<1>3. WorldIsRight'
  <2> DEFINE a == [account[u] EXCEPT !.recorded = k, !.version = @ + 1]
  <2>1. account[u] \in Accounts /\ account[u].version <= incidents /\ incidents \in 0 .. MaxIncidents
    BY DEF DuplicatesRight, WorldIsRight, VersionsCount
  <2>2. incidents < MaxIncidents
    BY DEF WebhookOf, Incident
  <2>3. a \in Accounts /\ a.version <= account[u].version + 1
    <3>1. account[u].version + 1 \in 0 .. MaxIncidents
      BY <2>1, <2>2, ConstantAssumption DEF Accounts
    <3>2. a \in Accounts
      BY <2>1, <3>1 DEF Accounts
    <3>3. a.version = account[u].version + 1
      BY <2>1 DEF Accounts
    <3> HIDE DEF a
    <3> QED BY <3>1, <3>2, <3>3
  <2>4. account' = [account EXCEPT ![u] = a]
    BY <1>2, <2>1 DEF DuplicatesRight, WorldIsRight, Accounts
  <2>5. WorldIsRight /\ Incident /\ UNCHANGED <<payer, creator>>
    BY DEF WebhookOf, DuplicatesRight
  <2> HIDE DEF a
  <2> QED BY <2>3, <2>4, <2>5, AccountGoesOn
<1>4. PayerKeepsTheOrganization'
  BY DEF DuplicatesRight, PayerKeepsTheOrganization, WebhookOf
<1> QED BY <1>1, <1>3, <1>4 DEF DuplicatesRight

\* Stripe charges for no organization that may be transferred or deleted.
LEMMA ResolvedIsFree ==
    ASSUME DuplicatesRight, NEW o \in Orgs, Resolved(o)
    PROVE  legacy[o].stripe \notin {"live", "unpaid"}
BY DEF DuplicatesRight, LegacyIsRight, CanceledMeansGone, NeverMade, Resolved, Duplicate

LEMMA TransfersRight ==
    ASSUME DuplicatesRight, NEW o \in Orgs, NEW u \in Users, Transfers(o, u)
    PROVE  DuplicatesRight'
<1>1. LegacyIsRight' /\ RunsAreRight'
  BY LegacyKept, RunsKept DEF DuplicatesRight, Transfers
<1>2. WorldIsRight'
  BY ConstantAssumption DEF DuplicatesRight, WorldIsRight, VersionsCount, Transfers, Incident, Accounts
<1>3. PayerKeepsTheOrganization'
  BY ResolvedIsFree DEF DuplicatesRight, PayerKeepsTheOrganization, WorldIsRight, Transfers
<1> QED BY <1>1, <1>2, <1>3 DEF DuplicatesRight

LEMMA DeletesRight ==
    ASSUME DuplicatesRight, NEW o \in Orgs, Deletes(o)
    PROVE  DuplicatesRight'
<1>1. LegacyIsRight' /\ RunsAreRight'
  BY LegacyKept, RunsKept DEF DuplicatesRight, Deletes
<1>2. account' \in [Users -> Accounts] /\ \A u \in Users : account'[u].version = account[u].version
  BY DEF DuplicatesRight, WorldIsRight, Deletes, Accounts
<1>3. \A u \in Users : account'[u].version <= account[u].version + 1
  BY <1>2, ConstantAssumption DEF DuplicatesRight, WorldIsRight, Accounts
<1>4. creator' \in [Orgs -> Users \cup {NoOne}]
  BY DEF DuplicatesRight, WorldIsRight, Deletes
<1>5. WorldIsRight'
  BY <1>2, <1>3, <1>4, WorldGoesOn DEF DuplicatesRight, Deletes
<1>6. PayerKeepsTheOrganization'
  BY ResolvedIsFree DEF DuplicatesRight, PayerKeepsTheOrganization, WorldIsRight, Deletes
<1> QED BY <1>1, <1>5, <1>6 DEF DuplicatesRight

-----------------------------------------------------------------------------
(* The theorems *)

LEMMA DuplicatesInitRight == DuplicatesInit => DuplicatesRight
<1> SUFFICES ASSUME DuplicatesInit PROVE DuplicatesRight
  OBVIOUS
<1>1. WorldIsRight
  BY ConstantAssumption DEF DuplicatesInit, WorldIsRight, VersionsCount, Accounts, StripeStatus, Subs
<1>2. LegacyIsRight
  BY DEF DuplicatesInit, LegacyIsRight, CanceledMeansGone, NeverMade, Duplicate, StripeStatus
<1>3. RunsAreRight
  BY IdleRuns DEF DuplicatesInit, RunsAreRight
<1>4. PayerKeepsTheOrganization
  BY DEF DuplicatesInit, PayerKeepsTheOrganization
<1> QED BY <1>1, <1>2, <1>3, <1>4 DEF DuplicatesRight

LEMMA DuplicatesStepRight == DuplicatesRight /\ [DuplicatesNext]_duplicateVars => DuplicatesRight'
<1> SUFFICES ASSUME DuplicatesRight, [DuplicatesNext]_duplicateVars PROVE DuplicatesRight'
  OBVIOUS
<1>1. CASE \E p \in Runners : Starts(p) \/ Runs(p) \/ StripeFails(p) \/ Crashes(p) \/ LosesLock(p)
  BY <1>1, CommandRight
<1>2. CASE Others
  BY <1>2, OwnChangesRight, LegacyChangesRight, WebhookRight, TransfersRight, DeletesRight DEF Others
<1>3. CASE UNCHANGED duplicateVars
  <2>1. LegacyIsRight' /\ RunsAreRight'
    BY <1>3, LegacyKept, RunsKept DEF DuplicatesRight, duplicateVars
  <2>2. WorldIsRight' /\ PayerKeepsTheOrganization'
    BY <1>3 DEF DuplicatesRight, duplicateVars, WorldIsRight, VersionsCount, PayerKeepsTheOrganization
  <2> QED BY <2>1, <2>2 DEF DuplicatesRight
<1> QED BY <1>1, <1>2, <1>3 DEF DuplicatesNext

\* The inductive invariant: a run captures duplicates that have a row, it
\* records as canceled only what it has itself found or made gone, and what is
\* gone in Stripe never comes back.
THEOREM DuplicatesInvariant == DuplicatesSpec => []DuplicatesRight
BY DuplicatesInitRight, DuplicatesStepRight, PTL DEF DuplicatesSpec

LEMMA InvariantKnown == DuplicatesRight => ChargesAreKnown
BY DEF DuplicatesRight, WorldIsRight, LegacyIsRight, RunsAreRight, RunInOrder, Run, ChargesAreKnown, DuplicatesTypeOK, RunSteps,
       AtDuplicate

\* However many processes run the command, whatever calls to Stripe fail and
\* whichever locks are lost: a row that says canceled is one that nobody is
\* charged for, and an organization that is charged for stays with who pays.
THEOREM ChargesStayKnown == DuplicatesSpec => []ChargesAreKnown
BY DuplicatesInvariant, InvariantKnown, PTL
=============================================================================
