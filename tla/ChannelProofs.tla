--------------------------- MODULE ChannelProofs ---------------------------
(* What is promised of channels.  ChannelSetup, for any number of requests,  *)
(* tokens, tries, updates, deliveries, connections, switches and failures:   *)
(* their confirmation by e-mail, in Telegram, and the switches of a check.   *)
(* AlertDelivery, at the end, for every set of checks, projects, channels    *)
(* and alerts, and every number of tries, stalls and incidents: who is       *)
(* alerted.                                                                  *)
EXTENDS ChannelSetup, AlertDelivery, FiniteSetTheorems, TLAPS

-----------------------------------------------------------------------------
(* E-mail: the inductive invariant *)

EmailTyped == EmailTypeOK /\ request \in [Requests -> EmailRequests \cup {NoRequest}]

\* Whatever names a token names one that was made; the page's came by mail.
TokensKnown ==
    /\ inbox \subseteq 1 .. tokens
    /\ \A j \in jobs : j.token \in 1 .. tokens
    /\ \A r \in Requests : ~MailAt(r, "none") => request[r].token \in 1 .. tokens
    /\ ~PageAt("closed") => page.token \in inbox

\* A channel has the newest token, or none any more.
TokenIsNewest == email.exists => tokens # 0 /\ email.token = IF email.verified THEN 0 ELSE tokens

\* A token has one request, which has stored a job or is abandoned when it ends,
\* and what it reserved is its own as long as it has not ended.
RequestInOrder(r) ==
    /\ \A s \in Requests :
          ~MailAt(r, "none") /\ ~MailAt(s, "none") /\ request[r].token = request[s].token => r = s
    /\ MailAt(r, "done") => request[r].token \in queued
    /\ MailAt(r, "failed") => request[r].token \in abandoned
    /\ ~MailAt(r, "none") /\ Current(request[r].token) =>
          email.sent = IF request[r].kind = "resend" THEN "reserved" ELSE "no"

\* Good news is of a channel that is verified, while there is one.
PageInOrder == PageAt("good") /\ email.exists => email.verified

EmailRight ==
    /\ EmailTyped /\ TokensKnown /\ TokenIsNewest /\ PageInOrder
    /\ \A r \in Requests : RequestInOrder(r)
    /\ DeliveryStatusIsTrue /\ LinkPageIsRight

-----------------------------------------------------------------------------
(* Telegram: the inductive invariant *)

DeliveryRow == [pc : {"claim", "send", "mark", "answer"}, update : Updates]
ConnectionRow == [pc : {"locked"}, update : Updates, project : Workspaces, member : BOOLEAN]

TelegramTyped ==
    /\ TelegramTypeOK
    /\ challenge \in [Updates -> Challenges \cup {NoChallenge}]
    /\ delivery \in [Deliveries -> DeliveryRow \cup {NoDelivery}]
    /\ connection \in [Connections -> ConnectionRow \cup {NoConnection}]

\* Who is about to answer has a reason to, and what a delivery is still
\* sending is not marked yet.
DeliveryInOrder(d) ==
    /\ DeliveryAt(d, "answer") => delivery[d].update \in linked \cup dismissed
    /\ (DeliveryAt(d, "send") \/ DeliveryAt(d, "mark")) /\ Own(d) => ~challenge[delivery[d].update].delivered

\* A link that was not consumed has made nothing; one that was delivered is
\* known to be.
ChallengeInOrder(u) ==
    /\ made[u] <= 1
    /\ Row(u) /\ ~challenge[u].consumed => made[u] = 0
    /\ Row(u) /\ challenge[u].delivered => u \in linked

\* A connection holds a link that can be used, alone, and its member's row.
ConnectionInOrder(k) ==
    ConnectionAt(k, "locked") =>
       /\ Row(connection[k].update) /\ challenge[connection[k].update].delivered
       /\ ~challenge[connection[k].update].consumed
       /\ connection[k].member /\ member
       /\ \A j \in Connections :
             ConnectionAt(j, "locked") /\ connection[j].update = connection[k].update => j = k

TelegramRight ==
    /\ TelegramTyped /\ AnsweredHasALink
    /\ \A d \in Deliveries : DeliveryInOrder(d)
    /\ \A u \in Updates : ChallengeInOrder(u)
    /\ \A k \in Connections : ConnectionInOrder(k)

SwitchesTyped ==
    /\ chosen \subseteq Switches /\ cached \subseteq Switches /\ selected \subseteq Switches
    /\ saving \in [Switches -> Savings \cup {NotSaving}]
    /\ poll \in Polls \cup {NoPoll}
    /\ visible \in BOOLEAN
    /\ choices \in 0 .. MaxChoices

\* A switch shows what its user is saving, or what the browser has heard.
SwitchesFollow ==
    \A c \in Switches :
       (c \in selected) = IF IsSaving(c) THEN saving[c].enabled ELSE c \in cached

SwitchesRight == SwitchesTyped /\ SwitchesFollow

\* What the page, the poll and the call of c know of it is so, unless it was
\* chosen or not since.
HeardInOrder(c) ==
    /\ c \notin missed.page => (c \in cached <=> c \in chosen)
    /\ poll.pc = "read" /\ c \notin missed.poll => (c \in poll.ids <=> c \in chosen)
    /\ saving[c].pc = "saved" /\ c \notin missed.call => (saving[c].enabled = TRUE <=> c \in chosen)

MissedRight ==
    /\ missed \in [page : SUBSET Switches, poll : SUBSET Switches, call : SUBSET Switches]
    /\ \A c \in Switches : HeardInOrder(c)

SetupIInv == step \in Steps /\ EmailRight /\ TelegramRight /\ SwitchesRight /\ MissedRight

-----------------------------------------------------------------------------
(* E-mail: what the steps have in common *)

LEMMA EmailFields ==
    ASSUME EmailRight
    PROVE  /\ MaxTokens \in Nat \ {0} /\ MaxTries \in Nat \ {0} /\ MaxFaults \in Nat
           /\ tokens \in 0 .. MaxTokens /\ faults \in 0 .. MaxFaults
           /\ \/ email.exists = TRUE /\ email \in EmailChannels
              \/ email.exists = FALSE /\ email = NoEmail
           /\ \A r \in Requests : IF MailAt(r, "none") THEN request[r] = NoRequest ELSE request[r] \in EmailRequests
           /\ IF PageAt("closed") THEN page = NoPage ELSE page \in EmailPages
<1>1. /\ tokens \in 0 .. MaxTokens /\ faults \in 0 .. MaxFaults
      /\ email \in EmailChannels \cup {NoEmail} /\ page \in EmailPages \cup {NoPage}
      /\ \A r \in Requests : request[r] \in EmailRequests \cup {NoRequest}
  BY DEF EmailRight, EmailTyped, EmailTypeOK
<1>2. ASSUME NEW c \in EmailChannels
      PROVE  c.exists = TRUE
  BY Zenon DEF EmailChannels
<1>3. NoEmail.exists = FALSE
  BY DEF NoEmail
<1>4. ASSUME NEW q \in EmailRequests
      PROVE  q.pc # "none"
  BY DEF EmailRequests
<1>5. NoRequest.pc = "none"
  BY DEF NoRequest
<1>6. \A p \in EmailPages : p.pc # "closed"
  BY DEF EmailPages
<1>7. NoPage.pc = "closed"
  BY DEF NoPage
<1>8. \/ email.exists = TRUE /\ email \in EmailChannels
      \/ email.exists = FALSE /\ email = NoEmail
  BY <1>1, <1>2, <1>3, Zenon
<1>9. \A r \in Requests : IF MailAt(r, "none") THEN request[r] = NoRequest ELSE request[r] \in EmailRequests
  BY <1>1, <1>4, <1>5 DEF MailAt
<1>10. IF PageAt("closed") THEN page = NoPage ELSE page \in EmailPages
  BY <1>1, <1>6, <1>7 DEF PageAt
<1> QED BY <1>1, <1>8, <1>9, <1>10, EmailAssumption, Zenon

\* A request that goes on as q.
LEMMA RequestGoesOn ==
    ASSUME EmailRight, NEW r \in Requests, NEW q \in EmailRequests \cup {NoRequest},
           request' = [request EXCEPT ![r] = q]
    PROVE  /\ request' \in [Requests -> EmailRequests \cup {NoRequest}]
           /\ request'[r] = q /\ \A s \in Requests \ {r} : request'[s] = request[s]
BY DEF EmailRight, EmailTyped

-----------------------------------------------------------------------------
(* Requests *)

LEMMA CreatesRight ==
    ASSUME EmailRight, NEW r \in Requests, Creates(r)
    PROVE  EmailRight' /\ NewestConfirms
<1> DEFINE q == [pc |-> "enqueue", kind |-> "create", token |-> 1, tries |-> 0]
           c == [exists |-> TRUE, token |-> 1, verified |-> FALSE, expired |-> FALSE,
                 sent |-> "no", cooling |-> FALSE]
<1>1. q \in EmailRequests /\ c \in EmailChannels
  BY EmailAssumption DEF EmailRequests, EmailChannels, Tokens
<1>2. /\ request' = [request EXCEPT ![r] = q] /\ email' = c /\ tokens = 0 /\ tokens' = 1
      /\ email.exists = FALSE /\ request[r].pc = "none"
      /\ UNCHANGED <<jobs, inbox, page, faults, queued, abandoned>>
  BY EmailFields DEF Creates, MailAt
<1>3. /\ c.exists = TRUE /\ c.token = 1 /\ c.verified = FALSE /\ c.sent = "no"
      /\ q.pc = "enqueue" /\ q.kind = "create" /\ q.token = 1
  OBVIOUS
<1> HIDE DEF q, c
<1>4. request' \in [Requests -> EmailRequests \cup {NoRequest}] /\ request'[r] = q
      /\ \A s \in Requests \ {r} : request'[s] = request[s]
  BY <1>1, <1>2, RequestGoesOn
<1>5. \A s \in Requests : request[s].pc = "none"
  BY <1>2 DEF EmailRight, TokensKnown, MailAt
<1>6. EmailTyped'
  BY <1>1, <1>2, <1>4, EmailAssumption DEF EmailRight, EmailTyped, EmailTypeOK
<1>7. inbox = {} /\ jobs = {} /\ page.pc = "closed"
  <2>1. 1 .. tokens = {}
    BY <1>2
  <2> QED BY <2>1 DEF EmailRight, TokensKnown, PageAt
<1>8. TokensKnown' /\ TokenIsNewest' /\ PageInOrder' /\ LinkPageIsRight'
  BY <1>2, <1>3, <1>4, <1>5, <1>7 DEF TokensKnown, TokenIsNewest, PageInOrder, LinkPageIsRight, MailAt, PageAt
<1>9. \A s \in Requests : RequestInOrder(s)'
  BY <1>2, <1>3, <1>4, <1>5 DEF RequestInOrder, MailAt, Current
<1>10. DeliveryStatusIsTrue' /\ NewestConfirms
  BY <1>2, <1>3, <1>4 DEF DeliveryStatusIsTrue, NewestConfirms, AtWork, MailAt
<1> QED BY <1>6, <1>8, <1>9, <1>10 DEF EmailRight

LEMMA RotatesRight ==
    ASSUME EmailRight, NEW r \in Requests, Rotates(r)
    PROVE  EmailRight' /\ NewestConfirms
<1> DEFINE q == [pc |-> "enqueue", kind |-> "resend", token |-> tokens + 1, tries |-> 0]
           c == [email EXCEPT !.token = tokens + 1, !.expired = FALSE, !.sent = "reserved", !.cooling = TRUE]
<1>1. email \in EmailChannels /\ email.exists /\ email.verified = FALSE /\ tokens \in 1 .. MaxTokens - 1
  BY EmailFields DEF Rotates, MayRotate, EmailChannels
<1>2. q \in EmailRequests
  BY <1>1, EmailAssumption DEF EmailRequests, Tokens
<1>3. c \in EmailChannels
  <2>1. tokens + 1 \in 0 .. MaxTokens
    BY <1>1, EmailAssumption
  <2> QED BY <1>1, <2>1, Zenon DEF EmailChannels
<1>4. /\ request' = [request EXCEPT ![r] = q] /\ email' = c /\ tokens' = tokens + 1
      /\ request[r].pc = "none"
      /\ UNCHANGED <<jobs, inbox, page, faults, queued, abandoned>>
  BY DEF Rotates, MailAt
<1>5. /\ c.exists = TRUE /\ c.token = tokens + 1 /\ c.verified = FALSE /\ c.sent = "reserved"
      /\ q.pc = "enqueue" /\ q.kind = "resend" /\ q.token = tokens + 1
  BY <1>1 DEF EmailChannels
<1> HIDE DEF q, c
<1>6. request' \in [Requests -> EmailRequests \cup {NoRequest}] /\ request'[r] = q
      /\ \A s \in Requests \ {r} : request'[s] = request[s]
  BY <1>2, <1>4, RequestGoesOn
<1>7. EmailTyped'
  BY <1>1, <1>3, <1>4, <1>6, EmailAssumption DEF EmailRight, EmailTyped, EmailTypeOK
<1>8. TokensKnown' /\ TokenIsNewest' /\ PageInOrder' /\ LinkPageIsRight'
  BY <1>1, <1>4, <1>5, <1>6 DEF EmailRight, TokensKnown, TokenIsNewest, PageInOrder, LinkPageIsRight, MailAt, PageAt,
     Usable, Current
<1>9. \A s \in Requests : RequestInOrder(s)'
  BY <1>1, <1>4, <1>5, <1>6 DEF EmailRight, TokensKnown, RequestInOrder, MailAt, Current
<1>10. DeliveryStatusIsTrue' /\ NewestConfirms
  BY <1>1, <1>4, <1>5, <1>6 DEF DeliveryStatusIsTrue, NewestConfirms, AtWork, MailAt
<1> QED BY <1>7, <1>8, <1>9, <1>10 DEF EmailRight

\* A request that goes on with its token, and what is true of the channel is
\* true of it.
LEMMA RequestMoves ==
    ASSUME EmailRight, NEW r \in Requests, ~MailAt(r, "none"), NEW q \in EmailRequests,
           request' = [request EXCEPT ![r] = q], q.token = request[r].token, q.kind = request[r].kind,
           q.pc = "done" => q.token \in queued', q.pc = "failed" => q.token \in abandoned',
           jobs' \subseteq Jobs, \A j \in jobs' : j.token \in 1 .. tokens,
           queued \subseteq queued', queued' \subseteq Tokens,
           abandoned \subseteq abandoned', abandoned' \subseteq Tokens,
           faults' \in 0 .. MaxFaults, UNCHANGED <<email, tokens, inbox, page>>
    PROVE  EmailRight' /\ NewestConfirms
<1>1. request' \in [Requests -> EmailRequests \cup {NoRequest}] /\ request'[r] = q
      /\ \A s \in Requests \ {r} : request'[s] = request[s]
  BY RequestGoesOn
<1>2. q.pc # "none"
  BY DEF EmailRequests
<1>3. EmailTyped'
  BY <1>1 DEF EmailRight, EmailTyped, EmailTypeOK
<1>4. TokensKnown' /\ TokenIsNewest' /\ PageInOrder' /\ LinkPageIsRight'
  BY <1>1 DEF EmailRight, TokensKnown, TokenIsNewest, PageInOrder, LinkPageIsRight, MailAt, PageAt, Usable, Current
<1>5. \A s \in Requests : RequestInOrder(s)'
  BY <1>1, <1>2 DEF EmailRight, RequestInOrder, MailAt, Current
<1>6. DeliveryStatusIsTrue' /\ NewestConfirms
  BY <1>1, <1>2 DEF EmailRight, DeliveryStatusIsTrue, NewestConfirms, AtWork, MailAt
<1> QED BY <1>3, <1>4, <1>5, <1>6 DEF EmailRight

LEMMA StoresTyped ==
    ASSUME EmailRight, NEW r \in Requests, ~MailAt(r, "none"), Stores(r)
    PROVE  /\ jobs' \subseteq Jobs /\ \A j \in jobs' : j.token \in 1 .. tokens
           /\ queued \subseteq queued' /\ queued' \subseteq Tokens /\ request[r].token \in queued'
<1> DEFINE n == [token |-> request[r].token, copy |-> request[r].tries, attempt |-> 1, pc |-> "waiting"]
<1>1. request[r].token \in Tokens /\ request[r].tries \in 0 .. 1 /\ request[r].token \in 1 .. tokens
  BY EmailFields DEF EmailRequests, EmailRight, TokensKnown
<1>2. n \in Jobs /\ n.token = request[r].token
  BY <1>1, EmailAssumption DEF Jobs
<1>3. jobs' = jobs \cup {n} /\ queued' = queued \cup {request[r].token}
  BY DEF Stores
<1> HIDE DEF n
<1> QED BY <1>1, <1>2, <1>3 DEF EmailRight, EmailTyped, EmailTypeOK, TokensKnown

LEMMA EnqueuesRight ==
    ASSUME EmailRight, NEW r \in Requests, Enqueues(r)
    PROVE  EmailRight' /\ NewestConfirms
<1> DEFINE q == [request[r] EXCEPT !.pc = "done"]
<1>1. MailAt(r, "enqueue") /\ ~MailAt(r, "none") /\ request[r] \in EmailRequests
  BY EmailFields DEF Enqueues, MailAt
<1>2. /\ q \in EmailRequests /\ q.token = request[r].token /\ q.kind = request[r].kind /\ q.pc = "done"
  BY <1>1 DEF EmailRequests
<1>3. request' = [request EXCEPT ![r] = q] /\ Stores(r) /\ UNCHANGED <<email, tokens, inbox, faults, abandoned, page>>
  BY DEF Enqueues
<1> HIDE DEF q
<1>4. abandoned \subseteq Tokens /\ faults \in 0 .. MaxFaults
  BY DEF EmailRight, EmailTyped, EmailTypeOK
<1> QED BY <1>1, <1>2, <1>3, <1>4, StoresTyped, RequestMoves

LEMMA EnqueueFailsRight ==
    ASSUME EmailRight, NEW r \in Requests, EnqueueFails(r)
    PROVE  EmailRight' /\ NewestConfirms
<1>1. MailAt(r, "enqueue") /\ ~MailAt(r, "none") /\ request[r] \in EmailRequests /\ request[r].token \in Tokens
  BY EmailFields DEF EnqueueFails, MailAt, EmailRequests
<1>2. /\ abandoned \subseteq Tokens /\ queued \subseteq Tokens /\ jobs \subseteq Jobs /\ faults \in 0 .. MaxFaults
      /\ \A j \in jobs : j.token \in 1 .. tokens
  BY DEF EmailRight, EmailTyped, EmailTypeOK, TokensKnown
<1>3. /\ jobs' \subseteq Jobs /\ \A j \in jobs' : j.token \in 1 .. tokens
      /\ queued \subseteq queued' /\ queued' \subseteq Tokens
  <2>1. Stores(r) \/ UNCHANGED <<jobs, queued>>
    BY DEF EnqueueFails
  <2> QED BY <1>1, <1>2, <2>1, StoresTyped
<1>4. faults' \in 0 .. MaxFaults
  BY <1>2, EmailAssumption DEF EnqueueFails, Faults
<1>5. UNCHANGED <<email, tokens, inbox, page>>
  BY DEF EnqueueFails
<1>6. CASE request[r].tries = 0
  <2> DEFINE q == [request[r] EXCEPT !.tries = 1]
  <2>1. /\ q \in EmailRequests /\ q.token = request[r].token /\ q.kind = request[r].kind /\ q.pc = "enqueue"
    BY <1>1 DEF EmailRequests, MailAt
  <2>2. request' = [request EXCEPT ![r] = q] /\ abandoned' = abandoned
    BY <1>6 DEF EnqueueFails
  <2> HIDE DEF q
  <2> QED BY <1>1, <1>2, <1>3, <1>4, <1>5, <2>1, <2>2, RequestMoves
<1>7. CASE request[r].tries # 0
  <2> DEFINE q == [request[r] EXCEPT !.pc = "failed"]
  <2>1. /\ q \in EmailRequests /\ q.token = request[r].token /\ q.kind = request[r].kind /\ q.pc = "failed"
    BY <1>1 DEF EmailRequests
  <2>2. request' = [request EXCEPT ![r] = q] /\ abandoned' = abandoned \cup {request[r].token}
    BY <1>7 DEF EnqueueFails
  <2> HIDE DEF q
  <2> QED BY <1>1, <1>2, <1>3, <1>4, <1>5, <2>1, <2>2, RequestMoves
<1> QED BY <1>6, <1>7

\* A request that ends, having changed at most whether the mail was sent, and
\* that only of the token it has.
LEMMA RequestEnds ==
    ASSUME EmailRight, NEW r \in Requests, ~MailAt(r, "none"), Replies(r),
           email' \in EmailChannels \cup {NoEmail}, email'.exists = email.exists,
           email.exists => /\ email'.token = email.token /\ email'.verified = email.verified
                           /\ email'.expired = email.expired
                           /\ email.token # request[r].token => email'.sent = email.sent
                           /\ ~email.verified /\ email.token = request[r].token =>
                                 \/ email.token \in abandoned'
                                 \/ email.token \in queued /\ email'.sent # "no",
           abandoned \subseteq abandoned', abandoned' \subseteq Tokens,
           faults' \in 0 .. MaxFaults, UNCHANGED <<tokens, jobs, inbox, page, queued>>
    PROVE  EmailRight' /\ NewestConfirms
<1>1. request' \in [Requests -> EmailRequests \cup {NoRequest}] /\ request'[r] = NoRequest
      /\ \A s \in Requests \ {r} : request'[s] = request[s]
  BY RequestGoesOn DEF Replies
<1>2. NoRequest.pc = "none"
  BY DEF NoRequest
<1>3. EmailTyped'
  BY <1>1 DEF EmailRight, EmailTyped, EmailTypeOK
<1>4. TokensKnown' /\ TokenIsNewest' /\ PageInOrder' /\ LinkPageIsRight'
  BY <1>1, <1>2 DEF EmailRight, TokensKnown, TokenIsNewest, PageInOrder, LinkPageIsRight, MailAt, PageAt, Usable, Current
<1>5. \A s \in Requests : RequestInOrder(s)'
  BY <1>1, <1>2 DEF EmailRight, RequestInOrder, MailAt, Current
<1>6. DeliveryStatusIsTrue' /\ NewestConfirms
  BY <1>1, <1>2 DEF EmailRight, DeliveryStatusIsTrue, NewestConfirms, AtWork, MailAt
<1> QED BY <1>3, <1>4, <1>5, <1>6 DEF EmailRight

LEMMA AcknowledgesRight ==
    ASSUME EmailRight, NEW r \in Requests, Acknowledges(r)
    PROVE  EmailRight' /\ NewestConfirms
<1>1. MailAt(r, "done") /\ ~MailAt(r, "none") /\ Replies(r) /\ UNCHANGED <<tokens, jobs, inbox, page, faults, queued, abandoned>>
  BY DEF Acknowledges, MailAt
<1>2. abandoned \subseteq Tokens /\ faults \in 0 .. MaxFaults /\ email \in EmailChannels \cup {NoEmail}
  BY DEF EmailRight, EmailTyped, EmailTypeOK
<1>3. request[r].token \in queued
  BY <1>1 DEF EmailRight, RequestInOrder
<1>4. CASE Owns(r)
  <2>1. email.exists = TRUE /\ email \in EmailChannels /\ email.token = request[r].token
    BY <1>4, EmailFields DEF Owns, Current
  <2>2. email' = [email EXCEPT !.sent = "yes", !.cooling = TRUE]
    BY <1>4 DEF Acknowledges
  <2>3. /\ email'.exists = email.exists /\ email'.token = email.token /\ email'.verified = email.verified
        /\ email'.expired = email.expired /\ email'.sent = "yes"
    BY <2>1, <2>2 DEF EmailChannels
  <2>4. email' \in EmailChannels
    BY <2>1, <2>2, Zenon DEF EmailChannels
  <2> QED BY <1>1, <1>2, <1>3, <2>1, <2>3, <2>4, RequestEnds
<1>5. CASE ~Owns(r)
  <2>1. email' = email
    BY <1>5 DEF Acknowledges
  <2>2. ~Current(request[r].token)
    BY <1>1, <1>5, EmailFields DEF EmailRight, RequestInOrder, Owns
  <2> QED BY <1>1, <1>2, <2>1, <2>2, RequestEnds DEF Current
<1> QED BY <1>4, <1>5

LEMMA ClearsRight ==
    ASSUME EmailRight, NEW r \in Requests, Clears(r)
    PROVE  EmailRight' /\ NewestConfirms
<1>1. MailAt(r, "failed") /\ ~MailAt(r, "none") /\ Replies(r) /\ UNCHANGED <<tokens, jobs, inbox, page, faults, queued, abandoned>>
  BY DEF Clears, MailAt
<1>2. abandoned \subseteq Tokens /\ faults \in 0 .. MaxFaults /\ email \in EmailChannels \cup {NoEmail}
  BY DEF EmailRight, EmailTyped, EmailTypeOK
<1>3. request[r].token \in abandoned
  BY <1>1 DEF EmailRight, RequestInOrder
<1>4. CASE request[r].kind = "resend" /\ Owns(r)
  <2>1. email.exists = TRUE /\ email \in EmailChannels /\ email.token = request[r].token
    BY <1>4, EmailFields DEF Owns, Current
  <2>2. email' = [email EXCEPT !.sent = "no"]
    BY <1>4 DEF Clears
  <2>3. /\ email'.exists = email.exists /\ email'.token = email.token /\ email'.verified = email.verified
        /\ email'.expired = email.expired
    BY <2>1, <2>2 DEF EmailChannels
  <2>4. email' \in EmailChannels
    BY <2>1, <2>2, Zenon DEF EmailChannels
  <2> QED BY <1>1, <1>2, <1>3, <2>1, <2>3, <2>4, RequestEnds
<1>5. CASE ~(request[r].kind = "resend" /\ Owns(r))
  <2>1. email' = email
    BY <1>5 DEF Clears
  <2> QED BY <1>1, <1>2, <1>3, <2>1, RequestEnds
<1> QED BY <1>4, <1>5

LEMMA RequestDiesRight ==
    ASSUME EmailRight, NEW r \in Requests, RequestDies(r)
    PROVE  EmailRight' /\ NewestConfirms
<1>1. /\ ~MailAt(r, "none") /\ Replies(r) /\ UNCHANGED <<email, tokens, jobs, inbox, queued, page>>
      /\ abandoned' = abandoned \cup {request[r].token}
  BY DEF RequestDies
<1>2. /\ abandoned \subseteq Tokens /\ email \in EmailChannels \cup {NoEmail} /\ request[r].token \in Tokens
  BY <1>1, EmailFields DEF EmailRight, EmailTyped, EmailTypeOK, EmailRequests
<1>3. faults' \in 0 .. MaxFaults
  BY EmailFields DEF RequestDies, Faults
<1> QED BY <1>1, <1>2, <1>3, RequestEnds

-----------------------------------------------------------------------------
(* The channel itself, the worker, and the page *)

\* A channel that is confirmed by a link, from a page or not.
LEMMA ConfirmsRight ==
    ASSUME EmailRight, NEW t \in inbox, Confirms(t),
           page' \in EmailPages \cup {NoPage},
           page' = page \/ (page'.pc = "good" /\ page'.token \in inbox),
           UNCHANGED <<tokens, request, jobs, inbox, faults, queued, abandoned>>
    PROVE  EmailRight' /\ NewestConfirms
<1>1. /\ email \in EmailChannels /\ email.exists = TRUE /\ email.token = t /\ email.verified = FALSE /\ email.expired = FALSE
      /\ email' = [email EXCEPT !.verified = TRUE, !.token = 0]
  BY EmailFields DEF Confirms, Usable, Current, EmailChannels
<1>2. /\ email'.exists = TRUE /\ email'.verified = TRUE /\ email'.token = 0
      /\ email'.sent = email.sent
  BY <1>1 DEF EmailChannels
<1>3. email' \in EmailChannels
  <2>1. 0 \in 0 .. MaxTokens
    BY EmailAssumption
  <2> QED BY <1>1, <2>1, Zenon DEF EmailChannels
<1>4. EmailTyped'
  BY <1>3 DEF EmailRight, EmailTyped, EmailTypeOK
<1>5. t = tokens /\ tokens \in inbox /\ tokens # 0
  BY <1>1 DEF EmailRight, TokenIsNewest
<1>6. inbox \subseteq 1 .. tokens
  BY DEF EmailRight, TokensKnown
<1>7. TokensKnown'
  BY DEF EmailRight, TokensKnown, MailAt, PageAt
<1>8. TokenIsNewest'
  BY <1>1, <1>2 DEF EmailRight, TokenIsNewest
<1>9. PageInOrder' /\ LinkPageIsRight'
  BY <1>1, <1>2 DEF EmailRight, PageInOrder, LinkPageIsRight, PageAt, Usable, Current
<1>10. \A r \in Requests : ~MailAt(r, "none") => request[r].token # 0
  BY <1>5 DEF EmailRight, TokensKnown
<1>11. \A r \in Requests : RequestInOrder(r)'
  BY <1>2, <1>10 DEF EmailRight, RequestInOrder, MailAt, Current
<1>12. DeliveryStatusIsTrue' /\ NewestConfirms
  BY <1>1, <1>2, <1>5 DEF DeliveryStatusIsTrue, NewestConfirms
<1> QED BY <1>4, <1>7, <1>8, <1>9, <1>11, <1>12 DEF EmailRight

LEMMA VerifiesRight ==
    ASSUME EmailRight, NEW t \in Tokens, Verifies(t)
    PROVE  EmailRight' /\ NewestConfirms
<1>1. page \in EmailPages \cup {NoPage}
  BY DEF EmailRight, EmailTyped, EmailTypeOK
<1>2. /\ t \in inbox /\ Confirms(t) /\ page' = page
      /\ UNCHANGED <<tokens, request, jobs, inbox, faults, queued, abandoned>>
  BY DEF Verifies
<1>3. page' \in EmailPages \cup {NoPage}
  BY <1>1, <1>2
<1> QED BY <1>2, <1>3, ConfirmsRight

LEMMA DeletesChannelRight ==
    ASSUME EmailRight, DeletesChannel
    PROVE  EmailRight' /\ NewestConfirms
<1>1. /\ email'.exists = FALSE /\ email' = NoEmail
      /\ UNCHANGED <<tokens, request, jobs, inbox, page, faults, queued, abandoned>>
  BY DEF DeletesChannel, NoEmail
<1>2. EmailTyped'
  BY <1>1 DEF EmailRight, EmailTyped, EmailTypeOK
<1>3. TokensKnown' /\ TokenIsNewest' /\ PageInOrder' /\ LinkPageIsRight'
  BY <1>1 DEF EmailRight, TokensKnown, TokenIsNewest, PageInOrder, LinkPageIsRight, MailAt, PageAt, Usable, Current
<1>4. \A r \in Requests : RequestInOrder(r)'
  BY <1>1 DEF EmailRight, RequestInOrder, MailAt, Current
<1>5. DeliveryStatusIsTrue' /\ NewestConfirms
  BY <1>1 DEF DeliveryStatusIsTrue, NewestConfirms
<1> QED BY <1>2, <1>3, <1>4, <1>5 DEF EmailRight

\* Time changes what can be done with a token, never which one it is.
LEMMA TimePasses ==
    ASSUME EmailRight, CoolsDown \/ TokenExpires
    PROVE  EmailRight' /\ NewestConfirms
<1>1. /\ email \in EmailChannels /\ email.exists = TRUE
      /\ UNCHANGED <<tokens, request, jobs, inbox, page, faults, queued, abandoned>>
  BY EmailFields DEF CoolsDown, TokenExpires
<1>2. /\ email'.exists = email.exists /\ email'.token = email.token /\ email'.verified = email.verified
      /\ email'.sent = email.sent /\ email'.expired \in {email.expired, TRUE}
  BY <1>1 DEF CoolsDown, TokenExpires, EmailChannels
<1>3. email' \in EmailChannels
  <2>1. CASE CoolsDown
    BY <1>1, <2>1, Zenon DEF CoolsDown, EmailChannels
  <2>2. CASE TokenExpires
    BY <1>1, <2>2, Zenon DEF TokenExpires, EmailChannels
  <2> QED BY <2>1, <2>2
<1>4. EmailTyped'
  BY <1>1, <1>3 DEF EmailRight, EmailTyped, EmailTypeOK
<1>5. TokensKnown' /\ TokenIsNewest' /\ PageInOrder'
  BY <1>1, <1>2 DEF EmailRight, TokensKnown, TokenIsNewest, PageInOrder, MailAt, PageAt
<1>6. LinkPageIsRight'
  BY <1>1, <1>2 DEF EmailRight, LinkPageIsRight, PageAt, Usable, Current
<1>7. \A r \in Requests : RequestInOrder(r)'
  BY <1>1, <1>2 DEF EmailRight, RequestInOrder, MailAt, Current
<1>8. DeliveryStatusIsTrue' /\ NewestConfirms
  BY <1>1, <1>2 DEF EmailRight, DeliveryStatusIsTrue, NewestConfirms, AtWork, MailAt
<1> QED BY <1>4, <1>5, <1>6, <1>7, <1>8 DEF EmailRight

\* The worker brings mails of tokens that were made.
LEMMA WorkerStep ==
    ASSUME EmailRight, jobs' \subseteq Jobs, \A j \in jobs' : j.token \in 1 .. tokens,
           inbox \subseteq inbox', inbox' \subseteq 1 .. tokens,
           faults' \in 0 .. MaxFaults, UNCHANGED <<email, tokens, request, page, queued, abandoned>>
    PROVE  EmailRight' /\ NewestConfirms
<1>1. inbox' \subseteq Tokens
  BY EmailFields DEF Tokens
<1>2. EmailTyped'
  BY <1>1 DEF EmailRight, EmailTyped, EmailTypeOK
<1>3. TokensKnown' /\ TokenIsNewest' /\ PageInOrder' /\ LinkPageIsRight'
  BY DEF EmailRight, TokensKnown, TokenIsNewest, PageInOrder, LinkPageIsRight, MailAt, PageAt, Usable, Current
<1>4. \A r \in Requests : RequestInOrder(r)'
  BY DEF EmailRight, RequestInOrder, MailAt, Current
<1>5. DeliveryStatusIsTrue' /\ NewestConfirms
  BY DEF EmailRight, DeliveryStatusIsTrue, NewestConfirms, AtWork, MailAt
<1> QED BY <1>2, <1>3, <1>4, <1>5 DEF EmailRight

LEMMA WorkerRight ==
    ASSUME EmailRight, NEW j \in jobs, Takes(j) \/ SendsMail(j) \/ SendFails(j)
    PROVE  EmailRight' /\ NewestConfirms
<1>1. /\ j \in Jobs /\ j.token \in 1 .. tokens /\ jobs \subseteq Jobs /\ inbox \subseteq 1 .. tokens
      /\ \A k \in jobs : k.token \in 1 .. tokens
      /\ faults \in 0 .. MaxFaults
  BY DEF EmailRight, EmailTyped, EmailTypeOK, TokensKnown
<1>2. faults' \in 0 .. MaxFaults /\ UNCHANGED <<email, tokens, request, page, queued, abandoned>>
  BY <1>1, EmailAssumption DEF Takes, SendsMail, SendFails, Faults
<1>3. inbox \subseteq inbox' /\ inbox' \subseteq 1 .. tokens
  BY <1>1 DEF Takes, SendsMail, SendFails
<1>4. jobs' \subseteq Jobs /\ \A k \in jobs' : k.token \in 1 .. tokens
  <2>1. CASE Takes(j)
    <3> DEFINE k == [j EXCEPT !.pc = "sending"]
    <3>1. k \in Jobs /\ k.token = j.token
      BY <1>1 DEF Jobs
    <3>2. jobs' \subseteq jobs \cup {k}
      BY <2>1 DEF Takes
    <3> HIDE DEF k
    <3> QED BY <1>1, <3>1, <3>2
  <2>2. CASE SendsMail(j)
    BY <1>1, <2>2 DEF SendsMail
  <2>3. CASE SendFails(j)
    <3> DEFINE k == [j EXCEPT !.pc = "waiting", !.attempt = @ + 1]
    <3>1. CASE j.attempt < MaxTries
      <4>1. k \in Jobs
        <5>1. j.attempt + 1 \in 1 .. MaxTries
          BY <1>1, <3>1, EmailAssumption DEF Jobs
        <5> QED BY <1>1, <5>1, Zenon DEF Jobs
      <4>3. k.token = j.token
        BY <1>1 DEF Jobs
      <4>2. jobs' \subseteq jobs \cup {k}
        BY <2>3 DEF SendFails
      <4> HIDE DEF k
      <4> QED BY <1>1, <4>1, <4>2, <4>3
    <3>2. CASE ~(j.attempt < MaxTries)
      BY <1>1, <2>3, <3>2 DEF SendFails
    <3> QED BY <3>1, <3>2
  <2> QED BY <2>1, <2>2, <2>3
<1> QED BY <1>2, <1>3, <1>4, WorkerStep

\* The page goes on as g, with the token it has from a mail; it says that the
\* link is good only if the channel is verified, and dead only if it is.
LEMMA PageStep ==
    ASSUME EmailRight, NEW g \in EmailPages, page' = g, g.token \in inbox,
           g.pc \in {"good", "verified"} /\ email.exists => email.verified,
           g.pc = "dead" => ~Usable(g.token),
           faults' \in 0 .. MaxFaults, UNCHANGED <<email, tokens, request, jobs, inbox, queued, abandoned>>
    PROVE  EmailRight' /\ NewestConfirms
<1>1. EmailTyped'
  BY DEF EmailRight, EmailTyped, EmailTypeOK
<1>2. TokensKnown' /\ TokenIsNewest'
  BY DEF EmailRight, TokensKnown, TokenIsNewest, MailAt, PageAt
<1>3. PageInOrder' /\ LinkPageIsRight'
  BY DEF PageInOrder, LinkPageIsRight, PageAt, Usable, Current
<1>4. \A r \in Requests : RequestInOrder(r)'
  BY DEF EmailRight, RequestInOrder, MailAt, Current
<1>5. DeliveryStatusIsTrue' /\ NewestConfirms
  BY DEF EmailRight, DeliveryStatusIsTrue, NewestConfirms, AtWork, MailAt
<1> QED BY <1>1, <1>2, <1>3, <1>4, <1>5 DEF EmailRight

LEMMA OpensLinkRight ==
    ASSUME EmailRight, NEW t \in Tokens, OpensLink(t)
    PROVE  EmailRight' /\ NewestConfirms
<1> DEFINE g == [token |-> t, pc |-> "loading"]
<1>1. g \in EmailPages /\ g.token = t /\ g.pc = "loading"
  BY DEF EmailPages
<1>2. t \in inbox /\ page' = g /\ UNCHANGED <<email, tokens, request, jobs, inbox, faults, queued, abandoned>>
  BY DEF OpensLink
<1>3. faults \in 0 .. MaxFaults
  BY DEF EmailRight, EmailTyped, EmailTypeOK
<1> HIDE DEF g
<1> QED BY <1>1, <1>2, <1>3, PageStep

\* The page as it turns to pc.
LEMMA TurnsTyped ==
    ASSUME EmailRight, ~PageAt("closed"), NEW pc \in {"loading", "pending", "good", "verified", "dead"}, Turns(pc)
    PROVE  page' \in EmailPages /\ page'.pc = pc /\ page'.token = page.token /\ page.token \in inbox
<1>1. page \in EmailPages /\ page.token \in inbox
  BY EmailFields DEF EmailRight, TokensKnown
<1> QED BY <1>1 DEF Turns, EmailPages

LEMMA PageRight ==
    ASSUME EmailRight, PreviewShows \/ CallVerifies \/ CallAnswers \/ CallFails
    PROVE  EmailRight' /\ NewestConfirms
<1>1. faults \in 0 .. MaxFaults
  BY DEF EmailRight, EmailTyped, EmailTypeOK
<1>2. ~PageAt("closed")
  BY DEF PreviewShows, CallVerifies, CallAnswers, CallFails, PageAt
<1>3. CASE PreviewShows
  <2>1. PICK pc \in {"pending", "dead"} : Turns(pc) /\ (pc = "dead" => ~Usable(page.token))
    BY <1>3 DEF PreviewShows
  <2>2. UNCHANGED <<email, tokens, request, jobs, inbox, faults, queued, abandoned>>
    BY <1>3 DEF PreviewShows
  <2> QED BY <1>1, <1>2, <2>1, <2>2, TurnsTyped, PageStep
<1>4. CASE CallVerifies
  <2>1. CASE Confirms(page.token) /\ Turns("good")
    <3>1. page' \in EmailPages /\ page'.pc = "good" /\ page'.token = page.token /\ page.token \in inbox
      BY <1>2, <2>1, TurnsTyped
    <3>2. UNCHANGED <<tokens, request, jobs, inbox, faults, queued, abandoned>>
      BY <1>4 DEF CallVerifies
    <3> QED BY <2>1, <3>1, <3>2, ConfirmsRight
  <2>2. CASE ~Usable(page.token) /\ Turns("dead") /\ UNCHANGED email
    <3>1. UNCHANGED <<email, tokens, request, jobs, inbox, faults, queued, abandoned>>
      BY <1>4, <2>2 DEF CallVerifies
    <3> QED BY <1>1, <1>2, <2>2, <3>1, TurnsTyped, PageStep
  <2> QED BY <1>4, <2>1, <2>2 DEF CallVerifies
<1>5. CASE CallAnswers
  <2>1. PageAt("good") /\ Turns("verified") /\ UNCHANGED <<email, tokens, request, jobs, inbox, faults, queued, abandoned>>
    BY <1>5 DEF CallAnswers
  <2>2. email.exists => email.verified
    BY <2>1 DEF EmailRight, PageInOrder
  <2> QED BY <1>1, <1>2, <2>1, <2>2, TurnsTyped, PageStep
<1>6. CASE CallFails
  <2>1. Turns("pending") /\ UNCHANGED <<email, tokens, request, jobs, inbox, queued, abandoned>>
    BY <1>6 DEF CallFails
  <2>2. faults' \in 0 .. MaxFaults
    BY <1>1, <1>6, EmailAssumption DEF CallFails, Faults
  <2> QED BY <1>2, <2>1, <2>2, TurnsTyped, PageStep
<1> QED BY <1>3, <1>4, <1>5, <1>6

LEMMA EmailStep ==
    ASSUME EmailRight, [EmailNext]_emailVars
    PROVE  EmailRight' /\ [NewestConfirms]_emailVars
<1>1. CASE EmailNext
  BY <1>1, CreatesRight, RotatesRight, EnqueuesRight, EnqueueFailsRight, AcknowledgesRight, ClearsRight,
     RequestDiesRight, VerifiesRight, DeletesChannelRight, TimePasses, WorkerRight, OpensLinkRight, PageRight
     DEF EmailNext
<1>2. CASE UNCHANGED emailVars
  <2>1. EmailTyped'
    BY <1>2 DEF emailVars, EmailRight, EmailTyped, EmailTypeOK
  <2>2. TokensKnown' /\ TokenIsNewest' /\ PageInOrder' /\ LinkPageIsRight'
    BY <1>2 DEF emailVars, EmailRight, TokensKnown, TokenIsNewest, PageInOrder, LinkPageIsRight, MailAt, PageAt, Usable, Current
  <2>3. \A r \in Requests : RequestInOrder(r)'
    BY <1>2 DEF emailVars, EmailRight, RequestInOrder, MailAt, Current
  <2>4. DeliveryStatusIsTrue'
    BY <1>2 DEF emailVars, EmailRight, DeliveryStatusIsTrue, AtWork, MailAt
  <2> QED BY <1>2, <2>1, <2>2, <2>3, <2>4 DEF EmailRight
<1> QED BY <1>1, <1>2

LEMMA EmailInitRight == EmailInit => EmailRight
<1> SUFFICES ASSUME EmailInit PROVE EmailRight
  OBVIOUS
<1>1. NoEmail.exists = FALSE /\ NoRequest.pc = "none" /\ NoPage.pc = "closed"
  BY DEF NoEmail, NoRequest, NoPage
<1>2. /\ email.exists = FALSE /\ page.pc = "closed" /\ \A r \in Requests : request[r] = NoRequest
      /\ request \in [Requests -> EmailRequests \cup {NoRequest}]
  BY <1>1 DEF EmailInit
<1>3. EmailTyped
  BY <1>2, EmailAssumption DEF EmailInit, EmailTyped, EmailTypeOK
<1>4. TokensKnown /\ TokenIsNewest /\ PageInOrder /\ LinkPageIsRight /\ DeliveryStatusIsTrue
  BY <1>1, <1>2 DEF EmailInit, TokensKnown, TokenIsNewest, PageInOrder, LinkPageIsRight, DeliveryStatusIsTrue, MailAt, PageAt
<1>5. \A r \in Requests : RequestInOrder(r)
  BY <1>1, <1>2 DEF RequestInOrder, MailAt
<1> QED BY <1>3, <1>4, <1>5 DEF EmailRight

-----------------------------------------------------------------------------
(* Telegram: what the steps have in common *)

LEMMA DeliveryFields ==
    ASSUME TelegramRight, NEW d \in Deliveries
    PROVE  IF DeliveryAt(d, "none") THEN delivery[d] = NoDelivery
                                    ELSE delivery[d] \in DeliveryRow /\ delivery[d].update \in Updates
<1>1. NoDelivery.pc = "none"
  BY DEF NoDelivery
<1> QED BY <1>1 DEF TelegramRight, TelegramTyped, DeliveryAt, DeliveryRow

LEMMA ConnectionFields ==
    ASSUME TelegramRight, NEW k \in Connections, ConnectionAt(k, "locked")
    PROVE  /\ connection[k] \in ConnectionRow /\ connection[k].update \in Updates
           /\ connection[k].project \in Workspaces
<1>1. NoConnection.pc = "none"
  BY DEF NoConnection
<1> QED BY <1>1 DEF TelegramRight, TelegramTyped, ConnectionAt, ConnectionRow

LEMMA ChallengeFields ==
    ASSUME TelegramRight, NEW u \in Updates
    PROVE  IF Row(u) THEN challenge[u] \in Challenges ELSE challenge[u] = NoChallenge
<1>1. \A c \in Challenges : c.id # "none"
  BY TelegramAssumption DEF Challenges
<1>2. NoChallenge.id = "none"
  BY DEF NoChallenge
<1> QED BY <1>1, <1>2 DEF TelegramRight, TelegramTyped, Row

\* The types, and what holds of an update that is not delivered any more.
TelegramBase == TelegramTyped /\ AnsweredHasALink

LEMMA TelegramBaseKept ==
    ASSUME TelegramRight,
           unanswered' \subseteq unanswered, unanswered \subseteq unanswered' \cup linked' \cup dismissed',
           linked \subseteq linked', linked' \subseteq Updates,
           dismissed \subseteq dismissed', dismissed' \subseteq Updates,
           challenge' \in [Updates -> Challenges \cup {NoChallenge}],
           delivery' \in [Deliveries -> DeliveryRow \cup {NoDelivery}],
           connection' \in [Connections -> ConnectionRow \cup {NoConnection}],
           member' \in BOOLEAN, channels' \subseteq Workspaces, failures' \in 0 .. MaxFailures,
           made' \in [Updates -> Nat]
    PROVE  TelegramBase'
<1>1. NoDelivery.pc = "none" /\ NoConnection.pc = "none"
  BY DEF NoDelivery, NoConnection
<1>2. \A d \in Deliveries : delivery'[d].pc = "none" \/ delivery'[d].update \in Updates
  BY <1>1 DEF DeliveryRow
<1>3. \A k \in Connections : connection'[k].pc = "none" \/ connection'[k].update \in Updates
  BY <1>1 DEF ConnectionRow
<1>4. AnsweredHasALink'
  BY DEF TelegramRight, AnsweredHasALink
<1>5. unanswered' \subseteq Updates
  BY DEF TelegramRight, TelegramTyped, TelegramTypeOK
<1> QED BY <1>2, <1>3, <1>4, <1>5 DEF TelegramBase, TelegramTyped, TelegramTypeOK, DeliveryAt, ConnectionAt

\* A delivery that goes on as n, while links and connections stay.
LEMMA DeliveryStep ==
    ASSUME TelegramRight, NEW d \in Deliveries, NEW n \in DeliveryRow \cup {NoDelivery},
           delivery' = [delivery EXCEPT ![d] = n],
           n.pc = "answer" => n.update \in linked \cup dismissed',
           n.pc \in {"send", "mark"} /\ challenge[n.update].id = d => ~challenge[n.update].delivered,
           unanswered' \subseteq unanswered, unanswered \subseteq unanswered' \cup linked \cup dismissed',
           dismissed \subseteq dismissed', dismissed' \subseteq Updates, failures' \in 0 .. MaxFailures,
           UNCHANGED <<challenge, connection, member, channels, linked, made>>
    PROVE  TelegramRight' /\ MemberConnects
<1>1. delivery' \in [Deliveries -> DeliveryRow \cup {NoDelivery}] /\ delivery'[d] = n
      /\ \A e \in Deliveries \ {d} : delivery'[e] = delivery[e]
  BY DEF TelegramRight, TelegramTyped
<1>2. TelegramBase'
  BY <1>1, TelegramBaseKept DEF TelegramRight, TelegramTyped, TelegramTypeOK
<1>3. \A e \in Deliveries : DeliveryInOrder(e)'
  BY <1>1 DEF TelegramRight, DeliveryInOrder, DeliveryAt, Own, Row
<1>4. \A u \in Updates : ChallengeInOrder(u)'
  BY DEF TelegramRight, ChallengeInOrder, Row
<1>5. \A k \in Connections : ConnectionInOrder(k)'
  BY DEF TelegramRight, ConnectionInOrder, ConnectionAt, Row
<1> QED BY <1>2, <1>3, <1>4, <1>5 DEF TelegramRight, TelegramBase, MemberConnects

\* What is made of u fits a challenge that becomes c.
MadeFits(u, c) ==
    /\ made' \in [Updates -> Nat] /\ made'[u] <= 1 /\ \A w \in Updates \ {u} : made'[w] = made[w]
    /\ c.id # "none" /\ ~c.consumed => made'[u] = 0

\* So do the deliveries: each is where it was, gives up or has reason to
\* answer, or is sending a link of u, which is not marked if it is its own.
DeliveriesFit(u, c) ==
    /\ delivery' \in [Deliveries -> DeliveryRow \cup {NoDelivery}]
    /\ \A d \in Deliveries :
          \/ delivery'[d] = delivery[d]
          \/ delivery'[d].pc = "none"
          \/ delivery'[d].pc = "answer" /\ delivery'[d].update \in linked' \cup dismissed'
          \/ delivery'[d].pc \in {"send", "mark"} /\ delivery'[d].update = u
    /\ \A d \in Deliveries :
          delivery'[d].pc \in {"send", "mark"} /\ delivery'[d].update = u /\ c.id = d => ~c.delivered

\* The challenge of u that becomes c; while a connection holds it, it stays
\* what the connection counts on.
LEMMA ChallengeStep ==
    ASSUME TelegramRight, NEW u \in Updates, NEW c \in Challenges \cup {NoChallenge},
           challenge' = [challenge EXCEPT ![u] = c], MadeFits(u, c), DeliveriesFit(u, c),
           c.id # "none" /\ c.delivered => u \in linked',
           Locked(u) => c.id # "none" /\ c.delivered /\ ~c.consumed,
           linked \subseteq linked', linked' \subseteq Updates,
           dismissed \subseteq dismissed', dismissed' \subseteq Updates,
           failures' \in 0 .. MaxFailures, UNCHANGED <<unanswered, connection, member, channels>>
    PROVE  TelegramRight' /\ MemberConnects
<1> USE DEF MadeFits, DeliveriesFit
<1>1. challenge' \in [Updates -> Challenges \cup {NoChallenge}] /\ challenge'[u] = c
      /\ \A w \in Updates \ {u} : challenge'[w] = challenge[w]
  BY DEF TelegramRight, TelegramTyped
<1>2. TelegramBase'
  BY <1>1, TelegramBaseKept DEF TelegramRight, TelegramTyped, TelegramTypeOK
<1>3. \A d \in Deliveries : DeliveryInOrder(d)'
  <2> SUFFICES ASSUME NEW d \in Deliveries PROVE DeliveryInOrder(d)'
    OBVIOUS
  <2>1. DeliveryInOrder(d) /\ (delivery[d].pc # "none" => delivery[d].update \in Updates)
    BY DeliveryFields DEF TelegramRight, DeliveryAt
  <2>2. delivery'[d].pc = "answer" => delivery'[d].update \in linked' \cup dismissed'
    BY <2>1 DEF DeliveryInOrder, DeliveryAt
  <2>3. CASE delivery'[d].pc \in {"send", "mark"} /\ delivery'[d].update = u
    BY <1>1, <2>2, <2>3, TelegramAssumption DEF DeliveryInOrder, DeliveryAt, Own, Row
  <2>4. CASE ~(delivery'[d].pc \in {"send", "mark"} /\ delivery'[d].update = u)
    BY <1>1, <2>1, <2>2, <2>4 DEF DeliveryInOrder, DeliveryAt, Own, Row
  <2> QED BY <2>3, <2>4
<1>4. \A w \in Updates : ChallengeInOrder(w)'
  BY <1>1 DEF TelegramRight, ChallengeInOrder, Row
<1>5. \A k \in Connections : ConnectionInOrder(k)'
  <2> SUFFICES ASSUME NEW k \in Connections, ConnectionAt(k, "locked") PROVE ConnectionInOrder(k)'
    BY DEF ConnectionInOrder, ConnectionAt
  <2>1. ConnectionInOrder(k) /\ connection[k].update \in Updates
    BY ConnectionFields DEF TelegramRight
  <2>2. CASE connection[k].update = u
    BY <1>1, <2>1, <2>2 DEF ConnectionInOrder, ConnectionAt, Row, Locked
  <2>3. CASE connection[k].update # u
    BY <1>1, <2>1, <2>3 DEF ConnectionInOrder, ConnectionAt, Row
  <2> QED BY <2>2, <2>3
<1> QED BY <1>2, <1>3, <1>4, <1>5 DEF TelegramRight, TelegramBase, MemberConnects

-----------------------------------------------------------------------------
(* Deliveries *)

\* A delivery that succeeds, or is refused.
LEMMA DeliveryMoves ==
    ASSUME TelegramRight, NEW d \in Deliveries, ~DeliveryAt(d, "none"), NEW pc \in {"claim", "send", "mark", "answer"}
    PROVE  /\ NoDelivery \in DeliveryRow \cup {NoDelivery} /\ NoDelivery.pc = "none"
           /\ [delivery[d] EXCEPT !.pc = pc] \in DeliveryRow
           /\ [delivery[d] EXCEPT !.pc = pc].pc = pc
           /\ [delivery[d] EXCEPT !.pc = pc].update = delivery[d].update
<1>1. delivery[d] \in DeliveryRow
  BY DeliveryFields
<1> QED BY <1>1 DEF DeliveryRow, NoDelivery

LEMMA ExceptIsTyped ==
    ASSUME TelegramRight, NEW d \in Deliveries, NEW pc, delivery' = [delivery EXCEPT ![d].pc = pc]
    PROVE  delivery' = [delivery EXCEPT ![d] = [delivery[d] EXCEPT !.pc = pc]]
BY DEF TelegramRight, TelegramTyped

LEMMA DeliversRight ==
    ASSUME TelegramRight, NEW d \in Deliveries, NEW u \in Updates, Delivers(d, u)
    PROVE  TelegramRight' /\ MemberConnects
<1> DEFINE n == [pc |-> "claim", update |-> u]
<1>1. n \in DeliveryRow /\ n.pc = "claim"
  BY DEF DeliveryRow
<1>2. /\ delivery' = [delivery EXCEPT ![d] = n]
      /\ UNCHANGED <<unanswered, dismissed, challenge, connection, member, channels, failures, linked, made>>
  BY DEF Delivers
<1>3. dismissed \subseteq Updates /\ failures \in 0 .. MaxFailures
  BY DEF TelegramRight, TelegramTyped, TelegramTypeOK
<1> HIDE DEF n
<1> QED BY <1>1, <1>2, <1>3, DeliveryStep

LEMMA AnswersRight ==
    ASSUME TelegramRight, NEW d \in Deliveries, Answers(d)
    PROVE  TelegramRight' /\ MemberConnects
<1>1. /\ delivery' = [delivery EXCEPT ![d] = NoDelivery] /\ unanswered' = unanswered \ {delivery[d].update}
      /\ UNCHANGED <<dismissed, challenge, connection, member, channels, failures, linked, made>>
  BY DEF Answers
<1>2. delivery[d].update \in linked \cup dismissed
  BY DEF Answers, TelegramRight, DeliveryInOrder
<1>3. dismissed \subseteq Updates /\ failures \in 0 .. MaxFailures
  BY DEF TelegramRight, TelegramTyped, TelegramTypeOK
<1>4. NoDelivery.pc = "none"
  BY DEF NoDelivery
<1> QED BY <1>1, <1>2, <1>3, <1>4, DeliveryStep

\* A delivery that stops halfway.
LEMMA RefusedRight ==
    ASSUME TelegramRight, NEW d \in Deliveries, ClaimFindsPending(d) \/ DeliveryDies(d)
    PROVE  TelegramRight' /\ MemberConnects
<1>1. /\ delivery' = [delivery EXCEPT ![d] = NoDelivery]
      /\ UNCHANGED <<unanswered, dismissed, challenge, connection, member, channels, linked, made>>
  BY DEF ClaimFindsPending, DeliveryDies, Refused
<1>2. dismissed \subseteq Updates /\ failures' \in 0 .. MaxFailures
  BY TelegramAssumption
     DEF TelegramRight, TelegramTyped, TelegramTypeOK, ClaimFindsPending, DeliveryDies, Failure
<1>3. NoDelivery.pc = "none"
  BY DEF NoDelivery
<1> QED BY <1>1, <1>2, <1>3, DeliveryStep

\* A delivery that succeeds without a link of its own.
LEMMA SucceedsRight ==
    ASSUME TelegramRight, NEW d \in Deliveries, ClaimFindsDelivered(d) \/ FindsNoBot(d)
    PROVE  TelegramRight' /\ MemberConnects
<1> DEFINE n == [delivery[d] EXCEPT !.pc = "answer"]
<1>1. ~DeliveryAt(d, "none") /\ delivery[d].update \in Updates
  BY DeliveryFields DEF ClaimFindsDelivered, FindsNoBot, DeliveryAt
<1>2. n \in DeliveryRow /\ n.pc = "answer" /\ n.update = delivery[d].update
  BY <1>1, DeliveryMoves
<1>3. delivery' = [delivery EXCEPT ![d] = n]
  BY ExceptIsTyped DEF ClaimFindsDelivered, FindsNoBot, Succeeds
<1>4. UNCHANGED <<unanswered, challenge, connection, member, channels, linked, made>>
  BY DEF ClaimFindsDelivered, FindsNoBot
<1>5. failures' \in 0 .. MaxFailures /\ dismissed \subseteq dismissed' /\ dismissed' \subseteq Updates
  BY <1>1, TelegramAssumption
     DEF TelegramRight, TelegramTyped, TelegramTypeOK, ClaimFindsDelivered, FindsNoBot, Failure
<1>6. delivery[d].update \in linked \cup dismissed'
  BY <1>1 DEF ClaimFindsDelivered, FindsNoBot, TelegramRight, ChallengeInOrder
<1> HIDE DEF n
<1> QED BY <1>2, <1>3, <1>4, <1>5, <1>6, DeliveryStep

LEMMA SendsRight ==
    ASSUME TelegramRight, NEW d \in Deliveries, Sends(d)
    PROVE  TelegramRight' /\ MemberConnects
<1> DEFINE n == [delivery[d] EXCEPT !.pc = "mark"]
<1>1. DeliveryAt(d, "send") /\ ~DeliveryAt(d, "none")
  BY DEF Sends, DeliveryAt
<1>2. n \in DeliveryRow /\ n.pc = "mark" /\ n.update = delivery[d].update
  BY <1>1, DeliveryMoves
<1>3. delivery' = [delivery EXCEPT ![d] = n]
  BY ExceptIsTyped DEF Sends
<1>4. UNCHANGED <<unanswered, dismissed, challenge, connection, member, channels, failures, linked, made>>
  BY DEF Sends
<1>5. failures \in 0 .. MaxFailures /\ dismissed \subseteq Updates
  BY DEF TelegramRight, TelegramTyped, TelegramTypeOK
<1>6. challenge[delivery[d].update].id = d => ~challenge[delivery[d].update].delivered
  BY <1>1, TelegramAssumption DEF TelegramRight, DeliveryInOrder, Own, Row
<1> HIDE DEF n
<1> QED BY <1>2, <1>3, <1>4, <1>5, <1>6, DeliveryStep

LEMMA ClaimIsThrottledRight ==
    ASSUME TelegramRight, NEW d \in Deliveries, ClaimIsThrottled(d)
    PROVE  TelegramRight' /\ MemberConnects
<1> DEFINE u == delivery[d].update
           n == [delivery[d] EXCEPT !.pc = "answer"]
<1>1. ~DeliveryAt(d, "none") /\ u \in Updates /\ ~Locked(u)
  BY DeliveryFields DEF ClaimIsThrottled, DeliveryAt
<1>2. n \in DeliveryRow /\ n.pc = "answer" /\ n.update = u
  BY <1>1, DeliveryMoves
<1>3. delivery' = [delivery EXCEPT ![d] = n]
  BY ExceptIsTyped DEF ClaimIsThrottled, Succeeds
<1>4. /\ challenge' = [challenge EXCEPT ![u] = NoChallenge] /\ dismissed' = dismissed \cup {u}
      /\ UNCHANGED <<unanswered, connection, member, channels, failures, linked, made>>
  BY DEF ClaimIsThrottled
<1>5. /\ dismissed' \subseteq Updates /\ linked \subseteq Updates /\ failures \in 0 .. MaxFailures
      /\ made \in [Updates -> Nat] /\ made[u] <= 1
      /\ delivery \in [Deliveries -> DeliveryRow \cup {NoDelivery}]
  BY <1>1, <1>4 DEF TelegramRight, TelegramTyped, TelegramTypeOK, ChallengeInOrder
<1>6. NoChallenge.id = "none"
  BY DEF NoChallenge
<1> HIDE DEF n, u
<1>7. /\ delivery' \in [Deliveries -> DeliveryRow \cup {NoDelivery}] /\ delivery'[d] = n
      /\ \A e \in Deliveries \ {d} : delivery'[e] = delivery[e]
  BY <1>2, <1>3, <1>5
<1>8. \A e \in Deliveries : \/ delivery'[e] = delivery[e]
                            \/ delivery'[e].pc = "answer" /\ delivery'[e].update \in linked' \cup dismissed'
  BY <1>2, <1>4, <1>7
<1>9. \A e \in Deliveries : ~(NoChallenge.id = e)
  BY <1>6, TelegramAssumption
<1>10. MadeFits(u, NoChallenge) /\ DeliveriesFit(u, NoChallenge)
  BY <1>4, <1>5, <1>6, <1>7, <1>8, <1>9 DEF MadeFits, DeliveriesFit
<1> QED BY <1>1, <1>4, <1>5, <1>6, <1>10, ChallengeStep

LEMMA ClaimIssuesRight ==
    ASSUME TelegramRight, NEW d \in Deliveries, ClaimIssues(d)
    PROVE  TelegramRight' /\ MemberConnects
<1> DEFINE u == delivery[d].update
           n == [delivery[d] EXCEPT !.pc = "send"]
           c == [id |-> d, age |-> 0, delivered |-> FALSE, consumed |-> FALSE]
<1>1. ~DeliveryAt(d, "none") /\ u \in Updates /\ ~Locked(u)
  BY DeliveryFields DEF ClaimIssues, DeliveryAt
<1>2. n \in DeliveryRow /\ n.pc = "send" /\ n.update = u
  BY <1>1, DeliveryMoves
<1>3. delivery' = [delivery EXCEPT ![d] = n]
  BY ExceptIsTyped DEF ClaimIssues
<1>4. /\ challenge' = [challenge EXCEPT ![u] = c] /\ made' = [made EXCEPT ![u] = 0]
      /\ UNCHANGED <<unanswered, dismissed, connection, member, channels, failures, linked>>
  BY DEF ClaimIssues
<1>5. /\ dismissed \subseteq Updates /\ linked \subseteq Updates /\ failures \in 0 .. MaxFailures
      /\ made \in [Updates -> Nat]
      /\ delivery \in [Deliveries -> DeliveryRow \cup {NoDelivery}]
  BY <1>1, <1>4 DEF TelegramRight, TelegramTyped, TelegramTypeOK
<1>6. c \in Challenges /\ c.delivered = FALSE /\ c.consumed = FALSE
  BY DEF Challenges, Ages
<1> HIDE DEF n, u, c
<1>7. /\ delivery' \in [Deliveries -> DeliveryRow \cup {NoDelivery}] /\ delivery'[d] = n
      /\ \A e \in Deliveries \ {d} : delivery'[e] = delivery[e]
  BY <1>2, <1>3, <1>5
<1>8. \A e \in Deliveries : \/ delivery'[e] = delivery[e]
                            \/ delivery'[e].pc = "send" /\ delivery'[e].update = u
  BY <1>2, <1>7
<1>9. made' \in [Updates -> Nat] /\ made'[u] = 0 /\ \A w \in Updates \ {u} : made'[w] = made[w]
  BY <1>1, <1>4, <1>5
<1>10. MadeFits(u, c) /\ DeliveriesFit(u, c)
  BY <1>6, <1>7, <1>8, <1>9 DEF MadeFits, DeliveriesFit
<1> QED BY <1>1, <1>4, <1>5, <1>6, <1>10, ChallengeStep

\* What a connection holds is delivered, so no delivery is still sending it.
LEMMA SendingIsFree ==
    ASSUME TelegramRight, NEW d \in Deliveries, DeliveryAt(d, "send") \/ DeliveryAt(d, "mark"), Own(d)
    PROVE  ~Locked(delivery[d].update) /\ ~challenge[delivery[d].update].delivered
BY DEF TelegramRight, DeliveryInOrder, ConnectionInOrder, Locked

LEMMA SendingFailsRight ==
    ASSUME TelegramRight, NEW d \in Deliveries, SendingFails(d)
    PROVE  TelegramRight' /\ MemberConnects
<1> DEFINE u == delivery[d].update
<1>1. /\ delivery' = [delivery EXCEPT ![d] = NoDelivery] /\ DeliveryAt(d, "send")
      /\ UNCHANGED <<unanswered, dismissed, connection, member, channels, linked, made>>
  BY DEF SendingFails, Refused
<1>2. /\ dismissed \subseteq Updates /\ linked \subseteq Updates /\ failures' \in 0 .. MaxFailures
      /\ made \in [Updates -> Nat] /\ delivery \in [Deliveries -> DeliveryRow \cup {NoDelivery}]
  BY TelegramAssumption DEF TelegramRight, TelegramTyped, TelegramTypeOK, SendingFails, Failure
<1>3. NoDelivery.pc = "none" /\ NoChallenge.id = "none"
  BY DEF NoDelivery, NoChallenge
<1>4. CASE challenge' = challenge
  BY <1>1, <1>2, <1>3, <1>4, DeliveryStep
<1>5. CASE Own(d) /\ challenge' = [challenge EXCEPT ![u] = NoChallenge]
  <2>1. u \in Updates /\ ~Locked(u) /\ made[u] <= 1
    BY <1>1, <1>5, DeliveryFields, SendingIsFree DEF DeliveryAt, TelegramRight, ChallengeInOrder
  <2> HIDE DEF u
  <2>2. /\ delivery' \in [Deliveries -> DeliveryRow \cup {NoDelivery}] /\ delivery'[d] = NoDelivery
        /\ \A e \in Deliveries \ {d} : delivery'[e] = delivery[e]
    BY <1>1, <1>2
  <2>3. \A e \in Deliveries : delivery'[e] = delivery[e] \/ delivery'[e].pc = "none"
    BY <1>3, <2>2
  <2>4. \A e \in Deliveries : ~(NoChallenge.id = e)
    BY <1>3, TelegramAssumption
  <2>5. MadeFits(u, NoChallenge) /\ DeliveriesFit(u, NoChallenge)
    BY <1>1, <1>2, <1>3, <2>1, <2>2, <2>3, <2>4 DEF MadeFits, DeliveriesFit
  <2> QED BY <1>1, <1>2, <1>3, <1>5, <2>1, <2>5, ChallengeStep
<1> QED BY <1>4, <1>5 DEF SendingFails

LEMMA MarksRight ==
    ASSUME TelegramRight, NEW d \in Deliveries, Marks(d)
    PROVE  TelegramRight' /\ MemberConnects
<1> DEFINE u == delivery[d].update
<1>1. /\ DeliveryAt(d, "mark") /\ ~DeliveryAt(d, "none") /\ u \in Updates
      /\ UNCHANGED <<unanswered, dismissed, connection, member, channels, failures, made>>
  BY DeliveryFields DEF Marks, DeliveryAt
<1>2. /\ dismissed \subseteq Updates /\ linked \subseteq Updates /\ failures \in 0 .. MaxFailures
      /\ made \in [Updates -> Nat] /\ delivery \in [Deliveries -> DeliveryRow \cup {NoDelivery}]
      /\ challenge \in [Updates -> Challenges \cup {NoChallenge}]
  BY DEF TelegramRight, TelegramTyped, TelegramTypeOK
<1>3. CASE Own(d) /\ Pending(u)
  <2> DEFINE n == [delivery[d] EXCEPT !.pc = "answer"]
             c == [challenge[u] EXCEPT !.delivered = TRUE]
  <2>1. n \in DeliveryRow /\ n.pc = "answer" /\ n.update = u
    BY <1>1, DeliveryMoves
  <2>2. /\ challenge' = [challenge EXCEPT ![u].delivered = TRUE] /\ linked' = linked \cup {u}
        /\ Succeeds(d)
    BY <1>3 DEF Marks
  <2>3. delivery' = [delivery EXCEPT ![d] = n] /\ challenge' = [challenge EXCEPT ![u] = c]
    BY <1>1, <1>2, <2>2, ExceptIsTyped DEF Succeeds
  <2>4. challenge[u] \in Challenges /\ challenge[u].id = d
    BY <1>1, <1>3, ChallengeFields DEF Own
  <2>5. c \in Challenges
    BY <2>4, Zenon DEF Challenges
  <2>6. c.id = d /\ c.consumed = challenge[u].consumed
    BY <2>4 DEF Challenges
  <2>7. ~Locked(u) /\ made[u] <= 1 /\ (~challenge[u].consumed => made[u] = 0)
    BY <1>1, <1>3, SendingIsFree DEF TelegramRight, ChallengeInOrder, Own
  <2> HIDE DEF n, c, u
  <2>8. /\ delivery' \in [Deliveries -> DeliveryRow \cup {NoDelivery}] /\ delivery'[d] = n
        /\ \A e \in Deliveries \ {d} : delivery'[e] = delivery[e]
    BY <1>2, <2>1, <2>3
  <2>9. \A e \in Deliveries : \/ delivery'[e] = delivery[e]
                              \/ delivery'[e].pc = "answer" /\ delivery'[e].update \in linked' \cup dismissed'
    BY <2>1, <2>2, <2>8
  <2>10. \A e \in Deliveries : ~(delivery'[e].pc \in {"send", "mark"} /\ delivery'[e].update = u /\ c.id = e)
    BY <2>1, <2>6, <2>8
  <2>11. linked \subseteq linked' /\ linked' \subseteq Updates /\ u \in linked'
    BY <1>1, <1>2, <2>2
  <2>12. MadeFits(u, c) /\ DeliveriesFit(u, c)
    BY <1>1, <1>2, <2>6, <2>7, <2>8, <2>9, <2>10 DEF MadeFits, DeliveriesFit
  <2> QED BY <1>1, <1>2, <2>3, <2>5, <2>7, <2>11, <2>12, ChallengeStep
<1>4. CASE ~(Own(d) /\ Pending(u))
  <2>1. delivery' = [delivery EXCEPT ![d] = NoDelivery] /\ UNCHANGED <<challenge, linked>>
    BY <1>4 DEF Marks, Refused
  <2>2. NoDelivery.pc = "none"
    BY DEF NoDelivery
  <2> QED BY <1>1, <1>2, <2>1, <2>2, DeliveryStep
<1> QED BY <1>3, <1>4

-----------------------------------------------------------------------------
(* Time, and connections *)

LEMMA CleansUpRight ==
    ASSUME TelegramRight, NEW u \in Updates, CleansUp(u)
    PROVE  TelegramRight' /\ MemberConnects
<1>1. /\ challenge' = [challenge EXCEPT ![u] = NoChallenge] /\ ~Locked(u)
      /\ UNCHANGED <<unanswered, dismissed, delivery, connection, member, channels, failures, linked, made>>
  BY DEF CleansUp
<1>2. /\ dismissed \subseteq Updates /\ linked \subseteq Updates /\ failures \in 0 .. MaxFailures
      /\ made \in [Updates -> Nat] /\ made[u] <= 1
      /\ delivery \in [Deliveries -> DeliveryRow \cup {NoDelivery}]
  BY DEF TelegramRight, TelegramTyped, TelegramTypeOK, ChallengeInOrder
<1>3. NoChallenge.id = "none" /\ \A e \in Deliveries : ~(NoChallenge.id = e)
  BY TelegramAssumption DEF NoChallenge
<1>4. MadeFits(u, NoChallenge) /\ DeliveriesFit(u, NoChallenge)
  BY <1>1, <1>2, <1>3 DEF MadeFits, DeliveriesFit
<1> QED BY <1>1, <1>2, <1>3, <1>4, ChallengeStep

LEMMA AgesRight ==
    ASSUME TelegramRight, NEW u \in Updates, Older(u) \/ OutlivesLease(u)
    PROVE  TelegramRight' /\ MemberConnects
<1>1. /\ Row(u) /\ challenge[u] \in Challenges /\ challenge[u].age \in Nat /\ challenge[u].age < Expired
      /\ UNCHANGED <<unanswered, dismissed, delivery, connection, member, channels, linked, made>>
  BY ChallengeFields DEF Older, OutlivesLease, Challenges, Ages, Expired, Lease
<1>2. /\ dismissed \subseteq Updates /\ linked \subseteq Updates /\ failures' \in 0 .. MaxFailures
      /\ made \in [Updates -> Nat] /\ made[u] <= 1
      /\ challenge \in [Updates -> Challenges \cup {NoChallenge}]
      /\ delivery \in [Deliveries -> DeliveryRow \cup {NoDelivery}]
  BY TelegramAssumption
     DEF TelegramRight, TelegramTyped, TelegramTypeOK, ChallengeInOrder, Older, OutlivesLease, Failure
<1> DEFINE c == [challenge[u] EXCEPT !.age = challenge[u].age + 1]
<1>3. challenge' = [challenge EXCEPT ![u] = c]
  BY <1>2 DEF Older, OutlivesLease
<1>4. c \in Challenges
  <2>1. challenge[u].age + 1 \in Ages
    BY <1>1 DEF Ages, Expired
  <2> QED BY <1>1, <2>1, Zenon DEF Challenges
<1>5. c.id = challenge[u].id /\ c.delivered = challenge[u].delivered /\ c.consumed = challenge[u].consumed
  BY <1>1 DEF Challenges
<1> HIDE DEF c
<1>6. Locked(u) => challenge[u].delivered /\ ~challenge[u].consumed
  BY DEF TelegramRight, ConnectionInOrder, Locked
<1>7. /\ ~challenge[u].consumed => made[u] = 0
      /\ challenge[u].delivered => u \in linked
  BY <1>1 DEF TelegramRight, ChallengeInOrder
<1>8. \A d \in Deliveries :
         delivery[d].pc \in {"send", "mark"} /\ delivery[d].update = u /\ c.id = d => ~c.delivered
  BY <1>1, <1>5 DEF TelegramRight, DeliveryInOrder, DeliveryAt, Own
<1>9. MadeFits(u, c) /\ DeliveriesFit(u, c)
  BY <1>1, <1>2, <1>5, <1>7, <1>8 DEF MadeFits, DeliveriesFit
<1> QED BY <1>1, <1>2, <1>3, <1>4, <1>5, <1>6, <1>7, <1>9, ChallengeStep DEF Row

\* A connection that goes on as n, while everything else stays.
LEMMA ConnectionStep ==
    ASSUME TelegramRight, NEW k \in Connections, NEW n \in ConnectionRow \cup {NoConnection},
           connection' = [connection EXCEPT ![k] = n],
           n.pc = "locked" => /\ Row(n.update) /\ challenge[n.update].delivered /\ ~challenge[n.update].consumed
                              /\ n.member /\ member /\ ~Locked(n.update),
           UNCHANGED <<unanswered, dismissed, challenge, delivery, member, channels, failures, linked, made>>
    PROVE  TelegramRight' /\ MemberConnects
<1>1. connection' \in [Connections -> ConnectionRow \cup {NoConnection}] /\ connection'[k] = n
      /\ \A j \in Connections \ {k} : connection'[j] = connection[j]
  BY DEF TelegramRight, TelegramTyped
<1>2. TelegramBase'
  BY <1>1, TelegramBaseKept DEF TelegramRight, TelegramTyped, TelegramTypeOK
<1>3. (\A d \in Deliveries : DeliveryInOrder(d)') /\ (\A u \in Updates : ChallengeInOrder(u)')
  BY DEF TelegramRight, DeliveryInOrder, DeliveryAt, Own, Row, ChallengeInOrder
<1>4. \A j \in Connections : ConnectionInOrder(j)'
  BY <1>1 DEF TelegramRight, ConnectionInOrder, ConnectionAt, Row, Locked
<1> QED BY <1>2, <1>3, <1>4 DEF TelegramRight, TelegramBase, MemberConnects

LEMMA LocksChallengeRight ==
    ASSUME TelegramRight, NEW k \in Connections, NEW u \in Updates, NEW p \in Workspaces, LocksChallenge(k, u, p)
    PROVE  TelegramRight' /\ MemberConnects
<1> DEFINE n == [pc |-> "locked", update |-> u, project |-> p, member |-> TRUE]
<1>1. n \in ConnectionRow /\ n.update = u /\ n.member = TRUE
  BY DEF ConnectionRow
<1>2. /\ connection' = [connection EXCEPT ![k] = n] /\ ~Locked(u) /\ UsableChallenge(u) /\ member
      /\ UNCHANGED <<unanswered, dismissed, challenge, delivery, member, channels, failures, linked, made>>
  BY DEF LocksChallenge
<1> HIDE DEF n
<1> QED BY <1>1, <1>2, ConnectionStep DEF UsableChallenge

LEMMA ConnectFailsRight ==
    ASSUME TelegramRight, NEW k \in Connections, ConnectFails(k)
    PROVE  TelegramRight' /\ MemberConnects
<1>1. NoConnection.pc = "none"
  BY DEF NoConnection
<1> QED BY <1>1, ConnectionStep DEF ConnectFails

LEMMA ConnectsRight ==
    ASSUME TelegramRight, NEW k \in Connections, Connects(k)
    PROVE  TelegramRight' /\ MemberConnects
<1> DEFINE u == connection[k].update
           p == connection[k].project
<1>1. /\ ConnectionAt(k, "locked") /\ u \in Updates /\ p \in Workspaces /\ member /\ Row(u)
      /\ challenge[u].delivered /\ ~challenge[u].consumed /\ made[u] = 0
      /\ connection' = [connection EXCEPT ![k] = NoConnection]
      /\ UNCHANGED <<unanswered, dismissed, delivery, member, failures, linked>>
  BY ConnectionFields DEF Connects, TelegramRight, ConnectionInOrder, ChallengeInOrder
<1>2. NoConnection.pc = "none"
  BY DEF NoConnection
<1>3. CASE p \in channels
  <2>1. UNCHANGED <<channels, challenge, made>>
    BY <1>3 DEF Connects
  <2> QED BY <1>1, <1>2, <2>1, ConnectionStep
<1>4. CASE p \notin channels
  <2> DEFINE c == [challenge[u] EXCEPT !.consumed = TRUE]
  <2>1. /\ channels' = channels \cup {p} /\ made' = [made EXCEPT ![u] = @ + 1]
        /\ challenge' = [challenge EXCEPT ![u].consumed = TRUE]
    BY <1>1, <1>4 DEF Connects
  <2>2. /\ challenge[u] \in Challenges /\ made \in [Updates -> Nat]
        /\ challenge \in [Updates -> Challenges \cup {NoChallenge}]
        /\ connection \in [Connections -> ConnectionRow \cup {NoConnection}]
    BY <1>1, ChallengeFields DEF TelegramRight, TelegramTyped, TelegramTypeOK
  <2>3. challenge' = [challenge EXCEPT ![u] = c]
    BY <2>1, <2>2
  <2>4. c \in Challenges
    BY <2>2, Zenon DEF Challenges
  <2>5. c.id = challenge[u].id /\ c.delivered = challenge[u].delivered /\ c.consumed = TRUE
    BY <2>2 DEF Challenges
  <2> HIDE DEF c
  <2>6. /\ challenge' \in [Updates -> Challenges \cup {NoChallenge}] /\ challenge'[u] = c
        /\ \A w \in Updates \ {u} : challenge'[w] = challenge[w]
    BY <1>1, <2>2, <2>3, <2>4
  <2>7. /\ made' \in [Updates -> Nat] /\ made'[u] = 1
        /\ \A w \in Updates \ {u} : made'[w] = made[w]
    BY <1>1, <2>1, <2>2
  <2>8. /\ connection' \in [Connections -> ConnectionRow \cup {NoConnection}] /\ connection'[k].pc = "none"
        /\ \A j \in Connections \ {k} : connection'[j] = connection[j]
    BY <1>1, <1>2, <2>2
  <2>9. \A j \in Connections \ {k} : ConnectionAt(j, "locked") => connection[j].update # u
    BY <1>1 DEF TelegramRight, ConnectionInOrder
  <2>10. TelegramBase'
    BY <1>1, <2>1, <2>6, <2>7, <2>8, TelegramBaseKept DEF TelegramRight, TelegramTyped, TelegramTypeOK
  <2> HIDE DEF u
  <2>11. \A d \in Deliveries : DeliveryInOrder(d)'
    BY <1>1, <2>5, <2>6, DeliveryFields DEF TelegramRight, DeliveryInOrder, DeliveryAt, Own, Row
  <2>12. \A w \in Updates : ChallengeInOrder(w)'
    BY <1>1, <2>5, <2>6, <2>7 DEF TelegramRight, ChallengeInOrder, Row
  <2>13. \A j \in Connections : ConnectionInOrder(j)'
    <3> SUFFICES ASSUME NEW j \in Connections, ConnectionAt(j, "locked")' PROVE ConnectionInOrder(j)'
      BY DEF ConnectionInOrder
    <3>1. j # k /\ connection'[j] = connection[j] /\ ConnectionAt(j, "locked")
      BY <2>8 DEF ConnectionAt
    <3>2. connection[j].update # u /\ challenge'[connection[j].update] = challenge[connection[j].update]
      BY <2>6, <2>9, <3>1, ConnectionFields
    <3> QED BY <1>1, <2>8, <3>1, <3>2 DEF TelegramRight, ConnectionInOrder, ConnectionAt, Row
  <2> QED BY <1>1, <2>10, <2>11, <2>12, <2>13 DEF TelegramRight, TelegramBase, MemberConnects
<1> QED BY <1>3, <1>4

\* Members and destinations that go; who connects keeps his membership.
LEMMA OthersRight ==
    ASSUME TelegramRight, LosesMembership \/ \E p \in Workspaces : DeletesDestination(p)
    PROVE  TelegramRight' /\ MemberConnects
<1>1. /\ UNCHANGED <<unanswered, dismissed, challenge, delivery, connection, failures, linked, made>>
      /\ channels' \subseteq channels /\ member' \in BOOLEAN
      /\ member' = member \/ ~MemberLocked
  BY DEF LosesMembership, DeletesDestination, TelegramRight, TelegramTyped, TelegramTypeOK
<1>2. TelegramBase'
  BY <1>1, TelegramBaseKept DEF TelegramRight, TelegramTyped, TelegramTypeOK
<1>3. (\A d \in Deliveries : DeliveryInOrder(d)') /\ (\A u \in Updates : ChallengeInOrder(u)')
  BY <1>1 DEF TelegramRight, DeliveryInOrder, DeliveryAt, Own, Row, ChallengeInOrder
<1>4. \A k \in Connections : ConnectionInOrder(k)'
  BY <1>1 DEF TelegramRight, ConnectionInOrder, ConnectionAt, Row, MemberLocked
<1> QED BY <1>1, <1>2, <1>3, <1>4 DEF TelegramRight, TelegramBase, MemberConnects

LEMMA TelegramStep ==
    ASSUME TelegramRight, [TelegramNext]_telegramVars
    PROVE  TelegramRight' /\ [MemberConnects]_telegramVars
<1>1. CASE TelegramNext
  BY <1>1, DeliversRight, AnswersRight, RefusedRight, SucceedsRight, SendsRight, ClaimIsThrottledRight, ClaimIssuesRight,
     SendingFailsRight, MarksRight, CleansUpRight, AgesRight, LocksChallengeRight, ConnectFailsRight, ConnectsRight,
     OthersRight DEF TelegramNext, Handles, Connecting
<1>2. CASE UNCHANGED telegramVars
  <2>1. TelegramBase'
    BY <1>2, TelegramBaseKept DEF telegramVars, TelegramRight, TelegramTyped, TelegramTypeOK
  <2>2. (\A d \in Deliveries : DeliveryInOrder(d)') /\ (\A u \in Updates : ChallengeInOrder(u)')
    BY <1>2 DEF telegramVars, TelegramRight, DeliveryInOrder, DeliveryAt, Own, Row, ChallengeInOrder
  <2>3. \A k \in Connections : ConnectionInOrder(k)'
    BY <1>2 DEF telegramVars, TelegramRight, ConnectionInOrder, ConnectionAt, Row
  <2> QED BY <1>2, <2>1, <2>2, <2>3 DEF TelegramRight, TelegramBase
<1> QED BY <1>1, <1>2

LEMMA TelegramInitRight == TelegramInit => TelegramRight
<1> SUFFICES ASSUME TelegramInit PROVE TelegramRight
  OBVIOUS
<1>1. NoChallenge.id = "none" /\ NoDelivery.pc = "none" /\ NoConnection.pc = "none"
  BY DEF NoChallenge, NoDelivery, NoConnection
<1>2. TelegramTyped /\ AnsweredHasALink
  BY <1>1, TelegramAssumption DEF TelegramInit, TelegramTyped, TelegramTypeOK, AnsweredHasALink, DeliveryAt, ConnectionAt
<1>3. \A d \in Deliveries : DeliveryInOrder(d)
  BY <1>1 DEF TelegramInit, DeliveryInOrder, DeliveryAt
<1>4. \A u \in Updates : ChallengeInOrder(u)
  BY <1>1 DEF TelegramInit, ChallengeInOrder, Row
<1>5. \A k \in Connections : ConnectionInOrder(k)
  BY <1>1 DEF TelegramInit, ConnectionInOrder, ConnectionAt
<1> QED BY <1>2, <1>3, <1>4, <1>5 DEF TelegramRight

-----------------------------------------------------------------------------
(* The switches *)

LEMMA SwitchFields ==
    ASSUME SwitchesRight, NEW c \in Switches
    PROVE  IF IsSaving(c) THEN saving[c] \in Savings ELSE saving[c] = NotSaving
<1>1. NotSaving.pc = "no"
  BY DEF NotSaving
<1> QED BY <1>1 DEF SwitchesRight, SwitchesTyped, IsSaving, Savings

\* A switch whose saving goes on as n, while what is cached stays.
LEMMA SwitchGoesOn ==
    ASSUME SwitchesRight, NEW c \in Switches, NEW n \in Savings \cup {NotSaving},
           saving' = [saving EXCEPT ![c] = n], cached' = cached,
           selected' \subseteq Switches, \A d \in Switches \ {c} : d \in selected' <=> d \in selected,
           c \in selected' <=> IF n.pc # "no" THEN n.enabled = TRUE ELSE c \in cached,
           chosen' \subseteq Switches, UNCHANGED <<poll, visible, choices>>
    PROVE  SwitchesRight'
<1>1. saving' \in [Switches -> Savings \cup {NotSaving}] /\ saving'[c] = n
      /\ \A d \in Switches \ {c} : saving'[d] = saving[d]
  BY DEF SwitchesRight, SwitchesTyped
<1>2. SwitchesTyped'
  BY <1>1 DEF SwitchesRight, SwitchesTyped
<1>3. ASSUME NEW d \in Switches
      PROVE  (d \in selected') = IF IsSaving(d)' THEN saving'[d].enabled ELSE d \in cached'
  <2>1. CASE d = c
    <3>1. n.pc # "no" => n.enabled \in BOOLEAN
      BY DEF Savings, NotSaving
    <3> QED BY <1>1, <2>1, <3>1 DEF IsSaving
  <2>2. CASE d # c
    BY <1>1, <2>2 DEF SwitchesRight, SwitchesFollow, IsSaving
  <2> QED BY <2>1, <2>2
<1> QED BY <1>2, <1>3 DEF SwitchesRight, SwitchesFollow

LEMMA TogglesRight == ASSUME SwitchesRight, NEW c \in Switches, Toggles(c) PROVE SwitchesRight'
<1> DEFINE enabled == c \notin selected
           n == [pc |-> "sent", enabled |-> enabled]
<1>1. n \in Savings /\ n.pc = "sent"
  BY Zenon DEF Savings
<1>2. n.enabled <=> enabled
  OBVIOUS
<1>3. /\ saving' = [saving EXCEPT ![c] = n] /\ selected' = Put(selected, c, enabled)
      /\ UNCHANGED <<chosen, cached, poll, visible, choices>>
  BY DEF Toggles
<1> HIDE DEF n
<1>4. selected' \subseteq Switches /\ chosen \subseteq Switches
      /\ \A d \in Switches \ {c} : d \in selected' <=> d \in selected
  BY <1>3 DEF Put, SwitchesRight, SwitchesTyped
<1>5. c \in selected' <=> n.enabled = TRUE
  BY <1>2, <1>3 DEF Put
<1> QED BY <1>1, <1>3, <1>4, <1>5, SwitchGoesOn

\* A save that goes on keeps what its user chose.
LEMMA SavesRight ==
    ASSUME SwitchesRight, NEW c \in Switches, ServerSaves(c) \/ SaveGoesWrong(c)
    PROVE  SwitchesRight'
<1>1. PICK pc \in {"saved", "failed"} : saving' = [saving EXCEPT ![c].pc = pc]
  BY DEF ServerSaves, SaveGoesWrong
<1>2. IsSaving(c) /\ saving[c] \in Savings
  BY SwitchFields DEF ServerSaves, SaveGoesWrong, IsSaving
<1> DEFINE n == [saving[c] EXCEPT !.pc = pc]
<1>3. n \in Savings /\ n.pc = pc /\ n.enabled = saving[c].enabled
  BY <1>2 DEF Savings
<1>4. saving' = [saving EXCEPT ![c] = n]
  BY <1>1 DEF SwitchesRight, SwitchesTyped
<1>5. chosen' \subseteq Switches /\ UNCHANGED <<cached, selected, poll, visible, choices>>
  BY DEF ServerSaves, SaveGoesWrong, Put, SwitchesRight, SwitchesTyped
<1> HIDE DEF n
<1>6. c \in selected <=> n.enabled = TRUE
  BY <1>2, <1>3 DEF SwitchesRight, SwitchesFollow, Savings
<1>7. selected \subseteq Switches
  BY DEF SwitchesRight, SwitchesTyped
<1> QED BY <1>3, <1>4, <1>5, <1>6, <1>7, SwitchGoesOn

LEMMA RollsBackRight == ASSUME SwitchesRight, NEW c \in Switches, RollsBack(c) PROVE SwitchesRight'
<1>1. /\ saving' = [saving EXCEPT ![c] = NotSaving] /\ selected' = Put(selected, c, c \in cached)
      /\ UNCHANGED <<chosen, cached, poll, visible, choices>>
  BY DEF RollsBack
<1>2. NotSaving.pc = "no"
  BY DEF NotSaving
<1>3. selected' \subseteq Switches /\ chosen \subseteq Switches
      /\ \A d \in Switches \ {c} : d \in selected' <=> d \in selected
  BY <1>1 DEF Put, SwitchesRight, SwitchesTyped
<1>4. c \in selected' <=> c \in cached
  BY <1>1 DEF Put
<1> QED BY <1>1, <1>2, <1>3, <1>4, SwitchGoesOn

\* What the browser hears reaches the switches that are not being saved.
LEMMA CacheRight ==
    ASSUME SwitchesRight, cached' \subseteq Switches, saving' \in [Switches -> Savings \cup {NotSaving}],
           selected' = Reconciled(cached', Busy'),
           \A c \in Switches : IsSaving(c)' => IsSaving(c) /\ saving'[c] = saving[c],
           poll' \in Polls \cup {NoPoll}, UNCHANGED <<chosen, visible, choices>>
    PROVE  SwitchesRight'
<1>1. selected' \subseteq Switches
  BY DEF SwitchesRight, SwitchesTyped, Reconciled
<1>2. SwitchesTyped'
  BY <1>1 DEF SwitchesRight, SwitchesTyped
<1>3. ASSUME NEW c \in Switches
      PROVE  (c \in selected') = IF IsSaving(c)' THEN saving'[c].enabled ELSE c \in cached'
  <2>1. CASE IsSaving(c)'
    <3>1. c \in Busy' /\ (c \in selected' <=> c \in selected)
      BY <2>1 DEF Busy, Reconciled
    <3>2. (c \in selected) = saving[c].enabled /\ saving'[c] = saving[c]
      BY <2>1 DEF SwitchesRight, SwitchesFollow
    <3> QED BY <2>1, <3>1, <3>2
  <2>2. CASE ~IsSaving(c)'
    <3>1. c \notin Busy'
      BY <2>2 DEF Busy
    <3> QED BY <2>2, <3>1 DEF Reconciled
  <2> QED BY <2>1, <2>2
<1> QED BY <1>2, <1>3 DEF SwitchesRight, SwitchesFollow

LEMMA AnsweredRight == ASSUME SwitchesRight, NEW c \in Switches, Answered(c) PROVE SwitchesRight'
<1>1. /\ saving' = [saving EXCEPT ![c] = NotSaving] /\ cached' = Put(cached, c, saving[c].enabled)
      /\ selected' = Reconciled(cached', Busy \ {c}) /\ UNCHANGED <<chosen, poll, visible, choices>>
  BY DEF Answered
<1>2. NotSaving.pc = "no"
  BY DEF NotSaving
<1>3. /\ saving' \in [Switches -> Savings \cup {NotSaving}] /\ saving'[c] = NotSaving
      /\ \A d \in Switches \ {c} : saving'[d] = saving[d]
  BY <1>1 DEF SwitchesRight, SwitchesTyped
<1>4. Busy' = Busy \ {c}
  BY <1>2, <1>3 DEF Busy, IsSaving
<1>5. cached' \subseteq Switches /\ poll \in Polls \cup {NoPoll}
  BY <1>1 DEF Put, SwitchesRight, SwitchesTyped
<1>6. \A d \in Switches : IsSaving(d)' => IsSaving(d) /\ saving'[d] = saving[d]
  BY <1>2, <1>3 DEF IsSaving
<1> QED BY <1>1, <1>3, <1>4, <1>5, <1>6, CacheRight

LEMMA PollLandsRight == ASSUME SwitchesRight, PollLands PROVE SwitchesRight'
<1>1. /\ cached' = poll.ids /\ selected' = Reconciled(cached', Busy) /\ poll' = NoPoll
      /\ UNCHANGED <<chosen, saving, visible, choices>> /\ poll.pc = "read"
  BY DEF PollLands
<1>2. poll.ids \subseteq Switches
  BY <1>1 DEF SwitchesRight, SwitchesTyped, Polls, NoPoll
<1>3. Busy' = Busy /\ \A c \in Switches : IsSaving(c)' => IsSaving(c) /\ saving'[c] = saving[c]
  BY <1>1 DEF Busy, IsSaving
<1>4. saving' \in [Switches -> Savings \cup {NotSaving}]
  BY <1>1 DEF SwitchesRight, SwitchesTyped
<1> QED BY <1>1, <1>2, <1>3, <1>4, CacheRight

\* Everything else leaves the switches of the page alone.
LEMMA ElsewhereRight ==
    ASSUME SwitchesRight, UNCHANGED <<cached, selected, saving>>, chosen' \subseteq Switches,
           poll' \in Polls \cup {NoPoll}, visible' \in BOOLEAN, choices' \in 0 .. MaxChoices
    PROVE  SwitchesRight'
BY DEF SwitchesRight, SwitchesTyped, SwitchesFollow, IsSaving

LEMMA SwitchesStep == ASSUME SwitchesRight, [SwitchesNext]_switchVars PROVE SwitchesRight'
<1>1. /\ chosen \subseteq Switches /\ poll \in Polls \cup {NoPoll} /\ visible \in BOOLEAN
      /\ choices \in 0 .. MaxChoices /\ MaxChoices \in Nat
  BY SwitchesAssumption DEF SwitchesRight, SwitchesTyped
<1>2. CASE \E c \in Switches : Toggles(c) \/ ServerSaves(c) \/ SaveGoesWrong(c) \/ Answered(c) \/ RollsBack(c)
  BY <1>2, TogglesRight, SavesRight, AnsweredRight, RollsBackRight
<1>3. ASSUME NEW c \in Switches, OthersChoose(c) PROVE SwitchesRight'
  BY <1>1, <1>3, ElsewhereRight DEF OthersChoose, Put
<1>4. CASE Asks \/ PollReads \/ PollFails
  <2>1. poll' \in Polls \cup {NoPoll}
    BY <1>1, <1>4 DEF Asks, PollReads, PollFails, Polls
  <2> QED BY <1>1, <1>4, <2>1, ElsewhereRight DEF Asks, PollReads, PollFails
<1>5. CASE Hides \/ UNCHANGED switchVars
  BY <1>1, <1>5, ElsewhereRight DEF Hides, switchVars
<1> QED BY <1>2, <1>3, <1>4, <1>5, PollLandsRight DEF SwitchesNext

LEMMA SwitchesInitRight == SwitchesInit => SwitchesRight
<1> SUFFICES ASSUME SwitchesInit PROVE SwitchesRight
  OBVIOUS
<1>1. NotSaving.pc = "no" /\ saving = [c \in Switches |-> NotSaving]
  BY DEF NotSaving, SwitchesInit
<1>2. SwitchesTyped
  BY <1>1, SwitchesAssumption DEF SwitchesInit, SwitchesTyped
<1>3. SwitchesFollow
  BY <1>1 DEF SwitchesInit, SwitchesFollow, IsSaving
<1> QED BY <1>2, <1>3 DEF SwitchesRight

\* Nothing is chosen, and what is known stays known.
LEMMA MissedStays ==
    ASSUME MissedRight, UNCHANGED <<chosen, cached>>, missed' = missed,
           poll'.pc = "read" => poll' = poll,
           \A c \in Switches : saving'[c].pc = "saved" => saving'[c] = saving[c]
    PROVE  MissedRight'
BY DEF MissedRight, HeardInOrder

\* Of another channel than c all that is known stays known.
LEMMA MissedBeside ==
    ASSUME SwitchesRight, MissedRight, NEW c \in Switches, NEW d \in Switches, d # c,
           ServerSaves(c) \/ SaveGoesWrong(c) \/ Answered(c) \/ OthersChoose(c)
    PROVE  HeardInOrder(d)'
<1>1. /\ missed.page \subseteq Switches /\ missed.poll \subseteq Switches /\ missed.call \subseteq Switches
      /\ missed \in [page : SUBSET Switches, poll : SUBSET Switches, call : SUBSET Switches]
  BY DEF MissedRight
<1>2. poll' = poll /\ saving'[d] = saving[d]
  BY DEF ServerSaves, SaveGoesWrong, Answered, OthersChoose, SwitchesRight, SwitchesTyped
<1>3. (d \in chosen' <=> d \in chosen) /\ (d \in cached' <=> d \in cached)
  BY DEF ServerSaves, SaveGoesWrong, Answered, OthersChoose, Put
<1>4. /\ d \in missed'.page <=> d \in missed.page
      /\ poll.pc = "read" => (d \in missed'.poll <=> d \in missed.poll)
      /\ d \in missed'.call <=> d \in missed.call
  <2>1. CASE ServerSaves(c)
    BY <1>1, <2>1 DEF ServerSaves, Overtaken
  <2>2. CASE SaveGoesWrong(c)
    BY <1>1, <2>2 DEF SaveGoesWrong
  <2>3. CASE Answered(c)
    BY <1>1, <2>3 DEF Answered
  <2>4. CASE OthersChoose(c)
    BY <1>1, <2>4 DEF OthersChoose, Overtaken
  <2> QED BY <2>1, <2>2, <2>3, <2>4
<1>5. HeardInOrder(d)
  BY DEF MissedRight
<1> QED BY <1>2, <1>3, <1>4, <1>5 DEF HeardInOrder

LEMMA MissedIsOfItsType ==
    ASSUME MissedRight, NEW c \in Switches,
           ServerSaves(c) \/ SaveGoesWrong(c) \/ Answered(c) \/ OthersChoose(c)
    PROVE  missed' \in [page : SUBSET Switches, poll : SUBSET Switches, call : SUBSET Switches]
<1>1. missed \in [page : SUBSET Switches, poll : SUBSET Switches, call : SUBSET Switches]
  BY DEF MissedRight
<1>2. Overtaken(c) \in SUBSET Switches
  BY <1>1 DEF Overtaken
<1>3. CASE ServerSaves(c)
  BY <1>1, <1>2, <1>3 DEF ServerSaves
<1>4. CASE SaveGoesWrong(c)
  BY <1>1, <1>4 DEF SaveGoesWrong
<1>5. CASE Answered(c)
  BY <1>1, <1>5 DEF Answered
<1>6. CASE OthersChoose(c)
  BY <1>1, <1>2, <1>6 DEF OthersChoose
<1> QED BY <1>3, <1>4, <1>5, <1>6

LEMMA MissedOf ==
    ASSUME SwitchesRight, MissedRight, NEW c \in Switches,
           ServerSaves(c) \/ SaveGoesWrong(c) \/ Answered(c) \/ OthersChoose(c)
    PROVE  HeardInOrder(c)'
<1>1. /\ missed \in [page : SUBSET Switches, poll : SUBSET Switches, call : SUBSET Switches]
      /\ HeardInOrder(c) /\ saving \in [Switches -> Savings \cup {NotSaving}]
  BY DEF MissedRight, SwitchesRight, SwitchesTyped
<1>2. CASE ServerSaves(c)
  <2>1. saving[c] \in Savings
    BY <1>2, SwitchFields DEF ServerSaves, IsSaving
  <2>2. saving'[c].enabled = saving[c].enabled /\ saving[c].enabled \in BOOLEAN
    BY <1>1, <1>2, <2>1 DEF ServerSaves, Savings
  <2>3. c \in chosen' <=> saving'[c].enabled = TRUE
    BY <1>2, <2>2 DEF ServerSaves, Put
  <2>4. c \in missed'.page /\ (poll'.pc = "read" => c \in missed'.poll)
    BY <1>1, <1>2 DEF ServerSaves, Overtaken
  <2> QED BY <2>3, <2>4 DEF HeardInOrder
<1>3. CASE SaveGoesWrong(c)
  <2>1. saving'[c].pc = "failed"
    BY <1>1, <1>3, SwitchFields DEF SaveGoesWrong, IsSaving, Savings
  <2>2. missed'.page = missed.page /\ missed'.poll = missed.poll /\ UNCHANGED <<chosen, cached, poll>>
    BY <1>1, <1>3 DEF SaveGoesWrong
  <2> QED BY <1>1, <2>1, <2>2 DEF HeardInOrder
<1>4. CASE Answered(c)
  <2>1. saving'[c].pc = "no" /\ saving[c].pc = "saved"
    BY <1>1, <1>4 DEF Answered, NotSaving
  <2>2. missed'.poll = missed.poll /\ UNCHANGED <<chosen, poll>>
        /\ (c \notin missed'.page => c \notin missed.call)
    BY <1>1, <1>4 DEF Answered
  <2>3. c \in cached' <=> saving[c].enabled = TRUE
    BY <1>4, <2>1, SwitchFields DEF Answered, Put, IsSaving, Savings
  <2> QED BY <1>1, <2>1, <2>2, <2>3 DEF HeardInOrder
<1>5. CASE OthersChoose(c)
  <2>1. /\ c \in missed'.page /\ (poll'.pc = "read" => c \in missed'.poll)
        /\ saving'[c].pc = "saved" => c \in missed'.call
    BY <1>1, <1>5 DEF OthersChoose, Overtaken
  <2> QED BY <2>1 DEF HeardInOrder
<1> QED BY <1>2, <1>3, <1>4, <1>5

LEMMA MissedStep ==
    ASSUME SwitchesRight, MissedRight, [SwitchesNext]_switchVars
    PROVE  MissedRight'
<1>1. /\ missed \in [page : SUBSET Switches, poll : SUBSET Switches, call : SUBSET Switches]
      /\ saving \in [Switches -> Savings \cup {NotSaving}]
  BY DEF MissedRight, SwitchesRight, SwitchesTyped
<1>2. ASSUME NEW c \in Switches, ServerSaves(c) \/ SaveGoesWrong(c) \/ Answered(c) \/ OthersChoose(c)
      PROVE  MissedRight'
  <2>1. missed' \in [page : SUBSET Switches, poll : SUBSET Switches, call : SUBSET Switches]
    BY <1>2, MissedIsOfItsType
  <2> QED BY <1>2, <2>1, MissedBeside, MissedOf DEF MissedRight
<1>3. ASSUME NEW c \in Switches, Toggles(c) \/ RollsBack(c)
      PROVE  MissedRight'
  <2>1. UNCHANGED <<chosen, cached, poll, missed>>
    BY <1>3 DEF Toggles, RollsBack
  <2>2. \E n : saving' = [saving EXCEPT ![c] = n] /\ n.pc # "saved"
    <3>1. CASE Toggles(c)
      <4> DEFINE new == [pc |-> "sent", enabled |-> c \notin selected]
      <4>1. saving' = [saving EXCEPT ![c] = new] /\ new.pc # "saved"
        BY <3>1 DEF Toggles
      <4> HIDE DEF new
      <4> QED BY <4>1
    <3>2. CASE RollsBack(c)
      <4>1. saving' = [saving EXCEPT ![c] = NotSaving] /\ NotSaving.pc # "saved"
        <5>1. NotSaving.pc # "saved"
          BY DEF NotSaving
        <5> QED BY <3>2, <5>1 DEF RollsBack
      <4> QED BY <4>1
    <3> QED BY <1>3, <3>1, <3>2
  <2>3. \A d \in Switches : saving'[d].pc = "saved" => saving'[d] = saving[d]
    BY <1>1, <2>2
  <2> QED BY <2>1, <2>3, MissedStays
<1>4. CASE Asks \/ Hides \/ UNCHANGED switchVars
  <2>1. UNCHANGED <<chosen, cached, saving, missed>> /\ (poll'.pc = "read" => poll' = poll)
    BY <1>4 DEF Asks, Hides, switchVars
  <2> QED BY <2>1, MissedStays
<1>5. CASE PollReads
  <2>1. UNCHANGED <<chosen, cached, saving, missed>> /\ poll'.ids = chosen
    BY <1>5 DEF PollReads
  <2> QED BY <2>1 DEF MissedRight, HeardInOrder
<1>6. CASE PollLands
  <2>1. /\ UNCHANGED <<chosen, saving>> /\ poll'.pc = "no" /\ cached' = poll.ids /\ poll.pc = "read"
        /\ missed'.page = missed.poll /\ missed'.call = missed.call
        /\ missed' \in [page : SUBSET Switches, poll : SUBSET Switches, call : SUBSET Switches]
    BY <1>1, <1>6 DEF PollLands, NoPoll
  <2> QED BY <2>1 DEF MissedRight, HeardInOrder
<1>7. CASE PollFails
  <2>1. /\ UNCHANGED <<chosen, saving, cached>> /\ poll'.pc = "no"
        /\ missed'.page = missed.page /\ missed'.call = missed.call
        /\ missed' \in [page : SUBSET Switches, poll : SUBSET Switches, call : SUBSET Switches]
    BY <1>1, <1>7 DEF PollFails, NoPoll
  <2> QED BY <2>1 DEF MissedRight, HeardInOrder
<1> QED BY <1>2, <1>3, <1>4, <1>5, <1>6, <1>7 DEF SwitchesNext

LEMMA MissedBegins == SwitchesInit => MissedRight
BY DEF SwitchesInit, MissedRight, HeardInOrder, NoPoll, NotSaving

LEMMA SwitchesShow ==
    ASSUME SwitchesRight, MissedRight
    PROVE  SwitchesTypeOK /\ SwitchesTellTheTruth
<1>1. SwitchesTypeOK
  BY DEF SwitchesRight, SwitchesTyped, SwitchesTypeOK, MissedRight
<1>2. ASSUME NEW c \in Switches, ~IsSaving(c), c \notin missed.page
      PROVE  (c \in selected) = (c \in chosen)
  BY <1>2 DEF SwitchesRight, SwitchesFollow, MissedRight, HeardInOrder
<1> QED BY <1>1, <1>2 DEF SwitchesRight, SwitchesFollow, SwitchesTellTheTruth

-----------------------------------------------------------------------------
(* All three *)

LEMMA SetupStep ==
    ASSUME SetupIInv, [Next]_vars
    PROVE  SetupIInv' /\ [NewestConfirms /\ MemberConnects]_vars
<1>1. /\ step' \in Steps /\ [EmailNext]_emailVars /\ [TelegramNext]_telegramVars /\ [SwitchesNext]_switchVars
      /\ \/ UNCHANGED vars
         \/ EmailNext /\ UNCHANGED telegramVars
         \/ TelegramNext /\ UNCHANGED emailVars
         \/ UNCHANGED <<emailVars, telegramVars>>
  BY DEF SetupIInv, Next, ByEmail, ByTelegram, BySwitches, vars
<1>2. EmailRight' /\ [NewestConfirms]_emailVars /\ TelegramRight' /\ [MemberConnects]_telegramVars /\ SwitchesRight' /\ MissedRight'
  BY <1>1, EmailStep, TelegramStep, SwitchesStep, MissedStep DEF SetupIInv
<1>3. UNCHANGED emailVars => NewestConfirms
  BY DEF emailVars, NewestConfirms
<1>4. UNCHANGED telegramVars => MemberConnects
  BY DEF telegramVars, MemberConnects
<1> QED BY <1>1, <1>2, <1>3, <1>4 DEF SetupIInv

\* The inductive invariant: a token has one request, and what it reserved is
\* its own; a link is marked by the delivery that made it, and a connection
\* holds it until it has made a channel.
THEOREM SetupInvariant == Spec => []SetupIInv
<1>1. Init => SetupIInv
  BY EmailInitRight, TelegramInitRight, SwitchesInitRight, MissedBegins DEF Init, SetupIInv
<1>2. SetupIInv /\ [Next]_vars => SetupIInv'
  BY SetupStep
<1> QED BY <1>1, <1>2, PTL DEF Spec

\* However late requests of earlier tokens end, whatever is lost and whoever
\* else has a link: what pages show of a verification and of a link is true.  A
\* check's switch shows what its user is saving, otherwise what the browser last
\* heard, and that is what the check has unless it was written after the server
\* had read or saved what was heard.
THEOREM PagesStayTrue == Spec => []PagesAreTrue
<1>1. SetupIInv => PagesAreTrue
  BY SwitchesShow DEF SetupIInv, EmailRight, PagesAreTrue
<1> QED BY <1>1, SetupInvariant, PTL

\* Telegram hears of success only where there was a link or the update was
\* turned away, and a link makes one channel, however often it is clicked.
THEOREM LinksStaySound == Spec => []LinksAreSound
<1>1. SetupIInv => LinksAreSound
  BY SwitchesShow DEF SetupIInv, EmailRight, EmailTyped, TelegramRight, TelegramTyped, ChallengeInOrder,
         LinksAreSound, TypeOK, OneChannelPerLink
<1> QED BY <1>1, SetupInvariant, PTL

\* A channel is confirmed with its newest token only, which came by mail, and
\* stays confirmed; whoever connects one is a member at that moment.
THEOREM OthersNeverConfirm == Spec => OnlyTheEntitledConfirm
<1>1. SetupIInv /\ [Next]_vars => [NewestConfirms /\ MemberConnects]_vars
  BY SetupStep
<1> QED BY <1>1, SetupInvariant, PTL DEF Spec, OnlyTheEntitledConfirm

-----------------------------------------------------------------------------
(* Alerts: the inductive invariant *)

\* A job works on a recipient of the run it is in, and only while it runs; one
\* that has not failed has tries and stalls left.
JobInOrder(a) ==
    /\ job[a].at # NoChannel <=> job[a].step # "send"
    /\ job[a].at # NoChannel => job[a].at \in job[a].todo
    /\ job[a].state # "running" => job[a].todo = {}
    /\ job[a].state # "failed" => job[a].tries < MaxAttempts /\ job[a].stalls <= MaxStalls
    /\ job[a].ids # Legacy => job[a].todo \subseteq job[a].ids

\* Messages go out between the commit and the end of the job; whom the current
\* run has still to handle has had one message a finished run at most.
SentInOrder(a) ==
    /\ job[a].state \in {"none", "held", "lost"} => \A ch \in Channels : sent[a][ch] = 0
    /\ job[a].ids # Legacy => \A ch \in Channels : sent[a][ch] > 0 => ch \in job[a].ids
    /\ \A ch \in Channels :
          sent[a][ch] <= Runs(a) + (IF \/ job[a].state = "waiting"
                                       \/ ch \in job[a].todo \ {job[a].at} THEN 0 ELSE 1)

\* A steady channel was selected and is deliverable; the run that handles the
\* job has it ahead, or has its result.
SteadyAhead(a) ==
    /\ \A ch \in steady[a] : Deliverable(ch, home[job[a].check])
    /\ job[a].state = "none" => steady[a] = {}
    /\ IF job[a].ids = Legacy THEN steady[a] = {} ELSE steady[a] \subseteq job[a].ids
    /\ job[a].state \in {"running", "done"} =>
           \A ch \in steady[a] : ch \in job[a].todo \/ oks[a][ch] + fails[a][ch] > 0

\* Messages without a result, that of the send being written aside.
Untold(a) ==
    {ch \in Channels : sent[a][ch] > oks[a][ch] + fails[a][ch]
                                       + (IF ch = job[a].at THEN 1 ELSE 0)}

\* Each run that ended early left one message untold at most.
ToldInOrder(a) ==
    /\ \A ch \in Channels : oks[a][ch] <= sent[a][ch]
    /\ job[a].step = "sent" => oks[a][job[a].at] < sent[a][job[a].at]
    /\ home[job[a].check] # Gone => Cardinality(Untold(a)) <= Runs(a)

AlertInOrder(a) == JobInOrder(a) /\ SentInOrder(a) /\ SteadyAhead(a) /\ ToldInOrder(a)

DeliveryRight == DeliveryTypeOK /\ ExclusionsStayHome /\ \A a \in Alerts : AlertInOrder(a)
-----------------------------------------------------------------------------
(* What the steps have in common *)

LEMMA DeliveryBegins == DeliveryInit => DeliveryRight
<1> SUFFICES ASSUME DeliveryInit PROVE DeliveryRight
  OBVIOUS
<1>1. Projects # {} /\ (CHOOSE p \in Projects : TRUE) \in Projects
  <2>1. PICK c \in Checks : TRUE
    BY TableAssumption
  <2>2. home[c] \in Projects
    BY <2>1 DEF DeliveryInit
  <2>3. QED
    BY <2>2
<1>2. (CHOOSE c \in Checks : TRUE) \in Checks
  BY TableAssumption
<1>3. DeliveryTypeOK
  BY <1>1, <1>2, BoundAssumption DEF DeliveryInit, DeliveryTypeOK, ChannelRow, Job, NoResults
<1>4. ExclusionsStayHome
  BY DEF DeliveryInit, ExclusionsStayHome
<1>5. ASSUME NEW a \in Alerts PROVE AlertInOrder(a)
  <2>1. /\ job[a].state = "none" /\ job[a].at = NoChannel /\ job[a].step = "send" /\ job[a].todo = {}
        /\ job[a].ids = {} /\ job[a].tries = 0 /\ job[a].stalls = 0
        /\ steady[a] = {}
        /\ \A ch \in Channels : sent[a][ch] = 0 /\ oks[a][ch] = 0 /\ fails[a][ch] = 0
    BY DEF DeliveryInit, NoResults
  <2>2. Untold(a) = {}
    BY <2>1 DEF Untold
  <2>3. JobInOrder(a)
    BY <2>1, BoundAssumption DEF JobInOrder
  <2>4. SentInOrder(a)
    BY <2>1 DEF SentInOrder, Runs
  <2>5. SteadyAhead(a)
    BY <2>1 DEF SteadyAhead
  <2>6. ToldInOrder(a)
    BY <2>1, <2>2, FS_EmptySet DEF ToldInOrder, Runs
  <2>7. QED
    BY <2>3, <2>4, <2>5, <2>6 DEF AlertInOrder
<1>6. QED
  BY <1>3, <1>4, <1>5 DEF DeliveryRight

\* What a step leaves of an alert alone stays in order.
LEMMA UntouchedStaysInOrder ==
    ASSUME NEW a \in Alerts, AlertInOrder(a), UNCHANGED routing, job'[a] = job[a], steady'[a] = steady[a],
           sent'[a] = sent[a], oks'[a] = oks[a], fails'[a] = fails[a]
    PROVE  AlertInOrder(a)'
<1>1. Untold(a)' = Untold(a)
  BY DEF Untold
<1>2. Runs(a)' = Runs(a)
  BY DEF Runs
<1>3. JobInOrder(a)'
  BY DEF AlertInOrder, JobInOrder
<1>4. SentInOrder(a)'
  BY <1>2 DEF AlertInOrder, SentInOrder
<1>5. SteadyAhead(a)'
  BY DEF AlertInOrder, SteadyAhead, Deliverable, routing
<1>6. ToldInOrder(a)'
  BY <1>1, <1>2 DEF AlertInOrder, ToldInOrder, routing
<1>7. QED
  BY <1>3, <1>4, <1>5, <1>6 DEF AlertInOrder

\* A step of one alert: what it has to keep.
LEMMA OneAlertSteps ==
    ASSUME DeliveryRight, NEW a \in Alerts, UNCHANGED routing, DeliveryTypeOK', AlertInOrder(a)',
           \A b \in Alerts \ {a} :
               /\ job'[b] = job[b] /\ steady'[b] = steady[b]
               /\ sent'[b] = sent[b] /\ oks'[b] = oks[b] /\ fails'[b] = fails[b]
    PROVE  DeliveryRight'
<1>1. ASSUME NEW b \in Alerts PROVE AlertInOrder(b)'
  <2>1. CASE b = a
    BY <2>1
  <2>2. CASE b # a
    BY <2>2, UntouchedStaysInOrder DEF DeliveryRight
  <2>3. QED
    BY <2>1, <2>2
<1>2. ExclusionsStayHome'
  BY DEF DeliveryRight, ExclusionsStayHome, routing
<1>3. QED
  BY <1>1, <1>2 DEF DeliveryRight

-----------------------------------------------------------------------------
(* Users *)

\* The routing changes as it may: results go only with their check.
LEMMA RoutingStepType ==
    ASSUME DeliveryTypeOK, RoutingStep PROVE steady' \in [Alerts -> SUBSET Channels] /\ job' = job /\ incidents' = incidents
BY DEF RoutingStep, StaySteady, DeliveryTypeOK

LEMMA UsersType == ASSUME DeliveryTypeOK, Users PROVE DeliveryTypeOK'
<1>1. ASSUME NEW ch \in Channels, NEW p \in Projects, NEW enabled \in BOOLEAN, CreateChannel(ch, p, enabled)
      PROVE  DeliveryTypeOK'
  BY <1>1, RoutingStepType DEF CreateChannel, DeliveryTypeOK, ChannelRow, results
<1>2. ASSUME NEW ch \in Channels, VerifyChannel(ch) \/ DeleteChannel(ch)
      PROVE  DeliveryTypeOK'
  <2>1. channel' \in [Channels -> ChannelRow]
    <3>1. channel[ch] \in ChannelRow
      BY DEF DeliveryTypeOK
    <3>2. /\ [channel[ch] EXCEPT !.enabled = TRUE] \in ChannelRow
          /\ [channel[ch] EXCEPT !.row = "deleted"] \in ChannelRow
      BY <3>1 DEF ChannelRow
    <3>3. QED
      BY <1>2, <3>2 DEF VerifyChannel, DeleteChannel, DeliveryTypeOK
  <2>2. QED
    BY <1>2, <2>1, RoutingStepType DEF VerifyChannel, DeleteChannel, DeliveryTypeOK, results
<1>3. ASSUME NEW c \in Checks, NEW ch \in Channels, NEW enabled \in BOOLEAN, Toggle(c, ch, enabled)
      PROVE  DeliveryTypeOK'
  BY <1>3, RoutingStepType DEF Toggle, DeliveryTypeOK, results
<1>4. ASSUME NEW c \in Checks, NEW p \in Projects, Move(c, p)
      PROVE  DeliveryTypeOK'
  BY <1>4, RoutingStepType DEF Move, DeliveryTypeOK, results
<1>5. ASSUME NEW c \in Checks, DeleteCheck(c)
      PROVE  DeliveryTypeOK'
  BY <1>5, RoutingStepType DEF DeleteCheck, DeliveryTypeOK
<1>6. QED
  BY <1>1, <1>2, <1>3, <1>4, <1>5 DEF Users

LEMMA UsersExclude == ASSUME DeliveryTypeOK, ExclusionsStayHome, Users PROVE ExclusionsStayHome'
<1>1. ASSUME NEW ch \in Channels, NEW p \in Projects, NEW enabled \in BOOLEAN, CreateChannel(ch, p, enabled)
      PROVE  ExclusionsStayHome'
  BY <1>1 DEF CreateChannel, DeliveryTypeOK, ExclusionsStayHome
<1>2. ASSUME NEW ch \in Channels, VerifyChannel(ch) \/ DeleteChannel(ch)
      PROVE  ExclusionsStayHome'
  BY <1>2 DEF VerifyChannel, DeleteChannel, DeliveryTypeOK, ChannelRow, ExclusionsStayHome
<1>3. ASSUME NEW c \in Checks, NEW ch \in Channels, NEW enabled \in BOOLEAN, Toggle(c, ch, enabled)
      PROVE  ExclusionsStayHome'
  BY <1>3 DEF Toggle, Deliverable, DeliveryTypeOK, ExclusionsStayHome
<1>4. ASSUME NEW c \in Checks, NEW p \in Projects, Move(c, p)
      PROVE  ExclusionsStayHome'
  BY <1>4 DEF Move, DeliveryTypeOK, ExclusionsStayHome
<1>5. ASSUME NEW c \in Checks, DeleteCheck(c)
      PROVE  ExclusionsStayHome'
  BY <1>5 DEF DeleteCheck, DeliveryTypeOK, ExclusionsStayHome
<1>6. QED
  BY <1>1, <1>2, <1>3, <1>4, <1>5 DEF Users

\* Users send nothing; an alert's results stay, or go with its check.
LEMMA UsersKeepResults ==
    ASSUME DeliveryTypeOK, Users
    PROVE  /\ sent' = sent /\ RoutingStep
           /\ \A c \in Checks : home[c] = Gone => home'[c] = Gone
           /\ \A a \in Alerts :
                 \/ oks'[a] = oks[a] /\ fails'[a] = fails[a]
                 \/ /\ home'[job[a].check] = Gone
                    /\ \A ch \in Channels : oks'[a][ch] = 0 /\ fails'[a][ch] = 0
<1>1. ASSUME NEW ch \in Channels, NEW p \in Projects, NEW enabled \in BOOLEAN, CreateChannel(ch, p, enabled)
      PROVE  UNCHANGED <<home, sent, oks, fails>> /\ RoutingStep
  BY <1>1 DEF CreateChannel, results
<1>2. ASSUME NEW ch \in Channels, VerifyChannel(ch) \/ DeleteChannel(ch)
      PROVE  UNCHANGED <<home, sent, oks, fails>> /\ RoutingStep
  BY <1>2 DEF VerifyChannel, DeleteChannel, results
<1>3. ASSUME NEW c \in Checks, NEW ch \in Channels, NEW enabled \in BOOLEAN, Toggle(c, ch, enabled)
      PROVE  UNCHANGED <<home, sent, oks, fails>> /\ RoutingStep
  BY <1>3 DEF Toggle, results
<1>4. ASSUME NEW c \in Checks, NEW p \in Projects, Move(c, p)
      PROVE  /\ UNCHANGED <<sent, oks, fails>> /\ RoutingStep
             /\ \A d \in Checks : home[d] = Gone => home'[d] = Gone
  BY <1>4 DEF Move, results, DeliveryTypeOK
<1>5. ASSUME NEW c \in Checks, DeleteCheck(c)
      PROVE  /\ sent' = sent /\ RoutingStep
             /\ \A d \in Checks : home[d] = Gone => home'[d] = Gone
             /\ \A a \in Alerts :
                   \/ oks'[a] = oks[a] /\ fails'[a] = fails[a]
                   \/ /\ home'[job[a].check] = Gone
                      /\ \A ch \in Channels : oks'[a][ch] = 0 /\ fails'[a][ch] = 0
  BY <1>5 DEF DeleteCheck, DeliveryTypeOK
<1>6. QED
  BY <1>1, <1>2, <1>3, <1>4, <1>5 DEF Users

LEMMA UsersKeepOrder == ASSUME DeliveryRight, Users PROVE DeliveryRight'
<1>1. DeliveryTypeOK'
  BY UsersType DEF DeliveryRight
<1>2. ExclusionsStayHome'
  BY UsersExclude DEF DeliveryRight
<1>3. ASSUME NEW a \in Alerts PROVE AlertInOrder(a)'
  <2>0. DeliveryTypeOK /\ AlertInOrder(a) /\ job' = job /\ sent' = sent /\ Runs(a)' = Runs(a)
    BY UsersKeepResults, RoutingStepType DEF DeliveryRight, Runs
  <2>1. job[a] \in Job
    BY <2>0 DEF DeliveryTypeOK
  <2>2. /\ \A ch \in steady'[a] : ch \in steady[a] /\ Deliverable(ch, home[job[a].check])'
        /\ steady'[a] \subseteq steady[a]
    BY <2>0, UsersKeepResults DEF RoutingStep, StaySteady, Deliverable
  <2>3. home'[job[a].check] = Gone => steady'[a] = {}
    <3>1. ASSUME NEW ch \in steady'[a], home'[job[a].check] = Gone PROVE FALSE
      <4>1. channel'[ch].project = Gone /\ ch \in Channels
        BY <2>0, <2>2, <3>1, <1>1 DEF Deliverable, DeliveryTypeOK
      <4>2. channel'[ch].project \in Projects
        BY <1>1, <4>1 DEF DeliveryTypeOK, ChannelRow
      <4>3. QED
        BY <4>1, <4>2, NullAssumption
    <3>2. QED
      BY <3>1
  <2>4. JobInOrder(a)'
    BY <2>0 DEF AlertInOrder, JobInOrder
  <2>5. SentInOrder(a)'
    BY <2>0 DEF AlertInOrder, SentInOrder
  <2>6. SteadyAhead(a)'
    <3>1. job[a].state \in {"running", "done"} =>
              \A ch \in steady'[a] : ch \in job[a].todo \/ oks'[a][ch] + fails'[a][ch] > 0
      <4>1. CASE oks'[a] = oks[a] /\ fails'[a] = fails[a]
        BY <2>0, <2>2, <4>1 DEF AlertInOrder, SteadyAhead
      <4>2. CASE home'[job[a].check] = Gone
        BY <2>3, <4>2
      <4>3. QED
        BY <2>0, <4>1, <4>2, UsersKeepResults
    <3>2. QED
      BY <2>0, <2>2, <3>1 DEF AlertInOrder, SteadyAhead
  <2>7. ToldInOrder(a)'
    <3>1. CASE oks'[a] = oks[a] /\ fails'[a] = fails[a]
      <4>1. Untold(a)' = Untold(a)
        BY <2>0, <3>1 DEF Untold
      <4>2. home'[job[a].check] # Gone => home[job[a].check] # Gone
        BY <2>0, <2>1, UsersKeepResults DEF Job
      <4>3. QED
        BY <2>0, <3>1, <4>1, <4>2 DEF AlertInOrder, ToldInOrder
    <3>2. CASE /\ home'[job[a].check] = Gone
               /\ \A ch \in Channels : oks'[a][ch] = 0 /\ fails'[a][ch] = 0
      <4>1. job[a].step = "sent" => job[a].at \in Channels
        BY <2>0, <2>1 DEF AlertInOrder, JobInOrder, Job
      <4>2. \A ch \in Channels : sent[a][ch] \in Nat /\ oks[a][ch] \in Nat
        BY <2>0 DEF DeliveryTypeOK
      <4>3. QED
        BY <2>0, <3>2, <4>1, <4>2 DEF AlertInOrder, ToldInOrder
    <3>3. QED
      BY <2>0, <3>1, <3>2, UsersKeepResults
  <2>8. QED
    BY <2>4, <2>5, <2>6, <2>7 DEF AlertInOrder
<1>4. QED
  BY <1>1, <1>2, <1>3 DEF DeliveryRight

-----------------------------------------------------------------------------
(* Producers *)

LEMMA ProducersKeepOrder ==
    ASSUME DeliveryRight, NEW a \in Alerts,
           (\E c \in Checks, legacy \in BOOLEAN : Commit(a, c, legacy)) \/ Queue(a) \/ Lose(a)
    PROVE  DeliveryRight'
<1>0. DeliveryTypeOK /\ AlertInOrder(a) /\ job[a] \in Job
  BY DEF DeliveryRight, DeliveryTypeOK
<1>1. ASSUME NEW c \in Checks, NEW legacy \in BOOLEAN, Commit(a, c, legacy)
      PROVE  DeliveryRight'
  <2> DEFINE ids == IF legacy THEN Legacy ELSE Selected(c)
  <2>1. /\ Selected(c) \subseteq Channels /\ ids \in (SUBSET Channels) \cup {Legacy}
        /\ \A ch \in Selected(c) : Deliverable(ch, home[c])
        /\ ids = Legacy <=> legacy
    BY NullAssumption DEF Selected
  <2> HIDE DEF ids
  <2>2. /\ job' = [job EXCEPT ![a] = [job[a] EXCEPT !.state = "held", !.check = c, !.ids = ids]]
        /\ job[a].state = "none" /\ home[c] # Gone
        /\ UNCHANGED <<routing, results, incidents>>
        /\ steady' = [steady EXCEPT ![a] = IF legacy THEN {} ELSE Selected(c)]
    BY <1>0, <1>1 DEF Commit, Job, DeliveryTypeOK, ids
  <2>3. [job[a] EXCEPT !.state = "held", !.check = c, !.ids = ids] \in Job
    BY <1>0, <2>1 DEF Job
  <2>4. DeliveryTypeOK'
    BY <1>0, <2>1, <2>2, <2>3 DEF DeliveryTypeOK, routing, results
  <2>5. /\ job'[a].state = "held" /\ job'[a].check = c /\ job'[a].ids = ids
        /\ job'[a].at = job[a].at /\ job'[a].step = job[a].step /\ job'[a].todo = job[a].todo
        /\ job'[a].tries = job[a].tries /\ job'[a].stalls = job[a].stalls
        /\ Runs(a)' = Runs(a)
    BY <1>0, <2>2 DEF DeliveryTypeOK, Job, Runs
  <2>6. JobInOrder(a)' /\ job[a].at = NoChannel
    BY <1>0, <2>2, <2>5 DEF AlertInOrder, JobInOrder
  <2>7. SentInOrder(a)'
    BY <1>0, <2>2, <2>5 DEF AlertInOrder, SentInOrder, results, DeliveryTypeOK
  <2>8. SteadyAhead(a)'
    <3>1. steady'[a] = IF legacy THEN {} ELSE Selected(c)
      BY <1>0, <2>2 DEF DeliveryTypeOK
    <3>2. QED
      BY <2>1, <2>2, <2>5, <3>1 DEF SteadyAhead, Deliverable, routing, ids
  <2>9. ToldInOrder(a)'
    <3>1. \A ch \in Channels : sent'[a][ch] = 0
      BY <1>0, <2>2 DEF AlertInOrder, SentInOrder, results
    <3>2. Untold(a)' = {}
      BY <1>0, <2>4, <2>5, <2>6, <3>1 DEF Untold, DeliveryTypeOK
    <3>3. Runs(a)' \in Nat
      BY <1>0, <2>5 DEF Runs, Job
    <3>4. QED
      BY <1>0, <2>2, <2>5, <2>6, <3>1, <3>2, <3>3, FS_EmptySet DEF AlertInOrder, JobInOrder, ToldInOrder, results
  <2>10. QED
    BY <2>2, <2>4, <2>6, <2>7, <2>8, <2>9, OneAlertSteps DEF AlertInOrder, DeliveryRight, DeliveryTypeOK, results
<1>2. ASSUME Queue(a) \/ Lose(a)
      PROVE  DeliveryRight'
  <2>1. PICK s \in {"waiting", "lost"} :
            /\ job' = [job EXCEPT ![a] = [job[a] EXCEPT !.state = s]]
            /\ job[a].state = "held"
            /\ UNCHANGED <<routing, steady, results>>
            /\ incidents' \in 0 .. MaxIncidents
    BY <1>0, <1>2, BoundAssumption DEF Queue, Lose, Incident, DeliveryTypeOK
  <2>2. [job[a] EXCEPT !.state = s] \in Job
    BY <1>0 DEF Job
  <2>3. DeliveryTypeOK'
    BY <1>0, <2>1, <2>2 DEF DeliveryTypeOK, routing, results
  <2>4. /\ job'[a].state = s /\ job'[a].check = job[a].check /\ job'[a].ids = job[a].ids
        /\ job'[a].at = job[a].at /\ job'[a].step = job[a].step /\ job'[a].todo = job[a].todo
        /\ job'[a].tries = job[a].tries /\ job'[a].stalls = job[a].stalls
        /\ Runs(a)' = Runs(a) /\ Runs(a) \in Nat
    BY <1>0, <2>1 DEF DeliveryTypeOK, Job, Runs
  <2>5. /\ job[a].tries < MaxAttempts /\ job[a].stalls <= MaxStalls
    BY <1>0, <2>1, BoundAssumption DEF AlertInOrder, JobInOrder
  <2>6. JobInOrder(a)'
    BY <1>0, <2>1, <2>4, <2>5 DEF AlertInOrder, JobInOrder
  <2>7. SentInOrder(a)'
    BY <1>0, <2>1, <2>4 DEF AlertInOrder, SentInOrder, results
  <2>8. SteadyAhead(a)'
    BY <1>0, <2>1, <2>4 DEF AlertInOrder, SteadyAhead, Deliverable, routing, results
  <2>9. ToldInOrder(a)'
    <3>1. Untold(a)' = Untold(a)
      BY <2>1, <2>4 DEF Untold, results
    <3>2. QED
      BY <1>0, <2>1, <2>4, <3>1 DEF AlertInOrder, ToldInOrder, routing, results
  <2>10. QED
    BY <2>1, <2>3, <2>6, <2>7, <2>8, <2>9, OneAlertSteps, <1>0 DEF AlertInOrder, DeliveryTypeOK, results
<1>3. QED
  BY <1>1, <1>2

-----------------------------------------------------------------------------
(* The consumer *)

\* A step that only moves the job on: what is left to show.
LEMMA JobMovesOn ==
    ASSUME DeliveryRight, NEW a \in Alerts, NEW j \in Job, job' = [job EXCEPT ![a] = j],
           UNCHANGED <<routing, steady, results>>, incidents' \in 0 .. MaxIncidents,
           j.check = job[a].check, j.ids = job[a].ids,
           JobInOrder(a)', SentInOrder(a)', SteadyAhead(a)', ToldInOrder(a)'
    PROVE  DeliveryRight'
<1>1. DeliveryTypeOK'
  BY DEF DeliveryRight, DeliveryTypeOK, routing, results
<1>2. QED
  BY <1>1, OneAlertSteps DEF AlertInOrder, DeliveryRight, DeliveryTypeOK, results

\* One more, for one alert and one channel.
LEMMA OneMore ==
    ASSUME NEW f \in [Alerts -> [Channels -> Nat]], NEW a \in Alerts, NEW ch \in Channels,
           NEW g, g = [f EXCEPT ![a][ch] = @ + 1]
    PROVE  /\ g \in [Alerts -> [Channels -> Nat]]
           /\ \A b \in Alerts : b # a => g[b] = f[b]
           /\ \A d \in Channels : d # ch => g[a][d] = f[a][d]
           /\ g[a][ch] = f[a][ch] + 1
OBVIOUS

LEMMA RunsTyped == ASSUME DeliveryTypeOK, NEW a \in Alerts PROVE Runs(a) \in Nat
BY DEF DeliveryTypeOK, Job, Runs

LEMMA SkipKeepsOrder == ASSUME DeliveryRight, NEW a \in Alerts, Skip(a) \/ Finish(a) PROVE DeliveryRight'
<1> DEFINE j == [job[a] EXCEPT !.state = "done"]
<1>0. DeliveryTypeOK /\ AlertInOrder(a) /\ job[a] \in Job /\ Runs(a) \in Nat
  BY RunsTyped DEF DeliveryRight, DeliveryTypeOK
<1>1. /\ job' = [job EXCEPT ![a] = j] /\ UNCHANGED <<routing, steady, results, incidents>>
      /\ job[a].state \in {"waiting", "running"} /\ job[a].todo = {}
      /\ job[a].state = "waiting" => home[job[a].check] = Gone
  BY <1>0 DEF Skip, Finish, AlertInOrder, JobInOrder
<1>2. /\ j \in Job /\ j.state = "done" /\ j.check = job[a].check /\ j.ids = job[a].ids
      /\ j.todo = job[a].todo /\ j.at = job[a].at /\ j.step = job[a].step
      /\ j.tries = job[a].tries /\ j.stalls = job[a].stalls
  BY <1>0 DEF Job
<1> HIDE DEF j
<1>3. job'[a] = j /\ Runs(a)' = Runs(a)
  BY <1>0, <1>1, <1>2 DEF DeliveryTypeOK, Runs
<1>4. JobInOrder(a)'
  BY <1>0, <1>1, <1>2, <1>3 DEF AlertInOrder, JobInOrder
<1>5. SentInOrder(a)'
  BY <1>0, <1>1, <1>2, <1>3 DEF AlertInOrder, SentInOrder, results, DeliveryTypeOK
<1>6. SteadyAhead(a)'
  <2>1. home[job[a].check] = Gone => steady[a] = {}
    BY <1>0, NullAssumption DEF AlertInOrder, SteadyAhead, Deliverable, DeliveryTypeOK, ChannelRow
  <2>2. QED
    BY <1>0, <1>1, <1>2, <1>3, <2>1 DEF AlertInOrder, SteadyAhead, Deliverable, routing, results
<1>7. ToldInOrder(a)'
  <2>1. Untold(a)' = Untold(a)
    BY <1>1, <1>2, <1>3 DEF Untold, results
  <2>2. QED
    BY <1>0, <1>1, <1>2, <1>3, <2>1 DEF AlertInOrder, ToldInOrder, routing, results
<1>8. QED
  BY <1>0, <1>1, <1>2, <1>4, <1>5, <1>6, <1>7, JobMovesOn DEF DeliveryTypeOK

\* The recipients of a run: among the selected, and every steady channel.
LEMMA RecipientsAreSelected ==
    ASSUME DeliveryRight, NEW a \in Alerts
    PROVE  /\ Recipients(a) \subseteq Channels
           /\ steady[a] \subseteq Recipients(a)
           /\ job[a].ids # Legacy => Recipients(a) \subseteq job[a].ids
<1>1. DeliveryTypeOK /\ AlertInOrder(a) /\ job[a].ids \in (SUBSET Channels) \cup {Legacy}
  BY DEF DeliveryRight, DeliveryTypeOK, Job
<1>2. QED
  BY <1>1 DEF AlertInOrder, SteadyAhead, Recipients, Selected

LEMMA StartKeepsOrder == ASSUME DeliveryRight, NEW a \in Alerts, Start(a) PROVE DeliveryRight'
<1> DEFINE j == [job[a] EXCEPT !.state = "running", !.todo = Recipients(a)]
<1>0. DeliveryTypeOK /\ AlertInOrder(a) /\ job[a] \in Job /\ Runs(a) \in Nat
  BY RunsTyped DEF DeliveryRight, DeliveryTypeOK
<1>1. /\ job' = [job EXCEPT ![a] = j] /\ UNCHANGED <<routing, steady, results, incidents>>
      /\ job[a].state = "waiting"
  BY <1>0 DEF Start, DeliveryTypeOK
<1>2. /\ j \in Job /\ j.state = "running" /\ j.check = job[a].check /\ j.ids = job[a].ids
      /\ j.todo = Recipients(a) /\ j.at = job[a].at /\ j.step = job[a].step
      /\ j.tries = job[a].tries /\ j.stalls = job[a].stalls
  BY <1>0, RecipientsAreSelected DEF Job
<1> HIDE DEF j
<1>3. job'[a] = j /\ Runs(a)' = Runs(a)
  BY <1>0, <1>1, <1>2 DEF DeliveryTypeOK, Runs
<1>4. job[a].at = NoChannel
  BY <1>0, <1>1 DEF AlertInOrder, JobInOrder
<1>5. JobInOrder(a)'
  BY <1>0, <1>1, <1>2, <1>3, <1>4, RecipientsAreSelected DEF AlertInOrder, JobInOrder
<1>6. SentInOrder(a)'
  BY <1>0, <1>1, <1>2, <1>3 DEF AlertInOrder, SentInOrder, results, DeliveryTypeOK
<1>7. SteadyAhead(a)'
  BY <1>0, <1>1, <1>2, <1>3, RecipientsAreSelected DEF AlertInOrder, SteadyAhead, Deliverable, routing, results
<1>8. ToldInOrder(a)'
  <2>1. Untold(a)' = Untold(a)
    BY <1>1, <1>2, <1>3 DEF Untold, results
  <2>2. QED
    BY <1>0, <1>1, <1>2, <1>3, <2>1 DEF AlertInOrder, ToldInOrder, routing, results
<1>9. QED
  BY <1>0, <1>1, <1>2, <1>5, <1>6, <1>7, <1>8, JobMovesOn DEF DeliveryTypeOK

\* A message goes to a recipient still ahead; until its result is written, it
\* is the one the job works on.
LEMMA SendKeepsOrder ==
    ASSUME DeliveryRight, NEW a \in Alerts, NEW ch \in Channels, Send(a, ch) PROVE DeliveryRight'
<1>0. DeliveryTypeOK /\ AlertInOrder(a) /\ job[a] \in Job /\ Runs(a) \in Nat
  BY RunsTyped DEF DeliveryRight, DeliveryTypeOK
<1>1. PICK s \in {"sent", "thrown"} :
          /\ job' = [job EXCEPT ![a] = [job[a] EXCEPT !.at = ch, !.step = s]]
          /\ Arrives(a, ch) \/ (s = "thrown" /\ UNCHANGED sent)
          /\ incidents' \in 0 .. MaxIncidents
          /\ job[a].state = "running" /\ job[a].at = NoChannel /\ ch \in job[a].todo
          /\ UNCHANGED <<routing, steady, oks, fails>>
  <2>1. CASE Arrives(a, ch) /\ job' = [job EXCEPT ![a].at = ch, ![a].step = "sent"] /\ UNCHANGED incidents
    <3>1. job' = [job EXCEPT ![a] = [job[a] EXCEPT !.at = ch, !.step = "sent"]]
      BY <1>0, <2>1 DEF DeliveryTypeOK, Job
    <3>2. QED
      BY <1>0, <2>1, <3>1 DEF Send, DeliveryTypeOK
  <2>2. CASE /\ Incident /\ (Arrives(a, ch) \/ UNCHANGED sent)
             /\ job' = [job EXCEPT ![a].at = ch, ![a].step = "thrown"]
    <3>1. job' = [job EXCEPT ![a] = [job[a] EXCEPT !.at = ch, !.step = "thrown"]]
      BY <1>0, <2>2 DEF DeliveryTypeOK, Job
    <3>2. incidents' \in 0 .. MaxIncidents
      BY <1>0, <2>2, BoundAssumption DEF Incident, DeliveryTypeOK
    <3>3. QED
      BY <2>2, <3>1, <3>2 DEF Send
  <2>3. QED
    BY <2>1, <2>2 DEF Send
<1> DEFINE j == [job[a] EXCEPT !.at = ch, !.step = s]
<1>2. /\ j \in Job /\ j.state = "running" /\ j.check = job[a].check /\ j.ids = job[a].ids
      /\ j.todo = job[a].todo /\ j.at = ch /\ j.step = s
      /\ j.tries = job[a].tries /\ j.stalls = job[a].stalls
  BY <1>0, <1>1 DEF Job
<1> HIDE DEF j
<1>3. job'[a] = j /\ Runs(a)' = Runs(a) /\ ch # NoChannel
  BY <1>0, <1>1, <1>2, NullAssumption DEF DeliveryTypeOK, Runs, j
<1>4. /\ \A d \in Channels : sent[a][d] \in Nat /\ oks[a][d] \in Nat /\ fails[a][d] \in Nat
      /\ sent' \in [Alerts -> [Channels -> Nat]]
      /\ \A b \in Alerts : b # a => sent'[b] = sent[b]
      /\ \A d \in Channels : d # ch => sent'[a][d] = sent[a][d]
      /\ sent'[a][ch] \in sent[a][ch] .. sent[a][ch] + 1
      /\ s = "sent" => sent'[a][ch] = sent[a][ch] + 1
  <2>1. \A d \in Channels : sent[a][d] \in Nat /\ oks[a][d] \in Nat /\ fails[a][d] \in Nat
    BY <1>0 DEF DeliveryTypeOK
  <2>2. CASE Arrives(a, ch)
    BY <1>0, <2>1, <2>2, OneMore DEF DeliveryTypeOK, Arrives
  <2>3. CASE s = "thrown" /\ UNCHANGED sent
    BY <1>0, <2>1, <2>3 DEF DeliveryTypeOK
  <2>4. QED
    BY <1>1, <2>2, <2>3
<1>5. DeliveryTypeOK'
  BY <1>0, <1>1, <1>2, <1>4 DEF DeliveryTypeOK, routing, j
<1>6. JobInOrder(a)'
  BY <1>0, <1>1, <1>2, <1>3 DEF AlertInOrder, JobInOrder
<1>7. SentInOrder(a)'
  <2>1. sent[a][ch] <= Runs(a)
    BY <1>0, <1>1, NullAssumption DEF AlertInOrder, SentInOrder
  <2>2. job[a].ids # Legacy => ch \in job[a].ids
    BY <1>0, <1>1 DEF AlertInOrder, JobInOrder
  <2>3. ASSUME NEW d \in Channels
        PROVE  sent'[a][d] <= Runs(a)' + (IF \/ job'[a].state = "waiting"
                                             \/ d \in job'[a].todo \ {job'[a].at} THEN 0 ELSE 1)
    <3>1. CASE d = ch
      BY <1>0, <1>1, <1>2, <1>3, <1>4, <2>1, <3>1
    <3>2. CASE d # ch
      <4>1. sent[a][d] <= Runs(a) + (IF d \in job[a].todo THEN 0 ELSE 1) /\ d # NoChannel
        BY <1>0, <1>1, NullAssumption DEF AlertInOrder, SentInOrder
      <4>2. QED
        BY <1>0, <1>1, <1>2, <1>3, <1>4, <3>2, <4>1
    <3>3. QED
      BY <3>1, <3>2
  <2>4. ASSUME job'[a].ids # Legacy, NEW d \in Channels, sent'[a][d] > 0 PROVE d \in job'[a].ids
    <3>1. CASE d = ch
      BY <1>2, <1>3, <2>2, <2>4, <3>1
    <3>2. CASE d # ch
      BY <1>0, <1>2, <1>3, <1>4, <2>4, <3>2 DEF AlertInOrder, SentInOrder
    <3>3. QED
      BY <3>1, <3>2
  <2>5. QED
    BY <1>2, <1>3, <2>3, <2>4 DEF SentInOrder
<1>8. SteadyAhead(a)'
  BY <1>0, <1>1, <1>2, <1>3 DEF AlertInOrder, SteadyAhead, Deliverable, routing
<1>9. ToldInOrder(a)'
  <2>1. Untold(a)' \subseteq Untold(a) /\ IsFiniteSet(Untold(a))
    <3>1. Untold(a)' \subseteq Untold(a)
      BY <1>0, <1>1, <1>2, <1>3, <1>4, NullAssumption DEF Untold
    <3>2. IsFiniteSet(Untold(a))
      BY TableAssumption, FS_Subset DEF Untold
    <3>3. QED
      BY <3>1, <3>2
  <2>2. Cardinality(Untold(a)') <= Cardinality(Untold(a))
    BY <2>1, FS_Subset
  <2>3. Cardinality(Untold(a)') \in Nat /\ Cardinality(Untold(a)) \in Nat
    BY <2>1, FS_Subset, FS_CardinalityType
  <2>4. home'[job'[a].check] # Gone => Cardinality(Untold(a)') <= Runs(a)'
    BY <1>0, <1>1, <1>2, <1>3, <2>2, <2>3 DEF AlertInOrder, ToldInOrder, routing
  <2>5. \A d \in Channels : oks'[a][d] <= sent'[a][d]
    BY <1>0, <1>1, <1>4 DEF AlertInOrder, ToldInOrder
  <2>6. job'[a].step = "sent" => oks'[a][job'[a].at] < sent'[a][job'[a].at]
    BY <1>0, <1>1, <1>2, <1>3, <1>4 DEF AlertInOrder, ToldInOrder
  <2>7. QED
    BY <2>4, <2>5, <2>6 DEF ToldInOrder
<1>10. QED
  BY <1>0, <1>1, <1>4, <1>5, <1>6, <1>7, <1>8, <1>9, OneAlertSteps DEF AlertInOrder, DeliveryTypeOK

\* The result is written: the recipient is handled.
LEMMA LogKeepsOrder == ASSUME DeliveryRight, NEW a \in Alerts, Log(a) PROVE DeliveryRight'
<1> DEFINE ch == job[a].at
           j == HandledNext(a)
<1>0. DeliveryTypeOK /\ AlertInOrder(a) /\ job[a] \in Job /\ Runs(a) \in Nat
  BY RunsTyped DEF DeliveryRight, DeliveryTypeOK
<1>1. /\ job' = [job EXCEPT ![a] = j] /\ job[a].step # "send"
      /\ IF job[a].step = "sent"
           THEN oks' = [oks EXCEPT ![a][ch] = @ + 1] /\ fails' = fails
           ELSE fails' = [fails EXCEPT ![a][ch] = @ + 1] /\ oks' = oks
      /\ UNCHANGED <<routing, steady, sent, incidents>>
  BY DEF Log
<1>2. /\ ch \in Channels /\ ch # NoChannel /\ ch \in job[a].todo /\ job[a].state = "running"
  BY <1>0, <1>1, NullAssumption DEF AlertInOrder, JobInOrder, Job
<1>3. /\ j \in Job /\ j.state = "running" /\ j.check = job[a].check /\ j.ids = job[a].ids
      /\ j.todo = job[a].todo \ {ch} /\ j.at = NoChannel /\ j.step = "send"
      /\ j.tries = job[a].tries /\ j.stalls = job[a].stalls
  BY <1>0, <1>2 DEF Job, HandledNext
<1>4. /\ \A d \in Channels : sent[a][d] \in Nat /\ oks[a][d] \in Nat /\ fails[a][d] \in Nat
      /\ oks' \in [Alerts -> [Channels -> Nat]] /\ fails' \in [Alerts -> [Channels -> Nat]]
      /\ \A b \in Alerts : b # a => oks'[b] = oks[b] /\ fails'[b] = fails[b]
      /\ \A d \in Channels : d # ch => oks'[a][d] = oks[a][d] /\ fails'[a][d] = fails[a][d]
      /\ oks'[a][ch] + fails'[a][ch] = oks[a][ch] + fails[a][ch] + 1
      /\ oks'[a][ch] = IF job[a].step = "sent" THEN oks[a][ch] + 1 ELSE oks[a][ch]
  <2>1. \A d \in Channels : sent[a][d] \in Nat /\ oks[a][d] \in Nat /\ fails[a][d] \in Nat
    BY <1>0 DEF DeliveryTypeOK
  <2> oks \in [Alerts -> [Channels -> Nat]] /\ fails \in [Alerts -> [Channels -> Nat]] /\ ch \in Channels
    BY <1>0, <1>2 DEF DeliveryTypeOK
  <2> HIDE DEF ch
  <2>2. CASE job[a].step = "sent"
    <3>1. oks' = [oks EXCEPT ![a][ch] = @ + 1] /\ fails' = fails
      BY <1>1, <2>2
    <3>2. QED
      BY <2>1, <2>2, <3>1, OneMore
  <2>3. CASE job[a].step # "sent"
    <3>1. fails' = [fails EXCEPT ![a][ch] = @ + 1] /\ oks' = oks
      BY <1>1, <2>3
    <3>2. /\ fails' \in [Alerts -> [Channels -> Nat]]
          /\ \A b \in Alerts : b # a => fails'[b] = fails[b]
          /\ \A d \in Channels : d # ch => fails'[a][d] = fails[a][d]
          /\ fails'[a][ch] = fails[a][ch] + 1
      BY <3>1, OneMore
    <3>3. oks'[a][ch] = oks[a][ch] /\ oks[a][ch] \in Nat /\ fails[a][ch] \in Nat
      BY <2>1, <3>1
    <3>4. oks'[a][ch] + fails'[a][ch] = oks[a][ch] + fails[a][ch] + 1
      BY <3>2, <3>3
    <3>5. QED
      BY <2>1, <2>3, <3>1, <3>2, <3>3, <3>4
  <2>4. QED
    BY <2>2, <2>3
<1> HIDE DEF j
<1>5. job'[a] = j /\ Runs(a)' = Runs(a)
  BY <1>0, <1>1, <1>3 DEF DeliveryTypeOK, Runs
<1> HIDE DEF ch
<1>6. DeliveryTypeOK'
  BY <1>0, <1>1, <1>3, <1>4 DEF DeliveryTypeOK, routing
<1>7. JobInOrder(a)'
  BY <1>0, <1>2, <1>3, <1>5 DEF AlertInOrder, JobInOrder
<1>8. SentInOrder(a)'
  BY <1>0, <1>1, <1>2, <1>3, <1>5, NullAssumption DEF AlertInOrder, SentInOrder, ch
<1>9. SteadyAhead(a)'
  <2>1. \A d \in steady[a] : d \in j.todo \/ oks'[a][d] + fails'[a][d] > 0
    BY <1>0, <1>2, <1>3, <1>4 DEF AlertInOrder, SteadyAhead, DeliveryTypeOK
  <2>2. QED
    BY <1>0, <1>1, <1>2, <1>3, <1>5, <2>1 DEF AlertInOrder, SteadyAhead, Deliverable, routing
<1>10. ToldInOrder(a)'
  <2>1. Untold(a)' = Untold(a)
    <3>1. ASSUME NEW d \in Channels
          PROVE  oks'[a][d] + fails'[a][d] + (IF d = job'[a].at THEN 1 ELSE 0)
                     = oks[a][d] + fails[a][d] + (IF d = job[a].at THEN 1 ELSE 0)
      BY <1>2, <1>3, <1>4, <1>5, NullAssumption DEF ch
    <3>2. QED
      BY <1>1, <3>1 DEF Untold
  <2>2. \A d \in Channels : oks'[a][d] <= sent'[a][d]
    BY <1>0, <1>1, <1>2, <1>4 DEF AlertInOrder, ToldInOrder, ch
  <2>3. QED
    BY <1>0, <1>1, <1>3, <1>5, <2>1, <2>2 DEF AlertInOrder, ToldInOrder, routing
<1>11. QED
  BY <1>0, <1>1, <1>4, <1>6, <1>7, <1>8, <1>9, <1>10, OneAlertSteps DEF AlertInOrder, DeliveryTypeOK

\* The run ends early: a try or a stall more, and one untold message at most.
LEMMA OverKeepsOrder ==
    ASSUME DeliveryRight, NEW a \in Alerts, job[a].state = "running",
           NEW s \in {"waiting", "failed"}, NEW t \in Nat, NEW st \in Nat,
           t + st = Runs(a) + 1, t <= MaxAttempts, st <= MaxStalls + 1,
           s = "waiting" => t < MaxAttempts /\ st <= MaxStalls,
           job' = [job EXCEPT ![a] = [job[a] EXCEPT !.state = s, !.todo = {}, !.at = NoChannel,
                                                    !.step = "send", !.tries = t, !.stalls = st]],
           UNCHANGED <<routing, steady, results>>, incidents' \in 0 .. MaxIncidents
    PROVE  DeliveryRight'
<1> DEFINE j == [job[a] EXCEPT !.state = s, !.todo = {}, !.at = NoChannel,
                               !.step = "send", !.tries = t, !.stalls = st]
<1>0. DeliveryTypeOK /\ AlertInOrder(a) /\ job[a] \in Job /\ Runs(a) \in Nat
  BY RunsTyped DEF DeliveryRight, DeliveryTypeOK
<1>1. /\ j \in Job /\ j.state = s
      /\ j.check = job[a].check /\ j.ids = job[a].ids
      /\ j.todo = {} /\ j.at = NoChannel /\ j.step = "send" /\ j.tries = t /\ j.stalls = st
  <2>1. t \in 0 .. MaxAttempts /\ st \in 0 .. MaxStalls + 1
    BY BoundAssumption
  <2>2. QED
    BY <1>0, <2>1 DEF Job
<1>2. job' = [job EXCEPT ![a] = j]
  OBVIOUS
<1> HIDE DEF j
<1>3. job'[a] = j /\ Runs(a)' = Runs(a) + 1
  BY <1>0, <1>1, <1>2 DEF DeliveryTypeOK, Runs
<1>4. JobInOrder(a)'
  BY <1>1, <1>3 DEF JobInOrder
<1>5. SentInOrder(a)'
  <2>1. ASSUME NEW ch \in Channels PROVE sent[a][ch] <= Runs(a)' /\ sent[a][ch] \in Nat
    <3>1. sent[a][ch] \in Nat
      BY <1>0 DEF DeliveryTypeOK
    <3>2. sent[a][ch] <= Runs(a) + 0 \/ sent[a][ch] <= Runs(a) + 1
      BY <1>0 DEF AlertInOrder, SentInOrder
    <3>3. QED
      BY <1>0, <1>3, <3>1, <3>2
  <2>2. QED
    BY <1>0, <1>1, <1>3, <2>1 DEF AlertInOrder, SentInOrder, results
<1>6. SteadyAhead(a)'
  BY <1>0, <1>1, <1>3 DEF AlertInOrder, SteadyAhead, Deliverable, routing, results
<1>7. ToldInOrder(a)'
  <2>1. IsFiniteSet(Untold(a))
    BY TableAssumption, FS_Subset DEF Untold
  <2>2. Untold(a)' \subseteq Untold(a) \cup {job[a].at}
    <3>1. ASSUME NEW ch \in Untold(a)', ch # job[a].at PROVE ch \in Untold(a)
      <4>1. /\ ch \in Channels /\ ch # NoChannel
            /\ sent[a][ch] > oks[a][ch] + fails[a][ch] + 0
        BY <1>1, <1>3, NullAssumption DEF Untold, results
      <4>2. QED
        BY <3>1, <4>1 DEF Untold
    <3>2. QED
      BY <3>1
  <2>3. /\ IsFiniteSet(Untold(a) \cup {job[a].at})
        /\ Cardinality(Untold(a) \cup {job[a].at}) <= Cardinality(Untold(a)) + 1
    <3>1. Cardinality(Untold(a)) \in Nat
      BY <2>1, FS_CardinalityType
    <3>2. /\ IsFiniteSet(Untold(a) \cup {job[a].at})
          /\ Cardinality(Untold(a) \cup {job[a].at}) =
               IF job[a].at \in Untold(a) THEN Cardinality(Untold(a)) ELSE Cardinality(Untold(a)) + 1
      <4> DEFINE S == Untold(a)
                 x == job[a].at
      <4> HIDE DEF S, x
      <4>1. IsFiniteSet(S)
        BY <2>1 DEF S
      <4>2. QED
        BY <4>1, FS_AddElement DEF S, x
    <3>3. QED
      BY <3>1, <3>2
  <2>4. Cardinality(Untold(a)') <= Cardinality(Untold(a) \cup {job[a].at})
    BY <2>2, <2>3, FS_Subset
  <2>5. /\ Cardinality(Untold(a)) \in Nat /\ Cardinality(Untold(a) \cup {job[a].at}) \in Nat
        /\ Cardinality(Untold(a)') \in Nat
    BY <2>1, <2>2, <2>3, FS_Subset, FS_CardinalityType
  <2>6. ASSUME home'[job'[a].check] # Gone PROVE Cardinality(Untold(a)') <= Runs(a)'
    <3>1. Cardinality(Untold(a)) <= Runs(a)
      BY <1>0, <1>1, <1>3, <2>6 DEF AlertInOrder, ToldInOrder, routing
    <3>2. QED
      BY <1>0, <1>3, <2>3, <2>4, <2>5, <3>1
  <2>7. QED
    BY <1>0, <1>1, <1>3, <2>6 DEF AlertInOrder, ToldInOrder, results
<1>8. QED
  BY <1>0, <1>1, <1>2, <1>4, <1>5, <1>6, <1>7, JobMovesOn

LEMMA LogFailsKeepsOrder == ASSUME DeliveryRight, NEW a \in Alerts, LogFails(a) PROVE DeliveryRight'
<1>0. DeliveryTypeOK /\ AlertInOrder(a) /\ job[a] \in Job /\ Runs(a) \in Nat /\ job[a].state = "running"
  BY RunsTyped DEF DeliveryRight, DeliveryTypeOK, LogFails, AlertInOrder, JobInOrder, Job
<1>1. incidents' \in 0 .. MaxIncidents /\ UNCHANGED <<routing, steady, results>>
  BY <1>0, BoundAssumption DEF LogFails, Incident, DeliveryTypeOK
<1>2. CASE job[a].step = "sent"
  <2> DEFINE j == [job[a] EXCEPT !.step = "unlogged"]
  <2>1. job' = [job EXCEPT ![a] = j]
    BY <1>2 DEF LogFails
  <2>2. /\ j \in Job /\ j.state = job[a].state /\ j.check = job[a].check /\ j.ids = job[a].ids
        /\ j.todo = job[a].todo /\ j.at = job[a].at /\ j.step = "unlogged"
        /\ j.tries = job[a].tries /\ j.stalls = job[a].stalls
    BY <1>0 DEF Job
  <2> HIDE DEF j
  <2>3. job'[a] = j /\ Runs(a)' = Runs(a)
    BY <1>0, <2>1, <2>2 DEF DeliveryTypeOK, Runs
  <2>4. JobInOrder(a)'
    BY <1>0, <1>2, <2>2, <2>3 DEF AlertInOrder, JobInOrder
  <2>5. SentInOrder(a)'
    BY <1>0, <1>1, <2>2, <2>3 DEF AlertInOrder, SentInOrder, results
  <2>6. SteadyAhead(a)'
    BY <1>0, <1>1, <2>2, <2>3 DEF AlertInOrder, SteadyAhead, Deliverable, routing, results
  <2>7. ToldInOrder(a)'
    <3>1. Untold(a)' = Untold(a)
      BY <1>1, <2>2, <2>3 DEF Untold, results
    <3>2. QED
      BY <1>0, <1>1, <2>2, <2>3, <3>1 DEF AlertInOrder, ToldInOrder, routing, results
  <2>8. QED
    BY <1>1, <2>1, <2>2, <2>4, <2>5, <2>6, <2>7, JobMovesOn
<1>3. CASE job[a].step # "sent"
  <2> DEFINE s == IF job[a].tries + 1 < MaxAttempts THEN "waiting" ELSE "failed"
  <2>1. /\ job[a].tries \in Nat /\ job[a].stalls \in Nat
        /\ job[a].tries < MaxAttempts /\ job[a].stalls <= MaxStalls
    BY <1>0, BoundAssumption DEF AlertInOrder, JobInOrder, Job
  <2>2. job' = [job EXCEPT ![a] = [job[a] EXCEPT !.state = s, !.todo = {}, !.at = NoChannel, !.step = "send",
                                                 !.tries = job[a].tries + 1, !.stalls = job[a].stalls]]
    BY <1>0, <1>3 DEF LogFails, Failed, Over, Job
  <2>3. job[a].tries + 1 + job[a].stalls = Runs(a) + 1
    BY <2>1 DEF Runs
  <2>4. /\ job[a].tries + 1 \in Nat /\ job[a].tries + 1 <= MaxAttempts /\ job[a].stalls <= MaxStalls + 1
        /\ s \in {"waiting", "failed"}
        /\ s = "waiting" => job[a].tries + 1 < MaxAttempts /\ job[a].stalls <= MaxStalls
    BY <2>1, BoundAssumption
  <2> HIDE DEF s
  <2>5. QED
    BY <1>0, <1>1, <2>1, <2>2, <2>3, <2>4, OverKeepsOrder
<1>4. QED
  BY <1>2, <1>3

LEMMA WorkerDiesKeepsOrder == ASSUME DeliveryRight, NEW a \in Alerts, WorkerDies(a) PROVE DeliveryRight'
<1> DEFINE s == IF job[a].stalls < MaxStalls THEN "waiting" ELSE "failed"
<1>0. DeliveryTypeOK /\ AlertInOrder(a) /\ job[a] \in Job /\ Runs(a) \in Nat /\ job[a].state = "running"
  BY RunsTyped DEF DeliveryRight, DeliveryTypeOK, WorkerDies
<1>1. incidents' \in 0 .. MaxIncidents /\ UNCHANGED <<routing, steady, results>>
  BY <1>0, BoundAssumption DEF WorkerDies, Incident, DeliveryTypeOK
<1>2. /\ job[a].tries \in Nat /\ job[a].stalls \in Nat
      /\ job[a].tries < MaxAttempts /\ job[a].stalls <= MaxStalls
  BY <1>0, BoundAssumption DEF AlertInOrder, JobInOrder, Job
<1>3. job' = [job EXCEPT ![a] = [job[a] EXCEPT !.state = s, !.todo = {}, !.at = NoChannel, !.step = "send",
                                               !.tries = job[a].tries, !.stalls = job[a].stalls + 1]]
  BY <1>0 DEF WorkerDies, Over, Job
<1>4. job[a].tries + (job[a].stalls + 1) = Runs(a) + 1
  BY <1>2 DEF Runs
<1>5. /\ job[a].stalls + 1 \in Nat /\ job[a].tries <= MaxAttempts /\ job[a].stalls + 1 <= MaxStalls + 1
      /\ s \in {"waiting", "failed"}
      /\ s = "waiting" => job[a].tries < MaxAttempts /\ job[a].stalls + 1 <= MaxStalls
  BY <1>2, BoundAssumption
<1> HIDE DEF s
<1>6. QED
  BY <1>0, <1>1, <1>2, <1>3, <1>4, <1>5, OverKeepsOrder

-----------------------------------------------------------------------------
(* Theorems *)

LEMMA StepKeepsOrder == DeliveryRight /\ [DeliveryNext]_deliveryVars => DeliveryRight'
<1> SUFFICES ASSUME DeliveryRight, [DeliveryNext]_deliveryVars PROVE DeliveryRight'
  OBVIOUS
<1>1. CASE Users
  BY <1>1, UsersKeepOrder
<1>2. ASSUME NEW a \in Alerts,
             \/ \E c \in Checks, legacy \in BOOLEAN : Commit(a, c, legacy)
             \/ Queue(a) \/ Lose(a)
      PROVE  DeliveryRight'
  BY <1>2, ProducersKeepOrder
<1>3. ASSUME NEW a \in Alerts, Consume(a) PROVE DeliveryRight'
  BY <1>3, SkipKeepsOrder, StartKeepsOrder, SendKeepsOrder, LogKeepsOrder DEF Consume
<1>4. ASSUME NEW a \in Alerts, LogFails(a) \/ WorkerDies(a) PROVE DeliveryRight'
  BY <1>4, LogFailsKeepsOrder, WorkerDiesKeepsOrder
<1>5. CASE UNCHANGED deliveryVars
  <2>1. \A a \in Alerts : AlertInOrder(a)'
    BY <1>5, UntouchedStaysInOrder DEF DeliveryRight, deliveryVars, routing
  <2>2. DeliveryTypeOK' /\ ExclusionsStayHome'
    BY <1>5 DEF DeliveryRight, DeliveryTypeOK, ExclusionsStayHome, deliveryVars
  <2>3. QED
    BY <2>1, <2>2 DEF DeliveryRight
<1>6. QED
  BY <1>1, <1>2, <1>3, <1>4, <1>5 DEF DeliveryNext

\* The inductive invariant holds in every state.
THEOREM DeliveryInvariant == DeliverySpec => []DeliveryRight
<1>1. QED
  BY DeliveryBegins, StepKeepsOrder, PTL DEF DeliverySpec

LEMMA OrderSelects == DeliveryRight => OnlySelected
<1> SUFFICES ASSUME DeliveryRight PROVE OnlySelectedOnceARun
  BY DEF DeliveryRight, OnlySelected
<1>1. ASSUME NEW a \in Alerts, NEW ch \in Channels
      PROVE  /\ sent[a][ch] > 0 /\ job[a].ids # Legacy => ch \in job[a].ids
             /\ sent[a][ch] <= Runs(a) + 1
  <2>1. AlertInOrder(a) /\ Runs(a) \in Nat /\ sent[a][ch] \in Nat
    BY RunsTyped DEF DeliveryRight, DeliveryTypeOK
  <2>2. QED
    BY <2>1 DEF AlertInOrder, SentInOrder
<1>2. QED
  BY <1>1 DEF OnlySelectedOnceARun

\* Whatever users change between a transition and the run of its job, however
\* often the job fails or stalls: an alert reaches only channels selected for
\* it, each once a run, and no exclusion outlives a move.
THEOREM DeliverySelects == DeliverySpec => []OnlySelected
<1>1. QED
  BY DeliveryInvariant, OrderSelects, PTL

LEMMA OrderServes == DeliveryRight => ServedAndTold
<1> SUFFICES ASSUME DeliveryRight PROVE SteadyChannelsServed /\ ResultsCoverDeliveries
  BY DEF ServedAndTold
<1>1. SteadyChannelsServed
  BY DEF DeliveryRight, AlertInOrder, JobInOrder, SteadyAhead, SteadyChannelsServed
<1>2. ASSUME NEW a \in Alerts, home[job[a].check] # Gone
      PROVE  Cardinality({ch \in Channels : sent[a][ch] > oks[a][ch] + fails[a][ch]})
                 <= Runs(a) + (IF job[a].at = NoChannel THEN 0 ELSE 1)
  <2> DEFINE untold == {ch \in Channels : sent[a][ch] > oks[a][ch] + fails[a][ch]}
  <2>1. AlertInOrder(a) /\ Runs(a) \in Nat /\ DeliveryTypeOK
    BY RunsTyped DEF DeliveryRight
  <2>2. IsFiniteSet(Untold(a)) /\ Cardinality(Untold(a)) \in Nat
    BY TableAssumption, FS_Subset, FS_CardinalityType DEF Untold
  <2>3. CASE job[a].at = NoChannel
    <3>1. untold = Untold(a)
      BY <2>1, <2>3, NullAssumption DEF Untold, DeliveryTypeOK
    <3>2. QED
      BY <1>2, <2>1, <2>3, <3>1 DEF AlertInOrder, ToldInOrder
  <2>4. CASE job[a].at # NoChannel
    <3>1. untold \subseteq Untold(a) \cup {job[a].at}
      BY <2>1 DEF Untold, DeliveryTypeOK
    <3>2. /\ IsFiniteSet(Untold(a) \cup {job[a].at})
          /\ Cardinality(Untold(a) \cup {job[a].at}) <= Cardinality(Untold(a)) + 1
      BY <2>2, FS_AddElement
    <3>3. Cardinality(untold) <= Cardinality(Untold(a) \cup {job[a].at}) /\ IsFiniteSet(untold)
      BY <3>1, <3>2, FS_Subset
    <3>4. Cardinality(untold) \in Nat /\ Cardinality(Untold(a) \cup {job[a].at}) \in Nat
      BY <3>2, <3>3, FS_CardinalityType
    <3>5. Cardinality(Untold(a)) <= Runs(a)
      BY <1>2, <2>1 DEF AlertInOrder, ToldInOrder
    <3>6. QED
      BY <2>1, <2>2, <2>4, <3>2, <3>3, <3>4, <3>5
  <2>5. QED
    BY <2>3, <2>4
<1>3. QED
  BY <1>1, <1>2 DEF DeliveryRight, AlertInOrder, ToldInOrder, ResultsCoverDeliveries

\* A channel selected at the transition, and deliverable since, has a result
\* once the job is done; and no more messages than runs that ended early are
\* without a result, whichever channels, tries and crashes there are.
THEOREM DeliveryServes == DeliverySpec => []ServedAndTold
<1>1. QED
  BY DeliveryInvariant, OrderServes, PTL
=============================================================================
