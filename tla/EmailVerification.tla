------------------------- MODULE EmailVerification -------------------------
(* The confirmation of one e-mail channel: create and delete of              *)
(* channels.service.ts, email-verification.service.ts, the queue, the        *)
(* worker's email-verification-handler.ts, and a page of the link.           *)
(*                                                                           *)
(* A token stands for its hash as well.  verificationSentAt is a state: no   *)
(* time, the time at which resend reserved it, or the time of the answer.    *)
(* What a reservation says of its owner is the token that came with it.      *)
EXTENDS Naturals, FiniteSets

CONSTANTS
    Requests,      \* calls of create and resend under way
    MaxTokens,     \* bound on the tokens of a behaviour
    MaxTries,      \* attempts of a job
    MaxFaults,     \* bound on lost answers, failures and crashes
    Opened         \* bound: tokens whose link is opened in the page

ASSUME EmailAssumption == MaxTokens \in Nat \ {0} /\ MaxTries \in Nat \ {0} /\ MaxFaults \in Nat /\ Opened \subseteq Nat

VARIABLES
    email,      \* the channel
    tokens,     \* tokens made so far
    request,
    jobs,
    inbox,      \* tokens that mails have brought
    page,      \* a browser's page of a link (verify-email/page.tsx)
    faults,
    queued,     \* tokens that a job was stored for (no code knows)
    abandoned   \* tokens whose request failed or died (no code knows)

emailVars == <<email, tokens, request, jobs, inbox, page, faults, queued, abandoned>>

Tokens == 1 .. MaxTokens

NoEmail == [exists |-> FALSE]

\* cooling: sent less than a minute ago.
EmailChannels == [exists : {TRUE}, token : 0 .. MaxTokens, verified : BOOLEAN, expired : BOOLEAN,
             sent : {"no", "reserved", "yes"}, cooling : BOOLEAN]

NoPage == [pc |-> "closed"]

\* dead: the page says that the link has expired, or that it is invalid or has
\* been used.
EmailPages == [token : Tokens, pc : {"loading", "pending", "good", "verified", "dead"}]

NoRequest == [pc |-> "none"]

EmailRequests == [pc : {"enqueue", "done", "failed"}, kind : {"create", "resend"}, token : Tokens, tries : 0 .. 1]

\* copy tells the jobs of an addition that was tried twice.
Jobs == [token : Tokens, copy : 0 .. 1, attempt : 1 .. MaxTries, pc : {"waiting", "sending"}]

-----------------------------------------------------------------------------
MailAt(r, pc) == request[r].pc = pc

Current(t) == email.exists /\ email.token = t

Usable(t) == Current(t) /\ ~email.verified /\ ~email.expired

Faults == faults < MaxFaults /\ faults' = faults + 1

Replies(r) == request' = [request EXCEPT ![r] = NoRequest]

-----------------------------------------------------------------------------
(* The API *)

\* create; the channel is enabled once it is verified, so this is one field.
Creates(r) ==
    /\ MailAt(r, "none") /\ ~email.exists /\ tokens = 0
    /\ tokens' = 1
    /\ email' = [exists |-> TRUE, token |-> 1, verified |-> FALSE, expired |-> FALSE,
                 sent |-> "no", cooling |-> FALSE]
    /\ request' = [request EXCEPT ![r] = [pc |-> "enqueue", kind |-> "create", token |-> 1, tries |-> 0]]
    /\ UNCHANGED <<jobs, inbox, page, faults, queued, abandoned>>

\* rotateToken, under the lock of the channel.
MayRotate == email.exists /\ ~email.verified /\ ~(email.sent # "no" /\ email.cooling)

Rotates(r) ==
    /\ MailAt(r, "none")
    /\ MayRotate
    /\ tokens \in 1 .. MaxTokens - 1
    /\ tokens' = tokens + 1
    /\ email' = [email EXCEPT !.token = tokens + 1, !.expired = FALSE, !.sent = "reserved", !.cooling = TRUE]
    /\ request' = [request EXCEPT ![r] = [pc |-> "enqueue", kind |-> "resend", token |-> tokens + 1, tries |-> 0]]
    /\ UNCHANGED <<jobs, inbox, page, faults, queued, abandoned>>

\* enqueue, which tries twice.
Stores(r) ==
    LET t == request[r].token IN
    /\ jobs' = jobs \cup {[token |-> t, copy |-> request[r].tries, attempt |-> 1, pc |-> "waiting"]}
    /\ queued' = queued \cup {t}

Enqueues(r) ==
    /\ MailAt(r, "enqueue")
    /\ Stores(r)
    /\ request' = [request EXCEPT ![r].pc = "done"]
    /\ UNCHANGED <<email, tokens, inbox, faults, abandoned, page>>

\* The queue is out of reach for one attempt or for both; the job may have been
\* stored all the same.
EnqueueFails(r) ==
    /\ MailAt(r, "enqueue")
    /\ IF request[r].tries = 0 THEN Faults ELSE UNCHANGED faults
    /\ Stores(r) \/ UNCHANGED <<jobs, queued>>
    /\ IF request[r].tries = 0
       THEN request' = [request EXCEPT ![r].tries = 1] /\ UNCHANGED abandoned
       ELSE request' = [request EXCEPT ![r].pc = "failed"] /\ abandoned' = abandoned \cup {request[r].token}
    /\ UNCHANGED <<email, tokens, inbox, page>>

\* What a resend reserved, it and nobody else turns into the time of the
\* answer; create reserves nothing.
Owns(r) ==
    /\ Current(request[r].token)
    /\ request[r].kind = "resend" => email.sent = "reserved"

Acknowledges(r) ==
    /\ MailAt(r, "done")
    /\ email' = IF Owns(r) THEN [email EXCEPT !.sent = "yes", !.cooling = TRUE] ELSE email
    /\ Replies(r)
    /\ UNCHANGED <<tokens, jobs, inbox, page, faults, queued, abandoned>>

\* Faulty: whoever has the channel now.
ClearsAny(r) ==
    /\ MailAt(r, "failed")
    /\ email' = IF email.exists THEN [email EXCEPT !.sent = "no"] ELSE email
    /\ Replies(r)
    /\ UNCHANGED <<tokens, jobs, inbox, page, faults, queued, abandoned>>

Clears(r) ==
    /\ MailAt(r, "failed")
    /\ email' = IF request[r].kind = "resend" /\ Owns(r) THEN [email EXCEPT !.sent = "no"] ELSE email
    /\ Replies(r)
    /\ UNCHANGED <<tokens, jobs, inbox, page, faults, queued, abandoned>>

RequestDies(r) ==
    /\ ~MailAt(r, "none")
    /\ Faults
    /\ abandoned' = abandoned \cup {request[r].token}
    /\ Replies(r)
    /\ UNCHANGED <<email, tokens, jobs, inbox, queued, page>>

\* Faulty: any token that was ever sent.
ConfirmsAny(t) ==
    /\ email.exists /\ ~email.verified
    /\ email' = [email EXCEPT !.verified = TRUE, !.token = 0]

\* verify, under the lock of the channel.  The hash is removed.
Confirms(t) ==
    /\ Usable(t)
    /\ email' = [email EXCEPT !.verified = TRUE, !.token = 0]

\* By a link that a mail brought, from any other page than the one below.
Verifies(t) ==
    /\ t \in inbox
    /\ Confirms(t)
    /\ UNCHANGED <<tokens, request, jobs, inbox, page, faults, queued, abandoned>>

DeletesChannel ==
    /\ email.exists
    /\ email' = NoEmail
    /\ UNCHANGED <<tokens, request, jobs, inbox, page, faults, queued, abandoned>>

\* A minute, a day after a token was made.
CoolsDown ==
    /\ email.exists /\ email.cooling
    /\ email' = [email EXCEPT !.cooling = FALSE]
    /\ UNCHANGED <<tokens, request, jobs, inbox, page, faults, queued, abandoned>>

TokenExpires ==
    /\ email.exists /\ ~email.expired
    /\ email' = [email EXCEPT !.expired = TRUE, !.cooling = FALSE]
    /\ UNCHANGED <<tokens, request, jobs, inbox, page, faults, queued, abandoned>>

-----------------------------------------------------------------------------
(* The worker: handleEmailVerification *)

Takes(j) ==
    /\ j.pc = "waiting"
    /\ jobs' = (jobs \ {j}) \cup IF Usable(j.token) THEN {[j EXCEPT !.pc = "sending"]} ELSE {}
    /\ UNCHANGED <<email, tokens, request, inbox, page, faults, queued, abandoned>>

SendsMail(j) ==
    /\ j.pc = "sending"
    /\ inbox' = inbox \cup {j.token}
    /\ jobs' = jobs \ {j}
    /\ UNCHANGED <<email, tokens, request, faults, queued, abandoned, page>>

\* The mail server's answer is an error or gets lost, or the worker dies: the
\* mail may have been sent, and the job has its next attempt.
SendFails(j) ==
    /\ j.pc = "sending"
    /\ Faults
    /\ inbox' \in {inbox, inbox \cup {j.token}}
    /\ jobs' = (jobs \ {j}) \cup
               IF j.attempt < MaxTries THEN {[j EXCEPT !.pc = "waiting", !.attempt = @ + 1]} ELSE {}
    /\ UNCHANGED <<email, tokens, request, queued, abandoned, page>>

-----------------------------------------------------------------------------
(* The page of a link, in a browser: a preview, and a button.                  *)

PageAt(pc) == page.pc = pc

Turns(pc) == page' = [page EXCEPT !.pc = pc]

OpensLink(t) ==
    /\ PageAt("closed") /\ t \in inbox \cap Opened
    /\ page' = [token |-> t, pc |-> "loading"]
    /\ UNCHANGED <<email, tokens, request, jobs, inbox, faults, queued, abandoned>>

\* Until the preview has an answer, the page can ask again.
PreviewShows ==
    /\ PageAt("loading")
    /\ Turns(IF Usable(page.token) THEN "pending" ELSE "dead")
    /\ UNCHANGED <<email, tokens, request, jobs, inbox, faults, queued, abandoned>>

\* Faulty: any answer is good news.
CallSucceeds ==
    /\ PageAt("pending")
    /\ \/ Confirms(page.token) /\ Turns("good")
       \/ ~Usable(page.token) /\ Turns("verified") /\ UNCHANGED email
    /\ UNCHANGED <<tokens, request, jobs, inbox, faults, queued, abandoned>>

\* The button, one call at a time.  A call on its way, or lost, is no different
\* from a user who waits, as long as the server has changed nothing.
CallVerifies ==
    /\ PageAt("pending")
    /\ \/ Confirms(page.token) /\ Turns("good")
       \/ ~Usable(page.token) /\ Turns("dead") /\ UNCHANGED email
    /\ UNCHANGED <<tokens, request, jobs, inbox, faults, queued, abandoned>>

CallAnswers ==
    /\ PageAt("good")
    /\ Turns("verified")
    /\ UNCHANGED <<email, tokens, request, jobs, inbox, faults, queued, abandoned>>

\* The server has verified, and its answer is lost: the button is there again.
CallFails ==
    /\ PageAt("good")
    /\ Faults
    /\ Turns("pending")
    /\ UNCHANGED <<email, tokens, request, jobs, inbox, queued, abandoned>>

-----------------------------------------------------------------------------
EmailInit ==
    /\ email = NoEmail
    /\ tokens = 0
    /\ request = [r \in Requests |-> NoRequest]
    /\ jobs = {}
    /\ inbox = {}
    /\ page = NoPage
    /\ faults = 0
    /\ queued = {}
    /\ abandoned = {}

EmailNext ==
    \/ \E r \in Requests :
          \/ Creates(r) \/ Rotates(r) \/ Enqueues(r) \/ EnqueueFails(r)
          \/ Acknowledges(r) \/ Clears(r) \/ RequestDies(r)
    \/ \E t \in Tokens : Verifies(t) \/ OpensLink(t)
    \/ DeletesChannel \/ CoolsDown \/ TokenExpires
    \/ PreviewShows \/ CallVerifies \/ CallAnswers \/ CallFails
    \/ \E j \in jobs : Takes(j) \/ SendsMail(j) \/ SendFails(j)

-----------------------------------------------------------------------------
\* The type invariant.
EmailTypeOK ==
    /\ email \in EmailChannels \cup {NoEmail}
    /\ tokens \in 0 .. MaxTokens
    /\ \A r \in Requests : request[r] \in EmailRequests \cup {NoRequest}
    /\ jobs \subseteq Jobs
    /\ inbox \subseteq Tokens /\ queued \subseteq Tokens /\ abandoned \subseteq Tokens
    /\ page \in EmailPages \cup {NoPage}
    /\ faults \in 0 .. MaxFaults

AtWork(t) == \E r \in Requests : ~MailAt(r, "none") /\ request[r].token = t

\* What the page shows of the newest token (verificationDeliveryStatus) is
\* true: SENT, that its mail was queued, or will be, or its request died;
\* NOT_SENT, that it is still being queued, or could not be, or its request
\* died.  However late the requests of earlier tokens end, they leave it alone.
DeliveryStatusIsTrue ==
    email.exists /\ ~email.verified =>
       IF email.sent = "no" THEN AtWork(email.token) \/ email.token \in abandoned
       ELSE email.token \in queued \/ AtWork(email.token) \/ email.token \in abandoned

\* What the page of a link says for good is right for good: verified, that the
\* channel is, while there is one; dead, that the link can no longer be used,
\* whatever was lost on the way and whoever else had the link.
LinkPageIsRight ==
    /\ PageAt("verified") /\ email.exists => email.verified
    /\ PageAt("dead") => ~Usable(page.token)

\* Only who got the newest token confirms the channel, and a channel once
\* confirmed stays so until it is deleted, whatever resends were under way.
NewestConfirms ==
    /\ email.exists /\ email'.exists /\ ~email.verified /\ email'.verified =>
           email.token = tokens /\ tokens \in inbox /\ ~email.expired
    /\ email.exists /\ email.verified => ~email'.exists \/ email'.verified
=============================================================================
