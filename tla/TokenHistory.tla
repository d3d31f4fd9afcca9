---------------------------- MODULE TokenHistory ----------------------------
(* The page that lists a user's tokens and revokes them (                    *)
(* personal-access-tokens.tsx), with what the API keeps of them.  The list   *)
(* is in Apollo's cache, which outlives the page; the time that the page     *)
(* tells by moves when a timer says so.                                      *)
(*                                                                           *)
(* A list that is asked for while one is under way is the same request, as   *)
(* Apollo deduplicates queries.  Creating a token is SecretGuard's.          *)
EXTENDS Naturals

CONSTANTS
    OwnTokens,     \* tokens, those to be made included
    NoToken,
    FirstTokens,     \* the rows there are at first
    NewTokens,       \* what can be made
    Horizon,         \* bound on the time
    LongestDelay,    \* maxSafeDelay
    MaxLists         \* bound on the lists asked for by creations, retries and visits

VARIABLES
    clock,
    rows,        \* api_tokens
    cached,      \* apiTokens, in the cache
    listing,     \* the request for the list: none, asked, or read with what it found
    history,
    calls,       \* revocations of pages that have been left
    lists        \* lists asked for

historyVars == <<clock, rows, cached, listing, history, calls, lists>>

Never == Horizon + 1

TokenRows == [made : BOOLEAN, revoked : BOOLEAN, expiresAt : 1 .. Never, project : {"none", "there", "deleted"}]

ASSUME HistoryAssumption ==
    /\ Horizon \in Nat /\ LongestDelay \in Nat \ {0} /\ MaxLists \in Nat /\ NoToken \notin OwnTokens
    /\ \A c \in OwnTokens \cap DOMAIN FirstTokens : FirstTokens[c] \in TokenRows
    /\ \A row \in NewTokens : row \in TokenRows /\ row.made

NotMade == [made |-> FALSE, revoked |-> FALSE, expiresAt |-> Never, project |-> "none"]

NoList == [c \in {} |-> 0]

Left == [mounted |-> FALSE, now |-> 0, due |-> 0, failed |-> FALSE, selected |-> NoToken, revoking |-> "no"]

-----------------------------------------------------------------------------
(* What is shown *)

connectionStatus(t, now) ==
    CASE t.revoked -> "Revoked"
      [] ~t.revoked /\ t.expiresAt <= now -> "Expired"
      [] ~t.revoked /\ t.expiresAt > now /\ t.project = "deleted" -> "Inactive"
      [] OTHER -> "Active"

Shown == IF history.mounted /\ ~history.failed THEN DOMAIN cached ELSE {}

\* The effect's timer, 0 for none.  It counts from the time that is shown, and
\* starts when the effect runs.
Timer(list, now) ==
    LET dates == {list[c].expiresAt : c \in {d \in DOMAIN list : ~list[d].revoked}} \cap (now + 1) .. Horizon
        nearest == CHOOSE t \in dates : \A s \in dates : t <= s
    IN IF dates = {} THEN 0
       ELSE clock + (IF nearest - now <= LongestDelay THEN nearest - now ELSE LongestDelay)

\* The effect runs when the list has changed, or its timer was cleared.
Rerun(p, list) == [p EXCEPT !.due = IF p.mounted /\ (list # cached \/ p.due = 0) THEN Timer(list, p.now) ELSE @]

\* Faulty: the effect does not depend on the time shown, and runs once a list.
OnceOnly(p) == [p EXCEPT !.now = clock, !.due = 0]

Tick(p) == [p EXCEPT !.now = clock, !.due = Timer(cached, clock)]

Ticks ==
    /\ history.due # 0 /\ history.due <= clock
    /\ history' = Tick(history)
    /\ UNCHANGED <<clock, rows, cached, listing, calls, lists>>

-----------------------------------------------------------------------------
(* The list *)

Asking(awaited) ==
    listing' = IF listing.at = "none" THEN [at |-> "asked", list |-> NoList, awaited |-> awaited]
               ELSE [listing EXCEPT !.awaited = @ \/ awaited]

\* cache-and-network
Mounts ==
    /\ ~history.mounted /\ lists < MaxLists
    /\ history' = [Left EXCEPT !.mounted = TRUE, !.now = clock, !.due = Timer(cached, clock)]
    /\ Asking(FALSE)
    /\ lists' = lists + 1
    /\ UNCHANGED <<clock, rows, cached, calls>>

\* refreshConnections, when a token was created or is to be reviewed; Try again.
refreshConnections ==
    /\ history.mounted /\ history.revoking = "no" /\ history.selected = NoToken /\ lists < MaxLists
    /\ Asking(FALSE)
    /\ lists' = lists + 1
    /\ UNCHANGED <<clock, rows, cached, history, calls>>

\* list, toModel
Reads ==
    /\ listing.at = "asked"
    /\ listing' = [listing EXCEPT !.at = "read", !.list = [c \in {d \in OwnTokens : rows[d].made} |-> rows[c]]]
    /\ UNCHANGED <<clock, rows, cached, history, calls, lists>>

\* The end of handleRevoke, when it has waited for the list.
Closes(p) == IF listing.awaited THEN [p EXCEPT !.selected = NoToken, !.revoking = "no"] ELSE p

Answered == listing' = [at |-> "none", list |-> NoList, awaited |-> FALSE]

Arrives ==
    /\ listing.at = "read"
    /\ Answered
    /\ cached' = listing.list
    /\ history' = Rerun(Closes([history EXCEPT !.failed = FALSE]), listing.list)
    /\ UNCHANGED <<clock, rows, calls, lists>>

\* The data may be gone with the error, and the timer with them.
ListFails ==
    /\ listing.at # "none"
    /\ Answered
    /\ \E due \in {0, history.due} :
          history' = IF ~history.mounted THEN history
                  ELSE Closes([history EXCEPT !.failed = TRUE, !.due = due])
    /\ UNCHANGED <<clock, rows, cached, calls, lists>>

-----------------------------------------------------------------------------
(* Revocation *)

\* Offered for what is not shown as revoked; the dialog is modal.
Selects(c) ==
    /\ c \in Shown /\ ~cached[c].revoked /\ history.selected = NoToken
    /\ history' = [history EXCEPT !.selected = c]
    /\ UNCHANGED <<clock, rows, cached, listing, calls, lists>>

CancelsRevoking ==
    /\ history.selected # NoToken /\ history.revoking = "no"
    /\ history' = [history EXCEPT !.selected = NoToken]
    /\ UNCHANGED <<clock, rows, cached, listing, calls, lists>>

Marked(c) == [d \in DOMAIN cached |-> IF d = c THEN [cached[d] EXCEPT !.revoked = TRUE] ELSE cached[d]]

Revoking == [history EXCEPT !.revoking = "sent"]

\* Faulty: the list says so at once.
MarksAtOnce ==
    /\ history.selected # NoToken /\ history.revoking = "no"
    /\ cached' = Marked(history.selected)
    /\ history' = Rerun(Revoking, cached')
    /\ UNCHANGED <<clock, rows, listing, calls, lists>>

handleRevoke ==
    /\ history.selected # NoToken /\ history.revoking = "no"
    /\ history' = Revoking
    /\ UNCHANGED <<clock, rows, cached, listing, calls, lists>>

\* revoke, which answers true whatever it finds.
Revoked(c) == rows' = [rows EXCEPT ![c].revoked = TRUE]

revoke ==
    /\ history.revoking = "sent"
    /\ Revoked(history.selected)
    /\ history' = [history EXCEPT !.revoking = "done"]
    /\ UNCHANGED <<clock, cached, listing, calls, lists>>

\* The cache is updated, and the list asked for.
Confirmed ==
    /\ history.revoking = "done"
    /\ cached' = Marked(history.selected)
    /\ history' = Rerun([history EXCEPT !.revoking = "refetching"], cached')
    /\ Asking(TRUE)
    /\ UNCHANGED <<clock, rows, calls, lists>>

\* Or the answer was lost.
RevokeFails ==
    /\ history.revoking \in {"sent", "done"}
    /\ history' = [history EXCEPT !.revoking = "no"]
    /\ UNCHANGED <<clock, rows, cached, listing, calls, lists>>

LeavesHistory ==
    /\ history.mounted
    /\ history' = Left
    /\ calls' = IF history.revoking \in {"sent", "done"} THEN calls \cup {history.selected} ELSE calls
    /\ listing' = [listing EXCEPT !.awaited = FALSE]
    /\ UNCHANGED <<clock, rows, cached, lists>>

\* Nobody waits, but the cache is updated and the list asked for.
GoesOnUnseen(c) ==
    /\ c \in calls /\ calls' = calls \ {c}
    /\ Revoked(c)
    /\ cached' = Marked(c)
    /\ history' = Rerun(history, cached')
    /\ Asking(FALSE)
    /\ UNCHANGED <<clock, lists>>

-----------------------------------------------------------------------------
(* Elsewhere *)

\* A token is made (here as well), revoked, or loses its project.
ChangesElsewhere(c, row) ==
    /\ \/ ~rows[c].made /\ row \in NewTokens /\ row.expiresAt > clock
       \/ rows[c].made /\ ~rows[c].revoked /\ row = [rows[c] EXCEPT !.revoked = TRUE]
       \/ rows[c].made /\ rows[c].project = "there" /\ row = [rows[c] EXCEPT !.project = "deleted"]
    /\ rows' = [rows EXCEPT ![c] = row]
    /\ UNCHANGED <<clock, cached, listing, history, calls, lists>>

TimePasses ==
    /\ clock < Horizon /\ clock' = clock + 1
    /\ UNCHANGED <<rows, cached, listing, history, calls, lists>>

-----------------------------------------------------------------------------
HistoryInit ==
    /\ clock = 0 /\ cached = NoList /\ history = Left /\ calls = {} /\ lists = 0
    /\ rows = [c \in OwnTokens |-> IF c \in DOMAIN FirstTokens THEN FirstTokens[c] ELSE NotMade]
    /\ listing = [at |-> "none", list |-> NoList, awaited |-> FALSE]

HistoryNext ==
    \/ Ticks \/ Mounts \/ refreshConnections \/ Reads \/ Arrives \/ ListFails
    \/ CancelsRevoking \/ handleRevoke \/ revoke \/ Confirmed \/ RevokeFails \/ LeavesHistory \/ TimePasses
    \/ \E c \in OwnTokens : Selects(c) \/ GoesOnUnseen(c) \/ \E row \in TokenRows : ChangesElsewhere(c, row)

HistoryTypeOK ==
    /\ clock \in 0 .. Horizon /\ rows \in [OwnTokens -> TokenRows] /\ calls \subseteq OwnTokens
    /\ DOMAIN cached \subseteq OwnTokens /\ listing.at \in {"none", "asked", "read"}
    /\ history.selected \in OwnTokens \cup {NoToken} /\ history.revoking \in {"no", "sent", "done", "refetching"}

\* validateApiToken, as far as the token itself decides.
StillAccepted(c) == rows[c].made /\ ~rows[c].revoked /\ rows[c].expiresAt > clock /\ rows[c].project # "deleted"

\* However old the list and the time shown are, no token the API would accept
\* is shown as revoked, expired or inactive (connectionStatus).
OnlyTheDeadAreCrossedOut ==
    \A c \in Shown : connectionStatus(cached[c], history.now) # "Active" => ~StillAccepted(c)

\* Every expiry to come is waited for, and shown late by no more than the time
\* shown is old, whatever lists arrive and revocations are made meanwhile.
ExpiriesAreShown ==
    \A c \in Shown : connectionStatus(cached[c], history.now) = "Active" /\ cached[c].expiresAt # Never =>
        history.due # 0 /\ history.due <= cached[c].expiresAt + (clock - history.now)

\* While the page goes on after a revocation, the token it was asked for is
\* revoked, and its dialog is still there.
ClosesWhenRevoked == history.revoking = "refetching" => history.selected # NoToken /\ rows[history.selected].revoked
=============================================================================
