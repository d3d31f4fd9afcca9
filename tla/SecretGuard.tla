----------------------------- MODULE SecretGuard -----------------------------
(* The dialog that makes a token and shows its secret, once.  While a secret  *)
(* may be lost the dialog guards the ways out: its own button, links, the     *)
(* Back button by an entry of its own on top of the browser's history, and    *)
(* the tab by beforeunload.  Traversals of the history are asynchronous, the  *)
(* dialog gives up waiting for its own after 100 ms.                          *)
(*                                                                            *)
(* Back goes one entry at a time.  A dialog whose page has been left is gone. *)
EXTENDS Naturals

CONSTANT MaxTokensMade     \* bound on the tokens that are asked for

ASSUME GuardAssumption == MaxTokensMade \in Nat

VARIABLES
    dialog,    \* the state of the component
    asked,     \* pendingExit, or the browser's own question: what is to be confirmed
    guard,     \* off, waiting for the cleanup of the last one, on, or skipped
    browser,   \* [on : page or guard entry, ahead, backing]: an own entry ahead, an own back() under way
    cleanup,   \* historyCleanupPending
    left,      \* the page has been left
    made,      \* tokens asked for
    past       \* [removed, strayed]: a guard has been removed; the browser has
               \* been on its own entry without a guard (no code knows)

guardVars == <<dialog, asked, guard, browser, cleanup, left, made, past>>

Closed == [open |-> FALSE, risk |-> FALSE, created |-> FALSE, uncertain |-> FALSE, understood |-> FALSE,
           copied |-> FALSE, saved |-> FALSE, pending |-> FALSE, given |-> FALSE]

-----------------------------------------------------------------------------
(* The effect that guards *)

Secured(d) == d.copied \/ d.saved
riskAcknowledged(d) == IF d.created THEN Secured(d) ELSE d.uncertain /\ d.understood
guardingSecret(d) == d.open /\ d.risk /\ ~riskAcknowledged(d)

\* Its own entry may be there still, and is taken for the guard.
installGuard ==
    IF cleanup THEN guard' = "waiting" /\ UNCHANGED <<browser, cleanup>>
    ELSE IF browser.on = "guard" THEN guard' = "skipped" /\ UNCHANGED <<browser, cleanup>>
    ELSE guard' = "on" /\ browser' = [browser EXCEPT !.on = "guard", !.ahead = FALSE] /\ UNCHANGED cleanup

Installed == guard \in {"on", "skipped"}

removesGuard ==
    /\ guard' = "off"
    /\ IF Installed /\ browser.on = "guard"
         THEN cleanup' = TRUE /\ browser' = [browser EXCEPT !.backing = TRUE]
         ELSE UNCHANGED <<cleanup, browser>>

\* The dialog is rendered, and the effect runs when guarding has changed.
Renders(d) ==
    /\ dialog' = d
    /\ IF guardingSecret(d) = guardingSecret(dialog) THEN UNCHANGED <<guard, browser, cleanup>>
       ELSE IF guardingSecret(d) THEN installGuard ELSE removesGuard
    /\ UNCHANGED left

installsLater ==
    /\ ~left /\ guard = "waiting" /\ ~cleanup
    /\ installGuard
    /\ UNCHANGED <<dialog, asked, left, made>>

GivesUpWaiting ==
    /\ cleanup /\ cleanup' = FALSE
    /\ UNCHANGED <<dialog, asked, guard, browser, left, made>>

Leaves == left' = TRUE /\ dialog' = Closed /\ asked' = "none" /\ guard' = "off" /\ UNCHANGED <<cleanup, made>>

\* handlePopState, while the guard is on; finishCleanup.
Pops(b) ==
    IF guard = "on"
      THEN asked' = "back" /\ browser' = [b EXCEPT !.ahead = FALSE] /\ cleanup' = FALSE
           /\ UNCHANGED <<dialog, guard, left, made>>
      ELSE IF browser.on = "guard"
        THEN browser' = [b EXCEPT !.on = "page", !.ahead = TRUE] /\ cleanup' = FALSE
             /\ UNCHANGED <<dialog, asked, guard, left, made>>
        ELSE Leaves /\ browser' = b

Back == ~left /\ Pops(browser)

BackLands == ~left /\ browser.backing /\ Pops([browser EXCEPT !.backing = FALSE])

Forward ==
    /\ ~left /\ browser.on = "page" /\ browser.ahead
    /\ browser' = [browser EXCEPT !.on = "guard", !.ahead = FALSE]
    /\ cleanup' = FALSE
    /\ UNCHANGED <<dialog, asked, guard, left, made>>

\* handleDocumentClick; a link without a guard is followed.
FollowsLink ==
    /\ ~left /\ asked = "none"
    /\ IF guard = "on" THEN asked' = "link" /\ UNCHANGED <<dialog, guard, browser, cleanup, left, made>>
                       ELSE Leaves /\ UNCHANGED browser

\* handleBeforeUnload
ClosesTab ==
    /\ ~left /\ asked # "unload"
    /\ IF guard = "on" THEN asked' = "unload" /\ UNCHANGED <<dialog, guard, browser, cleanup, left, made>>
                       ELSE Leaves /\ UNCHANGED browser

-----------------------------------------------------------------------------
(* The dialog *)

\* handleOpenChange(true)
Opens ==
    /\ ~left /\ ~dialog.open
    /\ Renders([Closed EXCEPT !.open = TRUE, !.pending = dialog.pending, !.given = dialog.given])
    /\ UNCHANGED <<asked, made>>

Showing == ~left /\ dialog.open /\ asked = "none"

\* Faulty: there is nothing to lose before there is a token.
RisksLater(d) == [d EXCEPT !.pending = TRUE, !.given = FALSE]

AtRisk(d) == [d EXCEPT !.risk = TRUE, !.pending = TRUE, !.given = FALSE,
                       !.understood = FALSE, !.copied = FALSE, !.saved = FALSE]

handleSubmit ==
    /\ Showing /\ ~dialog.created /\ ~dialog.uncertain /\ ~dialog.pending /\ made < MaxTokensMade
    /\ Renders(AtRisk(dialog))
    /\ made' = made + 1
    /\ UNCHANGED asked

\* The answer finds the dialog as it is by then.
Created == ~left /\ dialog.pending /\ Renders([dialog EXCEPT !.pending = FALSE, !.created = TRUE]) /\ UNCHANGED <<asked, made>>

CreationFails ==
    /\ ~left /\ dialog.pending
    /\ Renders([dialog EXCEPT !.pending = FALSE, !.uncertain = TRUE])
    /\ UNCHANGED <<asked, made>>

ShowsSecret == Showing /\ dialog.created /\ ~dialog.uncertain

\* handleTokenCopy, or handleSetupCopy of a setup with the token in it.
Copies == ShowsSecret /\ Renders([dialog EXCEPT !.copied = TRUE]) /\ UNCHANGED <<asked, made>>

\* A checkbox, and it can be cleared.
Confirms == ShowsSecret /\ Renders([dialog EXCEPT !.saved = ~@]) /\ UNCHANGED <<asked, made>>

Understands ==
    /\ Showing /\ dialog.uncertain
    /\ Renders([dialog EXCEPT !.understood = ~@])
    /\ UNCHANGED <<asked, made>>

clearSecretAndClose == [Closed EXCEPT !.pending = dialog.pending, !.given = TRUE]

\* Faulty: what is not there yet is not guarded.
ClosesPending == IF guardingSecret(dialog) /\ dialog.created THEN asked' = "close" /\ UNCHANGED <<dialog, guard, browser, cleanup, left>>
                 ELSE asked' = "none" /\ Renders(clearSecretAndClose)

Closing == IF guardingSecret(dialog) THEN asked' = "close" /\ UNCHANGED <<dialog, guard, browser, cleanup, left>>
           ELSE asked' = "none" /\ Renders(clearSecretAndClose)

requestClose == Showing /\ ~dialog.pending /\ Closing /\ UNCHANGED made

keepResultOpen ==
    /\ ~left /\ asked # "none" /\ asked' = "none"
    /\ UNCHANGED <<dialog, guard, browser, cleanup, left, made>>

\* The entry of the guard is an ordinary one by now, and nothing is cleaned up.
GoesOn ==
    /\ dialog' = clearSecretAndClose /\ asked' = "none" /\ guard' = "off"
    /\ browser' = [browser EXCEPT !.on = "page", !.ahead = FALSE]
    /\ UNCHANGED <<cleanup, left, made>>

\* Close anyway; the link may be one to this page.
confirmPendingExit ==
    /\ ~left /\ asked \in {"close", "back", "link"} /\ ~dialog.uncertain
    /\ \/ asked = "close" /\ asked' = "none" /\ Renders(clearSecretAndClose) /\ UNCHANGED made
       \/ asked \in {"back", "link"} /\ Leaves /\ UNCHANGED browser
       \/ asked = "link" /\ GoesOn

LeavesTab == ~left /\ asked = "unload" /\ Leaves /\ UNCHANGED browser

\* The tokens are on this page, or on another one.
reviewAgentConnections ==
    /\ Showing /\ dialog.uncertain /\ dialog.understood
    /\ GoesOn \/ (Leaves /\ UNCHANGED browser)

-----------------------------------------------------------------------------
\* The browser strays when the code no longer waits for its own back(), or when
\* somebody goes forward to an entry that was left.
Strays ==
    \/ cleanup /\ ~cleanup' /\ browser'.on = "guard"
    \/ browser.on = "page" /\ browser'.on = "guard" /\ guard' # "on"

Remembers == past' = [removed |-> past.removed \/ cleanup', strayed |-> past.strayed \/ Strays]

GuardInit ==
    /\ dialog = Closed /\ asked = "none" /\ guard = "off" /\ cleanup = FALSE /\ left = FALSE /\ made = 0
    /\ browser = [on |-> "page", ahead |-> FALSE, backing |-> FALSE]
    /\ past = [removed |-> FALSE, strayed |-> FALSE]

GuardSteps ==
    \/ Opens \/ handleSubmit \/ Created \/ CreationFails \/ Copies \/ Confirms \/ Understands
    \/ requestClose \/ keepResultOpen \/ confirmPendingExit \/ reviewAgentConnections
    \/ Back \/ Forward \/ BackLands \/ GivesUpWaiting \/ installsLater \/ FollowsLink \/ ClosesTab \/ LeavesTab

GuardNext == GuardSteps /\ Remembers

GuardTypeOK ==
    /\ DOMAIN dialog = DOMAIN Closed /\ asked \in {"none", "close", "back", "link", "unload"}
    /\ guard \in {"off", "waiting", "on", "skipped"}
    /\ browser.on \in {"page", "guard"} /\ left \in BOOLEAN /\ made \in 0 .. MaxTokensMade
    /\ past \in [removed : BOOLEAN, strayed : BOOLEAN]

\* A token there may be, and that nobody has.
Unsaved == ~dialog.given /\ \/ dialog.pending
                            \/ dialog.created /\ ~Secured(dialog)
                            \/ dialog.uncertain /\ ~dialog.understood

\* Such a secret is guarded, the first one at once.  A later guard has to wait
\* until the entry of the one before is removed, and it takes that entry for its
\* own only where the browser has strayed.
SecretIsGuarded ==
    /\ ~left /\ dialog.open /\ Unsaved => guard # "off"
    /\ guard = "waiting" => past.removed
    /\ guard = "skipped" => past.removed /\ past.strayed
    /\ guard = "on" => browser.on = "guard"

\* Nothing makes a secret go but the user, asked before, whatever the guard is:
\* except that the page is left while the guard waits, or when it has been skipped.
IsKept ==
    Unsaved /\ (left' \/ ~dialog'.open) =>
        \/ IF dialog.uncertain THEN asked = "unload" ELSE asked # "none"
        \/ left' /\ guard \in {"waiting", "skipped"}

\* A secret that is shown once is guarded on every way out, and goes only when
\* the user has been asked.
SecretsAreSafe == [][SecretIsGuarded' /\ IsKept]_guardVars
=============================================================================
