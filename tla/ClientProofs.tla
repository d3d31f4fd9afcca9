---------------------------- MODULE ClientProofs ----------------------------
(* What Access promises of the clients of the API, for any value of the      *)
(* constants: the dialog that shows a secret, the one that edits a check,    *)
(* the page that lists tokens, visits that sign up or in, and an agent.      *)
(* AccessProofs has the requests, and the theorems.                          *)
EXTENDS AgentTools, SecretGuard, SignIn, CheckEditor, TokenHistory,
        WellFoundedInduction, FiniteSetTheorems, TLAPS

-----------------------------------------------------------------------------
\* Of some instants one is the first.
LEMMA ThereIsAFirst ==
    ASSUME NEW S \in SUBSET Nat, S # {}
    PROVE  \E t \in S : \A s \in S : t <= s
<1>1. IsWellFoundedOn(OpToRel(<, Nat), Nat)
  BY NatLessThanWellFounded
<1>2. PICK t \in S : \A s \in S : ~(<<s, t>> \in OpToRel(<, Nat))
  BY <1>1, WFMin
<1>3. \A s \in S : ~(s < t)
  BY <1>2 DEF OpToRel
<1> QED BY <1>3

-----------------------------------------------------------------------------
(* SecretGuard: the dialog that shows a secret once *)

Dialogs == [open : BOOLEAN, risk : BOOLEAN, created : BOOLEAN, uncertain : BOOLEAN, understood : BOOLEAN,
            copied : BOOLEAN, saved : BOOLEAN, pending : BOOLEAN, given : BOOLEAN]

GuardTyped ==
    /\ dialog \in Dialogs /\ asked \in {"none", "close", "back", "link", "unload"}
    /\ guard \in {"off", "waiting", "on", "skipped"}
    /\ browser \in [on : {"page", "guard"}, ahead : BOOLEAN, backing : BOOLEAN]
    /\ left \in BOOLEAN /\ cleanup \in BOOLEAN

\* There is one creation at most that was not given up, and its dialog is open.
CreationInOrder(d) ==
    /\ ~d.given /\ (d.pending \/ d.created \/ d.uncertain) => d.open /\ d.risk
    /\ ~d.given /\ d.pending => ~d.created /\ ~d.uncertain
    /\ ~d.given => ~(d.created /\ d.uncertain)

GuardRight ==
    /\ GuardTyped
    /\ CreationInOrder(dialog)
    /\ ~left => (guard # "off") = guardingSecret(dialog)
    /\ guard = "on" => browser.on = "guard"
    /\ left => guard = "off" /\ ~dialog.open

\* An own entry in the browser's history is of a guard that was removed, and on
\* it without a guard, nor its removal under way, the browser has strayed there.
PastRight ==
    /\ past \in [removed : BOOLEAN, strayed : BOOLEAN]
    /\ cleanup \/ browser.ahead \/ guard \in {"waiting", "skipped"} => past.removed
    /\ guard = "skipped" => past.strayed
    /\ ~left /\ browser.on = "guard" /\ guard # "on" => past.removed
    /\ ~left /\ browser.on = "guard" /\ guard # "on" /\ ~cleanup => past.strayed

LEMMA UnsavedIsGuarded ==
    ASSUME GuardRight, Unsaved
    PROVE  ~left /\ dialog.open /\ guard # "off"
<1>1. dialog.open /\ guardingSecret(dialog)
  BY Zenon DEF GuardRight, CreationInOrder, Unsaved, guardingSecret, riskAcknowledged
<1> QED BY <1>1, Zenon DEF GuardRight

LEMMA GuardShows == GuardRight /\ PastRight => SecretIsGuarded
BY UnsavedIsGuarded DEF GuardRight, PastRight, SecretIsGuarded

\* A dialog that is rendered as d.
LEMMA RendersRight ==
    ASSUME GuardRight, ~left, NEW d \in Dialogs, Renders(d), CreationInOrder(d),
           asked' \in {"none", "close", "back", "link", "unload"}
    PROVE  GuardRight'
<1>1. dialog' = d /\ left' = left
  BY DEF Renders
<1>2. GuardTyped'
  BY <1>1 DEF GuardRight, GuardTyped, Renders, installGuard, removesGuard
<1>3. CreationInOrder(d)'
  BY DEF CreationInOrder
<1>4. guardingSecret(d) \in BOOLEAN /\ guardingSecret(dialog) \in BOOLEAN
  BY DEF guardingSecret
<1>5. ~left => (guard' # "off") = guardingSecret(d)
  <2>1. CASE guardingSecret(d) = guardingSecret(dialog)
    BY <2>1, Zenon DEF Renders, GuardRight
  <2>2. CASE guardingSecret(d) = TRUE /\ guardingSecret(dialog) = FALSE
    <3>1. installGuard
      BY <2>2, Zenon DEF Renders
    <3>2. guard' # "off"
      BY <3>1, SMT DEF installGuard
    <3> QED BY <2>2, <3>2, Zenon
  <2>3. CASE guardingSecret(d) = FALSE /\ guardingSecret(dialog) = TRUE
    <3>1. removesGuard
      BY <2>3, Zenon DEF Renders
    <3>2. guard' = "off"
      BY <3>1, SMT DEF removesGuard
    <3> QED BY <2>3, <3>2, Zenon
  <2> QED BY <1>4, <2>1, <2>2, <2>3, Zenon
<1>6. guard' = "on" => browser'.on = "guard"
  BY DEF Renders, installGuard, removesGuard, GuardRight, GuardTyped
<1> QED BY <1>1, <1>2, <1>3, <1>5, <1>6, Zenon DEF GuardRight, guardingSecret, riskAcknowledged, Secured, CreationInOrder

-----------------------------------------------------------------------------
LEMMA GuardInitRight == GuardInit => GuardRight /\ PastRight
<1> SUFFICES ASSUME GuardInit PROVE GuardRight /\ PastRight
  OBVIOUS
<1>1. GuardTyped
  BY DEF GuardInit, GuardTyped, Dialogs, Closed
<1>2. guardingSecret(dialog) = FALSE
  BY DEF GuardInit, guardingSecret, Closed
<1> QED BY <1>1, <1>2 DEF GuardInit, GuardRight, PastRight, CreationInOrder, Closed

LEMMA LeavesRight ==
    ASSUME GuardRight, Leaves, browser' \in [on : {"page", "guard"}, ahead : BOOLEAN, backing : BOOLEAN]
    PROVE  GuardRight'
<1>1. GuardTyped'
  BY DEF GuardRight, GuardTyped, Leaves, Dialogs, Closed
<1> QED BY <1>1 DEF GuardRight, CreationInOrder, Leaves, Closed

\* The page is left while the guard is not there.
LEMMA LeavesUnguarded ==
    ASSUME GuardRight, guard # "on", Leaves
    PROVE  IsKept
<1>1. left' /\ guard \in {"off", "waiting", "skipped"}
  BY DEF GuardRight, GuardTyped, Leaves
<1> QED BY <1>1, UnsavedIsGuarded DEF IsKept

LEMMA StaysAsItIs ==
    ASSUME GuardRight, UNCHANGED <<dialog, guard, left>>, ~left,
           asked' \in {"none", "close", "back", "link", "unload"},
           browser' \in [on : {"page", "guard"}, ahead : BOOLEAN, backing : BOOLEAN], cleanup' \in BOOLEAN,
           guard = "on" => browser'.on = "guard"
    PROVE  GuardRight' /\ IsKept
<1>1. GuardTyped'
  BY DEF GuardRight, GuardTyped
<1>2. (guardingSecret(dialog) = guardingSecret(dialog))' /\ CreationInOrder(dialog)' /\ guardingSecret(dialog)' = guardingSecret(dialog)
  BY Zenon DEF GuardRight, CreationInOrder, guardingSecret, riskAcknowledged, Secured
<1>3. GuardRight'
  BY <1>1, <1>2 DEF GuardRight
<1>4. Unsaved => dialog.open
  BY Zenon DEF GuardRight, CreationInOrder, Unsaved
<1> QED BY <1>3, <1>4, Zenon DEF IsKept

\* What is rendered while the dialog stays as open as it is.
LEMMA RendersOpen ==
    ASSUME GuardRight, ~left, NEW d \in Dialogs, Renders(d), CreationInOrder(d), dialog.open => d.open,
           asked' \in {"none", "close", "back", "link", "unload"}
    PROVE  GuardRight' /\ IsKept
<1>1. GuardRight'
  BY RendersRight
<1>2. Unsaved => dialog.open
  BY Zenon DEF GuardRight, CreationInOrder, Unsaved
<1>3. dialog' = d /\ left' = left
  BY DEF Renders
<1> QED BY <1>1, <1>2, <1>3, Zenon DEF IsKept

LEMMA DialogRight ==
    ASSUME GuardRight, Opens \/ handleSubmit \/ Created \/ CreationFails \/ Copies \/ Confirms \/ Understands
    PROVE  GuardRight' /\ IsKept
<1> USE DEF GuardRight
<1>1. dialog \in Dialogs /\ CreationInOrder(dialog) /\ asked \in {"none", "close", "back", "link", "unload"}
  BY DEF GuardTyped
<1>2. CASE Opens
  <2> DEFINE d == [Closed EXCEPT !.open = TRUE, !.pending = dialog.pending, !.given = dialog.given]
  <2>1. d \in Dialogs
    BY <1>1, Zenon DEF Dialogs, Closed
  <2>2. d.open /\ d.pending = dialog.pending /\ d.given = dialog.given /\ ~d.created /\ ~d.uncertain
    BY DEF Closed
  <2>3. ~dialog.given => ~dialog.pending
    BY <1>1, <1>2, Zenon DEF Opens, CreationInOrder
  <2>4. CreationInOrder(d)
    BY <2>2, <2>3, Zenon DEF CreationInOrder
  <2>5. ~left /\ Renders(d) /\ asked' = asked
    BY <1>2 DEF Opens
  <2> HIDE DEF d
  <2> QED BY <1>1, <2>1, <2>2, <2>4, <2>5, RendersOpen
<1>3. CASE handleSubmit
  <2> DEFINE d == AtRisk(dialog)
  <2>1. d \in Dialogs
    BY <1>1, Zenon DEF Dialogs, AtRisk
  <2>2. d.open = dialog.open /\ d.risk /\ ~d.created /\ ~d.uncertain /\ dialog.open
    BY <1>1, <1>3 DEF AtRisk, Dialogs, handleSubmit, Showing
  <2>4. CreationInOrder(d)
    BY <2>2, Zenon DEF CreationInOrder
  <2>5. ~left /\ Renders(d) /\ asked' = asked
    BY <1>3 DEF handleSubmit, Showing
  <2> HIDE DEF d
  <2> QED BY <1>1, <2>1, <2>2, <2>4, <2>5, RendersOpen
<1>4. CASE Created
  <2> DEFINE d == [dialog EXCEPT !.pending = FALSE, !.created = TRUE]
  <2>1. d \in Dialogs
    BY <1>1, Zenon DEF Dialogs
  <2>2. d.open = dialog.open /\ d.risk = dialog.risk /\ ~d.pending /\ d.given = dialog.given /\ d.uncertain = dialog.uncertain
    BY <1>1 DEF Dialogs
  <2>3. dialog.pending
    BY <1>4 DEF Created
  <2>4. CreationInOrder(d)
    BY <1>1, <2>2, <2>3, Zenon DEF CreationInOrder
  <2>5. ~left /\ Renders(d) /\ asked' = asked
    BY <1>4 DEF Created
  <2> HIDE DEF d
  <2> QED BY <1>1, <2>1, <2>2, <2>4, <2>5, RendersOpen
<1>5. CASE CreationFails
  <2> DEFINE d == [dialog EXCEPT !.pending = FALSE, !.uncertain = TRUE]
  <2>1. d \in Dialogs
    BY <1>1, Zenon DEF Dialogs
  <2>2. d.open = dialog.open /\ d.risk = dialog.risk /\ ~d.pending /\ d.given = dialog.given /\ d.created = dialog.created
    BY <1>1 DEF Dialogs
  <2>3. dialog.pending
    BY <1>5 DEF CreationFails
  <2>4. CreationInOrder(d)
    BY <1>1, <2>2, <2>3, Zenon DEF CreationInOrder
  <2>5. ~left /\ Renders(d) /\ asked' = asked
    BY <1>5 DEF CreationFails
  <2> HIDE DEF d
  <2> QED BY <1>1, <2>1, <2>2, <2>4, <2>5, RendersOpen
<1>6. ASSUME NEW d \in Dialogs, ~left, Renders(d), asked' = asked, d.open = dialog.open, d.risk = dialog.risk, d.created = dialog.created,
             d.uncertain = dialog.uncertain, d.pending = dialog.pending, d.given = dialog.given
      PROVE  GuardRight' /\ IsKept
  <2>1. CreationInOrder(d)
    BY <1>1, <1>6, Zenon DEF CreationInOrder
  <2> QED BY <1>1, <1>6, <2>1, RendersOpen
<1>7. CASE Copies
  <2> DEFINE d == [dialog EXCEPT !.copied = TRUE]
  <2>1. d \in Dialogs
    BY <1>1, Zenon DEF Dialogs
  <2> QED BY <1>1, <1>6, <1>7, <2>1 DEF Copies, ShowsSecret, Showing, Dialogs
<1>8. CASE Confirms
  <2> DEFINE d == [dialog EXCEPT !.saved = ~@]
  <2>1. d \in Dialogs
    BY <1>1 DEF Dialogs
  <2> QED BY <1>1, <1>6, <1>8, <2>1 DEF Confirms, ShowsSecret, Showing, Dialogs
<1>9. CASE Understands
  <2> DEFINE d == [dialog EXCEPT !.understood = ~@]
  <2>1. d \in Dialogs
    BY <1>1 DEF Dialogs
  <2> QED BY <1>1, <1>6, <1>9, <2>1 DEF Understands, Showing, Dialogs
<1> QED BY <1>2, <1>3, <1>4, <1>5, <1>7, <1>8, <1>9

\* The dialog is closed, with or without its guard.
LEMMA ClosedRight ==
    ASSUME GuardRight
    PROVE  clearSecretAndClose \in Dialogs /\ CreationInOrder(clearSecretAndClose)
<1>1. dialog.pending \in BOOLEAN
  BY DEF GuardRight, GuardTyped, Dialogs
<1>2. clearSecretAndClose \in Dialogs
  BY <1>1, Zenon DEF clearSecretAndClose, Dialogs, Closed
<1>3. clearSecretAndClose.given
  BY DEF clearSecretAndClose, Closed
<1> QED BY <1>2, <1>3, Zenon DEF CreationInOrder

LEMMA GoesOnRight ==
    ASSUME GuardRight, GoesOn
    PROVE  GuardRight'
<1>1. GuardTyped'
  BY ClosedRight DEF GuardRight, GuardTyped, GoesOn
<1>2. ~dialog'.open
  BY DEF GoesOn, clearSecretAndClose, Closed
<1>3. CreationInOrder(dialog)'
  BY ClosedRight DEF GoesOn, CreationInOrder
<1>4. guardingSecret(dialog)' = FALSE
  BY <1>2, Zenon DEF guardingSecret
<1> QED BY <1>1, <1>2, <1>3, <1>4 DEF GuardRight, GoesOn

LEMMA ExitsRight ==
    ASSUME GuardRight, requestClose \/ keepResultOpen \/ confirmPendingExit \/ reviewAgentConnections
    PROVE  GuardRight' /\ IsKept
<1>1. GuardTyped /\ asked \in {"none", "close", "back", "link", "unload"}
  BY DEF GuardRight, GuardTyped
<1>2. ~left
  BY DEF requestClose, keepResultOpen, confirmPendingExit, reviewAgentConnections, Showing
<1>3. CASE requestClose
  <2>1. CASE guardingSecret(dialog)
    BY <1>1, <1>2, <1>3, <2>1, StaysAsItIs DEF requestClose, Closing, GuardTyped, GuardRight
  <2>2. CASE ~guardingSecret(dialog)
    <3>1. asked' = "none" /\ Renders(clearSecretAndClose)
      BY <1>3, <2>2 DEF requestClose, Closing
    <3>2. GuardRight'
      BY <1>2, <3>1, ClosedRight, RendersRight
    <3>3. ~Unsaved
      BY <1>2, <2>2, UnsavedIsGuarded DEF GuardRight
    <3> QED BY <3>2, <3>3 DEF IsKept
  <2> QED BY <2>1, <2>2
<1>4. CASE keepResultOpen
  BY <1>1, <1>2, <1>4, StaysAsItIs DEF keepResultOpen, GuardTyped, GuardRight
<1>5. CASE confirmPendingExit
  <2>1. IsKept
    BY <1>5 DEF confirmPendingExit, IsKept
  <2>2. CASE asked' = "none" /\ Renders(clearSecretAndClose)
    BY <1>2, <2>1, <2>2, ClosedRight, RendersRight
  <2>3. CASE Leaves /\ UNCHANGED browser
    BY <1>1, <2>1, <2>3, LeavesRight DEF GuardTyped
  <2>4. CASE GoesOn
    BY <2>1, <2>4, GoesOnRight
  <2> QED BY <1>5, <2>2, <2>3, <2>4 DEF confirmPendingExit
<1>6. CASE reviewAgentConnections
  <2>1. ~Unsaved
    BY <1>6, Zenon DEF reviewAgentConnections, GuardRight, CreationInOrder, Unsaved
  <2>2. IsKept
    BY <2>1 DEF IsKept
  <2>3. CASE Leaves /\ UNCHANGED browser
    BY <1>1, <2>2, <2>3, LeavesRight DEF GuardTyped
  <2> QED BY <1>6, <2>2, <2>3, GoesOnRight DEF reviewAgentConnections
<1> QED BY <1>3, <1>4, <1>5, <1>6

LEMMA PopsRight ==
    ASSUME GuardRight, ~left, NEW b \in [on : {"page", "guard"}, ahead : BOOLEAN, backing : BOOLEAN],
           b.on = browser.on, Pops(b)
    PROVE  GuardRight' /\ IsKept
<1>1. GuardTyped /\ asked \in {"none", "close", "back", "link", "unload"}
  BY DEF GuardRight, GuardTyped
<1>2. CASE guard = "on"
  BY <1>1, <1>2, StaysAsItIs DEF Pops, GuardRight
<1>3. CASE guard # "on" /\ browser.on = "guard"
  BY <1>1, <1>3, StaysAsItIs DEF Pops
<1>4. CASE guard # "on" /\ browser.on # "guard"
  BY <1>1, <1>4, LeavesRight, LeavesUnguarded DEF Pops
<1> QED BY <1>2, <1>3, <1>4

LEMMA BrowserRight ==
    ASSUME GuardRight, Back \/ BackLands \/ Forward \/ GivesUpWaiting \/ FollowsLink \/ ClosesTab \/ LeavesTab
    PROVE  GuardRight' /\ IsKept
<1>1. /\ GuardTyped /\ asked \in {"none", "close", "back", "link", "unload"} /\ cleanup \in BOOLEAN
      /\ browser \in [on : {"page", "guard"}, ahead : BOOLEAN, backing : BOOLEAN]
  BY DEF GuardRight, GuardTyped
<1>2. CASE Back
  BY <1>1, <1>2, PopsRight DEF Back
<1>3. CASE BackLands
  BY <1>1, <1>3, PopsRight DEF BackLands
<1>4. CASE Forward
  BY <1>1, <1>4, StaysAsItIs DEF Forward
<1>5. CASE GivesUpWaiting
  <2>1. CASE ~left
    BY <1>1, <1>5, <2>1, StaysAsItIs DEF GivesUpWaiting, GuardRight
  <2>2. CASE left
    BY <1>1, <1>5, <2>2, UnsavedIsGuarded DEF GivesUpWaiting, GuardRight, GuardTyped, CreationInOrder, IsKept
  <2> QED BY <2>1, <2>2
<1>6. CASE guard # "on" /\ Leaves /\ UNCHANGED browser
  BY <1>1, <1>6, LeavesRight, LeavesUnguarded
<1>7. CASE FollowsLink
  BY <1>1, <1>6, <1>7, StaysAsItIs DEF FollowsLink, GuardRight
<1>8. CASE ClosesTab
  BY <1>1, <1>6, <1>8, StaysAsItIs DEF ClosesTab, GuardRight
<1>9. CASE LeavesTab
  BY <1>1, <1>9, LeavesRight DEF LeavesTab, IsKept
<1> QED BY <1>2, <1>3, <1>4, <1>5, <1>7, <1>8, <1>9

LEMMA InstallsLaterRight ==
    ASSUME GuardRight, installsLater
    PROVE  GuardRight' /\ IsKept
<1>1. GuardTyped'
  BY DEF GuardRight, GuardTyped, installsLater, installGuard
<1>2. guard' # "off" /\ guard # "off"
  BY DEF installsLater, installGuard
<1>3. guardingSecret(dialog)' = guardingSecret(dialog) /\ CreationInOrder(dialog)'
  BY DEF installsLater, GuardRight, CreationInOrder, guardingSecret, riskAcknowledged, Secured
<1>4. guard' = "on" => browser'.on = "guard"
  BY DEF installsLater, installGuard, GuardRight, GuardTyped
<1>5. IsKept
  BY UnsavedIsGuarded DEF IsKept, installsLater
<1> QED BY <1>1, <1>2, <1>3, <1>4, <1>5 DEF GuardRight, installsLater

LEMMA GuardStep ==
    ASSUME GuardRight, [GuardNext]_guardVars
    PROVE  GuardRight' /\ [IsKept]_guardVars
<1>1. CASE GuardNext
  <2>1. GuardRight' /\ IsKept
    BY <1>1, DialogRight, ExitsRight, BrowserRight, InstallsLaterRight DEF GuardNext, GuardSteps
  <2> QED BY <2>1
<1>2. CASE UNCHANGED guardVars
  BY <1>2 DEF guardVars, GuardRight, GuardTyped, CreationInOrder, guardingSecret, riskAcknowledged, Secured
<1> QED BY <1>1, <1>2

\* What is remembered is never forgotten.
LEMMA PastGrows ==
    ASSUME PastRight, cleanup' \in BOOLEAN, Remembers
    PROVE  /\ past' \in [removed : BOOLEAN, strayed : BOOLEAN]
           /\ past.removed \/ cleanup' => past'.removed
           /\ past.strayed \/ Strays => past'.strayed
BY DEF PastRight, Remembers, Strays

LEMMA InstallKeepsPast ==
    ASSUME GuardRight, PastRight, ~left, left' = left, guard # "on", installGuard, Remembers
    PROVE  PastRight'
<1>1. /\ guard \in {"off", "waiting", "on", "skipped"} /\ cleanup \in BOOLEAN
      /\ browser \in [on : {"page", "guard"}, ahead : BOOLEAN, backing : BOOLEAN]
  BY DEF GuardRight, GuardTyped
<1>2. cleanup' = cleanup
  BY DEF installGuard
<1>3. /\ past' \in [removed : BOOLEAN, strayed : BOOLEAN]
      /\ past.removed => past'.removed
      /\ past.strayed => past'.strayed
  BY <1>1, <1>2, PastGrows
<1>4. CASE cleanup
  BY <1>1, <1>2, <1>3, <1>4 DEF installGuard, PastRight
<1>5. CASE ~cleanup /\ browser.on = "guard"
  BY <1>1, <1>2, <1>3, <1>5 DEF installGuard, PastRight
<1>6. CASE ~cleanup /\ browser.on # "guard"
  <2>1. guard' = "on" /\ ~cleanup' /\ ~browser'.ahead
    BY <1>1, <1>2, <1>6 DEF installGuard
  <2> QED BY <1>3, <2>1 DEF PastRight
<1> QED BY <1>4, <1>5, <1>6

LEMMA RendersKeepsPast ==
    ASSUME GuardRight, PastRight, ~left, NEW d, Renders(d), Remembers
    PROVE  PastRight'
<1>1. /\ guard \in {"off", "waiting", "on", "skipped"} /\ cleanup \in BOOLEAN
      /\ browser \in [on : {"page", "guard"}, ahead : BOOLEAN, backing : BOOLEAN]
  BY DEF GuardRight, GuardTyped
<1>2. left' = left /\ cleanup' \in BOOLEAN
  BY <1>1 DEF Renders, installGuard, removesGuard
<1>3. /\ past' \in [removed : BOOLEAN, strayed : BOOLEAN]
      /\ past.removed \/ cleanup' => past'.removed
      /\ past.strayed => past'.strayed
  BY <1>2, PastGrows
<1>4. CASE UNCHANGED <<guard, browser, cleanup>>
  BY <1>2, <1>3, <1>4 DEF PastRight
<1>5. CASE installGuard /\ guard = "off"
  BY <1>2, <1>5, InstallKeepsPast
<1>6. CASE removesGuard
  <2>1. CASE Installed /\ browser.on = "guard"
    BY <1>1, <1>3, <1>6, <2>1 DEF removesGuard, PastRight
  <2>2. CASE ~(Installed /\ browser.on = "guard")
    <3>1. guard' = "off" /\ UNCHANGED <<cleanup, browser>>
      BY <1>6, <2>2 DEF removesGuard
    <3>2. browser.on = "guard" => guard # "on"
      BY <2>2 DEF Installed
    <3> QED BY <1>2, <1>3, <3>1, <3>2 DEF PastRight
  <2> QED BY <2>1, <2>2
<1>7. guardingSecret(d) /\ guardingSecret(d) # guardingSecret(dialog) => guard = "off"
  BY Zenon DEF GuardRight, guardingSecret
<1> QED BY <1>4, <1>5, <1>6, <1>7, Zenon DEF Renders

LEMMA LeavesKeepsPast ==
    ASSUME GuardRight, PastRight, Leaves, browser'.ahead = browser.ahead, Remembers
    PROVE  PastRight'
<1>1. cleanup' \in BOOLEAN /\ cleanup' = cleanup /\ left' /\ guard' = "off"
  BY DEF GuardRight, GuardTyped, Leaves
<1> QED BY <1>1, PastGrows DEF PastRight

LEMMA PopsKeepsPast ==
    ASSUME GuardRight, PastRight, ~left, NEW b \in [on : {"page", "guard"}, ahead : BOOLEAN, backing : BOOLEAN],
           b.on = browser.on, b.ahead = browser.ahead, Pops(b), Remembers
    PROVE  PastRight'
<1>1. /\ guard \in {"off", "waiting", "on", "skipped"} /\ cleanup \in BOOLEAN
  BY DEF GuardRight, GuardTyped
<1>2. CASE guard = "on"
  <2>1. guard' = "on" /\ ~cleanup' /\ ~browser'.ahead /\ cleanup' \in BOOLEAN
    BY <1>2 DEF Pops
  <2> QED BY <2>1, PastGrows DEF PastRight
<1>3. CASE guard # "on" /\ browser.on = "guard"
  <2>1. guard' = guard /\ ~cleanup' /\ browser'.on = "page" /\ left' = left /\ cleanup' \in BOOLEAN
    BY <1>3 DEF Pops
  <2>2. past.removed
    BY <1>3 DEF PastRight
  <2> QED BY <2>1, <2>2, PastGrows DEF PastRight
<1>4. CASE guard # "on" /\ browser.on # "guard"
  BY <1>4, LeavesKeepsPast DEF Pops
<1> QED BY <1>2, <1>3, <1>4

LEMMA BrowserKeepsPast ==
    ASSUME GuardRight, PastRight, Remembers,
           Back \/ BackLands \/ Forward \/ GivesUpWaiting \/ installsLater \/ FollowsLink \/ ClosesTab \/ LeavesTab
    PROVE  PastRight'
<1>1. /\ guard \in {"off", "waiting", "on", "skipped"} /\ cleanup \in BOOLEAN /\ left \in BOOLEAN
      /\ browser \in [on : {"page", "guard"}, ahead : BOOLEAN, backing : BOOLEAN]
      /\ guard = "on" => browser.on = "guard"
  BY DEF GuardRight, GuardTyped
<1>2. CASE Back
  BY <1>1, <1>2, PopsKeepsPast DEF Back
<1>3. CASE BackLands
  <2>1. [browser EXCEPT !.backing = FALSE] \in [on : {"page", "guard"}, ahead : BOOLEAN, backing : BOOLEAN]
    BY <1>1
  <2> QED BY <1>1, <1>3, <2>1, PopsKeepsPast DEF BackLands
<1>4. CASE Forward
  <2>1. /\ guard' = guard /\ guard # "on" /\ left' = left /\ ~cleanup' /\ cleanup' \in BOOLEAN
        /\ browser.on = "page" /\ browser'.on = "guard" /\ ~browser'.ahead /\ browser.ahead
    BY <1>1, <1>4 DEF Forward
  <2>2. past.removed /\ Strays
    BY <2>1 DEF PastRight, Strays
  <2> QED BY <2>1, <2>2, PastGrows DEF PastRight
<1>5. CASE GivesUpWaiting
  <2>1. cleanup /\ ~cleanup' /\ cleanup' \in BOOLEAN /\ UNCHANGED <<guard, browser, left>>
    BY <1>5 DEF GivesUpWaiting
  <2>2. past.removed /\ (browser.on = "guard" => Strays)
    BY <2>1 DEF PastRight, Strays
  <2> QED BY <2>1, <2>2, PastGrows DEF PastRight
<1>6. CASE installsLater
  BY <1>6, InstallKeepsPast DEF installsLater
<1>7. CASE Leaves /\ UNCHANGED browser
  BY <1>7, LeavesKeepsPast
<1>8. CASE UNCHANGED <<guard, browser, cleanup, left>>
  BY <1>1, <1>8, PastGrows DEF PastRight
<1> QED BY <1>2, <1>3, <1>4, <1>5, <1>6, <1>7, <1>8 DEF FollowsLink, ClosesTab, LeavesTab

LEMMA PastStays ==
    ASSUME GuardRight, PastRight, [GuardNext]_guardVars
    PROVE  PastRight'
<1>1. cleanup \in BOOLEAN
  BY DEF GuardRight, GuardTyped
<1>2. CASE UNCHANGED guardVars
  BY <1>2 DEF guardVars, PastRight
<1>3. ASSUME Remembers, GoesOn
      PROVE  PastRight'
  <2>1. cleanup' \in BOOLEAN /\ UNCHANGED <<cleanup, left>> /\ guard' = "off" /\ browser'.on = "page" /\ ~browser'.ahead
    BY <1>1, <1>3 DEF GoesOn, GuardRight, GuardTyped
  <2> QED BY <1>3, <2>1, PastGrows DEF PastRight
<1>4. ASSUME Remembers, UNCHANGED <<guard, browser, cleanup, left>>
      PROVE  PastRight'
  BY <1>1, <1>4, PastGrows DEF PastRight
<1>5. ASSUME Remembers, requestClose \/ keepResultOpen \/ confirmPendingExit \/ reviewAgentConnections
      PROVE  PastRight'
  BY <1>3, <1>4, <1>5, RendersKeepsPast, LeavesKeepsPast
     DEF requestClose, Closing, keepResultOpen, confirmPendingExit, reviewAgentConnections, Showing
<1>6. ASSUME Remembers, Opens \/ handleSubmit \/ Created \/ CreationFails \/ Copies \/ Confirms \/ Understands
      PROVE  PastRight'
  BY <1>6, RendersKeepsPast
     DEF Opens, handleSubmit, Created, CreationFails, Copies, Confirms, Understands, ShowsSecret, Showing
<1>7. CASE GuardNext
  BY <1>5, <1>6, <1>7, BrowserKeepsPast DEF GuardNext, GuardSteps
<1> QED BY <1>2, <1>7

-----------------------------------------------------------------------------
(* CheckEditor: the dialog that edits a check *)

\* The dialog is filled from the page as long as nobody has touched either; so
\* is a save that says so.
EditorRight ==
    /\ row \in CreatedRows /\ shown \in CreatedRows
    /\ form \in Forms \cup {NoForm} /\ idle \in BOOLEAN
    /\ IsFilled(form) /\ idle => form = FormOf(shown)
    /\ \/ save = NoSave
       \/ /\ save \in [pc : {"sent"}, form : Forms, shown : CreatedRows, idle : BOOLEAN]
          /\ save.idle => save.form = FormOf(save.shown)
       \/ save \in [pc : {"saved"}, check : CreatedRows]

\* What an update resolves to is a check of its type.
LEMMA ResolvesToItsType ==
    ASSUME NEW current \in CheckRows, NEW input \in Inputs, IsResolved(Resolve(current, input))
    PROVE  Resolve(current, input) \in CheckRows /\ IsOfItsType(Resolve(current, input))
<1> DEFINE type == IF Given(input.type) THEN input.type ELSE current.type
           text == IF Given(input.text) THEN input.text ELSE current.text
           conversion == type # current.type
<1>1. type \in CheckTypes /\ text \in {"t1", "t2"}
  BY DEF Given, Inputs, CheckRows
<1>2. CASE type = "HEARTBEAT"
  <2> DEFINE period == CadenceOf(input.period, input.schedule, current.period, conversion)
             schedule == CadenceOf(input.schedule, input.period, current.schedule, conversion)
             grace == PickField(input.grace, current.grace, conversion)
             new == [type |-> "HEARTBEAT", text |-> text, period |-> period, schedule |-> schedule, grace |-> grace,
                     target |-> Off, interval |-> Off]
  <2>1. period \in {Off, "p1"} /\ schedule \in {Off, "s1"} /\ grace \in {Off, "g1"}
    BY DEF CadenceOf, PickField, Given, Inputs, CheckRows, Off, Same
  <2>2. /\ Resolve(current, input) = new
        /\ (period = Off) # (schedule = Off) /\ grace # Off
    BY <1>2 DEF Resolve, ResolveHeartbeat, IsResolved, Refusal, Cleared
  <2> HIDE DEF period, schedule, grace
  <2>3. new \in CheckRows
    BY <1>1, <2>1, Zenon DEF CheckRows, CheckTypes, Off
  <2>4. IsOfItsType(new)
    BY <2>2 DEF IsOfItsType
  <2> QED BY <2>2, <2>3, <2>4
<1>3. CASE type # "HEARTBEAT"
  <2> DEFINE target == PickField(input.target, current.target, conversion)
             interval == PickField(input.interval, current.interval, conversion)
             new == [type |-> type, text |-> text, target |-> target, interval |-> interval,
                     period |-> Off, schedule |-> Off, grace |-> Off]
  <2>1. target \in {Off, "url", "host"} /\ interval \in {Off, "i1"}
    BY DEF PickField, Given, Inputs, CheckRows, Off, Same
  <2>2. /\ Resolve(current, input) = new
        /\ target = (IF type = "HTTP" THEN "url" ELSE "host") /\ interval # Off
    BY <1>3 DEF Resolve, ResolveActive, IsResolved, Refusal, Cleared
  <2>3. type \in {"HTTP", "TCP"}
    BY <1>1, <1>3 DEF CheckTypes
  <2> HIDE DEF target, interval, type, text
  <2>4. new \in CheckRows
    BY <1>1, <2>1, Zenon DEF CheckRows, CheckTypes, Off
  <2>5. IsOfItsType(new)
    BY <2>2, <2>3 DEF IsOfItsType
  <2> QED BY <2>2, <2>4, <2>5
<1> QED BY <1>2, <1>3

LEMMA InputOfTheDialog ==
    ASSUME NEW f \in Forms, NEW check \in CheckRows
    PROVE  BuildInput(f, check) \in Inputs
BY DEF BuildInput, Forms, CheckRows, Inputs, CheckTypes, Same, Off

\* A check of one kind has no columns of the other.
LEMMA ColumnsOfAKind ==
    ASSUME NEW check \in CreatedRows
    PROVE  /\ check \in CheckRows
           /\ IF IsPassive(check.type) THEN check.target = Off /\ check.interval = Off
              ELSE check.period = Off /\ check.schedule = Off /\ check.grace = Off
<1>1. check \in CheckRows
  BY DEF CreatedRows
<1>2. CASE IsOfItsType(check)
  BY <1>1, <1>2 DEF IsOfItsType, CheckRows, CheckTypes, IsPassive
<1>3. CASE ~IsOfItsType(check)
  <2> DEFINE host == [check EXCEPT !.target = "host"]
  <2>1. check.type = "TCP" /\ IsOfItsType(host)
    BY <1>3 DEF CreatedRows
  <2>2. host.type = "TCP" /\ host.period = check.period /\ host.schedule = check.schedule /\ host.grace = check.grace
    BY <1>1, <2>1 DEF CheckRows
  <2> HIDE DEF host
  <2> QED BY <1>1, <2>1, <2>2 DEF IsOfItsType, IsPassive
<1> QED BY <1>2, <1>3

\* What the dialog's input is resolved to, whatever the check is by now.
LEMMA DialogMeansIt ==
    ASSUME NEW f \in Forms, NEW page \in CheckRows, NEW now \in CreatedRows, IsResolved(Resolve(now, BuildInput(f, page)))
    PROVE  /\ Resolve(now, BuildInput(f, page)).type = Merged(f.type, page.type, now.type)
           /\ Resolve(now, BuildInput(f, page)).text = Merged(f.text, page.text, now.text)
           /\ Means(f, now, Resolve(now, BuildInput(f, page)))
<1> DEFINE input == BuildInput(f, page)
           type == Merged(f.type, page.type, now.type)
           text == Merged(f.text, page.text, now.text)
           conversion == type # now.type
           new == Resolve(now, input)
<1> SUFFICES new.type = type /\ new.text = text /\ Means(f, now, new)
  OBVIOUS
<1>1. (IF Given(input.type) THEN input.type ELSE now.type) = type
  BY DEF BuildInput, Given, Same, Forms, CheckTypes, Merged
<1>2. (IF Given(input.text) THEN input.text ELSE now.text) = text
  BY DEF BuildInput, Given, Same, Forms, Merged
<1>3. /\ f.type \in CheckTypes /\ now.type \in CheckTypes /\ type \in CheckTypes /\ f.mode \in {"simple", "cron"}
      /\ IsPassive(f.type) # IsPassive(type) => ~conversion
  BY ColumnsOfAKind DEF Forms, CheckRows, Merged
<1>4. /\ IsPassive(f.type) => input.target = Same /\ input.interval = Same
      /\ ~IsPassive(f.type) => input.period = Same /\ input.schedule = Same /\ input.grace = Same
  BY DEF BuildInput, IsPassive
<1>5. CASE IsPassive(type)
  <2> DEFINE period == CadenceOf(input.period, input.schedule, now.period, conversion)
             schedule == CadenceOf(input.schedule, input.period, now.schedule, conversion)
             grace == PickField(input.grace, now.grace, conversion)
  <2>1. new = [type |-> "HEARTBEAT", text |-> text, period |-> period, schedule |-> schedule, grace |-> grace,
               target |-> Off, interval |-> Off]
    BY <1>1, <1>2, <1>5 DEF Resolve, ResolveHeartbeat, IsResolved, Refusal, Cleared, IsPassive
  <2>2. CASE IsPassive(f.type)
    <3>1. /\ f.mode = "simple" => input.period = "p1" /\ input.schedule = Same
          /\ f.mode = "cron" => input.schedule = "s1" /\ input.period = Same
      BY <2>2 DEF BuildInput, IsPassive
    <3>2. (schedule # Off) = (f.mode = "cron")
      BY <1>3, <3>1 DEF CadenceOf, Given, Same, Off
    <3> HIDE DEF new, schedule, period, grace, text, type, input
    <3>3. new.type = "HEARTBEAT" /\ new.text = text /\ new.schedule = schedule
      BY <2>1
    <3>4. Means(f, now, new)
      BY <2>2, <3>2, <3>3 DEF Means, IsPassive
    <3> QED BY <1>5, <3>3, <3>4 DEF IsPassive
  <2>3. CASE ~IsPassive(f.type)
    <3>1. ~conversion /\ type = now.type
      BY <1>3, <1>5, <2>3
    <3>2. period = now.period /\ schedule = now.schedule /\ grace = now.grace
      BY <1>4, <2>3, <3>1 DEF CadenceOf, PickField, Given
    <3>3. now \in CheckRows /\ now.type = "HEARTBEAT" /\ now.target = Off /\ now.interval = Off
      BY <1>5, <3>1, ColumnsOfAKind DEF IsPassive
    <3> HIDE DEF new, schedule, period, grace, text, type, input
    <3>4. new = [now EXCEPT !.text = text] /\ new.text = text /\ new.type = "HEARTBEAT"
      BY <2>1, <3>2, <3>3 DEF CheckRows
    <3>5. Means(f, now, new)
      BY <2>3, <3>4 DEF Means, IsPassive
    <3> QED BY <3>1, <3>3, <3>4, <3>5
  <2> QED BY <2>2, <2>3
<1>6. CASE ~IsPassive(type)
  <2> DEFINE target == PickField(input.target, now.target, conversion)
             interval == PickField(input.interval, now.interval, conversion)
  <2>1. new = [type |-> type, text |-> text, target |-> target, interval |-> interval,
               period |-> Off, schedule |-> Off, grace |-> Off]
    BY <1>1, <1>2, <1>6 DEF Resolve, ResolveActive, IsResolved, Refusal, Cleared, IsPassive
  <2>2. CASE ~IsPassive(f.type)
    <3>1. input.target = f.target /\ f.target # Same
      BY <2>2 DEF BuildInput, Forms, Same, Off, IsPassive
    <3>2. target = f.target
      BY <3>1 DEF PickField, Given
    <3> HIDE DEF new, target, interval, text, type, input
    <3>3. new.type = type /\ new.text = text /\ new.target = target
      BY <2>1
    <3>4. Means(f, now, new)
      BY <1>6, <2>2, <3>2, <3>3 DEF Means, IsPassive
    <3> QED BY <3>3, <3>4
  <2>3. CASE IsPassive(f.type)
    <3>1. ~conversion /\ type = now.type
      BY <1>3, <1>6, <2>3
    <3>2. target = now.target /\ interval = now.interval
      BY <1>4, <2>3, <3>1 DEF PickField, Given
    <3>3. now \in CheckRows /\ ~IsPassive(now.type) /\ now.period = Off /\ now.schedule = Off /\ now.grace = Off
      BY <1>6, <3>1, ColumnsOfAKind
    <3> HIDE DEF new, target, interval, text, type, input
    <3>4. new = [now EXCEPT !.text = text] /\ new.text = text /\ new.type = now.type
      BY <2>1, <3>1, <3>2, <3>3 DEF CheckRows
    <3>5. Means(f, now, new)
      BY <2>3, <3>3, <3>4 DEF Means
    <3> QED BY <3>1, <3>4, <3>5
  <2> QED BY <2>2, <2>3
<1> QED BY <1>5, <1>6

\* A form that was not touched changes nothing.
LEMMA UntouchedChangesNothing ==
    ASSUME NEW check \in CreatedRows, IsResolved(Resolve(check, BuildInput(FormOf(check), check)))
    PROVE  Resolve(check, BuildInput(FormOf(check), check)) = check
<1> DEFINE f == FormOf(check)
           input == BuildInput(f, check)
           new == Resolve(check, input)
<1>1. check \in CheckRows /\ check.type \in CheckTypes /\ check.period \in {Off, "p1"} /\ check.schedule \in {Off, "s1"}
      /\ check.grace \in {Off, "g1"} /\ check.interval \in {Off, "i1"} /\ check.target \in {Off, "url", "host"}
  BY DEF CreatedRows, CheckRows
<1>2. f.type = check.type /\ f.text = check.text /\ f.target = check.target
      /\ f.mode = IF check.schedule # Off THEN "cron" ELSE "simple"
  BY DEF FormOf
<1>3. input.type = Same /\ input.text = Same
  BY <1>2 DEF BuildInput
<1>4. CASE check.type = "HEARTBEAT"
  <2>1. /\ (check.period = Off) # (check.schedule = Off) /\ check.grace # Off
        /\ check.target = Off /\ check.interval = Off
    BY <1>4 DEF CreatedRows, IsOfItsType
  <2>2. /\ input.period = IF check.schedule # Off THEN Same ELSE "p1"
        /\ input.schedule = IF check.schedule # Off THEN "s1" ELSE Same
        /\ input.grace = "g1"
    BY <1>2, <1>4 DEF BuildInput
  <2>3. /\ CadenceOf(input.period, input.schedule, check.period, FALSE) = check.period
        /\ CadenceOf(input.schedule, input.period, check.schedule, FALSE) = check.schedule
        /\ PickField(input.grace, check.grace, FALSE) = check.grace
    BY <1>1, <2>1, <2>2 DEF CadenceOf, PickField, Given, Same, Off
  <2>4. new = [type |-> "HEARTBEAT", text |-> check.text, period |-> check.period, schedule |-> check.schedule,
               grace |-> check.grace, target |-> Off, interval |-> Off]
    BY <1>3, <1>4, <2>3 DEF Resolve, ResolveHeartbeat, IsResolved, Refusal, Cleared, Given
  <2> QED BY <1>1, <1>4, <2>1, <2>4 DEF CheckRows
<1>5. CASE check.type # "HEARTBEAT"
  <2>1. /\ input.target = check.target /\ input.interval = "i1"
    BY <1>2, <1>5 DEF BuildInput
  <2>2. check.interval = "i1" /\ check.period = Off /\ check.schedule = Off /\ check.grace = Off
    <3>1. CASE IsOfItsType(check)
      BY <1>1, <1>5, <3>1 DEF IsOfItsType, CheckTypes
    <3>2. CASE ~IsOfItsType(check)
      <4> DEFINE host == [check EXCEPT !.target = "host"]
      <4>1. check.type = "TCP" /\ IsOfItsType(host)
        BY <3>2 DEF CreatedRows
      <4>2. /\ host.type = "TCP" /\ host.interval = check.interval /\ host.period = check.period
            /\ host.schedule = check.schedule /\ host.grace = check.grace
        BY <1>1, <4>1 DEF CheckRows
      <4> HIDE DEF host
      <4> QED BY <1>1, <4>1, <4>2 DEF IsOfItsType
    <3> QED BY <3>1, <3>2
  <2>3. /\ PickField(input.target, check.target, FALSE) = check.target
        /\ PickField(input.interval, check.interval, FALSE) = check.interval
    BY <1>1, <2>1, <2>2 DEF PickField, Given, Same, Off
  <2>4. new = [type |-> check.type, text |-> check.text, target |-> check.target, interval |-> check.interval,
               period |-> Off, schedule |-> Off, grace |-> Off]
    BY <1>3, <1>5, <2>3 DEF Resolve, ResolveActive, IsResolved, Refusal, Cleared, Given
  <2> QED BY <1>1, <2>2, <2>4 DEF CheckRows
<1> QED BY <1>4, <1>5

LEMMA FormIsAForm ==
    ASSUME NEW check \in CheckRows
    PROVE  FormOf(check) \in Forms /\ IsFilled(FormOf(check))
BY DEF CheckRows, FormOf, Forms, IsFilled, NoForm

LEMMA RowsOfAType == CreatedRows \subseteq CheckRows /\ \A r \in CheckRows : IsOfItsType(r) => r \in CreatedRows
BY DEF CreatedRows

LEMMA EditorInitRight == EditorInit => EditorRight
BY DEF EditorInit, EditorRight, IsFilled

LEMMA FormIsEdited ==
    ASSUME EditorRight, Edits
    PROVE  form' \in Forms
<1>1. form \in Forms
  BY DEF Edits, EditorRight, IsFilled
<1>2. ASSUME NEW t \in CheckTypes, form' = [form EXCEPT !.type = t, !.target = IF Crosses(form.type, t) THEN Off ELSE @]
      PROVE  form' \in Forms
  BY <1>1, <1>2 DEF Forms
<1>3. ASSUME NEW m \in {"simple", "cron"}, form' = [form EXCEPT !.mode = m]
      PROVE  form' \in Forms
  BY <1>1, <1>3 DEF Forms
<1>4. ASSUME NEW t \in {"url", "host"}, form' = [form EXCEPT !.target = t]
      PROVE  form' \in Forms
  BY <1>1, <1>4 DEF Forms
<1>5. ASSUME form' = [form EXCEPT !.text = "t2"]
      PROVE  form' \in Forms
  BY <1>1, <1>5 DEF Forms
<1> QED BY <1>2, <1>3, <1>4, <1>5 DEF Edits

LEMMA EditorStep ==
    ASSUME EditorRight, [EditorNext]_editorVars
    PROVE  EditorRight' /\ [(row' # row => IsOfItsType(row')) /\ SaveIsMeant]_editorVars
<1> USE DEF EditorRight
<1>1. /\ row \in CheckRows /\ shown \in CheckRows
      /\ save = NoSave => save.pc = "none"
      /\ save.pc \in {"none", "sent", "saved"}
  BY RowsOfAType DEF NoSave
<1>2. CASE OpensEditor
  BY <1>1, <1>2, FormIsAForm DEF OpensEditor, SaveIsMeant
<1>3. CASE Edits
  BY <1>1, <1>3, FormIsEdited DEF Edits, SaveIsMeant
<1>4. CASE Submits
  <2>1. form \in Forms /\ save' \in [pc : {"sent"}, form : Forms, shown : CreatedRows, idle : {idle}]
    BY <1>4 DEF Submits, IsFilled
  <2>2. save'.form = form /\ save'.shown = shown /\ save'.idle = idle /\ save = NoSave
    BY <1>4 DEF Submits
  <2> QED BY <1>1, <1>4, <2>1, <2>2 DEF Submits, SaveIsMeant
<1>5. CASE Updates
  <2> DEFINE input == BuildInput(save.form, save.shown)
             new == Resolve(row, input)
  <2>1. save \in [pc : {"sent"}, form : Forms, shown : CreatedRows, idle : BOOLEAN]
    BY <1>1, <1>5 DEF Updates
  <2>2. IsResolved(new) /\ row' = new /\ save' = [pc |-> "saved", check |-> new]
    BY <1>5 DEF Updates
  <2>3. input \in Inputs
    BY <2>1, InputOfTheDialog, RowsOfAType
  <2>4. new \in CheckRows /\ IsOfItsType(new)
    BY <1>1, <2>2, <2>3, ResolvesToItsType
  <2>5. new \in CreatedRows
    BY <2>4, RowsOfAType
  <2>6. /\ new.type = Merged(save.form.type, save.shown.type, row.type)
        /\ new.text = Merged(save.form.text, save.shown.text, row.text)
        /\ Means(save.form, row, new)
    BY <1>1, <2>1, <2>2, RowsOfAType, DialogMeansIt
  <2>9. ASSUME save.idle
        PROVE  /\ new.type = row.type /\ new.text = row.text
               /\ row = save.shown => new = row
    <3>1. save.form = FormOf(save.shown)
      BY <1>5, <2>9 DEF Updates, NoSave
    <3>2. save.form.type = save.shown.type /\ save.form.text = save.shown.text
      BY <3>1 DEF FormOf
    <3>3. row = save.shown => new = row
      BY <2>2, <3>1, UntouchedChangesNothing
    <3> HIDE DEF new, input
    <3> QED BY <2>6, <3>2, <3>3 DEF Merged
  <2> HIDE DEF new, input
  <2>7. save' \in [pc : {"saved"}, check : CreatedRows]
    BY <2>2, <2>5
  <2>8. EditorRight'
    BY <1>5, <2>2, <2>5, <2>7 DEF Updates
  <2> QED BY <2>2, <2>4, <2>6, <2>8, <2>9 DEF SaveIsMeant
<1>6. CASE Saved
  BY <1>1, <1>6 DEF Saved, SaveIsMeant, IsFilled, NoSave
<1>7. CASE SaveFails
  BY <1>1, <1>7 DEF SaveFails, SaveIsMeant, NoSave
<1>8. CASE Cancels
  BY <1>1, <1>8 DEF Cancels, SaveIsMeant, IsFilled
<1>9. CASE Refreshes
  BY <1>1, <1>9 DEF Refreshes, SaveIsMeant
<1>10. CASE OthersUpdate
  <2>1. PICK r \in CreatedRows, input \in Inputs : r = row /\ row' = Resolve(r, input) /\ IsResolved(row')
    BY <1>10 DEF OthersUpdate, Outcomes
  <2>2. row' \in CheckRows /\ IsOfItsType(row')
    BY <1>1, <2>1, ResolvesToItsType
  <2> QED BY <1>1, <1>10, <2>2, RowsOfAType DEF OthersUpdate, SaveIsMeant
<1>11. CASE UNCHANGED editorVars
  BY <1>11 DEF editorVars
<1> QED BY <1>2, <1>3, <1>4, <1>5, <1>6, <1>7, <1>8, <1>9, <1>10, <1>11 DEF EditorNext

-----------------------------------------------------------------------------
(* TokenHistory: the page that lists the tokens *)

HistoryRecords ==
    [mounted : BOOLEAN, now : 0 .. Horizon, due : Nat, failed : BOOLEAN, selected : OwnTokens \cup {NoToken},
     revoking : {"no", "sent", "done", "refetching"}]

\* A list that was read once: the rows have gone on since.
GoesOnAs(old, new) ==
    /\ new.made /\ old.expiresAt = new.expiresAt
    /\ old.revoked => new.revoked
    /\ old.project = "deleted" => new.project = "deleted"

WasRead(list, rs) ==
    /\ DOMAIN list \subseteq OwnTokens
    /\ \A c \in DOMAIN list : list[c] \in TokenRows /\ GoesOnAs(list[c], rs[c])

\* The timer is in time for what is to expire.
IsDue(list, due, now, clk) ==
    \A c \in DOMAIN list :
        ~list[c].revoked /\ list[c].expiresAt > now /\ list[c].expiresAt # Never =>
            due # 0 /\ due <= list[c].expiresAt + (clk - now)

HistoryTyped ==
    /\ clock \in 0 .. Horizon /\ rows \in [OwnTokens -> TokenRows] /\ calls \subseteq OwnTokens
    /\ history \in HistoryRecords /\ history.now <= clock
    /\ listing \in [at : {"none", "asked", "read"}, list : {listing.list}, awaited : BOOLEAN]

\* A timer there is is right, also while an error is shown.
TimerInOrder == history.mounted /\ (~history.failed \/ history.due # 0) => IsDue(cached, history.due, history.now, clock)

RevocationInOrder ==
    /\ history.selected # NoToken => rows[history.selected].made
    /\ history.revoking # "no" => history.selected # NoToken
    /\ history.revoking \in {"done", "refetching"} => rows[history.selected].revoked

HistoryRight == HistoryTyped /\ WasRead(cached, rows) /\ WasRead(listing.list, rows) /\ TimerInOrder /\ RevocationInOrder

-----------------------------------------------------------------------------
LEMMA HistoryShows == HistoryRight => HistoryTypeOK /\ OnlyTheDeadAreCrossedOut /\ ExpiriesAreShown /\ ClosesWhenRevoked
<1> SUFFICES ASSUME HistoryRight PROVE HistoryTypeOK /\ OnlyTheDeadAreCrossedOut /\ ExpiriesAreShown /\ ClosesWhenRevoked
  OBVIOUS
<1>1. /\ clock \in Nat /\ history \in HistoryRecords /\ history.now \in Nat /\ history.now <= clock /\ history.due \in Nat
      /\ \A c \in DOMAIN cached : cached[c] \in TokenRows /\ cached[c].expiresAt \in Nat
  BY HistoryAssumption DEF HistoryRight, HistoryTyped, HistoryRecords, WasRead, TokenRows, Never
<1>2. HistoryTypeOK
  BY DEF HistoryRight, HistoryTyped, HistoryRecords, HistoryTypeOK, WasRead
<1>3. ASSUME NEW c \in Shown, connectionStatus(cached[c], history.now) # "Active"
      PROVE  ~StillAccepted(c)
  <2>1. c \in DOMAIN cached
    BY DEF Shown
  <2>2. \/ cached[c].revoked \/ cached[c].expiresAt <= history.now \/ cached[c].project = "deleted"
    BY <1>3 DEF connectionStatus
  <2>3. /\ cached[c].expiresAt = rows[c].expiresAt
        /\ cached[c].revoked => rows[c].revoked
        /\ cached[c].project = "deleted" => rows[c].project = "deleted"
    BY <2>1 DEF HistoryRight, WasRead, GoesOnAs
  <2>4. cached[c].expiresAt <= history.now => ~(rows[c].expiresAt > clock)
    BY <1>1, <2>1, <2>3
  <2> QED BY <2>2, <2>3, <2>4, Zenon DEF StillAccepted
<1>4. ASSUME NEW c \in Shown, connectionStatus(cached[c], history.now) = "Active", cached[c].expiresAt # Never
      PROVE  history.due # 0 /\ history.due <= cached[c].expiresAt + (clock - history.now)
  <2>1. c \in DOMAIN cached /\ history.mounted /\ ~history.failed
    BY DEF Shown
  <2>2. IsDue(cached, history.due, history.now, clock)
    BY <2>1 DEF HistoryRight, TimerInOrder
  <2>3. cached[c] \in TokenRows
    BY <1>1, <2>1
  <2>4. ~cached[c].revoked
    BY <1>4, <2>3, Zenon DEF connectionStatus, TokenRows
  <2>5. ~(cached[c].expiresAt <= history.now)
    BY <1>4, <2>4 DEF connectionStatus
  <2> QED BY <1>1, <1>4, <2>1, <2>2, <2>4, <2>5 DEF IsDue
<1> QED BY <1>2, <1>3, <1>4 DEF HistoryRight, RevocationInOrder, OnlyTheDeadAreCrossedOut, ExpiriesAreShown, ClosesWhenRevoked

\* The effect's timer is in time.
LEMMA TimerRight ==
    ASSUME clock \in Nat, NEW now \in 0 .. clock, NEW list, \A c \in DOMAIN list : list[c] \in TokenRows
    PROVE  Timer(list, now) \in Nat /\ IsDue(list, Timer(list, now), now, clock)
<1> DEFINE dates == {list[c].expiresAt : c \in {d \in DOMAIN list : ~list[d].revoked}} \cap (now + 1) .. Horizon
           nearest == CHOOSE t \in dates : \A s \in dates : t <= s
<1>1. \A c \in DOMAIN list : list[c].expiresAt \in 1 .. Horizon + 1
  BY DEF TokenRows, Never
<1>2. \A c \in DOMAIN list : ~list[c].revoked /\ list[c].expiresAt > now /\ list[c].expiresAt # Never => list[c].expiresAt \in dates
  BY <1>1, HistoryAssumption DEF Never
<1>3. CASE dates = {}
  <2>1. Timer(list, now) = 0
    BY <1>3, Zenon DEF Timer
  <2> QED BY <1>2, <1>3, <2>1 DEF IsDue
<1>4. CASE dates # {}
  <2>1. dates \in SUBSET Nat
    BY HistoryAssumption
  <2>2. nearest \in dates /\ \A s \in dates : nearest <= s
    <3>1. \E t \in dates : \A s \in dates : t <= s
      BY <1>4, <2>1, ThereIsAFirst
    <3> HIDE DEF dates
    <3> QED BY <3>1, Zenon
  <2>3. Timer(list, now) = clock + (IF nearest - now <= LongestDelay THEN nearest - now ELSE LongestDelay)
    BY <1>4, Zenon DEF Timer
  <2>4. nearest \in Nat /\ nearest > now
    BY <2>2, HistoryAssumption
  <2> HIDE DEF dates, nearest
  <2>5. /\ Timer(list, now) \in Nat /\ Timer(list, now) # 0
        /\ Timer(list, now) <= nearest + (clock - now)
    BY <2>3, <2>4, HistoryAssumption
  <2>6. \A s \in dates : Timer(list, now) <= s + (clock - now)
    BY <2>1, <2>2, <2>4, <2>5
  <2> QED BY <1>2, <2>5, <2>6 DEF IsDue
<1> QED BY <1>3, <1>4

-----------------------------------------------------------------------------
(* TokenHistory: steps *)

LEMMA RowsGoOn ==
    ASSUME NEW list, NEW rs, NEW rt, WasRead(list, rs),
           \A c \in OwnTokens : rs[c].made => GoesOnAs(rs[c], rt[c])
    PROVE  WasRead(list, rt)
BY DEF WasRead, GoesOnAs

LEMMA HistoryFields ==
    ASSUME HistoryRight
    PROVE  /\ clock \in 0 .. Horizon /\ clock \in Nat /\ rows \in [OwnTokens -> TokenRows]
           /\ history \in HistoryRecords /\ history.now \in 0 .. clock /\ history.now \in 0 .. Horizon
           /\ history.selected \in OwnTokens \cup {NoToken}
           /\ listing \in [at : {"none", "asked", "read"}, list : {listing.list}, awaited : BOOLEAN]
           /\ WasRead(cached, rows) /\ WasRead(listing.list, rows) /\ TimerInOrder /\ RevocationInOrder
           /\ \A c \in DOMAIN cached : cached[c] \in TokenRows
           /\ \A c \in DOMAIN listing.list : listing.list[c] \in TokenRows
BY HistoryAssumption DEF HistoryRight, HistoryTyped, HistoryRecords, WasRead

\* A page whose timer may have been set, and that may have been waited for.
LEMMA HistoryMoves ==
    ASSUME HistoryRight, clock' = clock, rows' \in [OwnTokens -> TokenRows],
           \A c \in OwnTokens : rows[c].made => GoesOnAs(rows[c], rows'[c]),
           calls' \subseteq OwnTokens, history' \in HistoryRecords, history'.now <= clock,
           listing' \in [at : {"none", "asked", "read"}, list : {listing'.list}, awaited : BOOLEAN],
           WasRead(cached', rows'), WasRead(listing'.list, rows'),
           TimerInOrder', RevocationInOrder'
    PROVE  HistoryRight'
BY HistoryFields DEF HistoryRight, HistoryTyped

LEMMA RowsStay ==
    ASSUME HistoryRight, rows' = rows
    PROVE  /\ rows' \in [OwnTokens -> TokenRows]
           /\ \A c \in OwnTokens : rows[c].made => GoesOnAs(rows[c], rows'[c])
           /\ WasRead(cached, rows') /\ WasRead(listing.list, rows')
BY HistoryFields DEF GoesOnAs

LEMMA ListStarts ==
    ASSUME HistoryRight, NEW awaited \in BOOLEAN, Asking(awaited)
    PROVE  /\ listing' \in [at : {"none", "asked", "read"}, list : {listing'.list}, awaited : BOOLEAN]
           /\ listing'.list = listing.list \/ listing'.list = NoList
<1>1. CASE listing.at = "none"
  BY <1>1 DEF Asking
<1>2. CASE listing.at # "none"
  <2>1. listing' = [listing EXCEPT !.awaited = @ \/ awaited]
    BY <1>2 DEF Asking
  <2>2. listing \in [at : {"none", "asked", "read"}, list : {listing.list}, awaited : BOOLEAN]
    BY HistoryFields
  <2>3. (listing.awaited \/ awaited) \in BOOLEAN
    BY <2>2
  <2>4. listing'.list = listing.list
    BY <2>1, <2>2
  <2> QED BY <2>1, <2>2, <2>3, <2>4
<1> QED BY <1>1, <1>2

LEMMA NothingWasRead == \A rs : WasRead(NoList, rs)
BY DEF WasRead, NoList

\* The effect sets the timer when it has to.
LEMMA RerunRight ==
    ASSUME HistoryRight, NEW p \in HistoryRecords, NEW list, p.now = history.now,
           p.mounted = history.mounted, p.due = history.due,
           \A c \in DOMAIN list : list[c] \in TokenRows
    PROVE  /\ Rerun(p, list) \in HistoryRecords
           /\ Rerun(p, list).mounted = p.mounted /\ Rerun(p, list).now = p.now
           /\ Rerun(p, list).selected = p.selected /\ Rerun(p, list).revoking = p.revoking
           /\ p.mounted => IsDue(list, Rerun(p, list).due, p.now, clock)
<1> DEFINE resets == p.mounted /\ (list # cached \/ p.due = 0)
           due == IF resets THEN Timer(list, p.now) ELSE p.due
<1>1. Timer(list, p.now) \in Nat /\ IsDue(list, Timer(list, p.now), p.now, clock)
  BY HistoryFields, TimerRight
<1>2. p.due \in Nat
  BY DEF HistoryRecords
<1>3. due \in Nat
  BY <1>1, <1>2, Zenon
<1>4. Rerun(p, list) = [p EXCEPT !.due = due]
  BY DEF Rerun
<1>5. p.mounted => IsDue(list, due, p.now, clock)
  <2>1. CASE resets
    BY <1>1, <2>1, Zenon
  <2>2. CASE p.mounted /\ ~resets
    <3>1. list = cached /\ p.due # 0 /\ due = p.due
      BY <2>2, Zenon
    <3> QED BY <2>2, <3>1, HistoryFields DEF TimerInOrder
  <2> QED BY <2>1, <2>2, Zenon
<1> HIDE DEF due
<1> QED BY <1>3, <1>4, <1>5 DEF HistoryRecords

LEMMA HistoryInitRight == HistoryInit => HistoryRight
<1> SUFFICES ASSUME HistoryInit PROVE HistoryRight
  OBVIOUS
<1>1. history \in HistoryRecords /\ history.now = 0 /\ ~history.mounted /\ history.revoking = "no"
      /\ history.selected = NoToken
  BY HistoryAssumption DEF HistoryInit, Left, HistoryRecords
<1>2. NotMade \in TokenRows
  BY HistoryAssumption DEF NotMade, TokenRows, Never
<1>3. rows \in [OwnTokens -> TokenRows]
  BY <1>2, HistoryAssumption DEF HistoryInit
<1>4. clock = 0 /\ clock \in 0 .. Horizon /\ calls \subseteq OwnTokens
  BY HistoryAssumption DEF HistoryInit
<1>5. listing \in [at : {"none", "asked", "read"}, list : {listing.list}, awaited : BOOLEAN] /\ listing.list = NoList
  BY DEF HistoryInit
<1>6. WasRead(cached, rows) /\ WasRead(listing.list, rows)
  BY <1>5, NothingWasRead DEF HistoryInit
<1> QED BY <1>1, <1>3, <1>4, <1>5, <1>6 DEF HistoryRight, HistoryTyped, TimerInOrder, RevocationInOrder

LEMMA TicksRight ==
    ASSUME HistoryRight, Ticks
    PROVE  HistoryRight'
<1>1. Timer(cached, clock) \in Nat /\ IsDue(cached, Timer(cached, clock), clock, clock)
  BY HistoryFields, TimerRight
<1>2. /\ history' \in HistoryRecords /\ history'.now = clock /\ history'.due = Timer(cached, clock)
      /\ history'.selected = history.selected /\ history'.revoking = history.revoking
  BY <1>1, HistoryFields DEF Ticks, Tick, HistoryRecords
<1>3. TimerInOrder' /\ RevocationInOrder'
  BY <1>1, <1>2, HistoryFields DEF Ticks, TimerInOrder, RevocationInOrder
<1> QED BY <1>2, <1>3, HistoryFields, RowsStay, HistoryMoves DEF Ticks, HistoryRight, HistoryTyped

LEMMA MountsRight ==
    ASSUME HistoryRight, Mounts
    PROVE  HistoryRight'
<1>1. Timer(cached, clock) \in Nat /\ IsDue(cached, Timer(cached, clock), clock, clock)
  BY HistoryFields, TimerRight
<1>2. /\ history' \in HistoryRecords /\ history'.now = clock /\ history'.due = Timer(cached, clock)
      /\ history'.revoking = "no" /\ history'.selected = NoToken
  BY <1>1, HistoryFields DEF Mounts, Left, HistoryRecords
<1>3. TimerInOrder' /\ RevocationInOrder'
  BY <1>1, <1>2, HistoryFields DEF Mounts, TimerInOrder, RevocationInOrder
<1>4. /\ listing' \in [at : {"none", "asked", "read"}, list : {listing'.list}, awaited : BOOLEAN]
      /\ WasRead(listing'.list, rows)
  BY HistoryFields, ListStarts, NothingWasRead DEF Mounts
<1> QED BY <1>2, <1>3, <1>4, HistoryFields, RowsStay, HistoryMoves DEF Mounts, HistoryRight, HistoryTyped

LEMMA RefreshesRight ==
    ASSUME HistoryRight, refreshConnections
    PROVE  HistoryRight'
<1>1. /\ listing' \in [at : {"none", "asked", "read"}, list : {listing'.list}, awaited : BOOLEAN]
      /\ WasRead(listing'.list, rows)
  BY HistoryFields, ListStarts, NothingWasRead DEF refreshConnections
<1>2. TimerInOrder' /\ RevocationInOrder'
  BY HistoryFields DEF refreshConnections, TimerInOrder, RevocationInOrder
<1> QED BY <1>1, <1>2, HistoryFields, RowsStay, HistoryMoves DEF refreshConnections, HistoryRight, HistoryTyped

LEMMA ReadsRight ==
    ASSUME HistoryRight, Reads
    PROVE  HistoryRight'
<1> DEFINE list == [c \in {d \in OwnTokens : rows[d].made} |-> rows[c]]
<1>1. /\ listing' \in [at : {"none", "asked", "read"}, list : {listing'.list}, awaited : BOOLEAN]
      /\ listing'.list = list
  BY HistoryFields DEF Reads
<1>2. WasRead(list, rows)
  BY HistoryFields DEF WasRead, GoesOnAs
<1>3. TimerInOrder' /\ RevocationInOrder'
  BY HistoryFields DEF Reads, TimerInOrder, RevocationInOrder
<1> HIDE DEF list
<1> QED BY <1>1, <1>2, <1>3, HistoryFields, RowsStay, HistoryMoves DEF Reads, HistoryRight, HistoryTyped

\* Who waits for the list closes the question.
LEMMA ClosesRight ==
    ASSUME HistoryRight, NEW p \in HistoryRecords
    PROVE  /\ Closes(p) \in HistoryRecords
           /\ Closes(p).mounted = p.mounted /\ Closes(p).now = p.now /\ Closes(p).due = p.due
           /\ Closes(p).failed = p.failed
           /\ \/ Closes(p).revoking = "no" /\ Closes(p).selected = NoToken
              \/ Closes(p).revoking = p.revoking /\ Closes(p).selected = p.selected
<1>1. CASE listing.awaited
  BY <1>1 DEF Closes, HistoryRecords
<1>2. CASE ~listing.awaited
  BY <1>2 DEF Closes, HistoryRecords
<1> QED BY <1>1, <1>2

LEMMA AnsweredRight ==
    ASSUME Answered
    PROVE  /\ listing' \in [at : {"none", "asked", "read"}, list : {listing'.list}, awaited : BOOLEAN]
           /\ WasRead(listing'.list, rows)
BY NothingWasRead DEF Answered

LEMMA ArrivesRight ==
    ASSUME HistoryRight, Arrives
    PROVE  HistoryRight'
<1> DEFINE p == [history EXCEPT !.failed = FALSE]
           q == Closes(p)
<1>1. /\ p \in HistoryRecords /\ p.mounted = history.mounted /\ p.now = history.now /\ p.due = history.due
      /\ p.revoking = history.revoking /\ p.selected = history.selected
  BY HistoryFields DEF HistoryRecords
<1> HIDE DEF p
<1>2. /\ q \in HistoryRecords /\ q.mounted = history.mounted /\ q.now = history.now /\ q.due = history.due
      /\ (q.revoking = "no" /\ q.selected = NoToken) \/ (q.revoking = history.revoking /\ q.selected = history.selected)
  BY <1>1, ClosesRight
<1> HIDE DEF q
<1>3. history' = Rerun(q, listing.list) /\ cached' = listing.list /\ rows' = rows /\ clock' = clock
  BY DEF Arrives, p, q
<1>4. /\ Rerun(q, listing.list) \in HistoryRecords
      /\ Rerun(q, listing.list).mounted = q.mounted /\ Rerun(q, listing.list).now = q.now
      /\ Rerun(q, listing.list).selected = q.selected /\ Rerun(q, listing.list).revoking = q.revoking
      /\ q.mounted => IsDue(listing.list, Rerun(q, listing.list).due, q.now, clock)
  BY <1>2, HistoryFields, RerunRight
<1>5. TimerInOrder' /\ RevocationInOrder'
  BY <1>2, <1>3, <1>4, HistoryFields DEF TimerInOrder, RevocationInOrder
<1> QED BY <1>2, <1>3, <1>4, <1>5, HistoryFields, RowsStay, AnsweredRight, HistoryMoves DEF Arrives, HistoryRight, HistoryTyped

LEMMA ListFailsRight ==
    ASSUME HistoryRight, ListFails
    PROVE  HistoryRight'
<1>1. CASE ~history.mounted /\ history' = history
  <2>1. TimerInOrder' /\ RevocationInOrder'
    BY <1>1, HistoryFields DEF ListFails, TimerInOrder, RevocationInOrder
  <2> QED BY <1>1, <2>1, HistoryFields, RowsStay, AnsweredRight, HistoryMoves DEF ListFails, HistoryRight, HistoryTyped
<1>2. ASSUME NEW due \in {0, history.due}, history' = Closes([history EXCEPT !.failed = TRUE, !.due = due])
      PROVE  HistoryRight'
  <2> DEFINE p == [history EXCEPT !.failed = TRUE, !.due = due]
  <2>1. due \in Nat
    BY HistoryFields DEF HistoryRecords
  <2>2. /\ p \in HistoryRecords /\ p.mounted = history.mounted /\ p.now = history.now /\ p.due = due /\ p.failed = TRUE
        /\ p.revoking = history.revoking /\ p.selected = history.selected
    BY <2>1, HistoryFields DEF HistoryRecords
  <2> HIDE DEF p
  <2>3. /\ history' \in HistoryRecords /\ history'.mounted = history.mounted /\ history'.now = history.now /\ history'.due = due
        /\ history'.failed = TRUE
        /\ (history'.revoking = "no" /\ history'.selected = NoToken) \/ (history'.revoking = history.revoking /\ history'.selected = history.selected)
    <3>1. history' = Closes(p)
      BY <1>2 DEF p
    <3> QED BY <2>2, <3>1, ClosesRight
  <2>4. TimerInOrder' /\ RevocationInOrder'
    BY <2>3, HistoryFields DEF ListFails, TimerInOrder, RevocationInOrder
  <2> QED BY <2>3, <2>4, HistoryFields, RowsStay, AnsweredRight, HistoryMoves DEF ListFails, HistoryRight, HistoryTyped
<1> QED BY <1>1, <1>2 DEF ListFails

LEMMA DialogMoves ==
    ASSUME HistoryRight, (\E c \in OwnTokens : Selects(c)) \/ CancelsRevoking \/ handleRevoke \/ RevokeFails
    PROVE  HistoryRight'
<1>1. /\ history' \in HistoryRecords /\ history'.now = history.now /\ history'.mounted = history.mounted
      /\ history'.due = history.due /\ history'.failed = history.failed
      /\ history'.selected # NoToken => rows[history'.selected].made
      /\ \/ history'.revoking = "no"
         \/ history'.revoking = "sent" /\ history'.selected # NoToken
  <2>1. ASSUME NEW c \in OwnTokens, Selects(c)
        PROVE  /\ history' \in HistoryRecords /\ history'.now = history.now /\ history'.mounted = history.mounted
               /\ history'.due = history.due /\ history'.failed = history.failed
               /\ history'.revoking = "no" /\ rows[history'.selected].made
    BY <2>1, HistoryFields DEF Selects, HistoryRecords, RevocationInOrder, Shown, WasRead, GoesOnAs
  <2>2. CASE CancelsRevoking
    BY <2>2, HistoryFields DEF CancelsRevoking, HistoryRecords, RevocationInOrder
  <2>3. CASE handleRevoke
    BY <2>3, HistoryFields DEF handleRevoke, Revoking, HistoryRecords, RevocationInOrder
  <2>4. CASE RevokeFails
    BY <2>4, HistoryFields DEF RevokeFails, HistoryRecords, RevocationInOrder
  <2> QED BY <2>1, <2>2, <2>3, <2>4
<1>2. UNCHANGED <<clock, rows, cached, listing, calls>>
  BY DEF Selects, CancelsRevoking, handleRevoke, RevokeFails
<1>3. TimerInOrder' /\ RevocationInOrder'
  BY <1>1, <1>2, HistoryFields DEF TimerInOrder, RevocationInOrder
<1> QED BY <1>1, <1>2, <1>3, HistoryFields, RowsStay, HistoryMoves DEF HistoryRight, HistoryTyped

\* A row that is revoked goes on.
LEMMA RevokedRight ==
    ASSUME HistoryRight, NEW c \in OwnTokens, Revoked(c)
    PROVE  /\ rows' \in [OwnTokens -> TokenRows] /\ rows'[c].revoked
           /\ \A d \in OwnTokens : rows[d].made => GoesOnAs(rows[d], rows'[d])
           /\ \A d \in OwnTokens : rows[d].revoked => rows'[d].revoked
           /\ WasRead(cached, rows') /\ WasRead(listing.list, rows')
<1>1. rows[c] \in TokenRows /\ rows' = [rows EXCEPT ![c].revoked = TRUE]
  BY HistoryFields DEF Revoked
<1>2. [rows[c] EXCEPT !.revoked = TRUE] \in TokenRows
  BY <1>1 DEF TokenRows
<1>3. rows' \in [OwnTokens -> TokenRows] /\ rows'[c] = [rows[c] EXCEPT !.revoked = TRUE]
      /\ \A d \in OwnTokens : d # c => rows'[d] = rows[d]
  BY <1>1, <1>2, HistoryFields
<1>4. rows'[c].revoked = TRUE /\ rows'[c].made = rows[c].made /\ rows'[c].expiresAt = rows[c].expiresAt
      /\ rows'[c].project = rows[c].project
  BY <1>1, <1>3 DEF TokenRows
<1>5. \A d \in OwnTokens : rows[d].made => GoesOnAs(rows[d], rows'[d])
  BY <1>3, <1>4, Zenon DEF GoesOnAs
<1> QED BY <1>3, <1>4, <1>5, HistoryFields, RowsGoOn

\* What is marked as revoked has been revoked.
LEMMA MarkedRight ==
    ASSUME HistoryRight, NEW c, NEW rs, WasRead(cached, rs), c \in OwnTokens => rs[c].revoked
    PROVE  WasRead(Marked(c), rs) /\ \A d \in DOMAIN Marked(c) : Marked(c)[d] \in TokenRows
<1>1. DOMAIN Marked(c) = DOMAIN cached
  BY DEF Marked
<1>2. ASSUME NEW d \in DOMAIN cached
      PROVE  Marked(c)[d] \in TokenRows /\ GoesOnAs(Marked(c)[d], rs[d])
  <2>1. cached[d] \in TokenRows /\ GoesOnAs(cached[d], rs[d]) /\ d \in OwnTokens
    BY DEF WasRead
  <2>2. CASE d = c
    <3>1. Marked(c)[d] = [cached[d] EXCEPT !.revoked = TRUE]
      BY <2>2 DEF Marked
    <3>2. rs[d].revoked
      BY <2>1, <2>2
    <3> QED BY <2>1, <3>1, <3>2 DEF TokenRows, GoesOnAs
  <2>3. CASE d # c
    BY <2>1, <2>3 DEF Marked
  <2> QED BY <2>2, <2>3
<1> QED BY <1>1, <1>2 DEF WasRead

LEMMA RevokeRight ==
    ASSUME HistoryRight, revoke
    PROVE  HistoryRight'
<1>1. history.revoking = "sent" /\ history.selected \in OwnTokens
  BY HistoryFields DEF revoke, RevocationInOrder
<1>2. /\ history' \in HistoryRecords /\ history'.now = history.now /\ history'.mounted = history.mounted
      /\ history'.due = history.due /\ history'.failed = history.failed
      /\ history'.revoking = "done" /\ history'.selected = history.selected
  BY HistoryFields DEF revoke, HistoryRecords
<1>3. TimerInOrder' /\ RevocationInOrder'
  BY <1>1, <1>2, HistoryFields, RevokedRight, HistoryAssumption DEF revoke, TimerInOrder, RevocationInOrder, GoesOnAs
<1> QED BY <1>1, <1>2, <1>3, HistoryFields, RevokedRight, HistoryMoves DEF revoke, HistoryRight, HistoryTyped

LEMMA ConfirmedRight ==
    ASSUME HistoryRight, Confirmed
    PROVE  HistoryRight'
<1> DEFINE c == history.selected
           p == [history EXCEPT !.revoking = "refetching"]
           list == Marked(c)
<1>1. history.revoking = "done" /\ c \in OwnTokens /\ rows[c].revoked /\ rows[c].made
  BY HistoryFields DEF Confirmed, RevocationInOrder
<1>2. /\ p \in HistoryRecords /\ p.mounted = history.mounted /\ p.now = history.now /\ p.due = history.due
      /\ p.revoking = "refetching" /\ p.selected = c
  BY HistoryFields DEF HistoryRecords
<1>3. WasRead(list, rows) /\ \A d \in DOMAIN list : list[d] \in TokenRows
  BY <1>1, HistoryFields, MarkedRight
<1>4. history' = Rerun(p, list) /\ cached' = list /\ rows' = rows /\ clock' = clock /\ calls' = calls
  BY DEF Confirmed
<1> HIDE DEF p, list, c
<1>5. /\ Rerun(p, list) \in HistoryRecords
      /\ Rerun(p, list).mounted = p.mounted /\ Rerun(p, list).now = p.now
      /\ Rerun(p, list).selected = p.selected /\ Rerun(p, list).revoking = p.revoking
      /\ p.mounted => IsDue(list, Rerun(p, list).due, p.now, clock)
  BY <1>2, <1>3, RerunRight
<1>6. /\ listing' \in [at : {"none", "asked", "read"}, list : {listing'.list}, awaited : BOOLEAN]
      /\ WasRead(listing'.list, rows)
  BY HistoryFields, ListStarts, NothingWasRead DEF Confirmed
<1>7. TimerInOrder' /\ RevocationInOrder'
  BY <1>1, <1>2, <1>4, <1>5, HistoryAssumption DEF TimerInOrder, RevocationInOrder
<1> QED BY <1>2, <1>3, <1>4, <1>5, <1>6, <1>7, HistoryFields, RowsStay, HistoryMoves DEF HistoryRight, HistoryTyped

LEMMA LeavesHistoryRight ==
    ASSUME HistoryRight, LeavesHistory
    PROVE  HistoryRight'
<1>1. history' \in HistoryRecords /\ history'.now = 0 /\ ~history'.mounted /\ history'.revoking = "no"
      /\ history'.selected = NoToken
  BY HistoryAssumption DEF LeavesHistory, Left, HistoryRecords
<1>2. /\ listing' \in [at : {"none", "asked", "read"}, list : {listing'.list}, awaited : BOOLEAN]
      /\ listing'.list = listing.list
  BY HistoryFields DEF LeavesHistory
<1>3. calls' \subseteq OwnTokens
  BY HistoryFields DEF LeavesHistory, HistoryRight, HistoryTyped, RevocationInOrder
<1>4. TimerInOrder' /\ RevocationInOrder'
  BY <1>1 DEF TimerInOrder, RevocationInOrder
<1> QED BY <1>1, <1>2, <1>3, <1>4, HistoryFields, RowsStay, HistoryMoves DEF LeavesHistory, HistoryRight, HistoryTyped

LEMMA GoesOnUnseenRight ==
    ASSUME HistoryRight, NEW c \in OwnTokens, GoesOnUnseen(c)
    PROVE  HistoryRight'
<1> DEFINE list == Marked(c)
<1>1. /\ rows' \in [OwnTokens -> TokenRows] /\ rows'[c].revoked
      /\ \A d \in OwnTokens : rows[d].made => GoesOnAs(rows[d], rows'[d])
      /\ \A d \in OwnTokens : rows[d].revoked => rows'[d].revoked
      /\ WasRead(cached, rows') /\ WasRead(listing.list, rows')
  BY RevokedRight DEF GoesOnUnseen
<1>2. WasRead(list, rows') /\ \A d \in DOMAIN list : list[d] \in TokenRows
  BY <1>1, MarkedRight
<1>3. history' = Rerun(history, list) /\ cached' = list /\ clock' = clock /\ calls' \subseteq OwnTokens
  BY DEF GoesOnUnseen, HistoryRight, HistoryTyped
<1> HIDE DEF list
<1>4. /\ history' \in HistoryRecords
      /\ history'.mounted = history.mounted /\ history'.now = history.now
      /\ history'.selected = history.selected /\ history'.revoking = history.revoking
      /\ history.mounted => IsDue(list, history'.due, history.now, clock)
  BY <1>2, <1>3, HistoryFields, RerunRight
<1>5. /\ listing' \in [at : {"none", "asked", "read"}, list : {listing'.list}, awaited : BOOLEAN]
      /\ WasRead(listing'.list, rows')
  BY <1>1, ListStarts, NothingWasRead DEF GoesOnUnseen
<1>6. TimerInOrder'
  BY <1>3, <1>4 DEF TimerInOrder
<1>7. RevocationInOrder'
  BY <1>1, <1>4, HistoryFields DEF RevocationInOrder, GoesOnAs
<1> QED BY <1>1, <1>2, <1>3, <1>4, <1>5, <1>6, <1>7, HistoryFields, HistoryMoves DEF HistoryRight, HistoryTyped

LEMMA ChangesElsewhereRight ==
    ASSUME HistoryRight, NEW c \in OwnTokens, NEW new \in TokenRows, ChangesElsewhere(c, new)
    PROVE  HistoryRight'
<1>1. rows[c] \in TokenRows /\ rows' = [rows EXCEPT ![c] = new]
  BY HistoryFields DEF ChangesElsewhere
<1>2. rows[c].made => GoesOnAs(rows[c], new)
  BY <1>1 DEF ChangesElsewhere, TokenRows, GoesOnAs
<1>3. rows[c].made /\ rows[c].revoked => new.revoked
  BY <1>1, <1>2 DEF GoesOnAs
<1>4. rows' \in [OwnTokens -> TokenRows] /\ rows'[c] = new /\ \A d \in OwnTokens : d # c => rows'[d] = rows[d]
  BY <1>1, HistoryFields
<1>5. \A d \in OwnTokens : rows[d].made => GoesOnAs(rows[d], rows'[d])
  BY <1>2, <1>4 DEF GoesOnAs
<1>6. TimerInOrder'
  BY HistoryFields DEF ChangesElsewhere, TimerInOrder
<1>7. RevocationInOrder'
  BY <1>3, <1>4, <1>5, HistoryFields DEF ChangesElsewhere, RevocationInOrder, GoesOnAs
<1> QED BY <1>4, <1>5, <1>6, <1>7, HistoryFields, RowsGoOn, HistoryMoves DEF ChangesElsewhere, HistoryRight, HistoryTyped

LEMMA TimePassesRight ==
    ASSUME HistoryRight, TimePasses
    PROVE  HistoryRight'
<1>1. clock' = clock + 1 /\ clock' \in 0 .. Horizon /\ clock \in Nat /\ history.now \in Nat /\ history.due \in Nat
      /\ \A c \in DOMAIN cached : cached[c].expiresAt \in Nat
  BY HistoryFields, HistoryAssumption DEF TimePasses, HistoryRecords, TokenRows, Never
<1>2. IsDue(cached, history.due, history.now, clock) => IsDue(cached, history.due, history.now, clock')
  BY <1>1 DEF IsDue
<1>3. TimerInOrder'
  BY <1>2, HistoryFields DEF TimePasses, TimerInOrder
<1>4. RevocationInOrder'
  BY HistoryFields DEF TimePasses, RevocationInOrder
<1>5. HistoryTyped'
  BY <1>1, HistoryFields DEF TimePasses, HistoryRight, HistoryTyped
<1> QED BY <1>3, <1>4, <1>5, HistoryFields DEF TimePasses, HistoryRight

LEMMA HistoryStep ==
    ASSUME HistoryRight, [HistoryNext]_historyVars
    PROVE  HistoryRight'
<1>1. CASE HistoryNext
  BY <1>1, TicksRight, MountsRight, RefreshesRight, ReadsRight, ArrivesRight, ListFailsRight, DialogMoves,
     RevokeRight, ConfirmedRight, LeavesHistoryRight, TimePassesRight, GoesOnUnseenRight, ChangesElsewhereRight
     DEF HistoryNext
<1>2. CASE UNCHANGED historyVars
  BY <1>2 DEF historyVars, HistoryRight, HistoryTyped, TimerInOrder, RevocationInOrder
<1> QED BY <1>1, <1>2

-----------------------------------------------------------------------------
(* SecretGuard, CheckEditor and TokenHistory: their types *)

\* Counts stay below their bounds.
GuardCounts == made \in 0 .. MaxTokensMade
EditorCounts == saves \in 0 .. MaxSaves /\ updates \in 0 .. MaxUpdates

LEMMA GuardTypes == GuardRight /\ PastRight /\ GuardCounts => GuardTypeOK
<1> SUFFICES ASSUME GuardRight, PastRight, GuardCounts PROVE GuardTypeOK
  OBVIOUS
<1>1. DOMAIN dialog = DOMAIN Closed
  BY DEF GuardRight, GuardTyped, Dialogs, Closed
<1> QED BY <1>1 DEF GuardRight, PastRight, GuardTyped, GuardCounts, GuardTypeOK

LEMMA GuardCountsStay ==
    ASSUME GuardCounts, [GuardNext]_guardVars
    PROVE  GuardCounts'
<1>1. CASE handleSubmit
  <2>1. made < MaxTokensMade /\ made' = made + 1
    BY <1>1 DEF handleSubmit
  <2> QED BY <2>1, GuardAssumption DEF GuardCounts
<1>2. CASE Opens \/ Created \/ CreationFails \/ Copies \/ Confirms \/ Understands
  BY <1>2 DEF Opens, Created, CreationFails, Copies, Confirms, Understands, GuardCounts
<1>3. CASE requestClose \/ keepResultOpen \/ confirmPendingExit \/ reviewAgentConnections
  BY <1>3 DEF requestClose, keepResultOpen, confirmPendingExit, reviewAgentConnections, GoesOn, Leaves, GuardCounts
<1>4. CASE Back \/ BackLands
  BY <1>4 DEF Back, BackLands, Pops, Leaves, GuardCounts
<1>5. CASE Forward \/ GivesUpWaiting \/ installsLater \/ FollowsLink \/ ClosesTab \/ LeavesTab
  BY <1>5 DEF Forward, GivesUpWaiting, installsLater, FollowsLink, ClosesTab, LeavesTab, Leaves, GuardCounts
<1>6. CASE UNCHANGED guardVars
  BY <1>6 DEF guardVars, GuardCounts
<1> QED BY <1>1, <1>2, <1>3, <1>4, <1>5, <1>6 DEF GuardNext, GuardSteps

LEMMA EditorTypes == EditorRight /\ EditorCounts => EditorTypeOK
<1> SUFFICES ASSUME EditorRight, EditorCounts PROVE EditorTypeOK
  OBVIOUS
<1>1. save.pc \in {"none", "sent", "saved"}
  BY DEF EditorRight, NoSave
<1> QED BY <1>1, RowsOfAType DEF EditorRight, EditorCounts, EditorTypeOK

LEMMA EditorCountsStay ==
    ASSUME EditorCounts, [EditorNext]_editorVars
    PROVE  EditorCounts'
<1>1. CASE Submits
  <2>1. saves < MaxSaves /\ saves' = saves + 1 /\ updates' = updates
    BY <1>1 DEF Submits
  <2> QED BY <2>1, EditorAssumption DEF EditorCounts
<1>2. CASE OthersUpdate
  <2>1. updates < MaxUpdates /\ updates' = updates + 1 /\ saves' = saves
    BY <1>2 DEF OthersUpdate
  <2> QED BY <2>1, EditorAssumption DEF EditorCounts
<1>3. CASE OpensEditor \/ Edits \/ Updates \/ Saved \/ SaveFails \/ Cancels \/ Refreshes \/ UNCHANGED editorVars
  <2>1. saves' = saves /\ updates' = updates
    BY <1>3 DEF OpensEditor, Edits, Updates, Saved, SaveFails, Cancels, Refreshes, editorVars
  <2> QED BY <2>1 DEF EditorCounts
<1> QED BY <1>1, <1>2, <1>3 DEF EditorNext

LEMMA CountsBegin ==
    /\ GuardInit => GuardCounts
    /\ EditorInit => EditorCounts
BY GuardAssumption, EditorAssumption DEF GuardInit, GuardCounts, EditorInit, EditorCounts

LEMMA HistoryTypes == HistoryRight => HistoryTypeOK
BY DEF HistoryRight, HistoryTyped, HistoryTypeOK, HistoryRecords, WasRead

-----------------------------------------------------------------------------
(* SignIn: visits, accounts and flows *)

VisitOps == {"none", "signup", "google", "create organization", "create check"}

IsVisit(q) ==
    q \in [pc : VisitPcs, op : VisitOps, email : Addresses, nonce : Nonces \cup {NoFlow}, sent : {q.sent},
           tries : 0 .. MaxSlugAttempts - 1, slug : {q.slug}, result : {q.result}]

VisitInPhase(q) ==
    /\ q.pc \notin {"idle", "ended"} => q.op # "none"
    /\ q.pc \in {"callback", "identity", "by email", "linking", "answering"} => q.op = "google"
    /\ q.pc = "callback" => q.nonce \in Nonces
    /\ q.pc = "user" => q.op \in NewUser
    /\ q.pc = "locking" => q.op \in {"create organization", "create check"}

HasAccount(q) ==
    \/ q.op = "create organization" /\ q.pc \in {"inserting", "committing"}
    \/ q.op = "create check" /\ q.pc \in {"loading", "inserting", "committing"}

VisitsRight ==
    /\ DOMAIN visit = Visits /\ visit = [v \in Visits |-> visit[v]]
    /\ \A v \in Visits : IsVisit(visit[v]) /\ VisitInPhase(visit[v])
    /\ \A u, v \in Visits : HasAccount(visit[u]) /\ HasAccount(visit[v]) => u = v

FlowsRight ==
    /\ account \in [Addresses -> [there : BOOLEAN, linked : BOOLEAN, suspended : BOOLEAN]]
    /\ jar.begun \subseteq Nonces /\ jar.cookie \in jar.begun \cup {NoFlow} /\ exchanged \subseteq Nonces
    /\ jar = [cookie |-> jar.cookie, begun |-> jar.begun, overtaken |-> jar.overtaken]

LEMMA VisitMoves ==
    ASSUME VisitsRight, NEW v \in Visits, NEW q, To(v, q), IsVisit(q), VisitInPhase(q),
           HasAccount(q) => HasAccount(visit[v]) \/ \A u \in Visits \ {v} : ~HasAccount(visit[u])
    PROVE  VisitsRight'
<1>1. visit' = [visit EXCEPT ![v] = q]
  BY DEF To
<1>2. DOMAIN visit' = Visits /\ visit'[v] = q /\ \A u \in Visits \ {v} : visit'[u] = visit[u]
  BY <1>1 DEF VisitsRight
<1>3. visit' = [u \in Visits |-> visit'[u]]
  BY <1>1 DEF VisitsRight
<1>4. \A u \in Visits : IsVisit(visit'[u]) /\ VisitInPhase(visit'[u])
  BY <1>2 DEF VisitsRight
<1>5. \A u, w \in Visits : HasAccount(visit'[u]) /\ HasAccount(visit'[w]) => u = w
  BY <1>2 DEF VisitsRight
<1> HIDE DEF VisitsRight
<1> QED BY <1>2, <1>3, <1>4, <1>5 DEF VisitsRight, IsVisit, VisitInPhase, HasAccount

LEMMA VisitsAre ==
    ASSUME VisitsRight, NEW v \in Visits
    PROVE  IsVisit(visit[v]) /\ VisitInPhase(visit[v])
BY DEF VisitsRight

LEMMA FinishesRight ==
    ASSUME VisitsRight, NEW v \in Visits, NEW result, Finishes(v, result)
    PROVE  VisitsRight'
<1> DEFINE q == visit[v]
           p == [q EXCEPT !.pc = IF q.op = "google" THEN "answering" ELSE "ended", !.result = result]
<1>1. IsVisit(q) /\ VisitInPhase(q) /\ To(v, p)
  BY VisitsAre DEF Finishes
<1> HIDE DEF q
<1>2. /\ p.pc = IF q.op = "google" THEN "answering" ELSE "ended"
      /\ p.op = q.op /\ p.slug = q.slug /\ p.result = result /\ p.sent = q.sent
  BY <1>1 DEF IsVisit
<1>3. IsVisit(p)
  BY <1>1, <1>2 DEF IsVisit, VisitPcs
<1>4. VisitInPhase(p) /\ ~HasAccount(p)
  BY <1>2 DEF VisitInPhase, HasAccount
<1> HIDE DEF p
<1> QED BY <1>1, <1>3, <1>4, VisitMoves

\* A visit goes on, with the slug and the tries that it has or new ones.
LEMMA VisitGoesOn ==
    ASSUME VisitsRight, NEW v \in Visits, NEW pc \in VisitPcs, NEW slug, NEW tries \in 0 .. MaxSlugAttempts - 1,
           To(v, [visit[v] EXCEPT !.pc = pc, !.slug = slug, !.tries = tries]),
           visit[v].op # "none",
           pc \in {"callback", "identity", "by email", "linking", "answering"} => visit[v].op = "google",
           pc # "callback",
           pc = "user" => visit[v].op \in NewUser,
           pc = "locking" => visit[v].op \in {"create organization", "create check"},
           \/ visit[v].op = "create organization" /\ pc \in {"inserting", "committing"}
           \/ visit[v].op = "create check" /\ pc \in {"loading", "inserting", "committing"}
           => HasAccount(visit[v]) \/ \A u \in Visits \ {v} : ~HasAccount(visit[u])
    PROVE  VisitsRight'
<1> DEFINE q == visit[v]
           p == [q EXCEPT !.pc = pc, !.slug = slug, !.tries = tries]
<1>1. IsVisit(q) /\ VisitInPhase(q) /\ To(v, p)
  BY VisitsAre
<1>2. HasAccount(p) => HasAccount(q) \/ \A u \in Visits \ {v} : ~HasAccount(visit[u])
  <2>1. p.pc = pc /\ p.op = q.op
    BY <1>1 DEF IsVisit
  <2> HIDE DEF p
  <2> QED BY <2>1 DEF HasAccount
<1>a. /\ q.op # "none"
      /\ pc \in {"callback", "identity", "by email", "linking", "answering"} => q.op = "google"
      /\ pc = "user" => q.op \in NewUser
      /\ pc = "locking" => q.op \in {"create organization", "create check"}
  OBVIOUS
<1> HIDE DEF q
<1>3. p.pc = pc /\ p.op = q.op /\ p.slug = slug /\ p.tries = tries /\ p.sent = q.sent /\ p.result = q.result
  BY <1>1 DEF IsVisit
<1>4. IsVisit(p)
  BY <1>1, <1>3 DEF IsVisit
<1>5. VisitInPhase(p)
  <2> HIDE DEF p
  <2> QED BY <1>a, <1>3 DEF VisitInPhase
<1> HIDE DEF p
<1> QED BY <1>1, <1>2, <1>4, <1>5, VisitMoves DEF q

LEMMA OneMoreTry ==
    ASSUME NEW n \in 0 .. MaxSlugAttempts - 1, n + 1 # MaxSlugAttempts
    PROVE  n + 1 \in 0 .. MaxSlugAttempts - 1
BY SignInAssumption

LEMMA SlugsRight ==
    ASSUME VisitsRight, NEW v \in Visits,
           LocksAccount(v) \/ LoadsTakenSlugs(v) \/ InsertsUser(v) \/ Inserts(v) \/ RollsBack(v) \/ FindsByGoogleId(v)
           \/ FindsByEmail(v)
    PROVE  VisitsRight'
<1> DEFINE q == visit[v]
<1>1. IsVisit(q) /\ VisitInPhase(q)
  BY VisitsAre
<1>2. ASSUME NEW pc PROVE [q EXCEPT !.pc = pc] = [q EXCEPT !.pc = pc, !.slug = q.slug, !.tries = q.tries]
  BY <1>1 DEF IsVisit
<1>3. \A u \in Visits : HoldsAccount(u) <=> HasAccount(visit[u])
  BY DEF HoldsAccount, HasAccount
<1>4. q.tries \in 0 .. MaxSlugAttempts - 1
  BY <1>1 DEF IsVisit
<1>5. CASE LocksAccount(v)
  <2>1. q.pc = "locking" /\ q.op \in {"create organization", "create check"} /\ \A u \in Visits \ {v} : ~HasAccount(visit[u])
    BY <1>1, <1>3, <1>5 DEF LocksAccount, VisitInPhase
  <2>2. PICK pc \in {"loading", "inserting"} : To(v, [q EXCEPT !.pc = pc])
    BY <1>5 DEF LocksAccount
  <2>3. To(v, [q EXCEPT !.pc = pc, !.slug = q.slug, !.tries = q.tries])
    BY <1>2, <2>2
  <2> QED BY <1>4, <2>1, <2>2, <2>3, VisitGoesOn DEF VisitPcs
<1>6. CASE LoadsTakenSlugs(v)
  <2>1. q.pc = "loading" /\ q.op \in NewUser \cup {"create organization", "create check"}
    BY <1>1, <1>6 DEF LoadsTakenSlugs, VisitInPhase, IsVisit, VisitOps, NewUser
  <2> DEFINE pc == CASE q.op \in NewUser -> "user"
                     [] q.op = "create organization" -> "locking"
                     [] q.op = "create check" -> "inserting"
  <2>2. To(v, [q EXCEPT !.slug = Candidate(q), !.pc = pc])
    BY <1>6 DEF LoadsTakenSlugs
  <2>5. /\ q.op \in NewUser => pc = "user"
        /\ q.op = "create organization" => pc = "locking"
        /\ q.op = "create check" => pc = "inserting"
    BY DEF NewUser
  <2> HIDE DEF pc
  <2>3. [q EXCEPT !.slug = Candidate(q), !.pc = pc] = [q EXCEPT !.pc = pc, !.slug = Candidate(q), !.tries = q.tries]
    BY <1>1 DEF IsVisit
  <2>4. To(v, [q EXCEPT !.pc = pc, !.slug = Candidate(q), !.tries = q.tries])
    BY <2>2, <2>3
  <2>6. q.op = "create check" => HasAccount(q)
    BY <2>1 DEF HasAccount
  <2> QED BY <1>4, <2>1, <2>4, <2>5, <2>6, VisitGoesOn DEF VisitPcs, NewUser
<1>7. CASE InsertsUser(v)
  <2>1. q.pc = "user" /\ q.op \in NewUser
    BY <1>1, <1>7 DEF InsertsUser, VisitInPhase
  <2>2. CASE Finishes(v, "taken")
    BY <2>2, FinishesRight
  <2>3. CASE To(v, [q EXCEPT !.pc = "inserting"])
    <3>1. To(v, [q EXCEPT !.pc = "inserting", !.slug = q.slug, !.tries = q.tries])
      BY <1>2, <2>3
    <3> QED BY <1>4, <2>1, <3>1, VisitGoesOn DEF VisitPcs, NewUser
  <2> QED BY <1>7, <2>2, <2>3 DEF InsertsUser
<1>8. CASE Inserts(v)
  <2>1. q.pc = "inserting" /\ q.op # "none" /\ q.op \in VisitOps
    BY <1>1, <1>8 DEF Inserts, VisitInPhase, IsVisit
  <2>2. CASE Finishes(v, "aborted") \/ Finishes(v, "exhausted")
    BY <2>2, FinishesRight
  <2>3. CASE To(v, [q EXCEPT !.pc = "committing"])
    <3>1. To(v, [q EXCEPT !.pc = "committing", !.slug = q.slug, !.tries = q.tries])
      BY <1>2, <2>3
    <3>2. q.op \in {"create organization", "create check"} => HasAccount(q)
      BY <2>1 DEF HasAccount
    <3> QED BY <1>4, <2>1, <3>1, <3>2, VisitGoesOn DEF VisitPcs, NewUser
  <2>4. CASE /\ q.op # "create check" /\ q.tries + 1 # MaxSlugAttempts
             /\ To(v, [q EXCEPT !.pc = "loading", !.tries = q.tries + 1])
    <3>1. [q EXCEPT !.pc = "loading", !.tries = q.tries + 1]
          = [q EXCEPT !.pc = "loading", !.slug = q.slug, !.tries = q.tries + 1]
      BY <1>1 DEF IsVisit
    <3>2. To(v, [q EXCEPT !.pc = "loading", !.slug = q.slug, !.tries = q.tries + 1])
      BY <2>4, <3>1
    <3>3. q.tries + 1 \in 0 .. MaxSlugAttempts - 1
      BY <1>4, <2>4, OneMoreTry
    <3> QED BY <2>1, <2>4, <3>2, <3>3, VisitGoesOn DEF VisitPcs, NewUser
  <2>5. LosesSlug(v, q) \/ To(v, [q EXCEPT !.pc = "committing"])
    BY <1>8 DEF Inserts
  <2>6. LosesSlug(v, q) => \/ Finishes(v, "aborted") \/ Finishes(v, "exhausted")
                           \/ /\ q.op # "create check" /\ q.tries + 1 # MaxSlugAttempts
                              /\ To(v, [q EXCEPT !.pc = "loading", !.tries = q.tries + 1])
    BY DEF LosesSlug
  <2> QED BY <2>2, <2>3, <2>4, <2>5, <2>6
<1>9. CASE RollsBack(v)
  BY <1>9, FinishesRight DEF RollsBack
<1>10. CASE FindsByGoogleId(v)
  <2>1. q.pc = "identity" /\ q.op = "google"
    BY <1>1, <1>10 DEF FindsByGoogleId, VisitInPhase
  <2>2. CASE To(v, [q EXCEPT !.pc = "by email"])
    <3>1. To(v, [q EXCEPT !.pc = "by email", !.slug = q.slug, !.tries = q.tries])
      BY <1>2, <2>2
    <3> QED BY <1>4, <2>1, <3>1, VisitGoesOn DEF VisitPcs, NewUser
  <2>3. CASE \E result : Finishes(v, result)
    BY <2>3, FinishesRight
  <2> QED BY <1>10, <2>2, <2>3 DEF FindsByGoogleId
<1>11. CASE FindsByEmail(v)
  <2>1. q.pc = "by email" /\ q.op = "google"
    BY <1>1, <1>11 DEF FindsByEmail, VisitInPhase
  <2>2. ASSUME NEW pc \in {"loading", "linking"}, To(v, [q EXCEPT !.pc = pc]) PROVE VisitsRight'
    <3>1. To(v, [q EXCEPT !.pc = pc, !.slug = q.slug, !.tries = q.tries])
      BY <1>2, <2>2
    <3> QED BY <1>4, <2>1, <3>1, VisitGoesOn DEF VisitPcs, NewUser
  <2>3. CASE Finishes(v, "suspended")
    BY <2>3, FinishesRight
  <2> QED BY <1>11, <2>2, <2>3 DEF FindsByEmail
<1> QED BY <1>5, <1>6, <1>7, <1>8, <1>9, <1>10, <1>11

LEMMA BeginsRight ==
    ASSUME VisitsRight, NEW v \in Visits, NEW p, To(v, p), IsVisit(p), VisitInPhase(p), ~HasAccount(p)
    PROVE  VisitsRight'
BY VisitMoves

OneVisit(at, what, who, flow, cookie) ==
    [pc : {at}, op : {what}, email : {who}, nonce : {flow}, sent : {cookie}, tries : {0}, slug : {0}, result : {"none"}]

LEMMA NoVisitHas ==
    /\ NoVisit \in [pc : {NoVisit.pc}, op : {NoVisit.op}, email : {NoVisit.email}, nonce : {NoVisit.nonce},
                    sent : {NoVisit.sent}, tries : {NoVisit.tries}, slug : {NoVisit.slug}, result : {NoVisit.result}]
    /\ NoVisit.nonce = NoFlow /\ NoVisit.sent = NoFlow /\ NoVisit.tries = 0 /\ NoVisit.slug = 0
    /\ NoVisit.result = "none" /\ NoVisit.email = Host
BY DEF NoVisit

LEMMA NoVisitIs ==
    ASSUME NEW at \in VisitPcs, NEW what \in VisitOps, NEW who \in Addresses, NEW flow \in Nonces \cup {NoFlow}, NEW cookie,
           NEW p \in OneVisit(at, what, who, flow, cookie)
    PROVE  IsVisit(p) /\ p.pc = at /\ p.op = what /\ p.nonce = flow
<1>1. 0 \in 0 .. MaxSlugAttempts - 1
  BY SignInAssumption
<1> QED BY <1>1 DEF OneVisit, IsVisit

MayBegin(at, what, flow) ==
    \/ at = "loading" /\ what \in {"signup", "create organization"}
    \/ at = "locking" /\ what \in {"create organization", "create check"}
    \/ at = "callback" /\ what = "google" /\ flow \in Nonces

LEMMA FreshBegins ==
    ASSUME VisitsRight, NEW v \in Visits, NEW at \in VisitPcs, NEW what \in VisitOps, NEW who \in Addresses,
           NEW flow \in Nonces \cup {NoFlow}, NEW cookie, NEW p \in OneVisit(at, what, who, flow, cookie), To(v, p),
           MayBegin(at, what, flow)
    PROVE  VisitsRight'
<1>1. IsVisit(p) /\ p.pc = at /\ p.op = what /\ p.nonce = flow
  BY NoVisitIs
<1>2. VisitInPhase(p) /\ ~HasAccount(p)
  BY <1>1 DEF VisitInPhase, HasAccount, MayBegin
<1> QED BY <1>1, <1>2, BeginsRight

LEMMA VisitsBegin ==
    ASSUME VisitsRight, NEW v \in Visits, jar.begun \subseteq Nonces,
           \/ \E e \in Addresses : SignsUp(v, e) \/ \E n \in Nonces : ReturnsFromGoogle(v, n, e)
           \/ \E what \in {"create organization", "create check"} : CreatesByHost(v, what)
    PROVE  VisitsRight'
<1>2. ASSUME NEW e \in Addresses, SignsUp(v, e) PROVE VisitsRight'
  <2> DEFINE p == [NoVisit EXCEPT !.pc = "loading", !.op = "signup", !.email = e]
  <2>1. p \in OneVisit("loading", "signup", e, NoFlow, NoFlow)
    BY NoVisitHas DEF OneVisit
  <2>2. To(v, p)
    BY <1>2 DEF SignsUp
  <2> HIDE DEF p
  <2> QED BY <2>1, <2>2, FreshBegins DEF VisitPcs, VisitOps, MayBegin
<1>3. ASSUME NEW e \in Addresses, NEW n \in Nonces, ReturnsFromGoogle(v, n, e) PROVE VisitsRight'
  <2> DEFINE p == [NoVisit EXCEPT !.pc = "callback", !.op = "google", !.email = e, !.nonce = n, !.sent = jar.cookie]
  <2>1. p \in OneVisit("callback", "google", e, n, jar.cookie)
    BY NoVisitHas DEF OneVisit
  <2>2. To(v, p)
    BY <1>3 DEF ReturnsFromGoogle
  <2> HIDE DEF p
  <2> QED BY <2>1, <2>2, FreshBegins DEF VisitPcs, VisitOps, MayBegin
<1>4. ASSUME NEW what \in {"create organization", "create check"}, CreatesByHost(v, what) PROVE VisitsRight'
  <2> DEFINE at == IF what = "create check" THEN "locking" ELSE "loading"
             p == [NoVisit EXCEPT !.pc = at, !.op = what]
  <2>1. p \in OneVisit(at, what, Host, NoFlow, NoFlow)
    <3> HIDE DEF at
    <3> QED BY NoVisitHas DEF OneVisit
  <2>2. To(v, p)
    BY <1>4 DEF CreatesByHost
  <2>3. Host \in Addresses
    BY SignInAssumption
  <2>4. at \in VisitPcs /\ at \in {"locking", "loading"} /\ (at = "loading" => what = "create organization")
    BY DEF VisitPcs
  <2>5. what \in VisitOps
    BY DEF VisitOps
  <2> HIDE DEF at, p
  <2> QED BY <2>1, <2>2, <2>3, <2>4, <2>5, FreshBegins DEF MayBegin
<1> QED BY <1>2, <1>3, <1>4

LEMMA CallbacksRight ==
    ASSUME VisitsRight, NEW v \in Visits, VerifiesState(v) \/ LinksAccount(v) \/ Commits(v) \/ AnswersCallback(v)
    PROVE  VisitsRight'
<1> DEFINE q == visit[v]
<1>1. IsVisit(q) /\ VisitInPhase(q)
  BY VisitsAre
<1>2. CASE \E result : Finishes(v, result)
  BY <1>2, FinishesRight
<1>3. ASSUME NEW pc \in {"identity", "ended"}, q.pc \in {"callback", "answering"}, To(v, [q EXCEPT !.pc = pc]) PROVE VisitsRight'
  <2>1. [q EXCEPT !.pc = pc] = [q EXCEPT !.pc = pc, !.slug = q.slug, !.tries = q.tries]
    BY <1>1 DEF IsVisit
  <2>2. To(v, [q EXCEPT !.pc = pc, !.slug = q.slug, !.tries = q.tries])
    BY <1>3, <2>1
  <2>3. q.op = "google" /\ q.tries \in 0 .. MaxSlugAttempts - 1
    BY <1>1, <1>3 DEF VisitInPhase, IsVisit
  <2> QED BY <1>3, <2>2, <2>3, VisitGoesOn DEF VisitPcs
<1> QED BY <1>2, <1>3 DEF VerifiesState, LinksAccount, Commits, AnswersCallback

\* Accounts and flows, whoever moves.
LEMMA FlowsStay ==
    ASSUME VisitsRight, FlowsRight, [SignInNext]_signInVars
    PROVE  FlowsRight'
<1> USE DEF FlowsRight
<1>1. CASE \E n \in Nonces : BeginsFlow(n)
  BY <1>1 DEF BeginsFlow, database
<1>2. CASE \E v \in Visits : VerifiesState(v)
  <2>1. PICK v \in Visits : VerifiesState(v)
    BY <1>2
  <2>2. IsVisit(visit[v]) /\ VisitInPhase(visit[v])
    BY VisitsAre
  <2>3. visit[v].nonce \in Nonces
    BY <2>1, <2>2 DEF VerifiesState, VisitInPhase
  <2>4. exchanged' \subseteq Nonces /\ UNCHANGED <<account, jar>>
    BY <2>1, <2>3 DEF VerifiesState, database
  <2> QED BY <2>4
<1>3. CASE \E v \in Visits : LinksAccount(v) \/ Commits(v)
  <2>1. UNCHANGED <<jar, exchanged>>
    BY <1>3 DEF LinksAccount, Commits, google
  <2>2. account' \in [Addresses -> [there : BOOLEAN, linked : BOOLEAN, suspended : BOOLEAN]]
    <3>1. PICK v \in Visits : LinksAccount(v) \/ Commits(v)
      BY <1>3
    <3>2. visit[v].email \in Addresses
      BY VisitsAre DEF IsVisit
    <3>3. CASE LinksAccount(v)
      BY <3>2, <3>3 DEF LinksAccount
    <3>4. CASE Commits(v)
      BY <3>2, <3>4 DEF Commits
    <3> QED BY <3>1, <3>3, <3>4
  <2> QED BY <2>1, <2>2
<1>4. CASE \E v \in Visits : AnswersCallback(v)
  BY <1>4 DEF AnswersCallback, ClearsCookie, database
<1>5. CASE \E e \in Addresses : SuspendsUser(e)
  <2>1. PICK e \in Addresses : account' = [account EXCEPT ![e].suspended = ~@]
    BY <1>5 DEF SuspendsUser
  <2>2. account' \in [Addresses -> [there : BOOLEAN, linked : BOOLEAN, suspended : BOOLEAN]]
    BY <2>1
  <2>3. UNCHANGED <<jar, exchanged>>
    BY <1>5 DEF SuspendsUser, google
  <2> QED BY <2>2, <2>3
<1>6. CASE FlowsExpire
  BY <1>6 DEF FlowsExpire, database
<1>7. CASE UNCHANGED <<account, google>>
  BY <1>7 DEF google
<1>8. CASE \E v \in Visits, e \in Addresses : SignsUp(v, e) \/ \E n \in Nonces : ReturnsFromGoogle(v, n, e)
  BY <1>7, <1>8 DEF SignsUp, ReturnsFromGoogle, database
<1>9. CASE \E v \in Visits, what \in {"create organization", "create check"} : CreatesByHost(v, what)
  BY <1>7, <1>9 DEF CreatesByHost, database
<1>10. CASE \E v \in Visits : LocksAccount(v) \/ LoadsTakenSlugs(v) \/ InsertsUser(v) \/ Inserts(v) \/ RollsBack(v)
                              \/ FindsByGoogleId(v) \/ FindsByEmail(v)
  BY <1>7, <1>10 DEF LocksAccount, LoadsTakenSlugs, InsertsUser, Inserts, RollsBack, FindsByGoogleId, FindsByEmail, database
<1>11. CASE \E space \in DOMAIN taken, s \in 1 .. Cardinality(Visits) + 1 : TakesSlug(space, s)
  BY <1>7, <1>11 DEF TakesSlug
<1>12. CASE UNCHANGED signInVars
  BY <1>7, <1>12 DEF signInVars
<1> QED BY <1>1, <1>2, <1>3, <1>4, <1>5, <1>6, <1>8, <1>9, <1>10, <1>11, <1>12 DEF SignInNext

LEMMA VisitsStay ==
    ASSUME VisitsRight, FlowsRight, [SignInNext]_signInVars
    PROVE  VisitsRight'
<1>1. CASE UNCHANGED visit
  <2>1. visit' = visit
    BY <1>1
  <2>2. \A v \in Visits : IsVisit(visit'[v]) /\ VisitInPhase(visit'[v])
    BY <2>1, VisitsAre
  <2>3. \A u, v \in Visits : HasAccount(visit'[u]) /\ HasAccount(visit'[v]) => u = v
    BY <2>1 DEF VisitsRight
  <2>4. DOMAIN visit' = Visits /\ visit' = [v \in Visits |-> visit'[v]]
    BY <2>1 DEF VisitsRight
  <2> QED BY <2>2, <2>3, <2>4 DEF VisitsRight, IsVisit, VisitInPhase, HasAccount
<1>2. CASE (\E n \in Nonces : BeginsFlow(n)) \/ FlowsExpire \/ (\E e \in Addresses : SuspendsUser(e)) \/ UNCHANGED signInVars
           \/ \E space \in DOMAIN taken, s \in 1 .. Cardinality(Visits) + 1 : TakesSlug(space, s)
  BY <1>1, <1>2 DEF BeginsFlow, FlowsExpire, SuspendsUser, TakesSlug, Incident, signInVars
<1>3. CASE \E v \in Visits : \/ LocksAccount(v) \/ LoadsTakenSlugs(v) \/ InsertsUser(v) \/ Inserts(v) \/ RollsBack(v)
                             \/ FindsByGoogleId(v) \/ FindsByEmail(v)
  BY <1>3, SlugsRight
<1>4. CASE \E v \in Visits : VerifiesState(v) \/ LinksAccount(v) \/ Commits(v) \/ AnswersCallback(v)
  BY <1>4, CallbacksRight
<1>5. CASE \/ \E v \in Visits, e \in Addresses : SignsUp(v, e) \/ \E n \in Nonces : ReturnsFromGoogle(v, n, e)
           \/ \E v \in Visits, what \in {"create organization", "create check"} : CreatesByHost(v, what)
  <2>1. jar.begun \subseteq Nonces
    BY DEF FlowsRight
  <2> QED BY <1>5, <2>1, VisitsBegin
<1> QED BY <1>2, <1>3, <1>4, <1>5 DEF SignInNext

LEMMA SignInBegins == SignInInit => VisitsRight /\ FlowsRight
<1> SUFFICES ASSUME SignInInit PROVE VisitsRight /\ FlowsRight
  OBVIOUS
<1>1. visit = [v \in Visits |-> NoVisit]
  BY DEF SignInInit
<1>2. IsVisit(NoVisit) /\ VisitInPhase(NoVisit) /\ ~HasAccount(NoVisit)
  <2>1. 0 \in 0 .. MaxSlugAttempts - 1 /\ Host \in Addresses
    BY SignInAssumption
  <2> QED BY <2>1 DEF NoVisit, IsVisit, VisitPcs, VisitOps, VisitInPhase, HasAccount
<1>3. VisitsRight
  BY <1>1, <1>2 DEF VisitsRight
<1>4. FlowsRight
  BY DEF SignInInit, FlowsRight
<1> QED BY <1>3, <1>4

LEMMA SignInTypes == VisitsRight /\ FlowsRight => SignInTypeOK
<1> SUFFICES ASSUME VisitsRight, FlowsRight PROVE SignInTypeOK
  OBVIOUS
<1>1. \A v \in Visits : visit[v].pc \in VisitPcs /\ visit[v].tries \in 0 .. MaxSlugAttempts - 1
  BY VisitsAre DEF IsVisit
<1>2. Cardinality({v \in Visits : HoldsAccount(v)}) <= 1
  <2> DEFINE S == {v \in Visits : HoldsAccount(v)}
  <2>1. \A v \in Visits : HoldsAccount(v) <=> HasAccount(visit[v])
    BY DEF HoldsAccount, HasAccount
  <2>a. \A u, v \in Visits : HasAccount(visit[u]) /\ HasAccount(visit[v]) => u = v
    BY DEF VisitsRight
  <2>b. \A u, v \in S : u = v
    BY <2>1, <2>a
  <2>2. CASE S = {}
    BY <2>2, FS_EmptySet
  <2>3. CASE S # {}
    <3>1. PICK v \in S : S = {v}
      BY <2>b, <2>3
    <3> QED BY <3>1, FS_Singleton
  <2> QED BY <2>2, <2>3
<1> QED BY <1>1, <1>2 DEF SignInTypeOK, FlowsRight

-----------------------------------------------------------------------------
(* SignIn: names and the cookie *)

\* As many attempts as there are others to lose a name to.
AttemptsSuffice == Cardinality(Visits) + MaxIncidents <= MaxSlugAttempts

\* Visits that are done, and slugs others have taken: all that a visit may lose to.
DoneBy(S, vis) == {u \in S : vis[u].result = "done"}
OtherTakers(v) == Cardinality(DoneBy(Visits \ {v}, visit)) + incidents

\* A visit that has looked for a slug and not inserted it yet.
IsNamed(q) == q.pc \in {"user", "inserting"} \/ (q.pc = "locking" /\ q.op = "create organization")

\* Against n others a visit has lost no more than n slugs, and if the one it has
\* is lost too, fewer; one that creates a check cannot lose it.
NameRight(q, n, tk, acc) ==
    /\ q.pc \notin {"answering", "ended"} => q.result = "none"
    /\ q.result # "aborted" /\ (q.result = "exhausted" => ~AttemptsSuffice)
    /\ q.result = "taken" => acc[q.email].there
    /\ q.tries <= n
    /\ IsNamed(q) /\ q.slug \in tk[Space(q)] => q.tries + 1 <= n
    /\ q.op = "create check" /\ q.pc \in {"inserting", "committing"} => q.slug \notin tk["checks"]

TakenRight ==
    /\ taken = [organizations |-> taken["organizations"], checks |-> taken["checks"]]
    /\ IsFiniteSet(taken["organizations"]) /\ IsFiniteSet(taken["checks"])

NamesRight ==
    /\ TakenRight /\ incidents \in 0 .. MaxIncidents
    /\ \A v \in Visits : NameRight(visit[v], OtherTakers(v), taken, account)

CookieRight == jar.overtaken \subseteq jar.begun /\ jar.cookie \notin jar.overtaken

\* A name that is computed is free.
LEMMA UniqueSlugIsFree ==
    ASSUME NEW used, IsFiniteSet(used)
    PROVE  uniqueSlug(used) \in Nat /\ uniqueSlug(used) \notin used
<1> DEFINE k == Cardinality(used) + 1
           S == {n \in 1 .. k : n \notin used}
<1>1. Cardinality(used) \in Nat /\ k \in Nat
  BY FS_CardinalityType
<1>2. S # {}
  <2> SUFFICES ASSUME S = {} PROVE FALSE
    OBVIOUS
  <2>1. 1 .. k \in SUBSET used
    OBVIOUS
  <2>2. Cardinality(1 .. k) <= Cardinality(used)
    BY <2>1, FS_Subset
  <2>3. Cardinality(1 .. k) = k
    <3>1. Cardinality(1 .. k) = IF 1 > k THEN 0 ELSE k - 1 + 1
      BY <1>1, FS_Interval
    <3> QED BY <1>1, <3>1
  <2> QED BY <1>1, <2>2, <2>3
<1>3. S \in SUBSET Nat
  BY <1>1
<1>4. PICK n \in S : \A s \in S : n <= s
  BY <1>2, <1>3, ThereIsAFirst
<1>5. n \in 1 .. Cardinality(used) + 1 /\ n \notin used /\ \A m \in 1 .. n - 1 : m \in used
  <2>1. \A m \in 1 .. n - 1 : m \in 1 .. k /\ ~(n <= m)
    BY <1>1
  <2> QED BY <1>4, <2>1
<1> DEFINE IsUnique(x) == x \notin used /\ \A m \in 1 .. x - 1 : m \in used
<1>6. uniqueSlug(used) = CHOOSE x \in 1 .. Cardinality(used) + 1 : IsUnique(x)
  BY DEF uniqueSlug
<1>7. n \in 1 .. Cardinality(used) + 1 /\ IsUnique(n)
  BY <1>5
<1>8. uniqueSlug(used) \in 1 .. Cardinality(used) + 1 /\ IsUnique(uniqueSlug(used))
  <2> HIDE DEF IsUnique
  <2> QED BY <1>6, <1>7
<1> QED BY <1>1, <1>8

LEMMA OthersAre ==
    ASSUME NEW v \in Visits, incidents \in 0 .. MaxIncidents
    PROVE  OtherTakers(v) \in Nat /\ OtherTakers(v) + 1 <= Cardinality(Visits) + MaxIncidents
<1>1. IsFiniteSet(Visits) /\ MaxIncidents \in Nat
  BY SignInAssumption
<1>2. IsFiniteSet(Visits \ {v}) /\ Cardinality(Visits \ {v}) = Cardinality(Visits) - 1
  BY <1>1, FS_RemoveElement
<1>3. DoneBy(Visits \ {v}, visit) \in SUBSET (Visits \ {v})
  BY DEF DoneBy
<1>4. /\ Cardinality(DoneBy(Visits \ {v}, visit)) \in Nat /\ Cardinality(Visits) \in Nat
      /\ Cardinality(DoneBy(Visits \ {v}, visit)) <= Cardinality(Visits \ {v})
  BY <1>1, <1>2, <1>3, FS_Subset, FS_CardinalityType
<1> QED BY <1>1, <1>2, <1>4 DEF OtherTakers

\* Whoever is done stays so.
LEMMA DoneStays ==
    ASSUME VisitsRight, NEW v \in Visits, NEW q, To(v, q), visit[v].result = "done" => q.result = "done"
    PROVE  /\ \A u \in Visits : Cardinality(DoneBy(Visits \ {u}, visit)) <= Cardinality(DoneBy(Visits \ {u}, visit'))
           /\ q.result = "done" /\ visit[v].result # "done" =>
                 \A u \in Visits \ {v} :
                     Cardinality(DoneBy(Visits \ {u}, visit')) = Cardinality(DoneBy(Visits \ {u}, visit)) + 1
           /\ Cardinality(DoneBy(Visits \ {v}, visit')) = Cardinality(DoneBy(Visits \ {v}, visit))
<1>1. visit'[v] = q /\ \A u \in Visits \ {v} : visit'[u] = visit[u]
  BY DEF To, VisitsRight
<1>f. \A u \in Visits : \A vis : IsFiniteSet(DoneBy(Visits \ {u}, vis)) /\ Cardinality(DoneBy(Visits \ {u}, vis)) \in Nat
  <2> SUFFICES ASSUME NEW u \in Visits, NEW vis
               PROVE  IsFiniteSet(DoneBy(Visits \ {u}, vis)) /\ Cardinality(DoneBy(Visits \ {u}, vis)) \in Nat
    OBVIOUS
  <2>1. IsFiniteSet(Visits) /\ DoneBy(Visits \ {u}, vis) \in SUBSET Visits
    BY SignInAssumption DEF DoneBy
  <2> QED BY <2>1, FS_Subset, FS_CardinalityType
<1>2. ASSUME NEW u \in Visits
      PROVE  Cardinality(DoneBy(Visits \ {u}, visit)) <= Cardinality(DoneBy(Visits \ {u}, visit'))
  <2>1. DoneBy(Visits \ {u}, visit) \in SUBSET DoneBy(Visits \ {u}, visit')
    BY <1>1 DEF DoneBy
  <2> QED BY <1>f, <2>1, FS_Subset
<1>3. ASSUME q.result = "done", visit[v].result # "done", NEW u \in Visits \ {v}
      PROVE  Cardinality(DoneBy(Visits \ {u}, visit')) = Cardinality(DoneBy(Visits \ {u}, visit)) + 1
  <2>1. DoneBy(Visits \ {u}, visit') = DoneBy(Visits \ {u}, visit) \cup {v} /\ v \notin DoneBy(Visits \ {u}, visit)
    BY <1>1, <1>3 DEF DoneBy
  <2> QED BY <1>f, <2>1, FS_AddElement
<1>4. DoneBy(Visits \ {v}, visit') = DoneBy(Visits \ {v}, visit)
  BY <1>1 DEF DoneBy
<1> QED BY <1>2, <1>3, <1>4

LEMMA VisitHas ==
    ASSUME NEW q, IsVisit(q)
    PROVE  q.email \in Addresses /\ q.tries \in Nat /\ q.tries < MaxSlugAttempts
<1>1. q.email \in Addresses /\ q.tries \in 0 .. MaxSlugAttempts - 1
  BY DEF IsVisit
<1> QED BY <1>1, SignInAssumption

LEMMA NoMore ==
    ASSUME NEW k \in Nat, NEW n \in Nat, NEW m \in Nat
    PROVE  /\ k <= n /\ n <= m => k <= m
           /\ k + 1 <= n /\ n <= m => k + 1 <= m
           /\ k <= n /\ n + 1 <= m => k <= m /\ k + 1 <= m
OBVIOUS

LEMMA NameStays ==
    ASSUME NEW q, IsVisit(q), NEW n \in Nat, NEW m \in Nat, n <= m, NEW tk, NEW acc, NEW acc2,
           \A e \in Addresses : acc[e].there => acc2[e].there,
           NameRight(q, n, tk, acc)
    PROVE  NameRight(q, m, tk, acc2)
<1>1. q.email \in Addresses /\ q.tries \in Nat
  BY VisitHas
<1>2. q.tries <= n /\ (IsNamed(q) /\ q.slug \in tk[Space(q)] => q.tries + 1 <= n)
  BY DEF NameRight
<1>3. q.tries <= m /\ (IsNamed(q) /\ q.slug \in tk[Space(q)] => q.tries + 1 <= m)
  BY <1>1, <1>2, NoMore
<1> QED BY <1>1, <1>3 DEF NameRight

\* One more name is taken, and there is one more of the others.
LEMMA NameStaysIfTaken ==
    ASSUME NEW q, IsVisit(q), NEW n \in Nat, NEW m \in Nat, n + 1 <= m, NEW tk, NEW tk2, NEW acc, NEW acc2,
           \A e \in Addresses : acc[e].there => acc2[e].there,
           NameRight(q, n, tk, acc),
           q.op = "create check" /\ q.pc \in {"inserting", "committing"} => q.slug \notin tk2["checks"]
    PROVE  NameRight(q, m, tk2, acc2)
<1>1. q.email \in Addresses /\ q.tries \in Nat
  BY VisitHas
<1>2. q.tries <= n
  BY DEF NameRight
<1>3. q.tries <= m /\ q.tries + 1 <= m
  BY <1>1, <1>2, NoMore
<1> QED BY <1>1, <1>3 DEF NameRight

LEMMA NamesAre ==
    ASSUME NamesRight, VisitsRight, NEW v \in Visits
    PROVE  /\ NameRight(visit[v], OtherTakers(v), taken, account) /\ OtherTakers(v) \in Nat
           /\ OtherTakers(v) + 1 <= Cardinality(Visits) + MaxIncidents /\ IsVisit(visit[v])
BY OthersAre, VisitsAre DEF NamesRight

\* A visit moves, and the tables of names stay.
LEMMA NamesMove ==
    ASSUME VisitsRight, VisitsRight', NamesRight, NEW v \in Visits, NEW q, To(v, q), UNCHANGED <<taken, incidents>>,
           \A e \in Addresses : account[e].there => account'[e].there,
           visit[v].result = "done" => q.result = "done",
           NameRight(q, OtherTakers(v), taken, account')
    PROVE  NamesRight'
<1>1. visit'[v] = q /\ \A u \in Visits \ {v} : visit'[u] = visit[u]
  BY DEF To, VisitsRight
<1>2. incidents \in 0 .. MaxIncidents /\ incidents' = incidents /\ taken' = taken
  BY DEF NamesRight
<1>3. \A u \in Visits : Cardinality(DoneBy(Visits \ {u}, visit)) <= Cardinality(DoneBy(Visits \ {u}, visit'))
  BY DoneStays
<1>4. \A u \in Visits : OtherTakers(u) \in Nat /\ OtherTakers(u)' \in Nat
  <2>1. \A u \in Visits : OtherTakers(u) \in Nat
    BY NamesAre
  <2>2. \A u \in Visits : Cardinality(DoneBy(Visits \ {u}, visit')) \in Nat
    <3> SUFFICES ASSUME NEW u \in Visits PROVE Cardinality(DoneBy(Visits \ {u}, visit')) \in Nat
      OBVIOUS
    <3>1. IsFiniteSet(Visits) /\ DoneBy(Visits \ {u}, visit') \in SUBSET Visits
      BY SignInAssumption DEF DoneBy
    <3> QED BY <3>1, FS_Subset, FS_CardinalityType
  <2> QED BY <1>2, <2>1, <2>2 DEF OtherTakers
<1>5. \A u \in Visits : OtherTakers(u) <= OtherTakers(u)'
  <2>1. \A u \in Visits : Cardinality(DoneBy(Visits \ {u}, visit)) \in Nat /\ Cardinality(DoneBy(Visits \ {u}, visit')) \in Nat
    <3> SUFFICES ASSUME NEW u \in Visits, NEW vis PROVE Cardinality(DoneBy(Visits \ {u}, vis)) \in Nat
      OBVIOUS
    <3>1. IsFiniteSet(Visits) /\ DoneBy(Visits \ {u}, vis) \in SUBSET Visits
      BY SignInAssumption DEF DoneBy
    <3> QED BY <3>1, FS_Subset, FS_CardinalityType
  <2> QED BY <1>2, <1>3, <2>1 DEF OtherTakers
<1>6. ASSUME NEW u \in Visits PROVE NameRight(visit'[u], OtherTakers(u)', taken', account')
  <2>1. IsVisit(visit'[u])
    BY DEF VisitsRight, IsVisit
  <2>2. CASE u = v
    BY <1>1, <1>2, <1>4, <1>5, <2>1, <2>2, NameStays
  <2>3. CASE u # v
    <3>1. NameRight(visit'[u], OtherTakers(u), taken, account)
      BY <1>1, <2>3, NamesAre
    <3> QED BY <1>2, <1>4, <1>5, <2>1, <3>1, NameStays
  <2> QED BY <2>2, <2>3
<1>7. TakenRight'
  BY <1>2 DEF NamesRight, TakenRight
<1>8. \A u \in Visits : NameRight(visit[u], OtherTakers(u), taken, account)'
  BY <1>6 DEF NameRight, Space, IsNamed, AttemptsSuffice
<1> QED BY <1>2, <1>7, <1>8 DEF NamesRight

LEMMA NextOfNat ==
    ASSUME NEW n \in Nat
    PROVE  0 <= n /\ n <= n /\ n + 1 \in Nat /\ n + 1 <= n + 1
OBVIOUS

LEMMA IncidentsAreBounded ==
    ASSUME incidents \in 0 .. MaxIncidents
    PROVE  incidents \in Nat /\ (incidents' = incidents + 1 /\ incidents < MaxIncidents => incidents' \in 0 .. MaxIncidents)
BY SignInAssumption

LEMMA OthersStay ==
    ASSUME incidents \in Nat, visit' = visit, NEW v \in Visits
    PROVE  /\ incidents' = incidents => OtherTakers(v)' = OtherTakers(v)
           /\ incidents' = incidents + 1 => OtherTakers(v)' = OtherTakers(v) + 1
<1>1. IsFiniteSet(Visits) /\ DoneBy(Visits \ {v}, visit) \in SUBSET Visits
  BY SignInAssumption DEF DoneBy
<1>2. Cardinality(DoneBy(Visits \ {v}, visit)) \in Nat
  BY <1>1, FS_Subset, FS_CardinalityType
<1> QED BY <1>2 DEF OtherTakers

\* A visit goes on.
LEMMA NameGoesOn ==
    ASSUME VisitsRight, VisitsRight', NamesRight, NEW v \in Visits, visit[v].pc \notin {"answering", "ended"},
           UNCHANGED <<taken, incidents, account>>,
           NEW pc \in VisitPcs, pc \notin {"answering", "ended"}, NEW slug, NEW tries \in Nat,
           To(v, [visit[v] EXCEPT !.pc = pc, !.slug = slug, !.tries = tries]),
           tries <= OtherTakers(v),
           \/ pc \notin {"user", "inserting", "committing"} /\ (pc = "locking" => visit[v].op = "create check")
           \/ slug \notin taken[Space(visit[v])]
           \/ /\ tries + 1 <= OtherTakers(v)
              /\ visit[v].op = "create check" => pc \notin {"inserting", "committing"}
    PROVE  NamesRight'
<1> DEFINE q == visit[v]
           p == [q EXCEPT !.pc = pc, !.slug = slug, !.tries = tries]
<1>1. IsVisit(q) /\ NameRight(q, OtherTakers(v), taken, account) /\ To(v, p)
  BY NamesAre
<1>2. \/ pc \notin {"user", "inserting", "committing"} /\ (pc = "locking" => q.op = "create check")
      \/ slug \notin taken[Space(q)]
      \/ tries + 1 <= OtherTakers(v) /\ (q.op = "create check" => pc \notin {"inserting", "committing"})
  OBVIOUS
<1>3. q.result = "none"
  BY <1>1 DEF NameRight
<1> HIDE DEF q
<1>4. p.pc = pc /\ p.op = q.op /\ p.slug = slug /\ p.tries = tries /\ p.result = "none" /\ p.email = q.email
  BY <1>1, <1>3 DEF IsVisit
<1> HIDE DEF p
<1>5. Space(p) = Space(q)
  BY <1>4 DEF Space
<1>6. p.op = "create check" => Space(p) = "checks"
  BY DEF Space
<1>7. NameRight(p, OtherTakers(v), taken, account')
  <2>1. IsNamed(p) /\ p.slug \in taken[Space(p)] => p.tries + 1 <= OtherTakers(v)
    BY <1>2, <1>4, <1>5 DEF IsNamed
  <2>2. p.op = "create check" /\ p.pc \in {"inserting", "committing"} => p.slug \notin taken["checks"]
    BY <1>2, <1>4, <1>5, <1>6
  <2>3. p.tries <= OtherTakers(v)
    BY <1>4
  <2>4. p.result = "none"
    BY <1>4
  <2> QED BY <2>1, <2>2, <2>3, <2>4 DEF NameRight
<1>8. \A e \in Addresses : account[e].there => account'[e].there
  OBVIOUS
<1>9. visit[v].result = "done" => p.result = "done"
  BY <1>3 DEF q
<1> QED BY <1>1, <1>7, <1>8, <1>9, NamesMove

\* A visit has its result.
LEMMA NameEnds ==
    ASSUME VisitsRight, VisitsRight', NamesRight, NEW v \in Visits, visit[v].pc \notin {"answering", "ended"},
           UNCHANGED <<taken, incidents>>, NEW result, Finishes(v, result),
           \A e \in Addresses : account[e].there => account'[e].there,
           result # "aborted", result = "exhausted" => ~AttemptsSuffice,
           result = "taken" => account[visit[v].email].there
    PROVE  NamesRight'
<1> DEFINE q == visit[v]
           at == IF q.op = "google" THEN "answering" ELSE "ended"
           p == [q EXCEPT !.pc = at, !.result = result]
<1>1. IsVisit(q) /\ NameRight(q, OtherTakers(v), taken, account) /\ To(v, p)
  BY NamesAre DEF Finishes
<1>2. q.result = "none"
  BY <1>1 DEF NameRight
<1>3. at \in {"answering", "ended"}
  OBVIOUS
<1>e. result = "taken" => account[q.email].there
  OBVIOUS
<1> HIDE DEF q, at
<1>4. p.pc = at /\ p.op = q.op /\ p.slug = q.slug /\ p.tries = q.tries /\ p.result = result /\ p.email = q.email
  BY <1>1 DEF IsVisit
<1> HIDE DEF p
<1>5. q.email \in Addresses
  BY <1>1, VisitHas
<1>6. q.tries <= OtherTakers(v)
  BY <1>1 DEF NameRight
<1>7. NameRight(p, OtherTakers(v), taken, account')
  <2>1. ~IsNamed(p) /\ p.pc \notin {"inserting", "committing"}
    BY <1>3, <1>4 DEF IsNamed
  <2>2. p.result = "taken" => account'[p.email].there
    BY <1>4, <1>5, <1>e
  <2> QED BY <1>3, <1>4, <1>6, <2>1, <2>2 DEF NameRight
<1>8. visit[v].result = "done" => p.result = "done"
  BY <1>2 DEF q
<1> QED BY <1>1, <1>7, <1>8, NamesMove

LEMMA NameBegins ==
    ASSUME VisitsRight, VisitsRight', NamesRight, NEW v \in Visits, visit[v].pc = "idle",
           UNCHANGED <<taken, incidents, account>>,
           NEW at, NEW what, NEW who, NEW flow, NEW cookie, NEW p \in OneVisit(at, what, who, flow, cookie), To(v, p),
           MayBegin(at, what, flow), at = "locking" => what = "create check"
    PROVE  NamesRight'
<1>1. NameRight(visit[v], OtherTakers(v), taken, account) /\ OtherTakers(v) \in Nat
  BY NamesAre
<1>2. visit[v].result = "none"
  BY <1>1 DEF NameRight
<1>3. p.pc = at /\ p.op = what /\ p.tries = 0 /\ p.result = "none"
  BY DEF OneVisit
<1>4. at \in {"loading", "locking", "callback"}
  BY DEF MayBegin
<1>5. 0 <= OtherTakers(v)
  BY <1>1, NextOfNat
<1>6. NameRight(p, OtherTakers(v), taken, account')
  <2>1. ~IsNamed(p) /\ p.pc \notin {"inserting", "committing", "answering", "ended"}
    BY <1>3, <1>4 DEF IsNamed
  <2> QED BY <1>3, <1>5, <2>1 DEF NameRight
<1> QED BY <1>2, <1>6, NamesMove

\* Nothing happens to the visits, and one more may have happened beside them.
LEMMA NamesKeep ==
    ASSUME VisitsRight, NamesRight, UNCHANGED visit, TakenRight',
           \A e \in Addresses : account[e].there => account'[e].there,
           \/ incidents' = incidents /\ taken' = taken
           \/ /\ incidents' = incidents + 1 /\ incidents < MaxIncidents
              /\ \A v \in Visits : visit[v].op = "create check" /\ visit[v].pc \in {"inserting", "committing"} =>
                                     visit[v].slug \notin taken'["checks"]
    PROVE  NamesRight'
<1>0. incidents \in 0 .. MaxIncidents
  BY DEF NamesRight
<1>1. visit' = visit /\ incidents \in Nat
  BY <1>0, IncidentsAreBounded
<1>2. incidents' \in 0 .. MaxIncidents
  BY <1>0, IncidentsAreBounded
<1>3. ASSUME NEW v \in Visits PROVE NameRight(visit'[v], OtherTakers(v)', taken', account')
  <2>1. IsVisit(visit[v]) /\ NameRight(visit[v], OtherTakers(v), taken, account) /\ OtherTakers(v) \in Nat
    BY NamesAre
  <2>2. CASE incidents' = incidents /\ taken' = taken
    <3>1. OtherTakers(v)' = OtherTakers(v)
      BY <1>1, <2>2, OthersStay
    <3>2. OtherTakers(v) <= OtherTakers(v)
      BY <2>1, NextOfNat
    <3> QED BY <1>1, <2>1, <2>2, <3>1, <3>2, NameStays
  <2>3. CASE incidents' = incidents + 1 /\ \A u \in Visits : visit[u].op = "create check" /\ visit[u].pc \in {"inserting", "committing"} =>
                                     visit[u].slug \notin taken'["checks"]
    <3>1. OtherTakers(v)' = OtherTakers(v) + 1
      BY <1>1, <2>3, OthersStay
    <3>2. OtherTakers(v)' \in Nat /\ OtherTakers(v) + 1 <= OtherTakers(v)'
      BY <2>1, <3>1, NextOfNat
    <3>3. visit[v].op = "create check" /\ visit[v].pc \in {"inserting", "committing"} => visit[v].slug \notin taken'["checks"]
      BY <2>3
    <3>4. NameRight(visit[v], OtherTakers(v)', taken', account')
      BY <2>1, <3>2, <3>3, NameStaysIfTaken
    <3> QED BY <1>1, <3>4
  <2>4. \/ incidents' = incidents /\ taken' = taken
        \/ incidents' = incidents + 1 /\ \A u \in Visits : visit[u].op = "create check" /\ visit[u].pc \in {"inserting", "committing"} =>
                                     visit[u].slug \notin taken'["checks"]
    OBVIOUS
  <2> QED BY <2>2, <2>3, <2>4
<1>4. \A v \in Visits : NameRight(visit[v], OtherTakers(v), taken, account)'
  BY <1>3 DEF NameRight, Space, IsNamed, AttemptsSuffice
<1> QED BY <1>2, <1>4 DEF NamesRight

LEMMA TakenGrows ==
    ASSUME TakenRight, NEW space \in {"organizations", "checks"}, NEW s, taken' = [taken EXCEPT ![space] = @ \cup {s}]
    PROVE  /\ TakenRight'
           /\ space # "checks" => taken'["checks"] = taken["checks"]
           /\ taken'["checks"] \subseteq taken["checks"] \cup {s}
<1>1. CASE space = "organizations"
  <2>1. taken'["organizations"] = taken["organizations"] \cup {s} /\ taken'["checks"] = taken["checks"]
    BY <1>1 DEF TakenRight
  <2>2. taken' = [organizations |-> taken'["organizations"], checks |-> taken'["checks"]]
    BY <1>1 DEF TakenRight
  <2>3. IsFiniteSet(taken'["organizations"])
    BY <2>1, FS_AddElement DEF TakenRight
  <2> QED BY <2>1, <2>2, <2>3 DEF TakenRight
<1>2. CASE space = "checks"
  <2>1. taken'["checks"] = taken["checks"] \cup {s} /\ taken'["organizations"] = taken["organizations"]
    BY <1>2 DEF TakenRight
  <2>2. taken' = [organizations |-> taken'["organizations"], checks |-> taken'["checks"]]
    BY <1>2 DEF TakenRight
  <2>3. IsFiniteSet(taken'["checks"])
    BY <2>1, FS_AddElement DEF TakenRight
  <2> QED BY <1>2, <2>1, <2>2, <2>3 DEF TakenRight
<1> QED BY <1>1, <1>2

LEMMA AccountsStay ==
    ASSUME FlowsRight, NEW v \in Visits, VisitsRight, LinksAccount(v) \/ Commits(v)
    PROVE  \A e \in Addresses : account[e].there => account'[e].there
<1>1. visit[v].email \in Addresses /\ account \in [Addresses -> [there : BOOLEAN, linked : BOOLEAN, suspended : BOOLEAN]]
  BY VisitsAre, VisitHas DEF FlowsRight
<1>2. CASE LinksAccount(v)
  BY <1>1, <1>2 DEF LinksAccount
<1>3. CASE Commits(v)
  BY <1>1, <1>3 DEF Commits
<1> QED BY <1>2, <1>3

\* Another's slug is committed: one more of the others of everybody else.
LEMMA NamesCommit ==
    ASSUME VisitsRight, VisitsRight', FlowsRight, NamesRight, NEW v \in Visits, Commits(v)
    PROVE  NamesRight'
<1> DEFINE q == visit[v]
           at == IF q.op = "google" THEN "answering" ELSE "ended"
           p == [q EXCEPT !.pc = at, !.result = "done"]
<1>1. IsVisit(q) /\ NameRight(q, OtherTakers(v), taken, account) /\ OtherTakers(v) \in Nat /\ To(v, p) /\ VisitInPhase(q)
  BY NamesAre, VisitsAre DEF Commits, Finishes
<1>2. q.pc = "committing" /\ incidents' = incidents /\ incidents \in 0 .. MaxIncidents /\ TakenRight
  BY DEF Commits, NamesRight
<1>3. q.result = "none"
  BY <1>1, <1>2 DEF NameRight
<1>4. taken' = [taken EXCEPT ![Space(q)] = @ \cup {q.slug}] /\ Space(q) \in {"organizations", "checks"}
  BY DEF Commits, Space
<1>5. \A e \in Addresses : account[e].there => account'[e].there
  BY AccountsStay
<1>6. visit'[v] = p /\ \A u \in Visits \ {v} : visit'[u] = visit[u]
  BY <1>1 DEF To, VisitsRight
<1>c. Space(q) = "checks" => q.op = "create check"
  BY DEF Space
<1>h. q.op = "create check" => HasAccount(q)
  BY <1>2 DEF HasAccount
<1>a. at \in {"answering", "ended"}
  OBVIOUS
<1>7. /\ TakenRight'
      /\ Space(q) # "checks" => taken'["checks"] = taken["checks"]
  <2> HIDE DEF q
  <2> QED BY <1>2, <1>4, TakenGrows
<1>p. p.pc = at /\ p.op = q.op /\ p.slug = q.slug /\ p.tries = q.tries /\ p.result = "done" /\ p.email = q.email
  BY <1>1 DEF IsVisit
<1>8. visit[v].result # "done" /\ p.result = "done"
  BY <1>3, <1>p
<1> HIDE DEF p, at
<1>9. /\ \A u \in Visits \ {v} : Cardinality(DoneBy(Visits \ {u}, visit')) = Cardinality(DoneBy(Visits \ {u}, visit)) + 1
      /\ Cardinality(DoneBy(Visits \ {v}, visit')) = Cardinality(DoneBy(Visits \ {v}, visit))
  BY <1>1, <1>8, DoneStays
<1>10. /\ OtherTakers(v)' = OtherTakers(v)
       /\ \A u \in Visits \ {v} : OtherTakers(u)' = OtherTakers(u) + 1
  <2>1. \A u \in Visits : Cardinality(DoneBy(Visits \ {u}, visit)) \in Nat
    <3> SUFFICES ASSUME NEW u \in Visits PROVE Cardinality(DoneBy(Visits \ {u}, visit)) \in Nat
      OBVIOUS
    <3>1. IsFiniteSet(Visits) /\ DoneBy(Visits \ {u}, visit) \in SUBSET Visits
      BY SignInAssumption DEF DoneBy
    <3> QED BY <3>1, FS_Subset, FS_CardinalityType
  <2>2. incidents \in Nat
    BY <1>2, IncidentsAreBounded
  <2> HIDE DEF q
  <2> QED BY <1>2, <1>9, <2>1, <2>2 DEF OtherTakers
<1>11. ASSUME NEW u \in Visits PROVE NameRight(visit'[u], OtherTakers(u)', taken', account')
  <2>1. CASE u = v
    <3>1. ~IsNamed(p) /\ p.pc \notin {"inserting", "committing"}
      BY <1>a, <1>p DEF IsNamed
    <3>2. p.tries <= OtherTakers(v)
      BY <1>1, <1>p DEF NameRight
    <3>3. NameRight(p, OtherTakers(v), taken', account')
      BY <1>a, <1>p, <3>1, <3>2 DEF NameRight
    <3> QED BY <1>6, <1>10, <2>1, <3>3
  <2>2. CASE u # v
    <3>1. IsVisit(visit[u]) /\ NameRight(visit[u], OtherTakers(u), taken, account) /\ OtherTakers(u) \in Nat
      BY NamesAre
    <3>2. OtherTakers(u)' = OtherTakers(u) + 1 /\ visit'[u] = visit[u]
      BY <1>6, <1>10, <2>2
    <3>3. OtherTakers(u)' \in Nat /\ OtherTakers(u) + 1 <= OtherTakers(u)'
      BY <3>1, <3>2, NextOfNat
    <3>4. visit[u].op = "create check" /\ visit[u].pc \in {"inserting", "committing"} => visit[u].slug \notin taken'["checks"]
      <4> SUFFICES ASSUME visit[u].op = "create check", visit[u].pc \in {"inserting", "committing"}
                   PROVE  visit[u].slug \notin taken'["checks"]
        OBVIOUS
      <4>1. HasAccount(visit[u])
        BY DEF HasAccount
      <4>2. ~HasAccount(q)
        BY <2>2, <4>1 DEF VisitsRight
      <4>3. taken'["checks"] = taken["checks"]
        BY <1>7, <1>c, <1>h, <4>2
      <4> QED BY <3>1, <4>3 DEF NameRight
    <3>5. NameRight(visit[u], OtherTakers(u)', taken', account')
      BY <1>5, <3>1, <3>3, <3>4, NameStaysIfTaken
    <3> QED BY <3>2, <3>5
  <2> QED BY <2>1, <2>2
<1>12. \A u \in Visits : NameRight(visit[u], OtherTakers(u), taken, account)'
  BY <1>11 DEF NameRight, Space, IsNamed, AttemptsSuffice
<1> QED BY <1>2, <1>7, <1>12 DEF NamesRight

\* Somebody else takes a slug: no check's, while a check is being created.
LEMMA NamesAreTaken ==
    ASSUME VisitsRight, NamesRight, NEW space \in DOMAIN taken, NEW s, TakesSlug(space, s)
    PROVE  NamesRight'
<1>1. TakenRight /\ visit' = visit /\ account' = account /\ incidents' = incidents + 1 /\ incidents < MaxIncidents
  BY DEF NamesRight, TakesSlug, Incident
<1>2. space \in {"organizations", "checks"} /\ taken' = [taken EXCEPT ![space] = @ \cup {s}]
  BY <1>1 DEF TakenRight, TakesSlug
<1>3. TakenRight' /\ (space # "checks" => taken'["checks"] = taken["checks"])
  BY <1>1, <1>2, TakenGrows
<1>4. ASSUME NEW v \in Visits, visit[v].op = "create check", visit[v].pc \in {"inserting", "committing"}
      PROVE  visit[v].slug \notin taken'["checks"]
  <2>1. HoldsAccount(v)
    BY <1>4 DEF HoldsAccount
  <2>2. space # "checks"
    BY <2>1 DEF TakesSlug
  <2>3. visit[v].slug \notin taken["checks"]
    BY <1>4, NamesAre DEF NameRight
  <2> QED BY <1>3, <2>2, <2>3
<1> QED BY <1>1, <1>3, <1>4, NamesKeep

LEMMA NamesBesideVisits ==
    ASSUME VisitsRight, FlowsRight, NamesRight,
           \/ \E n \in Nonces : BeginsFlow(n)
           \/ \E e \in Addresses : SuspendsUser(e)
           \/ FlowsExpire \/ UNCHANGED signInVars
    PROVE  NamesRight'
<1>1. visit' = visit /\ taken' = taken
  BY DEF BeginsFlow, SuspendsUser, FlowsExpire, Incident, signInVars, database
<1>2. \A e \in Addresses : account[e].there => account'[e].there
  <2>1. account \in [Addresses -> [there : BOOLEAN, linked : BOOLEAN, suspended : BOOLEAN]]
    BY DEF FlowsRight
  <2>2. CASE \E e \in Addresses : SuspendsUser(e)
    <3>1. PICK e \in Addresses : account' = [account EXCEPT ![e].suspended = ~@]
      BY <2>2 DEF SuspendsUser
    <3> QED BY <2>1, <3>1
  <2>3. CASE (\E n \in Nonces : BeginsFlow(n)) \/ FlowsExpire \/ UNCHANGED signInVars
    BY <2>3 DEF BeginsFlow, FlowsExpire, signInVars, database
  <2> QED BY <2>2, <2>3
<1>3. incidents' = incidents \/ (incidents' = incidents + 1 /\ incidents < MaxIncidents)
  BY DEF BeginsFlow, SuspendsUser, FlowsExpire, Incident, signInVars
<1>4. TakenRight'
  BY <1>1 DEF NamesRight, TakenRight
<1>5. ASSUME NEW v \in Visits, visit[v].op = "create check", visit[v].pc \in {"inserting", "committing"}
      PROVE  visit[v].slug \notin taken'["checks"]
  BY <1>1, <1>5, NamesAre DEF NameRight
<1> QED BY <1>1, <1>2, <1>3, <1>4, <1>5, NamesKeep

LEMMA NamesOfNew ==
    ASSUME VisitsRight, VisitsRight', NamesRight, NEW v \in Visits,
           \/ \E e \in Addresses : SignsUp(v, e) \/ \E n \in Nonces : ReturnsFromGoogle(v, n, e)
           \/ \E what \in {"create organization", "create check"} : CreatesByHost(v, what)
    PROVE  NamesRight'
<1>1. visit[v].pc = "idle" /\ taken' = taken /\ incidents' = incidents /\ account' = account
  BY DEF SignsUp, ReturnsFromGoogle, CreatesByHost, database
<1>2. ASSUME NEW e \in Addresses, SignsUp(v, e) PROVE NamesRight'
  <2> DEFINE p == [NoVisit EXCEPT !.pc = "loading", !.op = "signup", !.email = e]
  <2>1. p \in OneVisit("loading", "signup", e, NoFlow, NoFlow)
    BY NoVisitHas DEF OneVisit
  <2>2. To(v, p)
    BY <1>2 DEF SignsUp
  <2>3. MayBegin("loading", "signup", NoFlow)
    BY DEF MayBegin
  <2> HIDE DEF p
  <2> QED BY <1>1, <2>1, <2>2, <2>3, NameBegins
<1>3. ASSUME NEW e \in Addresses, NEW n \in Nonces, ReturnsFromGoogle(v, n, e) PROVE NamesRight'
  <2> DEFINE p == [NoVisit EXCEPT !.pc = "callback", !.op = "google", !.email = e, !.nonce = n, !.sent = jar.cookie]
  <2>1. p \in OneVisit("callback", "google", e, n, jar.cookie)
    BY NoVisitHas DEF OneVisit
  <2>2. To(v, p)
    BY <1>3 DEF ReturnsFromGoogle
  <2>3. MayBegin("callback", "google", n)
    BY DEF MayBegin
  <2> HIDE DEF p
  <2> QED BY <1>1, <2>1, <2>2, <2>3, NameBegins
<1>4. ASSUME NEW what \in {"create organization", "create check"}, CreatesByHost(v, what) PROVE NamesRight'
  <2> DEFINE at == IF what = "create check" THEN "locking" ELSE "loading"
             p == [NoVisit EXCEPT !.pc = at, !.op = what]
  <2>1. p \in OneVisit(at, what, Host, NoFlow, NoFlow)
    <3> HIDE DEF at
    <3> QED BY NoVisitHas DEF OneVisit
  <2>2. To(v, p)
    BY <1>4 DEF CreatesByHost
  <2>3. MayBegin(at, what, NoFlow) /\ (at = "locking" => what = "create check")
    BY DEF MayBegin
  <2> HIDE DEF at, p
  <2> QED BY <1>1, <2>1, <2>2, <2>3, NameBegins
<1> QED BY <1>2, <1>3, <1>4

\* Creation with a slug, up to its end.
LEMMA NamesOfSlugs ==
    ASSUME VisitsRight, VisitsRight', NamesRight, NEW v \in Visits,
           LocksAccount(v) \/ LoadsTakenSlugs(v) \/ InsertsUser(v) \/ RollsBack(v)
    PROVE  NamesRight'
<1> DEFINE q == visit[v]
<1>1. IsVisit(q) /\ VisitInPhase(q) /\ NameRight(q, OtherTakers(v), taken, account) /\ OtherTakers(v) \in Nat
  BY NamesAre, VisitsAre
<1>2. ASSUME NEW pc PROVE [q EXCEPT !.pc = pc] = [q EXCEPT !.pc = pc, !.slug = q.slug, !.tries = q.tries]
  BY <1>1 DEF IsVisit
<1>3. taken' = taken /\ incidents' = incidents /\ account' = account
  BY DEF LocksAccount, LoadsTakenSlugs, InsertsUser, RollsBack, database
<1>4. q.tries \in Nat /\ q.tries <= OtherTakers(v)
  BY <1>1, VisitHas DEF NameRight
<1>e. \A e \in Addresses : account[e].there => account'[e].there
  BY <1>3
<1>5. CASE LocksAccount(v)
  <2>1. q.pc = "locking" /\ q.op \in {"create organization", "create check"}
    BY <1>1, <1>5 DEF LocksAccount, VisitInPhase
  <2>2. To(v, [q EXCEPT !.pc = IF q.op = "create check" THEN "loading" ELSE "inserting"])
    BY <1>5 DEF LocksAccount
  <2>3. CASE q.op = "create check"
    <3>1. To(v, [q EXCEPT !.pc = "loading", !.slug = q.slug, !.tries = q.tries])
      BY <1>2, <2>2, <2>3
    <3> QED BY <1>3, <1>4, <2>1, <3>1, NameGoesOn DEF VisitPcs
  <2>4. CASE q.op = "create organization"
    <3>1. To(v, [q EXCEPT !.pc = "inserting", !.slug = q.slug, !.tries = q.tries])
      BY <1>2, <2>2, <2>4
    <3>2. q.slug \notin taken[Space(q)] \/ q.tries + 1 <= OtherTakers(v)
      BY <1>1, <2>1, <2>4 DEF NameRight, IsNamed
    <3> QED BY <1>3, <1>4, <2>1, <2>4, <3>1, <3>2, NameGoesOn DEF VisitPcs
  <2> QED BY <2>1, <2>3, <2>4
<1>6. CASE LoadsTakenSlugs(v)
  <2>1. q.pc = "loading" /\ q.op \in NewUser \cup {"create organization", "create check"}
    BY <1>1, <1>6 DEF LoadsTakenSlugs, VisitInPhase, IsVisit, VisitOps, NewUser
  <2> DEFINE pc == CASE q.op \in NewUser -> "user"
                     [] q.op = "create organization" -> "locking"
                     [] q.op = "create check" -> "inserting"
  <2>2. To(v, [q EXCEPT !.slug = Candidate(q), !.pc = pc])
    BY <1>6 DEF LoadsTakenSlugs
  <2>5. pc \in {"user", "locking", "inserting"}
    BY <2>1 DEF NewUser
  <2> HIDE DEF pc
  <2>3. [q EXCEPT !.slug = Candidate(q), !.pc = pc] = [q EXCEPT !.pc = pc, !.slug = Candidate(q), !.tries = q.tries]
    BY <1>1 DEF IsVisit
  <2>4. To(v, [q EXCEPT !.pc = pc, !.slug = Candidate(q), !.tries = q.tries])
    BY <2>2, <2>3
  <2>6. Candidate(q) \notin taken[Space(q)]
    <3>1. IsFiniteSet(taken[Space(q)])
      BY DEF NamesRight, TakenRight, Space
    <3> QED BY <3>1, UniqueSlugIsFree DEF Candidate
  <2>7. pc \in VisitPcs /\ pc \notin {"answering", "ended"} /\ q.pc \notin {"answering", "ended"}
    BY <2>1, <2>5 DEF VisitPcs
  <2> QED BY <1>3, <1>4, <2>4, <2>6, <2>7, NameGoesOn
<1>7. CASE InsertsUser(v)
  <2>1. q.pc = "user" /\ q.op \in NewUser
    BY <1>1, <1>7 DEF InsertsUser, VisitInPhase
  <2>2. CASE account[q.email].there /\ Finishes(v, "taken")
    BY <1>3, <1>e, <2>1, <2>2, NameEnds
  <2>3. CASE To(v, [q EXCEPT !.pc = "inserting"])
    <3>1. To(v, [q EXCEPT !.pc = "inserting", !.slug = q.slug, !.tries = q.tries])
      BY <1>2, <2>3
    <3>2. q.slug \notin taken[Space(q)] \/ q.tries + 1 <= OtherTakers(v)
      BY <1>1, <2>1 DEF NameRight, IsNamed
    <3>3. q.op # "create check"
      BY <2>1 DEF NewUser
    <3> QED BY <1>3, <1>4, <2>1, <3>1, <3>2, <3>3, NameGoesOn DEF VisitPcs
  <2> QED BY <1>7, <2>2, <2>3 DEF InsertsUser
<1>9. CASE RollsBack(v)
  BY <1>3, <1>e, <1>9, NameEnds DEF RollsBack
<1> QED BY <1>5, <1>6, <1>7, <1>9

\* As many others as attempts: then there are more of them than there can be.
LEMMA TooManyOthers ==
    ASSUME NamesRight, VisitsRight, NEW v \in Visits, NEW k \in Nat, k + 1 <= OtherTakers(v), k + 1 = MaxSlugAttempts
    PROVE  ~AttemptsSuffice
<1>1. OtherTakers(v) \in Nat /\ OtherTakers(v) + 1 <= Cardinality(Visits) + MaxIncidents
  BY NamesAre
<1>2. Cardinality(Visits) \in Nat /\ MaxIncidents \in Nat /\ MaxSlugAttempts \in Nat
  BY SignInAssumption, FS_CardinalityType
<1> QED BY <1>1, <1>2 DEF AttemptsSuffice

LEMMA NamesOfInserts ==
    ASSUME VisitsRight, VisitsRight', NamesRight, NEW v \in Visits, Inserts(v)
    PROVE  NamesRight'
<1> DEFINE q == visit[v]
<1>1. IsVisit(q) /\ VisitInPhase(q) /\ NameRight(q, OtherTakers(v), taken, account) /\ OtherTakers(v) \in Nat
  BY NamesAre, VisitsAre
<1>3. taken' = taken /\ incidents' = incidents /\ account' = account
  BY DEF Inserts, database
<1>4. q.tries \in Nat /\ q.tries <= OtherTakers(v) /\ q.pc = "inserting"
  BY <1>1, VisitHas DEF NameRight, Inserts
<1>e. \A e \in Addresses : account[e].there => account'[e].there
  BY <1>3
<1>5. CASE q.slug \notin taken[Space(q)]
  <2>1. To(v, [q EXCEPT !.pc = "committing"])
    BY <1>5 DEF Inserts
  <2>2. [q EXCEPT !.pc = "committing"] = [q EXCEPT !.pc = "committing", !.slug = q.slug, !.tries = q.tries]
    BY <1>1 DEF IsVisit
  <2>3. To(v, [q EXCEPT !.pc = "committing", !.slug = q.slug, !.tries = q.tries])
    BY <2>1, <2>2
  <2> QED BY <1>3, <1>4, <1>5, <2>3, NameGoesOn DEF VisitPcs
<1>6. CASE q.slug \in taken[Space(q)]
  <2>1. LosesSlug(v, q)
    BY <1>6 DEF Inserts
  <2>2. q.op # "create check" /\ q.tries + 1 <= OtherTakers(v)
    BY <1>1, <1>4, <1>6 DEF NameRight, IsNamed, Space
  <2>3. CASE q.tries + 1 = MaxSlugAttempts
    <3>1. ~AttemptsSuffice
      BY <1>4, <2>2, <2>3, TooManyOthers
    <3>2. Finishes(v, "exhausted")
      BY <2>1, <2>2, <2>3 DEF LosesSlug
    <3> QED BY <1>3, <1>4, <1>e, <3>1, <3>2, NameEnds
  <2>4. CASE q.tries + 1 # MaxSlugAttempts
    <3>1. To(v, [q EXCEPT !.pc = "loading", !.tries = q.tries + 1])
      BY <2>1, <2>2, <2>4 DEF LosesSlug
    <3>2. [q EXCEPT !.pc = "loading", !.tries = q.tries + 1]
          = [q EXCEPT !.pc = "loading", !.slug = q.slug, !.tries = q.tries + 1]
      BY <1>1 DEF IsVisit
    <3>3. To(v, [q EXCEPT !.pc = "loading", !.slug = q.slug, !.tries = q.tries + 1])
      BY <3>1, <3>2
    <3>4. q.tries + 1 \in Nat
      BY <1>4
    <3> QED BY <1>3, <1>4, <2>2, <3>3, <3>4, NameGoesOn DEF VisitPcs
  <2> QED BY <2>3, <2>4
<1> QED BY <1>5, <1>6

LEMMA NamesOfCallbacks ==
    ASSUME VisitsRight, VisitsRight', FlowsRight, NamesRight, NEW v \in Visits,
           VerifiesState(v) \/ FindsByGoogleId(v) \/ FindsByEmail(v) \/ LinksAccount(v)
    PROVE  NamesRight'
<1> DEFINE q == visit[v]
<1>1. IsVisit(q) /\ VisitInPhase(q) /\ NameRight(q, OtherTakers(v), taken, account) /\ OtherTakers(v) \in Nat
  BY NamesAre, VisitsAre
<1>2. taken' = taken /\ incidents' = incidents
  BY DEF VerifiesState, FindsByGoogleId, FindsByEmail, LinksAccount, database
<1>3. \A e \in Addresses : account[e].there => account'[e].there
  <2>1. CASE LinksAccount(v)
    BY <2>1, AccountsStay
  <2>2. CASE VerifiesState(v) \/ FindsByGoogleId(v) \/ FindsByEmail(v)
    BY <2>2 DEF VerifiesState, FindsByGoogleId, FindsByEmail, database
  <2> QED BY <2>1, <2>2
<1>4. q.tries \in Nat /\ q.tries <= OtherTakers(v)
  BY <1>1, VisitHas DEF NameRight
<1>5. q.pc \in {"callback", "identity", "by email", "linking"}
  BY DEF VerifiesState, FindsByGoogleId, FindsByEmail, LinksAccount
<1>6. ASSUME NEW result \in {"failed", "suspended", "done"}, Finishes(v, result) PROVE NamesRight'
  BY <1>2, <1>3, <1>5, <1>6, NameEnds
<1>7. ASSUME NEW pc \in {"identity", "by email", "loading", "linking"}, account' = account, To(v, [q EXCEPT !.pc = pc])
      PROVE  NamesRight'
  <2>1. [q EXCEPT !.pc = pc] = [q EXCEPT !.pc = pc, !.slug = q.slug, !.tries = q.tries]
    BY <1>1 DEF IsVisit
  <2>2. To(v, [q EXCEPT !.pc = pc, !.slug = q.slug, !.tries = q.tries])
    BY <1>7, <2>1
  <2>3. pc \in VisitPcs /\ pc \notin {"answering", "ended", "user", "inserting", "committing", "locking"}
    BY DEF VisitPcs
  <2> QED BY <1>2, <1>4, <1>5, <1>7, <2>2, <2>3, NameGoesOn
<1>8. \/ \E result \in {"failed", "suspended", "done"} : Finishes(v, result)
      \/ account' = account /\ \E pc \in {"identity", "by email", "loading", "linking"} : To(v, [q EXCEPT !.pc = pc])
  BY DEF VerifiesState, FindsByGoogleId, FindsByEmail, LinksAccount, database
<1> QED BY <1>6, <1>7, <1>8

LEMMA NamesOfAnswers ==
    ASSUME VisitsRight, VisitsRight', NamesRight, NEW v \in Visits, AnswersCallback(v)
    PROVE  NamesRight'
<1> DEFINE q == visit[v]
           p == [q EXCEPT !.pc = "ended"]
<1>1. IsVisit(q) /\ NameRight(q, OtherTakers(v), taken, account) /\ To(v, p)
  BY NamesAre DEF AnswersCallback
<1>2. taken' = taken /\ incidents' = incidents /\ account' = account
  BY DEF AnswersCallback, database
<1> HIDE DEF q
<1>3. p.pc = "ended" /\ p.op = q.op /\ p.slug = q.slug /\ p.tries = q.tries /\ p.result = q.result /\ p.email = q.email
  BY <1>1 DEF IsVisit
<1>4. NameRight(p, OtherTakers(v), taken, account')
  <2>1. ~IsNamed(p) /\ p.pc \notin {"inserting", "committing"}
    BY <1>3 DEF IsNamed
  <2> QED BY <1>1, <1>2, <1>3, <2>1 DEF NameRight
<1>5. visit[v].result = "done" => p.result = "done"
  BY <1>3 DEF q
<1> HIDE DEF p
<1> QED BY <1>1, <1>2, <1>4, <1>5, NamesMove

\* Whoever moves.
LEMMA NamesStay ==
    ASSUME VisitsRight, VisitsRight', FlowsRight, NamesRight, [SignInNext]_signInVars
    PROVE  NamesRight'
<1>1. CASE \/ \E n \in Nonces : BeginsFlow(n)
           \/ \E e \in Addresses : SuspendsUser(e)
           \/ FlowsExpire \/ UNCHANGED signInVars
  BY <1>1, NamesBesideVisits
<1>2. CASE \/ \E v \in Visits, e \in Addresses : SignsUp(v, e) \/ \E n \in Nonces : ReturnsFromGoogle(v, n, e)
           \/ \E v \in Visits, what \in {"create organization", "create check"} : CreatesByHost(v, what)
  BY <1>2, NamesOfNew
<1>3. CASE \E v \in Visits : LocksAccount(v) \/ LoadsTakenSlugs(v) \/ InsertsUser(v) \/ RollsBack(v)
  BY <1>3, NamesOfSlugs
<1>4. CASE \E v \in Visits : Inserts(v)
  BY <1>4, NamesOfInserts
<1>5. CASE \E v \in Visits : Commits(v)
  BY <1>5, NamesCommit
<1>6. CASE \E v \in Visits : VerifiesState(v) \/ FindsByGoogleId(v) \/ FindsByEmail(v) \/ LinksAccount(v)
  BY <1>6, NamesOfCallbacks
<1>7. CASE \E v \in Visits : AnswersCallback(v)
  BY <1>7, NamesOfAnswers
<1>8. CASE \E space \in DOMAIN taken, s \in 1 .. Cardinality(Visits) + 1 : TakesSlug(space, s)
  BY <1>8, NamesAreTaken
<1> QED BY <1>1, <1>2, <1>3, <1>4, <1>5, <1>6, <1>7, <1>8 DEF SignInNext

\* The cookie is set to a flow that has not begun yet, and cleared.
LEMMA CookieStays ==
    ASSUME FlowsRight, CookieRight, [SignInNext]_signInVars
    PROVE  CookieRight'
<1>1. NoFlow \notin jar.begun /\ jar.begun \subseteq Nonces
  BY SignInAssumption DEF FlowsRight
<1>2. CASE \E n \in Nonces : BeginsFlow(n)
  BY <1>2 DEF BeginsFlow, CookieRight
<1>3. CASE \E v \in Visits : AnswersCallback(v)
  <2>1. jar' = [jar EXCEPT !.cookie = NoFlow, !.overtaken = jar.begun]
    BY <1>3 DEF AnswersCallback, ClearsCookie
  <2>2. jar'.cookie = NoFlow /\ jar'.overtaken = jar.begun /\ jar'.begun = jar.begun
    BY <2>1 DEF FlowsRight
  <2> QED BY <1>1, <2>2 DEF CookieRight
<1>4. CASE FlowsExpire
  <2>1. jar' = [jar EXCEPT !.cookie = NoFlow]
    BY <1>4 DEF FlowsExpire
  <2>2. jar'.cookie = NoFlow /\ jar'.overtaken = jar.overtaken /\ jar'.begun = jar.begun
    BY <2>1 DEF FlowsRight
  <2> QED BY <1>1, <2>2 DEF CookieRight
<1>5. CASE UNCHANGED jar
  BY <1>5 DEF CookieRight
<1>6. CASE \/ \E v \in Visits, e \in Addresses : SignsUp(v, e) \/ \E n \in Nonces : ReturnsFromGoogle(v, n, e)
           \/ \E v \in Visits, what \in {"create organization", "create check"} : CreatesByHost(v, what)
  BY <1>5, <1>6 DEF SignsUp, ReturnsFromGoogle, CreatesByHost, google
<1>7. CASE \E v \in Visits : \/ LocksAccount(v) \/ LoadsTakenSlugs(v) \/ InsertsUser(v) \/ Inserts(v) \/ RollsBack(v)
                             \/ FindsByGoogleId(v) \/ FindsByEmail(v)
  BY <1>5, <1>7 DEF LocksAccount, LoadsTakenSlugs, InsertsUser, Inserts, RollsBack, FindsByGoogleId, FindsByEmail, google
<1>8. CASE \/ \E v \in Visits : VerifiesState(v) \/ LinksAccount(v) \/ Commits(v)
           \/ \E e \in Addresses : SuspendsUser(e)
  BY <1>5, <1>8 DEF VerifiesState, LinksAccount, Commits, SuspendsUser, google
<1>9. CASE \/ \E space \in DOMAIN taken, s \in 1 .. Cardinality(Visits) + 1 : TakesSlug(space, s)
           \/ UNCHANGED signInVars
  BY <1>5, <1>9 DEF TakesSlug, google, signInVars
<1> QED BY <1>2, <1>3, <1>4, <1>6, <1>7, <1>8, <1>9 DEF SignInNext

LEMMA NamesBegin == SignInInit => NamesRight /\ CookieRight
<1> SUFFICES ASSUME SignInInit PROVE NamesRight /\ CookieRight
  OBVIOUS
<1>1. visit = [v \in Visits |-> NoVisit] /\ incidents = 0 /\ taken = [organizations |-> {1}, checks |-> {}]
  BY DEF SignInInit
<1>2. TakenRight
  <2>1. IsFiniteSet({1}) /\ IsFiniteSet({})
    BY FS_EmptySet, FS_Singleton
  <2> QED BY <1>1, <2>1 DEF TakenRight
<1>3. incidents \in 0 .. MaxIncidents
  BY <1>1, SignInAssumption
<1>4. ASSUME NEW v \in Visits PROVE NameRight(visit[v], OtherTakers(v), taken, account)
  <2>1. OtherTakers(v) \in Nat
    BY <1>3, OthersAre
  <2>2. 0 <= OtherTakers(v)
    BY <2>1, NextOfNat
  <2>3. NoVisit.pc = "idle" /\ NoVisit.op = "none" /\ NoVisit.tries = 0 /\ NoVisit.result = "none"
    BY DEF NoVisit
  <2>4. ~IsNamed(NoVisit)
    BY <2>3 DEF IsNamed
  <2>5. NameRight(NoVisit, OtherTakers(v), taken, account)
    BY <2>2, <2>3, <2>4 DEF NameRight
  <2> QED BY <1>1, <2>5
<1>5. CookieRight
  BY SignInAssumption DEF SignInInit, CookieRight
<1> QED BY <1>2, <1>3, <1>4, <1>5 DEF NamesRight

LEMMA NamesShow == NamesRight /\ CookieRight => (AttemptsSuffice => NamesNeverFail) /\ CookieIsOfTheNewest
BY DEF NamesRight, CookieRight, NameRight, NamesNeverFail, CookieIsOfTheNewest

-----------------------------------------------------------------------------
(* AgentTools: the agent, its credential and its world *)

AgentPcs == {"starting", "asking", "ready", "failed"}
Selectors == {"given", "organization", "project"}
CallPcs == {"none", "sent", "admitted", "resolved", "answered"}

AgentRight ==
    /\ credential \in [scopes : {credential.scopes}, bound : Workspaces \cup {Nowhere}, ended : {"no", "revoked", "expired"}]
    /\ world \in [members : SUBSET Workspaces, there : SUBSET Workspaces, place : [Monitors -> Workspaces \cup {Nowhere}],
                  suspended : BOOLEAN]
    /\ world.members \subseteq world.there
    /\ \A m \in Monitors : world.place[m] \in world.there \cup {Nowhere}
    /\ agent \in [pc : AgentPcs, principal : {agent.principal}, tools : SUBSET DOMAIN Operation, selector : Selectors]
    /\ "pc" \in DOMAIN call /\ call.pc \in CallPcs
    /\ turns \in 0 .. MaxTurns

LEMMA ToolsForChecks == READ_TOOLS \cup WRITE_TOOLS \subseteq DOMAIN tools
<1>1. DOMAIN CheckReads \cup DOMAIN CheckCreations \cup DOMAIN CheckUpdates \cup DOMAIN CheckChanges \subseteq DOMAIN tools
  BY DEF tools, ToolGroups
<1>2. {"list_checks", "get_check"} \subseteq DOMAIN CheckReads
  BY DEF CheckReads
<1>3. {"create_heartbeat_check", "create_active_check"} \subseteq DOMAIN CheckCreations
  BY DEF CheckCreations
<1>4. {"update_check"} \subseteq DOMAIN CheckUpdates
  BY DEF CheckUpdates
<1>5. {"pause_check", "resume_check", "set_check_channel_enabled", "delete_check"} \subseteq DOMAIN CheckChanges
  BY DEF CheckChanges
<1> QED BY <1>1, <1>2, <1>3, <1>4, <1>5 DEF READ_TOOLS, WRITE_TOOLS

LEMMA ToolsAreOperations ==
    ASSUME NEW p
    PROVE  toolsForCredential(p) \subseteq DOMAIN Operation
<1>1. DOMAIN Operation = DOMAIN tools \cup DOMAIN accountTools
  BY DEF Operation
<1> QED BY <1>1, ToolsForChecks DEF toolsForCredential

LEMMA AgentTypes == AgentRight => AgentTypeOK
BY DEF AgentRight, AgentTypeOK, AgentPcs, Selectors, CallPcs

LEMMA AgentBegins == AgentInit => AgentRight
<1> SUFFICES ASSUME AgentInit PROVE AgentRight
  OBVIOUS
<1>1. credential \in [scopes : {credential.scopes}, bound : Workspaces \cup {Nowhere}, ended : {"no", "revoked", "expired"}]
  BY AgentAssumption DEF AgentInit, Credentials
<1>2. /\ world \in [members : SUBSET Workspaces, there : SUBSET Workspaces, place : [Monitors -> Workspaces \cup {Nowhere}],
                    suspended : BOOLEAN]
      /\ world.members \subseteq world.there
      /\ \A m \in Monitors : world.place[m] \in world.there \cup {Nowhere}
  BY AgentAssumption DEF AgentInit
<1>3. agent \in [pc : AgentPcs, principal : {agent.principal}, tools : SUBSET DOMAIN Operation, selector : Selectors]
  BY DEF AgentInit, AgentPcs, Selectors
<1>4. "pc" \in DOMAIN call /\ call.pc \in CallPcs
  BY DEF AgentInit, NoCall, CallPcs
<1>5. turns \in 0 .. MaxTurns
  BY AgentAssumption DEF AgentInit
<1> QED BY <1>1, <1>2, <1>3, <1>4, <1>5 DEF AgentRight

LEMMA CallsStay ==
    ASSUME "pc" \in DOMAIN call, call.pc \in CallPcs, [AgentNext]_agentVars
    PROVE  "pc" \in DOMAIN call' /\ call'.pc \in CallPcs
<1>1. ASSUME NEW m, Tells(m) PROVE "pc" \in DOMAIN call' /\ call'.pc \in CallPcs
  <2>1. call' = [NoCall EXCEPT !.pc = "answered", !.told = normalizeGqlError(m)]
    BY <1>1 DEF Tells
  <2> QED BY <2>1 DEF NoCall, CallPcs
<1>2. CASE UNCHANGED call
  BY <1>2
<1>3. CASE Authenticates
  <2>1. CASE \E m : Tells(m)
    BY <2>1, <1>1
  <2>2. CASE call' = [call EXCEPT !.pc = "admitted", !.principal = credential]
    BY <2>2 DEF CallPcs
  <2> QED BY <1>3, <2>1, <2>2 DEF Authenticates
<1>4. CASE Resolves
  <2>1. CASE \E m : Tells(m)
    BY <2>1, <1>1
  <2>2. CASE call' = [call EXCEPT !.pc = "resolved", !.place = WherePlaced]
    BY <2>2 DEF CallPcs
  <2> QED BY <1>4, <2>1, <2>2 DEF Resolves
<1>5. CASE Acts
  <2>1. \E m : Tells(m)
    BY <1>5 DEF Acts
  <2> QED BY <2>1, <1>1
<1>6. CASE \E t \in agent.tools, m \in Monitors \cup {Nowhere}, w \in Workspaces \cup {Nowhere} : Calls(t, m, w)
  <2>1. PICK t \in agent.tools, m \in Monitors \cup {Nowhere}, w \in Workspaces \cup {Nowhere} : Calls(t, m, w)
    BY <1>6
  <2>2. call' = [NoCall EXCEPT !.pc = "sent", !.tool = t, !.monitor = m,
                               !.place = IF t \in TakesWorkspace THEN Selected(w) ELSE Nowhere]
    BY <2>1 DEF Calls
  <2> QED BY <2>2 DEF NoCall, CallPcs
<1>7. CASE AsksForCredential \/ Registers \/ OwnerIsSuspended \/ \E how \in {"revoked", "expired"} : CredentialEnds(how)
  BY <1>2, <1>7 DEF AsksForCredential, Registers, OwnerIsSuspended, CredentialEnds, Turn
<1>8. CASE \/ \E w \in Workspaces : MembershipChanges(w) \/ WorkspaceIsDeleted(w)
           \/ \E m \in Monitors, w \in Workspaces : CheckMoves(m, w)
  BY <1>2, <1>8 DEF MembershipChanges, WorkspaceIsDeleted, CheckMoves, Turn
<1>9. CASE UNCHANGED agentVars
  BY <1>2, <1>9 DEF agentVars
<1> QED BY <1>3, <1>4, <1>5, <1>6, <1>7, <1>8, <1>9 DEF AgentNext

LEMMA AgentStays ==
    ASSUME AgentRight, [AgentNext]_agentVars
    PROVE  agent' \in [pc : AgentPcs, principal : {agent'.principal}, tools : SUBSET DOMAIN Operation, selector : Selectors]
<1>1. CASE UNCHANGED agent
  BY <1>1 DEF AgentRight
<1>2. CASE AsksForCredential
  <2>1. agent \in [pc : AgentPcs, principal : {agent.principal}, tools : SUBSET DOMAIN Operation, selector : Selectors]
    BY DEF AgentRight
  <2>2. CASE agent' = [agent EXCEPT !.pc = "asking", !.principal = credential]
    BY <2>1, <2>2 DEF AgentPcs
  <2>3. CASE agent' = [agent EXCEPT !.pc = "failed"]
    BY <2>1, <2>3 DEF AgentPcs
  <2> QED BY <1>2, <2>2, <2>3 DEF AsksForCredential
<1>3. CASE Registers
  <2>1. agent \in [pc : AgentPcs, principal : {agent.principal}, tools : SUBSET DOMAIN Operation, selector : Selectors]
    BY DEF AgentRight
  <2>2. PICK knows \in BOOLEAN :
          agent' = [agent EXCEPT !.pc = "ready", !.selector = selectorFor(agent.principal, knows),
                                 !.tools = toolsForCredential(agent.principal)]
    BY <1>3 DEF Registers
  <2>3. selectorFor(agent.principal, knows) \in Selectors
    BY DEF selectorFor, Selectors
  <2>4. toolsForCredential(agent.principal) \subseteq DOMAIN Operation
    BY ToolsAreOperations
  <2> QED BY <2>1, <2>2, <2>3, <2>4 DEF AgentPcs
<1>4. CASE \/ \E t \in agent.tools, m \in Monitors \cup {Nowhere}, w \in Workspaces \cup {Nowhere} : Calls(t, m, w)
           \/ Authenticates \/ Resolves \/ Acts
  BY <1>1, <1>4 DEF Calls, Authenticates, Resolves, Acts
<1>5. CASE OwnerIsSuspended \/ \E how \in {"revoked", "expired"} : CredentialEnds(how)
  BY <1>1, <1>5 DEF OwnerIsSuspended, CredentialEnds, Turn
<1>6. CASE \/ \E w \in Workspaces : MembershipChanges(w) \/ WorkspaceIsDeleted(w)
           \/ \E m \in Monitors, w \in Workspaces : CheckMoves(m, w)
  BY <1>1, <1>6 DEF MembershipChanges, WorkspaceIsDeleted, CheckMoves, Turn
<1>7. CASE UNCHANGED agentVars
  BY <1>1, <1>7 DEF agentVars
<1> QED BY <1>2, <1>3, <1>4, <1>5, <1>6, <1>7 DEF AgentNext

LEMMA TurnsAreBounded ==
    ASSUME turns \in 0 .. MaxTurns, [AgentNext]_agentVars
    PROVE  turns' \in 0 .. MaxTurns
<1>1. CASE UNCHANGED turns
  BY <1>1
<1>2. CASE Turn
  BY <1>2, AgentAssumption DEF Turn
<1>3. CASE \/ \E t \in agent.tools, m \in Monitors \cup {Nowhere}, w \in Workspaces \cup {Nowhere} : Calls(t, m, w)
           \/ Authenticates \/ Resolves \/ Acts \/ AsksForCredential \/ Registers
  BY <1>1, <1>3 DEF Calls, Authenticates, Resolves, Acts, AsksForCredential, Registers
<1>4. CASE OwnerIsSuspended \/ \E how \in {"revoked", "expired"} : CredentialEnds(how)
  BY <1>2, <1>4 DEF OwnerIsSuspended, CredentialEnds
<1>5. CASE \/ \E w \in Workspaces : MembershipChanges(w) \/ WorkspaceIsDeleted(w)
           \/ \E m \in Monitors, w \in Workspaces : CheckMoves(m, w)
  BY <1>2, <1>5 DEF MembershipChanges, WorkspaceIsDeleted, CheckMoves
<1>6. CASE UNCHANGED agentVars
  BY <1>1, <1>6 DEF agentVars
<1> QED BY <1>3, <1>4, <1>5, <1>6 DEF AgentNext

LEMMA CredentialStays ==
    ASSUME AgentRight, [AgentNext]_agentVars
    PROVE  credential' \in [scopes : {credential'.scopes}, bound : Workspaces \cup {Nowhere}, ended : {"no", "revoked", "expired"}]
<1>1. CASE UNCHANGED credential
  BY <1>1 DEF AgentRight
<1>2. CASE \E how \in {"revoked", "expired"} : CredentialEnds(how)
  BY <1>2 DEF CredentialEnds, AgentRight
<1>3. CASE \E w \in Workspaces : WorkspaceIsDeleted(w)
  BY <1>3 DEF WorkspaceIsDeleted, AgentRight
<1>4. CASE \/ \E t \in agent.tools, m \in Monitors \cup {Nowhere}, w \in Workspaces \cup {Nowhere} : Calls(t, m, w)
           \/ Authenticates \/ Resolves \/ Acts \/ AsksForCredential \/ Registers
  BY <1>1, <1>4 DEF Calls, Authenticates, Resolves, Acts, AsksForCredential, Registers
<1>5. CASE \/ OwnerIsSuspended \/ \E w \in Workspaces : MembershipChanges(w)
           \/ \E m \in Monitors, w \in Workspaces : CheckMoves(m, w)
  BY <1>1, <1>5 DEF OwnerIsSuspended, MembershipChanges, CheckMoves
<1>6. CASE UNCHANGED agentVars
  BY <1>1, <1>6 DEF agentVars
<1> QED BY <1>2, <1>3, <1>4, <1>5, <1>6 DEF AgentNext

WorldRight(w) ==
    /\ w \in [members : SUBSET Workspaces, there : SUBSET Workspaces, place : [Monitors -> Workspaces \cup {Nowhere}],
              suspended : BOOLEAN]
    /\ w.members \subseteq w.there
    /\ \A m \in Monitors : w.place[m] \in w.there \cup {Nowhere}

LEMMA WorldStays ==
    ASSUME AgentRight, [AgentNext]_agentVars
    PROVE  WorldRight(world')
<1>w. WorldRight(world)
  BY DEF AgentRight, WorldRight
<1>1. CASE UNCHANGED world
  BY <1>1, <1>w DEF WorldRight
<1>2. CASE OwnerIsSuspended
  BY <1>2, <1>w DEF OwnerIsSuspended, WorldRight
<1>3. CASE \E w \in Workspaces : MembershipChanges(w)
  BY <1>3, <1>w DEF MembershipChanges, WorldRight
<1>4. CASE \E w \in Workspaces : WorkspaceIsDeleted(w)
  <2>1. PICK w \in Workspaces :
          world' = [world EXCEPT !.there = @ \ {w}, !.members = @ \ {w},
                                 !.place = [m \in Monitors |-> IF @[m] = w THEN Nowhere ELSE @[m]]]
    BY <1>4 DEF WorkspaceIsDeleted
  <2> DEFINE place == [m \in Monitors |-> IF world.place[m] = w THEN Nowhere ELSE world.place[m]]
  <2>2. /\ place \in [Monitors -> Workspaces \cup {Nowhere}]
        /\ \A m \in Monitors : place[m] \in (world.there \ {w}) \cup {Nowhere}
    BY <1>w DEF WorldRight
  <2>3. world' = [world EXCEPT !.there = world.there \ {w}, !.members = world.members \ {w}, !.place = place]
    BY <2>1
  <2> HIDE DEF place
  <2>4. world' \in [members : {world.members \ {w}}, there : {world.there \ {w}}, place : {place},
                    suspended : {world.suspended}]
    BY <1>w, <2>3 DEF WorldRight
  <2> QED BY <1>w, <2>2, <2>4 DEF WorldRight
<1>5. CASE \E m \in Monitors, w \in Workspaces : CheckMoves(m, w)
  BY <1>5, <1>w DEF CheckMoves, WorldRight
<1>6. CASE Acts
  <2>1. CASE world' = [world EXCEPT !.place[call.monitor] = Nowhere]
    BY <2>1, <1>w DEF WorldRight
  <2> QED BY <1>6, <1>1, <2>1 DEF Acts
<1>7. CASE \/ \E t \in agent.tools, m \in Monitors \cup {Nowhere}, w \in Workspaces \cup {Nowhere} : Calls(t, m, w)
           \/ Authenticates \/ Resolves \/ AsksForCredential \/ Registers
           \/ \E how \in {"revoked", "expired"} : CredentialEnds(how)
  BY <1>1, <1>7 DEF Calls, Authenticates, Resolves, AsksForCredential, Registers, CredentialEnds
<1>8. CASE UNCHANGED agentVars
  BY <1>1, <1>8 DEF agentVars
<1> QED BY <1>2, <1>3, <1>4, <1>5, <1>6, <1>7, <1>8 DEF AgentNext

LEMMA AgentRightStays ==
    ASSUME AgentRight, [AgentNext]_agentVars
    PROVE  AgentRight'
<1>1. "pc" \in DOMAIN call' /\ call'.pc \in CallPcs
  BY CallsStay DEF AgentRight
<1>2. turns' \in 0 .. MaxTurns
  BY TurnsAreBounded DEF AgentRight
<1>3. WorldRight(world')
  BY WorldStays
<1> QED BY <1>1, <1>2, <1>3, CredentialStays, AgentStays DEF AgentRight, WorldRight

\* The operations of a catalog's tools, group by group: a tool is one of those
\* for checks if its operation is one that a workspace's credential may use, and
\* only then; all are an account token's, and none asks for a session.
IsCataloged(g) ==
    \A t \in DOMAIN g :
        /\ t \in READ_TOOLS \cup WRITE_TOOLS <=> g[t] \in SCOPED_TOKEN_OPERATIONS
        /\ g[t] \in ACCOUNT_TOKEN_OPERATIONS
        /\ g[t] \notin SESSION_ONLY_OPERATIONS \cup UNGUARDED

LEMMA CatalogOfLists == IsCataloged(ListTools)
BY DEF IsCataloged, ListTools, READ_TOOLS, WRITE_TOOLS, SCOPED_TOKEN_OPERATIONS, ACCOUNT_TOKEN_OPERATIONS, SESSION_ONLY_OPERATIONS, UNGUARDED
LEMMA CatalogOfReads == IsCataloged(CheckReads)
BY DEF IsCataloged, CheckReads, READ_TOOLS, WRITE_TOOLS, SCOPED_TOKEN_OPERATIONS, ACCOUNT_TOKEN_OPERATIONS, SESSION_ONLY_OPERATIONS, UNGUARDED
LEMMA CatalogOfCreations == IsCataloged(CheckCreations)
BY DEF IsCataloged, CheckCreations, READ_TOOLS, WRITE_TOOLS, SCOPED_TOKEN_OPERATIONS, ACCOUNT_TOKEN_OPERATIONS, SESSION_ONLY_OPERATIONS, UNGUARDED
LEMMA CatalogOfChanges == IsCataloged(CheckChanges)
BY DEF IsCataloged, CheckChanges, READ_TOOLS, WRITE_TOOLS, SCOPED_TOKEN_OPERATIONS, ACCOUNT_TOKEN_OPERATIONS, SESSION_ONLY_OPERATIONS, UNGUARDED
LEMMA CatalogOfUpdates == IsCataloged(CheckUpdates)
BY DEF IsCataloged, CheckUpdates, READ_TOOLS, WRITE_TOOLS, SCOPED_TOKEN_OPERATIONS, ACCOUNT_TOKEN_OPERATIONS, SESSION_ONLY_OPERATIONS, UNGUARDED
LEMMA CatalogOfChannels == IsCataloged(ChannelTools)
BY DEF IsCataloged, ChannelTools, READ_TOOLS, WRITE_TOOLS, SCOPED_TOKEN_OPERATIONS, ACCOUNT_TOKEN_OPERATIONS, SESSION_ONLY_OPERATIONS, UNGUARDED
LEMMA CatalogOfWorkspaces == IsCataloged(WorkspaceTools)
BY DEF IsCataloged, WorkspaceTools, READ_TOOLS, WRITE_TOOLS, SCOPED_TOKEN_OPERATIONS, ACCOUNT_TOKEN_OPERATIONS, SESSION_ONLY_OPERATIONS, UNGUARDED
LEMMA CatalogOfMembers == IsCataloged(MemberTools)
BY DEF IsCataloged, MemberTools, READ_TOOLS, WRITE_TOOLS, SCOPED_TOKEN_OPERATIONS, ACCOUNT_TOKEN_OPERATIONS, SESSION_ONLY_OPERATIONS, UNGUARDED
LEMMA CatalogOfOrganizations == IsCataloged(OrganizationTools)
BY DEF IsCataloged, OrganizationTools, READ_TOOLS, WRITE_TOOLS, SCOPED_TOKEN_OPERATIONS, ACCOUNT_TOKEN_OPERATIONS, SESSION_ONLY_OPERATIONS, UNGUARDED
LEMMA CatalogOfAccounts ==
    \A t \in DOMAIN accountTools : accountTools[t] \in ACCOUNT_TOKEN_OPERATIONS \cup UNGUARDED
BY DEF accountTools, SCOPED_TOKEN_OPERATIONS, ACCOUNT_TOKEN_OPERATIONS, SESSION_ONLY_OPERATIONS, UNGUARDED

LEMMA ToolsAreCataloged == IsCataloged(tools)
<1>1. \A g \in ToolGroups : IsCataloged(g)
  BY CatalogOfLists, CatalogOfReads, CatalogOfCreations, CatalogOfChanges, CatalogOfUpdates, CatalogOfChannels,
     CatalogOfWorkspaces, CatalogOfMembers, CatalogOfOrganizations DEF ToolGroups
<1> SUFFICES ASSUME NEW t \in DOMAIN tools
             PROVE  /\ t \in READ_TOOLS \cup WRITE_TOOLS <=> tools[t] \in SCOPED_TOKEN_OPERATIONS
                    /\ tools[t] \in ACCOUNT_TOKEN_OPERATIONS
                    /\ tools[t] \notin SESSION_ONLY_OPERATIONS \cup UNGUARDED
  BY DEF IsCataloged
<1> DEFINE g == CHOOSE g \in ToolGroups : t \in DOMAIN g
<1>2. t \in UNION {DOMAIN h : h \in ToolGroups} /\ tools[t] = g[t]
  BY DEF tools
<1>3. g \in ToolGroups /\ t \in DOMAIN g
  BY <1>2
<1> HIDE DEF g
<1> QED BY <1>1, <1>2, <1>3 DEF IsCataloged

LEMMA PatternsAreSeven ==
    /\ DOMAIN Patterns = 1 .. 7
    /\ \A j \in DOMAIN Patterns : j = 1 \/ j = 2 \/ j = 3 \/ j = 4 \/ j = 5 \/ j = 6 \/ j = 7
<1>1. DOMAIN Patterns = 1 .. 7
  BY DEF Patterns
<1>2. \A j \in 1 .. 7 : j = 1 \/ j = 2 \/ j = 3 \/ j = 4 \/ j = 5 \/ j = 6 \/ j = 7
  OBVIOUS
<1> QED BY <1>1, <1>2

LEMMA PatternsAre ==
    /\ Patterns[1][1] = "expired" /\ Patterns[1][2] = {"Credential expired"}
    /\ Patterns[2][1] = "revoked" /\ Patterns[2][2] = {"Credential revoked"}
    /\ Patterns[3][1] = "suspended" /\ Patterns[3][2] = {"Credential owner account suspended"}
    /\ Patterns[4][1] = "workspace gone" /\ Patterns[4][2] = {"Credential project no longer exists"}
    /\ Patterns[5][1] = "access removed"
    /\ Patterns[5][2] = {"Credential project is no longer accessible", "Not a member of this organization",
                         "Organization not found", "Project not found"}
    /\ Patterns[6][1] = "capability" /\ Patterns[6][2] = {"Missing capability"}
    /\ Patterns[7][1] = "bound elsewhere" /\ Patterns[7][2] = {"Credential is bound to a different project"}
BY DEF Patterns

\* The one pattern that a message has is what the agent is told.
LEMMA ToldByItsPattern ==
    ASSUME NEW m, NEW k \in 1 .. 7, m \in Patterns[k][2], \A j \in 1 .. 7 : m \in Patterns[j][2] => j = k
    PROVE  normalizeGqlError(m) = Patterns[k][1]
<1> DEFINE has == {i \in DOMAIN Patterns : m \in Patterns[i][2]}
           first == CHOOSE i \in has : \A j \in has : i <= j
<1>1. has = {k}
  BY PatternsAreSeven
<1>3. first = k
  <2>1. k \in has /\ \A j \in has : k <= j
    BY <1>1
  <2>2. first \in has
    BY <2>1
  <2> QED BY <1>1, <2>2
<1>4. normalizeGqlError(m) = IF has = {} THEN m ELSE Patterns[first][1]
  BY DEF normalizeGqlError
<1> HIDE DEF has, first
<1> QED BY <1>1, <1>3, <1>4

LEMMA ToldAsItIs ==
    ASSUME NEW m, \A j \in 1 .. 7 : m \notin Patterns[j][2]
    PROVE  normalizeGqlError(m) = m
BY PatternsAreSeven DEF normalizeGqlError

\* A message is told as another if one of the patterns has it and no other does.
LEMMA TellsIfOne ==
    ASSUME NEW m, NEW k \in 1 .. 7, m \in Patterns[k][2],
           k # 1 => m \notin Patterns[1][2], k # 2 => m \notin Patterns[2][2], k # 3 => m \notin Patterns[3][2],
           k # 4 => m \notin Patterns[4][2], k # 5 => m \notin Patterns[5][2], k # 6 => m \notin Patterns[6][2],
           k # 7 => m \notin Patterns[7][2]
    PROVE  normalizeGqlError(m) = Patterns[k][1]
<1>1. \A j \in 1 .. 7 : j = 1 \/ j = 2 \/ j = 3 \/ j = 4 \/ j = 5 \/ j = 6 \/ j = 7
  OBVIOUS
<1>2. \A j \in 1 .. 7 : m \in Patterns[j][2] => j = k
  BY <1>1
<1> QED BY <1>2, ToldByItsPattern

LEMMA TellsIfNone ==
    ASSUME NEW m, m \notin Patterns[1][2], m \notin Patterns[2][2], m \notin Patterns[3][2], m \notin Patterns[4][2],
           m \notin Patterns[5][2], m \notin Patterns[6][2], m \notin Patterns[7][2]
    PROVE  normalizeGqlError(m) = m
<1>1. \A j \in 1 .. 7 : j = 1 \/ j = 2 \/ j = 3 \/ j = 4 \/ j = 5 \/ j = 6 \/ j = 7
  OBVIOUS
<1>2. \A j \in 1 .. 7 : m \notin Patterns[j][2]
  BY <1>1
<1> QED BY <1>2, ToldAsItIs

LEMMA MessagesAreTold ==
    /\ normalizeGqlError("Credential expired") = "expired"
    /\ normalizeGqlError("Credential revoked") = "revoked"
    /\ normalizeGqlError("Credential owner account suspended") = "suspended"
    /\ normalizeGqlError("Credential project no longer exists") = "workspace gone"
    /\ \A m \in {"Credential project is no longer accessible", "Not a member of this organization", "Project not found"} :
          normalizeGqlError(m) = "access removed"
    /\ normalizeGqlError("Credential is bound to a different project") = "bound elsewhere"
    /\ \A m \in {"Check not found", "Check no longer belongs to the authorized project", "Workspace not found", "done"} :
          normalizeGqlError(m) = m
<1>1. normalizeGqlError("Credential expired") = "expired"
  <2> DEFINE m == "Credential expired"
  <2>1. /\ m \in Patterns[1][2] /\ m \notin Patterns[2][2] /\ m \notin Patterns[3][2] /\ m \notin Patterns[4][2]
        /\ m \notin Patterns[5][2] /\ m \notin Patterns[6][2] /\ m \notin Patterns[7][2]
    BY PatternsAre
  <2>2. 1 \in 1 .. 7
    OBVIOUS
  <2> HIDE DEF m
  <2>3. normalizeGqlError(m) = Patterns[1][1]
    BY <2>1, <2>2, TellsIfOne
  <2>4. Patterns[1][1] = "expired"
    BY PatternsAre
  <2> QED BY <2>3, <2>4 DEF m
<1>2. normalizeGqlError("Credential revoked") = "revoked"
  <2> DEFINE m == "Credential revoked"
  <2>1. /\ m \notin Patterns[1][2] /\ m \in Patterns[2][2] /\ m \notin Patterns[3][2] /\ m \notin Patterns[4][2]
        /\ m \notin Patterns[5][2] /\ m \notin Patterns[6][2] /\ m \notin Patterns[7][2]
    BY PatternsAre
  <2>2. 2 \in 1 .. 7
    OBVIOUS
  <2> HIDE DEF m
  <2>3. normalizeGqlError(m) = Patterns[2][1]
    BY <2>1, <2>2, TellsIfOne
  <2>4. Patterns[2][1] = "revoked"
    BY PatternsAre
  <2> QED BY <2>3, <2>4 DEF m
<1>3. normalizeGqlError("Credential owner account suspended") = "suspended"
  <2> DEFINE m == "Credential owner account suspended"
  <2>1. /\ m \notin Patterns[1][2] /\ m \notin Patterns[2][2] /\ m \in Patterns[3][2] /\ m \notin Patterns[4][2]
        /\ m \notin Patterns[5][2] /\ m \notin Patterns[6][2] /\ m \notin Patterns[7][2]
    BY PatternsAre
  <2>2. 3 \in 1 .. 7
    OBVIOUS
  <2> HIDE DEF m
  <2>3. normalizeGqlError(m) = Patterns[3][1]
    BY <2>1, <2>2, TellsIfOne
  <2>4. Patterns[3][1] = "suspended"
    BY PatternsAre
  <2> QED BY <2>3, <2>4 DEF m
<1>4. normalizeGqlError("Credential project no longer exists") = "workspace gone"
  <2> DEFINE m == "Credential project no longer exists"
  <2>1. /\ m \notin Patterns[1][2] /\ m \notin Patterns[2][2] /\ m \notin Patterns[3][2] /\ m \in Patterns[4][2]
        /\ m \notin Patterns[5][2] /\ m \notin Patterns[6][2] /\ m \notin Patterns[7][2]
    BY PatternsAre
  <2>2. 4 \in 1 .. 7
    OBVIOUS
  <2> HIDE DEF m
  <2>3. normalizeGqlError(m) = Patterns[4][1]
    BY <2>1, <2>2, TellsIfOne
  <2>4. Patterns[4][1] = "workspace gone"
    BY PatternsAre
  <2> QED BY <2>3, <2>4 DEF m
<1>5. normalizeGqlError("Credential is bound to a different project") = "bound elsewhere"
  <2> DEFINE m == "Credential is bound to a different project"
  <2>1. /\ m \notin Patterns[1][2] /\ m \notin Patterns[2][2] /\ m \notin Patterns[3][2] /\ m \notin Patterns[4][2]
        /\ m \notin Patterns[5][2] /\ m \notin Patterns[6][2] /\ m \in Patterns[7][2]
    BY PatternsAre
  <2>2. 7 \in 1 .. 7
    OBVIOUS
  <2> HIDE DEF m
  <2>3. normalizeGqlError(m) = Patterns[7][1]
    BY <2>1, <2>2, TellsIfOne
  <2>4. Patterns[7][1] = "bound elsewhere"
    BY PatternsAre
  <2> QED BY <2>3, <2>4 DEF m
<1>a. 5 \in 1 .. 7
  OBVIOUS
<1>6. ASSUME NEW m \in {"Credential project is no longer accessible", "Not a member of this organization", "Project not found"}
      PROVE  normalizeGqlError(m) = "access removed"
  <2>1. /\ m \notin Patterns[1][2] /\ m \notin Patterns[2][2] /\ m \notin Patterns[3][2] /\ m \notin Patterns[4][2]
        /\ m \in Patterns[5][2] /\ m \notin Patterns[6][2] /\ m \notin Patterns[7][2]
    BY <1>6, PatternsAre
  <2>2. normalizeGqlError(m) = Patterns[5][1]
    BY <1>a, <2>1, TellsIfOne
  <2>3. Patterns[5][1] = "access removed"
    BY PatternsAre
  <2> QED BY <2>2, <2>3
<1>7. ASSUME NEW m \in {"Check not found", "Check no longer belongs to the authorized project", "Workspace not found", "done"}
      PROVE  normalizeGqlError(m) = m
  <2>1. /\ m \notin Patterns[1][2] /\ m \notin Patterns[2][2] /\ m \notin Patterns[3][2] /\ m \notin Patterns[4][2]
        /\ m \notin Patterns[5][2] /\ m \notin Patterns[6][2] /\ m \notin Patterns[7][2]
    BY <1>7, PatternsAre
  <2> QED BY <2>1, TellsIfNone
<1> QED BY <1>1, <1>2, <1>3, <1>4, <1>5, <1>6, <1>7

-----------------------------------------------------------------------------
\* What an agent may do, by its credential.
OfWorkspace == {"checks:read", "checks:write"}

ScopeSets == {{}, {"account:manage"}, {"read"}, {"write"}, {"read", "write"}, OfWorkspace}

\* Only a workspace's credential is bound.
IsPrincipal(p) == p.scopes \in ScopeSets /\ (p.scopes # OfWorkspace => p.bound = Nowhere)

LEMMA KindsOfPrincipals ==
    ASSUME NEW p, IsPrincipal(p)
    PROVE  /\ IsProjectScoped(p) <=> p.scopes = OfWorkspace
           /\ p.scopes = OfWorkspace => ~IsSession(p) /\ ~isAccountToken(p) /\ ~IsLegacyBroad(p)
<1>1. /\ OfWorkspace # {} /\ OfWorkspace # {"account:manage"} /\ ~(OfWorkspace \subseteq {"read", "write"})
  BY DEF OfWorkspace
<1>2. p.scopes = OfWorkspace => ~IsSession(p) /\ ~isAccountToken(p) /\ ~IsLegacyBroad(p)
  BY <1>1 DEF IsSession, isAccountToken, IsLegacyBroad
<1>3. p.scopes # OfWorkspace => IsSession(p) \/ isAccountToken(p) \/ IsLegacyBroad(p)
  BY DEF IsPrincipal, ScopeSets, IsSession, isAccountToken, IsLegacyBroad
<1> QED BY <1>2, <1>3 DEF IsProjectScoped

LEMMA OperationsAre ==
    /\ READ_TOOLS \cup WRITE_TOOLS \subseteq DOMAIN tools
    /\ DOMAIN Operation = DOMAIN tools \cup DOMAIN accountTools
    /\ \A t \in DOMAIN tools : Operation[t] = tools[t]
    /\ \A t \in DOMAIN Operation \ DOMAIN tools : Operation[t] = accountTools[t]
<1>1. READ_TOOLS \cup WRITE_TOOLS \subseteq DOMAIN tools
  BY ToolsForChecks
<1> QED BY <1>1 DEF Operation

LEMMA ScopedIsAdmitted ==
    ASSUME NEW p, p.scopes = OfWorkspace, IsPrincipal(p)
    PROVE  /\ \A t \in READ_TOOLS \cup WRITE_TOOLS : IsAdmitted(p, Operation[t])
           /\ \A t \in DOMAIN tools : IsAdmitted(p, tools[t]) <=> t \in READ_TOOLS \cup WRITE_TOOLS
<1>1. IsProjectScoped(p) /\ ~IsSession(p) /\ ~isAccountToken(p) /\ ~IsLegacyBroad(p)
  BY KindsOfPrincipals
<1>2. \A t \in DOMAIN tools : IsAdmitted(p, tools[t]) <=> t \in READ_TOOLS \cup WRITE_TOOLS
  BY <1>1, ToolsAreCataloged DEF IsCataloged, IsAdmitted
<1> QED BY <1>2, OperationsAre

LEMMA ToolsAdmitted ==
    ASSUME NEW p, IsPrincipal(p)
    PROVE  \A t \in toolsForCredential(p) : IsAdmitted(p, Operation[t])
<1> SUFFICES ASSUME NEW t \in toolsForCredential(p) PROVE IsAdmitted(p, Operation[t])
  OBVIOUS
<1>1. t \in DOMAIN Operation
  BY ToolsAreOperations
<1>2. CASE IsSession(p)
  BY <1>2 DEF IsAdmitted
<1>3. CASE isAccountToken(p)
  <2>1. Operation[t] \in ACCOUNT_TOKEN_OPERATIONS \cup UNGUARDED
    BY <1>1, OperationsAre, ToolsAreCataloged, CatalogOfAccounts DEF IsCataloged
  <2> QED BY <1>3, <2>1 DEF IsAdmitted
<1>4. CASE IsLegacyBroad(p) /\ ~isAccountToken(p)
  <2>1. t \in DOMAIN tools
    BY <1>4 DEF toolsForCredential
  <2>2. Operation[t] \notin SESSION_ONLY_OPERATIONS
    BY <2>1, OperationsAre, ToolsAreCataloged DEF IsCataloged
  <2> QED BY <1>4, <2>2 DEF IsAdmitted
<1>5. CASE IsProjectScoped(p)
  <2>1. p.scopes = OfWorkspace
    BY <1>5, KindsOfPrincipals
  <2>2. t \in READ_TOOLS \cup WRITE_TOOLS
    BY <1>5 DEF IsProjectScoped, toolsForCredential
  <2> QED BY <2>1, <2>2, ScopedIsAdmitted
<1> QED BY <1>2, <1>3, <1>4, <1>5 DEF IsProjectScoped

LEMMA ScopedToolsAre ==
    ASSUME NEW p, IsPrincipal(p), IsProjectScoped(p)
    PROVE  toolsForCredential(p) = {t \in DOMAIN tools : IsAdmitted(p, tools[t])}
<1>1. p.scopes = OfWorkspace
  BY KindsOfPrincipals
<1>2. toolsForCredential(p) = READ_TOOLS \cup WRITE_TOOLS
  BY DEF IsProjectScoped, toolsForCredential
<1> QED BY <1>1, <1>2, ScopedIsAdmitted, OperationsAre

CallIs(c) ==
    c \in [pc : CallPcs, tool : {c.tool}, principal : {c.principal}, monitor : {c.monitor}, place : {c.place},
           told : {c.told}]

\* The call of an agent with a workspace's credential.
ScopedCall(c) ==
    c.pc \in {"sent", "admitted", "resolved"} =>
        /\ c.tool \in READ_TOOLS \cup WRITE_TOOLS
        /\ c.monitor = Nowhere <=> c.tool \notin TakesCheck
        /\ c.tool \in TakesWorkspace \/ c.pc = "resolved" => c.place = Bound
        /\ c.pc # "sent" => c.principal.scopes = OfWorkspace /\ c.principal.bound = Bound

\* The credential an agent has asked about is the one it has; only what it is
\* bound to may be gone since.
ServedRight ==
    /\ AgentRight
    /\ IsPrincipal(credential)
    /\ credential.scopes = OfWorkspace => credential.bound = IF Bound \in world.there THEN Bound ELSE Nowhere
    /\ IsPrincipal(agent.principal) /\ agent.principal.scopes = credential.scopes
    /\ agent.principal.scopes = OfWorkspace => agent.principal.bound = Bound
    /\ agent.pc # "ready" => agent.tools = {}
    /\ agent.pc = "ready" =>
          /\ agent.tools = toolsForCredential(agent.principal)
          /\ IsScopedAgent => agent.selector # "given"
    /\ CallIs(call)
    /\ credential.scopes = OfWorkspace => ScopedCall(call)

LEMMA ServedShows ==
    ASSUME ServedRight
    PROVE  ToolsAreAdmitted
<1>1. IsPrincipal(agent.principal) /\ (agent.pc = "ready" => agent.tools = toolsForCredential(agent.principal))
  BY DEF ServedRight
<1>2. \A t \in toolsForCredential(agent.principal) : IsAdmitted(agent.principal, Operation[t])
  BY <1>1, ToolsAdmitted
<1>3. IsScopedAgent => toolsForCredential(agent.principal) = {t \in DOMAIN tools : IsAdmitted(agent.principal, tools[t])}
  BY <1>1, ScopedToolsAre DEF IsScopedAgent
<1> QED BY <1>1, <1>2, <1>3 DEF ToolsAreAdmitted

LEMMA ServedBegins ==
    ASSUME AgentInit
    PROVE  ServedRight
<1>1. AgentRight
  BY AgentBegins
<1>2. /\ IsPrincipal(credential)
      /\ credential.scopes = OfWorkspace => credential.bound = Bound
  BY DEF AgentInit, Credentials, IsPrincipal, ScopeSets, OfWorkspace
<1>3. agent.principal = credential /\ agent.pc = "starting" /\ agent.tools = {} /\ world.there = Workspaces
  BY DEF AgentInit
<1>4. CallIs(call) /\ call.pc = "none"
  BY DEF AgentInit, NoCall, CallIs, CallPcs
<1>5. Bound \in Workspaces
  BY AgentAssumption
<1> QED BY <1>1, <1>2, <1>3, <1>4, <1>5 DEF ServedRight, ScopedCall

\* The credential and what it is bound to.
LEMMA CredentialStaysServed ==
    ASSUME ServedRight, [AgentNext]_agentVars
    PROVE  /\ IsPrincipal(credential') /\ credential'.scopes = credential.scopes
           /\ credential'.scopes = OfWorkspace => credential'.bound = IF Bound \in world'.there THEN Bound ELSE Nowhere
<1>1. CASE UNCHANGED credential /\ world'.there = world.there
  BY <1>1 DEF ServedRight, IsPrincipal
<1>w. world \in [members : SUBSET Workspaces, there : SUBSET Workspaces, place : [Monitors -> Workspaces \cup {Nowhere}],
                 suspended : BOOLEAN]
  BY DEF ServedRight, AgentRight
<1>c. credential \in [scopes : {credential.scopes}, bound : Workspaces \cup {Nowhere}, ended : {"no", "revoked", "expired"}]
  BY DEF ServedRight, AgentRight
<1>s. /\ IsPrincipal(credential)
      /\ credential.scopes = OfWorkspace => credential.bound = IF Bound \in world.there THEN Bound ELSE Nowhere
  BY DEF ServedRight
<1>2. CASE \E how \in {"revoked", "expired"} : CredentialEnds(how)
  <2>1. credential'.scopes = credential.scopes /\ credential'.bound = credential.bound /\ world' = world
    BY <1>2, <1>c DEF CredentialEnds
  <2> QED BY <1>s, <2>1 DEF IsPrincipal
<1>3. CASE \E w \in Workspaces : WorkspaceIsDeleted(w)
  <2>1. PICK w \in Workspaces : WorkspaceIsDeleted(w)
    BY <1>3
  <2>2. /\ credential'.scopes = credential.scopes
        /\ credential'.bound = IF credential.bound = w THEN Nowhere ELSE credential.bound
    BY <2>1, <1>c DEF WorkspaceIsDeleted
  <2>3. world'.there = world.there \ {w}
    BY <2>1, <1>w DEF WorkspaceIsDeleted
  <2>4. Bound # Nowhere
    BY AgentAssumption
  <2> QED BY <1>s, <2>2, <2>3, <2>4 DEF IsPrincipal
<1>4. CASE \/ \E t \in agent.tools, m \in Monitors \cup {Nowhere}, w \in Workspaces \cup {Nowhere} : Calls(t, m, w)
           \/ Authenticates \/ Resolves \/ AsksForCredential \/ Registers
  BY <1>1, <1>4 DEF Calls, Authenticates, Resolves, AsksForCredential, Registers
<1>5. CASE OwnerIsSuspended
  BY <1>1, <1>5, <1>w DEF OwnerIsSuspended
<1>6. CASE \E w \in Workspaces : MembershipChanges(w)
  BY <1>1, <1>6, <1>w DEF MembershipChanges
<1>7. CASE \E m \in Monitors, w \in Workspaces : CheckMoves(m, w)
  BY <1>1, <1>7, <1>w DEF CheckMoves
<1>8. CASE Acts
  <2>1. CASE world' = [world EXCEPT !.place[call.monitor] = Nowhere]
    BY <1>1, <1>8, <1>w, <2>1 DEF Acts
  <2>2. CASE UNCHANGED world
    BY <1>1, <1>8, <2>2 DEF Acts
  <2> QED BY <1>8, <2>1, <2>2 DEF Acts
<1>9. CASE UNCHANGED agentVars
  BY <1>1, <1>9 DEF agentVars
<1> QED BY <1>2, <1>3, <1>4, <1>5, <1>6, <1>7, <1>8, <1>9 DEF AgentNext

LEMMA AgentStaysServed ==
    ASSUME ServedRight, [AgentNext]_agentVars
    PROVE  /\ IsPrincipal(agent'.principal) /\ agent'.principal.scopes = credential.scopes
           /\ agent'.principal.scopes = OfWorkspace => agent'.principal.bound = Bound
           /\ agent'.pc # "ready" => agent'.tools = {}
           /\ agent'.pc = "ready" =>
                 /\ agent'.tools = toolsForCredential(agent'.principal)
                 /\ IsScopedAgent' => agent'.selector # "given"
<1>a. agent \in [pc : AgentPcs, principal : {agent.principal}, tools : SUBSET DOMAIN Operation, selector : Selectors]
  BY DEF ServedRight, AgentRight
<1>1. CASE UNCHANGED agent
  BY <1>1 DEF ServedRight, IsScopedAgent
<1>2. CASE AsksForCredential
  <2>1. CASE AuthenticationRefusal = "none"
    <3>1. agent' = [agent EXCEPT !.pc = "asking", !.principal = credential] /\ agent.pc = "starting"
      BY <1>2, <2>1 DEF AsksForCredential
    <3>2. agent'.pc = "asking" /\ agent'.principal = credential /\ agent'.tools = agent.tools
      BY <3>1, <1>a
    <3>3. credential.scopes = OfWorkspace => credential.bound = Bound
      <4>1. credential.scopes = OfWorkspace => "checks:read" \in credential.scopes
        BY DEF OfWorkspace
      <4>2. "checks:read" \in credential.scopes => credential.bound # Nowhere
        <5> SUFFICES ASSUME "checks:read" \in credential.scopes, credential.bound = Nowhere PROVE FALSE
          OBVIOUS
        <5>1. credential.ended \in {"no", "revoked", "expired"} /\ world.suspended \in BOOLEAN
          BY DEF ServedRight, AgentRight
        <5> QED BY <2>1, <5>1 DEF AuthenticationRefusal
      <4> QED BY <4>1, <4>2 DEF ServedRight
    <3>4. agent.tools = {}
      BY <3>1 DEF ServedRight
    <3> QED BY <3>2, <3>3, <3>4 DEF ServedRight
  <2>2. CASE AuthenticationRefusal # "none"
    <3>1. agent' = [agent EXCEPT !.pc = "failed"] /\ agent.pc = "starting"
      BY <1>2, <2>2 DEF AsksForCredential
    <3>2. agent'.pc = "failed" /\ agent'.principal = agent.principal /\ agent'.tools = agent.tools
      BY <3>1, <1>a
    <3> QED BY <3>1, <3>2 DEF ServedRight
  <2> QED BY <2>1, <2>2
<1>3. CASE Registers
  <2>1. PICK knows \in BOOLEAN :
          agent' = [agent EXCEPT !.pc = "ready", !.selector = selectorFor(agent.principal, knows),
                                 !.tools = toolsForCredential(agent.principal)]
    BY <1>3 DEF Registers
  <2>2. /\ agent'.pc = "ready" /\ agent'.principal = agent.principal /\ agent'.tools = toolsForCredential(agent.principal)
        /\ agent'.selector = selectorFor(agent.principal, knows)
    BY <2>1, <1>a
  <2>3. IsProjectScoped(agent.principal) => selectorFor(agent.principal, knows) # "given"
    BY DEF selectorFor
  <2>4. IsScopedAgent' => IsProjectScoped(agent.principal)
    BY <2>2 DEF IsScopedAgent, IsProjectScoped, IsSession, isAccountToken, IsLegacyBroad
  <2> QED BY <2>2, <2>3, <2>4 DEF ServedRight
<1>4. CASE \/ \E t \in agent.tools, m \in Monitors \cup {Nowhere}, w \in Workspaces \cup {Nowhere} : Calls(t, m, w)
           \/ Authenticates \/ Resolves \/ Acts
  BY <1>1, <1>4 DEF Calls, Authenticates, Resolves, Acts
<1>5. CASE OwnerIsSuspended \/ \E how \in {"revoked", "expired"} : CredentialEnds(how)
  BY <1>1, <1>5 DEF OwnerIsSuspended, CredentialEnds, Turn
<1>6. CASE \/ \E w \in Workspaces : MembershipChanges(w) \/ WorkspaceIsDeleted(w)
           \/ \E m \in Monitors, w \in Workspaces : CheckMoves(m, w)
  BY <1>1, <1>6 DEF MembershipChanges, WorkspaceIsDeleted, CheckMoves, Turn
<1>7. CASE UNCHANGED agentVars
  BY <1>1, <1>7 DEF agentVars
<1> QED BY <1>2, <1>3, <1>4, <1>5, <1>6, <1>7 DEF AgentNext

LEMMA TellsAnAnswer ==
    ASSUME NEW m, Tells(m)
    PROVE  CallIs(call') /\ call'.pc = "answered" /\ call'.told = normalizeGqlError(m)
BY DEF Tells, NoCall, CallIs, CallPcs

LEMMA CallGoesOn ==
    ASSUME CallIs(call), NEW at \in CallPcs,
           \/ call' = [call EXCEPT !.pc = at, !.principal = credential]
           \/ call' = [call EXCEPT !.pc = at, !.place = WherePlaced]
    PROVE  /\ CallIs(call') /\ call'.pc = at /\ call'.tool = call.tool /\ call'.monitor = call.monitor
           /\ call' = [call EXCEPT !.pc = at, !.principal = credential] =>
                 call'.principal = credential /\ call'.place = call.place
           /\ call' = [call EXCEPT !.pc = at, !.place = WherePlaced] =>
                 call'.principal = call.principal /\ call'.place = WherePlaced
<1>1. CASE call' = [call EXCEPT !.pc = at, !.principal = credential]
  <2>1. call' \in [pc : {at}, tool : {call.tool}, principal : {credential}, monitor : {call.monitor}, place : {call.place},
                   told : {call.told}]
    BY <1>1 DEF CallIs
  <2>2. call' = [call EXCEPT !.pc = at, !.place = WherePlaced] => call'.principal = call.principal /\ call'.place = WherePlaced
    BY DEF CallIs
  <2> QED BY <2>1, <2>2 DEF CallIs
<1>2. CASE call' = [call EXCEPT !.pc = at, !.place = WherePlaced]
  <2>1. call' \in [pc : {at}, tool : {call.tool}, principal : {call.principal}, monitor : {call.monitor},
                   place : {WherePlaced}, told : {call.told}]
    BY <1>2 DEF CallIs
  <2>2. call' = [call EXCEPT !.pc = at, !.principal = credential] => call'.principal = credential /\ call'.place = call.place
    BY DEF CallIs
  <2> QED BY <2>1, <2>2 DEF CallIs
<1> QED BY <1>1, <1>2

LEMMA AuthenticatedIsBound ==
    ASSUME ServedRight, credential.scopes = OfWorkspace, AuthenticationRefusal = "none"
    PROVE  credential.bound = Bound
<1>1. "checks:read" \in credential.scopes
  BY DEF OfWorkspace
<1>2. credential.bound # Nowhere
  <2> SUFFICES ASSUME credential.bound = Nowhere PROVE FALSE
    OBVIOUS
  <2>1. credential.ended \in {"no", "revoked", "expired"} /\ world.suspended \in BOOLEAN
    BY DEF ServedRight, AgentRight
  <2> QED BY <1>1, <2>1 DEF AuthenticationRefusal
<1> QED BY <1>2 DEF ServedRight

LEMMA OperationsAreGuarded ==
    ASSUME NEW t \in READ_TOOLS \cup WRITE_TOOLS
    PROVE  Operation[t] \notin UNGUARDED
BY OperationsAre, ToolsAreCataloged DEF IsCataloged

LEMMA ScopedPlace ==
    ASSUME ScopedCall(call), call.pc \in {"admitted", "resolved"}, call.monitor = Nowhere
    PROVE  WherePlaced = Bound
<1>1. call.tool \in TakesWorkspace
  BY DEF ScopedCall, TakesCheck
<1> QED BY <1>1 DEF ScopedCall, WherePlaced

\* What is objected to is not the place it is bound to.
LEMMA ResolvedIsBound ==
    ASSUME NEW p, p.scopes = OfWorkspace, p.bound = Bound, NEW o, NEW w
    PROVE  /\ CheckRefusal(p, o, w) \in {"none", "Credential is bound to a different project"}
           /\ CheckRefusal(p, o, w) = "none" <=> w = Bound
<1>1. ~IsSession(p) /\ ~isAccountToken(p)
  BY KindsOfPrincipals DEF IsSession, isAccountToken, OfWorkspace
<1>2. Bound # Nowhere
  BY AgentAssumption
<1>3. "checks:read" \in p.scopes /\ "checks:write" \in p.scopes
  BY DEF OfWorkspace
<1> QED BY <1>1, <1>2, <1>3 DEF CheckRefusal

LEMMA CallStaysServed ==
    ASSUME ServedRight, [AgentNext]_agentVars
    PROVE  CallIs(call') /\ (credential.scopes = OfWorkspace => ScopedCall(call'))
<1>c. CallIs(call) /\ (credential.scopes = OfWorkspace => ScopedCall(call))
  BY DEF ServedRight
<1>1. ASSUME NEW m, Tells(m) PROVE CallIs(call') /\ ScopedCall(call')
  BY <1>1, TellsAnAnswer DEF ScopedCall
<1>2. CASE UNCHANGED call
  BY <1>2, <1>c DEF CallIs, ScopedCall
<1>3. CASE Authenticates
  <2>1. CASE \E m : Tells(m)
    BY <2>1, <1>1
  <2>2. CASE call' = [call EXCEPT !.pc = "admitted", !.principal = credential] /\ ~(\E m : Tells(m))
    <3>1. "admitted" \in CallPcs
      BY DEF CallPcs
    <3>2. /\ CallIs(call') /\ call'.pc = "admitted" /\ call'.tool = call.tool /\ call'.monitor = call.monitor
          /\ call'.principal = credential /\ call'.place = call.place
      BY <1>c, <2>2, <3>1, CallGoesOn
    <3>3. ASSUME credential.scopes = OfWorkspace PROVE ScopedCall(call')
      <4>1. call.pc = "sent" /\ ScopedCall(call)
        BY <1>3, <1>c, <3>3 DEF Authenticates
      <4>2. op \notin UNGUARDED
        BY <4>1, OperationsAreGuarded DEF ScopedCall, op
      <4>3. AuthenticationRefusal = "none"
        BY <1>3, <2>2, <4>2 DEF Authenticates
      <4>4. credential.bound = Bound
        BY <3>3, <4>3, AuthenticatedIsBound
      <4> QED BY <3>2, <3>3, <4>1, <4>4 DEF ScopedCall
    <3> QED BY <3>2, <3>3
  <2> QED BY <1>3, <2>1, <2>2 DEF Authenticates
<1>4. CASE Resolves
  <2>1. CASE \E m : Tells(m)
    BY <2>1, <1>1
  <2>2. CASE call' = [call EXCEPT !.pc = "resolved", !.place = WherePlaced] /\ ~(\E m : Tells(m))
    <3>1. "resolved" \in CallPcs
      BY DEF CallPcs
    <3>2. /\ CallIs(call') /\ call'.pc = "resolved" /\ call'.tool = call.tool /\ call'.monitor = call.monitor
          /\ call'.principal = call.principal /\ call'.place = WherePlaced
      BY <1>c, <2>2, <3>1, CallGoesOn
    <3>3. ASSUME credential.scopes = OfWorkspace PROVE ScopedCall(call')
      <4>1. call.pc = "admitted" /\ ScopedCall(call)
        BY <1>4, <1>c, <3>3 DEF Resolves
      <4>2. call.principal.scopes = OfWorkspace /\ call.principal.bound = Bound /\ call.tool \in READ_TOOLS \cup WRITE_TOOLS
        BY <4>1 DEF ScopedCall
      <4>3. CheckRefusal(call.principal, op, WherePlaced) = "none"
        BY <1>4, <2>2 DEF Resolves
      <4>4. WherePlaced = Bound
        BY <4>2, <4>3, ResolvedIsBound
      <4> QED BY <3>2, <4>1, <4>2, <4>4 DEF ScopedCall
    <3> QED BY <3>2, <3>3
  <2> QED BY <1>4, <2>1, <2>2 DEF Resolves
<1>5. CASE Acts
  <2>1. \E m : Tells(m)
    BY <1>5 DEF Acts
  <2> QED BY <2>1, <1>1
<1>6. CASE \E t \in agent.tools, m \in Monitors \cup {Nowhere}, w \in Workspaces \cup {Nowhere} : Calls(t, m, w)
  <2>1. PICK t \in agent.tools, m \in Monitors \cup {Nowhere}, w \in Workspaces \cup {Nowhere} : Calls(t, m, w)
    BY <1>6
  <2> DEFINE place == IF t \in TakesWorkspace THEN Selected(w) ELSE Nowhere
  <2>2. /\ call' \in [pc : {"sent"}, tool : {t}, principal : {agent.principal}, monitor : {m}, place : {place}, told : {"none"}]
        /\ agent.pc = "ready" /\ (m = Nowhere <=> t \notin TakesCheck)
    <3>1. call' = [NoCall EXCEPT !.pc = "sent", !.tool = t, !.monitor = m, !.place = place] /\ agent.pc = "ready"
          /\ (m = Nowhere <=> t \notin TakesCheck)
      BY <2>1 DEF Calls
    <3> HIDE DEF place
    <3> QED BY <3>1 DEF NoCall
  <2>3. ASSUME credential.scopes = OfWorkspace PROVE t \in READ_TOOLS \cup WRITE_TOOLS /\ (t \in TakesWorkspace => place = Bound)
    <3>1. /\ IsPrincipal(agent.principal) /\ agent.principal.scopes = OfWorkspace /\ agent.principal.bound = Bound
          /\ agent.tools = toolsForCredential(agent.principal) /\ (IsScopedAgent => agent.selector # "given")
      BY <2>2, <2>3 DEF ServedRight
    <3>2. IsProjectScoped(agent.principal)
      BY <3>1, KindsOfPrincipals
    <3> QED BY <3>1, <3>2 DEF toolsForCredential, IsProjectScoped, IsScopedAgent, Selected
  <2> HIDE DEF place
  <2>4. /\ CallIs(call') /\ call'.pc = "sent" /\ call'.tool = t /\ call'.monitor = m /\ call'.place = place
    BY <2>2 DEF CallIs, CallPcs
  <2> QED BY <2>2, <2>3, <2>4 DEF ScopedCall
<1>7. CASE AsksForCredential \/ Registers \/ OwnerIsSuspended \/ \E how \in {"revoked", "expired"} : CredentialEnds(how)
  BY <1>2, <1>7 DEF AsksForCredential, Registers, OwnerIsSuspended, CredentialEnds, Turn
<1>8. CASE \/ \E w \in Workspaces : MembershipChanges(w) \/ WorkspaceIsDeleted(w)
           \/ \E m \in Monitors, w \in Workspaces : CheckMoves(m, w)
  BY <1>2, <1>8 DEF MembershipChanges, WorkspaceIsDeleted, CheckMoves, Turn
<1>9. CASE UNCHANGED agentVars
  BY <1>2, <1>9 DEF agentVars
<1> QED BY <1>3, <1>4, <1>5, <1>6, <1>7, <1>8, <1>9 DEF AgentNext

LEMMA ServedStays ==
    ASSUME ServedRight, [AgentNext]_agentVars
    PROVE  ServedRight'
<1>1. AgentRight'
  BY AgentRightStays DEF ServedRight
<1> QED BY <1>1, CredentialStaysServed, AgentStaysServed, CallStaysServed DEF ServedRight

LEMMA RefusedAsIs ==
    ASSUME ServedRight, credential.scopes = OfWorkspace, AuthenticationRefusal # "none"
    PROVE  IsSo(normalizeGqlError(AuthenticationRefusal))
<1>1. /\ credential.ended \in {"no", "revoked", "expired"} /\ world.suspended \in BOOLEAN
      /\ credential.bound = IF Bound \in world.there THEN Bound ELSE Nowhere
      /\ world.members \subseteq world.there
  BY DEF ServedRight, AgentRight
<1>2. "checks:read" \in credential.scopes /\ ~IsSession(credential)
  BY DEF OfWorkspace, IsSession
<1>3. CASE credential.ended = "revoked"
  <2>1. AuthenticationRefusal = "Credential revoked"
    BY <1>3 DEF AuthenticationRefusal
  <2> QED BY <1>3, <2>1, MessagesAreTold DEF IsSo
<1>4. CASE credential.ended = "expired"
  <2>1. AuthenticationRefusal = "Credential expired"
    BY <1>4 DEF AuthenticationRefusal
  <2> QED BY <1>4, <2>1, MessagesAreTold DEF IsSo
<1>5. CASE credential.ended = "no" /\ world.suspended
  <2>1. AuthenticationRefusal = "Credential owner account suspended"
    BY <1>2, <1>5 DEF AuthenticationRefusal
  <2> QED BY <1>5, <2>1, MessagesAreTold DEF IsSo
<1>6. CASE credential.ended = "no" /\ ~world.suspended /\ credential.bound = Nowhere
  <2>1. AuthenticationRefusal = "Credential project no longer exists"
    BY <1>2, <1>6 DEF AuthenticationRefusal
  <2>2. Bound \notin world.there
    BY <1>1, <1>6, AgentAssumption
  <2> QED BY <2>1, <2>2, MessagesAreTold DEF IsSo
<1>7. CASE credential.ended = "no" /\ ~world.suspended /\ credential.bound # Nowhere
  <2>1. credential.bound = Bound
    BY <1>1, <1>7
  <2>2. AuthenticationRefusal \in {"none", "Credential project is no longer accessible"}
        /\ (AuthenticationRefusal # "none" => ~IsMine(credential.bound))
    BY <1>7 DEF AuthenticationRefusal
  <2>3. normalizeGqlError(AuthenticationRefusal) = "access removed" /\ ~IsMine(Bound)
    BY <2>1, <2>2, MessagesAreTold
  <2> QED BY <2>3 DEF IsSo
<1> QED BY <1>1, <1>3, <1>4, <1>5, <1>6, <1>7

LEMMA ScopedCredentials ==
    ASSUME ServedRight, IsScopedAgent
    PROVE  credential.scopes = OfWorkspace /\ ScopedCall(call) /\ CallIs(call)
BY KindsOfPrincipals DEF ServedRight, IsScopedAgent

LEMMA AuthenticationServes ==
    ASSUME ServedRight, IsScopedAgent, Authenticates, call'.pc = "answered"
    PROVE  IsSo(call'.told) /\ call'.told # "done"
<1>1. credential.scopes = OfWorkspace /\ ScopedCall(call) /\ CallIs(call) /\ call.pc = "sent"
  BY ScopedCredentials DEF Authenticates
<1>2. op \notin UNGUARDED
  BY <1>1, OperationsAreGuarded DEF ScopedCall, op
<1>3. IsAdmitted(credential, op)
  BY <1>1, ScopedIsAdmitted DEF ScopedCall, op, ServedRight
<1>4. AuthenticationRefusal # "none"
  <2> SUFFICES ASSUME AuthenticationRefusal = "none" PROVE FALSE
    OBVIOUS
  <2>1. call' = [call EXCEPT !.pc = "admitted", !.principal = credential]
    BY <1>3 DEF Authenticates
  <2>2. call'.pc = "admitted"
    BY <1>1, <2>1 DEF CallIs
  <2> QED BY <2>2
<1>5. Tells(AuthenticationRefusal)
  BY <1>2, <1>4 DEF Authenticates
<1>6. call'.told = normalizeGqlError(AuthenticationRefusal)
  BY <1>5, TellsAnAnswer
<1>7. IsSo(normalizeGqlError(AuthenticationRefusal))
  BY <1>1, <1>4, RefusedAsIs
<1>8. normalizeGqlError(AuthenticationRefusal) # "done"
  <2>1. credential.ended \in {"no", "revoked", "expired"} /\ ~IsSession(credential)
    BY <1>1 DEF ServedRight, AgentRight, OfWorkspace, IsSession
  <2>2. AuthenticationRefusal \in {"Credential revoked", "Credential expired", "Credential owner account suspended",
                                   "Credential project no longer exists", "Credential project is no longer accessible"}
    BY <1>4, <2>1 DEF AuthenticationRefusal
  <2> QED BY <2>2, MessagesAreTold
<1> QED BY <1>6, <1>7, <1>8

LEMMA ResolutionServes ==
    ASSUME ServedRight, IsScopedAgent, Resolves, call'.pc = "answered"
    PROVE  IsSo(call'.told) /\ call'.told # "done"
<1>1. credential.scopes = OfWorkspace /\ ScopedCall(call) /\ CallIs(call) /\ call.pc = "admitted"
  BY ScopedCredentials DEF Resolves
<1>2. /\ call.tool \in READ_TOOLS \cup WRITE_TOOLS /\ call.principal.scopes = OfWorkspace /\ call.principal.bound = Bound
      /\ call.monitor = Nowhere <=> call.tool \notin TakesCheck
  BY <1>1 DEF ScopedCall
<1>3. call.monitor = Nowhere => WherePlaced = Bound
  BY <1>1, ScopedPlace
<1>4. CASE WherePlaced = Nowhere
  <2>1. Tells("Check not found")
    BY <1>2, <1>4 DEF Resolves
  <2>2. call'.told = "Check not found"
    BY <2>1, TellsAnAnswer, MessagesAreTold
  <2> QED BY <2>2 DEF IsSo
<1>5. CASE WherePlaced # Nowhere /\ ~IsMine(WherePlaced) /\ call.tool \in TakesCheck
  <2>1. Tells("Not a member of this organization")
    BY <1>2, <1>5 DEF Resolves
  <2>2. call'.told = "access removed"
    BY <2>1, TellsAnAnswer, MessagesAreTold
  <2> QED BY <1>2, <1>5, <2>2 DEF IsSo
<1>6. CASE WherePlaced # Nowhere /\ ~IsMine(WherePlaced) /\ call.tool \notin TakesCheck
  <2>1. Tells("Workspace not found")
    BY <1>2, <1>6 DEF Resolves
  <2>2. call'.told = "Workspace not found"
    BY <2>1, TellsAnAnswer, MessagesAreTold
  <2>3. ~IsMine(Bound)
    BY <1>2, <1>3, <1>6
  <2> QED BY <2>2, <2>3 DEF IsSo
<1>7. CASE WherePlaced # Nowhere /\ IsMine(WherePlaced) /\ WherePlaced # Bound
  <2>1. CheckRefusal(call.principal, op, WherePlaced) = "Credential is bound to a different project"
    BY <1>2, <1>7, ResolvedIsBound
  <2>2. Tells("Credential is bound to a different project")
    BY <1>2, <1>7, <2>1 DEF Resolves
  <2>3. call'.told = "bound elsewhere"
    BY <2>2, TellsAnAnswer, MessagesAreTold
  <2> QED BY <1>3, <1>7, <2>3 DEF IsSo
<1>8. CASE WherePlaced # Nowhere /\ IsMine(WherePlaced) /\ WherePlaced = Bound
  <2>1. CheckRefusal(call.principal, op, WherePlaced) = "none"
    BY <1>2, <1>8, ResolvedIsBound
  <2>2. call' = [call EXCEPT !.pc = "resolved", !.place = WherePlaced]
    BY <1>2, <1>8, <2>1 DEF Resolves
  <2>3. call'.pc = "resolved"
    BY <1>1, <2>2 DEF CallIs
  <2> QED BY <2>3
<1> QED BY <1>4, <1>5, <1>6, <1>7, <1>8

LEMMA ActionServes ==
    ASSUME ServedRight, IsScopedAgent, Acts
    PROVE  IsSo(call'.told) /\ call.place = Bound
<1>1. ScopedCall(call) /\ call.pc = "resolved" /\ call.place = Bound /\ world.members \subseteq world.there
  BY ScopedCredentials DEF Acts, ScopedCall, ServedRight, AgentRight
<1>2. CASE Tells("done")
  <2>1. call'.told = "done"
    BY <1>2, TellsAnAnswer, MessagesAreTold
  <2> QED BY <1>1, <2>1 DEF IsSo
<1>3. CASE Tells(ActRefusal) /\ ActRefusal # "none"
  <2>1. CASE ActRefusal \in {"Check not found", "Check no longer belongs to the authorized project"}
    <3>1. call'.told \in {"Check not found", "Check no longer belongs to the authorized project"}
      BY <1>3, <2>1, TellsAnAnswer, MessagesAreTold
    <3> QED BY <1>1, <3>1 DEF IsSo
  <2>2. CASE ActRefusal \in {"Project not found", "Not a member of this organization"}
    <3>1. ~IsMine(Bound)
      BY <1>1, <2>2 DEF ActRefusal, IsMine
    <3>2. call'.told = "access removed"
      BY <1>3, <2>2, TellsAnAnswer, MessagesAreTold
    <3> QED BY <1>1, <3>1, <3>2 DEF IsSo
  <2> QED BY <1>3, <2>1, <2>2 DEF ActRefusal
<1> QED BY <1>2, <1>3 DEF Acts

LEMMA ServedStep ==
    ASSUME ServedRight, [AgentNext]_agentVars
    PROVE  IsServedRight
<1> SUFFICES ASSUME call.pc # "answered", call'.pc = "answered", IsScopedAgent
             PROVE  IsSo(call'.told) /\ (call'.told = "done" => call.place = Bound)
  BY DEF IsServedRight
<1>1. CASE Authenticates
  BY <1>1, AuthenticationServes
<1>2. CASE Resolves
  BY <1>2, ResolutionServes
<1>3. CASE Acts
  BY <1>3, ActionServes
<1>4. CASE UNCHANGED call
  BY <1>4
<1>5. CASE \E t \in agent.tools, m \in Monitors \cup {Nowhere}, w \in Workspaces \cup {Nowhere} : Calls(t, m, w)
  <2>1. PICK t \in agent.tools, m \in Monitors \cup {Nowhere}, w \in Workspaces \cup {Nowhere} : Calls(t, m, w)
    BY <1>5
  <2>2. call' = [NoCall EXCEPT !.pc = "sent", !.tool = t, !.monitor = m,
                               !.place = IF t \in TakesWorkspace THEN Selected(w) ELSE Nowhere]
    BY <2>1 DEF Calls
  <2>3. call'.pc = "sent"
    BY <2>2 DEF NoCall
  <2> QED BY <2>3
<1>6. CASE AsksForCredential \/ Registers \/ OwnerIsSuspended \/ \E how \in {"revoked", "expired"} : CredentialEnds(how)
  BY <1>4, <1>6 DEF AsksForCredential, Registers, OwnerIsSuspended, CredentialEnds, Turn
<1>7. CASE \/ \E w \in Workspaces : MembershipChanges(w) \/ WorkspaceIsDeleted(w)
           \/ \E m \in Monitors, w \in Workspaces : CheckMoves(m, w)
  BY <1>4, <1>7 DEF MembershipChanges, WorkspaceIsDeleted, CheckMoves, Turn
<1>8. CASE UNCHANGED agentVars
  BY <1>4, <1>8 DEF agentVars
<1> QED BY <1>1, <1>2, <1>3, <1>5, <1>6, <1>7, <1>8 DEF AgentNext

=============================================================================
