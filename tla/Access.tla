------------------------------- MODULE Access -------------------------------
(* Who gets in and may do what: the API's requests under their locks, an      *)
(* agent with a credential, the dialog that hands one out, the page that      *)
(* lists and revokes them, sign-up and sign-in, and the dialog that edits a   *)
(* check.  They share no state here, so a behaviour is one of them; what they  *)
(* have in common, a credential or the check it changes, each of the models   *)
(* has for itself.                                                            *)
EXTENDS CheckAccess, AgentTools, SecretGuard, SignIn, CheckEditor, TokenHistory

VARIABLE kind      \* what the behaviour is about

vars == <<kind, accessVars, agentVars, guardVars, signInVars, editorVars, historyVars>>

ByRequests(A) == kind = "requests" /\ A /\ UNCHANGED <<kind, agentVars, guardVars, signInVars, editorVars, historyVars>>
ByAgent(A) == kind = "agent" /\ A /\ UNCHANGED <<kind, accessVars, guardVars, signInVars, editorVars, historyVars>>
ByDialog(A) == kind = "dialog" /\ A /\ UNCHANGED <<kind, accessVars, agentVars, signInVars, editorVars, historyVars>>
ByVisits(A) == kind = "visits" /\ A /\ UNCHANGED <<kind, accessVars, agentVars, guardVars, editorVars, historyVars>>
ByEditor(A) == kind = "editor" /\ A /\ UNCHANGED <<kind, accessVars, agentVars, guardVars, signInVars, historyVars>>
ByHistory(A) == kind = "history" /\ A /\ UNCHANGED <<kind, accessVars, agentVars, guardVars, signInVars, editorVars>>

Init ==
    /\ AccessInit /\ AgentInit /\ GuardInit /\ SignInInit /\ EditorInit /\ HistoryInit
    /\ kind \in {"requests", "agent", "dialog", "visits", "editor", "history"}
    /\ kind # "agent" => IsSession(credential)
    /\ kind # "editor" => row.type = "HTTP"

Next ==
    \/ ByRequests(AccessNext) \/ ByAgent(AgentNext) \/ ByDialog(GuardNext) \/ ByVisits(SignInNext)
    \/ ByEditor(EditorNext) \/ ByHistory(HistoryNext)

Spec == Init /\ [][Next]_vars

-----------------------------------------------------------------------------
\* The type invariant of all six.
TypeOK ==
    /\ kind \in {"requests", "agent", "dialog", "visits", "editor", "history"}
    /\ AccessTypeOK /\ AgentTypeOK /\ GuardTypeOK /\ SignInTypeOK /\ EditorTypeOK /\ HistoryTypeOK

\* Every row is locked by one request, who waits for whom is known, and a
\* status page lists checks of its own project.
RequestsAreSound == TypeOK /\ CirclesAreOfDeletions /\ PagesListTheirOwn

\* The history of a user's tokens crosses out what is dead, in time, and closes
\* the question whether to revoke when it is answered.
HistoryIsTrue == OnlyTheDeadAreCrossedOut /\ ExpiriesAreShown /\ ClosesWhenRevoked

\* Nobody is turned away for a name, and a sign-in through Google is the one
\* the browser began last.
SignInsAreSound == NamesNeverFail /\ CookieIsOfTheNewest
=============================================================================
