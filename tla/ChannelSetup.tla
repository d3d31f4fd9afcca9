---------------------------- MODULE ChannelSetup ----------------------------
(* Setting up a channel of either type that has to be confirmed, by e-mail   *)
(* or in Telegram, and choosing channels for a check.  The three share no    *)
(* state here, so a behaviour is one of them.                                *)
EXTENDS EmailVerification, TelegramChallenges, ChannelSwitches

VARIABLE step      \* what the behaviour is about

vars == <<step, emailVars, telegramVars, switchVars>>

Steps == {"EMAIL", "TELEGRAM", "CHOICE"}

ByEmail(A) == step = "EMAIL" /\ A /\ UNCHANGED <<step, telegramVars, switchVars>>
ByTelegram(A) == step = "TELEGRAM" /\ A /\ UNCHANGED <<step, emailVars, switchVars>>
BySwitches(A) == step = "CHOICE" /\ A /\ UNCHANGED <<step, emailVars, telegramVars>>

Init == step \in Steps /\ EmailInit /\ TelegramInit /\ SwitchesInit

Next == ByEmail(EmailNext) \/ ByTelegram(TelegramNext) \/ BySwitches(SwitchesNext)

Spec == Init /\ [][Next]_vars

\* The API's processes answer what they take up, and are up again after a
\* failure; Telegram delivers again what was not answered; time passes.
Fairness ==
    /\ \A d \in Deliveries : WF_vars(ByTelegram(Handles(d)))
    /\ WF_vars(ByTelegram(\E d \in Deliveries, u \in Updates : Delivers(d, u)))
    /\ WF_vars(ByTelegram(\E u \in Updates : Older(u)))

FairSpec == Spec /\ Fairness

-----------------------------------------------------------------------------
\* The type invariant of all three.
TypeOK == step \in Steps /\ EmailTypeOK /\ TelegramTypeOK /\ SwitchesTypeOK

\* Every /start is answered in the end, once failures have stopped.
EveryStartAnswered ==
    \A u \in Updates : (step = "TELEGRAM" /\ u \in unanswered) ~> u \notin unanswered

\* What pages show is true: of a verification under way, of a link that was
\* opened, and of a check's switches.
PagesAreTrue == DeliveryStatusIsTrue /\ LinkPageIsRight /\ SwitchesTellTheTruth

\* Who confirms a channel has got its newest token, who connects one is a
\* member.
OnlyTheEntitledConfirm == [][NewestConfirms /\ MemberConnects]_vars

\* A /start that was answered has its link, and the link makes one channel.
LinksAreSound == TypeOK /\ AnsweredHasALink /\ OneChannelPerLink
=============================================================================
