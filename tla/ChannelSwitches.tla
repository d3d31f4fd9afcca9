-------------------------- MODULE ChannelSwitches --------------------------
(* The switches of a check's channels on a page: one browser's                *)
(* check-notification-channels.tsx over setCheckChannelEnabled, with the      *)
(* polls of the check and what other members choose.                          *)
(*                                                                            *)
(* The cache of @apollo/client and what a page renders of it change in one    *)
(* step (from outside): in Answered it makes no difference whether the page   *)
(* is rendered before or after the switch is free again.                      *)
EXTENDS Naturals

CONSTANTS
    Switches,      \* the active channels of the check's workspace
    MaxChoices     \* bound on what other members choose

ASSUME SwitchesAssumption == MaxChoices \in Nat

VARIABLES
    chosen,        \* channels the check alerts, in the database
    cached,        \* notificationChannelIds in the browser's cache
    selected,      \* selectedIds
    saving,        \* pendingChannelIds, and the call that each is about
    poll,
    visible,       \* the page is in the foreground
    choices,       \* of other members so far
    missed         \* [page, poll, call]: the channels that were chosen or not since
                   \* the page heard of them, since the poll on its way has read them,
                   \* and since their calls saved them (no code knows)

switchVars == <<chosen, cached, selected, saving, poll, visible, choices, missed>>

NotSaving == [pc |-> "no"]
Savings == [pc : {"sent", "saved", "failed"}, enabled : BOOLEAN]

NoPoll == [pc |-> "no"]
Polls == [pc : {"asked"}] \cup [pc : {"read"}, ids : SUBSET Switches]

-----------------------------------------------------------------------------
IsSaving(c) == saving[c].pc # "no"

Put(S, c, enabled) == IF enabled THEN S \cup {c} ELSE S \ {c}

\* Faulty: the page forgets what its user has just chosen.
FollowsCache(ids, busy) == ids

\* The effect on notificationChannelIds, with the switches that are being saved.
Reconciled(ids, busy) == (ids \ busy) \cup (selected \cap busy)

Busy == {c \in Switches : IsSaving(c)}

\* What a poll on its way has not read, with c as well.
Overtaken(c) == IF poll.pc = "read" THEN missed.poll \cup {c} ELSE {}

-----------------------------------------------------------------------------
(* saveChannel *)

Toggles(c) ==
    /\ ~IsSaving(c)
    /\ LET enabled == c \notin selected IN
       /\ selected' = Put(selected, c, enabled)
       /\ saving' = [saving EXCEPT ![c] = [pc |-> "sent", enabled |-> enabled]]
    /\ UNCHANGED <<chosen, cached, poll, visible, choices, missed>>

\* setCheckChannelEnabled, under the lock of the check.
ServerSaves(c) ==
    /\ saving[c].pc = "sent"
    /\ chosen' = Put(chosen, c, saving[c].enabled)
    /\ saving' = [saving EXCEPT ![c].pc = "saved"]
    /\ missed' = [missed EXCEPT !.page = @ \cup {c}, !.poll = Overtaken(c)]
    /\ UNCHANGED <<cached, selected, poll, visible, choices>>

\* Refused, or out of reach; or saved, and the answer lost.
SaveGoesWrong(c) ==
    /\ saving[c].pc \in {"sent", "saved"}
    /\ saving' = [saving EXCEPT ![c].pc = "failed"]
    /\ missed' = [missed EXCEPT !.call = @ \ {c}]
    /\ UNCHANGED <<chosen, cached, selected, poll, visible, choices>>

Answered(c) ==
    /\ saving[c].pc = "saved"
    /\ cached' = Put(cached, c, saving[c].enabled)
    /\ selected' = Reconciled(cached', Busy \ {c})
    /\ saving' = [saving EXCEPT ![c] = NotSaving]
    /\ missed' = [missed EXCEPT !.page = (@ \ {c}) \cup (missed.call \cap {c}), !.call = @ \ {c}]
    /\ UNCHANGED <<chosen, poll, visible, choices>>

\* Faulty: nothing is put back.
KeepsChoice(c) ==
    /\ saving[c].pc = "failed"
    /\ saving' = [saving EXCEPT ![c] = NotSaving]
    /\ UNCHANGED <<chosen, cached, selected, poll, visible, choices, missed>>

\* As the cache has it now, not as it was when the user chose.
RollsBack(c) ==
    /\ saving[c].pc = "failed"
    /\ selected' = Put(selected, c, c \in cached)
    /\ saving' = [saving EXCEPT ![c] = NotSaving]
    /\ UNCHANGED <<chosen, cached, poll, visible, choices, missed>>

-----------------------------------------------------------------------------
(* usePollWhenVisible: one poll at a time, and none is begun in the            *)
(* background.  What it reads may have changed when its answer arrives.        *)

Asks ==
    /\ visible /\ poll = NoPoll
    /\ poll' = [pc |-> "asked"]
    /\ UNCHANGED <<chosen, cached, selected, saving, visible, choices, missed>>

PollReads ==
    /\ poll.pc = "asked"
    /\ poll' = [pc |-> "read", ids |-> chosen]
    /\ UNCHANGED <<chosen, cached, selected, saving, visible, choices, missed>>

PollLands ==
    /\ poll.pc = "read"
    /\ cached' = poll.ids
    /\ selected' = Reconciled(poll.ids, Busy)
    /\ poll' = NoPoll
    /\ missed' = [missed EXCEPT !.page = missed.poll, !.poll = {}]
    /\ UNCHANGED <<chosen, saving, visible, choices>>

PollFails ==
    /\ poll # NoPoll
    /\ poll' = NoPoll
    /\ missed' = [missed EXCEPT !.poll = {}]
    /\ UNCHANGED <<chosen, cached, selected, saving, visible, choices>>

Hides ==
    /\ visible' = ~visible
    /\ UNCHANGED <<chosen, cached, selected, saving, poll, choices, missed>>

OthersChoose(c) ==
    /\ choices < MaxChoices
    /\ choices' = choices + 1
    /\ chosen' = Put(chosen, c, c \notin chosen)
    /\ missed' = [page |-> missed.page \cup {c}, poll |-> Overtaken(c),
                  call |-> IF saving[c].pc = "saved" THEN missed.call \cup {c} ELSE missed.call]
    /\ UNCHANGED <<cached, selected, saving, poll, visible>>

-----------------------------------------------------------------------------
SwitchesInit ==
    /\ chosen = Switches
    /\ cached = Switches
    /\ selected = Switches
    /\ saving = [c \in Switches |-> NotSaving]
    /\ poll = NoPoll
    /\ visible = TRUE
    /\ choices = 0
    /\ missed = [page |-> {}, poll |-> {}, call |-> {}]

SwitchesNext ==
    \/ \E c \in Switches :
          \/ Toggles(c) \/ ServerSaves(c) \/ SaveGoesWrong(c) \/ Answered(c) \/ RollsBack(c)
          \/ OthersChoose(c)
    \/ Asks \/ PollReads \/ PollLands \/ PollFails \/ Hides

-----------------------------------------------------------------------------
\* The type invariant.
SwitchesTypeOK ==
    /\ chosen \subseteq Switches /\ cached \subseteq Switches /\ selected \subseteq Switches
    /\ saving \in [Switches -> Savings \cup {NotSaving}]
    /\ poll \in Polls \cup {NoPoll}
    /\ visible \in BOOLEAN
    /\ choices \in 0 .. MaxChoices
    /\ missed \in [page : SUBSET Switches, poll : SUBSET Switches, call : SUBSET Switches]

\* A switch that is being saved shows what its user chose, whatever polls and
\* other switches bring meanwhile.  Any other one shows what the browser last
\* heard, also after a call that failed: and that is what the check has, unless
\* the channel was chosen or not after the server read what was heard: by another
\* member, by a call whose answer was lost, or by one that a poll has overtaken.
SwitchesTellTheTruth ==
    \A c \in Switches :
       /\ (c \in selected) = IF IsSaving(c) THEN saving[c].enabled ELSE c \in cached
       /\ ~IsSaving(c) /\ c \notin missed.page => (c \in selected) = (c \in chosen)
=============================================================================
