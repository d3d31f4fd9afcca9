----------------------------- MODULE CheckEditor -----------------------------
(* Editing a check: the dialog of edit-check-dialog.tsx on the page of        *)
(* check-detail.tsx, and resolveCheckUpdate of check-update.ts behind it,     *)
(* which every other client of updateCheck calls with some of the fields.     *)
(*                                                                            *)
(* A column has a value or none.  interval stands for timeoutMs as well, text *)
(* for the description and the instructions, schedule for the time zone;      *)
(* name, slug, method and expected status are left out, as are the checks of  *)
(* a format that the columns' values cannot fail here.                        *)
(* A poll of the page reads and is shown in one step, and what is typed while *)
(* a save is under way is left out.                                           *)
EXTENDS Naturals

CONSTANTS
    MaxSaves,      \* bound on the saves of the dialog
    MaxUpdates     \* bound on the updates of other clients

ASSUME EditorAssumption == MaxSaves \in Nat /\ MaxUpdates \in Nat

VARIABLES
    row,           \* the check, in the database
    shown,         \* the check, on the page
    form,          \* the fields of the dialog
    save,          \* its call of updateCheck
    idle,          \* neither the user nor a poll has changed anything since
                   \* the form was filled (no code knows)
    saves,
    updates

editorVars == <<row, shown, form, save, idle, saves, updates>>

CheckTypes == {"HEARTBEAT", "HTTP", "TCP"}
Off == "off"           \* NULL
Same == "same"         \* a field that an input leaves out

CheckRows == [type : CheckTypes, text : {"t1", "t2"}, period : {Off, "p1"}, schedule : {Off, "s1"}, grace : {Off, "g1"},
              target : {Off, "url", "host"}, interval : {Off, "i1"}]

\* target is Off while the field is blank.
Forms == [type : CheckTypes, text : {"t1", "t2"}, mode : {"simple", "cron"},
          target : {Off, "url", "host"}]

NoForm == [type |-> "closed"]
IsFilled(f) == f # NoForm

NoSave == [pc |-> "none"]

IsOfItsType(r) ==
    CASE r.type = "HEARTBEAT" -> /\ (r.period = Off) # (r.schedule = Off)
                                 /\ r.grace # Off
                                 /\ r.target = Off /\ r.interval = Off
      [] r.type = "HTTP" -> /\ r.target = "url" /\ r.interval # Off
                            /\ r.period = Off /\ r.schedule = Off /\ r.grace = Off
      [] r.type = "TCP" -> /\ r.target = "host" /\ r.interval # Off
                           /\ r.period = Off /\ r.schedule = Off /\ r.grace = Off

\* As create and createActiveCheck make it, which take any target with a colon
\* for a host and a port.
CreatedRows ==
    {r \in CheckRows : \/ IsOfItsType(r)
                      \/ /\ r.type = "TCP" /\ r.target = "url"
                         /\ IsOfItsType([r EXCEPT !.target = "host"])}

-----------------------------------------------------------------------------
(* resolveCheckUpdate *)

Given(v) == v # Same

\* A conversion inherits nothing.
PickField(given, stored, conversion) ==
    IF Given(given) THEN given ELSE IF conversion THEN Off ELSE stored

\* Faulty: the columns of the mode that is left stay.
Kept(stored) == stored

\* They do not survive, conversion or not.
Cleared(stored) == Off

Refusal == [type |-> "refused"]

IsResolved(r) == r.type # "refused"

\* Of period and schedule one that is given takes the place of both.
CadenceOf(given, other, stored, conversion) ==
    IF Given(given) THEN given ELSE IF Given(other) THEN Off ELSE PickField(given, stored, conversion)

ResolveHeartbeat(current, input, text, conversion) ==
    LET period == CadenceOf(input.period, input.schedule, current.period, conversion)
        schedule == CadenceOf(input.schedule, input.period, current.schedule, conversion)
        grace == PickField(input.grace, current.grace, conversion)
    IN  IF /\ ~(Given(input.period) /\ Given(input.schedule))
           /\ (period = Off) # (schedule = Off)
           /\ grace # Off
        THEN [type |-> "HEARTBEAT", text |-> text, period |-> period, schedule |-> schedule, grace |-> grace,
              target |-> Cleared(current.target), interval |-> Cleared(current.interval)]
        ELSE Refusal

ResolveActive(current, input, type, text, conversion) ==
    LET target == PickField(input.target, current.target, conversion)
        interval == PickField(input.interval, current.interval, conversion)
    IN  IF target = (IF type = "HTTP" THEN "url" ELSE "host") /\ interval # Off
        THEN [type |-> type, text |-> text, target |-> target, interval |-> interval,
              period |-> Cleared(current.period), schedule |-> Cleared(current.schedule),
              grace |-> Cleared(current.grace)]
        ELSE Refusal

Resolve(current, input) ==
    LET type == IF Given(input.type) THEN input.type ELSE current.type
        text == IF Given(input.text) THEN input.text ELSE current.text
        conversion == type # current.type
    IN  IF type = "HEARTBEAT" THEN ResolveHeartbeat(current, input, text, conversion)
        ELSE ResolveActive(current, input, type, text, conversion)

\* A client that is not this project's may send null, too.
Inputs == [type : CheckTypes \cup {Same}, text : {"t1", "t2", Same}, period : {"p1", Off, Same},
           schedule : {"s1", Off, Same}, grace : {"g1", Off, Same}, target : {"url", "host", Off, Same},
           interval : {"i1", Off, Same}]

\* What any client can make of a check.
Outcomes ==
    {change \in {<<r, Resolve(r, input)>> : r \in CreatedRows, input \in Inputs} :
        IsResolved(change[2])}

-----------------------------------------------------------------------------
(* The dialog *)

\* Faulty: the dialog opens on a simple period.
FormOfSimple(check) ==
    [type |-> check.type, text |-> check.text, mode |-> "simple", target |-> check.target]

\* What opening fills the form with, whatever it held.
FormOf(check) ==
    [type |-> check.type, text |-> check.text,
     mode |-> IF check.schedule # Off THEN "cron" ELSE "simple", target |-> check.target]

\* buildInput: against the check as the page has it now.
BuildInput(f, check) ==
    [type |-> IF f.type # check.type THEN f.type ELSE Same,
     text |-> IF f.text # check.text THEN f.text ELSE Same,
     period |-> IF f.type = "HEARTBEAT" /\ f.mode = "simple" THEN "p1" ELSE Same,
     schedule |-> IF f.type = "HEARTBEAT" /\ f.mode = "cron" THEN "s1" ELSE Same,
     grace |-> IF f.type = "HEARTBEAT" THEN "g1" ELSE Same,
     target |-> IF f.type # "HEARTBEAT" THEN f.target ELSE Same,
     interval |-> IF f.type # "HEARTBEAT" THEN "i1" ELSE Same]

OpensEditor ==
    /\ ~IsFilled(form)
    /\ form' = FormOf(shown)
    /\ idle' = TRUE
    /\ UNCHANGED <<row, shown, save, saves, updates>>

\* HTTP and TCP do not share a target.
Crosses(from, to) == {from, to} = {"HTTP", "TCP"}

Edits ==
    /\ IsFilled(form) /\ save = NoSave
    /\ \/ \E t \in CheckTypes : form' = [form EXCEPT !.type = t, !.target = IF Crosses(form.type, t) THEN Off ELSE @]
       \/ form.type = "HEARTBEAT" /\ \E m \in {"simple", "cron"} : form' = [form EXCEPT !.mode = m]
       \/ form.type # "HEARTBEAT" /\ \E t \in {"url", "host"} : form' = [form EXCEPT !.target = t]
       \/ form' = [form EXCEPT !.text = "t2"]
    /\ idle' = FALSE
    /\ UNCHANGED <<row, shown, save, saves, updates>>

Submits ==
    /\ IsFilled(form) /\ save = NoSave
    /\ form.type # "HEARTBEAT" => form.target # Off
    /\ saves < MaxSaves /\ saves' = saves + 1
    /\ save' = [pc |-> "sent", form |-> form, shown |-> shown, idle |-> idle]
    /\ UNCHANGED <<row, shown, form, idle, updates>>

\* update, under the locks of the check and of its workspace's creator.
Updates ==
    /\ save.pc = "sent"
    /\ LET new == Resolve(row, BuildInput(save.form, save.shown)) IN
       /\ IsResolved(new)
       /\ row' = new
       /\ save' = [pc |-> "saved", check |-> new]
    /\ UNCHANGED <<shown, form, idle, saves, updates>>

\* onCompleted: the dialog closes, also when it was opened again meanwhile.
Saved ==
    /\ save.pc = "saved"
    /\ shown' = save.check
    /\ form' = NoForm
    /\ save' = NoSave
    /\ UNCHANGED <<row, idle, saves, updates>>

\* Refused or lost on the way, the answer if not the call: the form stays.
SaveFails ==
    /\ save # NoSave
    /\ save' = NoSave
    /\ UNCHANGED <<row, shown, form, idle, saves, updates>>

Cancels ==
    /\ IsFilled(form)
    /\ form' = NoForm
    /\ UNCHANGED <<row, shown, save, idle, saves, updates>>

\* A poll of the page, or the refetch after a save.
Refreshes ==
    /\ shown' = row
    /\ idle' = (idle /\ shown = row)
    /\ UNCHANGED <<row, form, save, saves, updates>>

\* Any other client.
OthersUpdate ==
    /\ updates < MaxUpdates /\ updates' = updates + 1
    /\ \E change \in Outcomes : change[1] = row /\ row' = change[2]
    /\ UNCHANGED <<shown, form, save, idle, saves>>

-----------------------------------------------------------------------------
\* What a save makes of a column: what the form has when it differs from the
\* page, and otherwise what the check has by then.
Merged(mine, page, now) == IF mine # page THEN mine ELSE now

IsPassive(type) == type = "HEARTBEAT"

\* What the fields of the form mean for a check that is of the same kind by now,
\* and nothing for one that has been converted since.
Means(f, old, new) ==
    IF IsPassive(f.type) # IsPassive(new.type) THEN new = [old EXCEPT !.text = new.text]
    ELSE IF IsPassive(f.type) THEN (new.schedule # Off) = (f.mode = "cron")
    ELSE new.target = f.target

-----------------------------------------------------------------------------
EditorInit ==
    /\ row \in {r \in CreatedRows : r.text = "t1"}
    /\ shown = row
    /\ form = NoForm
    /\ save = NoSave
    /\ idle = FALSE
    /\ saves = 0
    /\ updates = 0

EditorNext ==
    \/ OpensEditor \/ Edits \/ Submits \/ Updates \/ Saved \/ SaveFails \/ Cancels
    \/ Refreshes \/ OthersUpdate

-----------------------------------------------------------------------------
\* The type invariant.
EditorTypeOK ==
    /\ row \in CheckRows /\ shown \in CheckRows
    /\ form \in Forms \cup {NoForm}
    /\ save.pc \in {"none", "sent", "saved"}
    /\ idle \in BOOLEAN
    /\ saves \in 0 .. MaxSaves /\ updates \in 0 .. MaxUpdates

\* Three moments: the form was filled, the page was as the save took it, and the
\* check is what others have made of it by then.  Whatever they have, its type
\* and its text are the form's or theirs, one that they have converted is left
\* as it is.  When neither the user nor a poll has changed anything since the
\* form was filled it keeps both, and the whole check if that is as on the page.
SaveIsMeant ==
    save.pc = "sent" /\ save'.pc = "saved" =>
       /\ row'.type = Merged(save.form.type, save.shown.type, row.type)
       /\ row'.text = Merged(save.form.text, save.shown.text, row.text)
       /\ Means(save.form, row, row')
       /\ save.idle => row'.type = row.type /\ row'.text = row.text
       /\ save.idle /\ row = save.shown => row' = row

\* Whatever fields of whatever type a client sends, and in whatever order, an
\* update leaves a check with the columns of its type and no others, however
\* it was created; and the dialog saves what its user means, also when it is
\* opened again, when it saves twice, and when others save the check meanwhile.
EditsAreMeant == [][(row' # row => IsOfItsType(row')) /\ SaveIsMeant]_editorVars
=============================================================================
