---------------------------- MODULE AlertContract ----------------------------
(* What the producers of alerts promise, whatever they are made of.          *)
(* docs/ARCHITECTURE.md, "Notification routing": an actual transition to     *)
(* DOWN, or from DOWN to UP, calls for one alert; an ordinary event calls    *)
(* for none.  After the commit a producer tries to queue the alert, once;    *)
(* when that fails the alert is lost.  Nothing is queued twice.              *)
(*                                                                           *)
(* Monitoring implements this module: see Monitoring!Contract.               *)
EXTENDS Naturals, Sequences

CONSTANT Checks

VARIABLES state,      \* what the alerts are about: "up", "down" or "other"
          announced,  \* per check, the transitions committed so far
          due,        \* alerts committed and not yet handed to the queue
          queued,     \* alerts the queue has accepted
          lost        \* alerts no queue will ever see

vars == <<state, announced, due, queued, lost>>

States == {"up", "down", "other"}

\* The n-th transition of check c, as an alert.
AlertFor(c, n, kind) == [check |-> c, n |-> n, kind |-> kind]

Init ==
    /\ state = [c \in Checks |-> "other"]
    /\ announced = [c \in Checks |-> <<>>]
    /\ due = {}
    /\ queued = {}
    /\ lost = {}

Announce(c, kind) ==
    /\ announced' = [announced EXCEPT ![c] = Append(@, kind)]
    /\ due' = due \cup {AlertFor(c, Len(announced[c]) + 1, kind)}
    /\ UNCHANGED <<queued, lost>>

Falls(c) ==
    /\ state[c] # "down"
    /\ state' = [state EXCEPT ![c] = "down"]
    /\ Announce(c, "down")

Recovers(c) ==
    /\ state[c] = "down"
    /\ state' = [state EXCEPT ![c] = "up"]
    /\ Announce(c, "recovery")

\* A first success, a pause, a resume, a conversion or a deletion: silent.
Settles(c, s) ==
    /\ s = "up" => state[c] # "down"
    /\ state' = [state EXCEPT ![c] = s]
    /\ UNCHANGED <<announced, due, queued, lost>>

Queues(a) ==
    /\ a \in due
    /\ due' = due \ {a}
    /\ queued' = queued \cup {a}
    /\ UNCHANGED <<state, announced, lost>>

Loses(a) ==
    /\ a \in due
    /\ due' = due \ {a}
    /\ lost' = lost \cup {a}
    /\ UNCHANGED <<state, announced, queued>>

Next ==
    \/ \E c \in Checks : Falls(c) \/ Recovers(c) \/ Settles(c, "up") \/ Settles(c, "other")
    \/ \E a \in due : Queues(a) \/ Loses(a)

Spec == Init /\ [][Next]_vars

=============================================================================
