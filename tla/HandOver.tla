------------------------------ MODULE HandOver ------------------------------
(***************************************************************************)
(* What an outbox promises about the messages it hands to a service that   *)
(* cannot take them back: a message is offered again only when the service *)
(* certainly refused it, the service takes it at most once, and a verdict  *)
(* is final and true.  A transaction may move several messages, each of    *)
(* them in its own way.                                                    *)
(***************************************************************************)
EXTENDS Naturals

CONSTANT Messages

VARIABLES
    phase,  \* of each message, as its owner sees it
    taken   \* how often the service accepted it

Phase == {"none", "open", "dropped", "handed", "delivered", "bounced", "lost"}

Init ==
    /\ phase = [m \in Messages |-> "none"]
    /\ taken = [m \in Messages |-> 0]

Move(m, from, to) == phase[m] = from /\ phase'[m] = to /\ taken'[m] = taken[m]

Enqueue(m) == Move(m, "none", "open")
Drop(m) == Move(m, "open", "dropped")
Hand(m) == Move(m, "open", "handed")
Take(m) == /\ phase[m] = "handed" /\ phase'[m] = "handed"
           /\ taken[m] = 0 /\ taken'[m] = 1
\* Only a message the service did not take is offered again or given up.
Refused(m) == taken[m] = 0 /\ (Move(m, "handed", "open") \/ Move(m, "handed", "dropped"))
Settle(m) == taken[m] = 1 /\ \E v \in {"delivered", "bounced", "lost"} : Move(m, "handed", v)
Rest(m) == phase'[m] = phase[m] /\ taken'[m] = taken[m]

Step(m) == \/ Rest(m) \/ Enqueue(m) \/ Drop(m) \/ Hand(m) \/ Take(m)
           \/ Refused(m) \/ Settle(m)

Next ==
    /\ phase' \in [Messages -> Phase] /\ taken' \in [Messages -> Nat]
    /\ \A m \in Messages : Step(m)

Spec == Init /\ [][Next]_<<phase, taken>>
=============================================================================
