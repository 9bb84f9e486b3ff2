-------------------------- MODULE MCEmailDelivery --------------------------
(* Instances of EmailDelivery for TLC.                                      *)
EXTENDS EmailDelivery

CONSTANTS s1, s2, e1, e2, w1, w2, c1, c2, c3, c4

\* One user with one subscription and one slot, or two slots of one date.
OneRow == {<<s1, e1>>}
TwoRows == {<<s1, e1>>, <<s1, e2>>}

SameOwner == [s \in Subs |-> "ann"]
OneDate == [e \in Events |-> "sat"]
LongTerm == [s \in Subs |-> MaxTime + 2]
Late == [e \in Events |-> MaxTime + 2]
LimitOne == [t \in {"priority", "standard"} |-> 1]
LimitThree == [t \in {"priority", "standard"} |-> 3]
=============================================================================
