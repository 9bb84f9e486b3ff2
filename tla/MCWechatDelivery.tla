-------------------------- MODULE MCWechatDelivery --------------------------
(* Instances of WechatDelivery for TLC.                                     *)
EXTENDS WechatDelivery

CONSTANTS v1, g1, l1, l2, w1, w2, q1, q2, q3

\* One alert with one line, one alert with two lines, two alerts of a group.
OneRow == {<<v1, g1, {l1}>>}
PairRow == {<<v1, g1, {l1, l2}>>}
TwoRows == {<<v1, g1, {l1}>>, <<v1, g1, {l2}>>}

Late == [l \in Lines |-> MaxTime + 1]
OneProgram == [v \in Venues |-> "program"]
=============================================================================
