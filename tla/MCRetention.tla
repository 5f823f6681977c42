---------------------------- MODULE MCRetention ----------------------------
(***************************************************************************)
(* Instances of Retention for TLC: one event with a prompt copy and a turn *)
(* copy.  Every property is about one event at a time and the workers      *)
(* share nothing but its row and its objects, so one event is enough.      *)
(***************************************************************************)
EXTENDS Retention

CONSTANTS a, w1, w2

MCIds == {a}
TwoWorkers == {w1, w2}
OneWorker == {w1}

Prompt == [id |-> a, answer |-> FALSE, fate |-> "fits"]
Turn   == [id |-> a, answer |-> TRUE, fate |-> "fits"]

Copies == {Prompt, Turn}
=============================================================================
