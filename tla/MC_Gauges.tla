----------------------------- MODULE MC_Gauges -----------------------------
(* One gauge and one worker for TLC.                                        *)
EXTENDS Aggregator

Gauges == [s \in Series |-> "gauge"]
OneHash == [s \in Series |-> 0]
NoHeaders == [s \in Series |-> ""]
TwoValues == {[series |-> s, value |-> v, weight |-> 1] : s \in Series, v \in {2, 4}}
NeverExpire == [t \in Types |-> 0]
=============================================================================
