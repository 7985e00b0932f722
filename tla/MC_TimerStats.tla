--------------------------- MODULE MC_TimerStats ---------------------------
(* A small instance of TimerStats with a negative percentile. *)
EXTENDS TimerStats

TwoValues == {1, 2}
Negative == {-90}
NoTags == {}
=============================================================================
