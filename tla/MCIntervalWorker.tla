--------------------------- MODULE MCIntervalWorker --------------------------
(* Two workers and three runs: a lease can run out under one worker, be     *)
(* taken by the other and be taken again while both are still at work       *)
EXTENDS IntervalWorker, TLC

Symmetry == Permutations(Runs) \cup Permutations(Workers)
=============================================================================
