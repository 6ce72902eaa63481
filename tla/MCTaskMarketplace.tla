------------------------- MODULE MCTaskMarketplace --------------------------
(* Small instances of TaskMarketplace; creators, and requests, are alike.   *)
EXTENDS TaskMarketplace, TLC

Symmetry == Permutations(Creators) \cup Permutations(Requests) \cup Permutations(Admins)
=============================================================================
