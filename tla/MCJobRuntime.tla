---------------------------- MODULE MCJobRuntime ----------------------------
(* Two runs, two claimers, two attempts and one administrator retry: a run  *)
(* can be retried, dead-lettered and retried again while another is claimed *)
EXTENDS JobRuntime, TLC

Symmetry == Permutations(Runs) \cup Permutations(Workers)
=============================================================================
