------------------------- MODULE MCAdoptionExecutor -------------------------
(* Instances of AdoptionExecutor for TLC. *)
EXTENDS AdoptionExecutor, TLC

Symmetry == Permutations(Workers) \cup Permutations(JobIds)

=============================================================================
