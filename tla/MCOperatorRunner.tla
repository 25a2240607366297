-------------------------- MODULE MCOperatorRunner --------------------------
(* Instances of OperatorRunner, and with it of AdoptionExecutor, for TLC. *)
EXTENDS OperatorRunner, TLC

Symmetry == Permutations(Workers) \cup Permutations(JobIds)

=============================================================================
