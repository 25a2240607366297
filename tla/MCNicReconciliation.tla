------------------------ MODULE MCNicReconciliation ------------------------
(* Instances of NicReconciliation for TLC. *)
EXTENDS NicReconciliation, TLC

Symmetry == Permutations(Macs) \cup Permutations(Nets) \cup
            Permutations(Routes)

=============================================================================
