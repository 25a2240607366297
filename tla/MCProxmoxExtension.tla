------------------------ MODULE MCProxmoxExtension ------------------------
(* Small instances of ProxmoxExtension for TLC.                            *)
EXTENDS ProxmoxExtension, TLC

Symmetry == Permutations(Procs) \cup Permutations(Leases) \cup Permutations(Refs)

============================================================================
