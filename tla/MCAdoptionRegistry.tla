------------------------ MODULE MCAdoptionRegistry ------------------------
(* Small instances of AdoptionRegistry for TLC.                            *)
EXTENDS AdoptionRegistry, FiniteSets, TLC

Symmetry == Permutations(Refs) \cup Permutations(Manifests)
            \cup Permutations(Leases) \cup Permutations(Workers)
            \cup Permutations(Procs)

\* Two manifests race each other while the clock stands still (refreshes and
\* re-reservations); leases and worker leases run out under one manifest.
ManifestsInUse ==
    ({claim[v].manifest : v \in Vmids} \cup {exec[r].manifest : r \in Refs}
     \cup {vm[r].manifest : r \in Refs} \cup {req[p].manifest : p \in Procs})
    \ {None}
OneManifestOrNoTick == now = 0 \/ Cardinality(ManifestsInUse) <= 1
===========================================================================
