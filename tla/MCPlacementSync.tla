-------------------------- MODULE MCPlacementSync --------------------------
(* Small instances of PlacementSync for TLC: two clusters whose guests share *)
(* a VMID and a name, the first with two nodes.                              *)
EXTENDS PlacementSync, TLC

CONSTANTS a1, a2, b1, ha1, ha2, hb1, ga, gb, ca, cb, A, B

MCClusterOf == (a1 :> A) @@ (a2 :> A) @@ (b1 :> B) @@ (ga :> A) @@ (gb :> B)
MCVmidOf == [x \in {ga, gb, ca, cb} |-> 100]
MCNamed == {ga, gb} \X {ca, cb}
MCHostAt == (a1 :> ha1) @@ (a2 :> ha2) @@ (b1 :> hb1)
\* The nodes of the first cluster differ only where there is a wrong row.
MCStarts ==
    LET Put(p) == (ga :> p) @@ (gb :> b1)
        wrong == {[place |-> a2, host |-> hb1]}
    IN {[node |-> Put(a1), rows |-> {}], [node |-> Put(a1), rows |-> wrong],
        [node |-> Put(a2), rows |-> wrong]}
MCHome == (ca :> ga) @@ (cb :> gb)
============================================================================
