----------------------------- MODULE MCFrontDoor -----------------------------
(* Two replicas and a handful of requests of one identity. *)
EXTENDS FrontDoor, TLC

CONSTANTS p1, p2, r1, r2, r3

TwoReplicas == {p1, p2}
ThreeRequests == {r1, r2, r3}
Symmetry == Permutations(TwoReplicas) \union Permutations(ThreeRequests)
=============================================================================
