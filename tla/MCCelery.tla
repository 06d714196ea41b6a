------------------------------ MODULE MCCelery ------------------------------
(* Instances of Celery for TLC: two API replicas and two worker processes. *)
EXTENDS Celery, TLC

CONSTANTS a1, a2, w1, w2

TwoReplicas == {a1, a2}
TwoWorkers == {w1, w2}
Symmetry == Permutations(TwoWorkers)
OtherReplica == {a2}
=============================================================================
