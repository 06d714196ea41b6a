-------------------------- MODULE MCEpisodicMemory --------------------------
(* Two tenants whose tasks are closed by two or three writers. *)
EXTENDS EpisodicMemory, TLC

CONSTANTS w1, w2, t1, t2

TwoWriters == {w1, w2}
TwoTenants == {t1, t2}
Symmetry == Permutations(TwoWriters) \union Permutations(TwoTenants)
=============================================================================
