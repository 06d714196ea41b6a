---------------------------- MODULE MCInProcess ----------------------------
(* Instances of InProcess for TLC: the bounds are in the configurations. *)
EXTENDS InProcess
=============================================================================
