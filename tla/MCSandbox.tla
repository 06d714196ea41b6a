------------------------------ MODULE MCSandbox ------------------------------
(* Two calls of run_python, as two tasks or two workers make them. *)
EXTENDS Sandbox

CONSTANTS c1, c2

TwoCalls == {c1, c2}
=============================================================================
