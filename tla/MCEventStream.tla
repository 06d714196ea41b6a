--------------------------- MODULE MCEventStream ---------------------------
(***************************************************************************)
(* Instances of EventStream for TLC: an emitter in the serving process and *)
(* one elsewhere.                                                          *)
(***************************************************************************)
EXTENDS EventStream

CONSTANTS here, elsewhere

Both == {here, elsewhere}
Here == {here}
Elsewhere == {elsewhere}
Nobody == {}
=============================================================================
