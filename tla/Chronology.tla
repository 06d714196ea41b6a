----------------------------- MODULE Chronology -----------------------------
(***************************************************************************)
(* Rows in the order of their times: what a query with ORDER BY ts returns *)
(* and what its LIMIT cuts.  No two rows of a table the project orders     *)
(* have the same time.                                                     *)
(***************************************************************************)
EXTENDS Naturals, Sequences, FiniteSets

\* How many rows of S are not newer than row.
Rank(S, row) == Cardinality({r \in S : r.ts <= row.ts})

\* The rows of S, oldest first.
Sorted(S) == [i \in 1 .. Cardinality(S) |-> CHOOSE row \in S : Rank(S, row) = i]
=============================================================================
