---------------------------- MODULE MCCommittee -----------------------------
(* An instance of Committee for TLC. *)
EXTENDS Committee

\* A plan of every kind of agent, and one that begins with a tool.
TwoPlans == {<<"planner", "coder", "verifier">>, <<"browser", "verifier">>}

\* A run whose texts name no marker, and one that asks for work on this program.
TwoTexts == {{}, {"verifier", "query"}}

\* Around every limit of merge.
LimitScores == {0, 29, 30, 60, 85, 100}
=============================================================================
