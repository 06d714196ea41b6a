-------------------------------- MODULE Risk --------------------------------
(***************************************************************************)
(* The risk assessment of app/risk.py: the deterministic score of the      *)
(* signals found in goal and plan, merged with the Safety agent's score.   *)
(* Which text a signal's pattern matches is abstracted to the set of       *)
(* signals that were found.                                                *)
(***************************************************************************)
EXTENDS Integers, Sequences

CONSTANT ApprovalThreshold     \* APPROVAL_THRESHOLD

ASSUME ThresholdAssumption == ApprovalThreshold \in Int

\* The weights of _HEURISTICS, in the order they are applied.
Weights == <<95, 62, 72, 76, 38, 32, 65>>
Signals == DOMAIN Weights

AtLeast(a, b) == IF a < b THEN b ELSE a
AtMost(a, b) == IF a < b THEN a ELSE b

\* Mutant: a signal replaces the score instead of raising it.
RaisedByReplacing(score, weight) ==
  AtMost(100, weight + (IF score = 0 THEN 0 ELSE 8))

\* The score after one more signal: each signal but the first adds 8.
Raised(score, weight) ==
  AtMost(100, AtLeast(score, weight) + (IF score = 0 THEN 0 ELSE 8))

HeuristicScore(found) ==
  LET after[n \in 0 .. Len(Weights)] ==
        IF n = 0 THEN 0
        ELSE IF n \in found THEN Raised(after[n - 1], Weights[n])
        ELSE after[n - 1]
  IN after[Len(Weights)]

Clamped(score) == AtLeast(0, AtMost(100, score))

\* Mutant: the agent's word is final.
MergedScoreTrusting(local, agent) == Clamped(agent)

MergedScore(local, agent) == AtLeast(local, Clamped(agent))

Level(score) ==
  IF score >= 85 THEN "critical"
  ELSE IF score >= ApprovalThreshold THEN "high"
  ELSE IF score >= 30 THEN "medium" ELSE "low"

RiskAssessment ==
  [score : 0 .. 100, level : {"low", "medium", "high", "critical"},
   requires_approval : BOOLEAN, heuristic_score : 0 .. 100, agent_score : 0 .. 100]

Merge(found, agent) ==
  LET local == HeuristicScore(found)
      score == MergedScore(local, agent) IN
    [score |-> score, level |-> Level(score),
     requires_approval |-> score >= ApprovalThreshold,
     heuristic_score |-> local, agent_score |-> Clamped(agent)]
=============================================================================
