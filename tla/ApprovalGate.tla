---------------------------- MODULE ApprovalGate ----------------------------
(***************************************************************************)
(* What the human approval gate of one task promises, whoever decides and  *)
(* however the task is executed:                                           *)
(*   - once the plan is assessed it either needs approval or does not;     *)
(*   - a task whose plan needs approval only works after it was granted;   *)
(*   - at most one reviewer's or the scheduler's decision is accepted;     *)
(*   - a grant may still be overruled as long as work has not begun;       *)
(*   - a refusal is for ever: no work begins after it.                     *)
(***************************************************************************)
VARIABLES needed,    \* does the plan need approval?
          verdict,   \* the decision on record
          work       \* is the task being worked on?

vars == <<needed, verdict, work>>

Init == needed = "unknown" /\ verdict = "none" /\ work = "idle"

Assess ==
  /\ needed = "unknown"
  /\ needed' \in {"yes", "no"}
  /\ UNCHANGED <<verdict, work>>

Decide ==
  /\ needed = "yes" /\ verdict = "none" /\ work = "idle"
  /\ verdict' \in {"granted", "refused"}
  /\ UNCHANGED <<needed, work>>

Overrule ==
  /\ verdict = "granted" /\ work = "idle"
  /\ verdict' = "refused"
  /\ UNCHANGED <<needed, work>>

Begin ==
  /\ work = "idle"
  /\ needed = "no" \/ (needed = "yes" /\ verdict = "granted")
  /\ work' = "active"
  /\ UNCHANGED <<needed, verdict>>

Pause == work = "active" /\ work' = "idle" /\ UNCHANGED <<needed, verdict>>

Next == Assess \/ Decide \/ Overrule \/ Begin \/ Pause

Spec == Init /\ [][Next]_vars
=============================================================================
