----------------------------- MODULE TaskRecord -----------------------------
(***************************************************************************)
(* The task record of app/models.py as far as the control plane reads it,  *)
(* and the pure functions app/orchestrator.py applies to it.               *)
(*                                                                         *)
(* Text (goal, plan, outputs, summaries, error messages) is abstracted to  *)
(* the one thing the control plane tells apart: whether a plan exists,     *)
(* what the verifier said, which branch failed the task.  Every plan the   *)
(* planner produces ends in exactly one verifier step, so the verifier is  *)
(* the step NSteps; which worker agent runs another step is immaterial.    *)
(***************************************************************************)
EXTENDS Integers

CONSTANTS NSteps,           \* length of the plan, the verifier step included
          MaxStepRetries    \* MAX_STEP_RETRIES

ASSUME NStepsAssumption == NSteps \in Nat \ {0, 1}
ASSUME RetriesAssumption == MaxStepRetries \in Nat

Steps == 1 .. NSteps
Verifier == NSteps
TotalAttempts == MaxStepRetries + 1
MaxRounds == 2

TerminalStatuses == {"completed", "failed", "denied"}
ActiveStatuses == {"queued", "planning", "assessing_risk", "awaiting_approval",
                   "running", "verifying"}
TaskStatus == ActiveStatuses \union TerminalStatuses
StepStatus == {"pending", "running", "completed", "failed"}

Decision == {"none", "yes", "no"}                    \* None, True, False
Verdict == {"unknown", "passed", "rejected"}         \* task.verified
Risk == {"none", "low", "high"}    \* not assessed, no approval needed, needed
Failure == {"none", "model", "step", "rework", "memory"}

PlanStep == [status : StepStatus, attempts : Nat]

Task == [auto     : BOOLEAN,
         status   : TaskStatus,
         planned  : BOOLEAN,
         steps    : [Steps -> PlanStep],
         risk     : Risk,
         verified : Verdict,
         rework   : 0 .. MaxRounds - 1,
         decision : Decision,
         error    : Failure]

NewPlan == [s \in Steps |-> [status |-> "pending", attempts |-> 0]]

NewTask(auto) ==
  [auto |-> auto, status |-> "queued", planned |-> FALSE, steps |-> NewPlan,
   risk |-> "none", verified |-> "unknown", rework |-> 0,
   decision |-> "none", error |-> "none"]

\* Mutant: a plan whose risk was never assessed is taken as it is.
UnplannedForgetsRisk(t) == ~t.planned

\* `not task.steps or task.risk is None`: the run starts by planning.
Unplanned(t) == ~t.planned \/ t.risk = "none"

WithStatus(t, status) == [t EXCEPT !.status = status]

WithStep(t, s, status) == [t EXCEPT !.steps[s].status = status]

\* Mutant: completed steps are reset too.
ResumedResetsAll(t) == [t EXCEPT !.steps = [s \in Steps |->
                          [t.steps[s] EXCEPT !.status = "pending"]]]

\* A step that was mid-flight when the previous process stopped runs again.
Resumed(t) ==
  [t EXCEPT !.steps = [s \in Steps |->
     IF t.steps[s].status \in {"running", "failed"}
       THEN [t.steps[s] EXCEPT !.status = "pending"] ELSE t.steps[s]]]

\* Mutant: only the verdict is cleared, no step runs again.
ResetKeepsSteps(t) == [t EXCEPT !.verified = "unknown"]

\* Every step runs again; the attempts already spent stay on record.
ResetForRework(t) ==
  [t EXCEPT !.steps = [s \in Steps |-> [t.steps[s] EXCEPT !.status = "pending"]],
            !.verified = "unknown"]

RoundDone(t) == \A s \in Steps : t.steps[s].status = "completed"

\* The step the round works on: the first one that is not completed.
IsCurrent(t, s) ==
  /\ t.steps[s].status # "completed"
  /\ \A q \in 1 .. s - 1 : t.steps[q].status = "completed"

\* `risk is None or not requires_approval`, a yes on record, or auto approval.
MayRun(t) == t.risk # "high" \/ t.decision = "yes" \/ t.auto
=============================================================================
