------------------------------- MODULE Runner -------------------------------
(***************************************************************************)
(* One run of one task by the orchestrator: Orchestrator._run and what it  *)
(* calls, in the in-process execution mode.                                *)
(*                                                                         *)
(* The runner is a coroutine on the event loop of the API process.  It     *)
(* works on a live object, task; every _emit serialises the whole object   *)
(* and commits it to the task's database row together with the event.      *)
(* Other threads may act between the two, and the process may stop         *)
(* anywhere, so an emit is two steps: serialise into dump, then Flush.     *)
(* Emits that would write the same row twice in a row are one emit here.   *)
(***************************************************************************)
EXTENDS TaskRecord

CONSTANTS NoDump,           \* no serialised row is waiting to be committed
          MemoryCanFail     \* may memory.episodic_store raise?

ASSUME NoDumpAssumption == NoDump \notin Task
ASSUME MemoryAssumption == MemoryCanFail \in BOOLEAN

VARIABLES
  row,       \* the task's row in the database: its committed payload
  task,      \* the live object in Orchestrator.tasks
  dump,      \* per thread, the payload serialised but not yet committed
  pc,        \* where the runner coroutine is
  attempt,   \* the loop variable of _run_step
  exc,       \* the exception on its way to the handler of _run
  outcome,   \* the terminal status _finish has been called with
  episodes,  \* how many times an outcome was stored in episodic memory
  ends,      \* how many stream.end events were committed
  fresh,     \* is the row as the janitor's transaction read it?
  calls,     \* history: per step, how many times its agent was called
  rejected   \* history: the rounds whose verifier rejected what it was given

control == <<pc, attempt, exc, outcome>>
memory == <<episodes, ends>>

Threads == {"runner", "janitor"}

\* The places where the coroutine gives control back to the event loop.
Awaiting == {"enter", "planning", "assessing", "waiting", "calling",
             "synthesizing", "ended"}
\* The places reached only once the gate let the task through.
Working == {"start", "round", "step", "attempt", "call", "calling", "reset",
            "synthesizing"}
Places == Awaiting \union Working \union
          {"assess", "gate", "fail", "finish", "remember", "close", "down"}

RunnerInit ==
  /\ task \in {NewTask(auto) : auto \in BOOLEAN}
  /\ row = task
  /\ dump = [t \in Threads |-> NoDump]
  /\ pc = "enter"
  /\ attempt = 1
  /\ exc = "none"
  /\ outcome = "none"
  /\ episodes = 0
  /\ ends = 0
  /\ fresh = FALSE
  /\ calls = [s \in Steps |-> 0]
  /\ rejected = {}

-----------------------------------------------------------------------------
(* Emitting and moving on.                                                 *)

At(place) == pc = place /\ dump["runner"] = NoDump

\* _emit: the live object becomes t and is serialised.
Emit(t, next) ==
  /\ task' = t
  /\ dump' = [dump EXCEPT !["runner"] = t]
  /\ pc' = next
  /\ UNCHANGED <<row, fresh>>

Goto(next) == pc' = next /\ UNCHANGED <<row, task, dump, fresh>>

\* save_task_and_event commits.  The last emit of a run is its stream.end.
Flush(t, last) ==
  /\ dump[t] # NoDump
  /\ row' = dump[t]
  /\ dump' = [dump EXCEPT ![t] = NoDump]
  /\ fresh' = FALSE
  /\ ends' = IF last THEN ends + 1 ELSE ends
  /\ UNCHANGED <<task, control, episodes, calls, rejected>>

RunnerFlush == Flush("runner", pc = "ended")

\* An exception reaches the handler of _run.
Raise(failure) ==
  /\ exc' = failure
  /\ Goto("fail")
  /\ UNCHANGED <<attempt, outcome, memory, calls, rejected>>

-----------------------------------------------------------------------------
(* Planning, risk and the approval gate.                                   *)

EnterPlanning ==
  /\ At("enter")
  /\ Unplanned(task)
  /\ Emit(WithStatus(task, "planning"), "planning")
  /\ UNCHANGED <<attempt, exc, outcome, memory, calls, rejected>>

EnterResume ==
  /\ At("enter")
  /\ ~Unplanned(task)
  /\ task' = Resumed(task)
  /\ pc' = "gate"
  /\ UNCHANGED <<row, dump, fresh, attempt, exc, outcome, memory, calls, rejected>>

Plan ==
  /\ At("planning")
  /\ Emit([task EXCEPT !.planned = TRUE, !.steps = NewPlan], "assess")
  /\ UNCHANGED <<attempt, exc, outcome, memory, calls, rejected>>

StartAssessing ==
  /\ At("assess")
  /\ Emit(WithStatus(task, "assessing_risk"), "assessing")
  /\ UNCHANGED <<attempt, exc, outcome, memory, calls, rejected>>

Assess(risk) ==
  /\ At("assessing")
  /\ Emit([task EXCEPT !.risk = risk], "gate")
  /\ UNCHANGED <<attempt, exc, outcome, memory, calls, rejected>>

\* The planner, the safety agent or the report writer raises.
ModelFails ==
  /\ \E place \in {"planning", "assessing", "synthesizing"} : At(place)
  /\ Raise("model")

\* Low risk, or a decision that is already on the record.
GateOpen ==
  /\ At("gate")
  /\ task.risk # "high" \/ task.decision = "yes"
  /\ Goto("start")
  /\ UNCHANGED <<attempt, exc, outcome, memory, calls, rejected>>

GateAuto ==
  /\ At("gate")
  /\ task.risk = "high" /\ task.decision # "yes" /\ task.auto
  /\ Emit(task, "start")
  /\ UNCHANGED <<attempt, exc, outcome, memory, calls, rejected>>

\* _deny: the task is about to be finished as denied.
Deny == Goto("finish") /\ outcome' = "denied"

GateRefused ==
  /\ At("gate")
  /\ ~MayRun(task) /\ task.decision = "no"
  /\ Deny
  /\ UNCHANGED <<attempt, exc, memory, calls, rejected>>

GateRequest ==
  /\ At("gate")
  /\ ~MayRun(task) /\ task.decision = "none"
  /\ task.status # "awaiting_approval"
  /\ Emit([task EXCEPT !.status = "awaiting_approval", !.decision = "none"],
          "waiting")
  /\ UNCHANGED <<attempt, exc, outcome, memory, calls, rejected>>

\* A recovered task that was already waiting is not asked about again.
GateStillWaiting ==
  /\ At("gate")
  /\ ~MayRun(task) /\ task.decision = "none"
  /\ task.status = "awaiting_approval"
  /\ Goto("waiting")
  /\ UNCHANGED <<attempt, exc, outcome, memory, calls, rejected>>

\* The poll of the store finds a decision.
WaitDecided ==
  /\ At("waiting")
  /\ row.decision # "none"
  /\ task' = [task EXCEPT !.decision = row.decision]
  /\ \/ row.decision = "yes" /\ pc' = "start" /\ outcome' = outcome
     \/ row.decision = "no" /\ pc' = "finish" /\ outcome' = "denied"
  /\ UNCHANGED <<row, dump, fresh, attempt, exc, memory, calls, rejected>>

\* The deadline passes: False, whatever the row says by now.
WaitExpires ==
  /\ At("waiting")
  /\ Emit([task EXCEPT !.decision = "no"], "finish")
  /\ outcome' = "denied"
  /\ UNCHANGED <<attempt, exc, memory, calls, rejected>>

-----------------------------------------------------------------------------
(* Executing the rounds.                                                   *)

Start ==
  /\ At("start")
  /\ Emit(WithStatus(task, "running"), "round")
  /\ UNCHANGED <<attempt, exc, outcome, memory, calls, rejected>>

EnterVerifier ==
  /\ At("round")
  /\ IsCurrent(task, Verifier)
  /\ Emit(WithStatus(task, "verifying"), "step")
  /\ UNCHANGED <<attempt, exc, outcome, memory, calls, rejected>>

\* Only the verifier, the last step, leaves the status other than running.
EnterWorker(s) ==
  /\ At("round")
  /\ s # Verifier /\ IsCurrent(task, s)
  /\ task.status = "running"
  /\ Goto("step")
  /\ UNCHANGED <<attempt, exc, outcome, memory, calls, rejected>>

StartStep(s) ==
  /\ At("step")
  /\ IsCurrent(task, s)
  /\ Emit(WithStep(task, s, "running"), "attempt")
  /\ attempt' = 1
  /\ UNCHANGED <<exc, outcome, memory, calls, rejected>>

\* Mutant: the attempt is counted, but not persisted before the call.
AttemptUnsaved(s) ==
  /\ At("attempt")
  /\ IsCurrent(task, s)
  /\ task' = [task EXCEPT !.steps[s].attempts = @ + 1]
  /\ pc' = "call"
  /\ UNCHANGED <<row, dump, fresh, attempt, exc, outcome, memory, calls, rejected>>

Attempt(s) ==
  /\ At("attempt")
  /\ IsCurrent(task, s)
  /\ Emit([task EXCEPT !.steps[s].attempts = @ + 1], "call")
  /\ UNCHANGED <<attempt, exc, outcome, memory, calls, rejected>>

Call(s) ==
  /\ At("call")
  /\ IsCurrent(task, s)
  /\ calls' = [calls EXCEPT ![s] = @ + 1]
  /\ Goto("calling")
  /\ UNCHANGED <<attempt, exc, outcome, memory, rejected>>

\* agent.run returns; the verifier has also set task.verified.
CallReturns(s, verdict) ==
  /\ At("calling")
  /\ IsCurrent(task, s)
  /\ Emit([WithStep(task, s, "completed") EXCEPT
             !.verified = IF s = Verifier THEN verdict ELSE @], "round")
  /\ rejected' = IF s = Verifier /\ verdict = "rejected"
                   THEN rejected \union {task.rework} ELSE rejected
  /\ UNCHANGED <<attempt, exc, outcome, memory, calls>>

\* Mutant: the retry does not use up an attempt.
CallRetriesFree ==
  /\ At("calling")
  /\ attempt < TotalAttempts
  /\ Emit(task, "attempt")
  /\ UNCHANGED <<attempt, exc, outcome, memory, calls, rejected>>

CallRetries ==
  /\ At("calling")
  /\ attempt < TotalAttempts
  /\ attempt' = attempt + 1
  /\ Emit(task, "attempt")
  /\ UNCHANGED <<exc, outcome, memory, calls, rejected>>

\* The last attempt raises, or a ProviderError ends the step at any attempt.
CallFails(s) ==
  /\ At("calling")
  /\ IsCurrent(task, s)
  /\ exc' = "step"
  /\ Emit(WithStep(task, s, "failed"), "fail")
  /\ UNCHANGED <<attempt, outcome, memory, calls, rejected>>

\* Mutant: the report is written without looking at the verdict.
RoundPassedUnchecked ==
  /\ At("round")
  /\ RoundDone(task)
  /\ Goto("synthesizing")
  /\ UNCHANGED <<attempt, exc, outcome, memory, calls, rejected>>

RoundPassed ==
  /\ At("round")
  /\ RoundDone(task) /\ task.verified = "passed"
  /\ Goto("synthesizing")
  /\ UNCHANGED <<attempt, exc, outcome, memory, calls, rejected>>

\* Mutant: one rework round too many.
StartReworkOnceMore ==
  /\ At("round")
  /\ RoundDone(task) /\ task.verified # "passed"
  /\ task.rework + 1 <= MaxRounds
  /\ Emit([task EXCEPT !.rework = @ + 1], "reset")
  /\ UNCHANGED <<attempt, exc, outcome, memory, calls, rejected>>

StartRework ==
  /\ At("round")
  /\ RoundDone(task) /\ task.verified # "passed"
  /\ task.rework + 1 < MaxRounds
  /\ Emit([task EXCEPT !.rework = @ + 1], "reset")
  /\ UNCHANGED <<attempt, exc, outcome, memory, calls, rejected>>

Reset ==
  /\ At("reset")
  /\ Emit(WithStatus(ResetForRework(task), "running"), "round")
  /\ UNCHANGED <<attempt, exc, outcome, memory, calls, rejected>>

GiveUp ==
  /\ At("round")
  /\ RoundDone(task) /\ task.verified # "passed"
  /\ task.rework + 1 = MaxRounds
  /\ Raise("rework")

-----------------------------------------------------------------------------
(* Ending the run.                                                         *)

Synthesize ==
  /\ At("synthesizing")
  /\ Emit(task, "finish")
  /\ outcome' = "completed"
  /\ UNCHANGED <<attempt, exc, memory, calls, rejected>>

\* The handler of _run: record the error, then finish as failed.
Fail ==
  /\ At("fail")
  /\ Emit([task EXCEPT !.error = exc], "finish")
  /\ outcome' = "failed"
  /\ UNCHANGED <<attempt, exc, memory, calls, rejected>>

\* Mutant: the outcome is not remembered.
FinishForgets ==
  /\ At("finish")
  /\ Emit(WithStatus(task, outcome), "close")
  /\ UNCHANGED <<attempt, exc, outcome, memory, calls, rejected>>

Finish ==
  /\ At("finish")
  /\ Emit(WithStatus(task, outcome), "remember")
  /\ UNCHANGED <<attempt, exc, outcome, memory, calls, rejected>>

Remember ==
  /\ At("remember")
  /\ episodes' = episodes + 1
  /\ Goto("close")
  /\ UNCHANGED <<attempt, exc, outcome, ends, calls, rejected>>

\* episodic_store raises: inside the try block the task fails after all,
\* inside the handler the coroutine dies where it is.
RememberFails ==
  /\ MemoryCanFail
  /\ At("remember")
  /\ \/ /\ outcome # "failed"
        /\ Raise("memory")
     \/ /\ outcome = "failed"
        /\ Goto("ended")
        /\ exc' = "memory"
        /\ UNCHANGED <<attempt, outcome, memory, calls, rejected>>

Close ==
  /\ At("close")
  /\ Emit(task, "ended")
  /\ UNCHANGED <<attempt, exc, outcome, memory, calls, rejected>>

RunnerStep ==
  \/ RunnerFlush
  \/ EnterPlanning \/ EnterResume \/ Plan \/ StartAssessing
  \/ \E risk \in {"low", "high"} : Assess(risk)
  \/ ModelFails
  \/ GateOpen \/ GateAuto \/ GateRefused \/ GateRequest \/ GateStillWaiting
  \/ WaitDecided \/ WaitExpires
  \/ Start \/ EnterVerifier
  \/ \E s \in Steps : \/ EnterWorker(s) \/ StartStep(s) \/ Attempt(s) \/ Call(s)
                      \/ \E verdict \in {"passed", "rejected"} : CallReturns(s, verdict)
                      \/ CallFails(s)
  \/ CallRetries \/ RoundPassed \/ StartRework \/ Reset \/ GiveUp
  \/ Synthesize \/ Fail \/ Finish \/ Remember \/ RememberFails \/ Close
=============================================================================
