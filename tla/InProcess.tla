----------------------------- MODULE InProcess -----------------------------
(***************************************************************************)
(* The in-process execution mode: one task, its runner, the reviewers who  *)
(* call the approval endpoint, the approval janitor and the process that   *)
(* holds them, which may stop anywhere and recover.                        *)
(*                                                                         *)
(* The runner and the endpoints share the event loop, so a request is      *)
(* served only while the runner awaits.  The janitor is a thread: it may   *)
(* act between any two steps of the runner.  Time is not modelled: the     *)
(* runner's deadline and the janitor's cutoff, measured by different       *)
(* clocks from different moments, may each have passed or not.             *)
(***************************************************************************)
EXTENDS Runner, Sequences

CONSTANT MaxCrashes     \* bound: how often the process stops

ASSUME CrashesAssumption == MaxCrashes \in Nat

VARIABLES
  jan,         \* where the janitor is in expire_stale_approvals
  decisions,   \* history: what decide_approval accepted, in order
  claims,      \* history: how many approvals expire_approval claimed
  crashes,     \* how often the process has stopped
  reworkLost   \* history: did it stop between rework.started and the reset?

history == <<decisions, claims, crashes, reworkLost>>
vars == <<row, task, dump, control, memory, fresh, calls, rejected, jan, history>>

Init ==
  /\ RunnerInit
  /\ jan = "idle"
  /\ decisions = <<>>
  /\ claims = 0
  /\ crashes = 0
  /\ reworkLost = FALSE

Run == RunnerStep /\ UNCHANGED <<jan, history>>

\* Mutant: a second decision replaces the first.
DecideAgain(decision) ==
  /\ pc \in Awaiting /\ dump["runner"] = NoDump
  /\ row.status = "awaiting_approval"
  /\ task' = [task EXCEPT !.decision = decision]
  /\ row' = task'
  /\ fresh' = FALSE
  /\ decisions' = Append(decisions, decision)
  /\ UNCHANGED <<dump, control, memory, calls, rejected, jan, claims, crashes,
                 reworkLost>>

\* POST /api/tasks/{id}/approval, answered 200.  decide_approval's
\* transaction, the update of the live object and the approval.resolved emit
\* run without giving up the event loop, and a janitor that has not yet
\* claimed the row by then no longer can.
Decide(decision) ==
  /\ pc \in Awaiting /\ dump["runner"] = NoDump
  /\ row.status = "awaiting_approval" /\ row.decision = "none"
  /\ task' = [task EXCEPT !.decision = decision]
  /\ row' = task'
  /\ fresh' = FALSE
  /\ decisions' = Append(decisions, decision)
  /\ UNCHANGED <<dump, control, memory, calls, rejected, jan, claims, crashes,
                 reworkLost>>

-----------------------------------------------------------------------------
(* The janitor: expire_stale_approvals in a thread.                        *)

JanitorEmit(t) ==
  /\ task' = t
  /\ dump' = [dump EXCEPT !["janitor"] = t]

\* expire_approval reads the row and finds it undecided and stale.
JanitorRead ==
  /\ jan = "idle" /\ dump["janitor"] = NoDump /\ pc # "down"
  /\ row.status = "awaiting_approval" /\ row.decision = "none"
  /\ jan' = "read"
  /\ fresh' = TRUE
  /\ UNCHANGED <<row, task, dump, control, memory, calls, rejected, history>>

\* Mutant: the update is not conditional on what was read.
JanitorClaimBlindly ==
  /\ jan = "read"
  /\ row' = [row EXCEPT !.decision = "no"]
  /\ fresh' = FALSE
  /\ claims' = claims + 1
  /\ jan' = "claimed"
  /\ UNCHANGED <<task, dump, control, memory, calls, rejected, decisions, crashes,
                 reworkLost>>

\* The conditional update: only a row nobody wrote since is claimed.
JanitorClaim ==
  /\ jan = "read"
  /\ fresh
  /\ row' = [row EXCEPT !.decision = "no"]
  /\ fresh' = FALSE
  /\ claims' = claims + 1
  /\ jan' = "claimed"
  /\ UNCHANGED <<task, dump, control, memory, calls, rejected, decisions, crashes,
                 reworkLost>>

JanitorMiss ==
  /\ jan = "read"
  /\ ~fresh
  /\ jan' = "idle"
  /\ UNCHANGED <<row, task, dump, control, memory, fresh, calls, rejected, history>>

\* Mutant: the live object is not told the decision.
JanitorTimeoutUntold ==
  /\ jan = "claimed"
  /\ JanitorEmit(task)
  /\ jan' = "deny"
  /\ UNCHANGED <<row, control, memory, fresh, calls, rejected, history>>

JanitorTimeout ==
  /\ jan = "claimed"
  /\ JanitorEmit([task EXCEPT !.decision = "no"])
  /\ jan' = "deny"
  /\ UNCHANGED <<row, control, memory, fresh, calls, rejected, history>>

JanitorDeny ==
  /\ jan = "deny" /\ dump["janitor"] = NoDump
  /\ JanitorEmit(WithStatus(task, "denied"))
  /\ jan' = "remember"
  /\ UNCHANGED <<row, control, memory, fresh, calls, rejected, history>>

JanitorRemember ==
  /\ jan = "remember" /\ dump["janitor"] = NoDump
  /\ \/ episodes' = episodes + 1 /\ jan' = "close"
     \/ MemoryCanFail /\ episodes' = episodes /\ jan' = "idle"
  /\ UNCHANGED <<row, task, dump, control, ends, fresh, calls, rejected, history>>

JanitorClose ==
  /\ jan = "close"
  /\ JanitorEmit(task)
  /\ jan' = "idle"
  /\ UNCHANGED <<row, control, memory, fresh, calls, rejected, history>>

JanitorFlush == Flush("janitor", jan = "idle") /\ UNCHANGED <<jan, history>>

\* What the janitor does of necessity once it has read a stale row.
JanitorStep ==
  \/ JanitorClaim \/ JanitorMiss \/ JanitorTimeout \/ JanitorDeny
  \/ JanitorRemember \/ JanitorClose \/ JanitorFlush

-----------------------------------------------------------------------------
(* The process.                                                            *)

\* The row announces a rework round whose steps still stand as completed: a
\* recovery takes the last verdict for the verdict of that round.
RoundUnheard(t) ==
  /\ t.rework > 0 /\ t.rework \notin rejected
  /\ t.steps[Verifier].status = "completed" /\ t.verified # "passed"

\* The process stops, at an await (shutdown cancels the runners) or anywhere:
\* all that is left of the task is its row.
Crash ==
  /\ crashes < MaxCrashes
  /\ pc # "down"
  /\ crashes' = crashes + 1
  /\ task' = row
  /\ dump' = [t \in Threads |-> NoDump]
  /\ pc' = "down" /\ attempt' = 1 /\ exc' = "none" /\ outcome' = "none"
  /\ jan' = "idle" /\ fresh' = FALSE
  /\ reworkLost' = (reworkLost \/ RoundUnheard(row))
  /\ UNCHANGED <<row, memory, calls, rejected, decisions, claims>>

\* Mutant: recovery does not look at the status.
RestartAll ==
  /\ pc = "down"
  /\ pc' = "enter"
  /\ UNCHANGED <<row, task, dump, attempt, exc, outcome, memory, fresh, calls,
                 rejected, jan, history>>

\* Mutant: recovery leaves the tasks that wait for approval alone.
RestartWorking ==
  /\ pc = "down"
  /\ pc' = IF row.status \in ActiveStatuses \ {"awaiting_approval"}
             THEN "enter" ELSE "ended"
  /\ UNCHANGED <<row, task, dump, attempt, exc, outcome, memory, fresh, calls,
                 rejected, jan, history>>

\* recover, before requests are served and before the janitor starts: an
\* unfinished task gets a new runner.  The task.recovered emit writes back
\* what was just read.
Restart ==
  /\ pc = "down"
  /\ pc' = IF row.status \in ActiveStatuses THEN "enter" ELSE "ended"
  /\ UNCHANGED <<row, task, dump, attempt, exc, outcome, memory, fresh, calls,
                 rejected, jan, history>>

\* Everybody is done.
Terminated ==
  /\ pc = "ended" /\ jan = "idle"
  /\ dump = [t \in Threads |-> NoDump]
  /\ UNCHANGED vars

Next ==
  \/ Run
  \/ \E decision \in {"yes", "no"} : Decide(decision)
  \/ JanitorRead \/ JanitorStep
  \/ Crash \/ Restart
  \/ Terminated

\* The event loop runs what is ready and its timers fire; every awaited call
\* has a timeout; a thread that runs goes on; a stopped process is started
\* again.  Nothing makes a reviewer decide or the janitor find the task.
Fairness == WF_vars(Run) /\ WF_vars(JanitorStep) /\ WF_vars(Restart)

Spec == Init /\ [][Next]_vars
FairSpec == Spec /\ Fairness
-----------------------------------------------------------------------------
(* Properties.                                                             *)

JanitorPlaces == {"idle", "read", "claimed", "deny", "remember", "close"}

\* The type invariant of the in-process mode: rows, live objects and payloads
\* under way are well-formed tasks (orchestrator.py, models.py).
TypeOK ==
  /\ row \in Task
  /\ task \in Task
  /\ dump \in [Threads -> Task \union {NoDump}]
  /\ pc \in Places
  /\ attempt \in 1 .. TotalAttempts
  /\ exc \in Failure
  /\ outcome \in TerminalStatuses \union {"none"}
  /\ episodes \in Nat
  /\ ends \in Nat
  /\ fresh \in BOOLEAN
  /\ calls \in [Steps -> Nat]
  /\ rejected \subseteq 0 .. MaxRounds - 1
  /\ jan \in JanitorPlaces
  /\ decisions \in Seq({"yes", "no"})
  /\ claims \in Nat
  /\ crashes \in 0 .. MaxCrashes
  /\ reworkLost \in BOOLEAN

\* An agent is called only for a plan that was assessed as low risk, for one
\* whose creator asked for auto approval, or after a reviewer's yes was the
\* one decision ever accepted, across crashes and janitor runs (_gate).
OnlyApprovedWork ==
  pc = "calling" =>
    \/ task.risk = "low"
    \/ task.risk = "high" /\ task.auto
    \/ task.risk = "high" /\ decisions = <<"yes">> /\ claims = 0

\* decide_approval and expire_approval together accept at most one decision
\* for a task, however requests, janitor and crashes interleave.
SingleWriter == Len(decisions) + claims <= 1

\* Every call was on record before it was made, even after a crash, and the calls
\* of a step are bounded per round and per process life (_run_step).
CallsBounded ==
  \A s \in Steps :
    /\ calls[s] <= row.steps[s].attempts
    /\ calls[s] <= TotalAttempts * (row.rework + 1 + crashes)

\* A task is on record as completed only if every step of its plan ran and
\* the verifier passed what they produced (_run).
CompletedMeansVerified ==
  row.status = "completed" =>
    /\ RoundDone(row) /\ row.verified = "passed"
    /\ \A s \in Steps : calls[s] > 0

\* Once an outcome was remembered no agent is called again, not even after the
\* janitor wrote an older payload over the outcome and the process restarted
\* (_finish, recover).
NoWorkAfterOutcome == episodes > 0 => pc \notin Working

\* Completed work is never redone but for the one rework round of a rejected
\* plan: neither a crash nor a retry gives up a completed step (_run).
CompletedStays ==
  [][\A s \in Steps :
       row.steps[s].status = "completed" /\ row'.steps[s].status # "completed"
         => RoundDone(row) /\ row.verified = "rejected" /\ row.rework = 1]_vars

\* An outcome on record stays one: a failed or denied task never turns out
\* completed, and the one thing that can take the place of an outcome is the
\* older payload a janitor still held, which is already refused (_emit).
OutcomeStays ==
  [][row.status \in TerminalStatuses =>
       /\ row'.status = "completed" => row.status = "completed"
       /\ row'.status \in ActiveStatuses =>
            row'.status = "awaiting_approval" /\ row'.decision = "no"]_vars

\* The in-process mode implements the abstract approval gate.
gate == INSTANCE ApprovalGate WITH
  needed  <- CASE row.risk = "none" -> "unknown"
               [] row.risk = "high" /\ ~row.auto -> "yes"
               [] OTHER -> "no",
  verdict <- CASE row.decision = "yes" -> "granted"
               [] row.decision = "no" -> "refused"
               [] OTHER -> "none",
  work    <- IF pc \in Working THEN "active" ELSE "idle"
ImplementsGate == gate!Spec

\* Every task reaches an outcome on record and keeps having one, whatever the
\* reviewers, the janitor and a bounded number of crashes do.
Settles == <>[](row.status \in TerminalStatuses)

\* A step is called at most MAX_STEP_RETRIES + 1 times per round: the retry
\* budget README.md says a recovery preserves (_run_step).
BudgetKept ==
  \A s \in Steps : calls[s] <= TotalAttempts * (row.rework + 1)

\* A task on record as failed for its rework had every round verified, and
\* rejected, in its own right.  The one way to lose the last round is a process
\* that stops between the rework.started emit and the reset of the steps (_run).
ReworkRuns ==
  row.error = "rework" =>
    \A round \in 0 .. MaxRounds - 1 :
      round \in rejected \/ (round = MaxRounds - 1 /\ reworkLost)

\* A task whose approval a reviewer was told is granted is not denied
\* (_wait_for_approval).
ApprovalHonoured == row.status = "denied" => decisions # <<"yes">>

\* A task that has an outcome is remembered, and its subscribers are told that
\* it is over, unless the process was stopped or the memory failed (_finish).
OutcomeFollowed ==
  row.status \in TerminalStatuses ~>
    (episodes > 0 /\ ends > 0) \/ crashes > 0 \/ exc = "memory"
=============================================================================
