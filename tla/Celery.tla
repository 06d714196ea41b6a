------------------------------- MODULE Celery -------------------------------
(***************************************************************************)
(* The distributed execution mode: one task, the API replicas that create  *)
(* and approve it, the broker queue, the Celery workers, the Redis lock    *)
(* around a run and the beat job that expires approvals.                   *)
(*                                                                         *)
(* Every process has an Orchestrator of its own with its own copy of the   *)
(* task in Orchestrator.tasks; an emit writes the whole copy over the row. *)
(* Copies are never refreshed but by resume_task.  A run is coarse here:   *)
(* planning, the gate, working, an outcome and the memory of it; module    *)
(* Runner has the detail.  Emits of one handler that follow each other and *)
(* write the same task are one step.                                       *)
(***************************************************************************)
EXTENDS Naturals, Sequences, SequencesExt

CONSTANTS Api,               \* API replicas
          Workers,           \* worker processes
          Creator,           \* the replica that serves POST /api/tasks
          Reviewed,          \* the replicas that may serve the approval
          NoCopy,            \* a process without a copy of the task
          Free,              \* nobody holds the execution lock
          MaxDecisions,      \* bound: decisions reviewers send
          MaxFaults          \* bound: processes lost, messages redelivered and
                             \* locks that expire under a running worker

ASSUME ProcessesAssumption ==
  /\ Api \intersect Workers = {}
  /\ Creator \in Api /\ Reviewed \subseteq Api
  /\ Free \notin Workers
ASSUME BoundsAssumption ==
  /\ MaxDecisions \in Nat /\ MaxFaults \in Nat

VARIABLES
  row,          \* the task's row in the database
  copy,         \* per process: Orchestrator.tasks[id]
  apc,          \* per replica: where its request handler is
  wpc,          \* per worker: where its Celery job is
  queue,        \* messages ready in the broker, all for this task
  lock,         \* who holds atlas:execution-lock:<id>
  plans,        \* how many plans were made; plans are numbered
  decisions,    \* history: <<decision, plan>> accepted by decide_approval
  claimed,       \* history: expire_approval claimed an approval
  interrupted,  \* history: a run was cut short and nobody ran the task since
  lapses,       \* history: writes of a copy the row had left behind
  crashes, redeliveries, expiries

faults == <<crashes, redeliveries, expiries>>
history == <<decisions, claimed, interrupted, lapses>>
vars == <<row, copy, apc, wpc, queue, lock, plans, history, faults>>

Terminal == {"completed", "failed", "denied"}
Status == {"queued", "planning", "assessing_risk", "awaiting_approval", "running"}
            \union Terminal

\* plan = 0: not planned.  risk = "high": approval is needed, and the task was
\* not created with auto approval.
Task == [status : Status, plan : Nat, risk : {"none", "low", "high"},
         decision : {"none", "yes", "no"}]

NewTask == [status |-> "queued", plan |-> 0, risk |-> "none", decision |-> "none"]

\* In these places a worker is between acquiring and releasing the lock, ...
Running == {"locked", "plan", "planning", "gate", "working", "remember", "release"}
\* ... and in these it holds a message it has not acknowledged.
Holding == Running \union {"received", "ack"}

Init ==
  /\ row = NewTask
  /\ copy = [p \in Api \union Workers |-> IF p = Creator THEN NewTask ELSE NoCopy]
  /\ apc = [a \in Api |-> IF a = Creator THEN "enqueue" ELSE "idle"]
  /\ wpc = [w \in Workers |-> "idle"]
  /\ queue = 0 /\ lock = Free
  /\ plans = 0
  /\ decisions = <<>> /\ claimed = FALSE /\ interrupted = FALSE /\ lapses = {}
  /\ crashes = 0 /\ redeliveries = 0 /\ expiries = 0

\* _emit of process p: its copy becomes t and is written over the row.
Emit(p, t) == copy' = [copy EXCEPT ![p] = t] /\ row' = t

Note(lapse, when) == lapses' = IF when THEN lapses \union {lapse} ELSE lapses

ApiGoto(a, place) == apc' = [apc EXCEPT ![a] = place]
WorkerGoto(w, place) == wpc' = [wpc EXCEPT ![w] = place]

\* Mutant: the decision ends up in the status.
DecidedAsStatus(p, decision) ==
  IF copy[p] = NoCopy THEN [row EXCEPT !.status = decision]
                      ELSE [copy[p] EXCEPT !.status = decision]

\* What becomes of p's copy when p accepts a decision: a copy p already has is
\* kept and only told the decision, otherwise the row just read becomes it.
Decided(p, decision) ==
  IF copy[p] = NoCopy THEN [row EXCEPT !.decision = decision]
                      ELSE [copy[p] EXCEPT !.decision = decision]

-----------------------------------------------------------------------------
(* The API replicas: create_task (from _dispatch on) and resolve_approval. *)

Enqueue(a) ==
  /\ apc[a] = "enqueue"
  /\ queue' = queue + 1
  /\ ApiGoto(a, "queued")
  /\ UNCHANGED <<row, copy, wpc, lock, plans, history, faults>>

\* The broker cannot be reached: the task fails and the request with it.
EnqueueFails(a) ==
  /\ apc[a] = "enqueue"
  /\ Emit(a, [copy[a] EXCEPT !.status = "failed"])
  /\ ApiGoto(a, "idle")
  /\ UNCHANGED <<wpc, queue, lock, plans, history, faults>>

\* The task.queued emit, after the message has been handed to the broker.
Queued(a) ==
  /\ apc[a] = "queued"
  /\ Emit(a, copy[a])
  /\ ApiGoto(a, "idle")
  /\ Note("late emit", row # copy[a])
  /\ UNCHANGED <<wpc, queue, lock, plans, decisions, claimed, interrupted, faults>>

\* decide_approval's transaction, and the copy that will be emitted.
Decide(a, decision) ==
  /\ a \in Reviewed /\ apc[a] = "idle"
  /\ Len(decisions) < MaxDecisions
  /\ row.status = "awaiting_approval" /\ row.decision = "none"
  /\ row' = [row EXCEPT !.decision = decision]
  /\ copy' = [copy EXCEPT ![a] = Decided(a, decision)]
  /\ decisions' = Append(decisions, <<decision, row.plan>>)
  /\ Note("stale copy", Decided(a, decision).plan # row.plan)
  /\ ApiGoto(a, "resolve")
  /\ UNCHANGED <<wpc, queue, lock, plans, claimed, interrupted, faults>>

Resolve(a) ==
  /\ apc[a] = "resolve"
  /\ Emit(a, copy[a])
  /\ ApiGoto(a, IF copy[a].decision = "yes" THEN "enqueue" ELSE "deny")
  /\ UNCHANGED <<wpc, queue, lock, plans, history, faults>>

Deny(a) ==
  /\ apc[a] = "deny"
  /\ Emit(a, [copy[a] EXCEPT !.status = "denied"])
  /\ ApiGoto(a, "idle")
  /\ UNCHANGED <<wpc, queue, lock, plans, history, faults>>

ApiStep(a) == Enqueue(a) \/ EnqueueFails(a) \/ Queued(a) \/ Resolve(a) \/ Deny(a)

-----------------------------------------------------------------------------
(* The workers: execute_task and the run inside it.                        *)

Receive(w) ==
  /\ wpc[w] = "idle"
  /\ queue > 0
  /\ queue' = queue - 1
  /\ WorkerGoto(w, "received")
  /\ UNCHANGED <<row, copy, apc, lock, plans, history, faults>>

\* Mutant: the job does not look at who holds the lock.
AcquireAnyway(w) ==
  /\ wpc[w] = "received"
  /\ lock' = w
  /\ WorkerGoto(w, "locked")
  /\ UNCHANGED <<row, copy, apc, queue, plans, history, faults>>

Acquire(w) ==
  /\ wpc[w] = "received"
  /\ lock = Free
  /\ lock' = w
  /\ WorkerGoto(w, "locked")
  /\ UNCHANGED <<row, copy, apc, queue, plans, history, faults>>

\* Somebody holds the lock: the job returns, and its message is acknowledged.
Drop(w) ==
  /\ wpc[w] = "received"
  /\ lock # Free
  /\ WorkerGoto(w, "idle")
  /\ UNCHANGED <<row, copy, apc, queue, lock, plans, history, faults>>

\* resume_task: nothing to do for a task that is over.
LoadFinished(w) ==
  /\ wpc[w] = "locked"
  /\ row.status \in Terminal
  /\ WorkerGoto(w, "release")
  /\ interrupted' = FALSE
  /\ UNCHANGED <<row, copy, apc, queue, lock, plans, decisions, claimed, lapses, faults>>

\* Mutant: the stored plan is not used.
LoadReplans(w) ==
  /\ wpc[w] = "locked"
  /\ row.status \notin Terminal
  /\ copy' = [copy EXCEPT ![w] = row]
  /\ WorkerGoto(w, "plan")
  /\ interrupted' = FALSE
  /\ UNCHANGED <<row, apc, queue, lock, plans, decisions, claimed, lapses, faults>>

Load(w) ==
  /\ wpc[w] = "locked"
  /\ row.status \notin Terminal
  /\ copy' = [copy EXCEPT ![w] = row]
  /\ WorkerGoto(w, IF row.plan = 0 THEN "plan" ELSE "gate")
  /\ interrupted' = FALSE
  /\ UNCHANGED <<row, apc, queue, lock, plans, decisions, claimed, lapses, faults>>

StartPlanning(w) ==
  /\ wpc[w] = "plan"
  /\ Emit(w, [copy[w] EXCEPT !.status = "planning"])
  /\ WorkerGoto(w, "planning")
  /\ UNCHANGED <<apc, queue, lock, plans, history, faults>>

\* A plan without an assessment is made anew by whoever resumes the task, so
\* plan and assessment are one step here.
Plan(w, risk) ==
  /\ wpc[w] = "planning"
  /\ plans' = plans + 1
  /\ Emit(w, [copy[w] EXCEPT !.status = "assessing_risk", !.plan = plans',
                             !.risk = risk])
  /\ WorkerGoto(w, "gate")
  /\ UNCHANGED <<apc, queue, lock, history, faults>>

\* Mutant: whatever was not refused is let through.
GateOpenUnlessRefused(w) ==
  /\ wpc[w] = "gate"
  /\ copy[w].risk # "high" \/ copy[w].decision # "no"
  /\ Emit(w, [copy[w] EXCEPT !.status = "running"])
  /\ WorkerGoto(w, "working")
  /\ UNCHANGED <<apc, queue, lock, plans, history, faults>>

GateOpen(w) ==
  /\ wpc[w] = "gate"
  /\ copy[w].risk # "high" \/ copy[w].decision = "yes"
  /\ Emit(w, [copy[w] EXCEPT !.status = "running"])
  /\ WorkerGoto(w, "working")
  /\ UNCHANGED <<apc, queue, lock, plans, history, faults>>

GateRefused(w) ==
  /\ wpc[w] = "gate"
  /\ copy[w].risk = "high" /\ copy[w].decision = "no"
  /\ Emit(w, [copy[w] EXCEPT !.status = "denied"])
  /\ WorkerGoto(w, "remember")
  /\ UNCHANGED <<apc, queue, lock, plans, history, faults>>

\* Mutant: no decision counts as a refusal.
PauseDenies(w) ==
  /\ wpc[w] = "gate"
  /\ copy[w].risk = "high" /\ copy[w].decision = "none"
  /\ Emit(w, [copy[w] EXCEPT !.status = "denied"])
  /\ WorkerGoto(w, "remember")
  /\ UNCHANGED <<apc, queue, lock, plans, history, faults>>

\* Mutant: the worker waits for the reviewer, as the in-process mode does.
PauseWaits(w) ==
  /\ wpc[w] = "gate"
  /\ copy[w].risk = "high" /\ copy[w].decision = "none"
  /\ Emit(w, [copy[w] EXCEPT !.status = "awaiting_approval"])
  /\ UNCHANGED <<apc, wpc, queue, lock, plans, history, faults>>

\* The task pauses in the database and the worker is released.
Pause(w) ==
  /\ wpc[w] = "gate"
  /\ copy[w].risk = "high" /\ copy[w].decision = "none"
  /\ Emit(w, [copy[w] EXCEPT !.status = "awaiting_approval", !.decision = "none"])
  /\ WorkerGoto(w, "release")
  /\ UNCHANGED <<apc, queue, lock, plans, history, faults>>

\* The outcome of the run.  What raises, planning and the assessment included,
\* fails the task.
Finish(w, status) ==
  /\ wpc[w] = "working" \/ (wpc[w] = "planning" /\ status = "failed")
  /\ Emit(w, [copy[w] EXCEPT !.status = status])
  /\ WorkerGoto(w, "remember")
  /\ UNCHANGED <<apc, queue, lock, plans, history, faults>>

\* The rest of _finish: the outcome is stored as an episode, and stream.end emitted.
Remember(w) ==
  /\ wpc[w] = "remember"
  /\ Emit(w, copy[w])
  /\ WorkerGoto(w, "release")
  /\ UNCHANGED <<apc, queue, lock, plans, history, faults>>

\* The memory store raises, with the outcome on record: the handler of _run
\* fails the task, whatever it came to; raised there, it ends the job.
RememberFails(w) ==
  /\ wpc[w] = "remember"
  /\ \/ /\ copy[w].status # "failed"
        /\ Emit(w, [copy[w] EXCEPT !.status = "failed"])
        /\ UNCHANGED wpc
     \/ /\ copy[w].status = "failed"
        /\ WorkerGoto(w, "release")
        /\ UNCHANGED <<row, copy>>
  /\ UNCHANGED <<apc, queue, lock, plans, history, faults>>

\* A lock that expired and may be somebody else's by now is left alone.
Release(w) ==
  /\ wpc[w] = "release"
  /\ lock' = IF lock = w THEN Free ELSE lock
  /\ WorkerGoto(w, "ack")
  /\ UNCHANGED <<row, copy, apc, queue, plans, history, faults>>

Ack(w) ==
  /\ wpc[w] = "ack"
  /\ WorkerGoto(w, "idle")
  /\ UNCHANGED <<row, copy, apc, queue, lock, plans, history, faults>>

\* Mutant: the claim does not look at the decision on record.
ExpireDecided(w) ==
  /\ wpc[w] = "idle"
  /\ row.status = "awaiting_approval"
  /\ row' = [row EXCEPT !.decision = "no"]
  /\ copy' = [copy EXCEPT ![w] = Decided(w, "no")]
  /\ claimed' = TRUE
  /\ WorkerGoto(w, "timeout")
  /\ UNCHANGED <<apc, queue, lock, plans, decisions, interrupted, lapses, faults>>

\* The beat job in a worker process: expire_stale_approvals.
Expire(w) ==
  /\ wpc[w] = "idle"
  /\ row.status = "awaiting_approval" /\ row.decision = "none"
  /\ row' = [row EXCEPT !.decision = "no"]
  /\ copy' = [copy EXCEPT ![w] = Decided(w, "no")]
  /\ claimed' = TRUE
  /\ WorkerGoto(w, "timeout")
  /\ UNCHANGED <<apc, queue, lock, plans, decisions, interrupted, lapses, faults>>

ExpireEmit(w) ==
  /\ wpc[w] = "timeout"
  /\ Emit(w, copy[w])
  /\ WorkerGoto(w, "deny")
  /\ UNCHANGED <<apc, queue, lock, plans, history, faults>>

ExpireDeny(w) ==
  /\ wpc[w] = "deny"
  /\ Emit(w, [copy[w] EXCEPT !.status = "denied"])
  /\ WorkerGoto(w, "idle")
  /\ UNCHANGED <<apc, queue, lock, plans, history, faults>>

WorkerStep(w) ==
  \/ Receive(w) \/ Acquire(w) \/ Drop(w) \/ LoadFinished(w) \/ Load(w)
  \/ StartPlanning(w) \/ \E risk \in {"low", "high"} : Plan(w, risk)
  \/ GateOpen(w) \/ GateRefused(w) \/ Pause(w)
  \/ \E status \in {"completed", "failed"} : Finish(w, status)
  \/ Remember(w) \/ RememberFails(w)
  \/ Release(w) \/ Ack(w)
  \/ ExpireEmit(w) \/ ExpireDeny(w)

-----------------------------------------------------------------------------
(* Faults.                                                                 *)

MoreFaults == crashes + redeliveries + expiries < MaxFaults

\* A worker process is lost; what it had not acknowledged is queued again.
\* The lock stays behind until it expires.
LoseWorker(w) ==
  /\ MoreFaults
  /\ wpc[w] # "idle"
  /\ crashes' = crashes + 1
  /\ queue' = IF wpc[w] \in Holding THEN queue + 1 ELSE queue
  /\ interrupted' = (interrupted \/ wpc[w] \in Running \ {"locked", "remember", "release"})
  /\ copy' = [copy EXCEPT ![w] = NoCopy]
  /\ WorkerGoto(w, "idle")
  /\ UNCHANGED <<row, apc, lock, plans, decisions, claimed, lapses, redeliveries, expiries>>

LoseApi(a) ==
  /\ MoreFaults
  /\ copy[a] # NoCopy
  /\ crashes' = crashes + 1
  /\ copy' = [copy EXCEPT ![a] = NoCopy]
  /\ ApiGoto(a, "idle")
  /\ UNCHANGED <<row, wpc, queue, lock, plans, history, redeliveries, expiries>>

\* The broker's visibility timeout: a message a worker still works on is
\* delivered again.
Redeliver(w) ==
  /\ MoreFaults
  /\ wpc[w] \in Holding
  /\ redeliveries' = redeliveries + 1
  /\ queue' = queue + 1
  /\ UNCHANGED <<row, copy, apc, wpc, lock, plans, history, crashes, expiries>>

\* The lock of a lost worker expires.
LockExpires ==
  /\ lock # Free /\ wpc[lock] \notin Running
  /\ lock' = Free
  /\ UNCHANGED <<row, copy, apc, wpc, queue, plans, history, faults>>

\* A run outlasts the lock's timeout of 3600 s.
LockOutlasted ==
  /\ MoreFaults
  /\ lock # Free /\ wpc[lock] \in Running
  /\ lock' = Free
  /\ expiries' = expiries + 1
  /\ UNCHANGED <<row, copy, apc, wpc, queue, plans, history, crashes, redeliveries>>

\* Nobody has anything left to do but decide or expire.
Quiet ==
  /\ \A a \in Api : apc[a] = "idle"
  /\ \A w \in Workers : wpc[w] = "idle"
  /\ queue = 0
  /\ UNCHANGED vars

Next ==
  \/ \E a \in Api : \/ ApiStep(a) \/ LoseApi(a)
                    \/ \E decision \in {"yes", "no"} : Decide(a, decision)
  \/ \E w \in Workers : WorkerStep(w) \/ Expire(w) \/ LoseWorker(w) \/ Redeliver(w)
  \/ LockExpires \/ LockOutlasted
  \/ Quiet

\* Handlers and jobs that have begun go on, workers take messages, and the
\* lock of a lost worker expires.  Nothing makes a reviewer decide or beat find a task.
Fairness ==
  /\ \A a \in Api : WF_vars(ApiStep(a))
  /\ \A w \in Workers : WF_vars(WorkerStep(w))
  /\ WF_vars(LockExpires)

Spec == Init /\ [][Next]_vars
FairSpec == Spec /\ Fairness
-----------------------------------------------------------------------------
(* Properties.                                                             *)

\* The type invariant of the distributed mode.
TypeOK ==
  /\ row \in Task
  /\ \A p \in Api \union Workers : copy[p] = NoCopy \/ copy[p] \in Task
  /\ apc \in [Api -> {"idle", "enqueue", "queued", "resolve", "deny"}]
  /\ wpc \in [Workers -> Holding \union {"idle", "timeout", "deny"}]
  /\ queue \in Nat /\ plans \in Nat
  /\ lock \in Workers \union {Free}
  /\ decisions \in Seq({"yes", "no"} \X Nat)
  /\ claimed \in BOOLEAN /\ interrupted \in BOOLEAN
  /\ lapses \subseteq {"late emit", "stale copy"}
  /\ crashes \in Nat /\ redeliveries \in Nat /\ expiries \in Nat
  /\ crashes + redeliveries + expiries <= MaxFaults

\* At most one worker runs the task, unless a run outlasts the lock: "A
\* per-task Redis lock keeps redeliveries from running it twice"
\* (_execution_lock, execute_task).
ExclusiveWorker ==
  expiries = 0 =>
    \A v, w \in Workers : wpc[v] \in Running /\ wpc[w] \in Running => v = w

\* The plan that is worked on is one a reviewer approved (resolve_approval).
ApprovedPlanRuns ==
  \A w \in Workers : wpc[w] = "working" /\ copy[w].risk = "high" =>
    <<"yes", copy[w].plan>> \in ToSet(decisions)

\* No plan that needs approval is worked on unless some reviewer said yes to
\* some plan of the task, whatever copies were written over the row, and it is
\* that very plan unless a decision was served from a stale copy (_gate).
GateKept ==
  /\ "stale copy" \notin lapses => ApprovedPlanRuns
  /\ \A w \in Workers : wpc[w] = "working" /\ copy[w].risk = "high" =>
       \E d \in ToSet(decisions) : d[1] = "yes"

\* A task is denied only if a reviewer said no or its window expired.
DenialNeedsNo ==
  row.status = "denied" =>
    claimed \/ \E d \in ToSet(decisions) : d[1] = "no"

\* Until a fault or one of the lapses happens, an outcome or a decision on
\* record is never taken back, although every emit writes a whole copy over the
\* row (_emit, _request_approval).  One thing replaces an outcome: the memory
\* store raises after it is on record, and the task fails (_finish, _run).
RecordKept ==
  [][lapses' = {} /\ crashes + redeliveries + expiries = 0 =>
       /\ row.status \in Terminal =>
            \/ row'.status = row.status
            \/ row'.status = "failed" /\ \E w \in Workers : RememberFails(w)
       /\ row.decision # "none" => row'.decision = row.decision]_vars

\* Every message is dealt with and every worker let go: no job waits for the
\* lock, and none for a reviewer (execute_task, _gate).
Drains == <>[](queue = 0 /\ \A w \in Workers : wpc[w] = "idle")

\* A run that a lost worker left behind is taken up again (execute_task).
InterruptedResumes == interrupted ~> ~interrupted
=============================================================================
