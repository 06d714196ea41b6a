# A verification project for Atlas

Atlas runs a user's goal through a committee of model-backed agents: a planner
makes a list of steps, a safety agent scores their risk, a human approves what
is risky, worker agents execute the steps, a verifier judges the outcome and
may send the plan through one rework round. This directory holds TLA+ models of
the control plane that does this (`app/orchestrator.py` and what it drives),
the TLC configurations that check them, and proofs checked by TLAPS.

    tlasany M.tla                        parse a module
    tlc -workers 2 -config X.cfg M       run a configuration (table below)
    tlapm InProcessProofs.tla            check the proofs of a module (8 *Proofs modules)

## 1. Inventory

### Components, their state and their operations

| Part | State | Operations that change it |
|---|---|---|
| Orchestrator (`orchestrator.py`) | `tasks` (live copies), `_runners`, the place of every runner coroutine | `create_task`, `resolve_approval`, `resume_task`, `recover`, `expire_stale_approvals`, `shutdown`, `_run` with planning, gate, rounds, steps, retries, rework, outcome |
| Storage (`storage.py`) | tables tasks (one row per task: status, whole task as JSON, `updated_at`), events, episodic | `save_task_and_event` (one transaction), `decide_approval` and `expire_approval` (compare and update), `store_memory` |
| Celery application (`task_queue.py`) | broker queue, the per-task execution lock in Redis | `enqueue_task`, `execute_task`, `expire_approvals` (beat, each minute) |
| Event bus (`event_bus.py`) | subscriber queues, Redis subscriptions | `publish`, `subscribe`, `_listen_redis`, `unsubscribe` |
| HTTP API (`main.py`) | one generator per open event stream, the janitor task | the endpoints, `events`, `_approval_janitor`, `lifespan` |
| Risk (`risk.py`) | none | `heuristic_score`, `merge` |
| Memory (`memory.py`) | working notes per task (in the process), episodes (table and file) | `working_write`, `working_clear`, `episodic_store` |
| Rate limiter (`rate_limit.py`) | counters per identity and minute, in Redis or in each replica | `_check` |
| Model access (`llm.py`) | detected provider, last error, probe cache | `complete`, `complete_json`, `probe` |
| Code sandbox (`tools/code_exec.py`) | a child process and a container per call | `run_python`, `_communicate`, `force_remove` |
| Agents, web tool, auth, config, audit, observability, migrations, web client | none that the protocol depends on | see PROJECT.json, "components" |

### How they interact

* **In-process mode.** The API process holds one live object per task. The
  runner coroutine changes it and `_emit` writes all of it over the row after
  every event. The approval endpoint runs on the same event loop, so it acts
  only while the runner awaits; the janitor runs `expire_stale_approvals` in a
  thread, so it acts between any two instructions. After a restart `recover`
  reads the unfinished rows and starts runners for them.
* **Celery mode.** The task is created and approved by API replicas and run by
  worker processes, each with an `Orchestrator` and a copy of its own. Every
  emit writes the emitting process' copy over the row. Messages are
  acknowledged late; a per-task lock with a timeout of 3600 s keeps a second
  worker out, and a job that finds it taken returns.
* **Events.** After its transaction an event goes to the queues of its own
  process and through Redis Pub/Sub to the others; a stream sends a snapshot,
  then live events, and replays from the table after five silent seconds.
* **Around them.** Every limited request first passes the rate limiter of its
  replica; readiness requests share the probe cache of their process; the coder
  agent calls the sandbox, which shares nothing between calls; whoever closes a
  task stores an episode.

### What is hard

Whole-object writes of several copies over one row; a decision, a deadline and a
janitor that race; a process that stops between any two commits; a lock that
outlives or is outlived by its holder; a lossy, reordering Pub/Sub with a replay
that overlaps it; a counter in Redis that fails, answers late or expires; a time
limit that passes while a container is being created. PROJECT.json lists the hazards, each at its line, with the
properties that would catch it going wrong.

### What makes each part correct

* the gate: no risky work without the one accepted decision being a yes; at most
  one decision; a refusal is for ever;
* the runner: attempts are on record before the call; completed steps stay;
  completed means verified; an outcome stays one; every task gets an outcome;
* the workers: one at a time, running the plan that was approved; no message or
  worker is stuck;
* the streams: no event twice, none missed but what live delivery lost, and an end;
* risk: the deterministic floor holds, and one signal more never lowers the score;
* the committee: a run ends, and made-up output is never passed off as a live model's;
* the limiter: no more requests of a window than the limit and what replicas on
  their own add, and nobody refused within it; the probe: no answer older than the
  cache allows;
* the sandbox: success means the program ran to a good end, calls end, and leave
  nothing behind; the memory: recall returns the newest episodes of the tenant.

## 2. Modules

    TaskRecord <- Runner <- InProcess <- MCInProcess, InProcessProofs
                               |
                               +-- INSTANCE ApprovalGate (refinement)
    Celery <- MCCelery, CeleryProofs      FrontDoor <- MCFrontDoor, FrontDoorProofs
    Sandbox <- MCSandbox, SandboxProofs   Risk <- Committee <- MCCommittee, CommitteeProofs
    Chronology <- EventStream <- MCEventStream, EventStreamProofs
       |   \--- EpisodicMemory <- MCEpisodicMemory, EpisodicMemoryProofs
       +-- ChronologyProofs (extended by the two proof modules above)

**TaskRecord** is `models.py` as the control plane reads it, and the pure
functions the orchestrator applies to it. A plan is `NSteps` steps of which the
last is the verifier, as both branches of `planner.plan` make it. A decision is
none, yes or no; a risk is not assessed, low or high, high meaning
`requires_approval`. Outputs, prompts and messages are left out.

**Runner** is one run of one task: `_run` and everything it calls. `pc` names
where the coroutine is, `task` is the live object, `row` the committed payload.
An emit is two steps, since the janitor thread or a crash can come between:
`Emit` changes the live object and serialises it into `dump["runner"]`, `Flush`
is `save_task_and_event`. `pc` in `Awaiting` are the places that give control to
the event loop. Emits that would write an identical row right after each other
are one. An agent call (`Call`, then `CallReturns`, `CallRetries` or `CallFails`)
may take any time and end in any of the ways `_run_step` distinguishes; `rejected`
notes, as history, of which rounds the verifier made a rejection.
`RememberFails` is `episodic_store` raising: within the try block the task is
failed after all, within the handler the coroutine dies.

**InProcess** composes the runner with the reviewers (`Decide` is
`resolve_approval`, one step because it does not await), the janitor (`JanitorRead`
to `JanitorClose`: read, conditional update, timeout emit, deny, remember, close),
and the process (`Crash` anywhere; `Restart` is `recover` before the server accepts
requests). `fresh` stands for the comparison of `updated_at` in the conditional
update: it is set by the janitor's read and cleared by every write of the row.
`reworkLost` notes, as history, that the process stopped between rework.started and
the reset of the steps, recognised by the row it left behind (`RoundUnheard`).

**ApprovalGate** is the abstract specification of the gate in three variables:
is approval needed, what was decided, is the task being worked on. InProcess
implements it under the mapping `gate` (run `crashes`).

**Celery** is the distributed mode: per process a copy of the task (`copy`), per
replica the place of its handler (`apc`), per worker the place of its job
(`wpc`), the number of queued messages, the lock. A run is coarse (plan, gate,
work, outcome, memory), because the detail is in Runner; plans are numbered so that
"the plan that was approved" can be said. Planning or working may raise, which is
`Finish` with "failed". An outcome is on record before the episode is stored
(`Remember`); when the store raises, `RememberFails`, the handler of `_run` fails the
task over that outcome. Emits of one handler that follow each other and write the same
task are one step, as are the outcome and the episode of a replica and of the beat job:
an error of the memory store there leaves the handler and writes no row. `Decided` is the choice
`resolve_approval` makes between its own copy and the row. `LoseWorker`,
`LoseApi`, `Redeliver` and `LockOutlasted` (a run outlasts the lock's 3600 s) are
the faults; `LockExpires` is the lock of a lost worker. Two lapses need no fault
and are noted as history: the task.queued emit comes late (`Queued`), or a
replica decides from a copy of another plan than the row's (`Decide`).

**EventStream** is one client's stream of one task's events: emitters that
create, commit and publish; Redis that loses and reorders; a queue with a
maximum size; the generator of `events` with its snapshot, live and replay
branches. Emitters are in the serving process or elsewhere, and `owned` tells
whether the serving process runs the task itself, so that its live object is what
`get` returns, or a worker does and the row is read. `lost` notes what live
delivery will not bring the stream. Time is the number of events created, so timestamps are unique and
all processes share a clock; one time stands for an event's `ts` and the task's
`updated_at`, which `_emit` takes just before it. That a decision moves `updated_at`
ahead of its event is left out.

**Risk** is `heuristic_score` and `merge` over the set of signals found in the
text, with the weights and limits of the source. Which text matches which
pattern is not modelled.

**Committee** is what one run asks of the model and does with the answers:
`complete`, `complete_json`, the agents, and the two kinds of exception
`_run_step` and `_run` tell apart. `Take` is the strict retry of
`complete_json`, the contract the agent validates the answer with, and its tool;
`Accept` and `Raise` are what follows. A call of the demo provider does not await,
so `AskDemo` is one step; a live call is `AskLive`, then `LiveAnswers` or
`LiveFails`. `provider` is the global `_provider`, which `OtherFailed`, a failing
call of any other run in the process, may change while this run awaits. Where
the configuration matters (a live provider or none, LLM_FALLBACK_TO_DEMO or not) it is
chosen by `Init`. Whether a live answer parses is a choice. What the demo provider
answers is not: `Prompt` is the marker in each agent's prompt, `DemoTable` the branches
of `_demo` in their order with the fields each answers, `Contract` the fields the agent
validates, and `DemoReply` puts the three together. `_demo` looks in the whole prompt,
which quotes the goal, outputs and memory, so `named` holds the markers that those texts
name themselves. Persistence and approval, which are in Runner, are not repeated.

**FrontDoor** is what a request meets before the orchestrator: `dispatch`, `_check`
and `_redis_check` of every replica, with the counter of a window in Redis
(`Incr`, then `Expire` for the first; each may fail before or after Redis acted),
the local counter (`CountLocally`), and `probe` with its cache (`Ask`, `Answer`,
`Fill`) as `/api/ready` and `/api/health` use it. Time is a clock; a probe ends
within its HTTP timeout, a request to Redis has none and may take any time.

**Sandbox** is `run_python`: a child that is the interpreter or a docker client,
the time limit of `_communicate`, `force_remove`, and a cancelled caller. The
daemon and the program are outside `src/` and do what `docker run --rm` and
`docker rm --force` let them: a container is created and then started, one whose
client is killed runs on, and one may be created for a client that was killed.

**EpisodicMemory** is `episodic_store` and `episodic_recall` with `store_memory` and
`recall_memory`. A transaction sees its own row and what is committed (`Insert`),
and others may commit before it does (`Commit`); any step may fail.

**Chronology** is ORDER BY: the rows of a set in the order of their times, which
are sorted by counting how many are not newer. EventStream takes from it the replay
(oldest first, with its LIMIT) and EpisodicMemory recall and the deletion of old rows.

Definitions whose comment begins with "Mutant:" are not part of any model: each
is a plausible mistake in the definition that follows it, named in PROJECT.json
with the property it breaks, so that a property that could not fail would be
noticed. Variables marked "history" record what happened for the properties and
guard nothing, but for the bounds `crashes`, `redeliveries`, `connects` and the
number of decisions.

## 3. Runs

| Run | Module | Instance | Checks |
|---|---|---|---|
| `crashes` | MCInProcess | 3 steps, 1 retry, 2 crashes, memory may fail | TypeOK, OnlyApprovedWork, SingleWriter, CallsBounded, CompletedMeansVerified, NoWorkAfterOutcome, ReworkRuns, CompletedStays, OutcomeStays, OutcomeFollowed, ImplementsGate, Settles |
| `workers` | MCCelery | 2 replicas that both approve, 2 workers, 2 decisions, 1 fault of any kind | TypeOK, ExclusiveWorker, GateKept, DenialNeedsNo, RecordKept, Drains |
| `stream` | MCEventStream | an emitter here and one elsewhere, either mode, 3 events, 2 connections, queue and replay of size 1 | TypeOK, SentOnce, NothingMissed, StreamEnds |
| `committee` | MCCommittee | 2 plans with every agent, 1 retry, all 128 sets of signals, 6 agent scores, texts that name no marker or two | TypeOK, FailsVisibly, DemoServesAll, NoMixing, Ends, FloorKept, SignalNeverLowers |
| `sandbox` | MCSandbox | 2 calls, either backend, every kind of program, 1 cancelled | TypeOK, OkMeansRan, NothingLeft, CallsEnd |
| `front_door` | MCFrontDoor | 2 replicas, 3 requests, limit 1, 3 windows, 1 restart, the provider turns once | TypeOK, LimitKept, NeverShort, FreshAnswer |
| `memory` | MCEpisodicMemory | 2 writers, 2 tenants, 6 episodes, 2 kept | TypeOK, RecallIsNewest, RowsBounded |
| `retry_budget` | MCInProcess | 2 steps, 1 crash | BudgetKept is violated |
| `approval_overruled` | MCInProcess | 2 steps, no crash | ApprovalHonoured is violated |
| `stale_creator` | MCCelery | no fault, the creator approves | ApprovedPlanRuns is violated |
| `redelivery_dropped` | MCCelery | 1 lost worker | InterruptedResumes is violated |
| `stream_gap` | MCEventStream | one worker, 4 events, queue with room | LostIsReplayed is violated |

The last five show where the code and its documentation disagree (section 5).

**Bounds, and why they are enough.** Three steps give a completed, a current and
a pending step, of which one is the verifier; two would let every crash happen
at the first or the last step. One retry is a first, a repeated and a last
attempt across two rounds. Two crashes let a
recovery be interrupted by the next one. Two replicas and two workers are one of
each that acts and one that interferes; a third would only queue behind the lock.
One task is enough because tasks share no state but the limit of 500 rows. In
`workers` the two decisions a task can get (the first one overwritten by a stale
copy) both happen; the run also passes with one decision and two faults, which
share one bound so that either kind happens in every combination with the rest.
Three events are one to be lost, reordered or covered by the snapshot, an outcome and
an end, from either emitter; a queue and a replay of size 1 overflow at once. In
`committee` the two plans hold a step without a tool, both tools and the verifier,
one run is enough because others reach it only through the provider, and the scores
surround every limit of `merge`. The texts that name markers name one that comes before
those of both tools, and one that comes before only the coder's. In `front_door` a limit of one is exceeded by the
second request, the third meets another window or another replica, and the lifetime
of a counter ends within the clock's bound. In `memory` two episodes of a tenant are
kept of up to six, so that rows are deleted while both writers store. Sandbox calls
share nothing but the bound on cancellations.

**Fairness.** `InProcess`: the runner goes on (the event loop runs ready
coroutines and timers, and every awaited call of the agents has a timeout), a
janitor that has claimed a row goes on, a stopped process is restarted. Nothing
makes a reviewer decide, the janitor find the task, or the runner's deadline come
before a decision. `Celery`: handlers and jobs that have begun go on, a worker
takes queued messages, the lock of a lost worker expires. `EventStream`: only the
server serves; neither Redis nor emitters need ever act. `Sandbox`: a call goes on,
its time limit passes, `docker rm` returns; neither program nor daemon need do
anything. `Committee`: a call of a
model or a tool returns or times out (httpx, the client of Anthropic and the
sandbox have timeouts of their own) and the run goes on.

**What the runs say that tests hardly could.** `OutcomeStays` allows exactly one
way for an outcome to leave the row: a payload the janitor serialised before the
runner's last commit, which shows the task as waiting but already refused, and
which the janitor's own DENIED follows. `NoWorkAfterOutcome` adds that a crash
at that very moment still leads to no further agent call. `ImplementsGate` says
the same of the whole gate: a grant may be overruled while work has not begun,
a refusal never. `OutcomeFollowed` holds only without a crash and unless the memory
store raised, and says so. `GateKept` and `DenialNeedsNo` hold whatever copy is
written over the row, although `RecordKept` does not: it names what the record
depends on (no fault, no late emit, no stale copy), and the one step that replaces an
outcome all the same, a worker whose memory store raises (`RememberFails`); without
that exception TLC finds COMPLETED replaced by FAILED in a run without any fault.
`ReworkRuns` speaks of each round: two attempts of the verifier in one round do not
count for two, and of all crashes only the one between rework.started and the reset is
excepted. `DemoServesAll` compares three places of the code that nothing else compares,
the prompts, the branches of `_demo` and the contracts. `NothingMissed` needs no replay,
only that an event was not lost; that a lost one is replayed is `LostIsReplayed`,
which is violated. `StreamEnds` relies on the replay alone: `asyncio.run` in a
worker cancels the publication of the last events, so a Celery task's end is
normally replayed, never delivered live; it excepts an event emitted after the end,
which moves the replay past it. `LimitKept` puts a number on the "safe local
fallback": every replica that counted on its own, and every restart, adds a limit.
`NeverShort` holds although a request that Redis counted and did not answer is
counted again. `NothingLeft` has one exception, a container created after
`docker rm` found none. `NoMixing` holds because `_provider` only
ever goes from live to demo, although a live call that another run had begun
before may still succeed afterwards.

## 4. Proofs

`InProcessProofs` proves, for every plan length of at least 2, every number of
retries, every bound on crashes, and a memory that can or cannot fail:

* `TypeCorrect`: `Spec => []TypeOK`;
* `DecidedOnce`: `Spec => []SingleWriter`, at most one decision is accepted by
  `decide_approval` and `expire_approval` together;
* `WorkIsApproved`: `Spec => []OnlyApprovedWork`, an agent is only called for a
  low-risk plan, an auto-approved one, or after the one accepted decision was a
  yes.

The assumptions are the named ASSUMEs of TaskRecord, Runner and InProcess; TLC
evaluates them in the runs.

None of the three is inductive. That a second decision is impossible rests on
the row's decision never returning to none once it was set, which rests on what
*every* copy holds: the live object and the payloads serialised by either
thread. The inductive invariant `IInv` has these parts:

* `TypeOK`, and `PlacesOK`: what the runner's place says about the task (planned
  from the assessment on, assessed from the gate on, no longer waiting behind it)
  and that a stopped process has nothing but the row;
* `VersionsSound`: every version of a task (the row, the live object, a payload under
  way) is sound: one that waits for approval is planned, high-risk and not
  auto-approved, and one that holds a yes is matched by exactly one accepted
  decision, a yes, and by no claim of the janitor (`expire_approval`);
* `SingleWriter` itself;
* `DecisionKept`: a decision that was accepted is in the row and in every payload
  on its way there; the live object may lack it only between the janitor's claim
  and its timeout emit, or the runner's poll;
* `OpenRow`: while the row is open for a decision nothing under way would reopen
  it again, and a payload that opens it is the live object of a waiting runner;
* `JanitorOK`: the janitor writes only after it claimed the row;
* `WorkApproved`: behind the gate a task that needs a yes holds one.

The proof that a step preserves `IInv` goes by action, first lemmas about the
functions of TaskRecord, then the runner's actions, the reviewers', the
janitor's and the process'. `IInv` was checked with TLC before. The other proof
modules are laid out alike, and assume no more than the named ASSUMEs of their
component's modules.

The second part of `InProcessProofs` proves `ImplementsTheGate`, that every step of the
in-process mode is a step of ApprovalGate under the mapping `gate` or leaves it alone. The gate speaks of
the row while the runner acts on its live object, so `IInv` is not enough: `GInv` says
how far row, live object and payloads under way may differ in assessment and decision
(a payload carries what the live object holds; the row may lack an assessment that is
under way; the runner may have overruled a decision only on its way to `finish`).

The third part proves `CompletedIsVerified`
(`CompletedMeansVerified`), `OutcomeEndsWork` (`NoWorkAfterOutcome`), `WorkStays`
(`CompletedStays`) and `OutcomeIsFinal` (`OutcomeStays`), with `IInv`, `GInv` and a
third part, `OInv`. Until the janitor claims the row only the runner writes outcomes,
and `BehindInv` says that the row is at most one emit behind its live object, an emit
that may follow it (`Follows`). Once it has, several old payloads may be written in
any order, but none of them holds work: `EarnedInv` says of every version that
completed steps belong to a plan that may run, and a claimed plan may not
(`RefusedFacts`). `OInv` was checked with TLC before.

The fourth part proves `CallsAreBounded` (`CallsBounded`) with `CallInv`. The calls of a step are counted by history, while the
code keeps its attempts in three places that a crash sets back to the oldest of them.
`AttemptsInv`: a call was on record, in the row too, before it was made. `BudgetInv`:
whatever the loop of `_run_step` has spent in this round is within what the rounds and
lives of the process so far allow; the row may be one round behind its live object,
which is why it is stated for both. `CalledInv` says that after the first call the plan may run,
in every version, so that the janitor no longer interferes. `CallInv` was checked with
TLC before.

The fifth part proves `ReworkHappens` (`ReworkRuns`) with `HeardInv`, which says of row,
live object and payloads under way what a failing verdict they hold, or a round they have
left behind, owes to a rejection in that very round; where the row announces a round whose steps still stand as
completed, the runner is at the reset or the process has stopped there.

`CeleryProofs` proves for any replicas, workers, decisions and faults `TypeCorrect`,
`OneWorker` (`ExclusiveWorker`), `GateHolds` (`GateKept`) and `DenialHasReason`
(`DenialNeedsNo`). Emits write whichever copy their process has over the row, so
what holds of the row must hold of every copy: `Sound` says of a task, wherever it
is kept, what the history of decisions, claims and lapses justifies, and what a
worker's place says is said of its own copy. `LockInv` is the lock: a worker in
a run holds it until it expires. `RecordHolds` proves the action property
`RecordKept`, for which none of this is enough: that no emit takes back an outcome
or a decision holds because, until a fault or a lapse, nobody writes an old copy.
`CalmInv` says why: the task is in one hand, a message or one process (`OneHand`);
nobody has it when it waits for a decision, and only the worker that closes it when it
is over (`Resting`); who has read it has
the row as it is (`Current`); and before a decision no copy is behind but the planless
one of the creator (`Fresh`). `CalmInv` was checked with TLC on the instance of `workers`.

`SandboxProofs` proves for any calls and cancellations `TypeCorrect`, `SuccessRan`
(`OkMeansRan`) and `ReturnedLeavesNothing` (`NothingLeft`). `PairInv` says which
states of a child and of its container go together, `RemovalInv` what is left once
the removal was tried.

`CommitteeProofs` proves for every threshold, any plans, agent scores and retries
`TypeCorrect`, `NothingMadeUp` (`FailsVisibly`), `DemoServes` (`DemoServesAll`),
`NeverMixed` (`NoMixing`), `FloorHolds` (`FloorKept`) and `MoreIsNotLess`
(`SignalNeverLowers`). The recursive function of `HeuristicScore` is shown to equal
the chain of its seven steps (`ScoreIsChain`, an instance and not an induction:
the table has seven rows), each of which is monotone and raises the score to its
weight. `OriginOK` says where a run's answers can have come from, given what
`_provider` is and was. `DemoServes` rests on `MarkersFit`: the branch of the asker's own
marker answers what the asker validates, and no branch before it is taken but for a
marker that a text names.

`FrontDoorProofs` proves for any finite set of requests, any replicas, limits,
lifetimes and bounds `TypeCorrect`, `NobodyShort` (`NeverShort`) and
`AnswersAreFresh` (`FreshAnswer`). `CountInv`: no counter is ahead of
the requests it may have counted, and a request counted twice is counted by different
counters. `FreshInv`: what a probe under way and a cached answer may be wrong about.
`LimitHolds` (`LimitKept`) needs `LimitInv`. While its counter in Redis is sure to
live, Redis admits no more of a window than it counts (`RedisInv`). A replica's own
counter is lost by a restart, so `LocalInv` splits what replicas admitted on their own
into the requests they still count and a basis, admitted by replicas that were
restarted since, to which each restart adds at most the limit; the sum over
replicas is bounded by an injection into replicas x 1..Limit (`Shared`). The proof
assumes `KeyLife <= 2 * Window` (in the code 90 s and 60 s): a replica forgets its
counter of a window when it counts in the second one after, which is 2 * Window after
its start at the earliest, when every decision about it is late already. With a longer
`KeyLife` a replica could admit the limit twice in one window.

`ChronologyProofs` proves `SortedRows`: for every finite set of rows with different
times the sorted sequence holds every row once, at the place of its rank. Sorting by
counting makes this a fact about cardinalities, with no recursion and no fold; its
other lemmas are about sequences as sets of their elements, and about how many rows
are newer than one.

`EventStreamProofs` proves for any emitters, queue, replay limit and bounds
`TypeCorrect`, `NothingTwice` (`SentOnce`) and `AllCovered` (`NothingMissed`). `Timing`:
events in the table or still to be written are in the past and have times of their own.
`SnapInv`: a snapshot of the serving process' own task is not newer than the live object.
`CoverInv` is `NothingMissed` already from the moment the queue is subscribed, before
the stream is open, which is what makes it inductive.

`EpisodicMemoryProofs` proves for any finite set of writers (`IsFiniteSet(Writers)`,
which `RowsBounded` counts), any tenants and all bounds `TypeCorrect`,
`NewestRecalled` (`RecallIsNewest`) and `TableBounded` (`RowsBounded`). `NewestKept`:
the newest committed episodes of a tenant are in the table, and an open transaction
deletes none that will be among them, however many others commit before it does.
`AfterBounded` bounds the table not as it is but as it will be after any set of the open
transactions commits, in whatever order (`After`), since one that has not seen the others
deletes too little. `Sources`: what is in the table, in the file or to be deleted was committed.

With these, every invariant and every action property that the passing runs check is
a theorem. Only model-checked, not proved: liveness under fairness (Settles,
OutcomeFollowed, Drains, StreamEnds, Ends, CallsEnd), which is beyond the prover.

## 5. Where code and documentation disagree

Checked by a violation run each, with the counterexample in words:

* **A task's retry budget does not survive a crash** (`retry_budget`). The loop of
  `_run_step` starts at 1 whatever `attempts` says (orchestrator.py:248).
* **An accepted approval can be overruled** (`approval_overruled`). The runner's
  deadline overwrites a yes committed since its last poll (orchestrator.py:210).
* **The approved plan is not the plan that runs** (`stale_creator`) when the
  replica that created a Celery task also serves the approval: it writes its
  planless copy over the row (orchestrator.py:67) and the worker plans anew.
* **A lost worker's task is not resumed** (`redelivery_dropped`): the lock of the
  lost worker makes the redelivered job return (task_queue.py:40).
* **A lost event is not replayed** once a later one arrived (`stream_gap`,
  main.py:218).

Limits met while modelling that have no run of their own, but follow from the
same modules:

* Without their exceptions ReworkRuns and OutcomeFollowed are violated in
  `crashes`: a crash between rework.started and the reset fails the task without
  its rework round, one right after the outcome loses the episode and stream.end.
* A memory store that raises after COMPLETED or DENIED is on record turns the task into
  a failed one (orchestrator.py:178 within the try of `_run`; `RememberFails` in Runner
  and in Celery), so an outcome that was announced is replaced.
* Without its exception ExclusiveWorker is violated in `workers`: a run longer than
  3600 s shares its task with a redelivery.
* A container that the daemon creates after `docker rm --force` found none is left
  behind when the client was killed (code_exec.py:92; `missed` in `NothingLeft`);
  README.md:140 promises "Ephemeral container plus forced timeout cleanup". A
  cancelled call removes nothing at all, and `docker rm` has no time limit.
* When Redis fails, each replica admits the limit anew, and a request that Redis
  counted without answering is counted twice (rate_limit.py:46).
* A probe that began before another may overwrite its newer answer in the cache
  (llm.py:244), which `FreshAnswer` allows for with the duration of a probe.
* In Celery an outcome can be overwritten by the late task.queued event
  (`Queued` after `Finish`), and an approval sent before the pausing worker has
  released its lock is dropped (`Pause`, `Decide`, `Enqueue`, `Drop`, `Release`).
* With LLM_FALLBACK_TO_DEMO a task whose planning call fails is failed all the same,
  instead of going on with demo output: `_demo` has no answer for the planner's
  prompt, and `plan` asks `is_demo` only once (`DemoReply`; `DemoServesAll` excepts
  the planner). An agent fails likewise when the goal or an output names the marker of
  another agent that `_demo` looks for earlier, a task about this program for example.
* After a fallback the next live call of another run that succeeds clears
  `_last_error`, so the reason of the switch is forgotten (`OtherAnswered`).
* A replica lost between a committed approval and its enqueue leaves the task
  waiting: the janitor only claims undecided rows.

## 6. Not modelled, and the plan

Not modelled: texts; time in the task protocol, so that every timeout there may or
may not have expired; transactions on a task's row that fail; several tasks; a
second process in the in-process mode; two events with the same timestamp and clocks
that differ between hosts. Parts that are pure input and output (the web tool,
audit file, metrics, migrations, the web client, authentication) are listed with
their reasons in PROJECT.json.

Order of work, most important first; 1 to 8 are done:

1. TaskRecord, Runner, InProcess with ApprovalGate: the core, checked, its gate and
    its outcomes proved.
2. Celery: copies, messages, lock.
3. EventStream: live delivery and replay, in both modes.
4. Risk: score and level.
5. Committee: the model calls of a run, the strict retry of `complete_json`, the
   switch to the demo provider.
6. FrontDoor: rate limiter and readiness.
7. EpisodicMemory: the rows kept per tenant, recall and its file fallback.
8. Sandbox: the time limit and what it leaves behind.
9. Transactions that fail in Runner (`_emit` raising inside the try block of a step).
10. ApprovalSweep: several tasks, the limit of 500 rows in `recover` and the
    janitor; a second in-process replica.
11. Proofs for the modules of 9 and 10: that what is proved of the runner survives a
    failed transaction, and that tasks do not disturb each other.
