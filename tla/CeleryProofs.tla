---------------------------- MODULE CeleryProofs ----------------------------
(***************************************************************************)
(* Proofs about module Celery, for any replicas and workers and any number *)
(* of decisions and faults: its types, ExclusiveWorker, GateKept,          *)
(* DenialNeedsNo and RecordKept.                                           *)
(*                                                                         *)
(* Copies of the task are written over the row by whoever emits, so what   *)
(* holds of the row has to hold of every copy: Sound says it of a task,    *)
(* wherever it is kept.                                                    *)
(***************************************************************************)
EXTENDS Celery, TLAPS

Said(ds, word) == \E d \in ToSet(ds) : d[1] = word

\* What the history ds of decisions, cl of claims and la of lapses tells of a
\* task: its decision was taken, for its own plan unless from a stale copy.
SoundIn(t, ds, cl, la) ==
  /\ t \in Task
  /\ t.decision = "yes" => Said(ds, "yes")
  /\ t.decision = "no" \/ t.status = "denied" => cl \/ Said(ds, "no")
  /\ t.status = "awaiting_approval" => t.plan # 0
  /\ t.decision = "yes" /\ "stale copy" \notin la =>
       t.plan # 0 /\ <<"yes", t.plan>> \in ToSet(ds)

Sound(t) == SoundIn(t, decisions, claimed, lapses)

Processes == Api \union Workers

\* TypeOK, with copy as a function.
Typing == TypeOK /\ copy \in [Processes -> Task \union {NoCopy}]

Everywhere == Sound(row) /\ \A p \in Processes : copy[p] = NoCopy \/ Sound(copy[p])

\* A replica in a handler has a copy, and the decision it took is in it.
ApiInv(a) ==
  /\ apc[a] # "idle" => Sound(copy[a])
  /\ apc[a] = "resolve" => copy[a].decision # "none"
  /\ apc[a] = "deny" => claimed \/ Said(decisions, "no")

\* A worker in a run has a copy, planned or not as its place demands.
WorkerInv(w) ==
  /\ wpc[w] \in {"plan", "planning", "gate", "working", "remember", "timeout", "deny"} =>
       Sound(copy[w])
  /\ wpc[w] \in {"plan", "planning"} => copy[w].plan = 0
  /\ wpc[w] \in {"gate", "working"} => copy[w].plan # 0
  /\ wpc[w] = "working" /\ copy[w].risk = "high" => copy[w].decision = "yes"
  /\ wpc[w] \in {"timeout", "deny"} => claimed

LockInv == expiries = 0 => \A w \in Workers : wpc[w] \in Running => lock = w

IInv ==
  /\ Typing /\ Everywhere /\ LockInv
  /\ \A a \in Api : ApiInv(a)
  /\ \A w \in Workers : WorkerInv(w)

-----------------------------------------------------------------------------
\* ToSet of a sequence with one element more.
LEMMA ToSetAppend ==
  ASSUME NEW S, NEW s \in Seq(S), NEW x \in S
  PROVE  ToSet(Append(s, x)) = ToSet(s) \union {x}
<1>1. DOMAIN Append(s, x) = DOMAIN s \union {Len(s) + 1}
  OBVIOUS
<1>2. /\ \A i \in DOMAIN s : Append(s, x)[i] = s[i]
      /\ Append(s, x)[Len(s) + 1] = x
  OBVIOUS
<1>3. QED BY <1>1, <1>2 DEF ToSet

-----------------------------------------------------------------------------
(* The initial state, and what the kinds of steps keep: an emit of p makes   *)
(* one sound task the row and p's copy, Decide and Expire extend the         *)
(* history, the others move a message, the lock or a place.                  *)

\* Everything begins with one new task, in the row and with its creator.
LEMMA InitIInv == Init => IInv
<1> SUFFICES ASSUME Init PROVE IInv
  OBVIOUS
<1>1. NewTask \in Task
  BY DEF NewTask, Task, Status
<1>2. Typing
  <2>1. row \in Task /\ copy \in [Processes -> Task \union {NoCopy}]
    BY <1>1 DEF Init, Processes
  <2>2. decisions \in Seq({"yes", "no"} \X Nat)
    BY DEF Init
  <2>3. apc \in [Api -> {"idle", "enqueue", "queued", "resolve", "deny"}]
    BY DEF Init
  <2>4. wpc \in [Workers -> Holding \union {"idle", "timeout", "deny"}]
    BY DEF Init
  <2>5. crashes + redeliveries + expiries <= MaxFaults
    BY BoundsAssumption DEF Init
  <2>6. \A p \in Processes : copy[p] = NoCopy \/ copy[p] \in Task
    BY <2>1
  <2>7. QED BY <2>1, <2>2, <2>3, <2>4, <2>5, <2>6 DEF Init, Typing, TypeOK, Processes
<1>3. Sound(NewTask)
  BY <1>1 DEF Sound, SoundIn, NewTask
<1>4. Everywhere
  BY <1>3 DEF Init, Everywhere, Processes
<1>5. /\ \A a \in Api : ApiInv(a)
      /\ \A w \in Workers : WorkerInv(w)
      /\ LockInv
  BY <1>3, ProcessesAssumption DEF Init, ApiInv, WorkerInv, LockInv, Running, Processes
<1>6. QED BY <1>2, <1>4, <1>5 DEF IInv

\* An emit of a sound task keeps the tasks sound, if the history is kept.
LEMMA EmitKeeps ==
  ASSUME IInv, NEW p \in Processes, NEW t, Sound(t), Emit(p, t),
         UNCHANGED <<decisions, claimed, lapses>>
  PROVE  /\ Everywhere'
         /\ row' = t /\ copy' = [copy EXCEPT ![p] = t] /\ t \in Task
         /\ copy' \in [Processes -> Task \union {NoCopy}]
BY DEF IInv, Typing, Everywhere, Emit, Sound, SoundIn

\* The same of a step that leaves the tasks and the history as they are.
LEMMA TasksKept ==
  ASSUME IInv, UNCHANGED <<row, copy, decisions, claimed, lapses>>
  PROVE  Everywhere'
BY DEF IInv, Everywhere, Sound, SoundIn, Said, Processes

\* What the invariant says of the others when only replica a and its copy move.
LEMMA ApiFrame ==
  ASSUME IInv, NEW a \in Api, NEW place, NEW t,
         UNCHANGED <<wpc, decisions, claimed, lapses, lock, expiries>>,
         copy' = [copy EXCEPT ![a] = t], apc' = [apc EXCEPT ![a] = place],
         ApiInv(a)'
  PROVE  /\ \A b \in Api : ApiInv(b)'
         /\ \A w \in Workers : WorkerInv(w)'
         /\ LockInv'
BY ProcessesAssumption
   DEF IInv, Typing, TypeOK, Processes, ApiInv, WorkerInv, LockInv, Sound, Said

\* The same of worker w, whose copy becomes t.
LEMMA WorkerFrame ==
  ASSUME IInv, NEW w \in Workers, NEW place, NEW t,
         UNCHANGED <<apc, decisions, claimed, lapses>>,
         copy' = [copy EXCEPT ![w] = t], wpc' = [wpc EXCEPT ![w] = place],
         WorkerInv(w)'
  PROVE  /\ \A a \in Api : ApiInv(a)'
         /\ \A v \in Workers : WorkerInv(v)'
BY ProcessesAssumption
   DEF IInv, Typing, TypeOK, Processes, ApiInv, WorkerInv, Sound, Said

\* A worker that does not enter a run, and does not touch the lock, cannot
\* break what the lock promises.
LEMMA LockFrame ==
  ASSUME IInv, NEW w \in Workers, NEW place,
         UNCHANGED <<lock, expiries>>, wpc' = [wpc EXCEPT ![w] = place],
         place \in Running => wpc[w] \in Running
  PROVE  LockInv'
BY DEF IInv, Typing, TypeOK, LockInv

-----------------------------------------------------------------------------
(* The steps of the replicas.                                                *)

\* A replica's request handler keeps the invariant (ApiStep).
LEMMA ApiStepKeeps ==
  ASSUME IInv, NEW a \in Api, ApiStep(a)
  PROVE  IInv'
<1> USE DEF ApiGoto, history, faults
<1>a. a \in Processes /\ copy = [copy EXCEPT ![a] = copy[a]]
  BY DEF IInv, Typing, Processes
<1>1. CASE Enqueue(a)
  <2>1. Everywhere' BY <1>1, TasksKept DEF Enqueue
  <2>2. Typing'
    <3>1. apc' \in [Api -> {"idle", "enqueue", "queued", "resolve", "deny"}]
      BY <1>1 DEF Enqueue, IInv, Typing, TypeOK
    <3>2. queue \in Nat /\ queue' = queue + 1
      BY <1>1 DEF Enqueue, IInv, Typing, TypeOK
    <3>3. queue' \in Nat
      BY <3>2
    <3>4. QED BY <1>1, <3>1, <3>3 DEF Enqueue, IInv, Typing, TypeOK, Processes
  <2>3. ApiInv(a)' BY <1>1 DEF Enqueue, IInv, Typing, TypeOK, ApiInv, Sound, Said
  <2>4. QED BY <1>1, <1>a, <2>1, <2>2, <2>3, ApiFrame DEF Enqueue, IInv
<1>2. CASE EnqueueFails(a)
  <2> DEFINE t == [copy[a] EXCEPT !.status = "failed"]
  <2>1. Sound(t)
    BY <1>2 DEF EnqueueFails, IInv, ApiInv, Sound, SoundIn, Task, Status, Terminal
  <2>2. /\ Everywhere' /\ row' \in Task
        /\ copy' = [copy EXCEPT ![a] = t] /\ copy' \in [Processes -> Task \union {NoCopy}]
    BY <1>2, <1>a, <2>1, EmitKeeps DEF EnqueueFails
  <2>3. Typing' BY <1>2, <2>2 DEF EnqueueFails, IInv, Typing, TypeOK, Processes
  <2>4. ApiInv(a)' BY <1>2, <2>3 DEF EnqueueFails, IInv, Typing, TypeOK, ApiInv
  <2>5. QED BY <1>2, <2>2, <2>3, <2>4, ApiFrame DEF EnqueueFails, IInv
<1>3. CASE Queued(a)
  <2>1. lapses \subseteq lapses' /\ lapses' \subseteq {"late emit", "stale copy"}
    BY <1>3 DEF Queued, Note, IInv, Typing, TypeOK
  <2>2. "stale copy" \in lapses' <=> "stale copy" \in lapses
    BY <1>3 DEF Queued, Note
  <2>3. ASSUME NEW t, Sound(t) PROVE Sound(t)'
    BY <1>3, <2>2, <2>3 DEF Queued, Sound, SoundIn, Said
  <2>4. Sound(copy[a]) /\ copy[a] \in Task
    BY <1>3 DEF Queued, IInv, ApiInv, Sound, SoundIn
  <2>5. row' = copy[a] /\ copy' = copy
    BY <1>3, <1>a DEF Queued, Emit
  <2>6. Typing' BY <1>3, <2>1, <2>4, <2>5 DEF Queued, IInv, Typing, TypeOK
  <2>7. Everywhere' BY <2>3, <2>4, <2>5 DEF IInv, Everywhere, Sound
  <2>8. LockInv' BY <1>3 DEF Queued, IInv, LockInv
  <2>9. \A b \in Api : ApiInv(b)'
    BY <1>3, <2>3, <2>5 DEF Queued, IInv, Typing, TypeOK, ApiInv, Sound
  <2>10. \A w \in Workers : WorkerInv(w)'
    BY <1>3, <2>3, <2>5 DEF Queued, IInv, WorkerInv, Sound
  <2>11. QED BY <2>6, <2>7, <2>8, <2>9, <2>10 DEF IInv
<1>4. CASE Resolve(a)
  <2>1. Sound(copy[a]) /\ copy[a].decision # "none"
    BY <1>4 DEF Resolve, IInv, ApiInv
  <2>2. /\ Everywhere' /\ row' \in Task
        /\ copy' = [copy EXCEPT ![a] = copy[a]] /\ copy' \in [Processes -> Task \union {NoCopy}]
    BY <1>4, <1>a, <2>1, EmitKeeps DEF Resolve
  <2>3. Typing' BY <1>4, <2>2 DEF Resolve, IInv, Typing, TypeOK, Processes
  <2>4. ApiInv(a)'
    BY <1>4, <1>a, <2>1, <2>2 DEF Resolve, IInv, Typing, TypeOK, ApiInv, Sound, SoundIn, Task, Said
  <2>5. QED BY <1>4, <2>2, <2>3, <2>4, ApiFrame DEF Resolve, IInv
<1>5. CASE Deny(a)
  <2> DEFINE t == [copy[a] EXCEPT !.status = "denied"]
  <2>1. Sound(t)
    BY <1>5 DEF Deny, IInv, ApiInv, Sound, SoundIn, Task, Status, Terminal
  <2>2. /\ Everywhere' /\ row' \in Task
        /\ copy' = [copy EXCEPT ![a] = t] /\ copy' \in [Processes -> Task \union {NoCopy}]
    BY <1>5, <1>a, <2>1, EmitKeeps DEF Deny
  <2>3. Typing' BY <1>5, <2>2 DEF Deny, IInv, Typing, TypeOK, Processes
  <2>4. ApiInv(a)' BY <1>5, <2>3 DEF Deny, IInv, Typing, TypeOK, ApiInv
  <2>5. QED BY <1>5, <2>2, <2>3, <2>4, ApiFrame DEF Deny, IInv
<1>6. QED BY <1>1, <1>2, <1>3, <1>4, <1>5 DEF ApiStep

\* Losing a replica keeps it.
LEMMA LoseApiKeeps ==
  ASSUME IInv, NEW a \in Api, LoseApi(a)
  PROVE  IInv'
<1>1. copy' = [copy EXCEPT ![a] = NoCopy] /\ apc' = [apc EXCEPT ![a] = "idle"]
  BY DEF LoseApi, ApiGoto
<1>2. Typing'
  <2>1. /\ copy' \in [Processes -> Task \union {NoCopy}]
        /\ apc' \in [Api -> {"idle", "enqueue", "queued", "resolve", "deny"}]
    BY <1>1 DEF IInv, Typing, TypeOK
  <2>2. crashes' \in Nat /\ crashes' + redeliveries + expiries <= MaxFaults
    <3>1. /\ crashes' = crashes + 1
          /\ crashes + redeliveries + expiries < MaxFaults
          /\ crashes \in Nat /\ redeliveries \in Nat /\ expiries \in Nat
      BY DEF LoseApi, MoreFaults, IInv, Typing, TypeOK
    <3>2. QED BY <3>1, BoundsAssumption
  <2>3. QED BY <2>1, <2>2 DEF LoseApi, IInv, Typing, TypeOK, Processes, history
<1>3. Everywhere'
  BY <1>1 DEF LoseApi, IInv, Typing, Everywhere, Sound, history
<1>4. ApiInv(a)'
  BY <1>1, <1>2 DEF IInv, Typing, TypeOK, ApiInv
<1>5. QED BY <1>1, <1>2, <1>3, <1>4, ApiFrame DEF LoseApi, IInv, history

-----------------------------------------------------------------------------
(* The steps of the workers.                                                 *)

\* What a worker does with its message and the lock keeps the invariant.
LEMMA MessageKeeps ==
  ASSUME IInv, NEW w \in Workers,
         Receive(w) \/ Acquire(w) \/ Drop(w) \/ LoadFinished(w) \/ Release(w) \/ Ack(w)
  PROVE  IInv'
<1> USE DEF WorkerGoto, history, faults
<1>a. w \in Processes /\ copy = [copy EXCEPT ![w] = copy[w]]
  BY DEF IInv, Typing, Processes
<1>b. UNCHANGED <<row, copy, apc, decisions, claimed, lapses, plans, crashes, redeliveries, expiries>>
  BY DEF Receive, Acquire, Drop, LoadFinished, Release, Ack
<1>d. queue' \in Nat
  <2>1. queue \in Nat
    BY DEF IInv, Typing, TypeOK
  <2>2. queue' = queue \/ (queue > 0 /\ queue' = queue - 1)
    BY DEF Receive, Acquire, Drop, LoadFinished, Release, Ack
  <2>3. QED BY <2>1, <2>2
<1>e. interrupted' \in BOOLEAN
  BY DEF IInv, Typing, TypeOK, Receive, Acquire, Drop, LoadFinished, Release, Ack
<1>c. PICK place \in {"received", "locked", "release", "ack", "idle"} :
        /\ wpc' = [wpc EXCEPT ![w] = place]
        /\ place \in Running /\ wpc[w] \notin Running => lock = Free /\ lock' = w
        /\ lock' = lock \/ (lock = Free /\ lock' = w) \/ (lock = w /\ lock' = Free /\ place \notin Running)
  BY DEF Receive, Acquire, Drop, LoadFinished, Release, Ack, Running
<1>1. Everywhere'
  BY <1>b, TasksKept
<1>2. Typing'
  <2>1. wpc' \in [Workers -> Holding \union {"idle", "timeout", "deny"}]
    BY <1>c DEF IInv, Typing, TypeOK, Holding, Running
  <2>2. lock' \in Workers \union {Free}
    BY <1>c DEF IInv, Typing, TypeOK
  <2>3. QED BY <1>b, <1>d, <1>e, <2>1, <2>2 DEF IInv, Typing, TypeOK, Processes
<1>3. WorkerInv(w)'
  BY <1>c DEF IInv, Typing, TypeOK, WorkerInv
<1>4. LockInv'
  <2>1. SUFFICES ASSUME expiries = 0, NEW v \in Workers, wpc'[v] \in Running
                 PROVE  lock' = v
    BY <1>b DEF LockInv
  <2>2. /\ wpc[v] \in Running => lock = v
        /\ wpc'[v] = IF v = w THEN place ELSE wpc[v]
        /\ v # Free /\ w # Free
    BY <1>c, <2>1, ProcessesAssumption DEF IInv, Typing, TypeOK, LockInv
  <2>3. QED BY <1>c, <2>1, <2>2
<1>5. QED BY <1>a, <1>b, <1>c, <1>1, <1>2, <1>3, <1>4, WorkerFrame DEF IInv

\* Taking the row for its copy keeps it: what is sound there is sound here.
LEMMA LoadKeeps ==
  ASSUME IInv, NEW w \in Workers, Load(w)
  PROVE  IInv'
<1> USE DEF WorkerGoto, history, faults
<1>1. Sound(row) /\ row \in Task
  BY DEF IInv, Everywhere, Sound, SoundIn
<1>2. Everywhere'
  BY <1>1 DEF Load, IInv, Typing, Everywhere, Sound, SoundIn, Said, Processes
<1>3. Typing'
  BY <1>1 DEF Load, IInv, Typing, TypeOK, Processes, Holding, Running
<1>4. copy'[w] = row
  BY DEF Load, IInv, Typing, Processes
<1>5. WorkerInv(w)'
  BY <1>1, <1>4 DEF Load, IInv, Typing, TypeOK, WorkerInv, Sound, SoundIn, Said
<1>6. LockInv'
  BY LockFrame DEF Load, Running
<1>7. QED BY <1>2, <1>3, <1>5, <1>6, WorkerFrame DEF Load, IInv

\* A new plan keeps it: no decision has been taken for a task without a plan.
LEMMA PlanKeeps ==
  ASSUME IInv, NEW w \in Workers, NEW risk \in {"low", "high"}, Plan(w, risk)
  PROVE  IInv'
<1> USE DEF WorkerGoto, history, faults
<1> DEFINE t == [copy[w] EXCEPT !.status = "assessing_risk", !.plan = plans', !.risk = risk]
<1>a. w \in Processes /\ plans \in Nat
  BY DEF IInv, Typing, TypeOK, Processes
<1>b. plans' \in Nat /\ plans' # 0
  <2>1. plans' = plans + 1 BY DEF Plan
  <2>2. QED BY <1>a, <2>1
<1>1. Sound(copy[w]) /\ copy[w].plan = 0 /\ copy[w] \in Task
  BY DEF Plan, IInv, WorkerInv, Sound, SoundIn
<1>2. Sound(t) /\ t.plan # 0
  BY <1>b, <1>1 DEF Sound, SoundIn, Task, Status
<1>3. /\ Everywhere' /\ row' = t /\ t \in Task
      /\ copy' = [copy EXCEPT ![w] = t] /\ copy' \in [Processes -> Task \union {NoCopy}]
  BY <1>a, <1>2, EmitKeeps DEF Plan
<1>4. Typing'
  BY <1>b, <1>3 DEF Plan, IInv, Typing, TypeOK, Processes, Holding, Running
<1>5. copy'[w] = t
  BY <1>a, <1>3 DEF IInv, Typing
<1>6. Sound(copy[w])'
  BY <1>3, <1>5 DEF Everywhere, Sound, SoundIn, Said
<1>7. WorkerInv(w)'
  BY <1>2, <1>5, <1>6 DEF Plan, IInv, Typing, TypeOK, WorkerInv, Sound
<1>8. LockInv'
  BY LockFrame DEF Plan, Running
<1>9. QED BY <1>3, <1>4, <1>7, <1>8, WorkerFrame DEF Plan, IInv

\* The other emits of a worker keep it.
LEMMA WorkerEmitKeeps ==
  ASSUME IInv, NEW w \in Workers,
         \/ StartPlanning(w) \/ GateOpen(w) \/ GateRefused(w) \/ Pause(w)
         \/ \E status \in {"completed", "failed"} : Finish(w, status)
         \/ Remember(w) \/ RememberFails(w)
         \/ ExpireEmit(w) \/ ExpireDeny(w)
  PROVE  IInv'
<1> USE DEF WorkerGoto, history, faults
<1>a. w \in Processes
  BY DEF Processes
<1>1. CASE StartPlanning(w)
  <2> DEFINE t == [copy[w] EXCEPT !.status = "planning"]
  <2>1. Sound(t)
    BY <1>1 DEF StartPlanning, IInv, WorkerInv, Sound, SoundIn, Task, Status, Terminal
  <2>2. /\ Everywhere' /\ row' = t /\ t \in Task
        /\ copy' = [copy EXCEPT ![w] = t] /\ copy' \in [Processes -> Task \union {NoCopy}]
    BY <1>1, <1>a, <2>1, EmitKeeps DEF StartPlanning
  <2>3. Typing' BY <1>1, <2>2 DEF StartPlanning, IInv, Typing, TypeOK, Processes, Holding, Running
  <2>4. copy'[w] = t BY <1>a, <2>2 DEF IInv, Typing
  <2>5. Sound(copy[w])' BY <2>2, <2>4 DEF Everywhere, Sound, SoundIn, Said
  <2>6. WorkerInv(w)'
    BY <1>1, <2>4, <2>5 DEF StartPlanning, IInv, Typing, TypeOK, WorkerInv, Sound, SoundIn, Task
  <2>7. LockInv' BY <1>1, LockFrame DEF StartPlanning, Running
  <2>8. QED BY <1>1, <2>2, <2>3, <2>6, <2>7, WorkerFrame DEF StartPlanning, IInv
<1>2. CASE GateOpen(w)
  <2> DEFINE t == [copy[w] EXCEPT !.status = "running"]
  <2>1. Sound(t)
    BY <1>2 DEF GateOpen, IInv, WorkerInv, Sound, SoundIn, Task, Status, Terminal
  <2>2. /\ Everywhere' /\ row' = t /\ t \in Task
        /\ copy' = [copy EXCEPT ![w] = t] /\ copy' \in [Processes -> Task \union {NoCopy}]
    BY <1>2, <1>a, <2>1, EmitKeeps DEF GateOpen
  <2>3. Typing' BY <1>2, <2>2 DEF GateOpen, IInv, Typing, TypeOK, Processes, Holding, Running
  <2>4. copy'[w] = t BY <1>a, <2>2 DEF IInv, Typing
  <2>5. Sound(copy[w])' BY <2>2, <2>4 DEF Everywhere, Sound, SoundIn, Said
  <2>6. WorkerInv(w)'
    BY <1>2, <2>4, <2>5 DEF GateOpen, IInv, Typing, TypeOK, WorkerInv, Sound, SoundIn, Task
  <2>7. LockInv' BY <1>2, LockFrame DEF GateOpen, Running
  <2>8. QED BY <1>2, <2>2, <2>3, <2>6, <2>7, WorkerFrame DEF GateOpen, IInv
<1>3. CASE GateRefused(w)
  <2> DEFINE t == [copy[w] EXCEPT !.status = "denied"]
  <2>1. Sound(t)
    BY <1>3 DEF GateRefused, IInv, WorkerInv, Sound, SoundIn, Task, Status, Terminal
  <2>2. /\ Everywhere' /\ row' = t /\ t \in Task
        /\ copy' = [copy EXCEPT ![w] = t] /\ copy' \in [Processes -> Task \union {NoCopy}]
    BY <1>3, <1>a, <2>1, EmitKeeps DEF GateRefused
  <2>3. Typing' BY <1>3, <2>2 DEF GateRefused, IInv, Typing, TypeOK, Processes, Holding, Running
  <2>4. copy'[w] = t BY <1>a, <2>2 DEF IInv, Typing
  <2>5. Sound(copy[w])' BY <2>2, <2>4 DEF Everywhere, Sound, SoundIn, Said
  <2>6. WorkerInv(w)'
    BY <1>3, <2>4, <2>5 DEF GateRefused, IInv, Typing, TypeOK, WorkerInv, Sound, SoundIn, Task
  <2>7. LockInv' BY <1>3, LockFrame DEF GateRefused, Running
  <2>8. QED BY <1>3, <2>2, <2>3, <2>6, <2>7, WorkerFrame DEF GateRefused, IInv
<1>4. CASE Pause(w)
  <2> DEFINE t == [copy[w] EXCEPT !.status = "awaiting_approval", !.decision = "none"]
  <2>1. Sound(t)
    BY <1>4 DEF Pause, IInv, WorkerInv, Sound, SoundIn, Task, Status, Terminal
  <2>2. /\ Everywhere' /\ row' = t /\ t \in Task
        /\ copy' = [copy EXCEPT ![w] = t] /\ copy' \in [Processes -> Task \union {NoCopy}]
    BY <1>4, <1>a, <2>1, EmitKeeps DEF Pause
  <2>3. Typing' BY <1>4, <2>2 DEF Pause, IInv, Typing, TypeOK, Processes, Holding, Running
  <2>4. copy'[w] = t BY <1>a, <2>2 DEF IInv, Typing
  <2>5. Sound(copy[w])' BY <2>2, <2>4 DEF Everywhere, Sound, SoundIn, Said
  <2>6. WorkerInv(w)'
    BY <1>4, <2>4, <2>5 DEF Pause, IInv, Typing, TypeOK, WorkerInv, Sound, SoundIn, Task
  <2>7. LockInv' BY <1>4, LockFrame DEF Pause, Running
  <2>8. QED BY <1>4, <2>2, <2>3, <2>6, <2>7, WorkerFrame DEF Pause, IInv
<1>5. CASE ExpireEmit(w)
  <2> DEFINE t == copy[w]
  <2>1. Sound(t)
    BY <1>5 DEF ExpireEmit, IInv, WorkerInv, Sound, SoundIn, Task, Status, Terminal
  <2>2. /\ Everywhere' /\ row' = t /\ t \in Task
        /\ copy' = [copy EXCEPT ![w] = t] /\ copy' \in [Processes -> Task \union {NoCopy}]
    BY <1>5, <1>a, <2>1, EmitKeeps DEF ExpireEmit
  <2>3. Typing' BY <1>5, <2>2 DEF ExpireEmit, IInv, Typing, TypeOK, Processes, Holding, Running
  <2>4. copy'[w] = t BY <1>a, <2>2 DEF IInv, Typing
  <2>5. Sound(copy[w])' BY <2>2, <2>4 DEF Everywhere, Sound, SoundIn, Said
  <2>6. WorkerInv(w)'
    BY <1>5, <2>4, <2>5 DEF ExpireEmit, IInv, Typing, TypeOK, WorkerInv, Sound, SoundIn, Task
  <2>7. LockInv' BY <1>5, LockFrame DEF ExpireEmit, Running
  <2>8. QED BY <1>5, <2>2, <2>3, <2>6, <2>7, WorkerFrame DEF ExpireEmit, IInv
<1>6. CASE ExpireDeny(w)
  <2> DEFINE t == [copy[w] EXCEPT !.status = "denied"]
  <2>1. Sound(t)
    BY <1>6 DEF ExpireDeny, IInv, WorkerInv, Sound, SoundIn, Task, Status, Terminal
  <2>2. /\ Everywhere' /\ row' = t /\ t \in Task
        /\ copy' = [copy EXCEPT ![w] = t] /\ copy' \in [Processes -> Task \union {NoCopy}]
    BY <1>6, <1>a, <2>1, EmitKeeps DEF ExpireDeny
  <2>3. Typing' BY <1>6, <2>2 DEF ExpireDeny, IInv, Typing, TypeOK, Processes, Holding, Running
  <2>4. copy'[w] = t BY <1>a, <2>2 DEF IInv, Typing
  <2>5. Sound(copy[w])' BY <2>2, <2>4 DEF Everywhere, Sound, SoundIn, Said
  <2>6. WorkerInv(w)'
    BY <1>6, <2>4, <2>5 DEF ExpireDeny, IInv, Typing, TypeOK, WorkerInv, Sound, SoundIn, Task
  <2>7. LockInv' BY <1>6, LockFrame DEF ExpireDeny, Running
  <2>8. QED BY <1>6, <2>2, <2>3, <2>6, <2>7, WorkerFrame DEF ExpireDeny, IInv
<1>7. ASSUME NEW status \in {"completed", "failed"}, Finish(w, status) PROVE IInv'
  <2> DEFINE t == [copy[w] EXCEPT !.status = status]
  <2>1. Sound(t)
    BY <1>7 DEF Finish, IInv, WorkerInv, Sound, SoundIn, Task, Status, Terminal
  <2>2. /\ Everywhere' /\ row' = t /\ t \in Task
        /\ copy' = [copy EXCEPT ![w] = t] /\ copy' \in [Processes -> Task \union {NoCopy}]
    BY <1>7, <1>a, <2>1, EmitKeeps DEF Finish
  <2>3. Typing' BY <1>7, <2>2 DEF Finish, IInv, Typing, TypeOK, Processes, Holding, Running
  <2>4. copy'[w] = t BY <1>a, <2>2 DEF IInv, Typing
  <2>5. Sound(copy[w])' BY <2>2, <2>4 DEF Everywhere, Sound, SoundIn, Said
  <2>6. WorkerInv(w)'
    BY <1>7, <2>4, <2>5 DEF Finish, IInv, Typing, TypeOK, WorkerInv, Sound, SoundIn, Task
  <2>7. LockInv' BY <1>7, LockFrame DEF Finish, Running
  <2>8. QED BY <1>7, <2>2, <2>3, <2>6, <2>7, WorkerFrame DEF Finish, IInv
<1>8. CASE Remember(w)
  <2> DEFINE t == copy[w]
  <2>1. Sound(t)
    BY <1>8 DEF Remember, IInv, WorkerInv, Sound, SoundIn, Task, Status, Terminal
  <2>2. /\ Everywhere' /\ row' = t /\ t \in Task
        /\ copy' = [copy EXCEPT ![w] = t] /\ copy' \in [Processes -> Task \union {NoCopy}]
    BY <1>8, <1>a, <2>1, EmitKeeps DEF Remember
  <2>3. Typing' BY <1>8, <2>2 DEF Remember, IInv, Typing, TypeOK, Processes, Holding, Running
  <2>4. copy'[w] = t BY <1>a, <2>2 DEF IInv, Typing
  <2>5. Sound(copy[w])' BY <2>2, <2>4 DEF Everywhere, Sound, SoundIn, Said
  <2>6. WorkerInv(w)'
    BY <1>8, <2>4, <2>5 DEF Remember, IInv, Typing, TypeOK, WorkerInv, Sound, SoundIn, Task
  <2>7. LockInv' BY <1>8, LockFrame DEF Remember, Running
  <2>8. QED BY <1>8, <2>2, <2>3, <2>6, <2>7, WorkerFrame DEF Remember, IInv
<1>9. CASE RememberFails(w)
  <2>1. CASE copy[w].status # "failed"
    <3> DEFINE t == [copy[w] EXCEPT !.status = "failed"]
    <3>1. Sound(t)
      BY <1>9, <2>1 DEF RememberFails, IInv, WorkerInv, Sound, SoundIn, Task, Status, Terminal
    <3>2. /\ Everywhere' /\ row' = t /\ t \in Task
          /\ copy' = [copy EXCEPT ![w] = t] /\ copy' \in [Processes -> Task \union {NoCopy}]
      BY <1>9, <2>1, <1>a, <3>1, EmitKeeps DEF RememberFails
    <3>3. wpc' = wpc /\ wpc[w] = "remember" /\ UNCHANGED <<apc, queue, lock, plans, history, faults>>
      BY <1>9, <2>1 DEF RememberFails
    <3>4. Typing' BY <3>2, <3>3 DEF IInv, Typing, TypeOK, Processes
    <3>5. copy'[w] = t BY <1>a, <3>2 DEF IInv, Typing
    <3>6. Sound(copy[w])' BY <3>2, <3>5 DEF Everywhere, Sound, SoundIn, Said
    <3>7. WorkerInv(w)' BY <3>3, <3>6 DEF WorkerInv
    <3>8. LockInv' BY <3>3 DEF IInv, LockInv
    <3>9. wpc' = [wpc EXCEPT ![w] = "remember"] BY <3>3 DEF IInv, Typing, TypeOK
    <3>10. QED BY <3>2, <3>3, <3>4, <3>7, <3>8, <3>9, WorkerFrame DEF IInv
  <2>2. CASE copy[w].status = "failed"
    <3>1. /\ wpc' = [wpc EXCEPT ![w] = "release"] /\ wpc[w] = "remember"
          /\ UNCHANGED <<row, copy, apc, queue, lock, plans, history, faults>>
      BY <1>9, <2>2 DEF RememberFails
    <3>2. Everywhere' BY <3>1, TasksKept
    <3>3. Typing' BY <3>1 DEF IInv, Typing, TypeOK, Processes, Holding, Running
    <3>4. WorkerInv(w)' BY <3>1 DEF IInv, Typing, TypeOK, WorkerInv
    <3>5. LockInv' BY <3>1, LockFrame DEF Running
    <3>6. copy' = [copy EXCEPT ![w] = copy[w]] BY <1>a, <3>1 DEF IInv, Typing
    <3>7. QED BY <3>1, <3>2, <3>3, <3>4, <3>5, <3>6, WorkerFrame DEF IInv
  <2>3. QED BY <2>1, <2>2
<1>10. QED BY <1>1, <1>2, <1>3, <1>4, <1>5, <1>6, <1>7, <1>8, <1>9

-----------------------------------------------------------------------------
(* Decisions, faults, and the theorems.                                      *)

\* An accepted decision keeps the invariant: it enters the history with the
\* plan of the row, and the copy that is told it is the row's or is noted.
LEMMA DecideKeeps ==
  ASSUME IInv, NEW a \in Api, NEW d \in {"yes", "no"}, Decide(a, d)
  PROVE  IInv'
<1> USE DEF ApiGoto, faults
<1> DEFINE t == Decided(a, d)
<1>a. /\ a \in Processes /\ row \in Task /\ Sound(row) /\ row.plan \in Nat /\ row.plan # 0
      /\ copy[a] = NoCopy \/ (Sound(copy[a]) /\ copy[a] \in Task)
  BY DEF Decide, IInv, Typing, TypeOK, Everywhere, Processes, Sound, SoundIn, Task
<1>b. /\ decisions' = Append(decisions, <<d, row.plan>>)
      /\ ToSet(decisions') = ToSet(decisions) \union {<<d, row.plan>>}
      /\ decisions' \in Seq({"yes", "no"} \X Nat)
  <2>1. decisions \in Seq({"yes", "no"} \X Nat) /\ <<d, row.plan>> \in {"yes", "no"} \X Nat
    BY <1>a DEF IInv, Typing, TypeOK
  <2>2. decisions' = Append(decisions, <<d, row.plan>>)
    BY DEF Decide
  <2>3. decisions' \in Seq({"yes", "no"} \X Nat)
    BY <2>1, <2>2
  <2>4. ToSet(decisions') = ToSet(decisions) \union {<<d, row.plan>>}
    BY <2>1, <2>2, ToSetAppend
  <2>5. QED BY <2>2, <2>3, <2>4
<1>c. /\ lapses \subseteq lapses' /\ lapses' \subseteq {"late emit", "stale copy"}
      /\ t.plan # row.plan => "stale copy" \in lapses'
  BY DEF Decide, Note, IInv, Typing, TypeOK
<1>d. claimed' = claimed /\ claimed \in BOOLEAN
  BY DEF Decide, IInv, Typing, TypeOK
<1>e. ASSUME NEW u, Sound(u) PROVE SoundIn(u, decisions', claimed', lapses')
  BY <1>b, <1>c, <1>d, <1>e DEF Sound, SoundIn, Said
<1>f. Said(decisions', d) /\ (Said(decisions, "no") => Said(decisions', "no"))
  BY <1>b DEF Said
<1>1. row' \in Task /\ SoundIn(row', decisions', claimed', lapses')
  <2>1. row' = [row EXCEPT !.decision = d] /\ row.status = "awaiting_approval"
    BY DEF Decide
  <2>2. QED BY <1>a, <1>b, <1>f, <2>1 DEF SoundIn, Task
<1>2. t \in Task /\ SoundIn(t, decisions', claimed', lapses') /\ t.decision # "none"
  <2>1. CASE copy[a] = NoCopy
    <3>1. t = row'
      BY <2>1 DEF Decide, Decided
    <3>2. QED BY <1>1, <3>1, <1>a DEF Decide, Task
  <2>2. CASE copy[a] # NoCopy
    <3>1. t = [copy[a] EXCEPT !.decision = d]
      BY <2>2 DEF Decided
    <3>2. SoundIn(copy[a], decisions', claimed', lapses') /\ copy[a] \in Task
      BY <1>a, <1>e, <2>2
    <3>3. d = "yes" /\ "stale copy" \notin lapses' => t.plan = row.plan
      BY <1>c
    <3>4. QED BY <1>a, <1>b, <1>f, <3>1, <3>2, <3>3 DEF SoundIn, Task
  <2>3. QED BY <2>1, <2>2
<1>3. /\ copy' = [copy EXCEPT ![a] = t] /\ copy' \in [Processes -> Task \union {NoCopy}]
      /\ copy'[a] = t
      /\ \A p \in Processes \ {a} : copy'[p] = copy[p]
  BY <1>a, <1>2 DEF Decide, IInv, Typing
<1>4. Everywhere'
  BY <1>1, <1>2, <1>3, <1>e DEF IInv, Everywhere, Sound, Processes
<1>5. Typing'
  BY <1>1, <1>3, <1>b, <1>c DEF Decide, IInv, Typing, TypeOK, Processes
<1>6. ASSUME NEW b \in Api PROVE ApiInv(b)'
  <2>1. CASE b = a
    BY <1>2, <1>3, <2>1 DEF Decide, IInv, Typing, TypeOK, ApiInv, Sound
  <2>2. CASE b # a
    <3>1. copy'[b] = copy[b] /\ apc'[b] = apc[b]
      BY <1>3, <2>2 DEF Decide, Processes, IInv, Typing, TypeOK
    <3>2. ApiInv(b)
      BY DEF IInv
    <3>3. QED BY <1>d, <1>e, <1>f, <3>1, <3>2 DEF ApiInv, Sound
  <2>3. QED BY <2>1, <2>2
<1>7. ASSUME NEW w \in Workers PROVE WorkerInv(w)'
  <2>1. copy'[w] = copy[w] /\ wpc'[w] = wpc[w]
    BY <1>3, ProcessesAssumption DEF Decide, Processes
  <2>2. WorkerInv(w)
    BY DEF IInv
  <2>3. QED BY <1>d, <1>e, <2>1, <2>2 DEF WorkerInv, Sound
<1>8. LockInv'
  BY DEF Decide, IInv, LockInv
<1>9. QED BY <1>4, <1>5, <1>6, <1>7, <1>8 DEF IInv

\* The claim of the beat job keeps it.
LEMMA ExpireKeeps ==
  ASSUME IInv, NEW w \in Workers, Expire(w)
  PROVE  IInv'
<1> USE DEF WorkerGoto, faults
<1> DEFINE t == Decided(w, "no")
<1>a. /\ w \in Processes /\ row \in Task /\ Sound(row)
      /\ copy[w] = NoCopy \/ (Sound(copy[w]) /\ copy[w] \in Task)
  BY DEF IInv, Typing, TypeOK, Everywhere, Processes, Sound, SoundIn
<1>b. decisions' = decisions /\ lapses' = lapses /\ claimed' /\ claimed' \in BOOLEAN
  BY DEF Expire
<1>e. ASSUME NEW u, Sound(u) PROVE SoundIn(u, decisions', claimed', lapses')
  BY <1>b, <1>e DEF Sound, SoundIn
<1>1. row' \in Task /\ SoundIn(row', decisions', claimed', lapses')
  <2>1. row' = [row EXCEPT !.decision = "no"] /\ row.status = "awaiting_approval"
    BY DEF Expire
  <2>2. QED BY <1>a, <1>b, <2>1 DEF Sound, SoundIn, Task
<1>2. t \in Task /\ SoundIn(t, decisions', claimed', lapses')
  <2>1. CASE copy[w] = NoCopy
    BY <1>1, <2>1 DEF Expire, Decided
  <2>2. CASE copy[w] # NoCopy
    BY <1>a, <1>b, <2>2 DEF Decided, Sound, SoundIn, Task
  <2>3. QED BY <2>1, <2>2
<1>3. /\ copy' = [copy EXCEPT ![w] = t] /\ copy' \in [Processes -> Task \union {NoCopy}]
      /\ copy'[w] = t
      /\ \A p \in Processes \ {w} : copy'[p] = copy[p]
  BY <1>a, <1>2 DEF Expire, IInv, Typing
<1>4. Everywhere'
  BY <1>1, <1>2, <1>3, <1>e DEF IInv, Everywhere, Sound, Processes
<1>5. Typing'
  BY <1>1, <1>3, <1>b DEF Expire, IInv, Typing, TypeOK, Processes
<1>6. ASSUME NEW a \in Api PROVE ApiInv(a)'
  <2>1. copy'[a] = copy[a] /\ apc'[a] = apc[a]
    BY <1>3, ProcessesAssumption DEF Expire, Processes
  <2>2. ApiInv(a)
    BY DEF IInv
  <2>3. QED BY <1>b, <1>e, <2>1, <2>2 DEF ApiInv, Sound
<1>7. ASSUME NEW v \in Workers PROVE WorkerInv(v)'
  <2>1. CASE v = w
    BY <1>2, <1>3, <1>b, <2>1 DEF Expire, IInv, Typing, TypeOK, WorkerInv, Sound
  <2>2. CASE v # w
    <3>1. copy'[v] = copy[v] /\ wpc'[v] = wpc[v]
      BY <1>3, <2>2 DEF Expire, Processes, IInv, Typing, TypeOK
    <3>2. WorkerInv(v)
      BY DEF IInv
    <3>3. QED BY <1>b, <1>e, <3>1, <3>2 DEF WorkerInv, Sound
  <2>3. QED BY <2>1, <2>2
<1>8. LockInv'
  BY LockFrame DEF Expire, Running
<1>9. QED BY <1>4, <1>5, <1>6, <1>7, <1>8 DEF IInv

\* Losing a worker keeps it: its copy is gone, and its lock is just left.
LEMMA LoseWorkerKeeps ==
  ASSUME IInv, NEW w \in Workers, LoseWorker(w)
  PROVE  IInv'
<1>1. /\ copy' = [copy EXCEPT ![w] = NoCopy] /\ wpc' = [wpc EXCEPT ![w] = "idle"]
      /\ UNCHANGED <<row, apc, lock, plans, decisions, claimed, lapses, redeliveries, expiries>>
  BY DEF LoseWorker, WorkerGoto
<1>2. Typing'
  <2>1. /\ copy' \in [Processes -> Task \union {NoCopy}]
        /\ wpc' \in [Workers -> Holding \union {"idle", "timeout", "deny"}]
    BY <1>1 DEF IInv, Typing, TypeOK
  <2>2. crashes' \in Nat /\ crashes' + redeliveries + expiries <= MaxFaults
    <3>1. /\ crashes' = crashes + 1
          /\ crashes + redeliveries + expiries < MaxFaults
          /\ crashes \in Nat /\ redeliveries \in Nat /\ expiries \in Nat
      BY DEF LoseWorker, MoreFaults, IInv, Typing, TypeOK
    <3>2. QED BY <3>1, BoundsAssumption
  <2>3. queue' \in Nat
    <3>1. queue \in Nat /\ (queue' = queue \/ queue' = queue + 1)
      BY DEF LoseWorker, IInv, Typing, TypeOK
    <3>2. QED BY <3>1
  <2>4. interrupted' \in BOOLEAN
    BY DEF LoseWorker, IInv, Typing, TypeOK
  <2>5. QED BY <1>1, <2>1, <2>2, <2>3, <2>4 DEF IInv, Typing, TypeOK, Processes
<1>3. Everywhere'
  BY <1>1 DEF IInv, Typing, Everywhere, Sound, SoundIn, Said, Processes
<1>4. WorkerInv(w)'
  BY <1>1 DEF IInv, Typing, TypeOK, WorkerInv
<1>5. LockInv'
  BY <1>1, LockFrame DEF Running
<1>6. QED BY <1>1, <1>2, <1>3, <1>4, <1>5, WorkerFrame DEF IInv

\* Redelivery and the end of a lock keep it, and so does doing nothing.
LEMMA OtherKeeps ==
  ASSUME IInv, \/ \E w \in Workers : Redeliver(w)
               \/ LockExpires \/ LockOutlasted \/ Quiet \/ UNCHANGED vars
  PROVE  IInv'
<1>1. UNCHANGED <<row, copy, apc, wpc, plans, history, crashes>>
  BY DEF Redeliver, LockExpires, LockOutlasted, Quiet, vars, history, faults
<1>2. Everywhere'
  BY <1>1, TasksKept DEF history
<1>3. /\ \A a \in Api : ApiInv(a)'
      /\ \A w \in Workers : WorkerInv(w)'
  BY <1>1 DEF IInv, ApiInv, WorkerInv, Sound, SoundIn, Said, history
<1>4. LockInv'
  <2>1. CASE UNCHANGED <<lock, expiries>>
    BY <1>1, <2>1 DEF IInv, LockInv
  <2>2. CASE LockExpires
    BY <2>2, ProcessesAssumption DEF LockExpires, IInv, LockInv, faults
  <2>3. CASE LockOutlasted
    <3>1. expiries \in Nat /\ expiries' = expiries + 1
      BY <2>3 DEF LockOutlasted, IInv, Typing, TypeOK
    <3>2. expiries' # 0
      BY <3>1
    <3>3. QED BY <3>2 DEF LockInv
  <2>4. QED BY <2>1, <2>2, <2>3 DEF Redeliver, Quiet, vars, faults
<1>5. Typing'
  <2>1. /\ queue \in Nat /\ crashes \in Nat /\ redeliveries \in Nat /\ expiries \in Nat
        /\ crashes + redeliveries + expiries <= MaxFaults
    BY DEF IInv, Typing, TypeOK
  <2>2. \/ UNCHANGED <<redeliveries, expiries>> /\ queue' = queue
        \/ /\ crashes + redeliveries + expiries < MaxFaults
           /\ \/ redeliveries' = redeliveries + 1 /\ expiries' = expiries /\ queue' = queue + 1
              \/ redeliveries' = redeliveries /\ expiries' = expiries + 1 /\ queue' = queue
    BY DEF Redeliver, LockExpires, LockOutlasted, Quiet, vars, faults, MoreFaults
  <2>3. /\ queue' \in Nat /\ redeliveries' \in Nat /\ expiries' \in Nat
        /\ crashes + redeliveries' + expiries' <= MaxFaults
    BY <2>1, <2>2, BoundsAssumption
  <2>4. lock' \in Workers \union {Free}
    BY DEF Redeliver, LockExpires, LockOutlasted, Quiet, vars, IInv, Typing, TypeOK
  <2>5. QED BY <1>1, <2>3, <2>4 DEF IInv, Typing, TypeOK, Processes, history
<1>6. QED BY <1>2, <1>3, <1>4, <1>5 DEF IInv

\* The invariant is inductive.
LEMMA NextIInv == IInv /\ [Next]_vars => IInv'
<1> SUFFICES ASSUME IInv, [Next]_vars PROVE IInv'
  OBVIOUS
<1>1. ASSUME NEW a \in Api,
             ApiStep(a) \/ LoseApi(a) \/ \E d \in {"yes", "no"} : Decide(a, d)
      PROVE  IInv'
  BY <1>1, ApiStepKeeps, LoseApiKeeps, DecideKeeps
<1>2. ASSUME NEW w \in Workers, WorkerStep(w) PROVE IInv'
  BY <1>2, MessageKeeps, LoadKeeps, PlanKeeps, WorkerEmitKeeps DEF WorkerStep
<1>3. ASSUME NEW w \in Workers, Expire(w) \/ LoseWorker(w) PROVE IInv'
  BY <1>3, ExpireKeeps, LoseWorkerKeeps
<1>4. QED BY <1>1, <1>2, <1>3, OtherKeeps DEF Next

LEMMA SpecIInv == Spec => []IInv
BY InitIInv, NextIInv, PTL DEF Spec

\* The variables of the distributed mode keep their types.
THEOREM TypeCorrect == Spec => []TypeOK
<1>1. IInv => TypeOK BY DEF IInv, Typing
<1>2. QED BY <1>1, SpecIInv, PTL

\* One worker at a time runs the task while no run outlasts its lock: a worker
\* in a run holds the lock (execute_task).
THEOREM OneWorker == Spec => []ExclusiveWorker
<1>1. IInv => ExclusiveWorker
  BY DEF IInv, LockInv, ExclusiveWorker
<1>2. QED BY <1>1, SpecIInv, PTL

\* What needs approval is worked on only after a yes, and it is the approved
\* plan unless a decision was served from a stale copy (_gate).
THEOREM GateHolds == Spec => []GateKept
<1>1. IInv => GateKept
  BY DEF IInv, WorkerInv, Sound, SoundIn, Said, GateKept, ApprovedPlanRuns
<1>2. QED BY <1>1, SpecIInv, PTL

\* A denied task was refused, or its approval expired (_deny).
THEOREM DenialHasReason == Spec => []DenialNeedsNo
<1>1. IInv => DenialNeedsNo
  BY DEF IInv, Everywhere, Sound, SoundIn, Said, DenialNeedsNo
<1>2. QED BY <1>1, SpecIInv, PTL

-----------------------------------------------------------------------------
(***************************************************************************)
(* The record: RecordKept.  As long as nothing was lost, redelivered or    *)
(* written late, the task is in one hand: a message or one process may     *)
(* still write it, nobody when it waits for a decision, and when it is     *)
(* over only the worker whose memory of the outcome is still to be stored. *)
(* Who has it writes over the row only what the row already says, but for  *)
(* the failure of that memory.                                             *)
(***************************************************************************)

Faultless == crashes + redeliveries + expiries = 0
Calm == lapses = {} /\ Faultless

\* The processes that have the task, and those of them that have not read it yet.
Unread == {w \in Workers : wpc[w] \in {"received", "locked"}}
ReadingPlaces == {"plan", "planning", "gate", "working", "remember", "timeout", "deny"}
Reading == {w \in Workers : wpc[w] \in ReadingPlaces}
\* Of those that have read it: whose run has come to an outcome.
Closing == {w \in Workers : wpc[w] = "remember"}
Serving == {a \in Api : apc[a] \in {"enqueue", "resolve", "deny"}}
Holders == Unread \union Reading \union Serving

Waits(t) == t.status = "awaiting_approval" /\ t.decision = "none"

\* The task is in one hand.
OneHand ==
  /\ queue <= 1
  /\ \A p, q \in Holders : p = q
  /\ queue = 0 \/ Holders = {}

\* Nobody has a task that waits for a decision, and one that is over only who
\* is about to store what it came to.
Resting ==
  /\ Waits(row) => queue = 0 /\ Holders = {}
  /\ row.status \in Terminal => queue = 0 /\ \A p \in Holders : p \in Closing

\* Who has read the task has the row as it is.
Current == \A p \in Reading \union Serving : copy[p] = row

\* Until a decision is made no copy is behind but the creator's, which has no
\* plan yet, and only the worker that has the task has one.
Fresh ==
  row.decision = "none" =>
    /\ \A a \in Api : copy[a] = NoCopy \/ copy[a].plan = 0
    /\ Serving # {} => row.plan = 0
    /\ \A w \in Workers : copy[w] = NoCopy \/ copy[w] = row
    /\ \A w \in Workers : queue > 0 => copy[w] = NoCopy
    /\ \A w \in Workers, p \in Holders : copy[w] = NoCopy \/ (w = p /\ w \in Reading)

CalmInv == OneHand /\ Resting /\ Current /\ Fresh

AtRest(t) == t.status \in Terminal \/ Waits(t)

\* What RecordKept says of one step.
Keeps ==
  /\ row.status \in Terminal =>
       \/ row'.status = row.status
       \/ row'.status = "failed" /\ \E w \in Workers : RememberFails(w)
  /\ row.decision # "none" => row'.decision = row.decision

\* Who holds the task after worker w has moved, and after replica a has.
LEMMA WorkerMoves ==
  ASSUME IInv, NEW w \in Workers, NEW place, wpc' = [wpc EXCEPT ![w] = place],
         UNCHANGED apc
  PROVE  /\ Serving' = Serving
         /\ Unread' = IF place \in {"received", "locked"} THEN Unread \union {w}
                                                          ELSE Unread \ {w}
         /\ Reading' = IF place \in ReadingPlaces THEN Reading \union {w} ELSE Reading \ {w}
         /\ Closing' = IF place = "remember" THEN Closing \union {w} ELSE Closing \ {w}
         /\ w \notin Serving
<1>1. wpc'[w] = place /\ \A v \in Workers : v # w => wpc'[v] = wpc[v]
  BY DEF IInv, Typing, TypeOK
<1>2. Unread' = IF place \in {"received", "locked"} THEN Unread \union {w}
                                                    ELSE Unread \ {w}
  BY <1>1 DEF Unread
<1>3. Reading' = IF place \in ReadingPlaces THEN Reading \union {w} ELSE Reading \ {w}
  BY <1>1 DEF Reading, ReadingPlaces
<1>4. Closing' = IF place = "remember" THEN Closing \union {w} ELSE Closing \ {w}
  BY <1>1 DEF Closing
<1>5. Serving' = Serving /\ w \notin Serving
  BY ProcessesAssumption DEF Serving
<1> QED BY <1>2, <1>3, <1>4, <1>5

LEMMA ReplicaMoves ==
  ASSUME IInv, NEW a \in Api, NEW place, apc' = [apc EXCEPT ![a] = place],
         UNCHANGED wpc
  PROVE  /\ Unread' = Unread /\ Reading' = Reading /\ Closing' = Closing
         /\ Serving' = IF place \in {"enqueue", "resolve", "deny"}
                       THEN Serving \union {a} ELSE Serving \ {a}
         /\ a \notin Unread /\ a \notin Reading
<1>1. apc'[a] = place /\ \A b \in Api : b # a => apc'[b] = apc[b]
  BY DEF IInv, Typing, TypeOK
<1>2. Serving' = IF place \in {"enqueue", "resolve", "deny"}
                 THEN Serving \union {a} ELSE Serving \ {a}
  BY <1>1 DEF Serving
<1>3. /\ Unread' = Unread /\ Reading' = Reading /\ Closing' = Closing
      /\ a \notin Unread /\ a \notin Reading
  BY ProcessesAssumption DEF Unread, Reading, Closing
<1> QED BY <1>2, <1>3

\* Three kinds of holders, and what they are.
LEMMA HoldersAre ==
  /\ Unread \subseteq Workers /\ Reading \subseteq Workers /\ Serving \subseteq Api
  /\ Unread \intersect Reading = {} /\ Closing \subseteq Reading
  /\ Holders \subseteq Processes
  /\ Api \intersect Workers = {}
BY ProcessesAssumption DEF Unread, Reading, ReadingPlaces, Closing, Serving, Holders, Processes

\* An emit of the worker that has the task.
LEMMA WorkerWrites ==
  ASSUME IInv, CalmInv, NEW w \in Reading, NEW t, Emit(w, t), NEW place,
         wpc' = [wpc EXCEPT ![w] = place], UNCHANGED <<apc, queue>>,
         place \notin {"received", "locked"},
         t.decision = row.decision,
         t.status \in Terminal => place \in {"idle", "release", "remember"},
         Waits(t) => place \notin ReadingPlaces,
         w \in Closing => t = row \/ (t.status = "failed" /\ RememberFails(w))
  PROVE  CalmInv' /\ Keeps
<1>1. /\ w \in Workers /\ w \in Processes /\ w \in Holders
      /\ Holders = {w} /\ Reading = {w} /\ Unread = {} /\ Serving = {} /\ queue = 0
  BY HoldersAre DEF CalmInv, OneHand, Holders, Processes
<1>2. w \notin Closing => row.status \notin Terminal
  BY <1>1 DEF CalmInv, Resting
<1>3. /\ row' = t /\ copy'[w] = t
      /\ \A p \in Processes : p # w => copy'[p] = copy[p]
  BY <1>1 DEF Emit, IInv, Typing
<1>4. /\ Serving' = {} /\ Unread' = {} /\ Reading' \subseteq {w}
      /\ Reading' = {w} <=> place \in ReadingPlaces
      /\ place = "remember" => w \in Closing'
      /\ Holders' = Reading'
  <2>1. Serving' = {} /\ Unread' = {}
    BY <1>1, WorkerMoves
  <2>2. Reading' = IF place \in ReadingPlaces THEN {w} ELSE {}
    <3>1. Reading' = IF place \in ReadingPlaces THEN Reading \union {w} ELSE Reading \ {w}
      BY <1>1, WorkerMoves
    <3> QED BY <1>1, <3>1
  <2>3. place = "remember" => w \in Closing'
    BY <1>1, WorkerMoves
  <2> QED BY <2>1, <2>2, <2>3 DEF Holders
<1>5. OneHand'
  BY <1>1, <1>4 DEF OneHand
<1>6. Resting'
  <2>1. Waits(row') => Holders' = {}
    BY <1>3, <1>4
  <2>2. row'.status \in Terminal => \A p \in Holders' : p \in Closing'
    BY <1>3, <1>4 DEF ReadingPlaces
  <2> QED BY <1>1, <2>1, <2>2 DEF Resting, Waits, Terminal
<1>7. Current'
  BY <1>3, <1>4 DEF Current
<1>8. Fresh'
  <2> SUFFICES ASSUME t.decision = "none"
               PROVE  /\ \A a \in Api : copy'[a] = NoCopy \/ copy'[a].plan = 0
                      /\ \A v \in Workers : copy'[v] = NoCopy \/ v = w
    BY <1>1, <1>3, <1>4 DEF Fresh
  <2>1. /\ \A a \in Api : copy[a] = NoCopy \/ copy[a].plan = 0
        /\ \A v \in Workers : copy[v] = NoCopy \/ v = w
    BY <1>1 DEF CalmInv, Fresh
  <2>2. \A a \in Api : a # w /\ a \in Processes
    BY <1>1, HoldersAre DEF Processes
  <2> QED BY <1>3, <2>1, <2>2 DEF Processes
<1>9. Keeps
  BY <1>1, <1>2, <1>3 DEF Keeps
<1> QED BY <1>5, <1>6, <1>7, <1>8, <1>9 DEF CalmInv

\* One of the replica that has it.
LEMMA ReplicaWrites ==
  ASSUME IInv, CalmInv, NEW a \in Serving, NEW t, Emit(a, t), NEW place,
         apc' = [apc EXCEPT ![a] = place], UNCHANGED <<wpc, queue>>,
         t.decision = row.decision, t.plan = row.plan,
         AtRest(t) => place \notin {"enqueue", "resolve", "deny"} \/ t = row
  PROVE  CalmInv' /\ Keeps
<1>1. /\ a \in Api /\ a \in Processes /\ a \in Holders
      /\ Holders = {a} /\ Reading = {} /\ Unread = {} /\ Serving = {a} /\ queue = 0
  BY HoldersAre DEF CalmInv, OneHand, Holders, Processes
<1>2. ~AtRest(row) /\ copy[a] = row
  <2>1. a \notin Closing
    BY <1>1, HoldersAre
  <2> QED BY <1>1, <2>1 DEF CalmInv, Resting, AtRest, Current
<1>3. /\ row' = t /\ copy'[a] = t
      /\ \A p \in Processes : p # a => copy'[p] = copy[p]
  BY <1>1 DEF Emit, IInv, Typing
<1>4. /\ Reading' = {} /\ Unread' = {} /\ Serving' \subseteq {a}
      /\ Serving' = {a} <=> place \in {"enqueue", "resolve", "deny"}
      /\ Holders' = Serving'
  BY <1>1, ReplicaMoves DEF Holders
<1>5. OneHand'
  BY <1>1, <1>4 DEF OneHand
<1>6. Resting'
  <2> SUFFICES ASSUME AtRest(t) PROVE Holders' = {}
    BY <1>1, <1>3 DEF Resting, AtRest, Waits, Terminal
  <2>1. place \notin {"enqueue", "resolve", "deny"}
    BY <1>2
  <2> QED BY <1>4, <2>1
<1>7. Current'
  BY <1>3, <1>4 DEF Current
<1>8. Fresh'
  <2> SUFFICES ASSUME t.decision = "none"
               PROVE  /\ \A b \in Api : copy'[b] = NoCopy \/ copy'[b].plan = 0
                      /\ \A v \in Workers : copy'[v] = NoCopy
    <3>1. t.decision = "none" => t.plan = 0
      BY <1>1 DEF CalmInv, Fresh
    <3> QED BY <1>1, <1>3, <1>4, <3>1 DEF Fresh
  <2>1. /\ \A b \in Api : copy[b] = NoCopy \/ copy[b].plan = 0
        /\ \A v \in Workers : copy[v] = NoCopy \/ v = a
    BY <1>1 DEF CalmInv, Fresh
  <2>2. \A v \in Workers : v # a /\ v \in Processes
    BY <1>1, HoldersAre DEF Processes
  <2>3. \A v \in Workers : copy'[v] = NoCopy
    BY <1>3, <2>1, <2>2
  <2>4. t.plan = 0
    BY <1>1 DEF CalmInv, Fresh
  <2> QED BY <1>1, <1>3, <2>1, <2>3, <2>4 DEF Processes
<1>9. Keeps
  BY <1>2, <1>3 DEF Keeps, AtRest
<1> QED BY <1>5, <1>6, <1>7, <1>8, <1>9 DEF CalmInv

\* A worker that has, or now has, nothing to do with the task any more.
LEMMA WorkerLetsGo ==
  ASSUME IInv, CalmInv, NEW w \in Workers, NEW place \in {"idle", "release", "ack"},
         wpc' = [wpc EXCEPT ![w] = place], UNCHANGED <<row, copy, apc, queue>>
  PROVE  CalmInv' /\ Keeps
<1>1. /\ Unread' = Unread \ {w} /\ Reading' = Reading \ {w} /\ Serving' = Serving
      /\ Closing' = Closing \ {w} /\ w \notin Serving
  BY WorkerMoves DEF ReadingPlaces
<1>2. Holders' = Holders \ {w}
  BY <1>1 DEF Holders
<1>3. OneHand' /\ Resting' /\ Current'
  BY <1>1, <1>2 DEF CalmInv, OneHand, Resting, Current, Waits
<1>4. Fresh'
  BY <1>1, <1>2 DEF CalmInv, Fresh
<1>5. Keeps
  BY DEF Keeps
<1> QED BY <1>3, <1>4, <1>5 DEF CalmInv

\* The emits of a worker: all but Remember and ExpireEmit change what the task says.
LEMMA WorkerEmits ==
  ASSUME IInv, CalmInv, NEW w \in Workers,
         \/ StartPlanning(w) \/ GateOpen(w) \/ GateRefused(w) \/ Pause(w)
         \/ \E risk \in {"low", "high"} : Plan(w, risk)
         \/ \E status \in {"completed", "failed"} : Finish(w, status)
         \/ Remember(w) \/ ExpireEmit(w) \/ ExpireDeny(w)
  PROVE  CalmInv' /\ Keeps
<1> USE DEF WorkerGoto, ReadingPlaces
<1>1. w \in Reading /\ copy[w] = row /\ copy[w] \in Task
  <2>1. w \in Reading
    BY DEF StartPlanning, GateOpen, GateRefused, Pause, Plan, Finish, Remember,
           ExpireEmit, ExpireDeny, Reading
  <2>2. row \in Task
    BY DEF IInv, Typing, TypeOK
  <2> QED BY <2>1, <2>2 DEF CalmInv, Current
<1>2. ASSUME NEW status
      PROVE  [copy[w] EXCEPT !.status = status].status = status
             /\ [copy[w] EXCEPT !.status = status].decision = row.decision
  BY <1>1 DEF Task
<1>3. ~Waits(row) /\ (w \notin Closing => row.status \notin Terminal)
  BY <1>1 DEF CalmInv, Resting, Holders
<1>4. CASE StartPlanning(w)
  <2> DEFINE t == [copy[w] EXCEPT !.status = "planning"]
  <2>1. Emit(w, t) /\ wpc' = [wpc EXCEPT ![w] = "planning"] /\ UNCHANGED <<apc, queue>>
        /\ w \notin Closing
    BY <1>4 DEF StartPlanning, Closing
  <2>2. t.decision = row.decision /\ t.status = "planning"
    BY <1>2
  <2> HIDE DEF t
  <2>3. QED BY <1>1, <2>1, <2>2, WorkerWrites DEF Waits, Terminal
<1>5. CASE GateOpen(w)
  <2> DEFINE t == [copy[w] EXCEPT !.status = "running"]
  <2>1. Emit(w, t) /\ wpc' = [wpc EXCEPT ![w] = "working"] /\ UNCHANGED <<apc, queue>>
        /\ w \notin Closing
    BY <1>5 DEF GateOpen, Closing
  <2>2. t.decision = row.decision /\ t.status = "running"
    BY <1>2
  <2> HIDE DEF t
  <2>3. QED BY <1>1, <2>1, <2>2, WorkerWrites DEF Waits, Terminal
<1>6. CASE GateRefused(w)
  <2> DEFINE t == [copy[w] EXCEPT !.status = "denied"]
  <2>1. Emit(w, t) /\ wpc' = [wpc EXCEPT ![w] = "remember"] /\ UNCHANGED <<apc, queue>>
        /\ w \notin Closing
    BY <1>6 DEF GateRefused, Closing
  <2>2. t.decision = row.decision /\ t.status = "denied"
    BY <1>2
  <2> HIDE DEF t
  <2>3. QED BY <1>1, <2>1, <2>2, WorkerWrites DEF Waits, Terminal
<1>7. CASE Pause(w)
  <2> DEFINE t == [copy[w] EXCEPT !.status = "awaiting_approval", !.decision = "none"]
  <2>1. Emit(w, t) /\ wpc' = [wpc EXCEPT ![w] = "release"] /\ UNCHANGED <<apc, queue>>
        /\ w \notin Closing
    BY <1>7 DEF Pause, Closing
  <2>2. t.decision = row.decision /\ t.status = "awaiting_approval"
    <3>1. copy[w].decision = "none"
      BY <1>7 DEF Pause
    <3>2. t.decision = "none" /\ t.status = "awaiting_approval"
      BY <1>1 DEF Task
    <3> QED BY <1>1, <3>1, <3>2
  <2> HIDE DEF t
  <2>3. QED BY <1>1, <2>1, <2>2, WorkerWrites DEF Waits, Terminal
<1>8. ASSUME NEW risk \in {"low", "high"}, Plan(w, risk) PROVE CalmInv' /\ Keeps
  <2> DEFINE t == [copy[w] EXCEPT !.status = "assessing_risk", !.plan = plans', !.risk = risk]
  <2>1. Emit(w, t) /\ wpc' = [wpc EXCEPT ![w] = "gate"] /\ UNCHANGED <<apc, queue>>
        /\ w \notin Closing
    BY <1>8 DEF Plan, Closing
  <2>2. t.status = "assessing_risk" /\ t.decision = row.decision
    BY <1>1 DEF Task
  <2> HIDE DEF t
  <2>3. QED BY <1>1, <2>1, <2>2, WorkerWrites DEF Waits, Terminal
<1>9. ASSUME NEW status \in {"completed", "failed"}, Finish(w, status)
      PROVE  CalmInv' /\ Keeps
  <2> DEFINE t == [copy[w] EXCEPT !.status = status]
  <2>1. Emit(w, t) /\ wpc' = [wpc EXCEPT ![w] = "remember"] /\ UNCHANGED <<apc, queue>>
        /\ w \notin Closing
    BY <1>9 DEF Finish, Closing
  <2>2. t.decision = row.decision /\ t.status = status
    BY <1>2
  <2> HIDE DEF t
  <2>3. QED BY <1>1, <1>9, <2>1, <2>2, WorkerWrites DEF Waits, Terminal
<1>10. CASE Remember(w)
  <2>1. Emit(w, row) /\ wpc' = [wpc EXCEPT ![w] = "release"] /\ UNCHANGED <<apc, queue>>
    BY <1>1, <1>10 DEF Remember
  <2>2. QED BY <1>1, <1>3, <2>1, WorkerWrites
<1>11. CASE ExpireEmit(w)
  <2>1. Emit(w, row) /\ wpc' = [wpc EXCEPT ![w] = "deny"] /\ UNCHANGED <<apc, queue>>
        /\ w \notin Closing
    BY <1>1, <1>11 DEF ExpireEmit, Closing
  <2>2. QED BY <1>1, <1>3, <2>1, WorkerWrites
<1>12. CASE ExpireDeny(w)
  <2> DEFINE t == [copy[w] EXCEPT !.status = "denied"]
  <2>1. Emit(w, t) /\ wpc' = [wpc EXCEPT ![w] = "idle"] /\ UNCHANGED <<apc, queue>>
        /\ w \notin Closing
    BY <1>12 DEF ExpireDeny, Closing
  <2>2. t.decision = row.decision /\ t.status = "denied"
    BY <1>2
  <2> HIDE DEF t
  <2>3. QED BY <1>1, <2>1, <2>2, WorkerWrites DEF Waits, Terminal
<1> QED BY <1>4, <1>5, <1>6, <1>7, <1>8, <1>9, <1>10, <1>11, <1>12

\* The memory store raises: the one emit that replaces an outcome, or none.
LEMMA WorkerForgets ==
  ASSUME IInv, CalmInv, NEW w \in Workers, RememberFails(w)
  PROVE  CalmInv' /\ Keeps
<1>1. /\ w \in Reading /\ w \in Closing /\ w \in Processes
      /\ copy[w] = row /\ copy[w] \in Task
  <2>1. w \in Reading /\ w \in Closing /\ w \in Processes
    BY DEF RememberFails, Reading, ReadingPlaces, Closing, Processes
  <2>2. row \in Task
    BY DEF IInv, Typing, TypeOK
  <2> QED BY <2>1, <2>2 DEF CalmInv, Current
<1>2. CASE copy[w].status # "failed"
  <2> DEFINE t == [copy[w] EXCEPT !.status = "failed"]
  <2>1. Emit(w, t) /\ UNCHANGED <<apc, wpc, queue>> /\ wpc[w] = "remember"
    BY <1>2 DEF RememberFails
  <2>2. wpc' = [wpc EXCEPT ![w] = "remember"]
    BY <2>1 DEF IInv, Typing, TypeOK
  <2>3. t.decision = row.decision /\ t.status = "failed"
    BY <1>1 DEF Task
  <2> HIDE DEF t
  <2>4. QED BY <1>1, <2>1, <2>2, <2>3, WorkerWrites DEF Waits, Terminal
<1>3. CASE copy[w].status = "failed"
  <2>1. UNCHANGED <<row, copy, apc, queue>> /\ wpc' = [wpc EXCEPT ![w] = "release"]
    BY <1>3 DEF RememberFails, WorkerGoto
  <2>2. QED BY <2>1, WorkerLetsGo
<1> QED BY <1>2, <1>3

\* The emits of a replica.
LEMMA ReplicaEmits ==
  ASSUME IInv, CalmInv, NEW a \in Api, EnqueueFails(a) \/ Resolve(a) \/ Deny(a)
  PROVE  CalmInv' /\ Keeps
<1> USE DEF ApiGoto
<1>1. a \in Serving /\ copy[a] = row /\ row \in Task
  <2>1. a \in Serving
    BY DEF EnqueueFails, Resolve, Deny, Serving
  <2>2. row \in Task
    BY DEF IInv, Typing, TypeOK
  <2> QED BY <2>1, <2>2 DEF CalmInv, Current
<1>2. ASSUME NEW status
      PROVE  LET t == [copy[a] EXCEPT !.status = status]
             IN t.decision = row.decision /\ t.plan = row.plan
  BY <1>1 DEF Task
<1>3. CASE EnqueueFails(a) \/ Deny(a)
  <2> DEFINE t == [copy[a] EXCEPT !.status = IF EnqueueFails(a) THEN "failed" ELSE "denied"]
  <2>1. Emit(a, t) /\ apc' = [apc EXCEPT ![a] = "idle"] /\ UNCHANGED <<wpc, queue>>
    BY <1>3 DEF EnqueueFails, Deny
  <2>2. t.decision = row.decision /\ t.plan = row.plan
    BY <1>2
  <2> HIDE DEF t
  <2> QED BY <1>1, <2>1, <2>2, ReplicaWrites
<1>4. CASE Resolve(a)
  <2> DEFINE place == IF copy[a].decision = "yes" THEN "enqueue" ELSE "deny"
  <2>1. Emit(a, row) /\ apc' = [apc EXCEPT ![a] = place] /\ UNCHANGED <<wpc, queue>>
    BY <1>1, <1>4 DEF Resolve
  <2> HIDE DEF place
  <2> QED BY <1>1, <2>1, ReplicaWrites
<1> QED BY <1>3, <1>4

\* A worker that takes the message, gets the lock or lets go of the task.
LEMMA WorkerPasses ==
  ASSUME IInv, CalmInv, NEW w \in Workers,
         \/ Receive(w) \/ Acquire(w) \/ Drop(w) \/ LoadFinished(w) \/ Release(w) \/ Ack(w)
  PROVE  CalmInv' /\ Keeps
<1>1. UNCHANGED <<row, copy, apc>> /\ row \in Task /\ queue \in Nat
  BY DEF Receive, Acquire, Drop, LoadFinished, Release, Ack, IInv, Typing, TypeOK
<1>2. Keeps
  BY <1>1 DEF Keeps
<1>3. CASE Receive(w)
  <2>1. /\ queue = 1 /\ queue' = 0 /\ Holders = {}
        /\ wpc' = [wpc EXCEPT ![w] = "received"]
    BY <1>1, <1>3 DEF Receive, WorkerGoto, CalmInv, OneHand
  <2>2. Unread' = {w} /\ Reading' = {} /\ Serving' = {} /\ Holders' = {w}
    <3>1. Serving' = Serving /\ Unread' = Unread \union {w} /\ Reading' = Reading \ {w}
      BY <1>1, <2>1, WorkerMoves DEF ReadingPlaces
    <3> QED BY <2>1, <3>1 DEF Holders
  <2>3. OneHand' /\ Current'
    BY <2>1, <2>2 DEF OneHand, Current
  <2>4. Resting'
    BY <1>1, <2>1 DEF CalmInv, Resting, Waits, Terminal
  <2>5. Fresh'
    BY <1>1, <2>1, <2>2 DEF CalmInv, Fresh
  <2> QED BY <1>2, <2>3, <2>4, <2>5 DEF CalmInv
<1>4. CASE Acquire(w)
  <2>1. w \in Unread /\ UNCHANGED queue /\ wpc' = [wpc EXCEPT ![w] = "locked"]
    BY <1>4 DEF Acquire, WorkerGoto, Unread
  <2>2. /\ Unread' = Unread /\ Reading' = Reading /\ Serving' = Serving
        /\ Holders' = Holders /\ Closing' = Closing
    <3>1. /\ Serving' = Serving /\ Unread' = Unread \union {w} /\ Reading' = Reading \ {w}
          /\ Closing' = Closing \ {w}
      BY <1>1, <2>1, WorkerMoves DEF ReadingPlaces
    <3> QED BY <2>1, <3>1, HoldersAre DEF Holders
  <2>3. CalmInv'
    BY <1>1, <2>1, <2>2 DEF CalmInv, OneHand, Resting, Current, Fresh
  <2> QED BY <1>2, <2>3
<1>5. CASE Drop(w) \/ LoadFinished(w) \/ Release(w) \/ Ack(w)
  <2>1. PICK place \in {"idle", "release", "ack"} :
          UNCHANGED queue /\ wpc' = [wpc EXCEPT ![w] = place]
    BY <1>5 DEF Drop, LoadFinished, Release, Ack, WorkerGoto
  <2>2. QED BY <1>1, <2>1, WorkerLetsGo
<1> QED BY <1>3, <1>4, <1>5

\* A worker reads the task.
LEMMA WorkerReads ==
  ASSUME IInv, CalmInv, NEW w \in Workers, Load(w)
  PROVE  CalmInv' /\ Keeps
<1>1. /\ w \in Unread /\ UNCHANGED <<row, apc, queue>>
      /\ copy' = [copy EXCEPT ![w] = row]
  BY DEF Load, Unread
<1>2. PICK place \in {"plan", "gate"} : wpc' = [wpc EXCEPT ![w] = place]
  BY DEF Load, WorkerGoto
<1>3. /\ Holders = {w} /\ Reading = {} /\ Unread = {w} /\ Serving = {} /\ queue = 0
      /\ w \in Processes /\ w \notin Closing
  BY <1>1, HoldersAre DEF CalmInv, OneHand, Holders, Processes
<1>4. /\ copy'[w] = row /\ \A p \in Processes : p # w => copy'[p] = copy[p]
  BY <1>1, <1>3 DEF IInv, Typing
<1>5. Unread' = {} /\ Reading' = {w} /\ Serving' = {} /\ Holders' = {w}
  <2>1. /\ Serving' = Serving /\ Unread' = Unread \ {w} /\ Reading' = Reading \union {w}
    BY <1>1, <1>2, WorkerMoves DEF ReadingPlaces
  <2> QED BY <1>3, <2>1 DEF Holders
<1>6. OneHand' /\ Current'
  BY <1>1, <1>3, <1>4, <1>5 DEF OneHand, Current
<1>7. Resting'
  BY <1>1, <1>3 DEF CalmInv, Resting, Waits, Terminal
<1>8. Fresh'
  <2>1. \A a \in Api : a # w /\ a \in Processes
    BY HoldersAre DEF Processes
  <2>2. \A v \in Workers : v # w => copy'[v] = copy[v]
    BY <1>4 DEF Processes
  <2> SUFFICES ASSUME row.decision = "none"
               PROVE  /\ \A a \in Api : copy'[a] = NoCopy \/ copy'[a].plan = 0
                      /\ \A v \in Workers : copy'[v] = NoCopy \/ v = w
    BY <1>1, <1>3, <1>4, <1>5 DEF Fresh
  <2>3. \A v \in Workers : copy[v] = NoCopy
    BY <1>1, <1>3 DEF CalmInv, Fresh
  <2>4. \A a \in Api : copy[a] = NoCopy \/ copy[a].plan = 0
    BY DEF CalmInv, Fresh
  <2> QED BY <1>4, <2>1, <2>2, <2>3, <2>4
<1>9. Keeps
  BY <1>1 DEF Keeps
<1> QED BY <1>6, <1>7, <1>8, <1>9 DEF CalmInv

\* A replica hands the task to the broker.
LEMMA ReplicaEnqueues ==
  ASSUME IInv, CalmInv, NEW a \in Api, Enqueue(a)
  PROVE  CalmInv' /\ Keeps
<1>1. /\ a \in Serving /\ UNCHANGED <<row, copy, wpc>> /\ queue' = queue + 1
      /\ apc' = [apc EXCEPT ![a] = "queued"]
  BY DEF Enqueue, ApiGoto, Serving
<1>2. /\ Holders = {a} /\ Serving = {a} /\ Reading = {} /\ Unread = {} /\ queue = 0
      /\ a \notin Closing
  BY <1>1, HoldersAre DEF CalmInv, OneHand, Holders
<1>3. Unread' = {} /\ Reading' = {} /\ Serving' = {} /\ Holders' = {} /\ queue' = 1
  <2>1. Unread' = Unread /\ Reading' = Reading /\ Serving' = Serving \ {a}
    BY <1>1, ReplicaMoves
  <2> QED BY <1>1, <1>2, <2>1 DEF Holders
<1>4. OneHand' /\ Current'
  BY <1>3 DEF OneHand, Current
<1>5. Resting'
  BY <1>1, <1>2 DEF CalmInv, Resting, Waits, Terminal
<1>6. Fresh'
  <2>1. a \notin Workers
    BY HoldersAre
  <2> QED BY <1>1, <1>2, <1>3, <2>1 DEF CalmInv, Fresh
<1>7. Keeps
  BY <1>1 DEF Keeps
<1> QED BY <1>4, <1>5, <1>6, <1>7 DEF CalmInv

\* The task.queued emit, if nothing has happened to the task since.
LEMMA ReplicaQueued ==
  ASSUME IInv, CalmInv, NEW a \in Api, Queued(a), lapses' = {}
  PROVE  CalmInv' /\ Keeps
<1>1. /\ apc[a] = "queued" /\ Emit(a, copy[a]) /\ UNCHANGED <<wpc, queue>>
      /\ apc' = [apc EXCEPT ![a] = "idle"] /\ row = copy[a]
  BY DEF Queued, Note, ApiGoto
<1>2. UNCHANGED <<row, copy>>
  BY <1>1 DEF Emit, IInv, Typing
<1>3. Unread' = Unread /\ Reading' = Reading /\ Serving' = Serving /\ Holders' = Holders
      /\ Closing' = Closing
  <2>1. Unread' = Unread /\ Reading' = Reading /\ Closing' = Closing /\ Serving' = Serving \ {a}
    BY <1>1, ReplicaMoves
  <2>2. a \notin Serving
    BY <1>1 DEF Serving
  <2> QED BY <2>1, <2>2 DEF Holders
<1>4. CalmInv'
  BY <1>1, <1>2, <1>3 DEF CalmInv, OneHand, Resting, Current, Fresh
<1> QED BY <1>2, <1>4 DEF Keeps

\* A reviewer decides: not from the creator's copy, which has no plan.
LEMMA ReplicaDecides ==
  ASSUME IInv, CalmInv, NEW a \in Api, NEW d \in {"yes", "no"}, Decide(a, d), lapses' = {}
  PROVE  CalmInv' /\ Keeps
<1>1. /\ row.status = "awaiting_approval" /\ row.decision = "none"
      /\ row' = [row EXCEPT !.decision = d]
      /\ copy' = [copy EXCEPT ![a] = Decided(a, d)]
      /\ apc' = [apc EXCEPT ![a] = "resolve"] /\ UNCHANGED <<wpc, queue>>
      /\ Decided(a, d).plan = row.plan
  BY DEF Decide, ApiGoto, Note
<1>2. /\ row \in Task /\ row.plan # 0 /\ a \in Processes
      /\ copy[a] \in Task \union {NoCopy}
  BY <1>1 DEF IInv, Typing, TypeOK, Everywhere, Sound, SoundIn, Processes
<1>3. queue = 0 /\ Holders = {}
  BY <1>1 DEF CalmInv, Resting, Waits
<1>4. copy[a] = NoCopy
  <2> SUFFICES ASSUME copy[a] # NoCopy PROVE FALSE
    OBVIOUS
  <2>1. copy[a].plan = 0 /\ copy[a] \in Task
    BY <1>1, <1>2 DEF CalmInv, Fresh
  <2>2. Decided(a, d).plan = 0
    BY <2>1 DEF Decided, Task
  <2> QED BY <1>1, <1>2, <2>2
<1>5. copy'[a] = row' /\ row'.decision = d /\ row'.status = row.status
  BY <1>1, <1>2, <1>4 DEF Decided, IInv, Typing, Task
<1>6. Unread' = {} /\ Reading' = {} /\ Serving' = {a} /\ Holders' = {a}
  <2>1. Unread' = Unread /\ Reading' = Reading /\ Serving' = Serving \union {a}
    BY <1>1, ReplicaMoves
  <2> QED BY <1>3, <2>1 DEF Holders
<1>7. OneHand' /\ Current'
  BY <1>1, <1>3, <1>5, <1>6 DEF OneHand, Current
<1>8. Resting' /\ Fresh'
  BY <1>1, <1>5 DEF Resting, Waits, Fresh, Terminal
<1>9. Keeps
  BY <1>1, <1>5 DEF Keeps
<1> QED BY <1>7, <1>8, <1>9 DEF CalmInv

\* The beat job claims the approval.
LEMMA BeatClaims ==
  ASSUME IInv, CalmInv, NEW w \in Workers, Expire(w)
  PROVE  CalmInv' /\ Keeps
<1>1. /\ row.status = "awaiting_approval" /\ row.decision = "none"
      /\ row' = [row EXCEPT !.decision = "no"]
      /\ copy' = [copy EXCEPT ![w] = Decided(w, "no")]
      /\ wpc' = [wpc EXCEPT ![w] = "timeout"] /\ UNCHANGED <<apc, queue>>
  BY DEF Expire, WorkerGoto
<1>2. row \in Task /\ w \in Processes
  BY DEF IInv, Typing, TypeOK, Processes
<1>3. queue = 0 /\ Holders = {}
  BY <1>1 DEF CalmInv, Resting, Waits
<1>4. copy'[w] = row'
  <2>1. copy[w] = NoCopy \/ copy[w] = row
    BY <1>1 DEF CalmInv, Fresh
  <2> QED BY <1>1, <1>2, <2>1 DEF Decided, IInv, Typing
<1>5. row'.decision = "no" /\ row'.status = row.status
  BY <1>1, <1>2 DEF Task
<1>6. Unread' = {} /\ Reading' = {w} /\ Serving' = {} /\ Holders' = {w}
  <2>1. Unread' = Unread \ {w} /\ Reading' = Reading \union {w} /\ Serving' = Serving
    BY <1>1, WorkerMoves DEF ReadingPlaces
  <2> QED BY <1>3, <2>1 DEF Holders
<1>7. OneHand' /\ Current'
  BY <1>1, <1>3, <1>4, <1>6 DEF OneHand, Current
<1>8. Resting' /\ Fresh'
  BY <1>1, <1>5 DEF Resting, Waits, Fresh, Terminal
<1>9. Keeps
  BY <1>1, <1>5 DEF Keeps
<1> QED BY <1>7, <1>8, <1>9 DEF CalmInv

\* The record is new, and in the hand of its creator.
LEMMA InitCalm == Init => CalmInv
<1> SUFFICES ASSUME Init PROVE CalmInv
  OBVIOUS
<1>1. Unread = {} /\ Reading = {} /\ Serving = {Creator} /\ Holders = {Creator}
  BY ProcessesAssumption DEF Init, Unread, Reading, ReadingPlaces, Serving, Holders
<1>2. row = NewTask /\ queue = 0 /\ copy[Creator] = NewTask
      /\ \A p \in Processes : p # Creator => copy[p] = NoCopy
  BY ProcessesAssumption DEF Init, Processes
<1>3. NewTask.status = "queued" /\ NewTask.plan = 0
  BY DEF NewTask
<1>4. OneHand /\ Resting /\ Current
  BY <1>1, <1>2, <1>3 DEF OneHand, Resting, Waits, Current, Terminal
<1>5. Fresh
  BY <1>1, <1>2, <1>3, ProcessesAssumption DEF Fresh, Processes
<1> QED BY <1>4, <1>5 DEF CalmInv

\* A fault leaves the row alone, and is counted.
LEMMA FaultsCount ==
  ASSUME IInv,
         \/ \E a \in Api : LoseApi(a)
         \/ \E w \in Workers : LoseWorker(w) \/ Redeliver(w)
         \/ LockOutlasted
  PROVE  Keeps /\ ~Faultless'
<1>1. row' = row
  BY DEF LoseApi, LoseWorker, Redeliver, LockOutlasted, history
<1>2. crashes \in Nat /\ redeliveries \in Nat /\ expiries \in Nat
  BY DEF IInv, Typing, TypeOK
<1>3. \/ crashes' = crashes + 1 /\ UNCHANGED <<redeliveries, expiries>>
      \/ redeliveries' = redeliveries + 1 /\ UNCHANGED <<crashes, expiries>>
      \/ expiries' = expiries + 1 /\ UNCHANGED <<crashes, redeliveries>>
  BY DEF LoseApi, LoseWorker, Redeliver, LockOutlasted
<1> QED BY <1>1, <1>2, <1>3 DEF Keeps, Faultless

\* Nothing else is a fault, and no lapse is forgotten.
LEMMA LapsesGrow ==
  ASSUME \/ \E a \in Api : ApiStep(a) \/ \E decision \in {"yes", "no"} : Decide(a, decision)
         \/ \E w \in Workers : WorkerStep(w) \/ Expire(w)
         \/ LockExpires \/ Quiet \/ UNCHANGED vars
  PROVE  UNCHANGED faults /\ lapses \subseteq lapses'
<1>1. CASE \E a \in Api : ApiStep(a) \/ \E decision \in {"yes", "no"} : Decide(a, decision)
  BY <1>1 DEF ApiStep, Enqueue, EnqueueFails, Queued, Resolve, Deny, Decide, Note, history
<1>2. CASE \E w \in Workers : WorkerStep(w) \/ Expire(w)
  BY <1>2 DEF WorkerStep, Receive, Acquire, Drop, LoadFinished, Load, StartPlanning, Plan,
              GateOpen, GateRefused, Pause, Finish, Remember, RememberFails, Release, Ack, ExpireEmit, ExpireDeny,
              Expire, history
<1>3. CASE LockExpires \/ Quiet \/ UNCHANGED vars
  BY <1>3 DEF LockExpires, Quiet, vars, history
<1> QED BY <1>1, <1>2, <1>3

\* A step that is no fault and no lapse keeps the task in one hand and its record.
LEMMA CalmStep ==
  ASSUME IInv, CalmInv, lapses' = {},
         \/ \E a \in Api : ApiStep(a) \/ \E decision \in {"yes", "no"} : Decide(a, decision)
         \/ \E w \in Workers : WorkerStep(w) \/ Expire(w)
         \/ LockExpires \/ Quiet \/ UNCHANGED vars
  PROVE  CalmInv' /\ Keeps
<1>1. ASSUME NEW a \in Api, ApiStep(a) PROVE CalmInv' /\ Keeps
  BY <1>1, ReplicaEnqueues, ReplicaEmits, ReplicaQueued DEF ApiStep
<1>2. ASSUME NEW w \in Workers, WorkerStep(w) PROVE CalmInv' /\ Keeps
  BY <1>2, WorkerPasses, WorkerReads, WorkerEmits, WorkerForgets DEF WorkerStep
<1>3. CASE LockExpires \/ Quiet \/ UNCHANGED vars
  <2>1. UNCHANGED <<row, copy, apc, wpc, queue>>
    BY <1>3 DEF LockExpires, Quiet, vars
  <2>2. Unread' = Unread /\ Reading' = Reading /\ Serving' = Serving /\ Holders' = Holders
        /\ Closing' = Closing
    BY <2>1 DEF Unread, Reading, Serving, Holders, Closing
  <2>3. CalmInv'
    BY <2>1, <2>2 DEF CalmInv, OneHand, Resting, Current, Fresh
  <2> QED BY <2>1, <2>3 DEF Keeps
<1> QED BY <1>1, <1>2, <1>3, ReplicaDecides, BeatClaims

LEMMA NextCalm ==
  ASSUME IInv, Calm => CalmInv, [Next]_vars
  PROVE  (Calm' => CalmInv') /\ (lapses' = {} /\ Faultless => Keeps)
<1> DEFINE Fault == \/ \E a \in Api : LoseApi(a)
                    \/ \E w \in Workers : LoseWorker(w) \/ Redeliver(w)
                    \/ LockOutlasted
           Step == \/ \E a \in Api :
                        ApiStep(a) \/ \E decision \in {"yes", "no"} : Decide(a, decision)
                   \/ \E w \in Workers : WorkerStep(w) \/ Expire(w)
                   \/ LockExpires \/ Quiet \/ UNCHANGED vars
<1>1. Fault \/ Step
  BY DEF Next
<1>2. CASE Fault
  BY <1>2, FaultsCount DEF Calm
<1>3. CASE Step
  <2>1. UNCHANGED <<crashes, redeliveries, expiries>> /\ lapses \subseteq lapses'
    BY <1>3, LapsesGrow DEF faults
  <2>2. (Faultless' <=> Faultless) /\ (lapses' = {} => lapses = {})
    BY <2>1 DEF Faultless
  <2>3. lapses' = {} /\ Faultless => CalmInv' /\ Keeps
    BY <1>3, <2>2, CalmStep DEF Calm
  <2> QED BY <2>2, <2>3 DEF Calm
<1> QED BY <1>1, <1>2, <1>3

\* Until a fault or a lapse happens, no emit takes back an outcome or a decision
\* on record, although each writes a whole copy over the row (_emit).
THEOREM RecordHolds == Spec => RecordKept
<1>1. Init => (Calm => CalmInv)
  BY InitCalm
<1>2. IInv /\ (Calm => CalmInv) /\ [Next]_vars => (Calm => CalmInv)'
  BY NextCalm
<1>3. IInv /\ (Calm => CalmInv) /\ [Next]_vars =>
        [lapses' = {} /\ crashes + redeliveries + expiries = 0 =>
           /\ row.status \in Terminal =>
                \/ row'.status = row.status
                \/ row'.status = "failed" /\ \E w \in Workers : RememberFails(w)
           /\ row.decision # "none" => row'.decision = row.decision]_vars
  <2> SUFFICES ASSUME IInv, Calm => CalmInv, [Next]_vars
               PROVE  lapses' = {} /\ Faultless => Keeps
    BY DEF Faultless, Keeps
  <2> QED BY NextCalm
<1> QED BY <1>1, <1>2, <1>3, SpecIInv, PTL DEF Spec, RecordKept
=============================================================================
