-------------------------- MODULE InProcessProofs --------------------------
(***************************************************************************)
(* Proofs about the in-process mode, for every plan length, retry budget   *)
(* and number of crashes, in five parts: types and decisions (IInv), the   *)
(* abstract approval gate (GInv), work and outcomes (OInv), the agents'    *)
(* calls (CallInv), and the rework round (HeardInv).                       *)
(***************************************************************************)
EXTENDS InProcess, TLAPS

(* The inductive invariant behind the theorems on decisions. *)

\* What is true of every version of the task: committed, live or under way.
Sound(v) ==
  /\ v.status = "awaiting_approval" => v.planned /\ v.risk = "high" /\ ~v.auto
  /\ v.decision = "yes" => decisions = <<"yes">> /\ claims = 0

VersionsSound ==
  /\ Sound(row)
  /\ Sound(task)
  /\ \A t \in Threads : dump[t] # NoDump => Sound(dump[t])

Undecided(v) == v.status = "awaiting_approval" /\ v.decision = "none"

Decided == decisions # <<>> \/ claims # 0

\* The runner has yet to learn of a decision, and writes nothing until it does.
Parked ==
  /\ pc \in {"enter", "gate", "waiting"}
  /\ dump["runner"] = NoDump
  /\ task.status = "awaiting_approval" /\ task.decision = "none"

\* What the places of the runner say about the live object.
PlacesOK ==
  /\ pc = "finish" => outcome \in TerminalStatuses
  /\ pc \in {"assess", "assessing", "gate"} => task.planned
  /\ pc \in {"gate", "waiting"} \union Working => task.risk # "none"
  /\ pc \notin {"enter", "gate", "waiting", "start", "finish", "down"} =>
       task.status # "awaiting_approval"
  /\ pc = "down" => task = row /\ jan = "idle" /\ dump = [t \in Threads |-> NoDump]

\* A decision, once accepted, is in the row and in everything under way to it.
DecisionKept ==
  /\ Decided => /\ row.decision # "none"
                /\ \A t \in Threads : dump[t] # NoDump => dump[t].decision # "none"
  /\ Decided /\ task.decision = "none" =>
       Parked /\ jan = "claimed" /\ row.decision = "no"

\* While the row is open for a decision nothing under way would reopen it.
OpenRow ==
  /\ fresh => Undecided(row)
  /\ Undecided(row) =>
       /\ task.decision = "none" => Parked \/ pc = "down"
       /\ dump["runner"] # NoDump => dump["runner"].decision # "none"
  /\ dump["runner"] # NoDump /\ Undecided(dump["runner"]) =>
       pc = "waiting" /\ task = dump["runner"]

\* The janitor only writes after it claimed the row.
JanitorOK ==
  /\ jan \notin {"idle", "read"} \/ dump["janitor"] # NoDump => claims # 0
  /\ jan \in {"read", "claimed"} => dump["janitor"] = NoDump

\* Nobody works on a plan that needs an approval it does not have.
WorkApproved ==
  pc \in Working /\ task.risk = "high" /\ ~task.auto => task.decision = "yes"

IInv ==
  /\ TypeOK
  /\ PlacesOK
  /\ VersionsSound
  /\ SingleWriter
  /\ DecisionKept
  /\ OpenRow
  /\ JanitorOK
  /\ WorkApproved

-----------------------------------------------------------------------------
(* The operators on the task record keep it well-formed.                   *)

LEMMA StepsFacts == /\ Steps \subseteq Nat
                    /\ Verifier \in Steps
                    /\ TotalAttempts \in Nat \ {0}
  BY NStepsAssumption, RetriesAssumption DEF Steps, Verifier, TotalAttempts

LEMMA NewTaskType == ASSUME NEW auto \in BOOLEAN PROVE NewTask(auto) \in Task
  BY DEF NewTask, NewPlan, Task, PlanStep, StepStatus, TaskStatus, ActiveStatuses,
         TerminalStatuses, Risk, Verdict, Decision, Failure, MaxRounds

LEMMA WithStatusType ==
  ASSUME NEW t \in Task, NEW status \in TaskStatus
  PROVE  WithStatus(t, status) \in Task
  BY DEF WithStatus, Task

LEMMA WithStepType ==
  ASSUME NEW t \in Task, NEW s \in Steps, NEW status \in StepStatus
  PROVE  WithStep(t, s, status) \in Task
  BY DEF WithStep, Task, PlanStep

LEMMA ResumedType == ASSUME NEW t \in Task PROVE Resumed(t) \in Task
  BY DEF Resumed, Task, PlanStep, StepStatus

LEMMA ResetType == ASSUME NEW t \in Task PROVE ResetForRework(t) \in Task
  BY DEF ResetForRework, Task, PlanStep, StepStatus, Verdict

-----------------------------------------------------------------------------
(* Type correctness.                                                       *)

\* The outcome _finish was called with is what makes TypeOK inductive.
TypeInv ==
  /\ TypeOK
  /\ pc = "finish" => outcome \in TerminalStatuses

LEMMA InitType == Init => TypeInv
<1> SUFFICES ASSUME Init PROVE TypeInv
  OBVIOUS
<1>1. row \in Task /\ task \in Task
  BY NewTaskType DEF Init, RunnerInit
<1>2. attempt \in 1 .. TotalAttempts /\ crashes \in 0 .. MaxCrashes
  BY StepsFacts, CrashesAssumption DEF Init, RunnerInit
<1>3. calls \in [Steps -> Nat] /\ dump \in [Threads -> Task \union {NoDump}]
  BY DEF Init, RunnerInit
<1>4. decisions \in Seq({"yes", "no"}) /\ claims \in Nat /\ episodes \in Nat /\ ends \in Nat
  BY DEF Init, RunnerInit
<1> QED
  BY <1>1, <1>2, <1>3, <1>4
     DEF Init, RunnerInit, TypeInv, TypeOK, Places, Awaiting, Failure, JanitorPlaces,
         Threads, TerminalStatuses

\* An emit of a well-formed task keeps the emitted state well-formed.
LEMMA EmitType ==
  ASSUME TypeInv, NEW t \in Task, NEW next \in Places, Emit(t, next)
  PROVE  /\ row' \in Task /\ task' \in Task
         /\ dump' \in [Threads -> Task \union {NoDump}]
         /\ pc' \in Places /\ pc' = next
         /\ fresh' \in BOOLEAN
  BY DEF Emit, TypeInv, TypeOK, Threads

\* So does moving on.
LEMMA GotoType ==
  ASSUME TypeInv, NEW next \in Places, Goto(next)
  PROVE  /\ row' \in Task /\ task' \in Task
         /\ dump' \in [Threads -> Task \union {NoDump}]
         /\ pc' \in Places /\ pc' = next
         /\ fresh' \in BOOLEAN
  BY DEF Goto, TypeInv, TypeOK

LEMMA FlushType ==
  ASSUME TypeInv, NEW t \in Threads, NEW last \in BOOLEAN, Flush(t, last)
  PROVE  /\ row' \in Task /\ task' = task
         /\ dump' \in [Threads -> Task \union {NoDump}]
         /\ ends' \in Nat
         /\ fresh' \in BOOLEAN
<1>1. dump[t] \in Task
  BY DEF Flush, TypeInv, TypeOK
<1>2. ends' \in Nat
  BY DEF Flush, TypeInv, TypeOK
<1>3. dump' \in [Threads -> Task \union {NoDump}]
  BY DEF Flush, TypeInv, TypeOK
<1> QED
  BY <1>1, <1>2, <1>3 DEF Flush

\* Every step of the runner keeps the types.
LEMMA RunnerType ==
  ASSUME TypeInv, Run
  PROVE  TypeInv'
<1> USE DEF TypeInv
<1> DEFINE Rest == /\ attempt' \in 1 .. TotalAttempts
                   /\ exc' \in Failure
                   /\ outcome' \in TerminalStatuses \union {"none"}
                   /\ episodes' \in Nat /\ ends' \in Nat
                   /\ calls' \in [Steps -> Nat]
                   /\ rejected' \subseteq 0 .. MaxRounds - 1
<1>0. /\ jan' \in JanitorPlaces /\ decisions' \in Seq({"yes", "no"})
      /\ claims' \in Nat /\ crashes' \in 0 .. MaxCrashes /\ reworkLost' \in BOOLEAN
  BY DEF Run, history, TypeOK
<1>e. ASSUME NEW t \in Task, NEW next \in Places, Emit(t, next), Rest,
             next = "finish" => outcome' \in TerminalStatuses
      PROVE  TypeInv'
  BY <1>e, <1>0, EmitType DEF TypeOK
<1>g. ASSUME NEW next \in Places, Goto(next), Rest,
             next = "finish" => outcome' \in TerminalStatuses
      PROVE  TypeInv'
  BY <1>g, <1>0, GotoType DEF TypeOK
<1>r. ASSUME NEW failure \in Failure, Raise(failure) PROVE TypeInv'
  <2>1. Goto("fail") /\ Rest
    BY <1>r DEF Raise, memory, TypeOK
  <2> QED
    BY <2>1, <1>g DEF Places
<1> USE DEF TypeOK
<1> HIDE DEF Rest
<1>u. (UNCHANGED <<attempt, exc, outcome, memory, calls, rejected>>) => Rest
  BY DEF Rest, memory
<1>1. CASE RunnerFlush
  BY <1>1, <1>0, FlushType DEF RunnerFlush, Flush, control, Threads
<1>2. CASE EnterPlanning
  <2>1. WithStatus(task, "planning") \in Task
    BY WithStatusType DEF TaskStatus, ActiveStatuses
  <2> QED
    BY <1>2, <2>1, <1>e, <1>u DEF EnterPlanning, Places, Awaiting
<1>3. CASE EnterResume
  BY <1>3, <1>0, ResumedType DEF EnterResume, Places, memory
<1>4. CASE Plan
  <2>1. [task EXCEPT !.planned = TRUE, !.steps = NewPlan] \in Task
    BY DEF Task, NewPlan, PlanStep, StepStatus
  <2> QED
    BY <1>4, <2>1, <1>e, <1>u DEF Plan, Places
<1>5. CASE StartAssessing
  <2>1. WithStatus(task, "assessing_risk") \in Task
    BY WithStatusType DEF TaskStatus, ActiveStatuses
  <2> QED
    BY <1>5, <2>1, <1>e, <1>u DEF StartAssessing, Places, Awaiting
<1>6. ASSUME NEW risk \in {"low", "high"}, Assess(risk) PROVE TypeInv'
  <2>1. [task EXCEPT !.risk = risk] \in Task
    BY DEF Task, Risk
  <2> QED
    BY <1>6, <2>1, <1>e, <1>u DEF Assess, Places
<1>7. CASE ModelFails
  BY <1>7, <1>r DEF ModelFails, Failure
<1>8. CASE GateOpen
  BY <1>8, <1>g, <1>u DEF GateOpen, Places, Working
<1>9. CASE GateAuto
  BY <1>9, <1>e, <1>u DEF GateAuto, Places, Working
<1>10. CASE GateRefused
  <2>1. Rest
    BY <1>10 DEF GateRefused, Deny, TerminalStatuses, Rest, memory
  <2> QED
    BY <1>10, <2>1, <1>g DEF GateRefused, Deny, Places, TerminalStatuses
<1>11. CASE GateRequest
  <2>1. [task EXCEPT !.status = "awaiting_approval", !.decision = "none"] \in Task
    BY DEF Task, Decision, TaskStatus, ActiveStatuses
  <2> QED
    BY <1>11, <2>1, <1>e, <1>u DEF GateRequest, Places, Awaiting
<1>12. CASE GateStillWaiting
  BY <1>12, <1>g, <1>u DEF GateStillWaiting, Places, Awaiting
<1>13. CASE WaitDecided
  <2>1. task' \in Task
    BY <1>13 DEF WaitDecided, Task
  <2> QED
    BY <1>13, <1>0, <2>1 DEF WaitDecided, memory, Places, Working, TerminalStatuses
<1>14. CASE WaitExpires
  <2>1. [task EXCEPT !.decision = "no"] \in Task
    BY DEF Task, Decision
  <2>2. Rest
    BY <1>14 DEF WaitExpires, Rest, TerminalStatuses, memory
  <2> QED
    BY <1>14, <2>1, <2>2, <1>e DEF WaitExpires, Places, TerminalStatuses
<1>15. CASE Start
  <2>1. WithStatus(task, "running") \in Task
    BY WithStatusType DEF TaskStatus, ActiveStatuses
  <2> QED
    BY <1>15, <2>1, <1>e, <1>u DEF Start, Places, Working
<1>16. CASE EnterVerifier
  <2>1. WithStatus(task, "verifying") \in Task
    BY WithStatusType DEF TaskStatus, ActiveStatuses
  <2> QED
    BY <1>16, <2>1, <1>e, <1>u DEF EnterVerifier, Places, Working
<1>17. ASSUME NEW s \in Steps, EnterWorker(s) PROVE TypeInv'
  BY <1>17, <1>g, <1>u DEF EnterWorker, Places, Working
<1>18. ASSUME NEW s \in Steps, StartStep(s) PROVE TypeInv'
  <2>1. WithStep(task, s, "running") \in Task
    BY WithStepType DEF StepStatus
  <2>2. Rest
    BY <1>18, StepsFacts DEF StartStep, Rest, memory
  <2> QED
    BY <1>18, <2>1, <2>2, <1>e DEF StartStep, Places, Working
<1>19. ASSUME NEW s \in Steps, Attempt(s) PROVE TypeInv'
  <2>1. task.steps[s].attempts + 1 \in Nat
    BY DEF Task, PlanStep
  <2>2. [task.steps[s] EXCEPT !.attempts = @ + 1] \in PlanStep
    BY <2>1 DEF Task, PlanStep
  <2>3. [task EXCEPT !.steps[s].attempts = @ + 1] \in Task
    BY <2>2 DEF Task
  <2> QED
    BY <1>19, <2>3, <1>e, <1>u DEF Attempt, Places, Working
<1>20. ASSUME NEW s \in Steps, Call(s) PROVE TypeInv'
  <2>1. Rest
    BY <1>20 DEF Call, Rest, memory
  <2> QED
    BY <1>20, <2>1, <1>g DEF Call, Places, Awaiting
<1>21. ASSUME NEW s \in Steps, NEW verdict \in {"passed", "rejected"},
              CallReturns(s, verdict)
       PROVE  TypeInv'
  <2> DEFINE t == [WithStep(task, s, "completed") EXCEPT
                     !.verified = IF s = Verifier THEN verdict ELSE @]
  <2>1. WithStep(task, s, "completed") \in Task
    BY WithStepType DEF StepStatus
  <2>2. t \in Task
    BY <2>1 DEF Task, Verdict
  <2>3. task.rework \in 0 .. MaxRounds - 1
    BY DEF Task
  <2>4. Rest
    BY <1>21, <2>3 DEF CallReturns, Rest, memory
  <2> QED
    BY <1>21, <2>2, <2>4, <1>e DEF CallReturns, Places, Working
<1>22. ASSUME NEW s \in Steps, CallFails(s) PROVE TypeInv'
  <2>1. WithStep(task, s, "failed") \in Task
    BY WithStepType DEF StepStatus
  <2>2. Rest
    BY <1>22 DEF CallFails, Rest, memory, Failure
  <2> QED
    BY <1>22, <2>1, <2>2, <1>e DEF CallFails, Places
<1>23. CASE CallRetries
  <2>1. Rest
    BY <1>23, StepsFacts DEF CallRetries, Rest, memory
  <2> QED
    BY <1>23, <2>1, <1>e DEF CallRetries, Places, Working
<1>24. CASE RoundPassed
  BY <1>24, <1>g, <1>u DEF RoundPassed, Places, Awaiting
<1>25. CASE StartRework
  <2>1. task.rework + 1 \in 0 .. MaxRounds - 1
    BY <1>25 DEF StartRework, Task, MaxRounds
  <2>2. [task EXCEPT !.rework = @ + 1] \in Task
    BY <2>1 DEF Task
  <2> QED
    BY <1>25, <2>2, <1>e, <1>u DEF StartRework, Places, Working
<1>26. CASE Reset
  <2>1. WithStatus(ResetForRework(task), "running") \in Task
    BY ResetType, WithStatusType DEF TaskStatus, ActiveStatuses
  <2> QED
    BY <1>26, <2>1, <1>e, <1>u DEF Reset, Places, Working
<1>27. CASE GiveUp
  BY <1>27, <1>r DEF GiveUp, Failure
<1>28. CASE Synthesize
  <2>1. Rest
    BY <1>28 DEF Synthesize, Rest, memory, TerminalStatuses
  <2> QED
    BY <1>28, <2>1, <1>e DEF Synthesize, Places, TerminalStatuses
<1>29. CASE Fail
  <2>1. [task EXCEPT !.error = exc] \in Task
    BY DEF Task
  <2>2. Rest
    BY <1>29 DEF Fail, Rest, memory, TerminalStatuses
  <2> QED
    BY <1>29, <2>1, <2>2, <1>e DEF Fail, Places, TerminalStatuses
<1>30. CASE Finish
  <2>1. outcome \in TaskStatus
    BY <1>30 DEF Finish, At, TaskStatus
  <2>2. WithStatus(task, outcome) \in Task
    BY <2>1, WithStatusType
  <2> QED
    BY <1>30, <2>2, <1>e, <1>u DEF Finish, Places
<1>31. CASE Remember
  <2>1. Rest
    BY <1>31 DEF Remember, Rest
  <2> QED
    BY <1>31, <2>1, <1>g DEF Remember, Places
<1>32. CASE RememberFails
  <2>1. CASE Raise("memory")
    BY <2>1, <1>r DEF Failure
  <2>2. CASE Goto("ended") /\ exc' = "memory" /\ UNCHANGED <<attempt, outcome, memory, calls, rejected>>
    <3>1. Rest
      BY <2>2 DEF Rest, memory, Failure
    <3>2. Goto("ended")
      BY <2>2
    <3> QED
      BY <3>1, <3>2, <1>g DEF Places, Awaiting
  <2> QED
    BY <1>32, <2>1, <2>2 DEF RememberFails
<1>33. CASE Close
  BY <1>33, <1>e, <1>u DEF Close, Places, Awaiting
<1> QED
  BY <1>1, <1>2, <1>3, <1>4, <1>5, <1>6, <1>7, <1>8, <1>9, <1>10, <1>11, <1>12,
     <1>13, <1>14, <1>15, <1>16, <1>17, <1>18, <1>19, <1>20, <1>21, <1>22, <1>23,
     <1>24, <1>25, <1>26, <1>27, <1>28, <1>29, <1>30, <1>31, <1>32, <1>33
     DEF Run, RunnerStep

\* So does every step of the reviewers, the janitor and the process.
LEMMA EnvironmentType ==
  ASSUME TypeInv, ~Run, [Next]_vars
  PROVE  TypeInv'
<1> USE DEF TypeInv, TypeOK
<1>1. ASSUME NEW decision \in {"yes", "no"}, Decide(decision) PROVE TypeInv'
  <2>1. task' \in Task
    BY <1>1 DEF Decide, Task, Decision
  <2>2. decisions' \in Seq({"yes", "no"})
    BY <1>1 DEF Decide
  <2> QED
    BY <1>1, <2>1, <2>2 DEF Decide, control, memory
<1>2. CASE JanitorRead
  BY <1>2 DEF JanitorRead, control, memory, history, JanitorPlaces
<1>3. CASE JanitorClaim
  <2>1. row' \in Task
    BY <1>3 DEF JanitorClaim, Task, Decision
  <2>2. claims' \in Nat
    BY <1>3 DEF JanitorClaim
  <2> QED
    BY <1>3, <2>1, <2>2 DEF JanitorClaim, control, memory, JanitorPlaces
<1>4. CASE JanitorMiss
  BY <1>4 DEF JanitorMiss, control, memory, history, JanitorPlaces
<1>5. CASE JanitorTimeout
  <2>1. [task EXCEPT !.decision = "no"] \in Task
    BY DEF Task, Decision
  <2> QED
    BY <1>5, <2>1
       DEF JanitorTimeout, JanitorEmit, Threads, control, memory, history, JanitorPlaces
<1>6. CASE JanitorDeny
  <2>1. WithStatus(task, "denied") \in Task
    BY WithStatusType DEF TaskStatus, TerminalStatuses
  <2> QED
    BY <1>6, <2>1
       DEF JanitorDeny, JanitorEmit, Threads, control, memory, history, JanitorPlaces
<1>7. CASE JanitorRemember
  BY <1>7 DEF JanitorRemember, control, history, JanitorPlaces
<1>8. CASE JanitorClose
  BY <1>8 DEF JanitorClose, JanitorEmit, Threads, control, memory, history, JanitorPlaces
<1>9. CASE JanitorFlush
  BY <1>9, FlushType DEF JanitorFlush, Flush, Threads, control, history
<1>10. CASE Crash
  <2>1. crashes' \in 0 .. MaxCrashes
    BY <1>10, CrashesAssumption DEF Crash
  <2>2. attempt' \in 1 .. TotalAttempts
    BY <1>10, StepsFacts DEF Crash
  <2>3. dump' \in [Threads -> Task \union {NoDump}]
    BY <1>10 DEF Crash
  <2> QED
    BY <1>10, <2>1, <2>2, <2>3 DEF Crash, memory, Places, Failure, JanitorPlaces
<1>11. CASE Restart
  BY <1>11 DEF Restart, memory, history, Places, Awaiting
<1>12. CASE UNCHANGED vars
  BY <1>12 DEF vars, control, memory, history
<1> QED
  BY <1>1, <1>2, <1>3, <1>4, <1>5, <1>6, <1>7, <1>8, <1>9, <1>10, <1>11, <1>12
     DEF Next, JanitorStep, Terminated

LEMMA TypeInvariant == Spec => []TypeInv
<1>1. TypeInv /\ [Next]_vars => TypeInv'
  BY RunnerType, EnvironmentType
<1> QED
  BY InitType, <1>1, PTL DEF Spec

\* Rows, live objects and payloads under way are always well-formed tasks.
THEOREM TypeCorrect == Spec => []TypeOK
<1>1. TypeInv => TypeOK
  BY DEF TypeInv
<1> QED
  BY <1>1, TypeInvariant, PTL

-----------------------------------------------------------------------------
(* The decisions: IInv is inductive.                                       *)

LEMMA InitInv == Init => IInv
<1> SUFFICES ASSUME Init PROVE IInv
  OBVIOUS
<1>1. TypeOK
  BY InitType DEF TypeInv
<1>2. row = task /\ task.status = "queued" /\ task.decision = "none"
  BY DEF Init, RunnerInit, NewTask
<1>3. dump["runner"] = NoDump /\ dump["janitor"] = NoDump
  BY DEF Init, RunnerInit, Threads
<1>4. SingleWriter
  BY DEF Init, SingleWriter
<1> QED
  BY <1>1, <1>2, <1>3, <1>4
     DEF Init, RunnerInit, IInv, PlacesOK, VersionsSound, Sound, Threads, DecisionKept,
         Decided, OpenRow, Undecided, JanitorOK, WorkApproved, Working

\* A runner that is not parked knows every decision there is.
LEMMA NotParked ==
  ASSUME IInv, ~Parked, pc # "down", task.decision = "none"
  PROVE  ~Decided /\ ~Undecided(row)
  BY DEF IInv, DecisionKept, OpenRow

\* An emit that leaves the decision alone and does not ask for one.
LEMMA EmitKeeps ==
  ASSUME IInv, TypeOK', NEW t \in Task, NEW next, Emit(t, next),
         dump["runner"] = NoDump, UNCHANGED <<jan, history>>,
         ~Parked, pc # "down", next \notin {"waiting", "down"},
         t.decision = task.decision, t.status # "awaiting_approval",
         next = "finish" => outcome' \in TerminalStatuses,
         next \in {"assess", "assessing", "gate"} => t.planned,
         next \in {"gate"} \union Working => t.risk # "none",
         next \in Working /\ t.risk = "high" /\ ~t.auto => t.decision = "yes"
  PROVE  IInv'
<1> USE DEF IInv, Emit, history
<1>0. /\ dump'["runner"] = t /\ dump'["janitor"] = dump["janitor"]
      /\ decisions' = decisions /\ claims' = claims
      /\ Decided' = Decided /\ Undecided(row)' = Undecided(row)
  BY DEF TypeOK, Threads, Decided, Undecided
<1>1. PlacesOK'
  BY <1>0 DEF PlacesOK, Working
<1>2. VersionsSound'
  BY <1>0 DEF VersionsSound, Sound, Threads
<1>3. SingleWriter'
  BY <1>0 DEF SingleWriter
<1>4. task.decision = "none" => ~Decided /\ ~Undecided(row)
  BY NotParked
<1>5. DecisionKept'
  BY <1>0, <1>4 DEF DecisionKept, Threads
<1>6. OpenRow'
  BY <1>0, <1>4 DEF OpenRow, Undecided
<1>7. JanitorOK'
  BY <1>0 DEF JanitorOK
<1>8. WorkApproved'
  BY DEF WorkApproved
<1> QED
  BY <1>1, <1>2, <1>3, <1>5, <1>6, <1>7, <1>8

\* Moving on without an emit.
LEMMA GotoKeeps ==
  ASSUME IInv, TypeOK', NEW next, Goto(next), dump["runner"] = NoDump,
         UNCHANGED <<jan, history>>, pc # "down", next # "down",
         ~Parked \/ next \in {"gate", "waiting"},
         next = "finish" => outcome' \in TerminalStatuses,
         next \in {"assess", "assessing", "gate"} => task.planned,
         next \in {"gate", "waiting"} \union Working => task.risk # "none",
         next \notin {"enter", "gate", "waiting", "start", "finish"} =>
           task.status # "awaiting_approval",
         next \in Working /\ task.risk = "high" /\ ~task.auto => task.decision = "yes"
  PROVE  IInv'
<1> USE DEF IInv, Goto, history
<1>1. PlacesOK'
  BY DEF PlacesOK
<1>2. VersionsSound' /\ SingleWriter'
  BY DEF VersionsSound, Sound, SingleWriter
<1>3. DecisionKept'
  BY DEF DecisionKept, Decided, Parked
<1>4. OpenRow'
  BY DEF OpenRow, Undecided, Parked
<1>5. JanitorOK' /\ WorkApproved'
  BY DEF JanitorOK, WorkApproved
<1> QED
  BY <1>1, <1>2, <1>3, <1>4, <1>5

\* A commit, by either thread.
LEMMA FlushKeeps ==
  ASSUME IInv, TypeOK', NEW t \in Threads, NEW last \in BOOLEAN, Flush(t, last),
         UNCHANGED <<jan, history>>
  PROVE  IInv'
<1> USE DEF IInv, history
<1>0. /\ row' = dump[t] /\ dump[t] # NoDump /\ task' = task /\ pc' = pc
      /\ dump' = [dump EXCEPT ![t] = NoDump] /\ ~fresh'
      /\ decisions' = decisions /\ claims' = claims /\ outcome' = outcome
      /\ jan' = jan /\ Decided' = Decided
  BY DEF Flush, control, Decided
<1>1. /\ t = "runner" \/ t = "janitor"
      /\ \A u \in Threads : dump'[u] = IF u = t THEN NoDump ELSE dump[u]
  BY <1>0 DEF Threads, TypeOK
<1>2. pc # "down"
  BY <1>0 DEF PlacesOK
<1>3. PlacesOK'
  BY <1>0, <1>2 DEF PlacesOK
<1>4. VersionsSound'
  BY <1>0, <1>1 DEF VersionsSound, Sound
<1>5. SingleWriter'
  BY <1>0 DEF SingleWriter
<1>6. ~(Decided /\ task.decision = "none")
  BY <1>0, <1>1 DEF DecisionKept, Parked, JanitorOK
<1>7. DecisionKept'
  BY <1>0, <1>1, <1>6 DEF DecisionKept
<1>8. Undecided(dump[t]) => t = "runner" /\ pc = "waiting" /\ task = dump[t]
  <2>1. CASE t = "runner"
    BY <2>1, <1>0 DEF OpenRow
  <2>2. CASE t = "janitor"
    BY <2>2, <1>0 DEF JanitorOK, DecisionKept, Decided, Undecided, Threads
  <2> QED
    BY <1>1, <2>1, <2>2
<1>9. OpenRow'
  BY <1>0, <1>1, <1>8 DEF OpenRow, Undecided, Parked, Threads
<1>10. JanitorOK'
  BY <1>0, <1>1 DEF JanitorOK, Threads
<1>11. WorkApproved'
  BY <1>0 DEF WorkApproved
<1> QED
  BY <1>3, <1>4, <1>5, <1>7, <1>9, <1>10, <1>11

LEMMA RunFacts ==
  ASSUME IInv, Run
  PROVE  TypeInv /\ TypeOK' /\ UNCHANGED <<jan, history>> /\ task \in Task
  BY RunnerType DEF IInv, PlacesOK, TypeInv, TypeOK, Run

\* The emits and moves of a runner at work.
LEMMA WorkEmit ==
  ASSUME IInv, Run, NEW t \in Task, NEW next \in Working \union {"fail"},
         Emit(t, next), dump["runner"] = NoDump, pc \in Working,
         t.decision = task.decision, t.risk = task.risk, t.auto = task.auto,
         t.status # "awaiting_approval"
  PROVE  IInv'
<1>1. ~Parked /\ pc # "down"
  BY DEF Parked, Working
<1>2. /\ task.risk # "none"
      /\ task.risk = "high" /\ ~task.auto => task.decision = "yes"
  BY DEF IInv, PlacesOK, WorkApproved
<1> QED
  BY <1>1, <1>2, RunFacts, EmitKeeps DEF Working

LEMMA WorkGoto ==
  ASSUME IInv, Run, NEW next \in Working \union {"fail"},
         Goto(next), dump["runner"] = NoDump, pc \in Working \ {"start"}
  PROVE  IInv'
<1>1. ~Parked /\ pc # "down"
  BY DEF Parked, Working
<1>2. /\ task.risk # "none" /\ task.status # "awaiting_approval"
      /\ task.risk = "high" /\ ~task.auto => task.decision = "yes"
  BY DEF IInv, PlacesOK, WorkApproved, Working
<1> QED
  BY <1>1, <1>2, RunFacts, GotoKeeps DEF Working

\* Planning and the gate.
LEMMA GateInv ==
  ASSUME IInv, Run,
         \/ EnterPlanning \/ EnterResume \/ Plan \/ StartAssessing
         \/ \E risk \in {"low", "high"} : Assess(risk)
         \/ GateOpen \/ GateAuto \/ GateRefused \/ GateRequest \/ GateStillWaiting
         \/ WaitDecided \/ WaitExpires
  PROVE  IInv'
<1>t. TypeInv /\ TypeOK' /\ UNCHANGED <<jan, history>> /\ task \in Task
  BY RunFacts
<1>i. IInv
  OBVIOUS
<1>1. CASE EnterPlanning
  <2> DEFINE t == WithStatus(task, "planning")
  <2>1. t \in Task /\ t.decision = task.decision /\ t.status = "planning"
    BY <1>t, WithStatusType DEF WithStatus, Task, TaskStatus, ActiveStatuses
  <2>2. Emit(t, "planning") /\ pc = "enter" /\ dump["runner"] = NoDump
    BY <1>1 DEF EnterPlanning, At
  <2>3. ~Parked
    BY <1>1 DEF EnterPlanning, Unplanned, IInv, VersionsSound, Sound, Parked
  <2> HIDE DEF t
  <2> QED
    BY <1>t, <2>1, <2>2, <2>3, EmitKeeps DEF Working
<1>2. CASE EnterResume
  <2>1. /\ task' = Resumed(task) /\ pc = "enter" /\ pc' = "gate"
        /\ UNCHANGED <<row, dump, fresh, outcome>> /\ dump["runner"] = NoDump
    BY <1>2 DEF EnterResume, At
  <2>2. /\ task'.planned = task.planned /\ task'.risk = task.risk
        /\ task'.auto = task.auto /\ task'.status = task.status
        /\ task'.decision = task.decision
    BY <1>t, <2>1 DEF Resumed, Task
  <2>3. task.planned /\ task.risk # "none"
    BY <1>2 DEF EnterResume, Unplanned
  <2>4. decisions' = decisions /\ claims' = claims /\ jan' = jan
    BY <1>t DEF history
  <2>5. PlacesOK' /\ WorkApproved'
    BY <2>1, <2>2, <2>3 DEF PlacesOK, WorkApproved, Working
  <2>6. VersionsSound' /\ SingleWriter' /\ JanitorOK'
    BY <1>i, <2>1, <2>2, <2>4 DEF IInv, VersionsSound, Sound, SingleWriter, JanitorOK
  <2>7. DecisionKept'
    BY <1>i, <2>1, <2>2, <2>4 DEF IInv, DecisionKept, Decided, Parked
  <2>8. OpenRow'
    BY <1>i, <2>1, <2>2, <2>4 DEF IInv, OpenRow, Undecided, Parked
  <2> QED
    BY <1>t, <2>5, <2>6, <2>7, <2>8 DEF IInv
<1>3. CASE Plan
  <2> DEFINE t == [task EXCEPT !.planned = TRUE, !.steps = NewPlan]
  <2>1. t \in Task /\ t.decision = task.decision /\ t.status = task.status /\ t.planned
    BY <1>t DEF NewPlan, PlanStep, StepStatus, Task
  <2>2. Emit(t, "assess") /\ pc = "planning" /\ dump["runner"] = NoDump
    BY <1>3 DEF Plan, At
  <2>3. ~Parked /\ task.status # "awaiting_approval"
    BY <2>2 DEF IInv, PlacesOK, Parked
  <2> HIDE DEF t
  <2> QED
    BY <1>t, <2>1, <2>2, <2>3, EmitKeeps DEF Working
<1>4. CASE StartAssessing
  <2> DEFINE t == WithStatus(task, "assessing_risk")
  <2>1. /\ t \in Task /\ t.decision = task.decision /\ t.status = "assessing_risk"
        /\ t.planned = task.planned
    BY <1>t, WithStatusType DEF WithStatus, Task, TaskStatus, ActiveStatuses
  <2>2. Emit(t, "assessing") /\ pc = "assess" /\ dump["runner"] = NoDump
    BY <1>4 DEF StartAssessing, At
  <2>3. ~Parked /\ task.planned
    BY <2>2 DEF IInv, PlacesOK, Parked
  <2> HIDE DEF t
  <2> QED
    BY <1>t, <2>1, <2>2, <2>3, EmitKeeps DEF Working
<1>5. ASSUME NEW risk \in {"low", "high"}, Assess(risk) PROVE IInv'
  <2> DEFINE t == [task EXCEPT !.risk = risk]
  <2>1. /\ t \in Task /\ t.decision = task.decision /\ t.status = task.status
        /\ t.planned = task.planned /\ t.risk # "none"
    BY <1>t DEF Task, Risk
  <2>2. Emit(t, "gate") /\ pc = "assessing" /\ dump["runner"] = NoDump
    BY <1>5 DEF Assess, At
  <2>3. ~Parked /\ task.planned /\ task.status # "awaiting_approval"
    BY <2>2 DEF IInv, PlacesOK, Parked
  <2> HIDE DEF t
  <2> QED
    BY <1>t, <2>1, <2>2, <2>3, EmitKeeps DEF Working
<1>6. CASE GateOpen
  <2>1. Goto("start") /\ pc = "gate" /\ dump["runner"] = NoDump
    BY <1>6 DEF GateOpen, At
  <2>2. task.risk # "none" /\ (task.risk # "high" \/ task.decision = "yes")
    BY <1>6, <2>1 DEF GateOpen, IInv, PlacesOK
  <2>3. ~Parked
    BY <2>2 DEF Parked, IInv, VersionsSound, Sound
  <2> QED
    BY <1>t, <2>1, <2>2, <2>3, GotoKeeps DEF IInv, WorkApproved, Working, VersionsSound, Sound
<1>7. CASE GateAuto
  <2>1. Emit(task, "start") /\ pc = "gate" /\ dump["runner"] = NoDump /\ task.auto
    BY <1>7 DEF GateAuto, At
  <2>2. task.risk # "none" /\ task.status # "awaiting_approval"
    BY <2>1 DEF IInv, PlacesOK, VersionsSound, Sound
  <2>3. ~Parked
    BY <2>2 DEF Parked
  <2> QED
    BY <1>t, <2>1, <2>2, <2>3, EmitKeeps DEF Working
<1>8. CASE GateRefused
  <2>1. /\ Goto("finish") /\ outcome' = "denied" /\ pc = "gate" /\ dump["runner"] = NoDump
        /\ task.decision = "no"
    BY <1>8 DEF GateRefused, Deny, At
  <2> QED
    BY <1>t, <2>1, GotoKeeps DEF Working, Parked, TerminalStatuses
<1>9. CASE GateRequest
  <2> DEFINE t == [task EXCEPT !.status = "awaiting_approval", !.decision = "none"]
  <2>1. /\ Emit(t, "waiting") /\ pc = "gate" /\ dump["runner"] = NoDump
        /\ task.decision = "none" /\ ~MayRun(task) /\ task.status # "awaiting_approval"
    BY <1>9 DEF GateRequest, At
  <2>2. /\ t.status = "awaiting_approval" /\ t.decision = "none" /\ t.planned
        /\ t.risk = "high" /\ ~t.auto /\ t \in Task
    BY <1>t, <2>1 DEF Task, MayRun, IInv, PlacesOK, TaskStatus, ActiveStatuses, Decision
  <2>3. ~Decided /\ ~Undecided(row)
    BY <2>1, NotParked DEF Parked
  <2> HIDE DEF t
  <2>4. /\ task' = t /\ dump'["runner"] = t /\ dump'["janitor"] = dump["janitor"]
        /\ pc' = "waiting" /\ UNCHANGED <<row, fresh, decisions, claims, jan>>
    BY <1>t, <2>1 DEF Emit, IInv, TypeOK, Threads, history
  <2>5. PlacesOK' /\ WorkApproved'
    BY <2>2, <2>4 DEF PlacesOK, WorkApproved, Working
  <2>6. VersionsSound' /\ SingleWriter' /\ JanitorOK'
    BY <2>2, <2>4 DEF IInv, VersionsSound, Sound, SingleWriter, JanitorOK, Threads
  <2>7. DecisionKept'
    BY <2>3, <2>4 DEF DecisionKept, Decided
  <2>8. OpenRow'
    BY <2>3, <2>4 DEF IInv, OpenRow, Undecided
  <2> QED
    BY <1>t, <2>5, <2>6, <2>7, <2>8 DEF IInv
<1>10. CASE GateStillWaiting
  <2>1. Goto("waiting") /\ pc = "gate" /\ dump["runner"] = NoDump
    BY <1>10 DEF GateStillWaiting, At
  <2>2. task.risk # "none"
    BY <2>1 DEF IInv, PlacesOK
  <2> QED
    BY <1>t, <2>1, <2>2, GotoKeeps DEF Working
<1>11. CASE WaitDecided
  <2>1. /\ pc = "waiting" /\ dump["runner"] = NoDump /\ row.decision # "none"
        /\ task' = [task EXCEPT !.decision = row.decision]
        /\ \/ row.decision = "yes" /\ pc' = "start"
           \/ row.decision = "no" /\ pc' = "finish" /\ outcome' = "denied"
        /\ UNCHANGED <<row, dump, fresh>>
    BY <1>11 DEF WaitDecided, At
  <2>2. /\ task'.planned = task.planned /\ task'.risk = task.risk
        /\ task'.auto = task.auto /\ task'.status = task.status
        /\ task'.decision = row.decision
    BY <1>t, <2>1 DEF Task
  <2>3. decisions' = decisions /\ claims' = claims /\ jan' = jan
    BY <1>t DEF history
  <2>4. PlacesOK' /\ WorkApproved'
    BY <1>i, <2>1, <2>2 DEF IInv, PlacesOK, WorkApproved, Working, TerminalStatuses
  <2>5. VersionsSound' /\ SingleWriter' /\ JanitorOK'
    BY <1>i, <2>1, <2>2, <2>3
       DEF IInv, VersionsSound, Sound, SingleWriter, JanitorOK
  <2>6. DecisionKept'
    BY <1>i, <2>1, <2>2, <2>3 DEF IInv, DecisionKept, Decided
  <2>7. OpenRow'
    BY <1>i, <2>1, <2>2 DEF IInv, OpenRow, Undecided
  <2> QED
    BY <1>t, <2>4, <2>5, <2>6, <2>7 DEF IInv
<1>12. CASE WaitExpires
  <2> DEFINE t == [task EXCEPT !.decision = "no"]
  <2>1. /\ Emit(t, "finish") /\ pc = "waiting" /\ dump["runner"] = NoDump
        /\ outcome' = "denied"
    BY <1>12 DEF WaitExpires, At
  <2>2. /\ t.planned = task.planned /\ t.risk = task.risk /\ t.auto = task.auto
        /\ t.status = task.status /\ t.decision = "no"
    BY <1>t DEF Task
  <2> HIDE DEF t
  <2>3. /\ task' = t /\ dump'["runner"] = t /\ dump'["janitor"] = dump["janitor"]
        /\ pc' = "finish" /\ UNCHANGED <<row, fresh, decisions, claims, jan>>
    BY <1>t, <2>1 DEF Emit, IInv, TypeOK, Threads, history
  <2>4. PlacesOK' /\ WorkApproved'
    BY <2>1, <2>3 DEF PlacesOK, WorkApproved, Working, TerminalStatuses
  <2>5. VersionsSound' /\ SingleWriter' /\ JanitorOK'
    BY <1>i, <2>2, <2>3
       DEF IInv, VersionsSound, Sound, SingleWriter, JanitorOK, Threads
  <2>6. DecisionKept'
    BY <1>i, <2>2, <2>3 DEF IInv, DecisionKept, Decided, Threads
  <2>7. OpenRow'
    BY <1>i, <2>2, <2>3 DEF IInv, OpenRow, Undecided
  <2> QED
    BY <1>t, <2>4, <2>5, <2>6, <2>7 DEF IInv
<1> QED
  BY <1>1, <1>2, <1>3, <1>4, <1>5, <1>6, <1>7, <1>8, <1>9, <1>10, <1>11, <1>12

\* The rounds and the end of the run.
LEMMA RunnerInv ==
  ASSUME IInv, Run
  PROVE  IInv'
<1>t. TypeInv /\ TypeOK' /\ UNCHANGED <<jan, history>> /\ task \in Task
  BY RunFacts
<1>n. \A place : At(place) => pc = place /\ dump["runner"] = NoDump
  BY DEF At
<1>w. pc \in Working \ {"start"} => task.status # "awaiting_approval"
  BY DEF IInv, PlacesOK, Working
<1>r. ASSUME NEW failure, Raise(failure), dump["runner"] = NoDump,
             pc \notin {"enter", "gate", "waiting", "start", "finish", "down"}
      PROVE  IInv'
  <2>1. task.status # "awaiting_approval" /\ ~Parked
    BY <1>r DEF IInv, PlacesOK, Parked
  <2> QED
    BY <1>r, <1>t, <2>1, GotoKeeps DEF Raise, Working
<1>1. CASE RunnerFlush
  BY <1>1, <1>t, FlushKeeps DEF RunnerFlush, Threads
<1>2. CASE ModelFails
  BY <1>2, <1>n, <1>r DEF ModelFails
<1>3. CASE Start
  <2>1. /\ WithStatus(task, "running") \in Task
        /\ WithStatus(task, "running").decision = task.decision
        /\ WithStatus(task, "running").risk = task.risk
        /\ WithStatus(task, "running").auto = task.auto
        /\ WithStatus(task, "running").status = "running"
    BY <1>t, WithStatusType DEF WithStatus, Task, TaskStatus, ActiveStatuses
  <2> QED
    BY <1>3, <1>n, <2>1, WorkEmit DEF Start, Working
<1>4. CASE EnterVerifier
  <2>1. /\ WithStatus(task, "verifying") \in Task
        /\ WithStatus(task, "verifying").decision = task.decision
        /\ WithStatus(task, "verifying").risk = task.risk
        /\ WithStatus(task, "verifying").auto = task.auto
        /\ WithStatus(task, "verifying").status = "verifying"
    BY <1>t, WithStatusType DEF WithStatus, Task, TaskStatus, ActiveStatuses
  <2> QED
    BY <1>4, <1>n, <2>1, WorkEmit DEF EnterVerifier, Working
<1>5. ASSUME NEW s \in Steps, EnterWorker(s) PROVE IInv'
  BY <1>5, <1>n, WorkGoto DEF EnterWorker, Working
<1>s. ASSUME NEW s \in Steps, NEW status \in StepStatus
      PROVE  /\ WithStep(task, s, status) \in Task
             /\ WithStep(task, s, status).decision = task.decision
             /\ WithStep(task, s, status).risk = task.risk
             /\ WithStep(task, s, status).auto = task.auto
             /\ WithStep(task, s, status).status = task.status
  BY <1>t, WithStepType DEF WithStep, Task
<1>6. ASSUME NEW s \in Steps, StartStep(s) PROVE IInv'
  BY <1>6, <1>n, <1>w, <1>s, WorkEmit DEF StartStep, StepStatus, Working
<1>7. ASSUME NEW s \in Steps, Attempt(s) PROVE IInv'
  <2> DEFINE t == [task EXCEPT !.steps[s].attempts = @ + 1]
  <2>1. Emit(t, "call") /\ pc = "attempt" /\ dump["runner"] = NoDump
    BY <1>7, <1>n DEF Attempt
  <2>2. /\ t.decision = task.decision /\ t.risk = task.risk
        /\ t.auto = task.auto /\ t.status = task.status
    BY <1>t DEF Task
  <2> HIDE DEF t
  <2>3. t \in Task
    BY <1>t, <2>1 DEF Emit, TypeOK
  <2> QED
    BY <1>w, <2>1, <2>2, <2>3, WorkEmit DEF Working
<1>8. ASSUME NEW s \in Steps, Call(s) PROVE IInv'
  BY <1>8, <1>n, WorkGoto DEF Call, Working
<1>9. ASSUME NEW s \in Steps, NEW verdict, CallReturns(s, verdict) PROVE IInv'
  <2> DEFINE u == WithStep(task, s, "completed")
             t == [u EXCEPT !.verified = IF s = Verifier THEN verdict ELSE @]
  <2>1. Emit(t, "round") /\ pc = "calling" /\ dump["runner"] = NoDump
    BY <1>9, <1>n DEF CallReturns
  <2>2. /\ u \in Task /\ u.decision = task.decision /\ u.risk = task.risk
        /\ u.auto = task.auto /\ u.status = task.status
    BY <1>s DEF StepStatus
  <2> HIDE DEF u
  <2>3. /\ t.decision = u.decision /\ t.risk = u.risk
        /\ t.auto = u.auto /\ t.status = u.status
    BY <2>2 DEF Task
  <2> HIDE DEF t
  <2>4. t \in Task
    BY <1>t, <2>1 DEF Emit, TypeOK
  <2> QED
    BY <1>w, <2>1, <2>2, <2>3, <2>4, WorkEmit DEF Working
<1>10. ASSUME NEW s \in Steps, CallFails(s) PROVE IInv'
  BY <1>10, <1>n, <1>w, <1>s, WorkEmit DEF CallFails, StepStatus, Working
<1>11. CASE CallRetries
  BY <1>11, <1>n, <1>w, <1>t, WorkEmit DEF CallRetries, Working
<1>12. CASE RoundPassed
  BY <1>12, <1>n, WorkGoto DEF RoundPassed, Working
<1>13. CASE StartRework
  <2> DEFINE t == [task EXCEPT !.rework = @ + 1]
  <2>1. Emit(t, "reset") /\ pc = "round" /\ dump["runner"] = NoDump
    BY <1>13, <1>n DEF StartRework
  <2>2. /\ t.decision = task.decision /\ t.risk = task.risk
        /\ t.auto = task.auto /\ t.status = task.status
    BY <1>t DEF Task
  <2> HIDE DEF t
  <2>3. t \in Task
    BY <1>t, <2>1 DEF Emit, TypeOK
  <2> QED
    BY <1>w, <2>1, <2>2, <2>3, WorkEmit DEF Working
<1>14. CASE Reset
  <2> DEFINE t == WithStatus(ResetForRework(task), "running")
  <2>1. Emit(t, "round") /\ pc = "reset" /\ dump["runner"] = NoDump
    BY <1>14, <1>n DEF Reset
  <2>2. /\ t.decision = task.decision /\ t.risk = task.risk
        /\ t.auto = task.auto /\ t.status = "running"
    BY <1>t DEF Task, WithStatus, ResetForRework
  <2> HIDE DEF t
  <2>3. t \in Task
    BY <1>t, <2>1 DEF Emit, TypeOK
  <2> QED
    BY <2>1, <2>2, <2>3, WorkEmit DEF Working
<1>15. CASE GiveUp
  BY <1>15, <1>n, <1>r DEF GiveUp
<1>16. CASE Synthesize
  <2>1. /\ Emit(task, "finish") /\ outcome' = "completed" /\ pc = "synthesizing"
        /\ dump["runner"] = NoDump
    BY <1>16, <1>n DEF Synthesize
  <2> QED
    BY <1>t, <1>w, <2>1, EmitKeeps DEF Working, Parked, TerminalStatuses
<1>17. CASE Fail
  <2> DEFINE t == [task EXCEPT !.error = exc]
  <2>1. /\ Emit(t, "finish") /\ outcome' = "failed" /\ pc = "fail"
        /\ dump["runner"] = NoDump
    BY <1>17, <1>n DEF Fail
  <2>2. t.decision = task.decision /\ t.status = task.status
    BY <1>t DEF Task
  <2>3. task.status # "awaiting_approval" /\ ~Parked
    BY <2>1 DEF IInv, PlacesOK, Parked
  <2> HIDE DEF t
  <2>4. t \in Task
    BY <1>t, <2>1 DEF Emit, TypeOK
  <2> QED
    BY <1>t, <2>1, <2>2, <2>3, <2>4, EmitKeeps DEF Working, TerminalStatuses
<1>18. CASE Finish
  <2> DEFINE t == WithStatus(task, outcome)
  <2>1. Emit(t, "remember") /\ pc = "finish" /\ dump["runner"] = NoDump
    BY <1>18, <1>n DEF Finish
  <2>2. outcome \in TerminalStatuses
    BY <2>1 DEF IInv, PlacesOK
  <2>3. t.decision = task.decision /\ t.status = outcome
    BY <1>t DEF Task, WithStatus
  <2> HIDE DEF t
  <2>4. t \in Task
    BY <1>t, <2>1 DEF Emit, TypeOK
  <2> QED
    BY <1>t, <2>1, <2>2, <2>3, <2>4, EmitKeeps DEF Working, TerminalStatuses, Parked
<1>19. CASE Remember
  <2>1. Goto("close") /\ pc = "remember" /\ dump["runner"] = NoDump
    BY <1>19, <1>n DEF Remember
  <2>2. task.status # "awaiting_approval" /\ ~Parked
    BY <2>1 DEF IInv, PlacesOK, Parked
  <2> QED
    BY <1>t, <2>1, <2>2, GotoKeeps DEF Working
<1>20. CASE RememberFails
  <2>1. pc = "remember" /\ dump["runner"] = NoDump
    BY <1>20, <1>n DEF RememberFails
  <2>2. CASE Raise("memory")
    BY <2>1, <2>2, <1>r
  <2>3. CASE Goto("ended")
    <3>1. task.status # "awaiting_approval" /\ ~Parked
      BY <2>1 DEF IInv, PlacesOK, Parked
    <3> QED
      BY <1>t, <2>1, <2>3, <3>1, GotoKeeps DEF Working
  <2> QED
    BY <1>20, <2>2, <2>3 DEF RememberFails
<1>21. CASE Close
  <2>1. Emit(task, "ended") /\ pc = "close" /\ dump["runner"] = NoDump
    BY <1>21, <1>n DEF Close
  <2>2. task.status # "awaiting_approval" /\ ~Parked
    BY <2>1 DEF IInv, PlacesOK, Parked
  <2> QED
    BY <1>t, <2>1, <2>2, EmitKeeps DEF Working
<1> QED
  BY GateInv, <1>1, <1>2, <1>3, <1>4, <1>5, <1>6, <1>7, <1>8, <1>9, <1>10, <1>11,
     <1>12, <1>13, <1>14, <1>15, <1>16, <1>17, <1>18, <1>19, <1>20, <1>21
     DEF Run, RunnerStep

\* The reviewers, the janitor and the process.
LEMMA EnvironmentInv ==
  ASSUME IInv, ~Run, [Next]_vars
  PROVE  IInv'
<1>i. IInv
  OBVIOUS
<1>t. TypeOK /\ TypeOK'
  <2>1. TypeInv
    BY DEF IInv, PlacesOK, TypeInv
  <2> QED
    BY <2>1, EnvironmentType DEF TypeInv
<1>1. ASSUME NEW decision \in {"yes", "no"}, Decide(decision) PROVE IInv'
  <2>1. /\ Undecided(row) /\ dump["runner"] = NoDump
        /\ task' = [task EXCEPT !.decision = decision] /\ row' = task' /\ ~fresh'
        /\ decisions' = Append(decisions, decision)
        /\ UNCHANGED <<dump, pc, outcome, jan, claims>>
    BY <1>1 DEF Decide, Undecided, control
  <2>2. ~Decided
    BY <2>1 DEF IInv, DecisionKept, Undecided
  <2>3. decisions' = <<decision>> /\ claims = 0
    <3>1. decisions = <<>> /\ claims = 0
      BY <2>2 DEF Decided
    <3>2. Append(<<>>, decision) = <<decision>>
      OBVIOUS
    <3> QED
      BY <2>1, <3>1, <3>2
  <2>4. dump["janitor"] = NoDump /\ jan \in {"idle", "read"}
    BY <2>3 DEF IInv, JanitorOK
  <2>5. /\ task'.planned = task.planned /\ task'.risk = task.risk
        /\ task'.auto = task.auto /\ task'.status = task.status
        /\ task'.decision = decision
    BY <1>t, <2>1 DEF TypeOK, Task
  <2>6. pc # "down"
    BY <1>1 DEF Decide, Awaiting
  <2>8. task.decision # "yes"
    BY <2>2 DEF IInv, VersionsSound, Sound, Decided
  <2>9. PlacesOK'
    BY <1>i, <2>1, <2>5, <2>6 DEF IInv, PlacesOK
  <2>10. WorkApproved'
    BY <1>i, <2>1, <2>5, <2>8 DEF IInv, WorkApproved
  <2>11. VersionsSound'
    BY <1>i, <2>1, <2>3, <2>4, <2>5 DEF IInv, VersionsSound, Sound, Threads
  <2>12. SingleWriter'
    BY <2>1, <2>3 DEF SingleWriter
  <2>13. DecisionKept'
    BY <2>1, <2>4, <2>5 DEF DecisionKept, Threads
  <2>14. OpenRow' /\ JanitorOK'
    BY <1>i, <2>1, <2>4, <2>5 DEF IInv, OpenRow, Undecided, JanitorOK
  <2> QED
    BY <1>t, <2>9, <2>10, <2>11, <2>12, <2>13, <2>14 DEF IInv
<1>2. CASE JanitorRead
  <2>1. /\ jan' = "read" /\ dump["janitor"] = NoDump /\ pc # "down" /\ Undecided(row)
        /\ jan = "idle"
        /\ UNCHANGED <<row, task, dump, pc, outcome, decisions, claims>>
    BY <1>2 DEF JanitorRead, control, history, Undecided
  <2>2. ~Decided
    BY <2>1 DEF IInv, DecisionKept, Undecided
  <2> QED
    BY <1>i, <1>t, <2>1, <2>2
       DEF IInv, PlacesOK, VersionsSound, Sound, SingleWriter, DecisionKept, Decided,
           OpenRow, Undecided, Parked, JanitorOK, WorkApproved
<1>3. CASE JanitorClaim
  <2>1. /\ jan = "read" /\ jan' = "claimed" /\ fresh /\ ~fresh'
        /\ row' = [row EXCEPT !.decision = "no"] /\ claims' = claims + 1
        /\ UNCHANGED <<task, dump, pc, outcome, decisions>>
    BY <1>3 DEF JanitorClaim, control
  <2>2. Undecided(row)
    BY <2>1 DEF IInv, OpenRow
  <2>3. ~Decided
    BY <2>2 DEF IInv, DecisionKept, Undecided
  <2>4. /\ decisions = <<>> /\ claims = 0 /\ claims' = 1
    BY <1>t, <2>1, <2>3 DEF Decided, TypeOK
  <2>5. /\ row'.planned = row.planned /\ row'.risk = row.risk /\ row'.auto = row.auto
        /\ row'.status = row.status /\ row'.decision = "no"
    BY <1>t, <2>1 DEF TypeOK, Task
  <2>6. dump["janitor"] = NoDump /\ pc # "down"
    BY <2>1 DEF IInv, JanitorOK, PlacesOK
  <2>7. /\ task.decision # "yes" /\ row.decision # "yes"
        /\ \A t \in Threads : dump[t] # NoDump => dump[t].decision # "yes"
    BY <2>4 DEF IInv, VersionsSound, Sound
  <2>8. PlacesOK' /\ WorkApproved'
    BY <1>i, <2>1, <2>6 DEF IInv, PlacesOK, WorkApproved
  <2>9. VersionsSound'
    BY <1>i, <2>1, <2>5, <2>7 DEF IInv, VersionsSound, Sound
  <2>10. SingleWriter'
    BY <2>1, <2>4 DEF SingleWriter
  <2>11. DecisionKept'
    BY <1>i, <2>1, <2>2, <2>5, <2>6 DEF IInv, DecisionKept, OpenRow, Threads, Parked
  <2>12. OpenRow' /\ JanitorOK'
    BY <1>i, <2>1, <2>4, <2>5, <2>6 DEF IInv, OpenRow, Undecided, JanitorOK
  <2> QED
    BY <1>t, <2>8, <2>9, <2>10, <2>11, <2>12 DEF IInv
<1>4. CASE JanitorMiss
  <2>1. /\ jan = "read" /\ jan' = "idle"
        /\ UNCHANGED <<row, task, dump, pc, outcome, fresh, decisions, claims>>
    BY <1>4 DEF JanitorMiss, control, history
  <2> QED
    BY <1>i, <1>t, <2>1
       DEF IInv, PlacesOK, VersionsSound, Sound, SingleWriter, DecisionKept, Decided,
           OpenRow, Undecided, Parked, JanitorOK, WorkApproved
\* An emit of the janitor, whose claim is on record.
<1>e. ASSUME NEW t \in Task, JanitorEmit(t), jan \in {"claimed", "deny", "close"},
             jan' \in {"idle", "deny", "remember"},
             UNCHANGED <<row, pc, outcome, fresh, decisions, claims>>,
             t.decision # "none", t.decision = "yes" => task.decision = "yes",
             t.planned = task.planned, t.risk = task.risk, t.auto = task.auto,
             t.status = task.status \/ t.status = "denied"
      PROVE  IInv'
  <2>1. /\ task' = t /\ dump'["janitor"] = t /\ dump'["runner"] = dump["runner"]
    BY <1>e, <1>t DEF JanitorEmit, TypeOK, Threads
  <2>2. Decided /\ pc # "down" /\ claims # 0
    BY <1>e DEF IInv, JanitorOK, PlacesOK, Decided
  <2>3. row.decision # "none" /\ (dump["runner"] # NoDump => dump["runner"].decision # "none")
    BY <2>2 DEF IInv, DecisionKept, Threads
  <2>4. PlacesOK'
    BY <1>i, <1>e, <2>1, <2>2 DEF IInv, PlacesOK, Working
  <2>5. task.decision # "yes"
    BY <2>2 DEF IInv, VersionsSound, Sound
  <2>6. WorkApproved'
    BY <1>i, <1>e, <2>1, <2>5 DEF IInv, WorkApproved
  <2>7. VersionsSound' /\ SingleWriter'
    BY <1>i, <1>e, <2>1, <2>5 DEF IInv, VersionsSound, Sound, SingleWriter, Threads
  <2>8. DecisionKept'
    BY <1>e, <2>1, <2>3 DEF DecisionKept, Threads
  <2>9. OpenRow' /\ JanitorOK'
    BY <1>i, <1>e, <2>1, <2>2, <2>3 DEF IInv, OpenRow, Undecided, JanitorOK
  <2> QED
    BY <1>t, <2>4, <2>6, <2>7, <2>8, <2>9 DEF IInv
<1>5. CASE JanitorTimeout
  <2> DEFINE t == [task EXCEPT !.decision = "no"]
  <2>1. /\ JanitorEmit(t) /\ jan = "claimed" /\ jan' = "deny"
        /\ UNCHANGED <<row, pc, outcome, fresh, decisions, claims>>
    BY <1>5 DEF JanitorTimeout, control, history
  <2>2. /\ t \in Task /\ t.decision = "no" /\ t.planned = task.planned
        /\ t.risk = task.risk /\ t.auto = task.auto /\ t.status = task.status
    BY <1>t DEF TypeOK, Task, Decision
  <2> HIDE DEF t
  <2> QED
    BY <2>1, <2>2, <1>e
<1>d. jan \in {"deny", "close"} => task.decision # "none"
  BY DEF IInv, JanitorOK, DecisionKept, Decided
<1>6. CASE JanitorDeny
  <2> DEFINE t == WithStatus(task, "denied")
  <2>1. /\ JanitorEmit(t) /\ jan = "deny" /\ jan' = "remember"
        /\ UNCHANGED <<row, pc, outcome, fresh, decisions, claims>>
    BY <1>6 DEF JanitorDeny, control, history
  <2>2. /\ t \in Task /\ t.decision = task.decision /\ t.planned = task.planned
        /\ t.risk = task.risk /\ t.auto = task.auto /\ t.status = "denied"
    BY <1>t, WithStatusType DEF TypeOK, Task, WithStatus, TaskStatus, TerminalStatuses
  <2> HIDE DEF t
  <2> QED
    BY <2>1, <2>2, <1>d, <1>e
<1>7. CASE JanitorRemember
  <2>1. /\ jan = "remember" /\ jan' \in {"close", "idle"} /\ dump["janitor"] = NoDump
        /\ UNCHANGED <<row, task, dump, pc, outcome, fresh, decisions, claims>>
    BY <1>7 DEF JanitorRemember, control, history
  <2> QED
    BY <1>i, <1>t, <2>1
       DEF IInv, PlacesOK, VersionsSound, Sound, SingleWriter, DecisionKept, Decided,
           OpenRow, Undecided, Parked, JanitorOK, WorkApproved
<1>8. CASE JanitorClose
  <2>1. /\ JanitorEmit(task) /\ jan = "close" /\ jan' = "idle" /\ task \in Task
        /\ UNCHANGED <<row, pc, outcome, fresh, decisions, claims>>
    BY <1>8, <1>t DEF JanitorClose, control, history, TypeOK
  <2> QED
    BY <2>1, <1>d, <1>e
<1>9. CASE JanitorFlush
  BY <1>9, <1>t, FlushKeeps DEF JanitorFlush, Threads
<1>10. CASE Crash
  <2>1. /\ task' = row /\ row' = row /\ dump' = [t \in Threads |-> NoDump]
        /\ pc' = "down" /\ jan' = "idle" /\ ~fresh'
        /\ decisions' = decisions /\ claims' = claims /\ Decided' = Decided
    BY <1>10 DEF Crash, Decided
  <2>2. \A t \in Threads : dump'[t] = NoDump
    BY <2>1
  <2>3. PlacesOK' /\ WorkApproved'
    BY <2>1 DEF PlacesOK, WorkApproved, Working
  <2>4. VersionsSound' /\ SingleWriter'
    BY <1>i, <2>1, <2>2 DEF IInv, VersionsSound, Sound, SingleWriter
  <2>5. DecisionKept' /\ OpenRow' /\ JanitorOK'
    BY <1>i, <2>1, <2>2 DEF IInv, DecisionKept, OpenRow, JanitorOK, Threads
  <2> QED
    BY <1>t, <2>3, <2>4, <2>5 DEF IInv
<1>11. CASE Restart
  <2>1. /\ pc = "down" /\ pc' \in {"enter", "ended"}
        /\ pc' = "ended" => row.status \notin ActiveStatuses
        /\ UNCHANGED <<row, task, dump, fresh, outcome, jan, decisions, claims>>
    BY <1>11 DEF Restart, history
  <2>2. /\ task = row /\ jan = "idle" /\ dump["runner"] = NoDump
        /\ dump["janitor"] = NoDump
    BY <2>1 DEF IInv, PlacesOK, Threads
  <2>3. PlacesOK' /\ WorkApproved'
    BY <2>1, <2>2 DEF PlacesOK, WorkApproved, Working, ActiveStatuses
  <2>4. VersionsSound' /\ SingleWriter' /\ JanitorOK'
    BY <1>i, <2>1 DEF IInv, VersionsSound, Sound, SingleWriter, JanitorOK
  <2>5. ~(Decided /\ task.decision = "none")
    BY <2>1, <2>2 DEF IInv, DecisionKept
  <2>6. DecisionKept'
    BY <1>i, <2>1, <2>5 DEF IInv, DecisionKept, Decided
  <2>7. OpenRow'
    BY <1>i, <2>1, <2>2 DEF IInv, OpenRow, Undecided, Parked, ActiveStatuses
  <2> QED
    BY <1>t, <2>3, <2>4, <2>6, <2>7 DEF IInv
<1>12. CASE UNCHANGED vars
  BY <1>12, <1>i, <1>t
     DEF vars, control, memory, history, IInv, PlacesOK, VersionsSound, Sound, SingleWriter,
         DecisionKept, Decided, OpenRow, Undecided, Parked, JanitorOK, WorkApproved
<1> QED
  BY <1>1, <1>2, <1>3, <1>4, <1>5, <1>6, <1>7, <1>8, <1>9, <1>10, <1>11, <1>12
     DEF Next, JanitorStep, Terminated

LEMMA Invariance == Spec => []IInv
<1>1. IInv /\ [Next]_vars => IInv'
  BY RunnerInv, EnvironmentInv
<1> QED
  BY InitInv, <1>1, PTL DEF Spec

\* decide_approval and expire_approval accept at most one decision for a task,
\* whatever the bound on crashes and however long the plan.
THEOREM DecidedOnce == Spec => []SingleWriter
<1>1. IInv => SingleWriter
  BY DEF IInv
<1> QED
  BY <1>1, Invariance, PTL

\* No agent is called for a plan that needs an approval it was not given.
THEOREM WorkIsApproved == Spec => []OnlyApprovedWork
<1>1. ASSUME IInv, pc = "calling"
      PROVE  \/ task.risk = "low"
             \/ task.risk = "high" /\ task.auto
             \/ task.risk = "high" /\ decisions = <<"yes">> /\ claims = 0
  <2>1. task.risk \in {"low", "high"}
    BY <1>1 DEF IInv, TypeOK, Task, Risk, PlacesOK, Working
  <2>2. task.risk = "high" /\ ~task.auto => decisions = <<"yes">> /\ claims = 0
    BY <1>1 DEF IInv, WorkApproved, VersionsSound, Sound, Working
  <2> QED
    BY <2>1, <2>2
<1>2. IInv => OnlyApprovedWork
  BY <1>1 DEF OnlyApprovedWork
<1> QED
  BY <1>2, Invariance, PTL
-----------------------------------------------------------------------------
(***************************************************************************)
(* The in-process mode implements the abstract approval gate, for every    *)
(* plan length, retry budget and number of crashes: each of its steps is a *)
(* step of ApprovalGate on what the row and the runner's place say, or     *)
(* leaves that as it is.                                                   *)
(*                                                                         *)
(* The gate speaks of the row, the runner acts on its live object, and     *)
(* payloads are under way from the one to the other.  GInv says how far    *)
(* the three may differ in what the gate is about.                         *)
(***************************************************************************)

\* A payload under way carries the assessment and the decision of the live object.
PayloadsAgree ==
  \A t \in Threads : dump[t] # NoDump =>
    /\ dump[t].risk = task.risk /\ dump[t].auto = task.auto
    /\ dump[t].decision = task.decision

\* An assessment belongs to a plan, whichever version of the task it is in.
Assessed(v) == v.risk # "none" => v.planned

RiskAgrees ==
  /\ row.auto = task.auto
  /\ row.risk # "none" => row.risk = task.risk
  /\ dump["runner"] = NoDump => row.risk = task.risk
  /\ claims # 0 => row.risk = "high"
  /\ Assessed(row) /\ Assessed(task)
  /\ \A t \in Threads : dump[t] # NoDump => Assessed(dump[t])

\* The decision the runner knows is the row's, but for the moment between its
\* deadline and the commit of that, and the moment it has not learned of a no.
DecisionAgrees ==
  /\ dump["runner"] = NoDump /\ task.decision # "none" => row.decision = task.decision
  /\ row.decision = "no" => task.decision = "no" \/ (task.decision = "none" /\ Parked)
  /\ dump["runner"] # NoDump /\ dump["runner"].decision # row.decision =>
       /\ pc = "finish" /\ row.risk = "high" /\ ~row.auto
       /\ dump["runner"].decision = "no"

GatePlaces ==
  /\ pc \in {"planning", "assess", "assessing"} => task.risk = "none"
  /\ pc = "waiting" => task.risk = "high" /\ ~task.auto

GInv == PayloadsAgree /\ RiskAgrees /\ DecisionAgrees /\ GatePlaces

-----------------------------------------------------------------------------
\* A new task agrees with itself.
LEMMA InitGInv == Init => GInv
<1> SUFFICES ASSUME Init PROVE GInv
  OBVIOUS
<1>1. PICK auto \in BOOLEAN : task = NewTask(auto)
  BY DEF Init, RunnerInit
<1>2. /\ row = task /\ pc = "enter" /\ claims = 0
      /\ \A t \in Threads : dump[t] = NoDump
  BY DEF Init, RunnerInit
<1>3. task.risk = "none" /\ task.decision = "none"
  BY <1>1 DEF NewTask
<1> QED
  BY <1>2, <1>3
     DEF GInv, PayloadsAgree, RiskAgrees, Assessed, DecisionAgrees, GatePlaces, Threads

\* A version that says yes means that the janitor has claimed nothing, and one
\* that is under way from the janitor means that it has.
LEMMA ClaimFacts ==
  ASSUME IInv
  PROVE  /\ row.decision = "yes" \/ task.decision = "yes" => claims = 0 /\ Decided
         /\ dump["janitor"] # NoDump => claims # 0 /\ jan \notin {"read", "claimed"}
         /\ claims # 0 => Decided
         /\ row.decision \in Decision /\ task.decision \in Decision
<1>1. decisions = <<"yes">> => decisions # <<>>
  OBVIOUS
<1> QED
  BY <1>1 DEF IInv, VersionsSound, Sound, JanitorOK, Decided, TypeOK, Task

\* A step of the runner that leaves row, assessment and decision alone, and
\* writes at most the live object, keeps what the gate speaks of.
LEMMA QuietStepKeeps ==
  ASSUME IInv, GInv, TypeOK', dump["runner"] = NoDump,
         UNCHANGED <<row, claims>>, dump'["janitor"] = dump["janitor"],
         dump'["runner"] \in {NoDump, task'},
         task'.auto = task.auto, task'.risk = task.risk,
         task'.decision = task.decision, task.planned => task'.planned,
         Parked => Parked',
         pc' \in {"planning", "assess", "assessing"} => task.risk = "none",
         pc' = "waiting" => task.risk = "high" /\ ~task.auto
  PROVE  GInv'
<1>1. \A t \in Threads : t = "runner" \/ t = "janitor"
  BY DEF Threads
<1>2. PayloadsAgree'
  BY <1>1 DEF GInv, PayloadsAgree, Threads
<1>3. RiskAgrees'
  BY <1>1 DEF GInv, RiskAgrees, Assessed, Threads
<1>4. DecisionAgrees'
  <2>1. task.decision = "none" /\ ~Parked => row.decision = "none"
    BY ClaimFacts DEF GInv, DecisionAgrees, IInv, DecisionKept, Decision
  <2>2. Parked => dump'["runner"] = NoDump
    BY DEF Parked
  <2> QED
    BY <2>1, <2>2 DEF GInv, DecisionAgrees
<1>5. GatePlaces'
  BY DEF GatePlaces
<1> QED
  BY <1>2, <1>3, <1>4, <1>5 DEF GInv

\* What a parked runner's task is like.
LEMMA ParkedFacts ==
  ASSUME IInv, Parked
  PROVE  /\ task.planned /\ task.risk = "high" /\ ~task.auto /\ task.decision = "none"
         /\ ~Unplanned(task) /\ ~MayRun(task)
BY DEF IInv, VersionsSound, Sound, Parked, Unplanned, MayRun

\* An emit, or a move, of a runner that is not parked.
LEMMA QuietEmit ==
  ASSUME IInv, GInv, TypeOK', NEW t, NEW next, Emit(t, next), dump["runner"] = NoDump,
         UNCHANGED claims, ~Parked,
         t.auto = task.auto, t.risk = task.risk, t.decision = task.decision,
         task.planned => t.planned,
         next \in {"planning", "assess", "assessing"} => task.risk = "none",
         next = "waiting" => task.risk = "high" /\ ~task.auto
  PROVE  GInv'
<1>1. /\ task' = t /\ pc' = next /\ UNCHANGED row
      /\ dump'["janitor"] = dump["janitor"] /\ dump'["runner"] = t
  BY DEF Emit, IInv, TypeOK, Threads
<1> QED
  BY <1>1, QuietStepKeeps

LEMMA QuietGoto ==
  ASSUME IInv, GInv, TypeOK', NEW next, Goto(next), dump["runner"] = NoDump,
         UNCHANGED claims, ~Parked,
         next \notin {"planning", "assess", "assessing", "waiting"}
  PROVE  GInv'
<1>1. pc' = next /\ UNCHANGED <<row, task, dump>>
  BY DEF Goto
<1> QED
  BY <1>1, QuietStepKeeps

-----------------------------------------------------------------------------
\* Up to the gate.
LEMMA BeforeGateKeeps ==
  ASSUME IInv, GInv, TypeOK', UNCHANGED claims,
         \/ EnterPlanning \/ EnterResume \/ Plan \/ StartAssessing
         \/ \E risk \in {"low", "high"} : Assess(risk)
         \/ ModelFails
  PROVE  GInv'
<1>t. task \in Task
  BY DEF IInv, TypeOK
<1>n. dump["runner"] = NoDump
  BY DEF EnterPlanning, EnterResume, Plan, StartAssessing, Assess, ModelFails, At
<1>1. CASE EnterPlanning
  <2> DEFINE t == WithStatus(task, "planning")
  <2>1. Emit(t, "planning") /\ Unplanned(task)
    BY <1>1 DEF EnterPlanning
  <2>2. /\ t.auto = task.auto /\ t.risk = task.risk /\ t.decision = task.decision
        /\ t.planned = task.planned
    BY <1>t DEF Task, WithStatus
  <2>3. task.risk = "none" /\ ~Parked
    BY <2>1, ParkedFacts DEF GInv, RiskAgrees, Assessed, Unplanned
  <2> HIDE DEF t
  <2> QED
    BY <1>n, <2>1, <2>2, <2>3, QuietEmit
<1>2. CASE EnterResume
  <2>1. /\ task' = Resumed(task) /\ pc = "enter" /\ pc' = "gate" /\ UNCHANGED <<row, dump>>
    BY <1>2 DEF EnterResume, At
  <2>2. /\ task'.auto = task.auto /\ task'.risk = task.risk /\ task'.decision = task.decision
        /\ task'.planned = task.planned /\ task'.status = task.status
    BY <1>t, <2>1 DEF Task, Resumed
  <2>3. Parked => Parked'
    BY <2>1, <2>2 DEF Parked
  <2> QED
    BY <1>n, <2>1, <2>2, <2>3, QuietStepKeeps
<1>3. CASE Plan
  <2> DEFINE t == [task EXCEPT !.planned = TRUE, !.steps = NewPlan]
  <2>1. Emit(t, "assess") /\ pc = "planning"
    BY <1>3 DEF Plan, At
  <2>2. /\ t.auto = task.auto /\ t.risk = task.risk /\ t.decision = task.decision
        /\ t.planned
    BY <1>t DEF Task
  <2>3. task.risk = "none" /\ ~Parked
    BY <2>1 DEF GInv, GatePlaces, Parked
  <2> HIDE DEF t
  <2> QED
    BY <1>n, <2>1, <2>2, <2>3, QuietEmit
<1>4. CASE StartAssessing
  <2> DEFINE t == WithStatus(task, "assessing_risk")
  <2>1. Emit(t, "assessing") /\ pc = "assess"
    BY <1>4 DEF StartAssessing, At
  <2>2. /\ t.auto = task.auto /\ t.risk = task.risk /\ t.decision = task.decision
        /\ t.planned = task.planned
    BY <1>t DEF Task, WithStatus
  <2>3. task.risk = "none" /\ ~Parked
    BY <2>1 DEF GInv, GatePlaces, Parked
  <2> HIDE DEF t
  <2> QED
    BY <1>n, <2>1, <2>2, <2>3, QuietEmit
<1>5. ASSUME NEW risk \in {"low", "high"}, Assess(risk) PROVE GInv'
  <2>1. /\ pc = "assessing" /\ pc' = "gate" /\ UNCHANGED row
        /\ task' = [task EXCEPT !.risk = risk]
        /\ dump' = [dump EXCEPT !["runner"] = task']
    BY <1>5 DEF Assess, At, Emit
  <2>2. /\ task'.auto = task.auto /\ task'.risk = risk /\ task'.decision = task.decision
        /\ task'.planned = task.planned
    BY <1>t, <2>1 DEF Task
  <2>3. task.planned /\ task.risk = "none" /\ row.risk = "none" /\ ~Parked
    BY <1>n, <2>1 DEF IInv, PlacesOK, GInv, GatePlaces, RiskAgrees, Parked
  <2>4. claims = 0 /\ dump["janitor"] = NoDump
    BY <2>3, ClaimFacts DEF GInv, RiskAgrees
  <2>5. dump'["runner"] = task' /\ dump'["janitor"] = NoDump
    BY <2>1, <2>4 DEF IInv, TypeOK, Threads
  <2>6. \A t \in Threads : t = "runner" \/ t = "janitor"
    BY DEF Threads
  <2>7. PayloadsAgree'
    BY <2>5, <2>6 DEF PayloadsAgree, Threads
  <2>e. dump'["runner"] # NoDump
    BY <2>5, NoDumpAssumption DEF TypeOK
  <2>8. RiskAgrees'
    BY <2>1, <2>2, <2>3, <2>4, <2>5, <2>6, <2>e DEF GInv, RiskAgrees, Assessed
  <2>9. DecisionAgrees'
    <3>1. task.decision = "none" => row.decision = "none"
      BY <2>3, ClaimFacts DEF GInv, DecisionAgrees, IInv, DecisionKept, Decision
    <3>2. task.decision # "none" => row.decision = task.decision
      BY <1>n DEF GInv, DecisionAgrees
    <3> QED
      BY <2>1, <2>2, <2>5, <2>e, <3>1, <3>2 DEF DecisionAgrees
  <2>10. GatePlaces'
    BY <2>1 DEF GatePlaces
  <2> QED
    BY <2>7, <2>8, <2>9, <2>10 DEF GInv
<1>6. CASE ModelFails
  <2>1. Goto("fail") /\ ~Parked
    BY <1>6 DEF ModelFails, Raise, At, Parked
  <2> QED
    BY <1>n, <2>1, QuietGoto
<1> QED
  BY <1>1, <1>2, <1>3, <1>4, <1>5, <1>6

\* At the gate.
LEMMA AtGateKeeps ==
  ASSUME IInv, GInv, TypeOK', UNCHANGED claims,
         \/ GateOpen \/ GateAuto \/ GateRefused \/ GateRequest \/ GateStillWaiting
         \/ WaitDecided \/ WaitExpires
  PROVE  GInv'
<1>t. task \in Task
  BY DEF IInv, TypeOK
<1>n. dump["runner"] = NoDump
  BY DEF GateOpen, GateAuto, GateRefused, GateRequest, GateStillWaiting, WaitDecided,
         WaitExpires, At
<1>r. pc = "gate" => task.risk # "none"
  BY DEF IInv, PlacesOK
<1>1. CASE GateOpen
  BY <1>1, <1>n, ParkedFacts, QuietGoto DEF GateOpen
<1>2. CASE GateAuto
  BY <1>2, <1>n, ParkedFacts, QuietEmit DEF GateAuto
<1>3. CASE GateRefused
  BY <1>3, <1>n, ParkedFacts, QuietGoto DEF GateRefused, Deny
<1>4. CASE GateRequest
  <2> DEFINE t == [task EXCEPT !.status = "awaiting_approval", !.decision = "none"]
  <2>1. /\ Emit(t, "waiting") /\ ~MayRun(task) /\ task.decision = "none"
        /\ task.status # "awaiting_approval"
    BY <1>4 DEF GateRequest
  <2>2. /\ t.auto = task.auto /\ t.risk = task.risk /\ t.decision = task.decision
        /\ t.planned = task.planned
    BY <1>t, <2>1 DEF Task
  <2>3. task.risk = "high" /\ ~task.auto /\ ~Parked
    BY <2>1 DEF MayRun, Parked
  <2> HIDE DEF t
  <2> QED
    BY <1>n, <2>1, <2>2, <2>3, QuietEmit
<1>5. CASE GateStillWaiting
  <2>1. /\ pc' = "waiting" /\ UNCHANGED <<row, task, dump>>
        /\ task.risk = "high" /\ ~task.auto
    BY <1>5 DEF GateStillWaiting, Goto, MayRun
  <2>2. Parked => Parked'
    BY <2>1 DEF Parked
  <2> QED
    BY <1>n, <2>1, <2>2, QuietStepKeeps
<1>6. CASE WaitDecided
  <2>1. /\ row.decision # "none" /\ task' = [task EXCEPT !.decision = row.decision]
        /\ pc' \in {"start", "finish"} /\ UNCHANGED <<row, dump>>
    BY <1>6 DEF WaitDecided
  <2>2. /\ task'.auto = task.auto /\ task'.risk = task.risk /\ task'.planned = task.planned
        /\ task'.decision = row.decision
    BY <1>t, <2>1 DEF Task
  <2>3. dump["janitor"] # NoDump => row.decision = task.decision
    BY <2>1, <1>n, ClaimFacts DEF IInv, DecisionKept, GInv, DecisionAgrees
  <2>4. \A t \in Threads : t = "runner" \/ t = "janitor"
    BY DEF Threads
  <2>5. PayloadsAgree' /\ RiskAgrees'
    BY <1>n, <2>1, <2>2, <2>3, <2>4 DEF GInv, PayloadsAgree, RiskAgrees, Assessed
  <2>6. DecisionAgrees' /\ GatePlaces'
    BY <1>n, <2>1, <2>2 DEF DecisionAgrees, GatePlaces
  <2> QED
    BY <2>5, <2>6 DEF GInv
<1>7. CASE WaitExpires
  <2>1. /\ pc = "waiting" /\ pc' = "finish" /\ UNCHANGED row
        /\ task' = [task EXCEPT !.decision = "no"]
        /\ dump' = [dump EXCEPT !["runner"] = task']
    BY <1>7 DEF WaitExpires, At, Emit
  <2>2. /\ task'.auto = task.auto /\ task'.risk = task.risk /\ task'.planned = task.planned
        /\ task'.decision = "no"
    BY <1>t, <2>1 DEF Task
  <2>3. row.risk = "high" /\ ~row.auto
    BY <1>n, <2>1 DEF GInv, GatePlaces, RiskAgrees
  <2>4. dump'["runner"] = task' /\ dump'["janitor"] = dump["janitor"]
    BY <2>1 DEF IInv, TypeOK, Threads
  <2>5. dump["janitor"] # NoDump => dump["janitor"].decision = "no"
    BY ClaimFacts DEF IInv, DecisionKept, GInv, PayloadsAgree, Threads, Decision
  <2>6. \A t \in Threads : t = "runner" \/ t = "janitor"
    BY DEF Threads
  <2>7. PayloadsAgree' /\ RiskAgrees'
    BY <2>1, <2>2, <2>4, <2>5, <2>6, NoDumpAssumption
       DEF GInv, PayloadsAgree, RiskAgrees, Assessed, TypeOK, Threads
  <2>8. dump'["runner"] # NoDump
    BY <2>4, NoDumpAssumption DEF TypeOK
  <2>9. DecisionAgrees' /\ GatePlaces'
    BY <2>1, <2>2, <2>3, <2>4, <2>8 DEF DecisionAgrees, GatePlaces
  <2> QED
    BY <2>7, <2>9 DEF GInv
<1> QED
  BY <1>1, <1>2, <1>3, <1>4, <1>5, <1>6, <1>7

\* Behind the gate, and at the end of a run.
LEMMA BehindGateKeeps ==
  ASSUME IInv, GInv, TypeOK', UNCHANGED claims,
         \/ Start \/ EnterVerifier
         \/ \E s \in Steps : \/ EnterWorker(s) \/ StartStep(s) \/ Attempt(s) \/ Call(s)
                             \/ \E verdict \in {"passed", "rejected"} : CallReturns(s, verdict)
                             \/ CallFails(s)
         \/ CallRetries \/ RoundPassed \/ StartRework \/ Reset \/ GiveUp
         \/ Synthesize \/ Fail \/ Finish \/ Remember \/ RememberFails \/ Close
  PROVE  GInv'
<1> DEFINE Same(t) == /\ t.auto = task.auto /\ t.risk = task.risk
                      /\ t.decision = task.decision /\ t.planned = task.planned
<1>t. task \in Task
  BY DEF IInv, TypeOK
<1>n. dump["runner"] = NoDump /\ pc \notin {"enter", "gate", "waiting"}
  BY DEF Start, EnterVerifier, EnterWorker, StartStep, Attempt, Call, CallReturns,
         CallFails, CallRetries, RoundPassed, StartRework, Reset, GiveUp, Synthesize,
         Fail, Finish, Remember, RememberFails, Close, At
<1>p. ~Parked
  BY <1>n DEF Parked
<1>e. ASSUME NEW t, NEW next, Emit(t, next), Same(t),
             next \notin {"planning", "assess", "assessing", "waiting"}
      PROVE  GInv'
  BY <1>e, <1>n, <1>p, QuietEmit
<1>g. ASSUME NEW next, Goto(next), next \notin {"planning", "assess", "assessing", "waiting"}
      PROVE  GInv'
  BY <1>g, <1>n, <1>p, QuietGoto
<1>s. ASSUME NEW status PROVE Same(WithStatus(task, status))
  BY <1>t DEF WithStatus, Task
<1>w. ASSUME NEW s \in Steps, NEW status PROVE Same(WithStep(task, s, status))
  BY <1>t DEF WithStep, Task
<1>o. Same(task)
  OBVIOUS
<1>1. CASE Start \/ EnterVerifier \/ Finish
  <2> HIDE DEF Same
  <2> QED
    BY <1>1, <1>e, <1>s DEF Start, EnterVerifier, Finish
<1>2. CASE RoundPassed \/ Remember \/ \E s \in Steps : EnterWorker(s) \/ Call(s)
  BY <1>2, <1>g DEF RoundPassed, Remember, EnterWorker, Call
<1>3. CASE CallRetries \/ Synthesize \/ Close
  <2> HIDE DEF Same
  <2> QED
    BY <1>3, <1>e, <1>o DEF CallRetries, Synthesize, Close
<1>4. CASE \E s \in Steps : StartStep(s) \/ CallFails(s)
  <2> HIDE DEF Same
  <2> QED
    BY <1>4, <1>e, <1>w DEF StartStep, CallFails
<1>5. ASSUME NEW s \in Steps, Attempt(s) PROVE GInv'
  <2>1. Same([task EXCEPT !.steps[s].attempts = @ + 1])
    BY <1>t DEF Task
  <2> HIDE DEF Same
  <2> QED
    BY <1>5, <2>1, <1>e DEF Attempt
<1>6. ASSUME NEW s \in Steps, NEW verdict \in {"passed", "rejected"}, CallReturns(s, verdict)
      PROVE  GInv'
  <2> DEFINE t == [WithStep(task, s, "completed") EXCEPT
                     !.verified = IF s = Verifier THEN verdict ELSE @]
  <2>1. Emit(t, "round")
    BY <1>6 DEF CallReturns
  <2>2. WithStep(task, s, "completed") \in Task
    BY <1>t, WithStepType DEF StepStatus
  <2>3. Same(t)
    BY <2>2, <1>w DEF Task
  <2> HIDE DEF Same, t
  <2> QED
    BY <2>1, <2>3, <1>e
<1>7. CASE StartRework
  <2>1. Same([task EXCEPT !.rework = @ + 1])
    BY <1>t DEF Task
  <2> HIDE DEF Same
  <2> QED
    BY <1>7, <2>1, <1>e DEF StartRework
<1>8. CASE Reset
  <2>1. Same(WithStatus(ResetForRework(task), "running"))
    BY <1>t DEF Task, WithStatus, ResetForRework
  <2> HIDE DEF Same
  <2> QED
    BY <1>8, <2>1, <1>e DEF Reset
<1>9. CASE GiveUp
  BY <1>9, <1>g DEF GiveUp, Raise
<1>10. CASE Fail
  <2>1. Same([task EXCEPT !.error = exc])
    BY <1>t DEF Task
  <2> HIDE DEF Same
  <2> QED
    BY <1>10, <2>1, <1>e DEF Fail
<1>11. CASE RememberFails
  BY <1>11, <1>g DEF RememberFails, Raise
<1> QED
  BY <1>1, <1>2, <1>3, <1>4, <1>5, <1>6, <1>7, <1>8, <1>9, <1>10, <1>11

\* A commit of what either thread serialised.
LEMMA FlushKeepsGate ==
  ASSUME IInv, GInv, TypeOK', NEW t \in Threads, NEW last \in BOOLEAN, Flush(t, last),
         UNCHANGED claims
  PROVE  GInv'
<1>1. /\ dump[t] # NoDump /\ row' = dump[t] /\ task' = task /\ pc' = pc
      /\ dump' = [dump EXCEPT ![t] = NoDump]
  BY DEF Flush, control
<1>2. dump'[t] = NoDump /\ \A u \in Threads : u # t => dump'[u] = dump[u]
  BY <1>1 DEF IInv, TypeOK
<1>3. /\ row'.risk = task.risk /\ row'.auto = task.auto /\ row'.decision = task.decision
      /\ Assessed(row')
  BY <1>1 DEF GInv, PayloadsAgree, RiskAgrees
<1>4. PayloadsAgree'
  BY <1>1, <1>2 DEF GInv, PayloadsAgree
<1>5. RiskAgrees'
  BY <1>1, <1>2, <1>3 DEF GInv, RiskAgrees, Assessed
<1>6. DecisionAgrees'
  <2>1. dump'["runner"] # NoDump => dump'["runner"].decision = task.decision
    BY <1>2 DEF GInv, PayloadsAgree, Threads
  <2> QED
    BY <1>1, <1>3, <2>1 DEF DecisionAgrees
<1>7. GatePlaces'
  BY <1>1 DEF GInv, GatePlaces
<1> QED
  BY <1>4, <1>5, <1>6, <1>7 DEF GInv

-----------------------------------------------------------------------------
\* While the row is open for a decision, nobody works and nothing is under way
\* that says yes: what a reviewer and the janitor's claim find.
LEMMA OpenFacts ==
  ASSUME IInv, GInv, Undecided(row)
  PROVE  /\ ~Decided /\ claims = 0 /\ dump["janitor"] = NoDump /\ jan \in {"idle", "read"}
         /\ row.risk = "high" /\ ~row.auto /\ pc \notin Working
         /\ dump["runner"] # NoDump => dump["runner"].decision = "no"
<1>1. ~Decided /\ claims = 0 /\ dump["janitor"] = NoDump /\ jan \in {"idle", "read"}
  BY DEF IInv, Undecided, DecisionKept, Decided, JanitorOK, TypeOK, JanitorPlaces
<1>2. row.risk = "high" /\ ~row.auto /\ task.risk = "high" /\ ~task.auto
  BY DEF IInv, Undecided, VersionsSound, Sound, GInv, RiskAgrees
<1>3. task.decision # "yes"
  BY <1>1, ClaimFacts
<1>4. pc \notin Working
  BY <1>2, <1>3 DEF IInv, WorkApproved
<1>5. dump["runner"] # NoDump => dump["runner"].decision = "no"
  BY DEF Undecided, IInv, OpenRow, GInv, DecisionAgrees
<1> QED
  BY <1>1, <1>2, <1>4, <1>5

\* The reviewers, the janitor and the process keep what the gate speaks of.
LEMMA EnvironmentKeepsGate ==
  ASSUME IInv, GInv, TypeOK', ~Run, [Next]_vars
  PROVE  GInv'
<1>t. task \in Task /\ row \in Task /\ \A t \in Threads : t = "runner" \/ t = "janitor"
  BY DEF IInv, TypeOK, Threads
<1>1. ASSUME NEW decision \in {"yes", "no"}, Decide(decision) PROVE GInv'
  <2>1. /\ Undecided(row) /\ dump["runner"] = NoDump /\ pc \in Awaiting
        /\ task' = [task EXCEPT !.decision = decision] /\ row' = task'
        /\ UNCHANGED <<dump, pc, claims>>
    BY <1>1 DEF Decide, Undecided, control
  <2>2. /\ task'.auto = task.auto /\ task'.risk = task.risk /\ task'.planned = task.planned
        /\ task'.decision = decision
    BY <1>t, <2>1 DEF Task
  <2>3. /\ claims = 0 /\ dump["janitor"] = NoDump
    BY <2>1, OpenFacts
  <2>4. PayloadsAgree' /\ RiskAgrees'
    BY <1>t, <2>1, <2>2, <2>3 DEF GInv, PayloadsAgree, RiskAgrees, Assessed
  <2>5. DecisionAgrees' /\ GatePlaces'
    BY <2>1, <2>2 DEF DecisionAgrees, GInv, GatePlaces
  <2> QED
    BY <2>4, <2>5 DEF GInv
<1>2. CASE JanitorRead \/ JanitorMiss \/ JanitorRemember \/ UNCHANGED vars
  <2>1. UNCHANGED <<row, task, dump, pc, claims>>
    BY <1>2 DEF JanitorRead, JanitorMiss, JanitorRemember, vars, control, history
  <2> QED
    BY <2>1 DEF GInv, PayloadsAgree, RiskAgrees, Assessed, DecisionAgrees, Parked, GatePlaces
<1>3. CASE JanitorClaim
  <2>1. /\ fresh /\ row' = [row EXCEPT !.decision = "no"]
        /\ UNCHANGED <<task, dump, pc>>
    BY <1>3 DEF JanitorClaim, control
  <2>2. Undecided(row)
    BY <2>1 DEF IInv, OpenRow
  <2>3. /\ row'.auto = row.auto /\ row'.risk = row.risk /\ row'.planned = row.planned
        /\ row'.decision = "no"
    BY <1>t, <2>1 DEF Task
  <2>4. PayloadsAgree' /\ RiskAgrees'
    BY <2>1, <2>2, <2>3, OpenFacts DEF GInv, PayloadsAgree, RiskAgrees, Assessed
  <2>5. task.decision = "none" => Parked
    <3>1. pc # "down"
      BY <1>3 DEF JanitorClaim, IInv, PlacesOK
    <3> QED
      BY <2>2, <3>1 DEF IInv, OpenRow
  <2>6. task.decision \in {"none", "no"}
    BY <2>2, OpenFacts, ClaimFacts DEF Decision
  <2>7. dump["runner"] = NoDump => task.decision = "none"
    BY <2>2, <2>6 DEF GInv, DecisionAgrees, Undecided
  <2>8. DecisionAgrees' /\ GatePlaces'
    BY <2>1, <2>2, <2>3, <2>5, <2>6, <2>7, OpenFacts
       DEF GInv, DecisionAgrees, GatePlaces, Parked, Undecided
  <2> QED
    BY <2>4, <2>8 DEF GInv
\* The janitor emits only after its claim, when all the others say no already.
<1>e. ASSUME NEW t, JanitorEmit(t), jan \in {"claimed", "deny", "close"},
             UNCHANGED <<row, pc, claims>>, t.decision = "no",
             t.planned = task.planned, t.risk = task.risk, t.auto = task.auto
      PROVE  GInv'
  <2>1. task' = t /\ dump'["janitor"] = t /\ dump'["runner"] = dump["runner"]
    BY <1>e DEF JanitorEmit, IInv, TypeOK, Threads
  <2>2. claims # 0 /\ Decided
    BY <1>e DEF IInv, JanitorOK, Decided
  <2>3. row.decision = "no"
    BY <2>2, ClaimFacts DEF IInv, DecisionKept, Decision
  <2>4. dump["runner"] # NoDump => dump["runner"].decision = "no"
    BY <2>2, ClaimFacts DEF IInv, DecisionKept, GInv, PayloadsAgree, Threads, Decision
  <2>5. PayloadsAgree' /\ RiskAgrees'
    BY <1>e, <1>t, <2>1, <2>4 DEF GInv, PayloadsAgree, RiskAgrees, Assessed, Threads
  <2>6. DecisionAgrees' /\ GatePlaces'
    BY <1>e, <2>1, <2>3, <2>4 DEF GInv, DecisionAgrees, GatePlaces
  <2> QED
    BY <2>5, <2>6 DEF GInv
<1>d. jan \in {"deny", "close"} => task.decision = "no"
  BY ClaimFacts DEF IInv, JanitorOK, DecisionKept, Decided, Decision
<1>4. CASE JanitorTimeout
  <2> DEFINE t == [task EXCEPT !.decision = "no"]
  <2>1. JanitorEmit(t) /\ jan = "claimed" /\ UNCHANGED <<row, pc, claims>>
    BY <1>4 DEF JanitorTimeout, control, history
  <2>2. /\ t.decision = "no" /\ t.planned = task.planned
        /\ t.risk = task.risk /\ t.auto = task.auto
    BY <1>t DEF Task
  <2> HIDE DEF t
  <2> QED
    BY <2>1, <2>2, <1>e
<1>5. CASE JanitorDeny
  <2> DEFINE t == WithStatus(task, "denied")
  <2>1. JanitorEmit(t) /\ jan = "deny" /\ UNCHANGED <<row, pc, claims>>
    BY <1>5 DEF JanitorDeny, control, history
  <2>2. /\ t.decision = task.decision /\ t.planned = task.planned
        /\ t.risk = task.risk /\ t.auto = task.auto
    BY <1>t DEF Task, WithStatus
  <2> HIDE DEF t
  <2> QED
    BY <2>1, <2>2, <1>d, <1>e
<1>6. CASE JanitorClose
  BY <1>6, <1>d, <1>e DEF JanitorClose, control, history
<1>7. CASE JanitorFlush
  BY <1>7, FlushKeepsGate DEF JanitorFlush, Threads, history
<1>8. CASE Crash
  <2>1. /\ task' = row /\ row' = row /\ claims' = claims /\ pc' = "down"
        /\ \A t \in Threads : dump'[t] = NoDump
    BY <1>8 DEF Crash
  <2> QED
    BY <2>1 DEF GInv, PayloadsAgree, RiskAgrees, Assessed, DecisionAgrees, GatePlaces, Threads
<1>9. CASE Restart
  <2>1. pc = "down" /\ pc' \in {"enter", "ended"} /\ UNCHANGED <<row, task, dump, claims>>
    BY <1>9 DEF Restart, history
  <2>2. dump["runner"] = NoDump /\ task = row
    BY <2>1 DEF IInv, PlacesOK, Threads
  <2> QED
    BY <2>1, <2>2 DEF GInv, PayloadsAgree, RiskAgrees, Assessed, DecisionAgrees, GatePlaces
<1> QED
  BY <1>1, <1>2, <1>3, <1>4, <1>5, <1>6, <1>7, <1>8, <1>9
     DEF Next, JanitorStep, Terminated

\* Together with the invariant of InProcessProofs, GInv is inductive.
LEMMA NextInv == IInv /\ GInv /\ [Next]_vars => IInv' /\ GInv'
<1> SUFFICES ASSUME IInv, GInv, [Next]_vars PROVE IInv' /\ GInv'
  OBVIOUS
<1>1. IInv'
  BY RunnerInv, EnvironmentInv
<1>2. TypeOK'
  BY <1>1 DEF IInv
<1>3. ASSUME Run PROVE GInv'
  <2>1. RunnerStep /\ UNCHANGED claims
    BY <1>3 DEF Run, history
  <2>2. CASE RunnerFlush
    <3>1. Flush("runner", pc = "ended") /\ "runner" \in Threads /\ (pc = "ended") \in BOOLEAN
      BY <2>2 DEF RunnerFlush, Threads
    <3> QED
      BY <1>2, <2>1, <3>1, FlushKeepsGate
  <2> QED
    BY <1>2, <2>1, <2>2, BeforeGateKeeps, AtGateKeeps, BehindGateKeeps DEF RunnerStep
<1> QED
  BY <1>1, <1>2, <1>3, EnvironmentKeepsGate

-----------------------------------------------------------------------------
(* The refinement.  Needed, Verdict and Work are what gate substitutes.      *)

GateNeeded == CASE row.risk = "none" -> "unknown"
                [] row.risk = "high" /\ ~row.auto -> "yes"
                [] OTHER -> "no"
GateVerdict == CASE row.decision = "yes" -> "granted"
                 [] row.decision = "no" -> "refused"
                 [] OTHER -> "none"
GateWork == IF pc \in Working THEN "active" ELSE "idle"

\* A step that leaves the row alone and does not begin to work is a pause or
\* invisible.
LEMMA NoRowStep ==
  ASSUME row' = row, pc' \in Working => pc \in Working
  PROVE  [gate!Next]_(gate!vars)
<1>1. GateNeeded' = GateNeeded /\ GateVerdict' = GateVerdict
  BY DEF GateNeeded, GateVerdict
<1>2. GateWork' = GateWork \/ (GateWork = "active" /\ GateWork' = "idle")
  BY DEF GateWork
<1> QED
  BY <1>1, <1>2 DEF gate!Next, gate!Pause, gate!vars, GateNeeded, GateVerdict, GateWork

\* Work begins when the row says that it may.
LEMMA BeginStep ==
  ASSUME row' = row, row.risk # "none",
         row.risk = "high" /\ ~row.auto => row.decision = "yes"
  PROVE  [gate!Next]_(gate!vars)
<1>1. GateNeeded' = GateNeeded /\ GateVerdict' = GateVerdict
  BY DEF GateNeeded, GateVerdict
<1>2. GateNeeded = "no" \/ (GateNeeded = "yes" /\ GateVerdict = "granted")
  BY DEF GateNeeded, GateVerdict
<1>3. GateWork \in {"active", "idle"} /\ GateWork' \in {"active", "idle"}
  BY DEF GateWork
<1> QED
  BY <1>1, <1>2, <1>3
     DEF gate!Next, gate!Begin, gate!Pause, gate!vars, GateNeeded, GateVerdict, GateWork

\* A write of the row that changes only the decision is a first decision or
\* takes back a grant, with nobody at work.
LEMMA VerdictStep ==
  ASSUME pc' = pc, row'.risk = row.risk, row'.auto = row.auto,
         row.decision \in Decision, row'.decision \in Decision,
         row'.decision # row.decision =>
           /\ pc \notin Working /\ row.risk = "high" /\ ~row.auto
           /\ row.decision = "none" \/ row'.decision = "no"
  PROVE  [gate!Next]_(gate!vars)
<1>1. GateNeeded' = GateNeeded /\ GateWork' = GateWork
  BY DEF GateNeeded, GateWork
<1>2. CASE row'.decision = row.decision
  <2>1. GateVerdict' = GateVerdict
    BY <1>2 DEF GateVerdict
  <2> QED
    BY <1>1, <2>1 DEF gate!vars, GateNeeded, GateVerdict, GateWork
<1>3. CASE row'.decision # row.decision
  <2>1. GateNeeded = "yes" /\ GateWork = "idle"
    BY <1>3 DEF GateNeeded, GateWork
  <2>2. \/ GateVerdict = "none" /\ GateVerdict' \in {"granted", "refused"}
        \/ GateVerdict = "granted" /\ GateVerdict' = "refused"
    BY <1>3 DEF GateVerdict, Decision
  <2> QED
    BY <1>1, <2>1, <2>2
       DEF gate!Next, gate!Decide, gate!Overrule, GateNeeded, GateVerdict, GateWork
<1> QED
  BY <1>2, <1>3

\* A write of the row that changes only the assessment is the first one.
LEMMA AssessStep ==
  ASSUME pc' = pc, row.risk = "none", row'.decision = row.decision, row'.risk \in Risk
  PROVE  [gate!Next]_(gate!vars)
<1>1. GateVerdict' = GateVerdict /\ GateWork' = GateWork /\ GateNeeded = "unknown"
  BY DEF GateNeeded, GateVerdict, GateWork
<1>2. GateNeeded' \in {"unknown", "yes", "no"}
  BY DEF GateNeeded
<1> QED
  BY <1>1, <1>2 DEF gate!Next, gate!Assess, gate!vars, GateNeeded, GateVerdict, GateWork

\* Every step of the runner is a step of the gate or invisible.
LEMMA RunnerImplements ==
  ASSUME IInv, GInv, Run
  PROVE  [gate!Next]_(gate!vars)
<1>s. RunnerStep
  BY DEF Run
<1>r. pc = "gate" \/ pc = "waiting" => task.risk # "none"
  BY DEF IInv, PlacesOK
<1>1. CASE RunnerFlush
  <2>1. dump["runner"] # NoDump /\ row' = dump["runner"] /\ pc' = pc
    BY <1>1 DEF RunnerFlush, Flush, control
  <2>2. row' \in Task /\ row \in Task
    BY <2>1 DEF IInv, TypeOK, Threads
  <2>3. row'.auto = row.auto /\ (row.risk # "none" => row'.risk = row.risk)
    BY <2>1 DEF GInv, PayloadsAgree, RiskAgrees, Threads
  <2>4. row'.decision # row.decision =>
          pc = "finish" /\ row.risk = "high" /\ ~row.auto /\ row'.decision = "no"
    BY <2>1 DEF GInv, DecisionAgrees
  <2>5. CASE row.risk = "none"
    BY <2>1, <2>2, <2>4, <2>5, AssessStep DEF Task
  <2>6. CASE row.risk # "none"
    BY <2>1, <2>2, <2>3, <2>4, <2>6, VerdictStep DEF Task, Working
  <2> QED
    BY <2>5, <2>6
<1>2. CASE GateOpen \/ GateAuto \/ WaitDecided
  <2>1. /\ dump["runner"] = NoDump /\ pc \in {"gate", "waiting"} /\ row' = row
        /\ \/ task.risk # "high" \/ task.decision = "yes" \/ task.auto
           \/ row.decision = "yes" \/ pc' = "finish"
    BY <1>2 DEF GateOpen, GateAuto, WaitDecided, At, Goto, Emit
  <2>2. /\ row.risk = task.risk /\ row.auto = task.auto
        /\ task.decision # "none" => row.decision = task.decision
    BY <2>1 DEF GInv, RiskAgrees, DecisionAgrees
  <2>3. CASE pc' = "finish"
    BY <2>1, <2>3, NoRowStep DEF Working
  <2>4. CASE pc' # "finish"
    BY <1>r, <2>1, <2>2, <2>4, BeginStep
  <2> QED
    BY <2>3, <2>4
<1>3. ASSUME row' = row, pc' \in Working => pc \in Working
      PROVE  [gate!Next]_(gate!vars)
  BY <1>3, NoRowStep
<1>4. CASE EnterPlanning \/ EnterResume \/ Plan \/ StartAssessing
           \/ (\E risk \in {"low", "high"} : Assess(risk)) \/ ModelFails
           \/ GateRefused \/ GateRequest \/ GateStillWaiting \/ WaitExpires
  BY <1>4, <1>3 DEF EnterPlanning, EnterResume, Plan, StartAssessing, Assess, ModelFails,
     GateRefused, GateRequest, GateStillWaiting, WaitExpires, Deny, Raise, Goto, Emit, Working
<1>5. CASE \/ Start \/ EnterVerifier
           \/ \E s \in Steps : \/ EnterWorker(s) \/ StartStep(s) \/ Attempt(s) \/ Call(s)
                               \/ \E verdict \in {"passed", "rejected"} : CallReturns(s, verdict)
                               \/ CallFails(s)
           \/ CallRetries \/ RoundPassed \/ StartRework \/ Reset
  <2>1. row' = row /\ pc \in Working
    BY <1>5 DEF Start, EnterVerifier, EnterWorker, StartStep, Attempt, Call, CallReturns,
       CallFails, CallRetries, RoundPassed, StartRework, Reset, At, Goto, Emit, Working
  <2> QED
    BY <2>1, <1>3
<1>6. CASE GiveUp \/ Synthesize \/ Fail \/ Finish \/ Remember \/ RememberFails \/ Close
  BY <1>6, <1>3 DEF GiveUp, Synthesize, Fail, Finish, Remember, RememberFails, Close,
     Raise, Goto, Emit, Working
<1> QED
  BY <1>s, <1>1, <1>2, <1>4, <1>5, <1>6 DEF RunnerStep

\* So is every step of the reviewers, the janitor and the process.
LEMMA EnvironmentImplements ==
  ASSUME IInv, GInv, [Next]_vars, ~Run
  PROVE  [gate!Next]_(gate!vars)
<1>t. task \in Task /\ row \in Task
  BY DEF IInv, TypeOK
<1>1. ASSUME NEW decision \in {"yes", "no"}, Decide(decision)
      PROVE  [gate!Next]_(gate!vars)
  <2>1. /\ Undecided(row) /\ dump["runner"] = NoDump /\ pc' = pc
        /\ row' = [task EXCEPT !.decision = decision]
    BY <1>1 DEF Decide, Undecided, control
  <2>2. row'.risk = task.risk /\ row'.auto = task.auto /\ row'.decision = decision
    BY <1>t, <2>1 DEF Task
  <2>3. row'.risk = row.risk /\ row'.auto = row.auto
    BY <2>1, <2>2 DEF GInv, RiskAgrees
  <2>4. row.decision = "none" /\ row.risk = "high" /\ ~row.auto /\ pc \notin Working
    BY <2>1, OpenFacts DEF Undecided
  <2> QED
    BY <2>1, <2>2, <2>3, <2>4, VerdictStep DEF Decision
<1>2. CASE JanitorClaim
  <2>1. fresh /\ row' = [row EXCEPT !.decision = "no"] /\ pc' = pc
    BY <1>2 DEF JanitorClaim, control
  <2>2. row'.risk = row.risk /\ row'.auto = row.auto /\ row'.decision = "no"
    BY <1>t, <2>1 DEF Task
  <2>3. Undecided(row)
    BY <2>1 DEF IInv, OpenRow
  <2>4. row.decision = "none" /\ row.risk = "high" /\ ~row.auto /\ pc \notin Working
    BY <2>3, OpenFacts DEF Undecided
  <2> QED
    BY <2>1, <2>2, <2>4, VerdictStep DEF Decision
<1>3. CASE JanitorFlush
  <2>1. dump["janitor"] # NoDump /\ row' = dump["janitor"] /\ pc' = pc
    BY <1>3 DEF JanitorFlush, Flush, control
  <2>2. claims # 0 /\ Decided
    BY <2>1, ClaimFacts
  <2>3. row'.decision = "no" /\ row.decision = "no"
    BY <2>1, <2>2, ClaimFacts DEF IInv, DecisionKept, GInv, PayloadsAgree, Threads, Decision
  <2>4. row'.auto = row.auto /\ row'.risk = row.risk
    BY <2>1, <2>2 DEF GInv, PayloadsAgree, RiskAgrees, Threads
  <2> QED
    BY <2>1, <2>3, <2>4, VerdictStep DEF Decision
<1>4. CASE JanitorRead \/ JanitorMiss \/ JanitorTimeout \/ JanitorDeny \/ JanitorRemember
           \/ JanitorClose \/ UNCHANGED vars
  <2>1. row' = row /\ pc' = pc
    BY <1>4 DEF JanitorRead, JanitorMiss, JanitorTimeout, JanitorDeny, JanitorRemember,
       JanitorClose, vars, control
  <2> QED
    BY <2>1, NoRowStep
<1>5. CASE Crash \/ Restart
  <2>1. row' = row /\ pc' \notin Working
    BY <1>5 DEF Crash, Restart, Working
  <2> QED
    BY <2>1, NoRowStep
<1> QED
  BY <1>1, <1>2, <1>3, <1>4, <1>5 DEF Next, JanitorStep, Terminated

\* The in-process mode implements the abstract gate: nobody works on a plan
\* that needs an approval it does not have, one decision is accepted, and a
\* refusal is for ever (resolve_approval, expire_approval, _gate).
THEOREM ImplementsTheGate == Spec => ImplementsGate
<1>1. Init => gate!Init
  <2> SUFFICES ASSUME Init PROVE gate!Init
    OBVIOUS
  <2>1. row.risk = "none" /\ row.decision = "none" /\ pc = "enter"
    BY DEF Init, RunnerInit, NewTask
  <2> QED
    BY <2>1 DEF gate!Init, Working
<1>2. IInv /\ GInv /\ [Next]_vars => [gate!Next]_(gate!vars)
  BY RunnerImplements, EnvironmentImplements
<1>3. Spec => [](IInv /\ GInv)
  BY InitInv, InitGInv, NextInv, PTL DEF Spec
<1> QED
  BY <1>1, <1>2, <1>3, PTL DEF Spec, ImplementsGate, gate!Spec
-----------------------------------------------------------------------------
(***************************************************************************)
(* What the in-process mode does with work and outcomes, for every plan    *)
(* length, retry budget and number of crashes: CompletedMeansVerified,     *)
(* NoWorkAfterOutcome, CompletedStays and OutcomeStays.                    *)
(*                                                                         *)
(* Until the janitor claims the row the runner is the only one who writes  *)
(* outcomes, and the row is at most one emit behind its live object        *)
(* (BehindInv).  Once it has, the plan was never worked on: no version of  *)
(* the task has a completed step, since such a plan may run (EarnedInv).   *)
(***************************************************************************)

\* The steps that are completed in a version of the task.
Done(v) == {s \in Steps : v.steps[s].status = "completed"}

Over(v) == v.status \in TerminalStatuses

\* What is true of every version of the task: completed steps were called, on a
\* plan that may run, and a completed task was verified.
Earned(v) ==
  /\ Done(v) # {} => v.risk # "none" /\ MayRun(v)
  /\ \A s \in Done(v) : calls[s] > 0
  /\ Verifier \in Done(v) => v.verified # "unknown"
  /\ v.status = "completed" => Done(v) = Steps /\ v.verified = "passed"

EarnedInv ==
  /\ Earned(row) /\ Earned(task)
  /\ \A t \in Threads : dump[t] # NoDump => Earned(dump[t])

\* What version b of the task may be, written over version a.
Follows(a, b) ==
  /\ \/ Done(a) \subseteq Done(b)
     \/ Done(a) = Steps /\ a.verified = "rejected" /\ a.rework = 1
  /\ Over(a) => Over(b) /\ (b.status = "completed" => a.status = "completed")

\* Without the janitor nobody but the runner writes, and the row is at most one
\* emit behind its live object.
BehindInv ==
  claims = 0 =>
    /\ dump["runner"] = NoDump =>
         /\ Done(row) = Done(task)
         /\ row.status = task.status /\ row.verified = task.verified
         /\ row.rework = task.rework /\ row.decision = task.decision
    /\ dump["runner"] # NoDump =>
         /\ dump["runner"] = task /\ Follows(row, task)
         /\ task.decision # row.decision => task.status = "awaiting_approval"

\* Once the janitor has claimed the row, every version waits or is over.
Halted(v) == Over(v) \/ v.status = "awaiting_approval"

ClaimedInv ==
  claims # 0 =>
    /\ ~task.auto
    /\ Halted(row) /\ Halted(task)
    /\ \A t \in Threads : dump[t] # NoDump => Halted(dump[t])

\* What the places of the runner say about the work and the outcome.
WorkPlaces ==
  /\ pc = "calling" => \A s \in Steps : IsCurrent(task, s) => calls[s] > 0
  /\ pc = "synthesizing" \/ (pc = "finish" /\ outcome = "completed") =>
       Done(task) = Steps /\ task.verified = "passed"
  /\ pc = "reset" => Done(task) = Steps /\ task.verified = "rejected" /\ task.rework = 1
  /\ pc = "waiting" => Done(task) = {}

OutcomePlaces ==
  claims = 0 =>
    /\ pc = "waiting" => task.status = "awaiting_approval"
    /\ Over(task) => pc \in {"fail", "finish", "remember", "close", "ended", "down"}
    /\ (Over(task) /\ pc = "finish") => outcome # "completed"
    /\ pc \in {"remember", "close", "ended"} => Over(task)
    /\ episodes > 0 => pc \in {"close", "ended", "down"} /\ Over(row) /\ Over(task)

OInv == EarnedInv /\ BehindInv /\ ClaimedInv /\ WorkPlaces /\ OutcomePlaces

Inv == IInv /\ GInv /\ OInv

-----------------------------------------------------------------------------
(* Functions of the task record and the completed steps.                   *)

LEMMA SomeStep == Verifier \in Steps /\ Steps # {}
BY StepsFacts

LEMMA StatusDone ==
  ASSUME NEW t \in Task, NEW status
  PROVE  /\ Done(WithStatus(t, status)) = Done(t)
         /\ WithStatus(t, status).status = status
         /\ WithStatus(t, status).risk = t.risk /\ WithStatus(t, status).auto = t.auto
         /\ WithStatus(t, status).decision = t.decision
         /\ WithStatus(t, status).verified = t.verified
         /\ WithStatus(t, status).rework = t.rework
BY DEF WithStatus, Done, Task

LEMMA StepDone ==
  ASSUME NEW t \in Task, NEW s \in Steps, NEW status
  PROVE  /\ Done(WithStep(t, s, status)) =
              IF status = "completed" THEN Done(t) \union {s} ELSE Done(t) \ {s}
         /\ WithStep(t, s, status).status = t.status
         /\ WithStep(t, s, status).risk = t.risk /\ WithStep(t, s, status).auto = t.auto
         /\ WithStep(t, s, status).decision = t.decision
         /\ WithStep(t, s, status).verified = t.verified
         /\ WithStep(t, s, status).rework = t.rework
<1> DEFINE w == WithStep(t, s, status)
<1>1. /\ w.status = t.status /\ w.risk = t.risk /\ w.auto = t.auto
      /\ w.decision = t.decision /\ w.verified = t.verified /\ w.rework = t.rework
  BY DEF WithStep, Task
<1>2. w.steps[s].status = status
  BY DEF WithStep, Task, PlanStep
<1>3. \A q \in Steps : q # s => w.steps[q] = t.steps[q]
  BY DEF WithStep, Task
<1> HIDE DEF w
<1>4. Done(w) = IF status = "completed" THEN Done(t) \union {s} ELSE Done(t) \ {s}
  BY <1>2, <1>3 DEF Done
<1> QED BY <1>1, <1>4 DEF w

LEMMA ResumedDone ==
  ASSUME NEW t \in Task
  PROVE  /\ Done(Resumed(t)) = Done(t)
         /\ Resumed(t).status = t.status
         /\ Resumed(t).risk = t.risk /\ Resumed(t).auto = t.auto
         /\ Resumed(t).decision = t.decision /\ Resumed(t).verified = t.verified
         /\ Resumed(t).rework = t.rework
<1> DEFINE w == Resumed(t)
<1>1. /\ w.status = t.status /\ w.risk = t.risk /\ w.auto = t.auto
      /\ w.decision = t.decision /\ w.verified = t.verified /\ w.rework = t.rework
  BY DEF Resumed, Task
<1>2. \A s \in Steps : w.steps[s].status = "completed" <=> t.steps[s].status = "completed"
  BY DEF Resumed, Task, PlanStep
<1> HIDE DEF w
<1> QED BY <1>1, <1>2 DEF Done, w

LEMMA ResetDone ==
  ASSUME NEW t \in Task
  PROVE  /\ Done(ResetForRework(t)) = {}
         /\ ResetForRework(t).risk = t.risk /\ ResetForRework(t).auto = t.auto
         /\ ResetForRework(t).decision = t.decision
<1> DEFINE w == ResetForRework(t)
<1>1. w.risk = t.risk /\ w.auto = t.auto /\ w.decision = t.decision
  BY DEF ResetForRework, Task
<1>2. \A s \in Steps : w.steps[s].status = "pending"
  BY DEF ResetForRework, Task, PlanStep
<1> HIDE DEF w
<1> QED BY <1>1, <1>2 DEF Done, w

\* A step the round works on is not completed, and there is no other.
LEMMA CurrentFacts ==
  ASSUME NEW t, NEW s \in Steps, IsCurrent(t, s)
  PROVE  /\ s \notin Done(t) /\ Done(t) \ {s} = Done(t) /\ Done(t) # Steps
         /\ \A q \in Steps : IsCurrent(t, q) => q = s
<1>1. s \in Nat /\ \A q \in Steps : q \in Nat
  BY StepsFacts
<1>2. ASSUME NEW q \in Steps, IsCurrent(t, q), q # s PROVE FALSE
  <2>1. CASE q < s
    BY <1>1, <1>2, <2>1 DEF IsCurrent, Steps
  <2>2. CASE s < q
    BY <1>1, <1>2, <2>2 DEF IsCurrent, Steps
  <2> QED BY <1>1, <1>2, <2>1, <2>2
<1> QED BY <1>2 DEF IsCurrent, Done

LEMMA RoundDoneFacts == ASSUME NEW t PROVE RoundDone(t) <=> Done(t) = Steps
BY DEF RoundDone, Done

\* A version that has done what another has is as well earned.
LEMMA EarnedAlike ==
  ASSUME NEW t, NEW v, Earned(v), Done(t) = Done(v), t.risk = v.risk, t.auto = v.auto,
         t.decision = v.decision, t.verified = v.verified,
         t.status \in {"completed", v.status} =>
           t.status = v.status \/ (Done(t) = Steps /\ t.verified = "passed")
  PROVE  Earned(t)
BY DEF Earned, MayRun

\* So is one without completed steps, unless it says that all is done.
LEMMA EarnedNothing ==
  ASSUME NEW t, Done(t) = {}, t.status # "completed"
  PROVE  Earned(t)
BY DEF Earned

-----------------------------------------------------------------------------
(* What the two parts of the invariant say together.                       *)

\* Once the janitor has claimed the row, nothing was or will be worked on.
LEMMA RefusedFacts ==
  ASSUME Inv, claims # 0
  PROVE  /\ task.risk = "high" /\ ~task.auto /\ task.decision # "yes"
         /\ row.risk = "high" /\ ~row.auto /\ row.decision = "no"
         /\ Done(task) = {} /\ Done(row) = {}
         /\ \A t \in Threads : dump[t] # NoDump =>
              Done(dump[t]) = {} /\ dump[t].decision = "no"
         /\ pc \notin Working \union {"planning", "assess", "assessing"}
         /\ ~MayRun(task) /\ ~Unplanned(task)
<1>1. row.decision # "yes" /\ task.decision # "yes" /\ Decided
  BY ClaimFacts DEF Inv
<1>2. /\ row.risk = "high" /\ task.risk = "high" /\ ~task.auto /\ ~row.auto
      /\ task.planned
  BY DEF Inv, GInv, RiskAgrees, Assessed, OInv, ClaimedInv
<1>3. row.decision = "no"
  BY <1>1, ClaimFacts DEF Inv, IInv, DecisionKept, Decision
<1>4. ~MayRun(task) /\ ~MayRun(row)
  BY <1>1, <1>2 DEF MayRun
<1>5. ASSUME NEW t \in Threads, dump[t] # NoDump
      PROVE  Done(dump[t]) = {} /\ dump[t].decision = "no"
  <2>1. /\ dump[t].risk = "high" /\ ~dump[t].auto /\ dump[t].decision # "yes"
    BY <1>1, <1>2, <1>5 DEF Inv, GInv, PayloadsAgree
  <2>2. dump[t].decision = "no"
    BY <1>1, <1>5, <2>1 DEF Inv, IInv, TypeOK, DecisionKept, Task, Decision
  <2> QED BY <1>5, <2>1, <2>2 DEF Inv, OInv, EarnedInv, Earned, MayRun
<1>6. Done(task) = {} /\ Done(row) = {}
  BY <1>4 DEF Inv, OInv, EarnedInv, Earned
<1>7. pc \notin Working
  BY <1>1, <1>2 DEF Inv, IInv, WorkApproved
<1>8. pc \notin {"planning", "assess", "assessing"}
  BY <1>2 DEF Inv, GInv, GatePlaces
<1> QED BY <1>1, <1>2, <1>3, <1>4, <1>5, <1>6, <1>7, <1>8 DEF Unplanned

\* Until then a runner that waits for nothing to be written has the row's decision.
LEMMA UnclaimedFacts ==
  ASSUME Inv, claims = 0, dump["runner"] = NoDump
  PROVE  /\ row.decision = task.decision
         /\ Done(row) = Done(task) /\ row.status = task.status
         /\ row.verified = task.verified /\ row.rework = task.rework
BY DEF Inv, OInv, BehindInv

\* The runner has begun and not ended.
Alive == claims = 0 /\ pc \notin {"fail", "finish", "remember", "close", "ended", "down"}

LEMMA AliveFacts == ASSUME Inv, Alive PROVE ~Over(task) /\ episodes = 0
BY DEF Inv, OInv, OutcomePlaces, Alive, IInv, TypeOK

-----------------------------------------------------------------------------
(* Moves of the runner.                                                    *)

\* What a move that leaves the row alone has to show.
LEMMA MoveKeeps ==
  ASSUME Inv, TypeOK', dump["runner"] = NoDump, UNCHANGED <<row, claims>>,
         dump'["janitor"] = dump["janitor"], dump'["runner"] \in {NoDump, task'},
         \A s \in Steps : calls[s] <= calls'[s],
         Earned(task)', task'.auto = task.auto,
         claims = 0 => Follows(task, task'),
         claims = 0 /\ task'.decision # task.decision =>
           dump'["runner"] # NoDump /\ task'.status = "awaiting_approval",
         dump'["runner"] = NoDump =>
           /\ Done(task') = Done(task) /\ task'.status = task.status
           /\ task'.verified = task.verified /\ task'.rework = task.rework,
         claims # 0 => Halted(task'),
         WorkPlaces', OutcomePlaces'
  PROVE  OInv'
<1>1. \A t \in Threads : t = "runner" \/ t = "janitor"
  BY DEF Threads
<1>2. EarnedInv'
  <2>1. \A s \in Steps : calls[s] \in Nat /\ calls'[s] \in Nat
    BY DEF Inv, IInv, TypeOK
  <2>2. \A v : Earned(v) => \A s \in Done(v) : calls'[s] > 0
    BY <2>1 DEF Earned, Done
  <2>3. ASSUME NEW v, Earned(v) PROVE
          /\ Done(v) # {} => v.risk # "none" /\ MayRun(v)
          /\ \A s \in Done(v) : calls'[s] > 0
          /\ Verifier \in Done(v) => v.verified # "unknown"
          /\ v.status = "completed" => Done(v) = Steps /\ v.verified = "passed"
    BY <2>2, <2>3 DEF Earned
  <2>4. Earned(row)'
    BY <2>3 DEF Inv, OInv, EarnedInv, Earned, Done, MayRun
  <2>5. dump["janitor"] # NoDump => Earned(dump["janitor"])'
    <3>1. dump["janitor"] # NoDump => Earned(dump["janitor"])
      BY DEF Inv, OInv, EarnedInv, Threads
    <3> QED BY <2>3, <3>1 DEF Earned, Done, MayRun
  <2>6. dump'["runner"] # NoDump => Earned(dump["runner"])'
    BY DEF Earned, Done, MayRun
  <2> QED BY <1>1, <2>4, <2>5, <2>6 DEF EarnedInv
<1>3. BehindInv'
  <2> SUFFICES ASSUME claims = 0 PROVE BehindInv'
    BY DEF BehindInv
  <2>1. /\ row.decision = task.decision
        /\ Done(row) = Done(task) /\ row.status = task.status
        /\ row.verified = task.verified /\ row.rework = task.rework
    BY UnclaimedFacts
  <2>2. Follows(row, task')
    BY <2>1 DEF Follows, Over
  <2>3. Done(row)' = Done(row) /\ Done(task)' = Done(task')
    BY DEF Done
  <2>4. Follows(row, task)'
    BY <2>2, <2>3 DEF Follows, Over
  <2> QED BY <2>1, <2>3, <2>4 DEF BehindInv
<1>4. ClaimedInv'
  BY <1>1 DEF Inv, OInv, ClaimedInv, Halted, Over
<1> QED BY <1>2, <1>3, <1>4 DEF OInv

LEMMA PlainPlace ==
  ASSUME pc' \notin {"calling", "synthesizing", "reset", "waiting", "finish"}
  PROVE  WorkPlaces'
BY DEF WorkPlaces

\* An emit between the start of a run and its end.
LEMMA AliveEmit ==
  ASSUME Inv, TypeOK', Alive, dump["runner"] = NoDump, NEW t, NEW next, Emit(t, next),
         UNCHANGED <<claims, episodes, calls>>,
         Earned(t), t.auto = task.auto, ~Over(t),
         \/ Done(task) \subseteq Done(t)
         \/ Done(task) = Steps /\ task.verified = "rejected" /\ task.rework = 1,
         t.decision = task.decision \/ t.status = "awaiting_approval",
         next \notin {"remember", "close", "ended", "down"},
         next = "waiting" => t.status = "awaiting_approval",
         WorkPlaces'
  PROVE  OInv'
<1>1. /\ task' = t /\ pc' = next /\ UNCHANGED row
      /\ dump'["janitor"] = dump["janitor"] /\ dump'["runner"] = t
  BY DEF Emit, Inv, IInv, TypeOK, Threads
<1>2. dump'["runner"] # NoDump
  BY <1>1, NoDumpAssumption DEF TypeOK
<1>3. claims = 0 /\ ~Over(task) /\ episodes = 0
  BY AliveFacts DEF Alive
<1>4. \A s \in Steps : calls[s] <= calls'[s]
  BY DEF Inv, IInv, TypeOK
<1>5. Follows(task, task')
  BY <1>1, <1>3 DEF Follows
<1>6. Earned(task)'
  BY <1>1 DEF Earned, Done, MayRun
<1>7. OutcomePlaces'
  BY <1>1, <1>3 DEF OutcomePlaces, Over
<1> QED BY <1>1, <1>2, <1>3, <1>4, <1>5, <1>6, <1>7, MoveKeeps

\* A move between them that leaves the live object alone.
LEMMA AliveGoto ==
  ASSUME Inv, TypeOK', Alive, dump["runner"] = NoDump, NEW next, Goto(next),
         UNCHANGED <<claims, episodes>>, \A s \in Steps : calls[s] <= calls'[s],
         next \notin {"remember", "close", "ended", "down"},
         next = "waiting" => task.status = "awaiting_approval",
         WorkPlaces'
  PROVE  OInv'
<1>1. pc' = next /\ UNCHANGED <<row, task, dump>>
  BY DEF Goto
<1>2. claims = 0 /\ ~Over(task) /\ episodes = 0
  BY AliveFacts DEF Alive
<1>3. \A s \in Steps : calls[s] \in Nat /\ calls'[s] \in Nat
  BY DEF Inv, IInv, TypeOK
<1>4. Earned(task)'
  <2>1. Earned(task)
    BY DEF Inv, OInv, EarnedInv
  <2>2. \A s \in Done(task) : calls'[s] > 0
    BY <1>3, <2>1 DEF Earned, Done
  <2> QED BY <1>1, <2>1, <2>2 DEF Earned, Done, MayRun
<1>5. Follows(task, task')
  BY <1>1 DEF Follows
<1>6. OutcomePlaces'
  BY <1>1, <1>2 DEF OutcomePlaces, Over
<1> QED BY <1>1, <1>2, <1>4, <1>5, <1>6, MoveKeeps

\* A move of a runner whose approval the janitor has claimed: nothing was ever
\* worked on, and nothing will be.
LEMMA HaltedMove ==
  ASSUME Inv, TypeOK', claims # 0, dump["runner"] = NoDump,
         UNCHANGED <<row, claims, calls>>,
         dump'["janitor"] = dump["janitor"], dump'["runner"] \in {NoDump, task'},
         Done(task') = {}, task'.auto = task.auto, task'.status # "completed",
         Halted(task'),
         dump'["runner"] = NoDump =>
           /\ task'.status = task.status
           /\ task'.verified = task.verified /\ task'.rework = task.rework,
         pc' \notin {"calling", "synthesizing", "reset"},
         pc' = "finish" => outcome' # "completed"
  PROVE  OInv'
<1>1. Done(task) = {}
  BY RefusedFacts
<1>2. Earned(task)' /\ WorkPlaces' /\ OutcomePlaces'
  BY DEF Earned, Done, WorkPlaces, OutcomePlaces
<1>3. \A s \in Steps : calls[s] <= calls'[s]
  BY DEF Inv, IInv, TypeOK
<1> QED BY <1>1, <1>2, <1>3, MoveKeeps

\* Up to the gate.
LEMMA PlanningKeeps ==
  ASSUME Inv, TypeOK', UNCHANGED claims,
         \/ EnterPlanning \/ EnterResume \/ Plan \/ StartAssessing
         \/ \E risk \in {"low", "high"} : Assess(risk)
         \/ ModelFails
  PROVE  OInv'
<1>t. task \in Task /\ Earned(task)
  BY DEF Inv, IInv, TypeOK, OInv, EarnedInv
<1>n. dump["runner"] = NoDump
  BY DEF EnterPlanning, EnterResume, Plan, StartAssessing, Assess, ModelFails, At
<1>z. task.risk = "none" => Done(task) = {}
  BY <1>t DEF Earned
<1>s. ASSUME NEW place \in {"planning", "assessing", "synthesizing"}, pc = place
      PROVE  Alive
  BY <1>s, RefusedFacts DEF Alive, Working
<1>1. CASE EnterPlanning
  <2> DEFINE t == WithStatus(task, "planning")
  <2>1. /\ Emit(t, "planning") /\ Unplanned(task) /\ pc = "enter"
        /\ UNCHANGED <<episodes, calls>>
    BY <1>1 DEF EnterPlanning, At, memory
  <2>2. Alive
    BY <2>1, RefusedFacts DEF Alive
  <2>3. /\ Done(t) = Done(task) /\ t.status = "planning" /\ t.auto = task.auto
        /\ t.decision = task.decision /\ t.risk = task.risk /\ t.verified = task.verified
    BY <1>t, StatusDone
  <2> HIDE DEF t
  <2>4. Earned(t) /\ ~Over(t)
    BY <1>t, <2>3, EarnedAlike DEF Over, TerminalStatuses, Earned, MayRun
  <2>5. WorkPlaces'
    BY <2>1, PlainPlace DEF Emit
  <2> QED BY <1>n, <2>1, <2>2, <2>3, <2>4, <2>5, AliveEmit
<1>2. CASE EnterResume
  <2>1. /\ task' = Resumed(task) /\ pc = "enter" /\ pc' = "gate"
        /\ UNCHANGED <<row, dump, outcome, episodes, calls>>
    BY <1>2 DEF EnterResume, At, memory
  <2>2. /\ Done(task') = Done(task) /\ task'.status = task.status
        /\ task'.auto = task.auto /\ task'.decision = task.decision
        /\ task'.risk = task.risk /\ task'.verified = task.verified
        /\ task'.rework = task.rework
    BY <1>t, <2>1, ResumedDone
  <2>3. Earned(task')
    BY <1>t, <2>2 DEF Earned, MayRun
  <2>4. Earned(task)'
    BY <2>1, <2>3 DEF Earned, Done, MayRun
  <2>5. WorkPlaces'
    BY <2>1, PlainPlace
  <2>6. OutcomePlaces'
    BY <2>1, <2>2 DEF Inv, OInv, OutcomePlaces, Over
  <2>7. Follows(task, task')
    BY <2>2 DEF Follows, Over
  <2>8. claims # 0 => Halted(task')
    BY <2>2 DEF Inv, OInv, ClaimedInv, Halted, Over
  <2>9. \A s \in Steps : calls[s] <= calls'[s]
    BY <2>1 DEF Inv, IInv, TypeOK
  <2> QED BY <1>n, <2>1, <2>2, <2>4, <2>5, <2>6, <2>7, <2>8, <2>9, MoveKeeps
<1>3. CASE Plan
  <2> DEFINE t == [task EXCEPT !.planned = TRUE, !.steps = NewPlan]
  <2>1. /\ Emit(t, "assess") /\ pc = "planning"
        /\ UNCHANGED <<episodes, calls>>
    BY <1>3 DEF Plan, At, memory
  <2>2. Alive /\ Done(task) = {}
    BY <2>1, <1>s, <1>z DEF Inv, GInv, GatePlaces
  <2>3. /\ Done(t) = {} /\ t.status = task.status /\ t.auto = task.auto
        /\ t.decision = task.decision
    BY <1>t DEF Task, Done, NewPlan
  <2> HIDE DEF t
  <2>4. ~Over(t)
    BY <2>2, <2>3, AliveFacts DEF Over
  <2>5. Earned(t)
    BY <2>3, <2>4, EarnedNothing DEF Over, TerminalStatuses
  <2>6. WorkPlaces'
    BY <2>1, PlainPlace DEF Emit
  <2> QED BY <1>n, <2>1, <2>2, <2>3, <2>4, <2>5, <2>6, AliveEmit
<1>4. CASE StartAssessing
  <2> DEFINE t == WithStatus(task, "assessing_risk")
  <2>1. /\ Emit(t, "assessing") /\ pc = "assess"
        /\ UNCHANGED <<episodes, calls>>
    BY <1>4 DEF StartAssessing, At, memory
  <2>2. Alive
    BY <2>1, RefusedFacts DEF Alive
  <2>3. /\ Done(t) = Done(task) /\ t.status = "assessing_risk" /\ t.auto = task.auto
        /\ t.decision = task.decision /\ t.risk = task.risk /\ t.verified = task.verified
    BY <1>t, StatusDone
  <2> HIDE DEF t
  <2>4. Earned(t) /\ ~Over(t)
    BY <1>t, <2>3 DEF Over, TerminalStatuses, Earned, MayRun
  <2>5. WorkPlaces'
    BY <2>1, PlainPlace DEF Emit
  <2> QED BY <1>n, <2>1, <2>2, <2>3, <2>4, <2>5, AliveEmit
<1>5. ASSUME NEW risk \in {"low", "high"}, Assess(risk) PROVE OInv'
  <2> DEFINE t == [task EXCEPT !.risk = risk]
  <2>1. /\ Emit(t, "gate") /\ pc = "assessing"
        /\ UNCHANGED <<episodes, calls>>
    BY <1>5 DEF Assess, At, memory
  <2>2. Alive /\ Done(task) = {}
    BY <2>1, <1>s, <1>z DEF Inv, GInv, GatePlaces
  <2>3. /\ Done(t) = {} /\ t.status = task.status /\ t.auto = task.auto
        /\ t.decision = task.decision
    BY <1>t, <2>2 DEF Task, Done
  <2> HIDE DEF t
  <2>4. ~Over(t)
    BY <2>2, <2>3, AliveFacts DEF Over
  <2>5. Earned(t)
    BY <2>3, <2>4, EarnedNothing DEF Over, TerminalStatuses
  <2>6. WorkPlaces'
    BY <2>1, PlainPlace DEF Emit
  <2> QED BY <1>n, <2>1, <2>2, <2>3, <2>4, <2>5, <2>6, AliveEmit
<1>6. CASE ModelFails
  <2>1. Goto("fail") /\ UNCHANGED <<episodes, calls>>
    BY <1>6 DEF ModelFails, Raise, memory
  <2>2. Alive
    BY <1>6, <1>s DEF ModelFails, At
  <2>3. WorkPlaces'
    BY <2>1, PlainPlace DEF Goto
  <2>4. \A s \in Steps : calls[s] <= calls'[s]
    BY <2>1 DEF Inv, IInv, TypeOK
  <2> QED BY <1>n, <2>1, <2>2, <2>3, <2>4, AliveGoto
<1> QED BY <1>1, <1>2, <1>3, <1>4, <1>5, <1>6

\* At the gate.
LEMMA GateKeeps ==
  ASSUME Inv, TypeOK', UNCHANGED claims,
         \/ GateOpen \/ GateAuto \/ GateRefused \/ GateRequest \/ GateStillWaiting
         \/ WaitDecided \/ WaitExpires
  PROVE  OInv'
<1>t. task \in Task /\ Earned(task)
  BY DEF Inv, IInv, TypeOK, OInv, EarnedInv
<1>n. dump["runner"] = NoDump
  BY DEF GateOpen, GateAuto, GateRefused, GateRequest, GateStillWaiting, WaitDecided,
         WaitExpires, At
<1>u. UNCHANGED <<episodes, calls>> /\ \A s \in Steps : calls[s] <= calls'[s]
  <2>1. UNCHANGED <<episodes, calls>>
    BY DEF GateOpen, GateAuto, GateRefused, GateRequest, GateStillWaiting, WaitDecided,
           WaitExpires, memory
  <2> QED BY <2>1 DEF Inv, IInv, TypeOK
<1>d. ~MayRun(task) => Done(task) = {}
  BY <1>t DEF Earned
<1>h. claims # 0 => Halted(task) /\ task.status # "completed"
  <2>1. claims # 0 => Done(task) = {}
    BY RefusedFacts
  <2> QED BY <1>t, <2>1, SomeStep DEF Inv, OInv, ClaimedInv, Earned
<1>1. CASE GateOpen
  <2>1. Goto("start") /\ pc = "gate" /\ MayRun(task)
    BY <1>1 DEF GateOpen, At, MayRun
  <2>2. Alive
    BY <2>1, RefusedFacts DEF Alive
  <2>3. WorkPlaces'
    BY <2>1, PlainPlace DEF Goto
  <2> QED BY <1>n, <1>u, <2>1, <2>2, <2>3, AliveGoto
<1>2. CASE GateAuto
  <2>1. Emit(task, "start") /\ pc = "gate" /\ MayRun(task)
    BY <1>2 DEF GateAuto, At, MayRun
  <2>2. Alive
    BY <2>1, RefusedFacts DEF Alive
  <2>3. WorkPlaces'
    BY <2>1, PlainPlace DEF Emit
  <2> QED BY <1>t, <1>n, <1>u, <2>1, <2>2, <2>3, AliveFacts, AliveEmit
<1>3. CASE GateRefused
  <2>1. Goto("finish") /\ pc = "gate" /\ outcome' = "denied"
    BY <1>3 DEF GateRefused, Deny, At
  <2>2. UNCHANGED <<row, task, dump>> /\ pc' = "finish"
    BY <2>1 DEF Goto
  <2>3. CASE claims = 0
    <3>1. Alive
      BY <2>1, <2>3 DEF Alive
    <3>2. WorkPlaces'
      BY <2>1, <2>2 DEF WorkPlaces
    <3> QED BY <1>n, <1>u, <2>1, <3>1, <3>2, AliveGoto
  <2>4. CASE claims # 0
    BY <1>n, <1>u, <1>h, <2>1, <2>2, <2>4, RefusedFacts, HaltedMove
  <2> QED BY <2>3, <2>4
<1>4. CASE GateRequest
  <2> DEFINE t == [task EXCEPT !.status = "awaiting_approval", !.decision = "none"]
  <2>1. /\ Emit(t, "waiting") /\ ~MayRun(task) /\ task.decision = "none"
        /\ task.status # "awaiting_approval" /\ pc = "gate"
    BY <1>4 DEF GateRequest, At
  <2>2. /\ Done(t) = Done(task) /\ t.status = "awaiting_approval" /\ t.auto = task.auto
        /\ t.decision = task.decision
    BY <1>t, <2>1 DEF Task, Done
  <2>3. Alive
    <3>1. claims # 0 => FALSE
      BY <2>1 DEF Inv, IInv, DecisionKept, Decided, Parked
    <3> QED BY <2>1, <3>1 DEF Alive
  <2> HIDE DEF t
  <2>4. Earned(t) /\ ~Over(t)
    BY <1>d, <2>1, <2>2, EarnedNothing DEF Over, TerminalStatuses
  <2>5. WorkPlaces'
    <3>1. task' = t /\ pc' = "waiting"
      BY <2>1 DEF Emit
    <3> QED BY <1>d, <2>1, <2>2, <3>1 DEF WorkPlaces, Done
  <2> QED BY <1>n, <1>u, <2>1, <2>2, <2>3, <2>4, <2>5, AliveEmit
<1>5. CASE GateStillWaiting
  <2>1. /\ Goto("waiting") /\ ~MayRun(task) /\ task.status = "awaiting_approval"
        /\ pc = "gate" /\ UNCHANGED outcome
    BY <1>5 DEF GateStillWaiting, At
  <2>2. UNCHANGED <<row, task, dump>> /\ pc' = "waiting"
    BY <2>1 DEF Goto
  <2>3. WorkPlaces'
    BY <1>d, <2>1, <2>2 DEF WorkPlaces, Done
  <2>4. CASE claims = 0
    <3>1. Alive
      BY <2>1, <2>4 DEF Alive
    <3> QED BY <1>n, <1>u, <2>1, <2>3, <3>1, AliveGoto
  <2>5. CASE claims # 0
    BY <1>n, <1>u, <1>h, <2>2, <2>5, RefusedFacts, HaltedMove
  <2> QED BY <2>4, <2>5
<1>w. pc = "waiting" => Done(task) = {}
  BY DEF Inv, OInv, WorkPlaces
<1>a. pc = "waiting" /\ claims = 0 => Alive /\ task.status = "awaiting_approval"
  BY DEF Inv, OInv, OutcomePlaces, Alive
<1>6. CASE WaitDecided
  <2>1. /\ pc = "waiting" /\ task' = [task EXCEPT !.decision = row.decision]
        /\ \/ row.decision = "yes" /\ pc' = "start"
           \/ row.decision = "no" /\ pc' = "finish" /\ outcome' = "denied"
        /\ UNCHANGED <<row, dump>>
    BY <1>6 DEF WaitDecided, At
  <2>2. /\ Done(task') = {} /\ task'.auto = task.auto /\ task'.status = task.status
        /\ task'.decision = row.decision /\ task'.verified = task.verified
        /\ task'.rework = task.rework
    BY <1>t, <1>w, <2>1 DEF Task, Done
  <2>3. CASE claims = 0
    <3>1. task.decision = row.decision /\ ~Over(task) /\ episodes = 0
      BY <1>n, <2>1, <2>3, <1>a, UnclaimedFacts, AliveFacts
    <3>2. Earned(task)'
      BY <1>a, <2>1, <2>2, <2>3 DEF Earned, Done
    <3>3. WorkPlaces' /\ OutcomePlaces'
      BY <2>1, <2>2, <3>1, <1>u DEF WorkPlaces, OutcomePlaces, Over
    <3>4. Follows(task, task')
      BY <1>w, <2>1, <3>1 DEF Follows
    <3> QED
      BY <1>n, <1>u, <1>w, <2>1, <2>2, <2>3, <3>1, <3>2, <3>3, <3>4, MoveKeeps
  <2>4. CASE claims # 0
    <3>1. Halted(task') /\ task'.status # "completed"
      BY <1>h, <2>2, <2>4 DEF Halted, Over
    <3> QED BY <1>n, <1>u, <2>1, <2>2, <2>4, <3>1, HaltedMove
  <2> QED BY <2>3, <2>4
<1>7. CASE WaitExpires
  <2> DEFINE t == [task EXCEPT !.decision = "no"]
  <2>1. /\ pc = "waiting" /\ Emit(t, "finish") /\ outcome' = "denied"
    BY <1>7 DEF WaitExpires, At
  <2>2. /\ Done(t) = {} /\ t.auto = task.auto /\ t.status = task.status
    BY <1>t, <1>w, <2>1 DEF Task, Done
  <2>3. /\ task' = t /\ pc' = "finish" /\ UNCHANGED row
        /\ dump'["janitor"] = dump["janitor"] /\ dump'["runner"] = t
    BY <2>1 DEF Emit, Inv, IInv, TypeOK, Threads
  <2>4. dump'["runner"] # NoDump
    BY <2>3, NoDumpAssumption DEF TypeOK
  <2> HIDE DEF t
  <2>5. CASE claims = 0
    <3>1. Alive /\ t.status = "awaiting_approval"
      BY <1>a, <2>1, <2>2, <2>5
    <3>2. Earned(t) /\ ~Over(t)
      BY <2>2, <3>1, EarnedNothing DEF Over, TerminalStatuses
    <3>3. WorkPlaces'
      BY <2>1, <2>3 DEF WorkPlaces
    <3> QED BY <1>n, <1>u, <1>w, <2>1, <2>2, <3>1, <3>2, <3>3, AliveEmit
  <2>6. CASE claims # 0
    <3>1. Halted(task') /\ task'.status # "completed" /\ Done(task') = {}
      BY <1>h, <2>2, <2>3, <2>6 DEF Halted, Over
    <3> QED BY <1>n, <1>u, <2>1, <2>2, <2>3, <2>4, <2>6, <3>1, HaltedMove
  <2> QED BY <2>5, <2>6
<1> QED BY <1>1, <1>2, <1>3, <1>4, <1>5, <1>6, <1>7

\* Behind the gate.  Only Start, Reset and the verifier's return do more to the
\* completed steps than add the current one.
LEMMA WorkKeeps ==
  ASSUME Inv, TypeOK', UNCHANGED claims,
         \/ Start \/ EnterVerifier
         \/ \E s \in Steps : \/ EnterWorker(s) \/ StartStep(s) \/ Attempt(s) \/ Call(s)
                             \/ \E verdict \in {"passed", "rejected"} : CallReturns(s, verdict)
                             \/ CallFails(s)
         \/ CallRetries \/ RoundPassed \/ StartRework \/ Reset \/ GiveUp \/ Synthesize
  PROVE  OInv'
<1>t. task \in Task /\ Earned(task)
  BY DEF Inv, IInv, TypeOK, OInv, EarnedInv
<1>n. dump["runner"] = NoDump /\ pc \in Working
  BY DEF Start, EnterVerifier, EnterWorker, StartStep, Attempt, Call, CallReturns,
         CallFails, CallRetries, RoundPassed, StartRework, Reset, GiveUp, Synthesize,
         At, Working
<1>a. Alive /\ ~Over(task)
  BY <1>n, RefusedFacts, AliveFacts DEF Alive, Working
<1>m. task.risk # "none" /\ MayRun(task)
  BY <1>n DEF Inv, IInv, PlacesOK, WorkApproved, MayRun, Working
<1>v. /\ task.verified \in Verdict /\ task.rework \in 0 .. 1
      /\ \A s \in Steps : calls[s] <= calls[s]
  BY <1>t DEF Task, MaxRounds, Inv, IInv, TypeOK
<1>p. ASSUME NEW t, NEW next, Emit(t, next), UNCHANGED <<episodes, calls>>,
             t.status # "completed", ~Over(t),
             t.risk = task.risk, t.auto = task.auto, t.decision = task.decision,
             \A s \in Done(t) : calls[s] > 0,
             Verifier \in Done(t) => t.verified # "unknown",
             \/ Done(task) \subseteq Done(t)
             \/ Done(task) = Steps /\ task.verified = "rejected" /\ task.rework = 1,
             next \in Working \union {"fail", "finish"},
             WorkPlaces'
      PROVE  OInv'
  <2>1. Earned(t)
    BY <1>m, <1>p DEF Earned, MayRun
  <2>2. next \notin {"remember", "close", "ended", "down", "waiting"}
    BY <1>p DEF Working
  <2> QED BY <1>a, <1>n, <1>p, <2>1, <2>2, AliveEmit
<1>g. ASSUME NEW next, Goto(next), UNCHANGED <<episodes, calls>>,
             next \notin {"remember", "close", "ended", "down", "waiting"}, WorkPlaces'
      PROVE  OInv'
  BY <1>a, <1>n, <1>v, <1>g, AliveGoto
<1>e. (\A s \in Done(task) : calls[s] > 0) /\ (Verifier \in Done(task) => task.verified # "unknown")
  BY <1>t DEF Earned
<1>1. CASE Start \/ EnterVerifier
  <2>1. PICK status \in {"running", "verifying"}, next \in {"round", "step"} :
           Emit(WithStatus(task, status), next)
    BY <1>1 DEF Start, EnterVerifier
  <2>2. UNCHANGED <<episodes, calls>>
    BY <1>1 DEF Start, EnterVerifier, memory
  <2> DEFINE t == WithStatus(task, status)
  <2>3. /\ Done(t) = Done(task) /\ t.status = status /\ t.risk = task.risk
        /\ t.auto = task.auto /\ t.decision = task.decision /\ t.verified = task.verified
    BY <1>t, StatusDone
  <2>4. ~Over(t) /\ t.status # "completed"
    BY <2>3 DEF Over, TerminalStatuses
  <2>5. WorkPlaces'
    BY <2>1, PlainPlace DEF Emit
  <2>6. next \in Working
    BY DEF Working
  <2> HIDE DEF t
  <2>7. Emit(t, next)
    BY <2>1 DEF t
  <2> QED BY <1>e, <2>2, <2>3, <2>4, <2>5, <2>6, <2>7, <1>p
<1>2. ASSUME NEW s \in Steps, EnterWorker(s) PROVE OInv'
  <2>1. Goto("step") /\ UNCHANGED <<episodes, calls>>
    BY <1>2 DEF EnterWorker, memory
  <2>2. WorkPlaces'
    BY <2>1, PlainPlace DEF Goto
  <2> QED BY <2>1, <2>2, <1>g
<1>3. ASSUME NEW s \in Steps, NEW status \in {"running", "failed"}, NEW next \in {"attempt", "fail"},
             IsCurrent(task, s), Emit(WithStep(task, s, status), next),
             UNCHANGED <<episodes, calls>>
      PROVE  OInv'
  <2> DEFINE t == WithStep(task, s, status)
  <2>1. /\ Done(t) = Done(task) /\ t.status = task.status /\ t.risk = task.risk
        /\ t.auto = task.auto /\ t.decision = task.decision /\ t.verified = task.verified
    <3>1. status # "completed" /\ Done(task) \ {s} = Done(task)
      BY <1>3, CurrentFacts
    <3>2. Done(t) = IF status = "completed" THEN Done(task) \union {s} ELSE Done(task) \ {s}
      BY <1>t, StepDone
    <3>3. /\ t.status = task.status /\ t.risk = task.risk /\ t.auto = task.auto
          /\ t.decision = task.decision /\ t.verified = task.verified
      BY <1>t, StepDone
    <3> HIDE DEF t
    <3> QED BY <3>1, <3>2, <3>3
  <2>2. ~Over(t) /\ t.status # "completed"
    BY <1>a, <2>1 DEF Over, TerminalStatuses
  <2>3. WorkPlaces'
    BY <1>3, PlainPlace DEF Emit
  <2>4. next \in Working \union {"fail", "finish"}
    BY DEF Working
  <2> HIDE DEF t
  <2>5. Emit(t, next)
    BY <1>3 DEF t
  <2> QED BY <1>e, <1>3, <2>1, <2>2, <2>3, <2>4, <2>5, <1>p
<1>4. ASSUME NEW s \in Steps, StartStep(s) \/ CallFails(s) PROVE OInv'
  BY <1>4, <1>3 DEF StartStep, CallFails, memory
<1>5. ASSUME NEW s \in Steps, Attempt(s) PROVE OInv'
  <2> DEFINE t == [task EXCEPT !.steps[s].attempts = @ + 1]
  <2>1. Emit(t, "call") /\ UNCHANGED <<episodes, calls>>
    BY <1>5 DEF Attempt, memory
  <2>2. /\ t.status = task.status /\ t.risk = task.risk
        /\ t.auto = task.auto /\ t.decision = task.decision /\ t.verified = task.verified
    BY <1>t DEF Task
  <2>3. \A q \in Steps : t.steps[q].status = task.steps[q].status
    BY <1>t DEF Task, PlanStep
  <2> HIDE DEF t
  <2>4. Done(t) = Done(task)
    BY <2>3 DEF Done
  <2>5. ~Over(t) /\ t.status # "completed"
    BY <1>a, <2>2 DEF Over, TerminalStatuses
  <2>6. WorkPlaces'
    BY <2>1, PlainPlace DEF Emit
  <2>7. "call" \in Working
    BY DEF Working
  <2> QED BY <1>e, <2>1, <2>2, <2>4, <2>5, <2>6, <2>7, <1>p
<1>6. ASSUME NEW s \in Steps, Call(s) PROVE OInv'
  <2>1. /\ Goto("calling") /\ UNCHANGED episodes /\ IsCurrent(task, s)
        /\ calls' = [calls EXCEPT ![s] = @ + 1]
    BY <1>6 DEF Call, memory
  <2>2. task' = task /\ pc' = "calling"
    BY <2>1 DEF Goto
  <2>3. calls \in [Steps -> Nat]
    BY DEF Inv, IInv, TypeOK
  <2>4. calls'[s] > 0 /\ \A q \in Steps : calls[q] <= calls'[q]
    BY <2>1, <2>3
  <2>5. \A q \in Steps : IsCurrent(task, q) => q = s
    BY <2>1, CurrentFacts
  <2>6. WorkPlaces'
    BY <2>2, <2>4, <2>5 DEF WorkPlaces, IsCurrent
  <2> QED BY <1>a, <1>n, <2>1, <2>4, <2>6, AliveGoto
<1>7. ASSUME NEW s \in Steps, NEW verdict \in {"passed", "rejected"}, CallReturns(s, verdict)
      PROVE  OInv'
  <2> DEFINE w == WithStep(task, s, "completed")
             t == [w EXCEPT !.verified = IF s = Verifier THEN verdict ELSE @]
  <2>1. /\ Emit(t, "round") /\ IsCurrent(task, s) /\ pc = "calling"
        /\ UNCHANGED <<episodes, calls>>
    BY <1>7 DEF CallReturns, At, memory
  <2>2. /\ Done(w) = Done(task) \union {s} /\ w.status = task.status
        /\ w.risk = task.risk /\ w.auto = task.auto /\ w.decision = task.decision
        /\ w.verified = task.verified
    BY <1>t, StepDone
  <2>3. w \in Task
    BY <1>t, WithStepType DEF StepStatus
  <2> HIDE DEF w
  <2>4. /\ t.status = w.status /\ t.risk = w.risk /\ t.auto = w.auto
        /\ t.decision = w.decision /\ t.steps = w.steps
        /\ t.verified = IF s = Verifier THEN verdict ELSE w.verified
    BY <2>3 DEF Task
  <2> HIDE DEF t
  <2>5. Done(t) = Done(task) \union {s}
    BY <2>2, <2>4 DEF Done
  <2>6. calls[s] > 0
    BY <2>1 DEF Inv, OInv, WorkPlaces
  <2>7. ~Over(t) /\ t.status # "completed"
    BY <1>a, <2>2, <2>4 DEF Over, TerminalStatuses
  <2>8. WorkPlaces'
    BY <2>1, PlainPlace DEF Emit
  <2>9. Verifier \in Done(t) => t.verified # "unknown"
    BY <1>e, <2>2, <2>4, <2>5
  <2>10. "round" \in Working
    BY DEF Working
  <2> QED BY <1>e, <2>1, <2>2, <2>4, <2>5, <2>6, <2>7, <2>8, <2>9, <2>10, <1>p
<1>8. CASE CallRetries
  <2>1. Emit(task, "attempt") /\ UNCHANGED <<episodes, calls>>
    BY <1>8 DEF CallRetries, memory
  <2>2. WorkPlaces'
    BY <2>1, PlainPlace DEF Emit
  <2>3. "attempt" \in Working /\ task.status # "completed"
    BY <1>a DEF Working, Over, TerminalStatuses
  <2> QED BY <1>a, <1>e, <2>1, <2>2, <2>3, <1>p
<1>9. CASE RoundPassed
  <2>1. /\ Goto("synthesizing") /\ UNCHANGED <<episodes, calls>>
        /\ Done(task) = Steps /\ task.verified = "passed"
    BY <1>9, RoundDoneFacts DEF RoundPassed, memory
  <2>2. WorkPlaces'
    BY <2>1 DEF WorkPlaces, Goto, Done
  <2> QED BY <2>1, <2>2, <1>g
\* The verifier ran, so a round that is done and did not pass was rejected.
<1>r. RoundDone(task) /\ task.verified # "passed" =>
        Done(task) = Steps /\ task.verified = "rejected"
  BY <1>e, <1>v, SomeStep, RoundDoneFacts DEF Verdict
<1>10. CASE StartRework
  <2> DEFINE t == [task EXCEPT !.rework = @ + 1]
  <2>1. /\ Emit(t, "reset") /\ UNCHANGED <<episodes, calls>>
        /\ RoundDone(task) /\ task.verified # "passed" /\ task.rework + 1 < 2
    BY <1>10 DEF StartRework, memory, MaxRounds
  <2>2. /\ t.status = task.status /\ t.risk = task.risk /\ t.steps = task.steps
        /\ t.auto = task.auto /\ t.decision = task.decision /\ t.verified = task.verified
        /\ t.rework = task.rework + 1
    BY <1>t DEF Task
  <2>3. task.rework + 1 = 1
    BY <1>v, <2>1
  <2> HIDE DEF t
  <2>4. Done(t) = Done(task)
    BY <2>2 DEF Done
  <2>5. ~Over(t) /\ t.status # "completed"
    BY <1>a, <2>2 DEF Over, TerminalStatuses
  <2>6. WorkPlaces'
    <3>1. task' = t /\ pc' = "reset"
      BY <2>1 DEF Emit
    <3>2. Done(task)' = Done(t)
      BY <3>1 DEF Done
    <3> QED BY <1>r, <2>1, <2>2, <2>3, <2>4, <3>1, <3>2 DEF WorkPlaces
  <2>7. "reset" \in Working
    BY DEF Working
  <2> QED BY <1>e, <2>1, <2>2, <2>4, <2>5, <2>6, <2>7, <1>p
<1>11. CASE Reset
  <2> DEFINE w == ResetForRework(task)
             t == WithStatus(w, "running")
  <2>1. /\ Emit(t, "round") /\ pc = "reset" /\ UNCHANGED <<episodes, calls>>
    BY <1>11 DEF Reset, At, memory
  <2>2. Done(task) = Steps /\ task.verified = "rejected" /\ task.rework = 1
    BY <2>1 DEF Inv, OInv, WorkPlaces
  <2>3. /\ w \in Task /\ Done(w) = {} /\ w.risk = task.risk /\ w.auto = task.auto
        /\ w.decision = task.decision
    BY <1>t, ResetType, ResetDone
  <2> HIDE DEF w
  <2>4. /\ Done(t) = {} /\ t.status = "running" /\ t.risk = task.risk
        /\ t.auto = task.auto /\ t.decision = task.decision
    BY <2>3, StatusDone
  <2> HIDE DEF t
  <2>5. ~Over(t) /\ t.status # "completed"
    BY <2>4 DEF Over, TerminalStatuses
  <2>6. WorkPlaces'
    BY <2>1, PlainPlace DEF Emit
  <2>7. "round" \in Working
    BY DEF Working
  <2> QED BY <2>1, <2>2, <2>4, <2>5, <2>6, <2>7, <1>p
<1>12. CASE GiveUp
  <2>1. Goto("fail") /\ UNCHANGED <<episodes, calls>>
    BY <1>12 DEF GiveUp, Raise, memory
  <2>2. WorkPlaces'
    BY <2>1, PlainPlace DEF Goto
  <2> QED BY <2>1, <2>2, <1>g
<1>13. CASE Synthesize
  <2>1. /\ Emit(task, "finish") /\ UNCHANGED <<episodes, calls>>
        /\ pc = "synthesizing"
    BY <1>13 DEF Synthesize, At, memory
  <2>2. task' = task /\ pc' = "finish"
    BY <2>1 DEF Emit
  <2>3. Done(task) = Steps /\ task.verified = "passed"
    BY <2>1 DEF Inv, OInv, WorkPlaces
  <2>4. WorkPlaces'
    BY <2>2, <2>3 DEF WorkPlaces, Done
  <2>5. task.status # "completed"
    BY <1>a DEF Over, TerminalStatuses
  <2> QED BY <1>a, <1>e, <2>1, <2>4, <2>5, <1>p
<1> QED BY <1>1, <1>2, <1>4, <1>5, <1>6, <1>7, <1>8, <1>9, <1>10, <1>11, <1>12, <1>13

\* The end of a run.
LEMMA EndKeeps ==
  ASSUME Inv, TypeOK', UNCHANGED claims,
         Fail \/ Finish \/ Remember \/ RememberFails \/ Close
  PROVE  OInv'
<1>t. task \in Task /\ Earned(task) /\ \A s \in Steps : calls[s] <= calls[s]
  BY DEF Inv, IInv, TypeOK, OInv, EarnedInv
<1>n. dump["runner"] = NoDump /\ UNCHANGED calls
  BY DEF Fail, Finish, Remember, RememberFails, Raise, Close, At
<1>e. ASSUME NEW t, NEW next, Emit(t, next)
      PROVE  /\ task' = t /\ pc' = next /\ UNCHANGED row
             /\ dump'["janitor"] = dump["janitor"] /\ dump'["runner"] = t
             /\ dump'["runner"] # NoDump
  <2>1. /\ task' = t /\ pc' = next /\ UNCHANGED row
        /\ dump'["janitor"] = dump["janitor"] /\ dump'["runner"] = t
    BY <1>e DEF Emit, Inv, IInv, TypeOK, Threads
  <2> QED BY <2>1, NoDumpAssumption DEF TypeOK
<1>h. claims # 0 => Done(task) = {} /\ Halted(task) /\ task.status # "completed"
  BY <1>t, RefusedFacts, SomeStep DEF Inv, OInv, ClaimedInv, Earned
<1>z. claims = 0 /\ pc \in {"fail", "finish", "remember"} => episodes = 0
  BY DEF Inv, OInv, OutcomePlaces, IInv, TypeOK
<1>1. CASE Fail
  <2> DEFINE t == [task EXCEPT !.error = exc]
  <2>1. /\ Emit(t, "finish") /\ outcome' = "failed" /\ pc = "fail" /\ UNCHANGED episodes
    BY <1>1 DEF Fail, At, memory
  <2>2. /\ t.status = task.status /\ t.risk = task.risk /\ t.auto = task.auto
        /\ t.decision = task.decision /\ t.verified = task.verified /\ t.steps = task.steps
    BY <1>t DEF Task
  <2> HIDE DEF t
  <2>3. Done(t) = Done(task)
    BY <2>2 DEF Done
  <2>4. /\ task' = t /\ pc' = "finish" /\ UNCHANGED row
        /\ dump'["janitor"] = dump["janitor"] /\ dump'["runner"] = t
        /\ dump'["runner"] # NoDump
    BY <2>1, <1>e
  <2>5. CASE claims = 0
    <3>1. Earned(task)'
      BY <1>t, <1>n, <2>2, <2>3, <2>4 DEF Earned, Done, MayRun
    <3>2. WorkPlaces' /\ OutcomePlaces'
      BY <1>z, <2>1, <2>4, <2>5 DEF WorkPlaces, OutcomePlaces
    <3>3. Follows(task, task')
      BY <2>2, <2>3, <2>4 DEF Follows, Over
    <3> QED BY <1>t, <1>n, <2>2, <2>4, <2>5, <3>1, <3>2, <3>3, MoveKeeps
  <2>6. CASE claims # 0
    <3>1. Halted(task') /\ task'.status # "completed" /\ Done(task') = {}
      BY <1>h, <2>2, <2>3, <2>4, <2>6 DEF Halted, Over
    <3> QED BY <1>n, <2>1, <2>2, <2>4, <2>6, <3>1, HaltedMove
  <2> QED BY <2>5, <2>6
<1>2. CASE Finish
  <2> DEFINE t == WithStatus(task, outcome)
  <2>1. Emit(t, "remember") /\ pc = "finish" /\ UNCHANGED <<outcome, episodes>>
    BY <1>2 DEF Finish, At, memory
  <2>2. /\ t.status = outcome /\ t.risk = task.risk /\ t.auto = task.auto
        /\ t.decision = task.decision /\ t.verified = task.verified
        /\ Done(t) = Done(task)
    BY <1>t, StatusDone
  <2>3. outcome \in TerminalStatuses
    BY <2>1 DEF Inv, IInv, PlacesOK
  <2>4. outcome = "completed" => Done(task) = Steps /\ task.verified = "passed"
    BY <2>1 DEF Inv, OInv, WorkPlaces
  <2> HIDE DEF t
  <2>5. /\ task' = t /\ pc' = "remember" /\ UNCHANGED row
        /\ dump'["janitor"] = dump["janitor"] /\ dump'["runner"] = t
        /\ dump'["runner"] # NoDump
    BY <2>1, <1>e
  <2>6. CASE claims = 0
    <3>1. Earned(task)'
      BY <1>t, <1>n, <2>2, <2>4, <2>5 DEF Earned, Done, MayRun
    <3>2. WorkPlaces' /\ OutcomePlaces'
      BY <1>z, <2>1, <2>2, <2>3, <2>5, <2>6 DEF WorkPlaces, OutcomePlaces, Over
    <3>3. Over(task) => outcome # "completed"
      BY <2>1, <2>6 DEF Inv, OInv, OutcomePlaces
    <3>4. Follows(task, task')
      BY <2>2, <2>3, <2>5, <3>3 DEF Follows, Over
    <3> QED BY <1>t, <1>n, <2>2, <2>5, <2>6, <3>1, <3>2, <3>4, MoveKeeps
  <2>7. CASE claims # 0
    <3>1. Halted(task') /\ task'.status # "completed" /\ Done(task') = {}
      BY <1>h, <2>2, <2>3, <2>4, <2>5, <2>7, SomeStep DEF Halted, Over
    <3> QED BY <1>n, <2>2, <2>5, <2>7, <3>1, HaltedMove
  <2> QED BY <2>6, <2>7
\* A move that leaves the live object alone.
<1>g. ASSUME NEW next \in {"close", "fail", "ended"}, Goto(next), pc = "remember",
             next # "close" => UNCHANGED episodes
      PROVE  OInv'
  <2>1. UNCHANGED <<row, task, dump>> /\ pc' = next
    BY <1>g DEF Goto
  <2>2. CASE claims = 0
    <3>1. row.status = task.status /\ Over(task)
      BY <1>n, <1>g, <2>2, UnclaimedFacts DEF Inv, OInv, OutcomePlaces
    <3>2. WorkPlaces' /\ Follows(task, task')
      BY <2>1, PlainPlace DEF Follows
    <3>3. OutcomePlaces'
      BY <1>z, <1>g, <2>1, <2>2, <3>1 DEF OutcomePlaces, Over
    <3>4. Earned(task)'
      BY <1>t, <1>n, <2>1 DEF Earned, Done, MayRun
    <3> QED BY <1>t, <1>n, <2>1, <2>2, <3>2, <3>3, <3>4, MoveKeeps
  <2>3. CASE claims # 0
    BY <1>n, <1>h, <2>1, <2>3, HaltedMove
  <2> QED BY <2>2, <2>3
<1>3. CASE Remember \/ RememberFails
  BY <1>3, <1>g DEF Remember, RememberFails, Raise, At, memory
<1>4. CASE Close
  <2>1. Emit(task, "ended") /\ pc = "close" /\ UNCHANGED episodes
    BY <1>4 DEF Close, At, memory
  <2>2. /\ task' = task /\ pc' = "ended" /\ UNCHANGED row
        /\ dump'["janitor"] = dump["janitor"] /\ dump'["runner"] = task
        /\ dump'["runner"] # NoDump
    BY <2>1, <1>e
  <2>3. CASE claims = 0
    <3>1. Earned(task)'
      BY <1>t, <1>n, <2>2 DEF Earned, Done, MayRun
    <3>2. WorkPlaces' /\ Follows(task, task')
      BY <2>2, PlainPlace DEF Follows
    <3>3. OutcomePlaces'
      BY <2>1, <2>2, <2>3 DEF Inv, OInv, OutcomePlaces, Over
    <3> QED BY <1>t, <1>n, <2>2, <2>3, <3>1, <3>2, <3>3, MoveKeeps
  <2>4. CASE claims # 0
    BY <1>n, <1>h, <2>2, <2>4, HaltedMove
  <2> QED BY <2>3, <2>4
<1> QED BY <1>1, <1>2, <1>3, <1>4

-----------------------------------------------------------------------------
(* The commits, the reviewers, the janitor and the process.                *)

LEMMA CommitKeeps ==
  ASSUME Inv, NEW t \in Threads, NEW last \in BOOLEAN, Flush(t, last), UNCHANGED claims
  PROVE  OInv'
<1>1. /\ dump[t] # NoDump /\ row' = dump[t] /\ UNCHANGED <<task, pc, outcome, episodes, calls>>
      /\ dump' = [dump EXCEPT ![t] = NoDump]
  BY DEF Flush, control
<1>2. dump'[t] = NoDump /\ \A u \in Threads : u # t => dump'[u] = dump[u]
  BY <1>1 DEF Inv, IInv, TypeOK
<1>3. EarnedInv'
  BY <1>1, <1>2 DEF Inv, OInv, EarnedInv, Earned, Done, MayRun
<1>4. claims = 0 => t = "runner" /\ row' = task
  <2>1. claims = 0 => dump["janitor"] = NoDump
    BY DEF Inv, IInv, JanitorOK
  <2> QED BY <1>1, <2>1 DEF Threads, Inv, OInv, BehindInv
<1>5. BehindInv'
  BY <1>1, <1>2, <1>4 DEF BehindInv, Done
<1>6. ClaimedInv'
  BY <1>1, <1>2 DEF Inv, OInv, ClaimedInv, Halted, Over
<1>7. WorkPlaces'
  BY <1>1 DEF Inv, OInv, WorkPlaces, Done, IsCurrent
<1>8. OutcomePlaces'
  BY <1>1, <1>4 DEF Inv, OInv, OutcomePlaces, Over
<1> QED BY <1>3, <1>5, <1>6, <1>7, <1>8 DEF OInv

LEMMA OthersKeep ==
  ASSUME Inv, TypeOK', ~Run, [Next]_vars
  PROVE  OInv'
<1>t. /\ task \in Task /\ row \in Task /\ Earned(task) /\ Earned(row)
      /\ \A t \in Threads : t = "runner" \/ t = "janitor"
  BY DEF Inv, IInv, TypeOK, OInv, EarnedInv, Threads
<1>o. Undecided(row) =>
        /\ claims = 0 /\ Done(row) = {} /\ ~row.auto /\ dump["janitor"] = NoDump
        /\ dump["runner"] # NoDump => dump["runner"].decision = "no"
  BY <1>t, OpenFacts DEF Inv, Earned, MayRun, Undecided
<1>1. ASSUME NEW decision \in {"yes", "no"}, Decide(decision) PROVE OInv'
  <2>1. /\ Undecided(row) /\ dump["runner"] = NoDump
        /\ task' = [task EXCEPT !.decision = decision] /\ row' = task'
        /\ UNCHANGED <<dump, pc, outcome, episodes, calls, claims>>
    BY <1>1 DEF Decide, Undecided, control, memory
  <2>2. /\ task'.status = task.status /\ task'.steps = task.steps
        /\ task'.verified = task.verified /\ task'.rework = task.rework
    BY <1>t, <2>1 DEF Task
  <2>3. /\ claims = 0 /\ dump["janitor"] = NoDump /\ Done(task) = {}
        /\ row.status = task.status /\ task.status = "awaiting_approval"
    BY <1>o, <2>1, UnclaimedFacts DEF Undecided
  <2>4. Done(task') = {} /\ Done(row') = {}
    BY <2>1, <2>2, <2>3 DEF Done
  <2>5. EarnedInv'
    BY <1>t, <2>1, <2>2, <2>3, <2>4 DEF EarnedInv, Earned, Done
  <2>6. BehindInv' /\ ClaimedInv'
    BY <2>1, <2>3 DEF BehindInv, ClaimedInv, Done
  <2>7. WorkPlaces'
    BY <2>1, <2>2 DEF Inv, OInv, WorkPlaces, Done, IsCurrent
  <2>8. OutcomePlaces'
    BY <2>1, <2>2, <2>3 DEF Inv, OInv, OutcomePlaces, Over
  <2> QED BY <2>5, <2>6, <2>7, <2>8 DEF OInv
<1>2. CASE JanitorRead \/ JanitorMiss \/ JanitorRemember \/ UNCHANGED vars
  <2>1. UNCHANGED <<row, task, dump, pc, outcome, calls, claims>>
    BY <1>2 DEF JanitorRead, JanitorMiss, JanitorRemember, vars, control, history
  <2>2. claims = 0 => UNCHANGED episodes
    BY <1>2 DEF JanitorRead, JanitorMiss, JanitorRemember, vars, memory, Inv, IInv, JanitorOK
  <2>3. EarnedInv'
    BY <2>1 DEF Inv, OInv, EarnedInv, Earned, Done, MayRun
  <2>4. BehindInv' /\ ClaimedInv'
    BY <2>1 DEF Inv, OInv, BehindInv, ClaimedInv, Follows, Done, Halted, Over
  <2>5. WorkPlaces' /\ OutcomePlaces'
    BY <2>1, <2>2 DEF Inv, OInv, WorkPlaces, OutcomePlaces, Done, IsCurrent, Over
  <2> QED BY <2>3, <2>4, <2>5 DEF OInv
<1>3. CASE JanitorClaim
  <2>1. /\ fresh /\ row' = [row EXCEPT !.decision = "no"]
        /\ claims' = claims + 1
        /\ UNCHANGED <<task, dump, pc, outcome, calls>>
    BY <1>3 DEF JanitorClaim, control
  <2>2. Undecided(row)
    BY <2>1 DEF Inv, IInv, OpenRow
  <2>3. row'.status = row.status /\ row'.steps = row.steps /\ claims' # 0
    BY <1>o, <1>t, <2>1, <2>2 DEF Task
  <2>4. Done(row') = {} /\ row'.status = "awaiting_approval"
    BY <1>o, <2>2, <2>3 DEF Done, Undecided
  <2>5. EarnedInv'
    <3>1. Earned(row)'
      BY <2>4 DEF Earned, Done
    <3> QED BY <2>1, <3>1 DEF Inv, OInv, EarnedInv, Earned, Done, MayRun
  <2>6. task.status = "awaiting_approval" /\ ~task.auto
        /\ (dump["runner"] # NoDump => dump["runner"] = task)
    <3>1. ~task.auto
      BY <1>o, <2>2 DEF Inv, GInv, RiskAgrees
    <3>2. CASE dump["runner"] = NoDump
      BY <1>o, <2>2, <3>1, <3>2, UnclaimedFacts DEF Undecided
    <3>3. CASE dump["runner"] # NoDump
      BY <1>o, <2>2, <3>1, <3>3 DEF Inv, OInv, BehindInv, Undecided
    <3> QED BY <3>2, <3>3
  <2>7. ClaimedInv' /\ BehindInv' /\ OutcomePlaces'
    BY <1>o, <1>t, <2>1, <2>2, <2>3, <2>4, <2>6
       DEF ClaimedInv, BehindInv, OutcomePlaces, Halted
  <2>8. WorkPlaces'
    BY <2>1 DEF Inv, OInv, WorkPlaces, Done, IsCurrent
  <2> QED BY <2>5, <2>7, <2>8 DEF OInv
\* The janitor emits only after its claim.
<1>e. ASSUME NEW t, JanitorEmit(t), jan \in {"claimed", "deny", "close"},
             UNCHANGED <<row, control, calls, claims>>,
             t.steps = task.steps, t.auto = task.auto, Halted(task) => Halted(t),
             t.status # "completed" \/ t.status = task.status
      PROVE  OInv'
  <2>1. task' = t /\ dump'["janitor"] = t /\ dump'["runner"] = dump["runner"]
    BY <1>e DEF JanitorEmit, Inv, IInv, TypeOK, Threads
  <2>2. claims # 0 /\ UNCHANGED <<row, pc, outcome, calls, claims>>
    BY <1>e DEF Inv, IInv, JanitorOK, control
  <2>3. /\ Done(task) = {} /\ Halted(task) /\ task.status # "completed"
        /\ ~task.auto /\ pc \notin Working
    BY <1>t, <2>2, RefusedFacts, SomeStep DEF Inv, OInv, ClaimedInv, Earned
  <2>4. Done(t) = {} /\ t.status # "completed" /\ Halted(t) /\ ~t.auto
    BY <1>e, <2>3 DEF Done
  <2>5. EarnedInv'
    <3>1. Earned(t)
      BY <2>4, EarnedNothing
    <3> QED BY <1>t, <2>1, <2>2, <3>1 DEF Inv, OInv, EarnedInv, Earned, Done, MayRun
  <2>6. ClaimedInv' /\ BehindInv' /\ OutcomePlaces'
    BY <1>t, <2>1, <2>2, <2>4
       DEF Inv, OInv, ClaimedInv, BehindInv, OutcomePlaces, Halted, Over
  <2>7. WorkPlaces'
    <3>1. ~(pc = "finish" /\ outcome = "completed")
      BY <2>3, SomeStep DEF Inv, OInv, WorkPlaces
    <3>2. pc \notin {"calling", "synthesizing", "reset"}
      BY <2>3 DEF Working
    <3> QED BY <2>1, <2>2, <2>4, <3>1, <3>2 DEF WorkPlaces, Done
  <2> QED BY <2>5, <2>6, <2>7 DEF OInv
<1>4. CASE JanitorTimeout
  <2> DEFINE t == [task EXCEPT !.decision = "no"]
  <2>1. JanitorEmit(t) /\ jan = "claimed" /\ UNCHANGED <<row, control, calls, claims>>
    BY <1>4 DEF JanitorTimeout, history
  <2>2. t.steps = task.steps /\ t.auto = task.auto /\ t.status = task.status
    BY <1>t DEF Task
  <2> HIDE DEF t
  <2> QED BY <2>1, <2>2, <1>e DEF Halted, Over
<1>5. CASE JanitorDeny
  <2> DEFINE t == WithStatus(task, "denied")
  <2>1. JanitorEmit(t) /\ jan = "deny" /\ UNCHANGED <<row, control, calls, claims>>
    BY <1>5 DEF JanitorDeny, history
  <2>2. t.steps = task.steps /\ t.auto = task.auto /\ t.status = "denied"
    BY <1>t DEF Task, WithStatus
  <2> HIDE DEF t
  <2> QED BY <2>1, <2>2, <1>e DEF Halted, Over, TerminalStatuses
<1>6. CASE JanitorClose
  BY <1>6, <1>e DEF JanitorClose, history
<1>7. CASE JanitorFlush
  BY <1>7, CommitKeeps DEF JanitorFlush, Threads, history
<1>8. CASE Crash
  <2>1. /\ task' = row /\ row' = row /\ claims' = claims /\ pc' = "down"
        /\ UNCHANGED <<calls, episodes>> /\ pc # "down"
        /\ \A t \in Threads : dump'[t] = NoDump
    BY <1>8 DEF Crash, memory
  <2>2. EarnedInv'
    BY <1>t, <2>1 DEF EarnedInv, Earned, Done, MayRun
  <2>3. BehindInv'
    BY <1>t, <2>1 DEF BehindInv, Done, Threads
  <2>4. ClaimedInv'
    <3>1. claims # 0 => ~row.auto /\ Halted(row)
      BY RefusedFacts DEF Inv, OInv, ClaimedInv
    <3> QED BY <2>1, <3>1 DEF ClaimedInv, Halted, Over
  <2>5. WorkPlaces'
    BY <2>1, PlainPlace
  <2>6. OutcomePlaces'
    BY <2>1 DEF Inv, OInv, OutcomePlaces, Over
  <2> QED BY <2>2, <2>3, <2>4, <2>5, <2>6 DEF OInv
<1>9. CASE Restart
  <2>1. /\ pc = "down" /\ UNCHANGED <<row, task, dump, outcome, episodes, calls, claims>>
        /\ pc' = IF row.status \in ActiveStatuses THEN "enter" ELSE "ended"
    BY <1>9 DEF Restart, memory, history
  <2>2. task = row
    BY <2>1 DEF Inv, IInv, PlacesOK
  <2>3. Over(row) <=> pc' = "ended"
    BY <1>t, <2>1 DEF Over, Task, TaskStatus, ActiveStatuses, TerminalStatuses
  <2>4. EarnedInv'
    BY <2>1 DEF Inv, OInv, EarnedInv, Earned, Done, MayRun
  <2>5. BehindInv' /\ ClaimedInv'
    BY <2>1 DEF Inv, OInv, BehindInv, ClaimedInv, Follows, Done, Halted, Over
  <2>6. WorkPlaces'
    BY <2>1, PlainPlace
  <2>7. OutcomePlaces'
    BY <2>1, <2>2, <2>3 DEF Inv, OInv, OutcomePlaces, Over
  <2> QED BY <2>4, <2>5, <2>6, <2>7 DEF OInv
<1> QED BY <1>1, <1>2, <1>3, <1>4, <1>5, <1>6, <1>7, <1>8, <1>9
        DEF Next, JanitorStep, Terminated

-----------------------------------------------------------------------------
\* A new task has done nothing.
LEMMA InitOInv == Init => OInv
<1> SUFFICES ASSUME Init PROVE OInv
  OBVIOUS
<1>1. PICK auto \in BOOLEAN : task = NewTask(auto)
  BY DEF Init, RunnerInit
<1>2. /\ row = task /\ pc = "enter" /\ claims = 0 /\ episodes = 0
      /\ \A t \in Threads : dump[t] = NoDump
  BY DEF Init, RunnerInit
<1>3. task.status = "queued" /\ \A s \in Steps : task.steps[s].status = "pending"
  BY <1>1 DEF NewTask, NewPlan
<1>4. Done(task) = {}
  BY <1>3 DEF Done
<1>5. Earned(task)
  BY <1>3, <1>4, EarnedNothing
<1> QED BY <1>2, <1>3, <1>4, <1>5
        DEF OInv, EarnedInv, BehindInv, ClaimedInv, WorkPlaces, OutcomePlaces, Over,
            TerminalStatuses, Threads

LEMMA NextOInv == Inv /\ [Next]_vars => Inv'
<1> SUFFICES ASSUME Inv, [Next]_vars PROVE Inv'
  OBVIOUS
<1>1. IInv' /\ GInv' /\ TypeOK'
  <2>1. IInv' /\ GInv'
    BY NextInv DEF Inv
  <2> QED BY <2>1 DEF IInv
<1>2. ASSUME Run PROVE OInv'
  <2>1. RunnerStep /\ UNCHANGED claims
    BY <1>2 DEF Run, history
  <2>2. CASE RunnerFlush
    <3>1. Flush("runner", pc = "ended") /\ "runner" \in Threads /\ (pc = "ended") \in BOOLEAN
      BY <2>2 DEF RunnerFlush, Threads
    <3> QED BY <2>1, <3>1, CommitKeeps
  <2> QED
    BY <1>1, <2>1, <2>2, PlanningKeeps, GateKeeps, WorkKeeps, EndKeeps DEF RunnerStep
<1> QED BY <1>1, <1>2, OthersKeep DEF Inv

\* Inv is an invariant of the specification.
THEOREM Inductive == Spec => []Inv
<1>1. Init => Inv
  BY InitInv, InitGInv, InitOInv DEF Inv
<1> QED BY <1>1, NextOInv, PTL DEF Spec

-----------------------------------------------------------------------------
(* The theorems.                                                           *)

\* A task is on record as completed only if every step ran and the verifier
\* passed the result (_run).
THEOREM CompletedIsVerified == Spec => []CompletedMeansVerified
<1>1. Inv => CompletedMeansVerified
  BY RoundDoneFacts DEF Inv, OInv, EarnedInv, Earned, CompletedMeansVerified
<1> QED BY <1>1, Inductive, PTL

\* Once an outcome was remembered no agent is called again (_finish, recover).
THEOREM OutcomeEndsWork == Spec => []NoWorkAfterOutcome
<1>1. Inv => NoWorkAfterOutcome
  <2> SUFFICES ASSUME Inv, episodes > 0 PROVE pc \notin Working
    BY DEF NoWorkAfterOutcome
  <2>1. CASE claims = 0
    BY <2>1 DEF Inv, OInv, OutcomePlaces, Working
  <2>2. CASE claims # 0
    BY <2>2, RefusedFacts
  <2> QED BY <2>1, <2>2
<1> QED BY <1>1, Inductive, PTL

\* How a step may change the row: the runner's emit follows it, a decision
\* leaves work and status alone, and a claimed row stays halted.
LEMMA RowStep ==
  ASSUME Inv, [Next]_vars
  PROVE  \/ Done(row') = Done(row) /\ row'.status = row.status
         \/ claims = 0 /\ Follows(row, row')
         \/ claims # 0 /\ Done(row) = {} /\ Done(row') = {} /\ row' \in Task
            /\ Halted(row') /\ row'.decision = "no" /\ row'.status # "completed"
<1>t. row \in Task /\ task \in Task
  BY DEF Inv, IInv, TypeOK
<1>1. ASSUME NEW t \in Threads, NEW last \in BOOLEAN, Flush(t, last)
      PROVE  \/ claims = 0 /\ Follows(row, row')
             \/ claims # 0 /\ Done(row) = {} /\ Done(row') = {} /\ row' \in Task
                /\ Halted(row') /\ row'.decision = "no" /\ row'.status # "completed"
  <2>1. dump[t] # NoDump /\ row' = dump[t] /\ dump[t] \in Task
    BY <1>1 DEF Flush, Inv, IInv, TypeOK
  <2>2. CASE claims = 0
    <3>1. t = "runner"
      BY <2>1, <2>2 DEF Inv, IInv, JanitorOK, Threads
    <3> QED BY <2>1, <2>2, <3>1 DEF Inv, OInv, BehindInv
  <2>3. CASE claims # 0
    <3>1. Done(row) = {} /\ Done(row') = {} /\ row'.decision = "no"
      BY <2>1, <2>3, RefusedFacts
    <3>2. Halted(row') /\ Earned(row')
      BY <2>1, <2>3 DEF Inv, OInv, ClaimedInv, EarnedInv
    <3>3. row'.status # "completed"
      BY <3>1, <3>2, SomeStep DEF Earned
    <3> QED BY <2>1, <2>3, <3>1, <3>2, <3>3
  <2> QED BY <2>2, <2>3
<1>2. CASE RunnerFlush \/ JanitorFlush
  BY <1>1, <1>2 DEF RunnerFlush, JanitorFlush, Threads
<1>3. ASSUME NEW decision \in {"yes", "no"}, Decide(decision)
      PROVE  Done(row') = Done(row) /\ row'.status = row.status
  <2>1. /\ Undecided(row) /\ dump["runner"] = NoDump
        /\ row' = [task EXCEPT !.decision = decision]
    BY <1>3 DEF Decide, Undecided
  <2>2. Done(row) = Done(task) /\ row.status = task.status
    BY <2>1, OpenFacts, UnclaimedFacts DEF Inv
  <2>3. row'.steps = task.steps /\ row'.status = task.status
    BY <1>t, <2>1 DEF Task
  <2> QED BY <2>2, <2>3 DEF Done
<1>4. CASE JanitorClaim
  <2>1. row' = [row EXCEPT !.decision = "no"]
    BY <1>4 DEF JanitorClaim
  <2>2. row'.steps = row.steps /\ row'.status = row.status
    BY <1>t, <2>1 DEF Task
  <2> QED BY <2>2 DEF Done
<1>5. CASE UNCHANGED row
  BY <1>5
<1>6. ASSUME RunnerStep, ~RunnerFlush PROVE UNCHANGED row
  BY <1>6 DEF RunnerStep, EnterPlanning, EnterResume, Plan, StartAssessing, Assess,
     ModelFails, GateOpen, GateAuto, GateRefused, Deny, GateRequest, GateStillWaiting,
     WaitDecided, WaitExpires, Start, EnterVerifier, EnterWorker, StartStep, Attempt,
     Call, CallReturns, CallFails, CallRetries, RoundPassed, StartRework, Reset, GiveUp,
     Synthesize, Fail, Finish, Remember, RememberFails, Close, Emit, Goto, Raise
<1>7. CASE JanitorRead \/ JanitorMiss \/ JanitorTimeout \/ JanitorDeny \/ JanitorRemember
           \/ JanitorClose \/ Crash \/ Restart \/ UNCHANGED vars
  BY <1>7 DEF JanitorRead, JanitorMiss, JanitorTimeout, JanitorDeny, JanitorRemember,
     JanitorClose, Crash, Restart, vars
<1> QED BY <1>2, <1>3, <1>4, <1>5, <1>6, <1>7 DEF Next, Run, JanitorStep, Terminated

\* Completed work is given up only for the rework round of a rejected plan, by
\* no crash, retry or janitor (_run, _reset_for_rework).
THEOREM WorkStays == Spec => CompletedStays
<1>1. Inv /\ [Next]_vars =>
        [\A s \in Steps :
           row.steps[s].status = "completed" /\ row'.steps[s].status # "completed"
             => RoundDone(row) /\ row.verified = "rejected" /\ row.rework = 1]_vars
  <2> SUFFICES ASSUME Inv, [Next]_vars, NEW s \in Steps,
                      row.steps[s].status = "completed", row'.steps[s].status # "completed"
               PROVE  RoundDone(row) /\ row.verified = "rejected" /\ row.rework = 1
    OBVIOUS
  <2>1. s \in Done(row) /\ s \notin Done(row')
    BY DEF Done
  <2>2. claims = 0 /\ Follows(row, row')
    BY <2>1, RowStep
  <2> QED BY <2>1, <2>2, RoundDoneFacts DEF Follows
<1> QED BY <1>1, Inductive, PTL DEF CompletedStays, Spec

\* An outcome on record stays one, but for the older payload of a refused task
\* that a janitor may still write over it (_emit).
THEOREM OutcomeIsFinal == Spec => OutcomeStays
<1>1. Inv /\ [Next]_vars =>
        [row.status \in TerminalStatuses =>
           /\ row'.status = "completed" => row.status = "completed"
           /\ row'.status \in ActiveStatuses =>
                row'.status = "awaiting_approval" /\ row'.decision = "no"]_vars
  <2> SUFFICES ASSUME Inv, [Next]_vars, row.status \in TerminalStatuses
               PROVE  /\ row'.status = "completed" => row.status = "completed"
                      /\ row'.status \in ActiveStatuses =>
                           row'.status = "awaiting_approval" /\ row'.decision = "no"
    OBVIOUS
  <2>1. \A x \in TerminalStatuses : x \notin ActiveStatuses
    BY DEF TerminalStatuses, ActiveStatuses
  <2>2. CASE row'.status = row.status
    BY <2>1, <2>2
  <2>3. CASE claims = 0 /\ Follows(row, row')
    BY <2>1, <2>3 DEF Follows, Over
  <2>4. CASE Halted(row') /\ row'.decision = "no" /\ row'.status # "completed"
    BY <2>1, <2>4 DEF Halted, Over
  <2> QED BY <2>2, <2>3, <2>4, RowStep
<1> QED BY <1>1, Inductive, PTL DEF OutcomeStays, Spec

-----------------------------------------------------------------------------
(***************************************************************************)
(* The agents' calls, for every plan length, retry budget and number of    *)
(* crashes: CallsBounded.                                                  *)
(*                                                                         *)
(* Once the janitor has claimed the row no agent was or will be called     *)
(* (CalledInv).  Until then every call was preceded by a committed attempt *)
(* (AttemptsInv), and each round and each life of the process spends the   *)
(* attempts of a step at most once (BudgetInv).                            *)
(***************************************************************************)

Uncalled == \A s \in Steps : calls[s] = 0

Attempts(v) == [s \in Steps |-> v.steps[s].attempts]

\* The runner works on a step, or on the reset of them all.
Busy == {"attempt", "call", "calling", "reset"}

\* The run ends: nothing is called any more, unless the process stops.
Ending == {"fail", "finish", "remember", "close", "ended"}

\* A plan an agent was called for is assessed and may run.
CalledInv ==
  /\ ~Uncalled =>
       /\ claims = 0
       /\ row.risk # "none" /\ MayRun(row) /\ task.risk # "none" /\ MayRun(task)
  /\ pc = "waiting" => Uncalled

AttemptsInv ==
  claims = 0 =>
    /\ \A s \in Steps : calls[s] <= Attempts(row)[s] /\ calls[s] <= Attempts(task)[s]
    /\ dump["runner"] = NoDump => Attempts(row) = Attempts(task)
    /\ pc = "call" => \A s \in Steps : IsCurrent(task, s) => calls[s] < Attempts(task)[s]

\* The rounds and lives of the process a version of the task has behind it, and
\* the calls of a step they allow.
Lives(v) == v.rework + crashes

Budget(n) == TotalAttempts * n

\* What the loop of _run_step has spent on a step in this round and life.
Spent(s) ==
  CASE pc \in {"attempt", "call"} /\ IsCurrent(task, s) -> attempt - 1
    [] pc = "calling" /\ IsCurrent(task, s) -> attempt
    [] OTHER -> 0

BudgetInv ==
  claims = 0 =>
    /\ row.rework <= task.rework
    /\ dump["runner"] = NoDump => row.rework = task.rework
    /\ \A s \in Steps : calls[s] <= Budget(Lives(row) + 1)
    /\ pc \notin Ending => \A s \in Steps : s \notin Done(task) \/ pc = "reset" =>
         calls[s] <= Budget(Lives(task)) + Spent(s)

CallInv == CalledInv /\ AttemptsInv /\ BudgetInv

-----------------------------------------------------------------------------
(* What the definitions say of types and numbers.                          *)

LEMMA BudgetFacts ==
  ASSUME NEW n \in Nat
  PROVE  /\ Budget(n) \in Nat /\ TotalAttempts \in Nat \ {0}
         /\ Budget(n + 1) = Budget(n) + TotalAttempts
<1>1. TotalAttempts \in Nat \ {0}
  BY StepsFacts
<1> QED BY <1>1 DEF Budget

LEMMA TaskNumbers ==
  ASSUME NEW v \in Task, crashes \in Nat
  PROVE  /\ \A s \in Steps : Attempts(v)[s] \in Nat
         /\ Attempts(v)[Verifier] \in Nat
         /\ v.rework \in {0, 1} /\ Lives(v) \in Nat /\ Lives(v) = v.rework + crashes
<1>1. \A s \in Steps : Attempts(v)[s] \in Nat
  BY DEF Attempts, Task, PlanStep
<1>2. v.rework \in {0, 1}
  BY DEF Task, MaxRounds
<1> QED BY <1>1, <1>2, StepsFacts DEF Lives

LEMMA Numbers ==
  ASSUME Inv
  PROVE  /\ row \in Task /\ task \in Task
         /\ \A s \in Steps : calls[s] \in Nat
         /\ attempt \in 1 .. TotalAttempts /\ TotalAttempts \in Nat \ {0}
         /\ crashes \in Nat
         /\ \A t \in Threads : t = "runner" \/ t = "janitor"
BY StepsFacts, CrashesAssumption DEF Inv, IInv, TypeOK, Threads

LEMMA SpentNothing ==
  /\ pc \notin Busy \/ pc = "reset" => \A s : Spent(s) = 0
  /\ \A s : ~IsCurrent(task, s) => Spent(s) = 0
BY DEF Spent, Busy

\* What depends on the plan alone.
LEMMA SamePlan ==
  ASSUME NEW v, NEW w, w.steps = v.steps
  PROVE  /\ Done(w) = Done(v) /\ Attempts(w) = Attempts(v)
         /\ \A s : IsCurrent(w, s) <=> IsCurrent(v, s)
BY DEF Done, Attempts, IsCurrent

LEMMA SameDone ==
  ASSUME NEW v, NEW w, Done(w) = Done(v), NEW s \in Steps
  PROVE  IsCurrent(w, s) <=> IsCurrent(v, s)
<1>1. \A q \in Steps : w.steps[q].status = "completed" <=> v.steps[q].status = "completed"
  BY DEF Done
<1>2. \A q \in 1 .. s - 1 : q \in Steps
  BY NStepsAssumption DEF Steps
<1> QED BY <1>1, <1>2 DEF IsCurrent

\* While the runner works, the janitor has not claimed the row.
LEMMA WorkFacts ==
  ASSUME Inv, CallInv, pc \in Working, dump["runner"] = NoDump
  PROVE  /\ claims = 0
         /\ row.risk # "none" /\ MayRun(row) /\ task.risk # "none" /\ MayRun(task)
         /\ Attempts(row) = Attempts(task) /\ row.rework = task.rework
<1>1. claims = 0
  BY RefusedFacts
<1>2. row.decision = task.decision
  BY <1>1, UnclaimedFacts
<1>3. task.risk # "none" /\ MayRun(task)
  BY DEF Inv, IInv, PlacesOK, WorkApproved, MayRun
<1>4. row.risk = task.risk /\ row.auto = task.auto
  BY DEF Inv, GInv, RiskAgrees
<1> QED BY <1>1, <1>2, <1>3, <1>4 DEF MayRun, CallInv, AttemptsInv, BudgetInv

-----------------------------------------------------------------------------
(* Moves that have little to do with calls.                                *)

\* Nothing the invariant is about changes.
LEMMA StillMove ==
  ASSUME CallInv, UNCHANGED <<row, task, dump, pc, attempt, exc, calls, claims, crashes>>
  PROVE  CallInv'
<1>1. CalledInv'
  BY DEF CallInv, CalledInv, Uncalled, MayRun
<1>2. AttemptsInv'
  BY DEF CallInv, AttemptsInv, Attempts, IsCurrent
<1>3. BudgetInv'
  BY DEF CallInv, BudgetInv, Budget, Lives, Done, Spent, IsCurrent
<1> QED BY <1>1, <1>2, <1>3 DEF CallInv

\* Once the row is claimed nothing was called.
LEMMA ClaimedMove ==
  ASSUME claims' # 0, Uncalled, UNCHANGED <<calls, pc>>
  PROVE  CallInv'
<1>1. CalledInv'
  BY DEF CalledInv, Uncalled
<1>2. AttemptsInv' /\ BudgetInv'
  BY DEF AttemptsInv, BudgetInv
<1> QED BY <1>1, <1>2 DEF CallInv

\* A move that neither changes the plan but for the status of the current step,
\* nor goes on with an attempt.
LEMMA QuietMove ==
  ASSUME Inv, Inv', CallInv, UNCHANGED <<row, calls, claims, crashes>>,
         dump["runner"] = NoDump, dump'["janitor"] = dump["janitor"],
         dump'["runner"] \in {NoDump, task'},
         Done(task') = Done(task), Attempts(task') = Attempts(task),
         task'.rework = task.rework,
         pc \notin Busy \/ pc' \in Ending, pc # "reset",
         pc' \notin Busy \/ (pc' = "attempt" /\ attempt' = 1),
         pc \in Ending => pc' \in Ending,
         ~Uncalled => task'.risk # "none" /\ MayRun(task'),
         pc' = "waiting" => Uncalled
  PROVE  CallInv'
<1>1. CalledInv'
  BY DEF CallInv, CalledInv, Uncalled, MayRun
<1>2. AttemptsInv'
  <2>1. pc' # "call"
    BY DEF Busy
  <2> QED BY <2>1 DEF CallInv, AttemptsInv, Attempts
<1>3. BudgetInv'
  <2> SUFFICES ASSUME claims = 0 PROVE BudgetInv'
    BY DEF BudgetInv
  <2>1. /\ row.rework = task.rework /\ row.rework \in Nat
        /\ \A s \in Steps : calls[s] <= Budget(Lives(row) + 1)
    BY Numbers, TaskNumbers DEF CallInv, BudgetInv
  <2>2. Lives(row)' = Lives(row) /\ Lives(task)' = Lives(task)
    BY DEF Lives
  <2>3. ASSUME NEW s \in Steps, pc' \notin Ending, s \notin Done(task')
        PROVE  calls[s] <= Budget(Lives(task)) + Spent(s)'
    <3>1. calls[s] <= Budget(Lives(task)) + Spent(s)
      BY <2>3 DEF CallInv, BudgetInv
    <3>2. Spent(s) = 0
      BY <2>3, SpentNothing
    <3>3. Spent(s)' = 0
      BY DEF Spent, Busy
    <3> QED BY <3>1, <3>2, <3>3
  <2>4. \A s \in Steps : calls'[s] <= Budget(Lives(row) + 1)'
    BY <2>1, <2>2 DEF Budget
  <2>5. pc' \notin Ending => \A s \in Steps : s \notin Done(task)' \/ pc' = "reset" =>
          calls'[s] <= Budget(Lives(task))' + Spent(s)'
    <3>1. pc' # "reset" /\ Done(task)' = Done(task')
      BY DEF Busy, Done
    <3> QED BY <2>2, <2>3, <3>1 DEF Budget
  <2> QED BY <2>1, <2>4, <2>5 DEF BudgetInv
<1> QED BY <1>1, <1>2, <1>3 DEF CallInv

\* A step of the round: it attempts, ends or resets steps, and the caller shows
\* that calls and rounds stay within what they may be.
LEMMA WorkMove ==
  ASSUME Inv, Inv', CallInv, NEW t, NEW next, Emit(t, next),
         UNCHANGED <<calls, claims, crashes, exc>>,
         dump["runner"] = NoDump, pc \in Working, next \in Working,
         t.risk = task.risk, MayRun(t) = MayRun(task),
         \A s \in Steps : Attempts(task)[s] <= Attempts(t)[s],
         next = "call" => \A s \in Steps : IsCurrent(t, s) => Attempts(task)[s] < Attempts(t)[s],
         t.rework \in Nat, task.rework <= t.rework,
         \A s \in Steps : s \notin Done(t) \/ next = "reset" =>
           calls[s] <= Budget(Lives(t)) + Spent(s)'
  PROVE  CallInv'
<1>1. /\ task' = t /\ pc' = next /\ UNCHANGED row
      /\ dump'["janitor"] = dump["janitor"] /\ dump'["runner"] = t
  BY DEF Emit, Inv, IInv, TypeOK, Threads
<1>2. dump'["runner"] # NoDump
  <2>1. t \in Task
    BY <1>1, Numbers DEF Inv, IInv, TypeOK
  <2> QED BY <1>1, <2>1, NoDumpAssumption
<1>w. /\ claims = 0
      /\ row.risk # "none" /\ MayRun(row) /\ task.risk # "none" /\ MayRun(task)
      /\ Attempts(row) = Attempts(task) /\ row.rework = task.rework
  BY WorkFacts
<1>t. /\ \A s \in Steps : calls[s] \in Nat /\ Attempts(task)[s] \in Nat /\ Attempts(t)[s] \in Nat
      /\ row.rework \in Nat
  <2>1. t \in Task
    BY <1>1 DEF Inv, IInv, TypeOK
  <2> QED BY <2>1, Numbers, TaskNumbers
<1>e. pc \notin Ending /\ next \notin Ending
  BY DEF Working, Ending
<1>3. CalledInv'
  <2>1. next # "waiting"
    BY DEF Working
  <2>2. /\ Uncalled' = Uncalled /\ MayRun(task)' = MayRun(t) /\ MayRun(row)' = MayRun(row)
    BY <1>1 DEF Uncalled, MayRun
  <2> QED BY <1>1, <1>w, <2>1, <2>2 DEF CalledInv
<1>4. AttemptsInv'
  <2>1. \A s \in Steps : calls[s] <= Attempts(row)[s] /\ calls[s] <= Attempts(task)[s]
    BY <1>w DEF CallInv, AttemptsInv
  <2>2. Attempts(task)' = Attempts(t) /\ Attempts(row)' = Attempts(row)
    BY <1>1 DEF Attempts
  <2>3. \A s \in Steps : IsCurrent(task, s)' <=> IsCurrent(t, s)
    BY <1>1 DEF IsCurrent
  <2>4. \A s \in Steps : calls[s] <= Attempts(t)[s]
    BY <1>t, <2>1
  <2>5. next = "call" => \A s \in Steps : IsCurrent(t, s) => calls[s] < Attempts(t)[s]
    BY <1>t, <2>1
  <2> QED BY <1>1, <1>2, <2>1, <2>2, <2>3, <2>4, <2>5 DEF AttemptsInv
<1>5. BudgetInv'
  <2>1. \A s \in Steps : calls[s] <= Budget(Lives(row) + 1)
    BY <1>w DEF CallInv, BudgetInv
  <2>2. /\ Budget(Lives(row) + 1)' = Budget(Lives(row) + 1)
        /\ Budget(Lives(task))' = Budget(Lives(t))
    BY <1>1 DEF Lives, Budget
  <2>3. Done(task)' = Done(t)
    BY <1>1 DEF Done
  <2> QED BY <1>1, <1>2, <1>w, <2>1, <2>2, <2>3 DEF BudgetInv
<1> QED BY <1>3, <1>4, <1>5 DEF CallInv

LEMMA NotCalled ==
  ASSUME Inv, CallInv, Unplanned(task) \/ task.risk = "none" \/ ~MayRun(task)
  PROVE  Uncalled
BY DEF Unplanned, Assessed, Inv, GInv, RiskAgrees, CallInv, CalledInv

\* An emit that leaves the plan alone.
LEMMA CalmEmit ==
  ASSUME Inv, Inv', CallInv, NEW t, NEW next, Emit(t, next),
         UNCHANGED <<calls, claims, crashes, exc>>, dump["runner"] = NoDump,
         t.steps = task.steps, t.rework = task.rework,
         pc \notin Busy, next \notin Busy, pc \in Ending => next \in Ending,
         ~Uncalled => t.risk # "none" /\ MayRun(t),
         next = "waiting" => Uncalled
  PROVE  CallInv'
<1>1. /\ task' = t /\ pc' = next /\ UNCHANGED row
      /\ dump'["janitor"] = dump["janitor"] /\ dump'["runner"] = t
  BY DEF Emit, Inv, IInv, TypeOK, Threads
<1>2. Done(t) = Done(task) /\ Attempts(t) = Attempts(task)
  BY SamePlan
<1>3. pc # "reset"
  BY DEF Busy
<1> QED BY <1>1, <1>2, <1>3, QuietMove

\* A move that leaves the task alone.
LEMMA CalmGoto ==
  ASSUME Inv, Inv', CallInv, NEW next, Goto(next),
         UNCHANGED <<calls, claims, crashes>>, dump["runner"] = NoDump,
         pc \notin Busy, next \notin Busy, pc \in Ending => next \in Ending,
         next = "waiting" => Uncalled
  PROVE  CallInv'
<1>1. UNCHANGED <<row, task, dump>> /\ pc' = next
  BY DEF Goto
<1>2. ~Uncalled => task.risk # "none" /\ MayRun(task)
  BY DEF CallInv, CalledInv
<1>3. pc # "reset"
  BY DEF Busy
<1> QED BY <1>1, <1>2, <1>3, QuietMove

-----------------------------------------------------------------------------
(* The runner's actions.                                                   *)

LEMMA PlanningCalls ==
  ASSUME Inv, Inv', CallInv, UNCHANGED <<claims, crashes>>,
         \/ EnterPlanning \/ EnterResume \/ Plan \/ StartAssessing
         \/ \E risk \in {"low", "high"} : Assess(risk)
         \/ ModelFails
  PROVE  CallInv'
<1>t. task \in Task
  BY Numbers
<1>n. dump["runner"] = NoDump
  BY DEF EnterPlanning, EnterResume, Plan, StartAssessing, Assess, ModelFails, At
<1>1. CASE EnterPlanning \/ StartAssessing
  <2>1. PICK status \in TaskStatus, next \in {"planning", "assessing"} :
           Emit(WithStatus(task, status), next)
    BY <1>1 DEF EnterPlanning, StartAssessing, TaskStatus, ActiveStatuses
  <2> DEFINE t == WithStatus(task, status)
  <2>2. /\ UNCHANGED <<calls, exc>> /\ pc \in {"enter", "assess"}
    BY <1>1 DEF EnterPlanning, StartAssessing, At
  <2>3. t.steps = task.steps /\ t.rework = task.rework
    BY <1>t DEF WithStatus, Task
  <2>4. Uncalled
    BY <1>1, NotCalled DEF EnterPlanning, StartAssessing, At, Inv, GInv, GatePlaces
  <2>5. pc \notin Busy \union Ending /\ next \notin Busy
    BY <2>2 DEF Busy, Ending
  <2> QED BY <1>n, <2>1, <2>2, <2>3, <2>4, <2>5, CalmEmit
<1>2. CASE EnterResume
  <2>1. /\ task' = Resumed(task) /\ pc = "enter" /\ pc' = "gate"
        /\ UNCHANGED <<row, dump, exc, calls>>
    BY <1>2 DEF EnterResume, At
  <2>2. /\ Done(task') = Done(task) /\ task'.risk = task.risk /\ task'.auto = task.auto
        /\ task'.decision = task.decision /\ task'.rework = task.rework
    BY <1>t, <2>1, ResumedDone
  <2>3. Attempts(task') = Attempts(task)
    <3>1. \A s \in Steps : Resumed(task).steps[s].attempts = task.steps[s].attempts
      BY <1>t DEF Resumed, Task, PlanStep
    <3> QED BY <2>1, <3>1 DEF Attempts
  <2>5. ~Uncalled => task'.risk # "none" /\ MayRun(task')
    BY <2>2 DEF CallInv, CalledInv, MayRun
  <2>6. /\ pc \notin Busy \union Ending /\ pc' \notin Busy /\ pc # "reset"
        /\ pc' \notin {"down", "waiting"}
    BY <2>1 DEF Busy, Ending
  <2> QED BY <1>n, <2>1, <2>2, <2>3, <2>5, <2>6, QuietMove
<1>3. ASSUME NEW risk \in {"low", "high"}, Assess(risk) PROVE CallInv'
  <2> DEFINE t == [task EXCEPT !.risk = risk]
  <2>1. Emit(t, "gate") /\ UNCHANGED <<calls, exc>> /\ pc = "assessing"
    BY <1>3 DEF Assess, At
  <2>2. t.steps = task.steps /\ t.rework = task.rework
    BY <1>t DEF Task
  <2>3. Uncalled
    BY <2>1, NotCalled DEF Inv, GInv, GatePlaces
  <2>4. pc \notin Busy \union Ending /\ "gate" \notin Busy
    BY <2>1 DEF Busy, Ending
  <2> HIDE DEF t
  <2> QED BY <1>n, <2>1, <2>2, <2>3, <2>4, CalmEmit
<1>4. CASE ModelFails
  <2>1. Goto("fail") /\ exc' = "model" /\ UNCHANGED calls
        /\ pc \in {"planning", "assessing", "synthesizing"}
    BY <1>4 DEF ModelFails, Raise, At
  <2>2. pc \notin Busy \union Ending /\ "fail" \notin Busy
    BY <2>1 DEF Busy, Ending
  <2> QED BY <1>n, <2>1, <2>2, CalmGoto
<1>5. CASE Plan
  <2> DEFINE t == [task EXCEPT !.planned = TRUE, !.steps = NewPlan]
  <2>1. Emit(t, "assess") /\ UNCHANGED <<calls, exc>> /\ pc = "planning"
    BY <1>5 DEF Plan, At
  <2>2. /\ task' = t /\ pc' = "assess" /\ UNCHANGED row
        /\ dump'["janitor"] = dump["janitor"] /\ dump'["runner"] = t
    BY <2>1 DEF Emit, Inv, IInv, TypeOK, Threads
  <2>3. dump'["runner"] # NoDump
    BY <2>2, NoDumpAssumption DEF Inv, IInv, TypeOK
  <2>4. /\ \A s \in Steps : t.steps[s].attempts = 0 /\ t.steps[s].status = "pending"
        /\ t.rework = task.rework
    BY <1>t DEF Task, NewPlan
  <2>5. Uncalled
    BY <2>1, NotCalled DEF Inv, GInv, GatePlaces
  <2> HIDE DEF t
  <2>6. CalledInv'
    BY <2>1, <2>2, <2>5 DEF CalledInv, Uncalled
  <2>7. AttemptsInv'
    <3>1. \A s \in Steps : calls'[s] <= Attempts(row)'[s] /\ calls'[s] <= Attempts(task)'[s]
      <4>1. \A s \in Steps : Attempts(row)'[s] \in Nat /\ Attempts(task)'[s] \in Nat
        BY DEF Inv, IInv, TypeOK, Attempts, Task, PlanStep
      <4> QED BY <2>1, <2>5, <4>1 DEF Uncalled
    <3> QED BY <2>2, <2>3, <3>1 DEF AttemptsInv
  <2>8. BudgetInv'
    <3>1. /\ Lives(row) \in Nat /\ Lives(task) \in Nat /\ row.rework \in Nat
      BY Numbers, TaskNumbers
    <3>2. Budget(Lives(row) + 1) \in Nat /\ Budget(Lives(task)) \in Nat
      BY <3>1, BudgetFacts
    <3>3. Budget(Lives(row) + 1)' = Budget(Lives(row) + 1) /\ Budget(Lives(task))' = Budget(Lives(task))
      BY <2>2, <2>4 DEF Lives, Budget
    <3>4. \A s \in Steps : Spent(s)' = 0
      BY <2>2 DEF Spent
    <3>5. \A s \in Steps : calls'[s] = 0
      BY <2>1, <2>5 DEF Uncalled
    <3>6. claims = 0 => row.rework <= task.rework
      BY DEF CallInv, BudgetInv
    <3> QED BY <2>2, <2>3, <2>4, <3>2, <3>3, <3>4, <3>5, <3>6 DEF BudgetInv
  <2> QED BY <2>6, <2>7, <2>8 DEF CallInv
<1> QED BY <1>1, <1>2, <1>3, <1>4, <1>5

LEMMA GateCalls ==
  ASSUME Inv, Inv', CallInv, UNCHANGED <<claims, crashes>>,
         \/ GateOpen \/ GateAuto \/ GateRefused \/ GateRequest \/ GateStillWaiting
         \/ WaitDecided \/ WaitExpires
  PROVE  CallInv'
<1>t. task \in Task
  BY Numbers
<1>n. dump["runner"] = NoDump /\ pc \in {"gate", "waiting"} /\ UNCHANGED <<exc, calls>>
  BY DEF GateOpen, GateAuto, GateRefused, GateRequest, GateStillWaiting, WaitDecided,
         WaitExpires, At
<1>p. pc \notin Busy \union Ending /\ pc # "reset"
  BY <1>n DEF Busy, Ending
<1>q. \A next \in {"start", "waiting", "finish"} : next \notin Busy
  BY DEF Busy
<1>m. ~Uncalled => task.risk # "none" /\ MayRun(task)
  BY DEF CallInv, CalledInv
<1>w. pc = "waiting" => Uncalled
  BY DEF CallInv, CalledInv
<1>1. CASE GateOpen \/ GateRefused \/ GateStillWaiting
  <2>1. PICK next \in {"start", "waiting", "finish"} :
           Goto(next) /\ (next = "waiting" => ~MayRun(task))
    BY <1>1 DEF GateOpen, GateRefused, GateStillWaiting, Deny
  <2>2. next = "waiting" => Uncalled
    BY <2>1, NotCalled
  <2> QED BY <1>n, <1>p, <1>q, <2>1, <2>2, CalmGoto
<1>2. CASE GateAuto
  <2>1. Emit(task, "start")
    BY <1>2 DEF GateAuto
  <2> QED BY <1>m, <1>n, <1>p, <1>q, <2>1, CalmEmit
<1>3. CASE GateRequest
  <2> DEFINE t == [task EXCEPT !.status = "awaiting_approval", !.decision = "none"]
  <2>1. Emit(t, "waiting") /\ ~MayRun(task)
    BY <1>3 DEF GateRequest
  <2>2. t.steps = task.steps /\ t.rework = task.rework
    BY <1>t DEF Task
  <2>3. Uncalled
    BY <2>1, NotCalled
  <2> HIDE DEF t
  <2> QED BY <1>n, <1>p, <1>q, <2>1, <2>2, <2>3, CalmEmit
<1>4. CASE WaitExpires
  <2> DEFINE t == [task EXCEPT !.decision = "no"]
  <2>1. Emit(t, "finish") /\ pc = "waiting"
    BY <1>4 DEF WaitExpires, At
  <2>2. t.steps = task.steps /\ t.rework = task.rework
    BY <1>t DEF Task
  <2> HIDE DEF t
  <2> QED BY <1>n, <1>p, <1>q, <1>w, <2>1, <2>2, CalmEmit
<1>5. CASE WaitDecided
  <2>1. /\ task' = [task EXCEPT !.decision = row.decision] /\ pc = "waiting"
        /\ pc' \in {"start", "finish"} /\ UNCHANGED <<row, dump>>
    BY <1>5 DEF WaitDecided, At
  <2>2. task'.steps = task.steps /\ task'.rework = task.rework
    BY <1>t, <2>1 DEF Task
  <2>3. Done(task') = Done(task) /\ Attempts(task') = Attempts(task)
    BY <2>2, SamePlan
  <2>4. pc' \notin {"down", "waiting"}
    BY <2>1
  <2> QED BY <1>n, <1>p, <1>q, <1>w, <2>1, <2>2, <2>3, <2>4, QuietMove
<1> QED BY <1>1, <1>2, <1>3, <1>4, <1>5

\* What the step of the round is: not completed, and the only one.
LEMMA AttemptFacts ==
  ASSUME NEW t \in Task, NEW s \in Steps
  PROVE  LET w == [t EXCEPT !.steps[s].attempts = @ + 1]
         IN /\ Done(w) = Done(t) /\ w.rework = t.rework
            /\ w.risk = t.risk /\ w.auto = t.auto /\ w.decision = t.decision
            /\ Attempts(w)[s] = Attempts(t)[s] + 1
            /\ \A q \in Steps : q # s => Attempts(w)[q] = Attempts(t)[q]
<1> DEFINE w == [t EXCEPT !.steps[s].attempts = @ + 1]
<1>1. /\ w.rework = t.rework
      /\ w.risk = t.risk /\ w.auto = t.auto /\ w.decision = t.decision
  BY DEF Task
<1>2. /\ w.steps[s].attempts = t.steps[s].attempts + 1
      /\ w.steps[s].status = t.steps[s].status
  BY DEF Task, PlanStep
<1>3. \A q \in Steps : q # s => w.steps[q] = t.steps[q]
  BY DEF Task
<1> HIDE DEF w
<1>4. \A q \in Steps : w.steps[q].status = t.steps[q].status
  BY <1>2, <1>3
<1>5. Done(w) = Done(t)
  BY <1>4 DEF Done
<1>6. /\ Attempts(w)[s] = Attempts(t)[s] + 1
      /\ \A q \in Steps : q # s => Attempts(w)[q] = Attempts(t)[q]
  BY <1>2, <1>3 DEF Attempts
<1> QED BY <1>1, <1>5, <1>6 DEF w

LEMMA StepAttempts ==
  ASSUME NEW t \in Task, NEW s \in Steps, NEW status
  PROVE  LET w == WithStep(t, s, status)
         IN Attempts(w) = Attempts(t)
<1>1. \A q \in Steps : WithStep(t, s, status).steps[q].attempts = t.steps[q].attempts
  BY DEF WithStep, Task, PlanStep
<1> QED BY <1>1 DEF Attempts, WithStep, Task

LEMMA RoundCalls ==
  ASSUME Inv, Inv', CallInv, UNCHANGED <<claims, crashes>>,
         \/ Start \/ EnterVerifier
         \/ \E s \in Steps : \/ EnterWorker(s) \/ StartStep(s) \/ Attempt(s) \/ Call(s)
                             \/ \E verdict \in {"passed", "rejected"} : CallReturns(s, verdict)
                             \/ CallFails(s)
         \/ CallRetries \/ RoundPassed \/ StartRework \/ Reset \/ GiveUp \/ Synthesize
  PROVE  CallInv'
<1>t. task \in Task /\ row \in Task
  BY Numbers
<1>n. dump["runner"] = NoDump /\ pc \in Working
  BY DEF Start, EnterVerifier, EnterWorker, StartStep, Attempt, Call, CallReturns,
         CallFails, CallRetries, RoundPassed, StartRework, Reset, GiveUp, Synthesize,
         At, Working
<1>w. /\ claims = 0
      /\ row.risk # "none" /\ MayRun(row) /\ task.risk # "none" /\ MayRun(task)
      /\ Attempts(row) = Attempts(task) /\ row.rework = task.rework
  BY <1>n, WorkFacts
<1>b. /\ \A s \in Steps : calls[s] <= Attempts(task)[s]
      /\ \A s \in Steps : calls[s] <= Budget(Lives(row) + 1)
      /\ \A s \in Steps : s \notin Done(task) \/ pc = "reset" =>
           calls[s] <= Budget(Lives(task)) + Spent(s)
  BY <1>n, <1>w DEF CallInv, AttemptsInv, BudgetInv, Working, Ending
<1>i. /\ \A s \in Steps : Attempts(task)[s] \in Nat /\ calls[s] \in Nat
      /\ task.rework \in {0, 1} /\ Lives(task) \in Nat /\ Lives(task) = task.rework + crashes
      /\ attempt \in 1 .. TotalAttempts /\ TotalAttempts \in Nat \ {0} /\ crashes \in Nat
      /\ Budget(Lives(task)) \in Nat
      /\ Budget(Lives(task) + 1) = Budget(Lives(task)) + TotalAttempts
      /\ Lives(row) = Lives(task) /\ Verifier \in Steps
  <2>1. /\ \A s \in Steps : Attempts(task)[s] \in Nat /\ calls[s] \in Nat
        /\ task.rework \in {0, 1} /\ Lives(task) \in Nat /\ Lives(task) = task.rework + crashes
        /\ attempt \in 1 .. TotalAttempts /\ TotalAttempts \in Nat \ {0} /\ crashes \in Nat
    BY Numbers, TaskNumbers
  <2>2. Lives(row) = Lives(task)
    BY <1>w DEF Lives
  <2> QED BY <2>1, <2>2, BudgetFacts, StepsFacts
<1>1. CASE Start \/ EnterVerifier \/ Synthesize
  <2>1. PICK t \in {WithStatus(task, "running"), WithStatus(task, "verifying"), task},
             next \in {"round", "step", "finish"} : Emit(t, next)
    BY <1>1 DEF Start, EnterVerifier, Synthesize
  <2>2. UNCHANGED <<calls, exc>> /\ pc \in {"start", "round", "synthesizing"}
    BY <1>1 DEF Start, EnterVerifier, Synthesize, At
  <2>3. /\ t.steps = task.steps /\ t.rework = task.rework
        /\ t.risk = task.risk /\ t.auto = task.auto /\ t.decision = task.decision
    BY <1>t DEF WithStatus, Task
  <2>4. MayRun(t) /\ t.risk # "none"
    BY <1>w, <2>3 DEF MayRun
  <2>5. pc \notin Busy \union Ending /\ next \notin Busy
    BY <2>2 DEF Busy, Ending
  <2> QED BY <1>n, <2>1, <2>2, <2>3, <2>4, <2>5, CalmEmit
<1>2. CASE (\E s \in Steps : EnterWorker(s)) \/ RoundPassed
  <2>1. PICK next \in {"step", "synthesizing"} : Goto(next)
    BY <1>2 DEF EnterWorker, RoundPassed
  <2>2. UNCHANGED <<calls, exc>> /\ pc = "round"
    BY <1>2 DEF EnterWorker, RoundPassed, At
  <2>3. pc \notin Busy \union Ending /\ next \notin Busy
    BY <2>2 DEF Busy, Ending
  <2> QED BY <1>n, <2>1, <2>2, <2>3, CalmGoto
<1>3. ASSUME NEW s \in Steps, NEW status \in {"running", "failed"},
             NEW next \in {"attempt", "fail"}, IsCurrent(task, s),
             Emit(WithStep(task, s, status), next), UNCHANGED calls, exc' # "rework" \/ exc' = exc,
             next = "attempt" => pc = "step" /\ attempt' = 1,
             next = "fail" => pc = "calling"
      PROVE  CallInv'
  <2> DEFINE t == WithStep(task, s, status)
  <2>1. /\ Done(t) = Done(task) /\ Attempts(t) = Attempts(task)
        /\ t.risk = task.risk /\ t.auto = task.auto /\ t.decision = task.decision
        /\ t.rework = task.rework
    <3>1. Done(t) = Done(task) \ {s}
      BY <1>t, StepDone
    <3>2. Done(task) \ {s} = Done(task)
      BY <1>3, CurrentFacts
    <3> QED BY <1>t, <3>1, <3>2, StepDone, StepAttempts
  <2>2. /\ task' = t /\ pc' = next /\ UNCHANGED row
        /\ dump'["janitor"] = dump["janitor"] /\ dump'["runner"] = t
    BY <1>3 DEF Emit, Inv, IInv, TypeOK, Threads
  <2> HIDE DEF t
  <2>3. MayRun(t) /\ t.risk # "none"
    BY <1>w, <2>1 DEF MayRun
  <2>4. /\ pc # "reset" /\ (pc \notin Busy \/ next \in Ending)
        /\ pc \notin Ending /\ next \notin {"down", "waiting"}
        /\ (next \notin Busy \/ (next = "attempt" /\ attempt' = 1))
    BY <1>3 DEF Busy, Ending
  <2> QED BY <1>n, <1>3, <2>1, <2>2, <2>3, <2>4, QuietMove
<1>4. ASSUME NEW s \in Steps, StartStep(s) \/ CallFails(s) PROVE CallInv'
  <2>1. \/ /\ Emit(WithStep(task, s, "running"), "attempt") /\ pc = "step" /\ attempt' = 1
           /\ exc' = exc
        \/ Emit(WithStep(task, s, "failed"), "fail") /\ pc = "calling" /\ exc' = "step"
    BY <1>4 DEF StartStep, CallFails, At
  <2>2. IsCurrent(task, s) /\ UNCHANGED calls
    BY <1>4 DEF StartStep, CallFails
  <2> QED BY <2>1, <2>2, <1>3
<1>5. CASE GiveUp
  <2>1. /\ Goto("fail") /\ UNCHANGED calls /\ pc = "round" /\ RoundDone(task)
        /\ task.rework + 1 = MaxRounds
    BY <1>5 DEF GiveUp, Raise, At
  <2>3. /\ pc \notin Busy \union Ending /\ "fail" \notin Busy
        /\ "fail" \in Ending
    BY <2>1 DEF Busy, Ending
  <2> QED BY <1>n, <2>1, <2>3, CalmGoto
<1>6. ASSUME NEW s \in Steps, Attempt(s) PROVE CallInv'
  <2> DEFINE t == [task EXCEPT !.steps[s].attempts = @ + 1]
  <2>1. /\ Emit(t, "call") /\ IsCurrent(task, s) /\ pc = "attempt"
        /\ UNCHANGED <<calls, exc, attempt>>
    BY <1>6 DEF Attempt, At
  <2>2. /\ Done(t) = Done(task) /\ t.rework = task.rework
        /\ t.risk = task.risk /\ t.auto = task.auto /\ t.decision = task.decision
        /\ Attempts(t)[s] = Attempts(task)[s] + 1
        /\ \A q \in Steps : q # s => Attempts(t)[q] = Attempts(task)[q]
    BY <1>t, AttemptFacts
  <2>3. task' = t /\ pc' = "call"
    BY <2>1 DEF Emit
  <2> HIDE DEF t
  <2>4. \A q \in Steps : IsCurrent(t, q) <=> IsCurrent(task, q)
    BY <2>2, SameDone
  <2>5. \A q \in Steps : IsCurrent(task, q) => q = s
    BY <2>1, CurrentFacts
  <2>6. ASSUME NEW q \in Steps, q \notin Done(t) PROVE calls[q] <= Budget(Lives(t)) + Spent(q)'
    <3>1. calls[q] <= Budget(Lives(task)) + Spent(q)
      BY <1>b, <2>2, <2>6
    <3>2. Spent(q)' = Spent(q)
      <4>1. IsCurrent(task, q)' <=> IsCurrent(task, q)
        BY <2>3, <2>4 DEF IsCurrent
      <4> QED BY <2>1, <2>3, <4>1 DEF Spent
    <3>3. Lives(t) = Lives(task)
      BY <2>2 DEF Lives
    <3> QED BY <3>1, <3>2, <3>3
  <2>7. MayRun(t) = MayRun(task)
    BY <2>2 DEF MayRun
  <2>8. /\ \A q \in Steps : Attempts(task)[q] <= Attempts(t)[q]
        /\ \A q \in Steps : IsCurrent(t, q) => Attempts(task)[q] < Attempts(t)[q]
    BY <1>i, <2>2, <2>4, <2>5
  <2>10. "call" \in Working /\ pc \in Working
    BY <2>1 DEF Working
  <2>11. t.rework \in Nat /\ task.rework <= t.rework
    BY <1>i, <2>2
  <2> QED
    BY <1>n, <2>1, <2>2, <2>6, <2>7, <2>8, <2>10, <2>11, WorkMove
<1>7. CASE CallRetries
  <2>1. Emit(task, "attempt") /\ UNCHANGED <<calls, exc>> /\ pc = "calling" /\ attempt' = attempt + 1
    BY <1>7 DEF CallRetries, At
  <2>2. task' = task /\ pc' = "attempt"
    BY <2>1 DEF Emit
  <2>3. ASSUME NEW q \in Steps, q \notin Done(task) PROVE calls[q] <= Budget(Lives(task)) + Spent(q)'
    <3>1. calls[q] <= Budget(Lives(task)) + Spent(q)
      BY <1>b, <2>3
    <3>2. Spent(q)' = Spent(q)
      <4>1. IsCurrent(task, q)' <=> IsCurrent(task, q)
        BY <2>2 DEF IsCurrent
      <4> QED BY <1>i, <2>1, <2>2, <4>1 DEF Spent
    <3> QED BY <3>1, <3>2
  <2>4. "attempt" \in Working /\ pc \in Working
    BY <2>1 DEF Working
  <2>5. /\ \A q \in Steps : Attempts(task)[q] <= Attempts(task)[q]
        /\ task.rework \in Nat /\ task.rework <= task.rework
    BY <1>i
  <2> QED BY <1>n, <2>1, <2>3, <2>4, <2>5, WorkMove
<1>8. ASSUME NEW s \in Steps, NEW verdict \in {"passed", "rejected"}, CallReturns(s, verdict)
      PROVE  CallInv'
  <2> DEFINE w == WithStep(task, s, "completed")
             t == [w EXCEPT !.verified = IF s = Verifier THEN verdict ELSE @]
  <2>1. /\ Emit(t, "round") /\ IsCurrent(task, s) /\ UNCHANGED <<calls, exc>> /\ pc = "calling"
    BY <1>8 DEF CallReturns, At
  <2>2. /\ Done(w) = Done(task) \union {s} /\ Attempts(w) = Attempts(task)
        /\ w.risk = task.risk /\ w.auto = task.auto
        /\ w.decision = task.decision /\ w.rework = task.rework
    BY <1>t, StepDone, StepAttempts
  <2>3. w \in Task
    BY <1>t, WithStepType DEF StepStatus
  <2> HIDE DEF w
  <2>4. /\ Done(t) = Done(task) \union {s} /\ Attempts(t) = Attempts(task)
        /\ t.risk = task.risk /\ t.auto = task.auto
        /\ t.decision = task.decision /\ t.rework = task.rework
    <3>1. /\ t.steps = w.steps /\ t.risk = w.risk /\ t.auto = w.auto
          /\ t.decision = w.decision /\ t.rework = w.rework
      BY <2>3 DEF Task
    <3> HIDE DEF t
    <3> QED BY <2>2, <3>1, SamePlan
  <2> HIDE DEF t
  <2>5. pc' = "round"
    BY <2>1 DEF Emit
  <2>6. ASSUME NEW q \in Steps, q \notin Done(t) PROVE calls[q] <= Budget(Lives(t)) + Spent(q)'
    <3>1. q # s /\ q \notin Done(task)
      BY <2>4, <2>6
    <3>2. ~IsCurrent(task, q)
      BY <2>1, <3>1, CurrentFacts
    <3>3. calls[q] <= Budget(Lives(task)) + Spent(q) /\ Spent(q) = 0
      BY <1>b, <3>1, <3>2, SpentNothing
    <3>4. Spent(q)' = 0
      BY <2>5 DEF Spent
    <3>5. Lives(t) = Lives(task)
      BY <2>4 DEF Lives
    <3> QED BY <3>3, <3>4, <3>5
  <2>7. MayRun(t) = MayRun(task)
    BY <2>4 DEF MayRun
  <2>8. /\ \A q \in Steps : Attempts(task)[q] <= Attempts(t)[q]
        /\ t.rework \in Nat /\ task.rework <= t.rework
    BY <1>i, <2>4
  <2>10. "round" \in Working /\ pc \in Working
    BY <2>1 DEF Working
  <2> QED BY <1>n, <2>1, <2>4, <2>6, <2>7, <2>8, <2>10, WorkMove
<1>9. CASE StartRework
  <2> DEFINE t == [task EXCEPT !.rework = @ + 1]
  <2>1. /\ Emit(t, "reset") /\ RoundDone(task) /\ pc = "round" /\ UNCHANGED <<calls, exc>>
    BY <1>9 DEF StartRework, At
  <2>2. /\ t.steps = task.steps /\ t.risk = task.risk
        /\ t.auto = task.auto /\ t.decision = task.decision /\ t.rework = task.rework + 1
    BY <1>t DEF Task
  <2> HIDE DEF t
  <2>3. Done(t) = Done(task) /\ Attempts(t) = Attempts(task) /\ Done(task) = Steps
    BY <2>1, <2>2, SamePlan, RoundDoneFacts
  <2>4. pc' = "reset"
    BY <2>1 DEF Emit
  <2>5. ASSUME NEW q \in Steps PROVE calls[q] <= Budget(Lives(t)) + Spent(q)'
    <3>1. Lives(t) = Lives(row) + 1
      BY <1>i, <2>2 DEF Lives
    <3>2. Spent(q)' = 0
      BY <2>4 DEF Spent
    <3>3. Budget(Lives(row) + 1) \in Nat
      BY <1>i, BudgetFacts
    <3> QED BY <1>b, <3>1, <3>2, <3>3
  <2>6. MayRun(t) = MayRun(task)
    BY <2>2 DEF MayRun
  <2>7. /\ \A q \in Steps : Attempts(task)[q] <= Attempts(t)[q]
        /\ t.rework \in Nat /\ task.rework <= t.rework
    BY <1>i, <2>2, <2>3
  <2>9. "reset" \in Working /\ pc \in Working
    BY <2>1 DEF Working
  <2> QED BY <1>n, <2>1, <2>2, <2>5, <2>6, <2>7, <2>9, WorkMove
<1>10. CASE Reset
  <2> DEFINE w == ResetForRework(task)
             t == WithStatus(w, "running")
  <2>1. Emit(t, "round") /\ pc = "reset" /\ UNCHANGED <<calls, exc>>
    BY <1>10 DEF Reset, At
  <2>2. /\ Attempts(w) = Attempts(task) /\ Done(w) = {}
        /\ w.rework = task.rework
        /\ w.risk = task.risk /\ w.auto = task.auto /\ w.decision = task.decision
    <3>1. \A s \in Steps : w.steps[s].attempts = task.steps[s].attempts
      BY <1>t DEF ResetForRework, Task, PlanStep
    <3>2. w.rework = task.rework
      BY <1>t DEF ResetForRework, Task
    <3> QED BY <1>t, <3>1, <3>2, ResetDone DEF Attempts
  <2>3. w \in Task
    BY <1>t, ResetType
  <2> HIDE DEF w
  <2>4. /\ Attempts(t) = Attempts(task) /\ Done(t) = {}
        /\ t.rework = task.rework
        /\ t.risk = task.risk /\ t.auto = task.auto /\ t.decision = task.decision
    <3>1. /\ t.steps = w.steps /\ t.risk = w.risk /\ t.auto = w.auto
          /\ t.decision = w.decision /\ t.rework = w.rework
      BY <2>3 DEF WithStatus, Task
    <3> HIDE DEF t
    <3> QED BY <2>2, <3>1, SamePlan
  <2> HIDE DEF t
  <2>5. pc' = "round"
    BY <2>1 DEF Emit
  <2>6. ASSUME NEW q \in Steps PROVE calls[q] <= Budget(Lives(t)) + Spent(q)'
    <3>1. calls[q] <= Budget(Lives(task)) + Spent(q) /\ Spent(q) = 0
      BY <1>b, <2>1, SpentNothing
    <3>2. Spent(q)' = 0 /\ Lives(t) = Lives(task)
      BY <2>4, <2>5 DEF Spent, Lives
    <3> QED BY <3>1, <3>2
  <2>7. MayRun(t) = MayRun(task)
    BY <2>4 DEF MayRun
  <2>8. /\ \A q \in Steps : Attempts(task)[q] <= Attempts(t)[q]
        /\ t.rework \in Nat /\ task.rework <= t.rework
    BY <1>i, <2>4
  <2>9. "round" \in Working /\ pc \in Working
    BY <2>1 DEF Working
  <2> QED BY <1>n, <2>1, <2>4, <2>6, <2>7, <2>8, <2>9, WorkMove
<1>11. ASSUME NEW s \in Steps, Call(s) PROVE CallInv'
  <2>1. /\ calls' = [calls EXCEPT ![s] = @ + 1] /\ IsCurrent(task, s) /\ pc = "call"
        /\ pc' = "calling" /\ UNCHANGED <<row, task, dump, attempt, exc>>
    BY <1>11 DEF Call, At, Goto
  <2>2. /\ calls'[s] = calls[s] + 1 /\ \A q \in Steps : q # s => calls'[q] = calls[q]
    BY <2>1 DEF Inv, IInv, TypeOK
  <2>3. s \notin Done(task) /\ \A q \in Steps : IsCurrent(task, q) => q = s
    BY <2>1, CurrentFacts
  <2>4. CalledInv'
    BY <1>w, <2>1 DEF CalledInv, MayRun
  <2>5. AttemptsInv'
    <3>1. calls[s] < Attempts(task)[s]
      BY <1>w, <2>1 DEF CallInv, AttemptsInv
    <3>2. \A q \in Steps : calls'[q] <= Attempts(task)[q]
      BY <1>b, <1>i, <2>2, <3>1
    <3>3. Attempts(task)' = Attempts(task) /\ Attempts(row)' = Attempts(row)
      BY <2>1 DEF Attempts
    <3> QED BY <1>w, <2>1, <3>2, <3>3 DEF AttemptsInv
  <2>6. BudgetInv'
    <3>1. Spent(s) = attempt - 1 /\ Spent(s)' = attempt
      BY <2>1 DEF Spent, IsCurrent
    <3>2. calls[s] <= Budget(Lives(task)) + Spent(s)
      BY <1>b, <2>3
    <3>3. calls'[s] <= Budget(Lives(task)) + attempt
      BY <1>i, <2>2, <3>1, <3>2
    <3>4. calls'[s] <= Budget(Lives(row) + 1)
      BY <1>i, <2>1, <2>2, <3>3
    <3>5. ASSUME NEW q \in Steps, q # s, q \notin Done(task)
          PROVE  calls'[q] <= Budget(Lives(task)) + Spent(q)'
      <4>1. Spent(q) = 0 /\ Spent(q)' = 0
        BY <2>1, <2>3, <3>5 DEF Spent, IsCurrent
      <4> QED BY <1>b, <2>2, <3>5, <4>1
    <3>6. /\ Budget(Lives(row) + 1)' = Budget(Lives(row) + 1)
          /\ Budget(Lives(task))' = Budget(Lives(task))
          /\ Done(task)' = Done(task)
      BY <2>1 DEF Lives, Budget, Done
    <3>7. \A q \in Steps : calls'[q] <= Budget(Lives(row) + 1)
      BY <1>b, <2>2, <3>4
    <3>8. \A q \in Steps : q \notin Done(task) => calls'[q] <= Budget(Lives(task)) + Spent(q)'
      BY <3>1, <3>3, <3>5
    <3>9. row.rework <= task.rework
      BY <1>i, <1>w
    <3> QED BY <1>n, <1>w, <2>1, <3>6, <3>7, <3>8, <3>9 DEF BudgetInv
  <2> QED BY <2>4, <2>5, <2>6 DEF CallInv
<1> QED
  BY <1>1, <1>2, <1>4, <1>5, <1>6, <1>7, <1>8, <1>9, <1>10, <1>11

LEMMA EndCalls ==
  ASSUME Inv, Inv', CallInv, UNCHANGED <<claims, crashes>>,
         Fail \/ Finish \/ Remember \/ RememberFails \/ Close
  PROVE  CallInv'
<1>t. task \in Task
  BY Numbers
<1>n. /\ dump["runner"] = NoDump /\ pc \in {"fail", "finish", "remember", "close"}
      /\ UNCHANGED calls
  BY DEF Fail, Finish, Remember, RememberFails, Close, At, Raise
<1>p. pc \in Ending /\ pc \notin Busy
  BY <1>n DEF Ending, Busy
<1>q. \A next \in {"fail", "finish", "remember", "close", "ended"} :
         next \in Ending /\ next \notin Busy \union {"down", "waiting"}
  BY DEF Ending, Busy
<1>m. ~Uncalled => task.risk # "none" /\ MayRun(task)
  BY DEF CallInv, CalledInv
<1>1. CASE Finish \/ Close
  <2>1. PICK t \in {WithStatus(task, outcome), task}, next \in {"remember", "ended"} :
           Emit(t, next)
    BY <1>1 DEF Finish, Close
  <2>2. UNCHANGED exc
    BY <1>1 DEF Finish, Close
  <2>3. /\ t.steps = task.steps /\ t.rework = task.rework
        /\ t.risk = task.risk /\ t.auto = task.auto /\ t.decision = task.decision
    BY <1>t DEF WithStatus, Task
  <2>4. ~Uncalled => t.risk # "none" /\ MayRun(t)
    BY <1>m, <2>3 DEF MayRun
  <2> QED BY <1>n, <1>p, <1>q, <2>1, <2>2, <2>3, <2>4, CalmEmit
<1>2. CASE Remember \/ RememberFails
  <2>1. PICK next \in {"close", "fail", "ended"} : Goto(next)
    BY <1>2 DEF Remember, RememberFails, Raise
  <2>2. exc' \in {exc, "memory"}
    BY <1>2 DEF Remember, RememberFails, Raise
  <2> QED BY <1>n, <1>p, <1>q, <2>1, <2>2, CalmGoto
<1>3. CASE Fail
  <2> DEFINE t == [task EXCEPT !.error = exc]
  <2>1. Emit(t, "finish") /\ UNCHANGED exc /\ pc = "fail"
    BY <1>3 DEF Fail, At
  <2>2. /\ t.steps = task.steps /\ t.rework = task.rework
        /\ t.risk = task.risk /\ t.auto = task.auto /\ t.decision = task.decision
    BY <1>t DEF Task
  <2>3. /\ task' = t /\ pc' = "finish" /\ UNCHANGED row
        /\ dump'["janitor"] = dump["janitor"] /\ dump'["runner"] = t
    BY <2>1 DEF Emit, Inv, IInv, TypeOK, Threads
  <2>4. dump'["runner"] # NoDump
    BY <2>3, NoDumpAssumption DEF Inv, IInv, TypeOK
  <2> HIDE DEF t
  <2>5. CalledInv'
    BY <1>m, <1>n, <2>2, <2>3 DEF CallInv, CalledInv, Uncalled, MayRun
  <2>6. AttemptsInv'
    <3>1. Attempts(task)' = Attempts(task) /\ Attempts(row)' = Attempts(row)
      BY <2>2, <2>3 DEF Attempts
    <3> QED BY <1>n, <2>3, <2>4, <3>1 DEF CallInv, AttemptsInv
  <2>7. BudgetInv'
    <3>1. Budget(Lives(row) + 1)' = Budget(Lives(row) + 1)
      BY <2>3 DEF Lives, Budget
    <3>2. pc' \in Ending
      BY <1>q, <2>3
    <3> QED BY <1>n, <2>2, <2>3, <2>4, <3>1, <3>2 DEF CallInv, BudgetInv
  <2> QED BY <2>5, <2>6, <2>7 DEF CallInv
<1> QED BY <1>1, <1>2, <1>3

-----------------------------------------------------------------------------
(* Commits, reviewers, the janitor and the process.                        *)

\* A commit makes the row what the live object was at the emit.
LEMMA FlushCalls ==
  ASSUME Inv, Inv', CallInv, UNCHANGED <<claims, crashes>>,
         NEW th \in Threads, NEW last, Flush(th, last)
  PROVE  CallInv'
<1>1. /\ dump[th] # NoDump /\ row' = dump[th] /\ dump[th] \in Task
      /\ UNCHANGED <<task, pc, attempt, exc, calls>>
  BY DEF Flush, control, Inv, IInv, TypeOK
<1>3. CASE claims # 0
  <2>1. Uncalled
    BY <1>3 DEF CallInv, CalledInv
  <2> QED BY <1>1, <1>3, <2>1, ClaimedMove
<1>4. CASE claims = 0
  <2>1. th = "runner" /\ dump["runner"] = task
    <3>1. th # "janitor"
      BY <1>1, <1>4 DEF Inv, IInv, JanitorOK
    <3> QED BY <1>1, <1>4, <3>1 DEF Inv, OInv, BehindInv, Threads
  <2>2. row' = task
    BY <1>1, <2>1
  <2>3. CalledInv'
    BY <1>1, <2>2 DEF CallInv, CalledInv, Uncalled, MayRun
  <2>4. AttemptsInv'
    BY <1>1, <1>4, <2>2 DEF CallInv, AttemptsInv, Attempts, IsCurrent
  <2>5. BudgetInv'
    <3>1. /\ row.rework \in {0, 1} /\ task.rework \in {0, 1} /\ crashes \in Nat
          /\ \A s \in Steps : calls[s] \in Nat
          /\ Lives(row) \in Nat /\ Lives(task) \in Nat
          /\ Lives(row) = row.rework + crashes /\ Lives(task) = task.rework + crashes
      BY Numbers, TaskNumbers
    <3>2. row.rework <= task.rework /\ \A s \in Steps : calls[s] <= Budget(Lives(row) + 1)
      BY <1>4 DEF CallInv, BudgetInv
    <3>3. Lives(task) = Lives(row) \/ Lives(task) = Lives(row) + 1
      BY <3>1, <3>2
    <3>4. /\ Budget(Lives(row) + 1) \in Nat /\ TotalAttempts \in Nat
          /\ Budget(Lives(row) + 1 + 1) = Budget(Lives(row) + 1) + TotalAttempts
      <4> DEFINE n == Lives(row) + 1
      <4>1. n \in Nat
        BY <3>1
      <4> HIDE DEF n
      <4>2. Budget(n) \in Nat /\ TotalAttempts \in Nat /\ Budget(n + 1) = Budget(n) + TotalAttempts
        BY <4>1, BudgetFacts
      <4> QED BY <4>2 DEF n
    <3>5. \A s \in Steps : calls[s] <= Budget(Lives(task) + 1)
      BY <3>1, <3>2, <3>3, <3>4
    <3>6. /\ Budget(Lives(row) + 1)' = Budget(Lives(task) + 1)
          /\ Budget(Lives(task))' = Budget(Lives(task))
          /\ Done(task)' = Done(task) /\ \A s : Spent(s)' = Spent(s)
      BY <1>1, <2>2 DEF Lives, Budget, Done, Spent, IsCurrent
    <3> QED BY <1>1, <1>4, <2>2, <3>1, <3>5, <3>6 DEF CallInv, BudgetInv
  <2> QED BY <2>3, <2>4, <2>5 DEF CallInv
<1> QED BY <1>3, <1>4

LEMMA OtherCalls ==
  ASSUME Inv, Inv', CallInv,
         \/ \E decision \in {"yes", "no"} : Decide(decision)
         \/ JanitorRead \/ JanitorStep
         \/ Crash \/ Restart
         \/ UNCHANGED vars
  PROVE  CallInv'
<1>t. task \in Task /\ row \in Task /\ crashes \in Nat
  BY Numbers
<1>o. Undecided(row) => Uncalled
  BY DEF Undecided, Inv, IInv, VersionsSound, Sound, MayRun, CallInv, CalledInv
<1>1. CASE JanitorRead \/ JanitorMiss \/ JanitorRemember \/ UNCHANGED vars
  <2>1. UNCHANGED <<row, task, dump, pc, attempt, exc, calls, claims, crashes>>
    BY <1>1 DEF JanitorRead, JanitorMiss, JanitorRemember, vars, control, history
  <2> QED BY <2>1, StillMove
<1>2. ASSUME NEW decision \in {"yes", "no"}, Decide(decision) PROVE CallInv'
  <2>1. /\ dump["runner"] = NoDump /\ Undecided(row)
        /\ task' = [task EXCEPT !.decision = decision] /\ row' = task'
        /\ UNCHANGED <<dump, pc, attempt, exc, calls, claims, crashes>>
    BY <1>2 DEF Decide, Undecided, control
  <2>2. task'.steps = task.steps /\ task'.rework = task.rework
    BY <1>t, <2>1 DEF Task
  <2>3. Uncalled
    BY <1>o, <2>1
  <2>4. /\ Done(task') = Done(task) /\ Attempts(task') = Attempts(task)
        /\ \A s : IsCurrent(task', s) <=> IsCurrent(task, s)
    BY <2>2, SamePlan
  <2>5. CalledInv'
    BY <2>1, <2>3 DEF CalledInv, Uncalled
  <2>6. AttemptsInv'
    <3>1. claims = 0 => Attempts(row) = Attempts(task)
      BY <2>1 DEF CallInv, AttemptsInv
    <3>2. Attempts(task)' = Attempts(task) /\ Attempts(row)' = Attempts(task)
      BY <2>1, <2>2 DEF Attempts
    <3>3. \A s : IsCurrent(task, s)' <=> IsCurrent(task, s)
      BY <2>2 DEF IsCurrent
    <3> QED BY <2>1, <3>1, <3>2, <3>3 DEF CallInv, AttemptsInv
  <2>7. BudgetInv'
    <3>1. claims = 0 => row.rework = task.rework
      BY <2>1 DEF CallInv, BudgetInv
    <3>2. /\ claims = 0 => Budget(Lives(row) + 1)' = Budget(Lives(row) + 1)
          /\ Budget(Lives(task))' = Budget(Lives(task)) /\ Done(task)' = Done(task)
          /\ \A s : Spent(s)' = Spent(s)
      BY <2>1, <2>2, <3>1 DEF Lives, Budget, Done, Spent, IsCurrent
    <3> QED BY <2>1, <2>2, <3>1, <3>2 DEF CallInv, BudgetInv
  <2> QED BY <2>5, <2>6, <2>7 DEF CallInv
\* The janitor: from its claim on nothing was called.
<1>4. CASE JanitorClaim
  <2>1. /\ claims' = claims + 1 /\ fresh /\ claims \in Nat
        /\ UNCHANGED <<pc, calls>>
    BY <1>4 DEF JanitorClaim, control, Inv, IInv, TypeOK
  <2>2. Uncalled
    BY <1>o, <2>1 DEF Inv, IInv, OpenRow
  <2> QED BY <2>1, <2>2, ClaimedMove
<1>5. CASE JanitorTimeout \/ JanitorDeny \/ JanitorClose
  <2>1. claims # 0 /\ UNCHANGED <<pc, calls, claims>>
    BY <1>5 DEF JanitorTimeout, JanitorDeny, JanitorClose, Inv, IInv, JanitorOK, control, history
  <2>2. Uncalled
    BY <2>1 DEF CallInv, CalledInv
  <2> QED BY <2>1, <2>2, ClaimedMove
<1>6. CASE JanitorFlush
  BY <1>6, FlushCalls DEF JanitorFlush, Threads, history
<1>7. CASE Restart
  <2>1. /\ pc = "down" /\ pc' \in {"enter", "ended"}
        /\ UNCHANGED <<row, task, dump, exc, calls, claims, crashes>>
    BY <1>7 DEF Restart, history
  <2>2. dump["runner"] = NoDump
    BY <2>1 DEF Inv, IInv, PlacesOK, Threads
  <2>3. /\ pc \notin Busy \union Ending /\ pc' \notin Busy /\ pc # "reset"
        /\ pc' \notin {"down", "waiting"}
    BY <2>1 DEF Busy, Ending
  <2>5. ~Uncalled => task.risk # "none" /\ MayRun(task)
    BY DEF CallInv, CalledInv
  <2>6. Done(task') = Done(task) /\ Attempts(task') = Attempts(task)
    BY <2>1
  <2> QED BY <2>1, <2>2, <2>3, <2>5, <2>6, QuietMove
<1>8. CASE Crash
  <2>1. /\ task' = row /\ dump' = [t \in Threads |-> NoDump] /\ pc' = "down"
        /\ crashes' = crashes + 1 /\ UNCHANGED <<row, calls, claims>>
    BY <1>8 DEF Crash
  <2>2. CalledInv'
    BY <2>1 DEF CallInv, CalledInv, Uncalled, MayRun
  <2>3. AttemptsInv'
    BY <2>1 DEF CallInv, AttemptsInv, Attempts
  <2>5. BudgetInv'
    <3> DEFINE n == Lives(row) + 1
    <3>1. /\ Lives(row) \in Nat /\ Lives(row) = row.rework + crashes /\ row.rework \in Nat
          /\ \A s \in Steps : calls[s] \in Nat
      BY <1>t, Numbers, TaskNumbers
    <3>2. Lives(row)' = n /\ Lives(task)' = n
      BY <1>t, <2>1, <3>1 DEF Lives
    <3>3. n \in Nat
      BY <3>1
    <3>4. claims = 0 => \A s \in Steps : calls[s] <= Budget(n)
      BY DEF CallInv, BudgetInv
    <3> HIDE DEF n
    <3>5. Budget(n) \in Nat /\ TotalAttempts \in Nat /\ Budget(n + 1) = Budget(n) + TotalAttempts
      BY <3>3, BudgetFacts
    <3>6. claims = 0 => \A s \in Steps : calls[s] <= Budget(n + 1)
      BY <3>1, <3>4, <3>5
    <3>7. \A s : Spent(s)' = 0
      BY <2>1 DEF Spent
    <3>8. Budget(Lives(row) + 1)' = Budget(n + 1) /\ Budget(Lives(task))' = Budget(n)
      BY <3>2 DEF Budget
    <3> QED BY <2>1, <3>1, <3>4, <3>5, <3>6, <3>7, <3>8 DEF BudgetInv
  <2> QED BY <2>2, <2>3, <2>5 DEF CallInv
<1> QED
  BY <1>1, <1>2, <1>4, <1>5, <1>6, <1>7, <1>8 DEF JanitorStep

LEMMA InitCalls == Init => CallInv
<1> SUFFICES ASSUME Init PROVE CallInv
  OBVIOUS
<1>1. PICK auto \in BOOLEAN : task = NewTask(auto)
  BY DEF Init, RunnerInit
<1>2. /\ row = task /\ pc = "enter" /\ exc = "none" /\ claims = 0 /\ crashes = 0
      /\ \A t \in Threads : dump[t] = NoDump
      /\ \A s \in Steps : calls[s] = 0
  BY DEF Init, RunnerInit
<1>3. /\ \A s \in Steps : task.steps[s].attempts = 0 /\ task.steps[s].status = "pending"
      /\ task.rework = 0 /\ task.error = "none"
  BY <1>1 DEF NewTask, NewPlan
<1>4. /\ \A s \in Steps : Attempts(task)[s] = 0
      /\ Attempts(task)[Verifier] = 0 /\ Verifier \notin Done(task)
  BY <1>3, StepsFacts DEF Attempts, Done
<1>5. CalledInv
  BY <1>2 DEF CalledInv, Uncalled
<1>6. AttemptsInv
  BY <1>2, <1>4 DEF AttemptsInv
<1>7. BudgetInv
  <2>1. Lives(row) = 0 /\ Lives(task) = 0
    BY <1>2, <1>3 DEF Lives
  <2>2. Budget(0) \in Nat /\ Budget(0 + 1) \in Nat
    BY BudgetFacts
  <2>3. \A s : Spent(s) = 0
    BY <1>2 DEF Spent
  <2> QED BY <1>2, <1>3, <2>1, <2>2, <2>3 DEF BudgetInv
<1> QED BY <1>5, <1>6, <1>7 DEF CallInv

\* CallInv is inductive with the three parts before it.
LEMMA NextCalls == Inv /\ CallInv /\ [Next]_vars => CallInv'
<1> SUFFICES ASSUME Inv, CallInv, [Next]_vars PROVE CallInv'
  OBVIOUS
<1>1. Inv'
  BY NextOInv
<1>2. ASSUME Run PROVE CallInv'
  <2>1. RunnerStep /\ UNCHANGED <<claims, crashes>>
    BY <1>2 DEF Run, history
  <2>2. CASE RunnerFlush
    BY <1>1, <2>1, <2>2, FlushCalls DEF RunnerFlush, Threads
  <2> QED
    BY <1>1, <2>1, <2>2, PlanningCalls, GateCalls, RoundCalls, EndCalls DEF RunnerStep
<1> QED BY <1>1, <1>2, OtherCalls DEF Next, Terminated

LEMMA CallsInductive == Spec => [](Inv /\ CallInv)
<1>1. Init => Inv /\ CallInv
  BY InitInv, InitGInv, InitOInv, InitCalls DEF Inv
<1>2. Inv /\ CallInv /\ [Next]_vars => (Inv /\ CallInv)'
  BY NextOInv, NextCalls
<1> QED BY <1>1, <1>2, PTL DEF Spec

\* An agent is called no more often than the row says, and in each round and each
\* life of the process no more often than the retries allow (_run_step, recover).
THEOREM CallsAreBounded == Spec => []CallsBounded
<1>1. ASSUME Inv, CallInv PROVE CallsBounded
  <2> SUFFICES ASSUME NEW s \in Steps
               PROVE  /\ calls[s] <= row.steps[s].attempts
                      /\ calls[s] <= TotalAttempts * (row.rework + 1 + crashes)
    BY DEF CallsBounded
  <2>1. /\ Attempts(row)[s] = row.steps[s].attempts /\ Attempts(row)[s] \in Nat
        /\ row.rework \in Nat /\ crashes \in Nat /\ Lives(row) = row.rework + crashes
    <3>1. row \in Task /\ crashes \in Nat
      BY <1>1, Numbers
    <3>2. Attempts(row)[s] = row.steps[s].attempts
      BY DEF Attempts
    <3> QED BY <3>1, <3>2, TaskNumbers
  <2>2. Budget(Lives(row) + 1) = TotalAttempts * (row.rework + 1 + crashes)
    <3>1. Lives(row) + 1 = row.rework + 1 + crashes
      BY <2>1
    <3> QED BY <3>1 DEF Budget
  <2>3. CASE claims = 0
    BY <1>1, <2>1, <2>2, <2>3 DEF CallInv, AttemptsInv, BudgetInv
  <2>4. CASE claims # 0
    <3>1. calls[s] = 0
      BY <1>1, <2>4 DEF CallInv, CalledInv, Uncalled
    <3>2. Budget(Lives(row) + 1) \in Nat
      BY <2>1, BudgetFacts
    <3> QED BY <2>1, <2>2, <3>1, <3>2
  <2> QED BY <2>3, <2>4
<1> QED BY <1>1, CallsInductive, PTL

-----------------------------------------------------------------------------
(***************************************************************************)
(* The rework round, for every plan length, retry budget and number of     *)
(* crashes: ReworkRuns.                                                    *)
(*                                                                         *)
(* A version of the task that is in its second round, or that a verdict    *)
(* sends there, was rejected in its first (Heard).  The live object may go *)
(* into a round with the last round's verdict only until the reset that    *)
(* follows; a process that stops before that reset is on record as         *)
(* reworkLost (HeardInv).                                                  *)
(***************************************************************************)

\* The verifier is done with the plan and did not pass it.
Failing(v) == v.steps[Verifier].status = "completed" /\ v.verified # "passed"

\* Every round was rejected, or the last was lost.
AllHeard(heard, lost) ==
  \A round \in 0 .. MaxRounds - 1 : round \in heard \/ (round = MaxRounds - 1 /\ lost)

Heard(v, heard, lost) ==
  /\ v.rework > 0 => 0 \in heard
  /\ v.rework = 0 /\ Failing(v) => 0 \in heard
  /\ v.error = "rework" => AllHeard(heard, lost)

HeardInv ==
  /\ Heard(row, rejected, reworkLost)
  /\ Heard(task, rejected, reworkLost)
  /\ \A th \in Threads : dump[th] # NoDump => Heard(dump[th], rejected, reworkLost)
  /\ pc # "reset" /\ Failing(task) => task.rework \in rejected \/ reworkLost
  /\ exc = "rework" => AllHeard(rejected, reworkLost)

\* A version that is no further than another, and fails no more than it.
Within(v, w) == w.rework = v.rework /\ w.error = v.error /\ (Failing(w) => Failing(v))

LEMMA HeardKept ==
  ASSUME NEW v, NEW w, NEW heard, NEW lost, NEW heard2, NEW lost2,
         Heard(v, heard, lost), Within(v, w), heard \subseteq heard2, lost => lost2
  PROVE  Heard(w, heard2, lost2)
BY DEF Heard, Within, AllHeard

\* Every step writes the row from a version there was, and puts at most the live
\* object on its way to it.
LEMMA HeardMove ==
  ASSUME HeardInv, rejected \subseteq rejected', reworkLost => reworkLost',
         \/ Within(row, row')
         \/ row' = task'
         \/ \E th \in Threads : dump[th] # NoDump /\ row' = dump[th],
         \A th \in Threads : dump'[th] \in {NoDump, dump[th], task'},
         Heard(task', rejected', reworkLost'),
         pc' # "reset" /\ Failing(task') => task'.rework \in rejected' \/ reworkLost',
         exc' = "rework" => AllHeard(rejected', reworkLost')
  PROVE  HeardInv'
<1>1. \A v : Within(v, v)
  BY DEF Within
<1>2. Heard(row', rejected', reworkLost')
  BY <1>1, HeardKept DEF HeardInv
<1>3. \A th \in Threads : dump'[th] # NoDump => Heard(dump'[th], rejected', reworkLost')
  BY <1>1, HeardKept DEF HeardInv
<1> QED BY <1>2, <1>3 DEF HeardInv, Heard, Failing, AllHeard

\* A step that hears no verdict and starts no round.
LEMMA UnheardStep ==
  ASSUME HeardInv, UNCHANGED <<rejected, reworkLost>>,
         \/ Within(row, row')
         \/ row' = task'
         \/ \E th \in Threads : dump[th] # NoDump /\ row' = dump[th],
         \A th \in Threads : dump'[th] \in {NoDump, dump[th], task'},
         Within(task, task'),
         pc # "reset" \/ pc' = "reset" \/ ~Failing(task'),
         exc' \in {exc, "none", "model", "step", "memory"}
  PROVE  HeardInv'
<1>1. Heard(task', rejected', reworkLost')
  BY HeardKept DEF HeardInv
<1>2. pc' # "reset" /\ Failing(task') => task'.rework \in rejected' \/ reworkLost'
  BY DEF HeardInv, Within
<1>3. exc' = "rework" => AllHeard(rejected', reworkLost')
  BY DEF HeardInv
<1> QED BY <1>1, <1>2, <1>3, HeardMove

\* What the helpers make of a version.
LEMMA WithinFacts ==
  ASSUME NEW v \in Task
  PROVE  /\ Within(v, v)
         /\ \A status : Within(v, WithStatus(v, status))
         /\ \A decision : Within(v, [v EXCEPT !.decision = decision])
         /\ \A risk : Within(v, [v EXCEPT !.risk = risk])
         /\ \A s \in Steps, status \in {"running", "failed"} :
              Within(v, WithStep(v, s, status))
         /\ \A s \in Steps : Within(v, [v EXCEPT !.steps[s].attempts = @ + 1])
         /\ \A s \in Steps : s # Verifier => Within(v, WithStep(v, s, "completed"))
         /\ Within(v, Resumed(v))
         /\ Within(v, [v EXCEPT !.planned = TRUE, !.steps = NewPlan])
<1>0. Verifier \in Steps
  BY StepsFacts
<1>1. Within(v, v)
  BY DEF Within
<1>2. \A status : Within(v, WithStatus(v, status))
  BY DEF Within, Failing, WithStatus, Task
<1>3. \A decision : Within(v, [v EXCEPT !.decision = decision])
  BY DEF Within, Failing, Task
<1>4. \A risk : Within(v, [v EXCEPT !.risk = risk])
  BY DEF Within, Failing, Task
<1>5. ASSUME NEW s \in Steps, NEW status, status # "completed" \/ s # Verifier
      PROVE  Within(v, WithStep(v, s, status))
  <2> DEFINE w == WithStep(v, s, status)
  <2>1. w.rework = v.rework /\ w.error = v.error /\ w.verified = v.verified
    BY DEF WithStep, Task
  <2>2. w.steps[Verifier].status = IF s = Verifier THEN status ELSE v.steps[Verifier].status
    BY <1>0 DEF WithStep, Task, PlanStep
  <2> HIDE DEF w
  <2>3. Within(v, w)
    BY <1>5, <2>1, <2>2 DEF Within, Failing
  <2> QED BY <2>3 DEF w
<1>6. ASSUME NEW s \in Steps PROVE Within(v, [v EXCEPT !.steps[s].attempts = @ + 1])
  <2> DEFINE w == [v EXCEPT !.steps[s].attempts = @ + 1]
  <2>1. w.rework = v.rework /\ w.error = v.error /\ w.verified = v.verified
    BY DEF Task
  <2>2. w.steps[Verifier].status = v.steps[Verifier].status
    BY <1>0 DEF Task, PlanStep
  <2> HIDE DEF w
  <2>3. Within(v, w)
    BY <2>1, <2>2 DEF Within, Failing
  <2> QED BY <2>3 DEF w
<1>7. Within(v, Resumed(v))
  <2> DEFINE w == Resumed(v)
  <2>1. w.rework = v.rework /\ w.error = v.error /\ w.verified = v.verified
    BY DEF Resumed, Task
  <2>2. w.steps[Verifier].status = "completed" => v.steps[Verifier].status = "completed"
    BY <1>0 DEF Resumed, Task, PlanStep
  <2> HIDE DEF w
  <2>3. Within(v, w)
    BY <2>1, <2>2 DEF Within, Failing
  <2> QED BY <2>3 DEF w
<1>8. Within(v, [v EXCEPT !.planned = TRUE, !.steps = NewPlan])
  <2> DEFINE w == [v EXCEPT !.planned = TRUE, !.steps = NewPlan]
  <2>1. w.rework = v.rework /\ w.error = v.error /\ w.steps = NewPlan
    BY DEF Task
  <2>2. NewPlan[Verifier].status = "pending"
    BY <1>0 DEF NewPlan
  <2> HIDE DEF w
  <2>3. Within(v, w)
    BY <2>1, <2>2 DEF Within, Failing
  <2> QED BY <2>3 DEF w
<1> QED BY <1>1, <1>2, <1>3, <1>4, <1>5, <1>6, <1>7, <1>8

LEMMA UnheardEmit ==
  ASSUME TypeOK, HeardInv, NEW t, NEW next, Emit(t, next),
         UNCHANGED <<rejected, reworkLost>>, Within(task, t),
         pc # "reset" \/ ~Failing(t), exc' \in {exc, "none", "model", "step", "memory"}
  PROVE  HeardInv'
<1>1. /\ task' = t /\ UNCHANGED row
      /\ \A th \in Threads : dump'[th] \in {dump[th], t}
  BY DEF Emit, TypeOK, Threads
<1>2. Within(row, row')
  BY <1>1 DEF Within
<1> QED BY <1>1, <1>2, UnheardStep

LEMMA UnheardGoto ==
  ASSUME TypeOK, HeardInv, NEW next, Goto(next),
         UNCHANGED <<rejected, reworkLost>>,
         pc # "reset", exc' \in {exc, "none", "model", "step", "memory"}
  PROVE  HeardInv'
<1>1. UNCHANGED <<row, task, dump>>
  BY DEF Goto
<1>2. Within(row, row') /\ Within(task, task')
  BY <1>1 DEF Within
<1> QED BY <1>1, <1>2, UnheardStep

-----------------------------------------------------------------------------
(* The runner's actions.                                                   *)

LEMMA PlanningHears ==
  ASSUME TypeOK, HeardInv, UNCHANGED reworkLost,
         \/ EnterPlanning \/ EnterResume \/ Plan \/ StartAssessing
         \/ \E risk \in {"low", "high"} : Assess(risk)
         \/ ModelFails
         \/ GateOpen \/ GateAuto \/ GateRefused \/ GateRequest \/ GateStillWaiting
         \/ WaitDecided \/ WaitExpires
  PROVE  HeardInv'
<1>t. task \in Task
  BY DEF TypeOK
<1>r. UNCHANGED rejected /\ pc # "reset"
  BY DEF EnterPlanning, EnterResume, Plan, StartAssessing, Assess, ModelFails, Raise,
         GateOpen, GateAuto, GateRefused, GateRequest, GateStillWaiting, WaitDecided,
         WaitExpires, At
<1>1. CASE EnterPlanning \/ StartAssessing \/ GateAuto
  <2>1. PICK t \in {WithStatus(task, "planning"), WithStatus(task, "assessing_risk"), task},
             next \in {"planning", "assessing", "start"} : Emit(t, next)
    BY <1>1 DEF EnterPlanning, StartAssessing, GateAuto
  <2>2. UNCHANGED exc
    BY <1>1 DEF EnterPlanning, StartAssessing, GateAuto
  <2> QED BY <1>t, <1>r, <2>1, <2>2, WithinFacts, UnheardEmit
<1>2. CASE Plan
  <2> DEFINE t == [task EXCEPT !.planned = TRUE, !.steps = NewPlan]
  <2>1. Emit(t, "assess") /\ UNCHANGED exc
    BY <1>2 DEF Plan
  <2>2. Within(task, t)
    BY <1>t, WithinFacts
  <2> HIDE DEF t
  <2> QED BY <1>r, <2>1, <2>2, UnheardEmit
<1>3. ASSUME NEW risk \in {"low", "high"}, Assess(risk) PROVE HeardInv'
  <2> DEFINE t == [task EXCEPT !.risk = risk]
  <2>1. Emit(t, "gate") /\ UNCHANGED exc
    BY <1>3 DEF Assess
  <2>2. Within(task, t)
    BY <1>t, WithinFacts
  <2> HIDE DEF t
  <2> QED BY <1>r, <2>1, <2>2, UnheardEmit
<1>4. CASE GateRequest
  <2> DEFINE t == [task EXCEPT !.status = "awaiting_approval", !.decision = "none"]
  <2>1. Emit(t, "waiting") /\ UNCHANGED exc
    BY <1>4 DEF GateRequest
  <2>2. Within(task, t)
    BY <1>t DEF Within, Failing, Task
  <2> HIDE DEF t
  <2> QED BY <1>r, <2>1, <2>2, UnheardEmit
<1>5. CASE WaitExpires
  <2> DEFINE t == [task EXCEPT !.decision = "no"]
  <2>1. Emit(t, "finish") /\ UNCHANGED exc
    BY <1>5 DEF WaitExpires
  <2>2. Within(task, t)
    BY <1>t, WithinFacts
  <2> HIDE DEF t
  <2> QED BY <1>r, <2>1, <2>2, UnheardEmit
<1>6. CASE EnterResume \/ WaitDecided
  <2>1. Within(task, task')
    BY <1>6, <1>t, WithinFacts DEF EnterResume, WaitDecided
  <2>2. UNCHANGED <<row, dump, exc>>
    BY <1>6 DEF EnterResume, WaitDecided
  <2>3. Within(row, row')
    BY <2>2 DEF Within
  <2> QED BY <1>r, <2>1, <2>2, <2>3, UnheardStep
<1>7. CASE ModelFails \/ GateOpen \/ GateRefused \/ GateStillWaiting
  <2>1. PICK next \in {"fail", "start", "finish", "waiting"} : Goto(next)
    BY <1>7 DEF ModelFails, Raise, GateOpen, GateRefused, Deny, GateStillWaiting
  <2>2. exc' \in {exc, "model"}
    BY <1>7 DEF ModelFails, Raise, GateOpen, GateRefused, Deny, GateStillWaiting
  <2> QED BY <1>r, <2>1, <2>2, UnheardGoto
<1> QED BY <1>1, <1>2, <1>3, <1>4, <1>5, <1>6, <1>7

\* The steps of a round, whose last one hears the verifier's verdict.
LEMMA RoundHears ==
  ASSUME TypeOK, HeardInv, UNCHANGED reworkLost,
         \/ Start \/ EnterVerifier
         \/ \E s \in Steps : \/ EnterWorker(s) \/ StartStep(s) \/ Attempt(s) \/ Call(s)
                             \/ \E verdict \in {"passed", "rejected"} : CallReturns(s, verdict)
                             \/ CallFails(s)
         \/ CallRetries \/ RoundPassed
  PROVE  HeardInv'
<1>t. task \in Task /\ Verifier \in Steps
  BY StepsFacts DEF TypeOK
<1>p. pc # "reset"
  BY DEF Start, EnterVerifier, EnterWorker, StartStep, Attempt, Call, CallReturns,
         CallFails, CallRetries, RoundPassed, At
<1>1. CASE Start \/ EnterVerifier \/ CallRetries
  <2>1. PICK t \in {WithStatus(task, "running"), WithStatus(task, "verifying"), task},
             next \in {"round", "step", "attempt"} : Emit(t, next)
    BY <1>1 DEF Start, EnterVerifier, CallRetries
  <2>2. UNCHANGED <<exc, rejected>>
    BY <1>1 DEF Start, EnterVerifier, CallRetries
  <2> QED BY <1>t, <1>p, <2>1, <2>2, WithinFacts, UnheardEmit
<1>2. CASE (\E s \in Steps : EnterWorker(s) \/ Call(s)) \/ RoundPassed
  <2>1. PICK next \in {"step", "calling", "synthesizing"} : Goto(next)
    BY <1>2 DEF EnterWorker, Call, RoundPassed
  <2>2. UNCHANGED <<exc, rejected>>
    BY <1>2 DEF EnterWorker, Call, RoundPassed
  <2> QED BY <1>p, <2>1, <2>2, UnheardGoto
<1>3. ASSUME NEW s \in Steps, StartStep(s) \/ CallFails(s) PROVE HeardInv'
  <2>1. PICK status \in {"running", "failed"}, next \in {"attempt", "fail"} :
           Emit(WithStep(task, s, status), next)
    BY <1>3 DEF StartStep, CallFails
  <2>2. UNCHANGED rejected /\ exc' \in {exc, "step"}
    BY <1>3 DEF StartStep, CallFails
  <2>3. Within(task, WithStep(task, s, status))
    BY <1>t, WithinFacts
  <2> QED BY <1>p, <2>1, <2>2, <2>3, UnheardEmit
<1>4. ASSUME NEW s \in Steps, Attempt(s) PROVE HeardInv'
  <2> DEFINE t == [task EXCEPT !.steps[s].attempts = @ + 1]
  <2>1. Emit(t, "call") /\ UNCHANGED <<exc, rejected>>
    BY <1>4 DEF Attempt
  <2>2. Within(task, t)
    BY <1>t, WithinFacts
  <2> HIDE DEF t
  <2> QED BY <1>p, <2>1, <2>2, UnheardEmit
<1>5. ASSUME NEW s \in Steps, NEW verdict \in {"passed", "rejected"}, CallReturns(s, verdict)
      PROVE  HeardInv'
  <2> DEFINE w == WithStep(task, s, "completed")
             t == [w EXCEPT !.verified = IF s = Verifier THEN verdict ELSE @]
  <2>1. /\ Emit(t, "round") /\ UNCHANGED exc
        /\ rejected' = IF s = Verifier /\ verdict = "rejected"
                         THEN rejected \union {task.rework} ELSE rejected
    BY <1>5 DEF CallReturns
  <2>2. w \in Task
    BY <1>t, WithStepType DEF StepStatus
  <2>3. s # Verifier => Within(task, w)
    BY <1>t, WithinFacts
  <2>4. w.rework = task.rework /\ w.error = task.error
    BY <1>t DEF WithStep, Task
  <2> HIDE DEF w
  <2>5. /\ t.rework = w.rework /\ t.error = w.error /\ t.steps = w.steps
        /\ t.verified = IF s = Verifier THEN verdict ELSE w.verified
    BY <2>2 DEF Task
  <2> HIDE DEF t
  <2>6. CASE s # Verifier
    <3>1. Within(task, t)
      BY <2>3, <2>5, <2>6 DEF Within, Failing
    <3> QED BY <1>p, <2>1, <2>6, <3>1, UnheardEmit
  <2>7. CASE s = Verifier
    <3>1. /\ task' = t /\ pc' = "round" /\ UNCHANGED row
          /\ \A th \in Threads : dump'[th] \in {dump[th], t}
      BY <2>1 DEF Emit, TypeOK, Threads
    <3>2. Failing(t) => t.rework \in rejected'
      BY <2>1, <2>4, <2>5, <2>7 DEF Failing
    <3>3. rejected \subseteq rejected'
      BY <2>1
    <3>4. Heard(t, rejected', reworkLost')
      BY <2>4, <2>5, <3>2, <3>3 DEF HeardInv, Heard, AllHeard
    <3>5. exc' = "rework" => AllHeard(rejected', reworkLost')
      BY <2>1, <3>3 DEF HeardInv, AllHeard
    <3>6. Within(row, row')
      BY <3>1 DEF Within
    <3> QED BY <3>1, <3>2, <3>3, <3>4, <3>5, <3>6, HeardMove
  <2> QED BY <2>6, <2>7
<1> QED BY <1>1, <1>2, <1>3, <1>4, <1>5

\* From one round to the next, and to the end of the run.
LEMMA EndHears ==
  ASSUME TypeOK, HeardInv, UNCHANGED reworkLost,
         \/ StartRework \/ Reset \/ GiveUp
         \/ Synthesize \/ Fail \/ Finish \/ Remember \/ RememberFails \/ Close
  PROVE  HeardInv'
<1>t. task \in Task /\ Verifier \in Steps
  BY StepsFacts DEF TypeOK
<1>r. UNCHANGED rejected
  BY DEF StartRework, Reset, GiveUp, Raise, Synthesize, Fail, Finish, Remember,
         RememberFails, Close
<1>f. Within(row, row)
  BY DEF Within
<1>1. CASE StartRework
  <2> DEFINE t == [task EXCEPT !.rework = @ + 1]
  <2>1. Emit(t, "reset") /\ UNCHANGED exc /\ RoundDone(task) /\ task.verified # "passed"
        /\ task.rework + 1 < MaxRounds
    BY <1>1 DEF StartRework
  <2>2. t.rework = task.rework + 1 /\ t.error = task.error /\ task.rework = 0
    BY <1>t, <2>1 DEF Task, MaxRounds
  <2> HIDE DEF t
  <2>3. /\ task' = t /\ pc' = "reset" /\ UNCHANGED row
        /\ \A th \in Threads : dump'[th] \in {dump[th], t}
    BY <2>1 DEF Emit, TypeOK, Threads
  <2>4. 0 \in rejected
    BY <1>t, <2>1, <2>2 DEF HeardInv, Heard, Failing, RoundDone
  <2>5. Heard(t, rejected, reworkLost)
    BY <2>2, <2>4 DEF HeardInv, Heard
  <2> QED BY <1>r, <1>f, <2>1, <2>3, <2>5, HeardMove DEF HeardInv
<1>2. CASE Reset
  <2> DEFINE w == ResetForRework(task)
             t == WithStatus(w, "running")
  <2>1. Emit(t, "round") /\ UNCHANGED exc
    BY <1>2 DEF Reset
  <2>2. w \in Task
    BY <1>t, ResetType
  <2>3. /\ w.rework = task.rework /\ w.error = task.error
        /\ w.steps[Verifier].status = "pending"
    BY <1>t DEF ResetForRework, Task, PlanStep
  <2> HIDE DEF w
  <2>4. t.rework = w.rework /\ t.error = w.error /\ t.steps = w.steps
    BY <2>2 DEF WithStatus, Task
  <2> HIDE DEF t
  <2>5. Within(task, t) /\ ~Failing(t)
    BY <2>3, <2>4 DEF Within, Failing
  <2> QED BY <1>r, <2>1, <2>5, UnheardEmit
<1>3. CASE GiveUp
  <2>1. /\ Goto("fail") /\ exc' = "rework" /\ pc = "round" /\ RoundDone(task)
        /\ task.verified # "passed" /\ task.rework + 1 = MaxRounds
    BY <1>3 DEF GiveUp, Raise, At
  <2>2. task.rework = 1 /\ MaxRounds - 1 = 1
    BY <1>t, <2>1 DEF Task, MaxRounds
  <2>3. 0 \in rejected /\ (1 \in rejected \/ reworkLost)
    BY <1>t, <2>1, <2>2 DEF HeardInv, Heard, Failing, RoundDone
  <2>4. AllHeard(rejected, reworkLost)
    BY <2>2, <2>3 DEF AllHeard
  <2>5. UNCHANGED <<row, task, dump>>
    BY <2>1 DEF Goto
  <2>6. pc # "reset"
    BY <2>1
  <2> QED BY <1>r, <1>f, <2>4, <2>5, <2>6, HeardMove DEF HeardInv
<1>4. CASE Fail
  <2> DEFINE t == [task EXCEPT !.error = exc]
  <2>1. Emit(t, "finish") /\ UNCHANGED exc /\ pc = "fail"
    BY <1>4 DEF Fail, At
  <2>2. /\ t.rework = task.rework /\ t.error = exc /\ t.steps = task.steps
        /\ t.verified = task.verified
    BY <1>t DEF Task
  <2> HIDE DEF t
  <2>3. /\ task' = t /\ UNCHANGED row
        /\ \A th \in Threads : dump'[th] \in {dump[th], t}
    BY <2>1 DEF Emit, TypeOK, Threads
  <2>4. Heard(t, rejected, reworkLost)
    BY <2>2 DEF HeardInv, Heard, Failing
  <2>5. Failing(t) => t.rework \in rejected \/ reworkLost
    BY <2>1, <2>2 DEF HeardInv, Failing
  <2> QED BY <1>r, <1>f, <2>1, <2>3, <2>4, <2>5, HeardMove DEF HeardInv
<1>5. CASE Synthesize \/ Finish \/ Close
  <2>1. PICK t \in {WithStatus(task, outcome), task}, next \in {"finish", "remember", "ended"} :
           Emit(t, next)
    BY <1>5 DEF Synthesize, Finish, Close
  <2>2. UNCHANGED exc /\ pc # "reset"
    BY <1>5 DEF Synthesize, Finish, Close, At
  <2> QED BY <1>t, <1>r, <2>1, <2>2, WithinFacts, UnheardEmit
<1>6. CASE Remember \/ RememberFails
  <2>1. PICK next \in {"close", "fail", "ended"} : Goto(next)
    BY <1>6 DEF Remember, RememberFails, Raise
  <2>2. exc' \in {exc, "memory"} /\ pc # "reset"
    BY <1>6 DEF Remember, RememberFails, Raise, At
  <2> QED BY <1>r, <2>1, <2>2, UnheardGoto
<1> QED BY <1>1, <1>2, <1>3, <1>4, <1>5, <1>6

-----------------------------------------------------------------------------
(* Commits, reviewers, the janitor and the process.                        *)

LEMMA FlushHears ==
  ASSUME TypeOK, HeardInv, UNCHANGED reworkLost, NEW th \in Threads, NEW last, Flush(th, last)
  PROVE  HeardInv'
<1>1. /\ dump[th] # NoDump /\ row' = dump[th] /\ UNCHANGED <<task, pc, exc, rejected>>
      /\ \A q \in Threads : dump'[q] \in {NoDump, dump[q]}
  BY DEF Flush, control, TypeOK
<1>2. Within(task, task')
  BY <1>1 DEF Within
<1>3. pc # "reset" \/ pc' = "reset"
  BY <1>1
<1> QED BY <1>1, <1>2, <1>3, UnheardStep

LEMMA OthersHear ==
  ASSUME TypeOK, HeardInv,
         \/ \E decision \in {"yes", "no"} : Decide(decision)
         \/ JanitorRead \/ JanitorStep
         \/ Crash \/ Restart
         \/ UNCHANGED vars
  PROVE  HeardInv'
<1>t. task \in Task /\ row \in Task
  BY DEF TypeOK
<1>f. Within(row, row) /\ Within(task, task)
  BY DEF Within
<1>1. CASE JanitorRead \/ JanitorMiss \/ JanitorRemember \/ UNCHANGED vars
  <2>1. UNCHANGED <<row, task, dump, pc, exc, rejected, reworkLost>>
    BY <1>1 DEF JanitorRead, JanitorMiss, JanitorRemember, vars, control, history
  <2> QED BY <1>f, <2>1, UnheardStep
<1>2. ASSUME NEW decision \in {"yes", "no"}, Decide(decision) PROVE HeardInv'
  <2>1. /\ task' = [task EXCEPT !.decision = decision] /\ row' = task'
        /\ UNCHANGED <<dump, pc, exc, rejected, reworkLost>>
    BY <1>2 DEF Decide, control
  <2>2. Within(task, task')
    BY <1>t, <2>1, WithinFacts
  <2> QED BY <2>1, <2>2, UnheardStep
<1>3. CASE JanitorClaim
  <2>1. /\ row' = [row EXCEPT !.decision = "no"]
        /\ UNCHANGED <<task, dump, pc, exc, rejected, reworkLost>>
    BY <1>3 DEF JanitorClaim, control
  <2>2. Within(row, row')
    BY <1>t, <2>1, WithinFacts
  <2> QED BY <1>f, <2>1, <2>2, UnheardStep
<1>4. CASE JanitorTimeout \/ JanitorDeny \/ JanitorClose
  <2>1. PICK t \in {[task EXCEPT !.decision = "no"], WithStatus(task, "denied"), task} :
           JanitorEmit(t)
    BY <1>4 DEF JanitorTimeout, JanitorDeny, JanitorClose
  <2>2. UNCHANGED <<row, pc, exc, rejected, reworkLost>>
    BY <1>4 DEF JanitorTimeout, JanitorDeny, JanitorClose, control, history
  <2>3. task' = t /\ \A th \in Threads : dump'[th] \in {dump[th], t}
    BY <2>1 DEF JanitorEmit, TypeOK, Threads
  <2>4. Within(task, t)
    BY <1>t, <2>1 DEF Within, Failing, WithStatus, Task
  <2> QED BY <1>f, <2>2, <2>3, <2>4, UnheardStep
<1>5. CASE JanitorFlush
  BY <1>5, FlushHears DEF JanitorFlush, Threads, history
<1>6. CASE Restart
  <2>1. /\ pc = "down" /\ UNCHANGED <<row, task, dump, exc, rejected, reworkLost>>
    BY <1>6 DEF Restart, history
  <2>2. pc # "reset"
    BY <2>1
  <2> QED BY <1>f, <2>1, <2>2, UnheardStep
\* What is left of the task is its row, and if the row is in a round whose reset it
\* has not seen, that round is lost.
<1>7. CASE Crash
  <2>1. /\ task' = row /\ dump' = [th \in Threads |-> NoDump] /\ exc' = "none"
        /\ reworkLost' = (reworkLost \/ RoundUnheard(row)) /\ UNCHANGED <<row, rejected>>
    BY <1>7 DEF Crash
  <2>2. row.rework = 0 \/ row.rework > 0
    BY <1>t DEF Task
  <2>3. Failing(row) => row.rework \in rejected \/ reworkLost'
    BY <2>1, <2>2 DEF HeardInv, Heard, Failing, RoundUnheard
  <2>4. Heard(row, rejected', reworkLost')
    BY <2>1 DEF HeardInv, Heard, AllHeard
  <2>5. \A th \in Threads : dump'[th] = NoDump
    BY <2>1
  <2>6. reworkLost => reworkLost'
    BY <2>1
  <2>7. row' = row /\ rejected' = rejected /\ exc' # "rework"
    BY <2>1
  <2> QED BY <1>f, <2>1, <2>3, <2>4, <2>5, <2>6, <2>7, HeardMove
<1> QED
  BY <1>1, <1>2, <1>3, <1>4, <1>5, <1>6, <1>7 DEF JanitorStep

LEMMA InitHeard == Init => HeardInv
<1> SUFFICES ASSUME Init PROVE HeardInv
  OBVIOUS
<1>1. PICK auto \in BOOLEAN : task = NewTask(auto)
  BY DEF Init, RunnerInit
<1>2. row = task /\ exc = "none" /\ \A th \in Threads : dump[th] = NoDump
  BY DEF Init, RunnerInit
<1>3. task.rework = 0 /\ task.error = "none" /\ task.steps[Verifier].status = "pending"
  BY <1>1, StepsFacts DEF NewTask, NewPlan
<1> QED BY <1>2, <1>3 DEF HeardInv, Heard, Failing

LEMMA NextHeard == TypeOK /\ HeardInv /\ [Next]_vars => HeardInv'
<1> SUFFICES ASSUME TypeOK, HeardInv, [Next]_vars PROVE HeardInv'
  OBVIOUS
<1>1. ASSUME Run PROVE HeardInv'
  <2>1. RunnerStep /\ UNCHANGED reworkLost
    BY <1>1 DEF Run, history
  <2>2. CASE RunnerFlush
    BY <2>1, <2>2, FlushHears DEF RunnerFlush, Threads
  <2> QED BY <2>1, <2>2, PlanningHears, RoundHears, EndHears DEF RunnerStep
<1> QED BY <1>1, OthersHear DEF Next, Terminated

\* A task fails for lack of rounds only after every round had its own verdict; the
\* last is lost to nothing but a process that stops between the announcement of
\* the round and the reset of its steps (_run, recover).
THEOREM ReworkHappens == Spec => []ReworkRuns
<1>1. Init => HeardInv
  BY InitHeard
<1>2. TypeOK /\ HeardInv /\ [Next]_vars => HeardInv'
  BY NextHeard
<1>3. HeardInv => ReworkRuns
  BY DEF HeardInv, Heard, AllHeard, ReworkRuns
<1> QED BY <1>1, <1>2, <1>3, TypeCorrect, PTL DEF Spec
=============================================================================
