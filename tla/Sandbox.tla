------------------------------- MODULE Sandbox -------------------------------
(***************************************************************************)
(* The code sandbox: run_python, with the local and the docker backend and *)
(* the time limit of _communicate.  A call runs one program in a child     *)
(* process: the interpreter itself, or a docker client that asks the       *)
(* daemon for a container and forwards the program to it.  Calls overlap,  *)
(* since tasks and Celery jobs do; each has a process and a container of   *)
(* its own.                                                                *)
(*                                                                         *)
(* The daemon is outside src/: a container is created and then started,    *)
(* `rm --force` removes whatever has the name, and a container whose       *)
(* client is killed runs on.                                               *)
(***************************************************************************)
EXTENDS Naturals

CONSTANTS Calls,          \* calls of run_python
          MaxCancelled    \* bound: calls whose task is cancelled

ASSUME SandboxAssumption == MaxCancelled \in Nat

VARIABLES
  pc,         \* per call: where run_python is
  backend,    \* per call: SANDBOX_BACKEND
  program,    \* per call: what the program would do if it were left alone
  child,      \* per call: the process that communicate() waits for
  container,  \* per call: the container, as the daemon sees it
  missed,     \* history: `rm --force` found nothing to remove
  result,     \* per call: what run_python returned
  cancelled   \* calls cancelled so far

world == <<child, container>>
vars == <<pc, backend, program, child, container, missed, result, cancelled>>

Outcome == {"good", "bad", "never"}      \* exit status 0, another one, no end
Alive == {"starting", "running"}         \* of a child: waiting for the daemon, or working

Goto(c, place) == pc' = [pc EXCEPT ![c] = place]
Return(c, r) == Goto(c, "returned") /\ result' = [result EXCEPT ![c] = r]

Init ==
  /\ pc = [c \in Calls |-> "called"]
  /\ backend \in [Calls -> {"local", "docker"}]
  /\ program \in [Calls -> Outcome]
  /\ child = [c \in Calls |-> "none"]
  /\ container = [c \in Calls |-> "none"]
  /\ missed = [c \in Calls |-> FALSE]
  /\ result = [c \in Calls |-> "none"]
  /\ cancelled = 0

-----------------------------------------------------------------------------
(* run_python, _run_local, _run_docker and _communicate.                   *)

\* An empty or forbidden program, a local backend in production, no docker.
Reject(c) ==
  /\ pc[c] = "called"
  /\ Return(c, "failed")
  /\ UNCHANGED <<backend, program, world, missed, cancelled>>

Launch(c) ==
  /\ pc[c] = "called"
  /\ Goto(c, "waiting")
  /\ child' = [child EXCEPT ![c] = IF backend[c] = "local" THEN "running" ELSE "starting"]
  /\ UNCHANGED <<backend, program, container, missed, result, cancelled>>

\* Mutant: whatever was printed counts as a success.
FinishedAnyhow(c) ==
  /\ pc[c] = "waiting"
  /\ child[c] \in {"good", "bad"}
  /\ Return(c, "ok")
  /\ UNCHANGED <<backend, program, world, missed, cancelled>>

Finished(c) ==
  /\ pc[c] = "waiting"
  /\ child[c] \in {"good", "bad"}
  /\ Return(c, IF child[c] = "good" THEN "ok" ELSE "failed")
  /\ UNCHANGED <<backend, program, world, missed, cancelled>>

\* CODE_TIMEOUT_SECONDS have passed; a container is removed first.
TimeOut(c) ==
  /\ pc[c] = "waiting"
  /\ Goto(c, IF backend[c] = "docker" THEN "removing" ELSE "killing")
  /\ UNCHANGED <<backend, program, world, missed, result, cancelled>>

\* Mutant: only a container that runs is stopped.
StopRunning(c) ==
  /\ pc[c] = "removing"
  /\ missed' = [missed EXCEPT ![c] = container[c] = "none"]
  /\ container' = [container EXCEPT ![c] = IF @ = "running" THEN "gone" ELSE @]
  /\ Goto(c, "killing")
  /\ UNCHANGED <<backend, program, child, result, cancelled>>

\* force_remove; that the container is not there, or no longer, is ignored.
ForceRemove(c) ==
  /\ pc[c] = "removing"
  /\ missed' = [missed EXCEPT ![c] = container[c] = "none"]
  /\ container' = [container EXCEPT ![c] = IF @ = "none" THEN @ ELSE "gone"]
  /\ Goto(c, "killing")
  /\ UNCHANGED <<backend, program, child, result, cancelled>>

\* Mutant: the child is not killed when there was a container to remove.
KillLocal(c) ==
  /\ pc[c] = "killing"
  /\ child' = [child EXCEPT ![c] = IF @ \in Alive /\ backend[c] = "local" THEN "killed" ELSE @]
  /\ Goto(c, "collecting")
  /\ UNCHANGED <<backend, program, container, missed, result, cancelled>>

\* process.kill() unless it has ended by now.
Kill(c) ==
  /\ pc[c] = "killing"
  /\ child' = [child EXCEPT ![c] = IF @ \in Alive THEN "killed" ELSE @]
  /\ Goto(c, "collecting")
  /\ UNCHANGED <<backend, program, container, missed, result, cancelled>>

\* Mutant: the result is how the process ended.
CollectStatus(c) ==
  /\ pc[c] = "collecting"
  /\ child[c] \notin Alive
  /\ Return(c, child[c])
  /\ UNCHANGED <<backend, program, world, missed, cancelled>>

\* Late or not, what has timed out has failed.
Collect(c) ==
  /\ pc[c] = "collecting"
  /\ child[c] \notin Alive
  /\ Return(c, "failed")
  /\ UNCHANGED <<backend, program, world, missed, cancelled>>

\* shutdown cancels the runner, or the worker process is lost: none of the
\* handlers above sees it.  The child loses its pipes and is killed or not.
Cancel(c) ==
  /\ pc[c] \in {"waiting", "removing", "killing", "collecting"}
  /\ cancelled < MaxCancelled
  /\ cancelled' = cancelled + 1
  /\ Goto(c, "cancelled")
  /\ \/ UNCHANGED child
     \/ child[c] \in Alive /\ child' = [child EXCEPT ![c] = "killed"]
  /\ UNCHANGED <<backend, program, container, missed, result>>

Handle(c) == \/ Launch(c) \/ Reject(c) \/ Finished(c) \/ TimeOut(c)
             \/ ForceRemove(c) \/ Kill(c) \/ Collect(c)

-----------------------------------------------------------------------------
(* The programs, the docker client and the daemon.                         *)

LocalEnds(c) ==
  /\ backend[c] = "local" /\ child[c] = "running"
  /\ program[c] # "never"
  /\ child' = [child EXCEPT ![c] = program[c]]
  /\ UNCHANGED <<pc, backend, program, container, missed, result, cancelled>>

\* The image is there, or has been pulled, and the container is created, be it
\* for a client that has just been killed ...
Create(c) ==
  /\ child[c] = "starting" \/ (child[c] = "killed" /\ backend[c] = "docker")
  /\ container[c] = "none"
  /\ container' = [container EXCEPT ![c] = "created"]
  /\ UNCHANGED <<pc, backend, program, child, missed, result, cancelled>>

\* ... and then started, with the program as its input.
Start(c) ==
  /\ child[c] = "starting" /\ container[c] = "created"
  /\ container' = [container EXCEPT ![c] = "running"]
  /\ child' = [child EXCEPT ![c] = "running"]
  /\ UNCHANGED <<pc, backend, program, missed, result, cancelled>>

\* A container that ends is removed (--rm) and its client ends with its status.
ContainerEnds(c) ==
  /\ container[c] = "running"
  /\ program[c] # "never"
  /\ container' = [container EXCEPT ![c] = "gone"]
  /\ child' = [child EXCEPT ![c] = IF @ = "running" THEN program[c] ELSE @]
  /\ UNCHANGED <<pc, backend, program, missed, result, cancelled>>

\* The client of a container that is gone, or that cannot be had, reports an error.
ClientFails(c) ==
  /\ backend[c] = "docker" /\ child[c] \in Alive
  /\ container[c] \in {"none", "gone"}
  /\ child' = [child EXCEPT ![c] = "bad"]
  /\ UNCHANGED <<pc, backend, program, container, missed, result, cancelled>>

Environment(c) == LocalEnds(c) \/ Create(c) \/ Start(c) \/ ContainerEnds(c) \/ ClientFails(c)

Next == \E c \in Calls : Handle(c) \/ Cancel(c) \/ Environment(c)

\* A call goes on and its time limit passes; `docker rm` returns.  Nothing
\* makes a program end or the daemon create a container.
Spec == Init /\ [][Next]_vars
FairSpec == Spec /\ \A c \in Calls : WF_vars(Handle(c))
-----------------------------------------------------------------------------
(* Properties.                                                             *)

\* The type invariant of the sandbox.
TypeOK ==
  /\ pc \in [Calls -> {"called", "waiting", "removing", "killing", "collecting",
                       "returned", "cancelled"}]
  /\ child \in [Calls -> {"none", "good", "bad", "killed"} \union Alive]
  /\ container \in [Calls -> {"none", "created", "running", "gone"}]
  /\ missed \in [Calls -> BOOLEAN]
  /\ result \in [Calls -> {"none", "ok", "failed"}]
  /\ cancelled \in 0 .. MaxCancelled

\* A call reports success only for a program that ran to its end and exited
\* with 0, never for one that was removed, killed or not started (_communicate).
OkMeansRan ==
  \A c \in Calls : result[c] = "ok" =>
    /\ program[c] = "good" /\ child[c] = "good"
    /\ backend[c] = "docker" => container[c] = "gone"

\* Nothing of a call outlives it: the process has ended and no container of it
\* is left, unless the removal came before there was one (force_remove).
NothingLeft ==
  \A c \in Calls : pc[c] = "returned" =>
    /\ child[c] \notin Alive
    /\ container[c] \in {"created", "running"} => missed[c]

\* Whatever the program does, its call returns or is cancelled (_communicate).
CallsEnd == \A c \in Calls : <>(pc[c] \in {"returned", "cancelled"})
=============================================================================
