--------------------------- MODULE SandboxProofs ----------------------------
(***************************************************************************)
(* Proofs about module Sandbox, for any set of calls and any number of     *)
(* cancellations: its types, OkMeansRan and NothingLeft.  What the two say *)
(* of a call that has returned rests on where its child and its container  *)
(* are before that, which is CallInv.                                      *)
(***************************************************************************)
EXTENDS Sandbox, TLAPS

\* Two variables that TypeOK leaves out because no step changes them.
Typing ==
  /\ TypeOK
  /\ backend \in [Calls -> {"local", "docker"}]
  /\ program \in [Calls -> Outcome]

\* The child and the container of a call, as far as they go together.
PairInv(c) ==
  /\ pc[c] = "called" => child[c] = "none"
  /\ child[c] = "none" => container[c] = "none"
  /\ backend[c] = "local" => container[c] = "none" /\ child[c] # "starting"
  /\ child[c] = "good" => /\ program[c] = "good"
                          /\ backend[c] = "docker" => container[c] = "gone"
  /\ child[c] = "bad" /\ backend[c] = "docker" => container[c] \in {"none", "gone"}

\* Once the removal has been tried there is no container, unless the removal
\* came too early, and none comes back.
RemovalInv(c) ==
  /\ pc[c] \in {"killing", "collecting"} /\ backend[c] = "docker" =>
       missed[c] \/ container[c] = "gone"
  /\ pc[c] = "returned" =>
       /\ child[c] \notin Alive
       /\ backend[c] = "docker" =>
            \/ missed[c] \/ container[c] = "gone"
            \/ container[c] = "none" /\ child[c] \in {"none", "bad"}

ResultInv(c) == result[c] = "ok" => pc[c] = "returned" /\ child[c] = "good"

CallInv(c) == PairInv(c) /\ RemovalInv(c) /\ ResultInv(c)

IInv == Typing /\ \A c \in Calls : CallInv(c)

-----------------------------------------------------------------------------
\* The invariant holds when all calls have just been made.
LEMMA InitIInv == Init => IInv
BY SandboxAssumption DEF Init, IInv, Typing, TypeOK, Outcome, Alive,
   CallInv, PairInv, RemovalInv, ResultInv

\* What run_python does in a call keeps the invariant (Handle).
LEMMA HandleKeeps ==
  ASSUME IInv, NEW c \in Calls, Handle(c)
  PROVE  IInv'
<1>1. CASE Launch(c)
  BY <1>1 DEF Launch, Goto, world, IInv, Typing, TypeOK, Outcome, Alive,
     CallInv, PairInv, RemovalInv, ResultInv
<1>2. CASE Reject(c)
  BY <1>2 DEF Reject, Return, Goto, world, IInv, Typing, TypeOK, Outcome, Alive,
     CallInv, PairInv, RemovalInv, ResultInv
<1>3. CASE Finished(c)
  BY <1>3 DEF Finished, Return, Goto, world, IInv, Typing, TypeOK, Outcome, Alive,
     CallInv, PairInv, RemovalInv, ResultInv
<1>4. CASE TimeOut(c)
  BY <1>4 DEF TimeOut, Goto, world, IInv, Typing, TypeOK, Outcome, Alive,
     CallInv, PairInv, RemovalInv, ResultInv
<1>5. CASE ForceRemove(c)
  BY <1>5 DEF ForceRemove, Goto, IInv, Typing, TypeOK, Outcome, Alive,
     CallInv, PairInv, RemovalInv, ResultInv
<1>6. CASE Kill(c)
  BY <1>6 DEF Kill, Goto, IInv, Typing, TypeOK, Outcome, Alive,
     CallInv, PairInv, RemovalInv, ResultInv
<1>7. CASE Collect(c)
  BY <1>7 DEF Collect, Return, Goto, world, IInv, Typing, TypeOK, Outcome, Alive,
     CallInv, PairInv, RemovalInv, ResultInv
<1>8. QED BY <1>1, <1>2, <1>3, <1>4, <1>5, <1>6, <1>7 DEF Handle

\* A cancellation keeps it: what it leaves behind belongs to no returned call.
LEMMA CancelKeeps ==
  ASSUME IInv, NEW c \in Calls, Cancel(c)
  PROVE  IInv'
<1>1. Typing'
  BY SandboxAssumption DEF Cancel, Goto, IInv, Typing, TypeOK, Alive
<1>2. ASSUME NEW d \in Calls PROVE CallInv(d)'
  BY DEF Cancel, Goto, IInv, Typing, TypeOK, Alive, CallInv, PairInv, RemovalInv, ResultInv
<1>3. QED BY <1>1, <1>2 DEF IInv

\* Programs, docker clients and the daemon keep it (Environment).
LEMMA EnvironmentKeeps ==
  ASSUME IInv, NEW c \in Calls, Environment(c)
  PROVE  IInv'
<1>1. CASE LocalEnds(c)
  BY <1>1 DEF LocalEnds, IInv, Typing, TypeOK, Outcome, Alive,
     CallInv, PairInv, RemovalInv, ResultInv
<1>2. CASE Create(c)
  BY <1>2 DEF Create, IInv, Typing, TypeOK, Outcome, Alive,
     CallInv, PairInv, RemovalInv, ResultInv
<1>3. CASE Start(c)
  BY <1>3 DEF Start, IInv, Typing, TypeOK, Outcome, Alive,
     CallInv, PairInv, RemovalInv, ResultInv
<1>4. CASE ContainerEnds(c)
  BY <1>4 DEF ContainerEnds, IInv, Typing, TypeOK, Outcome, Alive,
     CallInv, PairInv, RemovalInv, ResultInv
<1>5. CASE ClientFails(c)
  BY <1>5 DEF ClientFails, IInv, Typing, TypeOK, Outcome, Alive,
     CallInv, PairInv, RemovalInv, ResultInv
<1>6. QED BY <1>1, <1>2, <1>3, <1>4, <1>5 DEF Environment

\* The invariant is inductive.
LEMMA NextIInv == IInv /\ [Next]_vars => IInv'
<1>1. ASSUME IInv, UNCHANGED vars PROVE IInv'
  BY <1>1 DEF vars, world, IInv, Typing, TypeOK, CallInv, PairInv, RemovalInv, ResultInv
<1>2. QED BY <1>1, HandleKeeps, CancelKeeps, EnvironmentKeeps DEF Next

LEMMA SpecIInv == Spec => []IInv
BY InitIInv, NextIInv, PTL DEF Spec

-----------------------------------------------------------------------------
\* The variables of the sandbox keep their types.
THEOREM TypeCorrect == Spec => []TypeOK
<1>1. IInv => TypeOK BY DEF IInv, Typing
<1>2. QED BY <1>1, SpecIInv, PTL

\* A call that reports success ran a good program to its end, and its
\* container is gone (_communicate).
THEOREM SuccessRan == Spec => []OkMeansRan
<1>1. IInv => OkMeansRan
  BY DEF IInv, CallInv, PairInv, ResultInv, OkMeansRan
<1>2. QED BY <1>1, SpecIInv, PTL

\* A call that has returned leaves no process, and no container but one that
\* was created after its removal (force_remove).
THEOREM ReturnedLeavesNothing == Spec => []NothingLeft
<1>1. IInv => NothingLeft
  BY DEF IInv, Typing, TypeOK, Outcome, Alive, CallInv, PairInv, RemovalInv, NothingLeft
<1>2. QED BY <1>1, SpecIInv, PTL
=============================================================================
