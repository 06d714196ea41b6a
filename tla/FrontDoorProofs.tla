-------------------------- MODULE FrontDoorProofs ---------------------------
(***************************************************************************)
(* Proofs about module FrontDoor, for every finite set of requests, any    *)
(* replicas and all limits, windows and lifetimes that its assumption      *)
(* allows: its types, NeverShort, FreshAnswer and LimitKept.  That nobody  *)
(* is refused too early rests on counters that are never ahead of the      *)
(* requests that were counted; that no readiness answer is older than      *)
(* allowed rests on what the cache and the probes under way may be wrong   *)
(* about; that the limit is kept rests on counters that are never behind   *)
(* what they admitted while they are sure to live.                         *)
(***************************************************************************)
EXTENDS FrontDoor, FunctionTheorems, FiniteSetTheorems, TLAPS

USE FrontDoorAssumption

\* The types of one request and of one cache, and that both are functions.
RequestOK(r) ==
  \/ req[r] = New
  \/ req[r] \in Counting \union Decided \union Probing
  \/ \E up \in BOOLEAN : req[r] = Answered(up)

Typing ==
  /\ TypeOK
  /\ req = [r \in Requests |-> req[r]]
  /\ cache = [p \in Replicas |-> cache[p]]

\* What the place of a request says about its record.
LEMMA Places ==
  ASSUME NEW r, RequestOK(r)
  PROVE  /\ req[r].at \in {"redis", "expire", "local"} => req[r] \in Counting
         /\ req[r].at \in {"asking", "seen"} => req[r] \in Probing
         /\ req[r].at \in {"admitted", "refused"} => req[r] \in Decided
         /\ req[r].at \in {"new", "redis", "expire", "local", "lost", "asking", "seen",
                          "admitted", "refused", "answered"}
<1>1. CASE req[r] = New
  BY <1>1 DEF New
<1>2. CASE req[r] \in Counting
  <2>1. req[r].at \in {"redis", "expire", "local", "lost"}
    BY <1>2 DEF Counting
  <2> QED BY <1>2, <2>1
<1>3. CASE req[r] \in Decided
  <2>1. req[r].at \in {"admitted", "refused"}
    BY <1>3 DEF Decided
  <2> QED BY <1>3, <2>1
<1>4. CASE req[r] \in Probing
  <2>1. req[r].at \in {"asking", "seen", "lost"}
    BY <1>4 DEF Probing
  <2> QED BY <1>4, <2>1
<1>5. CASE \E up \in BOOLEAN : req[r] = Answered(up)
  <2>1. req[r].at = "answered"
    BY <1>5 DEF Answered
  <2> QED BY <2>1
<1> QED BY <1>1, <1>2, <1>3, <1>4, <1>5 DEF RequestOK

\* A time that has been reached falls into one of the windows.
LEMMA WindowExists ==
  ASSUME NEW time \in 0 .. MaxClock
  PROVE  WindowOf(time) \in Windows
<1>1. time \div Window <= MaxClock \div Window
  BY Z3
<1>2. time \div Window \in Nat /\ MaxClock \div Window \in Nat
  OBVIOUS
<1> QED BY <1>1, <1>2 DEF WindowOf, Windows

\* A step that moves one request to a record of its types keeps the types.
LEMMA OneMoves ==
  ASSUME Typing, NEW r \in Requests, NEW next, req' = [req EXCEPT ![r] = next],
         \/ next \in Counting \union Decided \union Probing
         \/ \E up \in BOOLEAN : next = Answered(up)
  PROVE  /\ \A s \in Requests : RequestOK(s)'
         /\ req' = [s \in Requests |-> req'[s]]
         /\ \A s \in Requests : s # r => req'[s] = req[s]
         /\ req'[r] = next
<1>1. /\ \A s \in Requests : s # r => req'[s] = req[s]
      /\ req'[r] = next /\ req' = [s \in Requests |-> req'[s]]
  BY DEF Typing
<1>2. \A s \in Requests : RequestOK(s)'
  BY <1>1 DEF Typing, TypeOK, RequestOK
<1> QED BY <1>1, <1>2

-----------------------------------------------------------------------------
(* The invariants.                                                         *)

\* The requests of window w that Redis may have counted, and those that replica
\* p did.
Counted(w) == {r \in Of(w) : req[r].at # "redis"}
Alone(p, w) == {r \in Of(w) : req[r].at \in {"admitted", "refused"} /\ req[r].by = p}

\* No counter is ahead of the requests, and a refusal had its reason.
CountInv ==
  \A w \in Windows :
    /\ redis[w] <= Cardinality(Counted(w))
    /\ \A p \in Replicas : local[p][w] <= Cardinality(Alone(p, w))
    /\ \A r \in Of(w) : req[r].at = "refused" => Cardinality(Of(w) \ {r}) >= Limit

\* A probe lasts no longer than its timeout, and may only be wrong about a
\* provider that turned since it began.
ProbeInv(r) ==
  /\ req[r].at \in {"asking", "seen"} =>
       req[r].since <= clock /\ clock <= req[r].since + MaxProbe
  /\ req[r].at = "seen" /\ req[r].up # provider => turned >= req[r].since

\* A cached answer may only be wrong about one that turned since, or during the
\* probe.
CacheInv(p) ==
  cache[p] # NoProbe /\ cache[p].up # provider => turned + MaxProbe >= cache[p].at

FreshInv == /\ \A r \in Requests : ProbeInv(r)
            /\ \A p \in Replicas : CacheInv(p)

IInv == Typing /\ CountInv /\ FreshInv

-----------------------------------------------------------------------------
(* The types.                                                              *)

LEMMA InitTyping == Init => Typing
<1> SUFFICES ASSUME Init PROVE Typing
  OBVIOUS
<1>1. \A r \in Requests : RequestOK(r)
  BY DEF Init, RequestOK
<1>2. /\ clock \in 0 .. MaxClock /\ restarts \in 0 .. MaxRestarts
      /\ provider \in BOOLEAN /\ turned \in 0 .. clock /\ turns \in 0 .. MaxTurns
  BY DEF Init
<1>3. /\ redis \in [Windows -> Nat] /\ expiry \in [Windows -> Nat]
      /\ local \in [Replicas -> [Windows -> Nat]]
  BY DEF Init, Forever
<1>4. /\ \A p \in Replicas : cache[p] = NoProbe
      /\ req = [r \in Requests |-> req[r]] /\ cache = [p \in Replicas |-> cache[p]]
  BY DEF Init
<1> QED BY <1>1, <1>2, <1>3, <1>4 DEF Typing, TypeOK, RequestOK

\* A step of the limiter or of a probe keeps the types: it leaves the world alone.
LEMMA ServedTypes ==
  ASSUME Typing, UNCHANGED <<clock, restarts, provider, turned, turns>>,
         req' = [r \in Requests |-> req'[r]],
         \A r \in Requests : RequestOK(r)',
         redis' \in [Windows -> Nat], expiry' \in [Windows -> Nat],
         local' \in [Replicas -> [Windows -> Nat]],
         cache' = [p \in Replicas |-> cache'[p]],
         \A p \in Replicas :
           cache'[p] = NoProbe \/ cache'[p] \in [at : 0 .. clock, up : BOOLEAN]
  PROVE  Typing'
BY DEF Typing, TypeOK, RequestOK

-----------------------------------------------------------------------------
(* Counting.                                                               *)

\* Sets of requests are finite.
LEMMA Finite ==
  ASSUME NEW S, S \subseteq Requests
  PROVE  IsFiniteSet(S) /\ Cardinality(S) \in Nat
BY FS_Subset, FS_CardinalityType

\* A larger set of requests has no fewer elements.
LEMMA Larger ==
  ASSUME NEW S, NEW T, S \subseteq T, T \subseteq Requests
  PROVE  Cardinality(S) <= Cardinality(T)
BY Finite, FS_Subset

\* One with a new element has more.
LEMMA OneMore ==
  ASSUME NEW S, NEW T, NEW x, S \subseteq T, T \subseteq Requests, x \in T, x \notin S
  PROVE  Cardinality(S) + 1 <= Cardinality(T)
<1>1. Cardinality(S \union {x}) = Cardinality(S) + 1
  BY Finite, FS_AddElement
<1>2. S \union {x} \subseteq T
  OBVIOUS
<1> QED BY <1>1, <1>2, Larger, Finite

\* No step takes a request out of its window, uncounts it or revokes a decision.
Forward(s) ==
  req[s] \in Counting \union Decided =>
    /\ req'[s] \in Counting \union Decided /\ req'[s].window = req[s].window
    /\ req[s].at # "redis" => req'[s].at # "redis"
    /\ req[s].at \in {"admitted", "refused"} => req'[s] = req[s]

\* The sets that are counted only grow.
LEMMA Grows ==
  ASSUME \A s \in Requests : Forward(s), NEW w
  PROVE  /\ Of(w) \subseteq Of(w)' /\ Of(w)' \subseteq Requests
         /\ Counted(w) \subseteq Counted(w)' /\ Counted(w)' \subseteq Of(w)'
         /\ \A p : Alone(p, w) \subseteq Alone(p, w)' /\ Alone(p, w)' \subseteq Of(w)'
BY DEF Forward, Of, Counted, Alone

\* A request that is refused already was so with a reason that still holds.
LEMMA StillRefused ==
  ASSUME IInv, \A s \in Requests : Forward(s),
         NEW w \in Windows, NEW r \in Of(w), req[r].at = "refused"
  PROVE  Cardinality(Of(w)' \ {r}) >= Limit
<1>1. Cardinality(Of(w) \ {r}) >= Limit
  BY DEF IInv, CountInv
<1>2. Of(w) \ {r} \subseteq Of(w)' \ {r} /\ Of(w)' \ {r} \subseteq Requests
  BY Grows
<1>3. Cardinality(Of(w) \ {r}) \in Nat /\ Cardinality(Of(w)' \ {r}) \in Nat
      /\ Cardinality(Of(w) \ {r}) <= Cardinality(Of(w)' \ {r})
  BY <1>2, Finite, Larger
<1> QED BY <1>1, <1>3

\* A step that raises no counter and refuses nobody keeps the counters right.
LEMMA CountKept ==
  ASSUME IInv, \A s \in Requests : Forward(s),
         \A w \in Windows : redis'[w] \in Nat /\ redis'[w] <= redis[w],
         \A p \in Replicas, w \in Windows :
           local'[p][w] \in Nat /\ local'[p][w] <= local[p][w],
         \A s \in Requests : req'[s].at = "refused" =>
                             req[s].at = "refused" /\ req'[s] = req[s]
  PROVE  CountInv'
<1> SUFFICES ASSUME NEW w \in Windows
             PROVE  /\ redis'[w] <= Cardinality(Counted(w)')
                    /\ \A p \in Replicas : local'[p][w] <= Cardinality(Alone(p, w)')
                    /\ \A r \in Of(w)' : req'[r].at = "refused" =>
                         Cardinality(Of(w)' \ {r}) >= Limit
  BY DEF CountInv, Windows
<1>1. redis'[w] <= Cardinality(Counted(w)')
  <2>1. /\ Cardinality(Counted(w)) <= Cardinality(Counted(w)')
        /\ Cardinality(Counted(w)) \in Nat /\ Cardinality(Counted(w)') \in Nat
    BY Grows, Larger, Finite
  <2>2. redis[w] <= Cardinality(Counted(w)) /\ redis[w] \in Nat
    BY DEF IInv, CountInv, Typing, TypeOK
  <2> QED BY <2>1, <2>2
<1>2. ASSUME NEW p \in Replicas PROVE local'[p][w] <= Cardinality(Alone(p, w)')
  <2>1. /\ Cardinality(Alone(p, w)) <= Cardinality(Alone(p, w)')
        /\ Cardinality(Alone(p, w)) \in Nat /\ Cardinality(Alone(p, w)') \in Nat
    BY Grows, Larger, Finite
  <2>2. local[p][w] <= Cardinality(Alone(p, w)) /\ local[p][w] \in Nat
    BY DEF IInv, CountInv, Typing, TypeOK
  <2> QED BY <2>1, <2>2
<1>3. ASSUME NEW r \in Of(w)', req'[r].at = "refused"
      PROVE  Cardinality(Of(w)' \ {r}) >= Limit
  <2>1. r \in Requests /\ req[r].at = "refused" /\ req'[r] = req[r] /\ r \in Of(w)
    BY <1>3 DEF Of
  <2> QED BY <2>1, StillRefused
<1> QED BY <1>1, <1>2, <1>3

-----------------------------------------------------------------------------
(* The limiter.                                                            *)

\* What a request that is being counted becomes: it waits for EXPIRE or for the
\* local counter, or is decided.
Waiting(r, at) == [at |-> at, rep |-> req[r].rep, window |-> req[r].window]
Verdict(r, count, by, late) ==
  [at |-> IF count <= Limit THEN "admitted" ELSE "refused",
   window |-> req[r].window, by |-> by, late |-> late]

LEMMA MoveFacts ==
  ASSUME Typing, NEW r \in Requests, req[r] \in Counting, NEW at \in {"expire", "local"},
         Move(r, at)
  PROVE  req' = [req EXCEPT ![r] = Waiting(r, at)] /\ Waiting(r, at) \in Counting
<1>1. req[r] = [at |-> req[r].at, rep |-> req[r].rep, window |-> req[r].window]
      /\ req[r].rep \in Replicas /\ req[r].window \in Windows
  BY DEF Counting
<1>2. [req[r] EXCEPT !.at = at] = Waiting(r, at)
  BY <1>1 DEF Waiting
<1>3. Waiting(r, at) \in Counting
  BY <1>1 DEF Waiting, Counting
<1>4. req' = [req EXCEPT ![r] = [req[r] EXCEPT !.at = at]]
  BY DEF Move
<1> QED BY <1>2, <1>3, <1>4

LEMMA DecideFacts ==
  ASSUME Typing, NEW r \in Requests, req[r] \in Counting, NEW count,
         NEW by \in Replicas \union {"redis"}, Decide(r, count, by)
  PROVE  \E late \in BOOLEAN : /\ req' = [req EXCEPT ![r] = Verdict(r, count, by, late)]
                              /\ Verdict(r, count, by, late) \in Decided
<1> DEFINE late == clock >= Start(req[r].window) + KeyLife
<1>1. late \in BOOLEAN
  OBVIOUS
<1>2. req' = [req EXCEPT ![r] = Verdict(r, count, by, late)]
  BY DEF Decide, Verdict, Typing
<1>3. req[r].window \in Windows
  BY DEF Counting
<1>4. \A l \in BOOLEAN : Verdict(r, count, by, l) \in Decided
  BY <1>3 DEF Verdict, Decided
<1> HIDE DEF late
<1> QED BY <1>1, <1>2, <1>4

\* A request that is counted moves on: types, windows and probes are kept.
LEMMA LimiterMoves ==
  ASSUME IInv, NEW r \in Requests, req[r].at \in {"redis", "expire", "local"},
         NEW next \in Counting \union Decided, req' = [req EXCEPT ![r] = next],
         next.window = req[r].window, next.at \notin {"redis", "asking", "seen"},
         UNCHANGED <<clock, restarts, probing>>,
         redis' \in [Windows -> Nat], expiry' \in [Windows -> Nat],
         local' \in [Replicas -> [Windows -> Nat]]
  PROVE  /\ Typing' /\ FreshInv'
         /\ \A s \in Requests : Forward(s)
         /\ \A s \in Requests : s # r => req'[s] = req[s]
         /\ req'[r] = next /\ req[r] \in Counting
         /\ req[r].window \in Windows /\ req[r].rep \in Replicas
<1>1. Typing /\ RequestOK(r)
  BY DEF IInv, Typing, TypeOK, RequestOK
<1>2. /\ \A s \in Requests : RequestOK(s)'
      /\ req' = [s \in Requests |-> req'[s]]
      /\ \A s \in Requests : s # r => req'[s] = req[s]
      /\ req'[r] = next
  BY <1>1, OneMoves
<1>3. req[r] \in Counting
  BY <1>1, Places
<1>4. req[r].window \in Windows /\ req[r].rep \in Replicas
  BY <1>3 DEF Counting
<1>5. UNCHANGED <<clock, restarts, provider, turned, turns, cache>>
  BY DEF probing
<1>6. Typing'
  BY <1>1, <1>2, <1>5, ServedTypes DEF Typing, TypeOK
<1>7. FreshInv'
  BY <1>2, <1>5 DEF IInv, FreshInv, ProbeInv, CacheInv
<1>8. \A s \in Requests : Forward(s)
  BY <1>2 DEF Forward
<1> QED BY <1>2, <1>3, <1>4, <1>6, <1>7, <1>8

\* Redis counts a request: it was not counted before.
LEMMA RedisCounts ==
  ASSUME IInv, NEW r \in Requests, req[r].at = "redis", req[r] \in Counting,
         NEW next \in Counting \union Decided,
         next.window = req[r].window, next.at # "redis",
         req'[r] = next, \A s \in Requests : Forward(s),
         \A s \in Requests : s # r => req'[s] = req[s],
         Increment(req[r].window), UNCHANGED local,
         next.at = "refused" => Found(req[r].window) >= Limit
  PROVE  CountInv'
<1> DEFINE v == req[r].window
<1>1. v \in Windows /\ r \in Of(v) /\ r \notin Counted(v)
      /\ \A w : w = v => r \in Of(w)' /\ r \in Counted(w)'
  BY DEF Counting, Of, Counted
<1>2. /\ redis[v] \in Nat /\ Found(v) \in Nat /\ Found(v) <= redis[v]
      /\ redis' = [redis EXCEPT ![v] = Found(v) + 1] /\ redis \in [Windows -> Nat]
  BY <1>1 DEF IInv, Typing, TypeOK, Found, Increment
<1> SUFFICES ASSUME NEW w \in Windows
             PROVE  /\ redis'[w] <= Cardinality(Counted(w)')
                    /\ \A p \in Replicas : local'[p][w] <= Cardinality(Alone(p, w)')
                    /\ \A s \in Of(w)' : req'[s].at = "refused" =>
                         Cardinality(Of(w)' \ {s}) >= Limit
  BY DEF CountInv, Windows
<1>3. /\ Counted(w) \subseteq Counted(w)' /\ Counted(w)' \subseteq Of(w)'
      /\ Of(w)' \subseteq Requests /\ Counted(w)' \subseteq Requests
  BY Grows
<1>4. /\ Cardinality(Counted(w)) \in Nat /\ Cardinality(Counted(w)') \in Nat
      /\ Cardinality(Counted(w)) <= Cardinality(Counted(w)')
      /\ redis[w] <= Cardinality(Counted(w)) /\ redis[w] \in Nat
  BY <1>3, Finite, Larger DEF IInv, CountInv, Typing, TypeOK
<1>5. redis'[w] <= Cardinality(Counted(w)')
  <2>1. CASE w = v
    <3>1. Cardinality(Counted(w)) + 1 <= Cardinality(Counted(w)')
      BY <2>1, <1>1, <1>3, OneMore
    <3>2. redis'[w] = Found(v) + 1
      BY <2>1, <1>2
    <3> QED BY <2>1, <3>1, <3>2, <1>2, <1>4
  <2>2. CASE w # v
    <3>1. redis'[w] = redis[w]
      BY <2>2, <1>2
    <3> QED BY <3>1, <1>4
  <2> QED BY <2>1, <2>2
<1>6. ASSUME NEW p \in Replicas PROVE local'[p][w] <= Cardinality(Alone(p, w)')
  <2>1. /\ Cardinality(Alone(p, w)) <= Cardinality(Alone(p, w)')
        /\ Cardinality(Alone(p, w)) \in Nat /\ Cardinality(Alone(p, w)') \in Nat
    BY Grows, Larger, Finite
  <2>2. local[p][w] <= Cardinality(Alone(p, w)) /\ local[p][w] \in Nat
    BY DEF IInv, CountInv, Typing, TypeOK
  <2> QED BY <2>1, <2>2
<1>7. ASSUME NEW s \in Of(w)', req'[s].at = "refused"
      PROVE  Cardinality(Of(w)' \ {s}) >= Limit
  <2>1. CASE s # r
    <3>1. s \in Of(w) /\ req[s].at = "refused"
      BY <1>7, <2>1 DEF Of
    <3> QED BY <3>1, StillRefused
  <2>2. CASE s = r
    <3>1. w = v /\ Found(v) >= Limit
      BY <1>7, <2>2 DEF Of
    <3>2. Counted(w) \subseteq Of(w)' \ {r} /\ Of(w)' \ {r} \subseteq Requests
      BY <3>1, <1>1, <1>3
    <3>3. Cardinality(Counted(w)) <= Cardinality(Of(w)' \ {r})
          /\ Cardinality(Of(w)' \ {r}) \in Nat
      BY <3>2, Larger, Finite
    <3>4. Limit <= Cardinality(Counted(w))
      BY <3>1, <1>2, <1>4
    <3> QED BY <2>2, <3>3, <3>4, <1>4
  <2> QED BY <2>1, <2>2
<1> QED BY <1>5, <1>6, <1>7

\* A replica counts a request on its own, and may forget older windows.
LEMMA ReplicaCounts ==
  ASSUME IInv, NEW r \in Requests, req[r].at = "local", req[r] \in Counting,
         NEW next \in Decided, next.window = req[r].window, next.by = req[r].rep,
         req'[r] = next, \A s \in Requests : Forward(s),
         \A s \in Requests : s # r => req'[s] = req[s],
         local' \in [Replicas -> [Windows -> Nat]],
         \A q \in Replicas, w \in Windows :
           \/ local'[q][w] <= local[q][w]
           \/ q = req[r].rep /\ w = req[r].window /\ local'[q][w] = local[q][w] + 1,
         UNCHANGED redis,
         next.at = "refused" => local[req[r].rep][req[r].window] >= Limit
  PROVE  CountInv'
<1>1. /\ req[r].window \in Windows /\ req[r].rep \in Replicas
      /\ r \in Of(req[r].window) /\ r \notin Alone(req[r].rep, req[r].window)
      /\ \A q, w : q = req[r].rep /\ w = req[r].window =>
           r \in Of(w)' /\ r \in Alone(q, w)'
  <2>1. next.at \in {"admitted", "refused"}
    BY DEF Decided
  <2> QED BY <2>1 DEF Counting, Of, Alone
<1> SUFFICES ASSUME NEW w \in Windows
             PROVE  /\ redis'[w] <= Cardinality(Counted(w)')
                    /\ \A p \in Replicas : local'[p][w] <= Cardinality(Alone(p, w)')
                    /\ \A s \in Of(w)' : req'[s].at = "refused" =>
                         Cardinality(Of(w)' \ {s}) >= Limit
  BY DEF CountInv, Windows
<1>2. /\ Of(w)' \subseteq Requests /\ Counted(w)' \subseteq Requests
      /\ \A p : Alone(p, w) \subseteq Alone(p, w)' /\ Alone(p, w)' \subseteq Of(w)'
  BY Grows
<1>3. redis'[w] <= Cardinality(Counted(w)')
  <2>1. /\ Cardinality(Counted(w)) <= Cardinality(Counted(w)')
        /\ Cardinality(Counted(w)) \in Nat /\ Cardinality(Counted(w)') \in Nat
    BY Grows, Larger, Finite
  <2>2. redis[w] <= Cardinality(Counted(w)) /\ redis[w] \in Nat
    BY DEF IInv, CountInv, Typing, TypeOK
  <2> QED BY <2>1, <2>2
<1>4. ASSUME NEW p \in Replicas
      PROVE  /\ Cardinality(Alone(p, w)) \in Nat /\ Cardinality(Alone(p, w)') \in Nat
             /\ Cardinality(Alone(p, w)) <= Cardinality(Alone(p, w)')
             /\ local[p][w] <= Cardinality(Alone(p, w)) /\ local[p][w] \in Nat
             /\ local'[p][w] \in Nat
  <2>1. Alone(p, w) \subseteq Alone(p, w)' /\ Alone(p, w)' \subseteq Requests
    BY <1>2
  <2>2. /\ Cardinality(Alone(p, w)) \in Nat /\ Cardinality(Alone(p, w)') \in Nat
        /\ Cardinality(Alone(p, w)) <= Cardinality(Alone(p, w)')
    BY <2>1, Finite, Larger
  <2>3. local[p][w] <= Cardinality(Alone(p, w)) /\ local[p][w] \in Nat
    BY DEF IInv, CountInv, Typing, TypeOK
  <2>4. local'[p][w] \in Nat
    OBVIOUS
  <2> QED BY <2>2, <2>3, <2>4
<1>5. ASSUME NEW p \in Replicas PROVE local'[p][w] <= Cardinality(Alone(p, w)')
  <2>1. CASE local'[p][w] <= local[p][w]
    BY <2>1, <1>4
  <2>2. CASE p = req[r].rep /\ w = req[r].window /\ local'[p][w] = local[p][w] + 1
    <3>1. r \in Alone(p, w)' /\ r \notin Alone(p, w)
      BY <2>2, <1>1
    <3>2. Cardinality(Alone(p, w)) + 1 <= Cardinality(Alone(p, w)')
      BY <3>1, <1>2, OneMore
    <3> QED BY <2>2, <3>2, <1>4
  <2> QED BY <2>1, <2>2
<1>6. ASSUME NEW s \in Of(w)', req'[s].at = "refused"
      PROVE  Cardinality(Of(w)' \ {s}) >= Limit
  <2>1. CASE s # r
    <3>1. s \in Of(w) /\ req[s].at = "refused"
      BY <1>6, <2>1 DEF Of
    <3> QED BY <3>1, StillRefused
  <2>2. CASE s = r
    <3> DEFINE p == req[r].rep
    <3>1. w = req[r].window /\ local[p][w] >= Limit /\ p \in Replicas
      BY <1>1, <1>6, <2>2 DEF Of
    <3>2. Alone(p, w) \subseteq Of(w)' \ {r} /\ Of(w)' \ {r} \subseteq Requests
      BY <3>1, <1>1, <1>2
    <3>3. Cardinality(Alone(p, w)) <= Cardinality(Of(w)' \ {r})
          /\ Cardinality(Of(w)' \ {r}) \in Nat
      BY <3>2, Larger, Finite
    <3>4. Limit <= Cardinality(Alone(p, w)) /\ Cardinality(Alone(p, w)) \in Nat
      BY <3>1, <1>4
    <3> QED BY <2>2, <3>3, <3>4
  <2> QED BY <2>1, <2>2
<1> QED BY <1>3, <1>5, <1>6

\* Incrementing keeps the counters of Redis numbers.
LEMMA IncrementTypes ==
  ASSUME Typing, NEW w \in Windows, Increment(w)
  PROVE  /\ redis' \in [Windows -> Nat] /\ expiry' \in [Windows -> Nat]
         /\ redis'[w] = Found(w) + 1 /\ Found(w) \in Nat
<1>1. redis \in [Windows -> Nat] /\ expiry \in [Windows -> Nat] /\ Forever \in Nat
  BY DEF Typing, TypeOK, Forever
<1>2. Found(w) \in Nat
  BY <1>1 DEF Found
<1> QED BY <1>1, <1>2 DEF Increment

\* A step of the limiter for one request keeps the invariant.
LEMMA LimitingKeeps ==
  ASSUME IInv, NEW r \in Requests, Limiting(r)
  PROVE  IInv'
<1>1. Typing /\ RequestOK(r)
      /\ redis \in [Windows -> Nat] /\ expiry \in [Windows -> Nat]
      /\ local \in [Replicas -> [Windows -> Nat]] /\ clock \in Nat
  BY DEF IInv, Typing, TypeOK, RequestOK
<1>2. req[r].at \in {"redis", "expire", "local"}
  BY DEF Limiting, Incr, IncrFails, Expire, ExpireFails, CountLocally
<1>3. req[r] \in Counting /\ req[r].window \in Windows /\ req[r].rep \in Replicas
  <2>1. req[r] \in Counting
    BY <1>1, <1>2, Places
  <2> QED BY <2>1 DEF Counting
<1>4. CASE Incr(r)
  <2>1. /\ req[r].at = "redis" /\ Increment(req[r].window)
        /\ UNCHANGED <<clock, local, restarts, probing>>
    BY <1>4 DEF Incr
  <2>2. /\ redis' \in [Windows -> Nat] /\ expiry' \in [Windows -> Nat]
        /\ redis'[req[r].window] = Found(req[r].window) + 1 /\ Found(req[r].window) \in Nat
    BY <1>1, <1>3, <2>1, IncrementTypes
  <2>3. PICK next \in Counting \union Decided :
          /\ req' = [req EXCEPT ![r] = next] /\ next.window = req[r].window
          /\ next.at \in {"expire", "admitted", "refused"}
          /\ next.at = "refused" => Found(req[r].window) >= Limit
    <3>1. CASE redis'[req[r].window] = 1
      <4>1. Move(r, "expire")
        BY <1>4, <3>1 DEF Incr
      <4>2. req' = [req EXCEPT ![r] = Waiting(r, "expire")]
            /\ Waiting(r, "expire") \in Counting
        BY <4>1, <1>1, <1>3, MoveFacts
      <4>3. Waiting(r, "expire").window = req[r].window /\ Waiting(r, "expire").at = "expire"
        BY DEF Waiting
      <4> QED BY <4>2, <4>3
    <3>2. CASE redis'[req[r].window] # 1
      <4> DEFINE count == redis'[req[r].window]
      <4>1. Decide(r, count, "redis")
        BY <1>4, <3>2 DEF Incr
      <4> HIDE DEF count
      <4>2. PICK late \in BOOLEAN :
              /\ req' = [req EXCEPT ![r] = Verdict(r, count, "redis", late)]
              /\ Verdict(r, count, "redis", late) \in Decided
        BY <4>1, <1>1, <1>3, DecideFacts
      <4>3. /\ Verdict(r, count, "redis", late).window = req[r].window
            /\ Verdict(r, count, "redis", late).at \in {"admitted", "refused"}
            /\ Verdict(r, count, "redis", late).at = "refused" => ~(count <= Limit)
        BY DEF Verdict
      <4>4. ~(count <= Limit) => Found(req[r].window) >= Limit
        BY <2>2 DEF count
      <4> QED BY <4>2, <4>3, <4>4
    <3> QED BY <3>1, <3>2
  <2>4. next.at \notin {"redis", "asking", "seen"}
    BY <2>3
  <2>5. /\ Typing' /\ FreshInv' /\ \A s \in Requests : Forward(s)
        /\ \A s \in Requests : s # r => req'[s] = req[s]
        /\ req'[r] = next
    BY <1>1, <2>1, <2>2, <2>3, <2>4, LimiterMoves
  <2>6. CountInv'
    BY <1>3, <2>1, <2>3, <2>4, <2>5, RedisCounts
  <2> QED BY <2>5, <2>6 DEF IInv
<1>5. CASE IncrFails(r)
  <2>1. /\ req[r].at = "redis" /\ Move(r, "local")
        /\ UNCHANGED <<clock, local, restarts, probing>>
        /\ UNCHANGED <<redis, expiry>> \/ Increment(req[r].window)
    BY <1>5 DEF IncrFails
  <2>2. redis' \in [Windows -> Nat] /\ expiry' \in [Windows -> Nat]
    BY <1>1, <1>3, <2>1, IncrementTypes
  <2>3. /\ req' = [req EXCEPT ![r] = Waiting(r, "local")]
        /\ Waiting(r, "local") \in Counting \union Decided
        /\ Waiting(r, "local").at = "local" /\ Waiting(r, "local").window = req[r].window
    BY <1>1, <1>3, <2>1, MoveFacts DEF Waiting
  <2>4. /\ Typing' /\ FreshInv' /\ \A s \in Requests : Forward(s)
        /\ \A s \in Requests : s # r => req'[s] = req[s]
        /\ req'[r] = Waiting(r, "local")
    BY <1>1, <1>2, <2>1, <2>2, <2>3, LimiterMoves
  <2>5. CASE UNCHANGED <<redis, expiry>>
    <3>1. CountInv'
      BY <1>1, <2>1, <2>3, <2>4, <2>5, CountKept
    <3> QED BY <2>4, <3>1 DEF IInv
  <2>6. CASE Increment(req[r].window)
    <3>1. CountInv'
      BY <1>3, <2>1, <2>3, <2>4, <2>6, RedisCounts
    <3> QED BY <2>4, <3>1 DEF IInv
  <2> QED BY <2>1, <2>5, <2>6
<1>6. CASE Expire(r)
  <2>1. /\ req[r].at = "expire" /\ Decide(r, 1, "redis")
        /\ expiry' = [expiry EXCEPT ![req[r].window] = clock + KeyLife]
        /\ UNCHANGED <<clock, redis, local, restarts, probing>>
    BY <1>6 DEF Expire
  <2>2. redis' \in [Windows -> Nat] /\ expiry' \in [Windows -> Nat]
    BY <1>1, <1>3, <2>1
  <2>3. PICK late \in BOOLEAN :
          /\ req' = [req EXCEPT ![r] = Verdict(r, 1, "redis", late)]
          /\ Verdict(r, 1, "redis", late) \in Decided
    BY <1>1, <1>3, <2>1, DecideFacts
  <2>4. /\ Verdict(r, 1, "redis", late).at = "admitted"
        /\ Verdict(r, 1, "redis", late).window = req[r].window
    BY DEF Verdict
  <2>5. /\ Typing' /\ FreshInv' /\ \A s \in Requests : Forward(s)
        /\ \A s \in Requests : s # r => req'[s] = req[s]
        /\ req'[r] = Verdict(r, 1, "redis", late)
    BY <1>1, <1>2, <2>1, <2>2, <2>3, <2>4, LimiterMoves
  <2>6. CountInv'
    BY <1>1, <2>1, <2>4, <2>5, CountKept
  <2> QED BY <2>5, <2>6 DEF IInv
<1>7. CASE ExpireFails(r)
  <2>1. /\ req[r].at = "expire" /\ Move(r, "local")
        /\ UNCHANGED <<clock, redis, local, restarts, probing>>
        /\ \/ UNCHANGED expiry
           \/ expiry' = [expiry EXCEPT ![req[r].window] = clock + KeyLife]
    BY <1>7 DEF ExpireFails
  <2>2. redis' \in [Windows -> Nat] /\ expiry' \in [Windows -> Nat]
    BY <1>1, <1>3, <2>1
  <2>3. /\ req' = [req EXCEPT ![r] = Waiting(r, "local")]
        /\ Waiting(r, "local") \in Counting \union Decided
        /\ Waiting(r, "local").at = "local" /\ Waiting(r, "local").window = req[r].window
    BY <1>1, <1>3, <2>1, MoveFacts DEF Waiting
  <2>4. /\ Typing' /\ FreshInv' /\ \A s \in Requests : Forward(s)
        /\ \A s \in Requests : s # r => req'[s] = req[s]
        /\ req'[r] = Waiting(r, "local")
    BY <1>1, <1>2, <2>1, <2>2, <2>3, LimiterMoves
  <2>5. CountInv'
    BY <1>1, <2>1, <2>3, <2>4, CountKept
  <2> QED BY <2>4, <2>5 DEF IInv
<1>8. ASSUME NEW crowded \in BOOLEAN, CountLocally(r, crowded) PROVE IInv'
  <2> DEFINE w == req[r].window
             p == req[r].rep
             count == local[p][w] + 1
             counted == [v \in Windows |->
               IF v = w THEN count ELSE IF crowded /\ v + 1 < w THEN 0 ELSE local[p][v]]
  <2>1. /\ req[r].at = "local" /\ Decide(r, count, p)
        /\ local' = [local EXCEPT ![p] = counted]
        /\ UNCHANGED <<clock, redis, expiry, restarts, probing>>
    BY <1>8, <1>1, <1>3 DEF CountLocally
  <2>2. counted \in [Windows -> Nat] /\ count \in Nat
    BY <1>1, <1>3
  <2>3. \A v \in Windows : counted[v] <= local[p][v] \/ (v = w /\ counted[v] = local[p][v] + 1)
    BY <1>1, <1>3
  <2>4. count > Limit => local[p][w] >= Limit
    BY <1>1, <1>3
  <2> HIDE DEF count, counted
  <2>5. /\ local' \in [Replicas -> [Windows -> Nat]]
        /\ \A q \in Replicas, v \in Windows :
             \/ local'[q][v] <= local[q][v]
             \/ q = p /\ v = w /\ local'[q][v] = local[q][v] + 1
    BY <1>1, <1>3, <2>1, <2>2, <2>3
  <2>6. PICK late \in BOOLEAN : /\ req' = [req EXCEPT ![r] = Verdict(r, count, p, late)]
                              /\ Verdict(r, count, p, late) \in Decided
    BY <1>1, <1>3, <2>1, DecideFacts
  <2>7. /\ Verdict(r, count, p, late).at \in {"admitted", "refused"}
        /\ Verdict(r, count, p, late).window = w /\ Verdict(r, count, p, late).by = p
        /\ Verdict(r, count, p, late).at = "refused" => ~(count <= Limit)
    BY DEF Verdict
  <2>8. /\ Typing' /\ FreshInv' /\ \A s \in Requests : Forward(s)
        /\ \A s \in Requests : s # r => req'[s] = req[s]
        /\ req'[r] = Verdict(r, count, p, late)
    BY <1>1, <1>2, <2>1, <2>5, <2>6, <2>7, LimiterMoves
  <2>9. CountInv'
    BY <1>3, <2>1, <2>2, <2>4, <2>5, <2>6, <2>7, <2>8, ReplicaCounts
  <2> QED BY <2>8, <2>9 DEF IInv
<1> QED BY <1>4, <1>5, <1>6, <1>7, <1>8 DEF Limiting

-----------------------------------------------------------------------------
(* Readiness and the world.                                                *)

LEMMA AtTells ==
  ASSUME NEW x
  PROVE  /\ x \in Counting \union Decided =>
              x.at \in {"redis", "expire", "local", "lost", "admitted", "refused"}
         /\ x \in Probing => x.at \in {"asking", "seen", "lost"}
<1>1. x \in Counting => x.at \in {"redis", "expire", "local", "lost"}
  BY DEF Counting
<1>2. x \in Decided => x.at \in {"admitted", "refused"}
  BY DEF Decided
<1>3. x \in Probing => x.at \in {"asking", "seen", "lost"}
  BY DEF Probing
<1> QED BY <1>1, <1>2, <1>3

\* A request that arrives, or a readiness request that goes on, is not counted.
LEMMA UncountedMoves ==
  ASSUME IInv, NEW r \in Requests, req[r].at \in {"new", "asking", "seen"},
         NEW next, req' = [req EXCEPT ![r] = next],
         \/ next \in Counting \union Decided \union Probing
         \/ \E up \in BOOLEAN : next = Answered(up),
         next.at # "refused",
         UNCHANGED <<clock, limiter, restarts, provider, turned, turns>>,
         cache' = [p \in Replicas |-> cache'[p]],
         \A p \in Replicas :
           cache'[p] = NoProbe \/ cache'[p] \in [at : 0 .. clock, up : BOOLEAN]
  PROVE  /\ Typing' /\ CountInv'
         /\ \A s \in Requests : s # r => req'[s] = req[s]
         /\ req'[r] = next
<1>1. Typing /\ redis \in [Windows -> Nat] /\ expiry \in [Windows -> Nat]
      /\ local \in [Replicas -> [Windows -> Nat]]
  BY DEF IInv, Typing, TypeOK
<1>2. /\ \A s \in Requests : RequestOK(s)'
      /\ req' = [s \in Requests |-> req'[s]]
      /\ \A s \in Requests : s # r => req'[s] = req[s]
      /\ req'[r] = next
  BY <1>1, OneMoves
<1>3. Typing'
  BY <1>1, <1>2, ServedTypes DEF limiter
<1>4. \A s \in Requests : Forward(s)
  <2>1. req[r] \notin Counting \union Decided
    BY AtTells
  <2> QED BY <1>2, <2>1 DEF Forward
<1>5. CountInv'
  BY <1>1, <1>2, <1>4, CountKept DEF limiter
<1> QED BY <1>2, <1>3, <1>5

\* What is known of the clock, the provider and the caches.
LEMMA WorldFacts ==
  ASSUME IInv
  PROVE  /\ Typing /\ clock \in Nat /\ clock \in 0 .. MaxClock /\ turned \in Nat
         /\ turned <= clock /\ provider \in BOOLEAN
         /\ cache = [p \in Replicas |-> cache[p]]
         /\ \A p \in Replicas :
              /\ cache[p] = NoProbe \/ cache[p] \in [at : 0 .. clock, up : BOOLEAN]
              /\ CacheInv(p)
         /\ \A r \in Requests : RequestOK(r) /\ ProbeInv(r)
BY DEF IInv, Typing, TypeOK, FreshInv, RequestOK

\* A limited request arrives.
LEMMA LimitedKeeps ==
  ASSUME IInv, NEW r \in Requests, NEW p \in Replicas, Limited(r, p)
  PROVE  IInv'
<1> DEFINE next == [at |-> "redis", rep |-> p, window |-> WindowOf(clock)]
<1>1. /\ req[r].at = "new" /\ req' = [req EXCEPT ![r] = next]
      /\ UNCHANGED <<clock, limiter, restarts, provider, turned, turns, cache>>
  BY DEF Limited, probing
<1>2. next \in Counting /\ next.at = "redis"
  BY WorldFacts, WindowExists DEF Counting
<1> HIDE DEF next
<1>3. /\ Typing' /\ CountInv' /\ req'[r] = next
      /\ \A s \in Requests : s # r => req'[s] = req[s]
  BY <1>1, <1>2, WorldFacts, UncountedMoves
<1>4. FreshInv'
  BY <1>1, <1>2, <1>3, WorldFacts DEF FreshInv, ProbeInv, CacheInv
<1> QED BY <1>3, <1>4 DEF IInv

\* A readiness request arrives.
LEMMA AskKeeps ==
  ASSUME IInv, NEW r \in Requests, NEW p \in Replicas, Ask(r, p)
  PROVE  IInv'
<1>1. /\ req[r].at = "new"
      /\ UNCHANGED <<clock, limiter, restarts, provider, turned, turns, cache>>
  BY DEF Ask, probing
<1>2. CASE Cached(p) /\ req' = [req EXCEPT ![r] = Answered(cache[p].up)]
  <2>1. cache[p].up \in BOOLEAN
    BY <1>2, WorldFacts DEF Cached
  <2> DEFINE next == Answered(cache[p].up)
  <2>2. next.at = "answered" /\ \E up \in BOOLEAN : next = Answered(up)
    BY <2>1 DEF Answered
  <2> HIDE DEF next
  <2>3. /\ Typing' /\ CountInv' /\ req'[r] = next
        /\ \A s \in Requests : s # r => req'[s] = req[s]
    BY <1>1, <1>2, <2>2, WorldFacts, UncountedMoves DEF next
  <2>4. FreshInv'
    BY <1>1, <2>2, <2>3, WorldFacts DEF FreshInv, ProbeInv, CacheInv
  <2> QED BY <2>3, <2>4 DEF IInv
<1>3. CASE ~Cached(p) /\ req' = [req EXCEPT ![r] = Asking(p)]
  <2>1. Asking(p) \in Probing /\ Asking(p).at = "asking" /\ Asking(p).since = clock
    BY WorldFacts DEF Asking, Probing
  <2>2. /\ Typing' /\ CountInv' /\ req'[r] = Asking(p)
        /\ \A s \in Requests : s # r => req'[s] = req[s]
    BY <1>1, <1>3, <2>1, WorldFacts, UncountedMoves
  <2>3. FreshInv'
    BY <1>1, <2>1, <2>2, WorldFacts DEF FreshInv, ProbeInv, CacheInv
  <2> QED BY <2>2, <2>3 DEF IInv
<1> QED BY <1>2, <1>3 DEF Ask

\* The record of a probe under way.
LEMMA ProbeRecord ==
  ASSUME IInv, NEW r \in Requests, req[r].at \in {"asking", "seen"}
  PROVE  /\ req[r] = [at |-> req[r].at, rep |-> req[r].rep, since |-> req[r].since,
                     up |-> req[r].up]
         /\ req[r].rep \in Replicas /\ req[r].since \in 0 .. MaxClock
         /\ req[r].up \in BOOLEAN
<1>1. req[r] \in Probing
  BY WorldFacts, Places
<1> QED BY <1>1 DEF Probing

\* What a probe under way may be wrong about.
LEMMA ProbeFacts ==
  ASSUME IInv, NEW r \in Requests, req[r].at \in {"asking", "seen"}
  PROVE  /\ req[r].since \in Nat /\ req[r].since <= clock
         /\ clock <= req[r].since + MaxProbe
         /\ req[r].at = "seen" /\ req[r].up # provider => turned >= req[r].since
<1>1. req[r].since \in Nat
  <2>1. req[r].since \in 0 .. MaxClock
    BY ProbeRecord
  <2> HIDE FrontDoorAssumption
  <2> QED BY <2>1
<1>2. ProbeInv(r)
  BY DEF IInv, FreshInv
<1> QED BY <1>1, <1>2 DEF ProbeInv

\* The provider answers a probe, or does not.
LEMMA AnswerKeeps ==
  ASSUME IInv, NEW r \in Requests, Answer(r)
  PROVE  IInv'
<1> DEFINE next == [at |-> "seen", rep |-> req[r].rep, since |-> req[r].since,
                    up |-> provider]
<1>1. /\ req[r].at = "asking"
      /\ UNCHANGED <<clock, limiter, restarts, provider, turned, turns, cache>>
  BY DEF Answer, probing
<1>2. req' = [req EXCEPT ![r] = next]
  <2>1. [[req[r] EXCEPT !.at = "seen"] EXCEPT !.up = provider] = next
    <3> DEFINE up == req[r].up
               seen == [at |-> "seen", rep |-> req[r].rep, since |-> req[r].since, up |-> up]
    <3>1. req[r] = [at |-> req[r].at, rep |-> req[r].rep, since |-> req[r].since, up |-> up]
      BY <1>1, ProbeRecord
    <3> HIDE DEF up
    <3>2. [req[r] EXCEPT !.at = "seen"] = seen
      BY <3>1
    <3>3. [seen EXCEPT !.up = provider] = next
      OBVIOUS
    <3> QED BY <3>2, <3>3
  <2>2. req' = [req EXCEPT ![r] = [[req[r] EXCEPT !.at = "seen"] EXCEPT !.up = provider]]
    BY WorldFacts DEF Answer, Typing
  <2> QED BY <2>1, <2>2
<1>3. /\ next \in Probing /\ next.at = "seen" /\ next.since = req[r].since
      /\ next.up = provider
  BY <1>1, WorldFacts, ProbeRecord DEF Probing
<1> HIDE DEF next
<1>4. /\ Typing' /\ CountInv' /\ req'[r] = next
      /\ \A s \in Requests : s # r => req'[s] = req[s]
  BY <1>1, <1>2, <1>3, WorldFacts, UncountedMoves
<1>5. FreshInv'
  BY <1>1, <1>3, <1>4, WorldFacts DEF FreshInv, ProbeInv, CacheInv
<1> QED BY <1>4, <1>5 DEF IInv

\* A probe ends and fills the cache.
LEMMA FillKeeps ==
  ASSUME IInv, NEW r \in Requests, Fill(r)
  PROVE  IInv'
<1> DEFINE next == Answered(req[r].up)
           entry == [at |-> clock, up |-> req[r].up]
<1>1. /\ req[r].at = "seen" /\ req' = [req EXCEPT ![r] = next]
      /\ cache' = [cache EXCEPT ![req[r].rep] = entry]
      /\ UNCHANGED <<clock, limiter, restarts, provider, turned, turns>>
  BY DEF Fill
<1>2. /\ next.at = "answered" /\ \E up \in BOOLEAN : next = Answered(up)
      /\ entry \in [at : 0 .. clock, up : BOOLEAN]
      /\ entry.at = clock /\ entry.up = req[r].up
      /\ req[r].rep \in Replicas
  <2>1. req[r].up \in BOOLEAN /\ req[r].rep \in Replicas /\ clock \in Nat
    BY <1>1, ProbeRecord, WorldFacts
  <2>2. next.at = "answered" /\ \E up \in BOOLEAN : next = Answered(up)
    BY <2>1 DEF Answered
  <2>3. /\ entry \in [at : 0 .. clock, up : BOOLEAN]
        /\ entry.at = clock /\ entry.up = req[r].up
    BY <2>1
  <2> QED BY <2>1, <2>2, <2>3
<1> HIDE DEF next, entry
<1>3. /\ cache' = [p \in Replicas |-> cache'[p]]
      /\ \A p \in Replicas : cache'[p] = IF p = req[r].rep THEN entry ELSE cache[p]
  BY <1>1, <1>2, WorldFacts
<1>4. /\ Typing' /\ CountInv' /\ req'[r] = next
      /\ \A s \in Requests : s # r => req'[s] = req[s]
  BY <1>1, <1>2, <1>3, WorldFacts, UncountedMoves
<1>5. \A s \in Requests : ProbeInv(s)'
  BY <1>1, <1>2, <1>4, WorldFacts DEF ProbeInv
<1>6. \A p \in Replicas : CacheInv(p)'
  <2>1. req[r].up # provider => turned >= req[r].since
    BY <1>1, ProbeFacts
  <2>2. clock <= req[r].since + MaxProbe /\ req[r].since \in Nat
    BY <1>1, ProbeFacts
  <2>3. req[r].up # provider => turned + MaxProbe >= clock
    BY <2>1, <2>2, WorldFacts
  <2> QED BY <1>1, <1>2, <1>3, <2>3, WorldFacts DEF CacheInv
<1> QED BY <1>4, <1>5, <1>6 DEF IInv, FreshInv

\* Time passes.
LEMMA TickKeeps ==
  ASSUME IInv, Tick
  PROVE  IInv'
<1>1. /\ clock < MaxClock /\ clock' = clock + 1
      /\ \A r \in Requests : req[r].at \in {"asking", "seen"} =>
                              clock < req[r].since + MaxProbe
      /\ UNCHANGED <<req, redis, expiry, local, restarts, provider, turned, turns, cache>>
  BY DEF Tick, limiter, probing
<1>2. clock' \in 0 .. MaxClock /\ turned' \in 0 .. clock' /\ 0 .. clock \subseteq 0 .. clock'
  BY <1>1, WorldFacts
<1>3. \A p \in Replicas :
        cache'[p] = NoProbe \/ cache'[p] \in [at : 0 .. clock', up : BOOLEAN]
  BY <1>1, <1>2, WorldFacts
<1>4. Typing'
  BY <1>1, <1>2, <1>3 DEF IInv, Typing, TypeOK
<1>5. CountInv'
  <2>1. \A s \in Requests : Forward(s)
    BY <1>1 DEF Forward
  <2> QED BY <1>1, <2>1, CountKept DEF IInv, Typing, TypeOK
<1>6. \A r \in Requests : ProbeInv(r)'
  <2> SUFFICES ASSUME NEW r \in Requests PROVE ProbeInv(r)'
    OBVIOUS
  <2>1. req[r].at \in {"asking", "seen"} => /\ req[r].since <= clock + 1
                                          /\ clock + 1 <= req[r].since + MaxProbe
    <3> SUFFICES ASSUME req[r].at \in {"asking", "seen"}
                 PROVE  req[r].since <= clock + 1 /\ clock + 1 <= req[r].since + MaxProbe
      OBVIOUS
    <3>1. clock < req[r].since + MaxProbe
      BY <1>1
    <3>2. req[r].since <= clock /\ req[r].since \in Nat /\ clock \in Nat
      BY ProbeFacts, WorldFacts
    <3> QED BY <3>1, <3>2
  <2> QED BY <1>1, <2>1, WorldFacts DEF ProbeInv
<1>7. \A p \in Replicas : CacheInv(p)'
  BY <1>1, WorldFacts DEF CacheInv
<1> QED BY <1>4, <1>5, <1>6, <1>7 DEF IInv, FreshInv

\* The provider goes down or comes back.
LEMMA TurnKeeps ==
  ASSUME IInv, Turn
  PROVE  IInv'
<1>1. /\ turns < MaxTurns /\ turns' = turns + 1 /\ turned' = clock /\ provider' = ~provider
      /\ UNCHANGED <<clock, req, redis, expiry, local, restarts, cache>>
  BY DEF Turn, limiter
<1>2. turned' \in 0 .. clock' /\ turns' \in 0 .. MaxTurns
  BY <1>1, WorldFacts DEF IInv, Typing, TypeOK
<1>3. provider' \in BOOLEAN
  BY <1>1
<1>4. Typing'
  BY <1>1, <1>2, <1>3 DEF IInv, Typing, TypeOK
<1>5. CountInv'
  <2>1. \A s \in Requests : Forward(s)
    BY <1>1 DEF Forward
  <2> QED BY <1>1, <2>1, CountKept DEF IInv, Typing, TypeOK
<1>6. \A r \in Requests : ProbeInv(r)'
  BY <1>1, WorldFacts DEF ProbeInv
<1>7. \A p \in Replicas : CacheInv(p)'
  <2>1. \A p \in Replicas : cache[p] # NoProbe => cache[p].at <= clock /\ cache[p].at \in Nat
    BY WorldFacts
  <2> QED BY <1>1, <2>1, WorldFacts DEF CacheInv
<1> QED BY <1>4, <1>5, <1>6, <1>7 DEF IInv, FreshInv

\* A replica is restarted.
LEMMA RestartKeeps ==
  ASSUME IInv, NEW p \in Replicas, Restart(p)
  PROVE  IInv'
<1>1. /\ restarts < MaxRestarts /\ restarts' = restarts + 1
      /\ local' = [local EXCEPT ![p] = [w \in Windows |-> 0]]
      /\ cache' = [cache EXCEPT ![p] = NoProbe]
      /\ req' = [r \in Requests |->
           IF Serving(r) /\ req[r].rep = p THEN [req[r] EXCEPT !.at = "lost"] ELSE req[r]]
      /\ UNCHANGED <<clock, redis, expiry, provider, turned, turns>>
  BY DEF Restart
<1>2. /\ redis \in [Windows -> Nat] /\ expiry \in [Windows -> Nat]
      /\ local \in [Replicas -> [Windows -> Nat]] /\ restarts \in 0 .. MaxRestarts
      /\ clock \in 0 .. MaxClock /\ turned \in 0 .. clock /\ turns \in 0 .. MaxTurns
      /\ provider \in BOOLEAN
  BY DEF IInv, Typing, TypeOK
<1>3. ASSUME NEW r \in Requests
      PROVE  /\ RequestOK(r)' /\ Forward(r)
             /\ req'[r].at \in {"asking", "seen", "refused"} => req'[r] = req[r]
  <2>1. CASE req'[r] = req[r]
    <3>1. RequestOK(r)'
      BY <2>1, WorldFacts DEF RequestOK
    <3> QED BY <2>1, <3>1 DEF Forward
  <2>2. CASE Serving(r) /\ req'[r] = [req[r] EXCEPT !.at = "lost"]
    <3>1. RequestOK(r) /\ req[r].at \in {"redis", "expire", "local", "asking", "seen"}
      BY <2>2, WorldFacts DEF Serving
    <3>2. CASE req[r] \in Counting
      <4>1. /\ req'[r] \in Counting /\ req'[r].window = req[r].window
            /\ req'[r].at = "lost"
        BY <2>2, <3>2 DEF Counting
      <4> QED BY <3>1, <4>1 DEF RequestOK, Forward
    <3>3. CASE req[r] \in Probing
      <4>1. req'[r] \in Probing /\ req'[r].at = "lost"
        BY <2>2, <3>3 DEF Probing
      <4>2. CASE req[r] \in Counting \union Decided
        <5>1. req[r] \in Counting
          BY <3>1, <3>3, <4>2, Places, AtTells
        <5> QED BY <5>1, <3>2
      <4>3. CASE req[r] \notin Counting \union Decided
        BY <4>1, <4>3 DEF RequestOK, Forward
      <4> QED BY <4>2, <4>3
    <3> QED BY <3>1, <3>2, <3>3, Places
  <2> QED BY <1>1, <2>1, <2>2
<1>4. /\ local' \in [Replicas -> [Windows -> Nat]]
      /\ \A q \in Replicas, w \in Windows : local'[q][w] \in Nat /\ local'[q][w] <= local[q][w]
  BY <1>1, <1>2
<1>5. /\ cache' = [q \in Replicas |-> cache'[q]]
      /\ \A q \in Replicas : cache'[q] = NoProbe \/ cache'[q] = cache[q]
  BY <1>1, WorldFacts
<1>6. Typing'
  <2>1. /\ req' = [r \in Requests |-> req'[r]] /\ restarts' \in 0 .. MaxRestarts
        /\ redis' \in [Windows -> Nat] /\ expiry' \in [Windows -> Nat]
        /\ clock' \in 0 .. MaxClock /\ turned' \in 0 .. clock' /\ turns' \in 0 .. MaxTurns
        /\ provider' \in BOOLEAN
    BY <1>1, <1>2
  <2>2. \A q \in Replicas :
          cache'[q] = NoProbe \/ cache'[q] \in [at : 0 .. clock', up : BOOLEAN]
    BY <1>1, <1>5, WorldFacts
  <2> QED BY <1>3, <1>4, <1>5, <2>1, <2>2 DEF Typing, TypeOK, RequestOK
<1>7. CountInv'
  <2>1. \A w \in Windows : redis'[w] \in Nat /\ redis'[w] <= redis[w]
    BY <1>1, <1>2
  <2>2. \A r \in Requests : Forward(r)
    BY <1>3
  <2>3. \A r \in Requests : req'[r].at = "refused" => req[r].at = "refused" /\ req'[r] = req[r]
    BY <1>3
  <2> QED BY <1>4, <2>1, <2>2, <2>3, CountKept
<1>8. \A r \in Requests : ProbeInv(r)'
  BY <1>1, <1>3, WorldFacts DEF ProbeInv
<1>9. \A q \in Replicas : CacheInv(q)'
  BY <1>1, <1>5, WorldFacts DEF CacheInv
<1> QED BY <1>6, <1>7, <1>8, <1>9 DEF IInv, FreshInv

-----------------------------------------------------------------------------
(* The theorems.                                                           *)

\* Nothing is counted, asked or cached at first.
LEMMA InitIInv == Init => IInv
<1> SUFFICES ASSUME Init PROVE IInv
  OBVIOUS
<1>1. \A r \in Requests : req[r].at = "new"
  BY DEF Init, New
<1>2. CountInv
  <2> SUFFICES ASSUME NEW w \in Windows
               PROVE  /\ redis[w] <= Cardinality(Counted(w))
                      /\ \A p \in Replicas : local[p][w] <= Cardinality(Alone(p, w))
                      /\ \A r \in Of(w) : req[r].at = "refused" =>
                           Cardinality(Of(w) \ {r}) >= Limit
    BY DEF CountInv
  <2>1. /\ Cardinality(Counted(w)) \in Nat
        /\ \A p : Cardinality(Alone(p, w)) \in Nat
    BY Finite DEF Counted, Alone, Of
  <2>2. redis[w] = 0 /\ \A p \in Replicas : local[p][w] = 0
    BY DEF Init
  <2>3. \A r \in Of(w) : req[r].at # "refused"
    BY <1>1 DEF Of
  <2> QED BY <2>1, <2>2, <2>3
<1>3. FreshInv
  BY <1>1 DEF Init, FreshInv, ProbeInv, CacheInv
<1> QED BY <1>2, <1>3, InitTyping DEF IInv

\* A stuttering step changes nothing.
LEMMA StutterKeeps ==
  ASSUME IInv, UNCHANGED vars
  PROVE  IInv'
<1>1. UNCHANGED <<clock, req, redis, expiry, local, restarts, provider, turned, turns, cache>>
  BY DEF vars, limiter, probing
<1>2. Typing'
  BY <1>1 DEF IInv, Typing, TypeOK
<1>3. CountInv'
  <2>1. \A s \in Requests : Forward(s)
    BY <1>1 DEF Forward
  <2> QED BY <1>1, <2>1, CountKept DEF IInv, Typing, TypeOK
<1>4. FreshInv'
  BY <1>1 DEF IInv, FreshInv, ProbeInv, CacheInv
<1> QED BY <1>2, <1>3, <1>4 DEF IInv

\* IInv is an invariant of the specification.
THEOREM Inductive == Spec => []IInv
<1>1. IInv /\ [Next]_vars => IInv'
  BY LimitingKeeps, LimitedKeeps, AskKeeps, AnswerKeeps, FillKeeps, TickKeeps,
     TurnKeeps, RestartKeeps, StutterKeeps DEF Next
<1> QED BY <1>1, InitIInv, PTL DEF Spec

\* Types of the limiter and of the readiness probe.
THEOREM TypeCorrect == Spec => []TypeOK
<1>1. IInv => TypeOK
  BY DEF IInv, Typing
<1> QED BY <1>1, Inductive, PTL

\* Nobody is refused within the limit, although a request may be counted twice
\* (_check, _redis_check).
THEOREM NobodyShort == Spec => []NeverShort
<1>1. IInv => NeverShort
  BY DEF IInv, CountInv, NeverShort
<1> QED BY <1>1, Inductive, PTL

\* Only Ask and Fill answer a readiness request.
LEMMA NewAnswer ==
  ASSUME IInv, Next, NEW r \in Requests, req'[r].at = "answered", req[r].at # "answered"
  PROVE  (\E p \in Replicas : Ask(r, p)) \/ Fill(r)
<1>1. req = [s \in Requests |-> req[s]]
  BY DEF IInv, Typing
<1>2. ASSUME NEW s \in Requests, NEW at \in {"expire", "local"}, Move(s, at) PROVE FALSE
  BY <1>1, <1>2 DEF Move
<1>3. ASSUME NEW s \in Requests, NEW count, NEW by, Decide(s, count, by) PROVE FALSE
  BY <1>1, <1>3 DEF Decide
<1>4. ASSUME NEW s \in Requests, Limiting(s) PROVE FALSE
  BY <1>2, <1>3, <1>4 DEF Limiting, Incr, IncrFails, Expire, ExpireFails, CountLocally
<1>5. ASSUME NEW s \in Requests, NEW p \in Replicas, Limited(s, p) PROVE FALSE
  BY <1>1, <1>5 DEF Limited
<1>6. ASSUME NEW s \in Requests, Answer(s) PROVE FALSE
  BY <1>1, <1>6 DEF Answer
<1>7. ASSUME NEW s \in Requests, NEW p \in Replicas, Ask(s, p) PROVE s = r
  BY <1>1, <1>7 DEF Ask
<1>8. ASSUME NEW s \in Requests, Fill(s) PROVE s = r
  BY <1>1, <1>8 DEF Fill
<1>9. ASSUME NEW p \in Replicas, Restart(p) PROVE FALSE
  <2>1. CASE req'[r] = req[r]
    BY <2>1
  <2>2. CASE Serving(r) /\ req'[r] = [req[r] EXCEPT !.at = "lost"]
    <3>1. req[r] \in Counting \union Probing
      BY <2>2, WorldFacts, Places DEF Serving
    <3>2. req'[r].at = "lost"
      BY <2>2, <3>1 DEF Counting, Probing
    <3> QED BY <3>2
  <2> QED BY <1>9, <2>1, <2>2 DEF Restart
<1>10. ~Tick /\ ~Turn
  BY DEF Tick, Turn
<1> QED BY <1>4, <1>5, <1>6, <1>7, <1>8, <1>9, <1>10 DEF Next

\* A wrong readiness answer is about a provider that turned recently (probe).
THEOREM AnswersAreFresh == Spec => FreshAnswer
<1> DEFINE Excused == clock - turned <= MaxProbe \/ clock - turned < ProbeLife + MaxProbe
<1>1. ASSUME IInv, Next, NEW r \in Requests, req'[r].at = "answered",
             req[r].at # "answered", req'[r].up # provider
      PROVE  Excused
  <2>1. CASE \E p \in Replicas : Ask(r, p)
    <3>1. PICK p \in Replicas : Ask(r, p)
      BY <2>1
    <3>2. Cached(p) /\ req'[r] = Answered(cache[p].up)
      <4>1. Asking(p).at # "answered"
        BY DEF Asking
      <4> QED BY <1>1, <3>1, <4>1, WorldFacts DEF Ask, Typing
    <3>3. cache[p] # NoProbe /\ clock - cache[p].at < ProbeLife /\ cache[p].up # provider
      BY <1>1, <3>2 DEF Cached, Answered
    <3>4. turned + MaxProbe >= cache[p].at /\ cache[p].at \in Nat
      BY <1>1, <3>3, WorldFacts DEF CacheInv
    <3> QED BY <1>1, <3>3, <3>4, WorldFacts
  <2>2. CASE Fill(r)
    <3>1. req[r].at = "seen" /\ req'[r] = Answered(req[r].up)
      BY <1>1, <2>2, WorldFacts DEF Fill, Typing
    <3>2. req[r].up # provider
      BY <1>1, <3>1 DEF Answered
    <3>3. turned >= req[r].since /\ clock <= req[r].since + MaxProbe /\ req[r].since \in Nat
      BY <1>1, <3>1, <3>2, ProbeFacts
    <3> QED BY <1>1, <3>3, WorldFacts
  <2> QED BY <1>1, <2>1, <2>2, NewAnswer
<1>2. IInv /\ [Next]_vars =>
        [\A r \in Requests :
           req'[r].at = "answered" /\ req[r].at # "answered" /\ req'[r].up # provider
             => \/ clock - turned <= MaxProbe
                \/ clock - turned < ProbeLife + MaxProbe]_vars
  BY <1>1
<1> QED BY <1>2, Inductive, PTL DEF Spec, FreshAnswer

-----------------------------------------------------------------------------
(***************************************************************************)
(* The limit: LimitKept.  While its counter in Redis is sure to live, Redis *)
(* admits no more requests of a window than it counts.  A replica on its   *)
(* own admits no more than it has counted since it was started; what       *)
(* replicas admitted before they were restarted is the basis, to which     *)
(* each restart adds the limit at most.                                    *)
(***************************************************************************)

\* Does the counter of window w still live, if there is one?
InTime(w) == clock < Start(w) + KeyLife

\* The requests of window w that were admitted in time, by Redis and by replica p,
\* and those that Redis counted first.
Kept(w) == {r \in Of(w) : req[r].at = "admitted" /\ ~req[r].late}
ByRedis(w) == {r \in Kept(w) : req[r].by = "redis"}
ByReplica(p, w) == {r \in Kept(w) : req[r].by = p}
Expiring(w) == {r \in Of(w) : req[r].at = "expire"}

\* No request is counted before its window.
Begun == \A r \in Requests :
  req[r].at \in {"redis", "expire", "local"} => Start(req[r].window) <= clock

RedisInv ==
  \A w \in Windows :
    /\ expiry[w] >= Start(w) + KeyLife
    /\ Cardinality(ByRedis(w)) <= Limit
    /\ InTime(w) => /\ Cardinality(ByRedis(w) \union Expiring(w)) <= redis[w]
                    /\ Cardinality(ByRedis(w) \union Expiring(w)) <= Limit

IsBasis(base, w) ==
  /\ base \subseteq Kept(w) \ ByRedis(w)
  /\ Cardinality(base) <= Limit * restarts
  /\ \A p \in Replicas :
       /\ Cardinality(ByReplica(p, w) \ base) <= Limit
       /\ InTime(w) => Cardinality(ByReplica(p, w) \ base) <= local[p][w]

LocalInv == \A w \in Windows : \E base \in SUBSET Requests : IsBasis(base, w)

LimitInv == Begun /\ RedisInv /\ LocalInv

\* When a window starts, and that its counter is forgotten too late to matter.
LEMMA WindowStart ==
  ASSUME NEW w \in Windows
  PROVE  /\ w \in Nat /\ Start(w) \in Nat /\ Start(w) <= MaxClock
         /\ Start(w) + KeyLife <= Forever
<1> DEFINE last == MaxClock \div Window
<1>1. last \in Nat /\ Window * last <= MaxClock
  <2>1. last \in Nat
    OBVIOUS
  <2>2. MaxClock = Window * last + (MaxClock % Window) /\ MaxClock % Window \in 0 .. Window - 1
    BY Z3
  <2>3. Window * last \in Nat
    BY <2>1
  <2> HIDE DEF last
  <2> QED BY <2>1, <2>2, <2>3
<1> HIDE DEF last
<1>2. w \in Nat /\ w <= last
  BY <1>1 DEF Windows, last
<1>3. Window * w \in Nat /\ Window * w <= Window * last
  BY <1>1, <1>2, Z3
<1>4. Window * last \in Nat
  BY <1>1, Z3
<1> QED BY <1>1, <1>2, <1>3, <1>4 DEF Start, Forever

LEMMA WindowBegun ==
  ASSUME NEW time \in 0 .. MaxClock
  PROVE  Start(WindowOf(time)) <= time
<1> DEFINE w == time \div Window
<1>1. w \in Nat /\ time = Window * w + (time % Window) /\ time % Window \in 0 .. Window - 1
  BY Z3
<1>2. Window * w \in Nat
  BY <1>1, Z3
<1> HIDE DEF w
<1>3. Window * w <= time
  BY <1>1, <1>2
<1> QED BY <1>3 DEF Start, WindowOf, w

LEMMA OldWindow ==
  ASSUME NEW v \in Windows, NEW w \in Windows, v + 1 < w
  PROVE  Start(v) + KeyLife <= Start(w)
<1>1. v \in Nat /\ w \in Nat /\ v + 2 <= w
  BY WindowStart
<1>2. Window * (v + 2) <= Window * w
  BY <1>1, Z3
<1>3. Window * (v + 2) = Window * v + 2 * Window
  BY <1>1, Z3
<1>4. Window * v \in Nat /\ Window * w \in Nat
  BY <1>1, Z3
<1> QED BY <1>2, <1>3, <1>4 DEF Start

\* The sets are sets of requests.
LEMMA Sets ==
  ASSUME NEW w
  PROVE  /\ Kept(w) \subseteq Requests /\ ByRedis(w) \subseteq Kept(w)
         /\ Expiring(w) \subseteq Requests
         /\ \A p : ByReplica(p, w) \subseteq Kept(w)
         /\ \A p \in Replicas : ByReplica(p, w) \subseteq Kept(w) \ ByRedis(w)
BY DEF Kept, ByRedis, ByReplica, Expiring, Of

\* What a step may do to the requests that are not admitted.
Quiet(s) == \/ req'[s] = req[s]
            \/ req[s].at # "admitted" /\ req'[s].at \notin {"admitted", "expire"}

LEMMA QuietSets ==
  ASSUME \A s \in Requests : Quiet(s), NEW w
  PROVE  /\ Kept(w)' = Kept(w) /\ ByRedis(w)' = ByRedis(w)
         /\ Expiring(w)' \subseteq Expiring(w)
         /\ \A p : ByReplica(p, w)' = ByReplica(p, w)
<1>1. Kept(w)' = Kept(w)
  BY DEF Quiet, Kept, Of
<1>2. \A s \in Kept(w) : req'[s] = req[s]
  BY DEF Quiet, Kept, Of
<1>3. ByRedis(w)' = ByRedis(w)
  BY <1>1, <1>2 DEF ByRedis
<1>4. \A p : ByReplica(p, w)' = ByReplica(p, w)
  BY <1>1, <1>2 DEF ByReplica
<1>5. Expiring(w)' \subseteq Expiring(w)
  BY DEF Quiet, Expiring, Of
<1> QED BY <1>1, <1>3, <1>4, <1>5

\* The sets when one request that is being counted moves on.
LEMMA MoverSets ==
  ASSUME NEW r \in Requests, req[r] \in Counting, NEW next \in Counting \union Decided,
         next.window = req[r].window, req'[r] = next,
         \A s \in Requests : s # r => req'[s] = req[s], NEW w
  PROVE  /\ r \notin Kept(w) /\ Kept(w) = Kept(w)' \ {r}
         /\ ByRedis(w) = ByRedis(w)' \ {r}
         /\ \A p : ByReplica(p, w) = ByReplica(p, w)' \ {r}
         /\ Expiring(w) \ {r} = Expiring(w)' \ {r}
         /\ r \in Expiring(w) <=> w = req[r].window /\ req[r].at = "expire"
         /\ r \in Expiring(w)' <=> w = req[r].window /\ next.at = "expire"
         /\ r \in Kept(w)' <=> w = req[r].window /\ next.at = "admitted" /\ ~next.late
<1>1. req[r].at # "admitted"
  BY AtTells DEF Counting
<1>2. r \notin Kept(w) /\ Kept(w) = Kept(w)' \ {r}
  BY <1>1 DEF Kept, Of
<1>3. \A s \in Kept(w) : req'[s] = req[s]
  BY <1>2 DEF Kept, Of
<1>4. ByRedis(w) = ByRedis(w)' \ {r}
  BY <1>2, <1>3 DEF ByRedis
<1>5. \A p : ByReplica(p, w) = ByReplica(p, w)' \ {r}
  BY <1>2, <1>3 DEF ByReplica
<1>6. /\ Expiring(w) \ {r} = Expiring(w)' \ {r}
      /\ r \in Expiring(w) <=> w = req[r].window /\ req[r].at = "expire"
      /\ r \in Expiring(w)' <=> w = req[r].window /\ next.at = "expire"
  BY DEF Expiring, Of
<1>7. r \in Kept(w)' <=> w = req[r].window /\ next.at = "admitted" /\ ~next.late
  BY DEF Kept, Of
<1> QED BY <1>2, <1>4, <1>5, <1>6, <1>7

\* What the invariants say of the types.
LEMMA LimitTypes ==
  ASSUME IInv
  PROVE  /\ Typing /\ clock \in Nat /\ clock \in 0 .. MaxClock
         /\ redis \in [Windows -> Nat] /\ expiry \in [Windows -> Nat]
         /\ local \in [Replicas -> [Windows -> Nat]]
         /\ restarts \in Nat /\ Limit * restarts \in Nat
         /\ \A r \in Requests :
              /\ RequestOK(r)
              /\ req[r].at \in {"redis", "expire", "local"} =>
                   /\ req[r] \in Counting
                   /\ req[r].window \in Windows /\ req[r].rep \in Replicas
<1>1. /\ Typing /\ clock \in 0 .. MaxClock
      /\ redis \in [Windows -> Nat] /\ expiry \in [Windows -> Nat]
      /\ local \in [Replicas -> [Windows -> Nat]]
      /\ \A r \in Requests : RequestOK(r)
  BY DEF IInv, Typing, TypeOK, RequestOK
<1>2. restarts \in Nat
  BY DEF IInv, Typing, TypeOK
<1>3. Limit * restarts \in Nat
  BY <1>2
<1>4. \A r \in Requests : req[r].at \in {"redis", "expire", "local"} =>
        /\ req[r] \in Counting /\ req[r].window \in Windows /\ req[r].rep \in Replicas
  BY <1>1, Places DEF Counting
<1> QED BY <1>1, <1>2, <1>3, <1>4

\* While a window is in time Redis finds its counter, and always leaves it long
\* enough to live.
LEMMA IncrementFacts ==
  ASSUME IInv, RedisInv, NEW v \in Windows, Increment(v)
  PROVE  /\ InTime(v) => Found(v) = redis[v]
         /\ redis'[v] = Found(v) + 1 /\ Found(v) \in Nat
         /\ \A w \in Windows : w # v => redis'[w] = redis[w]
         /\ \A w \in Windows : expiry'[w] \in Nat /\ expiry'[w] >= Start(w) + KeyLife
<1>1. Found(v) \in Nat /\ redis'[v] = Found(v) + 1 /\ expiry' \in [Windows -> Nat]
  BY LimitTypes, IncrementTypes
<1>2. expiry[v] >= Start(v) + KeyLife /\ Start(v) \in Nat /\ expiry[v] \in Nat
  BY LimitTypes, WindowStart DEF RedisInv
<1>3. InTime(v) => Found(v) = redis[v]
  BY <1>2, LimitTypes DEF InTime, Found
<1>4. \A w \in Windows : w # v => redis'[w] = redis[w]
  BY LimitTypes DEF Increment
<1>5. ASSUME NEW w \in Windows PROVE expiry'[w] >= Start(w) + KeyLife
  <2>1. expiry'[w] = expiry[w] \/ expiry'[w] = Forever
    BY LimitTypes DEF Increment
  <2>2. expiry[w] >= Start(w) + KeyLife
    BY DEF RedisInv
  <2>3. expiry[w] \in Nat /\ Start(w) \in Nat /\ Start(w) + KeyLife <= Forever
    BY LimitTypes, WindowStart
  <2> QED BY <2>1, <2>2, <2>3
<1>6. \A w \in Windows : expiry'[w] \in Nat
  BY <1>1
<1> QED BY <1>1, <1>3, <1>4, <1>5, <1>6

\* A step that moves the window of no request that is being counted.
LEMMA BegunStays ==
  ASSUME IInv, Begun, clock' \in Nat, clock <= clock',
         \A s \in Requests : req'[s].at \in {"redis", "expire", "local"} =>
           /\ req[s].at \in {"redis", "expire", "local"}
           /\ req'[s].window = req[s].window
  PROVE  Begun'
<1> SUFFICES ASSUME NEW s \in Requests, req'[s].at \in {"redis", "expire", "local"}
             PROVE  Start(req'[s].window) <= clock'
  BY DEF Begun, Start
<1>1. req[s].at \in {"redis", "expire", "local"} /\ req'[s].window = req[s].window
  OBVIOUS
<1>2. Start(req[s].window) <= clock
  BY <1>1 DEF Begun
<1>3. req[s].window \in Windows
  BY <1>1, LimitTypes
<1>4. Start(req[s].window) \in Nat
  BY <1>3, WindowStart
<1> QED BY <1>1, <1>2, <1>4, LimitTypes

\* A step by which Redis admits no request it has not counted.
LEMMA RedisStays ==
  ASSUME IInv, RedisInv, clock' \in Nat, clock <= clock',
         \A w \in Windows :
           /\ redis'[w] \in Nat /\ (InTime(w) => redis[w] <= redis'[w])
           /\ expiry'[w] >= Start(w) + KeyLife
           /\ (ByRedis(w) \union Expiring(w))' \subseteq ByRedis(w) \union Expiring(w)
           /\ InTime(w) \/ ByRedis(w)' \subseteq ByRedis(w)
  PROVE  RedisInv'
<1> SUFFICES ASSUME NEW w \in Windows
             PROVE  /\ expiry'[w] >= Start(w) + KeyLife
                    /\ Cardinality(ByRedis(w)') <= Limit
                    /\ InTime(w)' =>
                         /\ Cardinality((ByRedis(w) \union Expiring(w))') <= redis'[w]
                         /\ Cardinality((ByRedis(w) \union Expiring(w))') <= Limit
  BY DEF RedisInv, Windows, Start
<1> DEFINE old == ByRedis(w) \union Expiring(w)
           new == ByRedis(w)' \union Expiring(w)'
<1>1. /\ ByRedis(w)' \subseteq Requests /\ Expiring(w)' \subseteq Requests
      /\ old \subseteq Requests /\ ByRedis(w) \subseteq Requests
  <2>1. ByRedis(w)' \subseteq Requests /\ Expiring(w)' \subseteq Requests
    BY DEF ByRedis, Expiring, Kept, Of
  <2>2. ByRedis(w) \subseteq Requests /\ Expiring(w) \subseteq Requests
    BY Sets
  <2> QED BY <2>1, <2>2
<1>2. InTime(w)' => InTime(w)
  <2>1. Start(w) + KeyLife \in Nat
    BY WindowStart
  <2>2. InTime(w)' <=> clock' < Start(w) + KeyLife
    BY DEF InTime, Start
  <2> QED BY <2>1, <2>2, LimitTypes DEF InTime
<1>3. /\ new \subseteq old /\ Cardinality(new) <= Cardinality(old)
      /\ Cardinality(new) \in Nat /\ Cardinality(old) \in Nat
  <2>1. new \subseteq old
    OBVIOUS
  <2> HIDE DEF new, old
  <2> QED BY <2>1, <1>1, Larger, Finite
<1>4. Cardinality(ByRedis(w)') \in Nat /\ Cardinality(ByRedis(w)) \in Nat
  BY <1>1, Finite
<1>5. CASE InTime(w)
  <2>1. Cardinality(old) <= redis[w] /\ Cardinality(old) <= Limit
    BY <1>5 DEF RedisInv
  <2>2. Cardinality(ByRedis(w)') <= Cardinality(new)
    <3>1. ByRedis(w)' \subseteq new /\ new \subseteq Requests
      BY <1>1
    <3> HIDE DEF new
    <3> QED BY <3>1, Larger
  <2>3. redis[w] \in Nat /\ redis[w] <= redis'[w]
    BY <1>5, LimitTypes
  <2> HIDE DEF old
  <2>4. Cardinality(new) <= redis'[w] /\ Cardinality(new) <= Limit
    <3> HIDE DEF new
    <3> QED BY <1>3, <2>1, <2>3
  <2>5. Cardinality(ByRedis(w)') <= Limit
    <3> HIDE DEF new
    <3> QED BY <1>3, <1>4, <2>1, <2>2
  <2> QED BY <2>4, <2>5
<1>6. CASE ~InTime(w)
  <2>1. Cardinality(ByRedis(w)') <= Cardinality(ByRedis(w))
    BY <1>1, <1>6, Larger
  <2>2. Cardinality(ByRedis(w)) <= Limit
    BY DEF RedisInv
  <2> QED BY <2>1, <2>2, <1>2, <1>4, <1>6
<1> QED BY <1>5, <1>6

\* A step by which no replica on its own admits or forgets anything.
LEMMA LocalStays ==
  ASSUME IInv, LocalInv, clock' \in Nat, clock <= clock', UNCHANGED <<local, restarts>>,
         \A w \in Windows :
           /\ Kept(w) \ ByRedis(w) \subseteq (Kept(w) \ ByRedis(w))'
           /\ \A p \in Replicas : ByReplica(p, w)' = ByReplica(p, w)
  PROVE  LocalInv'
<1> SUFFICES ASSUME NEW w \in Windows
             PROVE  \E base \in SUBSET Requests : IsBasis(base, w)'
  BY DEF LocalInv, Windows
<1>1. PICK base \in SUBSET Requests : IsBasis(base, w)
  BY DEF LocalInv
<1>2. InTime(w)' => InTime(w)
  <2>1. Start(w) + KeyLife \in Nat
    BY WindowStart
  <2>2. InTime(w)' <=> clock' < Start(w) + KeyLife
    BY DEF InTime, Start
  <2> QED BY <2>1, <2>2, LimitTypes DEF InTime
<1>3. IsBasis(base, w)'
  BY <1>1, <1>2 DEF IsBasis
<1> QED BY <1>3

\* A step that admits nobody and lowers no counter of a window in time.
LEMMA QuietStep ==
  ASSUME IInv, RedisInv, LocalInv, \A s \in Requests : Quiet(s),
         clock' \in Nat, clock <= clock', UNCHANGED <<local, restarts>>,
         \A w \in Windows : /\ redis'[w] \in Nat /\ (InTime(w) => redis[w] <= redis'[w])
                            /\ expiry'[w] >= Start(w) + KeyLife
  PROVE  RedisInv' /\ LocalInv'
<1>1. ASSUME NEW w \in Windows
      PROVE  /\ (ByRedis(w) \union Expiring(w))' \subseteq ByRedis(w) \union Expiring(w)
             /\ ByRedis(w)' \subseteq ByRedis(w)
             /\ Kept(w) \ ByRedis(w) \subseteq (Kept(w) \ ByRedis(w))'
             /\ \A p \in Replicas : ByReplica(p, w)' = ByReplica(p, w)
  BY QuietSets
<1>2. RedisInv'
  BY <1>1, RedisStays
<1>3. LocalInv'
  BY <1>1, LocalStays
<1> QED BY <1>2, <1>3

\* ... which touches no counter at all.
LEMMA UncountedStep ==
  ASSUME IInv, RedisInv, LocalInv, \A s \in Requests : Quiet(s),
         clock' \in Nat, clock <= clock', UNCHANGED <<redis, expiry, local, restarts>>
  PROVE  RedisInv' /\ LocalInv'
<1>1. \A w \in Windows : redis'[w] \in Nat /\ redis[w] <= redis'[w]
  BY LimitTypes
<1>2. \A w \in Windows : expiry'[w] >= Start(w) + KeyLife
  BY DEF RedisInv
<1> QED BY <1>1, <1>2, QuietStep

\* Requests that arrive and probes: nothing is counted.
LEMMA ProbingLimit ==
  ASSUME IInv, LimitInv, NEW r \in Requests,
         Answer(r) \/ Fill(r) \/ \E p \in Replicas : Limited(r, p) \/ Ask(r, p)
  PROVE  LimitInv'
<1>1. /\ UNCHANGED <<clock, redis, expiry, local, restarts>> /\ clock \in Nat
      /\ clock \in 0 .. MaxClock /\ Typing
  BY LimitTypes DEF Answer, Fill, Limited, Ask, limiter
<1>2. PICK next :
        /\ req' = [req EXCEPT ![r] = next] /\ req[r].at \in {"new", "asking", "seen"}
        /\ \/ next.at \in {"answered", "asking", "seen"}
           \/ next.at = "redis" /\ Start(next.window) <= clock
  <2>1. CASE Answer(r)
    <3> DEFINE next == [[req[r] EXCEPT !.at = "seen"] EXCEPT !.up = provider]
    <3>1. req' = [req EXCEPT ![r] = next] /\ req[r].at = "asking"
      BY <1>1, <2>1 DEF Answer, Typing
    <3>2. next.at = "seen"
      BY <3>1, ProbeRecord
    <3> QED BY <3>1, <3>2
  <2>2. CASE Fill(r)
    <3>1. Answered(req[r].up).at = "answered"
      BY DEF Answered
    <3> QED BY <2>2, <3>1 DEF Fill
  <2>3. ASSUME NEW p \in Replicas, Limited(r, p)
        PROVE  \E next :
                 /\ req' = [req EXCEPT ![r] = next] /\ req[r].at = "new"
                 /\ next.at = "redis" /\ Start(next.window) <= clock
    <3> DEFINE next == [at |-> "redis", rep |-> p, window |-> WindowOf(clock)]
    <3>1. req' = [req EXCEPT ![r] = next] /\ req[r].at = "new"
      BY <2>3 DEF Limited
    <3>2. next.at = "redis" /\ next.window = WindowOf(clock)
      OBVIOUS
    <3>3. Start(WindowOf(clock)) <= clock
      BY <1>1, WindowBegun
    <3> HIDE DEF next
    <3> QED BY <3>1, <3>2, <3>3
  <2>4. ASSUME NEW p \in Replicas, Ask(r, p)
        PROVE  \E next :
                 /\ req' = [req EXCEPT ![r] = next] /\ req[r].at = "new"
                 /\ next.at \in {"answered", "asking"}
    <3>1. \A up : Answered(up).at = "answered"
      BY DEF Answered
    <3>2. Asking(p).at = "asking"
      BY DEF Asking
    <3> QED BY <2>4, <3>1, <3>2 DEF Ask
  <2> QED BY <2>1, <2>2, <2>3, <2>4
<1>3. req'[r] = next /\ \A s \in Requests : s # r => req'[s] = req[s]
  BY <1>1, <1>2 DEF Typing
<1>4. \A s \in Requests : Quiet(s)
  BY <1>2, <1>3 DEF Quiet
<1>5. RedisInv' /\ LocalInv'
  BY <1>1, <1>4, UncountedStep DEF LimitInv
<1>6. Begun'
  <2> SUFFICES ASSUME NEW s \in Requests, req'[s].at \in {"redis", "expire", "local"}
               PROVE  Start(req'[s].window) <= clock
    BY <1>1 DEF Begun, Start
  <2>1. CASE s = r
    BY <1>2, <1>3, <2>1
  <2>2. CASE s # r
    BY <1>3, <2>2 DEF LimitInv, Begun
  <2> QED BY <2>1, <2>2
<1> QED BY <1>5, <1>6 DEF LimitInv

\* Time passes, the provider turns, or nothing happens.
LEMMA WorldLimit ==
  ASSUME IInv, LimitInv, Tick \/ Turn \/ UNCHANGED vars
  PROVE  LimitInv'
<1>1. /\ UNCHANGED <<req, redis, expiry, local, restarts>>
      /\ clock' = clock \/ clock' = clock + 1
  BY DEF Tick, Turn, vars, limiter
<1>2. clock' \in Nat /\ clock <= clock'
  BY <1>1, LimitTypes
<1>3. \A s \in Requests : Quiet(s)
  BY <1>1 DEF Quiet
<1>4. RedisInv' /\ LocalInv'
  BY <1>1, <1>2, <1>3, UncountedStep DEF LimitInv
<1>5. Begun'
  BY <1>1, <1>2, BegunStays DEF LimitInv
<1> QED BY <1>4, <1>5 DEF LimitInv

\* What is decided in time counts, what is decided late does not.
LEMMA DecidedInTime ==
  ASSUME Typing, NEW r \in Requests, req[r] \in Counting, NEW count,
         NEW by \in Replicas \union {"redis"}, Decide(r, count, by)
  PROVE  LET late == ~InTime(req[r].window) IN
           /\ Verdict(r, count, by, late) \in Decided
           /\ req'[r] = Verdict(r, count, by, late)
           /\ \A s \in Requests : s # r => req'[s] = req[s]
<1> DEFINE late == clock >= Start(req[r].window) + KeyLife
<1>1. req' = [req EXCEPT ![r] = Verdict(r, count, by, late)]
  BY DEF Decide, Verdict, Typing
<1>2. req[r].window \in Windows
  BY DEF Counting
<1>3. \A l \in BOOLEAN : Verdict(r, count, by, l) \in Decided
  BY <1>2 DEF Verdict, Decided
<1>4. late = ~InTime(req[r].window) /\ late \in BOOLEAN
  <2>1. clock \in Nat /\ Start(req[r].window) \in Nat
    BY <1>2, WindowStart DEF Typing, TypeOK
  <2> QED BY <2>1 DEF InTime
<1> HIDE DEF late
<1> QED BY <1>1, <1>3, <1>4 DEF Typing

\* A request that leaves Redis for the local counter.
LEMMA FailsLimit ==
  ASSUME IInv, LimitInv, NEW r \in Requests, IncrFails(r) \/ ExpireFails(r)
  PROVE  LimitInv'
<1>1. /\ req[r].at \in {"redis", "expire"} /\ Move(r, "local")
      /\ UNCHANGED <<clock, local, restarts>>
  BY DEF IncrFails, ExpireFails
<1>2. req[r] \in Counting /\ req[r].window \in Windows /\ Typing /\ clock \in Nat
  BY <1>1, LimitTypes
<1>3. /\ req'[r] = Waiting(r, "local") /\ req'[r].at = "local"
      /\ req'[r].window = req[r].window
      /\ \A s \in Requests : s # r => req'[s] = req[s]
  <2>1. req' = [req EXCEPT ![r] = Waiting(r, "local")]
    BY <1>1, <1>2, MoveFacts
  <2> QED BY <1>2, <2>1 DEF Typing, Waiting
<1>4. \A s \in Requests : Quiet(s)
  BY <1>1, <1>3 DEF Quiet
<1>5. \A w \in Windows :
        /\ redis'[w] \in Nat /\ (InTime(w) => redis[w] <= redis'[w])
        /\ expiry'[w] >= Start(w) + KeyLife
  <2>1. CASE UNCHANGED <<redis, expiry>>
    <3>1. \A w \in Windows : expiry[w] >= Start(w) + KeyLife
      BY DEF LimitInv, RedisInv
    <3> QED BY <2>1, <3>1, LimitTypes
  <2>2. CASE Increment(req[r].window)
    <3>1. \A w \in Windows : redis[w] \in Nat
      BY LimitTypes
    <3> QED BY <1>2, <2>2, <3>1, IncrementFacts DEF LimitInv
  <2>3. CASE redis' = redis /\ expiry' = [expiry EXCEPT ![req[r].window] = clock + KeyLife]
    <3>1. \A w \in Windows : expiry[w] >= Start(w) + KeyLife /\ expiry[w] \in Nat
      BY LimitTypes DEF LimitInv, RedisInv
    <3>2. clock >= Start(req[r].window) /\ Start(req[r].window) \in Nat
      BY <1>1, <1>2, WindowStart DEF LimitInv, Begun
    <3>3. ASSUME NEW w \in Windows
          PROVE  expiry'[w] = IF w = req[r].window THEN clock + KeyLife ELSE expiry[w]
      BY <1>2, <2>3, LimitTypes
    <3>4. \A w \in Windows : expiry'[w] >= Start(w) + KeyLife
      BY <1>2, <3>1, <3>2, <3>3
    <3> QED BY <2>3, <3>4, LimitTypes
  <2> QED BY <2>1, <2>2, <2>3 DEF IncrFails, ExpireFails
<1>6. RedisInv' /\ LocalInv'
  BY <1>1, <1>2, <1>4, <1>5, QuietStep DEF LimitInv
<1>7. Begun'
  <2>1. \A s \in Requests : req'[s].at \in {"redis", "expire", "local"} =>
          /\ req[s].at \in {"redis", "expire", "local"}
          /\ req'[s].window = req[s].window
    BY <1>1, <1>3
  <2> QED BY <1>1, <1>2, <2>1, BegunStays DEF LimitInv
<1> QED BY <1>6, <1>7 DEF LimitInv

\* The request that was counted first is admitted.
LEMMA ExpireLimit ==
  ASSUME IInv, LimitInv, NEW r \in Requests, Expire(r)
  PROVE  LimitInv'
<1> DEFINE v == req[r].window
<1>1. /\ req[r].at = "expire" /\ Decide(r, 1, "redis")
      /\ expiry' = [expiry EXCEPT ![v] = clock + KeyLife]
      /\ UNCHANGED <<clock, redis, local, restarts>>
  BY DEF Expire
<1>2. req[r] \in Counting /\ v \in Windows /\ Typing /\ clock \in Nat
  BY <1>1, LimitTypes
<1> DEFINE next == Verdict(r, 1, "redis", ~InTime(v))
<1>3. /\ req'[r] = next /\ next \in Decided
      /\ \A s \in Requests : s # r => req'[s] = req[s]
  BY <1>1, <1>2, DecidedInTime
<1>4. next.at = "admitted" /\ next.window = v /\ next.by = "redis" /\ next.late = ~InTime(v)
  BY DEF Verdict
<1> HIDE DEF next
<1>5. ASSUME NEW w
      PROVE  /\ r \notin Kept(w) /\ Kept(w) = Kept(w)' \ {r}
             /\ ByRedis(w) = ByRedis(w)' \ {r}
             /\ \A p : ByReplica(p, w) = ByReplica(p, w)' \ {r}
             /\ Expiring(w) \ {r} = Expiring(w)' \ {r}
             /\ r \in Expiring(w) <=> w = v
             /\ r \notin Expiring(w)'
             /\ r \in Kept(w)' <=> w = v /\ InTime(v)
  <2>1. /\ r \notin Kept(w) /\ Kept(w) = Kept(w)' \ {r}
        /\ ByRedis(w) = ByRedis(w)' \ {r}
        /\ \A p : ByReplica(p, w) = ByReplica(p, w)' \ {r}
        /\ Expiring(w) \ {r} = Expiring(w)' \ {r}
        /\ r \in Expiring(w) <=> w = v /\ req[r].at = "expire"
        /\ r \in Expiring(w)' <=> w = v /\ next.at = "expire"
        /\ r \in Kept(w)' <=> w = v /\ next.at = "admitted" /\ ~next.late
    BY <1>2, <1>3, <1>4, MoverSets
  <2>2. next.at # "expire" /\ (~next.late <=> InTime(v))
    BY <1>4
  <2> QED BY <1>1, <1>4, <2>1, <2>2
<1>6. ASSUME NEW w \in Windows
      PROVE  /\ (ByRedis(w) \union Expiring(w))' \subseteq ByRedis(w) \union Expiring(w)
             /\ InTime(w) \/ ByRedis(w)' \subseteq ByRedis(w)
             /\ Kept(w) \ ByRedis(w) \subseteq (Kept(w) \ ByRedis(w))'
             /\ \A p \in Replicas : ByReplica(p, w)' = ByReplica(p, w)
  <2>1. ByRedis(w)' \subseteq Kept(w)'
    BY DEF ByRedis
  <2>2. ByRedis(w)' \subseteq ByRedis(w) \union Expiring(w)
    BY <1>5, <2>1
  <2>3. InTime(w) \/ ByRedis(w)' \subseteq ByRedis(w)
    BY <1>5, <2>1
  <2>4. (ByRedis(w) \union Expiring(w))' \subseteq ByRedis(w) \union Expiring(w)
    BY <1>5, <2>2
  <2>5. Kept(w) \ ByRedis(w) \subseteq (Kept(w) \ ByRedis(w))'
    BY <1>5
  <2>6. ASSUME NEW p \in Replicas PROVE ByReplica(p, w)' = ByReplica(p, w)
    <3>1. r \notin ByReplica(p, w)'
      BY <1>3, <1>4 DEF ByReplica
    <3>2. ByReplica(p, w) = ByReplica(p, w)' \ {r}
      BY <1>5
    <3> QED BY <3>1, <3>2
  <2> QED BY <2>3, <2>4, <2>5, <2>6
<1>7. ASSUME NEW w \in Windows
      PROVE  expiry'[w] >= Start(w) + KeyLife /\ redis'[w] \in Nat /\ redis[w] <= redis'[w]
  <2>1. expiry[w] >= Start(w) + KeyLife
    BY DEF LimitInv, RedisInv
  <2>2. clock >= Start(v) /\ Start(v) \in Nat
    BY <1>1, <1>2, WindowStart DEF LimitInv, Begun
  <2>3. expiry'[w] = IF w = v THEN clock + KeyLife ELSE expiry[w]
    BY <1>1, <1>2, LimitTypes
  <2>4. redis'[w] \in Nat /\ redis[w] <= redis'[w]
    BY <1>1, LimitTypes
  <2> QED BY <1>2, <2>1, <2>2, <2>3, <2>4
<1>8. RedisInv'
  BY <1>1, <1>2, <1>6, <1>7, RedisStays DEF LimitInv
<1>9. LocalInv'
  BY <1>1, <1>2, <1>6, LocalStays DEF LimitInv
<1>10. Begun'
  <2>1. \A s \in Requests : req'[s].at \in {"redis", "expire", "local"} =>
          /\ req[s].at \in {"redis", "expire", "local"}
          /\ req'[s].window = req[s].window
    BY <1>1, <1>3, <1>4
  <2> QED BY <1>1, <1>2, <2>1, BegunStays DEF LimitInv
<1> QED BY <1>8, <1>9, <1>10 DEF LimitInv

\* Redis counts a request.
LEMMA IncrLimit ==
  ASSUME IInv, LimitInv, NEW r \in Requests, Incr(r)
  PROVE  LimitInv'
<1> DEFINE v == req[r].window
           count == redis'[v]
<1>1. /\ req[r].at = "redis" /\ Increment(v) /\ UNCHANGED <<clock, local, restarts>>
      /\ IF count = 1 THEN Move(r, "expire") ELSE Decide(r, count, "redis")
  BY DEF Incr
<1>2. req[r] \in Counting /\ v \in Windows /\ Typing /\ clock \in Nat
  BY <1>1, LimitTypes
<1>3. /\ InTime(v) => count = redis[v] + 1
      /\ count \in Nat
      /\ \A w \in Windows : w # v => redis'[w] = redis[w]
      /\ \A w \in Windows : expiry'[w] >= Start(w) + KeyLife
  BY <1>1, <1>2, IncrementFacts DEF LimitInv
<1>4. PICK next \in Counting \union Decided :
        /\ req'[r] = next /\ next.window = v
        /\ \A s \in Requests : s # r => req'[s] = req[s]
        /\ next.at \in {"expire", "admitted", "refused"}
        /\ next.at # "refused" => count <= Limit
        /\ next.at = "admitted" => next.by = "redis" /\ (~next.late <=> InTime(v))
  <2>1. CASE count = 1
    <3>1. req' = [req EXCEPT ![r] = Waiting(r, "expire")] /\ Waiting(r, "expire") \in Counting
      BY <1>1, <1>2, <2>1, MoveFacts
    <3>2. /\ Waiting(r, "expire").window = req[r].window
          /\ Waiting(r, "expire").at = "expire"
      BY DEF Waiting
    <3>3. count <= Limit
      BY <2>1
    <3> HIDE DEF count
    <3> QED BY <1>2, <3>1, <3>2, <3>3 DEF Typing
  <2>2. CASE count # 1
    <3> DEFINE next == Verdict(r, count, "redis", ~InTime(v))
    <3>1. Decide(r, count, "redis")
      BY <1>1, <2>2
    <3> HIDE DEF count
    <3>2. /\ next \in Decided /\ req'[r] = next
          /\ \A s \in Requests : s # r => req'[s] = req[s]
      BY <1>2, <3>1, DecidedInTime
    <3>3. /\ next.window = v /\ next.by = "redis" /\ next.at \in {"admitted", "refused"}
          /\ next.at # "refused" => count <= Limit
      BY DEF Verdict
    <3>4. next.late = ~InTime(v)
      BY DEF Verdict
    <3> HIDE DEF next
    <3> QED BY <3>2, <3>3, <3>4
  <2> QED BY <2>1, <2>2
<1>5. ASSUME NEW w
      PROVE  /\ Kept(w) = Kept(w)' \ {r} /\ ByRedis(w) = ByRedis(w)' \ {r}
             /\ \A p : ByReplica(p, w) = ByReplica(p, w)' \ {r}
             /\ r \notin Expiring(w) /\ Expiring(w) = Expiring(w)' \ {r}
             /\ r \in Expiring(w)' => w = v /\ count <= Limit
             /\ r \in Kept(w)' => w = v /\ InTime(v) /\ count <= Limit
  <2>1. /\ Kept(w) = Kept(w)' \ {r}
        /\ ByRedis(w) = ByRedis(w)' \ {r}
        /\ \A p : ByReplica(p, w) = ByReplica(p, w)' \ {r}
        /\ Expiring(w) \ {r} = Expiring(w)' \ {r}
        /\ r \in Expiring(w) <=> w = v /\ req[r].at = "expire"
        /\ r \in Expiring(w)' <=> w = v /\ next.at = "expire"
        /\ r \in Kept(w)' <=> w = v /\ next.at = "admitted" /\ ~next.late
    BY <1>2, <1>4, MoverSets
  <2>2. r \notin Expiring(w)
    BY <1>1, <2>1
  <2> HIDE DEF count
  <2>3. r \in Expiring(w)' => w = v /\ count <= Limit
    BY <1>4, <2>1
  <2>4. r \in Kept(w)' => w = v /\ InTime(v) /\ count <= Limit
    BY <1>4, <2>1
  <2> QED BY <2>1, <2>2, <2>3, <2>4
<1>6. LocalInv'
  <2>1. ASSUME NEW w \in Windows
        PROVE  /\ Kept(w) \ ByRedis(w) \subseteq (Kept(w) \ ByRedis(w))'
               /\ \A p \in Replicas : ByReplica(p, w)' = ByReplica(p, w)
    <3>1. Kept(w) \ ByRedis(w) \subseteq (Kept(w) \ ByRedis(w))'
      BY <1>5
    <3>2. ASSUME NEW p \in Replicas PROVE ByReplica(p, w)' = ByReplica(p, w)
      <4>1. r \notin ByReplica(p, w)'
        BY <1>4 DEF ByReplica, Kept
      <4>2. ByReplica(p, w) = ByReplica(p, w)' \ {r}
        BY <1>5
      <4> QED BY <4>1, <4>2
    <3> QED BY <3>1, <3>2
  <2> QED BY <1>1, <1>2, <2>1, LocalStays DEF LimitInv
<1>7. RedisInv'
  <2> SUFFICES ASSUME NEW w \in Windows
               PROVE  /\ Cardinality(ByRedis(w)') <= Limit
                      /\ InTime(w) =>
                           /\ Cardinality((ByRedis(w) \union Expiring(w))') <= redis'[w]
                           /\ Cardinality((ByRedis(w) \union Expiring(w))') <= Limit
    BY <1>1, <1>3 DEF RedisInv, Windows, Start, InTime
  <2> DEFINE old == ByRedis(w) \union Expiring(w)
             new == ByRedis(w)' \union Expiring(w)'
  <2>1. /\ new \ {r} = old /\ r \notin old
        /\ (r \in new => w = v /\ count <= Limit)
        /\ ByRedis(w)' \subseteq new
    <3>1. ByRedis(w)' \subseteq Kept(w)'
      BY DEF ByRedis
    <3>2. r \in new => w = v /\ count <= Limit
      <4> HIDE DEF count
      <4> QED BY <1>5, <3>1
    <3> QED BY <1>5, <3>2
  <2>2. old \subseteq Requests /\ ByRedis(w) \subseteq Requests
    BY Sets
  <2> HIDE DEF old, new, count
  <2>3. /\ IsFiniteSet(old) /\ Cardinality(old) \in Nat
        /\ Cardinality(ByRedis(w)) \in Nat
    BY <2>2, Finite
  <2>4. CASE InTime(w)
    <3>1. Cardinality(old) <= redis[w] /\ Cardinality(old) <= Limit
      BY <2>4 DEF LimitInv, RedisInv, old
    <3>2. CASE r \in new
      <4>1. new = old \union {r}
        BY <2>1, <3>2
      <4>2. Cardinality(new) = Cardinality(old) + 1
        BY <2>1, <2>3, <4>1, FS_AddElement
      <4>3. count = redis[w] + 1 /\ count = redis'[w] /\ count <= Limit
        BY <1>3, <2>1, <2>4, <3>2 DEF count
      <4>4. redis[w] \in Nat
        BY LimitTypes
      <4> QED BY <4>2, <4>3, <4>4, <2>1, <2>2, <2>3, <3>1, <3>2, Larger, Finite DEF new
    <3>3. CASE r \notin new
      <4>1. new = old
        BY <2>1, <3>3
      <4>2. redis'[w] >= redis[w] /\ redis'[w] \in Nat /\ redis[w] \in Nat
        <5>1. CASE w = v
          BY <1>3, <2>4, <5>1, LimitTypes DEF count
        <5>2. CASE w # v
          BY <1>3, <5>2, LimitTypes
        <5> QED BY <5>1, <5>2
      <4>3. /\ Cardinality(ByRedis(w)') <= Cardinality(old)
            /\ Cardinality(ByRedis(w)') \in Nat
        BY <4>1, <2>1, <2>2, Larger, Finite
      <4>4. Cardinality(old) <= redis'[w]
        BY <4>2, <3>1, <2>3
      <4>5. Cardinality(ByRedis(w)') <= Limit
        BY <4>3, <3>1, <2>3
      <4> QED BY <4>1, <4>4, <4>5, <3>1 DEF new
    <3> QED BY <3>2, <3>3
  <2>5. CASE ~InTime(w)
    <3>1. ByRedis(w)' \subseteq Kept(w)'
      BY DEF ByRedis
    <3>2. ByRedis(w)' = ByRedis(w)
      BY <1>5, <2>5, <3>1
    <3>3. Cardinality(ByRedis(w)) <= Limit
      BY DEF LimitInv, RedisInv
    <3> QED BY <2>5, <3>2, <3>3
  <2> QED BY <2>4, <2>5
<1>8. Begun'
  <2>1. \A s \in Requests : req'[s].at \in {"redis", "expire", "local"} =>
          /\ req[s].at \in {"redis", "expire", "local"}
          /\ req'[s].window = req[s].window
    BY <1>1, <1>4
  <2> QED BY <1>1, <1>2, <2>1, BegunStays DEF LimitInv
<1> QED BY <1>6, <1>7, <1>8 DEF LimitInv

\* A replica counts a request on its own.
LEMMA CountLocallyLimit ==
  ASSUME IInv, LimitInv, NEW r \in Requests, NEW crowded \in BOOLEAN,
         CountLocally(r, crowded)
  PROVE  LimitInv'
<1> DEFINE v == req[r].window
           p == req[r].rep
           count == local[p][v] + 1
           next == Verdict(r, count, p, ~InTime(v))
<1>1. /\ req[r].at = "local" /\ Decide(r, count, p)
      /\ local' = [local EXCEPT ![p] = [w \in Windows |->
           IF w = v THEN count ELSE IF crowded /\ w + 1 < v THEN 0 ELSE @[w]]]
      /\ UNCHANGED <<clock, redis, expiry, restarts>>
  BY DEF CountLocally
<1>2. /\ req[r] \in Counting /\ v \in Windows /\ p \in Replicas /\ Typing /\ clock \in Nat
      /\ local \in [Replicas -> [Windows -> Nat]] /\ p # "redis"
  BY <1>1, LimitTypes
<1>3. /\ req'[r] = next /\ next \in Decided
      /\ \A s \in Requests : s # r => req'[s] = req[s]
  <2> HIDE DEF count
  <2> QED BY <1>1, <1>2, DecidedInTime
<1>4. /\ next.at \in {"admitted", "refused"} /\ next.window = v /\ next.by = p
      /\ next.late = ~InTime(v) /\ (next.at = "admitted" => count <= Limit)
  <2> HIDE DEF count
  <2> QED BY DEF Verdict
<1>5. /\ count \in Nat /\ count = local[p][v] + 1 /\ local'[p][v] = count
      /\ \A q \in Replicas, w \in Windows : local'[q][w] \in Nat /\ local[q][w] \in Nat
      /\ \A q \in Replicas, w \in Windows : InTime(w) => local[q][w] <= local'[q][w]
  <2>1. count \in Nat /\ count = local[p][v] + 1 /\ local'[p][v] = count
    BY <1>1, <1>2
  <2>2. Start(v) <= clock /\ Start(v) \in Nat
    BY <1>1, <1>2, WindowStart DEF LimitInv, Begun
  <2>3. ASSUME NEW w \in Windows, w + 1 < v PROVE ~InTime(w)
    <3>1. Start(w) + KeyLife <= Start(v) /\ Start(w) \in Nat
      BY <1>2, <2>3, OldWindow, WindowStart
    <3> QED BY <1>2, <2>2, <3>1 DEF InTime
  <2>4. ASSUME NEW q \in Replicas, NEW w \in Windows
        PROVE  /\ local'[q][w] \in Nat /\ local[q][w] \in Nat
               /\ InTime(w) => local[q][w] <= local'[q][w]
    <3>1. local[q][w] \in Nat
      BY <1>2
    <3>2. CASE q # p
      BY <1>1, <1>2, <3>1, <3>2
    <3>3. CASE q = p /\ w = v
      BY <2>1, <3>1, <3>3
    <3>4. CASE q = p /\ w # v
      <4>1. local'[q][w] = IF crowded /\ w + 1 < v THEN 0 ELSE local[q][w]
        BY <1>1, <1>2, <3>4
      <4>2. CASE w + 1 < v
        BY <4>1, <4>2, <2>3, <3>1
      <4>3. CASE ~(w + 1 < v)
        BY <4>1, <4>3, <3>1
      <4> QED BY <4>2, <4>3
    <3> QED BY <3>2, <3>3, <3>4
  <2> QED BY <2>1, <2>4
<1> HIDE DEF next, count
<1>6. ASSUME NEW w
      PROVE  /\ r \notin Kept(w) /\ Kept(w) = Kept(w)' \ {r}
             /\ ByRedis(w) = ByRedis(w)' \ {r}
             /\ \A q : ByReplica(q, w) = ByReplica(q, w)' \ {r}
             /\ Expiring(w)' \subseteq Expiring(w)
             /\ r \in Kept(w)' => w = v /\ InTime(v) /\ count <= Limit
  <2>1. /\ r \notin Kept(w) /\ Kept(w) = Kept(w)' \ {r}
        /\ ByRedis(w) = ByRedis(w)' \ {r}
        /\ \A q : ByReplica(q, w) = ByReplica(q, w)' \ {r}
        /\ Expiring(w) \ {r} = Expiring(w)' \ {r}
        /\ r \in Expiring(w) <=> w = v /\ req[r].at = "expire"
        /\ r \in Expiring(w)' <=> w = v /\ next.at = "expire"
        /\ r \in Kept(w)' <=> w = v /\ next.at = "admitted" /\ ~next.late
    BY <1>2, <1>3, <1>4, MoverSets
  <2>2. r \notin Expiring(w)'
    BY <1>4, <2>1
  <2>3. ~next.late => InTime(v)
    BY <1>4
  <2> QED BY <1>4, <2>1, <2>2, <2>3
<1>7. ASSUME NEW w
      PROVE  /\ r \notin ByRedis(w)' /\ ByRedis(w)' = ByRedis(w)
             /\ \A q : q # p => r \notin ByReplica(q, w)'
  <2>1. r \notin ByRedis(w)' /\ \A q : q # p => r \notin ByReplica(q, w)'
    BY <1>2, <1>3, <1>4 DEF ByRedis, ByReplica
  <2> QED BY <1>6, <2>1
<1>8. RedisInv'
  <2>1. \A w \in Windows :
          /\ redis'[w] \in Nat /\ redis[w] <= redis'[w]
          /\ expiry'[w] >= Start(w) + KeyLife
    <3>1. \A w \in Windows : expiry[w] >= Start(w) + KeyLife
      BY DEF LimitInv, RedisInv
    <3> QED BY <1>1, <3>1, LimitTypes
  <2>2. ASSUME NEW w \in Windows
        PROVE  /\ (ByRedis(w) \union Expiring(w))' \subseteq ByRedis(w) \union Expiring(w)
               /\ ByRedis(w)' \subseteq ByRedis(w)
    BY <1>6, <1>7
  <2> QED BY <1>1, <1>2, <2>1, <2>2, RedisStays DEF LimitInv
<1>9. LocalInv'
  <2> SUFFICES ASSUME NEW w \in Windows
               PROVE  \E base \in SUBSET Requests : IsBasis(base, w)'
    BY DEF LocalInv, Windows
  <2>1. PICK base \in SUBSET Requests : IsBasis(base, w)
    BY DEF LimitInv, LocalInv
  <2>2. /\ base \subseteq Kept(w)' \ ByRedis(w)' /\ r \notin base
        /\ Cardinality(base) <= Limit * restarts'
    BY <1>1, <1>6, <1>7, <2>1 DEF IsBasis
  <2>3. ASSUME NEW q \in Replicas
        PROVE  /\ Cardinality(ByReplica(q, w)' \ base) <= Limit
               /\ InTime(w)' => Cardinality(ByReplica(q, w)' \ base) <= local'[q][w]
    <3> DEFINE old == ByReplica(q, w) \ base
               new == ByReplica(q, w)' \ base
    <3>1. /\ Cardinality(old) <= Limit
          /\ InTime(w) => Cardinality(old) <= local[q][w]
      BY <2>1 DEF IsBasis
    <3>2. /\ r \notin old /\ new \ {r} = old
          /\ r \in new => q = p /\ w = v /\ InTime(v) /\ count <= Limit
      <4>1. ByReplica(q, w) = ByReplica(q, w)' \ {r} /\ r \notin ByReplica(q, w)
        BY <1>6
      <4>2. ByReplica(q, w)' \subseteq Kept(w)'
        BY DEF ByReplica
      <4>3. r \in ByReplica(q, w)' => q = p /\ w = v /\ InTime(v) /\ count <= Limit
        BY <1>6, <1>7, <4>2
      <4> QED BY <2>2, <4>1, <4>3
    <3>3. IsFiniteSet(old) /\ Cardinality(old) \in Nat
      <4>1. old \subseteq Requests
        BY Sets
      <4> HIDE DEF old
      <4> QED BY <4>1, Finite
    <3>4. InTime(w)' <=> InTime(w)
      BY <1>1 DEF InTime, Start
    <3> SUFFICES /\ Cardinality(new) <= Limit
                 /\ InTime(w) => Cardinality(new) <= local'[q][w]
      BY <3>4
    <3> HIDE DEF old, new
    <3>5. CASE r \in new
      <4>1. new = old \union {r}
        BY <3>2, <3>5
      <4>2. Cardinality(new) = Cardinality(old) + 1
        BY <3>2, <3>3, <4>1, FS_AddElement
      <4>3. /\ Cardinality(old) <= local[p][v] /\ local'[q][w] = count
            /\ count <= Limit /\ local[p][v] \in Nat
        BY <1>2, <1>5, <3>1, <3>2, <3>5
      <4> QED BY <1>5, <3>3, <4>2, <4>3
    <3>6. CASE r \notin new
      <4>1. new = old
        BY <3>2, <3>6
      <4>2. /\ InTime(w) => local[q][w] <= local'[q][w]
            /\ local[q][w] \in Nat /\ local'[q][w] \in Nat
        BY <1>5
      <4> QED BY <3>1, <3>3, <4>1, <4>2
    <3> QED BY <3>5, <3>6
  <2>4. IsBasis(base, w)'
    BY <2>2, <2>3 DEF IsBasis
  <2> QED BY <2>4
<1>10. Begun'
  <2>1. \A s \in Requests : req'[s].at \in {"redis", "expire", "local"} =>
          /\ req[s].at \in {"redis", "expire", "local"}
          /\ req'[s].window = req[s].window
    BY <1>1, <1>3, <1>4
  <2> QED BY <1>1, <1>2, <2>1, BegunStays DEF LimitInv
<1> QED BY <1>8, <1>9, <1>10 DEF LimitInv

\* A replica is restarted: what it admitted goes into the basis.
LEMMA RestartLimit ==
  ASSUME IInv, LimitInv, NEW p \in Replicas, Restart(p)
  PROVE  LimitInv'
<1>1. /\ restarts' = restarts + 1
      /\ local' = [local EXCEPT ![p] = [w \in Windows |-> 0]]
      /\ UNCHANGED <<clock, redis, expiry>>
  BY DEF Restart
<1>2. /\ local \in [Replicas -> [Windows -> Nat]] /\ clock \in Nat
      /\ restarts \in Nat /\ Limit * restarts \in Nat
  BY LimitTypes
<1>3. ASSUME NEW s \in Requests
      PROVE  \/ req'[s] = req[s]
             \/ Serving(s) /\ req'[s].at = "lost"
  <2>1. \/ req'[s] = req[s]
        \/ Serving(s) /\ req'[s] = [req[s] EXCEPT !.at = "lost"]
    BY DEF Restart
  <2>2. ASSUME Serving(s) PROVE [req[s] EXCEPT !.at = "lost"].at = "lost"
    <3>1. req[s] \in Counting \union Probing
      BY <2>2, LimitTypes, Places DEF Serving
    <3> QED BY <3>1 DEF Counting, Probing
  <2> QED BY <2>1, <2>2
<1>4. \A s \in Requests : Quiet(s)
  BY <1>3 DEF Quiet, Serving
<1>5. ASSUME NEW w
      PROVE  /\ Kept(w)' = Kept(w) /\ ByRedis(w)' = ByRedis(w)
             /\ Expiring(w)' \subseteq Expiring(w)
             /\ \A q : ByReplica(q, w)' = ByReplica(q, w)
  BY <1>4, QuietSets
<1>6. RedisInv'
  <2>1. \A w \in Windows : redis'[w] \in Nat /\ redis[w] <= redis'[w]
    BY <1>1, LimitTypes
  <2>2. \A w \in Windows : expiry'[w] >= Start(w) + KeyLife
    BY <1>1 DEF LimitInv, RedisInv
  <2>3. ASSUME NEW w \in Windows
        PROVE  /\ (ByRedis(w) \union Expiring(w))' \subseteq ByRedis(w) \union Expiring(w)
               /\ ByRedis(w)' \subseteq ByRedis(w)
    BY <1>5
  <2> QED BY <1>1, <1>2, <2>1, <2>2, <2>3, RedisStays DEF LimitInv
<1>7. LocalInv'
  <2> SUFFICES ASSUME NEW w \in Windows
               PROVE  \E base \in SUBSET Requests : IsBasis(base, w)'
    BY DEF LocalInv, Windows
  <2>1. PICK base \in SUBSET Requests : IsBasis(base, w)
    BY DEF LimitInv, LocalInv
  <2>2. PICK grown \in SUBSET Requests : grown = base \union ByReplica(p, w)
    <3>1. base \union ByReplica(p, w) \subseteq Requests
      BY Sets
    <3> QED BY <3>1
  <2>3. Cardinality(grown) <= Limit * restarts'
    <3> DEFINE mine == ByReplica(p, w) \ base
    <3>1. grown = base \union mine /\ base \intersect mine = {} /\ mine \subseteq Requests
      BY <2>2, Sets
    <3>2. Cardinality(mine) <= Limit /\ Cardinality(base) <= Limit * restarts
      BY <2>1 DEF IsBasis
    <3> HIDE DEF mine
    <3>3. /\ IsFiniteSet(mine) /\ IsFiniteSet(base)
          /\ Cardinality(mine) \in Nat /\ Cardinality(base) \in Nat
      BY <3>1, Finite
    <3>4. Cardinality(grown) = Cardinality(base) + Cardinality(mine)
      <4>1. Cardinality(base \intersect mine) = 0
        BY <3>1, FS_EmptySet
      <4>2. Cardinality(base \union mine) =
              Cardinality(base) + Cardinality(mine) - Cardinality(base \intersect mine)
        BY <3>3, FS_Union
      <4> QED BY <3>1, <3>3, <4>1, <4>2
    <3>5. Limit * restarts' = Limit * restarts + Limit
      BY <1>1, <1>2
    <3> QED BY <1>2, <3>2, <3>3, <3>4, <3>5
  <2>4. ASSUME NEW q \in Replicas
        PROVE  /\ Cardinality(ByReplica(q, w)' \ grown) <= Limit
               /\ InTime(w)' => Cardinality(ByReplica(q, w)' \ grown) <= local'[q][w]
    <3>1. ByReplica(q, w)' = ByReplica(q, w)
      BY <1>5
    <3>2. InTime(w)' <=> InTime(w)
      BY <1>1 DEF InTime, Start
    <3> DEFINE old == ByReplica(q, w) \ base
               new == ByReplica(q, w) \ grown
    <3>3. Cardinality(old) <= Limit /\ (InTime(w) => Cardinality(old) <= local[q][w])
      BY <2>1 DEF IsBasis
    <3>4. /\ Cardinality(new) <= Cardinality(old)
          /\ Cardinality(new) \in Nat /\ Cardinality(old) \in Nat
      <4>1. new \subseteq old /\ old \subseteq Requests
        BY <2>2, Sets
      <4> HIDE DEF new, old
      <4> QED BY <4>1, Larger, Finite
    <3>5. CASE q = p
      <4>1. new = {}
        BY <2>2, <3>5
      <4> HIDE DEF new, old
      <4>2. Cardinality(new) = 0
        BY <4>1, FS_EmptySet
      <4>3. local'[q][w] = 0
        BY <1>1, <1>2, <3>5
      <4> QED BY <3>1, <4>2, <4>3 DEF new
    <3>6. CASE q # p
      <4>1. local'[q][w] = local[q][w] /\ local[q][w] \in Nat
        BY <1>1, <1>2, <3>6
      <4> HIDE DEF new, old
      <4>2. Cardinality(new) <= Limit /\ (InTime(w) => Cardinality(new) <= local'[q][w])
        BY <3>3, <3>4, <4>1
      <4> QED BY <3>1, <3>2, <4>2 DEF new
    <3> QED BY <3>5, <3>6
  <2>5. grown \subseteq Kept(w)' \ ByRedis(w)'
    <3>1. grown \subseteq Kept(w) \ ByRedis(w)
      BY <2>1, <2>2, Sets DEF IsBasis
    <3> QED BY <1>5, <3>1
  <2>6. IsBasis(grown, w)'
    BY <2>3, <2>4, <2>5 DEF IsBasis
  <2> QED BY <2>6
<1>8. Begun'
  <2>1. \A s \in Requests : req'[s].at \in {"redis", "expire", "local"} =>
          /\ req[s].at \in {"redis", "expire", "local"}
          /\ req'[s].window = req[s].window
    BY <1>3
  <2> QED BY <1>1, <1>2, <2>1, BegunStays DEF LimitInv
<1> QED BY <1>6, <1>7, <1>8 DEF LimitInv

\* Nothing is admitted at first.
LEMMA InitLimit == Init => LimitInv
<1> SUFFICES ASSUME Init PROVE LimitInv
  OBVIOUS
<1>1. \A r \in Requests : req[r].at = "new"
  BY DEF Init, New
<1>2. \A w : /\ Kept(w) = {} /\ ByRedis(w) = {} /\ Expiring(w) = {}
             /\ \A p : ByReplica(p, w) = {}
  BY <1>1 DEF Kept, ByRedis, Expiring, ByReplica, Of
<1>3. Begun
  BY <1>1 DEF Begun
<1>4. RedisInv
  <2> SUFFICES ASSUME NEW w \in Windows
               PROVE  /\ expiry[w] >= Start(w) + KeyLife
                      /\ Cardinality(ByRedis(w)) <= Limit
                      /\ Cardinality(ByRedis(w) \union Expiring(w)) <= redis[w]
                      /\ Cardinality(ByRedis(w) \union Expiring(w)) <= Limit
    BY DEF RedisInv
  <2>1. expiry[w] = Forever /\ redis[w] = 0
    BY DEF Init
  <2>2. Start(w) + KeyLife <= Forever /\ Start(w) \in Nat
    BY WindowStart
  <2>3. ByRedis(w) = {} /\ ByRedis(w) \union Expiring(w) = {}
    BY <1>2
  <2>4. Cardinality({}) = 0
    BY FS_EmptySet
  <2>5. expiry[w] >= Start(w) + KeyLife
    BY <2>1, <2>2 DEF Forever
  <2> QED BY <2>1, <2>3, <2>4, <2>5
<1>5. LocalInv
  <2> SUFFICES ASSUME NEW w \in Windows PROVE IsBasis({}, w)
    BY DEF LocalInv
  <2>1. \A p \in Replicas : local[p][w] = 0
    BY DEF Init
  <2>2. restarts = 0 /\ Cardinality({}) = 0 /\ Limit * 0 = 0
    BY FS_EmptySet DEF Init
  <2>3. \A p \in Replicas : ByReplica(p, w) \ {} = {}
    BY <1>2
  <2> QED BY <2>1, <2>2, <2>3 DEF IsBasis
<1> QED BY <1>3, <1>4, <1>5 DEF LimitInv

\* LimitInv is an invariant too, relative to IInv.
LEMMA NextLimit ==
  ASSUME IInv, LimitInv, [Next]_vars
  PROVE  LimitInv'
<1>1. ASSUME NEW r \in Requests, Limiting(r) PROVE LimitInv'
  BY <1>1, IncrLimit, FailsLimit, ExpireLimit, CountLocallyLimit DEF Limiting
<1> QED BY <1>1, ProbingLimit, WorldLimit, RestartLimit DEF Next

\* A set of at most n elements maps one to one to 1 .. n.
LEMMA Numbered ==
  ASSUME NEW S, IsFiniteSet(S), NEW n \in Nat, Cardinality(S) <= n
  PROVE  \E f \in [S -> 1 .. n] : \A x \in S, y \in S : f[x] = f[y] => x = y
<1> DEFINE m == Cardinality(S)
<1>1. m \in Nat /\ m <= n /\ ExistsBijection(1 .. m, S)
  BY FS_CardinalityType
<1>2. PICK f : f \in Bijection(S, 1 .. m)
  BY <1>1, Fun_ExistsBijSymmetric DEF ExistsBijection
<1>3. f \in [S -> 1 .. m] /\ \A x \in S, y \in S : f[x] = f[y] => x = y
  BY <1>2 DEF Bijection, Injection, IsInjective
<1>4. 1 .. m \subseteq 1 .. n
  <2> HIDE DEF m
  <2> QED BY <1>1
<1> HIDE DEF m
<1>5. f \in [S -> 1 .. n]
  BY <1>3, <1>4
<1> QED BY <1>3, <1>5

\* A set whose elements fall to finitely many owners, to none more than n.
LEMMA Shared ==
  ASSUME NEW S, NEW O, IsFiniteSet(O), NEW by \in [S -> O], NEW n \in Nat,
         \A p \in O : LET mine == {x \in S : by[x] = p}
                      IN IsFiniteSet(mine) /\ Cardinality(mine) <= n
  PROVE  IsFiniteSet(S) /\ Cardinality(S) <= Cardinality(O) * n
<1> DEFINE Mine(p) == {x \in S : by[x] = p}
           Good(p, f) == /\ f \in [Mine(p) -> 1 .. n]
                         /\ \A x \in Mine(p), y \in Mine(p) : f[x] = f[y] => x = y
           number == [p \in O |-> CHOOSE f : Good(p, f)]
           place == [x \in S |-> <<by[x], number[by[x]][x]>>]
<1>1. ASSUME NEW p \in O PROVE Good(p, number[p])
  <2>1. \E f : Good(p, f)
    <3>1. IsFiniteSet(Mine(p)) /\ Cardinality(Mine(p)) <= n
      OBVIOUS
    <3> HIDE DEF Mine
    <3> QED BY <3>1, Numbered
  <2>2. number[p] = CHOOSE f : Good(p, f)
    OBVIOUS
  <2> HIDE DEF Good, number
  <2> QED BY <2>1, <2>2
<1> HIDE DEF number
<1>2. \A x \in S : x \in Mine(by[x]) /\ by[x] \in O
  OBVIOUS
<1>3. place \in [S -> O \X (1 .. n)]
  <2>1. ASSUME NEW x \in S PROVE number[by[x]][x] \in 1 .. n
    BY <1>1, <1>2
  <2> QED BY <1>2, <2>1
<1>4. ASSUME NEW x \in S, NEW y \in S, place[x] = place[y]
      PROVE  x = y
  <2>1. by[x] = by[y] /\ number[by[x]][x] = number[by[y]][y]
    BY <1>4
  <2>2. x \in Mine(by[x]) /\ y \in Mine(by[x]) /\ by[x] \in O
    BY <2>1
  <2>3. Good(by[x], number[by[x]])
    BY <1>1, <2>2
  <2> HIDE DEF Mine
  <2> QED BY <2>1, <2>2, <2>3
<1>5. place \in Injection(S, O \X (1 .. n))
  <2> HIDE DEF place
  <2> QED BY <1>3, <1>4 DEF Injection, IsInjective
<1>6. /\ IsFiniteSet(1 .. n) /\ Cardinality(1 .. n) = n
  BY FS_Interval
<1>7. /\ IsFiniteSet(O \X (1 .. n))
      /\ Cardinality(O \X (1 .. n)) = Cardinality(O) * n
  BY <1>6, FS_Product
<1> HIDE DEF place
<1> QED BY <1>5, <1>7, FS_Injection

\* What the invariants say of one window.
LEMMA WindowKept ==
  ASSUME IInv, LimitInv, NEW w \in Windows
  PROVE  LET alone == {req[r].by : r \in Kept(w)} \ {"redis"}
         IN Cardinality(Kept(w)) <= Limit * (1 + Cardinality(alone) + restarts)
<1> DEFINE alone == {req[r].by : r \in Kept(w)} \ {"redis"}
<1>1. PICK base \in SUBSET Requests : IsBasis(base, w)
  BY DEF LimitInv, LocalInv
<1> DEFINE rest == (Kept(w) \ ByRedis(w)) \ base
<1>2. /\ IsFiniteSet(Kept(w)) /\ IsFiniteSet(ByRedis(w)) /\ IsFiniteSet(base)
      /\ Cardinality(Kept(w)) \in Nat /\ Cardinality(ByRedis(w)) \in Nat
      /\ Cardinality(base) \in Nat
  BY Sets, Finite
<1>3. \A r \in Kept(w) : req[r].by \in Replicas \union {"redis"}
  BY AtTells DEF Kept, Of, Decided, Counting
<1>4. IsFiniteSet(alone)
  <2> DEFINE all == {req[r].by : r \in Kept(w)}
             f == [r \in Kept(w) |-> req[r].by]
  <2>1. f \in Surjection(Kept(w), all)
    BY DEF Surjection
  <2>2. IsFiniteSet(all)
    BY <1>2, <2>1, FS_Surjection
  <2> HIDE DEF all
  <2>3. IsFiniteSet(all \ {"redis"})
    BY <2>2, FS_Subset
  <2> QED BY <2>3 DEF all
<1>5. IsFiniteSet(rest) /\ Cardinality(rest) <= Cardinality(alone) * Limit
  <2> DEFINE by == [r \in rest |-> req[r].by]
  <2>1. by \in [rest -> alone]
    BY DEF ByRedis
  <2>2. ASSUME NEW p \in alone
        PROVE  LET mine == {r \in rest : by[r] = p}
               IN IsFiniteSet(mine) /\ Cardinality(mine) <= Limit
    <3> DEFINE mine == {r \in rest : by[r] = p}
    <3>1. mine = ByReplica(p, w) \ base /\ p \in Replicas
      BY <1>3 DEF ByReplica, ByRedis
    <3>2. Cardinality(ByReplica(p, w) \ base) <= Limit
      BY <1>1, <3>1 DEF IsBasis
    <3>3. mine \subseteq Requests
      BY Sets
    <3> HIDE DEF mine
    <3>4. IsFiniteSet(mine) /\ Cardinality(mine) <= Limit
      BY <3>1, <3>2, <3>3, Finite
    <3> QED BY <3>4 DEF mine
  <2> HIDE DEF by, rest, alone
  <2> QED BY <1>4, <2>1, <2>2, Shared
<1>6. Kept(w) = (ByRedis(w) \union base) \union rest
  BY <1>1, Sets DEF IsBasis
<1> HIDE DEF rest, alone
<1>7. /\ Cardinality(rest) \in Nat /\ Cardinality(alone) \in Nat
  BY <1>4, <1>5, FS_CardinalityType
<1>8. Cardinality(Kept(w)) <= Cardinality(ByRedis(w)) + Cardinality(base) + Cardinality(rest)
  <2> DEFINE part == ByRedis(w) \union base
  <2>1. /\ IsFiniteSet(part)
        /\ Cardinality(part) = Cardinality(ByRedis(w)) + Cardinality(base)
                               - Cardinality(ByRedis(w) \intersect base)
        /\ Cardinality(ByRedis(w) \intersect base) \in Nat
    BY <1>2, FS_Union, FS_Subset, FS_CardinalityType
  <2> HIDE DEF part
  <2>2. /\ Cardinality(part \union rest) = Cardinality(part) + Cardinality(rest)
                                           - Cardinality(part \intersect rest)
        /\ Cardinality(part \intersect rest) \in Nat /\ Cardinality(part) \in Nat
    BY <1>5, <2>1, FS_Union, FS_Subset, FS_CardinalityType
  <2>3. Kept(w) = part \union rest
    BY <1>6 DEF part
  <2> QED BY <1>2, <1>7, <2>1, <2>2, <2>3
<1>9. Cardinality(ByRedis(w)) <= Limit /\ Cardinality(base) <= Limit * restarts
  BY <1>1 DEF LimitInv, RedisInv, IsBasis
<1>10. /\ Limit * (1 + Cardinality(alone) + restarts)
            = Limit + Cardinality(alone) * Limit + Limit * restarts
       /\ Cardinality(alone) * Limit \in Nat /\ Limit * restarts \in Nat
  <2>1. restarts \in Nat
    BY LimitTypes
  <2> QED BY <1>7, <2>1
<1>11. Cardinality(Kept(w)) <= Limit * (1 + Cardinality(alone) + restarts)
  BY <1>2, <1>5, <1>7, <1>8, <1>9, <1>10
<1> QED BY <1>11 DEF alone

\* Of the requests of a window that are decided in time, the limiter admits no
\* more than the limit, and the limit again for each replica that counted on its
\* own and for each restart (_check, _redis_check).
THEOREM LimitHolds == Spec => []LimitKept
<1>1. IInv /\ LimitInv /\ [Next]_vars => LimitInv'
  BY NextLimit
<1>2. IInv /\ LimitInv => LimitKept
  <2> SUFFICES ASSUME IInv, LimitInv PROVE LimitKept
    OBVIOUS
  <2>1. ASSUME NEW w \in Windows
        PROVE  LET admitted == {r \in Of(w) : req[r].at = "admitted" /\ ~req[r].late}
                   alone == {req[r].by : r \in admitted} \ {"redis"}
               IN Cardinality(admitted) <= Limit * (1 + Cardinality(alone) + restarts)
    BY WindowKept DEF Kept
  <2> QED BY <2>1 DEF LimitKept
<1> QED BY <1>1, <1>2, InitLimit, Inductive, PTL DEF Spec
=============================================================================
