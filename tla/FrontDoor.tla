------------------------------ MODULE FrontDoor ------------------------------
(***************************************************************************)
(* What a request meets before and beside the orchestrator: the rate       *)
(* limiter of every API replica, with its counter in Redis and the local   *)
(* one it falls back to, and the readiness probe with its cache.           *)
(*                                                                         *)
(* All requests come from one identity; counters of different identities   *)
(* share nothing.  Time is a clock that all replicas and Redis share, in   *)
(* steps short enough for the windows and lifetimes to be whole numbers.   *)
(***************************************************************************)
EXTENDS Naturals, FiniteSets

CONSTANTS Replicas, Requests,
          Limit,          \* RATE_LIMIT_PER_MINUTE
          Window,         \* length of a rate window (60 s)
          KeyLife,        \* lifetime of a window's counter in Redis (90 s)
          ProbeLife,      \* PROVIDER_PROBE_TTL_SECONDS
          MaxProbe,       \* how long a probe takes at most: its HTTP timeout
          NoProbe,        \* nothing is cached
          MaxClock,       \* bound: clock
          MaxRestarts,    \* bound: replicas restarted
          MaxTurns        \* bound: the provider goes down or comes back

ASSUME FrontDoorAssumption ==
  /\ IsFiniteSet(Requests) /\ "redis" \notin Replicas
  /\ Limit \in Nat \ {0} /\ Window \in Nat \ {0}
  /\ KeyLife \in Nat /\ Window < KeyLife /\ KeyLife <= 2 * Window
  /\ ProbeLife \in Nat /\ MaxProbe \in Nat
  /\ MaxClock \in Nat /\ MaxRestarts \in Nat /\ MaxTurns \in Nat

VARIABLES
  clock,
  req,        \* per request: where it is, at which replica, since when, ...
  redis,      \* per window: the counter in Redis, 0 if there is none ...
  expiry,     \* ... and when it expires
  local,      \* per replica and window: _local
  restarts,   \* history: replicas restarted so far
  provider,   \* does the model provider answer?
  turned,     \* history: when that last changed
  turns,
  cache       \* per replica: _probe_cache and _probe_cache_at

limiter == <<redis, expiry, local>>
probing == <<provider, turned, turns, cache>>
vars == <<clock, req, limiter, restarts, probing>>

Forever == MaxClock + KeyLife + 1
Windows == 0 .. MaxClock \div Window
Start(w) == Window * w

\* bucket: computed once, before the limiter waits for Redis.
WindowOf(time) == time \div Window

New == [at |-> "new"]
Answered(up) == [at |-> "answered", up |-> up]
Counting == [at : {"redis", "expire", "local", "lost"}, rep : Replicas, window : Windows]
\* by: whose counter decided, that of Redis or that of a replica.
Decided == [at : {"admitted", "refused"}, window : Windows, by : Replicas \union {"redis"},
            late : BOOLEAN]
Probing == [at : {"asking", "seen", "lost"}, rep : Replicas, since : 0 .. MaxClock, up : BOOLEAN]

Init ==
  /\ clock = 0
  /\ req = [r \in Requests |-> New]
  /\ redis = [w \in Windows |-> 0]
  /\ expiry = [w \in Windows |-> Forever]
  /\ local = [p \in Replicas |-> [w \in Windows |-> 0]]
  /\ restarts = 0
  /\ provider \in BOOLEAN
  /\ turned = 0 /\ turns = 0
  /\ cache = [p \in Replicas |-> NoProbe]

Move(r, place) == req' = [req EXCEPT ![r].at = place]

\* Mutant: the last request of the allowance is refused.
DecideStrictly(r, count, by) ==
  req' = [req EXCEPT ![r] =
    [at |-> IF count < Limit THEN "admitted" ELSE "refused", window |-> @.window,
     by |-> by, late |-> clock >= Start(@.window) + KeyLife]]

\* late: the counter of the window may have expired before it was asked.
Decide(r, count, by) ==
  req' = [req EXCEPT ![r] =
    [at |-> IF count <= Limit THEN "admitted" ELSE "refused", window |-> @.window,
     by |-> by, late |-> clock >= Start(@.window) + KeyLife]]

-----------------------------------------------------------------------------
(* The rate limiter: dispatch, _check and _redis_check.                    *)

\* A limited request reaches a replica.
Limited(r, p) ==
  /\ req[r].at = "new"
  /\ req' = [req EXCEPT ![r] = [at |-> "redis", rep |-> p, window |-> WindowOf(clock)]]
  /\ UNCHANGED <<clock, limiter, restarts, probing>>

\* The counter as INCR finds it: an expired one is gone.
Found(w) == IF clock < expiry[w] THEN redis[w] ELSE 0

Increment(w) ==
  /\ redis' = [redis EXCEPT ![w] = Found(w) + 1]
  /\ expiry' = [expiry EXCEPT ![w] = IF Found(w) = 0 THEN Forever ELSE @]

Incr(r) ==
  /\ req[r].at = "redis"
  /\ Increment(req[r].window)
  /\ LET count == redis'[req[r].window] IN
       IF count = 1 THEN Move(r, "expire") ELSE Decide(r, count, "redis")
  /\ UNCHANGED <<clock, local, restarts, probing>>

\* Redis cannot be reached, or counts and its answer is lost.
IncrFails(r) ==
  /\ req[r].at = "redis"
  /\ \/ UNCHANGED <<redis, expiry>>
     \/ Increment(req[r].window)
  /\ Move(r, "local")
  /\ UNCHANGED <<clock, local, restarts, probing>>

\* Mutant: the counter lives exactly as long as its window may.
ExpireTight(r) ==
  /\ req[r].at = "expire"
  /\ expiry' = [expiry EXCEPT ![req[r].window] = clock + Window]
  /\ Decide(r, 1, "redis")
  /\ UNCHANGED <<clock, redis, local, restarts, probing>>

Expire(r) ==
  /\ req[r].at = "expire"
  /\ expiry' = [expiry EXCEPT ![req[r].window] = clock + KeyLife]
  /\ Decide(r, 1, "redis")
  /\ UNCHANGED <<clock, redis, local, restarts, probing>>

\* The counter may stay without an end; the request is counted once more.
ExpireFails(r) ==
  /\ req[r].at = "expire"
  /\ \/ UNCHANGED expiry
     \/ expiry' = [expiry EXCEPT ![req[r].window] = clock + KeyLife]
  /\ Move(r, "local")
  /\ UNCHANGED <<clock, redis, local, restarts, probing>>

\* The local counter; with many identities old windows are forgotten.
CountLocally(r, crowded) ==
  /\ req[r].at = "local"
  /\ LET w == req[r].window
         p == req[r].rep
         count == local[p][w] + 1 IN
       /\ local' = [local EXCEPT ![p] = [v \in Windows |->
            IF v = w THEN count ELSE IF crowded /\ v + 1 < w THEN 0 ELSE @[v]]]
       /\ Decide(r, count, p)
  /\ UNCHANGED <<clock, redis, expiry, restarts, probing>>

Limiting(r) == \/ Incr(r) \/ IncrFails(r) \/ Expire(r) \/ ExpireFails(r)
               \/ \E crowded \in BOOLEAN : CountLocally(r, crowded)

-----------------------------------------------------------------------------
(* Readiness: /api/ready and /api/health, which no limit applies to.       *)

\* Is the answer cached by p still good?
Cached(p) == cache[p] # NoProbe /\ clock - cache[p].at < ProbeLife

Asking(p) == [at |-> "asking", rep |-> p, since |-> clock, up |-> FALSE]

\* Mutant: an answer from the cache prolongs its life.
AskProlongs(r, p) ==
  /\ req[r].at = "new"
  /\ IF Cached(p)
     THEN /\ req' = [req EXCEPT ![r] = Answered(cache[p].up)]
          /\ cache' = [cache EXCEPT ![p].at = clock]
     ELSE /\ req' = [req EXCEPT ![r] = Asking(p)]
          /\ UNCHANGED cache
  /\ UNCHANGED <<clock, limiter, restarts, provider, turned, turns>>

Ask(r, p) ==
  /\ req[r].at = "new"
  /\ IF Cached(p)
     THEN req' = [req EXCEPT ![r] = Answered(cache[p].up)]
     ELSE req' = [req EXCEPT ![r] = Asking(p)]
  /\ UNCHANGED <<clock, limiter, restarts, probing>>

\* The provider answers, or does not ...
Answer(r) ==
  /\ req[r].at = "asking"
  /\ req' = [req EXCEPT ![r].at = "seen", ![r].up = provider]
  /\ UNCHANGED <<clock, limiter, restarts, probing>>

\* Mutant: the cache is stamped with the time it expires.
FillUntil(r) ==
  /\ req[r].at = "seen"
  /\ cache' = [cache EXCEPT ![req[r].rep] = [at |-> clock + ProbeLife, up |-> req[r].up]]
  /\ req' = [req EXCEPT ![r] = Answered(req[r].up)]
  /\ UNCHANGED <<clock, limiter, restarts, provider, turned, turns>>

\* ... and the probe goes on: whichever comes last fills the cache.
Fill(r) ==
  /\ req[r].at = "seen"
  /\ cache' = [cache EXCEPT ![req[r].rep] = [at |-> clock, up |-> req[r].up]]
  /\ req' = [req EXCEPT ![r] = Answered(req[r].up)]
  /\ UNCHANGED <<clock, limiter, restarts, provider, turned, turns>>

-----------------------------------------------------------------------------
(* The world.                                                              *)

\* A probe does not outlast its timeout; a request to Redis has none.
Tick ==
  /\ clock < MaxClock
  /\ \A r \in Requests : req[r].at \in {"asking", "seen"} => clock < req[r].since + MaxProbe
  /\ clock' = clock + 1
  /\ UNCHANGED <<req, limiter, restarts, probing>>

Turn ==
  /\ turns < MaxTurns
  /\ provider' = ~provider
  /\ turned' = clock /\ turns' = turns + 1
  /\ UNCHANGED <<clock, req, limiter, restarts, cache>>

Serving(r) == req[r].at \in {"redis", "expire", "local", "asking", "seen"}

\* A replica is restarted: what it counted, cached and was serving is lost.
Restart(p) ==
  /\ restarts < MaxRestarts
  /\ restarts' = restarts + 1
  /\ local' = [local EXCEPT ![p] = [w \in Windows |-> 0]]
  /\ cache' = [cache EXCEPT ![p] = NoProbe]
  /\ req' = [r \in Requests |->
       IF Serving(r) /\ req[r].rep = p THEN [req[r] EXCEPT !.at = "lost"] ELSE req[r]]
  /\ UNCHANGED <<clock, redis, expiry, provider, turned, turns>>

Next ==
  \/ \E r \in Requests :
       \/ Limiting(r) \/ Answer(r) \/ Fill(r)
       \/ \E p \in Replicas : Limited(r, p) \/ Ask(r, p)
  \/ Tick \/ Turn
  \/ \E p \in Replicas : Restart(p)

Spec == Init /\ [][Next]_vars
-----------------------------------------------------------------------------
(* Properties.                                                             *)

\* The type invariant of limiter and readiness probe.
TypeOK ==
  /\ clock \in 0 .. MaxClock
  /\ \A r \in Requests : \/ req[r] = New
                          \/ req[r] \in Counting \union Decided \union Probing
                          \/ \E up \in BOOLEAN : req[r] = Answered(up)
  /\ redis \in [Windows -> Nat] /\ expiry \in [Windows -> Nat]
  /\ local \in [Replicas -> [Windows -> Nat]]
  /\ restarts \in 0 .. MaxRestarts
  /\ provider \in BOOLEAN /\ turned \in 0 .. clock /\ turns \in 0 .. MaxTurns
  /\ \A p \in Replicas : cache[p] = NoProbe \/ cache[p] \in [at : 0 .. clock, up : BOOLEAN]

\* The limited requests of window w.
Of(w) == {r \in Requests : req[r] \in Counting \union Decided /\ req[r].window = w}

\* Of the requests of a window, but for those decided so late that its counter
\* may have expired, no more are admitted than Limit, and Limit again for each
\* replica that counted on its own and for each restart (_check).
LimitKept ==
  \A w \in Windows :
    LET admitted == {r \in Of(w) : req[r].at = "admitted" /\ ~req[r].late}
        alone == {req[r].by : r \in admitted} \ {"redis"}
    IN Cardinality(admitted) <= Limit * (1 + Cardinality(alone) + restarts)

\* Nobody is refused who has not sent Limit other requests in that window,
\* however often one of them was counted twice (_check, _redis_check).
NeverShort ==
  \A w \in Windows : \A r \in Of(w) :
    req[r].at = "refused" => Cardinality(Of(w) \ {r}) >= Limit

\* A readiness answer may be wrong only if the provider has gone down or come
\* back during the probe or since less than a cache life and a probe (probe).
FreshAnswer ==
  [][\A r \in Requests :
       req'[r].at = "answered" /\ req[r].at # "answered" /\ req'[r].up # provider
         => \/ clock - turned <= MaxProbe
            \/ clock - turned < ProbeLife + MaxProbe]_vars
=============================================================================
