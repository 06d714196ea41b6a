------------------------ MODULE EpisodicMemoryProofs ------------------------
(***************************************************************************)
(* Proofs about module EpisodicMemory, for any finite set of writers, any  *)
(* tenants and all bounds: its types, that a recall returns the newest     *)
(* episodes whose store committed, and that the table stays bounded        *)
(* although transactions that do not see each other decide what to delete. *)
(***************************************************************************)
EXTENDS EpisodicMemory, ChronologyProofs

USE MemoryAssumption

\* The episodes of S that are the tenant's.
Mine(S, t) == {e \in S : e.tenant = t}

Storing == {w \in Writers : pc[w] \in {"store", "commit"}}
Committing == {w \in Writers : pc[w] = "commit"}

\* Episodes have times of their own; an open transaction's is not committed,
\* so that nobody else deletes it.
Timing ==
  /\ IsFiniteSet(committed)
  /\ \A e \in committed : e.ts <= clock
  /\ \A e, d \in committed : e.ts = d.ts => e = d
  /\ \A w \in Storing : /\ episode[w] \in Episode /\ episode[w].ts <= clock
                        /\ \A e \in committed : e.ts # episode[w].ts
  /\ \A v, w \in Storing : v # w => episode[v].ts # episode[w].ts

\* What is in the table, in the file or to be deleted was committed, but for
\* the episode of the transaction itself.
Sources ==
  /\ rows \subseteq committed /\ ToSet(file) \subseteq committed
  /\ \A w \in Writers : pc[w] = "file" => episode[w] \in committed
  /\ \A w \in Committing :
       stale[w] \subseteq Mine(committed \union {episode[w]}, episode[w].tenant)

\* The newest of every tenant are in the table, and a transaction deletes only
\* what will not be among them.
NewestKept ==
  /\ \A e \in committed : Above(Mine(committed, e.tenant), e) < Kept => e \in rows
  /\ \A w \in Committing : \A e \in stale[w] :
       Above(Mine(committed \union {episode[w]}, e.tenant), e) >= Kept

\* The table after the transactions of P, in whatever order they commit.
After(P) == (rows \union {episode[w] : w \in P}) \ UNION {stale[w] : w \in P}

AfterBounded ==
  \A P \in SUBSET Committing : \A t \in Tenants :
    Cardinality(Mine(After(P), t)) < Kept + Cardinality(Writers)

IInv == TypeOK /\ Timing /\ Sources /\ NewestKept /\ AfterBounded

-----------------------------------------------------------------------------
(* The newest n.                                                           *)

\* The end of a sequence: at most n of its elements, the last ones.
LEMMA LastOnes ==
  ASSUME NEW S, NEW s \in Seq(S), NEW n \in Nat \ {0}
  PROVE  LET m == IF Len(s) > n THEN n ELSE Len(s)
         IN /\ LastN(s, n) \in Seq(S) /\ Len(LastN(s, n)) = m /\ m \in Nat /\ m <= n
            /\ \A j \in 1 .. m : /\ Len(s) - m + j \in 1 .. Len(s)
                                 /\ LastN(s, n)[j] = s[Len(s) - m + j]
            /\ ToSet(LastN(s, n)) \subseteq ToSet(s)
<1> DEFINE m == IF Len(s) > n THEN n ELSE Len(s)
           k == IF Len(s) > n THEN Len(s) - n + 1 ELSE 1
<1>1. /\ m \in Nat /\ m <= n /\ k \in 1 .. Len(s) + 1 /\ m = Len(s) - k + 1
      /\ \A j \in 1 .. m : Len(s) - m + j \in 1 .. Len(s) /\ Len(s) - m + j = k + j - 1
  OBVIOUS
<1>2. LastN(s, n) = SubSeq(s, k, Len(s))
  BY DEF LastN
<1> HIDE DEF m, k
<1>3. \A i \in k .. Len(s) : s[i] \in S
  BY <1>1
<1>4. /\ SubSeq(s, k, Len(s)) \in Seq(S)
      /\ Len(SubSeq(s, k, Len(s))) = IF k <= Len(s) THEN Len(s) - k + 1 ELSE 0
      /\ \A i \in 1 .. Len(s) - k + 1 : SubSeq(s, k, Len(s))[i] = s[k + i - 1]
  BY <1>1, <1>3, SubSeqProperties
<1>5. LastN(s, n) \in Seq(S) /\ Len(LastN(s, n)) = m
  BY <1>1, <1>2, <1>4
<1>6. \A j \in 1 .. m : LastN(s, n)[j] = s[Len(s) - m + j]
  BY <1>1, <1>2, <1>4
<1>7. ToSet(LastN(s, n)) \subseteq ToSet(s)
  <2>1. DOMAIN LastN(s, n) = 1 .. m /\ DOMAIN s = 1 .. Len(s)
    BY <1>5
  <2>2. \A j \in 1 .. m : LastN(s, n)[j] \in ToSet(s)
    BY <1>1, <1>6, <2>1 DEF ToSet
  <2> QED BY <2>1, <2>2 DEF ToSet
<1> QED BY <1>1, <1>5, <1>6, <1>7 DEF m

\* The last n of the sorted rows are those that fewer than n are newer than,
\* each at the place that says how many.
LEMMA NewestRows ==
  ASSUME NEW S, Dated(S), NEW n \in Nat \ {0}
  PROVE  LET m == IF Cardinality(S) > n THEN n ELSE Cardinality(S)
             newest == LastN(Sorted(S), n)
         IN /\ newest \in Seq(S) /\ Len(newest) = m /\ m \in Nat /\ m <= n
            /\ \A j \in 1 .. m : newest[j] \in S /\ Above(S, newest[j]) = m - j
            /\ ToSet(newest) = {e \in S : Above(S, e) < n}
<1> DEFINE s == Sorted(S)
           N == Len(s)
           m == IF N > n THEN n ELSE N
           newest == LastN(s, n)
<1>1. /\ s \in Seq(S) /\ N = Cardinality(S) /\ N \in Nat
      /\ \A i \in 1 .. N : s[i] \in S /\ Rank(S, s[i]) = i
      /\ \A e \in S : s[Rank(S, e)] = e
  BY SortedRows
<1>2. \A e \in S : /\ Above(S, e) \in Nat /\ Rank(S, e) = N - Above(S, e)
                   /\ Rank(S, e) \in 1 .. N
  <2>1. \A e \in S : /\ Above(S, e) \in Nat /\ Rank(S, e) + Above(S, e) = N
                     /\ Rank(S, e) \in 1 .. N
    BY <1>1, RankAbove, RankType
  <2> HIDE DEF N
  <2> QED BY <1>1, <2>1
<1> HIDE DEF s
<1>3. /\ newest \in Seq(S) /\ Len(newest) = m /\ m \in Nat /\ m <= n
      /\ \A j \in 1 .. m : N - m + j \in 1 .. N /\ newest[j] = s[N - m + j]
  BY <1>1, LastOnes
<1>4. m <= N /\ (m = N \/ m = n)
  BY <1>1
<1> HIDE DEF newest, N, m
<1>5. \A j \in 1 .. m : newest[j] \in S /\ Above(S, newest[j]) = m - j
  <2> SUFFICES ASSUME NEW j \in 1 .. m
               PROVE  newest[j] \in S /\ Above(S, newest[j]) = m - j
    OBVIOUS
  <2>1. newest[j] \in S /\ Rank(S, newest[j]) = N - m + j
    BY <1>1, <1>3
  <2>2. /\ Above(S, newest[j]) \in Nat
        /\ N - m + j = N - Above(S, newest[j])
    BY <1>2, <2>1
  <2>3. N \in Nat /\ m \in Nat /\ j \in Nat
    BY <1>1, <1>3
  <2>4. Above(S, newest[j]) = m - j
    BY <2>2, <2>3
  <2> QED BY <2>1, <2>4
<1>6. DOMAIN newest = 1 .. m
  BY <1>3
<1>7. ToSet(newest) \subseteq {e \in S : Above(S, e) < n}
  <2>1. \A j \in 1 .. m : newest[j] \in S /\ Above(S, newest[j]) < n
    BY <1>3, <1>5
  <2> QED BY <1>6, <2>1 DEF ToSet
<1>8. ASSUME NEW e \in S, Above(S, e) < n
      PROVE  e \in ToSet(newest)
  <2> DEFINE a == Above(S, e)
  <2>1. a \in Nat /\ a < n /\ a < N /\ Rank(S, e) = N - a
    BY <1>1, <1>2, <1>8
  <2> HIDE DEF a
  <2>2. m - a \in 1 .. m /\ N - m + (m - a) = N - a
    BY <1>1, <1>3, <1>4, <2>1
  <2>3. newest[m - a] = s[N - a]
    BY <1>3, <2>2
  <2>4. newest[m - a] = e
    BY <1>1, <2>1, <2>3
  <2> QED BY <1>6, <2>2, <2>4 DEF ToSet
<1> QED BY <1>1, <1>3, <1>5, <1>7, <1>8 DEF newest, s, m

\* No more than n are among the newest n.
LEMMA NewestFew ==
  ASSUME NEW S, Dated(S), NEW n \in Nat \ {0}
  PROVE  LET newest == {e \in S : Above(S, e) < n}
         IN IsFiniteSet(newest) /\ Cardinality(newest) <= n
<1> DEFINE s == LastN(Sorted(S), n)
           m == IF Cardinality(S) > n THEN n ELSE Cardinality(S)
           newest == {e \in S : Above(S, e) < n}
<1>1. s \in Seq(S) /\ Len(s) = m /\ m \in Nat /\ m <= n /\ ToSet(s) = newest
  BY NewestRows
<1> HIDE DEF s, m, newest
<1>2. s \in Surjection(1 .. m, newest)
  BY <1>1 DEF Surjection, ToSet
<1>3. IsFiniteSet(1 .. m) /\ Cardinality(1 .. m) = m
  BY <1>1, FS_Interval
<1>4. IsFiniteSet(newest) /\ Cardinality(newest) <= m /\ Cardinality(newest) \in Nat
  BY <1>2, <1>3, FS_Surjection, FS_CardinalityType
<1> QED BY <1>1, <1>4 DEF newest

\* A table that has the newest n of all rows returns the newest n of all rows.
LEMMA SameNewest ==
  ASSUME NEW C, Dated(C), NEW R \in SUBSET C, NEW k \in Nat \ {0}, NEW n \in 1 .. k,
         \A e \in C : Above(C, e) < k => e \in R
  PROVE  LastN(Sorted(R), n) = LastN(Sorted(C), n)
<1>1. Dated(R) /\ IsFiniteSet(R) /\ IsFiniteSet(C)
  BY FS_Subset DEF Dated
<1> DEFINE r == LastN(Sorted(R), n)
           c == LastN(Sorted(C), n)
           N == Cardinality(C)
           M == Cardinality(R)
           m(x) == IF x > n THEN n ELSE x
<1>2. /\ r \in Seq(R) /\ Len(r) = m(M)
      /\ \A j \in 1 .. m(M) : r[j] \in R /\ Above(R, r[j]) = m(M) - j
  BY <1>1, NewestRows
<1>3. /\ c \in Seq(C) /\ Len(c) = m(N)
      /\ \A j \in 1 .. m(N) : c[j] \in C /\ Above(C, c[j]) = m(N) - j
  BY NewestRows
<1>4. N \in Nat /\ M \in Nat /\ M <= N
  BY <1>1, FS_CardinalityType, FS_Subset
<1>5. ASSUME NEW e \in C, Above(C, e) < k
      PROVE  e \in R /\ Above(R, e) = Above(C, e)
  <2>1. ASSUME NEW d \in C, d.ts > e.ts
        PROVE  d \in R
    <3>1. Rank(C, e) < Rank(C, d)
      BY <2>1, RankGrows DEF Dated
    <3>2. /\ Above(C, e) \in Nat /\ Rank(C, e) + Above(C, e) = N /\ Rank(C, e) \in Nat
          /\ Above(C, d) \in Nat /\ Rank(C, d) + Above(C, d) = N /\ Rank(C, d) \in Nat
      BY <1>4, RankAbove, RankType
    <3>3. Above(C, d) < k
      <4> HIDE DEF N
      <4> QED BY <1>4, <1>5, <3>1, <3>2
    <3> QED BY <3>3
  <2>2. {d \in C : d.ts > e.ts} = {d \in R : d.ts > e.ts}
    BY <2>1
  <2> QED BY <1>5, <2>2 DEF Above
<1>6. m(M) = m(N)
  <2>1. CASE N <= n
    <3>1. \A e \in C : Above(C, e) < k
      <4>1. \A e \in C : Rank(C, e) \in 1 .. N /\ Above(C, e) \in Nat /\ Rank(C, e) + Above(C, e) = N
        BY RankType, RankAbove
      <4> HIDE DEF N
      <4> QED BY <1>4, <2>1, <4>1
    <3>2. R = C
      BY <3>1
    <3> QED BY <3>2
  <2>2. CASE N > n
    <3>1. 1 \in 1 .. m(N) /\ m(N) = n
      BY <1>4, <2>2
    <3>2. c[1] \in C /\ Above(C, c[1]) = n - 1
      BY <1>3, <3>1
    <3>3. c[1] \in R /\ Above(R, c[1]) = n - 1
      BY <1>5, <3>2
    <3>4. Rank(R, c[1]) \in 1 .. M /\ Rank(R, c[1]) + Above(R, c[1]) = M
      BY <1>1, <3>3, RankType, RankAbove
    <3>5. M >= n
      <4> HIDE DEF M
      <4> QED BY <1>4, <3>3, <3>4
    <3> QED BY <1>4, <2>2, <3>5
  <2> QED BY <1>4, <2>1, <2>2
<1>7. ASSUME NEW j \in 1 .. m(N)
      PROVE  r[j] = c[j]
  <2>1. m(N) \in Nat /\ m(N) <= n /\ m(N) - j \in Nat /\ m(N) - j < k
    BY <1>4
  <2>2. c[j] \in R /\ Above(R, c[j]) = m(N) - j
    <3>1. c[j] \in C /\ Above(C, c[j]) = m(N) - j
      BY <1>3
    <3> HIDE DEF c, m
    <3> QED BY <1>5, <2>1, <3>1
  <2>3. r[j] \in R /\ Above(R, r[j]) = m(N) - j
    BY <1>2, <1>6
  <2> HIDE DEF r, c, m, N, M
  <2>4. \A e \in R : /\ Rank(R, e) \in Nat /\ Above(R, e) \in Nat
                     /\ Rank(R, e) + Above(R, e) = M
    BY <1>1, <1>4, RankType, RankAbove DEF M
  <2>5. Rank(R, c[j]) = Rank(R, r[j])
    BY <1>4, <2>2, <2>3, <2>4
  <2> QED BY <1>1, <2>2, <2>3, <2>5, RankOfOne
<1> HIDE DEF r, c, m
<1>8. r \in Seq(C)
  BY <1>2
<1>9. r = c
  BY <1>2, <1>3, <1>6, <1>7, <1>8, SeqEqual
<1> QED BY <1>9 DEF r, c

-----------------------------------------------------------------------------
(* The types.                                                              *)

LEMMA InitInv == Init => IInv
<1> SUFFICES ASSUME Init PROVE IInv
  OBVIOUS
<1>1. TypeOK
  <2>1. file \in Seq(Episode) /\ Len(file) <= FileKept
    <3>1. <<>> \in Seq(Episode) /\ Len(<<>>) = 0
      BY EmptySeq
    <3> QED BY <3>1 DEF Init
  <2>2. clock \in 0 .. MaxEpisodes
    BY DEF Init
  <2>3. /\ pc \in [Writers -> {"idle", "store", "commit", "file"}]
        /\ episode \in [Writers -> Episode \union {NoEpisode}]
        /\ stale \in [Writers -> SUBSET Episode]
        /\ rows \subseteq Episode /\ committed \subseteq Episode
    BY DEF Init
  <2> QED BY <2>1, <2>2, <2>3 DEF TypeOK
<1>2. /\ Storing = {} /\ Committing = {} /\ \A w \in Writers : pc[w] # "file"
      /\ rows = {} /\ committed = {}
  BY DEF Init, Storing, Committing
<1>3. ToSet(file) = {}
  BY DEF Init, ToSet
<1>4. Timing /\ Sources /\ NewestKept
  BY <1>2, <1>3, FS_EmptySet DEF Timing, Sources, NewestKept
<1>5. AfterBounded
  <2>1. \A P \in SUBSET Committing, t \in Tenants : Mine(After(P), t) = {}
    BY <1>2 DEF Mine, After
  <2>2. Cardinality({}) = 0 /\ Cardinality(Writers) \in Nat
    BY FS_EmptySet, FS_CardinalityType
  <2>3. 0 < Kept + Cardinality(Writers)
    BY <2>2
  <2> QED BY <2>1, <2>2, <2>3 DEF AfterBounded
<1> QED BY <1>1, <1>4, <1>5 DEF IInv

LEMMA DoneTypes ==
  ASSUME TypeOK, NEW w \in Writers, Done(w)
  PROVE  /\ pc' \in [Writers -> {"idle", "store", "commit", "file"}]
         /\ episode' \in [Writers -> Episode \union {NoEpisode}]
         /\ stale' \in [Writers -> SUBSET Episode]
BY DEF TypeOK, Done, Goto

LEMMA NextTypes ==
  ASSUME TypeOK, Timing, Sources, [Next]_vars
  PROVE  TypeOK'
<1>1. ASSUME NEW w \in Writers, NEW t \in Tenants, Begin(w, t)
      PROVE  TypeOK'
  <2>1. clock' \in 1 .. MaxEpisodes
    BY <1>1 DEF Begin, TypeOK
  <2>2. episode' \in [Writers -> Episode \union {NoEpisode}]
    BY <1>1, <2>1 DEF Begin, TypeOK, Episode
  <2>3. pc' \in [Writers -> {"idle", "store", "commit", "file"}]
    BY <1>1 DEF Begin, TypeOK, Goto
  <2> QED BY <1>1, <2>1, <2>2, <2>3 DEF Begin, TypeOK
<1>2. ASSUME NEW w \in Writers, Insert(w)
      PROVE  TypeOK'
  <2>1. episode[w] \in Episode
    BY <1>2 DEF Insert, Timing, Storing
  <2>2. Old(rows \union {episode[w]}, episode[w].tenant) \subseteq Episode
    BY <2>1 DEF Old, TypeOK
  <2>3. pc' \in [Writers -> {"idle", "store", "commit", "file"}]
    BY <1>2 DEF Insert, TypeOK, Goto
  <2>4. stale' \in [Writers -> SUBSET Episode]
    BY <1>2, <2>2 DEF Insert, TypeOK
  <2> QED BY <1>2, <2>3, <2>4 DEF Insert, TypeOK
<1>3. ASSUME NEW w \in Writers, Commit(w)
      PROVE  TypeOK'
  <2>1. episode[w] \in Episode
    BY <1>3 DEF Commit, Timing, Storing
  <2>2. pc' \in [Writers -> {"idle", "store", "commit", "file"}]
    BY <1>3 DEF Commit, TypeOK, Goto
  <2> QED BY <1>3, <2>1, <2>2 DEF Commit, TypeOK
<1>4. ASSUME NEW w \in Writers, WriteFile(w)
      PROVE  TypeOK'
  <2>1. episode[w] \in Episode /\ file \in Seq(Episode)
    BY <1>4 DEF WriteFile, Sources, TypeOK
  <2>2. Append(file, episode[w]) \in Seq(Episode)
    BY <2>1, AppendProperties
  <2>3. /\ LastN(Append(file, episode[w]), FileKept) \in Seq(Episode)
        /\ Len(LastN(Append(file, episode[w]), FileKept)) <= FileKept
    BY <2>2, LastOnes
  <2> QED BY <1>4, <2>3, DoneTypes DEF WriteFile, TypeOK
<1>5. ASSUME NEW w \in Writers, Fail(w)
      PROVE  TypeOK'
  BY <1>5, DoneTypes DEF Fail, TypeOK
<1>6. CASE UNCHANGED vars
  BY <1>6 DEF vars, TypeOK
<1> QED BY <1>1, <1>2, <1>3, <1>4, <1>5, <1>6 DEF Next

-----------------------------------------------------------------------------
(* Times and sources.                                                      *)

\* What a writer's step leaves of the others: their places, their episodes and
\* what they delete.
LEMMA OneWriter ==
  ASSUME TypeOK, NEW w \in Writers, NEW v \in Writers \ {w},
         \/ \E t \in Tenants : Begin(w, t)
         \/ Insert(w) \/ Commit(w) \/ WriteFile(w) \/ Fail(w)
  PROVE  pc'[v] = pc[v] /\ episode'[v] = episode[v] /\ stale'[v] = stale[v]
BY DEF TypeOK, Begin, Insert, Commit, WriteFile, Fail, Done, Goto

\* Where a step takes the writer, and what it leaves of what it is told.
LEMMA OwnPlace ==
  ASSUME TypeOK, NEW w \in Writers
  PROVE  /\ \A t \in Tenants : Begin(w, t) =>
              pc'[w] = "store" /\ episode'[w] = [ts |-> clock + 1, tenant |-> t]
         /\ Insert(w) => /\ pc[w] = "store" /\ pc'[w] = "commit" /\ episode' = episode
                         /\ stale'[w] = Old(rows \union {episode[w]}, episode[w].tenant)
         /\ Commit(w) => /\ pc[w] = "commit" /\ pc'[w] = "file" /\ episode' = episode
                         /\ stale' = stale
         /\ WriteFile(w) => pc[w] = "file" /\ pc'[w] = "idle"
         /\ Fail(w) => pc'[w] = "idle"
BY DEF TypeOK, Begin, Insert, Commit, WriteFile, Fail, Done, Goto

\* A step that commits nothing and begins nothing keeps the times: whoever was
\* storing stores the same episode, or has stopped.
LEMMA TimingKept ==
  ASSUME Timing, UNCHANGED <<clock, committed>>, Storing' \subseteq Storing,
         \A v \in Storing' : episode'[v] = episode[v]
  PROVE  Timing'
BY DEF Timing

LEMMA NextTiming ==
  ASSUME TypeOK, TypeOK', Timing, [Next]_vars
  PROVE  Timing'
<1>1. ASSUME NEW w \in Writers, NEW t \in Tenants, Begin(w, t)
      PROVE  Timing'
  <2> DEFINE new == [ts |-> clock + 1, tenant |-> t]
  <2>1. pc'[w] = "store" /\ episode'[w] = new
    BY <1>1, OwnPlace
  <2>1a. clock' = clock + 1 /\ committed' = committed /\ clock \in Nat
    BY <1>1 DEF Begin, TypeOK
  <2>2. \A v \in Writers \ {w} : pc'[v] = pc[v] /\ episode'[v] = episode[v]
    BY <1>1, OneWriter
  <2>3. new.ts = clock + 1 /\ new \in Episode
    <3>1. clock + 1 \in 1 .. MaxEpisodes
      BY <1>1 DEF Begin, TypeOK
    <3> QED BY <3>1 DEF Episode
  <2> HIDE DEF new
  <2>4. Storing' \subseteq Storing \union {w}
    BY <2>2 DEF Storing
  <2>5. \A v \in Storing' : v # w => v \in Storing /\ episode'[v] = episode[v]
    BY <2>2, <2>4 DEF Storing
  <2>6. \A e \in committed : e.ts \in Nat /\ e.ts <= clock
    BY DEF Timing, TypeOK, Episode
  <2>7. \A v \in Storing : episode[v] \in Episode /\ episode[v].ts \in Nat /\ episode[v].ts <= clock
    BY DEF Timing, Episode
  <2>8. \A v \in Storing' : /\ episode'[v] \in Episode /\ episode'[v].ts <= clock'
                            /\ \A e \in committed' : e.ts # episode'[v].ts
    BY <2>1, <2>1a, <2>3, <2>5, <2>6, <2>7 DEF Timing
  <2>9. \A v, u \in Storing' : v # u => episode'[v].ts # episode'[u].ts
    BY <2>1, <2>1a, <2>3, <2>5, <2>7 DEF Timing
  <2>10. /\ \A e \in committed' : e.ts <= clock'
         /\ \A e, d \in committed' : e.ts = d.ts => e = d
         /\ IsFiniteSet(committed')
    BY <2>1a, <2>6 DEF Timing
  <2> QED BY <2>8, <2>9, <2>10 DEF Timing
<1>2. ASSUME NEW w \in Writers, Insert(w)
      PROVE  Timing'
  <2>1. \A v \in Writers \ {w} : pc'[v] = pc[v]
    BY <1>2, OneWriter
  <2>2. pc[w] = "store" /\ episode' = episode
    BY <1>2, OwnPlace
  <2>3. Storing' \subseteq Storing
    BY <2>1, <2>2 DEF Storing
  <2> QED BY <1>2, <2>2, <2>3, TimingKept DEF Insert
<1>3. ASSUME NEW w \in Writers, Commit(w)
      PROVE  Timing'
  <2>1. \A v \in Writers \ {w} : pc'[v] = pc[v]
    BY <1>3, OneWriter
  <2>2. /\ w \in Storing /\ pc'[w] = "file" /\ episode' = episode /\ clock' = clock
        /\ committed' = committed \union {episode[w]}
    BY <1>3, OwnPlace DEF Commit, Storing
  <2>3. Storing' \subseteq Storing \ {w}
    BY <2>1, <2>2 DEF Storing
  <2>4. IsFiniteSet(committed')
    BY <2>2, FS_AddElement DEF Timing
  <2>5. \A e \in committed' : e.ts <= clock' /\ \A d \in committed' : e.ts = d.ts => e = d
    BY <2>2 DEF Timing
  <2>6. \A v \in Storing' : /\ episode'[v] \in Episode /\ episode'[v].ts <= clock'
                            /\ \A e \in committed' : e.ts # episode'[v].ts
    BY <2>2, <2>3 DEF Timing
  <2>7. \A v, u \in Storing' : v # u => episode'[v].ts # episode'[u].ts
    BY <2>2, <2>3 DEF Timing
  <2> QED BY <2>4, <2>5, <2>6, <2>7 DEF Timing
<1>4. ASSUME NEW w \in Writers, WriteFile(w) \/ Fail(w)
      PROVE  Timing'
  <2>1. \A v \in Writers \ {w} : pc'[v] = pc[v] /\ episode'[v] = episode[v]
    BY <1>4, OneWriter
  <2>2. pc'[w] = "idle"
    BY <1>4, OwnPlace
  <2>3. Storing' \subseteq Storing /\ \A v \in Storing' : episode'[v] = episode[v]
    BY <2>1, <2>2 DEF Storing
  <2> QED BY <1>4, <2>3, TimingKept DEF WriteFile, Fail
<1>5. CASE UNCHANGED vars
  BY <1>5, TimingKept DEF vars, Storing
<1> QED BY <1>1, <1>2, <1>3, <1>4, <1>5 DEF Next

\* Sets of committed rows can be ordered, also with the row of a transaction.
LEMMA RowsDated ==
  ASSUME TypeOK, Timing
  PROVE  /\ \A S \in SUBSET committed : Dated(S)
         /\ \A w \in Storing : \A S \in SUBSET (committed \union {episode[w]}) : Dated(S)
<1>1. \A e \in committed : e.ts \in Nat
  BY DEF TypeOK, Episode
<1>2. \A S \in SUBSET committed : IsFiniteSet(S)
  BY FS_Subset DEF Timing
<1>3. \A w \in Storing : \A S \in SUBSET (committed \union {episode[w]}) : IsFiniteSet(S)
  <2> SUFFICES ASSUME NEW w \in Storing, NEW S \in SUBSET (committed \union {episode[w]})
               PROVE  IsFiniteSet(S)
    OBVIOUS
  <2>1. IsFiniteSet(committed \union {episode[w]})
    BY FS_AddElement DEF Timing
  <2> QED BY <2>1, FS_Subset
<1>4. \A w \in Storing : episode[w].ts \in Nat /\ \A e \in committed : e.ts # episode[w].ts
  BY DEF Timing, Episode
<1> QED BY <1>1, <1>2, <1>3, <1>4 DEF Dated, Timing

LEMMA NextSources ==
  ASSUME TypeOK, Timing, Sources, [Next]_vars
  PROVE  Sources'
<1>1. ASSUME NEW w \in Writers, NEW t \in Tenants, Begin(w, t)
      PROVE  Sources'
  <2>1. /\ UNCHANGED <<rows, file, committed>> /\ pc'[w] = "store"
        /\ \A v \in Writers \ {w} : pc'[v] = pc[v] /\ episode'[v] = episode[v] /\ stale'[v] = stale[v]
    BY <1>1, OneWriter, OwnPlace DEF Begin
  <2> QED BY <2>1 DEF Sources, Committing
<1>2. ASSUME NEW w \in Writers, Insert(w)
      PROVE  Sources'
  <2>1. /\ UNCHANGED <<rows, file, committed, episode>> /\ pc'[w] = "commit"
        /\ stale'[w] = Old(rows \union {episode[w]}, episode[w].tenant)
        /\ \A v \in Writers \ {w} : pc'[v] = pc[v] /\ stale'[v] = stale[v]
    BY <1>2, OneWriter, OwnPlace DEF Insert
  <2>2. stale'[w] \subseteq Mine(committed \union {episode[w]}, episode[w].tenant)
    BY <2>1 DEF Old, Mine, Sources
  <2> QED BY <2>1, <2>2 DEF Sources, Committing
<1>3. ASSUME NEW w \in Writers, Commit(w)
      PROVE  Sources'
  <2>1. /\ file' = file /\ episode' = episode /\ stale' = stale /\ pc'[w] = "file"
        /\ committed' = committed \union {episode[w]}
        /\ rows' = (rows \union {episode[w]}) \ stale[w]
        /\ \A v \in Writers \ {w} : pc'[v] = pc[v]
    BY <1>3, OneWriter, OwnPlace DEF Commit
  <2> QED BY <2>1 DEF Sources, Committing, Mine
<1>4. ASSUME NEW w \in Writers, WriteFile(w)
      PROVE  Sources'
  <2>1. /\ UNCHANGED <<rows, committed>> /\ pc[w] = "file" /\ pc'[w] = "idle"
        /\ file' = LastN(Append(file, episode[w]), FileKept)
        /\ \A v \in Writers \ {w} : pc'[v] = pc[v] /\ episode'[v] = episode[v] /\ stale'[v] = stale[v]
    BY <1>4, OneWriter, OwnPlace DEF WriteFile
  <2>2. episode[w] \in committed /\ committed \subseteq Episode /\ file \in Seq(Episode)
    BY <2>1 DEF Sources, TypeOK
  <2>3. /\ Append(file, episode[w]) \in Seq(Episode)
        /\ ToSet(Append(file, episode[w])) = ToSet(file) \union {episode[w]}
    BY <2>2, Elements
  <2>4. ToSet(file') \subseteq ToSet(Append(file, episode[w]))
    BY <2>1, <2>3, LastOnes
  <2>5. ToSet(file') \subseteq committed
    BY <2>2, <2>3, <2>4 DEF Sources
  <2> QED BY <2>1, <2>5 DEF Sources, Committing
<1>5. ASSUME NEW w \in Writers, Fail(w)
      PROVE  Sources'
  <2>1. /\ UNCHANGED <<rows, file, committed>> /\ pc'[w] = "idle"
        /\ \A v \in Writers \ {w} : pc'[v] = pc[v] /\ episode'[v] = episode[v] /\ stale'[v] = stale[v]
    BY <1>5, OneWriter, OwnPlace DEF Fail
  <2> QED BY <2>1 DEF Sources, Committing
<1>6. CASE UNCHANGED vars
  BY <1>6 DEF vars, Sources, Committing
<1> QED BY <1>1, <1>2, <1>3, <1>4, <1>5, <1>6 DEF Next

-----------------------------------------------------------------------------
(* The newest are kept.                                                    *)

\* What a transaction deletes has Kept newer rows among those it sees.
LEMMA OldRows ==
  ASSUME NEW S, NEW t, Dated(Mine(S, t))
  PROVE  Old(S, t) = {e \in Mine(S, t) : Above(Mine(S, t), e) >= Kept}
<1> DEFINE M == Mine(S, t)
           newest == ToSet(LastN(Sorted(M), Kept))
<1>1. newest = {e \in M : Above(M, e) < Kept}
  BY NewestRows
<1>2. Old(S, t) = M \ newest
  BY DEF Old, OfTenant, Mine
<1>3. \A e \in M : Above(M, e) \in Nat
  BY RankAbove
<1> HIDE DEF newest
<1>4. Old(S, t) = {e \in M : ~(Above(M, e) < Kept)}
  BY <1>1, <1>2
<1> HIDE DEF M
<1>5. Old(S, t) = {e \in M : Above(M, e) >= Kept}
  BY <1>3, <1>4
<1> QED BY <1>5 DEF M

\* More rows of a tenant are newer when more are committed.
LEMMA AboveMine ==
  ASSUME NEW S, IsFiniteSet(S), NEW R \in SUBSET S, NEW t, NEW e
  PROVE  /\ Above(Mine(R, t), e) \in Nat /\ Above(Mine(S, t), e) \in Nat
         /\ Above(Mine(R, t), e) <= Above(Mine(S, t), e)
<1>1. IsFiniteSet(Mine(S, t)) /\ Mine(R, t) \in SUBSET Mine(S, t)
  BY FS_Subset DEF Mine
<1> QED BY <1>1, AboveGrows

LEMMA NextNewest ==
  ASSUME TypeOK, Timing, Sources, NewestKept, [Next]_vars
  PROVE  NewestKept'
<1>1. ASSUME NEW w \in Writers, Insert(w)
      PROVE  NewestKept'
  <2> DEFINE t == episode[w].tenant
             seen == rows \union {episode[w]}
             all == committed \union {episode[w]}
  <2>1. /\ UNCHANGED <<rows, committed, episode>> /\ w \in Storing
        /\ stale'[w] = Old(seen, t)
        /\ \A v \in Writers \ {w} : pc'[v] = pc[v] /\ stale'[v] = stale[v]
    BY <1>1, OneWriter, OwnPlace DEF Insert, Storing
  <2>2. seen \in SUBSET all /\ IsFiniteSet(all)
    BY FS_AddElement DEF Sources, Timing
  <2>3. Dated(Mine(seen, t))
    <3>1. Mine(seen, t) \in SUBSET all
      BY <2>2 DEF Mine
    <3> QED BY <2>1, <3>1, RowsDated
  <2>4. Old(seen, t) = {e \in Mine(seen, t) : Above(Mine(seen, t), e) >= Kept}
    BY <2>3, OldRows
  <2>5. ASSUME NEW e \in stale'[w]
        PROVE  e.tenant = t /\ Above(Mine(all, t), e) >= Kept
    <3>1. e \in Mine(seen, t) /\ Above(Mine(seen, t), e) >= Kept
      BY <2>1, <2>4, <2>5
    <3>2. /\ Above(Mine(seen, t), e) \in Nat /\ Above(Mine(all, t), e) \in Nat
          /\ Above(Mine(seen, t), e) <= Above(Mine(all, t), e)
      BY <2>2, AboveMine
    <3>3. e.tenant = t
      BY <3>1 DEF Mine
    <3> QED BY <3>1, <3>2, <3>3
  <2>6. \A v \in Committing' : \A e \in stale'[v] :
          Above(Mine(committed' \union {episode'[v]}, e.tenant), e) >= Kept
    <3> SUFFICES ASSUME NEW v \in Committing', NEW e \in stale'[v]
                 PROVE  Above(Mine(committed' \union {episode'[v]}, e.tenant), e) >= Kept
      OBVIOUS
    <3>1. CASE v = w
      BY <2>1, <2>5, <3>1
    <3>2. CASE v # w
      BY <2>1, <3>2 DEF Committing, NewestKept
    <3> QED BY <3>1, <3>2
  <2> QED BY <2>1, <2>6 DEF NewestKept
<1>2. ASSUME NEW w \in Writers, Commit(w)
      PROVE  NewestKept'
  <2> DEFINE all == committed \union {episode[w]}
  <2>1. /\ episode' = episode /\ stale' = stale /\ w \in Committing
        /\ committed' = all /\ rows' = (rows \union {episode[w]}) \ stale[w]
        /\ \A v \in Committing' : v \in Committing
    <3>1. pc'[w] = "file" /\ \A v \in Writers \ {w} : pc'[v] = pc[v]
      BY <1>2, OneWriter, OwnPlace
    <3>2. pc[w] = "commit" /\ episode' = episode /\ stale' = stale
      BY <1>2, OwnPlace
    <3> QED BY <1>2, <3>1, <3>2 DEF Commit, Committing
  <2>2. IsFiniteSet(all)
    BY FS_AddElement DEF Timing
  <2>3. ASSUME NEW e \in all, Above(Mine(all, e.tenant), e) < Kept
        PROVE  e \in rows'
    <3>1. /\ Above(Mine(committed, e.tenant), e) \in Nat /\ Above(Mine(all, e.tenant), e) \in Nat
          /\ Above(Mine(committed, e.tenant), e) <= Above(Mine(all, e.tenant), e)
      BY <2>2, AboveMine
    <3>2. e \notin stale[w]
      BY <2>1, <2>3, <3>1 DEF NewestKept
    <3>3. e \in rows \union {episode[w]}
      <4>1. CASE e \in committed
        BY <2>3, <3>1, <4>1 DEF NewestKept
      <4> QED BY <4>1
    <3> QED BY <2>1, <3>2, <3>3
  <2>4. ASSUME NEW v \in Committing', NEW e \in stale'[v]
        PROVE  Above(Mine(committed' \union {episode'[v]}, e.tenant), e) >= Kept
    <3> DEFINE before == committed \union {episode[v]}
               after == committed' \union {episode'[v]}
    <3>1. Above(Mine(before, e.tenant), e) >= Kept
      BY <2>1, <2>4 DEF NewestKept
    <3>2. IsFiniteSet(after) /\ before \in SUBSET after
      BY <2>1, <2>2, FS_AddElement
    <3>3. /\ Above(Mine(before, e.tenant), e) \in Nat /\ Above(Mine(after, e.tenant), e) \in Nat
          /\ Above(Mine(before, e.tenant), e) <= Above(Mine(after, e.tenant), e)
      BY <3>2, AboveMine
    <3> QED BY <3>1, <3>3
  <2> QED BY <2>1, <2>3, <2>4 DEF NewestKept
<1>3. ASSUME NEW w \in Writers, (\E t \in Tenants : Begin(w, t)) \/ WriteFile(w) \/ Fail(w)
      PROVE  NewestKept'
  <2>1. UNCHANGED <<rows, committed>>
    BY <1>3 DEF Begin, WriteFile, Fail
  <2>2. /\ \A v \in Writers \ {w} : pc'[v] = pc[v] /\ episode'[v] = episode[v] /\ stale'[v] = stale[v]
        /\ pc'[w] # "commit"
    BY <1>3, OneWriter, OwnPlace
  <2>3. \A v \in Committing' : v \in Committing /\ episode'[v] = episode[v] /\ stale'[v] = stale[v]
    BY <2>2 DEF Committing
  <2> QED BY <2>1, <2>3 DEF NewestKept
<1>4. CASE UNCHANGED vars
  BY <1>4 DEF vars, NewestKept, Committing
<1> QED BY <1>1, <1>2, <1>3, <1>4 DEF Next

\* Then the newest of a tenant, up to Kept, are what the table returns.
LEMMA TableNewest ==
  ASSUME TypeOK, Timing, Sources, NewestKept, NEW t, NEW n \in 1 .. Kept
  PROVE  LastN(OfTenant(rows, t), n) = LastN(OfTenant(committed, t), n)
<1> DEFINE R == Mine(rows, t)
           C == Mine(committed, t)
<1>1. Dated(C) /\ R \in SUBSET C
  <2>1. C \in SUBSET committed
    BY DEF Mine
  <2> QED BY <2>1, RowsDated DEF Mine, Sources
<1>2. \A e \in C : Above(C, e) < Kept => e \in R
  BY DEF NewestKept, Mine
<1>3. LastN(Sorted(R), n) = LastN(Sorted(C), n)
  <2> HIDE DEF R, C
  <2> QED BY <1>1, <1>2, SameNewest
<1> QED BY <1>3 DEF OfTenant, Mine

-----------------------------------------------------------------------------
(* The table stays bounded.                                                *)

\* The transactions of P have no more episodes than there are writers in it.
LEMMA FewEpisodes ==
  ASSUME NEW P \in SUBSET Writers
  PROVE  LET eps == {episode[w] : w \in P}
         IN /\ IsFiniteSet(P) /\ IsFiniteSet(eps) /\ Cardinality(eps) <= Cardinality(P)
            /\ Cardinality(P) <= Cardinality(Writers)
            /\ Cardinality(eps) \in Nat /\ Cardinality(P) \in Nat /\ Cardinality(Writers) \in Nat
<1> DEFINE eps == {episode[w] : w \in P}
           f == [w \in P |-> episode[w]]
<1>1. IsFiniteSet(P) /\ Cardinality(P) <= Cardinality(Writers)
  BY FS_Subset
<1>2. f \in Surjection(P, eps)
  BY DEF Surjection
<1>3. IsFiniteSet(eps) /\ Cardinality(eps) <= Cardinality(P)
  BY <1>1, <1>2, FS_Surjection
<1> QED BY <1>1, <1>3, FS_CardinalityType

\* A transaction that begins to delete leaves Kept of the rows it sees; others
\* that were under way before it add one row each.
LEMMA AfterInsert ==
  ASSUME TypeOK, Timing, Sources, NEW w \in Storing,
         NEW P \in SUBSET (Writers \ {w}), NEW deleted,
         NEW t, t = episode[w].tenant
  PROVE  LET seen == rows \union {episode[w]}
             after == (seen \union {episode[v] : v \in P}) \ (Old(seen, t) \union deleted)
         IN Cardinality(Mine(after, t)) < Kept + Cardinality(Writers)
<1> DEFINE seen == rows \union {episode[w]}
           eps == {episode[v] : v \in P}
           after == (seen \union eps) \ (Old(seen, t) \union deleted)
           M == Mine(seen, t)
           left == {e \in M : Above(M, e) < Kept}
<1>1. Dated(M)
  <2>1. M \in SUBSET (committed \union {episode[w]})
    BY DEF Mine, Sources
  <2> QED BY <2>1, RowsDated
<1>2. Old(seen, t) = {e \in M : Above(M, e) >= Kept} /\ \A e \in M : Above(M, e) \in Nat
  <2>1. Old(seen, t) = {e \in M : Above(M, e) >= Kept}
    BY <1>1, OldRows
  <2>2. \A e \in M : Above(M, e) \in Nat
    <3> HIDE DEF M
    <3> QED BY <1>1, RankAbove
  <2> QED BY <2>1, <2>2
<1>3. IsFiniteSet(left) /\ Cardinality(left) <= Kept /\ Cardinality(left) \in Nat
  <2>1. IsFiniteSet(left) /\ Cardinality(left) <= Kept
    BY <1>1, NewestFew
  <2> QED BY <2>1, FS_CardinalityType
<1>4. Mine(after, t) \subseteq left \union eps
  <2> SUFFICES ASSUME NEW e \in Mine(after, t), e \notin eps
               PROVE  e \in left
    OBVIOUS
  <2>1. e \in M /\ e \notin Old(seen, t)
    BY DEF Mine
  <2>2. Above(M, e) \in Nat /\ ~(Above(M, e) >= Kept)
    BY <1>2, <2>1
  <2> QED BY <2>1, <2>2
<1>5. /\ IsFiniteSet(eps) /\ Cardinality(eps) <= Cardinality(P) /\ Cardinality(eps) \in Nat
      /\ Cardinality(P) \in Nat /\ Cardinality(Writers) \in Nat
  BY FewEpisodes
<1>6. Cardinality(P) < Cardinality(Writers)
  <2>1. P \in SUBSET Writers /\ P # Writers
    BY DEF Storing
  <2>2. Cardinality(P) <= Cardinality(Writers) /\ Cardinality(P) # Cardinality(Writers)
    BY <2>1, FS_Subset
  <2> QED BY <1>5, <2>2
<1> HIDE DEF after, left, eps, seen
<1>7. /\ IsFiniteSet(left \union eps)
      /\ Cardinality(left \union eps) =
           Cardinality(left) + Cardinality(eps) - Cardinality(left \intersect eps)
      /\ Cardinality(left \intersect eps) \in Nat
  BY <1>3, <1>5, FS_Union, FS_Subset, FS_CardinalityType
<1>8. Cardinality(Mine(after, t)) <= Cardinality(left \union eps)
  BY <1>4, <1>7, FS_Subset
<1>9. Cardinality(Mine(after, t)) \in Nat
  BY <1>4, <1>7, FS_Subset, FS_CardinalityType
<1>10. Cardinality(Mine(after, t)) < Kept + Cardinality(Writers)
  BY <1>3, <1>5, <1>6, <1>7, <1>8, <1>9
<1> QED BY <1>10 DEF after, seen, eps

LEMMA NextBounded ==
  ASSUME TypeOK, Timing, Sources, AfterBounded, [Next]_vars
  PROVE  AfterBounded'
<1>1. ASSUME NEW w \in Writers, Insert(w)
      PROVE  AfterBounded'
  <2> DEFINE t == episode[w].tenant
             seen == rows \union {episode[w]}
  <2>1. /\ UNCHANGED <<rows, episode>> /\ w \in Storing
        /\ stale'[w] = Old(seen, t)
        /\ \A v \in Writers \ {w} : pc'[v] = pc[v] /\ stale'[v] = stale[v]
    BY <1>1, OneWriter, OwnPlace DEF Insert, Storing
  <2> SUFFICES ASSUME NEW P \in SUBSET Committing', NEW u \in Tenants
               PROVE  Cardinality(Mine(After(P)', u)) < Kept + Cardinality(Writers)
    BY DEF AfterBounded
  <2> DEFINE Q == P \ {w}
  <2>2. Q \in SUBSET Committing /\ Q \in SUBSET (Writers \ {w}) /\ P \in SUBSET Writers
    BY <2>1 DEF Committing
  <2>3. \A v \in Q : stale'[v] = stale[v]
    BY <2>1, <2>2
  <2>4. CASE w \notin P
    <3>1. After(P)' = After(P) /\ P \in SUBSET Committing
      BY <2>1, <2>2, <2>3, <2>4 DEF After
    <3> QED BY <3>1 DEF AfterBounded
  <2>5. CASE w \in P
    <3> DEFINE eps == {episode[v] : v \in Q}
               deleted == UNION {stale[v] : v \in Q}
    <3>1. After(P)' = (seen \union eps) \ (Old(seen, t) \union deleted)
      <4>1. {episode'[v] : v \in P} = {episode[w]} \union eps
        BY <2>1, <2>5
      <4>2. UNION {stale'[v] : v \in P} = Old(seen, t) \union deleted
        BY <2>1, <2>3, <2>5
      <4>3. rows' = rows
        BY <2>1
      <4> QED BY <4>1, <4>2, <4>3 DEF After
    <3>2. CASE u = t
      <4>1. Cardinality(Mine((seen \union eps) \ (Old(seen, t) \union deleted), t))
              < Kept + Cardinality(Writers)
        BY <2>1, <2>2, AfterInsert
      <4> QED BY <3>1, <3>2, <4>1
    <3>3. CASE u # t
      <4>1. Mine(After(P)', u) = Mine(After(Q), u)
        BY <3>1, <3>3 DEF Mine, Old, After
      <4> QED BY <2>2, <4>1 DEF AfterBounded
    <3> QED BY <3>2, <3>3
  <2> QED BY <2>4, <2>5
<1>2. ASSUME NEW w \in Writers, Commit(w)
      PROVE  AfterBounded'
  <2>1. /\ episode' = episode /\ stale' = stale /\ w \in Committing
        /\ rows' = (rows \union {episode[w]}) \ stale[w]
        /\ Committing' \subseteq Committing \ {w}
    <3>1. pc'[w] = "file" /\ \A v \in Writers \ {w} : pc'[v] = pc[v]
      BY <1>2, OneWriter, OwnPlace
    <3>2. pc[w] = "commit" /\ episode' = episode /\ stale' = stale
      BY <1>2, OwnPlace
    <3> QED BY <1>2, <3>1, <3>2 DEF Commit, Committing
  <2> SUFFICES ASSUME NEW P \in SUBSET Committing', NEW u \in Tenants
               PROVE  Cardinality(Mine(After(P)', u)) < Kept + Cardinality(Writers)
    BY DEF AfterBounded
  <2> DEFINE Q == P \union {w}
  <2>2. Q \in SUBSET Committing /\ w \notin P
    BY <2>1
  <2>3. \A v \in P : episode[v] \notin stale[w]
    <3> SUFFICES ASSUME NEW v \in P
                 PROVE  episode[v] \notin stale[w]
      OBVIOUS
    <3>1. v \in Storing /\ w \in Storing /\ v # w
      BY <2>1, <2>2 DEF Committing, Storing
    <3>2. \A e \in committed \union {episode[w]} : e.ts # episode[v].ts
      BY <3>1 DEF Timing
    <3> QED BY <2>1, <3>2 DEF Sources, Mine
  <2>4. After(P)' = After(Q)
    <3>1. {episode[v] : v \in Q} = {episode[v] : v \in P} \union {episode[w]}
      OBVIOUS
    <3>2. UNION {stale[v] : v \in Q} = (UNION {stale[v] : v \in P}) \union stale[w]
      OBVIOUS
    <3>3. {episode'[v] : v \in P} = {episode[v] : v \in P}
          /\ UNION {stale'[v] : v \in P} = UNION {stale[v] : v \in P}
      BY <2>1
    <3>4. {episode[v] : v \in P} \intersect stale[w] = {}
      BY <2>3
    <3> QED BY <2>1, <3>1, <3>2, <3>3, <3>4 DEF After
  <2> QED BY <2>2, <2>4 DEF AfterBounded
<1>3. ASSUME NEW w \in Writers, (\E t \in Tenants : Begin(w, t)) \/ WriteFile(w) \/ Fail(w)
      PROVE  AfterBounded'
  <2>1. rows' = rows
    BY <1>3 DEF Begin, WriteFile, Fail
  <2>2. /\ \A v \in Writers \ {w} : pc'[v] = pc[v] /\ episode'[v] = episode[v] /\ stale'[v] = stale[v]
        /\ pc'[w] # "commit"
    BY <1>3, OneWriter, OwnPlace
  <2>3. \A v \in Committing' : v \in Committing /\ episode'[v] = episode[v] /\ stale'[v] = stale[v]
    BY <2>2 DEF Committing
  <2>4. \A P \in SUBSET Committing' : P \in SUBSET Committing /\ After(P)' = After(P)
    BY <2>1, <2>3 DEF After
  <2> QED BY <2>4 DEF AfterBounded
<1>4. CASE UNCHANGED vars
  BY <1>4 DEF vars, AfterBounded, Committing, After
<1> QED BY <1>1, <1>2, <1>3, <1>4 DEF Next

-----------------------------------------------------------------------------
(* The theorems.                                                           *)

LEMMA NextInv == IInv /\ [Next]_vars => IInv'
<1> SUFFICES ASSUME IInv, [Next]_vars PROVE IInv'
  OBVIOUS
<1>1. TypeOK'
  BY NextTypes DEF IInv
<1> QED BY <1>1, NextTiming, NextSources, NextNewest, NextBounded DEF IInv

THEOREM InvHolds == Spec => []IInv
BY InitInv, NextInv, PTL DEF Spec

\* The types of the table, the file and the transactions under way.
THEOREM TypeCorrect == Spec => []TypeOK
<1>1. IInv => TypeOK
  BY DEF IInv
<1> QED BY <1>1, InvHolds, PTL

\* A recall returns the newest episodes of the tenant that were committed, for
\* any number of writers whose transactions overlap (store_memory,
\* episodic_recall).
THEOREM NewestRecalled == Spec => []RecallIsNewest
<1>1. ASSUME IInv PROVE RecallIsNewest
  <2> SUFFICES ASSUME NEW t \in Tenants, NEW n \in 1 .. Kept
               PROVE  Recall(t, n) = LastN(OfTenant(committed, t), n)
    BY DEF RecallIsNewest
  <2>1. LastN(OfTenant(rows, t), n) = LastN(OfTenant(committed, t), n)
    BY <1>1, TableNewest DEF IInv
  <2>2. CASE OfTenant(rows, t) # <<>>
    BY <2>1, <2>2 DEF Recall
  <2>3. CASE OfTenant(rows, t) = <<>>
    <3> DEFINE R == Mine(rows, t)
               C == Mine(committed, t)
    <3>1. C \in SUBSET committed /\ R \in SUBSET C
      BY <1>1 DEF IInv, Sources, Mine
    <3>2. Dated(C) /\ Dated(R)
      BY <1>1, <3>1, RowsDated DEF IInv
    <3>3. R = {}
      <4>1. Sorted(R) = <<>>
        BY <2>3 DEF OfTenant, Mine
      <4>2. Cardinality(R) = 0
        BY <3>2, <4>1, SortedRows
      <4> QED BY <3>2, <4>2, FS_EmptySet DEF Dated
    <3>4. C = {}
      <4> SUFFICES ASSUME C # {} PROVE FALSE
        OBVIOUS
      <4>1. Cardinality(C) \in Nat \ {0}
        BY <3>2, FS_EmptySet, FS_CardinalityType DEF Dated
      <4>2. LastN(Sorted(C), 1)[1] \in C /\ Above(C, LastN(Sorted(C), 1)[1]) = 0
        <5> HIDE DEF C
        <5> QED BY <3>2, <4>1, NewestRows
      <4>3. LastN(Sorted(C), 1)[1] \in R
        BY <1>1, <4>2 DEF IInv, NewestKept, Mine
      <4> QED BY <3>3, <4>3
    <3>5. OfTenantInFile(t) = <<>>
      <4> DEFINE places == {i \in DOMAIN file : file[i].tenant = t}
      <4>1. places = {}
        BY <1>1, <3>4 DEF IInv, Sources, Mine, ToSet
      <4>2. Cardinality(places) = 0
        BY <4>1, FS_EmptySet
      <4>3. 1 .. Cardinality(places) = {}
        BY <4>2
      <4> QED BY <4>3 DEF OfTenantInFile
    <3> QED BY <2>1, <2>3, <3>5 DEF Recall
  <2> QED BY <2>2, <2>3
<1> QED BY <1>1, InvHolds, PTL

\* Transactions that overlap delete too little, but never so little that the
\* table grows by more than one row for each other writer (store_memory).
THEOREM TableBounded == Spec => []RowsBounded
<1>1. ASSUME IInv PROVE RowsBounded
  <2>1. {} \in SUBSET Committing /\ After({}) = rows
    BY DEF After
  <2>2. \A t \in Tenants : Cardinality(Mine(rows, t)) < Kept + Cardinality(Writers)
    BY <1>1, <2>1 DEF IInv, AfterBounded
  <2> QED BY <2>2 DEF RowsBounded, Mine
<1> QED BY <1>1, InvHolds, PTL
=============================================================================
