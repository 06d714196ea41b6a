--------------------------- MODULE EpisodicMemory ---------------------------
(***************************************************************************)
(* Durable memory: episodes of all tenants in a table that keeps the       *)
(* newest of every tenant, and a file kept beside it where a single        *)
(* process runs (the compose deployment turns it off).  The writers are    *)
(* the threads and processes that close tasks: the runners, the janitor's  *)
(* thread, the handler of an approval, the workers.                        *)
(*                                                                         *)
(* A store takes its time first and then runs one transaction, which reads *)
(* what is committed (SQLite lets them run one after the other, PostgreSQL *)
(* at the same time), and adds to the file under a lock.                   *)
(***************************************************************************)
EXTENDS Naturals, Sequences, SequencesExt, FiniteSetsExt, Chronology

CONSTANTS Writers, Tenants,
          NoEpisode,      \* a writer stores nothing
          Kept,           \* episodes kept per tenant (100)
          FileKept,       \* episodes kept in the file, of all tenants (100)
          MaxEpisodes     \* bound: episodes stored

ASSUME MemoryAssumption ==
  /\ IsFiniteSet(Writers)
  /\ Kept \in Nat \ {0} /\ FileKept \in Nat \ {0} /\ MaxEpisodes \in Nat

VARIABLES
  clock,      \* the last time taken; an episode is known by its time
  pc,         \* per writer: where episodic_store is
  episode,    \* per writer: the episode it stores
  stale,      \* per writer: the rows its transaction deletes
  rows,       \* committed rows of the table
  file,       \* the file's items
  committed   \* history: every episode whose transaction committed

vars == <<clock, pc, episode, stale, rows, file, committed>>

Episode == [ts : 1 .. MaxEpisodes, tenant : Tenants]

Init ==
  /\ clock = 0
  /\ pc = [w \in Writers |-> "idle"]
  /\ episode = [w \in Writers |-> NoEpisode]
  /\ stale = [w \in Writers |-> {}]
  /\ rows = {} /\ file = <<>> /\ committed = {}

-----------------------------------------------------------------------------
(* Queries: the tenant's episodes, oldest first, and the newest n of them. *)

OfTenant(S, t) == Sorted({e \in S : e.tenant = t})

LastN(s, n) == SubSeq(s, IF Len(s) > n THEN Len(s) - n + 1 ELSE 1, Len(s))

\* Mutant: the newest are looked for among all tenants.
OldAmongAll(S, t) == S \ ToSet(LastN(Sorted(S), Kept))

\* What store_memory finds to delete: all but the newest of the tenant.
Old(S, t) == {e \in S : e.tenant = t} \ ToSet(LastN(OfTenant(S, t), Kept))

\* The items of the file that are the tenant's, as they come.
OfTenantInFile(t) ==
  LET places == {i \in DOMAIN file : file[i].tenant = t}
      place(k) == CHOOSE i \in places : Cardinality({j \in places : j <= i}) = k
  IN [k \in 1 .. Cardinality(places) |-> file[place(k)]]

\* episodic_recall: from the table, or from the file if the table has none.
Recall(t, n) ==
  IF OfTenant(rows, t) # <<>>
  THEN LastN(OfTenant(rows, t), n)
  ELSE LastN(OfTenantInFile(t), n)

-----------------------------------------------------------------------------
(* episodic_store and store_memory.                                        *)

Goto(w, place) == pc' = [pc EXCEPT ![w] = place]

\* The time is taken before the transaction begins.
Begin(w, t) ==
  /\ pc[w] = "idle"
  /\ clock < MaxEpisodes
  /\ clock' = clock + 1
  /\ episode' = [episode EXCEPT ![w] = [ts |-> clock', tenant |-> t]]
  /\ Goto(w, "store")
  /\ UNCHANGED <<stale, rows, file, committed>>

\* Mutant: only rows that were there before are counted.
InsertUncounted(w) ==
  /\ pc[w] = "store"
  /\ stale' = [stale EXCEPT ![w] = Old(rows, episode[w].tenant)]
  /\ Goto(w, "commit")
  /\ UNCHANGED <<clock, episode, rows, file, committed>>

\* The insert, and the select that sees it and all that is committed.
Insert(w) ==
  /\ pc[w] = "store"
  /\ stale' = [stale EXCEPT ![w] = Old(rows \union {episode[w]}, episode[w].tenant)]
  /\ Goto(w, "commit")
  /\ UNCHANGED <<clock, episode, rows, file, committed>>

Commit(w) ==
  /\ pc[w] = "commit"
  /\ rows' = (rows \union {episode[w]}) \ stale[w]
  /\ committed' = committed \union {episode[w]}
  /\ Goto(w, "file")
  /\ UNCHANGED <<clock, episode, stale, file>>

Done(w) ==
  /\ Goto(w, "idle")
  /\ episode' = [episode EXCEPT ![w] = NoEpisode]
  /\ stale' = [stale EXCEPT ![w] = {}]

\* Mutant: the file is not cut.
WriteFileWhole(w) ==
  /\ pc[w] = "file"
  /\ file' = Append(file, episode[w])
  /\ Done(w)
  /\ UNCHANGED <<clock, rows, committed>>

\* Read, append, cut and replace, under a lock; or there is no file.
WriteFile(w) ==
  /\ pc[w] = "file"
  /\ file' = LastN(Append(file, episode[w]), FileKept)
  /\ Done(w)
  /\ UNCHANGED <<clock, rows, committed>>

\* The database is locked, a deadlock is broken, the disk is full, or the
\* process is lost: an open transaction is rolled back.
Fail(w) ==
  /\ pc[w] # "idle"
  /\ Done(w)
  /\ UNCHANGED <<clock, rows, file, committed>>

Next == \E w \in Writers :
  \/ \E t \in Tenants : Begin(w, t)
  \/ Insert(w) \/ Commit(w) \/ WriteFile(w) \/ Fail(w)

Spec == Init /\ [][Next]_vars
-----------------------------------------------------------------------------
(* Properties.                                                             *)

\* The type invariant of the table, the file and the transactions under way.
TypeOK ==
  /\ clock \in 0 .. MaxEpisodes
  /\ pc \in [Writers -> {"idle", "store", "commit", "file"}]
  /\ episode \in [Writers -> Episode \union {NoEpisode}]
  /\ stale \in [Writers -> SUBSET Episode]
  /\ rows \subseteq Episode /\ committed \subseteq Episode
  /\ file \in Seq(Episode) /\ Len(file) <= FileKept

\* Whoever stores at the same time, in whatever order, and whatever fails: a
\* recall returns the newest episodes of the tenant whose store committed,
\* oldest first, and nothing else (store_memory, episodic_recall).
RecallIsNewest ==
  \A t \in Tenants : \A n \in 1 .. Kept : Recall(t, n) = LastN(OfTenant(committed, t), n)

\* The table keeps at most Kept rows of a tenant, and one more for each other
\* writer, which did not see what was being stored (store_memory).
RowsBounded ==
  \A t \in Tenants :
    Cardinality({e \in rows : e.tenant = t}) < Kept + Cardinality(Writers)
=============================================================================
