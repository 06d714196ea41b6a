-------------------------- MODULE ChronologyProofs --------------------------
(***************************************************************************)
(* Lemmas about rows in the order of their times, for every finite set of  *)
(* rows that have times of their own, and about sequences as sets of their *)
(* elements: what the proofs about event streams and about memory share.   *)
(***************************************************************************)
EXTENDS Chronology, SequencesExt, FiniteSetTheorems, SequenceTheorems, TLAPS

\* Rows with times of their own.
Dated(S) ==
  /\ IsFiniteSet(S)
  /\ \A row \in S : row.ts \in Nat
  /\ \A r, row \in S : r.ts = row.ts => r = row

LEMMA RankType ==
  ASSUME NEW S, Dated(S), NEW row \in S
  PROVE  Rank(S, row) \in 1 .. Cardinality(S)
<1> DEFINE upto == {r \in S : r.ts <= row.ts}
<1>1. /\ IsFiniteSet(upto) /\ Cardinality(upto) <= Cardinality(S)
      /\ IsFiniteSet(S) /\ Cardinality(S) \in Nat
  BY FS_Subset, FS_CardinalityType DEF Dated
<1>2. Cardinality(upto) \in Nat
  BY <1>1, FS_CardinalityType
<1>3. row \in upto
  BY DEF Dated
<1>4. Cardinality(upto) # 0
  BY <1>1, <1>3, FS_EmptySet
<1> QED BY <1>1, <1>2, <1>4 DEF Rank

\* A newer row has a higher rank.
LEMMA RankGrows ==
  ASSUME NEW S, Dated(S), NEW r \in S, NEW row \in S, r.ts < row.ts
  PROVE  Rank(S, r) < Rank(S, row)
<1> DEFINE upto(x) == {q \in S : q.ts <= x.ts}
<1>1. upto(r) \subseteq upto(row) /\ row \in upto(row) \ upto(r)
  BY DEF Dated
<1>2. IsFiniteSet(upto(row))
  BY FS_Subset DEF Dated
<1>3. /\ Cardinality(upto(r)) <= Cardinality(upto(row))
      /\ Cardinality(upto(r)) # Cardinality(upto(row))
  BY <1>1, <1>2, FS_Subset
<1>4. Rank(S, r) \in Nat /\ Rank(S, row) \in Nat
  BY RankType, FS_CardinalityType DEF Dated
<1> QED BY <1>3, <1>4 DEF Rank

\* Every rank belongs to exactly one row.
LEMMA RankOfOne ==
  ASSUME NEW S, Dated(S)
  PROVE  /\ \A r, row \in S : Rank(S, r) = Rank(S, row) => r = row
         /\ \A i \in 1 .. Cardinality(S) : \E row \in S : Rank(S, row) = i
<1> DEFINE n == Cardinality(S)
           f == [row \in S |-> Rank(S, row)]
<1>1. \A r, row \in S : Rank(S, r) \in Nat
  BY RankType, FS_CardinalityType DEF Dated
<1>2. \A r, row \in S : Rank(S, r) = Rank(S, row) => r = row
  <2> SUFFICES ASSUME NEW r \in S, NEW row \in S, r # row
               PROVE  Rank(S, r) # Rank(S, row)
    OBVIOUS
  <2>1. r.ts < row.ts \/ row.ts < r.ts
    BY DEF Dated
  <2> QED BY <2>1, RankGrows, <1>1
<1>3. n \in Nat /\ IsFiniteSet(1 .. n) /\ Cardinality(1 .. n) = n
  BY FS_CardinalityType, FS_Interval DEF Dated
<1>4. f \in Injection(S, 1 .. n)
  BY <1>2, RankType DEF Injection, IsInjective
<1>5. f \in Surjection(S, 1 .. n)
  BY <1>3, <1>4, FS_Injection
<1>6. \A i \in 1 .. n : \E row \in S : f[row] = i
  BY <1>5 DEF Surjection
<1> QED BY <1>2, <1>6

\* The sorted sequence holds every row once, at the place of its rank.
THEOREM SortedRows ==
  ASSUME NEW S, Dated(S)
  PROVE  /\ Sorted(S) \in Seq(S)
         /\ Len(Sorted(S)) = Cardinality(S) /\ Cardinality(S) \in Nat
         /\ \A i \in 1 .. Cardinality(S) : Sorted(S)[i] \in S /\ Rank(S, Sorted(S)[i]) = i
         /\ \A row \in S : Sorted(S)[Rank(S, row)] = row
<1> DEFINE n == Cardinality(S)
<1>1. n \in Nat
  BY FS_CardinalityType DEF Dated
<1>2. \A i \in 1 .. n : Sorted(S)[i] \in S /\ Rank(S, Sorted(S)[i]) = i
  BY RankOfOne DEF Sorted
<1>3. Sorted(S) \in [1 .. n -> S]
  BY <1>2 DEF Sorted
<1>4. Sorted(S) \in Seq(S) /\ Len(Sorted(S)) = n
  BY <1>1, <1>3
<1>5. \A row \in S : Sorted(S)[Rank(S, row)] = row
  BY <1>2, RankType, RankOfOne
<1> QED BY <1>1, <1>2, <1>4, <1>5

\* No row twice.
LEMMA SortedOnce ==
  ASSUME NEW S, Dated(S)
  PROVE  IsInjective(Sorted(S))
<1>1. DOMAIN Sorted(S) = 1 .. Cardinality(S)
  BY DEF Sorted
<1>2. \A i \in 1 .. Cardinality(S) : Rank(S, Sorted(S)[i]) = i
  BY SortedRows
<1> QED BY <1>1, <1>2 DEF IsInjective

\* How many rows of S are newer than row.
Above(S, row) == Cardinality({r \in S : r.ts > row.ts})

\* A row is as far from the newest as its rank is from the last.
LEMMA RankAbove ==
  ASSUME NEW S, Dated(S), NEW row \in S
  PROVE  Above(S, row) \in Nat /\ Rank(S, row) + Above(S, row) = Cardinality(S)
<1> DEFINE older == {r \in S : r.ts <= row.ts}
           newer == {r \in S : r.ts > row.ts}
<1>1. IsFiniteSet(older) /\ IsFiniteSet(newer)
  BY FS_Subset DEF Dated
<1>2. older \union newer = S /\ older \intersect newer = {}
  BY DEF Dated
<1>3. Cardinality(S) = Cardinality(older) + Cardinality(newer) - Cardinality(older \intersect newer)
  BY <1>1, <1>2, FS_Union
<1>4. Cardinality(older) \in Nat /\ Cardinality(newer) \in Nat
  BY <1>1, FS_CardinalityType
<1>5. Cardinality(older \intersect newer) = 0
  <2> HIDE DEF older, newer
  <2> QED BY <1>2, FS_EmptySet
<1>6. Cardinality(S) = Cardinality(older) + Cardinality(newer)
  <2> HIDE DEF older, newer
  <2> QED BY <1>3, <1>4, <1>5
<1> QED BY <1>4, <1>6 DEF Rank, Above

\* Among more rows more are newer.
LEMMA AboveGrows ==
  ASSUME NEW S, IsFiniteSet(S), NEW R \in SUBSET S, NEW row
  PROVE  /\ Above(R, row) \in Nat /\ Above(S, row) \in Nat
         /\ Above(R, row) <= Above(S, row)
<1> DEFINE some == {r \in R : r.ts > row.ts}
           all == {r \in S : r.ts > row.ts}
<1>1. IsFiniteSet(all) /\ some \in SUBSET all
  BY FS_Subset
<1> QED BY <1>1, FS_Subset, FS_CardinalityType DEF Above

-----------------------------------------------------------------------------
(* Sequences.                                                              *)

\* A set of natural numbers has a least one.
LEMMA LeastOne ==
  ASSUME NEW S \in SUBSET Nat, S # {}
  PROVE  Min(S) \in S
<1>1. PICK x \in S : \A y \in S : ~(<<y, x>> \in OpToRel(<, Nat))
  BY NatLessThanWellFounded, WFMin
<1>2. ASSUME NEW y \in S PROVE x <= y
  <2>1. <<y, x>> \in Nat \X Nat /\ <<y, x>>[1] = y /\ <<y, x>>[2] = x
    OBVIOUS
  <2>2. ~(<<y, x>> \in {p \in Nat \X Nat : p[1] < p[2]})
    BY <1>1 DEF OpToRel
  <2>3. ~(y < x)
    BY <2>1, <2>2
  <2> QED BY <2>3
<1> QED BY <1>2 DEF Min

\* The greater of two numbers is one of them.
LEMMA GreaterOfTwo ==
  ASSUME NEW a \in Nat, NEW b \in Nat
  PROVE  Max({a, b}) \in {a, b} /\ Max({a, b}) >= a /\ Max({a, b}) >= b
<1>1. \E x \in {a, b} : \A y \in {a, b} : x >= y
  <2>1. CASE a >= b
    BY <2>1
  <2>2. CASE b >= a
    BY <2>2
  <2> QED BY <2>1, <2>2
<1> QED BY <1>1 DEF Max

\* The first n elements of a sequence.
LEMMA Prefix ==
  ASSUME NEW S, NEW s \in Seq(S), NEW n \in 0 .. Len(s)
  PROVE  /\ SubSeq(s, 1, n) \in Seq(S) /\ Len(SubSeq(s, 1, n)) = n
         /\ ToSet(SubSeq(s, 1, n)) \subseteq ToSet(s)
<1>1. /\ SubSeq(s, 1, n) \in Seq(S) /\ Len(SubSeq(s, 1, n)) = n
      /\ \A i \in 1 .. n : SubSeq(s, 1, n)[i] = s[i]
  BY SubSeqProperties
<1> QED BY <1>1 DEF ToSet

\* Appending an element, taking the first one off, and putting two sequences
\* together, as sets.
LEMMA Elements ==
  ASSUME NEW S, NEW s \in Seq(S)
  PROVE  /\ ToSet(s) \subseteq S
         /\ \A x \in S : /\ Append(s, x) \in Seq(S) /\ Len(Append(s, x)) = Len(s) + 1
                         /\ ToSet(Append(s, x)) = ToSet(s) \union {x}
         /\ s # <<>> => /\ Head(s) \in S /\ Tail(s) \in Seq(S)
                        /\ Len(Tail(s)) = Len(s) - 1
                        /\ ToSet(s) = {Head(s)} \union ToSet(Tail(s))
         /\ \A t \in Seq(S) : s \o t \in Seq(S) /\ ToSet(s \o t) = ToSet(s) \union ToSet(t)
<1>1. ToSet(s) \subseteq S
  BY DEF ToSet
<1>2. ASSUME NEW x \in S
      PROVE  /\ Append(s, x) \in Seq(S) /\ Len(Append(s, x)) = Len(s) + 1
             /\ ToSet(Append(s, x)) = ToSet(s) \union {x}
  <2>1. /\ Append(s, x) \in Seq(S) /\ Len(Append(s, x)) = Len(s) + 1
        /\ Append(s, x)[Len(s) + 1] = x
        /\ \A i \in 1 .. Len(s) : Append(s, x)[i] = s[i]
    BY AppendProperties
  <2>2. \A i \in DOMAIN Append(s, x) : i \in 1 .. Len(s) \/ i = Len(s) + 1
    BY <2>1
  <2> QED BY <2>1, <2>2 DEF ToSet
<1>3. ASSUME s # <<>>
      PROVE  /\ Head(s) \in S /\ Tail(s) \in Seq(S) /\ Len(Tail(s)) = Len(s) - 1
             /\ ToSet(s) = {Head(s)} \union ToSet(Tail(s))
  <2>1. /\ Head(s) \in S /\ Tail(s) \in Seq(S) /\ Len(Tail(s)) = Len(s) - 1
        /\ \A i \in 1 .. Len(Tail(s)) : Tail(s)[i] = s[i + 1]
    BY <1>3, HeadTailProperties
  <2>2. Head(s) = s[1] /\ Len(s) \in Nat \ {0}
    BY <1>3, EmptySeq
  <2>3. \A i \in 1 .. Len(s) : i = 1 \/ (i - 1 \in 1 .. Len(Tail(s)) /\ s[i] = Tail(s)[i - 1])
    BY <2>1, <2>2
  <2>4. DOMAIN s = 1 .. Len(s) /\ DOMAIN Tail(s) = 1 .. Len(Tail(s))
    BY <2>1
  <2>5. ToSet(s) \subseteq {Head(s)} \union ToSet(Tail(s))
    <3>1. \A i \in 1 .. Len(s) : s[i] = Head(s) \/ s[i] \in ToSet(Tail(s))
      BY <2>2, <2>3, <2>4 DEF ToSet
    <3> QED BY <3>1, <2>4 DEF ToSet
  <2>6. \A i \in 1 .. Len(Tail(s)) : i + 1 \in 1 .. Len(s)
    BY <2>1
  <2>7. ToSet(Tail(s)) \subseteq ToSet(s) /\ Head(s) \in ToSet(s)
    BY <2>2, <2>4, <2>6, <2>1 DEF ToSet
  <2> QED BY <2>1, <2>5, <2>7
<1>4. ASSUME NEW t \in Seq(S)
      PROVE  s \o t \in Seq(S) /\ ToSet(s \o t) = ToSet(s) \union ToSet(t)
  <2>1. /\ s \o t \in Seq(S) /\ Len(s \o t) = Len(s) + Len(t)
        /\ \A i \in 1 .. Len(s) : (s \o t)[i] = s[i]
        /\ \A i \in 1 .. Len(t) : (s \o t)[Len(s) + i] = t[i]
    BY ConcatProperties
  <2>2. \A i \in 1 .. Len(s) + Len(t) :
          \/ i \in 1 .. Len(s)
          \/ i - Len(s) \in 1 .. Len(t) /\ (s \o t)[i] = t[i - Len(s)]
    BY <2>1
  <2>3. ToSet(s \o t) \subseteq ToSet(s) \union ToSet(t)
    BY <2>1, <2>2 DEF ToSet
  <2>4. ToSet(s) \subseteq ToSet(s \o t)
    BY <2>1 DEF ToSet
  <2>5. \A i \in 1 .. Len(t) : /\ Len(s) + i \in 1 .. Len(s) + Len(t)
                               /\ (s \o t)[Len(s) + i] = t[i]
    BY <2>1
  <2>6. DOMAIN (s \o t) = 1 .. Len(s) + Len(t) /\ DOMAIN t = 1 .. Len(t)
    BY <2>1
  <2>7. ToSet(t) \subseteq ToSet(s \o t)
    BY <2>5, <2>6 DEF ToSet
  <2> QED BY <2>1, <2>3, <2>4, <2>7
<1> QED BY <1>1, <1>2, <1>3, <1>4

\* No event twice: of a sequence and one that has nothing in common with it.
LEMMA InjectiveConcat ==
  ASSUME NEW S, NEW s \in Seq(S), NEW t \in Seq(S), IsInjective(s), IsInjective(t),
         ToSet(s) \intersect ToSet(t) = {}
  PROVE  IsInjective(s \o t)
<1>1. /\ s \o t \in Seq(S) /\ Len(s \o t) = Len(s) + Len(t)
      /\ \A i \in 1 .. Len(s) : (s \o t)[i] = s[i]
      /\ \A i \in 1 .. Len(t) : (s \o t)[Len(s) + i] = t[i]
  BY ConcatProperties
<1>2. \A i \in 1 .. Len(s) + Len(t) :
        \/ i \in 1 .. Len(s) /\ (s \o t)[i] = s[i]
        \/ i - Len(s) \in 1 .. Len(t) /\ (s \o t)[i] = t[i - Len(s)]
  BY <1>1
<1>3. \A i \in 1 .. Len(s), j \in 1 .. Len(t) : s[i] # t[j]
  BY DEF ToSet
<1>4. DOMAIN (s \o t) = 1 .. Len(s) + Len(t)
  BY <1>1
<1> SUFFICES ASSUME NEW i \in 1 .. Len(s) + Len(t), NEW j \in 1 .. Len(s) + Len(t),
                    (s \o t)[i] = (s \o t)[j]
             PROVE  i = j
  BY <1>4 DEF IsInjective
<1>5. CASE i \in 1 .. Len(s) /\ j \in 1 .. Len(s)
  BY <1>1, <1>5 DEF IsInjective
<1>6. CASE i \notin 1 .. Len(s) /\ j \notin 1 .. Len(s)
  <2>1. i - Len(s) = j - Len(s)
    BY <1>2, <1>6 DEF IsInjective
  <2> QED BY <2>1
<1> QED BY <1>2, <1>3, <1>5, <1>6

LEMMA InjectiveAppend ==
  ASSUME NEW S, NEW s \in Seq(S), NEW x \in S, IsInjective(s), x \notin ToSet(s)
  PROVE  IsInjective(Append(s, x))
<1>1. /\ Append(s, x) \in Seq(S) /\ Len(Append(s, x)) = Len(s) + 1
      /\ Append(s, x)[Len(s) + 1] = x
      /\ \A i \in 1 .. Len(s) : Append(s, x)[i] = s[i]
  BY AppendProperties
<1>2. \A i \in 1 .. Len(s) : s[i] # x
  BY DEF ToSet
<1>3. \A i \in DOMAIN Append(s, x) : i \in 1 .. Len(s) \/ i = Len(s) + 1
  BY <1>1
<1> QED BY <1>1, <1>2, <1>3 DEF IsInjective
=============================================================================
