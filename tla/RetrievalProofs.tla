-------------------------- MODULE RetrievalProofs --------------------------
(***************************************************************************)
(* Proofs about Retrieval, for any number of requests at once, any         *)
(* candidates, scores, sizes, limits and budgets, and any behaviour of the *)
(* reranker: a response is ordered by its own scores or by Core, the       *)
(* injection is packed as promised, and a reranker that fails costs no     *)
(* candidate.                                                              *)
(*                                                                         *)
(* The lemmas come first: what Unique, rank_items and pack_items do with   *)
(* sequences of any length.                                                *)
(***************************************************************************)
EXTENDS Retrieval, Integers, FiniteSetTheorems, TLAPS

LEMMA Interval ==
    ASSUME NEW n \in Nat
    PROVE  IsFiniteSet(1..n) /\ Cardinality(1..n) = n
<1>1. Cardinality(1..n) = IF 1 > n THEN 0 ELSE n - 1 + 1
  BY FS_Interval
<1> QED
  BY <1>1, FS_Interval

-----------------------------------------------------------------------------
(* Distinct candidates                                                      *)

Distinct(s) == \A i, j \in DOMAIN s : s[i] = s[j] => i = j

\* Unique compares lengths; it means that no two candidates are the same.
LEMMA UniqueIsDistinct ==
    ASSUME NEW S, NEW s \in Seq(S), Unique(s)
    PROVE  Distinct(s)
<1>1. Len(s) \in Nat /\ DOMAIN s = 1..Len(s)
  OBVIOUS
<1>2. s \in Surjection(1..Len(s), ToSet(s))
  BY <1>1 DEF Surjection, ToSet
<1>3. IsFiniteSet(1..Len(s)) /\ Cardinality(1..Len(s)) = Len(s)
  BY <1>1, Interval
<1>4. Cardinality(1..Len(s)) = Cardinality(ToSet(s))
  BY <1>3 DEF Unique
<1>5. s \in Injection(1..Len(s), ToSet(s))
  BY <1>2, <1>3, <1>4, FS_SurjSameCardinalityImpliesInj
<1> QED
  BY <1>1, <1>5 DEF Injection, IsInjective, Distinct

-----------------------------------------------------------------------------
(* Ranking                                                                  *)

\* A score list is a total order of its positions.
LEMMA BetterOrders ==
    ASSUME NEW s \in Seq(Nat), NEW a \in DOMAIN s, NEW b \in DOMAIN s, NEW c \in DOMAIN s
    PROVE  /\ ~Better(s, a, a)
           /\ a # b => Better(s, a, b) \/ Better(s, b, a)
           /\ Better(s, a, b) /\ Better(s, b, c) => Better(s, a, c)
<1>1. s[a] \in Nat /\ s[b] \in Nat /\ s[c] \in Nat /\ a \in Nat /\ b \in Nat /\ c \in Nat
  OBVIOUS
<1> QED
  BY <1>1 DEF Better

\* The positions ranked before one.
Before(s, a) == {b \in DOMAIN s : Better(s, b, a)}

LEMMA BeforeFinite ==
    ASSUME NEW s \in Seq(Nat), NEW a \in DOMAIN s
    PROVE  /\ IsFiniteSet(Before(s, a)) /\ Cardinality(Before(s, a)) \in Nat
           /\ RankOf(s, a) = 1 + Cardinality(Before(s, a))
           /\ RankOf(s, a) \in 1..Len(s)
<1>1. Len(s) \in Nat /\ DOMAIN s = 1..Len(s)
  OBVIOUS
<1>2. IsFiniteSet(1..Len(s)) /\ Cardinality(1..Len(s)) = Len(s)
  BY <1>1, Interval
<1>3. IsFiniteSet(1..Len(s) \ {a}) /\ Cardinality(1..Len(s) \ {a}) = Len(s) - 1
  <2> DEFINE n == Len(s)
  <2>1. n \in Nat /\ a \in 1..n /\ IsFiniteSet(1..n) /\ Cardinality(1..n) = n
    BY <1>1, <1>2
  <2> HIDE DEF n
  <2>2. IsFiniteSet(1..n \ {a}) /\ Cardinality(1..n \ {a}) = n - 1
    BY <2>1, FS_RemoveElement
  <2> QED
    BY <2>2 DEF n
<1>4. Before(s, a) \in SUBSET (1..Len(s) \ {a})
  BY <1>1, BetterOrders DEF Before
<1>5. IsFiniteSet(Before(s, a)) /\ Cardinality(Before(s, a)) <= Len(s) - 1
  BY <1>3, <1>4, FS_Subset
<1>6. Cardinality(Before(s, a)) \in Nat
  BY <1>5, FS_CardinalityType
<1>7. RankOf(s, a) = 1 + Cardinality(Before(s, a))
  BY DEF RankOf, Before
<1> QED
  BY <1>1, <1>5, <1>6, <1>7

\* A better position has a smaller rank.
LEMMA RankFollows ==
    ASSUME NEW s \in Seq(Nat), NEW a \in DOMAIN s, NEW b \in DOMAIN s, Better(s, a, b)
    PROVE  RankOf(s, a) < RankOf(s, b)
<1>1. Before(s, a) \in SUBSET Before(s, b)
  BY BetterOrders DEF Before
<1>2. a \in Before(s, b) /\ a \notin Before(s, a)
  BY BetterOrders DEF Before
<1>3. Cardinality(Before(s, a)) <= Cardinality(Before(s, b))
      /\ Cardinality(Before(s, a)) # Cardinality(Before(s, b))
  BY <1>1, <1>2, BeforeFinite, FS_Subset
<1> QED
  BY <1>3, BeforeFinite

LEMMA RankOrders ==
    ASSUME NEW s \in Seq(Nat), NEW a \in DOMAIN s, NEW b \in DOMAIN s
    PROVE  /\ RankOf(s, a) = RankOf(s, b) => a = b
           /\ RankOf(s, a) < RankOf(s, b) => Better(s, a, b)
<1>1. RankOf(s, a) \in Int /\ RankOf(s, b) \in Int
  BY BeforeFinite
<1> QED
  BY <1>1, RankFollows, BetterOrders

\* Every rank is taken.
LEMMA RankTaken ==
    ASSUME NEW s \in Seq(Nat), NEW i \in DOMAIN s
    PROVE  \E a \in DOMAIN s : RankOf(s, a) = i
<1> DEFINE f == [a \in DOMAIN s |-> RankOf(s, a)]
<1>1. Len(s) \in Nat /\ DOMAIN s = 1..Len(s)
  OBVIOUS
<1>2. IsFiniteSet(1..Len(s))
  BY <1>1, Interval
<1>3. f \in [1..Len(s) -> 1..Len(s)]
  BY <1>1, BeforeFinite
<1>4. \A a, b \in 1..Len(s) : f[a] = f[b] => a = b
  BY <1>1, RankOrders
<1>5. f \in Injection(1..Len(s), 1..Len(s))
  BY <1>3, <1>4 DEF Injection, IsInjective
<1>6. f \in Surjection(1..Len(s), 1..Len(s))
  BY <1>2, <1>5, FS_Injection
<1> QED
  BY <1>1, <1>6 DEF Surjection

\* The position of Core's list that rank_items puts at place i.
From(s, i) == CHOOSE a \in DOMAIN s : RankOf(s, a) = i

LEMMA RankedAt ==
    ASSUME NEW S, NEW items \in Seq(S), NEW s \in Seq(Nat), Len(s) = Len(items),
           NEW i \in DOMAIN items
    PROVE  /\ From(s, i) \in DOMAIN items /\ RankOf(s, From(s, i)) = i
           /\ RankItems(items, s)[i] = items[From(s, i)]
<1>1. Len(s) \in Nat /\ DOMAIN s = 1..Len(s) /\ DOMAIN items = 1..Len(s)
  OBVIOUS
<1>2. From(s, i) \in DOMAIN items /\ RankOf(s, From(s, i)) = i
  BY <1>1, RankTaken DEF From
<1>3. RankItems(items, s) = [k \in 1..Len(s) |-> items[From(s, k)]]
  BY <1>1 DEF RankItems, From
<1> QED
  BY <1>1, <1>2, <1>3

\* rank_items returns a permutation of Core's candidates, the better ones first.
LEMMA RankedItems ==
    ASSUME NEW S, NEW items \in Seq(S), NEW s \in Seq(Nat), Len(s) = Len(items)
    PROVE  /\ RankItems(items, s) \in Seq(S) /\ Len(RankItems(items, s)) = Len(items)
           /\ \A i, j \in DOMAIN items : i < j => Better(s, From(s, i), From(s, j))
           /\ Distinct(items) => Distinct(RankItems(items, s))
<1>1. Len(s) \in Nat /\ DOMAIN s = 1..Len(s) /\ DOMAIN items = 1..Len(s)
  OBVIOUS
<1>2. \A i \in DOMAIN items : From(s, i) \in DOMAIN items /\ RankOf(s, From(s, i)) = i
  BY <1>1, RankTaken DEF From
<1>3. RankItems(items, s) = [i \in 1..Len(s) |-> items[From(s, i)]]
  BY <1>1 DEF RankItems, From
<1>4. \A i \in 1..Len(s) : items[From(s, i)] \in S
  BY <1>1, <1>2
<1>5. RankItems(items, s) \in Seq(S) /\ Len(RankItems(items, s)) = Len(items)
  BY <1>1, <1>3, <1>4
<1>6. \A i, j \in DOMAIN items : i < j => Better(s, From(s, i), From(s, j))
  BY <1>1, <1>2, RankOrders
<1>7. Distinct(items) => Distinct(RankItems(items, s))
  <2>1. DOMAIN RankItems(items, s) = DOMAIN items
    BY <1>1, <1>3
  <2>2. \A i \in DOMAIN items : RankItems(items, s)[i] = items[From(s, i)]
    BY <1>1, <1>3
  <2>3. \A i, j \in DOMAIN items : From(s, i) = From(s, j) => i = j
    BY <1>2
  <2> QED
    BY <1>2, <2>1, <2>2, <2>3 DEF Distinct
<1> QED
  BY <1>5, <1>6, <1>7

-----------------------------------------------------------------------------
(* Packing                                                                  *)

\* How many of the first i items of a list are in a set.
Count(all, kept, i) == Cardinality({k \in 1..i : all[k] \in kept})

LEMMA CountFinite ==
    ASSUME NEW all, NEW kept, NEW i \in Nat
    PROVE  IsFiniteSet({k \in 1..i : all[k] \in kept}) /\ Count(all, kept, i) \in Nat
<1>1. {k \in 1..i : all[k] \in kept} \in SUBSET (1..i)
  OBVIOUS
<1>2. IsFiniteSet({k \in 1..i : all[k] \in kept})
  BY <1>1, Interval, FS_Subset
<1> QED
  BY <1>2, FS_CardinalityType DEF Count

LEMMA CountGrows ==
    ASSUME NEW all, NEW kept, NEW i \in Nat, NEW n \in Nat, i <= n
    PROVE  Count(all, kept, i) <= Count(all, kept, n)
<1> DEFINE T == {k \in 1..i : all[k] \in kept}
           S == {k \in 1..n : all[k] \in kept}
<1>1. T \in SUBSET S
  OBVIOUS
<1>2. IsFiniteSet(S)
  BY CountFinite
<1>3. Cardinality(T) <= Cardinality(S)
  <2> HIDE DEF S, T
  <2> QED
    BY <1>1, <1>2, FS_Subset
<1> QED
  BY <1>3 DEF Count

LEMMA CountNext ==
    ASSUME NEW all, NEW kept, NEW n \in Nat
    PROVE  Count(all, kept, n + 1) =
               IF all[n + 1] \in kept THEN Count(all, kept, n) + 1 ELSE Count(all, kept, n)
<1> DEFINE S == {k \in 1..n : all[k] \in kept}
           T == {k \in 1..(n + 1) : all[k] \in kept}
<1>1. T = IF all[n + 1] \in kept THEN S \cup {n + 1} ELSE S
  OBVIOUS
<1>2. n + 1 \notin S
  OBVIOUS
<1>3. IsFiniteSet(S)
  BY CountFinite
<1>4. Cardinality(S \cup {n + 1}) = Cardinality(S) + 1
  <2> HIDE DEF S
  <2> QED
    BY <1>2, <1>3, FS_AddElement
<1>5. Cardinality(T) = IF all[n + 1] \in kept THEN Cardinality(S) + 1 ELSE Cardinality(S)
  <2> HIDE DEF S, T
  <2> QED
    BY <1>1, <1>4
<1> QED
  BY <1>5 DEF Count

LEMMA CountAgrees ==
    ASSUME NEW all, NEW kept, NEW more, NEW i \in Nat,
           \A k \in 1..i : all[k] \in kept <=> all[k] \in more
    PROVE  Count(all, kept, i) = Count(all, more, i)
<1>1. {k \in 1..i : all[k] \in kept} = {k \in 1..i : all[k] \in more}
  OBVIOUS
<1> QED
  BY <1>1 DEF Count

LEMMA CountAll ==
    ASSUME NEW all, NEW kept, NEW i \in Nat, \A k \in 1..i : all[k] \in kept
    PROVE  Count(all, kept, i) = i
<1>1. {k \in 1..i : all[k] \in kept} = 1..i
  OBVIOUS
<1> QED
  BY <1>1, Interval DEF Count

\* pack_items has looked at the first n items of a list and kept c of them.
Filled(all, c, n) ==
    /\ n \in 0..Len(all) /\ (n >= MinK \/ n = Len(all))
    /\ \A j \in DOMAIN c : \E i \in 1..n : c[j] = all[i]
    /\ \A i, j \in DOMAIN c : \A a, b \in 1..n :
          c[i] = all[a] /\ c[j] = all[b] /\ i < j => a < b
    /\ \A i \in 1..n : i <= MinK => all[i] \in ToSet(c)
    /\ Len(c) > MinK => Fits(c)
    /\ Count(all, ToSet(c), n) = Len(c)
    /\ \A i \in 1..n :
          IF all[i] \in ToSet(c) THEN c[Count(all, ToSet(c), i)] = all[i]
          ELSE ~Fits(Append(SubSeq(c, 1, Count(all, ToSet(c), i)), all[i]))

LEMMA FirstItems ==
    ASSUME NEW S, NEW all \in Seq(S), NEW k \in Nat
    PROVE  /\ First(all, k) \in Seq(S)
           /\ Len(First(all, k)) = IF Len(all) < k THEN Len(all) ELSE k
           /\ \A i \in 1..Len(First(all, k)) : First(all, k)[i] = all[i]
<1> DEFINE n == IF Len(all) < k THEN Len(all) ELSE k
<1>1. n \in Nat /\ n <= Len(all) /\ Len(all) \in Nat
  OBVIOUS
<1>2. First(all, k) = SubSeq(all, 1, n)
  BY DEF First
<1> HIDE DEF n
<1>3. SubSeq(all, 1, n) \in Seq(S) /\ Len(SubSeq(all, 1, n)) = n
      /\ \A i \in 1..n : SubSeq(all, 1, n)[i] = all[i]
  BY <1>1
<1> QED
  BY <1>2, <1>3 DEF n

\* The first MinK items.
LEMMA FillBegins ==
    ASSUME NEW S, NEW all \in Seq(S), Distinct(all)
    PROVE  Filled(all, First(all, MinK), Len(First(all, MinK)))
<1> DEFINE c == First(all, MinK)
           n == Len(c)
<1>1. MinK \in Nat /\ Len(all) \in Nat /\ DOMAIN all = 1..Len(all)
  BY RetrievalAssumption
<1>2. c \in Seq(S) /\ n = (IF Len(all) < MinK THEN Len(all) ELSE MinK)
      /\ \A i \in 1..n : c[i] = all[i]
  BY <1>1, FirstItems
<1> HIDE DEF c
<1>3. n \in 0..Len(all) /\ (n >= MinK \/ n = Len(all)) /\ DOMAIN c = 1..n /\ ~(n > MinK)
  BY <1>1, <1>2
<1>4. \A i \in 1..n : all[i] \in ToSet(c)
  BY <1>2, <1>3 DEF ToSet
<1>5. \A i \in 0..n : Count(all, ToSet(c), i) = i
  <2>1. TAKE i \in 0..n
  <2>2. i \in Nat /\ \A k \in 1..i : all[k] \in ToSet(c)
    BY <1>3, <1>4
  <2> QED
    BY <2>2, CountAll
<1>6. \A i, j \in DOMAIN c : \A a, b \in 1..n :
          c[i] = all[a] /\ c[j] = all[b] /\ i < j => a < b
  BY <1>1, <1>2, <1>3 DEF Distinct
<1> QED
  BY <1>2, <1>3, <1>4, <1>5, <1>6 DEF Filled, c

\* An item that fits.
LEMMA FillKeeps ==
    ASSUME NEW S, NEW all \in Seq(S), Distinct(all), NEW c \in Seq(S), NEW n \in Nat,
           Filled(all, c, n), n < Len(all), Fits(Append(c, all[n + 1]))
    PROVE  Filled(all, Append(c, all[n + 1]), n + 1)
<1> DEFINE d == Append(c, all[n + 1])
           new == all[n + 1]
<1>1. MinK \in Nat /\ Len(all) \in Nat /\ DOMAIN all = 1..Len(all) /\ Len(c) \in Nat
      /\ DOMAIN c = 1..Len(c) /\ n + 1 \in 1..Len(all) /\ new \in S
  BY RetrievalAssumption
<1>2. d \in Seq(S) /\ Len(d) = Len(c) + 1 /\ DOMAIN d = 1..(Len(c) + 1)
      /\ d[Len(c) + 1] = new /\ \A i \in 1..Len(c) : d[i] = c[i]
  BY <1>1
<1> HIDE DEF d
<1>3. ToSet(d) = ToSet(c) \cup {new}
  BY <1>1, <1>2 DEF ToSet
<1>4. \A i \in 1..n : all[i] # new
  BY <1>1 DEF Distinct
<1>5. \A i \in 0..n : /\ Count(all, ToSet(d), i) = Count(all, ToSet(c), i)
                      /\ Count(all, ToSet(c), i) \in 0..Len(c)
  <2>1. TAKE i \in 0..n
  <2>2. i \in Nat /\ i <= n
    OBVIOUS
  <2>3. \A k \in 1..i : all[k] \in ToSet(d) <=> all[k] \in ToSet(c)
    BY <1>3, <1>4, <2>2
  <2>4. Count(all, ToSet(d), i) = Count(all, ToSet(c), i)
    BY <2>2, <2>3, CountAgrees
  <2>5. Count(all, ToSet(c), i) \in Nat /\ Count(all, ToSet(c), i) <= Count(all, ToSet(c), n)
    BY <2>2, CountFinite, CountGrows
  <2>6. Count(all, ToSet(c), n) = Len(c)
    BY DEF Filled
  <2> QED
    BY <1>1, <2>4, <2>5, <2>6
<1>6. Count(all, ToSet(d), n + 1) = Len(c) + 1
  <2>1. Count(all, ToSet(d), n + 1) = Count(all, ToSet(d), n) + 1
    BY <1>3, CountNext
  <2> QED
    BY <1>5, <2>1 DEF Filled
<1>7. \A m \in 0..Len(c) : SubSeq(d, 1, m) = SubSeq(c, 1, m)
  BY <1>1, <1>2
<1>8. \A i \in 1..(n + 1) :
          IF all[i] \in ToSet(d) THEN d[Count(all, ToSet(d), i)] = all[i]
          ELSE ~Fits(Append(SubSeq(d, 1, Count(all, ToSet(d), i)), all[i]))
  <2>1. TAKE i \in 1..(n + 1)
  <2>2. CASE i = n + 1
    BY <1>2, <1>3, <1>6, <2>2
  <2>3. CASE i \in 1..n
    <3>1. all[i] \in ToSet(d) <=> all[i] \in ToSet(c)
      BY <1>3, <1>4, <2>3
    <3>2. Count(all, ToSet(d), i) = Count(all, ToSet(c), i)
          /\ Count(all, ToSet(c), i) \in 0..Len(c)
      BY <1>5, <2>3
    <3>3. CASE all[i] \in ToSet(c)
      <4>1. 1 <= Count(all, ToSet(c), i)
        <5>1. i - 1 \in Nat /\ i = i - 1 + 1
          BY <2>3
        <5>2. Count(all, ToSet(c), i - 1 + 1) = Count(all, ToSet(c), i - 1) + 1
          BY <3>3, <5>1, CountNext
        <5>3. Count(all, ToSet(c), i - 1) \in Nat
          BY <5>1, CountFinite
        <5> QED
          BY <5>1, <5>2, <5>3
      <4>2. c[Count(all, ToSet(c), i)] = all[i]
        BY <2>3, <3>3 DEF Filled
      <4> QED
        BY <1>1, <1>2, <3>1, <3>2, <3>3, <4>1, <4>2
    <3>4. CASE all[i] \notin ToSet(c)
      <4>1. ~Fits(Append(SubSeq(c, 1, Count(all, ToSet(c), i)), all[i]))
        BY <2>3, <3>4 DEF Filled
      <4> QED
        BY <1>7, <3>1, <3>2, <3>4, <4>1
    <3> QED
      BY <3>3, <3>4
  <2> QED
    BY <2>1, <2>2, <2>3
<1>9. \A j \in DOMAIN d : \E i \in 1..(n + 1) : d[j] = all[i]
  <2>1. TAKE j \in DOMAIN d
  <2>2. CASE j \in DOMAIN c
    <3>1. PICK i \in 1..n : c[j] = all[i]
      BY <2>2 DEF Filled
    <3> QED
      BY <1>1, <1>2, <2>2, <3>1
  <2>3. CASE j = Len(c) + 1
    BY <1>1, <1>2, <2>3
  <2> QED
    BY <1>1, <1>2, <2>2, <2>3
<1>10. \A i, j \in DOMAIN d : \A a, b \in 1..(n + 1) :
          d[i] = all[a] /\ d[j] = all[b] /\ i < j => a < b
  <2> SUFFICES ASSUME NEW i \in DOMAIN d, NEW j \in DOMAIN d,
                      NEW a \in 1..(n + 1), NEW b \in 1..(n + 1),
                      d[i] = all[a], d[j] = all[b], i < j
               PROVE  a < b
    OBVIOUS
  <2>1. i \in DOMAIN c /\ d[i] = c[i]
    BY <1>1, <1>2
  <2>2. PICK x \in 1..n : c[i] = all[x]
    BY <2>1 DEF Filled
  <2>3. a = x
    <3>1. a \in DOMAIN all /\ x \in DOMAIN all /\ all[a] = all[x]
      BY <1>1, <2>1, <2>2
    <3> QED
      BY <3>1 DEF Distinct
  <2>4. CASE j = Len(c) + 1
    <3>1. b = n + 1
      BY <1>1, <1>2, <2>4 DEF Distinct
    <3> QED
      BY <2>2, <2>3, <3>1
  <2>5. CASE j \in DOMAIN c
    <3>1. PICK y \in 1..n : c[j] = all[y]
      BY <2>5 DEF Filled
    <3>2. b = y
      <4>1. b \in DOMAIN all /\ y \in DOMAIN all /\ all[b] = all[y]
        BY <1>1, <1>2, <2>5, <3>1
      <4> QED
        BY <4>1 DEF Distinct
    <3> QED
      BY <2>1, <2>2, <2>3, <2>5, <3>1, <3>2 DEF Filled
  <2> QED
    BY <1>1, <1>2, <2>4, <2>5
<1>11. n + 1 \in 0..Len(all) /\ n + 1 >= MinK
  <2>1. n >= MinK \/ n = Len(all)
    BY DEF Filled
  <2>2. MinK \in Nat /\ Len(all) \in Nat
    BY <1>1
  <2>3. n >= MinK
    BY <2>1, <2>2
  <2> QED
    BY <2>2, <2>3
<1>12. \A i \in 1..(n + 1) : i <= MinK => all[i] \in ToSet(d)
  BY <1>3 DEF Filled
<1>13. Fits(d)
  BY DEF d
<1> QED
  BY <1>2, <1>6, <1>8, <1>9, <1>10, <1>11, <1>12, <1>13 DEF Filled, d

\* An item that does not.
LEMMA FillSkips ==
    ASSUME NEW S, NEW all \in Seq(S), Distinct(all), NEW c \in Seq(S), NEW n \in Nat,
           Filled(all, c, n), n < Len(all), ~Fits(Append(c, all[n + 1]))
    PROVE  Filled(all, c, n + 1)
<1>1. MinK \in Nat /\ Len(all) \in Nat /\ DOMAIN all = 1..Len(all) /\ Len(c) \in Nat
      /\ DOMAIN c = 1..Len(c) /\ n + 1 \in 1..Len(all)
  BY RetrievalAssumption
<1>2. n >= MinK
  <2>1. n >= MinK \/ n = Len(all)
    BY DEF Filled
  <2>2. MinK \in Nat /\ Len(all) \in Nat
    BY <1>1
  <2> QED
    BY <2>1, <2>2
<1>3. all[n + 1] \notin ToSet(c)
  <2> SUFFICES ASSUME NEW j \in DOMAIN c, c[j] = all[n + 1]
               PROVE  FALSE
    BY DEF ToSet
  <2>1. PICK i \in 1..n : c[j] = all[i]
    BY DEF Filled
  <2>2. i \in DOMAIN all /\ n + 1 \in DOMAIN all /\ all[i] = all[n + 1] /\ i # n + 1
    BY <1>1, <2>1
  <2> QED
    BY <2>2 DEF Distinct
<1>4. Count(all, ToSet(c), n + 1) = Len(c)
  BY <1>3, CountNext DEF Filled
<1>5. SubSeq(c, 1, Len(c)) = c
  BY <1>1
<1>6. \A i \in 1..(n + 1) :
          IF all[i] \in ToSet(c) THEN c[Count(all, ToSet(c), i)] = all[i]
          ELSE ~Fits(Append(SubSeq(c, 1, Count(all, ToSet(c), i)), all[i]))
  <2>1. TAKE i \in 1..(n + 1)
  <2>2. CASE i = n + 1
    BY <1>3, <1>4, <1>5, <2>2
  <2>3. CASE i \in 1..n
    BY <2>3 DEF Filled
  <2> QED
    BY <2>1, <2>2, <2>3
<1>7. \A j \in DOMAIN c : \E i \in 1..(n + 1) : c[j] = all[i]
  BY DEF Filled
<1>8. \A i, j \in DOMAIN c : \A a, b \in 1..(n + 1) :
          c[i] = all[a] /\ c[j] = all[b] /\ i < j => a < b
  <2> SUFFICES ASSUME NEW i \in DOMAIN c, NEW j \in DOMAIN c,
                      NEW a \in 1..(n + 1), NEW b \in 1..(n + 1),
                      c[i] = all[a], c[j] = all[b], i < j
               PROVE  a < b
    OBVIOUS
  <2>1. a # n + 1 /\ b # n + 1
    BY <1>3 DEF ToSet
  <2>2. a \in 1..n /\ b \in 1..n
    BY <2>1
  <2> QED
    BY <2>2 DEF Filled
<1>9. n + 1 \in 0..Len(all) /\ n + 1 >= MinK /\ \A i \in 1..(n + 1) : i <= MinK => i \in 1..n
  BY <1>1, <1>2
<1>10. \A i \in 1..(n + 1) : i <= MinK => all[i] \in ToSet(c)
  BY <1>9 DEF Filled
<1> QED
  BY <1>4, <1>6, <1>7, <1>8, <1>9, <1>10 DEF Filled

-----------------------------------------------------------------------------
(* The inductive invariant                                                  *)

Early == {"idle", "embed", "object", "retrieve"}
Serving == {"start", "send", "receive"}   \* with the lock
Ranking == {"rank", "lock"} \cup Serving

\* The candidates in the order they are packed: by the scores of this request, or
\* Core's.
Ordered(r) ==
    \/ /\ status[r] = "reranked" /\ Len(given[r]) = Len(pool[r])
       /\ ranked[r] = RankItems(pool[r], given[r])
    \/ status[r] = "core_fallback" /\ ranked[r] = pool[r]

\* What a request has made of Core's candidates.
Handled(r) ==
    /\ pc[r] \in Early \cup Ranking => status[r] = "none"
    /\ pc[r] \in Ranking \cup {"pack"} => pool[r] # <<>> /\ chosen[r] = pool[r]
    /\ pc[r] = "pack" => Ordered(r)
    /\ pc[r] = "fill" =>
          /\ legend[r] = "complete" /\ Ordered(r) /\ pool[r] # <<>> /\ chosen[r] # <<>>
          /\ Unique(pool[r]) => Filled(ranked[r], chosen[r], packed[r])
    /\ pc[r] = "record" =>
          IF status[r] = "none" \/ legend[r] = "gaps"
          THEN status[r] # "reranked" /\ chosen[r] = pool[r]
          ELSE /\ Ordered(r) /\ pool[r] # <<>> /\ chosen[r] # <<>>
               /\ Unique(pool[r]) => Filled(ranked[r], chosen[r], Len(ranked[r]))

\* Both vectors the runtime gives are of one model from the second one on.
OfOneModel(r) ==
    embedder = "runtime" /\ pc[r] \in Ranking \cup {"retrieve", "pack", "fill", "record"} =>
        embedded[r].value = embedded[r].object

\* A response is Core's record of it, and the reranker is no reason for none.
Answered(r) ==
    /\ answer[r] = "ok" => pc[r] = "done" /\ recorded[r] = Outcome(r)
    /\ pc[r] = "done" /\ broken[r] = "no" /\ Unique(pool[r]) =>
          answer[r] = "ok" /\ (pool[r] # <<>> => chosen[r] # <<>>)

PerRequest(r) == Handled(r) /\ OfOneModel(r) /\ Answered(r)

\* The pipe holds nothing but the answer to the request that has the lock.
Exchange ==
    /\ \A r \in Requests : pc[r] \in Serving <=> lock = r
    /\ inbox # Nobody => pc[inbox] = "receive" /\ pipe = <<>>
    /\ pipe # <<>> =>
          /\ lock # Nobody /\ inbox = Nobody /\ pc[lock] = "receive" /\ Len(pipe) = 1
          /\ pipe[1].kind = "scores" => pipe[1].scores = given[lock]

RetrievalInv == TypeOK /\ Exchange /\ \A r \in Requests : PerRequest(r)


LEMMA InitInv ==
    ASSUME Init
    PROVE  RetrievalInv
<1>1. TypeOK
  BY RetrievalAssumption DEF Init, TypeOK, Models, NoModels, NoRecord, Answers
<1>2. Exchange
  BY RetrievalAssumption DEF Init, Exchange, Serving
<1>3. \A r \in Requests : PerRequest(r)
  BY DEF Init, PerRequest, Handled, OfOneModel, Answered, Early, Ranking, Serving
<1> QED
  BY <1>1, <1>2, <1>3 DEF RetrievalInv

-----------------------------------------------------------------------------
(* A step of one request leaves the others as they are.                     *)

Same(q) ==
    /\ pc'[q] = pc[q] /\ embedded'[q] = embedded[q] /\ pool'[q] = pool[q]
    /\ legend'[q] = legend[q] /\ ranked'[q] = ranked[q] /\ packed'[q] = packed[q]
    /\ chosen'[q] = chosen[q] /\ status'[q] = status[q] /\ recorded'[q] = recorded[q]
    /\ answer'[q] = answer[q] /\ given'[q] = given[q] /\ broken'[q] = broken[q]
    /\ embedder' = embedder

LEMMA Frame ==
    ASSUME NEW q, PerRequest(q), Same(q)
    PROVE  PerRequest(q)'
<1>1. Handled(q)'
  BY DEF PerRequest, Same, Handled, Ordered
<1>2. OfOneModel(q)'
  BY DEF PerRequest, Same, OfOneModel
<1>3. Answered(q)'
  BY DEF PerRequest, Same, Answered, Outcome
<1> QED
  BY <1>1, <1>2, <1>3 DEF PerRequest

-----------------------------------------------------------------------------
(* What the steps of several actions do                                     *)

LEMMA PoolType ==
    ASSUME TypeOK, NEW r \in Requests
    PROVE  pool[r] \in Seq(Items)
<1>1. <<>> \in Seq(Items)
  OBVIOUS
<1> QED
  BY <1>1, RetrievalAssumption DEF TypeOK

LEMMA GotoType ==
    ASSUME TypeOK, NEW r \in Requests,
           NEW label \in {"idle", "embed", "object", "retrieve", "rank", "lock", "start", "send",
                          "receive", "pack", "fill", "record", "done"}, Goto(r, label)
    PROVE  pc' \in [Requests -> {"idle", "embed", "object", "retrieve", "rank", "lock", "start",
                                 "send", "receive", "pack", "fill", "record", "done"}]
  BY DEF TypeOK, Goto

LEMMA ReplyType ==
    ASSUME TypeOK, NEW r \in Requests, NEW how \in {"ok", "failed"}, Reply(r, how),
           mode' \in Modes /\ embedder' \in Embedders /\ profile' \in Models,
           pool' \in [Requests -> Pools \cup {<<>>}] /\ chosen' \in [Requests -> Seq(Items)],
           recorded' \in [Requests -> [candidates : SUBSET Items, delivered : SUBSET Items]],
           broken' \in [Requests -> {"no", "yes"}], UNCHANGED <<lock, worker>>
    PROVE  TypeOK'
<1>1. <<>> \in Seq(Items) /\ <<>> \in Seq(Scores)
  OBVIOUS
<1>2. NoModels \in [value : Models, object : Models]
  BY RetrievalAssumption DEF NoModels, Models
<1>3. ranked' \in [Requests -> Seq(Items)] /\ given' \in [Requests -> Seq(Scores)]
  BY <1>1 DEF TypeOK, Reply
<1>4. embedded' \in [Requests -> [value : Models, object : Models]]
  BY <1>2 DEF TypeOK, Reply
<1>5. /\ packed' \in [Requests -> Nat] /\ answer' \in [Requests -> Answers]
      /\ legend' \in [Requests -> {"complete", "gaps"}]
      /\ status' \in [Requests -> {"none", "reranked", "core_fallback"}]
  BY DEF TypeOK, Reply, Answers
<1>6. pc' \in [Requests -> {"idle", "embed", "object", "retrieve", "rank", "lock", "start",
                            "send", "receive", "pack", "fill", "record", "done"}]
  BY GotoType DEF Reply
<1>7. /\ lock' \in Requests \cup {Nobody}
      /\ child' \in {"absent", "starting", "ready", "dead"} /\ inbox' \in Requests \cup {Nobody}
      /\ pipe' \in Seq([kind : {"scores", "error"}, scores : Seq(Scores)])
  BY DEF TypeOK, worker
<1> QED
  BY <1>3, <1>4, <1>5, <1>6, <1>7 DEF TypeOK

\* The process's side of TypeOK.
WorkerOK ==
    /\ lock \in Requests \cup {Nobody}
    /\ child \in {"absent", "starting", "ready", "dead"} /\ inbox \in Requests \cup {Nobody}
    /\ pipe \in Seq([kind : {"scores", "error"}, scores : Seq(Scores)])

LEMMA StopChildType ==
    ASSUME StopChild, lock' \in Requests \cup {Nobody}
    PROVE  WorkerOK'
<1>1. <<>> \in Seq([kind : {"scores", "error"}, scores : Seq(Scores)])
  OBVIOUS
<1> QED
  BY <1>1 DEF StopChild, WorkerOK

LEMMA RankedType ==
    ASSUME TypeOK, NEW r \in Requests, NEW order \in Seq(Items),
           ranked' = [ranked EXCEPT ![r] = order],
           NEW s \in {"reranked", "core_fallback"}, status' = [status EXCEPT ![r] = s],
           Goto(r, "pack"),
           UNCHANGED <<mode, embedder, profile, embedded, pool, legend, packed, chosen, recorded,
                       answer, broken>>,
           given' \in [Requests -> Seq(Scores)], WorkerOK'
    PROVE  TypeOK'
<1>1. ranked' \in [Requests -> Seq(Items)]
  BY DEF TypeOK
<1>2. status' \in [Requests -> {"none", "reranked", "core_fallback"}]
  BY DEF TypeOK
<1>3. pc' \in [Requests -> {"idle", "embed", "object", "retrieve", "rank", "lock", "start",
                            "send", "receive", "pack", "fill", "record", "done"}]
  BY GotoType
<1> QED
  BY <1>1, <1>2, <1>3 DEF TypeOK, WorkerOK

LEMMA FallbackType ==
    ASSUME TypeOK, NEW r \in Requests, Fallback(r),
           UNCHANGED <<mode, embedder, profile, embedded, pool, legend, packed, chosen, recorded,
                       given, broken>>,
           WorkerOK'
    PROVE  TypeOK'
<1>1. pool[r] \in Seq(Items)
  BY PoolType
<1>2. ranked' = [ranked EXCEPT ![r] = pool[r]] /\ status' = [status EXCEPT ![r] = "core_fallback"]
      /\ Goto(r, "pack") /\ UNCHANGED answer
  BY DEF Fallback
<1>3. given' \in [Requests -> Seq(Scores)]
  BY DEF TypeOK
<1> QED
  BY <1>1, <1>2, <1>3, RankedType

\* A step of a request that neither has nor takes the lock.
LEMMA Outside ==
    ASSUME TypeOK, Exchange, NEW r \in Requests, NEW label, Goto(r, label),
           pc[r] \notin Serving, label \notin Serving, UNCHANGED <<lock, worker>>,
           \A q \in Requests : q # r => given'[q] = given[q]
    PROVE  Exchange'
<1>1. \A q \in Requests : pc'[q] \in Serving <=> pc[q] \in Serving
  BY DEF TypeOK, Goto
<1>2. \A q \in Requests : pc[q] \in Serving => pc'[q] = pc[q] /\ given'[q] = given[q]
  BY DEF TypeOK, Goto
<1>3. lock # Nobody => lock \in Requests /\ pc[lock] \in Serving
  BY DEF TypeOK, Exchange
<1>4. inbox # Nobody => inbox \in Requests /\ pc[inbox] \in Serving
  BY DEF TypeOK, Exchange, Serving
<1> QED
  BY <1>1, <1>2, <1>3, <1>4 DEF Exchange, worker

\* A request that has the lock gives it back, and nothing is left in the pipe.
LEMMA LetsGo ==
    ASSUME TypeOK, Exchange, NEW r \in Requests, NEW label, Goto(r, label),
           pc[r] \in Serving, label \notin Serving, lock' = Nobody, inbox' = Nobody, pipe' = <<>>
    PROVE  Exchange'
<1>1. lock = r
  BY DEF Exchange
<1>2. \A q \in Requests : pc'[q] \in Serving <=> q # r /\ pc[q] \in Serving
  BY DEF TypeOK, Goto
<1>3. \A q \in Requests : pc'[q] \notin Serving /\ q # Nobody
  BY <1>1, <1>2, RetrievalAssumption DEF Exchange
<1> QED
  BY <1>3 DEF Exchange

\* A reply is the end of one request.
LEMMA ReplySame ==
    ASSUME TypeOK, NEW r \in Requests, NEW how, Reply(r, how), UNCHANGED <<embedder, pool, chosen>>,
           \A q \in Requests : q # r => recorded'[q] = recorded[q] /\ broken'[q] = broken[q]
    PROVE  \A q \in Requests : q # r => Same(q)
<1>1. TAKE q \in Requests
<1>2. HAVE q # r
<1>3. pc'[q] = pc[q] /\ answer'[q] = answer[q] /\ embedded'[q] = embedded[q]
  BY <1>2 DEF TypeOK, Reply, Goto
<1>4. ranked'[q] = ranked[q] /\ packed'[q] = packed[q] /\ given'[q] = given[q]
  BY <1>2 DEF TypeOK, Reply
<1>5. legend'[q] = legend[q] /\ status'[q] = status[q]
  BY <1>2 DEF TypeOK, Reply
<1> QED
  BY <1>2, <1>3, <1>4, <1>5 DEF Same

LEMMA ReplyDone ==
    ASSUME TypeOK, NEW r \in Requests, NEW how, Reply(r, how)
    PROVE  pc'[r] = "done" /\ answer'[r] = how
  BY DEF TypeOK, Reply, Goto

\* What is done is neither ranked nor packed nor compared.
LEMMA DoneHandled ==
    ASSUME NEW r, pc'[r] = "done"
    PROVE  Handled(r)' /\ OfOneModel(r)'
  BY DEF Handled, OfOneModel, Early, Ranking, Serving

-----------------------------------------------------------------------------
(* Scores and the order they give                                           *)

LEMMA ScoresAreNat ==
    ASSUME NEW s \in Seq(Scores)
    PROVE  s \in Seq(Nat)
<1>1. Len(s) \in Nat /\ s = [i \in 1..Len(s) |-> s[i]] /\ \A i \in 1..Len(s) : s[i] \in Scores
  OBVIOUS
<1>2. Scores \subseteq Nat
  BY RetrievalAssumption
<1>3. s \in [1..Len(s) -> Nat]
  BY <1>1, <1>2
<1> QED
  BY <1>1, <1>3

\* The candidates in the order they are packed are Core's, and distinct if those are.
LEMMA OrderedItems ==
    ASSUME TypeOK, NEW r \in Requests, Ordered(r)
    PROVE  /\ ranked[r] \in Seq(Items) /\ Len(ranked[r]) = Len(pool[r])
           /\ Unique(pool[r]) => Distinct(ranked[r])
<1>1. pool[r] \in Seq(Items) /\ given[r] \in Seq(Scores) /\ ranked[r] \in Seq(Items)
  BY PoolType DEF TypeOK
<1>2. Unique(pool[r]) => Distinct(pool[r])
  BY <1>1, UniqueIsDistinct
<1>3. CASE status[r] = "reranked" /\ Len(given[r]) = Len(pool[r])
           /\ ranked[r] = RankItems(pool[r], given[r])
  <2>1. given[r] \in Seq(Nat)
    BY <1>1, ScoresAreNat
  <2>2. Len(RankItems(pool[r], given[r])) = Len(pool[r])
    BY <1>1, <1>3, <2>1, RankedItems
  <2>3. Distinct(pool[r]) => Distinct(RankItems(pool[r], given[r]))
    BY <1>1, <1>3, <2>1, RankedItems
  <2> QED
    BY <1>1, <1>2, <1>3, <2>2, <2>3
<1>4. CASE ranked[r] = pool[r]
  BY <1>1, <1>2, <1>4
<1> QED
  BY <1>3, <1>4 DEF Ordered

\* The score a service's answer gives for each document.
GivenBy(rows) ==
    [k \in DOMAIN rows |-> (CHOOSE row \in ToSet(rows) : row.index = k).score]

RowOf(rows, k) == CHOOSE row \in ToSet(rows) : row.index = k
IndexOf(rows, k) == CHOOSE i \in DOMAIN rows : rows[i].index = k

\* ApiReranker.score reads them by index from an answer that is valid.
LEMMA ApiScoresValid ==
    ASSUME NEW n \in Nat \ {0}, NEW rows \in Rows(n), RowsValid(rows, n)
    PROVE  /\ GivenBy(rows) = ApiScores(rows)
           /\ ApiScores(rows) \in Seq(Scores) /\ Len(ApiScores(rows)) = n
<1>1. rows # <<>>
  <2> SUFFICES ASSUME rows = <<>>
               PROVE  FALSE
    OBVIOUS
  <2>1. 1 \in 1..n /\ DOMAIN rows = {}
    OBVIOUS
  <2>2. {rows[i].index : i \in DOMAIN rows} = 1..n
    BY DEF RowsValid
  <2> QED
    BY <2>1, <2>2
<1>2. rows \in [1..n -> [index : 1..n, score : Scores]]
  BY <1>1 DEF Rows
<1>3. DOMAIN rows = 1..n /\ \A k \in 1..n : rows[k].score \in Scores
  BY <1>2
<1>4. ASSUME NEW k \in 1..n
      PROVE  /\ RowOf(rows, k).score = rows[IndexOf(rows, k)].score
             /\ rows[IndexOf(rows, k)].score \in Scores
  <2>1. k \in {rows[i].index : i \in DOMAIN rows}
    BY DEF RowsValid
  <2>2. PICK i \in DOMAIN rows : rows[i].index = k
    BY <2>1
  <2>3. IndexOf(rows, k) = i
    BY <2>2 DEF RowsValid, IndexOf
  <2>4. rows[i] \in ToSet(rows) /\ \A row \in ToSet(rows) : row.index = k => row = rows[i]
    BY <2>2 DEF RowsValid, ToSet
  <2>5. RowOf(rows, k) = rows[i]
    BY <2>2, <2>4 DEF RowOf
  <2> QED
    BY <1>3, <2>2, <2>3, <2>5
<1>5. GivenBy(rows) = [k \in 1..n |-> RowOf(rows, k).score]
  BY <1>3 DEF GivenBy, RowOf
<1>6. ApiScores(rows) = [k \in 1..n |-> rows[IndexOf(rows, k)].score]
  BY <1>3 DEF ApiScores, IndexOf
<1>7. ApiScores(rows) \in [1..n -> Scores]
  BY <1>4, <1>6
<1>8. GivenBy(rows) = ApiScores(rows)
  BY <1>4, <1>5, <1>6
<1> QED
  BY <1>7, <1>8


LEMMA BeginStep ==
    ASSUME RetrievalInv, NEW r \in Requests, Begin(r)
    PROVE  RetrievalInv'
<1>1. TypeOK /\ Exchange /\ PerRequest(r)
  BY DEF RetrievalInv
<1>2. TypeOK'
  BY <1>1 DEF TypeOK, Begin, Goto, request, worker
<1>3. Exchange'
  BY <1>1 DEF Exchange, TypeOK, Begin, Goto, request, worker, Serving
<1>4. \A q \in Requests : q # r => PerRequest(q)'
  <2>1. \A q \in Requests : q # r => Same(q)
    BY <1>1 DEF TypeOK, Same, Begin, Goto, request, worker
  <2> QED
    BY <2>1, Frame DEF RetrievalInv
<1>5. Handled(r)'
  BY <1>1 DEF PerRequest, Handled, Ordered, TypeOK, Early, Ranking, Serving, Begin,
              Goto, request, worker
<1>6. OfOneModel(r)'
  BY <1>1 DEF PerRequest, OfOneModel, TypeOK, Ranking, Serving, Begin, Goto,
              request, worker
<1>7. Answered(r)'
  BY <1>1 DEF PerRequest, Answered, Outcome, TypeOK, Begin, Goto, request, worker
<1> QED
  BY <1>2, <1>3, <1>4, <1>5, <1>6, <1>7 DEF RetrievalInv, PerRequest

LEMMA EmbedValueStep ==
    ASSUME RetrievalInv, NEW r \in Requests, EmbedValue(r)
    PROVE  RetrievalInv'
<1>1. TypeOK /\ Exchange /\ PerRequest(r)
  BY DEF RetrievalInv
<1>2. TypeOK'
  BY <1>1 DEF TypeOK, EmbedValue, Goto, request, worker, Models
<1>3. Exchange'
  BY <1>1 DEF Exchange, TypeOK, EmbedValue, Goto, request, worker, Serving
<1>4. \A q \in Requests : q # r => PerRequest(q)'
  <2>1. \A q \in Requests : q # r => Same(q)
    BY <1>1 DEF TypeOK, Same, EmbedValue, Goto, request, worker
  <2> QED
    BY <2>1, Frame DEF RetrievalInv
<1>5. Handled(r)'
  BY <1>1 DEF PerRequest, Handled, Ordered, TypeOK, Early, Ranking, Serving,
              EmbedValue, Goto, request, worker
<1>6. OfOneModel(r)'
  BY <1>1 DEF PerRequest, OfOneModel, TypeOK, Ranking, Serving, EmbedValue, Goto,
              request, worker
<1>7. Answered(r)'
  BY <1>1 DEF PerRequest, Answered, Outcome, TypeOK, EmbedValue, Goto, request, worker
<1> QED
  BY <1>2, <1>3, <1>4, <1>5, <1>6, <1>7 DEF RetrievalInv, PerRequest

LEMMA SuppliedStep ==
    ASSUME RetrievalInv, NEW r \in Requests, Supplied(r)
    PROVE  RetrievalInv'
<1>1. TypeOK /\ Exchange /\ PerRequest(r)
  BY DEF RetrievalInv
<1>2. TypeOK'
  BY <1>1 DEF TypeOK, Supplied, Goto, request, worker
<1>3. Exchange'
  BY <1>1 DEF Exchange, TypeOK, Supplied, Goto, request, worker, Serving
<1>4. \A q \in Requests : q # r => PerRequest(q)'
  <2>1. \A q \in Requests : q # r => Same(q)
    BY <1>1 DEF TypeOK, Same, Supplied, Goto, request, worker
  <2> QED
    BY <2>1, Frame DEF RetrievalInv
<1>5. Handled(r)'
  BY <1>1 DEF PerRequest, Handled, Ordered, TypeOK, Early, Ranking, Serving,
              Supplied, Goto, request, worker
<1>6. OfOneModel(r)'
  BY <1>1 DEF PerRequest, OfOneModel, TypeOK, Ranking, Serving, Supplied, Goto,
              request, worker
<1>7. Answered(r)'
  BY <1>1 DEF PerRequest, Answered, Outcome, TypeOK, Supplied, Goto, request, worker
<1> QED
  BY <1>2, <1>3, <1>4, <1>5, <1>6, <1>7 DEF RetrievalInv, PerRequest

LEMMA EmbedObjectStep ==
    ASSUME RetrievalInv, NEW r \in Requests, EmbedObject(r)
    PROVE  RetrievalInv'
<1>1. TypeOK /\ Exchange /\ PerRequest(r)
  BY DEF RetrievalInv
<1>2. TypeOK'
  <2>1. CASE Agree(embedded[r].value, profile)
    <3>1. embedded' \in [Requests -> [value : Models, object : Models]]
      <4>1. embedded' = [embedded EXCEPT ![r].object = profile]
        BY <2>1 DEF EmbedObject
      <4>2. embedded \in [Requests -> [value : Models, object : Models]] /\ profile \in Models
        BY <1>1 DEF TypeOK
      <4> QED
        BY <4>1, <4>2
    <3>2. pc' \in [Requests -> {"idle", "embed", "object", "retrieve", "rank", "lock", "start",
                                "send", "receive", "pack", "fill", "record", "done"}]
      BY <1>1, <2>1, GotoType DEF EmbedObject
    <3> QED
      BY <1>1, <2>1, <3>1, <3>2 DEF TypeOK, EmbedObject, worker
  <2>2. CASE ~Agree(embedded[r].value, profile)
    <3>1. /\ mode' \in Modes /\ embedder' \in Embedders /\ profile' \in Models
          /\ pool' \in [Requests -> Pools \cup {<<>>}] /\ chosen' \in [Requests -> Seq(Items)]
          /\ recorded' \in [Requests -> [candidates : SUBSET Items, delivered : SUBSET Items]]
          /\ broken' \in [Requests -> {"no", "yes"}] /\ UNCHANGED <<lock, worker>>
          /\ Reply(r, "failed")
      BY <1>1, <2>2 DEF TypeOK, EmbedObject
    <3> QED
      BY <1>1, <3>1, ReplyType
  <2> QED
    BY <2>1, <2>2
<1>3. Exchange'
  <2>1. pc[r] \notin Serving /\ "retrieve" \notin Serving /\ "done" \notin Serving
    BY DEF Serving, EmbedObject
  <2>2. UNCHANGED <<lock, worker>> /\ (UNCHANGED given \/ given' = [given EXCEPT ![r] = <<>>])
    BY DEF EmbedObject, Reply
  <2>3. Goto(r, "retrieve") \/ Goto(r, "done")
    BY DEF EmbedObject, Reply
  <2> QED
    BY <1>1, <2>1, <2>2, <2>3, Outside DEF TypeOK
<1>4. \A q \in Requests : q # r => PerRequest(q)'
  <2>1. \A q \in Requests : q # r => Same(q)
    <3>1. CASE Agree(embedded[r].value, profile)
      BY <1>1, <3>1 DEF TypeOK, Same, EmbedObject, Goto
    <3>2. CASE ~Agree(embedded[r].value, profile)
      <4>1. \A q \in Requests : q # r => recorded'[q] = recorded[q] /\ broken'[q] = broken[q]
        BY <1>1, <3>2 DEF TypeOK, EmbedObject
      <4> QED
        BY <1>1, <3>2, <4>1, ReplySame DEF EmbedObject
    <3> QED
      BY <3>1, <3>2
  <2> QED
    BY <2>1, Frame DEF RetrievalInv
<1>5. Handled(r)'
  <2>1. CASE Agree(embedded[r].value, profile)
    BY <1>1, <2>1 DEF PerRequest, Handled, TypeOK, Early, Ranking, Serving,
                      EmbedObject, Goto
  <2>2. CASE ~Agree(embedded[r].value, profile)
    BY <1>1, <2>2, ReplyDone, DoneHandled DEF EmbedObject
  <2> QED
    BY <2>1, <2>2
<1>6. OfOneModel(r)'
  <2>1. CASE Agree(embedded[r].value, profile)
    <3>1. embedded' = [embedded EXCEPT ![r].object = profile] /\ embedded[r].value = profile
      BY <2>1 DEF EmbedObject, Agree
    <3>2. embedded'[r].value = profile /\ embedded'[r].object = profile
      BY <1>1, <3>1 DEF TypeOK
    <3> QED
      BY <3>2 DEF OfOneModel
  <2>2. CASE ~Agree(embedded[r].value, profile)
    BY <1>1, <2>2, ReplyDone, DoneHandled DEF EmbedObject
  <2> QED
    BY <2>1, <2>2
<1>7. Answered(r)'
  BY <1>1 DEF PerRequest, Answered, Outcome, TypeOK, EmbedObject, Agree, Goto,
              Reply, request, worker
<1> QED
  BY <1>2, <1>3, <1>4, <1>5, <1>6, <1>7 DEF RetrievalInv, PerRequest

LEMMA RetrieveStep ==
    ASSUME RetrievalInv, NEW r \in Requests, NEW items \in Pools,
           NEW explained \in {"complete", "gaps"}, Retrieve(r, items, explained)
    PROVE  RetrievalInv'
<1>1. TypeOK /\ Exchange /\ PerRequest(r)
  BY DEF RetrievalInv
<1>2. TypeOK'
  BY <1>1, RetrievalAssumption DEF TypeOK, Retrieve, Candidates, Goto, request, worker
<1>3. Exchange'
  BY <1>1 DEF Exchange, TypeOK, Retrieve, Candidates, Goto, request, worker, Serving
<1>4. \A q \in Requests : q # r => PerRequest(q)'
  <2>1. \A q \in Requests : q # r => Same(q)
    BY <1>1 DEF TypeOK, Same, Retrieve, Candidates, Goto, request, worker
  <2> QED
    BY <2>1, Frame DEF RetrievalInv
<1>5. Handled(r)'
  BY <1>1 DEF PerRequest, Handled, Ordered, TypeOK, Early, Ranking, Serving,
              Retrieve, Candidates, Goto, request, worker
<1>6. OfOneModel(r)'
  BY <1>1 DEF PerRequest, OfOneModel, TypeOK, Ranking, Serving, Retrieve,
              Candidates, Goto, request, worker
<1>7. Answered(r)'
  BY <1>1 DEF PerRequest, Answered, Outcome, TypeOK, Retrieve, Candidates, Goto,
              request, worker
<1> QED
  BY <1>2, <1>3, <1>4, <1>5, <1>6, <1>7 DEF RetrievalInv, PerRequest

LEMMA FailsStep ==
    ASSUME RetrievalInv, NEW r \in Requests, Fails(r)
    PROVE  RetrievalInv'
<1>1. TypeOK /\ Exchange /\ PerRequest(r)
  BY DEF RetrievalInv
<1>2. TypeOK'
  <2>1. /\ mode' \in Modes /\ embedder' \in Embedders /\ profile' \in Models
        /\ pool' \in [Requests -> Pools \cup {<<>>}] /\ chosen' \in [Requests -> Seq(Items)]
        /\ recorded' \in [Requests -> [candidates : SUBSET Items, delivered : SUBSET Items]]
        /\ broken' \in [Requests -> {"no", "yes"}] /\ UNCHANGED <<lock, worker>>
    BY <1>1 DEF TypeOK, Fails
  <2> QED
    BY <1>1, <2>1, ReplyType DEF Fails
<1>3. Exchange'
  BY <1>1 DEF Exchange, TypeOK, Fails, Goto, Reply, request, worker, Serving
<1>4. \A q \in Requests : q # r => PerRequest(q)'
  <2>1. \A q \in Requests : q # r => Same(q)
    <3>1. \A q \in Requests : q # r => recorded'[q] = recorded[q] /\ broken'[q] = broken[q]
      BY <1>1 DEF TypeOK, Fails
    <3> QED
      BY <1>1, <3>1, ReplySame DEF Fails
  <2> QED
    BY <2>1, Frame DEF RetrievalInv
<1>5. Handled(r)'
  BY <1>1, ReplyDone, DoneHandled DEF Fails
<1>6. OfOneModel(r)'
  BY <1>1, ReplyDone, DoneHandled DEF Fails
<1>7. Answered(r)'
  BY <1>1 DEF PerRequest, Answered, Outcome, TypeOK, Fails, Goto, Reply, request, worker
<1> QED
  BY <1>2, <1>3, <1>4, <1>5, <1>6, <1>7 DEF RetrievalInv, PerRequest

LEMMA DuplicatesStep ==
    ASSUME RetrievalInv, NEW r \in Requests, Duplicates(r)
    PROVE  RetrievalInv'
<1>1. TypeOK /\ Exchange /\ PerRequest(r)
  BY DEF RetrievalInv
<1>2. TypeOK'
  <2>1. WorkerOK'
    BY <1>1 DEF TypeOK, WorkerOK, worker, Duplicates
  <2> QED
    BY <1>1, <2>1, FallbackType DEF Duplicates
<1>3. Exchange'
  BY <1>1 DEF Exchange, TypeOK, Duplicates, Fallback, Goto, request, worker, Serving
<1>4. \A q \in Requests : q # r => PerRequest(q)'
  <2>1. \A q \in Requests : q # r => Same(q)
    BY <1>1 DEF TypeOK, Same, Duplicates, Fallback, Goto, request, worker
  <2> QED
    BY <2>1, Frame DEF RetrievalInv
<1>5. Handled(r)'
  BY <1>1 DEF PerRequest, Handled, Ordered, TypeOK, Early, Ranking, Serving,
              Duplicates, Fallback, Goto, request, worker
<1>6. OfOneModel(r)'
  BY <1>1 DEF PerRequest, OfOneModel, TypeOK, Ranking, Serving, Duplicates,
              Fallback, Goto, request, worker
<1>7. Answered(r)'
  BY <1>1 DEF PerRequest, Answered, Outcome, TypeOK, Duplicates, Fallback, Goto,
              request, worker
<1> QED
  BY <1>2, <1>3, <1>4, <1>5, <1>6, <1>7 DEF RetrievalInv, PerRequest

LEMMA ApiFailsStep ==
    ASSUME RetrievalInv, NEW r \in Requests, ApiFails(r)
    PROVE  RetrievalInv'
<1>1. TypeOK /\ Exchange /\ PerRequest(r)
  BY DEF RetrievalInv
<1>2. TypeOK'
  <2>1. WorkerOK'
    BY <1>1 DEF TypeOK, WorkerOK, worker, ApiFails
  <2> QED
    BY <1>1, <2>1, FallbackType DEF ApiFails
<1>3. Exchange'
  BY <1>1 DEF Exchange, TypeOK, ApiFails, Fallback, Goto, request, worker, Serving
<1>4. \A q \in Requests : q # r => PerRequest(q)'
  <2>1. \A q \in Requests : q # r => Same(q)
    BY <1>1 DEF TypeOK, Same, ApiFails, Fallback, Goto, request, worker
  <2> QED
    BY <2>1, Frame DEF RetrievalInv
<1>5. Handled(r)'
  BY <1>1 DEF PerRequest, Handled, Ordered, TypeOK, Early, Ranking, Serving,
              ApiFails, Fallback, Goto, request, worker
<1>6. OfOneModel(r)'
  BY <1>1 DEF PerRequest, OfOneModel, TypeOK, Ranking, Serving, ApiFails, Fallback,
              Goto, request, worker
<1>7. Answered(r)'
  BY <1>1 DEF PerRequest, Answered, Outcome, TypeOK, ApiFails, Fallback, Goto,
              request, worker
<1> QED
  BY <1>2, <1>3, <1>4, <1>5, <1>6, <1>7 DEF RetrievalInv, PerRequest

LEMMA QueueStep ==
    ASSUME RetrievalInv, NEW r \in Requests, Queue(r)
    PROVE  RetrievalInv'
<1>1. TypeOK /\ Exchange /\ PerRequest(r)
  BY DEF RetrievalInv
<1>2. TypeOK'
  BY <1>1 DEF TypeOK, Queue, Goto, request, worker
<1>3. Exchange'
  BY <1>1 DEF Exchange, TypeOK, Queue, Goto, request, worker, Serving
<1>4. \A q \in Requests : q # r => PerRequest(q)'
  <2>1. \A q \in Requests : q # r => Same(q)
    BY <1>1 DEF TypeOK, Same, Queue, Goto, request, worker
  <2> QED
    BY <2>1, Frame DEF RetrievalInv
<1>5. Handled(r)'
  BY <1>1 DEF PerRequest, Handled, Ordered, TypeOK, Early, Ranking, Serving, Queue,
              Goto, request, worker
<1>6. OfOneModel(r)'
  BY <1>1 DEF PerRequest, OfOneModel, TypeOK, Ranking, Serving, Queue, Goto,
              request, worker
<1>7. Answered(r)'
  BY <1>1 DEF PerRequest, Answered, Outcome, TypeOK, Queue, Goto, request, worker
<1> QED
  BY <1>2, <1>3, <1>4, <1>5, <1>6, <1>7 DEF RetrievalInv, PerRequest

LEMMA AcquireStep ==
    ASSUME RetrievalInv, NEW r \in Requests, Acquire(r)
    PROVE  RetrievalInv'
<1>1. TypeOK /\ Exchange /\ PerRequest(r)
  BY DEF RetrievalInv
<1>2. TypeOK'
  <2>1. <<>> \in Seq([kind : {"scores", "error"}, scores : Seq(Scores)])
    OBVIOUS
  <2>2. WorkerOK'
    BY <1>1, <2>1 DEF TypeOK, Acquire, WorkerOK, worker
  <2>3. pc' \in [Requests -> {"idle", "embed", "object", "retrieve", "rank", "lock", "start",
                              "send", "receive", "pack", "fill", "record", "done"}]
    BY <1>1, GotoType DEF Acquire
  <2> QED
    BY <1>1, <2>2, <2>3 DEF TypeOK, Acquire, WorkerOK, request
<1>3. Exchange'
  <2>1. inbox = Nobody /\ pipe = <<>> /\ lock = Nobody /\ lock' = r /\ r # Nobody
    BY <1>1, RetrievalAssumption DEF Acquire, Exchange, TypeOK, Serving
  <2>2. inbox' = Nobody /\ pipe' = <<>>
    BY <2>1 DEF Acquire, worker
  <2>3. \A q \in Requests : pc'[q] = IF q = r THEN pc'[r] ELSE pc[q]
    BY <1>1 DEF Acquire, Goto, TypeOK
  <2>4. pc'[r] \in Serving
    BY <1>1 DEF Acquire, Goto, TypeOK, Serving
  <2>5. \A q \in Requests : pc[q] \notin Serving
    BY <1>1, <2>1, RetrievalAssumption DEF Exchange
  <2> QED
    BY <2>1, <2>2, <2>3, <2>4, <2>5 DEF Exchange
<1>4. \A q \in Requests : q # r => PerRequest(q)'
  <2>1. \A q \in Requests : q # r => Same(q)
    BY <1>1 DEF TypeOK, Same, Acquire, Goto, request, worker
  <2> QED
    BY <2>1, Frame DEF RetrievalInv
<1>5. Handled(r)'
  BY <1>1 DEF PerRequest, Handled, Ordered, TypeOK, Early, Ranking, Serving,
              Acquire, Goto, request, worker
<1>6. OfOneModel(r)'
  BY <1>1 DEF PerRequest, OfOneModel, TypeOK, Ranking, Serving, Acquire, Goto,
              request, worker
<1>7. Answered(r)'
  BY <1>1 DEF PerRequest, Answered, Outcome, TypeOK, Acquire, Goto, request, worker
<1> QED
  BY <1>2, <1>3, <1>4, <1>5, <1>6, <1>7 DEF RetrievalInv, PerRequest

LEMMA StartedStep ==
    ASSUME RetrievalInv, NEW r \in Requests, Started(r)
    PROVE  RetrievalInv'
<1>1. TypeOK /\ Exchange /\ PerRequest(r)
  BY DEF RetrievalInv
<1>2. TypeOK'
  BY <1>1 DEF TypeOK, Started, Goto, request, worker
<1>3. Exchange'
  BY <1>1 DEF Exchange, TypeOK, Started, Goto, request, worker, Serving
<1>4. \A q \in Requests : q # r => PerRequest(q)'
  <2>1. \A q \in Requests : q # r => Same(q)
    BY <1>1 DEF TypeOK, Same, Started, Goto, request, worker
  <2> QED
    BY <2>1, Frame DEF RetrievalInv
<1>5. Handled(r)'
  BY <1>1 DEF PerRequest, Handled, Ordered, TypeOK, Early, Ranking, Serving,
              Started, Goto, request, worker
<1>6. OfOneModel(r)'
  BY <1>1 DEF PerRequest, OfOneModel, TypeOK, Ranking, Serving, Started, Goto,
              request, worker
<1>7. Answered(r)'
  BY <1>1 DEF PerRequest, Answered, Outcome, TypeOK, Started, Goto, request, worker
<1> QED
  BY <1>2, <1>3, <1>4, <1>5, <1>6, <1>7 DEF RetrievalInv, PerRequest

LEMMA StartFailsStep ==
    ASSUME RetrievalInv, NEW r \in Requests, StartFails(r)
    PROVE  RetrievalInv'
<1>1. TypeOK /\ Exchange /\ PerRequest(r)
  BY DEF RetrievalInv
<1>2. TypeOK'
  <2>1. WorkerOK'
    BY StopChildType DEF StartFails, GiveUp
  <2> QED
    BY <1>1, <2>1, FallbackType DEF StartFails, GiveUp
<1>3. Exchange'
  <2>1. pc[r] \in Serving /\ Goto(r, "pack") /\ lock' = Nobody /\ inbox' = Nobody /\ pipe' = <<>>
    BY DEF StartFails, GiveUp, Fallback, StopChild, Serving
  <2>2. "pack" \notin Serving
    BY DEF Serving
  <2> QED
    BY <1>1, <2>1, <2>2, LetsGo
<1>4. \A q \in Requests : q # r => PerRequest(q)'
  <2>1. \A q \in Requests : q # r => Same(q)
    BY <1>1 DEF TypeOK, Same, StartFails, GiveUp, StopChild, Fallback, Goto,
                request, worker
  <2> QED
    BY <2>1, Frame DEF RetrievalInv
<1>5. Handled(r)'
  BY <1>1 DEF PerRequest, Handled, Ordered, TypeOK, Early, Ranking, Serving,
              StartFails, GiveUp, StopChild, Fallback, Goto, request, worker
<1>6. OfOneModel(r)'
  BY <1>1 DEF PerRequest, OfOneModel, TypeOK, Ranking, Serving, StartFails, GiveUp,
              StopChild, Fallback, Goto, request, worker
<1>7. Answered(r)'
  BY <1>1 DEF PerRequest, Answered, Outcome, TypeOK, StartFails, GiveUp, StopChild,
              Fallback, Goto, request, worker
<1> QED
  BY <1>2, <1>3, <1>4, <1>5, <1>6, <1>7 DEF RetrievalInv, PerRequest

LEMMA SendStep ==
    ASSUME RetrievalInv, NEW r \in Requests, Send(r)
    PROVE  RetrievalInv'
<1>1. TypeOK /\ Exchange /\ PerRequest(r)
  BY DEF RetrievalInv
<1>2. TypeOK'
  <2>1. CASE Alive
    BY <1>1, <2>1 DEF TypeOK, Send, Goto
  <2>2. CASE ~Alive
    <3>1. WorkerOK'
      BY <2>2, StopChildType DEF Send, GiveUp
    <3> QED
      BY <1>1, <2>2, <3>1, FallbackType DEF Send, GiveUp
  <2> QED
    BY <2>1, <2>2
<1>3. Exchange'
  <2>1. CASE Alive
    <3>1. lock = r /\ inbox = Nobody /\ pipe = <<>> /\ r # Nobody
      BY <1>1, RetrievalAssumption DEF Send, Exchange, TypeOK, Serving
    <3>2. inbox' = r /\ pipe' = <<>> /\ lock' = r
      BY <2>1, <3>1 DEF Send
    <3>3. pc'[r] = "receive" /\ \A q \in Requests : q # r => pc'[q] = pc[q]
      BY <1>1, <2>1 DEF Send, Goto, TypeOK
    <3> QED
      BY <1>1, <3>1, <3>2, <3>3 DEF Exchange, Serving
  <2>2. CASE ~Alive
    <3>1. /\ pc[r] \in Serving /\ Goto(r, "pack") /\ lock' = Nobody
          /\ inbox' = Nobody /\ pipe' = <<>>
      BY <2>2 DEF Send, GiveUp, Fallback, StopChild, Serving
    <3>2. "pack" \notin Serving
      BY DEF Serving
    <3> QED
      BY <1>1, <3>1, <3>2, LetsGo
  <2> QED
    BY <2>1, <2>2
<1>4. \A q \in Requests : q # r => PerRequest(q)'
  <2>1. \A q \in Requests : q # r => Same(q)
    <3>1. CASE Alive
      BY <1>1, <3>1 DEF TypeOK, Same, Send, Goto
    <3>2. CASE ~Alive
      <4>1. Fallback(r)
        BY <3>2 DEF Send, GiveUp
      <4> QED
        BY <1>1, <4>1 DEF TypeOK, Same, Send, Fallback, Goto
    <3> QED
      BY <3>1, <3>2
  <2> QED
    BY <2>1, Frame DEF RetrievalInv
<1>5. Handled(r)'
  <2>1. CASE Alive
    BY <1>1, <2>1 DEF PerRequest, Handled, TypeOK, Early, Ranking, Serving, Send, Goto
  <2>2. CASE ~Alive
    BY <1>1, <2>2 DEF PerRequest, Handled, Ordered, TypeOK, Early, Ranking, Serving,
                      Send, GiveUp,
                      Fallback, Goto
  <2> QED
    BY <2>1, <2>2
<1>6. OfOneModel(r)'
  BY <1>1 DEF PerRequest, OfOneModel, TypeOK, Ranking, Serving, Send, GiveUp,
              StopChild, Fallback, Goto, request, worker
<1>7. Answered(r)'
  BY <1>1 DEF PerRequest, Answered, Outcome, TypeOK, Send, GiveUp, StopChild,
              Fallback, Goto, request, worker
<1> QED
  BY <1>2, <1>3, <1>4, <1>5, <1>6, <1>7 DEF RetrievalInv, PerRequest

LEMMA NoAnswerStep ==
    ASSUME RetrievalInv, NEW r \in Requests, NoAnswer(r)
    PROVE  RetrievalInv'
<1>1. TypeOK /\ Exchange /\ PerRequest(r)
  BY DEF RetrievalInv
<1>2. TypeOK'
  <2>1. WorkerOK'
    BY StopChildType DEF NoAnswer, GiveUp
  <2> QED
    BY <1>1, <2>1, FallbackType DEF NoAnswer, GiveUp
<1>3. Exchange'
  <2>1. pc[r] \in Serving /\ Goto(r, "pack") /\ lock' = Nobody /\ inbox' = Nobody /\ pipe' = <<>>
    BY DEF NoAnswer, GivesUpWaiting, GiveUp, Fallback, StopChild, Serving
  <2>2. "pack" \notin Serving
    BY DEF Serving
  <2> QED
    BY <1>1, <2>1, <2>2, LetsGo
<1>4. \A q \in Requests : q # r => PerRequest(q)'
  <2>1. \A q \in Requests : q # r => Same(q)
    BY <1>1 DEF TypeOK, Same, NoAnswer, GivesUpWaiting, GiveUp, StopChild, Fallback,
                Goto, request, worker
  <2> QED
    BY <2>1, Frame DEF RetrievalInv
<1>5. Handled(r)'
  BY <1>1 DEF PerRequest, Handled, Ordered, TypeOK, Early, Ranking, Serving,
              NoAnswer, GivesUpWaiting, GiveUp, StopChild, Fallback, Goto, request,
              worker
<1>6. OfOneModel(r)'
  BY <1>1 DEF PerRequest, OfOneModel, TypeOK, Ranking, Serving, NoAnswer,
              GivesUpWaiting, GiveUp, StopChild, Fallback, Goto, request, worker
<1>7. Answered(r)'
  BY <1>1 DEF PerRequest, Answered, Outcome, TypeOK, NoAnswer, GivesUpWaiting,
              GiveUp, StopChild, Fallback, Goto, request, worker
<1> QED
  BY <1>2, <1>3, <1>4, <1>5, <1>6, <1>7 DEF RetrievalInv, PerRequest

LEMMA PackedStep ==
    ASSUME RetrievalInv, NEW r \in Requests, Packed(r)
    PROVE  RetrievalInv'
<1>1. TypeOK /\ Exchange /\ PerRequest(r)
  BY DEF RetrievalInv
<1>2. TypeOK'
  BY <1>1 DEF TypeOK, Packed, Goto, request, worker
<1>3. Exchange'
  BY <1>1 DEF Exchange, TypeOK, Packed, Goto, request, worker, Serving
<1>4. \A q \in Requests : q # r => PerRequest(q)'
  <2>1. \A q \in Requests : q # r => Same(q)
    BY <1>1 DEF TypeOK, Same, Packed, Goto, request, worker
  <2> QED
    BY <2>1, Frame DEF RetrievalInv
<1>5. Handled(r)'
  BY <1>1 DEF PerRequest, Handled, Ordered, TypeOK, Early, Ranking, Serving, Packed,
              Goto, request, worker
<1>6. OfOneModel(r)'
  BY <1>1 DEF PerRequest, OfOneModel, TypeOK, Ranking, Serving, Packed, Goto,
              request, worker
<1>7. Answered(r)'
  BY <1>1 DEF PerRequest, Answered, Outcome, TypeOK, Packed, Goto, request, worker
<1> QED
  BY <1>2, <1>3, <1>4, <1>5, <1>6, <1>7 DEF RetrievalInv, PerRequest

LEMMA RecordStep ==
    ASSUME RetrievalInv, NEW r \in Requests, Record(r)
    PROVE  RetrievalInv'
<1>1. TypeOK /\ Exchange /\ PerRequest(r)
  BY DEF RetrievalInv
<1>2. TypeOK'
  <2>1. pool[r] \in Seq(Items) /\ chosen[r] \in Seq(Items)
    BY <1>1, PoolType DEF TypeOK
  <2>2. Outcome(r) \in [candidates : SUBSET Items, delivered : SUBSET Items]
    BY <2>1 DEF Outcome, ToSet
  <2>3. /\ mode' \in Modes /\ embedder' \in Embedders /\ profile' \in Models
        /\ pool' \in [Requests -> Pools \cup {<<>>}] /\ chosen' \in [Requests -> Seq(Items)]
        /\ broken' \in [Requests -> {"no", "yes"}] /\ UNCHANGED <<lock, worker>>
    BY <1>1 DEF TypeOK, Record
  <2>4. recorded' \in [Requests -> [candidates : SUBSET Items, delivered : SUBSET Items]]
    BY <1>1, <2>2 DEF TypeOK, Record
  <2>5. \E how \in {"ok", "failed"} : Reply(r, how)
    BY DEF Record
  <2> QED
    BY <1>1, <2>3, <2>4, <2>5, ReplyType
<1>3. Exchange'
  BY <1>1 DEF Exchange, TypeOK, Record, Goto, Reply, request, worker, Serving
<1>4. \A q \in Requests : q # r => PerRequest(q)'
  <2>1. \A q \in Requests : q # r => Same(q)
    <3>1. \A q \in Requests : q # r => recorded'[q] = recorded[q] /\ broken'[q] = broken[q]
      BY <1>1 DEF TypeOK, Record
    <3> QED
      BY <1>1, <3>1, ReplySame DEF Record
  <2> QED
    BY <2>1, Frame DEF RetrievalInv
<1>5. Handled(r)'
  BY <1>1, ReplyDone, DoneHandled DEF Record
<1>6. OfOneModel(r)'
  BY <1>1, ReplyDone, DoneHandled DEF Record
<1>7. Answered(r)'
  BY <1>1 DEF PerRequest, Answered, Outcome, TypeOK, Record, Goto, Reply, request,
              worker, Handled, Ordered
<1> QED
  BY <1>2, <1>3, <1>4, <1>5, <1>6, <1>7 DEF RetrievalInv, PerRequest

LEMMA LoadStep ==
    ASSUME RetrievalInv, Load
    PROVE  RetrievalInv'
<1>1. TypeOK /\ Exchange
  BY DEF RetrievalInv
<1>2. TypeOK'
  BY <1>1 DEF TypeOK, Load, request, worker
<1>3. Exchange'
  BY <1>1 DEF Exchange, TypeOK, Load, request, worker, Serving
<1>4. \A q \in Requests : PerRequest(q)'
  <2>1. \A q \in Requests : Same(q)
    BY <1>1 DEF TypeOK, Same, Load, request, worker
  <2> QED
    BY <2>1, Frame DEF RetrievalInv
<1> QED
  BY <1>2, <1>3, <1>4 DEF RetrievalInv

LEMMA ScoreErrorStep ==
    ASSUME RetrievalInv, ScoreError
    PROVE  RetrievalInv'
<1>1. TypeOK /\ Exchange
  BY DEF RetrievalInv
<1>2. TypeOK'
  <2>1. [kind |-> "error", scores |-> <<>>] \in [kind : {"scores", "error"}, scores : Seq(Scores)]
    OBVIOUS
  <2>2. WorkerOK'
    BY <1>1, <2>1 DEF TypeOK, ScoreError, WorkerOK
  <2> QED
    BY <1>1, <2>2 DEF TypeOK, ScoreError, WorkerOK, request
<1>3. Exchange'
  BY <1>1 DEF Exchange, TypeOK, ScoreError, request, worker, Serving
<1>4. \A q \in Requests : PerRequest(q)'
  <2>1. \A q \in Requests : Same(q)
    BY <1>1 DEF TypeOK, Same, ScoreError, request, worker
  <2> QED
    BY <2>1, Frame DEF RetrievalInv
<1> QED
  BY <1>2, <1>3, <1>4 DEF RetrievalInv

LEMMA DieStep ==
    ASSUME RetrievalInv, Die
    PROVE  RetrievalInv'
<1>1. TypeOK /\ Exchange
  BY DEF RetrievalInv
<1>2. TypeOK'
  BY <1>1 DEF TypeOK, Die, Alive, request, worker
<1>3. Exchange'
  BY <1>1 DEF Exchange, TypeOK, Die, Alive, request, worker, Serving
<1>4. \A q \in Requests : PerRequest(q)'
  <2>1. \A q \in Requests : Same(q)
    BY <1>1 DEF TypeOK, Same, Die, Alive, request, worker
  <2> QED
    BY <2>1, Frame DEF RetrievalInv
<1> QED
  BY <1>2, <1>3, <1>4 DEF RetrievalInv

LEMMA CloseStep ==
    ASSUME RetrievalInv, Close
    PROVE  RetrievalInv'
<1>1. TypeOK /\ Exchange
  BY DEF RetrievalInv
<1>2. TypeOK'
  BY <1>1 DEF TypeOK, Close, StopChild, request, worker
<1>3. Exchange'
  BY <1>1 DEF Exchange, TypeOK, Close, StopChild, request, worker, Serving
<1>4. \A q \in Requests : PerRequest(q)'
  <2>1. \A q \in Requests : Same(q)
    BY <1>1 DEF TypeOK, Same, Close, StopChild, request, worker
  <2> QED
    BY <2>1, Frame DEF RetrievalInv
<1> QED
  BY <1>2, <1>3, <1>4 DEF RetrievalInv

LEMMA ChangeStep ==
    ASSUME RetrievalInv, Change
    PROVE  RetrievalInv'
<1>1. TypeOK /\ Exchange
  BY DEF RetrievalInv
<1>2. TypeOK'
  <2>1. profile' \in Models
    BY <1>1, RetrievalAssumption DEF TypeOK, Change, Models
  <2> QED
    BY <1>1, <2>1 DEF TypeOK, Change, request, worker
<1>3. Exchange'
  BY <1>1 DEF Exchange, TypeOK, Change, request, worker, Serving
<1>4. \A q \in Requests : PerRequest(q)'
  <2>1. \A q \in Requests : Same(q)
    BY <1>1 DEF TypeOK, Same, Change, request, worker
  <2> QED
    BY <2>1, Frame DEF RetrievalInv
<1> QED
  BY <1>2, <1>3, <1>4 DEF RetrievalInv

LEMMA PackStep ==
    ASSUME RetrievalInv, NEW r \in Requests, Pack(r)
    PROVE  RetrievalInv'
<1>1. TypeOK /\ Exchange /\ PerRequest(r)
  BY DEF RetrievalInv
<1>2. TypeOK'
  <2>1. First(ranked[r], MinK) \in Seq(Items) /\ Len(First(ranked[r], MinK)) \in Nat
    BY <1>1, FirstItems, RetrievalAssumption DEF TypeOK
  <2>2. chosen' \in [Requests -> Seq(Items)] /\ packed' \in [Requests -> Nat]
    <3>1. CASE legend[r] = "complete"
      <4>1. /\ chosen' = [chosen EXCEPT ![r] = First(ranked[r], MinK)]
            /\ packed' = [packed EXCEPT ![r] = Len(First(ranked[r], MinK))]
        BY <3>1 DEF Pack
      <4> QED
        BY <1>1, <2>1, <4>1 DEF TypeOK
    <3>2. CASE legend[r] # "complete"
      BY <1>1, <3>2 DEF TypeOK, Pack
    <3> QED
      BY <3>1, <3>2
  <2>3. status' \in [Requests -> {"none", "reranked", "core_fallback"}]
    BY <1>1 DEF TypeOK, Pack
  <2>4. pc' \in [Requests -> {"idle", "embed", "object", "retrieve", "rank", "lock", "start",
                              "send", "receive", "pack", "fill", "record", "done"}]
    BY <1>1, GotoType DEF Pack
  <2> QED
    BY <1>1, <2>2, <2>3, <2>4 DEF TypeOK, Pack, worker
<1>3. Exchange'
  <2>1. pc[r] \notin Serving /\ "fill" \notin Serving /\ "record" \notin Serving
    BY DEF Serving, Pack
  <2>2. UNCHANGED <<lock, worker>> /\ (UNCHANGED given \/ given' = [given EXCEPT ![r] = <<>>])
    BY DEF Pack
  <2>3. Goto(r, "fill") \/ Goto(r, "record")
    BY DEF Pack
  <2> QED
    BY <1>1, <2>1, <2>2, <2>3, Outside DEF TypeOK
<1>4. \A q \in Requests : q # r => PerRequest(q)'
  <2>1. \A q \in Requests : q # r => Same(q)
    <3>1. CASE legend[r] = "complete"
      BY <1>1, <3>1 DEF TypeOK, Same, Pack, Goto
    <3>2. CASE legend[r] # "complete"
      BY <1>1, <3>2 DEF TypeOK, Same, Pack, Goto
    <3> QED
      BY <3>1, <3>2
  <2> QED
    BY <2>1, Frame DEF RetrievalInv
<1>5. Handled(r)'
  <2>1. pc[r] = "pack" /\ Ordered(r) /\ pool[r] # <<>> /\ chosen[r] = pool[r]
    BY <1>1 DEF Pack, PerRequest, Handled
  <2>2. ranked[r] \in Seq(Items) /\ Len(ranked[r]) = Len(pool[r]) /\ pool[r] \in Seq(Items)
    BY <1>1, <2>1, PoolType, OrderedItems
  <2>3. CASE legend[r] = "complete"
    <3>1. /\ pc'[r] = "fill" /\ chosen'[r] = First(ranked[r], MinK)
          /\ packed'[r] = Len(First(ranked[r], MinK)) /\ legend'[r] = "complete"
          /\ status'[r] = status[r] /\ given'[r] = given[r] /\ pool'[r] = pool[r]
          /\ ranked'[r] = ranked[r]
      BY <1>1, <2>3 DEF TypeOK, Pack, Goto
    <3>2. Ordered(r)'
      BY <2>1, <3>1 DEF Ordered
    <3>3. chosen'[r] # <<>>
      <4>1. Len(First(ranked[r], MinK)) > 0
        BY <2>1, <2>2, FirstItems, RetrievalAssumption
      <4> QED
        BY <3>1, <4>1
    <3>4. Unique(pool[r]) => Filled(ranked[r], First(ranked[r], MinK), Len(First(ranked[r], MinK)))
      BY <1>1, <2>1, <2>2, OrderedItems, FillBegins
    <3> QED
      BY <2>1, <3>1, <3>2, <3>3, <3>4 DEF Handled, Early, Ranking, Serving
  <2>4. CASE legend[r] # "complete"
    BY <1>1, <2>1, <2>4 DEF TypeOK, Pack, Goto, Handled, Early, Ranking, Serving
  <2> QED
    BY <2>3, <2>4
<1>6. OfOneModel(r)'
  BY <1>1 DEF PerRequest, OfOneModel, TypeOK, Ranking, Serving, Pack, Goto, request,
              worker
<1>7. Answered(r)'
  BY <1>1 DEF PerRequest, Answered, Outcome, TypeOK, Pack, Goto, request, worker
<1> QED
  BY <1>2, <1>3, <1>4, <1>5, <1>6, <1>7 DEF RetrievalInv, PerRequest

LEMMA PackItemStep ==
    ASSUME RetrievalInv, NEW r \in Requests, PackItem(r)
    PROVE  RetrievalInv'
<1>1. TypeOK /\ Exchange /\ PerRequest(r)
  BY DEF RetrievalInv
<1>2. TypeOK'
  <2>1. ranked[r][packed[r] + 1] \in Items /\ chosen[r] \in Seq(Items) /\ packed[r] \in Nat
    BY <1>1 DEF TypeOK, PackItem
  <2>2. chosen' \in [Requests -> Seq(Items)]
    BY <1>1, <2>1 DEF TypeOK, PackItem
  <2>3. packed' \in [Requests -> Nat]
    <3>1. packed' = [packed EXCEPT ![r] = packed[r] + 1] /\ packed \in [Requests -> Nat]
      BY <1>1 DEF TypeOK, PackItem
    <3> QED
      BY <2>1, <3>1
  <2> QED
    BY <1>1, <2>2, <2>3 DEF TypeOK, PackItem, worker
<1>3. Exchange'
  BY <1>1 DEF Exchange, TypeOK, PackItem, request, worker
<1>4. \A q \in Requests : q # r => PerRequest(q)'
  <2>1. \A q \in Requests : q # r => Same(q)
    BY <1>1 DEF TypeOK, Same, PackItem, request, worker
  <2> QED
    BY <2>1, Frame DEF RetrievalInv
<1>5. Handled(r)'
  <2> DEFINE all == ranked[r]
             n == packed[r]
             trial == Append(chosen[r], all[n + 1])
  <2>1. /\ pc[r] = "fill" /\ n < Len(all) /\ legend[r] = "complete"
        /\ Ordered(r) /\ pool[r] # <<>> /\ chosen[r] # <<>>
        /\ Unique(pool[r]) => Filled(all, chosen[r], n)
    BY <1>1 DEF PackItem, PerRequest, Handled
  <2>2. all \in Seq(Items) /\ chosen[r] \in Seq(Items) /\ n \in Nat
    BY <1>1 DEF TypeOK
  <2>3. /\ pc'[r] = "fill" /\ packed'[r] = n + 1 /\ legend'[r] = legend[r]
        /\ status'[r] = status[r] /\ given'[r] = given[r] /\ pool'[r] = pool[r]
        /\ ranked'[r] = all /\ chosen'[r] = IF Fits(trial) THEN trial ELSE chosen[r]
    BY <1>1 DEF TypeOK, PackItem
  <2>4. Ordered(r)'
    BY <2>1, <2>3 DEF Ordered
  <2>5. chosen'[r] # <<>>
    <3>1. trial # <<>>
      BY <2>2
    <3> QED
      BY <2>1, <2>3, <3>1
  <2>6. Unique(pool[r]) => Filled(all, chosen'[r], n + 1)
    <3> SUFFICES ASSUME Unique(pool[r])
                 PROVE  Filled(all, chosen'[r], n + 1)
      OBVIOUS
    <3>1. Distinct(all)
      BY <1>1, <2>1, OrderedItems
    <3>2. CASE Fits(trial)
      BY <2>1, <2>2, <2>3, <3>1, <3>2, FillKeeps
    <3>3. CASE ~Fits(trial)
      BY <2>1, <2>2, <2>3, <3>1, <3>3, FillSkips
    <3> QED
      BY <3>2, <3>3
  <2> QED
    BY <2>1, <2>3, <2>4, <2>5, <2>6 DEF Handled, Early, Ranking, Serving
<1>6. OfOneModel(r)'
  BY <1>1 DEF PerRequest, OfOneModel, TypeOK, Ranking, Serving, PackItem, request,
              worker
<1>7. Answered(r)'
  BY <1>1 DEF PerRequest, Answered, Outcome, TypeOK, PackItem, request, worker
<1> QED
  BY <1>2, <1>3, <1>4, <1>5, <1>6, <1>7 DEF RetrievalInv, PerRequest

LEMMA ReceiveStep ==
    ASSUME RetrievalInv, NEW r \in Requests, Receive(r)
    PROVE  RetrievalInv'
<1>1. TypeOK /\ Exchange /\ PerRequest(r)
  BY DEF RetrievalInv
<1>2. TypeOK'
  <2>1. pipe' \in Seq([kind : {"scores", "error"}, scores : Seq(Scores)])
    BY <1>1 DEF Receive, TypeOK
  <2>2. WorkerOK'
    BY <1>1, <2>1 DEF Receive, TypeOK, WorkerOK
  <2>3. given' \in [Requests -> Seq(Scores)]
    BY <1>1 DEF Receive, TypeOK
  <2>4. Head(pipe).scores \in Seq(Scores)
    <3>1. Head(pipe) \in [kind : {"scores", "error"}, scores : Seq(Scores)]
      <4> DEFINE Kinds == [kind : {"scores", "error"}, scores : Seq(Scores)]
      <4>1. pipe \in Seq(Kinds) /\ pipe # <<>>
        BY <1>1 DEF Receive, TypeOK
      <4> HIDE DEF Kinds
      <4>2. Head(pipe) \in Kinds
        BY <4>1
      <4> QED
        BY <4>2 DEF Kinds
    <3> QED
      BY <3>1
  <2>5. CASE Head(pipe).kind = "scores" /\ Len(Head(pipe).scores) = Len(pool[r])
    <3>1. RankItems(pool[r], Head(pipe).scores) \in Seq(Items)
      BY <1>1, <2>4, <2>5, PoolType, ScoresAreNat, RankedItems
    <3> QED
      BY <1>1, <2>2, <2>3, <2>5, <3>1, RankedType DEF Receive, Rank
  <2>6. CASE ~(Head(pipe).kind = "scores" /\ Len(Head(pipe).scores) = Len(pool[r]))
    BY <1>1, <2>2, <2>6, FallbackType DEF Receive, Rank
  <2> QED
    BY <2>5, <2>6
<1>3. Exchange'
  <2>1. pc[r] \in Serving /\ Goto(r, "pack") /\ lock' = Nobody
    BY DEF Receive, Rank, Fallback, Serving
  <2>2. inbox' = Nobody /\ pipe' = <<>>
    <3>1. pipe # <<>> /\ Len(pipe) = 1 /\ inbox = Nobody
      BY <1>1 DEF Receive, Exchange
    <3>2. pipe' = Tail(pipe) /\ inbox' = Nobody
      BY <3>1 DEF Receive
    <3>3. pipe \in Seq([kind : {"scores", "error"}, scores : Seq(Scores)])
      BY <1>1 DEF TypeOK
    <3>4. /\ Len(Tail(pipe)) = 0
          /\ Tail(pipe) \in Seq([kind : {"scores", "error"}, scores : Seq(Scores)])
      BY <3>1, <3>3
    <3> QED
      BY <3>2, <3>4
  <2>3. "pack" \notin Serving
    BY DEF Serving
  <2> QED
    BY <1>1, <2>1, <2>2, <2>3, LetsGo
<1>4. \A q \in Requests : q # r => PerRequest(q)'
  <2>1. \A q \in Requests : q # r => Same(q)
    <3>1. CASE Head(pipe).kind = "scores" /\ Len(Head(pipe).scores) = Len(pool[r])
      BY <1>1, <3>1 DEF TypeOK, Same, Receive, Rank, Goto
    <3>2. CASE ~(Head(pipe).kind = "scores" /\ Len(Head(pipe).scores) = Len(pool[r]))
      <4>1. Fallback(r)
        BY <3>2 DEF Receive, Rank
      <4> QED
        BY <1>1, <4>1 DEF TypeOK, Same, Receive, Fallback, Goto
    <3> QED
      BY <3>1, <3>2
  <2> QED
    BY <2>1, Frame DEF RetrievalInv
<1>5. Handled(r)'
  <2>1. /\ pool'[r] = pool[r] /\ chosen'[r] = chosen[r] /\ given'[r] = given[r] /\ pc'[r] = "pack"
        /\ pool[r] # <<>> /\ chosen[r] = pool[r]
    BY <1>1 DEF PerRequest, Handled, Ranking, Serving, TypeOK, Receive, Rank,
                Fallback, Goto
  <2>2. pipe # <<>> /\ lock = r /\ (Head(pipe).kind = "scores" => Head(pipe).scores = given[r])
    BY <1>1 DEF Exchange, TypeOK, Receive, Serving
  <2>3. Ordered(r)'
    BY <1>1, <2>1, <2>2 DEF TypeOK, Ordered, Receive, Rank, Fallback
  <2> QED
    BY <2>1, <2>3 DEF Handled, Early, Ranking, Serving
<1>6. OfOneModel(r)'
  BY <1>1 DEF PerRequest, OfOneModel, TypeOK, Ranking, Serving, Receive, Rank,
              Fallback, Goto, request, worker
<1>7. Answered(r)'
  BY <1>1 DEF PerRequest, Answered, Outcome, TypeOK, Receive, Rank, Fallback, Goto,
              request, worker
<1> QED
  BY <1>2, <1>3, <1>4, <1>5, <1>6, <1>7 DEF RetrievalInv, PerRequest

LEMMA ApiAnswersStep ==
    ASSUME RetrievalInv, NEW r \in Requests, ApiAnswers(r)
    PROVE  RetrievalInv'
<1>1. TypeOK /\ Exchange /\ PerRequest(r)
  BY DEF RetrievalInv
<1>2. TypeOK'
  <2>1. WorkerOK'
    BY <1>1 DEF TypeOK, WorkerOK, worker, ApiAnswers
  <2>2. PICK rows \in Rows(Len(pool[r])) :
          IF RowsValid(rows, Len(pool[r]))
          THEN given' = [given EXCEPT ![r] = GivenBy(rows)] /\ Rank(r, ApiScores(rows))
          ELSE Fallback(r) /\ UNCHANGED given
    BY DEF ApiAnswers, GivenBy
  <2>3. CASE RowsValid(rows, Len(pool[r]))
    <3>1. GivenBy(rows) = ApiScores(rows) /\ ApiScores(rows) \in Seq(Scores)
          /\ Len(ApiScores(rows)) = Len(pool[r])
      <4>1. Len(pool[r]) \in Nat \ {0}
        BY <1>1, PoolType DEF ApiAnswers, PerRequest, Handled, Ranking
      <4> QED
        BY <2>3, <4>1, ApiScoresValid
    <3>2. RankItems(pool[r], ApiScores(rows)) \in Seq(Items)
      <4>1. ApiScores(rows) \in Seq(Nat) /\ pool[r] \in Seq(Items)
        BY <1>1, <3>1, PoolType, ScoresAreNat
      <4> QED
        BY <3>1, <4>1, RankedItems
    <3>3. given' \in [Requests -> Seq(Scores)]
      <4>1. given' = [given EXCEPT ![r] = ApiScores(rows)]
        BY <2>2, <2>3, <3>1
      <4> QED
        BY <1>1, <3>1, <4>1 DEF TypeOK
    <3> QED
      BY <1>1, <2>1, <2>2, <2>3, <3>1, <3>2, <3>3, RankedType DEF Rank, ApiAnswers
  <2>4. CASE ~RowsValid(rows, Len(pool[r]))
    BY <1>1, <2>1, <2>2, <2>4, FallbackType DEF ApiAnswers
  <2> QED
    BY <2>3, <2>4
<1>3. Exchange'
  <2>1. /\ pc[r] \notin Serving /\ "pack" \notin Serving
        /\ Goto(r, "pack") /\ UNCHANGED <<lock, worker>>
    BY DEF ApiAnswers, Rank, Fallback, Serving
  <2>2. \A q \in Requests : q # r => given'[q] = given[q]
    BY <1>1 DEF TypeOK, ApiAnswers
  <2> QED
    BY <1>1, <2>1, <2>2, Outside
<1>4. \A q \in Requests : q # r => PerRequest(q)'
  <2>1. \A q \in Requests : q # r => Same(q)
    <3>1. \A q \in Requests : q # r => given'[q] = given[q]
      BY <1>1 DEF TypeOK, ApiAnswers
    <3>2. Goto(r, "pack") /\ UNCHANGED answer
      BY DEF ApiAnswers, Rank, Fallback
    <3>3. /\ \E order : ranked' = [ranked EXCEPT ![r] = order]
          /\ \E s : status' = [status EXCEPT ![r] = s]
      BY DEF ApiAnswers, Rank, Fallback
    <3> QED
      BY <1>1, <3>1, <3>2, <3>3 DEF TypeOK, Same, ApiAnswers, Goto
  <2> QED
    BY <2>1, Frame DEF RetrievalInv
<1>5. Handled(r)'
  <2>1. /\ pool'[r] = pool[r] /\ chosen'[r] = chosen[r] /\ pc'[r] = "pack"
        /\ pool[r] # <<>> /\ chosen[r] = pool[r]
    BY <1>1 DEF PerRequest, Handled, Ranking, TypeOK, ApiAnswers, Rank, Fallback, Goto
  <2>2. PICK rows \in Rows(Len(pool[r])) :
          IF RowsValid(rows, Len(pool[r]))
          THEN given' = [given EXCEPT ![r] = GivenBy(rows)] /\ Rank(r, ApiScores(rows))
          ELSE Fallback(r) /\ UNCHANGED given
    BY DEF ApiAnswers, GivenBy
  <2>3. Ordered(r)'
    <3>1. CASE RowsValid(rows, Len(pool[r]))
      <4>1. GivenBy(rows) = ApiScores(rows) /\ Len(ApiScores(rows)) = Len(pool[r])
        <5>1. Len(pool[r]) \in Nat \ {0}
          BY <1>1, <2>1, PoolType
        <5> QED
          BY <3>1, <5>1, ApiScoresValid
      <4> QED
        BY <1>1, <2>1, <2>2, <3>1, <4>1 DEF TypeOK, Rank, Ordered
    <3>2. CASE ~RowsValid(rows, Len(pool[r]))
      BY <1>1, <2>1, <2>2, <3>2 DEF TypeOK, Fallback, Ordered
    <3> QED
      BY <3>1, <3>2
  <2> QED
    BY <2>1, <2>3 DEF Handled, Early, Ranking, Serving
<1>6. OfOneModel(r)'
  BY <1>1 DEF PerRequest, OfOneModel, TypeOK, Ranking, Serving, ApiAnswers, Rank,
              Fallback, Goto, request, worker
<1>7. Answered(r)'
  BY <1>1 DEF PerRequest, Answered, Outcome, TypeOK, ApiAnswers, Rank, Fallback,
              Goto, request, worker
<1> QED
  BY <1>2, <1>3, <1>4, <1>5, <1>6, <1>7 DEF RetrievalInv, PerRequest

LEMMA ScoreStep ==
    ASSUME RetrievalInv, Score
    PROVE  RetrievalInv'
<1>1. TypeOK /\ Exchange
  BY DEF RetrievalInv
<1>2. PICK r \in Requests :
          r = inbox /\ pc[r] = "receive" /\ pipe = <<>> /\ lock = r /\ r # Nobody
  BY <1>1 DEF Score, TypeOK, Exchange, Serving
<1>3. PICK scores \in [DOMAIN pool[r] -> Scores] :
          /\ pipe' = Append(pipe, [kind |-> "scores", scores |-> scores])
          /\ given' = [given EXCEPT ![r] = scores]
  BY <1>2 DEF Score
<1>4. scores \in Seq(Scores)
  BY <1>1, <1>2, PoolType
<1>5. pipe' = <<[kind |-> "scores", scores |-> scores]>>
  BY <1>2, <1>3
<1>6. given' \in [Requests -> Seq(Scores)] /\ given'[r] = scores
  BY <1>1, <1>2, <1>3, <1>4 DEF TypeOK
<1>7. pipe' \in Seq([kind : {"scores", "error"}, scores : Seq(Scores)])
  BY <1>4, <1>5
<1>8. TypeOK'
  BY <1>1, <1>6, <1>7 DEF TypeOK, Score, request
<1>9. Exchange'
  BY <1>1, <1>2, <1>5, <1>6 DEF Exchange, Score
<1>10. \A q \in Requests : q # r => PerRequest(q)'
  <2>1. \A q \in Requests : q # r => Same(q)
    BY <1>1, <1>2, <1>3 DEF TypeOK, Same, Score, request
  <2> QED
    BY <2>1, Frame DEF RetrievalInv
<1>11. PerRequest(r)'
  <2>1. PerRequest(r)
    BY <1>2 DEF RetrievalInv
  <2>2. /\ pc'[r] = "receive" /\ status'[r] = status[r] /\ pool'[r] = pool[r]
        /\ chosen'[r] = chosen[r] /\ embedded'[r] = embedded[r] /\ answer'[r] = answer[r]
        /\ embedder' = embedder
    BY <1>2 DEF Score, request
  <2> QED
    BY <1>2, <2>1, <2>2
    DEF PerRequest, Handled, OfOneModel, Answered, Early, Ranking, Serving
<1> QED
  BY <1>8, <1>9, <1>10, <1>11 DEF RetrievalInv

LEMMA StutterStep ==
    ASSUME RetrievalInv, UNCHANGED vars
    PROVE  RetrievalInv'
<1>1. TypeOK'
  BY DEF RetrievalInv, TypeOK, vars, request, worker
<1>2. Exchange'
  BY DEF RetrievalInv, Exchange, vars, worker
<1>3. \A q \in Requests : Same(q)
  BY DEF Same, vars, request
<1> QED
  BY <1>1, <1>2, <1>3, Frame DEF RetrievalInv

LEMMA InvStep ==
    ASSUME RetrievalInv, [Next]_vars
    PROVE  RetrievalInv'
<1>1. CASE \E r \in Requests : Begin(r) \/ Proceed(r)
  <2>1. PICK r \in Requests : Begin(r) \/ Proceed(r)
    BY <1>1
  <2>2. CASE Begin(r)
    BY <2>2, BeginStep
  <2>3. CASE ApiAnswers(r)
    BY <2>3, ApiAnswersStep
  <2>4. CASE \E items \in Pools, explained \in {"complete", "gaps"} : Retrieve(r, items, explained)
    BY <2>4, RetrieveStep
  <2>5. CASE Ends(r)
    BY <2>5, EmbedValueStep, SuppliedStep, EmbedObjectStep, DuplicatesStep, ApiFailsStep, QueueStep,
       AcquireStep, StartedStep, StartFailsStep, SendStep, ReceiveStep, NoAnswerStep, PackStep, PackItemStep,
       PackedStep, RecordStep, FailsStep
    DEF Ends
  <2> QED
    BY <2>1, <2>2, <2>3, <2>4, <2>5 DEF Proceed
<1>2. CASE Worker
  BY <1>2, LoadStep, ScoreStep, ScoreErrorStep, DieStep DEF Worker
<1>3. CASE Close
  BY <1>3, CloseStep
<1>4. CASE Change
  BY <1>4, ChangeStep
<1>5. CASE UNCHANGED vars
  BY <1>5, StutterStep
<1> QED
  BY <1>1, <1>2, <1>3, <1>4, <1>5 DEF Next

\* The inductive invariant holds.
THEOREM RetrievalInvariance == Spec => []RetrievalInv
<1>1. Init => RetrievalInv
  BY InitInv
<1>2. RetrievalInv /\ [Next]_vars => RetrievalInv'
  BY InvStep
<1> QED
  BY <1>1, <1>2, PTL DEF Spec

-----------------------------------------------------------------------------
(* The order of the items                                                   *)

\* The place of an item among Core's candidates.
PlaceOf(items, item) == CHOOSE i \in DOMAIN items : items[i] = item

LEMMA PlaceFound ==
    ASSUME NEW items, Distinct(items), NEW i \in DOMAIN items
    PROVE  PlaceOf(items, items[i]) = i
  BY DEF PlaceOf, Distinct

LEMMA InvOwnOrder ==
    ASSUME RetrievalInv
    PROVE  OwnOrder
<1> SUFFICES ASSUME NEW r \in Requests, pc[r] = "record", Unique(pool[r])
             PROVE  /\ status[r] = "reranked" => Len(given[r]) = Len(pool[r])
                    /\ \A i, j \in DOMAIN chosen[r] : i < j =>
                          LET a == PlaceOf(pool[r], chosen[r][i])
                              b == PlaceOf(pool[r], chosen[r][j])
                          IN  IF status[r] # "reranked" THEN a < b
                              ELSE Better(given[r], a, b)
  BY DEF OwnOrder, PlaceOf, Better
<1>1. TypeOK /\ Handled(r)
  BY DEF RetrievalInv, PerRequest
<1>2. /\ pool[r] \in Seq(Items) /\ chosen[r] \in Seq(Items) /\ given[r] \in Seq(Scores)
      /\ ranked[r] \in Seq(Items) /\ legend[r] \in {"complete", "gaps"}
  BY <1>1, PoolType DEF TypeOK
<1>3. Distinct(pool[r])
  BY <1>2, UniqueIsDistinct
<1>4. CASE status[r] = "none" \/ legend[r] = "gaps"
  <2>1. status[r] # "reranked" /\ chosen[r] = pool[r]
    BY <1>1, <1>4 DEF Handled
  <2> QED
    BY <1>3, <2>1, PlaceFound
<1>5. CASE ~(status[r] = "none" \/ legend[r] = "gaps")
  <2>1. Ordered(r) /\ Filled(ranked[r], chosen[r], Len(ranked[r]))
    BY <1>1, <1>5 DEF Handled
  <2>2. Len(ranked[r]) = Len(pool[r])
    BY <1>1, <2>1, OrderedItems
  <2>3. ASSUME NEW i \in DOMAIN chosen[r], NEW j \in DOMAIN chosen[r], i < j
        PROVE  \E a, b \in DOMAIN pool[r] :
                  a < b /\ chosen[r][i] = ranked[r][a] /\ chosen[r][j] = ranked[r][b]
    <3>1. PICK a \in 1..Len(ranked[r]) : chosen[r][i] = ranked[r][a]
      BY <2>1 DEF Filled
    <3>2. PICK b \in 1..Len(ranked[r]) : chosen[r][j] = ranked[r][b]
      BY <2>1 DEF Filled
    <3>3. a < b
      BY <2>1, <2>3, <3>1, <3>2 DEF Filled
    <3>4. a \in DOMAIN pool[r] /\ b \in DOMAIN pool[r]
      BY <1>2, <2>2
    <3> QED
      BY <3>1, <3>2, <3>3, <3>4
  <2>4. CASE status[r] = "core_fallback" /\ ranked[r] = pool[r]
    BY <1>3, <2>3, <2>4, PlaceFound
  <2>5. CASE status[r] = "reranked" /\ Len(given[r]) = Len(pool[r])
             /\ ranked[r] = RankItems(pool[r], given[r])
    <3>1. given[r] \in Seq(Nat)
      BY <1>2, ScoresAreNat
    <3>2. \A a \in DOMAIN pool[r] :
             From(given[r], a) \in DOMAIN pool[r] /\ ranked[r][a] = pool[r][From(given[r], a)]
      BY <1>2, <2>5, <3>1, RankedAt
    <3>3. \A a, b \in DOMAIN pool[r] :
             a < b => Better(given[r], From(given[r], a), From(given[r], b))
      BY <1>2, <2>5, <3>1, RankedItems
    <3>4. \A a \in DOMAIN pool[r] : PlaceOf(pool[r], ranked[r][a]) = From(given[r], a)
      BY <1>3, <3>2, PlaceFound
    <3> QED
      BY <2>3, <2>5, <3>3, <3>4
  <2> QED
    BY <2>1, <2>4, <2>5 DEF Ordered
<1> QED
  BY <1>4, <1>5

\* A reranked response is ordered by the scores computed for this very request,
\* equal ones in Core's order, whatever the process or the service does and however
\* many requests wait for it; any other response keeps Core's order.
THEOREM ResponsesKeepTheirOrder == Spec => []OwnOrder
  BY RetrievalInvariance, InvOwnOrder, PTL

-----------------------------------------------------------------------------
(* The injection                                                            *)

LEMMA InvWellPacked ==
    ASSUME RetrievalInv
    PROVE  WellPacked
<1> SUFFICES ASSUME NEW r \in Requests, pc[r] = "record", status[r] # "none",
                    legend[r] = "complete", Unique(pool[r])
             PROVE  /\ \A i \in DOMAIN ranked[r] : i <= MinK => ranked[r][i] \in ToSet(chosen[r])
                    /\ Len(chosen[r]) > MinK => Fits(chosen[r])
                    /\ \A i \in DOMAIN ranked[r] :
                          LET m == Count(ranked[r], ToSet(chosen[r]), i)
                          IN  IF ranked[r][i] \in ToSet(chosen[r])
                              THEN chosen[r][m] = ranked[r][i]
                              ELSE ~Fits(Append(SubSeq(chosen[r], 1, m), ranked[r][i]))
  BY DEF WellPacked, Count
<1>1. TypeOK /\ Handled(r)
  BY DEF RetrievalInv, PerRequest
<1>2. Filled(ranked[r], chosen[r], Len(ranked[r]))
  BY <1>1 DEF Handled
<1>3. DOMAIN ranked[r] = 1..Len(ranked[r])
  BY <1>1 DEF TypeOK
<1> QED
  BY <1>2, <1>3 DEF Filled

\* The injection holds the first MinK items whatever their length, fits the budget
\* if it holds more, keeps their order, and leaves out only what would not have
\* fitted after the items before it.
THEOREM InjectionsArePacked == Spec => []WellPacked
  BY RetrievalInvariance, InvWellPacked, PTL

-----------------------------------------------------------------------------
(* The response                                                             *)

\* Core's candidates reach the client although the reranker fails, Core knows which
\* of them did, and they were compared with vectors of one model.
THEOREM ResponsesStand == Spec => []ResponseStands
<1>1. RetrievalInv => ResponseStands
  BY DEF RetrievalInv, ResponseStands, FailOpen, DeliveredAsRecorded, OneModel,
         PerRequest,
         Answered, Outcome, OfOneModel, Ranking, Serving
<1> QED
  BY <1>1, RetrievalInvariance, PTL

=============================================================================
