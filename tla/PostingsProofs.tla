--------------------------- MODULE PostingsProofs ---------------------------
(***************************************************************************)
(* Facts about postings lists, and about what is defined number by number, *)
(* that the proofs about the indexer, the searches and the codec cite.     *)
(***************************************************************************)
EXTENDS Postings, FiniteSetTheorems, SequenceTheorems, WellFoundedInduction, TLAPS

\* The parts of a list of postings have their types.
LEMMA ListElements ==
    ASSUME NEW list \in Seq(Posting)
    PROVE  /\ Len(list) \in Nat
           /\ \A i \in 1..Len(list) : /\ list[i] \in Posting
                                      /\ list[i].doc \in Nat
<1>1. Len(list) \in Nat /\ \A i \in 1..Len(list) : list[i] \in Posting
  BY ElementOfSeq
<1>. QED BY <1>1 DEF Posting

\* A function on an initial segment of the naturals is a sequence.
LEMMA FunctionIsSeq ==
    ASSUME NEW S, NEW n \in Nat, NEW f \in [1..n -> S]
    PROVE  f \in Seq(S) /\ Len(f) = n
OBVIOUS

LEMMA IntervalCardinality ==
    ASSUME NEW n \in Nat
    PROVE  Cardinality(1..n) = n
<1>1. 1 \in Int /\ n \in Int
  OBVIOUS
<1>2. Cardinality(1..n) = IF 1 > n THEN 0 ELSE n - 1 + 1
  BY <1>1, FS_Interval, Zenon
<1>. QED BY <1>2

\* When the documents of pb all come after those of pa, merge_postings links
\* pb behind pa.
LEMMA MergeAppend ==
    ASSUME NEW pa \in Seq(Posting), NEW pb \in Seq(Posting),
           \A i \in 1..Len(pa), j \in 1..Len(pb) : pa[i].doc < pb[j].doc
    PROVE  Merge(pa, pb) = pa \o pb
<1>1. /\ Len(pa) \in Nat /\ Len(pb) \in Nat
      /\ \A i \in 1..Len(pa) : pa[i].doc \in Nat
      /\ \A j \in 1..Len(pb) : pb[j].doc \in Nat
  BY ListElements
<1>2. ASSUME NEW i \in 1..Len(pa) PROVE FromA(pa, pb, i) = i
  <2>1. {j \in 1..Len(pb) : pb[j].doc < pa[i].doc} = {}
    BY <1>1
  <2>2. Cardinality({}) = 0
    BY FS_EmptySet
  <2>3. FromA(pa, pb, i) = i + Cardinality({})
    BY <2>1, Zenon DEF FromA
  <2>. QED BY <1>1, <2>2, <2>3
<1>3. ASSUME NEW j \in 1..Len(pb) PROVE FromB(pa, pb, j) = j + Len(pa)
  <2>1. {i \in 1..Len(pa) : pa[i].doc <= pb[j].doc} = 1..Len(pa)
    BY <1>1
  <2>2. Cardinality(1..Len(pa)) = Len(pa)
    BY <1>1, IntervalCardinality
  <2>3. FromB(pa, pb, j) = j + Cardinality(1..Len(pa))
    BY <2>1, Zenon DEF FromB
  <2>. QED BY <2>2, <2>3
<1>. DEFINE m == Merge(pa, pb)
            c == pa \o pb
<1>4. /\ Len(c) = Len(pa) + Len(pb)
      /\ c \in Seq(Posting)
      /\ \A k \in 1..Len(pa) : c[k] = pa[k]
      /\ \A k \in 1..Len(pb) : c[Len(pa) + k] = pb[k]
  BY ConcatProperties, <1>1
<1>5. ASSUME NEW k \in 1..(Len(pa) + Len(pb)) PROVE m[k] = c[k]
  <2>1. CASE k <= Len(pa)
    <3>1. k \in 1..Len(pa)
      BY <1>1, <2>1
    <3>2. (CHOOSE i \in 1..Len(pa) : FromA(pa, pb, i) = k) = k
      BY <1>2, <3>1
    <3>3. m[k] = pa[k]
      BY <1>2, <3>1, <3>2 DEF Merge
    <3>. QED BY <1>4, <3>1, <3>3
  <2>2. CASE ~ (k <= Len(pa))
    <3>1. k - Len(pa) \in 1..Len(pb) /\ Len(pa) + (k - Len(pa)) = k
      BY <1>1, <2>2
    <3>2. ~ \E i \in 1..Len(pa) : FromA(pa, pb, i) = k
      BY <1>1, <1>2, <2>2
    <3>3. (CHOOSE j \in 1..Len(pb) : FromB(pa, pb, j) = k) = k - Len(pa)
      <4>1. FromB(pa, pb, k - Len(pa)) = k
        BY <1>1, <1>3, <3>1
      <4>2. \A j \in 1..Len(pb) : FromB(pa, pb, j) = k => j = k - Len(pa)
        BY <1>1, <1>3
      <4>. QED BY <3>1, <4>1, <4>2
    <3>4. m[k] = pb[k - Len(pa)]
      BY <3>2, <3>3 DEF Merge
    <3>. QED BY <1>4, <3>1, <3>4
  <2>. QED BY <2>1, <2>2
<1>6. m \in [1..(Len(pa) + Len(pb)) -> Posting]
  <2>1. \A k \in 1..(Len(pa) + Len(pb)) : c[k] \in Posting
    BY <1>4, ElementOfSeq
  <2>2. m = [k \in 1..(Len(pa) + Len(pb)) |-> m[k]]
    BY DEF Merge
  <2>. QED BY <1>5, <2>1, <2>2
<1>7. m \in Seq(Posting) /\ Len(m) = Len(pa) + Len(pb)
  <2>1. Len(pa) + Len(pb) \in Nat
    BY <1>1
  <2>. QED BY <1>6, <2>1, FunctionIsSeq, Zenon
<1>. QED BY <1>4, <1>5, <1>7, SeqEqual

-----------------------------------------------------------------------------
(***************************************************************************)
(* merge_postings on lists that may name a document twice, as the lists of *)
(* a document that was added again do.                                     *)
(***************************************************************************)
InOrder(list) == \A i, j \in 1..Len(list) : i < j => list[i].doc <= list[j].doc

\* The members of a set of positions that is closed downwards are counted by
\* the last one.
LEMMA InitialSegment ==
    ASSUME NEW m \in Nat, NEW S \in SUBSET (1..m),
           \A s \in S : 1..s \subseteq S
    PROVE  /\ Cardinality(S) \in 0..m
           /\ S = 1..Cardinality(S)
<1>. DEFINE n == Cardinality(S)
<1>1. IsFiniteSet(1..m) /\ Cardinality(1..m) = m
  <2>1. 1 \in Int /\ m \in Int
    OBVIOUS
  <2>. QED BY <2>1, FS_Interval, IntervalCardinality, Zenon
<1>2. IsFiniteSet(S) /\ n <= m /\ n \in Nat
  BY <1>1, FS_Subset, FS_CardinalityType
<1>3. ASSUME NEW s \in S PROVE s <= n
  <2>1. s \in Nat /\ 1..s \subseteq S
    OBVIOUS
  <2>2. Cardinality(1..s) <= n
    BY <1>2, <2>1, FS_Subset
  <2>3. Cardinality(1..s) = s
    BY <2>1, IntervalCardinality
  <2>. QED BY <2>2, <2>3
<1>. HIDE DEF n
<1>4. S \subseteq 1..n
  BY <1>2, <1>3
<1>5. IsFiniteSet(1..n) /\ Cardinality(1..n) = n
  <2>1. 1 \in Int /\ n \in Int
    BY <1>2
  <2>. QED BY <1>2, <2>1, FS_Interval, IntervalCardinality, Zenon
<1>6. Cardinality(S) = Cardinality(1..n)
  BY <1>5 DEF n
<1>7. S = 1..n
  BY <1>4, <1>5, <1>6, FS_Subset
<1>. QED BY <1>2, <1>7 DEF n

\* Where the postings of pa and of pb end up: between them, in order.
LEMMA MergedPlaces ==
    ASSUME NEW pa \in Seq(Posting), NEW pb \in Seq(Posting),
           InOrder(pa), InOrder(pb)
    PROVE  /\ \A i \in 1..Len(pa) : FromA(pa, pb, i) \in 1..(Len(pa) + Len(pb))
           /\ \A j \in 1..Len(pb) : FromB(pa, pb, j) \in 1..(Len(pa) + Len(pb))
           /\ \A i, k \in 1..Len(pa) : i < k => FromA(pa, pb, i) < FromA(pa, pb, k)
           /\ \A j, k \in 1..Len(pb) : j < k => FromB(pa, pb, j) < FromB(pa, pb, k)
           /\ \A i \in 1..Len(pa), j \in 1..Len(pb) :
                  IF pa[i].doc <= pb[j].doc
                  THEN FromA(pa, pb, i) < FromB(pa, pb, j)
                  ELSE FromB(pa, pb, j) < FromA(pa, pb, i)
<1>. DEFINE n == Len(pa)
            m == Len(pb)
            Before(i) == {j \in 1..m : pb[j].doc < pa[i].doc}
            UpTo(j) == {i \in 1..n : pa[i].doc <= pb[j].doc}
            a(i) == Cardinality(Before(i))
            b(j) == Cardinality(UpTo(j))
<1>1. /\ n \in Nat /\ m \in Nat
      /\ \A i \in 1..n : pa[i].doc \in Nat
      /\ \A j \in 1..m : pb[j].doc \in Nat
      /\ \A i, k \in 1..n : i < k => pa[i].doc <= pa[k].doc
      /\ \A j, k \in 1..m : j < k => pb[j].doc <= pb[k].doc
  BY ListElements DEF InOrder
<1>2. ASSUME NEW i \in 1..n
      PROVE  /\ a(i) \in 0..m
             /\ \A j \in 1..m : pb[j].doc < pa[i].doc <=> j <= a(i)
  <2>1. Before(i) \in SUBSET (1..m)
    OBVIOUS
  <2>2. \A s \in Before(i) : 1..s \subseteq Before(i)
    <3>1. ASSUME NEW s \in Before(i), NEW t \in 1..s PROVE t \in Before(i)
      <4>1. t = s \/ t < s
        BY <1>1
      <4>. QED BY <1>1, <4>1
    <3>. QED BY <3>1
  <2>3. Cardinality(Before(i)) \in 0..m /\ Before(i) = 1..Cardinality(Before(i))
    <3>. HIDE DEF Before
    <3>. QED BY <1>1, <2>1, <2>2, InitialSegment
  <2>4. \A j \in 1..m : j \in Before(i) <=> j <= a(i)
    <3>. HIDE DEF Before
    <3>. QED BY <1>1, <2>3
  <2>5. \A j \in 1..m : pb[j].doc < pa[i].doc <=> j \in Before(i)
    OBVIOUS
  <2>. HIDE DEF Before
  <2>. QED BY <2>3, <2>4, <2>5
<1>3. ASSUME NEW j \in 1..m
      PROVE  /\ b(j) \in 0..n
             /\ \A i \in 1..n : pa[i].doc <= pb[j].doc <=> i <= b(j)
  <2>1. UpTo(j) \in SUBSET (1..n)
    OBVIOUS
  <2>2. \A s \in UpTo(j) : 1..s \subseteq UpTo(j)
    <3>1. ASSUME NEW s \in UpTo(j), NEW t \in 1..s PROVE t \in UpTo(j)
      <4>1. t = s \/ t < s
        BY <1>1
      <4>. QED BY <1>1, <4>1
    <3>. QED BY <3>1
  <2>3. Cardinality(UpTo(j)) \in 0..n /\ UpTo(j) = 1..Cardinality(UpTo(j))
    <3>. HIDE DEF UpTo
    <3>. QED BY <1>1, <2>1, <2>2, InitialSegment
  <2>4. \A i \in 1..n : i \in UpTo(j) <=> i <= b(j)
    <3>. HIDE DEF UpTo
    <3>. QED BY <1>1, <2>3
  <2>5. \A i \in 1..n : pa[i].doc <= pb[j].doc <=> i \in UpTo(j)
    OBVIOUS
  <2>. HIDE DEF UpTo
  <2>. QED BY <2>3, <2>4, <2>5
<1>4. /\ \A i \in 1..n : FromA(pa, pb, i) = i + a(i)
      /\ \A j \in 1..m : FromB(pa, pb, j) = j + b(j)
  BY DEF FromA, FromB
<1>. HIDE DEF a, b, Before, UpTo
<1>5. ASSUME NEW i \in 1..n, NEW k \in 1..n, i < k
      PROVE  a(i) <= a(k)
  <2>1. a(i) \in 0..m /\ a(k) \in 0..m
    BY <1>2
  <2>2. CASE a(i) = 0
    BY <2>1, <2>2
  <2>3. CASE a(i) \in 1..m
    <3>1. pb[a(i)].doc < pa[i].doc
      BY <1>2, <2>3
    <3>2. pb[a(i)].doc < pa[k].doc
      BY <1>1, <1>5, <2>3, <3>1
    <3>. QED BY <1>2, <2>3, <3>2
  <2>. QED BY <1>1, <2>1, <2>2, <2>3
<1>6. ASSUME NEW j \in 1..m, NEW k \in 1..m, j < k
      PROVE  b(j) <= b(k)
  <2>1. b(j) \in 0..n /\ b(k) \in 0..n
    BY <1>3
  <2>2. CASE b(j) = 0
    BY <2>1, <2>2
  <2>3. CASE b(j) \in 1..n
    <3>1. pa[b(j)].doc <= pb[j].doc
      BY <1>3, <2>3
    <3>2. pa[b(j)].doc <= pb[k].doc
      BY <1>1, <1>6, <2>3, <3>1
    <3>. QED BY <1>3, <2>3, <3>2
  <2>. QED BY <1>1, <2>1, <2>2, <2>3
<1>7. ASSUME NEW i \in 1..n, NEW j \in 1..m
      PROVE  IF pa[i].doc <= pb[j].doc
             THEN i + a(i) < j + b(j)
             ELSE j + b(j) < i + a(i)
  <2>1. a(i) \in 0..m /\ b(j) \in 0..n
    BY <1>2, <1>3
  <2>2. pa[i].doc <= pb[j].doc <=> i <= b(j)
    BY <1>3
  <2>3. pb[j].doc < pa[i].doc <=> j <= a(i)
    BY <1>2
  <2>4. pa[i].doc <= pb[j].doc <=> ~ (pb[j].doc < pa[i].doc)
    BY <1>1
  <2>. QED BY <1>1, <2>1, <2>2, <2>3, <2>4
<1>8. /\ \A i \in 1..n : i + a(i) \in 1..(n + m)
      /\ \A j \in 1..m : j + b(j) \in 1..(n + m)
  <2>1. n \in Nat /\ m \in Nat
    BY <1>1
  <2>2. ASSUME NEW i \in 1..n PROVE i + a(i) \in 1..(n + m)
    <3>1. a(i) \in 0..m
      BY <1>2
    <3>. HIDE DEF a, n, m
    <3>. QED BY <2>1, <3>1
  <2>3. ASSUME NEW j \in 1..m PROVE j + b(j) \in 1..(n + m)
    <3>1. b(j) \in 0..n
      BY <1>3
    <3>. HIDE DEF b, n, m
    <3>. QED BY <2>1, <3>1
  <2>. QED BY <2>2, <2>3
<1>9. /\ \A i, k \in 1..n : i < k => i + a(i) < k + a(k)
      /\ \A j, k \in 1..m : j < k => j + b(j) < k + b(k)
  BY <1>1, <1>2, <1>3, <1>5, <1>6
<1>. QED BY <1>4, <1>7, <1>8, <1>9

\* Every place of the merged list is taken.
LEMMA EveryPlaceIsTaken ==
    ASSUME NEW pa \in Seq(Posting), NEW pb \in Seq(Posting),
           InOrder(pa), InOrder(pb), NEW k \in 1..(Len(pa) + Len(pb))
    PROVE  \/ \E i \in 1..Len(pa) : FromA(pa, pb, i) = k
           \/ \E j \in 1..Len(pb) : FromB(pa, pb, j) = k
<1>. DEFINE n == Len(pa)
            m == Len(pb)
            P == 1..(n + m)
            place == [x \in P |-> IF x <= n THEN FromA(pa, pb, x)
                                  ELSE FromB(pa, pb, x - n)]
<1>1. n \in Nat /\ m \in Nat
  OBVIOUS
<1>2. \A x \in P : IF x <= n THEN x \in 1..n ELSE x - n \in 1..m
  BY <1>1
<1>3. place \in [P -> P]
  BY <1>2, MergedPlaces
<1>4. ASSUME NEW x \in P, NEW y \in P, x < y
      PROVE  place[x] # place[y]
  <2>1. CASE y <= n
    <3>1. x \in 1..n /\ y \in 1..n /\ x <= n
      BY <1>1, <1>4, <2>1
    <3>2. FromA(pa, pb, x) < FromA(pa, pb, y)
      BY <1>4, <3>1, MergedPlaces
    <3>3. FromA(pa, pb, x) \in P /\ FromA(pa, pb, y) \in P
      BY <3>1, MergedPlaces
    <3>4. FromA(pa, pb, x) # FromA(pa, pb, y)
      BY <1>1, <3>2, <3>3
    <3>. QED BY <2>1, <3>1, <3>4
  <2>2. CASE ~ (x <= n)
    <3>1. x - n \in 1..m /\ y - n \in 1..m /\ x - n < y - n /\ ~ (y <= n)
      BY <1>1, <1>4, <2>2
    <3>2. FromB(pa, pb, x - n) < FromB(pa, pb, y - n)
      BY <3>1, MergedPlaces
    <3>3. FromB(pa, pb, x - n) \in P /\ FromB(pa, pb, y - n) \in P
      BY <3>1, MergedPlaces
    <3>4. FromB(pa, pb, x - n) # FromB(pa, pb, y - n)
      BY <1>1, <3>2, <3>3
    <3>. QED BY <2>2, <3>1, <3>4
  <2>3. CASE x <= n /\ ~ (y <= n)
    <3>1. x \in 1..n /\ y - n \in 1..m
      BY <1>1, <2>3
    <3>2. IF pa[x].doc <= pb[y - n].doc
          THEN FromA(pa, pb, x) < FromB(pa, pb, y - n)
          ELSE FromB(pa, pb, y - n) < FromA(pa, pb, x)
      BY <3>1, MergedPlaces
    <3>3. FromA(pa, pb, x) \in P /\ FromB(pa, pb, y - n) \in P
      BY <3>1, MergedPlaces
    <3>4. FromA(pa, pb, x) # FromB(pa, pb, y - n)
      BY <1>1, <3>2, <3>3
    <3>. QED BY <2>3, <3>4
  <2>. QED BY <2>1, <2>2, <2>3
<1>5. place \in Injection(P, P)
  <2>1. ASSUME NEW x \in P, NEW y \in P, place[x] = place[y]
        PROVE  x = y
    <3>1. x < y \/ y < x \/ x = y
      BY <1>1
    <3>. HIDE DEF place, P
    <3>. QED BY <1>4, <2>1, <3>1
  <2>. QED BY <1>3, <2>1 DEF Injection, IsInjective
<1>6. IsFiniteSet(P)
  <2>1. 1 \in Int /\ n + m \in Int
    BY <1>1
  <2>. QED BY <2>1, FS_Interval
<1>. HIDE DEF place
<1>7. place \in Surjection(P, P)
  <2>. HIDE DEF P
  <2>. QED BY <1>5, <1>6, FS_Injection
<1>8. PICK x \in P : place[x] = k
  BY <1>7 DEF Surjection
<1>. QED BY <1>2, <1>8 DEF place

\* The merged list has the postings of both lists, and is in order again.
LEMMA MergeKeeps ==
    ASSUME NEW pa \in Seq(Posting), NEW pb \in Seq(Posting),
           InOrder(pa), InOrder(pb)
    PROVE  /\ Merge(pa, pb) \in Seq(Posting)
           /\ PostingsIn(Merge(pa, pb)) = PostingsIn(pa) \cup PostingsIn(pb)
           /\ InOrder(Merge(pa, pb))
<1>. DEFINE n == Len(pa)
            m == Len(pb)
            list == Merge(pa, pb)
<1>1. /\ n \in Nat /\ m \in Nat
      /\ \A i \in 1..n : pa[i] \in Posting /\ pa[i].doc \in Nat
      /\ \A j \in 1..m : pb[j] \in Posting /\ pb[j].doc \in Nat
      /\ \A i, k \in 1..n : i < k => pa[i].doc <= pa[k].doc
      /\ \A j, k \in 1..m : j < k => pb[j].doc <= pb[k].doc
  BY ListElements DEF InOrder
<1>2. ASSUME NEW i \in 1..n
      PROVE  /\ FromA(pa, pb, i) \in 1..(n + m)
             /\ list[FromA(pa, pb, i)] = pa[i]
  <2>. DEFINE k == FromA(pa, pb, i)
  <2>1. k \in 1..(n + m)
    BY MergedPlaces
  <2>2. \A x \in 1..n : FromA(pa, pb, x) = k => x = i
    <3>1. ASSUME NEW x \in 1..n, FromA(pa, pb, x) = k, x # i PROVE FALSE
      <4>1. x < i \/ i < x
        BY <1>1, <3>1
      <4>2. FromA(pa, pb, x) < k \/ k < FromA(pa, pb, x)
        BY <4>1, MergedPlaces
      <4>. QED BY <1>1, <2>1, <3>1, <4>2
    <3>. QED BY <3>1
  <2>3. (CHOOSE x \in 1..n : FromA(pa, pb, x) = k) = i
    BY <2>2
  <2>. QED BY <2>1, <2>3 DEF Merge
<1>3. ASSUME NEW j \in 1..m
      PROVE  /\ FromB(pa, pb, j) \in 1..(n + m)
             /\ list[FromB(pa, pb, j)] = pb[j]
  <2>. DEFINE k == FromB(pa, pb, j)
  <2>1. k \in 1..(n + m)
    BY MergedPlaces
  <2>2. \A x \in 1..m : FromB(pa, pb, x) = k => x = j
    <3>1. ASSUME NEW x \in 1..m, FromB(pa, pb, x) = k, x # j PROVE FALSE
      <4>1. x < j \/ j < x
        BY <1>1, <3>1
      <4>2. FromB(pa, pb, x) < k \/ k < FromB(pa, pb, x)
        BY <4>1, MergedPlaces
      <4>. QED BY <1>1, <2>1, <3>1, <4>2
    <3>. QED BY <3>1
  <2>3. (CHOOSE x \in 1..m : FromB(pa, pb, x) = k) = j
    BY <2>2
  <2>4. ~ \E i \in 1..n : FromA(pa, pb, i) = k
    <3>1. ASSUME NEW i \in 1..n, FromA(pa, pb, i) = k PROVE FALSE
      <4>1. FromA(pa, pb, i) < k \/ k < FromA(pa, pb, i)
        BY MergedPlaces
      <4>. QED BY <1>1, <2>1, <3>1, <4>1
    <3>. QED BY <3>1
  <2>. QED BY <2>1, <2>3, <2>4 DEF Merge
<1>4. list = [k \in 1..(n + m) |-> list[k]]
  BY DEF Merge
<1>. HIDE DEF list
<1>5. ASSUME NEW k \in 1..(n + m)
      PROVE  \/ \E i \in 1..n : FromA(pa, pb, i) = k /\ list[k] = pa[i]
             \/ \E j \in 1..m : FromB(pa, pb, j) = k /\ list[k] = pb[j]
  BY <1>2, <1>3, EveryPlaceIsTaken
<1>6. list \in [1..(n + m) -> Posting]
  BY <1>1, <1>4, <1>5
<1>7. list \in Seq(Posting) /\ Len(list) = n + m
  <2>1. n + m \in Nat
    BY <1>1
  <2>. QED BY <1>6, <2>1, FunctionIsSeq, Zenon
<1>8. PostingsIn(list) = PostingsIn(pa) \cup PostingsIn(pb)
  <2>1. PostingsIn(list) \subseteq PostingsIn(pa) \cup PostingsIn(pb)
    BY <1>5, <1>7 DEF PostingsIn
  <2>2. PostingsIn(pa) \cup PostingsIn(pb) \subseteq PostingsIn(list)
    BY <1>2, <1>3, <1>7 DEF PostingsIn
  <2>. QED BY <2>1, <2>2
<1>9. ASSUME NEW k \in 1..(n + m), NEW l \in 1..(n + m), k < l
      PROVE  list[k].doc <= list[l].doc
  <2>1. ASSUME NEW i \in 1..n, FromA(pa, pb, i) = k, list[k] = pa[i],
               NEW x \in 1..n, FromA(pa, pb, x) = l, list[l] = pa[x]
        PROVE  list[k].doc <= list[l].doc
    <3>1. ~ (x < i)
      <4>1. x < i => l < k
        BY <2>1, MergedPlaces
      <4>. QED BY <1>1, <1>9, <4>1
    <3>2. i = x \/ i < x
      BY <1>1, <3>1
    <3>. QED BY <1>1, <2>1, <3>2
  <2>2. ASSUME NEW j \in 1..m, FromB(pa, pb, j) = k, list[k] = pb[j],
               NEW x \in 1..m, FromB(pa, pb, x) = l, list[l] = pb[x]
        PROVE  list[k].doc <= list[l].doc
    <3>1. ~ (x < j)
      <4>1. x < j => l < k
        BY <2>2, MergedPlaces
      <4>. QED BY <1>1, <1>9, <4>1
    <3>2. j = x \/ j < x
      BY <1>1, <3>1
    <3>. QED BY <1>1, <2>2, <3>2
  <2>3. ASSUME NEW i \in 1..n, FromA(pa, pb, i) = k, list[k] = pa[i],
               NEW j \in 1..m, FromB(pa, pb, j) = l, list[l] = pb[j]
        PROVE  list[k].doc <= list[l].doc
    <3>1. ~ (pa[i].doc <= pb[j].doc) => l < k
      BY <2>3, MergedPlaces
    <3>. QED BY <1>1, <1>9, <2>3, <3>1
  <2>4. ASSUME NEW j \in 1..m, FromB(pa, pb, j) = k, list[k] = pb[j],
               NEW i \in 1..n, FromA(pa, pb, i) = l, list[l] = pa[i]
        PROVE  list[k].doc <= list[l].doc
    <3>1. pa[i].doc <= pb[j].doc => l < k
      BY <2>4, MergedPlaces
    <3>. QED BY <1>1, <1>9, <2>4, <3>1
  <2>. QED BY <1>5, <2>1, <2>2, <2>3, <2>4
<1>. QED BY <1>7, <1>8, <1>9 DEF InOrder, list

-----------------------------------------------------------------------------
(***************************************************************************)
(* Induction and recursion over the natural numbers, in a form that needs  *)
(* no operator as a parameter: sets and functions take its place.          *)
(***************************************************************************)
LEMMA LeastNumber ==
    ASSUME NEW T \in SUBSET Nat, T # {}
    PROVE  \E x \in T : \A y \in T : x <= y
  <1> DEFINE R == OpToRel(<, Nat)
  <1>1. IsWellFoundedOn(R, Nat)
    BY NatLessThanWellFounded
  <1>2. \A x, y \in Nat : x < y => <<x, y>> \in R
    BY DEF OpToRel
  <1> HIDE DEF R
  <1>3. PICK x \in T : \A y \in T : ~ (<<y, x>> \in R)
    BY <1>1, WFMin
  <1>4. ASSUME NEW y \in T PROVE x <= y
    <2>1. x \in Nat /\ y \in Nat /\ <<y, x>> \notin R
      BY <1>3
    <2>2. ~ (y < x)
      BY <1>2, <2>1
    <2> QED BY <2>1, <2>2
  <1> QED BY <1>4

\* What holds at first and is handed on from each number to the next.
LEMMA Induction ==
    ASSUME NEW N \in Nat, NEW S, 0 \in S, \A n \in 1..N : n - 1 \in S => n \in S
    PROVE  0..N \subseteq S
  <1> DEFINE T == (0..N) \ S
  <1> SUFFICES ASSUME T # {} PROVE FALSE
    OBVIOUS
  <1>0. T \in SUBSET Nat
    OBVIOUS
  <1> HIDE DEF T
  <1>1. PICK x \in T : \A y \in T : x <= y
    BY <1>0, LeastNumber
  <1> USE DEF T
  <1>2. x \in 1..N
    OBVIOUS
  <1>3. x - 1 \notin T
    BY <1>1
  <1>4. x - 1 \in 0..N
    BY <1>2
  <1> QED BY <1>2, <1>3, <1>4

LEMMA InductionOverAll ==
    ASSUME NEW S, 0 \in S, \A n \in Nat \ {0} : n - 1 \in S => n \in S
    PROVE  Nat \subseteq S
  <1> SUFFICES ASSUME NEW N \in Nat PROVE N \in S
    OBVIOUS
  <1>1. \A n \in 1..N : n - 1 \in S => n \in S
    OBVIOUS
  <1>2. 0..N \subseteq S
    BY <1>1, Induction
  <1> QED BY <1>2

\* Two functions that begin alike and go on alike.
LEMMA Agreement ==
    ASSUME NEW N \in Nat, NEW f, NEW g, f[0] = g[0],
           \A n \in 1..N : f[n - 1] = g[n - 1] => f[n] = g[n]
    PROVE  \A n \in 0..N : f[n] = g[n]
  <1> DEFINE S == {n \in 0..N : f[n] = g[n]}
  <1>1. 0 \in S
    OBVIOUS
  <1>2. ASSUME NEW n \in 1..N, n - 1 \in S PROVE n \in S
    BY <1>2
  <1> HIDE DEF S
  <1>3. 0..N \subseteq S
    BY <1>1, <1>2, Induction
  <1> QED BY <1>3 DEF S

GoAlike(f, g, N) == f[0] = g[0] /\ \A n \in 1..N : f[n - 1] = g[n - 1] => f[n] = g[n]

LEMMA EndAlike ==
    ASSUME NEW N \in Nat, NEW f, NEW g, GoAlike(f, g, N)
    PROVE  f[N] = g[N]
  <1>1. N \in 0..N
    OBVIOUS
  <1>2. f[0] = g[0] /\ \A n \in 1..N : f[n - 1] = g[n - 1] => f[n] = g[n]
    BY DEF GoAlike
  <1>3. \A n \in 0..N : f[n] = g[n]
    BY <1>2, Agreement
  <1> QED BY <1>1, <1>3

\* A function on the first numbers that is defined step by step.
Recursive(f, N, first, step) ==
    f[0] = first /\ \A n \in 1..N : f[n] = step[n][f[n - 1]]

Prolongs(g, f, n, x) == g[n] = x /\ \A i \in 0..(n - 1) : g[i] = f[i]

LEMMA OneMoreStep ==
    ASSUME NEW D, NEW n \in Nat \ {0}, NEW f \in [0..(n - 1) -> D], NEW x \in D
    PROVE  \E g \in [0..n -> D] : Prolongs(g, f, n, x)
  <1> DEFINE g == [i \in 0..n |-> IF i = n THEN x ELSE f[i]]
  <1>1. ASSUME NEW i \in 0..n PROVE (IF i = n THEN x ELSE f[i]) \in D
    <2>1. CASE i = n
      BY <2>1
    <2>2. CASE i # n
      <3>1. i \in 0..(n - 1)
        BY <2>2
      <3> QED BY <2>2, <3>1
    <2> QED BY <2>1, <2>2
  <1>2. g \in [0..n -> D]
    BY <1>1
  <1>3. n \in 0..n
    OBVIOUS
  <1>4. g[n] = x
    BY <1>3
  <1>5. ASSUME NEW i \in 0..(n - 1) PROVE g[i] = f[i]
    <2>1. i \in 0..n /\ i # n
      OBVIOUS
    <2> QED BY <2>1
  <1> QED BY <1>2, <1>4, <1>5 DEF Prolongs

LEMMA RecursionUpTo ==
    ASSUME NEW D, NEW first \in D, NEW step \in [Nat \ {0} -> [D -> D]], NEW N \in Nat
    PROVE  \E f \in [0..N -> D] : Recursive(f, N, first, step)
  <1> DEFINE Has(n) == \E f \in [0..n -> D] : Recursive(f, n, first, step)
             S == {n \in Nat : Has(n)}
  <1>1. Has(0)
    <2>1. [i \in 0..0 |-> first] \in [0..0 -> D]
      OBVIOUS
    <2>2. Recursive([i \in 0..0 |-> first], 0, first, step)
      BY DEF Recursive
    <2> QED BY <2>1, <2>2
  <1>2. ASSUME NEW n \in Nat \ {0}, Has(n - 1) PROVE Has(n)
    <2>1. PICK f \in [0..(n - 1) -> D] : Recursive(f, n - 1, first, step)
      BY <1>2
    <2>2. f[n - 1] \in D
      OBVIOUS
    <2>3. PICK x \in D : x = step[n][f[n - 1]]
      BY <2>2
    <2> HIDE DEF Has, S
    <2>4. PICK g \in [0..n -> D] : Prolongs(g, f, n, x)
      BY OneMoreStep
    <2> USE DEF Has, Prolongs
    <2>5. ASSUME NEW i \in 1..n PROVE g[i] = step[i][g[i - 1]]
      <3>1. i - 1 \in 0..(n - 1)
        OBVIOUS
      <3>2. CASE i = n
        BY <2>3, <2>4, <3>1, <3>2
      <3>3. CASE i # n
        <4>1. i \in 1..(n - 1) /\ i \in 0..(n - 1)
          BY <3>3
        <4>2. f[i] = step[i][f[i - 1]]
          BY <2>1, <4>1 DEF Recursive
        <4> QED BY <2>4, <3>1, <4>1, <4>2
      <3> QED BY <3>2, <3>3
    <2>6. g[0] = first
      <3>1. 0 \in 0..(n - 1)
        OBVIOUS
      <3> QED BY <2>1, <2>4, <3>1 DEF Recursive
    <2>7. Recursive(g, n, first, step)
      BY <2>5, <2>6 DEF Recursive
    <2> QED BY <2>7
  <1> HIDE DEF Has
  <1>3. 0 \in S /\ \A n \in Nat \ {0} : n - 1 \in S => n \in S
    BY <1>1, <1>2
  <1> HIDE DEF S
  <1>4. Nat \subseteq S
    BY <1>3, InductionOverAll
  <1>5. Has(N)
    BY <1>4 DEF S
  <1> QED BY <1>5 DEF Has

\* One function for all numbers.
RecursiveOnAll(f, first, step) ==
    f[0] = first /\ \A n \in Nat \ {0} : f[n] = step[n][f[n - 1]]

LEMMA Recursion ==
    ASSUME NEW D, NEW first \in D, NEW step \in [Nat \ {0} -> [D -> D]]
    PROVE  \E f \in [Nat -> D] : RecursiveOnAll(f, first, step)
  <1> DEFINE Upto(n) == CHOOSE f \in [0..n -> D] : Recursive(f, n, first, step)
             f == [n \in Nat |-> Upto(n)[n]]
  <1>1. ASSUME NEW n \in Nat
        PROVE  Upto(n) \in [0..n -> D] /\ Recursive(Upto(n), n, first, step)
    BY RecursionUpTo
  <1>2. ASSUME NEW n \in Nat, NEW m \in 0..n PROVE Upto(m)[m] = Upto(n)[m]
    <2> DEFINE g == Upto(m)
               h == Upto(n)
    <2>1. Recursive(g, m, first, step) /\ Recursive(h, n, first, step)
      BY <1>1
    <2> HIDE DEF g, h
    <2>2. g[0] = h[0]
      BY <2>1 DEF Recursive
    <2>3. ASSUME NEW k \in 1..m, g[k - 1] = h[k - 1] PROVE g[k] = h[k]
      <3>1. k \in 1..n
        OBVIOUS
      <3> QED BY <2>1, <2>3, <3>1 DEF Recursive
    <2>4. \A k \in 0..m : g[k] = h[k]
      BY <2>2, <2>3, Agreement
    <2>5. g[m] = h[m]
      BY <2>4
    <2> QED BY <2>5 DEF g, h
  <1> HIDE DEF Upto
  <1>3. ASSUME NEW n \in Nat PROVE f[n] = Upto(n)[n] /\ f[n] \in D
    BY <1>1
  <1>4. f[0] = first
    BY <1>1, <1>3 DEF Recursive
  <1>5. ASSUME NEW n \in Nat \ {0} PROVE f[n] = step[n][f[n - 1]]
    <2>1. n - 1 \in Nat /\ n - 1 \in 0..n /\ n \in 1..n
      OBVIOUS
    <2>2. Upto(n)[n] = step[n][Upto(n)[n - 1]]
      BY <1>1, <2>1 DEF Recursive
    <2>3. Upto(n)[n - 1] = Upto(n - 1)[n - 1]
      BY <1>2, <2>1
    <2>4. f[n - 1] = Upto(n - 1)[n - 1] /\ f[n] = Upto(n)[n]
      BY <1>3, <2>1
    <2> QED BY <2>2, <2>3, <2>4
  <1> HIDE DEF f
  <1>6. f \in [Nat -> D]
    BY <1>3 DEF f
  <1> QED BY <1>4, <1>5, <1>6 DEF RecursiveOnAll

=============================================================================
