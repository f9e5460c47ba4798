--------------------------- MODULE HttpLoadProofs ---------------------------
(***************************************************************************)
(* Proofs about Timers and HttpLoad, for any number of slots, fetches and  *)
(* timers, any size of the hash table and any lateness of select.          *)
(***************************************************************************)
EXTENDS HttpLoad, SequenceTheorems, FiniteSetTheorems, WellFoundedInduction,
        TLAPS

-----------------------------------------------------------------------------
(***************************************************************************)
(* Numbers and sequences.                                                  *)
(***************************************************************************)
LEMMA LeastExists ==
    ASSUME NEW T, T \subseteq Nat, T # {}
    PROVE  Min(T) \in T /\ \A y \in T : Min(T) <= y
  <1>1. PICK x \in T : \A y \in T : ~ (<<y, x>> \in OpToRel(<, Nat))
    BY WFMin, NatLessThanWellFounded, Zenon
  <1>2. \A y \in T : ~ (y < x)
    BY <1>1 DEF OpToRel
  <1>3. \A y \in T : y \in Nat /\ x \in Nat
    OBVIOUS
  <1>4. \A y \in T : x <= y
    BY <1>2, <1>3
  <1> QED BY <1>4 DEF Min

LEMMA Quotient ==
    ASSUME NEW n \in Nat \ {0}, NEW a \in Int
    PROVE  a % n \in 0..n - 1 /\ a = n * (a \div n) + (a % n) /\ a \div n \in Int
  BY Z3

LEMMA RemaindersAgree ==
    ASSUME NEW n \in Nat \ {0}, NEW q1 \in Int, NEW q2 \in Int,
           NEW r1 \in 0..n - 1, NEW r2 \in 0..n - 1, n * q1 + r1 = n * q2 + r2
    PROVE  r1 = r2
  BY Z3

\* Time goes on: what a trigger time is hashed to stays.
LEMMA HashStays ==
    ASSUME NEW n \in Nat \ {0}, NEW c \in Int, NEW l \in Int, NEW d \in Int
    PROVE  (((c + d) % n) + (l - d)) % n = (c + l) % n
  <1> DEFINE q1 == (c + d) \div n
             r1 == (c + d) % n
             b == r1 + (l - d)
             q2 == b \div n
             r2 == b % n
             q == (c + l) \div n
             r == (c + l) % n
  <1>1. r1 \in 0..n - 1 /\ c + d = n * q1 + r1 /\ q1 \in Int
    <2> c + d \in Int
      OBVIOUS
    <2> QED BY Quotient
  <1>2. b \in Int
    BY <1>1
  <1>3. r2 \in 0..n - 1 /\ b = n * q2 + r2 /\ q2 \in Int
    BY <1>2, Quotient
  <1>4. r \in 0..n - 1 /\ c + l = n * q + r /\ q \in Int
    <2> c + l \in Int
      OBVIOUS
    <2> QED BY Quotient
  <1>5. c + l = n * q1 + (n * q2 + r2)
    <2>1. c + d = n * q1 + r1
      BY <1>1
    <2>2. r1 + (l - d) = n * q2 + r2
      BY <1>3
    <2>3. n * q1 \in Int /\ r1 \in Int /\ n * q2 + r2 \in Int
      BY <1>1, <1>3
    <2> HIDE DEF q1, r1, q2, r2, b
    <2> QED BY <2>1, <2>2, <2>3
  <1> HIDE DEF q1, r1, q2, r2, b, q, r
  <1>6. n * (q1 + q2) + r2 = n * q + r
    <2>1. n * (q1 + q2) = n * q1 + n * q2
      BY <1>1, <1>3, Z3
    <2> QED BY <2>1, <1>1, <1>3, <1>4, <1>5, Z3
  <1>7. q1 + q2 \in Int
    BY <1>1, <1>3
  <1>8. r2 = r
    BY <1>3, <1>4, <1>6, <1>7, RemaindersAgree
  <1> QED BY <1>8 DEF r2, r, b, r1

LEMMA InsertedAt ==
    ASSUME NEW S, NEW s \in Seq(S), NEW n \in 1..Len(s) + 1, NEW e \in S
    PROVE  /\ InsertAt(s, n, e) \in Seq(S)
           /\ Len(InsertAt(s, n, e)) = Len(s) + 1
           /\ \A i \in 1..Len(s) + 1 :
                  InsertAt(s, n, e)[i] = IF i < n THEN s[i]
                                         ELSE IF i = n THEN e ELSE s[i - 1]
  <1> DEFINE front == SubSeq(s, 1, n - 1)
             back == SubSeq(s, n, Len(s))
             middle == front \o <<e>>
  <1>0. Len(s) \in Nat /\ n \in Nat /\ \A i \in 1..Len(s) : s[i] \in S
    BY ElementOfSeq
  <1>1. /\ front \in Seq(S)
        /\ Len(front) = n - 1
        /\ \A i \in 1..n - 1 : front[i] = s[i]
    <2>1. 1 \in Int /\ n - 1 \in Int /\ \A i \in 1..n - 1 : s[i] \in S
      BY <1>0
    <2>2. /\ front \in Seq(S)
          /\ Len(front) = IF 1 <= n - 1 THEN (n - 1) - 1 + 1 ELSE 0
          /\ \A i \in 1..(n - 1) - 1 + 1 : front[i] = s[1 + i - 1]
      BY <2>1, SubSeqProperties
    <2> HIDE DEF front
    <2> QED BY <1>0, <2>2
  <1>2. /\ back \in Seq(S)
        /\ Len(back) = Len(s) - n + 1
        /\ \A i \in 1..Len(s) - n + 1 : back[i] = s[n + i - 1]
    <2>1. n \in Int /\ Len(s) \in Int /\ \A i \in n..Len(s) : s[i] \in S
      BY <1>0
    <2>2. /\ back \in Seq(S)
          /\ Len(back) = IF n <= Len(s) THEN Len(s) - n + 1 ELSE 0
          /\ \A i \in 1..Len(s) - n + 1 : back[i] = s[n + i - 1]
      BY <2>1, SubSeqProperties
    <2> HIDE DEF back
    <2> QED BY <1>0, <2>2
  <1> HIDE DEF front, back
  <1>3. <<e>> \in Seq(S) /\ Len(<<e>>) = 1 /\ <<e>>[1] = e
    OBVIOUS
  <1>4. /\ middle \in Seq(S)
        /\ Len(middle) = n
        /\ \A i \in 1..n : middle[i] = IF i < n THEN s[i] ELSE e
    <2>0. /\ middle \in Seq(S)
          /\ Len(middle) = Len(front) + Len(<<e>>)
          /\ \A i \in 1..Len(front) + Len(<<e>>) :
                 middle[i] = IF i <= Len(front) THEN front[i]
                             ELSE <<e>>[i - Len(front)]
      BY <1>1, <1>3, ConcatProperties
    <2> HIDE DEF middle
    <2>1. /\ middle \in Seq(S)
          /\ Len(middle) = n
          /\ \A i \in 1..n :
                 middle[i] = IF i <= n - 1 THEN front[i] ELSE <<e>>[i - (n - 1)]
      <3>1. Len(front) = n - 1 /\ Len(front) + Len(<<e>>) = n
        BY <1>0, <1>1, <1>3
      <3> QED BY <2>0, <3>1
    <2>2. ASSUME NEW i \in 1..n PROVE middle[i] = IF i < n THEN s[i] ELSE e
      <3>1. CASE i < n
        BY <1>0, <1>1, <2>1, <3>1
      <3>2. CASE i = n
        <4>1. i - (n - 1) = 1
          BY <1>0, <3>2
        <4> QED BY <1>0, <1>3, <2>1, <3>2, <4>1
      <3> QED BY <1>0, <3>1, <3>2
    <2> QED BY <1>0, <2>1, <2>2
  <1> HIDE DEF middle
  <1>5. InsertAt(s, n, e) = middle \o back
    BY DEF InsertAt, front, middle, back
  <1>6. /\ InsertAt(s, n, e) \in Seq(S)
        /\ Len(InsertAt(s, n, e)) = Len(s) + 1
        /\ \A i \in 1..Len(s) + 1 :
               InsertAt(s, n, e)[i] = IF i <= n THEN middle[i] ELSE back[i - n]
    <2>1. /\ middle \o back \in Seq(S)
          /\ Len(middle \o back) = Len(middle) + Len(back)
          /\ \A i \in 1..Len(middle) + Len(back) :
                 (middle \o back)[i] = IF i <= Len(middle) THEN middle[i]
                                       ELSE back[i - Len(middle)]
      BY <1>2, <1>4, ConcatProperties
    <2>2. Len(middle) = n /\ Len(middle) + Len(back) = Len(s) + 1
      BY <1>0, <1>2, <1>4
    <2> QED BY <1>5, <2>1, <2>2
  <1>8. ASSUME NEW i \in 1..Len(s) + 1
        PROVE  InsertAt(s, n, e)[i] = IF i < n THEN s[i]
                                      ELSE IF i = n THEN e ELSE s[i - 1]
    <2>1. CASE i <= n
      <3>1. i \in 1..n
        BY <1>0, <2>1
      <3>2. InsertAt(s, n, e)[i] = IF i < n THEN s[i] ELSE e
        BY <1>4, <1>6, <2>1, <3>1
      <3> QED BY <1>0, <2>1, <3>2
    <2>2. CASE i > n
      <3>1. /\ i - n \in 1..Len(s) - n + 1 /\ n + (i - n) - 1 = i - 1
            /\ ~ (i <= n) /\ ~ (i < n) /\ i # n
        BY <1>0, <2>2
      <3>2. back[i - n] = s[i - 1]
        BY <1>2, <3>1
      <3>3. InsertAt(s, n, e)[i] = back[i - n]
        BY <1>6, <3>1
      <3> QED BY <3>1, <3>2, <3>3
    <2> QED BY <1>0, <2>1, <2>2
  <1> QED BY <1>6, <1>8

LEMMA RemovedAt ==
    ASSUME NEW S, NEW s \in Seq(S), NEW n \in 1..Len(s)
    PROVE  /\ RemoveAt(s, n) \in Seq(S)
           /\ Len(RemoveAt(s, n)) = Len(s) - 1
           /\ \A i \in 1..Len(s) - 1 :
                  RemoveAt(s, n)[i] = IF i < n THEN s[i] ELSE s[i + 1]
  <1> DEFINE front == SubSeq(s, 1, n - 1)
             back == SubSeq(s, n + 1, Len(s))
  <1>0. Len(s) \in Nat /\ n \in Nat /\ \A i \in 1..Len(s) : s[i] \in S
    BY ElementOfSeq
  <1>1. /\ front \in Seq(S)
        /\ Len(front) = n - 1
        /\ \A i \in 1..n - 1 : front[i] = s[i]
    <2>1. 1 \in Int /\ n - 1 \in Int /\ \A i \in 1..n - 1 : s[i] \in S
      BY <1>0
    <2>2. /\ front \in Seq(S)
          /\ Len(front) = IF 1 <= n - 1 THEN (n - 1) - 1 + 1 ELSE 0
          /\ \A i \in 1..(n - 1) - 1 + 1 : front[i] = s[1 + i - 1]
      BY <2>1, SubSeqProperties
    <2> HIDE DEF front
    <2> QED BY <1>0, <2>2
  <1>2. /\ back \in Seq(S)
        /\ Len(back) = Len(s) - n
        /\ \A i \in 1..Len(s) - n : back[i] = s[n + i]
    <2>1. n + 1 \in Int /\ Len(s) \in Int /\ \A i \in n + 1..Len(s) : s[i] \in S
      BY <1>0
    <2>2. /\ back \in Seq(S)
          /\ Len(back) = IF n + 1 <= Len(s) THEN Len(s) - (n + 1) + 1 ELSE 0
          /\ \A i \in 1..Len(s) - (n + 1) + 1 : back[i] = s[(n + 1) + i - 1]
      BY <2>1, SubSeqProperties
    <2> HIDE DEF back
    <2>3. \A i \in 1..Len(s) - n : (n + 1) + i - 1 = n + i
      BY <1>0
    <2>4. Len(s) - (n + 1) + 1 = Len(s) - n
      BY <1>0
    <2>5. (IF n + 1 <= Len(s) THEN Len(s) - n ELSE 0) = Len(s) - n
      BY <1>0
    <2>6. Len(back) = Len(s) - n
      BY <2>2, <2>4, <2>5
    <2>7. ASSUME NEW i \in 1..Len(s) - n PROVE back[i] = s[n + i]
      <3>1. back[i] = s[(n + 1) + i - 1]
        BY <2>2, <2>4
      <3> QED BY <2>3, <3>1
    <2> QED BY <2>2, <2>6, <2>7
  <1> HIDE DEF front, back
  <1>3. RemoveAt(s, n) = front \o back
    BY DEF RemoveAt, front, back
  <1>4. /\ RemoveAt(s, n) \in Seq(S)
        /\ Len(RemoveAt(s, n)) = Len(s) - 1
        /\ \A i \in 1..Len(s) - 1 :
               RemoveAt(s, n)[i] = IF i <= n - 1 THEN front[i]
                                   ELSE back[i - (n - 1)]
    <2>1. /\ front \o back \in Seq(S)
          /\ Len(front \o back) = Len(front) + Len(back)
          /\ \A i \in 1..Len(front) + Len(back) :
                 (front \o back)[i] = IF i <= Len(front) THEN front[i]
                                      ELSE back[i - Len(front)]
      BY <1>1, <1>2, ConcatProperties
    <2>2. Len(front) = n - 1 /\ Len(front) + Len(back) = Len(s) - 1
      BY <1>0, <1>1, <1>2
    <2> QED BY <1>3, <2>1, <2>2
  <1>6. ASSUME NEW i \in 1..Len(s) - 1
        PROVE  RemoveAt(s, n)[i] = IF i < n THEN s[i] ELSE s[i + 1]
    <2>1. CASE i < n
      <3>1. i <= n - 1 /\ i \in 1..n - 1
        BY <1>0, <2>1
      <3> QED BY <1>1, <1>4, <2>1, <3>1
    <2>2. CASE i >= n
      <3>1. /\ i - (n - 1) \in 1..Len(s) - n /\ n + (i - (n - 1)) = i + 1
            /\ ~ (i <= n - 1) /\ ~ (i < n)
        BY <1>0, <2>2
      <3>2. back[i - (n - 1)] = s[i + 1]
        BY <1>2, <3>1
      <3>3. RemoveAt(s, n)[i] = back[i - (n - 1)]
        BY <1>4, <3>1
      <3> QED BY <3>1, <3>2, <3>3
    <2> QED BY <1>0, <2>1, <2>2
  <1> QED BY <1>4, <1>6

LEMMA CountTo ==
    ASSUME NEW n \in Nat
    PROVE  IsFiniteSet(1..n) /\ Cardinality(1..n) = n
  <1>1. 1 \in Int /\ n \in Int
    OBVIOUS
  <1>2. /\ IsFiniteSet(1..n)
        /\ Cardinality(1..n) = IF 1 > n THEN 0 ELSE n - 1 + 1
    BY <1>1, FS_Interval
  <1>3. (IF 1 > n THEN 0 ELSE n - 1 + 1) = n
    OBVIOUS
  <1> QED BY <1>2, <1>3

-----------------------------------------------------------------------------
(***************************************************************************)
(* The lists of timers.                                                    *)
(***************************************************************************)
TimerRecords ==
    [proc : {"none", "start", "idle", "wakeup"}, client : Nat, secs : Nat,
     periodic : BOOLEAN, left : Int, hash : Buckets]

Wheels ==
    [lists : [Buckets -> Seq(Ids)], free : Seq(Ids), made : 0..MaxTimers,
     clock : Nat, timer : [Ids -> TimerRecords]]

Distinct(list) == \A m, n \in 1..Len(list) : list[m] = list[n] => m = n

\* A list that holds the timers of its hash once and is sorted.
ListKept(w, h) ==
    /\ Distinct(w.lists[h])
    /\ \A n \in 1..Len(w.lists[h]) :
           w.timer[w.lists[h][n]].hash = h /\ Hash(w, w.lists[h][n]) = h
    /\ \A m, n \in 1..Len(w.lists[h]) :
           m <= n => w.timer[w.lists[h][m]].left <= w.timer[w.lists[h][n]].left

\* Every timer that was made is in a list, or free, or one of those held apart.
Placed(w, apart) ==
    /\ Live(w) \cup ToSet(w.free) \cup apart = 1..w.made
    /\ Live(w) \cap ToSet(w.free) = {}
    /\ apart \cap (Live(w) \cup ToSet(w.free)) = {}
    /\ Distinct(w.free)

Kept(w, apart) ==
    /\ w \in Wheels
    /\ \A h \in Buckets : ListKept(w, h)
    /\ Placed(w, apart)

\* No list has a behind b.
NotBehind(w, a, b) ==
    \A h \in Buckets : \A i, j \in 1..Len(w.lists[h]) :
        w.lists[h][i] = a /\ w.lists[h][j] = b => i <= j

LEMMA WheelTypes ==
    ASSUME NEW w \in Wheels
    PROVE  /\ \A h \in Buckets : /\ w.lists[h] \in Seq(Ids)
                                 /\ Len(w.lists[h]) \in Nat
                                 /\ \A n \in 1..Len(w.lists[h]) : w.lists[h][n] \in Ids
           /\ w.free \in Seq(Ids) /\ Len(w.free) \in Nat
           /\ \A n \in 1..Len(w.free) : w.free[n] \in Ids
           /\ w.made \in 0..MaxTimers /\ w.made \in Nat
           /\ w.clock \in Nat
           /\ \A t \in Ids : /\ w.timer[t] \in TimerRecords
                             /\ w.timer[t].left \in Int
                             /\ w.timer[t].secs \in Nat
                             /\ w.timer[t].hash \in Buckets
                             /\ Hash(w, t) \in Buckets
           /\ \A t \in Ids : t \in Nat \ {0}
           /\ HashSize \in Nat \ {0} /\ MaxTimers \in Nat \ {0}
  <1>1. HashSize \in Nat \ {0} /\ MaxTimers \in Nat \ {0}
    BY TimersAssumption
  <1>2. /\ w.lists \in [Buckets -> Seq(Ids)] /\ w.free \in Seq(Ids)
        /\ w.made \in 0..MaxTimers /\ w.clock \in Nat
        /\ w.timer \in [Ids -> TimerRecords]
    BY DEF Wheels
  <1>3. ASSUME NEW h \in Buckets
        PROVE  /\ w.lists[h] \in Seq(Ids)
               /\ Len(w.lists[h]) \in Nat
               /\ \A n \in 1..Len(w.lists[h]) : w.lists[h][n] \in Ids
    <2>1. w.lists[h] \in Seq(Ids)
      BY <1>2
    <2> QED BY <2>1, ElementOfSeq
  <1>4. \A n \in 1..Len(w.free) : w.free[n] \in Ids
    BY <1>2, ElementOfSeq
  <1>5. ASSUME NEW t \in Ids
        PROVE  /\ w.timer[t] \in TimerRecords
               /\ w.timer[t].left \in Int
               /\ w.timer[t].secs \in Nat
               /\ w.timer[t].hash \in Buckets
               /\ Hash(w, t) \in Buckets
    <2>1. w.timer[t] \in TimerRecords
      BY <1>2
    <2>2. w.timer[t].left \in Int /\ w.timer[t].hash \in Buckets /\ w.timer[t].secs \in Nat
      BY <2>1 DEF TimerRecords
    <2>3. w.clock + w.timer[t].left \in Int
      BY <1>2, <2>2
    <2>4. (w.clock + w.timer[t].left) % HashSize \in 0..HashSize - 1
      BY <1>1, <2>3, Quotient
    <2> QED BY <2>1, <2>2, <2>4 DEF Hash, Buckets
  <1>6. \A t \in Ids : t \in Nat \ {0}
    BY <1>1 DEF Ids
  <1> QED BY <1>1, <1>2, <1>3, <1>4, <1>5, <1>6

LEMMA LiveIsListed ==
    ASSUME NEW w \in Wheels
    PROVE  /\ \A t : t \in Live(w) <=>
                  \E h \in Buckets : \E n \in 1..Len(w.lists[h]) : w.lists[h][n] = t
           /\ \A t : t \in ToSet(w.free) <=> \E n \in 1..Len(w.free) : w.free[n] = t
           /\ Live(w) \subseteq Ids /\ ToSet(w.free) \subseteq Ids
  <1>1. \A h \in Buckets : DOMAIN w.lists[h] = 1..Len(w.lists[h])
    BY WheelTypes, LenProperties
  <1>2. DOMAIN w.free = 1..Len(w.free)
    BY WheelTypes, LenProperties
  <1>3. \A t : t \in Live(w) <=>
                  \E h \in Buckets : \E n \in 1..Len(w.lists[h]) : w.lists[h][n] = t
    BY <1>1 DEF Live, ToSet
  <1>4. \A t : t \in ToSet(w.free) <=> \E n \in 1..Len(w.free) : w.free[n] = t
    BY <1>2 DEF ToSet
  <1>5. /\ \A h \in Buckets : \A n \in 1..Len(w.lists[h]) : w.lists[h][n] \in Ids
        /\ \A n \in 1..Len(w.free) : w.free[n] \in Ids
    BY WheelTypes
  <1> QED BY <1>3, <1>4, <1>5

LEMMA Relisted ==
    ASSUME NEW w \in Wheels, NEW h \in Buckets, NEW new \in Seq(Ids)
    PROVE  LET x == [w EXCEPT !.lists[h] = new]
           IN  /\ x.lists[h] = new
               /\ \A g \in Buckets \ {h} : x.lists[g] = w.lists[g]
               /\ x.free = w.free /\ x.made = w.made
               /\ x.clock = w.clock /\ x.timer = w.timer
               /\ x \in Wheels
  <1> DEFINE x == [w EXCEPT !.lists[h] = new]
             lists2 == [w.lists EXCEPT ![h] = new]
  <1>1. lists2 \in [Buckets -> Seq(Ids)]
    BY DEF Wheels
  <1>2. lists2[h] = new /\ \A g \in Buckets \ {h} : lists2[g] = w.lists[g]
    BY DEF Wheels
  <1>3. x = [w EXCEPT !.lists = lists2]
    OBVIOUS
  <1> HIDE DEF lists2, x
  <1>4. /\ x.lists = lists2 /\ x.free = w.free /\ x.made = w.made
        /\ x.clock = w.clock /\ x.timer = w.timer
    BY <1>3 DEF Wheels
  <1>5. x \in Wheels
    BY <1>1, <1>3 DEF Wheels
  <1> QED BY <1>2, <1>4, <1>5 DEF x

\* A list whose timers have not changed.
LEMMA ListStays ==
    ASSUME NEW w, NEW x, NEW h, ListKept(w, h), x.lists[h] = w.lists[h],
           \A n \in 1..Len(w.lists[h]) :
               /\ x.timer[w.lists[h][n]] = w.timer[w.lists[h][n]]
               /\ Hash(x, w.lists[h][n]) = Hash(w, w.lists[h][n])
    PROVE  ListKept(x, h)
  <1>1. Distinct(x.lists[h])
    BY DEF ListKept
  <1>2. \A n \in 1..Len(x.lists[h]) :
            x.timer[x.lists[h][n]].hash = h /\ Hash(x, x.lists[h][n]) = h
    BY DEF ListKept
  <1>3. \A m, n \in 1..Len(x.lists[h]) :
            m <= n => x.timer[x.lists[h][m]].left <= x.timer[x.lists[h][n]].left
    BY DEF ListKept
  <1> QED BY <1>1, <1>2, <1>3 DEF ListKept

\* The lists that insert and remove a timer.
LEMMA AddedKeeps ==
    ASSUME NEW w, NEW t \in Ids, Kept(w, {t}), w.timer[t].hash = Hash(w, t),
           NEW x, x = Added(w, t)
    PROVE  /\ Kept(x, {})
           /\ Live(x) = Live(w) \cup {t}
           /\ x.timer = w.timer /\ x.made = w.made
           /\ \A a, b : a # t /\ b # t /\ NotBehind(w, a, b) => NotBehind(x, a, b)
           /\ \A b \in Live(w) :
                  w.timer[t].left <= w.timer[b].left => NotBehind(x, t, b)
  <1> DEFINE h == w.timer[t].hash
             list == w.lists[h]
             left(i) == w.timer[list[i]].left
             later == {i \in 1..Len(list) : w.timer[t].left <= left(i)}
             n == Min(later \cup {Len(list) + 1})
             new == InsertAt(list, n, t)
             old(i) == IF i < n THEN i ELSE i - 1
  <1>1. /\ w \in Wheels /\ h \in Buckets /\ list \in Seq(Ids) /\ Len(list) \in Nat
        /\ w.timer[t].left \in Int
        /\ \A i \in 1..Len(list) : list[i] \in Ids /\ left(i) \in Int
    <2>1. w \in Wheels
      BY DEF Kept
    <2> QED BY <2>1, WheelTypes
  <1>2. /\ n \in 1..Len(list) + 1
        /\ \A i \in 1..Len(list) : i < n => left(i) < w.timer[t].left
        /\ n <= Len(list) => w.timer[t].left <= left(n)
    <2> DEFINE T == later \cup {Len(list) + 1}
    <2>1. T \subseteq Nat /\ T # {} /\ T \subseteq 1..Len(list) + 1
      BY <1>1
    <2>2. Min(T) \in T /\ \A y \in T : Min(T) <= y
      <3> HIDE DEF T
      <3> QED BY <2>1, LeastExists
    <2>3. n = Min(T)
      OBVIOUS
    <2> HIDE DEF n
    <2>4. n \in 1..Len(list) + 1 /\ n \in T /\ \A y \in T : n <= y
      <3> HIDE DEF T, list
      <3> QED BY <2>1, <2>2, <2>3
    <2>5. n <= Len(list) => n \in later
      <3> HIDE DEF later, list
      <3> QED BY <1>1, <2>4
    <2>6. \A i \in 1..Len(list) : i < n => ~ (i \in later)
      <3> HIDE DEF later, list
      <3> QED BY <1>1, <2>4
    <2>7. \A i \in 1..Len(list) : i < n => left(i) < w.timer[t].left
      <3> TAKE i \in 1..Len(list)
      <3>1. left(i) \in Int /\ w.timer[t].left \in Int
        BY <1>1
      <3>2. i \in later \/ ~ (w.timer[t].left <= left(i))
        <4> HIDE DEF left, list
        <4> QED OBVIOUS
      <3> HIDE DEF left, later, list
      <3> QED BY <2>6, <3>1, <3>2
    <2>8. n <= Len(list) => w.timer[t].left <= left(n)
      <3> HIDE DEF left, list
      <3> QED BY <2>5
    <2> QED BY <2>4, <2>7, <2>8
  <1> HIDE DEF n
  <1>3. /\ new \in Seq(Ids)
        /\ Len(new) = Len(list) + 1
        /\ new[n] = t
        /\ \A i \in 1..Len(list) + 1 :
               i # n => new[i] = list[old(i)] /\ old(i) \in 1..Len(list)
    <2>1. /\ new \in Seq(Ids)
          /\ Len(new) = Len(list) + 1
          /\ \A i \in 1..Len(list) + 1 :
                 new[i] = IF i < n THEN list[i] ELSE IF i = n THEN t ELSE list[i - 1]
      <3> HIDE DEF list
      <3> QED BY <1>1, <1>2, InsertedAt
    <2> HIDE DEF new, list
    <2>2. \A i \in 1..Len(list) + 1 : i # n => old(i) \in 1..Len(list)
      BY <1>1, <1>2
    <2>3. \A i \in 1..Len(list) + 1 : i # n => new[i] = list[old(i)]
      BY <1>1, <1>2, <2>1
    <2>4. n \in 1..Len(list) + 1 /\ ~ (n < n)
      BY <1>1, <1>2
    <2>5. new[n] = t
      BY <2>1, <2>4
    <2> QED BY <2>1, <2>2, <2>3, <2>5
  <1>4. \A i, j \in 1..Len(list) + 1 :
            i # n /\ j # n => (old(i) <= old(j) <=> i <= j) /\ (old(i) = old(j) <=> i = j)
    BY <1>1, <1>2
  <1>5. \A i \in 1..Len(list) : \E j \in 1..Len(list) + 1 : j # n /\ old(j) = i
    <2> TAKE i \in 1..Len(list)
    <2>1. CASE i < n
      BY <1>1, <1>2, <2>1
    <2>2. CASE i >= n
      <3>1. i + 1 \in 1..Len(list) + 1 /\ i + 1 # n /\ old(i + 1) = i
        BY <1>1, <1>2, <2>2
      <3> QED BY <3>1
    <2> QED BY <1>1, <1>2, <2>1, <2>2
  <1>6. x = [w EXCEPT !.lists[h] = new]
    BY DEF Added, n
  <1>7. /\ x.free = w.free /\ x.made = w.made /\ x.clock = w.clock /\ x.timer = w.timer
        /\ x \in Wheels
    <2> HIDE DEF h, new
    <2> QED BY <1>1, <1>3, <1>6, Relisted
  <1>8. x.lists[h] = new /\ \A g \in Buckets \ {h} : x.lists[g] = w.lists[g]
    <2> HIDE DEF h, new, list, old
    <2>1. w \in Wheels /\ h \in Buckets /\ new \in Seq(Ids)
      BY <1>1, <1>3
    <2>2. x.lists[h] = new
      BY <1>6, <2>1, Relisted
    <2>3. \A g \in Buckets \ {h} : x.lists[g] = w.lists[g]
      BY <1>6, <2>1, Relisted
    <2> QED BY <2>2, <2>3
  <1>9. \A g \in Buckets : \A i \in 1..Len(w.lists[g]) : w.lists[g][i] # t
    BY <1>1, LiveIsListed DEF Kept, Placed
  <1> HIDE DEF new, old
  <1>10. Live(x) = Live(w) \cup {t}
    <2>1. ASSUME NEW u \in Live(x) PROVE u \in Live(w) \cup {t}
      <3>1. PICK g \in Buckets : \E i \in 1..Len(x.lists[g]) : x.lists[g][i] = u
        BY <1>7, <2>1, LiveIsListed
      <3>2. CASE g = h
        <4>1. PICK i \in 1..Len(list) + 1 : new[i] = u
          BY <1>3, <1>8, <3>1, <3>2
        <4> QED BY <1>1, <1>3, <4>1, LiveIsListed
      <3>3. CASE g # h
        BY <1>1, <1>8, <3>1, <3>3, LiveIsListed
      <3> QED BY <3>2, <3>3
    <2>2. ASSUME NEW u \in Live(w) PROVE u \in Live(x)
      <3>1. PICK g \in Buckets : \E i \in 1..Len(w.lists[g]) : w.lists[g][i] = u
        BY <1>1, <2>2, LiveIsListed
      <3>2. CASE g = h
        <4>0. \E i \in 1..Len(list) : list[i] = u
          <5> HIDE DEF h
          <5> QED BY <3>1, <3>2
        <4>1. PICK i \in 1..Len(list) : list[i] = u
          BY <4>0
        <4>2. PICK j \in 1..Len(list) + 1 : j # n /\ old(j) = i
          BY <1>5
        <4>3. new[j] = u
          BY <1>3, <4>1, <4>2
        <4> QED BY <1>1, <1>3, <1>7, <1>8, <4>3, LiveIsListed
      <3>3. CASE g # h
        <4>1. x.lists[g] = w.lists[g]
          BY <1>8, <3>3
        <4>2. \E i \in 1..Len(x.lists[g]) : x.lists[g][i] = u
          BY <3>1, <4>1
        <4> QED BY <1>7, <4>2, LiveIsListed
      <3> QED BY <3>2, <3>3
    <2>3. t \in Live(x)
      BY <1>1, <1>2, <1>3, <1>7, <1>8, LiveIsListed
    <2> QED BY <2>1, <2>2, <2>3
  <1>11. \A u : Hash(x, u) = Hash(w, u)
    BY <1>7 DEF Hash
  <1>12. ListKept(x, h)
    <2>0. ListKept(w, h)
      BY <1>1 DEF Kept
    <2>1. Distinct(new)
      <3>1. ASSUME NEW i \in 1..Len(list) + 1, NEW j \in 1..Len(list) + 1, new[i] = new[j]
            PROVE  i = j
        <4>1. CASE i # n /\ j # n
          <5>1. list[old(i)] = list[old(j)] /\ old(i) \in 1..Len(list) /\ old(j) \in 1..Len(list)
            BY <1>3, <3>1, <4>1
          <5>2. old(i) = old(j)
            BY <2>0, <5>1 DEF ListKept, Distinct
          <5> QED BY <1>4, <4>1, <5>2
        <4>2. CASE i = n \/ j = n
          BY <1>1, <1>3, <1>9, <3>1, <4>2
        <4> QED BY <4>1, <4>2
      <3> QED BY <1>3, <3>1 DEF Distinct
    <2>2. ASSUME NEW i \in 1..Len(list) + 1
          PROVE  w.timer[new[i]].hash = h /\ Hash(w, new[i]) = h
      <3>1. CASE i = n
        BY <1>3, <3>1
      <3>2. CASE i # n
        BY <1>3, <2>0, <3>2 DEF ListKept
      <3> QED BY <3>1, <3>2
    <2>3. ASSUME NEW i \in 1..Len(list) + 1, NEW j \in 1..Len(list) + 1, i <= j
          PROVE  w.timer[new[i]].left <= w.timer[new[j]].left
      <3>1. CASE i # n /\ j # n
        <4>1. old(i) <= old(j)
          BY <1>4, <2>3, <3>1
        <4> QED BY <1>3, <2>0, <3>1, <4>1 DEF ListKept
      <3>2. CASE i = n /\ j = n
        BY <1>1, <1>3, <3>2
      <3>3. CASE i = n /\ j # n
        <4>1. n <= old(j) /\ old(j) \in 1..Len(list) /\ n \in 1..Len(list)
          BY <1>1, <1>2, <1>3, <2>3, <3>3 DEF old
        <4>2. left(n) <= left(old(j))
          BY <2>0, <4>1 DEF ListKept
        <4>3. w.timer[t].left <= left(n)
          BY <1>1, <1>2, <4>1
        <4>4. new[i] = t /\ new[j] = list[old(j)]
          BY <1>3, <3>3
        <4>5. left(n) \in Int /\ left(old(j)) \in Int /\ w.timer[t].left \in Int
          BY <1>1, <4>1
        <4> QED BY <4>2, <4>3, <4>4, <4>5
      <3>4. CASE i # n /\ j = n
        <4>1. i < n /\ old(i) = i /\ i \in 1..Len(list)
          BY <1>1, <1>2, <1>3, <2>3, <3>4 DEF old
        <4>2. left(i) < w.timer[t].left
          BY <1>2, <4>1
        <4>3. new[i] = list[i] /\ new[j] = t
          BY <1>3, <3>4, <4>1
        <4>4. left(i) \in Int /\ w.timer[t].left \in Int
          BY <1>1, <4>1
        <4>5. left(i) <= w.timer[t].left
          <5> HIDE DEF left
          <5> QED BY <4>2, <4>4
        <4> QED BY <4>3, <4>5
      <3> QED BY <3>1, <3>2, <3>3, <3>4
    <2>4. /\ x.lists[h] = new /\ Len(new) = Len(list) + 1 /\ x.timer = w.timer
          /\ \A u : Hash(x, u) = Hash(w, u)
      BY <1>3, <1>7, <1>8, <1>11
    <2> HIDE DEF h, list
    <2>5. \A i \in 1..Len(x.lists[h]) :
              x.timer[x.lists[h][i]].hash = h /\ Hash(x, x.lists[h][i]) = h
      BY <2>2, <2>4
    <2>6. \A i, j \in 1..Len(x.lists[h]) :
              i <= j => x.timer[x.lists[h][i]].left <= x.timer[x.lists[h][j]].left
      BY <2>3, <2>4
    <2> QED BY <2>1, <2>4, <2>5, <2>6 DEF ListKept
  <1>13. \A g \in Buckets : ListKept(x, g)
    <2>1. ASSUME NEW g \in Buckets, g # h PROVE ListKept(x, g)
      <3>1. ListKept(w, g) /\ x.lists[g] = w.lists[g]
        BY <1>8, <2>1 DEF Kept
      <3> QED BY <1>7, <1>11, <3>1, ListStays
    <2> QED BY <1>12, <2>1
  <1>14. Placed(x, {})
    BY <1>7, <1>10 DEF Kept, Placed
  <1>15. ASSUME NEW a, NEW b, a # t, b # t, NotBehind(w, a, b)
         PROVE  NotBehind(x, a, b)
    <2> SUFFICES ASSUME NEW g \in Buckets,
                        NEW i \in 1..Len(x.lists[g]), NEW j \in 1..Len(x.lists[g]),
                        x.lists[g][i] = a, x.lists[g][j] = b
                 PROVE  i <= j
      BY DEF NotBehind
    <2>1. CASE g # h
      BY <1>8, <1>15, <2>1 DEF NotBehind
    <2>2. CASE g = h
      <3>1. /\ i \in 1..Len(list) + 1 /\ j \in 1..Len(list) + 1
            /\ new[i] = a /\ new[j] = b /\ i # n /\ j # n
        BY <1>3, <1>8, <1>15, <2>2
      <3>2. /\ list[old(i)] = a /\ list[old(j)] = b
            /\ old(i) \in 1..Len(list) /\ old(j) \in 1..Len(list)
        BY <1>3, <3>1
      <3>3. old(i) <= old(j)
        BY <1>1, <1>15, <3>2 DEF NotBehind
      <3> QED BY <1>4, <3>1, <3>3
    <2> QED BY <2>1, <2>2
  <1>16. ASSUME NEW b \in Live(w), w.timer[t].left <= w.timer[b].left
         PROVE  NotBehind(x, t, b)
    <2> SUFFICES ASSUME NEW g \in Buckets,
                        NEW i \in 1..Len(x.lists[g]), NEW j \in 1..Len(x.lists[g]),
                        x.lists[g][i] = t, x.lists[g][j] = b
                 PROVE  i <= j
      BY DEF NotBehind
    <2>1. CASE g # h
      BY <1>8, <1>9, <2>1
    <2>2. CASE g = h
      <3>1. /\ i \in 1..Len(list) + 1 /\ j \in 1..Len(list) + 1
            /\ new[i] = t /\ new[j] = b
        BY <1>3, <1>8, <2>2
      <3>2. i = n
        BY <1>1, <1>3, <1>9, <3>1
      <3>3. ASSUME j < n PROVE FALSE
        <4>1. old(j) = j /\ list[j] = b /\ j \in 1..Len(list)
          BY <1>1, <1>2, <1>3, <3>1, <3>3 DEF old
        <4>2. left(j) < w.timer[t].left
          BY <1>2, <3>3, <4>1
        <4> QED BY <1>1, <1>16, <4>1, <4>2
      <3> QED BY <1>1, <1>2, <3>1, <3>2, <3>3
    <2> QED BY <2>1, <2>2
  <1> QED BY <1>7, <1>10, <1>13, <1>14, <1>15, <1>16 DEF Kept

LEMMA RemovedKeeps ==
    ASSUME NEW w, NEW t, Kept(w, {}), t \in Live(w), NEW x, x = Removed(w, t)
    PROVE  /\ Kept(x, {t})
           /\ Live(x) = Live(w) \ {t}
           /\ x.timer = w.timer /\ x.made = w.made
           /\ \A a, b : NotBehind(w, a, b) => NotBehind(x, a, b)
  <1> DEFINE h == w.timer[t].hash
             list == w.lists[h]
             n == Place(list, t)
             new == RemoveAt(list, n)
             old(i) == IF i < n THEN i ELSE i + 1
  <1>1. /\ w \in Wheels /\ t \in Ids /\ h \in Buckets
        /\ list \in Seq(Ids) /\ Len(list) \in Nat
    <2>1. w \in Wheels
      BY DEF Kept
    <2>2. t \in Ids
      BY <2>1, LiveIsListed
    <2> QED BY <2>1, <2>2, WheelTypes
  <1>2. n \in 1..Len(list) /\ list[n] = t
    <2>1. PICK g \in Buckets : \E k \in 1..Len(w.lists[g]) : w.lists[g][k] = t
      BY <1>1, LiveIsListed
    <2>2. g = h
      BY <2>1 DEF Kept, ListKept
    <2>3. \E k2 \in 1..Len(list) : list[k2] = t
      BY <2>1, <2>2
    <2> QED BY <2>3 DEF Place
  <1> HIDE DEF n
  <1>3. /\ new \in Seq(Ids)
        /\ Len(new) = Len(list) - 1
        /\ \A i \in 1..Len(list) - 1 : new[i] = list[old(i)] /\ old(i) \in 1..Len(list)
    <2>1. /\ new \in Seq(Ids)
          /\ Len(new) = Len(list) - 1
          /\ \A i \in 1..Len(list) - 1 :
                 new[i] = IF i < n THEN list[i] ELSE list[i + 1]
      BY <1>1, <1>2, RemovedAt
    <2> HIDE DEF new, list
    <2>2. \A i \in 1..Len(list) - 1 : old(i) \in 1..Len(list)
      BY <1>1, <1>2
    <2> QED BY <1>1, <1>2, <2>1, <2>2
  <1>4. \A i, j \in 1..Len(list) - 1 :
            /\ old(i) <= old(j) <=> i <= j
            /\ old(i) = old(j) <=> i = j
            /\ old(i) # n
    BY <1>1, <1>2
  <1>5. \A i \in 1..Len(list) : i # n => \E j \in 1..Len(list) - 1 : old(j) = i
    <2> TAKE i \in 1..Len(list)
    <2>1. CASE i < n
      <3>1. i \in 1..Len(list) - 1 /\ old(i) = i
        BY <1>1, <1>2, <2>1
      <3> QED BY <3>1
    <2>2. CASE i > n
      <3>1. i - 1 \in 1..Len(list) - 1 /\ old(i - 1) = i
        BY <1>1, <1>2, <2>2
      <3> QED BY <3>1
    <2> QED BY <1>1, <1>2, <2>1, <2>2
  <1>6. x = [w EXCEPT !.lists[h] = new]
    BY DEF Removed, n
  <1>7. /\ x.free = w.free /\ x.made = w.made /\ x.clock = w.clock /\ x.timer = w.timer
        /\ x \in Wheels
    <2> HIDE DEF h, new
    <2> QED BY <1>1, <1>3, <1>6, Relisted
  <1>8. x.lists[h] = new /\ \A g \in Buckets \ {h} : x.lists[g] = w.lists[g]
    <2> HIDE DEF h, new, list, old
    <2>1. w \in Wheels /\ h \in Buckets /\ new \in Seq(Ids)
      BY <1>1, <1>3
    <2>2. x.lists[h] = new
      BY <1>6, <2>1, Relisted
    <2>3. \A g \in Buckets \ {h} : x.lists[g] = w.lists[g]
      BY <1>6, <2>1, Relisted
    <2> QED BY <2>2, <2>3
  <1>9. ListKept(w, h)
    BY <1>1 DEF Kept
  <1> HIDE DEF new, old
  <1>10. \A g \in Buckets \ {h} : \A i \in 1..Len(w.lists[g]) : w.lists[g][i] # t
    BY DEF Kept, ListKept
  <1>11. Live(x) = Live(w) \ {t}
    <2>1. ASSUME NEW u \in Live(x) PROVE u \in Live(w) /\ u # t
      <3>1. PICK g \in Buckets : \E i \in 1..Len(x.lists[g]) : x.lists[g][i] = u
        BY <1>7, <2>1, LiveIsListed
      <3>2. CASE g = h
        <4>1. PICK i \in 1..Len(list) - 1 : new[i] = u
          BY <1>3, <1>8, <3>1, <3>2
        <4>2. list[old(i)] = u /\ old(i) \in 1..Len(list) /\ old(i) # n
          BY <1>3, <1>4, <4>1
        <4>3. u # t
          BY <1>2, <1>9, <4>2 DEF ListKept, Distinct
        <4> QED BY <1>1, <4>2, <4>3, LiveIsListed
      <3>3. CASE g # h
        BY <1>1, <1>8, <1>10, <3>1, <3>3, LiveIsListed
      <3> QED BY <3>2, <3>3
    <2>2. ASSUME NEW u \in Live(w), u # t PROVE u \in Live(x)
      <3>1. PICK g \in Buckets : \E i \in 1..Len(w.lists[g]) : w.lists[g][i] = u
        BY <1>1, <2>2, LiveIsListed
      <3>2. CASE g = h
        <4>1. PICK i \in 1..Len(list) : list[i] = u
          BY <3>1, <3>2
        <4>2. PICK j \in 1..Len(list) - 1 : old(j) = i
          BY <1>2, <1>5, <2>2, <4>1
        <4>3. new[j] = u
          BY <1>3, <4>1, <4>2
        <4> QED BY <1>1, <1>3, <1>7, <1>8, <4>3, LiveIsListed
      <3>3. CASE g # h
        <4>1. x.lists[g] = w.lists[g]
          BY <1>8, <3>3
        <4>2. \E i \in 1..Len(x.lists[g]) : x.lists[g][i] = u
          BY <3>1, <4>1
        <4> QED BY <1>7, <4>2, LiveIsListed
      <3> QED BY <3>2, <3>3
    <2> QED BY <2>1, <2>2
  <1>12. \A u : Hash(x, u) = Hash(w, u)
    BY <1>7 DEF Hash
  <1>13. ListKept(x, h)
    <2>1. ASSUME NEW i \in 1..Len(list) - 1, NEW j \in 1..Len(list) - 1
          PROVE  /\ new[i] = new[j] => i = j
                 /\ i <= j => w.timer[new[i]].left <= w.timer[new[j]].left
                 /\ w.timer[new[i]].hash = h /\ Hash(w, new[i]) = h
      <3>1. /\ new[i] = list[old(i)] /\ new[j] = list[old(j)]
            /\ old(i) \in 1..Len(list) /\ old(j) \in 1..Len(list)
            /\ old(i) <= old(j) <=> i <= j
            /\ old(i) = old(j) <=> i = j
        BY <1>3, <1>4
      <3> QED BY <1>9, <3>1 DEF ListKept, Distinct
    <2>2. /\ x.lists[h] = new /\ Len(new) = Len(list) - 1 /\ x.timer = w.timer
          /\ \A u : Hash(x, u) = Hash(w, u)
      BY <1>3, <1>7, <1>8, <1>12
    <2> HIDE DEF h, list
    <2>3. Distinct(x.lists[h])
      BY <2>1, <2>2 DEF Distinct
    <2>4. \A i \in 1..Len(x.lists[h]) :
              x.timer[x.lists[h][i]].hash = h /\ Hash(x, x.lists[h][i]) = h
      BY <2>1, <2>2
    <2>5. \A i, j \in 1..Len(x.lists[h]) :
              i <= j => x.timer[x.lists[h][i]].left <= x.timer[x.lists[h][j]].left
      BY <2>1, <2>2
    <2> QED BY <2>3, <2>4, <2>5 DEF ListKept
  <1>14. \A g \in Buckets : ListKept(x, g)
    <2>1. ASSUME NEW g \in Buckets, g # h PROVE ListKept(x, g)
      <3>1. ListKept(w, g) /\ x.lists[g] = w.lists[g]
        BY <1>8, <2>1 DEF Kept
      <3> QED BY <1>7, <1>12, <3>1, ListStays
    <2> QED BY <1>13, <2>1
  <1>15. Placed(x, {t})
    BY <1>7, <1>11 DEF Kept, Placed
  <1>16. ASSUME NEW a, NEW b, NotBehind(w, a, b) PROVE NotBehind(x, a, b)
    <2> SUFFICES ASSUME NEW g \in Buckets,
                        NEW i \in 1..Len(x.lists[g]), NEW j \in 1..Len(x.lists[g]),
                        x.lists[g][i] = a, x.lists[g][j] = b
                 PROVE  i <= j
      BY DEF NotBehind
    <2>1. CASE g # h
      BY <1>8, <1>16, <2>1 DEF NotBehind
    <2>2. CASE g = h
      <3>1. /\ i \in 1..Len(list) - 1 /\ j \in 1..Len(list) - 1
            /\ new[i] = a /\ new[j] = b
        BY <1>3, <1>8, <2>2
      <3>2. /\ list[old(i)] = a /\ list[old(j)] = b
            /\ old(i) \in 1..Len(list) /\ old(j) \in 1..Len(list)
        BY <1>3, <3>1
      <3>3. old(i) <= old(j)
        BY <1>1, <1>16, <3>2 DEF NotBehind
      <3> QED BY <1>4, <3>1, <3>3
    <2> QED BY <2>1, <2>2
  <1> QED BY <1>7, <1>11, <1>14, <1>15, <1>16 DEF Kept

\* A timer says something else.
Saying(w, t, r) == [w EXCEPT !.timer[t] = r]

LEMMA ItSays ==
    ASSUME NEW w \in Wheels, NEW t \in Ids, NEW r
    PROVE  Saying(w, t, r).timer[t] = r
  BY DEF Saying, Wheels

\* What a timer says may change while it is in no list.
LEMMA ChangedKeeps ==
    ASSUME NEW w, NEW t \in Ids, Kept(w, {t}), NEW r \in TimerRecords
    PROVE  /\ Kept(Saying(w, t, r), {t})
           /\ Live(Saying(w, t, r)) = Live(w)
           /\ \A u \in Ids \ {t} : Saying(w, t, r).timer[u] = w.timer[u]
           /\ Saying(w, t, r).made = w.made
           /\ Saying(w, t, r).clock = w.clock
           /\ Saying(w, t, r).lists = w.lists
           /\ \A a, b : NotBehind(w, a, b) => NotBehind(Saying(w, t, r), a, b)
  <1> DEFINE x == Saying(w, t, r)
  <1>1. w \in Wheels
    BY DEF Kept
  <1>2. /\ x.timer = [w.timer EXCEPT ![t] = r]
        /\ x.lists = w.lists /\ x.free = w.free /\ x.made = w.made /\ x.clock = w.clock
        /\ x \in Wheels
    BY <1>1 DEF Wheels, Saying
  <1> HIDE DEF x
  <1>3. Live(x) = Live(w)
    BY <1>2 DEF Live
  <1>4. \A u \in Ids : u # t => x.timer[u] = w.timer[u]
    BY <1>1, <1>2 DEF Wheels
  <1>5. ASSUME NEW h \in Buckets PROVE ListKept(x, h)
    <2>1. \A n \in 1..Len(w.lists[h]) : w.lists[h][n] \in Ids /\ w.lists[h][n] # t
      BY <1>1, LiveIsListed, WheelTypes DEF Kept, Placed
    <2>2. \A n \in 1..Len(w.lists[h]) :
              /\ x.timer[w.lists[h][n]] = w.timer[w.lists[h][n]]
              /\ Hash(x, w.lists[h][n]) = Hash(w, w.lists[h][n])
      BY <1>2, <1>4, <2>1 DEF Hash
    <2>3. ListKept(w, h)
      BY DEF Kept
    <2> QED BY <1>2, <2>2, <2>3, ListStays
  <1>6. Placed(x, {t})
    BY <1>2, <1>3 DEF Kept, Placed
  <1>7. \A a, b : NotBehind(w, a, b) => NotBehind(x, a, b)
    BY <1>2 DEF NotBehind
  <1>8. Kept(x, {t})
    BY <1>2, <1>5, <1>6 DEF Kept
  <1> QED BY <1>2, <1>3, <1>4, <1>7, <1>8 DEF x

\* What does not change of a timer, but when it triggers.
Agree(q, r) ==
    /\ q.proc = r.proc /\ q.client = r.client
    /\ q.secs = r.secs /\ q.periodic = r.periodic

\* A timer that is in no list is put into the one that its time is hashed to.
Filed(w, t, r) == Added(Hashed(Saying(w, t, r), t), t)

LEMMA FiledKeeps ==
    ASSUME NEW w, NEW t \in Ids, Kept(w, {t}), NEW r \in TimerRecords,
           NEW x, x = Filed(w, t, r)
    PROVE  /\ Kept(x, {})
           /\ Live(x) = Live(w) \cup {t}
           /\ x.made = w.made
           /\ Agree(x.timer[t], r) /\ x.timer[t].left = r.left
           /\ \A u \in Ids \ {t} : x.timer[u] = w.timer[u]
           /\ \A a, b : a # t /\ b # t /\ NotBehind(w, a, b) => NotBehind(x, a, b)
           /\ \A b \in Live(w) : r.left <= w.timer[b].left => NotBehind(x, t, b)
  <1> DEFINE y == Saying(w, t, r)
             q == [r EXCEPT !.hash = Hash(y, t)]
             z == Saying(w, t, q)
  <1>0. w \in Wheels /\ t \notin Live(w)
    BY DEF Kept, Placed
  <1>1. /\ Kept(y, {t}) /\ y.timer[t] = r /\ y.clock = w.clock
        /\ y \in Wheels
    <2>1. Kept(y, {t}) /\ y.clock = w.clock
      BY ChangedKeeps
    <2>2. y.timer[t] = r
      BY <1>0, ItSays
    <2> QED BY <2>1, <2>2 DEF Kept
  <1>2. y.timer[t] = r /\ Hash(y, t) \in Buckets
    <2> HIDE DEF y
    <2> QED BY <1>1, WheelTypes
  <1>3. q \in TimerRecords /\ q.left = r.left /\ q.hash = Hash(y, t)
    BY <1>2 DEF TimerRecords
  <1>4. Hashed(y, t) = z
    <2>1. Hashed(y, t) = [y EXCEPT !.timer[t] = [y.timer[t] EXCEPT !.hash = Hash(y, t)]]
      BY <1>1 DEF Hashed, Wheels
    <2>2. Hashed(y, t) = [y EXCEPT !.timer[t] = q]
      BY <1>2, <2>1
    <2> HIDE DEF q
    <2> QED BY <1>0, <2>2 DEF Wheels, Saying
  <1> HIDE DEF y, q
  <1>5. /\ Kept(z, {t}) /\ Live(z) = Live(w)
        /\ z.timer[t] = q /\ \A u \in Ids \ {t} : z.timer[u] = w.timer[u]
        /\ z.made = w.made /\ z.clock = w.clock
        /\ \A a, b : NotBehind(w, a, b) => NotBehind(z, a, b)
    <2>1. /\ Kept(z, {t}) /\ Live(z) = Live(w)
          /\ \A u \in Ids \ {t} : z.timer[u] = w.timer[u]
          /\ z.made = w.made /\ z.clock = w.clock
          /\ \A a, b : NotBehind(w, a, b) => NotBehind(z, a, b)
      BY <1>3, ChangedKeeps
    <2>2. z.timer[t] = q
      BY <1>0, ItSays
    <2> QED BY <2>1, <2>2
  <1>6. /\ z.timer[t] = q
        /\ \A u \in Ids \ {t} : z.timer[u] = w.timer[u]
    BY <1>5
  <1>7. z.timer[t].hash = Hash(z, t)
    BY <1>1, <1>2, <1>3, <1>5, <1>6 DEF Hash
  <1>8. x = Added(z, t)
    BY <1>4 DEF y, Filed
  <1> HIDE DEF z
  <1>9. /\ Kept(x, {})
        /\ Live(x) = Live(z) \cup {t}
        /\ x.timer = z.timer /\ x.made = z.made
        /\ \A a, b : a # t /\ b # t /\ NotBehind(z, a, b) => NotBehind(x, a, b)
        /\ \A b \in Live(z) :
               z.timer[t].left <= z.timer[b].left => NotBehind(x, t, b)
    BY <1>5, <1>7, <1>8, AddedKeeps
  <1>10. Agree(x.timer[t], r) /\ x.timer[t].left = r.left
    BY <1>6, <1>9 DEF q, TimerRecords, Agree
  <1>11. \A b \in Live(w) : b \in Ids \ {t}
    BY <1>0, LiveIsListed
  <1> QED BY <1>3, <1>5, <1>6, <1>9, <1>10, <1>11

\* tmr_create.
LEMMA CreatedKeeps ==
    ASSUME NEW w, Kept(w, {}), Unused(w) \in Ids,
           NEW proc \in {"start", "idle", "wakeup"}, NEW client \in Nat,
           NEW secs \in Nat, NEW periodic \in BOOLEAN,
           NEW x, x = Created(w, proc, client, secs, periodic)
    PROVE  /\ Kept(x, {})
           /\ Unused(w) \notin Live(w)
           /\ Live(x) = Live(w) \cup {Unused(w)}
           /\ x.made >= w.made
           /\ x.timer[Unused(w)].proc = proc /\ x.timer[Unused(w)].client = client
           /\ x.timer[Unused(w)].secs = secs /\ x.timer[Unused(w)].left = secs
           /\ x.timer[Unused(w)].periodic = periodic
           /\ \A u \in Live(w) : x.timer[u] = w.timer[u]
           /\ \A a, b \in Live(w) : NotBehind(w, a, b) => NotBehind(x, a, b)
           /\ \A b \in Live(w) :
                  secs <= w.timer[b].left => NotBehind(x, Unused(w), b)
  <1> DEFINE t == Unused(w)
             taken == IF w.free # <<>> THEN [w EXCEPT !.free = Tail(@)]
                      ELSE [w EXCEPT !.made = @ + 1]
             r == [proc |-> proc, client |-> client, secs |-> secs,
                   periodic |-> periodic, left |-> secs, hash |-> 0]
  <1>1. w \in Wheels /\ w.free \in Seq(Ids) /\ w.made \in Nat /\ Live(w) \subseteq Ids
    BY WheelTypes, LiveIsListed DEF Kept
  <1>2. /\ Kept(taken, {t}) /\ Live(taken) = Live(w) /\ taken.timer = w.timer
        /\ taken.lists = w.lists /\ taken.made >= w.made /\ t \notin Live(w)
    <2>1. CASE w.free # <<>>
      <3>1. taken = [w EXCEPT !.free = Tail(@)] /\ t = Head(w.free)
        BY <2>1 DEF Unused
      <3>2. /\ Tail(w.free) \in Seq(Ids)
            /\ Len(Tail(w.free)) = Len(w.free) - 1
            /\ \A i \in 1..Len(Tail(w.free)) : Tail(w.free)[i] = w.free[i + 1]
            /\ Len(w.free) \in Nat \ {0}
            /\ t = w.free[1]
        BY <1>1, <2>1, <3>1, HeadTailProperties, EmptySeq
      <3>3. /\ taken.free = Tail(w.free) /\ taken.lists = w.lists /\ taken.made = w.made
            /\ taken.clock = w.clock /\ taken.timer = w.timer
            /\ taken \in Wheels
        BY <1>1, <3>1, <3>2 DEF Wheels
      <3> HIDE DEF taken, t
      <3>4. Live(taken) = Live(w)
        BY <3>3 DEF Live
      <3>5. \A h \in Buckets : ListKept(taken, h)
        BY <3>3 DEF Kept, ListKept, Hash
      <3>6. Distinct(w.free)
        BY DEF Kept, Placed
      <3>7. /\ ToSet(taken.free) = ToSet(w.free) \ {t}
            /\ t \in ToSet(w.free)
            /\ Distinct(taken.free)
        <4>1. \A u : u \in ToSet(taken.free) <=>
                  \E n \in 1..Len(w.free) - 1 : w.free[n + 1] = u
          <5>1. \A u : u \in ToSet(taken.free) <=>
                    \E n \in 1..Len(taken.free) : taken.free[n] = u
            BY <3>3, LiveIsListed
          <5>2. /\ Len(taken.free) = Len(w.free) - 1
                /\ \A n \in 1..Len(taken.free) : taken.free[n] = w.free[n + 1]
            BY <3>2, <3>3
          <5> QED BY <5>1, <5>2
        <4>2. \A u : u \in ToSet(w.free) <=> \E n \in 1..Len(w.free) : w.free[n] = u
          BY <1>1, LiveIsListed
        <4>3. ASSUME NEW u \in ToSet(taken.free) PROVE u \in ToSet(w.free) \ {t}
          <5>1. PICK n \in 1..Len(w.free) - 1 : w.free[n + 1] = u
            BY <4>1, <4>3
          <5>2. n + 1 \in 1..Len(w.free) /\ 1 \in 1..Len(w.free) /\ n + 1 # 1
            BY <3>2
          <5>3. u # t
            BY <3>2, <3>6, <5>1, <5>2 DEF Distinct
          <5> QED BY <4>2, <5>1, <5>2, <5>3
        <4>4. ASSUME NEW u \in ToSet(w.free), u # t PROVE u \in ToSet(taken.free)
          <5>1. PICK n \in 1..Len(w.free) : w.free[n] = u
            BY <4>2, <4>4
          <5>2. n # 1
            BY <3>2, <4>4, <5>1
          <5>3. n - 1 \in 1..Len(w.free) - 1 /\ (n - 1) + 1 = n
            BY <3>2, <5>2
          <5> QED BY <4>1, <5>1, <5>3
        <4>5. t \in ToSet(w.free)
          BY <3>2, <4>2
        <4>6. Distinct(taken.free)
          <5>1. ASSUME NEW m \in 1..Len(w.free) - 1, NEW n \in 1..Len(w.free) - 1,
                       w.free[m + 1] = w.free[n + 1]
                PROVE  m = n
            <6>1. m + 1 \in 1..Len(w.free) /\ n + 1 \in 1..Len(w.free)
              BY <3>2
            <6>2. m + 1 = n + 1
              BY <3>6, <5>1, <6>1 DEF Distinct
            <6> QED BY <3>2, <6>2
          <5> QED BY <3>2, <3>3, <5>1 DEF Distinct
        <4> QED BY <4>3, <4>4, <4>5, <4>6
      <3>8. Placed(taken, {t}) /\ t \notin Live(w)
        BY <3>3, <3>4, <3>7 DEF Kept, Placed
      <3> QED BY <1>1, <3>3, <3>4, <3>5, <3>8 DEF Kept
    <2>2. CASE w.free = <<>>
      <3>1. taken = [w EXCEPT !.made = w.made + 1] /\ t = w.made + 1
        BY <2>2 DEF Unused
      <3>2. w.made + 1 \in 0..MaxTimers
        BY <1>1, <3>1, TimersAssumption DEF Ids
      <3>3. /\ taken.free = w.free /\ taken.lists = w.lists /\ taken.made = w.made + 1
            /\ taken.clock = w.clock /\ taken.timer = w.timer
            /\ taken \in Wheels
        BY <1>1, <3>1, <3>2 DEF Wheels
      <3> HIDE DEF taken
      <3>4. Live(taken) = Live(w)
        BY <3>3 DEF Live
      <3>5. \A h \in Buckets : ListKept(taken, h)
        BY <3>3 DEF Kept, ListKept, Hash
      <3>6. /\ Live(w) \cup ToSet(w.free) = 1..w.made
            /\ Live(w) \cap ToSet(w.free) = {}
            /\ Distinct(w.free)
        BY DEF Kept, Placed
      <3>7. 1..(w.made + 1) = 1..w.made \cup {w.made + 1} /\ w.made + 1 \notin 1..w.made
        BY <1>1
      <3>8. Placed(taken, {t}) /\ t \notin Live(w)
        BY <3>1, <3>3, <3>4, <3>6, <3>7 DEF Placed
      <3> QED BY <1>1, <3>3, <3>4, <3>5, <3>8 DEF Kept
    <2> QED BY <2>1, <2>2
  <1>3. r \in TimerRecords
    BY TimersAssumption DEF TimerRecords, Buckets
  <1>4. x = Filed(taken, t, r)
    BY DEF Created, Filed, Saying
  <1> HIDE DEF taken, t
  <1>5. /\ Kept(x, {})
        /\ Live(x) = Live(taken) \cup {t}
        /\ x.made = taken.made
        /\ Agree(x.timer[t], r) /\ x.timer[t].left = r.left
        /\ \A u \in Ids \ {t} : x.timer[u] = taken.timer[u]
        /\ \A a, b : a # t /\ b # t /\ NotBehind(taken, a, b) => NotBehind(x, a, b)
        /\ \A b \in Live(taken) : r.left <= taken.timer[b].left => NotBehind(x, t, b)
    <2> HIDE DEF r
    <2>1. t \in Ids
      BY DEF t
    <2> QED BY <1>2, <1>3, <1>4, <2>1, FiledKeeps
  <1>6. \A a, b : NotBehind(w, a, b) => NotBehind(taken, a, b)
    BY <1>2 DEF NotBehind
  <1>7. \A u \in Live(w) : u \in Ids \ {t}
    BY <1>1, <1>2
  <1>8. /\ x.timer[t].proc = proc /\ x.timer[t].client = client
        /\ x.timer[t].secs = secs /\ x.timer[t].left = secs
        /\ x.timer[t].periodic = periodic
    BY <1>5 DEF Agree
  <1>9. /\ \A u \in Live(w) : x.timer[u] = w.timer[u]
        /\ \A a, b \in Live(w) : NotBehind(w, a, b) => NotBehind(x, a, b)
        /\ \A b \in Live(w) : secs <= w.timer[b].left => NotBehind(x, t, b)
    BY <1>2, <1>5, <1>6, <1>7
  <1> QED BY <1>2, <1>5, <1>8, <1>9 DEF t

\* How many timers are made does not depend on there being numbers for them.
LEMMA CreatedMakes ==
    ASSUME NEW w \in Wheels, NEW proc, NEW client, NEW secs, NEW periodic
    PROVE  /\ Created(w, proc, client, secs, periodic).made =
                  IF w.free # <<>> THEN w.made ELSE w.made + 1
           /\ Created(w, proc, client, secs, periodic).made <= MaxTimers
                  => Unused(w) \in Ids
  <1>1. Created(w, proc, client, secs, periodic).made =
            IF w.free # <<>> THEN w.made ELSE w.made + 1
    BY DEF Created, Added, Hashed, Wheels
  <1>2. w.free # <<>> => Head(w.free) \in Ids
    BY WheelTypes, HeadTailProperties
  <1>3. w.made + 1 <= MaxTimers => w.made + 1 \in Ids
    BY WheelTypes DEF Ids
  <1> QED BY <1>1, <1>2, <1>3 DEF Unused

\* tmr_cancel.
LEMMA CancelledKeeps ==
    ASSUME NEW w, Kept(w, {}), NEW t \in Live(w), NEW x, x = Cancelled(w, t)
    PROVE  /\ Kept(x, {})
           /\ Live(x) = Live(w) \ {t}
           /\ x.made = w.made
           /\ \A u \in Live(x) : x.timer[u] = w.timer[u]
           /\ \A a, b : NotBehind(w, a, b) => NotBehind(x, a, b)
  <1> DEFINE y == Removed(w, t)
             z == Saying(y, t, NoTimer)
  <1>1. w \in Wheels /\ t \in Ids /\ Live(w) \subseteq Ids
    BY LiveIsListed DEF Kept
  <1>2. /\ Kept(y, {t}) /\ Live(y) = Live(w) \ {t}
        /\ y.timer = w.timer /\ y.made = w.made
        /\ \A a, b : NotBehind(w, a, b) => NotBehind(y, a, b)
    BY RemovedKeeps
  <1> HIDE DEF y
  <1>3. NoTimer \in TimerRecords
    BY TimersAssumption DEF NoTimer, TimerRecords, Buckets
  <1>4. /\ Kept(z, {t}) /\ Live(z) = Live(y)
        /\ \A u \in Ids \ {t} : z.timer[u] = y.timer[u]
        /\ z.made = y.made
        /\ \A a, b : NotBehind(y, a, b) => NotBehind(z, a, b)
    BY <1>1, <1>2, <1>3, ChangedKeeps
  <1>5. /\ y \in Wheels /\ z \in Wheels /\ z.free \in Seq(Ids) /\ Len(z.free) \in Nat
    BY <1>2, <1>4, WheelTypes DEF Kept
  <1>6. x = [z EXCEPT !.free = <<t>> \o z.free]
    BY <1>5 DEF Cancelled, Wheels, y, Saying
  <1> HIDE DEF z
  <1>7. /\ <<t>> \o z.free \in Seq(Ids)
        /\ Len(<<t>> \o z.free) = 1 + Len(z.free)
        /\ \A i \in 1..1 + Len(z.free) :
               (<<t>> \o z.free)[i] = IF i <= 1 THEN <<t>>[i] ELSE z.free[i - 1]
    <2>1. <<t>> \in Seq(Ids) /\ Len(<<t>>) = 1
      BY <1>1
    <2> QED BY <1>5, <2>1, ConcatProperties
  <1>8. /\ x.free = <<t>> \o z.free /\ x.lists = z.lists /\ x.made = z.made
        /\ x.clock = z.clock /\ x.timer = z.timer
        /\ x \in Wheels
    BY <1>5, <1>6, <1>7 DEF Wheels
  <1>9. Live(x) = Live(z)
    BY <1>8 DEF Live
  <1>10. \A h \in Buckets : ListKept(x, h)
    BY <1>4, <1>8 DEF Kept, ListKept, Hash
  <1>11. /\ \A i \in 1..1 + Len(z.free) : x.free[i] = IF i = 1 THEN t ELSE z.free[i - 1]
         /\ Len(x.free) = 1 + Len(z.free)
    BY <1>5, <1>7, <1>8
  <1>12. ToSet(x.free) = ToSet(z.free) \cup {t}
    <2>1. \A u : u \in ToSet(x.free) <=> \E n \in 1..1 + Len(z.free) : x.free[n] = u
      <3>1. \A u : u \in ToSet(x.free) <=> \E n \in 1..Len(x.free) : x.free[n] = u
        BY <1>8, LiveIsListed
      <3> QED BY <1>11, <3>1
    <2>2. \A u : u \in ToSet(z.free) <=> \E n \in 1..Len(z.free) : z.free[n] = u
      BY <1>5, LiveIsListed
    <2>3. ASSUME NEW u \in ToSet(x.free) PROVE u \in ToSet(z.free) \cup {t}
      <3>1. PICK n \in 1..1 + Len(z.free) : x.free[n] = u
        BY <2>1, <2>3
      <3>2. n = 1 \/ n - 1 \in 1..Len(z.free)
        BY <1>5
      <3> QED BY <1>11, <2>2, <3>1, <3>2
    <2>4. ASSUME NEW u \in ToSet(z.free) PROVE u \in ToSet(x.free)
      <3>1. PICK n \in 1..Len(z.free) : z.free[n] = u
        BY <2>2, <2>4
      <3>2. n + 1 \in 1..1 + Len(z.free) /\ n + 1 # 1 /\ (n + 1) - 1 = n
        BY <1>5
      <3> QED BY <1>11, <2>1, <3>1, <3>2
    <2>5. t \in ToSet(x.free)
      <3>1. 1 \in 1..1 + Len(z.free)
        BY <1>5
      <3> QED BY <1>11, <2>1, <3>1
    <2> QED BY <2>3, <2>4, <2>5
  <1>13. Distinct(x.free)
    <2>0. Distinct(z.free) /\ t \notin ToSet(z.free)
      BY <1>4 DEF Kept, Placed
    <2>1. \A n \in 1..Len(z.free) : z.free[n] # t
      BY <1>5, <2>0, LiveIsListed
    <2>2. ASSUME NEW m \in 1..1 + Len(z.free), NEW n \in 1..1 + Len(z.free),
                 x.free[m] = x.free[n]
          PROVE  m = n
      <3>1. m = 1 \/ m - 1 \in 1..Len(z.free)
        BY <1>5
      <3>2. n = 1 \/ n - 1 \in 1..Len(z.free)
        BY <1>5
      <3>3. CASE m = 1 \/ n = 1
        BY <1>11, <2>1, <2>2, <3>1, <3>2, <3>3
      <3>4. CASE m # 1 /\ n # 1
        <4>1. z.free[m - 1] = z.free[n - 1]
          BY <1>11, <2>2, <3>4
        <4>2. m - 1 = n - 1
          BY <2>0, <3>1, <3>2, <3>4, <4>1 DEF Distinct
        <4> QED BY <1>5, <4>2
      <3> QED BY <3>3, <3>4
    <2> QED BY <1>11, <2>2 DEF Distinct
  <1>14. Placed(x, {})
    <2>1. Placed(z, {t})
      BY <1>4 DEF Kept
    <2> QED BY <1>8, <1>9, <1>12, <1>13, <2>1 DEF Placed
  <1>15. \A u \in Live(w) \ {t} : x.timer[u] = w.timer[u]
    BY <1>1, <1>2, <1>4, <1>8 DEF Wheels
  <1>16. \A a, b : NotBehind(z, a, b) => NotBehind(x, a, b)
    BY <1>8 DEF NotBehind
  <1> QED
    BY <1>2, <1>4, <1>8, <1>9, <1>10, <1>14, <1>15, <1>16 DEF Kept

\* l_resort, behind a change of the time.
LEMMA ResortedKeeps ==
    ASSUME NEW w, Kept(w, {}), NEW t \in Live(w), NEW v \in Int,
           NEW x, x = Resorted([w EXCEPT !.timer[t].left = v], t)
    PROVE  /\ Kept(x, {})
           /\ Live(x) = Live(w)
           /\ x.made = w.made
           /\ Agree(x.timer[t], w.timer[t]) /\ x.timer[t].left = v
           /\ \A u \in Live(w) \ {t} : x.timer[u] = w.timer[u]
           /\ \A a, b \in Live(w) \ {t} : NotBehind(w, a, b) => NotBehind(x, a, b)
  <1> DEFINE late == [w EXCEPT !.timer[t].left = v]
             r == [w.timer[t] EXCEPT !.left = v]
             y == Removed(w, t)
             z == Saying(y, t, r)
  <1>1. w \in Wheels /\ t \in Ids /\ Live(w) \subseteq Ids /\ w.timer[t] \in TimerRecords
    BY LiveIsListed, WheelTypes DEF Kept
  <1>2. /\ Kept(y, {t}) /\ Live(y) = Live(w) \ {t}
        /\ y.timer = w.timer /\ y.made = w.made
        /\ \A a, b : NotBehind(w, a, b) => NotBehind(y, a, b)
    BY RemovedKeeps
  <1>3. r \in TimerRecords
    BY <1>1 DEF TimerRecords
  <1>4. Removed(late, t) = z
    <2>1. late.lists = w.lists /\ late.timer[t].hash = w.timer[t].hash
      BY <1>1 DEF Wheels, TimerRecords
    <2>2. late = [w EXCEPT !.timer[t] = r]
      BY <1>1 DEF Wheels
    <2> HIDE DEF late, r
    <2> DEFINE h == w.timer[t].hash
               new == RemoveAt(w.lists[h], Place(w.lists[h], t))
    <2>3. Removed(late, t) = [late EXCEPT !.lists[h] = new]
      BY <2>1 DEF Removed
    <2>4. y = [w EXCEPT !.lists[h] = new]
      BY DEF Removed
    <2> HIDE DEF y, h, new
    <2> QED BY <1>1, <2>2, <2>3, <2>4 DEF Wheels, Saying
  <1>5. x = Added(Hashed(z, t), t)
    BY <1>4 DEF Resorted
  <1> HIDE DEF y
  <1>6. /\ Kept(x, {})
        /\ Live(x) = Live(y) \cup {t}
        /\ x.made = y.made
        /\ Agree(x.timer[t], r) /\ x.timer[t].left = r.left
        /\ \A u \in Ids \ {t} : x.timer[u] = y.timer[u]
        /\ \A a, b : a # t /\ b # t /\ NotBehind(y, a, b) => NotBehind(x, a, b)
    <2>1. Kept(y, {t}) /\ t \in Ids
      BY <1>1, <1>2
    <2>2. x = Filed(y, t, r)
      BY <1>5 DEF Filed
    <2> HIDE DEF r, z, late
    <2>3. Kept(x, {}) /\ x.made = y.made
      BY <1>3, <2>1, <2>2, FiledKeeps
    <2>7. Live(x) = Live(y) \cup {t}
      BY <1>3, <2>1, <2>2, FiledKeeps
    <2>6. \A u \in Ids \ {t} : x.timer[u] = y.timer[u]
      BY <1>3, <2>1, <2>2, FiledKeeps
    <2>4. Agree(x.timer[t], r) /\ x.timer[t].left = r.left
      BY <1>3, <2>1, <2>2, FiledKeeps
    <2>5. \A a, b : a # t /\ b # t /\ NotBehind(y, a, b) => NotBehind(x, a, b)
      BY <1>3, <2>1, <2>2, FiledKeeps
    <2> QED BY <2>3, <2>4, <2>5, <2>6, <2>7
  <1>7. Agree(x.timer[t], w.timer[t]) /\ x.timer[t].left = v
    BY <1>1, <1>6 DEF TimerRecords, Agree
  <1> QED BY <1>1, <1>2, <1>6, <1>7

\* Time goes on.
LEMMA LaterKeeps ==
    ASSUME NEW w, Kept(w, {}), NEW d \in Nat, NEW x, x = Later(w, d)
    PROVE  /\ Kept(x, {})
           /\ Live(x) = Live(w)
           /\ x.made = w.made
           /\ \A u \in Live(w) : /\ Agree(x.timer[u], w.timer[u])
                                 /\ x.timer[u].left = w.timer[u].left - d
           /\ \A a, b : NotBehind(w, a, b) => NotBehind(x, a, b)
  <1>1. w \in Wheels /\ Live(w) \subseteq Ids
    BY LiveIsListed DEF Kept
  <1>2. (w.clock + d) % HashSize \in Nat
    <2>1. w.clock + d \in Int /\ HashSize \in Nat \ {0}
      BY <1>1, WheelTypes
    <2>2. (w.clock + d) % HashSize \in 0..HashSize - 1
      BY <2>1, Quotient
    <2> QED BY <2>1, <2>2
  <1> DEFINE timer2 == [t \in Ids |-> IF t \in Live(w)
                                      THEN [w.timer[t] EXCEPT !.left = w.timer[t].left - d]
                                      ELSE w.timer[t]]
  <1>3. timer2 \in [Ids -> TimerRecords]
    <2>1. ASSUME NEW t \in Ids PROVE [w.timer[t] EXCEPT !.left = w.timer[t].left - d] \in TimerRecords
      <3>1. w.timer[t] \in TimerRecords
        BY <1>1, WheelTypes
      <3> QED BY <3>1 DEF TimerRecords
    <2>2. \A t \in Ids : w.timer[t] \in TimerRecords
      BY <1>1, WheelTypes
    <2> QED BY <2>1, <2>2
  <1>4. x = [w EXCEPT !.clock = (w.clock + d) % HashSize, !.timer = timer2]
    BY <1>1 DEF Later, Wheels
  <1>5. \A u \in Live(w) :
            x.timer[u] = [w.timer[u] EXCEPT !.left = w.timer[u].left - d]
    BY <1>1, <1>4 DEF Wheels
  <1> HIDE DEF timer2
  <1>6. /\ x.free = w.free /\ x.lists = w.lists /\ x.made = w.made
        /\ x.clock = (w.clock + d) % HashSize
        /\ x \in Wheels
    BY <1>1, <1>2, <1>3, <1>4 DEF Wheels
  <1>7. Live(x) = Live(w)
    BY <1>6 DEF Live
  <1>8. ASSUME NEW u \in Live(w)
        PROVE  /\ Hash(x, u) = Hash(w, u)
               /\ x.timer[u].hash = w.timer[u].hash
               /\ x.timer[u].left = w.timer[u].left - d
               /\ Agree(x.timer[u], w.timer[u])
    <2>1. w.timer[u] \in TimerRecords /\ w.timer[u].left \in Int /\ w.clock \in Int
      BY <1>1, WheelTypes
    <2>2. x.timer[u].left = w.timer[u].left - d /\ x.timer[u].hash = w.timer[u].hash
      BY <1>5, <2>1 DEF TimerRecords
    <2>3. (((w.clock + d) % HashSize) + (w.timer[u].left - d)) % HashSize
              = (w.clock + w.timer[u].left) % HashSize
      BY <2>1, TimersAssumption, HashStays
    <2>4. Agree(x.timer[u], w.timer[u])
      BY <1>5, <2>1 DEF TimerRecords, Agree
    <2> QED BY <1>6, <2>2, <2>3, <2>4 DEF Hash
  <1>9. ASSUME NEW h \in Buckets PROVE ListKept(x, h)
    <2>1. ListKept(w, h)
      BY DEF Kept
    <2>2. \A n \in 1..Len(w.lists[h]) : /\ w.lists[h][n] \in Live(w)
                                        /\ w.timer[w.lists[h][n]].left \in Int
      BY <1>1, LiveIsListed, WheelTypes
    <2>3. ASSUME NEW m \in 1..Len(w.lists[h]), NEW n \in 1..Len(w.lists[h]), m <= n
          PROVE  x.timer[w.lists[h][m]].left <= x.timer[w.lists[h][n]].left
      <3>1. w.timer[w.lists[h][m]].left <= w.timer[w.lists[h][n]].left
        BY <2>1, <2>3 DEF ListKept
      <3>2. /\ w.lists[h][m] \in Live(w) /\ w.timer[w.lists[h][m]].left \in Int
            /\ w.lists[h][n] \in Live(w) /\ w.timer[w.lists[h][n]].left \in Int
        BY <2>2
      <3>3. /\ x.timer[w.lists[h][m]].left = w.timer[w.lists[h][m]].left - d
            /\ x.timer[w.lists[h][n]].left = w.timer[w.lists[h][n]].left - d
        BY <1>8, <3>2
      <3>4. \A p, q \in Int : p <= q => p - d <= q - d
        OBVIOUS
      <3> QED BY <3>1, <3>2, <3>3, <3>4
    <2> QED BY <1>6, <1>8, <2>1, <2>2, <2>3 DEF ListKept
  <1>10. Placed(x, {})
    BY <1>6, <1>7 DEF Kept, Placed
  <1>11. \A a, b : NotBehind(w, a, b) => NotBehind(x, a, b)
    BY <1>6 DEF NotBehind
  <1> QED BY <1>6, <1>7, <1>8, <1>9, <1>10, <1>11 DEF Kept

\* The timer behind another one is not one that is never behind it.
LEMMA NextIsBehind ==
    ASSUME NEW w, Kept(w, {}), NEW t \in Live(w)
    PROVE  /\ NextIn(w, t) \in Live(w) \cup {0}
           /\ NextIn(w, t) # t
           /\ \A a : NotBehind(w, a, t) => NextIn(w, t) # a \/ a = 0
  <1> DEFINE h == w.timer[t].hash
             list == w.lists[h]
             n == Place(list, t)
  <1>1. w \in Wheels /\ h \in Buckets /\ t \in Ids /\ t # 0 /\ Len(list) \in Nat
    <2>1. w \in Wheels /\ t \in Ids
      BY LiveIsListed DEF Kept
    <2> QED BY <2>1, WheelTypes
  <1>2. n \in 1..Len(list) /\ list[n] = t
    <2>1. PICK g \in Buckets : \E k \in 1..Len(w.lists[g]) : w.lists[g][k] = t
      BY <1>1, LiveIsListed
    <2>2. g = h
      BY <2>1 DEF Kept, ListKept
    <2>3. \E k2 \in 1..Len(list) : list[k2] = t
      BY <2>1, <2>2
    <2> QED BY <2>3 DEF Place
  <1>3. NextIn(w, t) = IF n = Len(list) THEN 0 ELSE list[n + 1]
    BY DEF NextIn
  <1> HIDE DEF n
  <1>4. CASE n = Len(list)
    BY <1>1, <1>3, <1>4
  <1>5. CASE n # Len(list)
    <2>1. n + 1 \in 1..Len(list) /\ ~ (n + 1 <= n)
      BY <1>1, <1>2, <1>5
    <2>2. list[n + 1] \in Live(w)
      BY <1>1, <2>1, LiveIsListed
    <2>3. list[n + 1] # t
      <3>1. Distinct(list)
        BY <1>1 DEF Kept, ListKept
      <3> QED BY <1>1, <1>2, <2>1, <3>1 DEF Distinct
    <2>4. \A a : NotBehind(w, a, t) => list[n + 1] # a
      BY <1>1, <1>2, <2>1 DEF NotBehind
    <2> QED BY <1>3, <1>5, <2>2, <2>3, <2>4
  <1> QED BY <1>4, <1>5

LEMMA FirstIsLive ==
    ASSUME NEW w, Kept(w, {}), NEW h \in Buckets
    PROVE  FirstOf(w, h) \in Live(w) \cup {0}
  <1>1. w \in Wheels /\ w.lists[h] \in Seq(Ids)
    BY WheelTypes DEF Kept
  <1>2. CASE w.lists[h] # <<>>
    <2>1. Len(w.lists[h]) \in Nat \ {0} /\ Head(w.lists[h]) = w.lists[h][1]
      BY <1>1, <1>2, EmptySeq
    <2>2. 1 \in 1..Len(w.lists[h])
      BY <2>1
    <2> QED BY <1>1, <1>2, <2>1, <2>2, LiveIsListed DEF FirstOf
  <1> QED BY <1>2 DEF FirstOf

\* What is kept is sound.
LEMMA KeptIsSound ==
    ASSUME NEW w, Kept(w, {})
    PROVE  Sound(w)
  <1>1. w \in Wheels /\ w.made \in Nat /\ w.free \in Seq(Ids) /\ Len(w.free) \in Nat
    BY WheelTypes DEF Kept
  <1>2. /\ Live(w) \cup ToSet(w.free) = 1..w.made
        /\ Live(w) \cap ToSet(w.free) = {}
        /\ Distinct(w.free)
    BY DEF Kept, Placed
  <1>3. Cardinality(Live(w)) + Len(w.free) = w.made
    <2>1. IsFiniteSet(1..w.made) /\ Cardinality(1..w.made) = w.made
      BY <1>1, CountTo
    <2>2. IsFiniteSet(Live(w)) /\ IsFiniteSet(ToSet(w.free))
      BY <1>2, <2>1, FS_Subset
    <2>3. Cardinality(ToSet(w.free)) = Len(w.free)
      <3>1. w.free \in Bijection(1..Len(w.free), ToSet(w.free))
        <4>1. \A u : u \in ToSet(w.free) <=> \E n \in 1..Len(w.free) : w.free[n] = u
          BY <1>1, LiveIsListed
        <4>2. w.free \in [1..Len(w.free) -> ToSet(w.free)]
          BY <1>1, <4>1, LenProperties
        <4>3. \A i, j \in 1..Len(w.free) : w.free[i] = w.free[j] => i = j
          BY <1>2 DEF Distinct
        <4>4. w.free \in Injection(1..Len(w.free), ToSet(w.free))
          BY <4>2, <4>3 DEF Injection, IsInjective
        <4>5. w.free \in Surjection(1..Len(w.free), ToSet(w.free))
          BY <4>1, <4>2 DEF Surjection
        <4> QED BY <4>4, <4>5 DEF Bijection
      <3>2. IsFiniteSet(1..Len(w.free)) /\ Cardinality(1..Len(w.free)) = Len(w.free)
        BY <1>1, CountTo
      <3>3. ExistsBijection(1..Len(w.free), ToSet(w.free))
        BY <3>1 DEF ExistsBijection
      <3> QED BY <3>2, <3>3, FS_Bijection
    <2>4. Cardinality(Live(w) \cup ToSet(w.free))
              = Cardinality(Live(w)) + Cardinality(ToSet(w.free))
                - Cardinality(Live(w) \cap ToSet(w.free))
      BY <2>2, FS_Union
    <2>5. Cardinality(Live(w) \cap ToSet(w.free)) = 0
      BY <1>2, FS_EmptySet
    <2>6. Cardinality(Live(w)) \in Nat
      BY <2>2, FS_CardinalityType
    <2>7. Cardinality(Live(w) \cup ToSet(w.free)) = w.made
      BY <1>2, <2>1
    <2> QED BY <1>1, <2>3, <2>4, <2>5, <2>6, <2>7
  <1>4. ASSUME NEW h \in Buckets
        PROVE  LET list == w.lists[h]
               IN  /\ IsInjective(list)
                   /\ \A n \in 1..Len(list) : w.timer[list[n]].hash = h /\ Hash(w, list[n]) = h
                   /\ \A n \in 2..Len(list) : w.timer[list[n - 1]].left <= w.timer[list[n]].left
    <2>1. ListKept(w, h) /\ w.lists[h] \in Seq(Ids) /\ Len(w.lists[h]) \in Nat
      BY <1>1, WheelTypes DEF Kept
    <2>2. DOMAIN w.lists[h] = 1..Len(w.lists[h])
      BY <2>1, LenProperties
    <2>3. IsInjective(w.lists[h])
      BY <2>1, <2>2 DEF ListKept, Distinct, IsInjective
    <2>4. \A n \in 2..Len(w.lists[h]) :
              n - 1 \in 1..Len(w.lists[h]) /\ n \in 1..Len(w.lists[h]) /\ n - 1 <= n
      BY <2>1
    <2> QED BY <2>1, <2>3, <2>4 DEF ListKept
  <1> QED BY <1>2, <1>3, <1>4 DEF Sound

-----------------------------------------------------------------------------
(***************************************************************************)
(* The timers a change leaves as they are, but for when they trigger.      *)
(***************************************************************************)
Stay(w, x, stays) ==
    /\ stays \subseteq Live(w) \cap Live(x)
    /\ \A t \in stays : Agree(x.timer[t], w.timer[t])
    /\ \A a, b \in stays : NotBehind(w, a, b) => NotBehind(x, a, b)

LEMMA StayFewer ==
    ASSUME NEW w, NEW x, NEW stays, NEW fewer,
           Stay(w, x, stays), fewer \subseteq stays
    PROVE  Stay(w, x, fewer)
  BY DEF Stay

LEMMA StayOn ==
    ASSUME NEW w, NEW x, NEW y, NEW stays, NEW fewer,
           Stay(w, x, stays), Stay(x, y, fewer), fewer \subseteq stays
    PROVE  Stay(w, y, fewer)
  <1>1. fewer \subseteq Live(w) \cap Live(y)
    BY DEF Stay
  <1>2. \A t \in fewer : Agree(y.timer[t], w.timer[t])
    BY DEF Stay, Agree
  <1>3. \A a, b \in fewer : NotBehind(w, a, b) => NotBehind(y, a, b)
    BY DEF Stay
  <1> QED BY <1>1, <1>2, <1>3 DEF Stay

LEMMA CreatedStay ==
    ASSUME NEW w, Kept(w, {}), Unused(w) \in Ids,
           NEW proc \in {"start", "idle", "wakeup"}, NEW client \in Nat,
           NEW secs \in Nat, NEW periodic \in BOOLEAN,
           NEW x, x = Created(w, proc, client, secs, periodic)
    PROVE  Stay(w, x, Live(w))
  <1>1. /\ Live(x) = Live(w) \cup {Unused(w)}
        /\ \A u \in Live(w) : x.timer[u] = w.timer[u]
    BY CreatedKeeps
  <1>2. \A a, b \in Live(w) : NotBehind(w, a, b) => NotBehind(x, a, b)
    BY CreatedKeeps
  <1>3. \A u \in Live(w) : Agree(x.timer[u], w.timer[u])
    BY <1>1 DEF Agree
  <1> QED BY <1>1, <1>2, <1>3 DEF Stay

\* A timer that is not periodic.
MadeOnce(w, proc, client, secs) == Created(w, proc, client, secs, FALSE)

LEMMA OnceCreated ==
    ASSUME NEW w, Kept(w, {}), Unused(w) \in Ids,
           NEW proc \in {"start", "idle", "wakeup"}, NEW client \in Nat,
           NEW secs \in Nat, NEW x, x = MadeOnce(w, proc, client, secs)
    PROVE  /\ Kept(x, {})
           /\ Unused(w) \notin Live(w)
           /\ Live(x) = Live(w) \cup {Unused(w)}
           /\ x.timer[Unused(w)].proc = proc /\ x.timer[Unused(w)].client = client
           /\ x.timer[Unused(w)].secs = secs /\ x.timer[Unused(w)].left = secs
           /\ ~ x.timer[Unused(w)].periodic
           /\ \A u \in Live(w) : x.timer[u] = w.timer[u]
           /\ \A b \in Live(w) :
                  secs <= w.timer[b].left => NotBehind(x, Unused(w), b)
           /\ Stay(w, x, Live(w))
  <1>1. PICK p \in BOOLEAN : p = FALSE
    OBVIOUS
  <1>2. x = Created(w, proc, client, secs, p)
    BY <1>1, Zenon DEF MadeOnce
  <1>3. /\ Kept(x, {})
        /\ Unused(w) \notin Live(w)
        /\ Live(x) = Live(w) \cup {Unused(w)}
    BY <1>2, CreatedKeeps
  <1>4. /\ x.timer[Unused(w)].proc = proc /\ x.timer[Unused(w)].client = client
        /\ x.timer[Unused(w)].secs = secs
    BY <1>2, CreatedKeeps
  <1>10. x.timer[Unused(w)].left = secs
    <2>1. /\ x.timer[Unused(w)].proc = proc /\ x.timer[Unused(w)].client = client
          /\ x.timer[Unused(w)].secs = secs /\ x.timer[Unused(w)].left = secs
          /\ x.timer[Unused(w)].periodic = p
      BY <1>2, CreatedKeeps, SMTT(30)
    <2> QED BY <2>1
  <1>5. x.timer[Unused(w)].periodic = p
    BY <1>2, CreatedKeeps
  <1>6. ~ x.timer[Unused(w)].periodic
    BY <1>1, <1>5
  <1>7. \A u \in Live(w) : x.timer[u] = w.timer[u]
    BY <1>2, CreatedKeeps
  <1>8. \A b \in Live(w) : secs <= w.timer[b].left => NotBehind(x, Unused(w), b)
    BY <1>2, CreatedKeeps
  <1>9. Stay(w, x, Live(w))
    BY <1>2, CreatedStay
  <1> QED BY <1>3, <1>4, <1>6, <1>7, <1>8, <1>9, <1>10

LEMMA CancelledStay ==
    ASSUME NEW w, Kept(w, {}), NEW t \in Live(w), NEW x, x = Cancelled(w, t)
    PROVE  Stay(w, x, Live(w) \ {t})
  <1>1. /\ Live(x) = Live(w) \ {t}
        /\ \A u \in Live(x) : x.timer[u] = w.timer[u]
    BY CancelledKeeps
  <1>2. \A a, b : NotBehind(w, a, b) => NotBehind(x, a, b)
    BY CancelledKeeps
  <1>3. \A u \in Live(w) \ {t} : Agree(x.timer[u], w.timer[u])
    BY <1>1 DEF Agree
  <1> QED BY <1>1, <1>2, <1>3 DEF Stay

LEMMA ResortedStay ==
    ASSUME NEW w, Kept(w, {}), NEW t \in Live(w), NEW v \in Int,
           NEW x, x = Resorted([w EXCEPT !.timer[t].left = v], t)
    PROVE  Stay(w, x, Live(w) \ {t})
  <1>1. Live(x) = Live(w) /\ \A u \in Live(w) \ {t} : x.timer[u] = w.timer[u]
    BY ResortedKeeps
  <1>2. \A a, b \in Live(w) \ {t} : NotBehind(w, a, b) => NotBehind(x, a, b)
    BY ResortedKeeps
  <1>3. \A u \in Live(w) \ {t} : Agree(x.timer[u], w.timer[u])
    BY <1>1 DEF Agree
  <1> QED BY <1>1, <1>2, <1>3 DEF Stay

LEMMA LaterStay ==
    ASSUME NEW w, Kept(w, {}), NEW d \in Nat, NEW x, x = Later(w, d)
    PROVE  Stay(w, x, Live(w))
  <1>1. Live(x) = Live(w)
    BY LaterKeeps
  <1>2. \A u \in Live(w) : Agree(x.timer[u], w.timer[u])
    BY LaterKeeps
  <1>3. \A a, b : NotBehind(w, a, b) => NotBehind(x, a, b)
    BY LaterKeeps
  <1> QED BY <1>1, <1>2, <1>3 DEF Stay

-----------------------------------------------------------------------------
(***************************************************************************)
(* The connections and their timers.  As long as no socket has failed,     *)
(* each idle timer is the one that its connection points to.               *)
(***************************************************************************)
SlotsOf(m) == 1..m.slots

IsSlot(s) ==
    s = [state |-> s.state, idle |-> s.idle, wakeup |-> s.wakeup,
         response |-> s.response, read |-> s.read, header |-> s.header]

IsTimer(w, t, proc, c) ==
    t \in Live(w) /\ w.timer[t].proc = proc /\ w.timer[t].client = c

\* A connection in use has its timers, and the one that ends its pause is not
\* behind the other.
SlotKept(con, w, m, c) ==
    /\ con[c].state # "FREE" => IsTimer(w, con[c].idle, "idle", c)
    /\ con[c].state = "PAUSING" => /\ IsTimer(w, con[c].wakeup, "wakeup", c)
                                   /\ NotBehind(w, con[c].wakeup, con[c].idle)
    /\ con[c].state \notin {"FREE", "PAUSING"} \/ ~ m.throttle => con[c].wakeup = 0

\* A timer has its connection.
TimerKept(con, w, m, t, failed) ==
    LET timer == w.timer[t]
        slot == con[timer.client]
    IN  timer.proc # "start" =>
            /\ timer.client \in SlotsOf(m)
            /\ ~ timer.periodic
            /\ timer.proc = "wakeup" => slot.state = "PAUSING" /\ slot.wakeup = t
            /\ timer.proc = "idle" =>
                   /\ timer.secs = IdleSecs
                   /\ "socket" \notin failed => slot.state # "FREE" /\ slot.idle = t

Slotted(con, m) ==
    /\ con = [c \in SlotsOf(m) |-> con[c]]
    /\ \A c \in SlotsOf(m) : IsSlot(con[c])

Orderly(con, w, m, failed) ==
    /\ Slotted(con, m)
    /\ Kept(w, {})
    /\ \A c \in SlotsOf(m) : SlotKept(con, w, m, c)
    /\ \A t \in Live(w) : TimerKept(con, w, m, t, failed)

\* Outside of stays there are only timers of c and those that start fetches.
Only(w, stays, c) ==
    \A t \in Live(w) \ stays : w.timer[t].proc = "start" \/ w.timer[t].client = c

OthersStay(con, con2, m, c) == \A d \in SlotsOf(m) \ {c} : con2[d] = con[d]

TimersOfSlot(con, w, m, c, failed) ==
    \A t \in Live(w) : w.timer[t].proc # "start" /\ w.timer[t].client = c
                          => TimerKept(con, w, m, t, failed)

\* A change that disturbs at most the timers of c and those that start fetches.
LEMMA SlotsStay ==
    ASSUME NEW con, NEW w, NEW m, NEW failed, Orderly(con, w, m, failed),
           NEW con2, NEW x, NEW failed2, failed \subseteq failed2,
           Slotted(con2, m), NEW c, OthersStay(con, con2, m, c),
           Kept(x, {}), NEW stays, Stay(w, x, stays),
           Only(w, stays, c), Only(x, stays, c),
           c \in SlotsOf(m) => SlotKept(con2, x, m, c),
           TimersOfSlot(con2, x, m, c, failed2)
    PROVE  Orderly(con2, x, m, failed2)
  <1> USE DEF Only, OthersStay, TimersOfSlot
  <1>1. ASSUME NEW d \in SlotsOf(m), d # c PROVE SlotKept(con2, x, m, d)
    <2>1. SlotKept(con, w, m, d) /\ con2[d] = con[d]
      BY <1>1 DEF Orderly
    <2>2. \A t, proc : IsTimer(w, t, proc, d) /\ proc # "start"
                           => t \in stays /\ IsTimer(x, t, proc, d)
      BY <1>1 DEF IsTimer, Stay, Agree
    <2>3. con[d].state # "FREE" => con[d].idle \in stays /\ IsTimer(x, con[d].idle, "idle", d)
      BY <2>1, <2>2 DEF SlotKept
    <2>4. con[d].state = "PAUSING"
              => con[d].wakeup \in stays /\ IsTimer(x, con[d].wakeup, "wakeup", d)
      BY <2>1, <2>2 DEF SlotKept
    <2>5. con[d].state = "PAUSING" => NotBehind(x, con[d].wakeup, con[d].idle)
      BY <2>1, <2>3, <2>4 DEF SlotKept, Stay
    <2> QED BY <2>1, <2>3, <2>4, <2>5 DEF SlotKept
  <1>2. ASSUME NEW t \in Live(x), x.timer[t].proc # "start", x.timer[t].client # c
        PROVE  TimerKept(con2, x, m, t, failed2)
    <2>1. t \in stays /\ t \in Live(w) /\ Agree(x.timer[t], w.timer[t])
      BY <1>2 DEF Stay
    <2>2. TimerKept(con, w, m, t, failed)
      BY <2>1 DEF Orderly
    <2>3. w.timer[t].client \in SlotsOf(m) \ {c}
      BY <1>2, <2>1, <2>2 DEF TimerKept, Agree
    <2>4. con2[w.timer[t].client] = con[w.timer[t].client]
      BY <2>3
    <2> QED BY <2>1, <2>2, <2>4 DEF TimerKept, Agree
  <1>3. \A t \in Live(x) : TimerKept(con2, x, m, t, failed2)
    <2>1. \A t \in Live(x) : x.timer[t].proc = "start" => TimerKept(con2, x, m, t, failed2)
      BY DEF TimerKept
    <2> QED BY <1>2, <2>1
  <1>4. \A d \in SlotsOf(m) : SlotKept(con2, x, m, d)
    BY <1>1
  <1> QED BY <1>3, <1>4 DEF Orderly

-----------------------------------------------------------------------------
(***************************************************************************)
(* What the functions do that change a state of the program.  The number   *)
(* of timers that were made only grows, so that a state within the bound   *)
(* comes only of states within it.                                         *)
(***************************************************************************)
IsWheel(w) ==
    /\ w = [lists |-> w.lists, free |-> w.free, made |-> w.made,
            clock |-> w.clock, timer |-> w.timer]
    /\ w.made \in Nat

LEMMA WheelsAreWheels ==
    ASSUME NEW w, Kept(w, {}) PROVE IsWheel(w)
  BY WheelTypes DEF IsWheel, Wheels, Kept

LEMMA MadeStays ==
    ASSUME NEW w, IsWheel(w), NEW t
    PROVE  /\ IsWheel(Cancelled(w, t)) /\ Cancelled(w, t).made = w.made
           /\ \A v : LET x == Resorted([w EXCEPT !.timer[t].left = v], t)
                     IN  IsWheel(x) /\ x.made = w.made
  <1>1. ASSUME NEW y, IsWheel(y)
        PROVE  /\ IsWheel(Removed(y, t)) /\ Removed(y, t).made = y.made
               /\ IsWheel(Added(y, t)) /\ Added(y, t).made = y.made
               /\ IsWheel(Hashed(y, t)) /\ Hashed(y, t).made = y.made
    BY <1>1 DEF IsWheel, Removed, Added, Hashed
  <1>2. IsWheel(Cancelled(w, t)) /\ Cancelled(w, t).made = w.made
    <2> DEFINE y == Removed(w, t)
    <2>1. IsWheel(y) /\ y.made = w.made
      BY <1>1
    <2> HIDE DEF y
    <2>2. Cancelled(w, t) = [y EXCEPT !.free = <<t>> \o @, !.timer[t] = NoTimer]
      BY DEF Cancelled, y
    <2> QED BY <2>1, <2>2 DEF IsWheel
  <1>3. ASSUME NEW v
        PROVE  LET x == Resorted([w EXCEPT !.timer[t].left = v], t)
               IN  IsWheel(x) /\ x.made = w.made
    <2> DEFINE y == [w EXCEPT !.timer[t].left = v]
    <2>1. IsWheel(y) /\ y.made = w.made
      BY DEF IsWheel
    <2> HIDE DEF y
    <2>2. IsWheel(Removed(y, t)) /\ Removed(y, t).made = w.made
      BY <1>1, <2>1
    <2>3. IsWheel(Hashed(Removed(y, t), t)) /\ Hashed(Removed(y, t), t).made = w.made
      BY <1>1, <2>2
    <2>4. IsWheel(Added(Hashed(Removed(y, t), t), t))
          /\ Added(Hashed(Removed(y, t), t), t).made = w.made
      BY <1>1, <2>3
    <2> QED BY <2>4 DEF Resorted, y
  <1> QED BY <1>2, <1>3

LEMMA CreatedGrows ==
    ASSUME NEW w, IsWheel(w), NEW proc, NEW client, NEW secs, NEW periodic
    PROVE  LET x == Created(w, proc, client, secs, periodic)
           IN  IsWheel(x) /\ x.made >= w.made
  <1> DEFINE t == Unused(w)
             taken == IF w.free # <<>> THEN [w EXCEPT !.free = Tail(@)]
                      ELSE [w EXCEPT !.made = @ + 1]
             filled == [taken EXCEPT !.timer[t] =
                          [proc |-> proc, client |-> client, secs |-> secs,
                           periodic |-> periodic, left |-> secs, hash |-> 0]]
             hashed == Hashed(filled, t)
             x == Added(hashed, t)
  <1>1. IsWheel(taken) /\ taken.made >= w.made
    BY DEF IsWheel
  <1> HIDE DEF taken
  <1>2. IsWheel(filled) /\ filled.made >= w.made
    BY <1>1 DEF IsWheel
  <1> HIDE DEF filled
  <1>3. IsWheel(hashed) /\ hashed.made >= w.made
    BY <1>2 DEF IsWheel, Hashed
  <1> HIDE DEF hashed
  <1>4. IsWheel(x) /\ x.made >= w.made
    BY <1>3 DEF IsWheel, Added
  <1>5. x = Created(w, proc, client, secs, periodic)
    BY DEF Created, x, hashed, filled, taken
  <1> QED BY <1>4, <1>5

\* A null pointer has no timer.
Without(w, t) == IF t = 0 THEN w ELSE Cancelled(w, t)

IsPointer(w, t) == t \in Live(w) \cup {0}

\* The timers of gone are cancelled, the others stay as they are.
Less(w, x, gone) ==
    /\ Kept(x, {})
    /\ Live(x) = Live(w) \ gone
    /\ Stay(w, x, Live(w) \ gone)
    /\ \A u \in Live(x) : x.timer[u] = w.timer[u]

LEMMA WithoutKeeps ==
    ASSUME NEW w, Kept(w, {}), NEW t, IsPointer(w, t)
    PROVE  Less(w, Without(w, t), {t})
  <1> DEFINE x == Without(w, t)
  <1> USE DEF Less
  <1>1. CASE t = 0
    <2>1. 0 \notin Live(w)
      BY LiveIsListed, WheelTypes DEF Kept
    <2>2. x = w
      BY <1>1 DEF Without
    <2>3. Stay(w, x, Live(w) \ {t})
      BY <2>2 DEF Stay, Agree
    <2> QED BY <1>1, <2>1, <2>2, <2>3
  <1>2. CASE t # 0
    <2>1. t \in Live(w) /\ x = Cancelled(w, t)
      BY <1>2 DEF Without, IsPointer
    <2>2. Stay(w, x, Live(w) \ {t})
      BY <2>1, CancelledStay
    <2>3. Kept(x, {}) /\ Live(x) = Live(w) \ {t}
      BY <2>1, CancelledKeeps
    <2>4. \A u \in Live(x) : x.timer[u] = w.timer[u]
      BY <2>1, CancelledKeeps
    <2> QED BY <2>2, <2>3, <2>4
  <1> QED BY <1>1, <1>2

LEMMA WithoutBoth ==
    ASSUME NEW w, Kept(w, {}), NEW i, IsPointer(w, i),
           NEW k, IsPointer(Without(w, i), k)
    PROVE  Less(w, Without(Without(w, i), k), {i, k})
  <1> DEFINE y == Without(w, i)
             x == Without(y, k)
  <1>1. Less(w, y, {i})
    BY WithoutKeeps
  <1> HIDE DEF y
  <1>2. IsPointer(y, k) /\ Kept(y, {})
    BY <1>1 DEF y, Less
  <1>3. Less(y, x, {k})
    BY <1>2, WithoutKeeps
  <1> HIDE DEF x
  <1>4. Live(w) \ {i, k} = Live(y) \ {k} /\ Live(y) \ {k} \subseteq Live(w) \ {i}
    BY <1>1 DEF Less
  <1>5. Stay(w, x, Live(w) \ {i, k})
    BY <1>1, <1>3, <1>4, StayOn DEF Less
  <1>6. \A u \in Live(x) : x.timer[u] = w.timer[u]
    BY <1>1, <1>3 DEF Less
  <1>7. Less(w, x, {i, k})
    BY <1>3, <1>4, <1>5, <1>6 DEF Less
  <1> QED BY <1>7 DEF x, y

\* The states that the functions hand to one another.
IsCount(n) ==
    /\ n = [current |-> n.current, started |-> n.started, completed |-> n.completed]
    /\ n.current \in Int /\ n.started \in Int /\ n.completed \in Int

IsLoad(s) ==
    /\ s = [connections |-> s.connections, timers |-> s.timers,
            counts |-> s.counts, defined |-> s.defined]
    /\ IsWheel(s.timers) /\ IsCount(s.counts)

\* What is added to num_connections, fetches_started and fetches_completed.
Tally(n, a, b, d) ==
    [current |-> n.current + a, started |-> n.started + b, completed |-> n.completed + d]

LEMMA TallyIs ==
    ASSUME NEW n, IsCount(n), NEW a \in Int, NEW b \in Int, NEW d \in Int
    PROVE  IsCount(Tally(n, a, b, d))
  BY DEF IsCount, Tally


LEMMA CancelledInIs ==
    ASSUME NEW s, IsLoad(s), NEW t, NEW r, r = CancelledIn(s, t)
    PROVE  /\ IsLoad(r) /\ r.connections = s.connections
           /\ r.timers.made = s.timers.made /\ r.counts = s.counts
           /\ IsPointer(s.timers, t) =>
                  /\ r.timers = Without(s.timers, t)
                  /\ r.defined = s.defined
  <1> USE DEF IsPointer
  <1>1. CASE t = 0
    BY <1>1 DEF CancelledIn, Without
  <1>2. CASE t # 0 /\ t \in Live(s.timers)
    <2>1. IsWheel(Cancelled(s.timers, t)) /\ Cancelled(s.timers, t).made = s.timers.made
      BY MadeStays DEF IsLoad
    <2>2. r = [s EXCEPT !.timers = Cancelled(s.timers, t)]
      BY <1>2 DEF CancelledIn
    <2>3. /\ r.timers = Cancelled(s.timers, t) /\ r.connections = s.connections
          /\ r.defined = s.defined /\ r.counts = s.counts
          /\ r = [connections |-> r.connections, timers |-> r.timers,
                  counts |-> r.counts, defined |-> r.defined]
      BY <2>2 DEF IsLoad
    <2> QED BY <1>2, <2>1, <2>3 DEF IsLoad, Without
  <1>3. CASE t # 0 /\ t \notin Live(s.timers)
    <2>1. r = [s EXCEPT !.defined = FALSE]
      BY <1>3 DEF CancelledIn
    <2> QED BY <1>3, <2>1 DEF IsLoad
  <1> QED BY <1>1, <1>2, <1>3

WithSlot(con, c, slot) == [con EXCEPT ![c] = slot]

\* close_connection; a connection that is closed keeps its pointers.
Closed(slot) == [FreeSlot EXCEPT !.idle = slot.idle, !.wakeup = slot.wakeup]

LEMMA ClosedIsFree ==
    ASSUME NEW slot
    PROVE  Closed(slot) = [state |-> "FREE", idle |-> slot.idle, wakeup |-> slot.wakeup,
                           response |-> 0, read |-> 0, header |-> NoHeader]
  <1>1. [FreeSlot EXCEPT !.idle = slot.idle]
            = [state |-> "FREE", idle |-> slot.idle, wakeup |-> 0, response |-> 0,
               read |-> 0, header |-> NoHeader]
    BY DEF FreeSlot
  <1>2. Closed(slot) = [[FreeSlot EXCEPT !.idle = slot.idle] EXCEPT !.wakeup = slot.wakeup]
    BY DEF Closed
  <1> QED BY <1>1, <1>2

LEMMA ClosedIs ==
    ASSUME NEW s, IsLoad(s), NEW c, NEW r, r = CloseConnection(s, c)
    PROVE  LET i == s.connections[c].idle
               k == s.connections[c].wakeup
           IN  /\ IsLoad(r)
               /\ r.connections = WithSlot(s.connections, c, Closed(s.connections[c]))
               /\ r.timers.made = s.timers.made
               /\ r.counts = Tally(s.counts, -1, 0, 1)
               /\ IsPointer(s.timers, i) /\ IsPointer(Without(s.timers, i), k)
                      => /\ r.timers = Without(Without(s.timers, i), k)
                         /\ r.defined = s.defined
  <1> DEFINE i == s.connections[c].idle
             k == s.connections[c].wakeup
             p == CancelledIn(s, i)
             q == CancelledIn(p, k)
  <1>1. /\ IsLoad(p) /\ p.connections = s.connections /\ p.timers.made = s.timers.made
        /\ p.counts = s.counts
        /\ IsPointer(s.timers, i) =>
               p.timers = Without(s.timers, i) /\ p.defined = s.defined
    BY CancelledInIs
  <1> HIDE DEF p
  <1>2. /\ IsLoad(q) /\ q.connections = p.connections /\ q.timers.made = p.timers.made
        /\ q.counts = p.counts
        /\ IsPointer(p.timers, k) =>
               q.timers = Without(p.timers, k) /\ q.defined = p.defined
    BY <1>1, CancelledInIs
  <1> HIDE DEF q
  <1>3. r = [q EXCEPT !.connections[c] = Closed(s.connections[c]),
                      !.counts.current = @ - 1, !.counts.completed = @ + 1]
    BY DEF CloseConnection, Closed, q, p
  <1> DEFINE slot == Closed(s.connections[c])
             n == q.counts
             half == [current |-> n.current - 1, started |-> n.started,
                      completed |-> n.completed]
             one == [q EXCEPT !.connections[c] = slot]
             two == [one EXCEPT !.counts.current = n.current - 1]
  <1>4. /\ r.timers = q.timers /\ r.defined = q.defined
        /\ r.connections = WithSlot(q.connections, c, slot)
        /\ r.counts = Tally(n, -1, 0, 1)
        /\ r = [connections |-> r.connections, timers |-> r.timers,
                counts |-> r.counts, defined |-> r.defined]
    <2> HIDE DEF slot, i, k
    <2>1. IsCount(n)
      BY <1>2 DEF IsLoad
    <2>2. /\ one = [connections |-> one.connections, timers |-> one.timers,
                    counts |-> one.counts, defined |-> one.defined]
          /\ one.timers = q.timers /\ one.defined = q.defined /\ one.counts = n
          /\ one.connections = WithSlot(q.connections, c, slot)
      BY <1>2 DEF IsLoad, WithSlot
    <2>3. [n EXCEPT !.current = n.current - 1] = half
      <3> HIDE DEF n
      <3> QED BY <2>1 DEF IsCount
    <2>5. r = [two EXCEPT !.counts.completed = n.completed + 1]
      BY <1>3 DEF slot
    <2> HIDE DEF n, half, one
    <2>6. /\ two = [connections |-> two.connections, timers |-> two.timers,
                    counts |-> two.counts, defined |-> two.defined]
          /\ two.timers = q.timers /\ two.defined = q.defined /\ two.counts = half
          /\ two.connections = WithSlot(q.connections, c, slot)
      BY <2>2, <2>3
    <2> HIDE DEF two
    <2>7. [half EXCEPT !.completed = n.completed + 1] = Tally(n, -1, 0, 1)
      BY <2>1 DEF half, Tally, IsCount
    <2>8. /\ r.timers = q.timers /\ r.defined = q.defined
          /\ r.connections = WithSlot(q.connections, c, slot)
          /\ r.counts = [half EXCEPT !.completed = n.completed + 1]
          /\ r = [connections |-> r.connections, timers |-> r.timers,
                  counts |-> r.counts, defined |-> r.defined]
      BY <2>5, <2>6
    <2> QED BY <2>7, <2>8
  <1> HIDE DEF slot, half, one, two
  <1>5. r.counts = Tally(q.counts, -1, 0, 1) /\ IsCount(r.counts)
    <2>1. IsCount(n)
      BY <1>2 DEF IsLoad
    <2> HIDE DEF n
    <2>2. IsCount(Tally(n, -1, 0, 1))
      BY <2>1, TallyIs
    <2> QED BY <1>4, <2>2 DEF n
  <1>6. IsLoad(r)
    BY <1>2, <1>4, <1>5 DEF IsLoad
  <1> QED BY <1>1, <1>2, <1>4, <1>5, <1>6 DEF slot

-----------------------------------------------------------------------------
(***************************************************************************)
(* A slot that is taken, and one that is freed.                            *)
(***************************************************************************)
LEMMA OtherSlots ==
    ASSUME NEW con, NEW m, Slotted(con, m), NEW c \in SlotsOf(m),
           NEW slot, IsSlot(slot), NEW con2, con2 = WithSlot(con, c, slot)
    PROVE  Slotted(con2, m) /\ con2[c] = slot /\ OthersStay(con, con2, m, c)
  <1>1. con = [d \in SlotsOf(m) |-> con[d]]
    BY DEF Slotted
  <1>2. con2 = [d \in SlotsOf(m) |-> IF d = c THEN slot ELSE con[d]]
    BY <1>1 DEF WithSlot
  <1>3. \A d \in SlotsOf(m) : con2[d] = IF d = c THEN slot ELSE con[d]
    BY <1>2
  <1>4. con2 = [d \in SlotsOf(m) |-> con2[d]]
    BY <1>2
  <1>5. \A d \in SlotsOf(m) : IsSlot(con2[d])
    BY <1>3 DEF Slotted
  <1> QED BY <1>3, <1>4, <1>5 DEF Slotted, OthersStay

LEMMA OpenedKeeps ==
    ASSUME NEW con, NEW w, NEW m, NEW failed, Orderly(con, w, m, failed), m.slots \in Nat,
           NEW c \in SlotsOf(m), con[c].state = "FREE", NEW failed2, failed \subseteq failed2,
           Unused(w) \in Ids, NEW x, x = MadeOnce(w, "idle", c, IdleSecs),
           NEW slot, IsSlot(slot), slot.idle = Unused(w), slot.wakeup = 0,
           slot.state \in {"FREE", "CONNECTING", "HEADERS"},
           "socket" \notin failed2 => slot.state # "FREE",
           NEW con2, con2 = WithSlot(con, c, slot)
    PROVE  Orderly(con2, x, m, failed2)
  <1> DEFINE t == Unused(w)
  <1>1. Kept(w, {}) /\ Slotted(con, m)
    BY DEF Orderly
  <1>2. /\ c \in Nat /\ IdleSecs \in Nat
    BY LoadAssumption DEF SlotsOf
  <1>3. /\ Kept(x, {}) /\ Live(x) = Live(w) \cup {t}
        /\ x.timer[t].proc = "idle" /\ x.timer[t].client = c
        /\ x.timer[t].secs = IdleSecs /\ ~ x.timer[t].periodic
        /\ \A u \in Live(w) : x.timer[u] = w.timer[u]
    BY <1>1, <1>2, OnceCreated
  <1>4. Stay(w, x, Live(w))
    BY <1>1, <1>2, OnceCreated
  <1> HIDE DEF t
  <1>5. /\ Slotted(con2, m) /\ con2[c] = slot
        /\ OthersStay(con, con2, m, c)
    BY <1>1, OtherSlots
  <1>6. SlotKept(con2, x, m, c)
    BY <1>3, <1>5 DEF SlotKept, IsTimer, t
  <1>7. TimerKept(con2, x, m, t, failed2)
    BY <1>3, <1>5 DEF TimerKept, t
  <1>8. ASSUME NEW u \in Live(w), x.timer[u].proc # "start", x.timer[u].client = c
        PROVE  TimerKept(con2, x, m, u, failed2)
    <2>1. x.timer[u] = w.timer[u] /\ TimerKept(con, w, m, u, failed)
      BY <1>3 DEF Orderly
    <2>2. x.timer[u].proc # "wakeup" /\ (x.timer[u].proc = "idle" => "socket" \in failed)
      BY <1>8, <2>1 DEF TimerKept
    <2> QED BY <1>8, <2>1, <2>2 DEF TimerKept
  <1>9. TimersOfSlot(con2, x, m, c, failed2)
    BY <1>3, <1>7, <1>8 DEF TimersOfSlot
  <1>10. Only(x, Live(w), c) /\ Only(w, Live(w), c)
    BY <1>3 DEF Only
  <1> QED BY <1>3, <1>4, <1>5, <1>6, <1>9, <1>10, SlotsStay

\* The timers that are gone are those of the slot that is freed.
Frees(w, gone, c, failed) ==
    /\ \A t \in Live(w) \cap gone : w.timer[t].client = c
    /\ \A t \in Live(w) \ gone : w.timer[t].client = c
          => w.timer[t].proc # "wakeup" /\ (w.timer[t].proc = "idle" => "socket" \in failed)

LEMMA FreedKeeps ==
    ASSUME NEW con, NEW w, NEW m, NEW failed, Orderly(con, w, m, failed),
           NEW c \in SlotsOf(m), NEW slot, IsSlot(slot), slot.state = "FREE",
           m.throttle \/ slot.wakeup = 0,
           NEW gone, NEW x, Less(w, x, gone), Frees(w, gone, c, failed),
           NEW con2, con2 = WithSlot(con, c, slot)
    PROVE  Orderly(con2, x, m, failed)
  <1> DEFINE stays == Live(w) \ gone
  <1>1. Slotted(con, m) /\ Kept(x, {}) /\ Live(x) = stays
    BY DEF Orderly, Less
  <1>2. /\ Slotted(con2, m) /\ con2[c] = slot
        /\ OthersStay(con, con2, m, c)
    BY <1>1, OtherSlots
  <1>3. SlotKept(con2, x, m, c)
    BY <1>2 DEF SlotKept
  <1>4. ASSUME NEW u \in Live(x), x.timer[u].proc # "start", x.timer[u].client = c
        PROVE  TimerKept(con2, x, m, u, failed)
    <2>1. u \in stays /\ x.timer[u] = w.timer[u] /\ TimerKept(con, w, m, u, failed)
      BY <1>1 DEF Orderly, Less
    <2>2. w.timer[u].client = c /\ w.timer[u].proc # "start"
      BY <1>4, <2>1
    <2>3. x.timer[u].proc # "wakeup" /\ (x.timer[u].proc = "idle" => "socket" \in failed)
      BY <2>1, <2>2 DEF Frees
    <2> QED BY <1>4, <2>1, <2>2, <2>3 DEF TimerKept, Agree
  <1>5. Only(w, stays, c)
    BY DEF Only, Frees
  <1>6. Only(x, stays, c)
    BY <1>1 DEF Only
  <1>7. TimersOfSlot(con2, x, m, c, failed)
    BY <1>4 DEF TimersOfSlot
  <1> HIDE DEF stays
  <1>8. Stay(w, x, stays)
    BY DEF stays, Less
  <1> QED BY <1>1, <1>2, <1>3, <1>5, <1>6, <1>7, <1>8, SlotsStay

-----------------------------------------------------------------------------
(***************************************************************************)
(* The fetches.  Each that was started and is not completed has an idle    *)
(* timer; as long as nothing has failed on this side, it is a connection.  *)
(***************************************************************************)
Named(w, proc) == {t \in Live(w) : w.timer[t].proc = proc}

IdleTimers(w) == Named(w, "idle")

StartTimers(w) == Named(w, "start")

InUse(con, m) == {c \in SlotsOf(m) : con[c].state # "FREE"}

\* Without -parallel there is always a timer that will start the next fetch.
StartsGoOn(w, m) ==
    /\ m.start = "parallel" <=> StartTimers(w) = {}
    /\ m.start = "rate" => \A t \in StartTimers(w) : w.timer[t].periodic

Even(con, w, n, m, failed) ==
    /\ n.started = n.completed + Cardinality(IdleTimers(w))
    /\ failed = {} => n.current = Cardinality(InUse(con, m))
    /\ "write" \notin failed => n.current <= Cardinality(InUse(con, m))
    /\ StartsGoOn(w, m)

\* Nothing of it changes.
SameFetches(con, w, con2, x, m) ==
    IdleTimers(x) = IdleTimers(w) /\ InUse(con2, m) = InUse(con, m)

SameStarts(w, x) ==
    /\ StartTimers(x) = StartTimers(w)
    /\ \A t \in StartTimers(w) : x.timer[t].periodic = w.timer[t].periodic

EvenStays(con, w, con2, x, m) == SameFetches(con, w, con2, x, m) /\ SameStarts(w, x)

\* A state in which the connections, the timers and the counts fit.
Settled(s, m, failed) ==
    /\ Orderly(s.connections, s.timers, m, failed)
    /\ IsCount(s.counts)
    /\ Even(s.connections, s.timers, s.counts, m, failed)

LEMMA SettledStill ==
    ASSUME NEW s, NEW m, NEW failed, Settled(s, m, failed),
           NEW r, Orderly(r.connections, r.timers, m, failed), r.counts = s.counts,
           EvenStays(s.connections, s.timers, r.connections, r.timers, m)
    PROVE  Settled(r, m, failed)
  BY DEF Settled, Even, EvenStays, SameFetches, SameStarts, StartsGoOn

LEMMA SettledAnew ==
    ASSUME NEW s, NEW m, NEW failed, Settled(s, m, failed),
           NEW r, Orderly(r.connections, r.timers, m, failed), r.counts = s.counts,
           SameFetches(s.connections, s.timers, r.connections, r.timers, m),
           StartsGoOn(r.timers, m)
    PROVE  Settled(r, m, failed)
  BY DEF Settled, Even, SameFetches

LEMMA IdleIsFinite ==
    ASSUME NEW w, Kept(w, {})
    PROVE  /\ IsFiniteSet(IdleTimers(w)) /\ Cardinality(IdleTimers(w)) \in Nat
           /\ \A t \in IdleTimers(w) :
                  Cardinality(IdleTimers(w) \ {t}) = Cardinality(IdleTimers(w)) - 1
           /\ \A t : t \notin IdleTimers(w) =>
                  Cardinality(IdleTimers(w) \cup {t}) = Cardinality(IdleTimers(w)) + 1
  <1>1. Live(w) \subseteq Ids
    BY LiveIsListed DEF Kept
  <1>2. IsFiniteSet(Ids)
    BY CountTo, TimersAssumption DEF Ids
  <1>3. IdleTimers(w) \subseteq Ids
    BY <1>1 DEF IdleTimers, Named
  <1>4. IsFiniteSet(IdleTimers(w))
    BY <1>2, <1>3, FS_Subset
  <1> QED BY <1>4, FS_CardinalityType, FS_AddElement, FS_RemoveElement

LEMMA InUseIsFinite ==
    ASSUME NEW m, m.slots \in Nat, NEW con
    PROVE  /\ IsFiniteSet(InUse(con, m)) /\ Cardinality(InUse(con, m)) \in Nat
           /\ \A c \in InUse(con, m) :
                  Cardinality(InUse(con, m) \ {c}) = Cardinality(InUse(con, m)) - 1
           /\ \A c : c \notin InUse(con, m) =>
                  Cardinality(InUse(con, m) \cup {c}) = Cardinality(InUse(con, m)) + 1
  <1>1. IsFiniteSet(SlotsOf(m))
    BY CountTo DEF SlotsOf
  <1>2. InUse(con, m) \subseteq SlotsOf(m)
    BY DEF InUse
  <1>3. IsFiniteSet(InUse(con, m))
    BY <1>1, <1>2, FS_Subset
  <1> QED BY <1>3, FS_CardinalityType, FS_AddElement, FS_RemoveElement

LEMMA InUseWith ==
    ASSUME NEW con, NEW m, Slotted(con, m), NEW c \in SlotsOf(m),
           NEW slot, IsSlot(slot)
    PROVE  InUse(WithSlot(con, c, slot), m) = IF slot.state = "FREE" THEN InUse(con, m) \ {c}
                                              ELSE InUse(con, m) \cup {c}
  <1> DEFINE con2 == WithSlot(con, c, slot)
  <1>1. con2[c] = slot /\ \A d \in SlotsOf(m) \ {c} : con2[d] = con[d]
    BY OtherSlots DEF OthersStay
  <1> HIDE DEF con2
  <1>2. InUse(con2, m) = IF slot.state = "FREE" THEN InUse(con, m) \ {c}
                         ELSE InUse(con, m) \cup {c}
    BY <1>1 DEF InUse
  <1> QED BY <1>2 DEF con2

\* A change that leaves the idle timers.
LEMMA IdleStays ==
    ASSUME NEW w, NEW x, NEW stays, Stay(w, x, stays),
           \A t \in Live(w) \ stays : w.timer[t].proc # "idle",
           \A t \in Live(x) \ stays : x.timer[t].proc # "idle"
    PROVE  IdleTimers(x) = IdleTimers(w)
  BY DEF IdleTimers, Named, Stay, Agree

LEMMA NamedAgree ==
    ASSUME NEW w, NEW x, Live(x) = Live(w), \A t \in Live(w) : Agree(x.timer[t], w.timer[t])
    PROVE  IdleTimers(x) = IdleTimers(w) /\ SameStarts(w, x)
  BY DEF IdleTimers, SameStarts, StartTimers, Named, Agree

LEMMA NamedLess ==
    ASSUME NEW w, NEW x, NEW gone, Less(w, x, gone)
    PROVE  /\ IdleTimers(x) = IdleTimers(w) \ gone
           /\ StartTimers(x) = StartTimers(w) \ gone
           /\ gone \cap StartTimers(w) = {} => SameStarts(w, x)
           /\ \A t \in IdleTimers(x) : x.timer[t] = w.timer[t]
           /\ \A t \in StartTimers(x) : x.timer[t] = w.timer[t]
  BY DEF IdleTimers, SameStarts, StartTimers, Named, Less

LEMMA NamedMade ==
    ASSUME NEW w, Kept(w, {}), Unused(w) \in Ids,
           NEW proc \in {"start", "idle", "wakeup"}, NEW client \in Nat,
           NEW secs \in Nat, NEW x, x = MadeOnce(w, proc, client, secs)
    PROVE  /\ Unused(w) \notin IdleTimers(w)
           /\ IdleTimers(x) = IF proc = "idle" THEN IdleTimers(w) \cup {Unused(w)}
                              ELSE IdleTimers(w)
           /\ proc # "start" => SameStarts(w, x)
           /\ proc = "start" => StartTimers(x) = StartTimers(w) \cup {Unused(w)}
  <1> DEFINE t == Unused(w)
  <1>1. /\ t \notin Live(w) /\ Live(x) = Live(w) \cup {t}
        /\ x.timer[t].proc = proc
        /\ \A u \in Live(w) : x.timer[u] = w.timer[u]
    BY OnceCreated
  <1> HIDE DEF t
  <1>2. /\ t \notin IdleTimers(w)
        /\ IdleTimers(x) = IF proc = "idle" THEN IdleTimers(w) \cup {t} ELSE IdleTimers(w)
        /\ proc # "start" => SameStarts(w, x)
        /\ proc = "start" => StartTimers(x) = StartTimers(w) \cup {t}
    BY <1>1 DEF IdleTimers, SameStarts, StartTimers, Named
  <1> QED BY <1>2 DEF t

\* A connection is closed, or one that is closed loses its timer.
ClosedIn(con, w, con2, x, m, failed) ==
    /\ \E t \in IdleTimers(w) : IdleTimers(x) = IdleTimers(w) \ {t}
    /\ \E c : /\ InUse(con2, m) = InUse(con, m) \ {c}
              /\ failed = {} => c \in InUse(con, m)
    /\ SameStarts(w, x)

LEMMA ClosingIsEven ==
    ASSUME NEW con, NEW w, NEW n, NEW m, NEW failed, Even(con, w, n, m, failed),
           IsCount(n), Kept(w, {}), m.slots \in Nat,
           NEW con2, NEW x, ClosedIn(con, w, con2, x, m, failed)
    PROVE  Even(con2, x, Tally(n, -1, 0, 1), m, failed)
  <1>1. PICK t \in IdleTimers(w) : IdleTimers(x) = IdleTimers(w) \ {t}
    BY DEF ClosedIn
  <1>2. /\ Cardinality(IdleTimers(x)) = Cardinality(IdleTimers(w)) - 1
        /\ Cardinality(IdleTimers(w)) \in Nat
    BY <1>1, IdleIsFinite
  <1>3. /\ failed = {} => Cardinality(InUse(con2, m)) = Cardinality(InUse(con, m)) - 1
        /\ Cardinality(InUse(con2, m)) >= Cardinality(InUse(con, m)) - 1
        /\ Cardinality(InUse(con, m)) \in Nat /\ Cardinality(InUse(con2, m)) \in Nat
    <2>1. PICK c : /\ InUse(con2, m) = InUse(con, m) \ {c}
                   /\ failed = {} => c \in InUse(con, m)
      BY DEF ClosedIn
    <2>2. c \notin InUse(con, m) => InUse(con2, m) = InUse(con, m)
      BY <2>1
    <2>3. /\ c \in InUse(con, m)
                 => Cardinality(InUse(con2, m)) = Cardinality(InUse(con, m)) - 1
          /\ Cardinality(InUse(con, m)) \in Nat /\ Cardinality(InUse(con2, m)) \in Nat
      BY <2>1, InUseIsFinite
    <2> QED BY <2>1, <2>2, <2>3
  <1>4. StartsGoOn(x, m)
    BY DEF ClosedIn, Even, StartsGoOn, SameStarts
  <1> DEFINE sums == Tally(n, -1, 0, 1)
  <1>5. /\ sums.current = n.current - 1 /\ sums.started = n.started
        /\ sums.completed = n.completed + 1
    BY DEF Tally, IsCount
  <1> HIDE DEF sums
  <1>6. sums.started = sums.completed + Cardinality(IdleTimers(x))
    BY <1>2, <1>5 DEF Even, IsCount
  <1>7. /\ failed = {} => sums.current = Cardinality(InUse(con2, m))
        /\ "write" \notin failed => sums.current <= Cardinality(InUse(con2, m))
    <2>1. /\ failed = {} => n.current = Cardinality(InUse(con, m))
          /\ "write" \notin failed => n.current <= Cardinality(InUse(con, m))
          /\ n.current \in Int
      BY DEF Even, IsCount
    <2> QED BY <1>3, <1>5, <2>1
  <1> QED BY <1>4, <1>6, <1>7 DEF Even, sums

-----------------------------------------------------------------------------
(***************************************************************************)
(* What start_connection can come to.                                      *)
(***************************************************************************)
LEMMA SlotTwice ==
    ASSUME NEW con, NEW m, Slotted(con, m), NEW c \in SlotsOf(m), NEW a, NEW b
    PROVE  WithSlot(WithSlot(con, c, a), c, b) = WithSlot(con, c, b)
  <1>1. con = [d \in SlotsOf(m) |-> con[d]]
    BY DEF Slotted
  <1> QED BY <1>1 DEF WithSlot

Opened(t, state, n) ==
    [state |-> state, idle |-> t, wakeup |-> 0, response |-> n, read |-> 0,
     header |-> NoHeader]

LEMMA OpenedIsSlot ==
    ASSUME NEW t, NEW state, NEW n
    PROVE  /\ IsSlot(Opened(t, state, n)) /\ Opened(t, state, n).idle = t
           /\ Opened(t, state, n).wakeup = 0 /\ Opened(t, state, n).state = state
  BY DEF IsSlot, Opened

\* A state in which slot c was taken.
IsBegun(s, con, w, sums, c, slot) ==
    /\ IsLoad(s) /\ s.defined = TRUE
    /\ s.connections = WithSlot(con, c, slot)
    /\ s.timers = MadeOnce(w, "idle", c, IdleSecs)
    /\ s.counts = sums

LEMMA BegunIs ==
    ASSUME NEW s, IsLoad(s), s.defined = TRUE, NEW c
    PROVE  IsBegun(Begun(s, c), s.connections, s.timers, s.counts, c,
                   Opened(Unused(s.timers), "FREE", 0))
  <1> DEFINE r == Begun(s, c)
             x == MadeOnce(s.timers, "idle", c, IdleSecs)
             slot == Opened(Unused(s.timers), "FREE", 0)
  <1>1. IsWheel(x)
    BY CreatedGrows DEF IsLoad, MadeOnce
  <1>2. slot = [FreeSlot EXCEPT !.idle = Unused(s.timers)]
    BY DEF Opened, FreeSlot
  <1>3. r = [s EXCEPT !.connections[c] = slot, !.timers = x]
    BY <1>2, Zenon DEF Begun, MadeOnce
  <1> HIDE DEF slot, x, r
  <1>4. /\ r.connections = [s.connections EXCEPT ![c] = slot]
        /\ r.timers = x /\ r.defined = s.defined /\ r.counts = s.counts
        /\ r = [connections |-> r.connections, timers |-> r.timers,
                counts |-> r.counts, defined |-> r.defined]
    BY <1>3 DEF IsLoad
  <1>5. IsBegun(r, s.connections, s.timers, s.counts, c, slot)
    BY <1>1, <1>4 DEF IsBegun, IsLoad, WithSlot, x
  <1> QED BY <1>5 DEF r, slot

LEMMA ConnectingIs ==
    ASSUME NEW s, NEW con, NEW m, Slotted(con, m), NEW w, NEW sums, NEW c \in SlotsOf(m), NEW t,
           IsBegun(s, con, w, sums, c, Opened(t, "FREE", 0))
    PROVE  /\ IsBegun(Connecting(s, c), con, w, sums, c, Opened(t, "CONNECTING", 0))
           /\ \A r \in Requested(s, c) :
                  \E n : IsBegun(r, con, w, sums, c, Opened(t, "HEADERS", n))
  <1> DEFINE slot == Opened(t, "FREE", 0)
  <1>1. con = [d \in SlotsOf(m) |-> con[d]]
    BY DEF Slotted
  <1>2. /\ s.connections = WithSlot(con, c, slot)
        /\ s.connections[c] = slot
    BY <1>1 DEF IsBegun, WithSlot
  <1>3. IsBegun(Connecting(s, c), con, w, sums, c, Opened(t, "CONNECTING", 0))
    <2> DEFINE r == Connecting(s, c)
               new == Opened(t, "CONNECTING", 0)
    <2>1. r = [s EXCEPT !.connections[c] = [@ EXCEPT !.state = "CONNECTING"]]
      BY DEF Connecting
    <2>2. new = [slot EXCEPT !.state = "CONNECTING"]
      BY DEF Opened
    <2> HIDE DEF slot
    <2>3. /\ r.connections = [s.connections EXCEPT ![c] = [slot EXCEPT !.state = "CONNECTING"]]
          /\ r.timers = s.timers /\ r.defined = s.defined /\ r.counts = s.counts
          /\ IsLoad(r)
      BY <1>2, <2>1 DEF IsLoad, IsBegun
    <2> HIDE DEF r, new
    <2>4. r.connections = WithSlot(WithSlot(con, c, slot), c, new)
      BY <1>2, <2>2, <2>3 DEF WithSlot
    <2>5. r.connections = WithSlot(con, c, new)
      BY <2>4, SlotTwice
    <2>6. IsBegun(r, con, w, sums, c, new)
      BY <2>3, <2>5 DEF IsBegun
    <2> QED BY <2>6 DEF r, new
  <1>4. ASSUME NEW n
        PROVE  IsBegun([s EXCEPT !.connections[c].state = "HEADERS",
                                 !.connections[c].response = n],
                       con, w, sums, c, Opened(t, "HEADERS", n))
    <2> DEFINE r == [s EXCEPT !.connections[c].state = "HEADERS",
                              !.connections[c].response = n]
               new == Opened(t, "HEADERS", n)
               half == Opened(t, "HEADERS", 0)
               p == [s EXCEPT !.connections[c].state = "HEADERS"]
    <2>1. half = [slot EXCEPT !.state = "HEADERS"] /\ new = [half EXCEPT !.response = n]
      BY DEF Opened
    <2>2. r = [p EXCEPT !.connections[c].response = n]
      OBVIOUS
    <2> HIDE DEF slot, half, new, r
    <2>3. /\ p.connections = [s.connections EXCEPT ![c] = half]
          /\ p.timers = s.timers /\ p.defined = s.defined /\ p.counts = s.counts
          /\ IsLoad(p)
      BY <1>2, <2>1 DEF IsLoad, IsBegun
    <2> HIDE DEF p
    <2>4. p.connections = WithSlot(WithSlot(con, c, slot), c, half)
      BY <1>2, <2>3 DEF WithSlot
    <2>5. p.connections = WithSlot(con, c, half)
      BY <2>4, SlotTwice
    <2>6. p.connections[c] = half
      BY <1>1, <2>5 DEF WithSlot
    <2>7. /\ r.connections = [p.connections EXCEPT ![c] = new]
          /\ r.timers = p.timers /\ r.defined = p.defined /\ r.counts = p.counts
          /\ IsLoad(r)
      BY <2>1, <2>2, <2>3, <2>6 DEF IsLoad
    <2>8. r.connections = WithSlot(WithSlot(con, c, half), c, new)
      BY <2>5, <2>7 DEF WithSlot
    <2>9. r.connections = WithSlot(con, c, new)
      BY <2>8, SlotTwice
    <2>10. IsBegun(r, con, w, sums, c, new)
      BY <2>3, <2>7, <2>9 DEF IsBegun
    <2> QED BY <2>10 DEF r, new
  <1> QED BY <1>3, <1>4 DEF Requested

LEMMA CountedIs ==
    ASSUME NEW s, IsLoad(s), NEW c
    PROVE  LET r == Counted(s, c)
           IN  /\ IsLoad(r) /\ r.connections = s.connections
               /\ r.timers = s.timers /\ r.defined = s.defined
               /\ s.connections[c].state # "FREE" => r.counts = Tally(s.counts, 1, 1, 0)
               /\ s.connections[c].state = "FREE" => r.counts = Tally(s.counts, 0, 1, 0)
  <1> DEFINE p == [s EXCEPT !.counts.started = @ + 1]
             k == IF s.connections[c].state # "FREE" THEN 1 ELSE 0
             n == s.counts
             half == [current |-> n.current, started |-> n.started + 1,
                      completed |-> n.completed]
             r == Counted(s, c)
  <1>0. IsCount(n)
    BY DEF IsLoad
  <1>1. r = [p EXCEPT !.counts.current =
                IF s.connections[c].state # "FREE" THEN p.counts.current + 1
                ELSE p.counts.current]
    BY DEF Counted
  <1>2. p.counts = half
    <2>1. [n EXCEPT !.started = n.started + 1] = half
      <3> HIDE DEF n
      <3> QED BY <1>0 DEF IsCount
    <2> QED BY <2>1 DEF IsLoad
  <1>3. /\ p = [connections |-> p.connections, timers |-> p.timers,
                counts |-> p.counts, defined |-> p.defined]
        /\ p.connections = s.connections
        /\ p.timers = s.timers /\ p.defined = s.defined
    BY DEF IsLoad
  <1> HIDE DEF p, r
  <1>4. p.counts.current = n.current /\ n.current \in Int
    BY <1>0, <1>2 DEF IsCount
  <1>5. r = [p EXCEPT !.counts.current = n.current + k]
    BY <1>1, <1>4
  <1>6. k \in Int
    OBVIOUS
  <1>7. [half EXCEPT !.current = n.current + k] = Tally(n, k, 1, 0)
    <2> HIDE DEF n, k
    <2> QED BY <1>0, <1>6 DEF Tally, IsCount
  <1> HIDE DEF k
  <1>8. /\ r = [connections |-> r.connections, timers |-> r.timers,
                counts |-> r.counts, defined |-> r.defined]
        /\ r.connections = p.connections
        /\ r.timers = p.timers /\ r.defined = p.defined
        /\ r.counts = [p.counts EXCEPT !.current = n.current + k]
    BY <1>3, <1>5
  <1>9. r.counts = Tally(n, k, 1, 0)
    BY <1>2, <1>7, <1>8
  <1>10. IsCount(r.counts)
    BY <1>0, <1>6, <1>9, TallyIs
  <1>11. IsLoad(r)
    BY <1>3, <1>8, <1>10 DEF IsLoad
  <1> QED BY <1>3, <1>8, <1>9, <1>11 DEF r, k, n

\* The connection is there; or the slot stays free, and its timer stays or is
\* cancelled.
IsTaken(s, con, w, sums, c) ==
    \E state \in {"CONNECTING", "HEADERS"} : \E n :
        IsBegun(s, con, w, sums, c, Opened(Unused(w), state, n))

IsLeft(s, con, w, sums, c) == IsBegun(s, con, w, sums, c, Opened(Unused(w), "FREE", 0))

IsLost(s, con, w, sums, c) ==
    LET x == MadeOnce(w, "idle", c, IdleSecs)
    IN  /\ IsLoad(s)
        /\ s.connections = WithSlot(con, c, Opened(Unused(w), "FREE", 0))
        /\ s.timers.made = x.made /\ s.counts = sums
        /\ Unused(w) \in Live(x) => /\ s.timers = Without(x, Unused(w))
                                    /\ s.defined = TRUE

LEMMA CountedKeeps ==
    ASSUME NEW s, IsLoad(s), NEW con, NEW m, Slotted(con, m), NEW c \in SlotsOf(m),
           NEW w, NEW sums
    PROVE  /\ IsTaken(s, con, w, sums, c)
                  => IsTaken(Counted(s, c), con, w, Tally(sums, 1, 1, 0), c)
           /\ IsLeft(s, con, w, sums, c)
                  => IsLeft(Counted(s, c), con, w, Tally(sums, 0, 1, 0), c)
           /\ IsLost(s, con, w, sums, c)
                  => IsLost(Counted(s, c), con, w, Tally(sums, 0, 1, 0), c)
  <1> DEFINE r == Counted(s, c)
             more == Tally(sums, 1, 1, 0)
             less == Tally(sums, 0, 1, 0)
  <1>1. /\ IsLoad(r) /\ r.connections = s.connections
        /\ r.timers = s.timers /\ r.defined = s.defined
    BY CountedIs
  <1>2. /\ s.connections[c].state # "FREE" => r.counts = Tally(s.counts, 1, 1, 0)
        /\ s.connections[c].state = "FREE" => r.counts = Tally(s.counts, 0, 1, 0)
    BY CountedIs
  <1>3. \A slot : s.connections = WithSlot(con, c, slot) => s.connections[c] = slot
    BY DEF WithSlot, Slotted
  <1>4. ASSUME NEW t, NEW state, NEW n, IsBegun(s, con, w, sums, c, Opened(t, state, n))
        PROVE  IsBegun(r, con, w, IF state = "FREE" THEN less ELSE more, c,
                       Opened(t, state, n))
    <2> DEFINE slot == Opened(t, state, n)
    <2>1. slot.state = state
      BY OpenedIsSlot
    <2> HIDE DEF slot
    <2>2. /\ s.connections[c] = slot /\ s.counts = sums
      BY <1>3, <1>4 DEF IsBegun, slot
    <2>3. r.counts = IF state = "FREE" THEN less ELSE more
      BY <1>2, <2>1, <2>2
    <2> HIDE DEF r
    <2> QED BY <1>1, <1>4, <2>3 DEF IsBegun
  <1>5. ASSUME IsTaken(s, con, w, sums, c) PROVE IsTaken(r, con, w, more, c)
    <2>1. PICK state \in {"CONNECTING", "HEADERS"} :
              \E n : IsBegun(s, con, w, sums, c, Opened(Unused(w), state, n))
      BY <1>5 DEF IsTaken
    <2>2. PICK n : IsBegun(s, con, w, sums, c, Opened(Unused(w), state, n))
      BY <2>1
    <2>3. state # "FREE"
      OBVIOUS
    <2> HIDE DEF r, more
    <2>4. IsBegun(r, con, w, more, c, Opened(Unused(w), state, n))
      BY <1>4, <2>2, <2>3
    <2> QED BY <2>4 DEF IsTaken
  <1>6. ASSUME IsLeft(s, con, w, sums, c) PROVE IsLeft(r, con, w, less, c)
    BY <1>4, <1>6 DEF IsLeft
  <1>7. ASSUME IsLost(s, con, w, sums, c) PROVE IsLost(r, con, w, less, c)
    <2> DEFINE slot == Opened(Unused(w), "FREE", 0)
    <2>1. slot.state = "FREE"
      BY OpenedIsSlot
    <2>2. s.connections[c] = slot /\ s.counts = sums
      BY <1>3, <1>7 DEF IsLost
    <2> HIDE DEF slot, r
    <2>3. r.counts = less
      BY <1>2, <2>1, <2>2 DEF r
    <2> HIDE DEF less
    <2> QED BY <1>1, <1>7, <2>3 DEF IsLost
  <1> QED BY <1>5, <1>6, <1>7

LEMMA LostIs ==
    ASSUME NEW s, NEW con, NEW m, Slotted(con, m), NEW w, NEW sums,
           NEW c \in SlotsOf(m), IsLeft(s, con, w, sums, c)
    PROVE  IsLost(CloseConnection(s, c), con, w, Tally(sums, -1, 0, 1), c)
  <1> DEFINE t == Unused(w)
             slot == Opened(t, "FREE", 0)
             x == MadeOnce(w, "idle", c, IdleSecs)
             r == CloseConnection(s, c)
  <1>1. /\ IsLoad(s) /\ s.defined = TRUE
        /\ s.connections = WithSlot(con, c, slot) /\ s.timers = x
        /\ s.counts = sums
    BY DEF IsLeft, IsBegun
  <1>2. s.connections[c] = slot
    BY <1>1 DEF WithSlot, Slotted
  <1>3. slot.idle = t /\ slot.wakeup = 0 /\ Closed(slot) = slot
    <2>1. slot = [state |-> "FREE", idle |-> t, wakeup |-> 0, response |-> 0,
                  read |-> 0, header |-> NoHeader]
      BY DEF Opened
    <2> HIDE DEF slot
    <2>2. slot.idle = t /\ slot.wakeup = 0
      BY <2>1
    <2> QED BY <2>1, <2>2, ClosedIsFree
  <1> HIDE DEF slot, x, t, r
  <1>4. /\ IsLoad(r) /\ r.counts = Tally(sums, -1, 0, 1)
        /\ r.connections = WithSlot(s.connections, c, Closed(s.connections[c]))
        /\ r.timers.made = s.timers.made
        /\ IsPointer(x, t) => r.timers = Without(x, t) /\ r.defined = s.defined
    <2>1. IsLoad(s) /\ s.timers = x /\ s.connections[c].idle = t
          /\ s.connections[c].wakeup = 0
      BY <1>1, <1>2, <1>3
    <2>2. /\ IsLoad(r)
          /\ r.connections = WithSlot(s.connections, c, Closed(s.connections[c]))
          /\ r.timers.made = s.timers.made
      BY <2>1, ClosedIs DEF r
    <2>7. r.counts = Tally(sums, -1, 0, 1)
      BY <1>1, <2>1, ClosedIs DEF r
    <2> DEFINE k == s.connections[c].wakeup
    <2>3. IsPointer(x, t) /\ IsPointer(Without(x, t), k)
              => r.timers = Without(Without(x, t), k) /\ r.defined = s.defined
      BY <2>1, ClosedIs DEF r
    <2>4. k = 0 /\ IsPointer(Without(x, t), k)
      BY <2>1 DEF IsPointer
    <2> HIDE DEF k
    <2>5. IsPointer(x, t) => r.timers = Without(Without(x, t), k) /\ r.defined = s.defined
      BY <2>3, <2>4
    <2>6. Without(Without(x, t), k) = Without(x, t)
      BY <2>4 DEF Without
    <2> QED BY <2>2, <2>5, <2>6, <2>7
  <1>5. r.connections = WithSlot(WithSlot(con, c, slot), c, slot)
    BY <1>1, <1>2, <1>3, <1>4
  <1>6. r.connections = WithSlot(con, c, slot)
    BY <1>5, SlotTwice
  <1>7. t \in Live(x) => r.timers = Without(x, t) /\ r.defined = TRUE
    BY <1>1, <1>4 DEF IsPointer
  <1> QED BY <1>1, <1>4, <1>6, <1>7 DEF IsLost, slot, x, t, r

LEMMA StartsIs ==
    ASSUME mode \in Modes, IsWheel(timers), IsCount(counts), Slotted(connections, mode),
           NEW c \in SlotsOf(mode), NEW start \in Starts(c)
    PROVE  \/ /\ start.slips = slips
              /\ IsTaken(start.load, connections, timers, Tally(counts, 1, 1, 0), c)
           \/ /\ slips = {} /\ "socket" \in mode.failures /\ start.slips = {"socket"}
              /\ IsLeft(start.load, connections, timers, Tally(counts, 0, 1, 0), c)
           \/ /\ slips = {} /\ "write" \in mode.failures /\ start.slips = {"write"}
              /\ IsLost(start.load, connections, timers,
                        Tally(Tally(counts, -1, 0, 1), 0, 1, 0), c)
  <1> DEFINE begun == Begun(load, c)
             t == Unused(timers)
             bad == [socket |-> begun, write |-> CloseConnection(begun, c)]
             good == {Connecting(begun, c)} \cup Requested(begun, c)
  <1>1. /\ IsLoad(load) /\ load.defined = TRUE
        /\ load.connections = connections /\ load.timers = timers
        /\ load.counts = counts
    BY DEF IsLoad, load
  <1>2. IsBegun(begun, connections, timers, counts, c, Opened(t, "FREE", 0))
    BY <1>1, BegunIs
  <1> HIDE DEF begun
  <1>3. ASSUME NEW s \in good PROVE IsTaken(s, connections, timers, counts, c) /\ IsLoad(s)
    <2>1. CASE s = Connecting(begun, c)
      <3>1. IsBegun(s, connections, timers, counts, c, Opened(t, "CONNECTING", 0))
        BY <1>2, <2>1, ConnectingIs
      <3> QED BY <3>1 DEF IsTaken, IsBegun
    <2>2. CASE s \in Requested(begun, c)
      <3>1. PICK n : IsBegun(s, connections, timers, counts, c, Opened(t, "HEADERS", n))
        BY <1>2, <2>2, ConnectingIs
      <3> QED BY <3>1 DEF IsTaken, IsBegun
    <2> QED BY <2>1, <2>2
  <1>4. IsLeft(begun, connections, timers, counts, c) /\ IsLoad(begun)
    BY <1>2 DEF IsLeft, IsBegun
  <1>5. /\ IsLost(CloseConnection(begun, c), connections, timers,
               Tally(counts, -1, 0, 1), c)
        /\ IsLoad(CloseConnection(begun, c))
    <2>1. IsLost(CloseConnection(begun, c), connections, timers,
               Tally(counts, -1, 0, 1), c)
      BY <1>4, LostIs
    <2> QED BY <2>1 DEF IsLost
  <1>6. mode.failures \subseteq {"socket", "write"}
    BY LoadAssumption
  <1>7. \/ \E s \in good : start = [load |-> Counted(s, c), slips |-> slips]
        \/ /\ slips = {}
           /\ \E f \in mode.failures : start = [load |-> Counted(bad[f], c), slips |-> {f}]
    BY DEF Starts, begun
  <1> HIDE DEF good
  <1>8. CASE \E s \in good : start = [load |-> Counted(s, c), slips |-> slips]
    BY <1>3, <1>8, CountedKeeps
  <1>9. CASE /\ slips = {} /\ "socket" \in mode.failures
             /\ start = [load |-> Counted(begun, c), slips |-> {"socket"}]
    BY <1>4, <1>9, CountedKeeps
  <1>10. CASE /\ slips = {} /\ "write" \in mode.failures
              /\ start = [load |-> Counted(CloseConnection(begun, c), c), slips |-> {"write"}]
    BY <1>5, <1>10, CountedKeeps
  <1>11. bad["socket"] = begun /\ bad["write"] = CloseConnection(begun, c)
    OBVIOUS
  <1> QED BY <1>6, <1>7, <1>8, <1>9, <1>10, <1>11

LEMMA OrderlyStill ==
    ASSUME NEW con, NEW w, NEW m, NEW failed, NEW failed2,
           Orderly(con, w, m, failed), failed \subseteq failed2
    PROVE  Orderly(con, w, m, failed2)
  BY DEF Orderly, TimerKept

LEMMA FreeIsUntimed ==
    ASSUME NEW con, NEW w, NEW m, NEW failed, Orderly(con, w, m, failed),
           NEW c, con[c].state = "FREE", NEW t \in Live(w), w.timer[t].client = c
    PROVE  w.timer[t].proc # "wakeup" /\ (w.timer[t].proc = "idle" => "socket" \in failed)
  BY DEF Orderly, TimerKept

LEMMA TakenKeeps ==
    ASSUME NEW con, NEW w, NEW m, NEW failed, Orderly(con, w, m, failed), m.slots \in Nat,
           NEW c \in SlotsOf(m), con[c].state = "FREE", Unused(w) \in Ids,
           NEW s, NEW sums, IsTaken(s, con, w, sums, c)
    PROVE  /\ s.defined = TRUE
           /\ Orderly(s.connections, s.timers, m, failed)
           /\ Stay(w, s.timers, Live(w))
  <1>0. PICK state \in {"CONNECTING", "HEADERS"} :
            \E n : IsBegun(s, con, w, sums, c, Opened(Unused(w), state, n))
    BY DEF IsTaken
  <1>1. PICK n : IsBegun(s, con, w, sums, c, Opened(Unused(w), state, n))
    BY <1>0
  <1> DEFINE slot == Opened(Unused(w), state, n)
  <1>2. /\ IsSlot(slot) /\ slot.idle = Unused(w) /\ slot.wakeup = 0 /\ slot.state = state
    BY OpenedIsSlot
  <1>3. /\ s.defined = TRUE /\ s.connections = WithSlot(con, c, slot)
        /\ s.timers = MadeOnce(w, "idle", c, IdleSecs)
    BY <1>1 DEF IsBegun
  <1> HIDE DEF slot
  <1>4. state \in {"FREE", "CONNECTING", "HEADERS"} /\ state # "FREE"
    OBVIOUS
  <1>5. failed \subseteq failed
    OBVIOUS
  <1>6. Orderly(s.connections, s.timers, m, failed)
    BY <1>2, <1>3, <1>4, <1>5, OpenedKeeps
  <1>7. Kept(w, {}) /\ c \in Nat /\ IdleSecs \in Nat
    BY LoadAssumption DEF Orderly, SlotsOf
  <1>8. Stay(w, s.timers, Live(w))
    BY <1>3, <1>7, OnceCreated
  <1> QED BY <1>3, <1>6, <1>8

LEMMA LeftKeeps ==
    ASSUME NEW con, NEW w, NEW m, NEW failed, Orderly(con, w, m, failed), m.slots \in Nat,
           NEW c \in SlotsOf(m), con[c].state = "FREE", Unused(w) \in Ids,
           NEW s, NEW sums, IsLeft(s, con, w, sums, c), failed = {}
    PROVE  /\ s.defined = TRUE
           /\ Orderly(s.connections, s.timers, m, {"socket"})
           /\ Stay(w, s.timers, Live(w))
  <1> DEFINE slot == Opened(Unused(w), "FREE", 0)
             failed2 == {"socket"}
  <1>2. /\ IsSlot(slot) /\ slot.idle = Unused(w) /\ slot.wakeup = 0 /\ slot.state = "FREE"
    BY OpenedIsSlot
  <1>3. /\ s.defined = TRUE /\ s.connections = WithSlot(con, c, slot)
        /\ s.timers = MadeOnce(w, "idle", c, IdleSecs)
    BY DEF IsLeft, IsBegun
  <1> HIDE DEF slot
  <1>4. failed \subseteq failed2 /\ "socket" \in failed2
    OBVIOUS
  <1> HIDE DEF failed2
  <1>6. Orderly(s.connections, s.timers, m, failed2)
    BY <1>2, <1>3, <1>4, OpenedKeeps
  <1>7. Kept(w, {}) /\ c \in Nat /\ IdleSecs \in Nat
    BY LoadAssumption DEF Orderly, SlotsOf
  <1>8. Stay(w, s.timers, Live(w))
    BY <1>3, <1>7, OnceCreated
  <1> QED BY <1>3, <1>6, <1>8 DEF failed2

LEMMA LostKeeps ==
    ASSUME NEW con, NEW w, NEW m, NEW failed, Orderly(con, w, m, failed), m.slots \in Nat,
           NEW c \in SlotsOf(m), con[c].state = "FREE", Unused(w) \in Ids,
           NEW s, NEW sums, IsLost(s, con, w, sums, c)
    PROVE  /\ s.defined = TRUE
           /\ Orderly(s.connections, s.timers, m, failed)
           /\ Stay(w, s.timers, Live(w))
  <1> DEFINE slot == Opened(Unused(w), "FREE", 0)
             t == Unused(w)
             x == MadeOnce(w, "idle", c, IdleSecs)
             y == Without(x, t)
             gone == {}
  <1>1. Kept(w, {}) /\ c \in Nat /\ IdleSecs \in Nat
    BY LoadAssumption DEF Orderly, SlotsOf
  <1>2. /\ Kept(x, {}) /\ t \notin Live(w) /\ Live(x) = Live(w) \cup {t}
        /\ Stay(w, x, Live(w))
    BY <1>1, OnceCreated
  <1>3. /\ IsSlot(slot) /\ slot.wakeup = 0 /\ slot.state = "FREE"
    BY OpenedIsSlot
  <1>4. s.defined = TRUE /\ s.connections = WithSlot(con, c, slot) /\ s.timers = y
    BY <1>2 DEF IsLost
  <1> HIDE DEF slot, x, t
  <1>5. Less(x, y, {t})
    <2>1. IsPointer(x, t)
      BY <1>2 DEF IsPointer
    <2> QED BY <1>2, <2>1, WithoutKeeps
  <1> HIDE DEF y
  <1>6. Live(x) \ {t} = Live(w) /\ Live(w) \subseteq Live(w) /\ Live(w) \ gone = Live(w)
    BY <1>2
  <1>7. Stay(w, y, Live(w))
    BY <1>2, <1>5, <1>6, StayOn DEF Less
  <1>8. \A u \in Live(w) : x.timer[u] = w.timer[u]
    BY <1>1, OnceCreated DEF x
  <1>9. Frees(w, gone, c, failed)
    BY FreeIsUntimed DEF Frees
  <1> HIDE DEF gone
  <1>10. Less(w, y, gone)
    BY <1>5, <1>6, <1>7, <1>8 DEF Less
  <1>11. m.throttle \/ slot.wakeup = 0
    BY <1>3
  <1>12. Orderly(s.connections, y, m, failed)
    BY <1>3, <1>4, <1>9, <1>10, <1>11, FreedKeeps
  <1> QED BY <1>4, <1>7, <1>12

LEMMA OnceMakes ==
    ASSUME NEW w \in Wheels, NEW proc, NEW client, NEW secs,
           MadeOnce(w, proc, client, secs).made <= MaxTimers
    PROVE  Unused(w) \in Ids
  <1>1. PICK p : p = FALSE
    OBVIOUS
  <1>2. MadeOnce(w, proc, client, secs) = Created(w, proc, client, secs, p)
    BY <1>1, Zenon DEF MadeOnce
  <1> QED BY <1>2, CreatedMakes

\* A fetch is started.
LEMMA TakenIsEven ==
    ASSUME NEW con, NEW w, NEW m, NEW failed, Orderly(con, w, m, failed), m.slots \in Nat,
           NEW n, IsCount(n), Even(con, w, n, m, failed),
           NEW c \in SlotsOf(m), con[c].state = "FREE", Unused(w) \in Ids,
           NEW s, IsTaken(s, con, w, Tally(n, 1, 1, 0), c)
    PROVE  Even(s.connections, s.timers, s.counts, m, failed)
  <1>0. PICK state \in {"CONNECTING", "HEADERS"} :
            \E r : IsBegun(s, con, w, Tally(n, 1, 1, 0), c, Opened(Unused(w), state, r))
    BY DEF IsTaken
  <1>1. PICK r : IsBegun(s, con, w, Tally(n, 1, 1, 0), c, Opened(Unused(w), state, r))
    BY <1>0
  <1> DEFINE slot == Opened(Unused(w), state, r)
  <1>2. IsSlot(slot) /\ slot.state # "FREE"
    BY OpenedIsSlot
  <1>3. /\ s.connections = WithSlot(con, c, slot)
        /\ s.timers = MadeOnce(w, "idle", c, IdleSecs) /\ s.counts = Tally(n, 1, 1, 0)
    BY <1>1 DEF IsBegun
  <1> HIDE DEF slot
  <1>4. /\ Kept(w, {}) /\ Slotted(con, m) /\ c \in Nat /\ IdleSecs \in Nat
    BY LoadAssumption DEF Orderly, SlotsOf
  <1>5. /\ Unused(w) \notin IdleTimers(w)
        /\ IdleTimers(s.timers) = IdleTimers(w) \cup {Unused(w)}
        /\ SameStarts(w, s.timers)
    BY <1>3, <1>4, NamedMade
  <1>6. /\ c \notin InUse(con, m)
        /\ InUse(s.connections, m) = InUse(con, m) \cup {c}
    BY <1>2, <1>3, <1>4, InUseWith DEF InUse
  <1>7. /\ Cardinality(IdleTimers(s.timers)) = Cardinality(IdleTimers(w)) + 1
        /\ Cardinality(IdleTimers(w)) \in Nat
    BY <1>4, <1>5, IdleIsFinite
  <1>8. /\ Cardinality(InUse(s.connections, m)) = Cardinality(InUse(con, m)) + 1
        /\ Cardinality(InUse(con, m)) \in Nat
    BY <1>6, InUseIsFinite
  <1>9. StartsGoOn(s.timers, m)
    BY <1>5 DEF Even, StartsGoOn, SameStarts
  <1> QED BY <1>3, <1>5, <1>7, <1>8, <1>9 DEF Even, Tally, IsCount

LEMMA LeftIsEven ==
    ASSUME NEW con, NEW w, NEW m, NEW failed, Orderly(con, w, m, failed),
           NEW n, IsCount(n), Even(con, w, n, m, failed),
           NEW c \in SlotsOf(m), con[c].state = "FREE", Unused(w) \in Ids,
           failed = {}, NEW s, IsLeft(s, con, w, Tally(n, 0, 1, 0), c),
           NEW failed2, failed2 # {}
    PROVE  Even(s.connections, s.timers, s.counts, m, failed2)
  <1> DEFINE slot == Opened(Unused(w), "FREE", 0)
  <1>0. IsSlot(slot) /\ slot.state = "FREE"
    BY OpenedIsSlot
  <1>1. /\ s.timers = MadeOnce(w, "idle", c, IdleSecs) /\ s.counts = Tally(n, 0, 1, 0)
        /\ s.connections = WithSlot(con, c, slot)
    BY DEF IsLeft, IsBegun
  <1> HIDE DEF slot
  <1>2. Kept(w, {}) /\ Slotted(con, m) /\ c \in Nat /\ IdleSecs \in Nat
    BY LoadAssumption DEF Orderly, SlotsOf
  <1>3. /\ Unused(w) \notin IdleTimers(w)
        /\ IdleTimers(s.timers) = IdleTimers(w) \cup {Unused(w)}
        /\ SameStarts(w, s.timers)
    BY <1>1, <1>2, NamedMade
  <1>4. /\ Cardinality(IdleTimers(s.timers)) = Cardinality(IdleTimers(w)) + 1
        /\ Cardinality(IdleTimers(w)) \in Nat
    BY <1>2, <1>3, IdleIsFinite
  <1>5. InUse(s.connections, m) = InUse(con, m)
    BY <1>0, <1>1, <1>2, InUseWith DEF InUse
  <1>6. StartsGoOn(s.timers, m)
    BY <1>3 DEF Even, StartsGoOn, SameStarts
  <1>7. n.current <= Cardinality(InUse(con, m))
    BY DEF Even
  <1>8. /\ s.counts.current = n.current /\ s.counts.started = n.started + 1
        /\ s.counts.completed = n.completed
    BY <1>1 DEF Tally, IsCount
  <1>9. s.counts.started = s.counts.completed + Cardinality(IdleTimers(s.timers))
    BY <1>4, <1>8 DEF Even, IsCount
  <1> QED BY <1>5, <1>6, <1>7, <1>8, <1>9 DEF Even

LEMMA LostIsEven ==
    ASSUME NEW con, NEW w, NEW m, NEW failed, Orderly(con, w, m, failed),
           NEW n, IsCount(n), Even(con, w, n, m, failed),
           NEW c \in SlotsOf(m), Unused(w) \in Ids,
           NEW s, IsLost(s, con, w, Tally(Tally(n, -1, 0, 1), 0, 1, 0), c),
           NEW failed2, "write" \in failed2
    PROVE  Even(s.connections, s.timers, s.counts, m, failed2)
  <1> DEFINE t == Unused(w)
             x == MadeOnce(w, "idle", c, IdleSecs)
  <1>1. Kept(w, {}) /\ c \in Nat /\ IdleSecs \in Nat
    BY LoadAssumption DEF Orderly, SlotsOf
  <1>2. Kept(x, {}) /\ t \in Live(x)
    <2>1. x = MadeOnce(w, "idle", c, IdleSecs) /\ Unused(w) = t
      OBVIOUS
    <2> HIDE DEF x, t
    <2>2. Kept(x, {}) /\ Live(x) = Live(w) \cup {t}
      BY <1>1, <2>1, OnceCreated
    <2> QED BY <2>2
  <1>3. /\ t \notin IdleTimers(w) /\ IdleTimers(x) = IdleTimers(w) \cup {t}
        /\ SameStarts(w, x)
    BY <1>1, NamedMade
  <1>4. s.timers = Without(x, t) /\ s.counts = Tally(Tally(n, -1, 0, 1), 0, 1, 0)
    BY <1>2 DEF IsLost
  <1> HIDE DEF t, x
  <1>5. Less(x, Without(x, t), {t})
    <2>1. IsPointer(x, t)
      BY <1>2 DEF IsPointer
    <2> QED BY <1>2, <2>1, WithoutKeeps
  <1>6. IdleTimers(s.timers) = IdleTimers(w) /\ SameStarts(x, s.timers)
    <2>1. t \notin StartTimers(x)
      BY <1>3 DEF IdleTimers, StartTimers, Named
    <2>2. IdleTimers(Without(x, t)) = IdleTimers(x) \ {t} /\ SameStarts(x, Without(x, t))
      BY <1>5, <2>1, NamedLess
    <2> QED BY <1>3, <1>4, <2>2
  <1>7. Cardinality(IdleTimers(w)) \in Nat
    BY <1>1, IdleIsFinite
  <1>8. StartsGoOn(s.timers, m)
    BY <1>3, <1>6 DEF Even, StartsGoOn, SameStarts
  <1> QED BY <1>4, <1>6, <1>7, <1>8 DEF Even, Tally, IsCount

\* What start_connection leaves is in order, unless the bound is passed.
SlipsGo(failed, failed2) ==
    \/ failed2 = failed
    \/ failed = {} /\ \E f \in mode.failures : failed2 = {f}

LEMMA StartsSlip ==
    ASSUME NEW c, NEW start \in Starts(c) PROVE SlipsGo(slips, start.slips)
  <1> DEFINE begun == Begun(load, c)
             bad == [socket |-> begun, write |-> CloseConnection(begun, c)]
             good == {Connecting(begun, c)} \cup Requested(begun, c)
  <1>1. \/ \E s \in good : start = [load |-> Counted(s, c), slips |-> slips]
        \/ /\ slips = {}
           /\ \E f \in mode.failures : start = [load |-> Counted(bad[f], c), slips |-> {f}]
    BY DEF Starts
  <1> HIDE DEF good, bad
  <1> QED BY <1>1 DEF SlipsGo

\* The timer of the latest fetch has all its time left.
Watched(w) == \E t \in IdleTimers(w) : w.timer[t].left = IdleSecs

LEMMA BegunIsWatched ==
    ASSUME NEW w, Kept(w, {}), Unused(w) \in Ids, NEW m, m.slots \in Nat,
           NEW c \in SlotsOf(m), NEW s, NEW con, NEW sums, NEW slot,
           IsBegun(s, con, w, sums, c, slot)
    PROVE  Watched(s.timers)
  <1> DEFINE t == Unused(w)
             x == MadeOnce(w, "idle", c, IdleSecs)
  <1>1. c \in Nat /\ IdleSecs \in Nat
    BY LoadAssumption DEF SlotsOf
  <1>2. /\ Live(x) = Live(w) \cup {t}
        /\ x.timer[t].proc = "idle" /\ x.timer[t].left = IdleSecs
    BY <1>1, OnceCreated
  <1>3. s.timers = x
    BY DEF IsBegun
  <1> HIDE DEF x, t
  <1> QED BY <1>2, <1>3 DEF Watched, IdleTimers, Named

LEMMA StartsKeep ==
    ASSUME mode \in Modes, Orderly(connections, timers, mode, slips),
           IsCount(counts), Even(connections, timers, counts, mode, slips),
           NEW c \in SlotsOf(mode), connections[c].state = "FREE",
           NEW start \in Starts(c)
    PROVE  /\ IsLoad(start.load)
           /\ SlipsGo(slips, start.slips)
           /\ start.load.timers.made <= MaxTimers =>
                  /\ start.load.defined = TRUE
                  /\ Settled(start.load, mode, start.slips)
                  /\ Stay(timers, start.load.timers, Live(timers))
                  /\ "write" \notin start.slips => Watched(start.load.timers)
  <1> DEFINE s == start.load
             taken == Tally(counts, 1, 1, 0)
             left == Tally(counts, 0, 1, 0)
             lost == Tally(Tally(counts, -1, 0, 1), 0, 1, 0)
  <1>1. Kept(timers, {}) /\ Slotted(connections, mode) /\ timers \in Wheels
    BY DEF Orderly, Kept
  <1>2. IsWheel(timers)
    BY <1>1, WheelsAreWheels
  <1>3. mode.slots \in Nat
    BY LoadAssumption
  <1>4. \/ start.slips = slips /\ IsTaken(s, connections, timers, taken, c)
        \/ /\ slips = {} /\ "socket" \in mode.failures /\ start.slips = {"socket"}
           /\ IsLeft(s, connections, timers, left, c)
        \/ /\ slips = {} /\ "write" \in mode.failures /\ start.slips = {"write"}
           /\ IsLost(s, connections, timers, lost, c)
    BY <1>1, <1>2, StartsIs
  <1> HIDE DEF s
  <1>5. SlipsGo(slips, start.slips)
    BY <1>4 DEF SlipsGo
  <1>6. IsLoad(s) /\ s.timers.made = MadeOnce(timers, "idle", c, IdleSecs).made
    BY <1>4 DEF IsTaken, IsLeft, IsLost, IsBegun
  <1>7. ASSUME s.timers.made <= MaxTimers
        PROVE  /\ s.defined = TRUE
               /\ Settled(s, mode, start.slips)
               /\ Stay(timers, s.timers, Live(timers))
               /\ "write" \notin start.slips => Watched(s.timers)
    <2>0. IsCount(s.counts)
      BY <1>6 DEF IsLoad
    <2>1. Unused(timers) \in Ids
      BY <1>1, <1>6, <1>7, OnceMakes
    <2>2. CASE start.slips = slips /\ IsTaken(s, connections, timers, taken, c)
      <3> HIDE DEF taken
      <3>1. /\ s.defined = TRUE
            /\ Orderly(s.connections, s.timers, mode, slips)
            /\ Stay(timers, s.timers, Live(timers))
        BY <1>3, <2>1, <2>2, TakenKeeps
      <3>2. Even(s.connections, s.timers, s.counts, mode, slips)
        BY <1>3, <2>1, <2>2, TakenIsEven DEF taken
      <3>3. Watched(s.timers)
        <4>1. PICK state, n : IsBegun(s, connections, timers, taken, c,
                                      Opened(Unused(timers), state, n))
          BY <2>2 DEF IsTaken
        <4> QED BY <1>1, <1>3, <2>1, <4>1, BegunIsWatched
      <3> QED BY <2>0, <2>2, <3>1, <3>2, <3>3 DEF Settled
    <2>3. CASE slips = {} /\ start.slips = {"socket"} /\ IsLeft(s, connections, timers, left, c)
      <3>1. slips = {} /\ IsLeft(s, connections, timers, left, c) /\ start.slips = {"socket"}
        BY <2>3
      <3>2. /\ s.defined = TRUE
            /\ Orderly(s.connections, s.timers, mode, {"socket"})
            /\ Stay(timers, s.timers, Live(timers))
        BY <1>3, <2>1, <3>1, LeftKeeps
      <3>3. start.slips # {}
        BY <3>1
      <3>4. Even(s.connections, s.timers, s.counts, mode, start.slips)
        BY <1>3, <2>1, <3>1, <3>3, LeftIsEven DEF left
      <3>5. Watched(s.timers)
        BY <1>1, <1>3, <2>1, <2>3, BegunIsWatched DEF IsLeft
      <3> QED BY <2>0, <3>1, <3>2, <3>4, <3>5 DEF Settled
    <2>4. CASE slips = {} /\ start.slips = {"write"} /\ IsLost(s, connections, timers, lost, c)
      <3>1. /\ s.defined = TRUE
            /\ Orderly(s.connections, s.timers, mode, slips)
            /\ Stay(timers, s.timers, Live(timers))
        <4> HIDE DEF lost
        <4> QED BY <1>3, <2>1, <2>4, LostKeeps
      <3>2. slips \subseteq start.slips
        BY <2>4
      <3>3. "write" \in start.slips /\ IsLost(s, connections, timers, lost, c)
        BY <2>4
      <3>4. Even(s.connections, s.timers, s.counts, mode, start.slips)
        BY <1>3, <2>1, <3>3, LostIsEven DEF lost
      <3>5. Orderly(s.connections, s.timers, mode, start.slips)
        BY <3>1, <3>2, OrderlyStill
      <3> QED BY <2>0, <3>1, <3>3, <3>4, <3>5 DEF Settled
    <2> QED BY <1>4, <2>2, <2>3, <2>4
  <1> QED BY <1>5, <1>6, <1>7 DEF s

-----------------------------------------------------------------------------
(***************************************************************************)
(* What becomes of a connection in use.                                    *)
(***************************************************************************)
LEMMA ResetKeeps ==
    ASSUME NEW w, Kept(w, {}), NEW t \in Live(w), NEW x, x = Reset(w, t)
    PROVE  /\ Kept(x, {}) /\ Live(x) = Live(w)
           /\ Stay(w, x, Live(w) \ {t})
           /\ Agree(x.timer[t], w.timer[t]) /\ x.timer[t].left = w.timer[t].secs
  <1> DEFINE v == w.timer[t].secs
  <1>1. v \in Int
    <2>1. w \in Wheels /\ t \in Ids
      BY LiveIsListed DEF Kept
    <2> QED BY <2>1, WheelTypes
  <1>2. x = Resorted([w EXCEPT !.timer[t].left = v], t)
    BY DEF Reset
  <1> HIDE DEF v
  <1>3. /\ Kept(x, {}) /\ Live(x) = Live(w)
        /\ Agree(x.timer[t], w.timer[t]) /\ x.timer[t].left = v
    BY <1>1, <1>2, ResortedKeeps
  <1>4. Stay(w, x, Live(w) \ {t})
    BY <1>1, <1>2, ResortedStay
  <1> QED BY <1>3, <1>4 DEF v

Runs(slot) == slot.state \notin {"FREE", "PAUSING"}

LEMMA TouchedKeeps ==
    ASSUME NEW con, NEW w, NEW m, NEW failed, Orderly(con, w, m, failed),
           NEW c \in SlotsOf(m), Runs(con[c]), NEW x, x = Reset(w, con[c].idle)
    PROVE  /\ Orderly(con, x, m, failed)
           /\ x.timer[con[c].idle].left = IdleSecs
           /\ EvenStays(con, w, con, x, m)
  <1> DEFINE t == con[c].idle
             stays == Live(w) \ {t}
  <1>1. /\ Slotted(con, m) /\ Kept(w, {}) /\ SlotKept(con, w, m, c)
        /\ t \in Live(w) /\ w.timer[t].proc = "idle" /\ w.timer[t].client = c
        /\ TimerKept(con, w, m, t, failed)
    BY DEF Orderly, SlotKept, IsTimer, Runs
  <1>2. /\ Kept(x, {}) /\ Live(x) = Live(w) /\ Stay(w, x, stays)
        /\ Agree(x.timer[t], w.timer[t]) /\ x.timer[t].left = w.timer[t].secs
    BY <1>1, ResetKeeps
  <1>3. w.timer[t].secs = IdleSecs
    BY <1>1 DEF TimerKept
  <1> HIDE DEF t, stays
  <1>4. SlotKept(con, x, m, c)
    BY <1>1, <1>2 DEF SlotKept, IsTimer, Agree, Runs, t
  <1>5. ASSUME NEW u \in Live(x) PROVE TimerKept(con, x, m, u, failed)
    <2>1. TimerKept(con, w, m, u, failed) /\ Agree(x.timer[u], w.timer[u])
      BY <1>2 DEF Orderly, Stay, stays
    <2> QED BY <2>1 DEF TimerKept, Agree
  <1>6. TimersOfSlot(con, x, m, c, failed)
    BY <1>5 DEF TimersOfSlot
  <1>7. Only(w, stays, c) /\ Only(x, stays, c)
    BY <1>1, <1>2 DEF Only, stays, Agree
  <1>8. OthersStay(con, con, m, c) /\ failed \subseteq failed
    BY DEF OthersStay
  <1>9. Orderly(con, x, m, failed)
    BY <1>1, <1>2, <1>4, <1>6, <1>7, <1>8, SlotsStay
  <1>10. EvenStays(con, w, con, x, m)
    <2>1. \A u \in Live(w) : Agree(x.timer[u], w.timer[u])
      BY <1>2 DEF Stay, stays
    <2> QED BY <1>2, <2>1, NamedAgree DEF EvenStays, SameFetches
  <1> QED BY <1>2, <1>3, <1>9, <1>10 DEF t

LEMMA StaySame ==
    ASSUME NEW w PROVE Stay(w, w, Live(w))
  BY DEF Stay, Agree

\* A connection goes on.
LEMMA GoesOnKeeps ==
    ASSUME NEW con, NEW w, NEW m, NEW failed, Orderly(con, w, m, failed),
           NEW c \in SlotsOf(m), Runs(con[c]),
           NEW slot, IsSlot(slot), Runs(slot),
           slot.idle = con[c].idle, slot.wakeup = con[c].wakeup
    PROVE  /\ Orderly(WithSlot(con, c, slot), w, m, failed)
           /\ EvenStays(con, w, WithSlot(con, c, slot), w, m)
  <1> DEFINE con2 == WithSlot(con, c, slot)
  <1>1. Slotted(con, m) /\ Kept(w, {}) /\ SlotKept(con, w, m, c)
    BY DEF Orderly
  <1>2. Slotted(con2, m) /\ con2[c] = slot /\ OthersStay(con, con2, m, c)
    BY <1>1, OtherSlots
  <1> HIDE DEF con2
  <1>3. SlotKept(con2, w, m, c)
    BY <1>1, <1>2 DEF SlotKept, Runs
  <1>4. ASSUME NEW u \in Live(w), w.timer[u].client = c
        PROVE  TimerKept(con2, w, m, u, failed)
    <2>1. TimerKept(con, w, m, u, failed)
      BY DEF Orderly
    <2>2. con2[w.timer[u].client] = slot /\ con[w.timer[u].client] = con[c]
      BY <1>2, <1>4
    <2> QED BY <2>1, <2>2 DEF TimerKept, Runs
  <1>5. TimersOfSlot(con2, w, m, c, failed)
    BY <1>4 DEF TimersOfSlot
  <1>6. Only(w, Live(w), c)
    BY DEF Only
  <1>7. Stay(w, w, Live(w)) /\ failed \subseteq failed
    BY StaySame
  <1>8. Orderly(con2, w, m, failed)
    BY <1>1, <1>2, <1>3, <1>5, <1>6, <1>7, SlotsStay
  <1>9. EvenStays(con, w, con2, w, m)
    <2>1. c \in InUse(con, m) /\ slot.state # "FREE"
      BY DEF InUse, Runs
    <2> QED BY <1>1, <2>1, InUseWith DEF EvenStays, SameFetches, SameStarts, con2
  <1> QED BY <1>8, <1>9 DEF con2

\* The timer that ends the pause is in front of the other one.
LEMMA PauseKeeps ==
    ASSUME NEW con, NEW w, NEW m, NEW failed, Orderly(con, w, m, failed),
           m.slots \in Nat, m.throttle,
           NEW c \in SlotsOf(m), Runs(con[c]), 1 <= w.timer[con[c].idle].left,
           Unused(w) \in Ids, NEW x, x = MadeOnce(w, "wakeup", c, 1),
           NEW slot, IsSlot(slot), slot.state = "PAUSING",
           slot.idle = con[c].idle, slot.wakeup = Unused(w)
    PROVE  /\ Orderly(WithSlot(con, c, slot), x, m, failed)
           /\ EvenStays(con, w, WithSlot(con, c, slot), x, m)
  <1> DEFINE con2 == WithSlot(con, c, slot)
             t == con[c].idle
             k == Unused(w)
  <1>1. /\ Slotted(con, m) /\ Kept(w, {}) /\ SlotKept(con, w, m, c)
        /\ t \in Live(w) /\ w.timer[t].proc = "idle" /\ w.timer[t].client = c
    BY DEF Orderly, SlotKept, IsTimer, Runs
  <1>2. c \in Nat /\ 1 \in Nat
    BY DEF SlotsOf
  <1>3. /\ Kept(x, {}) /\ k \notin Live(w) /\ Live(x) = Live(w) \cup {k}
        /\ x.timer[k].proc = "wakeup" /\ x.timer[k].client = c
        /\ ~ x.timer[k].periodic
    BY <1>1, <1>2, OnceCreated
  <1>4. \A u \in Live(w) : x.timer[u] = w.timer[u]
    BY <1>1, <1>2, OnceCreated
  <1>5. NotBehind(x, k, t)
    BY <1>1, <1>2, OnceCreated
  <1>6. Stay(w, x, Live(w))
    BY <1>1, <1>2, OnceCreated
  <1>7. Slotted(con2, m) /\ con2[c] = slot /\ OthersStay(con, con2, m, c)
    BY <1>1, OtherSlots
  <1> HIDE DEF con2, k, t
  <1>8. SlotKept(con2, x, m, c)
    BY <1>1, <1>3, <1>4, <1>5, <1>7 DEF SlotKept, IsTimer, k, t
  <1>9. ASSUME NEW u \in Live(w), w.timer[u].client = c
        PROVE  TimerKept(con2, x, m, u, failed)
    <2>1. TimerKept(con, w, m, u, failed) /\ x.timer[u] = w.timer[u]
      BY <1>4 DEF Orderly
    <2>2. con2[w.timer[u].client] = slot /\ con[w.timer[u].client] = con[c]
      BY <1>7, <1>9
    <2> QED BY <2>1, <2>2 DEF TimerKept, Runs
  <1>10. TimerKept(con2, x, m, k, failed)
    BY <1>3, <1>7 DEF TimerKept, k
  <1>11. TimersOfSlot(con2, x, m, c, failed)
    BY <1>3, <1>4, <1>9, <1>10 DEF TimersOfSlot
  <1>12. Only(w, Live(w), c) /\ Only(x, Live(w), c)
    BY <1>3 DEF Only
  <1>13. failed \subseteq failed
    OBVIOUS
  <1>14. Orderly(con2, x, m, failed)
    BY <1>3, <1>6, <1>7, <1>8, <1>11, <1>12, <1>13, SlotsStay
  <1>15. EvenStays(con, w, con2, x, m)
    <2>1. c \in InUse(con, m) /\ slot.state # "FREE"
      BY DEF InUse, Runs
    <2>2. InUse(con2, m) = InUse(con, m)
      BY <1>1, <2>1, InUseWith DEF con2
    <2>3. IdleTimers(x) = IdleTimers(w) /\ SameStarts(w, x)
      BY <1>1, <1>2, NamedMade
    <2> QED BY <2>2, <2>3 DEF EvenStays, SameFetches
  <1> QED BY <1>14, <1>15 DEF con2

LEMMA CloseKeeps ==
    ASSUME NEW con, NEW w, NEW m, NEW failed, Orderly(con, w, m, failed),
           NEW c \in SlotsOf(m), con[c].state # "FREE",
           NEW i, i = con[c].idle, NEW k, k = con[c].wakeup
    PROVE  /\ IsPointer(w, i) /\ IsPointer(Without(w, i), k)
           /\ Orderly(WithSlot(con, c, Closed(con[c])), Without(Without(w, i), k), m, failed)
           /\ ClosedIn(con, w, WithSlot(con, c, Closed(con[c])), Without(Without(w, i), k),
                       m, failed)
  <1> DEFINE slot == Closed(con[c])
             x == Without(Without(w, i), k)
             gone == {i, k}
  <1>0. Kept(w, {})
    BY DEF Orderly
  <1>1. /\ Slotted(con, m) /\ Kept(w, {}) /\ SlotKept(con, w, m, c)
        /\ i \in Live(w) /\ w.timer[i].proc = "idle" /\ w.timer[i].client = c
    BY DEF Orderly, SlotKept, IsTimer
  <1>2. \/ con[c].state # "PAUSING"
        \/ k \in Live(w) /\ w.timer[k].proc = "wakeup" /\ w.timer[k].client = c
    BY <1>1 DEF SlotKept, IsTimer
  <1>3. con[c].state # "PAUSING" => k = 0
    BY <1>1 DEF SlotKept
  <1>4. 0 \notin Live(w)
    BY <1>1, LiveIsListed, WheelTypes DEF Kept
  <1>5. i \in Live(w) \cup {0} /\ k \in (Live(w) \ {i}) \cup {0}
    BY <1>1, <1>2, <1>3
  <1>6. IsPointer(w, i) /\ IsPointer(Without(w, i), k)
    <2>1. IsPointer(w, i)
      BY <1>5 DEF IsPointer
    <2>2. Live(Without(w, i)) = Live(w) \ {i}
      BY <1>0, <2>1, WithoutKeeps DEF Less
    <2> QED BY <1>5, <2>1, <2>2 DEF IsPointer
  <1>7. Less(w, x, gone)
    BY <1>0, <1>6, WithoutBoth
  <1>9. IsSlot(slot) /\ slot.state = "FREE" /\ slot.wakeup = k
    BY ClosedIsFree DEF IsSlot
  <1> HIDE DEF slot, x
  <1>10. m.throttle \/ slot.wakeup = 0
    BY <1>1, <1>9 DEF SlotKept
  <1>11. \A t \in Live(w) \cap gone : w.timer[t].client = c
    BY <1>1, <1>2, <1>3, <1>4
  <1>12. ASSUME NEW t \in Live(w) \ gone, w.timer[t].client = c
         PROVE  w.timer[t].proc # "wakeup" /\ (w.timer[t].proc = "idle" => "socket" \in failed)
    <2>1. TimerKept(con, w, m, t, failed) /\ t # i /\ t # k
      BY DEF Orderly
    <2> QED BY <1>12, <2>1 DEF TimerKept
  <1>13. Frees(w, gone, c, failed)
    BY <1>11, <1>12 DEF Frees
  <1> HIDE DEF gone
  <1>14. Orderly(WithSlot(con, c, slot), x, m, failed)
    BY <1>7, <1>9, <1>10, <1>13, FreedKeeps
  <1>15. ClosedIn(con, w, WithSlot(con, c, slot), x, m, failed)
    <2>0. gone \cap StartTimers(w) = {}
      BY <1>1, <1>2, <1>3, <1>4 DEF StartTimers, Named, gone
    <2>1. IdleTimers(x) = IdleTimers(w) \ {i, k} /\ SameStarts(w, x)
      BY <1>7, <2>0, NamedLess DEF gone
    <2>2. i \in IdleTimers(w) /\ k \notin IdleTimers(w)
      BY <1>1, <1>2, <1>3, <1>4 DEF IdleTimers, Named
    <2>3. IdleTimers(x) = IdleTimers(w) \ {i}
      BY <2>1, <2>2
    <2>4. c \in InUse(con, m) /\ InUse(WithSlot(con, c, slot), m) = InUse(con, m) \ {c}
      BY <1>1, <1>9, InUseWith DEF InUse
    <2> QED BY <2>1, <2>2, <2>3, <2>4 DEF ClosedIn
  <1> QED BY <1>6, <1>14, <1>15 DEF slot, x

-----------------------------------------------------------------------------
(***************************************************************************)
(* What becomes of a timer that has fired.                                 *)
(***************************************************************************)
\* The idle timers, but for those that have fired, go on as they are.
IdleKept(w, x, gone) ==
    \A p \in IdleTimers(w) \ gone : p \in IdleTimers(x) /\ x.timer[p] = w.timer[p]

LEMMA ExpiredKeeps ==
    ASSUME NEW con, NEW w, NEW m, NEW failed, Orderly(con, w, m, failed),
           m.throttle => "socket" \notin failed,
           NEW t \in Live(w), w.timer[t].proc = "idle", NEW c, c = w.timer[t].client,
           NEW k, k = con[c].wakeup, NEW slot, IsSlot(slot), slot.state = "FREE",
           slot.wakeup = k
    PROVE  /\ c \in SlotsOf(m) /\ IsPointer(w, k) /\ IsPointer(Without(w, k), t)
           /\ Orderly(WithSlot(con, c, slot), Without(Without(w, k), t), m, failed)
           /\ NextIn(w, t) \in Live(Without(Without(w, k), t)) \cup {0}
           /\ ClosedIn(con, w, WithSlot(con, c, slot), Without(Without(w, k), t), m, failed)
           /\ IdleKept(w, Without(Without(w, k), t), {t})
  <1> DEFINE x == Without(Without(w, k), t)
             gone == {k, t}
  <1>0. Kept(w, {})
    BY DEF Orderly
  <1>1. Slotted(con, m) /\ TimerKept(con, w, m, t, failed)
    BY DEF Orderly
  <1>2. c \in SlotsOf(m)
    BY <1>1 DEF TimerKept
  <1>3. SlotKept(con, w, m, c)
    BY <1>2 DEF Orderly
  <1>4. 0 \notin Live(w)
    BY <1>0, LiveIsListed, WheelTypes DEF Kept
  <1>5. "socket" \notin failed => con[c].state # "FREE" /\ con[c].idle = t
    BY <1>1 DEF TimerKept
  <1>6. \/ k = 0
        \/ /\ con[c].state = "PAUSING" /\ k \in Live(w) /\ w.timer[k].proc = "wakeup"
           /\ w.timer[k].client = c /\ NotBehind(w, k, t)
    <2>1. CASE con[c].state = "PAUSING"
      <3>1. /\ k \in Live(w) /\ w.timer[k].proc = "wakeup" /\ w.timer[k].client = c
            /\ NotBehind(w, k, con[c].idle)
        BY <1>3, <2>1 DEF SlotKept, IsTimer
      <3>2. m.throttle
        BY <1>3, <1>4, <3>1 DEF SlotKept
      <3> QED BY <1>5, <2>1, <3>1, <3>2
    <2>2. CASE con[c].state # "PAUSING"
      <3>1. con[c].state = "FREE" => ~ m.throttle
        BY <1>5
      <3> QED BY <1>3, <2>2, <3>1 DEF SlotKept
    <2> QED BY <2>1, <2>2
  <1>7. k # t
    BY <1>4, <1>6
  <1>8. IsPointer(w, k)
    BY <1>6 DEF IsPointer
  <1>9. IsPointer(Without(w, k), t)
    <2>1. Live(Without(w, k)) = Live(w) \ {k}
      BY <1>0, <1>8, WithoutKeeps DEF Less
    <2> QED BY <1>7, <2>1 DEF IsPointer
  <1>10. Less(w, x, gone)
    BY <1>0, <1>8, <1>9, WithoutBoth
  <1> HIDE DEF x
  <1>11. m.throttle \/ slot.wakeup = 0
    BY <1>3 DEF SlotKept
  <1>12. \A u \in Live(w) \cap gone : w.timer[u].client = c
    BY <1>4, <1>6
  <1>13. ASSUME NEW u \in Live(w) \ gone, w.timer[u].client = c
         PROVE  w.timer[u].proc # "wakeup" /\ (w.timer[u].proc = "idle" => "socket" \in failed)
    <2>1. TimerKept(con, w, m, u, failed) /\ u # t /\ u # k
      BY DEF Orderly
    <2> QED BY <1>5, <1>13, <2>1 DEF TimerKept
  <1>14. NextIn(w, t) \in Live(x) \cup {0}
    <2>1. NextIn(w, t) \in Live(w) \cup {0} /\ NextIn(w, t) # t
      BY <1>0, NextIsBehind
    <2>2. NextIn(w, t) # k \/ k = 0
      BY <1>0, <1>6, NextIsBehind
    <2> QED BY <1>4, <1>10, <2>1, <2>2 DEF Less
  <1>15. Frees(w, gone, c, failed)
    BY <1>12, <1>13 DEF Frees
  <1> HIDE DEF gone
  <1>16. Orderly(WithSlot(con, c, slot), x, m, failed)
    BY <1>2, <1>10, <1>11, <1>15, FreedKeeps
  <1>17. ClosedIn(con, w, WithSlot(con, c, slot), x, m, failed)
    <2>0. gone \cap StartTimers(w) = {}
      BY <1>4, <1>6 DEF StartTimers, Named, gone
    <2>1. IdleTimers(x) = IdleTimers(w) \ {k, t} /\ SameStarts(w, x)
      BY <1>10, <2>0, NamedLess DEF gone
    <2>2. t \in IdleTimers(w) /\ k \notin IdleTimers(w)
      BY <1>4, <1>6 DEF IdleTimers, Named
    <2>3. IdleTimers(x) = IdleTimers(w) \ {t}
      BY <2>1, <2>2
    <2>4. InUse(WithSlot(con, c, slot), m) = InUse(con, m) \ {c}
      BY <1>1, <1>2, InUseWith
    <2>5. failed = {} => c \in InUse(con, m)
      BY <1>2, <1>5 DEF InUse
    <2> QED BY <2>1, <2>2, <2>3, <2>4, <2>5 DEF ClosedIn
  <1>18. IdleKept(w, x, {t})
    <2>1. k \notin IdleTimers(w)
      BY <1>4, <1>6 DEF IdleTimers, Named
    <2> QED BY <1>10, <2>1, NamedLess DEF IdleKept, gone
  <1> QED BY <1>2, <1>8, <1>9, <1>14, <1>16, <1>17, <1>18 DEF x

LEMMA WokenKeeps ==
    ASSUME NEW con, NEW w, NEW m, NEW failed, Orderly(con, w, m, failed),
           NEW t \in Live(w), w.timer[t].proc = "wakeup", NEW c, c = w.timer[t].client,
           NEW slot, IsSlot(slot), Runs(slot), slot.idle = con[c].idle, slot.wakeup = 0
    PROVE  /\ c \in SlotsOf(m)
           /\ Orderly(WithSlot(con, c, slot), Without(w, t), m, failed)
           /\ NextIn(w, t) \in Live(Without(w, t)) \cup {0}
           /\ EvenStays(con, w, WithSlot(con, c, slot), Without(w, t), m)
           /\ IdleKept(w, Without(w, t), {})
  <1> DEFINE x == Without(w, t)
             con2 == WithSlot(con, c, slot)
             stays == Live(w) \ {t}
  <1>0. Kept(w, {})
    BY DEF Orderly
  <1>1. Slotted(con, m) /\ TimerKept(con, w, m, t, failed)
    BY DEF Orderly
  <1>2. c \in SlotsOf(m) /\ con[c].state = "PAUSING" /\ con[c].wakeup = t
    BY <1>1 DEF TimerKept
  <1>3. SlotKept(con, w, m, c)
    BY <1>2 DEF Orderly
  <1>4. IsPointer(w, t)
    BY DEF IsPointer
  <1>5. /\ Kept(x, {}) /\ Live(x) = stays /\ Stay(w, x, stays)
        /\ \A u \in Live(x) : x.timer[u] = w.timer[u]
    BY <1>0, <1>4, WithoutKeeps DEF Less
  <1>6. NextIn(w, t) \in Live(x) \cup {0}
    <2>1. NextIn(w, t) \in Live(w) \cup {0} /\ NextIn(w, t) # t
      BY <1>0, NextIsBehind
    <2> QED BY <1>5, <2>1
  <1>7. Slotted(con2, m) /\ con2[c] = slot /\ OthersStay(con, con2, m, c)
    BY <1>1, <1>2, OtherSlots
  <1> HIDE DEF x, con2
  <1>8. SlotKept(con2, x, m, c)
    BY <1>2, <1>3, <1>5, <1>7 DEF SlotKept, IsTimer, Runs
  <1>9. ASSUME NEW u \in Live(x), x.timer[u].client = c
        PROVE  TimerKept(con2, x, m, u, failed)
    <2>1. TimerKept(con, w, m, u, failed) /\ x.timer[u] = w.timer[u] /\ u # t
      BY <1>5 DEF Orderly
    <2>2. con2[w.timer[u].client] = slot /\ con[w.timer[u].client] = con[c]
      BY <1>7, <1>9, <2>1
    <2> QED BY <1>2, <2>1, <2>2 DEF TimerKept, Runs
  <1>10. TimersOfSlot(con2, x, m, c, failed)
    BY <1>9 DEF TimersOfSlot
  <1>11. Only(w, stays, c) /\ Only(x, stays, c)
    BY <1>5 DEF Only
  <1>12. failed \subseteq failed
    OBVIOUS
  <1> HIDE DEF stays
  <1>13. Orderly(con2, x, m, failed)
    BY <1>5, <1>7, <1>8, <1>10, <1>11, <1>12, SlotsStay
  <1>14. EvenStays(con, w, con2, x, m)
    <2>1. Less(w, x, {t})
      BY <1>0, <1>4, WithoutKeeps DEF x
    <2>0. t \notin IdleTimers(w) /\ t \notin StartTimers(w)
      BY DEF IdleTimers, StartTimers, Named
    <2>2. IdleTimers(x) = IdleTimers(w) \ {t} /\ SameStarts(w, x)
      BY <2>0, <2>1, NamedLess
    <2>3. c \in InUse(con, m) /\ slot.state # "FREE"
      BY <1>2 DEF InUse, Runs
    <2>4. Slotted(con, m) /\ c \in SlotsOf(m)
      BY <1>1, <1>2
    <2>5. InUse(con2, m) = InUse(con, m) \cup {c}
      BY <2>3, <2>4, InUseWith DEF con2
    <2> QED BY <2>0, <2>2, <2>3, <2>5 DEF EvenStays, SameFetches
  <1>15. IdleKept(w, x, {})
    <2>1. t \notin IdleTimers(w)
      BY DEF IdleTimers, Named
    <2> QED BY <1>5, <2>1 DEF IdleKept, IdleTimers, Named, stays
  <1> QED BY <1>2, <1>6, <1>13, <1>14, <1>15 DEF x, con2

\* A change that disturbs only the timers that start fetches.
LEMMA StartsStay ==
    ASSUME NEW con, NEW w, NEW m, NEW failed, Orderly(con, w, m, failed),
           NEW x, Kept(x, {}), NEW stays, Stay(w, x, stays),
           \A t \in Live(w) \ stays : w.timer[t].proc = "start",
           \A t \in Live(x) \ stays : x.timer[t].proc = "start"
    PROVE  Orderly(con, x, m, failed) /\ SameFetches(con, w, con, x, m)
  <1> DEFINE c == -1
  <1>1. Only(w, stays, c) /\ Only(x, stays, c)
    BY DEF Only
  <1>2. OthersStay(con, con, m, c) /\ failed \subseteq failed /\ Slotted(con, m)
    BY DEF OthersStay, Orderly
  <1>3. c \notin SlotsOf(m)
    BY DEF SlotsOf
  <1>4. ASSUME NEW t \in Live(x), x.timer[t].client = c PROVE FALSE
    <2>1. x \in Wheels /\ t \in Ids
      BY LiveIsListed DEF Kept
    <2>2. x.timer[t] \in TimerRecords
      BY <2>1, WheelTypes
    <2>3. c \in Nat
      BY <1>4, <2>2 DEF TimerRecords
    <2> QED BY <2>3
  <1>5. TimersOfSlot(con, x, m, c, failed)
    BY <1>4 DEF TimersOfSlot
  <1>6. SameFetches(con, w, con, x, m)
    <2>1. /\ \A t \in Live(w) \ stays : w.timer[t].proc # "idle"
          /\ \A t \in Live(x) \ stays : x.timer[t].proc # "idle"
      OBVIOUS
    <2> QED BY <2>1, IdleStays DEF SameFetches
  <1> HIDE DEF c
  <1>7. Orderly(con, x, m, failed)
    BY <1>1, <1>2, <1>3, <1>5, SlotsStay
  <1> QED BY <1>6, <1>7

LEMMA StartEnds ==
    ASSUME NEW con, NEW w, NEW m, NEW failed, Orderly(con, w, m, failed),
           NEW t \in Live(w), w.timer[t].proc = "start"
    PROVE  /\ Orderly(con, Without(w, t), m, failed)
           /\ Live(Without(w, t)) = Live(w) \ {t}
           /\ SameFetches(con, w, con, Without(w, t), m)
           /\ StartTimers(Without(w, t)) = StartTimers(w) \ {t}
           /\ Orderly(con, Rescheduled(w, t), m, failed)
           /\ Live(Rescheduled(w, t)) = Live(w)
           /\ EvenStays(con, w, con, Rescheduled(w, t), m)
  <1> DEFINE x == Without(w, t)
             y == Rescheduled(w, t)
             stays == Live(w) \ {t}
             v == w.timer[t].left + w.timer[t].secs
  <1>0. Kept(w, {}) /\ IsPointer(w, t)
    BY DEF Orderly, IsPointer
  <1>1. /\ Kept(x, {}) /\ Live(x) = stays /\ Stay(w, x, stays)
    BY <1>0, WithoutKeeps DEF Less
  <1>2. \A u \in Live(w) \ stays : w.timer[u].proc = "start"
    OBVIOUS
  <1>3. \A u \in Live(x) \ stays : x.timer[u].proc = "start"
    BY <1>1
  <1>4. v \in Int
    <2>1. w \in Wheels /\ t \in Ids
      BY <1>0, LiveIsListed DEF Kept
    <2>2. w.timer[t].left \in Int /\ w.timer[t].secs \in Nat
      BY <2>1, WheelTypes
    <2> QED BY <2>2
  <1>5. y = Resorted([w EXCEPT !.timer[t].left = v], t)
    BY DEF Rescheduled
  <1> HIDE DEF v, x, y
  <1>6. Kept(y, {}) /\ Live(y) = Live(w) /\ Agree(y.timer[t], w.timer[t])
    BY <1>0, <1>4, <1>5, ResortedKeeps
  <1>7. Stay(w, y, stays)
    BY <1>0, <1>4, <1>5, ResortedStay
  <1>8. \A u \in Live(y) \ stays : y.timer[u].proc = "start"
    BY <1>6 DEF Agree
  <1>9. EvenStays(con, w, con, y, m)
    <2>1. \A u \in Live(w) : Agree(y.timer[u], w.timer[u])
      BY <1>6, <1>7 DEF Stay, stays
    <2> QED BY <1>6, <2>1, NamedAgree DEF EvenStays, SameFetches
  <1> HIDE DEF stays
  <1>10. Orderly(con, x, m, failed) /\ SameFetches(con, w, con, x, m)
    BY <1>1, <1>2, <1>3, StartsStay
  <1>11. Orderly(con, y, m, failed)
    BY <1>2, <1>6, <1>7, <1>8, StartsStay
  <1>12. StartTimers(x) = StartTimers(w) \ {t}
    <2>1. Less(w, x, {t})
      BY <1>0, WithoutKeeps DEF x
    <2> QED BY <2>1, NamedLess
  <1> QED BY <1>1, <1>6, <1>9, <1>10, <1>11, <1>12 DEF x, y, stays

LEMMA StartMade ==
    ASSUME NEW con, NEW w, NEW m, NEW failed, Orderly(con, w, m, failed),
           NEW n \in Nat, Unused(w) \in Ids, NEW x, x = MadeOnce(w, "start", 0, n)
    PROVE  /\ Orderly(con, x, m, failed) /\ Stay(w, x, Live(w))
           /\ SameFetches(con, w, con, x, m)
           /\ Unused(w) \in StartTimers(x) \ Live(w)
  <1> DEFINE stays == Live(w)
  <1>0. Kept(w, {}) /\ 0 \in Nat
    BY DEF Orderly
  <1>1. /\ Kept(x, {}) /\ Live(x) = Live(w) \cup {Unused(w)}
        /\ Unused(w) \notin Live(w) /\ x.timer[Unused(w)].proc = "start"
    BY <1>0, OnceCreated
  <1>2. Stay(w, x, stays)
    BY <1>0, OnceCreated
  <1>3. \A t \in Live(x) \ stays : x.timer[t].proc = "start"
    BY <1>1
  <1>4. \A t \in Live(w) \ stays : w.timer[t].proc = "start"
    OBVIOUS
  <1> HIDE DEF stays
  <1>5. Orderly(con, x, m, failed) /\ SameFetches(con, w, con, x, m)
    BY <1>1, <1>2, <1>3, <1>4, StartsStay
  <1> QED BY <1>1, <1>2, <1>5 DEF stays, StartTimers, Named

-----------------------------------------------------------------------------
(***************************************************************************)
(* The invariant.  A socket that fails where there are pauses leaves the   *)
(* program with nothing that it keeps.                                     *)
(***************************************************************************)
InOrder ==
    /\ Orderly(connections, timers, mode, slips)
    /\ IsCount(counts) /\ Even(connections, timers, counts, mode, slips)
    /\ mode.start = "parallel" /\ ranOut => slips # {}
    /\ pc # "undefined"
    /\ pc = "timing" => walk.next \in Live(timers) \cup {0}

WalkKept ==
    /\ walk = [bucket |-> walk.bucket, next |-> walk.next, back |-> walk.back]
    /\ walk.bucket \in Buckets /\ walk.back \in {"top", "starting"}

LoadInv == mode \in Modes /\ WalkKept /\ (~ Strays => InOrder)

\* What a step keeps.
StepKeeps == WalkKept' /\ (~ Strays' => InOrder')

LEMMA ModeTypes ==
    ASSUME mode \in Modes
    PROVE  /\ mode.slots \in Nat /\ Slots = SlotsOf(mode) /\ 0 \in Buckets
           /\ IdleSecs \in Nat
  <1>1. mode.slots \in Nat /\ IdleSecs \in Nat
    BY LoadAssumption
  <1>2. HashSize \in Nat \ {0}
    BY TimersAssumption
  <1> QED BY <1>1, <1>2 DEF Slots, SlotsOf, Buckets

LEMMA SlipsStayed ==
    ASSUME mode' = mode, SlipsGo(slips, slips'), ~ Strays'
    PROVE  ~ Strays
  BY DEF Strays, SlipsGo

LEMMA FirstTimerKept ==
    ASSUME mode \in Modes, NEW w, NEW back \in {"top", "starting"}
    PROVE  /\ FirstTimer(w, back) = [bucket |-> FirstTimer(w, back).bucket,
                                     next |-> FirstTimer(w, back).next,
                                     back |-> FirstTimer(w, back).back]
           /\ FirstTimer(w, back).bucket \in Buckets
           /\ FirstTimer(w, back).back \in {"top", "starting"}
           /\ Kept(w, {}) => FirstTimer(w, back).next \in Live(w) \cup {0}
  <1>1. 0 \in Buckets
    BY ModeTypes
  <1>2. Kept(w, {}) => FirstOf(w, 0) \in Live(w) \cup {0}
    BY <1>1, FirstIsLive
  <1> QED BY <1>1, <1>2 DEF FirstTimer

LEMMA LoadIsLoad ==
    ASSUME Orderly(connections, timers, mode, slips), IsCount(counts),
           Even(connections, timers, counts, mode, slips)
    PROVE  /\ IsLoad(load) /\ load.connections = connections
           /\ load.timers = timers /\ load.defined = TRUE
           /\ Settled(load, mode, slips)
  <1>1. IsWheel(timers)
    BY WheelsAreWheels DEF Orderly
  <1>2. /\ load.connections = connections /\ load.timers = timers
        /\ load.counts = counts /\ load.defined = TRUE
        /\ load = [connections |-> load.connections, timers |-> load.timers,
                   counts |-> load.counts, defined |-> load.defined]
    BY DEF load
  <1>3. IsLoad(load)
    BY <1>1, <1>2 DEF IsLoad
  <1>4. Settled(load, mode, slips)
    BY <1>2 DEF Settled
  <1> QED BY <1>2, <1>3, <1>4

LEMMA EndedIs ==
    ASSUME NEW s, IsLoad(s), NEW t, NEW r, r = Ended(s, t)
    PROVE  /\ IsLoad(r) /\ r.connections = s.connections
           /\ r.timers.made = s.timers.made /\ r.counts = s.counts
           /\ IsPointer(s.timers, t) => r.defined = s.defined
           /\ IsPointer(s.timers, t) =>
                  r.timers = IF s.timers.timer[t].periodic THEN Rescheduled(s.timers, t)
                             ELSE Without(s.timers, t)
  <1>1. CASE s.timers.timer[t].periodic
    <2> DEFINE w == s.timers
               x == Rescheduled(w, t)
    <2>1. IsWheel(w)
      BY DEF IsLoad
    <2>2. x = Resorted([w EXCEPT !.timer[t].left = w.timer[t].left + w.timer[t].secs], t)
      BY DEF Rescheduled
    <2> HIDE DEF w, x
    <2>3. IsWheel(x) /\ x.made = w.made
      BY <2>1, <2>2, MadeStays
    <2>4. r = [s EXCEPT !.timers = x]
      BY <1>1 DEF Ended, w, x
    <2>5. /\ IsLoad(r) /\ r.connections = s.connections /\ r.timers = x
          /\ r.defined = s.defined /\ r.counts = s.counts
      BY <2>3, <2>4 DEF IsLoad
    <2> QED BY <1>1, <2>3, <2>5 DEF w, x
  <1>2. CASE ~ s.timers.timer[t].periodic
    <2>1. r = CancelledIn(s, t)
      BY <1>2 DEF Ended
    <2> QED BY <1>2, <2>1, CancelledInIs
  <1> QED BY <1>1, <1>2

-----------------------------------------------------------------------------
(***************************************************************************)
(* The main loop keeps the invariant.                                      *)
(***************************************************************************)
LEMMA QuietKeeps ==
    ASSUME LoadInv, UNCHANGED <<mode, connections, timers, counts, slips>>, WalkKept',
           ~ Strays => pc' # "undefined",
           ~ Strays /\ mode.start = "parallel" /\ ranOut' => slips # {},
           ~ Strays /\ pc' = "timing" => walk'.next \in Live(timers) \cup {0}
    PROVE  StepKeeps
  <1>1. ASSUME ~ Strays' PROVE InOrder'
    <2>1. ~ Strays
      BY <1>1 DEF Strays
    <2>2. /\ Orderly(connections, timers, mode, slips)
          /\ IsCount(counts) /\ Even(connections, timers, counts, mode, slips)
      BY <2>1 DEF LoadInv, InOrder
    <2> QED BY <2>1, <2>2 DEF InOrder
  <1> QED BY <1>1 DEF StepKeeps

\* With -parallel, a connection is only looked for when one is free, unless
\* starting one has failed.
LEMMA RunOutKeeps ==
    ASSUME LoadInv, StartParallelFails \/ StartTimerFails,
           ~ Strays, mode.start = "parallel"
    PROVE  slips # {}
  <1> SUFFICES ASSUME slips = {} PROVE FALSE
    OBVIOUS
  <1>1. /\ Orderly(connections, timers, mode, slips)
        /\ Even(connections, timers, counts, mode, slips)
    BY DEF LoadInv, InOrder
  <1>2. CASE StartParallelFails
    <2>1. counts.current < mode.slots /\ FreeSlots = {}
      BY <1>2 DEF StartParallelFails, MayStart, RunOut
    <2>2. Slots = SlotsOf(mode) /\ mode.slots \in Nat
      BY ModeTypes DEF LoadInv
    <2>3. InUse(connections, mode) = SlotsOf(mode)
      BY <2>1, <2>2 DEF FreeSlots, InUse
    <2>4. Cardinality(SlotsOf(mode)) = mode.slots
      BY <2>2, CountTo DEF SlotsOf
    <2>5. counts.current = Cardinality(InUse(connections, mode))
      BY <1>1 DEF Even
    <2> QED BY <2>1, <2>2, <2>3, <2>4, <2>5
  <1>3. CASE StartTimerFails
    <2>1. walk.next \in StartTimers(timers)
      BY <1>3 DEF StartTimerFails, Calls, StartTimers, Named
    <2> QED BY <1>1, <2>1 DEF Even, StartsGoOn
  <1> QED BY <1>2, <1>3

LEMMA QuietSteps ==
    ASSUME LoadInv,
           Finish \/ BeginTurn \/ StartParallelFails \/ StartsEnd \/ ServingEnds
               \/ NextBucket \/ WalkIsLost \/ StartTimerFails \/ UNCHANGED vars
    PROVE  StepKeeps
  <1>1. mode \in Modes /\ WalkKept
    BY DEF LoadInv
  <1>2. ~ Strays => Kept(timers, {})
    BY DEF LoadInv, InOrder, Orderly
  <1>0. ~ Strays /\ mode.start = "parallel" /\ ranOut => slips # {}
    BY DEF LoadInv, InOrder
  <1>3. CASE Finish \/ BeginTurn \/ StartParallelFails \/ StartsEnd \/ StartTimerFails
    <2>1. /\ UNCHANGED <<mode, connections, timers, counts, slips, walk>>
          /\ pc' \in {"done", "starting", "selecting"}
      BY <1>3 DEF Finish, BeginTurn, StartParallelFails, StartsEnd, StartTimerFails, RunOut
    <2>2. WalkKept'
      BY <1>1, <2>1 DEF WalkKept
    <2>3. ~ Strays /\ mode.start = "parallel" /\ ranOut' => slips # {}
      <3>1. ranOut' = ranOut \/ StartParallelFails \/ StartTimerFails
        BY <1>3 DEF Finish, BeginTurn, StartsEnd
      <3> QED BY <1>0, <3>1, RunOutKeeps
    <2> QED BY <2>1, <2>2, <2>3, QuietKeeps
  <1>4. CASE ServingEnds
    <2>1. /\ UNCHANGED <<mode, connections, timers, counts, slips, ranOut>>
          /\ pc' = "timing" /\ walk' = FirstTimer(timers, "top")
      BY <1>4 DEF ServingEnds
    <2>2. WalkKept'
      BY <1>1, <2>1, FirstTimerKept DEF WalkKept
    <2>3. ~ Strays => walk'.next \in Live(timers) \cup {0}
      BY <1>1, <1>2, <2>1, FirstTimerKept
    <2> QED BY <1>0, <2>1, <2>2, <2>3, QuietKeeps
  <1>5. CASE NextBucket
    <2>1. UNCHANGED <<mode, connections, timers, counts, slips, ranOut>> /\ pc = "timing"
      BY <1>5 DEF NextBucket
    <2>2. CASE walk.bucket + 1 \in Buckets
      <3>1. /\ walk' = [walk EXCEPT !.bucket = @ + 1, !.next = FirstOf(timers, walk.bucket + 1)]
            /\ pc' = pc
        BY <1>5, <2>2 DEF NextBucket
      <3>2. /\ walk' = [bucket |-> walk'.bucket, next |-> walk'.next, back |-> walk'.back]
            /\ walk'.bucket = walk.bucket + 1 /\ walk'.back = walk.back
            /\ walk'.next = FirstOf(timers, walk.bucket + 1)
        BY <1>1, <3>1 DEF WalkKept
      <3>3. WalkKept'
        BY <1>1, <2>2, <3>2 DEF WalkKept
      <3>4. ~ Strays => walk'.next \in Live(timers) \cup {0}
        BY <1>2, <2>2, <3>2, FirstIsLive
      <3> QED BY <1>0, <2>1, <3>1, <3>3, <3>4, QuietKeeps
    <2>3. CASE walk.bucket + 1 \notin Buckets
      <3>1. walk' = NoWalk /\ pc' = walk.back
        BY <1>5, <2>3 DEF NextBucket
      <3>2. WalkKept' /\ pc' \in {"top", "starting"}
        BY <1>1, <3>1, ModeTypes DEF WalkKept, NoWalk
      <3> QED BY <1>0, <2>1, <3>2, QuietKeeps
    <2> QED BY <2>2, <2>3
  <1>6. CASE WalkIsLost
    <2>1. /\ UNCHANGED <<mode, connections, timers, counts, slips, walk, ranOut>>
          /\ pc = "timing" /\ walk.next \notin Live(timers) \cup {0}
          /\ pc' = "undefined"
      BY <1>6 DEF WalkIsLost
    <2>2. WalkKept'
      BY <1>1, <2>1 DEF WalkKept
    <2>3. Strays
      BY <2>1 DEF LoadInv, InOrder
    <2> QED BY <1>0, <2>1, <2>2, <2>3, QuietKeeps
  <1>7. CASE UNCHANGED vars
    <2>1. UNCHANGED <<mode, connections, timers, counts, slips, walk, pc, ranOut>>
      BY <1>7 DEF vars
    <2>2. WalkKept'
      BY <1>1, <2>1 DEF WalkKept
    <2>3. ~ Strays => pc' # "undefined"
      BY <2>1 DEF LoadInv, InOrder
    <2>4. ~ Strays /\ pc' = "timing" => walk'.next \in Live(timers) \cup {0}
      BY <2>1 DEF LoadInv, InOrder
    <2> QED BY <1>0, <2>1, <2>2, <2>3, <2>4, QuietKeeps
  <1> QED BY <1>3, <1>4, <1>5, <1>6, <1>7

LEMMA LaterMakes ==
    ASSUME NEW w, IsWheel(w), NEW d PROVE Later(w, d).made = w.made
  <1> DEFINE clock2 == (w.clock + d) % HashSize
             timer2 == [t \in Ids |-> IF t \in Live(w) THEN [w.timer[t] EXCEPT !.left = @ - d]
                                      ELSE w.timer[t]]
  <1>1. Later(w, d) = [w EXCEPT !.clock = clock2, !.timer = timer2]
    BY DEF Later
  <1> HIDE DEF clock2, timer2
  <1> QED BY <1>1 DEF IsWheel

\* Time goes on.
LEMMA LaterOrderly ==
    ASSUME NEW con, NEW w, NEW m, NEW failed, Orderly(con, w, m, failed), NEW d \in Nat
    PROVE  /\ Orderly(con, Later(w, d), m, failed)
           /\ Live(Later(w, d)) = Live(w)
           /\ EvenStays(con, w, con, Later(w, d), m)
  <1> DEFINE x == Later(w, d)
             stays == Live(w)
  <1>1. Kept(w, {})
    BY DEF Orderly
  <1>2. Kept(x, {}) /\ Live(x) = Live(w)
    BY <1>1, LaterKeeps
  <1>3. Stay(w, x, stays)
    BY <1>1, LaterStay
  <1>4. /\ \A t \in Live(w) \ stays : w.timer[t].proc = "start"
        /\ \A t \in Live(x) \ stays : x.timer[t].proc = "start"
    BY <1>2
  <1>5. EvenStays(con, w, con, x, m)
    BY <1>2, <1>3, NamedAgree DEF Stay, EvenStays, SameFetches
  <1> HIDE DEF x, stays
  <1>6. Orderly(con, x, m, failed)
    BY <1>2, <1>3, <1>4, StartsStay
  <1> QED BY <1>2, <1>5, <1>6 DEF x

\* While connections are started no fetch runs out of its time.
TurnsAreShort == MaxLate < IdleSecs

Pending(w) == \E t \in IdleTimers(w) : w.timer[t].left > 0

LEMMA LaterPending ==
    ASSUME NEW w, Kept(w, {}), Watched(w), TurnsAreShort, NEW d \in 0..MaxLate
    PROVE  Pending(Later(w, d))
  <1> DEFINE x == Later(w, d)
  <1>1. PICK t \in IdleTimers(w) : w.timer[t].left = IdleSecs
    BY DEF Watched
  <1>2. d \in Nat /\ MaxLate \in Nat /\ IdleSecs \in Nat /\ d < IdleSecs
    BY LoadAssumption DEF TurnsAreShort
  <1>3. /\ Live(x) = Live(w)
        /\ \A u \in Live(w) : /\ Agree(x.timer[u], w.timer[u])
                              /\ x.timer[u].left = w.timer[u].left - d
    BY <1>2, LaterKeeps
  <1> HIDE DEF x
  <1>4. t \in IdleTimers(x) /\ x.timer[t].left = IdleSecs - d
    BY <1>1, <1>3 DEF IdleTimers, Named, Agree
  <1> QED BY <1>2, <1>4 DEF Pending, x

LEMMA SelectKeeps ==
    ASSUME LoadInv, Select PROVE StepKeeps
  <1>1. PICK d \in Int : d >= 0 /\ timers' = Later(timers, d)
    BY DEF Select
  <1>2. /\ UNCHANGED <<mode, connections, counts, walk, slips, ranOut>>
        /\ pc' = "serving"
    BY DEF Select
  <1>3. WalkKept'
    BY <1>2 DEF LoadInv, WalkKept
  <1>4. ASSUME ~ Strays' PROVE InOrder'
    <2>1. /\ Orderly(connections, timers, mode, slips)
          /\ IsCount(counts) /\ Even(connections, timers, counts, mode, slips)
      BY <1>2, <1>4 DEF Strays, LoadInv, InOrder
    <2>2. d \in Nat
      BY <1>1
    <2>3. /\ Orderly(connections, timers', mode, slips)
          /\ EvenStays(connections, timers, connections, timers', mode)
      BY <1>1, <2>1, <2>2, LaterOrderly
    <2>4. Even(connections, timers', counts, mode, slips)
      BY <2>1, <2>3 DEF Even, EvenStays, SameFetches, SameStarts, StartsGoOn
    <2>5. mode.start = "parallel" /\ ranOut => slips # {}
      BY <1>2, <1>4 DEF Strays, LoadInv, InOrder
    <2> QED BY <1>2, <2>1, <2>3, <2>4, <2>5 DEF InOrder
  <1> QED BY <1>3, <1>4 DEF StepKeeps

LEMMA FreeSlotIs ==
    ASSUME mode \in Modes, FreeSlots # {}
    PROVE  Min(FreeSlots) \in SlotsOf(mode) /\ connections[Min(FreeSlots)].state = "FREE"
  <1>1. FreeSlots \subseteq Nat
    BY DEF FreeSlots, Slots
  <1>2. Min(FreeSlots) \in FreeSlots
    BY <1>1, LeastExists
  <1> QED BY <1>2, ModeTypes DEF FreeSlots

LEMMA StartParallelKeeps ==
    ASSUME LoadInv, StartParallel
    PROVE  /\ StepKeeps
           /\ ~ Strays' /\ TurnsAreShort /\ "write" \notin slips' => Pending(timers')
  <1> DEFINE c == Min(FreeSlots)
  <1>1. PICK start \in Starts(c), d \in 0..MaxLate :
            /\ Becomes([start.load EXCEPT !.timers = Later(@, d)])
            /\ slips' = start.slips
    BY DEF StartParallel
  <1>2. /\ mode' = mode /\ ranOut' = ranOut
        /\ pc' = "timing" /\ walk' = FirstTimer(timers', "starting")
    BY DEF StartParallel
  <1>3. mode \in Modes /\ d \in Nat
    BY LoadAssumption DEF LoadInv
  <1>4. c \in SlotsOf(mode) /\ connections[c].state = "FREE"
    BY <1>3, FreeSlotIs DEF StartParallel
  <1>5. WalkKept'
    BY <1>2, <1>3, FirstTimerKept DEF WalkKept
  <1> HIDE DEF c
  <1>6. ASSUME ~ Strays'
        PROVE  /\ InOrder'
               /\ TurnsAreShort /\ "write" \notin slips' => Pending(timers')
    <2> DEFINE s == start.load
               r == [s EXCEPT !.timers = Later(@, d)]
    <2>1. /\ Orderly(connections, timers, mode, slips)
          /\ IsCount(counts) /\ Even(connections, timers, counts, mode, slips)
      <3>1. SlipsGo(slips, slips')
        BY <1>1, StartsSlip
      <3> QED BY <1>2, <1>6, <3>1, SlipsStayed DEF LoadInv, InOrder
    <2>2. /\ IsLoad(s) /\ SlipsGo(slips, slips')
          /\ s.timers.made <= MaxTimers =>
                 /\ Settled(s, mode, slips')
                 /\ "write" \notin slips' => Watched(s.timers)
      BY <1>1, <1>3, <1>4, <2>1, StartsKeep
    <2> HIDE DEF s
    <2>3. /\ r.connections = s.connections /\ r.timers = Later(s.timers, d)
          /\ r.counts = s.counts
      BY <2>2 DEF IsLoad
    <2> HIDE DEF r
    <2>4. /\ connections' = r.connections /\ timers' = r.timers /\ counts' = r.counts
          /\ r.timers.made <= MaxTimers
      BY <1>1 DEF Becomes, r, s
    <2>5. Settled(s, mode, slips') /\ ("write" \notin slips' => Watched(s.timers))
      BY <2>2, <2>3, <2>4, LaterMakes DEF IsLoad
    <2>6. /\ Orderly(s.connections, r.timers, mode, slips')
          /\ EvenStays(s.connections, s.timers, s.connections, r.timers, mode)
      BY <1>3, <2>3, <2>5, LaterOrderly DEF Settled
    <2>7. Settled(r, mode, slips')
      BY <2>3, <2>5, <2>6, SettledStill
    <2>8. Orderly(connections', timers', mode', slips')
      BY <1>2, <2>4, <2>7 DEF Settled
    <2>9. IsCount(counts') /\ Even(connections', timers', counts', mode', slips')
      BY <1>2, <2>4, <2>7 DEF Settled
    <2>10. walk'.next \in Live(timers') \cup {0}
      BY <1>2, <1>3, <2>8, FirstTimerKept DEF Orderly
    <2>11. mode.start = "parallel" /\ ranOut => slips' # {}
      <3>1. SlipsGo(slips, slips')
        BY <1>1, StartsSlip
      <3> QED BY <1>2, <1>6, <3>1, SlipsStayed DEF LoadInv, InOrder, SlipsGo
    <2>12. TurnsAreShort /\ "write" \notin slips' => Pending(timers')
      BY <1>1, <2>3, <2>4, <2>5, LaterPending DEF Settled, Orderly
    <2> QED BY <1>2, <2>8, <2>9, <2>10, <2>11, <2>12 DEF InOrder
  <1> QED BY <1>5, <1>6 DEF StepKeeps

-----------------------------------------------------------------------------
(***************************************************************************)
(* Serving a connection keeps the invariant.                               *)
(***************************************************************************)
LEMMA ServedKeeps ==
    ASSUME LoadInv, pc = "serving", NEW c, NEW s, ServingGoesOn(c, s),
           ~ Strays /\ s.timers.made <= MaxTimers
               => s.defined /\ Settled(s, mode, slips)
    PROVE  StepKeeps
  <1>1. /\ UNCHANGED <<mode, walk, slips, ranOut>>
        /\ pc' = IF s.defined THEN pc ELSE "undefined"
        /\ connections' = s.connections /\ timers' = s.timers /\ counts' = s.counts
        /\ s.timers.made <= MaxTimers
    BY DEF ServingGoesOn, Becomes
  <1>2. WalkKept'
    BY <1>1 DEF LoadInv, WalkKept
  <1>3. ASSUME ~ Strays' PROVE InOrder'
    <2>1. ~ Strays
      BY <1>1, <1>3 DEF Strays
    <2>2. s.defined /\ Settled(s, mode, slips)
      BY <1>1, <2>1
    <2>3. pc' = "serving"
      BY <1>1, <2>2
    <2>4. /\ Orderly(s.connections, s.timers, mode, slips)
          /\ IsCount(s.counts) /\ Even(s.connections, s.timers, s.counts, mode, slips)
      BY <2>2 DEF Settled
    <2>5. mode.start = "parallel" /\ ranOut => slips # {}
      BY <2>1 DEF LoadInv, InOrder
    <2> QED BY <1>1, <2>3, <2>4, <2>5 DEF InOrder
  <1> QED BY <1>2, <1>3 DEF StepKeeps

LEMMA ClosingKeeps ==
    ASSUME NEW s, IsLoad(s), s.defined = TRUE, NEW m, m.slots \in Nat, NEW failed,
           Settled(s, m, failed),
           NEW c \in SlotsOf(m), s.connections[c].state # "FREE",
           NEW r, r = CloseConnection(s, c)
    PROVE  r.defined = TRUE /\ Settled(r, m, failed)
  <1> DEFINE i == s.connections[c].idle
             k == s.connections[c].wakeup
             con == s.connections
             w == s.timers
  <1>1. /\ IsLoad(r) /\ r.connections = WithSlot(con, c, Closed(con[c]))
        /\ r.counts = Tally(s.counts, -1, 0, 1)
        /\ IsPointer(w, i) /\ IsPointer(Without(w, i), k)
               => /\ r.timers = Without(Without(w, i), k)
                  /\ r.defined = s.defined
    BY ClosedIs
  <1>2. /\ Orderly(con, w, m, failed) /\ Kept(w, {})
        /\ IsCount(s.counts) /\ Even(con, w, s.counts, m, failed)
    BY DEF Settled, Orderly
  <1>3. /\ IsPointer(w, i) /\ IsPointer(Without(w, i), k)
        /\ Orderly(WithSlot(con, c, Closed(con[c])), Without(Without(w, i), k), m, failed)
        /\ ClosedIn(con, w, WithSlot(con, c, Closed(con[c])), Without(Without(w, i), k),
                    m, failed)
    BY <1>2, CloseKeeps
  <1> HIDE DEF i, k, con, w
  <1>4. /\ r.defined = TRUE /\ Orderly(r.connections, r.timers, m, failed)
        /\ ClosedIn(con, w, r.connections, r.timers, m, failed)
    BY <1>1, <1>3
  <1>5. Even(r.connections, r.timers, r.counts, m, failed)
    BY <1>1, <1>2, <1>4, ClosingIsEven
  <1> QED BY <1>1, <1>4, <1>5 DEF Settled, IsLoad

LEMMA RequestedKeeps ==
    ASSUME NEW s, IsLoad(s), s.defined = TRUE, NEW m, NEW failed,
           Settled(s, m, failed),
           NEW c \in SlotsOf(m), Runs(s.connections[c]), NEW r \in Requested(s, c)
    PROVE  r.defined = TRUE /\ Settled(r, m, failed)
  <1> DEFINE slot == s.connections[c]
  <1>0. Orderly(s.connections, s.timers, m, failed)
    BY DEF Settled
  <1>1. Slotted(s.connections, m) /\ IsSlot(slot)
    BY <1>0 DEF Orderly, Slotted
  <1>2. PICK n : r = [s EXCEPT !.connections[c].state = "HEADERS",
                               !.connections[c].response = n]
    BY DEF Requested
  <1> DEFINE half == [state |-> "HEADERS", idle |-> slot.idle, wakeup |-> slot.wakeup,
                      response |-> slot.response, read |-> slot.read,
                      header |-> slot.header]
             new == [state |-> "HEADERS", idle |-> slot.idle, wakeup |-> slot.wakeup,
                     response |-> n, read |-> slot.read, header |-> slot.header]
             p == [s EXCEPT !.connections[c].state = "HEADERS"]
  <1>3. [slot EXCEPT !.state = "HEADERS"] = half
    <2> HIDE DEF slot
    <2> QED BY <1>1 DEF IsSlot
  <1>4. [half EXCEPT !.response = n] = new
    <2> HIDE DEF slot
    <2> QED OBVIOUS
  <1>5. /\ IsSlot(new) /\ Runs(new) /\ new.idle = slot.idle /\ new.wakeup = slot.wakeup
    BY DEF IsSlot, Runs
  <1>6. r = [p EXCEPT !.connections[c].response = n]
    BY <1>2
  <1> HIDE DEF new, half
  <1>7. /\ p.connections = WithSlot(s.connections, c, half)
        /\ p.timers = s.timers /\ p.defined = s.defined /\ p.counts = s.counts
        /\ IsLoad(p)
    BY <1>3 DEF IsLoad, WithSlot
  <1> HIDE DEF p
  <1>8. p.connections[c] = half
    BY <1>1, <1>7 DEF WithSlot, Slotted
  <1>9. /\ r.connections = WithSlot(p.connections, c, new)
        /\ r.timers = p.timers /\ r.defined = p.defined /\ r.counts = p.counts
    BY <1>4, <1>6, <1>7, <1>8 DEF IsLoad, WithSlot
  <1>10. r.connections = WithSlot(s.connections, c, new)
    BY <1>1, <1>7, <1>9, SlotTwice
  <1>11. /\ Orderly(WithSlot(s.connections, c, new), s.timers, m, failed)
         /\ EvenStays(s.connections, s.timers, WithSlot(s.connections, c, new), s.timers, m)
    BY <1>0, <1>5, GoesOnKeeps
  <1>12. r.timers = s.timers /\ r.counts = s.counts /\ r.defined = TRUE
    BY <1>7, <1>9
  <1>13. Settled(r, m, failed)
    BY <1>10, <1>11, <1>12, SettledStill
  <1> QED BY <1>12, <1>13

LEMMA HandleConnectKeeps ==
    ASSUME LoadInv, NEW c \in Slots, HandleConnect(c) PROVE StepKeeps
  <1>1. PICK s \in {CloseConnection(load, c)} \cup Requested(load, c) : ServingGoesOn(c, s)
    BY DEF HandleConnect
  <1>2. pc = "serving" /\ connections[c].state = "CONNECTING"
    BY DEF HandleConnect, Serves
  <1>3. mode \in Modes /\ c \in SlotsOf(mode) /\ mode.slots \in Nat
    BY ModeTypes DEF LoadInv
  <1>4. ASSUME ~ Strays PROVE s.defined /\ Settled(s, mode, slips)
    <2>1. /\ Orderly(connections, timers, mode, slips)
          /\ IsCount(counts) /\ Even(connections, timers, counts, mode, slips)
      BY <1>4 DEF LoadInv, InOrder
    <2>2. /\ IsLoad(load) /\ load.connections = connections /\ load.defined = TRUE
          /\ Settled(load, mode, slips)
      BY <2>1, LoadIsLoad
    <2>3. load.connections[c].state # "FREE" /\ Runs(load.connections[c])
      BY <1>2, <2>2 DEF Runs
    <2>4. CASE s = CloseConnection(load, c)
      BY <1>3, <2>2, <2>3, <2>4, ClosingKeeps
    <2>5. CASE s \in Requested(load, c)
      BY <1>3, <2>2, <2>3, <2>5, RequestedKeeps
    <2> QED BY <1>1, <2>4, <2>5
  <1> QED BY <1>1, <1>2, <1>4, ServedKeeps

LEMMA TouchedIs ==
    ASSUME mode \in Modes, InOrder,
           NEW c \in SlotsOf(mode), Runs(connections[c])
    PROVE  /\ IsLoad(Touched(c)) /\ Touched(c).defined = TRUE
           /\ Touched(c).connections = connections
           /\ Settled(Touched(c), mode, slips)
           /\ Touched(c).timers.timer[connections[c].idle].left = IdleSecs
  <1> DEFINE t == connections[c].idle
             x == Reset(timers, t)
             r == Touched(c)
  <1>0. /\ Orderly(connections, timers, mode, slips)
        /\ IsCount(counts) /\ Even(connections, timers, counts, mode, slips)
    BY DEF InOrder
  <1>1. Kept(timers, {}) /\ IsWheel(timers)
    BY <1>0, WheelsAreWheels DEF Orderly
  <1>2. IsLoad(load) /\ load.connections = connections /\ load.timers = timers
        /\ load.defined = TRUE /\ Settled(load, mode, slips)
    BY <1>0, LoadIsLoad
  <1>3. x = Resorted([timers EXCEPT !.timer[t].left = timers.timer[t].secs], t)
    BY DEF Reset
  <1>4. /\ Orderly(connections, x, mode, slips) /\ x.timer[t].left = IdleSecs
        /\ EvenStays(connections, timers, connections, x, mode)
    BY <1>0, TouchedKeeps
  <1>9. t \in Live(timers)
    BY <1>0 DEF Orderly, SlotKept, IsTimer, Runs
  <1> HIDE DEF x, t
  <1>5. IsWheel(x)
    BY <1>1, <1>3, MadeStays
  <1>6. r = [load EXCEPT !.timers = x]
    BY <1>2, <1>9 DEF Touched, ResetIn, x, t
  <1>7. /\ IsLoad(r) /\ r.defined = TRUE /\ r.connections = connections /\ r.timers = x
        /\ r.counts = load.counts
    BY <1>2, <1>5, <1>6 DEF IsLoad
  <1> HIDE DEF r
  <1>8. Settled(r, mode, slips)
    BY <1>2, <1>4, <1>7, SettledStill
  <1> QED BY <1>4, <1>7, <1>8 DEF t, r

LEMMA ReadNothingKeeps ==
    ASSUME LoadInv, NEW c \in Slots, ReadNothing(c) PROVE StepKeeps
  <1> DEFINE s == CloseConnection(Touched(c), c)
  <1>1. ServingGoesOn(c, s)
    BY DEF ReadNothing
  <1>2. pc = "serving" /\ Runs(connections[c])
    BY DEF ReadNothing, IsReading, Serves, Runs
  <1>3. mode \in Modes /\ c \in SlotsOf(mode) /\ mode.slots \in Nat
    BY ModeTypes DEF LoadInv
  <1>4. ASSUME ~ Strays PROVE s.defined /\ Settled(s, mode, slips)
    <2> DEFINE u == Touched(c)
    <2>1. InOrder
      BY <1>4 DEF LoadInv
    <2>2. /\ IsLoad(u) /\ u.defined = TRUE
          /\ u.connections = connections /\ Settled(u, mode, slips)
      BY <1>2, <1>3, <2>1, TouchedIs
    <2> HIDE DEF u
    <2>3. u.connections[c].state # "FREE"
      BY <1>2, <2>2 DEF Runs
    <2>4. s = CloseConnection(u, c)
      BY DEF u
    <2> HIDE DEF s
    <2> QED BY <1>3, <2>2, <2>3, <2>4, ClosingKeeps
  <1> HIDE DEF s
  <1> QED BY <1>1, <1>2, <1>4, ServedKeeps

\* What was read is noted, and the connection goes on.
Noted(s, c, n, header, state) ==
    [s EXCEPT !.connections[c].read = @ + n,
              !.connections[c].header = header,
              !.connections[c].state = state]

Going(state) == state \notin {"FREE", "PAUSING"}

IsNoted(s, r, c, m, failed) ==
    /\ IsLoad(r) /\ r.defined = TRUE /\ r.timers = s.timers
    /\ Runs(r.connections[c])
    /\ r.connections[c].idle = s.connections[c].idle
    /\ Settled(r, m, failed)

LEMMA NotedKeeps ==
    ASSUME NEW s, IsLoad(s), s.defined = TRUE, NEW m, NEW failed,
           Settled(s, m, failed),
           NEW c \in SlotsOf(m), Runs(s.connections[c]),
           NEW n, NEW header, NEW state, Going(state),
           NEW r, r = Noted(s, c, n, header, state)
    PROVE  IsNoted(s, r, c, m, failed)
  <1> DEFINE con == s.connections
             slot == con[c]
             sum == slot.read + n
             one == [state |-> slot.state, idle |-> slot.idle, wakeup |-> slot.wakeup,
                     response |-> slot.response, read |-> sum, header |-> slot.header]
             two == [state |-> slot.state, idle |-> slot.idle, wakeup |-> slot.wakeup,
                     response |-> slot.response, read |-> sum, header |-> header]
             new == [state |-> state, idle |-> slot.idle, wakeup |-> slot.wakeup,
                     response |-> slot.response, read |-> sum, header |-> header]
             p == [s EXCEPT !.connections[c].read = sum]
             q == [p EXCEPT !.connections[c].header = header]
  <1>0. Orderly(con, s.timers, m, failed)
    BY DEF Settled
  <1>1. Slotted(con, m) /\ IsSlot(slot)
    BY <1>0 DEF Orderly, Slotted
  <1>2. r = [q EXCEPT !.connections[c].state = state]
    BY DEF Noted
  <1>3. [slot EXCEPT !.read = sum] = one
    <2> HIDE DEF slot, sum
    <2> QED BY <1>1 DEF IsSlot
  <1>4. [one EXCEPT !.header = header] = two /\ [two EXCEPT !.state = state] = new
    <2> HIDE DEF slot, sum
    <2> QED OBVIOUS
  <1>5. IsSlot(new) /\ Runs(new) /\ new.idle = slot.idle /\ new.wakeup = slot.wakeup
    BY DEF IsSlot, Runs, Going
  <1> HIDE DEF one, two, new, sum, q
  <1>6. /\ p.connections = WithSlot(con, c, one)
        /\ p.timers = s.timers /\ p.defined = s.defined /\ p.counts = s.counts
        /\ IsLoad(p)
    BY <1>3 DEF IsLoad, WithSlot
  <1> HIDE DEF p
  <1>7. p.connections[c] = one
    BY <1>1, <1>6 DEF WithSlot, Slotted
  <1>8. /\ q.connections = WithSlot(p.connections, c, two)
        /\ q.timers = p.timers /\ q.defined = p.defined /\ q.counts = p.counts
        /\ IsLoad(q)
    BY <1>4, <1>6, <1>7 DEF IsLoad, WithSlot, q
  <1>9. q.connections = WithSlot(con, c, two)
    BY <1>1, <1>6, <1>8, SlotTwice
  <1>10. q.connections[c] = two
    BY <1>1, <1>9 DEF WithSlot, Slotted
  <1>11. /\ r.connections = WithSlot(q.connections, c, new)
         /\ r.timers = q.timers /\ r.defined = q.defined /\ r.counts = q.counts
         /\ IsLoad(r)
    BY <1>2, <1>4, <1>8, <1>10 DEF IsLoad, WithSlot
  <1>12. r.connections = WithSlot(con, c, new)
    BY <1>1, <1>9, <1>11, SlotTwice
  <1>13. r.connections[c] = new
    BY <1>1, <1>12 DEF WithSlot, Slotted
  <1>14. /\ Orderly(WithSlot(con, c, new), s.timers, m, failed)
         /\ EvenStays(con, s.timers, WithSlot(con, c, new), s.timers, m)
    BY <1>0, <1>5, GoesOnKeeps
  <1>15. r.timers = s.timers /\ r.counts = s.counts /\ r.defined = TRUE
    BY <1>6, <1>8, <1>11
  <1>16. Settled(r, m, failed)
    BY <1>12, <1>14, <1>15, SettledStill
  <1> QED BY <1>5, <1>11, <1>13, <1>15, <1>16 DEF IsNoted

LEMMA PausedKeeps ==
    ASSUME NEW s, IsLoad(s), s.defined = TRUE, NEW m, m.slots \in Nat, m.throttle,
           NEW failed, Settled(s, m, failed),
           NEW c \in SlotsOf(m), Runs(s.connections[c]),
           1 <= s.timers.timer[s.connections[c].idle].left,
           NEW r, r = Paused(s, c)
    PROVE  /\ IsLoad(r)
           /\ r.timers.made <= MaxTimers =>
                  /\ r.defined = TRUE /\ Settled(r, m, failed)
                  /\ r.connections[c].state # "FREE"
  <1> DEFINE con == s.connections
             slot == con[c]
             w == s.timers
             k == Unused(w)
             x == MadeOnce(w, "wakeup", c, 1)
             half == [state |-> "PAUSING", idle |-> slot.idle, wakeup |-> slot.wakeup,
                      response |-> slot.response, read |-> slot.read,
                      header |-> slot.header]
             new == [state |-> "PAUSING", idle |-> slot.idle, wakeup |-> k,
                     response |-> slot.response, read |-> slot.read,
                     header |-> slot.header]
             p == [s EXCEPT !.connections[c].state = "PAUSING"]
             q == [p EXCEPT !.connections[c].wakeup = k]
  <1>0. Orderly(con, w, m, failed)
    BY DEF Settled
  <1>1. Slotted(con, m) /\ IsSlot(slot) /\ IsWheel(w) /\ w \in Wheels
    BY <1>0 DEF Orderly, Slotted, IsLoad, Kept
  <1>2. r = [q EXCEPT !.timers = x]
    BY Zenon DEF Paused, MadeOnce
  <1>3. [slot EXCEPT !.state = "PAUSING"] = half
    <2> HIDE DEF slot
    <2> QED BY <1>1 DEF IsSlot
  <1>4. [half EXCEPT !.wakeup = k] = new
    <2> HIDE DEF slot, k
    <2> QED OBVIOUS
  <1>5. IsSlot(new) /\ new.state = "PAUSING" /\ new.idle = slot.idle /\ new.wakeup = k
    BY DEF IsSlot
  <1>6. IsWheel(x)
    BY <1>1, CreatedGrows DEF MadeOnce
  <1> HIDE DEF half, new, k, x, q, w
  <1>7. /\ p.connections = WithSlot(con, c, half)
        /\ p.timers = w /\ p.defined = s.defined /\ p.counts = s.counts /\ IsLoad(p)
    BY <1>3 DEF IsLoad, WithSlot, w
  <1> HIDE DEF p
  <1>8. p.connections[c] = half
    BY <1>1, <1>7 DEF WithSlot, Slotted
  <1>9. /\ q.connections = WithSlot(p.connections, c, new)
        /\ q.timers = p.timers /\ q.defined = p.defined /\ q.counts = p.counts
        /\ IsLoad(q)
    BY <1>4, <1>7, <1>8 DEF IsLoad, WithSlot, q
  <1>10. q.connections = WithSlot(con, c, new)
    BY <1>1, <1>7, <1>9, SlotTwice
  <1>11. /\ r.connections = q.connections /\ r.timers = x /\ r.defined = q.defined
         /\ r.counts = q.counts /\ IsLoad(r)
    BY <1>2, <1>6, <1>9 DEF IsLoad
  <1>12. r.connections[c] = new
    BY <1>1, <1>10, <1>11 DEF WithSlot, Slotted
  <1>13. ASSUME r.timers.made <= MaxTimers
         PROVE  Settled(r, m, failed)
    <2>1. k \in Ids
      BY <1>1, <1>11, <1>13, OnceMakes DEF x, k
    <2>2. /\ Orderly(WithSlot(con, c, new), x, m, failed)
          /\ EvenStays(con, w, WithSlot(con, c, new), x, m)
      BY <1>0, <1>5, <2>1, PauseKeeps DEF w, x, k
    <2>3. r.counts = s.counts /\ r.connections = WithSlot(con, c, new) /\ r.timers = x
      BY <1>7, <1>9, <1>10, <1>11
    <2> QED BY <2>2, <2>3, SettledStill DEF w
  <1> QED BY <1>5, <1>7, <1>9, <1>11, <1>12, <1>13

LEMMA TakenIs ==
    ASSUME mode \in Modes, InOrder,
           NEW c \in SlotsOf(mode), Runs(connections[c]), NEW n,
           NEW s, s = Taken(c, n)
    PROVE  /\ IsLoad(s) /\ s.defined = TRUE
           /\ Settled(s, mode, slips)
           /\ Runs(s.connections[c])
           /\ s.timers.timer[s.connections[c].idle].left = IdleSecs
  <1> DEFINE u == Touched(c)
             slot == connections[c]
             text == Texts[slot.response][slot.read + 1, slot.read + n]
             header == Header(slot.header, text)
             state == IF header.state = "END" THEN "READING" ELSE "HEADERS"
  <1>1. /\ IsLoad(u) /\ u.defined = TRUE
        /\ u.connections = connections /\ Settled(u, mode, slips)
        /\ u.timers.timer[connections[c].idle].left = IdleSecs
    BY TouchedIs
  <1>2. s = Noted(u, c, n, header, state)
    BY DEF Taken, Noted
  <1>3. Going(state)
    BY DEF Going
  <1> HIDE DEF u, header, state
  <1>4. Settled(u, mode, slips) /\ Runs(u.connections[c])
    BY <1>1
  <1> HIDE DEF slot, text
  <1>5. /\ IsLoad(s) /\ s.defined = TRUE /\ s.timers = u.timers
        /\ Runs(s.connections[c])
        /\ s.connections[c].idle = u.connections[c].idle
        /\ Settled(s, mode, slips)
    <2>1. IsLoad(u) /\ u.defined = TRUE
      BY <1>1
    <2>2. IsNoted(u, Noted(u, c, n, header, state), c, mode, slips)
      BY <2>1, <1>3, <1>4, NotedKeeps
    <2> QED BY <1>2, <2>2 DEF IsNoted
  <1> QED BY <1>1, <1>5

\* A pause of one second is not longer than the -timeout.
PausesAreShort == \A m \in Modes : m.throttle => IdleSecs >= 1

LEMMA ReadKeeps ==
    ASSUME LoadInv, PausesAreShort, NEW c \in Slots, NEW n, Read(c, n) PROVE StepKeeps
  <1> DEFINE s == Taken(c, n)
             hasBody == s.connections[c].header.bytes > connections[c].header.bytes
             paces == IF hasBody /\ mode.throttle THEN {s, Paused(s, c)} ELSE {s}
             done(t) == hasBody /\ IsWhole(t, c)
  <1>1. PICK t \in paces :
            ServingGoesOn(c, IF done(t) THEN CloseConnection(t, c) ELSE t)
    BY DEF Read
  <1>2. pc = "serving" /\ Runs(connections[c])
    BY DEF Read, IsReading, Serves, Runs
  <1>3. mode \in Modes /\ c \in SlotsOf(mode) /\ mode.slots \in Nat /\ IdleSecs \in Nat
    BY ModeTypes DEF LoadInv
  <1>4. t = s \/ (mode.throttle /\ t = Paused(s, c))
    BY <1>1
  <1> HIDE DEF s, hasBody
  <1>5. ASSUME ~ Strays
        PROVE  /\ IsLoad(t)
               /\ t.timers.made <= MaxTimers =>
                      /\ t.defined = TRUE /\ Settled(t, mode, slips)
                      /\ t.connections[c].state # "FREE"
    <2>1. InOrder
      BY <1>5 DEF LoadInv
    <2>2. /\ IsLoad(s) /\ s.defined = TRUE
          /\ Settled(s, mode, slips)
          /\ Runs(s.connections[c])
          /\ s.timers.timer[s.connections[c].idle].left = IdleSecs
      BY <1>2, <1>3, <2>1, TakenIs DEF s
    <2>3. CASE t = s
      BY <2>2, <2>3 DEF Runs
    <2>4. CASE mode.throttle /\ t = Paused(s, c)
      <3>1. 1 <= s.timers.timer[s.connections[c].idle].left
        BY <1>3, <2>2, <2>4 DEF PausesAreShort
      <3> QED BY <1>3, <2>2, <2>4, <3>1, PausedKeeps
    <2> QED BY <1>4, <2>3, <2>4
  <1>6. CASE done(t)
    <2> DEFINE r == CloseConnection(t, c)
    <2>1. ServingGoesOn(c, r)
      BY <1>1, <1>6
    <2> HIDE DEF r
    <2>2. ASSUME ~ Strays, r.timers.made <= MaxTimers
          PROVE  r.defined /\ Settled(r, mode, slips)
      <3>1. r.timers.made = t.timers.made
        BY <1>5, <2>2, ClosedIs DEF r
      <3>2. /\ IsLoad(t) /\ t.defined = TRUE
            /\ Settled(t, mode, slips)
            /\ t.connections[c].state # "FREE"
        BY <1>5, <2>2, <3>1
      <3> QED BY <1>3, <3>2, ClosingKeeps DEF r
    <2> QED BY <1>2, <2>1, <2>2, ServedKeeps
  <1>7. CASE ~ done(t)
    <2>1. ServingGoesOn(c, t)
      BY <1>1, <1>7
    <2> QED BY <1>2, <1>5, <2>1, ServedKeeps
  <1> QED BY <1>6, <1>7

-----------------------------------------------------------------------------
(***************************************************************************)
(* Calling a timer that is due keeps the invariant.                        *)
(***************************************************************************)
LEMMA WalkKeeps ==
    ASSUME LoadInv, pc = "timing", mode' = mode, SlipsGo(slips, slips'),
           NEW s, WalkGoesOn(s),
           NEW r, r = Ended(s, walk.next),
           ~ Strays' /\ r.timers.made <= MaxTimers =>
               /\ r.defined = TRUE
               /\ Settled(r, mode, slips')
               /\ NextIn(timers, walk.next) \in Live(r.timers) \cup {0}
    PROVE  StepKeeps
  <1> DEFINE next == NextIn(timers, walk.next)
  <1>1. /\ walk' = [walk EXCEPT !.next = next]
        /\ pc' = IF r.defined THEN pc ELSE "undefined"
        /\ connections' = r.connections /\ timers' = r.timers /\ counts' = r.counts
        /\ r.timers.made <= MaxTimers /\ ranOut' = ranOut
    BY DEF WalkGoesOn, Becomes
  <1> HIDE DEF next
  <1>2. walk' = [bucket |-> walk.bucket, next |-> next, back |-> walk.back]
    BY <1>1 DEF LoadInv, WalkKept
  <1>3. WalkKept'
    BY <1>2 DEF LoadInv, WalkKept
  <1>4. ASSUME ~ Strays' PROVE InOrder'
    <2>1. /\ r.defined = TRUE /\ Settled(r, mode, slips')
          /\ next \in Live(r.timers) \cup {0}
      BY <1>1, <1>4 DEF next
    <2>2. pc' = "timing" /\ walk'.next = next
      BY <1>1, <1>2, <2>1
    <2>3. /\ Orderly(r.connections, r.timers, mode, slips')
          /\ IsCount(r.counts) /\ Even(r.connections, r.timers, r.counts, mode, slips')
      BY <2>1 DEF Settled
    <2>4. mode.start = "parallel" /\ ranOut => slips' # {}
      BY <1>4, SlipsStayed DEF LoadInv, InOrder, SlipsGo
    <2> QED BY <1>1, <2>1, <2>2, <2>3, <2>4 DEF InOrder
  <1> QED BY <1>3, <1>4 DEF StepKeeps

\* What a timer says that is in order.
LEMMA DueIs ==
    ASSUME LoadInv, ~ Strays, pc = "timing", walk.next \in Live(timers)
    PROVE  /\ mode \in Modes /\ mode.slots \in Nat
           /\ Orderly(connections, timers, mode, slips) /\ Kept(timers, {})
           /\ IsLoad(load) /\ load.connections = connections
           /\ load.timers = timers /\ load.defined = TRUE
           /\ Settled(load, mode, slips)
           /\ Slotted(connections, mode)
           /\ timers.timer[walk.next].proc # "start" =>
                  ~ timers.timer[walk.next].periodic /\ Client \in SlotsOf(mode)
           /\ 0 \notin Live(timers)
  <1>1. mode \in Modes /\ mode.slots \in Nat
    BY ModeTypes DEF LoadInv
  <1>2. /\ Orderly(connections, timers, mode, slips)
        /\ IsCount(counts) /\ Even(connections, timers, counts, mode, slips)
    BY DEF LoadInv, InOrder
  <1>3. /\ Kept(timers, {}) /\ Slotted(connections, mode)
        /\ TimerKept(connections, timers, mode, walk.next, slips)
    BY <1>2 DEF Orderly
  <1>4. 0 \notin Live(timers)
    BY <1>3, LiveIsListed, WheelTypes DEF Kept
  <1>5. /\ IsLoad(load) /\ load.connections = connections
        /\ load.timers = timers /\ load.defined = TRUE /\ Settled(load, mode, slips)
    BY <1>2, LoadIsLoad
  <1> QED BY <1>1, <1>2, <1>3, <1>4, <1>5 DEF TimerKept, Client

\* The idle timer of a connection is forgotten.
Forgot(s, c) == [s EXCEPT !.connections[c].idle = 0]

LEMMA ForgotIs ==
    ASSUME NEW s, IsLoad(s), NEW m, Slotted(s.connections, m), NEW c \in SlotsOf(m),
           NEW r, r = CloseConnection(Forgot(s, c), c),
           NEW slot, slot = Closed(Forgot(s, c).connections[c]),
           NEW k, k = s.connections[c].wakeup,
           IsPointer(s.timers, k), 0 \notin Live(s.timers)
    PROVE  /\ IsLoad(r) /\ r.defined = s.defined
           /\ r.connections = WithSlot(s.connections, c, slot)
           /\ r.timers = Without(s.timers, k)
           /\ r.counts = Tally(s.counts, -1, 0, 1)
           /\ IsSlot(slot) /\ slot.state = "FREE" /\ slot.wakeup = k
  <1> DEFINE con == s.connections
             old == con[c]
             half == [state |-> old.state, idle |-> 0, wakeup |-> k,
                      response |-> old.response, read |-> old.read, header |-> old.header]
             f == Forgot(s, c)
  <1>1. IsSlot(old)
    BY DEF Slotted
  <1>2. [old EXCEPT !.idle = 0] = half
    <2> HIDE DEF old
    <2>1. k = old.wakeup
      BY DEF old
    <2> QED BY <1>1, <2>1 DEF IsSlot
  <1>3. half.idle = 0 /\ half.wakeup = k
    OBVIOUS
  <1> HIDE DEF half
  <1>4. /\ f.connections = WithSlot(con, c, half)
        /\ f.timers = s.timers /\ f.defined = s.defined /\ f.counts = s.counts
        /\ IsLoad(f)
    BY <1>2 DEF IsLoad, WithSlot, Forgot
  <1> HIDE DEF f
  <1>5. f.connections[c] = half
    BY <1>4 DEF WithSlot, Slotted
  <1>6. slot = Closed(half)
    BY <1>5 DEF f
  <1>7. IsSlot(slot) /\ slot.state = "FREE" /\ slot.wakeup = k
    BY <1>3, <1>6, ClosedIsFree DEF IsSlot
  <1>8. /\ IsPointer(f.timers, 0) /\ IsPointer(Without(f.timers, 0), k)
        /\ Without(Without(f.timers, 0), k) = Without(s.timers, k)
    BY <1>4 DEF Without, IsPointer
  <1>9. /\ IsLoad(r) /\ r.connections = WithSlot(f.connections, c, Closed(half))
        /\ r.timers = Without(s.timers, k) /\ r.defined = f.defined
        /\ r.counts = Tally(f.counts, -1, 0, 1)
    <2>1. r = CloseConnection(f, c)
      BY DEF f
    <2> QED BY <1>3, <1>4, <1>5, <1>8, <2>1, ClosedIs
  <1>10. r.connections = WithSlot(con, c, slot)
    BY <1>4, <1>6, <1>9, SlotTwice
  <1> QED BY <1>4, <1>7, <1>9, <1>10

LEMMA IdleConnectionKeeps ==
    ASSUME LoadInv, IdleConnection
    PROVE  StepKeeps /\ (~ Strays' => IdleKept(timers, timers', {walk.next}))
  <1> DEFINE t == walk.next
             c == Client
             s == CloseConnection(Forgot(load, c), c)
             r == Ended(s, t)
             k == connections[c].wakeup
             slot == Closed(Forgot(load, c).connections[c])
  <1>1. /\ pc = "timing" /\ t \in Live(timers) /\ timers.timer[t].proc = "idle"
        /\ mode' = mode /\ slips' = slips /\ WalkGoesOn(s)
    BY DEF IdleConnection, Calls, WalkGoesOn, Forgot
  <1>2. ASSUME ~ Strays'
        PROVE  /\ r.defined = TRUE
               /\ Settled(r, mode, slips')
               /\ NextIn(timers, t) \in Live(r.timers) \cup {0}
               /\ IdleKept(timers, r.timers, {t})
    <2>1. ~ Strays /\ (mode.throttle => "socket" \notin slips)
      BY <1>1, <1>2 DEF Strays
    <2>2. /\ Orderly(connections, timers, mode, slips) /\ Kept(timers, {})
          /\ IsLoad(load) /\ load.connections = connections
          /\ load.timers = timers /\ load.defined = TRUE
          /\ Settled(load, mode, slips)
          /\ Slotted(connections, mode) /\ mode.slots \in Nat
          /\ ~ timers.timer[t].periodic /\ c \in SlotsOf(mode)
          /\ 0 \notin Live(timers)
      BY <1>1, <2>1, DueIs
    <2> HIDE DEF t, c
    <2>3. IsSlot(connections[c])
      BY <2>2 DEF Slotted
    <2>4. IsSlot(slot) /\ slot.state = "FREE" /\ slot.wakeup = k
      <3> DEFINE f == Forgot(load, c)
      <3>1. f.connections[c].wakeup = connections[c].wakeup
        BY <2>2, <2>3 DEF Forgot, IsLoad, Slotted, IsSlot
      <3> HIDE DEF f
      <3> QED BY <3>1, ClosedIsFree DEF IsSlot, f
    <2> HIDE DEF s, k, slot
    <2>5. /\ c \in SlotsOf(mode) /\ IsPointer(timers, k) /\ IsPointer(Without(timers, k), t)
          /\ Orderly(WithSlot(connections, c, slot), Without(Without(timers, k), t),
                     mode, slips)
          /\ NextIn(timers, t) \in Live(Without(Without(timers, k), t)) \cup {0}
          /\ ClosedIn(connections, timers, WithSlot(connections, c, slot),
                      Without(Without(timers, k), t), mode, slips)
          /\ IdleKept(timers, Without(Without(timers, k), t), {t})
      BY <1>1, <2>1, <2>2, <2>4, ExpiredKeeps DEF c, t, k, Client
    <2>6. /\ IsLoad(s) /\ s.defined = TRUE
          /\ s.connections = WithSlot(connections, c, slot)
          /\ s.timers = Without(timers, k) /\ s.counts = Tally(load.counts, -1, 0, 1)
      BY <2>2, <2>5, ForgotIs DEF s, k, slot
    <2>7. IsPointer(s.timers, t) /\ ~ s.timers.timer[t].periodic
      <3>1. t \in Live(Without(timers, k))
        BY <1>1, <2>2, <2>5 DEF IsPointer, t
      <3>2. Less(timers, Without(timers, k), {k})
        BY <2>2, <2>5, WithoutKeeps
      <3> QED BY <2>2, <2>5, <2>6, <3>1, <3>2 DEF Less
    <2>8. /\ r.connections = s.connections /\ r.defined = TRUE
          /\ r.timers = Without(s.timers, t) /\ r.counts = s.counts /\ IsLoad(r)
      BY <2>6, <2>7, EndedIs
    <2> HIDE DEF r
    <2>9. /\ Orderly(r.connections, r.timers, mode, slips)
          /\ ClosedIn(connections, timers, r.connections, r.timers, mode, slips)
          /\ r.counts = Tally(load.counts, -1, 0, 1) /\ IsCount(r.counts)
      BY <2>5, <2>6, <2>8 DEF IsLoad
    <2>10. /\ Even(connections, timers, load.counts, mode, slips) /\ IsCount(load.counts)
      BY <2>2 DEF Settled
    <2>11. Even(r.connections, r.timers, r.counts, mode, slips)
      BY <2>2, <2>9, <2>10, ClosingIsEven
    <2>12. Settled(r, mode, slips')
      BY <1>1, <2>9, <2>11 DEF Settled
    <2> QED BY <2>5, <2>6, <2>8, <2>12
  <1>3. SlipsGo(slips, slips')
    BY <1>1 DEF SlipsGo
  <1>4. timers' = r.timers
    BY <1>1 DEF WalkGoesOn, Becomes
  <1> HIDE DEF s
  <1>5. StepKeeps
    BY <1>1, <1>2, <1>3, WalkKeeps
  <1> QED BY <1>2, <1>4, <1>5

LEMMA WakeupConnectionKeeps ==
    ASSUME LoadInv, WakeupConnection
    PROVE  StepKeeps /\ (~ Strays' => IdleKept(timers, timers', {}))
  <1> DEFINE t == walk.next
             c == Client
             s == [load EXCEPT !.connections[c].wakeup = 0,
                               !.connections[c].state = "READING"]
             r == Ended(s, t)
             old == connections[c]
             half == [state |-> old.state, idle |-> old.idle, wakeup |-> 0,
                      response |-> old.response, read |-> old.read, header |-> old.header]
             slot == [state |-> "READING", idle |-> old.idle, wakeup |-> 0,
                      response |-> old.response, read |-> old.read, header |-> old.header]
  <1>1. /\ pc = "timing" /\ t \in Live(timers) /\ timers.timer[t].proc = "wakeup"
        /\ mode' = mode /\ slips' = slips /\ WalkGoesOn(s)
    BY DEF WakeupConnection, Calls, WalkGoesOn
  <1>2. ASSUME ~ Strays'
        PROVE  /\ r.defined = TRUE
               /\ Settled(r, mode, slips')
               /\ NextIn(timers, t) \in Live(r.timers) \cup {0}
               /\ IdleKept(timers, r.timers, {})
    <2>1. ~ Strays
      BY <1>1, <1>2 DEF Strays
    <2>2. /\ Orderly(connections, timers, mode, slips)
          /\ IsLoad(load) /\ load.connections = connections
          /\ load.timers = timers /\ load.defined = TRUE
          /\ Settled(load, mode, slips)
          /\ Slotted(connections, mode)
          /\ ~ timers.timer[t].periodic /\ c \in SlotsOf(mode)
      BY <1>1, <2>1, DueIs
    <2> DEFINE p == [load EXCEPT !.connections[c].wakeup = 0]
    <2> HIDE DEF c, t
    <2>3. [old EXCEPT !.wakeup = 0] = half
      <3>1. IsSlot(old)
        BY <2>2 DEF Slotted
      <3> HIDE DEF old
      <3> QED BY <3>1 DEF IsSlot
    <2>4. [half EXCEPT !.state = "READING"] = slot
      <3> HIDE DEF old
      <3> QED OBVIOUS
    <2>5. IsSlot(slot) /\ Runs(slot) /\ slot.idle = connections[c].idle /\ slot.wakeup = 0
      BY DEF IsSlot, Runs
    <2>6. s = [p EXCEPT !.connections[c].state = "READING"]
      OBVIOUS
    <2> HIDE DEF s, half, slot
    <2>7. /\ p.connections = WithSlot(connections, c, half)
          /\ p.timers = timers /\ p.defined = TRUE /\ p.counts = load.counts /\ IsLoad(p)
      <3>1. [load.connections[c] EXCEPT !.wakeup = 0] = half
        BY <2>2, <2>3
      <3>2. /\ p.connections = WithSlot(load.connections, c, half)
            /\ p.timers = load.timers /\ p.defined = load.defined
            /\ p.counts = load.counts /\ IsLoad(p)
        <4>1. IsLoad(load)
          BY <2>2
        <4> QED BY <3>1, <4>1 DEF IsLoad, WithSlot
      <3> QED BY <2>2, <3>2
    <2> HIDE DEF p
    <2>8. p.connections[c] = half
      BY <2>2, <2>7 DEF WithSlot, Slotted
    <2>9. /\ s.connections = WithSlot(p.connections, c, slot)
          /\ s.timers = timers /\ s.defined = TRUE /\ s.counts = load.counts /\ IsLoad(s)
      BY <2>4, <2>6, <2>7, <2>8 DEF IsLoad, WithSlot
    <2>10. s.connections = WithSlot(connections, c, slot)
      BY <2>2, <2>7, <2>9, SlotTwice
    <2>11. IsPointer(s.timers, t) /\ ~ s.timers.timer[t].periodic
      BY <1>1, <2>2, <2>9 DEF IsPointer, t
    <2>12. /\ r.connections = s.connections /\ r.defined = TRUE
           /\ r.timers = Without(timers, t) /\ r.counts = load.counts
      BY <2>9, <2>11, EndedIs
    <2> HIDE DEF r
    <2>13. /\ Orderly(WithSlot(connections, c, slot), Without(timers, t), mode, slips)
           /\ NextIn(timers, t) \in Live(Without(timers, t)) \cup {0}
           /\ EvenStays(connections, timers, WithSlot(connections, c, slot),
                        Without(timers, t), mode)
           /\ IdleKept(timers, Without(timers, t), {})
      BY <1>1, <2>2, <2>5, WokenKeeps DEF c, t, Client
    <2>14. /\ Orderly(r.connections, r.timers, mode, slips)
           /\ EvenStays(load.connections, load.timers, r.connections, r.timers, mode)
      BY <2>2, <2>10, <2>12, <2>13
    <2>15. Settled(r, mode, slips)
      BY <2>2, <2>12, <2>14, SettledStill
    <2> QED BY <1>1, <2>12, <2>13, <2>15
  <1>3. SlipsGo(slips, slips')
    BY <1>1 DEF SlipsGo
  <1>4. timers' = r.timers
    BY <1>1 DEF WalkGoesOn, Becomes
  <1> HIDE DEF s
  <1>5. StepKeeps
    BY <1>1, <1>2, <1>3, WalkKeeps
  <1> QED BY <1>2, <1>4, <1>5

LEMMA StartedKeeps ==
    ASSUME NEW con, NEW w, Kept(w, {}), NEW t \in Live(w), w.timer[t].proc = "start",
           NEW s, IsLoad(s), s.defined = TRUE, NEW m, NEW failed,
           Settled(s, m, failed), Stay(w, s.timers, Live(w)),
           m.start = "rate" \/ \E u \in StartTimers(s.timers) : u # t,
           NEW r, r = Ended(s, t)
    PROVE  /\ r.defined = TRUE
           /\ Settled(r, m, failed)
           /\ NextIn(w, t) \in Live(r.timers) \cup {0}
  <1> DEFINE x == s.timers
  <1>1. t \in Live(x) /\ x.timer[t].proc = "start" /\ Live(w) \subseteq Live(x)
    BY DEF Stay, Agree
  <1>2. IsPointer(x, t)
    BY <1>1 DEF IsPointer
  <1>3. /\ r.connections = s.connections /\ r.defined = TRUE /\ r.counts = s.counts
        /\ r.timers = IF x.timer[t].periodic THEN Rescheduled(x, t) ELSE Without(x, t)
    BY <1>2, EndedIs
  <1>4. /\ Orderly(s.connections, Without(x, t), m, failed)
        /\ Live(Without(x, t)) = Live(x) \ {t}
        /\ SameFetches(s.connections, x, s.connections, Without(x, t), m)
        /\ StartTimers(Without(x, t)) = StartTimers(x) \ {t}
        /\ Orderly(s.connections, Rescheduled(x, t), m, failed)
        /\ Live(Rescheduled(x, t)) = Live(x)
        /\ EvenStays(s.connections, x, s.connections, Rescheduled(x, t), m)
    BY <1>1, StartEnds DEF Settled
  <1>5. NextIn(w, t) \in Live(w) \cup {0} /\ NextIn(w, t) # t
    BY NextIsBehind
  <1>6. t \in StartTimers(x) /\ StartsGoOn(x, m)
    BY <1>1 DEF StartTimers, Named, Settled, Even
  <1>7. m.start = "rate" \/ \E u \in StartTimers(x) : u # t
    OBVIOUS
  <1> HIDE DEF x
  <1>8. Live(x) \ {t} \subseteq Live(r.timers)
    BY <1>3, <1>4
  <1>9. Settled(r, m, failed)
    <2>1. CASE x.timer[t].periodic
      BY <1>3, <1>4, <2>1, SettledStill DEF x
    <2>2. CASE ~ x.timer[t].periodic
      <3>1. r.timers = Without(x, t) /\ m.start # "rate" /\ m.start # "parallel"
        BY <1>3, <1>6, <2>2 DEF StartsGoOn
      <3>2. StartsGoOn(r.timers, m)
        BY <1>4, <1>7, <3>1 DEF StartsGoOn
      <3> QED BY <1>3, <1>4, <3>1, <3>2, SettledAnew DEF x
    <2> QED BY <2>1, <2>2
  <1> QED BY <1>1, <1>3, <1>5, <1>8, <1>9

\* A state, unless it passes the bound, that a fetch was started in.
IsStarted(s, w, m, failed) ==
    /\ IsLoad(s)
    /\ s.timers.made <= MaxTimers =>
           /\ s.defined = TRUE
           /\ Settled(s, m, failed)
           /\ Stay(w, s.timers, Live(w))

\* -jitter makes the next timer.
LEMMA JitteredKeeps ==
    ASSUME NEW s, NEW w, NEW m, NEW failed, IsStarted(s, w, m, failed), NEW n \in Nat,
           m.start \notin {"parallel", "rate"},
           NEW r, r = [s EXCEPT !.timers = MadeOnce(s.timers, "start", 0, n)]
    PROVE  /\ IsStarted(r, w, m, failed)
           /\ r.timers.made <= MaxTimers => \E u \in StartTimers(r.timers) : u \notin Live(w)
  <1> DEFINE v == s.timers
             x == MadeOnce(v, "start", 0, n)
  <1>0. IsLoad(s)
    BY DEF IsStarted
  <1>1. IsWheel(v) /\ v.made \in Nat
    BY <1>0 DEF IsLoad, IsWheel
  <1>2. IsWheel(x) /\ x.made >= v.made /\ x.made \in Nat
    <2>1. PICK p : p = FALSE
      OBVIOUS
    <2>2. x = Created(v, "start", 0, n, p)
      BY <2>1, Zenon DEF MadeOnce
    <2> HIDE DEF x, v
    <2>3. IsWheel(x) /\ x.made >= v.made
      BY <1>1, <2>2, CreatedGrows
    <2> QED BY <2>3 DEF IsWheel
  <1> HIDE DEF x
  <1>3. /\ IsLoad(r) /\ r.timers = x /\ r.connections = s.connections
        /\ r.defined = s.defined /\ r.counts = s.counts
    BY <1>0, <1>2 DEF IsLoad, x
  <1>4. ASSUME x.made <= MaxTimers
        PROVE  /\ s.defined = TRUE /\ Settled(r, m, failed) /\ Stay(w, x, Live(w))
               /\ \E u \in StartTimers(x) : u \notin Live(w)
    <2>1. MaxTimers \in Nat
      BY TimersAssumption
    <2>2. v.made <= MaxTimers
      BY <1>1, <1>2, <1>4, <2>1
    <2>3. /\ s.defined = TRUE /\ Settled(s, m, failed) /\ Orderly(s.connections, v, m, failed)
          /\ Stay(w, v, Live(w))
      BY <2>2 DEF IsStarted, Settled
    <2>4. v \in Wheels
      BY <2>3 DEF Orderly, Kept
    <2>5. Unused(v) \in Ids
      BY <1>4, <2>4, OnceMakes DEF x
    <2> HIDE DEF v
    <2>6. /\ Orderly(s.connections, x, m, failed) /\ Stay(v, x, Live(v))
          /\ SameFetches(s.connections, v, s.connections, x, m)
          /\ Unused(v) \in StartTimers(x) \ Live(v)
      BY <2>3, <2>5, StartMade DEF x
    <2>7. Live(w) \subseteq Live(v)
      BY <2>3 DEF Stay
    <2>8. Stay(v, x, Live(w))
      BY <2>6, <2>7, StayFewer
    <2>9. Live(w) \subseteq Live(w)
      OBVIOUS
    <2>10. Stay(w, x, Live(w))
      BY <2>3, <2>8, <2>9, StayOn
    <2>11. StartsGoOn(x, m)
      BY <2>6 DEF StartsGoOn
    <2>12. Settled(r, m, failed)
      BY <1>3, <2>3, <2>6, <2>11, SettledAnew DEF v
    <2> QED BY <2>3, <2>6, <2>7, <2>10, <2>12
  <1> HIDE DEF v
  <1> QED BY <1>3, <1>4 DEF IsStarted

LEMMA StartTimerKeeps ==
    ASSUME LoadInv, StartTimer PROVE StepKeeps
  <1> DEFINE t == walk.next
             c == Min(FreeSlots)
  <1>1. /\ pc = "timing" /\ t \in Live(timers) /\ timers.timer[t].proc = "start"
        /\ FreeSlots # {}
    BY DEF StartTimer, Calls
  <1>2. PICK start \in Starts(c) :
            /\ slips' = start.slips
            /\ IF mode.start = "rate" THEN WalkGoesOn(start.load)
               ELSE \E n \in Intervals :
                   WalkGoesOn([start.load EXCEPT !.timers = Created(@, "start", 0, n, FALSE)])
    BY DEF StartTimer
  <1>3. mode' = mode
    BY <1>2 DEF WalkGoesOn
  <1>4. SlipsGo(slips, slips')
    BY <1>2, StartsSlip
  <1>5. ~ Strays' => mode.start # "parallel"
    BY <1>1, <1>3, <1>4, SlipsStayed
       DEF LoadInv, InOrder, Even, StartsGoOn, StartTimers, Named
  <1>6. ~ Strays' => IsStarted(start.load, timers, mode, slips')
    <2>1. ASSUME ~ Strays'
          PROVE  /\ Orderly(connections, timers, mode, slips)
                 /\ IsCount(counts) /\ Even(connections, timers, counts, mode, slips)
      BY <1>3, <1>4, <2>1, SlipsStayed DEF LoadInv, InOrder
    <2>2. mode \in Modes /\ c \in SlotsOf(mode) /\ connections[c].state = "FREE"
      BY <1>1, FreeSlotIs DEF LoadInv
    <2> HIDE DEF c
    <2> QED BY <1>2, <1>5, <2>1, <2>2, StartsKeep DEF IsStarted
  <1>7. ~ Strays' => Kept(timers, {})
    BY <1>3, <1>4, SlipsStayed DEF LoadInv, InOrder, Orderly
  <1> HIDE DEF t, c
  <1>8. ASSUME NEW s, WalkGoesOn(s), ~ Strays' => IsStarted(s, timers, mode, slips'),
               ~ Strays' /\ s.timers.made <= MaxTimers
                   => mode.start = "rate" \/ \E u \in StartTimers(s.timers) : u # t
        PROVE  StepKeeps
    <2> DEFINE r == Ended(s, t)
    <2>1. ASSUME ~ Strays', r.timers.made <= MaxTimers
          PROVE  /\ r.defined = TRUE
                 /\ Settled(r, mode, slips')
                 /\ NextIn(timers, t) \in Live(r.timers) \cup {0}
      <3>1. IsLoad(s) /\ r.timers.made = s.timers.made
        BY <1>8, <2>1, EndedIs DEF IsStarted
      <3>2. /\ s.defined = TRUE /\ Settled(s, mode, slips')
            /\ Stay(timers, s.timers, Live(timers))
            /\ mode.start = "rate" \/ \E u \in StartTimers(s.timers) : u # t
        BY <1>8, <2>1, <3>1 DEF IsStarted
      <3> QED BY <1>1, <1>7, <2>1, <3>1, <3>2, StartedKeeps
    <2> QED BY <1>1, <1>3, <1>8, <2>1, <1>4, WalkKeeps DEF t
  <1>9. CASE mode.start = "rate"
    BY <1>2, <1>6, <1>8, <1>9
  <1>10. CASE mode.start # "rate"
    <2>1. PICK n \in Intervals :
              WalkGoesOn([start.load EXCEPT !.timers = Created(@, "start", 0, n, FALSE)])
      BY <1>2, <1>10
    <2> DEFINE s == [start.load EXCEPT !.timers = MadeOnce(start.load.timers, "start", 0, n)]
    <2>2. WalkGoesOn(s)
      BY <2>1, Zenon DEF MadeOnce
    <2>3. n \in Nat
      BY LoadAssumption
    <2>4. ~ Strays' => /\ IsStarted(s, timers, mode, slips')
                       /\ s.timers.made <= MaxTimers
                              => \E u \in StartTimers(s.timers) : u \notin Live(timers)
      <3>1. ~ Strays' => mode.start \notin {"parallel", "rate"}
        BY <1>5, <1>10
      <3> QED BY <1>6, <2>3, <3>1, JitteredKeeps
    <2> HIDE DEF s
    <2> QED BY <1>1, <1>8, <2>2, <2>4
  <1> QED BY <1>9, <1>10

-----------------------------------------------------------------------------
(***************************************************************************)
(* The initial state.                                                      *)
(***************************************************************************)
LEMMA NothingIsListed ==
    /\ \A h \in Buckets : NoTimers.lists[h] = <<>>
    /\ NoTimers.free = <<>> /\ NoTimers.made = 0 /\ NoTimers.clock = 0
    /\ NoTimers.timer = [t \in Ids |-> NoTimer]
    /\ NoTimers.lists = [h \in Buckets |-> <<>>]
    /\ Len(<<>>) = 0 /\ ToSet(<<>>) = {} /\ Live(NoTimers) = {}
  <1>1. \A h \in Buckets : NoTimers.lists[h] = <<>>
    BY DEF NoTimers
  <1>2. ToSet(<<>>) = {} /\ Len(<<>>) = 0
    BY DEF ToSet
  <1>3. Live(NoTimers) = {}
    BY <1>1, <1>2 DEF Live
  <1> QED BY <1>1, <1>2, <1>3 DEF NoTimers

LEMMA NoTimersKept ==
    Kept(NoTimers, {}) /\ Unused(NoTimers) \in Ids
  <1> DEFINE w == NoTimers
  <1>1. /\ \A h \in Buckets : w.lists[h] = <<>>
        /\ w.free = <<>> /\ w.made = 0
        /\ Len(<<>>) = 0 /\ ToSet(<<>>) = {} /\ Live(w) = {}
    BY NothingIsListed
  <1>2. MaxTimers \in Nat \ {0} /\ HashSize \in Nat \ {0}
    BY TimersAssumption
  <1>3. NoTimer \in TimerRecords
    BY <1>2 DEF NoTimer, TimerRecords, Buckets
  <1>4. w \in Wheels
    <2>1. [t \in Ids |-> NoTimer] \in [Ids -> TimerRecords]
      BY <1>3
    <2>2. [h \in Buckets |-> <<>>] \in [Buckets -> Seq(Ids)]
      OBVIOUS
    <2> QED BY <1>2, <2>1, <2>2 DEF NoTimers, Wheels
  <1>5. Unused(w) \in Ids
    BY <1>1, <1>2 DEF Unused, Ids
  <1> HIDE DEF w
  <1>6. \A h \in Buckets : ListKept(w, h)
    BY <1>1 DEF ListKept, Distinct
  <1>7. Placed(w, {})
    BY <1>1 DEF Placed, Distinct
  <1> QED BY <1>4, <1>5, <1>6, <1>7 DEF Kept, w

LEMMA InitKept ==
    ASSUME Init PROVE LoadInv
  <1>1. /\ mode \in Modes /\ mode.slots \in Nat /\ Slots = SlotsOf(mode) /\ 0 \in Buckets
    BY ModeTypes DEF Init
  <1>2. WalkKept
    BY <1>1 DEF Init, NoWalk, WalkKept
  <1>3. connections = [c \in SlotsOf(mode) |-> FreeSlot]
    BY <1>1 DEF Init
  <1>4. \A c \in SlotsOf(mode) : connections[c] = FreeSlot
    BY <1>3
  <1>5. Slotted(connections, mode)
    <2>1. IsSlot(FreeSlot)
      BY DEF IsSlot, FreeSlot
    <2>2. connections = [c \in SlotsOf(mode) |-> connections[c]]
      BY <1>3
    <2> QED BY <1>4, <2>1, <2>2 DEF Slotted
  <1>6. ASSUME NEW c \in SlotsOf(mode), NEW w PROVE SlotKept(connections, w, mode, c)
    BY <1>4 DEF SlotKept, FreeSlot
  <1>7. /\ Kept(timers, {}) /\ \A t \in Live(timers) : timers.timer[t].proc = "start"
        /\ mode.start = "parallel" <=> Live(timers) = {}
        /\ mode.start = "rate" => \A t \in Live(timers) : timers.timer[t].periodic
    <2>1. CASE mode.start = "parallel"
      <3>1. timers = NoTimers
        BY <2>1 DEF Init
      <3> QED BY <2>1, <3>1, NoTimersKept, NothingIsListed
    <2>2. CASE mode.start # "parallel"
      <3>1. PICK n \in Intervals :
                timers = Created(NoTimers, "start", 0, n, mode.start = "rate")
        BY <2>2 DEF Init
      <3>2. PICK p \in BOOLEAN : p = (mode.start = "rate")
        OBVIOUS
      <3>3. timers = Created(NoTimers, "start", 0, n, p)
        BY <3>1, <3>2, Zenon
      <3>4. n \in Nat /\ 0 \in Nat
        BY LoadAssumption
      <3>5. /\ Kept(timers, {})
            /\ Live(timers) = Live(NoTimers) \cup {Unused(NoTimers)}
            /\ timers.timer[Unused(NoTimers)].proc = "start"
            /\ timers.timer[Unused(NoTimers)].periodic = p
        BY <3>3, <3>4, NoTimersKept, CreatedKeeps
      <3> QED BY <2>2, <3>2, <3>5, NothingIsListed
    <2> QED BY <2>1, <2>2
  <1>8. \A t \in Live(timers) : TimerKept(connections, timers, mode, t, slips)
    BY <1>7 DEF TimerKept
  <1>9. Orderly(connections, timers, mode, slips)
    BY <1>5, <1>6, <1>7, <1>8 DEF Orderly
  <1>10. pc = "top" /\ ~ ranOut
    BY DEF Init
  <1>11. IsCount(counts) /\ counts.current = 0 /\ counts.started = 0 /\ counts.completed = 0
    BY DEF Init, IsCount
  <1>12. IdleTimers(timers) = {} /\ InUse(connections, mode) = {}
    BY <1>4, <1>7 DEF IdleTimers, Named, InUse, FreeSlot
  <1>13. StartTimers(timers) = Live(timers) /\ StartsGoOn(timers, mode)
    BY <1>7 DEF StartsGoOn, StartTimers, Named
  <1>14. Even(connections, timers, counts, mode, slips)
    BY <1>10, <1>11, <1>12, <1>13, FS_EmptySet DEF Even
  <1> QED BY <1>1, <1>2, <1>9, <1>10, <1>11, <1>14 DEF LoadInv, InOrder

-----------------------------------------------------------------------------
(***************************************************************************)
(* Every step.                                                             *)
(***************************************************************************)
LEMMA ModeStays == ASSUME [Next]_vars PROVE mode' = mode
  BY DEF Next, Turn, Serve, RunTimers, Stopped, vars, Finish, BeginTurn, StartParallel,
         StartParallelFails, StartsEnd, Select, ServingEnds, HandleConnect, ReadNothing,
         Read, ServingGoesOn, NextBucket, WalkIsLost, IdleConnection, WakeupConnection,
         StartTimer, StartTimerFails, WalkGoesOn, RunOut

LEMMA NextKeeps ==
    ASSUME PausesAreShort, LoadInv, [Next]_vars PROVE LoadInv'
  <1>1. mode' = mode
    BY ModeStays
  <1>2. StepKeeps
    <2>1. CASE Turn
      BY <2>1, QuietSteps, StartParallelKeeps, SelectKeeps DEF Turn
    <2>2. CASE Serve
      BY <2>2, HandleConnectKeeps, ReadNothingKeeps, ReadKeeps DEF Serve
    <2>3. CASE RunTimers
      BY <2>3, QuietSteps, IdleConnectionKeeps, WakeupConnectionKeeps, StartTimerKeeps
         DEF RunTimers
    <2>4. CASE Stopped \/ UNCHANGED vars
      BY <2>4, QuietSteps DEF Stopped
    <2> QED BY <2>1, <2>2, <2>3, <2>4 DEF Next
  <1> QED BY <1>1, <1>2 DEF StepKeeps, LoadInv

\* Unless there are pauses and a -timeout of 0, whatever select, the sockets and
\* the servers do, the timers and the connections stay in order
\* (http_load.c:837, 1502, 1529).
THEOREM LoadStaysInOrder == PausesAreShort => (Spec => []LoadInv)
  <1> SUFFICES ASSUME PausesAreShort PROVE Spec => []LoadInv
    OBVIOUS
  <1>1. Init => LoadInv
    BY InitKept
  <1>2. LoadInv /\ [Next]_vars => LoadInv'
    BY NextKeeps
  <1> QED BY <1>1, <1>2, PTL DEF Spec

\* No timer is freed twice or used after it was freed, and the lists stay
\* sorted, also while tmr_run walks them (timers.c:246).
THEOREM TimersStaySound == PausesAreShort => (Spec => []TimersAreSound)
  <1> SUFFICES ASSUME PausesAreShort PROVE Spec => []TimersAreSound
    OBVIOUS
  <1>1. LoadInv => TimersAreSound
    <2>1. LoadInv /\ ~ Strays => pc # "undefined" /\ Kept(timers, {})
      BY DEF LoadInv, InOrder, Orderly
    <2> QED BY <2>1, KeptIsSound DEF TimersAreSound
  <1>2. Spec => []LoadInv
    BY LoadStaysInOrder
  <1> QED BY <1>1, <1>2, PTL

LEMMA OrderlyIsTimed ==
    ASSUME LoadInv, ~ Strays
    PROVE  /\ \A c \in Busy : connections[c].idle \in TimersOf("idle", {c})
           /\ \A c \in Slots : TimersOf("wakeup", {c}) =
                  IF connections[c].state = "PAUSING" THEN {connections[c].wakeup} ELSE {}
           /\ "socket" \notin slips =>
                  TimersOf("idle", Slots) = {connections[c].idle : c \in Busy}
  <1>1. Slots = SlotsOf(mode)
    BY ModeTypes DEF LoadInv
  <1>2. /\ \A c \in Slots : SlotKept(connections, timers, mode, c)
        /\ \A t \in Live(timers) : TimerKept(connections, timers, mode, t, slips)
    BY <1>1 DEF LoadInv, InOrder, Orderly
  <1>3. ASSUME NEW c \in Busy
        PROVE  c \in Slots /\ connections[c].idle \in TimersOf("idle", {c})
    BY <1>2 DEF SlotKept, IsTimer, Busy, TimersOf
  <1>4. ASSUME NEW c \in Slots, NEW t \in TimersOf("wakeup", {c})
        PROVE  connections[c].state = "PAUSING" /\ t = connections[c].wakeup
    <2>1. t \in Live(timers) /\ timers.timer[t].proc = "wakeup" /\ timers.timer[t].client = c
      BY <1>4 DEF TimersOf
    <2> QED BY <1>2, <2>1 DEF TimerKept
  <1>5. ASSUME NEW c \in Slots, connections[c].state = "PAUSING"
        PROVE  connections[c].wakeup \in TimersOf("wakeup", {c})
    BY <1>2, <1>5 DEF SlotKept, IsTimer, TimersOf
  <1>6. ASSUME NEW t \in TimersOf("idle", Slots), "socket" \notin slips
        PROVE  t \in {connections[c].idle : c \in Busy}
    <2> DEFINE c == timers.timer[t].client
    <2>1. t \in Live(timers) /\ timers.timer[t].proc = "idle" /\ c \in Slots
      BY <1>6 DEF TimersOf
    <2>2. connections[c].state # "FREE" /\ connections[c].idle = t
      BY <1>2, <1>6, <2>1 DEF TimerKept
    <2> QED BY <2>1, <2>2 DEF Busy
  <1>7. \A c \in Busy : connections[c].idle \in TimersOf("idle", Slots)
    BY <1>3 DEF TimersOf
  <1> QED BY <1>3, <1>4, <1>5, <1>6, <1>7

\* A connection in use is watched by a timer of its own, and has one to wake it
\* up exactly when it pauses (http_load.c:837, 1502, 1529).
THEOREM SlotsStayTimed == PausesAreShort => (Spec => []SlotsAreTimed)
  <1> SUFFICES ASSUME PausesAreShort PROVE Spec => []SlotsAreTimed
    OBVIOUS
  <1>1. LoadInv => SlotsAreTimed
    BY OrderlyIsTimed DEF SlotsAreTimed
  <1>2. Spec => []LoadInv
    BY LoadStaysInOrder
  <1> QED BY <1>1, <1>2, PTL

LEMMA OrderlyIsCounted ==
    ASSUME LoadInv PROVE FetchesAreCounted
  <1>1. Slots = SlotsOf(mode)
    BY ModeTypes DEF LoadInv
  <1>2. slips = {} => ~ Strays
    BY DEF Strays
  <1>3. ASSUME ~ Strays
        PROVE  /\ slips = {} => counts.current = Cardinality(Busy)
               /\ counts.started = counts.completed + Cardinality(TimersOf("idle", Slots))
               /\ mode.start = "parallel" /\ ranOut => slips # {}
    <2>1. InOrder
      BY <1>3 DEF LoadInv
    <2>2. Even(connections, timers, counts, mode, slips)
      BY <2>1 DEF InOrder
    <2>3. Busy = InUse(connections, mode)
      BY <1>1 DEF Busy, InUse
    <2>4. \A t \in Live(timers) : TimerKept(connections, timers, mode, t, slips)
      BY <2>1 DEF InOrder, Orderly
    <2>5. \A t \in Live(timers) :
              timers.timer[t].proc = "idle" => timers.timer[t].client \in Slots
      BY <1>1, <2>4 DEF TimerKept
    <2>6. TimersOf("idle", Slots) = IdleTimers(timers)
      BY <2>5 DEF TimersOf, IdleTimers, Named
    <2> QED BY <2>1, <2>2, <2>3, <2>6 DEF Even, InOrder
  <1> QED BY <1>2, <1>3 DEF FetchesAreCounted, Strays

-----------------------------------------------------------------------------
(***************************************************************************)
(* What the program waits for.                                             *)
(***************************************************************************)
\* The loop that starts connections counts from 0.
LoopInv ==
    started # 0 => \/ pc \in {"starting", "done", "undefined"}
                   \/ pc = "timing" /\ walk.back = "starting"

LEMMA LoopStays ==
    ASSUME LoadInv, LoopInv, [Next]_vars PROVE LoopInv'
  <1>1. CASE started' = 0
    BY <1>1 DEF LoopInv
  <1>2. CASE UNCHANGED vars
    BY <1>2 DEF LoopInv, vars
  <1>3. CASE Turn /\ started' # 0
    <2>1. CASE Finish \/ StartParallelFails
      BY <1>3, <2>1 DEF Finish, StartParallelFails, RunOut, LoopInv
    <2>2. CASE BeginTurn \/ Select \/ ServingEnds
      BY <1>3, <2>2 DEF BeginTurn, Select, ServingEnds, LoopInv
    <2>3. CASE StartsEnd
      BY <1>3, <2>3 DEF StartsEnd
    <2>4. CASE StartParallel
      <3>1. pc' = "timing" /\ walk' = FirstTimer(timers', "starting")
        BY <2>4 DEF StartParallel
      <3> QED BY <3>1 DEF FirstTimer, LoopInv
    <2> QED BY <1>3, <2>1, <2>2, <2>3, <2>4 DEF Turn
  <1>4. CASE Serve /\ started' # 0
    <2>1. pc = "serving" /\ started' = started
      BY <1>4 DEF Serve, HandleConnect, ReadNothing, Read, IsReading, Serves, ServingGoesOn
    <2> QED BY <1>4, <2>1 DEF LoopInv
  <1>5. CASE RunTimers /\ started' # 0
    <2>1. pc = "timing" /\ started' = started
      BY <1>5 DEF RunTimers, NextBucket, WalkIsLost, IdleConnection, WakeupConnection,
         StartTimer, StartTimerFails, RunOut, Calls, WalkGoesOn
    <2>2. walk.back = "starting"
      BY <1>5, <2>1 DEF LoopInv
    <2>3. \/ pc' \in {"starting", "done", "undefined"}
          \/ pc' = "timing" /\ walk'.back = walk.back
      <3>1. walk = [bucket |-> walk.bucket, next |-> walk.next, back |-> walk.back]
        BY DEF LoadInv, WalkKept
      <3>2. CASE NextBucket
        <4>1. \/ \E n : walk' = [walk EXCEPT !.bucket = @ + 1, !.next = n] /\ pc' = pc
              \/ pc' = walk.back
          BY <3>2 DEF NextBucket
        <4> QED BY <2>1, <2>2, <3>1, <4>1
      <3>3. CASE WalkIsLost \/ StartTimerFails
        BY <3>3 DEF WalkIsLost, StartTimerFails, RunOut
      <3>4. CASE IdleConnection \/ WakeupConnection \/ StartTimer
        <4>1. \E n : walk' = [walk EXCEPT !.next = n] /\ pc' \in {pc, "undefined"}
          BY <3>4 DEF IdleConnection, WakeupConnection, StartTimer, WalkGoesOn
        <4> QED BY <2>1, <3>1, <4>1
      <3> QED BY <1>5, <3>2, <3>3, <3>4 DEF RunTimers
    <2> QED BY <2>2, <2>3 DEF LoopInv
  <1> QED BY <1>1, <1>2, <1>3, <1>4, <1>5 DEF Next, Stopped

\* With -parallel, while nothing strays and every request was sent.
Attended == mode.start = "parallel" /\ ~ Strays /\ "write" \notin slips

\* Connections are started for fetches that are wanted, or a fetch waits.
PendingInv ==
    Attended =>
        /\ pc = "starting" => \/ Pending(timers)
                              \/ started = 0 /\ counts.completed < mode.fetches
        /\ pc = "timing" /\ walk.back = "starting" => Pending(timers)
        /\ pc = "selecting" => Live(timers) # {}

WaitInv == LoadInv /\ LoopInv /\ PendingInv

LEMMA AttendedBefore ==
    ASSUME WaitInv, mode' = mode, Attended', SlipsGo(slips, slips')
    PROVE  Attended
  BY SlipsStayed DEF Attended, SlipsGo

LEMMA PendingIsLive ==
    ASSUME NEW w, Pending(w) PROVE Live(w) # {}
  BY DEF Pending, IdleTimers, Named

\* When no more connections are started, one is under way.
LEMMA StartsEndAttended ==
    ASSUME WaitInv, StartsEnd, Attended PROVE Live(timers) # {}
  <1>1. pc = "starting" /\ ~ MayStart
    BY DEF StartsEnd
  <1>2. CASE Pending(timers)
    BY <1>2, PendingIsLive
  <1>3. CASE started = 0 /\ counts.completed < mode.fetches
    <2>1. /\ Orderly(connections, timers, mode, slips)
          /\ IsCount(counts) /\ Even(connections, timers, counts, mode, slips)
      BY DEF WaitInv, LoadInv, InOrder, Attended
    <2>2. /\ mode.slots \in Nat \ {0} /\ mode.fetches \in Nat \ {0}
          /\ StartsPerLoop \in Nat \ {0}
      BY LoadAssumption DEF WaitInv, LoadInv
    <2>3. counts.current >= mode.slots \/ counts.started >= mode.fetches
      BY <1>1, <1>3, <2>1, <2>2 DEF MayStart, IsCount
    <2>4. CASE counts.current >= mode.slots
      <3>1. counts.current <= Cardinality(InUse(connections, mode))
        BY <2>1 DEF Even, Attended
      <3>2. InUse(connections, mode) # {}
        <4>1. Cardinality({}) = 0
          BY FS_EmptySet
        <4> QED BY <2>1, <2>2, <2>4, <3>1, <4>1 DEF IsCount
      <3>3. PICK c \in SlotsOf(mode) : connections[c].state # "FREE"
        BY <3>2 DEF InUse
      <3>4. SlotKept(connections, timers, mode, c)
        BY <2>1 DEF Orderly
      <3> QED BY <3>3, <3>4 DEF SlotKept, IsTimer
    <2>5. CASE counts.started >= mode.fetches
      <3>1. counts.started = counts.completed + Cardinality(IdleTimers(timers))
        BY <2>1 DEF Even
      <3>2. IdleTimers(timers) # {}
        <4>1. Cardinality({}) = 0
          BY FS_EmptySet
        <4> QED BY <1>3, <2>1, <2>2, <2>5, <3>1, <4>1 DEF IsCount
      <3> QED BY <3>2 DEF IdleTimers, Named
    <2> QED BY <2>3, <2>4, <2>5
  <1> QED BY <1>1, <1>2, <1>3 DEF WaitInv, PendingInv

LEMMA PendingStays ==
    ASSUME TurnsAreShort, WaitInv, mode' = mode, [Next]_vars, Attended' PROVE PendingInv'
  <1>1. SlipsGo(slips, slips')
    <2>1. CASE StartParallel \/ StartTimer
      BY <2>1, StartsSlip DEF StartParallel, StartTimer
    <2>2. CASE slips' = slips
      BY <2>2 DEF SlipsGo
    <2>3. Turn => StartParallel \/ slips' = slips
      BY DEF Turn, Finish, BeginTurn, StartParallelFails, StartsEnd, Select, ServingEnds,
         RunOut
    <2>4. Serve => slips' = slips
      BY DEF Serve, HandleConnect, ReadNothing, Read, ServingGoesOn
    <2>5. RunTimers => StartTimer \/ slips' = slips
      BY DEF RunTimers, NextBucket, WalkIsLost, IdleConnection, WakeupConnection,
         StartTimerFails, RunOut
    <2>6. Stopped \/ UNCHANGED vars => slips' = slips
      BY DEF Stopped, vars
    <2> QED BY <2>1, <2>2, <2>3, <2>4, <2>5, <2>6 DEF Next
  <1>2. Attended
    BY <1>1, AttendedBefore
  <1>3. LoadInv /\ LoopInv /\ PendingInv /\ ~ Strays /\ ~ Strays'
    BY <1>2 DEF WaitInv, Attended
  <1>4. CASE UNCHANGED vars
    BY <1>2, <1>3, <1>4 DEF PendingInv, vars
  <1>5. CASE Turn
    <2>1. CASE Finish \/ StartParallelFails \/ Select \/ ServingEnds
      <3>1. \/ pc' \in {"done", "serving"}
            \/ pc' = "timing" /\ walk'.back = "top"
        BY <2>1 DEF Finish, StartParallelFails, RunOut, Select, ServingEnds, FirstTimer
      <3> QED BY <3>1 DEF PendingInv
    <2>2. CASE BeginTurn
      <3>1. /\ pc = "top" /\ pc' = "starting" /\ counts.completed < mode.fetches
            /\ UNCHANGED <<mode, timers, counts, started>>
        BY <1>2, <2>2 DEF BeginTurn, Attended
      <3> QED BY <1>3, <3>1 DEF PendingInv, LoopInv
    <2>3. CASE StartParallel
      <3>1. pc' = "timing" /\ Pending(timers')
        BY <1>3, <2>3, StartParallelKeeps DEF StartParallel, Attended
      <3> QED BY <3>1 DEF PendingInv
    <2>4. CASE StartsEnd
      <3>1. pc' = "selecting" /\ timers' = timers
        BY <2>4 DEF StartsEnd
      <3>2. Live(timers) # {}
        BY <1>2, <2>4, StartsEndAttended
      <3> QED BY <3>1, <3>2 DEF PendingInv
    <2> QED BY <1>5, <2>1, <2>2, <2>3, <2>4 DEF Turn
  <1>6. CASE Serve
    <2>1. pc' \in {"serving", "undefined"}
      BY <1>6 DEF Serve, HandleConnect, ReadNothing, Read, IsReading, Serves, ServingGoesOn
    <2> QED BY <2>1 DEF PendingInv
  <1>7. CASE RunTimers
    <2>1. /\ pc = "timing"
          /\ walk = [bucket |-> walk.bucket, next |-> walk.next, back |-> walk.back]
          /\ walk.back \in {"top", "starting"}
      BY <1>3, <1>7 DEF LoadInv, WalkKept, RunTimers, NextBucket, WalkIsLost, IdleConnection,
         WakeupConnection, StartTimer, StartTimerFails, Calls
    <2>2. CASE NextBucket
      <3>1. /\ timers' = timers
            /\ \/ \E n : walk' = [walk EXCEPT !.bucket = @ + 1, !.next = n] /\ pc' = pc
               \/ pc' = walk.back
        BY <2>2 DEF NextBucket
      <3>2. timers' = timers /\ ((pc' = "timing" /\ walk'.back = walk.back) \/ pc' = walk.back)
        BY <2>1, <3>1
      <3> QED BY <1>2, <1>3, <2>1, <3>2 DEF PendingInv
    <2>3. CASE WalkIsLost \/ StartTimerFails
      <3>1. pc' \in {"undefined", "done"}
        BY <2>3 DEF WalkIsLost, StartTimerFails, RunOut
      <3> QED BY <3>1 DEF PendingInv
    <2>4. CASE StartTimer
      <3>1. walk.next \in StartTimers(timers)
        BY <2>4 DEF StartTimer, Calls, StartTimers, Named
      <3>2. StartTimers(timers) = {}
        BY <1>2, <1>3 DEF LoadInv, InOrder, Even, StartsGoOn, Attended
      <3> QED BY <3>1, <3>2
    <2>5. CASE IdleConnection \/ WakeupConnection
      <3>1. /\ walk.next \in Live(timers) /\ timers.timer[walk.next].left <= 0
            /\ \E n : walk' = [walk EXCEPT !.next = n]
            /\ pc' \in {"timing", "undefined"}
        BY <2>1, <2>5 DEF IdleConnection, WakeupConnection, Calls, IsDue, WalkGoesOn
      <3>2. walk'.back = walk.back
        BY <2>1, <3>1
      <3>3. \A p \in IdleTimers(timers) \ {walk.next} :
                p \in IdleTimers(timers') /\ timers'.timer[p] = timers.timer[p]
        BY <1>3, <2>5, IdleConnectionKeeps, WakeupConnectionKeeps DEF IdleKept
      <3>4. ASSUME Pending(timers) PROVE Pending(timers')
        <4>1. PICK p \in IdleTimers(timers) : timers.timer[p].left > 0
          BY <3>4 DEF Pending
        <4>2. Kept(timers, {})
          BY <1>3 DEF LoadInv, InOrder, Orderly
        <4>3. timers.timer[p].left \in Int
          <5>1. timers \in Wheels /\ p \in Ids
            BY <4>1, <4>2, LiveIsListed DEF Kept, IdleTimers, Named
          <5> QED BY <5>1, WheelTypes
        <4>4. p # walk.next
          BY <3>1, <4>1, <4>3
        <4> QED BY <3>3, <4>1, <4>4 DEF Pending
      <3> QED BY <1>2, <1>3, <2>1, <3>1, <3>2, <3>4 DEF PendingInv
    <2> QED BY <1>7, <2>2, <2>3, <2>4, <2>5 DEF RunTimers
  <1> QED BY <1>4, <1>5, <1>6, <1>7 DEF Next, Stopped

-----------------------------------------------------------------------------
(***************************************************************************)
(* With -parallel no more fetches are started than wanted, also while      *)
(* timers stray.  No timer starts one, nor is any periodic.                *)
(***************************************************************************)
Plain(w) ==
    Kept(w, {}) /\ \A t \in Live(w) : w.timer[t].proc # "start" /\ ~ w.timer[t].periodic

\* Unless the bound is passed.
IsPlain(s) == IsLoad(s) /\ (s.timers.made <= MaxTimers => Plain(s.timers))

\* Only the connections change, and whether what is done is defined.
LEMMA PlainStill ==
    ASSUME NEW s, IsPlain(s), NEW v
    PROVE  LET r == [s EXCEPT !.connections = v]
           IN  IsPlain(r) /\ r.timers = s.timers /\ r.counts = s.counts
  BY DEF IsPlain, IsLoad

LEMMA PlainCancelled ==
    ASSUME NEW s, IsPlain(s), NEW t, NEW r, r = CancelledIn(s, t)
    PROVE  IsPlain(r) /\ r.counts = s.counts
  <1>1. IsLoad(s) /\ IsLoad(r) /\ r.counts = s.counts /\ r.timers.made = s.timers.made
    BY CancelledInIs DEF IsPlain
  <1>2. CASE t \in Live(s.timers) /\ t # 0
    <2>1. r.timers = Cancelled(s.timers, t)
      BY <1>1, <1>2, CancelledInIs DEF IsPointer, Without
    <2>2. ASSUME Plain(s.timers) PROVE Plain(r.timers)
      <3>1. /\ Kept(r.timers, {}) /\ Live(r.timers) = Live(s.timers) \ {t}
            /\ \A u \in Live(r.timers) : r.timers.timer[u] = s.timers.timer[u]
        BY <1>2, <2>1, <2>2, CancelledKeeps DEF Plain
      <3> QED BY <2>2, <3>1 DEF Plain
    <2> QED BY <1>1, <2>2 DEF IsPlain
  <1>3. CASE ~ (t \in Live(s.timers) /\ t # 0)
    <2>1. r = s \/ r = [s EXCEPT !.defined = FALSE]
      BY <1>3 DEF CancelledIn
    <2>2. r.timers = s.timers
      BY <1>1, <2>1 DEF IsLoad
    <2> QED BY <1>1, <2>2 DEF IsPlain
  <1> QED BY <1>2, <1>3

\* A timer that is not periodic does not become so by being cancelled.
LEMMA NoneIsPeriodic ==
    ASSUME NEW s, IsLoad(s), s.timers \in Wheels, NEW t \in Ids,
           ~ s.timers.timer[t].periodic, NEW k, NEW r, r = CancelledIn(s, k)
    PROVE  ~ r.timers.timer[t].periodic
  <1> DEFINE w == s.timers
             y == Removed(w, k)
  <1>1. CASE k \in Live(w) /\ k # 0
    <2>1. r = [s EXCEPT !.timers = Cancelled(w, k)]
      BY <1>1 DEF CancelledIn
    <2>2. r.timers = Cancelled(w, k)
      BY <2>1 DEF IsLoad
    <2>3. y.timer = w.timer /\ y = [lists |-> y.lists, free |-> y.free, made |-> y.made,
                                    clock |-> y.clock, timer |-> y.timer]
      BY DEF Removed, IsLoad, IsWheel
    <2>4. r.timers = [y EXCEPT !.free = <<k>> \o @, !.timer[k] = NoTimer]
      BY <2>2 DEF Cancelled
    <2> HIDE DEF y
    <2>5. r.timers.timer = [y.timer EXCEPT ![k] = NoTimer]
      BY <2>3, <2>4
    <2>6. y.timer = [u \in Ids |-> y.timer[u]]
      BY <2>3 DEF Wheels
    <2>7. r.timers.timer[t] = IF t = k THEN NoTimer ELSE w.timer[t]
      BY <2>3, <2>5, <2>6
    <2> QED BY <2>7 DEF NoTimer
  <1>2. CASE ~ (k \in Live(w) /\ k # 0)
    <2>1. r = s \/ r = [s EXCEPT !.defined = FALSE]
      BY <1>2 DEF CancelledIn
    <2> QED BY <2>1 DEF IsLoad
  <1> QED BY <1>1, <1>2

LEMMA PlainClosed ==
    ASSUME NEW s, IsPlain(s), NEW c, NEW r, r = CloseConnection(s, c)
    PROVE  /\ IsPlain(r) /\ r.counts.started = s.counts.started
           /\ \A t \in Live(s.timers) :
                  Plain(s.timers) => t \in Ids /\ ~ r.timers.timer[t].periodic
  <1> DEFINE i == s.connections[c].idle
             k == s.connections[c].wakeup
             x == CancelledIn(s, i)
             y == CancelledIn(x, k)
             v == [FreeSlot EXCEPT !.idle = i, !.wakeup = k]
  <1>1. IsLoad(r) /\ r.timers.made = s.timers.made /\ r.counts = Tally(s.counts, -1, 0, 1)
    BY ClosedIs DEF IsPlain
  <1>2. IsCount(s.counts)
    BY DEF IsPlain, IsLoad
  <1>3. r.counts.started = s.counts.started
    <2>1. r.counts.started = s.counts.started + 0
      BY <1>1 DEF Tally
    <2> QED BY <1>2, <2>1 DEF IsCount
  <1>4. IsPlain(x) /\ IsPlain(y)
    BY PlainCancelled
  <1>5. r.timers = y.timers
    <2>1. r = [y EXCEPT !.connections[c] = v, !.counts.current = @ - 1,
                        !.counts.completed = @ + 1]
      BY DEF CloseConnection
    <2>2. IsLoad(y)
      BY <1>4 DEF IsPlain
    <2> HIDE DEF y, v
    <2> QED BY <2>1, <2>2 DEF IsLoad
  <1>6. ASSUME Plain(s.timers), NEW t \in Live(s.timers)
        PROVE  t \in Ids /\ ~ r.timers.timer[t].periodic
    <2>1. s.timers \in Wheels /\ t \in Ids /\ ~ s.timers.timer[t].periodic
      BY <1>6, LiveIsListed DEF Plain, Kept
    <2>2. IsLoad(s) /\ IsLoad(x)
      BY <1>4 DEF IsPlain
    <2>3. ~ x.timers.timer[t].periodic
      BY <2>1, <2>2, NoneIsPeriodic
    <2>4. x.timers \in Wheels
      <3>1. x.timers.made = s.timers.made
        BY <2>2, CancelledInIs
      <3>2. s.timers.made <= MaxTimers
        BY <2>1 DEF Wheels
      <3> QED BY <1>4, <3>1, <3>2 DEF IsPlain, Plain, Kept
    <2> HIDE DEF x
    <2>5. ~ y.timers.timer[t].periodic
      BY <2>2, <2>1, <2>3, <2>4, NoneIsPeriodic
    <2> QED BY <1>5, <2>1, <2>5
  <1> QED BY <1>1, <1>3, <1>4, <1>5, <1>6 DEF IsPlain

LEMMA PlainMade ==
    ASSUME NEW s, IsPlain(s), NEW proc \in {"idle", "wakeup"}, NEW client \in Nat,
           NEW secs \in Nat, NEW r, r = [s EXCEPT !.timers = MadeOnce(@, proc, client, secs)]
    PROVE  IsPlain(r) /\ r.counts = s.counts /\ r.connections = s.connections
  <1> DEFINE w == s.timers
             x == MadeOnce(w, proc, client, secs)
  <1>1. IsLoad(s) /\ IsWheel(w) /\ w.made \in Nat
    BY DEF IsPlain, IsLoad, IsWheel
  <1>2. IsWheel(x) /\ x.made >= w.made /\ x.made \in Nat
    <2>1. PICK p : p = FALSE
      OBVIOUS
    <2>2. x = Created(w, proc, client, secs, p)
      BY <2>1, Zenon DEF MadeOnce
    <2> HIDE DEF x, w
    <2>3. IsWheel(x) /\ x.made >= w.made
      BY <1>1, <2>2, CreatedGrows
    <2> QED BY <2>3 DEF IsWheel
  <1>3. r = [s EXCEPT !.timers = x]
    OBVIOUS
  <1> HIDE DEF x
  <1>4. /\ IsLoad(r) /\ r.timers = x /\ r.counts = s.counts
        /\ r.connections = s.connections
    BY <1>1, <1>2, <1>3 DEF IsLoad
  <1>5. ASSUME x.made <= MaxTimers PROVE Plain(x)
    <2>1. MaxTimers \in Nat
      BY TimersAssumption
    <2>2. Plain(w)
      BY <1>1, <1>2, <1>5, <2>1 DEF IsPlain
    <2>3. Kept(w, {}) /\ w \in Wheels
      BY <2>2 DEF Plain, Kept
    <2>4. Unused(w) \in Ids
      BY <1>5, <2>3, OnceMakes DEF x
    <2> HIDE DEF w
    <2>5. /\ Kept(x, {}) /\ Live(x) = Live(w) \cup {Unused(w)}
          /\ x.timer[Unused(w)].proc = proc /\ ~ x.timer[Unused(w)].periodic
          /\ \A u \in Live(w) : x.timer[u] = w.timer[u]
      BY <2>3, <2>4, OnceCreated DEF x
    <2> QED BY <2>2, <2>5 DEF Plain
  <1> QED BY <1>4, <1>5 DEF IsPlain

LEMMA PlainAgrees ==
    ASSUME NEW w, NEW x, Plain(w), Kept(x, {}), Live(x) = Live(w),
           \A t \in Live(w) : Agree(x.timer[t], w.timer[t])
    PROVE  Plain(x)
  BY DEF Plain, Agree

LEMMA PlainReset ==
    ASSUME NEW s, IsPlain(s), NEW t, NEW r, r = ResetIn(s, t)
    PROVE  IsPlain(r) /\ r.counts = s.counts
  <1> DEFINE w == s.timers
             x == Reset(w, t)
  <1>0. IsLoad(s)
    BY DEF IsPlain
  <1>1. CASE t \in Live(w)
    <2>1. r = [s EXCEPT !.timers = x]
      BY <1>1 DEF ResetIn
    <2>2. x = Resorted([w EXCEPT !.timer[t].left = w.timer[t].secs], t)
      BY DEF Reset
    <2>3. ASSUME Plain(w) PROVE Plain(x)
      <3>1. /\ Kept(x, {}) /\ Live(x) = Live(w) /\ Stay(w, x, Live(w) \ {t})
            /\ Agree(x.timer[t], w.timer[t])
        BY <1>1, <2>3, ResetKeeps DEF Plain
      <3>2. \A u \in Live(w) : Agree(x.timer[u], w.timer[u])
        BY <3>1 DEF Stay
      <3> QED BY <2>3, <3>1, <3>2, PlainAgrees
    <2> HIDE DEF x
    <2>4. IsWheel(x) /\ x.made = w.made
      BY <1>0, <2>2, MadeStays DEF IsLoad
    <2>5. IsLoad(r) /\ r.timers = x /\ r.counts = s.counts
      BY <1>0, <2>1, <2>4 DEF IsLoad
    <2> QED BY <2>3, <2>4, <2>5 DEF IsPlain
  <1>2. CASE t \notin Live(w)
    <2>1. r = [s EXCEPT !.defined = FALSE]
      BY <1>2 DEF ResetIn
    <2>2. IsLoad(r) /\ r.timers = s.timers /\ r.counts = s.counts
      BY <1>0, <2>1 DEF IsLoad
    <2> QED BY <2>2 DEF IsPlain
  <1> QED BY <1>1, <1>2

LEMMA PlainLater ==
    ASSUME NEW w, Plain(w), NEW d \in Nat PROVE Plain(Later(w, d))
  <1> DEFINE x == Later(w, d)
  <1>1. /\ Kept(x, {}) /\ Live(x) = Live(w)
        /\ \A u \in Live(w) : Agree(x.timer[u], w.timer[u])
    BY LaterKeeps DEF Plain
  <1> HIDE DEF x
  <1>2. Plain(x)
    BY <1>1, PlainAgrees
  <1> QED BY <1>2 DEF x

LEMMA PlainRequested ==
    ASSUME NEW s, IsPlain(s), NEW c, NEW r \in {Connecting(s, c)} \cup Requested(s, c)
    PROVE  IsPlain(r) /\ r.counts = s.counts
  <1>0. IsLoad(s)
    BY DEF IsPlain
  <1>1. CASE r = Connecting(s, c)
    <2>1. r = [s EXCEPT !.connections[c].state = "CONNECTING"]
      BY <1>1 DEF Connecting
    <2>2. IsLoad(r) /\ r.timers = s.timers /\ r.counts = s.counts
      BY <1>0, <2>1 DEF IsLoad
    <2> QED BY <2>2 DEF IsPlain
  <1>2. CASE r \in Requested(s, c)
    <2> DEFINE p == [s EXCEPT !.connections[c].state = "HEADERS"]
    <2>1. PICK n : r = [p EXCEPT !.connections[c].response = n]
      BY <1>2 DEF Requested
    <2>2. IsLoad(p) /\ p.timers = s.timers /\ p.counts = s.counts
      BY <1>0 DEF IsLoad
    <2> HIDE DEF p
    <2>3. IsLoad(r) /\ r.timers = s.timers /\ r.counts = s.counts
      BY <2>1, <2>2 DEF IsLoad
    <2> QED BY <2>3 DEF IsPlain
  <1> QED BY <1>1, <1>2

LEMMA PlainStarted ==
    ASSUME mode \in Modes, IsPlain(load), NEW c \in Nat, NEW start \in Starts(c)
    PROVE  IsPlain(start.load) /\ start.load.counts.started = counts.started + 1
  <1> DEFINE begun == Begun(load, c)
             bad == [socket |-> begun, write |-> CloseConnection(begun, c)]
             good == {Connecting(begun, c)} \cup Requested(begun, c)
  <1>1. PICK s \in good \cup {begun, CloseConnection(begun, c)} :
            start.load = Counted(s, c)
    <2>1. \/ \E s \in good : start = [load |-> Counted(s, c), slips |-> slips]
          \/ \E f \in mode.failures : start = [load |-> Counted(bad[f], c), slips |-> {f}]
      BY DEF Starts
    <2>2. \A f \in mode.failures : bad[f] \in {begun, CloseConnection(begun, c)}
      BY LoadAssumption
    <2> HIDE DEF good, bad, begun
    <2> QED BY <2>1, <2>2
  <1>2. IsPlain(begun) /\ begun.counts.started = counts.started
    <2> DEFINE v == [connections EXCEPT ![c] = [FreeSlot EXCEPT !.idle = Unused(timers)]]
               p == [load EXCEPT !.connections = v]
    <2>1. load.connections = connections /\ load.timers = timers /\ load.counts = counts
      BY DEF load
    <2>2. begun = [p EXCEPT !.timers = MadeOnce(@, "idle", c, IdleSecs)]
      BY <2>1, Zenon DEF Begun, MadeOnce, load
    <2>3. IsPlain(p) /\ p.counts = load.counts
      BY PlainStill
    <2> HIDE DEF p, begun
    <2>4. IdleSecs \in Nat
      BY LoadAssumption
    <2> QED BY <2>1, <2>2, <2>3, <2>4, PlainMade
  <1> HIDE DEF begun
  <1>3. IsPlain(s) /\ s.counts.started = counts.started
    <2>1. CASE s \in good
      BY <1>2, <2>1, PlainRequested
    <2>2. CASE s = CloseConnection(begun, c)
      BY <1>2, <2>2, PlainClosed
    <2> QED BY <1>1, <1>2, <2>1, <2>2
  <1> HIDE DEF good
  <1>4. /\ IsLoad(start.load) /\ start.load.timers = s.timers
        /\ \/ start.load.counts = Tally(s.counts, 1, 1, 0)
           \/ start.load.counts = Tally(s.counts, 0, 1, 0)
    BY <1>1, <1>3, CountedIs DEF IsPlain
  <1>5. start.load.counts.started = counts.started + 1
    BY <1>3, <1>4 DEF Tally
  <1> QED BY <1>3, <1>4, <1>5 DEF IsPlain

ParallelInv ==
    mode.start = "parallel" =>
        Plain(timers) /\ IsCount(counts) /\ counts.started <= mode.fetches

LEMMA LoadIsPlain ==
    ASSUME ParallelInv, mode.start = "parallel"
    PROVE  IsPlain(load) /\ load.counts = counts /\ load.timers = timers
                /\ load.connections = connections
  <1>1. IsWheel(timers) /\ IsCount(counts)
    BY WheelsAreWheels DEF ParallelInv, Plain
  <1> QED BY <1>1 DEF ParallelInv, IsPlain, IsLoad, load

LEMMA BecomesPlain ==
    ASSUME ParallelInv, mode' = mode, mode.start = "parallel",
           NEW s, IsPlain(s), s.counts.started = counts.started, Becomes(s)
    PROVE  ParallelInv'
  BY DEF ParallelInv, Becomes, IsPlain, IsLoad

LEMMA ParallelStays ==
    ASSUME mode \in Modes, mode' = mode, ParallelInv, [Next]_vars PROVE ParallelInv'
  <1> SUFFICES ASSUME mode.start = "parallel" PROVE ParallelInv'
    BY DEF ParallelInv
  <1>0. /\ IsPlain(load) /\ load.counts = counts /\ load.timers = timers
        /\ load.connections = connections
    BY LoadIsPlain
  <1>1. CASE timers' = timers /\ counts' = counts
    BY <1>1 DEF ParallelInv
  <1>2. CASE Turn
    <2>1. CASE StartParallel
      <3> DEFINE c == Min(FreeSlots)
      <3>1. PICK start \in Starts(c), d \in 0..MaxLate :
                Becomes([start.load EXCEPT !.timers = Later(@, d)])
        BY <2>1 DEF StartParallel
      <3>2. c \in Nat /\ d \in Nat /\ counts.started < mode.fetches
        BY <2>1, FreeSlotIs, LoadAssumption DEF StartParallel, MayStart, SlotsOf
      <3> HIDE DEF c
      <3> DEFINE s == start.load
                 x == Later(s.timers, d)
                 r == [s EXCEPT !.timers = x]
      <3>3. IsPlain(s) /\ s.counts.started = counts.started + 1
        BY <1>0, <3>2, PlainStarted
      <3>4. Becomes(r)
        BY <3>1
      <3> HIDE DEF s, x
      <3>5. r.timers = x /\ r.counts = s.counts /\ IsWheel(s.timers) /\ IsCount(s.counts)
        BY <3>3 DEF IsPlain, IsLoad
      <3>6. x.made = s.timers.made
        BY <3>5, LaterMakes DEF x
      <3> HIDE DEF r
      <3>7. timers' = x /\ counts' = s.counts /\ s.timers.made <= MaxTimers
        BY <3>4, <3>5, <3>6 DEF Becomes
      <3>8. Plain(x)
        BY <3>2, <3>3, <3>7, PlainLater DEF IsPlain, x
      <3>9. mode.fetches \in Nat /\ counts.started \in Int
        BY LoadAssumption DEF ParallelInv, IsCount
      <3> QED BY <3>2, <3>3, <3>5, <3>7, <3>8, <3>9 DEF ParallelInv
    <2>2. CASE Select
      <3>1. PICK d \in Nat : timers' = Later(timers, d)
        BY <2>2 DEF Select
      <3>2. counts' = counts
        BY <2>2 DEF Select
      <3> QED BY <3>1, <3>2, PlainLater DEF ParallelInv
    <2>3. CASE ~ (StartParallel \/ Select)
      BY <1>1, <1>2, <2>3
         DEF Turn, Finish, BeginTurn, StartParallelFails, RunOut, StartsEnd, ServingEnds
    <2> QED BY <2>1, <2>2, <2>3
  <1>3. CASE Serve
    <2>1. ASSUME NEW c, NEW s, ServingGoesOn(c, s),
                 IsPlain(s), s.counts.started = counts.started
          PROVE  ParallelInv'
      BY <2>1, BecomesPlain DEF ServingGoesOn
    <2>2. ASSUME NEW c, HandleConnect(c) PROVE ParallelInv'
      <3>1. PICK s \in {CloseConnection(load, c)} \cup Requested(load, c) : ServingGoesOn(c, s)
        BY <2>2 DEF HandleConnect
      <3>2. IsPlain(s) /\ s.counts.started = counts.started
        BY <1>0, PlainClosed, PlainRequested
      <3> QED BY <2>1, <3>1, <3>2
    <2>3. ASSUME NEW c
          PROVE  IsPlain(Touched(c)) /\ Touched(c).counts.started = counts.started
      BY <1>0, PlainReset DEF Touched
    <2>4. ASSUME NEW c, ReadNothing(c) PROVE ParallelInv'
      <3> DEFINE u == Touched(c)
                 s == CloseConnection(u, c)
      <3>1. ServingGoesOn(c, s)
        BY <2>4 DEF ReadNothing
      <3>2. IsPlain(u) /\ u.counts.started = counts.started
        BY <2>3
      <3> HIDE DEF u
      <3>3. IsPlain(s) /\ s.counts.started = counts.started
        BY <3>2, PlainClosed
      <3> QED BY <2>1, <3>1, <3>3
    <2>5. ASSUME NEW c \in Slots, NEW n, Read(c, n) PROVE ParallelInv'
      <3> DEFINE s == Taken(c, n)
                 hasBody == s.connections[c].header.bytes > connections[c].header.bytes
                 paces == IF hasBody /\ mode.throttle THEN {s, Paused(s, c)} ELSE {s}
                 done(t) == hasBody /\ IsWhole(t, c)
      <3>1. PICK t \in paces :
                ServingGoesOn(c, IF done(t) THEN CloseConnection(t, c) ELSE t)
        BY <2>5 DEF Read
      <3>2. t = s \/ t = Paused(s, c)
        BY <3>1
      <3>3. IsPlain(s) /\ s.counts.started = counts.started
        <4> DEFINE u == Touched(c)
                   header == Header(connections[c].header,
                                    Texts[connections[c].response]
                                         [connections[c].read + 1, connections[c].read + n])
                   state == IF header.state = "END" THEN "READING" ELSE "HEADERS"
        <4>1. s = Noted(u, c, n, header, state)
          BY Zenon DEF Taken, Noted
        <4>2. IsPlain(u) /\ u.counts.started = counts.started
          BY <2>3
        <4> HIDE DEF u, header, state
        <4> DEFINE p == [u EXCEPT !.connections[c].read = @ + n]
                   q == [p EXCEPT !.connections[c].header = header]
        <4>3. IsLoad(p) /\ p.timers = u.timers /\ p.counts = u.counts
          BY <4>2 DEF IsPlain, IsLoad
        <4>4. s = [q EXCEPT !.connections[c].state = state]
          BY <4>1 DEF Noted
        <4> HIDE DEF p
        <4>5. IsLoad(q) /\ q.timers = p.timers /\ q.counts = p.counts
          BY <4>3 DEF IsLoad
        <4> HIDE DEF q, s
        <4>6. IsLoad(s) /\ s.timers = q.timers /\ s.counts = q.counts
          BY <4>4, <4>5 DEF IsLoad
        <4> QED BY <4>2, <4>3, <4>5, <4>6 DEF IsPlain
      <3> HIDE DEF s
      <3>4. IsPlain(Paused(s, c)) /\ Paused(s, c).counts = s.counts
        <4> DEFINE p == [s EXCEPT !.connections[c].state = "PAUSING"]
                   q == [p EXCEPT !.connections[c].wakeup = Unused(s.timers)]
        <4>1. Paused(s, c) = [q EXCEPT !.timers = MadeOnce(@, "wakeup", c, 1)]
          BY Zenon DEF Paused, MadeOnce
        <4>2. IsLoad(p) /\ p.timers = s.timers /\ p.counts = s.counts
          BY <3>3 DEF IsPlain, IsLoad
        <4> HIDE DEF p
        <4>3. IsLoad(q) /\ q.timers = p.timers /\ q.counts = p.counts
          BY <4>2 DEF IsLoad
        <4>4. IsPlain(q)
          BY <3>3, <4>2, <4>3 DEF IsPlain
        <4> HIDE DEF q
        <4>5. c \in Nat /\ 1 \in Nat
          BY DEF Slots
        <4>6. IsPlain(Paused(s, c)) /\ Paused(s, c).counts = q.counts
          BY <4>1, <4>4, <4>5, PlainMade
        <4> QED BY <4>2, <4>3, <4>6
      <3>5. IsPlain(t) /\ t.counts.started = counts.started
        BY <3>2, <3>3, <3>4
      <3>6. CASE done(t)
        <4>1. ServingGoesOn(c, CloseConnection(t, c))
          BY <3>1, <3>6
        <4> QED BY <2>1, <3>5, <4>1, PlainClosed
      <3>7. CASE ~ done(t)
        <4>1. ServingGoesOn(c, t)
          BY <3>1, <3>7
        <4> QED BY <2>1, <3>5, <4>1
      <3> QED BY <3>6, <3>7
    <2> QED BY <1>3, <2>2, <2>4, <2>5 DEF Serve
  <1>4. CASE RunTimers
    <2>1. ASSUME NEW s, IsPlain(s), s.counts.started = counts.started,
                 ~ s.timers.timer[walk.next].periodic, WalkGoesOn(s)
          PROVE  ParallelInv'
      <3>1. Ended(s, walk.next) = CancelledIn(s, walk.next)
        BY <2>1 DEF Ended
      <3>2. Becomes(CancelledIn(s, walk.next))
        BY <2>1, <3>1 DEF WalkGoesOn
      <3> QED BY <2>1, <3>2, PlainCancelled, BecomesPlain
    <2>2. CASE IdleConnection
      <3> DEFINE f == Forgot(load, Client)
                 s == CloseConnection(f, Client)
      <3>1. WalkGoesOn(s) /\ walk.next \in Live(timers)
        BY <2>2 DEF IdleConnection, Calls, Forgot
      <3>2. IsPlain(f) /\ f.counts = counts /\ f.timers = timers
        BY <1>0 DEF IsPlain, IsLoad, Forgot
      <3> HIDE DEF f
      <3>3. /\ IsPlain(s) /\ s.counts.started = counts.started
            /\ ~ s.timers.timer[walk.next].periodic
        BY <3>1, <3>2, PlainClosed DEF ParallelInv
      <3> QED BY <2>1, <3>1, <3>3
    <2>3. CASE WakeupConnection
      <3> DEFINE p == [load EXCEPT !.connections[Client].wakeup = 0]
                 s == [p EXCEPT !.connections[Client].state = "READING"]
      <3>1. WalkGoesOn(s) /\ walk.next \in Live(timers)
        BY <2>3 DEF WakeupConnection, Calls
      <3>2. IsLoad(p) /\ p.counts = counts /\ p.timers = timers
        BY <1>0 DEF IsPlain, IsLoad
      <3> HIDE DEF p
      <3>3. IsLoad(s) /\ s.counts = counts /\ s.timers = timers
        BY <3>2 DEF IsLoad
      <3> HIDE DEF s
      <3>4. IsPlain(s) /\ ~ s.timers.timer[walk.next].periodic
        BY <3>1, <3>3 DEF IsPlain, ParallelInv, Plain
      <3> QED BY <2>1, <3>1, <3>3, <3>4
    <2>4. CASE StartTimer
      BY <2>4 DEF StartTimer, Calls, ParallelInv, Plain
    <2>5. CASE NextBucket \/ WalkIsLost \/ StartTimerFails
      BY <1>1, <2>5 DEF NextBucket, WalkIsLost, StartTimerFails, RunOut
    <2> QED BY <1>4, <2>2, <2>3, <2>4, <2>5 DEF RunTimers
  <1>5. CASE Stopped \/ UNCHANGED vars
    BY <1>1, <1>5 DEF Stopped, vars
  <1> QED BY <1>2, <1>3, <1>4, <1>5 DEF Next

LEMMA ShortTurnsShortPauses == TurnsAreShort => PausesAreShort
  BY LoadAssumption DEF TurnsAreShort, PausesAreShort

LEMMA InitWaits == ASSUME Init PROVE WaitInv /\ ParallelInv
  <1>1. LoadInv
    BY InitKept
  <1>2. LoopInv
    BY DEF Init, LoopInv
  <1>3. PendingInv
    BY DEF Init, PendingInv
  <1>4. ASSUME mode.start = "parallel"
        PROVE  Plain(timers) /\ IsCount(counts) /\ counts.started <= mode.fetches
    <2>1. timers = NoTimers
      BY <1>4 DEF Init
    <2>2. Plain(timers)
      BY <2>1, NoTimersKept, NothingIsListed DEF Plain
    <2>3. IsCount(counts) /\ counts.started = 0
      BY DEF Init, IsCount
    <2>4. mode.fetches \in Nat \ {0}
      BY LoadAssumption DEF Init
    <2> QED BY <2>2, <2>3, <2>4
  <1> QED BY <1>1, <1>2, <1>3, <1>4 DEF WaitInv, ParallelInv

\* num_connections is the number of connections in use, and a fetch that is not
\* completed has the idle timer that will complete it; with -parallel no slot is
\* missed, and no more fetches are started than wanted, also when idle timers
\* stray (http_load.c:448, 808, 1552).
THEOREM FetchesStayCounted ==
    PausesAreShort =>
        (Spec => [](/\ FetchesAreCounted
                    /\ mode.start = "parallel" => counts.started <= mode.fetches))
  <1> SUFFICES ASSUME PausesAreShort
               PROVE  Spec => [](/\ FetchesAreCounted
                                 /\ mode.start = "parallel" => counts.started <= mode.fetches)
    OBVIOUS
  <1>1. Init => LoadInv /\ ParallelInv
    BY InitWaits DEF WaitInv
  <1>2. LoadInv /\ ParallelInv /\ [Next]_vars => (LoadInv /\ ParallelInv)'
    <2> SUFFICES ASSUME LoadInv, ParallelInv, [Next]_vars PROVE (LoadInv /\ ParallelInv)'
      OBVIOUS
    <2>1. mode' = mode /\ mode \in Modes
      BY ModeStays DEF LoadInv
    <2>2. LoadInv'
      BY NextKeeps
    <2>3. ParallelInv'
      BY <2>1, ParallelStays
    <2> QED BY <2>2, <2>3
  <1>3. LoadInv /\ ParallelInv =>
            /\ FetchesAreCounted
            /\ mode.start = "parallel" => counts.started <= mode.fetches
    BY OrderlyIsCounted DEF ParallelInv
  <1> QED BY <1>1, <1>2, <1>3, PTL DEF Spec

LEMMA WaitStays ==
    ASSUME TurnsAreShort, WaitInv, ParallelInv, [Next]_vars PROVE (WaitInv /\ ParallelInv)'
  <1>1. mode' = mode /\ mode \in Modes
    BY ModeStays DEF WaitInv, LoadInv
  <1>2. LoadInv'
    BY NextKeeps, ShortTurnsShortPauses DEF WaitInv
  <1>3. LoopInv'
    BY LoopStays DEF WaitInv
  <1>4. PendingInv'
    <2>1. CASE Attended'
      BY <1>1, <2>1, PendingStays
    <2>2. CASE ~ Attended'
      BY <2>2 DEF PendingInv
    <2> QED BY <2>1, <2>2
  <1>5. ParallelInv'
    BY <1>1, ParallelStays
  <1> QED BY <1>2, <1>3, <1>4, <1>5 DEF WaitInv

\* Whoever waits waits for a timer, unless a request was not sent or something strays.
LEMMA NothingHangs == ASSUME WaitInv PROVE Hangs => "write" \in slips \/ Strays
  <1> SUFFICES ASSUME pc = "selecting", "write" \notin slips, ~ Strays
               PROVE  Live(timers) # {}
    BY DEF Hangs
  <1>1. CASE mode.start = "parallel"
    BY <1>1 DEF WaitInv, PendingInv, Attended
  <1>2. CASE mode.start # "parallel"
    <2>1. StartsGoOn(timers, mode)
      BY DEF WaitInv, LoadInv, InOrder, Even
    <2> QED BY <1>2, <2>1 DEF StartsGoOn, StartTimers, Named
  <1> QED BY <1>1, <1>2

\* num_connections is the number of connections in use, a fetch that is not
\* completed has the idle timer that will complete it, with -parallel no more
\* fetches are started than wanted, and the program never waits in select with no
\* timer to end the wait unless a request was not sent or an idle timer strayed;
\* all of it whatever select, the sockets and the servers do, if select is late by
\* less than -timeout (http_load.c:448, 477, 808, 1552).
THEOREM CountsStayAgreed == TurnsAreShort => (Spec => []CountsAgree)
  <1> SUFFICES ASSUME TurnsAreShort PROVE Spec => []CountsAgree
    OBVIOUS
  <1>1. Init => WaitInv /\ ParallelInv
    BY InitWaits
  <1>2. WaitInv /\ ParallelInv /\ [Next]_vars => (WaitInv /\ ParallelInv)'
    BY WaitStays
  <1>3. WaitInv /\ ParallelInv => CountsAgree
    BY OrderlyIsCounted, NothingHangs DEF CountsAgree, ParallelInv, WaitInv
  <1> QED BY <1>1, <1>2, <1>3, PTL DEF Spec

=============================================================================
