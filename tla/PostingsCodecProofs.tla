------------------------- MODULE PostingsCodecProofs -------------------------
(***************************************************************************)
(* A postings list survives its stored form, whatever it is and whatever   *)
(* the Golomb parameters are.                                              *)
(***************************************************************************)
EXTENDS PostingsCodec, PostingsProofs

Bit == {0, 1}

(***************************************************************************)
(* Powers of two, and a number from its bits.                              *)
(***************************************************************************)
LEMMA PowerSteps ==
    /\ Power \in [Nat -> Nat \ {0}]
    /\ Power[0] = 1
    /\ \A k \in Nat \ {0} : Power[k] = 2 * Power[k - 1]
  <1> DEFINE D == Nat \ {0}
             step == [n \in Nat \ {0} |-> [x \in D |-> 2 * x]]
             IsPower(f) == f = [k \in Nat |-> IF k = 0 THEN 1 ELSE 2 * f[k - 1]]
  <1>1. step \in [Nat \ {0} -> [D -> D]] /\ 1 \in D
    OBVIOUS
  <1>2. \A n \in Nat \ {0}, x \in D : step[n][x] = 2 * x
    OBVIOUS
  <1> HIDE DEF step, D
  <1>3. PICK f \in [Nat -> D] : RecursiveOnAll(f, 1, step)
    BY <1>1, Recursion
  <1>4. f[0] = 1 /\ \A n \in Nat \ {0} : f[n] = 2 * f[n - 1]
    <2>1. \A n \in Nat \ {0} : f[n - 1] \in D
      OBVIOUS
    <2> QED BY <1>2, <1>3, <2>1 DEF RecursiveOnAll
  <1>5. IsPower(f)
    BY <1>4
  <1>6. Power = CHOOSE g : IsPower(g)
    BY DEF Power
  <1>7. IsPower(Power)
    BY <1>5, <1>6
  <1>8. Power[0] = 1 /\ \A n \in Nat \ {0} : Power[n] = 2 * Power[n - 1]
    BY <1>7
  <1>9. \A n \in Nat : Power[n] = f[n]
    <2> DEFINE S == {n \in Nat : Power[n] = f[n]}
    <2>1. 0 \in S
      BY <1>4, <1>8
    <2>2. ASSUME NEW n \in Nat \ {0}, n - 1 \in S PROVE n \in S
      BY <1>4, <1>8, <2>2
    <2> HIDE DEF S
    <2>3. Nat \subseteq S
      BY <2>1, <2>2, InductionOverAll
    <2> QED BY <2>3 DEF S
  <1>10. Power \in [Nat -> D]
    BY <1>7, <1>9
  <1> QED BY <1>8, <1>10 DEF D

LEMMA PowerTypes ==
    /\ Power[0] = 1
    /\ \A k \in Nat : Power[k] \in Nat /\ Power[k] > 0 /\ Power[k + 1] = 2 * Power[k]
  BY PowerSteps

\* So there are enough bits.
LEMMA PowerIsLarge == \A k \in Nat : Power[k] > k
  <1> DEFINE S == {k \in Nat : Power[k] > k}
  <1>1. 0 \in S
    BY PowerTypes
  <1>2. ASSUME NEW k \in Nat \ {0}, k - 1 \in S PROVE k \in S
    <2>1. Power[k] = 2 * Power[k - 1] /\ Power[k - 1] \in Nat /\ Power[k - 1] > k - 1
      BY <1>2, PowerSteps
    <2> QED BY <2>1
  <1> HIDE DEF S
  <1>3. Nat \subseteq S
    BY <1>1, <1>2, InductionOverAll
  <1> QED BY <1>3 DEF S

LEMMA BitsType ==
    ASSUME NEW n \in Nat, NEW width \in Nat
    PROVE  Bits(n, width) \in Seq(Bit) /\ Len(Bits(n, width)) = width
  <1>1. ASSUME NEW i \in 1..width PROVE (n \div Power[width - i]) % 2 \in Bit
    <2>1. Power[width - i] \in Nat /\ Power[width - i] > 0
      BY PowerTypes
    <2>2. n \div Power[width - i] \in Nat
      BY <2>1
    <2> QED BY <2>2 DEF Bit
  <1>2. Bits(n, width) \in [1..width -> Bit]
    BY <1>1 DEF Bits
  <1> QED BY <1>2, FunctionIsSeq

\* A number of few bits is what its bits say.
LEMMA BitsValue ==
    ASSUME NEW n \in Nat, NEW width \in Nat, n < Power[width]
    PROVE  Value(Bits(n, width)) = n
  <1> DEFINE bits == Bits(n, width)
             v == [i \in 0..width |-> n \div Power[width - i]]
             IsValue(f) == f = [i \in 0..width |-> IF i = 0 THEN 0
                                                   ELSE 2 * f[i - 1] + bits[i]]
  <1>1. Len(bits) = width
    BY BitsType
  <1>2. \A k \in 0..width : Power[width - k] \in Nat /\ Power[width - k] > 0
    BY PowerTypes
  <1>3. ASSUME NEW i \in 1..width PROVE v[i] = 2 * v[i - 1] + bits[i]
    <2> DEFINE p == Power[width - i]
    <2>1. p \in Nat /\ p > 0 /\ Power[width - (i - 1)] = 2 * p
      BY PowerTypes
    <2>2. bits[i] = (n \div p) % 2
      BY DEF Bits
    <2>3. v[i] = n \div p /\ v[i - 1] = n \div (2 * p)
      BY <2>1
    <2> HIDE DEF p
    <2>4. (n \div p) \div 2 = n \div (2 * p) /\ n \div p \in Nat
      BY <2>1
    <2> HIDE DEF v, bits
    <2> QED BY <2>2, <2>3, <2>4
  <1>4. v[0] = 0
    BY <1>2
  <1>5. v[width] = n
    BY PowerTypes
  <1>6. v = [i \in 0..width |-> v[i]]
    OBVIOUS
  <1> HIDE DEF v, bits
  <1>7. \A i \in 0..width : v[i] = IF i = 0 THEN 0 ELSE 2 * v[i - 1] + bits[i]
    BY <1>3, <1>4
  <1>8. IsValue(v)
    BY <1>6, <1>7
  <1>9. Value(bits) = (CHOOSE f : IsValue(f))[width]
    BY <1>1 DEF Value
  <1>10. PICK f : IsValue(f) /\ Value(bits) = f[width]
    BY <1>8, <1>9
  <1>11. \A i \in 1..width : f[i - 1] = v[i - 1] => f[i] = v[i]
    BY <1>3, <1>10
  <1>12. f[0] = v[0]
    BY <1>4, <1>10
  <1>13. f[width] = v[width]
    BY <1>11, <1>12, Agreement
  <1> QED BY <1>5, <1>10, <1>13 DEF bits

-----------------------------------------------------------------------------
(***************************************************************************)
(* The buffer: what stands where in a sequence of bits.                    *)
(***************************************************************************)
LEMMA ConcatParts ==
    ASSUME NEW E, NEW a \in Seq(E), NEW b \in Seq(E)
    PROVE  /\ a \o b \in Seq(E)
           /\ Len(a \o b) = Len(a) + Len(b)
           /\ \A i \in 1..Len(a) : (a \o b)[i] = a[i]
           /\ \A i \in 1..Len(b) : (a \o b)[Len(a) + i] = b[i]
  OBVIOUS

LEMMA ConcatBits ==
    ASSUME NEW a \in Seq(Bit), NEW b \in Seq(Bit)
    PROVE  /\ a \o b \in Seq(Bit)
           /\ Len(a \o b) = Len(a) + Len(b)
           /\ \A i \in 1..Len(a) : (a \o b)[i] = a[i]
           /\ \A i \in 1..Len(b) : (a \o b)[Len(a) + i] = b[i]
  OBVIOUS

\* The bits s stand behind the first at bits of buf.
Holds(buf, at, s) ==
    /\ at \in Nat
    /\ at + Len(s) <= Len(buf)
    /\ \A i \in 1..Len(s) : buf[at + i] = s[i]

LEMMA TwoAreHeld ==
    ASSUME NEW E, NEW buf \in Seq(E), NEW a \in Seq(E), NEW b \in Seq(E), NEW at,
           Holds(buf, at, a \o b)
    PROVE  Holds(buf, at, a) /\ Holds(buf, at + Len(a), b)
  <1>1. at \in Nat /\ Len(a) \in Nat /\ Len(b) \in Nat
    BY DEF Holds
  <1>2. \A i \in 1..Len(a) : buf[at + i] = a[i]
    <2> SUFFICES ASSUME NEW i \in 1..Len(a) PROVE buf[at + i] = a[i]
      OBVIOUS
    <2>1. i \in 1..Len(a \o b) /\ (a \o b)[i] = a[i]
      BY ConcatParts
    <2> QED BY <2>1 DEF Holds
  <1>3. \A i \in 1..Len(b) : buf[(at + Len(a)) + i] = b[i]
    <2> SUFFICES ASSUME NEW i \in 1..Len(b) PROVE buf[(at + Len(a)) + i] = b[i]
      OBVIOUS
    <2>1. Len(a) + i \in 1..Len(a \o b) /\ (a \o b)[Len(a) + i] = b[i]
      BY ConcatParts
    <2>2. (at + Len(a)) + i = at + (Len(a) + i)
      BY <1>1
    <2> QED BY <2>1, <2>2 DEF Holds
  <1> QED BY <1>1, <1>2, <1>3, ConcatParts DEF Holds

LEMMA HeldInTwo ==
    ASSUME NEW buf \in Seq(Bit), NEW a \in Seq(Bit), NEW b \in Seq(Bit), NEW at,
           Holds(buf, at, a \o b)
    PROVE  Holds(buf, at, a) /\ Holds(buf, at + Len(a), b)
  BY TwoAreHeld

LEMMA HeldIsSubSeq ==
    ASSUME NEW buf \in Seq(Bit), NEW s \in Seq(Bit), NEW at, Holds(buf, at, s)
    PROVE  SubSeq(buf, at + 1, at + Len(s)) = s
  <1> DEFINE sub == SubSeq(buf, at + 1, at + Len(s))
  <1>1. at \in Nat /\ Len(s) \in Nat /\ at + Len(s) <= Len(buf) /\ Len(buf) \in Nat
    BY DEF Holds
  <1>2. /\ sub \in Seq(Bit) /\ Len(sub) = Len(s)
        /\ \A i \in 1..Len(s) : sub[i] = buf[at + i]
    BY <1>1, SubSeqProperties
  <1>3. \A i \in 1..Len(s) : sub[i] = s[i]
    BY <1>2 DEF Holds
  <1> HIDE DEF sub
  <1> QED BY <1>2, <1>3, SeqEqual DEF sub

\* An integer is read where it was written.
LEMMA IntIsRead ==
    ASSUME NEW buf \in Seq(Bit), NEW at, NEW n \in Nat, n < Power[IntBits],
           Holds(buf, at, Bits(n, IntBits))
    PROVE  IntAt(buf, at) = n
  <1>1. IntBits \in Nat
    BY WidthAssumption DEF IntBits
  <1>2. Bits(n, IntBits) \in Seq(Bit) /\ Len(Bits(n, IntBits)) = IntBits
    BY <1>1, BitsType
  <1>3. SubSeq(buf, at + 1, at + IntBits) = Bits(n, IntBits)
    BY <1>2, HeldIsSubSeq
  <1> QED BY <1>1, <1>3, BitsValue DEF IntAt

-----------------------------------------------------------------------------
(***************************************************************************)
(* One Golomb code.                                                        *)
(***************************************************************************)
LEMMA DivisionWithRest ==
    ASSUME NEW n \in Nat, NEW m \in Nat \ {0}
    PROVE  /\ n \div m \in Nat /\ n % m \in 0..(m - 1)
           /\ n = (n \div m) * m + (n % m)
  OBVIOUS

IsProduct(y, q, m) == y = q * m

LEMMA Quotient ==
    ASSUME NEW n \in Nat, NEW m \in Nat \ {0}
    PROVE  \E q, rem, y \in Nat : /\ q = n \div m /\ rem = n % m /\ IsProduct(y, q, m)
                                 /\ rem < m /\ n = y + rem
  <1>1. PICK q \in Nat : q = n \div m
    OBVIOUS
  <1>2. PICK rem \in Nat : rem = n % m /\ rem < m
    OBVIOUS
  <1>3. n = q * m + rem
    BY <1>1, <1>2
  <1>4. PICK y \in Nat : y = q * m
    OBVIOUS
  <1>5. n = y + rem
    BY <1>3, <1>4
  <1> QED BY <1>1, <1>2, <1>4, <1>5 DEF IsProduct

LEMMA WidthIsRight ==
    ASSUME NEW m \in Nat \ {0}
    PROVE  /\ Width(m) \in Nat /\ Power[Width(m)] >= m
           /\ Width(m) > 0 => Power[Width(m) - 1] < m
           /\ m > 1 => Width(m) > 0
  <1> DEFINE T == {b \in Nat : Power[b] >= m}
  <1>1. T \in SUBSET Nat /\ m \in T
    <2>1. Power[m] \in Nat /\ Power[m] > m
      BY PowerTypes, PowerIsLarge
    <2> QED BY <2>1
  <1> HIDE DEF T
  <1>2. PICK b \in T : \A c \in T : b <= c
    BY <1>1, LeastNumber
  <1>3. b \in 0..m /\ Power[b] >= m
    BY <1>1, <1>2 DEF T
  <1>4. ASSUME b > 0 PROVE Power[b - 1] < m
    <2>1. b - 1 \in Nat /\ Power[b - 1] \in Nat
      BY <1>3, <1>4, PowerTypes
    <2>2. b - 1 \notin T
      BY <1>2, <1>3, <2>1
    <2> QED BY <2>1, <2>2 DEF T
  <1>5. /\ Width(m) \in 0..m /\ Power[Width(m)] >= m
        /\ Width(m) > 0 => Power[Width(m) - 1] < m
    BY <1>3, <1>4 DEF Width
  <1>6. m > 1 => Width(m) # 0
    BY <1>5, PowerTypes
  <1> QED BY <1>5, <1>6

\* The shorter remainders are those that one bit less can tell from the others.
LEMMA SpareIsRight ==
    ASSUME NEW m \in Nat \ {0}, m > 1
    PROVE  /\ Spare(m) \in Nat /\ Width(m) - 1 \in Nat
           /\ Power[Width(m)] = Spare(m) + m
           /\ Power[Width(m)] = 2 * Power[Width(m) - 1]
           /\ Spare(m) < Power[Width(m) - 1]
  <1>1. /\ Width(m) \in Nat /\ Width(m) > 0 /\ Power[Width(m)] >= m
        /\ Power[Width(m) - 1] < m
    BY WidthIsRight
  <1>2. /\ Power[Width(m)] \in Nat /\ Power[Width(m) - 1] \in Nat
        /\ Power[Width(m)] = 2 * Power[Width(m) - 1]
    BY <1>1, PowerSteps
  <1> QED BY <1>1, <1>2 DEF Spare

LEMMA RemainderType ==
    ASSUME NEW m \in Nat \ {0}, NEW r \in 0..(m - 1)
    PROVE  Remainder(m, r) \in Seq(Bit)
  <1>1. CASE m = 1
    BY <1>1 DEF Remainder
  <1>2. CASE m > 1
    <2>1. Spare(m) \in Nat /\ Width(m) - 1 \in Nat /\ Width(m) \in Nat
      BY <1>2, SpareIsRight, WidthIsRight
    <2>2. r \in Nat /\ r + Spare(m) \in Nat
      BY <2>1
    <2>3. Bits(r, Width(m) - 1) \in Seq(Bit) /\ Bits(r + Spare(m), Width(m)) \in Seq(Bit)
      BY <2>1, <2>2, BitsType
    <2> QED BY <1>2, <2>3 DEF Remainder
  <1> QED BY <1>1, <1>2

Unary(n) == [i \in 1..n |-> 1]

LEMMA UnaryType ==
    ASSUME NEW n \in Nat PROVE Unary(n) \in Seq(Bit) /\ Len(Unary(n)) = n
  <1>1. Unary(n) \in [1..n -> Bit]
    BY DEF Unary, Bit
  <1> QED BY <1>1, FunctionIsSeq

LEMMA CodeType ==
    ASSUME NEW m \in Nat \ {0}, NEW n \in Nat
    PROVE  /\ Code(m, n) = (Unary(n \div m) \o <<0>>) \o Remainder(m, n % m)
           /\ Unary(n \div m) \in Seq(Bit) /\ Len(Unary(n \div m)) = n \div m
           /\ <<0>> \in Seq(Bit)
           /\ Remainder(m, n % m) \in Seq(Bit)
           /\ Code(m, n) \in Seq(Bit)
           /\ Len(Code(m, n)) = (n \div m) + 1 + Len(Remainder(m, n % m))
  <1>1. n \div m \in Nat /\ n % m \in 0..(m - 1)
    BY DivisionWithRest
  <1>2. Unary(n \div m) \in Seq(Bit) /\ Len(Unary(n \div m)) = n \div m
    BY <1>1, UnaryType
  <1>3. Remainder(m, n % m) \in Seq(Bit)
    BY <1>1, RemainderType
  <1>4. <<0>> \in Seq(Bit)
    BY DEF Bit
  <1>5. Code(m, n) = (Unary(n \div m) \o <<0>>) \o Remainder(m, n % m)
    BY <1>2, <1>3, <1>4 DEF Code, Unary
  <1>6. /\ Unary(n \div m) \o <<0>> \in Seq(Bit)
        /\ Len(Unary(n \div m) \o <<0>>) = (n \div m) + 1
    BY <1>1, <1>2, <1>4
  <1> QED BY <1>1, <1>2, <1>3, <1>4, <1>5, <1>6, ConcatBits

\* The ones end at the first zero.
LEMMA OnesAreRead ==
    ASSUME NEW buf \in Seq(Bit), NEW at, NEW n \in Nat,
           Holds(buf, at, Unary(n)), Holds(buf, at + n, << 0 >>)
    PROVE  Ones(buf, at) = n
  <1> DEFINE Reads(k) == buf[at + k + 1] = 0 /\ \A i \in 1..k : buf[at + i] = 1
  <1>1. at \in Nat /\ at + n + 1 <= Len(buf) /\ buf[at + n + 1] = 0
    BY DEF Holds
  <1>2. \A i \in 1..n : buf[at + i] = 1
    BY UnaryType DEF Holds, Unary
  <1>3. n \in 0..(Len(buf) - at) /\ Reads(n)
    BY <1>1, <1>2
  <1>4. ASSUME NEW k \in 0..(Len(buf) - at), Reads(k) PROVE k = n
    <2>1. ~ (k < n)
      <3>1. k < n => buf[at + (k + 1)] = 1
        BY <1>2
      <3> QED BY <1>1, <1>4, <3>1
    <2>2. ~ (n < k)
      <3>1. n < k => buf[at + (n + 1)] = 1
        BY <1>4
      <3> QED BY <1>1, <3>1
    <2> QED BY <2>1, <2>2
  <1> QED BY <1>3, <1>4 DEF Ones

LEMMA BitsSplit ==
    ASSUME NEW n \in Nat, NEW width \in Nat \ {0}
    PROVE  /\ Bits(n, width) = Bits(n \div 2, width - 1) \o <<n % 2>>
           /\ <<n % 2>> \in Seq(Bit) /\ n \div 2 \in Nat
  <1> DEFINE s == Bits(n, width)
             t == Bits(n \div 2, width - 1)
             u == <<n % 2>>
  <1>1. n \div 2 \in Nat /\ n % 2 \in Bit /\ width - 1 \in Nat
    BY DEF Bit
  <1>2. s \in Seq(Bit) /\ Len(s) = width /\ t \in Seq(Bit) /\ Len(t) = width - 1
    BY <1>1, BitsType
  <1>3. u \in Seq(Bit) /\ Len(u) = 1 /\ u[1] = n % 2
    BY <1>1
  <1>4. ASSUME NEW i \in 1..(width - 1) PROVE s[i] = t[i]
    <2> DEFINE p == Power[(width - 1) - i]
    <2>1. (width - 1) - i \in Nat /\ ((width - 1) - i) + 1 = width - i
      OBVIOUS
    <2>2. p \in Nat \ {0} /\ Power[width - i] = 2 * p
      BY <2>1, PowerTypes
    <2>3. s[i] = (n \div Power[width - i]) % 2 /\ t[i] = ((n \div 2) \div p) % 2
      BY DEF Bits
    <2> HIDE DEF p, s, t
    <2>4. (n \div 2) \div p = n \div (2 * p)
      BY <2>2
    <2> QED BY <2>2, <2>3, <2>4
  <1>5. s[width] = n % 2
    <2>1. s[width] = (n \div Power[width - width]) % 2
      BY DEF Bits
    <2>2. Power[width - width] = 1
      BY PowerTypes
    <2> QED BY <2>1, <2>2
  <1> HIDE DEF s, t, u
  <1>6. t \o u \in Seq(Bit) /\ Len(t \o u) = width
    <2>1. t \o u \in Seq(Bit) /\ Len(t \o u) = Len(t) + Len(u)
      BY <1>2, <1>3, ConcatBits
    <2>2. Len(t) + Len(u) = width
      BY <1>2, <1>3
    <2> QED BY <2>1, <2>2
  <1>7. ASSUME NEW i \in 1..width PROVE s[i] = (t \o u)[i]
    <2>1. CASE i = width
      <3>1. 1 \in 1..Len(u) /\ Len(t) + 1 = width
        BY <1>2, <1>3
      <3>2. (t \o u)[Len(t) + 1] = u[1]
        BY <1>2, <1>3, <3>1, ConcatBits
      <3> QED BY <1>3, <1>5, <2>1, <3>1, <3>2
    <2>2. CASE i # width
      <3>1. i \in 1..(width - 1) /\ i \in 1..Len(t)
        BY <1>2, <2>2
      <3>2. (t \o u)[i] = t[i]
        BY <1>2, <1>3, <3>1, ConcatBits
      <3> QED BY <1>4, <3>1, <3>2
    <2> QED BY <2>1, <2>2
  <1>8. s = t \o u
    BY <1>2, <1>6, <1>7, SeqEqual
  <1> QED BY <1>1, <1>3, <1>8 DEF s, t, u

LEMMA NumberAtIs ==
    ASSUME NEW m, NEW buf, NEW at, NEW q, q = Ones(buf, at),
           NEW tail, tail = at + q + 1, NEW end, end = tail + Width(m) - 1,
           NEW r, r = Value(SubSeq(buf, tail + 1, end)),
           NEW y, IsProduct(y, q, m), NEW spare, spare = Spare(m)
    PROVE  /\ m > 1 /\ r < spare =>
                  NumberAt(m, buf, at) = [value |-> y + r, at |-> end]
           /\ m > 1 /\ ~ (r < spare) =>
                  NumberAt(m, buf, at) =
                      [value |-> y + 2 * r + buf[end + 1] - spare, at |-> end + 1]
  BY DEF NumberAt, IsProduct

(***************************************************************************)
(* golomb_decoding reads a code as the number golomb_encoding made it of,  *)
(* whatever the parameter is and whatever follows the code.                *)
(***************************************************************************)
THEOREM NumberIsRead ==
    ASSUME NEW buf \in Seq(Bit), NEW at, NEW m \in Nat \ {0}, NEW n \in Nat,
           Holds(buf, at, Code(m, n))
    PROVE  NumberAt(m, buf, at) = [value |-> n, at |-> at + Len(Code(m, n))]
  <1>1. PICK q, rem, y \in Nat : /\ q = n \div m /\ rem = n % m /\ IsProduct(y, q, m)
                                /\ rem < m /\ n = y + rem
    BY Quotient, Zenon
  <1>2. rem = n % m
    BY <1>1
  <1>3. IsProduct(y, q, m)
    BY <1>1
  <1>4. rem < m /\ n = y + rem
    BY <1>1
  <1>5. PICK R \in Seq(Bit) : R = Remainder(m, rem)
    BY <1>4, RemainderType
  <1>6. /\ Code(m, n) = (Unary(q) \o <<0>>) \o R
        /\ Unary(q) \in Seq(Bit) /\ Len(Unary(q)) = q
        /\ <<0>> \in Seq(Bit)
        /\ Len(Code(m, n)) = q + 1 + Len(R)
    BY <1>1, <1>2, <1>5, CodeType
  <1>7. Unary(q) \o <<0>> \in Seq(Bit) /\ Len(Unary(q) \o <<0>>) = q + 1
    BY <1>6
  <1>8. Holds(buf, at, Unary(q) \o <<0>>) /\ Holds(buf, at + (q + 1), R)
    BY <1>6, <1>7, HeldInTwo
  <1>9. Holds(buf, at, Unary(q)) /\ Holds(buf, at + q, <<0>>)
    BY <1>6, <1>8, HeldInTwo
  <1>10. Ones(buf, at) = q
    BY <1>9, OnesAreRead
  <1>11. at \in Nat
    BY <1>8 DEF Holds
  <1>12. PICK tail \in Nat : tail = at + (q + 1)
    BY <1>11
  <1>13. tail = at + q + 1 /\ at + Len(Code(m, n)) = tail + Len(R) /\ Len(R) \in Nat
    <2>1. PICK k \in Nat : k = Len(R)
      OBVIOUS
    <2>2. Len(Code(m, n)) = q + 1 + k
      BY <1>6, <2>1
    <2>3. tail = at + q + 1 /\ at + (q + 1 + k) = tail + k
      BY <1>11, <1>12
    <2> QED BY <2>1, <2>2, <2>3
  <1>14. Holds(buf, tail, R)
    BY <1>8, <1>12
  <1>15. CASE m = 1
    <2>1. R = <<>>
      BY <1>5, <1>15 DEF Remainder
    <2>2. q = n /\ tail + Len(R) = tail
      <3>1. y = q
        BY <1>3, <1>15 DEF IsProduct
      <3>2. rem = 0
        BY <1>4, <1>15
      <3>3. Len(R) = 0
        BY <2>1
      <3> QED BY <1>4, <3>1, <3>2, <3>3
    <2>3. NumberAt(m, buf, at) = [value |-> q, at |-> tail]
      <3>1. NumberAt(1, buf, at) = [value |-> Ones(buf, at), at |-> at + Ones(buf, at) + 1]
        BY DEF NumberAt
      <3> QED BY <1>10, <1>13, <1>15, <3>1
    <2> QED BY <1>13, <2>2, <2>3
  <1>16. CASE m > 1
    <2>1. PICK w \in Nat : w = Width(m) - 1
      BY <1>16, SpareIsRight
    <2>2. Width(m) \in Nat
      BY WidthIsRight
    <2>3. Width(m) = w + 1
      BY <2>1, <2>2
    <2>4. PICK end \in Nat : end = tail + w
      OBVIOUS
    <2>5. PICK spare \in Nat : spare = Spare(m)
      BY <1>16, SpareIsRight
    <2>6. PICK p \in Nat : p = Power[w]
      BY PowerTypes
    <2>7. Power[Width(m)] = 2 * p /\ 2 * p = spare + m /\ spare < p
      BY <1>16, <2>1, <2>5, <2>6, SpareIsRight
    <2>8. PICK r : r = Value(SubSeq(buf, tail + 1, end))
      OBVIOUS
    <2>9. end = tail + Width(m) - 1
      BY <2>3, <2>4
    <2>10. /\ r < spare => NumberAt(m, buf, at) = [value |-> y + r, at |-> end]
           /\ ~ (r < spare) =>
                  NumberAt(m, buf, at) =
                      [value |-> y + 2 * r + buf[end + 1] - spare, at |-> end + 1]
      BY <1>3, <1>10, <1>13, <1>16, <2>5, <2>8, <2>9, NumberAtIs
    <2>11. CASE rem < spare
      <3>1. R = Bits(rem, w)
        BY <1>5, <1>16, <2>1, <2>5, <2>11 DEF Remainder
      <3>2. Len(R) = w
        BY <3>1, BitsType
      <3>3. SubSeq(buf, tail + 1, end) = R
        BY <1>14, <2>4, <3>2, HeldIsSubSeq
      <3>4. rem < Power[w]
        BY <2>6, <2>7, <2>11
      <3>5. r = rem
        BY <2>8, <3>1, <3>3, <3>4, BitsValue
      <3> QED BY <1>4, <1>13, <2>4, <2>10, <2>11, <3>2, <3>5
    <2>12. CASE ~ (rem < spare)
      <3>1. PICK x \in Nat : x = rem + spare
        OBVIOUS
      <3>2. R = Bits(x, Width(m))
        BY <1>5, <1>16, <2>5, <2>12, <3>1 DEF Remainder
      <3>3. PICK z \in Nat : z = x \div 2
        BY <3>1
      <3>4. PICK u \in {0, 1} : u = x % 2
        BY <3>1
      <3>5. x = 2 * z + u
        BY <3>3, <3>4
      <3>6. R = Bits(z, w) \o <<u>> /\ <<u>> \in Seq(Bit)
        <4>1. Width(m) \in Nat \ {0}
          BY <2>3
        <4>2. /\ Bits(x, Width(m)) = Bits(x \div 2, Width(m) - 1) \o <<x % 2>>
              /\ <<x % 2>> \in Seq(Bit)
          BY <4>1, BitsSplit
        <4> QED BY <2>1, <3>2, <3>3, <3>4, <4>2
      <3>7. Bits(z, w) \in Seq(Bit) /\ Len(Bits(z, w)) = w
        BY BitsType
      <3>8. Holds(buf, tail, Bits(z, w)) /\ Holds(buf, tail + w, <<u>>)
        BY <1>14, <3>6, <3>7, HeldInTwo
      <3>9. SubSeq(buf, tail + 1, end) = Bits(z, w)
        BY <2>4, <3>7, <3>8, HeldIsSubSeq
      <3>10. z < p /\ z >= spare
        BY <1>4, <2>7, <2>12, <3>1, <3>5
      <3>11. r = z
        BY <2>6, <2>8, <3>9, <3>10, BitsValue
      <3>12. buf[end + 1] = u
        BY <2>4, <3>8 DEF Holds
      <3>13. NumberAt(m, buf, at) = [value |-> y + 2 * z + u - spare, at |-> end + 1]
        BY <2>10, <3>10, <3>11, <3>12
      <3>14. y + 2 * z + u - spare = n
        BY <1>4, <3>1, <3>5
      <3>15. Len(R) = w + 1
        BY <2>2, <2>3, <3>1, <3>2, BitsType
      <3>16. end + 1 = tail + Len(R)
        BY <2>4, <3>15
      <3> QED BY <1>13, <3>13, <3>14, <3>16
    <2> QED BY <2>11, <2>12
  <1> QED BY <1>15, <1>16

-----------------------------------------------------------------------------
(***************************************************************************)
(* Sequences that are put together of sequences.                           *)
(***************************************************************************)
\* flat[i] is the first i sequences behind each other.
Flattens(flat, seqs) ==
    flat[0] = <<>> /\ \A i \in 1..Len(seqs) : flat[i] = flat[i - 1] \o seqs[i]

LEMMA FlattensExists ==
    ASSUME NEW E, NEW seqs \in Seq(Seq(E))
    PROVE  \E flat \in [0..Len(seqs) -> Seq(E)] : Flattens(flat, seqs)
  <1>1. PICK n \in Nat : n = Len(seqs)
    OBVIOUS
  <1>2. \A i \in 1..n : seqs[i] \in Seq(E)
    BY <1>1
  <1> DEFINE D == Seq(E)
             step == [i \in Nat \ {0} |->
                         [x \in D |-> IF i \in 1..n THEN x \o seqs[i] ELSE x]]
  <1>3. \A i \in Nat \ {0}, x \in D : (IF i \in 1..n THEN x \o seqs[i] ELSE x) \in D
    BY <1>2
  <1>4. \A i \in Nat \ {0}, x \in D :
            step[i][x] = IF i \in 1..n THEN x \o seqs[i] ELSE x
    OBVIOUS
  <1>5. step \in [Nat \ {0} -> [D -> D]] /\ <<>> \in D
    BY <1>3
  <1> HIDE DEF step, D
  <1>6. PICK flat \in [0..n -> D] : Recursive(flat, n, <<>>, step)
    BY <1>5, RecursionUpTo
  <1>7. ASSUME NEW i \in 1..n PROVE flat[i] = flat[i - 1] \o seqs[i]
    <2>1. i \in Nat \ {0} /\ i - 1 \in 0..n
      OBVIOUS
    <2>2. flat[i - 1] \in D
      BY <2>1
    <2>3. flat[i] = step[i][flat[i - 1]]
      BY <1>6 DEF Recursive
    <2> QED BY <1>4, <2>1, <2>2, <2>3
  <1>8. Flattens(flat, seqs)
    BY <1>1, <1>6, <1>7 DEF Flattens, Recursive
  <1> QED BY <1>1, <1>8 DEF D

LEMMA FlattenIs ==
    ASSUME NEW E, NEW seqs \in Seq(Seq(E)),
           NEW flat \in [0..Len(seqs) -> Seq(E)], Flattens(flat, seqs)
    PROVE  FlattenSeq(seqs) = flat[Len(seqs)]
  <1>1. PICK n \in Nat : n = Len(seqs)
    OBVIOUS
  <1> DEFINE IsFlat(f) == f = [i \in 1..n |-> IF i = 1 THEN seqs[i]
                                              ELSE f[i - 1] \o seqs[i]]
             g == [i \in 1..n |-> flat[i]]
  <1>2. flat[0] = <<>> /\ \A i \in 1..n : flat[i] = flat[i - 1] \o seqs[i]
    BY <1>1 DEF Flattens
  <1>3. CASE n = 0
    <2>1. seqs = <<>>
      BY <1>1, <1>3, EmptySeq
    <2> QED BY <1>1, <1>2, <1>3, <2>1 DEF FlattenSeq
  <1>4. CASE n # 0
    <2>1. seqs[1] \in Seq(E) /\ 1 \in 1..n
      BY <1>1, <1>4
    <2>2. ASSUME NEW i \in 1..n, i = 1 PROVE flat[i] = seqs[i]
      <3>1. flat[i] = flat[i - 1] \o seqs[i]
        BY <1>2
      <3>2. i - 1 = 0
        BY <2>2
      <3>3. flat[i - 1] = <<>>
        BY <1>2, <3>2
      <3>4. \A t \in Seq(E) : <<>> \o t = t
        OBVIOUS
      <3> QED BY <2>1, <2>2, <3>1, <3>3, <3>4
    <2>3. flat[1] = seqs[1]
      BY <2>1, <2>2
    <2>4. ASSUME NEW i \in 1..n PROVE g[i] = IF i = 1 THEN seqs[i] ELSE g[i - 1] \o seqs[i]
      <3>1. CASE i = 1
        BY <2>3, <3>1
      <3>2. CASE i # 1
        <4>1. i - 1 \in 1..n
          BY <3>2
        <4> QED BY <1>2, <3>2, <4>1
      <3> QED BY <3>1, <3>2
    <2>5. IsFlat(g)
      BY <2>4
    <2>6. FlattenSeq(seqs) = (CHOOSE f : IsFlat(f))[n]
      BY <1>1, <1>4 DEF FlattenSeq
    <2>7. PICK f : IsFlat(f) /\ FlattenSeq(seqs) = f[n]
      BY <2>5, <2>6
    <2> DEFINE S == {k \in 0..n : k = 0 \/ f[k] = flat[k]}
    <2>8. 0 \in S
      OBVIOUS
    <2>9. ASSUME NEW k \in 1..n, k - 1 \in S PROVE k \in S
      <3>1. f[k] = IF k = 1 THEN seqs[k] ELSE f[k - 1] \o seqs[k]
        BY <2>7
      <3>2. CASE k = 1
        BY <2>3, <3>1, <3>2
      <3>3. CASE k # 1
        <4>1. f[k - 1] = flat[k - 1]
          BY <2>9, <3>3
        <4>2. f[k] = flat[k]
          BY <1>2, <3>1, <3>3, <4>1
        <4> QED BY <4>2
      <3> QED BY <3>2, <3>3
    <2> HIDE DEF S
    <2>10. 0..n \subseteq S
      BY <2>8, <2>9, Induction
    <2>11. n \in S
      BY <2>10
    <2> QED BY <1>1, <1>4, <2>7, <2>11 DEF S
  <1> QED BY <1>3, <1>4

\* Where the whole stands, each part stands behind those before it.
LEMMA PartsAreHeldIn ==
    ASSUME NEW E, NEW buf \in Seq(E), NEW start, NEW seqs \in Seq(Seq(E)),
           NEW flat \in [0..Len(seqs) -> Seq(E)], Flattens(flat, seqs),
           Holds(buf, start, flat[Len(seqs)])
    PROVE  \A i \in 1..Len(seqs) : Holds(buf, start + Len(flat[i - 1]), seqs[i])
  <1>1. PICK n \in Nat : n = Len(seqs)
    OBVIOUS
  <1>2. ASSUME NEW i \in 1..n
        PROVE  /\ flat[i] = flat[i - 1] \o seqs[i]
               /\ flat[i - 1] \in Seq(E) /\ seqs[i] \in Seq(E)
    <2>1. i - 1 \in 0..n
      OBVIOUS
    <2>2. flat[i - 1] \in Seq(E)
      BY <1>1, <2>1, Zenon
    <2>3. seqs[i] \in Seq(E)
      BY <1>1, ElementOfSeq
    <2>4. flat[i] = flat[i - 1] \o seqs[i]
      BY <1>1 DEF Flattens
    <2> QED BY <2>2, <2>3, <2>4
  <1>3. ASSUME NEW i \in 1..n, Holds(buf, start, flat[i])
        PROVE  Holds(buf, start, flat[i - 1]) /\ Holds(buf, start + Len(flat[i - 1]), seqs[i])
    <2>1. Holds(buf, start, flat[i - 1] \o seqs[i])
      BY <1>2, <1>3
    <2> QED BY <1>2, <2>1, TwoAreHeld
  <1> DEFINE S == {k \in 0..n : Holds(buf, start, flat[n - k])}
  <1>4. 0 \in S
    BY <1>1
  <1>5. ASSUME NEW k \in 1..n, k - 1 \in S PROVE k \in S
    <2>1. n - (k - 1) \in 1..n /\ (n - (k - 1)) - 1 = n - k
      OBVIOUS
    <2>2. Holds(buf, start, flat[(n - (k - 1)) - 1])
      BY <1>3, <1>5, <2>1
    <2> QED BY <2>1, <2>2
  <1> HIDE DEF S
  <1>6. 0..n \subseteq S
    BY <1>4, <1>5, Induction
  <1>7. ASSUME NEW i \in 1..n PROVE Holds(buf, start, flat[i])
    <2>1. n - i \in S /\ n - (n - i) = i
      BY <1>6
    <2> QED BY <2>1 DEF S
  <1> QED BY <1>1, <1>3, <1>7

LEMMA PartsAreHeld ==
    ASSUME NEW buf \in Seq(Bit), NEW start, NEW seqs \in Seq(Seq(Bit)),
           NEW flat \in [0..Len(seqs) -> Seq(Bit)], Flattens(flat, seqs),
           Holds(buf, start, flat[Len(seqs)])
    PROVE  \A i \in 1..Len(seqs) : Holds(buf, start + Len(flat[i - 1]), seqs[i])
  BY PartsAreHeldIn, Zenon

LEMMA PartLengths ==
    ASSUME NEW E, NEW seqs \in Seq(Seq(E)),
           NEW flat \in [0..Len(seqs) -> Seq(E)], Flattens(flat, seqs)
    PROVE  /\ Len(flat[0]) = 0
           /\ \A i \in 0..Len(seqs) : Len(flat[i]) \in Nat
           /\ \A i \in 1..Len(seqs) : Len(flat[i]) = Len(flat[i - 1]) + Len(seqs[i])
  <1>1. PICK n \in Nat : n = Len(seqs)
    OBVIOUS
  <1>2. ASSUME NEW i \in 0..n PROVE flat[i] \in Seq(E)
    BY <1>1
  <1>3. ASSUME NEW i \in 1..n PROVE Len(flat[i]) = Len(flat[i - 1]) + Len(seqs[i])
    <2>1. i - 1 \in 0..n
      OBVIOUS
    <2>2. flat[i - 1] \in Seq(E) /\ seqs[i] \in Seq(E)
      BY <1>1, <1>2, <2>1, ElementOfSeq
    <2>3. flat[i] = flat[i - 1] \o seqs[i]
      BY <1>1 DEF Flattens
    <2> QED BY <2>2, <2>3, ConcatParts
  <1>4. Len(flat[0]) = 0
    BY DEF Flattens
  <1>5. \A i \in 0..n : Len(flat[i]) \in Nat
    BY <1>2, LenProperties
  <1> QED BY <1>1, <1>3, <1>4, <1>5

-----------------------------------------------------------------------------
(***************************************************************************)
(* The codes of ascending numbers.                                         *)
(***************************************************************************)
Earlier(numbers, before, i) == IF i = 1 THEN before ELSE numbers[i - 1]

Ascends(numbers, before) ==
    /\ numbers \in Seq(Nat)
    /\ before \in Int /\ before >= -1
    /\ \A i \in 1..Len(numbers) : numbers[i] > Earlier(numbers, before, i)

GapCodes(m, numbers, before) ==
    [i \in 1..Len(numbers) |-> Code(m, numbers[i] - Earlier(numbers, before, i) - 1)]

LEMMA GapsAreNumbers ==
    ASSUME NEW numbers, NEW before, Ascends(numbers, before), NEW i \in 1..Len(numbers)
    PROVE  /\ Earlier(numbers, before, i) \in Int /\ numbers[i] \in Nat
           /\ numbers[i] - Earlier(numbers, before, i) - 1 \in Nat
  <1>1. PICK n \in Nat : n = Len(numbers)
    BY DEF Ascends
  <1>2. numbers[i] \in Nat /\ numbers[i] > Earlier(numbers, before, i)
    BY DEF Ascends
  <1>3. Earlier(numbers, before, i) \in Int
    <2>1. CASE i = 1
      BY <2>1 DEF Earlier, Ascends
    <2>2. CASE i # 1
      <3>1. i - 1 \in 1..Len(numbers)
        BY <1>1, <2>2
      <3> QED BY <2>2, <3>1 DEF Earlier, Ascends
    <2> QED BY <2>1, <2>2
  <1> QED BY <1>2, <1>3

LEMMA GapCodesType ==
    ASSUME NEW m \in Nat \ {0}, NEW numbers, NEW before, Ascends(numbers, before)
    PROVE  /\ GapCodes(m, numbers, before) \in Seq(Seq(Bit))
           /\ Len(GapCodes(m, numbers, before)) = Len(numbers)
           /\ Codes(m, numbers, before) = FlattenSeq(GapCodes(m, numbers, before))
  <1>1. PICK n \in Nat : n = Len(numbers)
    BY DEF Ascends
  <1>2. ASSUME NEW i \in 1..n
        PROVE  Code(m, numbers[i] - Earlier(numbers, before, i) - 1) \in Seq(Bit)
    BY <1>1, GapsAreNumbers, CodeType
  <1>3. GapCodes(m, numbers, before) \in [1..n -> Seq(Bit)]
    BY <1>1, <1>2 DEF GapCodes
  <1>4. Codes(m, numbers, before) = FlattenSeq(GapCodes(m, numbers, before))
    BY DEF Codes, GapCodes, Earlier
  <1> QED BY <1>1, <1>3, <1>4, FunctionIsSeq

LEMMA CodesType ==
    ASSUME NEW m \in Nat \ {0}, NEW numbers, NEW before, Ascends(numbers, before)
    PROVE  Codes(m, numbers, before) \in Seq(Bit)
  <1> DEFINE seqs == GapCodes(m, numbers, before)
  <1>1. seqs \in Seq(Seq(Bit)) /\ Codes(m, numbers, before) = FlattenSeq(seqs)
    BY GapCodesType
  <1> HIDE DEF seqs
  <1>2. PICK flat \in [0..Len(seqs) -> Seq(Bit)] : Flattens(flat, seqs)
    BY <1>1, FlattensExists
  <1>3. FlattenSeq(seqs) = flat[Len(seqs)]
    BY <1>1, <1>2, FlattenIs
  <1>4. PICK n \in Nat : n = Len(seqs)
    BY <1>1
  <1>5. n \in 0..n
    OBVIOUS
  <1>6. flat[Len(seqs)] \in Seq(Bit)
    BY <1>4, <1>5
  <1> QED BY <1>1, <1>3, <1>6

\* What has been read when i numbers have been.
ReadUpTo(numbers, before, start, flat, i) ==
    [numbers |-> SubSeq(numbers, 1, i),
     last |-> Earlier(numbers, before, i + 1),
     at |-> start + Len(flat[i])]

LEMMA OneMoreNumber ==
    ASSUME NEW numbers \in Seq(Nat), NEW i \in 1..Len(numbers)
    PROVE  Append(SubSeq(numbers, 1, i - 1), numbers[i]) = SubSeq(numbers, 1, i)
  <1>1. PICK n \in Nat : n = Len(numbers)
    OBVIOUS
  <1> DEFINE s == SubSeq(numbers, 1, i - 1)
             t == SubSeq(numbers, 1, i)
  <1>2. /\ s \in Seq(Nat) /\ Len(s) = i - 1
        /\ \A k \in 1..(i - 1) : s[k] = numbers[k]
    BY <1>1, SubSeqProperties
  <1>3. /\ t \in Seq(Nat) /\ Len(t) = i
        /\ \A k \in 1..i : t[k] = numbers[k]
    BY <1>1, SubSeqProperties
  <1>4. numbers[i] \in Nat
    OBVIOUS
  <1> HIDE DEF s, t
  <1>5. Append(s, numbers[i]) \in Seq(Nat) /\ Len(Append(s, numbers[i])) = i
    BY <1>2, <1>4
  <1>6. ASSUME NEW k \in 1..i PROVE Append(s, numbers[i])[k] = t[k]
    <2>1. CASE k = i
      BY <1>2, <1>3, <1>4, <2>1
    <2>2. CASE k # i
      <3>1. k \in 1..(i - 1)
        BY <2>2
      <3>2. s[k] = numbers[k] /\ t[k] = numbers[k]
        BY <1>2, <1>3, <3>1
      <3>3. k \in 1..Len(s)
        BY <1>2, <3>1
      <3>4. Append(s, numbers[i])[k] = s[k]
        BY <1>2, <1>4, <3>3, AppendProperties
      <3> QED BY <3>2, <3>4
    <2> QED BY <2>1, <2>2
  <1>7. Append(s, numbers[i]) = t
    BY <1>3, <1>5, <1>6, SeqEqual
  <1> QED BY <1>7 DEF s, t

LEMMA NumberReadAs ==
    ASSUME NEW m, NEW buf, NEW done, NEW v, NEW end,
           NumberAt(m, buf, done.at) = [value |-> v, at |-> end]
    PROVE  NumberRead(m, buf, done)
               = [numbers |-> Append(done.numbers, done.last + v + 1),
                  last |-> done.last + v + 1, at |-> end]
  BY DEF NumberRead

LEMMA NumberReadIs ==
    ASSUME NEW m \in Nat \ {0}, NEW buf \in Seq(Bit), NEW start, NEW numbers, NEW before,
           Ascends(numbers, before), NEW seqs, seqs = GapCodes(m, numbers, before),
           NEW flat \in [0..Len(seqs) -> Seq(Bit)], Flattens(flat, seqs),
           Holds(buf, start, flat[Len(seqs)]), NEW i \in 1..Len(numbers)
    PROVE  NumberRead(m, buf, ReadUpTo(numbers, before, start, flat, i - 1))
               = ReadUpTo(numbers, before, start, flat, i)
  <1>1. PICK n \in Nat : n = Len(numbers)
    BY DEF Ascends
  <1>2. seqs \in Seq(Seq(Bit)) /\ Len(seqs) = n
    BY <1>1, GapCodesType
  <1> DEFINE done == ReadUpTo(numbers, before, start, flat, i - 1)
             earlier == Earlier(numbers, before, i)
  <1>3. PICK gap \in Nat : gap = numbers[i] - earlier - 1
    BY GapsAreNumbers
  <1>4. earlier \in Int /\ numbers[i] \in Nat
    BY GapsAreNumbers
  <1> HIDE DEF earlier
  <1>5. earlier + gap + 1 = numbers[i]
    BY <1>3, <1>4
  <1>6. seqs[i] = Code(m, gap)
    BY <1>3 DEF GapCodes, earlier
  <1>7. Holds(buf, start + Len(flat[i - 1]), seqs[i])
    BY <1>1, <1>2, PartsAreHeld
  <1>8. start \in Nat
    BY DEF Holds
  <1>9. /\ flat[i - 1] \in Seq(Bit) /\ flat[i] = flat[i - 1] \o seqs[i]
        /\ seqs[i] \in Seq(Bit)
    <2>1. i - 1 \in 0..n
      BY <1>1
    <2>2. flat[i - 1] \in Seq(Bit)
      BY <1>2, <2>1, Zenon
    <2>3. seqs[i] \in Seq(Bit)
      BY <1>1, <1>2, ElementOfSeq
    <2>4. flat[i] = flat[i - 1] \o seqs[i]
      BY <1>1, <1>2 DEF Flattens
    <2> QED BY <2>2, <2>3, <2>4
  <1>10. Len(flat[i]) = Len(flat[i - 1]) + Len(seqs[i])
    BY <1>9, ConcatBits
  <1>11. PICK at \in Nat : at = start + Len(flat[i - 1])
    BY <1>8, <1>9
  <1>12. NumberAt(m, buf, at) = [value |-> gap, at |-> at + Len(seqs[i])]
    <2>1. Holds(buf, at, Code(m, gap))
      BY <1>6, <1>7, <1>11
    <2>2. NumberAt(m, buf, at) = [value |-> gap, at |-> at + Len(Code(m, gap))]
      BY <2>1, NumberIsRead
    <2> QED BY <1>6, <2>2
  <1>13. at + Len(seqs[i]) = start + Len(flat[i])
    <2>1. PICK a \in Nat : a = Len(flat[i - 1])
      BY <1>9
    <2>2. PICK b \in Nat : b = Len(seqs[i])
      BY <1>9
    <2>3. Len(flat[i]) = a + b /\ at = start + a
      BY <1>10, <1>11, <2>1, <2>2
    <2>4. at + b = start + (a + b)
      BY <1>8, <2>3
    <2> QED BY <2>2, <2>3, <2>4
  <1>14. done.at = at /\ done.last = earlier /\ done.numbers = SubSeq(numbers, 1, i - 1)
    <2>1. (i - 1) + 1 = i
      BY <1>1
    <2> QED BY <1>11, <2>1 DEF ReadUpTo, earlier
  <1> HIDE DEF done
  <1>15. NumberRead(m, buf, done)
             = [numbers |-> Append(done.numbers, earlier + gap + 1),
                last |-> earlier + gap + 1, at |-> at + Len(seqs[i])]
    <2>1. NumberAt(m, buf, done.at) = [value |-> gap, at |-> at + Len(seqs[i])]
      BY <1>12, <1>14
    <2>2. NumberRead(m, buf, done)
              = [numbers |-> Append(done.numbers, done.last + gap + 1),
                 last |-> done.last + gap + 1, at |-> at + Len(seqs[i])]
      BY <2>1, NumberReadAs
    <2> QED BY <1>14, <2>2
  <1>16. Append(done.numbers, numbers[i]) = SubSeq(numbers, 1, i)
    BY <1>14, OneMoreNumber DEF Ascends
  <1>17. Earlier(numbers, before, i + 1) = numbers[i]
    <2>1. (i + 1) - 1 = i /\ i + 1 # 1
      BY <1>1
    <2> QED BY <2>1 DEF Earlier
  <1>18. ReadUpTo(numbers, before, start, flat, i)
             = [numbers |-> Append(done.numbers, earlier + gap + 1),
                last |-> earlier + gap + 1, at |-> at + Len(seqs[i])]
    BY <1>5, <1>13, <1>16, <1>17 DEF ReadUpTo
  <1> QED BY <1>15, <1>18 DEF done

\* The numbers are read as they were written, up to the end of their codes.
LEMMA NumbersAreRead ==
    ASSUME NEW m \in Nat \ {0}, NEW buf \in Seq(Bit), NEW start, NEW numbers, NEW before,
           Ascends(numbers, before), Holds(buf, start, Codes(m, numbers, before))
    PROVE  LET read == NumbersAt(m, Len(numbers), buf, start, before)
           IN  /\ read.numbers = numbers
               /\ read.at = start + Len(Codes(m, numbers, before))
  <1>1. PICK n \in Nat : n = Len(numbers)
    BY DEF Ascends
  <1>2. PICK seqs : seqs = GapCodes(m, numbers, before)
    OBVIOUS
  <1>3. /\ seqs \in Seq(Seq(Bit)) /\ Len(seqs) = n
        /\ Codes(m, numbers, before) = FlattenSeq(seqs)
    BY <1>1, <1>2, GapCodesType
  <1>4. PICK flat \in [0..Len(seqs) -> Seq(Bit)] : Flattens(flat, seqs)
    BY <1>3, FlattensExists
  <1>5. Codes(m, numbers, before) = flat[Len(seqs)]
    BY <1>3, <1>4, FlattenIs
  <1> DEFINE first == [numbers |-> <<>>, last |-> before, at |-> start]
             IsRead(f) == f = [i \in 0..n |-> IF i = 0 THEN first
                                              ELSE NumberRead(m, buf, f[i - 1])]
             g == [i \in 0..n |-> ReadUpTo(numbers, before, start, flat, i)]
  <1>6. \A i \in 1..n : g[i] = NumberRead(m, buf, g[i - 1])
    <2> SUFFICES ASSUME NEW i \in 1..n PROVE g[i] = NumberRead(m, buf, g[i - 1])
      OBVIOUS
    <2>1. NumberRead(m, buf, ReadUpTo(numbers, before, start, flat, i - 1))
              = ReadUpTo(numbers, before, start, flat, i)
      BY <1>1, <1>2, <1>4, <1>5, NumberReadIs
    <2>2. i \in 0..n /\ i - 1 \in 0..n
      OBVIOUS
    <2> QED BY <2>1, <2>2
  <1>7. g[0] = first
    <2>1. 0 \in 0..n
      OBVIOUS
    <2>2. SubSeq(numbers, 1, 0) = <<>> /\ Earlier(numbers, before, 0 + 1) = before
      BY SubSeqProperties DEF Earlier, Ascends
    <2>3. start + Len(flat[0]) = start
      <3>1. Len(flat[0]) = 0
        BY <1>4 DEF Flattens
      <3>2. start \in Nat
        BY DEF Holds
      <3> QED BY <3>1, <3>2
    <2> QED BY <2>1, <2>2, <2>3 DEF ReadUpTo
  <1>8. g = [i \in 0..n |-> g[i]]
    OBVIOUS
  <1> HIDE DEF g, first
  <1>9. IsRead(g)
    <2>1. \A i \in 0..n : g[i] = IF i = 0 THEN first ELSE NumberRead(m, buf, g[i - 1])
      BY <1>6, <1>7
    <2> QED BY <1>8, <2>1
  <1>10. NumbersAt(m, Len(numbers), buf, start, before) = (CHOOSE f : IsRead(f))[n]
    BY <1>1 DEF NumbersAt, first
  <1>11. PICK f : /\ IsRead(f)
                  /\ NumbersAt(m, Len(numbers), buf, start, before) = f[n]
    BY <1>9, <1>10
  <1>12. f[0] = g[0]
    BY <1>7, <1>11
  <1>13. f[n] = g[n]
    <2>1. \A i \in 1..n : f[i - 1] = g[i - 1] => f[i] = g[i]
      BY <1>6, <1>11
    <2>2. GoAlike(f, g, n)
      BY <1>12, <2>1 DEF GoAlike
    <2> QED BY <2>2, EndAlike
  <1>14. g[n] = ReadUpTo(numbers, before, start, flat, n)
    BY DEF g
  <1>15. SubSeq(numbers, 1, n) = numbers
    BY <1>1, SubSeqFull DEF Ascends
  <1> QED BY <1>3, <1>5, <1>11, <1>13, <1>14, <1>15 DEF ReadUpTo

-----------------------------------------------------------------------------
(***************************************************************************)
(* The positions of a posting in order.                                    *)
(***************************************************************************)
Orders(q, n, P) ==
    /\ q \in [1..n -> P]
    /\ \A i \in 1..n, j \in 1..n : i < j => q[i] < q[j]

Orderable(n) ==
    \A P \in SUBSET Nat : IsFiniteSet(P) /\ Cardinality(P) = n => \E q : Orders(q, n, P)

LEMMA OneMorePosition ==
    ASSUME NEW n \in Nat \ {0}, Orderable(n - 1),
           NEW P \in SUBSET Nat, IsFiniteSet(P), Cardinality(P) = n
    PROVE  \E q : Orders(q, n, P)
  <1>1. P # {}
    BY FS_EmptySet
  <1>2. PICK x \in P : \A y \in P : x <= y
    BY <1>1, LeastNumber
  <1>3. IsFiniteSet(P \ {x}) /\ Cardinality(P \ {x}) = n - 1
    BY FS_RemoveElement
  <1>4. PICK r : Orders(r, n - 1, P \ {x})
    BY <1>3 DEF Orderable
  <1> DEFINE q == [i \in 1..n |-> IF i = 1 THEN x ELSE r[i - 1]]
  <1>5. ASSUME NEW i \in 2..n PROVE r[i - 1] \in P \ {x}
    <2>1. i - 1 \in 1..(n - 1)
      OBVIOUS
    <2> QED BY <1>4, <2>1 DEF Orders
  <1>6. q \in [1..n -> P]
    <2> SUFFICES ASSUME NEW i \in 1..n PROVE (IF i = 1 THEN x ELSE r[i - 1]) \in P
      OBVIOUS
    <2>1. i # 1 => i \in 2..n
      OBVIOUS
    <2> QED BY <1>5, <2>1
  <1>7. ASSUME NEW i \in 1..n, NEW j \in 1..n, i < j PROVE q[i] < q[j]
    <2>1. j \in 2..n /\ q[j] = r[j - 1]
      BY <1>7
    <2>2. r[j - 1] \in P \ {x}
      BY <1>5, <2>1
    <2>3. CASE i = 1
      <3>1. q[i] = x
        BY <2>3
      <3>2. x <= r[j - 1] /\ x # r[j - 1] /\ x \in Nat /\ r[j - 1] \in Nat
        BY <1>2, <2>2
      <3> QED BY <2>1, <3>1, <3>2
    <2>4. CASE i # 1
      <3>1. q[i] = r[i - 1] /\ i - 1 \in 1..(n - 1) /\ j - 1 \in 1..(n - 1) /\ i - 1 < j - 1
        BY <1>7, <2>4
      <3>2. r[i - 1] < r[j - 1]
        BY <1>4, <3>1 DEF Orders
      <3> QED BY <2>1, <3>1, <3>2
    <2> QED BY <2>3, <2>4
  <1>8. Orders(q, n, P)
    BY <1>6, <1>7 DEF Orders
  <1> QED BY <1>8

LEMMA AllOrderable == \A n \in Nat : Orderable(n)
  <1> DEFINE S == {n \in Nat : Orderable(n)}
  <1>1. 0 \in S
    <2>1. \A P : Orders([i \in 1..0 |-> 0], 0, P)
      BY DEF Orders
    <2>2. Orderable(0)
      BY <2>1 DEF Orderable
    <2> QED BY <2>2
  <1>2. ASSUME NEW n \in Nat \ {0}, n - 1 \in S PROVE n \in S
    <2>1. Orderable(n - 1)
      BY <1>2
    <2>2. Orderable(n)
      BY <2>1, OneMorePosition DEF Orderable
    <2> QED BY <2>2
  <1> HIDE DEF S
  <1>3. Nat \subseteq S
    BY <1>1, <1>2, InductionOverAll
  <1> QED BY <1>3 DEF S

Numbered(pos) == pos \in SUBSET Nat /\ IsFiniteSet(pos) /\ pos # {}

\* There are as many as the posting has, in ascending order, and no other.
LEMMA PositionsInOrder ==
    ASSUME NEW posting, Numbered(posting.pos)
    PROVE  /\ PositionSeq(posting) \in Seq(Nat)
           /\ Len(PositionSeq(posting)) = Cardinality(posting.pos)
           /\ Len(PositionSeq(posting)) \in Nat \ {0}
           /\ Orders(PositionSeq(posting), Len(PositionSeq(posting)), posting.pos)
           /\ ToSet(PositionSeq(posting)) = posting.pos
  <1>1. PICK P \in SUBSET Nat : P = posting.pos
    BY DEF Numbered
  <1>2. PICK n \in Nat : n = Cardinality(P)
    BY <1>1, FS_CardinalityType DEF Numbered
  <1>3. n # 0
    BY <1>1, <1>2, FS_EmptySet DEF Numbered
  <1>4. \E q : Orders(q, n, P)
    BY <1>1, <1>2, AllOrderable DEF Orderable, Numbered
  <1>5. PICK q : q = PositionSeq(posting)
    OBVIOUS
  <1>6. q = CHOOSE r \in [1..n -> P] : \A i \in 1..n, j \in 1..n : i < j => r[i] < r[j]
    BY <1>1, <1>2, <1>5 DEF PositionSeq
  <1>7. Orders(q, n, P)
    BY <1>4, <1>6 DEF Orders
  <1>8. q \in Seq(P) /\ Len(q) = n
    BY <1>7, FunctionIsSeq DEF Orders
  <1>9. q \in Injection(1..n, P)
    <2> SUFFICES ASSUME NEW i \in 1..n, NEW j \in 1..n, q[i] = q[j] PROVE i = j
      BY <1>7 DEF Orders, Injection, IsInjective
    <2>1. q[i] \in Nat /\ q[j] \in Nat
      BY <1>7 DEF Orders
    <2>2. ~ (q[i] < q[j]) /\ ~ (q[j] < q[i])
      BY <2>1
    <2>3. ~ (i < j) /\ ~ (j < i)
      BY <1>7, <2>2 DEF Orders
    <2> QED BY <2>3
  <1>10. q \in Surjection(1..n, P)
    <2>1. Cardinality(1..n) = n
      BY FS_Interval
    <2> QED BY <1>1, <1>2, <1>9, <2>1, FS_Injection DEF Numbered
  <1>11. ToSet(q) = P
    BY <1>7, <1>8, <1>10 DEF ToSet, Surjection, Orders
  <1>12. q \in Seq(Nat)
    <2>1. q \in [1..n -> Nat]
      BY <1>7 DEF Orders
    <2> QED BY <2>1, FunctionIsSeq
  <1> QED BY <1>1, <1>2, <1>3, <1>5, <1>7, <1>8, <1>11, <1>12

-----------------------------------------------------------------------------
(***************************************************************************)
(* Whole bytes.                                                            *)
(***************************************************************************)
Whole(buf) == buf \in Seq(Bit) /\ Len(buf) % ByteBits = 0

LEMMA ManyWhole ==
    ASSUME NEW k \in Nat, NEW b \in Nat \ {0} PROVE (k * b) % b = 0
  OBVIOUS

LEMMA MoreWhole ==
    ASSUME NEW a \in Nat, NEW k \in Nat, NEW b \in Nat \ {0}, a % b = 0
    PROVE  (a + k * b) % b = 0
  <1>1. PICK q \in Nat : q = a \div b
    BY DivisionWithRest
  <1>2. a = q * b
    BY <1>1, DivisionWithRest
  <1>3. PICK s \in Nat : s = q + k
    OBVIOUS
  <1>4. a + k * b = s * b
    BY <1>2, <1>3
  <1>5. (s * b) % b = 0
    BY ManyWhole
  <1> QED BY <1>4, <1>5

LEMMA NextByteIs ==
    ASSUME NEW at \in Nat
    PROVE  /\ NextByte(at) \in Nat /\ NextByte(at) >= at
           /\ NextByte(at) % ByteBits = 0
           /\ at % ByteBits = 0 => NextByte(at) = at
  <1>1. PICK b \in Nat \ {0} : b = ByteBits
    BY WidthAssumption
  <1>2. PICK q \in Nat : q = at \div b
    BY DivisionWithRest
  <1>3. PICK r \in 0..(b - 1) : r = at % b
    BY DivisionWithRest
  <1>4. at = q * b + r
    BY <1>2, <1>3, DivisionWithRest
  <1>5. CASE r = 0
    BY <1>1, <1>3, <1>5 DEF NextByte
  <1>6. CASE r # 0
    <2>1. NextByte(at) = at + b - r
      BY <1>1, <1>3, <1>6 DEF NextByte
    <2>2. at + b - r = (q + 1) * b
      BY <1>4
    <2>3. ((q + 1) * b) % b = 0
      BY ManyWhole
    <2>4. at + b - r \in Nat /\ at + b - r >= at
      OBVIOUS
    <2> QED BY <1>1, <1>3, <1>6, <2>1, <2>2, <2>3, <2>4
  <1> QED BY <1>5, <1>6

LEMMA AlignedIs ==
    ASSUME NEW buf \in Seq(Bit)
    PROVE  /\ Whole(Aligned(buf))
           /\ Len(Aligned(buf)) = NextByte(Len(buf))
           /\ Len(buf) % ByteBits = 0 => Aligned(buf) = buf
           /\ \E more \in Seq(Bit) : Aligned(buf) = buf \o more
  <1>1. PICK n \in Nat : n = Len(buf)
    OBVIOUS
  <1>2. PICK k \in Nat : k = NextByte(n) - n
    BY NextByteIs
  <1>3. n + k = NextByte(n)
    BY <1>2, NextByteIs
  <1>4. PICK more : more = [i \in 1..k |-> 0]
    OBVIOUS
  <1>5. more \in Seq(Bit) /\ Len(more) = k
    <2>1. more \in [1..k -> Bit]
      BY <1>4 DEF Bit
    <2> QED BY <2>1, FunctionIsSeq
  <1>6. Aligned(buf) = buf \o more
    BY <1>1, <1>2, <1>4 DEF Aligned
  <1>7. Aligned(buf) \in Seq(Bit) /\ Len(Aligned(buf)) = NextByte(n)
    BY <1>1, <1>3, <1>5, <1>6, ConcatBits
  <1>8. ASSUME n % ByteBits = 0 PROVE Aligned(buf) = buf
    <2>1. k = 0
      BY <1>2, <1>8, NextByteIs
    <2>2. more = <<>>
      BY <1>5, <2>1, EmptySeq
    <2> QED BY <1>6, <2>2
  <1> QED BY <1>1, <1>5, <1>6, <1>7, <1>8, NextByteIs DEF Whole

LEMMA WithIntIs ==
    ASSUME NEW buf, Whole(buf), NEW n \in Nat
    PROVE  /\ WithInt(buf, n) = buf \o Bits(n, IntBits)
           /\ Bits(n, IntBits) \in Seq(Bit)
           /\ Whole(WithInt(buf, n))
           /\ Len(WithInt(buf, n)) = Len(buf) + IntBits
           /\ IntBits \in Nat \ {0}
  <1>1. PICK b \in Nat \ {0} : b = ByteBits
    BY WidthAssumption
  <1>2. PICK k \in Nat \ {0} : k = IntBytes
    BY WidthAssumption
  <1>3. IntBits = k * b /\ IntBits \in Nat \ {0}
    BY <1>1, <1>2 DEF IntBits
  <1>4. Bits(n, IntBits) \in Seq(Bit) /\ Len(Bits(n, IntBits)) = IntBits
    BY <1>3, BitsType
  <1>5. buf \in Seq(Bit) /\ Len(buf) % b = 0 /\ Len(buf) \in Nat
    BY <1>1 DEF Whole
  <1>6. WithInt(buf, n) = buf \o Bits(n, IntBits)
    BY <1>1, <1>5, AlignedIs DEF WithInt
  <1>7. WithInt(buf, n) \in Seq(Bit) /\ Len(WithInt(buf, n)) = Len(buf) + IntBits
    BY <1>4, <1>5, <1>6, ConcatBits
  <1>8. Len(WithInt(buf, n)) % b = 0
    <2>1. PICK l \in Nat : l = Len(buf)
      BY <1>5
    <2>2. (l + k * b) % b = 0
      BY <1>5, <2>1, MoreWhole
    <2>3. Len(WithInt(buf, n)) = l + k * b
      BY <1>3, <1>7, <2>1
    <2> QED BY <2>2, <2>3
  <1> QED BY <1>1, <1>3, <1>4, <1>6, <1>7, <1>8 DEF Whole

-----------------------------------------------------------------------------
(***************************************************************************)
(* A count, a parameter and the codes of so many numbers.                  *)
(***************************************************************************)
Fits(n) == n \in Nat /\ n < Power[IntBits]

Begins(buf, all) == buf \in Seq(Bit) /\ \E more \in Seq(Bit) : all = buf \o more

LEMMA BeginsAll ==
    ASSUME NEW a \in Seq(Bit), NEW b \in Seq(Bit)
    PROVE  Begins(a, a \o b)
  BY DEF Begins

LEMMA BeginsBoth ==
    ASSUME NEW a, NEW b, NEW c, Begins(a, b), Begins(b, c)
    PROVE  Begins(a, c)
  <1>1. PICK s \in Seq(Bit) : b = a \o s
    BY DEF Begins
  <1>2. PICK t \in Seq(Bit) : c = b \o t
    BY DEF Begins
  <1>3. a \in Seq(Bit)
    BY DEF Begins
  <1>4. c = a \o (s \o t)
    BY <1>1, <1>2, <1>3, ConcatAssociative
  <1>5. s \o t \in Seq(Bit)
    OBVIOUS
  <1> QED BY <1>3, <1>4, <1>5 DEF Begins

LEMMA BeginsLonger ==
    ASSUME NEW a, NEW b, Begins(a, b), Len(a) > 0
    PROVE  Len(b) > 0
  <1>1. PICK s \in Seq(Bit) : b = a \o s /\ a \in Seq(Bit)
    BY DEF Begins
  <1>2. Len(b) = Len(a) + Len(s) /\ Len(a) \in Nat /\ Len(s) \in Nat
    BY <1>1, ConcatBits
  <1> QED BY <1>2

LEMMA BeginningIsHeld ==
    ASSUME NEW a, NEW b, Begins(a, b), NEW all \in Seq(Bit), Holds(all, 0, b)
    PROVE  Holds(all, 0, a)
  BY HeldInTwo DEF Begins

Writable(m, numbers, before) ==
    /\ Ascends(numbers, before)
    /\ Fits(Len(numbers))
    /\ m # 0 /\ Fits(m)

LEMMA NumbersWritten ==
    ASSUME NEW buf, Whole(buf), NEW m, NEW numbers, NEW before, Writable(m, numbers, before)
    PROVE  /\ Whole(WithNumbers(buf, m, numbers, before))
           /\ Begins(buf, WithNumbers(buf, m, numbers, before))
           /\ Len(WithNumbers(buf, m, numbers, before)) > 0
  <1>1. PICK n \in Nat : n = Len(numbers)
    BY DEF Writable, Ascends
  <1>2. m \in Nat \ {0} /\ Ascends(numbers, before) /\ buf \in Seq(Bit)
    BY DEF Writable, Fits, Whole
  <1>3. PICK one : one = WithInt(buf, n)
    OBVIOUS
  <1>4. Whole(one) /\ one \in Seq(Bit) /\ Begins(buf, one)
    BY <1>2, <1>3, WithIntIs, BeginsAll DEF Whole
  <1>5. PICK two : two = WithInt(one, m)
    OBVIOUS
  <1>6. two \in Seq(Bit) /\ Begins(one, two)
    BY <1>2, <1>4, <1>5, WithIntIs, BeginsAll DEF Whole
  <1>7. PICK codes \in Seq(Bit) : codes = Codes(m, numbers, before)
    BY <1>2, CodesType
  <1>8. two \o codes \in Seq(Bit) /\ Begins(two, two \o codes)
    BY <1>6, BeginsAll
  <1>9. Whole(Aligned(two \o codes)) /\ Begins(two \o codes, Aligned(two \o codes))
    BY <1>8, AlignedIs DEF Begins
  <1>10. WithNumbers(buf, m, numbers, before) = Aligned(two \o codes)
    BY <1>1, <1>3, <1>5, <1>7 DEF WithNumbers
  <1>11. Begins(buf, two \o codes) /\ Begins(one, Aligned(two \o codes))
    BY <1>4, <1>6, <1>8, <1>9, BeginsBoth
  <1>12. Len(one) > 0
    <2>1. Len(one) = Len(buf) + IntBits /\ IntBits \in Nat \ {0} /\ Len(buf) \in Nat
      BY <1>2, <1>3, WithIntIs
    <2> QED BY <2>1
  <1>13. Len(Aligned(two \o codes)) > 0
    BY <1>11, <1>12, BeginsLonger
  <1> QED BY <1>9, <1>10, <1>11, <1>13, BeginsBoth

\* What reading them at at gives: the numbers, and the end at at'.
ReadsNumbers(buf, at, m, numbers, before, end) ==
    /\ IntAt(buf, at) = Len(numbers)
    /\ IntAt(buf, at + IntBits) = m
    /\ LET read == NumbersAt(m, Len(numbers), buf, at + 2 * IntBits, before)
       IN  read.numbers = numbers /\ NextByte(read.at) = end

LEMMA WrittenIsRead ==
    ASSUME NEW buf, Whole(buf), NEW m, NEW numbers, NEW before, Writable(m, numbers, before),
           NEW all \in Seq(Bit), Holds(all, 0, WithNumbers(buf, m, numbers, before))
    PROVE  ReadsNumbers(all, Len(buf), m, numbers, before,
                        Len(WithNumbers(buf, m, numbers, before)))
  <1>1. PICK n \in Nat : n = Len(numbers) /\ Fits(n)
    BY DEF Writable, Ascends
  <1>2. /\ m \in Nat \ {0} /\ Fits(m) /\ Ascends(numbers, before)
        /\ buf \in Seq(Bit) /\ Len(buf) \in Nat
    BY DEF Writable, Fits, Whole
  <1>3. PICK b1 \in Seq(Bit) : b1 = Bits(n, IntBits)
    BY WithIntIs
  <1>4. PICK one \in Seq(Bit) : one = WithInt(buf, n)
    BY WithIntIs DEF Whole
  <1>5. one = buf \o b1 /\ Whole(one) /\ Len(one) = Len(buf) + IntBits
    BY <1>3, <1>4, WithIntIs
  <1>6. PICK b2 \in Seq(Bit) : b2 = Bits(m, IntBits)
    BY <1>2, WithIntIs
  <1>7. PICK two \in Seq(Bit) : two = WithInt(one, m)
    BY <1>2, <1>5, WithIntIs DEF Whole
  <1>8. two = one \o b2 /\ Len(two) = Len(one) + IntBits /\ IntBits \in Nat
    BY <1>2, <1>5, <1>6, <1>7, WithIntIs
  <1>9. PICK codes \in Seq(Bit) : codes = Codes(m, numbers, before)
    BY <1>2, CodesType
  <1>10. PICK three \in Seq(Bit) : three = two \o codes
    <2>1. two \o codes \in Seq(Bit)
      OBVIOUS
    <2> QED BY <2>1
  <1>11. WithNumbers(buf, m, numbers, before) = Aligned(three)
    BY <1>1, <1>4, <1>7, <1>9, <1>10 DEF WithNumbers
  <1>12. PICK more \in Seq(Bit) : Aligned(three) = three \o more
    BY AlignedIs
  <1>13. Holds(all, 0, three)
    BY <1>11, <1>12, HeldInTwo
  <1>14. Holds(all, 0, two) /\ Holds(all, 0 + Len(two), codes)
    BY <1>10, <1>13, HeldInTwo
  <1>15. Holds(all, 0, one) /\ Holds(all, 0 + Len(one), b2)
    BY <1>8, <1>14, HeldInTwo
  <1>16. Holds(all, 0 + Len(buf), b1)
    BY <1>2, <1>5, <1>15, HeldInTwo
  <1>17. PICK at \in Nat : at = Len(buf)
    BY <1>2
  <1>18. 0 + Len(buf) = at /\ 0 + Len(one) = at + IntBits /\ 0 + Len(two) = at + 2 * IntBits
    BY <1>5, <1>8, <1>17
  <1>19. IntAt(all, at) = n
    BY <1>1, <1>3, <1>16, <1>18, IntIsRead DEF Fits
  <1>20. IntAt(all, at + IntBits) = m
    BY <1>2, <1>6, <1>15, <1>18, IntIsRead DEF Fits
  <1>21. PICK start \in Nat : start = at + 2 * IntBits
    BY <1>8
  <1>22. Holds(all, start, Codes(m, numbers, before))
    BY <1>9, <1>14, <1>18, <1>21
  <1>23. PICK read : read = NumbersAt(m, Len(numbers), all, start, before)
    OBVIOUS
  <1>24. read.numbers = numbers /\ read.at = start + Len(codes)
    BY <1>2, <1>9, <1>22, <1>23, NumbersAreRead
  <1>25. Len(three) = start + Len(codes)
    <2>1. Len(three) = Len(two) + Len(codes)
      BY <1>10, ConcatBits
    <2>2. Len(two) = start
      BY <1>18, <1>21
    <2> QED BY <2>1, <2>2
  <1>26. NextByte(read.at) = Len(WithNumbers(buf, m, numbers, before))
    BY <1>11, <1>24, <1>25, AlignedIs
  <1> QED BY <1>1, <1>17, <1>19, <1>20, <1>21, <1>23, <1>24, <1>26 DEF ReadsNumbers

-----------------------------------------------------------------------------
(***************************************************************************)
(* The positions of one posting.                                           *)
(***************************************************************************)
Storable(pos) == Numbered(pos) /\ \A p \in pos : Fits(p + 1)

PositionParameter(posting) ==
    (Last(PositionSeq(posting)) + 1) \div Len(PositionSeq(posting))

\* The i-th number that ascends from 0 or more is at least i - 1.
LEMMA AscentIsSteep ==
    ASSUME NEW n \in Nat \ {0}, NEW P \in SUBSET Nat, NEW q, Orders(q, n, P)
    PROVE  q[n] + 1 >= n
  <1> DEFINE S == {k \in 0..n : k = 0 \/ q[k] + 1 >= k}
  <1>1. 0 \in S
    OBVIOUS
  <1>2. ASSUME NEW k \in 1..n, k - 1 \in S PROVE k \in S
    <2>1. q[k] \in Nat
      BY DEF Orders
    <2>2. CASE k = 1
      BY <2>1, <2>2
    <2>3. CASE k # 1
      <3>1. k - 1 \in 1..n /\ k - 1 < k
        BY <2>3
      <3>2. q[k - 1] \in Nat /\ q[k - 1] < q[k]
        BY <3>1 DEF Orders
      <3>3. q[k - 1] + 1 >= k - 1
        BY <1>2, <2>3
      <3> QED BY <2>1, <3>2, <3>3
    <2> QED BY <2>2, <2>3
  <1> HIDE DEF S
  <1>3. 0..n \subseteq S
    BY <1>1, <1>2, Induction
  <1>4. n \in S
    BY <1>3
  <1> QED BY <1>4 DEF S

LEMMA QuotientIsPositive ==
    ASSUME NEW a \in Nat, NEW b \in Nat \ {0}, a >= b
    PROVE  a \div b \in Nat /\ a \div b # 0 /\ a \div b <= a
  OBVIOUS

LEMMA PositionsWritable ==
    ASSUME NEW posting, Storable(posting.pos)
    PROVE  Writable(PositionParameter(posting), PositionSeq(posting), -1)
  <1>1. PICK q \in Seq(Nat) : q = PositionSeq(posting)
    BY PositionsInOrder DEF Storable
  <1>2. PICK n \in Nat \ {0} : n = Len(q)
    BY <1>1, PositionsInOrder DEF Storable
  <1>3. PICK P \in SUBSET Nat : P = posting.pos
    BY DEF Storable, Numbered
  <1>4. Orders(q, n, P)
    BY <1>1, <1>2, <1>3, PositionsInOrder DEF Storable
  <1>5. q[n] \in P /\ Fits(q[n] + 1) /\ q[n] + 1 >= n
    <2>1. n \in 1..n
      OBVIOUS
    <2>2. q[n] \in P
      BY <1>4, <2>1 DEF Orders
    <2>3. Fits(q[n] + 1)
      BY <1>3, <2>2 DEF Storable
    <2> QED BY <1>4, <2>2, <2>3, AscentIsSteep
  <1>6. PICK last \in Nat : last = q[n] + 1
    BY <1>5 DEF Fits
  <1>7. last \div n \in Nat /\ last \div n # 0 /\ last \div n <= last
    BY <1>5, <1>6, QuotientIsPositive
  <1>8. PositionParameter(posting) = last \div n
    BY <1>1, <1>2, <1>6 DEF PositionParameter, Last
  <1>9. IntBits \in Nat /\ Power[IntBits] \in Nat
    <2>1. IntBits \in Nat
      BY WidthAssumption DEF IntBits
    <2> QED BY <2>1, PowerTypes
  <1>10. Fits(last \div n) /\ Fits(n)
    <2> DEFINE x == last \div n
    <2>1. x \in Nat /\ x <= last
      BY <1>7
    <2> HIDE DEF x
    <2>2. Fits(x) /\ Fits(n)
      BY <1>5, <1>6, <1>9, <2>1 DEF Fits
    <2> QED BY <2>2 DEF x
  <1>11. Ascends(q, -1)
    <2>1. ASSUME NEW i \in 1..n PROVE q[i] > Earlier(q, -1, i)
      <3>1. CASE i = 1
        BY <1>2, <3>1 DEF Earlier
      <3>2. CASE i # 1
        <4>1. i - 1 \in 1..n /\ i - 1 < i
          BY <3>2
        <4>2. q[i - 1] < q[i] /\ q[i - 1] \in Nat /\ q[i] \in Nat
          BY <1>4, <4>1 DEF Orders
        <4> QED BY <3>2, <4>2 DEF Earlier
      <3> QED BY <3>1, <3>2
    <2> QED BY <1>2, <2>1 DEF Ascends
  <1> QED BY <1>1, <1>2, <1>7, <1>8, <1>10, <1>11 DEF Writable

LEMMA PositionsWritten ==
    ASSUME NEW buf, Whole(buf), NEW posting, Storable(posting.pos)
    PROVE  Whole(WithPositions(buf, posting)) /\ Begins(buf, WithPositions(buf, posting))
  BY PositionsWritable, NumbersWritten DEF WithPositions, PositionParameter

\* The buffer all has the positions of the posting behind buf, and these are next.
PositionsNext(all, buf, posting, done) ==
    /\ all \in Seq(Bit) /\ Whole(buf) /\ Storable(posting.pos)
    /\ Holds(all, 0, WithPositions(buf, posting))
    /\ done.at = Len(buf)

LEMMA PositionsAreRead ==
    ASSUME NEW all, NEW buf, NEW posting, NEW done, NEW doc,
           PositionsNext(all, buf, posting, done)
    PROVE  PositionsRead(all, doc, done)
               = [list |-> Append(done.list, [doc |-> doc, pos |-> posting.pos]),
                  at |-> Len(WithPositions(buf, posting))]
  <1>1. PICK m : m = PositionParameter(posting)
    OBVIOUS
  <1>2. PICK q : q = PositionSeq(posting)
    OBVIOUS
  <1>3. WithPositions(buf, posting) = WithNumbers(buf, m, q, -1)
    BY <1>1, <1>2 DEF WithPositions, PositionParameter
  <1>4. ReadsNumbers(all, Len(buf), m, q, -1, Len(WithPositions(buf, posting)))
    BY <1>1, <1>2, <1>3, PositionsWritable, WrittenIsRead DEF PositionsNext
  <1>5. PICK read : read = NumbersAt(m, Len(q), all, Len(buf) + 2 * IntBits, -1)
    OBVIOUS
  <1>6. read.numbers = q /\ NextByte(read.at) = Len(WithPositions(buf, posting))
    BY <1>4, <1>5 DEF ReadsNumbers
  <1>7. IntAt(all, Len(buf)) = Len(q) /\ IntAt(all, Len(buf) + IntBits) = m
    BY <1>4 DEF ReadsNumbers
  <1>8. ToSet(q) = posting.pos
    BY <1>2, PositionsInOrder DEF PositionsNext, Storable
  <1>9. PositionsRead(all, doc, done)
            = [list |-> Append(done.list, [doc |-> doc, pos |-> ToSet(read.numbers)]),
               at |-> NextByte(read.at)]
    BY <1>5, <1>7 DEF PositionsRead, PositionsNext
  <1> QED BY <1>6, <1>8, <1>9

-----------------------------------------------------------------------------
(***************************************************************************)
(* A list in Golomb codes.                                                 *)
(***************************************************************************)
DocsOf(postings) == [i \in 1..Len(postings) |-> postings[i].doc]

Encodable(postings, count) ==
    /\ postings \in Seq(Posting)
    /\ Ascends(DocsOf(postings), 0)
    /\ \A i \in 1..Len(postings) : Fits(postings[i].doc) /\ Storable(postings[i].pos)
    /\ Fits(count) /\ Len(postings) \in 1..count

ListParameter(postings, count) == count \div Len(postings)

LEMMA PostingsOf ==
    ASSUME NEW postings, NEW count, Encodable(postings, count)
    PROVE  /\ Len(postings) \in Nat \ {0}
           /\ \A i \in 1..Len(postings) :
                  /\ postings[i] \in Posting
                  /\ postings[i] = [doc |-> postings[i].doc, pos |-> postings[i].pos]
                  /\ DocsOf(postings)[i] = postings[i].doc
           /\ DocsOf(postings) \in Seq(Nat) /\ Len(DocsOf(postings)) = Len(postings)
  <1>1. PICK n \in Nat : n = Len(postings)
    BY DEF Encodable
  <1>2. n # 0
    BY <1>1 DEF Encodable, Fits
  <1>3. ASSUME NEW i \in 1..n
        PROVE  /\ postings[i] \in Posting /\ postings[i].doc \in Nat
               /\ postings[i] = [doc |-> postings[i].doc, pos |-> postings[i].pos]
    <2>1. postings[i] \in Posting
      BY <1>1, ElementOfSeq DEF Encodable
    <2> QED BY <2>1 DEF Posting
  <1>4. DocsOf(postings) \in [1..n -> Nat]
    BY <1>1, <1>3 DEF DocsOf
  <1>5. DocsOf(postings) \in Seq(Nat) /\ Len(DocsOf(postings)) = n
    BY <1>4, FunctionIsSeq
  <1> QED BY <1>1, <1>2, <1>3, <1>5 DEF DocsOf

LEMMA DocsWritable ==
    ASSUME NEW postings, NEW count, Encodable(postings, count)
    PROVE  Writable(ListParameter(postings, count), DocsOf(postings), 0)
  <1>1. PICK n \in Nat \ {0} : n = Len(postings)
    BY PostingsOf
  <1>2. count \in Nat /\ count >= n /\ count < Power[IntBits]
    BY <1>1 DEF Encodable, Fits
  <1>3. PICK m : m = count \div n
    OBVIOUS
  <1>4. m \in Nat /\ m # 0 /\ m <= count
    BY <1>2, <1>3, QuotientIsPositive
  <1>5. IntBits \in Nat
    BY WidthAssumption DEF IntBits
  <1>6. Power[IntBits] \in Nat
    BY <1>5, PowerTypes
  <1>7. Fits(m) /\ Fits(n)
    BY <1>2, <1>4, <1>6 DEF Fits
  <1>8. Len(DocsOf(postings)) = n
    BY <1>1, PostingsOf
  <1> QED BY <1>1, <1>3, <1>4, <1>7, <1>8 DEF Writable, Encodable, ListParameter

\* buffers[i] is what has been written when i postings have their positions.
Buffers(buffers, postings, count) ==
    /\ \A i \in 0..Len(postings) : Whole(buffers[i])
    /\ buffers[0] = WithNumbers(<<>>, ListParameter(postings, count), DocsOf(postings), 0)
    /\ \A i \in 1..Len(postings) : buffers[i] = WithPositions(buffers[i - 1], postings[i])

LEMMA EmptyIsWhole == Whole(<<>>) /\ Len(<<>>) = 0
  <1>1. 0 % ByteBits = 0
    BY WidthAssumption
  <1> QED BY <1>1 DEF Whole

LEMMA BuffersExist ==
    ASSUME NEW postings, NEW count, Encodable(postings, count)
    PROVE  \E buffers : Buffers(buffers, postings, count)
  <1>1. PICK n \in Nat : n = Len(postings)
    BY PostingsOf
  <1> DEFINE D == {b \in Seq(Bit) : Whole(b)}
             first == WithNumbers(<<>>, ListParameter(postings, count), DocsOf(postings), 0)
             step == [i \in Nat \ {0} |-> [x \in D |->
                         IF i \in 1..n THEN WithPositions(x, postings[i]) ELSE x]]
  <1>2. first \in D
    BY DocsWritable, NumbersWritten, EmptyIsWhole DEF Whole
  <1>3. \A i \in Nat \ {0}, x \in D :
            (IF i \in 1..n THEN WithPositions(x, postings[i]) ELSE x) \in D
    <2> SUFFICES ASSUME NEW i \in 1..n, NEW x \in D PROVE WithPositions(x, postings[i]) \in D
      OBVIOUS
    <2>1. Storable(postings[i].pos)
      BY <1>1 DEF Encodable
    <2>2. Whole(WithPositions(x, postings[i]))
      BY <2>1, PositionsWritten
    <2> QED BY <2>2 DEF Whole
  <1>4. \A i \in Nat \ {0}, x \in D :
            step[i][x] = IF i \in 1..n THEN WithPositions(x, postings[i]) ELSE x
    OBVIOUS
  <1>5. step \in [Nat \ {0} -> [D -> D]]
    BY <1>3
  <1> HIDE DEF step, D, first
  <1>6. PICK f \in [0..n -> D] : Recursive(f, n, first, step)
    BY <1>2, <1>5, RecursionUpTo
  <1>7. ASSUME NEW i \in 1..n PROVE f[i] = WithPositions(f[i - 1], postings[i])
    <2>1. i \in Nat \ {0} /\ i - 1 \in 0..n
      OBVIOUS
    <2>2. f[i - 1] \in D
      BY <2>1
    <2>3. f[i] = step[i][f[i - 1]]
      BY <1>6 DEF Recursive
    <2> QED BY <1>4, <2>1, <2>2, <2>3
  <1>8. \A i \in 0..n : Whole(f[i])
    BY DEF D
  <1>9. f[0] = first
    BY <1>6 DEF Recursive
  <1>10. Buffers(f, postings, count)
    BY <1>1, <1>7, <1>8, <1>9 DEF Buffers, first
  <1> QED BY <1>10

LEMMA EncodedIs ==
    ASSUME NEW postings, NEW count, Encodable(postings, count),
           NEW buffers, Buffers(buffers, postings, count)
    PROVE  EncodedGolomb(postings, count) = buffers[Len(postings)]
  <1>1. PICK n \in Nat : n = Len(postings)
    BY PostingsOf
  <1> DEFINE first == WithNumbers(<<>>, ListParameter(postings, count), DocsOf(postings), 0)
             IsEncoded(f) == f = [i \in 0..n |-> IF i = 0 THEN first
                                                 ELSE WithPositions(f[i - 1], postings[i])]
             g == [i \in 0..n |-> buffers[i]]
  <1>2. g[0] = first
    BY DEF Buffers
  <1>3. \A i \in 1..n : g[i] = WithPositions(g[i - 1], postings[i])
    <2> SUFFICES ASSUME NEW i \in 1..n PROVE g[i] = WithPositions(g[i - 1], postings[i])
      OBVIOUS
    <2>1. i \in 0..n /\ i - 1 \in 0..n
      OBVIOUS
    <2>2. buffers[i] = WithPositions(buffers[i - 1], postings[i])
      BY <1>1 DEF Buffers
    <2> QED BY <2>1, <2>2
  <1>4. g = [i \in 0..n |-> g[i]]
    OBVIOUS
  <1>5. g[n] = buffers[n]
    OBVIOUS
  <1> HIDE DEF g, first
  <1>6. IsEncoded(g)
    <2>1. \A i \in 0..n : g[i] = IF i = 0 THEN first ELSE WithPositions(g[i - 1], postings[i])
      BY <1>2, <1>3
    <2> QED BY <1>4, <2>1
  <1>7. EncodedGolomb(postings, count) = (CHOOSE f : IsEncoded(f))[n]
    BY <1>1 DEF EncodedGolomb, first, ListParameter, DocsOf
  <1>8. PICK f : IsEncoded(f) /\ EncodedGolomb(postings, count) = f[n]
    BY <1>6, <1>7
  <1>9. \A i \in 1..n : f[i - 1] = g[i - 1] => f[i] = g[i]
    BY <1>3, <1>8
  <1>10. f[0] = g[0]
    BY <1>2, <1>8
  <1>11. GoAlike(f, g, n)
    BY <1>9, <1>10 DEF GoAlike
  <1> QED BY <1>1, <1>5, <1>8, <1>11, EndAlike

LEMMA BuffersAreHeld ==
    ASSUME NEW postings, NEW count, Encodable(postings, count),
           NEW buffers, Buffers(buffers, postings, count)
    PROVE  \A i \in 0..Len(postings) : Holds(buffers[Len(postings)], 0, buffers[i])
  <1>1. PICK n \in Nat : n = Len(postings)
    BY PostingsOf
  <1>2. PICK all \in Seq(Bit) : all = buffers[n]
    BY <1>1 DEF Buffers, Whole
  <1>3. ASSUME NEW i \in 1..n PROVE Begins(buffers[i - 1], buffers[i])
    <2>1. i - 1 \in 0..n
      OBVIOUS
    <2>2. Whole(buffers[i - 1]) /\ buffers[i] = WithPositions(buffers[i - 1], postings[i])
      BY <1>1, <2>1 DEF Buffers
    <2>3. Storable(postings[i].pos)
      BY <1>1 DEF Encodable
    <2> QED BY <2>2, <2>3, PositionsWritten
  <1> DEFINE S == {k \in 0..n : Holds(all, 0, buffers[n - k])}
  <1>4. 0 \in S
    <2>1. Holds(all, 0, all)
      BY DEF Holds
    <2> QED BY <1>2, <2>1
  <1>5. ASSUME NEW k \in 1..n, k - 1 \in S PROVE k \in S
    <2>1. n - (k - 1) \in 1..n /\ (n - (k - 1)) - 1 = n - k
      OBVIOUS
    <2>2. Begins(buffers[n - k], buffers[n - (k - 1)])
      BY <1>3, <2>1
    <2>3. Holds(all, 0, buffers[n - k])
      BY <1>5, <2>2, BeginningIsHeld
    <2> QED BY <2>3
  <1> HIDE DEF S
  <1>6. 0..n \subseteq S
    BY <1>4, <1>5, Induction
  <1>7. ASSUME NEW i \in 0..n PROVE Holds(all, 0, buffers[i])
    <2>1. n - i \in S /\ n - (n - i) = i
      BY <1>6
    <2> QED BY <2>1 DEF S
  <1> QED BY <1>1, <1>2, <1>7

\* What has been decoded when i postings have their positions.
DecodedUpTo(postings, buffers, i) ==
    [list |-> SubSeq(postings, 1, i), at |-> Len(buffers[i])]

LEMMA OneMorePosting ==
    ASSUME NEW postings \in Seq(Posting), NEW i \in 1..Len(postings)
    PROVE  Append(SubSeq(postings, 1, i - 1), postings[i]) = SubSeq(postings, 1, i)
  <1>1. PICK n \in Nat : n = Len(postings)
    OBVIOUS
  <1> DEFINE s == SubSeq(postings, 1, i - 1)
             t == SubSeq(postings, 1, i)
  <1>2. /\ s \in Seq(Posting) /\ Len(s) = i - 1
        /\ \A k \in 1..(i - 1) : s[k] = postings[k]
    BY <1>1, SubSeqProperties
  <1>3. /\ t \in Seq(Posting) /\ Len(t) = i
        /\ \A k \in 1..i : t[k] = postings[k]
    BY <1>1, SubSeqProperties
  <1>4. postings[i] \in Posting
    BY ElementOfSeq
  <1> HIDE DEF s, t
  <1>5. Append(s, postings[i]) \in Seq(Posting) /\ Len(Append(s, postings[i])) = i
    BY <1>2, <1>4, AppendProperties
  <1>6. ASSUME NEW k \in 1..i PROVE Append(s, postings[i])[k] = t[k]
    <2>1. CASE k = i
      <3>1. Len(s) + 1 = i
        BY <1>1, <1>2
      <3>2. Append(s, postings[i])[Len(s) + 1] = postings[i]
        BY <1>2, <1>4, AppendProperties
      <3>3. t[i] = postings[i]
        BY <1>3, <2>1
      <3> QED BY <2>1, <3>1, <3>2, <3>3
    <2>2. CASE k # i
      <3>1. k \in 1..(i - 1)
        BY <2>2
      <3>2. s[k] = postings[k] /\ t[k] = postings[k]
        BY <1>2, <1>3, <3>1
      <3>3. k \in 1..Len(s)
        BY <1>2, <3>1
      <3>4. Append(s, postings[i])[k] = s[k]
        BY <1>2, <1>4, <3>3, AppendProperties
      <3> QED BY <3>2, <3>4
    <2> QED BY <2>1, <2>2
  <1>7. Append(s, postings[i]) = t
    BY <1>3, <1>5, <1>6, SeqEqual
  <1> QED BY <1>7 DEF s, t

LEMMA PostingIsDecoded ==
    ASSUME NEW postings, NEW count, Encodable(postings, count),
           NEW buffers, Buffers(buffers, postings, count), NEW i \in 1..Len(postings)
    PROVE  PositionsRead(buffers[Len(postings)], DocsOf(postings)[i],
                         DecodedUpTo(postings, buffers, i - 1))
               = DecodedUpTo(postings, buffers, i)
  <1>1. PICK n \in Nat : n = Len(postings)
    BY PostingsOf
  <1>2. n \in 0..n /\ i - 1 \in 0..n /\ i \in 0..n /\ i \in 1..n
    BY <1>1
  <1>3. PICK all \in Seq(Bit) : all = buffers[n]
    BY <1>1, <1>2 DEF Buffers, Whole
  <1>4. PICK buf : buf = buffers[i - 1]
    OBVIOUS
  <1>5. Whole(buf) /\ buffers[i] = WithPositions(buf, postings[i])
    BY <1>1, <1>2, <1>4 DEF Buffers
  <1>6. Holds(all, 0, buffers[i])
    BY <1>1, <1>2, <1>3, BuffersAreHeld
  <1>7. Storable(postings[i].pos)
    BY DEF Encodable
  <1>8. PICK done : done = DecodedUpTo(postings, buffers, i - 1)
    OBVIOUS
  <1>9. done.list = SubSeq(postings, 1, i - 1) /\ done.at = Len(buf)
    BY <1>4, <1>8 DEF DecodedUpTo
  <1>10. PICK posting : posting = postings[i]
    OBVIOUS
  <1>11. PICK doc : doc = DocsOf(postings)[i]
    OBVIOUS
  <1>12. Holds(all, 0, WithPositions(buf, posting)) /\ Storable(posting.pos)
    BY <1>5, <1>6, <1>7, <1>10
  <1>13. PositionsRead(all, doc, done)
             = [list |-> Append(done.list, [doc |-> doc, pos |-> posting.pos]),
                at |-> Len(WithPositions(buf, posting))]
    <2>1. PositionsNext(all, buf, posting, done)
      BY <1>5, <1>9, <1>12 DEF PositionsNext
    <2> QED BY <2>1, PositionsAreRead
  <1>14. [doc |-> doc, pos |-> posting.pos] = posting
    BY <1>10, <1>11, PostingsOf
  <1>15. Append(done.list, posting) = SubSeq(postings, 1, i)
    BY <1>9, <1>10, OneMorePosting DEF Encodable
  <1>16. DecodedUpTo(postings, buffers, i)
             = [list |-> Append(done.list, posting), at |-> Len(WithPositions(buf, posting))]
    BY <1>5, <1>10, <1>15 DEF DecodedUpTo
  <1> QED BY <1>1, <1>3, <1>8, <1>11, <1>13, <1>14, <1>16

LEMMA DocsAreDecoded ==
    ASSUME NEW postings, NEW count, Encodable(postings, count),
           NEW buffers, Buffers(buffers, postings, count), NEW all \in Seq(Bit),
           all = buffers[Len(postings)],
           NEW docs, docs = NumbersAt(IntAt(all, IntBits), IntAt(all, 0), all, 2 * IntBits, 0)
    PROVE  docs.numbers = DocsOf(postings) /\ NextByte(docs.at) = Len(buffers[0])
  <1>1. PICK n \in Nat : n = Len(postings)
    BY PostingsOf
  <1>2. 0 \in 0..n
    OBVIOUS
  <1>3. Holds(all, 0, buffers[0])
    BY <1>1, <1>2, BuffersAreHeld
  <1>4. PICK m : m = ListParameter(postings, count)
    OBVIOUS
  <1>5. PICK numbers : numbers = DocsOf(postings)
    OBVIOUS
  <1>6. buffers[0] = WithNumbers(<<>>, m, numbers, 0)
    BY <1>4, <1>5 DEF Buffers
  <1>7. Writable(m, numbers, 0)
    BY <1>4, <1>5, DocsWritable
  <1>8. ReadsNumbers(all, Len(<<>>), m, numbers, 0, Len(buffers[0]))
    BY <1>3, <1>6, <1>7, EmptyIsWhole, WrittenIsRead
  <1>9. ReadsNumbers(all, 0, m, numbers, 0, Len(buffers[0]))
    BY <1>8, EmptyIsWhole
  <1>10. IntBits \in Nat
    BY WidthAssumption DEF IntBits
  <1>11. 0 + IntBits = IntBits /\ 0 + 2 * IntBits = 2 * IntBits
    BY <1>10
  <1>12. IntAt(all, 0) = Len(numbers) /\ IntAt(all, IntBits) = m
    BY <1>9, <1>11 DEF ReadsNumbers
  <1>13. docs = NumbersAt(m, Len(numbers), all, 0 + 2 * IntBits, 0)
    BY <1>11, <1>12
  <1> QED BY <1>5, <1>9, <1>13 DEF ReadsNumbers

(***************************************************************************)
(* decode_postings_golomb gives any list that encode_postings_golomb was   *)
(* given, for any number of documents that is not below its length, and    *)
(* ends with the last of whole bytes.                                      *)
(***************************************************************************)
THEOREM GolombRoundTrip ==
    ASSUME NEW postings, NEW count, Encodable(postings, count)
    PROVE  /\ Whole(EncodedGolomb(postings, count))
           /\ EncodedGolomb(postings, count) # <<>>
           /\ DecodedGolomb(EncodedGolomb(postings, count))
                  = [list |-> postings, at |-> Len(EncodedGolomb(postings, count))]
  <1>1. PICK n \in Nat : n = Len(postings) /\ n # 0
    BY PostingsOf
  <1>2. PICK buffers : Buffers(buffers, postings, count)
    BY BuffersExist
  <1>3. PICK all : all = EncodedGolomb(postings, count)
    OBVIOUS
  <1>4. all = buffers[n]
    BY <1>1, <1>2, <1>3, EncodedIs
  <1>5. n \in 0..n /\ 0 \in 0..n
    OBVIOUS
  <1>6. Whole(all) /\ all \in Seq(Bit)
    BY <1>1, <1>2, <1>4, <1>5 DEF Buffers, Whole
  <1>7. PICK docs : docs = NumbersAt(IntAt(all, IntBits), IntAt(all, 0), all, 2 * IntBits, 0)
    OBVIOUS
  <1>8. docs.numbers = DocsOf(postings) /\ NextByte(docs.at) = Len(buffers[0])
    BY <1>1, <1>2, <1>4, <1>6, <1>7, DocsAreDecoded
  <1>9. Len(docs.numbers) = n
    BY <1>1, <1>8, PostingsOf
  <1> DEFINE first == [list |-> <<>>, at |-> NextByte(docs.at)]
             IsDecoded(f) == f = [i \in 0..n |->
                                     IF i = 0 THEN first
                                     ELSE PositionsRead(all, docs.numbers[i], f[i - 1])]
             g == [i \in 0..n |-> DecodedUpTo(postings, buffers, i)]
  <1>10. g[0] = first
    <2>1. SubSeq(postings, 1, 0) = <<>>
      BY SubSeqProperties DEF Encodable
    <2> QED BY <1>5, <1>8, <2>1 DEF DecodedUpTo
  <1>11. \A i \in 1..n : g[i] = PositionsRead(all, docs.numbers[i], g[i - 1])
    <2> SUFFICES ASSUME NEW i \in 1..n
                 PROVE  g[i] = PositionsRead(all, docs.numbers[i], g[i - 1])
      OBVIOUS
    <2>1. i \in 0..n /\ i - 1 \in 0..n
      OBVIOUS
    <2>2. PositionsRead(all, docs.numbers[i], DecodedUpTo(postings, buffers, i - 1))
              = DecodedUpTo(postings, buffers, i)
      BY <1>1, <1>2, <1>4, <1>8, PostingIsDecoded
    <2> QED BY <2>1, <2>2
  <1>12. g = [i \in 0..n |-> g[i]]
    OBVIOUS
  <1>13. g[n] = [list |-> postings, at |-> Len(all)]
    <2>1. SubSeq(postings, 1, n) = postings
      BY <1>1, SubSeqFull DEF Encodable
    <2> QED BY <1>4, <1>5, <2>1 DEF DecodedUpTo
  <1> HIDE DEF g, first
  <1>14. IsDecoded(g)
    <2>1. \A i \in 0..n : g[i] = IF i = 0 THEN first
                                 ELSE PositionsRead(all, docs.numbers[i], g[i - 1])
      BY <1>10, <1>11
    <2> QED BY <1>12, <2>1
  <1>15. DecodedGolomb(all) = (CHOOSE f : IsDecoded(f))[n]
    BY <1>7, <1>9 DEF DecodedGolomb, first
  <1>16. PICK f : IsDecoded(f) /\ DecodedGolomb(all) = f[n]
    BY <1>14, <1>15
  <1>17. \A i \in 1..n : f[i - 1] = g[i - 1] => f[i] = g[i]
    BY <1>11, <1>16
  <1>18. f[0] = g[0]
    BY <1>10, <1>16
  <1>19. GoAlike(f, g, n)
    BY <1>17, <1>18 DEF GoAlike
  <1>20. DecodedGolomb(all) = [list |-> postings, at |-> Len(all)]
    BY <1>13, <1>16, <1>19, EndAlike
  <1>21. all # <<>>
    <2>1. Len(buffers[0]) > 0
      BY <1>2, DocsWritable, NumbersWritten, EmptyIsWhole DEF Buffers
    <2>2. Holds(all, 0, buffers[0])
      BY <1>1, <1>2, <1>4, <1>5, BuffersAreHeld
    <2>3. buffers[0] \in Seq(Bit)
      BY <1>1, <1>2, <1>5 DEF Buffers, Whole
    <2>4. Len(all) > 0
      BY <1>6, <2>1, <2>2, <2>3 DEF Holds
    <2> QED BY <2>4
  <1> QED BY <1>3, <1>6, <1>20, <1>21

-----------------------------------------------------------------------------
(***************************************************************************)
(* A list in plain integers.                                               *)
(***************************************************************************)
Fitting == {n \in Nat : Fits(n)}

IntsOf(posting) == <<posting.doc, Cardinality(posting.pos)>> \o PositionSeq(posting)

LEMMA PositionsFit ==
    ASSUME NEW posting, Storable(posting.pos)
    PROVE  /\ PositionSeq(posting) \in Seq(Fitting)
           /\ Len(PositionSeq(posting)) = Cardinality(posting.pos)
           /\ Cardinality(posting.pos) \in Fitting
           /\ ToSet(PositionSeq(posting)) = posting.pos
  <1>1. PICK q \in Seq(Nat) : q = PositionSeq(posting)
    BY PositionsInOrder DEF Storable
  <1>2. PICK n \in Nat : n = Len(q)
    OBVIOUS
  <1>3. Orders(q, n, posting.pos) /\ n = Cardinality(posting.pos) /\ ToSet(q) = posting.pos
    BY <1>1, <1>2, PositionsInOrder DEF Storable
  <1>4. IntBits \in Nat
    BY WidthAssumption DEF IntBits
  <1>5. Power[IntBits] \in Nat
    BY <1>4, PowerTypes
  <1>6. ASSUME NEW i \in 1..n PROVE q[i] \in Fitting
    <2>1. q[i] \in posting.pos /\ q[i] \in Nat
      BY <1>2, <1>3 DEF Orders
    <2>2. Fits(q[i] + 1)
      BY <2>1 DEF Storable
    <2> QED BY <1>5, <2>1, <2>2 DEF Fits, Fitting
  <1>7. q \in [1..n -> Fitting]
    BY <1>3, <1>6 DEF Orders
  <1>8. q \in Seq(Fitting)
    BY <1>7, FunctionIsSeq
  <1>9. Fits(n)
    BY <1>1, <1>2, PositionsWritable DEF Writable
  <1> QED BY <1>1, <1>2, <1>3, <1>8, <1>9 DEF Fitting

LEMMA IntsOfIs ==
    ASSUME NEW posting, Storable(posting.pos), Fits(posting.doc)
    PROVE  /\ IntsOf(posting) \in Seq(Fitting)
           /\ Len(IntsOf(posting)) = 2 + Cardinality(posting.pos)
           /\ Cardinality(posting.pos) \in Nat
           /\ IntsOf(posting)[1] = posting.doc
           /\ IntsOf(posting)[2] = Cardinality(posting.pos)
           /\ posting.pos = {IntsOf(posting)[j] : j \in 3..(2 + Cardinality(posting.pos))}
  <1>1. PICK q \in Seq(Fitting) : q = PositionSeq(posting)
    BY PositionsFit
  <1>2. PICK c \in Nat : c = Cardinality(posting.pos)
    BY PositionsFit DEF Fitting
  <1>3. PICK d \in Fitting : d = posting.doc
    BY DEF Fitting, Fits
  <1>4. Len(q) = c /\ c \in Fitting /\ ToSet(q) = posting.pos
    BY <1>1, <1>2, PositionsFit
  <1>5. PICK two \in Seq(Fitting) : two = <<d, c>>
    <2>1. <<d, c>> \in Seq(Fitting)
      BY <1>4
    <2> QED BY <2>1
  <1>6. Len(two) = 2 /\ two[1] = d /\ two[2] = c
    BY <1>5
  <1>7. PICK s : s = two \o q
    OBVIOUS
  <1>8. s = IntsOf(posting)
    BY <1>1, <1>2, <1>3, <1>5, <1>7 DEF IntsOf
  <1>9. /\ s \in Seq(Fitting) /\ Len(s) = Len(two) + Len(q)
        /\ \A i \in 1..Len(two) : s[i] = two[i]
        /\ \A i \in 1..Len(q) : s[Len(two) + i] = q[i]
    BY <1>7, ConcatParts
  <1>10. Len(s) = 2 + c /\ s[1] = d /\ s[2] = c
    BY <1>4, <1>6, <1>9
  <1>11. \A i \in 1..c : s[2 + i] = q[i]
    BY <1>4, <1>6, <1>9
  <1>12. \A i \in 1..c : s[2 + i] \in {s[j] : j \in 3..(2 + c)}
    <2> SUFFICES ASSUME NEW i \in 1..c PROVE 2 + i \in 3..(2 + c)
      OBVIOUS
    <2> QED OBVIOUS
  <1>13. \A j \in 3..(2 + c) : s[j] \in {q[i] : i \in 1..c}
    <2> SUFFICES ASSUME NEW j \in 3..(2 + c) PROVE s[j] \in {q[i] : i \in 1..c}
      OBVIOUS
    <2>1. j - 2 \in 1..c /\ 2 + (j - 2) = j
      OBVIOUS
    <2> QED BY <1>11, <2>1
  <1>14. {q[i] : i \in 1..c} = {s[j] : j \in 3..(2 + c)}
    BY <1>11, <1>12, <1>13
  <1>15. ToSet(q) = {q[i] : i \in 1..c}
    BY <1>4 DEF ToSet
  <1>16. posting.pos = {s[j] : j \in 3..(2 + c)}
    BY <1>4, <1>14, <1>15
  <1>17. posting.pos = {IntsOf(posting)[j] : j \in 3..(2 + Cardinality(posting.pos))}
    BY <1>2, <1>8, <1>16
  <1> QED BY <1>2, <1>3, <1>8, <1>9, <1>10, <1>17

BitsOf(ints) == [i \in 1..Len(ints) |-> Bits(ints[i], IntBits)]

\* Each of them is read from its own place.
LEMMA IntsAreRead ==
    ASSUME NEW ints \in Seq(Fitting), NEW buf, buf = FlattenSeq(BitsOf(ints))
    PROVE  /\ buf \in Seq(Bit)
           /\ Len(buf) = Len(ints) * IntBits
           /\ \A i \in 1..Len(ints) : IntAt(buf, (i - 1) * IntBits) = ints[i]
  <1>1. PICK n \in Nat : n = Len(ints)
    OBVIOUS
  <1>2. PICK w \in Nat : w = IntBits
    BY WidthAssumption DEF IntBits
  <1>3. PICK seqs : seqs = BitsOf(ints)
    OBVIOUS
  <1>4. ASSUME NEW i \in 1..n
        PROVE  /\ ints[i] \in Nat /\ Fits(ints[i])
               /\ Bits(ints[i], IntBits) \in Seq(Bit) /\ Len(Bits(ints[i], IntBits)) = w
    <2>1. ints[i] \in Fitting
      BY <1>1, ElementOfSeq
    <2> QED BY <1>2, <2>1, BitsType DEF Fitting
  <1>5. seqs \in [1..n -> Seq(Bit)]
    BY <1>1, <1>3, <1>4 DEF BitsOf
  <1>6. seqs \in Seq(Seq(Bit)) /\ Len(seqs) = n
    BY <1>5, FunctionIsSeq
  <1>7. PICK flat \in [0..Len(seqs) -> Seq(Bit)] : Flattens(flat, seqs)
    BY <1>6, FlattensExists
  <1>8. buf = flat[n]
    BY <1>3, <1>6, <1>7, FlattenIs
  <1>9. n \in 0..n
    OBVIOUS
  <1>10. buf \in Seq(Bit)
    BY <1>6, <1>8, <1>9
  <1>11. /\ Len(flat[0]) = 0
         /\ \A i \in 0..n : Len(flat[i]) \in Nat
         /\ \A i \in 1..n : Len(flat[i]) = Len(flat[i - 1]) + Len(seqs[i])
    BY <1>6, <1>7, PartLengths
  <1>12. ASSUME NEW i \in 1..n PROVE seqs[i] = Bits(ints[i], IntBits) /\ Len(seqs[i]) = w
    BY <1>1, <1>3, <1>4 DEF BitsOf
  <1> DEFINE S == {i \in 0..n : Len(flat[i]) = i * w}
  <1>13. 0 \in S
    BY <1>11
  <1>14. ASSUME NEW i \in 1..n, i - 1 \in S PROVE i \in S
    <2>1. Len(flat[i]) = (i - 1) * w + w
      BY <1>11, <1>12, <1>14
    <2>2. (i - 1) * w + w = i * w
      OBVIOUS
    <2> QED BY <2>1, <2>2
  <1> HIDE DEF S
  <1>15. 0..n \subseteq S
    BY <1>13, <1>14, Induction
  <1>16. ASSUME NEW i \in 0..n PROVE Len(flat[i]) = i * w
    BY <1>15 DEF S
  <1>17. Len(buf) = n * w
    BY <1>8, <1>9, <1>16
  <1>18. Holds(buf, 0, flat[Len(seqs)])
    <2>1. Holds(buf, 0, buf)
      BY <1>10 DEF Holds
    <2> QED BY <1>6, <1>8, <2>1
  <1>19. ASSUME NEW i \in 1..n PROVE IntAt(buf, (i - 1) * IntBits) = ints[i]
    <2>1. Holds(buf, 0 + Len(flat[i - 1]), seqs[i])
      BY <1>6, <1>7, <1>10, <1>18, PartsAreHeld
    <2>2. i - 1 \in 0..n
      OBVIOUS
    <2>3. Len(flat[i - 1]) = (i - 1) * w
      BY <1>16, <2>2
    <2>4. 0 + Len(flat[i - 1]) = (i - 1) * IntBits
      BY <1>2, <2>3
    <2>5. Holds(buf, (i - 1) * IntBits, Bits(ints[i], IntBits))
      BY <1>12, <2>1, <2>4
    <2> QED BY <1>4, <1>10, <2>5, IntIsRead DEF Fits
  <1> QED BY <1>1, <1>2, <1>10, <1>17, <1>19

AllInts(postings) == FlattenSeq([i \in 1..Len(postings) |-> IntsOf(postings[i])])

\* The integers of the i-th posting end with ends[i].
Layout(ints, ends, postings) ==
    /\ ends[0] = 0 /\ ends[Len(postings)] = Len(ints)
    /\ \A i \in 0..Len(postings) : ends[i] \in Nat
    /\ \A i \in 1..Len(postings) :
           /\ Cardinality(postings[i].pos) \in Nat
           /\ ends[i] = ends[i - 1] + 2 + Cardinality(postings[i].pos)
           /\ ints[ends[i - 1] + 1] = postings[i].doc
           /\ ints[ends[i - 1] + 2] = Cardinality(postings[i].pos)
           /\ postings[i].pos = {ints[j] : j \in (ends[i - 1] + 3)..ends[i]}

Elements(s, from, to) == {s[j] : j \in from..to}

Shifted(s, t, a, n) == \A j \in 1..n : t[a + j] = s[j]

LEMMA ShiftedElements ==
    ASSUME NEW a \in Nat, NEW c \in Nat, NEW s, NEW t, Shifted(s, t, a, 2 + c)
    PROVE  Elements(s, 3, 2 + c) = Elements(t, a + 3, a + 2 + c)
  <1>1. ASSUME NEW j \in 3..(2 + c) PROVE s[j] \in {t[i] : i \in (a + 3)..(a + 2 + c)}
    <2>1. a + j \in (a + 3)..(a + 2 + c) /\ t[a + j] = s[j]
      BY DEF Shifted
    <2> QED BY <2>1
  <1>2. ASSUME NEW j \in (a + 3)..(a + 2 + c) PROVE t[j] \in {s[i] : i \in 3..(2 + c)}
    <2>1. j - a \in 3..(2 + c) /\ a + (j - a) = j
      OBVIOUS
    <2>2. t[a + (j - a)] = s[j - a]
      BY <2>1 DEF Shifted
    <2> QED BY <2>1, <2>2
  <1> QED BY <1>1, <1>2 DEF Elements

LEMMA LayoutExists ==
    ASSUME NEW postings, NEW count, Encodable(postings, count)
    PROVE  /\ AllInts(postings) \in Seq(Fitting)
           /\ \E ends : Layout(AllInts(postings), ends, postings)
  <1>1. PICK n \in Nat : n = Len(postings)
    BY PostingsOf
  <1>2. PICK seqs : seqs = [i \in 1..n |-> IntsOf(postings[i])]
    OBVIOUS
  <1>3. ASSUME NEW i \in 1..n PROVE Storable(postings[i].pos) /\ Fits(postings[i].doc)
    BY <1>1 DEF Encodable
  <1>4. \A i \in 1..n : IntsOf(postings[i]) \in Seq(Fitting)
    BY <1>3, IntsOfIs
  <1>5. seqs \in [1..n -> Seq(Fitting)]
    BY <1>2, <1>4
  <1>6. seqs \in Seq(Seq(Fitting)) /\ Len(seqs) = n
    BY <1>5, FunctionIsSeq
  <1>7. PICK flat \in [0..Len(seqs) -> Seq(Fitting)] : Flattens(flat, seqs)
    BY <1>6, FlattensExists
  <1>8. PICK ints : ints = AllInts(postings)
    OBVIOUS
  <1>9. ints = FlattenSeq(seqs)
    BY <1>1, <1>2, <1>8 DEF AllInts
  <1>10. ints = flat[Len(seqs)]
    BY <1>6, <1>7, <1>9, FlattenIs
  <1>11. n \in 0..n /\ 0 \in 0..n
    OBVIOUS
  <1>12. ints \in Seq(Fitting)
    BY <1>6, <1>10, <1>11
  <1>13. Holds(ints, 0, flat[Len(seqs)])
    <2>1. Holds(ints, 0, ints)
      BY <1>12 DEF Holds
    <2> QED BY <1>10, <2>1
  <1>14. \A i \in 1..n : Holds(ints, 0 + Len(flat[i - 1]), seqs[i])
    BY <1>6, <1>7, <1>12, <1>13, PartsAreHeldIn
  <1>15. /\ Len(flat[0]) = 0
         /\ \A i \in 0..n : Len(flat[i]) \in Nat
         /\ \A i \in 1..n : Len(flat[i]) = Len(flat[i - 1]) + Len(seqs[i])
    BY <1>6, <1>7, PartLengths
  <1> DEFINE ends == [i \in 0..n |-> Len(flat[i])]
  <1>16. ends[0] = 0 /\ ends[n] = Len(ints)
    BY <1>6, <1>10, <1>11, <1>15
  <1>17. \A i \in 0..n : ends[i] \in Nat
    BY <1>15
  <1>18. ASSUME NEW i \in 1..n
         PROVE  /\ Cardinality(postings[i].pos) \in Nat
                /\ ends[i] = ends[i - 1] + 2 + Cardinality(postings[i].pos)
                /\ ints[ends[i - 1] + 1] = postings[i].doc
                /\ ints[ends[i - 1] + 2] = Cardinality(postings[i].pos)
                /\ postings[i].pos = {ints[j] : j \in (ends[i - 1] + 3)..ends[i]}
    <2>1. i - 1 \in 0..n /\ i \in 0..n
      OBVIOUS
    <2>2. PICK a \in Nat : a = Len(flat[i - 1])
      BY <1>15, <2>1
    <2>3. ends[i - 1] = a /\ ends[i] = Len(flat[i])
      BY <2>1, <2>2
    <2>4. PICK s : s = seqs[i]
      OBVIOUS
    <2>5. PICK posting : posting = postings[i]
      OBVIOUS
    <2>6. s = IntsOf(posting) /\ Storable(posting.pos) /\ Fits(posting.doc)
      BY <1>2, <1>3, <2>4, <2>5
    <2>7. PICK c \in Nat : c = Cardinality(posting.pos)
      BY <2>6, IntsOfIs
    <2>8. /\ s \in Seq(Fitting) /\ Len(s) = 2 + c /\ s[1] = posting.doc /\ s[2] = c
          /\ posting.pos = {s[j] : j \in 3..(2 + c)}
      BY <2>6, <2>7, IntsOfIs
    <2>9. Holds(ints, 0 + a, s)
      BY <1>14, <2>2, <2>4
    <2>10. \A j \in 1..(2 + c) : ints[a + j] = s[j]
      BY <2>8, <2>9 DEF Holds
    <2>11. ints[a + 1] = s[1] /\ ints[a + 2] = s[2]
      BY <2>10
    <2>12. {s[j] : j \in 3..(2 + c)} = {ints[j] : j \in (a + 3)..(a + 2 + c)}
      <3>1. Shifted(s, ints, a, 2 + c)
        BY <2>10 DEF Shifted
      <3>2. Elements(s, 3, 2 + c) = Elements(ints, a + 3, a + 2 + c)
        BY <3>1, ShiftedElements
      <3> QED BY <3>2 DEF Elements
    <2>13. Len(flat[i]) = a + 2 + c
      <3>1. Len(flat[i]) = a + Len(s)
        BY <1>15, <2>2, <2>4
      <3>2. a + (2 + c) = a + 2 + c
        OBVIOUS
      <3> QED BY <2>8, <3>1, <3>2
    <2> HIDE DEF ends
    <2> QED BY <2>3, <2>5, <2>7, <2>8, <2>11, <2>12, <2>13
  <1> HIDE DEF ends
  <1>19. Layout(ints, ends, postings)
    BY <1>1, <1>16, <1>17, <1>18 DEF Layout
  <1> QED BY <1>8, <1>12, <1>19

\* What has been decoded when k postings have been read.
PlainUpTo(postings, ends, k) == [list |-> SubSeq(postings, 1, k), next |-> ends[k] + 1]

\* The posting with c positions is at the i-th integer, and this is the next one.
PostingIsNext(buf, i, posting, c, done) ==
    /\ ~ (i < done.next)
    /\ IntAt(buf, (i - 1) * IntBits) = posting.doc
    /\ IntAt(buf, ((i + 1) - 1) * IntBits) = c
    /\ {IntAt(buf, (j - 1) * IntBits) : j \in (i + 2)..(i + 1 + c)} = posting.pos

PostingIsRead(buf, i, posting, c, done) ==
    PostingRead(buf, i, done)
        = [list |-> Append(done.list, [doc |-> posting.doc, pos |-> posting.pos]),
           next |-> i + 1 + c + 1]

LEMMA PostingReadIs ==
    ASSUME NEW buf, NEW i, NEW done, NEW posting, NEW c,
           PostingIsNext(buf, i, posting, c, done)
    PROVE  PostingIsRead(buf, i, posting, c, done)
  BY DEF PostingRead, PostingIsNext, PostingIsRead

LEMMA EndsAscend ==
    ASSUME NEW postings, NEW count, Encodable(postings, count),
           NEW ints, NEW ends, Layout(ints, ends, postings), NEW k \in 0..Len(postings)
    PROVE  ends[k] <= Len(ints) /\ (k # Len(postings) => ends[k] < Len(ints))
  <1>1. PICK n \in Nat : n = Len(postings)
    BY PostingsOf
  <1>2. ends[n] = Len(ints) /\ \A i \in 0..n : ends[i] \in Nat
    BY <1>1 DEF Layout
  <1>3. ASSUME NEW i \in 1..n PROVE ends[i - 1] < ends[i]
    <2>1. i - 1 \in 0..n
      OBVIOUS
    <2>2. PICK c \in Nat : ends[i] = ends[i - 1] + 2 + c
      BY <1>1 DEF Layout
    <2> QED BY <1>2, <2>1, <2>2
  <1> DEFINE S == {d \in 0..n : ends[n - d] <= ends[n] /\ (d # 0 => ends[n - d] < ends[n])}
  <1>4. 0 \in S
    BY <1>2
  <1>5. ASSUME NEW d \in 1..n, d - 1 \in S PROVE d \in S
    <2>1. n - (d - 1) \in 1..n /\ (n - (d - 1)) - 1 = n - d /\ n - d \in 0..n
          /\ n - (d - 1) \in 0..n /\ n \in 0..n
      OBVIOUS
    <2>2. ends[n - d] < ends[n - (d - 1)]
      BY <1>3, <2>1
    <2>3. ends[n - (d - 1)] <= ends[n]
      BY <1>5
    <2>4. ends[n - d] < ends[n]
      BY <1>2, <2>1, <2>2, <2>3
    <2> QED BY <1>2, <2>1, <2>4
  <1> HIDE DEF S
  <1>6. 0..n \subseteq S
    BY <1>4, <1>5, Induction
  <1>7. n - k \in S /\ n - (n - k) = k /\ (k # n => n - k # 0)
    BY <1>1, <1>6
  <1> QED BY <1>1, <1>2, <1>7 DEF S

LEMMA NextPostingIsRead ==
    ASSUME NEW postings, NEW count, Encodable(postings, count),
           NEW ints \in Seq(Fitting), NEW ends, Layout(ints, ends, postings),
           NEW buf, buf = FlattenSeq(BitsOf(ints)), NEW k \in 1..Len(postings),
           NEW i, i = ends[k - 1] + 1
    PROVE  /\ PostingRead(buf, i, PlainUpTo(postings, ends, k - 1)) = PlainUpTo(postings, ends, k)
           /\ i <= ends[k]
  <1>1. PICK n \in Nat : n = Len(postings)
    BY PostingsOf
  <1>2. k \in 0..n /\ k - 1 \in 0..n
    BY <1>1
  <1>3. PICK a \in Nat : a = ends[k - 1]
    BY <1>1, <1>2 DEF Layout
  <1>4. PICK posting : posting = postings[k]
    OBVIOUS
  <1>5. PICK c \in Nat : c = Cardinality(posting.pos)
    BY <1>4 DEF Layout
  <1>6. /\ ends[k] = a + 2 + c /\ ints[a + 1] = posting.doc /\ ints[a + 2] = c
        /\ posting.pos = {ints[j] : j \in (a + 3)..ends[k]}
    BY <1>3, <1>4, <1>5 DEF Layout
  <1>7. PICK done : done = PlainUpTo(postings, ends, k - 1)
    OBVIOUS
  <1>8. done.list = SubSeq(postings, 1, k - 1) /\ done.next = a + 1
    BY <1>3, <1>7 DEF PlainUpTo
  <1>9. PICK len \in Nat : len = Len(ints)
    OBVIOUS
  <1>10. ends[k] <= len
    BY <1>1, <1>2, <1>9, EndsAscend
  <1>11. \A j \in 1..len : IntAt(buf, (j - 1) * IntBits) = ints[j]
    BY <1>9, IntsAreRead
  <1>12. a + 1 \in 1..len /\ a + 2 \in 1..len /\ a + 2 + c <= len
    BY <1>6, <1>10
  <1>13. i = a + 1 /\ i \in 1..len /\ i + 1 \in 1..len /\ i + 1 = a + 2
    <2>1. i = a + 1
      BY <1>3
    <2> QED BY <1>12, <2>1
  <1>14. i + 2 = a + 3 /\ i + 1 + c = a + 2 + c
    BY <1>13
  <1>15. IntAt(buf, (i - 1) * IntBits) = posting.doc
    BY <1>6, <1>11, <1>13
  <1>16. IntAt(buf, ((i + 1) - 1) * IntBits) = c
    BY <1>6, <1>11, <1>13
  <1>17. PostingIsNext(buf, i, posting, c, done)
    <2>1. \A j \in (i + 2)..(i + 1 + c) : j \in 1..len
      BY <1>12, <1>13, <1>14
    <2>2. \A j \in (i + 2)..(i + 1 + c) : IntAt(buf, (j - 1) * IntBits) = ints[j]
      BY <1>11, <2>1
    <2>3. posting.pos = {ints[j] : j \in (i + 2)..(i + 1 + c)}
      BY <1>6, <1>14
    <2>4. {IntAt(buf, (j - 1) * IntBits) : j \in (i + 2)..(i + 1 + c)} = posting.pos
      BY <2>2, <2>3
    <2>5. ~ (i < done.next)
      BY <1>8, <1>13
    <2> QED BY <1>15, <1>16, <2>4, <2>5 DEF PostingIsNext
  <1>18. PostingRead(buf, i, done)
             = [list |-> Append(done.list, [doc |-> posting.doc, pos |-> posting.pos]),
                next |-> i + 1 + c + 1]
    <2>1. PostingIsRead(buf, i, posting, c, done)
      BY <1>17, PostingReadIs
    <2> QED BY <2>1 DEF PostingIsRead
  <1>19. [doc |-> posting.doc, pos |-> posting.pos] = posting
    BY <1>4, PostingsOf
  <1>20. Append(done.list, posting) = SubSeq(postings, 1, k)
    BY <1>4, <1>8, OneMorePosting DEF Encodable
  <1>21. i + 1 + c + 1 = ends[k] + 1 /\ i <= ends[k]
    BY <1>6, <1>13
  <1> QED BY <1>7, <1>18, <1>19, <1>20, <1>21 DEF PlainUpTo

\* One round of the loop, from what k postings give to what k or k + 1 give.
LEMMA RoundIsRead ==
    ASSUME NEW postings, NEW count, Encodable(postings, count),
           NEW ints \in Seq(Fitting), NEW ends, Layout(ints, ends, postings),
           NEW buf, buf = FlattenSeq(BitsOf(ints)), NEW i \in 1..Len(ints),
           NEW k \in 0..Len(postings), i - 1 <= ends[k]
    PROVE  \E l \in 0..Len(postings) :
               /\ PostingRead(buf, i, PlainUpTo(postings, ends, k)) = PlainUpTo(postings, ends, l)
               /\ i <= ends[l]
  <1>1. PICK n \in Nat : n = Len(postings)
    BY PostingsOf
  <1>2. ends[k] \in Nat /\ Len(ints) \in Nat
    BY <1>1 DEF Layout
  <1>3. CASE i <= ends[k]
    <2>1. PICK done : done = PlainUpTo(postings, ends, k)
      OBVIOUS
    <2>2. done.next = ends[k] + 1
      BY <2>1 DEF PlainUpTo
    <2>3. i < done.next
      BY <1>2, <1>3, <2>2
    <2>4. PostingRead(buf, i, done) = done
      BY <2>3 DEF PostingRead
    <2> QED BY <1>3, <2>1, <2>4
  <1>4. CASE ~ (i <= ends[k])
    <2>1. i = ends[k] + 1
      BY <1>2, <1>4
    <2>2. k # n
      <3>1. k = n => ends[k] = Len(ints)
        BY <1>1 DEF Layout
      <3> QED BY <1>2, <1>4, <3>1
    <2>3. PICK l \in 1..n : l = k + 1
      BY <1>1, <2>2
    <2>4. l - 1 = k /\ l \in 0..n
      BY <1>1, <2>3
    <2>5. i = ends[l - 1] + 1
      BY <2>1, <2>4
    <2>6. PostingRead(buf, i, PlainUpTo(postings, ends, l - 1)) = PlainUpTo(postings, ends, l)
          /\ i <= ends[l]
      BY <1>1, <2>5, NextPostingIsRead
    <2> QED BY <1>1, <2>4, <2>6
  <1> QED BY <1>3, <1>4

(***************************************************************************)
(* decode_postings_none gives any list that encode_postings_none was given.*)
(***************************************************************************)
THEOREM PlainRoundTrip ==
    ASSUME NEW postings, NEW count, Encodable(postings, count)
    PROVE  /\ Whole(EncodedNone(postings))
           /\ EncodedNone(postings) # <<>>
           /\ DecodedNone(EncodedNone(postings)).list = postings
  <1>1. PICK ints \in Seq(Fitting) : ints = AllInts(postings)
    BY LayoutExists
  <1>2. PICK ends : Layout(ints, ends, postings)
    BY <1>1, LayoutExists
  <1>3. PICK buf : buf = FlattenSeq(BitsOf(ints))
    OBVIOUS
  <1>4. buf = EncodedNone(postings)
    BY <1>1, <1>3 DEF EncodedNone, AllInts, IntsOf, BitsOf
  <1>5. PICK n \in Nat : n = Len(ints)
    OBVIOUS
  <1>6. PICK b \in Nat \ {0} : b = ByteBits
    BY WidthAssumption
  <1>7. PICK w \in Nat \ {0} : w = IntBits
    BY WidthAssumption DEF IntBits
  <1>8. buf \in Seq(Bit) /\ Len(buf) = n * w
    BY <1>3, <1>5, <1>7, IntsAreRead
  <1>9. Len(buf) \div IntBits = n
    <2>1. (n * w) \div w = n
      OBVIOUS
    <2> QED BY <1>7, <1>8, <2>1
  <1>10. Whole(buf)
    <2>1. PICK y \in Nat : y = IntBytes
      BY WidthAssumption
    <2>2. w = y * b
      BY <1>6, <1>7, <2>1 DEF IntBits
    <2>3. PICK x \in Nat : x = n * y
      OBVIOUS
    <2>4. n * w = x * b
      BY <2>2, <2>3
    <2>5. (x * b) % b = 0
      BY ManyWhole
    <2> QED BY <1>6, <1>8, <2>4, <2>5 DEF Whole
  <1>11. PICK len \in Nat \ {0} : len = Len(postings)
    BY PostingsOf
  <1> DEFINE D == {PlainUpTo(postings, ends, k) : k \in 0..len}
             first == [list |-> <<>>, next |-> 1]
             step == [i \in Nat \ {0} |-> [x \in D |->
                         IF PostingRead(buf, i, x) \in D THEN PostingRead(buf, i, x) ELSE x]]
             IsDecoded(f) == f = [i \in 0..n |-> IF i = 0 THEN first
                                                 ELSE PostingRead(buf, i, f[i - 1])]
  <1>12. first = PlainUpTo(postings, ends, 0) /\ first \in D
    <2>1. SubSeq(postings, 1, 0) = <<>>
      BY SubSeqProperties DEF Encodable
    <2>2. ends[0] + 1 = 1
      BY <1>2 DEF Layout
    <2>3. first = PlainUpTo(postings, ends, 0)
      BY <2>1, <2>2 DEF PlainUpTo
    <2>4. 0 \in 0..len
      OBVIOUS
    <2> QED BY <2>3, <2>4
  <1>13. \A k \in 0..len : PlainUpTo(postings, ends, k) \in D
    OBVIOUS
  <1>14. \A i \in Nat \ {0}, x \in D :
             /\ (IF PostingRead(buf, i, x) \in D THEN PostingRead(buf, i, x) ELSE x) \in D
             /\ step[i][x] = IF PostingRead(buf, i, x) \in D THEN PostingRead(buf, i, x) ELSE x
    OBVIOUS
  <1>15. step \in [Nat \ {0} -> [D -> D]]
    BY <1>14
  <1> HIDE DEF step, D, first
  <1>16. PICK f \in [0..n -> D] : Recursive(f, n, first, step)
    BY <1>12, <1>15, RecursionUpTo
  <1> DEFINE S == {i \in 0..n : \E k \in 0..len : f[i] = PlainUpTo(postings, ends, k) /\ i <= ends[k]}
  <1>17. ends[0] = 0 /\ ends[len] = n
    BY <1>2, <1>5, <1>11 DEF Layout
  <1>18. 0 \in S
    <2>1. f[0] = PlainUpTo(postings, ends, 0)
      BY <1>12, <1>16 DEF Recursive
    <2>2. 0 \in 0..len /\ 0 \in 0..n /\ 0 <= ends[0]
      BY <1>17
    <2> QED BY <2>1, <2>2
  <1>19. ASSUME NEW i \in 1..n, NEW k \in 0..len,
                f[i - 1] = PlainUpTo(postings, ends, k), i - 1 <= ends[k]
         PROVE  f[i] = PostingRead(buf, i, f[i - 1]) /\ i \in S
    <2>1. PICK l \in 0..len :
              /\ PostingRead(buf, i, PlainUpTo(postings, ends, k)) = PlainUpTo(postings, ends, l)
              /\ i <= ends[l]
      BY <1>2, <1>3, <1>5, <1>11, <1>19, RoundIsRead
    <2>2. PostingRead(buf, i, f[i - 1]) = PlainUpTo(postings, ends, l)
      BY <1>19, <2>1
    <2>3. PostingRead(buf, i, f[i - 1]) \in D /\ f[i - 1] \in D /\ i \in Nat \ {0}
      BY <1>13, <1>19, <2>2
    <2>4. f[i] = step[i][f[i - 1]]
      BY <1>16 DEF Recursive
    <2>5. f[i] = PostingRead(buf, i, f[i - 1])
      BY <1>14, <2>3, <2>4
    <2> QED BY <2>1, <2>2, <2>5
  <1>20. ASSUME NEW i \in 1..n, i - 1 \in S
         PROVE  f[i] = PostingRead(buf, i, f[i - 1]) /\ i \in S
    <2>1. PICK k \in 0..len : f[i - 1] = PlainUpTo(postings, ends, k) /\ i - 1 <= ends[k]
      BY <1>20
    <2> QED BY <1>19, <2>1
  <1> HIDE DEF S
  <1>21. 0..n \subseteq S
    BY <1>18, <1>20, Induction
  <1>22. \A i \in 1..n : f[i] = PostingRead(buf, i, f[i - 1])
    <2>1. \A i \in 1..n : i - 1 \in 0..n
      OBVIOUS
    <2> QED BY <1>20, <1>21, <2>1
  <1>23. f[n].list = postings
    <2>1. n \in S
      BY <1>21
    <2>2. PICK k \in 0..len : f[n] = PlainUpTo(postings, ends, k) /\ n <= ends[k]
      BY <2>1 DEF S
    <2>3. ends[k] <= n /\ (k # len => ends[k] < n)
      BY <1>2, <1>5, <1>11, EndsAscend
    <2>4. ends[k] \in Nat
      BY <1>2, <1>11 DEF Layout
    <2>5. k = len
      BY <2>2, <2>3, <2>4
    <2>6. SubSeq(postings, 1, len) = postings
      BY <1>11, SubSeqFull DEF Encodable
    <2> QED BY <2>2, <2>5, <2>6 DEF PlainUpTo
  <1>24. IsDecoded(f)
    <2>1. f[0] = first
      BY <1>16 DEF Recursive
    <2>2. f = [i \in 0..n |-> f[i]]
      OBVIOUS
    <2>3. \A i \in 0..n : f[i] = IF i = 0 THEN first ELSE PostingRead(buf, i, f[i - 1])
      BY <1>22, <2>1
    <2> QED BY <2>2, <2>3
  <1>25. DecodedNone(buf) = (CHOOSE g : IsDecoded(g))[n]
    BY <1>9 DEF DecodedNone, first
  <1>26. PICK g : IsDecoded(g) /\ DecodedNone(buf) = g[n]
    BY <1>24, <1>25
  <1>27. \A i \in 1..n : g[i - 1] = f[i - 1] => g[i] = f[i]
    BY <1>22, <1>26
  <1>28. g[0] = f[0]
    BY <1>24, <1>26
  <1>29. GoAlike(g, f, n)
    BY <1>27, <1>28 DEF GoAlike
  <1>30. DecodedNone(buf) = f[n]
    BY <1>26, <1>29, EndAlike
  <1>31. buf # <<>>
    <2>1. 0 \in 0..Len(postings) /\ 0 # Len(postings)
      BY <1>11
    <2>2. n > 0
      BY <1>2, <1>5, <1>17, <2>1, EndsAscend
    <2>3. n * w > 0
      BY <2>2
    <2> QED BY <1>8, <2>3
  <1> QED BY <1>4, <1>10, <1>23, <1>30, <1>31

-----------------------------------------------------------------------------
(***************************************************************************)
(* The runs of the specification.  The list has ascending documents, never *)
(* more than the database, so that the parameter of its codes is never 0;  *)
(* and the bits are the ones of the list, with the parameter of whenever   *)
(* it was encoded last.                                                    *)
(***************************************************************************)
CountersInv ==
    /\ compress \in {"none", "golomb"}
    /\ nextId \in 1..(MaxId + 1)
    /\ documents \in 0..(nextId - 1)

ListInv ==
    /\ list \in Seq(Posting)
    /\ Len(list) <= documents
    /\ \A i \in 1..Len(list) : list[i].doc < nextId /\ list[i].pos \in PositionSets
    /\ Ascends(DocsOf(list), 0)

StoredInv ==
    \/ list = <<>> /\ stored = <<>>
    \/ list # <<>> /\ \E count : Encodable(list, count) /\ stored = Encoded(list, count)

IInv == CountersInv /\ ListInv /\ StoredInv

LEMMA StorablePositions ==
    ASSUME NEW pos \in PositionSets PROVE Storable(pos) /\ pos \in SUBSET Nat
  <1>1. pos # {} /\ pos \in SUBSET Nat /\ IsFiniteSet(pos)
    BY PositionsAssumption
  <1>2. \A p \in pos : p + 1 \in Nat /\ p + 1 < Power[IntBits]
    BY <1>1, FitAssumption
  <1> QED BY <1>1, <1>2 DEF Storable, Numbered, Fits

LEMMA NumbersFit ==
    ASSUME NEW n \in Nat, n <= MaxId PROVE Fits(n)
  <1>1. IntBits \in Nat /\ MaxId \in Nat
    BY WidthAssumption DEF IntBits
  <1>2. Power[IntBits] \in Nat
    BY <1>1, PowerTypes
  <1> QED BY <1>1, <1>2, FitAssumption DEF Fits

\* What the invariant says makes the decoder give the list.
LEMMA InvDecodes ==
    ASSUME IInv PROVE StoredIsList /\ WholeBytesAreRead
  <1>1. CASE list = <<>> /\ stored = <<>>
    <2>1. Len(stored) % ByteBits = 0
      BY <1>1, EmptyIsWhole DEF Whole
    <2> QED BY <1>1, <2>1 DEF StoredIsList, WholeBytesAreRead, Fetched
  <1>2. ASSUME NEW count, Encodable(list, count), stored = Encoded(list, count)
        PROVE  StoredIsList /\ WholeBytesAreRead
    <2>1. CASE compress = "golomb"
      <3>1. stored = EncodedGolomb(list, count)
        BY <1>2, <2>1 DEF Encoded
      <3>2. /\ Whole(stored) /\ stored # <<>>
            /\ DecodedGolomb(stored) = [list |-> list, at |-> Len(stored)]
        BY <1>2, <3>1, GolombRoundTrip
      <3> QED BY <2>1, <3>2 DEF StoredIsList, WholeBytesAreRead, Fetched, Whole
    <2>2. CASE compress = "none"
      <3>1. stored = EncodedNone(list)
        BY <1>2, <2>2 DEF Encoded
      <3>2. Whole(stored) /\ stored # <<>> /\ DecodedNone(stored).list = list
        BY <1>2, <3>1, PlainRoundTrip
      <3> QED BY <2>2, <3>2 DEF StoredIsList, WholeBytesAreRead, Fetched, Whole
    <2> QED BY <2>1, <2>2 DEF IInv, CountersInv
  <1> QED BY <1>1, <1>2 DEF IInv, StoredInv

LEMMA InvInit == Init => IInv
  <1> SUFFICES ASSUME Init PROVE IInv
    OBVIOUS
  <1>1. CountersInv
    BY WidthAssumption DEF Init, CountersInv
  <1>2. list = <<>> /\ list \in Seq(Posting) /\ Len(list) = 0 /\ documents = 0 /\ stored = <<>>
    BY DEF Init
  <1>3. DocsOf(list) \in Seq(Nat) /\ Len(DocsOf(list)) = 0
    <2>1. DocsOf(list) \in [1..0 -> Nat]
      BY <1>2 DEF DocsOf
    <2> QED BY <2>1, FunctionIsSeq
  <1>4. Ascends(DocsOf(list), 0)
    BY <1>3 DEF Ascends
  <1>5. ListInv
    BY <1>2, <1>4 DEF ListInv
  <1> QED BY <1>1, <1>2, <1>5 DEF IInv, StoredInv

\* One more posting, of the next document.
LEMMA ListGrows ==
    ASSUME CountersInv, ListInv, NEW pos \in PositionSets, nextId <= MaxId,
           NEW added, added = <<[doc |-> nextId, pos |-> pos]>>
    PROVE  /\ Merge(list, added) = list \o added
           /\ list \o added \in Seq(Posting)
           /\ Len(list \o added) = Len(list) + 1
           /\ \A i \in 1..Len(list) : (list \o added)[i] = list[i]
           /\ (list \o added)[Len(list) + 1] = [doc |-> nextId, pos |-> pos]
  <1>1. PICK posting : posting = [doc |-> nextId, pos |-> pos]
    OBVIOUS
  <1>2. nextId \in Nat /\ pos \in SUBSET Nat
    BY WidthAssumption, StorablePositions DEF CountersInv
  <1>3. posting \in Posting /\ posting.doc = nextId
    BY <1>1, <1>2 DEF Posting
  <1>4. added = <<posting>>
    BY <1>1
  <1>5. added \in Seq(Posting) /\ Len(added) = 1 /\ added[1] = posting
    BY <1>3, <1>4
  <1>6. list \in Seq(Posting) /\ \A i \in 1..Len(list) : list[i].doc < nextId
    BY DEF ListInv
  <1>7. \A i \in 1..Len(list), j \in 1..Len(added) : list[i].doc < added[j].doc
    BY <1>3, <1>5, <1>6
  <1>8. Merge(list, added) = list \o added
    BY <1>5, <1>6, <1>7, MergeAppend
  <1> QED BY <1>1, <1>5, <1>6, <1>8, ConcatParts

LEMMA GrownIsEncodable ==
    ASSUME CountersInv, ListInv, NEW pos \in PositionSets, nextId <= MaxId,
           NEW grown \in Seq(Posting), Len(grown) = Len(list) + 1,
           \A i \in 1..Len(list) : grown[i] = list[i],
           grown[Len(list) + 1] = [doc |-> nextId, pos |-> pos]
    PROVE  /\ Ascends(DocsOf(grown), 0)
           /\ \A i \in 1..Len(grown) : grown[i].doc <= nextId /\ grown[i].pos \in PositionSets
           /\ Encodable(grown, documents + 1)
  <1>1. PICK n \in Nat : n = Len(list)
    BY DEF ListInv
  <1>2. Len(grown) = n + 1 /\ grown[n + 1].doc = nextId /\ grown[n + 1].pos = pos
    BY <1>1
  <1>3. nextId \in Nat /\ MaxId \in Nat /\ documents \in Nat /\ documents < nextId
    BY WidthAssumption DEF CountersInv
  <1>4. ASSUME NEW i \in 1..(n + 1)
        PROVE  /\ grown[i] \in Posting /\ grown[i].doc \in Nat
               /\ grown[i].doc <= nextId /\ grown[i].pos \in PositionSets
               /\ i # n + 1 => grown[i] = list[i] /\ grown[i].doc < nextId
    <2>1. grown[i] \in Posting
      BY <1>2, ElementOfSeq
    <2>2. grown[i].doc \in Nat
      BY <2>1 DEF Posting
    <2>3. CASE i = n + 1
      BY <1>2, <1>3, <2>1, <2>2, <2>3
    <2>4. CASE i # n + 1
      <3>1. i \in 1..n
        BY <2>4
      <3>2. grown[i] = list[i] /\ list[i].doc < nextId /\ list[i].pos \in PositionSets
        BY <1>1, <3>1 DEF ListInv
      <3> QED BY <1>3, <2>1, <2>2, <2>4, <3>2
    <2> QED BY <2>3, <2>4
  <1>5. DocsOf(grown) = [i \in 1..(n + 1) |-> grown[i].doc]
    BY <1>2 DEF DocsOf
  <1>6. DocsOf(grown) \in [1..(n + 1) -> Nat]
    BY <1>4, <1>5
  <1>7. DocsOf(grown) \in Seq(Nat) /\ Len(DocsOf(grown)) = n + 1
    BY <1>6, FunctionIsSeq
  <1>8. PICK docs : docs = DocsOf(grown)
    OBVIOUS
  <1>9. \A i \in 1..(n + 1) : docs[i] = grown[i].doc
    BY <1>5, <1>8
  <1>10. \A i \in 1..n : DocsOf(list)[i] = list[i].doc
    BY <1>1 DEF DocsOf
  <1>11. ASSUME NEW i \in 1..(n + 1) PROVE docs[i] > Earlier(docs, 0, i)
    <2>1. CASE i # n + 1
      <3>1. i \in 1..n /\ docs[i] = list[i].doc
        BY <1>4, <1>9, <2>1
      <3>2. DocsOf(list)[i] > Earlier(DocsOf(list), 0, i)
        <4>1. Len(DocsOf(list)) = n
          BY <1>1 DEF DocsOf
        <4> QED BY <3>1, <4>1 DEF ListInv, Ascends
      <3>3. Earlier(DocsOf(list), 0, i) = Earlier(docs, 0, i)
        <4>1. CASE i = 1
          BY <4>1 DEF Earlier
        <4>2. CASE i # 1
          <5>1. i - 1 \in 1..n /\ i - 1 \in 1..(n + 1) /\ i - 1 # n + 1
            BY <3>1, <4>2
          <5>2. docs[i - 1] = list[i - 1].doc
            BY <1>4, <1>9, <5>1
          <5> QED BY <1>10, <4>2, <5>1, <5>2 DEF Earlier
        <4> QED BY <4>1, <4>2
      <3> QED BY <1>10, <3>1, <3>2, <3>3
    <2>2. CASE i = n + 1
      <3>1. docs[i] = nextId /\ nextId > 0
        BY <1>2, <1>3, <1>9, <2>2
      <3>2. CASE i = 1
        BY <3>1, <3>2 DEF Earlier
      <3>3. CASE i # 1
        <4>1. i - 1 \in 1..(n + 1) /\ i - 1 # n + 1
          BY <2>2, <3>3
        <4>2. docs[i - 1] < nextId /\ docs[i - 1] \in Nat
          BY <1>4, <1>9, <4>1
        <4> QED BY <1>3, <3>1, <3>3, <4>2 DEF Earlier
      <3> QED BY <3>2, <3>3
    <2> QED BY <2>1, <2>2
  <1>12. Ascends(DocsOf(grown), 0)
    BY <1>7, <1>8, <1>11 DEF Ascends
  <1>13. ASSUME NEW i \in 1..(n + 1) PROVE Fits(grown[i].doc) /\ Storable(grown[i].pos)
    <2>1. grown[i].doc \in Nat /\ grown[i].doc <= MaxId
      BY <1>3, <1>4
    <2> QED BY <1>4, <2>1, NumbersFit, StorablePositions
  <1>14. Fits(documents + 1) /\ n + 1 \in 1..(documents + 1)
    <2>1. n <= documents
      BY <1>1 DEF ListInv
    <2>2. documents + 1 \in Nat /\ documents + 1 <= MaxId
      BY <1>3
    <2> QED BY <1>3, <2>1, <2>2, NumbersFit
  <1>15. Encodable(grown, documents + 1)
    BY <1>2, <1>12, <1>13, <1>14 DEF Encodable
  <1> QED BY <1>2, <1>4, <1>12, <1>15

\* What Update stores, whatever the parameter was before.
LEMMA UpdateKeepsInv ==
    ASSUME IInv, NEW pos \in PositionSets, Update(pos)
    PROVE  IInv'
  <1>1. PICK added : added = <<[doc |-> nextId, pos |-> pos]>>
    OBVIOUS
  <1>2. /\ nextId <= MaxId
        /\ nextId' = nextId + 1
        /\ documents' = documents + 1
        /\ compress' = compress
        /\ list' = Merge(list, added)
        /\ stored' = Encoded(Merge(Fetched(stored), added), documents')
    BY <1>1 DEF Update
  <1>3. Fetched(stored) = list
    BY InvDecodes DEF StoredIsList
  <1>4. CountersInv /\ ListInv /\ MaxId \in Nat /\ IntBits \in Nat
    BY WidthAssumption DEF IInv, IntBits
  <1>5. /\ list' = list \o added
        /\ list' \in Seq(Posting)
        /\ Len(list') = Len(list) + 1
        /\ \A i \in 1..Len(list) : list'[i] = list[i]
        /\ list'[Len(list) + 1] = [doc |-> nextId, pos |-> pos]
    <2>1. /\ Merge(list, added) = list \o added
          /\ list \o added \in Seq(Posting)
          /\ Len(list \o added) = Len(list) + 1
          /\ \A i \in 1..Len(list) : (list \o added)[i] = list[i]
          /\ (list \o added)[Len(list) + 1] = [doc |-> nextId, pos |-> pos]
      BY <1>1, <1>2, <1>4, ListGrows
    <2>2. list' = list \o added
      BY <1>2, <2>1
    <2> QED BY <2>1, <2>2
  <1>6. PICK grown \in Seq(Posting) : grown = list'
    BY <1>5
  <1>7. /\ Ascends(DocsOf(grown), 0)
        /\ \A i \in 1..Len(grown) : grown[i].doc <= nextId /\ grown[i].pos \in PositionSets
        /\ Encodable(grown, documents + 1)
    BY <1>2, <1>4, <1>5, <1>6, GrownIsEncodable
  <1>8. nextId \in Nat /\ documents \in Nat /\ Len(list) \in Nat
    BY <1>4 DEF CountersInv, ListInv
  <1>9. CountersInv'
    BY <1>2, <1>4, <1>8 DEF CountersInv
  <1>10. \A i \in 1..Len(grown) : grown[i].doc < nextId' /\ grown[i].pos \in PositionSets
    <2> SUFFICES ASSUME NEW i \in 1..Len(grown)
                 PROVE  grown[i].doc < nextId' /\ grown[i].pos \in PositionSets
      OBVIOUS
    <2>1. grown[i] \in Posting
      BY ElementOfSeq
    <2>2. grown[i].doc \in Nat
      BY <2>1 DEF Posting
    <2> QED BY <1>2, <1>7, <1>8, <2>2
  <1>11. Len(grown) <= documents'
    BY <1>2, <1>4, <1>5, <1>6, <1>8 DEF ListInv
  <1>12. ListInv'
    BY <1>6, <1>7, <1>10, <1>11 DEF ListInv, DocsOf
  <1>13. list' # <<>>
    BY <1>5, <1>8, EmptySeq
  <1>14. StoredInv'
    <2>1. PICK count : count = documents + 1
      OBVIOUS
    <2>2. stored' = IF compress' = "golomb" THEN EncodedGolomb(list', count)
                                            ELSE EncodedNone(list')
      BY <1>2, <1>3, <2>1 DEF Encoded
    <2>3. Encodable(list', count)
      BY <1>6, <1>7, <2>1
    <2> QED BY <1>13, <2>2, <2>3 DEF StoredInv, Encoded
  <1> QED BY <1>9, <1>12, <1>14 DEF IInv

LEMMA InvNext == IInv /\ [Next]_vars => IInv'
  <1> SUFFICES ASSUME IInv, [Next]_vars PROVE IInv'
    OBVIOUS
  <1>1. ASSUME compress' = compress, list' = list, stored' = stored
        PROVE  StoredInv'
    BY <1>1 DEF IInv, StoredInv, Encoded
  <1>2. ASSUME list' = list, nextId' >= nextId, documents' >= documents,
               nextId' \in Nat, documents' \in Nat
        PROVE  ListInv'
    <2>1. nextId \in Nat /\ documents \in Nat /\ list \in Seq(Posting)
      BY WidthAssumption DEF IInv, CountersInv, ListInv
    <2>2. \A i \in 1..Len(list) : list[i].doc \in Nat
      <3> SUFFICES ASSUME NEW i \in 1..Len(list) PROVE list[i].doc \in Nat
        OBVIOUS
      <3>1. list[i] \in Posting
        BY <2>1, ElementOfSeq
      <3> QED BY <3>1 DEF Posting
    <2>3. \A i \in 1..Len(list) : list[i].doc < nextId' /\ list[i].pos \in PositionSets
      BY <1>2, <2>1, <2>2 DEF IInv, ListInv
    <2>4. Len(list) <= documents'
      BY <1>2, <2>1 DEF IInv, ListInv
    <2> QED BY <1>2, <2>3, <2>4 DEF IInv, ListInv, DocsOf
  <1>3. CASE AddOther
    <2>1. CountersInv' /\ nextId' \in Nat /\ documents' \in Nat
      BY <1>3, WidthAssumption DEF AddOther, IInv, CountersInv
    <2>2. list' = list /\ nextId' >= nextId /\ documents' >= documents
      BY <1>3, WidthAssumption DEF AddOther, IInv, CountersInv
    <2>3. StoredInv'
      BY <1>1, <1>3 DEF AddOther
    <2> QED BY <1>2, <2>1, <2>2, <2>3 DEF IInv
  <1>4. CASE LoseDocument
    <2>1. CountersInv' /\ nextId' \in Nat /\ documents' \in Nat
      BY <1>4, WidthAssumption DEF LoseDocument, IInv, CountersInv
    <2>2. list' = list /\ nextId' >= nextId /\ documents' >= documents
      BY <1>4, WidthAssumption DEF LoseDocument, IInv, CountersInv
    <2>3. StoredInv'
      BY <1>1, <1>4 DEF LoseDocument
    <2> QED BY <1>2, <2>1, <2>2, <2>3 DEF IInv
  <1>5. CASE \E pos \in PositionSets : Update(pos)
    BY <1>5, UpdateKeepsInv
  <1>6. CASE UNCHANGED vars
    BY <1>6 DEF vars, IInv, CountersInv, ListInv, StoredInv, Encoded, DocsOf
  <1> QED BY <1>3, <1>4, <1>5, <1>6 DEF Next

\* Every state reached has the invariant.
LEMMA AlwaysInv == Spec => []IInv
  <1> QED BY InvInit, InvNext, PTL DEF Spec

(***************************************************************************)
(* However often the list of a token is fetched, merged with the posting   *)
(* of a new document, and encoded again with another parameter             *)
(* (update_postings, encode_postings_golomb), what is stored decodes to    *)
(* the list.                                                               *)
(***************************************************************************)
THEOREM StoredAlwaysDecodes == Spec => []StoredIsList
  <1>1. IInv => StoredIsList
    BY InvDecodes
  <1> QED BY <1>1, AlwaysInv, PTL

(***************************************************************************)
(* The encoder leaves whole bytes, and the decoder reads all of them.      *)
(***************************************************************************)
THEOREM WholeBytesAlwaysRead == Spec => []WholeBytesAreRead
  <1>1. IInv => WholeBytesAreRead
    BY InvDecodes
  <1> QED BY <1>1, AlwaysInv, PTL

=============================================================================
